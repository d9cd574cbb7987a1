--------------------------- MODULE RequestProofs ----------------------------
(***************************************************************************)
(* The proofs about the requests of the event log collector: downloads of  *)
(* files of any length under any stall timeout (Download), and queries of  *)
(* any number of collectors that share a token, with any number of rows,   *)
(* pages, expired sessions and failures (RestQuery).                       *)
(***************************************************************************)
EXTENDS RestQuery, Download, FiniteSetTheorems, TLAPS

-----------------------------------------------------------------------------
(* Downloads.  The lengths the server tells, the watchdog's timer and the  *)
(* temporary file.                                                         *)
Advertised ==
    /\ contentLength \in {-1, FileLength} /\ logFileLength \in {0, FileLength}
    /\ contentLength >= 0 \/ logFileLength > 0

(* The timer and the pause it measures always add up to the timeout.       *)
TimerMatchesPause ==
    /\ timer \in Int /\ quiet \in Nat /\ longest \in Nat
    /\ timer + quiet = Stall
    /\ quiet <= longest
    /\ fired \/ cancelled = "watchdog" => longest >= Stall

FilesOK ==
    /\ written \in Nat
    /\ stage \in {"read", "ok"} => written = FileLength
    /\ stage \in {"request", "ok", "failed"} => temp = FALSE

DownloadInv == Advertised /\ TimerMatchesPause /\ FilesOK

(* A timer that has run out has measured a whole timeout.                  *)
LEMMA ElapsedTimer ==
    \A t, q, l \in Int : t + q = Stall /\ q <= l /\ t = 0 => l >= Stall
BY DownloadAssumption

(* Every step keeps the invariant.                                         *)
LEMMA DownloadKept ==
    ASSUME DownloadInv, [DownloadNext]_downloadVars
    PROVE  DownloadInv'
<1> USE DownloadAssumption DEF DownloadInv
<1>1. Advertised'
  BY DEF DownloadNext, downloadVars, server, Advertised, Respond, RequestFails, Read, BodyEnds, CopyFails, Verify,
         ArchiveLogFile, Watchdog, Shutdown, Cancelled, Tick
<1>2. CASE Respond
  BY <1>1, <1>2 DEF Respond, TimerMatchesPause, FilesOK
<1>3. CASE RequestFails
  BY <1>1, <1>3 DEF RequestFails, Fail, TimerMatchesPause, FilesOK
<1>4. CASE Read
  BY <1>1, <1>4 DEF Read, TimerMatchesPause, FilesOK
<1>5. CASE BodyEnds
  <2>1. TimerMatchesPause'
    BY <1>5 DEF BodyEnds, TimerMatchesPause
  <2>2. FilesOK'
    BY <1>5 DEF BodyEnds, Fail, FilesOK
  <2> QED BY <1>1, <2>1, <2>2
<1>6. CASE CopyFails
  BY <1>1, <1>6 DEF CopyFails, Fail, TimerMatchesPause, FilesOK
<1>7. CASE Verify
  <2>1. TimerMatchesPause'
    BY <1>7 DEF Verify, TimerMatchesPause
  <2>2. FilesOK'
    <3>1. CASE \/ contentLength >= 0 /\ written # contentLength
               \/ logFileLength > 0 /\ written # logFileLength
      BY <1>7, <3>1 DEF Verify, Fail, FilesOK
    <3>2. CASE ~(\/ contentLength >= 0 /\ written # contentLength
                 \/ logFileLength > 0 /\ written # logFileLength)
      <4>1. written = FileLength
        BY <3>2 DEF Advertised
      <4> QED BY <4>1, <1>7, <3>2 DEF Verify, FilesOK
    <3> QED BY <3>1, <3>2
  <2> QED BY <1>1, <2>1, <2>2
<1>8. CASE ArchiveLogFile
  BY <1>1, <1>8 DEF ArchiveLogFile, TimerMatchesPause, FilesOK
<1>9. CASE Watchdog \/ Shutdown
  BY <1>1, <1>9 DEF Watchdog, Shutdown, TimerMatchesPause, FilesOK
<1>10. CASE Cancelled
  BY <1>1, <1>10 DEF Cancelled, Fail, TimerMatchesPause, FilesOK
<1>11. CASE Tick
  <2>1. TimerMatchesPause'
    <3>1. timer' \in Int /\ quiet' \in Nat /\ longest' \in Nat /\ timer' + quiet' = Stall /\ quiet' <= longest'
      BY <1>11 DEF Tick, TimerMatchesPause
    <3>2. fired' => timer' = 0
      BY <1>11, Zenon DEF Tick
    <3>3. cancelled' = cancelled /\ longest <= longest'
      BY <1>11 DEF Tick, TimerMatchesPause
    <3>4. timer' = 0 => longest' >= Stall
      BY ONLY <3>1, ElapsedTimer
    <3>5. cancelled = "watchdog" => longest' >= Stall
      BY <3>1, <3>3 DEF TimerMatchesPause
    <3>6. fired' \/ cancelled' = "watchdog" => longest' >= Stall
      BY <3>2, <3>3, <3>4, <3>5, Zenon
    <3> QED BY <3>1, <3>6, Zenon DEF TimerMatchesPause
  <2>2. FilesOK'
    BY <1>11 DEF Tick, FilesOK
  <2> QED BY <1>1, <2>1, <2>2
<1>12. CASE UNCHANGED downloadVars
  BY <1>1, <1>12 DEF downloadVars, server, TimerMatchesPause, FilesOK
<1> QED BY <1>2, <1>3, <1>4, <1>5, <1>6, <1>7, <1>8, <1>9, <1>10, <1>11, <1>12 DEF DownloadNext

(* The initial states satisfy the invariant.                               *)
LEMMA DownloadStarts ==
    ASSUME DownloadInit
    PROVE  DownloadInv
BY DownloadAssumption DEF DownloadInit, DownloadInv, Advertised, TimerMatchesPause, FilesOK

(* Only whole files reach the collector, no temporary file is left behind, *)
(* and the watchdog gives up only downloads that stalled (DownloadCsvFile).*)
THEOREM DownloadsAreWhole == DownloadSpec => []DownloadSafe
<1>1. DownloadInit => DownloadInv
  BY DownloadStarts
<1>2. DownloadInv /\ [DownloadNext]_downloadVars => DownloadInv'
  BY DownloadKept
<1>3. DownloadInv => DownloadSafe
  BY DEF DownloadInv, FilesOK, TimerMatchesPause, DownloadSafe, WholeFileOnly, NothingLeft, OnlyStalledCancelled
<1> QED BY <1>1, <1>2, <1>3, PTL DEF DownloadSpec

-----------------------------------------------------------------------------
(* Queries.                                                                *)

(* The first k rows.                                                       *)
FirstRows(k) == [i \in 1..k |-> i]

(* A query that is not over has no result; one that has not begun has no   *)
(* cursor.                                                                 *)
StageOK(c) ==
    /\ pc[c] # "idle" => result[c] = "none"
    /\ pc[c] \in {"start", "whoami", "idle"} => next[c] = NoCursor /\ phase[c] = "first"

(* What was received so far is what lies before the cursor, and the cursor *)
(* is still open at the server.                                            *)
RowsOK(c) ==
    /\ result[c] = "complete" => got[c] = FirstRows(snapshot[c])
    /\ result[c] # "locator"
    /\ pc[c] # "idle" /\ next[c] = NoCursor => got[c] = FirstRows(0)
    /\ next[c] # NoCursor =>
          /\ next[c] \in cursors
          /\ next[c].owner = c /\ next[c].size = snapshot[c]
          /\ 0 < next[c].offset /\ next[c].offset < next[c].size
          /\ got[c] = FirstRows(next[c].offset)

(* A client that has dropped a rejected token and that nothing disturbed   *)
(* finds only good tokens from then on.                                    *)
TokenOK(c) ==
    /\ result[c] = "rejected" => disturbed[c]
    /\ ~disturbed[c] /\ pc[c] = "store" => token[c] \in valid
    /\ ~disturbed[c] /\ pc[c] = "send" /\ phase[c] = "retry" => token[c] \in valid
    /\ ~disturbed[c] /\ phase[c] # "first" => cached \in valid \union {NoToken}

QueryInv == TypeOK /\ \A c \in Clients : StageOK(c) /\ RowsOK(c) /\ TokenOK(c)

-----------------------------------------------------------------------------
(* There is always a token that nobody holds: clients hold one each and    *)
(* the cache holds one.                                                    *)
LEMMA FreshToken ==
  ASSUME TypeOK
  PROVE  \E t \in Tokens : t \notin Held
<1> DEFINE T == {token[c] : c \in Clients}
<1>1. IsFiniteSet(T) /\ Cardinality(T) <= Cardinality(Clients)
  <2>1. token \in Surjection(Clients, T)
    BY DEF TypeOK, Surjection
  <2> QED BY <2>1, RestAssumption, FS_Surjection
<1>2. Cardinality(T) \in Nat /\ Cardinality(Clients) \in Nat /\ Cardinality(Tokens) \in Nat
  BY <1>1, RestAssumption, FS_CardinalityType
<1>3. IsFiniteSet(T \union {cached}) /\ Cardinality(T \union {cached}) <= Cardinality(Clients) + 1
  <2> HIDE DEF T
  <2>1. /\ IsFiniteSet(T \union {cached})
        /\ Cardinality(T \union {cached}) = IF cached \in T THEN Cardinality(T) ELSE Cardinality(T) + 1
    BY <1>1, FS_AddElement
  <2> QED BY <1>1, <1>2, <2>1
<1>4. Held = T \union {cached}
  BY DEF Held
<1>5. ASSUME Tokens \subseteq T \union {cached} PROVE FALSE
  <2>1. Cardinality(Tokens) <= Cardinality(T \union {cached})
    BY <1>3, <1>5, FS_Subset
  <2>2. Cardinality(T \union {cached}) \in Nat
    BY <1>3, FS_CardinalityType
  <2> QED BY <1>2, <1>3, <2>1, <2>2, RestAssumption
<1> QED BY <1>4, <1>5

(* A login issues a token that is valid and new; what is held stays valid. *)
LEMMA Issued ==
  ASSUME TypeOK, NEW c \in Clients, IssueToken(c)
  PROVE  /\ valid' \subseteq Tokens /\ token'[c] \in valid' /\ token'[c] \in Tokens
         /\ token' = [token EXCEPT ![c] = token'[c]]
         /\ cached \in valid => cached \in valid'
         /\ \A d \in Clients : token[d] \in valid => token[d] \in valid'
<1>1. PICK t \in Tokens : /\ valid' = (valid \intersect Held) \union {t}
                          /\ token' = [token EXCEPT ![c] = t]
  <2> DEFINE t0 == CHOOSE t \in Tokens \ Held : TRUE
  <2>1. t0 \in Tokens
    BY FreshToken
  <2>2. /\ valid' = (valid \intersect Held) \union {t0}
        /\ token' = [token EXCEPT ![c] = t0]
    BY DEF IssueToken
  <2> HIDE DEF t0
  <2> QED BY <2>1, <2>2
<1>2. token'[c] = t
  BY <1>1 DEF TypeOK
<1>3. cached \in Held /\ \A d \in Clients : token[d] \in Held
  BY DEF Held
<1> QED BY <1>1, <1>2, <1>3 DEF TypeOK

(* A page after the first k rows gives the first k + m rows.               *)
LEMMA PageAppended ==
  ASSUME NEW k \in Nat, NEW m \in Nat
  PROVE  FirstRows(k) \o [i \in 1..m |-> k + i] = FirstRows(k + m)
<1> DEFINE s == FirstRows(k)
<1> DEFINE t == [i \in 1..m |-> k + i]
<1>1. s \in Seq(Nat) /\ Len(s) = k /\ \A i \in 1..k : s[i] = i
  BY DEF FirstRows
<1>2. t \in Seq(Nat) /\ Len(t) = m /\ \A i \in 1..m : t[i] = k + i
  OBVIOUS
<1> HIDE DEF s, t
<1>3. s \o t \in Seq(Nat) /\ Len(s \o t) = k + m
  BY <1>1, <1>2
<1>4. \A i \in 1..(k + m) : (s \o t)[i] = i
  BY <1>1, <1>2
<1>5. s \o t = [i \in 1..(k + m) |-> i]
  <2>1. ASSUME NEW u \in Seq(Nat), Len(u) = k + m, \A i \in 1..(k + m) : u[i] = i
        PROVE  u = [i \in 1..(k + m) |-> i]
    BY <2>1
  <2> QED BY <1>3, <1>4, <2>1
<1> QED BY <1>5 DEF s, t, FirstRows

(* The rows of an object are numbers of rows.                              *)
LEMMA RowsAreRows ==
  ASSUME NEW k \in 0..MaxRows
  PROVE  FirstRows(k) \in Seq(1..MaxRows)
<1>1. k \in Nat /\ MaxRows \in Nat /\ k <= MaxRows
  BY RestAssumption
<1> QED BY <1>1 DEF FirstRows

(* What a page holds: the rows from the offset to its end, and a cursor    *)
(* behind them unless the result ends there.                               *)
PageEnds(c, size, offset, p, end) ==
    /\ offset <= end /\ end <= size
    /\ FirstRows(offset) \o p.rows = FirstRows(end)
    /\ p.done => end = size
    /\ p.url # NoCursor =>
          /\ p.url = [owner |-> c, size |-> size, offset |-> end]
          /\ 0 < end /\ end < size

(* Every page of the server ends somewhere in the result.                  *)
LEMMA PageOf ==
  ASSUME NEW c \in Clients, NEW size \in 0..MaxRows, NEW offset \in 0..MaxRows, offset <= size,
         NEW p, p = RespondPage(c, size, offset)
  PROVE  \E end \in 0..MaxRows : PageEnds(c, size, offset, p, end)
<1> DEFINE e == IF offset + QueryPageSize > size THEN size ELSE offset + QueryPageSize
<1>1. /\ size \in Nat /\ offset \in Nat /\ MaxRows \in Nat /\ size <= MaxRows
      /\ QueryPageSize \in Nat /\ QueryPageSize > 0
  BY RestAssumption
<1>2. e \in 0..MaxRows /\ offset <= e /\ e <= size /\ (e < size => 0 < e)
  BY <1>1
<1>3. /\ p.rows = [i \in 1..(e - offset) |-> offset + i]
      /\ p.done => e >= size
      /\ p.url = IF truncate \/ e >= size THEN NoCursor
                 ELSE [owner |-> c, size |-> size, offset |-> e]
  BY DEF RespondPage
<1> HIDE DEF e
<1>4. FirstRows(offset) \o p.rows = FirstRows(e)
  <2>1. e - offset \in Nat /\ offset + (e - offset) = e
    BY <1>1, <1>2
  <2>2. FirstRows(offset) \o [i \in 1..(e - offset) |-> offset + i] = FirstRows(offset + (e - offset))
    BY <1>1, <2>1, PageAppended
  <2> QED BY <1>3, <2>1, <2>2
<1>5. p.done => e = size
  BY <1>1, <1>2, <1>3
<1>6. p.url # NoCursor => /\ p.url = [owner |-> c, size |-> size, offset |-> e]
                          /\ 0 < e /\ e < size
  BY <1>1, <1>2, <1>3
<1>7. PageEnds(c, size, offset, p, e)
  BY <1>2, <1>4, <1>5, <1>6 DEF PageEnds
<1> QED BY <1>2, <1>7

-----------------------------------------------------------------------------
(* How a step of one client looks to the others.                           *)

ClientTypes ==
    /\ pc \in [Clients -> {"start", "whoami", "idle", "auth", "login", "store", "send", "drop"}]
    /\ token \in [Clients -> Tokens \union {NoToken}]
    /\ phase \in [Clients -> {"first", "relogin", "retry"}]
    /\ page \in [Clients -> 0..(MaxPages - 1)]
    /\ next \in [Clients -> Cursor \union {NoCursor}]
    /\ got \in [Clients -> Seq(1..MaxRows)]
    /\ result \in [Clients -> Results]

OtherTypes ==
    /\ auth \in AuthConfigs /\ truncate \in Truncating
    /\ rows \in 0..MaxRows
    /\ valid \subseteq Tokens
    /\ cursors \subseteq Cursor
    /\ cached \in Tokens \union {NoToken}
    /\ snapshot \in [Clients -> 0..MaxRows]
    /\ disturbed \in [Clients -> BOOLEAN]
    /\ expiries \in 0..MaxExpiries /\ faults \in 0..MaxFaults

(* The types in two parts.                                                 *)
LEMMA TypesSplit == TypeOK <=> ClientTypes /\ OtherTypes
BY DEF TypeOK, ClientTypes, OtherTypes

SameAt(d) ==
    /\ pc'[d] = pc[d] /\ token'[d] = token[d] /\ phase'[d] = phase[d]
    /\ next'[d] = next[d] /\ got'[d] = got[d] /\ result'[d] = result[d]

(* Tokens that were good for d still are.                                  *)
StillGood(d) ==
    /\ token[d] \in valid => token[d] \in valid'
    /\ phase[d] # "first" /\ cached \in valid \union {NoToken}
          => cached' \in valid' \union {NoToken}

(* A step of client c keeps the invariant if it keeps that of c, leaves    *)
(* the cursors of the others alone, and disturbs those whose tokens it     *)
(* spoils.                                                                 *)
LEMMA ClientMoves ==
  ASSUME QueryInv, NEW c \in Clients, TypeOK', StageOK(c)', RowsOK(c)', TokenOK(c)',
         \A d \in Clients \ {c} : SameAt(d) /\ snapshot'[d] = snapshot[d],
         \A d \in Clients \ {c} : disturbed[d] => disturbed'[d],
         \A q \in cursors : q.owner # c => q \in cursors',
         \A d \in Clients \ {c} : disturbed'[d] \/ StillGood(d)
  PROVE  QueryInv'
<1> SUFFICES ASSUME NEW d \in Clients \ {c} PROVE StageOK(d)' /\ RowsOK(d)' /\ TokenOK(d)'
  BY DEF QueryInv
<1>1. SameAt(d) /\ snapshot'[d] = snapshot[d]
  OBVIOUS
<1>2. StageOK(d) /\ RowsOK(d) /\ TokenOK(d)
  BY DEF QueryInv
<1>3. StageOK(d)'
  BY <1>1, <1>2 DEF SameAt, StageOK
<1>4. RowsOK(d)'
  BY <1>1, <1>2 DEF SameAt, RowsOK
<1>5. TokenOK(d)'
  <2>1. result'[d] = "rejected" => disturbed'[d]
    BY <1>1, <1>2 DEF SameAt, TokenOK
  <2>2. CASE disturbed'[d]
    BY <2>2 DEF TokenOK
  <2>3. CASE ~disturbed'[d]
    <3>1. ~disturbed[d] /\ StillGood(d)
      BY <2>3
    <3> QED BY <1>1, <1>2, <2>1, <3>1 DEF SameAt, TokenOK, StillGood
  <2> QED BY <2>2, <2>3
<1> QED BY <1>3, <1>4, <1>5

(* What Finish leaves behind.                                              *)
LEMMA Finished ==
  ASSUME TypeOK, NEW c \in Clients, NEW how \in Results, NEW received \in Seq(1..MaxRows),
         Finish(c, how, received)
  PROVE  /\ ClientTypes'
         /\ pc'[c] = "idle" /\ phase'[c] = "first" /\ next'[c] = NoCursor
         /\ result'[c] = how /\ got'[c] = received
         /\ \A d \in Clients \ {c} : SameAt(d)
<1>1. 0 \in 0..(MaxPages - 1)
  BY RestAssumption
<1>2. ClientTypes'
  <2>1. pc' \in [Clients -> {"start", "whoami", "idle", "auth", "login", "store", "send", "drop"}]
        /\ token' \in [Clients -> Tokens \union {NoToken}]
        /\ phase' \in [Clients -> {"first", "relogin", "retry"}]
    BY DEF Finish, Goto, TypeOK
  <2>2. page' \in [Clients -> 0..(MaxPages - 1)]
    BY <1>1 DEF Finish, TypeOK
  <2>3. next' \in [Clients -> Cursor \union {NoCursor}]
    BY DEF Finish, TypeOK
  <2>4. got' \in [Clients -> Seq(1..MaxRows)]
    BY DEF Finish, TypeOK
  <2>5. result' \in [Clients -> Results]
    BY DEF Finish, TypeOK
  <2> QED BY <2>1, <2>2, <2>3, <2>4, <2>5 DEF ClientTypes
<1>3. /\ pc'[c] = "idle" /\ phase'[c] = "first" /\ next'[c] = NoCursor
      /\ result'[c] = how /\ got'[c] = received
  BY DEF Finish, Goto, TypeOK
<1>4. \A d \in Clients \ {c} : SameAt(d)
  BY DEF Finish, Goto, TypeOK, SameAt
<1> QED BY <1>2, <1>3, <1>4

(* What a fault costs.                                                     *)
LEMMA FaultCounted ==
  ASSUME TypeOK, Fault \/ UNCHANGED faults
  PROVE  faults' \in 0..MaxFaults
BY RestAssumption DEF TypeOK, Fault

(* Whom Disturb reaches.                                                   *)
LEMMA Disturbed ==
  ASSUME TypeOK, NEW S, Disturb(S)
  PROVE  /\ disturbed' \in [Clients -> BOOLEAN]
         /\ \A d \in Clients : disturbed[d] => disturbed'[d]
         /\ \A d \in Clients \intersect S : pc[d] # "idle" => disturbed'[d]
         /\ \A d \in Clients \ S : disturbed'[d] => disturbed[d]
BY Zenon DEF Disturb, TypeOK

-----------------------------------------------------------------------------
(* The actions.                                                            *)

(* Rows are added, sessions end, the cache entry expires.                  *)
LEMMA WorldKeeps ==
  ASSUME QueryInv, AddRow \/ Expire \/ CacheExpires
  PROVE  QueryInv'
<1> USE RestAssumption
<1>1. /\ UNCHANGED <<auth, truncate, cursors, snapshot, faults>>
      /\ UNCHANGED <<pc, token, phase, page, next, got, result>>
  BY DEF AddRow, Expire, CacheExpires, setVars, clientVars, ghostVars, serverVars, countVars
<1>2. ASSUME TypeOK', \A c \in Clients : TokenOK(c)' PROVE QueryInv'
  BY <1>1, <1>2 DEF QueryInv, StageOK, RowsOK
<1>3. TypeOK
  BY DEF QueryInv
<1>4. CASE AddRow
  <2>1. rows' \in 0..MaxRows /\ UNCHANGED <<valid, cached, disturbed, expiries>>
    BY <1>3, <1>4 DEF AddRow, TypeOK, ghostVars, countVars
  <2>2. TypeOK'
    BY <1>1, <1>3, <2>1 DEF TypeOK
  <2>3. \A c \in Clients : TokenOK(c)'
    BY <1>1, <2>1 DEF QueryInv, TokenOK
  <2> QED BY <1>2, <2>2, <2>3
<1>5. CASE CacheExpires
  <2>1. cached' = NoToken /\ UNCHANGED <<rows, valid, disturbed, expiries>>
    BY <1>5 DEF CacheExpires, ghostVars, countVars, serverVars
  <2>2. TypeOK'
    BY <1>1, <1>3, <2>1 DEF TypeOK
  <2>3. \A c \in Clients : TokenOK(c)'
    BY <1>1, <2>1 DEF QueryInv, TokenOK
  <2> QED BY <1>2, <2>2, <2>3
<1>6. CASE Expire
  <2>1. valid' \subseteq Tokens /\ expiries' \in 0..MaxExpiries /\ UNCHANGED <<rows, cached>>
    BY <1>3, <1>6 DEF Expire, TypeOK
  <2>2. /\ disturbed' \in [Clients -> BOOLEAN]
        /\ \A d \in Clients : disturbed[d] => disturbed'[d]
        /\ \A d \in Clients \intersect Clients : pc[d] # "idle" => disturbed'[d]
    BY <1>3, <1>6, Disturbed DEF Expire
  <2>3. TypeOK'
    BY <1>1, <1>3, <2>1, <2>2 DEF TypeOK
  <2>4. ASSUME NEW c \in Clients PROVE TokenOK(c)'
    <3>1. StageOK(c) /\ TokenOK(c)
      BY DEF QueryInv
    <3>2. CASE pc[c] = "idle"
      BY <1>1, <2>2, <3>1, <3>2 DEF StageOK, TokenOK
    <3>3. CASE pc[c] # "idle"
      BY <1>1, <2>2, <3>3 DEF TokenOK
    <3> QED BY <3>2, <3>3
  <2> QED BY <1>2, <2>3, <2>4
<1> QED BY <1>4, <1>5, <1>6

(* A query begins.                                                         *)
LEMMA StartQueryKeeps ==
  ASSUME QueryInv, NEW c \in Clients, StartQuery(c)
  PROVE  QueryInv'
<1> USE RestAssumption
<1>1. TypeOK /\ StageOK(c)
  BY DEF QueryInv
<1>2. /\ UNCHANGED <<auth, truncate, rows, valid, cached, token, phase, page, next, expiries, faults>>
      /\ pc[c] = "idle" /\ pc' = [pc EXCEPT ![c] = "auth"]
      /\ got' = [got EXCEPT ![c] = <<>>] /\ result' = [result EXCEPT ![c] = "none"]
      /\ snapshot' = [snapshot EXCEPT ![c] = 0] /\ disturbed' = [disturbed EXCEPT ![c] = FALSE]
      /\ cursors' = {q \in cursors : q.owner # c}
  BY DEF StartQuery, Goto, setVars, countVars
<1>3. TypeOK'
  <2>1. <<>> \in Seq(1..MaxRows) /\ 0 \in 0..MaxRows
    OBVIOUS
  <2>2. ClientTypes'
    BY <1>1, <1>2, <2>1 DEF TypeOK, ClientTypes, Results
  <2>3. OtherTypes'
    BY <1>1, <1>2, <2>1 DEF TypeOK, OtherTypes
  <2> QED BY <2>2, <2>3 DEF TypeOK, ClientTypes, OtherTypes
<1>4. /\ pc'[c] = "auth" /\ got'[c] = <<>> /\ result'[c] = "none" /\ next'[c] = NoCursor
      /\ phase'[c] = "first"
  BY <1>1, <1>2 DEF TypeOK, StageOK
<1>5. StageOK(c)' /\ TokenOK(c)'
  BY <1>4 DEF StageOK, TokenOK
<1>6. RowsOK(c)'
  BY <1>4 DEF RowsOK, FirstRows
<1>7. \A d \in Clients \ {c} : SameAt(d) /\ snapshot'[d] = snapshot[d]
  BY <1>1, <1>2 DEF TypeOK, SameAt
<1>8. \A d \in Clients \ {c} : disturbed[d] => disturbed'[d]
  BY <1>1, <1>2 DEF TypeOK
<1>9. \A d \in Clients \ {c} : StillGood(d)
  BY <1>2 DEF StillGood
<1> QED BY <1>2, <1>3, <1>5, <1>6, <1>7, <1>8, <1>9, ClientMoves


(* The login and the call of userinfo at start-up.                         *)
LEMMA DiscoverKeeps ==
  ASSUME QueryInv, NEW c \in Clients, DiscoverOrgId(c)
  PROVE  QueryInv'
<1>1. TypeOK /\ StageOK(c) /\ RowsOK(c) /\ TokenOK(c)
  BY DEF QueryInv
<1>2. /\ UNCHANGED <<auth, truncate, rows, cursors, cached, phase, page, next, got, result>>
      /\ UNCHANGED <<snapshot, disturbed, expiries, faults>>
      /\ pc[c] = "start" /\ pc' = [pc EXCEPT ![c] = "whoami"]
  BY DEF DiscoverOrgId, Goto, setVars, ghostVars, countVars
<1>3. /\ valid' \subseteq Tokens /\ token'[c] \in valid' /\ token'[c] \in Tokens
      /\ token' = [token EXCEPT ![c] = token'[c]]
      /\ cached \in valid => cached \in valid'
      /\ \A d \in Clients : token[d] \in valid => token[d] \in valid'
  BY <1>1, Issued DEF DiscoverOrgId
<1>4. TypeOK'
  <2>1. ClientTypes'
    BY <1>1, <1>2, <1>3 DEF TypeOK, ClientTypes
  <2>2. OtherTypes'
    BY <1>1, <1>2, <1>3 DEF TypeOK, OtherTypes
  <2> QED BY <2>1, <2>2 DEF TypeOK, ClientTypes, OtherTypes
<1>5. pc'[c] = "whoami"
  BY <1>1, <1>2 DEF TypeOK
<1>6. StageOK(c)' /\ TokenOK(c)'
  BY <1>1, <1>2, <1>5 DEF StageOK, TokenOK
<1>7. RowsOK(c)'
  BY <1>1, <1>2, <1>5 DEF RowsOK
<1>8. \A d \in Clients \ {c} : SameAt(d) /\ snapshot'[d] = snapshot[d]
  BY <1>1, <1>2, <1>3 DEF TypeOK, SameAt
<1>9. \A d \in Clients \ {c} : StillGood(d)
  BY <1>2, <1>3 DEF StillGood
<1> QED BY <1>2, <1>4, <1>6, <1>7, <1>8, <1>9, ClientMoves

(* The answer names the organisation, or the process is started again.     *)
LEMMA UserInfoKeeps ==
  ASSUME QueryInv, NEW c \in Clients, UserInfo(c)
  PROVE  QueryInv'
<1>1. TypeOK /\ StageOK(c) /\ RowsOK(c) /\ TokenOK(c)
  BY DEF QueryInv
<1>2. /\ UNCHANGED <<auth, truncate, rows, valid, cursors, cached, phase, page, next, got, result>>
      /\ UNCHANGED <<snapshot, disturbed, expiries, faults>>
      /\ pc[c] = "whoami" /\ token' = [token EXCEPT ![c] = NoToken]
  BY DEF UserInfo, setVars, serverVars, ghostVars, countVars
<1>3. PICK step \in {"idle", "start"} : pc' = [pc EXCEPT ![c] = step]
  BY DEF UserInfo, Goto
<1>4. TypeOK'
  BY <1>1, <1>2, <1>3 DEF TypeOK
<1>5. pc'[c] = step
  BY <1>1, <1>3 DEF TypeOK
<1>6. next[c] = NoCursor
  BY <1>1, <1>2 DEF StageOK
<1>7. StageOK(c)' /\ TokenOK(c)'
  BY <1>1, <1>2, <1>5, <1>6 DEF StageOK, TokenOK
<1>8. RowsOK(c)'
  BY <1>1, <1>2, <1>5 DEF RowsOK
<1>9. \A d \in Clients \ {c} : SameAt(d) /\ snapshot'[d] = snapshot[d]
  BY <1>1, <1>2, <1>3 DEF TypeOK, SameAt
<1>10. \A d \in Clients \ {c} : StillGood(d)
  BY <1>2 DEF StillGood
<1> QED BY <1>2, <1>4, <1>7, <1>8, <1>9, <1>10, ClientMoves

(* Where a client goes once it has a token.                                *)
LEMMA AuthenticatedGoes ==
  ASSUME TypeOK, NEW c \in Clients, Authenticated(c)
  PROVE  /\ pc' \in [Clients -> {"start", "whoami", "idle", "auth", "login", "store", "send", "drop"}]
         /\ phase' \in [Clients -> {"first", "relogin", "retry"}]
         /\ \A d \in Clients \ {c} : pc'[d] = pc[d] /\ phase'[d] = phase[d]
         /\ \/ phase[c] = "relogin" /\ pc'[c] = "auth" /\ phase'[c] = "retry"
            \/ phase[c] # "relogin" /\ pc'[c] = "send" /\ phase'[c] = phase[c]
BY DEF TypeOK, Authenticated, Goto

(* A step on the way to a token: the query itself is not touched.          *)
LEMMA TokenStep ==
  ASSUME QueryInv, NEW c \in Clients, TypeOK',
         pc[c] \in {"auth", "login", "store", "drop"},
         pc'[c] \in {"auth", "login", "store", "send"},
         UNCHANGED <<cursors, next, got, result, snapshot>>,
         \A d \in Clients \ {c} : pc'[d] = pc[d] /\ token'[d] = token[d] /\ phase'[d] = phase[d],
         \A d \in Clients \ {c} : disturbed[d] => disturbed'[d],
         \A d \in Clients \ {c} : disturbed'[d] \/ StillGood(d),
         TokenOK(c)'
  PROVE  QueryInv'
<1>1. TypeOK /\ StageOK(c) /\ RowsOK(c)
  BY DEF QueryInv
<1>2. StageOK(c)'
  BY <1>1 DEF StageOK
<1>3. RowsOK(c)'
  BY <1>1 DEF RowsOK
<1>4. \A d \in Clients \ {c} : SameAt(d) /\ snapshot'[d] = snapshot[d]
  BY DEF SameAt
<1> QED BY <1>2, <1>3, <1>4, ClientMoves

(* The cache is asked for the token.                                       *)
LEMMA ReadCacheKeeps ==
  ASSUME QueryInv, NEW c \in Clients, ReadCache(c)
  PROVE  QueryInv'
<1>1. TypeOK /\ StageOK(c) /\ TokenOK(c)
  BY DEF QueryInv
<1>2. /\ UNCHANGED <<auth, truncate, rows, valid, cursors, cached, page, next, got, result>>
      /\ UNCHANGED <<snapshot, expiries>> /\ pc[c] = "auth"
  BY DEF ReadCache, setVars, serverVars
<1>3. result[c] = "none"
  BY <1>1, <1>2 DEF StageOK
<1>4. \A d \in Clients \ {c} : StillGood(d)
  BY <1>2 DEF StillGood
<1>5. CASE /\ cached # NoToken
           /\ token' = [token EXCEPT ![c] = cached]
           /\ Authenticated(c)
           /\ UNCHANGED <<faults, disturbed>>
  <2>1. /\ pc' \in [Clients -> {"start", "whoami", "idle", "auth", "login", "store", "send", "drop"}]
        /\ phase' \in [Clients -> {"first", "relogin", "retry"}]
        /\ \A d \in Clients \ {c} : pc'[d] = pc[d] /\ phase'[d] = phase[d]
        /\ \/ phase[c] = "relogin" /\ pc'[c] = "auth" /\ phase'[c] = "retry"
           \/ phase[c] # "relogin" /\ pc'[c] = "send" /\ phase'[c] = phase[c]
    BY <1>1, <1>5, AuthenticatedGoes
  <2>2. /\ token' \in [Clients -> Tokens \union {NoToken}] /\ token'[c] = cached
        /\ \A d \in Clients \ {c} : token'[d] = token[d]
    BY <1>1, <1>5 DEF TypeOK
  <2>3. TypeOK'
    BY <1>1, <1>2, <1>5, <2>1, <2>2 DEF TypeOK
  <2>4. TokenOK(c)'
    BY <1>1, <1>2, <1>3, <1>5, <2>1, <2>2 DEF TokenOK
  <2> QED BY <1>2, <1>4, <1>5, <2>1, <2>2, <2>3, <2>4, TokenStep
<1>6. CASE /\ cached = NoToken
           /\ Goto(c, "login")
           /\ UNCHANGED <<token, phase, faults, disturbed>>
  <2>1. pc'[c] = "login" /\ \A d \in Clients \ {c} : pc'[d] = pc[d]
    BY <1>1, <1>6 DEF TypeOK, Goto
  <2>2. TypeOK'
    BY <1>1, <1>2, <1>6 DEF TypeOK, Goto
  <2>3. TokenOK(c)'
    BY <1>1, <1>2, <1>3, <1>6, <2>1 DEF TokenOK
  <2> QED BY <1>2, <1>4, <1>6, <2>1, <2>2, <2>3, TokenStep
<1>7. CASE /\ Fault
           /\ token' = [token EXCEPT ![c] = NoToken]
           /\ Authenticated(c)
           /\ Disturb({c})
  <2>1. /\ pc' \in [Clients -> {"start", "whoami", "idle", "auth", "login", "store", "send", "drop"}]
        /\ phase' \in [Clients -> {"first", "relogin", "retry"}]
        /\ \A d \in Clients \ {c} : pc'[d] = pc[d] /\ phase'[d] = phase[d]
        /\ \/ phase[c] = "relogin" /\ pc'[c] = "auth" /\ phase'[c] = "retry"
           \/ phase[c] # "relogin" /\ pc'[c] = "send" /\ phase'[c] = phase[c]
    BY <1>1, <1>7, AuthenticatedGoes
  <2>2. /\ token' \in [Clients -> Tokens \union {NoToken}]
        /\ \A d \in Clients \ {c} : token'[d] = token[d]
    BY <1>1, <1>7 DEF TypeOK
  <2>3. /\ disturbed' \in [Clients -> BOOLEAN]
        /\ \A d \in Clients : disturbed[d] => disturbed'[d]
        /\ \A d \in Clients \intersect {c} : pc[d] # "idle" => disturbed'[d]
    BY <1>1, <1>7, Disturbed
  <2>4. disturbed'[c]
    BY <1>2, <2>3
  <2>5. faults' \in 0..MaxFaults
    BY <1>1, <1>7, FaultCounted
  <2>6. TypeOK'
    BY <1>1, <1>2, <2>1, <2>2, <2>3, <2>5 DEF TypeOK
  <2>7. TokenOK(c)'
    BY <2>4 DEF TokenOK
  <2> QED BY <1>2, <1>4, <2>1, <2>2, <2>3, <2>6, <2>7, TokenStep
<1> QED BY <1>5, <1>6, <1>7 DEF ReadCache

(* A rejected token is dropped.                                            *)
LEMMA DropTokenKeeps ==
  ASSUME QueryInv, NEW c \in Clients, DropToken(c)
  PROVE  QueryInv'
<1>1. TypeOK /\ StageOK(c) /\ TokenOK(c)
  BY DEF QueryInv
<1>2. /\ UNCHANGED <<auth, truncate, rows, valid, cursors, page, next, got, result>>
      /\ UNCHANGED <<snapshot, expiries>> /\ pc[c] = "drop"
      /\ phase' = [phase EXCEPT ![c] = "relogin"] /\ token' = [token EXCEPT ![c] = NoToken]
      /\ pc' = [pc EXCEPT ![c] = "auth"]
  BY DEF DropToken, Goto, setVars, serverVars
<1>3. result[c] = "none"
  BY <1>1, <1>2 DEF StageOK
<1>4. pc'[c] = "auth" /\ phase'[c] = "relogin"
      /\ \A d \in Clients \ {c} : pc'[d] = pc[d] /\ token'[d] = token[d] /\ phase'[d] = phase[d]
  BY <1>1, <1>2 DEF TypeOK
<1>5. CASE cached' = NoToken /\ UNCHANGED <<disturbed, faults>>
  <2>1. TypeOK'
    BY <1>1, <1>2, <1>5 DEF TypeOK
  <2>2. TokenOK(c)'
    BY <1>2, <1>3, <1>4, <1>5 DEF TokenOK
  <2>3. \A d \in Clients \ {c} : StillGood(d)
    BY <1>2, <1>5 DEF StillGood
  <2> QED BY <1>2, <1>4, <1>5, <2>1, <2>2, <2>3, TokenStep
<1>6. CASE Fault /\ Disturb({c}) /\ UNCHANGED cached
  <2>1. /\ disturbed' \in [Clients -> BOOLEAN]
        /\ \A d \in Clients : disturbed[d] => disturbed'[d]
        /\ \A d \in Clients \intersect {c} : pc[d] # "idle" => disturbed'[d]
    BY <1>1, <1>6, Disturbed
  <2>2. disturbed'[c]
    BY <1>2, <2>1
  <2>3. faults' \in 0..MaxFaults
    BY <1>1, <1>6, FaultCounted
  <2>4. TypeOK'
    BY <1>1, <1>2, <1>6, <2>1, <2>3 DEF TypeOK
  <2>5. TokenOK(c)'
    BY <2>2 DEF TokenOK
  <2>6. \A d \in Clients \ {c} : StillGood(d)
    BY <1>2, <1>6 DEF StillGood
  <2> QED BY <1>2, <1>4, <2>1, <2>4, <2>5, <2>6, TokenStep
<1> QED BY <1>5, <1>6 DEF DropToken

(* A query ends: well, with an error, or with a rejection that something   *)
(* explains.                                                               *)
LEMMA FinishKeeps ==
  ASSUME QueryInv, NEW c \in Clients, NEW how \in Results \ {"locator"},
         NEW received \in Seq(1..MaxRows), Finish(c, how, received), OtherTypes',
         how = "complete" => received = FirstRows(snapshot'[c]),
         how = "rejected" => disturbed'[c],
         UNCHANGED <<valid, cached>>,
         \A d \in Clients \ {c} : snapshot'[d] = snapshot[d] /\ (disturbed[d] => disturbed'[d]),
         \A q \in cursors : q.owner # c => q \in cursors'
  PROVE  QueryInv'
<1>1. TypeOK
  BY DEF QueryInv
<1>2. /\ ClientTypes'
      /\ pc'[c] = "idle" /\ phase'[c] = "first" /\ next'[c] = NoCursor
      /\ result'[c] = how /\ got'[c] = received
      /\ \A d \in Clients \ {c} : SameAt(d)
  BY <1>1, Finished
<1>3. TypeOK'
  BY <1>2 DEF TypeOK, ClientTypes, OtherTypes
<1>4. StageOK(c)'
  BY <1>2 DEF StageOK
<1>5. RowsOK(c)'
  BY <1>2 DEF RowsOK
<1>6. TokenOK(c)'
  BY <1>2 DEF TokenOK
<1>7. \A d \in Clients \ {c} : StillGood(d)
  BY DEF StillGood
<1> QED BY <1>2, <1>3, <1>4, <1>5, <1>6, <1>7, ClientMoves

(* A login gives a new token, or ends the query.                           *)
LEMMA LogInKeeps ==
  ASSUME QueryInv, NEW c \in Clients, LogIn(c)
  PROVE  QueryInv'
<1>1. TypeOK /\ StageOK(c) /\ TokenOK(c)
  BY DEF QueryInv
<1>2. /\ UNCHANGED <<auth, truncate, rows, cursors, cached, snapshot, disturbed, expiries>>
      /\ pc[c] = "login"
  BY DEF LogIn, setVars, ghostVars
<1>3. CASE /\ IssueToken(c)
           /\ Goto(c, "store")
           /\ UNCHANGED <<phase, page, next, got, result, faults>>
  <2>1. /\ valid' \subseteq Tokens /\ token'[c] \in valid' /\ token'[c] \in Tokens
        /\ token' = [token EXCEPT ![c] = token'[c]]
        /\ cached \in valid => cached \in valid'
        /\ \A d \in Clients : token[d] \in valid => token[d] \in valid'
    BY <1>1, <1>3, Issued
  <2>2. pc'[c] = "store" /\ \A d \in Clients \ {c} : pc'[d] = pc[d] /\ token'[d] = token[d]
    BY <1>1, <1>3, <2>1 DEF TypeOK, Goto
  <2>3. TypeOK'
    <3>1. ClientTypes'
      BY <1>1, <1>3, <2>1 DEF TypeOK, ClientTypes, Goto
    <3>2. OtherTypes'
      BY <1>1, <1>2, <1>3, <2>1 DEF TypeOK, OtherTypes
    <3> QED BY <3>1, <3>2 DEF TypeOK, ClientTypes, OtherTypes
  <2>4. TokenOK(c)'
    <3>1. result[c] = "none"
      BY <1>1, <1>2 DEF StageOK
    <3> QED BY <1>1, <1>2, <1>3, <2>1, <2>2, <3>1 DEF TokenOK
  <2>5. \A d \in Clients \ {c} : StillGood(d)
    BY <1>2, <2>1 DEF StillGood
  <2> QED BY <1>2, <1>3, <2>2, <2>3, <2>4, <2>5, TokenStep
<1>4. CASE /\ IF Accepted THEN Fault ELSE UNCHANGED faults
           /\ Finish(c, "error", <<>>)
           /\ UNCHANGED valid
  <2>1. faults' \in 0..MaxFaults
    BY <1>1, <1>4, FaultCounted
  <2>2. OtherTypes'
    BY <1>1, <1>2, <1>4, <2>1 DEF TypeOK, OtherTypes
  <2>3. <<>> \in Seq(1..MaxRows) /\ "error" \in Results \ {"locator"}
    BY DEF Results
  <2> QED BY <1>2, <1>4, <2>2, <2>3, FinishKeeps
<1> QED BY <1>3, <1>4 DEF LogIn

(* The new token is cached; if it has expired by then, the others are      *)
(* disturbed, and so is the client itself, since that session ended while  *)
(* its request ran.                                                        *)
LEMMA StoreTokenKeeps ==
  ASSUME QueryInv, NEW c \in Clients, StoreToken(c)
  PROVE  QueryInv'
<1> DEFINE S == IF ValidToken(token[c]) THEN {} ELSE Clients \ {c}
<1>1. TypeOK /\ StageOK(c) /\ TokenOK(c)
  BY DEF QueryInv
<1>2. /\ UNCHANGED <<auth, truncate, rows, valid, cursors, token, page, next, got, result>>
      /\ UNCHANGED <<snapshot, expiries>> /\ pc[c] = "store"
      /\ Authenticated(c) /\ Disturb(S)
      /\ Fault \/ UNCHANGED faults
      /\ cached' = token[c] \/ cached' = cached
  BY DEF StoreToken, setVars, serverVars
<1>3. /\ pc' \in [Clients -> {"start", "whoami", "idle", "auth", "login", "store", "send", "drop"}]
      /\ phase' \in [Clients -> {"first", "relogin", "retry"}]
      /\ \A d \in Clients \ {c} : pc'[d] = pc[d] /\ phase'[d] = phase[d]
      /\ \/ phase[c] = "relogin" /\ pc'[c] = "auth" /\ phase'[c] = "retry"
         \/ phase[c] # "relogin" /\ pc'[c] = "send" /\ phase'[c] = phase[c]
  BY <1>1, <1>2, AuthenticatedGoes
<1>4. /\ disturbed' \in [Clients -> BOOLEAN]
      /\ \A d \in Clients : disturbed[d] => disturbed'[d]
      /\ \A d \in Clients \intersect S : pc[d] # "idle" => disturbed'[d]
      /\ \A d \in Clients \ S : disturbed'[d] => disturbed[d]
  <2> HIDE DEF S
  <2> QED BY <1>1, <1>2, Disturbed
<1>5. faults' \in 0..MaxFaults
  BY <1>1, <1>2, FaultCounted
<1>6. TypeOK'
  <2>1. ClientTypes'
    BY <1>1, <1>2, <1>3 DEF TypeOK, ClientTypes
  <2>2. cached' \in Tokens \union {NoToken}
    BY <1>1, <1>2 DEF TypeOK
  <2>3. OtherTypes'
    BY <1>1, <1>2, <1>4, <1>5, <2>2 DEF TypeOK, OtherTypes
  <2> QED BY <2>1, <2>3 DEF TypeOK, ClientTypes, OtherTypes
<1>7. result[c] = "none"
  BY <1>1, <1>2 DEF StageOK
<1>8. TokenOK(c)'
  <2>1. CASE disturbed'[c]
    BY <2>1 DEF TokenOK
  <2>2. CASE ~disturbed'[c]
    <3>1. ~disturbed[c]
      BY <1>4, <2>2
    <3>2. token[c] \in valid /\ (phase[c] # "first" => cached \in valid \union {NoToken})
      BY <1>1, <1>2, <3>1 DEF TokenOK
    <3> QED BY <1>2, <1>3, <1>7, <3>2 DEF TokenOK
  <2> QED BY <2>1, <2>2
<1>9. ASSUME NEW d \in Clients \ {c} PROVE disturbed'[d] \/ StillGood(d)
  <2>1. CASE token[c] \in valid
    BY <1>2, <2>1 DEF StillGood
  <2>2. CASE token[c] \notin valid
    <3>1. CASE pc[d] # "idle"
      BY <1>4, <2>2, <3>1 DEF ValidToken
    <3>2. CASE pc[d] = "idle"
      <4>1. phase[d] = "first"
        BY <3>2 DEF QueryInv, StageOK
      <4> QED BY <1>2, <4>1 DEF StillGood
    <3> QED BY <3>1, <3>2
  <2> QED BY <2>1, <2>2
<1> HIDE DEF S
<1> QED BY <1>2, <1>3, <1>4, <1>6, <1>8, <1>9, TokenStep

(* The request or its answer is lost.                                      *)
LEMMA RequestLostKeeps ==
  ASSUME QueryInv, NEW c \in Clients, RequestLost(c)
  PROVE  QueryInv'
<1>1. TypeOK /\ RowsOK(c)
  BY DEF QueryInv
<1>2. /\ UNCHANGED <<auth, truncate, rows, valid, cached, snapshot, disturbed, expiries>>
      /\ Fault /\ Finish(c, "error", <<>>)
      /\ cursors' = cursors \/ cursors' = cursors \ {next[c]}
  BY DEF RequestLost, setVars, ghostVars
<1>3. faults' \in 0..MaxFaults
  BY <1>1, <1>2, FaultCounted
<1>4. OtherTypes'
  BY <1>1, <1>2, <1>3 DEF TypeOK, OtherTypes
<1>5. <<>> \in Seq(1..MaxRows) /\ "error" \in Results \ {"locator"}
  BY DEF Results
<1>6. next[c] \in cursors => next[c].owner = c
  <2>1. CASE next[c] = NoCursor
    <3>1. NoCursor \notin cursors
      BY <1>1, RestAssumption DEF TypeOK, Cursor, NoCursor
    <3> QED BY <2>1, <3>1
  <2>2. CASE next[c] # NoCursor
    BY <1>1, <2>2 DEF RowsOK
  <2> QED BY <2>1, <2>2
<1>7. \A q \in cursors : q.owner # c => q \in cursors'
  BY <1>2, <1>6
<1> QED BY <1>2, <1>4, <1>5, <1>7, FinishKeeps


-----------------------------------------------------------------------------
(* A page arrives.                                                         *)

(* The next page is asked for.                                             *)
LEMMA FollowKeeps ==
  ASSUME QueryInv, NEW c \in Clients, NEW p, FollowPage(c, p), OtherTypes',
         page[c] + 1 < MaxPages, result[c] = "none",
         NEW end \in 0..MaxRows, got[c] \o p.rows = FirstRows(end),
         p.url = [owner |-> c, size |-> snapshot'[c], offset |-> end],
         0 < end, end < snapshot'[c], p.url \in cursors',
         UNCHANGED <<valid, cached>>,
         \A d \in Clients \ {c} : snapshot'[d] = snapshot[d] /\ (disturbed[d] => disturbed'[d]),
         \A q \in cursors : q.owner # c => q \in cursors'
  PROVE  QueryInv'
<1>1. TypeOK
  BY DEF QueryInv
<1>2. FirstRows(end) \in Seq(1..MaxRows)
  BY RowsAreRows
<1>3. p.url \in Cursor
  BY DEF OtherTypes
<1>4. ClientTypes'
  <2>1. pc' \in [Clients -> {"start", "whoami", "idle", "auth", "login", "store", "send", "drop"}]
        /\ token' \in [Clients -> Tokens \union {NoToken}]
        /\ phase' \in [Clients -> {"first", "relogin", "retry"}]
    BY <1>1 DEF FollowPage, Goto, TypeOK
  <2>2. page' \in [Clients -> 0..(MaxPages - 1)]
    <3>1. page \in [Clients -> 0..(MaxPages - 1)] /\ page' = [page EXCEPT ![c] = @ + 1]
      BY <1>1 DEF FollowPage, TypeOK
    <3>2. page[c] + 1 \in 0..(MaxPages - 1)
      BY <3>1, RestAssumption
    <3> QED BY <3>1, <3>2
  <2>3. next' \in [Clients -> Cursor \union {NoCursor}]
    BY <1>1, <1>3 DEF FollowPage, TypeOK
  <2>4. got' \in [Clients -> Seq(1..MaxRows)]
    BY <1>1, <1>2 DEF FollowPage, TypeOK
  <2>5. result' \in [Clients -> Results]
    BY <1>1 DEF FollowPage, TypeOK
  <2> QED BY <2>1, <2>2, <2>3, <2>4, <2>5 DEF ClientTypes
<1>5. TypeOK'
  BY <1>4 DEF TypeOK, ClientTypes, OtherTypes
<1>6. /\ pc'[c] = "auth" /\ phase'[c] = "first" /\ next'[c] = p.url
      /\ result'[c] = "none" /\ got'[c] = FirstRows(end)
  BY <1>1 DEF FollowPage, Goto, TypeOK
<1>7. \A d \in Clients \ {c} : SameAt(d)
  BY <1>1 DEF FollowPage, Goto, TypeOK, SameAt
<1>8. StageOK(c)' /\ TokenOK(c)'
  BY <1>6 DEF StageOK, TokenOK
<1>9. RowsOK(c)'
  <2>1. /\ p.url.owner = c /\ p.url.size = snapshot'[c] /\ p.url.offset = end
    OBVIOUS
  <2>2. p.url # NoCursor
    BY <2>1, RestAssumption DEF NoCursor
  <2> QED BY <1>6, <2>1, <2>2 DEF RowsOK
<1>10. \A d \in Clients \ {c} : StillGood(d)
  BY DEF StillGood
<1> QED BY <1>5, <1>7, <1>8, <1>9, <1>10, ClientMoves

(* A page that continues what was received, of a result as long as the     *)
(* object was when the query ran.                                          *)
LEMMA TakePageKeeps ==
  ASSUME QueryInv, NEW c \in Clients, NEW size \in 0..MaxRows, snapshot'[c] = size,
         NEW offset \in 0..MaxRows, offset <= size,
         NEW p, p = RespondPage(c, size, offset), got[c] = FirstRows(offset),
         TakePage(c, p), OtherTypes', result[c] = "none",
         \A q \in Open(p.url) : q \in cursors',
         UNCHANGED <<valid, cached>>,
         \A d \in Clients \ {c} : snapshot'[d] = snapshot[d] /\ (disturbed[d] => disturbed'[d]),
         \A q \in cursors : q.owner # c => q \in cursors'
  PROVE  QueryInv'
<1>1. PICK end \in 0..MaxRows : PageEnds(c, size, offset, p, end)
  BY PageOf
<1>2. /\ offset <= end /\ end <= size
      /\ FirstRows(offset) \o p.rows = FirstRows(end)
      /\ p.done => end = size
      /\ p.url # NoCursor =>
            /\ p.url = [owner |-> c, size |-> size, offset |-> end]
            /\ 0 < end /\ end < size
  BY <1>1 DEF PageEnds
<1>3. got[c] \o p.rows = FirstRows(end) /\ FirstRows(end) \in Seq(1..MaxRows)
  BY <1>2, RowsAreRows
<1>4. "complete" \in Results \ {"locator"} /\ "error" \in Results \ {"locator"}
      /\ <<>> \in Seq(1..MaxRows)
  BY DEF Results
<1>5. CASE p.done /\ Finish(c, "complete", got[c] \o p.rows)
  BY <1>2, <1>3, <1>4, <1>5, FinishKeeps
<1>6. CASE Finish(c, "error", <<>>)
  BY <1>4, <1>6, FinishKeeps
<1>7. CASE p.url # NoCursor /\ ~(page[c] + 1 >= MaxPages) /\ FollowPage(c, p)
  <2>1. page[c] + 1 < MaxPages
    <3>1. page[c] \in 0..(MaxPages - 1)
      BY DEF QueryInv, TypeOK
    <3> QED BY <1>7, <3>1, RestAssumption
  <2>2. p.url \in cursors'
    BY <1>7 DEF Open
  <2> QED BY <1>2, <1>3, <1>7, <2>1, <2>2, FollowKeeps
<1> QED BY <1>5, <1>6, <1>7 DEF TakePage

(* The ghost variable after a request: only what may still explain a       *)
(* rejection is remembered.                                                *)
LEMMA RequestForgets ==
  ASSUME TypeOK, NEW c \in Clients, Request(c)
  PROVE  /\ disturbed' \in [Clients -> BOOLEAN]
         /\ \A d \in Clients \ {c} : disturbed'[d] = disturbed[d]
         /\ pc'[c] = "drop" \/ result'[c] = "rejected" => (disturbed[c] => disturbed'[c])
<1>1. disturbed' = [disturbed EXCEPT ![c] = @ /\ (pc'[c] = "drop" \/ result'[c] = "rejected")]
  BY DEF Request
<1> DEFINE b == pc'[c] = "drop" \/ result'[c] = "rejected"
<1>2. disturbed' = [disturbed EXCEPT ![c] = @ /\ b]
  BY <1>1
<1>3. b \in BOOLEAN
  OBVIOUS
<1> SUFFICES /\ disturbed' \in [Clients -> BOOLEAN]
             /\ \A d \in Clients \ {c} : disturbed'[d] = disturbed[d]
             /\ b => (disturbed[c] => disturbed'[c])
  OBVIOUS
<1> HIDE DEF b
<1> QED BY Zenon, <1>2, <1>3 DEF TypeOK

(* The server checks the session, may fail, and answers the query.         *)
LEMMA RequestKeeps ==
  ASSUME QueryInv, NEW c \in Clients, Request(c)
  PROVE  QueryInv'
<1>1. TypeOK /\ StageOK(c) /\ RowsOK(c) /\ TokenOK(c)
  BY DEF QueryInv
<1>2. /\ UNCHANGED <<auth, truncate, rows, valid, cached, expiries>>
      /\ pc[c] = "send" /\ HandleData(c)
  BY DEF Request, setVars
<1>3. result[c] = "none"
  BY <1>1, <1>2 DEF StageOK
<1>4. /\ disturbed' \in [Clients -> BOOLEAN]
      /\ \A d \in Clients \ {c} : disturbed'[d] = disturbed[d]
      /\ pc'[c] = "drop" \/ result'[c] = "rejected" => (disturbed[c] => disturbed'[c])
  BY <1>1, RequestForgets
<1>5. ASSUME faults' \in 0..MaxFaults, cursors' \subseteq Cursor, snapshot' \in [Clients -> 0..MaxRows]
      PROVE  OtherTypes'
  BY <1>1, <1>2, <1>4, <1>5 DEF TypeOK, OtherTypes
<1>6. "rejected" \in Results \ {"locator"} /\ "error" \in Results \ {"locator"}
      /\ <<>> \in Seq(1..MaxRows)
  BY DEF Results
<1>7. CASE ~ValidToken(token[c]) /\ Unauthorized(c) /\ UNCHANGED <<cursors, snapshot, faults>>
  <2>1. OtherTypes'
    BY <1>1, <1>5, <1>7 DEF TypeOK
  <2>2. CASE phase[c] = "retry"
    <3>1. Finish(c, "rejected", <<>>)
      BY <1>7, <2>2 DEF Unauthorized
    <3>2. result'[c] = "rejected"
      BY <1>1, <3>1 DEF Finish, TypeOK
    <3>3. disturbed[c]
      BY <1>1, <1>2, <1>7, <2>2 DEF TokenOK, ValidToken
    <3>4. disturbed'[c]
      BY <1>4, <3>2, <3>3
    <3> QED BY <1>2, <1>4, <1>6, <1>7, <2>1, <3>1, <3>4, FinishKeeps
  <2>3. CASE phase[c] # "retry"
    <3>1. pc' = [pc EXCEPT ![c] = "drop"] /\ UNCHANGED <<token, phase, page, next, got, result>>
      BY <1>7, <2>3 DEF Unauthorized, Goto
    <3>2. pc'[c] = "drop" /\ \A d \in Clients \ {c} : pc'[d] = pc[d]
      BY <1>1, <3>1 DEF TypeOK
    <3>3. TypeOK'
      <4>1. ClientTypes'
        BY <1>1, <3>1 DEF TypeOK, ClientTypes
      <4> QED BY <2>1, <4>1 DEF TypeOK, ClientTypes, OtherTypes
    <3>4. StageOK(c)'
      BY <1>3, <3>1, <3>2 DEF StageOK
    <3>5. RowsOK(c)'
      BY <1>1, <1>2, <1>7, <3>1, <3>2 DEF RowsOK
    <3>6. disturbed[c] => disturbed'[c]
      BY <1>4, <3>2
    <3>7. TokenOK(c)'
      BY <1>1, <1>2, <1>3, <3>1, <3>2, <3>6 DEF TokenOK
    <3>8. \A d \in Clients \ {c} : SameAt(d) /\ snapshot'[d] = snapshot[d]
      BY <1>7, <3>1, <3>2 DEF SameAt
    <3>9. \A d \in Clients \ {c} : StillGood(d)
      BY <1>2 DEF StillGood
    <3> QED BY <1>4, <1>7, <3>3, <3>4, <3>5, <3>7, <3>8, <3>9, ClientMoves
  <2> QED BY <2>2, <2>3
<1>8. CASE Fault /\ Finish(c, "error", <<>>) /\ UNCHANGED <<cursors, snapshot>>
  <2>1. faults' \in 0..MaxFaults
    BY <1>1, <1>8, FaultCounted
  <2>2. OtherTypes'
    BY <1>1, <1>5, <1>8, <2>1 DEF TypeOK
  <2> QED BY <1>2, <1>4, <1>6, <1>8, <2>2, FinishKeeps
<1>9. CASE HandleQuery(c) /\ UNCHANGED faults
  <2> DEFINE p == RespondPage(c, rows, 0)
  <2>1. /\ next[c] = NoCursor /\ snapshot' = [snapshot EXCEPT ![c] = rows]
        /\ cursors' = cursors \union Open(p.url) /\ TakePage(c, p)
    BY <1>9 DEF HandleQuery
  <2>2. /\ snapshot' \in [Clients -> 0..MaxRows] /\ snapshot'[c] = rows /\ rows \in 0..MaxRows
        /\ \A d \in Clients \ {c} : snapshot'[d] = snapshot[d]
    BY <1>1, <2>1 DEF TypeOK
  <2>3. 0 \in 0..MaxRows /\ 0 <= rows
    BY <2>2, RestAssumption
  <2>4. p = RespondPage(c, rows, 0)
    OBVIOUS
  <2> HIDE DEF p
  <2>5. Open(p.url) \subseteq Cursor
    <3>1. PICK end \in 0..MaxRows : PageEnds(c, rows, 0, p, end)
      BY <2>2, <2>3, <2>4, PageOf
    <3>2. p.url # NoCursor => p.url \in Cursor
      BY <2>2, <3>1 DEF Cursor, PageEnds
    <3> QED BY <3>2 DEF Open
  <2>6. cursors' \subseteq Cursor
    BY <1>1, <2>1, <2>5 DEF TypeOK
  <2>7. OtherTypes'
    BY <1>1, <1>5, <1>9, <2>2, <2>6 DEF TypeOK
  <2>8. got[c] = FirstRows(0)
    BY <1>1, <1>2, <2>1 DEF RowsOK
  <2>9. /\ \A q \in Open(p.url) : q \in cursors'
        /\ \A q \in cursors : q.owner # c => q \in cursors'
    BY <2>1
  <2> QED BY <1>2, <1>3, <1>4, <2>1, <2>2, <2>3, <2>4, <2>7, <2>8, <2>9, TakePageKeeps
<1>10. CASE HandleQueryMore(c) /\ UNCHANGED faults
  <2> DEFINE p == RespondPage(c, next[c].size, next[c].offset)
  <2>1. next[c] # NoCursor /\ UNCHANGED snapshot
    BY <1>10 DEF HandleQueryMore
  <2>2. /\ next[c] \in cursors
        /\ next[c].owner = c /\ next[c].size = snapshot[c]
        /\ 0 < next[c].offset /\ next[c].offset < next[c].size
        /\ got[c] = FirstRows(next[c].offset)
    BY <1>1, <2>1 DEF RowsOK
  <2>3. cursors' = (cursors \ {next[c]}) \union Open(p.url) /\ TakePage(c, p)
    BY <1>10, <2>2 DEF HandleQueryMore
  <2>4. /\ next[c].offset \in 0..MaxRows /\ snapshot[c] \in 0..MaxRows
        /\ snapshot' \in [Clients -> 0..MaxRows]
    BY <1>1, <2>1, <2>2 DEF TypeOK, Cursor
  <2>5. next[c].offset <= snapshot[c] /\ snapshot'[c] = snapshot[c]
    BY <2>1, <2>2, <2>4, RestAssumption
  <2>6. p = RespondPage(c, snapshot[c], next[c].offset)
    BY <2>2
  <2> HIDE DEF p
  <2>7. Open(p.url) \subseteq Cursor
    <3>1. PICK end \in 0..MaxRows : PageEnds(c, snapshot[c], next[c].offset, p, end)
      BY <2>1, <2>4, <2>5, <2>6, PageOf
    <3>2. p.url # NoCursor => p.url \in Cursor
      BY <2>1, <2>4, <3>1 DEF Cursor, PageEnds
    <3> QED BY <3>2 DEF Open
  <2>8. cursors' \subseteq Cursor
    BY <1>1, <2>3, <2>7 DEF TypeOK
  <2>9. OtherTypes'
    BY <1>1, <1>5, <1>10, <2>4, <2>8 DEF TypeOK
  <2>10. /\ \A q \in Open(p.url) : q \in cursors'
         /\ \A q \in cursors : q.owner # c => q \in cursors'
    BY <2>2, <2>3
  <2> QED BY <1>2, <1>3, <1>4, <2>1, <2>2, <2>3, <2>4, <2>5, <2>6, <2>9, <2>10, TakePageKeeps
<1> QED BY <1>2, <1>7, <1>8, <1>9, <1>10 DEF HandleData

-----------------------------------------------------------------------------
(* Nothing has been asked yet.                                             *)
LEMMA QueriesStart ==
  ASSUME Init
  PROVE  QueryInv
<1>1. 0 \in 0..(MaxPages - 1) /\ 0 \in 0..MaxRows /\ 0 \in 0..MaxExpiries /\ 0 \in 0..MaxFaults
  BY RestAssumption
<1>2. ClientTypes
  BY <1>1 DEF Init, ClientTypes, Results
<1>3. OtherTypes
  BY <1>1 DEF Init, OtherTypes
<1>4. TypeOK
  BY <1>2, <1>3, TypesSplit
<1>5. ASSUME NEW c \in Clients PROVE StageOK(c) /\ RowsOK(c) /\ TokenOK(c)
  BY DEF Init, StageOK, RowsOK, TokenOK, FirstRows
<1> QED BY <1>4, <1>5 DEF QueryInv

(* One step of the collectors, the cache or the server.                    *)
LEMMA QueriesKept ==
  ASSUME QueryInv, [Next]_vars
  PROVE  QueryInv'
<1>1. CASE UNCHANGED vars
  BY <1>1 DEF vars, setVars, serverVars, clientVars, ghostVars, countVars, QueryInv, TypeOK,
              StageOK, RowsOK, TokenOK
<1>2. CASE AddRow \/ Expire \/ CacheExpires
  BY <1>2, WorldKeeps
<1>3. ASSUME NEW c \in Clients, StartQuery(c) \/ ClientStep(c) \/ RequestLost(c)
      PROVE  QueryInv'
  BY <1>3, StartQueryKeeps, DiscoverKeeps, UserInfoKeeps, ReadCacheKeeps, LogInKeeps,
     StoreTokenKeeps, DropTokenKeeps, RequestKeeps, RequestLostKeeps DEF ClientStep
<1> QED BY <1>1, <1>2, <1>3 DEF Next

(* Whatever the number of collectors that share the token, the size of the *)
(* result and of its pages: a query that reports success has every row     *)
(* once and in order, no cursor is lost to a rejected request, and a       *)
(* second 401 is always explained (requestWithTimeout, relogin,            *)
(* RequestLogFiles, RequestCustomQuery).                                   *)
THEOREM QueriesAreSound == Spec => []QuerySound
<1>1. Init => QueryInv
  BY QueriesStart
<1>2. QueryInv /\ [Next]_vars => QueryInv'
  BY QueriesKept
<1>3. QueryInv => QuerySound
  BY DEF QueryInv, RowsOK, TokenOK, FirstRows, QuerySound, CompleteOrError, LocatorKept, RejectionExplained
<1> QED BY <1>1, <1>2, <1>3, PTL DEF Spec


=============================================================================
