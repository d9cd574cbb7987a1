---------------------------- MODULE QueryProofs ----------------------------
(***************************************************************************)
(* Proofs about CustomQuery, for every set of records and pollers, every   *)
(* clock resolution, overlap and object size, and about RowVersions, for   *)
(* every set of records and of configurations that fit the object.         *)
(*                                                                         *)
(* NoRowSkipped is not inductive: the watermark that is stored is the time *)
(* at which a poll began, which queried later, while rows changed and      *)
(* other polls moved the stored one.  QInv adds what each poll knows: the  *)
(* rows before its window were stored when it began, those of the window   *)
(* are stored or still in its hands, except for changes so recent that the *)
(* overlap makes the next poll read them again.                            *)
(***************************************************************************)
EXTENDS CustomQuery, RowVersions, FiniteSetTheorems, SequenceTheorems, WellFoundedInduction, TLAPS

(* The versions that have been stored.                                     *)
InArchive == {v \in Versions : copies[v] > 0}

(* Every row whose version (according to c) lies in [a, b) is in A.        *)
Passed(c, A, a, b) ==
    \A r \in Rows : c[r] # NotYet /\ a <= c[r] /\ c[r] < b => <<r, c[r]>> \in A

(* What holds at time t of a poll with state q.                            *)
PollOK(q, t, c, A) ==
    q.pc # "idle" =>
       /\ 0 <= q.until /\ q.until <= t
       /\ q.since <= q.base \/ q.since <= t - Overlap
       /\ Passed(c, A, q.base, q.since)
       /\ q.pc \in {"scan", "write", "mark", "end"} =>
             Passed(c, A \cup q.todo \cup q.pending, q.since, q.until - Overlap)
       /\ q.pc = "mark" => q.pending \subseteq A
       /\ q.pc = "end" => q.todo = {} /\ q.pending = {}

(* What holds of a stored watermark w that goes back to b.                 *)
MarkOK(w, b, t, c, A) ==
    /\ w <= t
    /\ w # NoWatermark => Passed(c, A, b, Truncate(w - Overlap))

(* An open transaction is younger than the overlap.                        *)
ClockOK ==
    /\ now <= MaxClock
    /\ \A r \in Rows :
          /\ current[r] <= now /\ changing[r] <= now
          /\ changing[r] # NotYet => now <= changing[r] + MaxDelay

QInv ==
    /\ TypeOK
    /\ ClockOK
    /\ marked \subseteq InArchive
    /\ MarkOK(watermark, floor, now, current, InArchive)
    /\ \A p \in Pollers : PollOK(poll[p], now, current, InArchive)

-----------------------------------------------------------------------------
(* Lemmas about the operators.                                             *)

(* A truncated time is a time, and no later.                               *)
LEMMA TruncateBelow ==
  ASSUME NEW t \in Int
  PROVE  Truncate(t) \in Int /\ Truncate(t) <= t
<1>1. Second \in Nat /\ Second > 0
  BY WatermarkAssumption
<1>2. /\ t \div Second \in Int /\ t % Second \in 0..(Second - 1)
      /\ t = Second * (t \div Second) + (t % Second)
  BY <1>1
<1> QED BY <1>1, <1>2 DEF Truncate

(* A time that is not negative stays so.                                   *)
LEMMA TruncateNat ==
  ASSUME NEW t \in Nat
  PROVE  Truncate(t) \in Nat
<1>1. Second \in Nat /\ Second > 0
  BY WatermarkAssumption
<1>2. t \div Second \in Nat
  BY <1>1
<1> QED BY <1>1, <1>2 DEF Truncate

(* The overlap is at least as long as the longest transaction.             *)
LEMMA Delays == Overlap \in Nat /\ MaxDelay \in Nat /\ MaxDelay <= Overlap /\ MaxClock \in Nat
BY WatermarkAssumption, QueryAssumption

(* The fields of a poll have their types.                                  *)
LEMMA PollTypes ==
  ASSUME NEW q \in PollState
  PROVE  /\ q.since \in Int /\ q.until \in Int /\ q.base \in Int
         /\ q.todo \subseteq Versions /\ q.pending \subseteq Versions
BY DEF PollState

(* Changes later than b and more versions in A keep a range passed.        *)
LEMMA PassedMonotone ==
  ASSUME NEW c, NEW d, NEW A, NEW B, NEW a, NEW b, A \subseteq B,
         \A r \in Rows : d[r] = c[r] \/ ~(a <= d[r] /\ d[r] < b),
         Passed(c, A, a, b)
  PROVE  Passed(d, B, a, b)
BY DEF Passed

(* What holds of a poll survives time, young changes and more copies.      *)
LEMMA PollMonotone ==
  ASSUME NEW q \in PollState, NEW t \in Nat, NEW u \in Nat, NEW c, NEW d, NEW A, NEW B,
         t <= u, A \subseteq B,
         \A r \in Rows : d[r] = c[r] \/ (d[r] \in Nat /\ u - Overlap <= d[r]),
         PollOK(q, t, c, A)
  PROVE  PollOK(q, u, d, B)
<1> SUFFICES ASSUME q.pc # "idle" PROVE PollOK(q, u, d, B)
  BY DEF PollOK
<1>1. q.since \in Int /\ q.until \in Int /\ q.base \in Int
  BY PollTypes
<1>2. 0 <= q.until /\ q.until <= t /\ (q.since <= q.base \/ q.since <= t - Overlap)
  BY DEF PollOK
<1>3. 0 <= q.until /\ q.until <= u /\ (q.since <= q.base \/ q.since <= u - Overlap)
  BY <1>1, <1>2, Delays
<1>4. Passed(d, B, q.base, q.since)
  <2>1. \A r \in Rows : d[r] = c[r] \/ ~(q.base <= d[r] /\ d[r] < q.since)
    BY <1>1, <1>3, Delays
  <2> QED BY <2>1, PassedMonotone DEF PollOK
<1>5. ASSUME q.pc \in {"scan", "write", "mark", "end"}
      PROVE  Passed(d, B \cup q.todo \cup q.pending, q.since, q.until - Overlap)
  <2>1. \A r \in Rows : d[r] = c[r] \/ ~(q.since <= d[r] /\ d[r] < q.until - Overlap)
    BY <1>1, <1>3, Delays
  <2>2. A \cup q.todo \cup q.pending \subseteq B \cup q.todo \cup q.pending
    OBVIOUS
  <2> QED BY <1>5, <2>1, <2>2, PassedMonotone DEF PollOK
<1> QED BY <1>3, <1>4, <1>5 DEF PollOK

(* So does what holds of a stored watermark.                               *)
LEMMA MarkMonotone ==
  ASSUME NEW w \in Nat \cup {NoWatermark}, NEW b \in Int, NEW t \in Nat, NEW u \in Nat,
         NEW c, NEW d, NEW A, NEW B, t <= u, A \subseteq B,
         \A r \in Rows : d[r] = c[r] \/ (d[r] \in Nat /\ u - Overlap <= d[r]),
         MarkOK(w, b, t, c, A)
  PROVE  MarkOK(w, b, u, d, B)
<1>1. w <= t /\ w <= u
  BY DEF MarkOK, NoWatermark
<1>2. ASSUME w # NoWatermark PROVE Passed(d, B, b, Truncate(w - Overlap))
  <2>1. Truncate(w - Overlap) \in Int /\ Truncate(w - Overlap) <= w - Overlap
    BY <1>2, Delays, TruncateBelow
  <2>2. \A r \in Rows : d[r] = c[r] \/ ~(b <= d[r] /\ d[r] < Truncate(w - Overlap))
    BY <1>1, <1>2, <2>1, Delays
  <2> QED BY <1>2, <2>2, PassedMonotone DEF MarkOK
<1> QED BY <1>1, <1>2 DEF MarkOK

-----------------------------------------------------------------------------
(* How the parts of the invariant move together.                           *)

(* Salesforce moves: time passes or a young change commits.                *)
LEMMA SalesforceStep ==
  ASSUME QInv, now' \in Nat, now <= now',
         changes' \in Nat, changing' \in [Rows -> Nat \cup {NotYet}],
         current' \in [Rows -> Nat \cup {NotYet}], ClockOK',
         \A r \in Rows : current'[r] = current[r] \/ (current'[r] \in Nat /\ now' - Overlap <= current'[r]),
         UNCHANGED <<watermarkVars, copies, marked, poll, faults>>
  PROVE  QInv'
<1>1. TypeOK'
  BY DEF QInv, TypeOK, watermarkVars
<1>2. InArchive' = InArchive
  BY DEF InArchive
<1>3. MarkOK(watermark', floor', now', current', InArchive')
  BY <1>2, MarkMonotone DEF QInv, TypeOK, watermarkVars
<1>4. \A p \in Pollers : PollOK(poll'[p], now', current', InArchive')
  BY <1>2, PollMonotone DEF QInv, TypeOK
<1> QED BY <1>1, <1>2, <1>3, <1>4 DEF QInv

(* Poll p moves to state q; the store of copies may grow.                  *)
LEMMA PollerStep ==
  ASSUME QInv, NEW p \in Pollers, NEW q \in PollState, Become(p, q),
         copies' \in [Versions -> Nat], InArchive \subseteq InArchive',
         marked' \subseteq InArchive', faults' \in Nat,
         PollOK(q, now, current, InArchive'),
         UNCHANGED saasVars,
         UNCHANGED watermarkVars
            \/ (watermark' \in Nat /\ floor' \in Int /\ MarkOK(watermark', floor', now, current, InArchive'))
  PROVE  QInv'
<1>0. UNCHANGED <<now, changes, changing, current>>
  BY DEF saasVars
<1>1. \A d \in Pollers : poll'[d] = IF d = p THEN q ELSE poll[d]
  BY DEF Become, QInv, TypeOK
<1>2. \A d \in Pollers : PollOK(poll[d], now, current, InArchive')
  BY PollMonotone DEF QInv, TypeOK
<1>3. \A d \in Pollers : PollOK(poll'[d], now', current', InArchive')
  BY <1>0, <1>1, <1>2
<1>4. MarkOK(watermark', floor', now', current', InArchive')
  <2>1. CASE UNCHANGED watermarkVars
    BY <1>0, <2>1, MarkMonotone DEF QInv, TypeOK, watermarkVars
  <2>2. CASE MarkOK(watermark', floor', now, current, InArchive')
    BY <1>0, <2>2
  <2> QED BY <2>1, <2>2
<1>5. ClockOK'
  BY <1>0 DEF QInv, ClockOK
<1>6. TypeOK'
  <2>1. poll' \in [Pollers -> PollState]
    BY DEF Become, QInv, TypeOK
  <2>2. marked' \subseteq Versions
    BY DEF InArchive
  <2>3. watermark' \in Nat \cup {NoWatermark} /\ floor' \in Int
    BY DEF QInv, TypeOK, watermarkVars
  <2> QED BY <1>0, <2>1, <2>2, <2>3 DEF QInv, TypeOK
<1> QED BY <1>3, <1>4, <1>5, <1>6 DEF QInv

(* A poll that is over.                                                    *)
LEMMA IdleOK == Idle \in PollState /\ \A t, c, A : PollOK(Idle, t, c, A)
BY DEF Idle, PollState, PollOK

(* A fault leaves a natural number of faults.                              *)
LEMMA FaultsLeft == ASSUME QInv, Fault \/ NoFault PROVE faults' \in Nat
BY DEF QInv, TypeOK, Fault, NoFault

-----------------------------------------------------------------------------
(* Nothing has happened yet.                                               *)
LEMMA InitOK == ASSUME Init PROVE QInv
<1>1. \A p \in Pollers : poll[p] = Idle
  BY DEF Init
<1>2. poll \in [Pollers -> PollState]
  BY IdleOK DEF Init
<1>3. TypeOK
  <2>1. faults \in Nat
    BY QueryAssumption DEF Init
  <2>2. copies \in [Versions -> Nat] /\ marked \subseteq Versions
    BY DEF Init
  <2> QED BY <1>2, <2>1, <2>2 DEF Init, TypeOK
<1>4. ClockOK
  BY Delays DEF Init, ClockOK, NotYet
<1>5. marked \subseteq InArchive /\ MarkOK(watermark, floor, now, current, InArchive)
  BY DEF Init, MarkOK, NoWatermark
<1> QED BY <1>1, <1>3, <1>4, <1>5, IdleOK DEF QInv

(* Time passes only while every open transaction may still go on.          *)
LEMMA TickOK == ASSUME QInv, Tick PROVE QInv'
<1>1. now' = now + 1 /\ now \in Nat /\ now < MaxClock /\ UNCHANGED <<changes, changing, current>>
  BY DEF Tick, QInv, TypeOK
<1>2. ClockOK'
  BY <1>1, Delays DEF Tick, QInv, ClockOK, TypeOK, NotYet
<1> QED BY <1>1, <1>2, SalesforceStep DEF Tick, QInv, TypeOK

(* A transaction begins with the present time.                             *)
LEMMA ChangeOK == ASSUME QInv, NEW r \in Rows, Change(r) PROVE QInv'
<1>1. now \in Nat /\ changing' = [changing EXCEPT ![r] = now] /\ UNCHANGED <<now, current>>
  BY DEF Change, QInv, TypeOK
<1>2. changing' \in [Rows -> Nat \cup {NotYet}]
  BY <1>1 DEF QInv, TypeOK
<1>3. ClockOK'
  BY <1>1, Delays DEF QInv, ClockOK, TypeOK
<1>4. changes' \in Nat
  BY DEF Change, QInv, TypeOK
<1> QED BY <1>1, <1>2, <1>3, <1>4, SalesforceStep DEF Change, QInv, TypeOK

(* A transaction commits: its timestamp is no older than the overlap.      *)
LEMMA CommitOK == ASSUME QInv, NEW r \in Rows, Commit(r) PROVE QInv'
<1> DEFINE t == changing[r]
<1>1. /\ now \in Nat /\ t \in Nat /\ t <= now /\ now <= t + MaxDelay
      /\ current' = [current EXCEPT ![r] = t]
      /\ changing' = [changing EXCEPT ![r] = NotYet] /\ UNCHANGED now
  BY DEF Commit, QInv, TypeOK, ClockOK
<1>2. /\ changing' \in [Rows -> Nat \cup {NotYet}] /\ current' \in [Rows -> Nat \cup {NotYet}]
  BY <1>1 DEF QInv, TypeOK
<1>3. ClockOK'
  BY <1>1, Delays DEF QInv, ClockOK, TypeOK, NotYet
<1>4. \A x \in Rows : current'[x] = current[x] \/ (current'[x] \in Nat /\ now' - Overlap <= current'[x])
  BY <1>1, Delays DEF QInv, TypeOK
<1>5. /\ now' \in Nat /\ now <= now' /\ changes' \in Nat
      /\ UNCHANGED <<watermarkVars, copies, marked, poll, faults>>
  BY DEF Commit, QInv, TypeOK
<1> QED BY <1>2, <1>3, <1>4, <1>5, SalesforceStep

-----------------------------------------------------------------------------
(* The poll.                                                               *)

(* A poll begins: what lies before its window is stored already, or it     *)
(* answers for nothing before it.                                          *)
LEMMA BeginPollOK == ASSUME QInv, NEW p \in Pollers, BeginPoll(p) PROVE QInv'
<1> DEFINE q == [Idle EXCEPT !.pc = "query", !.since = Since, !.until = Truncate(now), !.base = Base]
<1>1. /\ now \in Nat /\ watermark \in Nat \cup {NoWatermark} /\ floor \in Int
      /\ InitialTimeInterval \in Nat /\ MarkOK(watermark, floor, now, current, InArchive)
  BY WatermarkAssumption DEF QInv, TypeOK
<1>2. Since \in Int /\ (watermark # NoWatermark => Since <= watermark - Overlap)
  BY <1>1, Delays, TruncateBelow DEF Since, NoWatermark
<1>3. Base \in Int
  BY <1>1, <1>2 DEF Base
<1>4. Truncate(now) \in Int /\ 0 <= Truncate(now) /\ Truncate(now) <= now
  BY <1>1, TruncateBelow, TruncateNat
<1>5. q \in PollState
  BY <1>2, <1>3, <1>4 DEF PollState, Idle
<1>6. /\ q.pc = "query" /\ q.since = Since /\ q.until = Truncate(now) /\ q.base = Base
  BY DEF Idle
<1>7. Since <= Base \/ Since <= now - Overlap
  BY <1>1, <1>2, Delays DEF MarkOK, Base
<1>8. Passed(current, InArchive, Base, Since)
  <2>1. CASE watermark = NoWatermark
    <3>1. Base = Since /\ \A r \in Rows : current[r] \in Nat \cup {NotYet}
      BY <2>1 DEF Base, QInv, TypeOK
    <3> QED BY <1>2, <3>1 DEF Passed, NotYet
  <2>2. CASE watermark # NoWatermark
    BY <1>1, <2>2 DEF Base, Since, MarkOK
  <2> QED BY <2>1, <2>2
<1>9. PollOK(q, now, current, InArchive)
  BY <1>4, <1>6, <1>7, <1>8 DEF PollOK
<1> HIDE DEF q
<1>10. Become(p, q)
  BY DEF BeginPoll, q
<1>11. /\ copies' \in [Versions -> Nat] /\ faults' \in Nat /\ InArchive' = InArchive
       /\ marked' \subseteq InArchive' /\ UNCHANGED saasVars /\ UNCHANGED watermarkVars
  BY DEF BeginPoll, QInv, TypeOK, InArchive
<1> QED BY <1>5, <1>9, <1>10, <1>11, PollerStep

(* A step that only changes poll p.                                        *)
LEMMA LocalStep ==
  ASSUME QInv, NEW p \in Pollers, NEW q \in PollState, Become(p, q),
         PollOK(q, now, current, InArchive), faults' \in Nat,
         UNCHANGED <<saasVars, watermarkVars, copies, marked>>
  PROVE  QInv'
<1>1. copies' \in [Versions -> Nat] /\ InArchive' = InArchive /\ marked' \subseteq InArchive'
  BY DEF QInv, TypeOK, InArchive
<1> QED BY <1>1, PollerStep

(* A query returns every row of its window whose change has committed; the *)
(* others are too young to be left behind.                                 *)
LEMMA QueryOK == ASSUME QInv, NEW p \in Pollers, Query(p) PROVE QInv'
<1> DEFINE s == poll[p]
           rows == {r \in Rows : current[r] \in s.since..s.until /\ current[r] # NotYet}
           todo == {<<r, current[r]>> : r \in rows}
           q == [s EXCEPT !.pc = "scan", !.todo = todo]
<1>1. s \in PollState /\ PollOK(s, now, current, InArchive) /\ s.pc = "query"
  BY DEF QInv, TypeOK, Query
<1>2. s.since \in Int /\ s.until \in Int /\ s.base \in Int /\ now \in Nat /\ now <= MaxClock
  BY <1>1, PollTypes DEF QInv, TypeOK, ClockOK
<1>3. \A r \in Rows : current[r] \in Nat \cup {NotYet}
  BY DEF QInv, TypeOK
<1>4. todo \subseteq Versions
  <2>1. \A r \in rows : current[r] \in 0..MaxClock
    BY <1>1, <1>2, <1>3, Delays DEF PollOK
  <2> QED BY <2>1 DEF Versions
<1>5. q \in PollState
  BY <1>1, <1>4 DEF PollState
<1>6. /\ q.pc = "scan" /\ q.since = s.since /\ q.until = s.until /\ q.base = s.base
      /\ q.todo = todo
  BY <1>1 DEF PollState
<1>7. Passed(current, InArchive \cup todo \cup q.pending, s.since, s.until - Overlap)
  <2>1. \A r \in Rows : current[r] # NotYet /\ s.since <= current[r] /\ current[r] < s.until - Overlap
           => <<r, current[r]>> \in todo
    BY <1>2, <1>3, Delays DEF NotYet
  <2> QED BY <2>1 DEF Passed
<1>8. Become(p, q)
  BY DEF Query
<1> HIDE DEF q, todo
<1>9. PollOK(q, now, current, InArchive)
  BY <1>1, <1>6, <1>7 DEF PollOK
<1>10. faults' \in Nat /\ UNCHANGED <<saasVars, watermarkVars, copies, marked>>
  BY DEF Query, QInv, TypeOK
<1> QED BY <1>5, <1>8, <1>9, <1>10, LocalStep

(* Only a row that is stored is skipped.                                   *)
LEMMA SkipRowOK == ASSUME QInv, NEW p \in Pollers, SkipRow(p) PROVE QInv'
<1> DEFINE s == poll[p]
<1>1. PICK v \in s.todo \cap marked : Become(p, [s EXCEPT !.todo = @ \ {v}])
  BY DEF SkipRow
<1> DEFINE q == [s EXCEPT !.todo = @ \ {v}]
<1>2. s \in PollState /\ PollOK(s, now, current, InArchive) /\ s.pc = "scan" /\ v \in InArchive
  BY DEF QInv, TypeOK, SkipRow
<1>3. q \in PollState
  BY <1>2 DEF PollState
<1>4. /\ q.pc = "scan" /\ q.since = s.since /\ q.until = s.until /\ q.base = s.base
      /\ q.todo = s.todo \ {v} /\ q.pending = s.pending
  BY <1>2 DEF PollState
<1> HIDE DEF q
<1>5. InArchive \cup s.todo \cup s.pending \subseteq InArchive \cup q.todo \cup q.pending
  BY <1>2, <1>4
<1>6. PollOK(q, now, current, InArchive)
  BY <1>2, <1>4, <1>5 DEF PollOK, Passed
<1>7. Become(p, q) /\ faults' \in Nat /\ UNCHANGED <<saasVars, watermarkVars, copies, marked>>
  BY <1>1 DEF SkipRow, QInv, TypeOK, q
<1> QED BY <1>3, <1>6, <1>7, LocalStep

(* A row that is taken is still in the poll's hands.                       *)
LEMMA TakeRowOK == ASSUME QInv, NEW p \in Pollers, TakeRow(p) PROVE QInv'
<1> DEFINE s == poll[p]
<1>1. PICK v \in s.todo, pc \in {"write", "scan"} :
         Become(p, [s EXCEPT !.todo = @ \ {v}, !.pending = s.pending \cup {v}, !.pc = pc])
  BY DEF TakeRow
<1> DEFINE q == [s EXCEPT !.todo = @ \ {v}, !.pending = s.pending \cup {v}, !.pc = pc]
<1>2. s \in PollState /\ PollOK(s, now, current, InArchive) /\ s.pc = "scan"
  BY DEF QInv, TypeOK, TakeRow
<1>3. q \in PollState
  BY <1>2 DEF PollState
<1>4. /\ q.pc \in {"write", "scan"} /\ q.since = s.since /\ q.until = s.until /\ q.base = s.base
      /\ q.todo = s.todo \ {v} /\ q.pending = s.pending \cup {v}
  BY <1>2 DEF PollState
<1> HIDE DEF q
<1>5. InArchive \cup s.todo \cup s.pending \subseteq InArchive \cup q.todo \cup q.pending
  BY <1>4
<1>6. PollOK(q, now, current, InArchive)
  BY <1>2, <1>4, <1>5 DEF PollOK, Passed
<1>7. Become(p, q) /\ UNCHANGED <<saasVars, watermarkVars, copies, marked>>
  BY <1>1 DEF TakeRow, q
<1>8. faults' \in Nat
  BY FaultsLeft DEF TakeRow
<1> QED BY <1>3, <1>6, <1>7, <1>8, LocalStep

(* The poll only ends with nothing left in its hands.                      *)
LEMMA LastRowOK == ASSUME QInv, NEW p \in Pollers, LastRow(p) PROVE QInv'
<1> DEFINE s == poll[p]
           q == [s EXCEPT !.pc = IF s.pending = {} THEN "end" ELSE "write"]
<1>1. s \in PollState /\ PollOK(s, now, current, InArchive) /\ s.pc = "scan" /\ s.todo = {}
  BY DEF QInv, TypeOK, LastRow
<1>2. q \in PollState
  BY <1>1 DEF PollState
<1>3. /\ q.pc = (IF s.pending = {} THEN "end" ELSE "write") /\ q.since = s.since
      /\ q.until = s.until /\ q.base = s.base /\ q.todo = s.todo /\ q.pending = s.pending
  BY <1>1 DEF PollState
<1>4. Become(p, q) /\ faults' \in Nat /\ UNCHANGED <<saasVars, watermarkVars, copies, marked>>
  BY DEF LastRow, QInv, TypeOK
<1> HIDE DEF q
<1>5. PollOK(q, now, current, InArchive)
  BY <1>1, <1>3 DEF PollOK
<1> QED BY <1>2, <1>4, <1>5, LocalStep

(* What is stored is counted, and nothing else.                            *)
LEMMA StoredOK ==
  ASSUME QInv, NEW S \in SUBSET Versions
  PROVE  /\ Stored(S) \in [Versions -> Nat]
         /\ \A v \in Versions : copies[v] <= Stored(S)[v] /\ Stored(S)[v] <= copies[v] + 1
         /\ \A v \in Versions : v \notin S => Stored(S)[v] = copies[v]
         /\ \A v \in S : Stored(S)[v] > 0
<1>1. \A v \in Versions : copies[v] \in Nat /\ Counted(v) \in Nat \ {0}
  BY QueryAssumption DEF QInv, TypeOK, Counted
<1> QED BY <1>1 DEF Stored

(* A write stores the rows in hand, or fails and ends the poll.            *)
LEMMA WriteOK == ASSUME QInv, NEW p \in Pollers, Write(p) \/ WriteFails(p) PROVE QInv'
<1> DEFINE s == poll[p]
           q == [s EXCEPT !.pc = "mark"]
<1>1. /\ s \in PollState /\ PollOK(s, now, current, InArchive) /\ s.pc = "write"
      /\ s.pending \in SUBSET Versions
  BY PollTypes DEF QInv, TypeOK, Write, WriteFails
<1>2. /\ copies' \in {copies, Stored(s.pending)} /\ UNCHANGED <<saasVars, watermarkVars, marked>>
      /\ faults' \in Nat
  BY FaultsLeft DEF Write, WriteFails, NoFault
<1>3. copies' \in [Versions -> Nat] /\ InArchive \subseteq InArchive'
  <2>1. copies' \in [Versions -> Nat] /\ \A v \in Versions : copies[v] <= copies'[v]
    BY <1>1, <1>2, StoredOK DEF QInv, TypeOK
  <2>2. \A v \in Versions : copies[v] \in Nat /\ copies'[v] \in Nat
    BY <2>1 DEF QInv, TypeOK
  <2> QED BY <2>1, <2>2 DEF InArchive
<1>4. marked' \subseteq InArchive'
  BY <1>2, <1>3 DEF QInv
<1>5. CASE Write(p)
  <2>1. q \in PollState
    BY <1>1 DEF PollState
  <2>2. /\ q.pc = "mark" /\ q.since = s.since /\ q.until = s.until /\ q.base = s.base
        /\ q.todo = s.todo /\ q.pending = s.pending
    BY <1>1 DEF PollState
  <2>3. s.pending \subseteq InArchive'
    BY <1>1, <1>5, StoredOK DEF Write, InArchive
  <2>4. Become(p, q)
    BY <1>5 DEF Write
  <2> HIDE DEF q
  <2>5. PollOK(s, now, current, InArchive')
    BY <1>1, <1>3, PollMonotone DEF QInv, TypeOK
  <2>6. PollOK(q, now, current, InArchive')
    BY <1>1, <2>2, <2>3, <2>5 DEF PollOK
  <2> QED BY <1>2, <1>3, <1>4, <2>1, <2>4, <2>6, PollerStep
<1>6. CASE WriteFails(p)
  <2>1. Become(p, Idle)
    BY <1>6 DEF WriteFails
  <2> QED BY <1>2, <1>3, <1>4, <2>1, IdleOK, PollerStep
<1> QED BY <1>5, <1>6

(* Only rows that are stored are marked.                                   *)
LEMMA MarkRowsOK == ASSUME QInv, NEW p \in Pollers, Mark(p) PROVE QInv'
<1> DEFINE s == poll[p]
           q == [s EXCEPT !.pc = "scan", !.pending = {}]
<1>1. s \in PollState /\ PollOK(s, now, current, InArchive) /\ s.pc = "mark"
  BY DEF QInv, TypeOK, Mark
<1>2. s.pending \subseteq InArchive
  BY <1>1 DEF PollOK
<1>3. PICK done \in SUBSET s.pending : marked' = marked \cup {v \in done : v[1] \in Keyed}
  BY DEF Mark
<1>4. /\ copies' \in [Versions -> Nat] /\ InArchive' = InArchive /\ faults' \in Nat
      /\ UNCHANGED <<saasVars, watermarkVars>>
  BY FaultsLeft DEF Mark, QInv, TypeOK, InArchive
<1>5. marked' \subseteq InArchive'
  BY <1>2, <1>3, <1>4 DEF QInv
<1>6. q \in PollState
  BY <1>1 DEF PollState
<1>7. /\ q.pc = "scan" /\ q.since = s.since /\ q.until = s.until /\ q.base = s.base
      /\ q.todo = s.todo /\ q.pending = {}
  BY <1>1 DEF PollState
<1>8. Become(p, q)
  BY DEF Mark
<1> HIDE DEF q
<1>9. PollOK(q, now, current, InArchive')
  <2>1. InArchive \cup s.todo \cup s.pending \subseteq InArchive \cup q.todo \cup q.pending
    BY <1>2, <1>7
  <2> QED BY <1>1, <1>4, <1>7, <2>1 DEF PollOK, Passed
<1> QED BY <1>4, <1>5, <1>6, <1>8, <1>9, PollerStep

(* The watermark moves to the time at which the poll began: all that the   *)
(* next poll will not read again is stored.                                *)
LEMMA StoreWatermarkOK == ASSUME QInv, NEW p \in Pollers, StoreWatermark(p) PROVE QInv'
<1> DEFINE s == poll[p]
<1>1. s \in PollState /\ PollOK(s, now, current, InArchive) /\ s.pc = "end"
  BY DEF QInv, TypeOK, StoreWatermark
<1>2. s.since \in Int /\ s.until \in Int /\ s.base \in Int /\ now \in Nat
  BY <1>1, PollTypes DEF QInv, TypeOK
<1>3. /\ copies' \in [Versions -> Nat] /\ InArchive' = InArchive /\ faults' \in Nat
      /\ marked' \subseteq InArchive' /\ UNCHANGED saasVars /\ Become(p, Idle)
  BY FaultsLeft DEF StoreWatermark, QInv, TypeOK, InArchive
<1>4. CASE UNCHANGED watermarkVars
  BY <1>3, <1>4, IdleOK, PollerStep
<1>5. CASE watermark' = s.until /\ floor' = s.base
  <2>1. MarkOK(watermark', floor', now, current, InArchive')
    <3>1. Truncate(s.until - Overlap) \in Int /\ Truncate(s.until - Overlap) <= s.until - Overlap
      BY <1>2, Delays, TruncateBelow
    <3>2. /\ Passed(current, InArchive, s.base, s.since)
          /\ Passed(current, InArchive, s.since, s.until - Overlap)
      BY <1>1 DEF PollOK
    <3>3. \A r \in Rows : current[r] \in Nat \cup {NotYet}
      BY DEF QInv, TypeOK
    <3>4. Passed(current, InArchive, s.base, Truncate(s.until - Overlap))
      BY <1>2, <3>1, <3>2, <3>3, Delays DEF Passed, NotYet
    <3>5. s.until <= now
      BY <1>1 DEF PollOK
    <3> QED BY <1>3, <1>5, <3>4, <3>5 DEF MarkOK
  <2>2. watermark' \in Nat /\ floor' \in Int
    BY <1>1, <1>2, <1>5 DEF PollOK
  <2> QED BY <1>3, <2>1, <2>2, IdleOK, PollerStep
<1> QED BY <1>4, <1>5 DEF StoreWatermark, SetWatermark

(* A poll that is given up leaves everything as it is.                     *)
LEMMA AbortOK == ASSUME QInv, NEW p \in Pollers, Abort(p) PROVE QInv'
<1>1. faults' \in Nat
  BY FaultsLeft DEF Abort
<1> QED BY <1>1, IdleOK, LocalStep DEF Abort

(* A marker that expires is no longer there.                               *)
LEMMA ForgetOK == ASSUME QInv, Forget PROVE QInv'
<1>1. marked' \subseteq marked /\ faults' \in Nat /\ InArchive' = InArchive
      /\ UNCHANGED <<saasVars, watermarkVars, copies, poll>>
  BY FaultsLeft DEF Forget, InArchive
<1> QED BY <1>1 DEF QInv, TypeOK, ClockOK, saasVars, watermarkVars

-----------------------------------------------------------------------------
(* QInv is inductive.                                                      *)
LEMMA Inductive == ASSUME QInv, [Next]_vars PROVE QInv'
<1>1. CASE UNCHANGED vars
  BY <1>1 DEF vars, saasVars, watermarkVars, QInv, TypeOK, ClockOK, InArchive
<1>2. CASE Salesforce \/ Forget
  BY <1>2, TickOK, ChangeOK, CommitOK, ForgetOK DEF Salesforce
<1>3. ASSUME NEW p \in Pollers, PollStep(p) \/ WriteFails(p) \/ Abort(p)
      PROVE  QInv'
  BY <1>3, BeginPollOK, QueryOK, SkipRowOK, TakeRowOK, LastRowOK, WriteOK, MarkRowsOK,
     StoreWatermarkOK, AbortOK DEF PollStep
<1> QED BY <1>1, <1>2, <1>3 DEF Next

(* QInv holds in every reachable state.                                    *)
LEMMA QInvHolds == Spec => []QInv
BY InitOK, Inductive, PTL DEF Spec

(* No record is left behind by the watermark: with an overlap at least as  *)
(* long as the longest transaction, whatever polls overlap, fail or store  *)
(* their watermarks out of order.                                          *)
THEOREM NoRowLeftBehind == Spec => []NoRowSkipped
<1>1. QInv => NoRowSkipped
  <2> SUFFICES ASSUME QInv, watermark # NoWatermark, NEW r \in Rows,
                      current[r] # NotYet, floor <= current[r], current[r] < Since
               PROVE  copies[<<r, current[r]>>] > 0
    BY DEF NoRowSkipped
  <2>1. Passed(current, InArchive, floor, Since)
    BY DEF QInv, MarkOK, Since
  <2> QED BY <2>1 DEF Passed, InArchive
<1> QED BY <1>1, QInvHolds, PTL

-----------------------------------------------------------------------------
(* How often a version is stored.  FewCopies is not inductive: a poll that *)
(* has read no marker may be about to write.  CInv counts those polls.  A  *)
(* version without a marker has been written, since the last failure, only *)
(* by polls that are about to mark it; one with a marker is only written   *)
(* again by polls that had taken it before.                                *)

Wrote(v)   == {p \in Pollers : poll[p].pc = "mark" /\ v \in poll[p].pending}
Holding(v) == {p \in Pollers : poll[p].pc # "mark" /\ v \in poll[p].pending}

(* The copies k failures account for.                                      *)
Budget(k) == Cardinality(Pollers) * k

CopyOK(v) ==
    IF v \in marked
    THEN copies[v] + Cardinality(Holding(v)) <= Budget(1 + MaxFaults - faults)
    ELSE copies[v] <= Budget(MaxFaults - faults) + Cardinality(Wrote(v))

CInv ==
    /\ faults <= MaxFaults
    /\ \A v \in Versions : v[1] \in Keyed => CopyOK(v)

(* One failure more accounts for one copy more of each poller.             *)
LEMMA BudgetGrows ==
  ASSUME NEW k \in Nat
  PROVE  /\ Cardinality(Pollers) \in Nat /\ Budget(k) \in Nat
         /\ Budget(k + 1) = Budget(k) + Cardinality(Pollers)
<1>1. Cardinality(Pollers) \in Nat
  BY QueryAssumption, FS_CardinalityType
<1>2. \A n \in Nat : n * k \in Nat /\ n * (k + 1) = n * k + n
  OBVIOUS
<1> QED BY <1>1, <1>2 DEF Budget

(* Sets of pollers are finite, and two disjoint ones are no more than all. *)
LEMMA PollerSets ==
  ASSUME NEW S \in SUBSET Pollers, NEW T \in SUBSET Pollers, S \cap T = {}
  PROVE  /\ IsFiniteSet(S) /\ Cardinality(S) \in Nat
         /\ IsFiniteSet(T) /\ Cardinality(T) \in Nat
         /\ Cardinality(S) + Cardinality(T) <= Cardinality(Pollers)
<1>1. IsFiniteSet(Pollers) /\ Cardinality(Pollers) \in Nat
  BY QueryAssumption, FS_CardinalityType
<1>2. /\ IsFiniteSet(S) /\ Cardinality(S) \in Nat
      /\ IsFiniteSet(T) /\ Cardinality(T) \in Nat
  BY <1>1, FS_Subset, FS_CardinalityType
<1>3. ~(Cardinality(S) + Cardinality(T) > Cardinality(Pollers))
  BY <1>1, FS_MajoritiesIntersect
<1> QED BY <1>1, <1>2, <1>3

(* The numbers in CopyOK.                                                  *)
LEMMA CopyNumbers ==
  ASSUME QInv, CInv, NEW v \in Versions
  PROVE  /\ copies[v] \in Nat /\ faults \in Nat /\ MaxFaults - faults \in Nat
         /\ IsFiniteSet(Wrote(v)) /\ IsFiniteSet(Holding(v))
         /\ Cardinality(Wrote(v)) \in Nat /\ Cardinality(Holding(v)) \in Nat
         /\ Cardinality(Wrote(v)) + Cardinality(Holding(v)) <= Cardinality(Pollers)
         /\ Cardinality(Pollers) \in Nat
         /\ Budget(MaxFaults - faults) \in Nat
         /\ Budget(1 + MaxFaults - faults) = Budget(MaxFaults - faults) + Cardinality(Pollers)
<1>1. copies[v] \in Nat /\ faults \in Nat /\ MaxFaults - faults \in Nat
  BY QueryAssumption DEF QInv, TypeOK, CInv
<1>2. /\ Wrote(v) \in SUBSET Pollers /\ Holding(v) \in SUBSET Pollers
      /\ Wrote(v) \cap Holding(v) = {}
  BY DEF Wrote, Holding
<1>3. 1 + MaxFaults - faults = (MaxFaults - faults) + 1
  BY <1>1, QueryAssumption
<1> QED BY <1>1, <1>2, <1>3, PollerSets, BudgetGrows

(* In every state the copies are within the budget.                        *)
LEMMA WithinBudget ==
  ASSUME QInv, CInv, NEW v \in Versions, v[1] \in Keyed
  PROVE  copies[v] <= Budget(1 + MaxFaults - faults)
BY CopyNumbers DEF CInv, CopyOK

(* A failure pays for whatever the polls hold after it.                    *)
LEMMA FailureStep ==
  ASSUME QInv, CInv, QInv', Fault,
         \A v \in Versions : v[1] \in Keyed => copies'[v] <= Budget(1 + MaxFaults - faults)
  PROVE  CInv'
<1>1. faults \in Nat /\ faults' \in Nat /\ faults' = faults - 1 /\ MaxFaults \in Nat
  BY QueryAssumption DEF Fault, QInv, TypeOK
<1>2. faults' <= MaxFaults
  BY <1>1 DEF CInv
<1>3. ASSUME NEW v \in Versions, v[1] \in Keyed PROVE CopyOK(v)'
  <2> DEFINE k == MaxFaults - faults
  <2>1. k \in Nat /\ MaxFaults - faults' = k + 1 /\ 1 + MaxFaults - faults' = k + 2
    BY <1>1 DEF CInv
  <2>2. 1 + MaxFaults - faults = k + 1
    BY <1>1
  <2>3. copies'[v] <= Budget(k + 1) /\ copies'[v] \in Nat
    BY <1>3, <2>2 DEF QInv, TypeOK
  <2>4. /\ Budget(k + 1) \in Nat /\ Budget(k + 2) = Budget(k + 1) + Cardinality(Pollers)
        /\ Cardinality(Pollers) \in Nat
    <3>1. k + 1 \in Nat /\ (k + 1) + 1 = k + 2
      BY <2>1
    <3> QED BY <3>1, BudgetGrows
  <2>5. /\ Cardinality(Wrote(v)') \in Nat /\ Cardinality(Holding(v)') \in Nat
        /\ Cardinality(Wrote(v)') + Cardinality(Holding(v)') <= Cardinality(Pollers)
    <3>1. /\ Wrote(v)' \in SUBSET Pollers /\ Holding(v)' \in SUBSET Pollers
          /\ Wrote(v)' \cap Holding(v)' = {}
      BY DEF Wrote, Holding
    <3> QED BY <3>1, PollerSets
  <2> HIDE DEF k
  <2> QED BY <2>1, <2>3, <2>4, <2>5 DEF CopyOK
<1> QED BY <1>2, <1>3 DEF CInv

(* No poll that wrote is forgotten and none takes a marked version: the    *)
(* count stands.                                                           *)
LEMMA QuietStep ==
  ASSUME QInv, CInv, UNCHANGED <<faults, marked, copies>>,
         \A v \in Versions : v[1] \in Keyed =>
            /\ v \notin marked => Wrote(v)' = Wrote(v)
            /\ v \in marked => Holding(v)' \subseteq Holding(v)
  PROVE  CInv'
<1>1. ASSUME NEW v \in Versions, v[1] \in Keyed PROVE CopyOK(v)'
  <2>1. CopyOK(v)
    BY <1>1 DEF CInv
  <2>2. CASE v \notin marked
    BY <1>1, <2>1, <2>2 DEF CopyOK
  <2>3. CASE v \in marked
    <3>1. Cardinality(Holding(v)') \in Nat /\ Cardinality(Holding(v)') <= Cardinality(Holding(v))
      <4>1. Holding(v)' \in SUBSET Holding(v) /\ IsFiniteSet(Holding(v))
        BY <1>1, <2>3, CopyNumbers
      <4> QED BY <4>1, FS_Subset, FS_CardinalityType
    <3> QED BY <2>1, <2>3, <3>1, CopyNumbers DEF CopyOK
  <2> QED BY <2>2, <2>3
<1> QED BY <1>1 DEF CInv

(* What a poller's step does to the sets of polls.                         *)
LEMMA PollSetsMove ==
  ASSUME QInv, NEW p \in Pollers, NEW q, Become(p, q), NEW v
  PROVE  /\ Wrote(v)' = (Wrote(v) \ {p}) \cup
                           (IF q.pc = "mark" /\ v \in q.pending THEN {p} ELSE {})
         /\ Holding(v)' = (Holding(v) \ {p}) \cup
                             (IF q.pc # "mark" /\ v \in q.pending THEN {p} ELSE {})
<1>1. \A d \in Pollers : poll'[d] = IF d = p THEN q ELSE poll[d]
  BY DEF Become, QInv, TypeOK
<1> QED BY <1>1 DEF Wrote, Holding

(* Steps of a poll that neither write nor mark and that do not fail.       *)
LEMMA PollGoesOn ==
  ASSUME QInv, CInv, NEW p \in Pollers,
         BeginPoll(p) \/ Query(p) \/ SkipRow(p) \/ LastRow(p)
  PROVE  CInv'
<1> DEFINE s == poll[p]
<1>1. /\ s \in PollState /\ s.pc # "mark" /\ UNCHANGED <<copies, marked, faults>>
  BY DEF QInv, TypeOK, BeginPoll, Query, SkipRow, LastRow
<1>2. PICK q : Become(p, q) /\ q.pc # "mark" /\ q.pending \subseteq s.pending
  <2>1. CASE BeginPoll(p)
    <3> DEFINE q == [Idle EXCEPT !.pc = "query", !.since = Since, !.until = Truncate(now),
                                 !.base = Base]
    <3>1. q.pc = "query" /\ q.pending = {}
      BY DEF Idle
    <3>2. Become(p, q)
      BY <2>1 DEF BeginPoll
    <3> HIDE DEF q
    <3> QED BY <3>1, <3>2
  <2>2. CASE Query(p)
    <3> DEFINE q == [s EXCEPT !.pc = "scan",
                              !.todo = {<<r, current[r]>> : r \in
                                          {r \in Rows : /\ current[r] \in s.since..s.until
                                                        /\ current[r] # NotYet}}]
    <3>1. q.pc = "scan" /\ q.pending = s.pending
      BY <1>1 DEF PollState
    <3>2. Become(p, q)
      BY <2>2 DEF Query
    <3> HIDE DEF q
    <3> QED BY <3>1, <3>2
  <2>3. CASE SkipRow(p)
    <3>1. PICK v : Become(p, [s EXCEPT !.todo = @ \ {v}])
      BY <2>3 DEF SkipRow
    <3>2. [s EXCEPT !.todo = @ \ {v}].pc = s.pc /\ [s EXCEPT !.todo = @ \ {v}].pending = s.pending
      BY <1>1 DEF PollState
    <3> QED BY <1>1, <3>1, <3>2
  <2>4. CASE LastRow(p)
    <3> DEFINE q == [s EXCEPT !.pc = IF s.pending = {} THEN "end" ELSE "write"]
    <3>1. q.pc \in {"end", "write"} /\ q.pending = s.pending
      BY <1>1 DEF PollState
    <3>2. Become(p, q)
      BY <2>4 DEF LastRow
    <3> HIDE DEF q
    <3> QED BY <3>1, <3>2
  <2> QED BY <2>1, <2>2, <2>3, <2>4
<1>3. \A v \in Versions : p \notin Wrote(v)
  BY <1>1 DEF Wrote
<1>4. \A v \in Versions : Wrote(v)' = Wrote(v) /\ Holding(v)' \subseteq Holding(v)
  <2> TAKE v \in Versions
  <2>1. v \in q.pending => p \in Holding(v)
    BY <1>1, <1>2 DEF Holding
  <2> QED BY <1>2, <1>3, <2>1, PollSetsMove
<1> QED BY <1>1, <1>4, QuietStep

(* A row is taken if it has no marker, or its marker could not be read.    *)
LEMMA TakeRowC ==
  ASSUME QInv, CInv, QInv', NEW p \in Pollers, TakeRow(p)
  PROVE  CInv'
<1> DEFINE s == poll[p]
<1>1. s \in PollState /\ s.pc = "scan" /\ UNCHANGED <<copies, marked>>
  BY DEF QInv, TypeOK, TakeRow
<1>2. CASE Fault
  BY <1>1, <1>2, WithinBudget, FailureStep
<1>3. CASE ~Fault
  <2>1. PICK w \in s.todo, pc \in {"write", "scan"} :
           /\ w[1] \in Keyed => w \notin marked
           /\ UNCHANGED faults
           /\ Become(p, [s EXCEPT !.todo = @ \ {w}, !.pending = s.pending \cup {w}, !.pc = pc])
    BY <1>3 DEF TakeRow, NoFault
  <2> DEFINE q == [s EXCEPT !.todo = @ \ {w}, !.pending = s.pending \cup {w}, !.pc = pc]
  <2>2. q.pc \in {"write", "scan"} /\ q.pending = s.pending \cup {w}
    BY <1>1 DEF PollState
  <2> HIDE DEF q
  <2>3. Become(p, q)
    BY <2>1 DEF q
  <2>4. ASSUME NEW v \in Versions, v[1] \in Keyed
        PROVE  Wrote(v)' = Wrote(v) /\ (v \in marked => Holding(v)' \subseteq Holding(v))
    <3>1. p \notin Wrote(v)
      BY <1>1 DEF Wrote
    <3>2. v \in marked /\ v \in q.pending => p \in Holding(v)
      BY <1>1, <2>1, <2>2, <2>4 DEF Holding
    <3>3. /\ Wrote(v)' = Wrote(v) \ {p}
          /\ Holding(v)' \subseteq (Holding(v) \ {p}) \cup (IF v \in q.pending THEN {p} ELSE {})
      BY <2>2, <2>3, PollSetsMove
    <3> QED BY <3>1, <3>2, <3>3
  <2> QED BY <1>1, <2>1, <2>4, QuietStep
<1> QED BY <1>2, <1>3

(* A write makes one copy more, by a poll that was counted.                *)
LEMMA WriteC ==
  ASSUME QInv, CInv, QInv', NEW p \in Pollers, Write(p)
  PROVE  CInv'
<1> DEFINE s == poll[p]
           q == [s EXCEPT !.pc = "mark"]
<1>1. /\ s \in PollState /\ s.pc = "write" /\ UNCHANGED <<marked, faults>>
      /\ s.pending \in SUBSET Versions /\ copies' = Stored(s.pending)
  BY PollTypes DEF QInv, TypeOK, Write
<1>2. q.pc = "mark" /\ q.pending = s.pending /\ Become(p, q)
  BY <1>1 DEF PollState, Write
<1> HIDE DEF q
<1>3. ASSUME NEW v \in Versions, v[1] \in Keyed PROVE CopyOK(v)'
  <2>1. CopyOK(v) /\ copies'[v] \in Nat /\ copies[v] \in Nat
    BY <1>3 DEF CInv, QInv, TypeOK
  <2>2. p \notin Wrote(v) /\ (v \in s.pending <=> p \in Holding(v))
    BY <1>1 DEF Wrote, Holding
  <2>3. CASE v \in s.pending
    <3>1. copies'[v] <= copies[v] + 1
      BY <1>1, StoredOK
    <3>2. Wrote(v)' = Wrote(v) \cup {p} /\ Holding(v)' = Holding(v) \ {p}
      BY <1>2, <2>2, <2>3, PollSetsMove
    <3>3. /\ Cardinality(Wrote(v)') = Cardinality(Wrote(v)) + 1
          /\ Cardinality(Holding(v)') = Cardinality(Holding(v)) - 1
      <4>1. IsFiniteSet(Wrote(v)) /\ IsFiniteSet(Holding(v))
        BY CopyNumbers
      <4>2. /\ Cardinality(Wrote(v) \cup {p}) = Cardinality(Wrote(v)) + 1
            /\ Cardinality(Holding(v) \ {p}) = Cardinality(Holding(v)) - 1
        BY <2>2, <2>3, <4>1, FS_AddElement, FS_RemoveElement
      <4> QED BY <3>2, <4>2
    <3> QED BY <1>1, <2>1, <3>1, <3>3, CopyNumbers DEF CopyOK
  <2>4. CASE v \notin s.pending
    <3>1. copies'[v] = copies[v]
      BY <1>1, <2>4, StoredOK
    <3>2. Wrote(v)' = Wrote(v) /\ Holding(v)' = Holding(v)
      BY <1>2, <2>2, <2>4, PollSetsMove
    <3> QED BY <1>1, <2>1, <3>1, <3>2 DEF CopyOK
  <2> QED BY <2>3, <2>4
<1> QED BY <1>1, <1>3 DEF CInv

(* A write that fails may have stored its rows: the poll that held them    *)
(* was counted.                                                            *)
LEMMA WriteFailsC ==
  ASSUME QInv, CInv, QInv', NEW p \in Pollers, WriteFails(p)
  PROVE  CInv'
<1> DEFINE s == poll[p]
<1>1. /\ s \in PollState /\ s.pc = "write" /\ Fault
      /\ s.pending \in SUBSET Versions /\ copies' \in {copies, Stored(s.pending)}
  BY PollTypes DEF QInv, TypeOK, WriteFails
<1>2. ASSUME NEW v \in Versions, v[1] \in Keyed
      PROVE  copies'[v] <= Budget(1 + MaxFaults - faults)
  <2>1. CopyOK(v) /\ copies'[v] \in Nat /\ copies[v] \in Nat
    BY <1>2 DEF CInv, QInv, TypeOK
  <2>2. CASE v \in s.pending
    <3>1. copies'[v] <= copies[v] + 1
      BY <1>1, <2>1, StoredOK
    <3>2. p \in Holding(v)
      BY <1>1, <2>2 DEF Holding
    <3>3. Cardinality(Holding(v)) >= 1
      BY <3>2, CopyNumbers, FS_EmptySet
    <3> QED BY <2>1, <3>1, <3>3, CopyNumbers DEF CopyOK
  <2>3. CASE v \notin s.pending
    <3>1. copies'[v] = copies[v]
      BY <1>1, <2>3, StoredOK
    <3> QED BY <1>2, <3>1, WithinBudget
  <2> QED BY <2>2, <2>3
<1> QED BY <1>1, <1>2, FailureStep

(* A poll that marks its rows stops being counted, and the markers keep    *)
(* the others from taking them.                                            *)
LEMMA MarkC ==
  ASSUME QInv, CInv, QInv', NEW p \in Pollers, Mark(p)
  PROVE  CInv'
<1> DEFINE s == poll[p]
           q == [s EXCEPT !.pc = "scan", !.pending = {}]
<1>1. s \in PollState /\ s.pc = "mark" /\ UNCHANGED copies
  BY DEF QInv, TypeOK, Mark
<1>2. CASE Fault
  BY <1>1, <1>2, WithinBudget, FailureStep
<1>3. CASE ~Fault
  <2>1. UNCHANGED faults /\ marked' = marked \cup {v \in s.pending : v[1] \in Keyed}
    BY <1>3 DEF Mark, NoFault
  <2>2. q.pc = "scan" /\ q.pending = {} /\ Become(p, q)
    BY <1>1 DEF PollState, Mark
  <2> HIDE DEF q
  <2>3. ASSUME NEW v \in Versions, v[1] \in Keyed PROVE CopyOK(v)'
    <3>1. CopyOK(v)
      BY <2>3 DEF CInv
    <3>2. p \notin Holding(v) /\ (v \in s.pending <=> p \in Wrote(v))
      BY <1>1 DEF Wrote, Holding
    <3>3. Wrote(v)' = Wrote(v) \ {p} /\ Holding(v)' = Holding(v)
      BY <2>2, <3>2, PollSetsMove
    <3>4. CASE v \in s.pending
      <4>1. v \in marked'
        BY <2>1, <2>3, <3>4
      <4> QED BY <1>1, <2>1, <3>1, <3>3, <4>1, CopyNumbers DEF CopyOK
    <3>5. CASE v \notin s.pending
      <4>1. Wrote(v)' = Wrote(v) /\ (v \in marked' <=> v \in marked)
        BY <2>1, <3>2, <3>3, <3>5
      <4> QED BY <1>1, <2>1, <3>1, <3>3, <4>1 DEF CopyOK
    <3> QED BY <3>4, <3>5
  <2> QED BY <2>1, <2>3 DEF CInv
<1> QED BY <1>2, <1>3

(* The poll ends, with or without its watermark stored.                    *)
LEMMA StoreWatermarkC ==
  ASSUME QInv, CInv, QInv', NEW p \in Pollers, StoreWatermark(p)
  PROVE  CInv'
<1>1. UNCHANGED <<copies, marked>> /\ poll[p].pc = "end" /\ Become(p, Idle)
  BY DEF StoreWatermark
<1>2. CASE Fault
  BY <1>1, <1>2, WithinBudget, FailureStep
<1>3. CASE ~Fault
  <2>1. UNCHANGED faults
    BY <1>3 DEF StoreWatermark, NoFault
  <2>2. ASSUME NEW v \in Versions
        PROVE  Wrote(v)' = Wrote(v) /\ Holding(v)' \subseteq Holding(v)
    <3>1. p \notin Wrote(v) /\ Idle.pending = {}
      BY <1>1 DEF Wrote, Idle
    <3> QED BY <1>1, <3>1, PollSetsMove
  <2> QED BY <1>1, <2>1, <2>2, QuietStep
<1> QED BY <1>2, <1>3

(* CInv is inductive relative to QInv.                                     *)
LEMMA InductiveC == ASSUME QInv, CInv, QInv', [Next]_vars PROVE CInv'
<1>1. CASE UNCHANGED vars \/ Salesforce
  <2>1. UNCHANGED <<copies, marked, faults, poll>>
    BY <1>1 DEF vars, Salesforce, Tick, Change, Commit
  <2>2. \A v \in Versions : Wrote(v)' = Wrote(v) /\ Holding(v)' = Holding(v)
    BY <2>1 DEF Wrote, Holding
  <2> QED BY <2>1, <2>2, QuietStep
<1>2. CASE Forget
  BY <1>2, WithinBudget, FailureStep DEF Forget
<1>3. ASSUME NEW p \in Pollers, Abort(p) PROVE CInv'
  BY <1>3, WithinBudget, FailureStep DEF Abort
<1>4. ASSUME NEW p \in Pollers, PollStep(p) \/ WriteFails(p) PROVE CInv'
  BY <1>4, PollGoesOn, TakeRowC, WriteC, WriteFailsC, MarkC, StoreWatermarkC DEF PollStep
<1> QED BY <1>1, <1>2, <1>3, <1>4 DEF Next

(* Initially nothing is stored.                                            *)
LEMMA InitC == ASSUME Init, QInv PROVE CInv
<1>1. /\ faults = MaxFaults /\ MaxFaults \in Nat /\ marked = {}
      /\ \A v \in Versions : copies[v] = 0
  BY QueryAssumption DEF Init
<1>2. ASSUME NEW v \in Versions PROVE CopyOK(v)
  <2>1. Wrote(v) \in SUBSET Pollers /\ {} \in SUBSET Pollers /\ Wrote(v) \cap {} = {}
    BY DEF Wrote
  <2>2. Cardinality(Wrote(v)) \in Nat
    BY <2>1, PollerSets
  <2>3. MaxFaults - faults = 0 /\ Budget(0) \in Nat
    BY <1>1, BudgetGrows
  <2> QED BY <1>1, <2>2, <2>3 DEF CopyOK
<1> QED BY <1>1, <1>2 DEF CInv

(* Overlapping polls store few versions twice: each poller at most once,   *)
(* and once more for every failure.                                        *)
THEOREM FewStoredTwice == Spec => []CopiesBounded
<1>1. QInv /\ CInv => CopiesBounded
  <2>1. ASSUME QInv, CInv, NEW v \in Versions, v[1] \in Keyed
        PROVE  copies[v] <= Cardinality(Pollers) * (1 + MaxFaults - faults)
    BY <2>1, WithinBudget DEF Budget
  <2> QED BY <2>1 DEF CopiesBounded, FewCopies, QInv
<1>2. Init => QInv /\ CInv
  BY InitOK, InitC
<1>3. QInv /\ CInv /\ [Next]_vars => QInv' /\ CInv'
  BY Inductive, InductiveC
<1> QED BY <1>1, <1>2, <1>3, PTL DEF Spec

-----------------------------------------------------------------------------
(* RowVersions: numbers and joined sequences first, then rows.             *)

(* A set of numbers has a least one.                                       *)
LEMMA LeastNumber ==
  ASSUME NEW T \in SUBSET Nat, T # {}
  PROVE  \E n \in T : \A m \in T : n <= m
<1> DEFINE R == {ss \in Nat \X Nat : ss[1] < ss[2]}
<1>1. IsWellFoundedOn(R, Nat)
  BY NatLessThanWellFounded DEF OpToRel
<1>2. PICK n \in T : \A m \in T : ~(<<m, n>> \in R)
  <2> HIDE DEF R
  <2> QED BY <1>1, WFMin
<1>3. ASSUME NEW m \in T, m < n PROVE FALSE
  <2>1. <<m, n>> \in R
    BY <1>3
  <2> QED BY <1>2, <2>1
<1> QED BY <1>3

(* Induction over a set of numbers.                                        *)
LEMMA NumberInduction ==
  ASSUME NEW S \in SUBSET Nat, 0 \in S, \A n \in S : n + 1 \in S
  PROVE  S = Nat
<1> SUFFICES ASSUME Nat \ S # {} PROVE FALSE
  OBVIOUS
<1>1. PICK n \in Nat \ S : \A m \in Nat \ S : n <= m
  BY LeastNumber
<1>2. n # 0
  OBVIOUS
<1>3. n - 1 \in Nat /\ n - 1 < n
  BY <1>2
<1>4. n - 1 \in S
  BY <1>1, <1>3
<1>5. (n - 1) + 1 \in S
  BY <1>4
<1> QED BY <1>1, <1>5

-----------------------------------------------------------------------------
(* Joined sequences.  Joins(s, f) says that f[i] is what the first i       *)
(* sequences of s make when they are put one after the other.              *)
Joins(V, s, f) ==
    /\ f \in [0..Len(s) -> Seq(V)]
    /\ f[0] = <<>>
    /\ \A i \in 1..Len(s) : f[i] = f[i - 1] \o s[i]

(* The joins of the beginnings of a sequence exist.                        *)
LEMMA JoinsExist ==
  ASSUME NEW V, NEW s \in Seq(Seq(V))
  PROVE  \E f : Joins(V, s, f)
<1> DEFINE Upto(n, f) == /\ f \in [0..n -> Seq(V)] /\ f[0] = <<>>
                         /\ \A i \in 1..n : f[i] = f[i - 1] \o s[i]
<1> DEFINE S == {n \in Nat : n <= Len(s) => \E f : Upto(n, f)}
<1>1. 0 \in S
  <2>1. Upto(0, [i \in 0..0 |-> <<>>])
    OBVIOUS
  <2> QED BY <2>1
<1>2. ASSUME NEW n \in S PROVE n + 1 \in S
  <2>1. n \in Nat /\ n + 1 \in Nat
    OBVIOUS
  <2>2. SUFFICES ASSUME n + 1 <= Len(s) PROVE \E f : Upto(n + 1, f)
    BY <2>1
  <2>3. PICK f : Upto(n, f)
    <3>1. n <= Len(s)
      BY <2>1, <2>2
    <3> HIDE DEF Upto
    <3> QED BY <3>1
  <2> DEFINE g == [i \in 0..(n + 1) |-> IF i = n + 1 THEN f[n] \o s[n + 1] ELSE f[i]]
  <2>4. s[n + 1] \in Seq(V) /\ f[n] \in Seq(V)
    <3>1. n + 1 \in 1..Len(s) /\ n \in 0..n
      BY <2>1, <2>2
    <3> QED BY <2>3, <3>1
  <2>5. f[n] \o s[n + 1] \in Seq(V)
    BY <2>4
  <2>6. g \in [0..(n + 1) -> Seq(V)] /\ g[0] = <<>>
    BY <2>1, <2>3, <2>5
  <2>7. ASSUME NEW i \in 1..(n + 1) PROVE g[i] = g[i - 1] \o s[i]
    <3>1. i \in 0..(n + 1) /\ i - 1 \in 0..(n + 1) /\ i - 1 # n + 1
      BY <2>1
    <3>2. g[i - 1] = f[i - 1]
      BY <3>1
    <3>3. CASE i = n + 1
      <4>1. i - 1 = n
        BY <2>1, <3>3
      <4> QED BY <3>1, <3>2, <3>3, <4>1
    <3>4. CASE i # n + 1
      <4>1. i \in 1..n /\ g[i] = f[i]
        BY <2>1, <3>1, <3>4
      <4> QED BY <2>3, <3>2, <4>1
    <3> QED BY <3>3, <3>4
  <2>8. Upto(n + 1, g)
    BY <2>6, <2>7
  <2> QED BY <2>8
<1> HIDE DEF S, Upto
<1>3. S = Nat
  <2>1. S \in SUBSET Nat
    BY DEF S
  <2> QED BY <1>1, <1>2, <2>1, NumberInduction
<1>4. Len(s) \in S /\ Len(s) <= Len(s)
  BY <1>3
<1>5. PICK f : Upto(Len(s), f)
  BY <1>4 DEF S
<1> QED BY <1>5 DEF Joins, Upto

(* FlattenSeq is the last of these joins.                                  *)
LEMMA FlattenIs ==
  ASSUME NEW V, NEW s \in Seq(Seq(V)), s # <<>>, NEW f, Joins(V, s, f)
  PROVE  FlattenSeq(s) = f[Len(s)]
<1> DEFINE P(g) == g = [i \in 1..Len(s) |-> IF i = 1 THEN s[i] ELSE g[i - 1] \o s[i]]
<1> DEFINE h == CHOOSE g : P(g)
<1> DEFINE e == [i \in 1..Len(s) |-> f[i]]
<1>0. Len(s) \in Nat /\ Len(s) # 0 /\ \A i \in 1..Len(s) : s[i] \in Seq(V)
  <2>1. Len(s) \in Nat /\ \A i \in 1..Len(s) : s[i] \in Seq(V)
    OBVIOUS
  <2>2. Len(s) # 0
    OBVIOUS
  <2> QED BY <2>1, <2>2
<1>1. P(e)
  <2>1. ASSUME NEW i \in 1..Len(s)
        PROVE  e[i] = IF i = 1 THEN s[i] ELSE e[i - 1] \o s[i]
    <3>1. CASE i = 1
      <4>1. f[1] = f[1 - 1] \o s[1] /\ 1 - 1 = 0
        BY <3>1 DEF Joins
      <4>2. f[0] \o s[1] = s[1]
        BY <1>0, <3>1 DEF Joins
      <4> QED BY <3>1, <4>1, <4>2
    <3>2. CASE i # 1
      <4>1. i - 1 \in 1..Len(s)
        BY <1>0, <3>2
      <4> QED BY <3>2, <4>1 DEF Joins
    <3> QED BY <3>1, <3>2
  <2> QED BY <2>1
<1>2. P(h)
  BY <1>1
<1>3. FlattenSeq(s) = h[Len(s)]
  BY <1>0 DEF FlattenSeq
<1> HIDE DEF h, e
<1>4. \A i \in 1..Len(s) : h[i] = IF i = 1 THEN s[i] ELSE h[i - 1] \o s[i]
  BY <1>2
<1> DEFINE S == {n \in Nat : n + 1 <= Len(s) => h[n + 1] = e[n + 1]}
<1>5. \A i \in 1..Len(s) : e[i] = IF i = 1 THEN s[i] ELSE e[i - 1] \o s[i]
  BY <1>1
<1>6. 0 \in S
  BY <1>0, <1>4, <1>5
<1>7. ASSUME NEW n \in S PROVE n + 1 \in S
  <2>1. n \in Nat /\ n + 1 \in Nat
    OBVIOUS
  <2>2. SUFFICES ASSUME (n + 1) + 1 <= Len(s) PROVE h[(n + 1) + 1] = e[(n + 1) + 1]
    BY <2>1
  <2>3. h[n + 1] = e[n + 1] /\ (n + 1) + 1 \in 1..Len(s) /\ ((n + 1) + 1) - 1 = n + 1 /\ (n + 1) + 1 # 1
    BY <1>0, <2>1, <2>2
  <2> QED BY <1>4, <1>5, <2>3
<1> HIDE DEF S
<1>8. S = Nat
  <2>1. S \in SUBSET Nat
    BY DEF S
  <2> QED BY <1>6, <1>7, <2>1, NumberInduction
<1>9. Len(s) - 1 \in S /\ (Len(s) - 1) + 1 = Len(s)
  BY <1>0, <1>8
<1>10. h[Len(s)] = e[Len(s)]
  BY <1>9 DEF S
<1> QED BY <1>0, <1>3, <1>10 DEF e

(* What a concatenation consists of.                                       *)
LEMMA ConcatParts ==
  ASSUME NEW V, NEW s \in Seq(V), NEW t \in Seq(V)
  PROVE  /\ s \o t \in Seq(V)
         /\ Len(s \o t) = Len(s) + Len(t)
         /\ \A k \in 1..Len(s) : (s \o t)[k] = s[k]
         /\ \A k \in 1..Len(t) : (s \o t)[Len(s) + k] = t[k]
<1>1. Len(s) \in Nat /\ Len(t) \in Nat
  OBVIOUS
<1>2. \A k \in 1..Len(s) : k \in 1..(Len(s) + Len(t)) /\ k <= Len(s)
  BY <1>1
<1>3. \A k \in 1..Len(t) :
         Len(s) + k \in 1..(Len(s) + Len(t)) /\ ~(Len(s) + k <= Len(s)) /\ (Len(s) + k) - Len(s) = k
  BY <1>1
<1> QED BY <1>1, <1>2, <1>3

BeginsWith(t, s) == Len(s) <= Len(t) /\ \A k \in 1..Len(s) : t[k] = s[k]

(* Each join begins with the ones before it.                               *)
LEMMA JoinsGrow ==
  ASSUME NEW V, NEW s \in Seq(Seq(V)), NEW f, Joins(V, s, f),
         NEW i \in 0..Len(s)
  PROVE  BeginsWith(f[Len(s)], f[i])
<1> DEFINE Begins(n) == /\ Len(f[i]) <= Len(f[n])
                        /\ \A k \in 1..Len(f[i]) : f[n][k] = f[i][k]
<1> DEFINE S == {m \in Nat : i + m <= Len(s) => Begins(i + m)}
<1>0. Len(s) \in Nat /\ \A j \in 1..Len(s) : s[j] \in Seq(V)
  OBVIOUS
<1>1. 0 \in S
  <2>1. f[i] \in Seq(V)
    BY DEF Joins
  <2> QED BY <1>0, <2>1
<1>2. ASSUME NEW m \in S PROVE m + 1 \in S
  <2>1. m \in Nat /\ m + 1 \in Nat
    OBVIOUS
  <2> DEFINE n == i + m
  <2>2. SUFFICES ASSUME i + (m + 1) <= Len(s) PROVE Begins(i + (m + 1))
    BY <2>1
  <2>3. n \in 0..Len(s) /\ n + 1 \in 1..Len(s) /\ (n + 1) - 1 = n /\ i + (m + 1) = n + 1 /\ i + m <= Len(s)
    BY <1>0, <2>1, <2>2
  <2>4. Begins(n)
    BY <2>3
  <2>5. f[n + 1] = f[n] \o s[n + 1] /\ f[n] \in Seq(V) /\ s[n + 1] \in Seq(V) /\ f[i] \in Seq(V)
    BY <1>0, <2>3 DEF Joins
  <2> HIDE DEF n, S, Begins
  <2>6. Len(f[n + 1]) = Len(f[n]) + Len(s[n + 1]) /\ \A k \in 1..Len(f[n]) : f[n + 1][k] = f[n][k]
    <3> DEFINE a == f[n]
               b == s[n + 1]
    <3>1. a \in Seq(V) /\ b \in Seq(V) /\ f[n + 1] = a \o b
      BY <2>5
    <3> HIDE DEF a, b
    <3>2. Len(a \o b) = Len(a) + Len(b) /\ \A k \in 1..Len(a) : (a \o b)[k] = a[k]
      BY <3>1, ConcatParts
    <3> QED BY <3>1, <3>2 DEF a, b
  <2>7. Len(f[i]) \in Nat /\ Len(f[n]) \in Nat /\ Len(s[n + 1]) \in Nat
    BY <2>5
  <2>8. Len(f[i]) <= Len(f[n + 1])
    <3>1. Len(f[i]) <= Len(f[n])
      BY <2>4 DEF Begins
    <3> DEFINE x == Len(f[i])
               y == Len(f[n])
               z == Len(s[n + 1])
               w == Len(f[n + 1])
    <3>2. w = y + z /\ x <= y /\ x \in Nat /\ y \in Nat /\ z \in Nat
      BY <2>6, <2>7, <3>1
    <3> HIDE DEF x, y, z, w
    <3>3. x <= w
      BY <3>2
    <3> QED BY <3>3 DEF x, w
  <2>9. \A k \in 1..Len(f[i]) : f[n + 1][k] = f[i][k]
    <3>1. \A k \in 1..Len(f[i]) : k \in 1..Len(f[n])
      BY <2>4, <2>7 DEF Begins
    <3> QED BY <2>4, <2>6, <3>1 DEF Begins
  <2> QED BY <2>3, <2>8, <2>9 DEF Begins
<1> HIDE DEF S
<1>3. S = Nat
  <2>1. S \in SUBSET Nat
    BY DEF S
  <2> QED BY <1>1, <1>2, <2>1, NumberInduction
<1>4. Len(s) - i \in S /\ i + (Len(s) - i) = Len(s) /\ Len(s) <= Len(s)
  BY <1>0, <1>3
<1> QED BY <1>4 DEF S, BeginsWith

(* A value with its length in front.                                       *)
Block(x)  == <<Len(x)>> \o x
Blocks(u) == [i \in 1..Len(u) |-> Block(u[i])]

(* What the places of a block hold.                                        *)
LEMMA BlockParts ==
  ASSUME NEW V, Nat \subseteq V, NEW x \in Seq(V)
  PROVE  /\ Block(x) \in Seq(V) /\ Len(Block(x)) = 1 + Len(x)
         /\ Block(x)[1] = Len(x)
         /\ \A k \in 1..Len(x) : Block(x)[1 + k] = x[k]
<1> DEFINE l == <<Len(x)>>
<1>1. l \in Seq(V) /\ Len(l) = 1 /\ l[1] = Len(x) /\ 1 \in 1..1
  OBVIOUS
<1> HIDE DEF l
<1> DEFINE c == l \o x
<1>2. c \in Seq(V) /\ Len(c) = 1 + Len(x)
  <2>1. c \in Seq(V) /\ Len(c) = Len(l) + Len(x)
    BY <1>1, ConcatParts
  <2> QED BY <1>1, <2>1
<1>3. \A k \in 1..1 : c[k] = l[k]
  <2>1. \A k \in 1..Len(l) : c[k] = l[k]
    BY <1>1, ConcatParts
  <2> QED BY <1>1, <2>1
<1>4. \A k \in 1..Len(x) : c[1 + k] = x[k]
  <2>1. \A k \in 1..Len(x) : c[Len(l) + k] = x[k]
    <3>1. l \in Seq(V) /\ x \in Seq(V)
      BY <1>1
    <3> QED BY ONLY <3>1, ConcatParts
  <2> QED BY <1>1, <2>1
<1>5. Block(x) = c
  BY DEF Block, l
<1> HIDE DEF c
<1> QED BY <1>1, <1>2, <1>3, <1>4, <1>5

(* The i-th of the values u lies, after its length, behind the join of the *)
(* ones before it.                                                         *)
PlacedAt(u, f, i, p) ==
    /\ p \in Nat
    /\ Len(f[i]) = p + 1 + Len(u[i])
    /\ f[Len(u)][p + 1] = Len(u[i])
    /\ \A k \in 1..Len(u[i]) : f[Len(u)][p + 1 + k] = u[i][k]

(* In the join of all blocks each value lies where its length says.        *)
LEMMA BlockPlace ==
  ASSUME NEW V, Nat \subseteq V, NEW u \in Seq(Seq(V)),
         NEW s, s = [i \in 1..Len(u) |-> Block(u[i])],
         NEW f, Joins(V, s, f), NEW i \in 1..Len(u), NEW p, p = Len(f[i - 1])
  PROVE  PlacedAt(u, f, i, p)
<1> DEFINE b == Block(u[i])
           a == f[i - 1]
           c == f[i]
           x == u[i]
           F == f[Len(u)]
<1>1. \A j \in 1..Len(u) : u[j] \in Seq(V) /\ Block(u[j]) \in Seq(V)
  <2> SUFFICES ASSUME NEW j \in 1..Len(u) PROVE u[j] \in Seq(V) /\ Block(u[j]) \in Seq(V)
    OBVIOUS
  <2>1. u[j] \in Seq(V)
    OBVIOUS
  <2> DEFINE y == u[j]
  <2> HIDE DEF y
  <2>2. y \in Seq(V)
    BY <2>1 DEF y
  <2>3. Block(y) \in Seq(V)
    BY <2>2, BlockParts
  <2> QED BY <2>1, <2>3 DEF y
<1>2. s \in Seq(Seq(V)) /\ Len(s) = Len(u) /\ s[i] = b
  BY <1>1
<1>3. x \in Seq(V) /\ i - 1 \in 0..Len(s) /\ i \in 0..Len(s) /\ i \in 1..Len(s)
  BY <1>1, <1>2
<1>4. a \in Seq(V) /\ c = a \o b
  BY <1>2, <1>3 DEF Joins
<1>5. /\ Len(c) <= Len(F)
      /\ \A k \in 1..Len(c) : F[k] = c[k]
  <2>1. BeginsWith(f[Len(s)], f[i])
    <3>1. s \in Seq(Seq(V)) /\ Joins(V, s, f) /\ i \in 0..Len(s)
      BY <1>2, <1>3
    <3> HIDE DEF b, a, c, x, F
    <3> QED BY <3>1, JoinsGrow
  <2> QED BY <1>2, <2>1 DEF BeginsWith
<1>6. /\ b \in Seq(V) /\ Len(b) = 1 + Len(x) /\ b[1] = Len(x)
      /\ \A k \in 1..Len(x) : b[1 + k] = x[k]
  <2>1. b = Block(x)
    OBVIOUS
  <2> HIDE DEF x, b
  <2> QED BY <1>3, <2>1, BlockParts
<1>7. p = Len(a)
  OBVIOUS
<1> HIDE DEF a, b, c, x, F
<1>8. Len(c) = Len(a) + Len(b) /\ \A k \in 1..Len(b) : c[Len(a) + k] = b[k]
  <2>1. a \in Seq(V) /\ b \in Seq(V) /\ c = a \o b
    BY <1>4, <1>6
  <2> QED BY ONLY <2>1, ConcatParts
<1>9. p \in Nat /\ Len(x) \in Nat /\ Len(c) = p + (1 + Len(x))
  <2>1. Len(a) \in Nat /\ Len(x) \in Nat
    BY <1>3, <1>4
  <2>2. Len(c) = Len(a) + (1 + Len(x))
    BY <1>6, <1>8
  <2> QED BY <1>7, <2>1, <2>2
<1> DEFINE n == Len(x)
           m == Len(c)
<1>n. n \in Nat /\ m = p + (1 + n) /\ p \in Nat /\ n = Len(x) /\ m = Len(c)
  BY <1>9
<1>b. \A k \in 1..(1 + n) : c[p + k] = b[k]
  BY <1>6, <1>7, <1>8
<1> HIDE DEF n, m
<1>10. ASSUME NEW k \in 1..(1 + n) PROVE F[p + k] = b[k]
  <2>0. k \in 1..(1 + n)
    OBVIOUS
  <2>1. p + k \in 1..m
    BY ONLY <1>n, <2>0
  <2>2. F[p + k] = c[p + k]
    BY <1>5, <1>n, <2>1
  <2> QED BY <1>b, <2>2
<1>11. F[p + 1] = n
  <2>1. 1 \in 1..(1 + n)
    BY ONLY <1>n
  <2> QED BY <1>6, <1>n, <1>10, <2>1
<1>12. ASSUME NEW k \in 1..n PROVE F[p + 1 + k] = x[k]
  <2>0. k \in 1..n
    OBVIOUS
  <2>1. 1 + k \in 1..(1 + n) /\ p + (1 + k) = p + 1 + k
    BY ONLY <1>n, <2>0
  <2>2. F[p + (1 + k)] = b[1 + k]
    BY <1>10, <2>1
  <2>3. b[1 + k] = x[k]
    BY <1>6, <1>n
  <2> QED BY <2>1, <2>2, <2>3
<1>13. m = p + 1 + n
  BY ONLY <1>n
<1>14. p \in Nat /\ Len(c) = p + 1 + Len(x) /\ F[p + 1] = Len(x) /\ \A k \in 1..Len(x) : F[p + 1 + k] = x[k]
  BY <1>n, <1>11, <1>12, <1>13
<1> QED BY <1>14 DEF c, x, F, PlacedAt

(* Blocks as the elements of a sequence.                                   *)
LEMMA BlocksOf ==
  ASSUME NEW V, Nat \subseteq V, NEW u \in Seq(Seq(V)), u # <<>>,
         NEW s, s = [i \in 1..Len(u) |-> Block(u[i])]
  PROVE  s \in Seq(Seq(V)) /\ Len(s) = Len(u) /\ s # <<>> /\ Len(u) \in Nat \ {0}
<1>1. ASSUME NEW j \in 1..Len(u) PROVE Block(u[j]) \in Seq(V)
  <2> DEFINE y == u[j]
  <2>1. y \in Seq(V)
    OBVIOUS
  <2> HIDE DEF y
  <2>2. Block(y) \in Seq(V)
    BY <2>1, BlockParts
  <2> QED BY <2>2 DEF y
<1>2. Len(u) \in Nat /\ Len(u) # 0
  <2>1. Len(u) \in Nat
    OBVIOUS
  <2>2. Len(u) # 0
    OBVIOUS
  <2> QED BY <2>1, <2>2
<1>3. s \in Seq(Seq(V)) /\ Len(s) = Len(u)
  BY <1>1, <1>2
<1> QED BY <1>2, <1>3

(* Values that are joined with their lengths can be told apart again.      *)
LEMMA JoinInjective ==
  ASSUME NEW V, Nat \subseteq V, NEW u \in Seq(Seq(V)), NEW v \in Seq(Seq(V)),
         Len(u) = Len(v), u # <<>>,
         FlattenSeq(Blocks(u)) = FlattenSeq(Blocks(v))
  PROVE  u = v
<1> DEFINE s == Blocks(u)
           t == Blocks(v)
<1>1. v # <<>>
  OBVIOUS
<1>3. s = [i \in 1..Len(u) |-> Block(u[i])] /\ t = [i \in 1..Len(v) |-> Block(v[i])]
  BY DEF Blocks
<1>4. FlattenSeq(s) = FlattenSeq(t)
  OBVIOUS
<1> HIDE DEF s, t
<1>2a. s \in Seq(Seq(V)) /\ Len(s) = Len(u) /\ s # <<>> /\ Len(u) \in Nat \ {0}
  BY <1>3, BlocksOf
<1>2b. t \in Seq(Seq(V)) /\ Len(t) = Len(u) /\ t # <<>>
  BY <1>1, <1>3, BlocksOf
<1>2. /\ s \in Seq(Seq(V)) /\ Len(s) = Len(u) /\ t \in Seq(Seq(V)) /\ Len(t) = Len(u)
      /\ Len(u) \in Nat /\ Len(u) # 0 /\ s # <<>> /\ t # <<>>
  BY <1>2a, <1>2b
<1>5. PICK f : Joins(V, s, f)
  BY <1>2, JoinsExist
<1>6. PICK g : Joins(V, t, g)
  BY <1>2, JoinsExist
<1> DEFINE F == f[Len(u)]
<1>7. F = g[Len(v)]
  BY <1>2, <1>4, <1>5, <1>6, FlattenIs
<1> DEFINE S == {n \in Nat : n <= Len(u) => Len(f[n]) = Len(g[n])}
<1>8. ASSUME NEW i \in 1..Len(u), Len(f[i - 1]) = Len(g[i - 1])
      PROVE  u[i] = v[i] /\ Len(f[i]) = Len(g[i])
  <2> DEFINE p == Len(f[i - 1])
             x == u[i]
             y == v[i]
  <2>0. p = Len(f[i - 1]) /\ p = Len(g[i - 1]) /\ i \in 1..Len(v)
    BY <1>8
  <2>3. x \in Seq(V) /\ y \in Seq(V) /\ x = u[i] /\ y = v[i]
    OBVIOUS
  <2> HIDE DEF p, x, y, F
  <2>1. PlacedAt(u, f, i, p)
    BY <1>3, <1>5, <2>0, BlockPlace
  <2>2. PlacedAt(v, g, i, p)
    BY <1>3, <1>6, <2>0, BlockPlace
  <2>4. Len(x) = F[p + 1] /\ Len(y) = F[p + 1] /\ Len(f[i]) = p + 1 + Len(x) /\ Len(g[i]) = p + 1 + Len(y)
    BY <1>7, <2>1, <2>2, <2>3 DEF F, PlacedAt
  <2>5. \A k \in 1..Len(x) : x[k] = y[k]
    <3>1. \A k \in 1..Len(x) : F[p + 1 + k] = x[k]
      BY <2>1, <2>3 DEF F, PlacedAt
    <3>2. \A k \in 1..Len(y) : F[p + 1 + k] = y[k]
      BY <1>7, <2>2, <2>3 DEF PlacedAt
    <3>3. Len(x) = Len(y)
      BY <2>4
    <3> QED BY <3>1, <3>2, <3>3
  <2>6. x = y
    <3>1. Len(x) = Len(y)
      BY <2>4
    <3> QED BY <2>3, <2>5, <3>1, SeqEqual
  <2> QED BY <2>3, <2>4, <2>6
<1>9. 0 \in S
  BY <1>5, <1>6 DEF Joins
<1>10. ASSUME NEW n \in S PROVE n + 1 \in S
  <2>1. n \in Nat /\ n + 1 \in Nat
    OBVIOUS
  <2>2. SUFFICES ASSUME n + 1 <= Len(u) PROVE Len(f[n + 1]) = Len(g[n + 1])
    BY <2>1
  <2>3. n + 1 \in 1..Len(u) /\ (n + 1) - 1 = n /\ n <= Len(u)
    BY <1>2, <2>1, <2>2
  <2>4. Len(f[n]) = Len(g[n])
    BY <2>3
  <2> QED BY <1>8, <2>3, <2>4
<1> HIDE DEF S
<1>11. S = Nat
  <2>1. S \in SUBSET Nat
    BY DEF S
  <2> QED BY <1>9, <1>10, <2>1, NumberInduction
<1>12. ASSUME NEW i \in 1..Len(u) PROVE u[i] = v[i]
  <2>1. i - 1 \in S /\ i - 1 <= Len(u)
    BY <1>2, <1>11
  <2>2. Len(f[i - 1]) = Len(g[i - 1])
    BY <2>1 DEF S
  <2> QED BY <1>8, <2>2
<1> QED BY <1>12, SeqEqual
(* A sequence of elements of S is one of elements of a larger set.         *)
LEMMA SeqWider ==
  ASSUME NEW S, NEW T, S \subseteq T, NEW x \in Seq(S)
  PROVE  x \in Seq(T)
<1>1. x = [i \in 1..Len(x) |-> x[i]] /\ Len(x) \in Nat /\ \A i \in 1..Len(x) : x[i] \in S
  OBVIOUS
<1>2. [i \in 1..Len(x) |-> x[i]] \in Seq(T)
  BY <1>1
<1> QED BY <1>1, <1>2

-----------------------------------------------------------------------------
(* The row that query q gets of record r while it was modified at s and    *)
(* ended at e.                                                             *)
ValueAt(r, f, s, e) ==
    CASE f = "Id"    -> <<r>>
      [] f = "Stamp" -> <<s>>
      [] f = "End"   -> IF e = 0 THEN Nil ELSE <<e>>
      [] OTHER       -> Text[r][f]

RowAt(q, r, s, e) == [f \in SelectedFields(q) |-> ValueAt(r, f, s, e)]

FieldNames == {"Id", "Stamp", "End", "A", "B"}

(* What the values of a row consist of.                                    *)
Symbols == Nat \union STRING \union Records

(* A configured query that passed the checks.                              *)
Accepted(q) == \E c \in QueryConfigs : IntegrityCheck(c) /\ q = WithDefaults(c)

(* The defaults change nothing that tells rows apart.                      *)
LEMMA DefaultsKeep ==
  ASSUME NEW c \in QueryConfig
  PROVE  /\ WithDefaults(c) \in QueryConfig
         /\ WithDefaults(c).select = c.select
         /\ WithDefaults(c).timestamp = c.timestamp
         /\ WithDefaults(c).endTimestamp = c.endTimestamp
         /\ WithDefaults(c).customId = c.customId
         /\ SelectedFields(WithDefaults(c)) = SelectedFields(c)
<1>1. c.apiName \in {Empty, "rest", "tooling", "soap"}
  BY DEF QueryConfig
<1>2. (IF c.apiName = Empty THEN "rest" ELSE c.apiName) \in {Empty, "rest", "tooling", "soap"}
  BY <1>1
<1>3. /\ WithDefaults(c).select = c.select
      /\ WithDefaults(c).timestamp = c.timestamp
      /\ WithDefaults(c).endTimestamp = c.endTimestamp
      /\ WithDefaults(c).customId = c.customId
  BY DEF WithDefaults, QueryConfig
<1>4. WithDefaults(c) \in QueryConfig
  BY <1>2 DEF WithDefaults, QueryConfig
<1> QED BY <1>3, <1>4 DEF SelectedFields

(* What an accepted query selects.                                         *)
LEMMA AcceptedFields ==
  ASSUME NEW q, Accepted(q)
  PROVE  /\ q \in QueryConfig
         /\ SelectedFields(q) \subseteq FieldNames
         /\ "Stamp" \in SelectedFields(q)
         /\ Spelled(q) => q.timestamp = "Stamp"
<1>1. PICK c \in QueryConfigs : IntegrityCheck(c) /\ q = WithDefaults(c)
  BY DEF Accepted
<1>2. c \in QueryConfig
  BY RowAssumption
<1>3. q \in QueryConfig /\ q.timestamp = c.timestamp /\ SelectedFields(q) = SelectedFields(c)
  BY <1>1, <1>2, DefaultsKeep
<1>4. c.timestamp # Empty /\ Canonical[c.timestamp] = "Stamp"
  BY <1>1, RowAssumption DEF ConfigsFit, IntegrityCheck
<1>5. SelectsField(c.select, c.timestamp)
  BY <1>1 DEF IntegrityCheck
<1>6. "Stamp" \in SelectedFields(c)
  BY <1>4, <1>5 DEF SelectsField, SelectedFields
<1>7. c.select \subseteq Names
  BY <1>2 DEF QueryConfig
<1>8. \A n \in Names : Canonical[n] \in FieldNames
  BY DEF Names, Canonical, FieldNames
<1>9. SelectedFields(c) \subseteq FieldNames
  BY <1>7, <1>8 DEF SelectedFields
<1>10. Spelled(q) => q.timestamp = "Stamp"
  BY <1>3, <1>4 DEF Spelled
<1> QED BY <1>3, <1>6, <1>9, <1>10

(* The row has the fields that q selects, and shows record r at time s.    *)
Shows(row, q, r, s) ==
    /\ DOMAIN row = SelectedFields(q)
    /\ row["Stamp"] = <<s>>
    /\ "Id" \in DOMAIN row => row["Id"] = <<r>>
    /\ \A f \in DOMAIN row \intersect {"A", "B"} : row[f] = Text[r][f]
    /\ \A f \in DOMAIN row : row[f] \in Seq(Symbols)

(* What the row of an accepted query shows.                                *)
LEMMA RowValues ==
  ASSUME NEW q, Accepted(q), NEW r \in Records, NEW s \in Nat, NEW e \in Nat,
         NEW row, row = RowAt(q, r, s, e)
  PROVE  Shows(row, q, r, s)
<1>1. SelectedFields(q) \subseteq FieldNames /\ "Stamp" \in SelectedFields(q)
  BY AcceptedFields
<1>2. DOMAIN row = SelectedFields(q) /\ \A f \in SelectedFields(q) : row[f] = ValueAt(r, f, s, e)
  BY DEF RowAt
<1>3. ValueAt(r, "Id", s, e) = <<r>> /\ ValueAt(r, "Stamp", s, e) = <<s>>
  BY DEF ValueAt
<1>4. ASSUME NEW f \in {"A", "B"} PROVE ValueAt(r, f, s, e) = Text[r][f]
  BY DEF ValueAt
<1>5. <<r>> \in Seq(Symbols) /\ <<s>> \in Seq(Symbols) /\ <<e>> \in Seq(Symbols) /\ Nil \in Seq(Symbols)
  <2>1. r \in Symbols /\ s \in Symbols /\ e \in Symbols
    BY DEF Symbols
  <2> QED BY <2>1 DEF Nil
<1>6. ASSUME NEW f \in {"A", "B"} PROVE Text[r][f] \in Seq(Symbols)
  <2>1. Text[r][f] \in Seq(STRING)
    <3>1. Text \in [Records -> [{"A", "B"} -> Seq(STRING)]]
      BY RowAssumption
    <3>2. Text[r] \in [{"A", "B"} -> Seq(STRING)]
      BY <3>1
    <3> QED BY <3>2
  <2>2. STRING \subseteq Symbols
    BY DEF Symbols
  <2> QED BY <2>1, <2>2, SeqWider
<1>7. ASSUME NEW f \in FieldNames PROVE ValueAt(r, f, s, e) \in Seq(Symbols)
  <2>1. CASE f = "Id"
    BY <1>3, <1>5, <2>1
  <2>2. CASE f = "Stamp"
    BY <1>3, <1>5, <2>2
  <2>3. CASE f = "End"
    <3>1. ValueAt(r, f, s, e) = IF e = 0 THEN Nil ELSE <<e>>
      BY <2>3 DEF ValueAt
    <3> QED BY <1>5, <3>1
  <2>4. CASE f \in {"A", "B"}
    BY <1>4, <1>6, <2>4
  <2> QED BY <2>1, <2>2, <2>3, <2>4 DEF FieldNames
<1> QED BY <1>1, <1>2, <1>3, <1>4, <1>7 DEF Shows

(* An accepted query without the Id names the record with its customId,    *)
(* and so does every other that selects the same fields.                   *)
LEMMA AcceptedCustomId ==
  ASSUME NEW p, Accepted(p), NEW q, Accepted(q), SelectedFields(p) = SelectedFields(q),
         "Id" \notin SelectedFields(p)
  PROVE  /\ p.customId = q.customId /\ p.customId \in Seq(Names)
         /\ p.customId # <<>> =>
               \A r, s \in Records : r # s =>
                  \E i \in DOMAIN p.customId :
                     /\ p.customId[i] \in {"A", "B"}
                     /\ Text[r][p.customId[i]] # Text[s][p.customId[i]]
<1>1. PICK c \in QueryConfigs : IntegrityCheck(c) /\ p = WithDefaults(c)
  BY DEF Accepted
<1>2. PICK d \in QueryConfigs : IntegrityCheck(d) /\ q = WithDefaults(d)
  BY DEF Accepted
<1>3. c \in QueryConfig /\ d \in QueryConfig
  BY RowAssumption
<1>4. /\ p.customId = c.customId /\ SelectedFields(p) = SelectedFields(c)
      /\ q.customId = d.customId /\ SelectedFields(q) = SelectedFields(d)
  BY <1>1, <1>2, <1>3, DefaultsKeep
<1>fit. ConfigsFit
  BY RowAssumption
<1>same. SelectedFields(c) = SelectedFields(d) /\ "Id" \notin SelectedFields(c)
  BY <1>4
<1>5. c.customId = d.customId
  <2>1. SelectedFields(c) = SelectedFields(d) /\ "Id" \notin SelectedFields(c) =>
           c.customId = d.customId
    BY <1>fit, Zenon DEF ConfigsFit
  <2> QED BY <1>same, <2>1
<1>6. c.customId \in Seq(Names)
  BY <1>3 DEF QueryConfig
<1>7. c.customId # <<>> =>
         \A r, s \in Records : r # s =>
            \E i \in DOMAIN c.customId :
               /\ c.customId[i] \in {"A", "B"}
               /\ Text[r][c.customId[i]] # Text[s][c.customId[i]]
  BY <1>fit, <1>same DEF ConfigsFit
<1> QED BY <1>4, <1>5, <1>6, <1>7

(* A custom ID names one record.                                           *)
LEMMA CustomIdNames ==
  ASSUME NEW a, NEW b, NEW ids \in Seq(Names), DOMAIN a = DOMAIN b,
         \A f \in DOMAIN a : a[f] \in Seq(Symbols) /\ b[f] \in Seq(Symbols),
         BuildCustomId(a, ids) # Nil, BuildCustomId(a, ids) = BuildCustomId(b, ids)
  PROVE  ids # <<>> /\ \A i \in DOMAIN ids : ids[i] \in DOMAIN a /\ a[ids[i]] = b[ids[i]]
<1>1. ids # <<>> /\ \A i \in DOMAIN ids : ids[i] \in DOMAIN a
  BY DEF BuildCustomId
<1>2. FlattenSeq([i \in DOMAIN ids |-> <<Len(a[ids[i]])>> \o a[ids[i]]]) =
         FlattenSeq([i \in DOMAIN ids |-> <<Len(b[ids[i]])>> \o b[ids[i]]])
  BY <1>1 DEF BuildCustomId
<1> DEFINE u == [i \in 1..Len(ids) |-> a[ids[i]]]
           v == [i \in 1..Len(ids) |-> b[ids[i]]]
<1>3. DOMAIN ids = 1..Len(ids) /\ Len(ids) \in Nat /\ Len(ids) # 0
  <2>1. DOMAIN ids = 1..Len(ids) /\ Len(ids) \in Nat
    OBVIOUS
  <2>2. Len(ids) # 0
    BY <1>1
  <2> QED BY <2>1, <2>2
<1>4. \A i \in 1..Len(ids) : a[ids[i]] \in Seq(Symbols) /\ b[ids[i]] \in Seq(Symbols)
  BY <1>1, <1>3
<1>5. u \in Seq(Seq(Symbols)) /\ v \in Seq(Seq(Symbols)) /\ Len(u) = Len(ids) /\ Len(v) = Len(ids) /\ u # <<>>
  BY <1>3, <1>4
<1>6. Blocks(u) = [i \in DOMAIN ids |-> <<Len(a[ids[i]])>> \o a[ids[i]]]
  BY <1>3, <1>5 DEF Block, Blocks
<1>7. Blocks(v) = [i \in DOMAIN ids |-> <<Len(b[ids[i]])>> \o b[ids[i]]]
  BY <1>3, <1>5 DEF Block, Blocks
<1>8. Nat \subseteq Symbols
  BY DEF Symbols
<1>9. u = v
  <2>1. FlattenSeq(Blocks(u)) = FlattenSeq(Blocks(v))
    BY <1>2, <1>6, <1>7
  <2> HIDE DEF u, v
  <2> QED BY <1>5, <1>8, <2>1, JoinInjective
<1>10. \A i \in 1..Len(ids) : u[i] = v[i]
  BY <1>9
<1> QED BY <1>1, <1>3, <1>10

(* Rows of the same shape with the same ID are rows of one record.         *)
LEMMA SameRecord ==
  ASSUME NEW p, Accepted(p), NEW q, Accepted(q), SelectedFields(p) = SelectedFields(q),
         NEW a, NEW r1 \in Records, NEW s1 \in Nat, Shows(a, p, r1, s1),
         NEW b, NEW r2 \in Records, NEW s2 \in Nat, Shows(b, q, r2, s2),
         RowId(p, a) # Nil, RowId(p, a) = RowId(q, b)
  PROVE  r1 = r2
<1>1. /\ DOMAIN a = SelectedFields(p) /\ \A f \in DOMAIN a : a[f] \in Seq(Symbols)
      /\ "Id" \in DOMAIN a => a["Id"] = <<r1>>
      /\ \A f \in DOMAIN a \intersect {"A", "B"} : a[f] = Text[r1][f]
  BY DEF Shows
<1>2. /\ DOMAIN b = SelectedFields(p) /\ \A f \in DOMAIN b : b[f] \in Seq(Symbols)
      /\ "Id" \in DOMAIN b => b["Id"] = <<r2>>
      /\ \A f \in DOMAIN b \intersect {"A", "B"} : b[f] = Text[r2][f]
  BY DEF Shows
<1>3. CASE "Id" \in DOMAIN a
  <2>1. Lookup(a, "Id") = <<r1>> /\ Lookup(b, "Id") = <<r2>>
    BY <1>1, <1>2, <1>3 DEF Lookup
  <2>2. <<r1>> # Nil /\ <<r2>> # Nil
    BY DEF Nil
  <2>3. RowId(p, a) = <<r1>> /\ RowId(q, b) = <<r2>>
    BY <2>1, <2>2 DEF RowId
  <2>4. <<r1>> = <<r2>>
    BY <2>3
  <2>5. <<r1>>[1] = r1 /\ <<r2>>[1] = r2
    OBVIOUS
  <2> QED BY <2>4, <2>5
<1>4. CASE "Id" \notin DOMAIN a
  <2> DEFINE ids == p.customId
  <2>1. /\ q.customId = ids /\ ids \in Seq(Names)
        /\ ids # <<>> =>
              \A r, s \in Records : r # s =>
                 \E i \in DOMAIN ids : ids[i] \in {"A", "B"} /\ Text[r][ids[i]] # Text[s][ids[i]]
    BY <1>1, <1>4, AcceptedCustomId
  <2>2. Lookup(a, "Id") = Nil /\ Lookup(b, "Id") = Nil
    BY <1>1, <1>2, <1>4 DEF Lookup
  <2>3. RowId(p, a) = BuildCustomId(a, ids) /\ RowId(q, b) = BuildCustomId(b, ids)
    BY <2>1, <2>2 DEF RowId
  <2> HIDE DEF ids
  <2>4. BuildCustomId(a, ids) # Nil /\ BuildCustomId(a, ids) = BuildCustomId(b, ids)
    BY <2>3
  <2>5. ids # <<>> /\ \A i \in DOMAIN ids : ids[i] \in DOMAIN a /\ a[ids[i]] = b[ids[i]]
    BY <1>1, <1>2, <2>1, <2>4, CustomIdNames
  <2>6. SUFFICES ASSUME r1 # r2 PROVE FALSE
    OBVIOUS
  <2>7. PICK i \in DOMAIN ids : ids[i] \in {"A", "B"} /\ Text[r1][ids[i]] # Text[r2][ids[i]]
    BY <2>1, <2>5, <2>6
  <2> DEFINE n == ids[i]
  <2>8. n \in {"A", "B"} /\ n \in DOMAIN a /\ n \in DOMAIN b /\ a[n] = b[n] /\ Text[r1][n] # Text[r2][n]
    BY <1>1, <1>2, <2>5, <2>7
  <2> HIDE DEF n
  <2>9. a[n] = Text[r1][n] /\ b[n] = Text[r2][n]
    BY <1>1, <1>2, <2>8
  <2> QED BY <2>8, <2>9
<1> QED BY <1>3, <1>4

(* Versions that are written alike were modified at the same time.         *)
LEMMA SameStamp ==
  ASSUME NEW p, Accepted(p), p.timestamp = "Stamp", NEW q, Accepted(q), q.timestamp = "Stamp",
         NEW a, NEW r1 \in Records, NEW s1 \in Nat, Shows(a, p, r1, s1),
         NEW b, NEW r2 \in Records, NEW s2 \in Nat, Shows(b, q, r2, s2),
         VersionOf(p, a) = VersionOf(q, b)
  PROVE  s1 = s2
<1>1. DOMAIN a = SelectedFields(p) /\ a["Stamp"] = <<s1>>
  BY DEF Shows
<1>2. DOMAIN b = SelectedFields(q) /\ b["Stamp"] = <<s2>>
  BY DEF Shows
<1>3. "Stamp" \in SelectedFields(p) /\ "Stamp" \in SelectedFields(q)
  BY AcceptedFields
<1>4. Lookup(a, p.timestamp) = <<s1>> /\ Lookup(b, q.timestamp) = <<s2>>
  BY <1>1, <1>2, <1>3 DEF Lookup
<1> DEFINE x == IF p.endTimestamp = Empty THEN <<>> ELSE <<Lookup(a, p.endTimestamp)>>
           y == IF q.endTimestamp = Empty THEN <<>> ELSE <<Lookup(b, q.endTimestamp)>>
<1> DEFINE W == {Lookup(a, p.endTimestamp), Lookup(b, q.endTimestamp), <<s1>>, <<s2>>}
<1>5. x \in Seq(W) /\ y \in Seq(W)
  OBVIOUS
<1>6. VersionOf(p, a) = <<<<s1>>>> \o x /\ VersionOf(q, b) = <<<<s2>>>> \o y
  BY <1>4 DEF VersionOf
<1>7. <<<<s1>>>> \in Seq(W) /\ <<<<s2>>>> \in Seq(W)
  OBVIOUS
<1> DEFINE c == <<<<s1>>>>
           d == <<<<s2>>>>
<1>8. c \in Seq(W) /\ d \in Seq(W) /\ Len(c) = 1 /\ Len(d) = 1 /\ c[1] = <<s1>> /\ d[1] = <<s2>>
  BY <1>7
<1>9. c \o x = d \o y
  BY <1>6
<1> HIDE DEF W, x, y, c, d
<1>10. \A k \in 1..Len(c) : (c \o x)[k] = c[k]
  BY <1>5, <1>8, ConcatParts
<1>11. \A k \in 1..Len(d) : (d \o y)[k] = d[k]
  BY <1>5, <1>8, ConcatParts
<1>12. c[1] = d[1]
  BY <1>8, <1>9, <1>10, <1>11
<1> QED BY <1>8, <1>12

-----------------------------------------------------------------------------
(* The past of the records: h[r][s] is when the version of r modified at s *)
(* ended.                                                                  *)
Histories == [Records -> [1..MaxStamp -> 0..MaxStamp]]

(* The row shows some version of some record up to the times st.           *)
Seen(h, st, q, row) ==
    \E r \in Records : \E s \in 1..st[r] : row = RowAt(q, r, s, h[r][s])

(* Every row in the archive A shows a version that existed, under the ID   *)
(* of one of the queries, and every marker in M stands for such a row.     *)
Known(h, st, qs, A, M) ==
    /\ \A a \in A : \E i \in 1..2 : a.id = CustomEventId(qs[i], a.row) /\ Seen(h, st, qs[i], a.row)
    /\ \A k \in M : /\ k # Nil
                    /\ \E i \in 1..2 : \E a \in A :
                          k = RowDedupKey(qs[i], a.row) /\ Seen(h, st, qs[i], a.row)

Past(h, st, en) == h \in Histories /\ \A r \in Records : h[r][st[r]] = en[r]

ConfigsChecked ==
    /\ up = "loading" => queries \in [1..2 -> QueryConfigs]
    /\ up = "running" => \A i \in 1..2 : Accepted(queries[i])
    /\ up # "running" => archived = {} /\ markers = {} /\ \A i \in 1..2 : ~polled[i]

(* RowsToldApart is not inductive: a version that was archived may be gone *)
(* from the object.  RowInv keeps its past in h, which every update        *)
(* extends, and ties rows, event IDs and markers to it.                    *)
RowInv ==
    /\ RowTypeOK
    /\ ConfigsChecked
    /\ \E h : Past(h, stamp, ended) /\ Known(h, stamp, queries, archived, markers)
    /\ EveryVersionArchived

(* Equal pairs have equal parts.                                           *)
LEMMA PairParts ==
  ASSUME NEW a, NEW b, NEW c, NEW d, <<a, b>> = <<c, d>>
  PROVE  a = c /\ b = d
<1>1. <<a, b>>[1] = a /\ <<a, b>>[2] = b /\ <<c, d>>[1] = c /\ <<c, d>>[2] = d
  OBVIOUS
<1> QED BY <1>1

(* Two rows of the same fields, ID and version are the same row.           *)
LEMMA SameRow ==
  ASSUME NEW p, Accepted(p), p.timestamp = "Stamp", NEW q, Accepted(q), q.timestamp = "Stamp",
         SelectedFields(p) = SelectedFields(q),
         NEW h \in Histories, NEW st \in [Records -> 1..MaxStamp],
         NEW a, Seen(h, st, p, a), NEW b, Seen(h, st, q, b),
         RowId(p, a) # Nil, RowId(p, a) = RowId(q, b), VersionOf(p, a) = VersionOf(q, b)
  PROVE  a = b
<1>r. PICK r1 \in Records : \E s \in 1..st[r1] : a = RowAt(p, r1, s, h[r1][s])
  BY DEF Seen
<1>1. PICK s1 \in 1..st[r1] : a = RowAt(p, r1, s1, h[r1][s1])
  BY <1>r
<1>s. PICK r2 \in Records : \E s \in 1..st[r2] : b = RowAt(q, r2, s, h[r2][s])
  BY DEF Seen
<1>2. PICK s2 \in 1..st[r2] : b = RowAt(q, r2, s2, h[r2][s2])
  BY <1>s
<1>m. MaxStamp \in Nat
  BY RowAssumption
<1>3. s1 \in Nat /\ s1 \in 1..MaxStamp /\ s2 \in Nat /\ s2 \in 1..MaxStamp
  BY <1>m
<1>4. h[r1][s1] \in Nat /\ h[r2][s2] \in Nat
  <2>1. h[r1] \in [1..MaxStamp -> 0..MaxStamp] /\ h[r2] \in [1..MaxStamp -> 0..MaxStamp]
    BY DEF Histories
  <2>2. h[r1][s1] \in 0..MaxStamp /\ h[r2][s2] \in 0..MaxStamp
    BY <1>3, <2>1
  <2> QED BY <1>m, <2>2
<1>5. Shows(a, p, r1, s1) /\ Shows(b, q, r2, s2)
  <2> DEFINE e1 == h[r1][s1]
             e2 == h[r2][s2]
  <2>1. e1 \in Nat /\ e2 \in Nat /\ a = RowAt(p, r1, s1, e1) /\ b = RowAt(q, r2, s2, e2)
    BY <1>1, <1>2, <1>4
  <2> HIDE DEF e1, e2
  <2> QED BY <1>3, <2>1, RowValues
<1>6. r1 = r2
  BY <1>3, <1>5, SameRecord
<1>7. s1 = s2
  BY <1>3, <1>5, SameStamp
<1>8. h[r1][s1] = h[r2][s2]
  BY <1>6, <1>7
<1> QED BY <1>1, <1>2, <1>6, <1>7, <1>8 DEF RowAt

(* A row of the result shows the current version.                          *)
LEMMA RowIsSeen ==
  ASSUME NEW h, RowTypeOK, Past(h, stamp, ended), NEW q, NEW r \in Records
  PROVE  Row(q, r) = RowAt(q, r, stamp[r], h[r][stamp[r]]) /\ Seen(h, stamp, q, Row(q, r))
<1>1. h[r][stamp[r]] = ended[r]
  BY DEF Past
<1>2. Row(q, r) = RowAt(q, r, stamp[r], ended[r])
  BY DEF Row, RowAt, ValueOf, ValueAt
<1>3. stamp[r] \in 1..stamp[r]
  <2>1. stamp[r] \in 1..MaxStamp /\ MaxStamp \in Nat
    BY RowAssumption DEF RowTypeOK
  <2> QED BY <2>1
<1> QED BY <1>1, <1>2, <1>3 DEF Seen

(* The invariant says what is wanted.                                      *)
LEMMA RowInvSuffices == RowInv => RowsToldApart
<1> SUFFICES ASSUME RowInv PROVE EventIdsDistinct
  BY DEF RowInv, RowsToldApart
<1> SUFFICES ASSUME up = "running", Spelled(queries[1]), Spelled(queries[2]),
                    NEW a \in archived, NEW b \in archived,
                    a.id = b.id, a.id # Nil, DOMAIN a.row = DOMAIN b.row
             PROVE  a.row = b.row
  BY DEF EventIdsDistinct
<1>1. PICK h : Past(h, stamp, ended) /\ Known(h, stamp, queries, archived, markers)
  BY DEF RowInv
<1>2. PICK i \in 1..2 : a.id = CustomEventId(queries[i], a.row) /\ Seen(h, stamp, queries[i], a.row)
  BY <1>1 DEF Known
<1>3. PICK j \in 1..2 : b.id = CustomEventId(queries[j], b.row) /\ Seen(h, stamp, queries[j], b.row)
  BY <1>1 DEF Known
<1> DEFINE p == queries[i]
           q == queries[j]
<1>4. Accepted(p) /\ Accepted(q) /\ Spelled(p) /\ Spelled(q)
  BY DEF RowInv, ConfigsChecked
<1>5. stamp \in [Records -> 1..MaxStamp] /\ h \in Histories
  BY <1>1 DEF RowInv, RowTypeOK, Past
<1>6. Seen(h, stamp, p, a.row) /\ Seen(h, stamp, q, b.row) /\ CustomEventId(p, a.row) # Nil
      /\ CustomEventId(p, a.row) = CustomEventId(q, b.row)
  BY <1>2, <1>3
<1> HIDE DEF p, q
<1> DEFINE x == a.row
           y == b.row
<1>7. p.timestamp = "Stamp" /\ q.timestamp = "Stamp"
  BY <1>4, AcceptedFields
<1>8. SelectedFields(p) = SelectedFields(q)
  <2>1. DOMAIN x = SelectedFields(p) /\ DOMAIN y = SelectedFields(q)
    BY <1>6 DEF Seen, RowAt
  <2> QED BY <2>1
<1>9. Seen(h, stamp, p, x) /\ Seen(h, stamp, q, y) /\ CustomEventId(p, x) # Nil
      /\ CustomEventId(p, x) = CustomEventId(q, y)
  BY <1>6
<1> HIDE DEF x, y
<1>10. CustomEventId(p, x) = <<RowId(p, x), VersionOf(p, x)>> /\ RowId(p, x) # Nil
  BY <1>9 DEF CustomEventId
<1>11. CustomEventId(q, y) = <<RowId(q, y), VersionOf(q, y)>>
  BY <1>9 DEF CustomEventId
<1>12. RowId(p, x) = RowId(q, y) /\ VersionOf(p, x) = VersionOf(q, y)
  <2>1. <<RowId(p, x), VersionOf(p, x)>> = <<RowId(q, y), VersionOf(q, y)>>
    BY <1>9, <1>10, <1>11
  <2> DEFINE k == RowId(p, x)
             l == VersionOf(p, x)
             m == RowId(q, y)
             n == VersionOf(q, y)
  <2>2. <<k, l>> = <<m, n>>
    BY <2>1
  <2> HIDE DEF k, l, m, n
  <2>3. k = m /\ l = n
    BY <2>2, PairParts
  <2> QED BY <2>3 DEF k, l, m, n
<1>13. x = y
  BY <1>4, <1>5, <1>7, <1>8, <1>9, <1>10, <1>12, SameRow
<1> QED BY <1>13 DEF x, y

(* Nothing is archived and no record has changed.                          *)
LEMMA RowInit_Inv == RowInit => RowInv
<1> SUFFICES ASSUME RowInit PROVE RowInv
  OBVIOUS
<1>1. MaxStamp \in Nat /\ 1 \in 1..MaxStamp /\ 0 \in 0..MaxStamp /\ QueryConfigs \subseteq QueryConfig
  BY RowAssumption
<1>2. RowTypeOK
  BY <1>1 DEF RowInit, RowTypeOK
<1>3. ConfigsChecked
  BY DEF RowInit, ConfigsChecked
<1> DEFINE h == [r \in Records |-> [s \in 1..MaxStamp |-> 0]]
<1>4. Past(h, stamp, ended)
  BY <1>1 DEF Past, Histories, RowInit
<1>5. Known(h, stamp, queries, archived, markers)
  BY DEF Known, RowInit
<1>6. EveryVersionArchived
  BY DEF RowInit, EveryVersionArchived
<1> QED BY <1>2, <1>3, <1>4, <1>5, <1>6 DEF RowInv

(* IntegrityCheck accepts both queries or nothing runs.                    *)
LEMMA Start_Inv == RowInv /\ Start => RowInv'
<1> SUFFICES ASSUME RowInv, Start PROVE RowInv'
  OBVIOUS
<1>1. queries \in [1..2 -> QueryConfigs] /\ queries \in [1..2 -> QueryConfig]
  BY DEF RowInv, RowTypeOK, ConfigsChecked, Start
<1>2. archived = {} /\ markers = {} /\ archived' = {} /\ markers' = {}
  BY DEF RowInv, ConfigsChecked, Start
<1>3. \A i \in 1..2 : queries'[i] = WithDefaults(queries[i]) /\ queries'[i] \in QueryConfig
  BY <1>1, DefaultsKeep DEF Start
<1>4. queries' \in [1..2 -> QueryConfig]
  BY <1>3 DEF Start
<1>5. RowTypeOK'
  BY <1>4 DEF RowInv, RowTypeOK, Start, recVars
<1>6. up' = "running" => \A i \in 1..2 : Accepted(queries'[i])
  BY <1>1, <1>3 DEF Start, Accepted
<1>7. ConfigsChecked'
  BY <1>2, <1>6 DEF RowInv, ConfigsChecked, Start
<1>8. PICK h : Past(h, stamp, ended)
  BY DEF RowInv
<1>9. Past(h, stamp', ended')
  BY <1>8 DEF Start, recVars
<1>10. Known(h, stamp', queries', archived', markers')
  BY <1>2 DEF Known
<1>11. EveryVersionArchived'
  <2>1. \A i \in 1..2 : ~polled'[i]
    BY DEF Start, RowInv, ConfigsChecked
  <2> QED BY <2>1 DEF EveryVersionArchived
<1> QED BY <1>5, <1>7, <1>9, <1>10, <1>11 DEF RowInv

(* A marker that is gone stands for nothing; the rows stay.                *)
LEMMA MarkerExpires_Inv == RowInv /\ MarkerExpires => RowInv'
<1> SUFFICES ASSUME RowInv, MarkerExpires PROVE RowInv'
  OBVIOUS
<1>1. markers' \subseteq markers /\ UNCHANGED <<queries, up, stamp, ended, archived, polled>>
  BY DEF MarkerExpires, recVars
<1>2. RowTypeOK' /\ ConfigsChecked'
  BY <1>1 DEF RowInv, RowTypeOK, ConfigsChecked
<1>3. PICK h : Past(h, stamp, ended) /\ Known(h, stamp, queries, archived, markers)
  BY DEF RowInv
<1>4. Past(h, stamp', ended') /\ Known(h, stamp', queries', archived', markers')
  BY <1>1, <1>3 DEF Known
<1>5. EveryVersionArchived'
  <2> SUFFICES ASSUME up' = "running", NEW i \in 1..2, Spelled(queries[i])', polled'[i],
                      NEW r \in Found(queries[i])'
               PROVE  \E a \in archived' : a.row = Row(queries[i], r)'
    BY DEF EveryVersionArchived
  <2>1. r \in Found(queries[i])
    BY <1>1 DEF Found, ValueOf
  <2>2. Row(queries[i], r)' = Row(queries[i], r)
    BY <1>1 DEF Row, ValueOf
  <2>3. up = "running" /\ Spelled(queries[i]) /\ polled[i]
    BY <1>1 DEF Spelled
  <2> QED BY <1>1, <2>1, <2>2, <2>3 DEF RowInv, EveryVersionArchived
<1> QED BY <1>2, <1>4, <1>5 DEF RowInv

(* A record changes: its version is added to the past.                     *)
LEMMA Update_Inv == ASSUME NEW r \in Records, RowInv, Update(r) PROVE RowInv'
<1>1. UNCHANGED <<queries, up, markers, archived>> /\ \A i \in 1..2 : ~polled'[i]
  BY DEF Update
<1>t. stamp \in [Records -> 1..MaxStamp] /\ ended \in [Records -> 0..MaxStamp] /\ MaxStamp \in Nat
  BY RowAssumption DEF RowInv, RowTypeOK
<1>2. /\ stamp' \in [Records -> 1..MaxStamp]
      /\ stamp'[r] = stamp[r] + 1
      /\ \A x \in Records \ {r} : stamp'[x] = stamp[x]
  BY <1>t DEF Update
<1>3. /\ ended' \in [Records -> 0..MaxStamp]
      /\ \A x \in Records \ {r} : ended'[x] = ended[x]
  <2>1. CASE ended' = [ended EXCEPT ![r] = stamp'[r]]
    BY <1>t, <1>2, <2>1
  <2>2. CASE ended' = ended
    BY <1>t, <2>2
  <2> QED BY <2>1, <2>2 DEF Update
<1>4. RowTypeOK' /\ ConfigsChecked'
  BY <1>1, <1>2, <1>3 DEF RowInv, RowTypeOK, ConfigsChecked, Update
<1>5. PICK h : Past(h, stamp, ended) /\ Known(h, stamp, queries, archived, markers)
  BY DEF RowInv
<1> DEFINE g == [x \in Records |-> [s \in 1..MaxStamp |->
                    IF x = r /\ s = stamp[r] + 1 THEN ended'[r] ELSE h[x][s]]]
<1>6. g \in Histories
  <2>1. \A x \in Records : \A s \in 1..MaxStamp : h[x][s] \in 0..MaxStamp
    BY <1>5 DEF Past, Histories
  <2> QED BY <1>3, <2>1 DEF Histories
<1>7. Past(g, stamp', ended')
  <2>1. ASSUME NEW x \in Records PROVE g[x][stamp'[x]] = ended'[x]
    <3>1. CASE x = r
      BY <1>2, <3>1
    <3>2. CASE x # r
      BY <1>2, <1>3, <1>5, <3>2 DEF Past
    <3> QED BY <3>1, <3>2
  <2> QED BY <1>6, <2>1 DEF Past
<1>8. ASSUME NEW x \in Records, NEW s \in 1..stamp[x]
      PROVE  s \in 1..stamp'[x] /\ g[x][s] = h[x][s]
  <2>1. stamp[x] \in 1..MaxStamp
    BY <1>t
  <2>2. s \in 1..MaxStamp /\ ~(x = r /\ s = stamp[r] + 1)
    BY <1>t, <2>1
  <2>3. g[x][s] = h[x][s]
    BY <2>2
  <2>4. s \in 1..stamp'[x]
    BY <1>2, <2>1
  <2> QED BY <2>3, <2>4
<1> HIDE DEF g
<1>9. ASSUME NEW q, NEW row, Seen(h, stamp, q, row) PROVE Seen(g, stamp', q, row)
  <2>1. PICK x \in Records : \E s \in 1..stamp[x] : row = RowAt(q, x, s, h[x][s])
    BY <1>9 DEF Seen
  <2>2. PICK s \in 1..stamp[x] : row = RowAt(q, x, s, h[x][s])
    BY <2>1
  <2>3. s \in 1..stamp'[x] /\ g[x][s] = h[x][s]
    BY <1>8
  <2> QED BY <2>2, <2>3 DEF Seen
<1>10. Known(g, stamp', queries', archived', markers')
  BY <1>1, <1>5, <1>9 DEF Known
<1>11. EveryVersionArchived'
  BY <1>1 DEF EveryVersionArchived
<1> QED BY <1>4, <1>7, <1>10, <1>11 DEF RowInv

(* A marker of query i hides nothing but the row it stands for.            *)
LEMMA MarkedIsArchived ==
  ASSUME RowInv, up = "running", NEW i \in 1..2, Spelled(queries[i]),
         NEW r \in Records, RowDedupKey(queries[i], Row(queries[i], r)) \in markers
  PROVE  \E a \in archived : a.row = Row(queries[i], r)
<1> DEFINE q == queries[i]
           x == Row(q, r)
<1>1. PICK h : Past(h, stamp, ended) /\ Known(h, stamp, queries, archived, markers)
  BY DEF RowInv
<1>2. PICK j \in 1..2 : \E a \in archived :
         RowDedupKey(q, x) = RowDedupKey(queries[j], a.row) /\ Seen(h, stamp, queries[j], a.row)
  BY <1>1 DEF Known
<1>3. PICK a \in archived :
         RowDedupKey(q, x) = RowDedupKey(queries[j], a.row) /\ Seen(h, stamp, queries[j], a.row)
  BY <1>2
<1> DEFINE p == queries[j]
           y == a.row
<1>4. RowDedupKey(q, x) # Nil
  BY <1>1 DEF Known
<1>5. Accepted(p) /\ Accepted(q) /\ Spelled(q)
  BY DEF RowInv, ConfigsChecked
<1>6. Seen(h, stamp, q, x)
  BY <1>1, RowIsSeen DEF RowInv
<1>7. Seen(h, stamp, p, y) /\ RowDedupKey(p, y) = RowDedupKey(q, x)
  BY <1>3
<1>8. stamp \in [Records -> 1..MaxStamp] /\ h \in Histories
  BY <1>1 DEF RowInv, RowTypeOK, Past
<1> HIDE DEF p, q, x, y
<1>9. RowDedupKey(q, x) = <<QueryHash(q), RowId(q, x), VersionOf(q, x)>> /\ RowId(q, x) # Nil
  BY <1>4 DEF RowDedupKey
<1>10. RowDedupKey(p, y) = <<QueryHash(p), RowId(p, y), VersionOf(p, y)>>
  BY <1>4, <1>7 DEF RowDedupKey
<1>11. QueryHash(p) = QueryHash(q) /\ RowId(p, y) = RowId(q, x) /\ VersionOf(p, y) = VersionOf(q, x)
  <2> DEFINE k == RowDedupKey(q, x)
             k1 == QueryHash(q)
             k2 == RowId(q, x)
             k3 == VersionOf(q, x)
             l1 == QueryHash(p)
             l2 == RowId(p, y)
             l3 == VersionOf(p, y)
  <2>1. k = <<k1, k2, k3>> /\ k = <<l1, l2, l3>>
    BY <1>7, <1>9, <1>10
  <2> HIDE DEF k, k1, k2, k3, l1, l2, l3
  <2>2. k[1] = k1 /\ k[2] = k2 /\ k[3] = k3 /\ k[1] = l1 /\ k[2] = l2 /\ k[3] = l3
    BY <2>1
  <2> QED BY <2>2 DEF k1, k2, k3, l1, l2, l3
<1>12. SelectedFields(p) = SelectedFields(q) /\ p.timestamp = q.timestamp
  <2> DEFINE k == QueryHash(q)
  <2>1. /\ k = <<SelectedFields(q), q.where, q.timestamp, q.endTimestamp, q.apiName>>
        /\ k = <<SelectedFields(p), p.where, p.timestamp, p.endTimestamp, p.apiName>>
    BY <1>11 DEF QueryHash
  <2> HIDE DEF k
  <2>2. k[1] = SelectedFields(q) /\ k[3] = q.timestamp /\ k[1] = SelectedFields(p) /\ k[3] = p.timestamp
    BY <2>1
  <2> QED BY <2>2
<1>13. q.timestamp = "Stamp" /\ p.timestamp = "Stamp"
  BY <1>5, <1>12, AcceptedFields
<1>14. x = y
  BY <1>5, <1>6, <1>7, <1>8, <1>9, <1>11, <1>12, <1>13, SameRow
<1>15. y = Row(queries[i], r)
  BY <1>14 DEF x, q
<1> QED BY <1>15 DEF y

(* A poll: a row is new, or its marker stands for the same row.            *)
LEMMA Collect_Inv == ASSUME NEW i \in 1..2, RowInv, Collect(i) PROVE RowInv'
<1> DEFINE q    == queries[i]
           rows == {Row(q, r) : r \in Found(q)}
           new  == {row \in rows : RowDedupKey(q, row) \notin markers}
           keys == {RowDedupKey(q, row) : row \in new} \ {Nil}
<1>1. /\ up = "running" /\ UNCHANGED <<queries, up, stamp, ended>>
      /\ archived' = archived \union {BuildCustomRecord(q, row) : row \in new}
      /\ markers' \subseteq markers \union keys
      /\ \/ polled' = [polled EXCEPT ![i] = TRUE]
         \/ polled' = polled
  BY DEF Collect, recVars
<1>2. RowTypeOK'
  BY <1>1 DEF RowInv, RowTypeOK
<1>3. ConfigsChecked'
  BY <1>1 DEF RowInv, ConfigsChecked
<1>4. PICK h : Past(h, stamp, ended) /\ Known(h, stamp, queries, archived, markers)
  BY DEF RowInv
<1>5. \A row \in rows : Seen(h, stamp, q, row)
  <2>1. Found(q) \subseteq Records
    BY DEF Found
  <2> QED BY <1>4, <2>1, RowIsSeen DEF RowInv
<1>6. \A row \in new : /\ BuildCustomRecord(q, row).row = row
                       /\ BuildCustomRecord(q, row).id = CustomEventId(q, row)
                       /\ BuildCustomRecord(q, row) \in archived'
  BY <1>1 DEF BuildCustomRecord
<1>7. ASSUME NEW a \in archived'
      PROVE  \E j \in 1..2 : a.id = CustomEventId(queries[j], a.row) /\ Seen(h, stamp, queries[j], a.row)
  <2>1. CASE a \in archived
    BY <1>4, <2>1 DEF Known
  <2>2. CASE a \notin archived
    <3>1. PICK row \in new : a = BuildCustomRecord(q, row)
      BY <1>1, <2>2
    <3>2. a.row = row /\ a.id = CustomEventId(q, a.row) /\ Seen(h, stamp, q, a.row)
      BY <1>5, <1>6, <3>1
    <3> QED BY <3>2
  <2> QED BY <2>1, <2>2
<1>8. ASSUME NEW k \in markers'
      PROVE  k # Nil /\ \E j \in 1..2 : \E a \in archived' :
                k = RowDedupKey(queries[j], a.row) /\ Seen(h, stamp, queries[j], a.row)
  <2>1. CASE k \in markers
    BY <1>1, <1>4, <2>1 DEF Known
  <2>2. CASE k \notin markers
    <3>1. k # Nil /\ \E row \in new : k = RowDedupKey(q, row)
      BY <1>1, <2>2
    <3>2. PICK row \in new : k = RowDedupKey(q, row)
      BY <3>1
    <3> DEFINE a == BuildCustomRecord(q, row)
    <3>3. a \in archived' /\ a.row = row
      BY <1>6
    <3>4. Seen(h, stamp, q, row)
      BY <1>5
    <3> HIDE DEF a
    <3>5. k = RowDedupKey(queries[i], a.row) /\ Seen(h, stamp, queries[i], a.row)
      BY <3>2, <3>3, <3>4
    <3> QED BY <3>1, <3>3, <3>5
  <2> QED BY <2>1, <2>2
<1>9. Past(h, stamp', ended') /\ Known(h, stamp', queries', archived', markers')
  BY <1>1, <1>4, <1>7, <1>8 DEF Known
<1>10. EveryVersionArchived'
  <2> SUFFICES ASSUME NEW j \in 1..2, Spelled(queries[j])', polled'[j],
                      NEW r \in Found(queries[j])'
               PROVE  \E a \in archived' : a.row = Row(queries[j], r)'
    BY DEF EveryVersionArchived
  <2>1. r \in Found(queries[j]) /\ r \in Records
    BY <1>1 DEF Found, ValueOf
  <2>2. Row(queries[j], r)' = Row(queries[j], r)
    BY <1>1 DEF Row, ValueOf
  <2>3. Spelled(queries[j])
    BY <1>1 DEF Spelled
  <2>4. SUFFICES \E a \in archived' : a.row = Row(queries[j], r)
    BY <2>2
  <2>5. CASE polled[j]
    BY <1>1, <2>1, <2>3, <2>5 DEF RowInv, EveryVersionArchived
  <2>6. CASE ~polled[j]
    <3>1. j = i
      BY <1>1, <2>6 DEF RowInv, RowTypeOK
    <3> DEFINE row == Row(queries[i], r)
    <3>2. row \in rows
      BY <2>1, <3>1
    <3>3. CASE RowDedupKey(q, row) \in markers
      BY <1>1, <2>1, <2>3, <3>1, <3>3, MarkedIsArchived
    <3>4. CASE RowDedupKey(q, row) \notin markers
      <4>1. row \in new
        BY <3>2, <3>4
      <4> QED BY <1>6, <3>1, <4>1
    <3> QED BY <3>3, <3>4
  <2> QED BY <2>5, <2>6
<1> QED BY <1>2, <1>3, <1>9, <1>10 DEF RowInv

(* A step in which nothing happens.                                        *)
LEMMA RowStutter == RowInv /\ UNCHANGED rowVars => RowInv'
<1> SUFFICES ASSUME RowInv, UNCHANGED rowVars PROVE RowInv'
  OBVIOUS
<1>1. UNCHANGED <<queries, up, stamp, ended, markers, archived, polled>>
  BY DEF rowVars, recVars
<1>2. RowTypeOK' /\ ConfigsChecked'
  BY <1>1 DEF RowInv, RowTypeOK, ConfigsChecked
<1>3. PICK h : Past(h, stamp, ended) /\ Known(h, stamp, queries, archived, markers)
  BY DEF RowInv
<1>4. Past(h, stamp', ended') /\ Known(h, stamp', queries', archived', markers')
  BY <1>1, <1>3
<1>5. EveryVersionArchived'
  <2> SUFFICES ASSUME up' = "running", NEW i \in 1..2, Spelled(queries[i])', polled'[i],
                      NEW r \in Found(queries[i])'
               PROVE  \E a \in archived' : a.row = Row(queries[i], r)'
    BY DEF EveryVersionArchived
  <2>1. r \in Found(queries[i])
    BY <1>1 DEF Found, ValueOf
  <2>2. Row(queries[i], r)' = Row(queries[i], r)
    BY <1>1 DEF Row, ValueOf
  <2>3. up = "running" /\ Spelled(queries[i]) /\ polled[i]
    BY <1>1 DEF Spelled
  <2> QED BY <1>1, <2>1, <2>2, <2>3 DEF RowInv, EveryVersionArchived
<1> QED BY <1>2, <1>4, <1>5 DEF RowInv

(* Neither markers nor event IDs confuse two rows, two versions of a row   *)
(* or two queries (rowDedupKey, queryHash, customEventId), for every set   *)
(* of records and configurations that fit the object.                      *)
THEOREM RowsAreToldApart == RowSpec => []RowsToldApart
<1>1. RowInit => RowInv
  BY RowInit_Inv
<1>2. RowInv /\ [RowNext]_rowVars => RowInv'
  BY Start_Inv, MarkerExpires_Inv, Update_Inv, Collect_Inv, RowStutter DEF RowNext
<1>3. RowInv => RowsToldApart
  BY RowInvSuffices
<1> QED BY <1>1, <1>2, <1>3, PTL DEF RowSpec

=============================================================================
