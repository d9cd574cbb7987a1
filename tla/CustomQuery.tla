---------------------------- MODULE CustomQuery ----------------------------
(***************************************************************************)
(* The event log collector's custom SOQL queries: collectCustomQuery of    *)
(* internal/integration/eventlog/collector.go for one query.               *)
(*                                                                         *)
(* A row version is a record and the timestamp it is selected on; a record *)
(* that changes gets a new version and the old one can no longer be        *)
(* queried.  Objects have random names, so what is written twice is stored *)
(* twice; markers keyed on the version keep overlapping windows apart.     *)
(*                                                                         *)
(* What is simplified: a query with all its pages is one step; a change    *)
(* carries the timestamp of its transaction and becomes visible when that  *)
(* commits, at most MaxDelay later; everything that can go wrong costs one *)
(* unit of `faults`.                                                       *)
(***************************************************************************)
EXTENDS Watermark, FiniteSets

CONSTANTS Rows,        \* records of the queried object
          Keyed,       \* the records with an Id or custom ID (rowDedupKey is not "")
          MaxDelay,    \* longest transaction
          Pollers,     \* processes that may poll at the same time
          PerObject,   \* recordsPerObject
          MaxChanges,  \* bound: transactions on the records
          MaxFaults,   \* bound: failures and crashes
          MaxCopies    \* bound: copies of a version are counted up to here

ASSUME QueryAssumption ==
    /\ Keyed \subseteq Rows
    /\ MaxDelay \in Nat /\ MaxDelay <= Overlap
    /\ IsFiniteSet(Pollers)
    /\ PerObject \in Nat \ {0}
    /\ MaxChanges \in Nat
    /\ MaxFaults \in Nat
    /\ MaxCopies \in Nat \ {0}

VARIABLES changes,   \* transactions so far
          changing,  \* changing[r]: timestamp of the open transaction on r, or NotYet
          current,   \* current[r]: timestamp of the version of r that queries return
          copies,    \* copies[v]: stored records of version v
          marked,    \* versions with a de-duplication marker
          poll,      \* poll[p]: the poll process p is in
          faults

saasVars == <<now, changes, changing, current>>
vars == <<saasVars, watermarkVars, copies, marked, poll, faults>>

NotYet   == -1
Versions == Rows \X (0..MaxClock)

PollState ==
    [pc      : {"idle", "query", "scan", "write", "mark", "end"},
     since   : Int,
     until   : Int,
     base    : Int,              \* history: Base when the poll began
     todo    : SUBSET Versions,  \* rows of the result still to go through
     pending : SUBSET Versions]  \* rows of the next object

Idle == [pc |-> "idle", since |-> 0, until |-> 0, base |-> 0, todo |-> {}, pending |-> {}]

Become(p, q) == poll' = [poll EXCEPT ![p] = q]

Fault   == faults > 0 /\ faults' = faults - 1
NoFault == UNCHANGED faults

Init ==
    /\ now = 0
    /\ watermark = NoWatermark
    /\ floor = 0
    /\ changes = 0
    /\ changing = [r \in Rows |-> NotYet]
    /\ current = [r \in Rows |-> NotYet]
    /\ copies = [v \in Versions |-> 0]
    /\ marked = {}
    /\ poll = [p \in Pollers |-> Idle]
    /\ faults = MaxFaults

-----------------------------------------------------------------------------
(* Salesforce.                                                             *)

Tick ==
    /\ now < MaxClock
    /\ \A r \in Rows : changing[r] # NotYet => now < changing[r] + MaxDelay
    /\ now' = now + 1
    /\ UNCHANGED <<changes, changing, current, watermarkVars, copies, marked, poll, faults>>

(* A transaction on r begins; nothing changes in the last second.          *)
Change(r) ==
    /\ changing[r] = NotYet
    /\ current[r] < now
    /\ now <= MaxClock - Second
    /\ changes < MaxChanges
    /\ changes' = changes + 1
    /\ changing' = [changing EXCEPT ![r] = now]
    /\ UNCHANGED <<now, current, watermarkVars, copies, marked, poll, faults>>

Commit(r) ==
    /\ changing[r] # NotYet
    /\ current' = [current EXCEPT ![r] = changing[r]]
    /\ changing' = [changing EXCEPT ![r] = NotYet]
    /\ UNCHANGED <<now, changes, watermarkVars, copies, marked, poll, faults>>

-----------------------------------------------------------------------------
(* The poll.                                                               *)

BeginPoll(p) ==
    /\ poll[p].pc = "idle"
    /\ Become(p, [Idle EXCEPT !.pc = "query", !.since = Since, !.until = Truncate(now),
                              !.base = Base])
    /\ UNCHANGED <<saasVars, watermarkVars, copies, marked, faults>>

(* Mutant: records that have no timestamp yet are returned too.            *)
QueryNulls(p) ==
    LET rows == {r \in Rows : current[r] = NotYet \/ current[r] \in poll[p].since..poll[p].until}
    IN  /\ poll[p].pc = "query"
        /\ Become(p, [poll[p] EXCEPT !.pc = "scan", !.todo = {<<r, current[r]>> : r \in rows}])
        /\ UNCHANGED <<saasVars, watermarkVars, copies, marked, faults>>

(* RequestCustomQuery: the timestamp lies in [since, until].               *)
Query(p) ==
    LET rows == {r \in Rows : current[r] \in poll[p].since..poll[p].until /\ current[r] # NotYet}
    IN  /\ poll[p].pc = "query"
        /\ Become(p, [poll[p] EXCEPT !.pc = "scan", !.todo = {<<r, current[r]>> : r \in rows}])
        /\ UNCHANGED <<saasVars, watermarkVars, copies, marked, faults>>

SkipRow(p) ==
    /\ poll[p].pc = "scan"
    /\ \E v \in poll[p].todo \cap marked :
          /\ v[1] \in Keyed
          /\ Become(p, [poll[p] EXCEPT !.todo = @ \ {v}])
    /\ UNCHANGED <<saasVars, watermarkVars, copies, marked, faults>>

(* Mutant: the marker of a row is not looked up.                           *)
TakeRowAgain(p) ==
    /\ poll[p].pc = "scan"
    /\ \E v \in poll[p].todo :
          LET pending == poll[p].pending \cup {v}
          IN  Become(p, [poll[p] EXCEPT !.todo = @ \ {v}, !.pending = pending,
                              !.pc = IF Cardinality(pending) >= PerObject THEN "write" ELSE "scan"])
    /\ UNCHANGED <<saasVars, watermarkVars, copies, marked, faults>>

(* A row that is new, has no key, or whose marker cannot be read.          *)
TakeRow(p) ==
    /\ poll[p].pc = "scan"
    /\ \E v \in poll[p].todo :
          /\ \/ (v[1] \in Keyed => v \notin marked) /\ NoFault
             \/ Fault
          /\ LET pending == poll[p].pending \cup {v}
             IN  Become(p, [poll[p] EXCEPT !.todo = @ \ {v}, !.pending = pending,
                              !.pc = IF Cardinality(pending) >= PerObject THEN "write" ELSE "scan"])
    /\ UNCHANGED <<saasVars, watermarkVars, copies, marked>>

(* The result is consumed: the last object is written, if any row is left. *)
LastRow(p) ==
    /\ poll[p].pc = "scan"
    /\ poll[p].todo = {}
    /\ Become(p, [poll[p] EXCEPT !.pc = IF poll[p].pending = {} THEN "end" ELSE "write"])
    /\ UNCHANGED <<saasVars, watermarkVars, copies, marked, faults>>

(* A row without a key is stored again and again: once is counted.         *)
Counted(v) == IF v[1] \in Keyed THEN MaxCopies ELSE 1

Stored(S) ==
    [v \in Versions |-> IF v \in S /\ copies[v] < Counted(v) THEN copies[v] + 1 ELSE copies[v]]

Write(p) ==
    /\ poll[p].pc = "write"
    /\ copies' = Stored(poll[p].pending)
    /\ Become(p, [poll[p] EXCEPT !.pc = "mark"])
    /\ UNCHANGED <<saasVars, watermarkVars, marked, faults>>

(* Mutant: the rows are marked although their object was not written.       *)
WriteFailsMarked(p) ==
    /\ poll[p].pc = "write"
    /\ Fault
    /\ marked' = marked \cup poll[p].pending
    /\ Become(p, Idle)
    /\ UNCHANGED <<saasVars, watermarkVars, copies>>

(* The upload fails, with the object stored or not: the poll ends.         *)
WriteFails(p) ==
    /\ poll[p].pc = "write"
    /\ Fault
    /\ copies' \in {copies, Stored(poll[p].pending)}
    /\ Become(p, Idle)
    /\ UNCHANGED <<saasVars, watermarkVars, marked>>

(* The rows just stored are marked; a failed marker is ignored.            *)
Mark(p) ==
    /\ poll[p].pc = "mark"
    /\ \E done \in SUBSET poll[p].pending :
          /\ \/ done = poll[p].pending /\ NoFault
             \/ Fault
          /\ marked' = marked \cup {v \in done : v[1] \in Keyed}
    /\ Become(p, [poll[p] EXCEPT !.pc = "scan", !.pending = {}])
    /\ UNCHANGED <<saasVars, watermarkVars, copies>>

StoreWatermark(p) ==
    /\ poll[p].pc = "end"
    /\ \/ SetWatermark(poll[p].until, poll[p].base, TRUE) /\ NoFault
       \/ Fault /\ SetWatermark(poll[p].until, poll[p].base, FALSE)
    /\ Become(p, Idle)
    /\ UNCHANGED <<saasVars, copies, marked>>

(* The query fails or the process dies.                                    *)
Abort(p) ==
    /\ poll[p].pc # "idle"
    /\ Fault
    /\ Become(p, Idle)
    /\ UNCHANGED <<saasVars, watermarkVars, copies, marked>>

(* A marker expires (expireDays).                                          *)
Forget ==
    /\ Fault
    /\ \E v \in marked : marked' = marked \ {v}
    /\ UNCHANGED <<saasVars, watermarkVars, copies, poll>>

-----------------------------------------------------------------------------
Salesforce == Tick \/ \E r \in Rows : Change(r) \/ Commit(r)

PollStep(p) ==
    \/ BeginPoll(p) \/ Query(p) \/ SkipRow(p) \/ TakeRow(p) \/ LastRow(p)
    \/ Write(p) \/ Mark(p) \/ StoreWatermark(p)

Next ==
    \/ Salesforce
    \/ \E p \in Pollers : PollStep(p) \/ WriteFails(p) \/ Abort(p)
    \/ Forget

Spec == Init /\ [][Next]_vars

-----------------------------------------------------------------------------
(* Properties.                                                             *)

TypeOK ==
    /\ now \in Nat /\ changes \in Nat
    /\ watermark \in Nat \cup {NoWatermark} /\ floor \in Int
    /\ changing \in [Rows -> Nat \cup {NotYet}]
    /\ current \in [Rows -> Nat \cup {NotYet}]
    /\ copies \in [Versions -> Nat]
    /\ marked \subseteq Versions
    /\ poll \in [Pollers -> PollState]
    /\ faults \in Nat

(* A record that queries still return and that the next poll will not read  *)
(* again is stored, in the version it has now: the watermark, which jumps   *)
(* to the poll's own time, leaves nothing behind.                           *)
NoRowSkipped ==
    watermark # NoWatermark =>
       \A r \in Rows :
          current[r] # NotYet /\ floor <= current[r] /\ current[r] < Since
             => copies[<<r, current[r]>>] > 0

(* Overlapping windows do not duplicate rows: a poller stores a version     *)
(* once, and each failure costs at most one more copy per poller.           *)
FewCopies ==
    \A v \in Versions : v[1] \in Keyed =>
        copies[v] <= Cardinality(Pollers) * (1 + MaxFaults - faults)

(* The rows a poll carries are versions that exist, and few are stored     *)
(* twice (collectCustomQuery).                                             *)
CopiesBounded == TypeOK /\ FewCopies

=============================================================================
