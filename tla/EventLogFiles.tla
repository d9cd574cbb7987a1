--------------------------- MODULE EventLogFiles ---------------------------
(***************************************************************************)
(* The event log collector's EventLogFile loop: collectLogFiles of         *)
(* internal/integration/eventlog/collector.go, with the quarantine and the *)
(* tombstones of quarantine.go.  Pollers share the cache and the archive.  *)
(*                                                                         *)
(* What is simplified:                                                     *)
(*  - a file is its Id (a number, for ORDER BY CreatedDate, Id) and what   *)
(*    Salesforce serves for it (FileKind); rows are not modelled;          *)
(*  - a query with all its pages is one step, and so are the download and  *)
(*    the upload of one file: nothing shared changes between them;         *)
(*  - an object is stored when its manifest is; an upload that fails half  *)
(*    way may have stored it or not;                                       *)
(*  - Salesforce shows a file in query results at most MaxDelay after its  *)
(*    CreatedDate, which the overlap is there to cover;                    *)
(*  - everything that can go wrong costs one unit of `faults`.             *)
(***************************************************************************)
EXTENDS Watermark, FiniteSets

CONSTANTS Files,                \* EventLogFile Ids
          FileKind,             \* FileKind[f]: "good", "malformed" or "gone"
          MaxDelay,             \* latest appearance of a file after its CreatedDate
          Pollers,              \* processes that may poll at the same time
          MalformedAttempts,    \* malformedFileAttempts
          UnavailableAttempts,  \* unavailableFileAttempts
          MaxFaults             \* bound: failures and crashes

ASSUME EventLogAssumption ==
    /\ Files \subseteq Nat
    /\ FileKind \in [Files -> {"good", "malformed", "gone"}]
    /\ MaxDelay \in Nat /\ MaxDelay <= Overlap
    /\ MalformedAttempts \in Nat \ {0}
    /\ UnavailableAttempts \in Nat \ {0}
    /\ MaxFaults \in Nat

VARIABLES created,     \* created[f]: CreatedDate, NotYet before Salesforce makes the file
          visible,     \* files that query results contain
          archived,    \* files with a complete elf-<Id> object
          quarantined, \* files with an elf-<Id>-quarantine object
          tombstoned,  \* files with an elf-<Id>-unavailable object
          processed,   \* files with a processed marker in the cache
          badCount,    \* badCount[f]: the counter key of handleMalformed or
                       \* handleDownloadFailure (0: absent)
          failures,    \* history: polls that found f malformed or gone
          listed,      \* history: files that some poll has been given
          poll,        \* poll[p]: the poll process p is in
          faults

saasVars    == <<now, created, visible>>
archiveVars == <<archived, quarantined, tombstoned>>
cacheVars   == <<processed, badCount>>
history     == <<failures, listed>>
vars == <<saasVars, watermarkVars, archiveVars, cacheVars, history, poll, faults>>

NotYet == -1

(* What became of a file: its rows, its raw lines or a tombstone are kept.  *)
Accounted == archived \cup quarantined \cup tombstoned

(* handleMalformed and handleDownloadFailure count their own key.           *)
Attempts(f) == IF FileKind[f] = "gone" THEN UnavailableAttempts ELSE MalformedAttempts

PollState ==
    [pc       : {"idle", "list", "next", "archive", "failing", "mark", "end"},
     since    : Int,
     until    : Int,
     base     : Int,                       \* history: Base when the poll began
     new      : Nat \cup {NoWatermark},    \* newWatermark
     todo     : SUBSET Files,              \* records still to go through
     attempts : Nat]                       \* attempts in handleMalformed etc.

Idle == [pc |-> "idle", since |-> 0, until |-> 0, base |-> 0,
         new |-> NoWatermark, todo |-> {}, attempts |-> 0]

Become(p, q) == poll' = [poll EXCEPT ![p] = q]

Fault   == faults > 0 /\ faults' = faults - 1
NoFault == UNCHANGED faults

Init ==
    /\ now = 0
    /\ watermark = NoWatermark
    /\ floor = 0
    /\ created = [f \in Files |-> NotYet]
    /\ visible = {}
    /\ archived = {} /\ quarantined = {} /\ tombstoned = {}
    /\ processed = {}
    /\ badCount = [f \in Files |-> 0]
    /\ failures = [f \in Files |-> 0]
    /\ listed = {}
    /\ poll = [p \in Pollers |-> Idle]
    /\ faults = MaxFaults

-----------------------------------------------------------------------------
(* Salesforce.                                                             *)

Tick ==
    /\ now < MaxClock
    /\ \A f \in Files : created[f] # NotYet /\ f \notin visible => now < created[f] + MaxDelay
    /\ now' = now + 1
    /\ UNCHANGED <<created, visible, watermarkVars, archiveVars, cacheVars, history, poll, faults>>

(* Nothing is created in the last second, so that every file can be listed. *)
CreateFile(f) ==
    /\ created[f] = NotYet
    /\ now <= MaxClock - Second
    /\ created' = [created EXCEPT ![f] = now]
    /\ UNCHANGED <<now, visible, watermarkVars, archiveVars, cacheVars, history, poll, faults>>

ShowFile(f) ==
    /\ created[f] # NotYet
    /\ f \notin visible
    /\ visible' = visible \cup {f}
    /\ UNCHANGED <<now, created, watermarkVars, archiveVars, cacheVars, history, poll, faults>>

-----------------------------------------------------------------------------
(* The poll.                                                               *)

(* The watermark is read; when that fails the poll ends at once.           *)
BeginPoll(p) ==
    /\ poll[p].pc = "idle"
    /\ Become(p, [Idle EXCEPT !.pc = "list", !.since = Since, !.until = Truncate(now),
                              !.base = Base, !.new = watermark])
    /\ UNCHANGED <<saasVars, watermarkVars, archiveVars, cacheVars, history, faults>>

(* RequestLogFiles: created in [since, until].                             *)
InWindow(p, f) == created[f] >= poll[p].since /\ created[f] <= poll[p].until

List(p) ==
    LET records == {f \in visible : InWindow(p, f)}
    IN  /\ poll[p].pc = "list"
        /\ Become(p, [poll[p] EXCEPT !.pc = "next", !.todo = records])
        /\ listed' = listed \cup records
        /\ UNCHANGED <<saasVars, watermarkVars, archiveVars, cacheVars, failures, faults>>

(* Records come ordered by CreatedDate, then Id.                           *)
Before(f, g) == created[f] < created[g] \/ (created[f] = created[g] /\ f <= g)
IsCurrent(p, f) == f \in poll[p].todo /\ \A g \in poll[p].todo : Before(f, g)

(* The end of the loop body: the watermark to be stored moves to f.        *)
PassedBy(p, f) ==
    [poll[p] EXCEPT !.pc = "next", !.todo = @ \ {f}, !.attempts = 0,
                    !.new = IF created[f] > @ THEN created[f] ELSE @]

SkipProcessed(p) ==
    /\ poll[p].pc = "next"
    /\ \E f \in processed : IsCurrent(p, f) /\ Become(p, PassedBy(p, f))
    /\ UNCHANGED <<saasVars, watermarkVars, archiveVars, cacheVars, history, faults>>

(* Not processed yet, or the marker could not be read.                     *)
TakeFile(p) ==
    /\ poll[p].pc = "next"
    /\ \E f \in poll[p].todo :
          /\ IsCurrent(p, f)
          /\ \/ f \notin processed /\ NoFault
             \/ Fault
    /\ Become(p, [poll[p] EXCEPT !.pc = "archive"])
    /\ UNCHANGED <<saasVars, watermarkVars, archiveVars, cacheVars, history>>

(* Mutant: the loop goes on behind a file that failed.                      *)
ContinuePoll(p) ==
    \E f \in poll[p].todo : IsCurrent(p, f) /\ Become(p, PassedBy(p, f))

(* The poll stops at this file.                                            *)
StopPoll(p) == Become(p, [poll[p] EXCEPT !.pc = "end", !.todo = {}, !.attempts = 0])

Archive(p) ==
    /\ poll[p].pc = "archive"
    /\ \E f \in poll[p].todo :
          /\ IsCurrent(p, f)
          /\ FileKind[f] = "good"
          /\ archived' = archived \cup {f}
    /\ Become(p, [poll[p] EXCEPT !.pc = "mark"])
    /\ UNCHANGED <<saasVars, watermarkVars, quarantined, tombstoned, cacheVars, history, faults>>

(* A download fails in a way that may pass, or the upload fails.           *)
ArchiveFails(p) ==
    /\ poll[p].pc = "archive"
    /\ Fault
    /\ \E f \in poll[p].todo :
          /\ IsCurrent(p, f)
          /\ \/ UNCHANGED archived
             \/ FileKind[f] = "good" /\ archived' = archived \cup {f}
    /\ StopPoll(p)
    /\ UNCHANGED <<saasVars, watermarkVars, quarantined, tombstoned, cacheVars, history>>

(* The counter of failed polls is read; an error there counts as absent.   *)
Failing(p, f, n) ==
    /\ Become(p, [poll[p] EXCEPT !.pc = "failing", !.attempts = n + 1])
    /\ failures' = [failures EXCEPT ![f] = IF @ < Attempts(f) THEN @ + 1 ELSE @]

(* The content cannot be parsed.  A damaged download of a good file looks  *)
(* malformed too.                                                          *)
FindMalformed(p) ==
    /\ poll[p].pc = "archive"
    /\ \E f \in poll[p].todo :
          /\ IsCurrent(p, f)
          /\ \/ FileKind[f] = "malformed" /\ Failing(p, f, badCount[f]) /\ NoFault
             \/ FileKind[f] # "gone" /\ Fault /\ Failing(p, f, badCount[f])
             \/ FileKind[f] = "malformed" /\ Fault /\ Failing(p, f, 0)
    /\ UNCHANGED <<saasVars, watermarkVars, archiveVars, cacheVars, listed>>

(* Salesforce answers 400, 404 or 410 for the file.                        *)
FindUnavailable(p) ==
    /\ poll[p].pc = "archive"
    /\ \E f \in poll[p].todo :
          /\ IsCurrent(p, f)
          /\ FileKind[f] = "gone"
          /\ \/ Failing(p, f, badCount[f]) /\ NoFault
             \/ Failing(p, f, 0) /\ Fault
    /\ UNCHANGED <<saasVars, watermarkVars, archiveVars, cacheVars, listed>>

(* Mutant: the failed attempt is not counted.                               *)
PostponeUncounted(p) ==
    /\ poll[p].pc = "failing"
    /\ \E f \in poll[p].todo : IsCurrent(p, f) /\ poll[p].attempts < Attempts(f)
    /\ StopPoll(p)
    /\ UNCHANGED <<saasVars, watermarkVars, archiveVars, cacheVars, history, faults>>

(* Too few attempts: the counter is stored and the file blocks the poll.   *)
Postpone(p) ==
    /\ poll[p].pc = "failing"
    /\ \E f \in poll[p].todo :
          /\ IsCurrent(p, f)
          /\ poll[p].attempts < Attempts(f)
          /\ \/ badCount' = [badCount EXCEPT ![f] = poll[p].attempts] /\ NoFault
             \/ Fault /\ UNCHANGED badCount
    /\ StopPoll(p)
    /\ UNCHANGED <<saasVars, watermarkVars, archiveVars, processed, history>>

(* The counter is deleted (an error there is ignored), the file is passed. *)
GivenUp(p, f) ==
    /\ \/ badCount' = [badCount EXCEPT ![f] = 0] /\ NoFault
       \/ Fault /\ UNCHANGED badCount
    /\ Become(p, [poll[p] EXCEPT !.pc = "mark"])

(* Mutant: a file is quarantined one attempt too early.                     *)
QuarantineEarly(p) ==
    /\ poll[p].pc = "failing"
    /\ \E f \in poll[p].todo :
          /\ IsCurrent(p, f)
          /\ FileKind[f] # "gone"
          /\ poll[p].attempts + 1 >= Attempts(f)
          /\ quarantined' = quarantined \cup {f}
          /\ GivenUp(p, f)
    /\ UNCHANGED <<saasVars, watermarkVars, archived, tombstoned, processed, history>>

(* Attempts are used up: the raw lines are archived ...                    *)
Quarantine(p) ==
    /\ poll[p].pc = "failing"
    /\ \E f \in poll[p].todo :
          /\ IsCurrent(p, f)
          /\ FileKind[f] # "gone"
          /\ poll[p].attempts >= Attempts(f)
          /\ quarantined' = quarantined \cup {f}
          /\ GivenUp(p, f)
    /\ UNCHANGED <<saasVars, watermarkVars, archived, tombstoned, processed, history>>

(* ... or, for a file that cannot be had, a tombstone.                     *)
RecordUnavailable(p) ==
    /\ poll[p].pc = "failing"
    /\ \E f \in poll[p].todo :
          /\ IsCurrent(p, f)
          /\ FileKind[f] = "gone"
          /\ poll[p].attempts >= Attempts(f)
          /\ tombstoned' = tombstoned \cup {f}
          /\ GivenUp(p, f)
    /\ UNCHANGED <<saasVars, watermarkVars, archived, quarantined, processed, history>>

(* That object cannot be written: the file goes on blocking.               *)
GiveUpFails(p) ==
    /\ poll[p].pc = "failing"
    /\ Fault
    /\ \E f \in poll[p].todo : IsCurrent(p, f) /\ poll[p].attempts >= Attempts(f)
    /\ StopPoll(p)
    /\ UNCHANGED <<saasVars, watermarkVars, archiveVars, cacheVars, history>>

(* The marker is stored (an error is ignored) and the loop goes on.        *)
Mark(p) ==
    /\ poll[p].pc = "mark"
    /\ \E f \in poll[p].todo :
          /\ IsCurrent(p, f)
          /\ \/ processed' = processed \cup {f} /\ NoFault
             \/ Fault /\ UNCHANGED processed
          /\ Become(p, PassedBy(p, f))
    /\ UNCHANGED <<saasVars, watermarkVars, archiveVars, badCount, history>>

(* Every record was passed.                                                *)
Finish(p) ==
    /\ poll[p].pc = "next"
    /\ poll[p].todo = {}
    /\ Become(p, [poll[p] EXCEPT !.pc = "end"])
    /\ UNCHANGED <<saasVars, watermarkVars, archiveVars, cacheVars, history, faults>>

(* Mutant: after a failure the watermark still moves to the window's end.   *)
StoreUntil(p) ==
    /\ poll[p].pc = "end"
    /\ SetWatermark(poll[p].until, poll[p].base, TRUE)
    /\ Become(p, Idle)
    /\ UNCHANGED <<saasVars, archiveVars, cacheVars, history, faults>>

(* The watermark reached is stored, after a failure as well as at the end. *)
StoreWatermark(p) ==
    /\ poll[p].pc = "end"
    /\ IF poll[p].new = NoWatermark
       THEN UNCHANGED watermarkVars /\ NoFault
       ELSE \/ SetWatermark(poll[p].new, poll[p].base, TRUE) /\ NoFault
            \/ Fault /\ SetWatermark(poll[p].new, poll[p].base, FALSE)
    /\ Become(p, Idle)
    /\ UNCHANGED <<saasVars, archiveVars, cacheVars, history>>

(* The query fails, a record is unreadable, or the process dies.           *)
Abort(p) ==
    /\ poll[p].pc # "idle"
    /\ Fault
    /\ Become(p, Idle)
    /\ UNCHANGED <<saasVars, watermarkVars, archiveVars, cacheVars, history>>

(* A key with a TTL (expireDays) is gone: a marker or a counter.           *)
Forget(f) ==
    /\ Fault
    /\ \/ f \in processed /\ processed' = processed \ {f} /\ UNCHANGED badCount
       \/ badCount[f] # 0 /\ badCount' = [badCount EXCEPT ![f] = 0] /\ UNCHANGED processed
    /\ UNCHANGED <<saasVars, watermarkVars, archiveVars, history, poll>>

-----------------------------------------------------------------------------
Salesforce == Tick \/ \E f \in Files : CreateFile(f) \/ ShowFile(f)

PollStep(p) ==
    \/ BeginPoll(p) \/ List(p) \/ SkipProcessed(p) \/ TakeFile(p) \/ Archive(p)
    \/ FindMalformed(p) \/ FindUnavailable(p) \/ Postpone(p)
    \/ Quarantine(p) \/ RecordUnavailable(p) \/ Mark(p) \/ Finish(p)
    \/ StoreWatermark(p)

Trouble(p) == ArchiveFails(p) \/ GiveUpFails(p) \/ Abort(p)

Next ==
    \/ Salesforce
    \/ \E p \in Pollers : PollStep(p) \/ Trouble(p)
    \/ \E f \in Files : Forget(f)

Spec == Init /\ [][Next]_vars

(* Time passes, files appear, and every process keeps polling (a loop, or a *)
(* schedule that starts it again).                                          *)
Fairness ==
    /\ WF_vars(Tick)
    /\ \A f \in Files : WF_vars(ShowFile(f))
    /\ \A p \in Pollers : WF_vars(PollStep(p))

FairSpec == Spec /\ Fairness

-----------------------------------------------------------------------------
(* Properties.                                                             *)

TypeOK ==
    /\ now \in Nat
    /\ watermark \in Nat \cup {NoWatermark} /\ floor \in Int
    /\ created \in [Files -> Nat \cup {NotYet}]
    /\ visible \subseteq Files
    /\ archived \subseteq Files /\ quarantined \subseteq Files /\ tombstoned \subseteq Files
    /\ processed \subseteq Files
    /\ badCount \in [Files -> Nat] /\ failures \in [Files -> Nat]
    /\ listed \subseteq Files
    /\ poll \in [Pollers -> PollState]
    /\ faults \in Nat

(* No file of the range that the stored watermark answers for is left       *)
(* behind: those that the next poll will not read again have their rows,    *)
(* their raw lines or a tombstone in the archive, whatever failed and       *)
(* however polls overlapped.                                                *)
NoFileSkipped ==
    watermark # NoWatermark =>
       \A f \in Files :
          created[f] # NotYet /\ floor <= created[f] /\ created[f] < Since => f \in Accounted

(* A poll that fails at a file is repeated: a file that was listed, is not  *)
(* accounted for and that no poll is working on is still in the window of   *)
(* the next poll.                                                           *)
FailedFileRetried ==
    \A f \in listed \ Accounted :
       (\A p \in Pollers : f \notin poll[p].todo) => created[f] >= Since

(* Data is given up only for a file that kept failing: quarantine and       *)
(* tombstone come after the configured number of failed polls, although     *)
(* counters expire, are lost or are overwritten by an overlapping poll.     *)
GivenUpLate == \A f \in quarantined \cup tombstoned : failures[f] >= Attempts(f)

(* No file blocks the ones behind it for ever: every file is accounted for. *)
EveryFileAccounted == \A f \in Files : created[f] # NotYet ~> f \in Accounted

=============================================================================
