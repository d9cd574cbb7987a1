----------------------------- MODULE Subscriber -----------------------------
(***************************************************************************)
(* The stream collector's subscriber for ONE topic                         *)
(* (internal/integration/stream/subscriber.go): several collector slots    *)
(* run it against the same checkpoint store and the same archive, as       *)
(* happens during a deployment, a restart or a network partition, while an *)
(* operator may reset the checkpoint (cmd/sf-archive-stream/main.go).      *)
(*                                                                         *)
(* One step is one call that can be seen from outside the process (a Redis *)
(* script, an S3 write, a response taken from the stream) or one branch of *)
(* the code between two such calls.                                        *)
(*                                                                         *)
(* What is simplified:                                                     *)
(*  - replay IDs are numbers in delivery order (PubSubTopic);              *)
(*  - no clock: timers, leases and timeouts may fire whenever their        *)
(*    condition allows, which covers every timing;                         *)
(*  - an object write (data object, then manifest) is one step: nothing in *)
(*    the subscriber reads the archive in between, and a write that failed *)
(*    half way leaves the group unarchived;                                *)
(*  - everything that can go wrong costs one unit of `faults`, so that TLC *)
(*    explores every combination of up to MaxFaults failures;              *)
(*  - counting of logins (authFailures) and of requested events (pending)  *)
(*    is left out: a session may end with or without a fatal error         *)
(*    whenever it fails, and the server always has demand.                 *)
(***************************************************************************)
EXTENDS PubSubTopic, CheckpointStore

CONSTANTS Collectors,     \* collector slots (ECS tasks, old and new deployment)
          Presets,        \* values of eventStream.initialReplay that processes run with
          MaxEvents,      \* events per batch (opts.MaxEvents)
          MaxResp,        \* events the server puts into one FetchResponse
          WriteAttempts,  \* opts.WriteAttempts
          MaxFaults,      \* bound: failures, crashes, shutdowns, lost leases
          MaxProcesses,   \* bound: processes ever started, operator commands included
          MaxResets,      \* bound: -reset-checkpoints commands
          MaxLate         \* bound: timed-out commits in flight at once

ASSUME SubscriberAssumption ==
    /\ Presets \subseteq {"", "EARLIEST", "LATEST"}
    /\ MaxEvents \in Nat \ {0}
    /\ MaxResp \in Nat \ {0}
    /\ WriteAttempts \in Nat \ {0}
    /\ MaxFaults \in Nat
    /\ MaxProcesses \in Nat
    /\ MaxResets \in Nat
    /\ MaxLate \in Nat

VARIABLES archived,  \* events stored in a complete object (data and manifest)
          col,       \* col[c]: the process in slot c
          op,        \* the operator's -reset-checkpoints command
          resets,    \* how many of them have been started
          faults     \* failures left

vars == <<topicVars, storeVars, archived, col, op, resets, faults>>

-----------------------------------------------------------------------------
(* Process state.                                                          *)

PC == {"down", "acquire", "load", "open", "select", "decode", "write",
       "commit", "end", "after", "backoff", "release"}

(* What a flush returns to: the select loop (flush timer, first batch), the *)
(* decode loop (full batch), the end of the session (deferred flush); or,   *)
(* for a commit without a flush, the keepalive branch.                      *)
Cont == {"select", "decode", "end", "keepalive"}

ProcessState ==
    [pc        : PC,
     owner     : Owners,                \* RedisStore.Owner
     preset    : {"", "EARLIEST", "LATEST"}, \* opts.InitialReplay, once it is read
     stop      : BOOLEAN,               \* ctx is cancelled (SIGTERM)
     renew     : {"off", "running", "failed"}, \* the renewLease goroutine
     committed : ReplayId \cup {Nil},   \* s.committed
     base      : ReplayId,              \* history: where the covered range starts
     pos       : ReplayId,              \* last replay ID consumed from the stream
     respEnd   : ReplayId,              \* last event of the response being decoded
     buffer    : SUBSET ReplayId,       \* s.buffer
     todo      : SUBSET ReplayId,       \* events of the flush not written yet
     attempt   : Nat,                   \* writeWithRetry's attempt
     cont      : Cont,
     err       : {"none", "retry", "fatal"}, \* what the session returns
     code      : {"none", "ok", "fatal", "crash"}] \* how the last process ended

Down(code) ==
    [pc |-> "down", owner |-> NoOwner, preset |-> "", stop |-> FALSE, renew |-> "off",
     committed |-> Nil, base |-> 0, pos |-> 0, respEnd |-> 0, buffer |-> {},
     todo |-> {}, attempt |-> 0, cont |-> "select", err |-> "none",
     code |-> code]

OpState == [pc : {"idle", "clear", "release"}, owner : Owners]
OpIdle  == [pc |-> "idle", owner |-> NoOwner]

Running(c) == col[c].pc # "down"

(* Process c's next state is p.                                             *)
Become(c, p) == col' = [col EXCEPT ![c] = p]

Fault   == faults > 0 /\ faults' = faults - 1
NoFault == UNCHANGED faults

Init ==
    /\ TopicInit
    /\ StoreInit
    /\ archived = {}
    /\ col = [c \in Collectors |-> Down("none")]
    /\ op = OpIdle
    /\ resets = 0
    /\ faults = MaxFaults

-----------------------------------------------------------------------------
(* Process life cycle.                                                     *)

(* A task is started; its store gets a fresh owner token.                  *)
Start(c) ==
    /\ ~Running(c)
    /\ issued < MaxProcesses
    /\ issued' = NewOwner
    /\ Become(c, [Down("none") EXCEPT !.pc = "acquire", !.owner = NewOwner])
    /\ UNCHANGED <<topicVars, lease, checkpoint, floor, inflight, archived, op, resets, faults>>

(* The process dies: whatever it kept in memory is gone.                   *)
Crash(c) ==
    /\ Running(c)
    /\ Fault
    /\ Become(c, Down("crash"))
    /\ UNCHANGED <<topicVars, storeVars, archived, op, resets>>

(* SIGTERM, or another topic's fatal error: the run context is cancelled.  *)
Shutdown(c) ==
    /\ Running(c)
    /\ ~col[c].stop
    /\ Fault
    /\ Become(c, [col[c] EXCEPT !.stop = TRUE])
    /\ UNCHANGED <<topicVars, storeVars, archived, op, resets>>

-----------------------------------------------------------------------------
(* Run, up to the session loop.                                            *)

Acquire(c) ==
    /\ col[c].pc = "acquire"
    /\ SetNX(col[c].owner)
    /\ Become(c, [col[c] EXCEPT !.pc = "load"])
    /\ UNCHANGED <<topicVars, checkpoint, floor, inflight, issued, archived, op, resets, faults>>

(* SetNX was applied but its reply was lost.  The client either repeats it *)
(* by itself, finds the key taken and waits for its own lease to expire,   *)
(* or reports the error, which ends the process without releasing.         *)
AcquireUnknown(c) ==
    /\ col[c].pc = "acquire"
    /\ Fault
    /\ SetNX(col[c].owner)
    /\ \/ UNCHANGED col
       \/ Become(c, Down(IF col[c].stop THEN "ok" ELSE "fatal"))
    /\ UNCHANGED <<topicVars, checkpoint, floor, inflight, issued, archived, op, resets>>

(* Acquire returns an error: fatal, unless the context was cancelled.      *)
AcquireFails(c) ==
    /\ col[c].pc = "acquire"
    /\ \/ Fault
       \/ col[c].stop /\ NoFault
    /\ Become(c, Down(IF col[c].stop THEN "ok" ELSE "fatal"))
    /\ UNCHANGED <<topicVars, storeVars, archived, op, resets>>

(* The renewal goroutine is started once the checkpoint is loaded.         *)
LoadResume(c) ==
    /\ col[c].pc = "load"
    /\ checkpoint # Nil
    /\ Become(c, [col[c] EXCEPT !.pc = "open", !.renew = "running",
                                !.committed = checkpoint, !.pos = checkpoint,
                                !.base = floor])
    /\ UNCHANGED <<topicVars, storeVars, archived, op, resets, faults>>

LoadBootstrap(c) ==
    /\ col[c].pc = "load"
    /\ checkpoint = Nil
    /\ \E preset \in Presets \ {""} :
          Become(c, [col[c] EXCEPT !.pc = "open", !.renew = "running", !.preset = preset])
    /\ UNCHANGED <<topicVars, storeVars, archived, op, resets, faults>>

(* No checkpoint and no explicit start position: fail closed.              *)
LoadNoCheckpoint(c) ==
    /\ col[c].pc = "load"
    /\ checkpoint = Nil
    /\ "" \in Presets
    /\ Become(c, [col[c] EXCEPT !.pc = "release", !.code = "fatal"])
    /\ UNCHANGED <<topicVars, storeVars, archived, op, resets, faults>>

(* Mutant: a failed read of the checkpoint is taken for "no checkpoint".    *)
LoadErrorBootstraps(c) ==
    /\ col[c].pc = "load"
    /\ Fault
    /\ \E preset \in Presets \ {""} :
          Become(c, [col[c] EXCEPT !.pc = "open", !.renew = "running", !.preset = preset])
    /\ UNCHANGED <<topicVars, storeVars, archived, op, resets>>

LoadFails(c) ==
    /\ col[c].pc = "load"
    /\ \/ Fault
       \/ col[c].stop /\ NoFault
    /\ Become(c, [col[c] EXCEPT !.pc = "release",
                                !.code = IF col[c].stop THEN "ok" ELSE "fatal"])
    /\ UNCHANGED <<topicVars, storeVars, archived, op, resets>>

(* Defers of Run: the renewal stops and the lease is released, if the call *)
(* gets through (its error is ignored).                                    *)
Release(c) ==
    /\ col[c].pc = "release"
    /\ \/ ReleaseScript(col[c].owner) /\ NoFault
       \/ Fault /\ UNCHANGED lease
    /\ Become(c, Down(col[c].code))
    /\ UNCHANGED <<topicVars, checkpoint, floor, inflight, issued, archived, op, resets>>

-----------------------------------------------------------------------------
(* The lease.                                                              *)

(* Somebody renews the lease of owner o, or will within its first TTL.     *)
KeptAlive(o) ==
    \/ \E c \in Collectors :
          /\ Running(c)
          /\ col[c].owner = o
          /\ col[c].pc = "load" \/ col[c].renew = "running"
    \/ op.pc # "idle" /\ op.owner = o

(* Mutant: the key is set without a TTL.                                    *)
LeaseWithoutTTL == FALSE /\ UNCHANGED vars

(* The key expires because its owner is gone or stopped renewing.          *)
LeaseLapses ==
    /\ lease # NoOwner
    /\ ~KeptAlive(lease)
    /\ lease' = NoOwner
    /\ UNCHANGED <<topicVars, checkpoint, floor, inflight, issued, archived, col, op, resets, faults>>

(* The key expires under a live holder: a pause or a partition longer than *)
(* the TTL.                                                                *)
LeaseExpires ==
    /\ lease # NoOwner
    /\ KeptAlive(lease)
    /\ Fault
    /\ lease' = NoOwner
    /\ UNCHANGED <<topicVars, checkpoint, floor, inflight, issued, archived, col, op, resets>>

(* renewLease reports a fatal error, once: the store says the lease is     *)
(* lost ...                                                                *)
RenewLost(c) ==
    /\ col[c].renew = "running"
    /\ ~Holds(col[c].owner)
    /\ Become(c, [col[c] EXCEPT !.renew = "failed"])
    /\ UNCHANGED <<topicVars, storeVars, archived, op, resets, faults>>

(* ... or no renewal has succeeded for most of the TTL.                    *)
RenewTimesOut(c) ==
    /\ col[c].renew = "running"
    /\ Fault
    /\ Become(c, [col[c] EXCEPT !.renew = "failed"])
    /\ UNCHANGED <<topicVars, storeVars, archived, op, resets>>

-----------------------------------------------------------------------------
(* One session: opening the subscription and the select loop.              *)

(* The session function returns err; its deferred flush comes first.       *)
EndWith(c, err) == Become(c, [col[c] EXCEPT !.pc = "end", !.err = err])

(* The first FetchRequest: CUSTOM from the committed ID, else the preset.  *)
OpenCustom(c) ==
    /\ col[c].pc = "open"
    /\ col[c].committed # Nil
    /\ CanResumeAt(col[c].committed)
    /\ Become(c, [col[c] EXCEPT !.pc = "select", !.pos = col[c].committed])
    /\ UNCHANGED <<topicVars, storeVars, archived, op, resets, faults>>

(* The server rejects the replay ID: ErrReplayUnavailable, fatal.          *)
OpenRejected(c) ==
    /\ col[c].pc = "open"
    /\ col[c].committed # Nil
    /\ ~CanResumeAt(col[c].committed)
    /\ EndWith(c, "fatal")
    /\ UNCHANGED <<topicVars, storeVars, archived, op, resets, faults>>

OpenPreset(c) ==
    LET start == IF col[c].preset = "EARLIEST" THEN StartEarliest ELSE StartLatest
    IN  /\ col[c].pc = "open"
        /\ col[c].committed = Nil
        /\ Become(c, [col[c] EXCEPT !.pc = "select", !.base = start, !.pos = start])
        /\ UNCHANGED <<topicVars, storeVars, archived, op, resets, faults>>

(* Login or Subscribe fails; maxAuthFailures logins in a row are fatal.    *)
OpenFails(c) ==
    /\ col[c].pc = "open"
    /\ \E err \in {"retry", "fatal"} :
          /\ Fault \/ (err = "retry" /\ col[c].stop /\ NoFault)
          /\ Become(c, [col[c] EXCEPT !.pc = "after", !.err = err])
    /\ UNCHANGED <<topicVars, storeVars, archived, op, resets>>

SelectDone(c) ==
    /\ col[c].pc = "select"
    /\ col[c].stop
    /\ EndWith(c, "none")
    /\ UNCHANGED <<topicVars, storeVars, archived, op, resets, faults>>

(* Mutant: a failed renewal only ends the session.                          *)
SelectRenewErrRetries(c) ==
    /\ col[c].pc = "select"
    /\ col[c].renew = "failed"
    /\ EndWith(c, "retry")
    /\ UNCHANGED <<topicVars, storeVars, archived, op, resets, faults>>

SelectRenewErr(c) ==
    /\ col[c].pc = "select"
    /\ col[c].renew = "failed"
    /\ EndWith(c, "fatal")
    /\ UNCHANGED <<topicVars, storeVars, archived, op, resets, faults>>

(* The stream ends or goes silent (idle timeout), the server drops a       *)
(* subscription whose position left the retention window, or the cancelled *)
(* context closes it.  classifyStreamError makes it fatal or a reconnect.  *)
StreamEnds(c) ==
    /\ col[c].pc = "select"
    /\ \E err \in {"retry", "fatal"} :
          /\ \/ Fault
             \/ ~CanResumeAt(col[c].pos) /\ NoFault
             \/ err = "retry" /\ col[c].stop /\ NoFault
          /\ EndWith(c, err)
    /\ UNCHANGED <<topicVars, storeVars, archived, op, resets>>

(* flushNow and the deferred flush: every buffered event is to be written. *)
StartFlush(c, buffer, cont) ==
    [col[c] EXCEPT !.pc = "write", !.buffer = buffer, !.todo = buffer,
                   !.attempt = 1, !.cont = cont]

FlushTimer(c) ==
    /\ col[c].pc = "select"
    /\ col[c].buffer # {}
    /\ Become(c, StartFlush(c, col[c].buffer, "select"))
    /\ UNCHANGED <<topicVars, storeVars, archived, op, resets, faults>>

(* A FetchResponse with the next events of the topic.                      *)
Receive(c) ==
    /\ col[c].pc = "select"
    /\ CanResumeAt(col[c].pos)
    /\ \E e \in EventsAfter(col[c].pos, head) :
          /\ Cardinality(EventsAfter(col[c].pos, e)) <= MaxResp
          /\ Become(c, [col[c] EXCEPT !.pc = "decode", !.respEnd = e])
    /\ UNCHANGED <<topicVars, storeVars, archived, op, resets, faults>>

(* Mutant: the keepalive's newest ID is committed although events up to it  *)
(* are still undelivered (no look at the outstanding demand).               *)
KeepaliveWithoutDemand(c) ==
    /\ col[c].pc = "select"
    /\ col[c].buffer = {}
    /\ CanResumeAt(col[c].pos)
    /\ Become(c, [col[c] EXCEPT !.pc = "commit", !.pos = head, !.cont = "keepalive"])
    /\ UNCHANGED <<topicVars, storeVars, archived, op, resets, faults>>

(* A keepalive: no event is pending up to the newest ID.  With an empty    *)
(* buffer the checkpoint is moved there; otherwise nothing happens.        *)
Keepalive(c) ==
    /\ col[c].pc = "select"
    /\ col[c].buffer = {}
    /\ CanResumeAt(col[c].pos)
    /\ EventsAfter(col[c].pos, head) = {}
    /\ Become(c, [col[c] EXCEPT !.pc = "commit", !.pos = head, !.cont = "keepalive"])
    /\ UNCHANGED <<topicVars, storeVars, archived, op, resets, faults>>

-----------------------------------------------------------------------------
(* Decoding the events of one response.                                    *)

(* The next event of the response: no other lies before it.                *)
IsNextEvent(c, e) ==
    /\ e \in EventsAfter(col[c].pos, col[c].respEnd)
    /\ EventsAfter(col[c].pos, e) = {e}

(* s after event e was appended; a full batch is flushed at once.          *)
Appended(c, e, full) ==
    LET buffer == col[c].buffer \cup {e}
    IN  [(IF Cardinality(buffer) >= full
          THEN StartFlush(c, buffer, "decode")
          ELSE [col[c] EXCEPT !.buffer = buffer]) EXCEPT !.pos = e]

(* Mutant: the batch is flushed one event too late.                         *)
DecodeLateFlush(c) ==
    /\ col[c].pc = "decode"
    /\ \E e \in 1..head :
          /\ IsNextEvent(c, e)
          /\ Become(c, Appended(c, e, MaxEvents + 1))
    /\ UNCHANGED <<topicVars, storeVars, archived, op, resets, faults>>

(* One event is decoded and appended.                                      *)
Decode(c) ==
    /\ col[c].pc = "decode"
    /\ \E e \in 1..head :
          /\ IsNextEvent(c, e)
          /\ Become(c, Appended(c, e, MaxEvents))
    /\ UNCHANGED <<topicVars, storeVars, archived, op, resets, faults>>

(* The schema cannot be fetched: the session ends and reconnects.          *)
DecodeSchemaFails(c) ==
    /\ col[c].pc = "decode"
    /\ col[c].pos # col[c].respEnd
    /\ \/ Fault
       \/ col[c].stop /\ NoFault
    /\ EndWith(c, "retry")
    /\ UNCHANGED <<topicVars, storeVars, archived, op, resets>>

(* An undecodable event is fatal: it must not be skipped.                  *)
DecodeFails(c) ==
    /\ col[c].pc = "decode"
    /\ col[c].pos # col[c].respEnd
    /\ Fault
    /\ EndWith(c, "fatal")
    /\ UNCHANGED <<topicVars, storeVars, archived, op, resets>>

(* The response is consumed.  While nothing was ever committed the first   *)
(* batch is flushed immediately, to pin the position.                      *)
ResponseDone(c) ==
    /\ col[c].pc = "decode"
    /\ col[c].pos = col[c].respEnd
    /\ Become(c, IF col[c].committed = Nil /\ col[c].buffer # {}
                 THEN [StartFlush(c, col[c].buffer, "select") EXCEPT !.respEnd = 0]
                 ELSE [col[c] EXCEPT !.pc = "select", !.respEnd = 0])
    /\ UNCHANGED <<topicVars, storeVars, archived, op, resets, faults>>

-----------------------------------------------------------------------------
(* flush: write every group of events of one type, then commit.            *)

(* The next group, in first-seen order of the types.                       *)
Group(S) == {e \in S : EventType[e] = EventType[First(S)]}

(* Mutant: the commit follows the first group written.                      *)
WriteFirstGroupOnly(c) ==
    /\ col[c].pc = "write"
    /\ archived' = archived \cup Group(col[c].todo)
    /\ Become(c, [col[c] EXCEPT !.todo = {}, !.attempt = 1, !.pc = "commit"])
    /\ UNCHANGED <<topicVars, storeVars, op, resets, faults>>

Write(c) ==
    LET group == Group(col[c].todo)
        rest  == col[c].todo \ group
    IN  /\ col[c].pc = "write"
        /\ archived' = archived \cup group
        /\ Become(c, [col[c] EXCEPT !.todo = rest, !.attempt = 1,
                                    !.pc = IF rest = {} THEN "commit" ELSE "write"])
        /\ UNCHANGED <<topicVars, storeVars, op, resets, faults>>

(* A failed flush is fatal for the session; in the deferred flush its      *)
(* error replaces the session's own.                                       *)
FlushFails(c) ==
    Become(c, [col[c] EXCEPT !.pc = IF col[c].cont = "end" THEN "after" ELSE "end",
                             !.err = "fatal", !.todo = {}, !.attempt = 0])

(* An upload reports an error, whether or not the object became complete.  *)
(* The retry writes a new object.  The last attempt, or a shutdown whose   *)
(* flush timeout ran out, gives up: the checkpoint is not advanced.        *)
WriteFails(c) ==
    /\ col[c].pc = "write"
    /\ Fault
    /\ archived' \in {archived, archived \cup Group(col[c].todo)}
    /\ \/ /\ col[c].attempt < WriteAttempts
          /\ Become(c, [col[c] EXCEPT !.attempt = @ + 1])
       \/ /\ col[c].attempt = WriteAttempts \/ col[c].stop
          /\ FlushFails(c)
    /\ UNCHANGED <<topicVars, storeVars, op, resets>>

(* The replay ID a commit stores: the last event of the flushed buffer, or *)
(* the newest ID a keepalive reported.                                     *)
CallOf(c) ==
    [owner  |-> col[c].owner,
     replay |-> IF col[c].cont = "keepalive" THEN col[c].pos ELSE Last(col[c].buffer),
     base   |-> col[c].base]

CommitOk(c) ==
    /\ col[c].pc = "commit"
    /\ Holds(col[c].owner)
    /\ CommitScript(CallOf(c))
    /\ Become(c, [col[c] EXCEPT !.committed = CallOf(c).replay,
                                !.buffer = {}, !.attempt = 0, !.cont = "select",
                                !.pc = CASE col[c].cont = "decode" -> "decode"
                                         [] col[c].cont = "end"    -> "after"
                                         [] OTHER                  -> "select"])
    /\ UNCHANGED <<topicVars, lease, inflight, issued, archived, op, resets, faults>>

(* commit returns an error.  It is fatal, except that a shutdown makes an  *)
(* interrupted keepalive commit a clean stop.                              *)
CommitFails(c) ==
    IF col[c].cont = "keepalive"
    THEN EndWith(c, IF col[c].stop THEN "none" ELSE "fatal")
    ELSE FlushFails(c)

(* The store answers that the lease is lost.                               *)
CommitLeaseLost(c) ==
    /\ col[c].pc = "commit"
    /\ ~Holds(col[c].owner)
    /\ CommitFails(c)
    /\ UNCHANGED <<topicVars, storeVars, archived, op, resets, faults>>

(* An attempt errors: it was not applied, or it was and the reply is lost, *)
(* or it is still on its way.  The loop retries or runs out of its budget. *)
CommitErrors(c) ==
    /\ col[c].pc = "commit"
    /\ Fault
    /\ \/ UNCHANGED <<checkpoint, floor, inflight>>
       \/ CommitScript(CallOf(c)) /\ UNCHANGED inflight
       \/ /\ Cardinality(inflight) < MaxLate
          /\ inflight' = inflight \cup {CallOf(c)}
          /\ UNCHANGED <<checkpoint, floor>>
    /\ UNCHANGED col \/ CommitFails(c)
    /\ UNCHANGED <<topicVars, lease, issued, archived, op, resets>>

(* The keepalive commit runs under the session's own context: a shutdown   *)
(* interrupts it, before or after the server has applied it.               *)
KeepaliveInterrupted(c) ==
    /\ col[c].pc = "commit"
    /\ col[c].cont = "keepalive"
    /\ col[c].stop
    /\ CommitScript(CallOf(c)) \/ UNCHANGED <<checkpoint, floor>>
    /\ CommitFails(c)
    /\ UNCHANGED <<topicVars, lease, inflight, issued, archived, op, resets, faults>>

(* A timed-out commit attempt is delivered late.                           *)
CommitArrivesLate ==
    /\ \E call \in inflight : LateCommit(call)
    /\ UNCHANGED <<topicVars, archived, col, op, resets, faults>>

-----------------------------------------------------------------------------
(* The end of a session and the loop of Run.                               *)

(* Mutant: the buffer is dropped when the session ends on a shutdown.       *)
EndSessionDropsBuffer(c) ==
    /\ col[c].pc = "end"
    /\ Become(c, [(IF col[c].buffer = {} \/ col[c].err = "fatal" \/ col[c].stop
                   THEN [col[c] EXCEPT !.pc = "after", !.buffer = {}]
                   ELSE StartFlush(c, col[c].buffer, "end")) EXCEPT !.respEnd = 0])
    /\ UNCHANGED <<topicVars, storeVars, archived, op, resets, faults>>

(* The deferred flush: a fatal error abandons the buffer, anything else    *)
(* still archives and commits it.                                          *)
EndSession(c) ==
    /\ col[c].pc = "end"
    /\ Become(c, [(IF col[c].buffer = {} \/ col[c].err = "fatal"
                   THEN [col[c] EXCEPT !.pc = "after", !.buffer = {}]
                   ELSE StartFlush(c, col[c].buffer, "end")) EXCEPT !.respEnd = 0])
    /\ UNCHANGED <<topicVars, storeVars, archived, op, resets, faults>>

(* Run decides: clean exit on shutdown, exit on a fatal error, else back   *)
(* off and reconnect.                                                      *)
AfterSession(c) ==
    LET exits == col[c].stop \/ col[c].err = "fatal"
    IN  /\ col[c].pc = "after"
        /\ Become(c, [col[c] EXCEPT !.pc = IF exits THEN "release" ELSE "backoff",
                                    !.code = IF col[c].err = "fatal" THEN "fatal"
                                             ELSE IF exits THEN "ok" ELSE "none",
                                    !.err = "none", !.cont = "select", !.buffer = {}])
        /\ UNCHANGED <<topicVars, storeVars, archived, op, resets, faults>>

Backoff(c) ==
    /\ col[c].pc = "backoff"
    /\ \/ Become(c, [col[c] EXCEPT !.pc = "open"])
       \/ /\ col[c].stop
          /\ Become(c, [col[c] EXCEPT !.pc = "release", !.code = "ok"])
    /\ UNCHANGED <<topicVars, storeVars, archived, op, resets, faults>>

-----------------------------------------------------------------------------
(* The operator's -reset-checkpoints command: it takes the lease like a    *)
(* collector, deletes the checkpoint and releases.                         *)

OpAcquire ==
    /\ op.pc = "idle"
    /\ resets < MaxResets
    /\ issued < MaxProcesses
    /\ SetNX(NewOwner)
    /\ issued' = NewOwner
    /\ resets' = resets + 1
    /\ op' = [pc |-> "clear", owner |-> NewOwner]
    /\ UNCHANGED <<topicVars, checkpoint, floor, inflight, archived, col, faults>>

OpClear ==
    /\ op.pc = "clear"
    /\ \/ ClearScript(op.owner) /\ NoFault
       \/ UNCHANGED <<checkpoint, floor>> /\ Fault
    /\ op' = [op EXCEPT !.pc = "release"]
    /\ UNCHANGED <<topicVars, lease, inflight, issued, archived, col, resets>>

OpRelease ==
    /\ op.pc = "release"
    /\ \/ ReleaseScript(op.owner) /\ NoFault
       \/ UNCHANGED lease /\ Fault
    /\ op' = OpIdle
    /\ UNCHANGED <<topicVars, checkpoint, floor, inflight, issued, archived, col, resets>>

-----------------------------------------------------------------------------
Environment ==
    /\ Publish \/ Expire
    /\ UNCHANGED <<storeVars, archived, col, op, resets, faults>>

(* The steps a process takes by itself when nothing fails.                 *)
Progress(c) ==
    \/ Acquire(c) \/ LoadResume(c) \/ LoadBootstrap(c) \/ LoadNoCheckpoint(c)
    \/ OpenCustom(c) \/ OpenRejected(c) \/ OpenPreset(c)
    \/ Decode(c) \/ ResponseDone(c)
    \/ Write(c) \/ CommitOk(c) \/ CommitLeaseLost(c)
    \/ EndSession(c) \/ AfterSession(c) \/ Backoff(c) \/ Release(c)

Trouble(c) ==
    \/ Crash(c) \/ Shutdown(c) \/ AcquireUnknown(c) \/ AcquireFails(c)
    \/ LoadFails(c) \/ OpenFails(c) \/ RenewTimesOut(c) \/ StreamEnds(c)
    \/ DecodeSchemaFails(c) \/ DecodeFails(c)
    \/ WriteFails(c) \/ CommitErrors(c) \/ KeepaliveInterrupted(c)

Select(c) == SelectDone(c) \/ SelectRenewErr(c) \/ FlushTimer(c) \/ Receive(c)

Next ==
    \/ Environment
    \/ LeaseLapses \/ LeaseExpires \/ CommitArrivesLate
    \/ OpAcquire \/ OpClear \/ OpRelease
    \/ \E c \in Collectors :
          \/ Start(c) \/ Progress(c) \/ Select(c) \/ Keepalive(c) \/ RenewLost(c)
          \/ Trouble(c)

Spec == Init /\ [][Next]_vars

(* What the scheduling of the code guarantees: a running process goes on,   *)
(* an exited task is started again, a key that nobody renews expires, and   *)
(* the renewal ticker finds out that the lease is lost.  Nothing is assumed *)
(* about which ready case of the select loop is taken, about keepalives or  *)
(* about anything that fails.                                               *)
Fairness ==
    /\ WF_vars(LeaseLapses)
    /\ \A c \in Collectors :
          /\ WF_vars(Start(c))
          /\ WF_vars(Progress(c) \/ Select(c))
          /\ WF_vars(RenewLost(c))

FairSpec == Spec /\ Fairness

-----------------------------------------------------------------------------
(* Properties.                                                             *)

TypeOK ==
    /\ head \in Nat /\ oldest \in Nat \ {0}
    /\ StoreTypeOK
    /\ archived \subseteq ReplayId
    /\ col \in [Collectors -> ProcessState]
    /\ op \in OpState
    /\ resets \in Nat
    /\ faults \in Nat

Covered(from, to) == EventsAfter(from, to) \subseteq archived

(* The subscriber's stated invariant, strengthened to every place a replay *)
(* ID can come back from: the stored checkpoint, the one each process holds *)
(* in memory and those of commits still in flight never cover an event of   *)
(* the topic that is not in a complete object of the archive.               *)
CheckpointCovered ==
    /\ checkpoint # Nil => Covered(floor, checkpoint)
    /\ \A call \in inflight : Covered(call.base, call.replay)
    /\ \A c \in Collectors :
          col[c].committed # Nil => Covered(col[c].base, col[c].committed)

Promise == INSTANCE AtLeastOnce
             WITH stored <- archived, cursor <- checkpoint, start <- floor

(* The collectors together implement the promise of AtLeastOnce: whichever  *)
(* process, restart or late message moves the stored checkpoint, it ends up *)
(* where the archive is already complete, and the start of the complete     *)
(* range never moves while a checkpoint is stored, so no gap ever opens     *)
(* between the bootstrap (or the last operator reset) and the checkpoint.   *)
KeepsPromise == Promise!Spec

(* The stored checkpoint only moves forward (while no timed-out commit is   *)
(* delivered late and nobody resets it): a collector that lost its lease    *)
(* cannot move it back.                                                     *)
CheckpointMonotone == [][checkpoint # Nil /\ checkpoint' # Nil => checkpoint' >= checkpoint]_vars

(* A process that exits cleanly was told to stop, and every event it took   *)
(* from the stream is covered by a checkpoint the store acknowledged.       *)
CleanStop ==
    \A c \in Collectors :
       col[c].pc = "release" /\ col[c].code = "ok" =>
          /\ col[c].stop
          /\ EventsAfter(IF col[c].committed = Nil THEN col[c].base ELSE col[c].committed,
                         col[c].pos) = {}

(* A restart re-archives at most one batch: no more than MaxEvents events   *)
(* beyond the stored checkpoint are already in the archive, also while a    *)
(* collector that lost its lease is still writing.                          *)
OneBatchReplay ==
    checkpoint # Nil => Cardinality({e \in archived : e > checkpoint}) <= MaxEvents

(* Every published event is archived and covered by the checkpoint in the   *)
(* end, whatever failed in between.                                         *)
EventuallyCommitted ==
    \A e \in 1..MaxHead : (head >= e /\ EventType[e] # Foreign) ~> (checkpoint >= e)

(* A process that has lost its lease stops (renew is "off" again only once  *)
(* the process has ended).                                                  *)
LoserStops ==
    \A c \in Collectors :
       (col[c].renew # "off" /\ lease # col[c].owner) ~> (col[c].renew = "off")

=============================================================================
