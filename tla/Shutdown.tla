------------------------------ MODULE Shutdown ------------------------------
(***************************************************************************)
(* How long a stream subscriber takes to stop.  The session goes on with   *)
(* what it is doing when the signal arrives: a flush that is running, the  *)
(* rest of the response it is decoding, a final flush.  Every flush has a  *)
(* context of its own (flushContext), which the signal does not cancel but *)
(* puts under ShutdownFlushTimeout.  The lease is renewed until Run        *)
(* returns.                                                                *)
(*                                                                         *)
(* Time passes in ticks while a flush runs or the session waits; what is   *)
(* due (a timer, a renewal, a ready select) happens before the next tick.  *)
(* Module Subscriber has the order of writes and commits and their errors. *)
(***************************************************************************)
EXTENDS Integers

CONSTANTS FlushTimeout,  \* ShutdownFlushTimeout
          LeaseTTL,      \* lease time; renewed every third of it
          MaxEvents,     \* events in one archive object
          ResponseSize,  \* bound: events in one response
          MaxRenewFails, \* bound: renewals that fail
          MaxElapsed     \* bound: ticks after the signal

ASSUME ShutdownAssumption ==
    /\ FlushTimeout \in Nat \ {0} /\ MaxEvents \in Nat \ {0}
    /\ LeaseTTL \in Nat /\ LeaseTTL >= 3
    /\ {ResponseSize, MaxRenewFails, MaxElapsed} \subseteq Nat

Off == -1

VARIABLES
    stopping,  \* ctx is cancelled
    elapsed,   \* ticks since then
    pc,        \* "select", "events", "flush" or "done"
    back,      \* where the running flush returns to
    inHand,    \* events of the response the reader goroutine holds
    rest,      \* events of the current response that are not decoded yet
    buffer,    \* events decoded and not archived
    pinned,    \* a position is committed
    timer,     \* ticks until the running flush is cancelled, or Off
    age,       \* ticks the running flush has had since the signal
    lease,     \* ticks until the lease expires
    renewIn,   \* ticks until the next renewal, Off when the renewer is gone
    sinceOK,   \* ticks since the last renewal that worked
    fails,     \* renewals that failed
    renewErr,  \* the renewer has given up
    exit       \* how Run ended

sessionVars == <<pc, back, inHand, rest, buffer, pinned, timer, age>>
renewVars   == <<lease, renewIn, sinceOK, fails, renewErr>>
stopVars == <<stopping, elapsed, sessionVars, renewVars, exit>>

Interval == LeaseTTL \div 3

StopTypeOK ==
    /\ stopping \in BOOLEAN /\ elapsed \in 0..MaxElapsed
    /\ pc \in {"select", "events", "flush", "done"}
    /\ back \in {"select", "events", "done"}
    /\ inHand \in 0..ResponseSize /\ rest \in 0..ResponseSize
    /\ buffer \in 0..MaxEvents /\ pinned \in BOOLEAN
    /\ timer \in {Off} \union 0..FlushTimeout
    /\ age \in 0..FlushTimeout
    /\ lease \in 0..LeaseTTL
    /\ renewIn \in {Off} \union 0..Interval
    /\ sinceOK \in 0..(2 * LeaseTTL) /\ fails \in 0..MaxRenewFails
    /\ renewErr \in BOOLEAN
    /\ exit \in {"running", "clean", "writeFailed", "aborted", "leaseLost"}

StopInit ==
    /\ stopping = FALSE /\ elapsed = 0
    /\ pc = "select" /\ back = "select"
    /\ inHand = 0 /\ rest = 0 /\ buffer = 0
    /\ pinned \in BOOLEAN
    /\ timer = Off /\ age = 0
    /\ lease = LeaseTTL /\ renewIn = Interval /\ sinceOK = 0 /\ fails = 0
    /\ renewErr = FALSE
    /\ exit = "running"

-----------------------------------------------------------------------------
(* Mutant: the signal cancels the context of the running flush.            *)
SignalCancels ==
    /\ ~stopping /\ pc # "done"
    /\ stopping' = TRUE
    /\ timer' = IF pc = "flush" THEN 0 ELSE timer
    /\ UNCHANGED <<elapsed, pc, back, inHand, rest, buffer, pinned, age, renewVars, exit>>

Signal ==
    /\ ~stopping /\ pc # "done"
    /\ stopping' = TRUE
    /\ timer' = IF pc = "flush" THEN FlushTimeout ELSE timer
    /\ UNCHANGED <<elapsed, pc, back, inHand, rest, buffer, pinned, age, renewVars, exit>>

(* The reader goroutine; nothing arrives on a cancelled stream.            *)
Receive ==
    /\ pc # "done" /\ ~stopping /\ inHand = 0
    /\ inHand' \in 1..ResponseSize
    /\ UNCHANGED <<stopping, elapsed, pc, back, rest, buffer, pinned, timer, age, renewVars, exit>>

Finish(how) ==
    /\ pc' = "done" /\ exit' = how
    /\ buffer' = 0 /\ timer' = Off /\ renewIn' = Off

(* Mutant: a flush that starts after the signal is not put under a timer.  *)
FlushContextLate(then) ==
    /\ pc' = "flush" /\ back' = then
    /\ timer' = Off
    /\ age' = 0

(* flushContext: the timer starts with the signal, or at once after it.    *)
FlushContext(then) ==
    /\ pc' = "flush" /\ back' = then
    /\ timer' = IF stopping THEN FlushTimeout ELSE Off
    /\ age' = 0

(* The session ends: the deferred flush, or nothing is left to do.         *)
EndSession ==
    IF buffer > 0
    THEN FlushContext("done") /\ UNCHANGED <<buffer, renewIn, exit>>
    ELSE Finish("clean") /\ UNCHANGED <<back, age>>

(* select, with the ready cases in any order.                              *)
SelectDone ==
    /\ pc = "select" /\ stopping
    /\ EndSession
    /\ UNCHANGED <<stopping, elapsed, inHand, rest, pinned, lease, sinceOK, fails, renewErr>>

SelectRenewErr ==
    /\ pc = "select" /\ renewErr
    /\ Finish("leaseLost")
    /\ UNCHANGED <<stopping, elapsed, back, inHand, rest, pinned, age, lease, sinceOK, fails, renewErr>>

SelectFlushTimer ==
    /\ pc = "select" /\ buffer > 0
    /\ FlushContext("select")
    /\ UNCHANGED <<stopping, elapsed, inHand, rest, buffer, pinned, renewVars, exit>>

SelectResponse ==
    /\ pc = "select" /\ inHand > 0
    /\ rest' = inHand /\ inHand' = 0
    /\ pc' = "events"
    /\ UNCHANGED <<stopping, elapsed, back, buffer, pinned, timer, age, renewVars, exit>>

(* Mutant: the buffer is looked at once per response.                      *)
DecodeAll ==
    /\ pc = "events"
    /\ rest' = 0 /\ buffer' = buffer + rest
    /\ IF buffer' >= MaxEvents \/ (~pinned /\ buffer' > 0) THEN FlushContext("select")
       ELSE pc' = "select" /\ UNCHANGED <<back, timer, age>>
    /\ UNCHANGED <<stopping, elapsed, inHand, pinned, renewVars, exit>>

(* One event of the response; a full buffer is flushed on the spot, and so *)
(* is the first batch of a topic without a position.                       *)
Decode ==
    /\ pc = "events"
    /\ IF rest > 0
       THEN /\ rest' = rest - 1 /\ buffer' = buffer + 1
            /\ IF buffer' >= MaxEvents THEN FlushContext("events")
               ELSE UNCHANGED <<pc, back, timer, age>>
       ELSE /\ UNCHANGED <<rest, buffer>>
            /\ IF ~pinned /\ buffer > 0 THEN FlushContext("select")
               ELSE pc' = "select" /\ UNCHANGED <<back, timer, age>>
    /\ UNCHANGED <<stopping, elapsed, inHand, pinned, renewVars, exit>>

-----------------------------------------------------------------------------
(* Upload and commit have worked; the commit extends the lease.            *)
FlushDone ==
    /\ pc = "flush" /\ timer # 0
    /\ IF lease = 0
       THEN Finish("leaseLost") /\ UNCHANGED <<lease, pinned, age>>
       ELSE /\ lease' = LeaseTTL /\ pinned' = TRUE /\ buffer' = 0 /\ timer' = Off /\ age' = 0
            /\ pc' = back
            /\ exit' = IF back = "done" THEN "clean" ELSE exit
            /\ renewIn' = IF back = "done" THEN Off ELSE renewIn
    /\ UNCHANGED <<stopping, elapsed, back, inHand, rest, sinceOK, fails, renewErr>>

(* The write has failed as often as it may be tried.                       *)
FlushFails ==
    /\ pc = "flush"
    /\ Finish("writeFailed")
    /\ UNCHANGED <<stopping, elapsed, back, inHand, rest, pinned, age, lease, sinceOK, fails, renewErr>>

(* The timer of its context ends the flush.                                *)
FlushAborted ==
    /\ pc = "flush" /\ timer = 0
    /\ Finish("aborted")
    /\ UNCHANGED <<stopping, elapsed, back, inHand, rest, pinned, age, lease, sinceOK, fails, renewErr>>

-----------------------------------------------------------------------------
(* Mutant: the renewer stops with the signal.                              *)
RenewUntilSignal ==
    /\ renewIn = 0
    /\ IF stopping THEN renewIn' = Off /\ UNCHANGED <<lease, sinceOK>>
       ELSE lease' = LeaseTTL /\ sinceOK' = 0 /\ renewIn' = Interval
    /\ UNCHANGED <<stopping, elapsed, sessionVars, fails, renewErr, exit>>

(* renewLease: a failure is tried again until most of the lease is gone.   *)
Renew ==
    /\ renewIn = 0
    /\ \/ /\ lease > 0
          /\ lease' = LeaseTTL /\ sinceOK' = 0 /\ renewIn' = Interval
          /\ UNCHANGED <<fails, renewErr>>
       \/ /\ IF lease > 0 THEN fails < MaxRenewFails /\ fails' = fails + 1 ELSE UNCHANGED fails
          /\ IF lease = 0 \/ 2 * sinceOK > 2 * LeaseTTL - Interval
             THEN renewErr' = TRUE /\ renewIn' = Off
             ELSE renewIn' = Interval /\ UNCHANGED renewErr
          /\ UNCHANGED <<lease, sinceOK>>
    /\ UNCHANGED <<stopping, elapsed, sessionVars, exit>>

(* A tick; nothing that is due may be waiting.                             *)
Tick ==
    /\ pc = "flush" \/ (pc = "select" /\ ~stopping /\ ~renewErr /\ inHand = 0)
    /\ timer # 0 /\ renewIn # 0
    /\ stopping => elapsed < MaxElapsed
    /\ elapsed' = IF stopping THEN elapsed + 1 ELSE elapsed
    /\ timer' = IF timer > 0 THEN timer - 1 ELSE timer
    /\ age' = IF pc = "flush" /\ stopping /\ age < FlushTimeout THEN age + 1 ELSE age
    /\ lease' = IF lease > 0 THEN lease - 1 ELSE 0
    /\ renewIn' = IF renewIn > 0 THEN renewIn - 1 ELSE renewIn
    /\ sinceOK' = IF sinceOK < 2 * LeaseTTL THEN sinceOK + 1 ELSE sinceOK
    /\ UNCHANGED <<stopping, pc, back, inHand, rest, buffer, pinned, fails, renewErr, exit>>

SessionStep ==
    \/ SelectDone \/ SelectRenewErr \/ SelectFlushTimer \/ SelectResponse \/ Decode \/ FlushAborted

StopNext == Signal \/ Receive \/ SessionStep \/ FlushDone \/ FlushFails \/ Renew \/ Tick

StopSpec == StopInit /\ [][StopNext]_stopVars

-----------------------------------------------------------------------------
(* The signal alone never costs a batch: a flush is abandoned only after   *)
(* it had the whole timeout (flushContext).                                *)
FlushGetsItsTime == exit = "aborted" => age = FlushTimeout

(* While renewals work, no flush of a shutdown loses the lease, however    *)
(* long the shutdown takes: renewLease outlives ctx.                       *)
LeaseOutlivesSignal == fails = 0 => exit # "leaseLost" /\ ~renewErr

(* Archive objects that n events fill, the last one perhaps in part.       *)
ObjectsOf(n) == (n + MaxEvents - 1) \div MaxEvents

(* The longest shutdown: a buffer one event short of full takes the        *)
(* response that is being decoded, then comes the response in hand, and    *)
(* every flush may take the whole timeout (session, flushContext).         *)
ShutdownBounded ==
    elapsed <= FlushTimeout * (ObjectsOf(MaxEvents - 1 + ResponseSize) + ObjectsOf(ResponseSize))

(* The signal ends the subscriber, even when an upload hangs for ever.     *)
SignalEnds == stopping ~> pc = "done"

(* A signal costs no batch and no lease, and its flushes bound the time    *)
(* until the process is gone (flushContext, renewLease, session).          *)
ShutdownSafe == StopTypeOK /\ FlushGetsItsTime /\ LeaseOutlivesSignal /\ ShutdownBounded

=============================================================================
