-------------------------- MODULE SubscriberProofs --------------------------
(***************************************************************************)
(* Proofs about Subscriber, for every number of collectors, every          *)
(* assignment of event types to replay IDs and every value of the bounds.  *)
(*                                                                         *)
(* CheckpointCovered is not inductive: it says nothing about the buffer    *)
(* whose last event a commit is about to store.  IInv adds, for each       *)
(* process, that what it consumed since the start of the covered range is  *)
(* either archived or buffered, that the buffer ends at the last consumed  *)
(* event, and that a flush only reaches its commit with the whole buffer   *)
(* archived.                                                               *)
(*                                                                         *)
(* OneBatchReplay needs a second kind of fact, BInv: how far ahead of the  *)
(* stored position a process, also one without the lease, can write.       *)
(***************************************************************************)
EXTENDS Subscriber, FiniteSetTheorems, WellFoundedInduction, TLAPS

(* The states of a process in which nothing is buffered.                   *)
Unbuffered == {"down", "acquire", "load", "open", "backoff", "release"}

(* The process still means to archive and commit what it consumed.         *)
InSession(p) ==
    \/ p.pc \in {"select", "decode", "write", "commit"}
    \/ p.pc = "end" /\ p.err # "fatal"

(* What holds of a process with state p when A is archived.                *)
ProcOK(p, A) ==
    /\ p.committed # Nil => EventsAfter(p.base, p.committed) \subseteq A
    /\ p.pc \in Unbuffered => p.buffer = {}
    /\ p.buffer # {} => p.pos \in p.buffer /\ \A e \in p.buffer : e <= p.pos
    /\ InSession(p) => EventsAfter(p.base, p.pos) \subseteq A \cup p.buffer
    /\ p.pc = "write" =>
          p.buffer # {} /\ p.buffer \ p.todo \subseteq A /\ p.cont # "keepalive"
    /\ p.pc = "commit" =>
          p.buffer \subseteq A /\ (p.cont = "keepalive" <=> p.buffer = {})

StoreOK ==
    /\ checkpoint # Nil => Covered(floor, checkpoint)
    /\ \A call \in inflight : Covered(call.base, call.replay)

IInv == TypeOK /\ StoreOK /\ \A c \in Collectors : ProcOK(col[c], archived)

-----------------------------------------------------------------------------
(* Lemmas about the operators.                                             *)

(* A range of events is covered by the two halves it is split into.        *)
LEMMA EventsSplit ==
  ASSUME NEW a \in Nat, NEW b \in Nat, NEW d \in Nat
  PROVE  EventsAfter(a, d) \subseteq EventsAfter(a, b) \cup EventsAfter(b, d)
BY DEF EventsAfter

(* The events after a up to b lie between a and b.                         *)
LEMMA EventsBounds ==
  ASSUME NEW a \in Nat, NEW b \in Nat, NEW e \in EventsAfter(a, b)
  PROVE  e \in Nat /\ a < e /\ e <= b
BY DEF EventsAfter

(* There is no event after a up to a.                                      *)
LEMMA EventsEmpty ==
  ASSUME NEW a \in Nat
  PROVE  EventsAfter(a, a) = {}
BY DEF EventsAfter

(* Last picks the maximum of a set that has one.                           *)
LEMMA LastIsMax ==
  ASSUME NEW S \in SUBSET Nat, NEW m \in S, \A e \in S : e <= m
  PROVE  Last(S) = m
<1>1. \A x \in S : (\A f \in S : f <= x) => x = m
  OBVIOUS
<1> QED BY <1>1 DEF Last

(* The fields of a process state have their types.                         *)
LEMMA FieldTypes ==
  ASSUME NEW p \in ProcessState
  PROVE  /\ p.owner \in Nat /\ p.base \in Nat /\ p.pos \in Nat /\ p.respEnd \in Nat
         /\ p.committed \in Nat \cup {Nil}
         /\ p.buffer \subseteq Nat /\ p.todo \subseteq Nat
         /\ p.pc \in PC /\ p.cont \in Cont /\ p.attempt \in Nat
BY DEF ProcessState, ReplayId, Owners

(* ProcOK survives when the archive grows.                                 *)
LEMMA ProcMonotone ==
  ASSUME NEW p, NEW A, NEW B, A \subseteq B, ProcOK(p, A)
  PROVE  ProcOK(p, B)
BY DEF ProcOK

(* StoreOK survives when the archive grows and the store is left alone.    *)
LEMMA StoreMonotone ==
  ASSUME StoreOK, archived \subseteq archived', UNCHANGED <<checkpoint, floor, inflight>>
  PROVE  StoreOK'
BY DEF StoreOK, Covered

-----------------------------------------------------------------------------
(* How one process moving preserves the invariant.                         *)

(* A step in which process c becomes p, everything shared keeps its type   *)
(* and the store stays covered.                                            *)
LEMMA ProcessStep ==
  ASSUME IInv, NEW c \in Collectors, NEW p \in ProcessState, Become(c, p),
         archived \subseteq archived', archived' \subseteq ReplayId,
         ProcOK(p, archived'),
         StoreTypeOK', StoreOK', faults' \in Nat,
         UNCHANGED <<topicVars, op, resets>>
  PROVE  IInv'
<1>1. \A d \in Collectors : col'[d] = IF d = c THEN p ELSE col[d]
  BY DEF Become, IInv, TypeOK
<1>2. \A d \in Collectors : ProcOK(col[d], archived')
  BY ProcMonotone DEF IInv
<1>3. \A d \in Collectors : ProcOK(col'[d], archived')
  BY <1>1, <1>2
<1>4. col' \in [Collectors -> ProcessState]
  BY DEF Become, IInv, TypeOK
<1>5. TypeOK'
  BY <1>4 DEF IInv, TypeOK, topicVars
<1> QED BY <1>3, <1>5 DEF IInv

(* A step that only changes process c.                                     *)
LEMMA LocalStep ==
  ASSUME IInv, NEW c \in Collectors, NEW p \in ProcessState, Become(c, p),
         ProcOK(p, archived), faults' \in Nat,
         UNCHANGED <<topicVars, storeVars, archived, op, resets>>
  PROVE  IInv'
<1>1. StoreTypeOK' /\ StoreOK'
  BY StoreMonotone DEF IInv, TypeOK, StoreTypeOK, storeVars
<1>2. archived' = archived /\ archived' \subseteq ReplayId
  BY DEF IInv, TypeOK
<1> QED BY <1>1, <1>2, ProcessStep

(* A fault leaves a natural number of faults.                              *)
LEMMA FaultsLeft ==
  ASSUME IInv, Fault \/ NoFault
  PROVE  faults' \in Nat
BY DEF IInv, TypeOK, Fault, NoFault

-----------------------------------------------------------------------------
(* The process states the actions build are well formed.                   *)

(* A process that is down.                                                 *)
LEMMA DownOK ==
  ASSUME NEW code \in {"none", "ok", "fatal", "crash"}, NEW A
  PROVE  Down(code) \in ProcessState /\ ProcOK(Down(code), A)
BY DEF Down, ProcessState, PC, Cont, Owners, ReplayId, NoOwner, Nil, ProcOK, InSession

(* A process that ends its session: what it consumed stays accounted for   *)
(* unless the error is fatal.                                              *)
LEMMA EndedOK ==
  ASSUME NEW p \in ProcessState, NEW A, ProcOK(p, A),
         NEW err \in {"none", "retry", "fatal"}, InSession(p) \/ err = "fatal"
  PROVE  LET q == [p EXCEPT !.pc = "end", !.err = err]
         IN  q \in ProcessState /\ ProcOK(q, A)
<1> DEFINE q == [p EXCEPT !.pc = "end", !.err = err]
<1>1. q \in ProcessState
  BY DEF ProcessState, PC
<1>2. /\ q.committed = p.committed /\ q.base = p.base /\ q.pos = p.pos
      /\ q.buffer = p.buffer /\ q.pc = "end" /\ q.err = err
  BY DEF ProcessState
<1>3. ProcOK(q, A)
  BY <1>2 DEF ProcOK, InSession, Unbuffered
<1> QED BY <1>1, <1>3

(* A process whose flush failed.                                           *)
LEMMA FlushFailedOK ==
  ASSUME NEW p \in ProcessState, NEW A, ProcOK(p, A)
  PROVE  LET q == [p EXCEPT !.pc = IF p.cont = "end" THEN "after" ELSE "end",
                            !.err = "fatal", !.todo = {}, !.attempt = 0]
         IN  q \in ProcessState /\ ProcOK(q, A)
<1> DEFINE q == [p EXCEPT !.pc = IF p.cont = "end" THEN "after" ELSE "end",
                          !.err = "fatal", !.todo = {}, !.attempt = 0]
<1>1. q \in ProcessState
  BY ZenonT(40) DEF ProcessState, PC
<1>2. /\ q.committed = p.committed /\ q.base = p.base /\ q.pos = p.pos
      /\ q.buffer = p.buffer /\ q.pc \in {"after", "end"} /\ q.err = "fatal"
  BY DEF ProcessState
<1>3. ProcOK(q, A)
  BY <1>2 DEF ProcOK, InSession, Unbuffered
<1> QED BY <1>1, <1>3

(* A process q that starts to flush its buffer, p being its state before.  *)
LEMMA FlushStartedOK ==
  ASSUME NEW p, NEW A, ProcOK(p, A),
         NEW q, q.pc = "write", q.todo = q.buffer, q.cont # "keepalive",
         q.base = p.base, q.committed = p.committed,
         q.pos \in q.buffer, \A e \in q.buffer : e <= q.pos,
         EventsAfter(q.base, q.pos) \subseteq A \cup q.buffer
  PROVE  ProcOK(q, A)
BY DEF ProcOK, InSession, Unbuffered

(* What a commit is about to store is covered: it is the end of the        *)
(* consumed range, and nothing of that range is only buffered any more.    *)
LEMMA CallCovered ==
  ASSUME IInv, NEW c \in Collectors, col[c].pc = "commit"
  PROVE  /\ CallOf(c) \in CommitCall
         /\ CallOf(c).replay = col[c].pos
         /\ CallOf(c).base = col[c].base
         /\ Covered(CallOf(c).base, CallOf(c).replay)
<1>1. col[c] \in ProcessState /\ ProcOK(col[c], archived)
  BY DEF IInv, TypeOK
<1>2. /\ col[c].pos \in Nat /\ col[c].base \in Nat /\ col[c].owner \in Nat
      /\ col[c].buffer \subseteq Nat
  BY <1>1, FieldTypes
<1>3. col[c].cont # "keepalive" => Last(col[c].buffer) = col[c].pos
  BY <1>1, <1>2, LastIsMax DEF ProcOK
<1>4. EventsAfter(col[c].base, col[c].pos) \subseteq archived
  BY <1>1 DEF ProcOK, InSession
<1> QED BY <1>2, <1>3, <1>4 DEF CallOf, CommitCall, Owners, ReplayId, Covered

(* Running commitScript for a covered call keeps the store covered.        *)
LEMMA CommitKeepsStore ==
  ASSUME IInv, NEW call \in CommitCall, Covered(call.base, call.replay), CommitScript(call),
         inflight' \subseteq inflight, UNCHANGED <<lease, issued>>,
         archived' = archived
  PROVE  StoreTypeOK' /\ StoreOK'
<1>1. CASE Holds(call.owner)
  BY <1>1 DEF IInv, TypeOK, StoreTypeOK, StoreOK, CommitScript, CommitCall, Covered
<1>2. CASE ~Holds(call.owner)
  BY <1>2 DEF IInv, TypeOK, StoreTypeOK, StoreOK, CommitScript, Covered
<1> QED BY <1>1, <1>2
-----------------------------------------------------------------------------
(* The invariant holds initially and every action preserves it.            *)

(* Nothing is stored and no process runs: the invariant holds initially.   *)
LEMMA InitOK == ASSUME Init PROVE IInv
<1>1. \A c \in Collectors : col[c] = Down("none")
  BY DEF Init
<1>2. \A c \in Collectors : col[c] \in ProcessState /\ ProcOK(col[c], archived)
  BY <1>1, DownOK
<1>3. col \in [Collectors -> ProcessState]
  BY <1>2 DEF Init
<1>4. TypeOK
  <2>0. faults \in Nat
    BY SubscriberAssumption DEF Init
  <2>1. head \in Nat /\ oldest \in Nat \ {0} /\ resets \in Nat
    BY DEF Init, TopicInit
  <2>2. StoreTypeOK
    BY DEF Init, StoreInit, StoreTypeOK, Owners, ReplayId, NoOwner, Nil
  <2>3. op \in OpState /\ archived \subseteq ReplayId
    BY DEF Init, OpIdle, OpState, Owners, NoOwner
  <2> QED BY <1>3, <2>0, <2>1, <2>2, <2>3 DEF TypeOK
<1>5. StoreOK
  BY DEF Init, StoreInit, StoreOK
<1> QED BY <1>2, <1>4, <1>5 DEF IInv

(* A process that starts has consumed nothing.                             *)
LEMMA StartOK ==
  ASSUME IInv, NEW c \in Collectors, Start(c)
  PROVE  IInv'
<1> DEFINE d == Down("none")
           q == [d EXCEPT !.pc = "acquire", !.owner = NewOwner]
<1>1. d \in ProcessState /\ ProcOK(d, archived)
  BY DownOK
<1>2. NewOwner \in Nat
  BY DEF NewOwner, IInv, TypeOK, StoreTypeOK
<1>3. q \in ProcessState
  BY <1>1, <1>2 DEF ProcessState, PC, Owners
<1>4. q.committed = Nil /\ q.buffer = {} /\ q.pc = "acquire"
  BY <1>1 DEF ProcessState, Down
<1>5. ProcOK(q, archived)
  BY <1>4 DEF ProcOK, InSession
<1>6. StoreTypeOK' /\ StoreOK'
  BY <1>2, StoreMonotone DEF Start, IInv, TypeOK, StoreTypeOK
<1>7. archived' = archived /\ archived' \subseteq ReplayId /\ faults' \in Nat
  BY DEF Start, IInv, TypeOK
<1> QED BY <1>3, <1>5, <1>6, <1>7, ProcessStep DEF Start

(* A crash loses the buffer, and with it all that the process had          *)
(* consumed.                                                               *)
LEMMA CrashOK ==
  ASSUME IInv, NEW c \in Collectors, Crash(c)
  PROVE  IInv'
BY DownOK, FaultsLeft, LocalStep DEF Crash

(* A cancelled context changes nothing that a process has consumed.        *)
LEMMA ShutdownOK ==
  ASSUME IInv, NEW c \in Collectors, Shutdown(c)
  PROVE  IInv'
<1> DEFINE p == col[c]
           q == [p EXCEPT !.stop = TRUE]
<1>1. p \in ProcessState /\ ProcOK(p, archived)
  BY DEF IInv, TypeOK
<1>2. q \in ProcessState
  BY <1>1 DEF Shutdown, ProcessState, PC, Cont
<1>3. /\ q.committed = p.committed /\ q.base = p.base /\ q.pos = p.pos
      /\ q.buffer = p.buffer /\ q.todo = p.todo /\ q.cont = p.cont /\ q.pc = p.pc /\ q.err = p.err
  BY <1>1 DEF ProcessState
<1>4. ProcOK(q, archived)
  BY <1>1, <1>3 DEF Shutdown, ProcOK, InSession, Unbuffered
<1>5. faults' \in Nat
  BY FaultsLeft DEF Shutdown, NoFault
<1> QED BY <1>2, <1>4, <1>5, LocalStep DEF Shutdown, EndWith, storeVars

(* Steps on the lease key: whatever it becomes, it stays a token.          *)
LEMMA LeaseStep ==
  ASSUME IInv, lease' \in Owners, UNCHANGED <<checkpoint, floor, inflight, issued, archived>>
  PROVE  StoreTypeOK' /\ StoreOK'
BY StoreMonotone DEF IInv, TypeOK, StoreTypeOK

(* Taking the lease leaves checkpoint and archive alone.                   *)
LEMMA AcquireOK ==
  ASSUME IInv, NEW c \in Collectors, Acquire(c)
  PROVE  IInv'
<1> DEFINE p == col[c]
           q == [p EXCEPT !.pc = "load"]
<1>1. p \in ProcessState /\ ProcOK(p, archived)
  BY DEF IInv, TypeOK
<1>2. q \in ProcessState
  BY <1>1 DEF ProcessState, PC
<1>3. /\ q.committed = p.committed /\ q.base = p.base /\ q.buffer = p.buffer /\ q.pc = "load"
  BY <1>1 DEF ProcessState
<1>4. ProcOK(q, archived)
  BY <1>1, <1>3 DEF Acquire, ProcOK, InSession, Unbuffered
<1>5. StoreTypeOK' /\ StoreOK'
  BY <1>1, LeaseStep, FieldTypes DEF Acquire, SetNX, Owners
<1>6. archived' = archived /\ archived' \subseteq ReplayId /\ faults' \in Nat
  BY DEF Acquire, IInv, TypeOK
<1> QED BY <1>2, <1>4, <1>5, <1>6, ProcessStep DEF Acquire

(* A SETNX whose answer is lost changes at most the lease.                 *)
LEMMA AcquireUnknownOK ==
  ASSUME IInv, NEW c \in Collectors, AcquireUnknown(c)
  PROVE  IInv'
<1>1. StoreTypeOK' /\ StoreOK'
  <2>1. col[c] \in ProcessState
    BY DEF IInv, TypeOK
  <2> QED BY <2>1, LeaseStep, FieldTypes DEF AcquireUnknown, SetNX, Owners
<1>2. archived' = archived /\ archived' \subseteq ReplayId /\ faults' \in Nat
  BY FaultsLeft DEF AcquireUnknown, IInv, TypeOK
<1>3. CASE UNCHANGED col
  BY <1>1, <1>2, <1>3 DEF AcquireUnknown, IInv, TypeOK, topicVars
<1>4. CASE Become(c, Down(IF col[c].stop THEN "ok" ELSE "fatal"))
  BY <1>1, <1>2, <1>4, DownOK, ProcessStep DEF AcquireUnknown
<1> QED BY <1>3, <1>4 DEF AcquireUnknown

(* A process that gets no lease goes down.                                 *)
LEMMA AcquireFailsOK ==
  ASSUME IInv, NEW c \in Collectors, AcquireFails(c)
  PROVE  IInv'
BY DownOK, FaultsLeft, LocalStep DEF AcquireFails

(* Resuming at the stored checkpoint: what lies before it is covered       *)
(* already.                                                                *)
LEMMA LoadResumeOK ==
  ASSUME IInv, NEW c \in Collectors, LoadResume(c)
  PROVE  IInv'
<1> DEFINE p == col[c]
           q == [p EXCEPT !.pc = "open", !.renew = "running", !.committed = checkpoint,
                          !.pos = checkpoint, !.base = floor]
<1>1. p \in ProcessState /\ ProcOK(p, archived)
  BY DEF IInv, TypeOK
<1>2. checkpoint \in Nat /\ floor \in Nat /\ EventsAfter(floor, checkpoint) \subseteq archived
  BY DEF LoadResume, IInv, TypeOK, StoreTypeOK, StoreOK, Covered, ReplayId
<1>3. q \in ProcessState
  BY <1>1, <1>2 DEF ProcessState, PC, ReplayId
<1>4. q.committed = checkpoint /\ q.base = floor /\ q.buffer = p.buffer /\ q.pc = "open"
  BY <1>1 DEF ProcessState
<1>5. ProcOK(q, archived)
  BY <1>1, <1>2, <1>4 DEF LoadResume, ProcOK, InSession, Unbuffered
<1>6. faults' \in Nat
  BY DEF LoadResume, IInv, TypeOK
<1> QED BY <1>3, <1>5, <1>6, LocalStep DEF LoadResume

(* Without a checkpoint nothing has been consumed yet.                     *)
LEMMA LoadBootstrapOK ==
  ASSUME IInv, NEW c \in Collectors, LoadBootstrap(c)
  PROVE  IInv'
<1>1. PICK preset \in Presets \ {""} :
         Become(c, [col[c] EXCEPT !.pc = "open", !.renew = "running", !.preset = preset])
  BY DEF LoadBootstrap
<1> DEFINE p == col[c]
           q == [p EXCEPT !.pc = "open", !.renew = "running", !.preset = preset]
<1>2. p \in ProcessState /\ ProcOK(p, archived)
  BY DEF IInv, TypeOK
<1>3. q \in ProcessState
  BY <1>2, SubscriberAssumption, ZenonT(40) DEF ProcessState, PC
<1>4. q.committed = p.committed /\ q.base = p.base /\ q.buffer = p.buffer /\ q.pc = "open"
  BY <1>2 DEF ProcessState
<1>5. ProcOK(q, archived)
  BY <1>2, <1>4 DEF LoadBootstrap, ProcOK, InSession, Unbuffered
<1>6. faults' \in Nat
  BY DEF LoadBootstrap, IInv, TypeOK
<1> QED BY <1>1, <1>3, <1>5, <1>6, LocalStep DEF LoadBootstrap

(* Refusing to start without a checkpoint ends the process.                *)
LEMMA LoadNoCheckpointOK ==
  ASSUME IInv, NEW c \in Collectors, LoadNoCheckpoint(c)
  PROVE  IInv'
<1> DEFINE p == col[c]
           q == [p EXCEPT !.pc = "release", !.code = "fatal"]
<1>1. p \in ProcessState /\ ProcOK(p, archived)
  BY DEF IInv, TypeOK
<1>2. q \in ProcessState
  BY <1>1 DEF LoadNoCheckpoint, ProcessState, PC, Cont
<1>3. /\ q.committed = p.committed /\ q.base = p.base /\ q.pos = p.pos
      /\ q.buffer = p.buffer /\ q.todo = p.todo /\ q.cont = p.cont /\ q.pc = "release"
  BY <1>1 DEF ProcessState
<1>4. ProcOK(q, archived)
  BY <1>1, <1>3 DEF LoadNoCheckpoint, ProcOK, InSession, Unbuffered
<1>5. faults' \in Nat
  BY FaultsLeft DEF LoadNoCheckpoint, NoFault
<1> QED BY <1>2, <1>4, <1>5, LocalStep DEF LoadNoCheckpoint, EndWith, storeVars

(* A checkpoint that cannot be read ends the process.                      *)
LEMMA LoadFailsOK ==
  ASSUME IInv, NEW c \in Collectors, LoadFails(c)
  PROVE  IInv'
<1> DEFINE p == col[c]
           q == [p EXCEPT !.pc = "release", !.code = IF p.stop THEN "ok" ELSE "fatal"]
<1>1. p \in ProcessState /\ ProcOK(p, archived)
  BY DEF IInv, TypeOK
<1>2. q \in ProcessState
  BY <1>1, ZenonT(40) DEF LoadFails, ProcessState, PC, Cont
<1>3. /\ q.committed = p.committed /\ q.base = p.base /\ q.pos = p.pos
      /\ q.buffer = p.buffer /\ q.todo = p.todo /\ q.cont = p.cont /\ q.pc = "release"
  BY <1>1 DEF ProcessState
<1>4. ProcOK(q, archived)
  BY <1>1, <1>3 DEF LoadFails, ProcOK, InSession, Unbuffered
<1>5. faults' \in Nat
  BY FaultsLeft DEF LoadFails, NoFault
<1> QED BY <1>2, <1>4, <1>5, LocalStep DEF LoadFails, EndWith, storeVars

(* Releasing the lease leaves checkpoint and archive alone.                *)
LEMMA ReleaseOK ==
  ASSUME IInv, NEW c \in Collectors, Release(c)
  PROVE  IInv'
<1>1. col[c].code \in {"none", "ok", "fatal", "crash"}
  BY DEF IInv, TypeOK, ProcessState
<1>2. StoreTypeOK' /\ StoreOK'
  BY LeaseStep DEF Release, ReleaseScript, IInv, TypeOK, StoreTypeOK, Owners, NoOwner
<1>3. archived' = archived /\ archived' \subseteq ReplayId /\ faults' \in Nat
  BY FaultsLeft DEF Release, IInv, TypeOK
<1> QED BY <1>1, <1>2, <1>3, DownOK, ProcessStep DEF Release

(* The lease of a process that is gone runs out.                           *)
LEMMA LeaseLapsesOK == ASSUME IInv, LeaseLapses PROVE IInv'
<1>1. StoreTypeOK' /\ StoreOK'
  BY LeaseStep DEF LeaseLapses, Owners, NoOwner
<1> QED BY <1>1 DEF LeaseLapses, IInv, TypeOK, topicVars

(* The lease of a live process runs out under it.                          *)
LEMMA LeaseExpiresOK == ASSUME IInv, LeaseExpires PROVE IInv'
<1>1. StoreTypeOK' /\ StoreOK'
  BY LeaseStep DEF LeaseExpires, Owners, NoOwner
<1> QED BY <1>1, FaultsLeft DEF LeaseExpires, IInv, TypeOK, topicVars

(* The renewal goroutine learns that the lease is lost.                    *)
LEMMA RenewLostOK ==
  ASSUME IInv, NEW c \in Collectors, RenewLost(c)
  PROVE  IInv'
<1> DEFINE p == col[c]
           q == [p EXCEPT !.renew = "failed"]
<1>1. p \in ProcessState /\ ProcOK(p, archived)
  BY DEF IInv, TypeOK
<1>2. q \in ProcessState
  BY <1>1 DEF RenewLost, ProcessState, PC, Cont
<1>3. /\ q.committed = p.committed /\ q.base = p.base /\ q.pos = p.pos
      /\ q.buffer = p.buffer /\ q.todo = p.todo /\ q.cont = p.cont /\ q.pc = p.pc /\ q.err = p.err
  BY <1>1 DEF ProcessState
<1>4. ProcOK(q, archived)
  BY <1>1, <1>3 DEF RenewLost, ProcOK, InSession, Unbuffered
<1>5. faults' \in Nat
  BY FaultsLeft DEF RenewLost, NoFault
<1> QED BY <1>2, <1>4, <1>5, LocalStep DEF RenewLost, EndWith, storeVars

(* The renewal goroutine gives up on Redis.                                *)
LEMMA RenewTimesOutOK ==
  ASSUME IInv, NEW c \in Collectors, RenewTimesOut(c)
  PROVE  IInv'
<1> DEFINE p == col[c]
           q == [p EXCEPT !.renew = "failed"]
<1>1. p \in ProcessState /\ ProcOK(p, archived)
  BY DEF IInv, TypeOK
<1>2. q \in ProcessState
  BY <1>1 DEF RenewTimesOut, ProcessState, PC, Cont
<1>3. /\ q.committed = p.committed /\ q.base = p.base /\ q.pos = p.pos
      /\ q.buffer = p.buffer /\ q.todo = p.todo /\ q.cont = p.cont /\ q.pc = p.pc /\ q.err = p.err
  BY <1>1 DEF ProcessState
<1>4. ProcOK(q, archived)
  BY <1>1, <1>3 DEF RenewTimesOut, ProcOK, InSession, Unbuffered
<1>5. faults' \in Nat
  BY FaultsLeft DEF RenewTimesOut, NoFault
<1> QED BY <1>2, <1>4, <1>5, LocalStep DEF RenewTimesOut, EndWith, storeVars
(* Opening a session.                                                      *)

(* A session resumed at a replay ID continues where consumption ended.     *)
LEMMA OpenCustomOK ==
  ASSUME IInv, NEW c \in Collectors, OpenCustom(c)
  PROVE  IInv'
<1> DEFINE p == col[c]
           q == [p EXCEPT !.pc = "select", !.pos = p.committed]
<1>1. p \in ProcessState /\ ProcOK(p, archived)
  BY DEF IInv, TypeOK
<1>2. p.committed \in Nat
  BY <1>1, FieldTypes DEF OpenCustom
<1>3. q \in ProcessState
  BY <1>1, <1>2 DEF ProcessState, PC, ReplayId
<1>4. /\ q.committed = p.committed /\ q.base = p.base /\ q.pos = p.committed
      /\ q.buffer = p.buffer /\ q.pc = "select"
  BY <1>1 DEF ProcessState
<1>5. ProcOK(q, archived)
  BY <1>1, <1>4 DEF OpenCustom, ProcOK, InSession, Unbuffered
<1>6. faults' \in Nat
  BY DEF OpenCustom, IInv, TypeOK
<1> QED BY <1>3, <1>5, <1>6, LocalStep DEF OpenCustom

(* A rejected replay ID ends the process.                                  *)
LEMMA OpenRejectedOK ==
  ASSUME IInv, NEW c \in Collectors, OpenRejected(c)
  PROVE  IInv'
<1>1. col[c] \in ProcessState /\ ProcOK(col[c], archived)
  BY DEF IInv, TypeOK
<1>2. faults' \in Nat
  BY FaultsLeft DEF OpenRejected, NoFault
<1> QED BY <1>1, <1>2, EndedOK, LocalStep DEF OpenRejected, EndWith, InSession

(* A session that starts from a preset fixes where the range to archive    *)
(* begins.                                                                 *)
LEMMA OpenPresetOK ==
  ASSUME IInv, NEW c \in Collectors, OpenPreset(c)
  PROVE  IInv'
<1> DEFINE p == col[c]
           start == IF p.preset = "EARLIEST" THEN StartEarliest ELSE StartLatest
           q == [p EXCEPT !.pc = "select", !.base = start, !.pos = start]
<1>1. p \in ProcessState /\ ProcOK(p, archived)
  BY DEF IInv, TypeOK
<1>2. start \in Nat /\ EventsAfter(start, start) = {}
  <2>1. start \in Nat
    BY DEF IInv, TypeOK, StartEarliest, StartLatest
  <2> QED BY <2>1, EventsEmpty
<1>3. q \in ProcessState
  BY <1>1, <1>2 DEF ProcessState, PC, ReplayId
<1>4. /\ q.committed = p.committed /\ q.base = start /\ q.pos = start
      /\ q.buffer = p.buffer /\ q.pc = "select"
  BY <1>1 DEF ProcessState
<1>5. ProcOK(q, archived)
  BY <1>1, <1>2, <1>4 DEF OpenPreset, ProcOK, InSession, Unbuffered
<1>6. faults' \in Nat
  BY DEF OpenPreset, IInv, TypeOK
<1> QED BY <1>3, <1>5, <1>6, LocalStep DEF OpenPreset

(* A stream that cannot be opened ends the session.                        *)
LEMMA OpenFailsOK ==
  ASSUME IInv, NEW c \in Collectors, OpenFails(c)
  PROVE  IInv'
<1>a. PICK err \in {"retry", "fatal"} :
         /\ Fault \/ (err = "retry" /\ col[c].stop /\ NoFault)
         /\ Become(c, [col[c] EXCEPT !.pc = "after", !.err = err])
  BY DEF OpenFails
<1> DEFINE p == col[c]
           q == [p EXCEPT !.pc = "after", !.err = err]
<1>1. p \in ProcessState /\ ProcOK(p, archived)
  BY DEF IInv, TypeOK
<1>2. q \in ProcessState
  BY <1>1 DEF ProcessState, PC
<1>3. /\ q.committed = p.committed /\ q.base = p.base /\ q.pos = p.pos
      /\ q.buffer = p.buffer /\ q.pc = "after"
  BY <1>1 DEF ProcessState
<1>4. ProcOK(q, archived)
  BY <1>1, <1>3 DEF OpenFails, ProcOK, InSession, Unbuffered
<1>5. faults' \in Nat
  BY <1>a, FaultsLeft
<1> QED BY <1>a, <1>2, <1>4, <1>5, LocalStep DEF OpenFails

(* The select loop.                                                        *)

(* A cancelled context ends the session with its buffer kept.              *)
LEMMA SelectDoneOK ==
  ASSUME IInv, NEW c \in Collectors, SelectDone(c)
  PROVE  IInv'
<1>1. col[c] \in ProcessState /\ ProcOK(col[c], archived)
  BY DEF IInv, TypeOK
<1>2. faults' \in Nat
  BY FaultsLeft DEF SelectDone, NoFault
<1> QED BY <1>1, <1>2, EndedOK, LocalStep DEF SelectDone, EndWith, InSession

(* A lost lease ends the session.                                          *)
LEMMA SelectRenewErrOK ==
  ASSUME IInv, NEW c \in Collectors, SelectRenewErr(c)
  PROVE  IInv'
<1>1. col[c] \in ProcessState /\ ProcOK(col[c], archived)
  BY DEF IInv, TypeOK
<1>2. faults' \in Nat
  BY FaultsLeft DEF SelectRenewErr, NoFault
<1> QED BY <1>1, <1>2, EndedOK, LocalStep DEF SelectRenewErr, EndWith, InSession

(* A broken stream ends the session with its buffer kept.                  *)
LEMMA StreamEndsOK ==
  ASSUME IInv, NEW c \in Collectors, StreamEnds(c)
  PROVE  IInv'
<1>1. col[c] \in ProcessState /\ ProcOK(col[c], archived) /\ InSession(col[c])
  BY DEF StreamEnds, IInv, TypeOK, InSession
<1>2. PICK err \in {"retry", "fatal"} : EndWith(c, err)
  BY DEF StreamEnds
<1>3. faults' \in Nat
  BY FaultsLeft DEF StreamEnds
<1> QED BY <1>1, <1>2, <1>3, EndedOK, LocalStep DEF StreamEnds, EndWith

(* The flush timer turns the buffer into groups to be written.             *)
LEMMA FlushTimerOK ==
  ASSUME IInv, NEW c \in Collectors, FlushTimer(c)
  PROVE  IInv'
<1> DEFINE p == col[c]
           q == StartFlush(c, p.buffer, "select")
<1>1. p \in ProcessState /\ ProcOK(p, archived)
  BY DEF IInv, TypeOK
<1>2. q \in ProcessState
  BY <1>1, ZenonT(40) DEF StartFlush, ProcessState, PC, Cont
<1>3. /\ q.committed = p.committed /\ q.base = p.base /\ q.pos = p.pos
      /\ q.buffer = p.buffer /\ q.todo = p.buffer /\ q.pc = "write" /\ q.cont = "select"
  BY <1>1 DEF StartFlush, ProcessState
<1>4. /\ p.pos \in p.buffer /\ \A e \in p.buffer : e <= p.pos
      /\ EventsAfter(p.base, p.pos) \subseteq archived \cup p.buffer
  BY <1>1 DEF FlushTimer, ProcOK, InSession
<1>5. ProcOK(q, archived)
  BY <1>1, <1>3, <1>4, FlushStartedOK
<1>6. faults' \in Nat
  BY DEF FlushTimer, IInv, TypeOK
<1> QED BY <1>2, <1>5, <1>6, LocalStep DEF FlushTimer

(* A response is received, none of its events is consumed yet.             *)
LEMMA ReceiveOK ==
  ASSUME IInv, NEW c \in Collectors, Receive(c)
  PROVE  IInv'
<1>a. PICK e \in EventsAfter(col[c].pos, head) :
         Become(c, [col[c] EXCEPT !.pc = "decode", !.respEnd = e])
  BY DEF Receive
<1> DEFINE p == col[c]
           q == [p EXCEPT !.pc = "decode", !.respEnd = e]
<1>1. p \in ProcessState /\ ProcOK(p, archived)
  BY DEF IInv, TypeOK
<1>b. e \in Nat
  BY <1>1, FieldTypes, EventsBounds DEF IInv, TypeOK
<1>2. q \in ProcessState
  BY <1>1, <1>b DEF ProcessState, PC, ReplayId
<1>3. /\ q.committed = p.committed /\ q.base = p.base /\ q.pos = p.pos
      /\ q.buffer = p.buffer /\ q.pc = "decode"
  BY <1>1 DEF ProcessState
<1>4. ProcOK(q, archived)
  BY <1>1, <1>3 DEF Receive, ProcOK, InSession, Unbuffered
<1>5. faults' \in Nat
  BY DEF Receive, IInv, TypeOK
<1> QED BY <1>a, <1>2, <1>4, <1>5, LocalStep DEF Receive

(* A keepalive moves consumption on only over a range without events.      *)
LEMMA KeepaliveOK ==
  ASSUME IInv, NEW c \in Collectors, Keepalive(c)
  PROVE  IInv'
<1> DEFINE p == col[c]
           q == [p EXCEPT !.pc = "commit", !.pos = head, !.cont = "keepalive"]
<1>1. p \in ProcessState /\ ProcOK(p, archived)
  BY DEF IInv, TypeOK
<1>2. head \in Nat /\ p.base \in Nat /\ p.pos \in Nat
  BY <1>1, FieldTypes DEF IInv, TypeOK
<1>3. q \in ProcessState
  BY <1>1, <1>2, ZenonT(40) DEF ProcessState, PC, Cont, ReplayId
<1>4. EventsAfter(p.base, head) \subseteq EventsAfter(p.base, p.pos)
  BY <1>2, EventsSplit DEF Keepalive
<1>5. /\ q.committed = p.committed /\ q.base = p.base /\ q.pos = head
      /\ q.buffer = p.buffer /\ q.pc = "commit" /\ q.cont = "keepalive"
  BY <1>1 DEF ProcessState
<1>6. ProcOK(q, archived)
  BY <1>1, <1>4, <1>5 DEF Keepalive, ProcOK, InSession, Unbuffered
<1>7. faults' \in Nat
  BY DEF Keepalive, IInv, TypeOK
<1> QED BY <1>3, <1>6, <1>7, LocalStep DEF Keepalive

(* Decoding a response.                                                    *)

(* A decoded event is consumed and buffered in the same step.              *)
LEMMA DecodeOK ==
  ASSUME IInv, NEW c \in Collectors, Decode(c)
  PROVE  IInv'
<1>a. PICK e \in 1..head : IsNextEvent(c, e) /\ Become(c, Appended(c, e, MaxEvents))
  BY DEF Decode
<1> DEFINE p == col[c]
           b == p.buffer \cup {e}
           q == [p EXCEPT !.buffer = b, !.pos = e]
           r == [StartFlush(c, b, "decode") EXCEPT !.pos = e]
<1>1. p \in ProcessState /\ ProcOK(p, archived)
  BY DEF IInv, TypeOK
<1>2. p.pos \in Nat /\ p.base \in Nat /\ p.respEnd \in Nat /\ p.buffer \subseteq Nat /\ e \in Nat
  BY <1>1, FieldTypes DEF IInv, TypeOK
<1>3. EventsAfter(p.base, e) \subseteq EventsAfter(p.base, p.pos) \cup {e}
  BY <1>a, <1>2, EventsSplit DEF IsNextEvent
<1>4. e > p.pos
  BY <1>a, <1>2, EventsBounds DEF IsNextEvent
<1>5. \A f \in b : f <= e
  <2>1. \A f \in p.buffer : f \in Nat /\ f <= p.pos
    BY <1>1, <1>2 DEF ProcOK
  <2> QED BY <1>2, <1>4, <2>1
<1>6. EventsAfter(p.base, e) \subseteq archived \cup b
  BY <1>1, <1>3 DEF Decode, ProcOK, InSession
<1>7. q \in ProcessState /\ r \in ProcessState
  BY <1>1, <1>2, ZenonT(40) DEF StartFlush, ProcessState, PC, Cont, ReplayId
<1>8. /\ q.committed = p.committed /\ q.base = p.base /\ q.pos = e
      /\ q.buffer = b /\ q.pc = p.pc
      /\ r.committed = p.committed /\ r.base = p.base /\ r.pos = e
      /\ r.buffer = b /\ r.todo = b /\ r.pc = "write" /\ r.cont = "decode"
  BY <1>1 DEF StartFlush, ProcessState
<1>9. ProcOK(q, archived)
  BY <1>1, <1>5, <1>6, <1>8 DEF Decode, ProcOK, InSession, Unbuffered
<1>10. ProcOK(r, archived)
  <2>1. r.pos \in r.buffer /\ r.todo = r.buffer /\ r.cont # "keepalive"
    BY <1>8
  <2>2. \A f \in r.buffer : f <= r.pos
    BY <1>5, <1>8
  <2>3. EventsAfter(r.base, r.pos) \subseteq archived \cup r.buffer
    BY <1>6, <1>8
  <2> HIDE DEF r
  <2> QED BY <1>1, <1>8, <2>1, <2>2, <2>3, FlushStartedOK
<1>11. Appended(c, e, MaxEvents) \in {q, r}
  BY DEF Appended
<1>12. faults' \in Nat
  BY DEF Decode, IInv, TypeOK
<1> QED BY <1>a, <1>7, <1>9, <1>10, <1>11, <1>12, LocalStep DEF Decode

(* An event whose schema cannot be had is not consumed.                    *)
LEMMA DecodeSchemaFailsOK ==
  ASSUME IInv, NEW c \in Collectors, DecodeSchemaFails(c)
  PROVE  IInv'
<1>1. col[c] \in ProcessState /\ ProcOK(col[c], archived)
  BY DEF IInv, TypeOK
<1>2. faults' \in Nat
  BY FaultsLeft DEF DecodeSchemaFails, NoFault
<1> QED BY <1>1, <1>2, EndedOK, LocalStep DEF DecodeSchemaFails, EndWith, InSession

(* An event that cannot be decoded is not consumed.                        *)
LEMMA DecodeFailsOK ==
  ASSUME IInv, NEW c \in Collectors, DecodeFails(c)
  PROVE  IInv'
<1>1. col[c] \in ProcessState /\ ProcOK(col[c], archived)
  BY DEF IInv, TypeOK
<1>2. faults' \in Nat
  BY FaultsLeft DEF DecodeFails, NoFault
<1> QED BY <1>1, <1>2, EndedOK, LocalStep DEF DecodeFails, EndWith, InSession

(* After a response all of its events are consumed and buffered or         *)
(* archived.                                                               *)
LEMMA ResponseDoneOK ==
  ASSUME IInv, NEW c \in Collectors, ResponseDone(c)
  PROVE  IInv'
<1> DEFINE p == col[c]
           q == [p EXCEPT !.pc = "select", !.respEnd = 0]
           r == [StartFlush(c, p.buffer, "select") EXCEPT !.respEnd = 0]
<1>1. p \in ProcessState /\ ProcOK(p, archived)
  BY DEF IInv, TypeOK
<1>2. q \in ProcessState /\ r \in ProcessState
  BY <1>1, ZenonT(40) DEF StartFlush, ProcessState, PC, Cont, ReplayId
<1>3. /\ q.committed = p.committed /\ q.base = p.base /\ q.pos = p.pos
      /\ q.buffer = p.buffer /\ q.pc = "select"
      /\ r.committed = p.committed /\ r.base = p.base /\ r.pos = p.pos
      /\ r.buffer = p.buffer /\ r.todo = p.buffer /\ r.pc = "write" /\ r.cont = "select"
  BY <1>1 DEF StartFlush, ProcessState
<1>4. ProcOK(q, archived)
  BY <1>1, <1>3 DEF ResponseDone, ProcOK, InSession, Unbuffered
<1>5. p.buffer # {} => ProcOK(r, archived)
  <2>1. /\ p.buffer # {} => p.pos \in p.buffer /\ \A e \in p.buffer : e <= p.pos
        /\ EventsAfter(p.base, p.pos) \subseteq archived \cup p.buffer
    BY <1>1 DEF ResponseDone, ProcOK, InSession
  <2> QED BY <1>1, <1>3, <2>1, FlushStartedOK
<1>6. faults' \in Nat
  BY DEF ResponseDone, IInv, TypeOK
<1>7. CASE p.committed = Nil /\ p.buffer # {}
  BY <1>2, <1>5, <1>6, <1>7, LocalStep DEF ResponseDone
<1>8. CASE ~(p.committed = Nil /\ p.buffer # {})
  BY <1>2, <1>4, <1>6, <1>8, LocalStep DEF ResponseDone
<1> QED BY <1>7, <1>8
(* The flush.                                                              *)

(* Archiving a group of the events still to be written.                    *)
LEMMA ArchiveGrows ==
  ASSUME IInv, NEW c \in Collectors,
         archived' \in {archived, archived \cup Group(col[c].todo)},
         UNCHANGED storeVars
  PROVE  /\ archived \subseteq archived' /\ archived' \subseteq ReplayId
         /\ StoreTypeOK' /\ StoreOK'
<1>1. col[c].todo \subseteq ReplayId
  BY DEF IInv, TypeOK, ProcessState
<1>2. archived \subseteq archived' /\ archived' \subseteq ReplayId
  BY <1>1 DEF Group, IInv, TypeOK
<1> QED BY <1>2, StoreMonotone DEF IInv, TypeOK, StoreTypeOK, storeVars

(* A group that is written moves from the buffer to the archive.           *)
LEMMA WriteOK ==
  ASSUME IInv, NEW c \in Collectors, Write(c)
  PROVE  IInv'
<1> DEFINE p == col[c]
           group == Group(p.todo)
           rest == p.todo \ group
           q == [p EXCEPT !.todo = rest, !.attempt = 1,
                          !.pc = IF rest = {} THEN "commit" ELSE "write"]
<1>1. p \in ProcessState /\ ProcOK(p, archived)
  BY DEF IInv, TypeOK
<1>2. /\ archived \subseteq archived' /\ archived' \subseteq ReplayId
      /\ StoreTypeOK' /\ StoreOK'
  BY ArchiveGrows DEF Write
<1>3. q \in ProcessState
  BY <1>1 DEF ProcessState, PC
<1>4. /\ q.committed = p.committed /\ q.base = p.base /\ q.pos = p.pos
      /\ q.buffer = p.buffer /\ q.todo = rest /\ q.cont = p.cont
      /\ q.pc = IF rest = {} THEN "commit" ELSE "write"
  BY <1>1 DEF ProcessState
<1>5. /\ p.buffer # {} /\ p.cont # "keepalive"
      /\ p.buffer \ rest \subseteq archived'
  BY <1>1 DEF Write, ProcOK
<1>6. ProcOK(p, archived')
  BY <1>1, <1>2, ProcMonotone
<1>7. ProcOK(q, archived')
  <2>1. CASE rest = {}
    BY <1>4, <1>5, <1>6, <2>1 DEF Write, ProcOK, InSession, Unbuffered
  <2>2. CASE rest # {}
    BY <1>4, <1>5, <1>6, <2>2 DEF Write, ProcOK, InSession, Unbuffered
  <2> QED BY <2>1, <2>2
<1>8. faults' \in Nat
  BY DEF Write, IInv, TypeOK
<1> QED BY <1>2, <1>3, <1>7, <1>8, ProcessStep DEF Write

(* A failed write archives nothing or something, and ends the process.     *)
LEMMA WriteFailsOK ==
  ASSUME IInv, NEW c \in Collectors, WriteFails(c)
  PROVE  IInv'
<1> DEFINE p == col[c]
           q == [p EXCEPT !.attempt = p.attempt + 1]
<1>1. p \in ProcessState /\ ProcOK(p, archived)
  BY DEF IInv, TypeOK
<1>2. /\ archived \subseteq archived' /\ archived' \subseteq ReplayId
      /\ StoreTypeOK' /\ StoreOK'
  BY ArchiveGrows DEF WriteFails
<1>3. faults' \in Nat
  BY FaultsLeft DEF WriteFails
<1>4. ProcOK(p, archived')
  BY <1>1, <1>2, ProcMonotone
<1>5. CASE Become(c, q)
  <2>1. q \in ProcessState
    <3>1. \A n \in Nat : [p EXCEPT !.attempt = n] \in ProcessState
      BY <1>1 DEF ProcessState
    <3>2. p.attempt + 1 \in Nat
      BY <1>1, FieldTypes
    <3> QED BY <3>1, <3>2
  <2>2. /\ q.committed = p.committed /\ q.base = p.base /\ q.pos = p.pos
        /\ q.buffer = p.buffer /\ q.todo = p.todo /\ q.cont = p.cont /\ q.pc = p.pc
        /\ q.err = p.err
    BY <1>1 DEF ProcessState
  <2>3. ProcOK(q, archived')
    BY <1>4, <2>2 DEF ProcOK, InSession
  <2> QED BY <1>2, <1>3, <1>5, <2>1, <2>3, ProcessStep DEF WriteFails
<1>6. CASE FlushFails(c)
  BY <1>1, <1>2, <1>3, <1>4, <1>6, FlushFailedOK, ProcessStep DEF WriteFails, FlushFails
<1> QED BY <1>5, <1>6 DEF WriteFails

(* A commit stores the end of a range that is archived.                    *)
LEMMA CommitOkOK ==
  ASSUME IInv, NEW c \in Collectors, CommitOk(c)
  PROVE  IInv'
<1> DEFINE p == col[c]
           v == CallOf(c).replay
           q == [p EXCEPT !.committed = v, !.buffer = {}, !.attempt = 0, !.cont = "select",
                          !.pc = CASE p.cont = "decode" -> "decode"
                                   [] p.cont = "end"    -> "after"
                                   [] OTHER             -> "select"]
<1>1. p \in ProcessState /\ ProcOK(p, archived)
  BY DEF IInv, TypeOK
<1>2. /\ CallOf(c) \in CommitCall /\ v = p.pos
      /\ Covered(CallOf(c).base, v) /\ CallOf(c).base = p.base
  BY CallCovered DEF CommitOk
<1>3. p.pos \in Nat /\ p.cont \in Cont
  BY <1>1, FieldTypes
<1>4. q \in ProcessState
  BY <1>1, <1>2, <1>3, ZenonT(40) DEF ProcessState, PC, Cont, ReplayId
<1>5. /\ q.committed = p.pos /\ q.base = p.base /\ q.pos = p.pos
      /\ q.buffer = {} /\ q.pc \in {"decode", "after", "select"}
  BY <1>1, <1>2, <1>3 DEF ProcessState, Cont
<1>6. ProcOK(q, archived)
  BY <1>2, <1>5 DEF ProcOK, InSession, Unbuffered, Covered
<1>7. StoreTypeOK' /\ StoreOK'
  BY <1>2, CommitKeepsStore DEF CommitOk
<1>8. archived' = archived /\ archived' \subseteq ReplayId /\ faults' \in Nat
  BY DEF CommitOk, IInv, TypeOK
<1> QED BY <1>4, <1>6, <1>7, <1>8, ProcessStep DEF CommitOk

(* commit returns an error, whatever became of the store.                  *)
LEMMA CommitFailsOK ==
  ASSUME IInv, NEW c \in Collectors, col[c].pc = "commit", CommitFails(c),
         StoreTypeOK', StoreOK', faults' \in Nat, archived' = archived,
         UNCHANGED <<topicVars, op, resets>>
  PROVE  IInv'
<1>1. col[c] \in ProcessState /\ ProcOK(col[c], archived) /\ InSession(col[c])
  BY DEF IInv, TypeOK, InSession
<1>2. archived' \subseteq ReplayId
  BY DEF IInv, TypeOK
<1>3. CASE col[c].cont = "keepalive"
  BY <1>1, <1>2, <1>3, EndedOK, ProcessStep DEF CommitFails, EndWith
<1>4. CASE col[c].cont # "keepalive"
  BY <1>1, <1>2, <1>4, FlushFailedOK, ProcessStep DEF CommitFails, FlushFails
<1> QED BY <1>3, <1>4

(* A commit without the lease stores nothing.                              *)
LEMMA CommitLeaseLostOK ==
  ASSUME IInv, NEW c \in Collectors, CommitLeaseLost(c)
  PROVE  IInv'
<1>1. StoreTypeOK' /\ StoreOK'
  BY StoreMonotone DEF CommitLeaseLost, IInv, TypeOK, StoreTypeOK, storeVars
<1>2. faults' \in Nat
  BY DEF CommitLeaseLost, IInv, TypeOK
<1> QED BY <1>1, <1>2, CommitFailsOK DEF CommitLeaseLost

(* A commit that fails may be applied, now or later: the call is covered.  *)
LEMMA CommitErrorsOK ==
  ASSUME IInv, NEW c \in Collectors, CommitErrors(c)
  PROVE  IInv'
<1>1. CallOf(c) \in CommitCall /\ Covered(CallOf(c).base, CallOf(c).replay)
  BY CallCovered DEF CommitErrors
<1>2. faults' \in Nat /\ archived' = archived
  BY FaultsLeft DEF CommitErrors
<1>3. StoreTypeOK' /\ StoreOK'
  <2>1. CASE UNCHANGED <<checkpoint, floor, inflight>>
    BY <1>2, <2>1, StoreMonotone DEF CommitErrors, IInv, TypeOK, StoreTypeOK
  <2>2. CASE CommitScript(CallOf(c)) /\ UNCHANGED inflight
    BY <1>1, <1>2, <2>2, CommitKeepsStore DEF CommitErrors
  <2>3. CASE inflight' = inflight \cup {CallOf(c)} /\ UNCHANGED <<checkpoint, floor>>
    <3>1. StoreTypeOK'
      BY <1>1, <2>3 DEF CommitErrors, IInv, TypeOK, StoreTypeOK
    <3>2. StoreOK'
      BY <1>1, <1>2, <2>3 DEF IInv, StoreOK, Covered
    <3> QED BY <3>1, <3>2
  <2> QED BY <2>1, <2>2, <2>3 DEF CommitErrors
<1>4. CASE UNCHANGED col
  BY <1>2, <1>3, <1>4 DEF CommitErrors, IInv, TypeOK, topicVars
<1>5. CASE CommitFails(c)
  BY <1>2, <1>3, <1>5, CommitFailsOK DEF CommitErrors
<1> QED BY <1>4, <1>5 DEF CommitErrors

(* A keepalive's commit that is interrupted leaves the session to end.     *)
LEMMA KeepaliveInterruptedOK ==
  ASSUME IInv, NEW c \in Collectors, KeepaliveInterrupted(c)
  PROVE  IInv'
<1>1. CallOf(c) \in CommitCall /\ Covered(CallOf(c).base, CallOf(c).replay)
  BY CallCovered DEF KeepaliveInterrupted
<1>2. faults' \in Nat /\ archived' = archived
  BY DEF KeepaliveInterrupted, IInv, TypeOK
<1>3. StoreTypeOK' /\ StoreOK'
  <2>1. CASE UNCHANGED <<checkpoint, floor>>
    BY <1>2, <2>1, StoreMonotone DEF KeepaliveInterrupted, IInv, TypeOK, StoreTypeOK
  <2>2. CASE CommitScript(CallOf(c))
    BY <1>1, <1>2, <2>2, CommitKeepsStore DEF KeepaliveInterrupted
  <2> QED BY <2>1, <2>2 DEF KeepaliveInterrupted
<1> QED BY <1>2, <1>3, CommitFailsOK DEF KeepaliveInterrupted

(* A commit that arrives late stores a position that was covered when it   *)
(* was sent.                                                               *)
LEMMA CommitArrivesLateOK == ASSUME IInv, CommitArrivesLate PROVE IInv'
<1>1. PICK call \in inflight : LateCommit(call)
  BY DEF CommitArrivesLate
<1>2. call \in CommitCall /\ Covered(call.base, call.replay)
  BY DEF IInv, TypeOK, StoreTypeOK, StoreOK
<1>3. StoreTypeOK' /\ StoreOK'
  BY <1>1, <1>2, CommitKeepsStore DEF LateCommit, CommitArrivesLate
<1> QED BY <1>3 DEF CommitArrivesLate, IInv, TypeOK, topicVars

(* The end of a session, and Run.                                          *)

(* The end of a session flushes the buffer or leaves it empty.             *)
LEMMA EndSessionOK ==
  ASSUME IInv, NEW c \in Collectors, EndSession(c)
  PROVE  IInv'
<1> DEFINE p == col[c]
           q == [[p EXCEPT !.pc = "after", !.buffer = {}] EXCEPT !.respEnd = 0]
           r == [StartFlush(c, p.buffer, "end") EXCEPT !.respEnd = 0]
<1>1. p \in ProcessState /\ ProcOK(p, archived)
  BY DEF IInv, TypeOK
<1>2. q \in ProcessState /\ r \in ProcessState
  BY <1>1, ZenonT(40) DEF StartFlush, ProcessState, PC, Cont, ReplayId
<1>3. /\ q.committed = p.committed /\ q.base = p.base /\ q.buffer = {} /\ q.pc = "after"
      /\ r.committed = p.committed /\ r.base = p.base /\ r.pos = p.pos
      /\ r.buffer = p.buffer /\ r.todo = p.buffer /\ r.pc = "write" /\ r.cont = "end"
  BY <1>1 DEF StartFlush, ProcessState
<1>4. ProcOK(q, archived)
  BY <1>1, <1>3 DEF ProcOK, InSession
<1>5. p.buffer # {} /\ p.err # "fatal" => ProcOK(r, archived)
  <2>1. p.buffer # {} /\ p.err # "fatal" =>
           /\ p.pos \in p.buffer /\ \A e \in p.buffer : e <= p.pos
           /\ EventsAfter(p.base, p.pos) \subseteq archived \cup p.buffer
    BY <1>1 DEF EndSession, ProcOK, InSession
  <2> QED BY <1>1, <1>3, <2>1, FlushStartedOK
<1>6. faults' \in Nat
  BY DEF EndSession, IInv, TypeOK
<1>7. CASE p.buffer = {} \/ p.err = "fatal"
  BY <1>2, <1>4, <1>6, <1>7, LocalStep DEF EndSession
<1>8. CASE ~(p.buffer = {} \/ p.err = "fatal")
  BY <1>2, <1>5, <1>6, <1>8, LocalStep DEF EndSession
<1> QED BY <1>7, <1>8

(* Run goes on to reconnect, or stops.                                     *)
LEMMA AfterSessionOK ==
  ASSUME IInv, NEW c \in Collectors, AfterSession(c)
  PROVE  IInv'
<1> DEFINE p == col[c]
           exits == p.stop \/ p.err = "fatal"
           q == [p EXCEPT !.pc = IF exits THEN "release" ELSE "backoff",
                          !.code = IF p.err = "fatal" THEN "fatal"
                                   ELSE IF exits THEN "ok" ELSE "none",
                          !.err = "none", !.cont = "select", !.buffer = {}]
<1>1. p \in ProcessState /\ ProcOK(p, archived)
  BY DEF IInv, TypeOK
<1>2. q \in ProcessState
  <2>1. \A x \in {"release", "backoff"}, k \in {"fatal", "ok", "none"} :
           [p EXCEPT !.pc = x, !.code = k, !.err = "none", !.cont = "select", !.buffer = {}]
              \in ProcessState
    BY <1>1, ZenonT(40) DEF ProcessState, PC, Cont
  <2> QED BY <2>1
<1>3. /\ q.committed = p.committed /\ q.base = p.base /\ q.buffer = {}
      /\ q.pc \in {"release", "backoff"}
  BY <1>1 DEF ProcessState
<1>4. ProcOK(q, archived)
  BY <1>1, <1>3 DEF ProcOK, InSession
<1>5. faults' \in Nat
  BY DEF AfterSession, IInv, TypeOK
<1> QED BY <1>2, <1>4, <1>5, LocalStep DEF AfterSession

(* Waiting before a reconnect changes nothing that was consumed.           *)
LEMMA BackoffOK ==
  ASSUME IInv, NEW c \in Collectors, Backoff(c)
  PROVE  IInv'
<1> DEFINE p == col[c]
           q == [p EXCEPT !.pc = "open"]
           r == [p EXCEPT !.pc = "release", !.code = "ok"]
<1>1. p \in ProcessState /\ ProcOK(p, archived)
  BY DEF IInv, TypeOK
<1>2. q \in ProcessState /\ r \in ProcessState
  BY <1>1, ZenonT(40) DEF ProcessState, PC
<1>3. /\ q.committed = p.committed /\ q.base = p.base /\ q.buffer = p.buffer /\ q.pc = "open"
      /\ r.committed = p.committed /\ r.base = p.base /\ r.buffer = p.buffer /\ r.pc = "release"
  BY <1>1 DEF ProcessState
<1>4. ProcOK(q, archived) /\ ProcOK(r, archived)
  BY <1>1, <1>3 DEF Backoff, ProcOK, InSession, Unbuffered
<1>5. faults' \in Nat
  BY DEF Backoff, IInv, TypeOK
<1> QED BY <1>2, <1>4, <1>5, LocalStep DEF Backoff

(* The operator and the topic leave the processes and the archive alone.   *)
LEMMA OperatorOK == ASSUME IInv, OpAcquire \/ OpClear \/ OpRelease PROVE IInv'
<1>1. CASE OpAcquire
  <2>1. NewOwner \in Nat
    BY DEF NewOwner, IInv, TypeOK, StoreTypeOK
  <2>2. StoreTypeOK' /\ StoreOK'
    BY <1>1, <2>1, StoreMonotone DEF OpAcquire, SetNX, IInv, TypeOK, StoreTypeOK, Owners
  <2>3. op' \in OpState /\ resets' \in Nat
    BY <1>1, <2>1 DEF OpAcquire, OpState, Owners, IInv, TypeOK
  <2> QED BY <1>1, <2>2, <2>3 DEF OpAcquire, IInv, TypeOK, topicVars
<1>2. CASE OpClear
  <2>1. StoreTypeOK' /\ StoreOK'
    BY <1>2 DEF OpClear, ClearScript, IInv, TypeOK, StoreTypeOK, StoreOK, Covered
  <2>2. op' \in OpState /\ faults' \in Nat
    BY <1>2, FaultsLeft DEF OpClear, OpState, IInv, TypeOK
  <2> QED BY <1>2, <2>1, <2>2 DEF OpClear, IInv, TypeOK, topicVars
<1>3. CASE OpRelease
  <2>1. StoreTypeOK' /\ StoreOK'
    BY <1>3, LeaseStep DEF OpRelease, ReleaseScript, IInv, TypeOK, StoreTypeOK, Owners, NoOwner
  <2>2. op' \in OpState /\ faults' \in Nat
    BY <1>3, FaultsLeft DEF OpRelease, OpIdle, OpState, Owners, NoOwner
  <2> QED BY <1>3, <2>1, <2>2 DEF OpRelease, IInv, TypeOK, topicVars
<1> QED BY <1>1, <1>2, <1>3

(* Events that are published or expire are nobody's responsibility yet, or *)
(* no longer.                                                              *)
LEMMA EnvironmentOK == ASSUME IInv, Environment PROVE IInv'
<1>1. head' \in Nat /\ oldest' \in Nat \ {0}
  BY DEF Environment, Publish, Expire, IInv, TypeOK
<1>2. StoreTypeOK' /\ StoreOK'
  BY StoreMonotone DEF Environment, IInv, TypeOK, StoreTypeOK, storeVars
<1> QED BY <1>1, <1>2 DEF Environment, IInv, TypeOK

-----------------------------------------------------------------------------
(* The invariant is inductive.                                             *)
LEMMA Inductive == ASSUME IInv, [Next]_vars PROVE IInv'
<1>1. CASE UNCHANGED vars
  BY <1>1 DEF vars, topicVars, storeVars, IInv, TypeOK, StoreTypeOK, StoreOK, Covered
<1>2. CASE \/ Environment \/ LeaseLapses \/ LeaseExpires \/ CommitArrivesLate
           \/ OpAcquire \/ OpClear \/ OpRelease
  BY <1>2, EnvironmentOK, LeaseLapsesOK, LeaseExpiresOK, CommitArrivesLateOK, OperatorOK
<1>3. ASSUME NEW c \in Collectors, Start(c) \/ Keepalive(c) \/ RenewLost(c)
      PROVE  IInv'
  BY <1>3, StartOK, KeepaliveOK, RenewLostOK
<1>4. ASSUME NEW c \in Collectors, Progress(c)
      PROVE  IInv'
  BY <1>4, AcquireOK, LoadResumeOK, LoadBootstrapOK, LoadNoCheckpointOK, OpenCustomOK,
     OpenRejectedOK, OpenPresetOK, DecodeOK, ResponseDoneOK, WriteOK, CommitOkOK,
     CommitLeaseLostOK, EndSessionOK, AfterSessionOK, BackoffOK, ReleaseOK DEF Progress
<1>5. ASSUME NEW c \in Collectors, Select(c)
      PROVE  IInv'
  BY <1>5, SelectDoneOK, SelectRenewErrOK, FlushTimerOK, ReceiveOK DEF Select
<1>6. ASSUME NEW c \in Collectors, Trouble(c)
      PROVE  IInv'
  BY <1>6, CrashOK, ShutdownOK, AcquireUnknownOK, AcquireFailsOK, LoadFailsOK, OpenFailsOK,
     RenewTimesOutOK, StreamEndsOK, DecodeSchemaFailsOK, DecodeFailsOK, WriteFailsOK,
     CommitErrorsOK, KeepaliveInterruptedOK DEF Trouble
<1> QED BY <1>1, <1>2, <1>3, <1>4, <1>5, <1>6 DEF Next

(* IInv holds in every reachable state.                                    *)
LEMMA IInvHolds == Spec => []IInv
BY InitOK, Inductive, PTL DEF Spec

(* Every variable keeps its type, for any number of collectors and any     *)
(* bounds: in particular the position a preset starts at is a replay ID    *)
(* and a commit always has one to store.                                   *)
THEOREM TypeCorrect == Spec => []TypeOK
<1>1. IInv => TypeOK
  BY DEF IInv
<1> QED BY <1>1, IInvHolds, PTL

(* The stored replay ID, every replay ID a process resumes from and every  *)
(* one still in flight only cover archived events.                         *)
THEOREM CheckpointsCovered == Spec => []CheckpointCovered
<1>1. IInv => CheckpointCovered
  BY DEF IInv, StoreOK, ProcOK, CheckpointCovered, Covered
<1> QED BY <1>1, IInvHolds, PTL

-----------------------------------------------------------------------------
(***************************************************************************)
(* Subscriber implements AtLeastOnce, its checkpoint never moves back, and *)
(* a clean exit leaves nothing behind.                                     *)
(*                                                                         *)
(* IInv says that what a commit stores is archived.                        *)
(* What is missing for the promise is that the archived range never starts *)
(* elsewhere while a checkpoint is stored.  That rests on the lease: owner *)
(* tokens are unique, a token gets the lease only before its process has   *)
(* read the checkpoint, and while it is the holder's the store changes at  *)
(* the holder's hands alone (or is cleared).  The one thing a holder does  *)
(* not know is whether a commit that was reported as failed has been       *)
(* applied; a process in that state retries the commit or leaves, and      *)
(* never opens another session.                                            *)
(***************************************************************************)


(* The states in which a process has read the checkpoint and may commit.   *)
Active == {"open", "select", "decode", "write", "commit", "end", "after", "backoff"}

(* The process will not open a session again.                              *)
Leaving(p) ==
    \/ p.pc = "release"
    \/ p.pc \in {"end", "after"} /\ (p.err = "fatal" \/ (p.stop /\ p.buffer = {}))

(* A commit of this process may have been applied without its knowing.     *)
Unsure(p) == p.pc = "commit" \/ Leaving(p)

(* No two processes have the same token.                                   *)
TokensOK ==
    \A c \in Collectors :
       Running(c) =>
          /\ 1 <= col[c].owner /\ col[c].owner <= issued
          /\ \A d \in Collectors : Running(d) /\ col[d].owner = col[c].owner => d = c

(* A holder's base is that of the store, unless the store is empty; before *)
(* its first commit it is empty, as far as the holder can know.            *)
HolderOK(c) ==
    lease = col[c].owner /\ col[c].pc \in Active /\ checkpoint # Nil =>
       /\ col[c].base = floor
       /\ col[c].committed = Nil => Unsure(col[c])

(* A commit on its way fits the store while its sender's token holds the   *)
(* lease, and it fits its sender and the sender's other commits.           *)
CallOK(call) ==
    /\ 1 <= call.owner /\ call.owner <= issued
    /\ lease = call.owner /\ checkpoint # Nil => call.base = floor
    /\ \A c \in Collectors : Running(c) /\ col[c].owner = call.owner =>
          /\ col[c].pc \in Active \cup {"release"}
          /\ col[c].base = call.base
          /\ col[c].committed = Nil => Unsure(col[c])
    /\ \A other \in inflight : other.owner = call.owner => other.base = call.base

PInv ==
    /\ TokensOK
    /\ \A c \in Collectors : HolderOK(c)
    /\ \A call \in inflight : CallOK(call)

(* Without late commits a holder also knows the stored position, and has   *)
(* consumed at least as much.                                              *)
AheadOK(c) ==
    lease = col[c].owner /\ col[c].pc \in Active /\ checkpoint # Nil =>
       /\ col[c].committed = checkpoint \/ Unsure(col[c])
       /\ InSession(col[c]) => checkpoint <= col[c].pos

MInv == inflight = {} /\ \A c \in Collectors : AheadOK(c)

(* What a process has consumed since its last acknowledged commit.         *)
Uncommitted(p) == EventsAfter(IF p.committed = Nil THEN p.base ELSE p.committed, p.pos)

(* It is buffered while the process means to commit it, and nothing is     *)
(* left of it when the process reconnects or leaves without an error.      *)
StopOK(p) ==
    /\ p.pc \in {"acquire", "load"} => p.committed = Nil /\ p.base = 0 /\ p.pos = 0
    /\ InSession(p) => Uncommitted(p) \subseteq p.buffer
    /\ p.pc \in {"open", "backoff"} \/ (p.pc = "after" /\ p.err # "fatal") => Uncommitted(p) = {}
    /\ p.pc = "release" /\ p.code = "ok" => p.stop /\ Uncommitted(p) = {}

SInv == \A c \in Collectors : StopOK(col[c])

JInv == PInv /\ (MaxLate = 0 => MInv) /\ SInv

-----------------------------------------------------------------------------
(* One process moves.                                                      *)

(* What most steps keep: who the process is, what it counts as committed   *)
(* and where its range starts.                                             *)
Keeps(p, q) ==
    /\ q.owner = p.owner /\ q.base = p.base /\ q.committed = p.committed
    /\ p.pc # "down" /\ q.pc # "down"
    /\ q.pc \in Active => p.pc \in Active
    /\ p.pc \in Active \cup {"release"} => q.pc \in Active \cup {"release"}
    /\ Unsure(p) => Unsure(q)
    /\ InSession(q) => InSession(p) /\ p.pos <= q.pos

(* A process that was running moves and leaves the checkpoint alone.  The  *)
(* lease may go, or come to a process that has not read the checkpoint.    *)
LEMMA ProcessMoves ==
  ASSUME IInv, IInv', JInv, NEW c \in Collectors, NEW q, Become(c, q), StopOK(q),
         q.pc = "down" \/ Keeps(col[c], q),
         \/ lease' \in {lease, NoOwner}
         \/ lease' = col[c].owner /\ col[c].pc = "acquire" /\ q.pc \notin Active,
         UNCHANGED <<checkpoint, floor, inflight, issued>>
  PROVE  JInv'
<1> DEFINE p == col[c]
<1>1. \A d \in Collectors : col'[d] = IF d = c THEN q ELSE col[d]
  BY DEF Become, IInv, TypeOK
<1>2. SInv'
  BY <1>1 DEF JInv, SInv
<1>3. TokensOK'
  BY <1>1 DEF JInv, PInv, TokensOK, Running, Keeps
<1>4. ASSUME NEW d \in Collectors PROVE HolderOK(d)'
  <2>1. CASE lease' \in {lease, NoOwner}
    BY <1>1, <2>1 DEF JInv, PInv, TokensOK, HolderOK, Running, Keeps, NoOwner, Active
  <2>2. CASE lease' = p.owner /\ p.pc = "acquire" /\ q.pc \notin Active
    BY <1>1, <2>2 DEF JInv, PInv, TokensOK, HolderOK, Running, Active
  <2> QED BY <2>1, <2>2
<1>5. ASSUME NEW call \in inflight PROVE CallOK(call)'
  <2>1. CallOK(call)
    BY DEF JInv, PInv
  <2>2. lease' = call.owner => lease = call.owner
    BY <2>1 DEF CallOK, NoOwner, Running, Active
  <2>3. \A d \in Collectors : Running(d)' /\ col'[d].owner = call.owner =>
          /\ col'[d].pc \in Active \cup {"release"}
          /\ col'[d].base = call.base
          /\ col'[d].committed = Nil => Unsure(col'[d])
    BY <1>1, <2>1 DEF CallOK, Running, Keeps
  <2> QED BY <2>1, <2>2, <2>3 DEF CallOK
<1>6. PInv'
  BY <1>3, <1>4, <1>5 DEF PInv
<1>7. ASSUME MaxLate = 0 PROVE MInv'
  <2>1. MInv
    BY <1>7 DEF JInv
  <2>2. ASSUME NEW d \in Collectors PROVE AheadOK(d)'
    <3>1. AheadOK(d) /\ AheadOK(c)
      BY <2>1 DEF MInv
    <3>2. CASE d # c
      <4>1. col'[d] = col[d]
        BY <1>1, <3>2
      <4>2. lease' = col[d].owner /\ col[d].pc \in Active => lease = col[d].owner
        BY <3>2 DEF JInv, PInv, TokensOK, Running, Active, NoOwner
      <4> QED BY <3>1, <4>1, <4>2 DEF AheadOK
    <3>3. CASE d = c
      <4>1. col'[c] = q
        BY <1>1
      <4>2. lease' = q.owner /\ q.pc \in Active => lease = p.owner /\ p.pc \in Active /\ Keeps(p, q)
        BY <1>1 DEF JInv, PInv, TokensOK, Running, Active, NoOwner, Keeps
      <4>3. p \in ProcessState
        BY DEF IInv, TypeOK
      <4>4. checkpoint \in Nat \cup {Nil} /\ p.pos \in Nat
        BY <4>3, FieldTypes DEF IInv, TypeOK, StoreTypeOK, ReplayId
      <4>5. q.pos \in Nat
        BY <4>1, FieldTypes DEF IInv, TypeOK
      <4> QED BY <3>1, <3>3, <4>1, <4>2, <4>4, <4>5 DEF AheadOK, Keeps
    <3> QED BY <3>2, <3>3
  <2> QED BY <2>1, <2>2 DEF MInv
<1> QED BY <1>2, <1>6, <1>7 DEF JInv

(* A step that touches neither the processes nor the store.                *)
LEMMA NothingMoves ==
  ASSUME JInv, UNCHANGED col, UNCHANGED storeVars
  PROVE  JInv'
BY DEF JInv, PInv, TokensOK, HolderOK, CallOK, Running, MInv, AheadOK, SInv, storeVars

(* The lease goes, and nothing else happens.                               *)
LEMMA LeaseGoes ==
  ASSUME JInv, lease' \in {lease, NoOwner}, UNCHANGED <<checkpoint, floor, inflight, issued, col>>
  PROVE  JInv'
<1>1. TokensOK' /\ SInv'
  BY DEF JInv, PInv, TokensOK, Running, SInv
<1>2. ASSUME NEW d \in Collectors, lease' = col[d].owner, col[d].pc \in Active
      PROVE  lease' = lease
  BY <1>2 DEF JInv, PInv, TokensOK, Running, Active, NoOwner
<1>3. \A d \in Collectors : HolderOK(d)'
  BY <1>2 DEF JInv, PInv, HolderOK
<1>4. ASSUME NEW call \in inflight PROVE CallOK(call)'
  <2>1. CallOK(call)
    BY DEF JInv, PInv
  <2>2. lease' = call.owner => lease = call.owner
    BY <2>1 DEF CallOK, NoOwner
  <2> QED BY <2>1, <2>2 DEF CallOK, Running
<1>5. MaxLate = 0 => MInv'
  BY <1>2 DEF JInv, MInv, AheadOK
<1> QED BY <1>1, <1>3, <1>4, <1>5 DEF JInv, PInv

(* A commit of process c, applied or still on its way, fits the store: the *)
(* store is empty or its range starts where the process's does.            *)
LEMMA OwnCall ==
  ASSUME IInv, JInv, NEW c \in Collectors, col[c].pc = "commit"
  PROVE  /\ CallOf(c).owner = col[c].owner
         /\ CallOf(c).base = col[c].base
         /\ CallOf(c).replay = col[c].pos
         /\ CallOf(c).replay \in Nat
         /\ Holds(col[c].owner) /\ checkpoint # Nil => floor = col[c].base
         /\ MaxLate = 0 /\ Holds(col[c].owner) /\ checkpoint # Nil => checkpoint <= col[c].pos
<1>1. /\ CallOf(c).replay = col[c].pos /\ CallOf(c).base = col[c].base
      /\ CallOf(c) \in CommitCall
  BY CallCovered
<1>2. HolderOK(c)
  BY DEF JInv, PInv
<1>3. MaxLate = 0 => AheadOK(c)
  BY DEF JInv, MInv
<1> QED BY <1>1, <1>2, <1>3 DEF CallOf, CommitCall, ReplayId, HolderOK, AheadOK, Active, Holds, InSession

(* A process at its commit moves on, whether its commit is applied, lost   *)
(* or still on its way: unless the commit is known to be applied, it       *)
(* leaves, or stays to retry.                                              *)
LEMMA CommitMoves ==
  ASSUME IInv, IInv', JInv, NEW c \in Collectors, col[c].pc = "commit",
         NEW q, Become(c, q), StopOK(q),
         q.owner = col[c].owner, q.base = col[c].base, q.pos = col[c].pos,
         q.pc \in Active \ {"open"},
         q.committed = col[c].pos \/ (q.committed = col[c].committed /\ Unsure(q)),
         \/ CommitScript(CallOf(c)) /\ inflight' = inflight
         \/ UNCHANGED <<checkpoint, floor, inflight>> /\ (q.committed = col[c].committed /\ Unsure(q))
         \/ /\ UNCHANGED <<checkpoint, floor>> /\ inflight' = inflight \cup {CallOf(c)}
            /\ q.committed = col[c].committed /\ Unsure(q) /\ MaxLate # 0,
         UNCHANGED <<lease, issued>>
  PROVE  JInv'
<1> DEFINE p == col[c]
           own == CallOf(c)
<1>1. \A d \in Collectors : col'[d] = IF d = c THEN q ELSE col[d]
  BY DEF Become, IInv, TypeOK
<1>2. /\ own.owner = p.owner /\ own.base = p.base /\ own.replay = p.pos /\ own.replay \in Nat
      /\ Holds(p.owner) /\ checkpoint # Nil => floor = p.base
      /\ MaxLate = 0 /\ Holds(p.owner) /\ checkpoint # Nil => checkpoint <= p.pos
  BY OwnCall
<1>3. SInv'
  BY <1>1 DEF JInv, SInv
<1>4. TokensOK'
  BY <1>1 DEF JInv, PInv, TokensOK, Running, Active
<1>5. Unsure(p) /\ Running(c) /\ p.pc \in Active /\ InSession(p) /\ q.pc # "down"
  BY DEF Unsure, Running, Active, InSession
<1>6. lease = p.owner /\ checkpoint' # Nil => floor' = p.base
  BY <1>2 DEF CommitScript, Holds
<1>7. lease # p.owner => checkpoint' = checkpoint /\ floor' = floor
  BY <1>2 DEF CommitScript, Holds
<1>8. ASSUME NEW d \in Collectors PROVE HolderOK(d)'
  <2>1. CASE d = c
    BY <1>1, <1>2, <1>5, <1>6, <2>1 DEF HolderOK, Nil
  <2>2. CASE d # c
    <3>1. HolderOK(d) /\ col'[d] = col[d]
      BY <1>1, <2>2 DEF JInv, PInv
    <3>2. lease = col[d].owner /\ col[d].pc \in Active => lease # p.owner
      BY <1>5, <2>2 DEF JInv, PInv, TokensOK, Running, Active
    <3> QED BY <1>7, <3>1, <3>2 DEF HolderOK
  <2> QED BY <2>1, <2>2
<1>9. ASSUME NEW call \in inflight PROVE CallOK(call)'
  <2>1. CallOK(call)
    BY DEF JInv, PInv
  <2>2. call.owner = p.owner => call.base = p.base
    BY <1>5, <2>1 DEF CallOK
  <2>3. lease' = call.owner /\ checkpoint' # Nil => call.base = floor'
    BY <1>6, <1>7, <2>1, <2>2 DEF CallOK
  <2>4. \A d \in Collectors : Running(d)' /\ col'[d].owner = call.owner =>
          /\ col'[d].pc \in Active \cup {"release"}
          /\ col'[d].base = call.base
          /\ col'[d].committed = Nil => Unsure(col'[d])
    BY <1>1, <1>2, <2>1, <1>5 DEF CallOK, Running, Nil
  <2>5. \A other \in inflight' : other.owner = call.owner => other.base = call.base
    BY <1>2, <2>1, <2>2 DEF CallOK
  <2> QED BY <2>1, <2>3, <2>4, <2>5 DEF CallOK
<1>10. ASSUME NEW call \in inflight', call \notin inflight PROVE CallOK(call)'
  <2>1. call = own /\ q.committed = p.committed /\ Unsure(q) /\ inflight' = inflight \cup {call}
    BY <1>10
  <2>2. 1 <= call.owner /\ call.owner <= issued'
    BY <1>2, <1>5, <2>1 DEF JInv, PInv, TokensOK
  <2>3. lease' = call.owner /\ checkpoint' # Nil => call.base = floor'
    BY <1>2, <1>6, <2>1
  <2>4. \A d \in Collectors : Running(d)' /\ col'[d].owner = call.owner =>
          /\ col'[d].pc \in Active \cup {"release"}
          /\ col'[d].base = call.base
          /\ col'[d].committed = Nil => Unsure(col'[d])
    BY <1>1, <1>2, <1>4, <1>5, <2>1 DEF TokensOK, Running
  <2>5. \A other \in inflight : other.owner = call.owner => other.base = call.base
    BY <1>2, <1>5, <2>1 DEF JInv, PInv, CallOK
  <2> QED BY <2>1, <2>2, <2>3, <2>4, <2>5 DEF CallOK
<1>11. PInv'
  BY <1>4, <1>8, <1>9, <1>10 DEF PInv
<1>12. ASSUME MaxLate = 0 PROVE MInv'
  <2>1. MInv /\ inflight' = {}
    BY <1>12 DEF JInv, MInv
  <2>2. ASSUME NEW d \in Collectors PROVE AheadOK(d)'
    <3>1. CASE d = c
      BY <1>1, <1>2, <1>12, <3>1, <2>1 DEF AheadOK, CommitScript, Holds, Nil
    <3>2. CASE d # c
      <4>1. AheadOK(d) /\ col'[d] = col[d]
        BY <1>1, <3>2, <2>1 DEF MInv
      <4>2. lease = col[d].owner /\ col[d].pc \in Active => lease # p.owner
        BY <1>5, <3>2 DEF JInv, PInv, TokensOK, Running, Active
      <4> QED BY <1>7, <4>1, <4>2 DEF AheadOK
    <3> QED BY <3>1, <3>2
  <2> QED BY <2>1, <2>2 DEF MInv
<1> QED BY <1>3, <1>11, <1>12 DEF JInv

(* What is known of a process before it moves.                             *)
LEMMA Before ==
  ASSUME IInv, JInv, NEW c \in Collectors
  PROVE  /\ col[c] \in ProcessState /\ ProcOK(col[c], archived) /\ StopOK(col[c])
         /\ col[c].pos \in Nat /\ col[c].base \in Nat /\ col[c].committed \in Nat \cup {Nil}
BY FieldTypes DEF IInv, TypeOK, JInv, SInv

(* A process in its session goes on or ends it, having consumed no event   *)
(* that is not in its buffer.                                              *)
LEMMA SessionGoesOn ==
  ASSUME IInv, IInv', JInv, NEW c \in Collectors, NEW q, Become(c, q), UNCHANGED storeVars,
         col[c].pc \in {"select", "decode", "write"},
         \/ q.pc \in {"select", "decode", "write", "commit", "end"}
         \/ q.pc = "after" /\ q.err = "fatal",
         q.owner = col[c].owner, q.base = col[c].base, q.committed = col[c].committed,
         col[c].pos <= q.pos, EventsAfter(col[c].pos, q.pos) \subseteq q.buffer,
         col[c].buffer \subseteq q.buffer
  PROVE  JInv'
<1> DEFINE p == col[c]
           from == IF p.committed = Nil THEN p.base ELSE p.committed
<1>1. /\ StopOK(p) /\ p.pos \in Nat /\ from \in Nat
  BY Before
<1>2. q.pos \in Nat
  <2>1. col'[c] = q
    BY DEF Become, IInv, TypeOK
  <2> QED BY <2>1, FieldTypes DEF IInv, TypeOK
<1>3. EventsAfter(from, q.pos) \subseteq q.buffer
  <2>1. EventsAfter(from, p.pos) \subseteq p.buffer
    BY <1>1 DEF StopOK, InSession, Uncommitted
  <2> QED BY <1>1, <1>2, <2>1, EventsSplit
<1>4. StopOK(q)
  BY <1>3 DEF StopOK, Uncommitted
<1>5. Keeps(p, q)
  BY DEF Keeps, Active, Unsure, Leaving, InSession
<1> QED BY <1>4, <1>5, ProcessMoves DEF storeVars

(* A process that stays where it is in Run, and only learns something.     *)
LEMMA OnlyLearns ==
  ASSUME IInv, IInv', JInv, NEW c \in Collectors, NEW q, Become(c, q), UNCHANGED storeVars,
         col[c].pc # "down", q.pc = col[c].pc, q.owner = col[c].owner, q.base = col[c].base,
         q.committed = col[c].committed, q.pos = col[c].pos, q.buffer = col[c].buffer,
         q.err = col[c].err, q.code = col[c].code, col[c].stop => q.stop
  PROVE  JInv'
<1>1. StopOK(col[c]) /\ col[c].pos \in Nat
  BY Before
<1>2. StopOK(q)
  BY <1>1 DEF StopOK, Uncommitted, InSession
<1>3. Keeps(col[c], q)
  BY <1>1 DEF Keeps, Unsure, Leaving, InSession
<1> QED BY <1>2, <1>3, ProcessMoves DEF storeVars

(* A process reads the checkpoint or opens a subscription: if it holds the *)
(* lease it does so where the stored range starts and ends.                *)
LEMMA Repositions ==
  ASSUME IInv, IInv', JInv, NEW c \in Collectors, NEW q, Become(c, q), UNCHANGED storeVars,
         StopOK(q), col[c].pc \in {"load", "open"}, q.pc \in {"open", "select"},
         q.owner = col[c].owner,
         lease = q.owner /\ checkpoint # Nil => q.base = floor /\ q.committed # Nil,
         MaxLate = 0 /\ lease = q.owner /\ checkpoint # Nil =>
            q.committed = checkpoint /\ (q.pc = "select" => checkpoint <= q.pos),
         \A call \in inflight : call.owner = q.owner => call.base = q.base /\ q.committed # Nil
  PROVE  JInv'
<1> DEFINE p == col[c]
<1>1. \A d \in Collectors : col'[d] = IF d = c THEN q ELSE col[d]
  BY DEF Become, IInv, TypeOK
<1>2. SInv'
  BY <1>1 DEF JInv, SInv
<1>3. TokensOK'
  BY <1>1 DEF JInv, PInv, TokensOK, Running, storeVars
<1>4. \A d \in Collectors : HolderOK(d)'
  BY <1>1 DEF JInv, PInv, HolderOK, storeVars
<1>5. ASSUME NEW call \in inflight PROVE CallOK(call)'
  <2>1. CallOK(call)
    BY DEF JInv, PInv
  <2>2. \A d \in Collectors : Running(d)' /\ col'[d].owner = call.owner =>
          /\ col'[d].pc \in Active \cup {"release"}
          /\ col'[d].base = call.base
          /\ col'[d].committed = Nil => Unsure(col'[d])
    BY <1>1, <2>1 DEF CallOK, Running, Active
  <2> QED BY <2>1, <2>2 DEF CallOK, storeVars
<1>6. MaxLate = 0 => MInv'
  <2>1. ASSUME MaxLate = 0, NEW d \in Collectors PROVE AheadOK(d)'
    BY <1>1, <2>1 DEF JInv, MInv, AheadOK, storeVars, InSession
  <2> QED BY <2>1 DEF JInv, MInv, storeVars
<1> QED BY <1>2, <1>3, <1>4, <1>5, <1>6 DEF JInv, PInv, storeVars

-----------------------------------------------------------------------------
(* The actions, one by one: the life cycle of a process.                   *)

(* A new process has a token of its own and has read nothing.              *)
LEMMA StartJ ==
  ASSUME IInv, IInv', JInv, NEW c \in Collectors, Start(c)
  PROVE  JInv'
<1> DEFINE q == [Down("none") EXCEPT !.pc = "acquire", !.owner = NewOwner]
<1>1. \A d \in Collectors : col'[d] = IF d = c THEN q ELSE col[d]
  BY DEF Start, Become, IInv, TypeOK
<1>2. q.pc = "acquire" /\ q.owner = issued + 1 /\ q.committed = Nil /\ q.base = 0 /\ q.pos = 0
  BY DEF Down, NewOwner
<1> HIDE DEF q
<1>3. issued \in Nat /\ issued' = issued + 1 /\ UNCHANGED <<lease, checkpoint, floor, inflight>>
  BY DEF Start, NewOwner, IInv, TypeOK, StoreTypeOK
<1>4. \A d \in Collectors : Running(d) => col[d].owner \in Nat
  BY FieldTypes DEF IInv, TypeOK
<1>5. SInv'
  BY <1>1, <1>2 DEF JInv, SInv, StopOK, InSession
<1>6. TokensOK'
  BY <1>1, <1>2, <1>3, <1>4 DEF JInv, PInv, TokensOK, Running
<1>7. \A d \in Collectors : HolderOK(d)'
  BY <1>1, <1>2, <1>3 DEF JInv, PInv, HolderOK, Active
<1>8. ASSUME NEW call \in inflight PROVE CallOK(call)'
  <2>1. CallOK(call) /\ call.owner \in Nat
    BY DEF JInv, PInv, IInv, TypeOK, StoreTypeOK, CommitCall, Owners
  <2>2. \A d \in Collectors : Running(d)' /\ col'[d].owner = call.owner =>
          /\ col'[d].pc \in Active \cup {"release"}
          /\ col'[d].base = call.base
          /\ col'[d].committed = Nil => Unsure(col'[d])
    BY <1>1, <1>2, <1>3, <2>1 DEF CallOK, Running
  <2> QED BY <1>3, <2>1, <2>2 DEF CallOK
<1>9. MaxLate = 0 => MInv'
  BY <1>1, <1>2, <1>3 DEF JInv, MInv, AheadOK, Active
<1> QED BY <1>3, <1>5, <1>6, <1>7, <1>8, <1>9 DEF JInv, PInv

(* A process that ends, however it ends.                                   *)
LEMMA GoesDownJ ==
  ASSUME IInv, IInv', JInv, NEW c \in Collectors,
         Crash(c) \/ AcquireFails(c) \/ Release(c)
  PROVE  JInv'
<1>1. \A code : Down(code).pc = "down" /\ StopOK(Down(code))
  BY DEF Down, StopOK, InSession
<1>2. CASE Crash(c)
  BY <1>1, <1>2, ProcessMoves DEF Crash, storeVars
<1>3. CASE AcquireFails(c)
  BY <1>1, <1>3, ProcessMoves DEF AcquireFails, storeVars
<1>4. CASE Release(c)
  BY <1>1, <1>4, ProcessMoves DEF Release, ReleaseScript
<1> QED BY <1>2, <1>3, <1>4

(* A shutdown, or a renewal that failed, only tells the process so.        *)
LEMMA LearnsJ ==
  ASSUME IInv, IInv', JInv, NEW c \in Collectors,
         Shutdown(c) \/ RenewLost(c) \/ RenewTimesOut(c)
  PROVE  JInv'
<1> DEFINE p == col[c]
<1>1. p \in ProcessState
  BY Before
<1>2. CASE Shutdown(c)
  <2> DEFINE q == [p EXCEPT !.stop = TRUE]
  <2>1. /\ q.pc = p.pc /\ q.owner = p.owner /\ q.base = p.base /\ q.committed = p.committed
        /\ q.pos = p.pos /\ q.buffer = p.buffer /\ q.err = p.err /\ q.code = p.code /\ q.stop
    BY <1>1 DEF ProcessState
  <2> QED BY <1>2, <2>1, OnlyLearns DEF Shutdown, Running
<1>3. CASE RenewLost(c) \/ RenewTimesOut(c)
  <2> DEFINE q == [p EXCEPT !.renew = "failed"]
  <2>1. /\ q.pc = p.pc /\ q.owner = p.owner /\ q.base = p.base /\ q.committed = p.committed
        /\ q.pos = p.pos /\ q.buffer = p.buffer /\ q.err = p.err /\ q.code = p.code
        /\ q.stop = p.stop
    BY <1>1 DEF ProcessState
  <2>2. Become(c, q) /\ UNCHANGED storeVars
    BY <1>3 DEF RenewLost, RenewTimesOut
  <2>3. CASE p.pc # "down"
    BY <2>1, <2>2, <2>3, OnlyLearns
  <2>4. CASE p.pc = "down"
    <3>1. StopOK(q) /\ q.pc = "down"
      BY <2>1, <2>4 DEF StopOK, InSession
    <3> QED BY <2>2, <3>1, ProcessMoves DEF storeVars
  <2> QED BY <2>3, <2>4
<1> QED BY <1>2, <1>3

(* SETNX gives the lease to a process that has not read the checkpoint.    *)
LEMMA AcquireJ ==
  ASSUME IInv, IInv', JInv, NEW c \in Collectors, Acquire(c) \/ AcquireUnknown(c)
  PROVE  JInv'
<1> DEFINE p == col[c]
<1>1. p \in ProcessState /\ StopOK(p)
  BY Before
<1>2. /\ p.pc = "acquire" /\ lease' = p.owner
      /\ UNCHANGED <<checkpoint, floor, inflight, issued>>
  BY DEF Acquire, AcquireUnknown, SetNX
<1>3. CASE Acquire(c)
  <2> DEFINE q == [p EXCEPT !.pc = "load"]
  <2>1. /\ q.pc = "load" /\ q.owner = p.owner /\ q.base = p.base /\ q.committed = p.committed
        /\ q.pos = p.pos
    BY <1>1 DEF ProcessState
  <2>2. StopOK(q) /\ Keeps(p, q) /\ q.pc \notin Active
    BY <1>1, <1>2, <2>1 DEF StopOK, InSession, Keeps, Active, Unsure, Leaving
  <2> QED BY <1>2, <1>3, <2>2, ProcessMoves DEF Acquire
<1>4. CASE AcquireUnknown(c) /\ UNCHANGED col
  <2>1. Become(c, p)
    BY <1>4 DEF Become, IInv, TypeOK
  <2>2. Keeps(p, p) /\ p.pc \notin Active
    BY <1>1, <1>2 DEF Keeps, Active, InSession
  <2> QED BY <1>1, <1>2, <2>1, <2>2, ProcessMoves
<1>5. CASE AcquireUnknown(c) /\ Become(c, Down(IF p.stop THEN "ok" ELSE "fatal"))
  <2>1. \A code : Down(code).pc = "down" /\ StopOK(Down(code))
    BY DEF Down, StopOK, InSession
  <2>2. "down" \notin Active
    BY DEF Active
  <2> QED BY <1>2, <1>5, <2>1, <2>2, ProcessMoves
<1> QED BY <1>3, <1>4, <1>5 DEF AcquireUnknown

(* A process that has not read the checkpoint has no commit on its way.    *)
LEMMA NoCallsYet ==
  ASSUME JInv, NEW c \in Collectors, col[c].pc = "load" \/ (col[c].pc = "open" /\ col[c].committed = Nil)
  PROVE  \A call \in inflight : call.owner # col[c].owner
BY DEF JInv, PInv, CallOK, Running, Active, Unsure, Leaving

(* Reading the checkpoint puts the process where the stored range ends.    *)
LEMMA LoadJ ==
  ASSUME IInv, IInv', JInv, NEW c \in Collectors,
         LoadResume(c) \/ LoadBootstrap(c) \/ LoadNoCheckpoint(c) \/ LoadFails(c)
  PROVE  JInv'
<1> DEFINE p == col[c]
<1>1. p \in ProcessState /\ StopOK(p) /\ p.pc = "load"
  BY Before DEF LoadResume, LoadBootstrap, LoadNoCheckpoint, LoadFails
<1>2. /\ p.committed = Nil /\ p.base = 0 /\ p.pos = 0
      /\ UNCHANGED storeVars
      /\ \A call \in inflight : call.owner # p.owner
  BY <1>1, NoCallsYet DEF StopOK, LoadResume, LoadBootstrap, LoadNoCheckpoint, LoadFails
<1>3. CASE LoadResume(c)
  <2> DEFINE q == [p EXCEPT !.pc = "open", !.renew = "running",
                            !.committed = checkpoint, !.pos = checkpoint, !.base = floor]
  <2>1. /\ q.pc = "open" /\ q.owner = p.owner /\ q.base = floor /\ q.committed = checkpoint
        /\ q.pos = checkpoint
    BY <1>1 DEF ProcessState
  <2>2. checkpoint \in Nat /\ checkpoint # Nil
    BY <1>3 DEF LoadResume, IInv, TypeOK, StoreTypeOK, ReplayId
  <2>3. StopOK(q)
    BY <2>1, <2>2, EventsEmpty DEF StopOK, InSession, Uncommitted
  <2> HIDE DEF q
  <2>4. Become(c, q)
    BY <1>3 DEF LoadResume, q
  <2> QED BY <1>1, <1>2, <2>1, <2>2, <2>3, <2>4, Repositions
<1>4. CASE LoadBootstrap(c)
  <2>1. PICK preset \in Presets \ {""} :
           Become(c, [p EXCEPT !.pc = "open", !.renew = "running", !.preset = preset])
    BY <1>4, Zenon DEF LoadBootstrap
  <2> DEFINE q == [p EXCEPT !.pc = "open", !.renew = "running", !.preset = preset]
  <2>2. /\ q.pc = "open" /\ q.owner = p.owner /\ q.base = 0 /\ q.committed = Nil
        /\ q.pos = 0
    BY <1>1, <1>2 DEF ProcessState
  <2>3. StopOK(q)
    BY <2>2, EventsEmpty DEF StopOK, InSession, Uncommitted
  <2>4. checkpoint = Nil
    BY <1>4, Zenon DEF LoadBootstrap
  <2> HIDE DEF q
  <2>5. Become(c, q)
    BY <2>1 DEF q
  <2> QED BY <1>1, <1>2, <2>2, <2>3, <2>4, <2>5, Repositions
<1>5. CASE LoadNoCheckpoint(c) \/ LoadFails(c)
  <2>1. PICK code \in {"ok", "fatal"} :
           /\ Become(c, [p EXCEPT !.pc = "release", !.code = code])
           /\ code = "ok" => p.stop
    BY <1>5, Zenon DEF LoadNoCheckpoint, LoadFails
  <2> DEFINE q == [p EXCEPT !.pc = "release", !.code = code]
  <2>2. /\ q.pc = "release" /\ q.owner = p.owner /\ q.base = p.base
        /\ q.committed = p.committed /\ q.pos = p.pos /\ q.code = code /\ q.stop = p.stop
    BY <1>1 DEF ProcessState
  <2>3. StopOK(q)
    BY <1>2, <2>1, <2>2, EventsEmpty DEF StopOK, InSession, Uncommitted
  <2>4. Keeps(p, q)
    BY <1>1, <2>2 DEF Keeps, Active, Unsure, Leaving, InSession
  <2> HIDE DEF q
  <2>5. Become(c, q)
    BY <2>1 DEF q
  <2> QED BY <1>2, <2>3, <2>4, <2>5, ProcessMoves DEF storeVars
<1> QED BY <1>3, <1>4, <1>5

-----------------------------------------------------------------------------
(* The session.                                                            *)

(* A subscription is opened at the committed position, or, if there is     *)
(* none, wherever the preset says: then nothing of this holder is stored.  *)
LEMMA OpenJ ==
  ASSUME IInv, IInv', JInv, NEW c \in Collectors, OpenCustom(c) \/ OpenPreset(c)
  PROVE  JInv'
<1> DEFINE p == col[c]
<1>1. p \in ProcessState /\ StopOK(p) /\ p.pc = "open" /\ p.committed \in Nat \cup {Nil}
  BY Before DEF OpenCustom, OpenPreset
<1>2. /\ UNCHANGED storeVars /\ ~Unsure(p) /\ HolderOK(c)
      /\ MaxLate = 0 => AheadOK(c)
      /\ checkpoint \in Nat \cup {Nil}
  BY <1>1 DEF OpenCustom, OpenPreset, Unsure, Leaving, JInv, PInv, MInv, IInv, TypeOK,
              StoreTypeOK, ReplayId
<1>3. CASE OpenCustom(c)
  <2> DEFINE q == [p EXCEPT !.pc = "select", !.pos = p.committed]
  <2>1. /\ q.pc = "select" /\ q.owner = p.owner /\ q.base = p.base
        /\ q.committed = p.committed /\ q.pos = p.committed
    BY <1>1 DEF ProcessState
  <2>2. p.committed # Nil
    BY <1>3 DEF OpenCustom
  <2>3. StopOK(q)
    BY <1>1, <2>1, <2>2, EventsEmpty DEF StopOK, InSession, Uncommitted
  <2>4. \A call \in inflight : call.owner = p.owner => call.base = p.base
    BY <1>1 DEF JInv, PInv, CallOK, Running
  <2>5. lease = p.owner /\ checkpoint # Nil =>
           p.base = floor /\ (MaxLate = 0 => p.committed = checkpoint)
    BY <1>1, <1>2 DEF HolderOK, AheadOK, Active
  <2> HIDE DEF q
  <2>6. Become(c, q)
    BY <1>3 DEF OpenCustom, q
  <2> QED BY <1>1, <1>2, <2>1, <2>2, <2>3, <2>4, <2>5, <2>6, Repositions
<1>4. CASE OpenPreset(c)
  <2>1. PICK start \in Nat : Become(c, [p EXCEPT !.pc = "select", !.base = start, !.pos = start])
    <3>1. StartEarliest \in Nat /\ StartLatest \in Nat
      BY DEF StartEarliest, StartLatest, IInv, TypeOK
    <3>2. CASE p.preset = "EARLIEST"
      BY <1>4, <3>1, <3>2 DEF OpenPreset
    <3>3. CASE p.preset # "EARLIEST"
      BY <1>4, <3>1, <3>3 DEF OpenPreset
    <3> QED BY <3>2, <3>3
  <2> DEFINE q == [p EXCEPT !.pc = "select", !.base = start, !.pos = start]
  <2>2. /\ q.pc = "select" /\ q.owner = p.owner /\ q.base = start
        /\ q.committed = p.committed /\ q.pos = start
    BY <1>1 DEF ProcessState
  <2>3. p.committed = Nil
    BY <1>4 DEF OpenPreset
  <2>4. StopOK(q)
    BY <2>2, <2>3, EventsEmpty DEF StopOK, InSession, Uncommitted
  <2>5. ~(lease = p.owner /\ checkpoint # Nil)
    BY <1>1, <1>2, <2>3 DEF HolderOK, Active
  <2>6. \A call \in inflight : call.owner # p.owner
    BY <1>1, <2>3, NoCallsYet
  <2> HIDE DEF q
  <2>7. Become(c, q)
    BY <2>1 DEF q
  <2> QED BY <1>1, <1>2, <2>2, <2>4, <2>5, <2>6, <2>7, Repositions
<1> QED BY <1>3, <1>4

(* A subscription that cannot be opened: nothing was consumed in between.  *)
LEMMA OpenFailsJ ==
  ASSUME IInv, IInv', JInv, NEW c \in Collectors, OpenRejected(c) \/ OpenFails(c)
  PROVE  JInv'
<1> DEFINE p == col[c]
<1>1. p \in ProcessState /\ StopOK(p) /\ p.pc = "open" /\ UNCHANGED storeVars
  BY Before DEF OpenRejected, OpenFails
<1>2. PICK pc \in {"end", "after"}, err \in {"retry", "fatal"} :
         /\ Become(c, [p EXCEPT !.pc = pc, !.err = err])
         /\ pc = "end" => err = "fatal"
  BY DEF OpenRejected, OpenFails, EndWith
<1> DEFINE q == [p EXCEPT !.pc = pc, !.err = err]
<1>3. /\ q.pc = pc /\ q.owner = p.owner /\ q.base = p.base /\ q.err = err
      /\ q.committed = p.committed /\ q.pos = p.pos
  BY <1>1 DEF ProcessState
<1>4. StopOK(q)
  BY <1>1, <1>2, <1>3 DEF StopOK, InSession, Uncommitted
<1>5. Keeps(p, q)
  BY <1>1, <1>2, <1>3 DEF Keeps, Active, Unsure, Leaving, InSession
<1> QED BY <1>1, <1>2, <1>4, <1>5, ProcessMoves DEF storeVars

(* The select loop: the session ends, the buffer is flushed or a response  *)
(* is taken from the stream.                                               *)
LEMMA SelectJ ==
  ASSUME IInv, IInv', JInv, NEW c \in Collectors, Select(c) \/ StreamEnds(c)
  PROVE  JInv'
<1> DEFINE p == col[c]
<1>1. /\ p \in ProcessState /\ p.pc = "select" /\ UNCHANGED storeVars
      /\ p.pos \in Nat /\ EventsAfter(p.pos, p.pos) = {}
  BY Before, EventsEmpty DEF Select, SelectDone, SelectRenewErr, FlushTimer, Receive, StreamEnds
<1>2. CASE SelectDone(c) \/ SelectRenewErr(c) \/ StreamEnds(c)
  <2>1. PICK err \in {"none", "retry", "fatal"} : Become(c, [p EXCEPT !.pc = "end", !.err = err])
    BY <1>2 DEF SelectDone, SelectRenewErr, StreamEnds, EndWith
  <2> DEFINE q == [p EXCEPT !.pc = "end", !.err = err]
  <2>2. /\ q.pc = "end" /\ q.owner = p.owner /\ q.base = p.base /\ q.committed = p.committed
        /\ q.pos = p.pos /\ q.buffer = p.buffer
    BY <1>1 DEF ProcessState
  <2> HIDE DEF q
  <2>3. Become(c, q)
    BY <2>1 DEF q
  <2> QED BY <1>1, <2>2, <2>3, SessionGoesOn
<1>3. CASE FlushTimer(c)
  <2> DEFINE q == StartFlush(c, p.buffer, "select")
  <2>1. /\ q.pc = "write" /\ q.owner = p.owner /\ q.base = p.base /\ q.committed = p.committed
        /\ q.pos = p.pos /\ q.buffer = p.buffer
    BY <1>1 DEF ProcessState, StartFlush
  <2> QED BY <1>1, <1>3, <2>1, SessionGoesOn DEF FlushTimer
<1>4. CASE Receive(c)
  <2>1. PICK e : Become(c, [p EXCEPT !.pc = "decode", !.respEnd = e])
    BY <1>4 DEF Receive
  <2> DEFINE q == [p EXCEPT !.pc = "decode", !.respEnd = e]
  <2>2. /\ q.pc = "decode" /\ q.owner = p.owner /\ q.base = p.base /\ q.committed = p.committed
        /\ q.pos = p.pos /\ q.buffer = p.buffer
    BY <1>1 DEF ProcessState
  <2> HIDE DEF q
  <2>3. Become(c, q)
    BY <2>1 DEF q
  <2> QED BY <1>1, <2>2, <2>3, SessionGoesOn
<1> QED BY <1>2, <1>3, <1>4 DEF Select

(* A keepalive moves the position over replay IDs that are no events.      *)
LEMMA KeepaliveJ ==
  ASSUME IInv, IInv', JInv, NEW c \in Collectors, Keepalive(c)
  PROVE  JInv'
<1> DEFINE p == col[c]
           q == [p EXCEPT !.pc = "commit", !.pos = head, !.cont = "keepalive"]
<1>1. p \in ProcessState /\ p.pc = "select" /\ UNCHANGED storeVars
  BY Before DEF Keepalive
<1>2. p.pos <= head /\ EventsAfter(p.pos, head) = {}
  BY DEF Keepalive, CanResumeAt
<1>3. /\ q.pc = "commit" /\ q.owner = p.owner /\ q.base = p.base /\ q.committed = p.committed
      /\ q.pos = head /\ q.buffer = p.buffer
  BY <1>1 DEF ProcessState
<1> QED BY <1>1, <1>2, <1>3, SessionGoesOn DEF Keepalive

(* Every decoded event is appended to the buffer.                          *)
LEMMA DecodeJ ==
  ASSUME IInv, IInv', JInv, NEW c \in Collectors, Decode(c)
  PROVE  JInv'
<1> DEFINE p == col[c]
<1>1. p \in ProcessState /\ p.pc = "decode" /\ UNCHANGED storeVars /\ p.pos \in Nat
  BY Before DEF Decode
<1>2. PICK e \in 1..head : IsNextEvent(c, e) /\ Become(c, Appended(c, e, MaxEvents))
  BY DEF Decode
<1>3. p.pos <= e /\ EventsAfter(p.pos, e) = {e}
  <2>1. e \in EventsAfter(p.pos, e) /\ e \in Nat
    BY <1>2 DEF IsNextEvent
  <2> QED BY <1>1, <1>2, <2>1, EventsBounds DEF IsNextEvent
<1> DEFINE q == Appended(c, e, MaxEvents)
           more == p.buffer \cup {e}
<1>4. /\ q.pc \in {"write", "decode"} /\ q.owner = p.owner /\ q.base = p.base
      /\ q.committed = p.committed /\ q.pos = e /\ q.buffer = more
  <2>1. CASE Cardinality(more) >= MaxEvents
    BY <1>1, <2>1 DEF ProcessState, Appended, StartFlush
  <2>2. CASE ~(Cardinality(more) >= MaxEvents)
    BY <1>1, <2>2 DEF ProcessState, Appended
  <2> QED BY <2>1, <2>2
<1> HIDE DEF q
<1>5. Become(c, q)
  BY <1>2 DEF q
<1> QED BY <1>1, <1>3, <1>4, <1>5, SessionGoesOn

(* Decoding fails or the response is used up: nothing more is consumed.    *)
LEMMA ResponseJ ==
  ASSUME IInv, IInv', JInv, NEW c \in Collectors,
         DecodeSchemaFails(c) \/ DecodeFails(c) \/ ResponseDone(c)
  PROVE  JInv'
<1> DEFINE p == col[c]
<1>1. /\ p \in ProcessState /\ p.pc = "decode" /\ UNCHANGED storeVars
      /\ p.pos \in Nat /\ EventsAfter(p.pos, p.pos) = {}
  BY Before, EventsEmpty DEF DecodeSchemaFails, DecodeFails, ResponseDone
<1>2. CASE DecodeSchemaFails(c) \/ DecodeFails(c)
  <2>1. PICK err : Become(c, [p EXCEPT !.pc = "end", !.err = err])
    BY <1>2 DEF DecodeSchemaFails, DecodeFails, EndWith
  <2> DEFINE q == [p EXCEPT !.pc = "end", !.err = err]
  <2>2. /\ q.pc = "end" /\ q.owner = p.owner /\ q.base = p.base /\ q.committed = p.committed
        /\ q.pos = p.pos /\ q.buffer = p.buffer
    BY <1>1 DEF ProcessState
  <2> HIDE DEF q
  <2>3. Become(c, q)
    BY <2>1 DEF q
  <2> QED BY <1>1, <2>2, <2>3, SessionGoesOn
<1>3. CASE ResponseDone(c)
  <2> DEFINE q == [StartFlush(c, p.buffer, "select") EXCEPT !.respEnd = 0]
             r == [p EXCEPT !.pc = "select", !.respEnd = 0]
  <2>1. /\ q.pc = "write" /\ q.owner = p.owner /\ q.base = p.base /\ q.committed = p.committed
        /\ q.pos = p.pos /\ q.buffer = p.buffer
        /\ r.pc = "select" /\ r.owner = p.owner /\ r.base = p.base /\ r.committed = p.committed
        /\ r.pos = p.pos /\ r.buffer = p.buffer
    BY <1>1 DEF ProcessState, StartFlush
  <2>2. Become(c, q) \/ Become(c, r)
    BY <1>3 DEF ResponseDone
  <2> HIDE DEF q, r
  <2>3. CASE Become(c, q)
    BY <1>1, <2>1, <2>3, SessionGoesOn
  <2>4. CASE Become(c, r)
    BY <1>1, <2>1, <2>4, SessionGoesOn
  <2> QED BY <2>2, <2>3, <2>4
<1> QED BY <1>2, <1>3

(* Writing leaves position and buffer alone.                               *)
LEMMA WriteJ ==
  ASSUME IInv, IInv', JInv, NEW c \in Collectors, Write(c) \/ WriteFails(c)
  PROVE  JInv'
<1> DEFINE p == col[c]
<1>1. /\ p \in ProcessState /\ p.pc = "write" /\ UNCHANGED storeVars
      /\ p.pos \in Nat /\ EventsAfter(p.pos, p.pos) = {}
  BY Before, EventsEmpty DEF Write, WriteFails
<1>2. CASE Write(c)
  <2> DEFINE rest == p.todo \ Group(p.todo)
             q == [p EXCEPT !.todo = rest, !.attempt = 1,
                            !.pc = IF rest = {} THEN "commit" ELSE "write"]
  <2>1. /\ q.pc \in {"write", "commit"} /\ q.owner = p.owner /\ q.base = p.base
        /\ q.committed = p.committed /\ q.pos = p.pos /\ q.buffer = p.buffer
    BY <1>1 DEF ProcessState
  <2>2. Become(c, q)
    BY <1>2 DEF Write
  <2> HIDE DEF q
  <2> QED BY <1>1, <2>1, <2>2, SessionGoesOn
<1>3. CASE WriteFails(c) /\ Become(c, [p EXCEPT !.attempt = @ + 1])
  <2> DEFINE q == [p EXCEPT !.attempt = @ + 1]
  <2>1. /\ q.pc = "write" /\ q.owner = p.owner /\ q.base = p.base
        /\ q.committed = p.committed /\ q.pos = p.pos /\ q.buffer = p.buffer
    BY <1>1 DEF ProcessState
  <2>2. Become(c, q)
    BY <1>3
  <2> HIDE DEF q
  <2> QED BY <1>1, <2>1, <2>2, SessionGoesOn
<1>4. CASE WriteFails(c) /\ FlushFails(c)
  <2> DEFINE q == [p EXCEPT !.pc = IF p.cont = "end" THEN "after" ELSE "end",
                            !.err = "fatal", !.todo = {}, !.attempt = 0]
  <2>1. /\ q.pc \in {"after", "end"} /\ q.err = "fatal" /\ q.owner = p.owner
        /\ q.base = p.base /\ q.committed = p.committed /\ q.pos = p.pos
        /\ q.buffer = p.buffer
    BY <1>1 DEF ProcessState
  <2>2. Become(c, q)
    BY <1>4 DEF FlushFails
  <2> HIDE DEF q
  <2> QED BY <1>1, <2>1, <2>2, SessionGoesOn
<1> QED BY <1>2, <1>3, <1>4 DEF WriteFails

-----------------------------------------------------------------------------
(* Commits.                                                                *)

(* A commit the store acknowledged.                                        *)
LEMMA CommitOkJ ==
  ASSUME IInv, IInv', JInv, NEW c \in Collectors, CommitOk(c)
  PROVE  JInv'
<1> DEFINE p == col[c]
           q == [p EXCEPT !.committed = CallOf(c).replay,
                          !.buffer = {}, !.attempt = 0, !.cont = "select",
                          !.pc = CASE p.cont = "decode" -> "decode"
                                   [] p.cont = "end"    -> "after"
                                   [] OTHER             -> "select"]
<1>1. /\ p \in ProcessState /\ p.pc = "commit" /\ CommitScript(CallOf(c))
      /\ UNCHANGED <<lease, inflight, issued>>
  BY Before DEF CommitOk
<1>2. CallOf(c).replay = p.pos /\ p.pos \in Nat /\ p.cont \in Cont
  BY <1>1, OwnCall, FieldTypes
<1>3. /\ q.pc \in {"decode", "after", "select"} /\ q.owner = p.owner /\ q.base = p.base
      /\ q.committed = p.pos /\ q.pos = p.pos
  BY <1>1, <1>2 DEF ProcessState, Cont
<1>4. Become(c, q)
  BY DEF CommitOk
<1> HIDE DEF q
<1>5. StopOK(q)
  BY <1>2, <1>3, EventsEmpty DEF StopOK, Uncommitted, Nil
<1>6. q.pc \in Active \ {"open"}
  BY <1>3 DEF Active
<1> QED BY <1>1, <1>3, <1>4, <1>5, <1>6, CommitMoves

(* A process whose commit failed keeps what it knows and leaves.           *)
LEMMA FailedCommit ==
  ASSUME IInv, JInv, NEW c \in Collectors, col[c].pc = "commit", CommitFails(c)
  PROVE  \E q : /\ Become(c, q)
                /\ q.owner = col[c].owner /\ q.base = col[c].base /\ q.pos = col[c].pos
                /\ q.committed = col[c].committed
                /\ q.pc \in {"end", "after"} /\ Unsure(q) /\ StopOK(q)
<1> DEFINE p == col[c]
<1>1. /\ p \in ProcessState /\ ProcOK(p, archived) /\ StopOK(p)
  BY Before
<1>2. CASE p.cont = "keepalive"
  <2> DEFINE err == IF p.stop THEN "none" ELSE "fatal"
             q == [p EXCEPT !.pc = "end", !.err = err]
  <2>1. /\ q.pc = "end" /\ q.err = err /\ q.owner = p.owner /\ q.base = p.base
        /\ q.committed = p.committed /\ q.pos = p.pos /\ q.buffer = p.buffer /\ q.stop = p.stop
    BY <1>1 DEF ProcessState
  <2>2. Become(c, q)
    BY <1>2 DEF CommitFails, EndWith
  <2>3. p.buffer = {} /\ Uncommitted(p) \subseteq p.buffer
    BY <1>1, <1>2 DEF ProcOK, StopOK, InSession
  <2> HIDE DEF q
  <2>4. Unsure(q) /\ StopOK(q)
    BY <2>1, <2>3 DEF Unsure, Leaving, StopOK, Uncommitted
  <2> QED BY <2>1, <2>2, <2>4
<1>3. CASE p.cont # "keepalive"
  <2> DEFINE q == [p EXCEPT !.pc = IF p.cont = "end" THEN "after" ELSE "end",
                            !.err = "fatal", !.todo = {}, !.attempt = 0]
  <2>1. /\ q.pc \in {"after", "end"} /\ q.err = "fatal" /\ q.owner = p.owner
        /\ q.base = p.base /\ q.committed = p.committed /\ q.pos = p.pos
    BY <1>1 DEF ProcessState
  <2>2. Become(c, q)
    BY <1>3 DEF CommitFails, FlushFails
  <2> HIDE DEF q
  <2>3. Unsure(q) /\ StopOK(q)
    BY <2>1 DEF Unsure, Leaving, StopOK, InSession
  <2> QED BY <2>1, <2>2, <2>3
<1> QED BY <1>2, <1>3

(* The store says that the lease is lost, or a shutdown interrupts a       *)
(* keepalive's commit.                                                     *)
LEMMA CommitLostJ ==
  ASSUME IInv, IInv', JInv, NEW c \in Collectors, CommitLeaseLost(c) \/ KeepaliveInterrupted(c)
  PROVE  JInv'
<1>1. /\ col[c].pc = "commit" /\ CommitFails(c)
      /\ CommitScript(CallOf(c)) \/ UNCHANGED <<checkpoint, floor>>
      /\ UNCHANGED <<lease, inflight, issued>>
  BY DEF CommitLeaseLost, KeepaliveInterrupted, storeVars
<1>2. PICK q : /\ Become(c, q)
               /\ q.owner = col[c].owner /\ q.base = col[c].base /\ q.pos = col[c].pos
               /\ q.committed = col[c].committed
               /\ q.pc \in {"end", "after"} /\ Unsure(q) /\ StopOK(q)
  BY <1>1, FailedCommit
<1>3. q.pc \in Active \ {"open"}
  BY <1>2 DEF Active
<1> QED BY <1>1, <1>2, <1>3, CommitMoves

(* A commit attempt that errors, applied or not.                           *)
LEMMA CommitErrorsJ ==
  ASSUME IInv, IInv', JInv, NEW c \in Collectors, CommitErrors(c)
  PROVE  JInv'
<1>1. col[c].pc = "commit" /\ UNCHANGED <<lease, issued>> /\ StopOK(col[c])
  BY Before DEF CommitErrors
<1>2. PICK q : /\ Become(c, q)
               /\ q.owner = col[c].owner /\ q.base = col[c].base /\ q.pos = col[c].pos
               /\ q.committed = col[c].committed
               /\ q.pc \in {"commit", "end", "after"} /\ Unsure(q) /\ StopOK(q)
  <2>1. CASE UNCHANGED col
    <3>1. Become(c, col[c])
      BY <2>1 DEF Become, IInv, TypeOK
    <3> QED BY <1>1, <3>1 DEF Unsure
  <2>2. CASE CommitFails(c)
    BY <1>1, <2>2, FailedCommit
  <2> QED BY <2>1, <2>2 DEF CommitErrors
<1>3. \/ CommitScript(CallOf(c)) /\ inflight' = inflight
      \/ UNCHANGED <<checkpoint, floor, inflight>>
      \/ UNCHANGED <<checkpoint, floor>> /\ inflight' = inflight \cup {CallOf(c)} /\ MaxLate # 0
  <2>1. MaxLate = 0 => ~(Cardinality(inflight) < MaxLate)
    BY FS_EmptySet DEF JInv, MInv
  <2> QED BY <2>1 DEF CommitErrors
<1>4. q.pc \in Active \ {"open"}
  BY <1>2 DEF Active
<1> QED BY <1>1, <1>2, <1>3, <1>4, CommitMoves

(* A commit that arrives late: if its sender's token holds the lease, the  *)
(* stored range keeps its start.                                           *)
LEMMA CommitArrivesLateJ == ASSUME IInv, JInv, CommitArrivesLate PROVE JInv'
<1>1. PICK late \in inflight : LateCommit(late)
  BY DEF CommitArrivesLate
<1>2. /\ UNCHANGED <<lease, issued, col>> /\ inflight' \subseteq inflight /\ CallOK(late)
      /\ late.replay \in Nat /\ MaxLate # 0
  BY <1>1 DEF CommitArrivesLate, LateCommit, JInv, PInv, MInv, IInv, TypeOK, StoreTypeOK,
              CommitCall, ReplayId
<1>3. lease # late.owner => UNCHANGED <<checkpoint, floor>>
  BY <1>1 DEF LateCommit, CommitScript, Holds
<1>4. lease = late.owner => floor' = late.base
  BY <1>1 DEF LateCommit, CommitScript, Holds
<1>5. TokensOK' /\ SInv'
  BY <1>2 DEF JInv, PInv, TokensOK, Running, SInv
<1>6. ASSUME NEW d \in Collectors PROVE HolderOK(d)'
  <2>1. HolderOK(d)
    BY DEF JInv, PInv
  <2>2. CASE lease = late.owner
    BY <1>2, <1>4, <2>2 DEF HolderOK, CallOK, Running, Active
  <2>3. CASE lease # late.owner
    BY <1>2, <1>3, <2>1, <2>3 DEF HolderOK
  <2> QED BY <2>2, <2>3
<1>7. ASSUME NEW call \in inflight' PROVE CallOK(call)'
  <2>1. call \in inflight /\ CallOK(call)
    BY <1>2 DEF JInv, PInv
  <2>2. call.owner = late.owner => call.base = late.base
    BY <1>2, <2>1 DEF CallOK
  <2>3. lease' = call.owner /\ checkpoint' # Nil => call.base = floor'
    BY <1>2, <1>3, <1>4, <2>1, <2>2 DEF CallOK
  <2> QED BY <1>2, <2>1, <2>3 DEF CallOK, Running
<1> QED BY <1>2, <1>5, <1>6, <1>7 DEF JInv, PInv

-----------------------------------------------------------------------------
(* The end of a session, the operator, the topic.                          *)

(* The deferred flush, unless there is nothing to flush or a fatal error   *)
(* abandons it.                                                            *)
LEMMA EndSessionJ ==
  ASSUME IInv, IInv', JInv, NEW c \in Collectors, EndSession(c)
  PROVE  JInv'
<1> DEFINE p == col[c]
           q == [[p EXCEPT !.pc = "after", !.buffer = {}] EXCEPT !.respEnd = 0]
           r == [StartFlush(c, p.buffer, "end") EXCEPT !.respEnd = 0]
<1>1. p \in ProcessState /\ StopOK(p) /\ p.pc = "end" /\ UNCHANGED storeVars /\ p.pos \in Nat
  BY Before DEF EndSession
<1>2. /\ q.committed = p.committed /\ q.base = p.base /\ q.pos = p.pos /\ q.owner = p.owner
      /\ q.buffer = {} /\ q.pc = "after" /\ q.stop = p.stop /\ q.err = p.err
      /\ r.committed = p.committed /\ r.base = p.base /\ r.pos = p.pos /\ r.owner = p.owner
      /\ r.buffer = p.buffer /\ r.pc = "write"
  BY <1>1 DEF StartFlush, ProcessState
<1>3. \/ Become(c, q) /\ (p.buffer = {} \/ p.err = "fatal")
      \/ Become(c, r) /\ p.buffer # {} /\ p.err # "fatal"
  BY DEF EndSession
<1> HIDE DEF q, r
<1>4. CASE Become(c, q) /\ (p.buffer = {} \/ p.err = "fatal")
  <2>1. StopOK(q)
    BY <1>1, <1>2, <1>4 DEF StopOK, InSession, Uncommitted
  <2>2. Keeps(p, q)
    BY <1>1, <1>2, <1>4 DEF Keeps, Active, Unsure, Leaving, InSession
  <2> QED BY <1>1, <1>4, <2>1, <2>2, ProcessMoves DEF storeVars
<1>5. CASE Become(c, r) /\ p.buffer # {} /\ p.err # "fatal"
  <2>1. StopOK(r)
    BY <1>1, <1>2, <1>5 DEF StopOK, InSession, Uncommitted
  <2>2. Keeps(p, r)
    BY <1>1, <1>2, <1>5 DEF Keeps, Active, Unsure, Leaving, InSession
  <2> QED BY <1>1, <1>5, <2>1, <2>2, ProcessMoves DEF storeVars
<1> QED BY <1>3, <1>4, <1>5

(* Run leaves after a fatal error or a shutdown, and reconnects otherwise. *)
LEMMA AfterSessionJ ==
  ASSUME IInv, IInv', JInv, NEW c \in Collectors, AfterSession(c)
  PROVE  JInv'
<1> DEFINE p == col[c]
           exits == p.stop \/ p.err = "fatal"
           q == [p EXCEPT !.pc = IF exits THEN "release" ELSE "backoff",
                          !.code = IF p.err = "fatal" THEN "fatal"
                                   ELSE IF exits THEN "ok" ELSE "none",
                          !.err = "none", !.cont = "select", !.buffer = {}]
<1>1. p \in ProcessState /\ StopOK(p) /\ p.pc = "after" /\ UNCHANGED storeVars
  BY Before DEF AfterSession
<1>2. /\ q.committed = p.committed /\ q.base = p.base /\ q.pos = p.pos /\ q.owner = p.owner
      /\ q.stop = p.stop
      /\ q.pc = IF exits THEN "release" ELSE "backoff"
      /\ q.code = "ok" => p.stop /\ p.err # "fatal"
  BY <1>1 DEF ProcessState
<1>3. Become(c, q)
  BY DEF AfterSession
<1> HIDE DEF q
<1>4. StopOK(q)
  BY <1>1, <1>2 DEF StopOK, InSession, Uncommitted
<1>5. Keeps(p, q)
  BY <1>1, <1>2 DEF Keeps, Active, Unsure, Leaving, InSession
<1> QED BY <1>1, <1>3, <1>4, <1>5, ProcessMoves DEF storeVars

(* After the backoff nothing is uncommitted either.                        *)
LEMMA BackoffJ ==
  ASSUME IInv, IInv', JInv, NEW c \in Collectors, Backoff(c)
  PROVE  JInv'
<1> DEFINE p == col[c]
           q == [p EXCEPT !.pc = "open"]
           r == [p EXCEPT !.pc = "release", !.code = "ok"]
<1>1. p \in ProcessState /\ StopOK(p) /\ p.pc = "backoff" /\ UNCHANGED storeVars
  BY Before DEF Backoff
<1>2. /\ q.committed = p.committed /\ q.base = p.base /\ q.pos = p.pos /\ q.owner = p.owner
      /\ q.pc = "open"
      /\ r.committed = p.committed /\ r.base = p.base /\ r.pos = p.pos /\ r.owner = p.owner
      /\ r.pc = "release" /\ r.stop = p.stop
  BY <1>1 DEF ProcessState
<1>3. Become(c, q) \/ (Become(c, r) /\ p.stop)
  BY DEF Backoff
<1> HIDE DEF q, r
<1>4. StopOK(q) /\ (p.stop => StopOK(r))
  BY <1>1, <1>2 DEF StopOK, InSession, Uncommitted
<1>5. Keeps(p, q) /\ Keeps(p, r)
  BY <1>1, <1>2 DEF Keeps, Active, Unsure, Leaving, InSession
<1> QED BY <1>1, <1>3, <1>4, <1>5, ProcessMoves DEF storeVars

(* The operator's token is nobody else's, and clearing leaves no position  *)
(* to disagree about.                                                      *)
LEMMA OperatorJ == ASSUME IInv, JInv, OpAcquire \/ OpClear \/ OpRelease PROVE JInv'
<1>1. CASE OpAcquire
  <2>1. /\ lease' = issued + 1 /\ issued' = issued + 1 /\ issued \in Nat
        /\ UNCHANGED <<checkpoint, floor, inflight, col>>
    BY <1>1 DEF OpAcquire, SetNX, NewOwner, IInv, TypeOK, StoreTypeOK
  <2>2. \A d \in Collectors : col[d].owner \in Nat
    BY FieldTypes DEF IInv, TypeOK
  <2>3. TokensOK' /\ SInv'
    BY <2>1, <2>2 DEF JInv, PInv, TokensOK, Running, SInv
  <2>4. \A d \in Collectors : Running(d) => col[d].owner # lease'
    BY <2>1, <2>2 DEF JInv, PInv, TokensOK
  <2>5. \A d \in Collectors : HolderOK(d)'
    BY <2>1, <2>4 DEF HolderOK, Running, Active
  <2>6. ASSUME NEW call \in inflight PROVE CallOK(call)'
    <3>1. CallOK(call) /\ call.owner \in Nat
      BY DEF JInv, PInv, IInv, TypeOK, StoreTypeOK, CommitCall, Owners
    <3> QED BY <2>1, <3>1 DEF CallOK, Running
  <2>7. MaxLate = 0 => MInv'
    BY <2>1, <2>4 DEF JInv, MInv, AheadOK, Running, Active
  <2> QED BY <2>1, <2>3, <2>5, <2>6, <2>7 DEF JInv, PInv
<1>2. CASE OpClear
  <2>1. checkpoint' = Nil \/ UNCHANGED checkpoint
    BY <1>2 DEF OpClear, ClearScript
  <2>2. UNCHANGED <<lease, floor, inflight, issued, col>>
    BY <1>2 DEF OpClear, ClearScript
  <2> QED BY <2>1, <2>2 DEF JInv, PInv, TokensOK, HolderOK, CallOK, Running, MInv, AheadOK, SInv
<1>3. CASE OpRelease
  BY <1>3, LeaseGoes DEF OpRelease, ReleaseScript
<1> QED BY <1>1, <1>2, <1>3

-----------------------------------------------------------------------------
(* JInv holds initially: nothing is stored, nothing runs.                  *)
LEMMA InitJ == ASSUME Init PROVE JInv
<1>1. \A c \in Collectors : col[c].pc = "down"
  BY DEF Init, Down
<1>2. checkpoint = Nil /\ inflight = {}
  BY DEF Init, StoreInit
<1> QED BY <1>1, <1>2 DEF JInv, PInv, TokensOK, HolderOK, Running, MInv, AheadOK, SInv, StopOK,
                         InSession

(* JInv is inductive relative to IInv.                                     *)
LEMMA InductiveJ == ASSUME IInv, JInv, [Next]_vars PROVE JInv'
<1>0. IInv'
  BY Inductive
<1>1. CASE UNCHANGED vars
  BY <1>1, NothingMoves DEF vars
<1>2. CASE Environment
  BY <1>2, NothingMoves DEF Environment
<1>3. CASE LeaseLapses \/ LeaseExpires
  BY <1>3, LeaseGoes DEF LeaseLapses, LeaseExpires
<1>4. CASE CommitArrivesLate \/ OpAcquire \/ OpClear \/ OpRelease
  BY <1>4, CommitArrivesLateJ, OperatorJ
<1>5. ASSUME NEW c \in Collectors, Start(c) \/ Keepalive(c) \/ RenewLost(c) \/ Select(c)
      PROVE  JInv'
  BY <1>0, <1>5, StartJ, KeepaliveJ, LearnsJ, SelectJ
<1>6. ASSUME NEW c \in Collectors, Progress(c)
      PROVE  JInv'
  BY <1>0, <1>6, AcquireJ, LoadJ, OpenJ, OpenFailsJ, DecodeJ, ResponseJ, WriteJ, CommitOkJ,
     CommitLostJ, EndSessionJ, AfterSessionJ, BackoffJ, GoesDownJ DEF Progress
<1>7. ASSUME NEW c \in Collectors, Trouble(c)
      PROVE  JInv'
  BY <1>0, <1>7, GoesDownJ, LearnsJ, AcquireJ, LoadJ, OpenFailsJ, SelectJ, ResponseJ, WriteJ,
     CommitErrorsJ, CommitLostJ DEF Trouble
<1> QED BY <1>1, <1>2, <1>3, <1>4, <1>5, <1>6, <1>7 DEF Next

(* Both invariants hold in every reachable state.                          *)
LEMMA JInvHolds == Spec => [](IInv /\ JInv)
<1>1. Init => IInv /\ JInv
  BY InitOK, InitJ
<1>2. IInv /\ JInv /\ [Next]_vars => IInv' /\ JInv'
  BY Inductive, InductiveJ
<1> QED BY <1>1, <1>2, PTL DEF Spec

-----------------------------------------------------------------------------
(* What a step may do to the store and the archive: the archive grows, or  *)
(* the checkpoint is placed without moving the start of its range (nor     *)
(* back, without late commits), or it is cleared.                          *)
Stores == archived \subseteq archived' /\ UNCHANGED <<checkpoint, floor>>

Places ==
    /\ checkpoint' # Nil
    /\ checkpoint # Nil => floor' = floor
    /\ MaxLate = 0 /\ checkpoint # Nil => checkpoint <= checkpoint'
    /\ UNCHANGED archived

Clears == op.pc = "clear" /\ checkpoint' = Nil /\ UNCHANGED <<archived, floor>>

(* Every commit that reaches the store is of one of the three kinds.       *)
LEMMA CommitPlaces ==
  ASSUME IInv, JInv,
         \/ CommitArrivesLate
         \/ \E c \in Collectors : CommitOk(c) \/ CommitErrors(c) \/ KeepaliveInterrupted(c)
  PROVE  Stores \/ Places
<1>1. CASE CommitArrivesLate
  <2>1. PICK late \in inflight : LateCommit(late)
    BY <1>1 DEF CommitArrivesLate
  <2>2. CallOK(late) /\ late.replay \in Nat /\ MaxLate # 0
    BY <2>1 DEF JInv, PInv, MInv, IInv, TypeOK, StoreTypeOK, CommitCall, ReplayId
  <2> QED BY <1>1, <2>1, <2>2 DEF CommitArrivesLate, LateCommit, CommitScript, Holds, CallOK,
                                  Stores, Places, Nil
<1>2. ASSUME NEW c \in Collectors, CommitOk(c) \/ CommitErrors(c) \/ KeepaliveInterrupted(c)
      PROVE  Stores \/ Places
  <2>1. col[c].pc = "commit" /\ UNCHANGED archived
    BY <1>2 DEF CommitOk, CommitErrors, KeepaliveInterrupted
  <2>2. CommitScript(CallOf(c)) \/ UNCHANGED <<checkpoint, floor>>
    BY <1>2 DEF CommitOk, CommitErrors, KeepaliveInterrupted
  <2> QED BY <2>1, <2>2, OwnCall DEF CommitScript, Holds, Stores, Places, Nil
<1> QED BY <1>1, <1>2

(* Every step is of one of the three kinds.                                *)
LEMMA StepKinds == ASSUME IInv, JInv, [Next]_vars PROVE Stores \/ Places \/ Clears
<1>1. CASE UNCHANGED vars \/ Environment \/ LeaseLapses \/ LeaseExpires \/ OpAcquire \/ OpRelease
  BY <1>1 DEF vars, storeVars, Environment, LeaseLapses, LeaseExpires, OpAcquire, OpRelease, Stores
<1>2. CASE OpClear
  BY <1>2 DEF OpClear, ClearScript, Stores, Clears
<1>3. ASSUME NEW c \in Collectors, Start(c) \/ Keepalive(c) \/ RenewLost(c) \/ Select(c)
      PROVE  Stores
  BY <1>3 DEF Start, Keepalive, RenewLost, Select, SelectDone, SelectRenewErr, FlushTimer, Receive,
              storeVars, Stores
<1>4. ASSUME NEW c \in Collectors, Progress(c), ~CommitOk(c)
      PROVE  Stores
  <2>1. CASE \/ Acquire(c) \/ LoadResume(c) \/ LoadBootstrap(c) \/ LoadNoCheckpoint(c)
             \/ OpenCustom(c) \/ OpenRejected(c) \/ OpenPreset(c) \/ Release(c)
    <3>1. UNCHANGED <<archived, checkpoint, floor>>
      BY <2>1, Zenon DEF Acquire, LoadResume, LoadBootstrap, LoadNoCheckpoint, OpenCustom,
                         OpenRejected, OpenPreset, Release, storeVars
    <3> QED BY <3>1 DEF Stores
  <2>2. CASE \/ Decode(c) \/ ResponseDone(c) \/ Write(c) \/ CommitLeaseLost(c)
             \/ EndSession(c) \/ AfterSession(c) \/ Backoff(c)
    BY <2>2 DEF Decode, ResponseDone, Write, CommitLeaseLost, EndSession, AfterSession, Backoff,
                storeVars, Stores
  <2> QED BY <1>4, <2>1, <2>2 DEF Progress
<1>5. ASSUME NEW c \in Collectors, Trouble(c), ~CommitErrors(c), ~KeepaliveInterrupted(c)
      PROVE  Stores
  BY <1>5 DEF Trouble, Crash, Shutdown, AcquireUnknown, AcquireFails, LoadFails, OpenFails,
              RenewTimesOut, StreamEnds, DecodeSchemaFails, DecodeFails, WriteFails,
              storeVars, Stores
<1> QED BY <1>1, <1>2, <1>3, <1>4, <1>5, CommitPlaces DEF Next, Progress, Trouble

-----------------------------------------------------------------------------
(* The collectors together implement AtLeastOnce: whoever places the       *)
(* checkpoint does so where the archive is complete, and the start of the  *)
(* complete range stays where it is while a checkpoint is stored.          *)
THEOREM PromiseKept == Spec => KeepsPromise
<1>1. Init => Promise!Init
  BY DEF Init, StoreInit, Promise!Init, Promise!NoCursor, Nil
<1>2. IInv /\ JInv /\ [Next]_vars => [Promise!Next]_<<archived, checkpoint, floor>>
  <2> SUFFICES ASSUME IInv, JInv, [Next]_vars PROVE Promise!Next
    OBVIOUS
  <2>1. IInv'
    BY Inductive
  <2>2. CASE Stores
    BY <2>2 DEF Stores, Promise!Next, Promise!Store
  <2>3. CASE Places
    <3>1. EventsAfter(floor', checkpoint') \subseteq archived
      BY <2>1, <2>3 DEF Places, IInv, StoreOK, Covered
    <3> QED BY <2>3, <3>1 DEF Places, Promise!Next, Promise!Advance, Promise!NoCursor,
                              Promise!Events, EventsAfter, Nil
  <2>4. CASE Clears
    BY <2>4 DEF Clears, Promise!Next, Promise!Reset, Promise!NoCursor, Nil
  <2> QED BY <2>2, <2>3, <2>4, StepKinds
<1> QED BY <1>1, <1>2, JInvHolds, PTL DEF Spec, KeepsPromise, Promise!Spec

(* Without late commits the stored checkpoint never moves back: a process  *)
(* that lost its lease cannot move it, and the holder is ahead of it.      *)
THEOREM NeverMovesBack ==
  ASSUME MaxLate = 0
  PROVE  Spec => CheckpointMonotone
<1>1. IInv /\ JInv /\ [Next]_vars =>
         [checkpoint # Nil /\ checkpoint' # Nil => checkpoint' >= checkpoint]_vars
  <2> SUFFICES ASSUME IInv, JInv, [Next]_vars, checkpoint # Nil, checkpoint' # Nil
               PROVE  checkpoint' >= checkpoint
    OBVIOUS
  <2>1. IInv'
    BY Inductive
  <2>2. checkpoint \in Nat /\ checkpoint' \in Nat
    BY <2>1 DEF IInv, TypeOK, StoreTypeOK, ReplayId
  <2> QED BY <2>2, StepKinds DEF Stores, Places, Clears
<1> QED BY <1>1, JInvHolds, PTL DEF Spec, CheckpointMonotone

(* A process that exits cleanly was told to stop and leaves no event that  *)
(* it took from the stream without an acknowledged checkpoint behind it.   *)
THEOREM StopsClean == Spec => []CleanStop
<1>1. IInv /\ JInv => CleanStop
  BY DEF JInv, SInv, StopOK, Uncommitted, CleanStop
<1> QED BY <1>1, JInvHolds, PTL

(* The bounds of a takeover.                                               *)
Takeover ==
    /\ MaxLate = 0 /\ MaxResets = 0 /\ MaxExpired = 0
    /\ "LATEST" \notin Presets

(* Where a restart would resume.                                           *)
Stored == IF checkpoint = Nil THEN 0 ELSE checkpoint

(* Where the uncommitted events of a process begin.                        *)
Resumed(p) == IF p.committed = Nil THEN p.base ELSE p.committed

(* The process resumed no later than k, and has one batch in its hands,    *)
(* with room for another event while it consumes.                          *)
BatchOK(p, k) ==
    /\ p.committed # Nil => p.committed <= k
    /\ p.committed = Nil => p.base = 0 /\ (p.pc \in Active => p.preset = "EARLIEST")
    /\ IsFiniteSet(p.buffer) /\ Cardinality(p.buffer) <= MaxEvents
    /\ p.pc \in {"select", "decode"} => Cardinality(p.buffer) < MaxEvents
    /\ \A e \in p.buffer : EventType[e] # Foreign
    /\ p.pc = "write" => p.todo \subseteq p.buffer

(* Every event in A lies within one batch of k.                            *)
Near(A, k) ==
    /\ \A e \in A : EventType[e] # Foreign /\ Cardinality(EventsAfter(k, e)) <= MaxEvents
    /\ \E b \in Nat : \A e \in A : e <= b

(* Every process resumed no later than the stored position and holds at    *)
(* most one batch, so whatever it writes, now or later, lies within one    *)
(* batch of the stored position: with or without the lease.                *)
BInv ==
    /\ oldest = 1 /\ op.pc = "idle" /\ resets = 0
    /\ \A c \in Collectors : BatchOK(col[c], Stored)
    /\ Near(archived, Stored)

(* The events after a later place are fewer.                               *)
LEMMA EventsFewer ==
  ASSUME NEW a \in Nat, NEW b \in Nat, a <= b, NEW e \in Nat
  PROVE  /\ IsFiniteSet(EventsAfter(a, e)) /\ Cardinality(EventsAfter(a, e)) \in Nat
         /\ Cardinality(EventsAfter(b, e)) \in Nat
         /\ Cardinality(EventsAfter(b, e)) <= Cardinality(EventsAfter(a, e))
<1>1. EventsAfter(b, e) \in SUBSET EventsAfter(a, e)
  BY DEF EventsAfter
<1>2. IsFiniteSet(EventsAfter(a, e))
  <2>1. IsFiniteSet((a + 1)..e)
    BY FS_Interval
  <2>2. EventsAfter(a, e) \in SUBSET ((a + 1)..e)
    BY DEF EventsAfter
  <2> QED BY <2>1, <2>2, FS_Subset
<1>3. IsFiniteSet(EventsAfter(b, e)) /\ Cardinality(EventsAfter(b, e)) <= Cardinality(EventsAfter(a, e))
  BY <1>1, <1>2, FS_Subset
<1> QED BY <1>2, <1>3, FS_CardinalityType

(* There is room in an empty batch.                                        *)
LEMMA EmptyBatch == IsFiniteSet({}) /\ Cardinality({}) <= MaxEvents /\ Cardinality({}) < MaxEvents
<1>1. IsFiniteSet({}) /\ Cardinality({}) = 0
  BY FS_EmptySet
<1>2. MaxEvents \in Nat \ {0}
  BY SubscriberAssumption
<1> QED BY <1>1, <1>2

(* What lies within one batch does so too when the place moves forward.    *)
LEMMA NearForward ==
  ASSUME NEW A \in SUBSET Nat, NEW k \in Nat, NEW m \in Nat, k <= m, Near(A, k)
  PROVE  Near(A, m)
<1>1. ASSUME NEW e \in A PROVE Cardinality(EventsAfter(m, e)) <= MaxEvents
  <2>1. Cardinality(EventsAfter(k, e)) <= MaxEvents /\ e \in Nat /\ MaxEvents \in Nat
    BY SubscriberAssumption DEF Near
  <2> DEFINE x == Cardinality(EventsAfter(m, e))
             y == Cardinality(EventsAfter(k, e))
  <2>2. x \in Nat /\ y \in Nat /\ x <= y
    BY <2>1, EventsFewer
  <2> HIDE DEF x, y
  <2>3. y <= MaxEvents
    BY <2>1 DEF y
  <2>4. x <= MaxEvents
    BY <2>1, <2>2, <2>3
  <2> QED BY <2>4 DEF x
<1> QED BY <1>1 DEF Near

(* A process that resumed no later than k resumed no later than m >= k.    *)
LEMMA BatchForward ==
  ASSUME NEW p \in ProcessState, NEW k \in Nat, NEW m \in Nat, k <= m, BatchOK(p, k)
  PROVE  BatchOK(p, m)
<1>1. p.committed \in Nat \cup {Nil}
  BY FieldTypes
<1>2. p.committed # Nil => p.committed <= m
  BY <1>1 DEF BatchOK, Nil
<1> QED BY <1>2 DEF BatchOK

(* The set beyond k of a set that is near k is no larger than a batch.     *)
LEMMA NearIsSmall ==
  ASSUME NEW A \in SUBSET Nat, NEW k \in Nat, Near(A, k)
  PROVE  Cardinality({e \in A : e > k}) <= MaxEvents
<1> DEFINE S == {e \in A : e > k}
           T == {n \in Nat : \A e \in S : e <= n}
           R == {ss \in Nat \X Nat : ss[1] < ss[2]}
<1>0. MaxEvents \in Nat
  BY SubscriberAssumption
<1>1. CASE S = {}
  BY <1>0, <1>1, FS_EmptySet
<1>2. CASE S # {}
  <2>1. T # {} /\ T \in SUBSET Nat
    BY DEF Near
  <2>2. IsWellFoundedOn(R, Nat)
    BY NatLessThanWellFounded DEF OpToRel
  <2>3. PICK n \in T : \A m \in T : ~(<<m, n>> \in R)
    <3> HIDE DEF R, T
    <3> QED BY <2>1, <2>2, WFMin
  <2>4. n \in Nat /\ \A e \in S : e <= n
    OBVIOUS
  <2>5. n \in S
    <3> SUFFICES ASSUME n \notin S PROVE FALSE
      OBVIOUS
    <3>1. PICK e \in S : TRUE
      BY <1>2
    <3>2. e \in Nat /\ e > k /\ e <= n
      BY <2>4, <3>1
    <3>3. n - 1 \in Nat /\ n - 1 < n
      BY <2>4, <3>2
    <3>4. \A d \in S : d <= n - 1
      BY <2>4
    <3>5. n - 1 \in T /\ <<n - 1, n>> \in R
      BY <2>4, <3>3, <3>4
    <3> QED BY <2>3, <3>5
  <2>6. S \in SUBSET EventsAfter(k, n)
    <3>1. ASSUME NEW e \in S PROVE e \in EventsAfter(k, n)
      <4>1. e \in Nat /\ e > k /\ e <= n /\ EventType[e] # Foreign
        BY <2>4 DEF Near
      <4> QED BY <2>4, <4>1 DEF EventsAfter
    <3> QED BY <3>1
  <2> DEFINE x == Cardinality(S)
             y == Cardinality(EventsAfter(k, n))
  <2>7. IsFiniteSet(EventsAfter(k, n)) /\ y \in Nat
    <3>1. n \in Nat /\ k \in Nat /\ k <= k
      BY <2>4
    <3> HIDE DEF S, T, R
    <3> QED BY ONLY <3>1, EventsFewer
  <2>8. y <= MaxEvents
    BY <2>5 DEF Near
  <2>9. IsFiniteSet(S) /\ x <= y
    BY <2>6, <2>7, FS_Subset
  <2>10. x \in Nat
    BY <2>9, FS_CardinalityType
  <2> HIDE DEF x, y
  <2>11. x <= MaxEvents
    BY <1>0, <2>7, <2>8, <2>9, <2>10
  <2> QED BY <2>11 DEF x
<1> QED BY <1>1, <1>2

-----------------------------------------------------------------------------
(* The stored position, in a state and after a step.                       *)
LEMMA StoredType == ASSUME IInv PROVE Stored \in Nat
BY DEF IInv, TypeOK, StoreTypeOK, ReplayId, Stored

(* Without resets and late commits the stored position only grows.         *)
LEMMA StoredGrows ==
  ASSUME Takeover, IInv, JInv, BInv, [Next]_vars
  PROVE  Stored <= Stored' /\ Stored \in Nat /\ Stored' \in Nat
<1>1. IInv'
  BY Inductive
<1>2. Stored \in Nat /\ Stored' \in Nat
  BY <1>1, StoredType DEF Stored, IInv, TypeOK, StoreTypeOK, ReplayId
<1>3. Stores \/ Places
  BY StepKinds DEF Clears, BInv
<1>4. Stored <= Stored'
  <2>1. CASE Stores
    BY <1>2, <2>1 DEF Stores, Stored
  <2>2. CASE Places
    BY <1>2, <2>2 DEF Places, Stored, Takeover
  <2> QED BY <1>3, <2>1, <2>2
<1> QED BY <1>2, <1>4

(* A process moves, and neither the archive nor the topic changes.         *)
LEMMA BatchStep ==
  ASSUME Takeover, IInv, JInv, BInv, [Next]_vars, NEW c \in Collectors, NEW q, Become(c, q),
         BatchOK(q, Stored'), UNCHANGED <<oldest, op, resets, archived>>
  PROVE  BInv'
<1>1. \A d \in Collectors : col'[d] = IF d = c THEN q ELSE col[d]
  BY DEF Become, IInv, TypeOK
<1>2. Stored <= Stored' /\ Stored \in Nat /\ Stored' \in Nat
  BY StoredGrows
<1>3. ASSUME NEW d \in Collectors PROVE BatchOK(col'[d], Stored')
  <2>1. BatchOK(col[d], Stored) /\ col[d] \in ProcessState
    BY DEF BInv, IInv, TypeOK
  <2>2. BatchOK(col[d], Stored')
    BY <1>2, <2>1, BatchForward
  <2> QED BY <1>1, <2>2
<1>4. Near(archived', Stored')
  <2>1. archived \in SUBSET Nat /\ Near(archived, Stored)
    BY DEF IInv, TypeOK, ReplayId, BInv
  <2> QED BY <1>2, <2>1, NearForward
<1> QED BY <1>3, <1>4 DEF BInv

(* What most steps do to a batch: they keep it or drop it.                 *)
Carries(p, q) ==
    /\ q.committed = p.committed /\ q.base = p.base /\ q.preset = p.preset
    /\ q.buffer = p.buffer \/ q.buffer = {}
    /\ q.pc \in {"select", "decode"} => q.buffer = {} \/ p.pc \in {"select", "decode"}
    /\ q.pc \in Active => p.pc \in Active
    /\ q.pc = "write" => q.todo \subseteq q.buffer

(* A process that keeps or drops its batch, whatever the store does.       *)
LEMMA CarriedBatch ==
  ASSUME Takeover, IInv, JInv, BInv, [Next]_vars, NEW c \in Collectors, NEW q, Become(c, q),
         Carries(col[c], q), UNCHANGED <<oldest, op, resets, archived>>
  PROVE  BInv'
<1> DEFINE p == col[c]
<1>1. Stored <= Stored' /\ Stored \in Nat /\ Stored' \in Nat
  BY StoredGrows
<1>2. BatchOK(p, Stored')
  <2>1. BatchOK(p, Stored) /\ p \in ProcessState
    BY DEF BInv, IInv, TypeOK
  <2> QED BY <1>1, <2>1, BatchForward
<1>3. IsFiniteSet({}) /\ Cardinality({}) <= MaxEvents /\ Cardinality({}) < MaxEvents
  BY EmptyBatch
<1> HIDE DEF p
<1>4. Carries(p, q)
  BY DEF p
<1>5. BatchOK(q, Stored')
  BY <1>2, <1>3, <1>4 DEF BatchOK, Carries
<1> QED BY <1>5, BatchStep

(* A process that is down or just started has nothing in its hands.        *)
LEMMA DownB ==
  ASSUME Takeover, IInv, JInv, BInv, [Next]_vars, NEW c \in Collectors,
         Start(c) \/ Crash(c) \/ AcquireFails(c) \/ Release(c)
  PROVE  BInv'
<1>1. IsFiniteSet({}) /\ Cardinality({}) <= MaxEvents /\ Cardinality({}) < MaxEvents
  BY EmptyBatch
<1>2. \A code : BatchOK(Down(code), Stored')
  BY <1>1 DEF BatchOK, Down, Active
<1>3. \A o : BatchOK([Down("none") EXCEPT !.pc = "acquire", !.owner = o], Stored')
  BY <1>1 DEF BatchOK, Down, Active
<1>4. CASE Start(c)
  BY <1>3, <1>4, BatchStep DEF Start, topicVars
<1>5. CASE Crash(c)
  BY <1>2, <1>5, BatchStep DEF Crash, topicVars
<1>6. CASE AcquireFails(c)
  BY <1>2, <1>6, BatchStep DEF AcquireFails, topicVars
<1>7. CASE Release(c)
  BY <1>2, <1>7, BatchStep DEF Release, topicVars
<1> QED BY <1>4, <1>5, <1>6, <1>7

(* A process learns something and its batch stays as it is.                *)
LEMMA LearnsB ==
  ASSUME Takeover, IInv, JInv, BInv, [Next]_vars, NEW c \in Collectors,
         Shutdown(c) \/ RenewLost(c) \/ RenewTimesOut(c)
  PROVE  BInv'
<1> DEFINE p == col[c]
           q == [p EXCEPT !.stop = TRUE]
           r == [p EXCEPT !.renew = "failed"]
<1>1. p \in ProcessState /\ BatchOK(p, Stored)
  BY DEF IInv, TypeOK, BInv
<1>2. Carries(p, q) /\ Carries(p, r)
  BY <1>1 DEF Carries, ProcessState, BatchOK
<1>3. Become(c, q) \/ Become(c, r)
  BY DEF Shutdown, RenewLost, RenewTimesOut
<1>4. UNCHANGED <<oldest, op, resets, archived>>
  BY DEF Shutdown, RenewLost, RenewTimesOut, topicVars
<1> HIDE DEF q, r
<1> QED BY <1>2, <1>3, <1>4, CarriedBatch

(* The lease is taken, or the answer is lost; the batch is empty.          *)
LEMMA AcquireB ==
  ASSUME Takeover, IInv, JInv, BInv, [Next]_vars, NEW c \in Collectors,
         Acquire(c) \/ AcquireUnknown(c)
  PROVE  BInv'
<1> DEFINE p == col[c]
           q == [p EXCEPT !.pc = "load"]
<1>1. p \in ProcessState /\ BatchOK(p, Stored) /\ p.pc = "acquire"
  BY DEF IInv, TypeOK, BInv, Acquire, AcquireUnknown
<1>2. UNCHANGED <<oldest, op, resets, archived>>
  BY DEF Acquire, AcquireUnknown, topicVars
<1>3. CASE Acquire(c)
  <2>1. Carries(p, q)
    BY <1>1 DEF Carries, ProcessState, Active
  <2> QED BY <1>2, <1>3, <2>1, CarriedBatch DEF Acquire
<1>4. CASE UNCHANGED col
  <2>1. Carries(p, p) /\ Become(c, p)
    BY <1>1, <1>4 DEF Carries, Become, IInv, TypeOK
  <2> QED BY <1>2, <2>1, CarriedBatch
<1>5. CASE Become(c, Down(IF p.stop THEN "ok" ELSE "fatal"))
  <2>1. IsFiniteSet({}) /\ Cardinality({}) <= MaxEvents
    BY EmptyBatch
  <2>2. \A code : BatchOK(Down(code), Stored')
    BY <2>1 DEF BatchOK, Down, Active
  <2> QED BY <1>2, <1>5, <2>2, BatchStep
<1> QED BY <1>3, <1>4, <1>5 DEF AcquireUnknown

(* Reading the checkpoint: the process resumes at the stored position, or  *)
(* at the earliest event.                                                  *)
LEMMA LoadB ==
  ASSUME Takeover, IInv, JInv, BInv, [Next]_vars, NEW c \in Collectors,
         LoadResume(c) \/ LoadBootstrap(c) \/ LoadNoCheckpoint(c) \/ LoadFails(c)
  PROVE  BInv'
<1> DEFINE p == col[c]
<1>1. p \in ProcessState /\ BatchOK(p, Stored) /\ p.pc = "load" /\ StopOK(p) /\ p.buffer = {}
  BY Before DEF BInv, LoadResume, LoadBootstrap, LoadNoCheckpoint, LoadFails, ProcOK, Unbuffered
<1>2. UNCHANGED <<oldest, op, resets, archived, checkpoint>> /\ Stored' = Stored
  BY DEF LoadResume, LoadBootstrap, LoadNoCheckpoint, LoadFails, topicVars, storeVars, Stored
<1>3. CASE LoadResume(c)
  <2> DEFINE q == [p EXCEPT !.pc = "open", !.renew = "running", !.committed = checkpoint,
                            !.pos = checkpoint, !.base = floor]
  <2>1. q.committed = checkpoint /\ q.pc = "open" /\ q.buffer = p.buffer
    BY <1>1 DEF ProcessState
  <2>2. Become(c, q) /\ checkpoint # Nil /\ Stored = checkpoint /\ checkpoint \in Nat
    BY <1>3 DEF LoadResume, Stored, IInv, TypeOK, StoreTypeOK, ReplayId
  <2> HIDE DEF q
  <2>3. BatchOK(q, Stored')
    BY <1>1, <1>2, <2>1, <2>2 DEF BatchOK
  <2> QED BY <1>2, <2>2, <2>3, BatchStep
<1>4. CASE LoadBootstrap(c)
  <2>1. PICK preset \in Presets \ {""} :
           Become(c, [p EXCEPT !.pc = "open", !.renew = "running", !.preset = preset])
    BY <1>4 DEF LoadBootstrap
  <2>2. preset = "EARLIEST"
    BY SubscriberAssumption DEF Takeover
  <2> DEFINE q == [p EXCEPT !.pc = "open", !.renew = "running", !.preset = preset]
  <2>3. /\ q.committed = p.committed /\ q.pc = "open" /\ q.buffer = p.buffer /\ q.base = p.base
        /\ q.preset = preset
    BY <1>1 DEF ProcessState
  <2>4. Become(c, q)
    BY <2>1
  <2> HIDE DEF q
  <2>5. BatchOK(q, Stored')
    BY <1>1, <1>2, <2>2, <2>3 DEF BatchOK
  <2> QED BY <1>2, <2>4, <2>5, BatchStep
<1>5. CASE LoadNoCheckpoint(c) \/ LoadFails(c)
  <2>1. PICK code : Become(c, [p EXCEPT !.pc = "release", !.code = code])
    BY <1>5 DEF LoadNoCheckpoint, LoadFails
  <2> DEFINE q == [p EXCEPT !.pc = "release", !.code = code]
  <2>2. Carries(p, q)
    BY <1>1 DEF Carries, ProcessState, Active
  <2>3. Become(c, q)
    BY <2>1
  <2> HIDE DEF q
  <2> QED BY <1>2, <2>2, <2>3, CarriedBatch
<1> QED BY <1>3, <1>4, <1>5

(* The stream opens at the position the process resumed from.              *)
LEMMA OpenB ==
  ASSUME Takeover, IInv, JInv, BInv, [Next]_vars, NEW c \in Collectors,
         OpenCustom(c) \/ OpenPreset(c) \/ OpenRejected(c) \/ OpenFails(c)
  PROVE  BInv'
<1> DEFINE p == col[c]
<1>1. p \in ProcessState /\ BatchOK(p, Stored) /\ p.pc = "open" /\ p.buffer = {}
  BY Before DEF BInv, OpenCustom, OpenPreset, OpenRejected, OpenFails, ProcOK, Unbuffered
<1>2. UNCHANGED <<oldest, op, resets, archived>>
  BY DEF OpenCustom, OpenPreset, OpenRejected, OpenFails, topicVars
<1>3. CASE OpenCustom(c)
  <2> DEFINE q == [p EXCEPT !.pc = "select", !.pos = p.committed]
  <2>1. Carries(p, q)
    BY <1>1 DEF Carries, ProcessState, Active
  <2>2. Become(c, q)
    BY <1>3 DEF OpenCustom
  <2> HIDE DEF q
  <2> QED BY <1>2, <2>1, <2>2, CarriedBatch
<1>4. CASE OpenPreset(c)
  <2>1. p.committed = Nil /\ p.preset = "EARLIEST" /\ p.base = 0
    BY <1>1, <1>4 DEF OpenPreset, BatchOK, Active
  <2>2. StartEarliest = 0
    BY DEF StartEarliest, BInv
  <2> DEFINE q == [p EXCEPT !.pc = "select", !.base = 0, !.pos = 0]
  <2>3. Become(c, q)
    BY <1>4, <2>1, <2>2 DEF OpenPreset
  <2>4. Carries(p, q)
    BY <1>1, <2>1 DEF Carries, ProcessState, Active
  <2> HIDE DEF q
  <2> QED BY <1>2, <2>3, <2>4, CarriedBatch
<1>5. CASE OpenRejected(c) \/ OpenFails(c)
  <2>1. PICK pc \in {"end", "after"}, err \in {"retry", "fatal"} :
           Become(c, [p EXCEPT !.pc = pc, !.err = err])
    BY <1>5 DEF OpenRejected, OpenFails, EndWith
  <2> DEFINE q == [p EXCEPT !.pc = pc, !.err = err]
  <2>2. Carries(p, q)
    BY <1>1 DEF Carries, ProcessState, Active
  <2>3. Become(c, q)
    BY <2>1
  <2> HIDE DEF q
  <2> QED BY <1>2, <2>2, <2>3, CarriedBatch
<1> QED BY <1>3, <1>4, <1>5

(* The select loop hands the batch on to a flush or to the decoder.        *)
LEMMA SelectB ==
  ASSUME Takeover, IInv, JInv, BInv, [Next]_vars, NEW c \in Collectors,
         Select(c) \/ StreamEnds(c) \/ Keepalive(c)
  PROVE  BInv'
<1> DEFINE p == col[c]
<1>1. p \in ProcessState /\ BatchOK(p, Stored) /\ p.pc = "select"
  BY DEF IInv, TypeOK, BInv, Select, SelectDone, SelectRenewErr, FlushTimer, Receive, StreamEnds, Keepalive
<1>2. UNCHANGED <<oldest, op, resets, archived>>
  BY DEF Select, SelectDone, SelectRenewErr, FlushTimer, Receive, StreamEnds, Keepalive, topicVars
<1>3. CASE SelectDone(c) \/ SelectRenewErr(c) \/ StreamEnds(c)
  <2>1. PICK err \in {"none", "retry", "fatal"} : Become(c, [p EXCEPT !.pc = "end", !.err = err])
    BY <1>3 DEF SelectDone, SelectRenewErr, StreamEnds, EndWith
  <2> DEFINE q == [p EXCEPT !.pc = "end", !.err = err]
  <2>2. Carries(p, q)
    BY <1>1 DEF Carries, ProcessState, Active
  <2>3. Become(c, q)
    BY <2>1
  <2> HIDE DEF q
  <2> QED BY <1>2, <2>2, <2>3, CarriedBatch
<1>4. CASE FlushTimer(c)
  <2> DEFINE q == StartFlush(c, p.buffer, "select")
  <2>1. Carries(p, q)
    BY <1>1 DEF Carries, ProcessState, Active, StartFlush
  <2>2. Become(c, q)
    BY <1>4 DEF FlushTimer
  <2> HIDE DEF q
  <2> QED BY <1>2, <2>1, <2>2, CarriedBatch
<1>5. CASE Receive(c)
  <2>1. PICK e : Become(c, [p EXCEPT !.pc = "decode", !.respEnd = e])
    BY <1>5 DEF Receive
  <2> DEFINE q == [p EXCEPT !.pc = "decode", !.respEnd = e]
  <2>2. Carries(p, q)
    BY <1>1 DEF Carries, ProcessState, Active
  <2>3. Become(c, q)
    BY <2>1
  <2> HIDE DEF q
  <2> QED BY <1>2, <2>2, <2>3, CarriedBatch
<1>6. CASE Keepalive(c)
  <2> DEFINE q == [p EXCEPT !.pc = "commit", !.pos = head, !.cont = "keepalive"]
  <2>1. Carries(p, q)
    BY <1>1 DEF Carries, ProcessState, Active
  <2>2. Become(c, q)
    BY <1>6 DEF Keepalive
  <2> HIDE DEF q
  <2> QED BY <1>2, <2>1, <2>2, CarriedBatch
<1> QED BY <1>3, <1>4, <1>5, <1>6 DEF Select

(* One more event fits into the batch, or fills it; then it is flushed.    *)
LEMMA DecodeB ==
  ASSUME Takeover, IInv, JInv, BInv, [Next]_vars, NEW c \in Collectors, Decode(c)
  PROVE  BInv'
<1> DEFINE p == col[c]
<1>1. p \in ProcessState /\ BatchOK(p, Stored) /\ p.pc = "decode"
  BY DEF IInv, TypeOK, BInv, Decode
<1>2. UNCHANGED <<oldest, op, resets, archived, checkpoint>> /\ Stored' = Stored
  BY DEF Decode, topicVars, storeVars, Stored
<1>3. PICK e \in 1..head : IsNextEvent(c, e) /\ Become(c, Appended(c, e, MaxEvents))
  BY DEF Decode
<1>4. EventType[e] # Foreign
  BY <1>3 DEF IsNextEvent, EventsAfter
<1> DEFINE more == p.buffer \cup {e}
           n == Cardinality(p.buffer)
           m == Cardinality(more)
<1>5. IsFiniteSet(p.buffer) /\ n < MaxEvents
  BY <1>1 DEF BatchOK
<1>6. IsFiniteSet(more) /\ (m = n \/ m = n + 1) /\ n \in Nat /\ m \in Nat
  <2>1. IsFiniteSet(more) /\ m = IF e \in p.buffer THEN n ELSE n + 1
    BY <1>5, FS_AddElement
  <2> QED BY <1>5, <2>1, FS_CardinalityType
<1>7. MaxEvents \in Nat
  BY SubscriberAssumption
<1> DEFINE q == Appended(c, e, MaxEvents)
<1>8. /\ q.base = p.base /\ q.committed = p.committed /\ q.preset = p.preset /\ q.buffer = more
      /\ \/ q.pc = "write" /\ q.todo = more
         \/ q.pc = "decode" /\ ~(m >= MaxEvents)
  <2>1. CASE m >= MaxEvents
    BY <1>1, <2>1 DEF ProcessState, Appended, StartFlush
  <2>2. CASE ~(m >= MaxEvents)
    BY <1>1, <2>2 DEF ProcessState, Appended
  <2> QED BY <2>1, <2>2
<1> HIDE DEF q
<1>9. Become(c, q)
  BY <1>3 DEF q
<1>10. m <= MaxEvents /\ (~(m >= MaxEvents) => m < MaxEvents)
  <2> HIDE DEF n, m
  <2> QED BY <1>5, <1>6, <1>7
<1>11. \A x \in more : EventType[x] # Foreign
  BY <1>1, <1>4 DEF BatchOK
<1>12. BatchOK(q, Stored')
  <2> HIDE DEF p
  <2>1. BatchOK(p, Stored) /\ p.pc \in Active
    BY <1>1 DEF Active
  <2> DEFINE M == more
  <2>2. q.buffer = M /\ IsFiniteSet(M) /\ Cardinality(M) <= MaxEvents /\ (q.pc = "decode" => Cardinality(M) < MaxEvents)
        /\ (q.pc = "write" => q.todo = M) /\ (\A x \in M : EventType[x] # Foreign) /\ q.pc \in {"write", "decode"}
    BY <1>6, <1>8, <1>10, <1>11
  <2> HIDE DEF M
  <2> QED BY <1>2, <1>8, <2>1, <2>2 DEF BatchOK
<1> QED BY <1>2, <1>9, <1>12, BatchStep

(* At the end of a response the batch stays, or is flushed.                *)
LEMMA ResponseB ==
  ASSUME Takeover, IInv, JInv, BInv, [Next]_vars, NEW c \in Collectors,
         DecodeSchemaFails(c) \/ DecodeFails(c) \/ ResponseDone(c)
  PROVE  BInv'
<1> DEFINE p == col[c]
<1>1. p \in ProcessState /\ p.pc = "decode"
  BY DEF IInv, TypeOK, DecodeSchemaFails, DecodeFails, ResponseDone
<1>2. UNCHANGED <<oldest, op, resets, archived>>
  BY DEF DecodeSchemaFails, DecodeFails, ResponseDone, topicVars
<1>3. CASE DecodeSchemaFails(c) \/ DecodeFails(c)
  <2>1. PICK err : Become(c, [p EXCEPT !.pc = "end", !.err = err])
    BY <1>3 DEF DecodeSchemaFails, DecodeFails, EndWith
  <2> DEFINE q == [p EXCEPT !.pc = "end", !.err = err]
  <2>2. Carries(p, q)
    BY <1>1 DEF Carries, ProcessState, Active
  <2>3. Become(c, q)
    BY <2>1
  <2> HIDE DEF q
  <2> QED BY <1>2, <2>2, <2>3, CarriedBatch
<1>4. CASE ResponseDone(c)
  <2> DEFINE q == [StartFlush(c, p.buffer, "select") EXCEPT !.respEnd = 0]
             r == [p EXCEPT !.pc = "select", !.respEnd = 0]
  <2>1. Carries(p, q) /\ Carries(p, r)
    BY <1>1 DEF Carries, ProcessState, Active, StartFlush
  <2>2. Become(c, q) \/ Become(c, r)
    BY <1>4 DEF ResponseDone
  <2> HIDE DEF q, r
  <2> QED BY <1>2, <2>1, <2>2, CarriedBatch
<1> QED BY <1>3, <1>4

(* What a flush writes lies within one batch of where its process resumed, *)
(* and so of the stored position, even if that has moved on since.         *)
LEMMA WriteB ==
  ASSUME Takeover, IInv, JInv, BInv, [Next]_vars, NEW c \in Collectors, Write(c) \/ WriteFails(c)
  PROVE  BInv'
<1> DEFINE p == col[c]
           group == Group(p.todo)
<1>1. /\ p \in ProcessState /\ BatchOK(p, Stored) /\ p.pc = "write"
      /\ ProcOK(p, archived) /\ StopOK(p)
      /\ p.pos \in Nat /\ p.base \in Nat /\ p.committed \in Nat \cup {Nil} /\ p.buffer \subseteq Nat
  BY Before, FieldTypes DEF BInv, Write, WriteFails
<1>2. /\ UNCHANGED <<oldest, op, resets, checkpoint>> /\ Stored' = Stored
      /\ archived' \subseteq archived \cup group
  BY DEF Write, WriteFails, topicVars, storeVars, Stored
<1>3. Stored \in Nat
  BY StoredType
<1>4. ASSUME NEW e \in group
      PROVE  e \in p.buffer /\ e \in Nat /\ e <= p.pos /\ EventType[e] # Foreign
             /\ Cardinality(EventsAfter(Stored, e)) <= MaxEvents
  <2>1. e \in p.buffer
    BY <1>1 DEF Group, BatchOK
  <2>2. e \in Nat /\ e <= p.pos /\ EventType[e] # Foreign
    BY <1>1, <2>1 DEF ProcOK, BatchOK
  <2>3. Resumed(p) \in Nat /\ Resumed(p) <= Stored
    BY <1>1, <1>3 DEF Resumed, BatchOK
  <2>4. EventsAfter(Resumed(p), p.pos) \subseteq p.buffer
    BY <1>1 DEF StopOK, InSession, Uncommitted, Resumed
  <2>5. EventsAfter(Resumed(p), e) \in SUBSET p.buffer
    <3>1. EventsAfter(Resumed(p), e) \subseteq EventsAfter(Resumed(p), p.pos)
      BY <1>1, <2>2, <2>3 DEF EventsAfter
    <3> QED BY <2>4, <3>1
  <2> DEFINE x == Cardinality(EventsAfter(Stored, e))
             y == Cardinality(EventsAfter(Resumed(p), e))
             z == Cardinality(p.buffer)
  <2>6. x \in Nat /\ y \in Nat /\ x <= y
    BY <1>3, <2>2, <2>3, EventsFewer
  <2>7. y <= z /\ z \in Nat /\ z <= MaxEvents
    BY <1>1, <2>5, FS_Subset, FS_CardinalityType DEF BatchOK
  <2>8. MaxEvents \in Nat
    BY SubscriberAssumption
  <2> HIDE DEF x, y, z
  <2>9. x <= MaxEvents
    BY <2>6, <2>7, <2>8
  <2> QED BY <2>1, <2>2, <2>9 DEF x
<1>5. Near(archived', Stored')
  <2>1. \A e \in archived' : EventType[e] # Foreign /\ Cardinality(EventsAfter(Stored, e)) <= MaxEvents
    BY <1>2, <1>4 DEF BInv, Near
  <2>2. PICK b \in Nat : \A e \in archived : e <= b
    BY DEF BInv, Near
  <2> DEFINE d == IF b <= p.pos THEN p.pos ELSE b
  <2>3. d \in Nat /\ b <= d /\ p.pos <= d
    BY <1>1
  <2>4. \A e \in archived' : e <= d
    <3>1. archived \subseteq Nat
      BY DEF IInv, TypeOK, ReplayId
    <3>2. p.pos \in Nat
      BY <1>1
    <3>3. \A e \in group : e \in Nat /\ e <= p.pos
      BY <1>4
    <3>4. archived' \subseteq archived \cup group
      BY <1>2
    <3> HIDE DEF d, group, p
    <3>5. ASSUME NEW e \in archived PROVE e <= d
      BY <2>2, <2>3, <3>1
    <3>6. ASSUME NEW e \in group PROVE e <= d
      BY <2>3, <3>2, <3>3
    <3> QED BY <3>4, <3>5, <3>6
  <2> QED BY <1>2, <2>1, <2>3, <2>4 DEF Near
<1>6. ASSUME NEW q, Become(c, q), Carries(p, q) PROVE BInv'
  <2>1. BatchOK(q, Stored')
    <3>1. BatchOK(p, Stored') /\ Carries(p, q)
      BY <1>1, <1>2, <1>6
    <3>2. IsFiniteSet({}) /\ Cardinality({}) <= MaxEvents /\ Cardinality({}) < MaxEvents
      BY EmptyBatch
    <3> HIDE DEF p
    <3> QED BY <3>1, <3>2 DEF BatchOK, Carries
  <2>2. \A d \in Collectors : col'[d] = IF d = c THEN q ELSE col[d]
    BY <1>6 DEF Become, IInv, TypeOK
  <2>3. \A d \in Collectors : BatchOK(col'[d], Stored')
    BY <1>2, <2>1, <2>2 DEF BInv
  <2> QED BY <1>2, <1>5, <2>3 DEF BInv
<1>7. CASE Write(c)
  <2> DEFINE rest == p.todo \ group
             q == [p EXCEPT !.todo = rest, !.attempt = 1,
                            !.pc = IF rest = {} THEN "commit" ELSE "write"]
  <2>1. /\ q.committed = p.committed /\ q.base = p.base /\ q.preset = p.preset
        /\ q.buffer = p.buffer /\ q.todo = rest /\ q.pc \in {"commit", "write"}
    BY <1>1 DEF ProcessState
  <2>2. Become(c, q)
    BY <1>7 DEF Write
  <2> HIDE DEF q
  <2>3. Carries(p, q)
    BY <1>1, <2>1 DEF Carries, Active, BatchOK
  <2> QED BY <1>6, <2>2, <2>3
<1>8. CASE WriteFails(c) /\ Become(c, [p EXCEPT !.attempt = @ + 1])
  <2> DEFINE q == [p EXCEPT !.attempt = @ + 1]
  <2>1. Carries(p, q)
    BY <1>1 DEF Carries, ProcessState, Active, BatchOK
  <2> QED BY <1>6, <1>8, <2>1
<1>9. CASE WriteFails(c) /\ FlushFails(c)
  <2> DEFINE q == [p EXCEPT !.pc = IF p.cont = "end" THEN "after" ELSE "end",
                            !.err = "fatal", !.todo = {}, !.attempt = 0]
  <2>1. Carries(p, q)
    BY <1>1 DEF Carries, ProcessState, Active
  <2> QED BY <1>6, <1>9, <2>1 DEF FlushFails
<1> QED BY <1>7, <1>8, <1>9 DEF WriteFails

(* An acknowledged commit: the process and the store agree.                *)
LEMMA CommitOkB ==
  ASSUME Takeover, IInv, JInv, BInv, [Next]_vars, NEW c \in Collectors, CommitOk(c)
  PROVE  BInv'
<1> DEFINE p == col[c]
           q == [p EXCEPT !.committed = CallOf(c).replay,
                          !.buffer = {}, !.attempt = 0, !.cont = "select",
                          !.pc = CASE p.cont = "decode" -> "decode"
                                   [] p.cont = "end"    -> "after"
                                   [] OTHER             -> "select"]
<1>1. p \in ProcessState /\ p.pc = "commit" /\ UNCHANGED <<oldest, op, resets, archived>>
  BY DEF IInv, TypeOK, CommitOk, topicVars
<1>2. CallOf(c).replay = p.pos /\ p.pos \in Nat /\ p.cont \in Cont /\ CallOf(c).owner = p.owner
  BY <1>1, OwnCall, FieldTypes
<1>3. checkpoint' = p.pos /\ Stored' = p.pos
  BY <1>2 DEF CommitOk, CommitScript, Holds, Stored, Nil
<1>4. q.pc \in {"decode", "after", "select"} /\ q.committed = p.pos /\ q.buffer = {}
  BY <1>1, <1>2 DEF ProcessState, Cont
<1>5. Become(c, q)
  BY DEF CommitOk
<1> HIDE DEF q
<1>6. BatchOK(q, Stored')
  BY <1>2, <1>3, <1>4, EmptyBatch DEF BatchOK, Nil
<1> QED BY <1>1, <1>5, <1>6, BatchStep

(* A commit that failed, or may have: the batch is kept.                   *)
LEMMA CommitB ==
  ASSUME Takeover, IInv, JInv, BInv, [Next]_vars, NEW c \in Collectors,
         CommitLeaseLost(c) \/ CommitErrors(c) \/ KeepaliveInterrupted(c)
  PROVE  BInv'
<1> DEFINE p == col[c]
           q == [p EXCEPT !.pc = IF p.cont = "end" THEN "after" ELSE "end",
                          !.err = "fatal", !.todo = {}, !.attempt = 0]
<1>1. p \in ProcessState /\ p.pc = "commit" /\ UNCHANGED <<oldest, op, resets, archived>>
  BY DEF IInv, TypeOK, CommitLeaseLost, CommitErrors, KeepaliveInterrupted, topicVars
<1>2. UNCHANGED col \/ CommitFails(c)
  BY DEF CommitLeaseLost, CommitErrors, KeepaliveInterrupted
<1>3. CASE UNCHANGED col
  <2>1. Carries(p, p) /\ Become(c, p)
    BY <1>1, <1>3 DEF Carries, Become, IInv, TypeOK
  <2> QED BY <1>1, <2>1, CarriedBatch
<1>4. CASE FlushFails(c)
  <2>1. Carries(p, q)
    BY <1>1 DEF Carries, ProcessState, Active
  <2>2. Become(c, q)
    BY <1>4 DEF FlushFails
  <2> HIDE DEF q
  <2> QED BY <1>1, <2>1, <2>2, CarriedBatch
<1>5. CASE EndWith(c, IF p.stop THEN "none" ELSE "fatal")
  <2> DEFINE r == [p EXCEPT !.pc = "end", !.err = IF p.stop THEN "none" ELSE "fatal"]
  <2>1. Carries(p, r)
    BY <1>1 DEF Carries, ProcessState, Active
  <2>2. Become(c, r)
    BY <1>5 DEF EndWith
  <2> HIDE DEF r
  <2> QED BY <1>1, <2>1, <2>2, CarriedBatch
<1> QED BY <1>2, <1>3, <1>4, <1>5 DEF CommitFails

(* The session ends: the batch is flushed once more or dropped.            *)
LEMMA SessionEndsB ==
  ASSUME Takeover, IInv, JInv, BInv, [Next]_vars, NEW c \in Collectors,
         EndSession(c) \/ AfterSession(c) \/ Backoff(c)
  PROVE  BInv'
<1> DEFINE p == col[c]
<1>1. p \in ProcessState /\ UNCHANGED <<oldest, op, resets, archived>>
  BY DEF IInv, TypeOK, EndSession, AfterSession, Backoff, topicVars
<1>2. CASE EndSession(c)
  <2> DEFINE q == [[p EXCEPT !.pc = "after", !.buffer = {}] EXCEPT !.respEnd = 0]
             r == [StartFlush(c, p.buffer, "end") EXCEPT !.respEnd = 0]
  <2>1. Carries(p, q) /\ Carries(p, r)
    BY <1>1, <1>2 DEF Carries, ProcessState, Active, StartFlush, EndSession
  <2>2. Become(c, q) \/ Become(c, r)
    BY <1>2 DEF EndSession
  <2> HIDE DEF q, r
  <2> QED BY <1>1, <2>1, <2>2, CarriedBatch
<1>3. CASE AfterSession(c)
  <2> DEFINE exits == p.stop \/ p.err = "fatal"
             q == [p EXCEPT !.pc = IF exits THEN "release" ELSE "backoff",
                            !.code = IF p.err = "fatal" THEN "fatal"
                                     ELSE IF exits THEN "ok" ELSE "none",
                            !.err = "none", !.cont = "select", !.buffer = {}]
  <2>1. Carries(p, q)
    BY <1>1, <1>3 DEF Carries, ProcessState, Active, AfterSession
  <2>2. Become(c, q)
    BY <1>3 DEF AfterSession
  <2> HIDE DEF q
  <2> QED BY <1>1, <2>1, <2>2, CarriedBatch
<1>4. CASE Backoff(c)
  <2> DEFINE q == [p EXCEPT !.pc = "open"]
             r == [p EXCEPT !.pc = "release", !.code = "ok"]
  <2>1. Carries(p, q) /\ Carries(p, r)
    BY <1>1, <1>4 DEF Carries, ProcessState, Active, Backoff
  <2>2. Become(c, q) \/ Become(c, r)
    BY <1>4 DEF Backoff
  <2> HIDE DEF q, r
  <2> QED BY <1>1, <2>1, <2>2, CarriedBatch
<1> QED BY <1>2, <1>3, <1>4

(* Steps of no process: nothing expires, nobody resets the checkpoint and  *)
(* no commit arrives late.                                                 *)
LEMMA OthersB ==
  ASSUME Takeover, IInv, JInv, BInv, [Next]_vars,
         \/ UNCHANGED vars \/ Environment \/ LeaseLapses \/ LeaseExpires
         \/ CommitArrivesLate \/ OpAcquire \/ OpClear \/ OpRelease
  PROVE  BInv'
<1>1. ~CommitArrivesLate
  BY DEF CommitArrivesLate, JInv, MInv, Takeover
<1>2. ~OpAcquire /\ ~OpClear /\ ~OpRelease
  BY DEF OpAcquire, OpClear, OpRelease, BInv, Takeover
<1>3. UNCHANGED <<oldest, op, resets, archived, checkpoint, col>>
  <2>1. ~Expire
    BY DEF Expire, BInv, Takeover
  <2> QED BY <1>1, <1>2, <2>1 DEF vars, topicVars, storeVars, Environment, Publish, LeaseLapses, LeaseExpires
<1> QED BY <1>3 DEF BInv, Stored

(* BInv is preserved by every step.                                        *)
LEMMA InductiveB ==
  ASSUME Takeover, IInv, JInv, BInv, [Next]_vars
  PROVE  BInv'
<1>1. CASE \/ UNCHANGED vars \/ Environment \/ LeaseLapses \/ LeaseExpires
           \/ CommitArrivesLate \/ OpAcquire \/ OpClear \/ OpRelease
  BY <1>1, OthersB
<1>2. ASSUME NEW c \in Collectors, Start(c) \/ Keepalive(c) \/ RenewLost(c) \/ Select(c)
      PROVE  BInv'
  BY <1>2, DownB, SelectB, LearnsB
<1>3. ASSUME NEW c \in Collectors, Progress(c)
      PROVE  BInv'
  BY <1>3, AcquireB, LoadB, OpenB, DecodeB, ResponseB, WriteB, CommitOkB, CommitB, SessionEndsB,
     DownB DEF Progress
<1>4. ASSUME NEW c \in Collectors, Trouble(c)
      PROVE  BInv'
  BY <1>4, DownB, LearnsB, AcquireB, LoadB, OpenB, SelectB, ResponseB, WriteB, CommitB DEF Trouble
<1> QED BY <1>1, <1>2, <1>3, <1>4 DEF Next

(* BInv holds initially: every process is down and nothing is archived.    *)
LEMMA InitB == ASSUME Takeover, Init PROVE BInv
<1>1. \A code : BatchOK(Down(code), Stored)
  BY EmptyBatch DEF BatchOK, Down, Active
<1>2. \A c \in Collectors : BatchOK(col[c], Stored)
  BY <1>1 DEF Init
<1>3. Near(archived, Stored)
  BY DEF Near, Init
<1> QED BY <1>2, <1>3 DEF BInv, Init, TopicInit, OpIdle

(* A restart re-archives at most one batch, also while a collector that    *)
(* lost its lease is still writing: no more than MaxEvents events beyond   *)
(* the stored checkpoint are in the archive (flush, commit).  No commit    *)
(* arrives late, nobody resets the checkpoint, nothing leaves the          *)
(* retention window and processes without a checkpoint start at the        *)
(* earliest event.                                                         *)
THEOREM RestartRepeatsOneBatch ==
  ASSUME Takeover
  PROVE  Spec => []OneBatchReplay
<1>1. Init => BInv
  BY InitB
<1>2. IInv /\ JInv /\ BInv /\ [Next]_vars => BInv'
  BY InductiveB
<1>3. IInv /\ BInv => OneBatchReplay
  <2> SUFFICES ASSUME IInv, BInv, checkpoint # Nil
               PROVE  Cardinality({e \in archived : e > checkpoint}) <= MaxEvents
    BY DEF OneBatchReplay
  <2>1. archived \in SUBSET Nat /\ checkpoint \in Nat /\ Near(archived, checkpoint)
    BY DEF IInv, TypeOK, StoreTypeOK, ReplayId, BInv, Stored
  <2> QED BY <2>1, NearIsSmall
<1> QED BY <1>1, <1>2, <1>3, JInvHolds, PTL DEF Spec

=============================================================================
