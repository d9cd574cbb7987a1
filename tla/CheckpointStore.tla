-------------------------- MODULE CheckpointStore --------------------------
(***************************************************************************)
(* The lease and the replay checkpoint of one topic, as the Redis scripts  *)
(* of internal/checkpoint/redis.go keep them.  Each script runs atomically *)
(* in the server; what can go wrong is on the way: the call may fail, its  *)
(* reply may be lost after it was applied, or a timed-out call may still   *)
(* be delivered later.                                                     *)
(*                                                                         *)
(* Owner tokens are drawn from NewOwner and never repeat: the n-th process *)
(* started gets token n.  Lease time is not measured; a lease may expire   *)
(* whenever nobody renews it in time, see LeaseExpires in the modules that *)
(* use this one.                                                           *)
(*                                                                         *)
(* `floor` is a history variable: the position the archive was started     *)
(* from (by a bootstrap or the last operator reset) for the checkpoint now *)
(* stored.  The code does not store it.                                    *)
(***************************************************************************)
EXTENDS Integers, FiniteSets

VARIABLES lease,       \* token of the lease holder, NoOwner when the key is absent
          checkpoint,  \* the stored replay ID, Nil when the key is absent
          floor,       \* history: where the archived range that ends at checkpoint begins
          inflight,    \* commits whose caller timed out but which may still be delivered
          issued       \* number of owner tokens handed out

storeVars == <<lease, checkpoint, floor, inflight, issued>>

NoOwner == 0
Nil     == -1

Owners   == Nat
ReplayId == Nat
CommitCall == [owner : Owners, replay : ReplayId, base : ReplayId]

StoreTypeOK ==
    /\ lease \in Owners
    /\ checkpoint \in ReplayId \cup {Nil}
    /\ floor \in ReplayId
    /\ inflight \subseteq CommitCall
    /\ issued \in Nat

StoreInit ==
    /\ lease = NoOwner
    /\ checkpoint = Nil
    /\ floor = 0
    /\ inflight = {}
    /\ issued = 0

(* A fresh token (NewOwner).                                               *)
NewOwner == issued + 1

(* SET NX on the lease key.                                                *)
SetNX(o) ==
    /\ lease = NoOwner
    /\ lease' = o

(* Has the caller of a fenced script still got the lease?                  *)
Holds(o) == lease = o

(* Mutant: the commit is not fenced by the lease.                           *)
CommitUnfenced(call) == checkpoint' = call.replay /\ floor' = call.base

(* The effect of commitScript when the server runs it.                     *)
CommitScript(call) ==
    IF Holds(call.owner)
    THEN checkpoint' = call.replay /\ floor' = call.base
    ELSE UNCHANGED <<checkpoint, floor>>

(* The effect of clearScript.                                              *)
ClearScript(o) ==
    /\ checkpoint' = IF Holds(o) THEN Nil ELSE checkpoint
    /\ UNCHANGED floor

(* The effect of releaseScript.                                            *)
ReleaseScript(o) == lease' = IF Holds(o) THEN NoOwner ELSE lease

(* A commit whose caller gave up waiting reaches the server after all.     *)
LateCommit(call) ==
    /\ call \in inflight
    /\ inflight' = inflight \ {call}
    /\ CommitScript(call)
    /\ UNCHANGED <<lease, issued>>

=============================================================================
