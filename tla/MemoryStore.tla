---------------------------- MODULE MemoryStore ----------------------------
(***************************************************************************)
(* The in-process checkpoint store of internal/checkpoint/memory.go: the   *)
(* tests run the collectors against it in the place of Redis, so what they *)
(* show is only worth something if it keeps the promise of a Store         *)
(* (FencedStore).  Unlike the Redis store it keeps the expiry time of a    *)
(* lease beside the owner, lets an expired entry lie until somebody looks, *)
(* and gives a lease again to the owner that already has it.               *)
(*                                                                         *)
(* One key.  Time is the number of ticks the lease has left: -1 stands for *)
(* now.After(expires).                                                     *)
(***************************************************************************)
EXTENDS Integers

CONSTANTS Owners,   \* handles, one per collector (Share)
          Replays,  \* replay IDs
          NoOwner, Nil,
          Ttl       \* lease time in ticks

ASSUME MemoryAssumption ==
    /\ Ttl \in Nat
    /\ NoOwner \notin Owners
    /\ Nil \notin Replays

VARIABLES
    owner,   \* leases[key].owner, or NoOwner when there is no entry
    left,    \* ticks until leases[key].expires has passed
    stored,  \* checkpoints[key], or Nil
    status,  \* what each collector is doing
    view,    \* the position each collector believes to be stored
    author   \* history: who changed the position last

leaseVars == <<owner, left>>
storeVars == <<owner, left, stored, status, view, author>>

StoreTypeOK ==
    /\ owner \in Owners \union {NoOwner}
    /\ left \in -1..Ttl
    /\ stored \in Replays \union {Nil}
    /\ status \in [Owners -> {"idle", "waiting", "acquired", "loaded", "crashed"}]
    /\ view \in [Owners -> Replays \union {Nil}]
    /\ author \in Owners \union {NoOwner}

StoreInit ==
    /\ owner = NoOwner /\ left = -1
    /\ stored \in Replays \union {Nil}
    /\ status = [o \in Owners |-> "idle"]
    /\ view = [o \in Owners |-> Nil]
    /\ author = NoOwner

Become(o, st) == status' = [status EXCEPT ![o] = st]

(* memoryLease.holds *)
Holds(o) == owner = o /\ left >= 0

-----------------------------------------------------------------------------
AskForLease(o) ==
    /\ status[o] = "idle"
    /\ Become(o, "waiting")
    /\ UNCHANGED <<leaseVars, stored, view, author>>

(* Mutant: the lease is taken from whoever has it.                         *)
Snatch(o) ==
    /\ status[o] = "waiting"
    /\ owner' = o /\ left' = Ttl
    /\ Become(o, "acquired")
    /\ UNCHANGED <<stored, view, author>>

(* Mutant: an expired lease is not taken over.                             *)
AcquireIfFree(o) ==
    /\ status[o] = "waiting"
    /\ owner = NoOwner \/ owner = o
    /\ owner' = o /\ left' = Ttl
    /\ Become(o, "acquired")
    /\ UNCHANGED <<stored, view, author>>

(* One round of Acquire that succeeds; the others change nothing.          *)
Acquire(o) ==
    /\ status[o] = "waiting"
    /\ owner = NoOwner \/ left < 0 \/ owner = o
    /\ owner' = o /\ left' = Ttl
    /\ Become(o, "acquired")
    /\ UNCHANGED <<stored, view, author>>

(* The context of a waiting Acquire ends.                                  *)
GiveUp(o) ==
    /\ status[o] = "waiting"
    /\ Become(o, "idle")
    /\ UNCHANGED <<leaseVars, stored, view, author>>

(* Load does not ask for the lease.  A collector whose load fails stops.   *)
Load(o) ==
    /\ status[o] = "acquired"
    /\ \/ view' = [view EXCEPT ![o] = stored] /\ Become(o, "loaded")
       \/ Become(o, "idle") /\ UNCHANGED view
    /\ UNCHANGED <<leaseVars, stored, author>>

(* Mutant: the commit is applied without looking at the lease.             *)
CommitUnfenced(o, r) ==
    /\ status[o] = "loaded"
    /\ stored' = r /\ author' = o
    /\ view' = [view EXCEPT ![o] = r]
    /\ UNCHANGED <<leaseVars, status>>

(* Commit: refused when the lease is lost (the collector stops), failed    *)
(* before it is applied (nothing happens), or applied - after which the    *)
(* collector may crash without having heard of it.                         *)
Commit(o, r) ==
    /\ status[o] = "loaded"
    /\ IF Holds(o)
       THEN /\ stored' = r /\ left' = Ttl /\ author' = o
            /\ \/ view' = [view EXCEPT ![o] = r] /\ UNCHANGED status
               \/ Become(o, "crashed") /\ UNCHANGED view
       ELSE Become(o, "idle") /\ UNCHANGED <<stored, left, author, view>>
    /\ UNCHANGED owner

Renew(o) ==
    /\ status[o] \in {"acquired", "loaded"}
    /\ IF Holds(o)
       THEN left' = Ttl /\ UNCHANGED status
       ELSE Become(o, "idle") /\ UNCHANGED left
    /\ UNCHANGED <<owner, stored, view, author>>

Release(o) ==
    /\ status[o] \in {"acquired", "loaded"}
    /\ owner' = IF Holds(o) THEN NoOwner ELSE owner
    /\ left' = IF Holds(o) THEN -1 ELSE left
    /\ Become(o, "idle")
    /\ UNCHANGED <<stored, view, author>>

(* The operator's reset deletes the position.                              *)
Clear(o) ==
    /\ status[o] = "loaded"
    /\ IF Holds(o)
       THEN /\ stored' = Nil /\ author' = o
            /\ view' = [view EXCEPT ![o] = Nil] /\ UNCHANGED status
       ELSE Become(o, "idle") /\ UNCHANGED <<stored, author, view>>
    /\ UNCHANGED leaseVars

(* A partition: the entry is removed under its owner.                      *)
ExpireLease ==
    /\ owner # NoOwner
    /\ owner' = NoOwner /\ left' = -1
    /\ UNCHANGED <<stored, status, view, author>>

LeaseTick ==
    /\ left >= 0
    /\ left' = left - 1
    /\ UNCHANGED <<owner, stored, status, view, author>>

Crash(o) ==
    /\ status[o] # "crashed"
    /\ Become(o, "crashed")
    /\ UNCHANGED <<leaseVars, stored, view, author>>

-----------------------------------------------------------------------------
StoreNext ==
    \/ ExpireLease \/ LeaseTick
    \/ \E o \in Owners :
          \/ AskForLease(o) \/ Acquire(o) \/ GiveUp(o) \/ Load(o)
          \/ Renew(o) \/ Release(o) \/ Clear(o) \/ Crash(o)
          \/ \E r \in Replays : Commit(o, r)

StoreSpec == StoreInit /\ [][StoreNext]_storeVars

-----------------------------------------------------------------------------
(* A collector that still has the lease knows the stored position: nobody  *)
(* moved it behind its back, however leases ran out and were taken over in *)
(* between (Acquire, Commit, Clear and holds of memory.go).                *)
NoStaleHolder ==
    \A o \in Owners : Holds(o) /\ status[o] = "loaded" => view[o] = stored

(* The store keeps the promise of the package: an expired entry counts as  *)
(* no lease, and only the holder moves the position.                       *)
Fence == INSTANCE FencedStore WITH holder <- IF left >= 0 THEN owner ELSE NoOwner
IsFencedStore == Fence!Spec

(* The lease of a collector that crashed does not keep the others waiting: *)
(* a collector that waits gets it, gives up or crashes, unless the holder  *)
(* is alive.                                                               *)
WaiterServed ==
    \A o \in Owners :
        (status[o] = "waiting" /\ \A p \in Owners \ {o} : status[p] = "crashed")
            ~> status[o] # "waiting"

=============================================================================
