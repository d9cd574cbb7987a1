----------------------------- MODULE MCStandIns -----------------------------
(***************************************************************************)
(* The stand-ins that the repository's tests run the collectors against:   *)
(* the in-memory checkpoint store, the in-memory cache and the mock's      *)
(* subscription with the client that talks to it.  They do not interact,   *)
(* so each behaviour runs one of them while the others stay as they began. *)
(***************************************************************************)
EXTENDS MemoryStore, MemoryCache, FetchFlow

VARIABLE part  \* the stand-in that runs

all == <<part, storeVars, cacheVars, vars>>

MCEventType == [i \in 1..MaxHead |-> "login"]

MCInit ==
    /\ part \in {"store", "cache", "flow"}
    /\ StoreInit /\ CacheInit /\ Init

InStore(A) == part = "store" /\ A /\ UNCHANGED <<part, cacheVars, vars>>
InCache(A) == part = "cache" /\ A /\ UNCHANGED <<part, storeVars, vars>>
InFlow(A)  == part = "flow" /\ A /\ UNCHANGED <<part, storeVars, cacheVars>>

MCNext == InStore(StoreNext) \/ InCache(CacheNext) \/ InFlow(Next)

(* Time passes, and a collector that waits for a lease polls every 10 ms.  *)
StoreFairness ==
    /\ WF_all(InStore(LeaseTick))
    /\ \A o \in Owners : WF_all(InStore(Acquire(o)))

(* Each goroutine of client and server that can run does, the ticker ticks *)
(* and timers fire.                                                        *)
FlowFairness ==
    /\ WF_all(InFlow(OpenStream)) /\ WF_all(InFlow(HandleResponse)) /\ WF_all(InFlow(FlushByAge))
    /\ WF_all(InFlow(ReadRequest)) /\ WF_all(InFlow(Tick))
    /\ WF_all(InFlow(Look)) /\ WF_all(InFlow(Park))
    /\ WF_all(InFlow(SendEvents)) /\ WF_all(InFlow(SendKeepalive))

MCSpec == MCInit /\ [][MCNext]_all /\ StoreFairness /\ FlowFairness
=============================================================================
