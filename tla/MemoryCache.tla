----------------------------- MODULE MemoryCache -----------------------------
(***************************************************************************)
(* The in-process cache.  An entry whose time is over stays in the map     *)
(* until it is read or until a set sweeps the map, which it does at most   *)
(* once a minute.  Every call holds the lock, so a call is one step.       *)
(***************************************************************************)
EXTENDS Integers

CONSTANTS Keys, Values, NoEntry,
          TTL,         \* lifetime of tokens and markers
          SweepEvery,  \* time between two sweeps
          MaxTime      \* bound on the clock, none when it is negative

Never == 0

Entry == [val : Values, until : Nat]

ASSUME MemoryCacheAssumption ==
    /\ TTL \in Nat /\ SweepEvery \in Nat \ {0} /\ MaxTime \in Int
    /\ NoEntry \notin Entry

VARIABLES now,     \* the time
          vals,    \* what the map holds
          lastGC,  \* time of the last sweep
          down,    \* Err is set: every call fails
          reply    \* the answer to the last call

cacheVars == <<now, vals, lastGC, down, reply>>

CacheTypeOK ==
    /\ now \in Nat \ {0} /\ lastGC \in Int /\ down \in BOOLEAN
    /\ vals \in [Keys -> Entry \union {NoEntry}]
    /\ reply \in Values \union {"done", "missing", "failed"}

CacheInit ==
    /\ now = 1 /\ lastGC = -SweepEvery /\ down = FALSE
    /\ vals = [k \in Keys |-> NoEntry]
    /\ reply = "done"

Expired(e, t) == e # NoEntry /\ e.until # Never /\ t >= e.until

-----------------------------------------------------------------------------
(* An entry that has expired is removed and reported as missing.           *)
GetCacheVal(k) ==
    /\ ~down
    /\ IF Expired(vals[k], now)
       THEN vals' = [vals EXCEPT ![k] = NoEntry] /\ reply' = "missing"
       ELSE UNCHANGED vals /\ reply' = IF vals[k] = NoEntry THEN "missing" ELSE vals[k].val
    /\ UNCHANGED <<now, lastGC, down>>

Stored(k, v, ttl) ==
    [vals EXCEPT ![k] = [val |-> v, until |-> IF ttl > 0 THEN now + ttl ELSE Never]]

(* Mutant: the sweep stops at entries that never expire.                   *)
SweptPersistent(m) == [j \in Keys |-> IF m[j] # NoEntry /\ now >= m[j].until THEN NoEntry ELSE m[j]]

(* The map without what has expired.                                       *)
Swept(m) == [j \in Keys |-> IF Expired(m[j], now) THEN NoEntry ELSE m[j]]

(* Mutant: the sweep is noted and left out.                                *)
SetNoSweep(k, v, ttl) ==
    /\ ~down
    /\ vals' = Stored(k, v, ttl)
    /\ lastGC' = IF now - lastGC >= SweepEvery THEN now ELSE lastGC
    /\ reply' = "done" /\ UNCHANGED <<now, down>>

set(k, v, ttl) ==
    /\ ~down
    /\ IF now - lastGC >= SweepEvery
       THEN lastGC' = now /\ vals' = Swept(Stored(k, v, ttl))
       ELSE UNCHANGED lastGC /\ vals' = Stored(k, v, ttl)
    /\ reply' = "done" /\ UNCHANGED <<now, down>>

SetCacheVal(k, v) == set(k, v, TTL)

SetPersistentVal(k, v) == set(k, v, 0)

DelCacheVal(k) ==
    /\ ~down
    /\ vals' = [vals EXCEPT ![k] = NoEntry]
    /\ reply' = "done" /\ UNCHANGED <<now, lastGC, down>>

ClearCache ==
    /\ vals' = [k \in Keys |-> NoEntry]
    /\ reply' = "done" /\ UNCHANGED <<now, lastGC, down>>

(* Any call while Err is set.                                              *)
CallFails == down /\ reply' = "failed" /\ UNCHANGED <<now, vals, lastGC, down>>

Outage == down' \in BOOLEAN /\ UNCHANGED <<now, vals, lastGC, reply>>

CacheTick ==
    /\ MaxTime >= 0 => now < MaxTime
    /\ now' = now + 1
    /\ UNCHANGED <<vals, lastGC, down, reply>>

CacheNext ==
    \/ \E k \in Keys : \/ GetCacheVal(k) \/ DelCacheVal(k)
                       \/ \E v \in Values : SetCacheVal(k, v) \/ SetPersistentVal(k, v)
    \/ ClearCache \/ CallFails \/ Outage \/ CacheTick

CacheSpec == CacheInit /\ [][CacheNext]_cacheVars

-----------------------------------------------------------------------------
(* What a reader can see of the map.                                       *)
visible == [k \in Keys |-> IF Expired(vals[k], now) THEN NoEntry ELSE vals[k]]

Cache == INSTANCE TtlMap WITH data <- visible

(* The cache behaves as Redis does: no caller can tell an entry that has   *)
(* expired from one that was swept, and what was set without expiry, a     *)
(* watermark, is never swept.                                              *)
IsTtlMap == Cache!Spec

(* A sweep leaves nothing behind: what is still in the map expired after   *)
(* the last sweep, so markers that are never read again are released (set).*)
SweepComplete ==
    \A k \in Keys : vals[k] # NoEntry /\ vals[k].until # Never => vals[k].until > lastGC

=============================================================================
