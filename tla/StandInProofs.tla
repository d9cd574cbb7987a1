--------------------------- MODULE StandInProofs ---------------------------
(***************************************************************************)
(* Proofs about the stand-ins the repository's tests use: the in-process   *)
(* checkpoint store (MemoryStore) for any number of collectors, replay IDs *)
(* and any lease time, the in-process cache (MemoryCache) for any keys,    *)
(* values, lifetime and clock, and the mock's subscription with its client *)
(* (FetchFlow) for any appetite, batch sizes and number of events.         *)
(***************************************************************************)
EXTENDS MemoryStore, MemoryCache, FetchFlow, FiniteSetTheorems, WellFoundedInduction, TLAPS

(* Whoever has the lease of the in-process store knows the position.       *)
HInv == StoreTypeOK /\ NoStaleHolder

(* Nobody has the lease at first.                                          *)
LEMMA StoreStarts == StoreInit => HInv
BY MemoryAssumption DEF StoreInit, HInv, StoreTypeOK, NoStaleHolder, Holds

(* Every step of the store keeps the types.                                *)
LEMMA TypeStep == StoreTypeOK /\ [StoreNext]_storeVars => StoreTypeOK'
<1> SUFFICES ASSUME StoreTypeOK, [StoreNext]_storeVars PROVE StoreTypeOK'
  OBVIOUS
<1> USE MemoryAssumption DEF StoreTypeOK, Become, leaseVars
<1>1. CASE ExpireLease
  BY <1>1 DEF ExpireLease
<1>2. CASE LeaseTick
  BY <1>2 DEF LeaseTick
<1>3. ASSUME NEW o \in Owners, AskForLease(o) PROVE StoreTypeOK'
  BY <1>3 DEF AskForLease
<1>4. ASSUME NEW o \in Owners, Acquire(o) PROVE StoreTypeOK'
  BY <1>4 DEF Acquire
<1>5. ASSUME NEW o \in Owners, GiveUp(o) PROVE StoreTypeOK'
  BY <1>5 DEF GiveUp
<1>6. ASSUME NEW o \in Owners, Load(o) PROVE StoreTypeOK'
  BY <1>6 DEF Load
<1>7. ASSUME NEW o \in Owners, Renew(o) PROVE StoreTypeOK'
  BY <1>7 DEF Renew
<1>8. ASSUME NEW o \in Owners, Release(o) PROVE StoreTypeOK'
  BY <1>8 DEF Release
<1>9. ASSUME NEW o \in Owners, Clear(o) PROVE StoreTypeOK'
  BY <1>9 DEF Clear
<1>10. ASSUME NEW o \in Owners, Crash(o) PROVE StoreTypeOK'
  BY <1>10 DEF Crash
<1>11. ASSUME NEW o \in Owners, NEW r \in Replays, Commit(o, r) PROVE StoreTypeOK'
  BY <1>11 DEF Commit
<1>12. CASE UNCHANGED storeVars
  BY <1>12 DEF storeVars
<1> QED
  BY <1>1, <1>2, <1>3, <1>4, <1>5, <1>6, <1>7, <1>8, <1>9, <1>10, <1>11, <1>12 DEF StoreNext

(* The position never moves behind the back of a holder: only a holder     *)
(* moves it, and two collectors never hold the lease together.             *)
LEMMA HolderStep == StoreTypeOK /\ NoStaleHolder /\ [StoreNext]_storeVars => NoStaleHolder'
<1> SUFFICES ASSUME StoreTypeOK, NoStaleHolder, [StoreNext]_storeVars,
                    NEW p \in Owners, Holds(p)', status'[p] = "loaded"
             PROVE  view'[p] = stored'
  BY DEF NoStaleHolder
<1> USE MemoryAssumption DEF StoreTypeOK, NoStaleHolder, Become, Holds, leaseVars
<1>1. CASE ExpireLease
  BY <1>1 DEF ExpireLease
<1>2. CASE LeaseTick
  BY <1>2 DEF LeaseTick
<1>3. ASSUME NEW o \in Owners, AskForLease(o) PROVE view'[p] = stored'
  BY <1>3 DEF AskForLease
<1>4. ASSUME NEW o \in Owners, Acquire(o) PROVE view'[p] = stored'
  BY <1>4 DEF Acquire
<1>5. ASSUME NEW o \in Owners, GiveUp(o) PROVE view'[p] = stored'
  BY <1>5 DEF GiveUp
<1>6. ASSUME NEW o \in Owners, Load(o) PROVE view'[p] = stored'
  BY <1>6 DEF Load
<1>7. ASSUME NEW o \in Owners, Renew(o) PROVE view'[p] = stored'
  BY <1>7 DEF Renew
<1>8. ASSUME NEW o \in Owners, Release(o) PROVE view'[p] = stored'
  BY <1>8 DEF Release
<1>9. ASSUME NEW o \in Owners, Clear(o) PROVE view'[p] = stored'
  BY <1>9 DEF Clear
<1>10. ASSUME NEW o \in Owners, Crash(o) PROVE view'[p] = stored'
  BY <1>10 DEF Crash
<1>11. ASSUME NEW o \in Owners, NEW r \in Replays, Commit(o, r) PROVE view'[p] = stored'
  BY <1>11 DEF Commit
<1>12. CASE UNCHANGED storeVars
  BY <1>12 DEF storeVars
<1> QED
  BY <1>1, <1>2, <1>3, <1>4, <1>5, <1>6, <1>7, <1>8, <1>9, <1>10, <1>11, <1>12 DEF StoreNext

(* The types, and: a collector that has the lease and has loaded knows the *)
(* stored position (memory.go: Acquire, holds, Commit, Clear).             *)
THEOREM HolderKnows == StoreSpec => [](StoreTypeOK /\ NoStaleHolder)
<1>1. HInv /\ [StoreNext]_storeVars => HInv'
  BY TypeStep, HolderStep DEF HInv
<1> QED
  BY StoreStarts, <1>1, PTL DEF StoreSpec, HInv

-----------------------------------------------------------------------------
LEMMA FenceInit == StoreInit => Fence!Init
BY MemoryAssumption DEF StoreInit, Fence!Init

(* Every step of the store is a step of FencedStore or leaves its          *)
(* variables alone.                                                        *)
LEMMA FenceStep == StoreTypeOK /\ [StoreNext]_storeVars => [Fence!Next]_(Fence!fenceVars)
<1> SUFFICES ASSUME StoreTypeOK, [StoreNext]_storeVars PROVE Fence!Next \/ UNCHANGED Fence!fenceVars
  OBVIOUS
<1> USE MemoryAssumption DEF StoreTypeOK, leaseVars, Fence!fenceVars
<1>1. CASE ExpireLease
  BY <1>1 DEF ExpireLease, Fence!Next, Fence!Lapse
<1>2. CASE LeaseTick
  BY <1>2 DEF LeaseTick, Fence!Next, Fence!Lapse
<1>3. ASSUME NEW o \in Owners, AskForLease(o) PROVE UNCHANGED Fence!fenceVars
  BY <1>3 DEF AskForLease
<1>4. ASSUME NEW o \in Owners, Acquire(o) PROVE Fence!Next
  <2>1. Fence!Grant(o)
    BY <1>4 DEF Acquire, Fence!Grant
  <2> QED
    BY <2>1 DEF Fence!Next
<1>5. ASSUME NEW o \in Owners, GiveUp(o) PROVE UNCHANGED Fence!fenceVars
  BY <1>5 DEF GiveUp
<1>6. ASSUME NEW o \in Owners, Load(o) PROVE UNCHANGED Fence!fenceVars
  BY <1>6 DEF Load
<1>7. ASSUME NEW o \in Owners, Renew(o) PROVE UNCHANGED Fence!fenceVars
  BY <1>7 DEF Renew, Holds
<1>8. ASSUME NEW o \in Owners, Release(o) PROVE Fence!Next \/ UNCHANGED Fence!fenceVars
  BY <1>8 DEF Release, Holds, Fence!Next, Fence!Lapse
<1>9. ASSUME NEW o \in Owners, Clear(o) PROVE Fence!Next \/ UNCHANGED Fence!fenceVars
  <2>1. CASE Holds(o)
    <3>1. Fence!Move(o, Nil)
      BY <1>9, <2>1 DEF Clear, Holds, Fence!Move
    <3> QED
      BY <3>1 DEF Fence!Next
  <2>2. CASE ~Holds(o)
    BY <1>9, <2>2 DEF Clear
  <2> QED
    BY <2>1, <2>2
<1>10. ASSUME NEW o \in Owners, Crash(o) PROVE UNCHANGED Fence!fenceVars
  BY <1>10 DEF Crash
<1>11. ASSUME NEW o \in Owners, NEW r \in Replays, Commit(o, r)
       PROVE  Fence!Next \/ UNCHANGED Fence!fenceVars
  <2>1. CASE Holds(o)
    <3>1. Fence!Move(o, r)
      BY <1>11, <2>1 DEF Commit, Holds, Fence!Move
    <3> QED
      BY <3>1 DEF Fence!Next
  <2>2. CASE ~Holds(o)
    BY <1>11, <2>2 DEF Commit
  <2> QED
    BY <2>1, <2>2
<1>12. CASE UNCHANGED storeVars
  BY <1>12 DEF storeVars
<1> QED
  BY <1>1, <1>2, <1>3, <1>4, <1>5, <1>6, <1>7, <1>8, <1>9, <1>10, <1>11, <1>12 DEF StoreNext

(* The in-process store implements FencedStore: the tests that use it in   *)
(* the place of Redis run against a store that keeps the package's promise.*)
THEOREM MemoryStoreIsFenced == StoreSpec => IsFencedStore
<1>1. StoreSpec => []StoreTypeOK
  BY HolderKnows, PTL
<1> QED
  BY <1>1, FenceInit, FenceStep, PTL DEF StoreSpec, Fence!Spec, IsFencedStore

-----------------------------------------------------------------------------
(* The in-process cache.                                                   *)

(* A sweep leaves entries that are live, and the others out (set).         *)
LEMMA SweptEntries ==
    ASSUME NEW m \in [Keys -> Entry \union {NoEntry}], NEW j \in Keys
    PROVE  /\ Swept(m) \in [Keys -> Entry \union {NoEntry}]
           /\ Swept(m)[j] = IF Expired(m[j], now) THEN NoEntry ELSE m[j]
BY DEF Swept

(* What set puts into the map (set).                                       *)
LEMMA StoredEntries ==
    ASSUME CacheTypeOK, NEW k \in Keys, NEW v \in Values, NEW ttl \in {0, TTL}
    PROVE  /\ Stored(k, v, ttl) \in [Keys -> Entry \union {NoEntry}]
           /\ \A j \in Keys : j # k => Stored(k, v, ttl)[j] = vals[j]
           /\ Stored(k, v, ttl)[k] = [val |-> v, until |-> IF ttl > 0 THEN now + ttl ELSE Never]
           /\ Stored(k, v, ttl)[k] # NoEntry
           /\ Stored(k, v, ttl)[k] \in Entry
<1>1. [val |-> v, until |-> IF ttl > 0 THEN now + ttl ELSE Never] \in Entry
  BY MemoryCacheAssumption DEF Entry, CacheTypeOK, Never
<1>2. Stored(k, v, ttl) = [vals EXCEPT ![k] = [val |-> v, until |-> IF ttl > 0 THEN now + ttl ELSE Never]]
  BY DEF Stored
<1> QED BY <1>1, <1>2, MemoryCacheAssumption DEF CacheTypeOK

CInv == CacheTypeOK /\ SweepComplete /\ lastGC <= now

(* The empty cache satisfies the invariant.                                *)
LEMMA CacheStarts ==
    ASSUME CacheInit
    PROVE  CInv
<1>1. now \in Nat \ {0} /\ lastGC \in Int /\ lastGC <= now
  BY MemoryCacheAssumption DEF CacheInit
<1>2. down \in BOOLEAN /\ reply \in Values \union {"done", "missing", "failed"}
  BY Zenon DEF CacheInit
<1>3. vals \in [Keys -> Entry \union {NoEntry}]
  BY DEF CacheInit
<1>4. SweepComplete
  BY DEF CacheInit, SweepComplete
<1> QED BY <1>1, <1>2, <1>3, <1>4 DEF CInv, CacheTypeOK

(* One call of set keeps the invariant (set).                              *)
LEMMA SetKeeps ==
    ASSUME CInv, NEW k \in Keys, NEW v \in Values, NEW ttl \in {0, TTL}, set(k, v, ttl)
    PROVE  CInv'
<1> DEFINE m == Stored(k, v, ttl)
<1> USE DEF CInv
<1>1. /\ m \in [Keys -> Entry \union {NoEntry}]
      /\ \A j \in Keys : j # k => m[j] = vals[j]
      /\ m[k] = [val |-> v, until |-> IF ttl > 0 THEN now + ttl ELSE Never]
  BY StoredEntries
<1>2. now' = now /\ down' = down /\ reply' = "done" /\ now \in Nat /\ lastGC \in Int
  BY DEF set, CacheTypeOK
<1> HIDE DEF m
<1>3. CASE now - lastGC >= SweepEvery
  <2>1. lastGC' = now /\ vals' = Swept(m)
    BY <1>3 DEF set, m
  <2>2. CacheTypeOK'
    <3>1. vals' \in [Keys -> Entry \union {NoEntry}]
      BY <1>1, <2>1 DEF Swept
    <3> QED BY <3>1, <2>1, <1>2 DEF CacheTypeOK
  <2>3. SweepComplete'
    <3> SUFFICES ASSUME NEW j \in Keys, vals'[j] # NoEntry, vals'[j].until # Never
                 PROVE  vals'[j].until > lastGC'
      BY DEF SweepComplete
    <3>1. vals'[j] = m[j] /\ ~Expired(m[j], now)
      BY <1>1, <2>1, SweptEntries
    <3>2. m[j] \in Entry
      BY <3>1, <1>1
    <3>3. m[j].until \in Nat
      BY <3>2 DEF Entry
    <3> QED BY <3>1, <3>3, <2>1, <1>2 DEF Expired
  <2> QED BY <2>1, <2>2, <2>3, <1>2
<1>4. CASE ~(now - lastGC >= SweepEvery)
  <2>1. lastGC' = lastGC /\ vals' = m
    BY <1>4 DEF set, m
  <2>2. CacheTypeOK'
    BY <1>1, <1>2, <2>1 DEF CacheTypeOK
  <2>3. SweepComplete'
    <3> SUFFICES ASSUME NEW j \in Keys, vals'[j] # NoEntry, vals'[j].until # Never
                 PROVE  vals'[j].until > lastGC'
      BY DEF SweepComplete
    <3>1. CASE j = k
      <4>1. vals'[j].until = IF ttl > 0 THEN now + ttl ELSE Never
        BY <3>1, <2>1, <1>1
      <4>2. ttl > 0 /\ vals'[j].until = now + ttl
        BY <4>1
      <4> QED BY <4>2, <2>1, <1>2, MemoryCacheAssumption
    <3>2. CASE j # k
      BY <3>2, <2>1, <1>1 DEF SweepComplete
    <3> QED BY <3>1, <3>2
  <2> QED BY <2>1, <2>2, <2>3, <1>2
<1> QED BY <1>3, <1>4

(* Every step keeps the invariant.                                         *)
LEMMA CacheKept ==
    ASSUME CInv, [CacheNext]_cacheVars
    PROVE  CInv'
<1> USE DEF CInv
<1>1. ASSUME NEW k \in Keys, GetCacheVal(k) PROVE CInv'
  <2>1. CASE Expired(vals[k], now)
    <3>1. vals' = [vals EXCEPT ![k] = NoEntry] /\ reply' = "missing"
      BY <1>1, <2>1 DEF GetCacheVal
    <3> QED BY <3>1, <1>1 DEF GetCacheVal, CacheTypeOK, SweepComplete
  <2>2. CASE ~Expired(vals[k], now)
    <3>1. vals' = vals /\ reply' = IF vals[k] = NoEntry THEN "missing" ELSE vals[k].val
      BY <1>1, <2>2 DEF GetCacheVal
    <3>2. reply' \in Values \union {"missing"}
      BY <3>1 DEF CacheTypeOK, Entry
    <3> QED BY <3>1, <3>2, <1>1 DEF GetCacheVal, CacheTypeOK, SweepComplete
  <2> QED BY <2>1, <2>2
<1>2. ASSUME NEW k \in Keys, DelCacheVal(k) PROVE CInv'
  BY <1>2 DEF DelCacheVal, CacheTypeOK, SweepComplete
<1>3. ASSUME NEW k \in Keys, NEW v \in Values, SetCacheVal(k, v) PROVE CInv'
  BY <1>3, SetKeeps DEF SetCacheVal
<1>4. ASSUME NEW k \in Keys, NEW v \in Values, SetPersistentVal(k, v) PROVE CInv'
  BY <1>4, SetKeeps DEF SetPersistentVal
<1>5. ASSUME ClearCache PROVE CInv'
  BY <1>5 DEF ClearCache, CacheTypeOK, SweepComplete
<1>6. ASSUME CallFails \/ Outage \/ CacheTick PROVE CInv'
  BY <1>6 DEF CallFails, Outage, CacheTick, CacheTypeOK, SweepComplete
<1>7. ASSUME UNCHANGED cacheVars PROVE CInv'
  BY <1>7 DEF cacheVars, CacheTypeOK, SweepComplete
<1> QED BY <1>1, <1>2, <1>3, <1>4, <1>5, <1>6, <1>7 DEF CacheNext

(* Nothing that had expired by the last sweep is still in the map (set).   *)
THEOREM SweepLeavesNothing == CacheSpec => [](CacheTypeOK /\ SweepComplete)
<1>1. CacheInit => CInv
  BY CacheStarts
<1>2. CInv /\ [CacheNext]_cacheVars => CInv'
  BY CacheKept
<1>3. CInv => CacheTypeOK /\ SweepComplete
  BY DEF CInv
<1> QED BY <1>1, <1>2, <1>3, PTL DEF CacheSpec

-----------------------------------------------------------------------------
(* A key that holds nothing does not expire.                               *)
LEMMA NothingExpires == \A t : ~Expired(NoEntry, t)
BY DEF Expired

(* What a reader sees of one key.                                          *)
LEMMA VisibleEntry ==
    ASSUME NEW k \in Keys
    PROVE  visible[k] = IF Expired(vals[k], now) THEN NoEntry ELSE vals[k]
BY DEF visible

(* A set is a set of the abstract cache: the sweep does not show (set).    *)
LEMMA SetRefines ==
    ASSUME CInv, NEW k \in Keys, NEW v \in Values, NEW ttl \in {0, TTL}, set(k, v, ttl)
    PROVE  Cache!Set(k, v, ttl)
<1> DEFINE m == Stored(k, v, ttl)
           e == [val |-> v, until |-> IF ttl > 0 THEN now + ttl ELSE Never]
<1>1. /\ m \in [Keys -> Entry \union {NoEntry}]
      /\ \A j \in Keys : j # k => m[j] = vals[j]
      /\ m[k] = e
  BY StoredEntries DEF CInv
<1>2. now' = now /\ reply' = "done"
  BY DEF set
<1>3. ~Expired(e, now)
  BY MemoryCacheAssumption DEF Expired, CInv, CacheTypeOK, Never
<1>4. \A j \in Keys : Expired(m[j], now) <=> j # k /\ Expired(vals[j], now)
  BY <1>1, <1>3
<1>5. \A j \in Keys : (IF Expired(vals'[j], now') THEN NoEntry ELSE vals'[j])
                        = IF Expired(m[j], now) THEN NoEntry ELSE m[j]
  <2> SUFFICES ASSUME NEW j \in Keys
               PROVE  (IF Expired(vals'[j], now') THEN NoEntry ELSE vals'[j])
                        = IF Expired(m[j], now) THEN NoEntry ELSE m[j]
    OBVIOUS
  <2>1. ~Expired(NoEntry, now)
    BY DEF Expired
  <2>2. CASE now - lastGC >= SweepEvery
    <3>1. vals' = Swept(m)
      BY <2>2 DEF set
    <3>2. vals'[j] = IF Expired(m[j], now) THEN NoEntry ELSE m[j]
      BY <3>1 DEF Swept
    <3> QED BY <3>2, <2>1, <1>2
  <2>3. CASE ~(now - lastGC >= SweepEvery)
    BY <2>3, <1>2 DEF set
  <2> QED BY <2>2, <2>3
<1>6. visible' = [j \in Keys |-> IF Expired(m[j], now) THEN NoEntry ELSE m[j]]
  BY <1>5 DEF visible
<1>7. visible' = [visible EXCEPT ![k] = e]
  <2>1. visible = [j \in Keys |-> IF Expired(vals[j], now) THEN NoEntry ELSE vals[j]]
    BY DEF visible
  <2>2. \A j \in Keys : (IF Expired(m[j], now) THEN NoEntry ELSE m[j])
                            = IF j = k THEN e ELSE IF Expired(vals[j], now) THEN NoEntry ELSE vals[j]
    BY <1>4, <1>1
  <2> HIDE DEF m, e
  <2> QED BY <1>6, <2>1, <2>2
<1>8. Cache!Never = Never
  BY DEF Cache!Never, Never
<1> QED BY <1>2, <1>7, <1>8 DEF Cache!Set

(* The in-process cache does what Redis does (MemoryCache).                *)
THEOREM MemoryCacheIsTtlMap == CacheSpec => IsTtlMap
<1>1. CacheInit => Cache!Init
  BY DEF CacheInit, Cache!Init, visible, Expired
<1>2. ASSUME CInv, [CacheNext]_cacheVars PROVE [Cache!Next]_(Cache!vars)
  <2>1. ASSUME NEW k \in Keys, GetCacheVal(k) PROVE Cache!Get(k)
    <3>1. now' = now /\ \A j \in Keys : (IF Expired(vals'[j], now) THEN NoEntry ELSE vals'[j])
                                           = IF Expired(vals[j], now) THEN NoEntry ELSE vals[j]
      <4>1. CASE Expired(vals[k], now)
        BY <4>1, <2>1, <1>2, NothingExpires DEF GetCacheVal, CInv, CacheTypeOK
      <4>2. CASE ~Expired(vals[k], now)
        BY <4>2, <2>1 DEF GetCacheVal
      <4> QED BY <4>1, <4>2
    <3>2. reply' = IF visible[k] = NoEntry THEN "missing" ELSE visible[k].val
      BY <2>1, VisibleEntry DEF GetCacheVal
    <3>3. visible' = visible
      BY <3>1 DEF visible
    <3> QED BY <3>1, <3>2, <3>3 DEF Cache!Get
  <2>2. ASSUME NEW k \in Keys, DelCacheVal(k) PROVE Cache!Del(k)
    <3>1. /\ now' = now /\ reply' = "done"
          /\ vals' = [vals EXCEPT ![k] = NoEntry]
      BY <2>2 DEF DelCacheVal
    <3>2. visible' = [visible EXCEPT ![k] = NoEntry]
      BY <3>1, <1>2, NothingExpires DEF visible, CInv, CacheTypeOK
    <3> QED BY <3>1, <3>2 DEF Cache!Del
  <2>3. ASSUME NEW k \in Keys, NEW v \in Values, SetCacheVal(k, v) PROVE Cache!Set(k, v, TTL)
    BY <2>3, <1>2, SetRefines DEF SetCacheVal
  <2>4. ASSUME NEW k \in Keys, NEW v \in Values, SetPersistentVal(k, v) PROVE Cache!Set(k, v, 0)
    BY <2>4, <1>2, SetRefines DEF SetPersistentVal
  <2>5. ASSUME ClearCache PROVE Cache!Clear
    BY <2>5 DEF ClearCache, Cache!Clear, visible, Expired
  <2>6. ASSUME CallFails PROVE Cache!Fail
    BY <2>6 DEF CallFails, Cache!Fail, visible
  <2>7. ASSUME Outage \/ UNCHANGED cacheVars PROVE UNCHANGED Cache!vars
    BY <2>7 DEF Outage, cacheVars, Cache!vars, visible
  <2>8. ASSUME CacheTick PROVE Cache!Tick
    <3>1. now' = now + 1 /\ vals' = vals /\ reply' = reply
      BY <2>8 DEF CacheTick
    <3>2. visible' = [k \in Keys |-> IF Expired(vals[k], now + 1) THEN NoEntry ELSE vals[k]]
      BY <3>1 DEF visible
    <3>3. ASSUME NEW k \in Keys
          PROVE  (IF Expired(vals[k], now + 1) THEN NoEntry ELSE vals[k])
                   = IF Cache!Live(visible[k], now + 1) THEN visible[k] ELSE NoEntry
      <4>1. CASE vals[k] = NoEntry
        BY <4>1, VisibleEntry DEF Expired, Cache!Live
      <4>2. CASE vals[k] # NoEntry
        <5>1. vals[k].until \in Nat /\ now \in Nat
          BY <4>2, <1>2 DEF CInv, CacheTypeOK, Entry
        <5> QED BY <4>2, <5>1, VisibleEntry DEF Expired, Cache!Live, Never, Cache!Never
      <4> QED BY <4>1, <4>2
    <3> QED BY <3>1, <3>2, <3>3 DEF Cache!Tick
  <2> QED BY <1>2, <2>1, <2>2, <2>3, <2>4, <2>5, <2>6, <2>7, <2>8 DEF CacheNext, Cache!Next
<1>3. CacheInit => CInv
  BY CacheStarts
<1>4. CInv /\ [CacheNext]_cacheVars => CInv'
  BY CacheKept
<1> QED BY <1>1, <1>2, <1>3, <1>4, PTL DEF CacheSpec, IsTtlMap, Cache!Spec

-----------------------------------------------------------------------------
(* The subscription.  Its demand is a sum over what is on the wire, so the *)
(* proof needs induction; the library's least-element theorem about        *)
(* well-founded relations gives it for sets of numbers.                    *)

(* Every set of natural numbers that is not empty has a least element:     *)
(* the form in which the proofs use induction.                             *)
LEMMA LeastNumber ==
  ASSUME NEW T \in SUBSET Nat, T # {}
  PROVE  \E n \in T : \A m \in T : n <= m
<1> DEFINE R == {ss \in Nat \X Nat : ss[1] < ss[2]}
<1>1. IsWellFoundedOn(R, Nat)
  BY NatLessThanWellFounded DEF OpToRel
<1>2. PICK n \in T : \A m \in T : ~(<<m, n>> \in R)
  <2> HIDE DEF R
  <2> QED BY <1>1, WFMin
<1>3. ASSUME NEW m \in T, m < n PROVE FALSE
  <2>1. <<m, n>> \in R
    BY <1>3
  <2> QED BY <1>2, <2>1
<1> QED BY <1>3

(* Induction over a set of numbers.                                        *)
LEMMA NumberInduction ==
  ASSUME NEW S \in SUBSET Nat, 0 \in S, \A n \in S : n + 1 \in S
  PROVE  S = Nat
<1> SUFFICES ASSUME Nat \ S # {} PROVE FALSE
  OBVIOUS
<1>1. PICK n \in Nat \ S : \A m \in Nat \ S : n <= m
  BY LeastNumber
<1>2. n # 0
  OBVIOUS
<1>3. n - 1 \in Nat /\ n - 1 < n
  BY <1>2
<1>4. n - 1 \in S
  BY <1>1, <1>3
<1>5. (n - 1) + 1 \in S
  BY <1>4
<1> QED BY <1>1, <1>5

-----------------------------------------------------------------------------
(* Sums of sequences.  Adds(s, f) says that f[i] is the sum of the first i *)
(* elements of s.                                                          *)
Adds(s, f) ==
    /\ f \in [0..Len(s) -> Nat]
    /\ f[0] = 0
    /\ \A i \in 1..Len(s) : f[i] = s[i] + f[i - 1]

(* Sums of the beginnings of a sequence exist.                             *)
LEMMA SumsExist ==
  ASSUME NEW s \in Seq(Nat)
  PROVE  \E f : Adds(s, f)
<1> DEFINE Upto(n, f) == /\ f \in [0..n -> Nat] /\ f[0] = 0
                         /\ \A i \in 1..n : f[i] = s[i] + f[i - 1]
<1> DEFINE S == {n \in Nat : n <= Len(s) => \E f : Upto(n, f)}
<1>1. 0 \in S
  <2>1. Upto(0, [i \in 0..0 |-> 0])
    OBVIOUS
  <2> QED BY <2>1
<1>2. ASSUME NEW n \in S PROVE n + 1 \in S
  <2>1. n \in Nat /\ n + 1 \in Nat
    OBVIOUS
  <2>2. SUFFICES ASSUME n + 1 <= Len(s) PROVE \E f : Upto(n + 1, f)
    BY <2>1
  <2>3. PICK f : Upto(n, f)
    <3>1. n <= Len(s)
      BY <2>1, <2>2
    <3> HIDE DEF Upto
    <3> QED BY <3>1
  <2> DEFINE g == [i \in 0..(n + 1) |-> IF i = n + 1 THEN s[n + 1] + f[n] ELSE f[i]]
  <2>4. s[n + 1] \in Nat /\ f[n] \in Nat
    <3>1. n + 1 \in 1..Len(s) /\ n \in 0..n
      BY <2>1, <2>2
    <3> QED BY <2>3, <3>1
  <2>5. g \in [0..(n + 1) -> Nat] /\ g[0] = 0
    BY <2>1, <2>3, <2>4
  <2>6. ASSUME NEW i \in 1..(n + 1) PROVE g[i] = s[i] + g[i - 1]
    <3>1. i \in 0..(n + 1) /\ i - 1 \in 0..(n + 1) /\ i - 1 # n + 1
      BY <2>1
    <3>2. g[i - 1] = f[i - 1]
      BY <3>1
    <3>3. CASE i = n + 1
      BY <3>1, <3>2, <3>3, <2>1
    <3>4. CASE i # n + 1
      <4>1. i \in 1..n /\ g[i] = f[i]
        BY <2>1, <3>1, <3>4
      <4> QED BY <2>3, <3>2, <4>1
    <3> QED BY <3>3, <3>4
  <2>7. Upto(n + 1, g)
    BY <2>5, <2>6
  <2> QED BY <2>7
<1> HIDE DEF S
<1>3. S = Nat
  <2>1. S \in SUBSET Nat
    BY DEF S
  <2> QED BY <1>1, <1>2, <2>1, NumberInduction
<1>4. Len(s) \in S
  BY <1>3
<1>5. PICK f : Upto(Len(s), f)
  BY <1>4 DEF S
<1> QED BY <1>5 DEF Adds

(* There is only one function that adds up a sequence.                     *)
LEMMA SumsUnique ==
  ASSUME NEW s \in Seq(Nat), NEW f, Adds(s, f), NEW g, DOMAIN g = 0..Len(s), g[0] = 0,
         \A i \in 1..Len(s) : g[i] = s[i] + g[i - 1]
  PROVE  \A i \in 0..Len(s) : g[i] = f[i]
<1> DEFINE S == {n \in Nat : n <= Len(s) => g[n] = f[n]}
<1>1. 0 \in S
  BY DEF Adds
<1>2. ASSUME NEW n \in S PROVE n + 1 \in S
  <2>1. n \in Nat /\ n + 1 \in Nat
    OBVIOUS
  <2>2. SUFFICES ASSUME n + 1 <= Len(s) PROVE g[n + 1] = f[n + 1]
    BY <2>1
  <2>3. g[n] = f[n] /\ n + 1 \in 1..Len(s) /\ (n + 1) - 1 = n
    BY <2>1, <2>2
  <2> QED BY <2>3 DEF Adds
<1> HIDE DEF S
<1>3. S = Nat
  <2>1. S \in SUBSET Nat
    BY DEF S
  <2> QED BY <1>1, <1>2, <2>1, NumberInduction
<1> QED BY <1>3 DEF S

(* The Sum of the model is the last of these sums.                         *)
LEMMA SumIs ==
  ASSUME NEW s \in Seq(Nat), NEW f, Adds(s, f)
  PROVE  Sum(s) = f[Len(s)] /\ Sum(s) \in Nat
<1> DEFINE P(g) == g = [i \in 0..Len(s) |-> IF i = 0 THEN 0 ELSE s[i] + g[i - 1]]
<1> DEFINE h == CHOOSE g : P(g)
<1>1. P(f)
  <2>1. f = [i \in 0..Len(s) |-> f[i]]
    BY DEF Adds
  <2>2. \A i \in 0..Len(s) : f[i] = IF i = 0 THEN 0 ELSE s[i] + f[i - 1]
    BY DEF Adds
  <2> QED BY <2>1, <2>2
<1>2. P(h)
  BY <1>1
<1>3. Sum(s) = h[Len(s)]
  BY DEF Sum
<1> HIDE DEF h
<1>4. DOMAIN h = 0..Len(s) /\ h[0] = 0 /\ \A i \in 1..Len(s) : h[i] = s[i] + h[i - 1]
  BY <1>2
<1>5. h[Len(s)] = f[Len(s)]
  BY <1>4, SumsUnique
<1> QED BY <1>3, <1>5 DEF Adds

(* Sums are numbers.                                                       *)
LEMMA SumNat ==
  ASSUME NEW s \in Seq(Nat)
  PROVE  Sum(s) \in Nat
<1>1. PICK f : Adds(s, f)
  BY SumsExist
<1> QED BY <1>1, SumIs

(* The sum of nothing.                                                     *)
LEMMA SumEmpty == Sum(<<>>) = 0
<1>1. Adds(<<>>, [i \in 0..0 |-> 0])
  BY DEF Adds
<1>2. <<>> \in Seq(Nat)
  OBVIOUS
<1> DEFINE f == [i \in 0..0 |-> 0]
<1>3. f[Len(<<>>)] = 0
  OBVIOUS
<1> QED BY <1>1, <1>2, <1>3, SumIs

(* A number at the end.                                                    *)
LEMMA SumAppend ==
  ASSUME NEW s \in Seq(Nat), NEW x \in Nat
  PROVE  Sum(Append(s, x)) = Sum(s) + x
<1>1. PICK f : Adds(s, f)
  BY SumsExist
<1> DEFINE t == Append(s, x)
           n == Len(s)
           g == [i \in 0..(n + 1) |-> IF i = n + 1 THEN x + f[n] ELSE f[i]]
<1>2. /\ t \in Seq(Nat) /\ Len(t) = n + 1 /\ t[n + 1] = x /\ n \in Nat
      /\ \A i \in 1..n : t[i] = s[i]
  OBVIOUS
<1>3. f \in [0..n -> Nat] /\ f[0] = 0 /\ f[n] \in Nat /\ \A i \in 1..n : f[i] = s[i] + f[i - 1]
  BY <1>1, <1>2 DEF Adds
<1>4. g \in [0..(n + 1) -> Nat] /\ g[0] = 0 /\ g[n + 1] = x + f[n]
  BY <1>2, <1>3
<1>5. ASSUME NEW i \in 1..(n + 1) PROVE g[i] = t[i] + g[i - 1]
  <2>1. i \in 0..(n + 1) /\ i - 1 \in 0..(n + 1) /\ i - 1 # n + 1
    BY <1>2
  <2>2. g[i - 1] = f[i - 1]
    BY <2>1
  <2>3. CASE i = n + 1
    BY <1>2, <1>4, <2>2, <2>3
  <2>4. CASE i # n + 1
    <3>1. i \in 1..n /\ g[i] = f[i]
      BY <1>2, <2>1, <2>4
    <3> QED BY <1>2, <1>3, <2>2, <3>1
  <2> QED BY <2>3, <2>4
<1> HIDE DEF t, g
<1>6. Adds(t, g)
  BY <1>2, <1>4, <1>5 DEF Adds
<1>7. Sum(t) = g[n + 1]
  BY <1>2, <1>6, SumIs
<1>8. Sum(s) = f[n]
  BY <1>1, SumIs
<1>9. x + f[n] = f[n] + x
  BY <1>3
<1> QED BY <1>4, <1>7, <1>8, <1>9 DEF t

(* The first number.                                                       *)
LEMMA SumTail ==
  ASSUME NEW s \in Seq(Nat), s # <<>>
  PROVE  Sum(s) = Head(s) + Sum(Tail(s))
<1>1. PICK f : Adds(s, f)
  BY SumsExist
<1> DEFINE t == Tail(s)
           n == Len(s)
<1>2. /\ t \in Seq(Nat) /\ Len(t) = n - 1 /\ n \in Nat /\ n >= 1 /\ Head(s) = s[1] /\ s[1] \in Nat
      /\ \A i \in 1..(n - 1) : t[i] = s[i + 1]
  OBVIOUS
<1>3. PICK g : Adds(t, g)
  BY <1>2, SumsExist
<1> HIDE DEF t
<1>4. /\ f \in [0..n -> Nat] /\ f[0] = 0 /\ \A i \in 1..n : f[i] = s[i] + f[i - 1]
      /\ g \in [0..(n - 1) -> Nat] /\ g[0] = 0 /\ \A i \in 1..(n - 1) : g[i] = t[i] + g[i - 1]
  BY <1>1, <1>2, <1>3 DEF Adds
<1> DEFINE S == {k \in Nat : k <= n - 1 => f[k + 1] = s[1] + g[k]}
<1>5. 0 \in S
  <2>1. f[1] = s[1] + f[1 - 1]
    BY <1>2, <1>4
  <2> QED BY <1>2, <1>4, <2>1
<1>6. ASSUME NEW k \in S PROVE k + 1 \in S
  <2>1. k \in Nat /\ k + 1 \in Nat
    OBVIOUS
  <2>2. SUFFICES ASSUME k + 1 <= n - 1 PROVE f[(k + 1) + 1] = s[1] + g[k + 1]
    BY <2>1
  <2>3. f[k + 1] = s[1] + g[k]
    BY <1>2, <2>1, <2>2
  <2>4. k + 1 \in 1..(n - 1) /\ (k + 1) + 1 \in 1..n /\ (k + 1) - 1 = k /\ ((k + 1) + 1) - 1 = k + 1
    BY <1>2, <2>1, <2>2
  <2>5. f[(k + 1) + 1] = s[(k + 1) + 1] + f[k + 1]
    BY <1>4, <2>4
  <2>6. g[k + 1] = t[k + 1] + g[k]
    BY <1>4, <2>4
  <2>7. t[k + 1] = s[(k + 1) + 1] /\ g[k] \in Nat /\ t[k + 1] \in Nat
    <3>1. k \in 0..(n - 1) /\ k + 1 \in 1..Len(t)
      BY <1>2, <2>1, <2>2
    <3>2. t[k + 1] \in Nat
      BY <1>2, <3>1
    <3> QED BY <1>2, <1>4, <2>4, <3>1, <3>2
  <2>8. \A a, b, c \in Nat : a + (b + c) = b + (a + c)
    OBVIOUS
  <2> QED BY <1>2, <2>3, <2>5, <2>6, <2>7, <2>8
<1> HIDE DEF S
<1>7. S = Nat
  <2>1. S \in SUBSET Nat
    BY DEF S
  <2> QED BY <1>5, <1>6, <2>1, NumberInduction
<1>8. f[n] = s[1] + g[n - 1]
  <2>1. n - 1 \in S /\ (n - 1) + 1 = n /\ n - 1 <= n - 1
    BY <1>2, <1>7
  <2> QED BY <2>1 DEF S
<1>9. Sum(s) = f[n] /\ Sum(t) = g[n - 1]
  BY <1>1, <1>2, <1>3, SumIs
<1> QED BY <1>2, <1>8, <1>9 DEF t

-----------------------------------------------------------------------------
(* Sets of events.                                                         *)

(* A set of numbers below a bound has a greatest element, and Last is it.  *)
LEMMA LastIs ==
  ASSUME NEW T \in SUBSET (1..MaxHead), T # {}
  PROVE  Last(T) \in T /\ \A e \in T : e <= Last(T)
<1> DEFINE U == {n \in Nat : \E e \in T : n = MaxHead - e}
<1>1. MaxHead \in Nat /\ \A e \in T : e \in Nat /\ e <= MaxHead
  BY TopicAssumption
<1>2. U \in SUBSET Nat /\ U # {}
  <2>1. PICK e \in T : TRUE
    OBVIOUS
  <2>2. MaxHead - e \in U
    BY <1>1, <2>1
  <2> QED BY <2>2
<1>3. PICK n \in U : \A m \in U : n <= m
  <2> HIDE DEF U
  <2> QED BY <1>2, LeastNumber
<1>4. PICK l \in T : n = MaxHead - l
  OBVIOUS
<1>5. ASSUME NEW e \in T PROVE e <= l
  <2>1. MaxHead - e \in U
    BY <1>1
  <2>2. n <= MaxHead - e
    BY <1>3, <2>1
  <2> QED BY <1>1, <1>4, <2>2
<1>6. \E k \in T : \A e \in T : e <= k
  BY <1>5
<1> QED BY <1>6 DEF Last

(* Sets of events are finite.                                              *)
LEMMA EventsFinite ==
  ASSUME NEW T \in SUBSET (1..MaxHead)
  PROVE  IsFiniteSet(T) /\ Size(T) \in Nat /\ (Size(T) = 0 <=> T = {})
<1>1. IsFiniteSet(1..MaxHead)
  BY TopicAssumption, FS_Interval
<1>2. IsFiniteSet(T)
  BY <1>1, FS_Subset
<1> QED BY <1>2, FS_CardinalityType, FS_EmptySet DEF Size

(* A part is no larger than the whole.                                     *)
LEMMA PartSmaller ==
  ASSUME NEW T \in SUBSET (1..MaxHead), NEW U \in SUBSET T
  PROVE  Size(U) <= Size(T)
BY EventsFinite, FS_Subset DEF Size

(* Oldest takes at most n events, and with each of them all older ones.    *)
LEMMA OldestAre ==
  ASSUME NEW S \in SUBSET (1..MaxHead), NEW n \in Nat
  PROVE  /\ Oldest(S, n) \subseteq S
         /\ Size(Oldest(S, n)) <= n
         /\ \A e \in Oldest(S, n) : \A f \in S : f <= e => f \in Oldest(S, n)
<1> DEFINE Upto(e) == {f \in S : f <= e}
<1>1. \A e : Upto(e) \in SUBSET S /\ Upto(e) \in SUBSET (1..MaxHead) /\ Size(Upto(e)) \in Nat
  BY EventsFinite
<1>2. Oldest(S, n) = {e \in S : Size(Upto(e)) <= n}
  BY DEF Oldest
<1>3. ASSUME NEW e \in S, Size(Upto(e)) <= n, NEW f \in S, f <= e PROVE Size(Upto(f)) <= n
  <2>1. Upto(f) \subseteq Upto(e)
    <3>1. \A g \in S : g <= f => g <= e
      <4>1. \A g \in S : g \in Int
        BY TopicAssumption
      <4> QED BY <1>3, <4>1
    <3> QED BY <3>1
  <2>2. Size(Upto(f)) <= Size(Upto(e))
    BY <1>1, <2>1, PartSmaller
  <2> QED BY <1>1, <1>3, <2>2
<1> HIDE DEF Upto
<1>4. Size({e \in S : Size(Upto(e)) <= n}) <= n
  <2> DEFINE O == {e \in S : Size(Upto(e)) <= n}
  <2>1. O \in SUBSET (1..MaxHead)
    OBVIOUS
  <2>2. CASE O = {}
    BY <2>1, <2>2, EventsFinite
  <2>3. CASE O # {}
    <3>1. Last(O) \in O /\ \A e \in O : e <= Last(O)
      <4> HIDE DEF O
      <4> QED BY <2>1, <2>3, LastIs
    <3>2. O \subseteq Upto(Last(O))
      <4> DEFINE l == Last(O)
      <4> HIDE DEF l
      <4>1. \A e \in O : e \in S /\ e <= l
        BY <3>1 DEF l
      <4> QED BY <4>1 DEF Upto, l
    <3>3. Size(O) <= Size(Upto(Last(O)))
      <4> HIDE DEF O
      <4> QED BY <1>1, <3>2, PartSmaller
    <3>4. Size(Upto(Last(O))) <= n
      BY <3>1
    <3>5. Size(O) \in Nat
      <4> HIDE DEF O
      <4> QED BY <2>1, EventsFinite
    <3>6. Size(Upto(Last(O))) \in Nat
      BY <1>1
    <3> HIDE DEF O
    <3> QED BY <3>3, <3>4, <3>5, <3>6 DEF O
  <2> QED BY <2>2, <2>3
<1> QED BY <1>2, <1>3, <1>4

-----------------------------------------------------------------------------
(* The events on the wire.                                                 *)

SizesOf(rs) == [i \in DOMAIN rs |-> Size(rs[i].events)]

(* Sequences are equal if their elements are.                              *)
LEMMA SameElements ==
  ASSUME NEW a \in Seq(Nat), NEW b \in Seq(Nat), Len(a) = Len(b),
         \A i \in 1..Len(a) : a[i] = b[i]
  PROVE  a = b
OBVIOUS

(* EventsInFlight is the sum of these sizes.                               *)
LEMMA InFlightIs == EventsInFlight = Sum(SizesOf(responses))
BY DEF EventsInFlight, SizesOf

(* The sizes of responses are numbers.                                     *)
LEMMA SizesAre ==
  ASSUME NEW rs \in Seq(Response)
  PROVE  SizesOf(rs) \in Seq(Nat) /\ Len(SizesOf(rs)) = Len(rs)
<1>1. \A i \in 1..Len(rs) : Size(rs[i].events) \in Nat
  <2> SUFFICES ASSUME NEW i \in 1..Len(rs) PROVE Size(rs[i].events) \in Nat
    OBVIOUS
  <2>1. rs[i] \in Response
    OBVIOUS
  <2>2. rs[i].events \in SUBSET (1..MaxHead)
    BY <2>1 DEF Response
  <2> QED BY <2>2, EventsFinite
<1>2. DOMAIN rs = 1..Len(rs)
  OBVIOUS
<1> QED BY <1>1, <1>2 DEF SizesOf

(* A response is sent.                                                     *)
LEMMA SizesAppend ==
  ASSUME NEW rs \in Seq(Response), NEW r \in Response
  PROVE  SizesOf(Append(rs, r)) = Append(SizesOf(rs), Size(r.events))
<1> DEFINE a == SizesOf(Append(rs, r))
           b == Append(SizesOf(rs), Size(r.events))
<1>1. Append(rs, r) \in Seq(Response) /\ Len(Append(rs, r)) = Len(rs) + 1
  OBVIOUS
<1>2. a \in Seq(Nat) /\ Len(a) = Len(rs) + 1
  BY <1>1, SizesAre
<1>3. SizesOf(rs) \in Seq(Nat) /\ Len(SizesOf(rs)) = Len(rs)
  BY SizesAre
<1>4. Size(r.events) \in Nat
  <2>1. r.events \in SUBSET (1..MaxHead)
    BY DEF Response
  <2> QED BY <2>1, EventsFinite
<1>5. b \in Seq(Nat) /\ Len(b) = Len(rs) + 1
  BY <1>3, <1>4
<1>6. ASSUME NEW i \in 1..(Len(rs) + 1) PROVE a[i] = b[i]
  <2>1. a[i] = Size(Append(rs, r)[i].events)
    BY DEF SizesOf
  <2>2. CASE i = Len(rs) + 1
    BY <1>3, <1>4, <2>1, <2>2
  <2>3. CASE i # Len(rs) + 1
    <3>1. i \in 1..Len(rs) /\ Append(rs, r)[i] = rs[i]
      BY <2>3
    <3>2. b[i] = SizesOf(rs)[i]
      BY <1>3, <1>4, <3>1
    <3>3. SizesOf(rs)[i] = Size(rs[i].events)
      BY <3>1 DEF SizesOf
    <3> QED BY <2>1, <3>1, <3>2, <3>3
  <2> QED BY <2>2, <2>3
<1> HIDE DEF a, b
<1>7. a = b
  BY <1>2, <1>5, <1>6, SameElements
<1> QED BY <1>7 DEF a, b

(* A response is read.                                                     *)
LEMMA SizesTail ==
  ASSUME NEW rs \in Seq(Response), rs # <<>>
  PROVE  /\ SizesOf(Tail(rs)) = Tail(SizesOf(rs))
         /\ SizesOf(rs) # <<>> /\ Head(SizesOf(rs)) = Size(Head(rs).events)
<1> DEFINE a == SizesOf(Tail(rs))
           b == Tail(SizesOf(rs))
           n == Len(rs)
<1>1. Tail(rs) \in Seq(Response) /\ Len(Tail(rs)) = n - 1 /\ n \in Nat /\ n >= 1
  OBVIOUS
<1>2. a \in Seq(Nat) /\ Len(a) = n - 1
  BY <1>1, SizesAre
<1>3. SizesOf(rs) \in Seq(Nat) /\ Len(SizesOf(rs)) = n
  BY SizesAre
<1>4. SizesOf(rs) # <<>>
  BY <1>1, <1>3
<1>5. b \in Seq(Nat) /\ Len(b) = n - 1
  BY <1>1, <1>3, <1>4
<1>6. ASSUME NEW i \in 1..(n - 1) PROVE a[i] = b[i]
  <2>1. i \in DOMAIN Tail(rs) /\ i + 1 \in DOMAIN rs
    BY <1>1
  <2>2. a[i] = Size(Tail(rs)[i].events)
    BY <2>1 DEF SizesOf
  <2>3. Tail(rs)[i] = rs[i + 1]
    BY <1>1
  <2>4. b[i] = SizesOf(rs)[i + 1]
    BY <1>1, <1>3, <1>4
  <2>5. SizesOf(rs)[i + 1] = Size(rs[i + 1].events)
    BY <2>1 DEF SizesOf
  <2> QED BY <2>2, <2>3, <2>4, <2>5
<1>7. Head(SizesOf(rs)) = Size(Head(rs).events)
  <2>1. Head(SizesOf(rs)) = SizesOf(rs)[1] /\ Head(rs) = rs[1] /\ 1 \in DOMAIN rs
    BY <1>1, <1>3, <1>4
  <2> QED BY <2>1 DEF SizesOf
<1> HIDE DEF a, b
<1>8. a = b
  BY <1>2, <1>5, <1>6, SameElements
<1> QED BY <1>4, <1>7, <1>8 DEF a, b

-----------------------------------------------------------------------------
(* The inductive invariant.  Positions are ordered the way events travel:  *)
(* checkpoint, buffer, responses in the order they were sent, cursor.      *)
Order ==
    /\ oldest = 1 /\ cursor <= head /\ committed <= head /\ seen <= head
    /\ open => committed <= cursor
    /\ ~open => responses = <<>> /\ buffer = {}
    /\ \A b \in buffer : b <= cursor
    /\ \A j \in 1..Len(responses) :
          /\ responses[j].latest <= cursor
          /\ \A f \in responses[j].events :
                /\ committed < f /\ f <= responses[j].latest
                /\ \A b \in buffer : b < f
    /\ \A j \in 1..Len(responses) : \A i \in 1..(j - 1) :
          \A f \in responses[j].events : responses[i].latest < f

(* The server sends next what follows its cursor, and no more than it was  *)
(* asked for, although the demand was read earlier.                        *)
NextBatch ==
    /\ loop = "send" =>
          /\ batch # {} /\ Size(batch) <= demand
          /\ \A b \in batch : cursor < b /\ b <= seen /\ EventsAfter(cursor, b) \subseteq batch
    /\ loop = "keepalive" => cursor <= seen /\ keepalives < MaxKeepalives

(* Every event up to a position is archived, buffered, jumped over or in a *)
(* response sent before that position was.                                 *)
Reached(e) == e \in archived \union jumped \union buffer

Complete == Preset = "EARLIEST" =>
    /\ committed # NoReplay => EventsAfter(0, committed) \subseteq archived \union jumped
    /\ open =>
        /\ \A b \in buffer : \A e \in EventsAfter(0, b) : Reached(e)
        /\ \A j \in 1..Len(responses) : \A e \in EventsAfter(0, responses[j].latest) :
              Reached(e) \/ \E i \in 1..j : e \in responses[i].events
        /\ \A e \in EventsAfter(0, cursor) :
              Reached(e) \/ \E i \in 1..Len(responses) : e \in responses[i].events

FInv == TypeOK /\ DemandAccounted /\ Order /\ NextBatch /\ Complete

(* The appetite is positive.                                               *)
LEMMA AppetiteOK == Appetite \in Nat /\ Appetite >= 1
BY FlowAssumption DEF Appetite

(* Requests are numbers that can be added up.                              *)
LEMMA RequestsAreNumbers ==
  ASSUME NEW s \in Seq(1..Appetite)
  PROVE  s \in Seq(Nat)
<1>1. \A i \in 1..Len(s) : s[i] \in Nat
  BY AppetiteOK
<1> QED BY <1>1

(* What DemandAccounted adds up.                                           *)
LEMMA Accounts ==
  ASSUME TypeOK, DemandAccounted
  PROVE  /\ Sum(requests) \in Nat /\ Sum(SizesOf(responses)) \in Nat
         /\ requests \in Seq(Nat) /\ SizesOf(responses) \in Seq(Nat)
         /\ open => pending = demand + Sum(requests) + Sum(SizesOf(responses))
<1>1. requests \in Seq(Nat)
  BY RequestsAreNumbers DEF TypeOK
<1>2. SizesOf(responses) \in Seq(Nat)
  BY SizesAre DEF TypeOK
<1>4. open => pending = demand + Sum(requests) + Sum(SizesOf(responses))
  BY InFlightIs DEF DemandAccounted
<1> QED BY <1>1, <1>2, <1>4, SumNat

(* What a step leaves accounted for.                                       *)
LEMMA AccountsNext ==
  ASSUME open' => pending' = demand' + Sum(requests') + Sum(SizesOf(responses'))
  PROVE  DemandAccounted'
BY DEF DemandAccounted, EventsInFlight, SizesOf

(* Nothing has happened yet.                                               *)
LEMMA FlowStarts ==
  ASSUME Init
  PROVE  FInv
<1>1. Appetite \in Nat /\ MaxHead \in Nat /\ MaxKeepalives \in Nat /\ MaxBreaks \in Nat
  BY AppetiteOK, TopicAssumption, FlowAssumption
<1>2. TypeOK
  <2>1. <<>> \in Seq(1..Appetite) /\ <<>> \in Seq(Response)
    OBVIOUS
  <2>2. 0 \in 0..MaxHead /\ 0 \in 0..Appetite /\ 0 \in 0..MaxKeepalives /\ 0 \in 0..MaxBreaks
    BY <1>1
  <2> QED BY <2>1, <2>2 DEF Init, TopicInit, TypeOK
<1>3. DemandAccounted
  BY DEF Init, DemandAccounted
<1>4. Order /\ NextBatch
  BY DEF Init, TopicInit, Order, NextBatch, NoReplay
<1>5. Complete
  BY DEF Init, Complete
<1> QED BY <1>2, <1>3, <1>4, <1>5 DEF FInv

(* A stream is opened.                                                     *)
LEMMA OpenStreamKeeps ==
  ASSUME FInv, OpenStream
  PROVE  FInv'
<1> USE TopicAssumption, AppetiteOK
<1>1. /\ ~open /\ open' = TRUE /\ pending' = Appetite /\ demand' = Appetite
      /\ cursor' = StartCursor /\ loop' = "top" /\ batch' = {} /\ seen' = 0
      /\ requests' = <<>> /\ responses' = <<>>
      /\ UNCHANGED <<head, oldest, buffer, archived, committed, jumped, keepalives, breaks>>
  BY DEF OpenStream, topicVars, countVars
<1>2. TypeOK /\ Order /\ Complete
  BY DEF FInv
<1>3. cursor' \in 0..MaxHead /\ cursor' <= head /\ committed <= cursor'
  BY <1>1, <1>2 DEF StartCursor, StartEarliest, StartLatest, TypeOK, Order, NoReplay
<1>4. TypeOK'
  BY <1>1, <1>2, <1>3 DEF TypeOK
<1>5. DemandAccounted'
  <2>1. SizesOf(<<>>) = <<>>
    BY DEF SizesOf
  <2>2. Sum(requests') = 0 /\ Sum(SizesOf(responses')) = 0
    BY <1>1, <2>1, SumEmpty
  <2> QED BY <1>1, <2>2, AccountsNext
<1>6. Order'
  BY <1>1, <1>2, <1>3 DEF Order, TypeOK
<1>7. NextBatch'
  BY <1>1 DEF NextBatch
<1>8. Complete'
  <2> SUFFICES ASSUME Preset = "EARLIEST" PROVE Complete'
    BY DEF Complete
  <2>1. committed # NoReplay => EventsAfter(0, committed) \subseteq archived \union jumped
    BY <1>2 DEF Complete
  <2>2. buffer = {}
    BY <1>1, <1>2 DEF Order
  <2>3. EventsAfter(0, cursor') \subseteq archived \union jumped
    <3>1. CASE committed # NoReplay
      BY <1>1, <2>1, <3>1 DEF StartCursor
    <3>2. CASE committed = NoReplay
      <4>1. cursor' = 0
        BY <1>1, <1>2, <3>2 DEF StartCursor, StartEarliest, Order
      <4> QED BY <4>1 DEF EventsAfter
    <3> QED BY <3>1, <3>2
  <2> QED BY <1>1, <2>1, <2>2, <2>3 DEF Complete, Reached
<1> QED BY <1>4, <1>5, <1>6, <1>7, <1>8 DEF FInv

(* Steps that only move the loop, publish an event or read a request.      *)
LEMMA SmallStepsKeep ==
  ASSUME FInv, PublishEvent \/ ReadRequest \/ Tick \/ Park
  PROVE  FInv'
<1> USE TopicAssumption, AppetiteOK
<1>1. /\ UNCHANGED <<oldest, pending, buffer, archived, committed, cursor, batch, seen, open>>
      /\ UNCHANGED <<responses, jumped, keepalives, breaks>>
      /\ head' \in {head, head + 1} /\ head' <= MaxHead /\ head' \in 0..MaxHead
      /\ loop' \in {loop, "top", "wait"}
  BY DEF FInv, TypeOK, PublishEvent, Publish, ReadRequest, Tick, Park, topicVars, clientVars, wireVars, countVars
<1>2. TypeOK /\ DemandAccounted /\ Order /\ NextBatch /\ Complete
  BY DEF FInv
<1>3. /\ Sum(requests) \in Nat /\ Sum(SizesOf(responses)) \in Nat
      /\ requests \in Seq(Nat)
      /\ open => pending = demand + Sum(requests) + Sum(SizesOf(responses))
  BY <1>2, Accounts
<1>4. /\ requests' \in Seq(1..Appetite) /\ demand' \in 0..Appetite /\ demand <= demand'
      /\ open => pending = demand' + Sum(requests') + Sum(SizesOf(responses))
  <2>1. CASE UNCHANGED <<demand, requests>>
    BY <1>2, <1>3, <2>1 DEF TypeOK
  <2>2. CASE open /\ requests # <<>> /\ demand' = demand + Head(requests) /\ requests' = Tail(requests)
    <3>1. Sum(requests) = Head(requests) + Sum(requests')
      BY <1>3, <2>2, SumTail
    <3>2. Head(requests) \in 1..Appetite /\ requests' \in Seq(1..Appetite) /\ requests' \in Seq(Nat)
      BY <1>2, <1>3, <2>2 DEF TypeOK
    <3>3. Sum(requests') \in Nat
      BY <3>2, SumNat
    <3>4. pending = demand' + Sum(requests') + Sum(SizesOf(responses))
      BY <1>2, <1>3, <2>2, <3>1, <3>2, <3>3 DEF TypeOK
    <3>5. demand' \in 0..Appetite /\ demand <= demand'
      <4>1. /\ demand \in Nat /\ Head(requests) \in Nat /\ pending \in Nat /\ pending <= Appetite
            /\ demand' = demand + Head(requests)
        BY <1>2, <2>2, <3>2 DEF TypeOK
      <4>2. \A a, b, c, p, A \in Nat : p = a + b + c /\ p <= A => a \in 0..A
        OBVIOUS
      <4>3. demand' \in Nat /\ demand <= demand'
        BY <4>1
      <4> QED BY <1>3, <3>3, <3>4, <4>1, <4>2, <4>3
    <3> QED BY <3>2, <3>4, <3>5
  <2> QED BY <2>1, <2>2 DEF PublishEvent, ReadRequest, Tick, Park, wireVars
<1>5. TypeOK'
  BY <1>1, <1>2, <1>4 DEF TypeOK
<1>6. DemandAccounted'
  BY <1>1, <1>4, AccountsNext
<1>7. Order'
  <2>1. /\ cursor \in Int /\ committed \in Int /\ seen \in Int /\ head \in Int
    BY <1>2 DEF TypeOK, NoReplay
  <2>2. cursor <= head' /\ committed <= head' /\ seen <= head'
    BY <1>1, <1>2, <2>1 DEF Order
  <2> QED BY <1>1, <1>2, <2>2 DEF Order
<1>8. NextBatch'
  <2>1. Size(batch) \in Nat
    BY <1>2, EventsFinite DEF TypeOK
  <2>2. Size(batch) <= demand => Size(batch) <= demand'
    BY <1>2, <1>4, <2>1 DEF TypeOK
  <2> QED BY <1>1, <1>2, <2>2 DEF NextBatch
<1>9. Complete'
  BY <1>1, <1>2 DEF Complete, Reached
<1> QED BY <1>5, <1>6, <1>7, <1>8, <1>9 DEF FInv

(* The loop looks for events.                                              *)
LEMMA LookKeeps ==
  ASSUME FInv, Look
  PROVE  FInv'
<1> USE TopicAssumption, AppetiteOK, FlowAssumption
<1> DEFINE S == EventsAfter(cursor, head)
<1>1. /\ UNCHANGED <<head, oldest, pending, buffer, archived, committed, demand, cursor>>
      /\ UNCHANGED <<open, requests, responses, jumped, keepalives, breaks>>
      /\ batch' = Oldest(S, Want) /\ seen' = head
      /\ loop' \in {"send", "park", "keepalive"} /\ (loop' = "send" => batch' # {})
      /\ loop' = "keepalive" => keepalives < MaxKeepalives
  BY DEF Look, topicVars, clientVars, wireVars, countVars
<1>2. TypeOK /\ DemandAccounted /\ Order /\ NextBatch /\ Complete
  BY DEF FInv
<1>3. /\ S \in SUBSET (1..MaxHead)
      /\ \A e \in S : cursor < e /\ e <= head
  BY <1>2 DEF EventsAfter, TypeOK
<1>4. Want \in Nat /\ Want <= demand
  BY <1>2 DEF Want, TypeOK
<1>5. /\ batch' \subseteq S /\ Size(batch') <= Want
      /\ \A e \in batch' : \A f \in S : f <= e => f \in batch'
  <2> HIDE DEF S
  <2> QED BY <1>1, <1>3, <1>4, OldestAre
<1>6. Size(batch') \in Nat
  BY <1>3, <1>5, EventsFinite
<1>7. ASSUME NEW b \in batch' PROVE cursor < b /\ b <= head /\ EventsAfter(cursor, b) \subseteq batch'
  <2>1. b \in S /\ cursor < b /\ b <= head
    BY <1>3, <1>5
  <2>2. ASSUME NEW e \in EventsAfter(cursor, b) PROVE e \in S /\ e <= b
    BY <1>2, <2>1, <2>2 DEF EventsAfter, TypeOK
  <2> QED BY <1>5, <2>1, <2>2
<1> HIDE DEF S
<1>8. TypeOK'
  <2>1. batch' \subseteq 1..MaxHead
    BY <1>3, <1>5
  <2> QED BY <1>1, <1>2, <2>1 DEF TypeOK
<1>9. DemandAccounted'
  BY <1>1, <1>2 DEF DemandAccounted, EventsInFlight
<1>10. Order'
  BY <1>1, <1>2 DEF Order, TypeOK
<1>11. NextBatch'
  <2>1. Size(batch') <= demand
    BY <1>2, <1>4, <1>5, <1>6 DEF TypeOK
  <2>2. cursor <= head
    BY <1>2 DEF Order
  <2> QED BY <1>1, <1>7, <2>1, <2>2 DEF NextBatch
<1>12. Complete'
  BY <1>1, <1>2 DEF Complete, Reached
<1> QED BY <1>8, <1>9, <1>10, <1>11, <1>12 DEF FInv

(* A response is sent: events after the cursor, or a keepalive whose       *)
(* position the server takes responsibility for.                           *)
LEMMA AnswerKeeps ==
  ASSUME FInv, open, NEW events \in SUBSET (1..MaxHead), NEW latest \in 0..MaxHead,
         Answer(events, latest), Size(events) <= demand,
         cursor <= latest, latest <= head,
         \A f \in events : cursor < f /\ f <= latest,
         jumped \subseteq jumped', jumped' \subseteq 1..MaxHead,
         EventsAfter(cursor, latest) \subseteq events \union jumped',
         keepalives' \in 0..MaxKeepalives
  PROVE  FInv'
<1> USE TopicAssumption, AppetiteOK
<1> DEFINE r == [events |-> events, latest |-> latest, outstanding |-> demand']
           n == Len(responses)
<1>1. /\ demand' = demand - Size(events) /\ responses' = Append(responses, r)
      /\ loop' = "top" /\ cursor' = latest /\ batch' = {}
      /\ UNCHANGED <<head, oldest, pending, buffer, archived, committed, seen, open, requests, breaks>>
  BY DEF Answer, topicVars, clientVars
<1>2. TypeOK /\ DemandAccounted /\ Order /\ Complete
  BY DEF FInv
<1>3. Size(events) \in Nat
  BY EventsFinite
<1>4. demand' \in 0..Appetite /\ demand' \in Nat /\ demand = demand' + Size(events)
  BY <1>1, <1>2, <1>3 DEF TypeOK
<1>5. r \in Response /\ r.events = events /\ r.latest = latest
  BY <1>4 DEF Response
<1> HIDE DEF r
<1>6. /\ responses \in Seq(Response) /\ responses' \in Seq(Response) /\ n \in Nat /\ Len(responses') = n + 1
      /\ responses'[n + 1] = r /\ \A i \in 1..n : responses'[i] = responses[i]
  BY <1>1, <1>2, <1>5 DEF TypeOK
<1>7. TypeOK'
  BY <1>1, <1>2, <1>4, <1>6 DEF TypeOK
<1>8. DemandAccounted'
  <2>1. /\ Sum(requests) \in Nat /\ Sum(SizesOf(responses)) \in Nat
        /\ SizesOf(responses) \in Seq(Nat)
        /\ pending = demand + Sum(requests) + Sum(SizesOf(responses))
    BY <1>2, Accounts
  <2>2. SizesOf(responses') = Append(SizesOf(responses), Size(events))
    BY <1>1, <1>5, <1>6, SizesAppend
  <2>3. Sum(SizesOf(responses')) = Sum(SizesOf(responses)) + Size(events)
    BY <1>3, <2>1, <2>2, SumAppend
  <2>4. \A d, e, q, s \in Nat : (d + e) + q + s = d + q + (s + e)
    OBVIOUS
  <2>5. pending = demand' + Sum(requests) + Sum(SizesOf(responses'))
    BY <1>3, <1>4, <2>1, <2>3, <2>4
  <2> QED BY <1>1, <2>5, AccountsNext
<1>9. /\ cursor \in Int /\ committed \in Int /\ latest \in Int
      /\ \A b \in buffer : b \in Int
      /\ \A i \in 1..n : responses[i].latest \in Int
  <2>1. cursor \in Int /\ committed \in Int /\ \A b \in buffer : b \in Int
    BY <1>2 DEF TypeOK, NoReplay
  <2>2. ASSUME NEW i \in 1..n PROVE responses[i].latest \in Int
    <3>1. responses[i] \in Response
      BY <1>6
    <3> QED BY <3>1 DEF Response
  <2> QED BY <2>1, <2>2
<1>10. Order'
  <2>1. /\ oldest' = 1 /\ cursor' <= head' /\ committed' <= head' /\ seen' <= head'
        /\ committed' <= cursor' /\ \A b \in buffer' : b <= cursor'
    BY <1>1, <1>2, <1>9 DEF Order
  <2>2. ASSUME NEW j \in 1..(n + 1)
        PROVE  /\ responses'[j].latest <= cursor'
               /\ \A f \in responses'[j].events :
                     /\ committed' < f /\ f <= responses'[j].latest
                     /\ \A b \in buffer' : b < f
    <3>1. CASE j = n + 1
      <4>1. responses'[j].latest = latest /\ responses'[j].events = events
        BY <1>5, <1>6, <3>1
      <4>2. ASSUME NEW f \in events PROVE committed < f /\ f <= latest /\ \A b \in buffer : b < f
        <5>1. cursor < f /\ f <= latest /\ f \in Int
          OBVIOUS
        <5>2. committed <= cursor /\ \A b \in buffer : b <= cursor
          BY <1>2 DEF Order
        <5>3. \A x, y, z \in Int : x <= y /\ y < z => x < z
          OBVIOUS
        <5> QED BY <1>9, <5>1, <5>2, <5>3
      <4>3. responses'[j].latest <= cursor'
        BY <1>1, <1>9, <4>1
      <4>4. \A f \in responses'[j].events : committed' < f /\ f <= responses'[j].latest /\ \A b \in buffer' : b < f
        BY <1>1, <4>1, <4>2
      <4> QED BY <4>3, <4>4
    <3>2. CASE j # n + 1
      <4>1. j \in 1..n
        BY <1>6, <3>2
      <4>2. /\ responses[j].latest <= cursor
            /\ \A f \in responses[j].events :
                  /\ committed < f /\ f <= responses[j].latest
                  /\ \A b \in buffer : b < f
        BY <1>2, <4>1 DEF Order
      <4>3. responses[j].latest <= latest
        BY <1>9, <4>1, <4>2
      <4> QED BY <1>1, <1>6, <4>1, <4>2, <4>3
    <3> QED BY <3>1, <3>2
  <2>3. ASSUME NEW j \in 1..(n + 1), NEW i \in 1..(j - 1), NEW f \in responses'[j].events
        PROVE  responses'[i].latest < f
    <3>1. i \in 1..n /\ responses'[i] = responses[i]
      BY <1>6
    <3>2. CASE j = n + 1
      <4>1. f \in events
        BY <1>5, <1>6, <3>2
      <4>2. cursor < f /\ f \in Int /\ responses[i].latest <= cursor /\ responses[i].latest \in Int
        BY <1>2, <1>9, <3>1, <4>1 DEF Order
      <4> QED BY <1>9, <3>1, <4>2
    <3>3. CASE j # n + 1
      <4>1. j \in 1..n /\ f \in responses[j].events
        BY <1>6, <3>3
      <4>2. responses[i].latest < f
        BY <1>2, <4>1 DEF Order
      <4> QED BY <3>1, <4>2
    <3> QED BY <3>2, <3>3
  <2> QED BY <1>1, <1>6, <2>1, <2>2, <2>3 DEF Order
<1>11. NextBatch'
  BY <1>1 DEF NextBatch
<1>12. Complete'
  <2> SUFFICES ASSUME Preset = "EARLIEST" PROVE Complete'
    BY DEF Complete
  <2>1. committed' # NoReplay => EventsAfter(0, committed') \subseteq archived' \union jumped'
    BY <1>1, <1>2 DEF Complete
  <2>2. \A e : Reached(e) => Reached(e)'
    BY <1>1 DEF Reached
  <2>3. \A b \in buffer' : \A e \in EventsAfter(0, b) : Reached(e)'
    BY <1>1, <1>2, <2>2 DEF Complete
  <2>4. ASSUME NEW e \in EventsAfter(0, latest)
        PROVE  Reached(e)' \/ \E i \in 1..(n + 1) : e \in responses'[i].events
    <3>1. e \in EventsAfter(0, cursor) \/ e \in EventsAfter(cursor, latest)
      BY <1>2 DEF EventsAfter, TypeOK
    <3>2. CASE e \in EventsAfter(0, cursor)
      <4>1. Reached(e) \/ \E i \in 1..n : e \in responses[i].events
        BY <1>2, <3>2 DEF Complete
      <4>2. ASSUME NEW i \in 1..n, e \in responses[i].events
            PROVE  \E k \in 1..(n + 1) : e \in responses'[k].events
        <5>1. i \in 1..(n + 1) /\ e \in responses'[i].events
          BY <1>6, <4>2
        <5> QED BY <5>1
      <4> QED BY <2>2, <4>1, <4>2
    <3>3. CASE e \in EventsAfter(cursor, latest)
      <4>1. CASE e \in jumped'
        BY <4>1 DEF Reached
      <4>2. CASE e \in events
        <5>1. n + 1 \in 1..(n + 1) /\ e \in responses'[n + 1].events
          BY <1>5, <1>6, <4>2
        <5> QED BY <5>1
      <4> QED BY <3>3, <4>1, <4>2
    <3> QED BY <3>1, <3>2, <3>3
  <2>5. ASSUME NEW j \in 1..(n + 1), NEW e \in EventsAfter(0, responses'[j].latest)
        PROVE  Reached(e)' \/ \E i \in 1..j : e \in responses'[i].events
    <3>1. CASE j = n + 1
      <4>1. responses'[j].latest = latest
        BY <1>5, <1>6, <3>1
      <4> QED BY <2>4, <3>1, <4>1
    <3>2. CASE j # n + 1
      <4>1. j \in 1..n /\ responses'[j] = responses[j]
        BY <1>6, <3>2
      <4>2. Reached(e) \/ \E i \in 1..j : e \in responses[i].events
        BY <1>2, <4>1 DEF Complete
      <4>3. \A i \in 1..j : responses'[i] = responses[i]
        BY <1>6, <4>1
      <4> QED BY <2>2, <4>2, <4>3
    <3> QED BY <3>1, <3>2
  <2> QED BY <1>1, <1>6, <2>1, <2>3, <2>4, <2>5 DEF Complete
<1> QED BY <1>7, <1>8, <1>10, <1>11, <1>12 DEF FInv

(* Events are sent.                                                        *)
LEMMA SendEventsKeeps ==
  ASSUME FInv, SendEvents
  PROVE  FInv'
<1>1. /\ open /\ loop = "send" /\ Answer(batch, Last(batch)) /\ UNCHANGED <<jumped, keepalives>>
  BY DEF SendEvents
<1>2. TypeOK /\ Order /\ NextBatch
  BY DEF FInv
<1>3. batch \in SUBSET (1..MaxHead) /\ batch # {} /\ Size(batch) <= demand
  BY <1>1, <1>2 DEF TypeOK, NextBatch
<1>4. Last(batch) \in batch /\ \A e \in batch : e <= Last(batch)
  BY <1>3, LastIs
<1> DEFINE l == Last(batch)
<1> HIDE DEF l
<1>5. l \in batch /\ l \in 0..MaxHead /\ \A e \in batch : e <= l
  <2>1. l \in batch /\ \A e \in batch : e <= l
    BY <1>4 DEF l
  <2> QED BY <1>3, <2>1, TopicAssumption
<1>6. \A b \in batch : cursor < b /\ b <= seen /\ EventsAfter(cursor, b) \subseteq batch
  BY <1>1, <1>2 DEF NextBatch
<1>7. cursor <= l /\ l <= head
  <2>1. cursor \in Int /\ seen \in Int /\ head \in Int /\ seen <= head /\ l \in Int
    BY <1>2, <1>5 DEF TypeOK, Order
  <2> QED BY <1>5, <1>6, <2>1
<1>8. jumped \subseteq 1..MaxHead /\ keepalives \in 0..MaxKeepalives
  BY <1>2 DEF TypeOK
<1>9. Answer(batch, l)
  BY <1>1 DEF l
<1> QED BY <1>1, <1>3, <1>5, <1>6, <1>7, <1>8, <1>9, AnswerKeeps

(* A keepalive is sent.                                                    *)
LEMMA SendKeepaliveKeeps ==
  ASSUME FInv, SendKeepalive
  PROVE  FInv'
<1> DEFINE l == IF demand > 0 THEN seen ELSE cursor
<1>1. /\ open /\ loop = "keepalive" /\ Answer({}, l)
      /\ jumped' = jumped \union EventsAfter(cursor, cursor') /\ keepalives' = keepalives + 1
  BY DEF SendKeepalive
<1>2. TypeOK /\ Order /\ NextBatch
  BY DEF FInv
<1>3. l \in 0..MaxHead /\ cursor <= l /\ l <= head
  BY <1>1, <1>2, TopicAssumption DEF TypeOK, Order, NextBatch
<1>4. cursor' = l
  BY <1>1 DEF Answer
<1> HIDE DEF l
<1>5. /\ jumped \subseteq jumped' /\ jumped' \subseteq 1..MaxHead
      /\ EventsAfter(cursor, l) \subseteq jumped'
  <2>1. EventsAfter(cursor, l) \subseteq 1..MaxHead
    BY <1>2, <1>3, TopicAssumption DEF TypeOK, EventsAfter
  <2> QED BY <1>1, <1>2, <1>4, <2>1 DEF TypeOK
<1>6. keepalives' \in 0..MaxKeepalives
  BY <1>1, <1>2, FlowAssumption DEF TypeOK, NextBatch
<1>7. {} \in SUBSET (1..MaxHead) /\ Size({}) <= demand
  <2>1. Size({}) = 0
    BY EventsFinite
  <2> QED BY <1>2, <2>1 DEF TypeOK
<1> QED BY <1>1, <1>3, <1>5, <1>6, <1>7, AnswerKeeps

(* A flush moves the checkpoint to the last event it wrote.                *)
LEMMA FlushedTo ==
  ASSUME TypeOK, NEW out \in SUBSET (1..MaxHead), Flushed(out)
  PROVE  /\ archived' = archived \union out /\ archived' \subseteq 1..MaxHead
         /\ committed' \in {NoReplay} \union 0..MaxHead
         /\ out = {} => committed' = committed
         /\ out # {} => committed' \in out /\ \A e \in out : e <= committed'
<1>1. archived' = archived \union out /\ committed' = IF out = {} THEN committed ELSE Last(out)
  BY DEF Flushed
<1>2. CASE out = {}
  BY <1>1, <1>2 DEF TypeOK
<1>3. CASE out # {}
  <2>1. Last(out) \in out /\ \A e \in out : e <= Last(out)
    BY <1>3, LastIs
  <2>2. committed' \in out /\ \A e \in out : e <= committed'
    BY <1>1, <1>3, <2>1
  <2>3. committed' \in 0..MaxHead
    BY <2>2, TopicAssumption
  <2> QED BY <1>1, <1>3, <2>2, <2>3 DEF TypeOK
<1> QED BY <1>2, <1>3

(* The client asks for what is missing.                                    *)
LEMMA AskKeeps ==
  ASSUME NEW rest \in 0..Appetite, AskForMore(rest), requests \in Seq(1..Appetite),
         requests \in Seq(Nat)
  PROVE  /\ pending' \in 0..Appetite /\ requests' \in Seq(1..Appetite)
         /\ pending' + Sum(requests) = rest + Sum(requests')
<1>1. Appetite \in Nat /\ Appetite >= 1 /\ rest \in Nat /\ Sum(requests) \in Nat
  BY AppetiteOK, SumNat
<1>2. CASE rest <= Appetite \div 2
  <2>1. requests' = Append(requests, Appetite - rest) /\ pending' = Appetite
    BY <1>2 DEF AskForMore
  <2>2. Appetite - rest \in 1..Appetite /\ Appetite - rest \in Nat
    <3>1. Appetite \div 2 < Appetite /\ Appetite \div 2 \in Nat
      BY <1>1
    <3> QED BY <1>1, <1>2, <3>1
  <2>3. Sum(requests') = Sum(requests) + (Appetite - rest)
    BY <2>1, <2>2, SumAppend
  <2> QED BY <1>1, <2>1, <2>2, <2>3
<1>3. CASE ~(rest <= Appetite \div 2)
  BY <1>1, <1>3 DEF AskForMore
<1> QED BY <1>2, <1>3

(* A response is handled: its events are taken into the buffer and the     *)
(* oldest part is archived.                                                *)
LEMMA HandleResponseKeeps ==
  ASSUME FInv, HandleResponse
  PROVE  FInv'
<1> USE TopicAssumption, AppetiteOK
<1> DEFINE r    == Head(responses)
           all  == buffer \union r.events
           full == Oldest(all, (Size(all) \div MaxEvents) * MaxEvents)
           out  == IF full = {} /\ committed = NoReplay THEN all ELSE full
           n    == Len(responses)
<1>1. TypeOK /\ DemandAccounted /\ Order /\ NextBatch /\ Complete
  BY DEF FInv
<1>2. /\ open /\ responses # <<>> /\ responses' = Tail(responses)
      /\ buffer' = all \ out
      /\ IF all = {} /\ r.outstanding > 0
         THEN committed' = r.latest /\ UNCHANGED archived
         ELSE Flushed(out)
      /\ AskForMore(pending - Size(r.events))
      /\ UNCHANGED <<head, oldest, demand, cursor, loop, batch, seen, open, jumped, keepalives, breaks>>
  BY DEF HandleResponse, topicVars, serverVars, countVars
<1>3. /\ responses \in Seq(Response) /\ responses' \in Seq(Response)
      /\ n \in Nat /\ n >= 1 /\ Len(responses') = n - 1 /\ r = responses[1] /\ r \in Response
      /\ \A i \in 1..(n - 1) : responses'[i] = responses[i + 1]
  BY <1>1, <1>2 DEF TypeOK
<1>4. r.events \in SUBSET (1..MaxHead) /\ r.latest \in 0..MaxHead
  BY <1>3 DEF Response
<1>5. /\ all \in SUBSET (1..MaxHead) /\ buffer \subseteq all /\ r.events \subseteq all
      /\ \A e \in all : e \in buffer \/ e \in r.events
  BY <1>1, <1>4 DEF TypeOK
<1>6. out \subseteq all /\ \A e \in out : \A f \in all : f <= e => f \in out
  <2> HIDE DEF all
  <2>1. Size(all) \in Nat
    BY <1>5, EventsFinite
  <2>2. (Size(all) \div MaxEvents) * MaxEvents \in Nat
    <3>1. \A a, b \in Nat : a * b \in Nat
      OBVIOUS
    <3>2. Size(all) \div MaxEvents \in Nat /\ MaxEvents \in Nat
      BY <2>1, FlowAssumption
    <3> QED BY <3>1, <3>2
  <2>3. full \subseteq all /\ \A e \in full : \A f \in all : f <= e => f \in full
    BY <1>5, <2>2, OldestAre
  <2> QED BY <2>3
<1> HIDE DEF r, all, full, out
<1>7. /\ archived \subseteq archived' /\ archived' \subseteq 1..MaxHead
      /\ all \subseteq archived' \union buffer'
      /\ committed' \in {NoReplay} \union 0..MaxHead
      /\ \/ all = {} /\ committed' = r.latest
         \/ committed' = committed
         \/ committed' \in out /\ out \subseteq archived'
  <2>1. CASE all = {} /\ r.outstanding > 0
    <3>1. committed' = r.latest /\ archived' = archived
      BY <1>2, <2>1
    <3> QED BY <1>1, <1>4, <2>1, <3>1 DEF TypeOK
  <2>2. CASE ~(all = {} /\ r.outstanding > 0)
    <3>1. Flushed(out) /\ out \in SUBSET (1..MaxHead)
      BY <1>2, <1>5, <1>6, <2>2
    <3>2. /\ archived' = archived \union out /\ archived' \subseteq 1..MaxHead
          /\ committed' \in {NoReplay} \union 0..MaxHead
          /\ out = {} => committed' = committed
          /\ out # {} => committed' \in out
      BY <1>1, <3>1, FlushedTo
    <3> QED BY <1>2, <3>2
  <2> QED BY <2>1, <2>2
<1>8. /\ Sum(requests) \in Nat /\ requests \in Seq(Nat) /\ SizesOf(responses) \in Seq(Nat)
      /\ pending = demand + Sum(requests) + Sum(SizesOf(responses))
  BY <1>1, <1>2, Accounts
<1>9. /\ Sum(SizesOf(responses)) = Size(r.events) + Sum(SizesOf(responses'))
      /\ Sum(SizesOf(responses')) \in Nat /\ Size(r.events) \in Nat
  <2>1. /\ SizesOf(responses') = Tail(SizesOf(responses))
        /\ SizesOf(responses) # <<>> /\ Head(SizesOf(responses)) = Size(r.events)
    BY <1>2, <1>3, SizesTail DEF r
  <2>2. SizesOf(responses') \in Seq(Nat)
    BY <1>3, SizesAre
  <2>3. Size(r.events) \in Nat
    BY <1>4, EventsFinite
  <2> QED BY <1>8, <2>1, <2>2, <2>3, SumTail, SumNat
<1>10. /\ pending - Size(r.events) \in 0..Appetite
       /\ pending - Size(r.events) = demand + Sum(requests) + Sum(SizesOf(responses'))
  <2>1. demand \in Nat /\ pending \in Nat /\ pending <= Appetite
    BY <1>1 DEF TypeOK
  <2>2. \A d, q, e, s, p, A \in Nat : p = d + q + (e + s) /\ p <= A =>
            p - e \in 0..A /\ p - e = d + q + s
    OBVIOUS
  <2> QED BY <1>8, <1>9, <2>1, <2>2
<1>11. /\ pending' \in 0..Appetite /\ requests' \in Seq(1..Appetite)
       /\ pending' + Sum(requests) = (pending - Size(r.events)) + Sum(requests')
  <2>1. requests \in Seq(1..Appetite)
    BY <1>1 DEF TypeOK
  <2> QED BY <1>2, <1>8, <1>10, <2>1, AskKeeps
<1>12. TypeOK'
  <2>1. buffer' \subseteq 1..MaxHead
    BY <1>2, <1>5
  <2> QED BY <1>1, <1>2, <1>3, <1>7, <1>11, <2>1 DEF TypeOK
<1>13. DemandAccounted'
  <2>1. demand \in Nat /\ pending' \in Nat
    BY <1>1, <1>11 DEF TypeOK
  <2>2. Sum(requests') \in Nat
    <3>1. requests' \in Seq(Nat)
      BY <1>11, RequestsAreNumbers
    <3> QED BY <3>1, SumNat
  <2>3. \A p, q, d, s, t \in Nat : p + q = (d + q + s) + t => p = d + t + s
    OBVIOUS
  <2>4. /\ pending' + Sum(requests) = (demand + Sum(requests) + Sum(SizesOf(responses'))) + Sum(requests')
        /\ Sum(requests) \in Nat /\ Sum(SizesOf(responses')) \in Nat
    BY <1>8, <1>9, <1>10, <1>11
  <2>5. pending' = demand + Sum(requests') + Sum(SizesOf(responses'))
    BY <2>1, <2>2, <2>3, <2>4
  <2> QED BY <1>2, <2>5, AccountsNext
<1>14. /\ cursor \in Int /\ head \in Int /\ cursor <= head
       /\ \A e \in all : e \in Int /\ e <= cursor
       /\ r.latest \in Int /\ r.latest <= cursor
  <2>1. cursor \in Int /\ head \in Int /\ cursor <= head /\ \A e \in all : e \in Int
    BY <1>1, <1>5 DEF TypeOK, Order
  <2>2. r.latest \in Int /\ r.latest <= cursor
    BY <1>1, <1>3, <1>4 DEF Order
  <2>3. ASSUME NEW e \in all PROVE e <= cursor
    <3>1. CASE e \in buffer
      BY <1>1, <3>1 DEF Order
    <3>2. CASE e \in r.events
      <4>1. e <= r.latest
        BY <1>1, <1>3, <3>2 DEF Order
      <4> QED BY <2>1, <2>2, <4>1
    <3> QED BY <1>5, <3>1, <3>2
  <2> QED BY <2>1, <2>2, <2>3
<1>15. ASSUME NEW j \in 1..(n - 1)
       PROVE  /\ j + 1 \in 1..n /\ 1 \in 1..((j + 1) - 1) /\ responses'[j] = responses[j + 1]
              /\ responses'[j].latest <= cursor
              /\ \A f \in responses'[j].events :
                    /\ f \in Int /\ committed < f /\ f <= responses'[j].latest
                    /\ r.latest < f
                    /\ \A e \in all : e < f
  <2>1. j + 1 \in 1..n /\ 1 \in 1..((j + 1) - 1) /\ responses'[j] = responses[j + 1]
    BY <1>3
  <2>2. responses'[j].latest <= cursor
    BY <1>1, <2>1 DEF Order
  <2>3. ASSUME NEW f \in responses'[j].events
        PROVE  /\ f \in Int /\ committed < f /\ f <= responses'[j].latest
               /\ r.latest < f /\ \A e \in all : e < f
    <3>1. f \in Int
      <4>1. responses[j + 1] \in Response
        BY <1>3, <2>1
      <4>2. f \in 1..MaxHead
        BY <2>1, <2>3, <4>1 DEF Response
      <4> QED BY <4>2
    <3>2. committed < f /\ f <= responses'[j].latest /\ \A b \in buffer : b < f
      BY <1>1, <2>1, <2>3 DEF Order
    <3>3. r.latest < f
      BY <1>1, <1>3, <2>1, <2>3 DEF Order
    <3>4. ASSUME NEW e \in r.events PROVE e < f
      <4>1. e <= r.latest
        BY <1>1, <1>3 DEF Order
      <4>2. e \in Int
        BY <1>5, <1>14
      <4> QED BY <1>14, <3>1, <3>3, <4>1, <4>2
    <3> QED BY <1>5, <3>1, <3>2, <3>3, <3>4
  <2> QED BY <2>1, <2>2, <2>3
<1>16. Order'
  <2>1. committed' <= cursor /\ committed' \in Int
    <3>1. committed <= cursor /\ committed \in Int
      BY <1>1, <1>2 DEF Order, TypeOK, NoReplay
    <3> QED BY <1>6, <1>7, <1>14, <3>1
  <2>2. committed' <= head
    BY <1>14, <2>1
  <2>3. buffer' \subseteq all
    BY <1>2
  <2>4. oldest = 1 /\ seen <= head
    BY <1>1 DEF Order
  <2>5. ASSUME NEW j \in 1..(n - 1)
        PROVE  /\ responses'[j].latest <= cursor
               /\ \A f \in responses'[j].events :
                     committed' < f /\ f <= responses'[j].latest /\ \A b \in buffer' : b < f
    BY <1>6, <1>7, <1>15, <2>3
  <2>6. ASSUME NEW j \in 1..(n - 1), NEW i \in 1..(j - 1), NEW f \in responses'[j].events
        PROVE  responses'[i].latest < f
    <3>1. j + 1 \in 1..n /\ i + 1 \in 1..((j + 1) - 1) /\ i \in 1..(n - 1)
      BY <1>3
    <3>2. responses'[j] = responses[j + 1] /\ responses'[i] = responses[i + 1]
      BY <1>3, <3>1
    <3> QED BY <1>1, <2>6, <3>1, <3>2 DEF Order
  <2>7. \A b \in buffer' : b <= cursor
    BY <1>14, <2>3
  <2> QED BY <1>2, <1>3, <1>14, <2>1, <2>2, <2>4, <2>5, <2>6, <2>7 DEF Order
<1>17. NextBatch'
  BY <1>1, <1>2 DEF NextBatch
<1>18. Complete'
  <2> SUFFICES ASSUME Preset = "EARLIEST" PROVE Complete'
    BY DEF Complete
  <2>1. \A e : Reached(e) \/ e \in r.events => Reached(e)' /\ (e \in archived \union jumped \/ e \in all)
    BY <1>2, <1>5, <1>7 DEF Reached
  <2>2. ASSUME NEW e \in EventsAfter(0, r.latest) PROVE Reached(e) \/ e \in r.events
    <3>1. 1 \in 1..n /\ e \in EventsAfter(0, responses[1].latest)
      BY <1>3, <2>2
    <3>2. Reached(e) \/ \E i \in 1..1 : e \in responses[i].events
      BY <1>1, <1>2, <3>1 DEF Complete
    <3> QED BY <1>3, <3>2
  <2>3. ASSUME NEW l \in all, NEW e \in EventsAfter(0, l) PROVE Reached(e) \/ e \in r.events
    <3>1. CASE l \in buffer
      BY <1>1, <1>2, <3>1 DEF Complete
    <3>2. CASE l \in r.events
      <4>1. l <= r.latest
        BY <1>1, <1>3, <3>2 DEF Order
      <4>2. e \in EventsAfter(0, r.latest)
        BY <1>14, <4>1 DEF EventsAfter
      <4> QED BY <2>2, <4>2
    <3> QED BY <1>5, <3>1, <3>2
  <2>4. ASSUME committed' # NoReplay, NEW e \in EventsAfter(0, committed')
        PROVE  e \in archived' \union jumped'
    <3>1. CASE all = {} /\ committed' = r.latest
      <4>1. e \in archived \union jumped
        BY <2>1, <2>2, <3>1
      <4> QED BY <1>2, <1>7, <4>1
    <3>2. CASE committed' = committed
      <4>1. e \in archived \union jumped
        BY <1>1, <2>4, <3>2 DEF Complete
      <4> QED BY <1>2, <1>7, <4>1
    <3>3. CASE committed' \in out /\ out \subseteq archived'
      <4>1. e \in archived \union jumped \/ e \in all
        BY <1>6, <2>1, <2>3, <3>3
      <4>2. e <= committed'
        BY <1>6, <1>14, <3>3 DEF EventsAfter
      <4>3. e \in all => e \in out
        BY <1>6, <3>3, <4>2
      <4> QED BY <1>2, <1>7, <3>3, <4>1, <4>3
    <3> QED BY <1>7, <3>1, <3>2, <3>3
  <2>5. \A b \in buffer' : \A e \in EventsAfter(0, b) : Reached(e)'
    BY <1>2, <2>1, <2>3
  <2>6. ASSUME NEW k \in 1..n, NEW e, Reached(e) \/ \E i \in 1..k : e \in responses[i].events
        PROVE  Reached(e)' \/ \E i \in 1..(k - 1) : e \in responses'[i].events
    <3>1. CASE Reached(e)
      BY <2>1, <3>1
    <3>2. ASSUME NEW i \in 1..k, e \in responses[i].events
          PROVE  Reached(e)' \/ \E m \in 1..(k - 1) : e \in responses'[m].events
      <4>1. CASE i = 1
        BY <1>3, <2>1, <3>2, <4>1
      <4>2. CASE i # 1
        <5>1. i - 1 \in 1..(k - 1) /\ i - 1 \in 1..(n - 1) /\ (i - 1) + 1 = i
          BY <1>3, <4>2
        <5>2. responses'[i - 1] = responses[i]
          BY <1>3, <5>1
        <5> QED BY <3>2, <5>1, <5>2
      <4> QED BY <4>1, <4>2
    <3> QED BY <2>6, <3>1, <3>2
  <2>7. ASSUME NEW j \in 1..(n - 1), NEW e \in EventsAfter(0, responses'[j].latest)
        PROVE  Reached(e)' \/ \E i \in 1..j : e \in responses'[i].events
    <3>1. j + 1 \in 1..n /\ (j + 1) - 1 = j /\ responses'[j] = responses[j + 1]
      BY <1>3
    <3>2. Reached(e) \/ \E i \in 1..(j + 1) : e \in responses[i].events
      BY <1>1, <1>2, <2>7, <3>1 DEF Complete
    <3>3. Reached(e)' \/ \E i \in 1..((j + 1) - 1) : e \in responses'[i].events
      BY <2>6, <3>1, <3>2
    <3> QED BY <3>1, <3>3
  <2>8. ASSUME NEW e \in EventsAfter(0, cursor)
        PROVE  Reached(e)' \/ \E i \in 1..(n - 1) : e \in responses'[i].events
    <3>1. Reached(e) \/ \E i \in 1..n : e \in responses[i].events
      BY <1>1, <1>2, <2>8 DEF Complete
    <3>2. n \in 1..n
      BY <1>3
    <3> QED BY <2>6, <3>1, <3>2
  <2> QED BY <1>2, <1>3, <2>4, <2>5, <2>7, <2>8 DEF Complete
<1> QED BY <1>12, <1>13, <1>16, <1>17, <1>18 DEF FInv

(* The buffer grows too old.                                               *)
LEMMA FlushByAgeKeeps ==
  ASSUME FInv, FlushByAge
  PROVE  FInv'
<1>1. TypeOK /\ DemandAccounted /\ Order /\ NextBatch /\ Complete
  BY DEF FInv
<1>2. /\ open /\ buffer # {} /\ Flushed(buffer) /\ buffer' = {}
      /\ UNCHANGED <<head, oldest, pending, demand, cursor, loop, batch, seen>>
      /\ UNCHANGED <<open, requests, responses, jumped, keepalives, breaks>>
  BY DEF FlushByAge, topicVars, serverVars, wireVars, countVars
<1>3. buffer \in SUBSET (1..MaxHead)
  BY <1>1 DEF TypeOK
<1>4. /\ archived' = archived \union buffer /\ archived' \subseteq 1..MaxHead
      /\ committed' \in {NoReplay} \union 0..MaxHead
      /\ committed' \in buffer /\ \A e \in buffer : e <= committed'
  BY <1>1, <1>2, <1>3, FlushedTo
<1>5. TypeOK'
  BY <1>1, <1>2, <1>4 DEF TypeOK
<1>6. DemandAccounted'
  BY <1>1, <1>2 DEF DemandAccounted, EventsInFlight
<1>7. Order'
  <2>1. committed' <= cursor /\ committed' <= head
    <3>1. committed' <= cursor /\ cursor <= head
      BY <1>1, <1>4 DEF Order
    <3>2. committed' \in Int /\ cursor \in Int /\ head \in Int
      BY <1>1, <1>3, <1>4 DEF TypeOK
    <3> QED BY <3>1, <3>2
  <2>2. \A j \in 1..Len(responses) : \A f \in responses[j].events : committed' < f
    BY <1>1, <1>4 DEF Order
  <2> QED BY <1>1, <1>2, <2>1, <2>2 DEF Order
<1>8. NextBatch'
  BY <1>1, <1>2 DEF NextBatch
<1>9. Complete'
  <2> SUFFICES ASSUME Preset = "EARLIEST" PROVE Complete'
    BY DEF Complete
  <2>1. \A e : Reached(e)' <=> Reached(e)
    BY <1>2, <1>4 DEF Reached
  <2>2. EventsAfter(0, committed') \subseteq archived' \union jumped'
    <3> SUFFICES ASSUME NEW e \in EventsAfter(0, committed') PROVE e \in archived' \union jumped'
      OBVIOUS
    <3>1. Reached(e)
      BY <1>1, <1>2, <1>4 DEF Complete
    <3> QED BY <1>2, <1>4, <3>1 DEF Reached
  <2> QED BY <1>1, <1>2, <2>1, <2>2 DEF Complete
<1> QED BY <1>5, <1>6, <1>7, <1>8, <1>9 DEF FInv

(* The stream breaks, with or without a last flush.                        *)
LEMMA BreakStreamKeeps ==
  ASSUME FInv, BreakStream
  PROVE  FInv'
<1> USE TopicAssumption, AppetiteOK, FlowAssumption
<1>1. TypeOK /\ Order /\ Complete
  BY DEF FInv
<1>2. /\ open /\ open' = FALSE /\ breaks < MaxBreaks /\ breaks' = breaks + 1
      /\ Flushed(buffer) \/ UNCHANGED <<archived, committed>>
      /\ buffer' = {} /\ pending' = 0 /\ requests' = <<>> /\ responses' = <<>>
      /\ demand' = 0 /\ cursor' = 0 /\ loop' = "top" /\ batch' = {} /\ seen' = 0
      /\ UNCHANGED <<head, oldest, jumped, keepalives>>
  BY DEF BreakStream, topicVars
<1>3. buffer \in SUBSET (1..MaxHead)
  BY <1>1 DEF TypeOK
<1>4. /\ archived \subseteq archived' /\ archived' \subseteq 1..MaxHead
      /\ committed' \in {NoReplay} \union 0..MaxHead
      /\ \/ committed' = committed
         \/ committed' \in buffer /\ archived' = archived \union buffer
  <2>1. CASE Flushed(buffer)
    BY <1>1, <1>3, <2>1, FlushedTo
  <2>2. CASE UNCHANGED <<archived, committed>>
    BY <1>1, <2>2 DEF TypeOK
  <2> QED BY <1>2, <2>1, <2>2
<1>5. TypeOK'
  <2>1. <<>> \in Seq(1..Appetite) /\ <<>> \in Seq(Response)
    OBVIOUS
  <2>2. 0 \in 0..MaxHead /\ 0 \in 0..Appetite /\ breaks' \in 0..MaxBreaks
    BY <1>1, <1>2 DEF TypeOK
  <2> QED BY <1>1, <1>2, <1>4, <2>1, <2>2 DEF TypeOK
<1>6. DemandAccounted'
  BY <1>2 DEF DemandAccounted
<1>7. Order'
  <2>1. committed' <= head
    <3>1. CASE committed' = committed
      BY <1>1, <3>1 DEF Order
    <3>2. CASE committed' \in buffer
      <4>1. committed' <= cursor /\ cursor <= head
        BY <1>1, <3>2 DEF Order
      <4>2. committed' \in Int /\ cursor \in Int /\ head \in Int
        BY <1>1, <1>3, <3>2 DEF TypeOK
      <4> QED BY <4>1, <4>2
    <3> QED BY <1>4, <3>1, <3>2
  <2>2. head \in 0..MaxHead /\ oldest = 1
    BY <1>1 DEF TypeOK, Order
  <2> QED BY <1>2, <2>1, <2>2 DEF Order
<1>8. NextBatch'
  BY <1>2 DEF NextBatch
<1>9. Complete'
  <2> SUFFICES ASSUME Preset = "EARLIEST", committed' # NoReplay, NEW e \in EventsAfter(0, committed')
               PROVE  e \in archived' \union jumped'
    BY <1>2 DEF Complete
  <2>1. CASE committed' = committed
    <3>1. e \in archived \union jumped
      BY <1>1, <2>1 DEF Complete
    <3> QED BY <1>2, <1>4, <3>1
  <2>2. CASE committed' \in buffer /\ archived' = archived \union buffer
    <3>1. Reached(e)
      BY <1>1, <1>2, <2>2 DEF Complete
    <3> QED BY <1>2, <2>2, <3>1 DEF Reached
  <2> QED BY <1>4, <2>1, <2>2
<1> QED BY <1>5, <1>6, <1>7, <1>8, <1>9 DEF FInv

(* One step of client or server.                                           *)
LEMMA FlowKept ==
  ASSUME FInv, [Next]_vars
  PROVE  FInv'
<1>1. CASE UNCHANGED vars
  BY <1>1 DEF vars, topicVars, clientVars, serverVars, wireVars, countVars, FInv, TypeOK, Order,
              NextBatch, Complete, Reached, DemandAccounted, EventsInFlight
<1>2. CASE Next
  BY <1>2, OpenStreamKeeps, SmallStepsKeep, LookKeeps, SendEventsKeeps, SendKeepaliveKeeps,
     HandleResponseKeeps, FlushByAgeKeeps, BreakStreamKeeps DEF Next, ServerStep, ClientStep
<1> QED BY <1>1, <1>2

(* For any appetite, batch size, number of events, keepalives and broken   *)
(* streams: client and server agree on the demand, events arrive once and  *)
(* in order, and the checkpoint passes none that the server's own cursor   *)
(* did not jump over (session; the delivery loop of mocksf/pubsub.go).     *)
THEOREM DeliveryIsSound == Spec => []DeliverySound
<1>1. Init => FInv
  BY FlowStarts
<1>2. FInv /\ [Next]_vars => FInv'
  BY FlowKept
<1>3. FInv => DeliverySound
  <2> SUFFICES ASSUME FInv PROVE DeliverySound
    OBVIOUS
  <2>1. TypeOK /\ DemandAccounted /\ Order /\ Complete
    BY DEF FInv
  <2>2. NoEventSkipped
    BY <2>1 DEF Complete, NoEventSkipped
  <2>3. NothingTwice
    <3> SUFFICES ASSUME NEW j \in DOMAIN responses, NEW f \in responses[j].events
                 PROVE  /\ f > committed /\ f \notin buffer
                        /\ \A i \in 1..(j - 1) : \A e \in responses[i].events : e < f
      BY DEF NothingTwice
    <3>1. responses \in Seq(Response) /\ j \in 1..Len(responses)
      BY <2>1 DEF TypeOK
    <3>2. ASSUME NEW i \in 1..Len(responses)
          PROVE  responses[i].events \subseteq 1..MaxHead /\ responses[i].latest \in 0..MaxHead
      <4>1. responses[i] \in Response
        BY <3>1
      <4> QED BY <4>1 DEF Response
    <3>3. f \in Int /\ committed \in Int
      BY <2>1, <3>1, <3>2 DEF TypeOK, NoReplay
    <3>4. committed < f /\ \A b \in buffer : b < f
      BY <2>1, <3>1 DEF Order
    <3>5. f \notin buffer /\ f > committed
      BY <3>3, <3>4
    <3>6. ASSUME NEW i \in 1..(j - 1), NEW e \in responses[i].events PROVE e < f
      <4>1. i \in 1..Len(responses)
        BY <3>1
      <4>2. e <= responses[i].latest /\ responses[i].latest < f
        BY <2>1, <3>1, <4>1 DEF Order
      <4>3. e \in Int /\ responses[i].latest \in Int
        BY <3>2, <4>1
      <4> QED BY <3>3, <4>2, <4>3
    <3> QED BY <3>5, <3>6
  <2> QED BY <2>1, <2>2, <2>3 DEF DeliverySound
<1> QED BY <1>1, <1>2, <1>3, PTL DEF Spec

=============================================================================
