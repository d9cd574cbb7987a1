--------------------------- MODULE ArchiveProofs ---------------------------
(***************************************************************************)
(* Proofs about the two archives: the bucket and its verifier              *)
(* (ArchiveVerify) for every set of keys and writers, and the local        *)
(* directory (LocalSink) for every set of objects and partitions.          *)
(***************************************************************************)
EXTENDS ArchiveVerify, LocalSink, TLAPS

(* What a Write call is about to store: content that was encoded for the   *)
(* key, and behind a manifest its object.                                  *)
WriterOK(s, d, dam) ==
    /\ s.pc # "idle" => s.content \in 1..MaxWrites /\ (s.key \notin Undated => s.content = 1)
    /\ s.pc = "manifest" /\ s.key \notin dam =>
          d[s.key] # None /\ (s.key \notin Undated => d[s.key] = 1)

(* What is stored under key k.                                             *)
KeyOK(k) ==
    /\ manifest[k] <= MaxWrites
    /\ k \notin Undated /\ manifest[k] # None => manifest[k] = 1
    /\ k \notin damaged => data[k] # Damaged /\ (k \notin Undated => data[k] \in {None, 1})
    /\ k \in damaged => data[k] \in {None, Damaged, Altered}
    /\ k \notin damaged /\ manifest[k] # None => data[k] # None

AInv ==
    /\ ArchiveTypeOK
    /\ writes <= MaxWrites
    /\ \A w \in Writers : WriterOK(writer[w], data, damaged)
    /\ \A k \in Keys : KeyOK(k)

-----------------------------------------------------------------------------
(* The bucket.                                                             *)

(* The empty bucket.                                                       *)
LEMMA BucketStarts == ArchiveInit => AInv
<1> SUFFICES ASSUME ArchiveInit PROVE AInv
  OBVIOUS
<1>1. (CHOOSE k \in Keys : TRUE) \in Keys
  BY ArchiveAssumption
<1>2. NotRunning \in VerifyState
  BY DEF NotRunning, VerifyState, None
<1>3. ArchiveTypeOK
  BY <1>1, <1>2, ArchiveAssumption DEF ArchiveInit, ArchiveTypeOK, WriterState, None, Damaged
<1>4. \A w \in Writers : WriterOK(writer[w], data, damaged)
  BY DEF ArchiveInit, WriterOK
<1>5. \A k \in Keys : KeyOK(k)
  BY ArchiveAssumption DEF ArchiveInit, KeyOK, None, Damaged
<1> QED
  BY <1>3, <1>4, <1>5, ArchiveAssumption DEF AInv, ArchiveInit

(* encodeObject: a Write call begins with the content of its key.          *)
LEMMA EncodeKeeps ==
  ASSUME AInv, NEW w \in Writers, NEW k \in Keys, Encode(w, k)
  PROVE  AInv'
<1> DEFINE c == IF k \in Undated THEN writes + 1 ELSE 1
<1>1. c \in 1..MaxWrites /\ (k \notin Undated => c = 1)
  BY ArchiveAssumption DEF Encode, AInv, ArchiveTypeOK
<1>2. writer' = [writer EXCEPT ![w] = [pc |-> "data", key |-> k, content |-> c]]
  BY DEF Encode
<1> HIDE DEF c
<1>3. ArchiveTypeOK'
  BY <1>1, <1>2 DEF Encode, AInv, ArchiveTypeOK, WriterState
<1>4. ASSUME NEW v \in Writers PROVE WriterOK(writer[v], data, damaged)'
  BY <1>1, <1>2 DEF Encode, AInv, ArchiveTypeOK, WriterOK
<1>5. ASSUME NEW j \in Keys PROVE KeyOK(j)'
  BY DEF Encode, AInv, KeyOK, Altered
<1>6. writes' <= MaxWrites
  BY ArchiveAssumption DEF Encode, AInv, ArchiveTypeOK
<1> QED
  BY <1>3, <1>4, <1>5, <1>6 DEF AInv

(* A data object is uploaded, by a Write that goes on to its manifest or by *)
(* one that ends there.                                                     *)
LEMMA StoreKeeps ==
  ASSUME AInv, NEW w \in Writers, NEW p \in {"idle", "manifest"},
         writer[w].pc = "data",
         StoreData(writer[w].key, writer[w].content),
         writer' = [writer EXCEPT ![w].pc = p],
         UNCHANGED <<manifest, writes>>, mishaps' \in Nat
  PROVE  AInv'
<1> DEFINE key == writer[w].key
           c == writer[w].content
<1>1. writer[w] \in WriterState /\ key \in Keys
  BY DEF AInv, ArchiveTypeOK, WriterState
<1>2. c \in 1..MaxWrites /\ (key \notin Undated => c = 1)
  BY DEF AInv, WriterOK
<1>3. c \in Nat /\ c # None /\ c # Damaged /\ c # Altered
  BY <1>2, ArchiveAssumption DEF None, Damaged, Altered
<1>4. data' = [data EXCEPT ![key] = c] /\ damaged' = damaged \ {key}
  BY DEF StoreData
<1>5. verify' \in VerifyState /\ disturbed' \in BOOLEAN
  BY DEF StoreData, AInv, ArchiveTypeOK, VerifyState
<1>6. ArchiveTypeOK'
  <2>1. data' \in [Keys -> Nat \cup {Damaged}]
    BY <1>3, <1>4 DEF AInv, ArchiveTypeOK
  <2>2. writer' \in [Writers -> WriterState]
    BY <1>1 DEF AInv, ArchiveTypeOK, WriterState
  <2> QED
    BY <1>4, <1>5, <2>1, <2>2 DEF AInv, ArchiveTypeOK
<1>7. ASSUME NEW v \in Writers PROVE WriterOK(writer[v], data, damaged)'
  <2>1. writer'[v].key = writer[v].key /\ writer'[v].content = writer[v].content
    BY DEF AInv, ArchiveTypeOK, WriterState
  <2>2. writer[v].key \in Keys
    BY DEF AInv, ArchiveTypeOK, WriterState
  <2>3. WriterOK(writer[v], data, damaged)
    BY DEF AInv
  <2>4. v # w => writer'[v] = writer[v]
    BY DEF AInv, ArchiveTypeOK
  <2>5. data \in [Keys -> Nat \cup {Damaged}]
    BY DEF AInv, ArchiveTypeOK
  <2>6. WriterOK(writer'[v], data', damaged')
    <3>1. CASE v = w
      BY <3>1, <2>1, <2>5, <1>1, <1>2, <1>3, <1>4 DEF WriterOK
    <3>2. CASE v # w
      BY <3>2, <2>2, <2>3, <2>4, <2>5, <1>1, <1>2, <1>3, <1>4 DEF WriterOK
    <3> QED
      BY <3>1, <3>2
  <2> QED
    BY <2>6
<1>8. ASSUME NEW j \in Keys PROVE KeyOK(j)'
  <2>1. KeyOK(j) /\ data \in [Keys -> Nat \cup {Damaged}]
    BY DEF AInv, ArchiveTypeOK
  <2>2. CASE j = key
    BY <2>1, <2>2, <1>1, <1>2, <1>3, <1>4 DEF KeyOK
  <2>3. CASE j # key
    BY <2>1, <2>3, <1>1, <1>4 DEF KeyOK, Altered
  <2> QED
    BY <2>2, <2>3
<1> QED
  BY <1>6, <1>7, <1>8 DEF AInv

(* A manifest is uploaded: its object is there.                            *)
LEMMA DescribeKeeps ==
  ASSUME AInv, NEW w \in Writers,
         writer[w].pc = "manifest",
         manifest' = [manifest EXCEPT ![writer[w].key] = writer[w].content],
         writer' = [writer EXCEPT ![w].pc = "idle"],
         UNCHANGED <<data, writes, damaged, verify>>,
         disturbed' \in BOOLEAN, mishaps' \in Nat
  PROVE  AInv'
<1> DEFINE key == writer[w].key
           c == writer[w].content
<1>1. writer[w] \in WriterState /\ key \in Keys
  BY DEF AInv, ArchiveTypeOK, WriterState
<1>2. c \in 1..MaxWrites /\ (key \notin Undated => c = 1)
  BY DEF AInv, WriterOK
<1>3. key \notin damaged => data[key] # None
  BY DEF AInv, WriterOK
<1>4. ArchiveTypeOK'
  <2>1. manifest' \in [Keys -> Nat]
    BY <1>1, <1>2, ArchiveAssumption DEF AInv, ArchiveTypeOK
  <2>2. writer' \in [Writers -> WriterState]
    BY <1>1 DEF AInv, ArchiveTypeOK, WriterState
  <2> QED
    BY <2>1, <2>2 DEF AInv, ArchiveTypeOK
<1>5. ASSUME NEW v \in Writers PROVE WriterOK(writer[v], data, damaged)'
  <2>1. WriterOK(writer[v], data, damaged)
    BY DEF AInv
  <2>2. v # w => writer'[v] = writer[v]
    BY DEF AInv, ArchiveTypeOK
  <2>3. v = w => writer'[v].pc = "idle"
    BY DEF AInv, ArchiveTypeOK, WriterState
  <2> QED
    BY <2>1, <2>2, <2>3 DEF WriterOK
<1>6. ASSUME NEW j \in Keys PROVE KeyOK(j)'
  <2>1. KeyOK(j) /\ manifest \in [Keys -> Nat]
    BY DEF AInv, ArchiveTypeOK
  <2> QED
    BY <2>1, <1>1, <1>2, <1>3 DEF KeyOK, Altered
<1> QED
  BY <1>4, <1>5, <1>6 DEF AInv

(* A Write call that ends without storing anything more.                   *)
LEMMA GiveUpKeeps ==
  ASSUME AInv, NEW w \in Writers,
         writer' = [writer EXCEPT ![w].pc = "idle"],
         UNCHANGED <<data, manifest, writes, damaged, verify, disturbed>>,
         mishaps' \in Nat
  PROVE  AInv'
<1>1. ArchiveTypeOK'
  BY DEF AInv, ArchiveTypeOK, WriterState
<1>2. ASSUME NEW v \in Writers PROVE WriterOK(writer[v], data, damaged)'
  <2>1. WriterOK(writer[v], data, damaged)
    BY DEF AInv
  <2>2. v # w => writer'[v] = writer[v]
    BY DEF AInv, ArchiveTypeOK
  <2>3. v = w => writer'[v].pc = "idle"
    BY DEF AInv, ArchiveTypeOK, WriterState
  <2> QED
    BY <2>1, <2>2, <2>3 DEF WriterOK
<1>3. ASSUME NEW j \in Keys PROVE KeyOK(j)'
  BY DEF AInv, KeyOK, Altered
<1> QED
  BY <1>1, <1>2, <1>3 DEF AInv

(* An object is lost, or no longer what was written.                       *)
LEMMA DamageKeeps ==
  ASSUME AInv, NEW k \in Keys, Damage(k)
  PROVE  AInv'
<1> PICK bad \in {None, Damaged, Altered} : data' = [data EXCEPT ![k] = bad]
  BY DEF Damage
<1>1. bad \in Nat \cup {Damaged}
  BY ArchiveAssumption DEF None, Altered
<1>2. ArchiveTypeOK'
  BY <1>1 DEF AInv, ArchiveTypeOK, Damage, Mishap
<1>3. ASSUME NEW v \in Writers PROVE WriterOK(writer[v], data, damaged)'
  <2>1. WriterOK(writer[v], data, damaged) /\ writer[v].key \in Keys
    BY DEF AInv, ArchiveTypeOK, WriterState
  <2> QED
    BY <2>1 DEF WriterOK, Damage, AInv, ArchiveTypeOK
<1>4. ASSUME NEW j \in Keys PROVE KeyOK(j)'
  <2>1. KeyOK(j) /\ data \in [Keys -> Nat \cup {Damaged}]
    BY DEF AInv, ArchiveTypeOK
  <2> QED
    BY <2>1 DEF KeyOK, Damage, Altered
<1> QED
  BY <1>2, <1>3, <1>4 DEF AInv, Damage

(* The verifier writes nothing to the bucket.                              *)
LEMMA ReadOnly == Verifying => UNCHANGED <<data, manifest, writer, writes, damaged>>
BY DEF Verifying, ListData, ListManifests, FetchManifest, FetchFails, ManifestsRead,
       ReadObject, ReadFails, Report, RunAgain

(* The report of the verifier stays a report.                              *)
LEMMA ReportTyped ==
  ASSUME ArchiveTypeOK, Verifying
  PROVE  verify' \in VerifyState /\ disturbed' \in BOOLEAN /\ mishaps' \in Nat
<1>1. CASE ListData
  BY <1>1 DEF ListData, ArchiveTypeOK, VerifyState
<1>2. CASE ListManifests
  BY <1>2 DEF ListManifests, ArchiveTypeOK, VerifyState
<1>3. CASE FetchManifest
  <2> PICK k \in verify.todo : verify' = [verify EXCEPT !.todo = @ \ {k}, !.manifests[k] = manifest[k]]
    BY <1>3 DEF FetchManifest
  <2>1. k \in Keys /\ verify \in VerifyState /\ manifest[k] \in Nat
    BY DEF ArchiveTypeOK, VerifyState
  <2>2. verify' \in VerifyState
    BY <2>1 DEF VerifyState
  <2> QED
    BY <2>2, <1>3 DEF FetchManifest, ArchiveTypeOK
<1>4. CASE FetchFails
  <2> PICK k \in verify.todo : verify' = [verify EXCEPT !.todo = @ \ {k}, !.noFetch = @ \cup {k}]
    BY <1>4 DEF FetchFails
  <2>1. k \in Keys /\ verify \in VerifyState /\ manifest[k] \in Nat
    BY DEF ArchiveTypeOK, VerifyState
  <2>2. verify' \in VerifyState
    BY <2>1 DEF VerifyState
  <2> QED
    BY <2>2, <1>4 DEF FetchFails, Mishap, ArchiveTypeOK
<1>5. CASE ManifestsRead
  BY <1>5 DEF ManifestsRead, ArchiveTypeOK, VerifyState
<1>6. CASE ReadObject
  <2>0. PICK k \in verify.todo :
           verify' = [verify EXCEPT
                 !.todo = @ \ {k},
                 !.unreadable = IF ~Readable(k) THEN @ \cup {k} ELSE @,
                 !.noManifest = IF Readable(k) /\ ~HasManifest(k) THEN @ \cup {k} ELSE @,
                 !.mismatches = IF Readable(k) /\ HasManifest(k) /\ Differs(k) THEN @ \cup {k} ELSE @]
    BY <1>6 DEF ReadObject
  <2>1. k \in Keys /\ verify \in VerifyState
    BY DEF ArchiveTypeOK, VerifyState
  <2> DEFINE u == IF ~Readable(k) THEN verify.unreadable \cup {k} ELSE verify.unreadable
             n == IF Readable(k) /\ ~HasManifest(k) THEN verify.noManifest \cup {k} ELSE verify.noManifest
             m == IF Readable(k) /\ HasManifest(k) /\ Differs(k)
                  THEN verify.mismatches \cup {k} ELSE verify.mismatches
  <2>2. u \in SUBSET Keys /\ n \in SUBSET Keys /\ m \in SUBSET Keys
    BY <2>1 DEF VerifyState
  <2>3. verify' = [verify EXCEPT !.todo = @ \ {k}, !.unreadable = u, !.noManifest = n, !.mismatches = m]
    BY <2>0
  <2> HIDE DEF u, n, m
  <2>4. verify' \in VerifyState
    BY <2>1, <2>2, <2>3 DEF VerifyState
  <2> QED
    BY <2>4, <1>6 DEF ReadObject, ArchiveTypeOK
<1>7. CASE ReadFails
  <2> PICK k \in verify.todo : verify' = [verify EXCEPT !.todo = @ \ {k}, !.unreadable = @ \cup {k}]
    BY <1>7 DEF ReadFails
  <2>1. k \in Keys /\ verify \in VerifyState /\ manifest[k] \in Nat
    BY DEF ArchiveTypeOK, VerifyState
  <2>2. verify' \in VerifyState
    BY <2>1 DEF VerifyState
  <2> QED
    BY <2>2, <1>7 DEF ReadFails, Mishap, ArchiveTypeOK
<1>8. CASE Report
  BY <1>8 DEF Report, ArchiveTypeOK, VerifyState
<1>9. CASE RunAgain
  BY <1>9 DEF RunAgain, ArchiveTypeOK, VerifyState, NotRunning, None
<1> QED
  BY <1>1, <1>2, <1>3, <1>4, <1>5, <1>6, <1>7, <1>8, <1>9 DEF Verifying

(* Every step of the collectors, the storage and the verifier.             *)
LEMMA BucketKept == AInv /\ [ArchiveNext]_archiveVars => AInv'
<1> SUFFICES ASSUME AInv, [ArchiveNext]_archiveVars PROVE AInv'
  OBVIOUS
<1>1. ASSUME NEW w \in Writers, Writing(w) PROVE AInv'
  <2>1. ASSUME NEW k \in Keys, Encode(w, k) PROVE AInv'
    BY <2>1, EncodeKeeps
  <2>2. CASE PutData(w)
    BY <2>2, StoreKeeps DEF PutData, AInv, ArchiveTypeOK
  <2>3. CASE PutManifest(w)
    BY <2>3, DescribeKeeps DEF PutManifest, AInv, ArchiveTypeOK
  <2>4. CASE PutDataFails(w)
    <3>1. mishaps' \in Nat
      BY <2>4 DEF PutDataFails, Mishap, AInv, ArchiveTypeOK
    <3> QED
      BY <2>4, <3>1, StoreKeeps, GiveUpKeeps DEF PutDataFails
  <2>5. CASE PutManifestFails(w)
    <3>1. mishaps' \in Nat
      BY <2>5 DEF PutManifestFails, Mishap, AInv, ArchiveTypeOK
    <3>2. CASE UNCHANGED <<manifest, disturbed>>
      BY <2>5, <3>1, <3>2, GiveUpKeeps DEF PutManifestFails
    <3>3. CASE manifest' = [manifest EXCEPT ![writer[w].key] = writer[w].content]
      <4>1. disturbed' \in BOOLEAN
        BY <2>5 DEF PutManifestFails, AInv, ArchiveTypeOK
      <4> QED
        BY <2>5, <3>1, <3>3, <4>1, DescribeKeeps DEF PutManifestFails
    <3> QED
      BY <2>5, <3>2, <3>3 DEF PutManifestFails
  <2> QED
    BY <1>1, <2>1, <2>2, <2>3, <2>4, <2>5 DEF Writing
<1>2. ASSUME NEW k \in Keys, Damage(k) PROVE AInv'
  BY <1>2, DamageKeeps
<1>3. CASE Verifying
  <2>1. ArchiveTypeOK'
    BY <1>3, ReadOnly, ReportTyped DEF AInv, ArchiveTypeOK
  <2> QED
    BY <1>3, <2>1, ReadOnly DEF AInv, WriterOK, KeyOK, Altered
<1>4. CASE UNCHANGED archiveVars
  BY <1>4 DEF archiveVars, AInv, ArchiveTypeOK, WriterOK, KeyOK, Altered
<1> QED
  BY <1>1, <1>2, <1>3, <1>4 DEF ArchiveNext

(* Whatever uploads fail or overlap and whatever is damaged, a manifest in  *)
(* the bucket has its object behind it, with the content it describes if    *)
(* the key has one content (S3Sink.Write: object first, then manifest).     *)
THEOREM ManifestsBacked == ArchiveSpec => []BucketSound
<1>1. AInv => BucketSound
  BY DEF AInv, BucketSound, ManifestBacked, KeyOK
<1> QED
  BY <1>1, BucketStarts, BucketKept, PTL DEF ArchiveSpec

-----------------------------------------------------------------------------
(* The verifier.                                                           *)

(* A report is filled in step by step.                                     *)
ReportOK(v) ==
    /\ v.pc = "idle" => v.victims = {}
    /\ v.pc \in {"idle", "list"} => v.noFetch = {} /\ \A k \in Keys : v.manifests[k] = None
    /\ v.pc \in {"idle", "list", "fetch"} => v.unreadable = {} /\ v.mismatches = {}
    /\ v.pc # "done" => v.noObject = {}
    /\ v.pc = "read" => v.todo \subseteq v.dataKeys
    /\ \A k \in Keys : v.manifests[k] <= MaxWrites

(* What keeps a victim k in the report.                                    *)
VictimOK(v, k) ==
    /\ k \in damaged /\ manifest[k] # None
    /\ v.pc = "fetch" => k \in v.todo \/ v.manifests[k] # None \/ k \in v.noFetch
    /\ v.pc \in {"read", "done"} => v.manifests[k] # None \/ k \in v.noFetch
    /\ v.pc = "read" /\ k \in v.dataKeys =>
          k \in v.todo \cup v.unreadable \cup v.mismatches \cup v.noFetch
    /\ v.pc = "done" =>
          k \in v.unreadable \cup v.mismatches \cup v.noFetch \cup v.noObject

(* What a run that has not been disturbed has found.                       *)
CalmOK(v) ==
    /\ damaged = {}
    /\ v.dataKeys = {k \in Keys : data[k] # None}
    /\ \A k \in Keys : v.manifests[k] \in {None, manifest[k]}
    /\ v.noFetch = {} /\ v.unreadable = {} /\ v.noObject = {}
    /\ Undated = {} => v.mismatches = {}

VInv ==
    /\ ReportOK(verify)
    /\ \A k \in verify.victims : VictimOK(verify, k)
    /\ verify.pc # "idle" /\ ~disturbed => CalmOK(verify)

(* The verifier waits.                                                     *)
LEMMA VerifierStarts == ArchiveInit => VInv
BY ArchiveAssumption DEF ArchiveInit, VInv, ReportOK, NotRunning, None

(* A step of the collectors or the storage leaves the report as it is, but  *)
(* for victims that were rewritten, and disturbs a run if it changes        *)
(* anything.                                                                *)
LEMMA BucketMoves ==
  ASSUME AInv, VInv, NEW vs, vs \subseteq verify.victims,
         verify' = [verify EXCEPT !.victims = vs],
         \A k \in vs : k \in damaged' /\ manifest'[k] # None,
         verify.pc # "idle" /\ ~disturbed' => ~disturbed /\ UNCHANGED <<data, manifest, damaged>>
  PROVE  VInv'
<1>1. verify \in VerifyState
  BY DEF AInv, ArchiveTypeOK
<1>2. /\ verify'.victims = vs /\ verify'.pc = verify.pc /\ verify'.dataKeys = verify.dataKeys
      /\ verify'.manifests = verify.manifests /\ verify'.todo = verify.todo
      /\ verify'.mismatches = verify.mismatches /\ verify'.unreadable = verify.unreadable
      /\ verify'.noFetch = verify.noFetch /\ verify'.noObject = verify.noObject
  BY <1>1 DEF VerifyState
<1>3. ReportOK(verify)'
  BY <1>2 DEF VInv, ReportOK
<1>4. ASSUME NEW k \in verify'.victims PROVE VictimOK(verify, k)'
  <2>1. VictimOK(verify, k)
    BY <1>2 DEF VInv
  <2> QED
    BY <1>2, <2>1 DEF VictimOK
<1>5. ASSUME verify'.pc # "idle", ~disturbed' PROVE CalmOK(verify)'
  BY <1>2, <1>5 DEF VInv, CalmOK
<1> QED
  BY <1>3, <1>4, <1>5 DEF VInv

(* A data object is uploaded: it is no victim any more.                    *)
LEMMA StoreMoves ==
  ASSUME AInv, VInv, NEW k \in Keys, NEW c, StoreData(k, c), UNCHANGED manifest
  PROVE  VInv'
<1> DEFINE vs == verify.victims \ {k}
<1>1. verify' = [verify EXCEPT !.victims = vs] /\ vs \subseteq verify.victims
  BY DEF StoreData
<1>2. \A j \in vs : j \in damaged' /\ manifest'[j] # None
  BY DEF VInv, VictimOK, StoreData
<1>3. verify.pc # "idle" /\ ~disturbed' => ~disturbed /\ UNCHANGED <<data, manifest, damaged>>
  BY Zenon DEF StoreData, Running
<1> HIDE DEF vs
<1> QED
  BY <1>1, <1>2, <1>3, BucketMoves

(* A step that leaves the verifier alone.                                  *)
LEMMA OthersMove ==
  ASSUME AInv, VInv, UNCHANGED verify,
         \A k \in verify.victims : k \in damaged' /\ manifest'[k] # None,
         verify.pc # "idle" /\ ~disturbed' => ~disturbed /\ UNCHANGED <<data, manifest, damaged>>
  PROVE  VInv'
<1>1. verify' = [verify EXCEPT !.victims = verify.victims]
  BY DEF AInv, ArchiveTypeOK, VerifyState
<1> QED
  BY <1>1, BucketMoves

(* A manifest is uploaded.                                                 *)
LEMMA DescribeMoves ==
  ASSUME AInv, VInv, NEW w \in Writers, writer[w].pc = "manifest",
         manifest' = [manifest EXCEPT ![writer[w].key] = writer[w].content],
         disturbed' = (disturbed \/ Running), UNCHANGED <<data, damaged, verify>>
  PROVE  VInv'
<1>1. writer[w].content # None
  BY DEF AInv, WriterOK, None
<1>2. \A k \in verify.victims : k \in damaged' /\ manifest'[k] # None
  <2> TAKE k \in verify.victims
  <2>1. k \in Keys /\ k \in damaged /\ manifest[k] # None /\ manifest \in [Keys -> Nat]
    BY DEF VInv, VictimOK, AInv, ArchiveTypeOK, VerifyState
  <2> QED
    BY <1>1, <2>1
<1>3. verify.pc # "idle" /\ ~disturbed' => ~disturbed /\ UNCHANGED <<data, manifest, damaged>>
  BY Zenon DEF Running
<1> QED
  BY <1>2, <1>3, OthersMove

(* A step of a Write call.                                                 *)
LEMMA WritingMoves ==
  ASSUME AInv, VInv, NEW w \in Writers, Writing(w)
  PROVE  VInv'
<1>1. \A k \in verify.victims : k \in damaged /\ manifest[k] # None
  BY DEF VInv, VictimOK
<1>2. writer[w].key \in Keys
  BY DEF AInv, ArchiveTypeOK, WriterState
<1>3. ASSUME UNCHANGED <<data, manifest, damaged, verify, disturbed>> PROVE VInv'
  BY <1>1, <1>3, OthersMove
<1>4. ASSUME NEW k \in Keys, Encode(w, k) PROVE VInv'
  BY <1>3, <1>4 DEF Encode
<1>5. CASE PutData(w)
  BY <1>2, <1>5, StoreMoves DEF PutData
<1>6. CASE PutManifest(w)
  BY <1>6, DescribeMoves DEF PutManifest
<1>7. CASE PutDataFails(w)
  BY <1>2, <1>3, <1>7, StoreMoves DEF PutDataFails
<1>8. CASE PutManifestFails(w)
  <2>1. CASE UNCHANGED <<manifest, disturbed>>
    BY <1>3, <1>8, <2>1 DEF PutManifestFails
  <2>2. CASE /\ manifest' = [manifest EXCEPT ![writer[w].key] = writer[w].content]
             /\ disturbed' = (disturbed \/ Running)
    BY <1>8, <2>2, DescribeMoves DEF PutManifestFails
  <2> QED
    BY <1>8, <2>1, <2>2 DEF PutManifestFails
<1> QED
  BY <1>4, <1>5, <1>6, <1>7, <1>8 DEF Writing

(* Damage.                                                                 *)
LEMMA DamageMoves ==
  ASSUME AInv, VInv, NEW k \in Keys, Damage(k)
  PROVE  VInv'
<1>1. \A j \in verify.victims : j \in damaged' /\ manifest'[j] # None
  BY DEF VInv, VictimOK, Damage
<1>2. verify.pc # "idle" /\ ~disturbed' => ~disturbed /\ UNCHANGED <<data, manifest, damaged>>
  BY Zenon DEF Damage, Running
<1> QED
  BY <1>1, <1>2, OthersMove DEF Damage

(* The first listing: a new run, with the damage there is.                 *)
LEMMA ListDataMoves ==
  ASSUME AInv, VInv, ListData
  PROVE  VInv'
<1>1. verify \in VerifyState /\ damaged \subseteq Keys
  BY DEF AInv, ArchiveTypeOK
<1>2. /\ verify'.pc = "list" /\ verify'.dataKeys = {k \in Keys : data[k] # None}
      /\ verify'.victims = {k \in damaged : manifest[k] # None}
      /\ verify'.manifests = verify.manifests /\ verify'.mismatches = verify.mismatches
      /\ verify'.unreadable = verify.unreadable /\ verify'.noFetch = verify.noFetch
      /\ verify'.noObject = verify.noObject
  BY <1>1 DEF ListData, VerifyState
<1>3. verify.pc = "idle" /\ UNCHANGED <<data, manifest, damaged>>
  BY DEF ListData
<1>4. ReportOK(verify)'
  BY <1>2, <1>3 DEF VInv, ReportOK
<1>5. ASSUME NEW k \in verify'.victims PROVE VictimOK(verify, k)'
  BY <1>2, <1>3 DEF VictimOK
<1>6. ASSUME ~disturbed' PROVE CalmOK(verify)'
  <2>1. damaged = {}
    BY <1>6 DEF ListData
  <2> QED
    BY <2>1, <1>2, <1>3 DEF VInv, ReportOK, CalmOK
<1> QED
  BY <1>4, <1>5, <1>6 DEF VInv

(* The second listing, of the manifests.                                   *)
LEMMA ListManifestsMoves ==
  ASSUME AInv, VInv, ListManifests
  PROVE  VInv'
<1>1. verify \in VerifyState
  BY DEF AInv, ArchiveTypeOK
<1>2. /\ verify'.pc = "fetch" /\ verify'.dataKeys = verify.dataKeys
      /\ verify'.todo = {k \in Keys : manifest[k] # None} /\ verify'.victims = verify.victims
      /\ verify'.manifests = verify.manifests /\ verify'.mismatches = verify.mismatches
      /\ verify'.unreadable = verify.unreadable /\ verify'.noFetch = verify.noFetch
      /\ verify'.noObject = verify.noObject
  BY <1>1 DEF ListManifests, VerifyState
<1>3. verify.pc = "list" /\ UNCHANGED <<data, manifest, damaged, disturbed>>
  BY DEF ListManifests
<1>4. ReportOK(verify)'
  BY <1>2, <1>3 DEF VInv, ReportOK
<1>5. ASSUME NEW k \in verify'.victims PROVE VictimOK(verify, k)'
  <2>1. VictimOK(verify, k) /\ k \in Keys
    BY <1>1, <1>2 DEF VInv, VerifyState
  <2> QED
    BY <1>2, <1>3, <2>1 DEF VictimOK
<1>6. ASSUME ~disturbed' PROVE CalmOK(verify)'
  BY <1>2, <1>3, <1>6 DEF VInv, CalmOK
<1> QED
  BY <1>4, <1>5, <1>6 DEF VInv

(* A manifest is fetched.                                                  *)
LEMMA FetchManifestMoves ==
  ASSUME AInv, VInv, FetchManifest
  PROVE  VInv'
<1>1. verify \in VerifyState /\ manifest \in [Keys -> Nat]
  BY DEF AInv, ArchiveTypeOK
<1>2. PICK j \in verify.todo : verify' = [verify EXCEPT !.todo = @ \ {j}, !.manifests[j] = manifest[j]]
  BY DEF FetchManifest
<1>3. /\ verify'.pc = "fetch" /\ verify'.dataKeys = verify.dataKeys
      /\ verify'.todo = verify.todo \ {j} /\ verify'.victims = verify.victims
      /\ verify'.manifests = [verify.manifests EXCEPT ![j] = manifest[j]]
      /\ verify'.mismatches = verify.mismatches
      /\ verify'.unreadable = verify.unreadable /\ verify'.noFetch = verify.noFetch
      /\ verify'.noObject = verify.noObject
  BY <1>1, <1>2 DEF FetchManifest, VerifyState
<1>4. verify.pc = "fetch" /\ UNCHANGED <<data, manifest, damaged, disturbed>>
  BY DEF FetchManifest
<1>5. j \in Keys /\ verify.manifests \in [Keys -> Nat] /\ manifest[j] <= MaxWrites
  BY <1>1 DEF VerifyState, AInv, KeyOK
<1>6. ReportOK(verify)'
  BY <1>3, <1>4, <1>5 DEF VInv, ReportOK
<1>7. ASSUME NEW k \in verify'.victims PROVE VictimOK(verify, k)'
  <2>1. VictimOK(verify, k) /\ k \in Keys
    BY <1>1, <1>3 DEF VInv, VerifyState
  <2> QED
    BY <1>3, <1>4, <1>5, <2>1 DEF VictimOK
<1>8. ASSUME ~disturbed' PROVE CalmOK(verify)'
  BY <1>3, <1>4, <1>5, <1>8 DEF VInv, CalmOK
<1> QED
  BY <1>6, <1>7, <1>8 DEF VInv

(* A manifest cannot be fetched: that is in the report.                    *)
LEMMA FetchFailsMoves ==
  ASSUME AInv, VInv, FetchFails
  PROVE  VInv'
<1>1. verify \in VerifyState
  BY DEF AInv, ArchiveTypeOK
<1>2. PICK j \in verify.todo : verify' = [verify EXCEPT !.todo = @ \ {j}, !.noFetch = @ \cup {j}]
  BY DEF FetchFails
<1>3. /\ verify'.pc = "fetch" /\ verify'.dataKeys = verify.dataKeys
      /\ verify'.todo = verify.todo \ {j} /\ verify'.victims = verify.victims
      /\ verify'.manifests = verify.manifests /\ verify'.mismatches = verify.mismatches
      /\ verify'.unreadable = verify.unreadable /\ verify'.noFetch = verify.noFetch \cup {j}
      /\ verify'.noObject = verify.noObject
  BY <1>1, <1>2 DEF FetchFails, VerifyState
<1>4. verify.pc = "fetch" /\ disturbed' /\ UNCHANGED <<data, manifest, damaged>>
  BY DEF FetchFails
<1>5. ReportOK(verify)'
  BY <1>3, <1>4 DEF VInv, ReportOK
<1>6. ASSUME NEW k \in verify'.victims PROVE VictimOK(verify, k)'
  <2>1. VictimOK(verify, k)
    BY <1>3 DEF VInv
  <2> QED
    BY <1>3, <1>4, <2>1 DEF VictimOK
<1> QED
  BY <1>4, <1>5, <1>6 DEF VInv

(* All manifests are in: the objects of the first listing are read.        *)
LEMMA ManifestsReadMoves ==
  ASSUME AInv, VInv, ManifestsRead
  PROVE  VInv'
<1>1. verify \in VerifyState
  BY DEF AInv, ArchiveTypeOK
<1>2. /\ verify'.pc = "read" /\ verify'.dataKeys = verify.dataKeys
      /\ verify'.todo = verify.dataKeys /\ verify'.victims = verify.victims
      /\ verify'.manifests = verify.manifests /\ verify'.mismatches = verify.mismatches
      /\ verify'.unreadable = verify.unreadable /\ verify'.noFetch = verify.noFetch
      /\ verify'.noObject = verify.noObject
  BY <1>1 DEF ManifestsRead, VerifyState
<1>3. verify.pc = "fetch" /\ verify.todo = {} /\ UNCHANGED <<data, manifest, damaged, disturbed>>
  BY DEF ManifestsRead
<1>4. ReportOK(verify)'
  BY <1>2, <1>3 DEF VInv, ReportOK
<1>5. ASSUME NEW k \in verify'.victims PROVE VictimOK(verify, k)'
  <2>1. VictimOK(verify, k)
    BY <1>2 DEF VInv
  <2> QED
    BY <1>2, <1>3, <2>1 DEF VictimOK
<1>6. ASSUME ~disturbed' PROVE CalmOK(verify)'
  BY <1>2, <1>3, <1>6 DEF VInv, CalmOK
<1> QED
  BY <1>4, <1>5, <1>6 DEF VInv

(* An object of the first listing is read and compared: a victim is found  *)
(* unreadable or not what its manifest says, an undamaged one is neither.  *)
LEMMA ReadObjectMoves ==
  ASSUME AInv, VInv, ReadObject
  PROVE  VInv'
<1>1. verify \in VerifyState
  BY DEF AInv, ArchiveTypeOK
<1>2. PICK j \in verify.todo :
         verify' = [verify EXCEPT
            !.todo = @ \ {j},
            !.unreadable = IF ~Readable(j) THEN @ \cup {j} ELSE @,
            !.noManifest = IF Readable(j) /\ ~HasManifest(j) THEN @ \cup {j} ELSE @,
            !.mismatches = IF Readable(j) /\ HasManifest(j) /\ Differs(j) THEN @ \cup {j} ELSE @]
  BY DEF ReadObject
<1>3. /\ verify'.pc = verify.pc /\ verify'.dataKeys = verify.dataKeys
      /\ verify'.todo = verify.todo \ {j} /\ verify'.victims = verify.victims
      /\ verify'.manifests = verify.manifests
      /\ verify'.noFetch = verify.noFetch /\ verify'.noObject = verify.noObject
  BY <1>1, <1>2 DEF VerifyState
<1>4. verify'.unreadable = IF ~Readable(j) THEN verify.unreadable \cup {j} ELSE verify.unreadable
  BY <1>1, <1>2 DEF VerifyState
<1>5. verify'.mismatches = IF Readable(j) /\ HasManifest(j) /\ Differs(j)
                           THEN verify.mismatches \cup {j} ELSE verify.mismatches
  BY <1>1, <1>2 DEF VerifyState
<1>6. verify.pc = "read" /\ UNCHANGED <<data, manifest, damaged, disturbed>>
  BY DEF ReadObject
<1>7. j \in Keys /\ verify.manifests \in [Keys -> Nat] /\ verify.manifests[j] <= MaxWrites /\ KeyOK(j)
  BY <1>1 DEF VerifyState, VInv, ReportOK, AInv
<1>8. ReportOK(verify)'
  BY <1>3, <1>6 DEF VInv, ReportOK
<1>9. ASSUME NEW k \in verify'.victims PROVE VictimOK(verify, k)'
  <2>1. VictimOK(verify, k)
    BY <1>3 DEF VInv
  <2>2. k \in verify.unreadable => k \in verify'.unreadable
    BY <1>4
  <2>3. k \in verify.mismatches => k \in verify'.mismatches
    BY <1>5
  <2>4. k = j => k \in verify'.unreadable \cup verify'.mismatches \cup verify.noFetch
    <3>1. k = j => data[j] \in {None, Damaged, Altered} /\ (HasManifest(j) \/ j \in verify.noFetch)
      BY <1>6, <1>7, <2>1 DEF VictimOK, KeyOK, HasManifest
    <3>2. data[j] = Altered => Differs(j)
      BY <1>7, ArchiveAssumption DEF Differs, Altered
    <3> QED
      BY <3>1, <3>2, <1>4, <1>5 DEF Readable
  <2> QED
    BY <1>3, <1>6, <2>1, <2>2, <2>3, <2>4 DEF VictimOK
<1>10. ASSUME ~disturbed' PROVE CalmOK(verify)'
  <2>1. CalmOK(verify) /\ j \in verify.dataKeys
    BY <1>6, <1>10 DEF VInv, ReportOK
  <2>2. Readable(j)
    BY <1>7, <2>1 DEF CalmOK, KeyOK, Readable
  <2>3. Undated = {} /\ HasManifest(j) => ~Differs(j)
    BY <1>7, <2>1, <2>2 DEF CalmOK, KeyOK, Readable, HasManifest, Differs
  <2> QED
    BY <1>3, <1>4, <1>5, <1>6, <2>1, <2>2, <2>3 DEF CalmOK
<1> QED
  BY <1>8, <1>9, <1>10 DEF VInv

(* An object cannot be read: that is in the report.                        *)
LEMMA ReadFailsMoves ==
  ASSUME AInv, VInv, ReadFails
  PROVE  VInv'
<1>1. verify \in VerifyState
  BY DEF AInv, ArchiveTypeOK
<1>2. PICK j \in verify.todo : verify' = [verify EXCEPT !.todo = @ \ {j}, !.unreadable = @ \cup {j}]
  BY DEF ReadFails
<1>3. /\ verify'.pc = verify.pc /\ verify'.dataKeys = verify.dataKeys
      /\ verify'.todo = verify.todo \ {j} /\ verify'.victims = verify.victims
      /\ verify'.manifests = verify.manifests /\ verify'.mismatches = verify.mismatches
      /\ verify'.unreadable = verify.unreadable \cup {j} /\ verify'.noFetch = verify.noFetch
      /\ verify'.noObject = verify.noObject
  BY <1>1, <1>2 DEF VerifyState
<1>4. verify.pc = "read" /\ disturbed' /\ UNCHANGED <<data, manifest, damaged>>
  BY DEF ReadFails
<1>5. ReportOK(verify)'
  BY <1>3, <1>4 DEF VInv, ReportOK
<1>6. ASSUME NEW k \in verify'.victims PROVE VictimOK(verify, k)'
  <2>1. VictimOK(verify, k)
    BY <1>3 DEF VInv
  <2> QED
    BY <1>3, <1>4, <2>1 DEF VictimOK
<1> QED
  BY <1>4, <1>5, <1>6 DEF VInv

(* The verdict.                                                            *)
LEMMA ReportMoves ==
  ASSUME AInv, VInv, Report
  PROVE  VInv'
<1>1. verify \in VerifyState
  BY DEF AInv, ArchiveTypeOK
<1>2. /\ verify'.pc = "done" /\ verify'.dataKeys = verify.dataKeys
      /\ verify'.todo = verify.todo /\ verify'.victims = verify.victims
      /\ verify'.manifests = verify.manifests /\ verify'.mismatches = verify.mismatches
      /\ verify'.unreadable = verify.unreadable /\ verify'.noFetch = verify.noFetch
      /\ verify'.noObject = {k \in Keys : verify.manifests[k] # None} \ verify.dataKeys
  BY <1>1 DEF Report, VerifyState, HasManifest
<1>3. verify.pc = "read" /\ verify.todo = {} /\ UNCHANGED <<data, manifest, damaged, disturbed>>
  BY DEF Report
<1>4. ReportOK(verify)'
  BY <1>2, <1>3 DEF VInv, ReportOK
<1>5. ASSUME NEW k \in verify'.victims PROVE VictimOK(verify, k)'
  <2>1. VictimOK(verify, k) /\ k \in Keys
    BY <1>1, <1>2 DEF VInv, VerifyState
  <2> QED
    BY <1>2, <1>3, <2>1 DEF VictimOK
<1>6. ASSUME ~disturbed' PROVE CalmOK(verify)'
  <2>1. CalmOK(verify)
    BY <1>3, <1>6 DEF VInv
  <2>2. ASSUME NEW k \in Keys, verify.manifests[k] # None PROVE k \in verify.dataKeys
    BY <2>1, <2>2 DEF CalmOK, AInv, KeyOK
  <2> QED
    BY <1>2, <1>3, <2>1, <2>2 DEF CalmOK
<1> QED
  BY <1>4, <1>5, <1>6 DEF VInv

(* Every step keeps what the verifier knows.                               *)
LEMMA VerifierKept == AInv /\ VInv /\ [ArchiveNext]_archiveVars => VInv'
<1> SUFFICES ASSUME AInv, VInv, [ArchiveNext]_archiveVars PROVE VInv'
  OBVIOUS
<1>1. ASSUME NEW w \in Writers, Writing(w) PROVE VInv'
  BY <1>1, WritingMoves
<1>2. ASSUME NEW k \in Keys, Damage(k) PROVE VInv'
  BY <1>2, DamageMoves
<1>3. CASE RunAgain
  BY <1>3, ArchiveAssumption DEF RunAgain, VInv, ReportOK, NotRunning, None
<1>4. CASE Verifying
  BY <1>3, <1>4, ListDataMoves, ListManifestsMoves, FetchManifestMoves, FetchFailsMoves,
     ManifestsReadMoves, ReadObjectMoves, ReadFailsMoves, ReportMoves DEF Verifying
<1>5. CASE UNCHANGED archiveVars
  BY <1>5 DEF archiveVars, VInv, ReportOK, VictimOK, CalmOK
<1> QED
  BY <1>1, <1>2, <1>4, <1>5 DEF ArchiveNext

(* sf-archive-verify finds every object that was lost or damaged before it  *)
(* ran and not rewritten, also among running collectors, and on a sound     *)
(* bucket at rest it raises no alarm (run, compare).                        *)
THEOREM VerdictRight == ArchiveSpec => []VerifierTruthful
<1>1. VInv => DamageReported
  BY DEF VInv, VictimOK, DamageReported, OK
<1>2. VInv => NoFalseAlarm
  BY DEF VInv, CalmOK, NoFalseAlarm, OK
<1> QED
  BY <1>1, <1>2, BucketStarts, BucketKept, VerifierStarts, VerifierKept, PTL
  DEF ArchiveSpec, VerifierTruthful

-----------------------------------------------------------------------------
(* The local archive.                                                      *)

(* Both names of an object and what is behind them.                        *)
FileOK(o) ==
    \A k \in Kinds :
       /\ body[k][o] \in {"none", "disk"}
       /\ name[k][o] # "none" => body[k][o] = "disk"
       /\ step[o] = <<k, "rename">> => temp[o] = "disk"
       /\ step[o] = <<k, "syncdir">> => name[k][o] # "none"

(* Where the directories are on disk, a data file is durable before its    *)
(* manifest is begun, and stays so.                                        *)
DurableOK(o) ==
    Old(o) =>
       /\ \A k \in Kinds : dir[k][PartitionOf[o]] = "disk"
       /\ \/ \E s \in Steps : step[o] = <<"manifest", s>>
          \/ name["manifest"][o] # "none"
          \/ o \in reported
          => name["data"][o] = "disk"
       /\ o \in reported => name["manifest"][o] = "disk"

LInv == SinkTypeOK /\ \A o \in Objects : FileOK(o) /\ DurableOK(o)

(* Nothing is written yet.                                                 *)
LEMMA SinkStarts == SinkInit => LInv
<1> SUFFICES ASSUME SinkInit PROVE LInv
  OBVIOUS
<1>1. SinkTypeOK
  BY SinkAssumption DEF SinkInit, SinkTypeOK, AtRest, Place
<1>2. ASSUME NEW o \in Objects PROVE FileOK(o) /\ DurableOK(o)
  BY SinkAssumption DEF SinkInit, FileOK, DurableOK, Old, Kinds, AtRest, Steps
<1> QED
  BY <1>1, <1>2 DEF LInv

(* A Write goes to another step, and files and directories stay.           *)
LEMMA StepMoves ==
  ASSUME LInv, NEW o \in Objects, NEW s \in {<<"idle", "idle">>, <<"data", "mkdir">>},
         step' = [step EXCEPT ![o] = s],
         temp' \in [Objects -> Place], \A x \in Objects : x # o => temp'[x] = temp[x],
         UNCHANGED <<dir, name, body, reported>>,
         losses' \in 0..MaxLosses, failures' \in 0..MaxFailures
  PROVE  LInv'
<1>1. SinkTypeOK'
  <2>1. s \in {<<"idle", "idle">>} \union (Kinds \X Steps)
    BY DEF Kinds, Steps
  <2> QED
    BY <2>1 DEF LInv, SinkTypeOK
<1>2. ASSUME NEW x \in Objects PROVE FileOK(x)' /\ DurableOK(x)'
  <2>1. FileOK(x) /\ DurableOK(x)
    BY DEF LInv
  <2>2. step'[x] = IF x = o THEN s ELSE step[x]
    BY DEF LInv, SinkTypeOK
  <2>3. FileOK(x)'
    BY <2>1, <2>2 DEF FileOK, Kinds
  <2>4. DurableOK(x)'
    BY <2>1, <2>2 DEF DurableOK, Kinds, Steps, Old
  <2> QED
    BY <2>3, <2>4
<1> QED
  BY <1>1, <1>2 DEF LInv

(* MkdirAll.                                                               *)
LEMMA MkdirMoves ==
  ASSUME LInv, NEW o \in Objects, NEW k \in Kinds, MkdirAll(o, k)
  PROVE  LInv'
<1> DEFINE p == PartitionOf[o]
<1>1. p \in Partitions
  BY SinkAssumption
<1>2. step[o] = <<k, "mkdir">> /\ step' = [step EXCEPT ![o] = <<k, "copy">>]
  BY DEF MkdirAll, At, Goto
<1>3. ASSUME NEW j \in Kinds, NEW q \in Partitions
      PROVE  dir'[j][q] \in Place /\ (dir[j][q] = "disk" => dir'[j][q] = "disk")
  BY <1>1 DEF MkdirAll, LInv, SinkTypeOK, Place
<1>4. dir' \in [Kinds -> [Partitions -> Place]]
  BY <1>1 DEF MkdirAll, LInv, SinkTypeOK, Place
<1>5. SinkTypeOK'
  BY <1>2, <1>4 DEF MkdirAll, countVars, LInv, SinkTypeOK, Kinds, Steps
<1>6. ASSUME NEW x \in Objects PROVE FileOK(x)' /\ DurableOK(x)'
  <2>1. FileOK(x) /\ DurableOK(x) /\ PartitionOf[x] \in Partitions
    BY SinkAssumption DEF LInv
  <2>2. step'[x] = IF x = o THEN <<k, "copy">> ELSE step[x]
    BY <1>2 DEF LInv, SinkTypeOK
  <2>3. UNCHANGED <<name, body, temp, reported>>
    BY DEF MkdirAll
  <2>4. FileOK(x)'
    BY <2>1, <2>2, <2>3 DEF FileOK, Kinds
  <2>5. DurableOK(x)'
    BY <1>2, <1>3, <2>1, <2>2, <2>3 DEF DurableOK, Kinds, Steps, Old
  <2> QED
    BY <2>4, <2>5
<1> QED
  BY <1>5, <1>6 DEF LInv

(* The temporary file is copied, or synced.                                *)
LEMMA TempMoves ==
  ASSUME LInv, NEW o \in Objects, NEW k \in Kinds, Copy(o, k) \/ Sync(o, k)
  PROVE  LInv'
<1>1. PICK from \in Steps, to \in Steps, t \in Place :
         /\ step[o] = <<k, from>> /\ step' = [step EXCEPT ![o] = <<k, to>>]
         /\ temp' = [temp EXCEPT ![o] = t]
         /\ to # "syncdir" /\ (to = "rename" => t = "disk")
  BY DEF Copy, Sync, At, Goto, Steps, Place
<1>2. UNCHANGED <<dir, name, body, reported, losses, failures>>
  BY DEF Copy, Sync, countVars
<1>3. SinkTypeOK'
  BY <1>1, <1>2 DEF LInv, SinkTypeOK, Kinds, Steps
<1>4. ASSUME NEW x \in Objects PROVE FileOK(x)' /\ DurableOK(x)'
  <2>1. FileOK(x) /\ DurableOK(x)
    BY DEF LInv
  <2>2. step'[x] = (IF x = o THEN <<k, to>> ELSE step[x]) /\ temp'[x] = IF x = o THEN t ELSE temp[x]
    BY <1>1 DEF LInv, SinkTypeOK
  <2>3. FileOK(x)'
    BY <1>1, <1>2, <2>1, <2>2 DEF FileOK, Kinds
  <2>4. DurableOK(x)'
    BY <1>1, <1>2, <2>1, <2>2 DEF DurableOK, Kinds, Old
  <2> QED
    BY <2>3, <2>4
<1> QED
  BY <1>3, <1>4 DEF LInv

(* The final name appears, with the synced content behind it.              *)
LEMMA RenameMoves ==
  ASSUME LInv, NEW o \in Objects, NEW k \in Kinds, Rename(o, k)
  PROVE  LInv'
<1>1. step[o] = <<k, "rename">> /\ step' = [step EXCEPT ![o] = <<k, "syncdir">>]
  BY DEF Rename, At, Goto
<1>2. temp[o] = "disk"
  BY <1>1 DEF LInv, FileOK
<1>3. name' \in [Kinds -> [Objects -> Place]] /\ body' \in [Kinds -> [Objects -> Place]]
  BY <1>2 DEF Rename, LInv, SinkTypeOK, Place
<1>4. SinkTypeOK'
  BY <1>1, <1>3 DEF Rename, countVars, LInv, SinkTypeOK, Kinds, Steps, Place
<1>5. ASSUME NEW x \in Objects PROVE FileOK(x)' /\ DurableOK(x)'
  <2>1. FileOK(x) /\ DurableOK(x)
    BY DEF LInv
  <2>2. /\ step'[x] = IF x = o THEN <<k, "syncdir">> ELSE step[x]
        /\ temp'[x] = IF x = o THEN "none" ELSE temp[x]
        /\ UNCHANGED <<dir, reported>>
    BY <1>1 DEF Rename, LInv, SinkTypeOK
  <2>3. ASSUME NEW j \in Kinds
        PROVE  /\ name'[j][x] = IF j = k /\ x = o THEN (IF name[j][x] = "disk" THEN "disk" ELSE "cached")
                                ELSE name[j][x]
               /\ body'[j][x] = IF j = k /\ x = o THEN "disk" ELSE body[j][x]
    BY <1>2 DEF Rename, LInv, SinkTypeOK
  <2>4. FileOK(x)'
    BY <1>1, <2>1, <2>2, <2>3 DEF FileOK, Kinds
  <2>5. DurableOK(x)'
    BY <1>1, <2>1, <2>2, <2>3 DEF DurableOK, Kinds, Steps, Old
  <2> QED
    BY <2>4, <2>5
<1> QED
  BY <1>4, <1>5 DEF LInv

(* The directory of the new name is synced: the data file is durable       *)
(* before its manifest is begun, the manifest before Write returns.        *)
LEMMA SyncDirMoves ==
  ASSUME LInv, NEW o \in Objects, NEW k \in Kinds, SyncDir(o, k)
  PROVE  LInv'
<1> DEFINE s == IF k = "data" THEN <<"manifest", "mkdir">> ELSE <<"idle", "idle">>
<1>1. step[o] = <<k, "syncdir">> /\ step' = [step EXCEPT ![o] = s]
  BY DEF SyncDir, At, Goto, Written, AtRest
<1>2. reported' = IF k = "data" THEN reported ELSE reported \union {o}
  BY DEF SyncDir, Written
<1>3. s \in {<<"idle", "idle">>} \union (Kinds \X Steps)
  BY DEF Kinds, Steps
<1>4. name' \in [Kinds -> [Objects -> Place]]
  BY DEF SyncDir, LInv, SinkTypeOK, Place
<1>5. SinkTypeOK'
  <2> HIDE DEF s
  <2> QED
    BY <1>1, <1>2, <1>3, <1>4 DEF SyncDir, countVars, LInv, SinkTypeOK
<1>6. ASSUME NEW x \in Objects PROVE FileOK(x)' /\ DurableOK(x)'
  <2>1. FileOK(x) /\ DurableOK(x)
    BY DEF LInv
  <2>2. step'[x] = (IF x = o THEN s ELSE step[x]) /\ UNCHANGED <<dir, body, temp>>
    BY <1>1 DEF SyncDir, LInv, SinkTypeOK
  <2>3. ASSUME NEW j \in Kinds
        PROVE  name'[j][x] = IF j = k /\ PartitionOf[x] = PartitionOf[o] /\ name[j][x] = "cached"
                             THEN "disk" ELSE name[j][x]
    BY DEF SyncDir, LInv, SinkTypeOK
  <2>4. x = o => name'[k][x] = "disk"
    BY <1>1, <2>1, <2>3 DEF FileOK, LInv, SinkTypeOK, Place
  <2>5. FileOK(x)'
    BY <1>1, <2>1, <2>2, <2>3 DEF FileOK, Kinds
  <2>6. DurableOK(x)'
    BY <1>1, <1>2, <2>1, <2>2, <2>3, <2>4 DEF DurableOK, Kinds, Steps, Old
  <2> QED
    BY <2>5, <2>6
<1> QED
  BY <1>5, <1>6 DEF LInv

(* The system writes back a directory or a name.                           *)
LEMMA WriteBackMoves ==
  ASSUME LInv, WriteBack
  PROVE  LInv'
<1> USE DEF LInv, SinkTypeOK
<1> DEFINE Dirs(k, p)  == dir' = [dir EXCEPT ![k][p] = "disk"] /\ UNCHANGED name
           Names(k, o) == /\ name[k][o] = "cached" /\ name' = [name EXCEPT ![k][o] = "disk"]
                          /\ UNCHANGED dir
<1>0. (\E k \in Kinds, p \in Partitions : Dirs(k, p)) \/ \E k \in Kinds, o \in Objects : Names(k, o)
  BY DEF WriteBack
<1>1. dir' \in [Kinds -> [Partitions -> Place]] /\ name' \in [Kinds -> [Objects -> Place]]
  <2>1. ASSUME NEW k \in Kinds, NEW p \in Partitions, Dirs(k, p)
        PROVE  dir' \in [Kinds -> [Partitions -> Place]] /\ name' = name
    BY <2>1 DEF Place
  <2>2. ASSUME NEW k \in Kinds, NEW o \in Objects, Names(k, o)
        PROVE  name' \in [Kinds -> [Objects -> Place]] /\ dir' = dir
    BY <2>2 DEF Place
  <2> HIDE DEF Dirs, Names
  <2> QED
    BY <1>0, <2>1, <2>2
<1>2. UNCHANGED <<step, body, temp, reported, losses, failures>>
  BY DEF WriteBack, countVars
<1>3. ASSUME NEW j \in Kinds, NEW p \in Partitions
      PROVE  dir[j][p] = "disk" => dir'[j][p] = "disk"
  BY <1>0
<1>4. ASSUME NEW j \in Kinds, NEW x \in Objects
      PROVE  name'[j][x] = name[j][x] \/ (name[j][x] = "cached" /\ name'[j][x] = "disk")
  BY <1>0
<1>5. SinkTypeOK'
  BY <1>1, <1>2 DEF LInv, SinkTypeOK
<1>6. ASSUME NEW x \in Objects PROVE FileOK(x)' /\ DurableOK(x)'
  <2>1. FileOK(x) /\ DurableOK(x) /\ PartitionOf[x] \in Partitions
    BY SinkAssumption DEF LInv
  <2>2. FileOK(x)'
    BY <1>2, <1>4, <2>1 DEF FileOK, Kinds
  <2>3. DurableOK(x)'
    BY <1>2, <1>3, <1>4, <2>1 DEF DurableOK, Kinds, Steps, Old
  <2> QED
    BY <2>2, <2>3
<1> QED
  BY <1>5, <1>6 DEF LInv

(* The machine goes down.                                                  *)
LEMMA PowerLossMoves ==
  ASSUME LInv, PowerLoss
  PROVE  LInv'
<1>1. SinkTypeOK'
  <2>1. step' \in [Objects -> {<<"idle", "idle">>} \union (Kinds \X Steps)] /\ temp' \in [Objects -> Place]
    BY DEF PowerLoss, AtRest, Place
  <2>2. dir' \in [Kinds -> [Partitions -> Place]]
    BY DEF PowerLoss, Place
  <2>3. name' \in [Kinds -> [Objects -> Place]]
    BY DEF PowerLoss, Place
  <2>4. body' \in [Kinds -> [Objects -> Place]]
    BY DEF PowerLoss, Place
  <2>5. losses' \in 0..MaxLosses /\ failures' \in 0..MaxFailures
    BY SinkAssumption DEF PowerLoss, LInv, SinkTypeOK
  <2> QED
    BY <2>1, <2>2, <2>3, <2>4, <2>5 DEF PowerLoss, LInv, SinkTypeOK
<1>2. ASSUME NEW x \in Objects PROVE FileOK(x)' /\ DurableOK(x)'
  <2>1. FileOK(x) /\ DurableOK(x) /\ PartitionOf[x] \in Partitions
    BY SinkAssumption DEF LInv
  <2>2. step'[x] = <<"idle", "idle">> /\ reported' = reported
    BY DEF PowerLoss, AtRest
  <2>3. ASSUME NEW j \in Kinds
        PROVE  /\ dir'[j][PartitionOf[x]] = IF dir[j][PartitionOf[x]] = "disk" THEN "disk" ELSE "none"
               /\ name'[j][x] = IF name[j][x] = "disk" /\ dir[j][PartitionOf[x]] = "disk"
                                THEN "disk" ELSE "none"
               /\ body'[j][x] = IF name'[j][x] = "disk" /\ body[j][x] = "disk" THEN "disk" ELSE "none"
    BY <2>1 DEF PowerLoss
  <2>4. FileOK(x)'
    BY <2>1, <2>2, <2>3 DEF FileOK, Kinds
  <2>5. DurableOK(x)'
    BY <2>1, <2>2, <2>3 DEF DurableOK, Kinds, Steps, Old
  <2> QED
    BY <2>4, <2>5
<1> QED
  BY <1>1, <1>2 DEF LInv

(* Every step of the writers, the system and the machine.                  *)
LEMMA SinkKept == LInv /\ [SinkNext]_sinkVars => LInv'
<1> SUFFICES ASSUME LInv, [SinkNext]_sinkVars PROVE LInv'
  OBVIOUS
<1>1. ASSUME NEW o \in Objects, StartWrite(o) PROVE LInv'
  <2>1. temp' \in [Objects -> Place] /\ losses' \in 0..MaxLosses /\ failures' \in 0..MaxFailures
    BY <1>1 DEF StartWrite, fileVars, countVars, LInv, SinkTypeOK
  <2> QED
    BY <1>1, <2>1, StepMoves DEF StartWrite, Goto, fileVars
<1>2. ASSUME NEW o \in Objects, Fail(o) PROVE LInv'
  <2>1. temp' \in [Objects -> Place] /\ \A x \in Objects : x # o => temp'[x] = temp[x]
    BY <1>2 DEF Fail, LInv, SinkTypeOK, Place
  <2>2. losses' \in 0..MaxLosses /\ failures' \in 0..MaxFailures
    BY <1>2, SinkAssumption DEF Fail, LInv, SinkTypeOK
  <2> QED
    BY <1>2, <2>1, <2>2, StepMoves DEF Fail, AtRest
<1>3. ASSUME NEW o \in Objects, NEW k \in Kinds,
             MkdirAll(o, k) \/ Copy(o, k) \/ Sync(o, k) \/ Rename(o, k) \/ SyncDir(o, k)
      PROVE  LInv'
  BY <1>3, MkdirMoves, TempMoves, RenameMoves, SyncDirMoves
<1>4. CASE WriteBack \/ PowerLoss
  BY <1>4, WriteBackMoves, PowerLossMoves
<1>5. CASE UNCHANGED sinkVars
  <2>1. UNCHANGED <<step, dir, name, body, temp, reported, losses, failures>>
    BY <1>5 DEF sinkVars, fileVars, countVars
  <2> QED
    BY <2>1 DEF LInv, SinkTypeOK, FileOK, DurableOK, Old
<1> QED
  BY <1>1, <1>2, <1>3, <1>4, <1>5 DEF SinkNext

(* Through failures, rewrites and power losses a file under its final name  *)
(* is whole, and on directories that are on disk a manifest has its data    *)
(* and a Write that returned nil stays (LocalSink.Write, atomicWrite).      *)
THEOREM LocalFilesSafe == SinkSpec => []FilesSafe
<1>1. LInv => NoTornFile
  BY DEF LInv, FileOK, NoTornFile
<1>2. LInv => ManifestHasData /\ DurableInOldPartition
  BY DEF LInv, SinkTypeOK, FileOK, DurableOK, ManifestHasData, DurableInOldPartition, Whole, Kinds
<1>3. LInv => FilesSafe
  BY <1>1, <1>2 DEF LInv, FilesSafe
<1> QED
  BY <1>3, SinkStarts, SinkKept, PTL DEF SinkSpec

=============================================================================
