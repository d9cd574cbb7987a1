--------------------------- MODULE ArchiveVerify ---------------------------
(***************************************************************************)
(* The archive bucket: collectors that store a data object and then its    *)
(* manifest (internal/archive/s3.go), also over an earlier version of the  *)
(* same key, and sf-archive-verify, which lists and reads the bucket while *)
(* they do (cmd/sf-archive-verify/main.go).                                *)
(*                                                                         *)
(* Content is a number that stands for everything a manifest records of an *)
(* object (counts, sizes, SHA-256, timestamps).  Encoding a record twice   *)
(* gives the same content, unless the record has no timestamp of its own   *)
(* and is given the time of the write: keys in Undated get a new content   *)
(* with every write.  The ledger comparison is not modelled.               *)
(***************************************************************************)
EXTENDS Integers, FiniteSets

CONSTANTS Keys,      \* object names
          Undated,   \* keys whose content depends on when they are written
          Writers,
          MaxWrites, \* bound: writes ever started
          MaxMishaps, \* bound: failed uploads and reads, crashes, damaged objects
          Strict     \* -strict

ASSUME ArchiveAssumption ==
    /\ Keys # {} /\ Undated \subseteq Keys
    /\ MaxWrites \in Nat
    /\ MaxMishaps \in Nat
    /\ Strict \in BOOLEAN

VARIABLES data,      \* data[k]: content of the data object, None, Damaged or Altered
          manifest,  \* manifest[k]: content the manifest describes, or None
          writer,    \* writer[w]: a Write call
          writes,    \* writes started
          damaged,   \* history: keys whose object was lost or damaged since it was stored
          verify,    \* the verifier
          disturbed, \* history: the verifier met damage, an error or a changing bucket
          mishaps

archiveVars == <<data, manifest, writer, writes, damaged, verify, disturbed, mishaps>>

None    == 0
Damaged == -1             \* does not decode any more
Altered == MaxWrites + 1  \* decodes, but is not what was written

WriterState == [pc : {"idle", "data", "manifest"}, key : Keys, content : Nat]

VerifyState ==
    [pc           : {"idle", "list", "fetch", "read", "done"},
     dataKeys     : SUBSET Keys,           \* result of the first listing
     manifestKeys : SUBSET Keys,           \* result of the second
     manifests    : [Keys -> Nat],         \* fetched manifests (None: not fetched)
     todo         : SUBSET Keys,           \* keys still to fetch or to read
     mismatches   : SUBSET Keys,           \* rep.ManifestMismatches
     unreadable   : SUBSET Keys,           \* rep.UnreadableObjects
     noFetch      : SUBSET Keys,           \* rep.UnreadableManifests
     noManifest   : SUBSET Keys,           \* rep.ObjectsWithoutMan
     noObject     : SUBSET Keys,           \* rep.ManifestsNoObject
     victims      : SUBSET Keys]           \* history: damaged when the run began, and since

NotRunning ==
    [pc |-> "idle", dataKeys |-> {}, manifestKeys |-> {},
     manifests |-> [k \in Keys |-> None], todo |-> {}, mismatches |-> {},
     unreadable |-> {}, noFetch |-> {}, noManifest |-> {}, noObject |-> {},
     victims |-> {}]

Mishap == mishaps > 0 /\ mishaps' = mishaps - 1

ArchiveInit ==
    /\ data = [k \in Keys |-> None]
    /\ manifest = [k \in Keys |-> None]
    /\ writer = [w \in Writers |-> [pc |-> "idle", key |-> CHOOSE k \in Keys : TRUE, content |-> None]]
    /\ writes = 0
    /\ damaged = {}
    /\ verify = NotRunning
    /\ disturbed = FALSE
    /\ mishaps = MaxMishaps

-----------------------------------------------------------------------------
(* S3Sink.Write.                                                           *)

(* Mutant: a failure to finish the temporary file goes unnoticed.           *)
EncodeUnfinished(w, k) ==
    /\ writer[w].pc = "idle"
    /\ writes < MaxWrites
    /\ writes' = writes + 1
    /\ writer' = [writer EXCEPT ![w] = [pc |-> "data", key |-> k, content |-> Damaged]]
    /\ UNCHANGED <<data, manifest, damaged, verify, disturbed, mishaps>>

(* encodeObject: the object is built in a temporary file.                  *)
Encode(w, k) ==
    /\ writer[w].pc = "idle"
    /\ writes < MaxWrites
    /\ writes' = writes + 1
    /\ writer' = [writer EXCEPT ![w] = [pc |-> "data", key |-> k,
                     content |-> IF k \in Undated THEN writes + 1 ELSE 1]]
    /\ UNCHANGED <<data, manifest, damaged, verify, disturbed, mishaps>>

Running == verify.pc # "idle"

(* The data object of key k becomes c: what was damaged is replaced.       *)
StoreData(k, c) ==
    /\ data' = [data EXCEPT ![k] = c]
    /\ damaged' = damaged \ {k}
    /\ verify' = [verify EXCEPT !.victims = @ \ {k}]
    /\ disturbed' = (disturbed \/ Running)

(* Mutant: the manifest is uploaded before the object it describes.         *)
PutDataLate(w) ==
    /\ writer[w].pc = "data"
    /\ manifest' = [manifest EXCEPT ![writer[w].key] = writer[w].content]
    /\ writer' = [writer EXCEPT ![w].pc = "manifest"]
    /\ UNCHANGED <<data, writes, damaged, verify, disturbed, mishaps>>

PutData(w) ==
    /\ writer[w].pc = "data"
    /\ StoreData(writer[w].key, writer[w].content)
    /\ writer' = [writer EXCEPT ![w].pc = "manifest"]
    /\ UNCHANGED <<manifest, writes, mishaps>>

PutManifest(w) ==
    /\ writer[w].pc = "manifest"
    /\ manifest' = [manifest EXCEPT ![writer[w].key] = writer[w].content]
    /\ writer' = [writer EXCEPT ![w].pc = "idle"]
    /\ disturbed' = (disturbed \/ Running)
    /\ UNCHANGED <<data, writes, damaged, verify, mishaps>>

(* An upload fails, applied or not, or the process dies: Write is over.    *)
PutDataFails(w) ==
    /\ writer[w].pc = "data"
    /\ Mishap
    /\ \/ StoreData(writer[w].key, writer[w].content)
       \/ UNCHANGED <<data, damaged, verify, disturbed>>
    /\ writer' = [writer EXCEPT ![w].pc = "idle"]
    /\ UNCHANGED <<manifest, writes>>

PutManifestFails(w) ==
    /\ writer[w].pc = "manifest"
    /\ Mishap
    /\ \/ /\ manifest' = [manifest EXCEPT ![writer[w].key] = writer[w].content]
          /\ disturbed' = (disturbed \/ Running)
       \/ UNCHANGED <<manifest, disturbed>>
    /\ writer' = [writer EXCEPT ![w].pc = "idle"]
    /\ UNCHANGED <<data, writes, damaged, verify>>

(* An object is deleted, damaged or altered.                               *)
Damage(k) ==
    /\ data[k] \notin {None, Damaged, Altered}
    /\ Mishap
    /\ \E bad \in {None, Damaged, Altered} : data' = [data EXCEPT ![k] = bad]
    /\ damaged' = damaged \cup {k}
    /\ disturbed' = (disturbed \/ Running)
    /\ UNCHANGED <<manifest, writer, writes, verify>>

-----------------------------------------------------------------------------
(* sf-archive-verify.                                                      *)

(* Mutant: only the first page of the listing is used.                      *)
ListDataFirstPage ==
    /\ verify.pc = "idle"
    /\ \E first \in Keys :
          verify' = [verify EXCEPT !.pc = "list",
                        !.dataKeys = {k \in {first} : data[k] # None},
                        !.victims = {k \in damaged : manifest[k] # None}]
    /\ disturbed' = (damaged # {})
    /\ UNCHANGED <<data, manifest, writer, writes, damaged, mishaps>>

ListData ==
    /\ verify.pc = "idle"
    /\ verify' = [verify EXCEPT !.pc = "list", !.dataKeys = {k \in Keys : data[k] # None},
                     !.victims = {k \in damaged : manifest[k] # None}]
    /\ disturbed' = (damaged # {})
    /\ UNCHANGED <<data, manifest, writer, writes, damaged, mishaps>>

ListManifests ==
    LET keys == {k \in Keys : manifest[k] # None}
    IN  /\ verify.pc = "list"
        /\ verify' = [verify EXCEPT !.pc = "fetch", !.manifestKeys = keys, !.todo = keys]
        /\ UNCHANGED <<data, manifest, writer, writes, damaged, disturbed, mishaps>>

(* Manifests are fetched in any order (-workers).                          *)
FetchManifest ==
    /\ verify.pc = "fetch"
    /\ \E k \in verify.todo :
          verify' = [verify EXCEPT !.todo = @ \ {k}, !.manifests[k] = manifest[k]]
    /\ UNCHANGED <<data, manifest, writer, writes, damaged, disturbed, mishaps>>

(* A manifest that cannot be fetched is reported, and its object is then    *)
(* one without a manifest.                                                 *)
FetchFails ==
    /\ verify.pc = "fetch"
    /\ Mishap
    /\ \E k \in verify.todo :
          verify' = [verify EXCEPT !.todo = @ \ {k}, !.noFetch = @ \cup {k}]
    /\ disturbed' = TRUE
    /\ UNCHANGED <<data, manifest, writer, writes, damaged>>

ManifestsRead ==
    /\ verify.pc = "fetch"
    /\ verify.todo = {}
    /\ verify' = [verify EXCEPT !.pc = "read", !.todo = verify.dataKeys]
    /\ UNCHANGED <<data, manifest, writer, writes, damaged, disturbed, mishaps>>

(* The object can be fetched and every line of it decodes.                  *)
Readable(k) == data[k] \notin {None, Damaged}

HasManifest(k) == verify.manifests[k] # None

(* Some count, size, hash or timestamp is not the manifest's.               *)
Differs(k) == data[k] # verify.manifests[k]

(* Mutant: an object that cannot be read is left out of the report.         *)
ReadObjectSkips ==
    /\ verify.pc = "read"
    /\ \E k \in verify.todo :
          verify' = [verify EXCEPT
             !.todo = @ \ {k},
             !.noManifest = IF ~HasManifest(k) THEN @ \cup {k} ELSE @,
             !.mismatches = IF Readable(k) /\ HasManifest(k) /\ Differs(k) THEN @ \cup {k} ELSE @]
    /\ UNCHANGED <<data, manifest, writer, writes, damaged, disturbed, mishaps>>

(* An object that is gone or does not decode is unreadable; one without a  *)
(* manifest is only counted; otherwise it is compared with the manifest.   *)
ReadObject ==
    /\ verify.pc = "read"
    /\ \E k \in verify.todo :
          verify' = [verify EXCEPT
             !.todo = @ \ {k},
             !.unreadable = IF ~Readable(k) THEN @ \cup {k} ELSE @,
             !.noManifest = IF Readable(k) /\ ~HasManifest(k) THEN @ \cup {k} ELSE @,
             !.mismatches = IF Readable(k) /\ HasManifest(k) /\ Differs(k) THEN @ \cup {k} ELSE @]
    /\ UNCHANGED <<data, manifest, writer, writes, damaged, disturbed, mishaps>>

ReadFails ==
    /\ verify.pc = "read"
    /\ Mishap
    /\ \E k \in verify.todo :
          verify' = [verify EXCEPT !.todo = @ \ {k}, !.unreadable = @ \cup {k}]
    /\ disturbed' = TRUE
    /\ UNCHANGED <<data, manifest, writer, writes, damaged>>

Report ==
    /\ verify.pc = "read"
    /\ verify.todo = {}
    /\ verify' = [verify EXCEPT !.pc = "done",
                     !.noObject = {k \in Keys : HasManifest(k)} \ verify.dataKeys]
    /\ UNCHANGED <<data, manifest, writer, writes, damaged, disturbed, mishaps>>

OK ==
    /\ verify.mismatches = {} /\ verify.noObject = {}
    /\ verify.unreadable = {} /\ verify.noFetch = {}
    /\ ~Strict \/ verify.noManifest = {}

(* The command is run again later.                                         *)
RunAgain ==
    /\ verify.pc = "done"
    /\ verify' = NotRunning
    /\ UNCHANGED <<data, manifest, writer, writes, damaged, disturbed, mishaps>>

-----------------------------------------------------------------------------
Writing(w) ==
    \/ \E k \in Keys : Encode(w, k)
    \/ PutData(w) \/ PutManifest(w) \/ PutDataFails(w) \/ PutManifestFails(w)

Verifying ==
    \/ ListData \/ ListManifests \/ FetchManifest \/ FetchFails \/ ManifestsRead
    \/ ReadObject \/ ReadFails \/ Report \/ RunAgain

ArchiveNext ==
    \/ \E w \in Writers : Writing(w)
    \/ \E k \in Keys : Damage(k)
    \/ Verifying

ArchiveSpec == ArchiveInit /\ [][ArchiveNext]_archiveVars

-----------------------------------------------------------------------------
(* Properties.                                                             *)

ArchiveTypeOK ==
    /\ data \in [Keys -> Nat \cup {Damaged}]
    /\ manifest \in [Keys -> Nat]
    /\ writer \in [Writers -> WriterState]
    /\ writes \in Nat
    /\ damaged \subseteq Keys
    /\ verify \in VerifyState
    /\ disturbed \in BOOLEAN
    /\ mishaps \in Nat

(* A manifest is only stored when its object is: whatever upload failed and *)
(* whoever writes the same key at the same time, a manifest has its object  *)
(* behind it, and one with the content it describes if the key is not       *)
(* Undated, unless the object was damaged later.                            *)
ManifestBacked ==
    \A k \in Keys \ damaged :
       manifest[k] # None =>
          /\ data[k] # None
          /\ k \notin Undated => data[k] = manifest[k]

(* The verifier overlooks no damage: an object that had a manifest and was  *)
(* lost or damaged before the run, and that nobody rewrote, makes it fail,  *)
(* also while collectors are writing.                                       *)
DamageReported == verify.pc = "done" /\ verify.victims # {} => ~OK

(* On a bucket at rest the verifier raises no false alarm: whatever uploads *)
(* failed or overlapped before, a run that meets no damage, no error and no *)
(* upload succeeds, if no key is written with changing content (objects     *)
(* left without a manifest count only with -strict).                        *)
NoFalseAlarm ==
    verify.pc = "done" /\ ~disturbed /\ Undated = {} /\ ~Strict => OK

(* What is stored under a key is what was encoded for it, object before    *)
(* manifest (S3Sink.Write).                                                *)
BucketSound == ArchiveTypeOK /\ ManifestBacked

(* The verdict of the verifier is right in both directions (run, compare). *)
VerifierTruthful == DamageReported /\ NoFalseAlarm

=============================================================================
