----------------------------- MODULE LocalSink -----------------------------
(***************************************************************************)
(* The local archive (internal/archive/local.go) on a file system that     *)
(* loses what was not synced when the machine goes down.  An object is a   *)
(* data file and a manifest; each is copied to a temporary file, synced,   *)
(* renamed to its final name, and the directory of that name is synced.    *)
(*                                                                         *)
(* Files and directory entries are "none", "cached" (the running system    *)
(* sees them) or "disk" (they survive a power loss).  The levels of a      *)
(* partition's path are one directory here, with one entry in its parent.  *)
(***************************************************************************)
EXTENDS Naturals, FiniteSets

CONSTANTS Objects,      \* objects that are written
          Partitions,   \* year/month/day/hour directories
          PartitionOf,  \* PartitionOf[o]: where object o belongs
          DirsAtStart,  \* DirsAtStart[p]: "disk" when the directories of p are there
                        \* already, "none" when the first Write makes them
          MaxLosses,    \* bound: power losses
          MaxFailures   \* bound: file operations that fail

ASSUME SinkAssumption ==
    /\ PartitionOf \in [Objects -> Partitions]
    /\ DirsAtStart \in [Partitions -> {"none", "disk"}]
    /\ MaxLosses \in Nat /\ MaxFailures \in Nat

Kinds == {"data", "manifest"}
Place == {"none", "cached", "disk"}

VARIABLES
    step,      \* where the Write of each object is
    dir,       \* dir[k][p]: the directory of a partition, per kind of file
    name,      \* name[k][o]: the final name of a file
    body,      \* body[k][o]: the content behind the final name
    temp,      \* temp[o]: the content of the temporary file being written
    reported,  \* objects whose Write has returned nil
    losses, failures

fileVars  == <<dir, name, body, temp>>
countVars == <<losses, failures>>
sinkVars == <<step, fileVars, reported, countVars>>

Steps == {"mkdir", "copy", "sync", "rename", "syncdir"}

SinkTypeOK ==
    /\ step \in [Objects -> {<<"idle", "idle">>} \union (Kinds \X Steps)]
    /\ dir \in [Kinds -> [Partitions -> Place]]
    /\ name \in [Kinds -> [Objects -> Place]]
    /\ body \in [Kinds -> [Objects -> Place]]
    /\ temp \in [Objects -> Place]
    /\ reported \subseteq Objects
    /\ losses \in 0..MaxLosses /\ failures \in 0..MaxFailures

AtRest == <<"idle", "idle">>

SinkInit ==
    /\ step = [o \in Objects |-> AtRest]
    /\ dir = [k \in Kinds |-> DirsAtStart]
    /\ name = [k \in Kinds |-> [o \in Objects |-> "none"]]
    /\ body = [k \in Kinds |-> [o \in Objects |-> "none"]]
    /\ temp = [o \in Objects |-> "none"]
    /\ reported = {} /\ losses = 0 /\ failures = 0

At(o, k, s)   == step[o] = <<k, s>>
Goto(o, k, s) == step' = [step EXCEPT ![o] = <<k, s>>]

-----------------------------------------------------------------------------
(* Mutant: the manifest comes first.                                       *)
StartWithManifest(o) ==
    /\ step[o] = AtRest
    /\ Goto(o, "manifest", "mkdir")
    /\ UNCHANGED <<fileVars, reported, countVars>>

(* Write: encodeObject has the content ready; the data file comes first.   *)
(* An object with a deterministic name may be written again at any time.   *)
StartWrite(o) ==
    /\ step[o] = AtRest
    /\ Goto(o, "data", "mkdir")
    /\ UNCHANGED <<fileVars, reported, countVars>>

(* MkdirAll: nothing happens when the directory is there.                  *)
MkdirAll(o, k) ==
    /\ At(o, k, "mkdir")
    /\ dir' = [dir EXCEPT ![k][PartitionOf[o]] = IF @ = "none" THEN "cached" ELSE @]
    /\ Goto(o, k, "copy")
    /\ UNCHANGED <<name, body, temp, reported, countVars>>

Copy(o, k) ==
    /\ At(o, k, "copy")
    /\ temp' = [temp EXCEPT ![o] = "cached"]
    /\ Goto(o, k, "sync")
    /\ UNCHANGED <<dir, name, body, reported, countVars>>

(* Mutant: the temporary file is not synced.                               *)
SkipSync(o, k) ==
    /\ At(o, k, "sync")
    /\ Goto(o, k, "rename")
    /\ UNCHANGED <<fileVars, reported, countVars>>

Sync(o, k) ==
    /\ At(o, k, "sync")
    /\ temp' = [temp EXCEPT ![o] = "disk"]
    /\ Goto(o, k, "rename")
    /\ UNCHANGED <<dir, name, body, reported, countVars>>

(* The final name appears with the whole content behind it.                *)
Rename(o, k) ==
    /\ At(o, k, "rename")
    /\ name' = [name EXCEPT ![k][o] = IF @ = "disk" THEN @ ELSE "cached"]
    /\ body' = [body EXCEPT ![k][o] = temp[o]]
    /\ temp' = [temp EXCEPT ![o] = "none"]
    /\ Goto(o, k, "syncdir")
    /\ UNCHANGED <<dir, reported, countVars>>

(* After the data file comes the manifest, after that success.             *)
Written(o, k) ==
    IF k = "data"
    THEN Goto(o, "manifest", "mkdir") /\ UNCHANGED reported
    ELSE step' = [step EXCEPT ![o] = AtRest] /\ reported' = reported \union {o}

(* Mutant: the directory is not synced after the rename.                   *)
SkipSyncDir(o, k) ==
    /\ At(o, k, "syncdir")
    /\ Written(o, k)
    /\ UNCHANGED <<fileVars, countVars>>

(* syncDir makes the entries of the directory durable, not its own entry   *)
(* in the parent.                                                          *)
SyncDir(o, k) ==
    /\ At(o, k, "syncdir")
    /\ name' = [name EXCEPT ![k] = [f \in Objects |->
                   IF PartitionOf[f] = PartitionOf[o] /\ @[f] = "cached" THEN "disk" ELSE @[f]]]
    /\ Written(o, k)
    /\ UNCHANGED <<dir, body, temp, countVars>>

(* A step fails or the context ends: the temporary file is removed, what   *)
(* has its final name stays.                                               *)
Fail(o) ==
    /\ step[o] # AtRest /\ failures < MaxFailures
    /\ failures' = failures + 1
    /\ step' = [step EXCEPT ![o] = AtRest]
    /\ temp' = [temp EXCEPT ![o] = "none"]
    /\ UNCHANGED <<dir, name, body, reported, losses>>

-----------------------------------------------------------------------------
(* The system writes back what it has cached, in any order.                *)
WriteBack ==
    \/ \E k \in Kinds, p \in Partitions :
          /\ dir[k][p] = "cached" /\ dir' = [dir EXCEPT ![k][p] = "disk"]
          /\ UNCHANGED <<step, name, body, temp, reported, countVars>>
    \/ \E k \in Kinds, o \in Objects :
          /\ name[k][o] = "cached" /\ name' = [name EXCEPT ![k][o] = "disk"]
          /\ UNCHANGED <<step, dir, body, temp, reported, countVars>>

(* The machine goes down: what is not on disk is gone, and so is           *)
(* everything in a directory that is gone.                                 *)
PowerLoss ==
    /\ losses < MaxLosses
    /\ losses' = losses + 1
    /\ dir' = [k \in Kinds |-> [p \in Partitions |-> IF dir[k][p] = "disk" THEN "disk" ELSE "none"]]
    /\ name' = [k \in Kinds |-> [o \in Objects |->
                  IF name[k][o] = "disk" /\ dir[k][PartitionOf[o]] = "disk" THEN "disk" ELSE "none"]]
    /\ body' = [k \in Kinds |-> [o \in Objects |->
                  IF name'[k][o] = "disk" /\ body[k][o] = "disk" THEN "disk" ELSE "none"]]
    /\ temp' = [o \in Objects |-> "none"]
    /\ step' = [o \in Objects |-> AtRest]
    /\ UNCHANGED <<reported, failures>>

SinkNext ==
    \/ WriteBack \/ PowerLoss
    \/ \E o \in Objects :
          \/ StartWrite(o) \/ Fail(o)
          \/ \E k \in Kinds : MkdirAll(o, k) \/ Copy(o, k) \/ Sync(o, k) \/ Rename(o, k) \/ SyncDir(o, k)

SinkSpec == SinkInit /\ [][SinkNext]_sinkVars

-----------------------------------------------------------------------------
Whole(k, o) == name[k][o] # "none" /\ body[k][o] # "none"

(* A file that can be seen under its final name has its whole content, in  *)
(* the running system and after a power loss (atomicWrite).                *)
NoTornFile == \A k \in Kinds, o \in Objects : name[k][o] # "none" => body[k][o] # "none"

Old(o) == DirsAtStart[PartitionOf[o]] = "disk"

(* In a partition whose directories are on disk, a manifest is never       *)
(* without its data object, through failures, rewrites and power losses    *)
(* (LocalSink.Write: data first, each made durable before the next step).  *)
ManifestHasData == \A o \in Objects : Old(o) /\ Whole("manifest", o) => Whole("data", o)

(* A Write into such a partition that returned nil is durable: a later     *)
(* power loss or failed rewrite takes nothing away (atomicWrite).          *)
DurableInOldPartition == \A o \in reported : Old(o) => Whole("data", o) /\ Whole("manifest", o)

(* The local archive keeps its promise on directories that exist: whole    *)
(* files, data before manifest, and nothing lost once Write returned nil   *)
(* (LocalSink.Write, atomicWrite).                                         *)
FilesSafe == SinkTypeOK /\ NoTornFile /\ ManifestHasData /\ DurableInOldPartition

=============================================================================
