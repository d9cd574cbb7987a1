---------------------------- MODULE MCArchiving ----------------------------
(***************************************************************************)
(* What ends up in the archive: the polls of a custom query (CustomQuery), *)
(* how its rows are told apart (RowVersions), objects and manifests in S3  *)
(* and their verification (ArchiveVerify), and files on a local disk       *)
(* (LocalSink).  A behaviour runs one of the four.                         *)
(***************************************************************************)
EXTENDS CustomQuery, RowVersions, ArchiveVerify, LocalSink, TLC

CONSTANTS p1, p2, w1, w2, o1, o2, d1, d2

VARIABLE part  \* the component that runs

all == <<part, vars, rowVars, archiveVars, sinkVars>>

(* Two records whose text fields would be the same string if they were     *)
(* simply joined, and queries on them.                                     *)
MCText == [r1 |-> [A |-> <<"a", "b">>, B |-> <<"c">>],
           r2 |-> [A |-> <<"a">>, B |-> <<"b", "c">>]]

SoqlQuery(select, timestamp, end, customId) ==
    [select |-> select, timestamp |-> timestamp, endTimestamp |-> end, customId |-> customId,
     where |-> Empty, limit |-> FALSE, apiName |-> Empty]

PlainQuery == SoqlQuery({"Id", "Stamp"}, "Stamp", Empty, <<>>)

MCQueryConfigs ==
    {PlainQuery,
     SoqlQuery({"Id", "Stamp", "A"}, "Stamp", Empty, <<>>),
     SoqlQuery({"Stamp", "End", "A", "B"}, "Stamp", "End", <<"A", "B">>),
     [PlainQuery EXCEPT !.limit = TRUE], [PlainQuery EXCEPT !.apiName = "soap"],
     SoqlQuery({"Id", "A"}, "Stamp", Empty, <<>>), SoqlQuery({}, "Stamp", Empty, <<>>),
     SoqlQuery({"Id", "Stamp"}, Empty, Empty, <<>>),
     SoqlQuery({"Id", "Stamp"}, "stamp", Empty, <<>>)}

(* An object in a partition that is there, one in a partition to make.     *)
MCPartitionOf == [o \in Objects |-> IF o = o2 THEN d2 ELSE d1]
MCDirsAtStart == [p \in Partitions |-> IF p = d1 THEN "disk" ELSE "none"]

(* Pollers and writers never run in the same behaviour: where one          *)
(* permutation moves something, the other does not.                        *)
MCSymmetry == Permutations({p1, p2}) \union Permutations({w1, w2})

-----------------------------------------------------------------------------
(* Before it runs, each component is in its initial state; where there are *)
(* several, in one of them.                                                *)
RowsAtRest == RowInit /\ queries = [i \in 1..2 |-> PlainQuery]

MCInit ==
    /\ Init /\ ArchiveInit /\ SinkInit
    /\ \/ part \in {"query", "archive", "disk"} /\ RowsAtRest
       \/ part = "rows" /\ RowInit

InQuery(A)   == part = "query" /\ A /\ UNCHANGED <<part, rowVars, archiveVars, sinkVars>>
InRows(A)    == part = "rows" /\ A /\ UNCHANGED <<part, vars, archiveVars, sinkVars>>
InArchive(A) == part = "archive" /\ A /\ UNCHANGED <<part, vars, rowVars, sinkVars>>
InDisk(A)    == part = "disk" /\ A /\ UNCHANGED <<part, vars, rowVars, archiveVars>>

MCNext == InQuery(Next) \/ InRows(RowNext) \/ InArchive(ArchiveNext) \/ InDisk(SinkNext)

MCSpec == MCInit /\ [][MCNext]_all
=============================================================================
