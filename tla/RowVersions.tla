---------------------------- MODULE RowVersions ----------------------------
(***************************************************************************)
(* How the rows of custom SOQL queries are told apart: which query         *)
(* configurations are accepted, the marker under which a row counts as     *)
(* archived, and the event_id of an archived row.  Module CustomQuery has  *)
(* the windows and watermarks; here every poll sees the current version of *)
(* every record its query can select.                                      *)
(*                                                                         *)
(* Field names are model names with a spelling: SOQL ignores upper and     *)
(* lower case, and a result names its fields the way the object does.      *)
(***************************************************************************)
EXTENDS Integers, Sequences, SequencesExt

CONSTANTS Records,      \* records of the queried object
          Text,         \* Text[r][f]: the value of text field f of record r
          QueryConfigs, \* configurations to try, see QueryConfig
          MaxStamp      \* bound: versions of a record

(* The fields of the object, by their spellings.                           *)
Canonical == [Id |-> "Id", Stamp |-> "Stamp", stamp |-> "Stamp",
              End |-> "End", end |-> "End", A |-> "A", B |-> "B"]
Names == DOMAIN Canonical

Nil   == <<>>
Empty == "empty"  \* a setting that is not given: the empty string

VARIABLES
    queries,  \* the two configured queries
    up,       \* "loading", "refused" or "running"
    stamp,    \* stamp[r]: when record r was last modified
    ended,    \* ended[r]: when it ended, 0 while it runs
    markers,  \* keys in the cache
    archived, \* rows in the archive
    polled    \* polled[i]: query i completed since the last change

recVars == <<stamp, ended>>
rowVars == <<queries, up, recVars, markers, archived, polled>>

QueryConfig ==
    [select : SUBSET Names, timestamp : Names \union {Empty}, endTimestamp : Names \union {Empty},
     customId : Seq(Names), where : STRING, limit : BOOLEAN,
     apiName : {Empty, "rest", "tooling", "soap"}]

SelectedFields(q) == {Canonical[s] : s \in q.select}

(* What the settings have to say about the object, and no check can see:   *)
(* timestamp is the time of the last change; queries that select the same  *)
(* fields without the Id have the same customId, whose text fields no two  *)
(* records share.                                                          *)
ConfigsFit ==
    /\ \A q \in QueryConfigs : q.timestamp # Empty => Canonical[q.timestamp] = "Stamp"
    /\ \A p, q \in QueryConfigs :
          SelectedFields(p) = SelectedFields(q) /\ "Id" \notin SelectedFields(p) =>
             p.customId = q.customId
    /\ \A q \in QueryConfigs : q.customId # <<>> /\ "Id" \notin SelectedFields(q) =>
          \A r, s \in Records : r # s =>
             \E i \in DOMAIN q.customId :
                /\ q.customId[i] \in {"A", "B"}
                /\ Text[r][q.customId[i]] # Text[s][q.customId[i]]

ASSUME RowAssumption ==
    /\ MaxStamp \in Nat \ {0}
    /\ Text \in [Records -> [{"A", "B"} -> Seq(STRING)]]
    /\ QueryConfigs \subseteq QueryConfig
    /\ ConfigsFit

RowTypeOK ==
    /\ queries \in [1..2 -> QueryConfig]
    /\ up \in {"loading", "refused", "running"}
    /\ stamp \in [Records -> 1..MaxStamp]
    /\ ended \in [Records -> 0..MaxStamp]
    /\ polled \in [1..2 -> BOOLEAN]

RowInit ==
    /\ queries \in [1..2 -> QueryConfigs]
    /\ up = "loading"
    /\ stamp = [r \in Records |-> 1]
    /\ ended = [r \in Records |-> 0]
    /\ markers = {} /\ archived = {}
    /\ polled = [i \in 1..2 |-> FALSE]

-----------------------------------------------------------------------------
(* selectsField ignores upper and lower case.                              *)
SelectsField(selected, field) ==
    field # Empty /\ \E s \in selected : Canonical[s] = Canonical[field]

(* The checks on one custom query.                                         *)
IntegrityCheck(q) ==
    /\ q.timestamp # Empty
    /\ q.apiName \in {Empty, "rest", "tooling"}
    /\ q.select # {}
    /\ SelectsField(q.select, q.timestamp)
    /\ q.endTimestamp # Empty => SelectsField(q.select, q.endTimestamp)
    /\ ~q.limit

WithDefaults(q) == [q EXCEPT !.apiName = IF @ = Empty THEN "rest" ELSE @]

Start ==
    /\ up = "loading"
    /\ up' = IF \A i \in 1..2 : IntegrityCheck(queries[i]) THEN "running" ELSE "refused"
    /\ queries' = [i \in 1..2 |-> WithDefaults(queries[i])]
    /\ UNCHANGED <<recVars, markers, archived, polled>>

-----------------------------------------------------------------------------
(* Values are tuples of characters or numbers, Nil is a missing one.       *)
ValueOf(r, f) ==
    CASE f = "Id"    -> <<r>>
      [] f = "Stamp" -> <<stamp[r]>>
      [] f = "End"   -> IF ended[r] = 0 THEN Nil ELSE <<ended[r]>>
      [] OTHER       -> Text[r][f]

(* A row of the result: the selected fields under the object's own names.  *)
Row(q, r) == [f \in SelectedFields(q) |-> ValueOf(r, f)]

Lookup(row, name) == IF name \in DOMAIN row THEN row[name] ELSE Nil

(* The window is on the end field when one is configured; a record without *)
(* a value there is not found.                                             *)
Found(q) ==
    LET field == IF q.endTimestamp = Empty THEN q.timestamp ELSE q.endTimestamp
    IN  {r \in Records : ValueOf(r, Canonical[field]) # Nil}

(* Mutant: the values are joined without their lengths.                    *)
JoinedCustomId(row, customId) ==
    IF customId = <<>> \/ \E i \in DOMAIN customId : customId[i] \notin DOMAIN row
    THEN Nil
    ELSE FlattenSeq([i \in DOMAIN customId |-> row[customId[i]]])

(* The values of the customId fields, each with its length; a field that   *)
(* is missing leaves the row without an ID.                                *)
BuildCustomId(row, customId) ==
    IF customId = <<>> \/ \E i \in DOMAIN customId : customId[i] \notin DOMAIN row
    THEN Nil
    ELSE FlattenSeq([i \in DOMAIN customId |-> <<Len(row[customId[i]])>> \o row[customId[i]]])

RowId(q, row) ==
    IF Lookup(row, "Id") # Nil THEN Lookup(row, "Id") ELSE BuildCustomId(row, q.customId)

VersionOf(q, row) ==
    <<Lookup(row, q.timestamp)>> \o
    (IF q.endTimestamp = Empty THEN <<>> ELSE <<Lookup(row, q.endTimestamp)>>)

CustomEventId(q, row) ==
    IF RowId(q, row) = Nil THEN Nil ELSE <<RowId(q, row), VersionOf(q, row)>>

(* Mutant: queries on the same object share their markers.                 *)
ObjectHash(q) == <<q.timestamp>>

(* What identifies a configured query; the select list is a set.           *)
QueryHash(q) ==
    <<SelectedFields(q), q.where, q.timestamp, q.endTimestamp, q.apiName>>

RowDedupKey(q, row) ==
    IF RowId(q, row) = Nil THEN Nil ELSE <<QueryHash(q), RowId(q, row), VersionOf(q, row)>>

(* buildCustomRecord: the row as it is archived.                           *)
BuildCustomRecord(q, row) == [row |-> row, id |-> CustomEventId(q, row)]

-----------------------------------------------------------------------------
(* collectCustomQuery of query i: rows with a marker are skipped.  The     *)
(* upload may fail, markers may fail to be stored, and the process may     *)
(* stop between the two.                                                   *)
Collect(i) ==
    LET q    == queries[i]
        rows == {Row(q, r) : r \in Found(q)}
        new  == {row \in rows : RowDedupKey(q, row) \notin markers}
        keys == {RowDedupKey(q, row) : row \in new} \ {Nil}
    IN  /\ up = "running"
        /\ archived' = archived \union {BuildCustomRecord(q, row) : row \in new}
        /\ \/ /\ \E stored \in SUBSET keys : markers' = markers \union stored
              /\ polled' = [polled EXCEPT ![i] = TRUE]
           \/ UNCHANGED <<markers, polled>>
        /\ UNCHANGED <<queries, up, recVars>>

Update(r) ==
    /\ stamp[r] < MaxStamp
    /\ stamp' = [stamp EXCEPT ![r] = @ + 1]
    /\ \/ ended' = [ended EXCEPT ![r] = stamp'[r]]
       \/ UNCHANGED ended
    /\ polled' = [i \in 1..2 |-> FALSE]
    /\ UNCHANGED <<queries, up, markers, archived>>

(* Markers expire with the cache's TTL.                                    *)
MarkerExpires ==
    /\ \E k \in markers : markers' = markers \ {k}
    /\ UNCHANGED <<queries, up, recVars, archived, polled>>

RowNext ==
    \/ Start \/ MarkerExpires
    \/ \E r \in Records : Update(r)
    \/ \E i \in 1..2 : Collect(i)

RowSpec == RowInit /\ [][RowNext]_rowVars

-----------------------------------------------------------------------------
(* A configured timestamp field is written the way the object names it.    *)
Spelled(q) == \A n \in {q.timestamp, q.endTimestamp} \ {Empty} : Canonical[n] = n

(* A query that completed has archived the current version of every record *)
(* it can select, with all the fields it selects, whatever the other query *)
(* on the same object marked before (rowDedupKey, queryHash).              *)
EveryVersionArchived ==
    up = "running" =>
        \A i \in 1..2 : Spelled(queries[i]) /\ polled[i] =>
            \A r \in Found(queries[i]) : \E a \in archived : a.row = Row(queries[i], r)

(* Rows of one query that differ in the record or in the times they were   *)
(* selected on never share an event_id, so that de-duplication downstream  *)
(* keeps all of them (customEventId, buildCustomId).                       *)
EventIdsDistinct ==
    up = "running" /\ Spelled(queries[1]) /\ Spelled(queries[2]) =>
        \A a, b \in archived :
            a.id = b.id /\ a.id # Nil /\ DOMAIN a.row = DOMAIN b.row => a.row = b.row

(* Neither markers nor event IDs confuse two rows, two versions of a row   *)
(* or two queries (rowDedupKey, queryHash, customEventId).                 *)
RowsToldApart == RowTypeOK /\ EveryVersionArchived /\ EventIdsDistinct

=============================================================================
