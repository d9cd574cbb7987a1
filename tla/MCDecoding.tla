----------------------------- MODULE MCDecoding -----------------------------
(***************************************************************************)
(* From a response to the buffer: the subscriber that decodes events while *)
(* schemas and logins fail (EventDecoder), and what the decoder makes of   *)
(* one event (AvroFlatten).  A behaviour runs one of the two.              *)
(***************************************************************************)
EXTENDS EventDecoder, AvroFlatten

CONSTANTS s1, s2

VARIABLE part  \* the component that runs

all == <<part, vars, flattenVars>>

TwoSchemas == [e \in Events |-> IF e = 2 THEN s2 ELSE s1]
LastEvent  == {NumEvents}
NoSchemas  == {}

-----------------------------------------------------------------------------
(* Event schemas with one field of every type up to two levels deep.       *)
Node(node, name, ns, logical, parts, fields) ==
    [node |-> node, name |-> name, ns |-> ns, logical |-> logical, parts |-> parts, fields |-> fields]

Named(n)        == Node("name", Local(n), "", "", <<>>, <<>>)
Logical(n, l)   == Node("logical", Local(n), "", l, <<>>, <<>>)
Union(parts)    == Node("union", Local(""), "", "", parts, <<>>)
Optional(x)     == Union(<<Named("null"), x>>)
ArrayOf(x)      == Node("array", Local(""), "", "", <<x>>, <<>>)
MapOf(x)        == Node("map", Local(""), "", "", <<x>>, <<>>)
Enum            == Node("enum", Local("Kind"), "other", "", <<>>, <<>>)
Inner(x)        == Node("record", Local("Inner"), "", "", <<x>>, <<"f">>)

Leaves == {Named("string"), Logical("long", "timestamp"), Logical("int", "date"), Enum}

Level1 ==
    {Optional(x) : x \in Leaves} \union {ArrayOf(x) : x \in Leaves} \union {MapOf(x) : x \in Leaves}
        \union {Inner(Named("string")), Union(<<Named("string"), MapOf(Named("string"))>>),
                Inner(Optional(Named("string")))}

Plain1 == {x \in Level1 : x.node # "union"}

Level2 ==
    {Optional(x) : x \in Plain1} \union {ArrayOf(x) : x \in Level1} \union {MapOf(x) : x \in Level1}

(* The identifier and the date come first, the rest after them; the last   *)
(* field refers to the record type by its name when the body defines it.   *)
Event(idName, id, dateName, date, body) ==
    Node("record", <<"com.sforce", "LoginEventStream">>, "", "",
         <<id, date, body>> \o (IF body.node = "record" THEN <<Optional(Named("Inner"))>> ELSE <<>>),
         <<idName, dateName, "body", "again">>)

EventSchemas ==
    {Event("EventUuid", Optional(Named("string")), "EventDate", Logical("long", "timestamp"), b)
        : b \in Leaves \union Level1 \union Level2}
    \union {Event(i, x, d, y, Named("string")) :
               i \in {"EventUuid", "EventIdentifier"}, x \in {Named("string"), Optional(Named("string"))},
               d \in {"EventDate", "CreatedDate"},
               y \in {Named("long"), Optional(Named("long")), Logical("long", "timestamp"),
                      Optional(Logical("long", "timestamp"))}}

Keys == {Local("string"), Local("k")}

-----------------------------------------------------------------------------
NothingToFlatten == root = <<>> /\ datum = <<>> /\ record = NoRecord

MCInit ==
    /\ Init
    /\ \/ part = "decoder" /\ NothingToFlatten
       \/ part = "flatten" /\ FlattenInit

InDecoder(A) == part = "decoder" /\ A /\ UNCHANGED <<part, flattenVars>>
InFlatten(A) == part = "flatten" /\ A /\ UNCHANGED <<part, vars>>

MCNext == InDecoder(Next) \/ InFlatten(FlattenNext)

(* The collector runs, the schema service comes back, and responses and    *)
(* keepalives take turns, so that Receive and the flush timer are not      *)
(* passed over for ever.                                                   *)
Fairness ==
    /\ WF_all(InDecoder(SchemaServiceBack))
    /\ WF_all(InDecoder(Login \/ HaveLogin \/ Subscribe \/ Rejected \/ Backoff))
    /\ WF_all(InDecoder(DecodeEvent \/ DecodeSchemaFails \/ ResponseDone))
    /\ SF_all(InDecoder(Receive)) /\ SF_all(InDecoder(FlushTimer))

MCSpec == MCInit /\ [][MCNext]_all /\ Fairness
=============================================================================
