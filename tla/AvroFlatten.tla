---------------------------- MODULE AvroFlatten ----------------------------
(***************************************************************************)
(* What becomes of an event's fields: the Avro library decodes a payload   *)
(* into native values in which a union is a map from the branch's name to  *)
(* the value, the Flattener takes these wrappers out again with the help   *)
(* of the schema, and the subscriber reads the record's identifier and     *)
(* time from the result.                                                   *)
(*                                                                         *)
(* A name is a pair of a namespace and a name, and so is every key of a    *)
(* map, so that a field, a union branch and a map key can be compared.     *)
(* Values carry the Go type the code switches on.                          *)
(***************************************************************************)
EXTENDS Integers, Sequences, FiniteSets, SequencesExt

CONSTANTS Schemas,   \* parsed JSON of the schemas under consideration
          MapKeys    \* keys of Avro maps

Nil      == [go |-> "nil"]
Str(s)   == [go |-> "string", v |-> s]
Int64(n) == [go |-> "int64", v |-> n]
Time(n)  == [go |-> "time", v |-> n]         \* microseconds
Arr(s)   == [go |-> "slice", v |-> s]
Obj(m)   == [go |-> "map", v |-> m]
Err      == [go |-> "error"]

Local(n) == <<"", n>>

Primitives == {"null", "boolean", "int", "long", "float", "double", "bytes", "string"}

-----------------------------------------------------------------------------
(* The schema.  A parsed type has a kind ("" for a reference), a name for  *)
(* named types and references, a logical type, and its parts: the types of *)
(* a record's fields, of an array's items, of a map's values, of a union's *)
(* branches.                                                               *)
avroType(kind, name, logical, parts, fields) ==
    [kind |-> kind, name |-> name, logical |-> logical, parts |-> parts, fields |-> fields]

fullName(name, ns) ==
    IF name[2] = "" \/ name[1] # "" \/ ns = "" THEN name ELSE <<ns, name[2]>>

(* The namespace a node's children are read in.                            *)
InnerNamespace(raw, ns) ==
    IF raw.node \notin {"record", "enum", "array", "map"} THEN ns
    ELSE LET own == IF raw.ns # "" THEN raw.ns ELSE ns
         IN IF raw.node = "record" /\ fullName(raw.name, own)[1] # ""
            THEN fullName(raw.name, own)[1] ELSE own

RECURSIVE parse(_, _)
parse(raw, ns) ==
    LET inner == InnerNamespace(raw, ns)
        parts == [i \in DOMAIN raw.parts |-> parse(raw.parts[i], inner)]
    IN CASE raw.node = "name" ->
              IF raw.name[1] = "" /\ raw.name[2] \in Primitives
              THEN avroType(raw.name[2], Local(""), "", <<>>, <<>>)
              ELSE avroType("", fullName(raw.name, ns), "", <<>>, <<>>)
         [] raw.node = "logical" -> avroType(raw.name[2], Local(""), raw.logical, <<>>, <<>>)
         [] raw.node = "union"   -> avroType("union", Local(""), "", parts, <<>>)
         [] raw.node = "record"  ->
              avroType("record", fullName(raw.name, IF raw.ns # "" THEN raw.ns ELSE ns), "", parts, raw.fields)
         [] raw.node = "enum"    -> avroType("enum", fullName(raw.name, inner), "", <<>>, <<>>)
         [] OTHER                -> avroType(raw.node, Local(""), "", parts, <<>>)

(* The types parse enters under their names.                               *)
RECURSIVE named(_)
named(t) ==
    (IF t.kind \in {"record", "enum"} THEN {t} ELSE {})
        \union UNION {named(t.parts[i]) : i \in DOMAIN t.parts}

(* A reference is looked up by its full name, then as an unqualified name  *)
(* of any namespace, and stays as it is when nothing fits.                 *)
resolve(types, t) ==
    IF t.kind # "" THEN t
    ELSE LET exact == {n \in types : n.name = t.name}
             suffix == {n \in types : t.name[1] = "" /\ n.name[1] # "" /\ n.name[2] = t.name[2]}
         IN CASE exact # {}  -> CHOOSE n \in exact : TRUE
              [] exact = {} /\ suffix # {} -> CHOOSE n \in suffix : TRUE
              [] OTHER       -> t

branchName(t) ==
    IF t.kind \in {"record", "enum"} THEN t.name
    ELSE IF t.logical # "" THEN <<t.kind, t.logical>> ELSE Local(t.kind)

-----------------------------------------------------------------------------
(* The library: what it hands over for a datum, beside the datum itself as *)
(* JSON would show it.  A null branch is not wrapped.                      *)
UnixMilli(us) == us \div 1000

RECURSIVE Decoded(_, _)
Decoded(types, t0) ==
    LET t == resolve(types, t0)
        part(i) == Decoded(types, t.parts[i])
        branch(i) == IF t.parts[i].kind = "null" THEN {<<Nil, Nil>>}
                     ELSE {<<Obj(branchName(resolve(types, t.parts[i])) :> d[1]), d[2]>> : d \in part(i)}
    IN CASE t.kind = "union"  -> UNION {branch(i) : i \in DOMAIN t.parts}
         [] t.kind = "array"  -> {<<Arr(<<>>), Arr(<<>>)>>}
                                  \union {<<Arr(<<d[1], e[1]>>), Arr(<<d[2], e[2]>>)>> : d, e \in part(1)}
         [] t.kind = "map"    -> {<<Obj(k :> d[1]), Obj(k :> d[2])>> : k \in MapKeys, d \in part(1)}
         [] t.kind = "record" ->
              LET data == {f \in [DOMAIN t.parts -> UNION {part(i) : i \in DOMAIN t.parts}] :
                              \A i \in DOMAIN f : f[i] \in part(i)}
                  shape(f, n) == [k \in {Local(t.fields[i]) : i \in DOMAIN t.parts} |->
                                     f[CHOOSE i \in DOMAIN t.parts : Local(t.fields[i]) = k][n]]
              IN {<<Obj(shape(f, 1)), Obj(shape(f, 2))>> : f \in data}
         [] t.kind = "long" /\ t.logical = "timestamp" -> {<<Time(n), Int64(UnixMilli(n))>> : n \in {2500, 4000}}
         [] t.kind = "int" /\ t.logical = "date" -> {<<Time(0), Str("1970-01-01")>>}
         [] t.kind = "long"   -> {<<Int64(7), Int64(7)>>}
         [] OTHER             -> {<<Str("s"), Str("s")>>}

-----------------------------------------------------------------------------
(* Mutant: times stay as they are.                                         *)
ConvertKeepsTime(t, v) == v

(* Primitives and logical types.                                           *)
Convert(t, v) ==
    CASE v.go = "time" /\ t.logical = "date" -> Str("1970-01-01")
      [] v.go = "time" /\ t.logical # "date" -> Int64(UnixMilli(v.v))
      [] OTHER -> v

(* Mutant: whatever looks like a union is unwrapped.                       *)
RECURSIVE ValueGuess(_, _, _)
ValueGuess(types, t0, v) ==
    CASE v.go = "map" /\ \E k \in DOMAIN v.v : DOMAIN v.v = {k} /\ k[2] \in Primitives ->
            ValueGuess(types, t0, v.v[CHOOSE k \in DOMAIN v.v : TRUE])
      [] v.go = "map" /\ ~\E k \in DOMAIN v.v : DOMAIN v.v = {k} /\ k[2] \in Primitives ->
            Obj([k \in DOMAIN v.v |-> ValueGuess(types, t0, v.v[k])])
      [] v.go = "slice" -> Arr([i \in DOMAIN v.v |-> ValueGuess(types, t0, v.v[i])])
      [] OTHER -> Convert(t0, v)

RECURSIVE value(_, _, _)
value(types, t0, v) ==
    LET t == resolve(types, t0)
        whole(conv, out) == IF \E x \in DOMAIN conv : conv[x] = Err THEN Err ELSE out
    IN CASE v = Nil -> Nil
         [] v # Nil /\ t.kind = "union" ->
              IF v.go # "map" \/ Cardinality(DOMAIN v.v) # 1 THEN Err
              ELSE LET key  == CHOOSE k \in DOMAIN v.v : TRUE
                       fits == {i \in DOMAIN t.parts : branchName(resolve(types, t.parts[i])) = key}
                   IN IF fits = {} THEN Err
                      ELSE value(types, t.parts[CHOOSE i \in fits : \A j \in fits : i <= j], v.v[key])
         [] v # Nil /\ t.kind = "record" ->
              IF v.go # "map" THEN Err
              ELSE LET index(k) == CHOOSE i \in DOMAIN t.fields : Local(t.fields[i]) = k
                       keys == {Local(t.fields[i]) : i \in DOMAIN t.fields} \intersect DOMAIN v.v
                       conv == [k \in keys |-> value(types, t.parts[index(k)], v.v[k])]
                   IN whole(conv, Obj(conv))
         [] v # Nil /\ t.kind = "array" ->
              IF v.go # "slice" THEN Err
              ELSE LET conv == [i \in DOMAIN v.v |-> value(types, t.parts[1], v.v[i])]
                   IN whole(conv, Arr(conv))
         [] v # Nil /\ t.kind = "map" ->
              IF v.go # "map" THEN Err
              ELSE LET conv == [k \in DOMAIN v.v |-> value(types, t.parts[1], v.v[k])]
                   IN whole(conv, Obj(conv))
         [] OTHER -> Convert(t, v)

(* The schema's root must be a record.                                     *)
Flatten(root, native) ==
    LET out == value(named(root), root, native)
    IN IF out.go = "map" THEN out ELSE Err

(* The first of names whose field has a value of the wanted Go type.       *)
FirstField(fields, names, go) ==
    LET has(n) == Local(n) \in DOMAIN fields.v /\ fields.v[Local(n)].go = go
        hits == SelectSeq(names, has)
    IN IF hits = <<>> THEN Nil ELSE fields.v[Local(Head(hits))]

streamEventId(fields)  == FirstField(fields, <<"EventUuid", "EventIdentifier">>, "string")

(* Nil stands for the time of decoding.                                    *)
eventTimestamp(fields) == FirstField(fields, <<"EventDate", "CreatedDate">>, "int64")

-----------------------------------------------------------------------------
VARIABLES root,    \* the parsed schema
          datum,   \* what the library returns, and the event as it was published
          record   \* the record of the event, once decoded

flattenVars == <<root, datum, record>>

NoRecord == [done |-> FALSE, payload |-> Err, id |-> Nil, at |-> Nil]

FlattenInit ==
    /\ \E raw \in Schemas : root = parse(raw, "")
    /\ datum \in Decoded(named(root), root)
    /\ record = NoRecord

(* decode: the event becomes a record.                                     *)
decode ==
    /\ ~record.done
    /\ LET fields == Flatten(root, datum[1])
       IN record' = [done |-> TRUE, payload |-> fields,
                     id |-> IF fields = Err THEN Nil ELSE streamEventId(fields),
                     at |-> IF fields = Err THEN Nil ELSE eventTimestamp(fields)]
    /\ UNCHANGED <<root, datum>>

FlattenNext == decode

FlattenSpec == FlattenInit /\ [][FlattenNext]_flattenVars

-----------------------------------------------------------------------------
(* The archived payload is the event as it was published: no wrapper is    *)
(* left, no map is taken for a wrapper, no field is lost (Flatten).        *)
PayloadKept == record.done => record.payload = datum[2]

(* An event that carries an identifier and a date keeps them as the        *)
(* record's, however its schema wraps them (streamEventId, eventTimestamp).*)
IdentityKept ==
    record.done =>
        LET published(n) == IF Local(n) \in DOMAIN datum[2].v THEN datum[2].v[Local(n)] ELSE Nil
        IN /\ \A n \in {"EventUuid", "EventIdentifier"} :
                published(n) # Nil => record.id # Nil
           /\ published("EventUuid") # Nil => record.id = published("EventUuid")
           /\ published("EventDate") # Nil => record.at = published("EventDate")
           /\ published("EventDate") = Nil => record.at = published("CreatedDate")

(* The record is the event: its payload, its identifier and its date.      *)
FlattenFaithful == PayloadKept /\ IdentityKept

=============================================================================
