--------------------------- MODULE ToolArguments ---------------------------
(***************************************************************************)
(* The repair of the arguments a model calls a tool with                    *)
(* (_normalize_tool_arguments of server/responses.py): what the tool's JSON *)
(* schema wants and the model wrote as a string is read out of the string.  *)
(*                                                                         *)
(* A string stands for what it reads as: a value, one of the words a model  *)
(* writes for nothing, or prose.                                           *)
(***************************************************************************)
EXTENDS Naturals, Sequences

Value(type) == [type |-> type]
Str(reads) == [type |-> "string", reads |-> reads]
JsonObject(fields) == [type |-> "object", fields |-> fields]
JsonArray(items) == [type |-> "array", items |-> items]

\* Schemas: of one type, of a choice of types, of objects, of arrays, unions of
\* schemas and, for what is no schema, anything.
Schema(type) == [kind |-> "type", types |-> <<type>>]
OneOfTypes(types) == [kind |-> "type", types |-> types]
ObjectSchema(properties, required) ==
  [kind |-> "object", types |-> <<"object">>, properties |-> properties, required |-> required]
ArraySchema(items) == [kind |-> "array", types |-> <<"array">>, items |-> items]
Union(branches) == [kind |-> "union", branches |-> branches]

\* _matches_json_type
IsOf(value, type) ==
  CASE type = "number" -> value.type \in {"number", "integer"}
    [] OTHER -> value.type = type

\* _matches_schema_type: a union says nothing of the type.
Matches(value, schema) ==
  schema.kind = "union" \/ \E i \in DOMAIN schema.types : IsOf(value, schema.types[i])

\* _is_textual_null
SaysNothing(value) == value.type = "string" /\ value.reads.type \in {"null", "none"}

\* The type the schema is taken to want: of a choice, the first the value has, or
\* else the first that is not null.
Expected(value, schema) ==
  LET first(P(_)) == schema.types[CHOOSE i \in DOMAIN schema.types :
                       P(schema.types[i]) /\ \A j \in 1 .. i - 1 : ~P(schema.types[j])]
  IN  IF Matches(value, schema) THEN first(LAMBDA type : IsOf(value, type))
      ELSE IF \E i \in DOMAIN schema.types : schema.types[i] # "null"
      THEN first(LAMBDA type : type # "null")
      ELSE "null"

\* _parse_structured_string
Structured(value, type) ==
  IF value.type = "string" /\ value.reads.type = type THEN value.reads ELSE value

RECURSIVE Coerce(_, _)

\* Mutant: the first branch the value can be given the type of.
CoerceToUnionGreedily(value, branches) ==
  LET tried(i) == Coerce(value, branches[i])
      fitted == {i \in DOMAIN branches : Matches(tried(i), branches[i])}
  IN  IF fitted = {} THEN value ELSE tried(CHOOSE i \in fitted : \A j \in fitted : i <= j)

\* The first branch the value has the type of, or else the first it can be given
\* the type of.
CoerceToUnion(value, branches) ==
  LET tried(i) == Coerce(value, branches[i])
      fit == {i \in DOMAIN branches : Matches(value, branches[i])}
      fitted == {i \in DOMAIN branches : Matches(tried(i), branches[i])}
      first(I) == CHOOSE i \in I : \A j \in I : i <= j
  IN  IF fit # {} THEN tried(first(fit))
      ELSE IF fitted # {} THEN tried(first(fitted)) ELSE value

\* Optional properties that say nothing are left out.
CoerceFields(object, schema) ==
  LET fields == object.fields
      dropped == {key \in DOMAIN fields \cap DOMAIN schema.properties :
                    key \notin schema.required /\ SaysNothing(fields[key])}
  IN  JsonObject([key \in DOMAIN fields \ dropped |->
        IF key \in DOMAIN schema.properties THEN Coerce(fields[key], schema.properties[key])
        ELSE fields[key]])

\* A string read as a value of a primitive type.
ReadAs(value, type) ==
  IF value.type = "string" /\ type \in {"integer", "number", "boolean", "null"}
     /\ IsOf(value.reads, type)
  THEN value.reads ELSE value

\* _coerce_to_schema
Coerce(value, schema) ==
  IF schema.kind = "union" THEN CoerceToUnion(value, schema.branches)
  ELSE
  LET type == Expected(value, schema)
      read == Structured(value, type)
  IN  CASE type = "object" /\ read.type = "object" /\ schema.kind = "object" ->
             CoerceFields(read, schema)
        [] type = "array" /\ read.type = "array" /\ schema.kind = "array" ->
             JsonArray([i \in DOMAIN read.items |-> Coerce(read.items[i], schema.items)])
        [] type \in {"object", "array"} -> read
        [] OTHER -> ReadAs(value, type)

-----------------------------------------------------------------------------
(* Bounded inputs *)

Integer == Value("integer")

Plain ==
  {Value(type) : type \in {"integer", "number", "boolean", "null"}}
  \cup {Str(Value(type)) : type \in {"prose", "integer", "number", "boolean", "null", "none"}}

Keys == {"given", "left"}

Records(S) == UNION {[keys -> S] : keys \in SUBSET Keys}

Values ==
  LET flat == Plain \cup {JsonArray(<<v>>) : v \in Plain} \cup {JsonObject(r) : r \in Records(Plain)}
  IN  flat \cup {Str(v) : v \in {JsonArray(<<Str(Integer)>>), JsonObject([given |-> Str(Integer)])}}

PlainSchemas ==
  {Schema(type) : type \in {"integer", "number", "boolean", "string", "null"}}
  \cup {OneOfTypes(<<"integer", "null">>), OneOfTypes(<<"null", "string">>)}
  \cup {Union(<<Schema("integer"), Schema("string")>>), Union(<<Schema("number"), Schema("null")>>)}

Schemas ==
  LET objects == {ObjectSchema(properties, required) :
                   properties \in [Keys -> PlainSchemas], required \in {{}, {"given"}}}
      arrays == {ArraySchema(items) : items \in PlainSchemas}
  IN  PlainSchemas \cup objects \cup arrays
      \cup {Schema("object"), Union(<<ArraySchema(Schema("integer")), Schema("string")>>)}

-----------------------------------------------------------------------------
\* A value that needs no repair.
RECURSIVE Conforms(_, _)
Conforms(value, schema) ==
  CASE schema.kind = "union" -> \E i \in DOMAIN schema.branches : Conforms(value, schema.branches[i])
    [] schema.kind = "object" ->
         /\ value.type = "object" /\ schema.required \subseteq DOMAIN value.fields
         /\ \A key \in DOMAIN value.fields \cap DOMAIN schema.properties :
              Conforms(value.fields[key], schema.properties[key])
    [] schema.kind = "array" ->
         value.type = "array" /\ \A i \in DOMAIN value.items : Conforms(value.items[i], schema.items)
    [] OTHER -> Matches(value, schema)

\* A property that is left out because it says nothing.
LeavesOut(value, schema) ==
  /\ value.type = "object" /\ schema.kind = "object"
  /\ \E key \in DOMAIN value.fields \cap DOMAIN schema.properties :
       key \notin schema.required /\ SaysNothing(value.fields[key])

\* Repair mends what is broken and nothing else: arguments that conform to the
\* schema stay as they are, but for optional properties that say nothing, and what
\* was repaired once is not changed by a second repair, as happens to calls that
\* are told back and made again.  (Branches of a union differ in type.)
RepairsIfNeeded ==
  \A value \in Values, schema \in Schemas :
    /\ Conforms(value, schema) => Coerce(value, schema) = value \/ LeavesOut(value, schema)
    /\ Coerce(Coerce(value, schema), schema) = Coerce(value, schema)
=============================================================================
