---------------------------- MODULE FieldValues -----------------------------
(***************************************************************************)
(* What becomes of the value of one field on its way from a request to a   *)
(* column and back: the rules of the validator of inputs, the columns of   *)
(* the table, what each store binds and reads, the published contracts     *)
(* (OpenAPI, TypeScript, protobuf) and the wire format of gRPC.            *)
(*                                                                         *)
(* A JSON value is known by what the code can tell of it.  "text" is a     *)
(* string in the syntax of the field's type (a UUID, an allowed value, an  *)
(* address when a format is declared), "odd_text" is one that is not,      *)
(* "long_text" and "big_int" are above the declared max, and "odd_list"    *)
(* has an element that is an odd text.                                     *)
(***************************************************************************)
EXTENDS Validator

Texts == {"text", "odd_text", "long_text"}
Ints == {"int", "big_int"}
Lists == {"list", "odd_list"}
Values == Texts \union Ints \union Lists \union {"fraction", "bool", "object", "null"}
Missing == {"absent", "null"}

TextTypes == {"string", "enum", "file"}
TimeTypes == {"timestamp", "date"}

\* what a stored value can be besides what was sent: a value the store made, the declared
\* default, the zero of the type, and the JSON text of something that was not a string
Stored == Values \union {"made", "default", "zero", "as_text"}

-----------------------------------------------------------------------------
(* handlers/validate.rs *)

check_item_rules(i, v) == Broken({
    <<"too_long", i.type \in {"string", "enum"} /\ i.max /\ v = "long_text">>,
    <<"too_large", i.type \in {"integer", "number"} /\ i.max /\ v = "big_int">>,
    <<"invalid_enum", i.type = "enum" /\ i.values /\ v \in Texts \ {"text"}>>,
    <<"invalid_uuid", i.type = "uuid" /\ v \in Texts \ {"text"}>>,
    <<"invalid_format", i.format /\ v = "odd_text">>})

OddElements(v) == IF v = "odd_list" THEN {"odd_text"} ELSE {}

check_field_rules(f, v) ==
    LET items == IF f.type = "array" THEN f.items ELSE {} IN
    check_item_rules(f, v)
      \union Broken({<<"invalid_type", items # {} /\ v \notin Lists>>})
      \union UNION {check_item_rules(i, e) : i \in items, e \in OddElements(v)}

Given(f, v) == ~f.generated /\ ~f.primary /\ v \notin Missing

validate_input_shape(f, v) == IF Given(f, v) THEN check_field_rules(f, v) ELSE {}

\* before is what the request held before the controller ran
InjectedUncheckedMutant(f, v, before) ==
    IF ~f.generated /\ ~f.primary /\ f.required /\ ~f.default /\ v \in Missing THEN {"required"}
    ELSE {}

validate_required_present(f, v, before) ==
    IF ~f.generated /\ ~f.primary /\ f.required /\ ~f.default /\ v \in Missing THEN {"required"}
    ELSE IF Given(f, v) /\ before = "absent" THEN check_field_rules(f, v)
    ELSE {}

\* known: the rows that the elements refer to exist
validate_item_references(f, v, known) ==
    Broken({<<"invalid_reference",
              /\ \E i \in f.items : i.type = "uuid" /\ i.ref = "dotted"
              /\ v \in Lists /\ ~known>>})

strip_transient_fields(f, v) == IF f.transient THEN "absent" ELSE v

-----------------------------------------------------------------------------
(* db/query.rs: the columns of the tables *)

field_type_to_sql(f) ==
    CASE f.type = "string" -> IF f.max THEN "varchar" ELSE "text"
      [] f.type \in {"enum", "file"} -> "text"
      [] f.type = "integer" -> "bigint"
      [] f.type = "number" -> "numeric"
      [] f.type = "timestamp" -> "timestamptz"
      [] f.type = "json" -> "jsonb"
      [] OTHER -> f.type                         \* uuid, boolean, date, array

NeverNotNullMutant(f) == FALSE

NotNull(f) == f.required /\ ~f.primary /\ ~f.nullable

\* the constraints of the column: known, the row that a ref names exists
Constraints(f, v, known) ==
    /\ v = "null" => ~NotNull(f)
    /\ f.type = "enum" /\ f.values => v \in {"text", "default", "null"}
    /\ f.ref = "dotted" /\ v \notin {"null", "made"} => known

build_create_table_sql_postgres(f, v, known) ==
    /\ Constraints(f, v, known)
    /\ field_type_to_sql(f) = "varchar" => v # "long_text"

build_create_table_sql_sqlite(f, v, known) == Constraints(f, v, known)

\* what a column that the INSERT leaves out holds
ColumnDefault(f) ==
    IF f.generated /\ f.type \in TimeTypes \union {"uuid"} THEN "made"
    ELSE IF f.default THEN "default" ELSE "null"

-----------------------------------------------------------------------------
(* What the stores make of a value *)

AsText(v) == IF v \in Texts \union {"default"} THEN v ELSE "as_text"
Or(set, v, otherwise) == IF v \in set \union {"default"} THEN v ELSE otherwise

\* ResourceQuery: the type and the value of the parameter
json_to_bind(f, v) == IF v = "null" THEN <<"text", v>> ELSE
    CASE f.type = "uuid" ->
            IF v \in {"text", "default"} THEN <<"uuid", v>> ELSE <<"text", AsText(v)>>
      [] f.type \in TextTypes -> <<"text", AsText(v)>>
      [] f.type = "integer" -> <<"bigint", Or(Ints, v, "zero")>>
      [] f.type = "number" -> <<"float8", Or(Ints \union {"fraction"}, v, "zero")>>
      [] f.type = "boolean" -> <<"boolean", Or({"bool"}, v, "zero")>>
      [] f.type = "timestamp" -> <<"timestamptz", Or({"text"}, v, "made")>>
      [] f.type = "date" -> <<"date", Or({"text"}, v, "made")>>
      [] OTHER -> <<"jsonb", v>>

\* the store through sea-orm
WholeNumbersMutant(f, v) == IF v = "null" THEN v ELSE
    CASE f.type \in TextTypes \union TimeTypes \union {"uuid"} -> AsText(v)
      [] f.type \in {"integer", "number"} -> Or(Ints, v, "zero")
      [] f.type = "boolean" -> Or({"bool"}, v, "zero")
      [] OTHER -> v

json_to_sea_value(f, v) == IF v = "null" THEN v ELSE
    CASE f.type \in TextTypes \union TimeTypes \union {"uuid"} -> AsText(v)
      [] f.type = "integer" -> Or(Ints, v, "zero")
      [] f.type = "number" -> Or(Ints \union {"fraction"}, v, "zero")
      [] f.type = "boolean" -> Or({"bool"}, v, "zero")
      [] OTHER -> v

\* MongoDB: the BSON type and the value
json_to_bson(f, v) == IF v = "null" THEN <<"null", v>> ELSE
    CASE f.type = "json" -> <<IF v \in {"object", "default"} THEN "object" ELSE "other", v>>
      [] f.type = "array" -> IF v \in Lists \union {"default"} THEN <<"array", v>>
                             ELSE <<"null", "null">>
      [] f.type = "integer" -> <<"long", Or(Ints, v, "zero")>>
      [] f.type = "number" -> <<"double", Or(Ints \union {"fraction"}, v, "zero")>>
      [] f.type = "boolean" -> <<"bool", Or({"bool"}, v, "zero")>>
      [] OTHER -> <<"string", AsText(v)>>

field_type_to_bson_type(type) ==
    CASE type = "integer" -> "long"
      [] type = "number" -> "double"
      [] type = "boolean" -> "bool"
      [] type = "json" -> "object"
      [] type = "array" -> "array"
      [] OTHER -> "string"

\* the validator of the collection: b is what json_to_bson made
build_json_schema(f, b) ==
    /\ b[1] = field_type_to_bson_type(f.type)
    /\ f.values => b[2] \in {"text", "default"}
    /\ f.max => IF f.type \in TextTypes THEN b[2] # "long_text" ELSE b[2] # "big_int"

\* the generated module: whether serde makes a value of query_type(f) of v
query_type(f, v) ==
    CASE f.type \in {"uuid", "timestamp", "date"} -> v = "text"
      [] f.type \in TextTypes -> v \in Texts
      [] f.type = "integer" -> v \in Ints
      [] f.type = "number" -> v \in Ints \union {"fraction"}
      [] f.type = "boolean" -> v = "bool"
      [] f.type = "array" -> v \in (IF \A i \in f.items : i.type \in TextTypes THEN Lists ELSE {"list"})
      [] OTHER -> TRUE

model_field_is_optional(f) ==
    f.nullable \/ ~(f.primary \/ f.required \/ f.generated \/ f.default)

generated_value_expression(f) ==
    IF f.type \in TimeTypes \union {"uuid"} THEN "made" ELSE "zero"

-----------------------------------------------------------------------------
(* The published contracts: the values they allow *)

OddConforms(i) == i.type \in {"string", "file"} /\ ~i.format

field_schema_to_openapi(f) ==
    CASE f.type \in TimeTypes \union {"uuid", "enum"} -> {"text"}
      [] f.type \in {"string", "file"} -> Texts \ ((IF f.format THEN {"odd_text"} ELSE {})
                                         \union (IF f.max /\ f.type = "string" THEN {"long_text"} ELSE {}))
      [] f.type = "integer" -> IF f.max THEN {"int"} ELSE Ints
      [] f.type = "number" -> {"fraction"} \union (IF f.max THEN {"int"} ELSE Ints)
      [] f.type = "boolean" -> {"bool"}
      [] f.type = "json" -> {"object"}
      [] f.type = "array" -> IF \A i \in f.items : OddConforms(i) THEN Lists ELSE {"list"}

build_input_schema(f, v, is_create) ==
    IF v = "absent" THEN ~(is_create /\ f.required) ELSE v \in field_schema_to_openapi(f)

\* the values of a property of a response, and whether it may be missing
build_resource_schema(f) ==
    [allowed |-> field_schema_to_openapi(f), required |-> f.required /\ ~f.generated]

openapi_type_to_ts(f) ==
    CASE f.type \in TextTypes \union TimeTypes \union {"uuid"} -> Texts
      [] f.type \in {"integer", "number"} -> Ints \union {"fraction"}
      [] f.type = "boolean" -> {"bool"}
      [] f.type = "array" -> Lists
      [] f.type = "json" -> {"object"}

-----------------------------------------------------------------------------
(* gRPC: the wire type and the value of a field of a message *)

field_type_to_proto(type) ==
    CASE type = "integer" -> "int64"
      [] type = "number" -> "double"
      [] type = "boolean" -> "bool"
      [] type \in {"timestamp", "json", "array"} -> "message"
      [] OTHER -> "string"

\* what a client generated from the .proto file can send, what it writes and what it reads
ClientSends(f) == {"absent"} \union
    CASE field_type_to_proto(f.type) = "int64" -> Ints
      [] field_type_to_proto(f.type) = "double" -> Ints \union {"fraction"}
      [] field_type_to_proto(f.type) = "bool" -> {"bool"}
      [] OTHER -> Texts

ClientWrites(f, v) ==
    LET p == field_type_to_proto(f.type) IN
    IF v \in Missing THEN <<"none", v>> ELSE
    CASE p \in {"int64", "bool"} -> <<"varint", v>>
      [] p = "double" -> <<"64bit", v>>
      [] p = "string" -> <<"len", v>>
      [] OTHER -> <<"len", "message">>

ClientReads(f, w) ==
    LET p == field_type_to_proto(f.type) IN
    IF \/ w[1] = "varint" /\ p \in {"int64", "bool"}
       \/ w[1] = "64bit" /\ p = "double"
       \/ w[1] = "len" /\ p = "string"
    THEN w[2] ELSE "absent"

encode_field(f, v) == IF v = "null" THEN <<"none", v>> ELSE
    CASE f.type = "integer" /\ v \in Ints -> <<"varint", v>>
      [] f.type = "number" /\ v \in Ints \union {"fraction"} -> <<"64bit", v>>
      [] f.type = "boolean" /\ v = "bool" -> <<"varint", v>>
      [] OTHER -> <<"len", v>>

decode_resource_message(w) ==
    IF w[1] = "none" THEN "absent"
    ELSE IF w[2] = "message" THEN "odd_text"
    ELSE w[2]
=============================================================================
