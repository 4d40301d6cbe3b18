------------------------------- MODULE Fields -------------------------------
(***************************************************************************)
(* The life of one field of one row: created, updated and read through the *)
(* REST handlers and one of the four stores, or through gRPC.              *)
(*                                                                         *)
(* f is the declared field, store the store that serves the resource, key  *)
(* the type of the primary key, input says whether the endpoints list the  *)
(* field as input, leave it out of their lists, or have no list.  row is   *)
(* what the table holds and answer what the last request was told.         *)
(***************************************************************************)
EXTENDS FieldValues

CONSTANTS FieldDecls,           \* the declarations of the field
          ControllerSets        \* what a before controller may set the field to

VARIABLES f, store, key, input, row, unchecked, answer

\* the field is one of a table that has another field as its key
Described ==
    /\ \A d \in FieldDecls : d \in FieldSchemas /\ ~d.primary
    /\ ControllerSets \subseteq Values

vars == <<f, store, key, input, row, unchecked, answer>>
declared == <<f, store, key, input>>

PgStores == {"generated", "query"}
StoreNames == PgStores \union {"orm", "mongo"}
Rows == Stored \union {"none", "no_column"}
Statuses == {"none", "ok", "validation", "internal", "not_found"}

TypeOK ==
    /\ f \in FieldDecls /\ store \in StoreNames /\ key \in {"uuid", "string"}
    /\ input \in {"listed", "left_out", "no_list"}
    /\ row \in Rows /\ unchecked \in BOOLEAN
    /\ answer.status \in Statuses
    /\ answer.value \in Stored \union {"absent"} /\ answer.plain \in BOOLEAN

-----------------------------------------------------------------------------
(* What PostgreSQL and sqlx do *)

\* a parameter is only assigned to a column of its own type, a text to a varchar and a
\* float8 to a numeric
Assignable(bind, column) ==
    bind = column \/ <<bind, column>> \in {<<"text", "varchar">>, <<"float8", "numeric">>}

\* sqlx reads no f64 from a NUMERIC column and no JSON from an array
Decodable(column) == column \notin {"numeric", "array"}

-----------------------------------------------------------------------------
(* The stores: each write tells the status and what the table then holds *)

Out(status, r) == [status |-> status, row |-> r]
Column(v) == IF f.transient THEN "no_column" ELSE v

generated_insert(v, known) ==
    LET val == IF f.generated THEN generated_value_expression(f)
               ELSE IF v \notin Missing THEN v
               ELSE IF f.default THEN "default" ELSE "null"
    IN IF f.transient THEN Out("ok", "no_column")
       ELSE IF val \in Values \ {"null"} /\ ~query_type(f, val) THEN Out("validation", "none")
       ELSE IF val = "null" /\ ~model_field_is_optional(f) THEN Out("validation", "none")
       ELSE IF ~build_create_table_sql_postgres(f, val, known) THEN Out("internal", "none")
       ELSE Out("ok", val)

\* what INSERT leaves to the column, in the three stores that read the schema at run time
Omitted(v) ==
    IF f.generated THEN f.type \notin {"uuid", "timestamp"} ELSE v = "absent" /\ ~f.default

Supplied(v) == IF v = "absent" THEN "default" ELSE v

query_insert(v, known) ==
    LET column == field_type_to_sql(f)
        bind == IF Omitted(v) THEN <<column, ColumnDefault(f)>>
                ELSE IF f.generated THEN <<column, "made">>
                ELSE json_to_bind(f, Supplied(v))
    IN IF \/ f.transient                                   \* RETURNING names the field
          \/ ~Assignable(bind[1], column)
          \/ ~build_create_table_sql_postgres(f, bind[2], known)
       THEN Out("internal", "none")
       ELSE Out(IF bind[2] # "null" /\ ~Decodable(column) THEN "internal" ELSE "ok", bind[2])

orm_insert(v, known) ==
    LET val == IF Omitted(v) THEN ColumnDefault(f)
               ELSE IF f.generated THEN "made" ELSE json_to_sea_value(f, Supplied(v))
    IN IF f.transient \/ ~build_create_table_sql_sqlite(f, val, known) THEN Out("internal", "none")
       ELSE Out("ok", val)

mongo_insert(v) ==
    LET b == IF f.generated THEN <<"string", "made">> ELSE json_to_bson(f, Supplied(v))
    IN IF f.transient THEN Out("ok", "no_column")
       ELSE IF Omitted(v) THEN IF f.required /\ ~f.generated THEN Out("internal", "none")
                               ELSE Out("ok", "null")
       ELSE IF build_json_schema(f, b) THEN Out("ok", b[2])
       ELSE Out("internal", "none")

Insert(v, known) ==
    CASE store = "generated" -> generated_insert(v, known)
      [] store = "query" -> query_insert(v, known)
      [] store = "orm" -> orm_insert(v, known)
      [] store = "mongo" -> mongo_insert(v)

Readable(r) ==
    CASE store = "generated" -> r = "null" => model_field_is_optional(f)
      [] store = "query" ->
            ~f.transient /\ (r # "null" => Decodable(field_type_to_sql(f)))
      [] store = "orm" -> ~f.transient
      [] store = "mongo" -> TRUE

Read(r) == IF r = "no_column" THEN "absent" ELSE r

\* UPDATE
generated_update(v, known) ==
    IF f.generated \/ f.transient \/ v = "absent" THEN Out("ok", row)
    ELSE IF v # "null" /\ ~query_type(f, v) THEN Out("validation", row)
    ELSE IF build_create_table_sql_postgres(f, v, known) THEN Out("ok", v)
    ELSE Out("internal", row)

query_update(v, known) ==
    LET bind == json_to_bind(f, v) IN
    IF f.transient THEN Out("internal", row)
    ELSE IF f.generated \/ v = "absent" THEN Out("ok", row)
    ELSE IF /\ Assignable(bind[1], field_type_to_sql(f))
            /\ build_create_table_sql_postgres(f, bind[2], known)
    THEN Out("ok", bind[2]) ELSE Out("internal", row)

orm_update(v, known) ==
    IF f.transient THEN Out("internal", row)
    ELSE IF f.generated \/ v = "absent" THEN Out("ok", row)
    ELSE IF build_create_table_sql_sqlite(f, json_to_sea_value(f, v), known)
    THEN Out("ok", json_to_sea_value(f, v)) ELSE Out("internal", row)

mongo_update(v) ==
    IF f.generated \/ v = "absent" THEN Out("ok", row)
    ELSE IF build_json_schema(f, json_to_bson(f, v)) THEN Out("ok", json_to_bson(f, v)[2])
    ELSE Out("internal", row)

Update(v, known, other) ==
    IF ~other /\ (f.generated \/ v = "absent") THEN Out("validation", row)     \* empty_update
    ELSE CASE store = "generated" -> generated_update(v, known)
           [] store = "query" -> query_update(v, known)
           [] store = "orm" -> orm_update(v, known)
           [] store = "mongo" -> mongo_update(v)

-----------------------------------------------------------------------------
(* The REST handlers *)

extract_input_from_value(v) ==
    IF input = "listed" \/ (input = "no_list" /\ ~f.generated /\ ~f.primary) THEN v ELSE "absent"

\* plain: no controller changed the field and every row that it refers to exists
Answer(op, sent, plain, status, value) ==
    answer' = [op |-> op, sent |-> sent, plain |-> plain, status |-> status, value |-> value]

\* whether the rows that the field refers to exist, where it refers to any
Known == IF f.ref # "none" \/ (\E i \in f.items : i.ref # "none") THEN BOOLEAN ELSE {TRUE}

\* whether the body has another field of the resource: it matters when it lacks this one
Others(v) == IF v = "absent" THEN BOOLEAN ELSE {TRUE}

\* w is what the controller set the field to, "absent" when it left it alone
Controlled(v, w) == IF w = "absent" THEN v ELSE w

handle_create ==
    /\ row = "none" /\ key = "uuid"
    /\ \E v \in Values \union {"absent"}, w \in ControllerSets \union {"absent"}, known \in Known :
          LET data == extract_input_from_value(v)
              after == Controlled(data, w)
              plain == w = "absent" /\ known
              refused == \/ validate_input_shape(f, data) # {}
                         \/ validate_required_present(f, after, data) # {}
                         \/ validate_item_references(f, after, known) # {}
              out == Insert(strip_transient_fields(f, after), known)
          IN IF refused
             THEN /\ Answer("create", v, plain, "validation", "absent")
                  /\ UNCHANGED <<row, unchecked>>
             ELSE /\ row' = out.row
                  /\ unchecked' = (data # "absent" /\ w # "absent")
                  /\ Answer("create", v, plain, out.status,
                            IF out.status = "ok" THEN Read(out.row) ELSE "absent")
    /\ UNCHANGED declared

handle_update ==
    /\ row # "none" /\ key = "uuid"
    /\ \E v \in Values \union {"absent"}, w \in ControllerSets \union {"absent"},
          known \in Known :
       \E other \in Others(v) :
          LET data == extract_input_from_value(v)
              after == Controlled(data, w)
              plain == w = "absent" /\ known
              refused == \/ validate_input_shape(f, data) # {}
                         \/ validate_input_shape(f, after) # {}
                         \/ validate_item_references(f, after, known) # {}
              out == Update(strip_transient_fields(f, after), known, other)
              status == IF out.status = "ok" /\ ~Readable(out.row) THEN "internal" ELSE out.status
          IN IF refused
             THEN /\ Answer("update", v, plain, "validation", "absent")
                  /\ UNCHANGED <<row, unchecked>>
             ELSE /\ row' = out.row
                  /\ unchecked' = (unchecked /\ out.row = row)
                  /\ Answer("update", v, plain, status,
                            IF status = "ok" THEN Read(out.row) ELSE "absent")
    /\ UNCHANGED declared

handle_get ==
    /\ row # "none" /\ key = "uuid"
    /\ IF Readable(row) THEN Answer("get", "absent", TRUE, "ok", Read(row))
       ELSE Answer("get", "absent", TRUE, "internal", "absent")
    /\ UNCHANGED <<declared, row, unchecked>>

-----------------------------------------------------------------------------
(* gRPC: straight to the PostgreSQL pool, every parameter a text *)

GrpcBind(v) == LET d == decode_resource_message(ClientWrites(f, v)) IN
    IF d = "absent" THEN "null" ELSE d

GrpcStores(val, known) ==
    /\ ~f.transient
    /\ Assignable("text", field_type_to_sql(f))
    /\ build_create_table_sql_postgres(f, val, known)

GrpcReply == ClientReads(f, encode_field(f, row))

grpc_create ==
    /\ row = "none" /\ store \in PgStores
    /\ \E v \in ClientSends(f), known \in Known :
          LET val == IF input = "listed" THEN GrpcBind(v) ELSE ColumnDefault(f)
              stored == /\ input # "no_list"               \* an empty list is no SQL
                        /\ input = "listed" => GrpcStores(val, known)
                        /\ build_create_table_sql_postgres(f, val, known)
          IN /\ row' = IF stored THEN Column(val) ELSE row
             /\ unchecked' = stored
             /\ Answer("grpc_create", v, known, IF stored THEN "ok" ELSE "internal",
                       "absent")
    /\ UNCHANGED declared

grpc_list ==
    /\ row # "none" /\ store \in PgStores
    /\ Answer("grpc_list", "absent", TRUE, "ok",
              IF row = "no_column" THEN "absent" ELSE GrpcReply)
    /\ UNCHANGED <<declared, row, unchecked>>

\* id = $1 compares the key's column with a text
KeyCompares == Assignable("text", IF key = "uuid" THEN "uuid" ELSE "text")

grpc_update ==
    /\ row # "none" /\ store \in PgStores
    /\ \E v \in ClientSends(f), known \in Known :
          LET stored == /\ KeyCompares
                        /\ input = "listed" => GrpcStores(GrpcBind(v), known)
          IN IF input = "no_list"
             THEN /\ Answer("grpc_update", v, known, "validation", "absent")
                  /\ UNCHANGED <<row, unchecked>>
             ELSE /\ row' = IF stored /\ input = "listed" THEN GrpcBind(v) ELSE row
                  /\ unchecked' = (unchecked \/ stored)
                  /\ Answer("grpc_update", v, known,
                            IF stored THEN "ok" ELSE "internal", "absent")
    /\ UNCHANGED declared

grpc_delete ==
    /\ row # "none" /\ store \in PgStores
    /\ row' = IF KeyCompares THEN "none" ELSE row
    /\ unchecked' = (unchecked /\ ~KeyCompares)
    /\ Answer("grpc_delete", "absent", TRUE,
              IF KeyCompares THEN "ok" ELSE "internal", "absent")
    /\ UNCHANGED declared

-----------------------------------------------------------------------------

Init ==
    /\ f \in {d \in FieldDecls : ValidateField(d) = {}}
    /\ store \in StoreNames /\ key \in {"uuid", "string"}
    /\ input \in {"listed", "left_out", "no_list"}
    /\ key = "string" => store = "query" /\ input = "listed"
    /\ f.transient => input = "listed"                    \* else it is unreachable
    /\ row = "none" /\ unchecked = FALSE
    /\ answer = [op |-> "none", sent |-> "absent", plain |-> TRUE, status |-> "none", value |-> "absent"]

Next ==
    \/ handle_create \/ handle_update \/ handle_get
    \/ grpc_create \/ grpc_list \/ grpc_update \/ grpc_delete

Spec == Init /\ [][Next]_vars

-----------------------------------------------------------------------------
(* Properties *)

Wrote == answer.op \in {"create", "update"} /\ answer.plain

\* The declared fields that a store cannot hold: run-time stores fill in only generated UUIDs
\* and timestamps, ResourceQuery names transient fields in RETURNING and reads neither
\* NUMERIC nor array columns, the zero of an enum is none of its values, and only MongoDB's
\* validator knows a longest name of a file.
Unsupported ==
    CASE store = "generated" -> f.generated /\ f.type = "enum"
      [] store = "mongo" -> f.type = "file" /\ f.max
      [] OTHER -> \/ f.transient
                  \/ store = "query" /\ f.type \in {"number", "array"}
                  \/ f.generated /\ NotNull(f) /\ f.type \notin TimeTypes \union {"uuid"}

\* The column may be NULL and the generated record may not.
NullInTableOnly ==
    store = "generated" /\ (f.generated \/ f.default) /\ ~f.required /\ ~f.nullable

\* Whatever a validated request and its controller leave in the table obeys the field's rules,
\* and the generated store holds only values of the field's type: validate_input_shape before
\* the controller, validate_required_present or a second shape check after it.  Not covered are
\* a value that a create's controller put over the client's, and gRPC, which validates nothing.
RowsObeyRules ==
    row \in Values \ {"null"} =>
        /\ unchecked \/ validate_input_shape(f, row) = {}
        /\ store = "generated" => query_type(f, row)

\* A create whose body is what the published input schema asks for succeeds, in every store
\* that can hold the field: build_input_schema against validate.rs, the table and the store.
ContractAccepted ==
    /\ answer.op = "create" /\ answer.plain /\ input = "listed"
    /\ build_input_schema(f, answer.sent, TRUE)
    /\ ~Unsupported
    => answer.status = "ok"

\* A value that the contract allows is stored and answered as it was sent: no store's binding
\* (json_to_bind, json_to_sea_value, json_to_bson, serde) replaces it.
StoredIsSent ==
    /\ Wrote /\ answer.status = "ok" /\ input # "left_out"
    /\ Given(f, answer.sent) /\ ~f.transient /\ answer.sent \in field_schema_to_openapi(f)
    => answer.value = answer.sent /\ row = answer.sent

\* A row that exists can be read: no sequence of creates and updates leaves one behind that
\* find_by_id fails on.
RowsReadable ==
    row # "none" /\ key = "uuid" /\ ~Unsupported /\ ~NullInTableOnly => Readable(row)

\* A transient field reaches no table, on create or on update: strip_transient_fields runs
\* after the controller and before every store.
TransientNeverStored == f.transient => row \in {"none", "no_column"}

\* What the generated store answers fits the published response schema and the TypeScript
\* interface made of it.  Fields that may be null are declared without it, and a json field
\* takes any JSON value where the contract says an object.
AnswersConform ==
    /\ answer.op \in {"create", "update", "get"} /\ answer.status = "ok"
    /\ store = "generated" /\ ~unchecked /\ ~f.transient /\ ~f.nullable /\ f.type # "json"
    /\ build_resource_schema(f).required
    => \/ answer.value = "default"
       \/ answer.value \in build_resource_schema(f).allowed \intersect openapi_type_to_ts(f)

\* A client made from the .proto file reads from a gRPC answer what the row holds, unless the
\* .proto file declares a message type for the field: encode_field writes those as strings.
WireFaithful ==
    /\ answer.op = "grpc_list" /\ row \in Values \ {"null"} /\ query_type(f, row)
    /\ field_type_to_proto(f.type) # "message"
    => answer.value = row
=============================================================================
