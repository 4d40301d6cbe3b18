----------------------------- MODULE MCGenerator ----------------------------
(***************************************************************************)
(* Generator on small constants.                                           *)
(*                                                                         *)
(* The declarations of a project vary one part of a plain one at a time.   *)
(* The fields are of every type, and of two types in every combination     *)
(* of their flags; limits, formats, references and items one at a time.    *)
(***************************************************************************)
EXTENDS Generator

-----------------------------------------------------------------------------
Plain == FieldSchema("string")
Key == GeneratedKey
Silent == EndpointSpec
Custom == [Silent EXCEPT !.method = {"POST"}, !.path = TRUE, !.handler = {"archive"}]

Base == Resource([id |-> Key, f |-> Plain],
                 [list |-> Silent, create |-> Takes({"f"}), archive |-> Custom])

Roots == {[Base EXCEPT !.name = ""], [Base EXCEPT !.version = 0],
          [Base EXCEPT !.schema = [id |-> Plain, f |-> Plain]],
          [Base EXCEPT !.schema = [id |-> Key, f |-> Key]],
          [Base EXCEPT !.schema = [id |-> [Key EXCEPT !.generated = FALSE], f |-> Plain]],
          [Base EXCEPT !.schema = [x \in {} |-> Plain]],
          [Base EXCEPT !.tenant_key = {"f"}], [Base EXCEPT !.tenant_key = {"id"}],
          [Base EXCEPT !.tenant_key = {"org"}]}
        \union {[Base EXCEPT !.relations = {[type |-> t, key |-> k, foreign_key |-> b]}] :
                   t \in {"belongs_to", "has_many"}, k \in {{}, {"f"}, {"org"}}, b \in BOOLEAN}
        \union {[Base EXCEPT !.indexes = {[fields |-> g, order |-> o]}] :
                   g \in {{}, {"f"}, {"org"}}, o \in {"none", "desc", "up"}}

Items == {[ItemsSpec(t) EXCEPT !.values = v, !.format = b, !.ref = r] :
             t \in {"string", "uuid", "enum", "array"}, v, b \in BOOLEAN, r \in {"none", "dotted", "bare"}}
FieldTrials ==
    {[Plain EXCEPT !.type = t, !.values = v, !.ref = r, !.format = b] :
        t \in {"string", "uuid", "enum", "array"}, v, b \in BOOLEAN, r \in {"none", "dotted", "bare"}}
    \union {[Plain EXCEPT !.transient = TRUE, !.unique = u, !.default = d, !.generated = g] : u, d, g \in BOOLEAN}
    \union {[Plain EXCEPT !.type = "array", !.items = {i}] : i \in Items}
FieldsTried == {[Base EXCEPT !.schema.f = x] : x \in FieldTrials}
    \union {[Base EXCEPT !.schema.f.transient = TRUE, !.endpoints.create.input = {}]}

HookLists == {{}, {{}}, {{"set"}}, {{"set", ""}}, {{"wasm:"}}, {{"wasm:plugin"}}, {{"wasm:plugin.wasm"}}}
EndpointTrials ==
    {[Silent EXCEPT !.before = b, !.after = a, !.handler = h] :
        a, b \in HookLists, h \in {{}, {"archive"}}}
    \union {[Silent EXCEPT !.input = x, !.filters = y, !.soft_delete = s] :
               x, y \in {{"f"}, {"org"}}, s \in BOOLEAN}
    \union {[Silent EXCEPT !.events = e, !.jobs = j] : e, j \in {{}, {""}, {"sent"}}}
    \union {[Silent EXCEPT !.method = m, !.input = {"f"},
                 !.upload = {[field |-> x, storage |-> s, size_field |-> z]}] :
               m \in {{}, {"POST"}, {"GET"}}, x \in {"f", "id", "org"},
               s \in {"local", "disk"}, z \in {"id", "org"}}
    \union {[Silent EXCEPT !.subscribers = {[event |-> e, handler |-> h]}] : e, h \in {"", "on"}}
EndpointsTried ==
    {[Base EXCEPT !.endpoints = [create |-> x]] : x \in EndpointTrials}
    \union {[Base EXCEPT !.endpoints = [archive |-> x]] : x \in EndpointTrials}
    \union {[Base EXCEPT !.endpoints = [create |-> x], !.schema.f.type = "file"] : x \in EndpointTrials}

Hooked == [Base EXCEPT !.endpoints.create.before = {{"check_stock"}}, !.endpoints.create.jobs = {"ship"}]
TrialsDef == Roots \union FieldsTried \union EndpointsTried
             \union Scaffolds \union {Base, Hooked}
EditsDef == {Base, Hooked}
NamesDef == <<"order", "order_items">>
ContainedDef(a, b) == a = b \/ a = "order"
-----------------------------------------------------------------------------
Typed(type) == [FieldSchema(type) EXCEPT !.values = (type = "enum"),
                                         !.items = IF type = "array" THEN {ItemsSpec("string")} ELSE {}]

\* required, nullable, default, generated and transient in every combination
Flagged(d) ==
    {[d EXCEPT !.required = r, !.nullable = n, !.default = e, !.generated = g, !.transient = t] :
        r \in BOOLEAN, n \in BOOLEAN, e \in BOOLEAN, g \in BOOLEAN, t \in BOOLEAN}

\* a generated field with a default would have two DEFAULT clauses
Combined(d) == {x \in Flagged(d) : ~(x.generated /\ x.default)}

ArrayOf(type) == [Required("array") EXCEPT !.items = {[ItemsSpec(type) EXCEPT !.values = (type = "enum")]}]

SpecialFields ==
    {[Required("string") EXCEPT !.max = TRUE], [Required("string") EXCEPT !.format = TRUE],
     [Required("file") EXCEPT !.max = TRUE], [Required("integer") EXCEPT !.max = TRUE],
     [Required("number") EXCEPT !.max = TRUE],
     [FieldSchema("string") EXCEPT !.max = TRUE, !.format = TRUE, !.default = TRUE],
     [Required("uuid") EXCEPT !.ref = "dotted"],
     [Required("array") EXCEPT !.items = {[ItemsSpec("uuid") EXCEPT !.ref = "dotted"]}],
     [Required("array") EXCEPT !.items = {[ItemsSpec("string") EXCEPT !.format = TRUE]}]}
    \union {ArrayOf(t) : t \in {"uuid", "integer", "enum", "timestamp"}}

\* of the types that the stores treat alike, one in every combination
FieldDeclsDef ==
    (UNION {Combined(Typed(t)) : t \in {"enum", "timestamp"}})
      \union {Typed(t) : t \in FieldTypes}
      \union {[Typed(t) EXCEPT !.required = TRUE] : t \in FieldTypes}
      \union {[Typed(t) EXCEPT !.default = TRUE] : t \in FieldTypes} \union SpecialFields
ControllerSetsDef == {"odd_text", "null"}
=============================================================================
