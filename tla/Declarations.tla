---------------------------- MODULE Declarations ----------------------------
(***************************************************************************)
(* Resource declarations: the parsed YAML of resources/*.yaml.             *)
(*                                                                         *)
(* A declaration d is a record: name, version, schema (a function from     *)
(* field names to fields), endpoints (a function from actions to           *)
(* endpoints), tenant_key, relations, indexes.  An optional part is a set  *)
(* with at most one member: a method, a handler, a list of hooks, the      *)
(* items of an array, an upload.                                           *)
(***************************************************************************)
EXTENDS Naturals, FiniteSets

HANDLER_CONVENTIONS == {"list", "get", "create", "update", "delete"}

WasmHooks == {"wasm:", "wasm:plugin", "wasm:plugin.wasm"}

Storages == {"local", "s3", "gcs", "azure"}

\* the names of the rules, among pairs of a name and its condition, that are broken
Broken(rules) == {r[1] : r \in {x \in rules : x[2]}}

Defined(d, name) == name \in DOMAIN d.schema

Primaries(d) == {n \in DOMAIN d.schema : d.schema[n].primary}

\* ItemsSpec, FieldSchema and EndpointSpec as they are when nothing is said
ItemsSpec(type) ==
    [type |-> type, max |-> FALSE, values |-> FALSE, format |-> FALSE, ref |-> "none"]

FieldSchema(type) ==
    [type |-> type, primary |-> FALSE, generated |-> FALSE, required |-> FALSE,
     nullable |-> FALSE, transient |-> FALSE, unique |-> FALSE, default |-> FALSE, max |-> FALSE,
     values |-> FALSE, ref |-> "none", format |-> FALSE, items |-> {}]

EndpointSpec ==
    [method |-> {}, path |-> FALSE, handler |-> {}, before |-> {}, after |-> {},
     events |-> {}, jobs |-> {}, input |-> {}, filters |-> {}, search |-> {}, sort |-> {},
     soft_delete |-> FALSE, upload |-> {}, subscribers |-> {}]

\* what the parser can make of them
FieldTypes == {"uuid", "string", "integer", "number", "boolean", "timestamp", "date", "enum",
               "json", "array", "file"}

References == {"none", "dotted", "bare"}

ItemsSpecs == [type : FieldTypes, max : BOOLEAN, values : BOOLEAN, format : BOOLEAN, ref : References]

FieldSchemas ==
    [type : FieldTypes, primary : BOOLEAN, generated : BOOLEAN, required : BOOLEAN,
     nullable : BOOLEAN, transient : BOOLEAN, unique : BOOLEAN, default : BOOLEAN, max : BOOLEAN,
     values : BOOLEAN, ref : References, format : BOOLEAN, items : SUBSET ItemsSpecs]

IsEndpointSpec(ep) ==
    /\ ep = [part \in DOMAIN EndpointSpec |-> ep[part]]
    /\ ep.path \in BOOLEAN /\ ep.soft_delete \in BOOLEAN

IsResource(d) ==
    /\ d = [name |-> d.name, version |-> d.version, tenant_key |-> d.tenant_key, schema |-> d.schema,
            endpoints |-> d.endpoints, relations |-> d.relations, indexes |-> d.indexes]
    /\ d.version \in Nat
    /\ d.schema \in [DOMAIN d.schema -> FieldSchemas]
    /\ d.endpoints = [a \in DOMAIN d.endpoints |-> d.endpoints[a]]
    /\ \A a \in DOMAIN d.endpoints : IsEndpointSpec(d.endpoints[a])

endpoint_convention(action) ==
    CASE action \in {"list", "get"} -> {"GET"}
      [] action = "create"          -> {"POST"}
      [] action = "update"          -> {"PATCH"}
      [] action = "delete"          -> {"DELETE"}
      [] OTHER                      -> {}

\* parse_resource fills in what a conventional endpoint leaves out
apply_endpoint_defaults(d) ==
    [d EXCEPT !.endpoints =
        [a \in DOMAIN d.endpoints |->
            IF endpoint_convention(a) = {} THEN d.endpoints[a]
            ELSE [d.endpoints[a] EXCEPT
                    !.method = IF @ = {} THEN endpoint_convention(a) ELSE @, !.path = TRUE]]]

-----------------------------------------------------------------------------
(* The declarations that `shaperail resource create` scaffolds *)

GeneratedKey == [FieldSchema("uuid") EXCEPT !.primary = TRUE, !.generated = TRUE]
GeneratedTime == [FieldSchema("timestamp") EXCEPT !.generated = TRUE]
Required(type) == [FieldSchema(type) EXCEPT !.required = TRUE]
OrgId == [Required("uuid") EXCEPT !.ref = "dotted"]
Status == [FieldSchema("enum") EXCEPT !.values = TRUE, !.default = TRUE]
Takes(input) == [EndpointSpec EXCEPT !.input = input]
SoftDelete == [EndpointSpec EXCEPT !.soft_delete = TRUE]
ToOrganization == [type |-> "belongs_to", key |-> {"org_id"}, foreign_key |-> FALSE]
Index(fields, order) == [fields |-> fields, order |-> order]

Resource(schema, endpoints) ==
    [name |-> "given", version |-> 1, tenant_key |-> {}, schema |-> schema,
     endpoints |-> endpoints, relations |-> {}, indexes |-> {}]

archetype_basic == Resource(
    [id |-> GeneratedKey, created_at |-> GeneratedTime, updated_at |-> GeneratedTime],
    [list |-> EndpointSpec, get |-> EndpointSpec, create |-> Takes({}), update |-> Takes({}),
     delete |-> EndpointSpec])

archetype_user == [Resource(
    [id |-> GeneratedKey, email |-> [Required("string") EXCEPT !.format = TRUE, !.unique = TRUE],
     name |-> Required("string"), role |-> Status, org_id |-> OrgId,
     created_at |-> GeneratedTime, updated_at |-> GeneratedTime],
    [list |-> [EndpointSpec EXCEPT !.filters = {"role", "org_id"}, !.search = {"name", "email"},
                                   !.sort = {"created_at", "name"}],
     get |-> EndpointSpec, create |-> Takes({"email", "name", "role", "org_id"}),
     update |-> Takes({"name", "role"}), delete |-> SoftDelete])
  EXCEPT !.relations = {ToOrganization},
         !.indexes = {Index({"email"}, "none"), Index({"org_id", "role"}, "none"),
                      Index({"created_at"}, "desc")}]

archetype_content == [Resource(
    [id |-> GeneratedKey, title |-> Required("string"),
     slug |-> [Required("string") EXCEPT !.unique = TRUE], body |-> Required("string"),
     status |-> Status, author_id |-> Required("uuid"),
     created_at |-> GeneratedTime, updated_at |-> GeneratedTime],
    [list |-> [EndpointSpec EXCEPT !.filters = {"status", "author_id"}, !.search = {"title", "body"},
                                   !.sort = {"created_at", "title"}],
     get |-> EndpointSpec, create |-> Takes({"title", "slug", "body", "status", "author_id"}),
     update |-> Takes({"title", "slug", "body", "status"}), delete |-> SoftDelete])
  EXCEPT !.indexes = {Index({"slug"}, "none"), Index({"author_id", "status"}, "none"),
                      Index({"created_at"}, "desc")}]

archetype_tenant == [Resource(
    [id |-> GeneratedKey, org_id |-> OrgId, name |-> Required("string"),
     created_at |-> GeneratedTime, updated_at |-> GeneratedTime],
    [list |-> [EndpointSpec EXCEPT !.filters = {"org_id"}, !.search = {"name"}],
     get |-> EndpointSpec, create |-> Takes({"org_id", "name"}), update |-> Takes({"name"}),
     delete |-> SoftDelete])
  EXCEPT !.tenant_key = {"org_id"}, !.relations = {ToOrganization},
         !.indexes = {Index({"org_id"}, "none"), Index({"created_at"}, "desc")}]

archetype_lookup == [Resource(
    [id |-> GeneratedKey, code |-> [Required("string") EXCEPT !.unique = TRUE],
     label |-> Required("string")],
    [list |-> [EndpointSpec EXCEPT !.sort = {"code", "label"}], get |-> EndpointSpec,
     create |-> Takes({"code", "label"}), update |-> Takes({"label"}), delete |-> EndpointSpec])
  EXCEPT !.indexes = {Index({"code"}, "none")}]

scaffold_resource_yaml ==
    [basic |-> archetype_basic, user |-> archetype_user, content |-> archetype_content,
     tenant |-> archetype_tenant, lookup |-> archetype_lookup]

Scaffolds == {scaffold_resource_yaml[a] : a \in DOMAIN scaffold_resource_yaml}

-----------------------------------------------------------------------------
(* The functions that the generated code refers to *)

Hooks(d) ==
    UNION {UNION (d.endpoints[a].before \union d.endpoints[a].after) : a \in DOMAIN d.endpoints}

collect_controller_hooks(d) == {h \in Hooks(d) : h \notin WasmHooks}

collect_custom_handlers(d) ==
    UNION {d.endpoints[a].handler : a \in DOMAIN d.endpoints \ HANDLER_CONVENTIONS}

collect_job_names(d) == UNION {d.endpoints[a].jobs : a \in DOMAIN d.endpoints}

-----------------------------------------------------------------------------
(* What the editor's schema lets pass: additionalProperties is false *)

FieldSchemaAllows(f) ==
    /\ ~f.transient
    /\ f.ref # "bare"
    /\ \A i \in f.items :
          /\ ~i.values /\ ~i.format /\ i.ref = "none"
          /\ i.type \notin {"enum", "json", "array", "file"}

EndpointSpecAllows(ep) ==
    /\ ep.handler = {} /\ ep.subscribers = {}
    /\ \A l \in ep.before \union ep.after : l # {}
    /\ \A u \in ep.upload : u.storage \in Storages

generate_resource_json_schema(d) ==
    /\ d.name # "" /\ d.version >= 1 /\ DOMAIN d.schema # {}
    /\ \A n \in DOMAIN d.schema : FieldSchemaAllows(d.schema[n])
    /\ \A a \in DOMAIN d.endpoints : EndpointSpecAllows(d.endpoints[a])
    /\ \A x \in d.indexes : x.fields # {} /\ x.order \in {"none", "asc", "desc"}
=============================================================================
