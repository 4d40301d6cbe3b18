------------------------------ MODULE Validator -----------------------------
(***************************************************************************)
(* validate_resource (codegen validator.rs): the rules that generate,      *)
(* validate, migrate, serve, diff, export and routes apply, on the         *)
(* declaration with its defaults.  The messages have no codes; a rule that *)
(* `shaperail check` has too goes by the code of its diagnostic.           *)
(***************************************************************************)
EXTENDS Declarations

CRUD_ACTIONS == HANDLER_CONVENTIONS \union {"bulk_create", "bulk_delete"}

ValidateRoot(d) == Broken({
    <<"SR001", d.name = "">>,
    <<"SR002", d.version = 0>>,
    <<"SR003", DOMAIN d.schema = {}>>,
    <<"SR004", Primaries(d) = {}>>,
    <<"SR005", Cardinality(Primaries(d)) > 1>>})

ValidateItems(i) == Broken({
    <<"SR076", i.type = "array">>,
    <<"SR077", i.type = "enum" /\ ~i.values>>,
    <<"SR078", i.format /\ i.type # "string">>,
    <<"SR079", i.ref # "none" /\ i.type # "uuid">>,
    <<"SR080", i.ref = "bare">>})

ValidateTransient(f) == Broken({
    <<"transient_primary", f.transient /\ f.primary>>,
    <<"transient_generated", f.transient /\ f.generated>>,
    <<"transient_ref", f.transient /\ f.ref # "none">>,
    <<"transient_unique", f.transient /\ f.unique>>,
    <<"transient_default", f.transient /\ f.default>>})

ValidateField(f) ==
    (UNION {ValidateItems(i) : i \in f.items}) \union ValidateTransient(f) \union Broken({
        <<"SR010", f.type = "enum" /\ ~f.values>>,
        <<"SR011", f.type # "enum" /\ f.values>>,
        <<"SR012", f.ref # "none" /\ f.type # "uuid">>,
        <<"SR013", f.ref = "bare">>,
        <<"SR014", f.type = "array" /\ f.items = {}>>,
        <<"SR015", f.format /\ f.type # "string">>,
        <<"SR016", f.primary /\ ~f.generated /\ ~f.required>>})

ValidateReachable(d) == Broken({
    <<"transient_unreachable",
      \E n \in DOMAIN d.schema :
          d.schema[n].transient /\ \A a \in DOMAIN d.endpoints : n \notin d.endpoints[a].input>>})

ValidateTenantKey(d) == Broken({
    <<"SR020", \E k \in d.tenant_key : Defined(d, k) /\ d.schema[k].type # "uuid">>,
    <<"SR021", \E k \in d.tenant_key : ~Defined(d, k)>>})

validate_controller_name(name) == Broken({
    <<"SR035", name = "wasm:">>,
    <<"SR036", name = "wasm:plugin">>})

validate_handler_only_on_custom(a, ep) == Broken({
    <<"handler_on_convention", ep.handler # {} /\ a \in HANDLER_CONVENTIONS>>})

validate_controller_only_on_crud(a, ep) == Broken({
    <<"after_on_custom", a \notin CRUD_ACTIONS /\ UNION ep.after # {}>>})

ValidateHooks(ep) ==
    (UNION {validate_controller_name(h) : h \in UNION (ep.before \union ep.after)}) \union Broken({
        <<"SR063", {} \in ep.before \union ep.after>>,
        <<"SR030", "" \in UNION ep.before>>,
        <<"SR031", "" \in UNION ep.after>>,
        <<"SR032", "" \in ep.events>>,
        <<"SR033", "" \in ep.jobs>>})

ValidateNamedFields(d, ep) == Broken({
    <<"SR040", \E n \in ep.input \union ep.filters \union ep.search \union ep.sort : ~Defined(d, n)>>,
    <<"SR041", ep.soft_delete /\ ~Defined(d, "deleted_at")>>})

ValidateUpload(d, ep, u) == Broken({
    <<"SR050", ep.method \in {{"GET"}, {"DELETE"}}>>,
    <<"SR051", Defined(d, u.field) /\ d.schema[u.field].type # "file">>,
    <<"SR052", ~Defined(d, u.field)>>,
    <<"SR053", u.storage \notin Storages>>,
    <<"SR054", u.field \notin ep.input>>,
    <<"companion_type", Defined(d, u.size_field) /\ d.schema[u.size_field].type # "integer">>})

ValidateEndpoint(d, a) ==
    LET ep == d.endpoints[a] IN
    UNION {validate_handler_only_on_custom(a, ep), validate_controller_only_on_crud(a, ep),
           ValidateHooks(ep), ValidateNamedFields(d, ep),
           UNION {ValidateUpload(d, ep, u) : u \in ep.upload},
           Broken({<<"no_method", ep.method = {}>>, <<"no_path", ~ep.path>>})}

ValidateRelation(d, r) == Broken({
    <<"SR060", r.type = "belongs_to" /\ r.key = {}>>,
    <<"SR061", r.type \in {"has_many", "has_one"} /\ ~r.foreign_key>>,
    <<"SR062", \E k \in r.key : ~Defined(d, k)>>})

ValidateIndex(d, x) == Broken({
    <<"SR070", x.fields = {}>>,
    <<"SR071", \E n \in x.fields : ~Defined(d, n)>>,
    <<"SR072", x.order \notin {"none", "asc", "desc"}>>})

validate_resource(d) ==
    UNION {ValidateRoot(d), ValidateReachable(d), ValidateTenantKey(d),
           UNION {ValidateField(d.schema[n]) : n \in DOMAIN d.schema},
           UNION {ValidateEndpoint(d, a) : a \in DOMAIN d.endpoints},
           UNION {ValidateRelation(d, r) : r \in d.relations},
           UNION {ValidateIndex(d, x) : x \in d.indexes}}
=============================================================================
