----------------------------- MODULE Diagnostics ----------------------------
(***************************************************************************)
(* diagnose_resource (codegen diagnostics/inner.rs): the rules of          *)
(* `shaperail check`, written apart from the validator's and applied to    *)
(* the declaration as it was parsed, without the defaults of endpoints.    *)
(***************************************************************************)
EXTENDS Declarations

DiagnoseRoot(d) == Broken({
    <<"SR001", d.name = "">>,
    <<"SR002", d.version = 0>>,
    <<"SR003", DOMAIN d.schema = {}>>,
    <<"SR004", Primaries(d) = {} /\ DOMAIN d.schema # {}>>,
    <<"SR005", Cardinality(Primaries(d)) > 1>>})

DiagnoseItems(i) == Broken({
    <<"SR076", i.type = "array">>,
    <<"SR077", i.type = "enum" /\ ~i.values>>,
    <<"SR078", i.format /\ i.type # "string">>,
    <<"SR079", i.ref # "none" /\ i.type # "uuid">>,
    <<"SR080", i.ref = "bare">>})

NoFormatRuleMutant(f) ==
    (UNION {DiagnoseItems(i) : i \in f.items}) \union Broken({
        <<"SR010", f.type = "enum" /\ ~f.values>>,
        <<"SR011", f.type # "enum" /\ f.values>>,
        <<"SR012", f.ref # "none" /\ f.type # "uuid">>,
        <<"SR013", f.ref = "bare">>,
        <<"SR014", f.type = "array" /\ f.items = {}>>,
        <<"SR016", f.primary /\ ~f.generated /\ ~f.required>>})

DiagnoseField(f) ==
    (UNION {DiagnoseItems(i) : i \in f.items}) \union Broken({
        <<"SR010", f.type = "enum" /\ ~f.values>>,
        <<"SR011", f.type # "enum" /\ f.values>>,
        <<"SR012", f.ref # "none" /\ f.type # "uuid">>,
        <<"SR013", f.ref = "bare">>,
        <<"SR014", f.type = "array" /\ f.items = {}>>,
        <<"SR015", f.format /\ f.type # "string">>,
        <<"SR016", f.primary /\ ~f.generated /\ ~f.required>>})

DiagnoseTenantKey(d) == Broken({
    <<"SR020", \E k \in d.tenant_key : Defined(d, k) /\ d.schema[k].type # "uuid">>,
    <<"SR021", \E k \in d.tenant_key : ~Defined(d, k)>>})

diagnose_controller_name(name) == Broken({
    <<"SR035", name = "wasm:">>,
    <<"SR036", name = "wasm:plugin">>})

DiagnoseHooks(ep) ==
    (UNION {diagnose_controller_name(h) : h \in UNION (ep.before \union ep.after)}) \union Broken({
        <<"SR063", {} \in ep.before \union ep.after>>,
        <<"SR030", "" \in UNION ep.before>>,
        <<"SR031", "" \in UNION ep.after>>,
        <<"SR032", "" \in ep.events>>,
        <<"SR033", "" \in ep.jobs>>})

DiagnoseNamedFields(d, ep) == Broken({
    <<"SR040", \E n \in ep.input \union ep.filters \union ep.search \union ep.sort : ~Defined(d, n)>>,
    <<"SR041", ep.soft_delete /\ ~Defined(d, "deleted_at")>>})

\* ep.method() of an endpoint without a method panics: see Panics
DiagnoseUpload(d, ep, u) == Broken({
    <<"SR050", ep.method \in {{"GET"}, {"DELETE"}}>>,
    <<"SR051", Defined(d, u.field) /\ d.schema[u.field].type # "file">>,
    <<"SR052", ~Defined(d, u.field)>>,
    <<"SR053", u.storage \notin Storages>>,
    <<"SR054", u.field \notin ep.input>>})

DiagnoseSubscriber(s) == Broken({
    <<"SR073", s.event = "">>,
    <<"SR074", s.handler = "">>})

DiagnoseEndpoint(d, a) ==
    LET ep == d.endpoints[a] IN
    UNION {DiagnoseHooks(ep), DiagnoseNamedFields(d, ep),
           UNION {DiagnoseUpload(d, ep, u) : u \in ep.upload},
           UNION {DiagnoseSubscriber(s) : s \in ep.subscribers},
           Broken({<<"SR075", a \notin HANDLER_CONVENTIONS /\ ep.handler = {}>>})}

DiagnoseRelation(d, r) == Broken({
    <<"SR060", r.type = "belongs_to" /\ r.key = {}>>,
    <<"SR061", r.type \in {"has_many", "has_one"} /\ ~r.foreign_key>>,
    <<"SR062", \E k \in r.key : ~Defined(d, k)>>})

DiagnoseIndex(d, x) == Broken({
    <<"SR070", x.fields = {}>>,
    <<"SR071", \E n \in x.fields : ~Defined(d, n)>>,
    <<"SR072", x.order \notin {"none", "asc", "desc"}>>})

diagnose_resource(d) ==
    UNION {DiagnoseRoot(d), DiagnoseTenantKey(d),
           UNION {DiagnoseField(d.schema[n]) : n \in DOMAIN d.schema},
           UNION {DiagnoseEndpoint(d, a) : a \in DOMAIN d.endpoints},
           UNION {DiagnoseRelation(d, r) : r \in d.relations},
           UNION {DiagnoseIndex(d, x) : x \in d.indexes}}

\* EndpointSpec::method expects that the defaults were applied; diagnose_file
\* does not apply them, and the upload rules ask for the method.
Panics(d) == \E a \in DOMAIN d.endpoints : d.endpoints[a].upload # {} /\ d.endpoints[a].method = {}
=============================================================================
