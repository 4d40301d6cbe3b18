------------------------------ MODULE Sessions -------------------------------
(***************************************************************************)
(* Tokens and the decisions made from them: the JWTs of auth/jwt.rs, the   *)
(* token and refresh routes of auth/tokens.rs, the REST extractor          *)
(* (auth/extractor.rs), the gRPC one (grpc/server.rs), and the two halves  *)
(* of a role rule, rbac::enforce before the handler and                    *)
(* rbac::needs_owner_check with rbac::check_owner once the row is read,    *)
(* and the tenant of a row, which the list, the item handlers and the      *)
(* Subject of a custom handler check each in its own way.                  *)
(* A signature is what makes a token a member of `tokens'.                 *)
(***************************************************************************)
EXTENDS Integers, FiniteSets

CONSTANTS
    Accounts,    \* [sub, role, tenant] records; options are sets of <= 1
    ApiKeyUsers, \* the accounts with a key in the ApiKeyStore
    Rules,       \* the auth: rules of endpoints, sets of at most one rule
    Rows,        \* the rows asked for, [owner, tenant]
    AccessTtl, RefreshTtl,
    Leeway,      \* the tolerance of jsonwebtoken's default validation
    MaxTokens,   \* bound on the tokens in circulation
    Horizon      \* bound on the clock

VARIABLES
    time,    \* the time
    tokens,  \* the tokens issued so far, as their claims
    seen     \* the last request decided, and what other handlers would answer it

vars == <<time, tokens, seen>>

Claims(kind, sub, role, tenant, ttl) ==
    [sub |-> sub, role |-> role, iat |-> time, exp |-> time + ttl,
     token_type |-> kind, tenant_id |-> tenant]

encode_access_with_tenant(sub, role, tenant) == Claims("access", sub, role, tenant, AccessTtl)

encode_access(sub, role) == encode_access_with_tenant(sub, role, {})

encode_refresh(sub, role) == Claims("refresh", sub, role, {}, RefreshTtl)

\* Validation::default rejects a token whose exp lies more than the leeway back.
decode(t) == t.exp >= time - Leeway

\* A user as the handlers see one.
AuthenticatedUser(sub, role, tenant) == [sub |-> sub, role |-> role, tenant_id |-> tenant]

\* The Authorization header: only an access token names a user.
extract_auth(t) ==
    IF decode(t) /\ t.token_type = "access"
    THEN {AuthenticatedUser(t.sub, t.role, t.tenant_id)} ELSE {}

\* gRPC metadata: the same, without the tenant claim.
extract_user_from_headers(t) ==
    IF decode(t) /\ t.token_type = "access"
    THEN {AuthenticatedUser(t.sub, t.role, {})} ELSE {}

\* The X-API-Key header: a key stands for a user without a tenant.
lookup(a) == {AuthenticatedUser(a.sub, a.role, {})}

-----------------------------------------------------------------------------
\* rbac::enforce, before the handler runs. A list that names "owner" lets any
\* signed-in user pass, for the handler to check the row.
enforce(rule, user) ==
    IF rule = {} \/ \E r \in rule : r.kind = "public" THEN "Ok"
    ELSE IF user = {} THEN "Unauthorized"
    ELSE IF \E r \in rule : \/ r.kind = "owner"
                            \/ \E u \in user : u.role \in r.roles \/ "owner" \in r.roles
         THEN "Ok"
         ELSE "Forbidden"

OwnerListMutant(rule, user) ==
    /\ user # {}
    /\ \E r \in rule : r.kind = "owner"

needs_owner_check(rule, user) ==
    \E r \in rule :
        \/ r.kind = "owner"
        \/ /\ r.kind = "roles" /\ "owner" \in r.roles
           /\ \E u \in user : u.role \notin r.roles \ {"owner"}

\* rbac::check_owner: the row names its creator.
check_owner(user, row) == \E u \in user : u.sub = row.owner

is_super_admin(user) == \E u \in user : u.role = "super_admin"

\* A row of another tenant is not found. `scoped': the resource has a tenant_key.
verify_tenant(scoped, user, row) ==
    IF ~scoped \/ is_super_admin(user) THEN "Ok"
    ELSE IF ~ \E u \in user : u.tenant_id # {} THEN "Forbidden"
    ELSE IF \E u \in user : u.tenant_id = {row.tenant} THEN "Ok" ELSE "NotFound"

\* Whether a list is answered at all, and the tenants it is then filtered by.
inject_tenant_filter(scoped, user) ==
    IF ~scoped \/ is_super_admin(user) THEN [ok |-> TRUE, only |-> {}]
    ELSE LET only == UNION {u.tenant_id : u \in user} IN [ok |-> only # {}, only |-> only]

\* Whether the list of the endpoint shows the row.
Listed(rule, scoped, user, row) ==
    /\ enforce(rule, user) = "Ok"
    /\ inject_tenant_filter(scoped, user).ok
    /\ inject_tenant_filter(scoped, user).only \subseteq {row.tenant}

\* Subject::tenant_filter and assert_tenant_match, for a custom handler.
assert_tenant_match(user, row) ==
    IF is_super_admin(user) THEN "Ok"
    ELSE IF ~ \E u \in user : u.tenant_id # {} THEN "Unauthorized"
    ELSE IF \E u \in user : row.tenant \in u.tenant_id THEN "Ok" ELSE "Forbidden"

\* What an item handler answers a user for a row.
Decision(rule, scoped, user, row) ==
    IF enforce(rule, user) # "Ok" THEN enforce(rule, user)
    ELSE IF verify_tenant(scoped, user, row) # "Ok" THEN verify_tenant(scoped, user, row)
    ELSE IF needs_owner_check(rule, user) /\ user # {} /\ ~check_owner(user, row) THEN "Forbidden"
    ELSE "Ok"

-----------------------------------------------------------------------------
Init ==
    /\ time = 0
    /\ tokens = {}
    /\ seen = {}

Issues(ts) ==
    /\ Cardinality(tokens \cup ts) <= MaxTokens
    /\ tokens' = tokens \cup ts
    /\ UNCHANGED <<time, seen>>

\* POST /auth/token: a pair for a user and role, without a tenant.
handle_issue_token(a) ==
    Issues({encode_access(a.sub, a.role), encode_refresh(a.sub, a.role)})

\* An application's own login mints an access token with a tenant.
LoginWithTenant(a) ==
    a.tenant # {} /\ Issues({encode_access_with_tenant(a.sub, a.role, a.tenant)})

\* POST /auth/refresh: a new pair from a refresh token that still decodes.
handle_refresh_token(t) ==
    /\ t.token_type = "refresh" /\ decode(t)
    /\ Issues({encode_access(t.sub, t.role), encode_refresh(t.sub, t.role)})

Decided(via, user, rule, scoped, row) ==
    /\ seen' = {[via |-> via, at |-> time, user |-> user, rule |-> rule, scoped |-> scoped,
                 row |-> row, answer |-> Decision(rule, scoped, user, row),
                 listed |-> Listed(rule, scoped, user, row),
                 custom |-> assert_tenant_match(user, row)]}
    /\ UNCHANGED <<time, tokens>>

\* A request with a bearer token, over REST or gRPC, with an API key, or with
\* nothing (a header that names nobody counts as none).
RestRequest(t, rule, scoped, row) == Decided("rest", extract_auth(t), rule, scoped, row)
GrpcRequest(t, rule, row)         == Decided("grpc", extract_user_from_headers(t), rule, FALSE, row)
KeyRequest(a, rule, scoped, row)  == Decided("key", lookup(a), rule, scoped, row)
PlainRequest(rule, scoped, row)   == Decided("none", {}, rule, scoped, row)

Tick ==
    /\ time < Horizon
    /\ time' = time + 1
    /\ seen' = {}
    /\ UNCHANGED tokens

Next ==
    \/ \E a \in Accounts : handle_issue_token(a) \/ LoginWithTenant(a)
    \/ \E t \in tokens : handle_refresh_token(t)
    \/ \E rule \in Rules, row \in Rows :
          \/ \E t \in tokens : GrpcRequest(t, rule, row)
          \/ \E scoped \in BOOLEAN :
                \/ \E t \in tokens : RestRequest(t, rule, scoped, row)
                \/ \E a \in ApiKeyUsers : KeyRequest(a, rule, scoped, row)
                \/ PlainRequest(rule, scoped, row)
    \/ Tick

Spec == Init /\ [][Next]_vars

-----------------------------------------------------------------------------
TypeOK ==
    /\ time \in 0 .. Horizon
    /\ \A t \in tokens : t.exp > t.iat /\ t.token_type \in {"access", "refresh"}
    /\ Cardinality(seen) <= 1

\* A role rule that names "owner" is split between two functions. Together they
\* admit exactly the listed roles and the creator of the row: whom enforce lets
\* pass on trust, needs_owner_check always sends to the ownership check.
RuleIsWhole ==
    \A s \in seen : \A r \in s.rule :
        (r.kind # "public" /\ ~s.scoped) =>
            (s.answer = "Ok" <=>
                \E u \in s.user : \/ r.kind = "roles" /\ u.role \in r.roles \ {"owner"}
                                  \/ /\ r.kind = "owner" \/ "owner" \in r.roles
                                     /\ u.sub = s.row.owner)

\* A tenant's rows are the same through every door: where no ownership is asked
\* for, an item handler returns exactly the rows the list shows, and for a
\* signed-in user a custom handler that asserts the tenant admits exactly those.
TenantViewsAgree ==
    \A s \in seen :
        (s.via # "grpc" /\ ~needs_owner_check(s.rule, s.user)) =>
            /\ s.answer = "Ok" <=> s.listed
            /\ (s.scoped /\ enforce(s.rule, s.user) = "Ok") =>
                   (s.custom = "Ok" <=> s.answer = "Ok")

\* A bearer token names a user only for its lifetime: whoever a REST or gRPC
\* request is taken for held an access token of that subject and role minted no
\* longer ago than access_ttl and the leeway, through any chain of refreshes.
SignedInIsRecent ==
    \A s \in seen : s.via \in {"rest", "grpc"} =>
        \A u \in s.user :
            /\ \E a \in Accounts : a.sub = u.sub /\ a.role = u.role
            /\ \E t \in tokens : /\ t.sub = u.sub /\ t.role = u.role
                                 /\ t.token_type = "access"
                                 /\ s.at <= t.iat + AccessTtl + Leeway
=============================================================================
