----------------------------- MODULE MCRequests -----------------------------
(* Requests on a small application, one instance for each part.             *)
EXTENDS Requests

(* Three calls of one user from two addresses and one of a visitor at the   *)
(* first of them, two allowed in two seconds: the clock passes two windows. *)
MCCalls == 1 .. 4
MCClient == [c \in MCCalls |->
    [ip |-> IF c = 2 THEN "b" ELSE "a", user |-> IF c = 4 THEN {} ELSE {"u"},
     tenant |-> {}, action |-> "list"]]

(* A member with a tenant, an admin without, the super_admin, and an API    *)
(* key; every form of a rule; a clock that runs past an access token's life *)
(* and leeway.                                                              *)
ann == [sub |-> "ann", role |-> "member", tenant |-> {"t"}]
bob == [sub |-> "bob", role |-> "admin", tenant |-> {}]
root == [sub |-> "root", role |-> "super_admin", tenant |-> {}]
Roles(rs) == {[kind |-> "roles", roles |-> rs]}
MCAccounts == {ann, bob, root}
MCApiKeyUsers == {ann}
MCTokenRows == {[owner |-> "ann", tenant |-> "t"], [owner |-> "bob", tenant |-> "s"]}
MCRules == {{}, {[kind |-> "public", roles |-> {}]}, {[kind |-> "owner", roles |-> {}]},
            Roles({"admin"}), Roles({"admin", "owner"})}

(* Hooks of both kinds, two in a row, on every action that declares them,   *)
(* and the actions that run none.                                           *)
rust(n) == [kind |-> "rust", name |-> n]
wasm(n) == [kind |-> "wasm", name |-> n]
endpoint(action, before, after) ==
    [action |-> action, method |-> "POST", before |-> before, after |-> after,
     handler |-> "registered"]

MCEndpoints ==
    {endpoint(a, <<wasm("p"), rust("h")>>, <<rust("h"), wasm("p")>>) : a \in {"create", "update"}}
    \cup {endpoint("delete", <<rust("h")>>, <<rust("cleanup")>>),
          endpoint("bulk_create", <<>>, <<>>), endpoint("bulk_delete", <<>>, <<>>),
          endpoint("create_upload", <<>>, <<>>), endpoint("list", <<>>, <<>>),
          endpoint("custom", <<rust("h")>>, <<>>),
          [endpoint("custom", <<>>, <<>>) EXCEPT !.handler = "missing"],
          [endpoint("custom", <<>>, <<>>) EXCEPT !.method = "none"]}

(* Three requests on one row: a create, and two more that race on it.       *)
MCReqs == 1 .. 3

(* Two incidents of one service and two alerts with the same fingerprint.   *)
MCAppRows == 1 .. 2
MCAlerts == 1 .. 2
=============================================================================
