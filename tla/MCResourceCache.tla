--------------------------- MODULE MCResourceCache --------------------------
(* Small instances of ResourceCache. *)
EXTENDS ResourceCache, TLC

CONSTANTS posts, users, list, get, p1, p2, w1, w2

\* posts has a cached list with ?include=author and a cached get
MCOwner == (list :> posts) @@ (get :> posts)
MCEndpoint == (list :> 1) @@ (get :> 2)
MCNoIncludes == (list :> {}) @@ (get :> {})
MCListOwner == list :> posts
MCListEndpoint == list :> 1
MCListIncludes == list :> {users}
MCDocumented == posts :> <<{"create", "delete"}, NoList>>
MCMixed == (posts :> <<{"updated", "delete"}, NoList>>) @@ (users :> << >>)
MCDefault == (posts :> <<NoList, NoList>>) @@ (users :> << >>)

Symmetry == Permutations({p1, p2}) \union Permutations({w1, w2})
=============================================================================
