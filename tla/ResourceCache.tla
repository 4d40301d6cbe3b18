--------------------------- MODULE ResourceCache ----------------------------
(***************************************************************************)
(* The response cache of shaperail-runtime (cache/store.rs) together with  *)
(* the CRUD handlers that read through it and invalidate it                *)
(* (handlers/crud.rs).                                                     *)
(*                                                                         *)
(* A request is a sequence of awaits; other requests, of this process or   *)
(* of another one on the same database and Redis, run in between.  The     *)
(* rows of a resource are abstracted to the number of writes committed to  *)
(* it, so a response is the version it shows of each resource in it.  A    *)
(* key stands for one (endpoint, query, tenant, role).                     *)
(***************************************************************************)
EXTENDS Naturals, Sequences, FiniteSets, FiniteSetsExt

CONSTANTS
    Resources,     \* resources of the application
    Keys,          \* cache keys its cached GET endpoints can build
    Owner,         \* Owner[k]: the resource in the key
    Endpoint,      \* Endpoint[k]: position of the endpoint in the resource file
    Lists,         \* keys of list endpoints; the others are of get endpoints
    Includes,      \* Includes[k]: resources loaded with ?include
    InvalidateOn,  \* InvalidateOn[r]: invalidate_on of each endpoint, in order
    NoList,        \* an endpoint without invalidate_on
    NoEntry,       \* no value under a key
    Handlers,      \* kinds of write requests the application serves
    Readers,       \* GET requests that can be in progress together
    Writers,       \* write requests that can be in progress together
    BulkItems,     \* bound: items of a bulk request
    MaxWrites,     \* bound: rows written
    MaxFaults      \* bound: failed Redis commands, lost replies, dropped requests

ASSUME CacheAssumption ==
    /\ Keys # {} /\ Resources # {}
    /\ Owner \in [Keys -> Resources]
    /\ Includes \in [Keys -> SUBSET Resources]
    /\ Lists \subseteq Keys
    /\ Endpoint \in [Keys -> Nat \ {0}]
    /\ \A k \in Keys : Owner[k] \notin Includes[k]
    /\ BulkItems \in Nat \ {0} /\ MaxWrites \in Nat /\ MaxFaults \in Nat

VARIABLES
    db,         \* db[r]: writes committed to r
    cache,      \* cache[k]: the stored response (body) and, as history, the
                \* version of Owner[k] when it was stored (asof); or NoEntry
    rd,         \* rd[p]: the GET request of reader p
    wr,         \* wr[w]: the write request of writer w
    faults,
    announced   \* history: announced[r]: versions whose event was sent

vars == <<db, cache, rd, wr, faults, announced>>

\* kinds of write requests; the plain ones run no controllers
Kinds == {"create", "update", "plain_create", "plain_update", "delete",
          "bulk_create", "bulk_delete"}

Bulk == {"bulk_create", "bulk_delete"}

\* the action name each handler passes to invalidate_cache
Action == [create |-> "created", plain_create |-> "created",
           update |-> "updated", plain_update |-> "updated",
           delete |-> "deleted", bulk_create |-> "create", bulk_delete |-> "delete"]

\* A Redis command is applied and answered, or fails before or after it was
\* applied.
Replies == {[applied |-> TRUE, ok |-> TRUE], [applied |-> TRUE, ok |-> FALSE],
            [applied |-> FALSE, ok |-> FALSE]}

Count(r) == IF r.ok THEN faults' = faults
            ELSE faults < MaxFaults /\ faults' = faults + 1

-----------------------------------------------------------------------------
(* GET requests: handle_list and handle_get *)

NoRows == [r \in Resources |-> 0]

SomeKey == CHOOSE k \in Keys : TRUE

\* key: what build_key_with_tenant returned; via: "cache", or "db" when the
\* cache is bypassed; got: the resources queried so far; body: their versions.
IdleReader == [pc |-> "idle", key |-> SomeKey, via |-> "cache",
               got |-> {}, body |-> NoRows]

\* should_bypass_cache: ?nocache=1 and the admin role skip the cache.
Route(via) == IF via = "cache" THEN "get" ELSE "query"

\* handle_list: the request passed authentication and rate limit.
HandleList(p, k, via) ==
    /\ rd[p].pc = "idle" /\ k \in Lists
    /\ rd' = [rd EXCEPT ![p] = [IdleReader EXCEPT !.pc = Route(via), !.key = k, !.via = via]]
    /\ UNCHANGED <<db, cache, wr, faults, announced>>

\* handle_get, whose key also holds the id of the record.
HandleGet(p, k, via) ==
    /\ rd[p].pc = "idle" /\ k \notin Lists
    /\ rd' = [rd EXCEPT ![p] = [IdleReader EXCEPT !.pc = Route(via), !.key = k, !.via = via]]
    /\ UNCHANGED <<db, cache, wr, faults, announced>>

SlidingMutant(p) ==
    /\ rd[p].pc = "get"
    /\ \E r \in Replies :
          /\ Count(r)
          /\ LET entry == cache[rd[p].key] IN
             rd' = IF r.ok /\ entry # NoEntry
                   THEN [rd EXCEPT ![p].pc = "store", ![p].body = entry.body]
                   ELSE [rd EXCEPT ![p].pc = "query"]
    /\ UNCHANGED <<db, cache, wr, announced>>

\* RedisCache::get: an error counts as a miss.
CacheGet(p) ==
    /\ rd[p].pc = "get"
    /\ \E r \in Replies :
          /\ Count(r)
          /\ LET entry == cache[rd[p].key] IN
             rd' = IF r.ok /\ entry # NoEntry
                   THEN [rd EXCEPT ![p].pc = "reply", ![p].body = entry.body]
                   ELSE [rd EXCEPT ![p].pc = "query"]
    /\ UNCHANGED <<db, cache, wr, announced>>

\* the resources a response shows
Shown(k) == {Owner[k]} \union Includes[k]

\* where a request goes with resources got in its response
Queried(p, got) == IF got # Shown(rd[p].key) THEN "query"
                   ELSE IF rd[p].via = "cache" THEN "store" ELSE "reply"

\* execute_list and execute_get begin with find_all or find_by_id.
QueryRows(p) ==
    LET r == Owner[rd[p].key] IN
    /\ rd[p].pc = "query" /\ rd[p].got = {}
    /\ rd' = [rd EXCEPT ![p].body[r] = db[r], ![p].got = {r}, ![p].pc = Queried(p, {r})]
    /\ UNCHANGED <<db, cache, wr, faults, announced>>

\* load_relations: further queries, one for each included relation.
LoadRelation(p) ==
    /\ rd[p].pc = "query" /\ rd[p].got # {}
    /\ \E r \in Includes[rd[p].key] \ rd[p].got :
          rd' = [rd EXCEPT ![p].body[r] = db[r], ![p].got = @ \union {r},
                           ![p].pc = Queried(p, rd[p].got \union {r})]
    /\ UNCHANGED <<db, cache, wr, faults, announced>>

\* A failed query, a record that is not there or not the caller's: the
\* request ends before anything is stored.
QueryErr(p) ==
    /\ rd[p].pc = "query"
    /\ rd' = [rd EXCEPT ![p] = IdleReader]
    /\ UNCHANGED <<db, cache, wr, faults, announced>>

\* RedisCache::set, one SETEX; its error is ignored.
CacheStore(p) ==
    /\ rd[p].pc = "store"
    /\ \E r \in Replies :
          /\ Count(r)
          /\ cache' = IF r.applied
                      THEN [cache EXCEPT ![rd[p].key] =
                              [body |-> rd[p].body, asof |-> db[Owner[rd[p].key]]]]
                      ELSE cache
    /\ rd' = [rd EXCEPT ![p].pc = "reply"]
    /\ UNCHANGED <<db, wr, announced>>

Reply(p) ==
    /\ rd[p].pc = "reply"
    /\ rd' = [rd EXCEPT ![p] = IdleReader]
    /\ UNCHANGED <<db, cache, wr, faults, announced>>

-----------------------------------------------------------------------------
(* Write requests *)

\* left: rows still to write; vers: the versions its commits made, until
\* their events are sent; keys: what KEYS returned.
IdleWriter == [pc |-> "idle", res |-> CHOOSE r \in Resources : TRUE,
               kind |-> "create", left |-> 0, vers |-> {}, keys |-> {}]

RowsCommitted == FoldSet(LAMBDA r, n : db[r] + n, 0, Resources)

RowsUnderWay == FoldSet(LAMBDA w, n : wr[w].left + n, 0, Writers)

BulkForgetsMutant(kind) ==
    CASE kind \in {"create", "update"} -> "after"
      [] kind \in Bulk -> "emit"
      [] OTHER -> "keys"

\* where a handler goes once its last row is written
AfterWrite(kind) == IF kind \in {"create", "update"} THEN "after" ELSE "keys"

\* A write handler has passed authentication, rate limit, input extraction,
\* tenant and owner checks, validation and the before-controller, none of
\* which changes this state, and is about to write n rows.
Begin(w, r, kind, n) ==
    /\ wr[w].pc = "idle" /\ kind \in Handlers
    /\ RowsCommitted + RowsUnderWay + n <= MaxWrites
    /\ wr' = [wr EXCEPT ![w] =
                [IdleWriter EXCEPT !.res = r, !.kind = kind, !.left = n,
                                   !.pc = IF n = 0 THEN AfterWrite(kind) ELSE "write"]]
    /\ UNCHANGED <<db, cache, rd, faults, announced>>

HandleCreate(w, r) == Begin(w, r, "create", 1)

HandleUpdate(w, r) == Begin(w, r, "update", 1)

HandleDelete(w, r) == Begin(w, r, "delete", 1)

\* The multipart variants and the GraphQL mutations run no controllers.
HandleCreateUpload(w, r) == Begin(w, r, "plain_create", 1)

HandleUpdateUpload(w, r) == Begin(w, r, "plain_update", 1)

CreateMutation(w, r) == Begin(w, r, "plain_create", 1)

UpdateMutation(w, r) == Begin(w, r, "plain_update", 1)

DeleteMutation(w, r) == Begin(w, r, "delete", 1)

\* at least one item, and at most 500
HandleBulkCreate(w, r) == \E n \in 1 .. BulkItems : Begin(w, r, "bulk_create", n)

\* any number of ids, also none: then only the invalidation is left
HandleBulkDelete(w, r) == \E n \in 0 .. BulkItems : Begin(w, r, "bulk_delete", n)

\* The handler is over: its local state is gone.
End(w) == wr' = [wr EXCEPT ![w] = IdleWriter]

\* One insert, update or delete.
Commit(w) ==
    /\ wr[w].pc = "write"
    /\ LET r == wr[w].res
           v == db[r] + 1
       IN  /\ db' = [db EXCEPT ![r] = v]
           /\ wr' = [wr EXCEPT ![w].vers = @ \union {v},
                               ![w].left = @ - 1,
                               ![w].pc = IF wr[w].left = 1
                                         THEN AfterWrite(wr[w].kind) ELSE "write"]
    /\ UNCHANGED <<cache, rd, faults, announced>>

\* The row is refused, by validation in the loop of the bulk handlers or by
\* the database, and the handler returns with `?`, earlier rows of a bulk
\* request stay written; or the reply is lost and the row is written too.
CommitErr(w) ==
    /\ wr[w].pc = "write"
    /\ \/ UNCHANGED <<db, faults>>
       \/ /\ db' = [db EXCEPT ![wr[w].res] = @ + 1]
          /\ faults < MaxFaults /\ faults' = faults + 1
    /\ End(w)
    /\ UNCHANGED <<cache, rd, announced>>

\* run_after_controller: an Err ends the request, after the row was written
\* and before any side effect.
AfterController(w) ==
    /\ wr[w].pc = "after"
    /\ wr' = [wr EXCEPT ![w].pc = "keys"] \/ End(w)
    /\ UNCHANGED <<db, cache, rd, faults, announced>>

\* invalidate_cache takes the first invalidate_on it finds among the
\* endpoints of the resource.
FirstList(r) == LET lists == SelectSeq(InvalidateOn[r], LAMBDA l : l # NoList)
                IN  IF lists = << >> THEN NoList ELSE Head(lists)

\* invalidate_if_needed: without a list every write invalidates.
ShouldInvalidate(r, kind) == FirstList(r) # NoList => Action[kind] \in FirstList(r)

FirstEndpointMutant(r) ==
    {k \in Keys : Owner[k] = r /\ cache[k] # NoEntry /\ Endpoint[k] = 1}

\* what KEYS shaperail:<resource>:* matches
Matching(r) == {k \in Keys : Owner[k] = r /\ cache[k] # NoEntry}

\* The action is not on the list: nothing is invalidated.
InvalidateSkip(w) ==
    /\ wr[w].pc = "keys"
    /\ ~ShouldInvalidate(wr[w].res, wr[w].kind)
    /\ wr' = [wr EXCEPT ![w].pc = "emit"]
    /\ UNCHANGED <<db, cache, rd, faults, announced>>

\* invalidate_resource, first command; nothing to delete or an error ends it.
InvalidateKeys(w) ==
    /\ wr[w].pc = "keys"
    /\ ShouldInvalidate(wr[w].res, wr[w].kind)
    /\ LET found == Matching(wr[w].res) IN
       \E r \in Replies :
          /\ Count(r)
          /\ wr' = IF r.ok /\ found # {}
                   THEN [wr EXCEPT ![w].pc = "del", ![w].keys = found]
                   ELSE [wr EXCEPT ![w].pc = "emit"]
    /\ UNCHANGED <<db, cache, rd, announced>>

\* second command: DEL of those keys; its error is ignored.
InvalidateDel(w) ==
    /\ wr[w].pc = "del"
    /\ \E r \in Replies :
          /\ Count(r)
          /\ cache' = [k \in Keys |-> IF r.applied /\ k \in wr[w].keys
                                      THEN NoEntry ELSE cache[k]]
    /\ wr' = [wr EXCEPT ![w].pc = "emit", ![w].keys = {}]
    /\ UNCHANGED <<db, rd, announced>>

\* auto_emit_event, emit_declared_events and enqueue_declared_jobs, row by
\* row; an error is logged and ignored.
Emit(w) ==
    /\ wr[w].pc = "emit"
    /\ \E v \in wr[w].vers :
          /\ \A u \in wr[w].vers : v <= u
          /\ \E r \in Replies :
                /\ Count(r)
                /\ announced' = IF r.applied
                                THEN [announced EXCEPT ![wr[w].res] = @ \union {v}]
                                ELSE announced
          /\ wr' = [wr EXCEPT ![w].vers = @ \ {v}]
    /\ UNCHANGED <<db, cache, rd>>

\* The handler answers 2xx.
Respond(w) ==
    /\ wr[w].pc = "emit" /\ wr[w].vers = {}
    /\ End(w)
    /\ UNCHANGED <<db, cache, rd, faults, announced>>

-----------------------------------------------------------------------------
\* The process dies, or actix drops the handler of a closed connection at an
\* await: nothing after that point happens.
ReaderDropped(p) ==
    /\ rd[p].pc # "idle" /\ faults < MaxFaults
    /\ faults' = faults + 1
    /\ rd' = [rd EXCEPT ![p] = IdleReader]
    /\ UNCHANGED <<db, cache, wr, announced>>

WriterDropped(w) ==
    /\ wr[w].pc # "idle" /\ faults < MaxFaults
    /\ faults' = faults + 1
    /\ End(w)
    /\ UNCHANGED <<db, cache, rd, announced>>

\* Redis drops a key when its TTL is over.
Expire(k) ==
    /\ cache[k] # NoEntry
    /\ cache' = [cache EXCEPT ![k] = NoEntry]
    /\ UNCHANGED <<db, rd, wr, faults, announced>>

Init ==
    /\ db = [r \in Resources |-> 0]
    /\ cache = [k \in Keys |-> NoEntry]
    /\ rd = [p \in Readers |-> IdleReader]
    /\ wr = [w \in Writers |-> IdleWriter]
    /\ faults = 0
    /\ announced = [r \in Resources |-> {}]

Read(p) == \/ CacheGet(p) \/ QueryRows(p) \/ LoadRelation(p) \/ QueryErr(p)
           \/ CacheStore(p) \/ Reply(p)

Write(w) == \/ Commit(w) \/ CommitErr(w) \/ AfterController(w)
            \/ InvalidateSkip(w) \/ InvalidateKeys(w) \/ InvalidateDel(w)
            \/ Emit(w) \/ Respond(w)

Next ==
    \/ \E p \in Readers :
          \/ \E k \in Keys, via \in {"cache", "db"} :
                HandleList(p, k, via) \/ HandleGet(p, k, via)
          \/ Read(p) \/ ReaderDropped(p)
    \/ \E w \in Writers :
          \/ \E r \in Resources :
                \/ HandleCreate(w, r) \/ HandleUpdate(w, r) \/ HandleDelete(w, r)
                \/ HandleCreateUpload(w, r) \/ HandleUpdateUpload(w, r)
                \/ CreateMutation(w, r) \/ UpdateMutation(w, r) \/ DeleteMutation(w, r)
                \/ HandleBulkCreate(w, r) \/ HandleBulkDelete(w, r)
          \/ Write(w) \/ WriterDropped(w)
    \/ \E k \in Keys : Expire(k)

Spec == Init /\ [][Next]_vars

\* Every entry has a TTL, and tokio keeps running a started request.
Fairness == /\ \A k \in Keys : WF_vars(Expire(k))
            /\ \A p \in Readers : WF_vars(Read(p))
            /\ \A w \in Writers : WF_vars(Write(w))

LiveSpec == Spec /\ Fairness

-----------------------------------------------------------------------------
Body == [Resources -> Nat]
Entry == [body : Body, asof : Nat]

\* The type invariant; a response is stored only when it is complete.
TypeOK ==
    /\ db \in [Resources -> Nat]
    /\ cache \in [Keys -> Entry \union {NoEntry}]
    /\ rd \in [Readers -> [pc : {"idle", "get", "query", "store", "reply"},
                           key : Keys, via : {"cache", "db"},
                           got : SUBSET Resources, body : Body]]
    /\ \A p \in Readers : rd[p].pc = "store" => rd[p].got = Shown(rd[p].key)
    /\ wr \in [Writers -> [pc : {"idle", "write", "after", "keys", "del", "emit"},
                           res : Resources, kind : Kinds, left : 0 .. BulkItems,
                           vers : SUBSET Nat, keys : SUBSET Keys]]
    /\ \A w \in Writers : wr[w].pc = "write" => wr[w].left > 0
    /\ faults \in 0 .. MaxFaults
    /\ announced \in [Resources -> SUBSET Nat]

\* the keys of r whose response was stored before version v was committed
StoredBefore(r, v) ==
    {k \in Keys : Owner[k] = r /\ cache[k] # NoEntry /\ cache[k].asof < v}

\* KEYS and DEL are two commands, yet nothing slips between them: what a
\* request is about to delete includes every response stored before one of
\* its writes, however many readers fill keys in the meantime.
SnapshotCovers ==
    \A w \in Writers : wr[w].pc = "del" =>
       \A v \in wr[w].vers : StoredBefore(wr[w].res, v) \subseteq wr[w].keys

\* While Redis works, the invalidation of a write is over before its event
\* is sent: whoever reacts to the event (a webhook, a job, a WebSocket
\* client) by reading the resource finds no response stored before the write.
EventsSeeFreshCache ==
    \A w \in Writers :
       faults = 0 /\ wr[w].pc = "emit" /\ ShouldInvalidate(wr[w].res, wr[w].kind)
       => \A v \in wr[w].vers : StoredBefore(wr[w].res, v) = {}

VersionsCommitted ==
    \A w \in Writers : \A v \in wr[w].vers : v <= db[wr[w].res]

\* The inductive invariant: what a request wrote is committed, so a response
\* stored from now on is not older, and the snapshot covers the others.
CacheInv == /\ TypeOK /\ VersionsCommitted
            /\ SnapshotCovers /\ EventsSeeFreshCache

Stale(k) == cache[k] # NoEntry /\ \E r \in Shown(k) : cache[k].body[r] < db[r]

\* Whatever races filled the cache, old responses are gone for good some
\* time after the last write: a hit never extends the life of an entry and
\* never stores it again.
StaleHeals == \A k \in Keys : <>[]~Stale(k)

-----------------------------------------------------------------------------
(* What the documentation says and the code does not do. *)

\* the name docs/caching.md uses in invalidate_on for what a handler does
DocumentedAction ==
    [create |-> "create", plain_create |-> "create", bulk_create |-> "create",
     update |-> "update", plain_update |-> "update",
     delete |-> "delete", bulk_delete |-> "delete"]

\* docs/caching.md: the operations listed in invalidate_on clear the cache.
ListedActionsInvalidate ==
    \A w \in Writers :
       /\ wr[w].pc = "emit" /\ FirstList(wr[w].res) # NoList
       /\ DocumentedAction[wr[w].kind] \in FirstList(wr[w].res)
       => \A v \in wr[w].vers : StoredBefore(wr[w].res, v) = {}
=============================================================================
