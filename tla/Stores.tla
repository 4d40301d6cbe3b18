------------------------------- MODULE Stores -------------------------------
(***************************************************************************)
(* The stores behind a resource: ResourceQuery (db/query.rs), the modules  *)
(* that `shaperail generate` writes, OrmResourceQuery (db/orm_query.rs)    *)
(* for SQLite and MySQL, and MongoBackedStore (db/mongo.rs), with cursor   *)
(* and offset pagination.  Every statement sent to the database is a step, *)
(* so writers and readers interleave where the code sends two.             *)
(*                                                                         *)
(* A row has an id, ordered like the UUIDs that cursors compare, and one   *)
(* field that filters and sorts look at.  Ids are random: an insert takes  *)
(* any unused one.                                                         *)
(***************************************************************************)
EXTENDS Naturals, FiniteSets

CONSTANTS
    Ids,        \* a set of positive numbers
    Values,     \* of the field
    Writers,
    Readers,
    Engines,    \* engines the resource may be stored in
    Listings,   \* what a reader may ask for: [mode, sort, filter]
    Stocks,     \* what the table may hold at first
    Limit,      \* page size after clamped_limit
    MaxWrites   \* bound: write operations of all writers

ASSUME StoresAssumption ==
    /\ Ids \subseteq Nat \ {0} /\ IsFiniteSet(Ids) /\ Values \subseteq Nat
    /\ Limit \in Nat \ {0} /\ MaxWrites \in Nat
    /\ Engines \subseteq {"postgres", "generated", "sqlite", "mysql", "mongodb"}
    /\ Stocks \subseteq [Ids -> [is : {"absent", "live"}, val : Values]]

VARIABLES
    engine,    \* the engine in use
    soft,      \* has_soft_delete: an endpoint of the resource deletes softly
    numeric,   \* whether the field is an integer, and not text
    rows,      \* rows[id]: [is, val]; is: absent, live, deleted, removed
    writer,    \* writer[w]: the operation, its next statement, its answer
    walk,      \* walk[r]: the listing a reader pages through
    writes     \* operations started

vars == <<engine, soft, numeric, rows, writer, walk, writes>>

Unfiltered == 99   \* no filter in the listing

Idle == [op |-> "none", id |-> 0, at |-> "done", answer |-> "none", wrote |-> FALSE]

\* a row is visible while deleted_at is NULL
Visible(id) == rows[id].is = "live"
NotDeleted == {id \in Ids : Visible(id)}

\* The ORM: SQLite and PostgreSQL return the row they write, MySQL does not.
supports_returning == engine # "mysql"

-----------------------------------------------------------------------------
(* Filters, order and pages *)

\* The query string names a value of the field as text; ResourceQuery parses
\* it as the type of the field, and so do the ORM and the generated modules.
coerce_filter_value(raw) == raw
coerce_filter_to_sea_value(raw) == raw
generate_filter_declaration(raw) == raw

\* The MongoDB store converts the text as if it were a JSON value of the type:
\* an integer field gets as_i64 of a string, which is none, and so 0.
json_to_bson(raw) == IF numeric THEN 0 ELSE raw

FilterValue(raw) ==
    CASE engine = "postgres"  -> coerce_filter_value(raw)
      [] engine = "generated" -> generate_filter_declaration(raw)
      [] engine = "mongodb"   -> json_to_bson(raw)
      [] OTHER                -> coerce_filter_to_sea_value(raw)

Selected(list, id) == list.filter = Unfiltered \/ rows[id].val = FilterValue(list.filter)

\* ORDER BY of ResourceQuery, of the ORM and of MongoDB is the sort; without
\* one it is the id, for cursor pages only.  x may come before y:
DynamicOrder(list, x, y) ==
    IF list.sort THEN rows[x].val <= rows[y].val
    ELSE list.mode = "cursor" => x <= y

\* The generated ORDER BY always ends with the id.
generate_order_by(list, x, y) ==
    \/ list.sort /\ rows[x].val < rows[y].val
    \/ x <= y /\ (list.sort => rows[x].val = rows[y].val)

Before(list, x, y) ==
    IF engine = "generated" THEN generate_order_by(list, x, y) ELSE DynamicOrder(list, x, y)

CursorIncludedMutant(list, cursor) ==
    {id \in NotDeleted : Selected(list, id) /\ id >= cursor}

\* WHERE: not deleted, the filters, and the id beyond the cursor
Matching(list, cursor) == {id \in NotDeleted : Selected(list, id) /\ id > cursor}

Smaller(m, n) == IF m < n THEN m ELSE n

\* LIMIT n OFFSET from: the sets that are the rows at these places in one of
\* the orders that ORDER BY allows
Pages(list, S, from, n) ==
    LET skip == Smaller(from, Cardinality(S))
    IN  {T \in SUBSET S :
            /\ Cardinality(T) = Smaller(n, Cardinality(S) - skip)
            /\ \E H \in SUBSET (S \ T) :
                  /\ Cardinality(H) = skip
                  /\ \A x \in H, y \in S \ H : Before(list, x, y)
                  /\ \A x \in T, y \in S \ (H \union T) : Before(list, x, y)}

\* the rows that may be the last of a page
LastOf(list, T) == {x \in T : \A y \in T : Before(list, y, x)}

ListBegins(r, list) ==
    /\ walk[r].at = "idle"
    /\ walk' = [walk EXCEPT ![r] =
          [at |-> "paging", list |-> list, cursor |-> 0, calm |-> TRUE,
           seen |-> [id \in Ids |-> 0],
           owed |-> {id \in NotDeleted : list.filter \in {Unfiltered, rows[id].val}}]]
    /\ UNCHANGED <<engine, soft, numeric, rows, writer, writes>>

\* The page arrives: its rows are counted, up to twice; the client asks for what follows,
\* if the answer says that there is more.
Arrives(r, T, more, next) ==
    walk' = [walk EXCEPT ![r].seen = [id \in Ids |->
                             IF id \in T THEN Smaller(walk[r].seen[id] + 1, 2) ELSE walk[r].seen[id]],
                         ![r].cursor = next,
                         ![r].at = IF more THEN "paging" ELSE "done"]

\* find_all after a cursor: one row more than the limit tells whether there
\* is a next page, whose cursor is the id of the last row, whatever the order.
CursorPage(r) ==
    \E T \in Pages(walk[r].list, Matching(walk[r].list, walk[r].cursor), 0, Limit) :
       LET more == Cardinality(Matching(walk[r].list, walk[r].cursor)) > Limit IN
       \E x \in IF more THEN LastOf(walk[r].list, T) ELSE {walk[r].cursor} :
           Arrives(r, T, more, x)

\* find_all at an offset: the client goes on until a page is short
OffsetPage(r) ==
    \E T \in Pages(walk[r].list, Matching(walk[r].list, 0), walk[r].cursor, Limit) :
        Arrives(r, T, Cardinality(T) = Limit, walk[r].cursor + Limit)

QueryFindAll(r) ==
    /\ engine = "postgres"
    /\ IF walk[r].list.mode = "cursor" THEN CursorPage(r) ELSE OffsetPage(r)

GeneratedFindAll(r) ==
    /\ engine = "generated"
    /\ IF walk[r].list.mode = "cursor" THEN CursorPage(r) ELSE OffsetPage(r)

\* The ORM appends the condition on the cursor after ORDER BY: with a sort
\* every page but the first is a syntax error.
OrmFindAll(r) ==
    /\ engine \in {"sqlite", "mysql"}
    /\ CASE walk[r].list.mode = "offset" -> OffsetPage(r)
         [] walk[r].list.mode = "cursor" /\ walk[r].list.sort /\ walk[r].cursor > 0 ->
               walk' = [walk EXCEPT ![r].at = "failed"]
         [] OTHER -> CursorPage(r)

MongoFindAll(r) ==
    /\ engine = "mongodb"
    /\ IF walk[r].list.mode = "cursor" THEN CursorPage(r) ELSE OffsetPage(r)

find_all(r) ==
    /\ walk[r].at = "paging"
    /\ QueryFindAll(r) \/ GeneratedFindAll(r) \/ OrmFindAll(r) \/ MongoFindAll(r)
    /\ UNCHANGED <<engine, soft, numeric, rows, writer, writes>>

-----------------------------------------------------------------------------
(* Writes *)

\* A statement changes a row.  A reader is owed the rows that stay as they
\* were when it began.
Set(id, is, val) ==
    /\ rows' = [rows EXCEPT ![id] = [is |-> is, val |-> val]]
    /\ walk' = [r \in Readers |-> [walk[r] EXCEPT !.owed = @ \ {id}, !.calm = FALSE]]

Starts(w, op, id, at, answer, wrote) ==
    /\ writer[w].at = "done" /\ writes < MaxWrites
    /\ writer' = [writer EXCEPT ![w] =
          [op |-> op, id |-> id, at |-> at, answer |-> answer, wrote |-> wrote]]
    /\ writes' = writes + 1
    /\ UNCHANGED <<engine, soft, numeric>>

\* one statement that changes the row, if it qualifies, and returns it
Returning(w, op, id, is, val, qualifies) ==
    \/ qualifies /\ Set(id, is, val) /\ Starts(w, op, id, "done", "ok", TRUE)
    \/ ~qualifies /\ Starts(w, op, id, "done", "not_found", FALSE) /\ UNCHANGED <<rows, walk>>

\* the same in two: the row is read back
ThenRead(w, op, id, is, val, qualifies) ==
    \/ qualifies /\ Set(id, is, val) /\ Starts(w, op, id, "fetch", "none", TRUE)
    \/ ~qualifies /\ Starts(w, op, id, "done", "not_found", FALSE) /\ UNCHANGED <<rows, walk>>

\* the ORM's way depends on the engine
OrmWrite(w, op, id, is, val, qualifies) ==
    IF supports_returning THEN Returning(w, op, id, is, val, qualifies)
    ELSE ThenRead(w, op, id, is, val, qualifies)

Sql == {"sqlite", "mysql"}
Stored(id) == rows[id].is \in {"live", "deleted"}
Fresh(id) == rows[id].is = "absent"

QueryInsert(w, id, v) ==
    engine = "postgres" /\ Fresh(id) /\ Returning(w, "insert", id, "live", v, TRUE)
generate_insert_body(w, id, v) ==
    engine = "generated" /\ Fresh(id) /\ Returning(w, "insert", id, "live", v, TRUE)
OrmInsert(w, id, v) ==
    engine \in Sql /\ Fresh(id) /\ OrmWrite(w, "insert", id, "live", v, TRUE)
MongoInsert(w, id, v) ==
    engine = "mongodb" /\ Fresh(id) /\ ThenRead(w, "insert", id, "live", v, TRUE)

UpdateDeletedMutant(w, id, v) ==
    engine = "postgres" /\ Returning(w, "update", id, "live", v, Stored(id))

QueryUpdate(w, id, v) ==
    engine = "postgres" /\ Returning(w, "update", id, "live", v, Visible(id))
generate_update_body(w, id, v) ==
    engine = "generated" /\ Returning(w, "update", id, "live", v, Visible(id))
OrmUpdate(w, id, v) ==
    engine \in Sql /\ OrmWrite(w, "update", id, "live", v, Visible(id))
MongoUpdate(w, id, v) ==
    engine = "mongodb" /\ ThenRead(w, "update", id, "live", v, Visible(id))

QuerySoftDelete(w, id) ==
    engine = "postgres" /\ soft /\ Returning(w, "soft_delete", id, "deleted", rows[id].val, Visible(id))

\* Without deleted_at the generated soft delete is its hard delete.
generate_soft_delete_body(w, id) ==
    /\ engine = "generated"
    /\ Returning(w, "soft_delete", id, IF soft THEN "deleted" ELSE "removed", rows[id].val, Visible(id))

OrmSoftDelete(w, id) ==
    engine \in Sql /\ soft /\ OrmWrite(w, "soft_delete", id, "deleted", rows[id].val, Visible(id))
MongoSoftDelete(w, id) ==
    engine = "mongodb" /\ soft /\ ThenRead(w, "soft_delete", id, "deleted", rows[id].val, Visible(id))

\* ResourceQuery and the generated modules delete in one statement, rows that
\* are soft-deleted too.
QueryHardDelete(w, id) ==
    engine = "postgres" /\ Returning(w, "hard_delete", id, "removed", rows[id].val, Stored(id))
generate_hard_delete_body(w, id) ==
    engine = "generated" /\ Returning(w, "hard_delete", id, "removed", rows[id].val, Stored(id))

\* The ORM and MongoDB look the row up first ...
LookUp(w, id) ==
    /\ IF Visible(id) THEN Starts(w, "hard_delete", id, "remove", "none", FALSE)
       ELSE Starts(w, "hard_delete", id, "done", "not_found", FALSE)
    /\ UNCHANGED <<rows, walk>>
OrmHardDelete(w, id) == engine \in Sql /\ LookUp(w, id)
MongoHardDelete(w, id) == engine = "mongodb" /\ LookUp(w, id)

Answers(w, answer, wrote) ==
    /\ writer' = [writer EXCEPT ![w].at = "done", ![w].answer = answer, ![w].wrote = wrote]
    /\ UNCHANGED <<engine, soft, numeric, writes>>

\* ... and answer with it whether or not the DELETE finds it.
Remove(w) ==
    /\ writer[w].at = "remove"
    /\ IF Stored(writer[w].id) THEN Set(writer[w].id, "removed", rows[writer[w].id].val)
       ELSE UNCHANGED <<rows, walk>>
    /\ Answers(w, "ok", Stored(writer[w].id))

\* MySQL reads back with find_by_id, which does not see deleted rows.
OrmReadsBack(w) ==
    /\ writer[w].at = "fetch" /\ engine = "mysql"
    /\ Answers(w, IF Visible(writer[w].id) THEN "ok" ELSE "not_found", TRUE)
    /\ UNCHANGED <<rows, walk>>

ActiveOnlyMutant(w) ==
    /\ writer[w].at = "fetch" /\ engine = "mongodb"
    /\ Answers(w, IF Visible(writer[w].id) THEN "ok" ELSE "not_found", TRUE)
    /\ UNCHANGED <<rows, walk>>

\* MongoDB reads back an updated document with the filter of the update, a
\* soft-deleted one by its key; an insert is answered in any case.
MongoReadsBack(w) ==
    /\ writer[w].at = "fetch" /\ engine = "mongodb"
    /\ LET found == CASE writer[w].op = "insert" -> TRUE
                      [] writer[w].op = "update" -> Visible(writer[w].id)
                      [] OTHER                   -> Stored(writer[w].id)
       IN  Answers(w, IF found THEN "ok" ELSE "not_found", TRUE)
    /\ UNCHANGED <<rows, walk>>

-----------------------------------------------------------------------------
Init ==
    /\ engine \in Engines /\ soft \in BOOLEAN
    /\ numeric \in BOOLEAN /\ (numeric => engine = "mongodb")   \* no other engine tells
    /\ rows \in Stocks
    /\ writer = [w \in Writers |-> Idle]
    /\ walk = [r \in Readers |->
          [at |-> "idle", list |-> CHOOSE l \in Listings : TRUE, cursor |-> 0,
           calm |-> TRUE, seen |-> [id \in Ids |-> 0], owed |-> {}]]
    /\ writes = 0

insert(w, id, v) ==
    QueryInsert(w, id, v) \/ generate_insert_body(w, id, v) \/ OrmInsert(w, id, v) \/ MongoInsert(w, id, v)

update_by_id(w, id, v) ==
    QueryUpdate(w, id, v) \/ generate_update_body(w, id, v) \/ OrmUpdate(w, id, v) \/ MongoUpdate(w, id, v)

soft_delete_by_id(w, id) ==
    QuerySoftDelete(w, id) \/ generate_soft_delete_body(w, id) \/ OrmSoftDelete(w, id) \/ MongoSoftDelete(w, id)

hard_delete_by_id(w, id) ==
    QueryHardDelete(w, id) \/ generate_hard_delete_body(w, id) \/ OrmHardDelete(w, id) \/ MongoHardDelete(w, id)

Write(w) ==
    \/ \E id \in Ids : \/ \E v \in Values : insert(w, id, v) \/ update_by_id(w, id, v)
                       \/ soft_delete_by_id(w, id) \/ hard_delete_by_id(w, id)
    \/ Remove(w) \/ OrmReadsBack(w) \/ MongoReadsBack(w)

Read(r) == (\E list \in Listings : ListBegins(r, list)) \/ find_all(r)

Next == (\E w \in Writers : Write(w)) \/ (\E r \in Readers : Read(r))

Spec == Init /\ [][Next]_vars

-----------------------------------------------------------------------------
(* Properties *)

\* Every variable has its type.
TypeOK ==
    /\ engine \in Engines /\ soft \in BOOLEAN /\ numeric \in BOOLEAN
    /\ rows \in [Ids -> [is : {"absent", "live", "deleted", "removed"}, val : Values \union {0}]]
    /\ \A w \in Writers : /\ writer[w].at \in {"done", "fetch", "remove"}
                          /\ writer[w].answer \in {"none", "ok", "not_found"}
    /\ \A r \in Readers : /\ walk[r].at \in {"idle", "paging", "done", "failed"}
                          /\ walk[r].owed \subseteq Ids
    /\ writes \in 0..MaxWrites

\* A client that follows the cursors of an unsorted listing to the end gets
\* every row that was there all the time, and none twice, whatever is
\* inserted, changed and deleted meanwhile and however the ids fall; the
\* MongoDB filter on a number is the exception.
WalkComplete ==
    \A r \in Readers : walk[r].list.mode = "cursor" /\ ~walk[r].list.sort =>
        /\ \A id \in Ids : walk[r].seen[id] <= 1
        /\ (walk[r].at = "done" /\ ~(engine = "mongodb" /\ numeric)) =>
              \A id \in walk[r].owed : walk[r].seen[id] = 1

\* Offset pages of the generated modules, whose order is total, are complete
\* and without repetition as long as nobody writes, sorted or not.
OffsetWalkComplete ==
    \A r \in Readers :
        (engine = "generated" /\ walk[r].list.mode = "offset" /\ walk[r].calm) =>
        /\ \A id \in Ids : walk[r].seen[id] <= 1
        /\ walk[r].at = "done" => \A id \in walk[r].owed : walk[r].seen[id] = 1

\* Of two clients that delete or insert the same row at most one is told that
\* it did; the hard delete of the engines that look the row up first is the
\* exception.
DeletedOnce ==
    \A v, w \in Writers :
        /\ v # w /\ writer[v].id = writer[w].id /\ writer[v].op = writer[w].op
        /\ writer[v].answer = "ok" /\ writer[w].answer = "ok"
        => \/ writer[v].op = "update"
           \/ writer[v].op = "hard_delete" /\ engine \in Sql \union {"mongodb"}

\* A client that is told "not found" changed nothing, unless the row was deleted
\* between its write and its read: of a soft delete that means for good, but for
\* MySQL, which reads back what it has just hidden.
NotFoundMeansUntouched ==
    \A w \in Writers : writer[w].answer = "not_found" /\ writer[w].wrote =>
        /\ engine \in {"mysql", "mongodb"} /\ ~Visible(writer[w].id)
        /\ writer[w].op = "soft_delete" =>
              engine = "mysql" \/ rows[writer[w].id].is = "removed"

\* Following the cursors of an unsorted listing, or the pages of a generated
\* one while nothing is written, returns every row that was there all the time,
\* and none twice.
WalksComplete == WalkComplete /\ OffsetWalkComplete

\* The answers of writes tell the truth: not found means that nothing was
\* changed, and of two clients that delete or insert a row one is told that it
\* did.
AnswersTrue == TypeOK /\ NotFoundMeansUntouched /\ DeletedOnce

Store == INSTANCE Table WITH visible <-
    [id \in Ids |-> CASE rows[id].is = "live"   -> <<"there", rows[id].val>>
                      [] rows[id].is = "absent" -> <<"free">>
                      [] OTHER                  -> <<"gone">>]

\* Every engine implements the abstract table: an id is used once, and a row
\* that is deleted, softly or not, neither changes nor comes back.
ImplementsTable == Store!Spec
=============================================================================
