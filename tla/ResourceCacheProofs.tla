------------------------ MODULE ResourceCacheProofs -------------------------
(***************************************************************************)
(* CacheInv is inductive: for any number of resources, keys, readers and   *)
(* writers, bulk requests of any size and any number of faults.            *)
(***************************************************************************)
EXTENDS ResourceCache, TLAPS

\* What the type invariant says of one request.
ReaderRec == [pc : {"idle", "get", "query", "store", "reply"},
              key : Keys, via : {"cache", "db"},
              got : SUBSET Resources, body : Body]

WriterRec == [pc : {"idle", "write", "after", "keys", "del", "emit"},
              res : Resources, kind : Kinds, left : 0 .. BulkItems,
              vers : SUBSET Nat, keys : SUBSET Keys]

\* Idle requests are well-typed.
LEMMA IdleTypes ==
    /\ IdleReader \in ReaderRec
    /\ IdleReader.pc = "idle"
    /\ IdleWriter \in WriterRec
    /\ IdleWriter.pc = "idle" /\ IdleWriter.vers = {}
<1>1. SomeKey \in Keys
  BY CacheAssumption DEF SomeKey
<1>2. (CHOOSE r \in Resources : TRUE) \in Resources
  BY CacheAssumption
<1>3. NoRows \in Body
  BY DEF NoRows, Body
<1>4. 0 \in 0 .. BulkItems
  BY CacheAssumption
<1> QED
  BY <1>1, <1>2, <1>3, <1>4 DEF IdleReader, IdleWriter, Kinds, ReaderRec, WriterRec

\* Counting a failed command keeps the counter in its range, and a counter
\* that stays 0 means the command was answered.
LEMMA CountTypes ==
    ASSUME TypeOK, NEW r \in Replies, Count(r)
    PROVE  /\ faults' \in 0 .. MaxFaults
           /\ faults' = 0 => faults = 0 /\ r.ok /\ r.applied
BY CacheAssumption DEF TypeOK, Count, Replies

\* The invariant for one writer.
WriterOK(w) ==
    /\ \A v \in wr[w].vers : v <= db[wr[w].res]
    /\ wr[w].pc = "del" =>
          \A v \in wr[w].vers : StoredBefore(wr[w].res, v) \subseteq wr[w].keys
    /\ faults = 0 /\ wr[w].pc = "emit" /\ ShouldInvalidate(wr[w].res, wr[w].kind)
       => \A v \in wr[w].vers : StoredBefore(wr[w].res, v) = {}

LEMMA ByWriter == CacheInv <=> TypeOK /\ \A w \in Writers : WriterOK(w)
BY DEF CacheInv, VersionsCommitted, SnapshotCovers, EventsSeeFreshCache, WriterOK

\* A response stored by a step is as new as what every writer has committed,
\* so a step adds nothing to what was stored before a committed version.
LEMMA NothingOlder ==
    ASSUME TypeOK, NEW r \in Resources, NEW v \in Nat, v <= db[r],
           \A k \in Keys : cache'[k] # NoEntry =>
              cache'[k] = cache[k] \/ cache'[k].asof = db[Owner[k]]
    PROVE  StoredBefore(r, v)' \subseteq StoredBefore(r, v)
BY CacheAssumption DEF StoredBefore, TypeOK

\* A step of the writers in S, or of a reader when S is empty, keeps what
\* the invariant says of the other writers.
LEMMA StepFrame ==
    ASSUME CacheInv, TypeOK', NEW S \in SUBSET Writers,
           \A u \in Writers \ S : wr'[u] = wr[u],
           \A r \in Resources : db'[r] >= db[r],
           faults' = 0 => faults = 0,
           \A k \in Keys : cache'[k] # NoEntry =>
              cache'[k] = cache[k] \/ cache'[k].asof = db[Owner[k]],
           \A w \in S : WriterOK(w)'
    PROVE  CacheInv'
<1> SUFFICES ASSUME NEW u \in Writers \ S
             PROVE  WriterOK(u)'
  BY DEF CacheInv, VersionsCommitted, SnapshotCovers, EventsSeeFreshCache, WriterOK
<1>1. TypeOK /\ WriterOK(u) /\ wr'[u] = wr[u]
  BY ByWriter
<1>2. /\ wr[u].res \in Resources /\ wr[u].vers \subseteq Nat
      /\ db[wr[u].res] \in Nat /\ db'[wr[u].res] \in Nat
      /\ db'[wr[u].res] >= db[wr[u].res]
  BY <1>1 DEF TypeOK
<1>3. PICK r \in Resources : r = wr[u].res
  BY <1>2
<1>4. \A v \in wr[u].vers : v <= db[r]
  BY <1>1, <1>3 DEF WriterOK
<1>5. \A v \in wr[u].vers : StoredBefore(r, v)' \subseteq StoredBefore(r, v)
  BY <1>1, <1>2, <1>4, NothingOlder
<1>6. \A v \in wr[u].vers : v <= db'[r]
  BY <1>2, <1>3, <1>4
<1>7. wr[u].pc = "del" => \A v \in wr[u].vers : StoredBefore(r, v)' \subseteq wr[u].keys
  BY <1>1, <1>3, <1>5 DEF WriterOK
<1>8. faults' = 0 /\ wr[u].pc = "emit" /\ ShouldInvalidate(r, wr[u].kind)
      => \A v \in wr[u].vers : StoredBefore(r, v)' = {}
  BY <1>1, <1>3, <1>5 DEF WriterOK
<1> QED
  BY <1>1, <1>3, <1>6, <1>7, <1>8 DEF WriterOK, StoredBefore

\* The same for a step that leaves the writers alone.
LEMMA QuietFrame ==
    ASSUME CacheInv, TypeOK',
           \A u \in Writers : wr'[u] = wr[u],
           \A r \in Resources : db'[r] >= db[r],
           faults' = 0 => faults = 0,
           \A k \in Keys : cache'[k] # NoEntry =>
              cache'[k] = cache[k] \/ cache'[k].asof = db[Owner[k]]
    PROVE  CacheInv'
<1>1. {} \in SUBSET Writers
  OBVIOUS
<1>2. \A u \in Writers \ {} : wr'[u] = wr[u]
  OBVIOUS
<1>3. \A w \in {} : WriterOK(w)'
  OBVIOUS
<1> HIDE DEF CacheInv, TypeOK, WriterOK
<1> QED
  BY <1>1, <1>2, <1>3, StepFrame, Zenon

-----------------------------------------------------------------------------
\* Initially nothing is stored and nobody is at work.
LEMMA InitInv == Init => CacheInv
<1> SUFFICES ASSUME Init PROVE CacheInv
  OBVIOUS
<1>1. TypeOK
  BY IdleTypes, CacheAssumption DEF Init, TypeOK, ReaderRec, WriterRec
<1>2. \A w \in Writers : WriterOK(w)
  BY IdleTypes DEF Init, WriterOK
<1> QED
  BY <1>1, <1>2, ByWriter

\* A step of a reader that stores nothing.
LEMMA ReaderTypes ==
    ASSUME TypeOK, NEW p \in Readers, NEW rec,
           rec \in ReaderRec,
           rec.pc = "store" => rec.got = Shown(rec.key),
           rd' = [rd EXCEPT ![p] = rec],
           faults' \in 0 .. MaxFaults,
           UNCHANGED <<db, wr, announced>>,
           cache' \in [Keys -> Entry \union {NoEntry}]
    PROVE  TypeOK'
BY DEF TypeOK, Shown, ReaderRec

LEMMA ReaderStep ==
    ASSUME CacheInv, NEW p \in Readers, NEW rec,
           rec \in ReaderRec,
           rec.pc = "store" => rec.got = Shown(rec.key),
           rd' = [rd EXCEPT ![p] = rec],
           faults' \in 0 .. MaxFaults, faults' = 0 => faults = 0,
           UNCHANGED <<db, cache, wr, announced>>
    PROVE  CacheInv'
<1>1. TypeOK
  BY DEF CacheInv
<1>2. TypeOK'
  BY <1>1, ReaderTypes DEF TypeOK
<1>3. \A r \in Resources : db'[r] >= db[r]
  BY <1>1 DEF TypeOK
<1>4. \A k \in Keys : cache'[k] = cache[k]
  OBVIOUS
<1>5. \A u \in Writers : wr'[u] = wr[u]
  OBVIOUS
<1> QED
  BY <1>2, <1>3, <1>4, <1>5, QuietFrame

\* A GET request begins.
LEMMA BeginsRead ==
    ASSUME CacheInv, NEW p \in Readers, NEW k \in Keys, NEW via \in {"cache", "db"},
           HandleList(p, k, via) \/ HandleGet(p, k, via)
    PROVE  CacheInv'
<1> DEFINE rec == [IdleReader EXCEPT !.pc = Route(via), !.key = k, !.via = via]
<1>1. rec \in ReaderRec /\ rec.pc # "store"
  BY IdleTypes DEF ReaderRec, Route
<1>2. rd' = [rd EXCEPT ![p] = rec] /\ UNCHANGED <<db, cache, wr, faults, announced>>
  BY DEF HandleList, HandleGet
<1>3. faults' \in 0 .. MaxFaults
  BY <1>2 DEF CacheInv, TypeOK
<1> HIDE DEF rec
<1> QED
  BY <1>1, <1>2, <1>3, ReaderStep

\* A request looks up its key.
LEMMA Gets ==
    ASSUME CacheInv, NEW p \in Readers, CacheGet(p)
    PROVE  CacheInv'
<1> DEFINE hit  == [rd[p] EXCEPT !.pc = "reply", !.body = cache[rd[p].key].body]
           miss == [rd[p] EXCEPT !.pc = "query"]
<1>1. TypeOK /\ rd[p] \in ReaderRec
  BY DEF CacheInv, TypeOK, ReaderRec
<1>2. PICK r \in Replies :
        /\ Count(r)
        /\ rd' = IF r.ok /\ cache[rd[p].key] # NoEntry
                 THEN [rd EXCEPT ![p] = hit] ELSE [rd EXCEPT ![p] = miss]
  BY DEF CacheGet
<1>3. miss \in ReaderRec /\ miss.pc # "store"
  BY <1>1 DEF ReaderRec
<1>4. cache[rd[p].key] # NoEntry => hit \in ReaderRec /\ hit.pc # "store"
  <2>1. cache[rd[p].key] # NoEntry => cache[rd[p].key] \in Entry
    BY <1>1 DEF TypeOK, ReaderRec
  <2>2. cache[rd[p].key] # NoEntry => cache[rd[p].key].body \in Body
    BY <2>1 DEF Entry
  <2> QED
    BY <1>1, <2>2 DEF ReaderRec
<1>5. faults' \in 0 .. MaxFaults /\ (faults' = 0 => faults = 0)
  BY <1>1, <1>2, CountTypes
<1>6. UNCHANGED <<db, cache, wr, announced>>
  BY DEF CacheGet
<1> HIDE DEF hit, miss
<1>7. CASE rd' = [rd EXCEPT ![p] = hit] /\ cache[rd[p].key] # NoEntry
  BY <1>4, <1>5, <1>6, <1>7, ReaderStep
<1>8. CASE rd' = [rd EXCEPT ![p] = miss]
  BY <1>3, <1>5, <1>6, <1>8, ReaderStep
<1> QED
  BY <1>2, <1>7, <1>8

\* The rows of the resource itself.
LEMMA QueriesRows ==
    ASSUME CacheInv, NEW p \in Readers, QueryRows(p)
    PROVE  CacheInv'
<1> DEFINE r == Owner[rd[p].key]
           rec == [rd[p] EXCEPT !.body = [rd[p].body EXCEPT ![r] = db[r]],
                                !.got = {r}, !.pc = Queried(p, {r})]
<1>1. TypeOK /\ rd[p] \in ReaderRec
  BY DEF CacheInv, TypeOK, ReaderRec
<1>2. r \in Resources /\ db[r] \in Nat
  BY <1>1, CacheAssumption DEF TypeOK, ReaderRec
<1>3. [rd[p].body EXCEPT ![r] = db[r]] \in Body
  BY <1>1, <1>2 DEF ReaderRec, Body
<1>4. Queried(p, {r}) \in {"query", "store", "reply"}
      /\ (Queried(p, {r}) = "store" => {r} = Shown(rd[p].key))
  BY DEF Queried
<1> HIDE DEF r
<1>5. rec \in ReaderRec
  BY <1>1, <1>2, <1>3, <1>4 DEF ReaderRec
<1>6. rec.pc = "store" => rec.got = Shown(rec.key)
  BY <1>1, <1>4 DEF ReaderRec
<1>7. rd' = [rd EXCEPT ![p] = rec] /\ UNCHANGED <<db, cache, wr, faults, announced>>
  BY <1>1 DEF QueryRows, r, TypeOK
<1>8. faults' \in 0 .. MaxFaults
  BY <1>1, <1>7 DEF TypeOK
<1> HIDE DEF rec
<1> QED
  BY <1>5, <1>6, <1>7, <1>8, ReaderStep

\* The rows of an included resource.
LEMMA LoadsRelation ==
    ASSUME CacheInv, NEW p \in Readers, LoadRelation(p)
    PROVE  CacheInv'
<1>1. TypeOK /\ rd[p] \in ReaderRec
  BY DEF CacheInv, TypeOK, ReaderRec
<1>2. PICK r \in Includes[rd[p].key] \ rd[p].got :
        rd' = [rd EXCEPT ![p].body[r] = db[r], ![p].got = @ \union {r},
                         ![p].pc = Queried(p, rd[p].got \union {r})]
  BY DEF LoadRelation
<1> DEFINE got == rd[p].got \union {r}
           rec == [rd[p] EXCEPT !.body = [rd[p].body EXCEPT ![r] = db[r]],
                                !.got = got, !.pc = Queried(p, got)]
<1>3. r \in Resources /\ db[r] \in Nat /\ got \subseteq Resources
  BY <1>1, CacheAssumption DEF TypeOK, ReaderRec
<1>4. [rd[p].body EXCEPT ![r] = db[r]] \in Body
  BY <1>1, <1>3 DEF ReaderRec, Body
<1>5. Queried(p, got) \in {"query", "store", "reply"}
      /\ (Queried(p, got) = "store" => got = Shown(rd[p].key))
  BY DEF Queried
<1>6. rd' = [rd EXCEPT ![p] = rec] /\ UNCHANGED <<db, cache, wr, faults, announced>>
  BY <1>1, <1>2 DEF LoadRelation, TypeOK
<1> HIDE DEF got
<1>7. rec \in ReaderRec
  BY <1>1, <1>3, <1>4, <1>5 DEF ReaderRec
<1>8. rec.pc = "store" => rec.got = Shown(rec.key)
  BY <1>1, <1>5 DEF ReaderRec
<1>9. faults' \in 0 .. MaxFaults
  BY <1>1, <1>6 DEF TypeOK
<1> HIDE DEF rec
<1> QED
  BY <1>6, <1>7, <1>8, <1>9, ReaderStep

\* A GET request ends, answered or not.
LEMMA EndsRead ==
    ASSUME CacheInv, NEW p \in Readers,
           QueryErr(p) \/ Reply(p) \/ ReaderDropped(p)
    PROVE  CacheInv'
<1>1. rd' = [rd EXCEPT ![p] = IdleReader] /\ UNCHANGED <<db, cache, wr, announced>>
  BY DEF QueryErr, Reply, ReaderDropped
<1>2. faults' \in 0 .. MaxFaults /\ (faults' = 0 => faults = 0)
  BY CacheAssumption DEF CacheInv, TypeOK, QueryErr, Reply, ReaderDropped
<1> QED
  BY <1>1, <1>2, IdleTypes, ReaderStep

\* A response is stored: it counts as stored at the current version.
LEMMA Stores ==
    ASSUME CacheInv, NEW p \in Readers, CacheStore(p)
    PROVE  CacheInv'
<1> DEFINE k == rd[p].key
           new == [body |-> rd[p].body, asof |-> db[Owner[k]]]
           rec == [rd[p] EXCEPT !.pc = "reply"]
<1>1. TypeOK /\ rd[p] \in ReaderRec
  BY DEF CacheInv, TypeOK, ReaderRec
<1>2. PICK r \in Replies :
        /\ Count(r)
        /\ cache' = IF r.applied THEN [cache EXCEPT ![k] = new] ELSE cache
  BY DEF CacheStore
<1>3. rd' = [rd EXCEPT ![p] = rec] /\ UNCHANGED <<db, wr, announced>>
  BY DEF CacheStore
<1>4. rec \in ReaderRec /\ rec.pc # "store"
  BY <1>1 DEF ReaderRec
<1>5. k \in Keys /\ Owner[k] \in Resources /\ rd[p].body \in Body
  BY <1>1, CacheAssumption DEF ReaderRec
<1>6. new \in Entry /\ new.asof = db[Owner[k]]
  BY <1>1, <1>5 DEF Entry, TypeOK
<1> HIDE DEF k, new, rec
<1>7. cache' \in [Keys -> Entry \union {NoEntry}]
  BY <1>1, <1>2, <1>6 DEF TypeOK
<1>8. faults' \in 0 .. MaxFaults /\ (faults' = 0 => faults = 0)
  BY <1>1, <1>2, CountTypes
<1>9. TypeOK'
  BY <1>1, <1>3, <1>4, <1>7, <1>8, ReaderTypes
<1>10. \A j \in Keys : cache'[j] # NoEntry =>
          cache'[j] = cache[j] \/ cache'[j].asof = db[Owner[j]]
  BY <1>1, <1>2, <1>5, <1>6 DEF TypeOK
<1>11. (\A u \in Writers : wr'[u] = wr[u]) /\ (\A s \in Resources : db'[s] >= db[s])
  BY <1>1, <1>3 DEF TypeOK
<1> QED
  BY <1>8, <1>9, <1>10, <1>11, QuietFrame

\* A key expires.
LEMMA Expires ==
    ASSUME CacheInv, NEW k \in Keys, Expire(k)
    PROVE  CacheInv'
<1>1. TypeOK
  BY DEF CacheInv
<1>2. cache' = [cache EXCEPT ![k] = NoEntry] /\ UNCHANGED <<db, rd, wr, faults, announced>>
  BY DEF Expire
<1>3. TypeOK'
  BY <1>1, <1>2 DEF TypeOK, Shown
<1>4. \A j \in Keys : cache'[j] # NoEntry => cache'[j] = cache[j]
  BY <1>1, <1>2 DEF TypeOK
<1>5. (\A u \in Writers : wr'[u] = wr[u]) /\ (\A r \in Resources : db'[r] >= db[r])
  BY <1>1, <1>2 DEF TypeOK
<1> QED
  BY <1>2, <1>3, <1>4, <1>5, QuietFrame

-----------------------------------------------------------------------------
(* Write requests *)

\* A step of writer w that leaves it in state rec.
LEMMA WriterStep ==
    ASSUME CacheInv, NEW w \in Writers, NEW rec, rec \in WriterRec,
           rec.pc = "write" => rec.left > 0,
           wr' = [wr EXCEPT ![w] = rec], rd' = rd,
           db' \in [Resources -> Nat], \A r \in Resources : db'[r] >= db[r],
           cache' \in [Keys -> Entry \union {NoEntry}],
           \A k \in Keys : cache'[k] # NoEntry => cache'[k] = cache[k],
           faults' \in 0 .. MaxFaults, faults' = 0 => faults = 0,
           announced' \in [Resources -> SUBSET Nat],
           WriterOK(w)'
    PROVE  CacheInv'
<1>1. TypeOK /\ {w} \in SUBSET Writers
  BY DEF CacheInv
<1>2. TypeOK'
  BY <1>1 DEF TypeOK, WriterRec, Shown
<1>3. \A u \in Writers \ {w} : wr'[u] = wr[u]
  BY <1>1 DEF TypeOK
<1>4. \A u \in {w} : WriterOK(u)'
  BY DEF WriterOK
<1>5. \A k \in Keys : cache'[k] # NoEntry =>
         cache'[k] = cache[k] \/ cache'[k].asof = db[Owner[k]]
  OBVIOUS
<1> QED
  BY <1>1, <1>2, <1>3, <1>4, <1>5, StepFrame, Zenon

\* A writer with nothing to its name, or that is not yet deleting or
\* emitting, is in order when its versions are committed.
LEMMA EarlyWriterOK ==
    ASSUME NEW w \in Writers,
           \A v \in wr'[w].vers : v <= db'[wr'[w].res],
           wr'[w].pc \notin {"del", "emit"}
    PROVE  WriterOK(w)'
BY DEF WriterOK

\* A write request ends.
LEMMA EndsWrite ==
    ASSUME CacheInv, NEW w \in Writers, End(w), rd' = rd,
           db' \in [Resources -> Nat], \A r \in Resources : db'[r] >= db[r],
           faults' \in 0 .. MaxFaults, faults' = 0 => faults = 0,
           UNCHANGED <<cache, announced>>
    PROVE  CacheInv'
<1>1. TypeOK
  BY DEF CacheInv
<1>2. IdleWriter \in WriterRec /\ IdleWriter.pc = "idle" /\ IdleWriter.vers = {}
  BY IdleTypes
<1>3. wr' = [wr EXCEPT ![w] = IdleWriter] /\ wr'[w] = IdleWriter
  BY <1>1 DEF End, TypeOK
<1>4. WriterOK(w)'
  BY <1>2, <1>3, EarlyWriterOK
<1>5. /\ cache' \in [Keys -> Entry \union {NoEntry}]
      /\ announced' \in [Resources -> SUBSET Nat]
  BY <1>1 DEF TypeOK
<1> QED
  BY <1>2, <1>3, <1>4, <1>5, WriterStep

\* A write request begins, with nothing written.
LEMMA Begins ==
    ASSUME CacheInv, NEW w \in Writers, NEW r \in Resources, NEW kind \in Kinds,
           NEW n \in 0 .. BulkItems, Begin(w, r, kind, n)
    PROVE  CacheInv'
<1> DEFINE pc == IF n = 0 THEN AfterWrite(kind) ELSE "write"
           rec == [IdleWriter EXCEPT !.res = r, !.kind = kind, !.left = n, !.pc = pc]
<1>1. TypeOK
  BY DEF CacheInv
<1>2. pc \in {"write", "after", "keys"} /\ (pc = "write" => n > 0)
  BY CacheAssumption DEF AfterWrite
<1>3. rec \in WriterRec /\ rec.vers = {} /\ rec.pc = pc /\ rec.left = n
  BY <1>2, IdleTypes DEF WriterRec
<1>4. wr' = [wr EXCEPT ![w] = rec] /\ UNCHANGED <<db, cache, rd, faults, announced>>
  BY DEF Begin
<1> HIDE DEF pc, rec
<1>5. wr'[w] = rec
  BY <1>1, <1>4 DEF TypeOK
<1>6. WriterOK(w)'
  BY <1>2, <1>3, <1>5, EarlyWriterOK
<1>7. /\ db' \in [Resources -> Nat] /\ \A s \in Resources : db'[s] >= db[s]
      /\ cache' \in [Keys -> Entry \union {NoEntry}]
      /\ faults' \in 0 .. MaxFaults /\ announced' \in [Resources -> SUBSET Nat]
  BY <1>1, <1>4 DEF TypeOK
<1> QED
  BY <1>2, <1>3, <1>4, <1>6, <1>7, WriterStep

LEMMA HandlerBegins ==
    ASSUME CacheInv, NEW w \in Writers, NEW r \in Resources,
           \/ HandleCreate(w, r) \/ HandleUpdate(w, r) \/ HandleDelete(w, r)
           \/ HandleCreateUpload(w, r) \/ HandleUpdateUpload(w, r)
           \/ CreateMutation(w, r) \/ UpdateMutation(w, r) \/ DeleteMutation(w, r)
           \/ HandleBulkCreate(w, r) \/ HandleBulkDelete(w, r)
    PROVE  CacheInv'
<1>1. 1 \in 0 .. BulkItems /\ 1 .. BulkItems \subseteq 0 .. BulkItems
  BY CacheAssumption
<1>2. {"create", "update", "plain_create", "plain_update", "delete",
       "bulk_create", "bulk_delete"} \subseteq Kinds
  BY DEF Kinds
<1>3. \E kind \in Kinds, n \in 0 .. BulkItems : Begin(w, r, kind, n)
  BY <1>1, <1>2, Zenon
     DEF HandleCreate, HandleUpdate, HandleDelete, HandleCreateUpload,
         HandleUpdateUpload, CreateMutation, UpdateMutation, DeleteMutation,
         HandleBulkCreate, HandleBulkDelete
<1> QED
  BY <1>3, Begins

\* A row is written: its version is committed.
LEMMA Commits ==
    ASSUME CacheInv, NEW w \in Writers, Commit(w)
    PROVE  CacheInv'
<1>1. TypeOK /\ wr[w] \in WriterRec /\ WriterOK(w)
  BY ByWriter DEF TypeOK, WriterRec
<1>2. PICK r \in Resources : r = wr[w].res
  BY <1>1 DEF WriterRec
<1> DEFINE v == db[r] + 1
           pc == IF wr[w].left = 1 THEN AfterWrite(wr[w].kind) ELSE "write"
           rec == [wr[w] EXCEPT !.vers = wr[w].vers \union {v},
                                !.left = wr[w].left - 1, !.pc = pc]
<1>3. /\ db' = [db EXCEPT ![r] = v] /\ wr' = [wr EXCEPT ![w] = rec]
      /\ UNCHANGED <<cache, rd, faults, announced>>
  BY <1>1, <1>2 DEF Commit, TypeOK, WriterRec
<1>4. db[r] \in Nat /\ v \in Nat /\ v > db[r]
  BY <1>1 DEF TypeOK
<1>5. wr[w].left \in 0 .. BulkItems /\ wr[w].left > 0
  BY <1>1 DEF TypeOK, WriterRec, Commit
<1>6. /\ wr[w].left - 1 \in 0 .. BulkItems
      /\ pc \in {"write", "after", "keys"} /\ (pc = "write" => wr[w].left - 1 > 0)
  BY <1>5, CacheAssumption DEF AfterWrite
<1>7. wr[w].vers \union {v} \in SUBSET Nat
  BY <1>1, <1>4 DEF WriterRec
<1> HIDE DEF v, pc
<1>8. /\ rec \in WriterRec /\ rec.pc = pc /\ rec.left = wr[w].left - 1
      /\ rec.vers = wr[w].vers \union {v} /\ rec.res = r
  BY <1>1, <1>2, <1>6, <1>7 DEF WriterRec
<1> HIDE DEF rec
<1>9. wr'[w] = rec /\ db'[r] = v
  BY <1>1, <1>3 DEF TypeOK
<1>10. \A u \in wr[w].vers : u \in Nat /\ u <= db[r]
  BY <1>1, <1>2 DEF WriterOK, WriterRec
<1>11. WriterOK(w)'
  <2>1. \A u \in rec.vers : u <= v
    BY <1>4, <1>8, <1>10
  <2> QED
    BY <1>6, <1>8, <1>9, <2>1, EarlyWriterOK
<1>12. /\ db' \in [Resources -> Nat] /\ \A s \in Resources : db'[s] >= db[s]
       /\ cache' \in [Keys -> Entry \union {NoEntry}]
       /\ faults' \in 0 .. MaxFaults /\ announced' \in [Resources -> SUBSET Nat]
  BY <1>1, <1>3, <1>4 DEF TypeOK
<1> QED
  BY <1>3, <1>6, <1>8, <1>11, <1>12, WriterStep

\* The ways a write request ends.
LEMMA WriteEnds ==
    ASSUME CacheInv, NEW w \in Writers,
           CommitErr(w) \/ (AfterController(w) /\ End(w)) \/ Respond(w) \/ WriterDropped(w)
    PROVE  CacheInv'
<1>1. TypeOK /\ wr[w].res \in Resources
  BY DEF CacheInv, TypeOK
<1>2. End(w) /\ rd' = rd /\ UNCHANGED <<cache, announced>>
  BY DEF CommitErr, AfterController, Respond, WriterDropped
<1>3. db' \in [Resources -> Nat] /\ \A r \in Resources : db'[r] >= db[r]
  BY <1>1 DEF TypeOK, CommitErr, AfterController, Respond, WriterDropped
<1>4. faults' \in 0 .. MaxFaults /\ (faults' = 0 => faults = 0)
  BY <1>1, CacheAssumption DEF TypeOK, CommitErr, AfterController, Respond, WriterDropped
<1> QED
  BY <1>2, <1>3, <1>4, EndsWrite

\* The response of k in c is one of r, stored before version v.
Older(k, r, v, c) == Owner[k] = r /\ c[k] # NoEntry /\ c[k].asof < v

\* A writer moves on with the versions it wrote, or fewer.
LEMMA WriterMoves ==
    ASSUME CacheInv, NEW w \in Writers, NEW rec, rec \in WriterRec,
           wr' = [wr EXCEPT ![w] = rec], UNCHANGED <<db, rd>>,
           rec.res = wr[w].res, rec.kind = wr[w].kind,
           rec.vers \subseteq wr[w].vers, rec.pc \in {"keys", "del", "emit"},
           cache' \in [Keys -> Entry \union {NoEntry}],
           \A k \in Keys : cache'[k] # NoEntry => cache'[k] = cache[k],
           faults' \in 0 .. MaxFaults, faults' = 0 => faults = 0,
           announced' \in [Resources -> SUBSET Nat],
           rec.pc = "del" => \A k \in Keys :
              Owner[k] = wr[w].res /\ cache'[k] # NoEntry => k \in rec.keys,
           faults' = 0 /\ rec.pc = "emit" /\ ShouldInvalidate(wr[w].res, wr[w].kind)
              => \A v \in rec.vers, k \in Keys : ~Older(k, wr[w].res, v, cache')
    PROVE  CacheInv'
<1>1. TypeOK /\ WriterOK(w) /\ wr[w] \in WriterRec
  BY ByWriter DEF TypeOK, WriterRec
<1>2. wr'[w] = rec
  BY <1>1 DEF TypeOK
<1>3. PICK r \in Resources : r = wr[w].res
  BY <1>1 DEF WriterRec
<1>4. \A v \in rec.vers : v <= db'[r]
  BY <1>1, <1>3 DEF WriterOK
<1>5. rec.pc = "del" => \A v \in rec.vers : StoredBefore(r, v)' \subseteq rec.keys
  BY <1>3 DEF StoredBefore
<1>6. faults' = 0 /\ rec.pc = "emit" /\ ShouldInvalidate(r, rec.kind)
      => \A v \in rec.vers : StoredBefore(r, v)' = {}
  BY <1>3 DEF StoredBefore, Older
<1>7. WriterOK(w)'
  BY <1>2, <1>3, <1>4, <1>5, <1>6 DEF WriterOK, StoredBefore
<1>8. db' \in [Resources -> Nat] /\ \A s \in Resources : db'[s] >= db[s]
  BY <1>1 DEF TypeOK
<1> QED
  BY <1>7, <1>8, WriterStep

\* The after-controller is done.
LEMMA ControllerDone ==
    ASSUME CacheInv, NEW w \in Writers, AfterController(w),
           wr' = [wr EXCEPT ![w].pc = "keys"]
    PROVE  CacheInv'
<1> DEFINE rec == [wr[w] EXCEPT !.pc = "keys"]
<1>1. TypeOK /\ wr[w] \in WriterRec
  BY DEF CacheInv, TypeOK, WriterRec
<1>2. /\ rec \in WriterRec /\ rec.pc = "keys" /\ rec.res = wr[w].res
      /\ rec.kind = wr[w].kind /\ rec.vers = wr[w].vers
  BY <1>1 DEF WriterRec
<1>3. wr' = [wr EXCEPT ![w] = rec] /\ UNCHANGED <<db, cache, rd, faults, announced>>
  BY DEF AfterController
<1>4. /\ cache' \in [Keys -> Entry \union {NoEntry}] /\ faults' \in 0 .. MaxFaults
      /\ announced' \in [Resources -> SUBSET Nat]
  BY <1>1, <1>3 DEF TypeOK
<1> HIDE DEF rec
<1> QED
  BY <1>2, <1>3, <1>4, WriterMoves

\* The action is not on the list.
LEMMA Skips ==
    ASSUME CacheInv, NEW w \in Writers, InvalidateSkip(w)
    PROVE  CacheInv'
<1> DEFINE rec == [wr[w] EXCEPT !.pc = "emit"]
<1>1. TypeOK /\ wr[w] \in WriterRec
  BY DEF CacheInv, TypeOK, WriterRec
<1>2. /\ rec \in WriterRec /\ rec.pc = "emit" /\ rec.res = wr[w].res
      /\ rec.kind = wr[w].kind /\ rec.vers = wr[w].vers
  BY <1>1 DEF WriterRec
<1>3. /\ wr' = [wr EXCEPT ![w] = rec] /\ UNCHANGED <<db, cache, rd, faults, announced>>
      /\ ~ShouldInvalidate(wr[w].res, wr[w].kind)
  BY DEF InvalidateSkip
<1>4. /\ cache' \in [Keys -> Entry \union {NoEntry}] /\ faults' \in 0 .. MaxFaults
      /\ announced' \in [Resources -> SUBSET Nat]
  BY <1>1, <1>3 DEF TypeOK
<1> HIDE DEF rec
<1> QED
  BY <1>2, <1>3, <1>4, WriterMoves

\* KEYS: the snapshot holds every key of the resource that is in use.
LEMMA TakesKeys ==
    ASSUME CacheInv, NEW w \in Writers, InvalidateKeys(w)
    PROVE  CacheInv'
<1>1. TypeOK /\ wr[w] \in WriterRec
  BY DEF CacheInv, TypeOK, WriterRec
<1>2. PICK r \in Resources : r = wr[w].res
  BY <1>1 DEF WriterRec
<1> DEFINE found == {k \in Keys : Owner[k] = r /\ cache[k] # NoEntry}
           some == [wr[w] EXCEPT !.pc = "del", !.keys = found]
           none == [wr[w] EXCEPT !.pc = "emit"]
<1>3. PICK rep \in Replies :
        /\ Count(rep)
        /\ wr' = IF rep.ok /\ found # {}
                 THEN [wr EXCEPT ![w] = some] ELSE [wr EXCEPT ![w] = none]
  BY <1>2 DEF InvalidateKeys, Matching
<1>4. UNCHANGED <<db, cache, rd, announced>>
  BY DEF InvalidateKeys
<1>5. faults' \in 0 .. MaxFaults /\ (faults' = 0 => faults = 0 /\ rep.ok)
  BY <1>1, <1>3, CountTypes
<1>6. /\ some \in WriterRec /\ some.pc = "del" /\ some.res = wr[w].res
      /\ some.kind = wr[w].kind /\ some.vers = wr[w].vers /\ some.keys = found
  BY <1>1 DEF WriterRec
<1>7. /\ none \in WriterRec /\ none.pc = "emit" /\ none.res = wr[w].res
      /\ none.kind = wr[w].kind /\ none.vers = wr[w].vers
  BY <1>1 DEF WriterRec
<1>8. /\ cache' \in [Keys -> Entry \union {NoEntry}]
      /\ announced' \in [Resources -> SUBSET Nat]
  BY <1>1, <1>4 DEF TypeOK
<1>9. \A k \in Keys : Owner[k] = r /\ cache'[k] # NoEntry => k \in found
  BY <1>4
<1>10. found = {} => \A v \in wr[w].vers, k \in Keys : ~Older(k, r, v, cache')
  BY <1>4 DEF Older
<1> HIDE DEF found, some, none
<1>11. CASE wr' = [wr EXCEPT ![w] = some]
  BY <1>2, <1>4, <1>5, <1>6, <1>8, <1>9, <1>11, WriterMoves
<1>12. CASE wr' = [wr EXCEPT ![w] = none] /\ ~(rep.ok /\ found # {})
  <2>1. faults' = 0 => \A v \in wr[w].vers, k \in Keys : ~Older(k, wr[w].res, v, cache')
    BY <1>2, <1>5, <1>10, <1>12
  <2> QED
    BY <1>4, <1>5, <1>7, <1>8, <1>12, <2>1, WriterMoves
<1> QED
  BY <1>3, <1>11, <1>12

\* DEL: what is left of the resource was stored after the snapshot's writes.
LEMMA Deletes ==
    ASSUME CacheInv, NEW w \in Writers, InvalidateDel(w)
    PROVE  CacheInv'
<1>1. TypeOK /\ wr[w] \in WriterRec /\ WriterOK(w)
  BY ByWriter DEF TypeOK, WriterRec
<1>2. PICK r \in Resources : r = wr[w].res
  BY <1>1 DEF WriterRec
<1> DEFINE rec == [wr[w] EXCEPT !.pc = "emit", !.keys = {}]
<1>3. PICK rep \in Replies :
        /\ Count(rep)
        /\ cache' = [k \in Keys |-> IF rep.applied /\ k \in wr[w].keys
                                    THEN NoEntry ELSE cache[k]]
  BY DEF InvalidateDel
<1>4. /\ wr' = [wr EXCEPT ![w] = rec] /\ UNCHANGED <<db, rd, announced>>
      /\ wr[w].pc = "del"
  BY DEF InvalidateDel
<1>5. /\ rec \in WriterRec /\ rec.pc = "emit" /\ rec.res = wr[w].res
      /\ rec.kind = wr[w].kind /\ rec.vers = wr[w].vers
  BY <1>1 DEF WriterRec
<1>6. faults' \in 0 .. MaxFaults /\ (faults' = 0 => faults = 0 /\ rep.applied)
  BY <1>1, <1>3, CountTypes
<1>7. /\ cache' \in [Keys -> Entry \union {NoEntry}]
      /\ announced' \in [Resources -> SUBSET Nat]
      /\ \A k \in Keys : cache'[k] # NoEntry => cache'[k] = cache[k]
  BY <1>1, <1>3, <1>4 DEF TypeOK
<1>8. \A v \in wr[w].vers : StoredBefore(r, v) \subseteq wr[w].keys
  BY <1>1, <1>2, <1>4 DEF WriterOK
<1>9. faults' = 0 => \A v \in wr[w].vers, k \in Keys : ~Older(k, wr[w].res, v, cache')
  BY <1>2, <1>3, <1>6, <1>8 DEF StoredBefore, Older
<1> HIDE DEF rec
<1> QED
  BY <1>4, <1>5, <1>6, <1>7, <1>9, WriterMoves

\* One event is sent.
LEMMA Emits ==
    ASSUME CacheInv, NEW w \in Writers, Emit(w)
    PROVE  CacheInv'
<1>1. TypeOK /\ wr[w] \in WriterRec /\ WriterOK(w)
  BY ByWriter DEF TypeOK, WriterRec
<1>2. PICK r \in Resources : r = wr[w].res
  BY <1>1 DEF WriterRec
<1>3. PICK v \in wr[w].vers :
        /\ \E rep \in Replies :
              /\ Count(rep)
              /\ announced' = IF rep.applied
                              THEN [announced EXCEPT ![r] = announced[r] \union {v}]
                              ELSE announced
        /\ wr' = [wr EXCEPT ![w].vers = @ \ {v}]
  BY <1>2 DEF Emit
<1>4. PICK rep \in Replies :
        /\ Count(rep)
        /\ announced' = IF rep.applied
                        THEN [announced EXCEPT ![r] = announced[r] \union {v}]
                        ELSE announced
  BY <1>3
<1> DEFINE rec == [wr[w] EXCEPT !.vers = wr[w].vers \ {v}]
<1>5. wr' = [wr EXCEPT ![w] = rec] /\ UNCHANGED <<db, cache, rd>> /\ wr[w].pc = "emit"
  BY <1>3 DEF Emit
<1>6. /\ rec \in WriterRec /\ rec.pc = "emit" /\ rec.res = wr[w].res
      /\ rec.kind = wr[w].kind /\ rec.vers \subseteq wr[w].vers
  BY <1>1, <1>5 DEF WriterRec
<1>7. faults' \in 0 .. MaxFaults /\ (faults' = 0 => faults = 0)
  BY <1>1, <1>4, CountTypes
<1>8. v \in Nat
  BY <1>1, <1>3 DEF WriterRec
<1>9. /\ cache' \in [Keys -> Entry \union {NoEntry}]
      /\ announced' \in [Resources -> SUBSET Nat]
  BY <1>1, <1>4, <1>5, <1>8 DEF TypeOK
<1>10. faults' = 0 /\ ShouldInvalidate(wr[w].res, wr[w].kind)
       => \A u \in wr[w].vers, k \in Keys : ~Older(k, wr[w].res, u, cache')
  BY <1>1, <1>5, <1>7 DEF WriterOK, StoredBefore, Older
<1> HIDE DEF rec
<1> QED
  BY <1>5, <1>6, <1>7, <1>9, <1>10, WriterMoves

-----------------------------------------------------------------------------
\* Nothing happens.
LEMMA Stutters ==
    ASSUME CacheInv, UNCHANGED vars
    PROVE  CacheInv'
BY DEF vars, CacheInv, TypeOK, VersionsCommitted, SnapshotCovers, EventsSeeFreshCache,
       StoredBefore, Shown, ShouldInvalidate

\* Every step keeps the invariant.
LEMMA NextInv == CacheInv /\ [Next]_vars => CacheInv'
<1> SUFFICES ASSUME CacheInv, [Next]_vars PROVE CacheInv'
  OBVIOUS
<1>1. ASSUME NEW p \in Readers, NEW k \in Keys, NEW via \in {"cache", "db"},
             HandleList(p, k, via) \/ HandleGet(p, k, via)
      PROVE  CacheInv'
  BY <1>1, BeginsRead
<1>2. ASSUME NEW p \in Readers, Read(p) \/ ReaderDropped(p)
      PROVE  CacheInv'
  BY <1>2, Gets, QueriesRows, LoadsRelation, Stores, EndsRead, Zenon DEF Read
<1>3. ASSUME NEW w \in Writers, NEW r \in Resources,
             \/ HandleCreate(w, r) \/ HandleUpdate(w, r) \/ HandleDelete(w, r)
             \/ HandleCreateUpload(w, r) \/ HandleUpdateUpload(w, r)
             \/ CreateMutation(w, r) \/ UpdateMutation(w, r) \/ DeleteMutation(w, r)
             \/ HandleBulkCreate(w, r) \/ HandleBulkDelete(w, r)
      PROVE  CacheInv'
  BY <1>3, HandlerBegins, Zenon
<1>4. ASSUME NEW w \in Writers, Write(w) \/ WriterDropped(w)
      PROVE  CacheInv'
  <2>1. AfterController(w) => wr' = [wr EXCEPT ![w].pc = "keys"] \/ End(w)
    BY DEF AfterController
  <2>2. CASE AfterController(w)
    BY <2>1, <2>2, ControllerDone, WriteEnds, Zenon
  <2>3. CASE CommitErr(w) \/ Respond(w) \/ WriterDropped(w)
    BY <2>3, WriteEnds, Zenon
  <2> QED
    BY <1>4, <2>2, <2>3, Commits, Skips, TakesKeys, Deletes, Emits, Zenon DEF Write
<1>5. ASSUME NEW k \in Keys, Expire(k)
      PROVE  CacheInv'
  BY <1>5, Expires
<1>6. CASE UNCHANGED vars
  BY <1>6, Stutters
<1> QED
  BY <1>1, <1>2, <1>3, <1>4, <1>5, <1>6, Zenon DEF Next

\* In every reachable state the invariant holds: requests keep their types,
\* what a handler wrote is committed, and the two theorems below.
THEOREM CacheInvariant == Spec => []CacheInv
<1> QED
  BY InitInv, NextInv, PTL DEF Spec

\* invalidate_resource (cache/store.rs) issues KEYS and then DEL: for any
\* number of readers and writers in between, the keys a request is about to
\* delete include every response stored before one of its writes.
THEOREM SnapshotTheorem == Spec => []SnapshotCovers
<1>1. CacheInv => SnapshotCovers
  BY DEF CacheInv
<1> QED
  BY <1>1, CacheInvariant, PTL

\* run_write_side_effects (handlers/crud.rs) invalidates before it emits: as
\* long as no Redis command failed, an event is sent only when no response
\* stored before its write is left under a key of the resource.
THEOREM FreshEventsTheorem == Spec => []EventsSeeFreshCache
<1>1. CacheInv => EventsSeeFreshCache
  BY DEF CacheInv
<1> QED
  BY <1>1, CacheInvariant, PTL

\* Readers, writers and entries keep their types; a response is stored only
\* when all its resources were queried.
THEOREM CacheTypes == Spec => []TypeOK
<1>1. CacheInv => TypeOK
  BY DEF CacheInv
<1> QED
  BY <1>1, CacheInvariant, PTL
=============================================================================
