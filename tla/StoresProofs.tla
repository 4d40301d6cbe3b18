---------------------------- MODULE StoresProofs ----------------------------
(***************************************************************************)
(* The stores implement Table, answer writes truthfully and page without   *)
(* gaps, for any number of rows, writers, readers and writes.              *)
(*                                                                         *)
(* A row only moves on from absent to live, deleted and removed (Claims);  *)
(* that alone gives the refinement and the answers.  A walk along cursors  *)
(* has seen what lies up to its cursor (CursorKept), one along offsets the *)
(* rows that precede its offset in the total order (OffsetKept).           *)
(***************************************************************************)
EXTENDS Stores, FiniteSetTheorems, TLAPS

AnyListing == CHOOSE l \in Listings : TRUE

WriterRec == [op : {"none", "insert", "update", "soft_delete", "hard_delete"},
              id : Ids \union {0}, at : {"done", "fetch", "remove"},
              answer : {"none", "ok", "not_found"}, wrote : BOOLEAN]

WalkRec == [at : {"idle", "paging", "done", "failed"}, list : Listings \union {AnyListing},
            cursor : Nat, calm : BOOLEAN, seen : [Ids -> 0 .. 2], owed : SUBSET Ids]

Types == /\ TypeOK
         /\ writer \in [Writers -> WriterRec]
         /\ walk \in [Readers -> WalkRec]

TwoStep == Sql \union {"mongodb"}

\* How far an operation that was carried out has moved its row on.
ReachedBy(op) == CASE op = "soft_delete" -> {"deleted", "removed"}
                   [] op = "hard_delete" -> {"removed"}
                   [] OTHER -> {"live", "deleted", "removed"}

\* What the record of one writer says.
WriterKept(w) ==
    /\ writer[w].wrote => /\ writer[w].op # "none" /\ writer[w].id \in Ids
                          /\ rows[writer[w].id].is \in ReachedBy(writer[w].op)
    /\ writer[w].at = "fetch" => /\ writer[w].wrote /\ writer[w].answer = "none"
                                 /\ writer[w].op # "hard_delete"
    /\ writer[w].at = "remove" => /\ writer[w].op = "hard_delete" /\ writer[w].id \in Ids
                                  /\ writer[w].answer = "none"
                                  /\ engine \in TwoStep
    /\ writer[w].answer = "ok" =>
          writer[w].wrote \/ (writer[w].op = "hard_delete" /\ engine \in TwoStep)
    /\ writer[w].answer = "not_found" /\ writer[w].wrote =>
          /\ engine \in {"mysql", "mongodb"} /\ ~Visible(writer[w].id)
          /\ writer[w].op = "soft_delete" =>
                engine = "mysql" \/ rows[writer[w].id].is = "removed"

\* Two writers do not both carry out an operation on a row that works once.
OnceBy(v, w) ==
    writer[v].wrote /\ writer[w].wrote /\ writer[v].id = writer[w].id /\ writer[v].op = writer[w].op
    => writer[v].op = "update" \/ (writer[v].op = "hard_delete" /\ engine \in TwoStep)

Claims == /\ \A w \in Writers : WriterKept(w)
          /\ \A v, w \in Writers : v # w => OnceBy(v, w)

StoresInv == Types /\ Claims

-----------------------------------------------------------------------------
(* What a write does, whatever the engine *)

\* The statement that carries op out on the row id.
Carries(op, id, is, val) ==
    \/ op = "insert" /\ Fresh(id) /\ is = "live" /\ val \in Values
    \/ op = "update" /\ Visible(id) /\ is = "live" /\ val \in Values
    \/ op = "soft_delete" /\ Visible(id) /\ is \in {"deleted", "removed"} /\ val = rows[id].val
    \/ /\ op = "hard_delete" /\ Stored(id) /\ is = "removed" /\ val = rows[id].val
       /\ engine \notin TwoStep

Done(w, op, id, is, val) ==
    /\ Carries(op, id, is, val) /\ Set(id, is, val)
    /\ \/ Starts(w, op, id, "done", "ok", TRUE)
       \/ /\ Starts(w, op, id, "fetch", "none", TRUE)
          /\ engine \in {"mysql", "mongodb"} /\ op # "hard_delete"

Refused(w, op, id) ==
    /\ Starts(w, op, id, "done", "not_found", FALSE)
    /\ UNCHANGED <<rows, walk>>

FoundFirst(w, id) ==
    /\ engine \in TwoStep
    /\ Starts(w, "hard_delete", id, "remove", "none", FALSE)
    /\ UNCHANGED <<rows, walk>>

Ops == {"insert", "update", "soft_delete", "hard_delete"}

Begins(w) == \E id \in Ids :
    \/ \E op \in Ops, is \in {"live", "deleted", "removed"}, val \in Values \union {0} :
          Done(w, op, id, is, val)
    \/ \E op \in Ops : Refused(w, op, id)
    \/ FoundFirst(w, id)

LEMMA RowTypes ==
    ASSUME TypeOK, NEW id \in Ids
    PROVE  /\ rows[id].is \in {"absent", "live", "deleted", "removed"}
           /\ rows[id].val \in Values \union {0}
BY DEF TypeOK

LEMMA WriteBegins ==
    ASSUME TypeOK, NEW w \in Writers, Write(w)
    PROVE  Begins(w) \/ Remove(w) \/ OrmReadsBack(w) \/ MongoReadsBack(w)
<1>1. ASSUME NEW id \in Ids, NEW v \in Values, insert(w, id, v)
      PROVE  Begins(w)
  <2>1. /\ Carries("insert", id, "live", v)
        /\ Returning(w, "insert", id, "live", v, TRUE)
           \/ (engine \in {"mysql", "mongodb"} /\ ThenRead(w, "insert", id, "live", v, TRUE))
    BY <1>1, StoresAssumption DEF insert, QueryInsert, generate_insert_body, OrmInsert, MongoInsert, OrmWrite,
       supports_returning, Carries, Sql
  <2>2. Done(w, "insert", id, "live", v)
    BY <2>1 DEF Returning, ThenRead, Done
  <2>3. QED BY <2>2 DEF Begins, Ops
<1>2. ASSUME NEW id \in Ids, NEW v \in Values, update_by_id(w, id, v)
      PROVE  Begins(w)
  <2>1. Returning(w, "update", id, "live", v, Visible(id))
        \/ (engine \in {"mysql", "mongodb"} /\ ThenRead(w, "update", id, "live", v, Visible(id)))
    BY <1>2 DEF update_by_id, QueryUpdate, generate_update_body, OrmUpdate, MongoUpdate, OrmWrite,
       supports_returning, Sql
  <2>2. Done(w, "update", id, "live", v) \/ Refused(w, "update", id)
    BY <2>1 DEF Returning, ThenRead, Done, Carries, Refused
  <2>3. QED BY <2>2 DEF Begins, Ops
<1>3. ASSUME NEW id \in Ids, soft_delete_by_id(w, id)
      PROVE  Begins(w)
  <2>1. \E is \in {"deleted", "removed"} :
           \/ Returning(w, "soft_delete", id, is, rows[id].val, Visible(id))
           \/ /\ engine \in {"mysql", "mongodb"}
              /\ ThenRead(w, "soft_delete", id, is, rows[id].val, Visible(id))
    BY <1>3 DEF soft_delete_by_id, QuerySoftDelete, generate_soft_delete_body, OrmSoftDelete,
       MongoSoftDelete, OrmWrite, supports_returning, Sql
  <2>2. \/ \E is \in {"deleted", "removed"} : Done(w, "soft_delete", id, is, rows[id].val)
        \/ Refused(w, "soft_delete", id)
    BY <2>1 DEF Returning, ThenRead, Done, Carries, Refused
  <2>3. QED BY <2>2, RowTypes DEF Begins, Ops
<1>4. ASSUME NEW id \in Ids, hard_delete_by_id(w, id)
      PROVE  Begins(w)
  <2>1. \/ /\ engine \notin TwoStep
           /\ Returning(w, "hard_delete", id, "removed", rows[id].val, Stored(id))
        \/ engine \in TwoStep /\ LookUp(w, id)
    BY <1>4 DEF hard_delete_by_id, QueryHardDelete, generate_hard_delete_body, OrmHardDelete,
       MongoHardDelete, TwoStep, Sql
  <2>2. \/ Done(w, "hard_delete", id, "removed", rows[id].val)
        \/ Refused(w, "hard_delete", id) \/ FoundFirst(w, id)
    BY <2>1 DEF Returning, LookUp, Done, Carries, Refused, FoundFirst
  <2>3. QED BY <2>2, RowTypes DEF Begins, Ops
<1>5. QED BY <1>1, <1>2, <1>3, <1>4 DEF Write

-----------------------------------------------------------------------------
(* Types *)

LEMMA IdleTypes == Idle \in WriterRec
BY DEF Idle, WriterRec

LEMMA TypesInit == Init => Types
<1> SUFFICES ASSUME Init PROVE Types
  OBVIOUS
<1>1. rows \in [Ids -> [is : {"absent", "live", "deleted", "removed"}, val : Values \union {0}]]
  BY StoresAssumption DEF Init
<1>2. writer \in [Writers -> WriterRec]
  BY IdleTypes DEF Init
<1>3. [id \in Ids |-> 0] \in [Ids -> 0 .. 2]
  OBVIOUS
<1>4. walk \in [Readers -> WalkRec]
  BY <1>3 DEF Init, WalkRec, AnyListing
<1>5. TypeOK
  BY <1>1, <1>2, <1>4, StoresAssumption DEF Init, TypeOK, WriterRec, WalkRec
<1>6. QED BY <1>2, <1>4, <1>5 DEF Types

\* A statement's effect on the table and on the walks of the readers.
LEMMA SetTypes ==
    ASSUME Types, NEW id \in Ids, NEW is \in {"live", "deleted", "removed"},
           NEW val \in Values \union {0}, Set(id, is, val)
    PROVE  /\ rows' \in [Ids -> [is : {"absent", "live", "deleted", "removed"}, val : Values \union {0}]]
           /\ walk' \in [Readers -> WalkRec]
           /\ \A i \in Ids : i # id => rows'[i] = rows[i]
           /\ rows'[id] = [is |-> is, val |-> val] /\ rows'[id].is = is
           /\ \A r \in Readers : walk'[r] = [walk[r] EXCEPT !.owed = walk[r].owed \ {id}, !.calm = FALSE]
<1>1. rows' = [rows EXCEPT ![id] = [is |-> is, val |-> val]]
      /\ walk' = [r \in Readers |-> [walk[r] EXCEPT !.owed = @ \ {id}, !.calm = FALSE]]
  BY DEF Set
<1>2. \A r \in Readers : walk[r] \in WalkRec
  BY DEF Types
<1>3. \A r \in Readers : [walk[r] EXCEPT !.owed = @ \ {id}, !.calm = FALSE] \in WalkRec
  BY <1>2 DEF WalkRec
<1>4. [is |-> is, val |-> val] \in
         [is : {"absent", "live", "deleted", "removed"}, val : Values \union {0}]
  OBVIOUS
<1>5. QED BY <1>1, <1>3, <1>4 DEF Types, TypeOK

\* The record of a writer that begins or ends an operation.
LEMMA StartsTypes ==
    ASSUME Types, NEW w \in Writers, NEW op \in Ops, NEW id \in Ids,
           NEW at \in {"done", "fetch", "remove"}, NEW answer \in {"none", "ok", "not_found"},
           NEW wrote \in BOOLEAN, Starts(w, op, id, at, answer, wrote)
    PROVE  /\ writer' \in [Writers -> WriterRec] /\ writes' \in 0 .. MaxWrites
           /\ writer'[w] = [op |-> op, id |-> id, at |-> at, answer |-> answer, wrote |-> wrote]
           /\ \A v \in Writers : v # w => writer'[v] = writer[v]
           /\ UNCHANGED <<engine, soft, numeric>>
<1>1. [op |-> op, id |-> id, at |-> at, answer |-> answer, wrote |-> wrote] \in WriterRec
  BY DEF WriterRec, Ops
<1>2. QED BY <1>1, StoresAssumption DEF Starts, Types, TypeOK

LEMMA AnswersTypes ==
    ASSUME Types, NEW w \in Writers, NEW answer \in {"ok", "not_found"}, NEW wrote \in BOOLEAN,
           Answers(w, answer, wrote)
    PROVE  /\ writer' \in [Writers -> WriterRec]
           /\ writer'[w].at = "done" /\ writer'[w].answer = answer /\ writer'[w].wrote = wrote
           /\ writer'[w].op = writer[w].op /\ writer'[w].id = writer[w].id
           /\ \A v \in Writers : v # w => writer'[v] = writer[v]
           /\ UNCHANGED <<engine, soft, numeric, writes>>
<1>1. writer' = [writer EXCEPT ![w].at = "done", ![w].answer = answer, ![w].wrote = wrote]
  BY DEF Answers
<1>2. writer[w] \in WriterRec
  BY DEF Types
<1>3. [writer[w] EXCEPT !.at = "done", !.answer = answer, !.wrote = wrote] \in WriterRec
  BY <1>2 DEF WriterRec
<1>4. writer'[w] = [writer[w] EXCEPT !.at = "done", !.answer = answer, !.wrote = wrote]
  BY <1>1 DEF Types
<1>5. QED BY <1>1, <1>2, <1>3, <1>4 DEF Types, WriterRec, Answers

\* The types after a step follow from those of the variables.
LEMMA TypesAre ==
    ASSUME engine' \in Engines, soft' \in BOOLEAN, numeric' \in BOOLEAN,
           rows' \in [Ids -> [is : {"absent", "live", "deleted", "removed"}, val : Values \union {0}]],
           writer' \in [Writers -> WriterRec], walk' \in [Readers -> WalkRec],
           writes' \in 0 .. MaxWrites
    PROVE  Types'
<1>1. \A w \in Writers : /\ writer'[w].at \in {"done", "fetch", "remove"}
                         /\ writer'[w].answer \in {"none", "ok", "not_found"}
  BY DEF WriterRec
<1>2. \A r \in Readers : /\ walk'[r].at \in {"idle", "paging", "done", "failed"}
                         /\ walk'[r].owed \subseteq Ids
  BY DEF WalkRec
<1>3. QED BY <1>1, <1>2 DEF Types, TypeOK

-----------------------------------------------------------------------------
(* Writes *)

LEMMA ClaimsInit == Init => Claims
<1> SUFFICES ASSUME Init PROVE Claims
  OBVIOUS
<1>1. \A w \in Writers : writer[w] = Idle
  BY DEF Init
<1>2. QED BY <1>1 DEF Claims, WriterKept, OnceBy, Idle

\* A row moves on: what the record of a writer says stays true.
LEMMA RowsMoveOn ==
    ASSUME StoresInv, NEW v \in Writers, writer'[v] = writer[v], engine' = engine,
           \A i \in Ids : \/ rows'[i].is = rows[i].is
                          \/ rows[i].is = "live" /\ rows'[i].is \in {"deleted", "removed"}
                          \/ rows[i].is = "deleted" /\ rows'[i].is = "removed"
                          \/ rows[i].is = "absent" /\ rows'[i].is = "live"
    PROVE  WriterKept(v)'
<1>1. WriterKept(v)
  BY DEF StoresInv, Claims
<1>2. writer[v].wrote => rows'[writer[v].id].is \in ReachedBy(writer[v].op)
  BY <1>1 DEF WriterKept, ReachedBy
<1>3. writer[v].answer = "not_found" /\ writer[v].wrote =>
         /\ ~Visible(writer[v].id)'
         /\ rows[writer[v].id].is = "removed" => rows'[writer[v].id].is = "removed"
  BY <1>1 DEF WriterKept, Visible, ReachedBy
<1>4. QED BY <1>1, <1>2, <1>3 DEF WriterKept

LEMMA CarriedMovesOn ==
    ASSUME Types, NEW op \in Ops, NEW id \in Ids, NEW is \in {"live", "deleted", "removed"},
           NEW val \in Values \union {0}, Carries(op, id, is, val), Set(id, is, val)
    PROVE  /\ \A i \in Ids : \/ rows'[i].is = rows[i].is
                             \/ rows[i].is = "live" /\ rows'[i].is \in {"deleted", "removed"}
                             \/ rows[i].is = "deleted" /\ rows'[i].is = "removed"
                             \/ rows[i].is = "absent" /\ rows'[i].is = "live"
           /\ rows'[id].is \in ReachedBy(op)
<1>1. /\ rows'[id].is = is /\ \A i \in Ids : i # id => rows'[i] = rows[i]
      /\ rows[id].is \in {"absent", "live", "deleted", "removed"}
  BY SetTypes, RowTypes DEF Types
<1>2. QED BY <1>1 DEF Carries, Fresh, Visible, Stored, ReachedBy

LEMMA DoneKeeps ==
    ASSUME StoresInv, NEW w \in Writers, NEW op \in Ops, NEW id \in Ids,
           NEW is \in {"live", "deleted", "removed"}, NEW val \in Values \union {0},
           Done(w, op, id, is, val)
    PROVE  StoresInv'
<1>1. Carries(op, id, is, val) /\ Set(id, is, val)
  BY DEF Done
<1>2. PICK at \in {"done", "fetch"}, answer \in {"ok", "none"} :
         /\ Starts(w, op, id, at, answer, TRUE)
         /\ at = "done" => answer = "ok"
         /\ at = "fetch" => answer = "none" /\ engine \in {"mysql", "mongodb"} /\ op # "hard_delete"
  BY DEF Done
<1>3. /\ writer' \in [Writers -> WriterRec] /\ writes' \in 0 .. MaxWrites
      /\ writer'[w] = [op |-> op, id |-> id, at |-> at, answer |-> answer, wrote |-> TRUE]
      /\ \A v \in Writers : v # w => writer'[v] = writer[v]
      /\ UNCHANGED <<engine, soft, numeric>>
  <2>1. /\ Types /\ TRUE \in BOOLEAN
        /\ at \in {"done", "fetch", "remove"} /\ answer \in {"none", "ok", "not_found"}
    BY DEF StoresInv
  <2>2. QED BY <1>2, <2>1, StartsTypes, Zenon
<1>4. Types'
  <2>1. /\ rows' \in [Ids -> [is : {"absent", "live", "deleted", "removed"}, val : Values \union {0}]]
        /\ walk' \in [Readers -> WalkRec]
    BY <1>1, SetTypes DEF StoresInv
  <2>2. engine' \in Engines /\ soft' \in BOOLEAN /\ numeric' \in BOOLEAN
    BY <1>3 DEF StoresInv, Types, TypeOK
  <2>3. QED BY <1>3, <2>1, <2>2, TypesAre
<1>5. /\ writer'[w].op = op /\ writer'[w].id = id /\ writer'[w].wrote /\ writer'[w].at = at
      /\ writer'[w].answer = answer
  BY <1>3
<1>6. \A v \in Writers : WriterKept(v)'
  <2>1. WriterKept(w)'
    BY <1>1, <1>2, <1>5, CarriedMovesOn DEF WriterKept, StoresInv, Ops
  <2>2. ASSUME NEW v \in Writers, v # w PROVE WriterKept(v)'
    BY <1>1, <1>3, <2>2, CarriedMovesOn, RowsMoveOn DEF StoresInv
  <2>3. QED BY <2>1, <2>2
<1>7. ASSUME NEW v \in Writers, v # w PROVE OnceBy(v, w)' /\ OnceBy(w, v)'
  <2>1. writer'[v] = writer[v] /\ WriterKept(v)
    BY <1>3, <1>7 DEF StoresInv, Claims
  <2>2. writer[v].wrote /\ writer[v].id = id /\ writer[v].op = op =>
           op = "update" \/ (op = "hard_delete" /\ engine \in TwoStep)
    BY <1>1, <2>1 DEF WriterKept, Carries, ReachedBy, Fresh, Visible, Stored
  <2>3. QED BY <1>3, <1>5, <2>1, <2>2 DEF OnceBy
<1>8. ASSUME NEW u \in Writers, NEW v \in Writers, u # v, u # w, v # w PROVE OnceBy(u, v)'
  BY <1>3, <1>8 DEF StoresInv, Claims, OnceBy
<1>9. QED BY <1>4, <1>6, <1>7, <1>8 DEF StoresInv, Claims

\* An operation that begins without having changed anything.
LEMMA BareStartKeeps ==
    ASSUME StoresInv, NEW w \in Writers, NEW id \in Ids,
           (\E op \in Ops : Refused(w, op, id)) \/ FoundFirst(w, id)
    PROVE  StoresInv'
<1>1. PICK op \in Ops, at \in {"done", "remove"}, answer \in {"not_found", "none"} :
         /\ Starts(w, op, id, at, answer, FALSE)
         /\ at = "remove" => op = "hard_delete" /\ engine \in TwoStep /\ answer = "none"
         /\ UNCHANGED <<rows, walk>>
  <2>1. CASE \E op \in Ops : Refused(w, op, id)
    <3>1. PICK op \in Ops : Refused(w, op, id)
      BY <2>1
    <3>2. /\ Starts(w, op, id, "done", "not_found", FALSE) /\ UNCHANGED <<rows, walk>>
          /\ "done" # "remove"
      BY <3>1 DEF Refused
    <3>3. QED BY <3>2, Zenon
  <2>2. CASE FoundFirst(w, id)
    <3>1. /\ Starts(w, "hard_delete", id, "remove", "none", FALSE) /\ UNCHANGED <<rows, walk>>
          /\ engine \in TwoStep /\ "hard_delete" \in Ops
      BY <2>2 DEF FoundFirst, Ops
    <3>2. QED BY <3>1, Zenon
  <2>3. QED BY <2>1, <2>2
<1>2. /\ writer' \in [Writers -> WriterRec] /\ writes' \in 0 .. MaxWrites
      /\ writer'[w] = [op |-> op, id |-> id, at |-> at, answer |-> answer, wrote |-> FALSE]
      /\ \A v \in Writers : v # w => writer'[v] = writer[v]
      /\ UNCHANGED <<engine, soft, numeric>>
  <2>1. /\ Types /\ FALSE \in BOOLEAN
        /\ at \in {"done", "fetch", "remove"} /\ answer \in {"none", "ok", "not_found"}
    BY DEF StoresInv
  <2>2. QED BY <1>1, <2>1, StartsTypes, Zenon
<1>3. Types'
  <2>1. /\ rows' \in [Ids -> [is : {"absent", "live", "deleted", "removed"}, val : Values \union {0}]]
        /\ walk' \in [Readers -> WalkRec]
        /\ engine' \in Engines /\ soft' \in BOOLEAN /\ numeric' \in BOOLEAN
    BY <1>1, <1>2 DEF StoresInv, Types, TypeOK
  <2>2. QED BY <1>2, <2>1, TypesAre
<1>4. /\ writer'[w].op = op /\ writer'[w].id = id /\ writer'[w].wrote = FALSE
      /\ writer'[w].at = at /\ writer'[w].answer = answer
  BY <1>2
<1>5. \A v \in Writers : WriterKept(v)'
  <2>1. WriterKept(w)'
    BY <1>1, <1>2, <1>4 DEF WriterKept
  <2>2. ASSUME NEW v \in Writers, v # w PROVE WriterKept(v)'
    BY <1>1, <1>2, <2>2, RowsMoveOn
  <2>3. QED BY <2>1, <2>2
<1>6. ASSUME NEW u \in Writers, NEW v \in Writers, u # v PROVE OnceBy(u, v)'
  BY <1>2, <1>4, <1>6 DEF StoresInv, Claims, OnceBy
<1>7. QED BY <1>3, <1>5, <1>6 DEF StoresInv, Claims

LEMMA RemoveKeeps == ASSUME StoresInv, NEW w \in Writers, Remove(w) PROVE StoresInv'
<1> DEFINE id == writer[w].id
<1>1. /\ id \in Ids /\ writer[w].op = "hard_delete" /\ engine \in TwoStep
      /\ Answers(w, "ok", Stored(id))
  BY DEF StoresInv, Claims, WriterKept, Remove
<1>2. PICK found \in BOOLEAN : found = Stored(id)
  <2>1. Stored(id) \in BOOLEAN
    BY DEF Stored
  <2>2. QED BY <2>1, Zenon
<1>3. /\ writer' \in [Writers -> WriterRec]
      /\ writer'[w].at = "done" /\ writer'[w].answer = "ok" /\ writer'[w].wrote = found
      /\ writer'[w].op = "hard_delete" /\ writer'[w].id = id
      /\ \A v \in Writers : v # w => writer'[v] = writer[v]
      /\ UNCHANGED <<engine, soft, numeric, writes>>
  <2>1. Answers(w, "ok", found) /\ Types
    BY <1>1, <1>2 DEF StoresInv
  <2>2. QED BY <1>1, <2>1, AnswersTypes
<1>4. /\ rows' \in [Ids -> [is : {"absent", "live", "deleted", "removed"}, val : Values \union {0}]]
      /\ walk' \in [Readers -> WalkRec]
      /\ \A i \in Ids : \/ rows'[i].is = rows[i].is
                        \/ rows[i].is = "live" /\ rows'[i].is \in {"deleted", "removed"}
                        \/ rows[i].is = "deleted" /\ rows'[i].is = "removed"
      /\ found => rows'[id].is = "removed"
  <2>1. CASE found
    <3>1. Set(id, "removed", rows[id].val) /\ rows[id].val \in Values \union {0}
      BY <1>1, <1>2, <2>1, RowTypes DEF Remove, StoresInv, Types
    <3>2. QED BY <1>1, <1>2, <2>1, <3>1, SetTypes DEF StoresInv, Stored
  <2>2. CASE ~found
    BY <1>2, <2>2 DEF Remove, StoresInv, Types, TypeOK
  <2>3. QED BY <2>1, <2>2
<1> HIDE DEF id
<1>5. Types'
  <2>1. engine' \in Engines /\ soft' \in BOOLEAN /\ numeric' \in BOOLEAN /\ writes' \in 0 .. MaxWrites
    BY <1>3 DEF StoresInv, Types, TypeOK
  <2>2. QED BY <1>3, <1>4, <2>1, TypesAre
<1>6. \A v \in Writers : WriterKept(v)'
  <2>1. WriterKept(w)'
    BY <1>1, <1>3, <1>4 DEF WriterKept, ReachedBy
  <2>2. ASSUME NEW v \in Writers, v # w PROVE WriterKept(v)'
    BY <1>3, <1>4, <2>2, RowsMoveOn
  <2>3. QED BY <2>1, <2>2
<1>7. ASSUME NEW u \in Writers, NEW v \in Writers, u # v PROVE OnceBy(u, v)'
  BY <1>1, <1>3, <1>7 DEF StoresInv, Claims, OnceBy
<1>8. QED BY <1>5, <1>6, <1>7 DEF StoresInv, Claims

LEMMA ReadBackKeeps ==
    ASSUME StoresInv, NEW w \in Writers, OrmReadsBack(w) \/ MongoReadsBack(w)
    PROVE  StoresInv'
<1>1. /\ writer[w].id \in Ids /\ writer[w].wrote /\ writer[w].op \in {"insert", "update", "soft_delete"}
      /\ rows[writer[w].id].is \in ReachedBy(writer[w].op)
  <2>1. writer[w].op \in {"none", "insert", "update", "soft_delete", "hard_delete"}
    BY DEF StoresInv, Types, WriterRec
  <2>2. QED BY <2>1 DEF StoresInv, Claims, WriterKept, OrmReadsBack, MongoReadsBack
<1>2. PICK answer \in {"ok", "not_found"} :
         /\ Answers(w, answer, TRUE)
         /\ answer = "not_found" =>
               /\ engine \in {"mysql", "mongodb"} /\ ~Visible(writer[w].id)
               /\ writer[w].op = "soft_delete" =>
                     engine = "mysql" \/ rows[writer[w].id].is = "removed"
         /\ UNCHANGED <<rows, walk>>
  <2>1. CASE OrmReadsBack(w)
    BY <2>1 DEF OrmReadsBack
  <2>2. CASE MongoReadsBack(w)
    BY <1>1, <2>2 DEF MongoReadsBack, Stored, Visible, ReachedBy
  <2>3. QED BY <2>1, <2>2
<1>3. /\ writer' \in [Writers -> WriterRec]
      /\ writer'[w].at = "done" /\ writer'[w].answer = answer /\ writer'[w].wrote = TRUE
      /\ writer'[w].op = writer[w].op /\ writer'[w].id = writer[w].id
      /\ \A v \in Writers : v # w => writer'[v] = writer[v]
      /\ UNCHANGED <<engine, soft, numeric, writes>>
  <2>1. Types /\ TRUE \in BOOLEAN
    BY DEF StoresInv
  <2>2. QED BY <1>2, <2>1, AnswersTypes, Zenon
<1>4. Types'
  <2>1. /\ engine' \in Engines /\ soft' \in BOOLEAN /\ numeric' \in BOOLEAN /\ writes' \in 0 .. MaxWrites
        /\ rows' \in [Ids -> [is : {"absent", "live", "deleted", "removed"}, val : Values \union {0}]]
        /\ walk' \in [Readers -> WalkRec]
    BY <1>2, <1>3 DEF StoresInv, Types, TypeOK
  <2>2. QED BY <1>3, <2>1, TypesAre
<1>5. \A v \in Writers : WriterKept(v)'
  <2>1. WriterKept(w)'
    BY <1>1, <1>2, <1>3 DEF WriterKept, Visible
  <2>2. ASSUME NEW v \in Writers, v # w PROVE WriterKept(v)'
    BY <1>2, <1>3, <2>2, RowsMoveOn
  <2>3. QED BY <2>1, <2>2
<1>6. ASSUME NEW u \in Writers, NEW v \in Writers, u # v PROVE OnceBy(u, v)'
  BY <1>1, <1>2, <1>3, <1>6 DEF StoresInv, Claims, OnceBy
<1>7. QED BY <1>4, <1>5, <1>6 DEF StoresInv, Claims

LEMMA WriteKeeps == ASSUME StoresInv, NEW w \in Writers, Write(w) PROVE StoresInv'
<1>1. CASE Begins(w)
  BY <1>1, DoneKeeps, BareStartKeeps DEF Begins
<1>2. QED
  BY <1>1, WriteBegins, RemoveKeeps, ReadBackKeeps DEF StoresInv, Types

-----------------------------------------------------------------------------
(* Pages *)

LEMMA SetsOfIds ==
    ASSUME NEW S \in SUBSET Ids
    PROVE  /\ IsFiniteSet(S) /\ Cardinality(S) \in Nat
           /\ Cardinality(S) = 0 <=> S = {}
           /\ \A T \in SUBSET S : /\ Cardinality(T) \in Nat /\ Cardinality(T) <= Cardinality(S)
                                  /\ Cardinality(T) = Cardinality(S) => T = S
           /\ \A T \in SUBSET Ids : S \intersect T = {} =>
                 Cardinality(S \union T) = Cardinality(S) + Cardinality(T)
<1>1. IsFiniteSet(Ids)
  BY StoresAssumption
<1>2. \A T \in SUBSET Ids : IsFiniteSet(T) /\ Cardinality(T) \in Nat
  BY <1>1, FS_Subset, FS_CardinalityType
<1>3. \A T \in SUBSET S : /\ Cardinality(T) <= Cardinality(S)
                          /\ Cardinality(S) = Cardinality(T) => S = T
  BY <1>2, FS_Subset
<1>4. ASSUME NEW T \in SUBSET Ids, S \intersect T = {}
      PROVE  Cardinality(S \union T) = Cardinality(S) + Cardinality(T)
  <2>1. Cardinality(S \union T) = Cardinality(S) + Cardinality(T) - Cardinality(S \intersect T)
    BY <1>2, FS_Union
  <2>2. Cardinality(S \intersect T) = 0
    BY <1>4, FS_EmptySet
  <2>3. QED BY <1>2, <2>1, <2>2
<1>5. QED BY <1>2, <1>3, <1>4, FS_EmptySet

\* A page is the part of the selected rows between those before its offset
\* and those after it.
LEMMA PageIs ==
    ASSUME NEW list, NEW S \in SUBSET Ids, NEW from \in Nat, NEW n \in Nat,
           NEW T \in Pages(list, S, from, n)
    PROVE  /\ T \in SUBSET S
           /\ Cardinality(T) = Smaller(n, Cardinality(S) - Smaller(from, Cardinality(S)))
           /\ \E H \in SUBSET (S \ T) :
                 /\ Cardinality(H) = Smaller(from, Cardinality(S))
                 /\ \A x \in H, y \in S \ H : Before(list, x, y)
                 /\ \A x \in T, y \in S \ (H \union T) : Before(list, x, y)
BY DEF Pages

\* The first page after a cursor, in the order of the ids.
LEMMA FirstPage ==
    ASSUME NEW list, ~list.sort, list.mode = "cursor", NEW S \in SUBSET Ids,
           NEW T \in Pages(list, S, 0, Limit)
    PROVE  /\ T \in SUBSET S
           /\ Cardinality(S) <= Limit => T = S
           /\ \A x \in LastOf(list, T) :
                 x \in T /\ \A y \in S : y <= x <=> y \in T
<1>1. Limit \in Nat /\ Ids \subseteq Nat
  BY StoresAssumption
<1>2. \A x, y \in Ids : Before(list, x, y) => x <= y
  BY DEF Before, DynamicOrder, generate_order_by
<1>3. Cardinality(S) \in Nat /\ Smaller(0, Cardinality(S)) = 0
  BY SetsOfIds DEF Smaller
<1>0. /\ T \in SUBSET S
      /\ Cardinality(T) = Smaller(Limit, Cardinality(S) - Smaller(0, Cardinality(S)))
      /\ \E H \in SUBSET (S \ T) :
            /\ Cardinality(H) = Smaller(0, Cardinality(S))
            /\ \A x \in H, y \in S \ H : Before(list, x, y)
            /\ \A x \in T, y \in S \ (H \union T) : Before(list, x, y)
  BY DEF Pages
<1>4. T \in SUBSET S /\ Cardinality(T) = Smaller(Limit, Cardinality(S))
  <2>1. Cardinality(S) - Smaller(0, Cardinality(S)) = Cardinality(S)
    BY <1>3
  <2>2. T \in SUBSET S /\ Cardinality(T) = Smaller(Limit, Cardinality(S) - Smaller(0, Cardinality(S)))
    BY <1>0, Zenon
  <2>3. QED BY <2>1, <2>2, Zenon
<1>5. PICK H \in SUBSET (S \ T) :
         /\ Cardinality(H) = 0
         /\ \A x \in T, y \in S \ (H \union T) : Before(list, x, y)
  BY <1>0, <1>3
<1>6. H = {}
  BY <1>5, SetsOfIds
<1>7. \A x \in T, y \in S \ T : x <= y
  BY <1>2, <1>4, <1>5, <1>6
<1>8. Cardinality(S) <= Limit => T = S
  BY <1>1, <1>3, <1>4, SetsOfIds DEF Smaller
<1>9. ASSUME NEW x \in LastOf(list, T)
      PROVE  x \in T /\ \A y \in S : y <= x <=> y \in T
  <2>1. x \in T /\ \A y \in T : y <= x
    BY <1>2, <1>4 DEF LastOf
  <2>2. ASSUME NEW y \in S, y <= x PROVE y \in T
    BY <1>1, <1>4, <1>7, <2>1, <2>2
  <2>3. QED BY <2>1, <2>2
<1>10. QED BY <1>4, <1>8, <1>9

\* The generated ORDER BY is a total order: of its initial segments one
\* contains the other.
LEMMA OneSegment ==
    ASSUME Types, engine = "generated", NEW list, NEW S \in SUBSET Ids,
           NEW G \in SUBSET S, NEW H \in SUBSET S, Cardinality(G) = Cardinality(H),
           \A x \in G, y \in S \ G : Before(list, x, y),
           \A x \in H, y \in S \ H : Before(list, x, y)
    PROVE  G = H
<1>1. \A x, y \in Ids : Before(list, x, y) /\ Before(list, y, x) => x = y
  <2> SUFFICES ASSUME NEW x \in Ids, NEW y \in Ids, generate_order_by(list, x, y),
                      generate_order_by(list, y, x)
               PROVE  x = y
    BY DEF Before
  <2>1. x \in Nat /\ y \in Nat /\ rows[x].val \in Nat /\ rows[y].val \in Nat
    <3>1. rows[x].val \in Values \union {0} /\ rows[y].val \in Values \union {0}
      BY RowTypes DEF Types
    <3>2. x \in Nat /\ y \in Nat /\ Values \union {0} \subseteq Nat
      BY StoresAssumption
    <3>3. QED BY <3>1, <3>2
  <2>2. CASE list.sort
    BY <2>1, <2>2 DEF generate_order_by
  <2>3. CASE ~list.sort
    BY <2>1, <2>3 DEF generate_order_by
  <2>4. QED BY <2>2, <2>3
<1>2. G \subseteq H \/ H \subseteq G
  BY <1>1
<1>3. QED BY <1>2, SetsOfIds

-----------------------------------------------------------------------------
(* Walks *)

Wants(list, id) == list.filter \in {Unfiltered, rows[id].val}
Exact == ~(engine = "mongodb" /\ numeric)

\* What a reader is owed is still there and still selected.
OwedThere(r) == \A id \in walk[r].owed : Visible(id) /\ Wants(walk[r].list, id)

CursorKept(r) ==
    walk[r].list.mode = "cursor" /\ ~walk[r].list.sort =>
    /\ \A id \in Ids : walk[r].seen[id] <= 1
    /\ walk[r].at = "paging" =>
          /\ \A id \in Ids : walk[r].seen[id] = 1 => id <= walk[r].cursor
          /\ Exact => \A id \in walk[r].owed : id <= walk[r].cursor => walk[r].seen[id] = 1
    /\ walk[r].at = "done" /\ Exact => \A id \in walk[r].owed : walk[r].seen[id] = 1

SeenBy(r) == {id \in Ids : walk[r].seen[id] # 0}

OffsetKept(r) ==
    engine = "generated" /\ walk[r].list.mode = "offset" /\ walk[r].calm
    /\ walk[r].at # "idle" =>
    /\ \A id \in Ids : walk[r].seen[id] <= 1
    /\ walk[r].owed = Matching(walk[r].list, 0)
    /\ SeenBy(r) \subseteq walk[r].owed
    /\ \A x \in SeenBy(r), y \in walk[r].owed \ SeenBy(r) : Before(walk[r].list, x, y)
    /\ walk[r].at = "paging" =>
          Cardinality(SeenBy(r)) = Smaller(walk[r].cursor, Cardinality(walk[r].owed))
    /\ walk[r].at = "done" => SeenBy(r) = walk[r].owed

IdleFresh(r) == walk[r].at = "idle" => walk[r].owed = {} /\ \A id \in Ids : walk[r].seen[id] = 0

WalkKept(r) == OwedThere(r) /\ CursorKept(r) /\ OffsetKept(r) /\ IdleFresh(r)

WalksInv == \A r \in Readers : WalkKept(r)

LEMMA WalksInit == Init => WalksInv
<1> SUFFICES ASSUME Init, NEW r \in Readers PROVE WalkKept(r)
  BY DEF WalksInv
<1>1. /\ walk[r].at = "idle" /\ walk[r].owed = {}
      /\ \A id \in Ids : walk[r].seen[id] = 0
  BY DEF Init
<1>2. QED BY <1>1 DEF WalkKept, OwedThere, CursorKept, OffsetKept, IdleFresh

\* A step that leaves a walk as it was, and the rows it looks at.
LEMMA WalkStays ==
    ASSUME NEW r \in Readers, WalkKept(r), walk'[r] = walk[r], UNCHANGED <<engine, numeric, rows>>
    PROVE  WalkKept(r)'
<1>1. /\ (OwedThere(r)' <=> OwedThere(r)) /\ (Exact' <=> Exact) /\ SeenBy(r)' = SeenBy(r)
      /\ Matching(walk[r].list, 0)' = Matching(walk[r].list, 0)
  BY DEF OwedThere, Visible, Wants, Exact, SeenBy, Matching, NotDeleted, Selected, FilterValue,
         json_to_bson, generate_filter_declaration, coerce_filter_value, coerce_filter_to_sea_value
<1>2. \A x, y : Before(walk[r].list, x, y)' <=> Before(walk[r].list, x, y)
  BY DEF Before, DynamicOrder, generate_order_by
<1>3. QED BY <1>1, <1>2 DEF WalkKept, CursorKept, OffsetKept, IdleFresh

\* A write takes the row out of what is owed and ends the calm.
LEMMA SetKeepsWalks ==
    ASSUME Types, WalksInv, NEW id \in Ids, NEW is \in {"live", "deleted", "removed"},
           NEW val \in Values \union {0}, Set(id, is, val), UNCHANGED <<engine, numeric>>
    PROVE  WalksInv'
<1> SUFFICES ASSUME NEW r \in Readers PROVE WalkKept(r)'
  BY DEF WalksInv
<1>1. /\ \A i \in Ids : i # id => rows'[i] = rows[i]
      /\ walk'[r] = [walk[r] EXCEPT !.owed = walk[r].owed \ {id}, !.calm = FALSE]
  BY SetTypes
<1>2. walk[r] \in WalkRec /\ WalkKept(r)
  BY DEF Types, WalksInv
<1>3. /\ walk'[r].at = walk[r].at /\ walk'[r].list = walk[r].list /\ walk'[r].cursor = walk[r].cursor
      /\ walk'[r].seen = walk[r].seen /\ walk'[r].owed = walk[r].owed \ {id}
      /\ walk'[r].calm = FALSE
  BY <1>1, <1>2 DEF WalkRec
<1>4. OwedThere(r)'
  <2>1. walk[r].owed \subseteq Ids
    BY <1>2 DEF WalkRec
  <2>2. \A i \in walk'[r].owed : i \in walk[r].owed /\ rows'[i] = rows[i]
    BY <1>1, <1>3, <2>1
  <2>3. QED BY <1>2, <1>3, <2>2 DEF WalkKept, OwedThere, Visible, Wants
<1>5. CursorKept(r)' /\ IdleFresh(r)'
  BY <1>2, <1>3 DEF WalkKept, CursorKept, IdleFresh, Exact
<1>6. OffsetKept(r)'
  BY <1>3 DEF OffsetKept
<1>7. QED BY <1>4, <1>5, <1>6 DEF WalkKept

LEMMA RestKeepsWalks ==
    ASSUME WalksInv, UNCHANGED <<engine, numeric, rows, walk>>
    PROVE  WalksInv'
BY WalkStays DEF WalksInv

\* The rows selected, in a walk that is owed something.
LEMMA MatchingIs ==
    ASSUME NEW list, NEW cursor \in Nat, NEW id \in Ids
    PROVE  /\ Matching(list, cursor) \in SUBSET Ids
           /\ id \in Matching(list, cursor) => id > cursor
           /\ Exact /\ Visible(id) /\ Wants(list, id) /\ id > cursor => id \in Matching(list, cursor)
           /\ engine = "generated" /\ id \in Matching(list, cursor) => Visible(id) /\ Wants(list, id)
<1>1. Exact => \A raw : FilterValue(raw) = raw
  BY DEF Exact, FilterValue, json_to_bson, generate_filter_declaration, coerce_filter_value,
         coerce_filter_to_sea_value
<1>2. engine = "generated" => Exact
  BY DEF Exact
<1>3. QED BY <1>1, <1>2 DEF Matching, NotDeleted, Selected, Wants

\* The record of a reader after a page.
LEMMA ArrivesTypes ==
    ASSUME Types, NEW r \in Readers, NEW T \in SUBSET Ids, NEW more \in BOOLEAN, NEW next \in Nat,
           Arrives(r, T, more, next)
    PROVE  /\ walk' \in [Readers -> WalkRec]
           /\ \A q \in Readers : q # r => walk'[q] = walk[q]
           /\ walk'[r].list = walk[r].list /\ walk'[r].owed = walk[r].owed
           /\ walk'[r].calm = walk[r].calm /\ walk'[r].cursor = next
           /\ walk'[r].at = (IF more THEN "paging" ELSE "done")
           /\ \A id \in Ids : walk'[r].seen[id] =
                 IF id \in T THEN Smaller(walk[r].seen[id] + 1, 2) ELSE walk[r].seen[id]
<1> DEFINE seen == [id \in Ids |-> IF id \in T THEN Smaller(walk[r].seen[id] + 1, 2)
                                   ELSE walk[r].seen[id]]
           rec == [walk[r] EXCEPT !.seen = seen, !.cursor = next,
                                  !.at = IF more THEN "paging" ELSE "done"]
<1>1. walk[r] \in WalkRec
  BY DEF Types
<1>2. seen \in [Ids -> 0 .. 2]
  <2>1. \A id \in Ids : walk[r].seen[id] \in 0 .. 2
    BY <1>1 DEF WalkRec
  <2>2. QED BY <2>1 DEF Smaller
<1>3. walk' = [walk EXCEPT ![r].seen = seen, ![r].cursor = next,
                           ![r].at = IF more THEN "paging" ELSE "done"]
  BY DEF Arrives
<1>4. walk' = [walk EXCEPT ![r] = rec]
  BY <1>3
<1> HIDE DEF seen
<1>5. /\ rec \in WalkRec
      /\ rec.list = walk[r].list /\ rec.owed = walk[r].owed /\ rec.calm = walk[r].calm
      /\ rec.cursor = next /\ rec.at = (IF more THEN "paging" ELSE "done") /\ rec.seen = seen
  BY <1>1, <1>2 DEF WalkRec
<1> HIDE DEF rec
<1>6. walk'[r] = rec /\ walk' \in [Readers -> WalkRec]
      /\ \A q \in Readers : q # r => walk'[q] = walk[q]
  BY <1>4, <1>5 DEF Types
<1>7. QED BY <1>5, <1>6 DEF seen

LEMMA CursorPageKeeps ==
    ASSUME Types, NEW r \in Readers, WalkKept(r), walk[r].at = "paging", CursorPage(r),
           engine = "generated" => walk[r].list.mode = "cursor",
           UNCHANGED <<engine, numeric, rows>>
    PROVE  /\ walk' \in [Readers -> WalkRec]
           /\ \A q \in Readers : q # r => walk'[q] = walk[q]
           /\ WalkKept(r)'
<1>1. PICK list, cursor : list = walk[r].list /\ cursor = walk[r].cursor
  OBVIOUS
<1>2. walk[r] \in WalkRec /\ cursor \in Nat /\ Ids \subseteq Nat /\ Limit \in Nat
  BY <1>1, StoresAssumption DEF Types, WalkRec
<1>3. PICK S \in SUBSET Ids : S = Matching(list, cursor)
  <2>1. Matching(list, cursor) \in SUBSET Ids
    BY DEF Matching, NotDeleted
  <2>2. QED BY <2>1, Zenon
<1>4. PICK T \in Pages(list, S, 0, Limit) :
          \E next \in IF Cardinality(S) > Limit THEN LastOf(list, T) ELSE {cursor} :
             Arrives(r, T, Cardinality(S) > Limit, next)
  BY <1>1, <1>3 DEF CursorPage
<1>5. PICK next \in IF Cardinality(S) > Limit THEN LastOf(list, T) ELSE {cursor} :
         Arrives(r, T, Cardinality(S) > Limit, next)
  BY <1>4
<1>6. T \in SUBSET S /\ LastOf(list, T) \subseteq T
  BY DEF Pages, LastOf
<1>7. next \in Nat /\ T \in SUBSET Ids
  BY <1>2, <1>4, <1>6
<1>8. PICK more \in BOOLEAN : more <=> Cardinality(S) > Limit
  OBVIOUS
<1>9. /\ walk' \in [Readers -> WalkRec]
      /\ \A q \in Readers : q # r => walk'[q] = walk[q]
      /\ walk'[r].list = list /\ walk'[r].owed = walk[r].owed
      /\ walk'[r].cursor = next
      /\ walk'[r].at = (IF more THEN "paging" ELSE "done")
      /\ \A id \in Ids : walk'[r].seen[id] =
            IF id \in T THEN Smaller(walk[r].seen[id] + 1, 2) ELSE walk[r].seen[id]
  <2>1. Arrives(r, T, more, next)
    BY <1>5, <1>8 DEF Arrives
  <2>2. /\ walk' \in [Readers -> WalkRec]
        /\ \A q \in Readers : q # r => walk'[q] = walk[q]
        /\ walk'[r].list = walk[r].list /\ walk'[r].owed = walk[r].owed
        /\ walk'[r].cursor = next
        /\ walk'[r].at = (IF more THEN "paging" ELSE "done")
        /\ \A id \in Ids : walk'[r].seen[id] =
              IF id \in T THEN Smaller(walk[r].seen[id] + 1, 2) ELSE walk[r].seen[id]
    BY <1>7, <2>1, ArrivesTypes
  <2>3. QED BY <1>1, <2>2
<1>10. OwedThere(r)' /\ IdleFresh(r)' /\ OffsetKept(r)'
  BY <1>1, <1>9 DEF WalkKept, OwedThere, Visible, Wants, IdleFresh, OffsetKept
<1>11. CursorKept(r)'
  <2> SUFFICES ASSUME list.mode = "cursor", ~list.sort PROVE CursorKept(r)'
    BY <1>9 DEF CursorKept
  <2>1. /\ \A id \in Ids : walk[r].seen[id] \in 0 .. 2 /\ walk[r].seen[id] <= 1
        /\ \A id \in Ids : walk[r].seen[id] = 1 => id <= cursor
        /\ Exact => \A id \in walk[r].owed : id <= cursor => walk[r].seen[id] = 1
    BY <1>1, <1>2 DEF WalkKept, CursorKept, WalkRec
  <2>2. /\ Cardinality(S) <= Limit => T = S
        /\ \A x \in LastOf(list, T) : x \in T /\ \A y \in S : y <= x <=> y \in T
    BY FirstPage
  <2>3. \A id \in S : id > cursor
    BY <1>2, <1>3, MatchingIs
  <2>4. Exact => \A id \in walk[r].owed : id \in Ids /\ (id > cursor => id \in S)
    <3>1. walk[r].owed \subseteq Ids
      BY <1>2 DEF WalkRec
    <3>2. QED BY <1>1, <1>2, <1>3, <3>1, MatchingIs DEF WalkKept, OwedThere
  <2>5. \A id \in Ids : walk'[r].seen[id] = IF id \in T THEN 1 ELSE walk[r].seen[id]
    <3>1. \A id \in T : id \in Ids /\ walk[r].seen[id] = 0
      <4>1. \A id \in T : id \in Ids /\ id \in Nat /\ id > cursor
        BY <1>2, <1>6, <1>7, <2>3
      <4>2. QED BY <1>2, <2>1, <4>1
    <3>2. QED BY <1>9, <3>1 DEF Smaller
  <2>6. CASE more
    <3>1. next \in T /\ \A y \in S : y <= next <=> y \in T
      BY <1>4, <1>8, <2>2, <2>6
    <3>2. next > cursor
      BY <1>6, <2>3, <3>1
    <3>3. ASSUME NEW id \in Ids, walk'[r].seen[id] = 1 PROVE id <= next
      <4>1. CASE id \in T
        BY <1>6, <3>1, <4>1
      <4>2. CASE id \notin T
        BY <1>2, <1>7, <2>1, <2>5, <3>2, <3>3, <4>2
      <4>3. QED BY <4>1, <4>2
    <3>4. ASSUME Exact, NEW id \in walk[r].owed, id <= next PROVE walk'[r].seen[id] = 1
      <4>1. id \in Ids /\ (id > cursor => id \in T)
        BY <2>4, <3>1, <3>4
      <4>2. CASE id > cursor
        BY <2>5, <4>1, <4>2
      <4>3. CASE id <= cursor
        BY <2>1, <2>5, <3>4, <4>1, <4>3
      <4>4. QED BY <1>2, <4>1, <4>2, <4>3
    <3>5. QED BY <1>9, <2>1, <2>5, <2>6, <3>3, <3>4 DEF CursorKept, Exact
  <2>7. CASE ~more
    <3>1. T = S
      <4>1. Cardinality(S) \in Nat
        BY SetsOfIds
      <4>2. QED BY <1>2, <1>8, <2>2, <2>7, <4>1
    <3>2. ASSUME Exact, NEW id \in walk[r].owed PROVE walk'[r].seen[id] = 1
      <4>1. id \in Ids /\ (id > cursor => id \in T)
        BY <2>4, <3>1, <3>2
      <4>2. CASE id > cursor
        BY <2>5, <4>1, <4>2
      <4>3. CASE id <= cursor
        BY <2>1, <2>5, <3>2, <4>1, <4>3
      <4>4. QED BY <1>2, <4>1, <4>2, <4>3
    <3>3. QED BY <1>9, <2>1, <2>5, <2>7, <3>2 DEF CursorKept, Exact
  <2>8. QED BY <2>6, <2>7
<1>12. QED BY <1>9, <1>10, <1>11 DEF WalkKept

LEMMA OffsetPageKeeps ==
    ASSUME Types, NEW r \in Readers, WalkKept(r), walk[r].at = "paging", OffsetPage(r),
           walk[r].list.mode # "cursor", UNCHANGED <<engine, numeric, rows>>
    PROVE  /\ walk' \in [Readers -> WalkRec]
           /\ \A q \in Readers : q # r => walk'[q] = walk[q]
           /\ WalkKept(r)'
<1>1. PICK list, cursor : list = walk[r].list /\ cursor = walk[r].cursor
  OBVIOUS
<1>2. walk[r] \in WalkRec /\ cursor \in Nat /\ Limit \in Nat
  BY <1>1, StoresAssumption DEF Types, WalkRec
<1>3. PICK S \in SUBSET Ids : S = Matching(list, 0)
  <2>1. Matching(list, 0) \in SUBSET Ids
    BY DEF Matching, NotDeleted
  <2>2. QED BY <2>1, Zenon
<1>4. PICK T \in Pages(list, S, cursor, Limit) :
         Arrives(r, T, Cardinality(T) = Limit, cursor + Limit)
  BY <1>1, <1>3 DEF OffsetPage
<1>5. T \in SUBSET S /\ T \in SUBSET Ids /\ cursor + Limit \in Nat
  BY <1>2 DEF Pages
<1>6. PICK more \in BOOLEAN : more <=> Cardinality(T) = Limit
  OBVIOUS
<1>7. /\ walk' \in [Readers -> WalkRec]
      /\ \A q \in Readers : q # r => walk'[q] = walk[q]
      /\ walk'[r].list = list /\ walk'[r].owed = walk[r].owed /\ walk'[r].calm = walk[r].calm
      /\ walk'[r].cursor = cursor + Limit
      /\ walk'[r].at = (IF more THEN "paging" ELSE "done")
      /\ \A id \in Ids : walk'[r].seen[id] =
            IF id \in T THEN Smaller(walk[r].seen[id] + 1, 2) ELSE walk[r].seen[id]
  <2>0. PICK next \in Nat : next = cursor + Limit
    BY <1>5
  <2>1. Arrives(r, T, more, next)
    BY <1>4, <1>6, <2>0 DEF Arrives
  <2>2. /\ walk' \in [Readers -> WalkRec]
        /\ \A q \in Readers : q # r => walk'[q] = walk[q]
        /\ walk'[r].list = walk[r].list /\ walk'[r].owed = walk[r].owed
        /\ walk'[r].calm = walk[r].calm /\ walk'[r].cursor = next
        /\ walk'[r].at = (IF more THEN "paging" ELSE "done")
        /\ \A id \in Ids : walk'[r].seen[id] =
              IF id \in T THEN Smaller(walk[r].seen[id] + 1, 2) ELSE walk[r].seen[id]
    BY <1>5, <2>1, ArrivesTypes
  <2>3. QED BY <1>1, <2>0, <2>2
<1>8. OwedThere(r)' /\ IdleFresh(r)' /\ CursorKept(r)'
  BY <1>1, <1>7 DEF WalkKept, OwedThere, Visible, Wants, IdleFresh, CursorKept
<1>9. OffsetKept(r)'
  <2> SUFFICES ASSUME engine = "generated", list.mode = "offset", walk[r].calm
               PROVE  OffsetKept(r)'
    BY <1>7 DEF OffsetKept
  <2> DEFINE Seen == SeenBy(r)
  <2>1. /\ \A id \in Ids : walk[r].seen[id] \in 0 .. 2 /\ walk[r].seen[id] <= 1
        /\ walk[r].owed = S /\ Seen \in SUBSET S
        /\ \A x \in Seen, y \in S \ Seen : Before(list, x, y)
        /\ Cardinality(Seen) = Smaller(cursor, Cardinality(S))
    BY <1>1, <1>2, <1>3 DEF WalkKept, OffsetKept, WalkRec
  <2>2. PICK G \in SUBSET Ids : G = Seen
    BY DEF SeenBy
  <2> HIDE DEF Seen
  <2>3. PICK H \in SUBSET (S \ T) :
           /\ Cardinality(H) = Smaller(cursor, Cardinality(S))
           /\ \A x \in H, y \in S \ H : Before(list, x, y)
           /\ \A x \in T, y \in S \ (H \union T) : Before(list, x, y)
    BY DEF Pages
  <2>4. G = H
    <3>1. /\ G \in SUBSET S /\ H \in SUBSET S /\ Cardinality(G) = Cardinality(H)
          /\ \A x \in G, y \in S \ G : Before(list, x, y)
          /\ \A x \in H, y \in S \ H : Before(list, x, y)
      BY <2>1, <2>2, <2>3
    <3>2. QED BY <3>1, OneSegment
  <2>5. \A id \in Ids : walk'[r].seen[id] = IF id \in T THEN 1 ELSE walk[r].seen[id]
    <3>1. \A id \in T : id \in Ids /\ walk[r].seen[id] = 0
      BY <1>5, <2>2, <2>3, <2>4 DEF Seen, SeenBy
    <3>2. QED BY <1>7, <3>1 DEF Smaller
  <2>6. SeenBy(r)' = G \union T
    BY <1>5, <2>2, <2>5 DEF Seen, SeenBy
  <2>7. /\ Cardinality(G \union T) = Cardinality(G) + Cardinality(T)
        /\ G \union T \in SUBSET S
        /\ Cardinality(S) \in Nat /\ Cardinality(T) \in Nat /\ Cardinality(G) \in Nat
        /\ Cardinality(G \union T) = Cardinality(S) => G \union T = S
    <3>1. G \intersect T = {} /\ G \in SUBSET S
      BY <2>3, <2>4
    <3>2. QED BY <1>5, <3>1, SetsOfIds
  <2>8. Cardinality(T) = Smaller(Limit, Cardinality(S) - Smaller(cursor, Cardinality(S)))
    BY DEF Pages
  <2>9. /\ more => Cardinality(G \union T) = Smaller(cursor + Limit, Cardinality(S))
        /\ ~more => G \union T = S
    <3>1. Cardinality(G) = Smaller(cursor, Cardinality(S))
      BY <2>1, <2>2
    <3>2. Cardinality(G \union T) = Cardinality(G) + Cardinality(T)
      BY <2>7
    <3>3. PICK g \in Nat, t \in Nat, s \in Nat, u \in Nat, k \in Nat, n \in Nat :
             /\ g = Cardinality(G) /\ t = Cardinality(T) /\ s = Cardinality(S)
             /\ u = Cardinality(G \union T) /\ k = cursor /\ n = Limit
      BY <1>2, <2>7, <3>2
    <3>4. g = Smaller(k, s) /\ t = Smaller(n, s - g) /\ u = g + t
      BY <2>8, <3>1, <3>2, <3>3
    <3>5. (t = n => u = Smaller(k + n, s)) /\ (t # n => u = s)
      BY <3>4 DEF Smaller
    <3>6. QED BY <1>6, <2>7, <3>3, <3>5
  <2>10. \A x \in G \union T, y \in S \ (G \union T) : Before(list, x, y)
    BY <2>1, <2>2, <2>3, <2>4
  <2>11. /\ Matching(list, 0)' = Matching(list, 0)
         /\ \A x, y : Before(list, x, y)' <=> Before(list, x, y)
    BY DEF Visible, Matching, NotDeleted, Selected, FilterValue, json_to_bson,
       generate_filter_declaration, coerce_filter_value, coerce_filter_to_sea_value,
       Before, DynamicOrder, generate_order_by
  <2>12. \A id \in Ids : walk'[r].seen[id] <= 1
    BY <2>1, <2>5
  <2>13. QED
    BY <1>3, <1>7, <2>1, <2>6, <2>7, <2>9, <2>10, <2>11, <2>12 DEF OffsetKept
<1>10. QED BY <1>7, <1>8, <1>9 DEF WalkKept

LEMMA FailedPageKeeps ==
    ASSUME Types, NEW r \in Readers, WalkKept(r), walk' = [walk EXCEPT ![r].at = "failed"],
           engine # "generated", UNCHANGED <<engine, numeric, rows>>
    PROVE  /\ walk' \in [Readers -> WalkRec]
           /\ \A q \in Readers : q # r => walk'[q] = walk[q]
           /\ WalkKept(r)'
<1>1. walk[r] \in WalkRec
  BY DEF Types
<1>2. walk'[r] = [walk[r] EXCEPT !.at = "failed"] /\ [walk[r] EXCEPT !.at = "failed"] \in WalkRec
  BY <1>1 DEF Types, WalkRec
<1>3. walk' \in [Readers -> WalkRec] /\ \A q \in Readers : q # r => walk'[q] = walk[q]
  BY <1>2 DEF Types
<1>4. /\ walk'[r].at = "failed" /\ walk'[r].list = walk[r].list
      /\ walk'[r].owed = walk[r].owed /\ walk'[r].seen = walk[r].seen
  BY <1>1, <1>2 DEF WalkRec
<1>5. WalkKept(r)'
  BY <1>4 DEF WalkKept, OwedThere, Visible, Wants, CursorKept, OffsetKept, IdleFresh
<1>6. QED BY <1>3, <1>5

LEMMA ListBeginsKeeps ==
    ASSUME Types, NEW r \in Readers, NEW list \in Listings, WalkKept(r), ListBegins(r, list)
    PROVE  /\ walk' \in [Readers -> WalkRec]
           /\ \A q \in Readers : q # r => walk'[q] = walk[q]
           /\ WalkKept(r)'
<1>1. PICK owed \in SUBSET Ids :
         owed = {id \in NotDeleted : list.filter \in {Unfiltered, rows[id].val}}
  <2>1. {id \in NotDeleted : list.filter \in {Unfiltered, rows[id].val}} \in SUBSET Ids
    BY DEF NotDeleted
  <2>2. QED BY <2>1
<1>2. /\ walk'[r] = [at |-> "paging", list |-> list, cursor |-> 0, calm |-> TRUE,
                     seen |-> [id \in Ids |-> 0], owed |-> owed]
      /\ \A q \in Readers : q # r => walk'[q] = walk[q]
      /\ DOMAIN walk' = Readers
      /\ UNCHANGED <<engine, numeric, rows>>
  BY <1>1 DEF ListBegins, Types
<1>3. walk' \in [Readers -> WalkRec]
  <2>1. [at |-> "paging", list |-> list, cursor |-> 0, calm |-> TRUE,
         seen |-> [id \in Ids |-> 0], owed |-> owed] \in WalkRec
    BY <1>1 DEF WalkRec
  <2>2. walk' = [q \in Readers |-> walk'[q]]
    BY DEF ListBegins, Types
  <2>3. \A q \in Readers : walk'[q] \in WalkRec
    BY <1>2, <2>1 DEF Types
  <2>4. QED BY <2>2, <2>3
<1>4. /\ walk'[r].at = "paging" /\ walk'[r].list = list /\ walk'[r].cursor = 0
      /\ walk'[r].owed = owed /\ \A id \in Ids : walk'[r].seen[id] = 0
  BY <1>2
<1>5. OwedThere(r)' /\ IdleFresh(r)'
  BY <1>1, <1>2, <1>4 DEF OwedThere, IdleFresh, NotDeleted, Visible, Wants
<1>6. CursorKept(r)'
  <2>1. \A id \in owed : ~(id <= 0)
    <3>1. Ids \subseteq Nat \ {0}
      BY StoresAssumption
    <3>2. QED BY <3>1
  <2>2. QED BY <1>4, <2>1 DEF CursorKept
<1>7. OffsetKept(r)'
  <2> SUFFICES ASSUME engine = "generated" PROVE OffsetKept(r)'
    BY <1>2 DEF OffsetKept
  <2>1. SeenBy(r)' = {}
    BY <1>4 DEF SeenBy
  <2>2. Matching(list, 0)' = Matching(list, 0)
    BY <1>2 DEF Visible, Matching, NotDeleted, Selected, FilterValue, json_to_bson,
       generate_filter_declaration, coerce_filter_value, coerce_filter_to_sea_value
  <2>3. owed = Matching(list, 0)
    <3>1. \A id \in Ids : id > 0
      BY StoresAssumption
    <3>2. QED
      BY <1>1, <3>1 DEF NotDeleted, Matching, Selected, FilterValue, generate_filter_declaration
  <2>4. Cardinality({}) = 0 /\ Smaller(0, Cardinality(owed)) = 0
    BY FS_EmptySet, SetsOfIds DEF Smaller
  <2>5. QED BY <1>4, <2>1, <2>2, <2>3, <2>4 DEF OffsetKept
<1>8. QED BY <1>2, <1>3, <1>5, <1>6, <1>7 DEF WalkKept

LEMMA ReadKeeps ==
    ASSUME StoresInv, WalksInv, NEW r \in Readers, Read(r)
    PROVE  StoresInv' /\ WalksInv'
<1>1. UNCHANGED <<engine, soft, numeric, rows, writer, writes>>
  BY DEF Read, ListBegins, find_all
<1>2. Types /\ WalkKept(r)
  BY DEF StoresInv, WalksInv
<1>3. /\ walk' \in [Readers -> WalkRec]
      /\ \A q \in Readers : q # r => walk'[q] = walk[q]
      /\ WalkKept(r)'
  <2>1. CASE \E list \in Listings : ListBegins(r, list)
    BY <1>2, <2>1, ListBeginsKeeps
  <2>2. CASE find_all(r)
    <3>1. walk[r].at = "paging" /\ UNCHANGED <<engine, numeric, rows>>
      BY <2>2 DEF find_all
    <3>2. \/ CursorPage(r) /\ (engine = "generated" => walk[r].list.mode = "cursor")
          \/ OffsetPage(r) /\ walk[r].list.mode # "cursor"
          \/ engine # "generated" /\ walk' = [walk EXCEPT ![r].at = "failed"]
      BY <2>2 DEF find_all, QueryFindAll, GeneratedFindAll, OrmFindAll, MongoFindAll
    <3>3. QED BY <1>2, <3>1, <3>2, CursorPageKeeps, OffsetPageKeeps, FailedPageKeeps
  <2>3. QED BY <2>1, <2>2 DEF Read
<1>4. Types'
  <2>1. /\ engine' \in Engines /\ soft' \in BOOLEAN /\ numeric' \in BOOLEAN /\ writes' \in 0 .. MaxWrites
        /\ rows' \in [Ids -> [is : {"absent", "live", "deleted", "removed"}, val : Values \union {0}]]
        /\ writer' \in [Writers -> WriterRec]
    BY <1>1, <1>2 DEF Types, TypeOK
  <2>2. QED BY <1>3, <2>1, TypesAre
<1>5. Claims'
  BY <1>1 DEF StoresInv, Claims, WriterKept, OnceBy, Visible
<1>6. WalksInv'
  BY <1>1, <1>3, WalkStays DEF WalksInv
<1>7. QED BY <1>4, <1>5, <1>6 DEF StoresInv

LEMMA WriteKeepsWalks == ASSUME StoresInv, WalksInv, NEW w \in Writers, Write(w) PROVE WalksInv'
<1>1. Types /\ TypeOK
  BY DEF StoresInv, Types
<1>2. \/ /\ UNCHANGED <<engine, numeric>>
         /\ \E id \in Ids, is \in {"live", "deleted", "removed"}, val \in Values \union {0} :
               Set(id, is, val)
      \/ UNCHANGED <<engine, numeric, rows, walk>>
  <2>1. CASE Begins(w)
    BY <2>1 DEF Begins, Done, Refused, FoundFirst, Starts
  <2>2. CASE Remove(w)
    <3>1. writer[w].id \in Ids
      BY <2>2 DEF StoresInv, Claims, WriterKept, Remove
    <3>2. rows[writer[w].id].val \in Values \union {0}
      BY <1>1, <3>1, RowTypes
    <3>3. QED BY <2>2, <3>1, <3>2 DEF Remove, Answers
  <2>3. CASE OrmReadsBack(w) \/ MongoReadsBack(w)
    BY <2>3 DEF OrmReadsBack, MongoReadsBack, Answers
  <2>4. QED BY <1>1, <2>1, <2>2, <2>3, WriteBegins
<1>3. QED BY <1>1, <1>2, SetKeepsWalks, RestKeepsWalks

-----------------------------------------------------------------------------
\* The inductive invariant of the stores and of the walks through them.
THEOREM StoresInvariant == Spec => [](StoresInv /\ WalksInv)
<1>1. Init => StoresInv /\ WalksInv
  BY TypesInit, ClaimsInit, WalksInit DEF StoresInv
<1>2. StoresInv /\ WalksInv /\ [Next]_vars => StoresInv' /\ WalksInv'
  <2> SUFFICES ASSUME StoresInv, WalksInv, [Next]_vars PROVE StoresInv' /\ WalksInv'
    OBVIOUS
  <2>1. CASE \E w \in Writers : Write(w)
    BY <2>1, WriteKeeps, WriteKeepsWalks
  <2>2. CASE \E r \in Readers : Read(r)
    BY <2>2, ReadKeeps
  <2>3. CASE UNCHANGED vars
    <3>1. UNCHANGED <<engine, soft, numeric, rows, writer, walk, writes>>
      BY <2>3 DEF vars
    <3>2. StoresInv'
      BY <3>1 DEF StoresInv, Types, TypeOK, Claims, WriterKept, OnceBy, Visible
    <3>3. QED BY <3>1, <3>2, RestKeepsWalks
  <2>4. QED BY <2>1, <2>2, <2>3 DEF Next
<1>3. QED BY <1>1, <1>2, PTL DEF Spec

\* Following the cursors of an unsorted listing, or the offsets of a generated
\* one while nobody writes, returns every row that was there all the time, and
\* none twice, whatever is inserted, changed and deleted meanwhile.
THEOREM WalksAreComplete == Spec => []WalksComplete
<1>1. StoresInv /\ WalksInv => WalksComplete
  <2> SUFFICES ASSUME StoresInv, WalksInv, NEW r \in Readers
               PROVE  /\ walk[r].list.mode = "cursor" /\ ~walk[r].list.sort =>
                         /\ \A id \in Ids : walk[r].seen[id] <= 1
                         /\ (walk[r].at = "done" /\ ~(engine = "mongodb" /\ numeric)) =>
                               \A id \in walk[r].owed : walk[r].seen[id] = 1
                      /\ (engine = "generated" /\ walk[r].list.mode = "offset" /\ walk[r].calm) =>
                         /\ \A id \in Ids : walk[r].seen[id] <= 1
                         /\ walk[r].at = "done" => \A id \in walk[r].owed : walk[r].seen[id] = 1
    BY DEF WalksComplete, WalkComplete, OffsetWalkComplete
  <2>1. CursorKept(r) /\ OffsetKept(r) /\ IdleFresh(r)
    BY DEF WalksInv, WalkKept
  <2>2. /\ \A id \in Ids : walk[r].seen[id] \in 0 .. 2
        /\ walk[r].owed \subseteq Ids
    BY DEF StoresInv, Types, WalkRec
  <2>3. ASSUME walk[r].list.mode = "cursor", ~walk[r].list.sort
        PROVE  /\ \A id \in Ids : walk[r].seen[id] <= 1
               /\ (walk[r].at = "done" /\ ~(engine = "mongodb" /\ numeric)) =>
                     \A id \in walk[r].owed : walk[r].seen[id] = 1
    BY <2>1, <2>3 DEF CursorKept, Exact
  <2>4. ASSUME engine = "generated", walk[r].list.mode = "offset", walk[r].calm
        PROVE  /\ \A id \in Ids : walk[r].seen[id] <= 1
               /\ walk[r].at = "done" => \A id \in walk[r].owed : walk[r].seen[id] = 1
    <3>1. CASE walk[r].at = "idle"
      BY <2>1, <3>1 DEF IdleFresh
    <3>2. CASE walk[r].at # "idle"
      <4>1. /\ \A id \in Ids : walk[r].seen[id] <= 1
            /\ walk[r].at = "done" => SeenBy(r) = walk[r].owed
        BY <2>1, <2>4, <3>2 DEF OffsetKept
      <4>2. QED BY <2>2, <4>1 DEF SeenBy
    <3>3. QED BY <3>1, <3>2
  <2>5. QED BY <2>3, <2>4
<1>2. QED BY <1>1, StoresInvariant, PTL

\* What clients are told of writes is true in every engine, but for what
\* NotFoundMeansUntouched and DeletedOnce except.
THEOREM AnswersAreTrue == Spec => []AnswersTrue
<1>1. StoresInv => AnswersTrue
  <2> SUFFICES ASSUME StoresInv PROVE AnswersTrue
    OBVIOUS
  <2>1. TypeOK /\ NotFoundMeansUntouched
    BY DEF StoresInv, Types, Claims, WriterKept, NotFoundMeansUntouched
  <2>2. DeletedOnce
    BY DEF StoresInv, Claims, WriterKept, OnceBy, DeletedOnce, TwoStep
  <2>3. QED BY <2>1, <2>2 DEF AnswersTrue
<1>2. QED BY <1>1, StoresInvariant, PTL

-----------------------------------------------------------------------------
(* Refinement *)

\* What a row is to the clients.
Cell(id) == CASE rows[id].is = "live"   -> <<"there", rows[id].val>>
              [] rows[id].is = "absent" -> <<"free">>
              [] OTHER                  -> <<"gone">>

Cells == [id \in Ids |-> Cell(id)]

LEMMA CellIs ==
    ASSUME NEW id \in Ids
    PROVE  /\ rows[id].is = "live" => Cells[id] = <<"there", rows[id].val>>
           /\ rows[id].is = "absent" => Cells[id] = Store!Free
           /\ rows[id].is \in {"deleted", "removed"} => Cells[id] = Store!Gone
           /\ rows[id].is = "live" => Cells[id] \notin {Store!Free, Store!Gone}
BY DEF Cells, Cell, Store!Free, Store!Gone

\* The table a statement leaves, as its clients see it.
LEMMA CellAfter ==
    ASSUME Types, NEW id \in Ids, NEW is \in {"live", "deleted", "removed"},
           NEW val \in Values \union {0}, Set(id, is, val)
    PROVE  Cells' = [Cells EXCEPT ![id] = IF is = "live" THEN <<"there", val>> ELSE Store!Gone]
<1>1. /\ \A i \in Ids : i # id => rows'[i] = rows[i]
      /\ rows'[id].is = is /\ rows'[id].val = val
  <2>1. rows' = [rows EXCEPT ![id] = [is |-> is, val |-> val]]
    BY DEF Set
  <2>2. DOMAIN rows = Ids
    <3>1. rows \in [Ids -> [is : {"absent", "live", "deleted", "removed"}, val : Values \union {0}]]
      BY DEF Types, TypeOK
    <3>2. QED BY <3>1
  <2>3. rows'[id] = [is |-> is, val |-> val]
    BY <2>1, <2>2
  <2>4. \A i \in Ids : i # id => rows'[i] = rows[i]
    BY <2>1, <2>2
  <2>5. QED BY <2>3, <2>4
<1>2. \A i \in Ids : i # id => Cell(i)' = Cell(i)
  BY <1>1 DEF Cell
<1>3. Cell(id)' = IF is = "live" THEN <<"there", val>> ELSE Store!Gone
  BY <1>1 DEF Cell, Store!Gone
<1>4. QED BY <1>2, <1>3 DEF Cells

LEMMA StoreIs == /\ Store!Init <=> Cells \in [Ids -> {<<"there", v>> : v \in Values} \union {Store!Free}]
                 /\ \A id \in Ids : Store!There(id) <=> Cells[id] \notin {Store!Free, Store!Gone}
                 /\ \A id \in Ids, v \in Values :
                       /\ Store!Insert(id, v) <=>
                             Cells[id] = Store!Free /\ Cells' = [Cells EXCEPT ![id] = <<"there", v>>]
                       /\ Store!Update(id, v) <=>
                             Store!There(id) /\ Cells' = [Cells EXCEPT ![id] = <<"there", v>>]
                 /\ \A id \in Ids : Store!Delete(id) <=>
                       Store!There(id) /\ Cells' = [Cells EXCEPT ![id] = Store!Gone]
BY DEF Cells, Cell, Store!Init, Store!There, Store!Insert, Store!Update, Store!Delete

\* Every engine implements Table: an id is used once, and a row that was
\* deleted, softly or not, neither changes nor comes back.
THEOREM TableImplemented == Spec => ImplementsTable
<1>1. Init => Store!Init
  <2> SUFFICES ASSUME Init PROVE Store!Init
    OBVIOUS
  <2>1. ASSUME NEW id \in Ids PROVE Cells[id] \in {<<"there", v>> : v \in Values} \union {Store!Free}
    <3>1. rows[id].is \in {"absent", "live"} /\ rows[id].val \in Values
      BY StoresAssumption DEF Init
    <3>2. QED BY <3>1, CellIs
  <2>2. Cells \in [Ids -> {<<"there", v>> : v \in Values} \union {Store!Free}]
    BY <2>1 DEF Cells
  <2>3. QED BY <2>2, StoreIs
<1>2. StoresInv /\ [Next]_vars => Store!Next \/ Cells' = Cells
  <2> SUFFICES ASSUME StoresInv, [Next]_vars PROVE Store!Next \/ Cells' = Cells
    OBVIOUS
  <2>0. Types /\ TypeOK
    BY DEF StoresInv, Types
  <2>1. CASE UNCHANGED rows
    BY <2>1 DEF Cells, Cell
  <2>2. ASSUME NEW w \in Writers, Begins(w) PROVE Store!Next \/ Cells' = Cells
    <3>1. PICK id \in Ids : \/ \E op \in Ops, is \in {"live", "deleted", "removed"},
                                  val \in Values \union {0} : Done(w, op, id, is, val)
                            \/ UNCHANGED rows
      BY <2>2 DEF Begins, Refused, FoundFirst
    <3>2. ASSUME NEW op \in Ops, NEW is \in {"live", "deleted", "removed"},
                 NEW val \in Values \union {0}, Done(w, op, id, is, val)
          PROVE  Store!Next \/ Cells' = Cells
      <4>1. /\ Carries(op, id, is, val)
            /\ Cells' = [Cells EXCEPT ![id] = IF is = "live" THEN <<"there", val>> ELSE Store!Gone]
        BY <2>0, <3>2, CellAfter DEF Done
      <4>2. CASE op = "insert"
        <5>1. val \in Values /\ Cells[id] = Store!Free /\ Cells' = [Cells EXCEPT ![id] = <<"there", val>>]
          BY <4>1, <4>2, CellIs DEF Carries, Fresh
        <5>2. QED BY <5>1, StoreIs DEF Store!Next
      <4>3. CASE op = "update"
        <5>1. val \in Values /\ Cells[id] \notin {Store!Free, Store!Gone}
              /\ Cells' = [Cells EXCEPT ![id] = <<"there", val>>]
          BY <4>1, <4>3, CellIs DEF Carries, Visible
        <5>2. QED BY <5>1, StoreIs DEF Store!Next
      <4>4. CASE op \in {"soft_delete", "hard_delete"}
        <5>1. Cells' = [Cells EXCEPT ![id] = Store!Gone] /\ Stored(id)
          BY <4>1, <4>4 DEF Carries, Visible, Stored
        <5>2. CASE rows[id].is = "live"
          BY <5>1, <5>2, CellIs, StoreIs DEF Store!Next
        <5>3. CASE rows[id].is = "deleted"
          BY <5>1, <5>3, CellIs DEF Cells
        <5>4. QED BY <5>1, <5>2, <5>3 DEF Stored
      <4>5. QED BY <4>2, <4>3, <4>4 DEF Ops
    <3>3. QED BY <2>1, <3>1, <3>2
  <2>3. ASSUME NEW w \in Writers, Remove(w) PROVE Store!Next \/ Cells' = Cells
    <3>1. PICK id \in Ids : id = writer[w].id
      BY <2>3 DEF StoresInv, Claims, WriterKept, Remove
    <3>2. CASE Stored(id)
      <4>1. Set(id, "removed", rows[id].val) /\ rows[id].val \in Values \union {0}
        BY <2>0, <2>3, <3>1, <3>2, RowTypes DEF Remove
      <4>2. Cells' = [Cells EXCEPT ![id] = Store!Gone]
        BY <2>0, <4>1, CellAfter
      <4>3. CASE rows[id].is = "live"
        BY <4>2, <4>3, CellIs, StoreIs DEF Store!Next
      <4>4. CASE rows[id].is = "deleted"
        BY <4>2, <4>4, CellIs DEF Cells
      <4>5. QED BY <3>2, <4>3, <4>4 DEF Stored
    <3>3. CASE ~Stored(id)
      BY <2>1, <2>3, <3>1, <3>3 DEF Remove
    <3>4. QED BY <3>2, <3>3
  <2>4. CASE \E w \in Writers : Write(w)
    <3>1. PICK w \in Writers : Write(w)
      BY <2>4
    <3>2. OrmReadsBack(w) \/ MongoReadsBack(w) => UNCHANGED rows
      BY DEF OrmReadsBack, MongoReadsBack
    <3>3. QED BY <2>0, <2>1, <2>2, <2>3, <3>1, <3>2, WriteBegins
  <2>5. CASE (\E r \in Readers : Read(r)) \/ UNCHANGED vars
    BY <2>1, <2>5 DEF Read, ListBegins, find_all, vars
  <2>6. QED BY <2>4, <2>5 DEF Next
<1>3. StoresInv /\ [Next]_vars => [Store!Next]_Cells
  BY <1>2
<1>4. QED BY <1>1, <1>3, StoresInvariant, PTL DEF Spec, ImplementsTable, Store!Spec, Cells, Cell
=============================================================================
