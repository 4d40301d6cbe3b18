----------------------------- MODULE Migrations ------------------------------
(***************************************************************************)
(* Migrations in multi-database mode: run_migrations_multi of              *)
(* db/migration.rs over the connections of db/manager.rs.  Each start of a *)
(* process walks the connections, "default" first, and on each of them     *)
(* reads which versions are recorded as successful, executes the others in *)
(* their order, and records every result.  Statement and record are two    *)
(* commands outside any transaction, the result of the second is ignored,  *)
(* and nothing keeps two processes from migrating at once.                 *)
(***************************************************************************)
EXTENDS Integers, Sequences, SequencesExt, FiniteSets

CONSTANTS
    Runs,       \* the starts of processes, each made once
    Others,     \* the connections besides "default", as numbers in the order
                \* of their names
    Versions,   \* the migrations, numbered from 1
    Skipped,    \* those that are not of the simple kind
    Repeatable, \* those whose statement may be executed again
    MaxFaults   \* bound on failing statements, failing records and crashes

VARIABLES
    done,     \* done[c]: the versions executed on connection c, in order
    record,   \* record[c]: the rows of _sqlx_migrations, pairs <<version, success>>
    runner,   \* runner[r]: [pc, at (connection), next (version), applied, ok]
    excuse,   \* why a version may be executed again, pairs <<connection, version>>
    mishaps   \* faults so far

vars == <<done, record, runner, excuse, mishaps>>

Default == 0

\* all_connections, reordered: default first, then by name.
ordered == <<Default>> \o SetToSortSeq(Others, <)

Init ==
    /\ done = [c \in {Default} \cup Others |-> <<>>]
    /\ record = [c \in {Default} \cup Others |-> {}]
    /\ runner = [r \in Runs |-> [pc |-> "idle", at |-> 1, next |-> 1, applied |-> {}, ok |-> FALSE]]
    /\ excuse = {}
    /\ mishaps = 0

Conn(r) == ordered[runner[r].at]

Set(r, f) == runner' = [runner EXCEPT ![r] = f]

-----------------------------------------------------------------------------
\* The process starts and connects (from_named_config).
Start(r) ==
    /\ runner[r].pc = "idle"
    /\ Set(r, [runner[r] EXCEPT !.pc = "read"])
    /\ UNCHANGED <<done, record, excuse, mishaps>>

NotReadMutant(c) == {}

\* SELECT version ... WHERE success
Applied(c) == {row[1] : row \in {x \in record[c] : x[2]}}

\* The tracking table is created if need be, the applied versions are read.
Read(r) ==
    /\ runner[r].pc = "read"
    /\ Set(r, [runner[r] EXCEPT !.pc = "apply", !.next = 1, !.applied = Applied(Conn(r))])
    /\ UNCHANGED <<done, record, excuse, mishaps>>

\* A version that is recorded, or not simple, is passed over.
Skip(r) ==
    LET q == runner[r] IN
    /\ q.pc = "apply" /\ q.next \in Versions
    /\ q.next \in q.applied \cup Skipped
    /\ Set(r, [q EXCEPT !.next = @ + 1])
    /\ UNCHANGED <<done, record, excuse, mishaps>>

Executed(c, v) == \E i \in DOMAIN done[c] : done[c][i] = v

\* Another process has recorded the version since r read the table, or has
\* executed it and is about to record it.
Overtaken(r) ==
    \/ runner[r].next \in Applied(Conn(r))
    \/ \E s \in Runs \ {r} : /\ runner[s].pc = "record" /\ runner[s].ok
                             /\ Conn(s) = Conn(r) /\ runner[s].next = runner[r].next

\* The statement of the next version: it succeeds, unless it was executed before
\* and cannot be repeated, or it fails.
Execute(r) ==
    LET q == runner[r] c == Conn(r) IN
    /\ q.pc = "apply" /\ q.next \in Versions \ (q.applied \cup Skipped)
    /\ \/ /\ q.next \in Repeatable \/ ~Executed(c, q.next)
          /\ done' = [done EXCEPT ![c] = Append(@, q.next)]
          /\ Set(r, [q EXCEPT !.pc = "record", !.ok = TRUE])
          /\ excuse' = excuse \cup IF Overtaken(r) THEN {<<c, q.next>>} ELSE {}
          /\ UNCHANGED mishaps
       \/ /\ q.next \notin Repeatable /\ Executed(c, q.next)
          /\ Set(r, [q EXCEPT !.pc = "record", !.ok = FALSE])
          /\ UNCHANGED <<done, excuse, mishaps>>
       \/ /\ mishaps < MaxFaults
          /\ mishaps' = mishaps + 1
          /\ Set(r, [q EXCEPT !.pc = "record", !.ok = FALSE])
          /\ UNCHANGED <<done, excuse>>
    /\ UNCHANGED record

\* After the record: the next version, or an error that ends the whole start.
Onwards(q) == IF q.ok THEN [q EXCEPT !.pc = "apply", !.next = @ + 1]
              ELSE [q EXCEPT !.pc = "failed"]

\* The INSERT into the tracking table. The version is its key: a row that is
\* there keeps its place, and the error is dropped like any other.
Record(r) ==
    LET q == runner[r] c == Conn(r) IN
    /\ q.pc = "record"
    /\ \/ /\ \A row \in record[c] : row[1] # q.next
          /\ record' = [record EXCEPT ![c] = @ \cup {<<q.next, q.ok>>}]
          /\ UNCHANGED <<excuse, mishaps>>
       \/ /\ \E row \in record[c] : row[1] = q.next
          /\ excuse' = excuse \cup {<<c, q.next>>}
          /\ UNCHANGED <<record, mishaps>>
       \/ /\ mishaps < MaxFaults
          /\ mishaps' = mishaps + 1
          /\ excuse' = excuse \cup {<<c, q.next>>}
          /\ UNCHANGED record
    /\ Set(r, Onwards(q))
    /\ UNCHANGED done

\* The connection is through; the next one, or the end.
NextConnection(r) ==
    LET q == runner[r] IN
    /\ q.pc = "apply" /\ q.next \notin Versions
    /\ Set(r, IF q.at < Len(ordered) THEN [q EXCEPT !.pc = "read", !.at = @ + 1]
              ELSE [q EXCEPT !.pc = "migrated"])
    /\ UNCHANGED <<done, record, excuse, mishaps>>

\* The process dies, or connecting or reading the tracking table fails.  A
\* statement that was executed by then is not recorded.
Crash(r) ==
    /\ runner[r].pc \in {"read", "apply", "record"}
    /\ mishaps < MaxFaults
    /\ mishaps' = mishaps + 1
    /\ excuse' = excuse \cup IF runner[r].pc = "record" THEN {<<Conn(r), runner[r].next>>} ELSE {}
    /\ Set(r, [runner[r] EXCEPT !.pc = "failed"])
    /\ UNCHANGED <<done, record>>

Next == \E r \in Runs : \/ Start(r) \/ Read(r) \/ Skip(r) \/ Execute(r)
                        \/ Record(r) \/ NextConnection(r) \/ Crash(r)

Spec == Init /\ [][Next]_vars

-----------------------------------------------------------------------------
\* Migrations are numbered without gaps; the walk visits every connection once,
\* "default" first.
Numbered == Cardinality(Versions) \in Nat /\ Versions = 1 .. Cardinality(Versions)

Walk ==
    /\ ordered \in Seq({Default} \cup Others) /\ ordered # <<>>
    /\ ordered[1] = Default
    /\ \A i, j \in DOMAIN ordered : ordered[i] = ordered[j] => i = j
    /\ \A c \in {Default} \cup Others : \E i \in DOMAIN ordered : ordered[i] = c
    /\ Default \notin Others

TypeOK ==
    /\ Numbered /\ Walk
    /\ mishaps \in 0 .. MaxFaults
    /\ \A r \in Runs : /\ runner[r].pc \in {"idle", "read", "apply", "record", "migrated", "failed"}
                       /\ runner[r].at \in 1 .. Len(ordered)
    /\ \A c \in DOMAIN record : record[c] \subseteq Versions \X BOOLEAN

Simple == Versions \ Skipped

\* On every connection the migrations build on one another: none is executed
\* before all earlier ones have been, whatever fails, crashes or runs twice.
\* And no connection is touched before "default" is complete.
OrderKept ==
    /\ \A c \in DOMAIN done : \A i \in DOMAIN done[c] : \A v \in Simple :
          v < done[c][i] => \E j \in 1 .. i - 1 : done[c][j] = v
    /\ (\E c \in Others : done[c] # <<>>) => \A v \in Simple : Executed(Default, v)

\* A start that reports success has executed everything everywhere.
MigratedMeansAll ==
    \A r \in Runs : runner[r].pc = "migrated" =>
        \A c \in DOMAIN done : \A v \in Simple : Executed(c, v)

\* A migration is executed a second time only for one of four reasons: its first
\* process died or could not write the record, its record collided with the row
\* of a failed try, or two processes migrated the connection at once.
TwiceExplained ==
    \A c \in DOMAIN done : \A v \in Versions :
        Cardinality({i \in DOMAIN done[c] : done[c][i] = v}) > 1 => <<c, v>> \in excuse
=============================================================================
