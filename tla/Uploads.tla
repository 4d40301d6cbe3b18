------------------------------- MODULE Uploads -------------------------------
(***************************************************************************)
(* Uploaded files: the multipart handlers of handlers/crud.rs, the upload  *)
(* handler and the backends of storage/, and the clean-up a hard delete    *)
(* schedules.  A file is stored while the body is read, long before the    *)
(* row that names it is validated and written, and removed by a detached   *)
(* task after the row is gone: rows and files are never changed together.  *)
(*                                                                         *)
(* A file is named <<r, n>>, the n-th part of request r: process_upload    *)
(* puts a fresh UUID in every path.  Options are sets of at most one       *)
(* member.                                                                 *)
(***************************************************************************)
EXTENDS Integers, Sequences, FiniteSets

CONSTANTS
    Reqs,      \* the requests made, each at most once
    Rows,      \* the rows of the resource
    MaxParts,  \* bound on the file parts of one body
    MaxStops   \* bound on process restarts

VARIABLES
    config,   \* [soft, env, store]: the endpoint's soft_delete, the backend the
              \* environment names, and how the store deletes a row
    table,    \* table[row]: [state, file, meta]
    files,    \* the files in the backend upload.storage names
    req,      \* req[r]: the handler of request r
    cleanup,  \* the files whose clean-up task has not run
    failed,   \* the files whose clean-up was tried or lost, in vain
    stops     \* process restarts so far

vars == <<config, table, files, req, cleanup, failed, stops>>

Ops == {"create_upload", "update_upload", "delete", "bulk_delete"}

Idle == [op |-> "none", pc |-> "idle", todo |-> <<>>, stored |-> {},
         path |-> {}, meta |-> {}, gone |-> {}, answer |-> "none"]

\* A row without a file: before it is created, and once it is deleted for good.
NoFile(state) == [state |-> state, file |-> {}, meta |-> {}]

Init ==
    /\ config \in [soft  : BOOLEAN,
                   env   : {"same", "other", "broken"},  \* SHAPERAIL_STORAGE_BACKEND
                   store : {"returning", "find_first"}]
    /\ config.soft => config.env = "same" /\ config.store = "returning"
    /\ table = [row \in Rows |-> NoFile("absent")]
    /\ files = {}
    /\ req = [r \in Reqs |-> Idle]
    /\ cleanup = {}
    /\ failed = {}
    /\ stops = 0

Set(r, rec) == req' = [req EXCEPT ![r] = rec]

Answer(r, rec, a) == Set(r, [rec EXCEPT !.pc = "done", !.answer = a])

Row(r) == Head(req[r].todo)

-----------------------------------------------------------------------------
\* A request arrives and has passed its auth and rate checks. A create makes a
\* row of its own, the others name a row there is or was.
Start(r, op, rows) ==
    /\ req[r].pc = "idle"
    /\ IF op = "create_upload"
       THEN /\ table[Head(rows)].state = "absent"
            /\ \A s \in Reqs : req[s].op = op => req[s].todo # rows
       ELSE \A i \in DOMAIN rows : table[rows[i]].state # "absent"
    /\ Set(r, [Idle EXCEPT !.op = op, !.todo = rows,
                           !.pc = IF op \in {"delete", "bulk_delete"} THEN "rows" ELSE "body"])
    /\ UNCHANGED <<config, table, files, cleanup, failed, stops>>

\* A part named after the upload field: size and type are accepted, the file is
\* stored, and its path and metadata take the place of an earlier part's.
LastPart(q, f) == [q EXCEPT !.stored = @ \cup {f}, !.path = {f}, !.meta = {f}]

StorePart(r) ==
    LET f == <<r, Cardinality(req[r].stored) + 1>> IN
    /\ req[r].pc = "body"
    /\ Cardinality(req[r].stored) < MaxParts
    /\ files' = files \cup {f}
    /\ Set(r, LastPart(req[r], f))
    /\ UNCHANGED <<config, table, cleanup, failed, stops>>

\* The backend fails half way through a write: what it wrote stays.
StoreBreaks(r) ==
    LET f == <<r, Cardinality(req[r].stored) + 1>> IN
    /\ req[r].pc = "body"
    /\ Cardinality(req[r].stored) < MaxParts
    /\ files' = files \cup {f}
    /\ Answer(r, [req[r] EXCEPT !.stored = @ \cup {f}], "Error")
    /\ UNCHANGED <<config, table, cleanup, failed, stops>>

\* A part is refused (too large, wrong type, no file name, not UTF-8, not of
\* its field's type) or the body breaks off.
PartRefused(r) ==
    /\ req[r].pc = "body"
    /\ Answer(r, req[r], "Error")
    /\ UNCHANGED <<config, table, files, cleanup, failed, stops>>

\* The body is complete; the input is validated, its references checked.
EndBody(r) ==
    /\ req[r].pc = "body"
    /\ Set(r, [req[r] EXCEPT !.pc = "write"])
    /\ UNCHANGED <<config, table, files, cleanup, failed, stops>>

\* Validation, a reference or the statement fails.
WriteRefused(r) ==
    /\ req[r].pc = "write"
    /\ Answer(r, req[r], "Error")
    /\ UNCHANGED <<config, table, files, cleanup, failed, stops>>

handle_create_upload(r) ==
    /\ req[r].pc = "write" /\ req[r].op = "create_upload"
    /\ table[Row(r)].state = "absent"
    /\ table' = [table EXCEPT ![Row(r)] =
                    [state |-> "live", file |-> req[r].path, meta |-> req[r].meta]]
    /\ Answer(r, req[r], "Ok")
    /\ UNCHANGED <<config, files, cleanup, failed, stops>>

\* A partial update: without a file part the row keeps its file. The file that
\* is replaced stays in the backend.
handle_update_upload(r) ==
    /\ req[r].pc = "write" /\ req[r].op = "update_upload"
    /\ \/ /\ table[Row(r)].state = "live"
          /\ table' = [table EXCEPT ![Row(r)] =
                          IF req[r].path = {} THEN @
                          ELSE [@ EXCEPT !.file = req[r].path, !.meta = req[r].meta]]
          /\ Answer(r, req[r], "Ok")
       \/ /\ table[Row(r)].state # "live"
          /\ Answer(r, req[r], "NotFound")
          /\ UNCHANGED table
    /\ UNCHANGED <<config, files, cleanup, failed, stops>>

-----------------------------------------------------------------------------
\* The row as deleted: what the handler keeps of it is the file to clean up.
Deleted(r) ==
    /\ table' = [table EXCEPT ![Row(r)] = IF config.soft THEN [@ EXCEPT !.state = "trashed"]
                                             ELSE NoFile("deleted")]
    /\ Set(r, [req[r] EXCEPT
                 !.todo = Tail(@),
                 !.gone = @ \cup IF config.store = "find_first" /\ ~config.soft
                                 THEN req[r].path ELSE table[Row(r)].file,
                 !.pc = "rows"])

\* A store without a returning DELETE reads the row first.
FindFirst(r) ==
    /\ req[r].pc = "rows" /\ req[r].todo # <<>>
    /\ ~config.soft /\ config.store = "find_first"
    /\ table[Row(r)].state = "live"
    /\ Set(r, [req[r] EXCEPT !.path = table[Row(r)].file, !.pc = "found"])
    /\ UNCHANGED <<config, table, files, cleanup, failed, stops>>

DeleteRow(r) ==
    /\ req[r].todo # <<>>
    /\ \/ /\ req[r].pc = "rows"
          /\ config.soft \/ config.store = "returning"
          /\ table[Row(r)].state = "live"
       \/ req[r].pc = "found"
    /\ Deleted(r)
    /\ UNCHANGED <<config, files, cleanup, failed, stops>>

\* The row is not there, or the statement fails: the handler returns at once,
\* whatever the bulk request has deleted before.
DeleteFails(r) ==
    /\ req[r].pc \in {"rows", "found"} /\ req[r].todo # <<>>
    /\ Answer(r, req[r], "Error")
    /\ UNCHANGED <<config, table, files, cleanup, failed, stops>>

\* schedule_file_cleanup: nothing is scheduled for a soft delete, nor when the
\* backend of the environment cannot be built.
Scheduled(r) == IF config.soft THEN {} ELSE req[r].gone

schedule_file_cleanup(r) ==
    /\ req[r].pc = "rows" /\ req[r].todo = <<>>
    /\ cleanup' = cleanup \cup IF config.env = "broken" THEN {} ELSE Scheduled(r)
    /\ failed' = failed \cup IF config.env = "broken" THEN Scheduled(r) ELSE {}
    /\ Answer(r, req[r], "Ok")
    /\ UNCHANGED <<config, table, files, stops>>

ForgetsMutant(f) == files

\* The detached task deletes from the backend the environment names, which
\* need not be the one the endpoint stored the file in.
Removes(f) == IF config.env = "same" THEN files \ {f} ELSE files

CleanUp(f) ==
    /\ f \in cleanup
    /\ cleanup' = cleanup \ {f}
    /\ files' = Removes(f)
    /\ failed' = failed \cup IF config.env # "same" THEN {f} ELSE {}
    /\ UNCHANGED <<config, table, req, stops>>

CleanUpFails(f) ==
    /\ f \in cleanup
    /\ cleanup' = cleanup \ {f}
    /\ failed' = failed \cup {f}
    /\ UNCHANGED <<config, table, files, req, stops>>

\* The client goes away, and the server drops the handler where it waits.
Abandon(r) ==
    /\ req[r].pc \notin {"idle", "done"}
    /\ Answer(r, req[r], "Dropped")
    /\ UNCHANGED <<config, table, files, cleanup, failed, stops>>

\* The process stops: handlers and clean-up tasks are gone, rows and files stay.
Restart ==
    /\ stops < MaxStops
    /\ stops' = stops + 1
    /\ req' = [r \in Reqs |-> IF req[r].pc \in {"idle", "done"} THEN req[r]
                              ELSE [req[r] EXCEPT !.pc = "done", !.answer = "Dropped"]]
    /\ failed' = failed \cup cleanup
    /\ cleanup' = {}
    /\ UNCHANGED <<config, table, files>>

Next ==
    \/ \E r \in Reqs :
          \/ \E op \in Ops \ {"bulk_delete"}, row \in Rows : Start(r, op, <<row>>)
          \/ \E a, b \in Rows : Start(r, "bulk_delete", <<a, b>>)
          \/ StorePart(r) \/ StoreBreaks(r) \/ PartRefused(r) \/ EndBody(r)
          \/ WriteRefused(r) \/ handle_create_upload(r) \/ handle_update_upload(r)
          \/ FindFirst(r) \/ DeleteRow(r) \/ DeleteFails(r)
          \/ schedule_file_cleanup(r) \/ Abandon(r)
    \/ \E f \in cleanup : CleanUp(f) \/ CleanUpFails(f)
    \/ Restart

Spec == Init /\ [][Next]_vars

-----------------------------------------------------------------------------
AllFiles == Reqs \X (1 .. MaxParts)

TypeOK ==
    /\ \A row \in Rows : /\ table[row].state \in {"absent", "live", "trashed", "deleted"}
                         /\ table[row].file \subseteq AllFiles
    /\ files \subseteq AllFiles /\ cleanup \subseteq AllFiles /\ failed \subseteq AllFiles
    /\ \A r \in Reqs : req[r].pc \in {"idle", "body", "write", "rows", "found", "done"}

\* Whatever the interleaving of uploads, updates and deletes, a row never names
\* a file that is not there: a file is stored before its row is written, and
\* only the clean-up of a row that is gone for good removes one.
RowsNameStoredFiles == \A row \in Rows : table[row].file \subseteq files

\* <field>_filename, _mime_type and _size describe the file the row names, also
\* after a body with two file parts and after an update without any.
MetadataIsOfTheFile == \A row \in Rows : table[row].meta = table[row].file

Named(f) == \E row \in Rows : f \in table[row].file

Replaced(f) == \E r, s \in Reqs :
    /\ f \in req[r].path /\ req[r].answer = "Ok"
    /\ s # r /\ req[s].op = "update_upload" /\ req[s].answer = "Ok"
    /\ req[s].path # {} /\ req[s].todo = req[r].todo

LeftByItsRequest(f) == \E r \in Reqs :
    f \in req[r].stored /\ (req[r].answer # "Ok" \/ f \notin req[r].path)

\* Its row was deleted by a request that did not come to its end.
LeftByDelete(f) == \E r \in Reqs : req[r].answer # "Ok" /\ f \in req[r].gone

\* Its row got the file between the read and the DELETE of a store that has no
\* returning DELETE.
MissedByDelete(f) ==
    /\ config.store = "find_first"
    /\ \E r, s \in Reqs : /\ req[r].op = "update_upload" /\ f \in req[r].path
                          /\ req[s].op \in {"delete", "bulk_delete"} /\ f \notin req[s].gone

\* Once every request has ended and every clean-up has run, a file no row names
\* was left behind in one of six ways: its own request failed or sent another
\* file after it, an update replaced it, a bulk delete or a dropped delete
\* stopped after deleting its row, a store that reads before it deletes missed
\* it, or its clean-up failed or went to another backend. Nothing else loses a
\* file.
OrphansExplained ==
    ((\A r \in Reqs : req[r].pc \in {"idle", "done"}) /\ cleanup = {}) =>
        \A f \in files :
            \/ Named(f) \/ LeftByItsRequest(f) \/ Replaced(f)
            \/ LeftByDelete(f) \/ MissedByDelete(f) \/ f \in failed
=============================================================================
