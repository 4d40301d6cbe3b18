-------------------------------- MODULE Saga --------------------------------
(***************************************************************************)
(* One saga execution of shaperail-runtime: sagas/executor.rs              *)
(* (SagaExecutor), started by sagas/handler.rs.                            *)
(*                                                                         *)
(* The executor keeps one row per execution in the table saga_executions   *)
(* and drives it with one task: advance runs the steps forward, and on a   *)
(* failed step hands over to compensate.  Each step is an HTTP request to  *)
(* another service.  A request that timed out is still on its way: the     *)
(* service may execute it later or never, and its reply reaches nobody.    *)
(* Executions share no state, so one of them is the whole story.           *)
(***************************************************************************)
EXTENDS Integers, Sequences, FiniteSets

CONSTANTS
    N,             \* number of steps of the saga
    Unroutable,    \* steps whose service is not in service_urls, or whose
                   \* action does not parse
    NoCompensate,  \* steps whose compensate action does not parse
    NeedsId,       \* steps whose compensate path contains :id
    Timeouts,      \* whether requests may time out
    Refusals,      \* whether a service may refuse or fail a compensation
    MaxFaults      \* bound: failed database statements and crashes

Steps == 1 .. N

ASSUME StepsAssumption == /\ N \in Nat \ {0}
                          /\ Unroutable \subseteq Steps
                          /\ NoCompensate \subseteq Steps
                          /\ NeedsId \subseteq Steps
ASSUME SwitchAssumption == {Timeouts, Refusals} \subseteq BOOLEAN /\ MaxFaults \in Nat

VARIABLES
    status,    \* row: status ("none": no row yet)
    step,      \* row: current_step, the number of recorded steps
    results,   \* row: step_results; whether each result carries an id
    error,     \* row: whether error is set
    pc,        \* where the task driving the execution is
    reply,     \* the result advance is about to record
    ci,        \* compensate's loop variable
    net,       \* requests that no service has handled yet
    inForce,   \* services: steps done and not undone
    done,      \* history: the steps in the order the services did them
    asked,     \* history: steps whose compensation was requested
    doubt,     \* history: steps whose outcome the executor does not know or
               \* whose compensation cannot work
    faults     \* failed statements and crashes so far

row == <<status, step, results, error>>
task == <<pc, reply, ci>>
vars == <<status, step, results, error, pc, reply, ci, net, inForce, done,
          asked, doubt, faults>>

Result == {"id", "noid"}
Request == [kind : {"do", "undo"}, step : Steps, id : Result]
Do(i) == [kind |-> "do", step |-> i, id |-> "noid"]
Undo(i) == [kind |-> "undo", step |-> i, id |-> results[i]]

\* the step that advance works on
Current == step + 1

\* A statement succeeds, or fails having been executed or not.
Replies == [ok : BOOLEAN, applied : BOOLEAN] \ {[ok |-> TRUE, applied |-> FALSE]}
Count(r) == /\ r.ok \/ faults < MaxFaults
            /\ faults' = IF r.ok THEN faults ELSE faults + 1

\* An error is propagated with `?`, logged, and ends the task for good:
\* nothing looks for unfinished executions.
GoOn(r, next) == pc' = IF r.ok THEN next ELSE "gone"

\* SagaExecutor::update_status; the error of an earlier update is replaced.
UpdateStatus(r, s, e) ==
    /\ status' = IF r.applied THEN s ELSE status
    /\ error' = IF r.applied THEN e ELSE error
    /\ UNCHANGED <<step, results>>

-----------------------------------------------------------------------------
(* start and advance *)

Start ==
    /\ pc = "idle"
    /\ \E r \in Replies :
          /\ Count(r)
          /\ status' = IF r.applied THEN "running" ELSE status
          /\ GoOn(r, "select")
    /\ UNCHANGED <<step, results, error, reply, ci, net, inForce, done, asked, doubt>>

AllRecorded == step >= N

\* SELECT the row: all steps recorded, or a step that cannot be sent, or the
\* request of the next step goes out.
Advance ==
    /\ pc = "select"
    /\ \E r \in Replies :
          /\ Count(r)
          /\ IF r.ok /\ ~AllRecorded /\ Current \notin Unroutable
             THEN pc' = "wait" /\ net' = net \union {Do(Current)}
             ELSE /\ GoOn(r, IF AllRecorded THEN "complete" ELSE "gone")
                  /\ UNCHANGED net
    /\ UNCHANGED <<row, reply, ci, inForce, done, asked, doubt>>

RetryMutant ==
    /\ pc = "wait"
    /\ Timeouts
    /\ pc' = "select"
    /\ doubt' = doubt \union {Current}
    /\ UNCHANGED <<row, reply, ci, net, inForce, done, asked, faults>>

NoTimeoutMutant == FALSE /\ UNCHANGED vars

\* no answer within timeout_secs: an error like any other
StepTimeout ==
    /\ pc = "wait"
    /\ Timeouts
    /\ pc' = "fail"
    /\ doubt' = doubt \union {Current}
    /\ UNCHANGED <<row, reply, ci, net, inForce, done, asked, faults>>

\* UPDATE current_step + 1, step_results || result
Recorded(res) == step' = step + 1 /\ results' = Append(results, res)

Record ==
    /\ pc = "record"
    /\ \E r \in Replies :
          /\ Count(r)
          /\ IF r.applied THEN Recorded(reply) ELSE UNCHANGED <<step, results>>
          /\ GoOn(r, "select")
    /\ UNCHANGED <<status, error, reply, ci, net, inForce, done, asked, doubt>>

Complete ==
    /\ pc = "complete"
    /\ \E r \in Replies :
          /\ Count(r)
          /\ UpdateStatus(r, "completed", FALSE)
          /\ GoOn(r, "done")
    /\ UNCHANGED <<reply, ci, net, inForce, done, asked, doubt>>

\* mark the row and hand over to compensate
Fail ==
    /\ pc = "fail"
    /\ \E r \in Replies :
          /\ Count(r)
          /\ UpdateStatus(r, "compensating", TRUE)
          /\ GoOn(r, "cselect")
    /\ UNCHANGED <<reply, ci, net, inForce, done, asked, doubt>>

-----------------------------------------------------------------------------
(* compensate *)

SkipLastMutant == IF step > 0 THEN step - 1 ELSE 0
LastRecorded == step

CompensateStart ==
    /\ pc = "cselect"
    /\ \E r \in Replies : Count(r) /\ GoOn(r, "cloop")
    /\ ci' = LastRecorded
    /\ UNCHANGED <<row, reply, net, inForce, done, asked, doubt>>

\* the compensation of step ci is requested, or skipped if it does not parse
CompensateStep ==
    /\ pc = "cloop"
    /\ ci > 0
    /\ IF ci \in NoCompensate
       THEN /\ ci' = ci - 1
            /\ doubt' = doubt \union {ci}
            /\ UNCHANGED <<pc, net, asked>>
       ELSE /\ pc' = "cwait"
            /\ net' = net \union {Undo(ci)}
            /\ asked' = asked \union {ci}
            /\ UNCHANGED <<ci, doubt>>
    /\ UNCHANGED <<row, reply, inForce, done, faults>>

\* the result of the request, a timeout included, is ignored
CompensateTimeout ==
    /\ pc = "cwait"
    /\ Timeouts
    /\ pc' = "cloop"
    /\ ci' = ci - 1
    /\ doubt' = doubt \union {ci}
    /\ UNCHANGED <<row, reply, net, inForce, done, asked, faults>>

LoopOver == ci = 0

CompensateEnd ==
    /\ pc = "cloop"
    /\ LoopOver
    /\ pc' = "cfinish"
    /\ UNCHANGED <<row, reply, ci, net, inForce, done, asked, doubt, faults>>

MarkCompensated ==
    /\ pc = "cfinish"
    /\ \E r \in Replies :
          /\ Count(r)
          /\ UpdateStatus(r, "compensated", FALSE)
          /\ GoOn(r, "done")
    /\ UNCHANGED <<reply, ci, net, inForce, done, asked, doubt>>

-----------------------------------------------------------------------------
(* The services, and the death of the executor's process. *)

\* the executor still waits for the answer to request m
Awaited(m) == \/ m.kind = "do" /\ pc = "wait" /\ m.step = Current
              \/ m.kind = "undo" /\ pc = "cwait" /\ m.step = ci

\* A service executes a step and answers 2xx, with or without an id.
ServiceDo(m) ==
    /\ m.kind = "do"
    /\ inForce' = inForce \union {m.step}
    /\ done' = Append(done, m.step)
    /\ \/ /\ Awaited(m)
          /\ pc' = "record"
          /\ reply' \in Result
       \/ /\ ~Awaited(m)
          /\ UNCHANGED <<pc, reply>>
    /\ net' = net \ {m}
    /\ UNCHANGED <<row, ci, asked, doubt, faults>>

\* It answers anything but 2xx, or the connection fails: nothing was done.
ServiceRefuses(m) ==
    /\ m.kind = "do"
    /\ pc' = IF Awaited(m) THEN "fail" ELSE pc
    /\ net' = net \ {m}
    /\ UNCHANGED <<row, reply, ci, inForce, done, asked, doubt, faults>>

\* The answer to a compensation only moves the loop on.
Answered(m) == IF Awaited(m) THEN pc' = "cloop" /\ ci' = ci - 1
                             ELSE UNCHANGED <<pc, ci>>

\* The path of a step without an id in its result names no resource.
Addressed(m) == m.step \notin NeedsId \/ m.id = "id"

ServiceUndo(m) ==
    /\ m.kind = "undo"
    /\ Addressed(m)
    /\ inForce' = inForce \ {m.step}
    /\ Answered(m)
    /\ net' = net \ {m}
    /\ UNCHANGED <<row, reply, done, asked, doubt, faults>>

ServiceUndoRefused(m) ==
    /\ m.kind = "undo"
    /\ Refusals \/ ~Addressed(m)
    /\ doubt' = doubt \union {m.step}
    /\ Answered(m)
    /\ net' = net \ {m}
    /\ UNCHANGED <<row, reply, inForce, done, asked, faults>>

Running == pc \notin {"idle", "done", "gone"}

Crash ==
    /\ Running
    /\ faults < MaxFaults
    /\ faults' = faults + 1
    /\ pc' = "gone"
    /\ UNCHANGED <<row, reply, ci, net, inForce, done, asked, doubt>>

-----------------------------------------------------------------------------
Init ==
    /\ status = "none" /\ step = 0 /\ results = <<>> /\ error = FALSE
    /\ pc = "idle" /\ reply = "noid" /\ ci = 0
    /\ net = {} /\ inForce = {} /\ done = <<>>
    /\ asked = {} /\ doubt = {} /\ faults = 0

Forward == Start \/ Advance \/ StepTimeout \/ Record \/ Complete \/ Fail
Backward == \/ CompensateStart \/ CompensateStep \/ CompensateTimeout
            \/ CompensateEnd \/ MarkCompensated
Service == \E m \in net : \/ ServiceDo(m) \/ ServiceRefuses(m)
                          \/ ServiceUndo(m) \/ ServiceUndoRefused(m)

Next == Forward \/ Backward \/ Service \/ Crash

Spec == Init /\ [][Next]_vars

-----------------------------------------------------------------------------
(* Properties *)

\* The type invariant.
TypeOK ==
    /\ status \in {"none", "running", "completed", "compensating", "compensated", "failed"}
    /\ step \in 0 .. N
    /\ results \in Seq(Result) /\ Len(results) = step
    /\ error \in BOOLEAN
    /\ pc \in {"idle", "select", "wait", "record", "complete", "fail", "cselect",
               "cloop", "cwait", "cfinish", "done", "gone"}
    /\ reply \in Result
    /\ ci \in 0 .. N
    /\ net \subseteq Request
    /\ inForce \subseteq Steps
    /\ done \in Seq(Steps)
    /\ asked \subseteq Steps /\ doubt \subseteq Steps
    /\ faults \in 0 .. MaxFaults

\* No step is executed twice, and the services see the steps in the order
\* of the definition, late ones included.
StepsOnceInOrder == \A i, k \in DOMAIN done : i < k => done[i] < done[k]

\* A saga reported as completed has every step in force at its service.
CompletedMeansAll == status = "completed" => inForce = Steps

\* what a step of the system has to satisfy for the requests it sends
InTurn ==
    \A m \in net' \ net :
       \/ /\ m.kind = "do"
          /\ status = "running" /\ 1 .. (m.step - 1) \subseteq inForce
       \/ /\ m.kind = "undo"
          /\ status = "compensating" /\ m.step <= step /\ m.step \notin asked
          /\ (m.step + 1) .. step \subseteq asked \union NoCompensate

\* A step is requested only while the saga is running and all steps before it
\* are recorded and in force: nothing new starts during a rollback.  A
\* compensation is requested only for a recorded step, once, and only after
\* those of all later steps.
RequestsInTurn == [][InTurn]_vars

\* After a rollback only such steps are still in force that timed out, or
\* whose compensation timed out, was refused, had no id or did not parse.
LeftoversExplained == status = "compensated" => inForce \subseteq doubt

\* Every recorded step was executed by its service: no failure, timeout or
\* lost update makes the row count a step that did not happen.
RecordedWereDone == \A i \in 1 .. step : i \in DOMAIN done /\ done[i] = i

\* The row of a saga tells what the services did: advance repeats no step and
\* records none its service has not executed, completed means that all steps are
\* in force, compensated that only those are which the executor could not know
\* or undo.
SagaTellsTruth ==
    TypeOK /\ StepsOnceInOrder /\ RecordedWereDone /\ CompletedMeansAll /\ LeftoversExplained

\* Unless a database statement fails or the process dies, every started saga
\* ends completed or compensated, even if no service ever answers.
SagaEnds == pc = "select" ~> status \in {"completed", "compensated"} \/ faults > 0
=============================================================================
