----------------------------- MODULE Controllers -----------------------------
(***************************************************************************)
(* One request through the route handlers/routes.rs registers for it and   *)
(* the controller hooks of handlers/controller.rs: Rust functions from the *)
(* ControllerMap and WASM plugins run by plugins/mod.rs, before and after  *)
(* the statement of handlers/crud.rs, and the side effects that follow.    *)
(*                                                                         *)
(* Of the Context only `data' is kept: hooks tell their phase by whether   *)
(* it is there ("before-phase" in the docs of Context), and                *)
(* dispatch_controller picks the export of a plugin by it.                 *)
(***************************************************************************)
EXTENDS Integers, Sequences

CONSTANTS
    Endpoints,  \* the endpoints tried: [action, method, before, after, handler],
                \* the hooks named as [kind, name]
    MaxWrites   \* the rows of a bulk request

VARIABLES
    ep,       \* the endpoint of this behaviour
    known,    \* the hooks the application has: registered or loaded
    pc,       \* where the handler is
    hook,     \* the next hook of the phase
    data,     \* ctx.data: "none", "row" (the record) or "plugin"
    calls,    \* the hooks called, with the phase, the data and the result
    written,  \* rows written by the request
    effects,  \* rows whose events, jobs and invalidation have run
    answer    \* the answer: "none", "Ok" or an error

vars == <<ep, known, pc, hook, data, calls, written, effects, answer>>

Hooks == UNION {{e.before[i] : i \in DOMAIN e.before} \cup {e.after[i] : i \in DOMAIN e.after}
                : e \in Endpoints}

\* The actions whose handlers run hooks; uploads, bulk requests and reads run
\* none, a delete only those before it, a custom endpoint likewise.
RunsBefore == {"create", "update", "delete", "custom"}
RunsAfter == {"create", "update"}
Bulk == {"bulk_create", "bulk_delete"}
Writes == {"create", "update", "delete", "create_upload", "update_upload"} \cup Bulk

Init ==
    /\ ep \in Endpoints
    /\ known \in SUBSET Hooks
    /\ pc = "route"
    /\ hook = 1
    /\ data = "none"
    /\ calls = <<>>
    /\ written = 0
    /\ effects = 0
    /\ answer = "none"

-----------------------------------------------------------------------------
Answered(a) ==
    /\ pc' = "done"
    /\ answer' = a

\* register_resource: a custom endpoint without a method gets no route.
Unrouted ==
    /\ pc = "route" /\ ep.action = "custom" /\ ep.method = "none"
    /\ Answered("NotFound")
    /\ UNCHANGED <<ep, known, hook, data, calls, written, effects>>

register_resource ==
    /\ pc = "route" /\ ep.method # "none"
    /\ pc' = IF ep.action \in RunsBefore THEN "before" ELSE "write"
    /\ UNCHANGED <<ep, known, hook, data, calls, written, effects, answer>>

\* Auth, rate limit, id or body are refused before any hook or statement.
Refused ==
    /\ pc \in {"before", "write"} /\ calls = <<>> /\ written = 0 /\ ep.action # "custom"
    /\ Answered("Refused")
    /\ UNCHANGED <<ep, known, hook, data, calls, written, effects>>

Names == IF pc = "before" THEN ep.before ELSE ep.after

\* What a plugin's export may end with, with the data of the context it returns:
\* nothing or a context, a refusal, or an error (an export is missing, it traps
\* or runs out of fuel, its answer is not JSON).
invoke_hook == {<<"Ok", "none">>, <<"Ok", "plugin">>, <<"refused", "none">>, <<"Err", "none">>}

\* A plugin that is not loaded is an internal error, one that traps refuses.
call_hook(h) ==
    IF h \notin known THEN {<<"Internal", "none">>}
    ELSE {IF r[1] = "Err" THEN <<"refused", "none">> ELSE r : r \in invoke_hook}

\* A function of the ControllerMap, if it is registered there. It is taken to
\* leave ctx.data alone.
dispatch_rust_controller(h) ==
    {<<r, "none">> : r \in IF h \in known THEN {"Ok", "Error"} ELSE {"Internal"}}

\* A plugin's refusal is answered as a validation error.
Outcomes(h) ==
    IF h.kind = "rust" THEN dispatch_rust_controller(h)
    ELSE {<<IF r[1] = "refused" THEN "Validation" ELSE r[1], r[2]>> : r \in call_hook(h)}

\* Whether the phase goes on after a hook: the first error ends the request.
GoesOn(result) == result = "Ok"

\* dispatch_controller on the next name of the phase.
dispatch_controller ==
    /\ pc \in {"before", "after"} /\ hook <= Len(Names)
    /\ \E r \in Outcomes(Names[hook]) :
          /\ calls' = Append(calls, [phase |-> pc, hook |-> hook, data |-> data, result |-> r[1]])
          /\ data' = IF r[2] = "none" THEN data ELSE r[2]
          /\ \/ GoesOn(r[1]) /\ hook' = hook + 1 /\ UNCHANGED <<pc, answer>>
             \/ ~GoesOn(r[1]) /\ Answered(r[1]) /\ UNCHANGED hook
    /\ UNCHANGED <<ep, known, written, effects>>

\* The before-phase is over; a custom endpoint goes to its handler, which is
\* looked up by resource and action.
EndBefore ==
    /\ pc = "before" /\ hook > Len(ep.before)
    /\ hook' = 1
    /\ IF ep.action = "custom"
       THEN Answered(IF ep.handler = "registered" THEN "Ok" ELSE "NotImplemented")
       ELSE pc' = "write" /\ UNCHANGED answer
    /\ UNCHANGED <<ep, known, data, calls, written, effects>>

\* The statement fails, or validation does: a bulk request has then written the
\* rows before this one.
WriteFails ==
    /\ pc = "write"
    /\ Answered("Error")
    /\ UNCHANGED <<ep, known, hook, data, calls, written, effects>>

\* What follows a statement that succeeded: the next row of a bulk request, the
\* after-phase of a create or update with ctx.data set to the record
\* (run_after_controller), else the side effects.
Following ==
    IF ep.action \in Bulk /\ written + 1 < MaxWrites THEN "write"
    ELSE IF ep.action \in RunsAfter THEN "after"
    ELSE "effects"

\* ctx.data once the row is written.
DataWritten == IF ep.action \in RunsAfter THEN "row" ELSE data

Write ==
    /\ pc = "write" /\ ep.action \in Writes
    /\ written' = written + 1
    /\ pc' = Following
    /\ hook' = 1
    /\ data' = DataWritten
    /\ UNCHANGED <<ep, known, calls, effects, answer>>

EndAfter ==
    /\ pc = "after" /\ hook > Len(ep.after)
    /\ pc' = "effects"
    /\ UNCHANGED <<ep, known, hook, data, calls, written, effects, answer>>

FirstRowOnlyMutant ==
    /\ pc = "effects"
    /\ effects' = effects + 1
    /\ Answered("Ok")
    /\ UNCHANGED <<ep, known, hook, data, calls, written>>

\* run_write_side_effects, row by row; their own failures are only logged.
run_write_side_effects ==
    /\ pc = "effects"
    /\ effects' = effects + 1
    /\ IF effects + 1 = written THEN Answered("Ok") ELSE UNCHANGED <<pc, answer>>
    /\ UNCHANGED <<ep, known, hook, data, calls, written>>

\* A read: no hook, no effect.
Read ==
    /\ pc = "write" /\ ep.action \notin Writes
    /\ Answered("Ok")
    /\ UNCHANGED <<ep, known, hook, data, calls, written, effects>>

\* The client goes away and the server drops the handler at an await.
Abandon ==
    /\ pc \in {"before", "write", "after", "effects"}
    /\ Answered("Dropped")
    /\ UNCHANGED <<ep, known, hook, data, calls, written, effects>>

Next ==
    \/ Unrouted \/ register_resource \/ Refused \/ dispatch_controller \/ EndBefore
    \/ WriteFails \/ Write \/ EndAfter \/ run_write_side_effects \/ Read \/ Abandon

Spec == Init /\ [][Next]_vars

-----------------------------------------------------------------------------
TypeOK ==
    /\ pc \in {"route", "before", "write", "after", "effects", "done"}
    /\ data \in {"none", "row", "plugin"}
    /\ written \in 0 .. MaxWrites /\ effects \in 0 .. written
    /\ (pc = "done") = (answer # "none")

Plugin(c) == (IF c.phase = "before" THEN ep.before ELSE ep.after)[c.hook].kind = "wasm"

\* A hook can tell its phase by ctx.data, as the lifecycle of Context promises:
\* it sees none before the statement and the record (or what a hook made of it)
\* after it. The one exception is a plugin's doing: data a plugin returns in the
\* before-phase is kept, and the hooks after it take themselves for after-hooks.
PhaseIsKnown ==
    \A i \in DOMAIN calls :
        /\ calls[i].phase = "after" => calls[i].data # "none"
        /\ (calls[i].phase = "before" /\ calls[i].data # "none") =>
               \E j \in 1 .. i - 1 : Plugin(calls[j]) /\ calls[j].phase = "before"

\* Events, jobs and invalidation follow exactly the requests that succeed: after
\* an error none has run, though rows may have been written, and then an
\* after-hook failed, a later row of a bulk request failed, or the client left.
EffectsIffOk ==
    pc = "done" =>
        /\ (answer = "Ok" /\ ep.action \in Writes) => effects = written /\ written > 0
        /\ answer \notin {"Ok", "Dropped"} => effects = 0
        /\ (written > 0 /\ answer # "Ok") =>
               \/ answer = "Dropped"
               \/ ep.action \in Bulk
               \/ calls # <<>> /\ calls[Len(calls)].phase = "after" /\ calls[Len(calls)].result # "Ok"

\* A row is written only when every before-hook of the endpoint has run, in its
\* order, and none failed.
WriteAfterHooks ==
    (written > 0 /\ ep.action \in RunsBefore) =>
        /\ Len(calls) >= Len(ep.before)
        /\ \A i \in DOMAIN ep.before :
              calls[i].phase = "before" /\ calls[i].hook = i /\ calls[i].result = "Ok"

\* Every after-hook an endpoint declares runs before its request is answered
\* with success.
DeclaredHooksRun ==
    (answer = "Ok" /\ ep.action # "custom") =>
        \A i \in DOMAIN ep.after :
            \E j \in DOMAIN calls : calls[j].phase = "after" /\ calls[j].hook = i
=============================================================================
