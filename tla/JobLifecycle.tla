---------------------------- MODULE JobLifecycle ----------------------------
(***************************************************************************)
(* What the background job queue promises to the code that enqueues jobs,  *)
(* without lists, commands, attempts or processes.  JobQueue implements    *)
(* it; Events uses it.                                                     *)
(*                                                                         *)
(* A job is accepted at most once, is handled by one worker at a time,     *)
(* starts at most MaxStarts[j] times, and once done, dead or gone stays    *)
(* so.                                                                     *)
(***************************************************************************)
EXTENDS Naturals

CONSTANTS
    Jobs,
    MaxStarts,    \* MaxStarts[j]: how often the handler of j may be started
    Handled       \* jobs whose name has a handler

VARIABLES
    stage,    \* stage[j], one of Stages
    starts    \* starts[j]: times the handler of j was started

Stages == {"new", "waiting", "taken", "running", "done", "dead", "gone"}

\* enqueue put the job into a list, or gave up before that
Accept(j) == stage[j] = "new" /\ stage' = [stage EXCEPT ![j] = "waiting"] /\ UNCHANGED starts
Refuse(j) == stage[j] = "new" /\ stage' = [stage EXCEPT ![j] = "gone"] /\ UNCHANGED starts

\* a worker popped the job
Take(j) == stage[j] = "waiting" /\ stage' = [stage EXCEPT ![j] = "taken"] /\ UNCHANGED starts

\* it starts the handler, or finds that there is none
Run(j) ==
    /\ stage[j] = "taken"
    /\ stage' = [stage EXCEPT ![j] = "running"]
    /\ IF j \in Handled
       THEN starts[j] < MaxStarts[j] /\ starts' = [starts EXCEPT ![j] = @ + 1]
       ELSE UNCHANGED starts

\* the handler returned Ok
Finish(j) ==
    /\ stage[j] = "running" /\ j \in Handled
    /\ stage' = [stage EXCEPT ![j] = "done"]
    /\ UNCHANGED starts

\* it failed: the job waits for another start, or is dead-lettered when it
\* has had them all
Again(j) ==
    /\ stage[j] = "running" /\ starts[j] < MaxStarts[j]
    /\ stage' = [stage EXCEPT ![j] = "waiting"]
    /\ UNCHANGED starts

Bury(j) ==
    /\ stage[j] = "running" /\ (j \in Handled => starts[j] = MaxStarts[j])
    /\ stage' = [stage EXCEPT ![j] = "dead"]
    /\ UNCHANGED starts

\* a failed command, a crash or an exit loses the jobs it holds
Lose(S) ==
    /\ \A j \in S : stage[j] \in {"waiting", "taken", "running"}
    /\ stage' = [j \in Jobs |-> IF j \in S THEN "gone" ELSE stage[j]]
    /\ UNCHANGED starts

Init == stage = [j \in Jobs |-> "new"] /\ starts = [j \in Jobs |-> 0]

Next ==
    \/ \E j \in Jobs : \/ Accept(j) \/ Refuse(j) \/ Take(j) \/ Run(j)
                       \/ Finish(j) \/ Again(j) \/ Bury(j)
    \/ \E S \in SUBSET Jobs : Lose(S)

Spec == Init /\ [][Next]_<<stage, starts>>
=============================================================================
