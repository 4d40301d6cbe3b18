------------------------------- MODULE Startup --------------------------------
(***************************************************************************)
(* The life of a server process: the main function that `shaperail init'   *)
(* writes (commands/init.rs) and that of examples/incident-platform.  Main *)
(* goes through its steps in order, and an error in one of them ends the   *)
(* process with every task it has spawned.  Redis and its job queue are    *)
(* shared with other processes, so that the worker finds jobs from the     *)
(* moment it runs.                                                         *)
(***************************************************************************)
EXTENDS Integers, Sequences, FiniteSets

CONSTANTS
    Setups,   \* the configurations tried: [app, has], `has' the parts asked for
    MaxJobs   \* bound on the jobs that are enqueued

VARIABLES
    setup,    \* [app : {"scaffold", "incident"}, has : a set of parts]
    at,       \* the step of main that comes next, a position in Steps
    phase,    \* "starting", "serving", "stopping", "awaiting" or "ended"
    built,    \* what main has built: pools, migrated databases, tables, servers
    worker,   \* the worker task: "none", "idle", "busy", "over"
    grpc,     \* the gRPC task: "none", "spawned", "listening", "over"
    request,  \* one HTTP request: "none", "running", "done", "cut"
    waiting,  \* jobs in the queue
    jobs,     \* jobs by what became of them: [done, lost]
    exit      \* how the process ended: "none", "ok", "error", "killed"

vars == <<setup, at, phase, built, worker, grpc, request, waiting, jobs, exit>>

\* The order of main. `load' is the configuration, the resources and the OpenAPI
\* document; `apis' the metrics and the GraphQL schema.
Steps ==
    <<"load", "connect", "migrate", "stores", "redis", "channels", "worker", "sagas", "apis", "grpc", "bind">>

Init ==
    /\ setup \in Setups
    /\ at = 1 /\ phase = "starting"
    /\ built = {}
    /\ worker = "none" /\ grpc = "none" /\ request = "none"
    /\ waiting = 0
    /\ jobs = [done |-> 0, lost |-> 0]
    /\ exit = "none"

Has(p) == p \in setup.has

Scaffold == setup.app = "scaffold"

Step(s) == phase = "starting" /\ Steps[at] = s

\* The worker is spawned where there is a queue; the scaffold asks for a
\* registered job as well.
StartsWorker == Has("cache") /\ (Scaffold => Has("jobs"))

\* The end of the process takes its tasks along. A job the worker had popped is
\* in no list of Redis any more.
EndsWith(how) ==
    /\ phase' = "ended" /\ exit' = how
    /\ worker' = IF worker = "none" THEN "none" ELSE "over"
    /\ grpc' = IF grpc = "none" THEN "none" ELSE "over"
    /\ request' = IF request = "running" THEN "cut" ELSE request
    /\ jobs' = IF worker = "busy" THEN [jobs EXCEPT !.lost = @ + 1] ELSE jobs

Advance == at' = at + 1

-----------------------------------------------------------------------------
\* A step that builds something and goes on.
Builds(s, made) ==
    /\ Step(s) /\ Advance
    /\ built' = built \cup made
    /\ UNCHANGED <<setup, phase, worker, grpc, request, waiting, jobs, exit>>

Load == Builds("load", {"config"})

Connect == Builds("connect", {"pool"})

\* migrator.run(&pool): the default database, also when there are several.
Migrate == Builds("migrate", {"migrated"})

\* DatabaseManager::from_named_config and build_orm_store_registry, or the
\* generated build_store_registry.
BuildStores == Builds("stores", {"stores"})

CreateRedisPool == Builds("redis", IF Has("cache") THEN {"redis"} ELSE {})

\* The scaffold registers channel routes only; the incident platform starts the
\* subscriber that feeds its rooms from Redis.
StartSubscriber ==
    Builds("channels", IF Has("channels") /\ Has("cache") /\ ~Scaffold THEN {"subscriber"} ELSE {})

SpawnWorker ==
    /\ Step("worker") /\ Advance
    /\ worker' = IF StartsWorker THEN "idle" ELSE "none"
    /\ UNCHANGED <<setup, phase, built, grpc, request, waiting, jobs, exit>>

\* ensure_table; that it fails is only logged.
PrepareSagas ==
    \/ Builds("sagas", IF Has("sagas") /\ Scaffold THEN {"saga_table"} ELSE {})
    \/ Builds("sagas", {})

BuildApis == Builds("apis", {"apis"})

\* build_grpc_server spawns the task that binds the port and returns at once.
SpawnGrpc ==
    /\ Step("grpc") /\ Advance
    /\ grpc' = IF Has("grpc") THEN "spawned" ELSE "none"
    /\ UNCHANGED <<setup, phase, built, worker, request, waiting, jobs, exit>>

Bind ==
    /\ Step("bind")
    /\ phase' = "serving"
    /\ UNCHANGED <<setup, at, built, worker, grpc, request, waiting, jobs, exit>>

\* The steps with a `?'. Those without go on whatever happens.
StepFails ==
    /\ phase = "starting"
    /\ Steps[at] \notin {"channels", "worker", "sagas"}
    /\ Steps[at] = "redis" => Has("cache")
    /\ Steps[at] = "grpc" => Has("grpc")
    /\ EndsWith("error")
    /\ UNCHANGED <<setup, at, built, waiting>>

-----------------------------------------------------------------------------
\* router.serve(addr) in the task; nobody looks at how it ends.
GrpcBinds ==
    /\ grpc = "spawned"
    /\ grpc' \in {"listening", "over"}
    /\ UNCHANGED <<setup, at, phase, built, worker, request, waiting, jobs, exit>>

\* Some process enqueues a job.
Enqueue ==
    /\ Has("cache") /\ waiting + jobs.done + jobs.lost + (IF worker = "busy" THEN 1 ELSE 0) < MaxJobs
    /\ waiting' = waiting + 1
    /\ UNCHANGED <<setup, at, phase, built, worker, grpc, request, jobs, exit>>

\* poll_once; a poll that is due as the sender is dropped may still go first.
Poll ==
    /\ worker = "idle" /\ waiting > 0
    /\ worker' = "busy" /\ waiting' = waiting - 1
    /\ UNCHANGED <<setup, at, phase, built, grpc, request, jobs, exit>>

\* process_job comes to its end, at the latest by the job's timeout.
JobEnds ==
    /\ worker = "busy"
    /\ worker' = "idle"
    /\ jobs' = [jobs EXCEPT !.done = @ + 1]
    /\ UNCHANGED <<setup, at, phase, built, grpc, request, waiting, exit>>

Request ==
    /\ phase = "serving" /\ request = "none"
    /\ request' = "running"
    /\ UNCHANGED <<setup, at, phase, built, worker, grpc, waiting, jobs, exit>>

Answer ==
    /\ request = "running"
    /\ request' = "done"
    /\ UNCHANGED <<setup, at, phase, built, worker, grpc, waiting, jobs, exit>>

\* SIGTERM or SIGINT: the server takes no more connections.
Signal ==
    /\ phase = "serving"
    /\ phase' = "stopping"
    /\ UNCHANGED <<setup, at, built, worker, grpc, request, waiting, jobs, exit>>

NeverAwaitsMutant == FALSE

\* The scaffold drops the shutdown sender and awaits the worker's handle.
AwaitsWorker == Scaffold /\ worker # "none"

\* HttpServer::run returns: no request is left, or its grace period is over.
ServerStops ==
    /\ phase = "stopping"
    /\ \/ /\ AwaitsWorker
          /\ phase' = "awaiting"
          /\ request' = IF request = "running" THEN "cut" ELSE request
          /\ UNCHANGED <<worker, grpc, jobs, exit>>
       \/ /\ ~AwaitsWorker
          /\ EndsWith("ok")
    /\ UNCHANGED <<setup, at, built, waiting>>

\* changed() is an error once the sender is dropped, and the loop ends on it.
SenderDropped == phase = "awaiting"

\* The loop looks between two polls.
WorkerStops ==
    /\ worker = "idle" /\ SenderDropped
    /\ worker' = "over"
    /\ UNCHANGED <<setup, at, phase, built, grpc, request, waiting, jobs, exit>>

MainReturns ==
    /\ phase = "awaiting" /\ worker = "over"
    /\ EndsWith("ok")
    /\ UNCHANGED <<setup, at, built, waiting>>

Kill ==
    /\ phase # "ended"
    /\ EndsWith("killed")
    /\ UNCHANGED <<setup, at, built, waiting>>

MainSteps ==
    \/ Load \/ Connect \/ Migrate \/ BuildStores \/ CreateRedisPool \/ StartSubscriber
    \/ SpawnWorker \/ PrepareSagas \/ BuildApis \/ SpawnGrpc \/ Bind \/ StepFails

Shutdown == JobEnds \/ ServerStops \/ WorkerStops \/ MainReturns

Next ==
    \/ MainSteps \/ GrpcBinds \/ Enqueue \/ Poll \/ JobEnds \/ Request \/ Answer
    \/ Signal \/ ServerStops \/ WorkerStops \/ MainReturns \/ Kill

-----------------------------------------------------------------------------
TypeOK ==
    /\ at \in DOMAIN Steps
    /\ worker \in {"none", "idle", "busy", "over"}
    /\ grpc \in {"none", "spawned", "listening", "over"}
    /\ jobs.done + jobs.lost + waiting <= MaxJobs
    /\ (phase = "ended") = (exit # "none")

\* Nothing of the process touches the tables before they have been migrated: no
\* request is served and no job is run on the schema of the last release.
ServesMigrated ==
    (worker \in {"idle", "busy"} \/ grpc = "listening" \/ phase = "serving") =>
        {"pool", "migrated", "stores"} \subseteq built

\* A job is lost with the process only if main ended with an error, a bind that
\* fails after the worker was started included, if the process was killed, or if
\* it is the incident platform, whose main does not wait for its worker. A clean
\* end of a scaffolded server loses none.
LossExplained ==
    jobs.lost > 0 => exit \in {"error", "killed"} \/ ~Scaffold
=============================================================================
