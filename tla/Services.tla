------------------------------ MODULE Services -------------------------------
(***************************************************************************)
(* The life of the processes around the request handlers: the start and    *)
(* end of a server, its migrations, its entry in the service registry, a   *)
(* workspace of several services and the sagas (Saga, which this module    *)
(* extends) that span them.  They share no state; each behaviour follows   *)
(* one of them (`part') and the others stay parked.                        *)
(***************************************************************************)
EXTENDS Saga

CONSTANTS
    Setups, MaxJobs,                                                      \* Startup
    Runs, Others, Versions, Skipped, Repeatable, MaxMishaps,              \* Migrations
    Procs, Interval, Ttl,                                                 \* Registry
    Names, Configs, Sagas                                                 \* Workspace

VARIABLES
    part,
    setup, at, phase, built, worker, grpc, request, waiting, jobs, exit,  \* Startup
    executed, record, runner, excuse, mishaps,                            \* Migrations
    key, left, proc, due, copy, missed, since, cause,                     \* Registry
    ws, stage, sagas, order, child, code                                  \* Workspace

-----------------------------------------------------------------------------
Server == INSTANCE Startup

Schema == INSTANCE Migrations WITH MaxFaults <- MaxMishaps, done <- executed

Entries == INSTANCE Registry

Group == INSTANCE Workspace

ASSUME ServerAssumption == MaxJobs \in Nat

ASSUME SchemaAssumption == Schema!Numbered /\ Schema!Walk /\ MaxMishaps \in Nat

ASSUME EntriesAssumption == Entries!Timing

ASSUME GroupAssumption == Group!Described

-----------------------------------------------------------------------------
ServerVars == <<setup, at, phase, built, worker, grpc, request, waiting, jobs, exit>>
SchemaVars == <<executed, record, runner, excuse, mishaps>>
EntriesVars == <<key, left, proc, due, copy, missed, since, cause>>
GroupVars == <<ws, stage, sagas, order, child, code>>
all == <<part, ServerVars, SchemaVars, EntriesVars, GroupVars, vars>>

ServerParked ==
    /\ setup = "-" /\ at = "-" /\ phase = "-" /\ built = "-" /\ worker = "-"
    /\ grpc = "-" /\ request = "-" /\ waiting = "-" /\ jobs = "-" /\ exit = "-"

SchemaParked ==
    /\ executed = "-" /\ record = "-" /\ runner = "-" /\ excuse = "-" /\ mishaps = "-"

EntriesParked ==
    /\ key = "-" /\ left = "-" /\ proc = "-" /\ due = "-" /\ copy = "-"
    /\ missed = "-" /\ since = "-" /\ cause = "-"

GroupParked ==
    /\ ws = "-" /\ stage = "-" /\ sagas = "-" /\ order = "-" /\ child = "-" /\ code = "-"

ServicesInit ==
    /\ Init
    /\ \/ part = "server" /\ Server!Init /\ SchemaParked /\ EntriesParked /\ GroupParked
       \/ part = "schema" /\ ServerParked /\ Schema!Init /\ EntriesParked /\ GroupParked
       \/ part = "entries" /\ ServerParked /\ SchemaParked /\ Entries!Init /\ GroupParked
       \/ part = "group" /\ ServerParked /\ SchemaParked /\ EntriesParked /\ Group!Init
       \/ part = "saga" /\ ServerParked /\ SchemaParked /\ EntriesParked /\ GroupParked

InServer == part = "server" /\ UNCHANGED <<part, SchemaVars, EntriesVars, GroupVars, vars>>
InSchema == part = "schema" /\ UNCHANGED <<part, ServerVars, EntriesVars, GroupVars, vars>>
InEntries == part = "entries" /\ UNCHANGED <<part, ServerVars, SchemaVars, GroupVars, vars>>
InGroup == part = "group" /\ UNCHANGED <<part, ServerVars, SchemaVars, EntriesVars, vars>>
InSaga == part = "saga" /\ UNCHANGED <<part, ServerVars, SchemaVars, EntriesVars, GroupVars>>

ServerNext == InServer /\ Server!Next
SchemaNext == InSchema /\ Schema!Next
EntriesNext == InEntries /\ Entries!Next
GroupNext == InGroup /\ Group!Next
SagaNext == InSaga /\ Next

ServicesNext == ServerNext \/ SchemaNext \/ EntriesNext \/ GroupNext \/ SagaNext

(* The saga's task keeps running and its timer fires; the services a saga    *)
(* calls owe nothing.                                                        *)
ServicesSpec ==
    /\ ServicesInit /\ [][ServicesNext]_all
    /\ WF_all(InSaga /\ Running /\ (Forward \/ Backward))

-----------------------------------------------------------------------------
(* What is checked of each part, as its own module states it; those of Saga   *)
(* (SagaTellsTruth, RequestsInTurn, SagaEnds) are taken as they are.         *)

\* main starts no worker and binds no port before the schema is migrated, and a
\* clean end of a scaffolded main loses no job its worker had taken.
ServerStartsAndEnds == part = "server" =>
    Server!TypeOK /\ Server!ServesMigrated /\ Server!LossExplained

\* run_migrations_multi executes no migration before an earlier one, returns Ok
\* only when all were executed, and executes one twice only after a crash, a
\* lost record or a race.
MigratedInOrder == part = "schema" =>
    Schema!TypeOK /\ Schema!OrderKept /\ Schema!MigratedMeansAll /\ Schema!TwiceExplained

\* No entry outlives the processes of its service by more than its time to
\* live, and one expires only when three heartbeats of every live process failed.
EntriesFollowProcesses == part = "entries" =>
    Entries!TypeOK /\ Entries!EntriesDieOut /\ Entries!ExpiryMeansThreeMissed

\* validate_workspace finds every cycle and invents none, run_serve starts no
\* service before those it depends on and leaves none running when it returns.
GroupStartsAndEnds == part = "group" =>
    /\ Group!TypeOK /\ Group!RefusedExactly
    /\ Group!DependenciesFirst /\ Group!NoneLeftRunning
=============================================================================
