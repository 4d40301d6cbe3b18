------------------------------ MODULE Workspace ------------------------------
(***************************************************************************)
(* Workspaces of several services: the checks and the start-up order of    *)
(* shaperail-codegen's workspace_parser.rs, and the supervisor that        *)
(* `shaperail serve --workspace' runs (commands/workspace.rs).             *)
(***************************************************************************)
EXTENDS Integers, Sequences, FiniteSets

CONSTANTS
    Names,    \* the services in the order of the file, a sequence
    Configs,  \* the workspace files tried: [deps, port], functions of the
              \* service; deps[s] is a sequence
    Sagas     \* the saga files tried: each a sequence of [name, action, compensate]

VARIABLES
    ws,       \* the file
    stage,    \* where run_serve is
    sagas,    \* the sagas loaded
    order,    \* topological_order
    child,    \* child[s]: "none", "running", "exited" or "killed"
    code      \* what run_serve returned

vars == <<ws, stage, sagas, order, child, code>>

Services == {Names[i] : i \in DOMAIN Names}

Members(q) == {q[i] : i \in DOMAIN q}

\* The file names a service, and the services each one depends on, known or not.
Described ==
    /\ Names \in Seq(Services) /\ Names # <<>>
    /\ \A w \in Configs : \A s \in Services : w.deps[s] \in Seq(Members(w.deps[s]))

-----------------------------------------------------------------------------
\* A search visits a node: what has been visited, and the nodes on the stack.
Searches == Services \X (SUBSET Services) \X (SUBSET Services)

\* the loop of dfs_cycle over the dependencies: <<found, visited>> after each
search_deps(w, visit, p) ==
    LET deps == w.deps[p[1]]
        stack == p[3] \cup {p[1]}
        after[i \in 0 .. Len(deps)] ==
            IF i = 0 THEN <<FALSE, p[2] \cup {p[1]}>>
            ELSE IF after[i - 1][1] THEN after[i - 1]
            ELSE IF deps[i] \in after[i - 1][2] \ stack THEN after[i - 1]
            ELSE IF deps[i] \in after[i - 1][2] THEN <<TRUE, after[i - 1][2]>>
            ELSE visit[<<deps[i], after[i - 1][2], stack>>]
    IN after[Len(deps)]

dfs_cycle(w) == LET visit[p \in Searches] == search_deps(w, visit, p) IN visit

has_circular_deps(w) ==
    LET after[i \in 0 .. Len(Names)] ==
            IF i = 0 THEN <<FALSE, {}>>
            ELSE IF after[i - 1][1] \/ Names[i] \in after[i - 1][2] THEN after[i - 1]
            ELSE dfs_cycle(w)[<<Names[i], after[i - 1][2], {}>>]
    IN after[Len(Names)][1]

\* validate_workspace: known services, none its own dependency, no cycle, and a
\* port of its own for each. The file always names the workspace and a service.
validate_workspace(w) ==
    /\ \A s \in Services : Members(w.deps[s]) \subseteq Services \ {s}
    /\ ~has_circular_deps(w)
    /\ \A s, t \in Services : s # t => w.port[s] # w.port[t]

\* topo_visit: <<visited, order>> after a node, its dependencies first
Visits == Services \X ((SUBSET Services) \X Seq(Services))

visit_deps(w, visit, p) ==
    LET deps == w.deps[p[1]]
        after[i \in 0 .. Len(deps)] ==
            IF i = 0 THEN <<p[2][1] \cup {p[1]}, p[2][2]>>
            ELSE IF deps[i] \in after[i - 1][1] THEN after[i - 1]
            ELSE visit[<<deps[i], after[i - 1]>>]
    IN <<after[Len(deps)][1], Append(after[Len(deps)][2], p[1])>>

topo_visit(w) == LET visit[p \in Visits] == visit_deps(w, visit, p) IN visit

topological_order(w) ==
    LET after[i \in 0 .. Len(Names)] ==
            IF i = 0 THEN <<{}, << >> >>
            ELSE IF Names[i] \in after[i - 1][1] THEN after[i - 1]
            ELSE topo_visit(w)[<<Names[i], after[i - 1]>>]
    IN after[Len(Names)][2]

\* validate_saga: at least one step, no name twice, and calls that are calls
\* (is_valid_action: a method and a path).
validate_saga(steps) ==
    /\ steps # <<>>
    /\ \A i, j \in DOMAIN steps : i # j => steps[i].name # steps[j].name
    /\ \A i \in DOMAIN steps : steps[i].action = "call" /\ steps[i].compensate = "call"

-----------------------------------------------------------------------------
Init ==
    /\ ws \in Configs
    /\ stage = "load"
    /\ sagas = {}
    /\ order = <<>>
    /\ child = [s \in Services |-> "none"]
    /\ code = "none"

Returns(c) == stage' = "returned" /\ code' = c

\* load_workspace_config refuses the file.
Rejected ==
    /\ stage = "load" /\ ~validate_workspace(ws)
    /\ Returns("error")
    /\ UNCHANGED <<ws, sagas, order, child>>

\* The file is accepted; load_all_sagas gives up at the first bad file, of which
\* run_serve only warns.
Loaded(found) ==
    /\ stage = "load" /\ validate_workspace(ws)
    /\ sagas' = IF \A s \in found : validate_saga(s) THEN found ELSE {}
    /\ order' = topological_order(ws)
    /\ stage' = "check"
    /\ UNCHANGED <<ws, child, code>>

\* Every directory, configuration and resource is read before anything starts.
Checked ==
    /\ stage = "check"
    /\ stage' = "spawn"
    /\ UNCHANGED <<ws, sagas, order, child, code>>

CheckFails ==
    /\ stage = "check"
    /\ Returns("error")
    /\ UNCHANGED <<ws, sagas, order, child>>

Spawned == Cardinality({s \in Services : child[s] # "none"})

\* The next service of the order is started.
Spawn ==
    /\ stage = "spawn" /\ Spawned < Len(order)
    /\ child' = [child EXCEPT ![order[Spawned + 1]] = "running"]
    /\ UNCHANGED <<ws, stage, sagas, order, code>>

LeftRunningMutant(but) == child

\* kill() of every child but the one that exited; those that have ended stay so.
Killed(but) ==
    [s \in Services |-> IF child[s] = "running" /\ s \notin but THEN "killed" ELSE child[s]]

SpawnFails ==
    /\ stage = "spawn" /\ Spawned < Len(order)
    /\ child' = Killed({})
    /\ Returns("error")
    /\ UNCHANGED <<ws, sagas, order>>

AllStarted ==
    /\ stage = "spawn" /\ Spawned = Len(order)
    /\ stage' = "watch"
    /\ UNCHANGED <<ws, sagas, order, child, code>>

\* A service ends by itself, also while others are still being started.
ChildExits(s) ==
    /\ child[s] = "running"
    /\ child' = [child EXCEPT ![s] = "exited"]
    /\ UNCHANGED <<ws, stage, sagas, order, code>>

\* A round of try_wait finds the first child that has exited.
Watch ==
    /\ stage = "watch"
    /\ \E i \in DOMAIN order :
          /\ child[order[i]] = "exited"
          /\ \A j \in 1 .. i - 1 : child[order[j]] # "exited"
          /\ child' = Killed({order[i]})
          /\ Returns("exited")  \* with the status of that child
    /\ UNCHANGED <<ws, sagas, order>>

Next ==
    \/ Rejected \/ (\E found \in SUBSET Sagas : Loaded(found)) \/ Checked \/ CheckFails
    \/ Spawn \/ SpawnFails \/ AllStarted \/ (\E s \in Services : ChildExits(s)) \/ Watch

-----------------------------------------------------------------------------
TypeOK ==
    /\ stage \in {"load", "check", "spawn", "watch", "returned"}
    /\ child \in [Services -> {"none", "running", "exited", "killed"}]
    /\ (stage = "returned") = (code # "none")

\* A reference for the search: a set of services none of which depends only on
\* services outside it is a cycle or leads into one.
Acyclic(w) ==
    \A S \in (SUBSET Services) \ {{}} : \E s \in S : Members(w.deps[s]) \cap S = {}

\* A workspace is refused exactly when it should be, and only before anything
\* runs: the depth-first search finds every cycle and invents none.
RefusedExactly ==
    /\ stage # "load" =>
          ((stage = "returned" /\ order = <<>>) <=>
              ~ /\ \A s \in Services : Members(ws.deps[s]) \subseteq Services
                /\ Acyclic(ws)
                /\ Cardinality({ws.port[s] : s \in Services}) = Cardinality(Services))

\* No service is started before every service it depends on, directly or not.
DependenciesFirst ==
    \A s \in Services : child[s] # "none" =>
        \A d \in Members(ws.deps[s]) : child[d] # "none"

\* When run_serve returns, whichever way, none of the services it started is
\* still running.
NoneLeftRunning == stage = "returned" => \A s \in Services : child[s] # "running"
=============================================================================
