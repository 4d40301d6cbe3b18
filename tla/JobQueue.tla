------------------------------ MODULE JobQueue ------------------------------
(***************************************************************************)
(* The Redis-backed background job queue of shaperail-runtime:             *)
(* jobs/queue.rs (JobQueue) and jobs/worker.rs (Worker).                   *)
(*                                                                         *)
(* Redis keeps one list per priority, one dead-letter list and one         *)
(* metadata hash per job.  Several processes share it; each runs one       *)
(* Worker task and the detached retry tasks that this Worker spawned.      *)
(* Every Redis command is one step, because other processes' commands      *)
(* interleave between any two of them, and every command may also fail,    *)
(* with or without having been executed by the server.                     *)
(*                                                                         *)
(* A job's name, payload, priority, max_retries and timeout never change   *)
(* after enqueue, so they are constants; an envelope is the job and its    *)
(* attempt counter.                                                        *)
(***************************************************************************)
EXTENDS Integers, Sequences, FiniteSets

CONSTANTS
    Jobs,          \* job ids (a fresh UUID per enqueue call)
    Workers,       \* processes, one Worker each
    NoJob,         \* placeholder for "no envelope in hand"
    JobPriority,   \* [Jobs -> Priorities], chosen by the caller of enqueue
    MaxRetries,    \* [Jobs -> Nat], the max_retries given to enqueue
    Registered,    \* the jobs whose name has a handler in the JobRegistry
    MaxFaults,     \* bound: failed Redis commands, crashes and panics
    MaxStops       \* bound: graceful shutdowns

ReversedMutant == <<"low", "normal", "high", "critical">>
PriorityOrder == <<"critical", "high", "normal", "low">>
Priorities == {"critical", "high", "normal", "low"}

ASSUME JobsAssumption == NoJob \notin Jobs
ASSUME PriorityAssumption == JobPriority \in [Jobs -> Priorities]
ASSUME RetriesAssumption == MaxRetries \in [Jobs -> Nat]
ASSUME RegisteredAssumption == Registered \subseteq Jobs
ASSUME BoundsAssumption == MaxFaults \in Nat /\ MaxStops \in Nat

VARIABLES
    queue,      \* queue[p]: the Redis list of priority p, head first
    dead,       \* the list shaperail:jobs:dead
    meta,       \* meta[j]: the hash shaperail:jobs:meta:<j>
    producer,   \* producer[j]: where the enqueue call for j is
    wpc,        \* wpc[w]: where the Worker task of process w is
    widx,       \* widx[w]: index of the list that poll_once reads next
    wenv,       \* wenv[w]: the envelope process_job works on
    retries,    \* the detached retry tasks of all processes
    faults,     \* failed commands, crashes and panics so far
    stops,      \* graceful shutdowns so far
    runs,       \* history: how many times the handler of j was started
    succeeded,  \* history: jobs whose handler returned Ok
    seen        \* history: seen[w], what was queued when w's poll began

redis == <<queue, dead, meta>>
local == <<producer, wpc, widx, wenv, retries>>
history == <<runs, succeeded, seen>>
vars == <<queue, dead, meta, producer, wpc, widx, wenv, retries,
          faults, stops, runs, succeeded, seen>>

Envelope == [job : Jobs, attempt : Nat]
NoEnv == [job |-> NoJob, attempt |-> 0]

\* "none": the hash does not exist.  has: "origin", the fields that only
\* enqueue writes (id, name, max_retries, created_at); "error", the error
\* field, which nothing removes; "ttl", an expiry time.
Meta == [status : {"none", "pending", "running", "completed", "failed"},
         attempt : Nat, has : SUBSET {"origin", "error", "ttl"}]
NoMeta == [status |-> "none", attempt |-> 0, has |-> {}]

DeadLetter == [job : Jobs, attempts : Nat]

RetryTask == [proc : Workers, env : Envelope, pc : {"sleep", "mark"}]

WorkerPc == {"idle", "poll", "got", "exec", "ok", "fail", "timedout",
             "deadmark", "stopped", "panicked", "down"}

\* What the client sees of one Redis command: it succeeds, or it fails
\* having been executed by the server or not.
Replies == [ok : BOOLEAN, applied : BOOLEAN] \ {[ok |-> TRUE, applied |-> FALSE]}

Count(r) == /\ r.ok \/ faults < MaxFaults
            /\ faults' = IF r.ok THEN faults ELSE faults + 1

-----------------------------------------------------------------------------
(* The three kinds of Redis write the queue makes. *)

\* RPUSH of an envelope on the list of its job's priority
Pushed(env) == [queue EXCEPT ![JobPriority[env.job]] = Append(@, env)]

\* LPOP of the list of priority p
PeekedMutant(p) == queue
Popped(p) == [queue EXCEPT ![p] = Tail(@)]

\* JobQueue::update_status: HSET of status, attempt and, if given, error.
\* A hash that has expired is created again with these fields only.
Updated(j, status, attempt, error) ==
    [meta EXCEPT ![j] = [status |-> status, attempt |-> attempt,
                         has |-> @.has \union error]]

UpdateStatus(r, j, status, attempt, error) ==
    meta' = IF r.applied THEN Updated(j, status, attempt, error) ELSE meta

-----------------------------------------------------------------------------
(* JobQueue::enqueue_with_options: HSET, EXPIRE, RPUSH. *)

EnqueueStore(j) ==
    /\ producer[j] = "new"
    /\ \E r \in Replies :
          /\ Count(r)
          /\ meta' = IF r.applied
                     THEN [meta EXCEPT ![j] = [status |-> "pending", attempt |-> 0,
                                               has |-> {"origin"}]]
                     ELSE meta
          /\ producer' = [producer EXCEPT ![j] = IF r.ok THEN "stored" ELSE "err"]
    /\ UNCHANGED <<queue, dead, wpc, widx, wenv, retries, stops, history>>

\* The result of EXPIRE is ignored.
EnqueueExpire(j) ==
    /\ producer[j] = "stored"
    /\ \E r \in Replies :
          /\ Count(r)
          /\ meta' = IF r.applied THEN [meta EXCEPT ![j].has = @ \union {"ttl"}] ELSE meta
    /\ producer' = [producer EXCEPT ![j] = "ttl"]
    /\ UNCHANGED <<queue, dead, wpc, widx, wenv, retries, stops, history>>

EnqueuePush(j) ==
    /\ producer[j] = "ttl"
    /\ \E r \in Replies :
          /\ Count(r)
          /\ queue' = IF r.applied THEN Pushed([job |-> j, attempt |-> 0]) ELSE queue
          /\ producer' = [producer EXCEPT ![j] = IF r.ok THEN "ok" ELSE "err"]
    /\ UNCHANGED <<dead, meta, wpc, widx, wenv, retries, stops, history>>

\* The enqueueing process dies between two commands of the call.
ProducerDies(j) ==
    /\ producer[j] \in {"stored", "ttl"}
    /\ faults < MaxFaults
    /\ faults' = faults + 1
    /\ producer' = [producer EXCEPT ![j] = "err"]
    /\ UNCHANGED <<redis, wpc, widx, wenv, retries, stops, history>>

-----------------------------------------------------------------------------
(* Worker::spawn, poll_once and dequeue. *)

Elements(s) == {s[i] : i \in DOMAIN s}
Queued == UNION {Elements(queue[p]) : p \in Priorities}

\* process_job is over: the Worker goes on to pc without the envelope
Release(w, pc) == /\ wpc' = [wpc EXCEPT ![w] = pc]
                  /\ wenv' = [wenv EXCEPT ![w] = NoEnv]

\* the poll_interval sleep of the select loop is over
PollStart(w) ==
    /\ wpc[w] = "idle"
    /\ wpc' = [wpc EXCEPT ![w] = "poll"]
    /\ widx' = [widx EXCEPT ![w] = 1]
    /\ seen' = [seen EXCEPT ![w] = Queued]
    /\ UNCHANGED <<redis, producer, wenv, retries, faults, stops, runs, succeeded>>

\* poll_once is over: back to the select loop
PollEnd(w) == /\ widx' = [widx EXCEPT ![w] = 0]
              /\ seen' = [seen EXCEPT ![w] = {}]

LastList(i) == i = Len(PriorityOrder)

\* LPOP of the next list.  An error ends poll_once; if the server had
\* executed the command, the popped envelope is in nobody's hands.
Dequeue(w) ==
    /\ wpc[w] = "poll"
    /\ LET p == PriorityOrder[widx[w]]
           empty == queue[p] = <<>>
       IN \E r \in Replies :
            /\ Count(r)
            /\ queue' = IF r.applied /\ ~empty
                        THEN Popped(p) ELSE queue
            /\ \/ /\ r.ok /\ ~empty
                  /\ wpc' = [wpc EXCEPT ![w] = "got"]
                  /\ wenv' = [wenv EXCEPT ![w] = Head(queue[p])]
                  /\ PollEnd(w)
               \/ /\ r.ok /\ empty /\ ~LastList(widx[w])
                  /\ widx' = [widx EXCEPT ![w] = @ + 1]
                  /\ UNCHANGED <<wpc, wenv, seen>>
               \/ /\ ~r.ok \/ (empty /\ LastList(widx[w]))
                  /\ Release(w, "idle")
                  /\ PollEnd(w)
    /\ UNCHANGED <<dead, meta, producer, retries, stops, runs, succeeded>>

-----------------------------------------------------------------------------
(* Worker::process_job. *)

NoHandlerMutant(w) ==
    LET j == wenv[w].job IN
    /\ wpc[w] = "got"
    /\ \E r \in Replies :
          /\ Count(r)
          /\ UpdateStatus(r, j, "running", wenv[w].attempt + 1, {})
          /\ IF r.ok /\ j \in Registered
             THEN /\ wpc' = [wpc EXCEPT ![w] = "exec"]
                  /\ runs' = [runs EXCEPT ![j] = @ + 1]
                  /\ UNCHANGED wenv
             ELSE /\ Release(w, "idle")
                  /\ UNCHANGED runs
    /\ UNCHANGED <<queue, dead, producer, widx, retries, stops, succeeded, seen>>

\* HSET running.  If it fails, process_job returns and drops the envelope.
\* Otherwise the handler starts, or there is none and the job has failed.
MarkRunning(w) ==
    LET j == wenv[w].job IN
    /\ wpc[w] = "got"
    /\ \E r \in Replies :
          /\ Count(r)
          /\ UpdateStatus(r, j, "running", wenv[w].attempt + 1, {})
          /\ \/ /\ r.ok /\ j \in Registered
                /\ wpc' = [wpc EXCEPT ![w] = "exec"]
                /\ runs' = [runs EXCEPT ![j] = @ + 1]
                /\ UNCHANGED wenv
             \/ /\ r.ok /\ j \notin Registered
                /\ wpc' = [wpc EXCEPT ![w] = "fail"]
                /\ UNCHANGED <<wenv, runs>>
             \/ /\ ~r.ok
                /\ Release(w, "idle")
                /\ UNCHANGED runs
    /\ UNCHANGED <<queue, dead, producer, widx, retries, stops, succeeded, seen>>

HandlerOk(w) ==
    /\ wpc[w] = "exec"
    /\ wpc' = [wpc EXCEPT ![w] = "ok"]
    /\ succeeded' = succeeded \union {wenv[w].job}
    /\ UNCHANGED <<redis, producer, widx, wenv, retries, faults, stops, runs, seen>>

\* the handler returned Err, or its timeout elapsed and it was dropped
HandlerFails(w, pc) ==
    /\ wpc[w] = "exec"
    /\ wpc' = [wpc EXCEPT ![w] = pc]
    /\ UNCHANGED <<redis, producer, widx, wenv, retries, faults, stops, history>>

DroppedMutant(w) ==
    /\ wpc[w] = "exec"
    /\ Release(w, "idle")
    /\ UNCHANGED <<redis, producer, widx, retries, faults, stops, history>>

HandlerErr(w) == HandlerFails(w, "fail")
HandlerTimeout(w) == HandlerFails(w, "timedout")

\* The handler runs inside the Worker's own task: a panic unwinds the task,
\* nobody restarts it, and the process and its retry tasks live on.
HandlerPanic(w) ==
    /\ wpc[w] = "exec"
    /\ faults < MaxFaults
    /\ faults' = faults + 1
    /\ Release(w, "panicked")
    /\ UNCHANGED <<redis, producer, widx, retries, stops, history>>

RetryOnLostStatusMutant(w) ==
    /\ wpc[w] = "ok"
    /\ \E r \in Replies :
          /\ Count(r)
          /\ UpdateStatus(r, wenv[w].job, "completed", wenv[w].attempt + 1, {})
          /\ IF r.ok THEN Release(w, "idle")
                     ELSE wpc' = [wpc EXCEPT ![w] = "fail"] /\ UNCHANGED wenv
    /\ UNCHANGED <<queue, dead, producer, widx, retries, stops, history>>

\* an error of this HSET is only logged
MarkCompleted(w) ==
    /\ wpc[w] = "ok"
    /\ \E r \in Replies :
          /\ Count(r)
          /\ UpdateStatus(r, wenv[w].job, "completed", wenv[w].attempt + 1, {})
    /\ Release(w, "idle")
    /\ UNCHANGED <<queue, dead, producer, widx, retries, stops, history>>

-----------------------------------------------------------------------------
(* Worker::handle_failure: spawn a retry task or move to the dead letters. *)

Failed(w) == wpc[w] \in {"fail", "timedout"}
OneTooManyMutant(env) == env.attempt < MaxRetries[env.job]
RetriesLeft(env) == env.attempt + 1 < MaxRetries[env.job]

ScheduleRetry(w) ==
    /\ Failed(w)
    /\ RetriesLeft(wenv[w])
    /\ retries' = retries \union {[proc |-> w, env |-> wenv[w], pc |-> "sleep"]}
    /\ Release(w, "idle")
    /\ UNCHANGED <<redis, producer, widx, faults, stops, history>>

IgnoredErrorMutant(w) ==
    /\ Failed(w)
    /\ ~RetriesLeft(wenv[w])
    /\ \E r \in Replies :
          /\ Count(r)
          /\ dead' = IF r.applied
                     THEN Append(dead, [job |-> wenv[w].job,
                                        attempts |-> wenv[w].attempt])
                     ELSE dead
    /\ wpc' = [wpc EXCEPT ![w] = "deadmark"]
    /\ UNCHANGED <<queue, meta, producer, widx, wenv, retries, stops, history>>

\* JobQueue::move_to_dead_letter: RPUSH, and if it succeeds HSET failed
DeadPush(w) ==
    /\ Failed(w)
    /\ ~RetriesLeft(wenv[w])
    /\ \E r \in Replies :
          /\ Count(r)
          /\ dead' = IF r.applied
                     THEN Append(dead, [job |-> wenv[w].job,
                                        attempts |-> wenv[w].attempt])
                     ELSE dead
          /\ IF r.ok THEN /\ wpc' = [wpc EXCEPT ![w] = "deadmark"]
                          /\ UNCHANGED wenv
                     ELSE Release(w, "idle")
    /\ UNCHANGED <<queue, meta, producer, widx, retries, stops, history>>

DeadMark(w) ==
    /\ wpc[w] = "deadmark"
    /\ \E r \in Replies :
          /\ Count(r)
          /\ UpdateStatus(r, wenv[w].job, "failed", wenv[w].attempt, {"error"})
    /\ Release(w, "idle")
    /\ UNCHANGED <<queue, dead, producer, widx, retries, stops, history>>

SameAttemptMutant(t) ==
    /\ t.pc = "sleep"
    /\ LET env == t.env IN
       \E r \in Replies :
          /\ Count(r)
          /\ queue' = IF r.applied THEN Pushed(env) ELSE queue
          /\ retries' = (retries \ {t}) \union
                        (IF r.ok THEN {[t EXCEPT !.env = env, !.pc = "mark"]} ELSE {})
    /\ UNCHANGED <<dead, meta, producer, wpc, widx, wenv, stops, history>>

\* JobQueue::requeue_for_retry, run by a retry task once its backoff is
\* over: RPUSH of the incremented envelope, and if it succeeds HSET pending
RequeuePush(t) ==
    /\ t.pc = "sleep"
    /\ LET env == [t.env EXCEPT !.attempt = @ + 1] IN
       \E r \in Replies :
          /\ Count(r)
          /\ queue' = IF r.applied THEN Pushed(env) ELSE queue
          /\ retries' = (retries \ {t}) \union
                        (IF r.ok THEN {[t EXCEPT !.env = env, !.pc = "mark"]} ELSE {})
    /\ UNCHANGED <<dead, meta, producer, wpc, widx, wenv, stops, history>>

RequeueMark(t) ==
    /\ t.pc = "mark"
    /\ \E r \in Replies :
          /\ Count(r)
          /\ UpdateStatus(r, t.env.job, "pending", t.env.attempt, {})
    /\ retries' = retries \ {t}
    /\ UNCHANGED <<queue, dead, producer, wpc, widx, wenv, stops, history>>

-----------------------------------------------------------------------------
(* Processes stop, crash and start; Redis expires metadata. *)

TasksOf(w) == {t \in retries : t.proc = w}

\* the select loop sees the shutdown signal: only between two polls
Shutdown(w) ==
    /\ wpc[w] = "idle"
    /\ stops < MaxStops
    /\ stops' = stops + 1
    /\ wpc' = [wpc EXCEPT ![w] = "stopped"]
    /\ UNCHANGED <<redis, producer, widx, wenv, retries, faults, history>>

\* main returns after the Worker's task ended; the runtime is dropped and
\* with it the retry tasks, which nobody waits for
Exit(w) ==
    /\ wpc[w] \in {"stopped", "panicked"}
    /\ wpc' = [wpc EXCEPT ![w] = "down"]
    /\ retries' = retries \ TasksOf(w)
    /\ UNCHANGED <<redis, producer, widx, wenv, faults, stops, history>>

\* the process dies: its Worker's envelope and its retry tasks are gone
Crash(w) ==
    /\ wpc[w] # "down"
    /\ faults < MaxFaults
    /\ faults' = faults + 1
    /\ Release(w, "down")
    /\ PollEnd(w)
    /\ retries' = retries \ TasksOf(w)
    /\ UNCHANGED <<redis, producer, stops, runs, succeeded>>

Start(w) ==
    /\ wpc[w] = "down"
    /\ wpc' = [wpc EXCEPT ![w] = "idle"]
    /\ UNCHANGED <<redis, producer, widx, wenv, retries, faults, stops, history>>

\* Redis drops a hash whose seven days are over
Lapse(j) ==
    /\ "ttl" \in meta[j].has
    /\ meta' = [meta EXCEPT ![j] = NoMeta]
    /\ UNCHANGED <<queue, dead, local, faults, stops, history>>

-----------------------------------------------------------------------------
Init ==
    /\ queue = [p \in Priorities |-> <<>>]
    /\ dead = <<>>
    /\ meta = [j \in Jobs |-> NoMeta]
    /\ producer = [j \in Jobs |-> "new"]
    /\ wpc = [w \in Workers |-> "idle"]
    /\ widx = [w \in Workers |-> 0]
    /\ wenv = [w \in Workers |-> NoEnv]
    /\ retries = {}
    /\ faults = 0
    /\ stops = 0
    /\ runs = [j \in Jobs |-> 0]
    /\ succeeded = {}
    /\ seen = [w \in Workers |-> {}]

Enqueue(j) == EnqueueStore(j) \/ EnqueueExpire(j) \/ EnqueuePush(j)

Poll(w) == PollStart(w) \/ Dequeue(w)

ProcessJob(w) == \/ MarkRunning(w)
                 \/ HandlerOk(w) \/ HandlerErr(w) \/ HandlerTimeout(w)
                 \/ HandlerPanic(w)
                 \/ MarkCompleted(w)
                 \/ ScheduleRetry(w) \/ DeadPush(w) \/ DeadMark(w)

Retry(t) == RequeuePush(t) \/ RequeueMark(t)

Process(w) == Shutdown(w) \/ Exit(w) \/ Crash(w) \/ Start(w)

Next == \/ \E j \in Jobs : Enqueue(j) \/ ProducerDies(j) \/ Lapse(j)
        \/ \E w \in Workers : Poll(w) \/ ProcessJob(w) \/ Process(w)
        \/ \E t \in retries : Retry(t)

Spec == Init /\ [][Next]_vars

\* tokio keeps running every task that is not waiting: a started enqueue
\* call, each Worker, each retry task.  Nothing is assumed of failures,
\* shutdowns, restarts or expiry.
Fairness ==
    /\ \A j \in Jobs : WF_vars(producer[j] # "new" /\ Enqueue(j))
    /\ \A w \in Workers : WF_vars(Poll(w)) /\ WF_vars(ProcessJob(w))
    /\ \A w \in Workers : WF_vars(\E t \in TasksOf(w) : Retry(t))

LiveSpec == Spec /\ Fairness

-----------------------------------------------------------------------------
(* Where a job is. *)

Holds(w) == wpc[w] \in {"got", "exec", "ok", "fail", "timedout"}

QueuedJobs == {env.job : env \in Queued}
HeldJobs == {wenv[w].job : w \in {v \in Workers : Holds(v)}}
SleepingJobs == {t.env.job : t \in {u \in retries : u.pc = "sleep"}}
DeadJobs == {d.job : d \in Elements(dead)}

Accounted(j) == j \in QueuedJobs \union HeldJobs \union SleepingJobs
                      \union DeadJobs \union succeeded

\* how often handle_failure lets a job run in all
Limit(j) == IF MaxRetries[j] = 0 THEN 1 ELSE MaxRetries[j]

-----------------------------------------------------------------------------
(* Properties *)

\* The type invariant.
TypeOK ==
    /\ queue \in [Priorities -> Seq(Envelope)]
    /\ dead \in Seq(DeadLetter)
    /\ meta \in [Jobs -> Meta]
    /\ producer \in [Jobs -> {"new", "stored", "ttl", "ok", "err"}]
    /\ wpc \in [Workers -> WorkerPc]
    /\ widx \in [Workers -> 0 .. Len(PriorityOrder)]
    /\ wenv \in [Workers -> Envelope \union {NoEnv}]
    /\ retries \subseteq RetryTask
    /\ faults \in 0 .. MaxFaults
    /\ stops \in 0 .. MaxStops
    /\ runs \in [Jobs -> Nat]
    /\ succeeded \subseteq Jobs
    /\ seen \in [Workers -> SUBSET Envelope]

\* A job is in one place at a time: queued once, or held by one Worker, or
\* in one backoff sleep, or dead-lettered once; two processes never work on
\* the same job, whatever commands failed and whoever crashed.
OnePlace ==
    /\ \A p \in Priorities : \A i, k \in DOMAIN queue[p] :
          queue[p][i].job = queue[p][k].job => i = k
    /\ \A v, w \in Workers :
          Holds(v) /\ Holds(w) /\ wenv[v].job = wenv[w].job => v = w
    /\ \A t, u \in retries :
          t.pc = "sleep" /\ u.pc = "sleep" /\ t.env.job = u.env.job => t = u
    /\ \A i, k \in DOMAIN dead : dead[i].job = dead[k].job => i = k
    /\ QueuedJobs \cap (HeldJobs \union SleepingJobs \union DeadJobs) = {}
    /\ HeldJobs \cap (SleepingJobs \union DeadJobs) = {}
    /\ SleepingJobs \cap DeadJobs = {}

\* A job whose handler returned Ok is over: it is never queued, retried or
\* dead-lettered again, so its handler is not run a second time.
SuccessIsFinal == succeeded \cap (QueuedJobs \union SleepingJobs \union DeadJobs) = {}

\* A handler is never started more often than handle_failure's comparison
\* of attempt + 1 with max_retries allows (once when max_retries is 0).
ExecutionsBounded == \A j \in Jobs : runs[j] <= Limit(j)

\* A job reaches the dead letters only after its handler has been run the
\* full number of times, and never after a success.
DeadLettersExhausted ==
    \A j \in DeadJobs \cap Registered : runs[j] = Limit(j)

\* The metadata hash never reports an outcome that did not happen:
\* completed only after a success, failed only for a dead-lettered job.
StatusTruthful ==
    \A j \in Jobs : /\ meta[j].status = "completed" => j \in succeeded
                    /\ meta[j].status = "failed" => j \in DeadJobs

-----------------------------------------------------------------------------
(* The inductive invariant behind the safety properties above: what is     *)
(* true of a job in each place.                                            *)

NotHeld(j) == \A w \in Workers : Holds(w) => wenv[w].job # j
NotSleeping(j) == \A t \in retries : t.pc = "sleep" => t.env.job # j
NotDead(j) == \A i \in DOMAIN dead : dead[i].job # j
Begun(j) == producer[j] \in {"ok", "err"}

\* the handler of j was started n times, if it has one
RunCount(j, n) == runs[j] <= n /\ (j \in Registered => runs[j] = n)

QueueInv ==
    \A p \in Priorities : \A i \in DOMAIN queue[p] :
       LET j == queue[p][i].job IN
       /\ JobPriority[j] = p
       /\ \A k \in DOMAIN queue[p] : queue[p][k].job = j => k = i
       /\ NotHeld(j) /\ NotSleeping(j) /\ NotDead(j)
       /\ Begun(j) /\ j \notin succeeded
       /\ queue[p][i].attempt < Limit(j)
       /\ RunCount(j, queue[p][i].attempt)

HeldInv ==
    \A w \in Workers : Holds(w) =>
       LET j == wenv[w].job IN
       /\ \A v \in Workers : Holds(v) /\ wenv[v].job = j => v = w
       /\ NotSleeping(j) /\ NotDead(j)
       /\ Begun(j) /\ (j \in succeeded <=> wpc[w] = "ok")
       /\ wenv[w].attempt < Limit(j)
       /\ RunCount(j, IF wpc[w] = "got" THEN wenv[w].attempt ELSE wenv[w].attempt + 1)

SleepInv ==
    \A t \in retries : t.pc = "sleep" =>
       LET j == t.env.job IN
       /\ \A u \in retries : u.pc = "sleep" /\ u.env.job = j => u = t
       /\ NotDead(j)
       /\ Begun(j) /\ j \notin succeeded
       /\ t.env.attempt + 1 < Limit(j)
       /\ RunCount(j, t.env.attempt + 1)

DeadInv ==
    \A i \in DOMAIN dead :
       LET j == dead[i].job IN
       /\ \A k \in DOMAIN dead : dead[k].job = j => k = i
       /\ Begun(j) /\ j \notin succeeded
       /\ RunCount(j, Limit(j))

\* every execution is counted, and none happens before the job is queued
RunInv == \A j \in Jobs : /\ runs[j] <= Limit(j)
                          /\ ~Begun(j) => runs[j] = 0 /\ j \notin succeeded

StatusInv ==
    /\ \A j \in Jobs : meta[j].status = "completed" => j \in succeeded
    /\ \A j \in Jobs : meta[j].status = "failed" => ~NotDead(j)
    /\ \A w \in Workers : wpc[w] = "deadmark" => ~NotDead(wenv[w].job)

\* Wherever a job is, it is nowhere else, has not succeeded, and its attempt
\* counter equals the number of times its handler was started.
JobInv == QueueInv /\ HeldInv /\ SleepInv /\ DeadInv /\ RunInv /\ StatusInv

-----------------------------------------------------------------------------
\* An accepted job disappears only by a failed command, a crash or a panic,
\* or while it sleeps in a backoff of a process that exits.
NoSilentLoss ==
    [][\A j \in Jobs :
          Accounted(j) /\ ~Accounted(j)' =>
             \/ faults' > faults
             \/ \E t \in retries : /\ t.env.job = j /\ t.pc = "sleep"
                                   /\ wpc[t.proc] \in {"stopped", "panicked"}]_vars

\* poll_once serves priorities strictly: when it takes an envelope, no
\* envelope of a higher priority that was queued when the poll began is
\* still waiting.
Rank(j) == [critical |-> 1, high |-> 2, normal |-> 3, low |-> 4][JobPriority[j]]
NoPriorityInversion ==
    [][\A w \in Workers :
          wpc[w] = "poll" /\ wpc'[w] = "got" =>
             \A env \in seen[w] \cap Queued' : Rank(env.job) >= Rank(wenv'[w].job)]_vars

\* Every job that enqueue accepted ends: its handler succeeds, it reaches the
\* dead letters, or a process shut down and lost it (NoSilentLoss says how).
EveryJobSettles ==
    \A j \in Jobs : producer[j] = "ok" ~> (j \in succeeded \/ j \in DeadJobs \/ (stops > 0 /\ ~Accounted(j)))

-----------------------------------------------------------------------------
(* The refinement mapping to JobLifecycle. *)

At(w, pcs, j) == wpc[w] \in pcs /\ wenv[w].job = j

Stage == [j \in Jobs |->
    IF j \in succeeded THEN "done"
    ELSE IF j \in DeadJobs THEN "dead"
    ELSE IF \E w \in Workers : At(w, {"exec", "fail", "timedout"}, j) THEN "running"
    ELSE IF \E w \in Workers : At(w, {"got"}, j) THEN "taken"
    ELSE IF j \in QueuedJobs \union SleepingJobs THEN "waiting"
    ELSE IF producer[j] \in {"new", "stored", "ttl"} THEN "new"
    ELSE "gone"]

Lifecycle == INSTANCE JobLifecycle
    WITH stage <- Stage, starts <- runs, MaxStarts <- [j \in Jobs |-> Limit(j)],
         Handled <- Registered

\* Six Redis lists and hashes, several processes and their retry tasks keep
\* the promise of JobLifecycle, whatever fails: a job is accepted once, held
\* by one Worker, started at most Limit times and never comes back.
ImplementsLifecycle == Lifecycle!Spec
=============================================================================
