--------------------------- MODULE JobQueueProofs ---------------------------
(* Theorems about JobQueue, for every set of jobs and processes, every     *)
(* assignment of priorities and max_retries, and every bound on faults;    *)
(* JobQueue implements JobLifecycle, loses no job silently and serves the  *)
(* more urgent jobs first.                                                 *)
EXTENDS JobQueue, SequenceTheorems, TLAPS

USE DEF Priorities, WorkerPc

\* poll_once reads four lists, each of a known priority.
LEMMA OrderLen == Len(PriorityOrder) = 4
  BY DEF PriorityOrder

LEMMA OrderRange == \A i \in 1 .. Len(PriorityOrder) : PriorityOrder[i] \in Priorities
  BY DEF PriorityOrder

\* What a Redis reply can be, and what counting its failure leaves.
LEMMA ReplyType == ASSUME NEW r \in Replies, faults \in 0 .. MaxFaults, Count(r)
                   PROVE  /\ r.ok \in BOOLEAN /\ r.applied \in BOOLEAN
                          /\ faults' \in 0 .. MaxFaults
  BY BoundsAssumption DEF Replies, Count

\* A successful reply means that the command was executed.
LEMMA ReplyOk == \A r \in Replies : r.ok => r.applied
<1>1. ASSUME NEW r \in Replies, r.ok PROVE r.applied
  <2>1. r \in [ok : BOOLEAN, applied : BOOLEAN] /\ r # [ok |-> TRUE, applied |-> FALSE]
    BY DEF Replies
  <2>2. r = [ok |-> r.ok, applied |-> r.applied]
    BY <2>1
  <2>3. r.ok = TRUE /\ r.applied \in BOOLEAN
    BY <1>1, <2>1
  <2>4. r.applied # FALSE
    BY <2>1, <2>2, <2>3, Zenon
  <2>5. QED BY <2>3, <2>4, Zenon
<1>2. QED BY <1>1

\* RPUSH and LPOP keep the lists well formed.
LEMMA QueueTypes ==
    ASSUME TypeOK
    PROVE  /\ \A env \in Envelope : Pushed(env) \in [Priorities -> Seq(Envelope)]
           /\ \A p \in Priorities : queue[p] # <<>> =>
                 /\ Popped(p) \in [Priorities -> Seq(Envelope)]
                 /\ Head(queue[p]) \in Envelope
<1>1. ASSUME NEW env \in Envelope PROVE Pushed(env) \in [Priorities -> Seq(Envelope)]
  <2>1. JobPriority[env.job] \in Priorities
    BY PriorityAssumption DEF Envelope
  <2>2. \A q \in Seq(Envelope) : Append(q, env) \in Seq(Envelope)
    OBVIOUS
  <2>3. QED BY <2>1, <2>2 DEF TypeOK, Pushed
<1>2. ASSUME NEW p \in Priorities, queue[p] # <<>>
      PROVE  /\ Popped(p) \in [Priorities -> Seq(Envelope)]
             /\ Head(queue[p]) \in Envelope
  <2>1. queue[p] \in Seq(Envelope)
    BY DEF TypeOK
  <2>2. Tail(queue[p]) \in Seq(Envelope) /\ Head(queue[p]) \in Envelope
    BY <1>2, <2>1
  <2>3. QED BY <2>2 DEF TypeOK, Popped
<1>3. QED BY <1>1, <1>2

\* A status update keeps the metadata well formed.
LEMMA MetaTypes ==
    ASSUME TypeOK, NEW r \in Replies, NEW j \in Jobs, NEW a \in Nat,
           NEW e \in SUBSET {"error"},
           NEW s \in {"pending", "running", "completed", "failed"},
           UpdateStatus(r, j, s, a, e)
    PROVE  meta' \in [Jobs -> Meta]
<1>1. meta[j].has \in SUBSET {"origin", "error", "ttl"}
  BY DEF TypeOK, Meta
<1>2. [status |-> s, attempt |-> a, has |-> meta[j].has \union e] \in Meta
  BY <1>1 DEF Meta
<1>3. Updated(j, s, a, e) \in [Jobs -> Meta]
  BY <1>2 DEF TypeOK, Updated
<1>4. QED BY <1>3 DEF TypeOK, UpdateStatus

LEMMA NoMetaType == NoMeta \in Meta
  BY DEF NoMeta, Meta

LEMMA NoEnvFacts == NoEnv.job = NoJob /\ NoEnv.attempt \in Nat /\ NoEnv \notin Envelope
  BY JobsAssumption DEF NoEnv, Envelope

\* A Worker has an envelope in hand exactly while process_job runs, and
\* a list to read while poll_once runs.
HandInv == \A w \in Workers :
    /\ wpc[w] \in {"got", "exec", "ok", "fail", "timedout", "deadmark"}
          => wenv[w] \in Envelope
    /\ wpc[w] \notin {"got", "exec", "ok", "fail", "timedout", "deadmark"}
          => wenv[w] = NoEnv
    /\ wpc[w] = "poll" => widx[w] \in 1 .. Len(PriorityOrder)

TypeInv == TypeOK /\ HandInv

\* Every state of the job queue is well typed.
LEMMA TypeInit == Init => TypeInv
  BY NoMetaType, NoEnvFacts, BoundsAssumption, OrderLen
  DEF Init, TypeInv, TypeOK, HandInv, Envelope, RetryTask, NoMeta, Meta, NoEnv

LEMMA TypeEnqueue ==
    ASSUME TypeInv, NEW j \in Jobs,
           Enqueue(j) \/ ProducerDies(j) \/ Lapse(j)
    PROVE  TypeInv'
<1> USE DEF TypeInv, history, redis, local
<1>1. CASE EnqueueStore(j)
  <2>1. [status |-> "pending", attempt |-> 0, has |-> {"origin"}] \in Meta
    BY DEF Meta
  <2>2. QED BY <1>1, <2>1, ReplyType DEF EnqueueStore, TypeOK, HandInv
<1>2. CASE EnqueueExpire(j)
  <2>1. meta[j] \in Meta
    BY DEF TypeOK
  <2>2. meta' \in [Jobs -> Meta]
    <3> DEFINE m == [meta[j] EXCEPT !.has = @ \union {"ttl"}]
    <3>1. m \in Meta
      BY <2>1 DEF Meta
    <3>2. meta' = [meta EXCEPT ![j] = m] \/ meta' = meta
      BY <1>2 DEF EnqueueExpire
    <3> HIDE DEF m
    <3>3. QED BY <3>1, <3>2 DEF TypeOK
  <2>3. QED BY <1>2, <2>2, ReplyType DEF EnqueueExpire, TypeOK, HandInv
<1>3. CASE EnqueuePush(j)
  <2>1. [job |-> j, attempt |-> 0] \in Envelope
    BY DEF Envelope
  <2>2. queue' \in [Priorities -> Seq(Envelope)]
    <3>1. Pushed([job |-> j, attempt |-> 0]) \in [Priorities -> Seq(Envelope)]
      BY <2>1, QueueTypes
    <3>2. QED BY <1>3, <3>1 DEF EnqueuePush, TypeOK
  <2>3. QED BY <1>3, <2>2, ReplyType DEF EnqueuePush, TypeOK, HandInv
<1>4. CASE ProducerDies(j)
  BY <1>4, BoundsAssumption DEF ProducerDies, TypeOK, HandInv
<1>5. CASE Lapse(j)
  BY <1>5, NoMetaType DEF Lapse, TypeOK, HandInv
<1>6. QED BY <1>1, <1>2, <1>3, <1>4, <1>5 DEF Enqueue

LEMMA TypePoll ==
    ASSUME TypeInv, NEW w \in Workers, Poll(w)
    PROVE  TypeInv'
<1> USE DEF TypeInv, history, redis, local
<1>1. CASE PollStart(w)
  <2>1. Queued \in SUBSET Envelope
    BY DEF Queued, Elements, TypeOK
  <2>2. QED BY <1>1, <2>1, OrderLen DEF PollStart, TypeOK, HandInv
<1>2. CASE Dequeue(w)
  <2> DEFINE p == PriorityOrder[widx[w]]
  <2>1. p \in Priorities
    BY <1>2, OrderRange DEF Dequeue, HandInv
  <2>2. PICK r \in Replies :
          /\ Count(r)
          /\ queue' = IF r.applied /\ ~(queue[p] = <<>>) THEN Popped(p) ELSE queue
          /\ \/ /\ r.ok /\ ~(queue[p] = <<>>)
                /\ wpc' = [wpc EXCEPT ![w] = "got"]
                /\ wenv' = [wenv EXCEPT ![w] = Head(queue[p])]
                /\ PollEnd(w)
             \/ /\ r.ok /\ queue[p] = <<>> /\ ~LastList(widx[w])
                /\ widx' = [widx EXCEPT ![w] = @ + 1]
                /\ UNCHANGED <<wpc, wenv, seen>>
             \/ /\ ~r.ok \/ (queue[p] = <<>> /\ LastList(widx[w]))
                /\ Release(w, "idle")
                /\ PollEnd(w)
    BY <1>2 DEF Dequeue
  <2> HIDE DEF p
  <2>3. queue' \in [Priorities -> Seq(Envelope)]
    BY <2>1, <2>2, QueueTypes DEF TypeOK
  <2>4. queue[p] # <<>> => Head(queue[p]) \in Envelope
    BY <2>1, QueueTypes
  <2>5. faults' \in 0 .. MaxFaults
    BY <2>2, ReplyType DEF TypeOK
  <2>6. wpc[w] = "poll" /\ UNCHANGED <<dead, meta, producer, retries, stops, runs, succeeded>>
    BY <1>2 DEF Dequeue
  <2>7. CASE queue[p] # <<>> /\ wpc' = [wpc EXCEPT ![w] = "got"]
             /\ wenv' = [wenv EXCEPT ![w] = Head(queue[p])] /\ PollEnd(w)
    <3>1. wenv[w]' \in Envelope /\ wpc[w]' = "got"
      BY <2>4, <2>7 DEF TypeOK
    <3>2. wpc' \in [Workers -> WorkerPc] /\ wenv' \in [Workers -> Envelope \cup {NoEnv}]
      BY <2>4, <2>7 DEF TypeOK
    <3>3. widx' \in [Workers -> 0 .. Len(PriorityOrder)] /\ seen' \in [Workers -> SUBSET Envelope]
      BY <2>7, OrderLen DEF TypeOK, PollEnd
    <3>4. TypeOK'
      BY <2>3, <2>5, <2>6, <3>2, <3>3 DEF TypeOK
    <3>5. HandInv'
      BY <2>7, <3>1 DEF TypeOK, HandInv, PollEnd
    <3>6. QED BY <3>4, <3>5
  <2>8. CASE ~LastList(widx[w]) /\ widx' = [widx EXCEPT ![w] = @ + 1]
             /\ UNCHANGED <<wpc, wenv, seen>>
    <3>1. widx[w] \in 1 .. 4 /\ widx[w] # 4
      BY <2>6, <2>8, OrderLen DEF HandInv, LastList
    <3>2. widx' \in [Workers -> 0 .. 4] /\ widx'[w] \in 1 .. 4
      BY <2>8, <3>1, OrderLen DEF TypeOK
    <3>3. TypeOK'
      BY <2>3, <2>5, <2>6, <2>8, <3>2, OrderLen DEF TypeOK
    <3>4. HandInv'
      BY <2>8, <3>2, OrderLen DEF TypeOK, HandInv
    <3>5. QED BY <3>3, <3>4
  <2>9. CASE Release(w, "idle") /\ PollEnd(w)
    BY <2>3, <2>5, <2>6, <2>9, OrderLen DEF TypeOK, HandInv, PollEnd, Release
  <2>10. QED BY <2>2, <2>7, <2>8, <2>9
<1>3. QED BY <1>1, <1>2 DEF Poll

LEMMA TypeProcess ==
    ASSUME TypeInv, NEW w \in Workers, ProcessJob(w)
    PROVE  TypeInv'
<1> USE DEF TypeInv, history, redis, local
<1>a. wpc[w] \in {"got", "exec", "ok", "fail", "timedout", "deadmark"} =>
        wenv[w].job \in Jobs /\ wenv[w].attempt \in Nat /\ wenv[w].attempt + 1 \in Nat
  BY DEF HandInv, Envelope
<1>1. CASE MarkRunning(w)
  <2>1. PICK r \in Replies :
          /\ Count(r)
          /\ UpdateStatus(r, wenv[w].job, "running", wenv[w].attempt + 1, {})
    BY <1>1 DEF MarkRunning
  <2>2. meta' \in [Jobs -> Meta] /\ faults' \in 0 .. MaxFaults
    BY <1>1, <1>a, <2>1, MetaTypes, ReplyType DEF MarkRunning, TypeOK
  <2>3. runs' \in [Jobs -> Nat]
    <3>1. wenv[w].job \in Jobs
      BY <1>1, <1>a DEF MarkRunning
    <3>2. runs' = runs \/ runs' = [runs EXCEPT ![wenv[w].job] = @ + 1]
      BY <1>1 DEF MarkRunning
    <3>3. \A j \in Jobs : [runs EXCEPT ![j] = @ + 1] \in [Jobs -> Nat]
      BY DEF TypeOK
    <3>4. runs \in [Jobs -> Nat]
      BY DEF TypeOK
    <3>5. QED BY <3>1, <3>2, <3>3, <3>4, Zenon
  <2>4. QED BY <1>1, <2>2, <2>3 DEF MarkRunning, TypeOK, HandInv, Release
<1>2. CASE HandlerOk(w)
  BY <1>2, <1>a DEF HandlerOk, TypeOK, HandInv
<1>3. CASE HandlerErr(w)
  BY <1>3 DEF HandlerErr, HandlerFails, TypeOK, HandInv
<1>4. CASE HandlerTimeout(w)
  BY <1>4 DEF HandlerTimeout, HandlerFails, TypeOK, HandInv
<1>5. CASE HandlerPanic(w)
  BY <1>5, BoundsAssumption DEF HandlerPanic, TypeOK, HandInv, Release
<1>6. CASE MarkCompleted(w)
  <2>1. PICK r \in Replies :
          /\ Count(r)
          /\ UpdateStatus(r, wenv[w].job, "completed", wenv[w].attempt + 1, {})
    BY <1>6 DEF MarkCompleted
  <2>2. meta' \in [Jobs -> Meta] /\ faults' \in 0 .. MaxFaults
    BY <1>6, <1>a, <2>1, MetaTypes, ReplyType DEF MarkCompleted, TypeOK
  <2>3. QED BY <1>6, <2>2 DEF MarkCompleted, TypeOK, HandInv, Release
<1>7. CASE ScheduleRetry(w)
  <2>1. [proc |-> w, env |-> wenv[w], pc |-> "sleep"] \in RetryTask
    BY <1>7 DEF ScheduleRetry, Failed, HandInv, RetryTask
  <2>2. QED BY <1>7, <2>1 DEF ScheduleRetry, TypeOK, HandInv, Release
<1>8. CASE DeadPush(w)
  <2>1. PICK r \in Replies : Count(r)
    BY <1>8 DEF DeadPush
  <2>2. dead' \in Seq(DeadLetter)
    <3> DEFINE d == [job |-> wenv[w].job, attempts |-> wenv[w].attempt]
    <3>1. d \in DeadLetter
      BY <1>8, <1>a DEF DeadPush, Failed, DeadLetter
    <3>2. dead' = Append(dead, d) \/ dead' = dead
      BY <1>8 DEF DeadPush
    <3>3. dead \in Seq(DeadLetter)
      BY DEF TypeOK
    <3> HIDE DEF d
    <3>4. QED BY <3>1, <3>2, <3>3
  <2>3. faults' \in 0 .. MaxFaults
    BY <2>1, ReplyType DEF TypeOK
  <2>4. QED BY <1>8, <2>2, <2>3 DEF DeadPush, Failed, TypeOK, HandInv, Release
<1>9. CASE DeadMark(w)
  <2>1. PICK r \in Replies :
          /\ Count(r)
          /\ UpdateStatus(r, wenv[w].job, "failed", wenv[w].attempt, {"error"})
    BY <1>9 DEF DeadMark
  <2>2. meta' \in [Jobs -> Meta] /\ faults' \in 0 .. MaxFaults
    BY <1>9, <1>a, <2>1, MetaTypes, ReplyType DEF DeadMark, TypeOK
  <2>3. QED BY <1>9, <2>2 DEF DeadMark, TypeOK, HandInv, Release
<1>10. QED
  BY <1>1, <1>2, <1>3, <1>4, <1>5, <1>6, <1>7, <1>8, <1>9 DEF ProcessJob

LEMMA TypeRetry ==
    ASSUME TypeInv, NEW t \in retries, Retry(t)
    PROVE  TypeInv'
<1> USE DEF TypeInv, history, redis, local
<1>a. t \in RetryTask /\ t.env \in Envelope /\ t.env.job \in Jobs /\ t.env.attempt \in Nat
  BY DEF TypeOK, RetryTask, Envelope
<1>1. CASE RequeuePush(t)
  <2> DEFINE env == [t.env EXCEPT !.attempt = @ + 1]
  <2>1. env \in Envelope
    BY <1>a DEF Envelope
  <2>2. PICK r \in Replies :
          /\ Count(r)
          /\ queue' = IF r.applied THEN Pushed(env) ELSE queue
          /\ retries' = (retries \ {t}) \union
                        (IF r.ok THEN {[t EXCEPT !.env = env, !.pc = "mark"]} ELSE {})
    BY <1>1 DEF RequeuePush
  <2>3. [t EXCEPT !.env = env, !.pc = "mark"] \in RetryTask
    BY <1>a, <2>1 DEF RetryTask
  <2> HIDE DEF env
  <2>4. queue' \in [Priorities -> Seq(Envelope)] /\ faults' \in 0 .. MaxFaults
    BY <2>1, <2>2, QueueTypes, ReplyType DEF TypeOK
  <2>5. retries' \subseteq RetryTask
    BY <2>2, <2>3 DEF TypeOK
  <2>6. QED BY <1>1, <2>4, <2>5 DEF RequeuePush, TypeOK, HandInv
<1>2. CASE RequeueMark(t)
  <2>1. PICK r \in Replies :
          /\ Count(r)
          /\ UpdateStatus(r, t.env.job, "pending", t.env.attempt, {})
    BY <1>2 DEF RequeueMark
  <2>2. meta' \in [Jobs -> Meta] /\ faults' \in 0 .. MaxFaults
    BY <1>a, <2>1, MetaTypes, ReplyType DEF TypeOK
  <2>3. QED BY <1>2, <2>2 DEF RequeueMark, TypeOK, HandInv
<1>3. QED BY <1>1, <1>2 DEF Retry

LEMMA TypeLifecycle ==
    ASSUME TypeInv, NEW w \in Workers, Process(w)
    PROVE  TypeInv'
<1> USE DEF TypeInv, history, redis, local, TypeOK, HandInv, Release, PollEnd
<1>1. CASE Shutdown(w)
  BY <1>1, BoundsAssumption DEF Shutdown
<1>2. CASE Exit(w)
  BY <1>2 DEF Exit
<1>3. CASE Crash(w)
  BY <1>3, BoundsAssumption, OrderLen DEF Crash
<1>4. CASE Start(w)
  BY <1>4 DEF Start
<1>5. QED BY <1>1, <1>2, <1>3, <1>4 DEF Process

LEMMA TypeStep == TypeInv /\ [Next]_vars => TypeInv'
<1> SUFFICES ASSUME TypeInv, [Next]_vars PROVE TypeInv'
  OBVIOUS
<1>1. CASE UNCHANGED vars
  BY <1>1 DEF vars, TypeInv, TypeOK, HandInv
<1>2. CASE Next
  BY <1>2, TypeEnqueue, TypePoll, TypeProcess, TypeRetry, TypeLifecycle DEF Next
<1>3. QED BY <1>1, <1>2

\* Every reachable state of the job queue is well typed, and a Worker holds
\* an envelope exactly while process_job is running.
THEOREM TypeCorrect == Spec => []TypeOK
<1>1. Spec => []TypeInv
  BY TypeInit, TypeStep, PTL DEF Spec
<1>2. TypeInv => TypeOK
  BY DEF TypeInv
<1>3. QED BY <1>1, <1>2, PTL

-----------------------------------------------------------------------------
(* The safety invariant JobInv. *)

NotQueued(j) == \A p \in Priorities : \A i \in DOMAIN queue[p] : queue[p][i].job # j

\* What RPUSH and LPOP do to the positions of the lists.
LEMMA PushEffect ==
    ASSUME TypeOK, NEW env \in Envelope
    PROVE  LET p == JobPriority[env.job] IN
           /\ p \in Priorities
           /\ \A q \in Priorities : q # p => Pushed(env)[q] = queue[q]
           /\ DOMAIN queue[p] = 1 .. Len(queue[p]) /\ Len(queue[p]) \in Nat
           /\ DOMAIN Pushed(env)[p] = 1 .. Len(queue[p]) + 1
           /\ \A i \in 1 .. Len(queue[p]) : Pushed(env)[p][i] = queue[p][i]
           /\ Pushed(env)[p][Len(queue[p]) + 1] = env
<1> DEFINE p == JobPriority[env.job]
           s == queue[p]
<1>1. p \in Priorities
  BY PriorityAssumption DEF Envelope
<1>2. s \in Seq(Envelope)
  BY <1>1 DEF TypeOK
<1>3. /\ DOMAIN s = 1 .. Len(s) /\ Len(s) \in Nat
      /\ DOMAIN Append(s, env) = 1 .. Len(s) + 1
      /\ \A i \in 1 .. Len(s) : Append(s, env)[i] = s[i]
      /\ Append(s, env)[Len(s) + 1] = env
  BY <1>2
<1>4. Pushed(env)[p] = Append(s, env) /\ \A q \in Priorities : q # p => Pushed(env)[q] = queue[q]
  BY <1>1 DEF Pushed, TypeOK
<1>5. QED BY <1>1, <1>3, <1>4

LEMMA PopEffect ==
    ASSUME TypeOK, NEW p \in Priorities, queue[p] # <<>>
    PROVE  /\ \A q \in Priorities : q # p => Popped(p)[q] = queue[q]
           /\ DOMAIN queue[p] = 1 .. Len(queue[p]) /\ Len(queue[p]) \in Nat \ {0}
           /\ DOMAIN Popped(p)[p] = 1 .. Len(queue[p]) - 1
           /\ \A i \in 1 .. Len(queue[p]) - 1 : Popped(p)[p][i] = queue[p][i + 1]
           /\ Head(queue[p]) = queue[p][1]
<1> DEFINE s == queue[p]
<1>2. s \in Seq(Envelope) /\ s # <<>>
  BY DEF TypeOK
<1>3. /\ DOMAIN s = 1 .. Len(s) /\ Len(s) \in Nat \ {0}
      /\ DOMAIN Tail(s) = 1 .. Len(s) - 1
      /\ \A i \in 1 .. Len(s) - 1 : Tail(s)[i] = s[i + 1]
      /\ Head(s) = s[1]
  BY <1>2
<1>4. Popped(p)[p] = Tail(s) /\ \A q \in Priorities : q # p => Popped(p)[q] = queue[q]
  BY DEF Popped, TypeOK
<1>5. QED BY <1>3, <1>4

\* A new dead letter is the last one.
LEMMA DeadEffect ==
    ASSUME TypeOK, NEW d
    PROVE  /\ DOMAIN dead = 1 .. Len(dead) /\ Len(dead) \in Nat
           /\ DOMAIN Append(dead, d) = 1 .. Len(dead) + 1
           /\ \A i \in 1 .. Len(dead) : Append(dead, d)[i] = dead[i]
           /\ Append(dead, d)[Len(dead) + 1] = d
  BY DEF TypeOK

LEMMA LimitType == \A j \in Jobs : Limit(j) \in Nat \ {0} /\ MaxRetries[j] \in Nat
  BY RetriesAssumption DEF Limit

LEMMA JobInit == Init => JobInv
  BY LimitType, NoEnvFacts DEF Init, JobInv, QueueInv, HeldInv, SleepInv, DeadInv, RunInv,
     StatusInv, Holds, Begun, NoMeta

\* A job whose enqueue call has not ended is nowhere.
LEMMA NotBegun ==
    ASSUME JobInv, NEW j, ~Begun(j)
    PROVE  NotQueued(j) /\ NotHeld(j) /\ NotSleeping(j) /\ NotDead(j)
  BY DEF JobInv, QueueInv, HeldInv, SleepInv, DeadInv, NotQueued, NotHeld,
         NotSleeping, NotDead

\* Everything in the lists, in the Workers' hands and in the retry tasks
\* is an envelope of a job.
LEMMA EnvTypes ==
    ASSUME TypeInv
    PROVE  /\ \A p \in Priorities : \A i \in DOMAIN queue[p] :
                 queue[p][i].job \in Jobs /\ queue[p][i].attempt \in Nat
           /\ \A w \in Workers : Holds(w) =>
                 wenv[w].job \in Jobs /\ wenv[w].attempt \in Nat
           /\ \A t \in retries : t.env.job \in Jobs /\ t.env.attempt \in Nat
           /\ \A i \in DOMAIN dead : dead[i].job \in Jobs
<1> USE DEF TypeInv, TypeOK
<1>1. ASSUME NEW p \in Priorities, NEW i \in DOMAIN queue[p]
      PROVE  queue[p][i].job \in Jobs /\ queue[p][i].attempt \in Nat
  <2>1. queue[p] \in Seq(Envelope)
    OBVIOUS
  <2>2. queue[p][i] \in Envelope
    BY <2>1
  <2>3. QED BY <2>2 DEF Envelope
<1>2. ASSUME NEW w \in Workers, Holds(w)
      PROVE  wenv[w].job \in Jobs /\ wenv[w].attempt \in Nat
  BY <1>2 DEF HandInv, Holds, Envelope
<1>3. ASSUME NEW t \in retries
      PROVE  t.env.job \in Jobs /\ t.env.attempt \in Nat
  BY DEF RetryTask, Envelope
<1>4. ASSUME NEW i \in DOMAIN dead
      PROVE  dead[i].job \in Jobs
  <2>1. dead[i] \in DeadLetter
    OBVIOUS
  <2>2. QED BY <2>1 DEF DeadLetter
<1>5. QED BY <1>1, <1>2, <1>3, <1>4

\* Where the jobs are and how often they ran: JobInv without the metadata.
PlaceInv == QueueInv /\ HeldInv /\ SleepInv /\ DeadInv /\ RunInv

\* No envelope appears anywhere: Workers and retry tasks keep or drop theirs.
NoNewEnvelope ==
    /\ \A k \in Jobs : Begun(k) => Begun(k)'
    /\ \A w \in Workers : Holds(w)' =>
          /\ Holds(w) /\ wenv'[w] = wenv[w]
          /\ wpc'[w] = "got" <=> wpc[w] = "got"
          /\ wpc'[w] = "ok" <=> wpc[w] = "ok"
    /\ \A t \in retries' : t.pc = "sleep" => t \in retries

LEMMA OthersFrame ==
    ASSUME TypeInv, JobInv, NoNewEnvelope, UNCHANGED <<dead, runs, succeeded>>
    PROVE  /\ \A k : /\ NotHeld(k) => NotHeld(k)'
                     /\ NotSleeping(k) => NotSleeping(k)'
                     /\ NotDead(k) => NotDead(k)'
           /\ \A k, n : RunCount(k, n) => RunCount(k, n)'
           /\ HeldInv' /\ SleepInv' /\ DeadInv' /\ RunInv'
<1> USE DEF JobInv, NoNewEnvelope
<1>a. \A k : /\ NotHeld(k) => NotHeld(k)'
             /\ NotSleeping(k) => NotSleeping(k)'
             /\ NotDead(k) => NotDead(k)'
  BY DEF NotHeld, NotSleeping, NotDead
<1>b. \A k, n : RunCount(k, n) => RunCount(k, n)'
  BY DEF RunCount
<1>2. HeldInv'
  BY <1>a, <1>b, EnvTypes DEF HeldInv
<1>3. SleepInv'
  BY <1>a, <1>b, EnvTypes DEF SleepInv
<1>4. DeadInv'
  BY <1>a, <1>b, EnvTypes DEF DeadInv
<1>5. RunInv'
  BY DEF RunInv
<1>6. QED BY <1>a, <1>b, <1>2, <1>3, <1>4, <1>5

LEMMA PlaceFrame ==
    ASSUME TypeInv, JobInv, NoNewEnvelope, UNCHANGED <<queue, dead, runs, succeeded>>
    PROVE  PlaceInv'
<1>1. QueueInv'
  BY OthersFrame, EnvTypes DEF QueueInv, JobInv, NoNewEnvelope
<1>2. QED BY <1>1, OthersFrame DEF PlaceInv

\* A status update can only make StatusInv false if it writes an outcome.
LEMMA StatusFrame ==
    ASSUME TypeInv, StatusInv,
           succeeded \subseteq succeeded',
           \A k : ~NotDead(k) => ~NotDead(k)',
           \A k \in Jobs : \/ meta'[k] = meta[k]
                           \/ meta'[k].status \in {"none", "pending", "running"}
                           \/ meta'[k].status = "completed" /\ k \in succeeded
                           \/ meta'[k].status = "failed" /\ ~NotDead(k),
           \A w \in Workers : wpc'[w] = "deadmark" =>
               \/ wpc[w] = "deadmark" /\ wenv'[w] = wenv[w]
               \/ ~NotDead(wenv[w].job)'
    PROVE  StatusInv'
<1>1. ASSUME NEW k \in Jobs
      PROVE  /\ meta'[k].status = "completed" => k \in succeeded'
             /\ meta'[k].status = "failed" => ~NotDead(k)'
  BY DEF StatusInv
<1>2. ASSUME NEW w \in Workers, wpc'[w] = "deadmark"
      PROVE  ~NotDead(wenv[w].job)'
  BY <1>2 DEF StatusInv
<1>3. QED BY <1>1, <1>2 DEF StatusInv

LEMMA UpdateEffect ==
    ASSUME TypeInv, NEW r \in Replies, NEW j \in Jobs, NEW s, NEW a, NEW e,
           UpdateStatus(r, j, s, a, e)
    PROVE  \A k \in Jobs : meta'[k] = meta[k] \/ (k = j /\ meta'[k].status = s)
  BY DEF UpdateStatus, Updated, TypeInv, TypeOK

\* RPUSH of an envelope keeps QueueInv if its job is queued nowhere and
\* what QueueInv says of it holds after the step.
LEMMA PushQueueInv ==
    ASSUME TypeInv, QueueInv, NoNewEnvelope, UNCHANGED <<dead, runs, succeeded>>,
           NEW env \in Envelope, queue' = Pushed(env), NotQueued(env.job),
           NotHeld(env.job)', NotSleeping(env.job)', NotDead(env.job)', Begun(env.job)',
           env.job \notin succeeded, env.attempt < Limit(env.job),
           RunCount(env.job, env.attempt)'
    PROVE  QueueInv'
<1> DEFINE p == JobPriority[env.job]
           n == Len(queue[p])
<1>1. /\ p \in Priorities /\ n \in Nat /\ DOMAIN queue[p] = 1 .. n
      /\ DOMAIN queue'[p] = 1 .. n + 1 /\ queue'[p][n + 1] = env
      /\ \A i \in 1 .. n : queue'[p][i] = queue[p][i]
      /\ \A q \in Priorities : q # p => queue'[q] = queue[q]
  BY PushEffect DEF TypeInv
<1> HIDE DEF n, p
<1>2. ASSUME NEW q \in Priorities, NEW i \in DOMAIN queue'[q]
      PROVE  \/ i \in DOMAIN queue[q] /\ queue'[q][i] = queue[q][i]
             \/ q = p /\ i = n + 1 /\ queue'[q][i] = env
  BY <1>1, <1>2
<1>3. ASSUME NEW q \in Priorities, NEW i \in DOMAIN queue'[q],
             NEW k \in DOMAIN queue'[q], queue'[q][k].job = queue'[q][i].job
      PROVE  k = i
  BY <1>2, <1>3 DEF QueueInv, NotQueued
<1>4. \A k : /\ NotHeld(k) => NotHeld(k)'
             /\ NotSleeping(k) => NotSleeping(k)'
             /\ NotDead(k) => NotDead(k)'
  BY DEF NotHeld, NotSleeping, NotDead, NoNewEnvelope
<1>5. \A k, m : RunCount(k, m) => RunCount(k, m)'
  BY DEF RunCount
<1>6. ASSUME NEW q \in Priorities, NEW i \in DOMAIN queue'[q],
             NEW j, NEW a, queue'[q][i].job = j, queue'[q][i].attempt = a
      PROVE  /\ JobPriority[j] = q
             /\ NotHeld(j)' /\ NotSleeping(j)' /\ NotDead(j)' /\ Begun(j)'
             /\ j \notin succeeded /\ a < Limit(j)
             /\ RunCount(j, a)'
  <2>1. CASE i \in DOMAIN queue[q] /\ queue'[q][i] = queue[q][i]
    <3>1. /\ JobPriority[j] = q
          /\ NotHeld(j) /\ NotSleeping(j) /\ NotDead(j) /\ Begun(j)
          /\ j \notin succeeded /\ a < Limit(j) /\ RunCount(j, a)
      BY <1>6, <2>1 DEF QueueInv
    <3>2. j \in Jobs
      BY <1>6, <2>1, EnvTypes
    <3>3. QED BY <3>1, <3>2, <1>4, <1>5 DEF NoNewEnvelope
  <2>2. CASE q = p /\ i = n + 1 /\ queue'[q][i] = env
    <3>1. j = env.job /\ a = env.attempt
      BY <1>6, <2>2
    <3>2. QED BY <2>2, <3>1 DEF p
  <2>3. QED BY <1>2, <2>1, <2>2
<1>7. QED BY <1>3, <1>6 DEF QueueInv

LEMMA JobEnqueue ==
    ASSUME TypeInv, JobInv, NEW j \in Jobs,
           Enqueue(j) \/ ProducerDies(j) \/ Lapse(j)
    PROVE  JobInv'
<1> USE DEF history, redis, local
<1>1. CASE ~EnqueuePush(j)
  <2>1. UNCHANGED <<queue, dead, wpc, wenv, retries, runs, succeeded>>
    BY <1>1 DEF Enqueue, EnqueueStore, EnqueueExpire, ProducerDies, Lapse
  <2>2. \A k \in Jobs : Begun(k) => Begun(k)'
    BY <1>1 DEF Enqueue, EnqueueStore, EnqueueExpire, ProducerDies, Lapse, Begun, TypeInv, TypeOK
  <2>3. NoNewEnvelope
    BY <2>1, <2>2 DEF NoNewEnvelope, Holds
  <2>4. PlaceInv'
    BY <2>1, <2>3, PlaceFrame
  <2>5. \A k \in Jobs : \/ meta'[k] = meta[k]
                        \/ meta'[k].status \in {"none", "pending", "running"}
                        \/ meta'[k].has = meta[k].has \union {"ttl"} /\ meta'[k].status = meta[k].status
    BY <1>1 DEF Enqueue, EnqueueStore, EnqueueExpire, ProducerDies, Lapse, NoMeta, TypeInv, TypeOK, Meta
  <2>6. StatusInv'
    BY <2>1, <2>5 DEF StatusInv, JobInv, NotDead
  <2>7. QED BY <2>4, <2>6 DEF PlaceInv, JobInv
<1>2. CASE EnqueuePush(j)
  <2> DEFINE env == [job |-> j, attempt |-> 0]
             p == JobPriority[j]
  <2>1. env \in Envelope /\ env.job = j /\ env.attempt = 0
    BY DEF Envelope
  <2>2. ~Begun(j) /\ Begun(j)' /\ \A k \in Jobs : Begun(k) => Begun(k)'
    BY <1>2 DEF EnqueuePush, Begun, TypeInv, TypeOK
  <2>3. NotQueued(j) /\ NotHeld(j) /\ NotSleeping(j) /\ NotDead(j)
    BY <2>2, NotBegun
  <2>4. UNCHANGED <<dead, meta, wpc, wenv, retries, runs, succeeded>>
    BY <1>2 DEF EnqueuePush
  <2>5. NoNewEnvelope
    BY <2>2, <2>4 DEF NoNewEnvelope, Holds
  <2>6. StatusInv'
    BY <2>4 DEF StatusInv, JobInv, NotDead
  <2>7. CASE queue' = queue
    BY <2>4, <2>5, <2>6, <2>7, PlaceFrame DEF PlaceInv, JobInv
  <2>8. CASE queue' = Pushed(env)
    <3> HIDE DEF env
    <3>1. RunCount(j, 0) /\ 0 < Limit(j) /\ j \notin succeeded
      BY <2>2, LimitType DEF JobInv, RunInv, RunCount, TypeInv, TypeOK
    <3>2. QueueInv'
      <4>1. QueueInv /\ TypeOK
        BY DEF JobInv, TypeInv
      <4>2. NotHeld(j)' /\ NotSleeping(j)' /\ NotDead(j)' /\ RunCount(j, 0)'
        BY <2>3, <2>4, <3>1 DEF NotHeld, NotSleeping, NotDead, Holds, RunCount
      <4>3. QED BY <2>1, <2>2, <2>3, <2>4, <2>5, <2>8, <3>1, <4>1, <4>2, PushQueueInv
    <3>3. HeldInv' /\ SleepInv' /\ DeadInv' /\ RunInv'
      BY <2>2, <2>4, EnvTypes DEF HeldInv, SleepInv, DeadInv, RunInv, JobInv, NotHeld, NotSleeping, NotDead, Holds, RunCount
    <3>4. QED BY <2>6, <3>2, <3>3 DEF JobInv
  <2>9. QED BY <1>2, <2>7, <2>8 DEF EnqueuePush
<1>3. QED BY <1>1, <1>2

\* LPOP keeps QueueInv, also when a Worker takes the popped envelope.
LEMMA PopQueueInv ==
    ASSUME TypeInv, QueueInv, NEW p \in Priorities, queue[p] # <<>>,
           queue' = Popped(p),
           UNCHANGED <<dead, runs, succeeded, retries, producer>>,
           \A k : k # queue[p][1].job /\ NotHeld(k) => NotHeld(k)'
    PROVE  QueueInv' /\ \A j : j = queue[p][1].job => NotQueued(j)'
<1> DEFINE n == Len(queue[p])
           top == queue[p][1].job
<1>1. /\ n \in Nat \ {0} /\ DOMAIN queue[p] = 1 .. n
      /\ DOMAIN queue'[p] = 1 .. n - 1
      /\ \A i \in 1 .. n - 1 : queue'[p][i] = queue[p][i + 1]
      /\ \A q \in Priorities : q # p => queue'[q] = queue[q]
  BY PopEffect DEF TypeInv
<1> HIDE DEF n
<1>2. ASSUME NEW q \in Priorities, NEW i \in DOMAIN queue'[q]
      PROVE  \E k \in DOMAIN queue[q] :
               /\ queue'[q][i] = queue[q][k]
               /\ k = (IF q = p THEN i + 1 ELSE i)
  BY <1>1, <1>2
<1>3. 1 \in DOMAIN queue[p]
  BY <1>1
<1>4. ASSUME NEW q \in Priorities, NEW i \in DOMAIN queue'[q] PROVE queue'[q][i].job # top
  <2>1. PICK k \in DOMAIN queue[q] : /\ queue'[q][i] = queue[q][k]
                                     /\ k = (IF q = p THEN i + 1 ELSE i)
    BY <1>2, <1>4
  <2>2. CASE q = p
    <3>1. k # 1
      BY <1>1, <1>4, <2>1, <2>2
    <3>2. QED BY <1>3, <2>1, <2>2, <3>1 DEF QueueInv
  <2>3. CASE q # p
    BY <1>3, <2>1, <2>3 DEF QueueInv
  <2>4. QED BY <2>2, <2>3
<1> HIDE DEF top
<1>5. ASSUME NEW q \in Priorities, NEW i \in DOMAIN queue'[q],
             NEW m \in DOMAIN queue'[q], queue'[q][m].job = queue'[q][i].job
      PROVE  m = i
  BY <1>1, <1>2, <1>5 DEF QueueInv
<1>6. ASSUME NEW q \in Priorities, NEW i \in DOMAIN queue'[q],
             NEW j, NEW a, queue'[q][i].job = j, queue'[q][i].attempt = a
      PROVE  /\ JobPriority[j] = q
             /\ NotHeld(j)' /\ NotSleeping(j)' /\ NotDead(j)' /\ Begun(j)'
             /\ j \notin succeeded /\ a < Limit(j)
             /\ RunCount(j, a)'
  <2>1. PICK k \in DOMAIN queue[q] : queue'[q][i] = queue[q][k]
    BY <1>2, <1>6
  <2>2. /\ JobPriority[j] = q
        /\ NotHeld(j) /\ NotSleeping(j) /\ NotDead(j) /\ Begun(j)
        /\ j \notin succeeded /\ a < Limit(j) /\ RunCount(j, a)
    BY <1>6, <2>1 DEF QueueInv
  <2>3. j # top
    BY <1>4, <1>6
  <2>4. NotSleeping(j)' /\ NotDead(j)' /\ Begun(j)' /\ RunCount(j, a)'
    BY <2>2 DEF NotSleeping, NotDead, Begun, RunCount
  <2>5. QED BY <2>2, <2>3, <2>4 DEF top
<1>7. QueueInv'
  BY <1>5, <1>6 DEF QueueInv
<1>8. \A j : j = top => NotQueued(j)'
  BY <1>4 DEF NotQueued
<1>9. QED BY <1>7, <1>8 DEF top

LEMMA JobPoll ==
    ASSUME TypeInv, JobInv, NEW w \in Workers, Poll(w)
    PROVE  JobInv'
<1> USE DEF history, redis, local
<1>1. CASE PollStart(w)
  <2>1. NoNewEnvelope /\ UNCHANGED <<queue, dead, meta, runs, succeeded>>
    BY <1>1 DEF PollStart, NoNewEnvelope, Holds, Begun, TypeInv, TypeOK
  <2>2. StatusInv'
    BY <1>1 DEF PollStart, StatusInv, JobInv, NotDead, TypeInv, TypeOK
  <2>3. QED BY <2>1, <2>2, PlaceFrame DEF PlaceInv, JobInv
<1>2. CASE Dequeue(w)
  <2> DEFINE p == PriorityOrder[widx[w]]
  <2>1. p \in Priorities
    BY <1>2, OrderRange DEF Dequeue, TypeInv, HandInv
  <2>2. /\ wpc[w] = "poll"
        /\ UNCHANGED <<dead, meta, producer, retries, stops, runs, succeeded>>
    BY <1>2 DEF Dequeue
  <2>3. /\ queue' = queue \/ (queue[p] # <<>> /\ queue' = Popped(p))
        /\ \/ /\ queue[p] # <<>> /\ queue' = Popped(p)
              /\ wpc' = [wpc EXCEPT ![w] = "got"]
              /\ wenv' = [wenv EXCEPT ![w] = Head(queue[p])]
           \/ UNCHANGED <<wpc, wenv>>
           \/ Release(w, "idle")
    <3>1. PICK r \in Replies :
          /\ queue' = IF r.applied /\ ~(queue[p] = <<>>) THEN Popped(p) ELSE queue
          /\ \/ /\ r.ok /\ ~(queue[p] = <<>>)
                /\ wpc' = [wpc EXCEPT ![w] = "got"]
                /\ wenv' = [wenv EXCEPT ![w] = Head(queue[p])]
             \/ UNCHANGED <<wpc, wenv>>
             \/ Release(w, "idle")
      BY <1>2 DEF Dequeue
    <3>2. r.ok => r.applied
      BY ReplyOk
    <3> HIDE DEF p
    <3>3. QED BY <3>1, <3>2
  <2> HIDE DEF p
  <2>4. StatusInv'
    <3>1. wpc \in [Workers -> WorkerPc] /\ wenv \in [Workers -> Envelope \union {NoEnv}]
      BY DEF TypeInv, TypeOK
    <3>2. \A v \in Workers : wpc'[v] = "deadmark" => wpc[v] = "deadmark" /\ wenv'[v] = wenv[v]
      BY <2>2, <2>3, <3>1 DEF Release
    <3>3. QED BY <2>2, <3>2 DEF StatusInv, JobInv, NotDead
  <2>5. CASE UNCHANGED <<wpc, wenv>> \/ Release(w, "idle")
    <3>1. NoNewEnvelope
      BY <2>2, <2>5 DEF NoNewEnvelope, Holds, Begun, Release, TypeInv, TypeOK
    <3>2. \A k : NotHeld(k) => NotHeld(k)'
      BY <2>2, <3>1, OthersFrame
    <3>3. QueueInv'
      <4>1. CASE queue' = queue
        BY <2>2, <3>1, <4>1, PlaceFrame DEF PlaceInv
      <4>2. CASE queue[p] # <<>> /\ queue' = Popped(p)
        BY <2>1, <2>2, <3>2, <4>2, PopQueueInv DEF JobInv
      <4>3. QED BY <2>3, <4>1, <4>2
    <3>4. QED BY <2>2, <2>4, <3>1, <3>3, OthersFrame DEF JobInv
  <2>6. CASE /\ queue[p] # <<>> /\ queue' = Popped(p)
             /\ wpc' = [wpc EXCEPT ![w] = "got"]
             /\ wenv' = [wenv EXCEPT ![w] = Head(queue[p])]
    <3> DEFINE env == queue[p][1]
    <3>1. /\ 1 \in DOMAIN queue[p] /\ Head(queue[p]) = env
      BY <2>1, <2>6, PopEffect DEF TypeInv
    <3>2. /\ NotHeld(env.job) /\ NotSleeping(env.job) /\ NotDead(env.job) /\ Begun(env.job)
          /\ env.job \notin succeeded /\ env.attempt < Limit(env.job)
          /\ RunCount(env.job, env.attempt)
      BY <2>1, <3>1 DEF JobInv, QueueInv
    <3>3. /\ Holds(w)' /\ wenv'[w] = env /\ wpc'[w] = "got"
          /\ \A v \in Workers : v # w => wpc'[v] = wpc[v] /\ wenv'[v] = wenv[v]
      BY <2>6, <3>1 DEF Holds, TypeInv, TypeOK
    <3> HIDE DEF env
    <3>4. \A k : k # env.job /\ NotHeld(k) => NotHeld(k)'
      BY <3>3 DEF NotHeld, Holds
    <3>5. QueueInv'
      BY <2>1, <2>2, <2>6, <3>4, PopQueueInv DEF JobInv, env
    <3>6. HeldInv'
      <4>1. ASSUME NEW v \in Workers, Holds(v)', NEW j, wenv'[v].job = j
            PROVE  /\ \A u \in Workers : Holds(u)' /\ wenv'[u].job = j => u = v
                   /\ NotSleeping(j)' /\ NotDead(j)'
                   /\ Begun(j)' /\ (j \in succeeded' <=> wpc'[v] = "ok")
                   /\ wenv'[v].attempt < Limit(j)
                   /\ \A n : n = (IF wpc'[v] = "got" THEN wenv'[v].attempt ELSE wenv'[v].attempt + 1)
                             => RunCount(j, n)'
        <5>1. NotSleeping(j) /\ NotDead(j) /\ Begun(j) => NotSleeping(j)' /\ NotDead(j)' /\ Begun(j)'
          BY <2>2 DEF NotSleeping, NotDead, Begun
        <5>2. \A n : RunCount(j, n) => RunCount(j, n)'
          BY <2>2 DEF RunCount
        <5>3. CASE v = w
          BY <2>2, <3>2, <3>3, <4>1, <5>1, <5>2, <5>3 DEF NotHeld, Holds
        <5>4. CASE v # w
          <6>1. Holds(v) /\ wenv[v].job = j /\ wpc'[v] = wpc[v] /\ wenv'[v] = wenv[v]
            BY <3>3, <4>1, <5>4 DEF Holds
          <6>2. j # env.job
            BY <3>2, <6>1 DEF NotHeld
          <6>3. QED BY <2>2, <3>3, <4>1, <5>1, <5>2, <6>1, <6>2 DEF JobInv, HeldInv, Holds
        <5>5. QED BY <5>3, <5>4
      <4>2. QED BY <4>1 DEF HeldInv
    <3>7. SleepInv' /\ DeadInv' /\ RunInv'
      BY <2>2 DEF JobInv, SleepInv, DeadInv, RunInv, NotDead, Begun, RunCount
    <3>8. QED BY <2>4, <3>5, <3>6, <3>7 DEF JobInv
  <2>7. QED BY <2>3, <2>5, <2>6
<1>3. QED BY <1>1, <1>2 DEF Poll

\* A held job is nowhere else.
LEMMA HeldNowhereElse ==
    ASSUME JobInv, NEW w \in Workers, Holds(w)
    PROVE  LET j == wenv[w].job IN
           /\ NotQueued(j) /\ NotSleeping(j) /\ NotDead(j)
           /\ \A v \in Workers : v # w /\ Holds(v) => wenv[v].job # j
  BY DEF JobInv, QueueInv, HeldInv, NotQueued, NotHeld

\* A Worker goes on with the envelope in its hand: the invariant is kept if
\* what it says of this envelope holds after the step.
LEMMA HandStep ==
    ASSUME TypeInv, JobInv, NEW w \in Workers, Holds(w), Holds(w)',
           NEW j, j = wenv[w].job, NEW n \in Nat,
           \A v \in Workers : v # w => wpc'[v] = wpc[v],
           UNCHANGED <<queue, dead, retries, producer, wenv>>,
           \A k : k # j => runs'[k] = runs[k] /\ (k \in succeeded' <=> k \in succeeded),
           j \in succeeded' <=> wpc'[w] = "ok",
           n = (IF wpc'[w] = "got" THEN wenv[w].attempt ELSE wenv[w].attempt + 1),
           RunCount(j, n)', runs' \in [Jobs -> Nat]
    PROVE  PlaceInv'
<1>1. /\ NotQueued(j) /\ NotSleeping(j) /\ NotDead(j) /\ Begun(j)
      /\ \A v \in Workers : v # w /\ Holds(v) => wenv[v].job # j
      /\ wenv[w].attempt < Limit(j) /\ wenv[w].attempt \in Nat /\ j \in Jobs /\ Limit(j) \in Nat
  BY HeldNowhereElse, EnvTypes, LimitType DEF JobInv, HeldInv
<1>2. \A v \in Workers : Holds(v)' <=> Holds(v)
  BY DEF Holds
<1>3. \A k : /\ NotHeld(k)' <=> NotHeld(k)
             /\ NotSleeping(k)' <=> NotSleeping(k)
             /\ NotDead(k)' <=> NotDead(k)
             /\ Begun(k)' <=> Begun(k)
  BY <1>2 DEF NotHeld, NotSleeping, NotDead, Begun
<1>4. \A k, m : k # j => (RunCount(k, m)' <=> RunCount(k, m))
  BY DEF RunCount
<1>5. QueueInv'
  BY <1>1, <1>3, <1>4 DEF JobInv, QueueInv, NotQueued
<1>6. HeldInv'
  <2>1. ASSUME NEW v \in Workers, Holds(v), NEW k, k = wenv[v].job
        PROVE  /\ \A u \in Workers : Holds(u)' /\ wenv[u].job = k => u = v
               /\ NotSleeping(k)' /\ NotDead(k)'
               /\ Begun(k)' /\ (k \in succeeded' <=> wpc'[v] = "ok")
               /\ wenv[v].attempt < Limit(k)
               /\ \A m : m = (IF wpc'[v] = "got" THEN wenv[v].attempt ELSE wenv[v].attempt + 1)
                         => RunCount(k, m)'
    <3>1. CASE v = w
      BY <1>1, <1>2, <1>3, <2>1, <3>1
    <3>2. CASE v # w
      BY <1>1, <1>2, <1>3, <1>4, <2>1, <3>2 DEF JobInv, HeldInv
    <3>3. QED BY <3>1, <3>2
  <2>2. QED BY <1>2, <2>1 DEF HeldInv
<1>7. SleepInv'
  BY <1>1, <1>3, <1>4 DEF JobInv, SleepInv, NotSleeping
<1>8. DeadInv'
  BY <1>1, <1>3, <1>4 DEF JobInv, DeadInv, NotDead
<1>9. RunInv'
  <2>1. runs'[j] <= Limit(j)
    BY <1>1 DEF RunCount
  <2>2. QED BY <1>1, <1>3, <2>1 DEF JobInv, RunInv
<1>10. QED BY <1>5, <1>6, <1>7, <1>8, <1>9 DEF PlaceInv

LEMMA JobRun ==
    ASSUME TypeInv, JobInv, NEW w \in Workers,
           MarkRunning(w) \/ HandlerOk(w) \/ HandlerErr(w) \/ HandlerTimeout(w)
    PROVE  JobInv'
<1> USE DEF history, redis, local
<1>a. Holds(w)
  BY DEF MarkRunning, HandlerOk, HandlerErr, HandlerTimeout, HandlerFails, Holds
<1>c. PICK j \in Jobs, a \in Nat : j = wenv[w].job /\ a = wenv[w].attempt
  BY <1>a, EnvTypes
<1>b. /\ a < Limit(j) /\ (j \in succeeded <=> wpc[w] = "ok")
      /\ RunCount(j, IF wpc[w] = "got" THEN a ELSE a + 1)
      /\ j \in Jobs /\ a \in Nat /\ runs[j] \in Nat
      /\ runs \in [Jobs -> Nat] /\ wpc \in [Workers -> WorkerPc]
  BY <1>a, <1>c DEF JobInv, HeldInv, TypeInv, TypeOK
<1>1. CASE MarkRunning(w)
  <2>1. PICK r \in Replies : UpdateStatus(r, j, "running", a + 1, {})
    BY <1>1, <1>c DEF MarkRunning
  <2>2. UNCHANGED <<queue, dead, producer, retries, succeeded>>
    BY <1>1 DEF MarkRunning
  <2>3. \A v \in Workers : wpc'[v] = "deadmark" => wpc[v] = "deadmark" /\ wenv'[v] = wenv[v]
    BY <1>1, <1>b DEF MarkRunning, Release, TypeInv, TypeOK
  <2>4. StatusInv'
    <3>1. \A k \in Jobs : meta'[k] = meta[k] \/ meta'[k].status = "running"
      BY <1>b, <2>1, UpdateEffect
    <3>2. QED BY <2>2, <2>3, <3>1 DEF StatusInv, JobInv, NotDead
  <2>5. CASE Release(w, "idle") /\ UNCHANGED runs
    <3>1. NoNewEnvelope
      BY <1>b, <2>2, <2>5 DEF NoNewEnvelope, Release, Holds, Begun, TypeInv, TypeOK
    <3>2. QED BY <2>2, <2>4, <2>5, <3>1, PlaceFrame DEF PlaceInv, JobInv
  <2>6. CASE /\ j \in Registered /\ wpc' = [wpc EXCEPT ![w] = "exec"]
             /\ runs' = [runs EXCEPT ![j] = @ + 1] /\ UNCHANGED wenv
    <3>1. runs'[j] = runs[j] + 1 /\ runs' \in [Jobs -> Nat] /\ \A k : k # j => runs'[k] = runs[k]
      BY <1>b, <2>6
    <3>2. wpc[w] = "got"
      BY <1>1 DEF MarkRunning
    <3>3. \A k : k = j => RunCount(k, a + 1)'
      BY <1>b, <2>6, <3>1, <3>2 DEF RunCount
    <3>4. wpc'[w] = "exec" /\ Holds(w)' /\ \A v \in Workers : v # w => wpc'[v] = wpc[v]
      BY <1>b, <2>6 DEF Holds
    <3>5. PlaceInv'
      <4>1. a + 1 \in Nat /\ a + 1 = (IF wpc'[w] = "got" THEN wenv[w].attempt ELSE wenv[w].attempt + 1)
        BY <1>c, <3>4
      <4>2. /\ \A k : k # j => runs'[k] = runs[k] /\ (k \in succeeded' <=> k \in succeeded)
            /\ j \in succeeded' <=> wpc'[w] = "ok"
            /\ RunCount(j, a + 1)' /\ runs' \in [Jobs -> Nat]
            /\ UNCHANGED <<queue, dead, retries, producer, wenv>>
        BY <1>b, <2>2, <2>6, <3>1, <3>2, <3>3, <3>4
      <4>3. QED BY <1>a, <1>c, <3>4, <4>1, <4>2, HandStep
    <3>6. QED BY <2>4, <3>5 DEF PlaceInv, JobInv
  <2>7. CASE /\ j \notin Registered /\ wpc' = [wpc EXCEPT ![w] = "fail"]
             /\ UNCHANGED <<wenv, runs>>
    <3>2. wpc[w] = "got"
      BY <1>1 DEF MarkRunning
    <3>3. \A k : k = j => RunCount(k, a + 1)'
      BY <1>b, <2>7, <3>2 DEF RunCount
    <3>4. wpc'[w] = "fail" /\ Holds(w)' /\ \A v \in Workers : v # w => wpc'[v] = wpc[v]
      BY <1>b, <2>7 DEF Holds
    <3>5. PlaceInv'
      <4>1. a + 1 \in Nat /\ a + 1 = (IF wpc'[w] = "got" THEN wenv[w].attempt ELSE wenv[w].attempt + 1)
        BY <1>c, <3>4
      <4>2. /\ \A k : k # j => runs'[k] = runs[k] /\ (k \in succeeded' <=> k \in succeeded)
            /\ j \in succeeded' <=> wpc'[w] = "ok"
            /\ RunCount(j, a + 1)' /\ runs' \in [Jobs -> Nat]
            /\ UNCHANGED <<queue, dead, retries, producer, wenv>>
        BY <1>b, <2>2, <2>7, <3>2, <3>3, <3>4
      <4>3. QED BY <1>a, <1>c, <3>4, <4>1, <4>2, HandStep
    <3>6. QED BY <2>4, <3>5 DEF PlaceInv, JobInv
  <2>8. QED BY <1>1, <1>c, <2>5, <2>6, <2>7 DEF MarkRunning
<1>2. CASE HandlerOk(w)
  <2>1. /\ wpc[w] = "exec" /\ wpc' = [wpc EXCEPT ![w] = "ok"]
        /\ succeeded' = succeeded \union {j}
        /\ UNCHANGED <<queue, dead, meta, producer, wenv, retries, runs>>
    BY <1>2, <1>c DEF HandlerOk
  <2>2. StatusInv'
    BY <1>b, <2>1 DEF StatusInv, JobInv, NotDead
  <2>3. wpc'[w] = "ok" /\ Holds(w)' /\ \A v \in Workers : v # w => wpc'[v] = wpc[v]
    BY <1>b, <2>1 DEF Holds
  <2>4. \A k : k = j => RunCount(k, a + 1)'
    BY <1>b, <2>1 DEF RunCount
  <2>5. PlaceInv'
    <3>1. a + 1 \in Nat /\ a + 1 = (IF wpc'[w] = "got" THEN wenv[w].attempt ELSE wenv[w].attempt + 1)
      BY <1>c, <2>3
    <3>2. /\ \A k : k # j => runs'[k] = runs[k] /\ (k \in succeeded' <=> k \in succeeded)
          /\ j \in succeeded' <=> wpc'[w] = "ok"
          /\ RunCount(j, a + 1)' /\ runs' \in [Jobs -> Nat]
          /\ UNCHANGED <<queue, dead, retries, producer, wenv>>
      BY <1>b, <2>1, <2>3, <2>4
    <3>3. QED BY <1>a, <1>c, <2>3, <3>1, <3>2, HandStep
  <2>6. QED BY <2>2, <2>5 DEF PlaceInv, JobInv
<1>3. CASE HandlerErr(w) \/ HandlerTimeout(w)
  <2>1. /\ wpc[w] = "exec"
        /\ wpc' = [wpc EXCEPT ![w] = "fail"] \/ wpc' = [wpc EXCEPT ![w] = "timedout"]
        /\ UNCHANGED <<queue, dead, meta, producer, wenv, retries, runs, succeeded>>
    BY <1>3 DEF HandlerErr, HandlerTimeout, HandlerFails
  <2>2. NoNewEnvelope
    BY <1>b, <2>1 DEF NoNewEnvelope, Holds, Begun
  <2>3. StatusInv'
    BY <1>b, <2>1 DEF StatusInv, JobInv, NotDead
  <2>4. QED BY <2>1, <2>2, <2>3, PlaceFrame DEF PlaceInv, JobInv
<1>4. QED BY <1>1, <1>2, <1>3

LEMMA JobFinish ==
    ASSUME TypeInv, JobInv, NEW w \in Workers,
           HandlerPanic(w) \/ MarkCompleted(w) \/ DeadMark(w)
    PROVE  JobInv'
<1> USE DEF history, redis, local
<1>a. PICK j \in Jobs, a \in Nat : j = wenv[w].job /\ a = wenv[w].attempt
  BY DEF HandlerPanic, MarkCompleted, DeadMark, TypeInv, HandInv, Envelope
<1>b. PICK pc \in {"idle", "panicked"} : Release(w, pc)
  BY DEF HandlerPanic, MarkCompleted, DeadMark
<1>c. UNCHANGED <<queue, dead, producer, retries, runs, succeeded>>
  BY DEF HandlerPanic, MarkCompleted, DeadMark
<1>d. \A v \in Workers : \/ wpc'[v] = pc /\ v = w
                         \/ wpc'[v] = wpc[v] /\ wenv'[v] = wenv[v]
  BY <1>b DEF Release, TypeInv, TypeOK
<1>1. NoNewEnvelope
  BY <1>c, <1>d DEF NoNewEnvelope, Holds, Begun
<1>2. \A k \in Jobs : \/ meta'[k] = meta[k]
                      \/ meta'[k].status = "completed" /\ k \in succeeded
                      \/ meta'[k].status = "failed" /\ ~NotDead(k)
  <2>1. CASE HandlerPanic(w)
    BY <2>1 DEF HandlerPanic
  <2>2. CASE MarkCompleted(w)
    <3>1. PICK r \in Replies : UpdateStatus(r, j, "completed", a + 1, {})
      BY <1>a, <2>2 DEF MarkCompleted
    <3>2. j \in succeeded
      BY <1>a, <2>2 DEF MarkCompleted, Holds, JobInv, HeldInv
    <3>3. QED BY <3>1, <3>2, UpdateEffect
  <2>3. CASE DeadMark(w)
    <3>1. PICK r \in Replies : UpdateStatus(r, j, "failed", a, {"error"})
      BY <1>a, <2>3 DEF DeadMark
    <3>2. ~NotDead(j)
      BY <1>a, <2>3 DEF DeadMark, JobInv, StatusInv
    <3>3. QED BY <3>1, <3>2, UpdateEffect
  <2>4. QED BY <2>1, <2>2, <2>3
<1>3. StatusInv'
  BY <1>c, <1>d, <1>2 DEF JobInv, StatusInv, NotDead
<1>4. QED BY <1>c, <1>1, <1>3, PlaceFrame DEF PlaceInv, JobInv

\* The failed job moves from the Worker's hand to a retry task or to the
\* dead letters.
LEMMA JobFailure ==
    ASSUME TypeInv, JobInv, NEW w \in Workers, ScheduleRetry(w) \/ DeadPush(w)
    PROVE  JobInv'
<1> USE DEF history, redis, local
<1>a. Holds(w) /\ wpc[w] \in {"fail", "timedout"}
  BY DEF ScheduleRetry, DeadPush, Failed, Holds
<1>b. PICK j \in Jobs, a \in Nat : j = wenv[w].job /\ a = wenv[w].attempt
  BY <1>a, EnvTypes
<1>c. /\ NotQueued(j) /\ NotSleeping(j) /\ NotDead(j) /\ Begun(j) /\ j \notin succeeded
      /\ \A v \in Workers : v # w /\ Holds(v) => wenv[v].job # j
      /\ a < Limit(j) /\ RunCount(j, a + 1)
  BY <1>a, <1>b, HeldNowhereElse DEF JobInv, HeldInv
<1>d. UNCHANGED <<queue, meta, producer, runs, succeeded>>
  BY DEF ScheduleRetry, DeadPush
<1>e. PICK pc \in {"idle", "deadmark"} : wpc' = [wpc EXCEPT ![w] = pc]
  BY DEF ScheduleRetry, DeadPush, Release
<1>f. \A v \in Workers : v # w => wpc'[v] = wpc[v] /\ wenv'[v] = wenv[v]
  BY DEF ScheduleRetry, DeadPush, Release, TypeInv, TypeOK
<1>g. \A v \in Workers : Holds(v)' <=> (v # w /\ Holds(v))
  BY <1>e DEF Holds, TypeInv, TypeOK
<1>h. /\ \A k : NotHeld(k) => NotHeld(k)'
      /\ NotHeld(j)'
      /\ \A k : Begun(k)' <=> Begun(k)
      /\ \A k, n : RunCount(k, n)' <=> RunCount(k, n)
  BY <1>c, <1>d, <1>f, <1>g DEF NotHeld, Begun, RunCount
<1>i. RunInv'
  BY <1>d, <1>h DEF JobInv, RunInv
<1>1. CASE ScheduleRetry(w)
  <2> DEFINE new == [proc |-> w, env |-> wenv[w], pc |-> "sleep"]
  <2>1. /\ retries' = retries \union {new} /\ dead' = dead /\ pc = "idle"
    BY <1>1, <1>e DEF ScheduleRetry, Release, TypeInv, TypeOK
  <2>2. new.env.job = j /\ new.env.attempt = a /\ new.pc = "sleep"
    BY <1>b
  <2>3. a + 1 < Limit(j)
    BY <1>1, <1>b, LimitType DEF ScheduleRetry, RetriesLeft, Limit
  <2> HIDE DEF new
  <2>4. \A k : /\ k # j /\ NotSleeping(k) => NotSleeping(k)'
               /\ NotDead(k)' <=> NotDead(k)
    BY <2>1, <2>2 DEF NotSleeping, NotDead
  <2>5. QueueInv'
    BY <1>c, <1>d, <1>h, <2>4 DEF JobInv, QueueInv, NotQueued
  <2>6. HeldInv'
    <3>1. \A v \in Workers : Holds(v)' => /\ v # w /\ Holds(v) /\ wenv'[v] = wenv[v]
                                          /\ wpc'[v] = wpc[v] /\ wenv[v].job # j
      BY <1>c, <1>f, <1>g
    <3>2. QED BY <1>d, <1>h, <2>4, <3>1 DEF JobInv, HeldInv
  <2>7. SleepInv'
    <3>1. ASSUME NEW t \in retries', t.pc = "sleep", NEW k, k = t.env.job
          PROVE  /\ \A u \in retries' : u.pc = "sleep" /\ u.env.job = k => u = t
                 /\ NotDead(k) /\ Begun(k) /\ k \notin succeeded
                 /\ t.env.attempt + 1 < Limit(k)
                 /\ RunCount(k, t.env.attempt + 1)
      <4>1. CASE t = new
        BY <1>c, <2>1, <2>2, <2>3, <3>1, <4>1 DEF NotSleeping
      <4>2. CASE t \in retries
        <5>1. k # j
          BY <1>c, <3>1, <4>2 DEF NotSleeping
        <5>2. QED BY <2>1, <2>2, <3>1, <4>2, <5>1 DEF JobInv, SleepInv
      <4>3. QED BY <2>1, <4>1, <4>2
    <3>2. QED BY <1>d, <1>h, <2>4, <3>1 DEF SleepInv
  <2>8. DeadInv'
    BY <1>d, <1>h, <2>1 DEF JobInv, DeadInv
  <2>9. StatusInv'
    BY <1>d, <1>e, <1>f, <2>1, <2>4 DEF JobInv, StatusInv, TypeInv, TypeOK
  <2>10. QED BY <1>i, <2>5, <2>6, <2>7, <2>8, <2>9 DEF JobInv
<1>2. CASE DeadPush(w)
  <2> DEFINE d == [job |-> wenv[w].job, attempts |-> wenv[w].attempt]
             n == Len(dead)
  <2>1. retries' = retries
    BY <1>2 DEF DeadPush
  <2>2. /\ dead' = Append(dead, d) \/ (dead' = dead /\ pc # "deadmark")
        /\ pc = "deadmark" => UNCHANGED wenv
    <3>1. PICK r \in Replies :
             /\ dead' = IF r.applied THEN Append(dead, d) ELSE dead
             /\ IF r.ok THEN wpc' = [wpc EXCEPT ![w] = "deadmark"] /\ UNCHANGED wenv
                        ELSE Release(w, "idle")
      BY <1>2 DEF DeadPush
    <3>2. r.ok => r.applied
      BY ReplyOk
    <3> HIDE DEF d
    <3>3. QED BY <1>e, <3>1, <3>2 DEF Release, TypeInv, TypeOK
  <2>3. d.job = j
    BY <1>b
  <2>4. RunCount(j, Limit(j))
    <3>1. ~(a + 1 < MaxRetries[j])
      BY <1>2, <1>b DEF DeadPush, RetriesLeft
    <3>2. a + 1 = Limit(j)
      BY <1>c, <3>1, LimitType DEF Limit
    <3>3. QED BY <1>c, <3>2
  <2> HIDE DEF d
  <2>5. /\ DOMAIN dead = 1 .. n /\ n \in Nat
        /\ dead' # dead => /\ DOMAIN dead' = 1 .. n + 1
                           /\ \A i \in 1 .. n : dead'[i] = dead[i]
                           /\ dead'[n + 1] = d
    BY <2>2, DeadEffect DEF TypeInv
  <2> HIDE DEF n
  <2>6. \A i \in DOMAIN dead' : \/ i \in DOMAIN dead /\ dead'[i] = dead[i]
                                \/ i = n + 1 /\ dead' # dead /\ dead'[i] = d
    BY <2>5
  <2>7. /\ \A k : k # j /\ NotDead(k) => NotDead(k)'
        /\ \A k : ~NotDead(k) => ~NotDead(k)'
        /\ dead' # dead => ~NotDead(j)'
        /\ \A k : NotSleeping(k)' <=> NotSleeping(k)
    <3>1. \A k : k # j /\ NotDead(k) => NotDead(k)'
      BY <2>3, <2>6 DEF NotDead
    <3>2. \A k : ~NotDead(k) => ~NotDead(k)'
      BY <2>5 DEF NotDead
    <3>3. dead' # dead => ~NotDead(j)'
      BY <2>3, <2>5 DEF NotDead
    <3>4. \A k : NotSleeping(k)' <=> NotSleeping(k)
      BY <2>1 DEF NotSleeping
    <3>5. QED BY <3>1, <3>2, <3>3, <3>4
  <2>8. QueueInv'
    BY <1>c, <1>d, <1>h, <2>7 DEF JobInv, QueueInv, NotQueued
  <2>9. HeldInv'
    <3>1. \A v \in Workers : Holds(v)' => /\ v # w /\ Holds(v) /\ wenv'[v] = wenv[v]
                                          /\ wpc'[v] = wpc[v] /\ wenv[v].job # j
      BY <1>c, <1>f, <1>g
    <3>2. QED BY <1>d, <1>h, <2>7, <3>1 DEF JobInv, HeldInv
  <2>10. SleepInv'
    BY <1>c, <1>d, <1>h, <2>1, <2>7 DEF JobInv, SleepInv, NotSleeping
  <2>11. DeadInv'
    <3>1. ASSUME NEW i \in DOMAIN dead', NEW k, k = dead'[i].job
          PROVE  /\ \A m \in DOMAIN dead' : dead'[m].job = k => m = i
                 /\ Begun(k) /\ k \notin succeeded /\ RunCount(k, Limit(k))
      <4>1. CASE i \in DOMAIN dead /\ dead'[i] = dead[i]
        <5>1. k # j
          BY <1>c, <3>1, <4>1 DEF NotDead
        <5>2. QED BY <2>3, <2>6, <3>1, <4>1, <5>1 DEF JobInv, DeadInv
      <4>2. CASE i = n + 1 /\ dead' # dead /\ dead'[i] = d
        BY <1>c, <2>3, <2>4, <2>6, <3>1, <4>2 DEF NotDead
      <4>3. QED BY <2>6, <4>1, <4>2
    <3>2. QED BY <1>d, <1>h, <3>1 DEF DeadInv
  <2>12. StatusInv'
    <3>1. \A v \in Workers : wpc'[v] = "deadmark" =>
              \/ wpc[v] = "deadmark" /\ wenv'[v] = wenv[v]
              \/ wenv'[v].job = j /\ ~NotDead(j)'
      BY <1>b, <1>e, <1>f, <2>2, <2>7, <2>5 DEF TypeInv, TypeOK
    <3>2. QED BY <1>d, <2>7, <3>1 DEF JobInv, StatusInv
  <2>13. QED BY <1>i, <2>8, <2>9, <2>10, <2>11, <2>12 DEF JobInv
<1>3. QED BY <1>1, <1>2

LEMMA JobRetry ==
    ASSUME TypeInv, JobInv, NEW t \in retries, Retry(t)
    PROVE  JobInv'
<1> USE DEF history, redis, local
<1>a. t.env \in Envelope /\ t.env.job \in Jobs /\ t.env.attempt \in Nat
  BY DEF TypeInv, TypeOK, RetryTask, Envelope
<1>b. UNCHANGED <<dead, producer, wpc, wenv, runs, succeeded>>
  BY DEF Retry, RequeuePush, RequeueMark
<1>1. CASE RequeueMark(t)
  <2>1. NoNewEnvelope /\ queue' = queue
    BY <1>1, <1>b DEF RequeueMark, NoNewEnvelope, Holds, Begun
  <2>2. PICK r \in Replies : UpdateStatus(r, t.env.job, "pending", t.env.attempt, {})
    BY <1>1 DEF RequeueMark
  <2>3. \A k \in Jobs : meta'[k] = meta[k] \/ meta'[k].status = "pending"
    BY <1>a, <2>2, UpdateEffect
  <2>4. StatusInv'
    BY <1>b, <2>3 DEF JobInv, StatusInv, NotDead
  <2>5. QED BY <1>b, <2>1, <2>4, PlaceFrame DEF PlaceInv, JobInv
<1>2. CASE RequeuePush(t)
  <2> DEFINE env == [t.env EXCEPT !.attempt = @ + 1]
  <2>1. env \in Envelope /\ env.job = t.env.job /\ env.attempt = t.env.attempt + 1
    BY <1>a DEF Envelope
  <2>2. PICK r \in Replies :
          /\ queue' = IF r.applied THEN Pushed(env) ELSE queue
          /\ retries' = (retries \ {t}) \union
                        (IF r.ok THEN {[t EXCEPT !.env = env, !.pc = "mark"]} ELSE {})
    BY <1>2 DEF RequeuePush
  <2>3. [t EXCEPT !.env = env, !.pc = "mark"].pc = "mark"
    BY DEF TypeInv, TypeOK, RetryTask
  <2>4. \A u \in retries' : u.pc = "sleep" => u \in retries /\ u # t
    BY <2>2, <2>3
  <2> HIDE DEF env
  <2>5. NoNewEnvelope
    BY <1>b, <2>4 DEF NoNewEnvelope, Holds, Begun
  <2>6. StatusInv'
    BY <1>2, <1>b DEF RequeuePush, JobInv, StatusInv, NotDead
  <2>7. t.pc = "sleep"
    BY <1>2 DEF RequeuePush
  <2>8. /\ NotDead(env.job) /\ Begun(env.job) /\ env.job \notin succeeded
        /\ env.attempt < Limit(env.job) /\ RunCount(env.job, env.attempt)
        /\ \A u \in retries : u.pc = "sleep" /\ u.env.job = env.job => u = t
    BY <2>1, <2>7 DEF JobInv, SleepInv
  <2>9. NotQueued(env.job) /\ NotHeld(env.job)
    BY <2>1, <2>7 DEF JobInv, QueueInv, HeldInv, NotQueued, NotHeld, NotSleeping
  <2>10. /\ NotHeld(env.job)' /\ NotSleeping(env.job)' /\ NotDead(env.job)'
         /\ Begun(env.job)' /\ RunCount(env.job, env.attempt)'
    <3>1. env.job = env.job' /\ env.attempt = env.attempt'
      BY DEF env
    <3>2. QED BY <1>b, <2>4, <2>8, <2>9, <3>1
          DEF NotHeld, NotSleeping, NotDead, Begun, RunCount, Holds
  <2>11. QueueInv'
    <3>1. CASE queue' = queue
      BY <1>b, <2>5, <3>1, PlaceFrame DEF PlaceInv
    <3>2. CASE queue' = Pushed(env)
      BY <1>b, <2>1, <2>5, <2>8, <2>9, <2>10, <3>2, PushQueueInv DEF JobInv
    <3>3. QED BY <2>2, <3>1, <3>2
  <2>12. QED BY <1>b, <2>5, <2>6, <2>11, OthersFrame DEF JobInv
<1>3. QED BY <1>1, <1>2 DEF Retry

LEMMA JobLifecycle ==
    ASSUME TypeInv, JobInv, NEW w \in Workers, Process(w)
    PROVE  JobInv'
<1> USE DEF history, redis, local
<1>1. /\ UNCHANGED <<queue, dead, meta, producer, runs, succeeded>>
      /\ retries' \subseteq retries
      /\ \E pc \in {"stopped", "down", "idle"} : wpc' = [wpc EXCEPT ![w] = pc]
      /\ \A v \in Workers : v # w => wenv'[v] = wenv[v]
  BY DEF Process, Shutdown, Exit, Crash, Start, Release, TypeInv, TypeOK
<1>2. \A v \in Workers : \/ v = w /\ wpc'[v] \in {"stopped", "down", "idle"}
                         \/ wpc'[v] = wpc[v] /\ wenv'[v] = wenv[v]
  BY <1>1 DEF TypeInv, TypeOK
<1>3. NoNewEnvelope
  BY <1>1, <1>2 DEF NoNewEnvelope, Holds, Begun
<1>4. StatusInv'
  BY <1>1, <1>2 DEF JobInv, StatusInv, NotDead
<1>5. QED BY <1>1, <1>3, <1>4, PlaceFrame DEF PlaceInv, JobInv

LEMMA JobStep == TypeInv /\ JobInv /\ [Next]_vars => JobInv'
<1> SUFFICES ASSUME TypeInv, JobInv, [Next]_vars PROVE JobInv'
  OBVIOUS
<1>1. CASE UNCHANGED vars
  <2>1. UNCHANGED <<queue, dead, meta, runs, succeeded>> /\ NoNewEnvelope
    BY <1>1 DEF vars, NoNewEnvelope, Holds, Begun
  <2>2. StatusInv'
    BY <1>1 DEF vars, JobInv, StatusInv, NotDead
  <2>3. QED BY <2>1, <2>2, PlaceFrame DEF PlaceInv, JobInv
<1>2. CASE \E j \in Jobs : Enqueue(j) \/ ProducerDies(j) \/ Lapse(j)
  BY <1>2, JobEnqueue
<1>3. CASE \E w \in Workers : Poll(w) \/ Process(w)
  BY <1>3, JobPoll, JobLifecycle
<1>4. CASE \E w \in Workers : ProcessJob(w)
  BY <1>4, JobRun, JobFinish, JobFailure DEF ProcessJob
<1>5. CASE \E t \in retries : Retry(t)
  BY <1>5, JobRetry
<1>6. QED BY <1>1, <1>2, <1>3, <1>4, <1>5 DEF Next

\* In every reachable state each job is in at most one place, and its
\* attempt counter equals the number of executions of its handler.
THEOREM JobInvariant == Spec => []JobInv
<1>1. Init => TypeInv /\ JobInv
  BY TypeInit, JobInit
<1>2. TypeInv /\ JobInv /\ [Next]_vars => (TypeInv /\ JobInv)'
  BY TypeStep, JobStep
<1>3. QED BY <1>1, <1>2, PTL DEF Spec

-----------------------------------------------------------------------------
(* The safety properties follow from the invariant. *)

\* Two processes never work on the same job, and a job is never queued,
\* held, sleeping or dead-lettered twice.
THEOREM OnePlaceCorrect == Spec => []OnePlace
<1>1. TypeOK /\ JobInv => OnePlace
  <2> SUFFICES ASSUME TypeOK, JobInv PROVE OnePlace
    OBVIOUS
  <2> USE DEF JobInv
  <2>1. \A j \in QueuedJobs : NotHeld(j) /\ NotSleeping(j) /\ NotDead(j)
    BY DEF QueuedJobs, Queued, Elements, QueueInv
  <2>2. \A j \in HeldJobs : NotSleeping(j) /\ NotDead(j) /\ ~NotHeld(j)
    BY DEF HeldJobs, HeldInv, NotHeld
  <2>3. \A j \in SleepingJobs : NotDead(j) /\ ~NotSleeping(j)
    BY DEF SleepingJobs, SleepInv, NotSleeping
  <2>4. \A j \in DeadJobs : ~NotDead(j)
    BY DEF DeadJobs, Elements, NotDead
  <2>5. /\ QueuedJobs \cap (HeldJobs \union SleepingJobs \union DeadJobs) = {}
        /\ HeldJobs \cap (SleepingJobs \union DeadJobs) = {}
        /\ SleepingJobs \cap DeadJobs = {}
    BY <2>1, <2>2, <2>3, <2>4
  <2>6. QED BY <2>5 DEF OnePlace, QueueInv, HeldInv, SleepInv, DeadInv
<1>2. QED BY <1>1, TypeCorrect, JobInvariant, PTL

\* A job whose handler returned Ok is never queued, retried or
\* dead-lettered again.
THEOREM SuccessCorrect == Spec => []SuccessIsFinal
<1>1. JobInv => SuccessIsFinal
  BY DEF JobInv, SuccessIsFinal, QueuedJobs, Queued, Elements, SleepingJobs,
         DeadJobs, QueueInv, SleepInv, DeadInv
<1>2. QED BY <1>1, JobInvariant, PTL

\* A handler is never started more than max(1, max_retries) times, however
\* commands fail and processes crash.
THEOREM ExecutionsCorrect == Spec => []ExecutionsBounded
<1>1. JobInv => ExecutionsBounded
  BY DEF JobInv, ExecutionsBounded, RunInv
<1>2. QED BY <1>1, JobInvariant, PTL

\* A dead-lettered job with a handler has had all its executions.
THEOREM DeadLettersCorrect == Spec => []DeadLettersExhausted
<1>1. JobInv => DeadLettersExhausted
  BY DEF JobInv, DeadLettersExhausted, DeadJobs, Elements, DeadInv, RunCount
<1>2. QED BY <1>1, JobInvariant, PTL

\* The metadata never reports a success or a dead letter that did not happen.
THEOREM StatusCorrect == Spec => []StatusTruthful
<1>1. JobInv => StatusTruthful
  BY DEF JobInv, StatusTruthful, StatusInv, DeadJobs, Elements, NotDead
<1>2. QED BY <1>1, JobInvariant, PTL

-----------------------------------------------------------------------------
HIDE DEF Priorities, WorkerPc

Running(j) == \E w \in Workers : At(w, {"exec", "fail", "timedout"}, j)
Taken(j) == \E w \in Workers : At(w, {"got"}, j)
Waiting(j) == ~NotQueued(j) \/ ~NotSleeping(j)
New(j) == producer[j] \in {"new", "stored", "ttl"}

\* The stage of a job, in the words of JobQueueProofs.
StageOf(j) ==
    IF j \in succeeded THEN "done"
    ELSE IF ~NotDead(j) THEN "dead"
    ELSE IF Running(j) THEN "running"
    ELSE IF Taken(j) THEN "taken"
    ELSE IF Waiting(j) THEN "waiting"
    ELSE IF New(j) THEN "new"
    ELSE "gone"

StageReads == DOMAIN Stage = Jobs /\ \A j \in Jobs : Stage[j] = StageOf(j)

LEMMA StageRead == StageReads
<1>1. ASSUME NEW j \in Jobs
      PROVE  /\ j \in DeadJobs <=> ~NotDead(j)
             /\ j \in QueuedJobs \union SleepingJobs <=> Waiting(j)
  <2>1. j \in DeadJobs <=> ~NotDead(j)
    BY DEF DeadJobs, Elements, NotDead
  <2>2. j \in QueuedJobs <=> ~NotQueued(j)
    BY DEF QueuedJobs, Queued, Elements, NotQueued
  <2>3. j \in SleepingJobs <=> ~NotSleeping(j)
    BY DEF SleepingJobs, NotSleeping
  <2>4. QED BY <2>1, <2>2, <2>3 DEF Waiting
<1>2. QED BY <1>1 DEF StageReads, Stage, StageOf, Running, Taken, New

LEMMA StageReadNext == StageReads'
  BY StageRead, PTL

\* A job has one place, which is its stage.
LEMMA StagePlace ==
    ASSUME TypeInv, JobInv, NEW j \in Jobs
    PROVE  /\ j \in succeeded => Stage[j] = "done"
           /\ ~NotDead(j) => Stage[j] = "dead"
           /\ Running(j) => Stage[j] = "running"
           /\ Taken(j) => Stage[j] = "taken"
           /\ Waiting(j) => Stage[j] = "waiting"
           /\ New(j) => Stage[j] = "new"
<1>1. ~NotDead(j) => j \notin succeeded
  BY DEF JobInv, DeadInv, NotDead
<1>2. Running(j) => NotDead(j) /\ j \notin succeeded
  BY DEF JobInv, HeldInv, Running, At, Holds
<1>3. Taken(j) => NotDead(j) /\ j \notin succeeded /\ ~Running(j)
  BY DEF JobInv, HeldInv, Taken, Running, At, Holds
<1>4. Waiting(j) => NotDead(j) /\ j \notin succeeded
  BY DEF JobInv, QueueInv, SleepInv, Waiting, NotQueued, NotSleeping
<1>5. Waiting(j) => ~Running(j) /\ ~Taken(j)
  BY DEF JobInv, QueueInv, HeldInv, Waiting, NotQueued, NotSleeping, NotHeld, Running, Taken, At, Holds
<1>6. New(j) => /\ j \notin succeeded /\ NotDead(j) /\ ~Running(j) /\ ~Taken(j) /\ ~Waiting(j)
  <2>1. New(j) => ~Begun(j)
    BY DEF New, Begun
  <2>2. ~Begun(j) => j \notin succeeded
    BY DEF JobInv, RunInv
  <2>3. QED BY <2>1, <2>2, NotBegun DEF Running, Taken, Waiting, NotHeld, At, Holds
<1>7. QED BY <1>1, <1>2, <1>3, <1>4, <1>5, <1>6, StageRead DEF StageReads, StageOf

\* A job about which nothing changes keeps its stage.
LEMMA StageSame ==
    ASSUME NEW j \in Jobs,
           j \in succeeded' <=> j \in succeeded, NotDead(j)' <=> NotDead(j),
           Running(j)' <=> Running(j), Taken(j)' <=> Taken(j),
           Waiting(j)' <=> Waiting(j), New(j)' <=> New(j)
    PROVE  Stage'[j] = Stage[j]
<1>1. StageOf(j)' = StageOf(j)
  BY DEF StageOf
<1>2. Stage[j] = StageOf(j) /\ Stage'[j] = StageOf(j)'
  BY StageRead, StageReadNext DEF StageReads
<1>3. QED BY <1>1, <1>2

\* A job that is nowhere any more is gone.
LEMMA StageGone ==
    ASSUME NEW j \in Jobs, j \notin succeeded', NotDead(j)', ~Running(j)', ~Taken(j)',
           ~Waiting(j)', ~New(j)'
    PROVE  Stage'[j] = "gone"
  BY StageReadNext DEF StageReads, StageOf

-----------------------------------------------------------------------------
(* What the steps do to the stages. *)

ExecInv == \A w \in Workers : wpc[w] = "exec" => wenv[w].job \in Registered

Inv == TypeInv /\ JobInv /\ ExecInv

\* NoSilentLoss's excuses
Excused(j) ==
    \/ faults' > faults
    \/ \E t \in retries : /\ t.env.job = j /\ t.pc = "sleep"
                          /\ wpc[t.proc] \in {"stopped", "panicked"}

Gone(j) ==
    /\ Stage[j] \in {"waiting", "taken", "running"}
    /\ Stage'[j] = "gone"
    /\ Excused(j)

\* A step moves one job on, or takes jobs away for a reason.
Moves == \E j \in Jobs : \/ Lifecycle!Accept(j) \/ Lifecycle!Refuse(j)
                         \/ Lifecycle!Take(j) \/ Lifecycle!Run(j)
                         \/ Lifecycle!Finish(j) \/ Lifecycle!Again(j) \/ Lifecycle!Bury(j)
Loses == UNCHANGED runs /\ \A j \in Jobs : Stage'[j] = Stage[j] \/ Gone(j)

\* Only j changes its stage.
LEMMA OneMoves ==
    ASSUME NEW j \in Jobs, NEW s, Stage'[j] = s,
           \A k \in Jobs : k # j => Stage'[k] = Stage[k]
    PROVE  Stage' = [Stage EXCEPT ![j] = s]
<1>1. DOMAIN Stage = Jobs /\ DOMAIN Stage' = Jobs
  BY StageRead, StageReadNext DEF StageReads
<1>2. Stage = [k \in Jobs |-> Stage[k]] /\ Stage' = [k \in Jobs |-> Stage'[k]]
  BY DEF Stage
<1>3. QED BY <1>2

\* What a Worker that moves only the job in its hand, j, can change.
Hand == {"got", "exec", "fail", "timedout"}

LEMMA HandFrame ==
    ASSUME NEW w \in Workers, NEW j,
           \A v \in Workers : v # w => wpc'[v] = wpc[v] /\ wenv'[v] = wenv[v],
           wpc[w] \in Hand => wenv[w].job = j,
           wpc'[w] \in Hand => wenv'[w].job = j
    PROVE  \A k : k # j => (Running(k)' <=> Running(k)) /\ (Taken(k)' <=> Taken(k))
<1>1. ASSUME NEW k, k # j, NEW v \in Workers, NEW pcs \in SUBSET Hand
      PROVE  At(v, pcs, k)' <=> At(v, pcs, k)
  BY <1>1 DEF At, Hand
<1>2. QED
  <2>1. {"exec", "fail", "timedout"} \in SUBSET Hand /\ {"got"} \in SUBSET Hand
    BY DEF Hand
  <2>2. QED BY <1>1, <2>1 DEF Running, Taken

LEMMA HandAfter ==
    ASSUME NEW w \in Workers, NEW j,
           \A v \in Workers : v # w => wpc'[v] = wpc[v] /\ wenv'[v] = wenv[v],
           \A v \in Workers : v # w /\ Holds(v) => wenv[v].job # j,
           wpc'[w] \in Hand => wenv'[w].job = j
    PROVE  /\ Running(j)' <=> wpc'[w] \in {"exec", "fail", "timedout"}
           /\ Taken(j)' <=> wpc'[w] = "got"
<1>1. ASSUME NEW v \in Workers, v # w, NEW pcs \in SUBSET Hand
      PROVE  ~At(v, pcs, j)'
  BY <1>1 DEF At, Hand, Holds
<1>2. QED BY <1>1 DEF Running, Taken, At, Hand

-----------------------------------------------------------------------------
\* The enqueue call: new jobs are accepted or refused, no others are touched.
LEMMA EnqueueMoves ==
    ASSUME Inv, NEW j \in Jobs, Enqueue(j) \/ ProducerDies(j) \/ Lapse(j)
    PROVE  Moves \/ Loses
<1> USE DEF history, redis, local
<1>1. UNCHANGED <<dead, wpc, wenv, retries, runs, succeeded>>
  BY DEF Enqueue, EnqueueStore, EnqueueExpire, EnqueuePush, ProducerDies, Lapse
<1>2. \A k : /\ NotDead(k)' <=> NotDead(k)
             /\ NotSleeping(k)' <=> NotSleeping(k)
             /\ Running(k)' <=> Running(k)
             /\ Taken(k)' <=> Taken(k)
  BY <1>1 DEF NotDead, NotSleeping, Running, Taken, At
<1>3. \A k \in Jobs : k # j => (New(k)' <=> New(k))
  BY DEF Enqueue, EnqueueStore, EnqueueExpire, EnqueuePush, ProducerDies, Lapse, New, Inv, TypeInv, TypeOK
<1>4. CASE queue' = queue
  <2>1. \A k : Waiting(k)' <=> Waiting(k)
    BY <1>2, <1>4 DEF Waiting, NotQueued
  <2>2. \A k \in Jobs : k # j => Stage'[k] = Stage[k]
    BY <1>1, <1>2, <1>3, <2>1, StageSame
  <2>3. CASE New(j)' <=> New(j)
    BY <1>1, <1>2, <2>1, <2>2, <2>3, StageSame DEF Loses
  <2>4. CASE New(j) /\ ~New(j)'
    <3>1. Stage[j] = "new"
      BY <2>4, StagePlace DEF Inv
    <3>2. j \notin succeeded /\ NotDead(j) /\ ~Running(j) /\ ~Taken(j) /\ ~Waiting(j)
      BY <3>1, StagePlace DEF Inv
    <3>3. Stage'[j] = "gone"
      BY <1>1, <1>2, <2>1, <2>4, <3>2, StageGone
    <3>4. Lifecycle!Refuse(j)
      BY <1>1, <2>2, <3>1, <3>3, OneMoves DEF Lifecycle!Refuse
    <3>5. QED BY <3>4 DEF Moves
  <2>5. New(j)' => New(j)
    BY DEF Enqueue, EnqueueStore, EnqueueExpire, EnqueuePush, ProducerDies, Lapse, New
  <2>6. QED BY <2>3, <2>4, <2>5
<1>5. CASE queue' # queue
  <2> DEFINE env == [job |-> j, attempt |-> 0]
             p == JobPriority[j]
             n == Len(queue[p])
  <2>1. EnqueuePush(j)
    BY <1>5 DEF Enqueue, EnqueueStore, EnqueueExpire, ProducerDies, Lapse
  <2>2. producer[j] = "ttl" /\ producer'[j] \in {"ok", "err"} /\ queue' = Pushed(env)
    BY <1>5, <2>1 DEF EnqueuePush, Inv, TypeInv, TypeOK
  <2>3. env \in Envelope /\ env.job = j
    BY DEF Envelope
  <2>4. /\ p \in Priorities /\ n \in Nat /\ DOMAIN queue[p] = 1 .. n
        /\ DOMAIN queue'[p] = 1 .. n + 1 /\ queue'[p][n + 1].job = j
        /\ \A i \in 1 .. n : queue'[p][i] = queue[p][i]
        /\ \A q \in Priorities : q # p => queue'[q] = queue[q]
    BY <2>2, <2>3, PushEffect DEF Inv, TypeInv
  <2> HIDE DEF env, p, n
  <2>5. ~NotQueued(j)' /\ \A k : k # j => (NotQueued(k)' <=> NotQueued(k))
    <3>1. ~NotQueued(j)'
      BY <2>4 DEF NotQueued
    <3>2. ASSUME NEW k, k # j PROVE NotQueued(k)' <=> NotQueued(k)
      BY <2>4, <3>2 DEF NotQueued
    <3>3. QED BY <3>1, <3>2
  <2>6. \A k \in Jobs : k # j => Stage'[k] = Stage[k]
    BY <1>1, <1>2, <1>3, <2>5, StageSame DEF Waiting
  <2>7. New(j) /\ Stage[j] = "new"
    BY <2>2, StagePlace DEF New, Inv
  <2>8. j \notin succeeded /\ NotDead(j) /\ ~Running(j) /\ ~Taken(j)
    BY <2>7, StagePlace DEF Inv
  <2>9. Stage'[j] = "waiting"
    BY <1>1, <1>2, <2>5, <2>8, StageReadNext DEF StageReads, StageOf, Waiting
  <2>10. Lifecycle!Accept(j)
    BY <1>1, <2>6, <2>7, <2>9, OneMoves DEF Lifecycle!Accept
  <2>11. QED BY <2>10 DEF Moves
<1>6. QED BY <1>4, <1>5

\* LPOP: the first job of the list is taken, or gone with the reply.
LEMMA PopFrame ==
    ASSUME TypeInv, JobInv, NEW p \in Priorities, queue[p] # <<>>, queue' = Popped(p),
           NEW j, j = queue[p][1].job
    PROVE  /\ j \in Jobs /\ Stage[j] = "waiting" /\ NotQueued(j)'
           /\ NotHeld(j) /\ NotSleeping(j) /\ NotDead(j) /\ Begun(j) /\ j \notin succeeded
           /\ \A k : k # j => (NotQueued(k)' <=> NotQueued(k))
<1> DEFINE n == Len(queue[p])
<1>1. /\ \A q \in Priorities : q # p => queue'[q] = queue[q]
      /\ n \in Nat \ {0} /\ DOMAIN queue[p] = 1 .. n /\ DOMAIN queue'[p] = 1 .. n - 1
      /\ \A i \in 1 .. n - 1 : queue'[p][i] = queue[p][i + 1]
  BY PopEffect DEF TypeInv
<1>2. 1 \in DOMAIN queue[p]
  BY <1>1
<1>3. /\ NotHeld(j) /\ NotSleeping(j) /\ NotDead(j) /\ Begun(j) /\ j \notin succeeded
      /\ \A i \in DOMAIN queue[p] : queue[p][i].job = j => i = 1
      /\ JobPriority[j] = p
  BY <1>2 DEF JobInv, QueueInv
<1>4. j \in Jobs
  BY <1>2, EnvTypes
<1>5. Waiting(j)
  BY <1>2 DEF Waiting, NotQueued
<1>6. Stage[j] = "waiting"
  BY <1>4, <1>5, StagePlace
<1> HIDE DEF n
<1>7. NotQueued(j)'
  <2>1. ASSUME NEW q \in Priorities, NEW i \in DOMAIN queue'[q], queue'[q][i].job = j
        PROVE  FALSE
    <3>1. CASE q = p
      <4>1. i \in 1 .. n - 1 /\ i + 1 \in 1 .. n /\ queue[p][i + 1].job = j
        BY <1>1, <2>1, <3>1
      <4>2. i + 1 \in DOMAIN queue[p] /\ i + 1 # 1
        BY <1>1, <4>1
      <4>3. QED BY <1>3, <4>1, <4>2
    <3>2. CASE q # p
      <4>1. i \in DOMAIN queue[q] /\ queue[q][i].job = j
        BY <1>1, <2>1, <3>2
      <4>2. JobPriority[j] = q
        BY <4>1 DEF JobInv, QueueInv
      <4>3. QED BY <1>3, <3>2, <4>2
    <3>3. QED BY <3>1, <3>2
  <2>2. QED BY <2>1 DEF NotQueued
<1>8. ASSUME NEW k, k # j PROVE NotQueued(k)' <=> NotQueued(k)
  <2>1. queue[p][1].job # k
    BY <1>8
  <2>2. ASSUME NEW q \in Priorities
        PROVE  (\E i \in DOMAIN queue'[q] : queue'[q][i].job = k)
               <=> (\E i \in DOMAIN queue[q] : queue[q][i].job = k)
    <3>1. CASE q # p
      BY <1>1, <3>1
    <3>2. CASE q = p
      <4>1. ASSUME NEW i \in DOMAIN queue[p], queue[p][i].job = k
            PROVE  \E m \in DOMAIN queue'[p] : queue'[p][m].job = k
        <5>1. i - 1 \in 1 .. n - 1
          BY <1>1, <2>1, <4>1
        <5>2. queue'[p][i - 1] = queue[p][(i - 1) + 1] /\ (i - 1) + 1 = i
          BY <1>1, <5>1
        <5>3. QED BY <1>1, <4>1, <5>1, <5>2
      <4>2. ASSUME NEW i \in DOMAIN queue'[p], queue'[p][i].job = k
            PROVE  \E m \in DOMAIN queue[p] : queue[p][m].job = k
        <5>1. i \in 1 .. n - 1 /\ i + 1 \in 1 .. n /\ queue[p][i + 1].job = k
          BY <1>1, <4>2
        <5>2. QED BY <1>1, <5>1
      <4>3. QED BY <3>2, <4>1, <4>2
    <3>3. QED BY <3>1, <3>2
  <2>3. QED BY <2>2 DEF NotQueued
<1>9. QED BY <1>3, <1>4, <1>6, <1>7, <1>8

LEMMA PollMoves ==
    ASSUME Inv, NEW w \in Workers, Poll(w)
    PROVE  Moves \/ Loses
<1> USE DEF history, redis, local
<1>1. /\ UNCHANGED <<dead, producer, retries, runs, succeeded>>
      /\ wpc[w] \notin Hand
  BY DEF Poll, PollStart, Dequeue, Hand
<1>2. \A k : /\ NotDead(k)' <=> NotDead(k)
             /\ NotSleeping(k)' <=> NotSleeping(k)
             /\ New(k)' <=> New(k)
  BY <1>1 DEF NotDead, NotSleeping, New
<1>3. \A v \in Workers : v # w => wpc'[v] = wpc[v] /\ wenv'[v] = wenv[v]
  BY DEF Poll, PollStart, Dequeue, Release, Inv, TypeInv, TypeOK
<1>4. CASE queue' = queue
  <2>1. \A k : Waiting(k)' <=> Waiting(k)
    BY <1>2, <1>4 DEF Waiting, NotQueued
  <2>2. wpc'[w] \notin Hand
    <3>1. CASE PollStart(w)
      BY <3>1 DEF PollStart, Hand, Inv, TypeInv, TypeOK
    <3>2. CASE Dequeue(w)
      <4> DEFINE p == PriorityOrder[widx[w]]
      <4>1. p \in Priorities
        BY <3>2, OrderRange DEF Dequeue, Inv, TypeInv, HandInv
      <4>2. queue[p] # <<>> => Popped(p) # queue
        <5>1. ASSUME queue[p] # <<>> PROVE DOMAIN Popped(p)[p] # DOMAIN queue[p]
          BY <4>1, <5>1, PopEffect DEF Inv, TypeInv
        <5>2. QED BY <5>1
      <4>3. PICK r \in Replies :
              /\ queue' = IF r.applied /\ ~(queue[p] = <<>>) THEN Popped(p) ELSE queue
              /\ \/ r.ok /\ ~(queue[p] = <<>>)
                 \/ UNCHANGED wpc
                 \/ Release(w, "idle")
        BY <3>2 DEF Dequeue
      <4>4. r.ok => r.applied
        BY ReplyOk
      <4> HIDE DEF p
      <4>5. UNCHANGED wpc \/ Release(w, "idle")
        BY <1>4, <4>2, <4>3, <4>4
      <4>6. QED BY <1>1, <4>5 DEF Release, Hand, Inv, TypeInv, TypeOK
    <3>3. QED BY <3>1, <3>2 DEF Poll
  <2>3. ASSUME NEW k PROVE (Running(k)' <=> Running(k)) /\ (Taken(k)' <=> Taken(k))
    <3>1. PICK j : j # k
      <4>1. {k} # k \/ {} # k
        OBVIOUS
      <4>2. QED BY <4>1
    <3>2. QED BY <1>1, <1>3, <2>2, <3>1, HandFrame
  <2>4. QED BY <1>1, <1>2, <2>1, <2>3, StageSame DEF Loses
<1>5. CASE queue' # queue
  <2>1. Dequeue(w) /\ PriorityOrder[widx[w]] \in Priorities
    BY <1>5, OrderRange DEF Poll, PollStart, Dequeue, Inv, TypeInv, HandInv
  <2>p. PICK p \in Priorities : p = PriorityOrder[widx[w]]
    BY <2>1
  <2>j. PICK j : j = queue[p][1].job
    OBVIOUS
  <2>2. PICK r \in Replies :
          /\ Count(r)
          /\ queue' = IF r.applied /\ ~(queue[p] = <<>>) THEN Popped(p) ELSE queue
          /\ \/ /\ r.ok /\ ~(queue[p] = <<>>)
                /\ wpc' = [wpc EXCEPT ![w] = "got"]
                /\ wenv' = [wenv EXCEPT ![w] = Head(queue[p])]
             \/ r.ok /\ queue[p] = <<>> /\ UNCHANGED <<wpc, wenv>>
             \/ (~r.ok \/ queue[p] = <<>>) /\ Release(w, "idle")
    BY <2>1, <2>p DEF Dequeue
  <2>3. queue[p] # <<>> /\ queue' = Popped(p)
    BY <1>5, <2>2
  <2>4. /\ j \in Jobs /\ Stage[j] = "waiting" /\ NotQueued(j)'
        /\ NotHeld(j) /\ NotSleeping(j) /\ NotDead(j) /\ Begun(j) /\ j \notin succeeded
        /\ \A k : k # j => (NotQueued(k)' <=> NotQueued(k))
    BY <2>j, <2>3, PopFrame DEF Inv
  <2>5. Head(queue[p]) = queue[p][1]
    BY <2>3, PopEffect DEF Inv, TypeInv
  <2>6. \/ wpc'[w] = "got" /\ wenv'[w].job = j
        \/ wpc'[w] = "idle" /\ ~r.ok
    BY <2>j, <2>2, <2>3, <2>5 DEF Release, Inv, TypeInv, TypeOK
  <2>7. \A k : k # j => (Running(k)' <=> Running(k)) /\ (Taken(k)' <=> Taken(k))
    BY <1>1, <1>3, <2>6, HandFrame DEF Hand
  <2>8. /\ Running(j)' <=> wpc'[w] \in {"exec", "fail", "timedout"}
        /\ Taken(j)' <=> wpc'[w] = "got"
    BY <1>3, <2>4, <2>6, HandAfter DEF NotHeld, Hand
  <2>9. \A k \in Jobs : k # j => Stage'[k] = Stage[k]
    BY <1>1, <1>2, <2>4, <2>7, StageSame DEF Waiting
  <2>10. ~Waiting(j)' /\ ~New(j)' /\ j \notin succeeded' /\ NotDead(j)'
    BY <1>1, <1>2, <2>4 DEF Waiting, New, Begun
  <2>11. CASE wpc'[w] = "got"
    <3>1. Stage'[j] = "taken"
      BY <2>4, <2>8, <2>10, <2>11, StageReadNext DEF StageReads, StageOf
    <3>2. Lifecycle!Take(j)
      BY <1>1, <2>4, <2>9, <3>1, OneMoves DEF Lifecycle!Take
    <3>3. QED BY <2>4, <3>2 DEF Moves
  <2>12. CASE wpc'[w] = "idle" /\ ~r.ok
    <3>1. Stage'[j] = "gone"
      BY <2>4, <2>8, <2>10, <2>12, StageGone
    <3>2. faults' > faults
      BY <2>2, <2>12 DEF Count, Inv, TypeInv, TypeOK
    <3>3. QED BY <1>1, <2>4, <2>9, <3>1, <3>2 DEF Loses, Gone, Excused
  <2>13. QED BY <2>6, <2>11, <2>12
<1>6. QED BY <1>4, <1>5

\* A Worker goes on with, or lets go of, the job j in its hand: the others
\* keep their stages, and what is known of j.
LEMMA HandMoves ==
    ASSUME Inv, NEW w \in Workers, Holds(w), NEW j, j = wenv[w].job,
           UNCHANGED <<queue, retries, producer>>,
           \A v \in Workers : v # w => wpc'[v] = wpc[v] /\ wenv'[v] = wenv[v],
           wenv'[w] = wenv[w] \/ wpc'[w] \notin Hand,
           \A k : k # j => (NotDead(k)' <=> NotDead(k)) /\ (k \in succeeded' <=> k \in succeeded)
    PROVE  /\ \A k \in Jobs : k # j => Stage'[k] = Stage[k]
           /\ ~Waiting(j)' /\ ~New(j)'
           /\ Running(j)' <=> wpc'[w] \in {"exec", "fail", "timedout"}
           /\ Taken(j)' <=> wpc'[w] = "got"
<1>1. /\ \A v \in Workers : v # w /\ Holds(v) => wenv[v].job # j
      /\ NotQueued(j) /\ NotSleeping(j) /\ Begun(j)
  BY HeldNowhereElse DEF Inv, JobInv, HeldInv
<1>2. /\ wpc[w] \in Hand => wenv[w].job = j
      /\ wpc'[w] \in Hand => wenv'[w].job = j
  OBVIOUS
<1>3. \A k : k # j => (Running(k)' <=> Running(k)) /\ (Taken(k)' <=> Taken(k))
  BY <1>2, HandFrame
<1>4. /\ Running(j)' <=> wpc'[w] \in {"exec", "fail", "timedout"}
      /\ Taken(j)' <=> wpc'[w] = "got"
  BY <1>1, <1>2, HandAfter
<1>5. \A k : (Waiting(k)' <=> Waiting(k)) /\ (New(k)' <=> New(k))
  BY DEF Waiting, NotQueued, NotSleeping, New
<1>6. \A k \in Jobs : k # j => Stage'[k] = Stage[k]
  BY <1>3, <1>5, StageSame
<1>7. ~Waiting(j)' /\ ~New(j)'
  BY <1>1, <1>5 DEF Waiting, New, Begun
<1>8. QED BY <1>4, <1>6, <1>7

\* What HeldInv and the stages say of the job in a Worker's hand.
LEMMA HandStage ==
    ASSUME Inv, NEW w \in Workers, Holds(w)
    PROVE  \E j \in Jobs, a \in Nat :
              /\ j = wenv[w].job /\ a = wenv[w].attempt
              /\ a < Limit(j) /\ Limit(j) \in Nat \ {0}
              /\ RunCount(j, IF wpc[w] = "got" THEN a ELSE a + 1) /\ runs[j] \in Nat
              /\ NotDead(j) /\ (j \in succeeded <=> wpc[w] = "ok")
              /\ wpc[w] = "got" => Stage[j] = "taken"
              /\ wpc[w] \in {"exec", "fail", "timedout"} => Stage[j] = "running"
              /\ wpc[w] = "exec" => j \in Registered
<1>1. PICK j \in Jobs, a \in Nat : j = wenv[w].job /\ a = wenv[w].attempt
  BY EnvTypes DEF Inv
<1>2. /\ a < Limit(j) /\ RunCount(j, IF wpc[w] = "got" THEN a ELSE a + 1)
      /\ NotDead(j) /\ (j \in succeeded <=> wpc[w] = "ok")
  BY <1>1 DEF Inv, JobInv, HeldInv
<1>3. /\ wpc[w] = "got" => Taken(j)
      /\ wpc[w] \in {"exec", "fail", "timedout"} => Running(j)
  BY <1>1 DEF Taken, Running, At
<1>4. runs[j] \in Nat /\ Limit(j) \in Nat \ {0}
  BY LimitType DEF Inv, TypeInv, TypeOK
<1>5. wpc[w] = "exec" => j \in Registered
  BY <1>1 DEF Inv, ExecInv
<1>6. QED BY <1>1, <1>2, <1>3, <1>4, <1>5, StagePlace DEF Inv

\* process_job starts the handler, which ends in some way.
LEMMA RunMoves ==
    ASSUME Inv, NEW w \in Workers,
           MarkRunning(w) \/ HandlerOk(w) \/ HandlerErr(w) \/ HandlerTimeout(w) \/ HandlerPanic(w)
    PROVE  Moves \/ Loses
<1> USE DEF history, redis, local
<1>1. Holds(w) /\ wpc[w] \in {"got", "exec"}
  BY DEF MarkRunning, HandlerOk, HandlerErr, HandlerTimeout, HandlerFails, HandlerPanic, Holds
<1>2. PICK j \in Jobs, a \in Nat :
         /\ j = wenv[w].job /\ a = wenv[w].attempt
         /\ a < Limit(j) /\ Limit(j) \in Nat \ {0}
         /\ RunCount(j, IF wpc[w] = "got" THEN a ELSE a + 1) /\ runs[j] \in Nat
         /\ NotDead(j) /\ (j \in succeeded <=> wpc[w] = "ok")
         /\ wpc[w] = "got" => Stage[j] = "taken"
         /\ wpc[w] \in {"exec", "fail", "timedout"} => Stage[j] = "running"
         /\ wpc[w] = "exec" => j \in Registered
  BY <1>1, HandStage
<1>3. /\ UNCHANGED <<queue, retries, producer, dead>>
      /\ \A v \in Workers : v # w => wpc'[v] = wpc[v] /\ wenv'[v] = wenv[v]
      /\ wenv'[w] = wenv[w] \/ wpc'[w] \notin Hand
  BY DEF MarkRunning, HandlerOk, HandlerErr, HandlerTimeout, HandlerFails, HandlerPanic, Release,
         Hand, Inv, TypeInv, TypeOK
<1>4. \A k : k # j => (NotDead(k)' <=> NotDead(k)) /\ (k \in succeeded' <=> k \in succeeded)
  BY <1>2, <1>3 DEF MarkRunning, HandlerOk, HandlerErr, HandlerTimeout, HandlerFails, HandlerPanic, NotDead
<1>5. /\ \A k \in Jobs : k # j => Stage'[k] = Stage[k]
      /\ ~Waiting(j)' /\ ~New(j)' /\ NotDead(j)'
      /\ Running(j)' <=> wpc'[w] \in {"exec", "fail", "timedout"}
      /\ Taken(j)' <=> wpc'[w] = "got"
  BY <1>1, <1>2, <1>3, <1>4, HandMoves DEF NotDead
<1>6. /\ j \notin succeeded' /\ wpc'[w] \in {"exec", "fail", "timedout"} => Stage'[j] = "running"
      /\ j \notin succeeded' /\ wpc'[w] \in {"idle", "panicked"} => Stage'[j] = "gone"
      /\ j \in succeeded' => Stage'[j] = "done"
  BY <1>2, <1>5, StageReadNext DEF StageReads, StageOf
<1>7. CASE MarkRunning(w)
  <2>1. wpc[w] = "got" /\ Stage[j] = "taken" /\ j \notin succeeded' /\ runs[j] <= a
    BY <1>2, <1>7 DEF MarkRunning, RunCount
  <2>2. PICK r \in Replies :
          /\ Count(r)
          /\ \/ /\ r.ok /\ j \in Registered
                /\ wpc' = [wpc EXCEPT ![w] = "exec"]
                /\ runs' = [runs EXCEPT ![j] = @ + 1]
             \/ /\ r.ok /\ j \notin Registered
                /\ wpc' = [wpc EXCEPT ![w] = "fail"]
                /\ UNCHANGED runs
             \/ ~r.ok /\ Release(w, "idle") /\ UNCHANGED runs
    BY <1>2, <1>7 DEF MarkRunning
  <2>3. CASE r.ok
    <3>1. wpc'[w] \in {"exec", "fail"}
      BY <2>2, <2>3 DEF Inv, TypeInv, TypeOK
    <3>2. Stage' = [Stage EXCEPT ![j] = "running"]
      BY <1>5, <1>6, <2>1, <3>1, OneMoves
    <3>3. runs[j] < Limit(j)
      BY <1>2, <2>1
    <3>4. Lifecycle!Run(j)
      BY <2>1, <2>2, <2>3, <3>2, <3>3 DEF Lifecycle!Run
    <3>5. QED BY <3>4 DEF Moves
  <2>4. CASE ~r.ok
    <3>1. Stage'[j] = "gone" /\ UNCHANGED runs
      BY <1>6, <2>1, <2>2, <2>4 DEF Release, Inv, TypeInv, TypeOK
    <3>2. faults' > faults
      BY <2>2, <2>4 DEF Count, Inv, TypeInv, TypeOK
    <3>3. QED BY <1>5, <2>1, <3>1, <3>2 DEF Loses, Gone, Excused
  <2>5. QED BY <2>3, <2>4
<1>8. CASE HandlerOk(w)
  <2>1. wpc[w] = "exec" /\ Stage[j] = "running" /\ j \in Registered /\ Stage'[j] = "done" /\ UNCHANGED runs
    BY <1>2, <1>6, <1>8 DEF HandlerOk
  <2>2. Lifecycle!Finish(j)
    BY <1>5, <2>1, OneMoves DEF Lifecycle!Finish
  <2>3. QED BY <2>2 DEF Moves
<1>9. CASE HandlerErr(w) \/ HandlerTimeout(w)
  <2>1. /\ wpc[w] = "exec" /\ wpc'[w] \in {"fail", "timedout"}
        /\ UNCHANGED <<runs, succeeded>>
    BY <1>9 DEF HandlerErr, HandlerTimeout, HandlerFails, Inv, TypeInv, TypeOK
  <2>2. Stage'[j] = Stage[j]
    BY <1>2, <1>6, <2>1
  <2>3. QED BY <1>5, <2>1, <2>2 DEF Loses
<1>10. CASE HandlerPanic(w)
  <2>1. /\ wpc[w] = "exec" /\ wpc'[w] = "panicked" /\ faults' = faults + 1
        /\ UNCHANGED <<runs, succeeded>>
    BY <1>10 DEF HandlerPanic, Release, Inv, TypeInv, TypeOK
  <2>2. faults' > faults
    BY <2>1 DEF Inv, TypeInv, TypeOK
  <2>3. Stage[j] = "running" /\ Stage'[j] = "gone"
    BY <1>2, <1>6, <2>1
  <2>4. QED BY <1>5, <2>1, <2>2, <2>3 DEF Loses, Gone, Excused
<1>11. QED BY <1>7, <1>8, <1>9, <1>10

\* The outcome is written down: the job is done, or dead, already.
LEMMA MarkMoves ==
    ASSUME Inv, NEW w \in Workers, MarkCompleted(w) \/ DeadMark(w)
    PROVE  Moves \/ Loses
<1> USE DEF history, redis, local
<1>1. /\ UNCHANGED <<queue, retries, producer, dead, runs, succeeded>>
      /\ wpc[w] \notin Hand /\ wpc'[w] \notin Hand
      /\ \A v \in Workers : v # w => wpc'[v] = wpc[v] /\ wenv'[v] = wenv[v]
  BY DEF MarkCompleted, DeadMark, Release, Hand, Inv, TypeInv, TypeOK
<1>2. ASSUME NEW k \in Jobs PROVE Stage'[k] = Stage[k]
  <2>1. PICK j : j # k
    <3>1. {k} # k \/ {} # k
      OBVIOUS
    <3>2. QED BY <3>1
  <2>2. (Running(k)' <=> Running(k)) /\ (Taken(k)' <=> Taken(k))
    BY <1>1, <2>1, HandFrame
  <2>3. QED BY <1>1, <2>2, StageSame DEF Waiting, NotQueued, NotSleeping, NotDead, New
<1>3. QED BY <1>1, <1>2 DEF Loses

\* handle_failure: another try, or the dead letters.
LEMMA FailureMoves ==
    ASSUME Inv, NEW w \in Workers, ScheduleRetry(w) \/ DeadPush(w)
    PROVE  Moves \/ Loses
<1> USE DEF history, redis, local
<1>1. Holds(w) /\ wpc[w] \in {"fail", "timedout"}
  BY DEF ScheduleRetry, DeadPush, Failed, Holds
<1>2. PICK j \in Jobs, a \in Nat :
         /\ j = wenv[w].job /\ a = wenv[w].attempt
         /\ a < Limit(j) /\ Limit(j) \in Nat \ {0}
         /\ RunCount(j, IF wpc[w] = "got" THEN a ELSE a + 1) /\ runs[j] \in Nat
         /\ NotDead(j) /\ (j \in succeeded <=> wpc[w] = "ok")
         /\ wpc[w] = "got" => Stage[j] = "taken"
         /\ wpc[w] \in {"exec", "fail", "timedout"} => Stage[j] = "running"
         /\ wpc[w] = "exec" => j \in Registered
  BY <1>1, HandStage
<1>3. /\ UNCHANGED <<queue, producer, runs, succeeded>>
      /\ \A v \in Workers : v # w => wpc'[v] = wpc[v] /\ wenv'[v] = wenv[v]
      /\ wpc'[w] \notin Hand
  BY DEF ScheduleRetry, DeadPush, Release, Hand, Inv, TypeInv, TypeOK
<1>4. Stage[j] = "running" /\ RunCount(j, a + 1) /\ j \notin succeeded' /\ NotDead(j)
  BY <1>1, <1>2, <1>3
<1>5. /\ \A k : k # j => (Running(k)' <=> Running(k)) /\ (Taken(k)' <=> Taken(k))
      /\ ~Running(j)' /\ ~Taken(j)'
  <2>1. \A v \in Workers : v # w /\ Holds(v) => wenv[v].job # j
    BY <1>1, <1>2, HeldNowhereElse DEF Inv
  <2>2. \A k : k # j => (Running(k)' <=> Running(k)) /\ (Taken(k)' <=> Taken(k))
    BY <1>2, <1>3, HandFrame
  <2>3. /\ Running(j)' <=> wpc'[w] \in {"exec", "fail", "timedout"}
        /\ Taken(j)' <=> wpc'[w] = "got"
    BY <1>3, <2>1, HandAfter
  <2>4. QED BY <1>3, <2>2, <2>3 DEF Hand
<1>6. MaxRetries[j] \in Nat /\ Limit(j) = IF MaxRetries[j] = 0 THEN 1 ELSE MaxRetries[j]
  BY LimitType DEF Limit
<1>7. CASE ScheduleRetry(w)
  <2>1. PICK t : t = [proc |-> w, env |-> wenv[w], pc |-> "sleep"]
    OBVIOUS
  <2>2. /\ retries' = retries \union {t} /\ t.env.job = j /\ t.pc = "sleep"
        /\ dead' = dead /\ a + 1 < MaxRetries[j]
    BY <1>2, <1>7, <2>1 DEF ScheduleRetry, RetriesLeft
  <2>3. ~NotSleeping(j)' /\ \A k : k # j => (NotSleeping(k)' <=> NotSleeping(k))
    BY <2>2 DEF NotSleeping
  <2>4. \A k : (NotQueued(k)' <=> NotQueued(k)) /\ (NotDead(k)' <=> NotDead(k)) /\ (New(k)' <=> New(k))
    BY <1>3, <2>2 DEF NotQueued, NotDead, New
  <2>5. \A k \in Jobs : k # j => Stage'[k] = Stage[k]
    BY <1>3, <1>5, <2>3, <2>4, StageSame DEF Waiting
  <2>6. Stage'[j] = "waiting"
    BY <1>4, <1>5, <2>3, <2>4, StageReadNext DEF StageReads, StageOf, Waiting
  <2>7. runs[j] < Limit(j)
    BY <1>2, <1>4, <1>6, <2>2 DEF RunCount
  <2>8. Lifecycle!Again(j)
    BY <1>3, <1>4, <2>5, <2>6, <2>7, OneMoves DEF Lifecycle!Again
  <2>9. QED BY <2>8 DEF Moves
<1>8. CASE DeadPush(w)
  <2>1. PICK r \in Replies :
          /\ Count(r)
          /\ dead' = IF r.applied
                     THEN Append(dead, [job |-> j, attempts |-> a])
                     ELSE dead
    BY <1>2, <1>8 DEF DeadPush
  <2>2. a + 1 >= MaxRetries[j] /\ retries' = retries
    BY <1>2, <1>6, <1>8 DEF DeadPush, RetriesLeft
  <2>3. \A k : (Waiting(k)' <=> Waiting(k)) /\ (New(k)' <=> New(k))
    BY <1>3, <2>2 DEF Waiting, NotQueued, NotSleeping, New
  <2>4. ~Waiting(j)' /\ ~New(j)'
    BY <1>1, <1>2, <2>3, HeldNowhereElse DEF Inv, JobInv, HeldInv, Waiting, New, Begun
  <2>5. CASE r.applied
    <3>1. PICK d : d = [job |-> j, attempts |-> a]
      OBVIOUS
    <3>2. dead' = Append(dead, d) /\ d.job = j
      BY <2>1, <2>5, <3>1
    <3>3. /\ DOMAIN dead = 1 .. Len(dead) /\ Len(dead) \in Nat
          /\ DOMAIN dead' = 1 .. Len(dead) + 1
          /\ \A i \in 1 .. Len(dead) : dead'[i] = dead[i]
          /\ dead'[Len(dead) + 1].job = j
      BY <3>2, DeadEffect DEF Inv, TypeInv
    <3>4. ~NotDead(j)' /\ \A k : k # j => (NotDead(k)' <=> NotDead(k))
      BY <3>3 DEF NotDead
    <3>5. \A k \in Jobs : k # j => Stage'[k] = Stage[k]
      BY <1>3, <1>5, <2>3, <3>4, StageSame
    <3>6. Stage'[j] = "dead"
      BY <1>4, <3>4, StageReadNext DEF StageReads, StageOf
    <3>7. j \in Registered => runs[j] = Limit(j)
      BY <1>2, <1>4, <1>6, <2>2 DEF RunCount
    <3>8. Lifecycle!Bury(j)
      BY <1>3, <1>4, <3>5, <3>6, <3>7, OneMoves DEF Lifecycle!Bury
    <3>9. QED BY <3>8 DEF Moves
  <2>6. CASE ~r.applied
    <3>1. dead' = dead
      BY <2>1, <2>6
    <3>2. \A k : NotDead(k)' <=> NotDead(k)
      BY <3>1 DEF NotDead
    <3>3. \A k \in Jobs : k # j => Stage'[k] = Stage[k]
      BY <1>3, <1>5, <2>3, <3>2, StageSame
    <3>4. Stage'[j] = "gone"
      BY <1>4, <1>5, <2>4, <3>2, StageGone
    <3>5. ~r.ok
      BY <2>6, ReplyOk
    <3>6. faults' > faults
      BY <2>1, <3>5 DEF Count, Inv, TypeInv, TypeOK
    <3>7. QED BY <1>3, <1>4, <3>3, <3>4, <3>6 DEF Loses, Gone, Excused
  <2>7. QED BY <2>5, <2>6
<1>9. QED BY <1>7, <1>8

\* requeue_for_retry: the job waits in a list instead of a sleep, or the
\* command failed.
LEMMA RetryMoves ==
    ASSUME Inv, NEW t \in retries, Retry(t)
    PROVE  Moves \/ Loses
<1> USE DEF history, redis, local
<1>1. UNCHANGED <<dead, producer, wpc, wenv, runs, succeeded>>
  BY DEF Retry, RequeuePush, RequeueMark
<1>2. \A k : /\ NotDead(k)' <=> NotDead(k)
             /\ Running(k)' <=> Running(k)
             /\ Taken(k)' <=> Taken(k)
             /\ New(k)' <=> New(k)
  BY <1>1 DEF NotDead, Running, Taken, At, New
<1>3. CASE RequeueMark(t)
  <2>1. queue' = queue /\ retries' = retries \ {t} /\ t.pc = "mark"
    BY <1>3 DEF RequeueMark
  <2>2. \A k : Waiting(k)' <=> Waiting(k)
    BY <2>1 DEF Waiting, NotQueued, NotSleeping
  <2>3. QED BY <1>1, <1>2, <2>2, StageSame DEF Loses
<1>4. CASE RequeuePush(t)
  <2>1. PICK j \in Jobs, a \in Nat : j = t.env.job /\ a = t.env.attempt
    BY EnvTypes DEF Inv
  <2>2. t.pc = "sleep" /\ t.env \in Envelope
    BY <1>4 DEF RequeuePush, Inv, TypeInv, TypeOK, RetryTask
  <2>3. PICK env : env = [t.env EXCEPT !.attempt = @ + 1]
    OBVIOUS
  <2>4. env \in Envelope /\ env.job = j
    BY <2>1, <2>2, <2>3 DEF Envelope
  <2>5. PICK r \in Replies :
          /\ Count(r)
          /\ queue' = IF r.applied THEN Pushed(env) ELSE queue
          /\ retries' = (retries \ {t}) \union
                        (IF r.ok THEN {[t EXCEPT !.env = env, !.pc = "mark"]} ELSE {})
    BY <1>4, <2>3 DEF RequeuePush
  <2>6. t \in RetryTask
    BY DEF Inv, TypeInv, TypeOK
  <2>7. \A u \in retries' : (u \in retries /\ u # t) \/ u.pc = "mark"
    <3>1. [t EXCEPT !.env = env, !.pc = "mark"].pc = "mark"
      BY <2>6 DEF RetryTask
    <3>2. QED BY <2>5, <3>1
  <2>8. /\ NotSleeping(j)' /\ \A k : k # j => (NotSleeping(k)' <=> NotSleeping(k))
    <3>1. \A u \in retries : u.pc = "sleep" /\ u.env.job = j => u = t
      BY <2>1, <2>2 DEF Inv, JobInv, SleepInv
    <3>2. NotSleeping(j)'
      BY <2>7, <3>1 DEF NotSleeping
    <3>3. ASSUME NEW k, k # j PROVE NotSleeping(k)' <=> NotSleeping(k)
      <4>1. \A u \in retries : u # t => u \in retries'
        BY <2>5
      <4>2. QED BY <2>1, <2>7, <3>3, <4>1 DEF NotSleeping
    <3>4. QED BY <3>2, <3>3
  <2>9. Waiting(j) /\ Stage[j] = "waiting" /\ NotQueued(j)
    <3>1. Waiting(j)
      BY <2>1, <2>2 DEF Waiting, NotSleeping
    <3>2. NotQueued(j)
      BY <2>1, <2>2 DEF NotQueued, NotSleeping, Inv, JobInv, QueueInv
    <3>3. QED BY <3>1, <3>2, StagePlace DEF Inv
  <2>10. j \notin succeeded' /\ NotDead(j)' /\ ~Running(j)' /\ ~Taken(j)' /\ ~New(j)'
    <3>1. j \notin succeeded /\ NotDead(j) /\ ~Running(j) /\ ~Taken(j) /\ ~New(j)
      BY <2>9, StagePlace DEF Inv
    <3>2. QED BY <1>1, <1>2, <3>1
  <2>11. CASE r.applied
    <3> DEFINE p == JobPriority[j]
               n == Len(queue[p])
    <3>1. /\ p \in Priorities /\ n \in Nat /\ DOMAIN queue[p] = 1 .. n
          /\ DOMAIN queue'[p] = 1 .. n + 1 /\ queue'[p][n + 1].job = j
          /\ \A i \in 1 .. n : queue'[p][i] = queue[p][i]
          /\ \A q \in Priorities : q # p => queue'[q] = queue[q]
      BY <2>4, <2>5, <2>11, PushEffect DEF Inv, TypeInv
    <3> HIDE DEF p, n
    <3>2. ~NotQueued(j)'
      BY <3>1 DEF NotQueued
    <3>3. ASSUME NEW k, k # j PROVE NotQueued(k)' <=> NotQueued(k)
      BY <3>1, <3>3 DEF NotQueued
    <3>4. \A k \in Jobs : k # j => Stage'[k] = Stage[k]
      BY <1>1, <1>2, <2>8, <3>3, StageSame DEF Waiting
    <3>5. Stage'[j] = "waiting"
      BY <2>10, <3>2, StageReadNext DEF StageReads, StageOf, Waiting
    <3>6. QED BY <1>1, <2>9, <3>4, <3>5 DEF Loses
  <2>12. CASE ~r.applied
    <3>1. \A k : NotQueued(k)' <=> NotQueued(k)
      BY <2>5, <2>12 DEF NotQueued
    <3>2. \A k \in Jobs : k # j => Stage'[k] = Stage[k]
      BY <1>1, <1>2, <2>8, <3>1, StageSame DEF Waiting
    <3>3. Stage'[j] = "gone"
      BY <2>8, <2>9, <2>10, <3>1, StageGone DEF Waiting
    <3>4. ~r.ok
      BY <2>12, ReplyOk
    <3>5. faults' > faults
      BY <2>5, <3>4 DEF Count, Inv, TypeInv, TypeOK
    <3>6. QED BY <1>1, <2>9, <3>2, <3>3, <3>5 DEF Loses, Gone, Excused
  <2>13. QED BY <2>11, <2>12
<1>5. QED BY <1>3, <1>4 DEF Retry

\* A process starts, stops or dies: what it held, or let sleep, is gone.
LEMMA ProcessMoves ==
    ASSUME Inv, NEW w \in Workers, Process(w)
    PROVE  Moves \/ Loses
<1> USE DEF history, redis, local
<1>1. /\ UNCHANGED <<queue, dead, producer, runs, succeeded>>
      /\ wpc'[w] \notin Hand
      /\ \A v \in Workers : v # w => wpc'[v] = wpc[v] /\ wenv'[v] = wenv[v]
  BY DEF Process, Shutdown, Exit, Crash, Start, Release, Hand, Inv, TypeInv, TypeOK
<1>2. \/ wpc[w] \notin Hand /\ retries' = retries
      \/ wpc[w] \in {"stopped", "panicked"} /\ retries' = retries \ TasksOf(w)
      \/ faults' = faults + 1 /\ retries' = retries \ TasksOf(w)
  BY DEF Process, Shutdown, Exit, Crash, Start, Hand
<1>3. ASSUME NEW k \in Jobs, Stage'[k] # Stage[k] PROVE Gone(k)
  <2>1. \A pcs \in SUBSET Hand, v \in Workers : At(v, pcs, k)' => At(v, pcs, k)
    BY <1>1 DEF At
  <2>2. (Running(k)' => Running(k)) /\ (Taken(k)' => Taken(k))
    <3>1. {"exec", "fail", "timedout"} \in SUBSET Hand /\ {"got"} \in SUBSET Hand
      BY DEF Hand
    <3>2. QED BY <2>1, <3>1 DEF Running, Taken
  <2>3. Waiting(k)' => Waiting(k)
    BY <1>1, <1>2 DEF Waiting, NotQueued, NotSleeping
  <2>4. (NotDead(k)' <=> NotDead(k)) /\ (New(k)' <=> New(k)) /\ (k \in succeeded' <=> k \in succeeded)
    BY <1>1 DEF NotDead, New
  <2>5. \/ Running(k) /\ ~Running(k)'
        \/ Taken(k) /\ ~Taken(k)'
        \/ Waiting(k) /\ ~Waiting(k)'
    BY <1>3, <2>2, <2>3, <2>4, StageSame
  <2>6. /\ Stage[k] \in {"waiting", "taken", "running"}
        /\ k \notin succeeded /\ NotDead(k) /\ ~New(k)
    BY <2>5, StagePlace DEF Inv
  <2>7. ~Running(k)' /\ ~Taken(k)' /\ ~Waiting(k)'
    <3>1. CASE Running(k) /\ ~Running(k)'
      BY <2>2, <2>3, <3>1, StagePlace DEF Inv
    <3>2. CASE Taken(k) /\ ~Taken(k)'
      BY <2>2, <2>3, <3>2, StagePlace DEF Inv
    <3>3. CASE Waiting(k) /\ ~Waiting(k)'
      BY <2>2, <2>3, <3>3, StagePlace DEF Inv
    <3>4. QED BY <2>5, <3>1, <3>2, <3>3
  <2>8. Stage'[k] = "gone"
    BY <2>4, <2>6, <2>7, StageGone
  <2>9. Excused(k)
    <3>1. CASE faults' = faults + 1
      BY <3>1 DEF Excused, Inv, TypeInv, TypeOK
    <3>2. CASE wpc[w] \notin Hand /\ retries' = retries
      <4>1. \A pcs \in SUBSET Hand, v \in Workers : At(v, pcs, k) => At(v, pcs, k)'
        BY <1>1, <3>2 DEF At
      <4>2. (Running(k) => Running(k)') /\ (Taken(k) => Taken(k)')
        <5>1. {"exec", "fail", "timedout"} \in SUBSET Hand /\ {"got"} \in SUBSET Hand
          BY DEF Hand
        <5>2. QED BY <4>1, <5>1 DEF Running, Taken
      <4>3. Waiting(k) => Waiting(k)'
        BY <1>1, <3>2 DEF Waiting, NotQueued, NotSleeping
      <4>4. QED BY <2>5, <4>2, <4>3
    <3>3. CASE wpc[w] \in {"stopped", "panicked"} /\ retries' = retries \ TasksOf(w)
      <4>1. \A pcs \in SUBSET Hand, v \in Workers : At(v, pcs, k) => At(v, pcs, k)'
        BY <1>1, <3>3 DEF At, Hand
      <4>2. (Running(k) => Running(k)') /\ (Taken(k) => Taken(k)')
        <5>1. {"exec", "fail", "timedout"} \in SUBSET Hand /\ {"got"} \in SUBSET Hand
          BY DEF Hand
        <5>2. QED BY <4>1, <5>1 DEF Running, Taken
      <4>3. Waiting(k) /\ ~Waiting(k)'
        BY <2>5, <4>2
      <4>4. NotQueued(k)' <=> NotQueued(k)
        BY <1>1 DEF NotQueued
      <4>5. ~NotSleeping(k) /\ NotSleeping(k)'
        BY <4>3, <4>4 DEF Waiting
      <4>6. PICK t \in retries : t.pc = "sleep" /\ t.env.job = k
        BY <4>5 DEF NotSleeping
      <4>7. t \notin retries'
        BY <4>5, <4>6 DEF NotSleeping
      <4>8. t.proc = w
        BY <3>3, <4>7 DEF TasksOf
      <4>9. QED BY <3>3, <4>6, <4>8 DEF Excused
    <3>4. QED BY <1>2, <3>1, <3>2, <3>3
  <2>10. QED BY <2>6, <2>8, <2>9 DEF Gone
<1>4. QED BY <1>1, <1>3 DEF Loses

-----------------------------------------------------------------------------
\* Only jobs that have a handler are executed.
LEMMA ExecStep == Inv /\ [Next]_vars => ExecInv'
<1> SUFFICES ASSUME Inv, [Next]_vars PROVE ExecInv'
  OBVIOUS
<1> USE DEF history, redis, local, ExecInv, Inv, TypeInv, TypeOK
<1>1. CASE UNCHANGED vars
  BY <1>1 DEF vars
<1>2. CASE \E j \in Jobs : Enqueue(j) \/ ProducerDies(j) \/ Lapse(j)
  BY <1>2 DEF Enqueue, EnqueueStore, EnqueueExpire, EnqueuePush, ProducerDies, Lapse
<1>3. CASE \E w \in Workers : Poll(w)
  BY <1>3 DEF Poll, PollStart, Dequeue, Release
<1>4. CASE \E w \in Workers : ProcessJob(w)
  <2>1. PICK w \in Workers : ProcessJob(w)
    BY <1>4
  <2>2. CASE MarkRunning(w)
    BY <2>2 DEF MarkRunning, Release
  <2>3. CASE ~MarkRunning(w)
    BY <2>1, <2>3 DEF ProcessJob, HandlerOk, HandlerErr, HandlerTimeout, HandlerFails, HandlerPanic,
       MarkCompleted, ScheduleRetry, DeadPush, DeadMark, Release
  <2>4. QED BY <2>2, <2>3
<1>5. CASE \E w \in Workers : Process(w)
  BY <1>5 DEF Process, Shutdown, Exit, Crash, Start, Release
<1>6. CASE \E t \in retries : Retry(t)
  BY <1>6 DEF Retry, RequeuePush, RequeueMark
<1>7. QED BY <1>1, <1>2, <1>3, <1>4, <1>5, <1>6 DEF Next

LEMMA InvHolds == Spec => []Inv
<1>1. Init => Inv
  <2>1. Init => ExecInv
    BY DEF Init, ExecInv
  <2>2. QED BY <2>1, TypeInit, JobInit DEF Inv
<1>2. Inv /\ [Next]_vars => Inv'
  BY TypeStep, JobStep, ExecStep DEF Inv
<1>3. QED BY <1>1, <1>2, PTL DEF Spec

LEMMA StepMoves == Inv /\ [Next]_vars => Moves \/ Loses
<1> SUFFICES ASSUME Inv, [Next]_vars PROVE Moves \/ Loses
  OBVIOUS
<1>1. CASE UNCHANGED vars
  <2>1. UNCHANGED <<queue, dead, producer, wpc, wenv, retries, runs, succeeded>>
    BY <1>1 DEF vars
  <2>2. ASSUME NEW k \in Jobs PROVE Stage'[k] = Stage[k]
    BY <2>1, StageSame DEF Running, Taken, At, Waiting, NotQueued, NotSleeping, NotDead, New
  <2>3. QED BY <2>1, <2>2 DEF Loses
<1>2. CASE \E j \in Jobs : Enqueue(j) \/ ProducerDies(j) \/ Lapse(j)
  BY <1>2, EnqueueMoves
<1>3. CASE \E w \in Workers : Poll(w) \/ Process(w)
  BY <1>3, PollMoves, ProcessMoves
<1>4. CASE \E w \in Workers : ProcessJob(w)
  BY <1>4, RunMoves, MarkMoves, FailureMoves DEF ProcessJob
<1>5. CASE \E t \in retries : Retry(t)
  BY <1>5, RetryMoves
<1>6. QED BY <1>1, <1>2, <1>3, <1>4, <1>5 DEF Next

\* JobQueue (queue.rs, worker.rs) implements JobLifecycle: through every
\* interleaving, failed command, panic, exit and crash a job is accepted once,
\* held by one Worker, started at most Limit times, and stays where it ended.
THEOREM LifecycleImplemented == Spec => ImplementsLifecycle
<1>1. Init => Lifecycle!Init
  <2> SUFFICES ASSUME Init PROVE Lifecycle!Init
    OBVIOUS
  <2>1. ASSUME NEW j \in Jobs PROVE Stage[j] = "new"
    <3>1. TypeInv /\ JobInv
      BY TypeInit, JobInit
    <3>2. New(j)
      BY DEF Init, New
    <3>3. QED BY <3>1, <3>2, StagePlace
  <2>2. Stage = [j \in Jobs |-> "new"]
    BY <2>1 DEF Stage
  <2>3. QED BY <2>2 DEF Init, Lifecycle!Init
<1>2. Inv /\ [Next]_vars => [Lifecycle!Next]_<<Stage, runs>>
  <2> SUFFICES ASSUME Inv, [Next]_vars PROVE [Lifecycle!Next]_<<Stage, runs>>
    OBVIOUS
  <2>1. CASE Moves
    BY <2>1 DEF Moves, Lifecycle!Next
  <2>2. CASE Loses
    <3>1. PICK S \in SUBSET Jobs : \A j \in Jobs : j \in S <=> Stage'[j] # Stage[j]
      <4>1. {j \in Jobs : Stage'[j] # Stage[j]} \in SUBSET Jobs
        OBVIOUS
      <4>2. QED BY <4>1
    <3>2. \A j \in S : Stage[j] \in {"waiting", "taken", "running"} /\ Stage'[j] = "gone"
      BY <2>2, <3>1 DEF Loses, Gone
    <3>3. Stage' = [j \in Jobs |-> IF j \in S THEN "gone" ELSE Stage[j]]
      <4>1. Stage' = [j \in Jobs |-> Stage'[j]]
        BY DEF Stage
      <4>2. QED BY <3>1, <3>2, <4>1
    <3>4. Lifecycle!Lose(S)
      BY <2>2, <3>2, <3>3 DEF Loses, Lifecycle!Lose
    <3>5. QED BY <3>4 DEF Lifecycle!Next
  <2>3. QED BY <2>1, <2>2, StepMoves
<1>3. QED BY <1>1, <1>2, InvHolds, PTL DEF Spec, ImplementsLifecycle, Lifecycle!Spec

\* Accounted, in stages.
Known(j) == Stage[j] \in {"waiting", "taken", "running", "dead", "done"}

AccountsAgree == \A j \in Jobs : Accounted(j) <=> Known(j)

LEMMA AccountedKnown == Inv => AccountsAgree
<1> SUFFICES ASSUME Inv, NEW j \in Jobs PROVE Accounted(j) <=> Known(j)
  BY DEF AccountsAgree
<1>1. /\ j \in DeadJobs <=> ~NotDead(j)
      /\ j \in QueuedJobs \union SleepingJobs <=> Waiting(j)
  BY DEF DeadJobs, QueuedJobs, SleepingJobs, Queued, Elements, NotDead, Waiting, NotQueued, NotSleeping
<1>2. j \in HeldJobs => Running(j) \/ Taken(j) \/ j \in succeeded
  <2>1. ASSUME NEW w \in Workers, Holds(w), wenv[w].job = j
        PROVE  Running(j) \/ Taken(j) \/ j \in succeeded
    <3>1. wpc[w] = "ok" => j \in succeeded
      BY <2>1 DEF Inv, JobInv, HeldInv
    <3>2. QED BY <2>1, <3>1 DEF Running, Taken, At, Holds
  <2>2. QED BY <2>1 DEF HeldJobs
<1>3. Running(j) \/ Taken(j) => j \in HeldJobs
  BY DEF Running, Taken, At, HeldJobs, Holds
<1>4. Accounted(j) => Known(j)
  BY <1>1, <1>2, StagePlace DEF Inv, Accounted, Known
<1>5. ~Accounted(j) => ~Known(j)
  <2>1. Stage[j] = StageOf(j)
    BY StageRead DEF StageReads
  <2>2. QED BY <1>1, <1>3, <2>1 DEF Accounted, StageOf, Known
<1>6. QED BY <1>4, <1>5

\* A job that enqueue accepted disappears only by a failed command, a crash or
\* a panic, or while it sleeps in a backoff of a process that exits.
THEOREM NothingLostSilently == Spec => NoSilentLoss
<1> DEFINE Excuses(j) == Accounted(j) /\ ~Accounted(j)' =>
             \/ faults' > faults
             \/ \E t \in retries : /\ t.env.job = j /\ t.pc = "sleep"
                                   /\ wpc[t.proc] \in {"stopped", "panicked"}
<1>0. (Inv => AccountsAgree)'
  BY AccountedKnown, PTL
<1>1. Inv /\ Inv' /\ [Next]_vars => \A j \in Jobs : Excuses(j)
  <2> SUFFICES ASSUME Inv, Inv', [Next]_vars, NEW j \in Jobs, Accounted(j), ~Accounted(j)'
               PROVE  Excused(j)
    BY DEF Excused
  <2>1. Known(j)
    BY AccountedKnown DEF AccountsAgree
  <2>2. ~Known(j)'
    BY <1>0 DEF AccountsAgree
  <2>3. CASE Loses
    BY <2>1, <2>2, <2>3 DEF Loses, Gone, Known
  <2>4. CASE Moves
    <3>1. PICK k \in Jobs : \/ Lifecycle!Accept(k) \/ Lifecycle!Refuse(k)
                            \/ Lifecycle!Take(k) \/ Lifecycle!Run(k)
                            \/ Lifecycle!Finish(k) \/ Lifecycle!Again(k) \/ Lifecycle!Bury(k)
      BY <2>4 DEF Moves
    <3>2. DOMAIN Stage = Jobs
      BY StageRead DEF StageReads
    <3>3. \/ Stage[k] = "new"
          \/ \E s \in {"taken", "running", "done", "waiting", "dead"} : Stage' = [Stage EXCEPT ![k] = s]
      BY <3>1 DEF Lifecycle!Accept, Lifecycle!Refuse, Lifecycle!Take, Lifecycle!Run,
                  Lifecycle!Finish, Lifecycle!Again, Lifecycle!Bury
    <3>4. \E s : Stage' = [Stage EXCEPT ![k] = s]
      BY <3>1 DEF Lifecycle!Accept, Lifecycle!Refuse, Lifecycle!Take, Lifecycle!Run,
                  Lifecycle!Finish, Lifecycle!Again, Lifecycle!Bury
    <3>5. CASE k = j
      BY <2>1, <2>2, <3>2, <3>3, <3>5 DEF Known
    <3>6. CASE k # j
      BY <2>1, <2>2, <3>2, <3>4, <3>6 DEF Known
    <3>7. QED BY <3>5, <3>6
  <2>5. QED BY <2>3, <2>4, StepMoves
<1>2. Inv /\ Inv' /\ [Next]_vars => [\A j \in Jobs : Excuses(j)]_vars
  BY <1>1
<1>3. QED BY <1>2, InvHolds, PTL DEF Spec, NoSilentLoss

-----------------------------------------------------------------------------
(* Priorities are served strictly. *)

\* The envelopes that are queued, in a Worker's hand or asleep.
Copies == Queued \union {wenv[w] : w \in {v \in Workers : Holds(v)}}
                 \union {t.env : t \in {u \in retries : u.pc = "sleep"}}

\* What a poll saw queued is of a job whose enqueue call has ended, has not been
\* given a later attempt than any copy of the job now has, and, if it is still
\* queued, is not in a list that the poll has passed.
SeenAt(w) == wpc[w] = "poll" => \A env \in seen[w] :
    /\ Begun(env.job)
    /\ \A c \in Copies : c.job = env.job => env.attempt <= c.attempt
    /\ env \in Queued => widx[w] <= Rank(env.job)

SeenInv == \A w \in Workers : SeenAt(w)

\* The rank of a job's priority is the place of its list in poll_once's order.
LEMMA RankPlace ==
    \A j \in Jobs :
       Rank(j) \in 1 .. 4 /\ \A i \in 1 .. 4 : PriorityOrder[i] = JobPriority[j] <=> i = Rank(j)
<1>1. ASSUME NEW j \in Jobs
      PROVE  Rank(j) \in 1 .. 4 /\ \A i \in 1 .. 4 : PriorityOrder[i] = JobPriority[j] <=> i = Rank(j)
  <2>1. JobPriority[j] \in Priorities
    BY PriorityAssumption
  <2>2. \A p \in Priorities :
           LET n == [critical |-> 1, high |-> 2, normal |-> 3, low |-> 4][p]
           IN  n \in 1 .. 4 /\ \A i \in 1 .. 4 : PriorityOrder[i] = p <=> i = n
    BY DEF PriorityOrder, Priorities
  <2>3. QED BY <2>1, <2>2 DEF Rank
<1>2. QED BY <1>1

\* Each copy is an envelope, and the one queued copy of a job is its only one.
LEMMA CopiesTyped ==
    ASSUME TypeInv
    PROVE  \A c \in Copies : c.job \in Jobs /\ c.attempt \in Nat
  BY EnvTypes DEF Copies, Queued, Elements

LEMMA CopiesTypedNext == (TypeInv => \A c \in Copies : c.job \in Jobs /\ c.attempt \in Nat)'
<1>1. TypeInv => \A c \in Copies : c.job \in Jobs /\ c.attempt \in Nat
  BY CopiesTyped
<1>2. QED BY <1>1, PTL

LEMMA QueuedAlone ==
    ASSUME TypeInv, JobInv, NEW env \in Queued
    PROVE  /\ Begun(env.job)
           /\ \A c \in Copies : c.job = env.job => c = env
<1>p. PICK p \in Priorities : env \in Elements(queue[p])
  BY DEF Queued
<1>1. PICK i \in DOMAIN queue[p] : env = queue[p][i]
  BY <1>p DEF Elements
<1>2. /\ JobPriority[env.job] = p /\ Begun(env.job) /\ NotHeld(env.job) /\ NotSleeping(env.job)
      /\ \A k \in DOMAIN queue[p] : queue[p][k].job = env.job => k = i
  BY <1>1 DEF JobInv, QueueInv
<1>3. ASSUME NEW q \in Priorities, NEW k \in DOMAIN queue[q], queue[q][k].job = env.job
      PROVE  queue[q][k] = env
  <2>1. JobPriority[env.job] = q
    BY <1>3 DEF JobInv, QueueInv
  <2>2. QED BY <1>1, <1>2, <1>3, <2>1
<1>4. QED BY <1>2, <1>3 DEF Copies, Queued, Elements, NotHeld, NotSleeping

\* Copies come from copies that are no later, what is newly queued is later, and
\* only a call that has not ended makes a first copy.
NothingOlder ==
    /\ \A k \in Jobs : Begun(k) => Begun(k)'
    /\ \A c \in Copies' : ~Begun(c.job) \/ \E d \in Copies : d.job = c.job /\ d.attempt <= c.attempt
    /\ \A c \in Queued' : \/ c \in Queued \/ ~Begun(c.job)
                          \/ \E d \in Copies : d.job = c.job /\ d.attempt < c.attempt

\* A poll that goes on at the same list.
GoesOn(w) == wpc'[w] = "poll" => wpc[w] = "poll" /\ seen'[w] = seen[w] /\ widx'[w] = widx[w]

LEMMA SeenFrame ==
    ASSUME TypeInv, TypeInv', NEW w \in Workers, SeenAt(w), NothingOlder, GoesOn(w)
    PROVE  SeenAt(w)'
<1> SUFFICES ASSUME wpc'[w] = "poll", NEW env \in seen'[w]
             PROVE  /\ Begun(env.job)'
                    /\ \A c \in Copies' : c.job = env.job => env.attempt <= c.attempt
                    /\ env \in Queued' => widx'[w] <= Rank(env.job)
  BY DEF SeenAt
<1>1. /\ wpc[w] = "poll" /\ env \in seen[w] /\ widx'[w] = widx[w]
      /\ Begun(env.job) /\ \A c \in Copies : c.job = env.job => env.attempt <= c.attempt
      /\ env \in Queued => widx[w] <= Rank(env.job)
  BY DEF SeenAt, GoesOn
<1>2. env.attempt \in Nat
  BY <1>1 DEF TypeInv, TypeOK, Envelope
<1>3. ASSUME NEW c \in Copies', c.job = env.job PROVE env.attempt <= c.attempt
  <2>1. PICK d \in Copies : d.job = c.job /\ d.attempt <= c.attempt
    BY <1>1, <1>3 DEF NothingOlder
  <2>2. c.attempt \in Nat
    BY CopiesTypedNext
  <2>3. d.attempt \in Nat
    BY CopiesTyped
  <2>4. env.attempt <= d.attempt
    BY <1>1, <1>3, <2>1
  <2>5. QED BY <1>2, <2>1, <2>2, <2>3, <2>4
<1>4. env \in Queued' => env \in Queued
  <2>1. ASSUME NEW d \in Copies, d.job = env.job, d.attempt < env.attempt PROVE FALSE
    <3>1. env.attempt <= d.attempt /\ d.attempt \in Nat
      BY <1>1, <2>1, CopiesTyped
    <3>2. QED BY <1>2, <2>1, <3>1
  <2>2. QED BY <1>1, <2>1 DEF NothingOlder
<1>5. Begun(env.job)'
  <2>1. env.job \in Jobs
    BY <1>1 DEF TypeInv, TypeOK, Envelope
  <2>2. QED BY <1>1, <2>1 DEF NothingOlder
<1>6. QED BY <1>1, <1>3, <1>4, <1>5

\* RPUSH adds its envelope, LPOP takes the head away.
LEMMA PushQueued ==
    ASSUME TypeOK, NEW env \in Envelope, queue' = Pushed(env)
    PROVE  Queued' \subseteq Queued \union {env}
<1> SUFFICES ASSUME NEW p \in Priorities, NEW i \in DOMAIN queue'[p], queue'[p][i] # env
             PROVE  queue'[p][i] \in Elements(queue[p])
  BY DEF Queued, Elements
<1>1. CASE p = JobPriority[env.job]
  <2>1. /\ i \in 1 .. Len(queue[p]) + 1 /\ Len(queue[p]) \in Nat
        /\ i # Len(queue[p]) + 1
    BY <1>1, PushEffect
  <2>2. i \in 1 .. Len(queue[p])
    BY <2>1
  <2>3. i \in DOMAIN queue[p] /\ queue'[p][i] = queue[p][i]
    BY <1>1, <2>2, PushEffect
  <2>4. QED BY <2>3 DEF Elements
<1>2. CASE p # JobPriority[env.job]
  BY <1>2, PushEffect DEF Elements
<1>3. QED BY <1>1, <1>2

LEMMA PopQueued ==
    ASSUME TypeOK, NEW p \in Priorities, queue[p] # <<>>
    PROVE  /\ Head(queue[p]) \in Queued
           /\ queue' = Popped(p) => Queued' \subseteq Queued
<1>1. Head(queue[p]) \in Queued
  BY PopEffect DEF Queued, Elements
<1>2. ASSUME queue' = Popped(p), NEW q \in Priorities, NEW i \in DOMAIN queue'[q]
      PROVE  queue'[q][i] \in Elements(queue[q])
  <2>1. CASE q # p
    BY <1>2, <2>1, PopEffect DEF Elements
  <2>2. CASE q = p
    <3>1. i \in 1 .. Len(queue[p]) - 1 /\ Len(queue[p]) \in Nat \ {0}
      BY <1>2, <2>2, PopEffect
    <3>2. i + 1 \in 1 .. Len(queue[p])
      BY <3>1
    <3>3. i + 1 \in DOMAIN queue[p] /\ queue'[p][i] = queue[p][i + 1]
      BY <1>2, <3>1, <3>2, PopEffect
    <3>4. QED BY <2>2, <3>3 DEF Elements
  <2>3. QED BY <2>1, <2>2
<1>3. QED BY <1>1, <1>2 DEF Queued, Elements

\* Nothing is queued and no copy is new.
LEMMA NoNewCopy ==
    ASSUME TypeInv, \A k \in Jobs : Begun(k) => Begun(k)',
           Queued' \subseteq Queued, Copies' \subseteq Copies
    PROVE  NothingOlder
  BY CopiesTyped DEF NothingOlder

LEMMA SeenEnqueue ==
    ASSUME TypeInv, NEW j \in Jobs, Enqueue(j) \/ ProducerDies(j) \/ Lapse(j)
    PROVE  NothingOlder /\ \A w \in Workers : GoesOn(w)
<1> USE DEF history, redis, local
<1>a. UNCHANGED <<wpc, widx, wenv, retries, seen>>
  BY DEF Enqueue, EnqueueStore, EnqueueExpire, EnqueuePush, ProducerDies, Lapse
<1>b. \/ producer' = producer
      \/ ~Begun(j) /\ \E s : producer' = [producer EXCEPT ![j] = s]
  BY DEF Enqueue, EnqueueStore, EnqueueExpire, EnqueuePush, ProducerDies, Lapse, Begun
<1>c. DOMAIN producer = Jobs
  BY DEF TypeInv, TypeOK
<1>d. ASSUME NEW k \in Jobs, Begun(k) PROVE Begun(k)'
  <2>1. producer'[k] = producer[k]
    BY <1>b, <1>c, <1>d
  <2>2. QED BY <1>d, <2>1 DEF Begun
<1>1. UNCHANGED <<wpc, widx, wenv, retries, seen>> /\ \A k \in Jobs : Begun(k) => Begun(k)'
  BY <1>a, <1>d
<1>2. \A w \in Workers : GoesOn(w)
  BY <1>1 DEF GoesOn
<1>3. \/ queue' = queue
      \/ queue' = Pushed([job |-> j, attempt |-> 0]) /\ ~Begun(j)
  BY DEF Enqueue, EnqueueStore, EnqueueExpire, EnqueuePush, ProducerDies, Lapse, Begun
<1>5. \A c \in Copies' : c \in Queued' \/ c \in Copies
  BY <1>1 DEF Copies, Holds
<1>6. CASE queue' = queue
  <2>1. Queued' = Queued
    BY <1>6 DEF Queued
  <2>2. QED BY <1>1, <1>2, <1>5, <2>1, NoNewCopy DEF Copies
<1>7. CASE queue' = Pushed([job |-> j, attempt |-> 0]) /\ ~Begun(j)
  <2>1. Queued' \subseteq Queued \union {[job |-> j, attempt |-> 0]}
    <3>1. [job |-> j, attempt |-> 0] \in Envelope
      BY DEF Envelope
    <3>2. QED BY <1>7, <3>1, PushQueued DEF TypeInv
  <2>2. \A c \in Queued' : c \in Queued \/ ~Begun(c.job)
    BY <1>7, <2>1
  <2>3. Queued \subseteq Copies
    BY DEF Copies
  <2>4. \A c \in Copies : \E d \in Copies : d.job = c.job /\ d.attempt <= c.attempt
    BY CopiesTyped
  <2>5. QED BY <1>1, <1>2, <1>5, <2>2, <2>3, <2>4 DEF NothingOlder
<1>8. QED BY <1>3, <1>6, <1>7

\* A poll begins: it sees what is queued, and has passed no list.
LEMMA SeenStart ==
    ASSUME TypeInv, TypeInv', JobInv, SeenInv, NEW w \in Workers, PollStart(w)
    PROVE  SeenInv'
<1> USE DEF history, redis, local
<1>1. /\ UNCHANGED <<queue, producer, wenv, retries>>
      /\ wpc' = [wpc EXCEPT ![w] = "poll"] /\ wpc[w] = "idle"
      /\ seen' = [seen EXCEPT ![w] = Queued] /\ widx' = [widx EXCEPT ![w] = 1]
  BY DEF PollStart
<1>2. Queued' = Queued /\ Copies' = Copies /\ \A k : Begun(k)' <=> Begun(k)
  <2>1. \A v \in Workers : Holds(v)' <=> Holds(v)
    BY <1>1 DEF Holds, TypeInv, TypeOK
  <2>2. QED BY <1>1, <2>1 DEF Queued, Copies, Begun
<1>3. NothingOlder
  BY <1>2, NoNewCopy
<1>4. \A v \in Workers : v # w => GoesOn(v)
  BY <1>1 DEF GoesOn, TypeInv, TypeOK
<1>5. SeenAt(w)'
  <2>1. seen'[w] = Queued /\ widx'[w] = 1
    BY <1>1 DEF TypeInv, TypeOK
  <2>2. ASSUME NEW env \in Queued
        PROVE  /\ Begun(env.job) /\ \A c \in Copies : c.job = env.job => env.attempt <= c.attempt
               /\ 1 <= Rank(env.job)
    <3>1. env \in Copies /\ env.job \in Jobs /\ env.attempt \in Nat
      BY CopiesTyped DEF Copies
    <3>2. QED BY <3>1, QueuedAlone, RankPlace
  <2>3. QED BY <1>2, <2>1, <2>2 DEF SeenAt
<1>6. QED BY <1>3, <1>4, <1>5, SeenFrame DEF SeenInv

\* LPOP of the next list: a poll goes on behind an empty list only, where none of
\* what it saw can be; and what it takes is of the list's priority.
LEMMA SeenDequeue ==
    ASSUME TypeInv, TypeInv', JobInv, SeenInv, NEW w \in Workers, Dequeue(w)
    PROVE  /\ SeenInv'
           /\ wpc'[w] = "got" => \A env \in seen[w] \cap Queued' : Rank(env.job) >= Rank(wenv'[w].job)
<1> DEFINE p == PriorityOrder[widx[w]]
<1>1. wpc[w] = "poll" /\ widx[w] \in 1 .. 4 /\ p \in Priorities
  BY OrderRange, OrderLen DEF Dequeue, TypeInv, HandInv
<1>2. PICK r \in Replies :
        /\ queue' = IF r.applied /\ ~(queue[p] = <<>>) THEN Popped(p) ELSE queue
        /\ \/ /\ r.ok /\ ~(queue[p] = <<>>)
              /\ wpc' = [wpc EXCEPT ![w] = "got"]
              /\ wenv' = [wenv EXCEPT ![w] = Head(queue[p])]
              /\ PollEnd(w)
           \/ /\ queue[p] = <<>>
              /\ widx' = [widx EXCEPT ![w] = @ + 1]
              /\ UNCHANGED <<wpc, wenv, seen>>
           \/ Release(w, "idle") /\ PollEnd(w)
  BY DEF Dequeue
<1>3. UNCHANGED <<producer, retries>>
  BY DEF Dequeue
<1> HIDE DEF p
<1>4. Queued' \subseteq Queued
  <2>1. CASE queue' = queue
    BY <2>1 DEF Queued
  <2>2. CASE queue' # queue
    BY <1>1, <1>2, <2>2, PopQueued DEF TypeInv
  <2>3. QED BY <2>1, <2>2
<1>5. \A v \in Workers : v # w => wpc'[v] = wpc[v] /\ wenv'[v] = wenv[v] /\ GoesOn(v)
  <2>1. DOMAIN wpc = Workers /\ DOMAIN wenv = Workers /\ DOMAIN seen = Workers /\ DOMAIN widx = Workers
    BY DEF TypeInv, TypeOK
  <2>2. /\ wpc' = wpc \/ \E x : wpc' = [wpc EXCEPT ![w] = x]
        /\ wenv' = wenv \/ \E x : wenv' = [wenv EXCEPT ![w] = x]
        /\ seen' = seen \/ \E x : seen' = [seen EXCEPT ![w] = x]
        /\ \E x : widx' = [widx EXCEPT ![w] = x]
    BY <1>2 DEF Release, PollEnd
  <2>3. QED BY <2>1, <2>2 DEF GoesOn
<1>6. Copies' \subseteq Copies
  <2>1. ASSUME NEW v \in Workers, Holds(v)' PROVE wenv'[v] \in Copies
    <3>1. CASE v # w
      BY <1>5, <2>1, <3>1 DEF Copies, Holds
    <3>2. CASE v = w
      <4>1. wenv'[w] = Head(queue[p]) /\ queue[p] # <<>>
        BY <1>1, <1>2, <2>1, <3>2 DEF Holds, Release, TypeInv, TypeOK
      <4>2. QED BY <1>1, <3>2, <4>1, PopQueued DEF Copies, TypeInv
    <3>3. QED BY <3>1, <3>2
  <2>2. QED BY <1>3, <1>4, <2>1 DEF Copies
<1>7. NothingOlder
  BY <1>3, <1>4, <1>6, NoNewCopy DEF Begun
<1>8. ASSUME NEW env \in seen[w], env \in Queued
      PROVE  /\ env.job \in Jobs /\ widx[w] <= Rank(env.job)
             /\ queue[p] = <<>> => widx[w] # Rank(env.job)
  <2>1. env.job \in Jobs /\ widx[w] <= Rank(env.job)
    BY <1>1, <1>8, CopiesTyped DEF SeenInv, SeenAt, Copies
  <2>2. PICK q \in Priorities : env \in Elements(queue[q])
    BY <1>8 DEF Queued
  <2>3. JobPriority[env.job] = q
    BY <2>2 DEF Elements, JobInv, QueueInv
  <2>4. queue[q] # <<>>
    BY <2>2 DEF Elements
  <2>5. QED BY <1>1, <2>1, <2>3, <2>4, RankPlace DEF p
<1>9. SeenAt(w)'
  <2>1. CASE wpc'[w] # "poll"
    BY <2>1 DEF SeenAt
  <2>2. CASE wpc'[w] = "poll"
    <3>1. queue[p] = <<>> /\ widx'[w] = widx[w] + 1 /\ UNCHANGED <<queue, wpc, wenv, seen>>
      BY <1>1, <1>2, <2>2 DEF Release, TypeInv, TypeOK
    <3>2. Copies' = Copies /\ Queued' = Queued /\ \A k : Begun(k)' <=> Begun(k)
      BY <1>3, <3>1 DEF Copies, Queued, Begun, Holds
    <3>3. ASSUME NEW env \in seen[w]
          PROVE  /\ Begun(env.job) /\ \A c \in Copies : c.job = env.job => env.attempt <= c.attempt
                 /\ env \in Queued => widx[w] + 1 <= Rank(env.job)
      <4>1. /\ Begun(env.job) /\ \A c \in Copies : c.job = env.job => env.attempt <= c.attempt
        BY <1>1 DEF SeenInv, SeenAt
      <4>2. env \in Queued => widx[w] + 1 <= Rank(env.job)
        BY <1>1, <1>8, <3>1, RankPlace
      <4>3. QED BY <4>1, <4>2
    <3>4. QED BY <3>1, <3>2, <3>3 DEF SeenAt
  <2>3. QED BY <2>1, <2>2
<1>10. SeenInv'
  BY <1>5, <1>7, <1>9, SeenFrame DEF SeenInv
<1>11. ASSUME wpc'[w] = "got", NEW env \in seen[w] \cap Queued'
       PROVE  Rank(env.job) >= Rank(wenv'[w].job)
  <2>1. wenv'[w] = Head(queue[p]) /\ queue[p] # <<>>
    BY <1>1, <1>2, <1>11 DEF Release, TypeInv, TypeOK
  <2>2. 1 \in DOMAIN queue[p] /\ Head(queue[p]) = queue[p][1]
    BY <1>1, <2>1, PopEffect DEF TypeInv
  <2>3. JobPriority[wenv'[w].job] = p /\ wenv'[w].job \in Jobs
    BY <1>1, <2>1, <2>2, EnvTypes DEF JobInv, QueueInv
  <2>4. Rank(wenv'[w].job) = widx[w]
    BY <1>1, <2>3, RankPlace DEF p
  <2>5. env.job \in Jobs /\ widx[w] <= Rank(env.job)
    BY <1>4, <1>8, <1>11
  <2>6. QED BY <1>1, <2>4, <2>5, RankPlace
<1>12. QED BY <1>10, <1>11

\* A Worker goes on with its envelope, lets go of it or hands it to a retry task.
LEMMA SeenWork ==
    ASSUME TypeInv, NEW w \in Workers, ProcessJob(w) \/ Process(w)
    PROVE  NothingOlder /\ \A v \in Workers : GoesOn(v)
<1> USE DEF history, redis, local
<1> USE DEF TypeInv, TypeOK
<1>1. UNCHANGED <<queue, producer>>
  BY DEF ProcessJob, MarkRunning, HandlerOk, HandlerErr, HandlerTimeout, HandlerFails, HandlerPanic,
     MarkCompleted, ScheduleRetry, DeadPush, DeadMark, Process, Shutdown, Exit, Crash, Start
<1>2. \A v \in Workers : v # w => wpc'[v] = wpc[v] /\ wenv'[v] = wenv[v] /\ GoesOn(v)
  <2>1. CASE Process(w)
    BY <2>1 DEF Process, Shutdown, Exit, Crash, Start, Release, PollEnd, GoesOn
  <2>2. CASE MarkRunning(w)
    BY <2>2 DEF MarkRunning, Release, GoesOn
  <2>3. CASE ProcessJob(w) /\ ~MarkRunning(w)
    BY <2>3 DEF ProcessJob, HandlerOk, HandlerErr, HandlerTimeout, HandlerFails, HandlerPanic,
       MarkCompleted, ScheduleRetry, DeadPush, DeadMark, Release, GoesOn
  <2>4. QED BY <2>1, <2>2, <2>3
<1>3. /\ wpc'[w] # "poll"
      /\ Holds(w)' => Holds(w) /\ wenv'[w] = wenv[w]
      /\ \A t \in retries' : t \in retries \/ (t.env = wenv[w] /\ Holds(w))
  <2>1. CASE Process(w)
    <3>1. /\ \E pc \in {"stopped", "down", "idle"} : wpc' = [wpc EXCEPT ![w] = pc]
          /\ retries' \subseteq retries
      BY <2>1 DEF Process, Shutdown, Exit, Crash, Start, Release
    <3>2. wpc'[w] \notin {"poll", "got", "exec", "ok", "fail", "timedout"}
      <4>1. DOMAIN wpc = Workers
        OBVIOUS
      <4> HIDE DEF TypeInv, TypeOK
      <4>2. QED BY <3>1, <4>1
    <3>3. QED BY <3>1, <3>2 DEF Holds
  <2>2. CASE MarkRunning(w)
    BY <2>2 DEF MarkRunning, Release, Holds
  <2>3. CASE ScheduleRetry(w)
    BY <2>3 DEF ScheduleRetry, Failed, Release, Holds
  <2>4. CASE HandlerOk(w) \/ HandlerErr(w) \/ HandlerTimeout(w)
    BY <2>4 DEF HandlerOk, HandlerErr, HandlerTimeout, HandlerFails, Holds
  <2>5. CASE HandlerPanic(w) \/ MarkCompleted(w) \/ DeadPush(w) \/ DeadMark(w)
    <3>1. /\ retries' = retries
          /\ \E pc \in {"panicked", "idle", "deadmark"} : wpc' = [wpc EXCEPT ![w] = pc]
      BY <2>5 DEF HandlerPanic, MarkCompleted, DeadPush, DeadMark, Release
    <3>2. wpc'[w] \notin {"poll", "got", "exec", "ok", "fail", "timedout"}
      <4>1. DOMAIN wpc = Workers
        OBVIOUS
      <4> HIDE DEF TypeInv, TypeOK
      <4>2. QED BY <3>1, <4>1
    <3>3. QED BY <3>1, <3>2 DEF Holds
  <2>6. QED BY <2>1, <2>2, <2>3, <2>4, <2>5 DEF ProcessJob
<1>4. Queued' = Queued /\ \A k : Begun(k)' <=> Begun(k)
  BY <1>1 DEF Queued, Begun
<1>5. Copies' \subseteq Copies
  <2>1. \A v \in Workers : Holds(v)' => Holds(v) /\ wenv'[v] = wenv[v]
    BY <1>2, <1>3 DEF Holds
  <2>2. \A t \in retries' : t.pc = "sleep" => t.env \in Copies
    <3>1. \A t \in retries' : t.pc = "sleep" =>
             (t \in retries /\ t.pc = "sleep") \/ (t.env = wenv[w] /\ Holds(w))
      BY <1>3
    <3>2. QED BY <3>1 DEF Copies
  <2>3. ASSUME NEW c \in Copies', c \notin Queued' PROVE c \in Copies
    <3>1. CASE \E v \in Workers : Holds(v)' /\ c = wenv'[v]
      BY <2>1, <3>1 DEF Copies
    <3>2. CASE \E t \in retries' : t.pc = "sleep" /\ c = t.env
      BY <2>2, <3>2
    <3>3. QED BY <2>3, <3>1, <3>2 DEF Copies
  <2>4. QED BY <1>4, <2>3 DEF Copies
<1>6. QED BY <1>2, <1>3, <1>4, <1>5, NoNewCopy DEF GoesOn

\* A retry task pushes a later attempt than the one it sleeps with.
LEMMA SeenRetry ==
    ASSUME TypeInv, NEW t \in retries, Retry(t)
    PROVE  NothingOlder /\ \A w \in Workers : GoesOn(w)
<1> DEFINE env == [t.env EXCEPT !.attempt = @ + 1]
<1>1. UNCHANGED <<producer, wpc, widx, wenv, seen>>
  BY DEF Retry, RequeuePush, RequeueMark, history
<1>2. \A k \in retries' : k.pc = "sleep" => k \in retries
  <2>1. t \in RetryTask
    BY DEF TypeInv, TypeOK
  <2>2. [t EXCEPT !.env = env, !.pc = "mark"].pc = "mark"
    BY <2>1 DEF RetryTask
  <2>3. \A k \in retries' : k \in retries \/ k = [t EXCEPT !.env = env, !.pc = "mark"]
    BY DEF Retry, RequeuePush, RequeueMark
  <2>4. QED BY <2>2, <2>3
<1>3. queue' = queue \/ (queue' = Pushed(env) /\ t.pc = "sleep")
  BY DEF Retry, RequeuePush, RequeueMark
<1>4. /\ t.env \in Envelope /\ env \in Envelope
      /\ env.job = t.env.job /\ env.attempt = t.env.attempt + 1 /\ t.env.attempt \in Nat
  <2>1. t.env \in Envelope
    BY DEF TypeInv, TypeOK, RetryTask
  <2>2. QED BY <2>1 DEF Envelope
<1> HIDE DEF env
<1>5. \A c \in Copies' : c \in Queued' \/ c \in Copies
  BY <1>1, <1>2 DEF Copies, Holds
<1>6. \A c \in Queued' : c \in Queued \/ (c = env /\ t.env \in Copies)
  <2>1. CASE queue' = queue
    BY <2>1 DEF Queued
  <2>2. CASE queue' = Pushed(env) /\ t.pc = "sleep"
    BY <1>4, <2>2, PushQueued DEF TypeInv, Copies
  <2>3. QED BY <1>3, <2>1, <2>2
<1>7. \A c \in Queued' : c \in Queued \/ \E d \in Copies : d.job = c.job /\ d.attempt < c.attempt
  BY <1>4, <1>6
<1>8. \A c \in Copies' : \E d \in Copies : d.job = c.job /\ d.attempt <= c.attempt
  <2>1. Queued \subseteq Copies
    BY DEF Copies
  <2>2. \A c \in Copies : c.job = c.job /\ c.attempt <= c.attempt
    BY CopiesTyped
  <2>3. \A c \in Queued' : \E d \in Copies : d.job = c.job /\ d.attempt <= c.attempt
    BY <1>4, <1>6, <2>1, <2>2
  <2>4. QED BY <1>5, <2>2, <2>3
<1>9. (\A k \in Jobs : Begun(k) => Begun(k)') /\ \A w \in Workers : GoesOn(w)
  BY <1>1 DEF Begun, GoesOn
<1>10. QED BY <1>7, <1>8, <1>9 DEF NothingOlder

LEMMA SeenStep == Inv /\ TypeInv' /\ SeenInv /\ [Next]_vars => SeenInv'
<1> SUFFICES ASSUME Inv, TypeInv', SeenInv, [Next]_vars PROVE SeenInv'
  OBVIOUS
<1>0. TypeInv /\ JobInv
  BY DEF Inv
<1>1. CASE UNCHANGED vars
  <2>1. NothingOlder /\ \A w \in Workers : GoesOn(w)
    BY <1>0, <1>1, NoNewCopy DEF vars, Copies, Queued, Begun, Holds, GoesOn
  <2>2. QED BY <1>0, <2>1, SeenFrame DEF SeenInv
<1>2. CASE \E j \in Jobs : Enqueue(j) \/ ProducerDies(j) \/ Lapse(j)
  BY <1>0, <1>2, SeenEnqueue, SeenFrame DEF SeenInv
<1>3. CASE \E w \in Workers : Poll(w)
  BY <1>0, <1>3, SeenStart, SeenDequeue DEF Poll
<1>4. CASE \E w \in Workers : ProcessJob(w) \/ Process(w)
  BY <1>0, <1>4, SeenWork, SeenFrame DEF SeenInv
<1>5. CASE \E t \in retries : Retry(t)
  BY <1>0, <1>5, SeenRetry, SeenFrame DEF SeenInv
<1>6. QED BY <1>1, <1>2, <1>3, <1>4, <1>5 DEF Next

\* poll_once (worker.rs) serves priorities strictly: when it takes an envelope, no
\* envelope of a higher priority that was queued when the poll began still waits,
\* whatever other processes push and pop between its four LPOPs.
THEOREM PrioritiesServedStrictly == Spec => NoPriorityInversion
<1> DEFINE Strict(w) == wpc[w] = "poll" /\ wpc'[w] = "got" =>
               \A env \in seen[w] \cap Queued' : Rank(env.job) >= Rank(wenv'[w].job)
<1>1. Init => SeenInv
  BY DEF Init, SeenInv, SeenAt
<1>2. Inv /\ Inv' /\ SeenInv /\ [Next]_vars => \A w \in Workers : Strict(w)
  <2> SUFFICES ASSUME Inv, Inv', SeenInv, [Next]_vars, NEW w \in Workers,
                      wpc[w] = "poll", wpc'[w] = "got"
               PROVE  \A env \in seen[w] \cap Queued' : Rank(env.job) >= Rank(wenv'[w].job)
    OBVIOUS
  <2>1. Dequeue(w)
    <3> USE DEF history, redis, local, Inv, TypeInv, TypeOK
    <3>1. wpc' # wpc
      OBVIOUS
    <3>2. CASE \E j \in Jobs : Enqueue(j) \/ ProducerDies(j) \/ Lapse(j)
      BY <3>1, <3>2 DEF Enqueue, EnqueueStore, EnqueueExpire, EnqueuePush, ProducerDies, Lapse
    <3>3. CASE \E t \in retries : Retry(t)
      BY <3>1, <3>3 DEF Retry, RequeuePush, RequeueMark
    <3>4. ASSUME NEW v \in Workers, PollStart(v) \/ Process(v) PROVE FALSE
      BY <3>4 DEF PollStart, Process, Shutdown, Exit, Crash, Start, Release
    <3>5. ASSUME NEW v \in Workers, ProcessJob(v) PROVE FALSE
      <4>1. CASE MarkRunning(v)
        BY <4>1 DEF MarkRunning, Release
      <4>2. CASE ~MarkRunning(v)
        BY <3>5, <4>2 DEF ProcessJob, HandlerOk, HandlerErr, HandlerTimeout, HandlerFails,
           HandlerPanic, MarkCompleted, ScheduleRetry, DeadPush, DeadMark, Release, Failed
      <4>3. QED BY <4>1, <4>2
    <3>6. ASSUME NEW v \in Workers, v # w, Dequeue(v) PROVE FALSE
      BY <3>6 DEF Dequeue, Release
    <3>7. QED BY <3>1, <3>2, <3>3, <3>4, <3>5, <3>6 DEF Next, Poll, vars
  <2>2. QED BY <2>1, SeenDequeue DEF Inv
<1>3. Inv /\ Inv' /\ SeenInv /\ [Next]_vars => [\A w \in Workers : Strict(w)]_vars
  BY <1>2
<1>4. Inv /\ Inv' /\ SeenInv /\ [Next]_vars => SeenInv'
  BY SeenStep DEF Inv
<1>5. QED BY <1>1, <1>3, <1>4, InvHolds, PTL DEF Spec, NoPriorityInversion
=============================================================================
