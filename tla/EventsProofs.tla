---------------------------- MODULE EventsProofs ----------------------------
(***************************************************************************)
(* The events of any number of requests, calls and subscribers: emit       *)
(* queues the jobs of an event in order and reports success truthfully,    *)
(* failures stay with the call they happen in, a job that reports success  *)
(* did its work, and every repeated POST has a fault behind it.            *)
(*                                                                         *)
(* EventsInv says where every source is in its calls (Progress), which     *)
(* jobs of a call have been queued at that point (Queued, InOrder), that   *)
(* every call with a loss has cost a fault (Spent), and how the stage of a *)
(* job goes with what its handler has done (Work).                         *)
(*                                                                         *)
(* find_matching_subscribers walks along the subscribers; that it returns  *)
(* a sequence is shown by induction on how far it has come, with sets of   *)
(* numbers in the place of predicates.                                     *)
(***************************************************************************)
EXTENDS Events, WellFoundedInduction, FiniteSetTheorems, TLAPS

-----------------------------------------------------------------------------
(* Induction and the operators *)

\* A set of numbers has a least one.
LEMMA LeastNat ==
    ASSUME NEW T, T \subseteq Nat, T # {}
    PROVE  \E x \in T : \A y \in T : ~(y < x)
<1>1. IsWellFoundedOn(OpToRel(<,Nat), Nat) BY NatLessThanWellFounded
<1>2. \E x \in T : \A y \in T : ~ (<<y, x>> \in OpToRel(<,Nat)) BY <1>1, WFMin
<1>3. QED BY <1>2 DEF OpToRel

\* What holds of 0, and of n + 1 when of n, holds of every number.
LEMMA SetInduction ==
    ASSUME NEW S, 0 \in S, \A n \in Nat : n \in S => n + 1 \in S
    PROVE  Nat \subseteq S
<1>1. SUFFICES ASSUME Nat \ S # {} PROVE FALSE OBVIOUS
<1>2. PICK x \in Nat \ S : \A y \in Nat \ S : ~(y < x) BY <1>1, LeastNat
<1>3. x # 0 /\ x - 1 \in Nat /\ x - 1 < x BY <1>2
<1>4. x - 1 \in S BY <1>2, <1>3
<1>5. (x - 1) + 1 = x BY <1>2
<1>6. QED BY <1>2, <1>3, <1>4, <1>5


\* The subscribers found are a sequence of subscribers.  S: the walk is defined
\* so far; U: it has collected a sequence of subscribers so far.
LEMMA Found ==
    ASSUME NEW T, Subscribers \in Seq(T), NEW name
    PROVE  find_matching_subscribers(name) \in Seq(T)
<1> DEFINE step(f, i) == IF i = 0 THEN <<>>
                         ELSE IF event_matches(Subscribers[i].event, name)
                              THEN Append(f[i - 1], Subscribers[i]) ELSE f[i - 1]
           solves(f, n) == f \in [0 .. n -> Seq(T)] /\ \A i \in 0 .. n : f[i] = step(f, i)
           S == {n \in Nat : n <= Len(Subscribers) => \E f : solves(f, n)}
           upto == CHOOSE g : g = [i \in 0 .. Len(Subscribers) |-> step(g, i)]
<1>l. Len(Subscribers) \in Nat /\ \A i \in 1 .. Len(Subscribers) : Subscribers[i] \in T OBVIOUS
<1>1. 0 \in S
  <2>1. solves([i \in 0 .. 0 |-> <<>>], 0)
    <3>1. [i \in 0 .. 0 |-> <<>>] \in [0 .. 0 -> Seq(T)] OBVIOUS
    <3>2. \A i \in 0 .. 0 : [k \in 0 .. 0 |-> <<>>][i] = <<>> /\ i = 0 OBVIOUS
    <3>3. QED BY <3>1, <3>2
  <2> HIDE DEF solves
  <2>2. QED BY <2>1
<1>2. ASSUME NEW n \in Nat, n \in S PROVE n + 1 \in S
  <2>1. SUFFICES ASSUME n + 1 <= Len(Subscribers) PROVE \E f : solves(f, n + 1)
    <3> HIDE DEF solves
    <3>1. QED OBVIOUS
  <2>2. PICK f : solves(f, n)
    <3> HIDE DEF solves
    <3>1. n <= Len(Subscribers) BY <2>1, <1>l
    <3>2. QED BY <1>2, <3>1
  <2> DEFINE g == [i \in 0 .. n + 1 |-> IF i = n + 1 THEN step(f, n + 1) ELSE f[i]]
  <2>3. \A i \in 0 .. n : i \in 0 .. n + 1 /\ i # n + 1 /\ (i = 0 \/ i - 1 \in 0 .. n) OBVIOUS
  <2>4. \A i \in 0 .. n + 1 : i \in 0 .. n \/ i = n + 1 OBVIOUS
  <2>5. step(f, n + 1) \in Seq(T)
    <3>1. f[n] \in Seq(T) /\ (n + 1) - 1 = n /\ n + 1 # 0 BY <2>2
    <3>2. Subscribers[n + 1] \in T BY <1>l, <2>1
    <3>3. QED BY <3>1, <3>2
  <2> HIDE DEF step
  <2>6. \A i \in 0 .. n : g[i] = f[i] BY <2>3
  <2>7. g[n + 1] = step(f, n + 1) OBVIOUS
  <2>8. \A i \in 0 .. n : f[i] \in Seq(T) BY <2>2
  <2>9. g \in [0 .. n + 1 -> Seq(T)] BY <2>4, <2>5, <2>6, <2>7, <2>8
  <2>10. \A i \in 0 .. n : g[i] = step(g, i)
    <3>1. TAKE i \in 0 .. n
    <3>2. f[i] = step(f, i) BY <2>2
    <3>3. i = 0 \/ g[i - 1] = f[i - 1] BY <2>3, <2>6
    <3>4. step(f, i) = step(g, i) BY <3>3 DEF step
    <3>5. QED BY <3>2, <3>4, <2>6
  <2>11. g[n + 1] = step(g, n + 1)
    <3>1. g[(n + 1) - 1] = f[(n + 1) - 1] BY <2>6
    <3>2. step(f, n + 1) = step(g, n + 1) BY <3>1 DEF step
    <3>3. QED BY <2>7, <3>2
  <2> HIDE DEF g
  <2>12. \A i \in 0 .. n + 1 : g[i] = step(g, i) BY <2>4, <2>10, <2>11
  <2>13. solves(g, n + 1) BY <2>9, <2>12
  <2> HIDE DEF solves
  <2>14. QED BY <2>13
<1>3. Nat \subseteq S
  <2> HIDE DEF S
  <2>1. QED BY <1>1, <1>2, SetInduction
<1>4. PICK f : solves(f, Len(Subscribers))
  <2> HIDE DEF solves
  <2>1. QED BY <1>3, <1>l
<1>5. upto = [i \in 0 .. Len(Subscribers) |-> step(upto, i)]
  <2>1. f = [i \in 0 .. Len(Subscribers) |-> step(f, i)]
    <3> HIDE DEF step
    <3>1. QED BY <1>4
  <2> HIDE DEF step
  <2>2. QED BY <2>1
<1>6. find_matching_subscribers(name) = upto[Len(Subscribers)] BY DEF find_matching_subscribers
<1> HIDE DEF upto
<1> DEFINE U == {n \in Nat : n <= Len(Subscribers) => upto[n] \in Seq(T)}
<1>7. 0 \in U
  <2>1. upto[0] = <<>> BY <1>5, <1>l
  <2>2. upto[0] \in Seq(T) BY <2>1
  <2> HIDE DEF upto
  <2>3. QED BY <2>2
<1>8. ASSUME NEW n \in Nat, n \in U PROVE n + 1 \in U
  <2>1. SUFFICES ASSUME n + 1 <= Len(Subscribers) PROVE upto[n + 1] \in Seq(T) OBVIOUS
  <2>2. upto[n] \in Seq(T) BY <1>8, <2>1, <1>l
  <2>3. upto[n + 1] = step(upto, n + 1)
    <3> HIDE DEF step
    <3>1. n + 1 \in 0 .. Len(Subscribers) BY <2>1, <1>l
    <3>2. QED BY <1>5, <3>1
  <2>4. Subscribers[n + 1] \in T /\ (n + 1) - 1 = n /\ n + 1 # 0 BY <1>l, <2>1
  <2>5. QED BY <2>2, <2>3, <2>4
<1>9. Nat \subseteq U
  <2> HIDE DEF U
  <2>1. QED BY <1>7, <1>8, SetInduction
<1>10. QED BY <1>6, <1>9, <1>l


\* the i-th job of call c of source s
JobOf(s, c, i) == <<s, c, i, Enqueues(Calls[s][c])[i]>>

\* A call enqueues at least one job, and that of an event begins with the log.
LEMMA EnqueuesShape ==
    ASSUME NEW c
    PROVE  /\ Len(Enqueues(c)) \in Nat \ {0}
           /\ DOMAIN Enqueues(c) = 1 .. Len(Enqueues(c))
           /\ c.kind = "event" => Enqueues(c)[1] = "event_log"
<1> DEFINE subs == find_matching_subscribers(c.name)
<1>1. PICK T : Subscribers \in Seq(T) BY EventsAssumption
<1>2. subs \in Seq(T) BY <1>1, Found
<1> DEFINE names == {dispatch_to_target(subs[i].target) : i \in DOMAIN subs}
<1>3. Dispatched(c.name) \in Seq(names)
  <2>1. DOMAIN subs = 1 .. Len(subs) /\ Len(subs) \in Nat BY <1>2
  <2>2. Dispatched(c.name) \in [1 .. Len(subs) -> names] BY <2>1 DEF Dispatched
  <2> HIDE DEF subs, names
  <2>3. QED BY <2>1, <2>2
<1> HIDE DEF subs, names
<1>4. CASE c.kind = "job"
  <2>1. Enqueues(c) = <<c.name>> BY <1>4 DEF Enqueues
  <2>2. c.kind # "event" BY <1>4
  <2>3. QED BY <2>1, <2>2
<1>5. CASE c.kind # "job"
  <2> DEFINE d == Dispatched(c.name)
  <2>1. Enqueues(c) = <<"event_log">> \o d BY <1>5 DEF Enqueues
  <2> HIDE DEF d
  <2>2. d \in Seq(names) /\ Len(d) \in Nat BY <1>3 DEF d
  <2> DEFINE all == names \union {"event_log"}
  <2>3. d \in Seq(all) /\ <<"event_log">> \in Seq(all) BY <2>2
  <2> HIDE DEF all
  <2>4. <<"event_log">> \o d \in Seq(all) BY <2>3
  <2>5. Len(<<"event_log">> \o d) = 1 + Len(d) BY <2>3
  <2>6. (<<"event_log">> \o d)[1] = "event_log" BY <2>3, <2>2
  <2>7. QED BY <2>1, <2>2, <2>4, <2>5, <2>6
<1>6. QED BY <1>4, <1>5

\* The calls of a source are a sequence.
LEMMA CallsShape ==
    ASSUME NEW s \in Sources
    PROVE  Len(Calls[s]) \in Nat /\ DOMAIN Calls[s] = 1 .. Len(Calls[s])
BY EventsAssumption

\* A job is given by its source, call and place.
LEMMA JobParts ==
    ASSUME NEW j \in Jobs
    PROVE  /\ j[1] \in Sources /\ j[2] \in 1 .. Len(Calls[j[1]]) /\ Len(Calls[j[1]]) \in Nat
           /\ j[3] \in 1 .. Len(Enqueues(Calls[j[1]][j[2]]))
           /\ j[2] \in Nat /\ j[3] \in Nat /\ j[2] > 0 /\ j[3] > 0
           /\ j = JobOf(j[1], j[2], j[3])
<1>0. PICK s \in Sources : \E c \in DOMAIN Calls[s] : \E i \in DOMAIN Enqueues(Calls[s][c]) :
          j = JobOf(s, c, i)
  BY DEF Jobs, JobOf
<1>c. PICK c \in DOMAIN Calls[s] : \E i \in DOMAIN Enqueues(Calls[s][c]) : j = JobOf(s, c, i)
  BY <1>0
<1>1. PICK i \in DOMAIN Enqueues(Calls[s][c]) : j = JobOf(s, c, i) BY <1>c
<1>2. j[1] = s /\ j[2] = c /\ j[3] = i BY <1>1 DEF JobOf
<1>3. Len(Calls[s]) \in Nat /\ c \in 1 .. Len(Calls[s]) BY CallsShape
<1>4. i \in 1 .. Len(Enqueues(Calls[s][c])) /\ Len(Enqueues(Calls[s][c])) \in Nat
  BY EnqueuesShape
<1>5. c \in Nat /\ i \in Nat /\ c > 0 /\ i > 0 BY <1>3, <1>4
<1>6. QED BY <1>1, <1>2, <1>3, <1>4, <1>5

\* Every place of a call has its job.
LEMMA JobIn ==
    ASSUME NEW s \in Sources, NEW c \in 1 .. Len(Calls[s]),
           NEW i \in 1 .. Len(Enqueues(Calls[s][c]))
    PROVE  /\ JobOf(s, c, i) \in JobsOf(s, c)
           /\ JobOf(s, c, i)[3] = i /\ JobOf(s, c, i)[4] = Enqueues(Calls[s][c])[i]
<1>1. c \in DOMAIN Calls[s] BY CallsShape
<1>2. i \in DOMAIN Enqueues(Calls[s][c]) BY EnqueuesShape
<1>3. JobOf(s, c, i) \in Jobs BY <1>1, <1>2 DEF Jobs, JobOf
<1>4. QED BY <1>3 DEF JobsOf, JobOf

\* A call has as many jobs as it enqueues.
LEMMA JobCount ==
    ASSUME NEW s \in Sources, NEW c \in 1 .. Len(Calls[s])
    PROVE  Cardinality(JobsOf(s, c)) = Len(Enqueues(Calls[s][c]))
<1> DEFINE n == Len(Enqueues(Calls[s][c]))
           f == [i \in 1 .. n |-> JobOf(s, c, i)]
<1>1. n \in Nat BY EnqueuesShape
<1>2. f \in Bijection(1 .. n, JobsOf(s, c))
  <2>1. f \in [1 .. n -> JobsOf(s, c)] BY JobIn
  <2>2. \A i, k \in 1 .. n : f[i] = f[k] => i = k BY DEF JobOf
  <2>3. \A j \in JobsOf(s, c) : \E i \in 1 .. n : f[i] = j BY JobParts DEF JobsOf
  <2> HIDE DEF f
  <2>4. QED BY <2>1, <2>2, <2>3 DEF Bijection, Injection, Surjection, IsInjective
<1>3. IsFiniteSet(1 .. n) /\ Cardinality(1 .. n) = n
  <2> HIDE DEF n
  <2>1. n \in Int /\ 1 \in Int /\ (IF 1 > n THEN 0 ELSE n - 1 + 1) = n BY <1>1
  <2>2. QED BY <2>1, FS_Interval
<1> HIDE DEF f, n
<1>4. Cardinality(JobsOf(s, c)) = n BY <1>2, <1>3, FS_Bijection DEF ExistsBijection
<1>5. QED BY <1>4 DEF n

\* Two jobs do not share their place.
LEMMA SameJob ==
    ASSUME NEW j \in Jobs, NEW k \in Jobs, j[1] = k[1], j[2] = k[2], j[3] = k[3]
    PROVE  j = k
BY JobParts

\* A set with at most one new element has at most one more.
LEMMA OneMore ==
    ASSUME NEW S, NEW T, NEW x, IsFiniteSet(S), T \subseteq S \union {x}
    PROVE  Cardinality(T) \in Nat /\ Cardinality(S) \in Nat
           /\ Cardinality(T) <= Cardinality(S) + 1
<1> DEFINE U == S \union {x}
           m == Cardinality(S)
           n == Cardinality(U)
<1>1. IsFiniteSet(U) /\ n = (IF x \in S THEN m ELSE m + 1) BY FS_AddElement
<1>2. m \in Nat /\ n \in Nat BY <1>1, FS_CardinalityType
<1>3. IsFiniteSet(T) /\ Cardinality(T) <= n BY <1>1, FS_Subset
<1>4. Cardinality(T) \in Nat BY <1>3, FS_CardinalityType
<1> HIDE DEF m, n, U
<1>5. n <= m + 1 BY <1>1, <1>2
<1>6. Cardinality(T) <= m + 1 BY <1>2, <1>3, <1>4, <1>5
<1>7. QED BY <1>2, <1>4, <1>6 DEF m

(* The inductive invariant *)

\* Where each source is in its calls.
Progress(s) ==
    /\ call[s] \in 0 .. (Len(Calls[s]) + 1)
    /\ failed[s] \subseteq 1 .. Len(Calls[s]) /\ \A c \in failed[s] : c < call[s]
    /\ call[s] \in 1 .. Len(Calls[s]) => nth[s] \in 1 .. Len(Enqueues(Calls[s][call[s]]))
    /\ call[s] = 0 => nth[s] = 1

\* What has been queued of the jobs of one call.
Queued(j) ==
    /\ call[j[1]] < j[2] => stage[j] = "new"
    /\ call[j[1]] = j[2] => (stage[j] = "new" <=> j[3] >= nth[j[1]])
    /\ call[j[1]] > j[2] /\ j[2] \notin failed[j[1]] => stage[j] # "new"

InOrder == \A j, k \in Jobs : j[1] = k[1] /\ j[2] = k[2] /\ k[3] < j[3] /\ stage[k] = "new"
                              => stage[j] = "new"

\* The calls of s that something went wrong with.
Broken(s) == failed[s] \union {c \in DOMAIN Calls[s] : \E j \in JobsOf(s, c) : stage[j] = "gone"}

Spent == \A s \in Sources : Cardinality(Broken(s)) <= faults

\* What the handlers have done for a job.
Work(j) ==
    /\ result[j] # "none" => stage[j] \in {"running", "gone"} /\ j[4] = "webhook_deliver"
    /\ sent[j] <= 1 + faults
    /\ result[j] = "none" /\ stage[j] # "done" => sent[j] <= faults
    /\ stage[j] = "new" => starts[j] = 0
    /\ stage[j] = "done" =>
          /\ j[4] = "event_log" => Event(j) \in log
          /\ j[4] = "webhook_deliver" /\ HasDispatcher => delivered[j] # << >>
          /\ j[4] \in {"channel_broadcast", "write_status_projection"} => room[j] > 0

Types ==
    /\ call \in [Sources -> Nat] /\ nth \in [Sources -> Nat] /\ failed \in [Sources -> SUBSET Nat]
    /\ answer \in [Sources -> {"none", "401", "422", "not_accepted", "accepted"}]
    /\ stage \in [Jobs -> Queue!Stages] /\ starts \in [Jobs -> 0 .. Retries]
    /\ sent \in [Jobs -> Nat] /\ room \in [Jobs -> Nat]
    /\ result \in [Jobs -> {"none", "success", "failed"}]
    /\ delivered \in [Jobs -> Seq({"success", "failed"})]
    /\ faults \in 0 .. MaxFaults

EventsInv ==
    /\ Types
    /\ \A s \in Sources : Progress(s)
    /\ \A j \in Jobs : Queued(j)
    /\ InOrder
    /\ Spent
    /\ \A j \in Jobs : Work(j)

-----------------------------------------------------------------------------
(* The steps *)

\* What a step of the worker or of a handler may do: move job j on.
WorkerStep(j) ==
    /\ stage[j] \in {"waiting", "taken", "running"} /\ stage'[j] # "new"
    /\ \A k \in Jobs \ {j} : stage'[k] = stage[k]
    /\ faults' \in {faults, faults + 1}
    /\ stage'[j] = "gone" => faults' = faults + 1
    /\ UNCHANGED <<call, nth, failed, answer>>
    /\ Types' /\ \A k \in Jobs : Work(k)'

\* The calls with a loss are among those of the source.
LEMMA BrokenShape ==
    ASSUME NEW s \in Sources, Progress(s)
    PROVE  /\ Broken(s) \subseteq 1 .. Len(Calls[s])
           /\ IsFiniteSet(Broken(s)) /\ Cardinality(Broken(s)) \in Nat
<1>1. Broken(s) \subseteq 1 .. Len(Calls[s]) BY CallsShape DEF Broken, Progress
<1>2. Len(Calls[s]) \in Int /\ 1 \in Int BY CallsShape
<1>3. IsFiniteSet(1 .. Len(Calls[s])) BY <1>2, FS_Interval
<1>4. IsFiniteSet(Broken(s)) BY <1>1, <1>3, FS_Subset
<1>5. QED BY <1>1, <1>4, FS_CardinalityType

\* The worker moves a queued job on, and pays for one that it loses.
LEMMA WorkerKeeps ==
    ASSUME EventsInv, NEW j \in Jobs, WorkerStep(j)
    PROVE  EventsInv'
<1>0. Types /\ Types' /\ \A k \in Jobs : Work(k)' BY DEF EventsInv, WorkerStep
<1>1. call' = call /\ nth' = nth /\ failed' = failed BY DEF WorkerStep
<1>2. \A k \in Jobs : stage'[k] = "new" <=> stage[k] = "new" BY DEF WorkerStep
<1>3. \A s \in Sources : Progress(s)' BY <1>1 DEF EventsInv, Progress
<1>4. \A k \in Jobs : Queued(k)' BY <1>1, <1>2 DEF EventsInv, Queued
<1>5. InOrder' BY <1>2 DEF EventsInv, InOrder
<1>6. Spent'
  <2>1. SUFFICES ASSUME NEW s \in Sources PROVE Cardinality(Broken(s)') <= faults'
    BY DEF Spent
  <2>2. Progress(s) /\ Progress(s)' BY <1>3 DEF EventsInv
  <2>3. IsFiniteSet(Broken(s)) /\ Cardinality(Broken(s)) \in Nat BY <2>2, BrokenShape
  <2>4. Cardinality(Broken(s)) <= faults BY DEF EventsInv, Spent
  <2>5. faults \in Nat /\ faults' \in Nat BY <1>0 DEF Types
  <2>6. CASE stage'[j] = "gone"
    <3>1. Broken(s)' \subseteq Broken(s) \union {j[2]}
      BY <1>1, CallsShape DEF Broken, WorkerStep, JobsOf
    <3>2. Cardinality(Broken(s)') \in Nat
          /\ Cardinality(Broken(s)') <= Cardinality(Broken(s)) + 1
      BY <2>3, <3>1, OneMore
    <3>3. faults' = faults + 1 BY <2>6 DEF WorkerStep
    <3>4. QED BY <2>3, <2>4, <2>5, <3>2, <3>3
  <2>7. CASE stage'[j] # "gone"
    <3>1. Broken(s)' \subseteq Broken(s) BY <2>7, <1>1 DEF Broken, WorkerStep, JobsOf
    <3>2. Cardinality(Broken(s)') <= Cardinality(Broken(s)) BY <2>3, <3>1, FS_Subset
    <3>3. IsFiniteSet(Broken(s)') BY <2>3, <3>1, FS_Subset
    <3>4. Cardinality(Broken(s)') \in Nat BY <3>3, FS_CardinalityType
    <3>5. faults <= faults' BY <2>5 DEF WorkerStep
    <3>6. QED BY <2>3, <2>4, <2>5, <3>2, <3>4, <3>5
  <2>8. QED BY <2>6, <2>7
<1>7. QED BY <1>0, <1>3, <1>4, <1>5, <1>6 DEF EventsInv

\* The moves of the queue that the worker and the handlers make.
Moved(j, to) == stage' = [stage EXCEPT ![j] = to] /\ UNCHANGED starts

\* JobLifecycle, as the worker and the handlers use it.
LEMMA QueueMoves ==
    ASSUME Types, NEW j \in Jobs
    PROVE  /\ Queue!Take(j) => stage[j] = "waiting" /\ Moved(j, "taken")
           /\ Queue!Run(j) => /\ stage[j] = "taken" /\ stage' = [stage EXCEPT ![j] = "running"]
                              /\ starts[j] < Retries /\ starts' = [starts EXCEPT ![j] = @ + 1]
           /\ Queue!Finish(j) => stage[j] = "running" /\ Moved(j, "done")
           /\ Retry(j) => stage[j] = "running" /\ (Moved(j, "waiting") \/ Moved(j, "dead"))
           /\ Queue!Lose({j}) => Moved(j, "gone")
<1>1. Queue!Take(j) => stage[j] = "waiting" /\ Moved(j, "taken") BY DEF Queue!Take, Moved
<1>2. Queue!Run(j) => /\ stage[j] = "taken" /\ stage' = [stage EXCEPT ![j] = "running"]
                     /\ starts[j] < Retries /\ starts' = [starts EXCEPT ![j] = @ + 1]
  BY DEF Queue!Run
<1>3. Queue!Finish(j) => stage[j] = "running" /\ Moved(j, "done") BY DEF Queue!Finish, Moved
<1>4. Retry(j) => stage[j] = "running" /\ (Moved(j, "waiting") \/ Moved(j, "dead"))
  BY DEF Retry, Queue!Again, Queue!Bury, Moved
<1>5. Queue!Lose({j}) => Moved(j, "gone") BY DEF Queue!Lose, Moved, Types
<1>6. QED BY <1>1, <1>2, <1>3, <1>4, <1>5

\* A move leaves the other jobs where they are.
LEMMA MovedStep ==
    ASSUME Types, NEW j \in Jobs, NEW to \in Queue!Stages, Moved(j, to)
    PROVE  /\ stage' \in [Jobs -> Queue!Stages] /\ starts' \in [Jobs -> 0 .. Retries]
           /\ stage'[j] = to /\ \A k \in Jobs \ {j} : stage'[k] = stage[k]
           /\ starts' = starts
BY DEF Types, Moved

\* Nothing changes in the work done for the jobs the step is not about.
LEMMA OthersWork ==
    ASSUME EventsInv, NEW k \in Jobs, faults' \in {faults, faults + 1},
           stage'[k] = stage[k], starts'[k] = starts[k], sent'[k] = sent[k],
           result'[k] = result[k], delivered'[k] = delivered[k], room'[k] = room[k],
           log \subseteq log'
    PROVE  Work(k)'
<1>1. Work(k) /\ sent[k] \in Nat /\ faults \in Nat BY DEF EventsInv, Types
<1>2. sent'[k] <= 1 + faults' BY <1>1 DEF Work
<1>3. result'[k] = "none" /\ stage'[k] # "done" => sent'[k] <= faults' BY <1>1 DEF Work
<1>4. stage'[k] = "done" /\ k[4] = "event_log" => Event(k) \in log' BY <1>1 DEF Work
<1>5. QED BY <1>1, <1>2, <1>3, <1>4 DEF Work, Event

\* A step is one of job j alone when the work done for j is right after it.
OnlyFor(j) ==
    /\ faults' \in {faults, faults + 1} /\ faults' \in 0 .. MaxFaults
    /\ stage[j] \in {"waiting", "taken", "running"} /\ stage'[j] # "new"
    /\ stage'[j] = "gone" => faults' = faults + 1
    /\ stage' \in [Jobs -> Queue!Stages] /\ starts' \in [Jobs -> 0 .. Retries]
    /\ sent' \in [Jobs -> Nat] /\ room' \in [Jobs -> Nat]
    /\ result' \in [Jobs -> {"none", "success", "failed"}]
    /\ delivered' \in [Jobs -> Seq({"success", "failed"})]
    /\ \A k \in Jobs \ {j} :
          /\ stage'[k] = stage[k] /\ starts'[k] = starts[k] /\ sent'[k] = sent[k]
          /\ result'[k] = result[k] /\ delivered'[k] = delivered[k] /\ room'[k] = room[k]
    /\ log \subseteq log'
    /\ UNCHANGED <<call, nth, failed, answer>>

\* Such a step keeps the invariant.
LEMMA OnlyForKeeps ==
    ASSUME EventsInv, NEW j \in Jobs, OnlyFor(j), Work(j)'
    PROVE  EventsInv'
<1>1. Types' BY DEF EventsInv, Types, OnlyFor
<1>2. ASSUME NEW k \in Jobs \ {j} PROVE Work(k)'
  BY <1>2, OthersWork DEF OnlyFor
<1>3. \A k \in Jobs : Work(k)' BY <1>2
<1>4. WorkerStep(j) BY <1>1, <1>3 DEF WorkerStep, OnlyFor
<1>5. QED BY <1>4, WorkerKeeps

\* A worker takes a job and starts its handler.
LEMMA BeginKeeps == ASSUME EventsInv, NEW j \in Jobs, Begin(j) PROVE EventsInv'
<1>1. Types /\ Work(j) BY DEF EventsInv
<1>2. /\ stage[j] \in {"waiting", "taken"} /\ stage'[j] \in {"taken", "running"}
      /\ \A k \in Jobs \ {j} : stage'[k] = stage[k] /\ starts'[k] = starts[k]
      /\ stage' \in [Jobs -> Queue!Stages] /\ starts' \in [Jobs -> 0 .. Retries]
  <2>1. CASE Queue!Take(j)
    <3>1. stage[j] = "waiting" /\ Moved(j, "taken") BY <1>1, <2>1, QueueMoves
    <3>2. "taken" \in Queue!Stages BY DEF Queue!Stages
    <3>3. QED BY <1>1, <3>1, <3>2, MovedStep
  <2>2. CASE Queue!Run(j)
    <3>1. /\ stage[j] = "taken" /\ stage' = [stage EXCEPT ![j] = "running"]
          /\ starts[j] < Retries /\ starts' = [starts EXCEPT ![j] = @ + 1]
      BY <1>1, <2>2, QueueMoves
    <3>2. "running" \in Queue!Stages BY DEF Queue!Stages
    <3>3. starts[j] + 1 \in 0 .. Retries BY <1>1, <3>1, EventsAssumption DEF Types
    <3>4. QED BY <1>1, <3>1, <3>2, <3>3 DEF Types
  <2>3. QED BY <2>1, <2>2 DEF Begin
<1>3. OnlyFor(j) BY <1>1, <1>2 DEF Begin, OnlyFor, Types
<1>4. Work(j)' BY <1>1, <1>2 DEF Begin, Work
<1>5. QED BY <1>3, <1>4, OnlyForKeeps

\* A fault is counted and stays within the bound.
LEMMA FaultStep ==
    ASSUME Types, Fault
    PROVE  faults' = faults + 1 /\ faults' \in 0 .. MaxFaults /\ faults \in Nat
BY EventsAssumption DEF Types, Fault

\* A job is lost.
LEMMA LostKeeps == ASSUME EventsInv, NEW j \in Jobs, Lost(j) PROVE EventsInv'
<1>1. Types /\ Work(j) BY DEF EventsInv
<1>2. Moved(j, "gone") /\ faults' = faults + 1 /\ faults' \in 0 .. MaxFaults
  <2>1. Moved(j, "gone") BY <1>1, QueueMoves DEF Lost
  <2>2. Fault BY DEF Lost
  <2>3. QED BY <1>1, <2>1, <2>2, FaultStep
<1>3. "gone" \in Queue!Stages BY DEF Queue!Stages
<1>4. /\ stage' \in [Jobs -> Queue!Stages] /\ starts' \in [Jobs -> 0 .. Retries]
      /\ stage'[j] = "gone" /\ \A k \in Jobs \ {j} : stage'[k] = stage[k]
      /\ starts' = starts
  BY <1>1, <1>2, <1>3, MovedStep
<1>5. OnlyFor(j) BY <1>1, <1>2, <1>4 DEF Lost, OnlyFor, Types
<1>6. Work(j)' BY <1>1, <1>2, <1>4 DEF Lost, Work, Types
<1>7. QED BY <1>5, <1>6, OnlyForKeeps

\* What a handler leaves of the queue: the job is done, or it failed.
LEMMA HandlerMoves ==
    ASSUME EventsInv, NEW j \in Jobs, Queue!Finish(j) \/ Retry(j)
    PROVE  /\ stage[j] = "running" /\ starts' = starts
           /\ stage' \in [Jobs -> Queue!Stages]
           /\ \A k \in Jobs \ {j} : stage'[k] = stage[k]
           /\ Queue!Finish(j) => stage'[j] = "done"
           /\ Retry(j) => stage'[j] \in {"waiting", "dead"}
<1>1. Types BY DEF EventsInv
<1>2. {"done", "waiting", "dead"} \subseteq Queue!Stages BY DEF Queue!Stages
<1>3. CASE Queue!Finish(j)
  <2>1. stage[j] = "running" /\ Moved(j, "done") BY <1>1, <1>3, QueueMoves
  <2>2. ~Retry(j)
    BY <2>1, <1>1 DEF Retry, Queue!Again, Queue!Bury, Moved, Types
  <2>3. QED BY <1>1, <1>2, <2>1, <2>2, MovedStep
<1>4. CASE Retry(j)
  <2>1. PICK to \in {"waiting", "dead"} : stage[j] = "running" /\ Moved(j, to)
    BY <1>1, <1>4, QueueMoves
  <2>2. stage'[j] = to /\ starts' = starts /\ stage' \in [Jobs -> Queue!Stages]
        /\ \A k \in Jobs \ {j} : stage'[k] = stage[k]
    BY <1>1, <1>2, <2>1, MovedStep
  <2>3. ~Queue!Finish(j) BY <1>1, <2>2, QueueMoves, MovedStep DEF Queue!Finish, Types
  <2>4. QED BY <2>1, <2>2, <2>3
<1>5. QED BY <1>3, <1>4


\* What OnlyFor asks of a handler that leaves the queue as HandlerMoves says.
LEMMA HandlerKeeps ==
    ASSUME EventsInv, NEW j \in Jobs, Queue!Finish(j) \/ Retry(j),
           faults' = faults \/ Fault, log \subseteq log',
           NEW n \in Nat, NEW m \in Nat, NEW d \in Seq({"success", "failed"}),
           sent' = sent \/ sent' = [sent EXCEPT ![j] = n],
           result' = result \/ result' = [result EXCEPT ![j] = "none"],
           delivered' = delivered \/ delivered' = [delivered EXCEPT ![j] = d],
           room' = room \/ room' = [room EXCEPT ![j] = m],
           UNCHANGED <<call, nth, failed, answer>>,
           Work(j)'
    PROVE  EventsInv'
<1>1. Types BY DEF EventsInv
<1>2. faults' \in {faults, faults + 1} /\ faults' \in 0 .. MaxFaults
  BY <1>1, FaultStep DEF Types
<1>3. /\ sent' \in [Jobs -> Nat] /\ room' \in [Jobs -> Nat]
      /\ result' \in [Jobs -> {"none", "success", "failed"}]
      /\ delivered' \in [Jobs -> Seq({"success", "failed"})]
  <2>1. sent' \in [Jobs -> Nat] BY <1>1 DEF Types
  <2>2. room' \in [Jobs -> Nat] BY <1>1 DEF Types
  <2>3. result' \in [Jobs -> {"none", "success", "failed"}] BY <1>1 DEF Types
  <2>4. delivered' \in [Jobs -> Seq({"success", "failed"})] BY <1>1 DEF Types
  <2>5. QED BY <2>1, <2>2, <2>3, <2>4
<1>4. ASSUME NEW k \in Jobs \ {j}
      PROVE  sent'[k] = sent[k] /\ result'[k] = result[k] /\ delivered'[k] = delivered[k]
             /\ room'[k] = room[k]
  <2>1. sent'[k] = sent[k] BY <1>1, <1>4 DEF Types
  <2>2. result'[k] = result[k] BY <1>1, <1>4 DEF Types
  <2>3. delivered'[k] = delivered[k] BY <1>1, <1>4 DEF Types
  <2>4. room'[k] = room[k] BY <1>1, <1>4 DEF Types
  <2>5. QED BY <2>1, <2>2, <2>3, <2>4
<1>5. /\ stage[j] = "running" /\ starts' = starts /\ stage' \in [Jobs -> Queue!Stages]
      /\ \A k \in Jobs \ {j} : stage'[k] = stage[k]
      /\ stage'[j] \in {"done", "waiting", "dead"}
  BY HandlerMoves
<1>6. starts' \in [Jobs -> 0 .. Retries] BY <1>1, <1>5 DEF Types
<1>7. OnlyFor(j) BY <1>2, <1>3, <1>4, <1>5, <1>6 DEF OnlyFor
<1>8. QED BY <1>7, OnlyForKeeps

\* Event log: the job is done once its row is there.
LEMMA AppendLogKeeps == ASSUME EventsInv, NEW j \in Jobs, AppendLog(j) PROVE EventsInv'
<1>1. Types /\ Work(j) /\ j[4] = "event_log" /\ result[j] = "none" /\ stage[j] = "running"
  BY DEF EventsInv, AppendLog, Work, Types
<1>2. Queue!Finish(j) \/ Retry(j) BY DEF AppendLog
<1>3. stage'[j] \in {"done", "waiting", "dead"} /\ starts' = starts BY <1>2, HandlerMoves
<1>4. faults' = faults \/ Fault BY DEF AppendLog
<1>5. faults <= faults' /\ faults \in Nat /\ faults' \in Nat BY <1>1, <1>4, FaultStep DEF Types
<1>6. log \subseteq log' BY DEF AppendLog, AppendRow
<1>7. stage'[j] = "done" => Event(j) \in log'
  <2>1. Retry(j) => stage'[j] # "done" BY HandlerMoves
  <2>2. QED BY <2>1 DEF AppendLog, AppendRow
<1>8. Work(j)'
  <2>1. sent' = sent /\ result' = result BY DEF AppendLog
  <2>2. sent[j] \in Nat /\ sent[j] <= faults BY <1>1 DEF Work, Types
  <2>3. Event(j)' = Event(j) BY DEF Event
  <2>4. QED BY <1>1, <1>3, <1>5, <1>7, <2>1, <2>2, <2>3 DEF Work
<1>9. sent' = sent /\ result' = result /\ delivered' = delivered /\ room' = room
      /\ UNCHANGED <<call, nth, failed, answer>>
  BY DEF AppendLog
<1>10. 0 \in Nat /\ << >> \in Seq({"success", "failed"}) OBVIOUS
<1>11. QED BY <1>2, <1>4, <1>6, <1>8, <1>9, <1>10, HandlerKeeps

\* Broadcast: the job is done once its message is published.
LEMMA BroadcastKeeps == ASSUME EventsInv, NEW j \in Jobs, Broadcast(j) PROVE EventsInv'
<1>1. Types /\ Work(j) /\ result[j] = "none" /\ stage[j] = "running"
      /\ j[4] \in {"channel_broadcast", "write_status_projection"}
  BY DEF EventsInv, Broadcast, Work, Types
<1>2. Queue!Finish(j) \/ Retry(j) BY DEF Broadcast
<1>3. stage'[j] \in {"done", "waiting", "dead"} /\ starts' = starts BY <1>2, HandlerMoves
<1>4. faults' = faults \/ Fault BY DEF Broadcast
<1>5. faults <= faults' /\ faults \in Nat /\ faults' \in Nat BY <1>1, <1>4, FaultStep DEF Types
<1>6. room[j] + 1 \in Nat /\ (room' = room \/ room' = [room EXCEPT ![j] = room[j] + 1])
  BY <1>1 DEF Broadcast, Types
<1>7. stage'[j] = "done" => room'[j] > 0
  <2>1. Retry(j) => stage'[j] # "done" BY HandlerMoves
  <2>2. room[j] \in Nat /\ room \in [Jobs -> Nat] BY <1>1 DEF Types
  <2>3. QED BY <2>1, <2>2 DEF Broadcast
<1>8. Work(j)'
  <2>1. sent' = sent /\ result' = result BY DEF Broadcast
  <2>2. sent[j] \in Nat /\ sent[j] <= faults BY <1>1 DEF Work, Types
  <2>3. j[4] # "event_log" /\ j[4] # "webhook_deliver" BY <1>1
  <2>4. QED BY <1>1, <1>3, <1>5, <1>7, <2>1, <2>2, <2>3 DEF Work
<1>9. sent' = sent /\ result' = result /\ delivered' = delivered /\ log' = log
      /\ UNCHANGED <<call, nth, failed, answer>>
  BY DEF Broadcast
<1>10. 0 \in Nat /\ << >> \in Seq({"success", "failed"}) OBVIOUS
<1>11. QED BY <1>2, <1>4, <1>6, <1>8, <1>9, <1>10, HandlerKeeps

\* The handlers that only log.
LEMMA LogOnlyKeeps == ASSUME EventsInv, NEW j \in Jobs, LogOnly(j) PROVE EventsInv'
<1>1. Types /\ Work(j) /\ result[j] = "none" /\ stage[j] = "running"
      /\ j[4] \in {"hook_execute", "notify_on_call", "open_incident_from_webhook"}
  BY DEF EventsInv, LogOnly, Work, Types
<1>2. Queue!Finish(j) BY DEF LogOnly
<1>3. stage'[j] \in {"done", "waiting", "dead"} /\ starts' = starts BY <1>2, HandlerMoves
<1>4. faults' = faults /\ sent' = sent /\ result' = result /\ delivered' = delivered
      /\ log' = log /\ room' = room /\ UNCHANGED <<call, nth, failed, answer>>
  BY DEF LogOnly
<1>5. Work(j)'
  <2>1. sent[j] \in Nat /\ faults \in Nat /\ sent[j] <= faults BY <1>1 DEF Work, Types
  <2>2. j[4] # "event_log" /\ j[4] # "webhook_deliver"
        /\ j[4] \notin {"channel_broadcast", "write_status_projection"}
    BY <1>1
  <2>3. QED BY <1>1, <1>3, <1>4, <2>1, <2>2 DEF Work
<1>6. 0 \in Nat /\ << >> \in Seq({"success", "failed"}) OBVIOUS
<1>7. QED BY <1>2, <1>4, <1>5, <1>6, HandlerKeeps

\* Webhook, first half: the POST; without a dispatcher the job is done.
LEMMA PostKeeps == ASSUME EventsInv, NEW j \in Jobs, Post(j) PROVE EventsInv'
<1>1. Types /\ Work(j) /\ result[j] = "none" /\ stage[j] = "running"
      /\ j[4] = "webhook_deliver" /\ sent[j] <= faults /\ sent[j] \in Nat /\ faults \in Nat
  BY DEF EventsInv, Post, Work, Types
<1>2. faults' = faults /\ delivered' = delivered /\ log' = log /\ room' = room
      /\ UNCHANGED <<call, nth, failed, answer>>
  BY DEF Post
<1>3. CASE ~HasDispatcher
  <2>1. Queue!Finish(j) /\ sent' = sent /\ result' = result BY <1>3 DEF Post
  <2>2. stage'[j] = "done" /\ starts' = starts BY <2>1, HandlerMoves
  <2>3. Work(j)' BY <1>1, <1>2, <1>3, <2>1, <2>2 DEF Work
  <2>4. 0 \in Nat /\ << >> \in Seq({"success", "failed"}) OBVIOUS
  <2>5. QED BY <1>2, <2>1, <2>3, <2>4, HandlerKeeps
<1>4. CASE HasDispatcher
  <2>1. PostAnswers(j) /\ stage' = stage /\ starts' = starts BY <1>4 DEF Post, queue
  <2>2. PICK r \in {"success", "failed"} : result' = [result EXCEPT ![j] = r]
    BY <2>1 DEF PostAnswers
  <2>3. sent' = sent \/ sent' = [sent EXCEPT ![j] = @ + 1] BY <2>1 DEF PostAnswers
  <2>4. sent'[j] \in {sent[j], sent[j] + 1} /\ sent' \in [Jobs -> Nat] BY <1>1, <2>3 DEF Types
  <2>5. result'[j] = r /\ result' \in [Jobs -> {"none", "success", "failed"}]
    BY <1>1, <2>2 DEF Types
  <2>6. Work(j)' BY <1>1, <1>2, <2>1, <2>4, <2>5 DEF Work
  <2>7. OnlyFor(j) BY <1>1, <1>2, <2>1, <2>2, <2>3, <2>4, <2>5 DEF OnlyFor, Types
  <2>8. QED BY <2>6, <2>7, OnlyForKeeps
<1>5. QED BY <1>3, <1>4

\* Webhook, second half: the record; only a fault makes the job start again.
LEMMA RecordKeeps == ASSUME EventsInv, NEW j \in Jobs, Record(j) PROVE EventsInv'
<1>1. Types /\ Work(j) /\ result[j] # "none" /\ stage[j] = "running"
      /\ j[4] = "webhook_deliver" /\ sent[j] <= 1 + faults /\ sent[j] \in Nat
  BY DEF EventsInv, Record, Work, Types
<1>2. Queue!Finish(j) \/ Retry(j) BY DEF Record
<1>3. starts' = starts /\ (Queue!Finish(j) => stage'[j] = "done")
      /\ (Retry(j) => stage'[j] \in {"waiting", "dead"})
  BY <1>2, HandlerMoves
<1>4. faults' = faults \/ Fault BY DEF Record
<1>5. sent' = sent /\ log' = log /\ room' = room /\ UNCHANGED <<call, nth, failed, answer>>
      /\ result' = [result EXCEPT ![j] = "none"]
  BY DEF Record
<1>6. result'[j] = "none" BY <1>1, <1>5 DEF Types
<1>7. result[j] \in {"success", "failed"} /\ delivered[j] \in Seq({"success", "failed"})
  BY <1>1 DEF Types
<1> DEFINE d == Append(delivered[j], result[j])
<1>8. d \in Seq({"success", "failed"}) /\ d # << >> BY <1>7
<1>9. delivered' = delivered \/ delivered' = [delivered EXCEPT ![j] = d]
  BY DEF Record, RecordRow
<1>10. \/ Queue!Finish(j) /\ faults' = faults /\ RecordRow(j)
       \/ Retry(j) /\ faults' = faults + 1
  <2>1. Fault => faults' = faults + 1 BY <1>1, FaultStep
  <2>2. \/ Queue!Finish(j) /\ faults' = faults /\ RecordRow(j)
        \/ Fault /\ Retry(j)
    BY DEF Record
  <2>3. QED BY <2>1, <2>2
<1>11. RecordRow(j) => delivered'[j] = d BY <1>1 DEF RecordRow, Types
<1>12. faults \in Nat BY <1>1 DEF Types
<1> HIDE DEF d
<1>13. Work(j)'
  <2>1. sent'[j] <= 1 + faults' BY <1>1, <1>5, <1>10, <1>12
  <2>2. stage'[j] # "done" => sent'[j] <= faults' BY <1>1, <1>3, <1>5, <1>10, <1>12
  <2>3. stage'[j] = "done" => delivered'[j] # << >>
    BY <1>3, <1>8, <1>10, <1>11
  <2>4. stage'[j] # "new" BY <1>3, <1>10
  <2>5. QED BY <1>1, <1>6, <2>1, <2>2, <2>3, <2>4 DEF Work
<1>14. 0 \in Nat OBVIOUS
<1>15. QED BY <1>2, <1>4, <1>5, <1>8, <1>9, <1>13, <1>14, HandlerKeeps

\* A source that begins its first call.
LEMMA StartKeeps ==
    ASSUME EventsInv, NEW s \in Sources, call[s] = 0, call' = [call EXCEPT ![s] = 1],
           UNCHANGED <<nth, failed, answer, queue, log, sent, result, delivered, room, faults>>
    PROVE  EventsInv'
<1>1. Types /\ Types' BY DEF EventsInv, Types, queue
<1>2. nth' = nth /\ failed' = failed /\ stage' = stage /\ starts' = starts /\ faults' = faults
  BY DEF queue
<1>3. call'[s] = 1 /\ \A t \in Sources \ {s} : call'[t] = call[t] BY <1>1 DEF Types
<1>4. ASSUME NEW t \in Sources PROVE Progress(t)'
  <2>1. Progress(t) BY DEF EventsInv
  <2>2. CASE t # s BY <2>1, <2>2, <1>2, <1>3 DEF Progress
  <2>3. CASE t = s
    <3>1. Len(Calls[s]) \in Nat BY CallsShape
    <3>2. 1 \in 1 .. Len(Enqueues(Calls[s][1])) BY EnqueuesShape
    <3>3. nth[s] = 1 /\ \A c \in failed[s] : c < call[s] BY <2>1, <2>3 DEF Progress
    <3>4. \A c \in failed[s] : c < 1 BY <3>3, <2>1, <2>3 DEF Progress
    <3>5. QED BY <2>1, <2>3, <1>2, <1>3, <3>1, <3>2, <3>3, <3>4 DEF Progress
  <2>4. QED BY <2>2, <2>3
<1>5. ASSUME NEW j \in Jobs PROVE Queued(j)'
  <2>1. Queued(j) /\ Progress(j[1]) /\ j[1] \in Sources /\ j[2] \in Nat /\ j[3] \in Nat
        /\ j[2] > 0 /\ j[3] > 0
    BY JobParts DEF EventsInv
  <2>2. CASE j[1] # s BY <2>1, <2>2, <1>2, <1>3 DEF Queued
  <2>3. CASE j[1] = s
    <3>1. stage[j] = "new" /\ nth[s] = 1 /\ call[j[1]] = 0 BY <2>1, <2>3 DEF Queued, Progress
    <3>2. QED BY <2>1, <2>3, <3>1, <1>2, <1>3 DEF Queued
  <2>4. QED BY <2>2, <2>3
<1>6. InOrder' BY <1>2 DEF EventsInv, InOrder
<1>7. Spent'
  <2>1. ASSUME NEW t \in Sources PROVE Broken(t)' = Broken(t) BY <1>2 DEF Broken, JobsOf
  <2>2. QED BY <2>1, <1>2 DEF EventsInv, Spent
<1>8. ASSUME NEW j \in Jobs PROVE Work(j)'
  BY <1>2, OthersWork
<1>9. QED BY <1>1, <1>4, <1>5, <1>6, <1>7, <1>8 DEF EventsInv

\* A step that only answers a request.
LEMMA AnswerKeeps ==
    ASSUME EventsInv, NEW s \in Sources,
           answer' \in [Sources -> {"none", "401", "422", "not_accepted", "accepted"}],
           UNCHANGED <<call, nth, failed, queue, log, sent, result, delivered, room, faults>>
    PROVE  EventsInv'
<1>1. call' = call /\ nth' = nth /\ failed' = failed /\ stage' = stage /\ starts' = starts
      /\ faults' = faults /\ sent' = sent /\ result' = result /\ delivered' = delivered
      /\ room' = room /\ log' = log
  BY DEF queue
<1>2. Types' BY <1>1 DEF EventsInv, Types
<1>3. \A t \in Sources : Progress(t)' BY <1>1 DEF EventsInv, Progress
<1>4. \A j \in Jobs : Queued(j)' BY <1>1 DEF EventsInv, Queued
<1>5. InOrder' BY <1>1 DEF EventsInv, InOrder
<1>6. Spent' BY <1>1 DEF EventsInv, Spent, Broken, JobsOf
<1>7. ASSUME NEW j \in Jobs PROVE Work(j)' BY <1>1, OthersWork
<1>8. QED BY <1>2, <1>3, <1>4, <1>5, <1>6, <1>7 DEF EventsInv

\* One enqueue, and what becomes of the call.
EmitStep(s, j, to, error) ==
    /\ j[1] = s /\ j[2] = call[s] /\ j[3] = nth[s]
    /\ stage[j] = "new" /\ stage' = [stage EXCEPT ![j] = to] /\ to \in {"waiting", "gone"}
    /\ to = "gone" => error
    /\ \/ ~error /\ nth[s] < Len(Enqueues(Calls[s][call[s]]))
          /\ nth' = [nth EXCEPT ![s] = @ + 1] /\ UNCHANGED <<call, failed>>
       \/ (error \/ ~(nth[s] < Len(Enqueues(Calls[s][call[s]])))) /\ EndCall(s, error)
    /\ IF error THEN Fault ELSE UNCHANGED faults
    /\ UNCHANGED <<starts, answer, log, sent, result, delivered, room>>

\* EmitNext is such a step.
LEMMA EmitNextIs ==
    ASSUME Types, NEW s \in Sources, EmitNext(s)
    PROVE  \E j \in Jobs, to \in {"waiting", "gone"}, error \in BOOLEAN : EmitStep(s, j, to, error)
<1>1. PICK j \in JobsOf(s, call[s]) :
          /\ j[3] = nth[s]
          /\ \/ /\ Queue!Accept(j) /\ UNCHANGED faults
                /\ IF nth[s] < Cardinality(JobsOf(s, call[s]))
                   THEN nth' = [nth EXCEPT ![s] = @ + 1] /\ UNCHANGED <<call, failed>>
                   ELSE AfterCall(s, FALSE)
             \/ (Queue!Accept(j) \/ Queue!Refuse(j)) /\ Fault /\ AfterCall(s, TRUE)
          /\ UNCHANGED <<answer, log, sent, result, delivered, room>>
  BY DEF EmitNext
<1>2. j \in Jobs /\ j[1] = s /\ j[2] = call[s] BY DEF JobsOf
<1>3. call[s] \in 1 .. Len(Calls[s]) BY <1>2, JobParts
<1>4. Cardinality(JobsOf(s, call[s])) = Len(Enqueues(Calls[s][call[s]])) BY <1>3, JobCount
<1>5. Queue!Accept(j) => /\ stage[j] = "new" /\ stage' = [stage EXCEPT ![j] = "waiting"]
                         /\ starts' = starts
  BY DEF Queue!Accept
<1>6. Queue!Refuse(j) => /\ stage[j] = "new" /\ stage' = [stage EXCEPT ![j] = "gone"]
                         /\ starts' = starts
  BY DEF Queue!Refuse
<1>7. CASE /\ Queue!Accept(j) /\ UNCHANGED faults
           /\ IF nth[s] < Cardinality(JobsOf(s, call[s]))
              THEN nth' = [nth EXCEPT ![s] = @ + 1] /\ UNCHANGED <<call, failed>>
              ELSE AfterCall(s, FALSE)
  <2>1. EmitStep(s, j, "waiting", FALSE)
    BY <1>1, <1>2, <1>4, <1>5, <1>7 DEF EmitStep, AfterCall
  <2>2. QED BY <1>2, <2>1
<1>8. CASE (Queue!Accept(j) \/ Queue!Refuse(j)) /\ Fault /\ AfterCall(s, TRUE)
  <2>1. CASE Queue!Accept(j)
    <3>1. EmitStep(s, j, "waiting", TRUE)
      BY <1>1, <1>2, <1>5, <1>8, <2>1 DEF EmitStep, AfterCall
    <3>2. QED BY <1>2, <3>1
  <2>2. CASE Queue!Refuse(j)
    <3>1. EmitStep(s, j, "gone", TRUE)
      BY <1>1, <1>2, <1>6, <1>8, <2>2 DEF EmitStep, AfterCall
    <3>2. QED BY <1>2, <3>1
  <2>3. QED BY <1>8, <2>1, <2>2
<1>9. QED BY <1>1, <1>7, <1>8

\* The job at nth[s] is queued or refused, and what is queued of the call stays
\* its beginning; a call that ends in an error costs a fault.
LEMMA EmitKeeps ==
    ASSUME EventsInv, NEW s \in Sources, NEW j \in Jobs, NEW to \in {"waiting", "gone"},
           NEW error \in BOOLEAN, EmitStep(s, j, to, error)
    PROVE  EventsInv'
<1> DEFINE at == call[s]
           len == Len(Enqueues(Calls[s][at]))
           over == error \/ ~(nth[s] < len)
<1>1. Types /\ Progress(s) BY DEF EventsInv
<1>2. /\ j[1] = s /\ j[2] = at /\ j[3] = nth[s]
      /\ at \in 1 .. Len(Calls[s]) /\ Len(Calls[s]) \in Nat /\ at \in Nat
      /\ nth[s] \in 1 .. len /\ len \in Nat /\ nth[s] \in Nat
  <2>1. j[1] = s /\ j[2] = at /\ j[3] = nth[s] BY DEF EmitStep
  <2>2. at \in 1 .. Len(Calls[s]) /\ Len(Calls[s]) \in Nat BY <2>1, JobParts
  <2>3. len \in Nat BY EnqueuesShape
  <2>4. nth[s] \in 1 .. len BY <1>1, <2>2 DEF Progress
  <2>5. QED BY <2>1, <2>2, <2>3, <2>4
<1>3. stage[j] = "new" /\ stage'[j] = to /\ \A k \in Jobs \ {j} : stage'[k] = stage[k]
  BY <1>1 DEF EmitStep, Types
<1>4. to = "gone" => error BY DEF EmitStep
<1>5. stage' \in [Jobs -> Queue!Stages]
  <2>1. to \in Queue!Stages BY DEF Queue!Stages
  <2>2. QED BY <1>1, <2>1 DEF EmitStep, Types
<1>6. /\ starts' = starts /\ answer' = answer /\ log' = log /\ sent' = sent
      /\ result' = result /\ delivered' = delivered /\ room' = room
  BY DEF EmitStep
<1>7. /\ faults \in Nat /\ faults' \in 0 .. MaxFaults
      /\ faults' = IF error THEN faults + 1 ELSE faults
  <2>1. IF error THEN Fault ELSE faults' = faults BY DEF EmitStep
  <2>2. CASE error BY <1>1, <2>1, <2>2, FaultStep
  <2>3. CASE ~error BY <1>1, <2>1, <2>3 DEF Types
  <2>4. QED BY <2>2, <2>3
<1>8. /\ call' = IF over THEN [call EXCEPT ![s] = at + 1] ELSE call
      /\ nth' = [nth EXCEPT ![s] = IF over THEN 1 ELSE nth[s] + 1]
      /\ failed' = IF over /\ error THEN [failed EXCEPT ![s] = failed[s] \union {at}] ELSE failed
  <2>1. CASE over
    <3>1. EndCall(s, error) BY <2>1 DEF EmitStep
    <3>2. error => failed' = [failed EXCEPT ![s] = failed[s] \union {at}] BY <3>1 DEF EndCall
    <3>3. ~error => failed' = failed BY <3>1, <1>1 DEF EndCall, Types
    <3>4. QED BY <2>1, <3>1, <3>2, <3>3 DEF EndCall
  <2>2. CASE ~over
    <3>1. nth' = [nth EXCEPT ![s] = nth[s] + 1] /\ call' = call /\ failed' = failed
      BY <2>2 DEF EmitStep
    <3>2. QED BY <2>2, <3>1
  <2>3. QED BY <2>1, <2>2
<1>9. /\ call'[s] = IF over THEN at + 1 ELSE at
      /\ nth'[s] = IF over THEN 1 ELSE nth[s] + 1
      /\ failed'[s] = IF over /\ error THEN failed[s] \union {at} ELSE failed[s]
      /\ \A t \in Sources \ {s} : call'[t] = call[t] /\ nth'[t] = nth[t] /\ failed'[t] = failed[t]
      /\ call' \in [Sources -> Nat] /\ nth' \in [Sources -> Nat]
      /\ failed' \in [Sources -> SUBSET Nat]
  <2>1. at + 1 \in Nat /\ nth[s] + 1 \in Nat /\ failed[s] \union {at} \in SUBSET Nat
    BY <1>1, <1>2 DEF Types
  <2>2. call \in [Sources -> Nat] /\ nth \in [Sources -> Nat] /\ failed \in [Sources -> SUBSET Nat]
    BY <1>1 DEF Types
  <2> HIDE DEF at, over, len
  <2>3. /\ call'[s] = (IF over THEN at + 1 ELSE call[s])
        /\ \A t \in Sources \ {s} : call'[t] = call[t]
        /\ call' \in [Sources -> Nat]
    BY <1>8, <2>1, <2>2
  <2>4. /\ nth'[s] = (IF over THEN 1 ELSE nth[s] + 1)
        /\ \A t \in Sources \ {s} : nth'[t] = nth[t]
        /\ nth' \in [Sources -> Nat]
    BY <1>8, <2>1, <2>2
  <2>5. /\ failed'[s] = (IF over /\ error THEN failed[s] \union {at} ELSE failed[s])
        /\ \A t \in Sources \ {s} : failed'[t] = failed[t]
        /\ failed' \in [Sources -> SUBSET Nat]
    BY <1>8, <2>1, <2>2
  <2>6. call[s] = at BY DEF at
  <2>7. QED BY <2>3, <2>4, <2>5, <2>6
<1> HIDE DEF len
<1>10. Types' BY <1>1, <1>5, <1>6, <1>7, <1>9 DEF Types
<1>11. ASSUME NEW t \in Sources PROVE Progress(t)'
  <2>1. Progress(t) BY DEF EventsInv
  <2>2. CASE t # s BY <2>1, <2>2, <1>9 DEF Progress
  <2>3. CASE t = s
    <3>1. CASE over
      <4>1. call'[s] = at + 1 /\ nth'[s] = 1 /\ failed'[s] \subseteq failed[s] \union {at}
        BY <1>9, <3>1
      <4>2. 1 \in 1 .. Len(Enqueues(Calls[s][at + 1])) BY EnqueuesShape
      <4>3. at + 1 \in 0 .. (Len(Calls[s]) + 1) /\ at + 1 # 0 BY <1>2
      <4>4. \A c \in failed[s] \union {at} : c \in 1 .. Len(Calls[s]) /\ c < at + 1
        BY <1>1, <1>2 DEF Progress
      <4>5. QED BY <2>3, <4>1, <4>2, <4>3, <4>4 DEF Progress
    <3>2. CASE ~over
      <4>1. call'[s] = at /\ nth'[s] = nth[s] + 1 /\ failed'[s] = failed[s] BY <1>9, <3>2
      <4>2. nth[s] + 1 \in 1 .. len BY <1>2, <3>2
      <4>3. QED BY <1>1, <1>2, <2>3, <4>1, <4>2 DEF Progress, len
    <3>3. QED BY <3>1, <3>2
  <2>4. QED BY <2>2, <2>3
<1>12. ASSUME NEW k \in Jobs, k[1] = s PROVE Queued(k)'
  <2>1. Queued(k) /\ k[2] \in Nat /\ k[3] \in Nat /\ k[3] > 0 BY JobParts DEF EventsInv
  <2>2. k # j /\ k[2] = at => k[3] # nth[s] BY <1>2, <1>12, SameJob
  <2>3. k[2] = at => k[3] <= len BY JobParts, <1>2, <1>12 DEF len
  <2>4. stage'[k] = IF k = j THEN to ELSE stage[k] BY <1>3
  <2>5. /\ at < k[2] => stage[k] = "new"
        /\ k[2] = at => (stage[k] = "new" <=> k[3] >= nth[s])
        /\ at > k[2] /\ k[2] \notin failed[s] => stage[k] # "new"
    BY <2>1, <1>12 DEF Queued
  <2>6. k = j => k[2] = at /\ k[3] = nth[s] BY <1>2
  <2>7. CASE over
    <3>1. call'[s] = at + 1 /\ nth'[s] = 1
          /\ failed'[s] = (IF error THEN failed[s] \union {at} ELSE failed[s])
      BY <1>9, <2>7
    <3>2. at + 1 < k[2] => stage'[k] = "new" BY <1>2, <2>1, <2>4, <2>5, <2>6
    <3>3. at + 1 = k[2] => stage'[k] = "new" BY <1>2, <2>1, <2>4, <2>5, <2>6
    <3>4. ASSUME k[2] = at, ~error PROVE stage'[k] # "new"
      BY <1>2, <2>1, <2>2, <2>3, <2>4, <2>5, <2>7, <3>4
    <3>5. ASSUME k[2] < at, k[2] \notin failed[s] PROVE stage'[k] # "new"
      BY <1>2, <2>1, <2>4, <2>5, <2>6, <3>5
    <3>6. ASSUME at + 1 > k[2], k[2] \notin failed'[s] PROVE stage'[k] # "new"
      <4>1. k[2] = at \/ k[2] < at BY <1>2, <2>1, <3>6
      <4>2. k[2] = at => ~error BY <3>1, <3>6
      <4>3. k[2] \notin failed[s] BY <3>1, <3>6
      <4>4. QED BY <4>1, <4>2, <4>3, <3>4, <3>5
    <3>7. QED BY <1>12, <2>1, <3>1, <3>2, <3>3, <3>6 DEF Queued
  <2>8. CASE ~over
    <3>1. call'[s] = at /\ nth'[s] = nth[s] + 1 /\ failed'[s] = failed[s] BY <1>9, <2>8
    <3>2. at < k[2] => stage'[k] = "new" BY <1>2, <2>4, <2>5, <2>6
    <3>3. k[2] = at => (stage'[k] = "new" <=> k[3] >= nth[s] + 1)
      BY <1>2, <2>1, <2>2, <2>4, <2>5, <2>6
    <3>4. at > k[2] /\ k[2] \notin failed[s] => stage'[k] # "new" BY <2>4, <2>5
    <3>5. QED BY <1>12, <3>1, <3>2, <3>3, <3>4 DEF Queued
  <2>9. QED BY <2>7, <2>8
<1>13. ASSUME NEW k \in Jobs, k[1] # s PROVE Queued(k)'
  <2>1. k # j /\ k[1] \in Sources \ {s} BY <1>2, <1>13, JobParts
  <2>2. QED BY <2>1, <1>3, <1>9 DEF EventsInv, Queued
<1>14. InOrder'
  <2>1. SUFFICES ASSUME NEW i \in Jobs, NEW k \in Jobs, i[1] = k[1], i[2] = k[2], k[3] < i[3],
                        stage'[k] = "new"
                 PROVE  stage'[i] = "new"
    BY DEF InOrder
  <2>2. stage[k] = "new" /\ k # j BY <2>1, <1>3
  <2>3. stage[i] = "new" BY <2>1, <2>2 DEF EventsInv, InOrder
  <2>4. CASE i = j
    <3>1. k[1] = s /\ k[2] = at /\ k[3] < nth[s] BY <2>1, <2>4, <1>2
    <3>2. k[3] >= nth[s] BY <3>1, <2>2 DEF EventsInv, Queued
    <3>3. QED BY <1>2, <3>1, <3>2, JobParts
  <2>5. CASE i # j BY <2>3, <2>5, <1>3
  <2>6. QED BY <2>4, <2>5
<1>15. Spent'
  <2>1. SUFFICES ASSUME NEW t \in Sources PROVE Cardinality(Broken(t)') <= faults'
    BY DEF Spent
  <2>2. Progress(t) BY DEF EventsInv
  <2>3. IsFiniteSet(Broken(t)) /\ Cardinality(Broken(t)) \in Nat BY <2>2, BrokenShape
  <2>4. Cardinality(Broken(t)) <= faults BY DEF EventsInv, Spent
  <2>5. CASE error
    <3>1. failed'[t] \subseteq failed[t] \union {at} BY <1>9
    <3>2. Broken(t)' \subseteq Broken(t) \union {at} BY <1>2, <1>3, <3>1 DEF Broken, JobsOf
    <3>3. Cardinality(Broken(t)') \in Nat
          /\ Cardinality(Broken(t)') <= Cardinality(Broken(t)) + 1
      BY <2>3, <3>2, OneMore
    <3>4. QED BY <1>7, <2>3, <2>4, <2>5, <3>3
  <2>6. CASE ~error
    <3>1. failed'[t] = failed[t] /\ to # "gone" BY <1>4, <1>9, <2>6
    <3>2. Broken(t)' \subseteq Broken(t) BY <1>3, <3>1 DEF Broken, JobsOf
    <3>3. Cardinality(Broken(t)') <= Cardinality(Broken(t)) /\ IsFiniteSet(Broken(t)')
      BY <2>3, <3>2, FS_Subset
    <3>4. Cardinality(Broken(t)') \in Nat BY <3>3, FS_CardinalityType
    <3>5. QED BY <1>7, <2>3, <2>4, <2>6, <3>3, <3>4
  <2>7. QED BY <2>5, <2>6
<1>16. ASSUME NEW k \in Jobs PROVE Work(k)'
  <2>1. faults' \in {faults, faults + 1} BY <1>7
  <2>2. CASE k # j BY <2>1, <2>2, <1>3, <1>6, OthersWork
  <2>3. CASE k = j
    <3>1. Work(j) /\ sent[j] \in Nat BY <1>1 DEF EventsInv, Types
    <3>2. result[j] = "none" /\ sent[j] <= faults BY <3>1, <1>3, <1>1 DEF Work, Types
    <3>3. sent'[j] <= faults' /\ sent'[j] <= 1 + faults' BY <3>1, <3>2, <2>1, <1>6, <1>7
    <3>4. stage'[j] \in {"waiting", "gone"} /\ result'[j] = "none" BY <3>2, <1>3, <1>6
    <3>5. QED BY <2>3, <3>3, <3>4 DEF Work
  <2>4. QED BY <2>2, <2>3
<1>17. \A k \in Jobs : Queued(k)' BY <1>12, <1>13
<1>18. QED BY <1>10, <1>11, <1>14, <1>15, <1>16, <1>17 DEF EventsInv

\* Nothing is queued at the start.
LEMMA EventsInitially == Init => EventsInv
<1> SUFFICES ASSUME Init PROVE EventsInv OBVIOUS
<1>1. /\ call = [s \in Sources |-> 0] /\ nth = [s \in Sources |-> 1]
      /\ failed = [s \in Sources |-> {}] /\ answer = [s \in Sources |-> "none"]
      /\ stage = [j \in Jobs |-> "new"] /\ starts = [j \in Jobs |-> 0]
      /\ sent = [j \in Jobs |-> 0] /\ result = [j \in Jobs |-> "none"]
      /\ delivered = [j \in Jobs |-> << >>] /\ room = [j \in Jobs |-> 0] /\ faults = 0
  BY DEF Init, Queue!Init
<1>2. Types
  <2>1. "new" \in Queue!Stages BY DEF Queue!Stages
  <2>2. 0 \in 0 .. Retries /\ 0 \in 0 .. MaxFaults BY EventsAssumption
  <2>3. << >> \in Seq({"success", "failed"}) OBVIOUS
  <2>4. QED BY <1>1, <2>1, <2>2, <2>3 DEF Types
<1>3. ASSUME NEW s \in Sources PROVE Progress(s)
  <2>1. Len(Calls[s]) \in Nat BY CallsShape
  <2>2. QED BY <1>1, <2>1 DEF Progress
<1>4. ASSUME NEW j \in Jobs PROVE Queued(j) BY <1>1, JobParts DEF Queued
<1>5. InOrder BY <1>1 DEF InOrder
<1>6. ASSUME NEW s \in Sources PROVE Cardinality(Broken(s)) <= faults
  <2>1. Broken(s) = {} BY <1>1 DEF Broken, JobsOf
  <2>2. Cardinality(Broken(s)) = 0 BY <2>1, FS_EmptySet
  <2>3. QED BY <1>1, <2>2
<1>7. ASSUME NEW j \in Jobs PROVE Work(j) BY <1>1 DEF Work
<1>8. QED BY <1>2, <1>3, <1>4, <1>5, <1>6, <1>7 DEF EventsInv, Spent

\* The steps of the requests.
LEMMA SourceKeeps ==
    ASSUME EventsInv, NEW s \in Sources,
           \/ Write(s) \/ EmitNext(s) \/ Accept(s)
           \/ \E h \in Headers, json \in BOOLEAN, accepted \in BOOLEAN :
                 handle_inbound_webhook(s, h, json, accepted)
    PROVE  EventsInv'
<1>1. Types BY DEF EventsInv
<1>2. CASE Write(s) BY <1>2, StartKeeps DEF Write
<1>3. CASE EmitNext(s)
  <2>1. PICK j \in Jobs, to \in {"waiting", "gone"}, error \in BOOLEAN :
            EmitStep(s, j, to, error)
    BY <1>1, <1>3, EmitNextIs
  <2>2. QED BY <2>1, EmitKeeps
<1>4. CASE Accept(s)
  <2>1. answer' \in [Sources -> {"none", "401", "422", "not_accepted", "accepted"}]
    BY <1>1, <1>4 DEF Accept, Types
  <2>2. QED BY <1>4, <2>1, AnswerKeeps DEF Accept
<1>5. ASSUME NEW h, NEW json \in BOOLEAN, NEW accepted \in BOOLEAN,
             handle_inbound_webhook(s, h, json, accepted)
      PROVE  EventsInv'
  <2>1. UNCHANGED <<nth, failed, queue, log, sent, result, delivered, room, faults>>
        /\ call[s] = 0
    BY <1>5 DEF handle_inbound_webhook
  <2>2. \/ call' = [call EXCEPT ![s] = 1] /\ answer' = answer
        \/ /\ call' = call
           /\ answer' \in [Sources -> {"none", "401", "422", "not_accepted", "accepted"}]
    BY <1>1, <1>5 DEF handle_inbound_webhook, Types
  <2>3. CASE call' = [call EXCEPT ![s] = 1] /\ answer' = answer BY <2>1, <2>3, StartKeeps
  <2>4. CASE /\ call' = call
             /\ answer' \in [Sources -> {"none", "401", "422", "not_accepted", "accepted"}]
    BY <2>1, <2>4, AnswerKeeps
  <2>5. QED BY <2>2, <2>3, <2>4
<1>6. QED BY <1>2, <1>3, <1>4, <1>5

\* Every step keeps the invariant.
LEMMA EventsPreserved == EventsInv /\ [Next]_vars => EventsInv'
<1> SUFFICES ASSUME EventsInv, [Next]_vars PROVE EventsInv' OBVIOUS
<1>1. CASE UNCHANGED vars
  <2>1. UNCHANGED <<call, nth, failed, queue, log, sent, result, delivered, room, faults>>
        /\ answer' = answer
    BY <1>1 DEF vars
  <2>2. CASE Sources = {}
    <3>1. stage' = stage /\ starts' = starts BY <2>1 DEF queue
    <3>2. Types' BY <2>1, <3>1 DEF EventsInv, Types
    <3>3. ASSUME NEW j \in Jobs PROVE FALSE BY <2>2, JobParts
    <3>4. QED BY <2>2, <3>2, <3>3 DEF EventsInv, InOrder, Spent
  <2>3. CASE \E s \in Sources : TRUE
    <3>1. answer' \in [Sources -> {"none", "401", "422", "not_accepted", "accepted"}]
      BY <2>1 DEF EventsInv, Types
    <3>2. QED BY <2>1, <2>3, <3>1, AnswerKeeps
  <2>4. QED BY <2>2, <2>3
<1>2. ASSUME NEW s \in Sources,
             \/ Write(s) \/ EmitNext(s) \/ Accept(s)
             \/ \E h \in Headers, json \in BOOLEAN, accepted \in BOOLEAN :
                   handle_inbound_webhook(s, h, json, accepted)
      PROVE  EventsInv'
  BY <1>2, SourceKeeps
<1>3. ASSUME NEW j \in Jobs, Begin(j) \/ Handler(j) \/ Lost(j) PROVE EventsInv'
  <2>1. CASE Begin(j) BY <2>1, BeginKeeps
  <2>2. CASE AppendLog(j) BY <2>2, AppendLogKeeps
  <2>3. CASE Post(j) BY <2>3, PostKeeps
  <2>4. CASE Record(j) BY <2>4, RecordKeeps
  <2>5. CASE Broadcast(j) BY <2>5, BroadcastKeeps
  <2>6. CASE LogOnly(j) BY <2>6, LogOnlyKeeps
  <2>7. CASE Lost(j) BY <2>7, LostKeeps
  <2>8. QED BY <1>3, <2>1, <2>2, <2>3, <2>4, <2>5, <2>6, <2>7 DEF Handler
<1>4. QED BY <1>1, <1>2, <1>3 DEF Next

\* EventsInv holds in every state of the emitter, the worker and the handlers.
THEOREM EventsInvariant == Spec => []EventsInv
<1>1. QED BY EventsInitially, EventsPreserved, PTL DEF Spec

-----------------------------------------------------------------------------
(* What follows *)

\* EventsInv has the types of TypeOK; a source at a call has a job to queue.
LEMMA InvTyped == EventsInv => TypeOK
<1> SUFFICES ASSUME EventsInv PROVE TypeOK OBVIOUS
<1>1. Types BY DEF EventsInv
<1>2. ASSUME NEW s \in Sources
      PROVE  call[s] \in 0..(Len(Calls[s]) + 1) /\ failed[s] \subseteq 1..Len(Calls[s])
  BY DEF EventsInv, Progress
<1>3. ASSUME NEW s \in Sources, ~Done(s), call[s] > 0
      PROVE  \E j \in JobsOf(s, call[s]) : j[3] = nth[s]
  <2>1. Progress(s) /\ call[s] \in Nat /\ Len(Calls[s]) \in Nat
    BY <1>1, CallsShape DEF EventsInv, Types
  <2>2. call[s] \in 1 .. Len(Calls[s]) BY <1>3, <2>1 DEF Done
  <2>3. nth[s] \in 1 .. Len(Enqueues(Calls[s][call[s]])) BY <2>1, <2>2 DEF Progress
  <2>4. QED BY <2>2, <2>3, JobIn
<1>4. QED BY <1>1, <1>2, <1>3 DEF TypeOK, Types

\* The jobs queued of a call are its first ones.
LEMMA InvOrdered == EventsInv => ServedInOrder
<1> SUFFICES ASSUME EventsInv, NEW s \in Sources, NEW c \in DOMAIN Calls[s]
             PROVE  LET queued == {j \in JobsOf(s, c) :
                                     stage[j] \notin {"new", "gone"} \/ starts[j] > 0}
                    IN  /\ \A j \in queued : \A k \in JobsOf(s, c) :
                              k[3] < j[3] => stage[k] # "new"
                        /\ Calls[s][c].kind = "event" => \A j \in queued : j[4] # "event_log" =>
                              \E k \in JobsOf(s, c) : k[3] < j[3] /\ k[4] = "event_log"
                        /\ call[s] > c /\ c \notin failed[s] =>
                              \A j \in JobsOf(s, c) : stage[j] # "new"
  BY DEF ServedInOrder
<1> DEFINE queued == {j \in JobsOf(s, c) : stage[j] \notin {"new", "gone"} \/ starts[j] > 0}
<1>0. c \in 1 .. Len(Calls[s]) BY CallsShape
<1>1. ASSUME NEW j \in queued PROVE j \in Jobs /\ j[1] = s /\ j[2] = c /\ stage[j] # "new"
  <2>1. j \in Jobs /\ j[1] = s /\ j[2] = c BY DEF JobsOf
  <2>2. Work(j) BY <2>1 DEF EventsInv
  <2>3. QED BY <2>1, <2>2 DEF Work
<1>2. ASSUME NEW j \in queued, NEW k \in JobsOf(s, c), k[3] < j[3] PROVE stage[k] # "new"
  BY <1>1, <1>2 DEF JobsOf, EventsInv, InOrder
<1>3. ASSUME Calls[s][c].kind = "event", NEW j \in queued, j[4] # "event_log"
      PROVE  \E k \in JobsOf(s, c) : k[3] < j[3] /\ k[4] = "event_log"
  <2>1. /\ Len(Enqueues(Calls[s][c])) \in Nat \ {0}
        /\ Enqueues(Calls[s][c])[1] = "event_log"
    BY <1>3, EnqueuesShape
  <2>2. j[3] \in Nat /\ j[3] > 0 /\ j = JobOf(s, c, j[3]) BY <1>1, JobParts
  <2>3. j[4] = Enqueues(Calls[s][c])[j[3]] BY <2>2 DEF JobOf
  <2>4. 1 < j[3] BY <1>3, <2>1, <2>2, <2>3
  <2>5. 1 \in 1 .. Len(Enqueues(Calls[s][c])) BY <2>1
  <2>6. /\ JobOf(s, c, 1) \in JobsOf(s, c) /\ JobOf(s, c, 1)[3] = 1
        /\ JobOf(s, c, 1)[4] = "event_log"
    BY <1>0, <2>1, <2>5, JobIn
  <2>7. QED BY <2>4, <2>6
<1>4. ASSUME call[s] > c, c \notin failed[s], NEW j \in JobsOf(s, c) PROVE stage[j] # "new"
  BY <1>4 DEF JobsOf, EventsInv, Queued
<1>5. QED BY <1>2, <1>3, <1>4

\* The calls that lack a job are among those something went wrong with.
LEMMA InvLocal == EventsInv => FailuresStayLocal
<1> SUFFICES ASSUME EventsInv, NEW s \in Sources, Done(s)
             PROVE  Cardinality({c \in DOMAIN Calls[s] :
                        \E j \in JobsOf(s, c) : stage[j] \in {"new", "gone"}}) <= faults
  BY DEF FailuresStayLocal
<1> DEFINE short == {c \in DOMAIN Calls[s] : \E j \in JobsOf(s, c) : stage[j] \in {"new", "gone"}}
<1>1. Progress(s) /\ Types /\ Len(Calls[s]) \in Nat /\ DOMAIN Calls[s] = 1 .. Len(Calls[s])
  BY CallsShape DEF EventsInv
<1>2. call[s] > Len(Calls[s]) /\ call[s] \in Nat BY <1>1 DEF Done, Types
<1>3. ASSUME NEW c \in DOMAIN Calls[s], NEW j \in JobsOf(s, c), stage[j] = "new"
      PROVE  c \in failed[s]
  <2>1. Queued(j) /\ j[1] = s /\ j[2] = c BY DEF EventsInv, JobsOf
  <2>2. call[s] > c BY <1>1, <1>2
  <2>3. QED BY <1>3, <2>1, <2>2 DEF Queued
<1>4. short \subseteq Broken(s) BY <1>3 DEF Broken
<1>5. IsFiniteSet(Broken(s)) /\ Cardinality(Broken(s)) \in Nat BY <1>1, BrokenShape
<1> HIDE DEF short
<1>6. Cardinality(short) <= Cardinality(Broken(s)) /\ IsFiniteSet(short)
  BY <1>4, <1>5, FS_Subset
<1>7. Cardinality(short) \in Nat BY <1>6, FS_CardinalityType
<1>8. Cardinality(Broken(s)) <= faults BY DEF EventsInv, Spent
<1>9. faults \in Nat BY <1>1 DEF Types
<1>10. Cardinality(short) <= faults BY <1>5, <1>6, <1>7, <1>8, <1>9
<1>11. QED BY <1>10 DEF short

\* Work is what a finished job is to have done.
LEMMA InvDone == EventsInv => DoneMeansDone
BY DEF EventsInv, Work, DoneMeansDone

\* EventEmitter::emit and the handlers, for any calls and subscribers: the jobs
\* of an emit are queued in order behind its log entry, one fault costs at most
\* one call of a request, and a job that reports success did its work.
THEOREM EmitsTold == Spec => []EmitsAccountedFor
<1>1. EventsInv => EmitsAccountedFor
  BY InvTyped, InvOrdered, InvLocal, InvDone DEF EmitsAccountedFor
<1>2. QED BY <1>1, EventsInvariant, PTL

\* A webhook is posted again only after a fault: never because the target
\* refused it, and never after an acknowledged delivery was recorded.
THEOREM PostsAlwaysExplained == Spec => []PostsExplained
<1>1. EventsInv => PostsExplained BY DEF EventsInv, Work, PostsExplained
<1>2. QED BY <1>1, EventsInvariant, PTL
=============================================================================
