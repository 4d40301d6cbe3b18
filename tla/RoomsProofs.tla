---------------------------- MODULE RoomsProofs -----------------------------
(***************************************************************************)
(* What RoomsAgree, OnlyToMembers and BroadcastsArrive say of one channel  *)
(* holds for any number of sessions, rooms, messages and faults.           *)
(*                                                                         *)
(* The argument: where a session's task is determines what each of the     *)
(* three maps says about it (Placed); the lock of rooms keeps broadcasts   *)
(* out while a session is taken out of a room (Locked); and a message is   *)
(* owed by at most one sender and one place in the stream, so that the     *)
(* copies queued and the copies still owed never exceed those it may have  *)
(* (Counted).                                                              *)
(***************************************************************************)
EXTENDS Rooms, TLAPS

Rooms0 == RoomNames \union {NoRoom}
Message == [room : RoomNames, n : 1..MaxPublished]
Payload == [room : Rooms0, n : 1..MaxPublished]

\* TypeOK by groups of variables, with the types of those it does not mention.
MapsTyped == /\ rooms \in [RoomNames -> SUBSET Sessions]
             /\ sessions \subseteq Sessions
             /\ DOMAIN session_rooms \subseteq Sessions
             /\ \A s \in DOMAIN session_rooms : session_rooms[s] \subseteq RoomNames
             /\ pinger \subseteq Sessions
LockTyped == writer \in Tasks \union {Nobody} /\ readers \subseteq Tasks
TaskTyped == /\ at \in [Sessions -> Places]
             /\ arg \in [Sessions -> [room : Rooms0, n : 0..MaxPublished]]
             /\ left \in [Sessions -> SUBSET RoomNames]
TimeTyped == since \in [Sessions -> 0..(ClientTimeout + 1)] /\ slept \in [Sessions -> 0..1]
QueueTyped == inbox \in [Sessions -> Seq(Message)] /\ got \in [Sessions -> [1..MaxPublished -> Nat]]
RedisTyped == /\ sub \in {"off", "listen", "deliver", "ended"}
              /\ wire \in Seq(Payload)
              /\ lost \subseteq 1..MaxPublished /\ twice \subseteq 1..MaxPublished
              /\ published \in 0..MaxPublished
OtherTyped == definition \in load_channels(ChannelFiles) /\ faults \in 0..MaxFaults

Typed == MapsTyped /\ LockTyped /\ TaskTyped /\ TimeTyped /\ QueueTyped /\ RedisTyped /\ OtherTyped

\* The lock of rooms: one writer, or readers.
Locked ==
    /\ writer # Nobody => readers = {}
    /\ \A s \in Sessions : at[s] = "unsubscribe2" => writer = s
    /\ \A s \in Sessions : at[s] = "deliver" => s \in readers
    /\ sub = "deliver" => /\ Subscriber \in readers
                          /\ wire # << >> /\ Head(wire).room \in RoomNames

In(s) == {r \in RoomNames : s \in rooms[r]}

AtRest == {"loop", "subscribe", "unsubscribe", "publish", "fallback", "deliver", "closing"}
Sending == {"publish", "fallback", "deliver"}
Handling == Sending \union {"subscribe", "subscribe2", "unsubscribe", "unsubscribe2"}
Outside == {"off", "refused", "register", "register2", "gone"}

\* What the maps say of a session, by where its task is.
Placed(s) ==
    /\ at[s] \in AtRest \union {"subscribe2", "unsubscribe2"} =>
          s \in sessions /\ s \in DOMAIN session_rooms
    /\ at[s] \in AtRest => session_rooms[s] = In(s)
    /\ at[s] = "subscribe2" => session_rooms[s] \union {arg[s].room} = In(s)
    /\ at[s] = "unsubscribe2" => session_rooms[s] \ {arg[s].room} = In(s)
    /\ at[s] = "remove2" =>
          s \notin sessions /\ s \in DOMAIN session_rooms /\ session_rooms[s] = In(s)
    /\ at[s] = "remove3" =>
          s \notin sessions /\ s \notin DOMAIN session_rooms /\ left[s] = In(s)
    /\ at[s] \in Outside =>
          /\ s \notin DOMAIN session_rooms /\ In(s) = {} /\ inbox[s] = << >>
          /\ s \in sessions <=> at[s] = "register2"
    /\ at[s] \in Outside \union {"remove2", "remove3"} => s \notin pinger
    /\ at[s] \in Handling => arg[s].room \in RoomNames

Sends(t, n) == at[t] \in Sending /\ arg[t].n = n
Pending(n) == IF \E t \in Sessions : Sends(t, n) THEN 1 ELSE 0
Wired(n) == IF \E i \in DOMAIN wire : wire[i].n = n THEN 1 ELSE 0
Allowed(n) == IF n \in twice THEN 2 ELSE 1

\* Every message has one sender and one place in the stream ...
Numbered ==
    /\ \A s, t \in Sessions : at[s] \in Sending /\ at[t] \in Sending /\ arg[s].n = arg[t].n => s = t
    /\ \A s \in Sessions : at[s] \in Sending => arg[s].n \in 1..published
    /\ \A s \in Sessions : at[s] = "publish" => arg[s].n \notin twice
    /\ \A i \in DOMAIN wire : wire[i].n \in 1..published
    /\ \A i, k \in DOMAIN wire : wire[i].n = wire[k].n => i = k
    /\ twice \subseteq 1..published
    /\ \A s \in Sessions, n \in 1..MaxPublished : n > published => got[s][n] = 0

\* ... and the copies queued and owed are no more than it may have.
Counted == \A s \in Sessions, n \in 1..MaxPublished : got[s][n] + Pending(n) + Wired(n) <= Allowed(n)

RoomsInv == Typed /\ Locked /\ (\A s \in Sessions : Placed(s)) /\ Numbered /\ Counted

-----------------------------------------------------------------------------
\* What the lists of the stream and of a session's channel keep.
LEMMA AppendFacts ==
    ASSUME NEW T, NEW q \in Seq(T), NEW e \in T
    PROVE  /\ Append(q, e) \in Seq(T) /\ Len(Append(q, e)) = Len(q) + 1 /\ Append(q, e) # q
           /\ DOMAIN Append(q, e) = 1..(Len(q) + 1) /\ DOMAIN q = 1..Len(q)
           /\ \A i \in 1..Len(q) : Append(q, e)[i] = q[i]
           /\ Append(q, e)[Len(q) + 1] = e
OBVIOUS

LEMMA TailFacts ==
    ASSUME NEW T, NEW q \in Seq(T), q # << >>
    PROVE  /\ Tail(q) \in Seq(T) /\ Len(q) > 0 /\ Len(Tail(q)) = Len(q) - 1 /\ Tail(q) # q
           /\ DOMAIN Tail(q) = 1..(Len(q) - 1) /\ DOMAIN q = 1..Len(q)
           /\ \A i \in 1..(Len(q) - 1) : Tail(q)[i] = q[i + 1]
           /\ Head(q) = q[1] /\ Head(q) \in T
OBVIOUS

\* A list with one element more is none of the lists it can be mistaken for.
LEMMA Longer ==
    ASSUME NEW T, NEW q \in Seq(T), NEW e \in T
    PROVE  Append(q, e) # q /\ Append(q, e) # << >> /\ (q # << >> => Append(q, e) # Tail(q))
<1>1. Len(Append(q, e)) = Len(q) + 1 /\ Len(q) \in Nat
  OBVIOUS
<1>2. Append(q, e) # q
  BY <1>1
<1>3. Append(q, e) # << >>
  <2>1. Len(<< >>) = 0
    OBVIOUS
  <2>2. QED BY <1>1, <2>1
<1>4. ASSUME q # << >> PROVE Append(q, e) # Tail(q)
  <2>1. Len(Tail(q)) = Len(q) - 1
    BY <1>4
  <2>2. Len(Append(q, e)) # Len(Tail(q))
    BY <1>1, <2>1
  <2>3. QED BY <2>2
<1>5. QED BY <1>2, <1>3, <1>4

\* What a message to publish is, and where PUBLISH leaves it.
LEMMA PassTypes ==
    ASSUME Typed, NEW room \in Rooms0, NEW n \in 1..MaxPublished, Pass(room, n)
    PROVE  lost' \subseteq 1..MaxPublished /\ wire' \in Seq(Payload)
<1>1. lost \subseteq 1..MaxPublished /\ wire \in Seq(Payload)
  BY DEF Typed, RedisTyped
<1>2. [room |-> room, n |-> n] \in Payload
  BY DEF Payload
<1>3. Append(wire, [room |-> room, n |-> n]) \in Seq(Payload)
  BY <1>1, <1>2
<1>4. QED BY <1>1, <1>3 DEF Pass

LEMMA DeliverTypes ==
    ASSUME Typed, NEW t \in Tasks, NEW room \in RoomNames, NEW n \in 1..MaxPublished,
           Deliver(t, room, n)
    PROVE  /\ inbox' \in [Sessions -> Seq(Message)]
           /\ got' \in [Sessions -> [1..MaxPublished -> Nat]]
           /\ readers' \subseteq Tasks
           /\ \A s \in Sessions : inbox'[s] =
                 IF s \in rooms[room] \intersect sessions
                 THEN Append(inbox[s], [room |-> room, n |-> n]) ELSE inbox[s]
           /\ \A s \in Sessions, m \in 1..MaxPublished : got'[s][m] =
                 IF m = n /\ s \in rooms[room] \intersect sessions
                 THEN got[s][m] + 1 ELSE got[s][m]
<1>1. /\ inbox \in [Sessions -> Seq(Message)] /\ got \in [Sessions -> [1..MaxPublished -> Nat]]
      /\ readers \subseteq Tasks /\ [room |-> room, n |-> n] \in Message
  BY DEF Typed, QueueTyped, LockTyped, Message
<1>2. \A s \in Sessions : inbox'[s] =
         IF s \in rooms[room] \intersect sessions
         THEN Append(inbox[s], [room |-> room, n |-> n]) ELSE inbox[s]
  BY DEF Deliver
<1>. PICK e \in Message : e = [room |-> room, n |-> n]
  BY <1>1
<1>. \A s \in Sessions : inbox[s] \in Seq(Message)
  BY <1>1
<1>a. \A s \in Sessions : Append(inbox[s], e) \in Seq(Message) /\ Append(inbox[s], e) # inbox[s]
  <2>1. \A q \in Seq(Message), x \in Message : Append(q, x) \in Seq(Message) /\ Append(q, x) # q
    <3> SUFFICES ASSUME NEW q \in Seq(Message), NEW x \in Message
                 PROVE  Append(q, x) \in Seq(Message) /\ Append(q, x) # q
      OBVIOUS
    <3>1. Append(q, x) \in Seq(Message) /\ Len(Append(q, x)) = Len(q) + 1 /\ Len(q) \in Nat
      OBVIOUS
    <3>2. QED BY <3>1
  <2>2. QED BY <2>1
<1>3. \A s \in Sessions : inbox'[s] # inbox[s] <=> s \in rooms[room] \intersect sessions
  BY <1>2, <1>a
<1>4. \A s \in Sessions : inbox'[s] \in Seq(Message)
  BY <1>2, <1>a
<1>5. inbox' \in [Sessions -> Seq(Message)]
  BY <1>4 DEF Deliver
<1>6. \A s \in Sessions, m \in 1..MaxPublished : got'[s][m] =
         got[s][m] + IF m = n /\ inbox'[s] # inbox[s] THEN 1 ELSE 0
  BY DEF Deliver
<1>7. \A s \in Sessions, m \in 1..MaxPublished : got'[s][m] =
         IF m = n /\ s \in rooms[room] \intersect sessions THEN got[s][m] + 1 ELSE got[s][m]
  <2> SUFFICES ASSUME NEW s \in Sessions, NEW m \in 1..MaxPublished
               PROVE  got'[s][m] = IF m = n /\ s \in rooms[room] \intersect sessions
                                   THEN got[s][m] + 1 ELSE got[s][m]
    OBVIOUS
  <2>1. got[s][m] \in Nat
    BY <1>1
  <2>2. QED BY <2>1, <1>3, <1>6
<1>8. got' \in [Sessions -> [1..MaxPublished -> Nat]]
  <2>1. \A s \in Sessions, m \in 1..MaxPublished : got'[s][m] \in Nat
    <3> SUFFICES ASSUME NEW s \in Sessions, NEW m \in 1..MaxPublished PROVE got'[s][m] \in Nat
      OBVIOUS
    <3>1. got[s][m] \in Nat
      BY <1>1
    <3>2. QED BY <3>1, <1>7
  <2>2. got' = [s \in Sessions |-> [m \in 1..MaxPublished |->
                   got[s][m] + IF m = n /\ inbox'[s] # inbox[s] THEN 1 ELSE 0]]
    BY DEF Deliver
  <2>3. \A s \in Sessions : got'[s] \in [1..MaxPublished -> Nat]
    BY <2>1, <2>2
  <2>4. QED BY <2>2, <2>3
<1>9. readers' \subseteq Tasks
  BY <1>1 DEF Deliver
<1>10. QED BY <1>2, <1>5, <1>7, <1>8, <1>9

-----------------------------------------------------------------------------

LEMMA TypedMeansTypeOK == Typed => TypeOK
BY DEF Typed, MapsTyped, LockTyped, TaskTyped, TimeTyped, RedisTyped, OtherTyped, TypeOK

LEMMA TypedInit == Init => Typed
<1> SUFFICES ASSUME Init PROVE Typed
  OBVIOUS
<1>1. MapsTyped
  BY DEF Init, MapsTyped
<1>2. LockTyped /\ TaskTyped /\ TimeTyped
  BY RoomsAssumption DEF Init, LockTyped, TaskTyped, TimeTyped, Tasks, Places, NoArg, Rooms0
<1>3. QueueTyped
  BY DEF Init, QueueTyped
<1>4. RedisTyped /\ OtherTyped
  BY RoomsAssumption DEF Init, RedisTyped, OtherTyped
<1>5. QED BY <1>1, <1>2, <1>3, <1>4 DEF Typed

\* A session's task back at its select, or out of its loop.
LEMMA LoopTyped == ASSUME TaskTyped, NEW s \in Sessions, Loop(s), left' = left PROVE TaskTyped'
BY RoomsAssumption DEF TaskTyped, Loop, NoArg, Rooms0, Places

LEMMA BreakTyped ==
    ASSUME TaskTyped, NEW s \in Sessions, Break(s), UNCHANGED <<arg, left>> PROVE TaskTyped'
BY DEF TaskTyped, Break, Places

LEMMA TimeKept ==
    ASSUME TimeTyped, NEW s \in Sessions,
           \/ slept' = slept \/ slept' = [slept EXCEPT ![s] = 0],
           \/ since' = since \/ since' = [since EXCEPT ![s] = 0]
    PROVE  TimeTyped'
BY RoomsAssumption DEF TimeTyped

LEMMA FaultTyped == ASSUME OtherTyped, definition' = definition, Fault \/ faults' = faults
                    PROVE  OtherTyped'
BY RoomsAssumption DEF OtherTyped, Fault

\* The steps of a session's task other than publishing and delivering.
TaskStep(s) ==
    \/ \E t \in Tokens : Upgrade(s, t)
    \/ Register(s) \/ Registered(s) \/ Subscribe(s) \/ Subscribed(s)
    \/ Unsubscribe(s) \/ Unsubscribed(s) \/ Fallback(s)
    \/ Remove(s) \/ TakeRooms(s) \/ LeaveRooms(s)
    \/ Outbound(s) \/ Close(s) \/ SleepOver(s) \/ PingFails(s)

LEMMA TypedTask == ASSUME Typed, NEW s \in Sessions, Placed(s), TaskStep(s) PROVE Typed'
<1>. USE DEF Typed
<1>1. ASSUME NEW t \in Tokens, Upgrade(s, t) PROVE Typed'
  <2>1. MapsTyped' /\ LockTyped' /\ TimeTyped' /\ QueueTyped' /\ RedisTyped' /\ OtherTyped'
    BY <1>1 DEF Upgrade, MapsTyped, LockTyped, TimeTyped, QueueTyped, RedisTyped, OtherTyped, mgr, locks, tasks, time, redis, queue
  <2>2. TaskTyped'
    BY <1>1 DEF Upgrade, TaskTyped, Places, mgr, locks, tasks, time, redis, queue
  <2>3. QED BY <2>1, <2>2
<1>2. CASE Register(s)
  <2>1. LockTyped' /\ TimeTyped' /\ QueueTyped' /\ RedisTyped' /\ OtherTyped'
    BY <1>2 DEF Register, LockTyped, TimeTyped, QueueTyped, RedisTyped, OtherTyped, mgr, locks, tasks, time, redis, queue
  <2>2. MapsTyped'
    BY <1>2 DEF Register, MapsTyped, mgr, locks, tasks, time, redis, queue
  <2>3. TaskTyped'
    BY <1>2 DEF Register, TaskTyped, Places, mgr, locks, tasks, time, redis, queue
  <2>4. QED BY <2>1, <2>2, <2>3
<1>3. CASE Registered(s)
  <2>1. LockTyped' /\ QueueTyped' /\ RedisTyped' /\ OtherTyped'
    BY <1>3 DEF Registered, LockTyped, QueueTyped, RedisTyped, OtherTyped, mgr, locks, tasks, time, redis, queue
  <2>2. MapsTyped'
    BY <1>3 DEF Registered, MapsTyped, mgr, locks, tasks, time, redis, queue
  <2>3. TaskTyped'
    BY <1>3 DEF Registered, TaskTyped, Places, mgr, locks, tasks, time, redis, queue
  <2>4. TimeTyped'
    BY <1>3, RoomsAssumption DEF Registered, TimeTyped, mgr, locks, tasks, time, redis, queue
  <2>5. QED BY <2>1, <2>2, <2>3, <2>4
<1>4. CASE Subscribe(s)
  <2>1. LockTyped' /\ TimeTyped' /\ QueueTyped' /\ RedisTyped' /\ OtherTyped'
    BY <1>4 DEF Subscribe, LockTyped, TimeTyped, QueueTyped, RedisTyped, OtherTyped, mgr, locks, tasks, time, redis, queue
  <2>2. MapsTyped'
    BY <1>4 DEF Subscribe, MapsTyped, mgr, locks, tasks, time, redis, queue
  <2>3. TaskTyped'
    BY <1>4 DEF Subscribe, TaskTyped, Places, mgr, locks, tasks, time, redis, queue
  <2>4. QED BY <2>1, <2>2, <2>3
<1>5. CASE Subscribed(s)
  <2>1. LockTyped' /\ QueueTyped' /\ RedisTyped' /\ OtherTyped'
    BY <1>5 DEF Subscribed, LockTyped, QueueTyped, RedisTyped, OtherTyped, mgr, locks, tasks, time, redis, queue
  <2>2. MapsTyped'
    BY <1>5 DEF Subscribed, MapsTyped, Placed, Handling, mgr, locks, tasks, time, redis, queue
  <2>3. TaskTyped'
    BY <1>5, LoopTyped DEF Subscribed, mgr, locks, tasks, time, redis, queue
  <2>4. TimeTyped'
    BY <1>5, TimeKept DEF Subscribed, Loop, mgr, locks, tasks, time, redis, queue
  <2>5. QED BY <2>1, <2>2, <2>3, <2>4
<1>6. CASE Unsubscribe(s)
  <2>1. TimeTyped' /\ QueueTyped' /\ RedisTyped' /\ OtherTyped'
    BY <1>6 DEF Unsubscribe, TimeTyped, QueueTyped, RedisTyped, OtherTyped, mgr, locks, tasks, time, redis, queue
  <2>2. MapsTyped'
    BY <1>6 DEF Unsubscribe, MapsTyped, mgr, locks, tasks, time, redis, queue
  <2>3. LockTyped'
    BY <1>6 DEF Unsubscribe, LockTyped, Tasks, mgr, locks, tasks, time, redis, queue
  <2>4. TaskTyped'
    BY <1>6 DEF Unsubscribe, TaskTyped, Places, mgr, locks, tasks, time, redis, queue
  <2>5. QED BY <2>1, <2>2, <2>3, <2>4
<1>7. CASE Unsubscribed(s)
  <2>1. QueueTyped' /\ RedisTyped' /\ OtherTyped'
    BY <1>7 DEF Unsubscribed, QueueTyped, RedisTyped, OtherTyped, mgr, locks, tasks, time, redis, queue
  <2>2. MapsTyped'
    BY <1>7 DEF Unsubscribed, MapsTyped, mgr, locks, tasks, time, redis, queue
  <2>3. LockTyped'
    BY <1>7 DEF Unsubscribed, LockTyped, mgr, locks, tasks, time, redis, queue
  <2>4. TaskTyped'
    BY <1>7, LoopTyped DEF Unsubscribed, mgr, locks, tasks, time, redis, queue
  <2>5. TimeTyped'
    BY <1>7, TimeKept DEF Unsubscribed, Loop, mgr, locks, tasks, time, redis, queue
  <2>6. QED BY <2>1, <2>2, <2>3, <2>4, <2>5
<1>8. CASE Fallback(s)
  <2>1. MapsTyped' /\ TimeTyped' /\ QueueTyped' /\ RedisTyped' /\ OtherTyped'
    BY <1>8 DEF Fallback, MapsTyped, TimeTyped, QueueTyped, RedisTyped, OtherTyped, mgr, locks, tasks, time, redis, queue
  <2>2. LockTyped'
    BY <1>8 DEF Fallback, ReadRooms, LockTyped, Tasks, mgr, locks, tasks, time, redis, queue
  <2>3. TaskTyped'
    BY <1>8 DEF Fallback, TaskTyped, Places, mgr, locks, tasks, time, redis, queue
  <2>4. QED BY <2>1, <2>2, <2>3
<1>9. CASE Remove(s)
  <2>1. LockTyped' /\ TimeTyped' /\ QueueTyped' /\ RedisTyped' /\ OtherTyped'
    BY <1>9 DEF Remove, LockTyped, TimeTyped, QueueTyped, RedisTyped, OtherTyped, mgr, locks, tasks, time, redis, queue
  <2>2. MapsTyped'
    BY <1>9 DEF Remove, MapsTyped, mgr, locks, tasks, time, redis, queue
  <2>3. TaskTyped'
    BY <1>9 DEF Remove, TaskTyped, Places, mgr, locks, tasks, time, redis, queue
  <2>4. QED BY <2>1, <2>2, <2>3
<1>10. CASE TakeRooms(s)
  <2>1. LockTyped' /\ TimeTyped' /\ QueueTyped' /\ RedisTyped' /\ OtherTyped'
    BY <1>10 DEF TakeRooms, LockTyped, TimeTyped, QueueTyped, RedisTyped, OtherTyped, mgr, locks, tasks, time, redis, queue
  <2>2. MapsTyped'
    BY <1>10 DEF TakeRooms, MapsTyped, mgr, locks, tasks, time, redis, queue
  <2>3. TaskTyped'
    BY <1>10 DEF TakeRooms, TaskTyped, MapsTyped, Places, mgr, locks, tasks, time, redis, queue
  <2>4. QED BY <2>1, <2>2, <2>3
<1>11. CASE LeaveRooms(s)
  <2>1. LockTyped' /\ TimeTyped' /\ RedisTyped' /\ OtherTyped'
    BY <1>11 DEF LeaveRooms, LockTyped, TimeTyped, RedisTyped, OtherTyped, mgr, locks, tasks, time, redis, queue
  <2>2. MapsTyped'
    BY <1>11 DEF LeaveRooms, MapsTyped, mgr, locks, tasks, time, redis, queue
  <2>3. TaskTyped'
    BY <1>11 DEF LeaveRooms, TaskTyped, Places, mgr, locks, tasks, time, redis, queue
  <2>4. QueueTyped'
    BY <1>11 DEF LeaveRooms, QueueTyped, mgr, locks, tasks, time, redis, queue
  <2>5. QED BY <2>1, <2>2, <2>3, <2>4
<1>12. CASE Outbound(s)
  <2>1. MapsTyped' /\ LockTyped' /\ RedisTyped'
    BY <1>12 DEF Outbound, MapsTyped, LockTyped, RedisTyped, mgr, locks, tasks, time, redis, queue
  <2>2. TaskTyped'
    BY <1>12, LoopTyped, BreakTyped DEF Outbound, mgr, locks, tasks, time, redis, queue
  <2>3. TimeTyped'
    BY <1>12, TimeKept DEF Outbound, Loop, Break, mgr, locks, tasks, time, redis, queue
  <2>4. QueueTyped'
    BY <1>12 DEF Outbound, QueueTyped, mgr, locks, tasks, time, redis, queue
  <2>5. OtherTyped'
    BY <1>12, FaultTyped DEF Outbound, mgr, locks, tasks, time, redis, queue
  <2>6. QED BY <2>1, <2>2, <2>3, <2>4, <2>5
<1>13. CASE Close(s)
  <2>1. MapsTyped' /\ LockTyped' /\ QueueTyped' /\ RedisTyped' /\ OtherTyped'
    BY <1>13 DEF Close, MapsTyped, LockTyped, QueueTyped, RedisTyped, OtherTyped, mgr, locks, tasks, time, redis, queue
  <2>2. TaskTyped'
    BY <1>13, BreakTyped DEF Close, mgr, locks, tasks, time, redis, queue
  <2>3. TimeTyped'
    BY <1>13, TimeKept DEF Close, Break, mgr, locks, tasks, time, redis, queue
  <2>4. QED BY <2>1, <2>2, <2>3
<1>14. CASE SleepOver(s)
  <2>1. MapsTyped' /\ LockTyped' /\ QueueTyped' /\ RedisTyped' /\ OtherTyped'
    BY <1>14 DEF SleepOver, MapsTyped, LockTyped, QueueTyped, RedisTyped, OtherTyped, mgr, locks, tasks, time, redis, queue
  <2>2. TaskTyped'
    BY <1>14, LoopTyped, BreakTyped DEF SleepOver, mgr, locks, tasks, time, redis, queue
  <2>3. TimeTyped'
    BY <1>14, TimeKept DEF SleepOver, Loop, Break, mgr, locks, tasks, time, redis, queue
  <2>4. QED BY <2>1, <2>2, <2>3
<1>15. CASE PingFails(s)
  <2>1. LockTyped' /\ TaskTyped' /\ TimeTyped' /\ QueueTyped' /\ RedisTyped'
    BY <1>15 DEF PingFails, LockTyped, TaskTyped, TimeTyped, QueueTyped, RedisTyped, mgr, locks, tasks, time, redis, queue
  <2>2. MapsTyped'
    BY <1>15 DEF PingFails, MapsTyped, mgr, locks, tasks, time, redis, queue
  <2>3. OtherTyped'
    BY <1>15, FaultTyped DEF PingFails, mgr, locks, tasks, time, redis, queue
  <2>4. QED BY <2>1, <2>2, <2>3
<1>16. QED BY <1>1, <1>2, <1>3, <1>4, <1>5, <1>6, <1>7, <1>8, <1>9, <1>10, <1>11, <1>12, <1>13, <1>14, <1>15 DEF TaskStep

\* The frames of a client.
FrameStep(s) == \/ \E op \in {"subscribe", "unsubscribe", "publish", "other"}, r \in Rooms0 :
                      (op # "other" => r \in RoomNames) /\ Text(s, op, r)
                \/ \E kind \in {"ping", "pong", "other"} : OtherFrame(s, kind)

LEMMA TypedFrame == ASSUME Typed, NEW s \in Sessions, FrameStep(s) PROVE Typed'
<1>. USE DEF Typed
<1>1. ASSUME NEW op \in {"subscribe", "unsubscribe", "publish", "other"}, NEW r \in Rooms0,
             Text(s, op, r)
      PROVE  Typed'
  <2>1. MapsTyped' /\ LockTyped' /\ QueueTyped' /\ OtherTyped'
    BY <1>1 DEF Text, MapsTyped, LockTyped, QueueTyped, OtherTyped, mgr, locks, tasks, time, redis, queue
  <2>2. TaskTyped' /\ RedisTyped'
    <3>1. CASE Loop(s) /\ UNCHANGED published
      BY <1>1, <3>1, LoopTyped DEF Text, RedisTyped
    <3>2. CASE Handle(s, op, r) /\ op \in {"subscribe", "unsubscribe", "publish"}
      <4>1. CASE op = "publish"
        <5>1. published < MaxPublished /\ published' = published + 1 /\ published \in 0..MaxPublished
          BY <3>2, <4>1 DEF Handle, RedisTyped
        <5>2. published' \in 0..MaxPublished
          BY <5>1, RoomsAssumption
        <5>3. [room |-> r, n |-> published'] \in [room : Rooms0, n : 0..MaxPublished]
          BY <5>2
        <5>4. TaskTyped'
          BY <1>1, <3>2, <4>1, <5>3 DEF Text, Handle, TaskTyped, Places
        <5>5. QED BY <1>1, <5>2, <5>4 DEF Text, RedisTyped
      <4>2. CASE op # "publish"
        BY <1>1, <3>2, <4>2, RoomsAssumption DEF Text, Handle, TaskTyped, RedisTyped, Places
      <4>3. QED BY <4>1, <4>2
    <3>3. QED BY <1>1, <3>1, <3>2 DEF Text
  <2>3. TimeTyped'
    BY <1>1, TimeKept DEF Text, Handle, Loop
  <2>4. QED BY <2>1, <2>2, <2>3
<1>2. ASSUME NEW kind \in {"ping", "pong", "other"}, OtherFrame(s, kind) PROVE Typed'
  <2>1. MapsTyped' /\ LockTyped' /\ QueueTyped' /\ RedisTyped'
    BY <1>2 DEF OtherFrame, MapsTyped, LockTyped, QueueTyped, RedisTyped, mgr, locks, tasks, time, redis, queue
  <2>2. TaskTyped'
    BY <1>2, LoopTyped, BreakTyped DEF OtherFrame
  <2>3. TimeTyped'
    <3>1. since \in [Sessions -> 0..(ClientTimeout + 1)]
      BY DEF TimeTyped
    <3>2. since' = since \/ since' = [since EXCEPT ![s] = 0]
      BY <1>2, <3>1 DEF OtherFrame, Break
    <3>3. slept' = [slept EXCEPT ![s] = 0]
      BY <1>2 DEF OtherFrame, Break, Loop
    <3>4. QED BY <3>2, <3>3, TimeKept
  <2>4. OtherTyped'
    BY <1>2, FaultTyped DEF OtherFrame
  <2>5. QED BY <2>1, <2>2, <2>3, <2>4
<1>3. QED BY <1>1, <1>2 DEF FrameStep

\* Publishing, delivering, the subscriber and time.
LEMMA TypedPublish ==
    ASSUME Typed, Numbered, NEW s \in Sessions, Placed(s), Publish(s) PROVE Typed'
<1>. USE DEF Typed
<1>1. arg[s].room \in Rooms0 /\ arg[s].n \in 1..MaxPublished
  BY RoomsAssumption DEF Publish, Placed, Handling, Sending, Numbered, RedisTyped, Rooms0
<1>2. MapsTyped' /\ LockTyped' /\ QueueTyped'
  BY DEF Publish, MapsTyped, LockTyped, QueueTyped, mgr, locks, tasks, time, redis, queue
<1>3. TaskTyped' /\ TimeTyped' /\ OtherTyped'
  <2>1. CASE Loop(s) /\ UNCHANGED <<twice, faults>>
    BY <2>1, LoopTyped, TimeKept, FaultTyped DEF Publish, Loop
  <2>2. CASE /\ Fault /\ at' = [at EXCEPT ![s] = "fallback"] /\ UNCHANGED <<slept, arg>>
    BY <2>2, TimeKept, FaultTyped DEF Publish, TaskTyped, Places
  <2>3. QED BY <2>1, <2>2 DEF Publish
<1>4. RedisTyped'
  <2>1. /\ twice' \subseteq 1..MaxPublished
        /\ Pass(arg[s].room, arg[s].n) \/ UNCHANGED <<lost, wire>>
        /\ UNCHANGED <<sub, published>>
    BY <1>1 DEF Publish, RedisTyped
  <2>2. lost' \subseteq 1..MaxPublished /\ wire' \in Seq(Payload)
    BY <1>1, <2>1, PassTypes DEF RedisTyped
  <2>3. QED BY <2>1, <2>2 DEF RedisTyped
<1>5. QED BY <1>2, <1>3, <1>4

LEMMA TypedDeliver ==
    ASSUME Typed, Numbered, NEW s \in Sessions, Placed(s), FallbackDeliver(s) PROVE Typed'
<1>. USE DEF Typed
<1>1. s \in Tasks /\ arg[s].room \in RoomNames /\ arg[s].n \in 1..MaxPublished
  BY RoomsAssumption DEF FallbackDeliver, Placed, Handling, Sending, Numbered, RedisTyped, Tasks
<1>2. QueueTyped' /\ LockTyped'
  BY <1>1, DeliverTypes DEF FallbackDeliver, Deliver, QueueTyped, LockTyped
<1>3. MapsTyped' /\ RedisTyped' /\ OtherTyped'
  BY DEF FallbackDeliver, MapsTyped, RedisTyped, OtherTyped, mgr, locks, tasks, time, redis, queue
<1>4. TaskTyped' /\ TimeTyped'
  BY LoopTyped, TimeKept DEF FallbackDeliver, Loop
<1>5. QED BY <1>2, <1>3, <1>4

LEMMA TypedElsewhere ==
    ASSUME Typed, NEW r \in Rooms0, PublishElsewhere(r) PROVE Typed'
<1>. USE DEF Typed
<1>1. published' \in 1..MaxPublished
  BY RoomsAssumption DEF PublishElsewhere, RedisTyped
<1>2. lost' \subseteq 1..MaxPublished /\ wire' \in Seq(Payload)
  BY <1>1, PassTypes DEF PublishElsewhere
<1>3. RedisTyped'
  BY <1>1, <1>2 DEF PublishElsewhere, RedisTyped
<1>4. MapsTyped' /\ LockTyped' /\ TaskTyped' /\ TimeTyped' /\ QueueTyped' /\ OtherTyped'
  BY DEF PublishElsewhere, MapsTyped, LockTyped, TaskTyped, TimeTyped, QueueTyped, OtherTyped, mgr, locks, tasks, time, redis, queue
<1>5. QED BY <1>3, <1>4

LEMMA TypedTick == ASSUME Typed, Tick PROVE Typed'
<1>. USE DEF Typed
<1>1. \A s \in Sessions : since[s] \in 0..(ClientTimeout + 1)
  BY DEF TimeTyped
<1>2. \A s \in Sessions : Least(since[s] + 1, ClientTimeout + 1) \in 0..(ClientTimeout + 1)
  BY <1>1, RoomsAssumption DEF Least
<1>3. TimeTyped'
  BY <1>2, RoomsAssumption DEF Tick, TimeTyped
<1>4. MapsTyped' /\ LockTyped' /\ TaskTyped' /\ QueueTyped' /\ RedisTyped' /\ OtherTyped'
  BY DEF Tick, MapsTyped, LockTyped, TaskTyped, QueueTyped, RedisTyped, OtherTyped, mgr, locks, tasks, time, redis, queue
<1>5. QED BY <1>3, <1>4

LEMMA TypedSubscriber ==
    ASSUME Typed, Locked, Start \/ SubscriberStep \/ StreamEnds PROVE Typed'
<1>. USE DEF Typed
<1>1. MapsTyped' /\ TaskTyped' /\ TimeTyped'
  BY DEF Start, SubscriberStep, TakeMessage, SubscriberDeliver, StreamEnds, MapsTyped, TaskTyped,
         TimeTyped, mgr, locks, tasks, time, redis, queue
<1>2. OtherTyped'
  BY FaultTyped DEF Start, SubscriberStep, TakeMessage, SubscriberDeliver, StreamEnds
<1>3. wire # << >> => Tail(wire) \in Seq(Payload) /\ Head(wire) \in Payload
  BY TailFacts DEF RedisTyped
<1>4. CASE Start
  BY <1>1, <1>2, <1>4 DEF Start, LockTyped, QueueTyped, RedisTyped, mgr, locks, tasks, time, redis, queue
<1>5. CASE TakeMessage
  BY <1>1, <1>2, <1>3, <1>5 DEF TakeMessage, ReadRooms, LockTyped, QueueTyped, RedisTyped, Tasks, mgr, locks, tasks, time, redis, queue
<1>6. CASE SubscriberDeliver
  <2>1. Head(wire).room \in RoomNames /\ Head(wire).n \in 1..MaxPublished /\ Subscriber \in Tasks
        /\ wire # << >>
    BY <1>3, <1>6 DEF SubscriberDeliver, Locked, Payload, Tasks
  <2>2. QueueTyped' /\ LockTyped'
    BY <1>6, <2>1, DeliverTypes DEF SubscriberDeliver, Deliver, QueueTyped, LockTyped
  <2>3. RedisTyped'
    BY <1>3, <1>6, <2>1 DEF SubscriberDeliver, RedisTyped
  <2>4. QED BY <1>1, <1>2, <2>2, <2>3
<1>7. CASE StreamEnds
  <2>1. {wire[i].n : i \in DOMAIN wire} \subseteq 1..MaxPublished
    <3>1. \A i \in DOMAIN wire : wire[i] \in Payload
      BY DEF RedisTyped
    <3>2. QED BY <3>1 DEF Payload
  <2>2. RedisTyped'
    <3>1. lost' \subseteq 1..MaxPublished
      BY <1>7, <2>1 DEF StreamEnds, RedisTyped
    <3>2. wire' \in Seq(Payload)
      BY <1>7 DEF StreamEnds
    <3>3. QED BY <1>7, <3>1, <3>2 DEF StreamEnds, RedisTyped
  <2>3. LockTyped' /\ QueueTyped'
    BY <1>7 DEF StreamEnds, LockTyped, QueueTyped, mgr, locks, tasks, time, redis, queue
  <2>4. QED BY <1>1, <1>2, <2>2, <2>3
<1>8. QED BY <1>4, <1>5, <1>6, <1>7 DEF SubscriberStep

-----------------------------------------------------------------------------
(* The lock of rooms *)

\* A message at the end of the stream leaves the one at its head.
LEMMA PassLocked ==
    ASSUME Typed, Locked, NEW room \in Rooms0, NEW n \in 1..MaxPublished,
           Pass(room, n) \/ wire' = wire, sub' = sub
    PROVE  sub' = "deliver" => sub = "deliver" /\ wire' # << >> /\ Head(wire') = Head(wire)
<1>1. wire \in Seq(Payload)
  BY DEF Typed, RedisTyped
<1>2. [room |-> room, n |-> n] \in Payload
  BY DEF Payload
<1>3. wire # << >> => Append(wire, [room |-> room, n |-> n]) # << >>
                      /\ Head(Append(wire, [room |-> room, n |-> n])) = Head(wire)
  BY <1>1, <1>2
<1>4. sub = "deliver" => wire # << >>
  BY DEF Locked
<1>5. QED BY <1>3, <1>4 DEF Pass

LEMMA LockedTask == ASSUME Typed, Locked, NEW s \in Sessions, TaskStep(s) PROVE Locked'
<1>1. at \in [Sessions -> Places]
  BY DEF Typed, TaskTyped
<1>2. CASE \/ \E t \in Tokens : Upgrade(s, t)
           \/ Register(s) \/ Registered(s) \/ Subscribe(s) \/ Subscribed(s)
           \/ Remove(s) \/ TakeRooms(s) \/ LeaveRooms(s) \/ PingFails(s)
  <2>1. UNCHANGED <<writer, readers, sub, wire>>
    BY <1>2 DEF Upgrade, Register, Registered, Subscribe, Subscribed, Remove, TakeRooms, LeaveRooms,
                PingFails, locks, redis
  <2>2. \A u \in Sessions : at'[u] \in {"unsubscribe2", "deliver"} => at'[u] = at[u]
    BY <1>1, <1>2 DEF Upgrade, Register, Registered, Subscribe, Subscribed, Loop, Remove, TakeRooms,
                      LeaveRooms, PingFails, tasks
  <2>3. QED BY <2>1, <2>2 DEF Locked
<1>3. CASE Outbound(s) \/ Close(s) \/ SleepOver(s)
  <2>1. UNCHANGED <<writer, readers, sub, wire>>
    BY <1>3 DEF Outbound, Close, SleepOver, locks, redis
  <2>2. \A u \in Sessions : at'[u] \in {"unsubscribe2", "deliver"} => at'[u] = at[u]
    BY <1>1, <1>3 DEF Outbound, Close, SleepOver, Loop, Break
  <2>3. QED BY <2>1, <2>2 DEF Locked
<1>4. CASE Unsubscribe(s)
  <2>1. /\ writer = Nobody /\ readers = {} /\ writer' = s /\ UNCHANGED <<readers, sub, wire>>
        /\ at' = [at EXCEPT ![s] = "unsubscribe2"]
    BY <1>4 DEF Unsubscribe, CanWrite, redis
  <2>2. Nobody \notin Sessions
    BY RoomsAssumption
  <2>3. QED BY <1>1, <2>1, <2>2 DEF Locked
<1>5. CASE Unsubscribed(s)
  <2>1. /\ at[s] = "unsubscribe2" /\ writer' = Nobody /\ UNCHANGED <<readers, sub, wire>>
        /\ at' = [at EXCEPT ![s] = "loop"]
    BY <1>5 DEF Unsubscribed, Loop, redis
  <2>2. Nobody \notin Sessions
    BY RoomsAssumption
  <2>3. QED BY <1>1, <2>1, <2>2 DEF Locked
<1>6. CASE Fallback(s)
  <2>1. /\ writer = Nobody /\ readers' = readers \union {s} /\ UNCHANGED <<writer, sub, wire>>
        /\ at' = [at EXCEPT ![s] = "deliver"]
    BY <1>6 DEF Fallback, ReadRooms, redis
  <2>2. QED BY <1>1, <2>1 DEF Locked
<1>7. QED BY <1>2, <1>3, <1>4, <1>5, <1>6 DEF TaskStep

LEMMA LockedFrame == ASSUME Typed, Locked, NEW s \in Sessions, FrameStep(s) PROVE Locked'
<1>1. at \in [Sessions -> Places]
  BY DEF Typed, TaskTyped
<1>2. UNCHANGED <<writer, readers, sub, wire>>
  BY DEF FrameStep, Text, OtherFrame, locks, redis
<1>3. \E x : at' = [at EXCEPT ![s] = x] /\ x \notin {"unsubscribe2", "deliver"}
  BY DEF FrameStep, Text, OtherFrame, Handle, Loop, Break
<1>4. \A u \in Sessions : at'[u] \in {"unsubscribe2", "deliver"} => at'[u] = at[u]
  BY <1>1, <1>3
<1>5. QED BY <1>2, <1>4 DEF Locked

LEMMA LockedPublish ==
    ASSUME Typed, Locked, Numbered, NEW s \in Sessions, Placed(s), Publish(s) PROVE Locked'
<1>1. arg[s].room \in Rooms0 /\ arg[s].n \in 1..MaxPublished
  BY RoomsAssumption DEF Publish, Placed, Handling, Sending, Numbered, Typed, RedisTyped, Rooms0
<1>2. at \in [Sessions -> Places]
  BY DEF Typed, TaskTyped
<1>3. UNCHANGED <<writer, readers, sub>> /\ (Pass(arg[s].room, arg[s].n) \/ wire' = wire)
  BY DEF Publish, locks
<1>4. \E x \in {"loop", "fallback"} : at' = [at EXCEPT ![s] = x]
  BY DEF Publish, Loop
<1>5. \A u \in Sessions : at'[u] \in {"unsubscribe2", "deliver"} => at'[u] = at[u]
  BY <1>2, <1>4
<1>6. sub' = "deliver" => sub = "deliver" /\ wire' # << >> /\ Head(wire') = Head(wire)
  BY <1>1, <1>3, PassLocked
<1>7. QED BY <1>3, <1>5, <1>6 DEF Locked

LEMMA LockedDeliver ==
    ASSUME Typed, Locked, NEW s \in Sessions, FallbackDeliver(s) PROVE Locked'
<1>1. at \in [Sessions -> Places] /\ at[s] = "deliver" /\ at' = [at EXCEPT ![s] = "loop"]
  BY DEF Typed, TaskTyped, FallbackDeliver, Loop
<1>2. readers' = readers \ {s} /\ UNCHANGED <<writer, sub, wire>>
  BY DEF FallbackDeliver, Deliver, redis
<1>3. s # Subscriber
  BY RoomsAssumption
<1>4. QED BY <1>1, <1>2, <1>3 DEF Locked

LEMMA LockedElsewhere ==
    ASSUME Typed, Locked, NEW r \in Rooms0, PublishElsewhere(r) PROVE Locked'
<1>1. published' \in 1..MaxPublished
  BY RoomsAssumption DEF PublishElsewhere, Typed, RedisTyped
<1>2. PICK n \in 1..MaxPublished : n = published'
  BY <1>1
<1>3. Pass(r, n) /\ sub' = sub /\ UNCHANGED <<writer, readers, at>>
  BY <1>2 DEF PublishElsewhere, locks, tasks
<1>4. sub' = "deliver" => sub = "deliver" /\ wire' # << >> /\ Head(wire') = Head(wire)
  BY <1>3, PassLocked
<1>5. QED BY <1>3, <1>4 DEF Locked

LEMMA LockedSubscriber ==
    ASSUME Typed, Locked, Start \/ SubscriberStep \/ StreamEnds PROVE Locked'
<1>1. UNCHANGED at
  BY DEF Start, SubscriberStep, TakeMessage, SubscriberDeliver, StreamEnds, tasks
<1>2. CASE Start \/ StreamEnds
  BY <1>1, <1>2 DEF Start, StreamEnds, Locked, locks
<1>3. CASE TakeMessage
  <2>1. CASE Head(wire).room = NoRoom
    BY <1>1, <1>3, <2>1 DEF TakeMessage, Locked, locks
  <2>2. CASE Head(wire).room # NoRoom
    <3>1. Head(wire) \in Payload
      BY <1>3, TailFacts DEF TakeMessage, Typed, RedisTyped
    <3>2. Head(wire).room \in RoomNames
      BY <2>2, <3>1 DEF Payload, Rooms0
    <3>3. /\ writer = Nobody /\ readers' = readers \union {Subscriber} /\ UNCHANGED <<writer, wire>>
          /\ wire # << >>
      BY <1>3, <2>2 DEF TakeMessage, ReadRooms
    <3>4. QED BY <1>1, <3>2, <3>3 DEF Locked
  <2>3. QED BY <2>1, <2>2
<1>4. CASE SubscriberDeliver
  <2>1. readers' = readers \ {Subscriber} /\ writer' = writer /\ sub' = "listen"
    BY <1>4 DEF SubscriberDeliver, Deliver
  <2>2. Subscriber \notin Sessions
    BY RoomsAssumption
  <2>3. QED BY <1>1, <2>1, <2>2 DEF Locked
<1>5. QED BY <1>2, <1>3, <1>4 DEF SubscriberStep

-----------------------------------------------------------------------------
(* The maps *)

\* A step that leaves the maps' view of s, and the place of its task, alone.
Same(s) ==
    /\ at'[s] = at[s] /\ arg'[s] = arg[s] /\ left'[s] = left[s]
    /\ (s \in sessions') <=> (s \in sessions)
    /\ (s \in DOMAIN session_rooms') <=> (s \in DOMAIN session_rooms)
    /\ s \in DOMAIN session_rooms => session_rooms'[s] = session_rooms[s]
    /\ \A r \in RoomNames : (s \in rooms'[r]) <=> (s \in rooms[r])
    /\ s \in pinger' => s \in pinger
    /\ inbox[s] = << >> => In(s) # {} \/ inbox'[s] = << >>

LEMMA InKept ==
    ASSUME NEW s, \A r \in RoomNames : (s \in rooms'[r]) <=> (s \in rooms[r])
    PROVE  In(s)' = In(s)
BY DEF In

LEMMA PlacedKept == ASSUME NEW s \in Sessions, Placed(s), Same(s) PROVE Placed(s)'
<1>1. In(s)' = In(s)
  BY InKept DEF Same
<1>2. at[s] \in AtRest \union {"subscribe2", "unsubscribe2", "remove2"} => s \in DOMAIN session_rooms
  BY DEF Placed
<1>3. QED BY <1>1, <1>2 DEF Same, Placed, AtRest, Outside

\* A step in a session's own task from one place where the maps agree to
\* another, which they do not notice.
LEMMA PlacedMoves ==
    ASSUME Typed, NEW s \in Sessions, Placed(s), at[s] \in AtRest, at'[s] \in AtRest,
           at'[s] \in Handling => arg'[s].room \in RoomNames,
           UNCHANGED <<rooms, sessions, session_rooms>>
    PROVE  Placed(s)'
<1>1. In(s)' = In(s)
  BY DEF In
<1>2. QED BY <1>1 DEF Placed, AtRest, Outside

LEMMA PlacedTask ==
    ASSUME Typed, NEW s \in Sessions, \A u \in Sessions : Placed(u), TaskStep(s)
    PROVE  \A u \in Sessions : Placed(u)'
<1>1. /\ at \in [Sessions -> Places] /\ DOMAIN arg = Sessions /\ DOMAIN left = Sessions
      /\ DOMAIN inbox = Sessions /\ rooms \in [RoomNames -> SUBSET Sessions]
      /\ DOMAIN session_rooms \subseteq Sessions
  BY DEF Typed, TaskTyped, QueueTyped, MapsTyped
<1>2. Placed(s)
  OBVIOUS
<1>3. SUFFICES (\A u \in Sessions : u # s => Same(u)) /\ Placed(s)'
  BY PlacedKept
<1>4. ASSUME NEW t \in Tokens, Upgrade(s, t) PROVE (\A u \in Sessions : u # s => Same(u)) /\ Placed(s)'
  <2>1. /\ at[s] = "off" /\ at' = [at EXCEPT ![s] = at'[s]] /\ at'[s] \in {"register", "refused"}
        /\ UNCHANGED <<mgr, arg, left, inbox, pinger>>
    BY <1>1, <1>4 DEF Upgrade, queue
  <2>2. In(s)' = In(s)
    BY <2>1 DEF In, mgr
  <2>3. QED BY <1>1, <1>2, <2>1, <2>2 DEF Same, Placed, mgr, AtRest, Outside, Handling, Sending
<1>5. CASE Register(s)
  <2>1. In(s)' = In(s)
    BY <1>5 DEF In, Register
  <2>2. QED BY <1>1, <1>2, <1>5, <2>1 DEF Register, Same, Placed, AtRest, Outside, Handling, Sending, queue
<1>6. CASE Registered(s)
  <2>1. In(s)' = In(s)
    BY <1>6 DEF In, Registered
  <2>2. \A u \in Sessions : u # s => Same(u)
    BY <1>1, <1>6 DEF Registered, Same, queue
  <2>3. /\ s \in DOMAIN session_rooms' /\ session_rooms'[s] = {} /\ at[s] = "register2"
        /\ at'[s] = "loop" /\ UNCHANGED sessions
    BY <1>1, <1>6 DEF Registered
  <2>4. In(s) = {}
    BY <1>2, <2>3 DEF Placed, Outside
  <2>5. s \in sessions
    BY <1>2, <2>3 DEF Placed, Outside
  <2>6. QED BY <2>1, <2>2, <2>3, <2>4, <2>5 DEF Placed, AtRest, Outside, Handling, Sending
<1>7. CASE Subscribe(s)
  <2>1. \A u \in Sessions : u # s => Same(u)
    BY <1>1, <1>7 DEF Subscribe, Same, queue
  <2>2. arg[s].room \in RoomNames /\ at[s] = "subscribe"
    BY <1>2, <1>7 DEF Subscribe, Placed, Handling
  <2>3. In(s)' = In(s) \union {arg[s].room}
    BY <1>1, <1>7, <2>2 DEF Subscribe, In
  <2>4. QED BY <1>1, <1>2, <1>7, <2>1, <2>2, <2>3 DEF Subscribe, Placed, AtRest, Outside, Handling, Sending
<1>8. CASE Subscribed(s)
  <2>1. \A u \in Sessions : u # s => Same(u)
    BY <1>1, <1>8 DEF Subscribed, Loop, Same, queue
  <2>2. In(s)' = In(s) /\ s \in DOMAIN session_rooms /\ at[s] = "subscribe2"
    BY <1>2, <1>8 DEF Subscribed, In, Placed
  <2>3. session_rooms'[s] = session_rooms[s] \union {arg[s].room} /\ s \in DOMAIN session_rooms'
    BY <1>8, <2>2 DEF Subscribed
  <2>4. at'[s] = "loop" /\ UNCHANGED sessions
    BY <1>1, <1>8 DEF Subscribed, Loop
  <2>5. QED BY <1>2, <2>1, <2>2, <2>3, <2>4 DEF Placed, AtRest, Outside, Handling, Sending
<1>9. CASE Unsubscribe(s)
  <2>1. \A u \in Sessions : u # s => Same(u)
    BY <1>1, <1>9 DEF Unsubscribe, Same, queue
  <2>2. arg[s].room \in RoomNames /\ at[s] = "unsubscribe"
    BY <1>2, <1>9 DEF Unsubscribe, Placed, Handling
  <2>3. In(s)' = In(s) \ {arg[s].room}
    BY <1>1, <1>9, <2>2 DEF Unsubscribe, In
  <2>4. QED BY <1>1, <1>2, <1>9, <2>1, <2>2, <2>3 DEF Unsubscribe, Placed, AtRest, Outside, Handling, Sending
<1>10. CASE Unsubscribed(s)
  <2>1. \A u \in Sessions : u # s => Same(u)
    BY <1>1, <1>10 DEF Unsubscribed, Loop, Same, queue
  <2>2. In(s)' = In(s) /\ s \in DOMAIN session_rooms /\ at[s] = "unsubscribe2"
    BY <1>2, <1>10 DEF Unsubscribed, In, Placed
  <2>3. session_rooms'[s] = session_rooms[s] \ {arg[s].room} /\ s \in DOMAIN session_rooms'
    BY <1>10, <2>2 DEF Unsubscribed
  <2>4. at'[s] = "loop" /\ UNCHANGED sessions
    BY <1>1, <1>10 DEF Unsubscribed, Loop
  <2>5. QED BY <1>2, <2>1, <2>2, <2>3, <2>4 DEF Placed, AtRest, Outside, Handling, Sending
<1>11. CASE Fallback(s)
  <2>1. \A u \in Sessions : u # s => Same(u)
    BY <1>1, <1>11 DEF Fallback, Same, mgr, queue
  <2>2. at[s] = "fallback" /\ at'[s] = "deliver" /\ UNCHANGED <<arg, rooms, sessions, session_rooms>>
    BY <1>1, <1>11 DEF Fallback, mgr
  <2>3. arg[s].room \in RoomNames
    BY <1>2, <2>2 DEF Placed, Handling, Sending
  <2>4. QED BY <1>2, <2>1, <2>2, <2>3, PlacedMoves DEF AtRest
<1>12. CASE Remove(s)
  <2>1. In(s)' = In(s)
    BY <1>12 DEF In, Remove
  <2>2. QED BY <1>1, <1>2, <1>12, <2>1 DEF Remove, Same, Placed, AtRest, Outside, Handling, Sending, queue
<1>13. CASE TakeRooms(s)
  <2>1. \A u \in Sessions : u # s => Same(u)
    BY <1>1, <1>13 DEF TakeRooms, Same, queue
  <2>2. In(s)' = In(s) /\ s \in DOMAIN session_rooms /\ session_rooms[s] = In(s) /\ s \notin sessions
        /\ s \notin pinger
    BY <1>2, <1>13 DEF TakeRooms, In, Placed, Outside
  <2>3. /\ left'[s] = session_rooms[s] /\ s \notin DOMAIN session_rooms' /\ at'[s] = "remove3"
        /\ UNCHANGED <<sessions, pinger>>
    BY <1>1, <1>13, <2>2 DEF TakeRooms
  <2>4. QED BY <2>1, <2>2, <2>3 DEF Placed, AtRest, Outside, Handling, Sending
<1>14. CASE LeaveRooms(s)
  <2>1. \A u \in Sessions : u # s => Same(u)
    BY <1>1, <1>14 DEF LeaveRooms, Same
  <2>2. left[s] = In(s) /\ s \notin sessions /\ s \notin DOMAIN session_rooms /\ s \notin pinger
    BY <1>2, <1>14 DEF LeaveRooms, Placed, Outside
  <2>3. In(s)' = {}
    BY <1>14, <2>2 DEF LeaveRooms, In
  <2>4. at'[s] = "gone" /\ inbox'[s] = << >> /\ UNCHANGED <<sessions, session_rooms, pinger>>
    BY <1>1, <1>14 DEF LeaveRooms
  <2>5. QED BY <2>1, <2>2, <2>3, <2>4 DEF Placed, AtRest, Outside, Handling, Sending
<1>15. CASE Outbound(s) \/ Close(s) \/ SleepOver(s)
  <2>1. \A u \in Sessions : u # s => Same(u)
    BY <1>1, <1>15 DEF Outbound, Close, SleepOver, Loop, Break, Same, mgr, queue
  <2>2. /\ at[s] = "loop" /\ at'[s] \in {"loop", "closing"}
        /\ UNCHANGED <<rooms, sessions, session_rooms>>
    BY <1>1, <1>15 DEF Outbound, Close, SleepOver, Loop, Break, mgr
  <2>3. QED BY <1>2, <2>1, <2>2, PlacedMoves DEF AtRest, Handling, Sending
<1>16. CASE PingFails(s)
  <2>1. \A u \in Sessions : Same(u)
    BY <1>1, <1>16 DEF PingFails, Same, mgr, tasks, queue
  <2>2. QED BY <2>1, PlacedKept
<1>17. QED BY <1>4, <1>5, <1>6, <1>7, <1>8, <1>9, <1>10, <1>11, <1>12, <1>13, <1>14, <1>15, <1>16
           DEF TaskStep

LEMMA PlacedFrame ==
    ASSUME Typed, NEW s \in Sessions, \A u \in Sessions : Placed(u), FrameStep(s)
    PROVE  \A u \in Sessions : Placed(u)'
<1>1. at \in [Sessions -> Places] /\ DOMAIN arg = Sessions
  BY DEF Typed, TaskTyped
<1>2. UNCHANGED <<rooms, sessions, session_rooms, left, inbox, pinger>>
  BY DEF FrameStep, Text, OtherFrame, mgr, queue
<1>3. \A u \in Sessions : u # s => at'[u] = at[u] /\ arg'[u] = arg[u]
  BY <1>1 DEF FrameStep, Text, OtherFrame, Handle, Loop, Break
<1>4. \A u \in Sessions : u # s => Same(u)
  BY <1>2, <1>3 DEF Same
<1>5. at[s] = "loop" /\ at'[s] \in AtRest
  BY <1>1 DEF FrameStep, Text, OtherFrame, NextFrame, Handle, Loop, Break, AtRest
<1>6. at'[s] \in Handling => arg'[s].room \in RoomNames
  BY <1>1 DEF FrameStep, Text, OtherFrame, Handle, Loop, Break, Handling, Sending
<1>7. Placed(s)'
  BY <1>2, <1>5, <1>6, PlacedMoves DEF AtRest
<1>8. QED BY <1>4, <1>7, PlacedKept

LEMMA PlacedPublish ==
    ASSUME Typed, NEW s \in Sessions, \A u \in Sessions : Placed(u), Publish(s)
    PROVE  \A u \in Sessions : Placed(u)'
<1>1. at \in [Sessions -> Places] /\ DOMAIN arg = Sessions
  BY DEF Typed, TaskTyped
<1>2. UNCHANGED <<rooms, sessions, session_rooms, left, inbox, pinger>> /\ at[s] = "publish"
  BY DEF Publish, mgr, queue
<1>3. \A u \in Sessions : u # s => Same(u)
  BY <1>1, <1>2 DEF Publish, Loop, Same
<1>4. at'[s] = "loop" \/ (at'[s] = "fallback" /\ arg' = arg)
  BY <1>1 DEF Publish, Loop
<1>5. arg[s].room \in RoomNames
  BY <1>2 DEF Placed, Handling, Sending
<1>6. Placed(s)'
  BY <1>2, <1>4, <1>5, PlacedMoves DEF AtRest, Handling, Sending
<1>7. QED BY <1>3, <1>6, PlacedKept

\* A broadcast reaches only sessions that are in the room.
LEMMA PlacedDeliver ==
    ASSUME Typed, Numbered, NEW s \in Sessions, \A u \in Sessions : Placed(u), FallbackDeliver(s)
    PROVE  \A u \in Sessions : Placed(u)'
<1>1. at \in [Sessions -> Places] /\ DOMAIN arg = Sessions
  BY DEF Typed, TaskTyped
<1>2. UNCHANGED <<rooms, sessions, session_rooms, left, pinger>> /\ at[s] = "deliver"
  BY DEF FallbackDeliver, mgr
<1>3. \A u \in Sessions : inbox[u] = << >> => In(u) # {} \/ inbox'[u] = << >>
  BY DEF FallbackDeliver, Deliver, In
<1>4. at'[s] = "loop" /\ \A u \in Sessions : u # s => at'[u] = at[u] /\ arg'[u] = arg[u]
  BY <1>1 DEF FallbackDeliver, Loop
<1>5. \A u \in Sessions : u # s => Same(u)
  BY <1>2, <1>3, <1>4 DEF Same
<1>6. Placed(s)'
  BY <1>2, <1>4, PlacedMoves DEF AtRest, Handling, Sending
<1>7. QED BY <1>5, <1>6, PlacedKept

LEMMA PlacedOther ==
    ASSUME Typed, \A u \in Sessions : Placed(u),
           \/ Tick \/ Start \/ SubscriberStep \/ StreamEnds
           \/ \E r \in Rooms0 : PublishElsewhere(r)
    PROVE  \A u \in Sessions : Placed(u)'
<1>1. UNCHANGED <<mgr, tasks, pinger>>
  BY DEF Tick, Start, SubscriberStep, TakeMessage, SubscriberDeliver, StreamEnds, PublishElsewhere
<1>2. \A u \in Sessions : inbox[u] = << >> => In(u) # {} \/ inbox'[u] = << >>
  BY DEF Tick, Start, SubscriberStep, TakeMessage, SubscriberDeliver, StreamEnds, PublishElsewhere,
         Deliver, In, queue
<1>3. \A u \in Sessions : Same(u)
  BY <1>1, <1>2 DEF Same, mgr, tasks
<1>4. QED BY <1>3, PlacedKept

-----------------------------------------------------------------------------
(* The messages *)

LEMMA CountTypes ==
    /\ \A n : Pending(n) \in {0, 1} /\ Wired(n) \in {0, 1} /\ Allowed(n) \in {1, 2}
    /\ Typed => \A s \in Sessions, n \in 1..MaxPublished : got[s][n] \in Nat
BY DEF Pending, Wired, Allowed, Typed, QueueTyped

\* A message more in the stream, or one less.
LEMMA WiredAppend ==
    ASSUME Typed, NEW e \in Payload, wire' = Append(wire, e)
    PROVE  /\ \A n : Wired(n)' = IF n = e.n THEN 1 ELSE Wired(n)
           /\ DOMAIN wire' = 1..(Len(wire) + 1) /\ DOMAIN wire = 1..Len(wire) /\ Len(wire) \in Nat
           /\ wire'[Len(wire) + 1] = e /\ \A i \in 1..Len(wire) : wire'[i] = wire[i]
<1>1. wire \in Seq(Payload)
  BY DEF Typed, RedisTyped
<1>2. /\ DOMAIN wire' = 1..(Len(wire) + 1) /\ DOMAIN wire = 1..Len(wire) /\ Len(wire) \in Nat
      /\ wire'[Len(wire) + 1] = e /\ \A i \in 1..Len(wire) : wire'[i] = wire[i]
  BY <1>1
<1>3. ASSUME NEW n PROVE (\E i \in DOMAIN wire' : wire'[i].n = n)
                            <=> (n = e.n \/ \E i \in DOMAIN wire : wire[i].n = n)
  BY <1>2
<1>4. QED BY <1>2, <1>3 DEF Wired

LEMMA WiredTail ==
    ASSUME Typed, Numbered, wire # << >>, wire' = Tail(wire)
    PROVE  /\ \A n : Wired(n)' = IF n = Head(wire).n THEN 0 ELSE Wired(n)
           /\ Wired(Head(wire).n) = 1
           /\ \A i \in DOMAIN wire' : i + 1 \in DOMAIN wire /\ wire'[i] = wire[i + 1] /\ i \in Nat
<1>1. wire \in Seq(Payload)
  BY DEF Typed, RedisTyped
<1>2. /\ DOMAIN wire' = 1..(Len(wire) - 1) /\ DOMAIN wire = 1..Len(wire) /\ Len(wire) \in Nat \ {0}
      /\ Head(wire) = wire[1] /\ \A i \in 1..(Len(wire) - 1) : wire'[i] = wire[i + 1]
  BY <1>1
<1>3. ASSUME NEW n PROVE (\E i \in DOMAIN wire' : wire'[i].n = n)
                            <=> (n # wire[1].n /\ \E i \in DOMAIN wire : wire[i].n = n)
  <2>1. \A i, k \in DOMAIN wire : wire[i].n = wire[k].n => i = k
    BY DEF Numbered
  <2>2. ASSUME NEW i \in DOMAIN wire', wire'[i].n = n
        PROVE  n # wire[1].n /\ \E k \in DOMAIN wire : wire[k].n = n
    BY <1>2, <2>1, <2>2
  <2>3. ASSUME n # wire[1].n, NEW i \in DOMAIN wire, wire[i].n = n
        PROVE  \E k \in DOMAIN wire' : wire'[k].n = n
    <3>1. i # 1 /\ i \in 1..Len(wire)
      BY <1>2, <2>3
    <3>2. i - 1 \in 1..(Len(wire) - 1) /\ (i - 1) + 1 = i
      BY <1>2, <3>1
    <3>3. wire'[i - 1] = wire[i]
      BY <1>2, <3>2
    <3>4. QED BY <1>2, <2>3, <3>2, <3>3
  <2>4. QED BY <2>2, <2>3
<1>4. Wired(Head(wire).n) = 1
  BY <1>2 DEF Wired
<1>5. \A n : Wired(n)' = IF n = Head(wire).n THEN 0 ELSE Wired(n)
  BY <1>2, <1>3 DEF Wired
<1>6. QED BY <1>2, <1>4, <1>5

\* A step that gives no session anything to send.
Quiet == \A s \in Sessions :
            at'[s] \in Sending => /\ at[s] \in Sending /\ arg'[s] = arg[s]
                                  /\ at'[s] = "publish" => at[s] = "publish"

LEMMA QuietFacts ==
    ASSUME Numbered, Quiet
    PROVE  /\ \A n : Pending(n)' <= Pending(n)
           /\ \A s, t \in Sessions :
                 at'[s] \in Sending /\ at'[t] \in Sending /\ arg'[s].n = arg'[t].n => s = t
           /\ \A s \in Sessions : at'[s] \in Sending => arg'[s].n \in 1..published
           /\ \A s \in Sessions : at'[s] = "publish" => arg'[s].n \notin twice
<1>1. \A n : (\E s \in Sessions : at'[s] \in Sending /\ arg'[s].n = n) => \E s \in Sessions : Sends(s, n)
  BY DEF Quiet, Sends
<1>2. \A n : Pending(n)' <= Pending(n)
  BY <1>1 DEF Pending, Sends
<1>3. QED BY <1>2 DEF Numbered, Quiet, Sending

LEMMA QuietKept ==
    ASSUME Typed, Numbered, Counted, Quiet, UNCHANGED <<got, wire, twice, published>>
    PROVE  Numbered' /\ Counted'
<1>1. \A n : Wired(n)' = Wired(n) /\ Allowed(n)' = Allowed(n)
  BY DEF Wired, Allowed
<1>2. Numbered'
  BY QuietFacts DEF Numbered
<1>3. Counted'
  <2> SUFFICES ASSUME NEW s \in Sessions, NEW n \in 1..MaxPublished
               PROVE  (got[s][n] + Pending(n) + Wired(n) <= Allowed(n))'
    BY DEF Counted
  <2>1. got[s][n] + Pending(n) + Wired(n) <= Allowed(n) /\ Pending(n)' <= Pending(n) /\ got'[s][n] = got[s][n]
    BY QuietFacts DEF Counted
  <2>2. /\ Pending(n) \in Nat /\ Pending(n)' \in Nat /\ Wired(n) \in Nat /\ Allowed(n) \in Nat
        /\ got[s][n] \in Nat
    BY CountTypes DEF Pending
  <2>3. QED BY <1>1, <2>1, <2>2
<1>4. QED BY <1>2, <1>3

LEMMA CountedTask ==
    ASSUME Typed, Numbered, Counted, NEW s \in Sessions, TaskStep(s) PROVE Numbered' /\ Counted'
<1>1. at \in [Sessions -> Places] /\ DOMAIN arg = Sessions
  BY DEF Typed, TaskTyped
<1>2. UNCHANGED <<got, wire, twice, published>>
  BY DEF TaskStep, Upgrade, Register, Registered, Subscribe, Subscribed, Unsubscribe, Unsubscribed,
         Fallback, Remove, TakeRooms, LeaveRooms, Outbound, Close, SleepOver, PingFails, redis, queue
<1>3. \A u \in Sessions : u # s => at'[u] = at[u] /\ arg'[u] = arg[u]
  BY <1>1 DEF TaskStep, Upgrade, Register, Registered, Subscribe, Subscribed, Unsubscribe, Unsubscribed,
         Fallback, Remove, TakeRooms, LeaveRooms, Outbound, Close, SleepOver, PingFails, Loop, Break,
         tasks
<1>4. at'[s] \in Sending => at[s] \in Sending /\ arg'[s] = arg[s] /\ (at'[s] = "publish" => at[s] = "publish")
  BY <1>1 DEF TaskStep, Upgrade, Register, Registered, Subscribe, Subscribed, Unsubscribe, Unsubscribed,
         Fallback, Remove, TakeRooms, LeaveRooms, Outbound, Close, SleepOver, PingFails, Loop, Break,
         tasks, Sending
<1>5. Quiet
  BY <1>3, <1>4 DEF Quiet
<1>6. QED BY <1>2, <1>5, QuietKept

\* A new message is numbered beyond all others.
LEMMA Fresh ==
    ASSUME Typed, Numbered, published < MaxPublished, published' = published + 1
    PROVE  /\ published' \in 1..MaxPublished /\ published' \notin twice /\ published' # 0
           /\ Pending(published') = 0 /\ Wired(published') = 0
           /\ \A s \in Sessions : got[s][published'] = 0
           /\ published \in Nat /\ 1..published \subseteq 1..published'
<1>1. published \in Nat /\ published' \in 1..MaxPublished /\ published' > published
  BY RoomsAssumption DEF Typed, RedisTyped
<1>2. PICK n \in 1..MaxPublished : n = published' /\ n > published /\ n \notin 1..published
  BY <1>1
<1>3. n \notin twice /\ (\A i \in DOMAIN wire : wire[i].n # n) /\ (\A t \in Sessions : ~Sends(t, n))
  BY <1>2 DEF Numbered, Sends
<1>4. Pending(n) = 0 /\ Wired(n) = 0
  BY <1>3 DEF Pending, Wired
<1>5. \A s \in Sessions : got[s][n] = 0
  BY <1>2 DEF Numbered
<1>6. QED BY <1>1, <1>2, <1>3, <1>4, <1>5

LEMMA CountedText ==
    ASSUME Typed, Numbered, Counted, NEW s \in Sessions, at[s] = "loop", NEW room \in Rooms0,
           Handle(s, "publish", room), UNCHANGED <<got, wire, twice>>
    PROVE  Numbered' /\ Counted'
<1>1. at \in [Sessions -> Places] /\ arg \in [Sessions -> [room : Rooms0, n : 0..MaxPublished]]
  BY DEF Typed, TaskTyped
<1>2. published < MaxPublished /\ published' = published + 1
  BY DEF Handle
<1>3. PICK m \in 1..MaxPublished : m = published'
  BY <1>2, Fresh
<1>4. /\ m \notin twice /\ Pending(m) = 0 /\ Wired(m) = 0 /\ \A u \in Sessions : got[u][m] = 0
      /\ published \in Nat /\ m = published + 1 /\ 1..published \subseteq 1..m
  BY <1>2, <1>3, Fresh
<1>5. at'[s] = "publish" /\ arg'[s].n = m /\ \A u \in Sessions : u # s => at'[u] = at[u] /\ arg'[u] = arg[u]
  BY <1>1, <1>3 DEF Handle
<1>6. \A u \in Sessions : at[u] \in Sending => arg[u].n \in 1..published /\ arg[u].n # m
  BY <1>4 DEF Numbered
<1>7. \A n : n # m => Pending(n)' <= Pending(n)
  <2> SUFFICES ASSUME NEW n, n # m PROVE Pending(n)' <= Pending(n)
    OBVIOUS
  <2>1. (\E t \in Sessions : at'[t] \in Sending /\ arg'[t].n = n) => \E t \in Sessions : Sends(t, n)
    BY <1>5 DEF Sends
  <2>2. QED BY <2>1 DEF Pending, Sends
<1>8. Numbered'
  <2>1. \A u, t \in Sessions : at'[u] \in Sending /\ at'[t] \in Sending /\ arg'[u].n = arg'[t].n => u = t
    BY <1>5, <1>6 DEF Numbered
  <2>2. \A u \in Sessions : at'[u] \in Sending => arg'[u].n \in 1..published'
    BY <1>3, <1>4, <1>5, <1>6
  <2>3. \A u \in Sessions : at'[u] = "publish" => arg'[u].n \notin twice
    BY <1>4, <1>5 DEF Numbered
  <2>4. \A u \in Sessions, n \in 1..MaxPublished : n > published' => got[u][n] = 0
    BY <1>3, <1>4 DEF Numbered
  <2>5. QED BY <1>3, <1>4, <2>1, <2>2, <2>3, <2>4 DEF Numbered
<1>9. Counted'
  <2> SUFFICES ASSUME NEW u \in Sessions, NEW n \in 1..MaxPublished
               PROVE  (got[u][n] + Pending(n) + Wired(n) <= Allowed(n))'
    BY DEF Counted
  <2>1. /\ got[u][n] \in Nat /\ Pending(n) \in {0, 1} /\ Wired(n) \in {0, 1} /\ Allowed(n) \in {1, 2}
        /\ Pending(n)' \in {0, 1} /\ got[u][n] + Pending(n) + Wired(n) <= Allowed(n)
    BY CountTypes DEF Counted, Pending
  <2>2. got'[u][n] = got[u][n] /\ Wired(n)' = Wired(n) /\ Allowed(n)' = Allowed(n)
    BY DEF Wired, Allowed
  <2>3. CASE n = m
    BY <1>4, <2>1, <2>2, <2>3
  <2>4. CASE n # m
    BY <1>7, <2>1, <2>2, <2>4
  <2>5. QED BY <2>3, <2>4
<1>10. QED BY <1>8, <1>9

LEMMA CountedFrame ==
    ASSUME Typed, Numbered, Counted, NEW s \in Sessions, FrameStep(s) PROVE Numbered' /\ Counted'
<1>1. at \in [Sessions -> Places] /\ DOMAIN arg = Sessions
  BY DEF Typed, TaskTyped
<1>2. UNCHANGED <<got, wire, twice>> /\ at[s] = "loop"
  BY DEF FrameStep, Text, OtherFrame, NextFrame, redis, queue
<1>3. \/ \E r \in Rooms0 : Handle(s, "publish", r)
      \/ /\ UNCHANGED published
         /\ \/ Loop(s) \/ (Break(s) /\ arg' = arg)
            \/ \E op \in {"subscribe", "unsubscribe"}, r \in Rooms0 : Handle(s, op, r)
  BY DEF FrameStep, Text, OtherFrame, Handle, redis
<1>4. CASE \E r \in Rooms0 : Handle(s, "publish", r)
  BY <1>2, <1>4, CountedText
<1>5. CASE /\ UNCHANGED published
           /\ \/ Loop(s) \/ (Break(s) /\ arg' = arg)
              \/ \E op \in {"subscribe", "unsubscribe"}, r \in Rooms0 : Handle(s, op, r)
  <2>1. /\ at'[s] \in {"loop", "closing", "subscribe", "unsubscribe"}
        /\ \A u \in Sessions : u # s => at'[u] = at[u] /\ arg'[u] = arg[u]
    BY <1>1, <1>5 DEF Handle, Loop, Break
  <2>2. Quiet
    BY <2>1 DEF Quiet, Sending
  <2>3. QED BY <1>2, <1>5, <2>2, QuietKept
<1>6. QED BY <1>3, <1>4, <1>5

LEMMA CountedPublish ==
    ASSUME Typed, Numbered, Counted, NEW s \in Sessions, Placed(s), Publish(s)
    PROVE  Numbered' /\ Counted'
<1>1. at \in [Sessions -> Places] /\ DOMAIN arg = Sessions /\ at[s] = "publish"
      /\ UNCHANGED <<got, published>>
  BY DEF Typed, TaskTyped, Publish, queue
<1>2. /\ arg[s].room \in Rooms0 /\ arg[s].n \in 1..MaxPublished /\ arg[s].n \in 1..published
      /\ arg[s].n \notin twice
  BY <1>1, RoomsAssumption DEF Placed, Handling, Sending, Numbered, Typed, RedisTyped, Rooms0
<1>3. PICK m \in 1..MaxPublished : m = arg[s].n
  BY <1>2
<1>4. PICK e \in Payload : e = [room |-> arg[s].room, n |-> m]
  BY <1>2 DEF Payload
<1>5. Pending(m) = 1 /\ Wired(m) = 0 /\ Allowed(m) = 1 /\ \A u \in Sessions : got[u][m] = 0
  <2>1. Pending(m) = 1
    BY <1>1, <1>3 DEF Pending, Sends, Sending
  <2>2. Allowed(m) = 1
    BY <1>2, <1>3 DEF Allowed
  <2>3. \A u \in Sessions : got[u][m] + Pending(m) + Wired(m) <= Allowed(m) /\ got[u][m] \in Nat
    BY CountTypes DEF Counted
  <2>4. Wired(m) \in {0, 1} /\ s \in Sessions
    BY CountTypes
  <2>5. \A u \in Sessions : got[u][m] = 0 /\ Wired(m) = 0
    BY <2>1, <2>2, <2>3, <2>4
  <2>6. QED BY <2>1, <2>2, <2>5
<1>6. Quiet
  BY <1>1 DEF Publish, Loop, Quiet, Sending
<1>7. \/ wire' = Append(wire, e) \/ wire' = wire
  BY <1>3, <1>4 DEF Publish, Pass
<1>8. /\ twice' = twice \/ (twice' = twice \union {m} /\ at'[s] = "fallback")
      /\ wire' = wire \/ twice' # twice \/ at'[s] = "loop"
  BY <1>1, <1>2, <1>3 DEF Publish, Loop
<1>9. /\ \A n : n # m => Wired(n)' = Wired(n)
      /\ wire' = wire => Wired(m)' = 0
      /\ \A i \in DOMAIN wire' : wire'[i].n \in 1..published
      /\ \A i, k \in DOMAIN wire' : wire'[i].n = wire'[k].n => i = k
  <2>1. CASE wire' = wire
    BY <2>1, <1>5 DEF Wired, Numbered
  <2>2. CASE wire' = Append(wire, e)
    <3>1. \A n : n # m => Wired(n)' = Wired(n)
      BY <1>4, <2>2, WiredAppend
    <3>2. \A i \in DOMAIN wire : wire[i].n # m
      BY <1>5 DEF Wired
    <3>3. /\ DOMAIN wire' = 1..(Len(wire) + 1) /\ DOMAIN wire = 1..Len(wire) /\ Len(wire) \in Nat
          /\ wire'[Len(wire) + 1].n = m /\ \A i \in 1..Len(wire) : wire'[i] = wire[i]
      BY <1>4, <2>2, WiredAppend
    <3>4. \A i \in DOMAIN wire' : wire'[i].n \in 1..published
      BY <1>2, <1>3, <3>3 DEF Numbered
    <3>5. \A i, k \in DOMAIN wire' : wire'[i].n = wire'[k].n => i = k
      BY <3>2, <3>3 DEF Numbered
    <3>6. wire' # wire
      BY <3>2, <3>3
    <3>7. QED BY <3>1, <3>4, <3>5, <3>6
  <2>3. QED BY <1>7, <2>1, <2>2
<1>10. Numbered'
  <2>1. \A u \in Sessions : at'[u] = "publish" => arg'[u].n \notin twice'
    <3>1. ASSUME NEW u \in Sessions, at'[u] = "publish" PROVE arg'[u].n \notin twice'
      <4>1. u # s /\ at[u] = "publish" /\ arg'[u] = arg[u]
        BY <1>1, <3>1 DEF Publish, Loop
      <4>2. arg[u].n # m /\ arg[u].n \notin twice
        BY <1>1, <1>3, <4>1 DEF Numbered, Sending
      <4>3. QED BY <1>8, <4>1, <4>2
    <3>2. QED BY <3>1
  <2>2. twice' \subseteq 1..published
    BY <1>2, <1>3, <1>8 DEF Numbered
  <2>3. QED BY <1>1, <1>6, <1>9, <2>1, <2>2, QuietFacts DEF Numbered
<1>11. Counted'
  <2> SUFFICES ASSUME NEW u \in Sessions, NEW n \in 1..MaxPublished
               PROVE  (got[u][n] + Pending(n) + Wired(n) <= Allowed(n))'
    BY DEF Counted
  <2>1. /\ got[u][n] \in Nat /\ Pending(n) \in {0, 1} /\ Wired(n) \in {0, 1} /\ Allowed(n) \in {1, 2}
        /\ Pending(n)' \in {0, 1} /\ Wired(n)' \in {0, 1} /\ Allowed(n)' \in {1, 2}
        /\ got[u][n] + Pending(n) + Wired(n) <= Allowed(n) /\ got'[u][n] = got[u][n]
        /\ Pending(n)' <= Pending(n)
    BY <1>1, <1>6, CountTypes, QuietFacts DEF Counted, Pending, Wired, Allowed
  <2>2. CASE n # m
    <3>1. Wired(n)' = Wired(n) /\ Allowed(n)' = Allowed(n)
      BY <1>8, <1>9, <2>2 DEF Allowed
    <3>2. QED BY <2>1, <3>1
  <2>3. CASE n = m
    <3>1. got[u][n] = 0
      BY <1>5, <2>3
    <3>2. CASE wire' = wire
      <4>1. Wired(n)' = 0
        BY <1>9, <2>3, <3>2
      <4>2. QED BY <2>1, <3>1, <4>1
    <3>3. CASE twice' # twice
      <4>1. Allowed(n)' = 2
        BY <1>8, <2>3, <3>3 DEF Allowed
      <4>2. QED BY <2>1, <3>1, <4>1
    <3>4. CASE at'[s] = "loop"
      <4>1. \A t \in Sessions : ~(at'[t] \in Sending /\ arg'[t].n = m)
        <5>1. ASSUME NEW t \in Sessions, at'[t] \in Sending, arg'[t].n = m PROVE FALSE
          <6>1. t # s /\ at[t] \in Sending /\ arg[t].n = m
            BY <1>6, <3>4, <5>1 DEF Quiet, Sending
          <6>2. QED BY <1>1, <1>3, <6>1 DEF Numbered, Sending
        <5>2. QED BY <5>1
      <4>2. Pending(n)' = 0
        BY <2>3, <4>1 DEF Pending, Sends
      <4>3. QED BY <2>1, <3>1, <4>2
    <3>5. QED BY <1>8, <3>2, <3>3, <3>4
  <2>4. QED BY <2>2, <2>3
<1>12. QED BY <1>10, <1>11

\* A broadcast queues one copy of what its sender or the stream owed.
LEMMA CountedDeliver ==
    ASSUME Typed, Numbered, Counted, NEW s \in Sessions, Placed(s), FallbackDeliver(s)
    PROVE  Numbered' /\ Counted'
<1>1. at \in [Sessions -> Places] /\ DOMAIN arg = Sessions /\ at[s] = "deliver"
      /\ UNCHANGED <<wire, twice, published>> /\ Loop(s) /\ s \in Tasks
  BY DEF Typed, TaskTyped, FallbackDeliver, redis, Tasks
<1>2. arg[s].room \in RoomNames /\ arg[s].n \in 1..MaxPublished /\ arg[s].n \in 1..published
  BY <1>1, RoomsAssumption DEF Placed, Handling, Sending, Numbered, Typed, RedisTyped
<1>3. PICK m \in 1..MaxPublished : m = arg[s].n
  BY <1>2
<1>4. \A u \in Sessions, n \in 1..MaxPublished :
         got'[u][n] = got[u][n] \/ (n = m /\ got'[u][n] = got[u][n] + 1)
  <2>1. PICK r \in RoomNames : r = arg[s].room
    BY <1>2
  <2>2. Deliver(s, r, m)
    BY <1>3, <2>1 DEF FallbackDeliver
  <2>3. \A u \in Sessions, n \in 1..MaxPublished : got'[u][n] =
           IF n = m /\ u \in rooms[r] \intersect sessions THEN got[u][n] + 1 ELSE got[u][n]
    BY <1>1, <2>2, DeliverTypes DEF Deliver
  <2>4. QED BY <2>3
<1>5. Quiet /\ at'[s] = "loop"
  BY <1>1 DEF Loop, Quiet, Sending
<1>6. Pending(m) = 1
  BY <1>1, <1>3 DEF Pending, Sends, Sending
<1>7. Pending(m)' = 0
  <2>1. ASSUME NEW t \in Sessions, at'[t] \in Sending, arg'[t].n = m PROVE FALSE
    <3>1. t # s /\ at[t] \in Sending /\ arg[t].n = m
      BY <1>5, <2>1 DEF Quiet, Sending
    <3>2. QED BY <1>1, <1>3, <3>1 DEF Numbered, Sending
  <2>2. QED BY <2>1 DEF Pending, Sends
<1>8. Numbered'
  <2>1. \A u \in Sessions, n \in 1..MaxPublished : n > published => got'[u][n] = 0
    <3>1. ASSUME NEW u \in Sessions, NEW n \in 1..MaxPublished, n > published PROVE got'[u][n] = 0
      <4>1. n # m /\ got[u][n] = 0
        BY <1>2, <1>3, <3>1, RoomsAssumption DEF Numbered, Typed, RedisTyped
      <4>2. QED BY <1>4, <4>1
    <3>2. QED BY <3>1
  <2>2. QED BY <1>1, <1>5, <2>1, QuietFacts DEF Numbered
<1>9. Counted'
  <2> SUFFICES ASSUME NEW u \in Sessions, NEW n \in 1..MaxPublished
               PROVE  (got[u][n] + Pending(n) + Wired(n) <= Allowed(n))'
    BY DEF Counted
  <2>1. /\ got[u][n] \in Nat /\ Pending(n) \in {0, 1} /\ Wired(n) \in {0, 1} /\ Allowed(n) \in {1, 2}
        /\ Pending(n)' \in {0, 1} /\ Wired(n)' = Wired(n) /\ Allowed(n)' = Allowed(n)
        /\ got[u][n] + Pending(n) + Wired(n) <= Allowed(n) /\ Pending(n)' <= Pending(n)
    BY <1>1, <1>5, CountTypes, QuietFacts DEF Counted, Pending, Wired, Allowed
  <2>2. CASE n = m
    BY <1>4, <1>6, <1>7, <2>1, <2>2
  <2>3. CASE n # m
    BY <1>4, <2>1, <2>3
  <2>4. QED BY <2>2, <2>3
<1>10. QED BY <1>8, <1>9

LEMMA CountedElsewhere ==
    ASSUME Typed, Numbered, Counted, NEW r \in Rooms0, PublishElsewhere(r)
    PROVE  Numbered' /\ Counted'
<1>1. published < MaxPublished /\ published' = published + 1 /\ UNCHANGED <<at, arg, got, twice>>
  BY DEF PublishElsewhere, tasks, queue
<1>2. PICK m \in 1..MaxPublished : m = published'
  BY <1>1, Fresh
<1>3. /\ m \notin twice /\ Pending(m) = 0 /\ Wired(m) = 0 /\ \A u \in Sessions : got[u][m] = 0
      /\ published \in Nat /\ m = published + 1 /\ 1..published \subseteq 1..m
  BY <1>1, <1>2, Fresh
<1>4. PICK e \in Payload : e = [room |-> r, n |-> m]
  BY DEF Payload
<1>5. wire' = Append(wire, e) \/ wire' = wire
  BY <1>2, <1>4 DEF PublishElsewhere, Pass
<1>6. /\ \A n : n # m => Wired(n)' = Wired(n)
      /\ \A i \in DOMAIN wire' : wire'[i].n \in 1..m
      /\ \A i, k \in DOMAIN wire' : wire'[i].n = wire'[k].n => i = k
  <2>1. CASE wire' = wire
    BY <2>1, <1>3 DEF Wired, Numbered
  <2>2. CASE wire' = Append(wire, e)
    <3>1. \A n : n # m => Wired(n)' = Wired(n)
      BY <1>4, <2>2, WiredAppend
    <3>2. \A i \in DOMAIN wire : wire[i].n # m
      BY <1>3 DEF Wired
    <3>3. /\ DOMAIN wire' = 1..(Len(wire) + 1) /\ DOMAIN wire = 1..Len(wire) /\ Len(wire) \in Nat
          /\ wire'[Len(wire) + 1].n = m /\ \A i \in 1..Len(wire) : wire'[i] = wire[i]
      BY <1>4, <2>2, WiredAppend
    <3>4. \A i \in DOMAIN wire' : wire'[i].n \in 1..m
      BY <1>3, <3>3 DEF Numbered
    <3>5. \A i, k \in DOMAIN wire' : wire'[i].n = wire'[k].n => i = k
      BY <3>2, <3>3 DEF Numbered
    <3>6. QED BY <3>1, <3>4, <3>5
  <2>3. QED BY <1>5, <2>1, <2>2
<1>7. Numbered'
  <2>1. \A u \in Sessions, n \in 1..MaxPublished : n > published' => got[u][n] = 0
    BY <1>2, <1>3 DEF Numbered
  <2>2. QED BY <1>1, <1>2, <1>3, <1>6, <2>1 DEF Numbered
<1>8. Counted'
  <2> SUFFICES ASSUME NEW u \in Sessions, NEW n \in 1..MaxPublished
               PROVE  (got[u][n] + Pending(n) + Wired(n) <= Allowed(n))'
    BY DEF Counted
  <2>1. /\ got[u][n] \in Nat /\ Pending(n) \in {0, 1} /\ Wired(n) \in {0, 1} /\ Allowed(n) \in {1, 2}
        /\ Pending(n)' = Pending(n) /\ Wired(n)' \in {0, 1} /\ Allowed(n)' = Allowed(n)
        /\ got[u][n] + Pending(n) + Wired(n) <= Allowed(n) /\ got'[u][n] = got[u][n]
    BY <1>1, CountTypes DEF Counted, Pending, Sends, Wired, Allowed
  <2>2. CASE n = m
    BY <1>3, <2>1, <2>2
  <2>3. CASE n # m
    BY <1>6, <2>1, <2>3
  <2>4. QED BY <2>2, <2>3
<1>9. QED BY <1>7, <1>8

LEMMA CountedOther ==
    ASSUME Typed, Locked, Numbered, Counted, Tick \/ Start \/ SubscriberStep \/ StreamEnds
    PROVE  Numbered' /\ Counted'
<1>1. UNCHANGED <<at, arg, twice, published>>
  BY DEF Tick, Start, SubscriberStep, TakeMessage, SubscriberDeliver, StreamEnds, tasks, redis
<1>2. Quiet
  BY <1>1 DEF Quiet
<1>3. CASE UNCHANGED <<got, wire>>
  BY <1>1, <1>2, <1>3, QuietKept
<1>4. CASE wire # << >> /\ wire' = Tail(wire)
           /\ (UNCHANGED got \/ (Deliver(Subscriber, Head(wire).room, Head(wire).n) /\ sub = "deliver"))
  <2>1. Head(wire) \in Payload
    BY <1>4, TailFacts DEF Typed, RedisTyped
  <2>2. PICK m \in 1..MaxPublished : m = Head(wire).n
    BY <2>1 DEF Payload
  <2>3. m \in 1..published
    BY <1>4, <2>2, TailFacts DEF Numbered, Typed, RedisTyped
  <2>4. \A u \in Sessions, n \in 1..MaxPublished :
           got'[u][n] = got[u][n] \/ (n = m /\ got'[u][n] = got[u][n] + 1)
    <3>1. CASE UNCHANGED got
      BY <3>1
    <3>2. CASE Deliver(Subscriber, Head(wire).room, Head(wire).n) /\ sub = "deliver"
      <4>1. Head(wire).room \in RoomNames /\ Subscriber \in Tasks
        BY <3>2 DEF Locked, Tasks
      <4>2. PICK r \in RoomNames : r = Head(wire).room
        BY <4>1
      <4>3. Deliver(Subscriber, r, m)
        BY <2>2, <3>2, <4>2
      <4>4. \A u \in Sessions, n \in 1..MaxPublished : got'[u][n] =
               IF n = m /\ u \in rooms[r] \intersect sessions THEN got[u][n] + 1 ELSE got[u][n]
        BY <4>1, <4>3, DeliverTypes DEF Deliver
      <4>5. QED BY <4>4
    <3>3. QED BY <1>4, <3>1, <3>2
  <2>5. /\ \A n : Wired(n)' = IF n = m THEN 0 ELSE Wired(n)
        /\ Wired(m) = 1
        /\ \A i \in DOMAIN wire' : i + 1 \in DOMAIN wire /\ wire'[i] = wire[i + 1] /\ i \in Nat
    BY <1>4, <2>2, WiredTail
  <2>6. Numbered'
    <3>1. \A u \in Sessions, n \in 1..MaxPublished : n > published => got'[u][n] = 0
      <4>1. ASSUME NEW u \in Sessions, NEW n \in 1..MaxPublished, n > published PROVE got'[u][n] = 0
        <5>1. n # m /\ got[u][n] = 0
          BY <2>3, <4>1, RoomsAssumption DEF Numbered, Typed, RedisTyped
        <5>2. QED BY <2>4, <5>1
      <4>2. QED BY <4>1
    <3>2. \A i \in DOMAIN wire' : wire'[i].n \in 1..published
      BY <2>5 DEF Numbered
    <3>3. \A i, k \in DOMAIN wire' : wire'[i].n = wire'[k].n => i = k
      <4>1. ASSUME NEW i \in DOMAIN wire', NEW k \in DOMAIN wire', wire'[i].n = wire'[k].n PROVE i = k
        <5>1. i + 1 = k + 1 /\ i \in Nat /\ k \in Nat
          BY <2>5, <4>1 DEF Numbered
        <5>2. QED BY <5>1
      <4>2. QED BY <4>1
    <3>4. QED BY <1>1, <1>2, <3>1, <3>2, <3>3, QuietFacts DEF Numbered
  <2>7. Counted'
    <3> SUFFICES ASSUME NEW u \in Sessions, NEW n \in 1..MaxPublished
                 PROVE  (got[u][n] + Pending(n) + Wired(n) <= Allowed(n))'
      BY DEF Counted
    <3>1. /\ got[u][n] \in Nat /\ Pending(n) \in {0, 1} /\ Wired(n) \in {0, 1} /\ Allowed(n) \in {1, 2}
          /\ Pending(n)' = Pending(n) /\ Allowed(n)' = Allowed(n)
          /\ got[u][n] + Pending(n) + Wired(n) <= Allowed(n)
      BY <1>1, CountTypes DEF Counted, Pending, Sends, Allowed
    <3>2. CASE n = m
      BY <2>4, <2>5, <3>1, <3>2
    <3>3. CASE n # m
      BY <2>4, <2>5, <3>1, <3>3
    <3>4. QED BY <3>2, <3>3
  <2>8. QED BY <2>6, <2>7
<1>5. CASE wire' = << >> /\ UNCHANGED got
  <2>1. DOMAIN wire' = {} /\ \A n : Wired(n)' = 0
    BY <1>5 DEF Wired
  <2>2. Numbered'
    BY <1>1, <1>2, <1>5, <2>1, QuietFacts DEF Numbered
  <2>3. Counted'
    <3> SUFFICES ASSUME NEW u \in Sessions, NEW n \in 1..MaxPublished
                 PROVE  (got[u][n] + Pending(n) + Wired(n) <= Allowed(n))'
      BY DEF Counted
    <3>1. /\ got[u][n] \in Nat /\ Pending(n) \in {0, 1} /\ Wired(n) \in {0, 1} /\ Allowed(n) \in {1, 2}
          /\ Pending(n)' = Pending(n) /\ Allowed(n)' = Allowed(n)
          /\ got[u][n] + Pending(n) + Wired(n) <= Allowed(n) /\ got'[u][n] = got[u][n]
      BY <1>1, <1>5, CountTypes DEF Counted, Pending, Sends, Allowed
    <3>2. QED BY <2>1, <3>1
  <2>4. QED BY <2>2, <2>3
<1>6. \/ UNCHANGED <<got, wire>>
      \/ wire # << >> /\ wire' = Tail(wire)
           /\ (UNCHANGED got \/ (Deliver(Subscriber, Head(wire).room, Head(wire).n) /\ sub = "deliver"))
      \/ wire' = << >> /\ UNCHANGED got
  <2>1. CASE Tick \/ Start
    BY <2>1 DEF Tick, Start, redis, queue
  <2>2. CASE TakeMessage
    <3>1. got' = got /\ wire # << >> /\ (wire' = Tail(wire) \/ wire' = wire)
      BY <2>2 DEF TakeMessage, queue
    <3>2. QED BY <3>1
  <2>3. CASE SubscriberDeliver
    BY <2>3 DEF SubscriberDeliver, Locked
  <2>4. CASE StreamEnds
    BY <2>4 DEF StreamEnds, queue
  <2>5. QED BY <2>1, <2>2, <2>3, <2>4 DEF SubscriberStep
<1>7. QED BY <1>3, <1>4, <1>5, <1>6

-----------------------------------------------------------------------------
(* The theorems *)

Publishing == \E s \in Sessions : Publish(s) \/ FallbackDeliver(s)
Background == Tick \/ Start \/ SubscriberStep \/ StreamEnds

LEMMA NextIs ==
    ASSUME Next
    PROVE  \/ \E s \in Sessions : TaskStep(s) \/ FrameStep(s) \/ Publish(s) \/ FallbackDeliver(s)
           \/ Background
           \/ \E r \in Rooms0 : PublishElsewhere(r)
BY DEF Next, Step, Frame, TaskStep, FrameStep, Background, Rooms0

LEMMA InvInit == Init => RoomsInv
<1> SUFFICES ASSUME Init PROVE RoomsInv
  OBVIOUS
<1>1. Typed
  BY TypedInit
<1>2. Locked
  BY DEF Init, Locked
<1>3. \A s \in Sessions : Placed(s)
  BY DEF Init, Placed, In, AtRest, Outside, Handling, Sending
<1>4. Numbered
  BY DEF Init, Numbered, Sending
<1>5. Counted
  <2>1. \A n : Pending(n) = 0 /\ Wired(n) = 0 /\ Allowed(n) = 1
    BY DEF Init, Pending, Sends, Sending, Wired, Allowed
  <2>2. \A s \in Sessions, n \in 1..MaxPublished : got[s][n] = 0
    BY DEF Init
  <2>3. QED BY <2>1, <2>2 DEF Counted
<1>6. QED BY <1>1, <1>2, <1>3, <1>4, <1>5 DEF RoomsInv

LEMMA InvNext == RoomsInv /\ [Next]_vars => RoomsInv'
<1> SUFFICES ASSUME RoomsInv, [Next]_vars PROVE RoomsInv'
  OBVIOUS
<1>1. Typed /\ Locked /\ (\A s \in Sessions : Placed(s)) /\ Numbered /\ Counted
  BY DEF RoomsInv
<1>2. ASSUME NEW s \in Sessions, TaskStep(s) PROVE RoomsInv'
  BY <1>1, <1>2, TypedTask, LockedTask, PlacedTask, CountedTask DEF RoomsInv
<1>3. ASSUME NEW s \in Sessions, FrameStep(s) PROVE RoomsInv'
  BY <1>1, <1>3, TypedFrame, LockedFrame, PlacedFrame, CountedFrame DEF RoomsInv
<1>4. ASSUME NEW s \in Sessions, Publish(s) PROVE RoomsInv'
  BY <1>1, <1>4, TypedPublish, LockedPublish, PlacedPublish, CountedPublish DEF RoomsInv
<1>5. ASSUME NEW s \in Sessions, FallbackDeliver(s) PROVE RoomsInv'
  BY <1>1, <1>5, TypedDeliver, LockedDeliver, PlacedDeliver, CountedDeliver DEF RoomsInv
<1>6. ASSUME NEW r \in Rooms0, PublishElsewhere(r) PROVE RoomsInv'
  BY <1>1, <1>6, TypedElsewhere, LockedElsewhere, PlacedOther, CountedElsewhere DEF RoomsInv
<1>7. CASE Background
  <2>1. Typed'
    BY <1>1, <1>7, TypedTick, TypedSubscriber DEF Background
  <2>2. Locked'
    <3>1. CASE Tick
      BY <1>1, <3>1 DEF Tick, Locked, locks, tasks, redis
    <3>2. CASE Start \/ SubscriberStep \/ StreamEnds
      BY <1>1, <3>2, LockedSubscriber
    <3>3. QED BY <1>7, <3>1, <3>2 DEF Background
  <2>3. (\A s \in Sessions : Placed(s)') /\ Numbered' /\ Counted'
    BY <1>1, <1>7, PlacedOther, CountedOther DEF Background
  <2>4. QED BY <2>1, <2>2, <2>3 DEF RoomsInv
<1>8. CASE UNCHANGED vars
  <2>1. Typed'
    BY <1>1, <1>8 DEF vars, mgr, locks, tasks, time, redis, queue, Typed, MapsTyped, LockTyped,
                      TaskTyped, TimeTyped, QueueTyped, RedisTyped, OtherTyped
  <2>2. Locked'
    BY <1>1, <1>8 DEF vars, mgr, locks, tasks, time, redis, queue, Locked
  <2>3. \A s \in Sessions : Placed(s)'
    <3>1. \A s \in Sessions : Same(s)
      BY <1>8 DEF vars, mgr, locks, tasks, time, redis, queue, Same
    <3>2. QED BY <1>1, <3>1, PlacedKept
  <2>4. Numbered' /\ Counted'
    <3>1. Quiet /\ UNCHANGED <<got, wire, twice, published>>
      BY <1>8 DEF vars, mgr, locks, tasks, time, redis, queue, Quiet
    <3>2. QED BY <1>1, <3>1, QuietKept
  <2>5. QED BY <2>1, <2>2, <2>3, <2>4 DEF RoomsInv
<1>9. QED BY <1>2, <1>3, <1>4, <1>5, <1>6, <1>7, <1>8, NextIs

\* The inductive invariant: types, the lock of rooms, the maps by the place of
\* each task, and the account of the copies of every message.
THEOREM RoomsInvariant == Spec => []RoomsInv
BY InvInit, InvNext, PTL DEF Spec

\* The three maps of the RoomManager agree between its operations, a session
\* that left is in none of them, and no message is queued twice for a session
\* but by the fallback of a publish that reported a false error.
THEOREM RoomsAgreeAlways == Spec => []RoomsAgree
<1>1. RoomsInv => RoomsAgree
  <2> SUFFICES ASSUME RoomsInv PROVE RoomsAgree
    OBVIOUS
  <2>1. TypeOK
    BY TypedMeansTypeOK DEF RoomsInv
  <2>2. MapsAgree
    <3> SUFFICES ASSUME NEW s \in Sessions
                 PROVE  /\ at[s] \in AtRest =>
                              /\ s \in sessions \intersect DOMAIN session_rooms
                              /\ session_rooms[s] = {r \in RoomNames : s \in rooms[r]}
                        /\ at[s] \in {"off", "refused", "gone"} =>
                              /\ s \notin sessions \union DOMAIN session_rooms \union pinger
                              /\ \A r \in RoomNames : s \notin rooms[r]
                              /\ inbox[s] = << >>
      BY DEF MapsAgree, AtRest
    <3>1. Placed(s)
      BY DEF RoomsInv
    <3>2. QED BY <3>1 DEF Placed, In, Outside
  <2>3. OneCopyEach
    <3> SUFFICES ASSUME NEW s \in Sessions, NEW n \in 1..MaxPublished
                 PROVE  got[s][n] <= IF n \in twice THEN 2 ELSE 1
      BY DEF OneCopyEach
    <3>1. /\ got[s][n] + Pending(n) + Wired(n) <= Allowed(n) /\ got[s][n] \in Nat
          /\ Pending(n) \in {0, 1} /\ Wired(n) \in {0, 1} /\ Allowed(n) \in {1, 2}
      BY CountTypes DEF RoomsInv, Counted
    <3>2. Allowed(n) = IF n \in twice THEN 2 ELSE 1
      BY DEF Allowed
    <3>3. got[s][n] <= Allowed(n)
      BY <3>1
    <3>4. QED BY <3>2, <3>3
  <2>4. QED BY <2>1, <2>2, <2>3 DEF RoomsAgree
<1>2. QED BY <1>1, RoomsInvariant, PTL

\* The steps that queue no broadcast, and those that queue one.
QueueNone == \A u \in Sessions : \/ inbox'[u] = inbox[u] \/ inbox'[u] = << >>
                                 \/ (inbox[u] # << >> /\ inbox'[u] = Tail(inbox[u]))
QueueOne ==
    /\ \A u \in Sessions : at[u] # "unsubscribe2"
    /\ \E p \in RoomNames, m \in 1..MaxPublished : \A u \in Sessions :
          \/ inbox'[u] = inbox[u]
          \/ /\ inbox'[u] = Append(inbox[u], [room |-> p, n |-> m])
             /\ u \in rooms[p] \intersect sessions

LEMMA QueuedBy ==
    ASSUME Typed, Locked, Numbered, \A s \in Sessions : Placed(s), [Next]_vars
    PROVE  QueueNone \/ QueueOne
<1>1. CASE UNCHANGED vars \/ Tick \/ Start \/ TakeMessage \/ StreamEnds \/ \E r \in Rooms0 : PublishElsewhere(r)
  BY <1>1 DEF QueueNone, vars, queue, Tick, Start, TakeMessage, StreamEnds, PublishElsewhere
<1>2. ASSUME NEW s \in Sessions, TaskStep(s) \/ FrameStep(s) \/ Publish(s)
      PROVE  QueueNone
  <2>1. \/ inbox' = inbox \/ inbox' = [inbox EXCEPT ![s] = << >>]
        \/ (inbox[s] # << >> /\ inbox' = [inbox EXCEPT ![s] = Tail(inbox[s])])
    BY <1>2 DEF TaskStep, Upgrade, Register, Registered, Subscribe, Subscribed, Unsubscribe,
         Unsubscribed, Fallback, Remove, TakeRooms, LeaveRooms, Outbound, Close, SleepOver, PingFails,
         FrameStep, Text, OtherFrame, Publish, queue
  <2>2. DOMAIN inbox = Sessions
    BY DEF Typed, QueueTyped
  <2>3. QED BY <2>1, <2>2 DEF QueueNone
<1>3. ASSUME NEW s \in Sessions, FallbackDeliver(s) PROVE QueueOne
  <2>1. at[s] = "deliver" /\ s \in readers
    BY <1>3 DEF FallbackDeliver, Locked
  <2>2. writer = Nobody /\ Nobody \notin Sessions
    BY <2>1, RoomsAssumption DEF Locked
  <2>3. PICK r \in RoomNames, n \in 1..MaxPublished : r = arg[s].room /\ n = arg[s].n
    BY <2>1, RoomsAssumption DEF Placed, Handling, Sending, Numbered, Typed, RedisTyped
  <2>4. \A u \in Sessions : inbox'[u] = IF u \in rooms[r] \intersect sessions
                                        THEN Append(inbox[u], [room |-> r, n |-> n]) ELSE inbox[u]
    BY <1>3, <2>3 DEF FallbackDeliver, Deliver
  <2>5. QED BY <2>2, <2>4 DEF Locked, QueueOne
<1>4. CASE SubscriberDeliver
  <2>1. sub = "deliver" /\ Subscriber \in readers /\ wire # << >> /\ Head(wire).room \in RoomNames
    BY <1>4 DEF SubscriberDeliver, Locked
  <2>2. writer = Nobody /\ Nobody \notin Sessions
    BY <2>1, RoomsAssumption DEF Locked
  <2>3. Head(wire) \in Payload
    BY <2>1, TailFacts DEF Typed, RedisTyped
  <2>4. PICK r \in RoomNames, n \in 1..MaxPublished : r = Head(wire).room /\ n = Head(wire).n
    BY <2>1, <2>3 DEF Payload
  <2>5. \A u \in Sessions : inbox'[u] = IF u \in rooms[r] \intersect sessions
                                        THEN Append(inbox[u], [room |-> r, n |-> n]) ELSE inbox[u]
    BY <1>4, <2>4 DEF SubscriberDeliver, Deliver
  <2>6. QED BY <2>2, <2>5 DEF Locked, QueueOne
<1>5. QED BY <1>1, <1>2, <1>3, <1>4, NextIs DEF Background, SubscriberStep

\* A session is sent broadcasts of a room only from its subscription until
\* its unsubscription is acknowledged or its task has begun to clean up: the
\* lock of rooms keeps every broadcast out of the middle of an unsubscription.
THEOREM MembersOnly == Spec => OnlyToMembers
<1>1. RoomsInv /\ [Next]_vars => ToMembers
  <2> SUFFICES ASSUME RoomsInv, [Next]_vars, NEW s \in Sessions, NEW r \in RoomNames,
                      NEW n \in 1..MaxPublished,
                      inbox'[s] = Append(inbox[s], [room |-> r, n |-> n])
               PROVE  \/ at[s] = "subscribe2" /\ arg[s].room = r
                      \/ /\ at[s] \notin {"unsubscribe2", "remove2", "remove3", "gone"}
                         /\ r \in session_rooms[s]
    BY DEF ToMembers
  <2>1. Typed /\ Locked /\ Numbered /\ (\A u \in Sessions : Placed(u)) /\ inbox[s] \in Seq(Message)
    BY DEF RoomsInv, Typed, QueueTyped
  <2>2. PICK e \in Message : e = [room |-> r, n |-> n]
    BY DEF Message
  <2>3. /\ inbox'[s] # inbox[s] /\ inbox'[s] # << >>
        /\ inbox[s] # << >> => inbox'[s] # Tail(inbox[s])
    <3>1. PICK q \in Seq(Message) : q = inbox[s]
      BY <2>1
    <3>2. Append(q, e) # q /\ Append(q, e) # << >> /\ (q # << >> => Append(q, e) # Tail(q))
      BY Longer
    <3>3. QED BY <2>2, <3>1, <3>2
  <2>4. ~QueueNone
    BY <2>3 DEF QueueNone
  <2>5. QueueOne
    BY <2>1, <2>4, QueuedBy
  <2>6. PICK p \in RoomNames, m \in 1..MaxPublished : \A u \in Sessions :
              \/ inbox'[u] = inbox[u]
              \/ /\ inbox'[u] = Append(inbox[u], [room |-> p, n |-> m])
                 /\ u \in rooms[p] \intersect sessions
    BY <2>5 DEF QueueOne
  <2>7. /\ at[s] # "unsubscribe2"
        /\ inbox'[s] = Append(inbox[s], [room |-> p, n |-> m])
        /\ s \in rooms[p] \intersect sessions
    BY <2>3, <2>5, <2>6 DEF QueueOne
  <2>8. p = r
    <3>1. PICK q \in Seq(Message) : q = inbox[s]
      BY <2>1
    <3>2. PICK f \in Message : f = [room |-> p, n |-> m]
      BY DEF Message
    <3>3. Append(q, e) = Append(q, f)
      BY <2>2, <2>7, <3>1, <3>2
    <3>4. Append(q, e)[Len(q) + 1] = e /\ Append(q, f)[Len(q) + 1] = f
      BY AppendFacts
    <3>5. e = f
      BY <3>3, <3>4
    <3>6. QED BY <2>2, <3>2, <3>5
  <2>9. r \in In(s) /\ s \in sessions
    BY <2>7, <2>8 DEF In
  <2>10. Placed(s) /\ at[s] \in Places
    BY <2>1 DEF Typed, TaskTyped
  <2>11. at[s] \notin {"remove2", "remove3", "gone"} \union Outside
    BY <2>9, <2>10 DEF Placed, Outside
  <2>12. at[s] \in AtRest \/ at[s] = "subscribe2"
    BY <2>7, <2>10, <2>11 DEF Places, AtRest, Outside
  <2>13. QED BY <2>9, <2>10, <2>11, <2>12 DEF Placed, AtRest
<1>2. QED BY <1>1, RoomsInvariant, PTL DEF Spec, OnlyToMembers

\* No message leaves the subscriber's stream without a copy for every session
\* then in the room; only a lost connection loses any.
THEOREM ArrivalsKept == Spec => BroadcastsArrive
<1>1. RoomsInv /\ [Next]_vars => Arrives
  <2> SUFFICES ASSUME RoomsInv, [Next]_vars, wire # << >>, wire' = Tail(wire)
               PROVE  LET m == Head(wire) IN
                      \/ m.room = NoRoom \/ m.n \in lost'
                      \/ \A s \in rooms[m.room] \intersect sessions : got'[s][m.n] > got[s][m.n]
    BY DEF Arrives
  <2>1. Typed /\ Locked /\ Numbered /\ (\A u \in Sessions : Placed(u)) /\ wire \in Seq(Payload)
    BY DEF RoomsInv, Typed, RedisTyped
  <2>2. wire' # wire /\ Head(wire) \in Payload /\ \A e \in Payload : Tail(wire) # Append(wire, e)
    <3>1. PICK q \in Seq(Payload) : q = wire
      BY <2>1
    <3>2. ASSUME NEW e \in Payload PROVE Tail(wire) # Append(wire, e)
      <4>1. Append(q, e) # Tail(q)
        BY <3>1, Longer
      <4>2. QED BY <3>1, <4>1
    <3>3. wire' # wire /\ Head(wire) \in Payload
      BY <2>1, TailFacts
    <3>4. QED BY <3>2, <3>3
  <2>3. ~(UNCHANGED vars \/ Tick \/ Start)
    BY <2>2 DEF vars, Tick, Start, redis
  <2>4. ASSUME NEW s \in Sessions PROVE ~(TaskStep(s) \/ FrameStep(s) \/ FallbackDeliver(s))
    BY <2>2 DEF TaskStep, Upgrade, Register, Registered, Subscribe, Subscribed, Unsubscribe,
         Unsubscribed, Fallback, Remove, TakeRooms, LeaveRooms, Outbound, Close, SleepOver, PingFails,
         FrameStep, Text, OtherFrame, FallbackDeliver, redis
  <2>5. ASSUME NEW room \in Rooms0, NEW n \in 1..MaxPublished, Pass(room, n) PROVE FALSE
    <3>1. PICK e \in Payload : e = [room |-> room, n |-> n]
      BY DEF Payload
    <3>2. QED BY <2>2, <2>5, <3>1 DEF Pass
  <2>6. ASSUME NEW s \in Sessions, Publish(s) PROVE FALSE
    <3>1. arg[s].room \in Rooms0 /\ arg[s].n \in 1..MaxPublished
      BY <2>1, <2>6, RoomsAssumption DEF Publish, Placed, Handling, Sending, Numbered, Typed, RedisTyped,
                                         Rooms0
    <3>2. PICK r \in Rooms0, n \in 1..MaxPublished : r = arg[s].room /\ n = arg[s].n
      BY <3>1
    <3>3. Pass(r, n)
      BY <2>2, <2>6, <3>2 DEF Publish
    <3>4. QED BY <2>5, <3>3
  <2>7. ASSUME NEW r \in Rooms0, PublishElsewhere(r) PROVE FALSE
    <3>1. PICK n \in 1..MaxPublished : n = published'
      BY <2>1, <2>7, RoomsAssumption DEF PublishElsewhere, Typed, RedisTyped
    <3>2. Pass(r, n)
      BY <2>7, <3>1 DEF PublishElsewhere
    <3>3. QED BY <2>5, <3>2
  <2>8. CASE TakeMessage
    <3>1. Head(wire).room = NoRoom
      BY <2>2, <2>8 DEF TakeMessage
    <3>2. QED BY <3>1
  <2>9. CASE StreamEnds
    <3>1. Head(wire) = wire[1] /\ 1 \in DOMAIN wire
      BY <2>1, TailFacts
    <3>2. Head(wire).n \in lost'
      BY <2>9, <3>1 DEF StreamEnds
    <3>3. QED BY <3>2
  <2>10. CASE SubscriberDeliver
    <3>1. Head(wire).room \in RoomNames /\ Subscriber \in Tasks
      BY <2>1, <2>10 DEF SubscriberDeliver, Locked, Tasks
    <3>2. PICK r \in RoomNames, n \in 1..MaxPublished : r = Head(wire).room /\ n = Head(wire).n
      BY <2>2, <3>1 DEF Payload
    <3>3. Deliver(Subscriber, r, n)
      BY <2>10, <3>2 DEF SubscriberDeliver
    <3>4. \A u \in Sessions, m \in 1..MaxPublished : got'[u][m] =
             IF m = n /\ u \in rooms[r] \intersect sessions THEN got[u][m] + 1 ELSE got[u][m]
      BY <2>1, <3>1, <3>3, DeliverTypes DEF Deliver
    <3>5. \A u \in rooms[r] \intersect sessions : u \in Sessions /\ got[u][n] \in Nat
      BY <2>1, CountTypes DEF Typed, MapsTyped
    <3>6. \A u \in rooms[r] \intersect sessions : got'[u][n] > got[u][n]
      BY <3>4, <3>5
    <3>7. QED BY <3>2, <3>6
  <2>11. QED BY <2>3, <2>4, <2>6, <2>7, <2>8, <2>9, <2>10, NextIs DEF Background, SubscriberStep
<1>2. QED BY <1>1, RoomsInvariant, PTL DEF Spec, BroadcastsArrive

=============================================================================
