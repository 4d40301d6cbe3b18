------------------------------- MODULE Rooms --------------------------------
(***************************************************************************)
(* One WebSocket channel of a server instance (ws/): the RoomManager with  *)
(* its three maps behind three RwLocks, the task of every connected        *)
(* session, and the Redis pub/sub subscriber that feeds broadcasts of all  *)
(* instances to the local sessions.                                        *)
(*                                                                         *)
(* A step is what a task does between two awaits.  The locks of sessions   *)
(* and session_rooms are taken and released inside one step; only the lock *)
(* of rooms is held across an await (unsubscribe, broadcast_to_room), so   *)
(* only its holders are state.  Text frames are abstracted to the room     *)
(* they name and, for broadcasts, a number.                                *)
(***************************************************************************)
EXTENDS Naturals, Sequences, FiniteSets

CONSTANTS
    Sessions,      \* session ids (UUIDs, never reused)
    RoomNames,
    Subscriber,    \* the task of RedisPubSub::start_subscriber
    Nobody,        \* no task
    NoRoom,        \* no room; also a pub/sub payload that does not parse
    ChannelFiles,  \* entries of the channels directory
    Tokens,        \* values of ?token=, as a kind and a role
    ClientTimeout, \* CLIENT_TIMEOUT, in units of the five-second sleep
    MaxFrames,     \* bound: frames the clients send
    MaxPublished,  \* bound: messages on the Redis channel
    MaxFaults      \* bound: failing sends and Redis commands

ASSUME RoomsAssumption ==
    /\ Subscriber \notin Sessions /\ Nobody \notin Sessions \union {Subscriber}
    /\ NoRoom \notin RoomNames
    /\ ClientTimeout \in Nat /\ MaxFrames \in Nat
    /\ MaxPublished \in Nat /\ MaxFaults \in Nat

Tasks == Sessions \union {Subscriber}

VARIABLES
    definition,     \* the ChannelDefinition served; never changes
    rooms,          \* rooms[r]: sessions subscribed; {} is an absent entry
    sessions,       \* sessions whose sender is registered
    session_rooms,  \* session -> rooms it is subscribed to, as a partial map
    writer,         \* the task that holds rooms for writing
    readers,        \* the tasks that hold rooms for reading
    at,             \* at[s]: where the task ws_session of s is
    arg,            \* arg[s]: the room and message of the frame being handled
    left,           \* left[s]: rooms taken out of session_rooms by remove_session
    inbox,          \* inbox[s]: broadcasts in the session's mpsc channel
    got,            \* history: got[s][n]: times message n was queued for s
    since,          \* since[s]: time since last_heartbeat
    slept,          \* slept[s]: time since the select of the loop was entered
    pinger,         \* sessions whose heartbeat_loop runs
    sub,            \* where the subscriber is
    wire,           \* Redis -> subscriber
    frames,         \* frames the clients sent
    published,      \* messages numbered so far
    faults,
    lost,           \* history: messages Redis passed to no subscriber here
    twice           \* history: messages broadcast locally although Redis has them

mgr   == <<rooms, sessions, session_rooms>>
locks == <<writer, readers>>
tasks == <<at, arg, left>>
time  == <<since, slept>>
queue == <<inbox, got>>
redis == <<sub, wire, published, lost, twice>>
vars  == <<definition, mgr, locks, tasks, time, redis, queue, pinger, frames, faults>>

Fault == faults < MaxFaults /\ faults' = faults + 1

\* where a task is while last_heartbeat matters
Serving == {"loop", "subscribe", "subscribe2", "unsubscribe", "unsubscribe2", "publish",
            "fallback", "deliver"}

NoArg == [room |-> NoRoom, n |-> 0]

Least(a, b) == IF a < b THEN a ELSE b

-----------------------------------------------------------------------------
(* The channel definitions and the upgrade request *)

\* load_channels: entries of another name and files that cannot be read or
\* parsed are skipped.
load_channels(dir) ==
    {f.def : f \in {g \in dir : g.named /\ g.readable /\ g.parses}}

\* validate_ws_auth, as the status of the answer; auth is a set of roles,
\* "none" or "public".
validate_ws_auth(def, token) ==
    IF def.auth \in {{"none"}, {"public"}} THEN 101
    ELSE IF token.kind # "valid" THEN 401
    ELSE IF token.role \in def.auth \/ "owner" \in def.auth THEN 101
    ELSE 403

\* ws_handler: the upgrade spawns the session's task.
Upgrade(s, token) ==
    /\ at[s] = "off"
    /\ at' = [at EXCEPT ![s] =
                 IF validate_ws_auth(definition, token) = 101 THEN "register" ELSE "refused"]
    /\ UNCHANGED <<definition, mgr, locks, arg, left, time, redis, queue, pinger, frames, faults>>

-----------------------------------------------------------------------------
(* RoomManager; each operation runs in the task of the session *)

\* register_session: first sessions, ...
Register(s) ==
    /\ at[s] = "register"
    /\ sessions' = sessions \union {s}
    /\ at' = [at EXCEPT ![s] = "register2"]
    /\ UNCHANGED <<definition, rooms, session_rooms, locks, arg, left, time, redis, queue,
                   pinger, frames, faults>>

\* ... then session_rooms; the task starts the heartbeat and enters its loop.
Registered(s) ==
    /\ at[s] = "register2"
    /\ session_rooms' = [x \in DOMAIN session_rooms \union {s} |->
                            IF x = s THEN {} ELSE session_rooms[x]]
    /\ since' = [since EXCEPT ![s] = 0] /\ slept' = [slept EXCEPT ![s] = 0]
    /\ pinger' = pinger \union {s}
    /\ at' = [at EXCEPT ![s] = "loop"]
    /\ UNCHANGED <<definition, rooms, sessions, locks, arg, left, redis, queue, frames, faults>>

CanWrite == writer = Nobody /\ readers = {}

\* back to the select of the loop, whose sleep starts again
Loop(s) ==
    /\ at' = [at EXCEPT ![s] = "loop"] /\ slept' = [slept EXCEPT ![s] = 0]
    /\ arg' = [arg EXCEPT ![s] = NoArg]

\* the loop ends
Break(s) ==
    /\ at' = [at EXCEPT ![s] = "closing"]
    /\ slept' = [slept EXCEPT ![s] = 0] /\ since' = [since EXCEPT ![s] = 0]

\* subscribe: rooms, and in a second step session_rooms if the session is
\* there; the client is told.
Subscribe(s) ==
    /\ at[s] = "subscribe" /\ CanWrite
    /\ rooms' = [rooms EXCEPT ![arg[s].room] = @ \union {s}]
    /\ at' = [at EXCEPT ![s] = "subscribe2"]
    /\ UNCHANGED <<definition, sessions, session_rooms, locks, arg, left, time, redis, queue,
                   pinger, frames, faults>>

Subscribed(s) ==
    /\ at[s] = "subscribe2"
    /\ session_rooms' = [x \in DOMAIN session_rooms |->
                            session_rooms[x] \union IF x = s THEN {arg[s].room} ELSE {}]
    /\ Loop(s)
    /\ UNCHANGED <<definition, rooms, sessions, locks, left, since, redis, queue, pinger,
                   frames, faults>>

\* unsubscribe keeps the write guard of rooms ...
Unsubscribe(s) ==
    /\ at[s] = "unsubscribe" /\ CanWrite
    /\ rooms' = [rooms EXCEPT ![arg[s].room] = @ \ {s}]
    /\ writer' = s
    /\ at' = [at EXCEPT ![s] = "unsubscribe2"]
    /\ UNCHANGED <<definition, sessions, session_rooms, readers, arg, left, time, redis, queue,
                   pinger, frames, faults>>

\* ... until session_rooms is changed too.
Unsubscribed(s) ==
    /\ at[s] = "unsubscribe2"
    /\ session_rooms' = [x \in DOMAIN session_rooms |->
                            session_rooms[x] \ IF x = s THEN {arg[s].room} ELSE {}]
    /\ writer' = Nobody
    /\ Loop(s)
    /\ UNCHANGED <<definition, rooms, sessions, readers, left, since, redis, queue, pinger,
                   frames, faults>>

LateSenderMutant(s) ==
    /\ at[s] = "closing"
    /\ pinger' = pinger \ {s}
    /\ at' = [at EXCEPT ![s] = "remove2"]
    /\ UNCHANGED <<definition, mgr, locks, arg, left, time, redis, queue, frames, faults>>

\* remove_session, after the loop ended and the heartbeat was aborted: out of
\* sessions, then out of session_rooms, then out of every room found there.
Remove(s) ==
    /\ at[s] = "closing"
    /\ pinger' = pinger \ {s}
    /\ sessions' = sessions \ {s}
    /\ at' = [at EXCEPT ![s] = "remove2"]
    /\ UNCHANGED <<definition, rooms, session_rooms, locks, arg, left, time, redis, queue, frames,
                   faults>>

TakeRooms(s) ==
    /\ at[s] = "remove2"
    /\ left' = [left EXCEPT ![s] = IF s \in DOMAIN session_rooms THEN session_rooms[s] ELSE {}]
    /\ session_rooms' = [x \in DOMAIN session_rooms \ {s} |-> session_rooms[x]]
    /\ at' = [at EXCEPT ![s] = "remove3"]
    /\ UNCHANGED <<definition, rooms, sessions, locks, arg, time, redis, queue, pinger, frames,
                   faults>>

KeepLastMutant(s) ==
    /\ at[s] = "remove3" /\ CanWrite
    /\ rooms' = [r \in RoomNames |->
                    IF r \in left[s] /\ rooms[r] # {s} THEN rooms[r] \ {s} ELSE rooms[r]]
    /\ at' = [at EXCEPT ![s] = "gone"]
    /\ inbox' = [inbox EXCEPT ![s] = << >>]
    /\ left' = [left EXCEPT ![s] = {}]
    /\ UNCHANGED <<definition, sessions, session_rooms, locks, arg, time, redis, got,
                   pinger, frames, faults>>

LeaveRooms(s) ==
    /\ at[s] = "remove3" /\ CanWrite
    /\ rooms' = [r \in RoomNames |-> IF r \in left[s] THEN rooms[r] \ {s} ELSE rooms[r]]
    /\ at' = [at EXCEPT ![s] = "gone"]
    /\ inbox' = [inbox EXCEPT ![s] = << >>]
    /\ left' = [left EXCEPT ![s] = {}]
    /\ UNCHANGED <<definition, sessions, session_rooms, locks, arg, time, redis, got,
                   pinger, frames, faults>>

\* broadcast_to_room(room, message) by task t: with rooms and then sessions
\* locked for reading, a copy for every member that has a sender.
ReadRooms(t) ==
    /\ writer = Nobody
    /\ readers' = readers \union {t}
    /\ UNCHANGED writer

Deliver(t, room, n) ==
    /\ inbox' = [s \in Sessions |->
                    IF room \in RoomNames /\ s \in rooms[room] \intersect sessions
                    THEN Append(inbox[s], [room |-> room, n |-> n]) ELSE inbox[s]]
    /\ got' = [s \in Sessions |-> [m \in 1..MaxPublished |->
                  got[s][m] + IF m = n /\ inbox'[s] # inbox[s] THEN 1 ELSE 0]]
    /\ readers' = readers \ {t}
    /\ UNCHANGED writer

-----------------------------------------------------------------------------
(* ws_session: one select of the loop *)

\* A broadcast is written to the client; a client that is gone ends the loop.
Outbound(s) ==
    /\ at[s] = "loop" /\ inbox[s] # << >>
    /\ inbox' = [inbox EXCEPT ![s] = Tail(@)]
    /\ \/ Loop(s) /\ UNCHANGED <<since, faults>>
       \/ Break(s) /\ Fault /\ UNCHANGED arg
    /\ UNCHANGED <<definition, mgr, locks, left, redis, got, pinger, frames>>

NextFrame(s) == /\ at[s] = "loop" /\ frames < MaxFrames
                /\ frames' = frames + 1

\* The frame is handled in further steps, as the operation op on room; a
\* message to publish is numbered.
Handle(s, op, room) ==
    /\ at' = [at EXCEPT ![s] = op]
    /\ slept' = [slept EXCEPT ![s] = 0]
    /\ IF op = "publish"
       THEN /\ published < MaxPublished /\ published' = published + 1
            /\ arg' = [arg EXCEPT ![s] = [room |-> room, n |-> published']]
       ELSE /\ arg' = [arg EXCEPT ![s] = [room |-> room, n |-> 0]]
            /\ UNCHANGED published

\* handle_text_message: a text frame counts as a heartbeat whatever it says.
\* Text that does not parse, a pong, and a subscription or message on a
\* channel without rooms end here; an unsubscription does not.
Text(s, op, room) ==
    /\ NextFrame(s)
    /\ since' = [since EXCEPT ![s] = 0]
    /\ IF op = "unsubscribe" \/ (op \in {"subscribe", "publish"} /\ definition.rooms)
       THEN Handle(s, op, room)
       ELSE Loop(s) /\ UNCHANGED published
    /\ UNCHANGED <<definition, mgr, locks, left, sub, wire, lost, twice, queue, pinger, faults>>

\* Ping and pong frames are heartbeats; binary, continuation and empty frames
\* are not.
OtherFrame(s, kind) ==
    /\ NextFrame(s)
    /\ \/ /\ Loop(s) /\ UNCHANGED faults
          /\ since' = [since EXCEPT ![s] = IF kind \in {"ping", "pong"} THEN 0 ELSE @]
       \/ kind = "ping" /\ Fault /\ Break(s) /\ UNCHANGED arg
    /\ UNCHANGED <<definition, mgr, locks, left, redis, queue, pinger>>

\* The client closes, or the stream fails or ends.
Close(s) ==
    /\ at[s] = "loop"
    /\ Break(s)
    /\ UNCHANGED <<definition, mgr, locks, arg, left, redis, queue, pinger, frames, faults>>

NeverLateMutant(s) ==
    /\ at[s] = "loop" /\ slept[s] = 1
    /\ IF since[s] > ClientTimeout + 1 THEN Break(s) /\ UNCHANGED arg
       ELSE Loop(s) /\ UNCHANGED since
    /\ UNCHANGED <<definition, mgr, locks, left, redis, queue, pinger, frames, faults>>

\* Five seconds passed in one select: the only place that looks at
\* last_heartbeat.
SleepOver(s) ==
    /\ at[s] = "loop" /\ slept[s] = 1
    /\ IF since[s] > ClientTimeout THEN Break(s) /\ UNCHANGED arg
       ELSE Loop(s) /\ UNCHANGED since
    /\ UNCHANGED <<definition, mgr, locks, left, redis, queue, pinger, frames, faults>>

\* heartbeat_loop ends by itself when a ping cannot be written.
PingFails(s) ==
    /\ s \in pinger /\ Fault
    /\ pinger' = pinger \ {s}
    /\ UNCHANGED <<definition, mgr, locks, tasks, time, redis, queue, frames>>

\* Five seconds pass; times are counted up to the first value that matters.
Tick ==
    /\ \E s \in Sessions : at[s] = "loop" /\ slept[s] = 0
    /\ since' = [s \in Sessions |-> IF at[s] \notin Serving THEN 0
                                    ELSE Least(since[s] + 1, ClientTimeout + 1)]
    /\ slept' = [s \in Sessions |-> IF at[s] = "loop" THEN 1 ELSE slept[s]]
    /\ UNCHANGED <<definition, mgr, locks, tasks, redis, queue, pinger, frames, faults>>

-----------------------------------------------------------------------------
(* RedisPubSub *)

\* PUBLISH reaches the subscriber if it listens, and is not kept otherwise.
Pass(room, n) ==
    IF sub \in {"off", "ended"}
    THEN lost' = lost \union {n} /\ UNCHANGED wire
    ELSE wire' = Append(wire, [room |-> room, n |-> n]) /\ UNCHANGED lost

\* publish: Redis takes the message; or it fails before or after that, and
\* the session broadcasts to the local room instead.
Publish(s) ==
    /\ at[s] = "publish"
    /\ \/ Pass(arg[s].room, arg[s].n) /\ Loop(s) /\ UNCHANGED <<twice, faults>>
       \/ /\ Fault
          /\ at' = [at EXCEPT ![s] = "fallback"] /\ UNCHANGED <<slept, arg>>
          /\ \/ Pass(arg[s].room, arg[s].n) /\ twice' = twice \union {arg[s].n}
             \/ UNCHANGED <<twice, lost, wire>>
    /\ UNCHANGED <<definition, mgr, locks, left, since, sub, published, queue, pinger, frames>>

Fallback(s) ==
    /\ at[s] = "fallback" /\ ReadRooms(s)
    /\ at' = [at EXCEPT ![s] = "deliver"]
    /\ UNCHANGED <<definition, mgr, arg, left, time, redis, queue, pinger, frames, faults>>

FallbackDeliver(s) ==
    /\ at[s] = "deliver"
    /\ Deliver(s, arg[s].room, arg[s].n)
    /\ Loop(s)
    /\ UNCHANGED <<definition, mgr, left, since, redis, pinger, frames, faults>>

\* Another instance publishes; payloads that do not parse come from elsewhere.
PublishElsewhere(room) ==
    /\ published < MaxPublished /\ published' = published + 1
    /\ Pass(room, published')
    /\ UNCHANGED <<definition, mgr, locks, tasks, time, sub, twice, queue, pinger, frames, faults>>

\* subscriber_loop: connects and subscribes, or the task ends at once.
Start ==
    /\ sub = "off"
    /\ \/ sub' = "listen" /\ UNCHANGED faults
       \/ sub' = "ended" /\ Fault
    /\ UNCHANGED <<definition, mgr, locks, tasks, time, wire, published, lost, twice, queue,
                   pinger, frames>>

DropWhenBusyMutant ==
    /\ sub = "listen" /\ wire # << >>
    /\ IF Head(wire).room = NoRoom \/ writer # Nobody
       THEN wire' = Tail(wire) /\ UNCHANGED <<locks, sub>>
       ELSE ReadRooms(Subscriber) /\ sub' = "deliver" /\ UNCHANGED wire
    /\ UNCHANGED <<definition, mgr, tasks, time, published, lost, twice, queue, pinger, frames,
                   faults>>

\* A payload that does not parse is skipped; any other is broadcast.
TakeMessage ==
    /\ sub = "listen" /\ wire # << >>
    /\ IF Head(wire).room = NoRoom
       THEN wire' = Tail(wire) /\ UNCHANGED <<locks, sub>>
       ELSE ReadRooms(Subscriber) /\ sub' = "deliver" /\ UNCHANGED wire
    /\ UNCHANGED <<definition, mgr, tasks, time, published, lost, twice, queue, pinger, frames,
                   faults>>

SubscriberDeliver ==
    /\ sub = "deliver"
    /\ Deliver(Subscriber, Head(wire).room, Head(wire).n)
    /\ wire' = Tail(wire) /\ sub' = "listen"
    /\ UNCHANGED <<definition, mgr, tasks, time, published, lost, twice, pinger, frames, faults>>

\* The stream ends with its connection.  Nothing starts the task again, and
\* what was on the way is lost.
StreamEnds ==
    /\ sub = "listen" /\ Fault
    /\ sub' = "ended"
    /\ lost' = lost \union {wire[i].n : i \in DOMAIN wire}
    /\ wire' = << >>
    /\ UNCHANGED <<definition, mgr, locks, tasks, time, published, twice, queue, pinger, frames>>

-----------------------------------------------------------------------------
Init ==
    /\ definition \in load_channels(ChannelFiles)
    /\ rooms = [r \in RoomNames |-> {}]
    /\ sessions = {}
    /\ session_rooms = [s \in {} |-> {}]
    /\ writer = Nobody /\ readers = {}
    /\ at = [s \in Sessions |-> "off"]
    /\ arg = [s \in Sessions |-> NoArg]
    /\ left = [s \in Sessions |-> {}]
    /\ inbox = [s \in Sessions |-> << >>]
    /\ got = [s \in Sessions |-> [n \in 1..MaxPublished |-> 0]]
    /\ since = [s \in Sessions |-> 0]
    /\ slept = [s \in Sessions |-> 0]
    /\ pinger = {}
    /\ sub = "off" /\ wire = << >> /\ published = 0 /\ lost = {} /\ twice = {}
    /\ frames = 0
    /\ faults = 0

Frame(s) ==
    \/ \E op \in {"subscribe", "unsubscribe", "publish"}, r \in RoomNames : Text(s, op, r)
    \/ Text(s, "other", NoRoom)
    \/ \E kind \in {"ping", "pong", "other"} : OtherFrame(s, kind)

\* the steps of a session's task that wait for nothing but a lock
Step(s) ==
    \/ Register(s) \/ Registered(s) \/ Subscribe(s) \/ Subscribed(s)
    \/ Unsubscribe(s) \/ Unsubscribed(s) \/ Fallback(s) \/ FallbackDeliver(s)
    \/ Remove(s) \/ TakeRooms(s) \/ LeaveRooms(s)

SubscriberStep == TakeMessage \/ SubscriberDeliver

Next ==
    \/ \E s \in Sessions :
          \/ \E t \in Tokens : Upgrade(s, t)
          \/ Step(s) \/ Outbound(s) \/ Frame(s) \/ Close(s) \/ SleepOver(s) \/ PingFails(s)
          \/ Publish(s)
    \/ Tick
    \/ Start \/ SubscriberStep \/ StreamEnds
    \/ \E r \in RoomNames \union {NoRoom} : PublishElsewhere(r)

Spec == Init /\ [][Next]_vars

\* The runtime polls woken tasks, its timers fire, and tokio's RwLock hands
\* the lock over in the order of the requests (hence SF for what waits for
\* the lock of rooms).  Clients and Redis need not do anything.
Fairness ==
    /\ \A s \in Sessions : SF_vars(Step(s)) /\ WF_vars(Outbound(s)) /\ WF_vars(SleepOver(s))
                          /\ WF_vars(Publish(s))
    /\ SF_vars(SubscriberStep)
    /\ WF_vars(Tick)

LiveSpec == Spec /\ Fairness

-----------------------------------------------------------------------------
(* Properties *)

Places == {"off", "refused", "register", "register2", "loop", "subscribe", "subscribe2",
           "unsubscribe", "unsubscribe2", "publish", "fallback", "deliver",
           "closing", "remove2", "remove3", "gone"}

\* Every variable has its type.
TypeOK ==
    /\ definition \in load_channels(ChannelFiles)
    /\ rooms \in [RoomNames -> SUBSET Sessions]
    /\ sessions \subseteq Sessions
    /\ DOMAIN session_rooms \subseteq Sessions
    /\ \A s \in DOMAIN session_rooms : session_rooms[s] \subseteq RoomNames
    /\ writer \in Tasks \union {Nobody} /\ readers \subseteq Tasks
    /\ at \in [Sessions -> Places]
    /\ left \in [Sessions -> SUBSET RoomNames]
    /\ \A s \in Sessions : since[s] \in 0..(ClientTimeout + 1) /\ slept[s] \in 0..1
    /\ pinger \subseteq Sessions
    /\ sub \in {"off", "listen", "deliver", "ended"}
    /\ lost \subseteq 1..MaxPublished /\ twice \subseteq 1..MaxPublished
    /\ published \in 0..MaxPublished /\ faults \in 0..MaxFaults

\* What RoomManager's three maps and three locks are for: while a session is
\* not inside one of its operations the maps say the same about it, and a
\* session that disconnected is in none of them, nor does its heartbeat run.
MapsAgree ==
    \A s \in Sessions :
        /\ at[s] \in {"loop", "subscribe", "unsubscribe", "publish", "fallback", "deliver",
                      "closing"} =>
              /\ s \in sessions \intersect DOMAIN session_rooms
              /\ session_rooms[s] = {r \in RoomNames : s \in rooms[r]}
        /\ at[s] \in {"off", "refused", "gone"} =>
              /\ s \notin sessions \union DOMAIN session_rooms \union pinger
              /\ \A r \in RoomNames : s \notin rooms[r]
              /\ inbox[s] = << >>

\* A message is queued once for a session; twice only when publish reported
\* an error for a message Redis did pass on (handle_text_message's fallback).
OneCopyEach ==
    \A s \in Sessions, n \in 1..MaxPublished :
        got[s][n] <= IF n \in twice THEN 2 ELSE 1

\* Between the operations of RoomManager the three maps agree about every
\* session, and no message is queued for one session twice, but for the fallback
\* of a publish that reported an error for a message Redis passed on.
RoomsAgree == TypeOK /\ MapsAgree /\ OneCopyEach

\* what a step that queues broadcasts has to satisfy
ToMembers ==
    \A s \in Sessions, r \in RoomNames, n \in 1..MaxPublished :
        inbox'[s] = Append(inbox[s], [room |-> r, n |-> n]) =>
            \/ at[s] = "subscribe2" /\ arg[s].room = r
            \/ /\ at[s] \notin {"unsubscribe2", "remove2", "remove3", "gone"}
               /\ r \in session_rooms[s]

\* A session is sent broadcasts of a room only from its subscription until
\* its unsubscription is acknowledged or its task has begun to clean up.
OnlyToMembers == [][ToMembers]_vars

\* Every connection ends and is cleaned up: no order of the locks blocks a
\* task for ever, and a client that has fallen silent is timed out once the
\* traffic to it pauses (the model's traffic is bounded, so it does).
EverySessionEnds ==
    \A s \in Sessions : at[s] = "register" ~> at[s] = "gone"

\* what a step that takes a message out of the stream has to satisfy
Arrives ==
    wire # << >> /\ wire' = Tail(wire) =>
        LET m == Head(wire) IN
        \/ m.room = NoRoom \/ m.n \in lost'
        \/ \A s \in rooms[m.room] \intersect sessions : got'[s][m.n] > got[s][m.n]

\* No message leaves the subscriber's stream without a copy for every session
\* then in the room, whatever the sessions do with the locks meanwhile; only
\* a lost connection loses any.
BroadcastsArrive == [][Arrives]_vars
=============================================================================
