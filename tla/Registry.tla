------------------------------ MODULE Registry -------------------------------
(***************************************************************************)
(* The service registry of registry/mod.rs: one Redis key per service name *)
(* with a time to live, written by register, refreshed by the heartbeat    *)
(* task and removed by deregister.  Several processes may run under one    *)
(* name, as in a rolling restart; the key holds the entry of one of them.  *)
(*                                                                         *)
(* A heartbeat reads the key and then writes back what it read: whatever   *)
(* happens to the key in between is undone.  Time is counted in units of   *)
(* five seconds; the two commands of a heartbeat take less than one.       *)
(***************************************************************************)
EXTENDS Integers, FiniteSets

CONSTANTS
    Procs,     \* the processes, all under one service name; each starts once
    Interval,  \* HEARTBEAT_INTERVAL_SECS: 2 units
    Ttl        \* REGISTRY_TTL_SECS: 7 units

VARIABLES
    key,     \* the key: {} or the entry, [of, status]
    left,    \* the time the key has left
    proc,    \* proc[p]: "new", "up", "leaving" (deregistered) or "down"
    due,     \* due[p]: time to the next tick of p's heartbeat task
    copy,    \* copy[p]: the entry p's heartbeat has read and not written back
    missed,  \* missed[p]: p's heartbeats that failed since the last one that
             \* did not, capped at three
    since,   \* since[p]: time since p ended, capped at Ttl
    cause    \* why the key was last removed: "none", "expired", "deregistered"

vars == <<key, left, proc, due, copy, missed, since, cause>>

Init ==
    /\ key = {} /\ left = 0
    /\ proc = [p \in Procs |-> "new"]
    /\ due = [p \in Procs |-> 0]
    /\ copy = [p \in Procs |-> {}]
    /\ missed = [p \in Procs |-> 0]
    /\ since = [p \in Procs |-> 0]
    /\ cause = "none"

LongerMutant == Ttl + 1

\* SET ... EX REGISTRY_TTL_SECS
Lifetime == Ttl

Alive(p) == proc[p] \in {"up", "leaving"}

Put(e) == key' = {e} /\ left' = Lifetime

-----------------------------------------------------------------------------
\* A process starts: register, then start_heartbeat, whose interval ticks at
\* once.
register(p) ==
    /\ proc[p] = "new"
    /\ Put([of |-> p, status |-> "starting"])
    /\ proc' = [proc EXCEPT ![p] = "up"]
    /\ cause' = "none"
    /\ UNCHANGED <<due, copy, missed, since>>

\* The GET of a heartbeat. Nothing under the key: NotFound, which the task logs.
HeartbeatReads(p) ==
    /\ Alive(p) /\ due[p] = 0 /\ copy[p] = {}
    /\ \/ /\ key # {}
          /\ copy' = [copy EXCEPT ![p] = key]
          /\ UNCHANGED due
       \/ /\ key = {}
          /\ due' = [due EXCEPT ![p] = Interval]
          /\ UNCHANGED copy
    /\ UNCHANGED <<key, left, proc, missed, since, cause>>

\* What a heartbeat makes of the entry it read, whoever's entry it is.
Beaten(e) == [e EXCEPT !.status = "healthy"]

\* The SET of a heartbeat.
HeartbeatWrites(p) ==
    /\ copy[p] # {}
    /\ \E e \in copy[p] : Put(Beaten(e))
    /\ copy' = [copy EXCEPT ![p] = {}]
    /\ due' = [due EXCEPT ![p] = Interval]
    /\ missed' = [missed EXCEPT ![p] = 0]
    /\ UNCHANGED <<proc, since, cause>>

\* No connection, or one of the two commands fails; the task logs it and waits.
HeartbeatFails(p) ==
    /\ Alive(p) /\ due[p] = 0
    /\ copy' = [copy EXCEPT ![p] = {}]
    /\ due' = [due EXCEPT ![p] = Interval]
    /\ missed' = [missed EXCEPT ![p] = IF @ < 3 THEN @ + 1 ELSE @]
    /\ UNCHANGED <<key, left, proc, since, cause>>

\* deregister deletes the key, whoever's entry it holds. The heartbeat task is
\* aborted only when the process ends, next.
deregister(p) ==
    /\ proc[p] = "up"
    /\ proc' = [proc EXCEPT ![p] = "leaving"]
    /\ key' = {} /\ left' = 0
    /\ cause' = "deregistered"
    /\ UNCHANGED <<due, copy, missed, since>>

\* The process ends, after deregister or without it; a SET that is on its way
\* is still executed or not.
Ends(p) ==
    /\ Alive(p)
    /\ proc' = [proc EXCEPT ![p] = "down"]
    /\ copy' = [copy EXCEPT ![p] = {}]
    /\ UNCHANGED <<key, left, due, missed, since, cause>>

\* Time passes once every heartbeat that is due has been made.
Tick ==
    /\ \A p \in Procs : copy[p] = {} /\ (Alive(p) => due[p] > 0)
    /\ left' = IF left > 0 THEN left - 1 ELSE 0
    /\ key' = IF left = 1 THEN {} ELSE key
    /\ cause' = IF left = 1 THEN "expired" ELSE cause
    /\ due' = [p \in Procs |-> IF Alive(p) THEN due[p] - 1 ELSE due[p]]
    /\ since' = [p \in Procs |-> IF proc[p] = "down" /\ since[p] < Ttl THEN since[p] + 1 ELSE since[p]]
    /\ UNCHANGED <<proc, copy, missed>>

Next ==
    \/ \E p \in Procs : \/ register(p) \/ deregister(p) \/ Ends(p)
                        \/ HeartbeatReads(p) \/ HeartbeatWrites(p) \/ HeartbeatFails(p)
    \/ Tick

Spec == Init /\ [][Next]_vars

-----------------------------------------------------------------------------
TypeOK ==
    /\ Cardinality(key) <= 1 /\ left \in Nat
    /\ (key = {}) = (left = 0)
    /\ proc \in [Procs -> {"new", "up", "leaving", "down"}]
    /\ due \in [Procs -> 0 .. Interval]

\* The key of a service expires only when none of its processes that are up has
\* got through with any of its last three heartbeats (the comment on
\* REGISTRY_TTL_SECS): a service survives two failures in a row.
ExpiryMeansThreeMissed ==
    (cause = "expired" /\ key = {}) => \A p \in Procs : proc[p] = "up" => missed[p] >= 3

\* No entry outlives the processes under its name by more than its time to live,
\* not even one that a heartbeat put back after a deregistration, or one of a
\* process long gone that another kept writing back.
EntriesDieOut ==
    key # {} => \E p \in Procs : \/ Alive(p)
                                 \/ proc[p] = "down" /\ since[p] < Ttl

\* The time to live is longer than three intervals, as the comment on
\* REGISTRY_TTL_SECS wants it; ten and thirty-five seconds in the code.
Timing == Interval \in Nat \ {0} /\ Ttl \in Nat /\ 3 * Interval < Ttl
=============================================================================
