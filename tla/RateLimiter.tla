----------------------------- MODULE RateLimiter -----------------------------
(***************************************************************************)
(* The per-endpoint rate limit of auth/rate_limit.rs, as check_rate_limit  *)
(* of handlers/crud.rs uses it: a sliding window of time stamps in a Redis *)
(* sorted set, one per client and action, updated by one Lua script.       *)
(*                                                                         *)
(* A call reads its clock (rate_limit.rs:46), then waits for a pooled      *)
(* connection, and only then runs the script: calls may reach Redis out of *)
(* the order of their stamps, and with a stamp up to `slack' seconds old.  *)
(* Time is counted in seconds, the unit of window_secs and of EXPIRE.      *)
(***************************************************************************)
EXTENDS Integers, FiniteSets

CONSTANTS
    Calls,        \* the calls made, each at most once
    Client,       \* Client[c]: who makes call c, [ip, user, tenant, action]
    MaxRequests,  \* rate_limit.max_requests of the endpoint
    WindowSecs,   \* rate_limit.window_secs of the endpoint
    MaxWait,      \* bound on the wait for a pooled connection
    Horizon       \* bound on the clock

VARIABLES
    now,      \* the time
    slack,    \* the longest wait for a connection in this behaviour
    stamp,    \* stamp[c]: the clock reading of call c, -1 before it
    ran,      \* ran[c]: when the script of call c ran, -1 before it
    result,   \* result[c]: what check returned
    entries,  \* entries[k]: the sorted set of key k, pairs <<score, member>>
    seq,      \* seq[k]: the counter under k:seq, which has no expiry
    expiry    \* expiry[k]: when Redis drops key k

vars == <<now, slack, stamp, ran, result, entries, seq, expiry>>

(***************************************************************************)
(* "user:<id>" when the caller is known, else "ip:<addr>"; a tenant claim  *)
(* and the action make separate windows.  Options are sets of at most one  *)
(* member.                                                                 *)
(***************************************************************************)
key_for(who) == IF who.user # {} THEN <<"user", who.user>> ELSE <<"ip", who.ip>>

key_for_tenant(who) == <<who.tenant, key_for(who)>>

KeyOf(c) == <<Client[c].action, key_for_tenant(Client[c])>>

Keys == {KeyOf(c) : c \in Calls}

Init ==
    /\ now = 0
    /\ slack \in 0 .. MaxWait
    /\ stamp = [c \in Calls |-> -1]
    /\ ran = [c \in Calls |-> -1]
    /\ result = [c \in Calls |-> "none"]
    /\ entries = [k \in Keys |-> {}]
    /\ seq = [k \in Keys |-> 0]
    /\ expiry = [k \in Keys |-> 0]

-----------------------------------------------------------------------------
\* The sorted set as Redis sees it: nothing once the key has expired.
Stored(k) == IF expiry[k] > now THEN entries[k] ELSE {}

\* The member of a call: its stamp with the next sequence number.
Member(c, n) == <<stamp[c], n>>

\* ZREMRANGEBYSCORE removes the scores up to now - window, that one included.
Kept(c) == {e \in Stored(KeyOf(c)) : e[1] > stamp[c] - WindowSecs}

Counted(c) == Kept(c) \cup {Member(c, seq[KeyOf(c)] + 1)}

OneMoreMutant(n) == IF n > MaxRequests + 1 THEN "RateLimited" ELSE "Ok"

Verdict(n) == IF n > MaxRequests THEN "RateLimited" ELSE "Ok"

-----------------------------------------------------------------------------
\* check_rate_limit builds the key, check reads the clock and asks for a
\* connection.
Begin(c) ==
    /\ stamp[c] = -1
    /\ stamp' = [stamp EXCEPT ![c] = now]
    /\ UNCHANGED <<now, slack, ran, result, entries, seq, expiry>>

\* The Lua script, atomic in Redis, and the comparison with the limit. A
\* refused call stays in the window.
Check(c) ==
    LET k == KeyOf(c) IN
    /\ stamp[c] >= 0
    /\ result[c] = "none"
    /\ entries' = [entries EXCEPT ![k] = Counted(c)]
    /\ seq' = [seq EXCEPT ![k] = @ + 1]
    /\ expiry' = [expiry EXCEPT ![k] = now + WindowSecs + 1]
    /\ result' = [result EXCEPT ![c] = Verdict(Cardinality(Counted(c)))]
    /\ ran' = [ran EXCEPT ![c] = now]
    /\ UNCHANGED <<now, slack, stamp>>

\* No connection, or the script failed: the request is answered with an error
\* and nothing is counted.
CheckFails(c) ==
    /\ stamp[c] >= 0
    /\ result[c] = "none"
    /\ result' = [result EXCEPT ![c] = "Internal"]
    /\ UNCHANGED <<now, slack, stamp, ran, entries, seq, expiry>>

\* Time passes; no call waits longer than slack.
Tick ==
    /\ now < Horizon
    /\ \A c \in Calls : (stamp[c] >= 0 /\ result[c] = "none") => now - stamp[c] < slack
    /\ now' = now + 1
    /\ UNCHANGED <<slack, stamp, ran, result, entries, seq, expiry>>

Next ==
    \/ \E c \in Calls : Begin(c) \/ Check(c) \/ CheckFails(c)
    \/ Tick

Spec == Init /\ [][Next]_vars

-----------------------------------------------------------------------------
TypeOK ==
    /\ now \in 0 .. Horizon /\ slack \in 0 .. MaxWait
    /\ stamp \in [Calls -> -1 .. Horizon] /\ ran \in [Calls -> -1 .. Horizon]
    /\ result \in [Calls -> {"none", "Ok", "RateLimited", "Internal"}]
    /\ seq \in [Keys -> 0 .. Cardinality(Calls)]
    /\ \A k \in Keys : entries[k] \subseteq (0 .. Horizon) \X (0 .. Cardinality(Calls))

\* The same caller, by what the request says of it: the same action under the
\* same tenant claim, and the same user, or no user and the same address.
SameCaller(c, d) ==
    /\ Client[c].action = Client[d].action
    /\ Client[c].tenant = Client[d].tenant
    /\ Client[c].user = Client[d].user
    /\ Client[c].user = {} => Client[c].ip = Client[d].ip

\* No caller is admitted more than max_requests times in a window, however its
\* calls interleave between the clock reading and the script, and though the
\* key may expire in between; a call that waited for a connection can shorten
\* the window by its wait and by no more.
AdmittedWithinLimit ==
    \A c \in Calls : result[c] = "Ok" =>
        Cardinality({d \in Calls : /\ SameCaller(c, d)
                                   /\ result[d] = "Ok"
                                   /\ ran[d] <= ran[c]
                                   /\ ran[d] > ran[c] - (WindowSecs - slack)})
            <= MaxRequests

\* A call is refused only when the caller itself made max_requests other calls,
\* admitted or not, within the window: another caller, or an older call, never
\* costs it its turn.
RefusedMeansBusy ==
    \A c \in Calls : result[c] = "RateLimited" =>
        Cardinality({d \in Calls \ {c} : /\ SameCaller(c, d)
                                         /\ ran[d] >= 0
                                         /\ ran[d] <= ran[c]
                                         /\ stamp[d] > stamp[c] - WindowSecs})
            >= MaxRequests
=============================================================================
