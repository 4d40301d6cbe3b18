--------------------------- MODULE ServicesProofs ----------------------------
(***************************************************************************)
(* Theorems about the processes around the request handlers, for any       *)
(* number of processes, starts, connections, migrations, services and saga *)
(* steps, any setup and any timing that keeps the assumptions of Services. *)
(*                                                                         *)
(* Each part has an inductive invariant of its own; ServicesInv joins them *)
(* and the theorems at the end are about ServicesSpec.                     *)
(***************************************************************************)
EXTENDS Services, FiniteSetTheorems, WellFoundedInduction, TLAPS

\* Cardinality as the parts know it.
LEMMA SchemaCardinality == \A S : Schema!Cardinality(S) = Cardinality(S)
  BY DEF Schema!Cardinality, Cardinality

\* The same of the registry.
LEMMA EntriesCardinality == \A S : Entries!Cardinality(S) = Cardinality(S)
  BY DEF Entries!Cardinality, Cardinality

\* Cardinality as the workspace knows it.
LEMMA GroupCardinality == \A S : Group!Cardinality(S) = Cardinality(S)
  BY DEF Group!Cardinality, Cardinality

-----------------------------------------------------------------------------
(* Induction over the numbers, and loops and recursions by it.               *)

\* A set of numbers has a least one.
LEMMA LeastNat ==
    ASSUME NEW T, T \subseteq Nat, T # {}
    PROVE  \E x \in T : \A y \in T : ~(y < x)
<1>1. IsWellFoundedOn(OpToRel(<,Nat), Nat) BY NatLessThanWellFounded
<1>2. \E x \in T : \A y \in T : ~ (<<y, x>> \in OpToRel(<,Nat)) BY <1>1, WFMin
<1>3. QED BY <1>2 DEF OpToRel

\* What holds of 0, and of n + 1 when of n, holds of every number.
LEMMA SetInduction ==
    ASSUME NEW S, 0 \in S, \A n \in Nat : n \in S => n + 1 \in S
    PROVE  Nat \subseteq S
<1>1. SUFFICES ASSUME Nat \ S # {} PROVE FALSE OBVIOUS
<1>2. PICK x \in Nat \ S : \A y \in Nat \ S : ~(y < x) BY <1>1, LeastNat
<1>3. x # 0 /\ x - 1 \in Nat /\ x - 1 < x BY <1>2
<1>4. x - 1 \in S BY <1>2, <1>3
<1>5. (x - 1) + 1 = x BY <1>2
<1>6. QED BY <1>2, <1>3, <1>4, <1>5

\* The same up to a number n.
LEMMA UpTo ==
    ASSUME NEW n \in Nat, NEW S, 0 \in S, \A i \in 1 .. n : i - 1 \in S => i \in S
    PROVE  0 .. n \subseteq S
<1> DEFINE T == {m \in Nat : m <= n => m \in S}
<1>1. 0 \in T OBVIOUS
<1>2. ASSUME NEW m \in Nat, m \in T PROVE m + 1 \in T
  <2>1. SUFFICES ASSUME m + 1 <= n PROVE m + 1 \in S OBVIOUS
  <2>2. m \in S BY <1>2, <2>1
  <2>3. m + 1 \in 1 .. n /\ (m + 1) - 1 = m BY <2>1
  <2>4. QED BY <2>2, <2>3
<1> HIDE DEF T
<1>3. Nat \subseteq T BY <1>1, <1>2, SetInduction
<1>4. QED BY <1>3 DEF T

\* A loop of n rounds over values of A: it starts with a and goes on with h.
Rounds(n, A) == [(1 .. n) \X A -> A]

LoopRuns(n, A, a, h, g) ==
    /\ g \in [0 .. n -> A] /\ g[0] = a
    /\ \A i \in 1 .. n : g[i] = h[<<i, g[i - 1]>>]

\* Such a loop runs: there is a function that holds what it keeps after each round.
LEMMA Loop ==
    ASSUME NEW n \in Nat, NEW A, NEW a \in A, NEW h \in Rounds(n, A)
    PROVE  \E g : LoopRuns(n, A, a, h, g)
<1>0. h \in [(1 .. n) \X A -> A] BY DEF Rounds
<1> DEFINE runs(g, m) == /\ g \in [0 .. m -> A] /\ g[0] = a
                         /\ \A i \in 1 .. m : g[i] = h[<<i, g[i - 1]>>]
           S == {m \in Nat : \E g : runs(g, m)}
<1>1. 0 \in S
  <2> DEFINE g == [i \in 0 .. 0 |-> a]
  <2>1. runs(g, 0) OBVIOUS
  <2> HIDE DEF runs, g
  <2>2. QED BY <2>1
<1>2. ASSUME NEW i \in 1 .. n, i - 1 \in S PROVE i \in S
  <2>1. PICK f : runs(f, i - 1)
    <3> HIDE DEF runs
    <3>1. QED BY <1>2
  <2> DEFINE v == h[<<i, f[i - 1]>>]
             g == [k \in 0 .. i |-> IF k = i THEN v ELSE f[k]]
  <2>2. i - 1 \in 0 .. i - 1 /\ i \in Nat /\ i - 1 \in Nat OBVIOUS
  <2>3. f[i - 1] \in A BY <2>1, <2>2
  <2>4. v \in A BY <2>3, <1>0
  <2> HIDE DEF v
  <2>5. \A k \in 0 .. i : k = i \/ k \in 0 .. i - 1 OBVIOUS
  <2>6. g \in [0 .. i -> A] BY <2>1, <2>4, <2>5
  <2>7. \A k \in 0 .. i - 1 : g[k] = f[k] /\ k # i OBVIOUS
  <2>8. g[i] = v BY <2>2
  <2>9. g[0] = a BY <2>1, <2>7, <2>2
  <2>10. ASSUME NEW k \in 1 .. i PROVE g[k] = h[<<k, g[k - 1]>>]
    <3>1. k - 1 \in 0 .. i - 1 BY <2>2
    <3>2. g[k - 1] = f[k - 1] BY <3>1, <2>7
    <3>3. CASE k = i BY <3>2, <3>3, <2>8 DEF v
    <3>4. CASE k # i
      <4>1. k \in 1 .. i - 1 /\ k \in 0 .. i - 1 BY <3>4, <2>2
      <4>2. g[k] = f[k] BY <4>1, <2>7
      <4>3. f[k] = h[<<k, f[k - 1]>>] BY <4>1, <2>1
      <4>4. QED BY <4>2, <4>3, <3>2
    <3>5. QED BY <3>3, <3>4
  <2> HIDE DEF g
  <2>11. runs(g, i) BY <2>6, <2>9, <2>10
  <2> HIDE DEF runs
  <2>12. QED BY <2>11, <2>2
<1>3. n \in S
  <2> HIDE DEF S
  <2>1. 0 .. n \subseteq S BY <1>1, <1>2, UpTo
  <2>2. n \in 0 .. n OBVIOUS
  <2>3. QED BY <2>1, <2>2
<1>4. PICK g : runs(g, n)
  <2> HIDE DEF runs
  <2>1. QED BY <1>3
<1>5. QED BY <1>4 DEF LoopRuns

\* The value of b at p depends on the values at arguments of a smaller rank.
Local(Dom, F, rank, b) ==
    \A f \in F : \A g \in F : \A p \in Dom :
        (\A q \in Dom : rank[q] < rank[p] => f[q] = g[q]) => b[f][p] = b[g][p]

Ranked(Dom, n, rank) == rank \in [Dom -> Nat] /\ \A p \in Dom : rank[p] < n

\* A recursive function has a solution among the functions F, which its
\* equation (b) maps into themselves, when the value at p only depends on the
\* values at arguments of a smaller rank, and the ranks are bounded.
LEMMA Recursion ==
    ASSUME NEW Dom, NEW F, NEW f0 \in F, NEW b, \A f \in F : b[f] \in F,
           NEW n \in Nat, NEW rank, Ranked(Dom, n, rank), Local(Dom, F, rank, b)
    PROVE  \E f \in F : \A p \in Dom : f[p] = b[f][p]
<1>0. /\ rank \in [Dom -> Nat] /\ \A p \in Dom : rank[p] < n
      /\ \A f \in F : \A g \in F : \A p \in Dom :
            (\A q \in Dom : rank[q] < rank[p] => f[q] = g[q]) => b[f][p] = b[g][p]
  BY DEF Ranked, Local
<1> DEFINE good(f, m) == f \in F /\ \A p \in Dom : rank[p] < m => f[p] = b[f][p]
           S == {m \in Nat : \E f : good(f, m)}
<1>1. 0 \in S
  <2>1. good(f0, 0) BY <1>0
  <2> HIDE DEF good
  <2>2. QED BY <2>1
<1>2. ASSUME NEW m \in Nat, m \in S PROVE m + 1 \in S
  <2>1. PICK f : good(f, m)
    <3> HIDE DEF good
    <3>1. QED BY <1>2
  <2>2. b[f] \in F BY <2>1
  <2>3. ASSUME NEW p \in Dom, rank[p] < m + 1 PROVE b[f][p] = b[b[f]][p]
    <3>1. ASSUME NEW q \in Dom, rank[q] < rank[p] PROVE f[q] = b[f][q]
      <4>1. rank[q] < m BY <2>3, <3>1, <1>0
      <4>2. QED BY <2>1, <4>1
    <3>2. f \in F BY <2>1
    <3>3. QED BY <2>2, <3>1, <3>2, <1>0
  <2>4. good(b[f], m + 1) BY <2>2, <2>3
  <2> HIDE DEF good
  <2>5. QED BY <2>4
<1>3. n \in S
  <2> HIDE DEF S
  <2>1. QED BY <1>1, <1>2, SetInduction
<1>4. PICK f : good(f, n)
  <2> HIDE DEF good
  <2>1. QED BY <1>3
<1>5. QED BY <1>4, <1>0

-----------------------------------------------------------------------------
(* The registry.  What the key has left is at least what the heartbeats a   *)
(* live process missed have not used up (Heard), and together with the time *)
(* since the last process ended never more than the time to live (Dying).   *)

EntriesTyped ==
    /\ left \in 0 .. Ttl
    /\ proc \in [Procs -> {"new", "up", "leaving", "down"}]
    /\ due \in [Procs -> 0 .. Interval]
    /\ missed \in [Procs -> 0 .. 3]
    /\ since \in [Procs -> 0 .. Ttl]
    /\ DOMAIN copy = Procs

\* The key holds at most one entry, and has time left while it does.
OneEntry == IF left = 0 THEN key = {} ELSE \E e : key = {e}

\* A copy is held only between the two commands of a heartbeat.
CopiesHeld == \A p \in Procs : copy[p] # {} => /\ Entries!Alive(p) /\ due[p] = 0
                                           /\ \E e : copy[p] = {e}

\* The time that may pass until the next heartbeat after m failed ones.
Span(m) == IF m = 0 THEN Interval ELSE IF m = 1 THEN 2 * Interval ELSE 3 * Interval

Heard ==
    key # {} => \A p \in Procs :
        proc[p] = "up" /\ missed[p] < 3 => left >= Ttl - Span(missed[p]) + due[p]

\* Once the key has expired nothing writes it again but a registration.
Expired ==
    cause = "expired" => /\ key = {} /\ \A p \in Procs : copy[p] = {}
                         /\ \A p \in Procs : proc[p] = "up" => missed[p] = 3

Dying ==
    /\ \A p \in Procs : proc[p] # "down" => since[p] = 0
    /\ key # {} => \E p \in Procs : \/ Entries!Alive(p)
                                    \/ proc[p] = "down" /\ left + since[p] <= Ttl

EntriesInv == EntriesTyped /\ OneEntry /\ CopiesHeld /\ Heard /\ Expired /\ Dying

-----------------------------------------------------------------------------
LEMMA EntriesStart == ASSUME Entries!Timing, Entries!Init PROVE EntriesInv
<1>1. EntriesTyped /\ OneEntry /\ CopiesHeld
  BY DEF Entries!Timing, Entries!Init, EntriesTyped, OneEntry, CopiesHeld
<1>2. Heard /\ Expired /\ Dying
  BY DEF Entries!Init, Heard, Expired, Dying
<1>3. QED BY <1>1, <1>2 DEF EntriesInv

\* What one step does to each part of the invariant.
LEMMA EntryRegisters ==
    ASSUME Entries!Timing, EntriesInv, NEW p \in Procs, Entries!register(p) PROVE EntriesInv'
<1> USE DEF EntriesInv, Entries!register, Entries!Put, Entries!Lifetime
<1>1. EntriesTyped' BY DEF EntriesTyped, Entries!Timing
<1>2. OneEntry'
  <2>1. left' # 0 BY DEF Entries!Timing
  <2>2. QED BY <2>1, Zenon DEF OneEntry
<1>3. CopiesHeld' BY DEF EntriesTyped, CopiesHeld, Entries!Alive
<1>4. Heard' BY DEF EntriesTyped, Entries!Timing, Heard, Span
<1>5. Expired' BY DEF Expired
<1>6. Dying' BY DEF EntriesTyped, Dying, Entries!Alive
<1>7. QED BY <1>1, <1>2, <1>3, <1>4, <1>5, <1>6

LEMMA HeartbeatReading ==
    ASSUME Entries!Timing, EntriesInv, NEW p \in Procs, Entries!HeartbeatReads(p) PROVE EntriesInv'
<1> USE DEF EntriesInv, Entries!HeartbeatReads
<1>1. EntriesTyped' BY DEF EntriesTyped, Entries!Timing
<1>2. OneEntry' BY DEF OneEntry
<1>3. CopiesHeld'
  <2>1. CASE key # {} /\ copy' = [copy EXCEPT ![p] = key] /\ UNCHANGED due
    <3>1. \E e : key = {e} BY <2>1 DEF OneEntry
    <3>2. QED BY <2>1, <3>1 DEF EntriesTyped, CopiesHeld, Entries!Alive
  <2>2. CASE key = {} /\ due' = [due EXCEPT ![p] = Interval] /\ UNCHANGED copy
    BY <2>2 DEF EntriesTyped, CopiesHeld, Entries!Alive
  <2>3. QED BY <2>1, <2>2
<1>4. Heard' BY DEF EntriesTyped, Entries!Timing, Heard, Span
<1>5. Expired' BY DEF EntriesTyped, Expired
<1>6. Dying' BY DEF EntriesTyped, Dying, Entries!Alive
<1>7. QED BY <1>1, <1>2, <1>3, <1>4, <1>5, <1>6

\* The entry is written for its full time to live, whoever's it is.
LEMMA HeartbeatWriting ==
    ASSUME Entries!Timing, EntriesInv, NEW p \in Procs, Entries!HeartbeatWrites(p) PROVE EntriesInv'
<1> USE DEF EntriesInv
<1>1. PICK e : key' = {Entries!Beaten(e)} /\ left' = Ttl
  BY DEF Entries!HeartbeatWrites, Entries!Put, Entries!Lifetime
<1> USE DEF Entries!HeartbeatWrites
<1>2. EntriesTyped' BY <1>1 DEF EntriesTyped, Entries!Timing
<1>3. OneEntry'
  <2>1. left' # 0 BY <1>1 DEF Entries!Timing
  <2>2. QED BY <1>1, <2>1, Zenon DEF OneEntry
<1>4. CopiesHeld' BY DEF EntriesTyped, CopiesHeld, Entries!Alive
<1>5. Heard' BY <1>1, <1>2 DEF EntriesTyped, Entries!Timing, Heard, Span
<1>6. Expired' BY DEF Expired
<1>7. Dying'
  <2>1. Entries!Alive(p) /\ Entries!Alive(p)' BY DEF CopiesHeld, Entries!Alive
  <2>2. QED BY <2>1 DEF Dying
<1>8. QED BY <1>2, <1>3, <1>4, <1>5, <1>6, <1>7

LEMMA HeartbeatMissing ==
    ASSUME Entries!Timing, EntriesInv, NEW p \in Procs, Entries!HeartbeatFails(p) PROVE EntriesInv'
<1> USE DEF EntriesInv, Entries!HeartbeatFails
<1>1. EntriesTyped' BY DEF EntriesTyped, Entries!Timing
<1>2. OneEntry' BY DEF OneEntry
<1>3. CopiesHeld' BY DEF EntriesTyped, CopiesHeld, Entries!Alive
<1>4. Heard' BY DEF EntriesTyped, Entries!Timing, Heard, Span
<1>5. Expired' BY DEF EntriesTyped, Expired
<1>6. Dying' BY DEF EntriesTyped, Dying, Entries!Alive
<1>7. QED BY <1>1, <1>2, <1>3, <1>4, <1>5, <1>6

LEMMA EntryLeaves ==
    ASSUME Entries!Timing, EntriesInv, NEW p \in Procs, Entries!deregister(p) PROVE EntriesInv'
<1> USE DEF EntriesInv, Entries!deregister
<1>1. EntriesTyped' BY DEF EntriesTyped, Entries!Timing
<1>2. OneEntry' BY DEF OneEntry
<1>3. CopiesHeld' BY DEF EntriesTyped, CopiesHeld, Entries!Alive
<1>4. Heard' /\ Expired' BY DEF Heard, Expired
<1>5. Dying' BY DEF EntriesTyped, Dying
<1>6. QED BY <1>1, <1>2, <1>3, <1>4, <1>5

LEMMA ProcessEnds ==
    ASSUME Entries!Timing, EntriesInv, NEW p \in Procs, Entries!Ends(p) PROVE EntriesInv'
<1> USE DEF EntriesInv, Entries!Ends
<1>1. EntriesTyped' BY DEF EntriesTyped
<1>2. OneEntry' BY DEF OneEntry
<1>3. CopiesHeld' BY DEF EntriesTyped, CopiesHeld, Entries!Alive
<1>4. Heard' BY DEF EntriesTyped, Heard, Span
<1>5. Expired' BY DEF EntriesTyped, Expired
<1>6. Dying'
  <2>1. proc'[p] = "down" /\ since'[p] = 0 /\ left' + 0 <= Ttl
    BY DEF EntriesTyped, Dying, Entries!Alive, Entries!Timing
  <2>2. QED BY <2>1 DEF EntriesTyped, Dying
<1>7. QED BY <1>1, <1>2, <1>3, <1>4, <1>5, <1>6

LEMMA TimePasses ==
    ASSUME Entries!Timing, EntriesInv, Entries!Tick
    PROVE  EntriesInv'
<1> USE DEF EntriesInv, Entries!Tick
<1>1. EntriesTyped'
  <2>1. left' \in 0 .. Ttl BY DEF EntriesTyped, Entries!Timing
  <2>2. due' \in [Procs -> 0 .. Interval] BY DEF EntriesTyped, Entries!Timing, Entries!Alive
  <2>3. since' \in [Procs -> 0 .. Ttl] BY DEF EntriesTyped, Entries!Timing
  <2>4. QED BY <2>1, <2>2, <2>3 DEF EntriesTyped
<1>2. OneEntry' BY DEF EntriesTyped, OneEntry
<1>3. CopiesHeld' BY DEF CopiesHeld
<1>4. Heard' BY DEF EntriesTyped, Entries!Timing, Heard, Span, Entries!Alive, OneEntry
<1>5. Expired'
  <2>1. CASE left = 1
    <3>1. key # {} BY <2>1 DEF OneEntry
    <3>2. ASSUME NEW p \in Procs, proc[p] = "up", missed[p] < 3 PROVE FALSE
      BY <2>1, <3>1, <3>2 DEF EntriesTyped, Entries!Timing, Heard, Span, Entries!Alive
    <3>3. QED BY <2>1, <3>2 DEF EntriesTyped, Expired
  <2>2. CASE left # 1
    BY <2>2 DEF Expired
  <2>3. QED BY <2>1, <2>2
<1>6. Dying'
  <2>1. \A p \in Procs : proc'[p] # "down" => since'[p] = 0
    BY DEF EntriesTyped, Dying
  <2>2. ASSUME key' # {}
        PROVE  \E p \in Procs : \/ Entries!Alive(p)'
                                \/ proc'[p] = "down" /\ left' + since'[p] <= Ttl
    <3>1. key # {} /\ left > 0 /\ left' = left - 1
      BY <2>2 DEF EntriesTyped, OneEntry
    <3>2. PICK p \in Procs : \/ Entries!Alive(p)
                             \/ proc[p] = "down" /\ left + since[p] <= Ttl
      BY <3>1 DEF Dying
    <3>3. CASE Entries!Alive(p) BY <3>3 DEF Entries!Alive
    <3>4. CASE proc[p] = "down" /\ left + since[p] <= Ttl
      BY <3>1, <3>4 DEF EntriesTyped, Entries!Timing
    <3>5. QED BY <3>2, <3>3, <3>4
  <2>3. QED BY <2>1, <2>2 DEF Dying
<1>7. QED BY <1>1, <1>2, <1>3, <1>4, <1>5, <1>6

LEMMA EntriesKept ==
    ASSUME Entries!Timing, EntriesInv, [Entries!Next]_(Entries!vars)
    PROVE  EntriesInv'
<1>1. CASE UNCHANGED Entries!vars
  BY <1>1 DEF Entries!vars, EntriesInv, EntriesTyped, OneEntry, CopiesHeld, Heard, Expired, Dying, Entries!Alive, Span
<1>2. CASE Entries!Next
  BY <1>2, EntryRegisters, EntryLeaves, ProcessEnds, HeartbeatReading, HeartbeatWriting, HeartbeatMissing, TimePasses DEF Entries!Next
<1>3. QED BY <1>1, <1>2

LEMMA EntriesFacts ==
    ASSUME Entries!Timing, EntriesInv
    PROVE  Entries!TypeOK /\ Entries!EntriesDieOut /\ Entries!ExpiryMeansThreeMissed
<1>1. Entries!EntriesDieOut
  BY DEF EntriesInv, EntriesTyped, OneEntry, Dying, Entries!EntriesDieOut, Entries!Timing
<1>2. Entries!ExpiryMeansThreeMissed
  BY DEF EntriesInv, EntriesTyped, Expired, Entries!ExpiryMeansThreeMissed
<1>3. Entries!Cardinality(key) <= 1
  <2>1. CASE key = {} BY <2>1, FS_EmptySet, EntriesCardinality
  <2>2. CASE \E e : key = {e}
    <3>1. PICK e : key = {e} BY <2>2
    <3>2. Cardinality({e}) = 1 BY FS_Singleton
    <3>3. QED BY <3>1, <3>2, EntriesCardinality
  <2>3. QED BY <2>1, <2>2 DEF EntriesInv, OneEntry
<1>4. Entries!TypeOK
  BY <1>3 DEF EntriesInv, EntriesTyped, OneEntry, Entries!TypeOK
<1>5. QED BY <1>1, <1>2, <1>4

-----------------------------------------------------------------------------
(* The migrations.  Each start has executed, or has read as recorded, all   *)
(* it has passed (Passed); what is recorded was executed (RowsExecuted); and    *)
(* what was executed without an excuse is recorded or about to be           *)
(* (Accounted), so that whoever executes it again has been overtaken.       *)

Conns == {Schema!Default} \cup Others
Latest == Schema!Cardinality(Versions)

RunnerRec == [pc : {"idle", "read", "apply", "record", "migrated", "failed"},
              at : DOMAIN Schema!ordered, next : 1 .. Latest + 1, applied : SUBSET Versions,
              ok : BOOLEAN]

SchemaTyped ==
    /\ executed \in [Conns -> Seq(Versions)]
    /\ record \in [Conns -> SUBSET (Versions \X BOOLEAN)]
    /\ runner \in [Runs -> RunnerRec]

CompleteOn(c) == \A v \in Schema!Simple : Schema!Executed(c, v)

\* What a start has behind it.
Passed(r) ==
    LET q == runner[r] IN
    /\ \A i \in DOMAIN Schema!ordered : i < q.at => CompleteOn(Schema!ordered[i])
    /\ q.pc \in {"apply", "record"} =>
          /\ \A v \in Schema!Simple : v < q.next => Schema!Executed(Schema!Conn(r), v)
          /\ \A v \in q.applied : Schema!Executed(Schema!Conn(r), v)
    /\ q.pc = "record" => q.next \in Versions /\ (q.ok => Schema!Executed(Schema!Conn(r), q.next))
    /\ q.pc = "migrated" => \A c \in Conns : CompleteOn(c)

RowsExecuted == \A c \in Conns : \A v \in Versions : <<v, TRUE>> \in record[c] => Schema!Executed(c, v)

Recording(r, c, v) ==
    runner[r].pc = "record" /\ runner[r].ok /\ Schema!Conn(r) = c /\ runner[r].next = v

Accounted ==
    \A c \in Conns : \A v \in Versions : Schema!Executed(c, v) =>
        \/ <<c, v>> \in excuse
        \/ <<v, TRUE>> \in record[c]
        \/ \E r \in Runs : Recording(r, c, v)

Once ==
    \A c \in Conns : \A i, j \in DOMAIN executed[c] :
        i # j /\ executed[c][i] = executed[c][j] => <<c, executed[c][i]>> \in excuse

SchemaInv ==
    /\ SchemaTyped /\ (\A r \in Runs : Passed(r)) /\ RowsExecuted /\ Accounted /\ Once /\ Schema!OrderKept

-----------------------------------------------------------------------------
LEMMA Connected ==
    ASSUME Schema!Walk, SchemaTyped, NEW r \in Runs PROVE Schema!Conn(r) \in Conns /\ runner[r] \in RunnerRec
BY DEF Schema!Walk, SchemaTyped, RunnerRec, Schema!Conn, Conns

LEMMA AppliedIsRecorded ==
    ASSUME SchemaTyped, NEW c \in Conns, NEW v
    PROVE  v \in Schema!Applied(c) <=> v \in Versions /\ <<v, TRUE>> \in record[c]
<1>1. record[c] \subseteq Versions \X BOOLEAN
  BY DEF SchemaTyped
<1>2. ASSUME v \in Schema!Applied(c) PROVE v \in Versions /\ <<v, TRUE>> \in record[c]
  <2>1. PICK x \in record[c] : x[2] /\ v = x[1]
    BY <1>2 DEF Schema!Applied
  <2>2. PICK a \in Versions, b \in BOOLEAN : x = <<a, b>>
    BY <1>1
  <2>3. x[1] = a /\ x[2] = b
    BY <2>2
  <2>4. QED BY <2>1, <2>2, <2>3
<1>3. ASSUME <<v, TRUE>> \in record[c] PROVE v \in Schema!Applied(c)
  <2>1. <<v, TRUE>>[1] = v /\ <<v, TRUE>>[2] = TRUE
    OBVIOUS
  <2>2. <<v, TRUE>> \in {x \in record[c] : x[2]}
    BY <1>3, <2>1
  <2>3. QED BY <2>1, <2>2 DEF Schema!Applied
<1>4. QED BY <1>2, <1>3

LEMMA SchemaStarts ==
    ASSUME Schema!Numbered, Schema!Walk, Schema!Init
    PROVE  SchemaInv
<1> USE DEF Schema!Init
<1>1. SchemaTyped
  BY DEF Schema!Numbered, Schema!Walk, SchemaTyped, RunnerRec, Conns, Latest
<1>2. \A r \in Runs : Passed(r)
  BY DEF Schema!Walk, Passed
<1>3. \A c \in Conns : DOMAIN executed[c] = {} /\ record[c] = {} /\ executed[c] = <<>>
  BY DEF Conns
<1>4. RowsExecuted /\ Accounted /\ Once
  BY <1>3 DEF RowsExecuted, Accounted, Once, Schema!Executed
<1>5. Schema!OrderKept
  BY <1>3 DEF Schema!OrderKept, Conns
<1>6. QED BY <1>1, <1>2, <1>4, <1>5 DEF SchemaInv

\* What other starts have behind them stays behind them.
LEMMA OthersPassed ==
    ASSUME SchemaTyped, NEW r \in Runs, Passed(r), UNCHANGED runner[r],
           \A c \in Conns : \A v : Schema!Executed(c, v) => Schema!Executed(c, v)',
           Schema!Walk
    PROVE  Passed(r)'
<1>1. Schema!Conn(r)' = Schema!Conn(r) /\ Schema!Conn(r) \in Conns
  BY Connected DEF Schema!Conn
<1>2. \A c \in Conns : CompleteOn(c) => CompleteOn(c)'
  BY DEF CompleteOn
<1>3. \A i \in DOMAIN Schema!ordered : Schema!ordered[i] \in Conns
  BY DEF Schema!Walk, Conns
<1>4. QED BY <1>1, <1>2, <1>3 DEF Passed

\* Steps that touch neither database nor excuses.
LEMMA Walking ==
    ASSUME Schema!Numbered, Schema!Walk, SchemaInv, NEW r \in Runs,
           Schema!Start(r) \/ Schema!Read(r) \/ Schema!Skip(r) \/ Schema!NextConnection(r)
    PROVE  SchemaInv'
<1> DEFINE q == runner[r]
<1>0. q \in RunnerRec /\ Schema!Conn(r) \in Conns /\ SchemaTyped /\ Passed(r)
  BY Connected DEF SchemaInv
<1>1. UNCHANGED <<executed, record, excuse>>
  BY DEF Schema!Start, Schema!Read, Schema!Skip, Schema!NextConnection
<1>2. PICK f : Schema!Set(r, f) /\ f \in RunnerRec /\ q.pc # "record" /\ f.pc # "record"
  <2>1. CASE Schema!Start(r) BY <2>1, <1>0 DEF Schema!Start, RunnerRec
  <2>2. CASE Schema!Read(r)
    <3>1. Schema!Applied(Schema!Conn(r)) \subseteq Versions BY <1>0, AppliedIsRecorded
    <3>2. [q EXCEPT !.pc = "apply", !.next = 1, !.applied = Schema!Applied(Schema!Conn(r))] \in RunnerRec
      <4>1. 1 \in 1 .. Latest + 1 BY DEF Latest, Schema!Numbered
      <4>2. \A A \in SUBSET Versions :
               [q EXCEPT !.pc = "apply", !.next = 1, !.applied = A] \in RunnerRec
        BY <4>1, <1>0 DEF RunnerRec
      <4>3. QED BY <4>2, <3>1
    <3>3. QED BY <2>2, <1>0, <3>2 DEF Schema!Read, RunnerRec
  <2>3. CASE Schema!Skip(r) BY <2>3, <1>0 DEF Schema!Skip, RunnerRec, Latest, Schema!Numbered
  <2>4. CASE Schema!NextConnection(r)
    <3>1. CASE q.at < Len(Schema!ordered)
      <4>1. q.at + 1 \in DOMAIN Schema!ordered BY <3>1, <1>0 DEF Schema!Walk, RunnerRec
      <4>2. [q EXCEPT !.pc = "read", !.at = @ + 1] \in RunnerRec BY <4>1, <1>0 DEF RunnerRec
      <4>3. QED BY <2>4, <3>1, <4>2, <1>0 DEF Schema!NextConnection, RunnerRec
    <3>2. CASE ~(q.at < Len(Schema!ordered))
      BY <2>4, <3>2, <1>0 DEF Schema!NextConnection, RunnerRec
    <3>3. QED BY <3>1, <3>2
  <2>5. QED BY <2>1, <2>2, <2>3, <2>4
<1>3. runner' = [runner EXCEPT ![r] = f] /\ runner'[r] = f
  BY <1>2 DEF Schema!Set, SchemaInv, SchemaTyped
<1>4. SchemaTyped'
  BY <1>1, <1>2, <1>3 DEF SchemaInv, SchemaTyped
<1>5. \A c, v : Schema!Executed(c, v)' <=> Schema!Executed(c, v)
  BY <1>1 DEF Schema!Executed
<1>6. ASSUME NEW s \in Runs PROVE Passed(s)'
  <2>1. CASE s # r
    BY <2>1, <1>3, <1>5, <1>6, OthersPassed DEF SchemaInv, SchemaTyped
  <2>2. CASE s = r
    <3>1. CASE Schema!Start(r)
      BY <2>2, <3>1, <1>0, <1>1, <1>3 DEF Schema!Start, Schema!Set, Passed, RunnerRec, CompleteOn, Schema!Executed,
         SchemaInv, SchemaTyped
    <3>2. CASE Schema!Read(r)
      <4>1. runner'[r] = [q EXCEPT !.pc = "apply", !.next = 1, !.applied = Schema!Applied(Schema!Conn(r))]
        BY <3>2, <1>0 DEF Schema!Read, Schema!Set, SchemaInv, SchemaTyped
      <4>2. /\ runner'[r].pc = "apply" /\ runner'[r].next = 1 /\ runner'[r].at = q.at
            /\ runner'[r].applied = Schema!Applied(Schema!Conn(r))
        BY <4>1, <1>0 DEF RunnerRec
      <4>3. Schema!Conn(r)' = Schema!Conn(r)
        BY <4>2 DEF Schema!Conn
      <4>4. \A v \in Schema!Applied(Schema!Conn(r)) : Schema!Executed(Schema!Conn(r), v)
        BY <1>0, AppliedIsRecorded DEF SchemaInv, RowsExecuted
      <4>5. \A v \in Schema!Simple : ~(v < 1)
        BY DEF Schema!Numbered, Schema!Simple
      <4>6. \A i \in DOMAIN Schema!ordered : i < q.at => CompleteOn(Schema!ordered[i])'
        BY <1>0, <1>5 DEF Passed, CompleteOn
      <4>7. QED BY <2>2, <4>2, <4>3, <4>4, <4>5, <4>6, <1>5 DEF Passed
    <3>3. CASE Schema!Skip(r)
      <4>1. /\ runner'[r] = [q EXCEPT !.next = @ + 1] /\ q.pc = "apply"
            /\ q.next \in q.applied \cup Skipped
        BY <3>3, <1>0 DEF Schema!Skip, Schema!Set, SchemaInv, SchemaTyped
      <4>2. /\ runner'[r].pc = "apply" /\ runner'[r].next = q.next + 1
            /\ runner'[r].at = q.at /\ runner'[r].applied = q.applied
        BY <4>1, <1>0 DEF RunnerRec
      <4>3. Schema!Conn(r)' = Schema!Conn(r)
        BY <4>2 DEF Schema!Conn
      <4>4. \A v \in Schema!Simple : v < q.next + 1 => Schema!Executed(Schema!Conn(r), v)
        <5> SUFFICES ASSUME NEW v \in Schema!Simple, v < q.next + 1 PROVE Schema!Executed(Schema!Conn(r), v)
          OBVIOUS
        <5>1. v = q.next \/ v < q.next
          BY <1>0 DEF Schema!Simple, Schema!Numbered, RunnerRec, Latest
        <5>2. QED BY <5>1, <4>1, <1>0 DEF Passed, Schema!Simple
      <4>5. \A i \in DOMAIN Schema!ordered : i < q.at => CompleteOn(Schema!ordered[i])'
        BY <1>0, <1>5 DEF Passed, CompleteOn
      <4>6. QED BY <2>2, <4>1, <4>2, <4>3, <4>4, <4>5, <1>0, <1>5 DEF Passed
    <3>4. CASE Schema!NextConnection(r)
      <4>1. q.pc = "apply" /\ \A v \in Schema!Simple : v < q.next
        BY <3>4, <1>0 DEF Schema!NextConnection, RunnerRec, Schema!Numbered, Schema!Simple, Latest
      <4>2. CompleteOn(Schema!ordered[q.at])
        BY <4>1, <1>0 DEF Passed, CompleteOn, Schema!Conn
      <4>3. \A i \in DOMAIN Schema!ordered : i < q.at + 1 => CompleteOn(Schema!ordered[i])'
        BY <4>2, <1>0, <1>5 DEF Passed, CompleteOn, RunnerRec, Schema!Walk
      <4>4. CASE q.at < Len(Schema!ordered)
        <5>1. runner'[r] = [q EXCEPT !.pc = "read", !.at = @ + 1]
          BY <3>4, <4>4, <1>0 DEF Schema!NextConnection, Schema!Set, SchemaInv, SchemaTyped
        <5>2. runner'[r].pc = "read" /\ runner'[r].at = q.at + 1
          BY <5>1, <1>0 DEF RunnerRec
        <5>3. QED BY <2>2, <5>2, <4>3 DEF Passed
      <4>5. CASE ~(q.at < Len(Schema!ordered))
        <5>1. runner'[r] = [q EXCEPT !.pc = "migrated"]
          BY <3>4, <4>5, <1>0 DEF Schema!NextConnection, Schema!Set, SchemaInv, SchemaTyped
        <5>2. runner'[r].pc = "migrated" /\ runner'[r].at = q.at
          BY <5>1, <1>0 DEF RunnerRec
        <5>3. \A i \in DOMAIN Schema!ordered : CompleteOn(Schema!ordered[i])' /\ i < q.at + 1
          BY <4>3, <4>5, <1>0 DEF Schema!Walk, RunnerRec
        <5>4. \A c \in Conns : CompleteOn(c)'
          BY <5>3 DEF Schema!Walk, Conns
        <5>5. QED BY <2>2, <5>2, <5>3, <5>4 DEF Passed
      <4>6. QED BY <4>4, <4>5
    <3>5. QED BY <3>1, <3>2, <3>3, <3>4
  <2>3. QED BY <2>1, <2>2
<1>7. RowsExecuted' /\ Once' /\ Schema!OrderKept'
  <2>1. RowsExecuted' BY <1>1, <1>5 DEF SchemaInv, RowsExecuted
  <2>2. Once' BY <1>1 DEF SchemaInv, Once
  <2>3. Schema!OrderKept' BY <1>1, <1>5 DEF SchemaInv, Schema!OrderKept
  <2>4. QED BY <2>1, <2>2, <2>3
<1>8. Accounted'
  <2>1. ASSUME NEW s \in Runs, NEW c, NEW v, Recording(s, c, v) PROVE Recording(s, c, v)'
    BY <2>1, <1>2, <1>3 DEF Recording, Schema!Conn, SchemaInv, SchemaTyped
  <2>2. QED BY <2>1, <1>1, <1>5 DEF SchemaInv, Accounted
<1>9. QED BY <1>4, <1>6, <1>7, <1>8 DEF SchemaInv

\* The statement is appended to what its connection has executed, or it fails.
LEMMA Executing ==
    ASSUME Schema!Numbered, Schema!Walk, SchemaInv, NEW r \in Runs, Schema!Execute(r)
    PROVE  SchemaInv'
<1> DEFINE q == runner[r]
           d == Schema!Conn(r)
<1>0. q \in RunnerRec /\ d \in Conns /\ SchemaTyped /\ Passed(r)
  BY Connected DEF SchemaInv
<1>1. /\ q.pc = "apply" /\ q.next \in Schema!Simple /\ q.next \in Versions /\ q.next \notin q.applied
      /\ UNCHANGED record
  BY DEF Schema!Execute, Schema!Simple
<1>2. PICK ok \in BOOLEAN :
        /\ runner' = [runner EXCEPT ![r] = [q EXCEPT !.pc = "record", !.ok = ok]]
        /\ IF ok THEN /\ executed' = [executed EXCEPT ![d] = Append(@, q.next)]
                      /\ excuse' = excuse \cup IF Schema!Overtaken(r) THEN {<<d, q.next>>} ELSE {}
           ELSE UNCHANGED <<executed, excuse>>
  BY DEF Schema!Execute, Schema!Set
<1>3. /\ runner'[r] \in RunnerRec /\ runner'[r].pc = "record" /\ runner'[r].ok = ok
      /\ runner'[r].next = q.next /\ runner'[r].at = q.at /\ runner'[r].applied = q.applied
      /\ \A s \in Runs : s # r => runner'[s] = runner[s]
  BY <1>0, <1>2 DEF SchemaTyped, RunnerRec
<1>4. Schema!Conn(r)' = d
  BY <1>3 DEF Schema!Conn
<1>5. SchemaTyped'
  <2>1. executed' \in [Conns -> Seq(Versions)]
    <3>1. CASE ok
      <4>1. Append(executed[d], q.next) \in Seq(Versions) BY <1>0, <1>1 DEF SchemaTyped
      <4>2. QED BY <3>1, <4>1, <1>2, <1>0 DEF SchemaTyped
    <3>2. CASE ~ok BY <3>2, <1>2, <1>0 DEF SchemaTyped
    <3>3. QED BY <3>1, <3>2
  <2>2. QED BY <2>1, <1>0, <1>1, <1>2, <1>3 DEF SchemaTyped
\* What each connection has executed afterwards, position by position.
<1>6. \A c \in Conns : \A i \in DOMAIN executed[c] : i \in DOMAIN executed'[c] /\ executed'[c][i] = executed[c][i]
  <2>1. CASE ok
    <3> SUFFICES ASSUME NEW c \in Conns, NEW i \in DOMAIN executed[c]
                 PROVE  i \in DOMAIN executed'[c] /\ executed'[c][i] = executed[c][i]
      OBVIOUS
    <3>1. CASE c = d
      <4>1. executed'[c] = Append(executed[d], q.next) /\ executed[d] \in Seq(Versions)
        BY <2>1, <3>1, <1>2, <1>0 DEF SchemaTyped
      <4>2. QED BY <4>1, <3>1
    <3>2. CASE c # d BY <2>1, <3>2, <1>2, <1>0 DEF SchemaTyped
    <3>3. QED BY <3>1, <3>2
  <2>2. CASE ~ok BY <2>2, <1>2
  <2>3. QED BY <2>1, <2>2
<1>7. \A c \in Conns : \A i \in DOMAIN executed'[c] :
          \/ i \in DOMAIN executed[c]
          \/ /\ ok /\ c = d /\ i = Len(executed[d]) + 1 /\ executed'[c][i] = q.next
             /\ \A j \in DOMAIN executed[c] : j \in 1 .. i - 1
  <2>1. CASE ok
    <3> SUFFICES ASSUME NEW c \in Conns, NEW i \in DOMAIN executed'[c], i \notin DOMAIN executed[c]
                 PROVE  /\ c = d /\ i = Len(executed[d]) + 1 /\ executed'[c][i] = q.next
                        /\ \A j \in DOMAIN executed[c] : j \in 1 .. i - 1
      BY <2>1
    <3>1. c = d BY <2>1, <1>2, <1>0 DEF SchemaTyped
    <3>2. executed'[c] = Append(executed[d], q.next) /\ executed[d] \in Seq(Versions)
      BY <2>1, <3>1, <1>2, <1>0 DEF SchemaTyped
    <3>3. QED BY <3>1, <3>2
  <2>2. CASE ~ok BY <2>2, <1>2
  <2>3. QED BY <2>1, <2>2
<1>8. \A c \in Conns : \A v : Schema!Executed(c, v) => Schema!Executed(c, v)'
  BY <1>6 DEF Schema!Executed
<1>9. \A c \in Conns : \A v : Schema!Executed(c, v)' => Schema!Executed(c, v) \/ (ok /\ c = d /\ v = q.next)
  BY <1>6, <1>7 DEF Schema!Executed
<1>10. ok => Schema!Executed(d, q.next)'
  <2> SUFFICES ASSUME ok PROVE Schema!Executed(d, q.next)'
    OBVIOUS
  <2>1. executed'[d] = Append(executed[d], q.next) /\ executed[d] \in Seq(Versions)
    BY <1>2, <1>0 DEF SchemaTyped
  <2>2. Len(executed[d]) + 1 \in DOMAIN executed'[d] /\ executed'[d][Len(executed[d]) + 1] = q.next
    BY <2>1
  <2>3. QED BY <2>2, <1>3, <1>4 DEF Schema!Executed
<1>11. ASSUME NEW s \in Runs PROVE Passed(s)'
  <2>1. CASE s # r
    BY <2>1, <1>0, <1>3, <1>8, OthersPassed DEF SchemaInv
  <2>2. CASE s = r
    <3>1. \A i \in DOMAIN Schema!ordered : i < q.at => CompleteOn(Schema!ordered[i])'
      BY <1>0, <1>8 DEF Passed, CompleteOn, Schema!Walk, Conns
    <3>2. /\ \A v \in Schema!Simple : v < q.next => Schema!Executed(d, v)'
          /\ \A v \in q.applied : Schema!Executed(d, v)'
      BY <1>0, <1>1, <1>4, <1>8 DEF Passed
    <3>3. QED BY <2>2, <3>1, <3>2, <1>1, <1>3, <1>4, <1>10 DEF Passed
  <2>3. QED BY <2>1, <2>2
<1>12. RowsExecuted'
  BY <1>1, <1>8 DEF SchemaInv, RowsExecuted
<1>13. \A e \in excuse : e \in excuse'
  BY <1>2
<1>14. Accounted'
  <2> SUFFICES ASSUME NEW c \in Conns, NEW v \in Versions, Schema!Executed(c, v)'
               PROVE  \/ <<c, v>> \in excuse' \/ <<v, TRUE>> \in record'[c]
                      \/ \E s \in Runs : Recording(s, c, v)'
    BY DEF Accounted
  <2>1. CASE ok /\ c = d /\ v = q.next
    <3>1. Recording(r, c, v)' BY <2>1, <1>3, <1>4 DEF Recording
    <3>2. QED BY <3>1
  <2>2. CASE Schema!Executed(c, v)
    <3>1. ASSUME NEW s \in Runs, Recording(s, c, v) PROVE Recording(s, c, v)'
      <4>1. s # r BY <3>1, <1>1 DEF Recording
      <4>2. QED BY <4>1, <3>1, <1>3 DEF Recording, Schema!Conn
    <3>2. QED BY <2>2, <3>1, <1>1, <1>13 DEF SchemaInv, Accounted
  <2>3. QED BY <2>1, <2>2, <1>9
\* A version executed before, whose second execution had no excuse yet, is
\* recorded or about to be: r has been overtaken.
<1>15. ASSUME ok, Schema!Executed(d, q.next) PROVE <<d, q.next>> \in excuse'
  <2>1. CASE <<d, q.next>> \in excuse BY <2>1, <1>13
  <2>2. CASE <<q.next, TRUE>> \in record[d]
    <3>1. q.next \in Schema!Applied(d) BY <2>2, <1>0, <1>1, AppliedIsRecorded
    <3>2. QED BY <3>1, <1>15, <1>2 DEF Schema!Overtaken
  <2>3. CASE \E s \in Runs : Recording(s, d, q.next)
    <3>1. PICK s \in Runs : Recording(s, d, q.next) BY <2>3
    <3>2. s # r BY <3>1, <1>1 DEF Recording
    <3>3. Schema!Overtaken(r) BY <3>1, <3>2 DEF Schema!Overtaken, Recording
    <3>4. QED BY <3>3, <1>15, <1>2
  <2>4. QED BY <2>1, <2>2, <2>3, <1>0, <1>1, <1>15 DEF SchemaInv, Accounted
<1>16. Once'
  <2> SUFFICES ASSUME NEW c \in Conns, NEW i \in DOMAIN executed'[c], NEW j \in DOMAIN executed'[c],
                      i # j, executed'[c][i] = executed'[c][j]
               PROVE  <<c, executed'[c][i]>> \in excuse'
    BY DEF Once
  <2>1. CASE i \in DOMAIN executed[c] /\ j \in DOMAIN executed[c]
    BY <2>1, <1>6, <1>13 DEF SchemaInv, Once
  <2>2. CASE i \in DOMAIN executed[c] /\ j \notin DOMAIN executed[c]
    <3>1. ok /\ c = d /\ executed'[c][j] = q.next BY <2>2, <1>7
    <3>2. Schema!Executed(d, q.next) BY <3>1, <2>2, <1>6 DEF Schema!Executed
    <3>3. QED BY <3>1, <3>2, <1>15
  <2>3. CASE i \notin DOMAIN executed[c] /\ j \in DOMAIN executed[c]
    <3>1. ok /\ c = d /\ executed'[c][i] = q.next BY <2>3, <1>7
    <3>2. Schema!Executed(d, q.next) BY <3>1, <2>3, <1>6 DEF Schema!Executed
    <3>3. QED BY <3>1, <3>2, <1>15
  <2>4. CASE i \notin DOMAIN executed[c] /\ j \notin DOMAIN executed[c]
    BY <2>4, <1>7
  <2>5. QED BY <2>1, <2>2, <2>3, <2>4
<1>17. Schema!OrderKept'
  <2>1. ASSUME NEW c \in Conns, NEW i \in DOMAIN executed'[c], NEW v \in Schema!Simple, v < executed'[c][i]
        PROVE  \E j \in 1 .. i - 1 : executed'[c][j] = v
    <3>1. CASE i \in DOMAIN executed[c]
      <4>0. c \in DOMAIN executed /\ v < executed[c][i]
        BY <3>1, <2>1, <1>0, <1>6 DEF SchemaTyped
      <4>1. PICK j \in 1 .. i - 1 : executed[c][j] = v
        BY <4>0, <3>1 DEF SchemaInv, Schema!OrderKept
      <4>2. j \in DOMAIN executed[c]
        BY <3>1, <1>0 DEF SchemaTyped
      <4>3. QED BY <4>1, <4>2, <1>6
    <3>2. CASE i \notin DOMAIN executed[c]
      <4>1. c = d /\ executed'[c][i] = q.next /\ \A j \in DOMAIN executed[c] : j \in 1 .. i - 1
        BY <3>2, <1>7
      <4>2. PICK j \in DOMAIN executed[c] : executed[c][j] = v
        BY <4>1, <2>1, <1>0, <1>1 DEF Passed, Schema!Executed
      <4>3. QED BY <4>1, <4>2, <1>6
    <3>3. QED BY <3>1, <3>2
  <2>2. ASSUME NEW c \in Others, executed'[c] # <<>>, NEW v \in Schema!Simple PROVE Schema!Executed(Schema!Default, v)'
    <3>1. CASE executed[c] # <<>>
      <4>1. Schema!Executed(Schema!Default, v) BY <3>1 DEF SchemaInv, Schema!OrderKept
      <4>2. QED BY <4>1, <1>8 DEF Conns
    <3>2. CASE executed[c] = <<>>
      <4>1. c = d
        BY <2>2, <3>2, <1>2, <1>0 DEF SchemaTyped, Conns
      <4>2. q.at # 1 /\ q.at \in DOMAIN Schema!ordered
        BY <4>1, <1>0 DEF Schema!Conn, Schema!Walk, RunnerRec
      <4>3. 1 \in DOMAIN Schema!ordered /\ 1 < q.at
        BY <4>2 DEF Schema!Walk
      <4>4. CompleteOn(Schema!Default)
        BY <4>3, <1>0 DEF Passed, Schema!Walk
      <4>5. QED BY <4>4, <1>8 DEF CompleteOn, Conns
    <3>3. QED BY <3>1, <3>2
  <2>3. DOMAIN executed' = Conns BY <1>5 DEF SchemaTyped
  <2>4. QED BY <2>1, <2>2, <2>3 DEF Schema!OrderKept, Schema!Executed
<1>18. QED BY <1>5, <1>11, <1>12, <1>14, <1>16, <1>17 DEF SchemaInv

\* The row of the tracking table, or the excuse for its absence.
LEMMA RecordingIt ==
    ASSUME Schema!Numbered, Schema!Walk, SchemaInv, NEW r \in Runs, Schema!Record(r)
    PROVE  SchemaInv'
<1> DEFINE q == runner[r]
           d == Schema!Conn(r)
<1>0. q \in RunnerRec /\ d \in Conns /\ SchemaTyped /\ Passed(r)
  BY Connected DEF SchemaInv
<1>1. /\ q.pc = "record" /\ q.next \in Versions /\ (q.ok => Schema!Executed(d, q.next))
      /\ UNCHANGED executed /\ runner' = [runner EXCEPT ![r] = Schema!Onwards(q)]
  BY <1>0 DEF Schema!Record, Schema!Set, Passed
<1>2. \/ /\ record' = [record EXCEPT ![d] = @ \cup {<<q.next, q.ok>>}]
         /\ UNCHANGED excuse
      \/ UNCHANGED record /\ excuse' = excuse \cup {<<d, q.next>>}
  BY DEF Schema!Record
<1>3. /\ runner'[r].at = q.at /\ runner'[r].applied = q.applied
      /\ IF q.ok THEN runner'[r].pc = "apply" /\ runner'[r].next = q.next + 1
         ELSE runner'[r].pc = "failed" /\ runner'[r].next = q.next
      /\ \A s \in Runs : s # r => runner'[s] = runner[s]
  BY <1>0, <1>1 DEF SchemaTyped, RunnerRec, Schema!Onwards
<1>4. runner'[r] \in RunnerRec
  <2>1. q.next + 1 \in 1 .. Latest + 1 BY <1>1 DEF Schema!Numbered, Latest
  <2>2. [q EXCEPT !.pc = "apply", !.next = @ + 1] \in RunnerRec
    BY <2>1, <1>0 DEF RunnerRec
  <2>3. [q EXCEPT !.pc = "failed"] \in RunnerRec
    BY <1>0 DEF RunnerRec
  <2>4. Schema!Onwards(q) \in RunnerRec BY <2>2, <2>3 DEF Schema!Onwards
  <2>5. QED BY <2>4, <1>0, <1>1 DEF SchemaTyped
<1>5. SchemaTyped'
  <2>1. record' \in [Conns -> SUBSET (Versions \X BOOLEAN)]
    <3>1. <<q.next, q.ok>> \in Versions \X BOOLEAN BY <1>0, <1>1 DEF RunnerRec
    <3>2. QED BY <3>1, <1>2, <1>0 DEF SchemaTyped
  <2>2. runner' \in [Runs -> RunnerRec]
    BY <1>0, <1>1, <1>3, <1>4 DEF SchemaTyped
  <2>3. QED BY <2>1, <2>2, <1>0, <1>1 DEF SchemaTyped
<1>6. \A c, v : Schema!Executed(c, v)' <=> Schema!Executed(c, v)
  BY <1>1 DEF Schema!Executed
<1>7. ASSUME NEW s \in Runs PROVE Passed(s)'
  <2>1. CASE s # r
    BY <2>1, <1>0, <1>3, <1>6, OthersPassed DEF SchemaInv
  <2>2. CASE s = r
    <3>1. Schema!Conn(r)' = d BY <1>3 DEF Schema!Conn
    <3>2. \A i \in DOMAIN Schema!ordered : i < q.at => CompleteOn(Schema!ordered[i])'
      BY <1>0, <1>6 DEF Passed, CompleteOn
    <3>3. CASE q.ok
      <4>1. \A v \in Schema!Simple : v < q.next + 1 => Schema!Executed(d, v)
        <5> SUFFICES ASSUME NEW v \in Schema!Simple, v < q.next + 1 PROVE Schema!Executed(d, v)
          OBVIOUS
        <5>1. v = q.next \/ v < q.next BY <1>1 DEF Schema!Simple, Schema!Numbered
        <5>2. QED BY <5>1, <3>3, <1>0, <1>1 DEF Passed
      <4>2. \A v \in q.applied : Schema!Executed(d, v) BY <1>0, <1>1 DEF Passed
      <4>3. QED BY <2>2, <3>1, <3>2, <3>3, <4>1, <4>2, <1>3, <1>6 DEF Passed
    <3>4. CASE ~q.ok
      BY <2>2, <3>2, <3>4, <1>3 DEF Passed
    <3>5. QED BY <3>3, <3>4
  <2>3. QED BY <2>1, <2>2
<1>8. \A c \in Conns : \A v : <<v, TRUE>> \in record'[c] =>
          <<v, TRUE>> \in record[c] \/ (c = d /\ v = q.next /\ q.ok)
  <2> SUFFICES ASSUME NEW c \in Conns, NEW v, <<v, TRUE>> \in record'[c],
                      <<v, TRUE>> \notin record[c]
               PROVE  c = d /\ v = q.next /\ q.ok
    OBVIOUS
  <2>1. c = d /\ <<v, TRUE>> = <<q.next, q.ok>>
    BY <1>0, <1>2 DEF SchemaTyped
  <2>2. v = q.next /\ q.ok = TRUE BY <2>1
  <2>3. QED BY <2>1, <2>2
<1>9. \A c \in Conns : record[c] \subseteq record'[c]
  BY <1>0, <1>2 DEF SchemaTyped
<1>10. excuse \subseteq excuse' BY <1>2
<1>11. RowsExecuted'
  BY <1>1, <1>6, <1>8 DEF SchemaInv, RowsExecuted
<1>12. Accounted'
  <2> SUFFICES ASSUME NEW c \in Conns, NEW v \in Versions, Schema!Executed(c, v)
               PROVE  \/ <<c, v>> \in excuse' \/ <<v, TRUE>> \in record'[c]
                      \/ \E s \in Runs : Recording(s, c, v)'
    BY <1>6 DEF Accounted
  <2>1. CASE <<c, v>> \in excuse \/ <<v, TRUE>> \in record[c]
    BY <2>1, <1>9, <1>10
  <2>2. CASE \E s \in Runs : Recording(s, c, v)
    <3>1. PICK s \in Runs : Recording(s, c, v) BY <2>2
    <3>2. CASE s = r
      <4>1. c = d /\ v = q.next /\ q.ok BY <3>1, <3>2 DEF Recording
      <4>2. <<d, q.next>> \in excuse' \/ <<q.next, q.ok>> \in record'[d]
        BY <1>0, <1>2 DEF SchemaTyped
      <4>3. q.ok = TRUE BY <4>1, <1>0 DEF RunnerRec
      <4>4. QED BY <4>1, <4>2, <4>3
    <3>3. CASE s # r
      <4>1. Recording(s, c, v)' BY <3>1, <3>3, <1>3 DEF Recording, Schema!Conn
      <4>2. QED BY <4>1
    <3>4. QED BY <3>2, <3>3
  <2>3. QED BY <2>1, <2>2 DEF SchemaInv, Accounted
<1>13. Once' BY <1>1, <1>10 DEF SchemaInv, Once
<1>14. Schema!OrderKept' BY <1>1, <1>6 DEF SchemaInv, Schema!OrderKept
<1>15. QED BY <1>5, <1>7, <1>11, <1>12, <1>13, <1>14 DEF SchemaInv

\* A statement whose process dies before it is recorded becomes an excuse.
LEMMA Crashing ==
    ASSUME Schema!Numbered, Schema!Walk, SchemaInv, NEW r \in Runs, Schema!Crash(r)
    PROVE  SchemaInv'
<1> DEFINE q == runner[r]
           d == Schema!Conn(r)
<1>0. q \in RunnerRec /\ d \in Conns /\ SchemaTyped /\ Passed(r)
  BY Connected DEF SchemaInv
<1>1. /\ UNCHANGED <<executed, record>> /\ excuse \subseteq excuse'
      /\ q.pc = "record" => <<d, q.next>> \in excuse'
      /\ runner' = [runner EXCEPT ![r] = [q EXCEPT !.pc = "failed"]]
  BY DEF Schema!Crash, Schema!Set
<1>2. /\ runner'[r].at = q.at /\ runner'[r].pc = "failed" /\ runner'[r] \in RunnerRec
      /\ \A s \in Runs : s # r => runner'[s] = runner[s]
  BY <1>0, <1>1 DEF SchemaTyped, RunnerRec
<1>3. SchemaTyped' BY <1>0, <1>1, <1>2 DEF SchemaTyped
<1>4. \A c, v : Schema!Executed(c, v)' <=> Schema!Executed(c, v)
  BY <1>1 DEF Schema!Executed
<1>5. ASSUME NEW s \in Runs PROVE Passed(s)'
  <2>1. CASE s # r
    BY <2>1, <1>0, <1>2, <1>4, OthersPassed DEF SchemaInv
  <2>2. CASE s = r
    <3>1. \A i \in DOMAIN Schema!ordered : i < q.at => CompleteOn(Schema!ordered[i])'
      BY <1>0, <1>4 DEF Passed, CompleteOn
    <3>2. QED BY <2>2, <3>1, <1>2 DEF Passed
  <2>3. QED BY <2>1, <2>2
<1>6. RowsExecuted' BY <1>1, <1>4 DEF SchemaInv, RowsExecuted
<1>7. Accounted'
  <2> SUFFICES ASSUME NEW c \in Conns, NEW v \in Versions, Schema!Executed(c, v)
               PROVE  \/ <<c, v>> \in excuse' \/ <<v, TRUE>> \in record'[c]
                      \/ \E s \in Runs : Recording(s, c, v)'
    BY <1>4 DEF Accounted
  <2>1. CASE <<c, v>> \in excuse \/ <<v, TRUE>> \in record[c]
    BY <2>1, <1>1
  <2>2. CASE \E s \in Runs : Recording(s, c, v)
    <3>1. PICK s \in Runs : Recording(s, c, v) BY <2>2
    <3>2. CASE s = r BY <3>1, <3>2, <1>1 DEF Recording
    <3>3. CASE s # r
      <4>1. Recording(s, c, v)' BY <3>1, <3>3, <1>2 DEF Recording, Schema!Conn
      <4>2. QED BY <4>1
    <3>4. QED BY <3>2, <3>3
  <2>3. QED BY <2>1, <2>2 DEF SchemaInv, Accounted
<1>8. Once' BY <1>1 DEF SchemaInv, Once
<1>9. Schema!OrderKept' BY <1>1, <1>4 DEF SchemaInv, Schema!OrderKept
<1>10. QED BY <1>3, <1>5, <1>6, <1>7, <1>8, <1>9 DEF SchemaInv

LEMMA SchemaKept ==
    ASSUME Schema!Numbered, Schema!Walk, SchemaInv, [Schema!Next]_(Schema!vars)
    PROVE  SchemaInv'
<1>1. CASE UNCHANGED Schema!vars
  <2>1. \A c, v : Schema!Executed(c, v)' <=> Schema!Executed(c, v) BY <1>1 DEF Schema!vars, Schema!Executed
  <2>2. \A r \in Runs : Schema!Conn(r)' = Schema!Conn(r) BY <1>1 DEF Schema!vars, Schema!Conn
  <2>3. \A c : CompleteOn(c)' <=> CompleteOn(c) BY <2>1 DEF CompleteOn
  <2>4. ASSUME NEW r \in Runs, Passed(r) PROVE Passed(r)'
    BY <2>4, <1>1, <2>1, <2>2, <2>3 DEF Schema!vars, Passed
  <2>5. Accounted => Accounted'
    <3>1. excuse' = excuse /\ record' = record /\ runner' = runner BY <1>1 DEF Schema!vars
    <3>2. \A r \in Runs : \A c, v : Recording(r, c, v)' <=> Recording(r, c, v)
      BY <2>2, <3>1 DEF Recording
    <3> HIDE DEF Recording
    <3>3. QED BY <2>1, <3>1, <3>2 DEF Accounted
  <2>6. SchemaTyped => SchemaTyped' BY <1>1 DEF Schema!vars, SchemaTyped
  <2>7. RowsExecuted => RowsExecuted' BY <1>1, <2>1 DEF Schema!vars, RowsExecuted
  <2>8. Once => Once' BY <1>1 DEF Schema!vars, Once
  <2>9. Schema!OrderKept => Schema!OrderKept' BY <1>1, <2>1 DEF Schema!vars, Schema!OrderKept
  <2>10. QED BY <2>4, <2>5, <2>6, <2>7, <2>8, <2>9 DEF SchemaInv
<1>2. CASE Schema!Next
  <2>1. PICK r \in Runs : \/ Schema!Start(r) \/ Schema!Read(r) \/ Schema!Skip(r) \/ Schema!Execute(r)
                          \/ Schema!Record(r) \/ Schema!NextConnection(r) \/ Schema!Crash(r)
    BY <1>2 DEF Schema!Next
  <2>2. QED BY <2>1, Walking, Executing, RecordingIt, Crashing
<1>3. QED BY <1>1, <1>2

FaultsCounted == mishaps \in 0 .. MaxMishaps

LEMMA FaultsAreCounted ==
    ASSUME FaultsCounted, MaxMishaps \in Nat, [Schema!Next]_(Schema!vars) PROVE FaultsCounted'
<1>1. UNCHANGED mishaps \/ (mishaps < MaxMishaps /\ mishaps' = mishaps + 1)
  BY DEF Schema!vars, Schema!Next, Schema!Start, Schema!Read, Schema!Skip, Schema!Execute,
     Schema!Record, Schema!NextConnection, Schema!Crash
<1>2. QED BY <1>1 DEF FaultsCounted

LEMMA SchemaFacts ==
    ASSUME Schema!Numbered, Schema!Walk, SchemaInv, FaultsCounted
    PROVE  /\ Schema!TypeOK /\ Schema!OrderKept /\ Schema!MigratedMeansAll
           /\ Schema!TwiceExplained
<1>1. Schema!OrderKept BY DEF SchemaInv
<1>2. Schema!MigratedMeansAll
  BY DEF SchemaInv, SchemaTyped, Conns, Passed, CompleteOn, Schema!MigratedMeansAll
<1>3. Schema!TwiceExplained
  <2> SUFFICES ASSUME NEW c \in DOMAIN executed, NEW v \in Versions,
                      Cardinality({i \in DOMAIN executed[c] : executed[c][i] = v}) > 1
               PROVE  <<c, v>> \in excuse
    BY SchemaCardinality DEF Schema!TwiceExplained
  <2> DEFINE S == {i \in DOMAIN executed[c] : executed[c][i] = v}
  <2>1. CASE \E i, j \in S : i # j
    BY <2>1 DEF SchemaInv, SchemaTyped, Once
  <2>2. CASE S = {}
    BY <2>2, FS_EmptySet
  <2>3. CASE \E i \in S : \A j \in S : i = j
    <3>1. PICK i : S = {i} BY <2>3
    <3>2. Cardinality({i}) = 1 BY FS_Singleton
    <3>3. QED BY <3>1, <3>2
  <2>4. QED BY <2>1, <2>2, <2>3
<1>4. Schema!TypeOK
  <2>1. \A r \in Runs : /\ runner[r].pc \in {"idle", "read", "apply", "record", "migrated", "failed"}
                        /\ runner[r].at \in 1 .. Len(Schema!ordered)
    BY DEF SchemaInv, SchemaTyped, RunnerRec, Schema!Walk
  <2>2. \A c \in DOMAIN record : record[c] \subseteq Versions \X BOOLEAN
    BY DEF SchemaInv, SchemaTyped
  <2>3. QED BY <2>1, <2>2 DEF FaultsCounted, Schema!TypeOK
<1>5. QED BY <1>1, <1>2, <1>3, <1>4

-----------------------------------------------------------------------------
(* The server process.  Main is past its first steps whenever it runs a     *)
(* worker or serves (Order), and a job is lost only as the process ends     *)
(* (Losses).                                                                *)

Busy == IF worker = "busy" THEN 1 ELSE 0

ServerTyped ==
    /\ at \in 1 .. 11
    /\ phase \in {"starting", "serving", "stopping", "awaiting", "ended"}
    /\ worker \in {"none", "idle", "busy", "over"}
    /\ grpc \in {"none", "spawned", "listening", "over"}
    /\ waiting \in Nat
    /\ jobs \in [done : Nat, lost : Nat]
    /\ jobs.done + jobs.lost + waiting + Busy <= MaxJobs
    /\ (phase = "ended") = (exit # "none")

\* What main has behind it.
Order ==
    /\ at > 2 => "pool" \in built
    /\ at > 3 => "migrated" \in built
    /\ at > 4 => "stores" \in built
    /\ worker # "none" => at > 7
    /\ grpc # "none" => at > 10
    /\ phase \in {"serving", "stopping", "awaiting"} => at = 11

Losses ==
    /\ phase = "ended" => worker \in {"none", "over"}
    /\ jobs.lost > 0 => /\ phase = "ended"
                        /\ exit \in {"error", "killed"} \/ ~Server!Scaffold

ServerInv == ServerTyped /\ Order /\ Losses

LEMMA StepsOfMain ==
    /\ DOMAIN Server!Steps = 1 .. 11
    /\ \A i \in 1 .. 11 :
          /\ Server!Steps[i] = "load" <=> i = 1
          /\ Server!Steps[i] = "connect" <=> i = 2
          /\ Server!Steps[i] = "migrate" <=> i = 3
          /\ Server!Steps[i] = "stores" <=> i = 4
          /\ Server!Steps[i] = "redis" <=> i = 5
          /\ Server!Steps[i] = "channels" <=> i = 6
          /\ Server!Steps[i] = "worker" <=> i = 7
          /\ Server!Steps[i] = "sagas" <=> i = 8
          /\ Server!Steps[i] = "apis" <=> i = 9
          /\ Server!Steps[i] = "grpc" <=> i = 10
          /\ Server!Steps[i] = "bind" <=> i = 11
BY DEF Server!Steps

LEMMA ServerStarts == ASSUME Server!Init PROVE ServerInv
BY ServerAssumption DEF Server!Init, ServerInv, ServerTyped, Order, Losses, Busy

\* A step of main that builds something: what it must have built by then it has.
LEMMA Building ==
    ASSUME ServerInv, NEW s, NEW made, Server!Builds(s, made), s # "bind",
           s = "connect" => "pool" \in made,
           s = "migrate" => "migrated" \in made,
           s = "stores" => "stores" \in made
    PROVE  ServerInv'
<1>1. at' = at + 1 /\ Server!Steps[at] = s /\ phase = "starting"
  BY DEF Server!Builds, Server!Step, Server!Advance
<1>a. at \in 1 .. 11 /\ at # 11
  BY <1>1, StepsOfMain DEF ServerInv, ServerTyped
<1>2. built' = built \cup made /\ UNCHANGED <<setup, phase, worker, grpc, waiting, jobs, exit>>
  BY DEF Server!Builds
<1>3. ServerTyped' BY <1>1, <1>a, <1>2, ServerAssumption DEF ServerInv, ServerTyped, Busy
<1>4. Order' BY <1>1, <1>a, <1>2, StepsOfMain DEF ServerInv, Order
<1>5. Losses' BY <1>2 DEF ServerInv, Losses, Server!Scaffold
<1>6. QED BY <1>3, <1>4, <1>5 DEF ServerInv

LEMMA MainGoesOn ==
    ASSUME ServerInv,
           \/ Server!Load \/ Server!Connect \/ Server!Migrate \/ Server!BuildStores
           \/ Server!CreateRedisPool \/ Server!StartSubscriber \/ Server!PrepareSagas
           \/ Server!BuildApis
    PROVE  ServerInv'
BY Building DEF Server!Load, Server!Connect, Server!Migrate, Server!BuildStores,
   Server!CreateRedisPool, Server!StartSubscriber, Server!PrepareSagas, Server!BuildApis

LEMMA MainSpawns ==
    ASSUME ServerInv, Server!SpawnWorker \/ Server!SpawnGrpc \/ Server!Bind PROVE ServerInv'
<1> USE DEF ServerInv
<1>1. phase = "starting" /\ UNCHANGED <<setup, built, waiting, jobs, exit>>
  BY DEF Server!SpawnWorker, Server!SpawnGrpc, Server!Bind, Server!Step
<1>2. CASE Server!SpawnWorker
  <2>1. at = 7 /\ at' = 8 /\ worker' \in {"none", "idle"} /\ UNCHANGED <<phase, grpc>>
    BY <1>2, StepsOfMain DEF Server!SpawnWorker, Server!Step, Server!Advance, ServerTyped
  <2>2. QED BY <1>1, <2>1 DEF ServerTyped, Order, Losses, Busy, Server!Scaffold
<1>3. CASE Server!SpawnGrpc
  <2>1. at = 10 /\ at' = 11 /\ grpc' \in {"none", "spawned"} /\ UNCHANGED <<phase, worker>>
    BY <1>3, StepsOfMain DEF Server!SpawnGrpc, Server!Step, Server!Advance, ServerTyped
  <2>2. QED BY <1>1, <2>1 DEF ServerTyped, Order, Losses, Busy, Server!Scaffold
<1>4. CASE Server!Bind
  <2>1. at = 11 /\ phase' = "serving" /\ UNCHANGED <<at, worker, grpc>>
    BY <1>4, StepsOfMain DEF Server!Bind, Server!Step, ServerTyped
  <2>2. QED BY <1>1, <2>1 DEF ServerTyped, Order, Losses, Busy, Server!Scaffold
<1>5. QED BY <1>2, <1>3, <1>4

\* However the process ends: it loses the job its worker runs, and only a main
\* that does not wait ends well with one.
LEMMA ServerEnds ==
    ASSUME ServerInv, NEW how \in {"ok", "error", "killed"}, Server!EndsWith(how), phase # "ended",
           UNCHANGED <<setup, at, built, waiting>>,
           how = "ok" => worker # "busy" \/ ~Server!Scaffold
    PROVE  ServerInv'
<1> USE DEF ServerInv, Server!EndsWith
<1>1. /\ jobs' \in [done : Nat, lost : Nat] /\ jobs'.done = jobs.done
      /\ jobs'.lost = jobs.lost + Busy /\ worker' \in {"none", "over"}
  BY DEF ServerTyped, Busy
<1>2. ServerTyped' BY <1>1 DEF ServerTyped, Busy
<1>3. Order' BY DEF Order
<1>4. Losses'
  <2>1. jobs.lost = 0 BY DEF ServerTyped, Losses
  <2>2. jobs'.lost > 0 => worker = "busy" BY <1>1, <2>1 DEF Busy
  <2>3. QED BY <1>1, <2>2 DEF Losses, Server!Scaffold
<1>5. QED BY <1>2, <1>3, <1>4

LEMMA ServerStopping ==
    ASSUME ServerInv,
           Server!StepFails \/ Server!ServerStops \/ Server!MainReturns \/ Server!Kill
    PROVE  ServerInv'
<1>1. CASE Server!StepFails
  BY <1>1, ServerEnds DEF Server!StepFails
<1>2. CASE Server!ServerStops
  <2>1. CASE Server!AwaitsWorker
    <3>1. /\ phase = "stopping" /\ phase' = "awaiting"
          /\ UNCHANGED <<setup, at, built, waiting, worker, grpc, jobs, exit>>
      BY <1>2, <2>1 DEF Server!ServerStops
    <3>2. QED BY <3>1 DEF ServerInv, ServerTyped, Order, Losses, Busy, Server!Scaffold
  <2>2. CASE ~Server!AwaitsWorker
    <3>1. Server!EndsWith("ok") /\ phase # "ended" /\ UNCHANGED <<setup, at, built, waiting>>
      BY <1>2, <2>2 DEF Server!ServerStops
    <3>2. worker # "busy" \/ ~Server!Scaffold
      BY <2>2 DEF Server!AwaitsWorker
    <3>3. QED BY <3>1, <3>2, ServerEnds
  <2>3. QED BY <2>1, <2>2
<1>3. CASE Server!MainReturns
  BY <1>3, ServerEnds DEF Server!MainReturns
<1>4. CASE Server!Kill
  BY <1>4, ServerEnds DEF Server!Kill
<1>5. QED BY <1>1, <1>2, <1>3, <1>4

\* Jobs, requests and the tasks of the process.
LEMMA ServerRuns ==
    ASSUME ServerInv,
           \/ Server!GrpcBinds \/ Server!Enqueue \/ Server!Poll \/ Server!JobEnds
           \/ Server!Request \/ Server!Answer \/ Server!Signal \/ Server!WorkerStops
    PROVE  ServerInv'
<1> USE DEF ServerInv, ServerTyped, Order, Losses, Busy, Server!Scaffold
<1>1. CASE Server!GrpcBinds BY <1>1 DEF Server!GrpcBinds
<1> USE ServerAssumption
<1>2. CASE Server!Enqueue BY <1>2 DEF Server!Enqueue
<1>3. CASE Server!Poll BY <1>3 DEF Server!Poll
<1>4. CASE Server!JobEnds BY <1>4 DEF Server!JobEnds
<1>5. CASE Server!Request \/ Server!Answer BY <1>5 DEF Server!Request, Server!Answer
<1>6. CASE Server!Signal BY <1>6 DEF Server!Signal
<1>7. CASE Server!WorkerStops BY <1>7 DEF Server!WorkerStops, Server!SenderDropped
<1>8. QED BY <1>1, <1>2, <1>3, <1>4, <1>5, <1>6, <1>7

LEMMA ServerKept == ASSUME ServerInv, [Server!Next]_(Server!vars) PROVE ServerInv'
<1>1. CASE UNCHANGED Server!vars
  BY <1>1 DEF Server!vars, ServerInv, ServerTyped, Order, Losses, Busy, Server!Scaffold
<1>2. CASE Server!Next
  BY <1>2, MainGoesOn, MainSpawns, ServerStopping, ServerRuns DEF Server!Next, Server!MainSteps
<1>3. QED BY <1>1, <1>2

LEMMA ServerFacts ==
    ServerInv => Server!TypeOK /\ Server!ServesMigrated /\ Server!LossExplained
<1> SUFFICES ASSUME ServerInv PROVE Server!TypeOK /\ Server!ServesMigrated /\ Server!LossExplained
  OBVIOUS
<1> USE DEF ServerInv, ServerTyped
<1>1. Server!TypeOK BY ServerAssumption, StepsOfMain DEF Server!TypeOK, Busy
<1>2. Server!ServesMigrated BY StepsOfMain DEF Order, Server!ServesMigrated
<1>3. Server!LossExplained BY DEF Losses, Server!LossExplained
<1>4. QED BY <1>1, <1>2, <1>3

-----------------------------------------------------------------------------
(* The workspace.  dfs_cycle and topo_visit are recursive functions: by the  *)
(* number of services not visited yet there is a function that satisfies     *)
(* their equation, and only one.                                             *)

(* dfs_cycle is defined.                                                     *)

\* The dependencies of every service are services of the file.
Closed(w) == \A s \in Group!Services : w.deps[s] \in Seq(Group!Services)

Found == BOOLEAN \X SUBSET Group!Services

\* A search ends having visited its node and all that was visited.
Growing == {f \in [Group!Searches -> Found] : \A p \in Group!Searches : p[2] \cup {p[1]} \subseteq f[p][2]}

Rank(p) == Cardinality(Group!Services \ p[2]) + IF p[1] \in p[2] THEN 1 ELSE 0

\* one round of the loop of search_deps
SearchDep(w, f, p, i, acc) ==
    LET deps == w.deps[p[1]]
        stack == p[3] \cup {p[1]}
    IN  IF acc[1] THEN acc
        ELSE IF deps[i] \in acc[2] \ stack THEN acc
        ELSE IF deps[i] \in acc[2] THEN <<TRUE, acc[2]>>
        ELSE f[<<deps[i], acc[2], stack>>]

\* what the loop of search_deps keeps
Searched(w, f, p) ==
    CHOOSE g : g = [i \in 0 .. Len(w.deps[p[1]]) |->
                      IF i = 0 THEN <<FALSE, p[2] \cup {p[1]}>>
                      ELSE SearchDep(w, f, p, i, g[i - 1])]

\* a loop of search_deps with the nested searches of f
IsLoop(w, f, p, g) ==
    /\ g \in [0 .. Len(w.deps[p[1]]) -> Found]
    /\ g[0] = <<FALSE, p[2] \cup {p[1]}>>
    /\ \A i \in 1 .. Len(w.deps[p[1]]) : g[i] = SearchDep(w, f, p, i, g[i - 1])
    /\ \A i \in 0 .. Len(w.deps[p[1]]) : p[2] \cup {p[1]} \subseteq g[i][2]

\* A file names finitely many services.
LEMMA FiniteServices == IsFiniteSet(Group!Services)
<1>1. Len(Names) \in Nat /\ DOMAIN Names = 1 .. Len(Names) BY GroupAssumption DEF Group!Described
<1>2. IsFiniteSet(1 .. Len(Names))
  <2>1. 1 \in Int /\ Len(Names) \in Int BY <1>1
  <2>2. QED BY <2>1, FS_Interval
<1>3. Names \in Surjection(DOMAIN Names, Group!Services)
  BY <1>1, GroupAssumption DEF Group!Described, Surjection, Group!Services
<1>4. QED BY <1>1, <1>2, <1>3, FS_Surjection

\* Sets of services can be counted.
LEMMA SubsetCount ==
    ASSUME NEW A \in SUBSET Group!Services
    PROVE  IsFiniteSet(A) /\ Cardinality(A) \in Nat /\ Cardinality(A) <= Cardinality(Group!Services)
<1>1. IsFiniteSet(A) /\ Cardinality(A) <= Cardinality(Group!Services) BY FiniteServices, FS_Subset
<1>2. QED BY <1>1, FS_CardinalityType

\* The parts of a search: node, visited, nodes on the stack.
LEMMA SearchesParts ==
    ASSUME NEW p \in Group!Searches
    PROVE  p[1] \in Group!Services /\ p[2] \in SUBSET Group!Services /\ p[3] \in SUBSET Group!Services
           /\ p = <<p[1], p[2], p[3]>>
BY DEF Group!Searches

\* The ranks are bounded by the number of services.
LEMMA RankBounds ==
    ASSUME NEW p \in Group!Searches
    PROVE  Rank(p) \in Nat /\ Cardinality(Group!Services) \in Nat /\ Rank(p) < Cardinality(Group!Services) + 2
<1>1. Group!Services \ p[2] \in SUBSET Group!Services /\ Group!Services \in SUBSET Group!Services OBVIOUS
<1> DEFINE m == Cardinality(Group!Services \ p[2])
           n == Cardinality(Group!Services)
<1>2. m \in Nat /\ n \in Nat /\ m <= n BY <1>1, SubsetCount
<1>3. Rank(p) = m + IF p[1] \in p[2] THEN 1 ELSE 0 BY DEF Rank
<1> HIDE DEF m, n
<1>4. Rank(p) \in Nat /\ Rank(p) < n + 2 BY <1>2, <1>3
<1>5. QED BY <1>2, <1>4 DEF n

\* A nested search has a smaller rank.
LEMMA RankLess ==
    ASSUME NEW p \in Group!Searches, NEW q \in Group!Searches, q[1] \notin q[2], p[2] \cup {p[1]} \subseteq q[2]
    PROVE  Rank(q) < Rank(p)
<1> DEFINE A == Group!Services \ q[2]
           B == Group!Services \ p[2]
<1>1. A \in SUBSET Group!Services /\ B \in SUBSET Group!Services OBVIOUS
<1>2. IsFiniteSet(B) /\ Cardinality(B) \in Nat /\ Cardinality(A) \in Nat BY <1>1, SubsetCount
<1>3. Rank(q) = Cardinality(A) BY <1>2 DEF Rank
<1>4. CASE p[1] \in p[2]
  <2>1. A \subseteq B OBVIOUS
  <2>2. Cardinality(A) <= Cardinality(B) BY <1>2, <2>1, FS_Subset
  <2>3. Rank(p) = Cardinality(B) + 1 BY <1>4 DEF Rank
  <2>4. QED BY <1>2, <1>3, <2>2, <2>3
<1>5. CASE p[1] \notin p[2]
  <2>1. p[1] \in B /\ A \subseteq B \ {p[1]} BY <1>5, SearchesParts
  <2>2. IsFiniteSet(B \ {p[1]}) /\ Cardinality(B \ {p[1]}) = Cardinality(B) - 1
    BY <1>2, <2>1, FS_RemoveElement
  <2>3. Cardinality(A) <= Cardinality(B \ {p[1]}) BY <2>1, <2>2, FS_Subset
  <2>4. Rank(p) = Cardinality(B) BY <1>2, <1>5 DEF Rank
  <2>5. QED BY <1>2, <1>3, <2>2, <2>3, <2>4
<1>6. QED BY <1>4, <1>5

\* A round of dfs_cycle forgets nothing visited, and searches a service.
LEMMA SearchDepTyped ==
    ASSUME NEW w, Closed(w), NEW f \in Growing, NEW p \in Group!Searches,
           NEW i \in 1 .. Len(w.deps[p[1]]), NEW acc \in Found
    PROVE  /\ SearchDep(w, f, p, i, acc) \in Found
           /\ acc[2] \subseteq SearchDep(w, f, p, i, acc)[2]
           /\ <<w.deps[p[1]][i], acc[2], p[3] \cup {p[1]}>> \in Group!Searches
<1> DEFINE q == <<w.deps[p[1]][i], acc[2], p[3] \cup {p[1]}>>
<1>1. w.deps[p[1]] \in Seq(Group!Services) BY SearchesParts DEF Closed
<1>2. w.deps[p[1]][i] \in Group!Services BY <1>1
<1>3. q \in Group!Searches BY <1>2, SearchesParts DEF Group!Searches, Found
<1>4. f[q] \in Found /\ acc[2] \subseteq f[q][2] BY <1>3 DEF Growing
<1>5. SearchDep(w, f, p, i, acc) \in
        {acc, <<TRUE, acc[2]>>, f[q]}
  BY DEF SearchDep
<1>6. <<TRUE, acc[2]>> \in Found BY DEF Found
<1>7. acc[2] \subseteq <<TRUE, acc[2]>>[2] OBVIOUS
<1> HIDE DEF q
<1> DEFINE r == SearchDep(w, f, p, i, acc)
<1>8. r \in Found /\ acc[2] \subseteq r[2]
  <2>1. CASE r = acc BY <2>1
  <2>2. CASE r = <<TRUE, acc[2]>> BY <2>2, <1>6, <1>7
  <2>3. CASE r = f[q] BY <2>3, <1>4
  <2>4. QED BY <1>5, <2>1, <2>2, <2>3
<1>9. QED BY <1>3, <1>8 DEF q

\* The loop of dfs_cycle runs, whatever (growing) function answers the nested searches.
LEMMA LoopExists ==
    ASSUME NEW w, Closed(w), NEW f \in Growing, NEW p \in Group!Searches
    PROVE  \E g : IsLoop(w, f, p, g)
<1> DEFINE n == Len(w.deps[p[1]])
           a == <<FALSE, p[2] \cup {p[1]}>>
           h == [x \in (1 .. n) \X Found |-> SearchDep(w, f, p, x[1], x[2])]
<1>1. n \in Nat BY SearchesParts DEF Closed
<1>2. a \in Found BY SearchesParts DEF Found
<1>3. h \in Rounds(n, Found) BY SearchDepTyped DEF Rounds
<1> HIDE DEF h, a
<1>4. PICK g : LoopRuns(n, Found, a, h, g)
  <2> HIDE DEF n
  <2>1. QED BY <1>1, <1>2, <1>3, Loop
<1>5. ASSUME NEW i \in 1 .. n
      PROVE  g[i] = SearchDep(w, f, p, i, g[i - 1]) /\ g[i - 1] \in Found
  <2>1. g[i - 1] \in Found BY <1>1, <1>4 DEF LoopRuns
  <2>2. <<i, g[i - 1]>> \in (1 .. n) \X Found BY <2>1
  <2>3. h[<<i, g[i - 1]>>] = SearchDep(w, f, p, i, g[i - 1]) BY <2>2 DEF h
  <2>4. QED BY <1>4, <2>1, <2>3 DEF LoopRuns
<1> DEFINE S == {i \in 0 .. n : p[2] \cup {p[1]} \subseteq g[i][2]}
<1>6. 0 \in S BY <1>1, <1>4 DEF a, LoopRuns
<1>7. ASSUME NEW i \in 1 .. n, i - 1 \in S PROVE i \in S
  <2>1. g[i - 1][2] \subseteq g[i][2]
    <3>1. g[i - 1] \in Found BY <1>5
    <3>2. g[i - 1][2] \subseteq SearchDep(w, f, p, i, g[i - 1])[2] BY <3>1, SearchDepTyped
    <3>3. g[i] = SearchDep(w, f, p, i, g[i - 1]) BY <1>5
    <3>4. QED BY <3>2, <3>3
  <2>2. p[2] \cup {p[1]} \subseteq g[i - 1][2] BY <1>7
  <2>3. i \in 0 .. n OBVIOUS
  <2>4. QED BY <2>1, <2>2, <2>3
<1>8. 0 .. n \subseteq S
  <2> HIDE DEF S, n
  <2>1. QED BY <1>1, <1>6, <1>7, UpTo
<1>9. QED BY <1>4, <1>5, <1>8 DEF IsLoop, LoopRuns, a

\* What it keeps depends on the answers to searches of smaller rank only.
LEMMA LoopUnique ==
    ASSUME NEW w, Closed(w), NEW f \in Growing, NEW p \in Group!Searches,
           NEW v, \A q \in Group!Searches : Rank(q) < Rank(p) => v[q] = f[q],
           NEW g, IsLoop(w, f, p, g)
    PROVE  Searched(w, v, p) = g
<1> DEFINE n == Len(w.deps[p[1]])
           a == <<FALSE, p[2] \cup {p[1]}>>
           loop(k) == [i \in 0 .. n |-> IF i = 0 THEN a ELSE SearchDep(w, v, p, i, k[i - 1])]
           s == Searched(w, v, p)
<1>1. n \in Nat BY SearchesParts DEF Closed
<1>2. ASSUME NEW i \in 1 .. n
      PROVE  SearchDep(w, v, p, i, g[i - 1]) = SearchDep(w, f, p, i, g[i - 1])
  <2> DEFINE acc == g[i - 1]
             q == <<w.deps[p[1]][i], acc[2], p[3] \cup {p[1]}>>
  <2>1. acc \in Found /\ p[2] \cup {p[1]} \subseteq acc[2] BY <1>1 DEF IsLoop
  <2>2. q \in Group!Searches BY <2>1, SearchDepTyped
  <2>3. ASSUME w.deps[p[1]][i] \notin acc[2] PROVE v[q] = f[q]
    <3>1. Rank(q) < Rank(p)
      <4>1. q[1] \notin q[2] /\ p[2] \cup {p[1]} \subseteq q[2] BY <2>1, <2>3
      <4> HIDE DEF q
      <4>2. QED BY <2>2, <4>1, RankLess
    <3> HIDE DEF q
    <3>2. QED BY <2>2, <3>1
  <2> HIDE DEF acc
  <2>4. SearchDep(w, v, p, i, acc) = SearchDep(w, f, p, i, acc) BY <2>3 DEF SearchDep
  <2>5. QED BY <2>4 DEF acc
<1>3. g = loop(g)
  <2>1. ASSUME NEW i \in 0 .. n
        PROVE  g[i] = IF i = 0 THEN a ELSE SearchDep(w, v, p, i, g[i - 1])
    <3>1. CASE i = 0 BY <3>1 DEF IsLoop
    <3>2. CASE i # 0
      <4>1. i \in 1 .. n BY <1>1, <3>2
      <4>2. g[i] = SearchDep(w, f, p, i, g[i - 1]) BY <4>1 DEF IsLoop
      <4>3. QED BY <4>1, <4>2, <3>2, <1>2
    <3>3. QED BY <3>1, <3>2
  <2>2. g \in [0 .. n -> Found] BY DEF IsLoop
  <2> HIDE DEF n, a
  <2>3. QED BY <2>1, <2>2
<1>4. s = loop(s)
  <2>1. s = CHOOSE k : k = loop(k) BY DEF Searched
  <2> HIDE DEF s, loop
  <2>2. QED BY <1>3, <2>1
<1> HIDE DEF s
<1> DEFINE S == {i \in 0 .. n : s[i] = g[i]}
<1>5. 0 \in S BY <1>1, <1>3, <1>4
<1>6. ASSUME NEW i \in 1 .. n, i - 1 \in S PROVE i \in S
  <2>0. i \in 0 .. n /\ i # 0 BY <1>1
  <2>1. s[i] = SearchDep(w, v, p, i, s[i - 1]) /\ g[i] = SearchDep(w, v, p, i, g[i - 1])
    <3>1. s[i] = loop(s)[i] /\ g[i] = loop(g)[i] BY <1>3, <1>4
    <3>2. loop(s)[i] = SearchDep(w, v, p, i, s[i - 1])
          /\ loop(g)[i] = SearchDep(w, v, p, i, g[i - 1])
      BY <2>0
    <3>3. QED BY <3>1, <3>2
  <2>2. QED BY <1>6, <2>1
<1>7. 0 .. n \subseteq S
  <2> HIDE DEF S, n
  <2>1. QED BY <1>1, <1>5, <1>6, UpTo
<1>8. s = g
  <2>1. DOMAIN s = 0 .. n BY <1>4
  <2>2. DOMAIN g = 0 .. n BY DEF IsLoop
  <2>3. s = [i \in 0 .. n |-> s[i]] /\ g = [i \in 0 .. n |-> g[i]] BY <1>3, <1>4
  <2>4. QED BY <1>7, <2>3
<1>9. QED BY <1>8 DEF s

\* search_deps returns what its loop keeps last.
LEMMA SearchDepsIs == ASSUME NEW w, NEW f, NEW p
                      PROVE Group!search_deps(w, f, p) = Searched(w, f, p)[Len(w.deps[p[1]])]
BY DEF Group!search_deps, Searched, SearchDep

\* The equation of dfs_cycle has a solution.
LEMMA CycleSolved ==
    ASSUME NEW w, Closed(w)
    PROVE  \E f \in Growing : \A p \in Group!Searches : f[p] = Group!search_deps(w, f, p)
<1> DEFINE b == [f \in Growing |-> [p \in Group!Searches |-> Group!search_deps(w, f, p)]]
           rank == [p \in Group!Searches |-> Rank(p)]
           n == Cardinality(Group!Services) + 2
           f0 == [p \in Group!Searches |-> <<FALSE, p[2] \cup {p[1]}>>]
<1>1. n \in Nat
  <2>1. Group!Services \in SUBSET Group!Services OBVIOUS
  <2>2. QED BY <2>1, SubsetCount
<1>2. Ranked(Group!Searches, n, rank) BY RankBounds DEF Ranked
<1>3. f0 \in Growing
  <2>1. ASSUME NEW p \in Group!Searches PROVE <<FALSE, p[2] \cup {p[1]}>> \in Found
    BY SearchesParts DEF Found
  <2>2. QED BY <2>1 DEF Growing
<1>4. ASSUME NEW f \in Growing, NEW p \in Group!Searches
      PROVE  Group!search_deps(w, f, p) \in Found /\ p[2] \cup {p[1]} \subseteq Group!search_deps(w, f, p)[2]
  <2>1. PICK g : IsLoop(w, f, p, g) BY LoopExists
  <2>2. Searched(w, f, p) = g BY <2>1, LoopUnique
  <2>3. Len(w.deps[p[1]]) \in Nat BY SearchesParts DEF Closed
  <2>4. QED BY <2>1, <2>2, <2>3, SearchDepsIs DEF IsLoop
<1>5. ASSUME NEW f \in Growing PROVE b[f] \in Growing
  <2>1. b[f] = [p \in Group!Searches |-> Group!search_deps(w, f, p)] OBVIOUS
  <2> HIDE DEF b
  <2>2. QED BY <2>1, <1>4 DEF Growing
<1>6. Local(Group!Searches, Growing, rank, b)
  <2>1. SUFFICES ASSUME NEW f \in Growing, NEW g \in Growing, NEW p \in Group!Searches,
                        \A q \in Group!Searches : rank[q] < rank[p] => f[q] = g[q]
                 PROVE  b[f][p] = b[g][p]
    BY DEF Local
  <2>2. PICK k : IsLoop(w, f, p, k) BY LoopExists
  <2>3. Searched(w, f, p) = k BY <2>2, LoopUnique
  <2>4. \A q \in Group!Searches : Rank(q) < Rank(p) => g[q] = f[q] BY <2>1
  <2>5. Searched(w, g, p) = k BY <2>2, <2>4, LoopUnique
  <2>6. Group!search_deps(w, f, p) = Group!search_deps(w, g, p) BY <2>3, <2>5, SearchDepsIs
  <2>7. QED BY <2>6
<1>7. \E f \in Growing : \A p \in Group!Searches : f[p] = b[f][p]
  <2> HIDE DEF b, rank, n, f0
  <2>1. QED BY <1>1, <1>2, <1>3, <1>5, <1>6, Recursion
<1>8. QED BY <1>7

\* dfs_cycle satisfies its equation: each search runs the loop with itself nested.
LEMMA CycleDefined ==
    ASSUME NEW w, Closed(w)
    PROVE  /\ Group!dfs_cycle(w) \in Growing
           /\ \A p \in Group!Searches :
                 \E g : /\ IsLoop(w, Group!dfs_cycle(w), p, g)
                        /\ Group!dfs_cycle(w)[p] = g[Len(w.deps[p[1]])]
<1> DEFINE eq(v) == [p \in Group!Searches |-> Group!search_deps(w, v, p)]
           V == Group!dfs_cycle(w)
<1>1. PICK f \in Growing : \A p \in Group!Searches : f[p] = Group!search_deps(w, f, p) BY CycleSolved
<1>2. f = eq(f) BY <1>1 DEF Growing
<1>3. V = eq(V)
  <2>1. V = CHOOSE v : v = eq(v) BY DEF Group!dfs_cycle
  <2> HIDE DEF V, eq
  <2>2. QED BY <1>2, <2>1
<1> HIDE DEF V
<1> DEFINE S == {m \in Nat : \A p \in Group!Searches : Rank(p) < m => V[p] = f[p]}
<1>4. 0 \in S BY RankBounds
<1>5. ASSUME NEW m \in Nat, m \in S PROVE m + 1 \in S
  <2>1. SUFFICES ASSUME NEW p \in Group!Searches, Rank(p) < m + 1 PROVE V[p] = f[p] OBVIOUS
  <2>2. ASSUME NEW q \in Group!Searches, Rank(q) < Rank(p) PROVE V[q] = f[q]
    <3>1. Rank(q) < m BY <2>1, <2>2, RankBounds
    <3>2. QED BY <1>5, <3>1
  <2>3. PICK g : IsLoop(w, f, p, g) BY LoopExists
  <2>4. Searched(w, f, p) = g BY <2>3, LoopUnique
  <2>5. Searched(w, V, p) = g BY <2>2, <2>3, LoopUnique
  <2>6. V[p] = Group!search_deps(w, V, p) BY <1>3
  <2>7. QED BY <1>1, <2>4, <2>5, <2>6, SearchDepsIs
<1>6. Nat \subseteq S
  <2> HIDE DEF S
  <2>1. QED BY <1>4, <1>5, SetInduction
<1>7. V = f
  <2>1. \A p \in Group!Searches : V[p] = f[p]
    <3>1. TAKE p \in Group!Searches
    <3>2. Cardinality(Group!Services) + 2 \in Nat /\ Rank(p) < Cardinality(Group!Services) + 2 BY RankBounds
    <3>3. QED BY <1>6, <3>2
  <2>2. V = [p \in Group!Searches |-> V[p]] BY <1>3
  <2>3. f = [p \in Group!Searches |-> f[p]] BY DEF Growing
  <2>4. QED BY <2>1, <2>2, <2>3
<1>8. ASSUME NEW p \in Group!Searches
      PROVE  \E g : IsLoop(w, f, p, g) /\ f[p] = g[Len(w.deps[p[1]])]
  <2>1. PICK g : IsLoop(w, f, p, g) BY LoopExists
  <2>2. Searched(w, f, p) = g BY <2>1, LoopUnique
  <2>3. QED BY <1>1, <2>1, <2>2, SearchDepsIs
<1>9. QED BY <1>7, <1>8 DEF V

-----------------------------------------------------------------------------
(* dfs_cycle finds every cycle and invents none.                              *)

\* Every node of K leads on to K or to the node.
Chain(w, K, node) == \A x \in K : \E d \in Group!Members(w.deps[x]) : d \in K \cup {node}

\* A set of services that depend on services of the set only and form no cycle.
Settled(w, F) ==
    /\ \A x \in F : Group!Members(w.deps[x]) \subseteq F
    /\ \A S \in SUBSET F : S # {} => \E s \in S : Group!Members(w.deps[s]) \cap S = {}

\* What a search promises when its stack leads to its node.
Asked(w, p) ==
    /\ p[1] \notin p[2] /\ p[3] \subseteq p[2]
    /\ Chain(w, p[3], p[1]) /\ Settled(w, p[2] \ p[3])

Told(w, p, r) == /\ r[1] = TRUE => ~Group!Acyclic(w)
                 /\ r[1] = FALSE => Settled(w, r[2] \ p[3])

\* A dependency on the stack closes a cycle.
LEMMA CycleFound ==
    ASSUME NEW w, NEW K \in SUBSET Group!Services, NEW node \in Group!Services, NEW d,
           Chain(w, K, node), d \in Group!Members(w.deps[node]), d \in K \cup {node}
    PROVE  ~Group!Acyclic(w)
<1> DEFINE S == K \cup {node}
<1>1. S \in (SUBSET Group!Services) \ {{}} OBVIOUS
<1>2. ASSUME NEW s \in S PROVE Group!Members(w.deps[s]) \cap S # {}
  BY <1>2 DEF Chain
<1> HIDE DEF S
<1>3. QED BY <1>1, <1>2 DEF Group!Acyclic

\* A service whose dependencies are settled settles with them.
LEMMA SettledAdds ==
    ASSUME NEW w, NEW F, NEW node, node \notin F, Settled(w, F), Group!Members(w.deps[node]) \subseteq F
    PROVE  Settled(w, F \cup {node})
<1>1. \A x \in F \cup {node} : Group!Members(w.deps[x]) \subseteq F \cup {node} BY DEF Settled
<1>2. ASSUME NEW S \in SUBSET (F \cup {node}), S # {}
      PROVE  \E s \in S : Group!Members(w.deps[s]) \cap S = {}
  <2>1. CASE S \cap F = {}
    <3>1. S = {node} BY <1>2, <2>1
    <3>2. QED BY <3>1
  <2>2. CASE S \cap F # {}
    <3>1. PICK s \in S \cap F : Group!Members(w.deps[s]) \cap (S \cap F) = {}
      BY <2>2 DEF Settled
    <3>2. Group!Members(w.deps[s]) \subseteq F BY DEF Settled
    <3>3. QED BY <3>1, <3>2
  <2>3. QED BY <2>1, <2>2
<1>3. QED BY <1>1, <1>2 DEF Settled

\* A search keeps its promise when the nested ones do.
LEMMA SearchTells ==
    ASSUME NEW w, Closed(w), NEW p \in Group!Searches, Asked(w, p),
           \A q \in Group!Searches : Rank(q) < Rank(p) /\ Asked(w, q) => Told(w, q, Group!dfs_cycle(w)[q])
    PROVE  Told(w, p, Group!dfs_cycle(w)[p])
<1> DEFINE V == Group!dfs_cycle(w)
           deps == w.deps[p[1]]
           n == Len(deps)
           K == p[3] \cup {p[1]}
<1>1. PICK g : IsLoop(w, V, p, g) /\ V[p] = g[n] BY CycleDefined
<1>2. V \in Growing BY CycleDefined
<1>3. /\ deps \in Seq(Group!Services) /\ n \in Nat /\ p[1] \in Group!Services /\ p[2] \in SUBSET Group!Services
      /\ p[3] \in SUBSET Group!Services /\ K \in SUBSET Group!Services
  BY SearchesParts DEF Closed
<1>4. \A i \in 1 .. n : deps[i] \in Group!Members(deps) /\ deps[i] \in Group!Services
  BY <1>3 DEF Group!Members
<1>5. \A i \in 0 .. n : g[i] \in Found /\ p[2] \cup {p[1]} \subseteq g[i][2]
  BY <1>1 DEF IsLoop
<1> HIDE DEF V
<1> DEFINE Kept(i) == /\ g[i][1] = TRUE => ~Group!Acyclic(w)
                      /\ g[i][1] = FALSE => /\ Settled(w, g[i][2] \ K)
                                            /\ \A k \in 1 .. i : deps[k] \in g[i][2] \ K
<1>6. Kept(0)
  <2>1. g[0][1] = FALSE /\ g[0][2] = p[2] \cup {p[1]} BY <1>1 DEF IsLoop
  <2>2. (p[2] \cup {p[1]}) \ K = p[2] \ p[3] BY DEF Asked
  <2>3. Settled(w, p[2] \ p[3]) BY DEF Asked
  <2>4. 1 .. 0 = {} OBVIOUS
  <2>5. QED BY <1>3, <2>1, <2>2, <2>3, <2>4
<1>7. ASSUME NEW i \in 1 .. n, Kept(i - 1) PROVE Kept(i)
  <2> DEFINE acc == g[i - 1]
             q == <<deps[i], acc[2], K>>
  <2>0. i - 1 \in 0 .. n /\ i \in 0 .. n /\ (i - 1) + 1 = i BY <1>3
  <2>1. acc \in Found /\ p[2] \cup {p[1]} \subseteq acc[2] BY <1>5, <2>0
  <2>2. g[i] = SearchDep(w, V, p, i, acc) BY <1>1 DEF IsLoop
  <2>3. /\ acc[1] = TRUE => ~Group!Acyclic(w)
        /\ acc[1] = FALSE => /\ Settled(w, acc[2] \ K)
                      /\ \A k \in 1 .. i - 1 : deps[k] \in acc[2] \ K
    BY <1>7
  <2>4. \A k \in 1 .. i : k \in 1 .. i - 1 \/ k = i BY <1>3
  <2>5. deps[i] \in Group!Members(deps) /\ deps[i] \in Group!Services BY <1>4
  <2> HIDE DEF acc
  <2>6. CASE acc[1] = TRUE
    <3>1. g[i] = acc BY <2>2, <2>6 DEF SearchDep
    <3>2. QED BY <3>1, <2>0, <2>3, <2>6
  <2>7. CASE acc[1] = FALSE /\ deps[i] \in acc[2] \ K
    <3>1. g[i] = acc BY <2>2, <2>7 DEF SearchDep
    <3>2. QED BY <3>1, <2>0, <2>3, <2>4, <2>7
  <2>8. CASE acc[1] = FALSE /\ deps[i] \in acc[2] /\ deps[i] \in K
    <3>1. g[i] = <<TRUE, acc[2]>> BY <2>2, <2>8 DEF SearchDep
    <3>2. g[i][1] = TRUE BY <3>1
    <3>3. ~Group!Acyclic(w)
      BY <1>3, <2>5, <2>8, CycleFound DEF Asked
    <3>4. QED BY <2>0, <3>2, <3>3
  <2>9. CASE acc[1] = FALSE /\ deps[i] \notin acc[2]
    <3>1. g[i] = V[q] BY <2>2, <2>9 DEF SearchDep
    <3>2. q \in Group!Searches BY <1>2, <2>1, SearchDepTyped
    <3>3. q[1] = deps[i] /\ q[2] = acc[2] /\ q[3] = K OBVIOUS
    <3> HIDE DEF q
    <3>4. Rank(q) < Rank(p) BY <2>1, <2>9, <3>2, <3>3, RankLess
    <3>5. K \subseteq acc[2] BY <2>1 DEF Asked
    <3>6. Chain(w, K, deps[i]) BY <2>5 DEF Asked, Chain
    <3>7. Asked(w, q) BY <2>3, <2>9, <3>3, <3>5, <3>6 DEF Asked
    <3>8. Told(w, q, V[q]) BY <3>2, <3>4, <3>7 DEF V
    <3>9. acc[2] \cup {deps[i]} \subseteq g[i][2] BY <1>2, <3>1, <3>2, <3>3 DEF Growing
    <3>10. deps[i] \notin K BY <2>9, <3>5
    <3>11. g[i][1] = FALSE => \A k \in 1 .. i : deps[k] \in g[i][2] \ K
      BY <2>3, <2>4, <2>9, <3>9, <3>10
    <3>12. /\ g[i][1] = TRUE => ~Group!Acyclic(w)
           /\ g[i][1] = FALSE => Settled(w, g[i][2] \ K)
      BY <3>1, <3>3, <3>8 DEF Told
    <3>13. QED BY <2>0, <3>11, <3>12
  <2>10. QED BY <2>1, <2>6, <2>7, <2>8, <2>9 DEF Found
<1>8. Kept(n)
  <2> DEFINE S == {i \in 0 .. n : Kept(i)}
  <2> HIDE DEF n, Kept
  <2>1. 0 \in S BY <1>3, <1>6
  <2>2. ASSUME NEW i \in 1 .. n, i - 1 \in S PROVE i \in S BY <1>3, <1>7, <2>2
  <2> HIDE DEF S
  <2>3. 0 .. n \subseteq S BY <1>3, <2>1, <2>2, UpTo
  <2>4. n \in S BY <1>3, <2>3
  <2>5. QED BY <2>4 DEF S
<1>9. ASSUME V[p][1] = FALSE PROVE Settled(w, V[p][2] \ p[3])
  <2> DEFINE F == g[n][2] \ K
  <2>1. Settled(w, F) /\ \A k \in 1 .. n : deps[k] \in F BY <1>1, <1>8, <1>9
  <2>2. DOMAIN deps = 1 .. n BY <1>3
  <2>3. Group!Members(deps) \subseteq F BY <2>1, <2>2 DEF Group!Members
  <2>4. p[1] \notin F OBVIOUS
  <2>5. g[n][2] \ p[3] = F \cup {p[1]} BY <1>3, <1>5 DEF Asked
  <2> HIDE DEF F
  <2>6. Settled(w, F \cup {p[1]}) BY <2>1, <2>3, <2>4, SettledAdds
  <2>7. QED BY <1>1, <2>5, <2>6
<1>10. V[p][1] = TRUE => ~Group!Acyclic(w) BY <1>1, <1>8
<1>11. QED BY <1>9, <1>10 DEF Told, V

\* Every search keeps its promise, by induction on its rank.
LEMMA EverySearchTells ==
    ASSUME NEW w, Closed(w), NEW p \in Group!Searches, Asked(w, p)
    PROVE  Told(w, p, Group!dfs_cycle(w)[p])
<1> DEFINE V == Group!dfs_cycle(w)
           S == {m \in Nat : \A q \in Group!Searches : Rank(q) < m /\ Asked(w, q) => Told(w, q, V[q])}
<1> HIDE DEF V
<1>1. 0 \in S BY RankBounds
<1>2. ASSUME NEW m \in Nat, m \in S PROVE m + 1 \in S
  <2>1. SUFFICES ASSUME NEW q \in Group!Searches, Rank(q) < m + 1, Asked(w, q) PROVE Told(w, q, V[q])
    OBVIOUS
  <2>2. ASSUME NEW r \in Group!Searches, Rank(r) < Rank(q), Asked(w, r) PROVE Told(w, r, V[r])
    <3>1. Rank(r) < m BY <2>1, <2>2, RankBounds
    <3>2. QED BY <1>2, <2>2, <3>1
  <2>3. QED BY <2>1, <2>2, SearchTells DEF V
<1>3. Nat \subseteq S
  <2> HIDE DEF S
  <2>1. QED BY <1>1, <1>2, SetInduction
<1>4. Cardinality(Group!Services) + 2 \in Nat /\ Rank(p) < Cardinality(Group!Services) + 2 BY RankBounds
<1>5. QED BY <1>3, <1>4 DEF V

\* one round of the loop of has_circular_deps, and what it keeps
SearchName(w, i, acc) ==
    IF acc[1] \/ Names[i] \in acc[2] THEN acc ELSE Group!dfs_cycle(w)[<<Names[i], acc[2], {}>>]

SearchedAll(w) ==
    CHOOSE g : g = [i \in 0 .. Len(Names) |->
                      IF i = 0 THEN <<FALSE, {}>> ELSE SearchName(w, i, g[i - 1])]

NamesLoop(w, g) ==
    /\ g \in [0 .. Len(Names) -> Found]
    /\ g[0] = <<FALSE, {}>>
    /\ \A i \in 1 .. Len(Names) : g[i] = SearchName(w, i, g[i - 1])

\* The names are those of the services.
LEMMA NamesShape ==
    /\ Len(Names) \in Nat /\ \A i \in 1 .. Len(Names) : Names[i] \in Group!Services
    /\ \A s \in Group!Services : \E i \in 1 .. Len(Names) : Names[i] = s
BY GroupAssumption DEF Group!Described, Group!Services

\* A round of has_circular_deps forgets nothing visited.
LEMMA SearchNameTyped ==
    ASSUME NEW w, Closed(w), NEW i \in 1 .. Len(Names), NEW acc \in Found
    PROVE  SearchName(w, i, acc) \in Found /\ acc[2] \subseteq SearchName(w, i, acc)[2]
<1> DEFINE q == <<Names[i], acc[2], {}>>
           V == Group!dfs_cycle(w)
<1>1. q \in Group!Searches BY NamesShape DEF Group!Searches, Found
<1>2. V \in Growing BY CycleDefined
<1>3. V[q] \in Found /\ acc[2] \subseteq V[q][2] BY <1>1, <1>2 DEF Growing
<1>4. SearchName(w, i, acc) \in {acc, V[q]} BY DEF SearchName
<1> HIDE DEF q, V
<1>5. QED BY <1>3, <1>4

\* The loop of has_circular_deps runs.
LEMMA NamesSearched == ASSUME NEW w, Closed(w) PROVE NamesLoop(w, SearchedAll(w))
<1> DEFINE n == Len(Names)
           a == <<FALSE, {}>>
           h == [x \in (1 .. n) \X Found |-> SearchName(w, x[1], x[2])]
           loop(k) == [i \in 0 .. n |-> IF i = 0 THEN a ELSE SearchName(w, i, k[i - 1])]
           s == SearchedAll(w)
<1>1. n \in Nat BY NamesShape
<1>2. a \in Found BY DEF Found
<1>3. h \in Rounds(n, Found) BY SearchNameTyped DEF Rounds
<1> HIDE DEF h, a
<1>4. PICK g : LoopRuns(n, Found, a, h, g)
  <2> HIDE DEF n
  <2>1. QED BY <1>1, <1>2, <1>3, Loop
<1>5. ASSUME NEW i \in 1 .. n
      PROVE  g[i] = SearchName(w, i, g[i - 1]) /\ g[i - 1] \in Found
  <2>1. g[i - 1] \in Found BY <1>1, <1>4 DEF LoopRuns
  <2>2. <<i, g[i - 1]>> \in (1 .. n) \X Found BY <2>1
  <2>3. h[<<i, g[i - 1]>>] = SearchName(w, i, g[i - 1]) BY <2>2 DEF h
  <2>4. QED BY <1>4, <2>1, <2>3 DEF LoopRuns
<1>6. g = loop(g)
  <2>1. ASSUME NEW i \in 0 .. n PROVE g[i] = IF i = 0 THEN a ELSE SearchName(w, i, g[i - 1])
    <3>1. CASE i = 0 BY <3>1, <1>4 DEF LoopRuns
    <3>2. CASE i # 0 BY <1>1, <1>5, <3>2
    <3>3. QED BY <3>1, <3>2
  <2>2. g \in [0 .. n -> Found] BY <1>4 DEF LoopRuns
  <2> HIDE DEF n
  <2>3. QED BY <2>1, <2>2
<1>7. s = loop(s)
  <2>1. s = CHOOSE k : k = loop(k) BY DEF SearchedAll, a
  <2> HIDE DEF s, loop
  <2>2. QED BY <1>6, <2>1
<1> HIDE DEF s
<1> DEFINE S == {i \in 0 .. n : s[i] = g[i]}
<1>8. 0 \in S BY <1>1, <1>6, <1>7
<1>9. ASSUME NEW i \in 1 .. n, i - 1 \in S PROVE i \in S
  <2>1. i \in 0 .. n /\ i # 0 BY <1>1
  <2>2. s[i] = loop(s)[i] /\ g[i] = loop(g)[i] BY <1>6, <1>7
  <2>3. loop(s)[i] = SearchName(w, i, s[i - 1]) /\ loop(g)[i] = SearchName(w, i, g[i - 1])
    BY <2>1
  <2>4. QED BY <1>9, <2>1, <2>2, <2>3
<1>10. 0 .. n \subseteq S
  <2> HIDE DEF S, n
  <2>1. QED BY <1>1, <1>8, <1>9, UpTo
<1>11. s = g
  <2>1. s = [i \in 0 .. n |-> s[i]] /\ g = [i \in 0 .. n |-> g[i]] BY <1>6, <1>7
  <2>2. QED BY <1>10, <2>1
<1>12. NamesLoop(w, g)
  <2>1. g \in [0 .. n -> Found] /\ g[0] = a BY <1>4 DEF LoopRuns
  <2>2. QED BY <2>1, <1>5 DEF NamesLoop, a
<1>13. QED BY <1>11, <1>12 DEF s

\* has_circular_deps finds a cycle exactly when there is one.
LEMMA CircularDeps ==
    ASSUME NEW w, Closed(w)
    PROVE  Group!has_circular_deps(w) <=> ~Group!Acyclic(w)
<1> DEFINE n == Len(Names)
           g == SearchedAll(w)
           V == Group!dfs_cycle(w)
<1>1. NamesLoop(w, g) BY NamesSearched
<1>2. n \in Nat BY NamesShape
<1>3. V \in Growing BY CycleDefined
<1>4. Group!has_circular_deps(w) = g[n][1] BY DEF Group!has_circular_deps, SearchedAll, SearchName
<1> HIDE DEF g, V
<1> DEFINE Kept(i) == /\ g[i][1] = TRUE => ~Group!Acyclic(w)
                      /\ g[i][1] = FALSE => /\ Settled(w, g[i][2])
                                            /\ \A k \in 1 .. i : Names[k] \in g[i][2]
<1>5. Kept(0)
  <2>1. g[0][1] = FALSE /\ g[0][2] = {} BY <1>1 DEF NamesLoop
  <2>2. Settled(w, {}) BY DEF Settled
  <2>3. QED BY <2>1, <2>2
<1>6. ASSUME NEW i \in 1 .. n, Kept(i - 1) PROVE Kept(i)
  <2> DEFINE acc == g[i - 1]
             q == <<Names[i], acc[2], {}>>
  <2>0. i - 1 \in 0 .. n /\ i \in 0 .. n BY <1>2
  <2>1. acc \in Found /\ g[i] = SearchName(w, i, acc) BY <1>1, <2>0 DEF NamesLoop
  <2>2. /\ acc[1] = TRUE => ~Group!Acyclic(w)
        /\ acc[1] = FALSE => /\ Settled(w, acc[2])
                             /\ \A k \in 1 .. i - 1 : Names[k] \in acc[2]
    BY <1>6
  <2>3. \A k \in 1 .. i : k \in 1 .. i - 1 \/ k = i BY <1>2
  <2>4. Names[i] \in Group!Services BY NamesShape
  <2> HIDE DEF acc
  <2>5. CASE acc[1] = TRUE
    <3>1. g[i] = acc BY <2>1, <2>5 DEF SearchName
    <3>2. QED BY <3>1, <2>2, <2>5
  <2>6. CASE acc[1] = FALSE /\ Names[i] \in acc[2]
    <3>1. g[i] = acc BY <2>1, <2>6 DEF SearchName
    <3>2. QED BY <3>1, <2>2, <2>3, <2>6
  <2>7. CASE acc[1] = FALSE /\ Names[i] \notin acc[2]
    <3>1. g[i] = V[q] BY <2>1, <2>7 DEF SearchName, V
    <3>2. q \in Group!Searches BY <2>1, <2>4 DEF Group!Searches, Found
    <3>3. q[1] = Names[i] /\ q[2] = acc[2] /\ q[3] = {} OBVIOUS
    <3> HIDE DEF q
    <3>4. acc[2] \ {} = acc[2] OBVIOUS
    <3>5. Asked(w, q) BY <2>2, <2>7, <3>3, <3>4 DEF Asked, Chain
    <3>6. Told(w, q, V[q]) BY <3>2, <3>5, EverySearchTells DEF V
    <3>7. acc[2] \cup {Names[i]} \subseteq g[i][2] BY <1>3, <3>1, <3>2, <3>3 DEF Growing
    <3>8. g[i][1] = TRUE => ~Group!Acyclic(w) BY <3>1, <3>6 DEF Told
    <3>9. g[i][2] \ {} = g[i][2] OBVIOUS
    <3>10. g[i][1] = FALSE => Settled(w, g[i][2]) BY <3>1, <3>3, <3>6, <3>9 DEF Told
    <3>11. g[i][1] = FALSE => \A k \in 1 .. i : Names[k] \in g[i][2]
      BY <2>2, <2>3, <2>7, <3>7
    <3>12. QED BY <3>8, <3>10, <3>11
  <2>8. QED BY <2>1, <2>5, <2>6, <2>7 DEF Found
<1>7. Kept(n)
  <2> DEFINE S == {i \in 0 .. n : Kept(i)}
  <2> HIDE DEF n, Kept
  <2>1. 0 \in S BY <1>2, <1>5
  <2>2. ASSUME NEW i \in 1 .. n, i - 1 \in S PROVE i \in S BY <1>2, <1>6, <2>2
  <2> HIDE DEF S
  <2>3. 0 .. n \subseteq S BY <1>2, <2>1, <2>2, UpTo
  <2>4. n \in S BY <1>2, <2>3
  <2>5. QED BY <2>4 DEF S
<1>8. g[n] \in Found BY <1>1, <1>2 DEF NamesLoop
<1>9. ASSUME g[n][1] = FALSE PROVE Group!Acyclic(w)
  <2>1. Settled(w, g[n][2]) /\ \A k \in 1 .. n : Names[k] \in g[n][2] BY <1>7, <1>9
  <2>2. g[n][2] = Group!Services BY <1>8, <2>1, NamesShape DEF Found
  <2>3. QED BY <2>1, <2>2 DEF Settled, Group!Acyclic
<1>10. g[n][1] \in BOOLEAN BY <1>8 DEF Found
<1>11. (g[n][1] = TRUE) <=> ~Group!Acyclic(w) BY <1>7, <1>9, <1>10
<1>12. QED BY <1>4, <1>10, <1>11

-----------------------------------------------------------------------------
(* topo_visit is defined.                                                    *)

Ordering == (SUBSET Group!Services) \X Seq(Group!Services)

Advancing == {f \in [Group!Visits -> Ordering] : \A p \in Group!Visits : p[2][1] \cup {p[1]} \subseteq f[p][1]}

VisitRank(p) == Rank(<<p[1], p[2][1], {}>>)

VisitDep(w, f, p, i, acc) ==
    LET deps == w.deps[p[1]] IN IF deps[i] \in acc[1] THEN acc ELSE f[<<deps[i], acc>>]

Visited(w, f, p) ==
    CHOOSE g : g = [i \in 0 .. Len(w.deps[p[1]]) |->
                      IF i = 0 THEN <<p[2][1] \cup {p[1]}, p[2][2]>>
                      ELSE VisitDep(w, f, p, i, g[i - 1])]

IsVisit(w, f, p, g) ==
    /\ g \in [0 .. Len(w.deps[p[1]]) -> Ordering]
    /\ g[0] = <<p[2][1] \cup {p[1]}, p[2][2]>>
    /\ \A i \in 1 .. Len(w.deps[p[1]]) : g[i] = VisitDep(w, f, p, i, g[i - 1])
    /\ \A i \in 0 .. Len(w.deps[p[1]]) : p[2][1] \cup {p[1]} \subseteq g[i][1]

VisitResult(p, a) == <<a[1], Append(a[2], p[1])>>

\* The parts of a visit: node, visited, order.
LEMMA VisitsParts ==
    ASSUME NEW p \in Group!Visits
    PROVE  /\ p[1] \in Group!Services /\ p[2] \in Ordering /\ p[2][1] \in SUBSET Group!Services
           /\ p[2][2] \in Seq(Group!Services) /\ p = <<p[1], p[2]>>
           /\ <<p[1], p[2][1], {}>> \in Group!Searches
BY DEF Group!Visits, Ordering, Group!Searches

\* The ranks are bounded.
LEMMA VisitRankBounds ==
    ASSUME NEW p \in Group!Visits
    PROVE  /\ VisitRank(p) \in Nat /\ Cardinality(Group!Services) + 2 \in Nat
           /\ VisitRank(p) < Cardinality(Group!Services) + 2
BY VisitsParts, RankBounds DEF VisitRank

\* A nested visit has a smaller rank.
LEMMA VisitRankLess ==
    ASSUME NEW p \in Group!Visits, NEW q \in Group!Visits, q[1] \notin q[2][1],
           p[2][1] \cup {p[1]} \subseteq q[2][1]
    PROVE  VisitRank(q) < VisitRank(p)
<1> DEFINE a == <<p[1], p[2][1], {}>>
           b == <<q[1], q[2][1], {}>>
<1>1. a \in Group!Searches /\ b \in Group!Searches BY VisitsParts
<1>2. b[1] \notin b[2] /\ a[2] \cup {a[1]} \subseteq b[2] OBVIOUS
<1> HIDE DEF a, b
<1>3. Rank(b) < Rank(a) BY <1>1, <1>2, RankLess
<1>4. QED BY <1>3 DEF VisitRank, a, b

\* A round of topo_visit forgets nothing visited, and visits a service.
LEMMA VisitDepTyped ==
    ASSUME NEW w, Closed(w), NEW f \in Advancing, NEW p \in Group!Visits,
           NEW i \in 1 .. Len(w.deps[p[1]]), NEW acc \in Ordering
    PROVE  /\ VisitDep(w, f, p, i, acc) \in Ordering
           /\ acc[1] \subseteq VisitDep(w, f, p, i, acc)[1]
           /\ <<w.deps[p[1]][i], acc>> \in Group!Visits
<1> DEFINE q == <<w.deps[p[1]][i], acc>>
<1>1. w.deps[p[1]] \in Seq(Group!Services) BY VisitsParts DEF Closed
<1>2. w.deps[p[1]][i] \in Group!Services BY <1>1
<1>3. q \in Group!Visits BY <1>2 DEF Group!Visits, Ordering
<1>4. f[q] \in Ordering /\ acc[1] \subseteq f[q][1] BY <1>3 DEF Advancing
<1>5. VisitDep(w, f, p, i, acc) \in {acc, f[q]} BY DEF VisitDep
<1> HIDE DEF q
<1>6. QED BY <1>3, <1>4, <1>5 DEF q

\* The loop of topo_visit runs, whatever (growing) function answers the nested visits.
LEMMA VisitExists ==
    ASSUME NEW w, Closed(w), NEW f \in Advancing, NEW p \in Group!Visits
    PROVE  \E g : IsVisit(w, f, p, g)
<1> DEFINE n == Len(w.deps[p[1]])
           a == <<p[2][1] \cup {p[1]}, p[2][2]>>
           h == [x \in (1 .. n) \X Ordering |-> VisitDep(w, f, p, x[1], x[2])]
<1>1. n \in Nat BY VisitsParts DEF Closed
<1>2. a \in Ordering BY VisitsParts DEF Ordering
<1>3. h \in Rounds(n, Ordering) BY VisitDepTyped DEF Rounds
<1> HIDE DEF h, a
<1>4. PICK g : LoopRuns(n, Ordering, a, h, g)
  <2> HIDE DEF n
  <2>1. QED BY <1>1, <1>2, <1>3, Loop
<1>5. ASSUME NEW i \in 1 .. n
      PROVE  g[i] = VisitDep(w, f, p, i, g[i - 1]) /\ g[i - 1] \in Ordering
  <2>1. g[i - 1] \in Ordering BY <1>1, <1>4 DEF LoopRuns
  <2>2. <<i, g[i - 1]>> \in (1 .. n) \X Ordering BY <2>1
  <2>3. h[<<i, g[i - 1]>>] = VisitDep(w, f, p, i, g[i - 1]) BY <2>2 DEF h
  <2>4. QED BY <1>4, <2>1, <2>3 DEF LoopRuns
<1> DEFINE S == {i \in 0 .. n : p[2][1] \cup {p[1]} \subseteq g[i][1]}
<1>6. 0 \in S BY <1>1, <1>4 DEF a, LoopRuns
<1>7. ASSUME NEW i \in 1 .. n, i - 1 \in S PROVE i \in S
  <2>1. g[i - 1][1] \subseteq g[i][1]
    <3>1. g[i - 1] \in Ordering BY <1>5
    <3>2. g[i - 1][1] \subseteq VisitDep(w, f, p, i, g[i - 1])[1] BY <3>1, VisitDepTyped
    <3>3. g[i] = VisitDep(w, f, p, i, g[i - 1]) BY <1>5
    <3>4. QED BY <3>2, <3>3
  <2>2. p[2][1] \cup {p[1]} \subseteq g[i - 1][1] BY <1>7
  <2>3. i \in 0 .. n OBVIOUS
  <2>4. QED BY <2>1, <2>2, <2>3
<1>8. 0 .. n \subseteq S
  <2> HIDE DEF S, n
  <2>1. QED BY <1>1, <1>6, <1>7, UpTo
<1>9. QED BY <1>4, <1>5, <1>8 DEF IsVisit, LoopRuns, a

\* What it keeps depends on the answers to visits of smaller rank only.
LEMMA VisitUnique ==
    ASSUME NEW w, Closed(w), NEW f \in Advancing, NEW p \in Group!Visits,
           NEW v, \A q \in Group!Visits : VisitRank(q) < VisitRank(p) => v[q] = f[q],
           NEW g, IsVisit(w, f, p, g)
    PROVE  Visited(w, v, p) = g
<1> DEFINE n == Len(w.deps[p[1]])
           a == <<p[2][1] \cup {p[1]}, p[2][2]>>
           loop(k) == [i \in 0 .. n |-> IF i = 0 THEN a ELSE VisitDep(w, v, p, i, k[i - 1])]
           s == Visited(w, v, p)
<1>1. n \in Nat BY VisitsParts DEF Closed
<1>2. ASSUME NEW i \in 1 .. n
      PROVE  VisitDep(w, v, p, i, g[i - 1]) = VisitDep(w, f, p, i, g[i - 1])
  <2> DEFINE acc == g[i - 1]
             q == <<w.deps[p[1]][i], acc>>
  <2>0. i - 1 \in 0 .. n BY <1>1
  <2>1. acc \in Ordering /\ p[2][1] \cup {p[1]} \subseteq acc[1] BY <2>0 DEF IsVisit
  <2>2. q \in Group!Visits BY <2>1, VisitDepTyped
  <2>3. ASSUME w.deps[p[1]][i] \notin acc[1] PROVE v[q] = f[q]
    <3>1. VisitRank(q) < VisitRank(p)
      <4>1. q[1] \notin q[2][1] /\ p[2][1] \cup {p[1]} \subseteq q[2][1] BY <2>1, <2>3
      <4> HIDE DEF q
      <4>2. QED BY <2>2, <4>1, VisitRankLess
    <3> HIDE DEF q
    <3>2. QED BY <2>2, <3>1
  <2> HIDE DEF acc
  <2>4. VisitDep(w, v, p, i, acc) = VisitDep(w, f, p, i, acc) BY <2>3 DEF VisitDep
  <2>5. QED BY <2>4 DEF acc
<1>3. g = loop(g)
  <2>1. ASSUME NEW i \in 0 .. n
        PROVE  g[i] = IF i = 0 THEN a ELSE VisitDep(w, v, p, i, g[i - 1])
    <3>1. CASE i = 0 BY <3>1 DEF IsVisit
    <3>2. CASE i # 0
      <4>1. i \in 1 .. n BY <1>1, <3>2
      <4>2. g[i] = VisitDep(w, f, p, i, g[i - 1]) BY <4>1 DEF IsVisit
      <4>3. QED BY <4>1, <4>2, <3>2, <1>2
    <3>3. QED BY <3>1, <3>2
  <2>2. g \in [0 .. n -> Ordering] BY DEF IsVisit
  <2> HIDE DEF n, a
  <2>3. QED BY <2>1, <2>2
<1>4. s = loop(s)
  <2>1. s = CHOOSE k : k = loop(k) BY DEF Visited
  <2> HIDE DEF s, loop
  <2>2. QED BY <1>3, <2>1
<1> HIDE DEF s
<1> DEFINE S == {i \in 0 .. n : s[i] = g[i]}
<1>5. 0 \in S BY <1>1, <1>3, <1>4
<1>6. ASSUME NEW i \in 1 .. n, i - 1 \in S PROVE i \in S
  <2>0. i \in 0 .. n /\ i # 0 BY <1>1
  <2>1. s[i] = loop(s)[i] /\ g[i] = loop(g)[i] BY <1>3, <1>4
  <2>2. loop(s)[i] = VisitDep(w, v, p, i, s[i - 1])
        /\ loop(g)[i] = VisitDep(w, v, p, i, g[i - 1])
    BY <2>0
  <2>3. QED BY <1>6, <2>0, <2>1, <2>2
<1>7. 0 .. n \subseteq S
  <2> HIDE DEF S, n
  <2>1. QED BY <1>1, <1>5, <1>6, UpTo
<1>8. s = g
  <2>1. s = [i \in 0 .. n |-> s[i]] /\ g = [i \in 0 .. n |-> g[i]] BY <1>3, <1>4
  <2>2. QED BY <1>7, <2>1
<1>9. QED BY <1>8 DEF s

\* visit_deps returns what its loop keeps last, and its node behind it.
LEMMA VisitDepsIs ==
    ASSUME NEW w, NEW f, NEW p
    PROVE  Group!visit_deps(w, f, p) = VisitResult(p, Visited(w, f, p)[Len(w.deps[p[1]])])
BY DEF Group!visit_deps, Visited, VisitDep, VisitResult

\* That is visited services and an order.
LEMMA VisitResultTyped ==
    ASSUME NEW p, p[1] \in Group!Services, NEW a \in Ordering
    PROVE  VisitResult(p, a) \in Ordering /\ VisitResult(p, a)[1] = a[1]
<1> DEFINE o == Append(a[2], p[1])
<1>1. a[2] \in Seq(Group!Services) /\ a[1] \in SUBSET Group!Services BY DEF Ordering
<1>2. o \in Seq(Group!Services) BY <1>1
<1> HIDE DEF o
<1>3. <<a[1], o>> \in Ordering /\ <<a[1], o>>[1] = a[1] BY <1>1, <1>2 DEF Ordering
<1>4. QED BY <1>3 DEF VisitResult, o

\* The equation of topo_visit has a solution.
LEMMA VisitSolved ==
    ASSUME NEW w, Closed(w)
    PROVE  \E f \in Advancing : \A p \in Group!Visits : f[p] = Group!visit_deps(w, f, p)
<1> DEFINE b == [f \in Advancing |-> [p \in Group!Visits |-> Group!visit_deps(w, f, p)]]
           rank == [p \in Group!Visits |-> VisitRank(p)]
           n == Cardinality(Group!Services) + 2
           f0 == [p \in Group!Visits |-> <<p[2][1] \cup {p[1]}, p[2][2]>>]
<1>1. n \in Nat
  <2>1. Group!Services \in SUBSET Group!Services OBVIOUS
  <2>2. QED BY <2>1, SubsetCount
<1>2. Ranked(Group!Visits, n, rank) BY VisitRankBounds DEF Ranked
<1>3. f0 \in Advancing
  <2>1. ASSUME NEW p \in Group!Visits PROVE <<p[2][1] \cup {p[1]}, p[2][2]>> \in Ordering
    BY VisitsParts DEF Ordering
  <2>2. QED BY <2>1 DEF Advancing
<1>4. ASSUME NEW f \in Advancing, NEW p \in Group!Visits
      PROVE  Group!visit_deps(w, f, p) \in Ordering /\ p[2][1] \cup {p[1]} \subseteq Group!visit_deps(w, f, p)[1]
  <2>1. PICK g : IsVisit(w, f, p, g) BY VisitExists
  <2>2. Visited(w, f, p) = g BY <2>1, VisitUnique
  <2>3. Len(w.deps[p[1]]) \in Nat BY VisitsParts DEF Closed
  <2> DEFINE a == g[Len(w.deps[p[1]])]
  <2>4. a \in Ordering /\ p[2][1] \cup {p[1]} \subseteq a[1] BY <2>1, <2>3 DEF IsVisit
  <2>5. Group!visit_deps(w, f, p) = VisitResult(p, a) BY <2>2, VisitDepsIs
  <2> HIDE DEF a
  <2>6. VisitResult(p, a) \in Ordering /\ VisitResult(p, a)[1] = a[1]
    BY <2>4, VisitsParts, VisitResultTyped
  <2>7. QED BY <2>4, <2>5, <2>6
<1>5. ASSUME NEW f \in Advancing PROVE b[f] \in Advancing
  <2>1. b[f] = [p \in Group!Visits |-> Group!visit_deps(w, f, p)] OBVIOUS
  <2> HIDE DEF b
  <2>2. QED BY <2>1, <1>4 DEF Advancing
<1>6. Local(Group!Visits, Advancing, rank, b)
  <2>1. SUFFICES ASSUME NEW f \in Advancing, NEW g \in Advancing, NEW p \in Group!Visits,
                        \A q \in Group!Visits : rank[q] < rank[p] => f[q] = g[q]
                 PROVE  b[f][p] = b[g][p]
    BY DEF Local
  <2>2. PICK k : IsVisit(w, f, p, k) BY VisitExists
  <2>3. Visited(w, f, p) = k BY <2>2, VisitUnique
  <2>4. \A q \in Group!Visits : VisitRank(q) < VisitRank(p) => g[q] = f[q] BY <2>1
  <2>5. Visited(w, g, p) = k BY <2>2, <2>4, VisitUnique
  <2>6. Group!visit_deps(w, f, p) = Group!visit_deps(w, g, p) BY <2>3, <2>5, VisitDepsIs
  <2>7. QED BY <2>6
<1>7. \E f \in Advancing : \A p \in Group!Visits : f[p] = b[f][p]
  <2> HIDE DEF b, rank, n, f0
  <2>1. QED BY <1>1, <1>2, <1>3, <1>5, <1>6, Recursion
<1>8. QED BY <1>7

\* topo_visit satisfies its equation.
LEMMA VisitDefined ==
    ASSUME NEW w, Closed(w)
    PROVE  /\ Group!topo_visit(w) \in Advancing
           /\ \A p \in Group!Visits :
                 \E g : /\ IsVisit(w, Group!topo_visit(w), p, g)
                        /\ Group!topo_visit(w)[p] = VisitResult(p, g[Len(w.deps[p[1]])])
<1> DEFINE eq(v) == [p \in Group!Visits |-> Group!visit_deps(w, v, p)]
           V == Group!topo_visit(w)
<1>1. PICK f \in Advancing : \A p \in Group!Visits : f[p] = Group!visit_deps(w, f, p) BY VisitSolved
<1>2. f = eq(f) BY <1>1 DEF Advancing
<1>3. V = eq(V)
  <2>1. V = CHOOSE v : v = eq(v) BY DEF Group!topo_visit
  <2> HIDE DEF V, eq
  <2>2. QED BY <1>2, <2>1
<1> HIDE DEF V
<1> DEFINE S == {m \in Nat : \A p \in Group!Visits : VisitRank(p) < m => V[p] = f[p]}
<1>4. 0 \in S BY VisitRankBounds
<1>5. ASSUME NEW m \in Nat, m \in S PROVE m + 1 \in S
  <2>1. SUFFICES ASSUME NEW p \in Group!Visits, VisitRank(p) < m + 1 PROVE V[p] = f[p] OBVIOUS
  <2>2. ASSUME NEW q \in Group!Visits, VisitRank(q) < VisitRank(p) PROVE V[q] = f[q]
    <3>1. VisitRank(q) < m BY <2>1, <2>2, VisitRankBounds
    <3>2. QED BY <1>5, <3>1
  <2>3. PICK g : IsVisit(w, f, p, g) BY VisitExists
  <2>4. Visited(w, f, p) = g BY <2>3, VisitUnique
  <2>5. Visited(w, V, p) = g BY <2>2, <2>3, VisitUnique
  <2>6. V[p] = Group!visit_deps(w, V, p) BY <1>3
  <2>7. QED BY <1>1, <2>4, <2>5, <2>6, VisitDepsIs
<1>6. Nat \subseteq S
  <2> HIDE DEF S
  <2>1. QED BY <1>4, <1>5, SetInduction
<1>7. V = f
  <2>1. \A p \in Group!Visits : V[p] = f[p] BY <1>6, VisitRankBounds
  <2>2. V = [p \in Group!Visits |-> V[p]] BY <1>3
  <2>3. f = [p \in Group!Visits |-> f[p]] BY DEF Advancing
  <2>4. QED BY <2>1, <2>2, <2>3
<1>8. ASSUME NEW p \in Group!Visits
      PROVE  \E g : IsVisit(w, f, p, g) /\ f[p] = VisitResult(p, g[Len(w.deps[p[1]])])
  <2>1. PICK g : IsVisit(w, f, p, g) BY VisitExists
  <2>2. Visited(w, f, p) = g BY <2>1, VisitUnique
  <2>3. QED BY <1>1, <2>1, <2>2, VisitDepsIs
<1>9. QED BY <1>7, <1>8 DEF V

-----------------------------------------------------------------------------
(* topo_visit orders the dependencies first.                                 *)

\* An order of the services of F, each once and after those it depends on.
Filled(w, o, F) ==
    /\ \A i \in 1 .. Len(o) : o[i] \in F
    /\ \A s \in F : \E i \in 1 .. Len(o) : o[i] = s
    /\ \A i, j \in 1 .. Len(o) : o[i] = o[j] => i = j
    /\ \A i \in 1 .. Len(o) : \A d \in Group!Members(w.deps[o[i]]) : \E j \in 1 .. i - 1 : o[j] = d

\* What a visit promises when the nodes K under visit lead to its node.
VisitAsked(w, p, K) ==
    /\ p[1] \notin p[2][1] /\ K \subseteq p[2][1]
    /\ Chain(w, K, p[1]) /\ Filled(w, p[2][2], p[2][1] \ K)

VisitTold(w, r, K) == Filled(w, r[2], r[1] \ K)

\* A service goes behind the services it depends on.
LEMMA FilledAppend ==
    ASSUME NEW w, NEW o \in Seq(Group!Services), NEW F, NEW node \in Group!Services, Filled(w, o, F), node \notin F,
           Group!Members(w.deps[node]) \subseteq F
    PROVE  Filled(w, Append(o, node), F \cup {node})
<1> DEFINE n == Len(o)
           q == Append(o, node)
<1>1. /\ n \in Nat /\ Len(q) = n + 1 /\ q[n + 1] = node
      /\ \A i \in 1 .. n : q[i] = o[i]
  OBVIOUS
<1>2. \A i \in 1 .. n + 1 : i \in 1 .. n \/ i = n + 1 BY <1>1
<1> HIDE DEF q, n
<1>3. \A i \in 1 .. n + 1 : q[i] \in F \cup {node} BY <1>1, <1>2 DEF Filled, n
<1>4. ASSUME NEW s \in F \cup {node} PROVE \E i \in 1 .. n + 1 : q[i] = s
  <2>1. CASE s = node
    <3>1. n + 1 \in 1 .. n + 1 BY <1>1
    <3>2. QED BY <1>1, <2>1, <3>1
  <2>2. CASE s \in F
    <3>1. PICK i \in 1 .. n : o[i] = s BY <2>2 DEF Filled, n
    <3>2. i \in 1 .. n + 1 BY <1>1
    <3>3. QED BY <1>1, <3>1, <3>2
  <2>3. QED BY <2>1, <2>2
<1>5. \A i, j \in 1 .. n + 1 : q[i] = q[j] => i = j BY <1>1, <1>2 DEF Filled, n
<1>6. ASSUME NEW i \in 1 .. n + 1, NEW d \in Group!Members(w.deps[q[i]])
      PROVE  \E j \in 1 .. i - 1 : q[j] = d
  <2>1. CASE i \in 1 .. n
    <3>1. PICK j \in 1 .. i - 1 : o[j] = d BY <1>1, <1>6, <2>1 DEF Filled, n
    <3>2. j \in 1 .. n BY <1>1, <2>1
    <3>3. QED BY <1>1, <3>1, <3>2
  <2>2. CASE i = n + 1
    <3>1. d \in F BY <1>1, <1>6, <2>2
    <3>2. PICK j \in 1 .. n : o[j] = d BY <3>1 DEF Filled, n
    <3>3. j \in 1 .. i - 1 BY <1>1, <2>2
    <3>4. QED BY <1>1, <3>2, <3>3
  <2>3. QED BY <1>2, <2>1, <2>2
<1>7. QED BY <1>1, <1>3, <1>4, <1>5, <1>6 DEF Filled, q

\* A visit keeps its promise when the nested ones do.
LEMMA VisitTells ==
    ASSUME NEW w, Closed(w), Group!Acyclic(w), NEW p \in Group!Visits, NEW K \in SUBSET Group!Services,
           VisitAsked(w, p, K),
           \A q \in Group!Visits : \A L \in SUBSET Group!Services :
              VisitRank(q) < VisitRank(p) /\ VisitAsked(w, q, L) => VisitTold(w, Group!topo_visit(w)[q], L)
    PROVE  VisitTold(w, Group!topo_visit(w)[p], K)
<1> DEFINE V == Group!topo_visit(w)
           deps == w.deps[p[1]]
           n == Len(deps)
           L == K \cup {p[1]}
<1>1. PICK g : IsVisit(w, V, p, g) /\ V[p] = VisitResult(p, g[n]) BY VisitDefined
<1>2. V \in Advancing BY VisitDefined
<1>3. /\ deps \in Seq(Group!Services) /\ n \in Nat /\ p[1] \in Group!Services /\ L \in SUBSET Group!Services
  <2>1. p[1] \in Group!Services BY VisitsParts
  <2>2. deps \in Seq(Group!Services) BY <2>1 DEF Closed
  <2>3. L \in SUBSET Group!Services BY <2>1
  <2> HIDE DEF deps, L
  <2>4. QED BY <2>1, <2>2, <2>3
<1>4. \A i \in 1 .. n : deps[i] \in Group!Members(deps) /\ deps[i] \in Group!Services
  BY <1>3 DEF Group!Members
<1>5. \A i \in 0 .. n : g[i] \in Ordering /\ p[2][1] \cup {p[1]} \subseteq g[i][1]
  BY <1>1 DEF IsVisit
<1> HIDE DEF V
<1> DEFINE Kept(i) == /\ Filled(w, g[i][2], g[i][1] \ L)
                      /\ \A k \in 1 .. i : deps[k] \in g[i][1] \ L
<1>6. Kept(0)
  <2>1. g[0][1] = p[2][1] \cup {p[1]} /\ g[0][2] = p[2][2] BY <1>1 DEF IsVisit
  <2>2. (p[2][1] \cup {p[1]}) \ L = p[2][1] \ K BY DEF VisitAsked
  <2>3. Filled(w, p[2][2], p[2][1] \ K) BY DEF VisitAsked
  <2>4. 1 .. 0 = {} OBVIOUS
  <2>5. QED BY <2>1, <2>2, <2>3, <2>4
<1>7. ASSUME NEW i \in 1 .. n, Kept(i - 1) PROVE Kept(i)
  <2> DEFINE acc == g[i - 1]
             q == <<deps[i], acc>>
  <2>0. i - 1 \in 0 .. n /\ i \in 0 .. n /\ (i - 1) + 1 = i BY <1>3
  <2>1. acc \in Ordering /\ p[2][1] \cup {p[1]} \subseteq acc[1] BY <1>5, <2>0
  <2>2. g[i] = VisitDep(w, V, p, i, acc) BY <1>1 DEF IsVisit
  <2>3. Filled(w, acc[2], acc[1] \ L) /\ \A k \in 1 .. i - 1 : deps[k] \in acc[1] \ L
    BY <1>7
  <2>4. \A k \in 1 .. i : k \in 1 .. i - 1 \/ k = i BY <1>3
  <2>5. deps[i] \in Group!Members(deps) /\ deps[i] \in Group!Services BY <1>4
  <2>6. deps[i] \notin L BY <1>3, <2>5, CycleFound DEF VisitAsked
  <2> HIDE DEF acc
  <2>7. CASE deps[i] \in acc[1]
    <3>1. g[i] = acc BY <2>2, <2>7 DEF VisitDep
    <3>2. QED BY <3>1, <2>0, <2>3, <2>4, <2>6, <2>7
  <2>8. CASE deps[i] \notin acc[1]
    <3>1. g[i] = V[q] BY <2>2, <2>8 DEF VisitDep
    <3>2. q \in Group!Visits BY <1>2, <2>1, VisitDepTyped
    <3>3. q[1] = deps[i] /\ q[2] = acc OBVIOUS
    <3> HIDE DEF q
    <3>4. VisitRank(q) < VisitRank(p) BY <2>1, <2>8, <3>2, <3>3, VisitRankLess
    <3>5. L \subseteq acc[1] BY <2>1 DEF VisitAsked
    <3>6. Chain(w, L, deps[i]) BY <2>5 DEF VisitAsked, Chain
    <3>7. VisitAsked(w, q, L) BY <2>3, <2>8, <3>3, <3>5, <3>6 DEF VisitAsked
    <3>8. VisitTold(w, V[q], L) BY <1>3, <3>2, <3>4, <3>7 DEF V
    <3>9. acc[1] \cup {deps[i]} \subseteq g[i][1] BY <1>2, <3>1, <3>2, <3>3 DEF Advancing
    <3>10. \A k \in 1 .. i : deps[k] \in g[i][1] \ L
      BY <2>3, <2>4, <2>6, <3>9
    <3>11. Filled(w, g[i][2], g[i][1] \ L) BY <3>1, <3>8 DEF VisitTold
    <3>12. QED BY <2>0, <3>10, <3>11
  <2>9. QED BY <2>7, <2>8
<1>8. Kept(n)
  <2> DEFINE S == {i \in 0 .. n : Kept(i)}
  <2> HIDE DEF n, Kept
  <2>1. 0 \in S BY <1>3, <1>6
  <2>2. ASSUME NEW i \in 1 .. n, i - 1 \in S PROVE i \in S BY <1>3, <1>7, <2>2
  <2> HIDE DEF S
  <2>3. 0 .. n \subseteq S BY <1>3, <2>1, <2>2, UpTo
  <2>4. n \in S BY <1>3, <2>3
  <2>5. QED BY <2>4 DEF S
<1> DEFINE F == g[n][1] \ L
           o == g[n][2]
<1>9. Filled(w, o, F) /\ \A k \in 1 .. n : deps[k] \in F BY <1>8
<1>10. DOMAIN deps = 1 .. n BY <1>3
<1>11. Group!Members(deps) \subseteq F BY <1>9, <1>10 DEF Group!Members
<1>12. p[1] \notin F OBVIOUS
<1>13. g[n] \in Ordering /\ p[2][1] \cup {p[1]} \subseteq g[n][1] BY <1>3, <1>5
<1>14. g[n][1] \ K = F \cup {p[1]} BY <1>13 DEF VisitAsked
<1>15. o \in Seq(Group!Services) BY <1>13 DEF Ordering
<1>16. V[p][1] = g[n][1] /\ V[p][2] = Append(o, p[1])
  <2>1. V[p] = <<g[n][1], Append(o, p[1])>> BY <1>1 DEF VisitResult
  <2> HIDE DEF o, n
  <2>2. QED BY <2>1
<1> HIDE DEF F, o
<1>17. Filled(w, Append(o, p[1]), F \cup {p[1]})
  BY <1>3, <1>9, <1>11, <1>12, <1>15, FilledAppend
<1>18. QED BY <1>14, <1>16, <1>17 DEF VisitTold, V

\* Every visit keeps its promise, by induction on its rank.
LEMMA EveryVisitTells ==
    ASSUME NEW w, Closed(w), Group!Acyclic(w), NEW p \in Group!Visits, NEW K \in SUBSET Group!Services,
           VisitAsked(w, p, K)
    PROVE  VisitTold(w, Group!topo_visit(w)[p], K)
<1> DEFINE V == Group!topo_visit(w)
           S == {m \in Nat : \A q \in Group!Visits : \A L \in SUBSET Group!Services :
                    VisitRank(q) < m /\ VisitAsked(w, q, L) => VisitTold(w, V[q], L)}
<1> HIDE DEF V
<1>1. 0 \in S BY VisitRankBounds
<1>2. ASSUME NEW m \in Nat, m \in S PROVE m + 1 \in S
  <2>1. SUFFICES ASSUME NEW q \in Group!Visits, NEW L \in SUBSET Group!Services, VisitRank(q) < m + 1,
                        VisitAsked(w, q, L)
                 PROVE  VisitTold(w, V[q], L)
    OBVIOUS
  <2>2. ASSUME NEW r \in Group!Visits, NEW M \in SUBSET Group!Services, VisitRank(r) < VisitRank(q),
               VisitAsked(w, r, M)
        PROVE  VisitTold(w, V[r], M)
    <3>1. VisitRank(r) < m BY <2>1, <2>2, VisitRankBounds
    <3>2. QED BY <1>2, <2>2, <3>1
  <2>3. QED BY <2>1, <2>2, VisitTells DEF V
<1>3. Nat \subseteq S
  <2> HIDE DEF S
  <2>1. QED BY <1>1, <1>2, SetInduction
<1>4. Cardinality(Group!Services) + 2 \in Nat /\ VisitRank(p) < Cardinality(Group!Services) + 2
  BY VisitRankBounds
<1>5. QED BY <1>3, <1>4 DEF V

\* one round of the loop of topological_order, and what it keeps
OrderName(w, i, acc) ==
    IF Names[i] \in acc[1] THEN acc ELSE Group!topo_visit(w)[<<Names[i], acc>>]

OrderedAll(w) ==
    CHOOSE g : g = [i \in 0 .. Len(Names) |->
                      IF i = 0 THEN <<{}, << >> >> ELSE OrderName(w, i, g[i - 1])]

OrderLoop(w, g) ==
    /\ g \in [0 .. Len(Names) -> Ordering]
    /\ g[0] = <<{}, << >> >>
    /\ \A i \in 1 .. Len(Names) : g[i] = OrderName(w, i, g[i - 1])

\* A round of topological_order forgets nothing visited.
LEMMA OrderNameTyped ==
    ASSUME NEW w, Closed(w), NEW i \in 1 .. Len(Names), NEW acc \in Ordering
    PROVE  OrderName(w, i, acc) \in Ordering /\ acc[1] \subseteq OrderName(w, i, acc)[1]
<1> DEFINE q == <<Names[i], acc>>
           V == Group!topo_visit(w)
<1>1. q \in Group!Visits BY NamesShape DEF Group!Visits, Ordering
<1>2. V \in Advancing BY VisitDefined
<1>3. V[q] \in Ordering /\ acc[1] \subseteq V[q][1] BY <1>1, <1>2 DEF Advancing
<1>4. OrderName(w, i, acc) \in {acc, V[q]} BY DEF OrderName
<1> HIDE DEF q, V
<1>5. QED BY <1>3, <1>4

\* The loop of topological_order runs.
LEMMA NamesOrdered == ASSUME NEW w, Closed(w) PROVE OrderLoop(w, OrderedAll(w))
<1> DEFINE n == Len(Names)
           a == <<{}, << >> >>
           h == [x \in (1 .. n) \X Ordering |-> OrderName(w, x[1], x[2])]
           loop(k) == [i \in 0 .. n |-> IF i = 0 THEN a ELSE OrderName(w, i, k[i - 1])]
           s == OrderedAll(w)
<1>1. n \in Nat BY NamesShape
<1>2. a \in Ordering
  <2>1. << >> \in Seq(Group!Services) OBVIOUS
  <2>2. QED BY <2>1 DEF Ordering
<1>3. h \in Rounds(n, Ordering) BY OrderNameTyped DEF Rounds
<1> HIDE DEF h, a
<1>4. PICK g : LoopRuns(n, Ordering, a, h, g)
  <2> HIDE DEF n
  <2>1. QED BY <1>1, <1>2, <1>3, Loop
<1>5. ASSUME NEW i \in 1 .. n
      PROVE  g[i] = OrderName(w, i, g[i - 1]) /\ g[i - 1] \in Ordering
  <2>1. g[i - 1] \in Ordering BY <1>1, <1>4 DEF LoopRuns
  <2>2. <<i, g[i - 1]>> \in (1 .. n) \X Ordering BY <2>1
  <2>3. h[<<i, g[i - 1]>>] = OrderName(w, i, g[i - 1]) BY <2>2 DEF h
  <2>4. QED BY <1>4, <2>1, <2>3 DEF LoopRuns
<1>6. g = loop(g)
  <2>1. ASSUME NEW i \in 0 .. n PROVE g[i] = IF i = 0 THEN a ELSE OrderName(w, i, g[i - 1])
    <3>1. CASE i = 0 BY <3>1, <1>4 DEF LoopRuns
    <3>2. CASE i # 0 BY <1>1, <1>5, <3>2
    <3>3. QED BY <3>1, <3>2
  <2>2. g \in [0 .. n -> Ordering] BY <1>4 DEF LoopRuns
  <2> HIDE DEF n
  <2>3. QED BY <2>1, <2>2
<1>7. s = loop(s)
  <2>1. s = CHOOSE k : k = loop(k) BY DEF OrderedAll, a
  <2> HIDE DEF s, loop
  <2>2. QED BY <1>6, <2>1
<1> HIDE DEF s
<1> DEFINE S == {i \in 0 .. n : s[i] = g[i]}
<1>8. 0 \in S BY <1>1, <1>6, <1>7
<1>9. ASSUME NEW i \in 1 .. n, i - 1 \in S PROVE i \in S
  <2>1. i \in 0 .. n /\ i # 0 BY <1>1
  <2>2. s[i] = loop(s)[i] /\ g[i] = loop(g)[i] BY <1>6, <1>7
  <2>3. loop(s)[i] = OrderName(w, i, s[i - 1]) /\ loop(g)[i] = OrderName(w, i, g[i - 1])
    BY <2>1
  <2>4. QED BY <1>9, <2>1, <2>2, <2>3
<1>10. 0 .. n \subseteq S
  <2> HIDE DEF S, n
  <2>1. QED BY <1>1, <1>8, <1>9, UpTo
<1>11. s = g
  <2>1. s = [i \in 0 .. n |-> s[i]] /\ g = [i \in 0 .. n |-> g[i]] BY <1>6, <1>7
  <2>2. QED BY <1>10, <2>1
<1>12. OrderLoop(w, g)
  <2>1. g \in [0 .. n -> Ordering] /\ g[0] = a BY <1>4 DEF LoopRuns
  <2>2. QED BY <2>1, <1>5 DEF OrderLoop, a
<1>13. QED BY <1>11, <1>12 DEF s

\* topological_order puts every service of an acyclic file after its dependencies.
LEMMA TopologicalOrder ==
    ASSUME NEW w, Closed(w), Group!Acyclic(w)
    PROVE  Group!topological_order(w) \in Seq(Group!Services) /\ Filled(w, Group!topological_order(w), Group!Services)
<1> DEFINE n == Len(Names)
           g == OrderedAll(w)
           V == Group!topo_visit(w)
<1>1. OrderLoop(w, g) BY NamesOrdered
<1>2. n \in Nat BY NamesShape
<1>3. V \in Advancing BY VisitDefined
<1>4. Group!topological_order(w) = g[n][2] BY DEF Group!topological_order, OrderedAll, OrderName
<1> HIDE DEF g, V
<1> DEFINE Kept(i) == Filled(w, g[i][2], g[i][1]) /\ \A k \in 1 .. i : Names[k] \in g[i][1]
<1>5. Kept(0)
  <2>1. g[0][1] = {} /\ g[0][2] = << >> BY <1>1 DEF OrderLoop
  <2>2. Filled(w, << >>, {}) BY DEF Filled
  <2>3. QED BY <2>1, <2>2
<1>6. ASSUME NEW i \in 1 .. n, Kept(i - 1) PROVE Kept(i)
  <2> DEFINE acc == g[i - 1]
             q == <<Names[i], acc>>
  <2>0. i - 1 \in 0 .. n /\ i \in 0 .. n BY <1>2
  <2>1. acc \in Ordering /\ g[i] = OrderName(w, i, acc) BY <1>1, <2>0 DEF OrderLoop
  <2>2. Filled(w, acc[2], acc[1]) /\ \A k \in 1 .. i - 1 : Names[k] \in acc[1]
    BY <1>6
  <2>3. \A k \in 1 .. i : k \in 1 .. i - 1 \/ k = i BY <1>2
  <2>4. Names[i] \in Group!Services BY NamesShape
  <2> HIDE DEF acc
  <2>5. CASE Names[i] \in acc[1]
    <3>1. g[i] = acc BY <2>1, <2>5 DEF OrderName
    <3>2. QED BY <3>1, <2>2, <2>3, <2>5
  <2>6. CASE Names[i] \notin acc[1]
    <3>1. g[i] = V[q] BY <2>1, <2>6 DEF OrderName, V
    <3>2. q \in Group!Visits BY <2>1, <2>4 DEF Group!Visits, Ordering
    <3>3. q[1] = Names[i] /\ q[2] = acc OBVIOUS
    <3> HIDE DEF q
    <3>4. acc[1] \ {} = acc[1] /\ {} \in SUBSET Group!Services OBVIOUS
    <3>5. VisitAsked(w, q, {}) BY <2>2, <2>6, <3>3, <3>4 DEF VisitAsked, Chain
    <3>6. VisitTold(w, V[q], {}) BY <3>2, <3>4, <3>5, EveryVisitTells DEF V
    <3>7. acc[1] \cup {Names[i]} \subseteq g[i][1] BY <1>3, <3>1, <3>2, <3>3 DEF Advancing
    <3>8. g[i][1] \ {} = g[i][1] OBVIOUS
    <3>9. Filled(w, g[i][2], g[i][1]) BY <3>1, <3>6, <3>8 DEF VisitTold
    <3>10. \A k \in 1 .. i : Names[k] \in g[i][1] BY <2>2, <2>3, <3>7
    <3>11. QED BY <3>9, <3>10
  <2>7. QED BY <2>5, <2>6
<1>7. Kept(n)
  <2> DEFINE S == {i \in 0 .. n : Kept(i)}
  <2> HIDE DEF n, Kept
  <2>1. 0 \in S BY <1>2, <1>5
  <2>2. ASSUME NEW i \in 1 .. n, i - 1 \in S PROVE i \in S BY <1>2, <1>6, <2>2
  <2> HIDE DEF S
  <2>3. 0 .. n \subseteq S BY <1>2, <2>1, <2>2, UpTo
  <2>4. n \in S BY <1>2, <2>3
  <2>5. QED BY <2>4 DEF S
<1>8. g[n] \in Ordering BY <1>1, <1>2 DEF OrderLoop
<1>9. g[n][2] \in Seq(Group!Services) /\ g[n][1] \subseteq Group!Services BY <1>8 DEF Ordering
<1>10. \A k \in 1 .. n : Names[k] \in g[n][1] BY <1>7
<1>11. g[n][1] = Group!Services BY <1>9, <1>10, NamesShape
<1>12. QED BY <1>4, <1>7, <1>9, <1>11

-----------------------------------------------------------------------------
(* Nothing runs before every check is through, the services start in the     *)
(* order, and what was started is stopped by whatever makes run_serve return. *)

Ports(w) == {w.port[s] : s \in Group!Services}

\* Every port is the port of one service exactly when there are as many.
LEMMA OwnPorts ==
    ASSUME NEW w
    PROVE  (\A s, t \in Group!Services : s # t => w.port[s] # w.port[t])
           <=> Cardinality(Ports(w)) = Cardinality(Group!Services)
<1> DEFINE f == [s \in Group!Services |-> w.port[s]]
           P == Ports(w)
<1>1. f \in Surjection(Group!Services, P) BY DEF Surjection, Ports
<1>2. f \in Injection(Group!Services, P) <=> \A s, t \in Group!Services : s # t => w.port[s] # w.port[t]
  <2>1. f \in [Group!Services -> P] BY <1>1 DEF Surjection
  <2>2. DOMAIN f = Group!Services /\ \A s \in Group!Services : f[s] = w.port[s] OBVIOUS
  <2> HIDE DEF f
  <2>3. QED BY <2>1, <2>2 DEF Injection, IsInjective
<1> HIDE DEF f, P
<1>3. Cardinality(P) = Cardinality(Group!Services) <=> f \in Injection(Group!Services, P)
  BY <1>1, FiniteServices, FS_Surjection
<1>4. QED BY <1>2, <1>3 DEF P

\* The checks of validate_workspace accept exactly the files they should.
LEMMA ValidExactly ==
    ASSUME NEW w \in Configs
    PROVE  /\ Group!validate_workspace(w) <=> /\ \A s \in Group!Services : Group!Members(w.deps[s]) \subseteq Group!Services
                                              /\ Group!Acyclic(w)
                                              /\ Cardinality(Ports(w)) = Cardinality(Group!Services)
           /\ Group!validate_workspace(w) => Closed(w)
<1> DEFINE known == \A s \in Group!Services : Group!Members(w.deps[s]) \subseteq Group!Services
           others == \A s \in Group!Services : Group!Members(w.deps[s]) \subseteq Group!Services \ {s}
           own == \A s, t \in Group!Services : s # t => w.port[s] # w.port[t]
<1>1. known => Closed(w)
  <2>1. SUFFICES ASSUME known, NEW s \in Group!Services PROVE w.deps[s] \in Seq(Group!Services) BY DEF Closed
  <2>2. w.deps[s] \in Seq(Group!Members(w.deps[s])) BY GroupAssumption DEF Group!Described
  <2>3. Group!Members(w.deps[s]) \subseteq Group!Services BY <2>1
  <2>4. QED BY <2>2, <2>3
<1>2. known => (Group!has_circular_deps(w) <=> ~Group!Acyclic(w)) BY <1>1, CircularDeps
<1>3. others => known OBVIOUS
<1>4. known /\ Group!Acyclic(w) => others
  <2>1. SUFFICES ASSUME known, Group!Acyclic(w), NEW s \in Group!Services PROVE s \notin Group!Members(w.deps[s])
    OBVIOUS
  <2>2. {s} \in (SUBSET Group!Services) \ {{}} OBVIOUS
  <2>3. PICK x \in {s} : Group!Members(w.deps[x]) \cap {s} = {} BY <2>1, <2>2 DEF Group!Acyclic
  <2>4. QED BY <2>3
<1>5. own <=> Cardinality(Ports(w)) = Cardinality(Group!Services) BY OwnPorts
<1>6. Group!validate_workspace(w) <=> others /\ ~Group!has_circular_deps(w) /\ own BY DEF Group!validate_workspace
<1> HIDE DEF known, others, own
<1>7. QED BY <1>1, <1>2, <1>3, <1>4, <1>5, <1>6 DEF known

\* What run_serve knows once the file is accepted.
LEMMA ValidOrder ==
    ASSUME NEW w \in Configs, Group!validate_workspace(w)
    PROVE  /\ Group!topological_order(w) \in Seq(Group!Services) /\ Filled(w, Group!topological_order(w), Group!Services)
           /\ Group!topological_order(w) # <<>>
<1>1. Closed(w) /\ Group!Acyclic(w) BY ValidExactly
<1> DEFINE o == Group!topological_order(w)
<1>2. o \in Seq(Group!Services) /\ Filled(w, o, Group!Services) BY <1>1, TopologicalOrder
<1> HIDE DEF o
<1>3. PICK s : s \in Group!Services
  <2>1. Len(Names) # 0 BY GroupAssumption DEF Group!Described
  <2>2. 1 \in 1 .. Len(Names) BY <2>1, NamesShape
  <2>3. QED BY <2>2, NamesShape
<1>4. o # <<>> BY <1>2, <1>3 DEF Filled
<1>5. QED BY <1>2, <1>4 DEF o

-----------------------------------------------------------------------------
\* Those that were started, however they ended.
EverStarted == {s \in Group!Services : child[s] # "none"}

Loads ==
    /\ stage = "load" => order = <<>>
    /\ order = <<>> => stage \in {"load", "returned"} /\ \A s \in Group!Services : child[s] = "none"
    /\ stage = "returned" /\ order = <<>> => ~Group!validate_workspace(ws)
    /\ order # <<>> => Group!validate_workspace(ws) /\ order = Group!topological_order(ws)

\* The services are started in the order, up to one.
Starts == \A i \in DOMAIN order : child[order[i]] # "none" <=> i <= Group!Spawned

GroupInv ==
    /\ Group!TypeOK /\ ws \in Configs
    /\ Loads /\ Starts
    /\ stage = "check" => \A s \in Group!Services : child[s] = "none"
    /\ Group!NoneLeftRunning

\* Spawned counts those that were started.
LEMMA SpawnedIs == Group!Spawned = Cardinality(EverStarted) /\ Group!Spawned \in Nat
<1>1. EverStarted \in SUBSET Group!Services BY DEF EverStarted
<1>2. QED BY <1>1, SubsetCount, GroupCardinality DEF Group!Spawned, EverStarted

\* GroupInv holds before run_serve has read the file.
LEMMA GroupStarts == ASSUME Group!Init PROVE GroupInv
BY DEF Group!Init, GroupInv, Group!TypeOK, Loads, Starts, Group!NoneLeftRunning

\* The order while there is one.
LEMMA Accepted ==
    ASSUME GroupInv, order # <<>>
    PROVE  /\ order \in Seq(Group!Services) /\ Filled(ws, order, Group!Services)
           /\ DOMAIN order = 1 .. Len(order) /\ Len(order) \in Nat
<1>1. order \in Seq(Group!Services) /\ Filled(ws, order, Group!Services) BY ValidOrder DEF GroupInv, Loads
<1>2. QED BY <1>1

\* Nothing but spawn() starts a service.
LEMMA StartsStay ==
    ASSUME GroupInv, order' = order, child' \in [Group!Services -> {"none", "running", "exited", "killed"}],
           \A s \in Group!Services : child'[s] = "none" <=> child[s] = "none"
    PROVE  Starts'
<1>1. CASE order = <<>> BY <1>1 DEF Starts
<1>2. CASE order # <<>>
  <2>1. Group!Spawned' = Group!Spawned
    <3>1. EverStarted' = EverStarted BY DEF EverStarted
    <3>2. QED BY <3>1 DEF Group!Spawned, EverStarted
  <2>2. \A i \in DOMAIN order : order[i] \in Group!Services BY <1>2, Accepted
  <2>3. QED BY <2>1, <2>2 DEF Starts, GroupInv
<1>3. QED BY <1>1, <1>2

\* The next service of the order is one that was not started.
LEMMA GroupSpawns == ASSUME GroupInv, Group!Spawn PROVE GroupInv'
<1>1. order # <<>> BY SpawnedIs DEF Group!Spawn
<1>2. /\ order \in Seq(Group!Services) /\ Filled(ws, order, Group!Services)
      /\ DOMAIN order = 1 .. Len(order) /\ Len(order) \in Nat
  BY <1>1, Accepted
<1> DEFINE k == Group!Spawned + 1
           s == order[k]
<1>3. k \in 1 .. Len(order) /\ s \in Group!Services /\ child[s] = "none"
  <2>1. k \in 1 .. Len(order) BY <1>2, SpawnedIs DEF Group!Spawn
  <2>2. s \in Group!Services BY <1>2, <2>1
  <2>3. ~(k <= Group!Spawned) BY SpawnedIs
  <2>4. QED BY <1>2, <2>1, <2>2, <2>3 DEF GroupInv, Starts
<1>4. EverStarted' = EverStarted \cup {s} /\ s \notin EverStarted
  BY <1>3 DEF Group!Spawn, EverStarted, GroupInv, Group!TypeOK
<1>5. Group!Spawned' = k
  <2>1. IsFiniteSet(EverStarted)
    <3>1. EverStarted \in SUBSET Group!Services BY DEF EverStarted
    <3>2. QED BY <3>1, SubsetCount
  <2>2. Group!Spawned' = Cardinality(EverStarted') BY GroupCardinality DEF Group!Spawned, EverStarted
  <2>3. QED BY <1>4, <2>1, <2>2, FS_AddElement, SpawnedIs
<1>6. child' \in [Group!Services -> {"none", "running", "exited", "killed"}]
      /\ child'[s] = "running" /\ \A t \in Group!Services : t # s => child'[t] = child[t]
  BY <1>3 DEF Group!Spawn, GroupInv, Group!TypeOK
<1>7. ASSUME NEW i \in 1 .. Len(order) PROVE child'[order[i]] # "none" <=> i <= k
  <2>1. CASE i = k BY <1>6, <2>1
  <2>2. CASE i # k
    <3>1. order[i] # s /\ order[i] \in Group!Services BY <1>2, <1>3, <2>2 DEF Filled
    <3>2. child[order[i]] # "none" <=> i <= Group!Spawned BY <1>2 DEF GroupInv, Starts
    <3>3. i <= Group!Spawned <=> i <= k BY <1>2, <2>2, SpawnedIs
    <3>4. QED BY <1>6, <3>1, <3>2, <3>3
  <2>3. QED BY <2>1, <2>2
<1>8. Starts' BY <1>2, <1>5, <1>7 DEF Starts, Group!Spawn
<1>9. QED BY <1>1, <1>6, <1>8 DEF Group!Spawn, GroupInv, Group!TypeOK, Loads, Group!NoneLeftRunning

\* kill() starts nothing and leaves nothing running but what it spares.
LEMMA KilledIs ==
    ASSUME GroupInv, NEW but
    PROVE  /\ Group!Killed(but) \in [Group!Services -> {"none", "running", "exited", "killed"}]
           /\ \A s \in Group!Services : Group!Killed(but)[s] = "none" <=> child[s] = "none"
           /\ \A s \in Group!Services : Group!Killed(but)[s] = "running" => s \in but
BY DEF Group!Killed, GroupInv, Group!TypeOK

\* Every step of run_serve and of its children keeps GroupInv.
LEMMA GroupKept == ASSUME GroupInv, [Group!Next]_(Group!vars) PROVE GroupInv'
<1> USE DEF Group!TypeOK, Loads, Group!NoneLeftRunning, Group!Returns
<1>1. CASE UNCHANGED Group!vars BY <1>1 DEF Group!vars, GroupInv, Starts, Group!Spawned
<1>2. CASE Group!Rejected
  <2>1. Starts' BY <1>2, StartsStay DEF Group!Rejected, GroupInv
  <2>2. QED BY <1>2, <2>1 DEF Group!Rejected, GroupInv
<1>3. ASSUME NEW found \in SUBSET Sagas, Group!Loaded(found) PROVE GroupInv'
  <2> DEFINE o == Group!topological_order(ws)
  <2>1. o # <<>> /\ o \in Seq(Group!Services) BY <1>3, ValidOrder DEF Group!Loaded, GroupInv
  <2> HIDE DEF o
  <2>2. order' = o /\ order = <<>> /\ child' = child /\ ws' = ws /\ code' = code
        /\ stage = "load" /\ stage' = "check" /\ Group!validate_workspace(ws)
    BY <1>3 DEF Group!Loaded, GroupInv, o
  <2>3. \A s \in Group!Services : child[s] = "none" BY <2>2 DEF GroupInv
  <2>4. Group!Spawned' = 0
    <3>1. EverStarted' = {} BY <2>2, <2>3 DEF EverStarted
    <3>2. Group!Spawned' = Cardinality(EverStarted') BY GroupCardinality DEF Group!Spawned, EverStarted
    <3>3. QED BY <3>1, <3>2, FS_EmptySet
  <2>5. Starts' BY <2>1, <2>2, <2>3, <2>4 DEF Starts
  <2>6. QED BY <2>1, <2>2, <2>3, <2>5 DEF GroupInv, o
<1>4. CASE Group!Checked \/ Group!CheckFails \/ Group!AllStarted
  <2>1. Starts' BY <1>4, StartsStay DEF Group!Checked, Group!CheckFails, Group!AllStarted, GroupInv
  <2>2. QED BY <1>4, <2>1 DEF Group!Checked, Group!CheckFails, Group!AllStarted, GroupInv
<1>5. CASE Group!Spawn BY <1>5, GroupSpawns
<1>6. CASE Group!SpawnFails
  <2>1. Starts' BY <1>6, StartsStay, KilledIs DEF Group!SpawnFails
  <2>2. order # <<>> BY <1>6 DEF Group!SpawnFails, GroupInv
  <2>3. QED BY <1>6, <2>1, <2>2, KilledIs DEF Group!SpawnFails, GroupInv
<1>7. ASSUME NEW s \in Group!Services, Group!ChildExits(s) PROVE GroupInv'
  <2>1. Starts' BY <1>7, StartsStay DEF Group!ChildExits, GroupInv
  <2>2. order # <<>> BY <1>7 DEF Group!ChildExits, GroupInv
  <2>3. QED BY <1>7, <2>1, <2>2 DEF Group!ChildExits, GroupInv
<1>8. CASE Group!Watch
  <2>1. PICK i \in DOMAIN order : /\ child[order[i]] = "exited" /\ child' = Group!Killed({order[i]})
                                  /\ Group!Returns("exited") /\ stage = "watch"
                                  /\ UNCHANGED <<ws, sagas, order>>
    BY <1>8 DEF Group!Watch
  <2>2. order # <<>> BY <2>1 DEF GroupInv
  <2>3. Starts' BY <2>1, StartsStay, KilledIs
  <2>4. \A s \in Group!Services : child'[s] # "running" BY <2>1, KilledIs DEF Group!Killed
  <2>5. QED BY <2>1, <2>2, <2>3, <2>4, KilledIs DEF GroupInv
<1>9. QED BY <1>1, <1>2, <1>3, <1>4, <1>5, <1>6, <1>7, <1>8 DEF Group!Next

\* What is checked of the workspace follows.
LEMMA GroupFacts ==
    ASSUME GroupInv
    PROVE  /\ Group!TypeOK /\ Group!RefusedExactly
           /\ Group!DependenciesFirst /\ Group!NoneLeftRunning
<1>1. Group!RefusedExactly
  <2>1. Group!validate_workspace(ws) <=>
          /\ \A s \in Group!Services : Group!Members(ws.deps[s]) \subseteq Group!Services
          /\ Group!Acyclic(ws)
          /\ Cardinality(Ports(ws)) = Cardinality(Group!Services)
    BY ValidExactly DEF GroupInv
  <2>2. stage # "load" => ((stage = "returned" /\ order = <<>>) <=> ~Group!validate_workspace(ws))
    BY DEF GroupInv, Loads
  <2>3. QED BY <2>1, <2>2, GroupCardinality DEF Group!RefusedExactly, Ports
<1>2. Group!DependenciesFirst
  <2>1. SUFFICES ASSUME NEW s \in Group!Services, child[s] # "none", NEW d \in Group!Members(ws.deps[s])
                 PROVE  child[d] # "none"
    BY DEF Group!DependenciesFirst
  <2>2. order # <<>> BY <2>1 DEF GroupInv, Loads
  <2>3. /\ Filled(ws, order, Group!Services) /\ DOMAIN order = 1 .. Len(order) /\ Len(order) \in Nat
    BY <2>2, Accepted
  <2>4. PICK i \in 1 .. Len(order) : order[i] = s BY <2>3 DEF Filled
  <2>5. PICK j \in 1 .. i - 1 : order[j] = d BY <2>1, <2>3, <2>4 DEF Filled
  <2>6. j \in 1 .. Len(order) /\ j <= i BY <2>3
  <2>7. i <= Group!Spawned BY <2>1, <2>3, <2>4 DEF GroupInv, Starts
  <2>8. j <= Group!Spawned BY <2>6, <2>7, SpawnedIs
  <2>9. QED BY <2>3, <2>5, <2>6, <2>8 DEF GroupInv, Starts
<1>3. QED BY <1>1, <1>2 DEF GroupInv

-----------------------------------------------------------------------------
(* The saga.  The services execute the steps 1, 2, 3, ... and are at most    *)
(* one step ahead of the row (Progress); while the task runs forward nobody  *)
(* has undone anything (Forwards); during the rollback the steps still in     *)
(* force are those not reached yet and those in doubt (Backwards); and each  *)
(* status was written in the state it names (StatusSays).                    *)

Proceeding == {"select", "wait", "record", "complete"}
RollingBack == {"cselect", "cloop", "cwait", "cfinish"}

Progress ==
    /\ \A i \in DOMAIN done : done[i] = i
    /\ step <= Len(done) /\ Len(done) <= step + 1
    /\ \A m \in net : m.kind = "do" =>
          m = Do(m.step) /\ m.step = Len(done) + 1 /\ Len(done) = step
    /\ pc \in {"idle", "select", "complete", "wait"} => Len(done) = step
    /\ pc = "record" => Len(done) = step + 1
    /\ pc \in {"idle", "select", "complete"} => \A m \in net : m.kind # "do"
    /\ pc = "wait" => step < N

Forwards ==
    /\ pc = "idle" => status = "none"
    /\ pc \in Proceeding \union {"fail"} => status = "running"
    /\ status \in {"none", "running", "completed"} =>
          /\ asked = {} /\ inForce = 1 .. Len(done)
          /\ \A m \in net : m.kind = "do"

\* what is in force at a service is in doubt, or still to be compensated
LeftOver(upto) == inForce \subseteq doubt \union 1 .. upto
LateInDoubt == \A m \in net : m.kind = "do" => m.step \in doubt

Backwards ==
    /\ pc = "fail" => LateInDoubt /\ LeftOver(step)
    /\ pc \in RollingBack => status = "compensating" /\ LateInDoubt
    /\ pc = "cselect" => asked = {} /\ LeftOver(step)
    /\ pc \in {"cloop", "cwait"} =>
          /\ ci <= step /\ LeftOver(ci)
          /\ (ci + 1) .. step \subseteq asked \union NoCompensate
          /\ \A a \in asked : a > ci \/ (pc = "cwait" /\ a = ci)
    /\ pc = "cwait" => ci > 0 /\ ci \in asked
    /\ pc = "cfinish" => LeftOver(0)

StatusSays ==
    /\ pc = "complete" => step = N
    /\ status = "completed" => inForce = Steps /\ Len(done) = N /\ step = N
    /\ status = "compensated" => LateInDoubt /\ inForce \subseteq doubt

SagaInv == TypeOK /\ Progress /\ Forwards /\ Backwards /\ StatusSays

-----------------------------------------------------------------------------
\* What a statement's reply does to the task, and to the count of faults.
LEMMA Statement ==
    ASSUME TypeOK, NEW r \in Replies, Count(r), NEW next, GoOn(r, next)
    PROVE  /\ faults' \in 0 .. MaxFaults
           /\ pc' = next \/ pc' = "gone"
           /\ r.applied \in BOOLEAN
           /\ pc' # "gone" => r.ok /\ r.applied
BY SwitchAssumption DEF TypeOK, Replies, Count, GoOn

\* A request is the one its step calls for.
LEMMA RequestTypes ==
    ASSUME NEW i \in Steps
    PROVE  /\ Do(i) \in Request /\ Do(i).kind = "do" /\ Do(i).step = i
           /\ TypeOK /\ i <= step =>
                 Undo(i) \in Request /\ Undo(i).kind = "undo" /\ Undo(i).step = i
<1>1. Do(i) \in Request /\ Do(i).kind = "do" /\ Do(i).step = i
  BY DEF Do, Request, Result
<1>2. ASSUME TypeOK, i <= step
      PROVE  Undo(i) \in Request /\ Undo(i).kind = "undo" /\ Undo(i).step = i
  <2>1. results[i] \in Result
    BY <1>2, StepsAssumption DEF TypeOK, Steps
  <2>2. QED BY <2>1 DEF Undo, Request
<1>3. QED BY <1>1, <1>2

LEMMA SagaInit == Init => SagaInv
<1> SUFFICES ASSUME Init PROVE SagaInv
  OBVIOUS
<1>1. <<>> \in Seq(Result) /\ <<>> \in Seq(Steps) /\ Len(<<>>) = 0 /\ DOMAIN <<>> = {}
  OBVIOUS
<1>2. TypeOK
  <2>1. "noid" \in Result /\ 0 \in 0 .. N /\ 0 \in 0 .. MaxFaults
    BY StepsAssumption, SwitchAssumption DEF Result
  <2>2. QED BY <1>1, <2>1 DEF Init, TypeOK
<1>3. Progress
  BY <1>1, StepsAssumption DEF Init, Progress
<1>4. Forwards
  <2>1. 1 .. Len(done) = {}
    BY <1>1 DEF Init
  <2>2. QED BY <2>1 DEF Init, Forwards, Proceeding
<1>5. Backwards /\ StatusSays
  BY DEF Init, Backwards, StatusSays, RollingBack
<1>6. QED BY <1>2, <1>3, <1>4, <1>5 DEF SagaInv

LEMMA StartKeeps == SagaInv /\ Start => SagaInv'
<1> SUFFICES ASSUME SagaInv, Start PROVE SagaInv'
  OBVIOUS
<1>1. PICK r \in Replies :
         Count(r) /\ status' = (IF r.applied THEN "running" ELSE status) /\ GoOn(r, "select")
  BY DEF Start
<1>2. /\ faults' \in 0 .. MaxFaults /\ pc' \in {"select", "gone"}
      /\ status' \in {"none", "running"} /\ (pc' = "select" => status' = "running")
  BY <1>1, Statement DEF SagaInv, Forwards, Start
<1>3. TypeOK'
  BY <1>2 DEF SagaInv, TypeOK, Start
<1>4. Progress' /\ Forwards'
  BY <1>2 DEF SagaInv, Progress, Forwards, Start, Do, Proceeding
<1>5. Backwards' /\ StatusSays'
  BY <1>2 DEF Backwards, StatusSays, RollingBack
<1>6. QED BY <1>3, <1>4, <1>5 DEF SagaInv

LEMMA AdvanceKeeps == SagaInv /\ Advance => SagaInv'
<1> SUFFICES ASSUME SagaInv, Advance PROVE SagaInv'
  OBVIOUS
<1>0. /\ pc = "select" /\ status = "running" /\ step \in 0 .. N /\ N \in Nat
      /\ Len(done) = step /\ \A m \in net : m.kind # "do"
      /\ UNCHANGED <<row, reply, ci, inForce, done, asked, doubt>>
  BY StepsAssumption DEF SagaInv, TypeOK, Progress, Forwards, Proceeding, Advance
<1>1. PICK r \in Replies : Count(r) /\
          IF r.ok /\ ~AllRecorded /\ Current \notin Unroutable
          THEN pc' = "wait" /\ net' = net \union {Do(Current)}
          ELSE GoOn(r, IF AllRecorded THEN "complete" ELSE "gone") /\ UNCHANGED net
  BY DEF Advance
<1>2. faults' \in 0 .. MaxFaults
  BY <1>1, SwitchAssumption DEF SagaInv, TypeOK, Count, Replies
<1>3. CASE /\ step < N /\ pc' = "wait" /\ net' = net \union {Do(Current)}
  <2>1. Current \in Steps /\ Current = step + 1
    BY <1>0, <1>3 DEF Steps, Current
  <2>2. Do(Current) \in Request /\ Do(Current).kind = "do" /\ Do(Current).step = step + 1
    BY <2>1, RequestTypes
  <2>3. TypeOK'
    BY <1>0, <1>2, <1>3, <2>2 DEF SagaInv, TypeOK, row
  <2>4. Progress'
    <3>1. \A m \in net' : m.kind = "do" => m = Do(m.step) /\ m.step = Len(done) + 1
      BY <1>0, <1>3, <2>1, <2>2
    <3>2. QED BY <1>0, <1>3, <3>1 DEF SagaInv, Progress, row, Do
  <2>5. Forwards'
    BY <1>0, <1>3, <2>2 DEF SagaInv, Forwards, row, Proceeding
  <2>6. Backwards' /\ StatusSays'
    BY <1>0, <1>3 DEF Backwards, StatusSays, RollingBack, row
  <2>7. QED BY <2>3, <2>4, <2>5, <2>6 DEF SagaInv
<1>4. CASE /\ pc' = "gone" \/ (pc' = "complete" /\ step = N)
           /\ net' = net
  <2>1. TypeOK'
    BY <1>0, <1>2, <1>4 DEF SagaInv, TypeOK, row
  <2>2. Progress' /\ Forwards'
    BY <1>0, <1>4 DEF SagaInv, Progress, Forwards, Do, row, Proceeding
  <2>3. Backwards' /\ StatusSays'
    BY <1>0, <1>4 DEF Backwards, StatusSays, RollingBack, row
  <2>4. QED BY <2>1, <2>2, <2>3 DEF SagaInv
<1>5. QED BY <1>0, <1>1, <1>3, <1>4 DEF AllRecorded, GoOn

LEMMA StepTimeoutKeeps == SagaInv /\ StepTimeout => SagaInv'
<1> SUFFICES ASSUME SagaInv, StepTimeout PROVE SagaInv'
  OBVIOUS
<1>0. /\ pc = "wait" /\ pc' = "fail" /\ step < N /\ step \in 0 .. N /\ N \in Nat
      /\ doubt' = doubt \union {step + 1}
      /\ UNCHANGED <<row, reply, ci, net, inForce, done, asked, faults>>
  BY StepsAssumption DEF SagaInv, TypeOK, Progress, StepTimeout, Current
<1>1. TypeOK'
  BY <1>0 DEF SagaInv, TypeOK, row, Steps
<1>2. Progress' /\ Forwards'
  BY <1>0 DEF SagaInv, Progress, Forwards, Do, row, Proceeding
<1>3. LateInDoubt'
  BY <1>0 DEF SagaInv, Progress, LateInDoubt
<1>4. LeftOver(step)'
  BY <1>0 DEF SagaInv, Progress, Forwards, LeftOver, row, Proceeding
<1>5. Backwards' /\ StatusSays'
  BY <1>0, <1>3, <1>4 DEF SagaInv, Forwards, Backwards, StatusSays, RollingBack, row, Proceeding
<1>6. QED BY <1>1, <1>2, <1>5 DEF SagaInv

LEMMA RecordKeeps == SagaInv /\ Record => SagaInv'
<1> SUFFICES ASSUME SagaInv, Record PROVE SagaInv'
  OBVIOUS
<1>0. /\ pc = "record" /\ status = "running" /\ step \in 0 .. N /\ N \in Nat
      /\ Len(done) = step + 1 /\ \A m \in net : m.kind # "do"
      /\ UNCHANGED <<status, error, reply, ci, net, inForce, done, asked, doubt>>
  BY StepsAssumption DEF SagaInv, TypeOK, Progress, Forwards, Proceeding, Record
<1>1. PICK r \in Replies :
          /\ Count(r) /\ GoOn(r, "select")
          /\ IF r.applied THEN Recorded(reply) ELSE UNCHANGED <<step, results>>
  BY DEF Record
<1>2. faults' \in 0 .. MaxFaults /\ pc' \in {"select", "gone"} /\ (pc' = "select" => r.applied)
  BY <1>1, Statement DEF SagaInv
<1>3. step < N
  <2>1. done[step + 1] = step + 1 /\ done[step + 1] \in Steps
    BY <1>0 DEF SagaInv, Progress, TypeOK
  <2>2. QED BY <1>0, <2>1 DEF Steps
<1>4. /\ step' \in 0 .. N /\ results' \in Seq(Result) /\ Len(results') = step'
      /\ step' = step + 1 \/ (step' = step /\ pc' = "gone")
  <2>1. results \in Seq(Result) /\ Len(results) = step /\ reply \in Result
    BY DEF SagaInv, TypeOK
  <2>2. CASE Recorded(reply)
    BY <1>0, <1>3, <2>1, <2>2 DEF Recorded
  <2>3. CASE UNCHANGED <<step, results>> /\ pc' = "gone"
    BY <1>0, <2>1, <2>3
  <2>4. QED BY <1>1, <1>2, <2>2, <2>3
<1>5. TypeOK'
  BY <1>0, <1>2, <1>4 DEF SagaInv, TypeOK
<1>6. Progress' /\ Forwards'
  BY <1>0, <1>2, <1>4 DEF SagaInv, Progress, Forwards, Do, Proceeding
<1>7. Backwards' /\ StatusSays'
  BY <1>0, <1>2 DEF Backwards, StatusSays, RollingBack
<1>8. QED BY <1>5, <1>6, <1>7 DEF SagaInv

LEMMA CompleteKeeps == SagaInv /\ Complete => SagaInv'
<1> SUFFICES ASSUME SagaInv, Complete PROVE SagaInv'
  OBVIOUS
<1>0. /\ pc = "complete" /\ status = "running" /\ step = N /\ Len(done) = N
      /\ UNCHANGED <<step, results, reply, ci, net, inForce, done, asked, doubt>>
      /\ inForce = Steps
  BY DEF SagaInv, Progress, Forwards, StatusSays, Proceeding, Complete, UpdateStatus, Steps
<1>1. PICK r \in Replies : Count(r) /\ UpdateStatus(r, "completed", FALSE) /\ GoOn(r, "done")
  BY DEF Complete
<1>2. /\ faults' \in 0 .. MaxFaults /\ pc' \in {"done", "gone"}
      /\ status' \in {"running", "completed"} /\ error' \in BOOLEAN
  BY <1>0, <1>1, Statement DEF SagaInv, UpdateStatus, TypeOK
<1>3. TypeOK'
  BY <1>0, <1>2 DEF SagaInv, TypeOK
<1>4. Progress' /\ Forwards'
  BY <1>0, <1>2 DEF SagaInv, Progress, Forwards, Do, Proceeding
<1>5. Backwards' /\ StatusSays'
  BY <1>0, <1>2 DEF SagaInv, Backwards, StatusSays, RollingBack
<1>6. QED BY <1>3, <1>4, <1>5 DEF SagaInv

LEMMA FailKeeps == SagaInv /\ Fail => SagaInv'
<1> SUFFICES ASSUME SagaInv, Fail PROVE SagaInv'
  OBVIOUS
<1>0. /\ pc = "fail" /\ status = "running" /\ asked = {} /\ LateInDoubt /\ LeftOver(step)
      /\ UNCHANGED <<step, results, reply, ci, net, inForce, done, asked, doubt>>
  BY DEF SagaInv, Forwards, Backwards, Fail, UpdateStatus
<1>1. PICK r \in Replies : Count(r) /\ UpdateStatus(r, "compensating", TRUE) /\ GoOn(r, "cselect")
  BY DEF Fail
<1>2. /\ faults' \in 0 .. MaxFaults /\ pc' \in {"cselect", "gone"}
      /\ status' \in {"running", "compensating"} /\ error' \in BOOLEAN
      /\ pc' = "cselect" => status' = "compensating"
  BY <1>0, <1>1, Statement DEF SagaInv, UpdateStatus, TypeOK
<1>3. TypeOK'
  BY <1>0, <1>2 DEF SagaInv, TypeOK
<1>4. Progress' /\ Forwards'
  BY <1>0, <1>2 DEF SagaInv, Progress, Forwards, Do, Proceeding
<1>5. LateInDoubt' /\ LeftOver(step)'
  BY <1>0 DEF LateInDoubt, LeftOver
<1>6. Backwards' /\ StatusSays'
  BY <1>0, <1>2, <1>5 DEF Backwards, StatusSays, RollingBack
<1>7. QED BY <1>3, <1>4, <1>6 DEF SagaInv

LEMMA CompensateStartKeeps == SagaInv /\ CompensateStart => SagaInv'
<1> SUFFICES ASSUME SagaInv, CompensateStart PROVE SagaInv'
  OBVIOUS
<1>0. /\ pc = "cselect" /\ status = "compensating" /\ asked = {} /\ LateInDoubt /\ LeftOver(step)
      /\ step \in 0 .. N /\ ci' = step
      /\ UNCHANGED <<row, reply, net, inForce, done, asked, doubt>>
  BY DEF SagaInv, TypeOK, Backwards, RollingBack, CompensateStart, LastRecorded
<1>1. PICK r \in Replies : Count(r) /\ GoOn(r, "cloop")
  BY DEF CompensateStart
<1>2. faults' \in 0 .. MaxFaults /\ pc' \in {"cloop", "gone"}
  BY <1>1, Statement DEF SagaInv
<1>3. TypeOK'
  BY <1>0, <1>2 DEF SagaInv, TypeOK, row
<1>4. Progress' /\ Forwards'
  BY <1>0, <1>2 DEF SagaInv, Progress, Forwards, Do, row, Proceeding
<1>5. LateInDoubt' /\ LeftOver(ci)' /\ (ci' + 1) .. step' = {} /\ ci' <= step'
  BY <1>0 DEF LateInDoubt, LeftOver, row
<1>6. Backwards' /\ StatusSays'
  BY <1>0, <1>2, <1>5 DEF Backwards, StatusSays, RollingBack, row
<1>7. QED BY <1>3, <1>4, <1>6 DEF SagaInv

LEMMA CompensateStepKeeps == SagaInv /\ CompensateStep => SagaInv'
<1> SUFFICES ASSUME SagaInv, CompensateStep PROVE SagaInv'
  OBVIOUS
<1>0. /\ pc = "cloop" /\ status = "compensating" /\ LateInDoubt /\ LeftOver(ci)
      /\ step \in 0 .. N /\ ci \in 1 .. N /\ N \in Nat /\ ci <= step
      /\ (ci + 1) .. step \subseteq asked \union NoCompensate
      /\ \A a \in asked : a > ci
      /\ UNCHANGED <<row, reply, inForce, done, faults>>
  BY StepsAssumption DEF SagaInv, TypeOK, Backwards, RollingBack, CompensateStep
<1>1. CASE /\ ci \in NoCompensate /\ ci' = ci - 1 /\ doubt' = doubt \union {ci}
           /\ UNCHANGED <<pc, net, asked>>
  <2>1. TypeOK'
    BY <1>0, <1>1 DEF SagaInv, TypeOK, row, Steps
  <2>2. Progress' /\ Forwards'
    BY <1>0, <1>1 DEF SagaInv, Progress, Forwards, Do, row, Proceeding
  <2>3. LateInDoubt' /\ LeftOver(ci)'
    BY <1>0, <1>1 DEF LateInDoubt, LeftOver
  <2>4. /\ (ci' + 1) .. step' \subseteq asked' \union NoCompensate
        /\ \A a \in asked' : a > ci'
    <3>1. \A i \in ci .. step : i = ci \/ i \in (ci + 1) .. step
      BY <1>0
    <3>2. \A a \in asked : a \in Nat
      BY StepsAssumption DEF SagaInv, TypeOK, Steps
    <3>3. QED BY <1>0, <1>1, <3>1, <3>2 DEF row
  <2>5. Backwards' /\ StatusSays'
    BY <1>0, <1>1, <2>3, <2>4 DEF Backwards, StatusSays, RollingBack, row
  <2>6. QED BY <2>1, <2>2, <2>5 DEF SagaInv
<1>2. CASE /\ pc' = "cwait" /\ net' = net \union {Undo(ci)} /\ asked' = asked \union {ci}
           /\ UNCHANGED <<ci, doubt>>
  <2>1. Undo(ci) \in Request /\ Undo(ci).kind = "undo" /\ ci \in Steps
    BY <1>0, RequestTypes DEF SagaInv, Steps
  <2>2. TypeOK'
    BY <1>0, <1>2, <2>1 DEF SagaInv, TypeOK, row
  <2>3. Progress'
    <3>1. \A m \in net' : m.kind = "do" => m \in net
      BY <1>2, <2>1
    <3>2. QED BY <1>0, <1>2, <3>1 DEF SagaInv, Progress, Do, row
  <2>4. Forwards'
    BY <1>0, <1>2 DEF Forwards, row, Proceeding
  <2>5. LateInDoubt' /\ LeftOver(ci)'
    BY <1>0, <1>2, <2>1 DEF LateInDoubt, LeftOver
  <2>6. Backwards' /\ StatusSays'
    BY <1>0, <1>2, <2>5 DEF Backwards, StatusSays, RollingBack, row
  <2>7. QED BY <2>2, <2>3, <2>4, <2>6 DEF SagaInv
<1>3. QED BY <1>1, <1>2 DEF CompensateStep

\* The loop of compensate moves on to the step before, the one it leaves being
\* undone or in doubt.
LEMMA MovesOn ==
    ASSUME SagaInv, pc = "cwait", pc' = "cloop", ci' = ci - 1,
           ci \in doubt' \/ ci \notin inForce', inForce' \subseteq inForce,
           doubt \subseteq doubt', doubt' \subseteq Steps,
           \A m \in net' : m \in net,
           UNCHANGED <<row, reply, done, asked, faults>>
    PROVE  SagaInv'
<1>0. /\ status = "compensating" /\ LateInDoubt /\ LeftOver(ci)
      /\ step \in 0 .. N /\ ci \in 1 .. N /\ N \in Nat /\ ci <= step /\ ci \in asked
      /\ (ci + 1) .. step \subseteq asked \union NoCompensate
      /\ \A a \in asked : a \in Nat /\ (a > ci \/ a = ci)
  BY StepsAssumption DEF SagaInv, TypeOK, Backwards, RollingBack, Steps
<1>1. TypeOK'
  BY <1>0 DEF SagaInv, TypeOK, row
<1>2. Progress' /\ Forwards'
  BY <1>0 DEF SagaInv, Progress, Forwards, Do, row, Proceeding
<1>3. LateInDoubt' /\ LeftOver(ci)'
  BY <1>0 DEF LateInDoubt, LeftOver
<1>4. /\ (ci' + 1) .. step' \subseteq asked' \union NoCompensate
      /\ \A a \in asked' : a > ci'
  <2>1. \A i \in ci .. step : i = ci \/ i \in (ci + 1) .. step
    BY <1>0
  <2>2. QED BY <1>0, <2>1 DEF row
<1>5. Backwards' /\ StatusSays'
  BY <1>0, <1>3, <1>4 DEF Backwards, StatusSays, RollingBack, row
<1>6. QED BY <1>1, <1>2, <1>5 DEF SagaInv

LEMMA CompensateTimeoutKeeps == SagaInv /\ CompensateTimeout => SagaInv'
<1> SUFFICES ASSUME SagaInv, CompensateTimeout PROVE SagaInv'
  OBVIOUS
<1>1. ci \in Steps /\ doubt \subseteq Steps
  BY StepsAssumption DEF SagaInv, TypeOK, Backwards, Steps, CompensateTimeout
<1>2. QED BY <1>1, MovesOn DEF CompensateTimeout

LEMMA CompensateEndKeeps == SagaInv /\ CompensateEnd => SagaInv'
<1> SUFFICES ASSUME SagaInv, CompensateEnd PROVE SagaInv'
  OBVIOUS
<1>0. /\ pc = "cloop" /\ ci = 0 /\ pc' = "cfinish"
      /\ status = "compensating" /\ LateInDoubt /\ LeftOver(0)
      /\ UNCHANGED <<row, reply, ci, net, inForce, done, asked, doubt, faults>>
  BY DEF SagaInv, Backwards, RollingBack, CompensateEnd, LoopOver
<1>1. TypeOK'
  BY <1>0 DEF SagaInv, TypeOK, row
<1>2. Progress' /\ Forwards'
  BY <1>0 DEF SagaInv, Progress, Forwards, Do, row, Proceeding
<1>3. LateInDoubt' /\ LeftOver(0)'
  BY <1>0 DEF LateInDoubt, LeftOver
<1>4. Backwards' /\ StatusSays'
  BY <1>0, <1>3 DEF Backwards, StatusSays, RollingBack, row
<1>5. QED BY <1>1, <1>2, <1>4 DEF SagaInv

LEMMA MarkCompensatedKeeps == SagaInv /\ MarkCompensated => SagaInv'
<1> SUFFICES ASSUME SagaInv, MarkCompensated PROVE SagaInv'
  OBVIOUS
<1>0. /\ pc = "cfinish" /\ status = "compensating" /\ LateInDoubt /\ LeftOver(0)
      /\ UNCHANGED <<step, results, reply, ci, net, inForce, done, asked, doubt>>
  BY DEF SagaInv, Backwards, RollingBack, MarkCompensated, UpdateStatus
<1>1. PICK r \in Replies : Count(r) /\ UpdateStatus(r, "compensated", FALSE) /\ GoOn(r, "done")
  BY DEF MarkCompensated
<1>2. /\ faults' \in 0 .. MaxFaults /\ pc' \in {"done", "gone"}
      /\ status' \in {"compensating", "compensated"} /\ error' \in BOOLEAN
  BY <1>0, <1>1, Statement DEF SagaInv, UpdateStatus, TypeOK
<1>3. TypeOK'
  BY <1>0, <1>2 DEF SagaInv, TypeOK
<1>4. Progress' /\ Forwards'
  BY <1>0, <1>2 DEF SagaInv, Progress, Forwards, Do, Proceeding
<1>5. LateInDoubt' /\ (inForce \subseteq doubt)'
  BY <1>0 DEF LateInDoubt, LeftOver
<1>6. Backwards' /\ StatusSays'
  BY <1>0, <1>2, <1>5 DEF Backwards, StatusSays, RollingBack
<1>7. QED BY <1>3, <1>4, <1>6 DEF SagaInv

LEMMA CrashKeeps == SagaInv /\ Crash => SagaInv'
<1> SUFFICES ASSUME SagaInv, Crash PROVE SagaInv'
  OBVIOUS
<1>0. /\ pc' = "gone" /\ faults' \in 0 .. MaxFaults
      /\ UNCHANGED <<row, reply, ci, net, inForce, done, asked, doubt>>
  BY SwitchAssumption DEF SagaInv, TypeOK, Crash
<1>1. TypeOK'
  BY <1>0 DEF SagaInv, TypeOK, row
<1>2. Progress' /\ Forwards'
  BY <1>0 DEF SagaInv, Progress, Forwards, Do, row, Proceeding
<1>3. LateInDoubt' <=> LateInDoubt
  BY <1>0 DEF LateInDoubt
<1>4. Backwards' /\ StatusSays'
  BY <1>0, <1>3 DEF SagaInv, Backwards, StatusSays, RollingBack, row
<1>5. QED BY <1>1, <1>2, <1>4 DEF SagaInv

LEMMA ServiceUndoKeeps ==
    SagaInv /\ (\E m \in net : ServiceUndo(m) \/ ServiceUndoRefused(m)) => SagaInv'
<1> SUFFICES ASSUME SagaInv, NEW m \in net, ServiceUndo(m) \/ ServiceUndoRefused(m)
             PROVE  SagaInv'
  OBVIOUS
<1>0. /\ m.kind = "undo" /\ Answered(m) /\ net' = net \ {m} /\ m.step \in Steps
      /\ doubt \subseteq doubt' /\ doubt' \subseteq Steps
      /\ inForce' \subseteq inForce
      /\ m.step \in doubt' \/ m.step \notin inForce'
      /\ UNCHANGED <<row, reply, done, asked, faults>>
  BY DEF SagaInv, TypeOK, Request, ServiceUndo, ServiceUndoRefused
<1>1. CASE Awaited(m)
  BY <1>0, <1>1, MovesOn DEF Awaited, Answered
<1>2. CASE ~Awaited(m)
  <2>1. UNCHANGED <<pc, ci>>
    BY <1>0, <1>2 DEF Answered
  <2>2. TypeOK'
    BY <1>0, <2>1 DEF SagaInv, TypeOK, row
  <2>3. Progress'
    BY <1>0, <2>1 DEF SagaInv, Progress, Do, row
  <2>4. status \notin {"none", "running", "completed"}
    BY <1>0 DEF SagaInv, Forwards
  <2>5. Forwards'
    BY <1>0, <2>1, <2>4 DEF SagaInv, Forwards, row, Proceeding
  <2>6. /\ LateInDoubt => LateInDoubt'
        /\ \A k : LeftOver(k) => (inForce' \subseteq doubt' \union 1 .. k)
        /\ inForce \subseteq doubt => inForce' \subseteq doubt'
    BY <1>0 DEF LateInDoubt, LeftOver
  <2>7. Backwards' /\ StatusSays'
    BY <1>0, <2>1, <2>4, <2>6 DEF SagaInv, Forwards, Backwards, StatusSays, RollingBack, LeftOver, row, Proceeding
  <2>8. QED BY <2>2, <2>3, <2>5, <2>7 DEF SagaInv
<1>3. QED BY <1>1, <1>2

LEMMA ServiceDoKeeps == SagaInv /\ (\E m \in net : ServiceDo(m)) => SagaInv'
<1> SUFFICES ASSUME SagaInv, NEW m \in net, ServiceDo(m) PROVE SagaInv'
  OBVIOUS
<1>0. /\ m.kind = "do" /\ m = Do(m.step) /\ m.step = Len(done) + 1 /\ Len(done) = step
      /\ m.step \in Steps /\ step \in Nat /\ N \in Nat /\ done \in Seq(Steps)
      /\ inForce' = inForce \union {m.step} /\ done' = Append(done, m.step)
      /\ net' = net \ {m}
      /\ UNCHANGED <<row, ci, asked, doubt, faults>>
  BY StepsAssumption DEF SagaInv, TypeOK, Request, Progress, Steps, ServiceDo
<1>1. /\ pc = "wait" => pc' = "record" /\ reply' \in Result
      /\ pc # "wait" => UNCHANGED <<pc, reply>>
  BY <1>0 DEF ServiceDo, Awaited, Current
<1>2. /\ done' \in Seq(Steps) /\ Len(done') = step + 1 /\ DOMAIN done' = 1 .. (step + 1)
      /\ \A i \in DOMAIN done' : done'[i] = i
  <2>1. \A i \in DOMAIN done : done[i] = i
    BY DEF SagaInv, Progress
  <2>2. QED BY <1>0, <2>1
<1>3. \A k \in net' : k.kind # "do"
  BY <1>0 DEF SagaInv, Progress
<1>4. TypeOK'
  BY <1>0, <1>1, <1>2 DEF SagaInv, TypeOK, row
<1>5. Progress'
  BY <1>0, <1>1, <1>2, <1>3 DEF SagaInv, Progress, row
<1>6. step < N
  BY <1>0 DEF Steps
<1>7. Forwards'
  <2>1. inForce = 1 .. Len(done) => inForce' = 1 .. Len(done')
    BY <1>0, <1>2
  <2>2. QED BY <1>0, <1>1, <2>1 DEF SagaInv, Forwards, row, Proceeding
<1>8. /\ LateInDoubt => m.step \in doubt
      /\ LateInDoubt'
  BY <1>0, <1>3 DEF LateInDoubt
<1>9. \A k : LateInDoubt /\ LeftOver(k) => (inForce' \subseteq doubt' \union 1 .. k)
  BY <1>0, <1>8 DEF LeftOver
<1>10. Backwards'
  BY <1>0, <1>1, <1>8, <1>9 DEF SagaInv, Backwards, RollingBack, LeftOver, row
<1>11. StatusSays'
  BY <1>0, <1>1, <1>6, <1>8 DEF SagaInv, StatusSays, row
<1>12. QED BY <1>4, <1>5, <1>7, <1>10, <1>11 DEF SagaInv

LEMMA ServiceRefusesKeeps == SagaInv /\ (\E m \in net : ServiceRefuses(m)) => SagaInv'
<1> SUFFICES ASSUME SagaInv, NEW m \in net, ServiceRefuses(m) PROVE SagaInv'
  OBVIOUS
<1>0. /\ m.kind = "do" /\ m = Do(m.step) /\ m.step = Len(done) + 1 /\ Len(done) = step
      /\ net' = net \ {m}
      /\ UNCHANGED <<row, reply, ci, inForce, done, asked, doubt, faults>>
  BY DEF SagaInv, Progress, ServiceRefuses
<1>1. pc' = IF pc = "wait" THEN "fail" ELSE pc
  BY <1>0 DEF ServiceRefuses, Awaited, Current
<1>2. \A k \in net' : k \in net /\ k.kind # "do"
  BY <1>0 DEF SagaInv, Progress
<1>3. TypeOK'
  BY <1>0, <1>1 DEF SagaInv, TypeOK, row
<1>4. Progress'
  BY <1>0, <1>1, <1>2 DEF SagaInv, Progress, row
<1>5. Forwards'
  BY <1>0, <1>1, <1>2 DEF SagaInv, Forwards, row, Proceeding
<1>6. LateInDoubt'
  BY <1>2 DEF LateInDoubt
<1>7. Backwards'
  BY <1>0, <1>1, <1>6 DEF SagaInv, Forwards, Backwards, RollingBack, Proceeding, LeftOver, row
<1>8. StatusSays'
  BY <1>0, <1>1, <1>6 DEF SagaInv, StatusSays, row
<1>9. QED BY <1>3, <1>4, <1>5, <1>7, <1>8 DEF SagaInv

LEMMA SagaStep == SagaInv /\ [Next]_vars => SagaInv'
<1> SUFFICES ASSUME SagaInv, [Next]_vars PROVE SagaInv'
  OBVIOUS
<1>1. CASE Forward
  BY <1>1, StartKeeps, AdvanceKeeps, StepTimeoutKeeps, RecordKeeps, CompleteKeeps, FailKeeps
     DEF Forward
<1>2. CASE Backward
  BY <1>2, CompensateStartKeeps, CompensateStepKeeps, CompensateTimeoutKeeps,
     CompensateEndKeeps, MarkCompensatedKeeps DEF Backward
<1>3. CASE Service
  BY <1>3, ServiceDoKeeps, ServiceRefusesKeeps, ServiceUndoKeeps DEF Service
<1>4. CASE Crash
  BY <1>4, CrashKeeps
<1>5. CASE UNCHANGED vars
  <2>1. UNCHANGED <<status, step, results, error, pc, reply, ci, net, inForce, done, asked,
                    doubt, faults>>
    BY <1>5 DEF vars
  <2>2. TypeOK' /\ Progress' /\ Forwards'
    BY <2>1 DEF SagaInv, TypeOK, Progress, Forwards, Do
  <2>3. Backwards' /\ StatusSays'
    BY <2>1 DEF SagaInv, Backwards, StatusSays, LateInDoubt, LeftOver
  <2>4. QED BY <2>2, <2>3 DEF SagaInv
<1>6. QED BY <1>1, <1>2, <1>3, <1>4, <1>5 DEF Next

-----------------------------------------------------------------------------
(* The processes together.                                                  *)

ServicesInv ==
    /\ part = "server" => ServerInv
    /\ part = "schema" => SchemaInv /\ FaultsCounted
    /\ part = "entries" => EntriesInv
    /\ part = "group" => GroupInv
    /\ SagaInv

LEMMA ServicesStart == ASSUME ServicesInit PROVE ServicesInv
BY ServerStarts, SchemaStarts, EntriesStart, GroupStarts, SagaInit, SchemaAssumption,
   EntriesAssumption
   DEF ServicesInit, ServicesInv, FaultsCounted, Schema!Init

\* Each part steps by itself.
LEMMA ServicesKept == ASSUME ServicesInv, [ServicesNext]_all PROVE ServicesInv'
<1> USE DEF ServicesInv
<1>0. [Next]_vars /\ SagaInv => SagaInv' BY SagaStep
<1>1. CASE ServerNext
  BY <1>1, <1>0, ServerKept DEF ServerNext, InServer
<1>2. CASE SchemaNext
  BY <1>2, <1>0, SchemaKept, FaultsAreCounted, SchemaAssumption DEF SchemaNext, InSchema
<1>3. CASE EntriesNext
  BY <1>3, <1>0, EntriesKept, EntriesAssumption DEF EntriesNext, InEntries
<1>4. CASE GroupNext
  BY <1>4, <1>0, GroupKept DEF GroupNext, InGroup
<1>5. CASE SagaNext
  BY <1>0, <1>5 DEF SagaNext, InSaga
<1>6. CASE UNCHANGED all
  <2>1. /\ UNCHANGED part /\ UNCHANGED Server!vars /\ UNCHANGED Schema!vars
        /\ UNCHANGED Entries!vars /\ UNCHANGED Group!vars
    BY <1>6 DEF all, ServerVars, SchemaVars, EntriesVars, GroupVars, Server!vars, Schema!vars,
       Entries!vars, Group!vars
  <2>2. UNCHANGED vars BY <1>6 DEF all
  <2>3. QED BY <1>0, <2>1, <2>2, ServerKept, SchemaKept, FaultsAreCounted, EntriesKept, GroupKept,
            SchemaAssumption, EntriesAssumption
<1>7. QED BY <1>1, <1>2, <1>3, <1>4, <1>5, <1>6 DEF ServicesNext

\* The invariants of the parts hold in every behaviour of the composition.
THEOREM ServicesInvariant == ServicesSpec => []ServicesInv
<1>1. ServicesInit => ServicesInv BY ServicesStart
<1>2. ServicesInv /\ [ServicesNext]_all => ServicesInv' BY ServicesKept
<1>3. QED BY <1>1, <1>2, PTL DEF ServicesSpec

\* main serves nothing and runs no job before the schema is migrated, and a clean
\* end of a scaffolded main loses no job its worker had taken.
THEOREM ServersStartAndEnd == ServicesSpec => []ServerStartsAndEnds
<1>1. ServicesInv => ServerStartsAndEnds
  BY ServerFacts DEF ServicesInv, ServerStartsAndEnds
<1>2. QED BY <1>1, ServicesInvariant, PTL

\* run_migrations_multi executes no migration before an earlier one and twice
\* only with a reason, and returns Ok only when all are executed.
THEOREM SchemasMigratedInOrder == ServicesSpec => []MigratedInOrder
<1>1. ServicesInv => MigratedInOrder
  BY SchemaFacts, SchemaAssumption DEF ServicesInv, MigratedInOrder
<1>2. QED BY <1>1, ServicesInvariant, PTL

\* An entry of the registry dies out with its processes, and expires under none
\* of them that was heard in its last three heartbeats.
THEOREM EntriesAlwaysFollow == ServicesSpec => []EntriesFollowProcesses
<1>1. ServicesInv => EntriesFollowProcesses
  BY EntriesFacts, EntriesAssumption DEF ServicesInv, EntriesFollowProcesses
<1>2. QED BY <1>1, ServicesInvariant, PTL

\* validate_workspace refuses a file exactly when it should, run_serve starts no
\* service before those it depends on, and whichever way it returns none of those
\* it started still runs.
THEOREM GroupsStartAndEnd == ServicesSpec => []GroupStartsAndEnds
<1>1. ServicesInv => GroupStartsAndEnds
  BY GroupFacts DEF ServicesInv, GroupStartsAndEnds
<1>2. QED BY <1>1, ServicesInvariant, PTL

\* The row of saga_executions tells what the services did: advance repeats no
\* step and records none its service has not executed, completed means that
\* all are in force, compensated that what is left over is in doubt.
THEOREM TruthTold == ServicesSpec => []SagaTellsTruth
<1>1. SagaInv => SagaTellsTruth
  <2> SUFFICES ASSUME SagaInv PROVE SagaTellsTruth
    OBVIOUS
  <2>1. done \in Seq(Steps) /\ step \in Nat /\ DOMAIN done = 1 .. Len(done) /\ Len(done) \in Nat
    BY StepsAssumption DEF SagaInv, TypeOK
  <2>2. StepsOnceInOrder
    BY <2>1 DEF SagaInv, Progress, StepsOnceInOrder
  <2>3. RecordedWereDone
    <3>1. step <= Len(done) /\ \A i \in DOMAIN done : done[i] = i
      BY DEF SagaInv, Progress
    <3>2. 1 .. step \subseteq DOMAIN done
      BY <2>1, <3>1
    <3>3. QED BY <3>1, <3>2 DEF RecordedWereDone
  <2>4. TypeOK /\ CompletedMeansAll /\ LeftoversExplained
    BY DEF SagaInv, StatusSays, CompletedMeansAll, LeftoversExplained
  <2>5. QED BY <2>2, <2>3, <2>4 DEF SagaTellsTruth
<1>2. ServicesInv => SagaInv BY DEF ServicesInv
<1>3. QED BY <1>1, <1>2, ServicesInvariant, PTL

\* advance requests a step only when all before it are recorded and in force,
\* compensate undoes each recorded step once, the last first.
THEOREM TurnsKept == ServicesSpec => RequestsInTurn
<1>1. SagaInv /\ [Next]_vars => InTurn
  <2> SUFFICES ASSUME SagaInv, [Next]_vars, NEW m \in net' \ net
               PROVE  \/ /\ m.kind = "do" /\ status = "running"
                         /\ 1 .. (m.step - 1) \subseteq inForce
                      \/ /\ m.kind = "undo"
                         /\ status = "compensating" /\ m.step <= step /\ m.step \notin asked
                         /\ (m.step + 1) .. step \subseteq asked \union NoCompensate
    BY DEF InTurn
  <2>1. CASE Advance
    <3>1. m = Do(Current) /\ step < N /\ step \in 0 .. N /\ N \in Nat
      BY <2>1, StepsAssumption DEF SagaInv, TypeOK, Advance, AllRecorded
    <3>2. m.kind = "do" /\ m.step = step + 1
      BY <3>1, RequestTypes DEF Current, Steps
    <3>3. status = "running" /\ inForce = 1 .. step
      BY <2>1 DEF SagaInv, Progress, Forwards, Proceeding, Advance
    <3>4. QED BY <3>1, <3>2, <3>3
  <2>2. CASE CompensateStep
    <3>1. m = Undo(ci) /\ ci \in Steps /\ ci <= step
      BY <2>2, StepsAssumption DEF SagaInv, TypeOK, Backwards, CompensateStep, Steps
    <3>2. m.kind = "undo" /\ m.step = ci
      BY <3>1, RequestTypes DEF SagaInv
    <3>3. /\ status = "compensating"
          /\ (ci + 1) .. step \subseteq asked \union NoCompensate
          /\ \A a \in asked : a > ci
      BY <2>2 DEF SagaInv, Backwards, RollingBack, CompensateStep
    <3>4. ci \notin asked
      BY <3>1, <3>3 DEF Steps
    <3>5. QED BY <3>1, <3>2, <3>3, <3>4
  <2>3. ASSUME ~Advance, ~CompensateStep PROVE net' \subseteq net
    BY <2>3 DEF Next, Forward, Backward, Service, Crash, Start, StepTimeout, Record, Complete,
       Fail, CompensateStart, CompensateTimeout, CompensateEnd, MarkCompensated,
       ServiceDo, ServiceRefuses, ServiceUndo, ServiceUndoRefused, vars
  <2>4. QED BY <2>1, <2>2, <2>3
<1>2. ServicesInv /\ [ServicesNext]_all => [InTurn]_vars
  <2> SUFFICES ASSUME ServicesInv, [ServicesNext]_all PROVE [InTurn]_vars
    OBVIOUS
  <2>1. SagaInv BY DEF ServicesInv
  <2>2. [Next]_vars
    BY DEF ServicesNext, ServerNext, SchemaNext, EntriesNext, GroupNext, SagaNext, InServer,
       InSchema, InEntries, InGroup, all
  <2>3. QED BY <1>1, <2>1, <2>2
<1>3. QED BY <1>2, ServicesInvariant, PTL DEF ServicesSpec, RequestsInTurn
=============================================================================
