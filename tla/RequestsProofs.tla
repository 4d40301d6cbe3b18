--------------------------- MODULE RequestsProofs ----------------------------
(***************************************************************************)
(* Theorems about the guards and hooks a request passes, for any callers,  *)
(* limits and windows, accounts and rules, endpoints and hooks, requests   *)
(* and files, and for the incident application of any size, under the      *)
(* assumptions of Requests.                                                *)
(*                                                                         *)
(* Each part has an inductive invariant of its own; RequestsInv joins them *)
(* and the theorems at the end are about RequestsSpec.                     *)
(***************************************************************************)
EXTENDS Requests, FiniteSetTheorems, TLAPS

\* Cardinality as the parts know it.
LEMMA LimitsCardinality == \A S : Limits!Cardinality(S) = Cardinality(S)
  BY DEF Limits!Cardinality, Cardinality

LEMMA TokensCardinality == \A S : Tokens!Cardinality(S) = Cardinality(S)
  BY DEF Tokens!Cardinality, Cardinality

LEMMA FilesCardinality == \A S : Files!Cardinality(S) = Cardinality(S)
  BY DEF Files!Cardinality, Cardinality

LEMMA AppCardinality == \A S : App!Cardinality(S) = Cardinality(S)
  BY DEF App!Cardinality, Cardinality

\* An option: a set of at most one member.
Option(S) == \A x, y \in S : x = y

-----------------------------------------------------------------------------
(* The rate limit.  Every call that ran has a number of its own under its    *)
(* key (Numbered), and the sorted set holds exactly the calls a later one    *)
(* can still count, so that counting members is counting calls.              *)

LimitsTyped ==
    /\ now \in 0 .. Horizon /\ slack \in 0 .. MaxWait
    /\ stamp \in [Calls -> -1 .. Horizon] /\ ran \in [Calls -> -1 .. Horizon]
    /\ result \in [Calls -> {"none", "Ok", "RateLimited", "Internal"}]
    /\ seq \in [Limits!Keys -> Nat] /\ expiry \in [Limits!Keys -> Nat] /\ DOMAIN entries = Limits!Keys

\* A script ran at most slack seconds after its clock reading, and its key lives
\* for a window after it.
Timely ==
    \A c \in Calls :
        /\ stamp[c] <= now /\ ran[c] <= now
        /\ ran[c] >= 0 => /\ stamp[c] >= 0 /\ stamp[c] <= ran[c] /\ ran[c] - stamp[c] <= slack
                          /\ expiry[Limits!KeyOf(c)] >= ran[c] + WindowSecs + 1
        /\ result[c] = "none" => ran[c] = -1 /\ (stamp[c] >= 0 => now - stamp[c] <= slack)
        /\ result[c] \in {"Ok", "RateLimited"} => ran[c] >= 0

Counts == \A k \in Limits!Keys : seq[k] = Cardinality({c \in Calls : ran[c] >= 0 /\ Limits!KeyOf(c) = k})

\* Every call that ran has a number of its own under its key; the sorted set
\* holds calls only, and lacks none that a call within the window may count.
Numbered(num) ==
    /\ num \in [Calls -> Nat]
    /\ \A c \in Calls : ran[c] >= 0 => num[c] <= seq[Limits!KeyOf(c)]
    /\ \A c, d \in Calls : (ran[c] >= 0 /\ ran[d] >= 0 /\ Limits!KeyOf(c) = Limits!KeyOf(d) /\ num[c] = num[d])
                               => c = d
    /\ \A k \in Limits!Keys : \A e \in entries[k] :
           \E c \in Calls : ran[c] >= 0 /\ Limits!KeyOf(c) = k /\ e = <<stamp[c], num[c]>>
    /\ \A c \in Calls : ran[c] >= 0 =>
           \/ <<stamp[c], num[c]>> \in entries[Limits!KeyOf(c)]
           \/ ran[c] <= now - (WindowSecs - slack)

Admitted(c) ==
    {d \in Calls : Limits!SameCaller(c, d) /\ result[d] = "Ok" /\ ran[d] <= ran[c]
                   /\ ran[d] > ran[c] - (WindowSecs - slack)}

Busy(c) ==
    {d \in Calls \ {c} : Limits!SameCaller(c, d) /\ ran[d] >= 0 /\ ran[d] <= ran[c]
                         /\ stamp[d] > stamp[c] - WindowSecs}

Within ==
    /\ \A c \in Calls : result[c] = "Ok" => Cardinality(Admitted(c)) <= MaxRequests
    /\ \A c \in Calls : result[c] = "RateLimited" => Cardinality(Busy(c)) >= MaxRequests

LimitsInv == LimitsTyped /\ Timely /\ Counts /\ Within /\ \E num : Numbered(num)

LEMMA OneKey == \A c, d \in Calls : Limits!SameCaller(c, d) <=> Limits!KeyOf(c) = Limits!KeyOf(d)
BY DEF Limits!SameCaller, Limits!KeyOf, Limits!key_for_tenant, Limits!key_for

LEMMA CallsAreFinite == \A S \in SUBSET Calls : IsFiniteSet(S) /\ Cardinality(S) \in Nat
BY LimitsAssumption, FS_Subset, FS_CardinalityType

LEMMA LimitsStart == ASSUME Limits!Init PROVE LimitsInv
<1>1. LimitsTyped BY LimitsAssumption DEF Limits!Init, LimitsTyped
<1>2. Timely BY <1>1 DEF Limits!Init, Timely, LimitsTyped
<1>3. \A c \in Calls : ran[c] = -1 /\ result[c] = "none" BY DEF Limits!Init
<1>4. Counts
  <2>1. SUFFICES ASSUME NEW k \in Limits!Keys PROVE Cardinality({c \in Calls : ran[c] >= 0 /\ Limits!KeyOf(c) = k}) = 0
    BY DEF Limits!Init, Counts
  <2>2. {c \in Calls : ran[c] >= 0 /\ Limits!KeyOf(c) = k} = {} BY <1>3
  <2>3. QED BY <2>2, FS_EmptySet
<1>5. Within BY <1>3 DEF Within
<1>6. Numbered([c \in Calls |-> 0]) BY <1>3 DEF Limits!Init, Numbered
<1>7. QED BY <1>1, <1>2, <1>4, <1>5, <1>6 DEF LimitsInv

\* Nothing that a step without a script changes is told apart.
LEMMA LimitsQuiet ==
    ASSUME LimitsInv, LimitsTyped', Timely',
           UNCHANGED <<slack, ran, entries, seq>>, now' >= now,
           \A c \in Calls : stamp[c] >= 0 => stamp'[c] = stamp[c],
           \A c \in Calls : \A v \in {"Ok", "RateLimited"} : result'[c] = v <=> result[c] = v
    PROVE  LimitsInv'
<1>1. Counts' BY DEF LimitsInv, Counts
<1>2. \A c \in Calls : ran[c] >= 0 => stamp'[c] = stamp[c] BY DEF LimitsInv, Timely
<1>3. \A c \in Calls : result'[c] \in {"Ok", "RateLimited"} => ran[c] >= 0
  BY DEF LimitsInv, Timely
<1>4. Within'
  <2>1. \A c \in Calls : Admitted(c)' = Admitted(c) BY DEF Admitted
  <2>2. \A c \in Calls : ran[c] >= 0 => Busy(c)' = Busy(c) BY <1>2 DEF Busy
  <2>3. QED BY <1>3, <2>1, <2>2 DEF LimitsInv, Within
<1>5. PICK num : Numbered(num) BY DEF LimitsInv
<1>6. Numbered(num)'
  <2>1. \A c \in Calls : ran[c] >= 0 => <<stamp'[c], num[c]>> = <<stamp[c], num[c]>> BY <1>2
  <2>2. \A k \in Limits!Keys : \A e \in entries[k] :
           \E c \in Calls : ran[c] >= 0 /\ Limits!KeyOf(c) = k /\ e = <<stamp'[c], num[c]>>
    BY <1>5, <2>1 DEF Numbered
  <2>3. now \in Int /\ now' \in Int /\ slack \in Int /\ \A c \in Calls : ran[c] \in Int
    BY DEF LimitsInv, LimitsTyped
  <2>4. ASSUME NEW c \in Calls, ran[c] >= 0
        PROVE  \/ <<stamp'[c], num[c]>> \in entries[Limits!KeyOf(c)]
               \/ ran[c] <= now' - (WindowSecs - slack)
    <3>1. \/ <<stamp[c], num[c]>> \in entries[Limits!KeyOf(c)]
          \/ ran[c] <= now - (WindowSecs - slack)
      BY <1>5, <2>4 DEF Numbered
    <3>2. QED BY <2>1, <2>3, <2>4, <3>1, LimitsAssumption
  <2>5. QED BY <1>5, <2>2, <2>4 DEF Numbered
<1>7. QED BY <1>1, <1>4, <1>6 DEF LimitsInv

LEMMA CallBegan == ASSUME LimitsInv, NEW c \in Calls, Limits!Begin(c) PROVE LimitsInv'
<1>1. /\ stamp[c] = -1 /\ stamp' = [stamp EXCEPT ![c] = now]
      /\ UNCHANGED <<now, slack, ran, result, entries, seq, expiry>>
  BY DEF Limits!Begin
<1>2. LimitsTyped' BY <1>1, LimitsAssumption DEF LimitsInv, LimitsTyped
<1>3. /\ stamp'[c] = now /\ \A d \in Calls : d # c => stamp'[d] = stamp[d]
  BY <1>1 DEF LimitsInv, LimitsTyped
<1>4. Timely'
  <2>1. now \in Nat /\ slack \in Nat /\ \A d \in Calls : ran[d] \in Int
    BY LimitsAssumption DEF LimitsInv, LimitsTyped
  <2>2. ~(ran[c] >= 0) BY <1>1 DEF LimitsInv, Timely
  <2>3. QED BY <1>1, <1>3, <2>1, <2>2 DEF LimitsInv, Timely
<1>5. now' >= now BY <1>1 DEF LimitsInv, LimitsTyped
<1>6. \A d \in Calls : stamp[d] >= 0 => stamp'[d] = stamp[d] BY <1>1, <1>3
<1>7. QED BY <1>1, <1>2, <1>4, <1>5, <1>6, LimitsQuiet

LEMMA CallFailed == ASSUME LimitsInv, NEW c \in Calls, Limits!CheckFails(c) PROVE LimitsInv'
<1>1. /\ result[c] = "none" /\ result' = [result EXCEPT ![c] = "Internal"]
      /\ UNCHANGED <<now, slack, stamp, ran, entries, seq, expiry>>
  BY DEF Limits!CheckFails
<1>2. LimitsTyped' BY <1>1 DEF LimitsInv, LimitsTyped
<1>3. result'[c] = "Internal" /\ \A d \in Calls : d # c => result'[d] = result[d]
  BY <1>1 DEF LimitsInv, LimitsTyped
<1>4. Timely' BY <1>1, <1>3 DEF LimitsInv, Timely
<1>5. now' >= now BY <1>1 DEF LimitsInv, LimitsTyped
<1>6. QED BY <1>1, <1>2, <1>3, <1>4, <1>5, LimitsQuiet

LEMMA TimePassed == ASSUME LimitsInv, Limits!Tick PROVE LimitsInv'
<1>1. /\ now < Horizon /\ now' = now + 1
      /\ \A c \in Calls : (stamp[c] >= 0 /\ result[c] = "none") => now - stamp[c] < slack
      /\ UNCHANGED <<slack, stamp, ran, result, entries, seq, expiry>>
  BY DEF Limits!Tick
<1>2. /\ now \in Nat /\ slack \in Nat
      /\ \A d \in Calls : ran[d] \in Int /\ stamp[d] \in Int
  BY LimitsAssumption DEF LimitsInv, LimitsTyped
<1>3. LimitsTyped' BY <1>1, LimitsAssumption DEF LimitsInv, LimitsTyped
<1>4. Timely' BY <1>1, <1>2 DEF LimitsInv, Timely
<1>5. QED BY <1>1, <1>2, <1>3, <1>4, LimitsQuiet

LEMMA CallChecked == ASSUME LimitsInv, NEW c \in Calls, Limits!Check(c) PROVE LimitsInv'
<1>1. PICK num : Numbered(num) BY DEF LimitsInv
<1>2. PICK k : k = Limits!KeyOf(c) OBVIOUS
<1>3. PICK own : own = <<stamp[c], seq[k] + 1>> OBVIOUS
<1>4. PICK kept : kept = Limits!Kept(c) OBVIOUS
<1>5. k \in Limits!Keys BY <1>2 DEF Limits!Keys
<1>6. /\ stamp[c] >= 0 /\ result[c] = "none"
      /\ entries' = [entries EXCEPT ![k] = kept \cup {own}]
      /\ seq' = [seq EXCEPT ![k] = seq[k] + 1]
      /\ expiry' = [expiry EXCEPT ![k] = now + WindowSecs + 1]
      /\ result' = [result EXCEPT ![c] = Limits!Verdict(Cardinality(kept \cup {own}))]
      /\ ran' = [ran EXCEPT ![c] = now]
      /\ UNCHANGED <<now, slack, stamp>>
  BY <1>2, <1>3, <1>4, LimitsCardinality DEF Limits!Check, Limits!Counted, Limits!Member
<1>7. /\ now \in Nat /\ slack \in Nat /\ \A d \in Calls : stamp[d] \in Int /\ ran[d] \in Int
      /\ \A l \in Limits!Keys : seq[l] \in Nat /\ expiry[l] \in Nat
      /\ \A d \in Calls : Limits!KeyOf(d) \in Limits!Keys
  BY LimitsAssumption DEF LimitsInv, LimitsTyped, Limits!Keys
<1>8. /\ ran[c] = -1 /\ now - stamp[c] <= slack /\ stamp[c] <= now
  BY <1>6 DEF LimitsInv, Timely
<1>9. /\ ran'[c] = now /\ \A d \in Calls : d # c => ran'[d] = ran[d]
      /\ \A d \in Calls : d # c => result'[d] = result[d]
      /\ seq'[k] = seq[k] + 1 /\ \A l \in Limits!Keys : l # k => seq'[l] = seq[l]
      /\ expiry'[k] = now + WindowSecs + 1 /\ \A l \in Limits!Keys : l # k => expiry'[l] = expiry[l]
      /\ entries'[k] = kept \cup {own} /\ \A l \in Limits!Keys : l # k => entries'[l] = entries[l]
      /\ result'[c] = Limits!Verdict(Cardinality(kept \cup {own}))
  BY <1>5, <1>6 DEF LimitsInv, LimitsTyped
<1>10. LimitsTyped'
  <2>1. Limits!Verdict(Cardinality(kept \cup {own})) \in {"Ok", "RateLimited"} BY DEF Limits!Verdict
  <2>2. seq[k] + 1 \in Nat /\ now + WindowSecs + 1 \in Nat BY <1>5, <1>7, LimitsAssumption
  <2>3. result' \in [Calls -> {"none", "Ok", "RateLimited", "Internal"}]
    BY <1>6, <2>1 DEF LimitsInv, LimitsTyped
  <2>4. ran' \in [Calls -> -1 .. Horizon]
    <3>1. now \in -1 .. Horizon BY LimitsAssumption DEF LimitsInv, LimitsTyped
    <3>2. QED BY <1>6, <3>1 DEF LimitsInv, LimitsTyped
  <2>5. seq' \in [Limits!Keys -> Nat] /\ expiry' \in [Limits!Keys -> Nat] /\ DOMAIN entries' = Limits!Keys
    BY <1>6, <2>2 DEF LimitsInv, LimitsTyped
  <2>6. QED BY <1>6, <2>3, <2>4, <2>5 DEF LimitsInv, LimitsTyped
<1>11. result'[c] \in {"Ok", "RateLimited"} BY <1>9 DEF Limits!Verdict
<1>12. Timely'
  <2>1. SUFFICES ASSUME NEW d \in Calls
                 PROVE  /\ stamp[d] <= now /\ ran'[d] <= now
                        /\ ran'[d] >= 0 => /\ stamp[d] >= 0 /\ stamp[d] <= ran'[d]
                                           /\ ran'[d] - stamp[d] <= slack
                                           /\ expiry'[Limits!KeyOf(d)] >= ran'[d] + WindowSecs + 1
                        /\ result'[d] = "none" => ran'[d] = -1 /\ (stamp[d] >= 0 => now - stamp[d] <= slack)
                        /\ result'[d] \in {"Ok", "RateLimited"} => ran'[d] >= 0
    BY <1>6 DEF Timely
  <2>2. CASE d = c BY <1>2, <1>6, <1>7, <1>8, <1>9, <1>11, <2>2, LimitsAssumption
  <2>3. CASE d # c
    <3>1. /\ stamp[d] <= now /\ ran[d] <= now
          /\ ran[d] >= 0 => /\ stamp[d] >= 0 /\ stamp[d] <= ran[d] /\ ran[d] - stamp[d] <= slack
                            /\ expiry[Limits!KeyOf(d)] >= ran[d] + WindowSecs + 1
          /\ result[d] = "none" => ran[d] = -1 /\ (stamp[d] >= 0 => now - stamp[d] <= slack)
          /\ result[d] \in {"Ok", "RateLimited"} => ran[d] >= 0
      BY DEF LimitsInv, Timely
    <3>2. ran'[d] = ran[d] /\ result'[d] = result[d] BY <1>9, <2>3
    <3>3. ran[d] >= 0 => expiry'[Limits!KeyOf(d)] >= ran[d] + WindowSecs + 1
      <4>1. CASE Limits!KeyOf(d) = k BY <1>7, <1>9, <3>1, <4>1, LimitsAssumption
      <4>2. CASE Limits!KeyOf(d) # k BY <1>7, <1>9, <3>1, <4>2
      <4>3. QED BY <4>1, <4>2
    <3>4. QED BY <3>1, <3>2, <3>3
  <2>4. QED BY <2>2, <2>3
<1>13. Counts'
  <2>1. SUFFICES ASSUME NEW l \in Limits!Keys
                 PROVE  seq'[l] = Cardinality({d \in Calls : ran'[d] >= 0 /\ Limits!KeyOf(d) = l})
    BY DEF Counts
  <2> DEFINE old == {d \in Calls : ran[d] >= 0 /\ Limits!KeyOf(d) = l}
  <2>2. seq[l] = Cardinality(old) BY DEF LimitsInv, Counts
  <2>3. CASE l = k
    <3>1. {d \in Calls : ran'[d] >= 0 /\ Limits!KeyOf(d) = l} = old \cup {c}
      BY <1>2, <1>7, <1>9, <2>3
    <3>2. c \notin old BY <1>8
    <3>3. IsFiniteSet(old) BY CallsAreFinite
    <3>4. Cardinality(old \cup {c}) = Cardinality(old) + 1 BY <3>2, <3>3, FS_AddElement
    <3>5. QED BY <1>9, <2>2, <2>3, <3>1, <3>4
  <2>4. CASE l # k
    <3>1. {d \in Calls : ran'[d] >= 0 /\ Limits!KeyOf(d) = l} = old BY <1>2, <1>9, <2>4
    <3>2. QED BY <1>9, <2>2, <2>4, <3>1
  <2>5. QED BY <2>3, <2>4
<1>14. PICK new : new = [num EXCEPT ![c] = seq[k] + 1] OBVIOUS
<1>15. /\ new \in [Calls -> Nat] /\ new[c] = seq[k] + 1 /\ \A d \in Calls : d # c => new[d] = num[d]
       /\ own = <<stamp[c], new[c]>>
  BY <1>1, <1>3, <1>5, <1>7, <1>14 DEF Numbered
\* The sorted set before the call, without what the script removed.
<1>16. /\ \A e \in kept : e[1] > stamp[c] - WindowSecs
       /\ \A e \in kept : \E d \in Calls :
              d # c /\ ran[d] >= 0 /\ Limits!KeyOf(d) = k /\ e = <<stamp[d], num[d]>>
  <2>1. kept \subseteq entries[k] /\ \A e \in kept : e[1] > stamp[c] - WindowSecs
    BY <1>2, <1>4 DEF Limits!Kept, Limits!Stored
  <2>2. \A e \in entries[k] : \E d \in Calls : ran[d] >= 0 /\ Limits!KeyOf(d) = k /\ e = <<stamp[d], num[d]>>
    BY <1>1, <1>5 DEF Numbered
  <2>3. QED BY <1>8, <2>1, <2>2
<1>17. \A d \in Calls : (ran[d] >= 0 /\ Limits!KeyOf(d) = k) =>
           \/ <<stamp[d], num[d]>> \in kept
           \/ ran[d] <= now - (WindowSecs - slack)
  <2>1. SUFFICES ASSUME NEW d \in Calls, ran[d] >= 0, Limits!KeyOf(d) = k,
                        ~(ran[d] <= now - (WindowSecs - slack))
                 PROVE  <<stamp[d], num[d]>> \in kept
    OBVIOUS
  <2>2. <<stamp[d], num[d]>> \in entries[k] BY <1>1, <2>1 DEF Numbered
  <2>3. /\ stamp[d] <= ran[d] /\ ran[d] - stamp[d] <= slack
        /\ expiry[k] >= ran[d] + WindowSecs + 1
    BY <2>1 DEF LimitsInv, Timely
  <2>4. expiry[k] > now BY <1>5, <1>7, <2>1, <2>3, LimitsAssumption
  <2>5. stamp[d] > stamp[c] - WindowSecs BY <1>7, <1>8, <2>1, <2>3, LimitsAssumption
  <2>6. QED BY <1>2, <1>4, <2>2, <2>4, <2>5 DEF Limits!Kept, Limits!Stored
<1>18. Numbered(new)'
  <2>1. \A d \in Calls : ran'[d] >= 0 => new[d] <= seq'[Limits!KeyOf(d)]
    <3>1. SUFFICES ASSUME NEW d \in Calls, ran'[d] >= 0 PROVE new[d] <= seq'[Limits!KeyOf(d)] OBVIOUS
    <3>2. CASE d = c BY <1>2, <1>5, <1>7, <1>9, <1>15, <3>2
    <3>3. CASE d # c
      <4>1. num[d] <= seq[Limits!KeyOf(d)] /\ num[d] \in Nat BY <1>1, <1>9, <3>1, <3>3 DEF Numbered
      <4>2. seq[Limits!KeyOf(d)] <= seq'[Limits!KeyOf(d)] /\ seq'[Limits!KeyOf(d)] \in Nat BY <1>5, <1>7, <1>9
      <4>3. QED BY <1>7, <1>15, <3>3, <4>1, <4>2
    <3>4. QED BY <3>2, <3>3
  <2>2. \A d \in Calls : (ran[d] >= 0 /\ Limits!KeyOf(d) = k) => num[d] <= seq[k] /\ num[d] \in Nat
    BY <1>1 DEF Numbered
  <2>3. ASSUME NEW d \in Calls, NEW e \in Calls, ran'[d] >= 0, ran'[e] >= 0,
               Limits!KeyOf(d) = Limits!KeyOf(e), new[d] = new[e]
        PROVE  d = e
    <3>1. CASE d # c /\ e # c BY <1>1, <1>9, <1>15, <2>3, <3>1 DEF Numbered
    <3>2. CASE d = c /\ e # c
      <4>1. num[e] <= seq[k] /\ num[e] \in Nat BY <1>2, <1>9, <2>2, <2>3, <3>2
      <4>2. QED BY <1>5, <1>7, <1>15, <2>3, <3>2, <4>1
    <3>3. CASE d # c /\ e = c
      <4>1. num[d] <= seq[k] /\ num[d] \in Nat BY <1>2, <1>9, <2>2, <2>3, <3>3
      <4>2. QED BY <1>5, <1>7, <1>15, <2>3, <3>3, <4>1
    <3>4. QED BY <3>1, <3>2, <3>3
  <2>4. ASSUME NEW l \in Limits!Keys, NEW e \in entries'[l]
        PROVE  \E d \in Calls : ran'[d] >= 0 /\ Limits!KeyOf(d) = l /\ e = <<stamp[d], new[d]>>
    <3>1. CASE e = own /\ l = k BY <1>2, <1>7, <1>9, <1>15, <3>1
    <3>2. CASE e \in kept /\ l = k
      <4>1. PICK d \in Calls : d # c /\ ran[d] >= 0 /\ Limits!KeyOf(d) = k /\ e = <<stamp[d], num[d]>>
        BY <1>16, <3>2
      <4>2. ran'[d] = ran[d] /\ new[d] = num[d] BY <1>9, <1>15, <4>1
      <4>3. QED BY <3>2, <4>1, <4>2
    <3>3. CASE l # k
      <4>1. PICK d \in Calls : ran[d] >= 0 /\ Limits!KeyOf(d) = l /\ e = <<stamp[d], num[d]>>
        BY <1>1, <1>9, <2>4, <3>3 DEF Numbered
      <4>2. ran'[d] = ran[d] /\ new[d] = num[d] BY <1>2, <1>9, <1>15, <3>3, <4>1
      <4>3. QED BY <4>1, <4>2
    <3>4. QED BY <1>9, <2>4, <3>1, <3>2, <3>3
  <2>5. ASSUME NEW d \in Calls, ran'[d] >= 0
        PROVE  \/ <<stamp[d], new[d]>> \in entries'[Limits!KeyOf(d)]
               \/ ran'[d] <= now - (WindowSecs - slack)
    <3>1. CASE d = c BY <1>2, <1>9, <1>15, <3>1
    <3>2. CASE d # c /\ Limits!KeyOf(d) = k BY <1>9, <1>15, <1>17, <2>5, <3>2
    <3>3. CASE d # c /\ Limits!KeyOf(d) # k
      <4>1. ran'[d] = ran[d] /\ new[d] = num[d] /\ entries'[Limits!KeyOf(d)] = entries[Limits!KeyOf(d)]
        BY <1>7, <1>9, <1>15, <3>3
      <4>2. QED BY <1>1, <2>5, <4>1 DEF Numbered
    <3>4. QED BY <3>1, <3>2, <3>3
  <2>6. QED BY <1>6, <1>15, <2>1, <2>3, <2>4, <2>5 DEF Numbered
<1>19. IsFiniteSet(kept) /\ IsFiniteSet(kept \cup {own})
       /\ Cardinality(kept) \in Nat /\ Cardinality(kept \cup {own}) \in Nat
       /\ Cardinality(kept \cup {own}) <= Cardinality(kept) + 1
       /\ Cardinality(kept) <= Cardinality(Busy(c)')
  <2> DEFINE busy == {d \in Calls \ {c} : /\ Limits!SameCaller(c, d) /\ ran'[d] >= 0 /\ ran'[d] <= ran'[c]
                                          /\ stamp[d] > stamp[c] - WindowSecs}
             point == [d \in busy |-> <<stamp[d], num[d]>>]
             image == {point[d] : d \in busy}
  <2>1. Busy(c)' = busy BY <1>6 DEF Busy
  <2>2. kept \subseteq image
    <3>1. SUFFICES ASSUME NEW e \in kept PROVE \E d \in busy : e = <<stamp[d], num[d]>> OBVIOUS
    <3>2. PICK d \in Calls : d # c /\ ran[d] >= 0 /\ Limits!KeyOf(d) = k /\ e = <<stamp[d], num[d]>>
      BY <1>16
    <3>3. stamp[d] > stamp[c] - WindowSecs BY <1>16, <3>2
    <3>4. Limits!SameCaller(c, d) BY <1>2, <3>2, OneKey
    <3>5. ran[d] <= now BY DEF LimitsInv, Timely
    <3>6. d \in busy BY <1>9, <3>2, <3>3, <3>4, <3>5
    <3>7. QED BY <3>2, <3>6
  <2>3. IsFiniteSet(busy) /\ Cardinality(busy) \in Nat BY CallsAreFinite
  <2> HIDE DEF busy
  <2>4. point \in Surjection(busy, image) BY DEF Surjection
  <2>5. IsFiniteSet(image) /\ Cardinality(image) <= Cardinality(busy) BY <2>3, <2>4, FS_Surjection
  <2> HIDE DEF point, image
  <2>6. IsFiniteSet(kept) /\ Cardinality(kept) <= Cardinality(image) BY <2>2, <2>5, FS_Subset
  <2>7. /\ Cardinality(kept) \in Nat /\ Cardinality(image) \in Nat BY <2>5, <2>6, FS_CardinalityType
  <2>8. /\ IsFiniteSet(kept \cup {own})
        /\ Cardinality(kept \cup {own}) = IF own \in kept THEN Cardinality(kept) ELSE Cardinality(kept) + 1
    BY <2>6, FS_AddElement
  <2>9. QED BY <2>1, <2>3, <2>5, <2>6, <2>7, <2>8
<1>20. \A d \in Calls : result'[d] = "Ok" => Cardinality(Admitted(d)') <= MaxRequests
  <2>1. SUFFICES ASSUME NEW d \in Calls, result'[d] = "Ok" PROVE Cardinality(Admitted(d)') <= MaxRequests
    OBVIOUS
  <2>2. CASE c \notin Admitted(d)'
    <3>1. d # c \/ Admitted(d)' = {}
      <4>1. d = c => \A e \in Admitted(d)' : c \in Admitted(d)'
        BY <1>6, <1>7, <1>9, <2>1, LimitsAssumption DEF Admitted, Limits!SameCaller
      <4>2. QED BY <2>2, <4>1
    <3>2. CASE Admitted(d)' = {} BY <3>2, FS_EmptySet, LimitsAssumption
    <3>3. CASE d # c
      <4>1. Admitted(d)' \subseteq Admitted(d)
        BY <1>6, <1>9, <2>2, <3>3 DEF Admitted, Limits!SameCaller
      <4>2. Cardinality(Admitted(d)) <= MaxRequests
        BY <1>9, <2>1, <3>3 DEF LimitsInv, Within
      <4>3. Admitted(d) \in SUBSET Calls BY DEF Admitted
      <4>4. /\ Cardinality(Admitted(d)') <= Cardinality(Admitted(d))
            /\ Cardinality(Admitted(d)') \in Nat /\ Cardinality(Admitted(d)) \in Nat
        BY <4>1, <4>3, CallsAreFinite, FS_Subset
      <4>5. QED BY <4>2, <4>4, LimitsAssumption
    <3>4. QED BY <3>1, <3>2, <3>3
  <2>3. CASE c \in Admitted(d)'
    <3>1. /\ Limits!SameCaller(d, c) /\ result'[c] = "Ok" /\ now <= ran'[d]
      BY <1>9, <2>3 DEF Admitted, Limits!SameCaller
    <3>2. ran'[d] = now
      <4>1. ran'[d] <= now BY <1>12, <1>6 DEF Timely
      <4>2. QED BY <1>7, <1>9, <3>1, <4>1
    <3> DEFINE some == {e \in Calls : /\ Limits!SameCaller(d, e) /\ result'[e] = "Ok" /\ ran'[e] <= now
                                      /\ ran'[e] > now - (WindowSecs - slack)}
               point == [e \in some |-> <<stamp[e], new[e]>>]
    <3>3. Admitted(d)' = some BY <1>6, <3>2 DEF Admitted, Limits!SameCaller
    <3>4. \A e \in some : Limits!KeyOf(e) = k /\ ran'[e] >= 0
      <4>1. \A e \in Calls : result'[e] = "Ok" => ran'[e] >= 0 BY <1>12 DEF Timely
      <4>2. QED BY <1>2, <3>1, <4>1, OneKey
    <3>5. \A e \in some : <<stamp[e], new[e]>> \in kept \cup {own}
      <4>1. SUFFICES ASSUME NEW e \in some PROVE <<stamp[e], new[e]>> \in kept \cup {own} OBVIOUS
      <4>2. CASE e = c BY <1>15, <4>2
      <4>3. CASE e # c
        <5>1. ran[e] >= 0 /\ Limits!KeyOf(e) = k /\ ~(ran[e] <= now - (WindowSecs - slack))
          BY <1>7, <1>9, <3>4, <4>3, LimitsAssumption
        <5>2. <<stamp[e], num[e]>> \in kept BY <1>17, <5>1
        <5>3. QED BY <1>15, <4>3, <5>2
      <4>4. QED BY <4>2, <4>3
    <3>6. \A e, f \in some : <<stamp[e], new[e]>> = <<stamp[f], new[f]>> => e = f
      <4>1. \A e, f \in Calls : (ran'[e] >= 0 /\ ran'[f] >= 0 /\ Limits!KeyOf(e) = Limits!KeyOf(f) /\ new[e] = new[f])
                                    => e = f
        BY <1>18 DEF Numbered
      <4>2. QED BY <3>4, <4>1
    <3>7. some \in SUBSET Calls OBVIOUS
    <3> HIDE DEF some
    <3>8. point \in Injection(some, kept \cup {own}) 
      <4>1. point \in [some -> kept \cup {own}] BY <3>5
      <4>2. \A e, f \in some : point[e] = point[f] => e = f BY <3>6
      <4>3. QED BY <4>1, <4>2 DEF Injection, IsInjective
    <3>9. Cardinality(some) <= Cardinality(kept \cup {own}) BY <1>19, <3>8, FS_Injection
    <3>10. Cardinality(kept \cup {own}) <= MaxRequests
      BY <1>9, <1>19, <3>1, LimitsAssumption DEF Limits!Verdict
    <3>11. Cardinality(some) \in Nat BY <3>7, CallsAreFinite
    <3>12. QED BY <1>19, <3>3, <3>9, <3>10, <3>11, LimitsAssumption
  <2>4. QED BY <2>2, <2>3
<1>21. \A d \in Calls : result'[d] = "RateLimited" => Cardinality(Busy(d)') >= MaxRequests
  <2>1. SUFFICES ASSUME NEW d \in Calls, result'[d] = "RateLimited"
                 PROVE  Cardinality(Busy(d)') >= MaxRequests
    OBVIOUS
  <2>2. Busy(d)' \in SUBSET Calls BY DEF Busy
  <2>3. IsFiniteSet(Busy(d)') /\ Cardinality(Busy(d)') \in Nat BY <2>2, CallsAreFinite
  <2>4. CASE d = c
    <3>1. Cardinality(kept \cup {own}) > MaxRequests BY <1>9, <2>1, <2>4 DEF Limits!Verdict
    <3>2. QED BY <1>19, <2>3, <2>4, <3>1, LimitsAssumption
  <2>5. CASE d # c
    <3>1. Busy(d) \subseteq Busy(d)'
      BY <1>6, <1>8, <1>9, <2>5 DEF Busy, Limits!SameCaller
    <3>2. Cardinality(Busy(d)) >= MaxRequests BY <1>9, <2>1, <2>5 DEF LimitsInv, Within
    <3>3. Busy(d) \in SUBSET Calls BY DEF Busy
    <3>4. Cardinality(Busy(d)) <= Cardinality(Busy(d)') /\ Cardinality(Busy(d)) \in Nat
      BY <2>3, <3>1, <3>3, CallsAreFinite, FS_Subset
    <3>5. QED BY <2>3, <3>2, <3>4, LimitsAssumption
  <2>6. QED BY <2>4, <2>5
<1>22. Within' BY <1>20, <1>21 DEF Within
<1>23. QED BY <1>10, <1>12, <1>13, <1>18, <1>22 DEF LimitsInv

LEMMA LimitsKept == ASSUME LimitsInv, [Limits!Next]_(Limits!vars) PROVE LimitsInv'
<1>1. CASE UNCHANGED Limits!vars
  <2>1. LimitsTyped' /\ Timely' BY <1>1 DEF LimitsInv, LimitsTyped, Timely, Limits!vars
  <2>2. now' >= now BY <1>1 DEF LimitsInv, LimitsTyped, Limits!vars
  <2>3. QED BY <1>1, <2>1, <2>2, LimitsQuiet DEF Limits!vars
<1>2. QED BY <1>1, CallBegan, CallChecked, CallFailed, TimePassed DEF Limits!Next

LEMMA LimitsFacts == ASSUME LimitsInv PROVE Limits!TypeOK /\ Limits!AdmittedWithinLimit /\ Limits!RefusedMeansBusy
<1>1. Limits!TypeOK
  <2>1. PICK num : Numbered(num) BY DEF LimitsInv
  <2>2. \A k \in Limits!Keys : seq[k] \in 0 .. Cardinality(Calls)
    <3>1. SUFFICES ASSUME NEW k \in Limits!Keys PROVE seq[k] \in 0 .. Cardinality(Calls) OBVIOUS
    <3>2. PICK S \in SUBSET Calls : seq[k] = Cardinality(S) BY DEF LimitsInv, Counts
    <3>3. Cardinality(S) <= Cardinality(Calls) BY LimitsAssumption, FS_Subset
    <3>4. QED BY <3>2, <3>3, CallsAreFinite
  <2>3. ASSUME NEW k \in Limits!Keys, NEW e \in entries[k]
        PROVE  e \in (0 .. Horizon) \X (0 .. Cardinality(Calls))
    <3>1. PICK c \in Calls : ran[c] >= 0 /\ Limits!KeyOf(c) = k /\ e = <<stamp[c], num[c]>>
      BY <2>1, <2>3 DEF Numbered
    <3>2. num[c] \in Nat /\ num[c] <= seq[k] BY <2>1, <3>1 DEF Numbered
    <3>3. stamp[c] \in -1 .. Horizon /\ stamp[c] >= 0
      BY <3>1 DEF LimitsInv, LimitsTyped, Timely
    <3>4. stamp[c] \in 0 .. Horizon BY <3>3
    <3>5. num[c] \in 0 .. Cardinality(Calls) BY <2>2, <3>2, CallsAreFinite
    <3>6. QED BY <3>1, <3>4, <3>5
  <2>4. QED BY <2>2, <2>3, LimitsCardinality DEF LimitsInv, LimitsTyped, Limits!TypeOK
<1>2. Limits!AdmittedWithinLimit BY LimitsCardinality DEF LimitsInv, Within, Admitted, Limits!AdmittedWithinLimit
<1>3. Limits!RefusedMeansBusy BY LimitsCardinality DEF LimitsInv, Within, Busy, Limits!RefusedMeansBusy
<1>4. QED BY <1>1, <1>2, <1>3

-----------------------------------------------------------------------------
(* Tokens, rules and tenants.                                               *)

TokenMinted(t) ==
    /\ \E a \in Accounts : a.sub = t.sub /\ a.role = t.role
    /\ t.token_type \in {"access", "refresh"}
    /\ t.iat \in Nat
    /\ t.exp = t.iat + (IF t.token_type = "access" THEN AccessTtl ELSE RefreshTtl)
    /\ Option(t.tenant_id)

TokensInv ==
    /\ time \in 0 .. TokenHorizon
    /\ \A t \in tokens : TokenMinted(t)
    /\ Option(seen)
    /\ Tokens!RuleIsWhole /\ Tokens!TenantViewsAgree /\ Tokens!SignedInIsRecent

LEMMA TokensStart == ASSUME Tokens!Init PROVE TokensInv
BY TokensAssumption DEF Tokens!Init, TokensInv, Option, Tokens!RuleIsWhole, Tokens!TenantViewsAgree, Tokens!SignedInIsRecent

\* What enforce and needs_owner_check each say of a user, by the form of the rule.
LEMMA Enforced ==
    ASSUME NEW rule \in Rules, NEW user, Option(user)
    PROVE  /\ rule = {} => Tokens!enforce(rule, user) = "Ok"
           /\ \A r \in rule : r.kind = "public" => Tokens!enforce(rule, user) = "Ok"
           /\ \A r \in rule : r.kind # "public" /\ user = {} => Tokens!enforce(rule, user) # "Ok"
           /\ \A r \in rule, u \in user :
                 /\ r.kind = "owner" => Tokens!enforce(rule, user) = "Ok"
                 /\ r.kind = "roles" => 
                       (Tokens!enforce(rule, user) = "Ok" <=> u.role \in r.roles \/ "owner" \in r.roles)
<1> \A r, s \in rule : r = s BY TokensAssumption
<1>1. rule = {} => Tokens!enforce(rule, user) = "Ok" BY DEF Tokens!enforce
<1>2. ASSUME NEW r \in rule, r.kind = "public" PROVE Tokens!enforce(rule, user) = "Ok"
  BY <1>2 DEF Tokens!enforce
<1>3. ASSUME NEW r \in rule, r.kind # "public", user = {} PROVE Tokens!enforce(rule, user) # "Ok"
  <2>1. rule # {} /\ ~ \E s \in rule : s.kind = "public" BY <1>3
  <2>2. QED BY <1>3, <2>1 DEF Tokens!enforce
<1>4. ASSUME NEW r \in rule, NEW u \in user, r.kind = "owner" PROVE Tokens!enforce(rule, user) = "Ok"
  <2>1. rule # {} /\ (~ \E s \in rule : s.kind = "public") /\ user # {} BY <1>4
  <2>2. QED BY <1>4, <2>1 DEF Tokens!enforce
<1>5. ASSUME NEW r \in rule, NEW u \in user, r.kind = "roles"
      PROVE  Tokens!enforce(rule, user) = "Ok" <=> u.role \in r.roles \/ "owner" \in r.roles
  <2>1. rule # {} /\ (~ \E s \in rule : s.kind = "public") /\ user # {} BY <1>5
  <2>2. ~ \E s \in rule : s.kind = "owner" BY <1>5
  <2>3. (\E s \in rule, v \in user : v.role \in s.roles \/ "owner" \in s.roles)
            <=> u.role \in r.roles \/ "owner" \in r.roles
    BY DEF Option
  <2>4. QED BY <2>1, <2>2, <2>3 DEF Tokens!enforce
<1>6. QED BY <1>1, <1>2, <1>3, <1>4, <1>5

LEMMA OwnerChecked ==
    ASSUME NEW rule \in Rules, NEW user, Option(user), NEW r \in rule, NEW u \in user
    PROVE  Tokens!needs_owner_check(rule, user) <=>
               \/ r.kind = "owner"
               \/ r.kind = "roles" /\ "owner" \in r.roles /\ u.role \notin r.roles \ {"owner"}
BY TokensAssumption DEF Tokens!needs_owner_check, Option

\* The two halves of a rule, on a row whose tenant is not asked for.
LEMMA HalvesMeet ==
    ASSUME NEW rule \in Rules, NEW user, Option(user), NEW row, NEW r \in rule, r.kind # "public"
    PROVE  Tokens!Decision(rule, FALSE, user, row) = "Ok" <=>
               \E u \in user : \/ r.kind = "roles" /\ u.role \in r.roles \ {"owner"}
                               \/ /\ r.kind = "owner" \/ "owner" \in r.roles
                                  /\ u.sub = row.owner
<1>1. CASE user = {}
  <2>1. Tokens!enforce(rule, user) # "Ok" BY <1>1, Enforced
  <2>2. Tokens!Decision(rule, FALSE, user, row) # "Ok" BY <2>1 DEF Tokens!Decision
  <2>3. QED BY <1>1, <2>2
<1>2. ASSUME NEW u \in user PROVE Tokens!Decision(rule, FALSE, user, row) = "Ok" <=>
               \/ r.kind = "roles" /\ u.role \in r.roles \ {"owner"}
               \/ (r.kind = "owner" \/ "owner" \in r.roles) /\ u.sub = row.owner
  <2>1. r.kind \in {"owner", "roles"} BY TokensAssumption
  <2>2. Tokens!verify_tenant(FALSE, user, row) = "Ok" BY DEF Tokens!verify_tenant
  <2>3. Tokens!check_owner(user, row) <=> u.sub = row.owner BY <1>2 DEF Tokens!check_owner, Option
  <2>4. user # {} BY <1>2
  <2>5. Tokens!Decision(rule, FALSE, user, row) = "Ok" <=>
            Tokens!enforce(rule, user) = "Ok" /\ (Tokens!needs_owner_check(rule, user) => Tokens!check_owner(user, row))
    BY <2>2, <2>4 DEF Tokens!Decision
  <2>6. CASE r.kind = "owner"
    <3>1. Tokens!enforce(rule, user) = "Ok" BY <1>2, <2>6, Enforced
    <3>2. Tokens!needs_owner_check(rule, user) BY <1>2, <2>6, OwnerChecked
    <3>3. QED BY <2>3, <2>5, <2>6, <3>1, <3>2
  <2>7. CASE r.kind = "roles"
    <3>1. Tokens!enforce(rule, user) = "Ok" <=> u.role \in r.roles \/ "owner" \in r.roles
      BY <1>2, <2>7, Enforced
    <3>2. Tokens!needs_owner_check(rule, user) <=> "owner" \in r.roles /\ u.role \notin r.roles \ {"owner"}
      BY <1>2, <2>7, OwnerChecked
    <3>3. QED BY <2>3, <2>5, <2>7, <3>1, <3>2
  <2>8. QED BY <2>1, <2>6, <2>7
<1>3. QED BY <1>1, <1>2 DEF Option

\* The tenants of a row, as each handler checks them.
LEMMA TenantsAgree ==
    ASSUME NEW scoped \in BOOLEAN, NEW user, Option(user), \A u \in user : Option(u.tenant_id),
           NEW row
    PROVE  LET f == Tokens!inject_tenant_filter(scoped, user) IN
           /\ Tokens!verify_tenant(scoped, user, row) = "Ok" <=> f.ok /\ f.only \subseteq {row.tenant}
           /\ scoped => (Tokens!assert_tenant_match(user, row) = "Ok" <=> f.ok /\ f.only \subseteq {row.tenant})
<1> DEFINE f == Tokens!inject_tenant_filter(scoped, user)
<1>1. CASE ~scoped
  BY <1>1 DEF Tokens!inject_tenant_filter, Tokens!verify_tenant
<1>2. CASE scoped /\ Tokens!is_super_admin(user)
  BY <1>2 DEF Tokens!inject_tenant_filter, Tokens!verify_tenant, Tokens!assert_tenant_match
<1>3. CASE scoped /\ ~Tokens!is_super_admin(user) /\ \E u \in user : u.tenant_id # {}
  <2>1. PICK u \in user : u.tenant_id # {} BY <1>3
  <2>2. PICK t \in u.tenant_id : TRUE BY <2>1
  <2>3. user = {u} /\ u.tenant_id = {t} BY <2>1, <2>2 DEF Option
  <2>4. f.ok /\ f.only = {t}
    <3>1. UNION {v.tenant_id : v \in user} = {t} BY <2>3
    <3>2. QED BY <1>3, <3>1 DEF Tokens!inject_tenant_filter
  <2>5. Tokens!verify_tenant(scoped, user, row) = "Ok" <=> t = row.tenant
    BY <1>3, <2>3 DEF Tokens!verify_tenant
  <2>6. Tokens!assert_tenant_match(user, row) = "Ok" <=> t = row.tenant
    BY <1>3, <2>3 DEF Tokens!assert_tenant_match
  <2>7. QED BY <2>4, <2>5, <2>6
<1>4. CASE scoped /\ ~Tokens!is_super_admin(user) /\ ~ \E u \in user : u.tenant_id # {}
  <2>1. UNION {u.tenant_id : u \in user} = {} BY <1>4
  <2>2. ~f.ok BY <1>4, <2>1 DEF Tokens!inject_tenant_filter
  <2>3. Tokens!verify_tenant(scoped, user, row) # "Ok" /\ Tokens!assert_tenant_match(user, row) # "Ok"
    BY <1>4 DEF Tokens!verify_tenant, Tokens!assert_tenant_match
  <2>4. QED BY <2>2, <2>3
<1>5. QED BY <1>1, <1>2, <1>3, <1>4

\* A request decided for a user whose claims are options.
LEMMA DecidedWell ==
    ASSUME TokensInv, NEW via, NEW user, NEW rule \in Rules, NEW scoped \in BOOLEAN, NEW row,
           Option(user), \A u \in user : Option(u.tenant_id),
           Tokens!Decided(via, user, rule, scoped, row),
           via \in {"rest", "grpc"} => \E t \in tokens :
               user = {} \/ (/\ t.token_type = "access" /\ Tokens!decode(t)
                             /\ \A u \in user : u.sub = t.sub /\ u.role = t.role)
    PROVE  TokensInv'
<1> DEFINE s == [via |-> via, at |-> time, user |-> user, rule |-> rule, scoped |-> scoped,
                 row |-> row, answer |-> Tokens!Decision(rule, scoped, user, row),
                 listed |-> Tokens!Listed(rule, scoped, user, row),
                 custom |-> Tokens!assert_tenant_match(user, row)]
<1>1. seen' = {s} /\ UNCHANGED <<time, tokens>> BY DEF Tokens!Decided
<1>a. /\ s.via = via /\ s.at = time /\ s.user = user /\ s.rule = rule /\ s.scoped = scoped
      /\ s.row = row /\ s.answer = Tokens!Decision(rule, scoped, user, row)
      /\ s.listed = Tokens!Listed(rule, scoped, user, row) /\ s.custom = Tokens!assert_tenant_match(user, row)
  OBVIOUS
<1>2. Tokens!RuleIsWhole'
  <2>1. ASSUME NEW r \in rule, r.kind # "public", ~scoped
        PROVE  Tokens!Decision(rule, scoped, user, row) = "Ok" <=>
                   \E u \in user : \/ r.kind = "roles" /\ u.role \in r.roles \ {"owner"}
                                   \/ /\ r.kind = "owner" \/ "owner" \in r.roles
                                      /\ u.sub = row.owner
    <3>1. scoped = FALSE BY <2>1
    <3>2. Tokens!Decision(rule, FALSE, user, row) = "Ok" <=>
              \E u \in user : \/ r.kind = "roles" /\ u.role \in r.roles \ {"owner"}
                              \/ /\ r.kind = "owner" \/ "owner" \in r.roles
                                 /\ u.sub = row.owner
      BY <2>1, HalvesMeet
    <3>3. QED BY <3>1, <3>2
  <2> HIDE DEF s
  <2>2. QED BY <1>1, <1>a, <2>1 DEF Tokens!RuleIsWhole
<1>3. Tokens!TenantViewsAgree'
  <2> DEFINE f == Tokens!inject_tenant_filter(scoped, user)
             shown == f.ok /\ f.only \subseteq {row.tenant}
  <2>1. ASSUME ~Tokens!needs_owner_check(rule, user)
        PROVE  Tokens!Decision(rule, scoped, user, row) = "Ok" <=> Tokens!enforce(rule, user) = "Ok" /\ shown
    <3>1. Tokens!verify_tenant(scoped, user, row) = "Ok" <=> shown BY TenantsAgree
    <3>2. QED BY <2>1, <3>1 DEF Tokens!Decision
  <2>2. Tokens!Listed(rule, scoped, user, row) <=> Tokens!enforce(rule, user) = "Ok" /\ shown BY DEF Tokens!Listed
  <2>3. scoped => (Tokens!assert_tenant_match(user, row) = "Ok" <=> shown) BY TenantsAgree
  <2> HIDE DEF s, shown
  <2>4. QED BY <1>1, <1>a, <2>1, <2>2, <2>3 DEF Tokens!TenantViewsAgree
<1>4. Tokens!SignedInIsRecent'
  <2>1. ASSUME via \in {"rest", "grpc"}, NEW u \in user
        PROVE  /\ \E a \in Accounts : a.sub = u.sub /\ a.role = u.role
               /\ \E t \in tokens : /\ t.sub = u.sub /\ t.role = u.role
                                    /\ t.token_type = "access"
                                    /\ time <= t.iat + AccessTtl + Leeway
    <3>1. PICK t \in tokens : /\ t.token_type = "access" /\ Tokens!decode(t)
                              /\ u.sub = t.sub /\ u.role = t.role
      BY <2>1
    <3>2. time <= t.iat + AccessTtl + Leeway
      BY <3>1, TokensAssumption DEF TokensInv, TokenMinted, Tokens!decode
    <3>3. QED BY <3>1, <3>2 DEF TokensInv, TokenMinted
  <2> HIDE DEF s
  <2>2. QED BY <1>1, <1>a, <2>1 DEF Tokens!SignedInIsRecent
<1>5. Option(seen)' BY <1>1 DEF Option
<1> HIDE DEF s
<1>6. QED BY <1>1, <1>2, <1>3, <1>4, <1>5 DEF TokensInv, TokenMinted

LEMMA Asked ==
    ASSUME TokensInv, NEW rule \in Rules, NEW row \in TokenRows, NEW scoped \in BOOLEAN,
           \/ \E t \in tokens : Tokens!GrpcRequest(t, rule, row) \/ Tokens!RestRequest(t, rule, scoped, row)
           \/ \E a \in ApiKeyUsers : Tokens!KeyRequest(a, rule, scoped, row)
           \/ Tokens!PlainRequest(rule, scoped, row)
    PROVE  TokensInv'
<1>1. ASSUME NEW t \in tokens, Tokens!GrpcRequest(t, rule, row) PROVE TokensInv'
  <2> DEFINE user == Tokens!extract_user_from_headers(t)
  <2>1. /\ Option(user) /\ \A u \in user : Option(u.tenant_id) /\ u.sub = t.sub /\ u.role = t.role
        /\ user # {} => (t.token_type = "access" /\ Tokens!decode(t))
    <3>1. CASE Tokens!decode(t) /\ t.token_type = "access"
      <4>1. user = {Tokens!AuthenticatedUser(t.sub, t.role, {})} BY <3>1 DEF Tokens!extract_user_from_headers
      <4>2. Option({}) BY DEF Option
      <4>3. QED BY <3>1, <4>1, <4>2 DEF Tokens!AuthenticatedUser, Option
    <3>2. CASE ~(Tokens!decode(t) /\ t.token_type = "access")
      <4>1. user = {} BY <3>2 DEF Tokens!extract_user_from_headers
      <4> HIDE DEF user
      <4>2. QED BY <4>1 DEF Option
    <3>3. QED BY <3>1, <3>2
  <2>2. Tokens!Decided("grpc", user, rule, FALSE, row) BY <1>1 DEF Tokens!GrpcRequest
  <2> HIDE DEF user
  <2>3. QED BY <2>1, <2>2, DecidedWell
<1>2. ASSUME NEW t \in tokens, Tokens!RestRequest(t, rule, scoped, row) PROVE TokensInv'
  <2> DEFINE user == Tokens!extract_auth(t)
  <2>1. /\ Option(user) /\ \A u \in user : Option(u.tenant_id) /\ u.sub = t.sub /\ u.role = t.role
        /\ user # {} => (t.token_type = "access" /\ Tokens!decode(t))
    <3>1. CASE Tokens!decode(t) /\ t.token_type = "access"
      <4>1. user = {Tokens!AuthenticatedUser(t.sub, t.role, t.tenant_id)} BY <3>1 DEF Tokens!extract_auth
      <4>2. Option(t.tenant_id) BY DEF Option, TokensInv, TokenMinted
      <4>3. QED BY <3>1, <4>1, <4>2 DEF Tokens!AuthenticatedUser, Option
    <3>2. CASE ~(Tokens!decode(t) /\ t.token_type = "access")
      <4>1. user = {} BY <3>2 DEF Tokens!extract_auth
      <4> HIDE DEF user
      <4>2. QED BY <4>1 DEF Option
    <3>3. QED BY <3>1, <3>2
  <2>2. Tokens!Decided("rest", user, rule, scoped, row) BY <1>2 DEF Tokens!RestRequest
  <2> HIDE DEF user
  <2>3. QED BY <2>1, <2>2, DecidedWell
<1>3. ASSUME NEW a \in ApiKeyUsers, Tokens!KeyRequest(a, rule, scoped, row) PROVE TokensInv'
  <2> DEFINE user == Tokens!lookup(a)
  <2>1. Option(user) /\ \A u \in user : Option(u.tenant_id)
    BY DEF Tokens!lookup, Tokens!AuthenticatedUser, Option
  <2>2. Tokens!Decided("key", user, rule, scoped, row) BY <1>3 DEF Tokens!KeyRequest
  <2> HIDE DEF user
  <2>3. QED BY <2>1, <2>2, DecidedWell
<1>4. CASE Tokens!PlainRequest(rule, scoped, row)
  BY <1>4, DecidedWell DEF Tokens!PlainRequest, Option
<1>5. QED BY <1>1, <1>2, <1>3, <1>4

LEMMA Issued ==
    ASSUME TokensInv, NEW ts, Tokens!Issues(ts), \A t \in ts : TokenMinted(t)
    PROVE  TokensInv'
<1>1. tokens' = tokens \cup ts /\ UNCHANGED <<time, seen>> BY DEF Tokens!Issues
<1>2. \A t \in tokens' : TokenMinted(t) BY <1>1 DEF TokensInv
<1>3. Tokens!RuleIsWhole' /\ Tokens!TenantViewsAgree' BY <1>1 DEF TokensInv, Tokens!RuleIsWhole, Tokens!TenantViewsAgree
<1>4. Tokens!SignedInIsRecent' BY <1>1 DEF TokensInv, Tokens!SignedInIsRecent
<1>5. QED BY <1>1, <1>2, <1>3, <1>4 DEF TokensInv, Option, TokenMinted

LEMMA Minted ==
    ASSUME TokensInv,
           \/ \E a \in Accounts : Tokens!handle_issue_token(a) \/ Tokens!LoginWithTenant(a)
           \/ \E t \in tokens : Tokens!handle_refresh_token(t)
    PROVE  TokensInv'
<1> USE DEF Tokens!encode_access, Tokens!encode_access_with_tenant, Tokens!encode_refresh, Tokens!Claims, TokenMinted, Option
<1>0. time \in Nat BY TokensAssumption DEF TokensInv
<1>1. ASSUME NEW a \in Accounts, Tokens!handle_issue_token(a) PROVE TokensInv'
  BY <1>0, <1>1, Issued DEF Tokens!handle_issue_token
<1>2. ASSUME NEW a \in Accounts, Tokens!LoginWithTenant(a) PROVE TokensInv'
  BY <1>0, <1>2, Issued, TokensAssumption DEF Tokens!LoginWithTenant
<1>3. ASSUME NEW t \in tokens, Tokens!handle_refresh_token(t) PROVE TokensInv'
  <2>1. \E a \in Accounts : a.sub = t.sub /\ a.role = t.role BY DEF TokensInv
  <2>2. QED BY <1>0, <1>3, <2>1, Issued DEF Tokens!handle_refresh_token
<1>4. QED BY <1>1, <1>2, <1>3

LEMMA TokensKept == ASSUME TokensInv, [Tokens!Next]_(Tokens!vars) PROVE TokensInv'
<1>1. CASE UNCHANGED Tokens!vars
  BY <1>1 DEF Tokens!vars, TokensInv, Option, TokenMinted, Tokens!RuleIsWhole, Tokens!TenantViewsAgree, Tokens!SignedInIsRecent
<1>2. CASE Tokens!Tick
  BY <1>2, TokensAssumption DEF Tokens!Tick, TokensInv, Option, TokenMinted, Tokens!RuleIsWhole, Tokens!TenantViewsAgree, Tokens!SignedInIsRecent
<1>3. CASE Tokens!Next /\ ~Tokens!Tick
  BY <1>3, Minted, Asked DEF Tokens!Next
<1>4. QED BY <1>1, <1>2, <1>3

LEMMA TokensFacts ==
    TokensInv => Tokens!TypeOK /\ Tokens!RuleIsWhole /\ Tokens!TenantViewsAgree /\ Tokens!SignedInIsRecent
<1> SUFFICES ASSUME TokensInv PROVE Tokens!TypeOK BY DEF TokensInv
<1>1. \A t \in tokens : t.exp > t.iat /\ t.token_type \in {"access", "refresh"}
  BY TokensAssumption DEF TokensInv, TokenMinted
<1>2. Cardinality(seen) <= 1
  <2>1. CASE seen = {} BY <2>1, FS_EmptySet
  <2>2. ASSUME NEW s \in seen PROVE Cardinality(seen) <= 1
    <3>1. seen = {s} BY <2>2 DEF TokensInv, Option
    <3>2. Cardinality({s}) = 1 BY FS_Singleton
    <3>3. QED BY <3>1, <3>2
  <2>3. QED BY <2>1, <2>2
<1>3. QED BY <1>1, <1>2, TokensCardinality DEF TokensInv, Tokens!TypeOK

-----------------------------------------------------------------------------
(* Controllers and side effects: what was called before the statement, what *)
(* the statement has left to do, and what is owed after it.                 *)

Results == {"Ok", "Error", "Internal", "Validation"}

HooksTyped ==
    /\ ep \in Endpoints
    /\ pc \in {"route", "before", "write", "after", "effects", "done"}
    /\ hook \in Nat \ {0}
    /\ data \in {"none", "row", "plugin"}
    /\ calls \in Seq([phase : {"before", "after"}, hook : Nat \ {0},
                      data : {"none", "row", "plugin"}, result : Results])
    /\ written \in 0 .. MaxWrites /\ effects \in 0 .. written
    /\ (pc = "done") = (answer # "none")

\* What was called before the statement, and what the statement has left to do.
Early ==
    /\ pc \in {"route", "before"} => written = 0
    /\ pc = "route" => calls = <<>> /\ data = "none" /\ hook = 1
    /\ pc = "before" => /\ Len(calls) = hook - 1
                        /\ \A i \in DOMAIN calls : /\ calls[i].phase = "before"
                                                   /\ calls[i].hook = i
                                                   /\ calls[i].result = "Ok"

Midway ==
    /\ pc = "write" => /\ written < MaxWrites
                       /\ written > 0 => ep.action \in Hooks!Bulk
    /\ pc = "after" => written > 0
    /\ pc \notin {"effects", "done"} => effects = 0
    /\ pc = "effects" => effects < written

\* Every before-hook of the endpoint ran, in its place, and none failed.
AllBefore ==
    /\ Len(calls) >= Len(ep.before)
    /\ \A i \in DOMAIN ep.before :
          calls[i].phase = "before" /\ calls[i].hook = i /\ calls[i].result = "Ok"

HooksFirst ==
    (ep.action \in Hooks!RunsBefore /\ (pc \in {"write", "after", "effects"} \/ written > 0)) => AllBefore

PluginBefore(i) == Hooks!Plugin(calls[i]) /\ calls[i].phase = "before"

\* Where ctx.data comes from.
DataExplained ==
    /\ pc = "after" => data # "none"
    /\ (pc = "before" /\ data # "none") => \E j \in DOMAIN calls : PluginBefore(j)

HooksInv ==
    HooksTyped /\ Early /\ Midway /\ HooksFirst /\ DataExplained /\ Hooks!PhaseIsKnown /\ Hooks!EffectsIffOk

LEMMA HooksStart == ASSUME Hooks!Init PROVE HooksInv
<1> USE DEF Hooks!Init
<1>1. HooksTyped BY HooksAssumption DEF HooksTyped
<1>2. Early /\ Midway /\ DataExplained /\ HooksFirst BY HooksAssumption DEF Early, Midway, DataExplained, HooksFirst
<1>3. Hooks!PhaseIsKnown /\ Hooks!EffectsIffOk BY DEF Hooks!PhaseIsKnown, Hooks!EffectsIffOk
<1>4. QED BY <1>1, <1>2, <1>3 DEF HooksInv

\* What the kinds of hook end with.
LEMMA HookOutcomes ==
    ASSUME NEW h \in Hooks!Hooks, NEW r \in Hooks!Outcomes(h)
    PROVE  r[1] \in Results /\ r[2] \in {"none", "plugin"} /\ (r[2] = "plugin" => h.kind = "wasm")
BY HooksAssumption DEF Hooks!Outcomes, Hooks!dispatch_rust_controller, Hooks!call_hook, Hooks!invoke_hook, Results

\* A step that calls no hook and leaves ctx.data alone, or takes the record there.
LEMMA NoHookCalled ==
    ASSUME HooksInv, UNCHANGED <<ep, calls>> PROVE Hooks!PhaseIsKnown'
BY DEF HooksInv, Hooks!PhaseIsKnown, Hooks!Plugin

LEMMA Dispatched == ASSUME HooksInv, Hooks!dispatch_controller PROVE HooksInv'
<1> DEFINE e == Hooks!Names[hook]
<1>1. /\ pc \in {"before", "after"} /\ hook <= Len(Hooks!Names) /\ Hooks!Names \in Seq(Hooks!Hooks)
      /\ hook \in DOMAIN Hooks!Names
  BY HooksAssumption DEF Hooks!dispatch_controller, HooksInv, HooksTyped, Hooks!Names
<1>2. e \in Hooks!Hooks BY <1>1
<1>3. PICK r \in Hooks!Outcomes(e) :
          /\ calls' = Append(calls, [phase |-> pc, hook |-> hook, data |-> data, result |-> r[1]])
          /\ data' = IF r[2] = "none" THEN data ELSE r[2]
          /\ \/ Hooks!GoesOn(r[1]) /\ hook' = hook + 1 /\ UNCHANGED <<pc, answer>>
             \/ ~Hooks!GoesOn(r[1]) /\ Hooks!Answered(r[1]) /\ UNCHANGED hook
  BY DEF Hooks!dispatch_controller
<1>4. r[1] \in Results /\ r[2] \in {"none", "plugin"} /\ (r[2] = "plugin" => e.kind = "wasm")
  BY <1>2, HookOutcomes
<1>5. UNCHANGED <<ep, known, written, effects>> BY DEF Hooks!dispatch_controller
<1> DEFINE c == [phase |-> pc, hook |-> hook, data |-> data, result |-> r[1]]
<1>6. /\ Len(calls') = Len(calls) + 1 /\ calls'[Len(calls) + 1] = c
      /\ \A i \in DOMAIN calls : calls'[i] = calls[i]
      /\ DOMAIN calls' = 1 .. Len(calls) + 1 /\ DOMAIN calls = 1 .. Len(calls) /\ Len(calls) \in Nat
  BY <1>3 DEF HooksInv, HooksTyped
<1>7. pc' \in {pc, "done"} /\ (pc' = pc => r[1] = "Ok" /\ hook' = hook + 1)
  BY <1>1, <1>3 DEF Hooks!GoesOn, Hooks!Answered
<1>8. HooksTyped'
  <2>1. c \in [phase : {"before", "after"}, hook : Nat \ {0},
               data : {"none", "row", "plugin"}, result : Results]
    BY <1>1, <1>4 DEF HooksInv, HooksTyped
  <2>2. data' \in {"none", "row", "plugin"} BY <1>3, <1>4 DEF HooksInv, HooksTyped
  <2>3. hook' \in Nat \ {0} BY <1>3 DEF HooksInv, HooksTyped
  <2>4. (pc' = "done") = (answer' # "none")
    BY <1>1, <1>3, <1>4 DEF HooksInv, HooksTyped, Hooks!Answered, Results
  <2>5. calls' \in Seq([phase : {"before", "after"}, hook : Nat \ {0},
               data : {"none", "row", "plugin"}, result : Results])
    BY <1>3, <2>1 DEF HooksInv, HooksTyped
  <2>6. QED BY <1>1, <1>5, <1>7, <2>2, <2>3, <2>4, <2>5 DEF HooksInv, HooksTyped
<1>9. Early'
  BY <1>1, <1>5, <1>6, <1>7 DEF HooksInv, Early, HooksTyped
<1>10. Midway' BY <1>1, <1>5, <1>7 DEF HooksInv, Midway, HooksTyped
<1>11. HooksFirst'
  <2>1. AllBefore => AllBefore'
    <3>1. ep.before \in Seq(Hooks!Hooks) BY HooksAssumption DEF HooksInv, HooksTyped
    <3>2. DOMAIN ep.before = 1 .. Len(ep.before) /\ Len(ep.before) \in Nat BY <3>1
    <3>3. AllBefore => DOMAIN ep.before \subseteq DOMAIN calls BY <1>6, <3>2 DEF AllBefore
    <3>4. QED BY <1>5, <1>6, <3>2, <3>3 DEF AllBefore
  <2>2. QED BY <1>1, <1>5, <1>7, <2>1 DEF HooksInv, HooksFirst, Early
<1>12. ASSUME pc = "before", r[2] # "none", NEW n, n = Len(calls) + 1 PROVE PluginBefore(n)'
  <2>1. e = ep.before[hook] /\ e.kind = "wasm" BY <1>4, <1>12 DEF Hooks!Names
  <2>2. calls'[n].phase = "before" /\ calls'[n].hook = hook BY <1>6, <1>12
  <2>3. QED BY <1>5, <2>1, <2>2 DEF PluginBefore, Hooks!Plugin
<1>13. \A i \in DOMAIN calls : PluginBefore(i) => PluginBefore(i)'
  BY <1>5, <1>6 DEF PluginBefore, Hooks!Plugin
<1>14. DataExplained'
  <2>1. pc' = "after" => data' # "none"
    BY <1>3, <1>4, <1>7 DEF HooksInv, DataExplained
  <2>2. ASSUME pc' = "before", data' # "none" PROVE \E j \in DOMAIN calls' : PluginBefore(j)'
    <3>1. pc = "before" BY <1>7, <2>2
    <3>2. CASE r[2] # "none" BY <3>1, <3>2, <1>6, <1>12
    <3>3. CASE r[2] = "none"
      <4>1. PICK j \in DOMAIN calls : PluginBefore(j)
        BY <1>3, <2>2, <3>1, <3>3 DEF HooksInv, DataExplained
      <4>2. j \in DOMAIN calls' /\ PluginBefore(j)' BY <1>6, <1>13, <4>1
      <4>3. QED BY <4>2
    <3>4. QED BY <3>2, <3>3
  <2>3. QED BY <2>1, <2>2 DEF DataExplained
<1>15. Hooks!PhaseIsKnown'
  <2>1. SUFFICES ASSUME NEW i \in DOMAIN calls'
                 PROVE  /\ calls'[i].phase = "after" => calls'[i].data # "none"
                        /\ (calls'[i].phase = "before" /\ calls'[i].data # "none") =>
                               \E j \in 1 .. i - 1 : PluginBefore(j)'
    BY DEF Hooks!PhaseIsKnown, PluginBefore
  <2>2. CASE i \in DOMAIN calls
    <3>1. \A j \in 1 .. i - 1 : j \in DOMAIN calls BY <1>6, <2>2
    <3>2. QED BY <1>6, <1>13, <2>2, <3>1 DEF HooksInv, Hooks!PhaseIsKnown, PluginBefore
  <2>3. CASE i = Len(calls) + 1
    <3>1. calls'[i] = c BY <1>6, <2>3
    <3>2. DOMAIN calls = 1 .. i - 1 BY <1>6, <2>3
    <3>3. QED BY <3>1, <3>2, <1>13 DEF HooksInv, DataExplained
  <2>4. QED BY <1>6, <2>2, <2>3
<1>16. Hooks!EffectsIffOk'
  <2>1. CASE pc' = pc BY <1>1, <2>1 DEF Hooks!EffectsIffOk
  <2>2. CASE pc' # pc
    <3>1. answer' = r[1] /\ r[1] # "Ok" BY <1>3, <2>2 DEF Hooks!GoesOn, Hooks!Answered
    <3>2. effects' = 0 BY <1>1, <1>5 DEF HooksInv, Midway
    <3>3. written' > 0 => pc = "after" BY <1>1, <1>5 DEF HooksInv, Early
    <3>4. calls' # <<>> /\ calls'[Len(calls')] = c BY <1>6
    <3>5. QED BY <3>1, <3>2, <3>3, <3>4 DEF Hooks!EffectsIffOk
  <2>3. QED BY <2>1, <2>2
<1>17. QED BY <1>8, <1>9, <1>10, <1>11, <1>14, <1>15, <1>16 DEF HooksInv

LEMMA RoutedOrWritten ==
    ASSUME HooksInv, Hooks!register_resource \/ Hooks!EndBefore \/ Hooks!Write \/ Hooks!EndAfter
    PROVE  HooksInv'
<1> USE HooksAssumption
<1>0. UNCHANGED <<ep, calls>> BY DEF Hooks!register_resource, Hooks!EndBefore, Hooks!Write, Hooks!EndAfter
<1>a. Hooks!PhaseIsKnown' BY <1>0, NoHookCalled
<1>b. AllBefore' <=> AllBefore BY <1>0 DEF AllBefore
<1>1. CASE Hooks!register_resource
  <2>1. HooksTyped' BY <1>1 DEF HooksInv, HooksTyped, Hooks!register_resource
  <2>2. Early' /\ Midway' /\ DataExplained' /\ HooksFirst'
    BY <1>1 DEF HooksInv, HooksTyped, Early, Midway, DataExplained, HooksFirst, Hooks!register_resource
  <2>3. Hooks!EffectsIffOk' BY <1>1 DEF Hooks!EffectsIffOk, Hooks!register_resource
  <2>4. QED BY <1>a, <2>1, <2>2, <2>3 DEF HooksInv
<1>2. CASE Hooks!EndBefore
  <2>1. HooksTyped' BY <1>2 DEF HooksInv, HooksTyped, Hooks!EndBefore, Hooks!Answered
  <2>2. Early' /\ Midway' /\ DataExplained'
    BY <1>2 DEF HooksInv, HooksTyped, Early, Midway, DataExplained, Hooks!EndBefore, Hooks!Answered
  <2>3. AllBefore BY <1>2 DEF HooksInv, HooksTyped, Early, AllBefore, Hooks!EndBefore
  <2>4. Hooks!EffectsIffOk'
    BY <1>2 DEF HooksInv, HooksTyped, Early, Hooks!EffectsIffOk, Hooks!EndBefore, Hooks!Answered, Midway, Hooks!Writes, Hooks!Bulk
  <2>5. QED BY <1>a, <1>b, <2>1, <2>2, <2>3, <2>4 DEF HooksInv, HooksFirst
<1>3. CASE Hooks!Write
  <2>1. HooksTyped' BY <1>3 DEF HooksInv, HooksTyped, Midway, Hooks!Write, Hooks!Following, Hooks!DataWritten
  <2>2. Early' /\ Midway' /\ DataExplained'
    BY <1>3 DEF HooksInv, HooksTyped, Early, Midway, DataExplained, Hooks!Write, Hooks!Following, Hooks!DataWritten
  <2>3. HooksFirst' BY <1>0, <1>b, <1>3 DEF HooksInv, HooksFirst, Hooks!Write
  <2>4. Hooks!EffectsIffOk' BY <1>3 DEF Hooks!EffectsIffOk, Hooks!Write, Hooks!Following
  <2>5. QED BY <1>a, <2>1, <2>2, <2>3, <2>4 DEF HooksInv
<1>4. CASE Hooks!EndAfter
  <2>1. HooksTyped' BY <1>4 DEF HooksInv, HooksTyped, Hooks!EndAfter
  <2>2. Early' /\ Midway' /\ DataExplained'
    BY <1>4 DEF HooksInv, HooksTyped, Early, Midway, DataExplained, Hooks!EndAfter
  <2>3. HooksFirst' BY <1>0, <1>b, <1>4 DEF HooksInv, HooksFirst, Hooks!EndAfter
  <2>4. Hooks!EffectsIffOk' BY <1>4 DEF Hooks!EffectsIffOk, Hooks!EndAfter
  <2>5. QED BY <1>a, <2>1, <2>2, <2>3, <2>4 DEF HooksInv
<1>5. QED BY <1>1, <1>2, <1>3, <1>4

LEMMA RequestEnds ==
    ASSUME HooksInv,
           Hooks!Unrouted \/ Hooks!Refused \/ Hooks!WriteFails \/ Hooks!Read \/ Hooks!Abandon \/ Hooks!run_write_side_effects
    PROVE  HooksInv'
<1>0. UNCHANGED <<ep, calls, written, data, hook>>
  BY DEF Hooks!Unrouted, Hooks!Refused, Hooks!WriteFails, Hooks!Read, Hooks!Abandon, Hooks!run_write_side_effects
<1>a. Hooks!PhaseIsKnown' BY <1>0, NoHookCalled
<1>b. AllBefore' <=> AllBefore BY <1>0 DEF AllBefore
<1>1. pc' \in {pc, "done"} /\ (pc' = pc => pc = "effects")
  BY DEF Hooks!Unrouted, Hooks!Refused, Hooks!WriteFails, Hooks!Read, Hooks!Abandon, Hooks!run_write_side_effects, Hooks!Answered
<1>c. HooksFirst' BY <1>0, <1>1, <1>b DEF HooksInv, HooksFirst
<1>2. HooksTyped'
  BY <1>0 DEF HooksInv, HooksTyped, Midway, Hooks!Unrouted, Hooks!Refused, Hooks!WriteFails, Hooks!Read, Hooks!Abandon,
     Hooks!run_write_side_effects, Hooks!Answered
<1>3. Early' /\ DataExplained' BY <1>0, <1>1 DEF HooksInv, Early, DataExplained
<1>4. Midway'
  BY <1>0, <1>1 DEF HooksInv, HooksTyped, Midway, Hooks!run_write_side_effects, Hooks!Answered, Hooks!Unrouted, Hooks!Refused, Hooks!WriteFails, Hooks!Read, Hooks!Abandon
<1>5. Hooks!EffectsIffOk'
  BY <1>0 DEF HooksInv, HooksTyped, Early, Midway, Hooks!EffectsIffOk, Hooks!Unrouted, Hooks!Refused, Hooks!WriteFails, Hooks!Read, Hooks!Abandon,
     Hooks!run_write_side_effects, Hooks!Answered
<1>6. QED BY <1>a, <1>c, <1>2, <1>3, <1>4, <1>5 DEF HooksInv

LEMMA HooksKept == ASSUME HooksInv, [Hooks!Next]_(Hooks!vars) PROVE HooksInv'
<1>1. CASE UNCHANGED Hooks!vars
  BY <1>1 DEF Hooks!vars, HooksInv, HooksTyped, Early, Midway, HooksFirst, AllBefore, DataExplained,
     PluginBefore, Hooks!Plugin, Hooks!PhaseIsKnown, Hooks!EffectsIffOk
<1>2. CASE Hooks!Next BY <1>2, Dispatched, RoutedOrWritten, RequestEnds DEF Hooks!Next
<1>3. QED BY <1>1, <1>2

LEMMA HooksFacts ==
    HooksInv => Hooks!TypeOK /\ Hooks!WriteAfterHooks /\ Hooks!EffectsIffOk /\ Hooks!PhaseIsKnown
BY DEF HooksInv, HooksTyped, Hooks!TypeOK, HooksFirst, AllBefore, Hooks!WriteAfterHooks

-----------------------------------------------------------------------------
(* Files.  A request knows no file but those it stored itself or read from  *)
(* its row, and every file no row names has a reason.                       *)

Uploading == {"create_upload", "update_upload"}
Deleting == {"delete", "bulk_delete"}

ReqRec == [op : Files!Ops \cup {"none"}, pc : {"idle", "body", "write", "rows", "found", "done"},
           todo : Seq(FileRows), stored : SUBSET Files!AllFiles, path : SUBSET Files!AllFiles,
           meta : SUBSET Files!AllFiles, gone : SUBSET Files!AllFiles,
           answer : {"none", "Ok", "Error", "NotFound", "Dropped"}]

RowRec == [state : {"absent", "live", "trashed", "deleted"},
           file : SUBSET Files!AllFiles, meta : SUBSET Files!AllFiles]

FilesTyped ==
    /\ config \in [soft : BOOLEAN, env : {"same", "other", "broken"}, store : {"returning", "find_first"}]
    /\ table \in [FileRows -> RowRec]
    /\ req \in [Reqs -> ReqRec]
    /\ files \subseteq Files!AllFiles /\ failed \subseteq Files!AllFiles /\ cleanup \subseteq Files!AllFiles

\* A request on its way: an upload knows no file but those it stored itself.
Shaped(r, q, there) ==
    /\ q.pc = "idle" => q = Files!Idle
    /\ (q.pc = "done") = (q.answer # "none")
    /\ q.pc \in {"body", "write"} => q.op \in Uploading /\ q.path \subseteq there
    /\ q.pc \in {"rows", "found"} => q.op \in Deleting
    /\ IsFiniteSet(q.stored)
    /\ \A f \in q.stored : f[1] = r
    /\ q.op \in Uploading => /\ q.gone = {} /\ q.path \subseteq q.stored /\ q.meta = q.path
                             /\ \E row \in FileRows : q.todo = <<row>>
    /\ q.stored # {} => q.op \in Uploading

AllShaped == \A r \in Reqs : Shaped(r, req[r], files)

\* The file of an upload that was answered with success, and the row it was for.
Used(f) ==
    /\ f \in Files!AllFiles
    /\ req[f[1]].answer = "Ok" /\ req[f[1]].op \in Uploading /\ f \in req[f[1]].path
For(f, row) == req[f[1]].todo = <<row>>

RowFiles ==
    \A row \in FileRows :
        /\ table[row].meta = table[row].file
        /\ table[row].state = "absent" => table[row].file = {}
        /\ \A f \in table[row].file : f \in files /\ Used(f) /\ For(f, row)

\* What a hard delete took hold of names no row any more.
GoneFiles ==
    \A s \in Reqs : \A f \in req[s].gone : Used(f) /\ (~config.soft => ~Files!Named(f))

CleanFiles == \A f \in cleanup : Used(f) /\ ~config.soft /\ ~Files!Named(f)

\* Between the two statements of a store that reads first, the row can get
\* another file only from an update.
Found(s) ==
    /\ ~config.soft /\ config.store = "find_first" /\ req[s].todo # <<>>
    /\ table[Files!Row(s)].state # "absent"
    /\ \A f \in req[s].path : Used(f) /\ For(f, Files!Row(s))
    /\ \A f \in table[Files!Row(s)].file \ req[s].path : req[f[1]].op = "update_upload"

FoundFiles == \A s \in Reqs : req[s].pc = "found" => Found(s)

InHand(f) ==
    /\ ~config.soft
    /\ \E s \in Reqs : f \in req[s].gone /\ req[s].answer # "Ok"

MissedBy(s, f) ==
    /\ req[s].op \in Deleting /\ f \notin req[s].gone
    /\ req[s].pc = "found" => f \notin req[s].path

Missed(f) ==
    /\ config.store = "find_first"
    /\ ~Files!Named(f) /\ req[f[1]].op = "update_upload"
    /\ \E s \in Reqs : MissedBy(s, f)

Traced(f) == Files!Named(f) \/ Files!Replaced(f) \/ InHand(f) \/ Missed(f) \/ f \in cleanup \/ f \in failed

FilesTraced == \A f \in files : f \in req[f[1]].stored /\ (Used(f) => Traced(f))

FilesInv ==
    FilesTyped /\ AllShaped /\ RowFiles /\ GoneFiles /\ CleanFiles /\ FoundFiles /\ FilesTraced

LEMMA FilesStart == ASSUME Files!Init PROVE FilesInv
<1>1. Files!Idle \in ReqRec
  BY DEF Files!Idle, ReqRec
<1>2. IsFiniteSet({}) BY FS_EmptySet
<1>3. \A r \in Reqs : req[r] = Files!Idle BY DEF Files!Init
<1>4. FilesTyped BY <1>1 DEF Files!Init, FilesTyped, RowRec, Files!NoFile
<1>5. AllShaped
  <2>1. /\ Files!Idle.pc = "idle" /\ Files!Idle.answer = "none" /\ Files!Idle.op = "none" /\ Files!Idle.stored = {}
    BY DEF Files!Idle
  <2>2. \A r : Shaped(r, Files!Idle, files) BY <1>2, <2>1 DEF Shaped, Uploading
  <2>3. QED BY <1>3, <2>2 DEF AllShaped
<1>6. RowFiles BY DEF Files!Init, RowFiles, Files!NoFile
<1>7. GoneFiles /\ CleanFiles /\ FoundFiles
  BY <1>3 DEF Files!Init, GoneFiles, CleanFiles, FoundFiles, Files!Idle
<1>8. FilesTraced BY DEF Files!Init, FilesTraced
<1>9. QED BY <1>4, <1>5, <1>6, <1>7, <1>8 DEF FilesInv

-----------------------------------------------------------------------------
\* A step of one request alone: no row changes, no clean-up, and the request is
\* not answered with success.
Quietly(r, q) ==
    /\ req' = [req EXCEPT ![r] = q]
    /\ UNCHANGED <<config, table, cleanup, failed>>
    /\ files \subseteq files' /\ files' \subseteq files \cup q.stored /\ files' \subseteq Files!AllFiles
    /\ req[r].pc # "done" /\ q \in ReqRec
    /\ req[r].stored \subseteq q.stored
    /\ q.gone = req[r].gone /\ q.answer # "Ok"
    /\ req[r].pc # "idle" => q.op = req[r].op
    /\ q.pc = "found" => /\ ~config.soft /\ config.store = "find_first" /\ q.todo # <<>>
                         /\ table[Head(q.todo)].state # "absent"
                         /\ q.path = table[Head(q.todo)].file

LEMMA QuietStep ==
    ASSUME FilesInv, NEW r \in Reqs, NEW q, Quietly(r, q), Shaped(r, q, files')
    PROVE  FilesInv'
<1> USE DEF FilesInv
<1>1. /\ req'[r] = q /\ \A s \in Reqs : s # r => req'[s] = req[s]
      /\ UNCHANGED <<config, table, cleanup, failed>>
      /\ req[r].pc # "done" /\ q.answer # "Ok" /\ q.gone = req[r].gone
      /\ files \subseteq files'
  BY DEF Quietly, FilesTyped
<1>2. \A f \in Files!AllFiles : f[1] \in Reqs BY DEF Files!AllFiles
<1>3. req[r].answer # "Ok" BY <1>1 DEF AllShaped, Shaped
<1>4. \A f : Used(f)' <=> Used(f)
  BY <1>1, <1>2, <1>3 DEF Used, Files!AllFiles
<1>5. \A f : Files!Named(f)' <=> Files!Named(f) BY <1>1 DEF Files!Named
<1>6. \A f, row : Used(f) => (For(f, row)' <=> For(f, row))
  BY <1>1, <1>2, <1>3 DEF Used, For
<1>7. \A f : Used(f) => req'[f[1]] = req[f[1]]
  BY <1>1, <1>2, <1>3 DEF Used
<1>8. FilesTyped'
  <2>1. req' \in [Reqs -> ReqRec] BY DEF Quietly, FilesTyped
  <2>2. QED BY <1>1, <2>1 DEF Quietly, FilesTyped
<1>9. AllShaped'
  <2>1. \A s \in Reqs : s # r => Shaped(s, req[s], files')
    BY <1>1 DEF AllShaped, Shaped
  <2>2. QED BY <1>1, <2>1 DEF AllShaped
<1>10. RowFiles' BY <1>1, <1>4, <1>6 DEF RowFiles
<1>11. GoneFiles'
  BY <1>1, <1>4, <1>5 DEF GoneFiles
<1>12. CleanFiles' BY <1>1, <1>4, <1>5 DEF CleanFiles
<1>13. FoundFiles'
  <2>1. ASSUME NEW s \in Reqs, s # r, req[s].pc = "found" PROVE Found(s)'
    <3>1. Found(s) /\ req'[s] = req[s] BY <1>1, <2>1 DEF FoundFiles
    <3>2. Files!Row(s)' = Files!Row(s) BY <3>1 DEF Files!Row
    <3>3. Files!Row(s) \in FileRows BY <3>1 DEF Found, FilesTyped, ReqRec, Files!Row
    <3>4. \A f \in table[Files!Row(s)].file : Used(f) BY <3>3 DEF RowFiles
    <3>5. QED BY <1>1, <1>4, <1>6, <1>7, <3>1, <3>2, <3>4 DEF Found
  <2>2. ASSUME q.pc = "found" PROVE Found(r)'
    <3>1. q.todo # <<>> /\ q.todo \in Seq(FileRows) BY <2>2 DEF Quietly, ReqRec
    <3>2. Files!Row(r)' = Head(q.todo) /\ Head(q.todo) \in FileRows BY <1>1, <3>1 DEF Files!Row
    <3>3. \A f \in q.path : Used(f) /\ For(f, Head(q.todo)) BY <2>2, <3>2 DEF Quietly, RowFiles
    <3>4. \A f \in q.path : Used(f)' /\ req'[f[1]].todo = <<Head(q.todo)>>
      BY <1>4, <1>6, <3>2, <3>3 DEF For
    <3>5. QED BY <1>1, <2>2, <3>2, <3>4 DEF Found, For, Quietly
  <2>3. QED BY <1>1, <2>1, <2>2 DEF FoundFiles
<1>14. FilesTraced'
  <2>1. ASSUME NEW f \in files, Used(f), Traced(f) PROVE Traced(f)'
    <3>1. CASE Files!Replaced(f)
      <4>1. PICK a, b \in Reqs :
                /\ f \in req[a].path /\ req[a].answer = "Ok"
                /\ b # a /\ req[b].op = "update_upload" /\ req[b].answer = "Ok"
                /\ req[b].path # {} /\ req[b].todo = req[a].todo
        BY <3>1 DEF Files!Replaced
      <4>2. a # r /\ b # r BY <4>1, <1>3
      <4>3. Files!Replaced(f)' BY <1>1, <4>1, <4>2 DEF Files!Replaced
      <4>4. QED BY <4>3 DEF Traced
    <3>2. CASE InHand(f)
      <4>1. PICK s \in Reqs : f \in req[s].gone /\ req[s].answer # "Ok" BY <3>2 DEF InHand
      <4>2. f \in req'[s].gone /\ req'[s].answer # "Ok" BY <1>1, <4>1
      <4>3. QED BY <1>1, <3>2, <4>2 DEF InHand, Traced
    <3>3. CASE Missed(f)
      <4>1. PICK s \in Reqs : MissedBy(s, f) BY <3>3 DEF Missed
      <4>2. MissedBy(s, f)'
        <5>1. CASE s # r BY <1>1, <4>1, <5>1 DEF MissedBy
        <5>2. CASE s = r
          <6>1. req[r].pc # "idle" BY <4>1, <5>2 DEF MissedBy, AllShaped, Shaped, Files!Idle, Deleting
          <6>2. q.op \in Deleting /\ f \notin q.gone
            BY <4>1, <5>2, <6>1 DEF MissedBy, Quietly
          <6>3. q.pc = "found" => f \notin q.path
            <7>1. q.pc = "found" => Head(q.todo) \in FileRows /\ q.path = table[Head(q.todo)].file
              BY DEF Quietly, ReqRec
            <7>2. QED BY <3>3, <7>1 DEF Missed, Files!Named
          <6>4. QED BY <1>1, <5>2, <6>2, <6>3 DEF MissedBy
        <5>3. QED BY <5>1, <5>2
      <4>3. QED BY <1>1, <1>5, <1>7, <2>1, <3>3, <4>2 DEF Missed, Traced
    <3>4. CASE Files!Named(f) \/ f \in cleanup \/ f \in failed BY <1>1, <1>5, <3>4 DEF Traced
    <3>5. QED BY <2>1, <3>1, <3>2, <3>3, <3>4 DEF Traced
  <2>2. ASSUME NEW f \in files' PROVE f \in req'[f[1]].stored /\ (Used(f)' => Traced(f)')
    <3>1. CASE f \in files
      <4>1. f \in req[f[1]].stored /\ f[1] \in Reqs BY <1>2, <3>1 DEF FilesTraced, FilesTyped
      <4>2. f \in req'[f[1]].stored BY <1>1, <4>1 DEF Quietly
      <4>3. QED BY <1>4, <2>1, <3>1, <4>2 DEF FilesTraced
    <3>2. CASE f \notin files
      <4>1. f \in q.stored BY <2>2, <3>2 DEF Quietly
      <4>2. f[1] = r BY <4>1 DEF Shaped
      <4>3. ~Used(f) BY <1>3, <4>2 DEF Used
      <4>4. QED BY <1>1, <1>4, <4>1, <4>2, <4>3
    <3>3. QED BY <3>1, <3>2
  <2>3. QED BY <2>2 DEF FilesTraced
<1>15. QED BY <1>8, <1>9, <1>10, <1>11, <1>12, <1>13, <1>14

LEMMA Started ==
    ASSUME FilesInv, NEW r \in Reqs, NEW op \in Files!Ops, NEW rows \in Seq(FileRows), Files!Start(r, op, rows),
           op \in Uploading => \E row \in FileRows : rows = <<row>>
    PROVE  FilesInv'
<1> DEFINE q == [Files!Idle EXCEPT !.op = op, !.todo = rows,
                     !.pc = IF op \in {"delete", "bulk_delete"} THEN "rows" ELSE "body"]
<1>1. req[r] = Files!Idle BY DEF Files!Start, FilesInv, AllShaped, Shaped
<1>2. /\ q.op = op /\ q.todo = rows /\ q.stored = {} /\ q.path = {} /\ q.meta = {} /\ q.gone = {}
      /\ q.pc = (IF op \in Deleting THEN "rows" ELSE "body") /\ q.answer = "none"
  BY DEF Files!Idle, Deleting
<1>3. q \in ReqRec BY DEF ReqRec, Files!Idle
<1>4. Shaped(r, q, files')
  <2> HIDE DEF q
  <2>1. IsFiniteSet(q.stored) BY <1>2, FS_EmptySet
  <2>2. op \in Uploading <=> op \notin Deleting BY DEF Files!Ops, Uploading, Deleting
  <2>3. QED BY <1>2, <2>1, <2>2 DEF Shaped
<1>5. Files!Idle.stored = {} /\ Files!Idle.gone = {} /\ Files!Idle.pc = "idle" BY DEF Files!Idle
<1>6. req' = [req EXCEPT ![r] = q] /\ UNCHANGED <<config, table, files, cleanup, failed>>
  BY DEF Files!Start, Files!Set
<1> HIDE DEF q
<1>7. Quietly(r, q) BY <1>1, <1>2, <1>3, <1>5, <1>6 DEF Quietly, FilesInv, FilesTyped
<1>8. QED BY <1>4, <1>7, QuietStep

\* A part, stored whole or half.
LEMMA PartStored == ASSUME FilesInv, NEW r \in Reqs, Files!StorePart(r) \/ Files!StoreBreaks(r) PROVE FilesInv'
<1> DEFINE n == Cardinality(req[r].stored) + 1
           f == <<r, n>>
<1>0. req[r] \in ReqRec /\ Shaped(r, req[r], files) BY DEF FilesInv, FilesTyped, AllShaped
<1>1. req[r].pc = "body" /\ Cardinality(req[r].stored) < MaxParts /\ files' = files \cup {f}
      /\ UNCHANGED <<config, table, cleanup, failed>>
  BY FilesCardinality DEF Files!StorePart, Files!StoreBreaks
<1>2. f \in Files!AllFiles
  <2>1. Cardinality(req[r].stored) \in Nat BY <1>0, FS_CardinalityType DEF Shaped
  <2>2. n \in 1 .. MaxParts BY <1>1, <2>1, FilesAssumption
  <2>3. QED BY <2>2 DEF Files!AllFiles
<1>3. req[r].op \in Uploading /\ req[r].gone = {} /\ req[r].path \subseteq req[r].stored
      /\ req[r].path \subseteq files /\ (\E row \in FileRows : req[r].todo = <<row>>)
      /\ req[r].meta = req[r].path /\ req[r].answer = "none" /\ (\A g \in req[r].stored : g[1] = r)
  BY <1>0, <1>1 DEF Shaped
<1>4. IsFiniteSet(req[r].stored \cup {f}) BY <1>0, FS_AddElement DEF Shaped
<1>5. files' \subseteq Files!AllFiles BY <1>1, <1>2 DEF FilesInv, FilesTyped
<1>6. f[1] = r OBVIOUS
<1> HIDE DEF f
<1>7. CASE Files!StorePart(r)
  <2> DEFINE q == Files!LastPart(req[r], f)
  <2>1. req' = [req EXCEPT ![r] = q] BY <1>7, FilesCardinality DEF Files!StorePart, Files!Set, f
  <2>2. /\ q.op = req[r].op /\ q.pc = "body" /\ q.todo = req[r].todo /\ q.answer = "none"
        /\ q.stored = req[r].stored \cup {f} /\ q.path = {f} /\ q.meta = {f} /\ q.gone = {}
    BY <1>0, <1>1, <1>3 DEF Files!LastPart, ReqRec
  <2>3. q \in ReqRec BY <1>0, <1>2 DEF Files!LastPart, ReqRec
  <2> HIDE DEF q
  <2>4. Shaped(r, q, files') BY <1>1, <1>3, <1>4, <1>6, <2>2 DEF Shaped, Uploading, Deleting
  <2>5. Quietly(r, q) BY <1>1, <1>3, <1>5, <2>1, <2>2, <2>3 DEF Quietly
  <2>6. QED BY <2>4, <2>5, QuietStep
<1>8. CASE Files!StoreBreaks(r)
  <2> DEFINE q == [[req[r] EXCEPT !.stored = @ \cup {f}] EXCEPT !.pc = "done", !.answer = "Error"]
  <2>1. req' = [req EXCEPT ![r] = q] BY <1>8, FilesCardinality DEF Files!StoreBreaks, Files!Answer, Files!Set, f
  <2>2. /\ q.op = req[r].op /\ q.pc = "done" /\ q.todo = req[r].todo /\ q.answer = "Error"
        /\ q.stored = req[r].stored \cup {f} /\ q.path = req[r].path /\ q.meta = req[r].path
        /\ q.gone = {}
    BY <1>0, <1>3 DEF ReqRec
  <2>3. q \in ReqRec BY <1>0, <1>2 DEF ReqRec
  <2> HIDE DEF q
  <2>4. Shaped(r, q, files') BY <1>1, <1>3, <1>4, <1>6, <2>2 DEF Shaped, Uploading, Deleting
  <2>5. Quietly(r, q) BY <1>1, <1>3, <1>5, <2>1, <2>2, <2>3 DEF Quietly
  <2>6. QED BY <2>4, <2>5, QuietStep
<1>9. QED BY <1>7, <1>8

\* A request ends without success.
LEMMA EndsBadly ==
    ASSUME FilesInv, NEW r \in Reqs, NEW a \in {"Error", "NotFound", "Dropped"},
           req[r].pc \notin {"idle", "done"}, Files!Answer(r, req[r], a),
           UNCHANGED <<config, table, files, cleanup, failed>>
    PROVE  FilesInv'
<1> DEFINE q == [req[r] EXCEPT !.pc = "done", !.answer = a]
<1>0. req[r] \in ReqRec /\ Shaped(r, req[r], files) BY DEF FilesInv, FilesTyped, AllShaped
<1>1. req' = [req EXCEPT ![r] = q] BY DEF Files!Answer, Files!Set
<1>2. /\ q.op = req[r].op /\ q.pc = "done" /\ q.todo = req[r].todo /\ q.answer = a
      /\ q.stored = req[r].stored /\ q.path = req[r].path /\ q.meta = req[r].meta
      /\ q.gone = req[r].gone
  BY <1>0 DEF ReqRec
<1>3. q \in ReqRec BY <1>0 DEF ReqRec
<1> HIDE DEF q
<1>4. Shaped(r, q, files') BY <1>0, <1>2 DEF Shaped
<1>5. Quietly(r, q) BY <1>1, <1>2, <1>3 DEF Quietly, FilesInv, FilesTyped
<1>6. QED BY <1>4, <1>5, QuietStep

LEMMA BodyEnds == ASSUME FilesInv, NEW r \in Reqs, Files!EndBody(r) PROVE FilesInv'
<1> DEFINE q == [req[r] EXCEPT !.pc = "write"]
<1>0. req[r] \in ReqRec /\ Shaped(r, req[r], files) BY DEF FilesInv, FilesTyped, AllShaped
<1>1. req' = [req EXCEPT ![r] = q] /\ req[r].pc = "body"
      /\ UNCHANGED <<config, table, files, cleanup, failed>>
  BY DEF Files!EndBody, Files!Set
<1>2. /\ q.op = req[r].op /\ q.pc = "write" /\ q.todo = req[r].todo /\ q.answer = req[r].answer
      /\ q.stored = req[r].stored /\ q.path = req[r].path /\ q.meta = req[r].meta
      /\ q.gone = req[r].gone
  BY <1>0 DEF ReqRec
<1>3. q \in ReqRec BY <1>0 DEF ReqRec
<1> HIDE DEF q
<1>4. Shaped(r, q, files') BY <1>0, <1>1, <1>2 DEF Shaped
<1>5. Quietly(r, q) BY <1>0, <1>1, <1>2, <1>3 DEF Quietly, Shaped, FilesInv, FilesTyped
<1>6. QED BY <1>4, <1>5, QuietStep

LEMMA RowFound == ASSUME FilesInv, NEW r \in Reqs, Files!FindFirst(r) PROVE FilesInv'
<1> DEFINE q == [req[r] EXCEPT !.path = table[Files!Row(r)].file, !.pc = "found"]
<1>0. req[r] \in ReqRec /\ Shaped(r, req[r], files) BY DEF FilesInv, FilesTyped, AllShaped
<1>1. /\ req' = [req EXCEPT ![r] = q] /\ req[r].pc = "rows" /\ req[r].todo # <<>>
      /\ UNCHANGED <<config, table, files, cleanup, failed>>
      /\ ~config.soft /\ config.store = "find_first" /\ table[Files!Row(r)].state = "live"
  BY DEF Files!FindFirst, Files!Set
<1>2. Files!Row(r) \in FileRows BY <1>0, <1>1 DEF ReqRec, Files!Row
<1>3. table[Files!Row(r)].file \subseteq Files!AllFiles BY <1>2 DEF FilesInv, FilesTyped, RowRec
<1>4. /\ q.op = req[r].op /\ q.pc = "found" /\ q.todo = req[r].todo /\ q.answer = req[r].answer
      /\ q.stored = req[r].stored /\ q.path = table[Files!Row(r)].file /\ q.gone = req[r].gone
  BY <1>0 DEF ReqRec
<1>5. q \in ReqRec BY <1>0, <1>3 DEF ReqRec
<1> HIDE DEF q
<1>6. Shaped(r, q, files') BY <1>0, <1>1, <1>4 DEF Shaped, Uploading, Deleting
<1>7. Quietly(r, q) BY <1>0, <1>1, <1>4, <1>5 DEF Quietly, Shaped, FilesInv, FilesTyped, Files!Row
<1>8. QED BY <1>6, <1>7, QuietStep

-----------------------------------------------------------------------------
\* An upload is answered with success: its row names its file from now on, or,
\* for want of a file in the body, the file it had.
Answers(r, row) ==
    /\ req[r].pc = "write" /\ req[r].todo = <<row>> /\ row \in FileRows
    /\ Files!Answer(r, req[r], "Ok")
    /\ UNCHANGED <<config, files, cleanup, failed>>
    /\ \/ /\ table' = [table EXCEPT ![row] =
                          [state |-> "live", file |-> req[r].path, meta |-> req[r].meta]]
          /\ \/ table[row].state = "absent"
             \/ req[r].op = "update_upload" /\ req[r].path # {}
       \/ UNCHANGED table /\ req[r].path = {}

LEMMA UploadAnswered ==
    ASSUME FilesInv, NEW r \in Reqs, NEW row \in FileRows, Answers(r, row) PROVE FilesInv'
<1> USE DEF FilesInv
<1> DEFINE q == [req[r] EXCEPT !.pc = "done", !.answer = "Ok"]
<1>0. req[r] \in ReqRec /\ Shaped(r, req[r], files) BY DEF FilesTyped, AllShaped
<1>1. /\ req' = [req EXCEPT ![r] = q] /\ UNCHANGED <<config, files, cleanup, failed>>
      /\ req[r].pc = "write" /\ req[r].todo = <<row>>
  BY DEF Answers, Files!Answer, Files!Set
<1>2. /\ q.op = req[r].op /\ q.pc = "done" /\ q.todo = req[r].todo /\ q.answer = "Ok"
      /\ q.stored = req[r].stored /\ q.path = req[r].path /\ q.meta = req[r].meta
      /\ q.gone = req[r].gone
  BY <1>0 DEF ReqRec
<1>3. q \in ReqRec BY <1>0 DEF ReqRec
<1> HIDE DEF q
<1>4. /\ req'[r] = q /\ \A s \in Reqs : s # r => req'[s] = req[s]
  BY <1>1 DEF FilesTyped
<1>5. /\ req[r].op \in Uploading /\ req[r].path \subseteq files /\ req[r].meta = req[r].path
      /\ req[r].answer = "none" /\ (\A f \in req[r].path : f[1] = r) /\ req[r].gone = {}
      /\ req[r].path \subseteq Files!AllFiles
  BY <1>0, <1>1 DEF Shaped, ReqRec
<1>6. \A f \in Files!AllFiles : f[1] \in Reqs BY DEF Files!AllFiles
<1>7. \A f : Used(f) => Used(f)' /\ req'[f[1]] = req[f[1]] /\ f[1] # r /\ f \notin req[r].path
  BY <1>4, <1>5, <1>6 DEF Used, Files!AllFiles
<1>8. \A f : Used(f)' /\ ~Used(f) => f \in req[r].path
  BY <1>2, <1>4, <1>6 DEF Used, Files!AllFiles
<1>9. \A f \in req[r].path : Used(f)' /\ req'[f[1]].todo = <<row>>
  BY <1>1, <1>2, <1>4, <1>5 DEF Used, Files!AllFiles
<1>10. /\ \A a \in FileRows : a # row => table'[a] = table[a]
       /\ table' = table \/ (/\ table'[row].file = req[r].path /\ table'[row].meta = req[r].path
                             /\ table'[row].state = "live")
  BY <1>5 DEF Answers, FilesTyped
<1>11. \A f : Used(f) /\ ~Files!Named(f) => ~Files!Named(f)'
  BY <1>7, <1>10 DEF Files!Named
<1>12. FilesTyped'
  <2>1. req' \in [Reqs -> ReqRec] BY <1>1, <1>3 DEF FilesTyped
  <2>2. table' \in [FileRows -> RowRec]
    BY <1>5 DEF Answers, FilesTyped, RowRec
  <2>3. QED BY <1>1, <2>1, <2>2 DEF FilesTyped
<1>13. AllShaped'
  <2>1. Shaped(r, q, files') BY <1>0, <1>2 DEF Shaped
  <2>2. QED BY <1>1, <1>4, <2>1 DEF AllShaped
<1>14. RowFiles'
  <2>1. ASSUME NEW a \in FileRows, table'[a] = table[a]
        PROVE  /\ table'[a].meta = table'[a].file
               /\ table'[a].state = "absent" => table'[a].file = {}
               /\ \A f \in table'[a].file : f \in files' /\ Used(f)' /\ req'[f[1]].todo = <<a>>
    BY <1>1, <1>7, <2>1 DEF RowFiles, For
  <2>2. table' # table =>
             /\ table'[row].meta = table'[row].file
             /\ table'[row].state # "absent"
             /\ \A f \in table'[row].file : f \in files' /\ Used(f)' /\ req'[f[1]].todo = <<row>>
    BY <1>1, <1>5, <1>9, <1>10
  <2>3. QED BY <1>10, <2>1, <2>2 DEF RowFiles, For
<1>15. GoneFiles'
  BY <1>1, <1>2, <1>4, <1>5, <1>7, <1>11 DEF GoneFiles
<1>16. CleanFiles' BY <1>1, <1>7, <1>11 DEF CleanFiles
<1>17. FoundFiles'
  <2>1. SUFFICES ASSUME NEW s \in Reqs, req'[s].pc = "found" PROVE Found(s)'
    BY DEF FoundFiles
  <2>2. s # r /\ req'[s] = req[s] /\ Found(s) BY <1>2, <1>4, <2>1 DEF FoundFiles
  <2>3. Files!Row(s)' = Files!Row(s) /\ Files!Row(s) \in FileRows BY <2>2 DEF Files!Row, Found, FilesTyped, ReqRec
  <2>4. \A f \in req[s].path : Used(f)' /\ req'[f[1]].todo = <<Files!Row(s)>>
    BY <1>7, <2>2 DEF Found, For
  <2>5. /\ table'[Files!Row(s)].state # "absent"
        /\ \A f \in table'[Files!Row(s)].file \ req[s].path : req'[f[1]].op = "update_upload"
    <3>1. CASE table'[Files!Row(s)] = table[Files!Row(s)]
      BY <1>7, <2>2, <2>3, <3>1 DEF Found, RowFiles
    <3>2. CASE table'[Files!Row(s)] # table[Files!Row(s)]
      <4>1. Files!Row(s) = row /\ table' # table BY <1>10, <2>3, <3>2
      <4>2. req[r].op = "update_upload" BY <2>2, <4>1 DEF Answers, Found
      <4>3. \A f \in req[r].path : req'[f[1]].op = "update_upload" BY <1>2, <1>4, <1>5, <4>2
      <4>4. QED BY <1>10, <4>1, <4>3
    <3>3. QED BY <3>1, <3>2
  <2>6. QED BY <1>1, <2>2, <2>3, <2>4, <2>5 DEF Found, For
<1>18. FilesTraced'
  <2>1. ASSUME NEW f \in files, Used(f), Traced(f) PROVE Traced(f)'
    <3>1. CASE Files!Named(f)
      <4>1. PICK a \in FileRows : f \in table[a].file BY <3>1 DEF Files!Named
      <4>2. CASE table'[a] = table[a] BY <4>1, <4>2 DEF Files!Named, Traced
      <4>3. CASE table'[a] # table[a]
        <5>1. a = row /\ table' # table BY <1>10, <4>3
        <5>2. req[r].op = "update_upload" /\ req[r].path # {}
          BY <4>1, <5>1 DEF Answers, RowFiles
        <5>3. f[1] # r /\ req'[f[1]] = req[f[1]] /\ req[f[1]].todo = <<row>>
          BY <1>7, <2>1, <4>1, <5>1 DEF RowFiles, For
        <5>4. f[1] \in Reqs /\ f \in req[f[1]].path /\ req[f[1]].answer = "Ok"
          BY <1>6, <2>1 DEF Used
        <5>5. Files!Replaced(f)' BY <1>1, <1>2, <1>4, <5>2, <5>3, <5>4 DEF Files!Replaced
        <5>6. QED BY <5>5 DEF Traced
      <4>4. QED BY <4>2, <4>3
    <3>2. CASE Files!Replaced(f)
      <4>1. PICK a, b \in Reqs :
                /\ f \in req[a].path /\ req[a].answer = "Ok"
                /\ b # a /\ req[b].op = "update_upload" /\ req[b].answer = "Ok"
                /\ req[b].path # {} /\ req[b].todo = req[a].todo
        BY <3>2 DEF Files!Replaced
      <4>2. req'[a] = req[a] /\ req'[b] = req[b] BY <1>4, <1>5, <4>1
      <4>3. Files!Replaced(f)' BY <4>1, <4>2 DEF Files!Replaced
      <4>4. QED BY <4>3 DEF Traced
    <3>3. CASE InHand(f)
      <4>1. PICK s \in Reqs : f \in req[s].gone /\ req[s].answer # "Ok" BY <3>3 DEF InHand
      <4>2. req'[s] = req[s] BY <1>4, <1>5, <4>1
      <4>3. QED BY <1>1, <3>3, <4>1, <4>2 DEF InHand, Traced
    <3>4. CASE Missed(f)
      <4>1. PICK s \in Reqs : MissedBy(s, f) BY <3>4 DEF Missed
      <4>2. s # r BY <1>5, <4>1 DEF MissedBy, Uploading, Deleting
      <4>3. MissedBy(s, f)' BY <1>4, <4>1, <4>2 DEF MissedBy
      <4>4. QED BY <1>1, <1>7, <1>11, <2>1, <3>4, <4>3 DEF Missed, Traced
    <3>5. CASE f \in cleanup \/ f \in failed BY <1>1, <3>5 DEF Traced
    <3>6. QED BY <2>1, <3>1, <3>2, <3>3, <3>4, <3>5 DEF Traced
  <2>2. ASSUME NEW f \in files PROVE f \in req'[f[1]].stored /\ (Used(f)' => Traced(f)')
    <3>1. f \in req[f[1]].stored /\ f[1] \in Reqs BY <1>6 DEF FilesTraced, FilesTyped
    <3>2. f \in req'[f[1]].stored BY <1>2, <1>4, <3>1
    <3>3. f \in req[r].path => Files!Named(f)' BY <1>1, <1>5 DEF Files!Named, Answers, FilesTyped
    <3>4. QED BY <1>8, <2>1, <3>2, <3>3 DEF FilesTraced, Traced
  <2>3. QED BY <1>1, <2>2 DEF FilesTraced
<1>19. QED BY <1>12, <1>13, <1>14, <1>15, <1>16, <1>17, <1>18

LEMMA RowWritten ==
    ASSUME NEW x \in RowRec, NEW p, NEW m
    PROVE  [x EXCEPT !.file = p, !.meta = m] = [state |-> x.state, file |-> p, meta |-> m]
<1> DEFINE R == [state : {x.state}, file : {p}, meta : {m}]
           y == [x EXCEPT !.file = p, !.meta = m]
           z == [state |-> x.state, file |-> p, meta |-> m]
<1>1. y \in R BY DEF RowRec
<1>2. z \in R OBVIOUS
<1>3. \A u, v \in R : u = v OBVIOUS
<1> HIDE DEF R, y, z
<1>4. y = z BY <1>1, <1>2, <1>3
<1>5. QED BY <1>4 DEF y, z

LEMMA UploadEnds ==
    ASSUME FilesInv, NEW r \in Reqs, Files!handle_create_upload(r) \/ Files!handle_update_upload(r)
    PROVE  FilesInv'
<1>0. req[r] \in ReqRec /\ Shaped(r, req[r], files) BY DEF FilesInv, FilesTyped, AllShaped
<1>1. req[r].pc = "write" /\ UNCHANGED <<config, files, cleanup, failed>>
  BY DEF Files!handle_create_upload, Files!handle_update_upload
<1>2. PICK row \in FileRows : req[r].todo = <<row>> BY <1>0, <1>1 DEF Shaped
<1>3. Files!Row(r) = row BY <1>2 DEF Files!Row
<1>4. table[row] \in RowRec
  BY DEF FilesInv, FilesTyped
<1>5. CASE Files!handle_create_upload(r)
  <2>1. Answers(r, row) BY <1>1, <1>2, <1>3, <1>5 DEF Answers, Files!handle_create_upload
  <2>2. QED BY <2>1, UploadAnswered
<1>6. CASE Files!handle_update_upload(r) /\ table[row].state = "live"
  <2>0. req[r].op = "update_upload" /\ Files!Answer(r, req[r], "Ok")
    BY <1>3, <1>6 DEF Files!handle_update_upload
  <2>1. CASE req[r].path = {}
    <3>1. UNCHANGED table
      BY <1>3, <1>6, <2>1 DEF Files!handle_update_upload, FilesInv, FilesTyped
    <3>2. QED BY <1>1, <1>2, <2>0, <2>1, <3>1, UploadAnswered DEF Answers
  <2>2. CASE req[r].path # {}
    <3>1. [table[row] EXCEPT !.file = req[r].path, !.meta = req[r].meta]
            = [state |-> "live", file |-> req[r].path, meta |-> req[r].meta]
      <4>1. [table[row] EXCEPT !.file = req[r].path, !.meta = req[r].meta]
              = [state |-> table[row].state, file |-> req[r].path, meta |-> req[r].meta]
        BY <1>4, RowWritten
      <4>2. QED BY <1>6, <4>1
    <3>2. table' = [table EXCEPT ![row] =
                       [table[row] EXCEPT !.file = req[r].path, !.meta = req[r].meta]]
      BY <1>3, <1>6, <2>2 DEF Files!handle_update_upload, FilesInv, FilesTyped
    <3>3. Answers(r, row) BY <1>1, <1>2, <2>0, <2>2, <3>1, <3>2 DEF Answers
    <3>4. QED BY <3>3, UploadAnswered
  <2>3. QED BY <2>1, <2>2
<1>7. CASE Files!handle_update_upload(r) /\ table[row].state # "live"
  BY <1>1, <1>3, <1>7, EndsBadly DEF Files!handle_update_upload
<1>8. QED BY <1>5, <1>6, <1>7

-----------------------------------------------------------------------------
\* A hard delete takes hold of the file its row names as it goes, or, where the
\* store reads first, of the one it named then.
Taken(r) == IF config.store = "find_first" /\ ~config.soft THEN req[r].path ELSE table[Files!Row(r)].file

LEMMA RowDeleted == ASSUME FilesInv, NEW r \in Reqs, Files!DeleteRow(r) PROVE FilesInv'
<1> USE DEF FilesInv
<1> DEFINE q == [req[r] EXCEPT !.todo = Tail(@),
                     !.gone = @ \cup IF config.store = "find_first" /\ ~config.soft
                                     THEN req[r].path ELSE table[Files!Row(r)].file,
                     !.pc = "rows"]
           row == Files!Row(r)
<1>0. req[r] \in ReqRec /\ Shaped(r, req[r], files) BY DEF FilesTyped, AllShaped
<1>1. /\ req' = [req EXCEPT ![r] = q] /\ UNCHANGED <<config, files, cleanup, failed>>
      /\ req[r].todo # <<>> /\ req[r].pc \in {"rows", "found"}
      /\ table' = [table EXCEPT ![row] = IF config.soft THEN [table[row] EXCEPT !.state = "trashed"]
                                           ELSE Files!NoFile("deleted")]
  <2>1. UNCHANGED <<config, files, cleanup, failed>> /\ Files!Deleted(r)
        /\ req[r].todo # <<>> /\ req[r].pc \in {"rows", "found"}
    BY DEF Files!DeleteRow
  <2>2. req' = [req EXCEPT ![r] = q] BY <2>1 DEF Files!Deleted, Files!Set
  <2>3. table' = [table EXCEPT ![row] = IF config.soft THEN [table[row] EXCEPT !.state = "trashed"]
                                           ELSE Files!NoFile("deleted")]
    BY <2>1 DEF Files!Deleted
  <2>4. QED BY <2>1, <2>2, <2>3
<1>2. row \in FileRows BY <1>0, <1>1 DEF ReqRec, Files!Row
<1>3. req[r].op \in Deleting /\ req[r].op \notin Uploading /\ req[r].answer = "none"
  BY <1>0, <1>1 DEF Shaped, Deleting, Uploading
<1>4. /\ \A f \in Taken(r) : Used(f) /\ For(f, row)
      /\ config.store = "find_first" /\ ~config.soft => req[r].pc = "found" /\ Found(r)
  <2>1. CASE config.store = "find_first" /\ ~config.soft
    <3>1. req[r].pc = "found" BY <2>1 DEF Files!DeleteRow
    <3>2. QED BY <2>1, <3>1 DEF FoundFiles, Found, Taken
  <2>2. CASE ~(config.store = "find_first" /\ ~config.soft)
    BY <1>2, <2>2 DEF RowFiles, Taken
  <2>3. QED BY <2>1, <2>2
<1>5. Taken(r) \subseteq Files!AllFiles BY <1>4 DEF Used
<1>6. /\ q.op = req[r].op /\ q.pc = "rows" /\ q.answer = "none"
      /\ q.stored = req[r].stored /\ q.path = req[r].path /\ q.meta = req[r].meta
      /\ q.gone = req[r].gone \cup Taken(r)
  BY <1>0, <1>3 DEF ReqRec, Taken
<1>7. q \in ReqRec
  <2>1. Tail(req[r].todo) \in Seq(FileRows) BY <1>0, <1>1 DEF ReqRec
  <2>2. req[r].gone \cup Taken(r) \subseteq Files!AllFiles BY <1>0, <1>5 DEF ReqRec
  <2>3. QED BY <1>0, <2>1, <2>2 DEF ReqRec, Taken
<1>8. table[row] \in RowRec BY <1>2 DEF FilesTyped
<1>9. /\ \A a \in FileRows : a # row => table'[a] = table[a]
      /\ config.soft => /\ table'[row].file = table[row].file /\ table'[row].meta = table[row].meta
                        /\ table'[row].state = "trashed"
      /\ ~config.soft => table'[row].file = {} /\ table'[row].meta = {} /\ table'[row].state = "deleted"
      /\ table' \in [FileRows -> RowRec]
  BY <1>1, <1>2, <1>8 DEF FilesTyped, RowRec, Files!NoFile
<1> HIDE DEF q, row
<1>10. /\ req'[r] = q /\ \A s \in Reqs : s # r => req'[s] = req[s]
  BY <1>1 DEF FilesTyped
<1>11. \A f \in Files!AllFiles : f[1] \in Reqs BY DEF Files!AllFiles
<1>12. \A f : Used(f) => Used(f)' /\ f[1] # r /\ req'[f[1]] = req[f[1]]
  BY <1>3, <1>10, <1>11 DEF Used, Files!AllFiles
<1>13. \A f : Used(f)' => Used(f)
  BY <1>3, <1>6, <1>10, <1>11 DEF Used, Files!AllFiles
<1>14. /\ \A f : Files!Named(f)' => Files!Named(f)
       /\ config.soft => \A f : Files!Named(f) => Files!Named(f)'
       /\ ~config.soft => \A f : For(f, row) => ~Files!Named(f)'
  <2>1. \A f : Files!Named(f)' => Files!Named(f) BY <1>2, <1>9 DEF Files!Named
  <2>2. config.soft => \A f : Files!Named(f) => Files!Named(f)'
    <3>1. config.soft => \A a \in FileRows : table'[a].file = table[a].file BY <1>2, <1>9
    <3>2. QED BY <3>1 DEF Files!Named
  <2>3. ASSUME ~config.soft, NEW f, For(f, row), NEW a \in FileRows, f \in table'[a].file PROVE FALSE
    <3>1. a # row /\ f \in table[a].file BY <1>9, <2>3
    <3>2. For(f, a) BY <3>1 DEF RowFiles
    <3>3. <<a>> = <<row>> BY <2>3, <3>2 DEF For
    <3>4. QED BY <3>1, <3>3
  <2>4. QED BY <2>1, <2>2, <2>3 DEF Files!Named
<1>15. FilesTyped'
  <2>1. req' \in [Reqs -> ReqRec] BY <1>1, <1>7 DEF FilesTyped
  <2>2. QED BY <1>1, <1>9, <2>1 DEF FilesTyped
<1>16. AllShaped'
  <2>1. Shaped(r, q, files') BY <1>0, <1>1, <1>3, <1>6 DEF Shaped
  <2>2. QED BY <1>1, <1>10, <2>1 DEF AllShaped
<1>17. RowFiles'
  <2>1. ASSUME NEW a \in FileRows
        PROVE  table'[a].file \subseteq table[a].file /\ table'[a].meta = table'[a].file
    <3>1. table[a].meta = table[a].file BY DEF RowFiles
    <3>2. CASE a # row BY <1>9, <3>1, <3>2
    <3>3. CASE a = row
      <4>1. CASE config.soft BY <1>9, <3>1, <3>3, <4>1
      <4>2. CASE ~config.soft BY <1>9, <3>3, <4>2
      <4>3. QED BY <4>1, <4>2
    <3>4. QED BY <3>2, <3>3
  <2>2. \A a \in FileRows : table'[a].state = "absent" => table'[a].file = {}
    BY <1>9 DEF RowFiles
  <2>3. \A f, a : Used(f) /\ For(f, a) => For(f, a)' BY <1>12 DEF For
  <2>4. QED BY <1>1, <1>12, <2>1, <2>2, <2>3 DEF RowFiles
<1>18. GoneFiles'
  <2>1. ASSUME NEW s \in Reqs, NEW f \in req[s].gone PROVE Used(f)' /\ (~config'.soft => ~Files!Named(f)')
    BY <1>1, <1>12, <1>14 DEF GoneFiles
  <2>2. ASSUME NEW f \in Taken(r) PROVE Used(f)' /\ (~config'.soft => ~Files!Named(f)')
    BY <1>1, <1>4, <1>12, <1>14
  <2>3. QED BY <1>6, <1>10, <2>1, <2>2 DEF GoneFiles
<1>19. CleanFiles' BY <1>1, <1>12, <1>14 DEF CleanFiles
<1>20. FoundFiles'
  <2>1. SUFFICES ASSUME NEW s \in Reqs, req'[s].pc = "found" PROVE Found(s)'
    BY DEF FoundFiles
  <2>2. s # r /\ req'[s] = req[s] /\ Found(s) BY <1>6, <1>10, <2>1 DEF FoundFiles
  <2>3. Files!Row(s)' = Files!Row(s) /\ Files!Row(s) \in FileRows BY <2>2 DEF Files!Row, Found, FilesTyped, ReqRec
  <2>4. \A f \in req[s].path : Used(f)' /\ req'[f[1]].todo = <<Files!Row(s)>>
    BY <1>12, <2>2 DEF Found, For
  <2>5. table'[Files!Row(s)].file \subseteq table[Files!Row(s)].file /\ table'[Files!Row(s)].state # "absent"
    BY <1>9, <2>2, <2>3 DEF Found
  <2>6. \A f \in table[Files!Row(s)].file : req'[f[1]] = req[f[1]] BY <1>12, <2>3 DEF RowFiles
  <2>7. QED BY <1>1, <2>2, <2>3, <2>4, <2>5, <2>6 DEF Found, For
<1>21. FilesTraced'
  <2>1. ASSUME NEW f \in files, Used(f), Traced(f) PROVE Traced(f)'
    <3>1. CASE Files!Named(f)
      <4>1. CASE Files!Named(f)' BY <4>1 DEF Traced
      <4>2. CASE ~Files!Named(f)'
        <5>1. ~config.soft BY <1>14, <3>1, <4>2
        <5>2. f \in table[row].file
          <6>1. PICK a \in FileRows : f \in table[a].file BY <3>1 DEF Files!Named
          <6>2. a # row => f \in table'[a].file BY <1>9, <6>1
          <6>3. QED BY <4>2, <6>1, <6>2 DEF Files!Named
        <5>3. CASE f \in Taken(r)
          <6>1. f \in req'[r].gone /\ req'[r].answer # "Ok" BY <1>6, <1>10, <5>3
          <6>2. QED BY <1>1, <5>1, <6>1 DEF InHand, Traced
        <5>4. CASE f \notin Taken(r)
          <6>1. config.store = "find_first" BY <5>2, <5>4 DEF Taken, row
          <6>2. Found(r) /\ f \notin req[r].path BY <1>4, <5>1, <5>4, <6>1 DEF Taken
          <6>3. req[f[1]].op = "update_upload" BY <5>2, <6>2 DEF Found, row
          <6>4. f \notin req[r].gone BY <3>1, <5>1 DEF GoneFiles
          <6>5. MissedBy(r, f)' BY <1>3, <1>6, <1>10, <5>4, <6>4 DEF MissedBy
          <6>6. QED BY <1>1, <1>12, <2>1, <4>2, <6>1, <6>3, <6>5 DEF Missed, Traced
        <5>5. QED BY <5>3, <5>4
      <4>3. QED BY <4>1, <4>2
    <3>2. CASE Files!Replaced(f)
      <4>1. PICK a, b \in Reqs :
                /\ f \in req[a].path /\ req[a].answer = "Ok"
                /\ b # a /\ req[b].op = "update_upload" /\ req[b].answer = "Ok"
                /\ req[b].path # {} /\ req[b].todo = req[a].todo
        BY <3>2 DEF Files!Replaced
      <4>2. req'[a] = req[a] /\ req'[b] = req[b] BY <1>3, <1>10, <4>1
      <4>3. Files!Replaced(f)' BY <4>1, <4>2 DEF Files!Replaced
      <4>4. QED BY <4>3 DEF Traced
    <3>3. CASE InHand(f)
      <4>1. PICK s \in Reqs : f \in req[s].gone /\ req[s].answer # "Ok" BY <3>3 DEF InHand
      <4>2. f \in req'[s].gone /\ req'[s].answer # "Ok" BY <1>6, <1>10, <4>1
      <4>3. QED BY <1>1, <3>3, <4>2 DEF InHand, Traced
    <3>4. CASE Missed(f)
      <4>1. PICK s \in Reqs : MissedBy(s, f) BY <3>4 DEF Missed
      <4>2. f \notin Taken(r) \/ s # r
        <5>1. CASE config.store = "find_first" /\ ~config.soft
          BY <1>4, <4>1, <5>1 DEF MissedBy, Taken
        <5>2. CASE ~(config.store = "find_first" /\ ~config.soft)
          BY <1>2, <3>4, <5>2 DEF Missed, Files!Named, Taken, row
        <5>3. QED BY <5>1, <5>2
      <4>3. MissedBy(s, f)' BY <1>6, <1>10, <4>1, <4>2 DEF MissedBy
      <4>4. QED BY <1>1, <1>12, <1>14, <2>1, <3>4, <4>3 DEF Missed, Traced
    <3>5. CASE f \in cleanup \/ f \in failed BY <1>1, <3>5 DEF Traced
    <3>6. QED BY <2>1, <3>1, <3>2, <3>3, <3>4, <3>5 DEF Traced
  <2>2. ASSUME NEW f \in files PROVE f \in req'[f[1]].stored /\ (Used(f)' => Traced(f)')
    <3>1. f \in req[f[1]].stored /\ f[1] \in Reqs BY <1>11 DEF FilesTraced, FilesTyped
    <3>2. f \in req'[f[1]].stored BY <1>6, <1>10, <3>1
    <3>3. QED BY <1>13, <2>1, <3>2 DEF FilesTraced
  <2>3. QED BY <1>1, <2>2 DEF FilesTraced
<1>22. QED BY <1>15, <1>16, <1>17, <1>18, <1>19, <1>20, <1>21

\* A delete that comes to its end hands what it took to the clean-up task.
LEMMA CleanUpScheduled == ASSUME FilesInv, NEW r \in Reqs, Files!schedule_file_cleanup(r) PROVE FilesInv'
<1> USE DEF FilesInv
<1> DEFINE q == [req[r] EXCEPT !.pc = "done", !.answer = "Ok"]
<1>0. req[r] \in ReqRec /\ Shaped(r, req[r], files) BY DEF FilesTyped, AllShaped
<1>1. /\ req' = [req EXCEPT ![r] = q] /\ UNCHANGED <<config, table, files>>
      /\ req[r].pc = "rows"
  BY DEF Files!schedule_file_cleanup, Files!Answer, Files!Set
<1>2. /\ q.op = req[r].op /\ q.pc = "done" /\ q.todo = req[r].todo /\ q.answer = "Ok"
      /\ q.stored = req[r].stored /\ q.path = req[r].path /\ q.meta = req[r].meta
      /\ q.gone = req[r].gone
  BY <1>0 DEF ReqRec
<1>3. q \in ReqRec BY <1>0 DEF ReqRec
<1> HIDE DEF q
<1>4. /\ req'[r] = q /\ \A s \in Reqs : s # r => req'[s] = req[s]
  BY <1>1 DEF FilesTyped
<1>5. req[r].op \in Deleting /\ req[r].op \notin Uploading /\ req[r].answer = "none"
  BY <1>0, <1>1 DEF Shaped, Deleting, Uploading
<1>6. \A f \in Files!AllFiles : f[1] \in Reqs BY DEF Files!AllFiles
<1>7. \A f : Used(f) => Used(f)' /\ req'[f[1]] = req[f[1]]
  BY <1>4, <1>5, <1>6 DEF Used, Files!AllFiles
<1>8. \A f : Used(f)' => Used(f)
  BY <1>2, <1>4, <1>5, <1>6 DEF Used, Files!AllFiles
<1>9. \A f : Files!Named(f)' <=> Files!Named(f) BY <1>1 DEF Files!Named
<1>10. /\ cleanup \subseteq cleanup' /\ failed \subseteq failed'
       /\ cleanup' \subseteq cleanup \cup Files!Scheduled(r)
       /\ cleanup' \cup failed' = cleanup \cup failed \cup Files!Scheduled(r)
  BY DEF Files!schedule_file_cleanup
<1>11. Files!Scheduled(r) \subseteq req[r].gone /\ (~config.soft => Files!Scheduled(r) = req[r].gone)
       /\ (config.soft => Files!Scheduled(r) = {})
  BY DEF Files!Scheduled
<1>12. FilesTyped'
  <2>1. req' \in [Reqs -> ReqRec] BY <1>1, <1>3 DEF FilesTyped
  <2>2. cleanup' \subseteq Files!AllFiles /\ failed' \subseteq Files!AllFiles
    BY <1>0, <1>10, <1>11 DEF FilesTyped, ReqRec
  <2>3. QED BY <1>1, <2>1, <2>2 DEF FilesTyped
<1>13. AllShaped'
  <2>1. Shaped(r, q, files') BY <1>0, <1>1, <1>2, <1>5 DEF Shaped
  <2>2. QED BY <1>1, <1>4, <2>1 DEF AllShaped
<1>14. RowFiles' BY <1>1, <1>7 DEF RowFiles, For
<1>15. GoneFiles' BY <1>1, <1>2, <1>4, <1>7, <1>9 DEF GoneFiles
<1>16. CleanFiles'
  <2>1. \A f \in Files!Scheduled(r) : Used(f) /\ ~config.soft /\ ~Files!Named(f)
    BY <1>11 DEF GoneFiles
  <2>2. QED BY <1>1, <1>7, <1>9, <1>10, <2>1 DEF CleanFiles
<1>17. FoundFiles'
  <2>1. SUFFICES ASSUME NEW s \in Reqs, req'[s].pc = "found" PROVE Found(s)'
    BY DEF FoundFiles
  <2>2. s # r /\ req'[s] = req[s] /\ Found(s) BY <1>2, <1>4, <2>1 DEF FoundFiles
  <2>3. Files!Row(s)' = Files!Row(s) /\ Files!Row(s) \in FileRows BY <2>2 DEF Files!Row, Found, FilesTyped, ReqRec
  <2>4. \A f \in req[s].path : Used(f)' /\ req'[f[1]].todo = <<Files!Row(s)>>
    BY <1>7, <2>2 DEF Found, For
  <2>5. \A f \in table[Files!Row(s)].file : req'[f[1]] = req[f[1]] BY <1>7, <2>3 DEF RowFiles
  <2>6. QED BY <1>1, <2>2, <2>3, <2>4, <2>5 DEF Found, For
<1>18. FilesTraced'
  <2>1. ASSUME NEW f \in files, Used(f), Traced(f) PROVE Traced(f)'
    <3>1. CASE Files!Replaced(f)
      <4>1. PICK a, b \in Reqs :
                /\ f \in req[a].path /\ req[a].answer = "Ok"
                /\ b # a /\ req[b].op = "update_upload" /\ req[b].answer = "Ok"
                /\ req[b].path # {} /\ req[b].todo = req[a].todo
        BY <3>1 DEF Files!Replaced
      <4>2. req'[a] = req[a] /\ req'[b] = req[b] BY <1>4, <1>5, <4>1
      <4>3. Files!Replaced(f)' BY <4>1, <4>2 DEF Files!Replaced
      <4>4. QED BY <4>3 DEF Traced
    <3>2. CASE InHand(f)
      <4>1. PICK s \in Reqs : f \in req[s].gone /\ req[s].answer # "Ok" BY <3>2 DEF InHand
      <4>2. CASE s = r
        <5>1. f \in Files!Scheduled(r) BY <1>11, <3>2, <4>1, <4>2 DEF InHand
        <5>2. QED BY <1>10, <5>1 DEF Traced
      <4>3. CASE s # r
        BY <1>1, <1>4, <3>2, <4>1, <4>3 DEF InHand, Traced
      <4>4. QED BY <4>2, <4>3
    <3>3. CASE Missed(f)
      <4>1. PICK s \in Reqs : MissedBy(s, f) BY <3>3 DEF Missed
      <4>2. MissedBy(s, f)' BY <1>2, <1>4, <4>1 DEF MissedBy
      <4>3. QED BY <1>1, <1>7, <1>9, <2>1, <3>3, <4>2 DEF Missed, Traced
    <3>4. CASE Files!Named(f) \/ f \in cleanup \/ f \in failed BY <1>9, <1>10, <3>4 DEF Traced
    <3>5. QED BY <2>1, <3>1, <3>2, <3>3, <3>4 DEF Traced
  <2>2. ASSUME NEW f \in files PROVE f \in req'[f[1]].stored /\ (Used(f)' => Traced(f)')
    <3>1. f \in req[f[1]].stored /\ f[1] \in Reqs BY <1>6 DEF FilesTraced, FilesTyped
    <3>2. f \in req'[f[1]].stored BY <1>2, <1>4, <3>1
    <3>3. QED BY <1>8, <2>1, <3>2 DEF FilesTraced
  <2>3. QED BY <1>1, <2>2 DEF FilesTraced
<1>19. QED BY <1>12, <1>13, <1>14, <1>15, <1>16, <1>17, <1>18

\* The clean-up of a file, whatever becomes of it: no row and no upload under
\* way knows the file.
LEMMA Cleaned ==
    ASSUME FilesInv, NEW g \in cleanup, Files!CleanUp(g) \/ Files!CleanUpFails(g) PROVE FilesInv'
<1> USE DEF FilesInv
<1>1. /\ UNCHANGED <<config, table, req>> /\ cleanup' = cleanup \ {g}
      /\ files' \subseteq files /\ files \ {g} \subseteq files'
      /\ failed \subseteq failed' /\ failed' \subseteq failed \cup {g}
      /\ g \in files' => g \in failed'
  BY DEF Files!CleanUp, Files!CleanUpFails, Files!Removes
<1>2. /\ \A f : Used(f)' <=> Used(f)
      /\ \A f : Files!Named(f)' <=> Files!Named(f)
      /\ \A f : Files!Replaced(f)' <=> Files!Replaced(f)
      /\ \A f, row : For(f, row)' <=> For(f, row)
  BY <1>1 DEF Used, Files!Named, Files!Replaced, For
<1>3. Used(g) /\ ~Files!Named(g) /\ g \in Files!AllFiles BY DEF CleanFiles, FilesTyped
<1>4. FilesTyped' BY <1>1, <1>3 DEF FilesTyped
<1>5. AllShaped'
  <2>1. ASSUME NEW s \in Reqs, req[s].pc \in {"body", "write"} PROVE g \notin req[s].path
    <3>1. req[s].op \in Uploading /\ req[s].answer = "none" BY <2>1 DEF AllShaped, Shaped
    <3>2. \A f \in req[s].path : f[1] = s BY <3>1 DEF AllShaped, Shaped
    <3>3. QED BY <1>3, <3>1, <3>2 DEF Used
  <2>2. ASSUME NEW s \in Reqs PROVE Shaped(s, req[s], files')
    <3>1. Shaped(s, req[s], files) BY DEF AllShaped
    <3>2. req[s].pc \in {"body", "write"} => req[s].path \subseteq files'
      BY <1>1, <2>1, <3>1 DEF Shaped
    <3>3. QED BY <3>1, <3>2 DEF Shaped
  <2>3. QED BY <1>1, <2>2 DEF AllShaped
<1>6. RowFiles' BY <1>1, <1>2, <1>3 DEF RowFiles, Files!Named
<1>7. GoneFiles' BY <1>1, <1>2 DEF GoneFiles
<1>8. CleanFiles' BY <1>1, <1>2 DEF CleanFiles
<1>9. FoundFiles' 
  <2>1. \A s : Files!Row(s)' = Files!Row(s) BY <1>1 DEF Files!Row
  <2>2. QED BY <1>1, <1>2, <2>1 DEF FoundFiles, Found, For
<1>10. FilesTraced'
  <2>1. \A f : (InHand(f)' <=> InHand(f)) /\ (Missed(f)' <=> Missed(f))
    BY <1>1, <1>2 DEF InHand, Missed, MissedBy
  <2>2. \A f \in files' : Traced(f) => Traced(f)' BY <1>1, <1>2, <2>1 DEF Traced
  <2>3. QED BY <1>1, <1>2, <2>2 DEF FilesTraced
<1>11. QED BY <1>4, <1>5, <1>6, <1>7, <1>8, <1>9, <1>10

LEMMA Restarted == ASSUME FilesInv, Files!Restart PROVE FilesInv'
<1> USE DEF FilesInv
<1>1. /\ UNCHANGED <<config, table, files>> /\ cleanup' = {} /\ failed' = failed \cup cleanup
      /\ req' = [r \in Reqs |-> IF req[r].pc \in {"idle", "done"} THEN req[r]
                                ELSE [req[r] EXCEPT !.pc = "done", !.answer = "Dropped"]]
  BY DEF Files!Restart
<1>2. \A r \in Reqs : req[r].pc \in {"idle", "done"} => req'[r] = req[r] BY <1>1
<1>3. ASSUME NEW r \in Reqs
      PROVE  /\ req'[r] \in ReqRec
             /\ req'[r].op = req[r].op /\ req'[r].todo = req[r].todo
             /\ req'[r].stored = req[r].stored /\ req'[r].path = req[r].path
             /\ req'[r].meta = req[r].meta /\ req'[r].gone = req[r].gone
             /\ req[r].pc \notin {"idle", "done"} => req'[r].pc = "done" /\ req'[r].answer = "Dropped"
             /\ req'[r].answer = "Ok" <=> req[r].answer = "Ok"
             /\ Shaped(r, req'[r], files)
  <2>1. req[r] \in ReqRec /\ Shaped(r, req[r], files) BY DEF FilesTyped, AllShaped
  <2>2. CASE req[r].pc \in {"idle", "done"} BY <1>2, <2>1, <2>2
  <2>3. CASE req[r].pc \notin {"idle", "done"}
    <3> DEFINE q == [req[r] EXCEPT !.pc = "done", !.answer = "Dropped"]
    <3>1. req'[r] = q BY <1>1, <2>3
    <3>2. /\ q \in ReqRec /\ q.op = req[r].op /\ q.pc = "done" /\ q.todo = req[r].todo
          /\ q.answer = "Dropped" /\ q.stored = req[r].stored /\ q.path = req[r].path
          /\ q.meta = req[r].meta /\ q.gone = req[r].gone
      BY <2>1 DEF ReqRec
    <3> HIDE DEF q
    <3>3. req[r].answer # "Ok" BY <2>1, <2>3 DEF Shaped
    <3>4. Shaped(r, q, files) BY <2>1, <3>2 DEF Shaped
    <3>5. QED BY <2>3, <3>1, <3>2, <3>3, <3>4
  <2>4. QED BY <2>2, <2>3
<1>4. \A f \in Files!AllFiles : f[1] \in Reqs BY DEF Files!AllFiles
<1>5. \A f : Used(f)' <=> Used(f) BY <1>3, <1>4 DEF Used, Files!AllFiles
<1>6. \A f : Files!Named(f)' <=> Files!Named(f) BY <1>1 DEF Files!Named
<1>7. FilesTyped'
  <2>1. req' \in [Reqs -> ReqRec] BY <1>1, <1>3
  <2>2. QED BY <1>1, <2>1 DEF FilesTyped
<1>8. AllShaped' BY <1>1, <1>3 DEF AllShaped
<1>9. RowFiles'
  <2>1. \A f, row : Used(f) /\ For(f, row) => For(f, row)' BY <1>3, <1>4 DEF Used, For
  <2>2. QED BY <1>1, <1>5, <2>1 DEF RowFiles
<1>10. GoneFiles' BY <1>1, <1>3, <1>5, <1>6 DEF GoneFiles
<1>11. CleanFiles' BY <1>1 DEF CleanFiles
<1>12. FoundFiles'
  <2>1. \A s \in Reqs : req'[s].pc # "found" BY <1>2, <1>3
  <2>2. QED BY <2>1 DEF FoundFiles
<1>13. FilesTraced'
  <2>1. \A f : Files!Replaced(f) => Files!Replaced(f)' BY <1>3 DEF Files!Replaced
  <2>2. \A f : InHand(f) => InHand(f)' BY <1>1, <1>3 DEF InHand
  <2>3. \A f : Used(f) /\ Missed(f) => Missed(f)'
    <3>1. \A s \in Reqs : \A f : MissedBy(s, f) => MissedBy(s, f)' BY <1>2, <1>3 DEF MissedBy
    <3>2. \A f : Used(f) => req'[f[1]].op = req[f[1]].op BY <1>3, <1>4 DEF Used
    <3>3. QED BY <1>1, <1>6, <3>1, <3>2 DEF Missed
  <2>4. \A f : Used(f) /\ Traced(f) => Traced(f)' BY <1>1, <1>6, <2>1, <2>2, <2>3 DEF Traced
  <2>5. \A f \in files : f[1] \in Reqs BY <1>4 DEF FilesTyped
  <2>6. QED BY <1>1, <1>3, <1>5, <2>4, <2>5 DEF FilesTraced
<1>14. QED BY <1>7, <1>8, <1>9, <1>10, <1>11, <1>12, <1>13

LEMMA RequestSteps ==
    ASSUME FilesInv, NEW r \in Reqs,
           \/ Files!StorePart(r) \/ Files!StoreBreaks(r) \/ Files!PartRefused(r) \/ Files!EndBody(r)
           \/ Files!WriteRefused(r) \/ Files!handle_create_upload(r) \/ Files!handle_update_upload(r)
           \/ Files!FindFirst(r) \/ Files!DeleteRow(r) \/ Files!DeleteFails(r)
           \/ Files!schedule_file_cleanup(r) \/ Files!Abandon(r)
    PROVE  FilesInv'
<1>1. CASE Files!PartRefused(r) BY <1>1, EndsBadly DEF Files!PartRefused
<1>2. CASE Files!WriteRefused(r) BY <1>2, EndsBadly DEF Files!WriteRefused
<1>3. CASE Files!DeleteFails(r) BY <1>3, EndsBadly DEF Files!DeleteFails
<1>4. CASE Files!Abandon(r) BY <1>4, EndsBadly DEF Files!Abandon
<1>5. QED BY <1>1, <1>2, <1>3, <1>4, PartStored, BodyEnds, RowFound, UploadEnds, RowDeleted, CleanUpScheduled

LEMMA FilesKept == ASSUME FilesInv, [Files!Next]_(Files!vars) PROVE FilesInv'
<1>1. CASE UNCHANGED Files!vars
  <2>1. UNCHANGED <<config, table, files, req, cleanup, failed>> BY <1>1 DEF Files!vars
  <2>2. \A s : Files!Row(s)' = Files!Row(s) BY <2>1 DEF Files!Row
  <2>3. \A f : /\ Used(f)' <=> Used(f)
               /\ Files!Named(f)' <=> Files!Named(f)
               /\ Files!Replaced(f)' <=> Files!Replaced(f)
               /\ InHand(f)' <=> InHand(f)
               /\ Missed(f)' <=> Missed(f)
    BY <2>1 DEF Used, Files!Named, Files!Replaced, InHand, Missed, MissedBy
  <2>4. \A f : Traced(f)' <=> Traced(f) BY <2>1, <2>3 DEF Traced
  <2>5. FilesTyped' /\ AllShaped' /\ RowFiles' /\ GoneFiles' /\ CleanFiles'
    BY <2>1, <2>3 DEF FilesInv, FilesTyped, AllShaped, RowFiles, GoneFiles, CleanFiles, For
  <2>6. FoundFiles' BY <2>1, <2>2, <2>3 DEF FilesInv, FoundFiles, Found, For
  <2>7. FilesTraced' BY <2>1, <2>3, <2>4 DEF FilesInv, FilesTraced
  <2>8. QED BY <2>5, <2>6, <2>7 DEF FilesInv
<1>2. ASSUME NEW r \in Reqs, NEW op \in Files!Ops \ {"bulk_delete"}, NEW row \in FileRows, Files!Start(r, op, <<row>>)
      PROVE  FilesInv'
  <2>1. op \in Files!Ops /\ <<row>> \in Seq(FileRows) BY <1>2
  <2>2. op \in Uploading => \E a \in FileRows : <<row>> = <<a>> OBVIOUS
  <2>3. QED BY <1>2, <2>1, <2>2, Started
<1>3. ASSUME NEW r \in Reqs, NEW a \in FileRows, NEW b \in FileRows, Files!Start(r, "bulk_delete", <<a, b>>)
      PROVE  FilesInv'
  <2>1. "bulk_delete" \in Files!Ops /\ <<a, b>> \in Seq(FileRows) BY DEF Files!Ops
  <2>2. "bulk_delete" \notin Uploading BY DEF Uploading
  <2>3. QED BY <1>3, <2>1, <2>2, Started
<1>4. QED BY <1>1, <1>2, <1>3, RequestSteps, Cleaned, Restarted DEF Files!Next

LEMMA FilesFacts ==
    FilesInv => Files!TypeOK /\ Files!RowsNameStoredFiles /\ Files!MetadataIsOfTheFile /\ Files!OrphansExplained
<1> SUFFICES ASSUME FilesInv
             PROVE  Files!TypeOK /\ Files!RowsNameStoredFiles /\ Files!MetadataIsOfTheFile /\ Files!OrphansExplained
  OBVIOUS
<1> USE DEF FilesInv
<1>1. Files!TypeOK
  <2>1. \A r \in Reqs : req[r].pc \in {"idle", "body", "write", "rows", "found", "done"}
    BY DEF FilesTyped, ReqRec
  <2>2. \A row \in FileRows : /\ table[row].state \in {"absent", "live", "trashed", "deleted"}
                              /\ table[row].file \subseteq Files!AllFiles
    BY DEF FilesTyped, RowRec
  <2>3. QED BY <2>1, <2>2 DEF Files!TypeOK, FilesTyped
<1>2. Files!RowsNameStoredFiles /\ Files!MetadataIsOfTheFile
  BY DEF RowFiles, Files!RowsNameStoredFiles, Files!MetadataIsOfTheFile
<1>3. Files!OrphansExplained
  <2>1. SUFFICES ASSUME \A r \in Reqs : req[r].pc \in {"idle", "done"}, cleanup = {},
                        NEW f \in files
                 PROVE  \/ Files!Named(f) \/ Files!LeftByItsRequest(f) \/ Files!Replaced(f)
                        \/ Files!LeftByDelete(f) \/ Files!MissedByDelete(f) \/ f \in failed
    BY DEF Files!OrphansExplained
  <2>2. f \in Files!AllFiles /\ f[1] \in Reqs /\ f \in req[f[1]].stored
    BY DEF FilesTyped, FilesTraced, Files!AllFiles
  <2>3. req[f[1]].op \in Uploading BY <2>2 DEF AllShaped, Shaped
  <2>4. CASE ~Used(f) BY <2>2, <2>3, <2>4 DEF Used, Files!LeftByItsRequest
  <2>5. CASE Used(f)
    <3>1. Traced(f) BY <2>5 DEF FilesTraced
    <3>2. InHand(f) => Files!LeftByDelete(f) BY DEF InHand, Files!LeftByDelete
    <3>3. Missed(f) => Files!MissedByDelete(f)
      BY <2>2, <2>5 DEF Missed, MissedBy, Files!MissedByDelete, Used, Deleting
    <3>4. QED BY <2>1, <3>1, <3>2, <3>3 DEF Traced
  <2>6. QED BY <2>4, <2>5
<1>4. QED BY <1>1, <1>2, <1>3

-----------------------------------------------------------------------------
(* The incident application.                                                *)

IncidentRec == [service : AppServices, severity : {"high", "low"}, commander : BOOLEAN,
                status : App!Statuses, resolved_at : BOOLEAN, live : BOOLEAN]
AlertRec == [service : AppServices, incident : SUBSET AppRows, fingerprint : Prints,
             status : {"received", "deduped", "linked", "ignored"}, known : SUBSET SUBSET Alerts]
CheckRec == [in : App!AlertInput, known : SUBSET Alerts, status : {"linked", "deduped", "received"}]

AppTyped ==
    /\ incident \in [AppRows -> SUBSET IncidentRec] /\ \A i \in AppRows : Option(incident[i])
    /\ alert \in [Alerts -> SUBSET AlertRec] /\ \A a \in Alerts : Option(alert[a])
    /\ check \in [Alerts -> SUBSET CheckRec]
    /\ DOMAIN log = AppRows
    /\ requests \in 0 .. AppRequests /\ faults \in 0 .. AppFaults

\* What is written of an incident: the commander, the stamp and the audit entry
\* its status calls for, one update at a time.
OneAudit ==
    \A i \in AppRows \ spoilt : \A p \in pending : p.row = i =>
        /\ \A q \in pending : q.row = i => p = q
        /\ \A r \in incident[i] : p.status = r.status

IncidentsInv ==
    /\ \A p \in pending : p.row \in AppRows /\ incident[p.row] # {}
    /\ \A i \in AppRows : incident[i] = {} => log[i] = <<>>
    /\ OneAudit /\ App!CommanderKept /\ App!ResolvedIsStamped /\ App!AuditTells

\* The two link jobs of an alert: they wait or have found an incident, and there
\* are never more than two of them, wherever they are.
Jobs(a) ==
    /\ queued[a] \in Nat
    /\ linking[a] \in [AppRows -> Nat]
    /\ queued[a] <= 2
    /\ \A i \in AppRows : queued[a] + linking[a][i] <= 2
    /\ \A i, j \in AppRows : i # j => queued[a] + linking[a][i] + linking[a][j] <= 2
    /\ \A i, j, k \in AppRows : (i # j /\ j # k /\ i # k) =>
           linking[a][i] + linking[a][j] + linking[a][k] <= 2
    /\ ~App!Exists(a) => queued[a] = 0 /\ \A i \in AppRows : linking[a][i] = 0

JobsInv ==
    /\ DOMAIN queued = Alerts /\ DOMAIN linking = Alerts
    /\ \A a \in Alerts : Jobs(a)

\* What ingest_alert found still holds when the row is inserted: of the alerts
\* it saw, none that is young has the fingerprint of a first one.
First(others, fp) ==
    \A a \in others : /\ App!Exists(a)
                      /\ a \in young \ edited => \A r \in alert[a] : r.fingerprint # fp

AlertsInv ==
    /\ App!LinkIsWhole
    /\ young \subseteq Alerts
    /\ \A a \in Alerts : check[a] # {} => ~App!Exists(a)
    /\ \A a \in Alerts : \A c \in check[a] :
          /\ c.status = "linked" <=> c.in.incident # {}
          /\ c.status = "received" => First(c.known, c.in.fingerprint)
    /\ \A a \in Alerts \ edited : \A r \in alert[a] : r.status # "ignored"
    /\ \A a \in Alerts : \A r \in alert[a] : \A others \in r.known : First(others, r.fingerprint)

AppInv == AppTyped /\ IncidentsInv /\ JobsInv /\ AlertsInv

LEMMA AppStarts == ASSUME App!Init PROVE AppInv
<1>1. AppTyped BY AppAssumption DEF App!Init, AppTyped, Option
<1>2. IncidentsInv
  BY DEF App!Init, IncidentsInv, OneAudit, App!CommanderKept, App!ResolvedIsStamped, App!AuditTells
<1>3. JobsInv BY DEF App!Init, JobsInv, Jobs, App!Exists
<1>4. AlertsInv BY DEF App!Init, AlertsInv, App!LinkIsWhole, App!Exists
<1>5. QED BY <1>1, <1>2, <1>3, <1>4 DEF AppInv

-----------------------------------------------------------------------------
LEMMA IncidentCreated ==
    ASSUME AppTyped, IncidentsInv, NEW i \in AppRows, NEW in \in App!IncidentInput, App!create_incident(i, in)
    PROVE  AppTyped' /\ IncidentsInv'
<1> DEFINE new == [service |-> in.service, severity |-> in.severity, commander |-> in.commander,
                   status |-> "open", resolved_at |-> FALSE, live |-> TRUE]
<1>1. /\ incident' = [incident EXCEPT ![i] = {new}] /\ incident[i] = {}
      /\ in.severity = "high" => in.commander
      /\ requests < AppRequests /\ requests' = requests + 1
      /\ UNCHANGED <<alert, check, log, pending, spoilt, cleared, faults>>
  BY DEF App!create_incident, App!open_incident, App!Sent
<1>2. new \in IncidentRec BY DEF App!IncidentInput, IncidentRec, App!Statuses, App!Active, App!Over
<1>3. new.severity = in.severity /\ new.commander = in.commander /\ new.status = "open" OBVIOUS
<1> HIDE DEF new
<1>4. /\ incident'[i] = {new} /\ \A j \in AppRows : j # i => incident'[j] = incident[j]
  BY <1>1 DEF AppTyped
<1>5. AppTyped'
  <2>1. incident' \in [AppRows -> SUBSET IncidentRec] BY <1>1, <1>2 DEF AppTyped
  <2>2. \A j \in AppRows : Option(incident'[j]) BY <1>4 DEF AppTyped, Option
  <2>3. requests' \in 0 .. AppRequests BY <1>1, AppAssumption DEF AppTyped
  <2>4. QED BY <1>1, <2>1, <2>2, <2>3 DEF AppTyped
<1>6. IncidentsInv'
  <2>1. \A p \in pending : p.row # i BY <1>1 DEF IncidentsInv
  <2>2. log[i] = <<>> BY <1>1 DEF IncidentsInv
  <2>3. OneAudit' BY <1>1, <1>4, <2>1 DEF IncidentsInv, OneAudit
  <2>4. App!CommanderKept' BY <1>1, <1>3, <1>4 DEF IncidentsInv, App!CommanderKept
  <2>5. App!ResolvedIsStamped' BY <1>3, <1>4 DEF IncidentsInv, App!ResolvedIsStamped, App!Over
  <2>6. App!AuditTells' BY <1>1, <1>4, <2>2 DEF IncidentsInv, App!AuditTells
  <2>7. QED BY <1>1, <1>4, <2>3, <2>4, <2>5, <2>6 DEF IncidentsInv
<1>7. QED BY <1>5, <1>6

LEMMA IncidentUpdated ==
    ASSUME AppTyped, IncidentsInv, NEW i \in AppRows, NEW in \in App!IncidentChange, App!update_incident(i, in)
    PROVE  AppTyped' /\ IncidentsInv'
<1>1. PICK r \in incident[i] :
          /\ incident' = [incident EXCEPT ![i] = {App!Updated(r, in)}]
          /\ pending' = pending \cup {[id |-> requests, row |-> i, status |-> App!Updated(r, in).status]}
  BY DEF App!update_incident
<1>2. /\ requests < AppRequests /\ requests' = requests + 1
      /\ in.status = <<"acknowledged">> => in.commander = "set"
      /\ spoilt' = spoilt \cup {p.row : p \in {q \in pending : q.row = i}}
      /\ cleared' = IF in.commander = "null" THEN cleared \cup {i} ELSE cleared
      /\ UNCHANGED <<alert, check, log, faults>>
  BY DEF App!update_incident, App!enforce_incident_update, App!Sent
<1> DEFINE u == App!Updated(r, in)
           p == [id |-> requests, row |-> i, status |-> u.status]
<1>3. r \in IncidentRec /\ incident[i] = {r} BY <1>1 DEF AppTyped, Option
<1>4. /\ u \in IncidentRec
      /\ u.status = IF in.status = <<>> THEN r.status ELSE in.status[1]
      /\ u.commander = IF in.commander = "absent" THEN r.commander ELSE in.commander = "set"
      /\ u.resolved_at = (r.resolved_at \/ in.status \in {<<s>> : s \in App!Over})
      /\ u.severity = r.severity
  <2>1. in.status = <<>> \/ (in.status # <<>> /\ in.status[1] \in App!Statuses)
    BY DEF App!IncidentChange, App!Statuses, App!Active, App!Over
  <2>2. QED BY <1>3, <2>1 DEF App!Updated, IncidentRec
<1>5. \A s : in.status = <<s>> => in.status # <<>> /\ in.status[1] = s OBVIOUS
<1>6. p.row = i /\ p.status = u.status /\ pending' = pending \cup {p} BY <1>1
<1> HIDE DEF u, p
<1>7. /\ incident'[i] = {u} /\ \A j \in AppRows : j # i => incident'[j] = incident[j]
  BY <1>1 DEF AppTyped, u
<1>8. AppTyped'
  <2>1. incident' \in [AppRows -> SUBSET IncidentRec] BY <1>1, <1>4 DEF AppTyped, u
  <2>2. \A j \in AppRows : Option(incident'[j]) BY <1>7 DEF AppTyped, Option
  <2>3. requests' \in 0 .. AppRequests BY <1>2, AppAssumption DEF AppTyped
  <2>4. QED BY <1>2, <2>1, <2>2, <2>3 DEF AppTyped
<1>9. OneAudit'
  <2>1. spoilt \subseteq spoilt' /\ (i \notin spoilt' => \A q \in pending : q.row # i) BY <1>2
  <2>2. QED BY <1>6, <1>7, <2>1 DEF IncidentsInv, OneAudit
<1>10. App!CommanderKept'
  <2>1. ASSUME i \notin cleared', u.severity = "high" \/ u.status = "acknowledged"
        PROVE  u.commander
    <3>1. i \notin cleared /\ in.commander # "null" BY <1>2, <2>1
    <3>2. in.commander \in {"absent", "set"} BY <3>1 DEF App!IncidentChange
    <3>3. CASE in.commander = "set" BY <1>4, <3>3
    <3>4. CASE in.commander = "absent"
      <4>1. in.status # <<"acknowledged">> BY <1>2, <3>4
      <4>2. in.status = <<>> \/ (in.status # <<>> /\ in.status[1] # "acknowledged")
        BY <4>1 DEF App!IncidentChange
      <4>3. r.severity = "high" \/ r.status = "acknowledged" BY <1>4, <2>1, <4>2
      <4>4. QED BY <1>1, <1>4, <3>1, <3>4, <4>3 DEF IncidentsInv, App!CommanderKept
    <3>5. QED BY <3>2, <3>3, <3>4
  <2>2. cleared \subseteq cleared' BY <1>2
  <2>3. QED BY <1>7, <2>1, <2>2 DEF IncidentsInv, App!CommanderKept
<1>11. App!ResolvedIsStamped'
  <2>1. u.status \in App!Over => u.resolved_at
    <3>1. CASE in.status = <<>> BY <1>1, <1>4, <3>1 DEF IncidentsInv, App!ResolvedIsStamped
    <3>2. CASE in.status # <<>>
      <4>1. in.status = <<in.status[1]>> BY <3>2 DEF App!IncidentChange
      <4>2. QED BY <1>4, <3>2, <4>1
    <3>3. QED BY <3>1, <3>2
  <2>2. QED BY <1>7, <2>1 DEF IncidentsInv, App!ResolvedIsStamped
<1>12. App!AuditTells' BY <1>2, <1>6, <1>7 DEF IncidentsInv, App!AuditTells
<1>13. QED BY <1>2, <1>6, <1>7, <1>8, <1>9, <1>10, <1>11, <1>12 DEF IncidentsInv

LEMMA IncidentDeleted ==
    ASSUME AppTyped, IncidentsInv, NEW i \in AppRows, App!delete_incident(i)
    PROVE  AppTyped' /\ IncidentsInv'
<1>1. /\ incident' = [incident EXCEPT ![i] = {[r EXCEPT !.live = FALSE] : r \in @}]
      /\ requests < AppRequests /\ requests' = requests + 1
      /\ UNCHANGED <<alert, check, log, pending, spoilt, cleared, faults>>
  BY DEF App!delete_incident, App!Sent
<1>2. PICK r \in incident[i] : TRUE BY DEF App!delete_incident, App!Live
<1> DEFINE u == [r EXCEPT !.live = FALSE]
<1>3. r \in IncidentRec /\ incident[i] = {r} BY <1>2 DEF AppTyped, Option
<1>4. u \in IncidentRec /\ u.status = r.status /\ u.severity = r.severity
      /\ u.commander = r.commander /\ u.resolved_at = r.resolved_at
  BY <1>3 DEF IncidentRec
<1>5. incident' = [incident EXCEPT ![i] = {u}] BY <1>1, <1>3
<1> HIDE DEF u
<1>6. /\ incident'[i] = {u} /\ \A j \in AppRows : j # i => incident'[j] = incident[j]
  BY <1>5 DEF AppTyped
<1>7. AppTyped'
  <2>1. incident' \in [AppRows -> SUBSET IncidentRec] BY <1>5, <1>4 DEF AppTyped
  <2>2. \A j \in AppRows : Option(incident'[j]) BY <1>6 DEF AppTyped, Option
  <2>3. requests' \in 0 .. AppRequests BY <1>1, AppAssumption DEF AppTyped
  <2>4. QED BY <1>1, <2>1, <2>2, <2>3 DEF AppTyped
<1>8. IncidentsInv'
  <2>1. OneAudit' BY <1>1, <1>3, <1>4, <1>6 DEF IncidentsInv, OneAudit
  <2>2. App!CommanderKept' BY <1>1, <1>3, <1>4, <1>6 DEF IncidentsInv, App!CommanderKept
  <2>3. App!ResolvedIsStamped' BY <1>3, <1>4, <1>6 DEF IncidentsInv, App!ResolvedIsStamped
  <2>4. App!AuditTells' BY <1>1, <1>3, <1>4, <1>6 DEF IncidentsInv, App!AuditTells
  <2>5. QED BY <1>1, <1>3, <1>6, <2>1, <2>2, <2>3, <2>4 DEF IncidentsInv
<1>9. QED BY <1>7, <1>8

LEMMA IncidentAudited ==
    ASSUME AppTyped, IncidentsInv, NEW p \in pending, App!audit(p) PROVE AppTyped' /\ IncidentsInv'
<1>1. /\ pending' = pending \ {p} /\ UNCHANGED <<incident, alert, check, cleared, requests>>
      /\ \/ log' = [log EXCEPT ![p.row] = <<p.status>>] /\ UNCHANGED <<spoilt, faults>>
         \/ /\ faults < AppFaults /\ faults' = faults + 1
            /\ spoilt' = spoilt \cup {p.row} /\ UNCHANGED log
  BY DEF App!audit, App!Audited
<1>2. p.row \in AppRows /\ incident[p.row] # {} BY DEF IncidentsInv
<1>3. AppTyped' BY <1>1, AppAssumption DEF AppTyped
<1>4. spoilt \subseteq spoilt' BY <1>1
<1>5. OneAudit' BY <1>1, <1>4 DEF IncidentsInv, OneAudit
<1>6. App!CommanderKept' /\ App!ResolvedIsStamped'
  BY <1>1 DEF IncidentsInv, App!CommanderKept, App!ResolvedIsStamped
<1>7. App!AuditTells'
  <2>1. SUFFICES ASSUME NEW i \in AppRows, i \notin spoilt', log'[i] # <<>>,
                        \A q \in pending' : q.row # i, NEW r \in incident[i]
                 PROVE  log'[i] = <<r.status>>
    BY <1>1 DEF App!AuditTells
  <2>2. CASE i = p.row
    <3>1. log'[i] = <<p.status>> BY <1>1, <1>2, <2>1, <2>2 DEF AppTyped
    <3>2. p.status = r.status BY <1>4, <2>1, <2>2 DEF IncidentsInv, OneAudit
    <3>3. QED BY <3>1, <3>2
  <2>3. CASE i # p.row
    <3>1. log'[i] = log[i] BY <1>1, <1>2, <2>1, <2>3 DEF AppTyped
    <3>2. \A q \in pending : q.row # i BY <1>1, <2>1, <2>3
    <3>3. QED BY <1>4, <2>1, <3>1, <3>2 DEF IncidentsInv, App!AuditTells
  <2>4. QED BY <2>2, <2>3
<1>8. \A i \in AppRows : incident[i] = {} => log'[i] = <<>>
  BY <1>1, <1>2 DEF AppTyped, IncidentsInv
<1>9. QED BY <1>1, <1>3, <1>5, <1>6, <1>7, <1>8 DEF IncidentsInv

-----------------------------------------------------------------------------
LEMMA AlertsUntouched ==
    ASSUME JobsInv, AlertsInv, UNCHANGED <<alert, check, young, queued, linking, edited>>
    PROVE  JobsInv' /\ AlertsInv'
<1>1. JobsInv' BY DEF JobsInv, Jobs, App!Exists
<1>2. AlertsInv' BY DEF AlertsInv, App!LinkIsWhole, First, App!Exists
<1>3. QED BY <1>1, <1>2

LEMMA IncidentsUntouched ==
    ASSUME IncidentsInv, UNCHANGED <<incident, log, pending, spoilt, cleared>>
    PROVE  IncidentsInv'
BY DEF IncidentsInv, OneAudit, App!CommanderKept, App!ResolvedIsStamped, App!AuditTells

LEMMA AlertIngested ==
    ASSUME AppInv, NEW a \in Alerts, NEW in \in App!AlertInput, App!ingest_alert(a, in)
    PROVE  AppInv'
<1> DEFINE found == IF in.incident # {} THEN "linked"
                    ELSE IF App!Duplicates(in.fingerprint) # {} THEN "deduped" ELSE "received"
           there == {b \in Alerts : App!Exists(b)}
           c == [in |-> in, known |-> there, status |-> found]
<1>1. /\ ~App!Exists(a) /\ check[a] = {}
      /\ check' = [check EXCEPT ![a] = {c}]
      /\ requests < AppRequests /\ requests' = requests + 1
      /\ UNCHANGED <<incident, alert, young, queued, linking, log, pending, spoilt, cleared, edited, faults>>
  BY DEF App!ingest_alert, App!Free, App!Sent
<1>2. c \in CheckRec BY DEF CheckRec
<1>3. c.in = in /\ c.known = there /\ c.status = found OBVIOUS
<1>4. found = "received" => First(there, in.fingerprint)
  <2>1. SUFFICES ASSUME found = "received", NEW b \in there, b \in young \ edited, NEW r \in alert[b]
                 PROVE  r.fingerprint # in.fingerprint
    BY DEF First
  <2>2. App!Duplicates(in.fingerprint) = {} BY <2>1
  <2>3. r.status # "ignored" BY <2>1 DEF AppInv, AlertsInv
  <2>4. QED BY <2>1, <2>2, <2>3 DEF App!Duplicates
<1>5. found = "linked" <=> in.incident # {} OBVIOUS
<1> HIDE DEF c, found, there
<1>6. /\ check'[a] = {c} /\ \A b \in Alerts : b # a => check'[b] = check[b]
  BY <1>1 DEF AppInv, AppTyped
<1>7. AppTyped'
  <2>1. check' \in [Alerts -> SUBSET CheckRec] BY <1>1, <1>2 DEF AppInv, AppTyped
  <2>2. requests' \in 0 .. AppRequests BY <1>1, AppAssumption DEF AppInv, AppTyped
  <2>3. QED BY <1>1, <2>1, <2>2 DEF AppInv, AppTyped
<1>8. IncidentsInv' BY <1>1, IncidentsUntouched DEF AppInv
<1>9. JobsInv' BY <1>1 DEF AppInv, JobsInv, Jobs, App!Exists
<1>10. \A others, fp : First(others, fp)' <=> First(others, fp) BY <1>1 DEF First, App!Exists
<1>11. App!LinkIsWhole' /\ \A b \in Alerts : App!Exists(b)' <=> App!Exists(b)
  BY <1>1 DEF AppInv, AlertsInv, App!LinkIsWhole, App!Exists
<1>12. \A b \in Alerts : check'[b] # {} => ~App!Exists(b)'
  BY <1>1, <1>6, <1>11 DEF AppInv, AlertsInv
<1>13. \A b \in Alerts : \A d \in check'[b] :
          /\ d.status = "linked" <=> d.in.incident # {}
          /\ d.status = "received" => First(d.known, d.in.fingerprint)
  BY <1>3, <1>4, <1>5, <1>6 DEF AppInv, AlertsInv
<1>14. AlertsInv' BY <1>1, <1>10, <1>11, <1>12, <1>13 DEF AppInv, AlertsInv
<1>15. QED BY <1>7, <1>8, <1>9, <1>14 DEF AppInv

\* Inserting a row for an alert that did not exist.
LEMMA AlertInserted ==
    ASSUME AppInv, NEW a \in Alerts, NEW row \in AlertRec, ~App!Exists(a), App!Insert(a, row),
           row.status = "linked" <=> row.incident # {}, row.status # "ignored",
           \A others \in row.known : First(others, row.fingerprint),
           check' \in [Alerts -> SUBSET CheckRec], check'[a] = {},
           \A b \in Alerts : check'[b] \subseteq check[b],
           requests' \in 0 .. AppRequests
    PROVE  AppInv'
<1>1. /\ alert' = [alert EXCEPT ![a] = {row}] /\ young' = young \cup {a}
      /\ \/ queued' = [queued EXCEPT ![a] = 2] /\ UNCHANGED faults
         \/ /\ faults < AppFaults /\ faults' = faults + 1
            /\ queued' = [queued EXCEPT ![a] = 1]
      /\ UNCHANGED <<incident, linking, pending, log, spoilt, cleared, edited>>
  BY DEF App!Insert
<1>2. alert'[a] = {row} /\ \A b \in Alerts : b # a => alert'[b] = alert[b]
  BY <1>1 DEF AppInv, AppTyped
<1>3. AppTyped'
  <2>1. alert' \in [Alerts -> SUBSET AlertRec] BY <1>1 DEF AppInv, AppTyped
  <2>2. \A b \in Alerts : Option(alert'[b]) BY <1>2 DEF AppInv, AppTyped, Option
  <2>3. faults' \in 0 .. AppFaults BY <1>1, AppAssumption DEF AppInv, AppTyped
  <2>4. QED BY <1>1, <2>1, <2>2, <2>3 DEF AppInv, AppTyped
<1>4. IncidentsInv' BY <1>1, IncidentsUntouched DEF AppInv
<1>5. JobsInv'
  <2>1. DOMAIN queued' = Alerts /\ DOMAIN linking' = Alerts BY <1>1 DEF AppInv, JobsInv
  <2>2. queued'[a] \in {1, 2} /\ linking'[a] = linking[a] /\ \A i \in AppRows : linking[a][i] = 0
    BY <1>1 DEF AppInv, JobsInv, Jobs
  <2>3. linking[a] \in [AppRows -> Nat] BY DEF AppInv, JobsInv, Jobs
  <2>4. Jobs(a)' BY <1>2, <2>2, <2>3 DEF Jobs, App!Exists
  <2>5. ASSUME NEW b \in Alerts, b # a PROVE Jobs(b)'
    <3>1. queued'[b] = queued[b] /\ linking'[b] = linking[b] /\ alert'[b] = alert[b]
      BY <1>1, <1>2, <2>5 DEF AppInv, JobsInv
    <3>2. Jobs(b) BY DEF AppInv, JobsInv
    <3>3. QED BY <3>1, <3>2 DEF Jobs, App!Exists
  <2>6. QED BY <2>1, <2>4, <2>5 DEF JobsInv
<1>6. \A others \in SUBSET Alerts : \A fp : First(others, fp) => First(others, fp)'
  <2>1. SUFFICES ASSUME NEW others \in SUBSET Alerts, NEW fp, First(others, fp), NEW b \in others
                 PROVE  /\ alert'[b] # {}
                        /\ b \in young' \ edited' => \A r \in alert'[b] : r.fingerprint # fp
    BY DEF First, App!Exists
  <2>2. App!Exists(b) /\ (b \in young \ edited => \A r \in alert[b] : r.fingerprint # fp)
    BY <2>1 DEF First
  <2>3. b # a /\ alert'[b] = alert[b] BY <1>2, <2>1, <2>2
  <2>4. QED BY <1>1, <2>2, <2>3 DEF App!Exists
<1>7. AlertsInv'
  <2>1. App!LinkIsWhole' BY <1>1, <1>2 DEF AppInv, AlertsInv, App!LinkIsWhole
  <2>2. young' \subseteq Alerts BY <1>1 DEF AppInv, AlertsInv
  <2>3. \A b \in Alerts : check'[b] # {} => ~App!Exists(b)'
    BY <1>2 DEF AppInv, AlertsInv, App!Exists
  <2>4. \A b \in Alerts : \A c \in check'[b] :
           /\ c.status = "linked" <=> c.in.incident # {}
           /\ c.status = "received" => First(c.known, c.in.fingerprint)'
    <3>1. \A b \in Alerts : \A c \in check'[b] : c \in check[b] /\ c.known \in SUBSET Alerts
      BY DEF CheckRec
    <3>2. QED BY <1>6, <3>1 DEF AppInv, AlertsInv
  <2>5. \A b \in Alerts \ edited' : \A r \in alert'[b] : r.status # "ignored"
    BY <1>1, <1>2 DEF AppInv, AlertsInv
  <2>6. \A b \in Alerts : \A r \in alert'[b] : \A others \in r.known : First(others, r.fingerprint)'
    <3>1. \A b \in Alerts : \A r \in alert[b] : r.known \subseteq SUBSET Alerts
      BY DEF AppInv, AppTyped, AlertRec
    <3>2. row.known \subseteq SUBSET Alerts BY DEF AlertRec
    <3>3. QED BY <1>2, <1>6, <3>1, <3>2 DEF AppInv, AlertsInv
  <2>7. QED BY <2>1, <2>2, <2>3, <2>4, <2>5, <2>6 DEF AlertsInv
<1>8. QED BY <1>3, <1>4, <1>5, <1>7 DEF AppInv

LEMMA AlertCreated ==
    ASSUME AppInv, NEW a \in Alerts, App!create_alert(a) PROVE AppInv'
<1>1. PICK c \in check[a] : App!Insert(a, App!Row(c.in, c.status, {c.known})) BY DEF App!create_alert
<1>2. check' = [check EXCEPT ![a] = {}] /\ UNCHANGED requests BY DEF App!create_alert
<1>3. c \in CheckRec BY DEF AppInv, AppTyped
<1> DEFINE row == App!Row(c.in, c.status, {c.known})
<1>4. /\ row.incident = c.in.incident /\ row.fingerprint = c.in.fingerprint /\ row.status = c.status
      /\ row.known = IF c.status = "received" THEN {c.known} ELSE {}
      /\ row \in AlertRec
  <2>1. c.in.incident \subseteq AppRows BY <1>3 DEF CheckRec, App!AlertInput
  <2>2. QED BY <1>3, <2>1 DEF App!Row, AlertRec, CheckRec, App!AlertInput
<1> HIDE DEF row
<1>5. /\ c.status = "linked" <=> c.in.incident # {}
      /\ c.status = "received" => First(c.known, c.in.fingerprint)
      /\ ~App!Exists(a) /\ c.status # "ignored"
  BY <1>1, <1>3 DEF AppInv, AlertsInv, CheckRec
<1>6. \A others \in row.known : First(others, row.fingerprint) BY <1>4, <1>5
<1>7. /\ check' \in [Alerts -> SUBSET CheckRec] /\ check'[a] = {}
      /\ \A b \in Alerts : check'[b] \subseteq check[b]
      /\ requests' \in 0 .. AppRequests
  BY <1>2 DEF AppInv, AppTyped
<1>8. App!Insert(a, row) BY <1>1 DEF row
<1>9. QED BY <1>4, <1>5, <1>6, <1>7, <1>8, AlertInserted

LEMMA AlertCreatedByGraphQL ==
    ASSUME AppInv, NEW a \in Alerts, NEW in \in App!AlertInput, App!graphql_create_alert(a, in)
    PROVE  AppInv'
<1>1. /\ ~App!Exists(a) /\ check[a] = {} /\ in.incident = {}
      /\ requests < AppRequests /\ requests' = requests + 1
      /\ App!Insert(a, App!Row(in, "received", {})) /\ check' = check
  BY DEF App!graphql_create_alert, App!Free, App!Sent
<1> DEFINE new == [service |-> in.service, incident |-> in.incident, fingerprint |-> in.fingerprint,
                   status |-> "received", known |-> {}]
<1>2. App!Insert(a, new) BY <1>1 DEF App!Row
<1>3. /\ new \in AlertRec /\ new.status = "received" /\ new.incident = {} /\ new.known = {}
  BY <1>1 DEF AlertRec, App!AlertInput
<1> HIDE DEF new
<1>4. /\ check' \in [Alerts -> SUBSET CheckRec] /\ check'[a] = {}
      /\ \A b \in Alerts : check'[b] \subseteq check[b]
      /\ requests' \in 0 .. AppRequests
  BY <1>1, AppAssumption DEF AppInv, AppTyped
<1>5. QED BY <1>1, <1>2, <1>3, <1>4, AlertInserted

\* A row of an alert is written over, in what its creation did not fix.
LEMMA AlertRewritten ==
    ASSUME AppTyped, AlertsInv, NEW a \in Alerts, NEW r \in AlertRec, NEW u \in AlertRec,
           alert[a] = {r}, alert' = [alert EXCEPT ![a] = {u}],
           u.fingerprint = r.fingerprint, u.known = r.known,
           UNCHANGED <<check, young>>, edited' = edited \/ edited' = edited \cup {a},
           a \notin edited' => /\ u.status = "linked" <=> u.incident # {}
                               /\ u.status # "ignored"
    PROVE  /\ alert' \in [Alerts -> SUBSET AlertRec] /\ \A b \in Alerts : Option(alert'[b])
           /\ \A b \in Alerts : App!Exists(b)' <=> App!Exists(b)
           /\ AlertsInv'
<1>1. alert'[a] = {u} /\ \A b \in Alerts : b # a => alert'[b] = alert[b] BY DEF AppTyped
<1>2. alert' \in [Alerts -> SUBSET AlertRec] BY DEF AppTyped
<1>3. \A b \in Alerts : Option(alert'[b]) BY <1>1 DEF AppTyped, Option
<1>4. \A b \in Alerts : App!Exists(b)' <=> App!Exists(b) BY <1>1 DEF App!Exists
<1>5. \A others \in SUBSET Alerts : \A fp : First(others, fp) => First(others, fp)'
  <2>1. SUFFICES ASSUME NEW others \in SUBSET Alerts, NEW fp, First(others, fp), NEW b \in others
                 PROVE  /\ App!Exists(b)'
                        /\ b \in young' \ edited' => \A q \in alert'[b] : q.fingerprint # fp
    BY DEF First
  <2>2. App!Exists(b) /\ (b \in young \ edited => \A q \in alert[b] : q.fingerprint # fp)
    BY <2>1 DEF First
  <2>3. CASE b = a BY <1>1, <1>4, <2>1, <2>2, <2>3
  <2>4. CASE b # a BY <1>1, <1>4, <2>1, <2>2, <2>4
  <2>5. QED BY <2>3, <2>4
<1>6. AlertsInv'
  <2>1. App!LinkIsWhole' BY <1>1 DEF AlertsInv, App!LinkIsWhole
  <2>2. \A b \in Alerts : check'[b] # {} => ~App!Exists(b)' BY <1>4 DEF AlertsInv
  <2>3. \A b \in Alerts : \A c \in check'[b] :
           /\ c.status = "linked" <=> c.in.incident # {}
           /\ c.status = "received" => First(c.known, c.in.fingerprint)'
    <3>1. \A b \in Alerts : \A c \in check[b] : c.known \in SUBSET Alerts
      BY DEF AppTyped, CheckRec
    <3>2. QED BY <1>5, <3>1 DEF AlertsInv
  <2>4. \A b \in Alerts \ edited' : \A q \in alert'[b] : q.status # "ignored"
    BY <1>1 DEF AlertsInv
  <2>5. \A b \in Alerts : \A q \in alert'[b] : \A others \in q.known : First(others, q.fingerprint)'
    <3>1. \A b \in Alerts : \A q \in alert[b] : q.known \subseteq SUBSET Alerts
      BY DEF AppTyped, AlertRec
    <3>2. \A b \in Alerts : \A q \in alert[b] : \A others \in q.known : First(others, q.fingerprint)'
      BY <1>5, <3>1 DEF AlertsInv
    <3>3. QED BY <1>1, <3>2
  <2>6. QED BY <2>1, <2>2, <2>3, <2>4, <2>5 DEF AlertsInv
<1>7. QED BY <1>2, <1>3, <1>4, <1>6

LEMMA AlertUpdated ==
    ASSUME AppInv, NEW a \in Alerts, NEW in \in App!AlertChange, App!update_alert(a, in)
    PROVE  AppInv'
<1>1. PICK r \in alert[a] : TRUE BY DEF App!update_alert, App!Exists
<1>2. r \in AlertRec /\ alert[a] = {r} BY <1>1 DEF AppInv, AppTyped, Option
<1> DEFINE u == [r EXCEPT !.status = IF in.status = <<>> THEN @ ELSE in.status[1],
                          !.incident = IF in.incident = <<>> THEN @ ELSE in.incident[1]]
<1>3. alert' = [alert EXCEPT ![a] = {u}] BY <1>2 DEF App!update_alert
<1>4. /\ edited' = edited \cup {a} /\ requests < AppRequests /\ requests' = requests + 1
      /\ UNCHANGED <<incident, check, young, queued, linking, pending, log, spoilt, cleared, faults>>
  BY DEF App!update_alert, App!Sent
<1>5. u \in AlertRec /\ u.fingerprint = r.fingerprint /\ u.known = r.known
  <2>1. in.status = <<>> \/ in.status[1] \in {"linked", "ignored"} BY DEF App!AlertChange
  <2>2. in.incident = <<>> \/ in.incident[1] \subseteq AppRows BY DEF App!AlertChange
  <2>3. QED BY <1>2, <2>1, <2>2 DEF AlertRec
<1> HIDE DEF u
<1>6. /\ alert' \in [Alerts -> SUBSET AlertRec] /\ \A b \in Alerts : Option(alert'[b])
      /\ \A b \in Alerts : App!Exists(b)' <=> App!Exists(b)
      /\ AlertsInv'
  BY <1>2, <1>3, <1>4, <1>5, AlertRewritten DEF AppInv
<1>7. AppTyped' BY <1>4, <1>6, AppAssumption DEF AppInv, AppTyped
<1>8. IncidentsInv' BY <1>4, IncidentsUntouched DEF AppInv
<1>9. JobsInv' BY <1>4, <1>6 DEF AppInv, JobsInv, Jobs
<1>10. QED BY <1>6, <1>7, <1>8, <1>9 DEF AppInv

LEMMA AlertAged == ASSUME AppInv, NEW a \in Alerts, App!Ages(a) PROVE AppInv'
<1>1. /\ young' = young \ {a}
      /\ UNCHANGED <<incident, alert, check, queued, linking, pending, log, spoilt, cleared,
                     edited, requests, faults>>
  BY DEF App!Ages
<1>2. AppTyped' BY <1>1 DEF AppInv, AppTyped
<1>3. IncidentsInv' BY <1>1, IncidentsUntouched DEF AppInv
<1>4. JobsInv' BY <1>1 DEF AppInv, JobsInv, Jobs, App!Exists
<1>5. \A others, fp : First(others, fp) => First(others, fp)' BY <1>1 DEF First, App!Exists
<1>6. AlertsInv' BY <1>1, <1>5 DEF AppInv, AlertsInv, App!LinkIsWhole, App!Exists
<1>7. QED BY <1>2, <1>3, <1>4, <1>6 DEF AppInv

-----------------------------------------------------------------------------
LEMMA NewestIsOne == ASSUME NEW S, S \subseteq AppRows PROVE Option(App!Newest(S))
BY AppAssumption DEF App!Newest, Option

LEMMA LinkSelected == ASSUME AppInv, NEW a \in Alerts, App!LinkSelects(a) PROVE AppInv'
<1>1. PICK found : found \subseteq AppRows /\ Option(found)
             /\ linking' = [linking EXCEPT ![a] = [i \in AppRows |-> @[i] + (IF i \in found THEN 1 ELSE 0)]]
  <2>1. PICK r \in alert[a] :
           linking' = [linking EXCEPT ![a] = [i \in AppRows |->
              @[i] + (IF i \in App!Newest(App!Candidates(r.service)) THEN 1 ELSE 0)]]
    BY DEF App!LinkSelects
  <2>2. App!Newest(App!Candidates(r.service)) \subseteq AppRows BY DEF App!Newest, App!Candidates
  <2>3. App!Candidates(r.service) \subseteq AppRows BY DEF App!Candidates
  <2>4. QED BY <2>1, <2>2, <2>3, NewestIsOne
<1>2. /\ queued[a] > 0 /\ queued' = [queued EXCEPT ![a] = @ - 1] /\ App!Exists(a)
      /\ UNCHANGED <<incident, alert, check, young, pending, log, spoilt, cleared, edited, requests, faults>>
  BY DEF App!LinkSelects, App!Exists
<1>3. AppTyped' BY <1>2 DEF AppInv, AppTyped
<1>4. IncidentsInv' BY <1>2, IncidentsUntouched DEF AppInv
<1>5. App!Exists(a)' BY <1>2 DEF App!Exists
<1>6. Jobs(a)'
  <2>1. Jobs(a) /\ DOMAIN linking = Alerts /\ DOMAIN queued = Alerts BY DEF AppInv, JobsInv
  <2>2. linking'[a] = [i \in AppRows |-> linking[a][i] + (IF i \in found THEN 1 ELSE 0)]
    BY <1>1, <2>1
  <2>3. queued'[a] = queued[a] - 1 BY <1>2, <2>1
  <2>4. \A i \in AppRows : /\ linking[a][i] \in Nat /\ linking'[a][i] \in Nat
                           /\ i \in found => linking'[a][i] = linking[a][i] + 1
                           /\ i \notin found => linking'[a][i] = linking[a][i]
    BY <2>1, <2>2 DEF Jobs
  <2>5. queued'[a] \in Nat /\ queued'[a] <= 2 /\ linking'[a] \in [AppRows -> Nat]
    BY <1>2, <2>1, <2>2, <2>3, <2>4 DEF Jobs
  <2>6. \A i \in AppRows : queued'[a] + linking'[a][i] <= 2
    BY <1>2, <2>1, <2>3, <2>4 DEF Jobs
  <2>7. ASSUME NEW i \in AppRows, NEW j \in AppRows, i # j
        PROVE  queued'[a] + linking'[a][i] + linking'[a][j] <= 2
    <3>1. queued[a] + linking[a][i] + linking[a][j] <= 2 BY <2>1, <2>7 DEF Jobs
    <3>2. i \notin found \/ j \notin found BY <1>1, <2>7 DEF Option
    <3>3. queued[a] \in Nat BY <2>1 DEF Jobs
    <3>4. QED BY <2>3, <2>4, <3>1, <3>2, <3>3
  <2>8. ASSUME NEW i \in AppRows, NEW j \in AppRows, NEW k \in AppRows, i # j, j # k, i # k
        PROVE  linking'[a][i] + linking'[a][j] + linking'[a][k] <= 2
    <3>1. /\ queued[a] + linking[a][i] + linking[a][j] <= 2
          /\ queued[a] + linking[a][j] + linking[a][k] <= 2
          /\ queued[a] + linking[a][i] + linking[a][k] <= 2
          /\ queued[a] \in Nat /\ queued[a] > 0
      BY <1>2, <2>1, <2>8 DEF Jobs
    <3>2. /\ i \notin found \/ j \notin found
          /\ j \notin found \/ k \notin found
          /\ i \notin found \/ k \notin found
      BY <1>1, <2>8 DEF Option
    <3>3. linking[a][i] + linking[a][j] + linking[a][k] <= 1 BY <2>4, <3>1
    <3>4. QED BY <2>4, <3>2, <3>3
  <2>9. QED BY <1>5, <2>5, <2>6, <2>7, <2>8 DEF Jobs
<1>7. ASSUME NEW b \in Alerts, b # a PROVE Jobs(b)'
  <2>1. queued'[b] = queued[b] /\ linking'[b] = linking[b] BY <1>1, <1>2, <1>7 DEF AppInv, JobsInv
  <2>2. Jobs(b) BY DEF AppInv, JobsInv
  <2>3. QED BY <1>2, <2>1, <2>2 DEF Jobs, App!Exists
<1>8. JobsInv' BY <1>1, <1>2, <1>6, <1>7 DEF AppInv, JobsInv
<1>9. AlertsInv' BY <1>2 DEF AppInv, AlertsInv, App!LinkIsWhole, First, App!Exists
<1>10. QED BY <1>3, <1>4, <1>8, <1>9 DEF AppInv

\* A job leaves an incident it has found: it is done, or it waits again.
LEMMA JobLeaves ==
    ASSUME JobsInv, NEW a \in Alerts, NEW i \in AppRows, linking[a][i] > 0,
           linking' = [linking EXCEPT ![a][i] = @ - 1],
           \/ queued' = queued
           \/ queued' = [queued EXCEPT ![a] = @ + 1],
           \A b \in Alerts : App!Exists(b)' <=> App!Exists(b)
    PROVE  JobsInv'
<1>1. Jobs(a) /\ DOMAIN linking = Alerts /\ DOMAIN queued = Alerts BY DEF JobsInv
<1>2. /\ linking'[a] = [linking[a] EXCEPT ![i] = linking[a][i] - 1]
      /\ queued'[a] = queued[a] \/ queued'[a] = queued[a] + 1
  BY <1>1
<1>3. /\ queued[a] \in Nat
      /\ \A j \in AppRows : linking[a][j] \in Nat /\ (j # i => linking'[a][j] = linking[a][j])
      /\ linking'[a][i] = linking[a][i] - 1
      /\ linking'[a] \in [AppRows -> Nat]
  BY <1>1, <1>2 DEF Jobs
<1>4. App!Exists(a) /\ App!Exists(a)' BY <1>1 DEF Jobs
<1>5. \A j \in AppRows : j # i => queued[a] + linking[a][i] + linking[a][j] <= 2 BY <1>1 DEF Jobs
<1>6. queued[a] + linking[a][i] <= 2 BY <1>1 DEF Jobs
<1>7. queued'[a] \in Nat /\ queued'[a] <= 2 BY <1>2, <1>3, <1>6
<1>8. ASSUME NEW j \in AppRows PROVE queued'[a] + linking'[a][j] <= 2
  <2>1. CASE j = i BY <1>2, <1>3, <1>6, <2>1
  <2>2. CASE j # i BY <1>2, <1>3, <1>5, <2>2
  <2>3. QED BY <2>1, <2>2
<1>9. ASSUME NEW j \in AppRows, NEW k \in AppRows, j # k
      PROVE  queued'[a] + linking'[a][j] + linking'[a][k] <= 2
  <2>1. queued[a] + linking[a][j] + linking[a][k] <= 2 BY <1>1, <1>9 DEF Jobs
  <2>2. CASE j = i BY <1>2, <1>3, <1>9, <2>1, <2>2
  <2>3. CASE k = i BY <1>2, <1>3, <1>9, <2>1, <2>3
  <2>4. CASE j # i /\ k # i
    <3>1. /\ queued[a] + linking[a][i] + linking[a][j] <= 2
          /\ queued[a] + linking[a][i] + linking[a][k] <= 2
          /\ linking[a][i] + linking[a][j] + linking[a][k] <= 2
      BY <1>1, <1>9, <2>4 DEF Jobs
    <3>2. queued[a] + linking[a][j] + linking[a][k] <= 1 BY <1>3, <2>1, <3>1
    <3>3. QED BY <1>2, <1>3, <2>4, <3>2
  <2>5. QED BY <2>2, <2>3, <2>4
<1>10. ASSUME NEW j \in AppRows, NEW k \in AppRows, NEW l \in AppRows, j # k, k # l, j # l
       PROVE  linking'[a][j] + linking'[a][k] + linking'[a][l] <= 2
  <2>1. linking[a][j] + linking[a][k] + linking[a][l] <= 2 BY <1>1, <1>10 DEF Jobs
  <2>2. \A m \in AppRows : linking'[a][m] \in Nat /\ linking'[a][m] <= linking[a][m] BY <1>3
  <2>3. QED BY <1>3, <2>1, <2>2
<1>11. Jobs(a)' BY <1>3, <1>4, <1>7, <1>8, <1>9, <1>10 DEF Jobs
<1>12. ASSUME NEW b \in Alerts, b # a PROVE Jobs(b)'
  <2>1. queued'[b] = queued[b] /\ linking'[b] = linking[b] BY <1>1, <1>12
  <2>2. Jobs(b) BY DEF JobsInv
  <2>3. QED BY <2>1, <2>2 DEF Jobs
<1>13. QED BY <1>1, <1>11, <1>12 DEF JobsInv

LEMMA LinkUpdated ==
    ASSUME AppInv, NEW a \in Alerts, NEW i \in AppRows, App!LinkUpdates(a, i) PROVE AppInv'
<1>1. /\ linking[a][i] > 0 /\ linking' = [linking EXCEPT ![a][i] = @ - 1]
      /\ alert' = [alert EXCEPT ![a] = {App!Linked(r, {i}) : r \in @}]
      /\ UNCHANGED <<incident, check, young, queued, pending, log, spoilt, cleared, edited, requests, faults>>
  BY DEF App!LinkUpdates
<1>2. App!Exists(a)
  <2>1. linking[a] \in [AppRows -> Nat] /\ (~App!Exists(a) => linking[a][i] = 0)
    BY DEF AppInv, JobsInv, Jobs
  <2>2. QED BY <1>1, <2>1
<1>3. PICK r \in alert[a] : TRUE BY <1>2 DEF App!Exists
<1>4. r \in AlertRec /\ alert[a] = {r} BY <1>3 DEF AppInv, AppTyped, Option
<1> DEFINE u == App!Linked(r, {i})
<1>5. alert' = [alert EXCEPT ![a] = {u}] BY <1>1, <1>4
<1>6. /\ u \in AlertRec /\ u.fingerprint = r.fingerprint /\ u.known = r.known
      /\ u.status = "linked" /\ u.incident = {i}
  BY <1>4 DEF App!Linked, AlertRec
<1> HIDE DEF u
<1>7. /\ alert' \in [Alerts -> SUBSET AlertRec] /\ \A b \in Alerts : Option(alert'[b])
      /\ \A b \in Alerts : App!Exists(b)' <=> App!Exists(b)
      /\ AlertsInv'
  BY <1>1, <1>4, <1>5, <1>6, AlertRewritten DEF AppInv
<1>8. AppTyped' BY <1>1, <1>7 DEF AppInv, AppTyped
<1>9. IncidentsInv' BY <1>1, IncidentsUntouched DEF AppInv
<1>10. JobsInv' BY <1>1, <1>7, JobLeaves DEF AppInv
<1>11. QED BY <1>7, <1>8, <1>9, <1>10 DEF AppInv

LEMMA LinkFailed ==
    ASSUME AppInv, NEW a \in Alerts, NEW i \in AppRows, App!LinkFails(a, i) PROVE AppInv'
<1>1. /\ linking[a][i] > 0 /\ linking' = [linking EXCEPT ![a][i] = @ - 1]
      /\ queued' = [queued EXCEPT ![a] = @ + 1]
      /\ faults < AppFaults /\ faults' = faults + 1
      /\ UNCHANGED <<incident, alert, check, young, pending, log, spoilt, cleared, edited, requests>>
  BY DEF App!LinkFails
<1>2. AppTyped' BY <1>1, AppAssumption DEF AppInv, AppTyped
<1>3. IncidentsInv' BY <1>1, IncidentsUntouched DEF AppInv
<1>4. \A b \in Alerts : App!Exists(b)' <=> App!Exists(b) BY <1>1 DEF App!Exists
<1>5. JobsInv' BY <1>1, <1>4, JobLeaves DEF AppInv
<1>6. AlertsInv' BY <1>1 DEF AppInv, AlertsInv, App!LinkIsWhole, First, App!Exists
<1>7. QED BY <1>2, <1>3, <1>5, <1>6 DEF AppInv

-----------------------------------------------------------------------------
LEMMA AppKept == ASSUME AppInv, [App!Next]_(App!vars) PROVE AppInv'
<1>1. CASE UNCHANGED App!vars
  <2>1. AppTyped' BY <1>1 DEF AppInv, AppTyped, App!vars
  <2>2. QED BY <1>1, <2>1, IncidentsUntouched, AlertsUntouched DEF AppInv, App!vars
<1>2. ASSUME NEW s \in AppServices, App!delete_service(s) PROVE AppInv'
  <2>1. /\ requests < AppRequests /\ requests' = requests + 1
        /\ UNCHANGED <<incident, alert, check, young, queued, linking, pending, log, spoilt,
                       cleared, edited, faults>>
    BY <1>2 DEF App!delete_service, App!Sent
  <2>2. AppTyped' BY <2>1, AppAssumption DEF AppInv, AppTyped
  <2>3. QED BY <2>1, <2>2, IncidentsUntouched, AlertsUntouched DEF AppInv
<1>3. ASSUME NEW s \in AppServices, NEW in \in App!ServiceInput, App!create_service(s, in) PROVE AppInv'
  <2>1. UNCHANGED <<incident, alert, check, young, queued, linking, pending, log, spoilt,
                    cleared, edited, requests, faults>>
    BY <1>3 DEF App!create_service
  <2>2. AppTyped' BY <2>1 DEF AppInv, AppTyped
  <2>3. QED BY <2>1, <2>2, IncidentsUntouched, AlertsUntouched DEF AppInv
<1>4. ASSUME NEW i \in AppRows, NEW in \in App!IncidentInput, App!create_incident(i, in) PROVE AppInv'
  <2>1. UNCHANGED <<alert, check, young, queued, linking, edited>> BY <1>4 DEF App!create_incident
  <2>2. AppTyped' /\ IncidentsInv' BY <1>4, IncidentCreated DEF AppInv
  <2>3. QED BY <2>1, <2>2, AlertsUntouched DEF AppInv
<1>5. ASSUME NEW i \in AppRows, NEW in \in App!IncidentChange, App!update_incident(i, in) PROVE AppInv'
  <2>1. UNCHANGED <<alert, check, young, queued, linking, edited>> BY <1>5 DEF App!update_incident
  <2>2. AppTyped' /\ IncidentsInv' BY <1>5, IncidentUpdated DEF AppInv
  <2>3. QED BY <2>1, <2>2, AlertsUntouched DEF AppInv
<1>6. ASSUME NEW i \in AppRows, App!delete_incident(i) PROVE AppInv'
  <2>1. UNCHANGED <<alert, check, young, queued, linking, edited>> BY <1>6 DEF App!delete_incident
  <2>2. AppTyped' /\ IncidentsInv' BY <1>6, IncidentDeleted DEF AppInv
  <2>3. QED BY <2>1, <2>2, AlertsUntouched DEF AppInv
<1>7. ASSUME NEW p \in pending, App!audit(p) PROVE AppInv'
  <2>1. UNCHANGED <<alert, check, young, queued, linking, edited>> BY <1>7 DEF App!audit
  <2>2. AppTyped' /\ IncidentsInv' BY <1>7, IncidentAudited DEF AppInv
  <2>3. QED BY <2>1, <2>2, AlertsUntouched DEF AppInv
<1>8. QED
  BY <1>1, <1>2, <1>3, <1>4, <1>5, <1>6, <1>7, AlertIngested, AlertCreatedByGraphQL, AlertUpdated,
     AlertCreated, AlertAged, LinkSelected, LinkUpdated, LinkFailed
  DEF App!Next, App!LinkStep

LEMMA AppFacts ==
    ASSUME AppInv
    PROVE  App!TypeOK /\ App!LinkIsWhole /\ App!OneFirstAlert /\ App!CommanderKept /\ App!ResolvedIsStamped /\ App!AuditTells
<1>1. \A S : Option(S) => Cardinality(S) <= 1
  <2>1. SUFFICES ASSUME NEW S, Option(S) PROVE Cardinality(S) <= 1 OBVIOUS
  <2>2. CASE S = {} BY <2>2, FS_EmptySet
  <2>3. CASE S # {}
    <3>1. PICK x : S = {x} BY <2>1, <2>3 DEF Option
    <3>2. QED BY <3>1, FS_Singleton
  <2>4. QED BY <2>2, <2>3
<1>2. App!TypeOK
  <2>1. \A a \in Alerts : queued[a] \in 0 .. 2 /\ \A i \in AppRows : linking[a][i] \in 0 .. 2
    <3>1. SUFFICES ASSUME NEW a \in Alerts
                   PROVE  queued[a] \in 0 .. 2 /\ \A i \in AppRows : linking[a][i] \in 0 .. 2
      OBVIOUS
    <3>2. Jobs(a) BY DEF AppInv, JobsInv
    <3>3. queued[a] \in 0 .. 2 BY <3>2 DEF Jobs
    <3>4. ASSUME NEW i \in AppRows PROVE linking[a][i] \in 0 .. 2
      <4>1. /\ queued[a] \in Nat /\ linking[a] \in [AppRows -> Nat]
            /\ queued[a] + linking[a][i] <= 2
        BY <3>2 DEF Jobs
      <4>2. linking[a][i] \in Nat BY <4>1
      <4>3. QED BY <4>1, <4>2
    <3>5. QED BY <3>3, <3>4
  <2>2. \A i \in AppRows : Cardinality(incident[i]) <= 1 /\ \A r \in incident[i] : r.status \in App!Statuses
    BY <1>1 DEF AppInv, AppTyped, IncidentRec
  <2>3. \A a \in Alerts : /\ Cardinality(alert[a]) <= 1
                          /\ \A r \in alert[a] : r.status \in {"received", "deduped", "linked", "ignored"}
    BY <1>1 DEF AppInv, AppTyped, AlertRec
  <2>4. QED BY <2>1, <2>2, <2>3, AppCardinality DEF AppInv, AppTyped, App!TypeOK
<1>3. App!OneFirstAlert BY DEF AppInv, AlertsInv, App!OneFirstAlert, First
<1>4. QED BY <1>2, <1>3 DEF AppInv, IncidentsInv, AlertsInv

-----------------------------------------------------------------------------
(* The parts together.                                                      *)

RequestsInv ==
    /\ part = "limits" => LimitsInv
    /\ part = "tokens" => TokensInv
    /\ part = "hooks" => HooksInv
    /\ part = "files" => FilesInv
    /\ part = "app" => AppInv

LEMMA RequestsStart == ASSUME RequestsInit PROVE RequestsInv
BY LimitsStart, TokensStart, HooksStart, FilesStart, AppStarts DEF RequestsInit, RequestsInv

\* Each part steps by itself.
LEMMA RequestsKept == ASSUME RequestsInv, [RequestsNext]_all PROVE RequestsInv'
<1> USE DEF RequestsInv
<1>1. CASE LimitsNext BY <1>1, LimitsKept DEF LimitsNext
<1>2. CASE TokensNext BY <1>2, TokensKept DEF TokensNext
<1>3. CASE HooksNext BY <1>3, HooksKept DEF HooksNext
<1>4. CASE FilesNext BY <1>4, FilesKept DEF FilesNext
<1>5. CASE AppNext BY <1>5, AppKept DEF AppNext
<1>6. CASE UNCHANGED all
  <2>1. /\ UNCHANGED part /\ UNCHANGED Limits!vars /\ UNCHANGED Tokens!vars
        /\ UNCHANGED Hooks!vars /\ UNCHANGED Files!vars /\ UNCHANGED App!vars
    BY <1>6 DEF all, LimitsVars, TokensVars, HooksVars, FilesVars, AppVars, Limits!vars,
       Tokens!vars, Hooks!vars, Files!vars, App!vars
  <2>2. QED BY <2>1, LimitsKept, TokensKept, HooksKept, FilesKept, AppKept
<1>7. QED BY <1>1, <1>2, <1>3, <1>4, <1>5, <1>6 DEF RequestsNext

\* The invariants of the parts hold in every behaviour of the composition.
THEOREM RequestsInvariant == RequestsSpec => []RequestsInv
<1>1. RequestsInit => RequestsInv BY RequestsStart
<1>2. RequestsInv /\ [RequestsNext]_all => RequestsInv' BY RequestsKept
<1>3. QED BY <1>1, <1>2, PTL DEF RequestsSpec

\* RateLimiter::check admits no caller more often than max_requests in a window
\* shortened by the longest wait for a connection, and refuses one only for its
\* own calls within the window.
THEOREM WindowsKept == RequestsSpec => []WindowKept
<1>1. RequestsInv => WindowKept BY LimitsFacts DEF RequestsInv, WindowKept
<1>2. QED BY <1>1, RequestsInvariant, PTL

\* rbac::enforce and needs_owner_check admit whom the rule names and nobody else,
\* the tenant filters agree, and no bearer token outlives its time and leeway.
THEOREM AccessAlwaysAgrees == RequestsSpec => []AccessAgrees
<1>1. RequestsInv => AccessAgrees BY TokensFacts DEF RequestsInv, AccessAgrees
<1>2. QED BY <1>1, RequestsInvariant, PTL

\* A row is written after every before-hook has run and none failed, and
\* run_write_side_effects follows the requests that succeed and no other.
THEOREM HooksAlwaysInTurn == RequestsSpec => []HooksAndEffectsInTurn
<1>1. RequestsInv => HooksAndEffectsInTurn BY HooksFacts DEF RequestsInv, HooksAndEffectsInTurn
<1>2. QED BY <1>1, RequestsInvariant, PTL

\* Whatever uploads, deletions, restarts and clean-up tasks overlap, no row names
\* a file the backend does not have, and every orphan has a known reason.
THEOREM FilesAlwaysMatchRows == RequestsSpec => []FilesMatchRows
<1>1. RequestsInv => FilesMatchRows BY FilesFacts DEF RequestsInv, FilesMatchRows
<1>2. QED BY <1>1, RequestsInvariant, PTL

\* Link jobs, ingest_alert, open_incident, enforce_incident_update and the audit,
\* in any order and number: alerts and incidents say what happened to them.
THEOREM IncidentsAlwaysAgree == RequestsSpec => []IncidentsAgree
<1>1. RequestsInv => IncidentsAgree BY AppFacts DEF RequestsInv, IncidentsAgree
<1>2. QED BY <1>1, RequestsInvariant, PTL
=============================================================================
