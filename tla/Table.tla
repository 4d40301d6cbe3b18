------------------------------- MODULE Table --------------------------------
(***************************************************************************)
(* What clients may rely on from a resource's store, whatever the engine:  *)
(* a row appears once, under an id that was never used before, can change  *)
(* while it is there, and once deleted is gone for good.  Stores           *)
(* implements it.                                                          *)
(***************************************************************************)
CONSTANTS Ids, Values

VARIABLE visible   \* visible[id]: what the row is, with its value if there

Free == <<"free">>
Gone == <<"gone">>
There(id) == visible[id] \notin {Free, Gone}

Insert(id, v) == visible[id] = Free /\ visible' = [visible EXCEPT ![id] = <<"there", v>>]

Update(id, v) == There(id) /\ visible' = [visible EXCEPT ![id] = <<"there", v>>]

Delete(id) == There(id) /\ visible' = [visible EXCEPT ![id] = Gone]

Init == visible \in [Ids -> {<<"there", v>> : v \in Values} \union {Free}]

Next == \E id \in Ids : Delete(id) \/ \E v \in Values : Insert(id, v) \/ Update(id, v)

Spec == Init /\ [][Next]_visible
=============================================================================
