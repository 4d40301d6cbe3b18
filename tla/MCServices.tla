----------------------------- MODULE MCServices ------------------------------
(* The processes of Services in a small system.                             *)
EXTENDS Services

MCSetups == [app : {"scaffold", "incident"},
             has : SUBSET {"cache", "jobs", "channels", "sagas", "grpc"}]

(* Three services with dependencies of every shape, cycles, unknown names   *)
(* and a shared port included.                                              *)
MCNames == <<"a", "b", "c">>
Members == {"a", "b", "c"}
DepLists == {<<>>, <<"a">>, <<"b">>, <<"c">>, <<"a", "b">>, <<"b", "c">>, <<"c", "a">>, <<"x">>}
Ports == {[s \in Members |-> CASE s = "a" -> 1 [] s = "b" -> 2 [] s = "c" -> 3],
          [s \in Members |-> IF s = "a" THEN 1 ELSE 2]}
MCConfigs == [deps : [Members -> DepLists], port : Ports]

call(n) == [name |-> n, action |-> "call", compensate |-> "call"]
MCSagas == {<<call("s")>>, <<call("s"), call("s")>>}
=============================================================================
