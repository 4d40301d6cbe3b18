------------------------------ MODULE MCEvents ------------------------------
(* The subscribers of the incident platform, one write and one inbound      *)
(* webhook.                                                                 *)
EXTENDS Events, TLC

CONSTANTS write, triggered

event(name) == [kind |-> "event", name |-> name]

MCCalls ==
    write :> <<event(<<"incident", "opened">>), [kind |-> "job", name |-> "notify_on_call"]>>
    @@ triggered :> <<event(<<"inbound", "incident", "triggered">>)>>

MCSubscribers ==
    <<[event |-> <<"incident", "*">>, target |-> [type |-> "webhook"]],
      [event |-> <<"*", "opened">>, target |-> [type |-> "channel"]],
      [event |-> <<"alert", "received">>, target |-> [type |-> "hook"]],
      [event |-> <<"inbound", "incident", "triggered">>,
       target |-> [type |-> "job", name |-> "open_incident_from_webhook"]]>>
=============================================================================
