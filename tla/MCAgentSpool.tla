---------------------------- MODULE MCAgentSpool ----------------------------
(* The instance of AgentSpool TLC checks.  Only identities matter to the   *)
(* agent, so that an event is its id.                                      *)
EXTENDS AgentSpool

CONSTANT Sent   \* how many events are sent

MCEvents == {[event_id |-> n] : n \in 1..Sent}
MCName == [e \in Events |-> e.event_id]
=============================================================================
