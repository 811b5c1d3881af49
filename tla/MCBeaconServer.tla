--------------------------- MODULE MCBeaconServer ---------------------------
(***************************************************************************)
(* The instances of BeaconServer that TLC checks: a firing and a resolve   *)
(* of one alert, each with one message to send.                            *)
(***************************************************************************)
EXTENDS BeaconServer

Ev(id, state) ==
  [event_id |-> id, fingerprint |-> "disk", state |-> state, severity |-> "warning",
   origin |-> "host", occurred_at |-> id, facts |-> "facts"]

fire == Ev("a", "firing")
clear == Ev("b", "resolved")
MCEvents == {fire, clear}
MCRoutes == [e \in Events |-> <<"chat">>]
=============================================================================
