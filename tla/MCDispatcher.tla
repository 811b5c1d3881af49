---------------------------- MODULE MCDispatcher ----------------------------
(* The instance of Dispatcher TLC checks: one event that can be routed to  *)
(* a configured channel and to one the dispatcher does not know.           *)
EXTENDS Dispatcher

MCEvents ==
  {[event_id |-> "a", fingerprint |-> "disk", state |-> "firing", severity |-> "critical",
    origin |-> "host", occurred_at |-> "1", facts |-> "facts"],
   [event_id |-> "b", fingerprint |-> "disk", state |-> "resolved", severity |-> "critical",
    origin |-> "host", occurred_at |-> "2", facts |-> "facts"]}
=============================================================================
