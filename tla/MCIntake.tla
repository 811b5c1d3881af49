------------------------------ MODULE MCIntake ------------------------------
(***************************************************************************)
(* The instances of Intake that TLC checks.  Racing: two requests at a     *)
(* time and few events, one of which reuses the id of another.  Long: one  *)
(* request at a time and enough events for an alert to fire, repeat, be    *)
(* commented on, resolve and fire again in every order.                    *)
(***************************************************************************)
EXTENDS Intake, TLC

CONSTANTS t1, t2

Ev(id, f, state, severity, at) ==
  [event_id |-> id, fingerprint |-> f, state |-> state, severity |-> severity,
   origin |-> "host", occurred_at |-> at, facts |-> "facts"]

fire == Ev("a", "disk", "firing", "warning", 1)
worse == Ev("b", "disk", "firing", "critical", 2)
clear == Ev("c", "disk", "resolved", "warning", 3)
note == Ev("d", "disk", "info", "info", 4)
again == Ev("e", "disk", "firing", "warning", 5)
clash == Ev("a", "host", "resolved", "critical", 6)
broken == Ev("f", "disk", "firing", "warning", 7)

RacingEvents == {fire, worse, clear, clash, broken}
LongEvents == {fire, worse, clear, note, again, clash}
MCValidEvents == Events \ {broken}

(* Everything goes to chat, critical events to mail first. *)
MCRoutes ==
  [e \in Events |-> IF e.severity = "critical" THEN <<"mail", "chat">> ELSE <<"chat">>]

MCSymmetry == Permutations({t1, t2})
=============================================================================
