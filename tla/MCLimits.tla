------------------------------ MODULE MCLimits ------------------------------
(***************************************************************************)
(* Numbers at their limits: a retry delay and the size of an event.  The   *)
(* two have nothing to do with each other, so that each behaviour is one   *)
(* of either.                                                              *)
(*                                                                         *)
(* Delays: none, one, the largest sane one, and two insane ones, with      *)
(* batches that take longer than the shortest of them.  Events:            *)
(* the program's own limits, texts at both ends of them, plain and made of *)
(* control characters, and facts up to twice their number.                 *)
(***************************************************************************)
EXTENDS RetryTime, EventLimits

VARIABLE part

vars == <<part, retryVars, eventVars>>

MCBases == {0, 1, 3, FourDigits, Wrap - 1}

MCFieldLimit ==
  [event_id |-> 128, event_type |-> 128, source |-> 128, host_id |-> 128,
   fingerprint |-> 256, occurred_at |-> 64]
MCTextFields == DOMAIN MCFieldLimit

Plain(n) == [bytes |-> n, encoded |-> n]
Escaped(n) == [bytes |-> n, encoded |-> Escape * n]

MCTexts == {Plain(1), Escaped(64), Escaped(128), Escaped(257)}

Init ==
  /\ part \in {"delay", "size"}
  /\ RetryInit /\ EventInit
  /\ part = "size" => base = 0 /\ clock = TicksPerSecond

Next ==
  \/ part = "delay" /\ RetryNext /\ UNCHANGED <<part, eventVars>>
  \/ part = "size" /\ EventNext /\ UNCHANGED <<part, retryVars>>

Spec == Init /\ [][Next]_vars
=============================================================================
