----------------------------- MODULE EventLedger -----------------------------
(***************************************************************************)
(* What the server promises the agents, whatever its database does         *)
(* underneath: a ledger of events.  An event enters it in one step, at     *)
(* most once per event_id, never leaves it and never moves; an agent is    *)
(* told "accepted" only of an event that is in it.  The server may refuse  *)
(* or forget a request at any time, which changes nothing here.            *)
(***************************************************************************)
EXTENDS Sequences, Naturals

CONSTANT Events
VARIABLES log, acked

ledgerVars == <<log, acked>>

LedgerInit == log = <<>> /\ acked = {}

(* An event whose id is new is accepted. *)
Store(e) ==
  /\ \A i \in DOMAIN log : log[i].event_id # e.event_id
  /\ log' = Append(log, e)
  /\ UNCHANGED acked

(* Some agent learns that e was accepted. *)
Acknowledge(e) ==
  /\ \E i \in DOMAIN log : log[i] = e
  /\ acked' = acked \cup {e}
  /\ UNCHANGED log

LedgerNext == \E e \in Events : Store(e) \/ Acknowledge(e)

LedgerSpec == LedgerInit /\ [][LedgerNext]_ledgerVars
=============================================================================
