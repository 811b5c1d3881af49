---------------------------- MODULE BeaconModel ----------------------------
(***************************************************************************)
(* The records Beacon exchanges and stores (src/src/model.rs).             *)
(*                                                                         *)
(* An event is a record of its identity, the alert it is about             *)
(* (fingerprint), its state, its severity and its time.  Event type,       *)
(* source and host always travel together through the code and are one     *)
(* field, origin.  facts is whatever else the payload holds, so that two   *)
(* events with the same fields but different facts have different          *)
(* payloads.  Times are opaque values: nothing in the event path compares  *)
(* two of them.                                                            *)
(***************************************************************************)
EXTENDS Naturals

CONSTANTS
  Events,        \* the events agents can post, a set of records
  ValidEvents,   \* those of them that Event::validate accepts
  NoAlert,       \* "no row in alerts"
  NoTime         \* NULL in resolved_at

EventStates == {"firing", "resolved", "info"}
Severities == {"critical", "warning", "info"}
AlertStatuses == {"firing", "resolved", "info"}

EventIds == {e.event_id : e \in Events}
Fingerprints == {e.fingerprint : e \in Events}
Origins == {e.origin : e \in Events}
Times == {e.occurred_at : e \in Events}

(* The rows of the alerts table. *)
AlertRecord ==
  [fingerprint : Fingerprints,
   status : AlertStatuses,
   severity : Severities,
   origin : Origins,
   opened_at : Times,
   last_seen : Times,
   resolved_at : Times \cup {NoTime},
   event_count : Nat \ {0},
   last_event_id : EventIds]

(* What the code relies on: states and severities are the enumerations of  *)
(* model.rs, and only well-formed events exist for the store.              *)
ASSUME EventsAssumption ==
  /\ ValidEvents \subseteq Events
  /\ \A e \in Events : e.state \in EventStates /\ e.severity \in Severities

ASSUME NoAlertAssumption == NoAlert \notin AlertRecord
=============================================================================
