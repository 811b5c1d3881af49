------------------------------- MODULE Alerts -------------------------------
(***************************************************************************)
(* The alert state machine of src/src/server.rs: how one event changes the *)
(* alert record of its fingerprint.  The second half says what an alert    *)
(* record should be, read off the whole history of accepted events and     *)
(* never off the previous record; checks and proofs compare the two.       *)
(***************************************************************************)
EXTENDS BeaconModel, Sequences, FiniteSets

-----------------------------------------------------------------------------
(* The code *)

(* Mutant: the count starts at zero. *)
NewAlertUncounted(e, status) ==
  [fingerprint |-> e.fingerprint, status |-> status, severity |-> e.severity,
   origin |-> e.origin, opened_at |-> e.occurred_at, last_seen |-> e.occurred_at,
   resolved_at |-> IF e.state = "resolved" THEN e.occurred_at ELSE NoTime,
   event_count |-> 0, last_event_id |-> e.event_id]

NewAlert(e, status) ==
  [fingerprint |-> e.fingerprint,
   status |-> status,
   severity |-> e.severity,
   origin |-> e.origin,
   opened_at |-> e.occurred_at,
   last_seen |-> e.occurred_at,
   resolved_at |-> IF e.state = "resolved" THEN e.occurred_at ELSE NoTime,
   event_count |-> 1,
   last_event_id |-> e.event_id]

(* Every event on an existing record moves last_seen and last_event_id and *)
(* counts.                                                                 *)
Touch(a, e) ==
  [a EXCEPT !.last_seen = e.occurred_at,
            !.event_count = @ + 1,
            !.last_event_id = e.event_id]

(* A firing event refreshes a firing record and overwrites any other one,  *)
(* exactly as if there had been none.                                      *)
TransitionFiring(a, e) ==
  IF a # NoAlert /\ a.status = "firing"
  THEN [Touch(a, e) EXCEPT !.severity = e.severity, !.origin = e.origin,
                           !.resolved_at = NoTime]
  ELSE NewAlert(e, "firing")

(* A resolved event keeps the record's origin and opened_at. *)
TransitionResolved(a, e) ==
  IF a # NoAlert
  THEN [Touch(a, e) EXCEPT !.status = "resolved", !.severity = e.severity,
                           !.resolved_at = e.occurred_at]
  ELSE NewAlert(e, "resolved")

(* Mutant: info overwrites whatever the record says. *)
TransitionInfoAlways(a, e) ==
  IF a = NoAlert THEN NewAlert(e, "info")
  ELSE [Touch(a, e) EXCEPT !.status = "info", !.severity = e.severity,
                           !.origin = e.origin, !.resolved_at = NoTime]

(* An info event leaves a firing alert firing, with its severity. *)
TransitionInfo(a, e) ==
  IF a = NoAlert THEN NewAlert(e, "info")
  ELSE IF a.status = "firing" THEN Touch(a, e)
  ELSE [Touch(a, e) EXCEPT !.status = "info", !.severity = e.severity,
                           !.origin = e.origin, !.resolved_at = NoTime]

Transition(a, e) ==
  CASE e.state = "firing" -> TransitionFiring(a, e)
    [] e.state = "resolved" -> TransitionResolved(a, e)
    [] e.state = "info" -> TransitionInfo(a, e)

(* Mutant: only a fingerprint's very first event, or a resolve, is told. *)
AnnouncedOnce(e, a) == e.state = "resolved" \/ a.event_count = 1

(* accept queues messages for every event except a firing one that found   *)
(* its alert already firing.                                               *)
Announced(e, a) == e.state # "firing" \/ a.event_count = 1

-----------------------------------------------------------------------------
(* The reference, from the history: log is the accepted events in order.   *)

About(log, f) == {i \in DOMAIN log : log[i].fingerprint = f}

(* Before position i, every firing of f had been followed by a resolve. *)
Quiet(log, f, i) ==
  \A j \in About(log, f) :
    j < i /\ log[j].state = "firing" =>
      \E k \in About(log, f) : j < k /\ k < i /\ log[k].state = "resolved"

(* Entry i opens an episode of its alert. *)
Opens(log, i) == log[i].state = "firing" /\ Quiet(log, log[i].fingerprint, i)

(* Entry i is information about an alert that was firing. *)
Remark(log, i) == log[i].state = "info" /\ ~Quiet(log, log[i].fingerprint, i)

(* The last position in S, a non-empty finite set of positions. *)
Last(S) == CHOOSE i \in S : \A j \in S : j <= i
First(S) == CHOOSE i \in S : \A j \in S : i <= j

(* Where the current episode starts: the last opening, and for a           *)
(* fingerprint that never fired its first entry.                           *)
Start(log, f) ==
  LET opening == {i \in About(log, f) : Opens(log, i)}
  IN  IF opening # {} THEN Last(opening) ELSE First(About(log, f))

StatusOf(log, f) ==
  IF ~Quiet(log, f, Len(log) + 1) THEN "firing" ELSE log[Last(About(log, f))].state

(* The record a fingerprint with some history should have. *)
AlertOf(log, f) ==
  LET about == About(log, f)
      last == log[Last(about)]
      rates == log[Last({i \in about : ~Remark(log, i)})]
      places == log[Last({i \in about : \/ i = First(about)
                                        \/ log[i].state # "resolved" /\ ~Remark(log, i)})]
  IN  [fingerprint |-> f,
       status |-> StatusOf(log, f),
       severity |-> rates.severity,
       origin |-> places.origin,
       opened_at |-> log[Start(log, f)].occurred_at,
       last_seen |-> last.occurred_at,
       resolved_at |-> IF StatusOf(log, f) = "resolved" THEN last.occurred_at ELSE NoTime,
       event_count |-> Cardinality({i \in about : i >= Start(log, f)}),
       last_event_id |-> last.event_id]
=============================================================================
