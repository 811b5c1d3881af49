------------------------------- MODULE Listing -------------------------------
(***************************************************************************)
(* GET /v1/alerts: the handler list_alerts and ServerEventStore's          *)
(* list_alerts, src/src/server.rs.  A listing is one SELECT, and so sees   *)
(* the alerts of one committed moment, with requests under way around it.  *)
(*                                                                         *)
(* Rows are ordered by the text of last_seen.  Here a time is its place    *)
(* among those texts, which is its place in time for the form in which     *)
(* beacon-agent writes occurred_at (UTC, always milliseconds).             *)
(***************************************************************************)
EXTENDS Intake, Functions

CONSTANTS
  Limits,     \* the values of the query's limit to look at
  MaxLimit,   \* the largest limit that is kept (500)
  AnyStatus   \* the query has no status

ASSUME ListingAssumption ==
  /\ Times \subseteq Nat /\ Limits \subseteq Nat /\ MaxLimit \in Nat \ {0}
  /\ AnyStatus \notin AlertStatuses

(* limit.clamp(1, 500) *)
Clamp(limit) == IF limit < 1 THEN 1 ELSE IF limit > MaxLimit THEN MaxLimit ELSE limit

Selected(status) ==
  {f \in Fingerprints : /\ db.alerts[f] # NoAlert
                        /\ status = AnyStatus \/ db.alerts[f].status = status}

(* ORDER BY last_seen DESC: alerts last seen at the same time come in any  *)
(* order.                                                                  *)
NewestFirst(fs) ==
  {order \in Bijection(1..Cardinality(fs), fs) :
     \A i, j \in DOMAIN order :
       i < j => db.alerts[order[i]].last_seen >= db.alerts[order[j]].last_seen}

(* LIMIT *)
Cut(fs, limit) == 1..(IF Clamp(limit) < Cardinality(fs) THEN Clamp(limit) ELSE Cardinality(fs))

Rows(fs, limit) ==
  {[i \in Cut(fs, limit) |-> db.alerts[order[i]]] : order \in NewestFirst(fs)}

(* Mutant: the limit is applied before the status. *)
CutThenFilter(status, limit) ==
  {SelectSeq(rows, LAMBDA r : status \in {AnyStatus, r.status}) :
     rows \in Rows(Selected(AnyStatus), limit)}

(* What the SELECT may return. *)
List(status, limit) == Rows(Selected(status), limit)

-----------------------------------------------------------------------------
(* The alerts a listing is asked for. *)
Wanted(status) ==
  {f \in DOMAIN db.alerts : db.alerts[f] # NoAlert /\ status \in {AnyStatus, db.alerts[f].status}}

(* What a listing should be. *)
Current(rows, status, limit) ==
  LET shown == {rows[i].fingerprint : i \in DOMAIN rows}
      wanted == Wanted(status)
  IN  /\ shown \subseteq wanted /\ Cardinality(shown) = Len(rows)
      /\ \A i \in DOMAIN rows :
           /\ rows[i] = db.alerts[rows[i].fingerprint]
           /\ \A j \in DOMAIN rows : i < j => rows[i].last_seen >= rows[j].last_seen
           /\ \A f \in wanted \ shown : db.alerts[f].last_seen <= rows[i].last_seen
      /\ wanted # shown => Len(rows) = Clamp(limit)

(* There is a listing, whatever it is asked for, and every listing has the *)
(* alerts it is asked for, the newest first and none twice, and leaves one *)
(* out only behind as many newer ones as the limit lets through: an alert  *)
(* that is firing is never hidden by ones that are not.  (That an alert's  *)
(* row is what the accepted events call for is AlertsMatchHistory.)        *)
ListingIsCurrent ==
  \A status \in AlertStatuses \cup {AnyStatus}, limit \in Limits :
    /\ List(status, limit) # {}
    /\ \A rows \in List(status, limit) : Current(rows, status, limit)
=============================================================================
