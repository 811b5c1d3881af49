--------------------------- MODULE Notifications ---------------------------
(***************************************************************************)
(* The notifications table of src/src/server.rs and the statements that    *)
(* change it.  A row's id is its position: the key is AUTOINCREMENT and no *)
(* row is ever deleted.  The payload is abstracted to the headline that    *)
(* render_event picks, which is the status of the alert, not the state of  *)
(* the event.  The two time columns (next_attempt_at and claimed_at) are   *)
(* kept by the dispatcher model, as the set of rows whose deadline passed; *)
(* last_error and sent_at only mirror status.                              *)
(***************************************************************************)
EXTENDS BeaconModel, Sequences

CONSTANT Channels    \* the channel names a policy can route to

JobStatuses == {"pending", "in_flight", "sent", "failed"}

(* The rows of the notifications table. *)
JobRow ==
  [event_id : EventIds,
   fingerprint : Fingerprints,
   channel : Channels,
   payload : AlertStatuses,
   status : JobStatuses,
   attempts : Nat,
   retryable : BOOLEAN]

NewJob(e, a, c) ==
  [event_id |-> e.event_id,
   fingerprint |-> e.fingerprint,
   channel |-> c,
   payload |-> a.status,
   status |-> "pending",
   attempts |-> 0,
   retryable |-> TRUE]

(* INSERT OR IGNORE under UNIQUE(event_id, channel). *)
InsertOrIgnore(rows, row) ==
  IF \E i \in DOMAIN rows : /\ rows[i].event_id = row.event_id
                            /\ rows[i].channel = row.channel
  THEN rows
  ELSE Append(rows, row)

(* Mutant: a claim does not count as an attempt. *)
ClaimUncounted(rows, i) == [rows EXCEPT ![i].status = "in_flight"]

Claim(rows, i) ==
  [rows EXCEPT ![i].status = "in_flight", ![i].attempts = @ + 1]

(* Both outcomes are recorded only on a row that is still in flight. *)
Complete(rows, i) ==
  IF rows[i].status = "in_flight" THEN [rows EXCEPT ![i].status = "sent"] ELSE rows

Fail(rows, i, again) ==
  IF rows[i].status = "in_flight"
  THEN [rows EXCEPT ![i].status = "failed", ![i].retryable = again]
  ELSE rows
=============================================================================
