---------------------------- MODULE IntakeClaims ----------------------------
(***************************************************************************)
(* What the documentation says of the intake where the code does something *)
(* else, put to the instance of MCIntake.                                  *)
(***************************************************************************)
EXTENDS MCIntake

(* docs/protocol.md:102: "For each accepted event and matching channel,    *)
(* the server creates one durable notification job in the same SQLite      *)
(* transaction as the event and alert."                                    *)
EveryAcceptedEventQueued ==
  \A i \in DOMAIN db.events : \A k \in DOMAIN Routes[db.events[i]] :
    \E j \in DOMAIN db.notifications :
      /\ db.notifications[j].event_id = db.events[i].event_id
      /\ db.notifications[j].channel = Routes[db.events[i]][k]
=============================================================================
