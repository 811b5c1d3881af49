---------------------------- MODULE AlertService ----------------------------
(***************************************************************************)
(* What the whole server promises, to the agents and to the people who     *)
(* read the messages: the ledger of events (EventLedger), and messages     *)
(* about events that are in it.  A message exists only for an event that   *)
(* opens an episode of its alert, informs, or resolves, and only on a      *)
(* channel the policy picks; it is delivered at most MaxAttempts times.    *)
(* There is no queue here, no database, no worker and no crash.            *)
(***************************************************************************)
EXTENDS Alerts

CONSTANTS Channels, Routes, MaxAttempts

VARIABLES
  log,     \* the accepted events, in order
  acked,   \* the events some agent was told are accepted
  told     \* told[id, c]: how often the message about an event reached channel c

serviceVars == <<log, acked, told>>

Ledger == INSTANCE EventLedger WITH Events <- ValidEvents

ServiceInit ==
  /\ Ledger!LedgerInit
  /\ told = [m \in EventIds \X Channels |-> 0]

(* Entry i of the log has something to say on channel c. *)
CallsFor(i, c) ==
  /\ \E k \in DOMAIN Routes[log[i]] : Routes[log[i]][k] = c
  /\ log[i].state = "firing" => Opens(log, i)

Tell(i, c) ==
  LET m == <<log[i].event_id, c>>
  IN  /\ CallsFor(i, c)
      /\ told[m] < MaxAttempts
      /\ told' = [told EXCEPT ![m] = @ + 1]
      /\ UNCHANGED <<log, acked>>

ServiceNext ==
  \/ Ledger!LedgerNext /\ UNCHANGED told
  \/ \E i \in DOMAIN log, c \in Channels : Tell(i, c)

ServiceSpec == ServiceInit /\ [][ServiceNext]_serviceVars
=============================================================================
