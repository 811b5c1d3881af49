----------------------------- MODULE AgentSpool -----------------------------
(***************************************************************************)
(* The agent's side of a host: `beacon-agent send` writes events to the    *)
(* spool directory and `beacon-agent run` drains it to the server          *)
(* (src/src/spool.rs, src/src/agent.rs, src/src/bin/beacon-agent.rs).      *)
(*                                                                         *)
(* Both commands hold an exclusive lock on the spool for as long as they   *)
(* run and fail at once when they cannot take it.  An event is written to  *)
(* a hidden temporary file and renamed.  A drain posts the events in the   *)
(* order of their file names, each up to MaxAttempts times, removes a file *)
(* after a positive answer, and gives up at the first event it cannot      *)
(* deliver.  A process may die between any two steps, and a request whose  *)
(* answer the client did not get may have reached the server, may reach it *)
(* later, or never.                                                        *)
(*                                                                         *)
(* The server is the ledger it promises to be (EventLedger, which Intake   *)
(* implements).  Each command that sends an event has an event of its own, *)
(* with a fresh UUID; Events are those events.                             *)
(***************************************************************************)
EXTENDS Naturals, Sequences, FiniteSets

CONSTANTS
  Events,        \* the events sent on this host
  Name,          \* Name[e]: where its file sorts in the directory
  Limit,         \* --limit, events per drain
  MaxAttempts,   \* --max-attempts per event
  Drains,        \* the drain commands that may run at once
  Nobody         \* "no process holds the lock"

VARIABLES
  lock,       \* who holds the spool lock
  temporary,  \* the temporary files: "absent", "partial" or "whole"
  pending,    \* the files a drain lists, likewise
  sending,    \* where the send command of each event is
  draining,   \* where each drain is
  batch,      \* the listed events it has yet to deliver
  attempt,    \* which attempt at the current one it makes
  call,       \* its request in progress
  ghosts,     \* requests nobody waits for any more that may still arrive
  log,        \* the server's accepted events
  acked       \* the events the server has answered positively to the agent

spoolVars == <<lock, temporary, pending>>
drainVars == <<draining, batch, attempt, call>>
vars == <<spoolVars, sending, drainVars, ghosts, log, acked>>

Server == INSTANCE EventLedger

ASSUME SpoolAssumption ==
  /\ Name \in [Events -> Nat]
  /\ \A d, e \in Events : Name[d] = Name[e] => d = e
  /\ \A d, e \in Events : d.event_id = e.event_id => d = e
  /\ Limit \in Nat \ {0} /\ MaxAttempts \in Nat \ {0}
  /\ Drains \cap Events = {} /\ Nobody \notin Events \cup Drains

FileStates == {"absent", "partial", "whole"}

(* "queued" is the command's success; "refused" and "failed" its errors. *)
SendPhases == {"unsent", "opened", "writing", "synced", "renamed",
               "queued", "refused", "failed"}
DrainPhases == {"idle", "listing", "posting", "awaiting", "removing"}
Calls == {"none", "sent", "positive", "negative"}

TypeOK ==
  /\ lock \in Events \cup Drains \cup {Nobody}
  /\ temporary \in [Events -> FileStates]
  /\ pending \in [Events -> FileStates]
  /\ sending \in [Events -> SendPhases]
  /\ draining \in [Drains -> DrainPhases]
  /\ batch \in [Drains -> SUBSET Events]
  /\ attempt \in [Drains -> 0..MaxAttempts]
  /\ call \in [Drains -> Calls]
  /\ ghosts \subseteq Events
  /\ log \in Seq(Events)
  /\ acked \subseteq Events

Init ==
  /\ lock = Nobody
  /\ temporary = [e \in Events |-> "absent"]
  /\ pending = [e \in Events |-> "absent"]
  /\ sending = [e \in Events |-> "unsent"]
  /\ draining = [d \in Drains |-> "idle"]
  /\ batch = [d \in Drains |-> {}]
  /\ attempt = [d \in Drains |-> 0]
  /\ call = [d \in Drains |-> "none"]
  /\ ghosts = {}
  /\ Server!LedgerInit

-----------------------------------------------------------------------------
(* beacon-agent send *)

Phase(e, from, to) ==
  /\ sending[e] = from
  /\ sending' = [sending EXCEPT ![e] = to]
  /\ UNCHANGED <<drainVars, ghosts, log, acked>>

(* try_lock_exclusive takes the lock, or the command fails. *)
SendOpen(e) ==
  /\ lock = Nobody
  /\ Phase(e, "unsent", "opened")
  /\ lock' = e
  /\ UNCHANGED <<temporary, pending>>

SendRefused(e) ==
  /\ lock # Nobody
  /\ Phase(e, "unsent", "refused")
  /\ UNCHANGED spoolVars

SendCreate(e) ==
  /\ pending[e] = "absent" /\ temporary[e] = "absent"
  /\ Phase(e, "opened", "writing")
  /\ temporary' = [temporary EXCEPT ![e] = "partial"]
  /\ UNCHANGED <<lock, pending>>

(* write_all and sync_all *)
SendSync(e) ==
  /\ Phase(e, "writing", "synced")
  /\ temporary' = [temporary EXCEPT ![e] = "whole"]
  /\ UNCHANGED <<lock, pending>>

SendRename(e) ==
  /\ Phase(e, "synced", "renamed")
  /\ pending' = [pending EXCEPT ![e] = temporary[e]]
  /\ temporary' = [temporary EXCEPT ![e] = "absent"]
  /\ UNCHANGED lock

(* Mutant: success before the rename. *)
SendExitEarly(e) ==
  /\ Phase(e, "synced", "queued")
  /\ lock' = Nobody
  /\ UNCHANGED <<temporary, pending>>

(* The spool is dropped, and with it the lock; "queued:" is printed. *)
SendExit(e) ==
  /\ Phase(e, "renamed", "queued")
  /\ lock' = Nobody
  /\ UNCHANGED <<temporary, pending>>

(* The command fails or is killed; its files stay as they are. *)
SendFails(e) ==
  /\ sending[e] \in {"opened", "writing", "synced", "renamed"}
  /\ Phase(e, sending[e], "failed")
  /\ lock' = Nobody
  /\ UNCHANGED <<temporary, pending>>

-----------------------------------------------------------------------------
(* beacon-agent run *)

(* Mutant: the filter on the extension is dropped. *)
ListedWithTemporaries ==
  {e \in Events : pending[e] # "absent" \/ temporary[e] # "absent"}

(* The files with the extension .json. *)
Listed == {e \in Events : pending[e] # "absent"}

(* The event of a batch whose file sorts first. *)
Current(d) == CHOOSE e \in batch[d] : \A o \in batch[d] : Name[e] <= Name[o]

(* The first Limit of S in the order of their names. *)
FirstNames(S) == {e \in S : Cardinality({o \in S : Name[o] < Name[e]}) < Limit}

(* A request that d no longer waits for is left to the network. *)
Abandon(d) == ghosts' = IF call[d] = "sent" THEN ghosts \cup {Current(d)} ELSE ghosts

Drained(d, phase, events, n, request) ==
  /\ draining' = [draining EXCEPT ![d] = phase]
  /\ batch' = [batch EXCEPT ![d] = events]
  /\ attempt' = [attempt EXCEPT ![d] = n]
  /\ call' = [call EXCEPT ![d] = request]

(* Mutant: the lock is shared. *)
DrainOpenShared(d) ==
  /\ draining[d] = "idle" /\ lock \in Drains \cup {Nobody}
  /\ lock' = d
  /\ Drained(d, "listing", {}, 0, "none")
  /\ UNCHANGED <<temporary, pending, sending, ghosts, log, acked>>

(* try_lock_exclusive; a drain that cannot take the lock changes nothing. *)
DrainOpen(d) ==
  /\ draining[d] = "idle" /\ lock = Nobody
  /\ lock' = d
  /\ Drained(d, "listing", {}, 0, "none")
  /\ UNCHANGED <<temporary, pending, sending, ghosts, log, acked>>

(* The command ends, well or badly, and drops the lock. *)
DrainEnd(d) ==
  /\ Drained(d, "idle", {}, 0, "none")
  /\ lock' = Nobody
  /\ Abandon(d)

(* One file that does not decode fails the whole listing. *)
DrainList(d) ==
  /\ draining[d] = "listing"
  /\ IF Listed # {} /\ \A e \in Listed : pending[e] = "whole"
     THEN Drained(d, "posting", FirstNames(Listed), 1, "none") /\ UNCHANGED <<lock, ghosts>>
     ELSE DrainEnd(d)
  /\ UNCHANGED <<temporary, pending, sending, log, acked>>

DrainPost(d) ==
  /\ draining[d] = "posting"
  /\ Drained(d, "awaiting", batch[d], attempt[d], "sent")
  /\ UNCHANGED <<spoolVars, sending, ghosts, log, acked>>

(* Mutant: one attempt too many. *)
RetryOnceMore(d) ==
  IF attempt[d] <= MaxAttempts
  THEN Drained(d, "posting", batch[d], attempt[d] + 1, "none") /\ Abandon(d) /\ UNCHANGED lock
  ELSE DrainEnd(d)

(* Another attempt after a pause, or the end of the drain. *)
RetryOrEnd(d) ==
  IF attempt[d] < MaxAttempts
  THEN Drained(d, "posting", batch[d], attempt[d] + 1, "none") /\ Abandon(d) /\ UNCHANGED lock
  ELSE DrainEnd(d)

(* No answer within the client's timeout, no connection, or an answer      *)
(* other than 2xx.                                                         *)
DrainRejected(d) ==
  /\ draining[d] = "awaiting"
  /\ RetryOrEnd(d)
  /\ UNCHANGED <<temporary, pending, sending, log, acked>>

(* Mutant: the status of the answer is not looked at. *)
DrainAnswered(d) ==
  /\ draining[d] = "awaiting" /\ call[d] \in {"positive", "negative"}
  /\ Drained(d, "removing", batch[d], attempt[d], "none")
  /\ UNCHANGED <<spoolVars, sending, ghosts, log, acked>>

DrainAcked(d) ==
  /\ draining[d] = "awaiting" /\ call[d] = "positive"
  /\ Server!Acknowledge(Current(d))
  /\ Drained(d, "removing", batch[d], attempt[d], "none")
  /\ UNCHANGED <<spoolVars, sending, ghosts>>

(* The delivered file is removed, and the next event's turn comes. *)
DrainRemove(d) ==
  /\ draining[d] = "removing"
  /\ pending' = [pending EXCEPT ![Current(d)] = "absent"]
  /\ IF pending[Current(d)] # "absent" /\ batch[d] # {Current(d)}
     THEN Drained(d, "posting", batch[d] \ {Current(d)}, 1, "none") /\ UNCHANGED <<lock, ghosts>>
     ELSE DrainEnd(d)
  /\ UNCHANGED <<temporary, sending, log, acked>>

(* The process is killed. *)
DrainCrash(d) ==
  /\ draining[d] # "idle"
  /\ DrainEnd(d)
  /\ UNCHANGED <<temporary, pending, sending, log, acked>>

-----------------------------------------------------------------------------
(* The server and the network *)

(* The server has e: it stores it now, or it did before. *)
Take(e) ==
  \/ Server!Store(e)
  \/ /\ \E i \in DOMAIN log : log[i] = e
     /\ UNCHANGED <<log, acked>>

ServerAccepts(d) ==
  /\ call[d] = "sent"
  /\ Take(Current(d))
  /\ call' = [call EXCEPT ![d] = "positive"]
  /\ UNCHANGED <<spoolVars, sending, draining, batch, attempt, ghosts>>

(* 401, 500 on a busy database, or a proxy's answer. *)
ServerRefuses(d) ==
  /\ call[d] = "sent"
  /\ call' = [call EXCEPT ![d] = "negative"]
  /\ UNCHANGED <<spoolVars, sending, draining, batch, attempt, ghosts, log, acked>>

GhostArrives(e) ==
  /\ e \in ghosts
  /\ Take(e)
  /\ ghosts' = ghosts \ {e}
  /\ UNCHANGED <<spoolVars, sending, drainVars>>

GhostLost(e) ==
  /\ e \in ghosts
  /\ ghosts' = ghosts \ {e}
  /\ UNCHANGED <<spoolVars, sending, drainVars, log, acked>>

-----------------------------------------------------------------------------
SendStep(e) ==
  \/ SendOpen(e) \/ SendRefused(e) \/ SendCreate(e) \/ SendSync(e)
  \/ SendRename(e) \/ SendExit(e) \/ SendFails(e)

DrainStep(d) ==
  \/ DrainOpen(d) \/ DrainList(d) \/ DrainPost(d) \/ DrainRejected(d)
  \/ DrainAcked(d) \/ DrainRemove(d)

Next ==
  \/ \E e \in Events : SendStep(e) \/ GhostArrives(e) \/ GhostLost(e)
  \/ \E d \in Drains : DrainStep(d) \/ DrainCrash(d) \/ ServerAccepts(d) \/ ServerRefuses(d)

Spec == Init /\ [][Next]_vars

(* A command that started ends.  The timer starts a drain again and again, *)
(* and no step of it fails every time: the lock is free sometimes, the     *)
(* server answers some of the requests for each event, and the client      *)
(* reads some of those answers and lives to act on them.                   *)
Turn(d, e) == e \in batch[d] /\ e = Current(d)

Fairness ==
  /\ \A e \in Events : WF_vars(SendStep(e))
  /\ \A d \in Drains :
       /\ WF_vars(DrainStep(d))
       /\ SF_vars(DrainOpen(d)) /\ SF_vars(DrainList(d)) /\ SF_vars(DrainPost(d))
       /\ \A e \in Events : /\ SF_vars(Turn(d, e) /\ ServerAccepts(d))
                            /\ SF_vars(Turn(d, e) /\ DrainAcked(d))
                            /\ SF_vars(Turn(d, e) /\ DrainRemove(d))

FairSpec == Spec /\ Fairness

-----------------------------------------------------------------------------
(* Properties *)

InLog(e) == \E i \in DOMAIN log : log[i] = e

(* An event whose send command succeeded is on disk, whole, until the      *)
(* server has it: no kill, timeout, refusal or lost answer loses it.       *)
QueuedIsKept ==
  \A e \in Events : sending[e] = "queued" => pending[e] = "whole" \/ InLog(e)

(* No listing meets a file that is half written, which would fail every    *)
(* drain, and a drain that has an event in hand still finds its file: its  *)
(* snapshot of the directory stays true because nobody else is let in.     *)
BatchIsOnDisk ==
  /\ \A e \in Events : pending[e] # "partial"
  /\ \A d \in Drains : \A e \in batch[d] : pending[e] = "whole"

(* A file is removed only after the server has its event. *)
RemovedOnlyStored ==
  [][\A e \in Events :
       pending[e] # "absent" /\ pending'[e] = "absent" => InLog(e) /\ e \in acked]_vars

(* Every event whose send command succeeded reaches the server and leaves  *)
(* the spool for good, although one that cannot be delivered holds up all  *)
(* that sort after it.                                                     *)
QueuedIsDelivered ==
  \A e \in Events : sending[e] = "queued" ~> [](InLog(e) /\ pending[e] = "absent")
=============================================================================
