------------------------------- MODULE Intake -------------------------------
(***************************************************************************)
(* How the server takes an event in: the POST /v1/events handler           *)
(* (accept_event) and the transaction it runs on a blocking thread         *)
(* (ServerEventStore::accept), src/src/server.rs.                          *)
(*                                                                         *)
(* A task is one request being handled; any number of them run at once,    *)
(* each with its own connection.  Every SQL statement is a step of its     *)
(* own, so that tasks interleave between statements, and a statement, the  *)
(* connection or the whole process may fail between any two of them.       *)
(* Authorisation is one outcome here, refused or not.  What a client does  *)
(* with an answer, and its retries, are the environment: any event may be  *)
(* posted at any time, again after an answer, or twice at once.            *)
(***************************************************************************)
EXTENDS Alerts, Notifications, Sqlite

CONSTANTS
  Tasks,     \* the requests in progress
  Routes,    \* Routes[e]: the channels the policy picks for e, in order
  NoEvent    \* the request of an idle task

VARIABLES
  pc,        \* where each task is
  request,   \* the event each task is handling
  todo,      \* the channels its enqueue loop has yet to insert
  reply,     \* the outcome its handler is about to answer
  acked      \* the events some client has been told are accepted

taskVars == <<pc, request, todo, reply>>
vars == <<sqliteVars, taskVars, acked>>

Database ==
  [events : Seq(Events),
   alerts : [Fingerprints -> AlertRecord \cup {NoAlert}],
   notifications : Seq(JobRow)]

ASSUME TasksAssumption == Tasks \subseteq Connections
ASSUME RoutesAssumption == Routes \in [Events -> Seq(Channels)]
ASSUME NoTxnAssumption == NoTxn \notin Database
ASSUME NoEventAssumption == NoEvent \notin Events

Phases == {"idle", "received", "reading", "inserted", "enqueueing", "replying"}

(* 202 for the first two, 409, 401, 400, and 500 for the last two. *)
Outcomes == {"accepted", "duplicate", "conflict", "unauthorized", "invalid",
             "error", "missing"}
Positive == {"accepted", "duplicate"}

TypeOK ==
  /\ db \in Database
  /\ view \in [Connections -> Database \cup {NoTxn}]
  /\ stale \subseteq Connections
  /\ writer \in Connections \cup {NoConn}
  /\ pc \in [Tasks -> Phases]
  /\ request \in [Tasks -> Events \cup {NoEvent}]
  /\ todo \in [Tasks -> Seq(Channels)]
  /\ reply \in [Tasks -> Outcomes \cup {"none"}]
  /\ acked \subseteq Events

EmptyDatabase ==
  [events |-> <<>>,
   alerts |-> [f \in Fingerprints |-> NoAlert],
   notifications |-> <<>>]

Init ==
  /\ SqliteInit(EmptyDatabase)
  /\ pc = [t \in Tasks |-> "idle"]
  /\ request = [t \in Tasks |-> NoEvent]
  /\ todo = [t \in Tasks |-> <<>>]
  /\ reply = [t \in Tasks |-> "none"]
  /\ acked = {}

-----------------------------------------------------------------------------
(* The handler before and after the transaction *)

Goto(t, phase) == pc' = [pc EXCEPT ![t] = phase]

Answer(t, outcome) ==
  /\ Goto(t, "replying")
  /\ reply' = [reply EXCEPT ![t] = outcome]

(* A request body that parses as an event reaches the handler. *)
Receive(t, e) ==
  /\ pc[t] = "idle"
  /\ Goto(t, "received")
  /\ request' = [request EXCEPT ![t] = e]
  /\ UNCHANGED <<sqliteVars, todo, reply, acked>>

(* No bearer token, no credential with it, or an error reading them. *)
Unauthorized(t) ==
  /\ pc[t] = "received"
  /\ Answer(t, "unauthorized")
  /\ UNCHANGED <<sqliteVars, request, todo, acked>>

Invalid(t) ==
  /\ pc[t] = "received"
  /\ request[t] \notin ValidEvents
  /\ Answer(t, "invalid")
  /\ UNCHANGED <<sqliteVars, request, todo, acked>>

Finish(t) ==
  /\ Goto(t, "idle")
  /\ request' = [request EXCEPT ![t] = NoEvent]
  /\ reply' = [reply EXCEPT ![t] = "none"]
  /\ todo' = [todo EXCEPT ![t] = <<>>]

(* The client reads the answer. *)
Respond(t) ==
  /\ pc[t] = "replying"
  /\ acked' = IF reply[t] \in Positive THEN acked \cup {request[t]} ELSE acked
  /\ Finish(t)
  /\ UNCHANGED sqliteVars

(* The client is gone.  A handler that has not started its blocking call   *)
(* is cancelled; one that has runs to the end, and its answer is lost.     *)
Disconnect(t) ==
  /\ pc[t] \in {"received", "replying"}
  /\ Finish(t)
  /\ UNCHANGED <<sqliteVars, acked>>

-----------------------------------------------------------------------------
(* ServerEventStore::accept *)

(* Mutant: the lookup matches the payload instead of the event_id. *)
KnownByPayload(t) ==
  \E i \in DOMAIN view[t].events : view[t].events[i] = request[t]

Known(t) ==
  \E i \in DOMAIN view[t].events : view[t].events[i].event_id = request[t].event_id

(* Mutant: any event with a known id counts as the same one. *)
SamePayloadById(t) == Known(t)

SamePayload(t) ==
  \E i \in DOMAIN view[t].events : view[t].events[i] = request[t]

(* validate passed; the transaction starts and looks the event_id up. *)
Select(t) ==
  /\ pc[t] = "received"
  /\ request[t] \in ValidEvents
  /\ Begin(t)
  /\ Goto(t, "reading")
  /\ UNCHANGED <<request, todo, reply, acked>>

Duplicate(t) ==
  /\ pc[t] = "reading"
  /\ SamePayload(t)
  /\ Answer(t, IF view[t].alerts[request[t].fingerprint] = NoAlert
               THEN "missing" ELSE "duplicate")
  /\ Rollback(t)
  /\ UNCHANGED <<request, todo, acked>>

(* Mutant: every known id is refused, the same payload too. *)
ConflictAlways(t) ==
  /\ pc[t] = "reading"
  /\ Known(t)
  /\ Answer(t, "conflict")
  /\ Rollback(t)
  /\ UNCHANGED <<request, todo, acked>>

Conflict(t) ==
  /\ pc[t] = "reading"
  /\ Known(t) /\ ~SamePayload(t)
  /\ Answer(t, "conflict")
  /\ Rollback(t)
  /\ UNCHANGED <<request, todo, acked>>

(* Mutant: INSERT OR REPLACE without a look. *)
InsertEventReplacing(t) ==
  LET others(log) == SelectSeq(log, LAMBDA e : e.event_id # request[t].event_id)
  IN  /\ pc[t] = "reading"
      /\ Write(t, [view[t] EXCEPT !.events = Append(others(@), request[t])])
      /\ Goto(t, "inserted")
      /\ UNCHANGED <<request, todo, reply, acked>>

(* Mutant: the INSERT runs outside the transaction and commits by itself. *)
InsertEventAlone(t) ==
  /\ pc[t] = "reading"
  /\ ~Known(t)
  /\ MayWrite(t)
  /\ view' = [view EXCEPT ![t].events = Append(@, request[t])]
  /\ db' = [db EXCEPT !.events = Append(@, request[t])]
  /\ writer' = t
  /\ stale' = OpenTxns \ {t}
  /\ Goto(t, "inserted")
  /\ UNCHANGED <<request, todo, reply, acked>>

InsertEvent(t) ==
  /\ pc[t] = "reading"
  /\ ~Known(t)
  /\ Write(t, [view[t] EXCEPT !.events = Append(@, request[t])])
  /\ Goto(t, "inserted")
  /\ UNCHANGED <<request, todo, reply, acked>>

(* The INSERT cannot upgrade the transaction to a writing one. *)
InsertBusy(t) ==
  /\ pc[t] = "reading"
  /\ ~Known(t)
  /\ ~MayWrite(t)
  /\ Answer(t, "error")
  /\ Rollback(t)
  /\ UNCHANGED <<request, todo, acked>>

(* transition_alert, and the choice whether to enqueue at all. *)
TransitionAlert(t) ==
  /\ pc[t] = "inserted"
  /\ LET e == request[t]
         alert == Transition(view[t].alerts[e.fingerprint], e)
     IN  /\ Write(t, [view[t] EXCEPT !.alerts[e.fingerprint] = alert])
         /\ todo' = [todo EXCEPT ![t] = IF Announced(e, alert) THEN Routes[e] ELSE <<>>]
  /\ Goto(t, "enqueueing")
  /\ UNCHANGED <<request, reply, acked>>

(* One turn of the loop of enqueue_notifications. *)
EnqueueNext(t) ==
  /\ pc[t] = "enqueueing"
  /\ todo[t] # <<>>
  /\ LET e == request[t]
         job == NewJob(e, view[t].alerts[e.fingerprint], Head(todo[t]))
     IN  Write(t, [view[t] EXCEPT !.notifications = InsertOrIgnore(@, job)])
  /\ todo' = [todo EXCEPT ![t] = Tail(@)]
  /\ UNCHANGED <<pc, request, reply, acked>>

(* Mutant: commit() is forgotten, and dropping the transaction undoes it. *)
CommitForgotten(t) ==
  /\ pc[t] = "enqueueing"
  /\ todo[t] = <<>>
  /\ Rollback(t)
  /\ Answer(t, "accepted")
  /\ UNCHANGED <<request, todo, acked>>

CommitEvent(t) ==
  /\ pc[t] = "enqueueing"
  /\ todo[t] = <<>>
  /\ Commit(t)
  /\ Answer(t, "accepted")
  /\ UNCHANGED <<request, todo, acked>>

(* Mutant: a failed INSERT of a job is ignored and the loop goes on. *)
JobErrorIgnored(t) ==
  /\ pc[t] = "enqueueing"
  /\ todo[t] # <<>>
  /\ todo' = [todo EXCEPT ![t] = Tail(@)]
  /\ UNCHANGED <<sqliteVars, pc, request, reply, acked>>

(* A statement fails (disk full, I/O error): ? drops the transaction. *)
StatementError(t) ==
  /\ pc[t] \in {"reading", "inserted", "enqueueing"}
  /\ Answer(t, "error")
  /\ todo' = [todo EXCEPT ![t] = <<>>]
  /\ Rollback(t)
  /\ UNCHANGED <<request, acked>>

-----------------------------------------------------------------------------
(* The process dies and is started again; open() changes no row. *)
Crash ==
  /\ LoseConnections
  /\ pc' = [t \in Tasks |-> "idle"]
  /\ request' = [t \in Tasks |-> NoEvent]
  /\ todo' = [t \in Tasks |-> <<>>]
  /\ reply' = [t \in Tasks |-> "none"]
  /\ UNCHANGED acked

Handle(t) ==
  \/ Unauthorized(t) \/ Invalid(t) \/ Respond(t) \/ Disconnect(t)
  \/ Select(t) \/ Duplicate(t) \/ Conflict(t) \/ InsertEvent(t) \/ InsertBusy(t)
  \/ TransitionAlert(t) \/ EnqueueNext(t) \/ CommitEvent(t) \/ StatementError(t)

Next ==
  \/ \E t \in Tasks : Handle(t)
  \/ \E t \in Tasks, e \in Events : Receive(t, e)
  \/ Crash

Spec == Init /\ [][Next]_vars

-----------------------------------------------------------------------------
(* Properties *)

(* An event whose client was told "accepted", as new or as a duplicate, is *)
(* in the committed store with that very payload, whatever other requests, *)
(* failures and crashes happened around it.                                *)
AckedIsStored == \A e \in acked : \E i \in DOMAIN db.events : db.events[i] = e

(* The store never loses, reorders or rewrites an accepted event: no       *)
(* commit, whatever snapshot its transaction read, overwrites another's.   *)
EventsOnlyGrow ==
  [][/\ Len(db.events) <= Len(db'.events)
     /\ \A i \in DOMAIN db.events : db'.events[i] = db.events[i]]_vars

(* Two accepted events never share an event_id, even when both were looked *)
(* up before either was inserted.                                          *)
EventIdsUnique ==
  \A i, j \in DOMAIN db.events :
    db.events[i].event_id = db.events[j].event_id => i = j

(* Every alert record is the one the accepted history calls for, and a     *)
(* fingerprint has a record exactly when some event about it was accepted: *)
(* no interleaving, failure or crash splits an event from its transition.  *)
AlertsMatchHistory ==
  \A f \in Fingerprints :
    db.alerts[f] = IF About(db.events, f) = {} THEN NoAlert ELSE AlertOf(db.events, f)

(* What entry i of the history put in the queue: one job per routed        *)
(* channel for a resolve, an info or the opening of an episode, with the   *)
(* headline of the alert right after it.                                   *)
JobsOf(log, i) ==
  IF log[i].state = "firing" /\ ~Opens(log, i) THEN {}
  ELSE {<<log[i].event_id, c, StatusOf(SubSeq(log, 1, i), log[i].fingerprint)>> :
          c \in {Routes[log[i]][k] : k \in DOMAIN Routes[log[i]]}}

(* The queue holds exactly the jobs of the accepted history, each          *)
(* (event, channel) once: a failure inside the enqueue loop leaves no part *)
(* of it behind, and a duplicate or a repeated firing event adds nothing.  *)
JobsMatchHistory ==
  LET rows == db.notifications
  IN  /\ {<<rows[i].event_id, rows[i].channel, rows[i].payload>> : i \in DOMAIN rows}
           = UNION {JobsOf(db.events, i) : i \in DOMAIN db.events}
      /\ \A i, j \in DOMAIN rows :
           rows[i].event_id = rows[j].event_id /\ rows[i].channel = rows[j].channel => i = j

(* No request is answered 500 "its alert state is missing"; a conflict is  *)
(* only answered when the store holds another payload under that id.       *)
RefusalsJustified ==
  \A t \in Tasks :
    /\ reply[t] # "missing"
    /\ reply[t] = "conflict" =>
         \E i \in DOMAIN db.events : /\ db.events[i].event_id = request[t].event_id
                                     /\ db.events[i] # request[t]

(* Seen through the accepted events and the acknowledgements, all of this  *)
(* is one atomic ledger: the many-statement transaction, its snapshot and  *)
(* its failures never show.                                                *)
Ledger == INSTANCE EventLedger WITH Events <- ValidEvents, log <- db.events

ImplementsLedger == Ledger!LedgerSpec
=============================================================================
