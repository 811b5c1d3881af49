---------------------------- MODULE IntakeProofs ----------------------------
(***************************************************************************)
(* Theorems about Intake, for any number of requests, events and routes:   *)
(* what it stores and answers, and that the alert table and the queue are  *)
(* what the accepted history calls for.                                    *)
(***************************************************************************)
EXTENDS Intake, NaturalOrder, SequenceTheorems

-----------------------------------------------------------------------------
(* The alert state machine *)

(* The fields of an event lie in the sets named after them. *)
LEMMA EventFields ==
  ASSUME NEW e \in Events
  PROVE  /\ e.event_id \in EventIds
         /\ e.fingerprint \in Fingerprints
         /\ e.origin \in Origins
         /\ e.occurred_at \in Times
         /\ e.state \in EventStates
         /\ e.severity \in Severities
  BY EventsAssumption DEF EventIds, Fingerprints, Origins, Times

(* A new record is a record. *)
LEMMA NewAlertType ==
  ASSUME NEW e \in Events, NEW s \in AlertStatuses
  PROVE  NewAlert(e, s) \in AlertRecord
  BY EventFields DEF NewAlert, AlertRecord

(* Touching a record leaves a record. *)
LEMMA TouchType ==
  ASSUME NEW a \in AlertRecord, NEW e \in Events
  PROVE  Touch(a, e) \in AlertRecord
<1>1. a.event_count + 1 \in Nat \ {0}
  BY DEF AlertRecord
<1>2. e.occurred_at \in Times /\ e.event_id \in EventIds
  BY EventFields
<1>3. \A c \in Nat \ {0} : [a EXCEPT !.last_seen = e.occurred_at, !.event_count = c,
                                  !.last_event_id = e.event_id] \in AlertRecord
  BY <1>2 DEF AlertRecord
<1> QED
  BY <1>1, <1>3 DEF Touch

(* Whatever the record and the event, the transition gives a record (and   *)
(* never "no record"): every event leaves its fingerprint with an alert.   *)
LEMMA TransitionType ==
  ASSUME NEW a \in AlertRecord \cup {NoAlert}, NEW e \in Events
  PROVE  Transition(a, e) \in AlertRecord
<1>1. NewAlert(e, "firing") \in AlertRecord /\ NewAlert(e, "resolved") \in AlertRecord
      /\ NewAlert(e, "info") \in AlertRecord
  BY NewAlertType DEF AlertStatuses
<1>2. a # NoAlert => Touch(a, e) \in AlertRecord
  BY TouchType
<1>3. TransitionFiring(a, e) \in AlertRecord
  BY <1>1, <1>2, EventFields DEF TransitionFiring, AlertRecord
<1>4. TransitionResolved(a, e) \in AlertRecord
  BY <1>1, <1>2, EventFields DEF TransitionResolved, AlertRecord, AlertStatuses
<1>5. TransitionInfo(a, e) \in AlertRecord
  BY <1>1, <1>2, EventFields DEF TransitionInfo, AlertRecord, AlertStatuses
<1>6. e.state \in {"firing", "resolved", "info"}
  BY EventFields DEF EventStates
<1> QED
  BY <1>3, <1>4, <1>5, <1>6 DEF Transition

-----------------------------------------------------------------------------
(* Types *)

(* A row for an event and an alert record is a row. *)
LEMMA NewJobType ==
  ASSUME NEW e \in Events, NEW a \in AlertRecord, NEW c \in Channels
  PROVE  NewJob(e, a, c) \in JobRow
  BY EventFields DEF NewJob, JobRow, AlertRecord, JobStatuses

(* INSERT OR IGNORE leaves rows. *)
LEMMA InsertOrIgnoreType ==
  ASSUME NEW rows \in Seq(JobRow), NEW row \in JobRow
  PROVE  InsertOrIgnore(rows, row) \in Seq(JobRow)
  BY AppendProperties DEF InsertOrIgnore

(* The three writes of the transaction leave a database. *)
LEMMA InsertEventType ==
  ASSUME NEW d \in Database, NEW e \in Events
  PROVE  /\ [d EXCEPT !.events = Append(@, e)] \in Database
         /\ [d EXCEPT !.events = Append(@, e)].events = Append(d.events, e)
         /\ [d EXCEPT !.events = Append(@, e)].alerts = d.alerts
<1>1. Append(d.events, e) \in Seq(Events)
  BY AppendProperties DEF Database
<1> QED
  BY <1>1 DEF Database

(* The UPSERT of an alert leaves a database. *)
LEMMA SaveAlertType ==
  ASSUME NEW d \in Database, NEW f \in Fingerprints, NEW a \in AlertRecord
  PROVE  /\ [d EXCEPT !.alerts[f] = a] \in Database
         /\ [d EXCEPT !.alerts[f] = a].events = d.events
         /\ [d EXCEPT !.alerts[f] = a].alerts = [d.alerts EXCEPT ![f] = a]
<1>1. [d.alerts EXCEPT ![f] = a] \in [Fingerprints -> AlertRecord \cup {NoAlert}]
  BY DEF Database
<1> QED
  BY <1>1 DEF Database

(* So does the insertion of a job, or of none. *)
LEMMA EnqueueType ==
  ASSUME NEW d \in Database, NEW row \in JobRow
  PROVE  /\ [d EXCEPT !.notifications = InsertOrIgnore(@, row)] \in Database
         /\ [d EXCEPT !.notifications = InsertOrIgnore(@, row)].events = d.events
         /\ [d EXCEPT !.notifications = InsertOrIgnore(@, row)].alerts = d.alerts
<1>1. InsertOrIgnore(d.notifications, row) \in Seq(JobRow)
  BY InsertOrIgnoreType DEF Database
<1> QED
  BY <1>1 DEF Database

-----------------------------------------------------------------------------
(* The inductive invariant *)

Writing(t) == pc[t] \in {"inserted", "enqueueing"}
InTxn(t) == pc[t] = "reading" \/ Writing(t)

InLog(e) == \E i \in DOMAIN db.events : db.events[i] = e

(* Every event of d has its alert record. *)
Alerted(d) == \A i \in DOMAIN d.events : d.alerts[d.events[i].fingerprint] # NoAlert

(* Who may have a transaction open, and who may write. *)
TxnInv ==
  /\ \A c \in Connections : view[c] # NoTxn => c \in Tasks /\ InTxn(c)
  /\ \A t \in Tasks : InTxn(t) => view[t] # NoTxn /\ request[t] \in ValidEvents
  /\ writer # NoConn => writer \in Tasks /\ Writing(writer)
  /\ \A t \in Tasks : Writing(t) => writer = t
  /\ \A c \in stale : c \in Tasks /\ pc[c] = "reading"

(* What a transaction sees: a reader some past of the store, and the       *)
(* present one unless it is stale; the writer the present store and its    *)
(* own event, whose id is new.                                             *)
SnapshotOK(t) ==
  /\ pc[t] = "reading" =>
       /\ t \notin stale => view[t] = db
       /\ Alerted(view[t])
       /\ Len(view[t].events) <= Len(db.events)
       /\ \A i \in DOMAIN view[t].events : view[t].events[i] = db.events[i]
  /\ Writing(t) =>
       /\ view[t].events = Append(db.events, request[t])
       /\ \A i \in DOMAIN db.events : db.events[i].event_id # request[t].event_id
  /\ pc[t] = "inserted" => view[t].alerts = db.alerts
  /\ pc[t] = "enqueueing" => Alerted(view[t])

SnapshotInv == \A t \in Tasks : SnapshotOK(t)

StoreInv ==
  /\ Alerted(db)
  /\ EventIdsUnique
  /\ \A i \in DOMAIN db.events : db.events[i] \in ValidEvents

(* What an answer claims is true of the store. *)
ReplyOK(t) ==
  /\ pc[t] # "idle" => request[t] \in Events
  /\ pc[t] # "replying" => reply[t] = "none"
  /\ reply[t] \in Positive => InLog(request[t])
  /\ reply[t] # "missing"
  /\ reply[t] = "conflict" =>
       \E i \in DOMAIN db.events : /\ db.events[i].event_id = request[t].event_id
                                   /\ db.events[i] # request[t]

ReplyInv == \A t \in Tasks : ReplyOK(t)

IInv == TypeOK /\ TxnInv /\ SnapshotInv /\ StoreInv /\ ReplyInv /\ AckedIsStored

(* The invariant holds at the start. *)
LEMMA InitIInv == Init => IInv
<1> SUFFICES ASSUME Init PROVE IInv
  OBVIOUS
<1>1. db = EmptyDatabase /\ db.events = <<>> /\ db \in Database
  BY NoAlertAssumption DEF Init, SqliteInit, EmptyDatabase, Database
<1>2. DOMAIN db.events = {}
  BY <1>1
<1>3. TypeOK
  BY <1>1 DEF Init, SqliteInit, TypeOK, Phases
<1>4. TxnInv /\ SnapshotInv
  BY TasksAssumption DEF Init, SqliteInit, TxnInv, SnapshotInv, SnapshotOK, InTxn, Writing
<1>5. StoreInv /\ AckedIsStored
  BY <1>2 DEF Init, StoreInv, Alerted, EventIdsUnique, AckedIsStored
<1>6. ReplyInv
  BY DEF Init, ReplyInv, ReplyOK, Positive
<1> QED
  BY <1>3, <1>4, <1>5, <1>6 DEF IInv

(* A step that ends, or never began, the transaction of t and changes      *)
(* nothing of the store keeps what the others see of it.                   *)
LEMMA SnapshotsKept ==
  ASSUME SnapshotInv, NEW t \in Tasks, UNCHANGED db,
         pc'[t] \notin {"reading", "inserted", "enqueueing"},
         \A u \in Tasks : u # t =>
           /\ pc'[u] = pc[u] /\ view'[u] = view[u] /\ request'[u] = request[u]
           /\ u \in stale => u \in stale'
  PROVE  SnapshotInv'
<1> SUFFICES ASSUME NEW u \in Tasks PROVE SnapshotOK(u)'
  BY DEF SnapshotInv
<1>1. CASE u = t
  BY <1>1 DEF SnapshotOK, Writing
<1>2. CASE u # t
  <2>1. /\ pc'[u] = pc[u] /\ view'[u] = view[u] /\ request'[u] = request[u]
        /\ u \in stale => u \in stale'
    BY <1>2
  <2>2. SnapshotOK(u)
    BY DEF SnapshotInv
  <2> QED
    BY <2>1, <2>2 DEF SnapshotOK, Writing, Alerted
<1> QED
  BY <1>1, <1>2

(* A request arrives. *)
LEMMA ReceiveStep ==
  ASSUME IInv, NEW t \in Tasks, NEW e \in Events, Receive(t, e)
  PROVE  IInv'
<1> USE DEF IInv, Receive, Goto, sqliteVars
<1>1. TypeOK'
  BY DEF TypeOK, Phases
<1>2. TxnInv'
  <2>1. /\ pc[t] = "idle" /\ pc'[t] = "received"
        /\ \A u \in Tasks : u # t => pc'[u] = pc[u] /\ request'[u] = request[u]
        /\ UNCHANGED <<view, stale, writer>>
    BY DEF TypeOK
  <2>2. \A u \in Tasks : Writing(u)' <=> Writing(u)
    BY <2>1 DEF Writing
  <2>3. \A u \in Tasks : /\ InTxn(u)' <=> InTxn(u)
                         /\ InTxn(u) => u # t
    BY <2>1 DEF InTxn, Writing
  <2>4. \A u \in Tasks : pc[u] = "reading" => pc'[u] = "reading"
    BY <2>1
  <2> QED
    BY <2>1, <2>2, <2>3, <2>4 DEF TxnInv
<1>3. SnapshotInv'
  <2>1. /\ pc'[t] \notin {"reading", "inserted", "enqueueing"}
        /\ \A u \in Tasks : u # t =>
             /\ pc'[u] = pc[u] /\ view'[u] = view[u] /\ request'[u] = request[u]
             /\ u \in stale => u \in stale'
    BY DEF TypeOK
  <2> QED
    BY <2>1, SnapshotsKept
<1>4. StoreInv' /\ AckedIsStored'
  BY DEF StoreInv, Alerted, EventIdsUnique, AckedIsStored
<1>5. ReplyInv'
  BY DEF TypeOK, ReplyInv, ReplyOK, Positive, InLog
<1> QED
  BY <1>1, <1>2, <1>3, <1>4, <1>5

(* A request is refused before the transaction. *)
LEMMA RefuseStep ==
  ASSUME IInv, NEW t \in Tasks, Unauthorized(t) \/ Invalid(t)
  PROVE  IInv'
<1> USE DEF IInv, Unauthorized, Invalid, Answer, Goto, sqliteVars
<1>1. TypeOK'
  BY DEF TypeOK, Phases, Outcomes
<1>2. TxnInv'
  <2>1. /\ pc[t] = "received" /\ pc'[t] = "replying"
        /\ \A u \in Tasks : u # t => pc'[u] = pc[u]
        /\ UNCHANGED <<view, stale, writer, request>>
    BY DEF TypeOK
  <2>2. \A u \in Tasks : Writing(u)' <=> Writing(u)
    BY <2>1 DEF Writing
  <2>3. \A u \in Tasks : InTxn(u)' <=> InTxn(u)
    BY <2>1 DEF InTxn, Writing
  <2>4. \A u \in Tasks : pc[u] = "reading" => pc'[u] = "reading"
    BY <2>1
  <2> QED
    BY <2>1, <2>2, <2>3, <2>4 DEF TxnInv
<1>3. SnapshotInv'
  <2>1. /\ pc'[t] \notin {"reading", "inserted", "enqueueing"}
        /\ \A u \in Tasks : u # t =>
             /\ pc'[u] = pc[u] /\ view'[u] = view[u] /\ request'[u] = request[u]
             /\ u \in stale => u \in stale'
    BY DEF TypeOK
  <2> QED
    BY <2>1, SnapshotsKept
<1>4. StoreInv' /\ AckedIsStored'
  BY DEF StoreInv, Alerted, EventIdsUnique, AckedIsStored
<1>5. ReplyInv'
  <2> SUFFICES ASSUME NEW u \in Tasks PROVE ReplyOK(u)'
    BY DEF ReplyInv
  <2>1. ReplyOK(u)
    BY DEF ReplyInv
  <2>2. CASE u = t
    BY <2>1, <2>2 DEF TypeOK, ReplyOK, Positive
  <2>3. CASE u # t
    BY <2>1, <2>3 DEF TypeOK, ReplyOK, InLog
  <2> QED
    BY <2>2, <2>3
<1> QED
  BY <1>1, <1>2, <1>3, <1>4, <1>5

(* The client reads the answer, or is gone. *)
LEMMA FinishStep ==
  ASSUME IInv, NEW t \in Tasks, Respond(t) \/ Disconnect(t)
  PROVE  IInv'
<1> USE DEF IInv, Respond, Disconnect, Finish, Goto, sqliteVars
<1>1. TypeOK'
  <2>1. acked' \subseteq Events
    BY DEF TypeOK, ReplyInv, ReplyOK
  <2>2. todo' \in [Tasks -> Seq(Channels)]
    <3>1. <<>> \in Seq(Channels)
      OBVIOUS
    <3> QED
      BY <3>1 DEF TypeOK
  <2> QED
    BY <2>1, <2>2 DEF TypeOK, Phases
<1>2. TxnInv'
  <2>1. /\ ~InTxn(t) /\ pc'[t] = "idle"
        /\ \A u \in Tasks : u # t => pc'[u] = pc[u] /\ request'[u] = request[u]
        /\ UNCHANGED <<view, stale, writer>>
    BY DEF TypeOK, InTxn, Writing
  <2>2. \A u \in Tasks : Writing(u)' <=> Writing(u)
    BY <2>1 DEF InTxn, Writing
  <2>3. \A u \in Tasks : /\ InTxn(u)' <=> InTxn(u)
                         /\ InTxn(u) => u # t
    BY <2>1 DEF InTxn, Writing
  <2>4. \A u \in Tasks : pc[u] = "reading" => pc'[u] = "reading"
    BY <2>1 DEF InTxn
  <2> QED
    BY <2>1, <2>2, <2>3, <2>4 DEF TxnInv
<1>3. SnapshotInv'
  <2>1. /\ pc'[t] \notin {"reading", "inserted", "enqueueing"}
        /\ \A u \in Tasks : u # t =>
             /\ pc'[u] = pc[u] /\ view'[u] = view[u] /\ request'[u] = request[u]
             /\ u \in stale => u \in stale'
    BY DEF TypeOK
  <2> QED
    BY <2>1, SnapshotsKept
<1>4. StoreInv'
  BY DEF StoreInv, Alerted, EventIdsUnique
<1>5. AckedIsStored'
  BY DEF AckedIsStored, ReplyInv, ReplyOK, InLog
<1>6. ReplyInv'
  <2> SUFFICES ASSUME NEW u \in Tasks PROVE ReplyOK(u)'
    BY DEF ReplyInv
  <2>1. ReplyOK(u)
    BY DEF ReplyInv
  <2>2. CASE u = t
    BY <2>1, <2>2 DEF TypeOK, ReplyOK, Positive
  <2>3. CASE u # t
    BY <2>1, <2>3 DEF TypeOK, ReplyOK, InLog
  <2> QED
    BY <2>2, <2>3
<1> QED
  BY <1>1, <1>2, <1>3, <1>4, <1>5, <1>6

(* The transaction begins: its snapshot is the store. *)
LEMMA SelectStep ==
  ASSUME IInv, NEW t \in Tasks, Select(t)
  PROVE  IInv'
<1> USE DEF IInv, Select, Begin, Goto
<1>0. t \in Connections /\ db # NoTxn
  BY TasksAssumption, NoTxnAssumption DEF TypeOK
<1>1. TypeOK'
  BY <1>0 DEF TypeOK, Phases
<1>2. TxnInv'
  BY <1>0 DEF TypeOK, TxnInv, InTxn, Writing
<1>3. SnapshotInv'
  <2>1. Len(db.events) <= Len(db.events)
    <3>1. Len(db.events) \in Nat
      BY LenProperties DEF TypeOK, Database
    <3> QED
      BY <3>1
  <2>2. \A u \in Tasks : u # t => view'[u] = view[u] /\ pc'[u] = pc[u]
    BY DEF TypeOK
  <2>3. view'[t] = db /\ pc'[t] = "reading"
    BY <1>0 DEF TypeOK
  <2> QED
    BY <2>1, <2>2, <2>3 DEF SnapshotInv, SnapshotOK, StoreInv, Writing, Alerted
<1>4. StoreInv' /\ AckedIsStored'
  BY DEF StoreInv, Alerted, EventIdsUnique, AckedIsStored
<1>5. ReplyInv'
  <2> SUFFICES ASSUME NEW u \in Tasks PROVE ReplyOK(u)'
    BY DEF ReplyInv
  <2>1. ReplyOK(u)
    BY DEF ReplyInv
  <2>2. CASE u = t
    BY <2>1, <2>2 DEF TypeOK, ReplyOK, Positive
  <2>3. CASE u # t
    BY <2>1, <2>3 DEF TypeOK, ReplyOK, InLog
  <2> QED
    BY <2>2, <2>3
<1> QED
  BY <1>1, <1>2, <1>3, <1>4, <1>5

(* The transaction is dropped with an answer that the store bears out. *)
LEMMA RollbackStep ==
  ASSUME IInv, NEW t \in Tasks, InTxn(t), Rollback(t),
         NEW outcome \in Outcomes, Answer(t, outcome),
         todo' \in [Tasks -> Seq(Channels)], UNCHANGED <<request, acked>>,
         outcome # "missing",
         outcome \in Positive => InLog(request[t]),
         outcome = "conflict" =>
           \E i \in DOMAIN db.events : /\ db.events[i].event_id = request[t].event_id
                                       /\ db.events[i] # request[t]
  PROVE  IInv'
<1> USE DEF IInv, Rollback, Answer, Goto
<1>0. t \in Connections
  BY TasksAssumption
<1>1. TypeOK'
  BY <1>0 DEF TypeOK, Phases, Outcomes
<1>2. TxnInv'
  <2>1. /\ view'[t] = NoTxn /\ pc'[t] = "replying" /\ UNCHANGED request
        /\ \A c \in Connections : c # t => view'[c] = view[c]
        /\ \A u \in Tasks : u # t => pc'[u] = pc[u]
        /\ stale' = stale \ {t}
    BY <1>0 DEF TypeOK
  <2>2. ~InTxn(t)' /\ ~Writing(t)'
    BY <2>1 DEF InTxn, Writing
  <2>3. \A u \in Tasks : u # t => (InTxn(u)' <=> InTxn(u)) /\ (Writing(u)' <=> Writing(u))
    BY <2>1 DEF InTxn, Writing
  <2>4. \A c \in Connections : view'[c] # NoTxn => c \in Tasks /\ InTxn(c)'
    BY <2>1, <2>3 DEF TxnInv
  <2>5. \A u \in Tasks : InTxn(u)' => view'[u] # NoTxn /\ request'[u] \in ValidEvents
    BY <2>1, <2>2, <2>3, TasksAssumption DEF TxnInv
  <2>6. /\ writer' # NoConn => writer' \in Tasks /\ Writing(writer)'
        /\ \A u \in Tasks : Writing(u)' => writer' = u
    BY <2>2, <2>3 DEF TxnInv
  <2>7. \A c \in stale' : c \in Tasks /\ pc'[c] = "reading"
    BY <2>1 DEF TxnInv
  <2> QED
    BY <2>4, <2>5, <2>6, <2>7 DEF TxnInv
<1>3. SnapshotInv'
  <2>1. /\ pc'[t] \notin {"reading", "inserted", "enqueueing"}
        /\ \A u \in Tasks : u # t =>
             /\ pc'[u] = pc[u] /\ view'[u] = view[u] /\ request'[u] = request[u]
             /\ u \in stale => u \in stale'
    BY TasksAssumption DEF TypeOK
  <2> QED
    BY <2>1, SnapshotsKept
<1>4. StoreInv' /\ AckedIsStored'
  BY DEF StoreInv, Alerted, EventIdsUnique, AckedIsStored
<1>5. ReplyInv'
  <2> SUFFICES ASSUME NEW u \in Tasks PROVE ReplyOK(u)'
    BY DEF ReplyInv
  <2>1. ReplyOK(u)
    BY DEF ReplyInv
  <2>2. CASE u = t
    BY <2>1, <2>2 DEF TypeOK, ReplyOK, InLog, InTxn, Writing
  <2>3. CASE u # t
    BY <2>1, <2>3 DEF TypeOK, ReplyOK, InLog
  <2> QED
    BY <2>2, <2>3
<1> QED
  BY <1>1, <1>2, <1>3, <1>4, <1>5

(* Each of the ways an intake gives up its transaction is such a step. *)
LEMMA AbortStep ==
  ASSUME IInv, NEW t \in Tasks,
         Duplicate(t) \/ Conflict(t) \/ InsertBusy(t) \/ StatementError(t)
  PROVE  IInv'
<1>1. ASSUME Duplicate(t) PROVE IInv'
  <2> USE <1>1 DEF Duplicate
  <2>1. PICK i \in DOMAIN view[t].events : view[t].events[i] = request[t]
    BY DEF SamePayload
  <2>2. view[t].alerts[request[t].fingerprint] # NoAlert
    BY <2>1 DEF IInv, SnapshotInv, SnapshotOK, Alerted
  <2>3. i \in DOMAIN db.events /\ db.events[i] = request[t]
    <3>1. view[t].events \in Seq(Events) /\ db.events \in Seq(Events)
      BY TasksAssumption DEF IInv, TypeOK, TxnInv, InTxn, Database
    <3>2. Len(view[t].events) <= Len(db.events)
      BY DEF IInv, SnapshotInv, SnapshotOK
    <3>3. view[t].events[i] = db.events[i]
      BY DEF IInv, SnapshotInv, SnapshotOK
    <3> QED
      BY <2>1, <3>1, <3>2, <3>3, LenProperties
  <2>4. todo' \in [Tasks -> Seq(Channels)]
    BY DEF IInv, TypeOK
  <2> QED
    BY <2>2, <2>3, <2>4, RollbackStep DEF InTxn, InLog, Outcomes
<1>2. ASSUME Conflict(t) PROVE IInv'
  <2> USE <1>2 DEF Conflict
  <2>1. PICK i \in DOMAIN view[t].events :
          view[t].events[i].event_id = request[t].event_id
    BY DEF Known
  <2>2. view[t].events[i] # request[t]
    BY DEF SamePayload
  <2>3. i \in DOMAIN db.events /\ db.events[i] = view[t].events[i]
    <3>1. view[t].events \in Seq(Events) /\ db.events \in Seq(Events)
      BY TasksAssumption DEF IInv, TypeOK, TxnInv, InTxn, Database
    <3>2. Len(view[t].events) <= Len(db.events)
      BY DEF IInv, SnapshotInv, SnapshotOK
    <3>3. view[t].events[i] = db.events[i]
      BY DEF IInv, SnapshotInv, SnapshotOK
    <3> QED
      BY <3>1, <3>2, <3>3, LenProperties
  <2>4. todo' \in [Tasks -> Seq(Channels)]
    BY DEF IInv, TypeOK
  <2> QED
    BY <2>1, <2>2, <2>3, <2>4, RollbackStep DEF InTxn, Outcomes, Positive
<1>3. ASSUME InsertBusy(t) PROVE IInv'
  <2>1. todo' \in [Tasks -> Seq(Channels)]
    BY <1>3 DEF IInv, TypeOK, InsertBusy
  <2> QED
    BY <1>3, <2>1, RollbackStep DEF InsertBusy, InTxn, Outcomes, Positive
<1>4. ASSUME StatementError(t) PROVE IInv'
  <2>1. <<>> \in Seq(Channels)
    OBVIOUS
  <2>2. todo' \in [Tasks -> Seq(Channels)]
    BY <1>4, <2>1 DEF IInv, TypeOK, StatementError
  <2> QED
    BY <1>4, <2>2, RollbackStep DEF StatementError, InTxn, Writing, Outcomes, Positive
<1> QED
  BY <1>1, <1>2, <1>3, <1>4

(* The event enters the transaction, which is now the writer. *)
LEMMA InsertEventStep ==
  ASSUME IInv, NEW t \in Tasks, InsertEvent(t)
  PROVE  IInv'
<1> USE DEF IInv, InsertEvent, Goto, Write
<1> DEFINE d == [view[t] EXCEPT !.events = Append(@, request[t])]
<1>0. /\ t \in Connections /\ view[t] \in Database /\ request[t] \in Events
      /\ request[t] \in ValidEvents
  BY TasksAssumption, EventsAssumption DEF TypeOK, TxnInv, InTxn
<1>a. d \in Database /\ d.events = Append(view[t].events, request[t]) /\ d.alerts = view[t].alerts
  BY <1>0, InsertEventType
<1>b. d # NoTxn /\ view'[t] = d /\ pc'[t] = "inserted"
  BY <1>0, <1>a, NoTxnAssumption DEF TypeOK
<1>c. \A c \in Connections : c # t => view'[c] = view[c]
  BY DEF TypeOK
<1>d. \A u \in Tasks : u # t => pc'[u] = pc[u]
  BY DEF TypeOK
<1>e. writer = NoConn /\ t \notin stale /\ view[t] = db
  BY <1>0, NoConnAssumption DEF TxnInv, SnapshotInv, SnapshotOK, MayWrite, Writing
<1>1. TypeOK'
  BY <1>0, <1>a DEF TypeOK, Phases
<1>2. TxnInv'
  BY <1>0, <1>b, <1>c, <1>d, <1>e, TasksAssumption, NoConnAssumption DEF TypeOK, TxnInv, InTxn, Writing
<1>3. SnapshotInv'
  <2> SUFFICES ASSUME NEW u \in Tasks PROVE SnapshotOK(u)'
    BY DEF SnapshotInv
  <2>1. CASE u = t
    BY <2>1, <1>a, <1>b, <1>e DEF SnapshotOK, Known, Writing
  <2>2. CASE u # t
    BY <2>2, <1>c, <1>d, TasksAssumption DEF SnapshotInv, SnapshotOK, Writing, Alerted
  <2> QED
    BY <2>1, <2>2
<1>4. StoreInv' /\ AckedIsStored'
  BY DEF StoreInv, Alerted, EventIdsUnique, AckedIsStored
<1>5. ReplyInv'
  <2> SUFFICES ASSUME NEW u \in Tasks PROVE ReplyOK(u)'
    BY DEF ReplyInv
  <2> ReplyOK(u)
    BY DEF ReplyInv
  <2> QED
    BY DEF TypeOK, ReplyOK, InLog, Positive
<1> QED
  BY <1>1, <1>2, <1>3, <1>4, <1>5

(* The event's alert record is saved: every event of the transaction has   *)
(* one now.                                                                *)
LEMMA TransitionAlertStep ==
  ASSUME IInv, NEW t \in Tasks, TransitionAlert(t)
  PROVE  IInv'
<1> USE DEF IInv, TransitionAlert, Goto, Write
<1> DEFINE e == request[t]
           f == e.fingerprint
           a == Transition(view[t].alerts[f], e)
           d == [view[t] EXCEPT !.alerts[f] = a]
<1>0. t \in Connections /\ view[t] \in Database /\ e \in Events /\ e \in ValidEvents
  BY TasksAssumption, EventsAssumption DEF TypeOK, TxnInv, InTxn, Writing
<1>1a. f \in Fingerprints
  BY <1>0, EventFields
<1>1b. view[t].alerts[f] \in AlertRecord \cup {NoAlert}
  BY <1>0, <1>1a DEF Database
<1>1c. a \in AlertRecord
  BY <1>0, <1>1b, TransitionType
<1>a. /\ d \in Database /\ d.events = view[t].events
      /\ d.alerts = [view[t].alerts EXCEPT ![f] = a]
  BY <1>0, <1>1a, <1>1c, SaveAlertType
<1>b. d # NoTxn /\ view'[t] = d /\ pc'[t] = "enqueueing"
  BY <1>0, <1>a, NoTxnAssumption DEF TypeOK
<1>c. \A c \in Connections : c # t => view'[c] = view[c]
  BY DEF TypeOK
<1>d. \A u \in Tasks : u # t => pc'[u] = pc[u]
  BY DEF TypeOK
<1>f. Alerted(d)
  <2>1. view[t].events = Append(db.events, e) /\ view[t].alerts = db.alerts
    BY DEF SnapshotInv, SnapshotOK, Writing
  <2>2. db.events \in Seq(Events) /\ db.alerts \in [Fingerprints -> AlertRecord \cup {NoAlert}]
    BY DEF TypeOK, Database
  <2> SUFFICES ASSUME NEW i \in DOMAIN d.events PROVE d.alerts[d.events[i].fingerprint] # NoAlert
    BY DEF Alerted
  <2>3. CASE d.events[i].fingerprint = f
    BY <2>3, <1>a, <1>1a, <1>1c, <2>1, <2>2, NoAlertAssumption
  <2>4. CASE d.events[i].fingerprint # f
    <3>1. i \in DOMAIN db.events /\ d.events[i] = db.events[i]
      <4>1. d.events = Append(db.events, e) /\ Len(db.events) \in Nat
        BY <2>1, <2>2, <1>a, LenProperties
      <4>2. DOMAIN d.events = 1 .. Len(db.events) + 1 /\ DOMAIN db.events = 1 .. Len(db.events)
        BY <4>1, <2>2, <1>0, AppendProperties, LenProperties
      <4>3. i \in 1 .. Len(db.events) \/ i = Len(db.events) + 1
        BY <4>1, <4>2
      <4>4. d.events[Len(db.events) + 1] = e
        BY <4>1, <2>2, <1>0, AppendProperties
      <4>5. i \in 1 .. Len(db.events)
        BY <4>3, <4>4, <2>4
      <4>6. d.events[i] = db.events[i]
        BY <4>1, <4>5, <2>2, <1>0, AppendProperties
      <4> QED
        BY <4>2, <4>5, <4>6
    <3>2. db.alerts[db.events[i].fingerprint] # NoAlert
      BY <3>1 DEF StoreInv, Alerted
    <3> QED
      BY <3>1, <3>2, <2>4, <1>a, <2>1, <2>2
  <2> QED
    BY <2>3, <2>4
<1>1. TypeOK'
  <2>1. Routes[e] \in Seq(Channels) /\ <<>> \in Seq(Channels)
    BY <1>0, RoutesAssumption
  <2>2. todo' \in [Tasks -> Seq(Channels)]
    BY <2>1 DEF TypeOK
  <2>3. view' \in [Connections -> Database \cup {NoTxn}]
    BY <1>0, <1>a DEF TypeOK
  <2>4. /\ pc' \in [Tasks -> Phases] /\ stale' \subseteq Connections
        /\ writer' \in Connections \cup {NoConn}
    BY <1>0 DEF TypeOK, Phases
  <2> QED
    BY <2>2, <2>3, <2>4 DEF TypeOK
<1>2. TxnInv'
  BY <1>0, <1>b, <1>c, <1>d, TasksAssumption, NoConnAssumption DEF TypeOK, TxnInv, InTxn, Writing
<1>3. SnapshotInv'
  <2> SUFFICES ASSUME NEW u \in Tasks PROVE SnapshotOK(u)'
    BY DEF SnapshotInv
  <2>1. CASE u = t
    <3>1. /\ view[t].events = Append(db.events, request[t])
          /\ \A i \in DOMAIN db.events : db.events[i].event_id # request[t].event_id
      BY DEF SnapshotInv, SnapshotOK, Writing
    <3>2. Alerted(view'[t])
      BY <1>b, <1>f
    <3> HIDE DEF d
    <3> QED
      BY <2>1, <1>a, <1>b, <3>1, <3>2 DEF SnapshotOK, Writing, Alerted
  <2>2. CASE u # t
    BY <2>2, <1>c, <1>d, TasksAssumption DEF SnapshotInv, SnapshotOK, Writing, Alerted
  <2> QED
    BY <2>1, <2>2
<1>4. StoreInv' /\ AckedIsStored'
  BY DEF StoreInv, Alerted, EventIdsUnique, AckedIsStored
<1>5. ReplyInv'
  <2> SUFFICES ASSUME NEW u \in Tasks PROVE ReplyOK(u)'
    BY DEF ReplyInv
  <2> ReplyOK(u)
    BY DEF ReplyInv
  <2> QED
    BY DEF TypeOK, ReplyOK, InLog, Positive
<1> QED
  BY <1>1, <1>2, <1>3, <1>4, <1>5

(* One more job enters the transaction. *)
LEMMA EnqueueNextStep ==
  ASSUME IInv, NEW t \in Tasks, EnqueueNext(t)
  PROVE  IInv'
<1> USE DEF IInv, EnqueueNext, Write
<1> DEFINE e == request[t]
           job == NewJob(e, view[t].alerts[e.fingerprint], Head(todo[t]))
           d == [view[t] EXCEPT !.notifications = InsertOrIgnore(@, job)]
<1>0. t \in Connections /\ view[t] \in Database /\ e \in Events /\ e \in ValidEvents
  BY TasksAssumption, EventsAssumption DEF TypeOK, TxnInv, InTxn, Writing
<1>1a. view[t].alerts[e.fingerprint] \in AlertRecord
  <2>1. view[t].events = Append(db.events, e) /\ Alerted(view[t])
    BY DEF SnapshotInv, SnapshotOK, Writing
  <2>2. db.events \in Seq(Events)
    BY DEF TypeOK, Database
  <2>3. /\ Len(db.events) + 1 \in DOMAIN view[t].events
        /\ view[t].events[Len(db.events) + 1] = e
    BY <2>1, <2>2, <1>0, AppendProperties, LenProperties
  <2>4. view[t].alerts[e.fingerprint] # NoAlert
    BY <2>1, <2>3 DEF Alerted
  <2>5. e.fingerprint \in Fingerprints
    BY <1>0, EventFields
  <2> QED
    BY <2>4, <2>5, <1>0 DEF Database
<1>1b. Head(todo[t]) \in Channels /\ Tail(todo[t]) \in Seq(Channels)
  BY HeadTailProperties DEF TypeOK
<1>1c. job \in JobRow
  BY <1>0, <1>1a, <1>1b, NewJobType
<1>a. d \in Database /\ d.events = view[t].events /\ d.alerts = view[t].alerts
  BY <1>0, <1>1c, EnqueueType
<1>b. d # NoTxn /\ view'[t] = d /\ pc'[t] = "enqueueing"
  BY <1>0, <1>a, NoTxnAssumption DEF TypeOK
<1>c. \A c \in Connections : c # t => view'[c] = view[c]
  BY DEF TypeOK
<1>d. \A u \in Tasks : u # t => pc'[u] = pc[u]
  BY DEF TypeOK
<1>f. Alerted(d)
  BY <1>a DEF SnapshotInv, SnapshotOK, Alerted
<1>1. TypeOK'
  <2>1. todo' \in [Tasks -> Seq(Channels)]
    BY <1>1b DEF TypeOK
  <2>2. view' \in [Connections -> Database \cup {NoTxn}]
    BY <1>0, <1>a DEF TypeOK
  <2> QED
    BY <1>0, <2>1, <2>2 DEF TypeOK, Phases
<1>2. TxnInv'
  BY <1>0, <1>b, <1>c, <1>d, TasksAssumption, NoConnAssumption DEF TypeOK, TxnInv, InTxn, Writing
<1>3. SnapshotInv'
  <2> SUFFICES ASSUME NEW u \in Tasks PROVE SnapshotOK(u)'
    BY DEF SnapshotInv
  <2>1. CASE u = t
    <3>1. /\ view[t].events = Append(db.events, request[t])
          /\ \A i \in DOMAIN db.events : db.events[i].event_id # request[t].event_id
      BY DEF SnapshotInv, SnapshotOK, Writing
    <3>2. Alerted(view'[t])
      BY <1>b, <1>f
    <3> HIDE DEF d
    <3> QED
      BY <2>1, <1>a, <1>b, <3>1, <3>2 DEF SnapshotOK, Writing, Alerted
  <2>2. CASE u # t
    BY <2>2, <1>c, <1>d, TasksAssumption DEF SnapshotInv, SnapshotOK, Writing, Alerted
  <2> QED
    BY <2>1, <2>2
<1>4. StoreInv' /\ AckedIsStored'
  BY DEF StoreInv, Alerted, EventIdsUnique, AckedIsStored
<1>5. ReplyInv'
  <2> SUFFICES ASSUME NEW u \in Tasks PROVE ReplyOK(u)'
    BY DEF ReplyInv
  <2> ReplyOK(u)
    BY DEF ReplyInv
  <2> QED
    BY DEF TypeOK, ReplyOK, InLog, Positive
<1> QED
  BY <1>1, <1>2, <1>3, <1>4, <1>5

(* The transaction commits: its event, whose id is new, joins the store,   *)
(* and every other open snapshot is out of date.                           *)
LEMMA CommitEventStep ==
  ASSUME IInv, NEW t \in Tasks, CommitEvent(t)
  PROVE  /\ IInv'
         /\ db'.events = Append(db.events, request[t])
         /\ request[t] \in ValidEvents
         /\ \A i \in DOMAIN db.events : db.events[i].event_id # request[t].event_id
<1> USE DEF IInv, CommitEvent, Goto, Answer, Commit
<1> DEFINE n == Len(db.events)
           e == request[t]
<1>0. /\ t \in Connections /\ view[t] \in Database
      /\ request[t] \in ValidEvents /\ request[t] \in Events
  BY TasksAssumption, EventsAssumption DEF TypeOK, TxnInv, InTxn, Writing
<1>a. /\ db'.events = Append(db.events, e)
      /\ \A i \in DOMAIN db.events : db.events[i].event_id # e.event_id
      /\ Alerted(db')
  BY DEF SnapshotInv, SnapshotOK, Writing, Alerted
<1>b. db.events \in Seq(Events) /\ n \in Nat
  BY LenProperties DEF TypeOK, Database
<1>c. /\ DOMAIN db.events = 1 .. n
      /\ DOMAIN db'.events = 1 .. n + 1
      /\ Len(db'.events) = n + 1
      /\ \A i \in 1 .. n : db'.events[i] = db.events[i]
      /\ db'.events[n + 1] = e
  BY <1>0, <1>a, <1>b, AppendProperties, LenProperties
<1>d. /\ view'[t] = NoTxn /\ pc'[t] = "replying" /\ reply'[t] = "accepted"
      /\ \A c \in Connections : c # t => view'[c] = view[c]
      /\ \A u \in Tasks : u # t => pc'[u] = pc[u] /\ reply'[u] = reply[u]
  BY <1>0 DEF TypeOK
<1>e. \A i \in DOMAIN db.events : i \in DOMAIN db'.events /\ db'.events[i] = db.events[i]
  BY <1>b, <1>c
<1>f. n + 1 \in DOMAIN db'.events
  BY <1>b, <1>c
<1>1. TypeOK'
  BY <1>0 DEF TypeOK, Phases, Outcomes, OpenTxns
<1>2. TxnInv'
  BY <1>0, <1>d, TasksAssumption, NoConnAssumption DEF TypeOK, TxnInv, InTxn, Writing, OpenTxns
<1>3. SnapshotInv'
  <2> SUFFICES ASSUME NEW u \in Tasks PROVE SnapshotOK(u)'
    BY DEF SnapshotInv
  <2>1. CASE u = t
    BY <2>1, <1>d DEF SnapshotOK, Writing
  <2>2. CASE u # t
    <3>1. view'[u] = view[u] /\ pc'[u] = pc[u] /\ ~Writing(u)
      BY <2>2, <1>d, TasksAssumption DEF TxnInv, Writing
    <3>2. ASSUME pc[u] = "reading"
          PROVE  u \in stale'
      BY <2>2, <3>2, TasksAssumption DEF TxnInv, InTxn, OpenTxns
    <3>3. ASSUME pc[u] = "reading"
          PROVE  /\ Alerted(view[u])
                 /\ Len(view[u].events) <= Len(db'.events)
                 /\ \A i \in DOMAIN view[u].events : view[u].events[i] = db'.events[i]
      <4>1. /\ Alerted(view[u])
            /\ Len(view[u].events) <= n
            /\ \A i \in DOMAIN view[u].events : view[u].events[i] = db.events[i]
        BY <3>3 DEF SnapshotInv, SnapshotOK
      <4>2. view[u].events \in Seq(Events)
        BY <3>3, TasksAssumption DEF TypeOK, TxnInv, InTxn, Database
      <4>3. Len(view[u].events) \in Nat /\ DOMAIN view[u].events = 1 .. Len(view[u].events)
        BY <4>2, LenProperties
      <4>4. Len(view[u].events) <= Len(db'.events)
        BY <4>1, <4>3, <1>b, <1>c
      <4>5. \A i \in DOMAIN view[u].events : i \in 1 .. n
        BY <4>1, <4>3, <1>b
      <4> QED
        BY <4>1, <4>4, <4>5, <1>c
    <3> QED
      BY <3>1, <3>2, <3>3 DEF SnapshotOK, Writing, Alerted
  <2> QED
    BY <2>1, <2>2
<1>4. StoreInv'
  <2>1. \A i \in DOMAIN db'.events : i \in DOMAIN db.events \/ i = n + 1
    BY <1>b, <1>c
  <2>2. EventIdsUnique'
    <3> SUFFICES ASSUME NEW i \in DOMAIN db'.events, NEW j \in DOMAIN db'.events,
                        db'.events[i].event_id = db'.events[j].event_id
                 PROVE  i = j
      BY DEF EventIdsUnique
    <3>1. (i \in DOMAIN db.events \/ i = n + 1) /\ (j \in DOMAIN db.events \/ j = n + 1)
      BY <2>1
    <3>2. CASE i \in DOMAIN db.events /\ j \in DOMAIN db.events
      BY <3>2, <1>e DEF StoreInv, EventIdsUnique
    <3>3. CASE i \in DOMAIN db.events /\ j = n + 1
      BY <3>3, <1>e, <1>c, <1>a
    <3>4. CASE i = n + 1 /\ j \in DOMAIN db.events
      BY <3>4, <1>e, <1>c, <1>a
    <3> QED
      BY <3>1, <3>2, <3>3, <3>4
  <2>3. \A i \in DOMAIN db'.events : db'.events[i] \in ValidEvents
    BY <2>1, <1>0, <1>c, <1>e DEF StoreInv
  <2> QED
    BY <1>a, <2>2, <2>3 DEF StoreInv, Alerted
<1>5. AckedIsStored'
  BY <1>e DEF AckedIsStored
<1>6. ReplyInv'
  <2> SUFFICES ASSUME NEW u \in Tasks PROVE ReplyOK(u)'
    BY DEF ReplyInv
  <2>1. ReplyOK(u)
    BY DEF ReplyInv
  <2>2. CASE u = t
    BY <2>1, <2>2, <1>0, <1>c, <1>d, <1>f DEF ReplyOK, InLog
  <2>3. CASE u # t
    BY <2>1, <2>3, <1>d, <1>e DEF ReplyOK, InLog
  <2> QED
    BY <2>2, <2>3
<1> QED
  BY <1>0, <1>1, <1>2, <1>3, <1>4, <1>5, <1>6, <1>a

(* The process dies: what is committed stays. *)
LEMMA CrashStep ==
  ASSUME IInv, Crash
  PROVE  IInv'
<1> USE DEF IInv, Crash, LoseConnections
<1>1. TypeOK'
  <2>1. <<>> \in Seq(Channels)
    OBVIOUS
  <2> QED
    BY <2>1 DEF TypeOK, Phases
<1>2. TxnInv' /\ SnapshotInv'
  BY TasksAssumption DEF TxnInv, SnapshotInv, SnapshotOK, InTxn, Writing
<1>3. StoreInv' /\ AckedIsStored'
  BY DEF StoreInv, Alerted, EventIdsUnique, AckedIsStored
<1>4. ReplyInv'
  BY DEF ReplyInv, ReplyOK, Positive
<1> QED
  BY <1>1, <1>2, <1>3, <1>4

(* Every step preserves the invariant. *)
LEMMA NextIInv == IInv /\ [Next]_vars => IInv'
<1> SUFFICES ASSUME IInv, [Next]_vars PROVE IInv'
  OBVIOUS
<1>1. ASSUME NEW t \in Tasks, Handle(t) PROVE IInv'
  <2>1. CASE Unauthorized(t) \/ Invalid(t)
    BY <2>1, RefuseStep
  <2>2. CASE Respond(t) \/ Disconnect(t)
    BY <2>2, FinishStep
  <2>3. CASE Select(t)
    BY <2>3, SelectStep
  <2>4. CASE Duplicate(t) \/ Conflict(t) \/ InsertBusy(t) \/ StatementError(t)
    BY <2>4, AbortStep
  <2>5. CASE InsertEvent(t)
    BY <2>5, InsertEventStep
  <2>6. CASE TransitionAlert(t)
    BY <2>6, TransitionAlertStep
  <2>7. CASE EnqueueNext(t)
    BY <2>7, EnqueueNextStep
  <2>8. CASE CommitEvent(t)
    BY <2>8, CommitEventStep
  <2> QED
    BY <1>1, <2>1, <2>2, <2>3, <2>4, <2>5, <2>6, <2>7, <2>8 DEF Handle
<1>2. ASSUME NEW t \in Tasks, NEW e \in Events, Receive(t, e) PROVE IInv'
  BY <1>2, ReceiveStep
<1>3. CASE Crash
  BY <1>3, CrashStep
<1>4. CASE UNCHANGED vars
  BY <1>4 DEF vars, sqliteVars, taskVars, IInv, TypeOK, TxnInv, SnapshotInv, SnapshotOK,
     StoreInv, ReplyInv, ReplyOK, InLog, Alerted, EventIdsUnique, AckedIsStored, InTxn, Writing
<1> QED
  BY <1>1, <1>2, <1>3, <1>4 DEF Next

(* A step of the intake is a step of the ledger, or one it does not see: a *)
(* commit stores its event, a positive answer acknowledges one.            *)
LEMMA NextLedger == IInv /\ [Next]_vars => [Ledger!LedgerNext]_(Ledger!ledgerVars)
<1> SUFFICES ASSUME IInv, Next
             PROVE  Ledger!LedgerNext \/ UNCHANGED <<db.events, acked>>
  BY DEF vars, sqliteVars, taskVars, Ledger!ledgerVars
<1>1. ASSUME NEW t \in Tasks, CommitEvent(t) PROVE Ledger!LedgerNext
  <2>1. Ledger!Store(request[t])
    BY <1>1, CommitEventStep DEF CommitEvent, Ledger!Store
  <2> QED
    BY <1>1, <2>1, CommitEventStep DEF Ledger!LedgerNext
<1>2. ASSUME NEW t \in Tasks, Respond(t)
      PROVE  Ledger!LedgerNext \/ UNCHANGED <<db.events, acked>>
  <2>1. CASE reply[t] \in Positive
    <3>1. PICK i \in DOMAIN db.events : db.events[i] = request[t]
      BY <2>1 DEF IInv, ReplyInv, ReplyOK, InLog
    <3>2. request[t] \in ValidEvents
      BY <3>1 DEF IInv, StoreInv
    <3>3. Ledger!Acknowledge(request[t])
      BY <1>2, <2>1, <3>1 DEF Respond, sqliteVars, Ledger!Acknowledge
    <3> QED
      BY <3>2, <3>3 DEF Ledger!LedgerNext
  <2>2. CASE reply[t] \notin Positive
    BY <1>2, <2>2 DEF Respond, sqliteVars
  <2> QED
    BY <2>1, <2>2
<1>3. ASSUME NEW t \in Tasks, Handle(t), ~CommitEvent(t), ~Respond(t)
      PROVE  UNCHANGED <<db.events, acked>>
  BY <1>3 DEF Handle, Unauthorized, Invalid, Disconnect, Select, Duplicate, Conflict, InsertEvent,
     InsertBusy, TransitionAlert, EnqueueNext, StatementError, Begin, Write, Rollback, sqliteVars
<1>4. ASSUME NEW t \in Tasks, NEW e \in Events, Receive(t, e)
      PROVE  UNCHANGED <<db.events, acked>>
  BY <1>4 DEF Receive, sqliteVars
<1>5. CASE Crash
  BY <1>5 DEF Crash, LoseConnections
<1> QED
  BY <1>1, <1>2, <1>3, <1>4, <1>5 DEF Next

(* A step of the ledger only appends to it. *)
LEMMA LedgerGrows ==
  IInv /\ [Next]_vars =>
    [/\ Len(db.events) <= Len(db'.events)
     /\ \A i \in DOMAIN db.events : db'.events[i] = db.events[i]]_vars
<1> SUFFICES ASSUME IInv, [Next]_vars
             PROVE  /\ Len(db.events) <= Len(db'.events)
                    /\ \A i \in DOMAIN db.events : db'.events[i] = db.events[i]
  OBVIOUS
<1>1. db.events \in Seq(Events) /\ Len(db.events) \in Nat
  BY LenProperties DEF IInv, TypeOK, Database
<1>2. CASE UNCHANGED db.events
  BY <1>1, <1>2
<1>3. CASE \E e \in ValidEvents : db'.events = Append(db.events, e)
  <2>1. PICK e \in ValidEvents : db'.events = Append(db.events, e)
    BY <1>3
  <2>2. e \in Events
    BY EventsAssumption
  <2> QED
    BY <1>1, <2>1, <2>2, AppendProperties, LenProperties
<1> QED
  BY <1>2, <1>3, NextLedger DEF Ledger!LedgerNext, Ledger!Store, Ledger!Acknowledge, Ledger!ledgerVars

-----------------------------------------------------------------------------
(* The theorems *)

(* Every behaviour of the intake keeps the inductive invariant. *)
THEOREM Invariance == Spec => []IInv
<1> QED
  BY InitIInv, NextIInv, PTL DEF Spec

(* Every variable keeps its type, whatever the requests, their failures    *)
(* and the crashes.                                                        *)
THEOREM TypeCorrect == Spec => []TypeOK
<1>1. IInv => TypeOK
  BY DEF IInv
<1> QED
  BY <1>1, Invariance, PTL

(* What a client was told is stored is stored: accept commits before       *)
(* accept_event answers, and no later commit or crash takes it away.       *)
THEOREM Durability == Spec => []AckedIsStored
<1>1. IInv => AckedIsStored
  BY DEF IInv
<1> QED
  BY <1>1, Invariance, PTL

(* No two stored events share an event_id, for any number of requests      *)
(* posting it at once: the lookup and the insert of accept are one         *)
(* transaction, which a commit in between makes fail.                      *)
THEOREM Uniqueness == Spec => []EventIdsUnique
<1>1. IInv => EventIdsUnique
  BY DEF IInv, StoreInv
<1> QED
  BY <1>1, Invariance, PTL

(* accept never finds an event without its alert record, and only refuses  *)
(* as a conflict what is one.                                              *)
THEOREM Justification == Spec => []RefusalsJustified
<1>1. IInv => RefusalsJustified
  BY DEF IInv, ReplyInv, ReplyOK, RefusalsJustified
<1> QED
  BY <1>1, Invariance, PTL

(* No step loses, moves or rewrites a stored event. *)
THEOREM Growth == Spec => EventsOnlyGrow
<1> QED
  BY Invariance, LedgerGrows, PTL DEF Spec, EventsOnlyGrow

(* The intake implements the atomic ledger of events: each of its          *)
(* statements, failures and crashes is a step of the ledger or a stutter.  *)
THEOREM Refinement == Spec => ImplementsLedger
<1>1. Init => Ledger!LedgerInit
  BY DEF Init, SqliteInit, EmptyDatabase, Ledger!LedgerInit
<1> QED
  BY <1>1, Invariance, NextLedger, PTL DEF Spec, ImplementsLedger, Ledger!LedgerSpec

-----------------------------------------------------------------------------
(* One entry more: what the reference of Alerts says of log \o <<e>>       *)

(* What the alerts table should hold for f. *)
History(log, f) == IF About(log, f) = {} THEN NoAlert ELSE AlertOf(log, f)

(* The entries that set the severity, and those that set the origin.       *)
Rates(log, f) == {i \in About(log, f) : ~Remark(log, i)}
Places(log, f) ==
  {i \in About(log, f) : \/ i = First(About(log, f))
                         \/ log[i].state # "resolved" /\ ~Remark(log, i)}
Openings(log, f) == {i \in About(log, f) : Opens(log, i)}
Episode(log, f) == {i \in About(log, f) : i >= Start(log, f)}

(* What Last and First choose: a set of positions has a greatest and a     *)
(* least one.                                                              *)
LEMMA LastOf ==
  ASSUME NEW n \in Nat, NEW S \in SUBSET (1..n), S # {}
  PROVE  Last(S) \in S /\ \A j \in S : j <= Last(S)
<1>1. \E i \in S : \A j \in S : j <= i
  BY GreatestNatural
<1> QED
  BY <1>1, Zenon DEF Last

(* First chooses the least position. *)
LEMMA FirstOf ==
  ASSUME NEW S \in SUBSET Nat, S # {}
  PROVE  First(S) \in S /\ \A j \in S : First(S) <= j
<1>1. \E i \in S : \A j \in S : i <= j
  BY LeastNatural
<1> QED
  BY <1>1, Zenon DEF First

(* A new position is the last; the first stays. *)
LEMMA LastOfMore ==
  ASSUME NEW n \in Nat, NEW S \in SUBSET (1..n)
  PROVE  Last(S \cup {n + 1}) = n + 1
<1> DEFINE T == S \cup {n + 1}
<1>1. T \in SUBSET (1..(n + 1)) /\ T # {}
  OBVIOUS
<1>2. Last(T) \in T /\ \A j \in T : j <= Last(T)
  BY <1>1, LastOf
<1>3. n + 1 \in T
  OBVIOUS
<1>4. Last(T) \in 1..(n + 1) /\ n + 1 <= Last(T)
  BY <1>1, <1>2, <1>3
<1> QED
  BY <1>4

(* A position after all others is the first only of a set that was empty. *)
LEMMA FirstOfMore ==
  ASSUME NEW n \in Nat, NEW S \in SUBSET (1..n)
  PROVE  First(S \cup {n + 1}) = IF S = {} THEN n + 1 ELSE First(S)
<1> DEFINE T == S \cup {n + 1}
<1>1. T \in SUBSET Nat /\ T # {} /\ \A x : x \in T <=> x \in S \/ x = n + 1
  OBVIOUS
<1> HIDE DEF T
<1>2. First(T) \in T /\ \A j \in T : First(T) <= j
  BY <1>1, FirstOf
<1>3. CASE S = {}
  BY <1>1, <1>2, <1>3 DEF T
<1>4. CASE S # {}
  <2>1. S \in SUBSET Nat
    OBVIOUS
  <2>2. First(S) \in S /\ \A j \in S : First(S) <= j
    BY <1>4, <2>1, FirstOf
  <2>3. First(T) <= First(S) /\ First(T) \in Nat /\ First(S) \in 1..n
    BY <1>1, <1>2, <2>2
  <2>4. First(T) \in S
    BY <1>1, <1>2, <2>3
  <2>5. First(S) <= First(T)
    BY <2>2, <2>4
  <2>6. First(T) = First(S)
    BY <2>3, <2>5
  <2> QED
    BY <1>4, <2>6 DEF T
<1> QED
  BY <1>3, <1>4

(* The entries about a fingerprint are entries. *)
LEMMA AboutPositions ==
  ASSUME NEW log \in Seq(Events), NEW g
  PROVE  About(log, g) \in SUBSET (1..Len(log)) /\ Len(log) \in Nat
BY LenProperties DEF About

(* The entries of log are entries of the longer log, and e is its last.    *)
LEMMA AppendEntries ==
  ASSUME NEW log \in Seq(Events), NEW e \in Events
  PROVE  /\ Append(log, e) \in Seq(Events)
         /\ Len(log) \in Nat /\ Len(Append(log, e)) = Len(log) + 1
         /\ DOMAIN Append(log, e) = 1..(Len(log) + 1) /\ DOMAIN log = 1..Len(log)
         /\ \A i \in 1..Len(log) : Append(log, e)[i] = log[i]
         /\ Append(log, e)[Len(log) + 1] = e
BY AppendProperties, LenProperties

(* One more entry is about its own fingerprint only. *)
LEMMA AppendAbout ==
  ASSUME NEW log \in Seq(Events), NEW e \in Events, NEW g
  PROVE  About(Append(log, e), g) =
           IF g = e.fingerprint THEN About(log, g) \cup {Len(log) + 1} ELSE About(log, g)
<1> DEFINE h == Append(log, e)
           n == Len(log)
<1>1. /\ n \in Nat /\ DOMAIN h = 1..(n + 1) /\ DOMAIN log = 1..n
      /\ (\A i \in 1..n : h[i] = log[i]) /\ h[n + 1] = e
  BY AppendEntries
<1> HIDE DEF h, n
<1>2. ASSUME NEW i
      PROVE  i \in About(h, g) <=> i \in About(log, g) \/ (i = n + 1 /\ g = e.fingerprint)
  <2>1. CASE i \in 1..n
    BY <1>1, <2>1 DEF About
  <2>2. CASE i = n + 1
    BY <1>1, <2>2 DEF About
  <2>3. CASE i \notin 1..(n + 1)
    BY <1>1, <2>3 DEF About
  <2> QED
    BY <1>1, <2>1, <2>2, <2>3
<1> QED
  BY <1>2 DEF h, n

(* What was quiet at an old position, or just after, is so still. *)
LEMMA AppendQuiet ==
  ASSUME NEW log \in Seq(Events), NEW e \in Events, NEW g, NEW i \in 1..(Len(log) + 1)
  PROVE  Quiet(Append(log, e), g, i) <=> Quiet(log, g, i)
<1> DEFINE h == Append(log, e)
           n == Len(log)
<1>1. n \in Nat /\ \A j \in 1..n : h[j] = log[j]
  BY AppendEntries
<1>2. About(log, g) \subseteq 1..n
  BY AboutPositions
<1>3. \A j : j \in About(h, g) /\ j < i <=> j \in About(log, g) /\ j < i
  BY <1>1, <1>2, AppendAbout
<1> HIDE DEF h, n
<1>4. \A j \in About(log, g) : h[j] = log[j]
  BY <1>1, <1>2
<1> QED
  BY <1>3, <1>4 DEF Quiet, h

(* Whether an entry opens an episode, or is a remark, is settled when it   *)
(* is made.                                                                *)
LEMMA AppendKinds ==
  ASSUME NEW log \in Seq(Events), NEW e \in Events, NEW i \in 1..Len(log)
  PROVE  /\ Opens(Append(log, e), i) <=> Opens(log, i)
         /\ Remark(Append(log, e), i) <=> Remark(log, i)
<1>1. Append(log, e)[i] = log[i] /\ i \in 1..(Len(log) + 1)
  BY AppendEntries
<1> QED
  BY <1>1, AppendQuiet DEF Opens, Remark

(* What the new entry is. *)
LEMMA NewKind ==
  ASSUME NEW log \in Seq(Events), NEW e \in Events
  PROVE  /\ Opens(Append(log, e), Len(log) + 1)
              <=> e.state = "firing" /\ Quiet(log, e.fingerprint, Len(log) + 1)
         /\ Remark(Append(log, e), Len(log) + 1)
              <=> e.state = "info" /\ ~Quiet(log, e.fingerprint, Len(log) + 1)
<1>1. Append(log, e)[Len(log) + 1] = e /\ Len(log) + 1 \in 1..(Len(log) + 1)
  BY AppendEntries
<1> QED
  BY <1>1, AppendQuiet DEF Opens, Remark

(* Whether all is quiet after the new entry. *)
LEMMA QuietAfter ==
  ASSUME NEW log \in Seq(Events), NEW e \in Events, NEW g
  PROVE  Quiet(Append(log, e), g, Len(log) + 2) <=>
           IF g # e.fingerprint THEN Quiet(log, g, Len(log) + 1)
           ELSE \/ e.state = "resolved"
                \/ e.state # "firing" /\ Quiet(log, g, Len(log) + 1)
<1> DEFINE h == Append(log, e)
           n == Len(log)
           About1 == About(log, g)
<1>1. n \in Nat /\ (\A j \in 1..n : h[j] = log[j]) /\ h[n + 1] = e
  BY AppendEntries
<1>2. About1 \subseteq 1..n
  BY AboutPositions
<1>3. About(h, g) = IF g = e.fingerprint THEN About1 \cup {n + 1} ELSE About1
  BY AppendAbout
<1>4. Quiet(h, g, n + 2) <=>
        \A j \in About(h, g) : j < n + 2 /\ h[j].state = "firing" =>
          \E k \in About(h, g) : j < k /\ k < n + 2 /\ h[k].state = "resolved"
  BY DEF Quiet
<1>5. Quiet(log, g, n + 1) <=>
        \A j \in About1 : j < n + 1 /\ log[j].state = "firing" =>
          \E k \in About1 : j < k /\ k < n + 1 /\ log[k].state = "resolved"
  BY DEF Quiet
<1> HIDE DEF h, n, About1
<1>6. ASSUME NEW j \in About1
      PROVE  j < n + 1 /\ j < n + 2 /\ h[j] = log[j] /\ j \in Nat
  <2>1. j \in 1..n
    BY <1>2
  <2>2. h[j] = log[j]
    BY <1>1, <2>1
  <2> QED
    BY <1>1, <2>1, <2>2
<1>7. CASE g # e.fingerprint
  <2>1. \A j : j \in About(h, g) <=> j \in About1
    BY <1>3, <1>7
  <2>2. Quiet(h, g, n + 2) <=> Quiet(log, g, n + 1)
    BY <1>4, <1>5, <1>6, <2>1
  <2> QED
    BY <1>7, <2>2 DEF h, n
<1>8. CASE g = e.fingerprint /\ e.state = "firing"
  <2>1. n + 1 \in About(h, g) /\ n + 1 < n + 2 /\ h[n + 1].state = "firing"
    BY <1>1, <1>3, <1>8
  <2>2. \A k \in About(h, g) : ~(n + 1 < k /\ k < n + 2)
    BY <1>1, <1>3, <1>6
  <2>3. ~Quiet(h, g, n + 2)
    BY <1>4, <2>1, <2>2
  <2> QED
    BY <1>8, <2>3 DEF h, n
<1>9. CASE g = e.fingerprint /\ e.state = "resolved"
  <2>1. n + 1 \in About(h, g) /\ n + 1 < n + 2 /\ h[n + 1].state = "resolved"
    BY <1>1, <1>3, <1>9
  <2>2. \A j \in About(h, g) : h[j].state = "firing" => j < n + 1
    BY <1>1, <1>3, <1>6, <1>9
  <2>3. Quiet(h, g, n + 2)
    BY <1>4, <2>1, <2>2
  <2> QED
    BY <1>9, <2>3 DEF h, n
<1>10. CASE g = e.fingerprint /\ e.state = "info"
  <2>1. \A j : j \in About(h, g) /\ h[j].state # "info" <=> j \in About1 /\ h[j].state # "info"
    BY <1>1, <1>3, <1>10
  <2>2. Quiet(h, g, n + 2) <=> Quiet(log, g, n + 1)
    BY <1>4, <1>5, <1>6, <2>1
  <2> QED
    BY <1>10, <2>2 DEF h, n
<1> QED
  BY <1>7, <1>8, <1>9, <1>10, EventFields DEF EventStates

(* The first entry about a fingerprint is no remark. *)
LEMMA Founder ==
  ASSUME NEW log \in Seq(Events), NEW g, About(log, g) # {}
  PROVE  /\ First(About(log, g)) \in About(log, g)
         /\ First(About(log, g)) \in Rates(log, g) \cap Places(log, g)
<1> DEFINE S == About(log, g)
<1>1. S \in SUBSET Nat /\ S # {}
  BY AboutPositions
<1>2. First(S) \in S /\ \A j \in S : First(S) <= j
  BY <1>1, FirstOf
<1>3. \A j \in S : ~(j < First(S))
  BY <1>1, <1>2
<1>4. Quiet(log, g, First(S)) /\ log[First(S)].fingerprint = g
  BY <1>2, <1>3 DEF Quiet, About
<1>5. ~Remark(log, First(S))
  BY <1>4 DEF Remark
<1> QED
  BY <1>2, <1>5 DEF Rates, Places

(* The entries that matter to another fingerprint are the same. *)
LEMMA OtherEntries ==
  ASSUME NEW log \in Seq(Events), NEW e \in Events, NEW g, g # e.fingerprint
  PROVE  /\ About(Append(log, e), g) = About(log, g)
         /\ Rates(Append(log, e), g) = Rates(log, g)
         /\ Places(Append(log, e), g) = Places(log, g)
         /\ Openings(Append(log, e), g) = Openings(log, g)
<1>1. About(Append(log, e), g) = About(log, g)
  BY AppendAbout
<1>2. \A i \in About(log, g) : /\ Append(log, e)[i] = log[i]
                               /\ Opens(Append(log, e), i) <=> Opens(log, i)
                               /\ Remark(Append(log, e), i) <=> Remark(log, i)
  BY AboutPositions, AppendEntries, AppendKinds
<1> QED
  BY <1>1, <1>2 DEF Rates, Places, Openings

(* Those of its own gain the new one, if it is of their kind. *)
LEMMA OwnEntries ==
  ASSUME NEW log \in Seq(Events), NEW e \in Events
  PROVE  LET h == Append(log, e)
             n == Len(log)
             f == e.fingerprint
             more(old, new) == IF new THEN old \cup {n + 1} ELSE old
         IN  /\ About(h, f) = About(log, f) \cup {n + 1}
             /\ Rates(h, f) = more(Rates(log, f), ~Remark(h, n + 1))
             /\ Openings(h, f) = more(Openings(log, f), Opens(h, n + 1))
             /\ About(log, f) # {} =>
                  Places(h, f) = more(Places(log, f), e.state # "resolved" /\ ~Remark(h, n + 1))
<1> DEFINE h == Append(log, e)
           n == Len(log)
           f == e.fingerprint
<1>1. About(h, f) = About(log, f) \cup {n + 1}
  BY AppendAbout
<1>2. /\ n \in Nat /\ h[n + 1] = e
      /\ \A i \in 1..n : /\ h[i] = log[i]
                         /\ Opens(h, i) <=> Opens(log, i)
                         /\ Remark(h, i) <=> Remark(log, i)
  BY AppendEntries, AppendKinds
<1>3. About(log, f) \in SUBSET (1..n)
  BY AboutPositions
<1>4. About(log, f) # {} => /\ First(About(h, f)) = First(About(log, f))
                            /\ First(About(log, f)) \in 1..n
  BY <1>1, <1>2, <1>3, FirstOfMore, Founder
<1> HIDE DEF h, n, f
<1>5. Rates(h, f) = IF ~Remark(h, n + 1) THEN Rates(log, f) \cup {n + 1} ELSE Rates(log, f)
  BY <1>1, <1>2, <1>3 DEF Rates
<1>6. Openings(h, f) = IF Opens(h, n + 1) THEN Openings(log, f) \cup {n + 1} ELSE Openings(log, f)
  BY <1>1, <1>2, <1>3 DEF Openings
<1>7. ASSUME About(log, f) # {}
      PROVE  Places(h, f) = IF e.state # "resolved" /\ ~Remark(h, n + 1)
                            THEN Places(log, f) \cup {n + 1} ELSE Places(log, f)
  <2> DEFINE first == First(About(log, f))
  <2>1. first \in 1..n /\ First(About(h, f)) = first /\ first # n + 1
    BY <1>2, <1>4, <1>7
  <2> HIDE DEF first
  <2>2. \A i : i \in Places(h, f) <=>
          /\ i \in About(log, f) \/ i = n + 1
          /\ i = first \/ (h[i].state # "resolved" /\ ~Remark(h, i))
    BY <1>1, <2>1 DEF Places
  <2>3. \A i : i \in Places(log, f) <=>
          /\ i \in About(log, f)
          /\ i = first \/ (log[i].state # "resolved" /\ ~Remark(log, i))
    BY DEF Places, first
  <2>4. \A i \in About(log, f) : i # n + 1 /\ h[i] = log[i] /\ (Remark(h, i) <=> Remark(log, i))
    BY <1>2, <1>3
  <2>5. \A i : i \in Places(h, f) <=>
          i \in Places(log, f) \/ (i = n + 1 /\ e.state # "resolved" /\ ~Remark(h, n + 1))
    BY <1>2, <2>1, <2>2, <2>3, <2>4
  <2> QED
    BY <2>5
<1> QED
  BY <1>1, <1>5, <1>6, <1>7 DEF h, n, f

(* Where an episode starts, there is an entry. *)
LEMMA StartIsThere ==
  ASSUME NEW log \in Seq(Events), NEW g, About(log, g) # {}
  PROVE  Start(log, g) \in About(log, g)
<1>1. Openings(log, g) \in SUBSET (1..Len(log)) /\ Openings(log, g) \subseteq About(log, g)
      /\ Len(log) \in Nat
  BY AboutPositions DEF Openings
<1>2. Start(log, g) =
        IF Openings(log, g) # {} THEN Last(Openings(log, g)) ELSE First(About(log, g))
  BY DEF Start, Openings
<1>3. CASE Openings(log, g) # {}
  BY <1>1, <1>2, <1>3, LastOf
<1>4. CASE Openings(log, g) = {}
  BY <1>2, <1>4, Founder
<1> QED
  BY <1>3, <1>4

(* An opening entry, or the first, starts an episode; others join it. *)
LEMMA StartAfter ==
  ASSUME NEW log \in Seq(Events), NEW e \in Events
  PROVE  LET h == Append(log, e)
             n == Len(log)
             f == e.fingerprint
         IN  Start(h, f) = IF Opens(h, n + 1) \/ About(log, f) = {} THEN n + 1 ELSE Start(log, f)
<1> DEFINE h == Append(log, e)
           n == Len(log)
           f == e.fingerprint
<1>1. /\ n \in Nat
      /\ About(log, f) \in SUBSET (1..n) /\ Openings(log, f) \in SUBSET (1..n)
      /\ About(log, f) = {} => Openings(log, f) = {}
  BY AboutPositions DEF Openings
<1>2. /\ About(h, f) = About(log, f) \cup {n + 1}
      /\ Openings(h, f) =
           IF Opens(h, n + 1) THEN Openings(log, f) \cup {n + 1} ELSE Openings(log, f)
  BY OwnEntries
<1>3. \A l : Start(l, f) =
        IF Openings(l, f) # {} THEN Last(Openings(l, f)) ELSE First(About(l, f))
  BY DEF Start, Openings
<1>4. Last(Openings(log, f) \cup {n + 1}) = n + 1
  BY <1>1, LastOfMore
<1>5. First(About(log, f) \cup {n + 1}) =
        IF About(log, f) = {} THEN n + 1 ELSE First(About(log, f))
  BY <1>1, FirstOfMore
<1> HIDE DEF h, n, f
<1>6. CASE Opens(h, n + 1)
  BY <1>2, <1>3, <1>4, <1>6 DEF h, n, f
<1>7. CASE ~Opens(h, n + 1)
  BY <1>1, <1>2, <1>3, <1>5, <1>7 DEF h, n, f
<1> QED
  BY <1>6, <1>7

(* An episode begins with one entry and grows by one. *)
LEMMA CountAfter ==
  ASSUME NEW log \in Seq(Events), NEW e \in Events
  PROVE  LET h == Append(log, e)
             n == Len(log)
             f == e.fingerprint
         IN  /\ Cardinality(Episode(log, f)) \in Nat
             /\ About(log, f) # {} => Cardinality(Episode(log, f)) > 0
             /\ Cardinality(Episode(h, f)) =
                  IF Opens(h, n + 1) \/ About(log, f) = {} THEN 1
                  ELSE Cardinality(Episode(log, f)) + 1
<1> DEFINE h == Append(log, e)
           n == Len(log)
           f == e.fingerprint
<1>1. /\ n \in Nat /\ About(log, f) \in SUBSET (1..n)
      /\ About(h, f) = About(log, f) \cup {n + 1}
  BY AboutPositions, OwnEntries
<1>2. Start(h, f) = IF Opens(h, n + 1) \/ About(log, f) = {} THEN n + 1 ELSE Start(log, f)
  BY StartAfter
<1>3. About(log, f) # {} => Start(log, f) \in About(log, f)
  BY StartIsThere
<1> HIDE DEF h, n, f
<1>4. IsFiniteSet(Episode(log, f))
  <2>1. Episode(log, f) \subseteq 1..n /\ IsFiniteSet(1..n)
    BY <1>1, FS_Interval DEF Episode
  <2> QED
    BY <2>1, FS_Subset
<1>5. Cardinality(Episode(log, f)) \in Nat
  BY <1>4, FS_CardinalityType
<1>6. About(log, f) # {} => Cardinality(Episode(log, f)) > 0
  <2>1. About(log, f) # {} => Start(log, f) \in Episode(log, f)
    BY <1>1, <1>3 DEF Episode
  <2>2. Cardinality(Episode(log, f)) = 0 <=> Episode(log, f) = {}
    BY <1>4, FS_EmptySet
  <2> QED
    BY <1>5, <2>1, <2>2
<1>7. CASE Opens(h, n + 1) \/ About(log, f) = {}
  <2>1. Episode(h, f) = {n + 1}
    BY <1>1, <1>2, <1>7 DEF Episode
  <2>2. Cardinality({n + 1}) = 1
    BY FS_Singleton
  <2> QED
    BY <1>5, <1>6, <1>7, <2>1, <2>2 DEF h, n, f
<1>8. CASE ~(Opens(h, n + 1) \/ About(log, f) = {})
  <2>1. Episode(h, f) = Episode(log, f) \cup {n + 1} /\ n + 1 \notin Episode(log, f)
    BY <1>1, <1>2, <1>3, <1>8 DEF Episode
  <2>2. Cardinality(Episode(log, f) \cup {n + 1}) = Cardinality(Episode(log, f)) + 1
    BY <1>4, <2>1, FS_AddElement
  <2> QED
    BY <1>5, <1>6, <1>8, <2>1, <2>2 DEF h, n, f
<1> QED
  BY <1>7, <1>8

(* The last entries of the sets are entries of both logs. *)
LEMMA LastEntries ==
  ASSUME NEW log \in Seq(Events), NEW e \in Events, NEW g, About(log, g) # {}
  PROVE  \A S \in {About(log, g), Rates(log, g), Places(log, g)} :
           /\ S \in SUBSET (1..Len(log)) /\ Last(S) \in S
           /\ Append(log, e)[Last(S)] = log[Last(S)]
<1>1. SUFFICES ASSUME NEW S \in {About(log, g), Rates(log, g), Places(log, g)}
               PROVE  /\ S \in SUBSET (1..Len(log)) /\ Last(S) \in S
                      /\ Append(log, e)[Last(S)] = log[Last(S)]
  OBVIOUS
<1>2. S \in SUBSET (1..Len(log)) /\ Len(log) \in Nat
  BY AboutPositions DEF Rates, Places
<1>3. S # {}
  BY Founder
<1>4. Last(S) \in S
  BY <1>2, <1>3, LastOf
<1> QED
  BY <1>2, <1>4, AppendEntries

(* An alert is firing exactly while its firings are unresolved. *)
LEMMA FiringStatus ==
  ASSUME NEW log \in Seq(Events), NEW g, About(log, g) # {}
  PROVE  StatusOf(log, g) = "firing" <=> ~Quiet(log, g, Len(log) + 1)
<1> DEFINE l == Last(About(log, g))
<1>1. /\ About(log, g) \in SUBSET (1..Len(log)) /\ Len(log) \in Nat
      /\ l \in About(log, g) /\ \A k \in About(log, g) : k <= l
  BY AboutPositions, LastOf
<1> HIDE DEF l
<1>2. ASSUME Quiet(log, g, Len(log) + 1), log[l].state = "firing" PROVE FALSE
  <2>1. l < Len(log) + 1
    BY <1>1
  <2>2. PICK k \in About(log, g) : l < k
    BY <1>1, <1>2, <2>1 DEF Quiet
  <2>3. k <= l /\ k \in Nat /\ l \in Nat
    BY <1>1
  <2> QED
    BY <2>2, <2>3
<1> QED
  BY <1>2 DEF StatusOf, l

(* The record of the longer log, field by field. *)
LEMMA StatusAfter ==
  ASSUME NEW log \in Seq(Events), NEW e \in Events
  PROVE  LET n == Len(log)
             f == e.fingerprint
         IN  StatusOf(Append(log, e), f) =
               IF e.state = "info" /\ ~Quiet(log, f, n + 1) THEN "firing" ELSE e.state
<1> DEFINE h == Append(log, e)
           n == Len(log)
           f == e.fingerprint
<1>1. About(h, f) = About(log, f) \cup {n + 1} /\ About(log, f) \in SUBSET (1..n)
      /\ n \in Nat /\ Len(h) = n + 1 /\ h[n + 1] = e
  BY AboutPositions, OwnEntries, AppendEntries
<1>2. Last(About(h, f)) = n + 1
  BY <1>1, LastOfMore
<1>3. (n + 1) + 1 = n + 2
  BY <1>1
<1>4. StatusOf(h, f) = IF ~Quiet(h, f, n + 2) THEN "firing" ELSE e.state
  BY <1>1, <1>2, <1>3 DEF StatusOf
<1>5. Quiet(h, f, n + 2) <=>
        e.state = "resolved" \/ (e.state # "firing" /\ Quiet(log, f, n + 1))
  BY QuietAfter
<1>6. e.state \in {"firing", "resolved", "info"}
  BY EventFields DEF EventStates
<1> HIDE DEF h
<1> QED
  BY <1>4, <1>5, <1>6 DEF h

(* The record a longer history calls for, field by field, from the one the *)
(* shorter history called for.                                             *)
LEMMA RecordAfter ==
  ASSUME NEW log \in Seq(Events), NEW e \in Events
  PROVE  LET h == Append(log, e)
             n == Len(log)
             f == e.fingerprint
             a == AlertOf(log, f)
             fresh == Opens(h, n + 1) \/ About(log, f) = {}
             remark == e.state = "info" /\ ~Quiet(log, f, n + 1)
             status == IF remark THEN "firing" ELSE e.state
         IN  AlertOf(h, f) =
               [fingerprint |-> f,
                status |-> status,
                severity |-> IF remark THEN a.severity ELSE e.severity,
                origin |-> IF About(log, f) # {} /\ (remark \/ e.state = "resolved")
                           THEN a.origin ELSE e.origin,
                opened_at |-> IF fresh THEN e.occurred_at ELSE a.opened_at,
                last_seen |-> e.occurred_at,
                resolved_at |-> IF status = "resolved" THEN e.occurred_at ELSE NoTime,
                event_count |-> IF fresh THEN 1 ELSE a.event_count + 1,
                last_event_id |-> e.event_id]
<1> DEFINE h == Append(log, e)
           n == Len(log)
           f == e.fingerprint
           a == AlertOf(log, f)
           fresh == Opens(h, n + 1) \/ About(log, f) = {}
           remark == e.state = "info" /\ ~Quiet(log, f, n + 1)
           status == IF remark THEN "firing" ELSE e.state
<1>1. \A l, g : AlertOf(l, g) =
        [fingerprint |-> g,
         status |-> StatusOf(l, g),
         severity |-> l[Last(Rates(l, g))].severity,
         origin |-> l[Last(Places(l, g))].origin,
         opened_at |-> l[Start(l, g)].occurred_at,
         last_seen |-> l[Last(About(l, g))].occurred_at,
         resolved_at |-> IF StatusOf(l, g) = "resolved" THEN l[Last(About(l, g))].occurred_at
                                                         ELSE NoTime,
         event_count |-> Cardinality(Episode(l, g)),
         last_event_id |-> l[Last(About(l, g))].event_id]
  BY DEF AlertOf, Rates, Places, Episode
<1>2. /\ n \in Nat /\ h[n + 1] = e /\ \A i \in 1..n : h[i] = log[i]
      /\ About(log, f) \in SUBSET (1..n)
      /\ Rates(log, f) \in SUBSET (1..n) /\ Places(log, f) \in SUBSET (1..n)
  BY AppendEntries, AboutPositions DEF Rates, Places
<1>3. /\ About(h, f) = About(log, f) \cup {n + 1}
      /\ Rates(h, f) = IF ~Remark(h, n + 1) THEN Rates(log, f) \cup {n + 1} ELSE Rates(log, f)
      /\ About(log, f) # {} =>
           Places(h, f) = IF e.state # "resolved" /\ ~Remark(h, n + 1)
                          THEN Places(log, f) \cup {n + 1} ELSE Places(log, f)
  BY OwnEntries
<1>4. Remark(h, n + 1) <=> remark
  BY NewKind
<1>5. About(log, f) = {} => ~remark
  BY DEF Quiet
<1>6. h[Last(About(h, f))] = e
  BY <1>2, <1>3, LastOfMore
<1>7. About(log, f) # {} => /\ h[Last(Rates(log, f))] = log[Last(Rates(log, f))]
                            /\ h[Last(Places(log, f))] = log[Last(Places(log, f))]
                            /\ h[Start(log, f)] = log[Start(log, f)]
  BY <1>2, LastEntries, StartIsThere
<1>8. h[Last(Rates(h, f))] = IF remark THEN log[Last(Rates(log, f))] ELSE e
  BY <1>2, <1>3, <1>4, <1>5, <1>7, LastOfMore
<1>9. h[Last(Places(h, f))] =
        IF About(log, f) # {} /\ (remark \/ e.state = "resolved")
        THEN log[Last(Places(log, f))] ELSE e
  <2>1. CASE About(log, f) # {}
    BY <1>2, <1>3, <1>4, <1>7, <2>1, LastOfMore
  <2>2. CASE About(log, f) = {}
    <3>1. {n + 1} = {} \cup {n + 1} /\ {} \in SUBSET (1..n)
      OBVIOUS
    <3>2. First({n + 1}) = n + 1 /\ Last({n + 1}) = n + 1
      BY <1>2, <3>1, FirstOfMore, LastOfMore
    <3>3. Places(h, f) = {n + 1}
      BY <1>3, <2>2, <3>2 DEF Places
    <3> QED
      BY <1>2, <2>2, <3>2, <3>3
  <2> QED
    BY <2>1, <2>2
<1>10. h[Start(h, f)] = IF fresh THEN e ELSE log[Start(log, f)]
  BY <1>2, <1>7, StartAfter
<1>11. Cardinality(Episode(h, f)) = IF fresh THEN 1 ELSE Cardinality(Episode(log, f)) + 1
  BY CountAfter
<1>12. StatusOf(h, f) = status
  BY StatusAfter
<1>13. AlertOf(h, f) =
        [fingerprint |-> f,
         status |-> StatusOf(h, f),
         severity |-> h[Last(Rates(h, f))].severity,
         origin |-> h[Last(Places(h, f))].origin,
         opened_at |-> h[Start(h, f)].occurred_at,
         last_seen |-> h[Last(About(h, f))].occurred_at,
         resolved_at |-> IF StatusOf(h, f) = "resolved" THEN h[Last(About(h, f))].occurred_at
                                                         ELSE NoTime,
         event_count |-> Cardinality(Episode(h, f)),
         last_event_id |-> h[Last(About(h, f))].event_id]
  BY <1>1, Zenon
<1>14. /\ a.severity = log[Last(Rates(log, f))].severity
       /\ a.origin = log[Last(Places(log, f))].origin
       /\ a.opened_at = log[Start(log, f)].occurred_at
       /\ a.event_count = Cardinality(Episode(log, f))
  BY <1>1
<1> HIDE DEF h, n, f, a, fresh, remark, status
<1>15. AlertOf(h, f) =
         [fingerprint |-> f,
          status |-> status,
          severity |-> IF remark THEN a.severity ELSE e.severity,
          origin |-> IF About(log, f) # {} /\ (remark \/ e.state = "resolved")
                     THEN a.origin ELSE e.origin,
          opened_at |-> IF fresh THEN e.occurred_at ELSE a.opened_at,
          last_seen |-> e.occurred_at,
          resolved_at |-> IF status = "resolved" THEN e.occurred_at ELSE NoTime,
          event_count |-> IF fresh THEN 1 ELSE a.event_count + 1,
          last_event_id |-> e.event_id]
  BY <1>6, <1>8, <1>9, <1>10, <1>11, <1>12, <1>13, <1>14
<1> QED
  BY <1>15 DEF h, n, f, a, fresh, remark, status

(* The record of another fingerprint stays. *)
LEMMA OtherHistory ==
  ASSUME NEW log \in Seq(Events), NEW e \in Events, NEW g, g # e.fingerprint
  PROVE  History(Append(log, e), g) = History(log, g)
<1> DEFINE h == Append(log, e)
<1>1. /\ About(h, g) = About(log, g) /\ Rates(h, g) = Rates(log, g)
      /\ Places(h, g) = Places(log, g) /\ Openings(h, g) = Openings(log, g)
  BY OtherEntries
<1>2. CASE About(log, g) = {}
  BY <1>1, <1>2 DEF History
<1>3. CASE About(log, g) # {}
  <2>1. /\ h[Last(About(log, g))] = log[Last(About(log, g))]
        /\ h[Last(Rates(log, g))] = log[Last(Rates(log, g))]
        /\ h[Last(Places(log, g))] = log[Last(Places(log, g))]
    BY <1>3, LastEntries
  <2>2. Start(h, g) = Start(log, g)
    BY <1>1 DEF Start, Openings
  <2>3. Start(log, g) \in 1..Len(log)
    BY <1>3, StartIsThere, AboutPositions
  <2>4. h[Start(log, g)] = log[Start(log, g)]
    BY <2>3, AppendEntries
  <2>5. Episode(h, g) = Episode(log, g)
    BY <1>1, <2>2 DEF Episode
  <2>6. StatusOf(h, g) = StatusOf(log, g)
    <3>1. Len(h) + 1 = Len(log) + 2
      BY AppendEntries
    <3>2. Quiet(h, g, Len(h) + 1) <=> Quiet(log, g, Len(log) + 1)
      BY <3>1, QuietAfter
    <3> QED
      BY <1>1, <2>1, <3>2 DEF StatusOf
  <2> HIDE DEF h
  <2>7. \A l : AlertOf(l, g) =
          [fingerprint |-> g,
           status |-> StatusOf(l, g),
           severity |-> l[Last(Rates(l, g))].severity,
           origin |-> l[Last(Places(l, g))].origin,
           opened_at |-> l[Start(l, g)].occurred_at,
           last_seen |-> l[Last(About(l, g))].occurred_at,
           resolved_at |-> IF StatusOf(l, g) = "resolved" THEN l[Last(About(l, g))].occurred_at
                                                           ELSE NoTime,
           event_count |-> Cardinality(Episode(l, g)),
           last_event_id |-> l[Last(About(l, g))].event_id]
    BY DEF AlertOf, Rates, Places, Episode
  <2>8. AlertOf(h, g) = AlertOf(log, g)
    BY <1>1, <2>1, <2>2, <2>4, <2>5, <2>6, <2>7
  <2> QED
    BY <1>1, <1>3, <2>8 DEF History, h
<1> QED
  BY <1>2, <1>3

(* What an event on an existing record leaves, field by field. *)
LEMMA TouchedFields ==
  ASSUME NEW a, NEW e, NEW ec,
         a = [fingerprint |-> a.fingerprint, status |-> a.status, severity |-> a.severity,
              origin |-> a.origin, opened_at |-> a.opened_at, last_seen |-> a.last_seen,
              resolved_at |-> a.resolved_at, event_count |-> a.event_count,
              last_event_id |-> a.last_event_id],
         ec = a.event_count + 1
  PROVE  Touch(a, e) =
           [fingerprint |-> a.fingerprint, status |-> a.status, severity |-> a.severity,
            origin |-> a.origin, opened_at |-> a.opened_at, last_seen |-> e.occurred_at,
            resolved_at |-> a.resolved_at, event_count |-> ec, last_event_id |-> e.event_id]
<1>1. Touch(a, e) = [a EXCEPT !.last_seen = e.occurred_at, !.event_count = ec,
                              !.last_event_id = e.event_id]
  BY DEF Touch
<1> QED
  BY <1>1

(* transition_alert turns the record of a history into the record of the   *)
(* history with its event.                                                 *)
LEMMA TransitionHistory ==
  ASSUME NEW log \in Seq(Events), NEW e \in Events,
         About(log, e.fingerprint) # {} => AlertOf(log, e.fingerprint) # NoAlert
  PROVE  History(Append(log, e), e.fingerprint) = Transition(History(log, e.fingerprint), e)
<1> DEFINE h == Append(log, e)
           n == Len(log)
           f == e.fingerprint
           a == AlertOf(log, f)
           fresh == Opens(h, n + 1) \/ About(log, f) = {}
           remark == e.state = "info" /\ ~Quiet(log, f, n + 1)
           status == IF remark THEN "firing" ELSE e.state
<1>1. AlertOf(h, f) =
        [fingerprint |-> f,
         status |-> status,
         severity |-> IF remark THEN a.severity ELSE e.severity,
         origin |-> IF About(log, f) # {} /\ (remark \/ e.state = "resolved")
                    THEN a.origin ELSE e.origin,
         opened_at |-> IF fresh THEN e.occurred_at ELSE a.opened_at,
         last_seen |-> e.occurred_at,
         resolved_at |-> IF status = "resolved" THEN e.occurred_at ELSE NoTime,
         event_count |-> IF fresh THEN 1 ELSE a.event_count + 1,
         last_event_id |-> e.event_id]
  BY RecordAfter
<1>2. History(h, f) = AlertOf(h, f)
  BY OwnEntries DEF History
<1>3. History(log, f) = IF About(log, f) = {} THEN NoAlert ELSE a
  BY DEF History
<1>4. Opens(h, n + 1) <=> e.state = "firing" /\ Quiet(log, f, n + 1)
  BY NewKind
<1>5. About(log, f) = {} => Quiet(log, f, n + 1)
  BY DEF Quiet
<1>6. About(log, f) # {} => (a.status = "firing" <=> ~Quiet(log, f, n + 1))
  BY FiringStatus DEF AlertOf
<1>7. a = [fingerprint |-> f, status |-> a.status, severity |-> a.severity, origin |-> a.origin,
           opened_at |-> a.opened_at, last_seen |-> a.last_seen, resolved_at |-> a.resolved_at,
           event_count |-> a.event_count, last_event_id |-> a.last_event_id]
      /\ a.resolved_at = IF a.status = "resolved" THEN a.last_seen ELSE NoTime
  BY DEF AlertOf
<1>8. About(log, f) # {} => a # NoAlert
  OBVIOUS
<1> DEFINE touched(st, sv, or, ra) ==
             [fingerprint |-> f, status |-> st, severity |-> sv, origin |-> or,
              opened_at |-> a.opened_at, last_seen |-> e.occurred_at, resolved_at |-> ra,
              event_count |-> a.event_count + 1, last_event_id |-> e.event_id]
<1>13. Touch(a, e) = touched(a.status, a.severity, a.origin, a.resolved_at)
  BY TouchedFields DEF AlertOf
<1>14. /\ [Touch(a, e) EXCEPT !.severity = e.severity, !.origin = e.origin,
                              !.resolved_at = NoTime]
            = touched(a.status, e.severity, e.origin, NoTime)
       /\ [Touch(a, e) EXCEPT !.status = "resolved", !.severity = e.severity,
                              !.resolved_at = e.occurred_at]
            = touched("resolved", e.severity, a.origin, e.occurred_at)
       /\ [Touch(a, e) EXCEPT !.status = "info", !.severity = e.severity, !.origin = e.origin,
                              !.resolved_at = NoTime]
            = touched("info", e.severity, e.origin, NoTime)
  <2> DEFINE t == Touch(a, e)
  <2>1. t = [fingerprint |-> f, status |-> a.status, severity |-> a.severity,
             origin |-> a.origin, opened_at |-> a.opened_at, last_seen |-> e.occurred_at,
             resolved_at |-> a.resolved_at, event_count |-> a.event_count + 1,
             last_event_id |-> e.event_id]
    BY <1>13
  <2> DEFINE fired == [t EXCEPT !.severity = e.severity, !.origin = e.origin,
                                !.resolved_at = NoTime]
             solved == [t EXCEPT !.status = "resolved", !.severity = e.severity,
                                 !.resolved_at = e.occurred_at]
             told == [t EXCEPT !.status = "info", !.severity = e.severity, !.origin = e.origin,
                               !.resolved_at = NoTime]
  <2>2. /\ fired = [t EXCEPT !.severity = e.severity, !.origin = e.origin,
                             !.resolved_at = NoTime]
        /\ solved = [t EXCEPT !.status = "resolved", !.severity = e.severity,
                              !.resolved_at = e.occurred_at]
        /\ told = [t EXCEPT !.status = "info", !.severity = e.severity, !.origin = e.origin,
                            !.resolved_at = NoTime]
    OBVIOUS
  <2> HIDE DEF t, f, a, fired, solved, told
  <2>3. fired = touched(a.status, e.severity, e.origin, NoTime)
    BY <2>1, <2>2
  <2>4. solved = touched("resolved", e.severity, a.origin, e.occurred_at)
    BY <2>1, <2>2
  <2>5. told = touched("info", e.severity, e.origin, NoTime)
    BY <2>1, <2>2
  <2> QED
    BY <2>3, <2>4, <2>5 DEF t, fired, solved, told
<1>9. f = e.fingerprint
  OBVIOUS
<1> HIDE DEF h, n, f, a
<1>10. CASE e.state = "firing"
  <2>1. AlertOf(h, f) = TransitionFiring(History(log, f), e)
    <3>1. CASE fresh
      BY <1>1, <1>3, <1>4, <1>5, <1>6, <1>9, <1>10, <3>1 DEF TransitionFiring, NewAlert
    <3>2. CASE ~fresh
      BY <1>1, <1>3, <1>4, <1>6, <1>7, <1>8, <1>10, <1>13, <1>14, <3>2 DEF TransitionFiring
    <3> QED
      BY <3>1, <3>2
  <2> QED
    BY <1>2, <1>10, <2>1 DEF Transition, h, f
<1>11. CASE e.state = "resolved"
  <2>1. AlertOf(h, f) = TransitionResolved(History(log, f), e)
    <3>1. CASE About(log, f) = {}
      BY <1>1, <1>3, <1>9, <1>11, <3>1 DEF TransitionResolved, NewAlert
    <3>2. CASE About(log, f) # {}
      BY <1>1, <1>3, <1>4, <1>7, <1>8, <1>11, <1>13, <1>14, <3>2 DEF TransitionResolved
    <3> QED
      BY <3>1, <3>2
  <2> QED
    BY <1>2, <1>11, <2>1 DEF Transition, h, f
<1>12. CASE e.state = "info"
  <2>1. AlertOf(h, f) = TransitionInfo(History(log, f), e)
    <3>1. CASE About(log, f) = {}
      BY <1>1, <1>3, <1>5, <1>9, <1>12, <3>1 DEF TransitionInfo, NewAlert
    <3>2. CASE About(log, f) # {} /\ remark
      BY <1>1, <1>3, <1>4, <1>6, <1>7, <1>8, <1>12, <1>13, <1>14, <3>2 DEF TransitionInfo
    <3>3. CASE About(log, f) # {} /\ ~remark
      BY <1>1, <1>3, <1>4, <1>6, <1>7, <1>8, <1>12, <1>13, <1>14, <3>3 DEF TransitionInfo
    <3> QED
      BY <3>1, <3>2, <3>3
  <2> QED
    BY <1>2, <1>12, <2>1 DEF Transition, h, f
<1> QED
  BY <1>10, <1>11, <1>12, EventFields DEF EventStates

-----------------------------------------------------------------------------
(* What one entry more calls for *)

(* The jobs rows stand for, and what a history calls for. *)
Queued(rows) == {<<rows[i].event_id, rows[i].channel, rows[i].payload>> : i \in DOMAIN rows}
Called(log) == UNION {JobsOf(log, i) : i \in DOMAIN log}

Distinct(rows) ==
  \A i, j \in DOMAIN rows :
    rows[i].event_id = rows[j].event_id /\ rows[i].channel = rows[j].channel => i = j

(* The jobs about e on channels cs with the headline status. *)
JobsAbout(e, cs, status) == {<<e.event_id, c, status>> : c \in cs}
Entries(s) == {s[k] : k \in DOMAIN s}

(* The entries of a sequence are its head and the entries of its tail.     *)
LEMMA EntriesOfTail ==
  ASSUME NEW S, NEW s \in Seq(S), s # <<>>
  PROVE  Head(s) \in S /\ Tail(s) \in Seq(S) /\ Entries(s) = {Head(s)} \cup Entries(Tail(s))
<1>1. /\ Head(s) \in S /\ Tail(s) \in Seq(S) /\ Head(s) = s[1]
      /\ Len(s) \in Nat \ {0} /\ DOMAIN s = 1..Len(s)
      /\ DOMAIN Tail(s) = 1..(Len(s) - 1)
      /\ \A k \in 1..(Len(s) - 1) : Tail(s)[k] = s[k + 1]
  BY HeadTailProperties, LenProperties
<1>2. ASSUME NEW k \in 1..Len(s) PROVE s[k] \in {Head(s)} \cup Entries(Tail(s))
  <2>1. CASE k = 1
    BY <1>1, <2>1
  <2>2. CASE k # 1
    <3>1. k - 1 \in 1..(Len(s) - 1) /\ (k - 1) + 1 = k
      BY <1>1, <2>2
    <3> QED
      BY <1>1, <3>1 DEF Entries
  <2> QED
    BY <2>1, <2>2
<1>3. ASSUME NEW k \in 1..(Len(s) - 1) PROVE Tail(s)[k] \in Entries(s)
  <2>1. k + 1 \in 1..Len(s)
    BY <1>1
  <2> QED
    BY <1>1, <2>1 DEF Entries
<1>4. Head(s) \in Entries(s)
  BY <1>1 DEF Entries
<1>5. Entries(s) \subseteq {Head(s)} \cup Entries(Tail(s))
  BY <1>1, <1>2, Zenon DEF Entries
<1>6. Entries(Tail(s)) \subseteq Entries(s)
  BY <1>1, <1>3, Zenon DEF Entries
<1> QED
  BY <1>1, <1>4, <1>5, <1>6

(* The jobs about an event carry the status it is about. *)
LEMMA JobStatusAbout ==
  ASSUME NEW e, NEW cs, NEW status, NEW m \in JobsAbout(e, cs, status)
  PROVE  m[3] = status
  BY DEF JobsAbout

(* The jobs a longer history calls for: those of the shorter one, and      *)
(* those of its last entry.                                                *)
LEMMA JobsAfter ==
  ASSUME NEW log \in Seq(Events), NEW e \in Events
  PROVE  LET h == Append(log, e)
             n == Len(log)
         IN  /\ \A i \in 1..n : JobsOf(h, i) = JobsOf(log, i)
             /\ JobsOf(h, n + 1) =
                  IF e.state = "firing" /\ ~Opens(h, n + 1) THEN {}
                  ELSE JobsAbout(e, Entries(Routes[e]), StatusOf(h, e.fingerprint))
             /\ Called(h) = Called(log) \cup JobsOf(h, n + 1)
<1> DEFINE h == Append(log, e)
           n == Len(log)
<1>1. /\ h \in Seq(Events) /\ n \in Nat /\ Len(h) = n + 1
      /\ DOMAIN h = 1..(n + 1) /\ DOMAIN log = 1..n
      /\ \A i \in 1..n : h[i] = log[i]
      /\ h[n + 1] = e
  BY AppendEntries
<1>2. ASSUME NEW i \in 1..n PROVE JobsOf(h, i) = JobsOf(log, i)
  <2>1. SubSeq(h, 1, i) = SubSeq(log, 1, i)
    <3>1. /\ SubSeq(h, 1, i) = [k \in 1..i |-> h[k]]
          /\ SubSeq(log, 1, i) = [k \in 1..i |-> log[k]]
      BY <1>1
    <3>2. \A k \in 1..i : h[k] = log[k]
      BY <1>1
    <3> QED
      BY <3>1, <3>2
  <2>2. h[i] = log[i] /\ (Opens(h, i) <=> Opens(log, i))
    BY <1>1, AppendKinds
  <2> HIDE DEF h, n
  <2> QED
    BY <2>1, <2>2 DEF JobsOf
<1>3. SubSeq(h, 1, n + 1) = h
  BY <1>1, SubSeqFull
<1>4. JobsOf(h, n + 1) =
        IF e.state = "firing" /\ ~Opens(h, n + 1) THEN {}
        ELSE JobsAbout(e, Entries(Routes[e]), StatusOf(h, e.fingerprint))
  <2> HIDE DEF h, n
  <2> QED
    BY <1>1, <1>3 DEF JobsOf, JobsAbout, Entries
<1> HIDE DEF h, n
<1>5. Called(h) = Called(log) \cup JobsOf(h, n + 1)
  BY <1>1, <1>2 DEF Called
<1> QED
  BY <1>2, <1>4, <1>5 DEF h, n

(* Jobs called for are about entries of the history. *)
LEMMA CalledIds ==
  ASSUME NEW log, NEW m \in Called(log)
  PROVE  \E i \in DOMAIN log : m[1] = log[i].event_id
BY DEF Called, JobsOf

(* accept announces exactly the events that call for messages. *)
LEMMA AnnouncedIsCalledFor ==
  ASSUME NEW log \in Seq(Events), NEW e \in Events
  PROVE  LET h == Append(log, e)
         IN  Announced(e, AlertOf(h, e.fingerprint))
               <=> ~(e.state = "firing" /\ ~Opens(h, Len(log) + 1))
<1> DEFINE h == Append(log, e)
           n == Len(log)
           f == e.fingerprint
<1>1. AlertOf(h, f).event_count = Cardinality(Episode(h, f))
  BY DEF AlertOf, Episode
<1>2. /\ Cardinality(Episode(log, f)) \in Nat
      /\ About(log, f) # {} => Cardinality(Episode(log, f)) > 0
      /\ Cardinality(Episode(h, f)) =
           IF Opens(h, n + 1) \/ About(log, f) = {} THEN 1
           ELSE Cardinality(Episode(log, f)) + 1
  BY CountAfter
<1>3. Opens(h, n + 1) <=> e.state = "firing" /\ Quiet(log, f, n + 1)
  BY NewKind
<1>4. About(log, f) = {} => Quiet(log, f, n + 1)
  BY DEF Quiet
<1> HIDE DEF h, n, f
<1>5. Announced(e, AlertOf(h, f)) <=> ~(e.state = "firing" /\ ~Opens(h, n + 1))
  BY <1>1, <1>2, <1>3, <1>4 DEF Announced
<1> QED
  BY <1>5 DEF h, n, f

(* INSERT OR IGNORE queues a job once, unless another headline is there.   *)
LEMMA InsertedRows ==
  ASSUME NEW rows \in Seq(JobRow), NEW row \in JobRow, Distinct(rows),
         \A i \in DOMAIN rows :
           rows[i].event_id = row.event_id /\ rows[i].channel = row.channel =>
             rows[i].payload = row.payload
  PROVE  /\ Distinct(InsertOrIgnore(rows, row))
         /\ Queued(InsertOrIgnore(rows, row)) =
              Queued(rows) \cup {<<row.event_id, row.channel, row.payload>>}
<1> DEFINE key == <<row.event_id, row.channel, row.payload>>
<1>1. CASE \E i \in DOMAIN rows : rows[i].event_id = row.event_id /\ rows[i].channel = row.channel
  <2>1. InsertOrIgnore(rows, row) = rows
    BY <1>1 DEF InsertOrIgnore
  <2>2. key \in Queued(rows)
    BY <1>1 DEF Queued
  <2> QED
    BY <2>1, <2>2
<1>2. CASE ~\E i \in DOMAIN rows : rows[i].event_id = row.event_id /\ rows[i].channel = row.channel
  <2> DEFINE more == Append(rows, row)
             n == Len(rows)
  <2>1. InsertOrIgnore(rows, row) = more
    BY <1>2 DEF InsertOrIgnore
  <2>2. /\ n \in Nat /\ DOMAIN rows = 1..n /\ DOMAIN more = 1..(n + 1)
        /\ \A i \in 1..n : more[i] = rows[i]
        /\ more[n + 1] = row
    BY AppendProperties, LenProperties
  <2> HIDE DEF more, n
  <2>3. \A i \in DOMAIN more : i \in DOMAIN rows \/ i = n + 1
    BY <2>2
  <2>4. Distinct(more)
    BY <1>2, <2>2, <2>3 DEF Distinct
  <2>5. Queued(more) = Queued(rows) \cup {key}
    BY <2>2, <2>3 DEF Queued
  <2> QED
    BY <2>1, <2>4, <2>5
<1> QED
  BY <1>1, <1>2

-----------------------------------------------------------------------------
(* The invariant of the two tables *)

(* A database whose alerts are those of its own events, and one whose      *)
(* queue and the jobs yet to come are what its events call for.            *)
AlertsOf(d) == \A f \in Fingerprints : d.alerts[f] = History(d.events, f)
JobsWith(d, jobs) == Distinct(d.notifications) /\ Queued(d.notifications) \cup jobs = Called(d.events)

(* The jobs the enqueue loop of t has yet to insert. *)
Coming(t) ==
  JobsAbout(request[t], Entries(todo[t]), view[t].alerts[request[t].fingerprint].status)

HistoryOK(t) ==
  /\ pc[t] = "inserted" => view[t].notifications = db.notifications
  /\ pc[t] = "enqueueing" => AlertsOf(view[t]) /\ JobsWith(view[t], Coming(t))

HistoryInv == AlertsOf(db) /\ JobsWith(db, {}) /\ \A t \in Tasks : HistoryOK(t)

(* The invariant is the two properties, and more. *)
LEMMA HistoryIsMatched == HistoryInv => AlertsMatchHistory /\ JobsMatchHistory
BY DEF HistoryInv, AlertsOf, JobsWith, AlertsMatchHistory, JobsMatchHistory, History, Queued, Called,
       Distinct

(* An empty store follows an empty history. *)
LEMMA InitHistoryInv == Init => HistoryInv
<1> SUFFICES ASSUME Init PROVE HistoryInv
  OBVIOUS
<1>1. /\ db.events = <<>> /\ db.notifications = <<>>
      /\ db.alerts = [f \in Fingerprints |-> NoAlert]
      /\ \A t \in Tasks : pc[t] = "idle"
  BY DEF Init, SqliteInit, EmptyDatabase
<1>2. \A f : About(db.events, f) = {}
  BY <1>1 DEF About
<1>3. AlertsOf(db)
  BY <1>1, <1>2 DEF AlertsOf, History
<1>4. JobsWith(db, {})
  BY <1>1 DEF JobsWith, Queued, Called, Distinct
<1> QED
  BY <1>1, <1>3, <1>4 DEF HistoryInv, HistoryOK

(* Most steps leave the store and the writer's view. *)
LEMMA HistoryKept ==
  ASSUME HistoryInv, UNCHANGED db,
         \A u \in Tasks :
           \/ pc'[u] \notin {"inserted", "enqueueing"}
           \/ UNCHANGED <<pc[u], view[u], request[u], todo[u]>>
  PROVE  HistoryInv'
<1>1. ASSUME NEW u \in Tasks, UNCHANGED <<pc[u], view[u], request[u], todo[u]>>
      PROVE  HistoryOK(u)'
  BY <1>1 DEF HistoryInv, HistoryOK, Coming, AlertsOf, JobsWith
<1>2. ASSUME NEW u \in Tasks, pc'[u] \notin {"inserted", "enqueueing"} PROVE HistoryOK(u)'
  BY <1>2 DEF HistoryOK
<1>3. AlertsOf(db)' /\ JobsWith(db, {})'
  BY DEF HistoryInv, AlertsOf, JobsWith
<1> QED
  BY <1>1, <1>2, <1>3 DEF HistoryInv

(* The steps that change neither the tables of a writing transaction nor   *)
(* what is committed, and the crash.                                       *)
LEMMA QuietSteps ==
  ASSUME IInv, HistoryInv, Next,
         \A t \in Tasks : ~InsertEvent(t) /\ ~TransitionAlert(t) /\ ~EnqueueNext(t) /\ ~CommitEvent(t)
  PROVE  HistoryInv'
<1>1. ASSUME NEW t \in Tasks, Handle(t) PROVE HistoryInv'
  <2>1. /\ UNCHANGED db /\ pc'[t] \notin {"inserted", "enqueueing"}
        /\ \A u \in Tasks \ {t} : UNCHANGED <<pc[u], view[u], request[u], todo[u]>>
    <3> USE TasksAssumption DEF IInv, TypeOK, Goto, Answer, Finish, sqliteVars
    <3>1. CASE Unauthorized(t) \/ Invalid(t)
      BY <3>1 DEF Unauthorized, Invalid
    <3>2. CASE Respond(t) \/ Disconnect(t)
      BY <3>2 DEF Respond, Disconnect
    <3>3. CASE Select(t)
      BY <3>3 DEF Select, Begin
    <3>4. CASE Duplicate(t) \/ Conflict(t) \/ InsertBusy(t)
      BY <3>4 DEF Duplicate, Conflict, InsertBusy, Rollback
    <3>5. CASE StatementError(t)
      BY <3>5 DEF StatementError, Rollback
    <3> QED
      BY <1>1, <3>1, <3>2, <3>3, <3>4, <3>5 DEF Handle
  <2> QED
    BY <2>1, HistoryKept
<1>2. ASSUME NEW t \in Tasks, NEW e \in Events, Receive(t, e) PROVE HistoryInv'
  <2>1. /\ UNCHANGED db /\ pc'[t] \notin {"inserted", "enqueueing"}
        /\ \A u \in Tasks \ {t} : UNCHANGED <<pc[u], view[u], request[u], todo[u]>>
    BY <1>2 DEF IInv, TypeOK, Receive, Goto, sqliteVars
  <2> QED
    BY <2>1, HistoryKept
<1>3. CASE Crash
  <2>1. UNCHANGED db /\ \A u \in Tasks : pc'[u] \notin {"inserted", "enqueueing"}
    BY <1>3 DEF Crash, LoseConnections
  <2> QED
    BY <2>1, HistoryKept
<1> QED
  BY <1>1, <1>2, <1>3 DEF Next

(* The INSERT of the event leaves the queue of the view as the store's.    *)
LEMMA InsertHistory ==
  ASSUME IInv, HistoryInv, NEW t \in Tasks, InsertEvent(t)
  PROVE  HistoryInv'
<1> DEFINE d == [view[t] EXCEPT !.events = Append(@, request[t])]
<1>1. t \in Connections /\ view[t] \in Database
  BY TasksAssumption DEF IInv, TypeOK, TxnInv, InTxn, InsertEvent
<1>2. view[t] = db
  BY <1>1, NoConnAssumption
  DEF IInv, InsertEvent, Write, TxnInv, SnapshotInv, SnapshotOK, MayWrite, Writing
<1>3. d.notifications = view[t].notifications
  BY <1>1 DEF Database
<1> HIDE DEF d
<1>4. /\ UNCHANGED db /\ view'[t] = d /\ pc'[t] = "inserted"
      /\ \A u \in Tasks \ {t} : UNCHANGED <<pc[u], view[u], request[u], todo[u]>>
  BY <1>1, TasksAssumption DEF IInv, TypeOK, InsertEvent, Write, Goto, d
<1>5. HistoryOK(t)'
  BY <1>2, <1>3, <1>4 DEF HistoryOK
<1>6. ASSUME NEW u \in Tasks \ {t} PROVE HistoryOK(u)'
  BY <1>4, <1>6 DEF HistoryInv, HistoryOK, Coming, AlertsOf, JobsWith
<1>7. AlertsOf(db)' /\ JobsWith(db, {})'
  BY <1>4 DEF HistoryInv, AlertsOf, JobsWith
<1> QED
  BY <1>5, <1>6, <1>7 DEF HistoryInv

(* What the writer of a transaction works on. *)
LEMMA WriterFacts ==
  ASSUME IInv, NEW t \in Tasks, Writing(t)
  PROVE  /\ t \in Connections /\ view[t] \in Database /\ request[t] \in Events
         /\ request[t].fingerprint \in Fingerprints
         /\ db \in Database /\ db.events \in Seq(Events)
         /\ view[t].events = Append(db.events, request[t])
         /\ \A i \in DOMAIN db.events : db.events[i].event_id # request[t].event_id
         /\ \A u \in Tasks \ {t} : ~Writing(u)
<1>1. t \in Connections /\ view[t] \in Database /\ request[t] \in Events /\ db \in Database
  BY TasksAssumption, EventsAssumption DEF IInv, TypeOK, TxnInv, InTxn
<1>2. request[t].fingerprint \in Fingerprints /\ db.events \in Seq(Events)
  BY <1>1, EventFields DEF Database
<1>3. /\ view[t].events = Append(db.events, request[t])
      /\ \A i \in DOMAIN db.events : db.events[i].event_id # request[t].event_id
  BY DEF IInv, SnapshotInv, SnapshotOK
<1>4. \A u \in Tasks \ {t} : ~Writing(u)
  BY DEF IInv, TxnInv
<1> QED
  BY <1>1, <1>2, <1>3, <1>4

(* A step of the writer that leaves it writing: the others do not.         *)
LEMMA WriterKeepsHistory ==
  ASSUME IInv, HistoryInv, NEW t \in Tasks, Writing(t), UNCHANGED db, HistoryOK(t)',
         \A u \in Tasks \ {t} : pc'[u] = pc[u]
  PROVE  HistoryInv'
<1>1. ASSUME NEW u \in Tasks \ {t} PROVE HistoryOK(u)'
  BY WriterFacts DEF HistoryOK, Writing
<1>2. AlertsOf(db)' /\ JobsWith(db, {})'
  BY DEF HistoryInv, AlertsOf, JobsWith
<1> QED
  BY <1>1, <1>2 DEF HistoryInv

(* The headline of a new entry's jobs is the status of its alert. *)
LEMMA NewHeadline ==
  ASSUME NEW log \in Seq(Events), NEW e \in Events
  PROVE  LET h == Append(log, e)
             f == e.fingerprint
         IN  History(h, f) = AlertOf(h, f) /\ History(h, f).status = StatusOf(h, f)
<1>1. About(Append(log, e), e.fingerprint) # {}
  BY OwnEntries
<1> QED
  BY <1>1 DEF History, AlertOf

(* The UPSERT of the alert: the record becomes the one of the longer       *)
(* history, and the loop has all its jobs before it.                       *)
LEMMA TransitionKeepsHistory ==
  ASSUME IInv, HistoryInv, NEW t \in Tasks, TransitionAlert(t)
  PROVE  HistoryInv'
<1> DEFINE e == request[t]
           f == e.fingerprint
           log == db.events
           h == Append(log, e)
           n == Len(log)
           alert == Transition(view[t].alerts[f], e)
           d == [view[t] EXCEPT !.alerts[f] = alert]
<1>1. Writing(t) /\ pc[t] = "inserted"
  BY DEF TransitionAlert, Writing
<1>2. /\ t \in Connections /\ view[t] \in Database /\ e \in Events /\ f \in Fingerprints
      /\ log \in Seq(Events) /\ view[t].events = h
  BY <1>1, WriterFacts
<1>3. view[t].alerts = db.alerts /\ view[t].notifications = db.notifications
  BY <1>1 DEF IInv, SnapshotInv, SnapshotOK, HistoryInv, HistoryOK
<1>4. d.events = h /\ d.notifications = db.notifications /\ d.alerts = [db.alerts EXCEPT ![f] = alert]
      /\ db.alerts \in [Fingerprints -> AlertRecord \cup {NoAlert}]
  BY <1>2, <1>3 DEF Database, IInv, TypeOK
<1>5. alert = History(h, f)
  <2>1. About(log, f) # {} => AlertOf(log, f) # NoAlert
    <3>1. db.alerts[f] = History(log, f)
      BY <1>2 DEF HistoryInv, AlertsOf
    <3>2. About(log, f) # {} => db.alerts[f] # NoAlert
      BY DEF IInv, StoreInv, Alerted, About
    <3> QED
      BY <3>1, <3>2 DEF History
  <2>2. view[t].alerts[f] = History(log, f)
    BY <1>2, <1>3 DEF HistoryInv, AlertsOf
  <2> QED
    BY <1>2, <2>1, <2>2, TransitionHistory
<1>6. AlertsOf(d)
  <2>1. ASSUME NEW g \in Fingerprints, g # f PROVE d.alerts[g] = History(h, g)
    <3>1. d.alerts[g] = History(log, g)
      BY <1>4, <2>1 DEF HistoryInv, AlertsOf
    <3> QED
      BY <1>2, <2>1, <3>1, OtherHistory
  <2>2. d.alerts[f] = History(h, f)
    BY <1>2, <1>4, <1>5
  <2> QED
    BY <1>4, <2>1, <2>2 DEF AlertsOf
<1>7. /\ UNCHANGED db /\ view'[t] = d /\ pc'[t] = "enqueueing" /\ request'[t] = e
      /\ todo'[t] = IF Announced(e, alert) THEN Routes[e] ELSE <<>>
      /\ \A u \in Tasks \ {t} : pc'[u] = pc[u]
  BY <1>2, TasksAssumption DEF IInv, TypeOK, TransitionAlert, Write, Goto
<1>8. JobsAbout(e, Entries(todo'[t]), d.alerts[f].status) = JobsOf(h, n + 1)
  <2>1. d.alerts[f].status = StatusOf(h, f) /\ alert = AlertOf(h, f)
    BY <1>2, <1>4, <1>5, NewHeadline
  <2>2. Announced(e, alert) <=> ~(e.state = "firing" /\ ~Opens(h, n + 1))
    BY <1>2, <2>1, AnnouncedIsCalledFor
  <2>3. JobsOf(h, n + 1) =
          IF e.state = "firing" /\ ~Opens(h, n + 1) THEN {}
          ELSE JobsAbout(e, Entries(Routes[e]), StatusOf(h, f))
    BY <1>2, JobsAfter
  <2>4. \A s : JobsAbout(e, Entries(<<>>), s) = {}
    BY DEF JobsAbout, Entries
  <2> HIDE DEF e, f, h, n, alert, d
  <2> QED
    BY <1>7, <2>1, <2>2, <2>3, <2>4
<1>9. Called(h) = Called(log) \cup JobsOf(h, n + 1)
  BY <1>2, JobsAfter
<1>10. JobsWith(d, JobsOf(h, n + 1))
  <2> HIDE DEF e, f, h, n, d
  <2> QED
    BY <1>4, <1>9 DEF HistoryInv, JobsWith
<1> HIDE DEF e, f, h, n, alert, d
<1>11. HistoryOK(t)'
  <2>1. Coming(t)' = JobsOf(h, n + 1)
    BY <1>7, <1>8 DEF Coming, f
  <2>2. AlertsOf(view[t])' /\ JobsWith(view[t], Coming(t))'
    BY <1>6, <1>7, <1>10, <2>1 DEF AlertsOf, JobsWith
  <2> QED
    BY <1>7, <2>2 DEF HistoryOK
<1> QED
  BY <1>1, <1>7, <1>11, WriterKeepsHistory

(* One turn of the enqueue loop: a job that is there already is this one,  *)
(* since the event's id is new.                                            *)
LEMMA EnqueueKeepsHistory ==
  ASSUME IInv, HistoryInv, NEW t \in Tasks, EnqueueNext(t)
  PROVE  HistoryInv'
<1> DEFINE e == request[t]
           f == e.fingerprint
           log == db.events
           h == Append(log, e)
           a == view[t].alerts[f]
           rows == view[t].notifications
           c == Head(todo[t])
           job == NewJob(e, a, c)
           key == <<job.event_id, job.channel, job.payload>>
           d == [view[t] EXCEPT !.notifications = InsertOrIgnore(@, job)]
<1>1. Writing(t) /\ pc[t] = "enqueueing"
  BY DEF EnqueueNext, Writing
<1>2. /\ t \in Connections /\ view[t] \in Database /\ e \in Events /\ f \in Fingerprints
      /\ log \in Seq(Events) /\ view[t].events = h
      /\ \A i \in DOMAIN log : log[i].event_id # e.event_id
  BY <1>1, WriterFacts
<1>3. AlertsOf(view[t]) /\ JobsWith(view[t], Coming(t))
  BY <1>1 DEF HistoryInv, HistoryOK
<1>4. a = History(h, f) /\ a.status = StatusOf(h, f) /\ a \in AlertRecord /\ a # NoAlert
  <2>1. a = History(h, f)
    BY <1>2, <1>3 DEF AlertsOf
  <2>2. a \in AlertRecord \cup {NoAlert}
    BY <1>2 DEF Database
  <2>3. a # NoAlert
    <3>1. Alerted(view[t])
      BY <1>1 DEF IInv, SnapshotInv, SnapshotOK
    <3>2. Len(log) + 1 \in DOMAIN h /\ h[Len(log) + 1] = e
      BY <1>2, AppendEntries
    <3> QED
      BY <1>2, <3>1, <3>2 DEF Alerted
  <2> QED
    BY <1>2, <2>1, <2>2, <2>3, NewHeadline
<1>5. /\ todo[t] \in Seq(Channels) /\ todo[t] # <<>> /\ c \in Channels
      /\ Tail(todo[t]) \in Seq(Channels)
      /\ Entries(todo[t]) = {c} \cup Entries(Tail(todo[t]))
  <2>1. todo[t] \in Seq(Channels) /\ todo[t] # <<>>
    BY DEF EnqueueNext, IInv, TypeOK
  <2> QED
    BY ONLY <2>1, EntriesOfTail
<1>6. /\ rows \in Seq(JobRow) /\ job \in JobRow
      /\ job.event_id = e.event_id /\ job.channel = c /\ job.payload = a.status
  BY <1>2, <1>4, <1>5, NewJobType DEF Database, NewJob
<1>7. ASSUME NEW i \in DOMAIN rows,
             rows[i].event_id = job.event_id, rows[i].channel = job.channel
      PROVE  rows[i].payload = job.payload
  <2> DEFINE m == <<rows[i].event_id, rows[i].channel, rows[i].payload>>
  <2>1. m \in Called(h)
    BY <1>2, <1>3 DEF JobsWith, Queued
  <2>2. m \notin Called(log)
    BY <1>2, <1>6, <1>7, CalledIds
  <2>3. JobsOf(h, Len(log) + 1) \subseteq JobsAbout(e, Entries(Routes[e]), StatusOf(h, f))
    BY <1>2, JobsAfter
  <2>4. Called(h) = Called(log) \cup JobsOf(h, Len(log) + 1)
    BY <1>2, JobsAfter
  <2>5. m \in JobsAbout(e, Entries(Routes[e]), StatusOf(h, f))
    BY ONLY <2>1, <2>2, <2>3, <2>4
  <2>6. m[3] = StatusOf(h, f)
    BY ONLY <2>5, JobStatusAbout
  <2> QED
    BY <1>4, <1>6, <2>6
<1>8. /\ Distinct(InsertOrIgnore(rows, job))
      /\ Queued(InsertOrIgnore(rows, job)) = Queued(rows) \cup {key}
  BY <1>3, <1>6, <1>7, InsertedRows DEF JobsWith
<1>9. /\ d.events = h /\ d.alerts = view[t].alerts
      /\ d.notifications = InsertOrIgnore(rows, job)
  BY <1>2 DEF Database
<1>10. /\ UNCHANGED db /\ view'[t] = d /\ pc'[t] = "enqueueing" /\ request'[t] = e
       /\ todo'[t] = Tail(todo[t])
       /\ \A u \in Tasks \ {t} : pc'[u] = pc[u]
  BY <1>1, <1>2, TasksAssumption DEF IInv, TypeOK, EnqueueNext, Write
<1>11. Coming(t) = {key} \cup JobsAbout(e, Entries(Tail(todo[t])), a.status)
  <2> HIDE DEF e, c, job
  <2> QED
    BY <1>5, <1>6 DEF Coming, JobsAbout, e
<1>12. Coming(t)' = JobsAbout(e, Entries(Tail(todo[t])), a.status)
  BY <1>9, <1>10 DEF Coming
<1> HIDE DEF e, f, log, h, a, rows, c, job, key, d
<1>13. HistoryOK(t)'
  <2>1. AlertsOf(d)
    BY <1>2, <1>3, <1>9 DEF AlertsOf
  <2>2. JobsWith(d, Coming(t)')
    BY <1>2, <1>3, <1>8, <1>9, <1>11, <1>12 DEF JobsWith, rows
  <2>3. AlertsOf(view[t])' /\ JobsWith(view[t], Coming(t))'
    BY <1>10, <2>1, <2>2 DEF AlertsOf, JobsWith
  <2> QED
    BY <1>10, <2>3 DEF HistoryOK
<1> QED
  BY <1>1, <1>10, <1>13, WriterKeepsHistory

(* The commit makes the writer's tables the store's. *)
LEMMA CommitKeepsHistory ==
  ASSUME IInv, HistoryInv, NEW t \in Tasks, CommitEvent(t)
  PROVE  HistoryInv'
<1>1. Writing(t) /\ pc[t] = "enqueueing" /\ todo[t] = <<>>
  BY DEF CommitEvent, Writing
<1>2. db' = view[t] /\ pc'[t] = "replying" /\ \A u \in Tasks \ {t} : pc'[u] = pc[u]
  BY DEF CommitEvent, Commit, Answer, Goto, IInv, TypeOK
<1>3. AlertsOf(view[t]) /\ JobsWith(view[t], Coming(t))
  BY <1>1 DEF HistoryInv, HistoryOK
<1>4. Coming(t) = {}
  BY <1>1 DEF Coming, JobsAbout, Entries
<1>5. AlertsOf(db)' /\ JobsWith(db, {})'
  BY <1>2, <1>3, <1>4 DEF AlertsOf, JobsWith
<1>6. ASSUME NEW u \in Tasks PROVE HistoryOK(u)'
  <2>1. CASE u = t
    BY <1>2, <2>1 DEF HistoryOK
  <2>2. CASE u # t
    BY <1>1, <1>2, <2>2, WriterFacts DEF HistoryOK, Writing
  <2> QED
    BY <2>1, <2>2
<1> QED
  BY <1>5, <1>6 DEF HistoryInv

(* Every step preserves the invariant, given that of IntakeProofs. *)
LEMMA NextHistoryInv == IInv /\ HistoryInv /\ [Next]_vars => HistoryInv'
<1> SUFFICES ASSUME IInv, HistoryInv, [Next]_vars PROVE HistoryInv'
  OBVIOUS
<1>1. CASE \E t \in Tasks : InsertEvent(t)
  BY <1>1, InsertHistory
<1>2. CASE \E t \in Tasks : TransitionAlert(t)
  BY <1>2, TransitionKeepsHistory
<1>3. CASE \E t \in Tasks : EnqueueNext(t)
  BY <1>3, EnqueueKeepsHistory
<1>4. CASE \E t \in Tasks : CommitEvent(t)
  BY <1>4, CommitKeepsHistory
<1>5. CASE Next /\ \A t \in Tasks : /\ ~InsertEvent(t) /\ ~TransitionAlert(t)
                                    /\ ~EnqueueNext(t) /\ ~CommitEvent(t)
  BY <1>5, QuietSteps
<1>6. CASE UNCHANGED vars
  BY <1>6, HistoryKept DEF vars, sqliteVars, taskVars
<1> QED
  BY <1>1, <1>2, <1>3, <1>4, <1>5, <1>6

-----------------------------------------------------------------------------
(* The theorems *)

(* The two tables, and the transaction that is being written, follow the   *)
(* history of accepted events.                                             *)
THEOREM Following == Spec => []HistoryInv
<1> QED
  BY InitHistoryInv, NextHistoryInv, Invariance, PTL DEF Spec

(* Every alert record is the one the accepted history calls for, for any   *)
(* history: transition_alert never drifts from it, and no race, failure or *)
(* crash parts an event from its transition.                               *)
THEOREM AlertsFollow == Spec => []AlertsMatchHistory
<1> QED
  BY Following, HistoryIsMatched, PTL

(* The queue holds the jobs of the accepted history, each once. *)
THEOREM JobsFollow == Spec => []JobsMatchHistory
<1> QED
  BY Following, HistoryIsMatched, PTL
=============================================================================
