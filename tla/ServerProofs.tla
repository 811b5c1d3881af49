---------------------------- MODULE ServerProofs ----------------------------
(***************************************************************************)
(* Theorems about the composed server, for any number of requests, events, *)
(* channels, attempts and crashes.                                         *)
(*                                                                         *)
(* The proofs of the parts are used again.  Seen with the jobs as they     *)
(* were queued, the server is an Intake, and the worker does nothing; seen *)
(* with the jobs only, it is a Dispatcher, and the requests are that       *)
(* module's one connection.  Each step is shown to be a step of both, or   *)
(* none, and what IntakeProofs and DispatcherProofs prove holds of the     *)
(* whole.                                                                  *)
(***************************************************************************)
EXTENDS BeaconServer, SequenceTheorems, FiniteSetTheorems, TLAPS

-----------------------------------------------------------------------------
(* The two views of the server *)

(* A job as it was queued, whatever the worker has done with it.           *)
Blank(row) ==
  [event_id |-> row.event_id, fingerprint |-> row.fingerprint, channel |-> row.channel,
   payload |-> row.payload, status |-> "pending", attempts |-> 0, retryable |-> TRUE]
Blanks(rows) == [i \in DOMAIN rows |-> Blank(rows[i])]
Hide(d) == [events |-> d.events, alerts |-> d.alerts, notifications |-> Blanks(d.notifications)]

RDb == Hide(db)
RView == [c \in Connections |-> IF c \in Tasks /\ view[c] # NoTxn THEN Hide(view[c]) ELSE NoTxn]
RStale == {t \in Tasks : pc[t] = "reading" /\ view[t].events # db.events}
RWriter == IF writer \in Tasks THEN writer ELSE NoConn

Requests == INSTANCE IntakeProofs WITH
  db <- RDb, view <- RView, stale <- RStale, writer <- RWriter

(* The jobs of a database. *)
Jobs(d) == [notifications |-> d.notifications]

WDb == Jobs(db)
WView ==
  [c \in Connections |->
     IF c = Worker /\ view[c] # NoTxn THEN Jobs(view[c])
     ELSE IF c = Desk /\ writer \in Tasks THEN Jobs(view[writer])
     ELSE NoTxn]
WStale == stale \cap {Worker}
WWriter == IF writer \in Tasks THEN Desk ELSE writer

Worked == INSTANCE DispatcherProofs WITH
  Server <- Desk, Headlines <- AlertStatuses,
  db <- WDb, view <- WView, stale <- WStale, writer <- WWriter

(* The three modules agree on what a row is. *)
LEMMA SameData ==
  /\ Requests!AlertRecord = AlertRecord /\ Requests!Database = Database
  /\ Worked!AlertRecord = AlertRecord /\ Worked!Queue = D!Queue
  /\ Worked!JobRow = JobRow /\ D!JobRow = JobRow
<1>1. /\ Requests!AlertRecord = AlertRecord /\ Requests!JobRow = JobRow
      /\ Worked!AlertRecord = AlertRecord /\ Worked!JobRow = JobRow /\ D!JobRow = JobRow
  BY DEF Requests!AlertRecord, Requests!JobRow, Requests!EventIds, Requests!Fingerprints,
         Requests!Origins, Requests!Times, Requests!AlertStatuses, Requests!Severities,
         Requests!JobStatuses,
         Worked!AlertRecord, Worked!JobRow, Worked!EventIds, Worked!Fingerprints,
         Worked!Origins, Worked!Times, Worked!AlertStatuses, Worked!Severities,
         Worked!JobStatuses,
         D!JobRow, D!EventIds, D!Fingerprints, D!AlertStatuses, D!JobStatuses,
         AlertRecord, JobRow, EventIds, Fingerprints, Origins, Times, AlertStatuses, Severities,
         JobStatuses
<1>2. Requests!Database = Database
  BY <1>1 DEF Requests!Database, Requests!Fingerprints, Database, Fingerprints
<1>3. Worked!Queue = D!Queue
  BY <1>1 DEF Worked!Queue, D!Queue
<1> QED
  BY <1>1, <1>2, <1>3

(* What Intake assumes holds. *)
LEMMA RequestsMayBeUsed ==
  /\ Requests!EventsAssumption /\ Requests!NoAlertAssumption /\ Requests!TasksAssumption
  /\ Requests!RoutesAssumption /\ Requests!NoTxnAssumption /\ Requests!NoEventAssumption
  /\ Requests!NoConnAssumption
<1>1. Requests!EventsAssumption
  BY EventsAssumption
     DEF Requests!EventsAssumption, Requests!EventStates, Requests!Severities, EventStates, Severities
<1>2. Requests!NoAlertAssumption /\ Requests!NoTxnAssumption
  BY SameData, NoAlertAssumption, NoTxnAssumption
     DEF Requests!NoAlertAssumption, Requests!NoTxnAssumption
<1>3. /\ Requests!TasksAssumption /\ Requests!RoutesAssumption /\ Requests!NoEventAssumption
      /\ Requests!NoConnAssumption
  BY TasksAssumption, RoutesAssumption, NoEventAssumption, NoConnAssumption
     DEF Requests!TasksAssumption, Requests!RoutesAssumption, Requests!NoEventAssumption,
         Requests!NoConnAssumption
<1> QED
  BY <1>1, <1>2, <1>3

(* There is a request to stand for the requests. *)
LEMMA DeskIsTask == Desk \in Tasks /\ Desk \in Connections /\ Desk # Worker /\ Worker \in Connections
  BY WorkerAssumption, TasksAssumption DEF Desk

(* What Dispatcher assumes holds. *)
LEMMA WorkedMayBeUsed ==
  /\ Worked!EventsAssumption /\ Worked!NoAlertAssumption /\ Worked!NoConnAssumption
  /\ Worked!DispatcherAssumption /\ Worked!NoQueueAssumption
<1>1. Worked!EventsAssumption
  BY EventsAssumption
     DEF Worked!EventsAssumption, Worked!EventStates, Worked!Severities, EventStates, Severities
<1>2. Worked!NoAlertAssumption /\ Worked!NoQueueAssumption
  BY SameData, NoAlertAssumption, NoQueueAssumption
     DEF Worked!NoAlertAssumption, Worked!NoQueueAssumption
<1>3. Worked!NoConnAssumption /\ Worked!DispatcherAssumption
  BY NoConnAssumption, DeskIsTask, WorkerAssumption, TasksAssumption
     DEF Worked!NoConnAssumption, Worked!DispatcherAssumption, Worked!AlertStatuses, AlertStatuses
<1> QED
  BY <1>1, <1>2, <1>3

-----------------------------------------------------------------------------
(* The data of the two views *)

(* Blanking a row keeps what the requests wrote. *)
LEMMA BlankRow ==
  ASSUME NEW row \in JobRow
  PROVE  /\ Blank(row) \in JobRow
         /\ Blank(row).event_id = row.event_id /\ Blank(row).channel = row.channel
         /\ Blank(row).payload = row.payload /\ Blank(row).fingerprint = row.fingerprint
         /\ Blank(row).status = "pending" /\ Blank(row).attempts = 0 /\ Blank(row).retryable = TRUE
  BY DEF Blank, JobRow, JobStatuses

(* Rows that differ in the worker's columns only are the same, blanked.    *)
LEMMA SameBlank ==
  ASSUME NEW row \in JobRow, NEW other \in JobRow,
         row.event_id = other.event_id, row.channel = other.channel,
         row.payload = other.payload, row.fingerprint = other.fingerprint
  PROVE  Blank(row) = Blank(other)
  BY DEF Blank

(* Blanking a table keeps its shape. *)
LEMMA BlankRows ==
  ASSUME NEW rows \in Seq(JobRow)
  PROVE  /\ Blanks(rows) \in Seq(JobRow)
         /\ DOMAIN Blanks(rows) = DOMAIN rows /\ Len(Blanks(rows)) = Len(rows)
         /\ \A i \in DOMAIN rows : rows[i] \in JobRow /\ Blanks(rows)[i] = Blank(rows[i])
<1>1. /\ Len(rows) \in Nat /\ DOMAIN rows = 1..Len(rows)
      /\ \A i \in DOMAIN rows : rows[i] \in JobRow
  OBVIOUS
<1>2. /\ Blanks(rows) \in [1..Len(rows) -> JobRow] /\ DOMAIN Blanks(rows) = DOMAIN rows
      /\ \A i \in DOMAIN rows : Blanks(rows)[i] = Blank(rows[i])
  BY <1>1, BlankRow DEF Blanks
<1> QED
  BY <1>1, <1>2

(* The INSERT OR IGNORE of a new job looks at nothing the worker writes.   *)
LEMMA BlankInsert ==
  ASSUME NEW rows \in Seq(JobRow), NEW row \in JobRow, Blank(row) = row
  PROVE  /\ InsertOrIgnore(rows, row) \in Seq(JobRow)
         /\ Blanks(InsertOrIgnore(rows, row)) = InsertOrIgnore(Blanks(rows), row)
<1>1. /\ Blanks(rows) \in Seq(JobRow)
      /\ DOMAIN Blanks(rows) = DOMAIN rows /\ Len(Blanks(rows)) = Len(rows)
      /\ \A i \in DOMAIN rows : /\ rows[i] \in JobRow /\ Blanks(rows)[i] = Blank(rows[i])
                                /\ Blanks(rows)[i].event_id = rows[i].event_id
                                /\ Blanks(rows)[i].channel = rows[i].channel
  <2>1. /\ Blanks(rows) \in Seq(JobRow)
        /\ DOMAIN Blanks(rows) = DOMAIN rows /\ Len(Blanks(rows)) = Len(rows)
        /\ \A i \in DOMAIN rows : rows[i] \in JobRow /\ Blanks(rows)[i] = Blank(rows[i])
    BY BlankRows
  <2>2. ASSUME NEW i \in DOMAIN rows
        PROVE  Blanks(rows)[i].event_id = rows[i].event_id /\ Blanks(rows)[i].channel = rows[i].channel
    BY <2>1, BlankRow
  <2> QED
    BY ONLY <2>1, <2>2
<1>2. CASE \E i \in DOMAIN rows : rows[i].event_id = row.event_id /\ rows[i].channel = row.channel
  BY <1>1, <1>2 DEF InsertOrIgnore
<1>3. CASE ~\E i \in DOMAIN rows : rows[i].event_id = row.event_id /\ rows[i].channel = row.channel
  <2>1. /\ InsertOrIgnore(rows, row) = Append(rows, row)
        /\ InsertOrIgnore(Blanks(rows), row) = Append(Blanks(rows), row)
    <3>1. ~\E i \in DOMAIN Blanks(rows) : /\ Blanks(rows)[i].event_id = row.event_id
                                         /\ Blanks(rows)[i].channel = row.channel
      BY ONLY <1>1, <1>3
    <3> QED
      BY ONLY <1>3, <3>1 DEF InsertOrIgnore
  <2> DEFINE more == Append(rows, row)
             blank == Append(Blanks(rows), row)
  <2>2. /\ more \in Seq(JobRow) /\ Len(more) = Len(rows) + 1
        /\ \A i \in 1..Len(rows) : more[i] = rows[i]
        /\ more[Len(rows) + 1] = row
    BY AppendProperties
  <2>3. /\ blank \in Seq(JobRow) /\ Len(blank) = Len(rows) + 1
        /\ \A i \in 1..Len(rows) : blank[i] = Blank(rows[i])
        /\ blank[Len(rows) + 1] = row
    BY <1>1, AppendProperties
  <2> HIDE DEF more, blank
  <2>4. /\ Blanks(more) \in Seq(JobRow) /\ Len(Blanks(more)) = Len(more)
        /\ \A i \in DOMAIN more : Blanks(more)[i] = Blank(more[i])
    BY <2>2, BlankRows
  <2>5. ASSUME NEW i \in 1..(Len(rows) + 1) PROVE Blanks(more)[i] = blank[i]
    <3>1. Len(rows) \in Nat /\ i \in DOMAIN more
      BY <2>2
    <3>2. i \in 1..Len(rows) \/ i = Len(rows) + 1
      BY <3>1
    <3>3. Blanks(more)[i] = Blank(more[i])
      BY <2>4, <3>1
    <3> QED
      BY <2>2, <2>3, <3>2, <3>3
  <2>6. Blanks(more) = blank
    BY <2>2, <2>3, <2>4, <2>5, SeqEqual
  <2> QED
    BY <2>1, <2>2, <2>6 DEF more, blank
<1> QED
  BY <1>2, <1>3

(* A table whose rows differ in the worker's columns only. *)
LEMMA BlankWork ==
  ASSUME NEW rows \in Seq(JobRow), NEW more \in Seq(JobRow), Len(more) = Len(rows),
         \A i \in DOMAIN rows :
           /\ more[i].event_id = rows[i].event_id /\ more[i].channel = rows[i].channel
           /\ more[i].payload = rows[i].payload /\ more[i].fingerprint = rows[i].fingerprint
  PROVE  Blanks(more) = Blanks(rows)
<1>1. DOMAIN more = DOMAIN rows
  OBVIOUS
<1>2. \A i \in DOMAIN rows : Blank(more[i]) = Blank(rows[i])
  <2> SUFFICES ASSUME NEW i \in DOMAIN rows PROVE Blank(more[i]) = Blank(rows[i])
    OBVIOUS
  <2>1. rows[i] \in JobRow /\ more[i] \in JobRow
    BY <1>1
  <2> QED
    BY <2>1, SameBlank
<1> QED
  BY <1>1, <1>2 DEF Blanks

(* The worker's statements are such changes. *)
LEMMA BlankStatements ==
  ASSUME NEW rows \in Seq(JobRow), NEW i \in DOMAIN rows, NEW again \in BOOLEAN
  PROVE  /\ Claim(rows, i) \in Seq(JobRow) /\ Blanks(Claim(rows, i)) = Blanks(rows)
         /\ Complete(rows, i) \in Seq(JobRow) /\ Blanks(Complete(rows, i)) = Blanks(rows)
         /\ Fail(rows, i, again) \in Seq(JobRow) /\ Blanks(Fail(rows, i, again)) = Blanks(rows)
<1>1. rows[i] \in JobRow /\ rows[i].attempts \in Nat
  <2>1. rows[i] \in JobRow
    OBVIOUS
  <2> QED
    BY <2>1 DEF JobRow
<1>2. ASSUME NEW row \in JobRow, row.event_id = rows[i].event_id,
             row.channel = rows[i].channel, row.payload = rows[i].payload,
             row.fingerprint = rows[i].fingerprint
      PROVE  [rows EXCEPT ![i] = row] \in Seq(JobRow) /\ Blanks([rows EXCEPT ![i] = row]) = Blanks(rows)
  <2> DEFINE more == [rows EXCEPT ![i] = row]
  <2>1. /\ more \in Seq(JobRow) /\ Len(more) = Len(rows) /\ more[i] = row
        /\ \A j \in DOMAIN rows \ {i} : more[j] = rows[j]
    BY ExceptSeq
  <2> HIDE DEF more
  <2>2. Blanks(more) = Blanks(rows)
    BY <1>2, <2>1, BlankWork
  <2> QED
    BY <2>1, <2>2 DEF more
<1>3. Claim(rows, i) \in Seq(JobRow) /\ Blanks(Claim(rows, i)) = Blanks(rows)
  <2> DEFINE row == [rows[i] EXCEPT !.status = "in_flight", !.attempts = @ + 1]
  <2>1. ASSUME NEW n \in Nat
        PROVE  LET r == [rows[i] EXCEPT !.status = "in_flight", !.attempts = n]
               IN  /\ r \in JobRow /\ r.event_id = rows[i].event_id
                   /\ r.channel = rows[i].channel /\ r.payload = rows[i].payload
                   /\ r.fingerprint = rows[i].fingerprint
    BY <1>1 DEF JobRow, JobStatuses
  <2>2. rows[i].attempts + 1 \in Nat
    BY <1>1
  <2>3. /\ row \in JobRow /\ row.event_id = rows[i].event_id /\ row.channel = rows[i].channel
        /\ row.payload = rows[i].payload /\ row.fingerprint = rows[i].fingerprint
    BY <2>1, <2>2
  <2>4. Claim(rows, i) = [rows EXCEPT ![i] = row]
    BY Zenon DEF Claim
  <2> HIDE DEF row
  <2>5. PICK r \in JobRow : /\ r.event_id = rows[i].event_id /\ r.channel = rows[i].channel
                            /\ r.payload = rows[i].payload /\ r.fingerprint = rows[i].fingerprint
                            /\ Claim(rows, i) = [rows EXCEPT ![i] = r]
    BY <2>3, <2>4, Zenon
  <2>6. [rows EXCEPT ![i] = r] \in Seq(JobRow) /\ Blanks([rows EXCEPT ![i] = r]) = Blanks(rows)
    BY <1>2, <2>5
  <2> QED
    BY <2>5, <2>6, Zenon
<1>4. Complete(rows, i) \in Seq(JobRow) /\ Blanks(Complete(rows, i)) = Blanks(rows)
  <2> DEFINE row == [rows[i] EXCEPT !.status = "sent"]
  <2>1. /\ row \in JobRow /\ row.event_id = rows[i].event_id /\ row.channel = rows[i].channel
        /\ row.payload = rows[i].payload /\ row.fingerprint = rows[i].fingerprint
    BY <1>1 DEF JobRow, JobStatuses
  <2>2. Complete(rows, i) = rows \/ Complete(rows, i) = [rows EXCEPT ![i] = row]
    BY DEF Complete
  <2> HIDE DEF row
  <2> QED
    BY <1>2, <2>1, <2>2
<1>5. Fail(rows, i, again) \in Seq(JobRow) /\ Blanks(Fail(rows, i, again)) = Blanks(rows)
  <2> DEFINE row == [rows[i] EXCEPT !.status = "failed", !.retryable = again]
  <2>1. /\ row \in JobRow /\ row.event_id = rows[i].event_id /\ row.channel = rows[i].channel
        /\ row.payload = rows[i].payload /\ row.fingerprint = rows[i].fingerprint
    BY <1>1 DEF JobRow, JobStatuses
  <2>2. Fail(rows, i, again) = rows \/ Fail(rows, i, again) = [rows EXCEPT ![i] = row]
    BY DEF Fail
  <2> HIDE DEF row
  <2> QED
    BY <1>2, <2>1, <2>2
<1> QED
  BY <1>3, <1>4, <1>5

(* A database, and what is seen of it. *)
LEMMA ViewTypes ==
  ASSUME NEW d \in Database
  PROVE  /\ Hide(d) \in Database /\ Hide(d) # NoTxn
         /\ Hide(d).events = d.events /\ Hide(d).alerts = d.alerts
         /\ Hide(d).notifications = Blanks(d.notifications)
         /\ Jobs(d) \in D!Queue /\ Jobs(d) # NoTxn /\ Jobs(d).notifications = d.notifications
<1>1. d.notifications \in Seq(JobRow) /\ Blanks(d.notifications) \in Seq(JobRow)
  BY BlankRows DEF Database
<1>2. Hide(d) \in Database
  BY <1>1 DEF Hide, Database
<1>3. Jobs(d) \in D!Queue
  BY <1>1, SameData DEF Jobs, D!Queue
<1> QED
  BY <1>2, <1>3, NoTxnAssumption, NoQueueAssumption DEF Hide, Jobs

-----------------------------------------------------------------------------
(* The inductive invariant *)

(* What neither view shows: a snapshot nobody has outdated is the whole    *)
(* database, the worker's claim changes nothing of it but the jobs, and    *)
(* only the enqueue loop has channels to go through.                       *)
BothInv ==
  /\ db \in Database /\ view \in [Connections -> Database \cup {NoTxn}]
  /\ writer \in Connections \cup {NoConn}
  /\ \A t \in Tasks :
       /\ pc[t] # "enqueueing" => todo[t] = <<>>
       /\ pc[t] = "reading" /\ t \notin stale => view[t] = db
  /\ phase = "selected" /\ Worker \notin stale => view[Worker] = db
  /\ phase = "updated" => view[Worker] = [db EXCEPT !.notifications = Claim(@, job)]

ServerInv == BothInv /\ Requests!IInv /\ Requests!HistoryInv /\ Worked!IInv

Writing(t) == pc[t] \in {"inserted", "enqueueing"}

(* The two invariants about transactions, said of the server. *)
LEMMA Transactions ==
  ASSUME ServerInv
  PROVE  /\ \A t \in Tasks : view[t] # NoTxn <=> (pc[t] = "reading" \/ Writing(t))
         /\ \A t \in Tasks : Writing(t) <=> writer = t
         /\ writer \in Tasks \cup {Worker, NoConn}
         /\ writer = Worker <=> phase = "updated"
         /\ view[Worker] # NoTxn <=> phase \in {"selected", "updated"}
         /\ Worker \in stale => phase = "selected"
<1>1. /\ db \in Database /\ view \in [Connections -> Database \cup {NoTxn}]
      /\ writer \in Connections \cup {NoConn}
  BY DEF ServerInv, BothInv
<1>2. Requests!TxnInv /\ Worked!TxnInv
  BY DEF ServerInv, Requests!IInv, Worked!IInv
<1>3. ASSUME NEW t \in Tasks PROVE RView[t] # NoTxn <=> view[t] # NoTxn
  BY <1>1, ViewTypes, TasksAssumption DEF RView
<1>4. WView[Worker] # NoTxn <=> view[Worker] # NoTxn
  BY <1>1, ViewTypes, DeskIsTask DEF WView
<1>5. \A t \in Tasks : /\ Requests!Writing(t) <=> Writing(t)
                      /\ Requests!InTxn(t) <=> (pc[t] = "reading" \/ Writing(t))
  BY DEF Requests!Writing, Requests!InTxn, Writing
<1>6. ASSUME NEW t \in Tasks
      PROVE  /\ view[t] # NoTxn <=> (pc[t] = "reading" \/ Writing(t))
             /\ Writing(t) <=> writer = t
  <2>1. view[t] # NoTxn => Requests!InTxn(t)
    BY <1>2, <1>3, TasksAssumption DEF Requests!TxnInv
  <2>2. Requests!InTxn(t) => view[t] # NoTxn
    BY <1>2, <1>3 DEF Requests!TxnInv
  <2>3. Requests!Writing(t) => writer = t
    BY <1>2, TasksAssumption, NoConnAssumption DEF Requests!TxnInv, RWriter
  <2>4. writer = t => Requests!Writing(t)
    BY <1>2, TasksAssumption, NoConnAssumption DEF Requests!TxnInv, RWriter
  <2> QED
    BY <2>1, <2>2, <2>3, <2>4 DEF Requests!InTxn, Requests!Writing, Writing
<1>7. writer \in Tasks \cup {Worker, NoConn}
  BY <1>2, DeskIsTask DEF Worked!TxnInv, WWriter
<1>8. writer = Worker <=> phase = "updated"
  BY <1>2, DeskIsTask, WorkerAssumption DEF Worked!TxnInv, WWriter
<1>9. view[Worker] # NoTxn <=> phase \in {"selected", "updated"}
  BY <1>2, <1>4 DEF Worked!TxnInv, Worked!Transacting
<1>10. Worker \in stale => phase = "selected"
  BY <1>2 DEF Worked!TxnInv, WStale
<1> QED
  BY <1>6, <1>7, <1>8, <1>9, <1>10

(* The types of everything, read off the two views. *)
LEMMA Types ==
  ASSUME ServerInv
  PROVE  /\ db \in Database /\ view \in [Connections -> Database \cup {NoTxn}]
         /\ writer \in Connections \cup {NoConn}
         /\ pc \in [Tasks -> Phases] /\ request \in [Tasks -> Events \cup {NoEvent}]
         /\ todo \in [Tasks -> Seq(Channels)] /\ reply \in [Tasks -> Outcomes \cup {"none"}]
  BY DEF ServerInv, BothInv, Requests!IInv, Requests!TypeOK, Requests!Phases, Requests!Outcomes,
         Phases, Outcomes

-----------------------------------------------------------------------------
(* What a step of the server is, seen either way *)

StepOfBoth == [Requests!Next]_(Requests!vars) /\ [Worked!Next]_(Worked!vars)

(* A step of both, and of what neither shows, preserves the invariant. *)
LEMMA StepKeeps ==
  ASSUME ServerInv, StepOfBoth, BothInv'
  PROVE  ServerInv'
<1>1. Requests!IInv /\ [Requests!Next]_(Requests!vars) => Requests!IInv'
  BY RequestsMayBeUsed, Requests!NextIInv
<1>2. Requests!IInv /\ Requests!HistoryInv /\ [Requests!Next]_(Requests!vars) => Requests!HistoryInv'
  BY RequestsMayBeUsed, Requests!NextHistoryInv
<1>3. Worked!IInv /\ [Worked!Next]_(Worked!vars) => Worked!IInv'
  BY WorkedMayBeUsed, Worked!NextKeepsIInv
<1> QED
  BY <1>1, <1>2, <1>3 DEF ServerInv, StepOfBoth

(* A request changes its own connection only. *)
LEMMA ConnectionChanges ==
  ASSUME ServerInv, NEW t \in Tasks, NEW v \in Database \cup {NoTxn}, view' = [view EXCEPT ![t] = v]
  PROVE  /\ RView' = [RView EXCEPT ![t] = IF v = NoTxn THEN NoTxn ELSE Hide(v)]
         /\ view' \in [Connections -> Database \cup {NoTxn}] /\ view'[t] = v
         /\ view'[Worker] = view[Worker] /\ \A u \in Tasks \ {t} : view'[u] = view[u]
<1>1. /\ view \in [Connections -> Database \cup {NoTxn}] /\ t \in Connections
      /\ Worker \in Connections /\ Worker # t
  BY Types, TasksAssumption, WorkerAssumption
<1> QED
  BY <1>1, TasksAssumption DEF RView

(* A request that begins or ends leaves the other readers as late as they  *)
(* were.                                                                   *)
LEMMA ReadersChange ==
  ASSUME ServerInv, NEW t \in Tasks, NEW p, pc' = [pc EXCEPT ![t] = p],
         db'.events = db.events, p = "reading" => view'[t].events = db.events,
         \A u \in Tasks \ {t} : view'[u] = view[u]
  PROVE  RStale' = RStale \ {t}
  BY Types DEF RStale

(* What the worker does not notice. *)
LEMMA WorkerUnaware ==
  ASSUME ServerInv, UNCHANGED workerVars, db'.notifications = db.notifications,
         view'[Worker] = view[Worker], Worker \in stale' <=> Worker \in stale, writer' = writer,
         writer \in Tasks => view'[writer].notifications = view[writer].notifications
  PROVE  UNCHANGED Worked!vars
<1>1. WDb' = WDb /\ WWriter' = WWriter /\ WStale' = WStale
  BY DEF WDb, Jobs, WWriter, WStale
<1>2. WView' = WView
  BY DEF WView, Jobs
<1> QED
  BY <1>1, <1>2 DEF workerVars, Worked!vars, Worked!sqliteVars, Worked!workerVars, Worked!historyVars

(* What neither view shows stays true when a request leaves the database   *)
(* alone, and the other connections.                                       *)
LEMMA BothKept ==
  ASSUME ServerInv, NEW t \in Tasks, UNCHANGED <<workerVars, db>>,
         view' \in [Connections -> Database \cup {NoTxn}], writer' \in Connections \cup {NoConn},
         view'[Worker] = view[Worker], \A c \in stale \ {t} : c \in stale',
         \A u \in Tasks \ {t} : pc'[u] = pc[u] /\ todo'[u] = todo[u] /\ view'[u] = view[u],
         pc'[t] # "enqueueing" => todo'[t] = <<>>,
         pc'[t] = "reading" => view'[t] = db
  PROVE  BothInv'
<1>1. Worker # t
  BY WorkerAssumption
<1>2. \A u \in Tasks :
        /\ pc'[u] # "enqueueing" => todo'[u] = <<>>
        /\ pc'[u] = "reading" /\ u \notin stale' => view'[u] = db'
  <2> SUFFICES ASSUME NEW u \in Tasks
               PROVE  /\ pc'[u] # "enqueueing" => todo'[u] = <<>>
                      /\ pc'[u] = "reading" /\ u \notin stale' => view'[u] = db'
    OBVIOUS
  <2>1. CASE u = t
    BY <2>1
  <2>2. CASE u # t
    BY <2>2 DEF ServerInv, BothInv
  <2> QED
    BY <2>1, <2>2
<1> QED
  BY <1>1, <1>2 DEF ServerInv, BothInv, workerVars

(* A request that writes nothing: before and after its transaction. *)
LEMMA HandlerSteps ==
  ASSUME ServerInv, NEW t \in Tasks, UNCHANGED workerVars,
         \/ Unauthorized(t) \/ Invalid(t) \/ Respond(t) \/ Disconnect(t)
         \/ \E e \in Events : Receive(t, e)
  PROVE  StepOfBoth /\ BothInv'
<1>1. UNCHANGED <<db, view, stale, writer>>
  BY DEF Unauthorized, Invalid, Respond, Disconnect, Receive, sqliteVars
<1>2. /\ pc[t] \notin {"reading", "enqueueing"}
      /\ \E p \in Phases \ {"reading", "enqueueing"} : pc' = [pc EXCEPT ![t] = p]
      /\ todo' = todo \/ todo' = [todo EXCEPT ![t] = <<>>]
  BY DEF Unauthorized, Invalid, Respond, Disconnect, Receive, Answer, Finish, Goto, Phases
<1>3. RDb' = RDb /\ RView' = RView /\ RWriter' = RWriter
  BY <1>1 DEF RDb, RView, RWriter
<1>4. RStale' = RStale
  <2>1. RStale' = RStale \ {t}
    BY <1>1, <1>2, ReadersChange
  <2> QED
    BY <1>2, <2>1 DEF RStale
<1>5. Requests!Next
  BY <1>3, <1>4
     DEF Unauthorized, Invalid, Respond, Disconnect, Receive, Answer, Finish, Goto, Positive,
         Requests!Next, Requests!Handle, Requests!Unauthorized, Requests!Invalid, Requests!Respond,
         Requests!Disconnect, Requests!Receive, Requests!Answer, Requests!Finish, Requests!Goto,
         Requests!Positive, Requests!sqliteVars
<1>6. UNCHANGED Worked!vars
  BY <1>1, WorkerUnaware
<1>7. BothInv'
  BY <1>1, <1>2, Types DEF ServerInv, BothInv, workerVars
<1> QED
  BY <1>5, <1>6, <1>7 DEF StepOfBoth

(* The transaction of a request begins. *)
LEMMA SelectSteps ==
  ASSUME ServerInv, NEW t \in Tasks, UNCHANGED workerVars, Select(t)
  PROVE  StepOfBoth /\ BothInv'
<1>1. /\ pc[t] = "received" /\ request[t] \in ValidEvents /\ view[t] = NoTxn
      /\ view' = [view EXCEPT ![t] = db] /\ pc' = [pc EXCEPT ![t] = "reading"]
      /\ UNCHANGED <<db, stale, writer, request, todo, reply, acked>>
  BY DEF Select, Begin, Goto
<1>2. db \in Database /\ writer # t
  BY <1>1, Types, Transactions DEF Writing
<1>3. /\ RView' = [RView EXCEPT ![t] = Hide(db)] /\ view' \in [Connections -> Database \cup {NoTxn}]
      /\ view'[t] = db /\ view'[Worker] = view[Worker]
      /\ \A u \in Tasks \ {t} : view'[u] = view[u]
  BY <1>1, <1>2, ConnectionChanges, NoTxnAssumption
<1>4. RDb' = RDb /\ RWriter' = RWriter
  BY <1>1 DEF RDb, RWriter
<1>5. RStale' = RStale
  <2>1. RStale' = RStale \ {t}
    BY <1>1, <1>3, ReadersChange
  <2> QED
    BY <1>1, <2>1 DEF RStale
<1>6. Requests!Select(t)
  <2>1. RView[t] = NoTxn
    BY <1>1, TasksAssumption DEF RView
  <2> QED
    BY <1>1, <1>3, <1>4, <1>5, <2>1 DEF RDb, Requests!Select, Requests!Begin, Requests!Goto
<1>7. UNCHANGED Worked!vars
  BY <1>1, <1>2, <1>3, WorkerUnaware
<1>8. BothInv'
  BY <1>1, <1>3, Types DEF ServerInv, BothInv, workerVars
<1> QED
  BY <1>6, <1>7, <1>8 DEF StepOfBoth, Requests!Next, Requests!Handle

(* A transaction is dropped, as a reader's or as the writer's. *)
LEMMA RollbackSteps ==
  ASSUME ServerInv, NEW t \in Tasks, UNCHANGED workerVars,
         Duplicate(t) \/ Conflict(t) \/ InsertBusy(t) \/ StatementError(t)
  PROVE  StepOfBoth /\ BothInv'
<1>1. /\ pc[t] \in {"reading", "inserted", "enqueueing"} /\ pc' = [pc EXCEPT ![t] = "replying"]
      /\ view' = [view EXCEPT ![t] = NoTxn] /\ stale' = stale \ {t}
      /\ writer' = (IF writer = t THEN NoConn ELSE writer)
      /\ todo' = [todo EXCEPT ![t] = <<>>]
      /\ UNCHANGED <<db, request, acked>>
  BY Types DEF Duplicate, Conflict, InsertBusy, StatementError, Rollback, Answer, Goto, ServerInv, BothInv
<1>2. /\ RView' = [RView EXCEPT ![t] = NoTxn] /\ view' \in [Connections -> Database \cup {NoTxn}]
      /\ view'[t] = NoTxn /\ view'[Worker] = view[Worker]
      /\ \A u \in Tasks \ {t} : view'[u] = view[u]
  BY <1>1, ConnectionChanges
<1>3. RDb' = RDb /\ RWriter' = (IF RWriter = t THEN NoConn ELSE RWriter)
  BY <1>1, NoConnAssumption, TasksAssumption DEF RDb, RWriter
<1>4. RStale' = RStale \ {t}
  BY <1>1, <1>2, ReadersChange
<1>5. Requests!Rollback(t)
  BY <1>2, <1>3, <1>4 DEF Requests!Rollback
<1>6. Requests!Handle(t)
  <2>1. view[t] \in Database /\ RView[t] = Hide(view[t])
    BY <1>1, Types, Transactions, TasksAssumption DEF RView, Writing
  <2>2. RView[t].events = view[t].events /\ RView[t].alerts = view[t].alerts
    BY <2>1, ViewTypes
  <2>3. CASE Duplicate(t)
    BY <1>5, <2>2, <2>3
       DEF Duplicate, SamePayload, Answer, Goto, Requests!Handle, Requests!Duplicate,
           Requests!SamePayload, Requests!Answer, Requests!Goto
  <2>4. CASE Conflict(t)
    BY <1>5, <2>2, <2>4
       DEF Conflict, Known, SamePayload, Answer, Goto, Requests!Handle, Requests!Conflict,
           Requests!Known, Requests!SamePayload, Requests!Answer, Requests!Goto
  <2>5. CASE InsertBusy(t) \/ StatementError(t)
    BY <1>1, <1>5, <2>5
       DEF InsertBusy, StatementError, Answer, Goto, Requests!Handle, Requests!StatementError,
           Requests!Answer, Requests!Goto
  <2> QED
    BY <2>3, <2>4, <2>5
<1>7. [Worked!Next]_(Worked!vars)
  <2>1. CASE writer # t
    <3>1. Worker \in stale' <=> Worker \in stale
      BY <1>1, WorkerAssumption
    <3>2. UNCHANGED Worked!vars
      BY <1>1, <1>2, <2>1, <3>1, WorkerUnaware
    <3> QED
      BY <3>2
  <2>2. CASE writer = t
    <3>1. WDb' = WDb /\ WWriter = Desk /\ WWriter' = NoConn
      BY <1>1, <2>2, NoConnAssumption, TasksAssumption DEF WDb, WWriter
    <3>2. WView' = [WView EXCEPT ![Desk] = NoTxn]
      BY <1>1, <1>2, <2>2, NoConnAssumption, TasksAssumption, DeskIsTask DEF WView
    <3>3. WStale' = WStale \ {Desk}
      BY <1>1, WorkerAssumption, DeskIsTask DEF WStale
    <3>4. Worked!QueueRollback
      BY <3>1, <3>2, <3>3
         DEF workerVars, Worked!QueueRollback, Worked!Rollback, Worked!workerVars, Worked!historyVars
    <3> QED
      BY <3>4 DEF Worked!Next
  <2> QED
    BY <2>1, <2>2
<1>8. BothInv'
  <2>1. pc'[t] = "replying" /\ todo'[t] = <<>>
    BY <1>1, Types
  <2>2. \A u \in Tasks \ {t} : pc'[u] = pc[u] /\ todo'[u] = todo[u]
    BY <1>1, Types
  <2>3. writer' \in Connections \cup {NoConn}
    BY <1>1, Types
  <2> QED
    BY <1>1, <1>2, <2>1, <2>2, <2>3, BothKept
<1> QED
  BY <1>6, <1>7, <1>8 DEF StepOfBoth, Requests!Next

-----------------------------------------------------------------------------
(* The writing transaction of a request *)

(* The operators of the parts are the same. *)
LEMMA SameStatements ==
  /\ \A a, e : Requests!Transition(a, e) = Transition(a, e)
  /\ \A a, e : Requests!Announced(e, a) <=> Announced(e, a)
  /\ \A e, a, c : /\ Requests!NewJob(e, a, c) = NewJob(e, a, c)
                  /\ Worked!NewJob(e, [status |-> a.status], c) = NewJob(e, a, c)
  /\ \A rows, row : /\ Requests!InsertOrIgnore(rows, row) = InsertOrIgnore(rows, row)
                    /\ Worked!InsertOrIgnore(rows, row) = InsertOrIgnore(rows, row)
<1>1. \A e, s : Requests!NewAlert(e, s) = NewAlert(e, s)
  BY DEF Requests!NewAlert, NewAlert
<1>2. \A a, e : Requests!Touch(a, e) = Touch(a, e)
  BY DEF Requests!Touch, Touch
<1>3. \A a, e : /\ Requests!TransitionFiring(a, e) = TransitionFiring(a, e)
                /\ Requests!TransitionResolved(a, e) = TransitionResolved(a, e)
                /\ Requests!TransitionInfo(a, e) = TransitionInfo(a, e)
  BY <1>1, <1>2
     DEF Requests!TransitionFiring, Requests!TransitionResolved, Requests!TransitionInfo,
         TransitionFiring, TransitionResolved, TransitionInfo
<1>4. \A a, e : Requests!Transition(a, e) = Transition(a, e)
  BY <1>3 DEF Requests!Transition, Transition
<1>5. \A a, e : Requests!Announced(e, a) <=> Announced(e, a)
  BY DEF Requests!Announced, Announced
<1>6. \A e, a, c : /\ Requests!NewJob(e, a, c) = NewJob(e, a, c)
                   /\ Worked!NewJob(e, [status |-> a.status], c) = NewJob(e, a, c)
  BY DEF Requests!NewJob, Worked!NewJob, NewJob
<1>7. \A rows, row : /\ Requests!InsertOrIgnore(rows, row) = InsertOrIgnore(rows, row)
                     /\ Worked!InsertOrIgnore(rows, row) = InsertOrIgnore(rows, row)
  BY DEF Requests!InsertOrIgnore, Worked!InsertOrIgnore, InsertOrIgnore
<1> QED
  BY <1>4, <1>5, <1>6, <1>7

(* What the writing request sees. *)
LEMMA WriterSees ==
  ASSUME ServerInv, NEW t \in Tasks, Writing(t)
  PROVE  /\ view[t] \in Database /\ RView[t] = Hide(view[t]) /\ writer = t /\ RWriter = t
         /\ WWriter = Desk /\ WView[Desk] = Jobs(view[t])
         /\ request[t] \in Events
         /\ view[t].events = Append(db.events, request[t])
         /\ pc[t] = "enqueueing" => view[t].alerts[request[t].fingerprint] \in AlertRecord
<1>1. /\ view[t] \in Database /\ RView[t] = Hide(view[t]) /\ writer = t /\ RWriter = t
      /\ WWriter = Desk
  BY Types, Transactions, TasksAssumption DEF RView, RWriter, WWriter
<1>2. WView[Desk] = Jobs(view[t])
  BY <1>1, DeskIsTask DEF WView
<1>3. /\ RView[t].events = view[t].events /\ RView[t].alerts = view[t].alerts
      /\ RDb.events = db.events
  BY <1>1, Types, ViewTypes DEF RDb
<1>4. request[t] \in Events
  BY EventsAssumption
     DEF ServerInv, Requests!IInv, Requests!TxnInv, Requests!InTxn, Requests!Writing, Writing
<1>5. view[t].events = Append(db.events, request[t])
  BY <1>3 DEF ServerInv, Requests!IInv, Requests!SnapshotInv, Requests!SnapshotOK, Requests!Writing,
              Writing
<1>6. ASSUME pc[t] = "enqueueing"
      PROVE  view[t].alerts[request[t].fingerprint] \in AlertRecord
  <2>1. Requests!Alerted(RView[t])
    BY <1>6 DEF ServerInv, Requests!IInv, Requests!SnapshotInv, Requests!SnapshotOK
  <2>2. /\ Len(db.events) + 1 \in DOMAIN view[t].events
        /\ view[t].events[Len(db.events) + 1] = request[t]
    <3>1. db.events \in Seq(Events)
      BY Types DEF Database
    <3> QED
      BY <1>4, <1>5, <3>1, AppendProperties
  <2>3. view[t].alerts[request[t].fingerprint] # NoAlert
    BY <1>3, <2>1, <2>2 DEF Requests!Alerted
  <2>4. request[t].fingerprint \in Fingerprints
    BY <1>4 DEF Fingerprints
  <2> QED
    BY <1>1, <2>3, <2>4 DEF Database
<1> QED
  BY <1>1, <1>2, <1>4, <1>5, <1>6

(* The INSERT of the event takes the write lock. *)
LEMMA InsertEventSteps ==
  ASSUME ServerInv, NEW t \in Tasks, UNCHANGED workerVars, InsertEvent(t)
  PROVE  StepOfBoth /\ BothInv'
<1> DEFINE v == [view[t] EXCEPT !.events = Append(@, request[t])]
<1>1. /\ pc[t] = "reading" /\ ~Known(t) /\ MayWrite(t) /\ pc' = [pc EXCEPT ![t] = "inserted"]
      /\ view' = [view EXCEPT ![t] = v] /\ writer' = t
      /\ UNCHANGED <<db, stale, request, todo, reply, acked>>
  BY DEF InsertEvent, Write, Goto
<1>2. writer = NoConn /\ t \notin stale /\ view[t] = db /\ todo[t] = <<>>
  BY <1>1, Transactions DEF MayWrite, Writing, ServerInv, BothInv
<1>3. db \in Database /\ request[t] \in Events
  BY <1>1, Types, EventsAssumption DEF ServerInv, Requests!IInv, Requests!TxnInv, Requests!InTxn
<1>4. /\ v \in Database /\ v # NoTxn /\ Hide(v) = [Hide(db) EXCEPT !.events = Append(@, request[t])]
      /\ Jobs(v) = Jobs(db)
  <2>1. Append(db.events, request[t]) \in Seq(Events)
    BY <1>3, AppendProperties DEF Database
  <2>2. v \in Database /\ v.events = Append(db.events, request[t]) /\ v.alerts = db.alerts
        /\ v.notifications = db.notifications
    BY <1>2, <1>3, <2>1 DEF Database
  <2>3. \A log : [Hide(db) EXCEPT !.events = log] =
                 [events |-> log, alerts |-> db.alerts, notifications |-> Blanks(db.notifications)]
    BY DEF Hide
  <2>4. Hide(db).events = db.events
    BY DEF Hide
  <2>5. Hide(v) = [Hide(db) EXCEPT !.events = Append(@, request[t])]
    BY <2>2, <2>3, <2>4 DEF Hide
  <2> QED
    BY <2>2, <2>5, NoTxnAssumption DEF Jobs
<1> HIDE DEF v
<1>5. /\ RView' = [RView EXCEPT ![t] = Hide(v)] /\ view' \in [Connections -> Database \cup {NoTxn}]
      /\ view'[t] = v /\ view'[Worker] = view[Worker] /\ \A u \in Tasks \ {t} : view'[u] = view[u]
  BY <1>1, <1>4, ConnectionChanges
<1>6. /\ RDb' = RDb /\ RWriter = NoConn /\ RWriter' = t /\ RView[t] = RDb
      /\ RView[t].events = db.events
  BY <1>1, <1>2, <1>3, NoConnAssumption, TasksAssumption, NoTxnAssumption, ViewTypes
     DEF RDb, RWriter, RView
<1>7. RStale' = RStale /\ t \notin RStale
  <2>1. RStale' = RStale \ {t}
    BY <1>1, <1>5, ReadersChange
  <2> QED
    BY <1>2, <2>1 DEF RStale
<1>8. Requests!InsertEvent(t)
  BY <1>1, <1>2, <1>4, <1>5, <1>6, <1>7
     DEF RDb, Known, Requests!InsertEvent, Requests!Known, Requests!Write, Requests!MayWrite, Requests!Goto
<1>9. Worked!QueueBegin
  <2>1. WDb' = WDb /\ WWriter = NoConn /\ WWriter' = Desk /\ WStale' = WStale
    BY <1>1, <1>2, NoConnAssumption, TasksAssumption DEF WDb, WWriter, WStale
  <2>2. WView[Desk] = NoTxn
    BY <1>2, DeskIsTask, NoConnAssumption, TasksAssumption DEF WView
  <2>3. WView' = [WView EXCEPT ![Desk] = WDb]
    BY <1>1, <1>2, <1>4, <1>5, DeskIsTask, NoConnAssumption, TasksAssumption DEF WView, WDb
  <2> QED
    BY <2>1, <2>2, <2>3 DEF workerVars, Worked!QueueBegin, Worked!workerVars, Worked!historyVars
<1>10. BothInv'
  <2>1. pc'[t] = "inserted" /\ todo'[t] = <<>> /\ writer' \in Connections \cup {NoConn}
        /\ \A u \in Tasks \ {t} : pc'[u] = pc[u] /\ todo'[u] = todo[u]
    BY <1>1, <1>2, Types, TasksAssumption
  <2> QED
    BY <1>1, <1>5, <2>1, BothKept
<1> QED
  BY <1>8, <1>9, <1>10 DEF StepOfBoth, Requests!Next, Requests!Handle, Worked!Next

(* The UPSERT of the alert. *)
LEMMA TransitionAlertSteps ==
  ASSUME ServerInv, NEW t \in Tasks, UNCHANGED workerVars, TransitionAlert(t)
  PROVE  StepOfBoth /\ BothInv'
<1> DEFINE e == request[t]
           f == e.fingerprint
           alert == Transition(view[t].alerts[f], e)
           v == [view[t] EXCEPT !.alerts[f] = alert]
<1>1. /\ pc[t] = "inserted" /\ pc' = [pc EXCEPT ![t] = "enqueueing"]
      /\ view' = [view EXCEPT ![t] = v] /\ writer' = t
      /\ todo' = [todo EXCEPT ![t] = IF Announced(e, alert) THEN Routes[e] ELSE <<>>]
      /\ UNCHANGED <<db, stale, request, reply, acked>>
  BY DEF TransitionAlert, Write, Goto
<1>2. /\ Writing(t) /\ view[t] \in Database /\ RView[t] = Hide(view[t]) /\ writer = t /\ RWriter = t
      /\ e \in Events
  BY <1>1, WriterSees DEF Writing
<1>3. f \in Fingerprints /\ alert \in AlertRecord
  <2>1. f \in Fingerprints
    BY <1>2 DEF Fingerprints
  <2>2. view[t].alerts[f] \in AlertRecord \cup {NoAlert}
    BY <1>2, <2>1 DEF Database
  <2>3. Requests!Transition(view[t].alerts[f], e) \in Requests!AlertRecord
    BY <1>2, <2>2, RequestsMayBeUsed, Requests!TransitionType, SameData
  <2> QED
    BY <2>1, <2>3, SameData, SameStatements
<1> HIDE DEF alert, e, f
<1>4. /\ v \in Database /\ v # NoTxn /\ Hide(v) = [Hide(view[t]) EXCEPT !.alerts[f] = alert]
      /\ v.notifications = view[t].notifications
  <2>1. [view[t].alerts EXCEPT ![f] = alert] \in [Fingerprints -> AlertRecord \cup {NoAlert}]
    BY <1>2, <1>3 DEF Database
  <2>2. /\ v \in Database /\ v.events = view[t].events
        /\ v.alerts = [view[t].alerts EXCEPT ![f] = alert]
        /\ v.notifications = view[t].notifications
    BY <1>2, <2>1 DEF Database
  <2> QED
    BY <2>2, NoTxnAssumption DEF Hide
<1> HIDE DEF v
<1>5. /\ RView' = [RView EXCEPT ![t] = Hide(v)] /\ view' \in [Connections -> Database \cup {NoTxn}]
      /\ view'[t] = v /\ view'[Worker] = view[Worker] /\ \A u \in Tasks \ {t} : view'[u] = view[u]
  BY <1>1, <1>4, ConnectionChanges
<1>6. RDb' = RDb /\ RWriter' = t
  BY <1>1 DEF RDb, RWriter
<1>7. RStale' = RStale
  <2>1. RStale' = RStale \ {t}
    BY <1>1, <1>5, ReadersChange
  <2> QED
    BY <1>1, <2>1 DEF RStale
<1>8. Requests!TransitionAlert(t)
  <2>1. /\ RView[t].alerts = view[t].alerts
        /\ alert = Requests!Transition(RView[t].alerts[f], e)
        /\ Requests!Announced(e, alert) <=> Announced(e, alert)
    BY <1>2, ViewTypes, SameStatements DEF alert
  <2>2. Requests!Write(t, [RView[t] EXCEPT !.alerts[f] = alert])
    BY <1>1, <1>2, <1>4, <1>5, <1>6, <1>7 DEF Requests!Write, Requests!MayWrite
  <2> QED
    BY <1>1, <2>1, <2>2 DEF Requests!TransitionAlert, Requests!Goto, e, f
<1>9. UNCHANGED Worked!vars
  BY <1>1, <1>2, <1>4, <1>5, WorkerUnaware
<1>10. BothInv'
  <2>1. /\ pc'[t] = "enqueueing" /\ writer' \in Connections \cup {NoConn}
        /\ \A u \in Tasks \ {t} : pc'[u] = pc[u] /\ todo'[u] = todo[u]
    BY <1>1, Types, TasksAssumption
  <2> QED
    BY <1>1, <1>5, <2>1, BothKept
<1> QED
  BY <1>8, <1>9, <1>10 DEF StepOfBoth, Requests!Next, Requests!Handle

(* A table with every (event, channel) once has room for its jobs. *)
LEMMA Room ==
  ASSUME NEW rows \in Seq(JobRow), Requests!Distinct(rows)
  PROVE  Len(rows) <= MaxJobs
<1> DEFINE n == Len(rows)
           f == [i \in 1..n |-> <<rows[i].event_id, rows[i].channel>>]
<1>1. n \in Nat /\ DOMAIN rows = 1..n /\ \A i \in 1..n : rows[i] \in JobRow
  OBVIOUS
<1>2. f \in [1..n -> EventIds \X Channels]
  BY <1>1 DEF JobRow
<1>3. \A i, j \in 1..n : f[i] = f[j] => i = j
  BY <1>1 DEF Requests!Distinct
<1> HIDE DEF f
<1>4. f \in Injection(1..n, EventIds \X Channels)
  BY <1>2, <1>3 DEF Injection, IsInjective
<1>5. Cardinality(1..n) <= Cardinality(EventIds \X Channels) /\ IsFiniteSet(1..n)
  BY <1>4, FS_Injection, WorkerAssumption
<1>6. Cardinality(1..n) = n
  <2>1. n \in Nat
    BY <1>1
  <2> HIDE DEF n
  <2>2. Cardinality(1..n) = IF 1 > n THEN 0 ELSE n - 1 + 1
    BY <2>1, FS_Interval
  <2> QED
    BY <2>1, <2>2
<1>7. Cardinality(EventIds \X Channels) \in Nat
  BY FS_CardinalityType, WorkerAssumption
<1> QED
  BY <1>1, <1>5, <1>6, <1>7, WorkerAssumption

(* One turn of the enqueue loop, which has room for the job. *)
LEMMA EnqueueNextSteps ==
  ASSUME ServerInv, NEW t \in Tasks, UNCHANGED workerVars, EnqueueNext(t)
  PROVE  StepOfBoth /\ BothInv'
<1> DEFINE e == request[t]
           alert == view[t].alerts[e.fingerprint]
           c == Head(todo[t])
           row == NewJob(e, alert, c)
           rows == view[t].notifications
           more == InsertOrIgnore(rows, row)
           v == [view[t] EXCEPT !.notifications = more]
<1>1. /\ pc[t] = "enqueueing" /\ todo[t] # <<>>
      /\ view' = [view EXCEPT ![t] = v] /\ writer' = t /\ todo' = [todo EXCEPT ![t] = Tail(@)]
      /\ UNCHANGED <<db, stale, pc, request, reply, acked>>
  BY DEF EnqueueNext, Write
<1>2. /\ view[t] \in Database /\ RView[t] = Hide(view[t]) /\ writer = t /\ RWriter = t
      /\ WWriter = Desk /\ WView[Desk] = Jobs(view[t])
      /\ e \in Events /\ alert \in AlertRecord
  BY <1>1, WriterSees DEF Writing
<1>3. c \in Channels /\ Tail(todo[t]) \in Seq(Channels)
  BY <1>1, Types
<1>4. row \in JobRow /\ Blank(row) = row
  <2>1. e.event_id \in EventIds /\ e.fingerprint \in Fingerprints /\ alert.status \in AlertStatuses
    BY <1>2 DEF EventIds, Fingerprints, AlertRecord
  <2> QED
    BY <1>3, <2>1 DEF NewJob, JobRow, JobStatuses, Blank
<1>5. rows \in Seq(JobRow)
  BY <1>2 DEF Database
<1>6. more \in Seq(JobRow) /\ Blanks(more) = InsertOrIgnore(Blanks(rows), row)
  BY <1>4, <1>5, BlankInsert
<1> HIDE DEF row, more
<1>7. /\ v \in Database /\ v # NoTxn /\ v.notifications = more
      /\ Hide(v) = [Hide(view[t]) EXCEPT !.notifications = InsertOrIgnore(@, row)]
      /\ Jobs(v) = [Jobs(view[t]) EXCEPT !.notifications = more]
  <2>1. /\ v \in Database /\ v.events = view[t].events /\ v.alerts = view[t].alerts
        /\ v.notifications = more
    BY <1>2, <1>6 DEF Database
  <2>2. \A new : [Hide(view[t]) EXCEPT !.notifications = new] =
                 [events |-> view[t].events, alerts |-> view[t].alerts, notifications |-> new]
    BY DEF Hide
  <2>3. Hide(view[t]).notifications = Blanks(rows)
    BY DEF Hide
  <2>4. Hide(v) = [Hide(view[t]) EXCEPT !.notifications = InsertOrIgnore(@, row)]
    BY <1>6, <2>1, <2>2, <2>3 DEF Hide
  <2> QED
    BY <2>1, <2>4, NoTxnAssumption DEF Jobs
<1> HIDE DEF v
<1>8. /\ RView' = [RView EXCEPT ![t] = Hide(v)] /\ view' \in [Connections -> Database \cup {NoTxn}]
      /\ view'[t] = v /\ view'[Worker] = view[Worker] /\ \A u \in Tasks \ {t} : view'[u] = view[u]
  BY <1>1, <1>7, ConnectionChanges
<1>9. RDb' = RDb /\ RWriter' = t /\ WDb' = WDb /\ WWriter' = Desk /\ WStale' = WStale
  BY <1>1 DEF RDb, RWriter, WDb, WWriter, WStale
<1>10. RStale' = RStale
  BY <1>1, <1>8 DEF RStale
<1>11. Requests!EnqueueNext(t)
  <2>1. RView[t].alerts = view[t].alerts
    BY <1>2, ViewTypes
  <2>2. Requests!Write(t, [RView[t] EXCEPT !.notifications = InsertOrIgnore(@, row)])
    BY <1>2, <1>7, <1>8, <1>9, <1>10 DEF Requests!Write, Requests!MayWrite
  <2>3. row = Requests!NewJob(e, RView[t].alerts[e.fingerprint], c)
    BY <2>1, SameStatements DEF row
  <2>4. Requests!Write(t, [RView[t] EXCEPT !.notifications = Requests!InsertOrIgnore(@, row)])
    BY <2>2, SameStatements
  <2> QED
    BY <1>1, <2>3, <2>4 DEF Requests!EnqueueNext
<1>12. Requests!Next
  BY <1>11 DEF Requests!Next, Requests!Handle
<1>13. Len(more) <= MaxJobs
  <2>1. Requests!HistoryInv'
    <3>1. Requests!IInv /\ Requests!HistoryInv /\ [Requests!Next]_(Requests!vars) => Requests!HistoryInv'
      BY RequestsMayBeUsed, Requests!NextHistoryInv
    <3> QED
      BY <1>12, <3>1 DEF ServerInv
  <2>2. Requests!JobsWith(RView'[t], Requests!Coming(t)')
    BY <1>1, <2>1 DEF Requests!HistoryInv, Requests!HistoryOK
  <2>3. RView'[t].notifications = Blanks(more)
    <3>1. RView'[t] = Hide(v)
      BY <1>7, <1>8, TasksAssumption DEF RView
    <3> QED
      BY <1>7, <3>1 DEF Hide
  <2>4. Requests!Distinct(Blanks(more))
    BY <2>2, <2>3 DEF Requests!JobsWith
  <2>5. Blanks(more) \in Seq(JobRow) /\ Len(Blanks(more)) = Len(more)
    BY <1>6, BlankRows
  <2> QED
    BY <2>4, <2>5, Room
<1>14. Worked!Next
  <2>1. alert.status \in AlertStatuses
    BY <1>2 DEF AlertRecord
  <2>2. WView' = [WView EXCEPT ![Desk] = Jobs(v)]
    BY <1>1, <1>2, <1>8, DeskIsTask, TasksAssumption DEF WView
  <2>3. WView[Desk].notifications = rows
    BY <1>2 DEF Jobs
  <2>4. Worked!Write(Desk, [WView[Desk] EXCEPT !.notifications = more])
    BY <1>2, <1>7, <1>9, <2>2 DEF Worked!Write, Worked!MayWrite
  <2>5. more = Worked!InsertOrIgnore(rows, Worked!NewJob(e, [status |-> alert.status], c))
    BY SameStatements DEF more, row
  <2>6. Worked!QueueJob(e, c, alert.status)
    BY <1>2, <1>9, <1>13, <2>3, <2>4, <2>5
       DEF workerVars, Worked!QueueJob, Worked!workerVars, Worked!historyVars
  <2> QED
    BY <1>2, <1>3, <2>1, <2>6 DEF Worked!Next
<1>15. BothInv'
  <2>1. /\ pc'[t] = "enqueueing" /\ writer' \in Connections \cup {NoConn}
        /\ \A u \in Tasks \ {t} : pc'[u] = pc[u] /\ todo'[u] = todo[u]
    BY <1>1, Types, TasksAssumption
  <2> QED
    BY <1>1, <1>8, <2>1, BothKept
<1> QED
  BY <1>12, <1>14, <1>15 DEF StepOfBoth

(* The commit: the event, its alert and its jobs are there at once, and    *)
(* every other open transaction is late.                                   *)
LEMMA CommitEventSteps ==
  ASSUME ServerInv, NEW t \in Tasks, UNCHANGED workerVars, CommitEvent(t)
  PROVE  StepOfBoth /\ BothInv'
<1>1. /\ pc[t] = "enqueueing" /\ todo[t] = <<>> /\ pc' = [pc EXCEPT ![t] = "replying"]
      /\ db' = view[t] /\ view' = [view EXCEPT ![t] = NoTxn]
      /\ stale' = OpenTxns \ {t} /\ writer' = NoConn
      /\ UNCHANGED <<request, todo, acked>>
  BY DEF CommitEvent, Commit, Answer, Goto
<1>2. /\ view[t] \in Database /\ RView[t] = Hide(view[t]) /\ writer = t /\ RWriter = t
      /\ WWriter = Desk /\ WView[Desk] = Jobs(view[t]) /\ request[t] \in Events
      /\ view[t].events = Append(db.events, request[t])
  BY <1>1, WriterSees DEF Writing
<1>3. /\ RView' = [RView EXCEPT ![t] = NoTxn] /\ view' \in [Connections -> Database \cup {NoTxn}]
      /\ view'[t] = NoTxn /\ view'[Worker] = view[Worker]
      /\ \A u \in Tasks \ {t} : view'[u] = view[u]
  BY <1>1, ConnectionChanges
<1>4. RDb' = RView[t] /\ RWriter' = NoConn /\ WDb' = WView[Desk] /\ WWriter' = NoConn
  BY <1>1, <1>2, NoConnAssumption, TasksAssumption DEF RDb, RWriter, WDb, WWriter
<1>5. ASSUME NEW u \in Tasks \ {t}
      PROVE  /\ pc'[u] = pc[u] /\ ~Writing(u)
             /\ view[u] # NoTxn <=> pc[u] = "reading"
             /\ pc[u] = "reading" => view[u].events # db'.events
  <2>1. pc'[u] = pc[u]
    BY <1>1, Types
  <2>2. ~Writing(u) /\ (view[u] # NoTxn <=> pc[u] = "reading")
    BY <1>2, Transactions
  <2>3. ASSUME pc[u] = "reading" PROVE view[u].events # db'.events
    <3>1. Len(RView[u].events) <= Len(RDb.events)
      BY <2>3 DEF ServerInv, Requests!IInv, Requests!SnapshotInv, Requests!SnapshotOK
    <3>2. RView[u].events = view[u].events /\ RDb.events = db.events /\ db.events \in Seq(Events)
      <4>1. view[u] # NoTxn /\ view[u] \in Database /\ db \in Database
        BY <2>2, <2>3, Types, TasksAssumption
      <4> QED
        BY <4>1, ViewTypes, TasksAssumption DEF RView, RDb, Database
    <3>3. Len(db'.events) = Len(db.events) + 1 /\ Len(db.events) \in Nat
      BY <1>1, <1>2, <3>2, AppendProperties
    <3> QED
      BY <3>1, <3>2, <3>3
  <2> QED
    BY <2>1, <2>2, <2>3
<1>6. RStale' = Requests!OpenTxns \ {t}
  <2>1. \A u \in Tasks : RView[u] # NoTxn <=> view[u] # NoTxn
    BY Types, ViewTypes, TasksAssumption DEF RView
  <2>2. \A c \in Connections \ Tasks : RView[c] = NoTxn
    BY DEF RView
  <2>3. pc'[t] # "reading"
    BY <1>1, Types
  <2>4. RStale' = {u \in Tasks \ {t} : pc[u] = "reading"}
    BY <1>3, <1>5, <2>3 DEF RStale
  <2>5. Requests!OpenTxns \ {t} = {u \in Tasks \ {t} : view[u] # NoTxn}
    BY <2>1, <2>2, TasksAssumption DEF Requests!OpenTxns
  <2> QED
    BY <1>5, <2>4, <2>5
<1>7. Requests!CommitEvent(t)
  BY <1>1, <1>2, <1>3, <1>4, <1>6
     DEF CommitEvent, Answer, Goto, Requests!CommitEvent, Requests!Commit, Requests!Answer, Requests!Goto
<1>8. Worked!QueueCommit
  <2>1. WView' = [WView EXCEPT ![Desk] = NoTxn]
    BY <1>1, <1>2, <1>3, DeskIsTask, TasksAssumption, NoConnAssumption DEF WView
  <2>2. WStale' = Worked!OpenTxns \ {Desk}
    <3>1. WView[Worker] # NoTxn <=> view[Worker] # NoTxn
      BY Types, ViewTypes, DeskIsTask DEF WView
    <3>2. \A c \in Connections \ {Worker, Desk} : WView[c] = NoTxn
      BY DEF WView
    <3>3. Worker \in stale' <=> view[Worker] # NoTxn
      BY <1>1, DeskIsTask, WorkerAssumption DEF OpenTxns
    <3> QED
      BY <3>1, <3>2, <3>3, DeskIsTask DEF WStale, Worked!OpenTxns
  <2> QED
    BY <1>2, <1>4, <2>1, <2>2
       DEF workerVars, Worked!QueueCommit, Worked!Commit, Worked!workerVars, Worked!historyVars
<1>9. BothInv'
  <2>1. \A u \in Tasks : /\ pc'[u] # "enqueueing" => todo'[u] = <<>>
                         /\ pc'[u] = "reading" => u \in stale'
    <3>1. pc'[t] = "replying"
      BY <1>1, Types
    <3>2. \A u \in Tasks \ {t} : pc'[u] = "reading" => u \in stale'
      BY <1>1, <1>5, TasksAssumption DEF OpenTxns
    <3> QED
      BY <1>1, <1>5, <3>1, <3>2 DEF ServerInv, BothInv
  <2>2. phase = "selected" => Worker \in stale'
    BY <1>1, Transactions, DeskIsTask, WorkerAssumption DEF OpenTxns
  <2>3. phase # "updated"
    BY <1>2, Transactions, WorkerAssumption
  <2> QED
    BY <1>1, <1>2, <1>3, <2>1, <2>2, <2>3 DEF BothInv, workerVars
<1> QED
  BY <1>7, <1>8, <1>9 DEF StepOfBoth, Requests!Next, Requests!Handle, Worked!Next

-----------------------------------------------------------------------------
(* The worker *)

(* The worker's operators are the same in both modules. *)
LEMMA SameWork ==
  /\ \A rows, passed : Worked!Eligible(rows, passed) = D!Eligible(rows, passed)
  /\ \A rows, i : /\ D!Claim(rows, i) = Claim(rows, i) /\ Worked!Claim(rows, i) = Claim(rows, i)
                  /\ D!Complete(rows, i) = Complete(rows, i)
                  /\ Worked!Complete(rows, i) = Complete(rows, i)
  /\ \A rows, i, again : /\ D!Fail(rows, i, again) = Fail(rows, i, again)
                         /\ Worked!Fail(rows, i, again) = Fail(rows, i, again)
  /\ D!Rows = db.notifications /\ Worked!Rows = db.notifications
  /\ D!JobIds = 1..MaxJobs /\ Worked!JobIds = 1..MaxJobs
<1>1. \A rows, passed : Worked!Eligible(rows, passed) = D!Eligible(rows, passed)
  BY DEF Worked!Eligible, D!Eligible
<1>2. \A rows, i : D!Claim(rows, i) = Claim(rows, i) /\ Worked!Claim(rows, i) = Claim(rows, i)
  BY DEF D!Claim, Worked!Claim, Claim
<1>3. \A rows, i : D!Complete(rows, i) = Complete(rows, i) /\ Worked!Complete(rows, i) = Complete(rows, i)
  BY DEF D!Complete, Worked!Complete, Complete
<1>4. \A rows, i, again : /\ D!Fail(rows, i, again) = Fail(rows, i, again)
                          /\ Worked!Fail(rows, i, again) = Fail(rows, i, again)
  BY DEF D!Fail, Worked!Fail, Fail
<1>5. D!Rows = db.notifications /\ Worked!Rows = db.notifications
  BY DEF D!Rows, Worked!Rows, WDb, Jobs
<1> QED
  BY <1>1, <1>2, <1>3, <1>4, <1>5 DEF D!JobIds, Worked!JobIds

(* The worker changes its own connection, and of the database the columns  *)
(* of the jobs that the requests never look at.                            *)
LEMMA WorkerChanges ==
  ASSUME ServerInv, UNCHANGED <<taskVars, acked>>,
         NEW v \in Database \cup {NoTxn}, view' = [view EXCEPT ![Worker] = v],
         NEW d \in Database, db' = d, d.events = db.events, d.alerts = db.alerts,
         Blanks(d.notifications) = Blanks(db.notifications),
         writer' = writer \/ {writer, writer'} \subseteq {Worker, NoConn}
  PROVE  /\ UNCHANGED Requests!vars
         /\ WView' = [WView EXCEPT ![Worker] = IF v = NoTxn THEN NoTxn ELSE Jobs(v)]
         /\ WDb' = Jobs(d)
         /\ view' \in [Connections -> Database \cup {NoTxn}] /\ view'[Worker] = v
         /\ \A t \in Tasks : view'[t] = view[t]
<1>1. /\ view \in [Connections -> Database \cup {NoTxn}] /\ Worker \in Connections \ Tasks
      /\ Tasks \subseteq Connections /\ NoConn \notin Tasks
  BY Types, WorkerAssumption, TasksAssumption, NoConnAssumption
<1>2. /\ view' \in [Connections -> Database \cup {NoTxn}] /\ view'[Worker] = v
      /\ \A t \in Tasks : view'[t] = view[t]
  BY <1>1
<1>3. RDb' = RDb
  BY DEF RDb, Hide
<1>4. RView' = RView
  BY <1>1, <1>2 DEF RView
<1>5. RStale' = RStale
  BY <1>2 DEF RStale, taskVars
<1>6. RWriter' = RWriter /\ (writer' \in Tasks <=> writer \in Tasks)
      /\ (writer \in Tasks => writer' = writer)
  BY <1>1 DEF RWriter
<1>7. WView' = [WView EXCEPT ![Worker] = IF v = NoTxn THEN NoTxn ELSE Jobs(v)]
  BY <1>1, <1>2, <1>6, DeskIsTask DEF WView
<1>8. UNCHANGED Requests!vars
  BY <1>3, <1>4, <1>5, <1>6 DEF taskVars, Requests!vars, Requests!sqliteVars, Requests!taskVars
<1> QED
  BY <1>2, <1>7, <1>8 DEF WDb

(* A reader nobody outdated still sees the database. *)
LEMMA ReadersSee ==
  ASSUME ServerInv, UNCHANGED taskVars, \A t \in Tasks : view'[t] = view[t],
         \/ db' = db /\ \A t \in Tasks \cap stale : t \in stale'
         \/ \A t \in Tasks \cap OpenTxns : t \in stale'
  PROVE  \A t \in Tasks :
           /\ pc'[t] # "enqueueing" => todo'[t] = <<>>
           /\ pc'[t] = "reading" /\ t \notin stale' => view'[t] = db'
<1> SUFFICES ASSUME NEW t \in Tasks, pc[t] = "reading", t \notin stale'
             PROVE  view'[t] = db'
  BY DEF ServerInv, BothInv, taskVars
<1>1. t \in OpenTxns
  BY Transactions, TasksAssumption DEF OpenTxns
<1> QED
  BY <1>1 DEF ServerInv, BothInv

(* Steps of the worker that leave the store alone, and deadlines. *)
LEMMA QuietWork ==
  ASSUME ServerInv, UNCHANGED <<taskVars, acked>>,
         \/ D!Wake \/ D!EndBatch \/ D!Unconfigured \/ D!SendAny \/ D!RecordError
         \/ \E i \in D!JobIds : D!Elapse(i)
  PROVE  UNCHANGED Requests!vars /\ [Worked!Next]_(Worked!vars) /\ BothInv'
<1>1. UNCHANGED sqliteVars
  BY DEF D!Wake, D!EndBatch, D!Unconfigured, D!SendAny, D!Send, D!RecordError, D!Elapse,
         D!sqliteVars, sqliteVars
<1>2. UNCHANGED <<db, view, stale, writer>>
  BY <1>1 DEF sqliteVars
<1>3. UNCHANGED <<WDb, WView, WStale, WWriter>>
  BY <1>2 DEF WDb, WView, WStale, WWriter
<1>4. UNCHANGED Requests!vars
  BY <1>2 DEF RDb, RView, RStale, RWriter, taskVars, Requests!vars, Requests!sqliteVars,
              Requests!taskVars
<1>5. Worked!Next
  <2> USE <1>3 DEF Worked!sqliteVars, Worked!historyVars, Worked!workerVars
  <2>1. CASE D!Wake
    BY <2>1 DEF D!Wake, D!historyVars, Worked!Wake, Worked!WorkerStep, Worked!Next
  <2>2. CASE D!EndBatch
    BY <2>2, SameWork
       DEF D!EndBatch, D!Sleep, D!historyVars, Worked!EndBatch, Worked!Sleep, Worked!WorkerStep,
           Worked!Next
  <2>3. CASE D!Unconfigured
    BY <2>3, SameWork DEF D!Unconfigured, D!historyVars, Worked!Unconfigured, Worked!WorkerStep, Worked!Next
  <2>4. CASE D!SendAny
    <3>1. \A result, arrives : D!Send(result, arrives) => Worked!Send(result, arrives)
      BY SameWork DEF D!Send, Worked!Send
    <3> QED
      BY <2>4, <3>1 DEF D!SendAny, Worked!SendAny, Worked!WorkerStep, Worked!Next
  <2>5. CASE D!RecordError
    BY <2>5
       DEF D!RecordError, D!Sleep, D!Doubt, Worked!RecordError, Worked!Sleep, Worked!Doubt,
           Worked!WorkerStep, Worked!Next
  <2>6. CASE \E i \in D!JobIds : D!Elapse(i)
    <3>1. \A i : D!Elapse(i) => Worked!Elapse(i)
      BY SameWork DEF D!Elapse, D!historyVars, D!workerVars, Worked!Elapse
    <3> QED
      BY <2>6, <3>1, SameWork DEF Worked!Next
  <2> QED
    BY <2>1, <2>2, <2>3, <2>4, <2>5, <2>6
<1>6. BothInv'
  <2>1. \/ phase' \in {"claiming", "sleeping", "recording"}
        \/ UNCHANGED <<phase, job>>
    BY DEF D!Wake, D!EndBatch, D!Unconfigured, D!SendAny, D!Send, D!RecordError, D!Elapse, D!Sleep,
           D!workerVars
  <2> QED
    BY <1>2, <2>1 DEF ServerInv, BothInv, taskVars
<1> QED
  BY <1>4, <1>5, <1>6

(* The worker's transaction begins with the SELECT of a due job. *)
LEMMA SelectDueSteps ==
  ASSUME ServerInv, UNCHANGED <<taskVars, acked>>, D!SelectDue
  PROVE  UNCHANGED Requests!vars /\ [Worked!Next]_(Worked!vars) /\ BothInv'
<1>1. /\ view[Worker] = NoTxn /\ view' = [view EXCEPT ![Worker] = db] /\ phase' = "selected"
      /\ UNCHANGED <<db, stale, writer>>
  BY DEF D!SelectDue, D!Begin
<1>2. /\ UNCHANGED Requests!vars /\ WDb' = WDb
      /\ WView' = [WView EXCEPT ![Worker] = WDb]
      /\ view' \in [Connections -> Database \cup {NoTxn}] /\ view'[Worker] = db
      /\ \A t \in Tasks : view'[t] = view[t]
  <2>1. db \in Database /\ db # NoTxn
    BY Types, NoTxnAssumption
  <2> QED
    BY <1>1, <2>1, WorkerChanges DEF WDb
<1>3. Worked!SelectDue
  <2>1. WView[Worker] = NoTxn /\ WStale' = WStale /\ WWriter' = WWriter
    BY <1>1, DeskIsTask DEF WView, WStale, WWriter
  <2>2. Worked!Begin(Worker)
    BY <1>2, <2>1 DEF Worked!Begin
  <2> QED
    BY <2>2, SameWork DEF D!SelectDue, D!historyVars, Worked!SelectDue, Worked!historyVars
<1>4. BothInv'
  <2>1. \A t \in Tasks :
          /\ pc'[t] # "enqueueing" => todo'[t] = <<>>
          /\ pc'[t] = "reading" /\ t \notin stale' => view'[t] = db'
    BY <1>1, <1>2, ReadersSee
  <2> QED
    BY <1>1, <1>2, <2>1 DEF ServerInv, BothInv
<1> QED
  BY <1>2, <1>3, <1>4 DEF Worked!Next, Worked!WorkerStep

(* What the worker holds while its transaction may write. *)
LEMMA WorkerSees ==
  ASSUME ServerInv, phase \in {"selected", "updated"}
  PROVE  /\ view[Worker] \in Database /\ WView[Worker] = Jobs(view[Worker])
         /\ job \in DOMAIN db.notifications /\ db.notifications \in Seq(JobRow)
<1>1. view[Worker] \in Database /\ view[Worker] # NoTxn
  BY Types, Transactions, DeskIsTask
<1>2. WView[Worker] = Jobs(view[Worker])
  BY <1>1, DeskIsTask DEF WView
<1>3. job \in DOMAIN db.notifications
  BY SameWork DEF ServerInv, Worked!IInv, Worked!HandInv, Worked!Transacting
<1> QED
  BY <1>1, <1>2, <1>3, Types DEF Database

(* The claim takes the write lock. *)
LEMMA ClaimUpdateSteps ==
  ASSUME ServerInv, UNCHANGED <<taskVars, acked>>, D!ClaimUpdate
  PROVE  UNCHANGED Requests!vars /\ [Worked!Next]_(Worked!vars) /\ BothInv'
<1> DEFINE claimed == Claim(db.notifications, job)
           v == [db EXCEPT !.notifications = claimed]
<1>1. /\ phase = "selected" /\ phase' = "updated" /\ job' = job /\ D!MayWrite(Worker)
      /\ view' = [view EXCEPT ![Worker] = [view[Worker] EXCEPT !.notifications = D!Claim(@, job)]]
      /\ writer' = Worker /\ UNCHANGED <<db, stale>>
  BY DEF D!ClaimUpdate, D!Write
<1>2. writer = NoConn /\ Worker \notin stale
  BY <1>1, Transactions DEF D!MayWrite
<1>3. /\ view[Worker] = db /\ db \in Database
      /\ view' = [view EXCEPT ![Worker] = v]
  <2>1. view[Worker] = db /\ db \in Database
    BY <1>1, <1>2 DEF ServerInv, BothInv
  <2> QED
    BY <1>1, <2>1, SameWork
<1>4. claimed \in Seq(JobRow) /\ job \in DOMAIN db.notifications /\ WView[Worker] = Jobs(db)
  BY <1>1, <1>3, WorkerSees, BlankStatements
<1> HIDE DEF claimed
<1>5. v \in Database /\ v # NoTxn /\ Jobs(v) = [Jobs(db) EXCEPT !.notifications = claimed]
  <2>1. v \in Database /\ v.notifications = claimed
    BY <1>3, <1>4 DEF Database
  <2> QED
    BY <2>1, NoTxnAssumption DEF Jobs
<1> HIDE DEF v
<1>6. /\ UNCHANGED Requests!vars /\ WDb' = WDb
      /\ WView' = [WView EXCEPT ![Worker] = Jobs(v)]
      /\ view' \in [Connections -> Database \cup {NoTxn}] /\ view'[Worker] = v
      /\ \A t \in Tasks : view'[t] = view[t]
  BY <1>1, <1>2, <1>3, <1>5, WorkerChanges DEF WDb
<1>7. Worked!ClaimUpdate
  <2>1. /\ WStale' = WStale /\ WWriter = NoConn /\ WWriter' = Worker /\ Worker \notin WStale
    BY <1>1, <1>2, NoConnAssumption, TasksAssumption, WorkerAssumption DEF WStale, WWriter
  <2>2. claimed = Worked!Claim(WView[Worker].notifications, job)
    BY <1>4, SameWork DEF claimed, Jobs
  <2>3. Worked!Write(Worker, [WView[Worker] EXCEPT !.notifications = Worked!Claim(@, job)])
    BY <1>4, <1>5, <1>6, <2>1, <2>2 DEF Worked!Write, Worked!MayWrite
  <2> QED
    BY <2>3 DEF D!ClaimUpdate, D!historyVars, Worked!ClaimUpdate, Worked!historyVars
<1>8. BothInv'
  <2>1. \A t \in Tasks :
          /\ pc'[t] # "enqueueing" => todo'[t] = <<>>
          /\ pc'[t] = "reading" /\ t \notin stale' => view'[t] = db'
    BY <1>1, <1>6, ReadersSee
  <2>2. view'[Worker] = [db' EXCEPT !.notifications = Claim(@, job')]
    BY <1>1, <1>6 DEF v, claimed
  <2> QED
    BY <1>1, <1>3, <1>6, <2>1, <2>2, DeskIsTask DEF BothInv
<1> QED
  BY <1>6, <1>7, <1>8 DEF Worked!Next, Worked!WorkerStep

(* The commit of the claim changes the columns the requests never look at, *)
(* and outdates every other open transaction.                              *)
LEMMA ClaimCommitSteps ==
  ASSUME ServerInv, UNCHANGED <<taskVars, acked>>, D!ClaimCommit
  PROVE  UNCHANGED Requests!vars /\ [Worked!Next]_(Worked!vars) /\ BothInv'
<1> DEFINE claimed == Claim(db.notifications, job)
<1>1. /\ phase = "updated" /\ phase' = "claimed" /\ writer = Worker /\ writer' = NoConn
      /\ db' = view[Worker] /\ view' = [view EXCEPT ![Worker] = NoTxn]
      /\ stale' = D!OpenTxns \ {Worker}
  BY DEF D!ClaimCommit, D!Commit
<1>2. /\ view[Worker] \in Database /\ WView[Worker] = Jobs(view[Worker])
      /\ job \in DOMAIN db.notifications /\ db.notifications \in Seq(JobRow)
      /\ view[Worker] = [db EXCEPT !.notifications = claimed] /\ db \in Database
  BY <1>1, WorkerSees DEF ServerInv, BothInv
<1>3. Blanks(claimed) = Blanks(db.notifications)
  BY <1>2, BlankStatements
<1>4. /\ view[Worker].events = db.events /\ view[Worker].alerts = db.alerts
      /\ view[Worker].notifications = claimed
  BY <1>2 DEF Database
<1>5. /\ UNCHANGED Requests!vars /\ WDb' = WView[Worker]
      /\ WView' = [WView EXCEPT ![Worker] = NoTxn]
      /\ view' \in [Connections -> Database \cup {NoTxn}]
      /\ \A t \in Tasks : view'[t] = view[t]
  BY <1>1, <1>2, <1>3, <1>4, WorkerChanges
<1>6. Worked!ClaimCommit
  <2>1. WWriter = Worker /\ WWriter' = NoConn
    BY <1>1, NoConnAssumption, TasksAssumption, WorkerAssumption DEF WWriter
  <2>2. WStale' = Worked!OpenTxns \ {Worker}
    <3>1. \A c \in Connections \ {Worker} : WView[c] = NoTxn
      BY <1>1, WorkerAssumption DEF WView
    <3> QED
      BY <1>1, <3>1 DEF WStale, Worked!OpenTxns
  <2> QED
    BY <1>5, <2>1, <2>2
       DEF D!ClaimCommit, D!historyVars, Worked!ClaimCommit, Worked!Commit, Worked!historyVars
<1>7. BothInv'
  <2>1. \A t \in Tasks : t \in OpenTxns => t \in stale'
    BY <1>1, WorkerAssumption DEF OpenTxns, D!OpenTxns
  <2>2. \A t \in Tasks :
          /\ pc'[t] # "enqueueing" => todo'[t] = <<>>
          /\ pc'[t] = "reading" /\ t \notin stale' => view'[t] = db'
    BY <1>5, <2>1, ReadersSee
  <2> QED
    BY <1>1, <1>2, <1>5, <2>2 DEF BothInv
<1> QED
  BY <1>5, <1>6, <1>7 DEF Worked!Next, Worked!WorkerStep

(* The worker's transaction is dropped. *)
LEMMA ClaimErrorSteps ==
  ASSUME ServerInv, UNCHANGED <<taskVars, acked>>, D!ClaimError
  PROVE  UNCHANGED Requests!vars /\ [Worked!Next]_(Worked!vars) /\ BothInv'
<1>1. /\ phase \in {"selected", "updated"} /\ phase' = "sleeping" /\ db' = db
      /\ view' = [view EXCEPT ![Worker] = NoTxn] /\ stale' = stale \ {Worker}
      /\ writer' = (IF writer = Worker THEN NoConn ELSE writer)
  BY DEF D!ClaimError, D!Rollback, D!Sleep
<1>2. /\ UNCHANGED Requests!vars /\ WDb' = WDb
      /\ WView' = [WView EXCEPT ![Worker] = NoTxn]
      /\ view' \in [Connections -> Database \cup {NoTxn}]
      /\ \A t \in Tasks : view'[t] = view[t]
  <2>1. db \in Database /\ NoTxn \in Database \cup {NoTxn}
    BY Types
  <2>2. writer' = writer \/ {writer, writer'} \subseteq {Worker, NoConn}
    BY <1>1
  <2> QED
    BY <1>1, <2>1, <2>2, WorkerChanges DEF WDb
<1>3. Worked!ClaimError
  <2>1. /\ WStale' = WStale \ {Worker}
        /\ WWriter' = (IF WWriter = Worker THEN NoConn ELSE WWriter)
    BY <1>1, DeskIsTask, NoConnAssumption, TasksAssumption, WorkerAssumption DEF WStale, WWriter
  <2>2. Worked!Rollback(Worker)
    BY <1>2, <2>1 DEF Worked!Rollback
  <2> QED
    BY <2>2
       DEF D!ClaimError, D!Sleep, D!historyVars, Worked!ClaimError, Worked!Sleep, Worked!historyVars
<1>4. BothInv'
  <2>1. \A t \in Tasks : t \in stale => t \in stale'
    BY <1>1, WorkerAssumption
  <2>2. \A t \in Tasks :
          /\ pc'[t] # "enqueueing" => todo'[t] = <<>>
          /\ pc'[t] = "reading" /\ t \notin stale' => view'[t] = db'
    BY <1>1, <1>2, <2>1, ReadersSee
  <2>3. writer' \in Connections \cup {NoConn}
    BY <1>1, Types
  <2> QED
    BY <1>1, <1>2, <2>2, <2>3, Types DEF BothInv
<1> QED
  BY <1>2, <1>3, <1>4 DEF Worked!Next, Worked!WorkerStep

(* One UPDATE of the worker by itself: the outcome of a send. *)
LEMMA RecordChanges ==
  ASSUME ServerInv, UNCHANGED <<taskVars, acked>>, NEW rows \in Seq(JobRow),
         Blanks(rows) = Blanks(db.notifications),
         D!Autocommit([db EXCEPT !.notifications = rows]), phase' = "claiming"
  PROVE  /\ UNCHANGED Requests!vars /\ BothInv'
         /\ Worked!Autocommit([WDb EXCEPT !.notifications = rows])
<1> DEFINE d == [db EXCEPT !.notifications = rows]
<1>1. writer = NoConn /\ db' = d /\ stale' = D!OpenTxns /\ UNCHANGED <<view, writer>>
  BY DEF D!Autocommit
<1>2. /\ d \in Database /\ d.events = db.events /\ d.alerts = db.alerts /\ d.notifications = rows
      /\ Jobs(d) = [WDb EXCEPT !.notifications = rows]
  <2>1. db \in Database
    BY Types
  <2>2. /\ d \in Database /\ d.events = db.events /\ d.alerts = db.alerts
        /\ d.notifications = rows
    BY <2>1 DEF Database
  <2> QED
    BY <2>2 DEF Jobs, WDb
<1>3. /\ view[Worker] \in Database \cup {NoTxn} /\ view' = [view EXCEPT ![Worker] = view[Worker]]
      /\ view \in [Connections -> Database \cup {NoTxn}]
  BY <1>1, Types, DeskIsTask
<1> HIDE DEF d
<1>4. /\ UNCHANGED Requests!vars /\ WDb' = Jobs(d)
      /\ view' \in [Connections -> Database \cup {NoTxn}]
      /\ \A t \in Tasks : view'[t] = view[t]
  BY <1>1, <1>2, <1>3, WorkerChanges
<1>5. Worked!Autocommit([WDb EXCEPT !.notifications = rows])
  <2>1. WWriter = NoConn /\ WWriter' = WWriter /\ WView' = WView
    BY <1>1, NoConnAssumption, TasksAssumption DEF WWriter, WView
  <2>2. WStale' = Worked!OpenTxns
    <3>1. \A c \in Connections \ {Worker} : WView[c] = NoTxn
      BY <1>1, NoConnAssumption, TasksAssumption DEF WView
    <3>2. WView[Worker] # NoTxn <=> view[Worker] # NoTxn
      BY <1>3, ViewTypes, DeskIsTask DEF WView
    <3> QED
      BY <1>1, <3>1, <3>2, DeskIsTask DEF WStale, Worked!OpenTxns, D!OpenTxns
  <2> QED
    BY <1>2, <1>4, <2>1, <2>2 DEF Worked!Autocommit
<1>6. BothInv'
  <2>1. \A t \in Tasks : t \in OpenTxns => t \in stale'
    BY <1>1 DEF OpenTxns, D!OpenTxns
  <2>2. \A t \in Tasks :
          /\ pc'[t] # "enqueueing" => todo'[t] = <<>>
          /\ pc'[t] = "reading" /\ t \notin stale' => view'[t] = db'
    BY <1>4, <2>1, ReadersSee
  <2> QED
    BY <1>1, <1>2, <1>4, <2>2, Types DEF BothInv
<1> QED
  BY <1>4, <1>5, <1>6

(* The outcome is recorded on the row in hand. *)
LEMMA RecordSteps ==
  ASSUME ServerInv, UNCHANGED <<taskVars, acked>>, D!RecordSent \/ D!RecordFailed
  PROVE  UNCHANGED Requests!vars /\ [Worked!Next]_(Worked!vars) /\ BothInv'
<1>1. phase = "recording" /\ phase' = "claiming"
  BY DEF D!RecordSent, D!RecordFailed, D!NextTurn
<1>2. job \in DOMAIN db.notifications /\ db.notifications \in Seq(JobRow)
  BY <1>1, SameWork, Types DEF ServerInv, Worked!IInv, Worked!HandInv, Worked!Holding, Database
<1>3. WDb.notifications = db.notifications
  BY DEF WDb, Jobs
<1>4. CASE D!RecordSent
  <2> DEFINE rows == Complete(db.notifications, job)
  <2>1. rows \in Seq(JobRow) /\ Blanks(rows) = Blanks(db.notifications)
    BY <1>2, BlankStatements
  <2>2. D!Autocommit([db EXCEPT !.notifications = rows])
    BY <1>4, SameWork DEF D!RecordSent
  <2>3. UNCHANGED Requests!vars /\ BothInv' /\ Worked!Autocommit([WDb EXCEPT !.notifications = rows])
    <3> HIDE DEF rows
    <3> QED
      BY <1>1, <2>1, <2>2, RecordChanges
  <2>4. Worked!RecordSent
    BY <1>3, <1>4, <2>3, SameWork
       DEF D!RecordSent, D!NextTurn, D!historyVars, Worked!RecordSent, Worked!NextTurn,
           Worked!historyVars
  <2> QED
    BY <2>3, <2>4 DEF Worked!Next, Worked!WorkerStep
<1>5. CASE D!RecordFailed
  <2>1. PICK again \in BOOLEAN : again = (outcome = "temporary")
    OBVIOUS
  <2> DEFINE rows == Fail(db.notifications, job, again)
  <2>2. rows \in Seq(JobRow) /\ Blanks(rows) = Blanks(db.notifications)
    BY <1>2, BlankStatements
  <2>3. D!Autocommit([db EXCEPT !.notifications = rows])
    BY <1>5, <2>1, SameWork DEF D!RecordFailed
  <2>4. UNCHANGED Requests!vars /\ BothInv' /\ Worked!Autocommit([WDb EXCEPT !.notifications = rows])
    <3> HIDE DEF rows
    <3> QED
      BY <1>1, <2>2, <2>3, RecordChanges
  <2>5. Worked!Autocommit([WDb EXCEPT !.notifications = Worked!Fail(@, job, outcome = "temporary")])
    BY <1>3, <2>1, <2>4, SameWork
  <2>6. Worked!RecordFailed
    BY <1>5, <2>5
       DEF D!RecordFailed, D!NextTurn, D!historyVars, Worked!RecordFailed, Worked!NextTurn,
           Worked!historyVars
  <2> QED
    BY <2>4, <2>6 DEF Worked!Next, Worked!WorkerStep
<1> QED
  BY <1>4, <1>5

-----------------------------------------------------------------------------
(* Every step of the server *)

(* The process dies in both views at once. *)
LEMMA ServerCrashSteps ==
  ASSUME ServerInv, ServerCrash
  PROVE  StepOfBoth /\ BothInv'
<1>1. /\ db' = db /\ view' = [c \in Connections |-> NoTxn] /\ stale' = {} /\ writer' = NoConn
      /\ pc' = [t \in Tasks |-> "idle"] /\ todo' = [t \in Tasks |-> <<>>]
      /\ phase' = "sleeping"
  BY DEF ServerCrash, Crash, LoseConnections, D!Crash, D!Sleep
<1>2. /\ RDb' = RDb /\ RView' = [c \in Connections |-> NoTxn] /\ RStale' = {} /\ RWriter' = NoConn
  BY <1>1, NoConnAssumption, TasksAssumption DEF RDb, RView, RStale, RWriter
<1>3. /\ WDb' = WDb /\ WView' = [c \in Connections |-> NoTxn] /\ WStale' = {} /\ WWriter' = NoConn
  BY <1>1, NoConnAssumption, TasksAssumption DEF WDb, WView, WStale, WWriter
<1>4. Requests!Crash
  BY <1>2 DEF ServerCrash, Crash, Requests!Crash, Requests!LoseConnections
<1>5. Worked!Crash
  BY <1>3
     DEF ServerCrash, D!Crash, D!Sleep, D!Doubt, Worked!Crash, Worked!Sleep, Worked!Doubt,
         Worked!LoseConnections
<1>6. BothInv'
  BY <1>1, Types, NoTxnAssumption DEF BothInv
<1> QED
  BY <1>4, <1>5, <1>6 DEF StepOfBoth, Requests!Next, Worked!Next

(* A request's step is a step of both views. *)
LEMMA RequestSteps ==
  ASSUME ServerInv, Request
  PROVE  StepOfBoth /\ BothInv'
<1>1. UNCHANGED workerVars
  BY DEF Request
<1>2. CASE \E t \in Tasks : Handle(t)
  <2>1. PICK t \in Tasks : Handle(t)
    BY <1>2
  <2>2. \/ Unauthorized(t) \/ Invalid(t) \/ Respond(t) \/ Disconnect(t)
        \/ Select(t) \/ InsertEvent(t) \/ TransitionAlert(t) \/ EnqueueNext(t) \/ CommitEvent(t)
        \/ Duplicate(t) \/ Conflict(t) \/ InsertBusy(t) \/ StatementError(t)
    BY <2>1 DEF Handle
  <2> QED
    BY <1>1, <2>2, HandlerSteps, SelectSteps, InsertEventSteps, TransitionAlertSteps,
       EnqueueNextSteps, CommitEventSteps, RollbackSteps
<1>3. CASE \E t \in Tasks, e \in Events : Receive(t, e)
  BY <1>1, <1>3, HandlerSteps
<1> QED
  BY <1>2, <1>3 DEF Request

(* The worker's step is a step of its own view, and none of the requests'. *)
LEMMA WorkSteps ==
  ASSUME ServerInv, Work
  PROVE  UNCHANGED Requests!vars /\ [Worked!Next]_(Worked!vars) /\ BothInv'
<1>1. UNCHANGED <<taskVars, acked>>
  BY DEF Work
<1>2. \/ D!Wake \/ D!EndBatch \/ D!Unconfigured \/ D!SendAny \/ D!RecordError
      \/ \E i \in D!JobIds : D!Elapse(i)
      \/ D!SelectDue \/ D!ClaimUpdate \/ D!ClaimCommit \/ D!ClaimError
      \/ D!RecordSent \/ D!RecordFailed
  BY DEF Work, D!WorkerStep
<1> QED
  BY <1>1, <1>2, QuietWork, SelectDueSteps, ClaimUpdateSteps, ClaimCommitSteps, ClaimErrorSteps,
     RecordSteps

(* Every step is a step of both views, or none. *)
LEMMA ServerSteps == ServerInv /\ [ServerNext]_serverVars => StepOfBoth /\ BothInv'
<1> SUFFICES ASSUME ServerInv, [ServerNext]_serverVars PROVE StepOfBoth /\ BothInv'
  OBVIOUS
<1>1. CASE Request
  BY <1>1, RequestSteps
<1>2. CASE Work
  BY <1>2, WorkSteps DEF StepOfBoth
<1>3. CASE ServerCrash
  BY <1>3, ServerCrashSteps
<1>4. CASE UNCHANGED serverVars
  <2>1. UNCHANGED <<db, view, stale, writer, pc, request, todo, reply, acked, workerVars>>
    BY <1>4 DEF serverVars, vars, sqliteVars, taskVars
  <2>2. UNCHANGED Requests!vars
    BY <2>1 DEF RDb, RView, RStale, RWriter, Requests!vars, Requests!sqliteVars, Requests!taskVars
  <2>3. UNCHANGED Worked!vars
    BY <2>1 DEF WDb, WView, WStale, WWriter, workerVars, Worked!vars, Worked!sqliteVars,
                Worked!workerVars, Worked!historyVars
  <2>4. BothInv'
    BY <2>1 DEF ServerInv, BothInv, workerVars
  <2> QED
    BY <2>2, <2>3, <2>4 DEF StepOfBoth
<1> QED
  BY <1>1, <1>2, <1>3, <1>4 DEF ServerNext

(* Both views begin as they should. *)
LEMMA ServerStarts == ServerInit => ServerInv /\ Requests!Init /\ Worked!Init
<1> SUFFICES ASSUME ServerInit PROVE ServerInv /\ Requests!Init /\ Worked!Init
  OBVIOUS
<1>1. /\ db = EmptyDatabase /\ view = [c \in Connections |-> NoTxn] /\ stale = {} /\ writer = NoConn
      /\ pc = [t \in Tasks |-> "idle"] /\ request = [t \in Tasks |-> NoEvent]
      /\ todo = [t \in Tasks |-> <<>>] /\ reply = [t \in Tasks |-> "none"] /\ acked = {}
  BY DEF ServerInit, Init, SqliteInit
<1>2. phase = "sleeping"
  BY DEF ServerInit, D!WorkerInit
<1>3. Blanks(<<>>) = <<>>
  BY DEF Blanks
<1>4. Requests!Init
  <2>1. RDb = Requests!EmptyDatabase
    BY <1>1, <1>3
       DEF RDb, Hide, EmptyDatabase, Fingerprints, Requests!EmptyDatabase, Requests!Fingerprints
  <2>2. RView = [c \in Connections |-> NoTxn] /\ RStale = {} /\ RWriter = NoConn
    BY <1>1, NoConnAssumption, TasksAssumption DEF RView, RStale, RWriter
  <2> QED
    BY <1>1, <2>1, <2>2 DEF Requests!Init, Requests!SqliteInit
<1>5. Worked!Init
  <2>1. WDb = [notifications |-> <<>>]
    BY <1>1 DEF WDb, Jobs, EmptyDatabase
  <2>2. WView = [c \in Connections |-> NoTxn] /\ WStale = {} /\ WWriter = NoConn
    BY <1>1, NoConnAssumption, TasksAssumption DEF WView, WStale, WWriter
  <2> QED
    BY <2>1, <2>2
       DEF ServerInit, D!WorkerInit, D!JobIds, Worked!Init, Worked!SqliteInit, Worked!WorkerInit,
           Worked!JobIds
<1>6. BothInv
  <2>1. db \in Database
    BY <1>1 DEF Database, EmptyDatabase
  <2> QED
    BY <1>1, <1>2, <2>1 DEF BothInv
<1>7. Requests!IInv /\ Requests!HistoryInv
  BY <1>4, RequestsMayBeUsed, Requests!InitIInv, Requests!InitHistoryInv
<1>8. Worked!IInv
  BY <1>5, WorkedMayBeUsed, Worked!InitIInv
<1> QED
  BY <1>4, <1>5, <1>6, <1>7, <1>8 DEF ServerInv

-----------------------------------------------------------------------------
(* The theorems *)

(* The invariants of the requests, of their history and of the worker hold *)
(* together, with what no part sees of the other.                          *)
THEOREM Composed == ServerSpec => []ServerInv
<1>1. ServerInit => ServerInv
  BY ServerStarts
<1>2. ServerInv /\ [ServerNext]_serverVars => ServerInv'
  BY ServerSteps, StepKeeps
<1> QED
  BY <1>1, <1>2, PTL DEF ServerSpec

(* Whatever the worker does, the server takes events in as Intake says:    *)
(* seen with the jobs as they were queued, its steps are those of requests.*)
THEOREM TakesIn == ServerSpec => Requests!Spec
<1>1. ServerInit => Requests!Init
  BY ServerStarts
<1>2. ServerInv /\ [ServerNext]_serverVars => [Requests!Next]_(Requests!vars)
  BY ServerSteps DEF StepOfBoth
<1> QED
  BY <1>1, <1>2, Composed, PTL DEF ServerSpec, Requests!Spec

(* Whatever the requests do, the server delivers as Dispatcher says.       *)
THEOREM Delivers == ServerSpec => Worked!Spec
<1>1. ServerInit => Worked!Init
  BY ServerStarts
<1>2. ServerInv /\ [ServerNext]_serverVars => [Worked!Next]_(Worked!vars)
  BY ServerSteps DEF StepOfBoth
<1> QED
  BY <1>1, <1>2, Composed, PTL DEF ServerSpec, Worked!Spec

(* What is proved of the worker holds in the server.                       *)
LEMMA ServerWorker ==
  ServerSpec => [](Worked!IInv /\ Worked!OrderInv /\ Worked!DeliveredInv)
<1>1. Worked!Spec => [](Worked!IInv /\ Worked!OrderInv)
  BY WorkedMayBeUsed, Worked!Order
<1>2. Worked!Spec => []Worked!DeliveredInv
  BY WorkedMayBeUsed, Worked!DeliveriesWereSent
<1> QED
  BY <1>1, <1>2, Delivers, PTL

(* First attempts are made in the order in which the events were accepted, *)
(* also with requests that queue jobs between a SELECT and its claim.      *)
THEOREM FirstsInOrder == ServerSpec => FirstAttemptsInOrder
<1>1. Worked!Spec => [][Worked!FirstInOrder]_(Worked!vars)
  BY WorkedMayBeUsed, Worked!FirstsInOrder
<1>2. [Worked!FirstInOrder]_(Worked!vars) =>
        [\A i, j \in DOMAIN Rows :
           i < j /\ Rows[j].attempts = 0 /\ Rows'[j].attempts > 0 => Rows[i].attempts > 0]_serverVars
  <2> SUFFICES ASSUME [Worked!FirstInOrder]_(Worked!vars),
                      NEW i \in DOMAIN Rows, NEW j \in DOMAIN Rows,
                      i < j, Rows[j].attempts = 0, Rows'[j].attempts > 0
               PROVE  Rows[i].attempts > 0
    OBVIOUS
  <2>1. Worked!Rows = Rows /\ Worked!Rows' = Rows'
    BY DEF Worked!Rows, Rows, WDb, Jobs
  <2>2. CASE Worked!FirstInOrder
    BY <2>1, <2>2 DEF Worked!FirstInOrder
  <2>3. CASE UNCHANGED Worked!vars
    <3>1. Rows' = Rows
      BY <2>1, <2>3 DEF Worked!vars, Worked!sqliteVars, Worked!Rows
    <3> QED
      BY <3>1
  <2> QED
    BY <2>2, <2>3
<1> QED
  BY <1>1, <1>2, Delivers, PTL DEF FirstAttemptsInOrder

-----------------------------------------------------------------------------
(* The accepted history and the queue the worker sees *)

(* Both modules read the jobs of an entry off the history in the same way. *)
LEMMA SameHistory ==
  /\ \A log, i : Requests!Opens(log, i) <=> Opens(log, i)
  /\ \A log, i : Requests!JobsOf(log, i) = JobsOf(log, i)
<1>1. \A log, f : Requests!About(log, f) = About(log, f)
  BY DEF Requests!About, About
<1>2. \A log, f, i : Requests!Quiet(log, f, i) <=> Quiet(log, f, i)
  BY <1>1 DEF Requests!Quiet, Quiet
<1>3. \A log, i : Requests!Opens(log, i) <=> Opens(log, i)
  BY <1>2 DEF Requests!Opens, Opens
<1>4. \A S : Requests!Last(S) = Last(S)
  BY DEF Requests!Last, Last
<1>5. \A log, f : Requests!StatusOf(log, f) = StatusOf(log, f)
  BY <1>1, <1>2, <1>4 DEF Requests!StatusOf, StatusOf
<1>6. \A log, i : Requests!JobsOf(log, i) = JobsOf(log, i)
  BY <1>3, <1>5 DEF Requests!JobsOf, JobsOf
<1> QED
  BY <1>3, <1>6

(* Every row is a job of the accepted history, and every job of it is one  *)
(* row, found by its event and channel.                                    *)
LEMMA RowsAreCalledFor ==
  ASSUME ServerInv
  PROVE  /\ \A k \in DOMAIN Rows :
              /\ Rows[k] \in JobRow /\ RowOf(Rows[k].event_id, Rows[k].channel) = {k}
              /\ \E i \in DOMAIN db.events :
                   <<Rows[k].event_id, Rows[k].channel, Rows[k].payload>> \in JobsOf(db.events, i)
         /\ \A i \in DOMAIN db.events : \A m \in JobsOf(db.events, i) :
              \E k \in DOMAIN Rows : RowOf(m[1], m[2]) = {k}
<1>1. Rows \in Seq(JobRow)
  BY Types DEF Database, Rows
<1>2. /\ DOMAIN Blanks(Rows) = DOMAIN Rows
      /\ \A k \in DOMAIN Rows : /\ Rows[k] \in JobRow
                                /\ Blanks(Rows)[k].event_id = Rows[k].event_id
                                /\ Blanks(Rows)[k].channel = Rows[k].channel
                                /\ Blanks(Rows)[k].payload = Rows[k].payload
  BY <1>1, BlankRows, BlankRow
<1>3. RDb.events = db.events /\ RDb.notifications = Blanks(Rows)
  BY DEF RDb, Hide, Rows
<1>4. /\ Requests!Distinct(Blanks(Rows))
      /\ Requests!Queued(Blanks(Rows)) = Requests!Called(db.events)
  BY <1>3 DEF ServerInv, Requests!HistoryInv, Requests!JobsWith
<1>5. Requests!Called(db.events) = UNION {JobsOf(db.events, i) : i \in DOMAIN db.events}
  BY SameHistory DEF Requests!Called
<1>6. ASSUME NEW k \in DOMAIN Rows PROVE RowOf(Rows[k].event_id, Rows[k].channel) = {k}
  BY <1>2, <1>4 DEF Requests!Distinct, RowOf
<1>7. ASSUME NEW k \in DOMAIN Rows
      PROVE  \E i \in DOMAIN db.events :
               <<Rows[k].event_id, Rows[k].channel, Rows[k].payload>> \in JobsOf(db.events, i)
  <2>1. <<Rows[k].event_id, Rows[k].channel, Rows[k].payload>> \in Requests!Queued(Blanks(Rows))
    BY <1>2 DEF Requests!Queued
  <2> QED
    BY <1>4, <1>5, <2>1
<1>8. ASSUME NEW i \in DOMAIN db.events, NEW m \in JobsOf(db.events, i)
      PROVE  \E k \in DOMAIN Rows : RowOf(m[1], m[2]) = {k}
  <2>1. m \in Requests!Queued(Blanks(Rows))
    BY <1>4, <1>5
  <2>2. PICK k \in DOMAIN Rows : m = <<Rows[k].event_id, Rows[k].channel, Rows[k].payload>>
    BY <1>2, <2>1 DEF Requests!Queued
  <2> QED
    BY <1>6, <2>2
<1> QED
  BY <1>2, <1>6, <1>7, <1>8

(* An acknowledged event is stored, and each of its jobs is in the queue,  *)
(* once, whatever the worker has done with it.                             *)
THEOREM AcceptedIsQueued == ServerSpec => []AckedIsQueued
<1>1. ServerInv => AckedIsQueued
  <2> SUFFICES ASSUME ServerInv, NEW e \in acked
               PROVE  \E i \in DOMAIN db.events :
                        /\ db.events[i] = e
                        /\ \A m \in JobsOf(db.events, i) : Cardinality(RowOf(m[1], m[2])) = 1
    BY DEF AckedIsQueued
  <2>1. PICK i \in DOMAIN db.events : db.events[i] = e
    BY DEF ServerInv, Requests!IInv, Requests!AckedIsStored, RDb, Hide
  <2>2. ASSUME NEW m \in JobsOf(db.events, i) PROVE Cardinality(RowOf(m[1], m[2])) = 1
    <3>1. PICK k \in DOMAIN Rows : RowOf(m[1], m[2]) = {k}
      BY RowsAreCalledFor
    <3> QED
      BY <3>1, FS_Singleton
  <2> QED
    BY <2>1, <2>2
<1> QED
  BY <1>1, Composed, PTL

-----------------------------------------------------------------------------
(* The promise to people *)

(* How often the message of an event reached a channel, by the rows. *)
Told ==
  [m \in EventIds \X Channels |->
     IF RowOf(m[1], m[2]) = {} THEN 0
     ELSE delivered[CHOOSE i \in RowOf(m[1], m[2]) : TRUE]]

(* A commit of a request puts new rows after those the queue has. *)
LEMMA CommitAddsRows ==
  ASSUME ServerInv, NEW t \in Tasks, CommitEvent(t)
  PROVE  Worked!Lengthens(Rows, Rows')
<1>1. pc[t] = "enqueueing" /\ db' = view[t]
  BY DEF CommitEvent, Commit
<1>2. WWriter = Desk /\ WView[Desk] = Jobs(view[t])
  BY <1>1, WriterSees DEF Writing
<1>3. Worked!Lengthens(Worked!Rows, WView[Desk].notifications)
  BY <1>2 DEF ServerInv, Worked!IInv, Worked!ServerViewInv
<1> QED
  BY <1>1, <1>2, <1>3 DEF Worked!Rows, WDb, Jobs, Rows

(* No step takes a row away, or makes it another event's or channel's.     *)
LEMMA KeysKept ==
  ASSUME ServerInv, [ServerNext]_serverVars, ServerInv'
  PROVE  /\ DOMAIN Rows \subseteq DOMAIN Rows'
         /\ \A k \in DOMAIN Rows : /\ Rows'[k].event_id = Rows[k].event_id
                                   /\ Rows'[k].channel = Rows[k].channel
<1>1. Rows \in Seq(JobRow) /\ Rows' \in Seq(JobRow)
  BY DEF Database, Rows, ServerInv, BothInv
<1>2. CASE Blanks(Rows') = Blanks(Rows)
  <2>1. DOMAIN Rows' = DOMAIN Rows
    BY <1>1, <1>2, BlankRows
  <2>2. \A k \in DOMAIN Rows : /\ Rows[k] \in JobRow /\ Blanks(Rows)[k] = Blank(Rows[k])
                               /\ Rows'[k] \in JobRow /\ Blanks(Rows')[k] = Blank(Rows'[k])
    BY <1>1, <2>1, BlankRows
  <2>3. \A row \in JobRow : Blank(row).event_id = row.event_id /\ Blank(row).channel = row.channel
    BY BlankRow
  <2> QED
    BY <1>2, <2>1, <2>2, <2>3
<1>3. CASE \E t \in Tasks : CommitEvent(t)
  <2>1. Worked!Lengthens(Rows, Rows')
    BY <1>3, CommitAddsRows
  <2>2. /\ Len(Rows) <= Len(Rows') /\ \A k \in DOMAIN Rows : Rows'[k] = Rows[k]
        /\ DOMAIN Rows = 1..Len(Rows) /\ DOMAIN Rows' = 1..Len(Rows')
        /\ Len(Rows) \in Nat /\ Len(Rows') \in Nat
    BY <1>1, <2>1 DEF Worked!Lengthens
  <2> QED
    BY <2>2
<1>4. \/ Blanks(Rows') = Blanks(Rows)
      \/ \E t \in Tasks : CommitEvent(t)
  <2>1. CASE Work
    <3>1. RDb' = RDb
      BY <2>1, WorkSteps DEF Requests!vars, Requests!sqliteVars
    <3> QED
      BY <3>1 DEF RDb, Hide, Rows
  <2>2. CASE db' = db
    BY <2>2 DEF Rows
  <2>3. Work \/ db' = db \/ \E t \in Tasks : CommitEvent(t)
    BY DEF ServerNext, Request, Handle, Unauthorized, Invalid, Respond, Disconnect, Select, Duplicate,
           Conflict, InsertEvent, InsertBusy, TransitionAlert, EnqueueNext, StatementError, Receive,
           Begin, Write, Rollback, ServerCrash, Crash, LoseConnections, sqliteVars, serverVars, vars
  <2> QED
    BY <2>1, <2>2, <2>3
<1> QED
  BY <1>2, <1>3, <1>4

(* What is told of a row is what was delivered of it. *)
RowsAreTold ==
  \A k \in DOMAIN Rows :
    /\ <<Rows[k].event_id, Rows[k].channel>> \in EventIds \X Channels
    /\ Told[<<Rows[k].event_id, Rows[k].channel>>] = delivered[k]

(* It is, as every row is the one of its event and channel. *)
LEMMA ToldOfRows == ServerInv => RowsAreTold
<1> SUFFICES ASSUME ServerInv, NEW k \in DOMAIN Rows
             PROVE  /\ <<Rows[k].event_id, Rows[k].channel>> \in EventIds \X Channels
                    /\ Told[<<Rows[k].event_id, Rows[k].channel>>] = delivered[k]
  BY DEF RowsAreTold
<1>1. /\ Rows[k].event_id \in EventIds /\ Rows[k].channel \in Channels
      /\ RowOf(Rows[k].event_id, Rows[k].channel) = {k}
  BY RowsAreCalledFor DEF JobRow
<1>2. (CHOOSE i \in {k} : TRUE) = k
  OBVIOUS
<1> QED
  BY <1>1, <1>2 DEF Told

(* And after a step. *)
LEMMA ToldOfRowsNext == ServerInv' => RowsAreTold'
BY ToldOfRows, PTL

(* A row not there yet was never delivered. *)
LEMMA NewIsUntold ==
  ASSUME ServerInv, Worked!DeliveredInv, NEW k \in 1..MaxJobs, k \notin DOMAIN Rows
  PROVE  delivered[k] = 0
<1>1. /\ Worked!SendsAreCounted /\ Worked!Rows = Rows /\ Worked!JobIds = 1..MaxJobs
      /\ delivered \in [1..MaxJobs -> Nat]
  BY SameWork DEF ServerInv, Worked!IInv, Worked!CountInv, Worked!TypeOK, Rows
<1>2. sends[k] = 0
  BY <1>1 DEF Worked!SendsAreCounted
<1> QED
  BY <1>1, <1>2 DEF Worked!DeliveredInv

(* A step that delivers nothing tells nothing, new rows or not. *)
LEMMA NothingTold ==
  ASSUME ServerInv, Worked!DeliveredInv, [ServerNext]_serverVars, ServerInv', delivered' = delivered
  PROVE  Told' = Told
<1>1. ASSUME NEW m \in EventIds \X Channels
      PROVE  Told'[m] = Told[m]
  <2>1. CASE RowOf(m[1], m[2]) # {}
    <3>1. PICK k \in DOMAIN Rows : Rows[k].event_id = m[1] /\ Rows[k].channel = m[2]
      BY <2>1 DEF RowOf
    <3>2. k \in DOMAIN Rows' /\ Rows'[k].event_id = m[1] /\ Rows'[k].channel = m[2]
      BY <3>1, KeysKept
    <3>3. m = <<m[1], m[2]>>
      OBVIOUS
    <3>4. Told[m] = delivered[k]
      BY <3>1, <3>3, ToldOfRows DEF RowsAreTold
    <3> QED
      BY <3>2, <3>3, <3>4, ToldOfRowsNext DEF RowsAreTold
  <2>2. CASE RowOf(m[1], m[2]) = {} /\ RowOf(m[1], m[2])' = {}
    BY <2>2 DEF Told
  <2>3. CASE RowOf(m[1], m[2]) = {} /\ RowOf(m[1], m[2])' # {}
    <3> DEFINE k == CHOOSE i \in RowOf(m[1], m[2])' : TRUE
    <3>1. k \in DOMAIN Rows' /\ Rows'[k].event_id = m[1] /\ Rows'[k].channel = m[2]
      BY <2>3 DEF RowOf
    <3>2. k \notin DOMAIN Rows
      BY <2>3, <3>1, KeysKept DEF RowOf
    <3>3. k \in 1..MaxJobs
      <4>1. Len(Rows') <= MaxJobs /\ Rows' \in Seq(JobRow)
        <5>1. Worked!Rows' = Rows'
          BY DEF Worked!Rows, WDb, Jobs, Rows
        <5> QED
          BY <5>1 DEF ServerInv, Worked!IInv, Worked!CountInv, BothInv, Database, Rows
      <4>2. MaxJobs \in Nat /\ DOMAIN Rows' = 1..Len(Rows') /\ Len(Rows') \in Nat
        BY <4>1, WorkerAssumption
      <4> QED
        BY <3>1, <4>1, <4>2
    <3>4. Told'[m] = delivered'[k] /\ Told[m] = 0
      BY <2>3 DEF Told
    <3> QED
      BY <3>2, <3>3, <3>4, NewIsUntold
  <2> QED
    BY <2>1, <2>2, <2>3
<1> QED
  BY <1>1 DEF Told

(* Every step is one of the ledger, or leaves it alone. *)
LEMMA LedgerSteps ==
  ASSUME ServerInv, [ServerNext]_serverVars
  PROVE  Service!Ledger!LedgerNext \/ UNCHANGED <<db.events, acked>>
<1>1. [Requests!Next]_(Requests!vars)
  BY ServerSteps DEF StepOfBoth
<1>2. Requests!IInv /\ [Requests!Next]_(Requests!vars) =>
        [Requests!Ledger!LedgerNext]_(Requests!Ledger!ledgerVars)
  BY RequestsMayBeUsed, Requests!NextLedger
<1>3. RDb.events = db.events /\ RDb'.events = db'.events
  BY DEF RDb, Hide
<1>4. CASE UNCHANGED Requests!Ledger!ledgerVars
  BY <1>3, <1>4 DEF Requests!Ledger!ledgerVars
<1>5. CASE Requests!Ledger!LedgerNext
  BY <1>3, <1>5
     DEF Requests!Ledger!LedgerNext, Requests!Ledger!Store, Requests!Ledger!Acknowledge,
         Service!Ledger!LedgerNext, Service!Ledger!Store, Service!Ledger!Acknowledge
<1> QED
  BY <1>1, <1>2, <1>4, <1>5 DEF ServerInv

(* A message that arrives is one the accepted history calls for, and the   *)
(* attempt it belongs to was counted before.                               *)
LEMMA ArrivalIsTold ==
  ASSUME ServerInv, Worked!DeliveredInv, ServerInv', UNCHANGED <<db, acked>>,
         phase = "claimed", delivered' = [delivered EXCEPT ![job] = @ + 1]
  PROVE  Service!ServiceNext
<1> DEFINE c == Rows[job].channel
           m == <<Rows[job].event_id, c>>
<1>1. /\ job \in DOMAIN Rows /\ Rows' = Rows
      /\ delivered \in [1..MaxJobs -> Nat] /\ sends \in [1..MaxJobs -> Nat] /\ job \in 1..MaxJobs
      /\ sends[job] < Rows[job].attempts /\ Rows[job].attempts <= MaxAttempts
      /\ delivered[job] <= sends[job]
  <2>1. Worked!Rows = Rows /\ Worked!JobIds = 1..MaxJobs /\ Rows' = Rows
    BY SameWork DEF Rows
  <2>2. /\ Worked!TypeOK /\ Worked!HandInv /\ Worked!CountInv
    BY DEF ServerInv, Worked!IInv
  <2>3. job \in DOMAIN Rows /\ job \in 1..MaxJobs
    <3>1. Len(Rows) <= MaxJobs /\ Rows \in Seq(JobRow) /\ job \in DOMAIN Rows
      BY <2>1, <2>2, Types DEF Worked!HandInv, Worked!Holding, Worked!CountInv, Database, Rows
    <3>2. MaxJobs \in Nat /\ DOMAIN Rows = 1..Len(Rows) /\ Len(Rows) \in Nat
      BY <3>1, WorkerAssumption
    <3> QED
      BY <3>1, <3>2
  <2> QED
    BY <2>1, <2>2, <2>3 DEF Worked!TypeOK, Worked!CountInv, Worked!SendsAreCounted, Worked!DeliveredInv
<1>2. delivered[job] < MaxAttempts
  <2>1. Rows[job].attempts \in Nat
    BY <1>1, RowsAreCalledFor DEF JobRow
  <2> QED
    BY <1>1, <2>1, WorkerAssumption
<1>3. c \in Channels /\ m \in EventIds \X Channels /\ Told[m] = delivered[job]
  BY <1>1, ToldOfRows, RowsAreCalledFor DEF RowsAreTold, JobRow
<1>4. PICK i \in DOMAIN db.events :
        <<Rows[job].event_id, c, Rows[job].payload>> \in JobsOf(db.events, i)
  BY <1>1, RowsAreCalledFor
<1>5. /\ db.events[i].event_id = Rows[job].event_id
      /\ \E k \in DOMAIN Routes[db.events[i]] : Routes[db.events[i]][k] = c
      /\ db.events[i].state = "firing" => Opens(db.events, i)
  BY <1>4 DEF JobsOf
<1>6. Service!CallsFor(i, c)
  <2>1. \A f : Service!About(db.events, f) = About(db.events, f)
    BY DEF Service!About, About
  <2>2. Service!Opens(db.events, i) <=> Opens(db.events, i)
    BY <2>1 DEF Service!Opens, Service!Quiet, Opens, Quiet
  <2> QED
    BY <1>5, <2>2 DEF Service!CallsFor
<1>7. Told' = [Told EXCEPT ![m] = @ + 1]
  <2>1. ASSUME NEW o \in EventIds \X Channels
        PROVE  Told'[o] = IF o = m THEN Told[m] + 1 ELSE Told[o]
    <3>1. o = <<o[1], o[2]>>
      OBVIOUS
    <3>2. RowOf(o[1], o[2])' = RowOf(o[1], o[2])
      BY <1>1 DEF RowOf
    <3>3. CASE RowOf(o[1], o[2]) = {}
      <4>1. o # m
        BY <1>1, <3>3 DEF RowOf
      <4> QED
        BY <3>2, <3>3, <4>1 DEF Told
    <3>4. CASE RowOf(o[1], o[2]) # {}
      <4>1. PICK k \in DOMAIN Rows : Rows[k].event_id = o[1] /\ Rows[k].channel = o[2]
        BY <3>4 DEF RowOf
      <4>2. Told[o] = delivered[k] /\ Told'[o] = delivered'[k]
        BY <1>1, <3>1, <4>1, ToldOfRows, ToldOfRowsNext DEF RowsAreTold
      <4>3. o = m <=> k = job
        <5>1. o = m => job \in RowOf(o[1], o[2])
          BY <1>1 DEF RowOf
        <5>2. RowOf(o[1], o[2]) = {k}
          BY <4>1, RowsAreCalledFor
        <5> QED
          BY <3>1, <4>1, <5>1, <5>2
      <4> QED
        BY <1>1, <1>3, <4>2, <4>3
    <3> QED
      BY <3>3, <3>4
  <2>2. /\ Told = [o \in EventIds \X Channels |-> Told[o]]
        /\ Told' = [o \in EventIds \X Channels |-> Told'[o]]
    BY DEF Told
  <2> HIDE DEF m
  <2> QED
    BY <1>3, <2>1, <2>2
<1>8. Service!Tell(i, c)
  <2>1. <<db.events[i].event_id, c>> = m
    BY <1>5
  <2> HIDE DEF m, c
  <2> QED
    BY <1>2, <1>3, <1>6, <1>7, <2>1 DEF Service!Tell, Told
<1> QED
  BY <1>3, <1>8 DEF Service!ServiceNext

(* Seen from outside, every step is a step of the service, or none.        *)
LEMMA ServiceSteps ==
  ServerInv /\ Worked!DeliveredInv /\ ServerInv' /\ [ServerNext]_serverVars =>
    [Service!ServiceNext]_(Service!serviceVars)
<1> SUFFICES ASSUME ServerInv, Worked!DeliveredInv, ServerInv', [ServerNext]_serverVars
             PROVE  Service!ServiceNext \/ UNCHANGED <<db.events, acked, Told>>
  BY DEF Service!serviceVars, Told
<1>1. CASE delivered' = delivered
  <2>1. Told' = Told
    BY <1>1, NothingTold
  <2> QED
    BY <2>1, LedgerSteps DEF Service!ServiceNext, Told
<1>2. CASE delivered' # delivered
  <2>1. Work /\ D!SendAny
    BY <1>2
       DEF ServerNext, Request, ServerCrash, Work, D!WorkerStep, D!Wake, D!EndBatch, D!SelectDue,
           D!ClaimUpdate, D!ClaimCommit, D!ClaimError, D!Unconfigured, D!RecordSent, D!RecordFailed,
           D!RecordError, D!Elapse, D!Crash, D!historyVars, workerVars, serverVars
  <2>2. /\ UNCHANGED <<db, acked>> /\ phase = "claimed"
        /\ delivered' = [delivered EXCEPT ![job] = @ + 1]
    BY <1>2, <2>1 DEF Work, D!SendAny, D!Send, D!sqliteVars
  <2> QED
    BY <2>2, ArrivalIsTold
<1> QED
  BY <1>1, <1>2

(* The server keeps the promise of AlertService: the queue, the claims, the*)
(* retries and the crashes never show.                                     *)
THEOREM KeepsPromise == ServerSpec => ImplementsService
<1>1. ServerInit => Service!ServiceInit
  BY DEF ServerInit, Init, SqliteInit, EmptyDatabase, RowOf, Rows, Service!ServiceInit,
         Service!Ledger!LedgerInit, Service!EventIds, EventIds
<1>2. ServerInv /\ Worked!DeliveredInv /\ ServerInv' /\ [ServerNext]_serverVars =>
        [Service!ServiceNext]_(Service!serviceVars)
  BY ServiceSteps
<1> QED
  BY <1>1, <1>2, Composed, ServerWorker, PTL DEF ServerSpec, ImplementsService, Service!ServiceSpec
=============================================================================
