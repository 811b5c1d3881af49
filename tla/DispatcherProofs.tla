-------------------------- MODULE DispatcherProofs --------------------------
(***************************************************************************)
(* Theorems about Dispatcher, for any number of jobs, attempts, channels,  *)
(* crashes and requests, any batch size and any retry delays.              *)
(***************************************************************************)
EXTENDS Dispatcher, SequenceTheorems, TLAPS

-----------------------------------------------------------------------------
(* The statements on a row *)

(* A row for an event is a row, waiting and never attempted. *)
LEMMA NewRow ==
  ASSUME NEW e \in Events, NEW c \in Channels, NEW headline \in AlertStatuses
  PROVE  /\ NewJob(e, [status |-> headline], c) \in JobRow
         /\ NewJob(e, [status |-> headline], c).status = "pending"
         /\ NewJob(e, [status |-> headline], c).attempts = 0
<1>1. e.event_id \in EventIds /\ e.fingerprint \in Fingerprints
  BY DEF EventIds, Fingerprints
<1> QED
  BY <1>1 DEF NewJob, JobRow, JobStatuses

(* A claim counts one attempt of one row and puts it in flight. *)
LEMMA ClaimRow ==
  ASSUME NEW rows \in Seq(JobRow), NEW i \in DOMAIN rows
  PROVE  /\ Claim(rows, i) \in Seq(JobRow)
         /\ DOMAIN Claim(rows, i) = DOMAIN rows /\ Len(Claim(rows, i)) = Len(rows)
         /\ Claim(rows, i)[i].status = "in_flight"
         /\ Claim(rows, i)[i].attempts = rows[i].attempts + 1
         /\ \A j \in DOMAIN rows \ {i} : Claim(rows, i)[j] = rows[j]
<1>1. rows[i] \in JobRow
  OBVIOUS
<1> DEFINE row == [rows[i] EXCEPT !.status = "in_flight", !.attempts = @ + 1]
<1>2. row \in JobRow /\ row.status = "in_flight" /\ row.attempts = rows[i].attempts + 1
  <2>1. rows[i].attempts + 1 \in Nat
    BY <1>1 DEF JobRow
  <2>2. ASSUME NEW n \in Nat
        PROVE  LET r == [rows[i] EXCEPT !.status = "in_flight", !.attempts = n]
               IN  r \in JobRow /\ r.status = "in_flight" /\ r.attempts = n
    BY <1>1 DEF JobRow, JobStatuses
  <2> QED
    BY <2>1, <2>2
<1>3. Claim(rows, i) = [rows EXCEPT ![i] = row]
  BY Zenon DEF Claim
<1> HIDE DEF row
<1> QED
  BY <1>2, <1>3, ExceptSeq

(* The two records of an outcome change the status of a row in flight, and *)
(* leave its attempts.                                                     *)
LEMMA CompleteRow ==
  ASSUME NEW rows \in Seq(JobRow), NEW i \in DOMAIN rows, rows[i].status = "in_flight"
  PROVE  /\ Complete(rows, i) \in Seq(JobRow)
         /\ DOMAIN Complete(rows, i) = DOMAIN rows /\ Len(Complete(rows, i)) = Len(rows)
         /\ Complete(rows, i)[i].status = "sent"
         /\ Complete(rows, i)[i].attempts = rows[i].attempts
         /\ \A j \in DOMAIN rows \ {i} : Complete(rows, i)[j] = rows[j]
<1>1. rows[i] \in JobRow
  OBVIOUS
<1> DEFINE row == [rows[i] EXCEPT !.status = "sent"]
<1>2. row \in JobRow /\ row.status = "sent" /\ row.attempts = rows[i].attempts
  BY <1>1 DEF JobRow, JobStatuses
<1>3. Complete(rows, i) = [rows EXCEPT ![i] = row]
  BY DEF Complete
<1> HIDE DEF row
<1> QED
  BY <1>2, <1>3, ExceptSeq

(* Recording a failure changes the status and whether there will be a      *)
(* retry.                                                                  *)
LEMMA FailRow ==
  ASSUME NEW rows \in Seq(JobRow), NEW i \in DOMAIN rows, rows[i].status = "in_flight",
         NEW again \in BOOLEAN
  PROVE  /\ Fail(rows, i, again) \in Seq(JobRow)
         /\ DOMAIN Fail(rows, i, again) = DOMAIN rows /\ Len(Fail(rows, i, again)) = Len(rows)
         /\ Fail(rows, i, again)[i].status = "failed"
         /\ Fail(rows, i, again)[i].attempts = rows[i].attempts
         /\ \A j \in DOMAIN rows \ {i} : Fail(rows, i, again)[j] = rows[j]
<1>1. rows[i] \in JobRow
  OBVIOUS
<1> DEFINE row == [rows[i] EXCEPT !.status = "failed", !.retryable = again]
<1>2. row \in JobRow /\ row.status = "failed" /\ row.attempts = rows[i].attempts
  BY <1>1 DEF JobRow, JobStatuses
<1>3. Fail(rows, i, again) = [rows EXCEPT ![i] = row]
  BY DEF Fail
<1> HIDE DEF row
<1> QED
  BY <1>2, <1>3, ExceptSeq

-----------------------------------------------------------------------------
(* The inductive invariant *)

Transacting == phase \in {"selected", "updated"}
Holding == phase \in {"claimed", "recording"}

(* What the SELECT of a claim asks of a row, but for its deadline. *)
Claimable(row) ==
  /\ row.attempts < MaxAttempts
  /\ row.status # "sent"
  /\ row.status = "failed" => row.retryable

(* Who may have a transaction open, and who may write. *)
TxnInv ==
  /\ \A c \in Connections : view[c] # NoTxn => c \in {Worker, Server}
  /\ view[Worker] # NoTxn <=> Transacting
  /\ view[Server] # NoTxn <=> writer = Server
  /\ writer \in {NoConn, Worker, Server}
  /\ writer = Worker <=> phase = "updated"
  /\ stale \subseteq {Worker}
  /\ Worker \in stale => phase = "selected"

(* What the two transactions see.  The worker's is the present queue while *)
(* it may still write, and with the claim after that; the request's is the *)
(* present queue and new rows after it.                                    *)
WorkerViewInv ==
  /\ phase = "selected" /\ Worker \notin stale =>
       view[Worker] = db /\ Claimable(Rows[job])
  /\ phase = "updated" =>
       /\ view[Worker].notifications = Claim(Rows, job)
       /\ Claimable(Rows[job])

(* more is rows, unchanged, and new rows after them. *)
Lengthens(rows, more) ==
  /\ more \in Seq(JobRow) /\ Len(rows) <= Len(more) /\ Len(more) <= MaxJobs
  /\ \A i \in DOMAIN rows : more[i] = rows[i]
  /\ \A i \in DOMAIN more \ DOMAIN rows : more[i].status = "pending" /\ more[i].attempts = 0

ServerViewInv == writer = Server => Lengthens(Rows, view[Server].notifications)

(* The row in hand is in the queue, and in flight once it is claimed. *)
HandInv ==
  /\ Transacting \/ Holding => job \in DOMAIN Rows /\ budget > 0
  /\ HeldIsInFlight

(* Between the claim and the send there is one attempt more than sends.    *)
CountInv ==
  /\ Len(Rows) <= MaxJobs
  /\ SendsAreCounted
  /\ phase = "claimed" => sends[job] < Rows[job].attempts

IInv ==
  /\ TypeOK /\ TxnInv /\ WorkerViewInv /\ ServerViewInv
  /\ HandInv /\ CountInv /\ DuplicatesExplained

(* The invariant holds of an empty queue and a worker that sleeps. *)
LEMMA InitIInv == Init => IInv
<1> SUFFICES ASSUME Init PROVE IInv
  OBVIOUS
<1>1. db \in Queue /\ Rows = <<>> /\ DOMAIN Rows = {} /\ Len(Rows) = 0
  BY DEF Init, SqliteInit, Queue, Rows
<1>2. TypeOK
  BY <1>1, DispatcherAssumption
     DEF Init, SqliteInit, WorkerInit, TypeOK, WorkerPhases, SendOutcomes
<1>3. TxnInv /\ WorkerViewInv /\ ServerViewInv
  BY NoConnAssumption, DispatcherAssumption
     DEF Init, SqliteInit, WorkerInit, TxnInv, WorkerViewInv, ServerViewInv, Transacting
<1>4. HandInv
  BY DEF Init, WorkerInit, HandInv, HeldIsInFlight, Transacting, Holding
<1>5. CountInv /\ DuplicatesExplained
  BY <1>1, DispatcherAssumption
     DEF Init, WorkerInit, CountInv, SendsAreCounted, DuplicatesExplained, JobIds
<1> QED
  BY <1>2, <1>3, <1>4, <1>5 DEF IInv

(* Every row has its counters. *)
LEMMA RowsAreJobs ==
  ASSUME TypeOK, CountInv
  PROVE  Rows \in Seq(JobRow) /\ DOMAIN Rows = 1..Len(Rows) /\ DOMAIN Rows \subseteq JobIds
  BY DispatcherAssumption DEF TypeOK, Queue, CountInv, Rows, JobIds

(* The steps of the worker that neither write nor change a counter:        *)
(* Wake, EndBatch, SelectDue, ClaimUpdate, ClaimError.                     *)
LEMMA WakeKeeps == ASSUME IInv, Wake PROVE IInv'
<1>1. TypeOK'
  BY DispatcherAssumption DEF IInv, TypeOK, Wake, sqliteVars, historyVars, WorkerPhases
<1>2. TxnInv' /\ WorkerViewInv' /\ ServerViewInv' /\ HandInv' /\ CountInv' /\ DuplicatesExplained'
  BY DEF IInv, TxnInv, WorkerViewInv, ServerViewInv, HandInv, HeldIsInFlight, CountInv,
         SendsAreCounted, DuplicatesExplained, Transacting, Holding, Rows,
         Wake, sqliteVars, historyVars
<1> QED
  BY <1>1, <1>2 DEF IInv

(* EndBatch preserves the inductive invariant. *)
LEMMA EndBatchKeeps == ASSUME IInv, EndBatch PROVE IInv'
<1>1. TypeOK'
  BY DispatcherAssumption
     DEF IInv, TypeOK, EndBatch, Sleep, sqliteVars, historyVars, WorkerPhases, SendOutcomes
<1>2. TxnInv' /\ WorkerViewInv' /\ ServerViewInv' /\ HandInv' /\ CountInv'
  BY DEF IInv, TxnInv, WorkerViewInv, ServerViewInv, HandInv, HeldIsInFlight, CountInv,
         SendsAreCounted, Transacting, Holding, Rows, EndBatch, Sleep, sqliteVars, historyVars
<1>3. DuplicatesExplained'
  BY DEF IInv, DuplicatesExplained, Rows, EndBatch, Sleep, sqliteVars, historyVars
<1> QED
  BY <1>1, <1>2, <1>3 DEF IInv

(* SelectDue preserves the inductive invariant. *)
LEMMA SelectDueKeeps == ASSUME IInv, SelectDue PROVE IInv'
<1> USE DEF Begin
<1>1. PICK i \in Eligible(Rows, due) : job' = i
  BY DEF SelectDue
<1>2. i \in DOMAIN Rows /\ i \in JobIds /\ Claimable(Rows[i])
  BY <1>1, RowsAreJobs DEF IInv, Eligible, Claimable
<1>3. UNCHANGED <<db, stale, writer, budget, due, elapsed, crashes, sends, delivered, doubts>>
  BY DEF SelectDue, historyVars
<1>4. phase = "claiming" /\ phase' = "selected" /\ budget > 0 /\ view[Worker] = NoTxn
  BY DEF SelectDue
<1>5. view' = [view EXCEPT ![Worker] = db] /\ db # NoTxn /\ Worker \notin stale
  BY <1>4, NoQueueAssumption DEF SelectDue, IInv, TypeOK, TxnInv
<1>6. TypeOK'
  BY <1>1, <1>2, <1>3, <1>4, <1>5, DispatcherAssumption
     DEF SelectDue, IInv, TypeOK, WorkerPhases
<1>7. TxnInv'
  BY <1>3, <1>4, <1>5, DispatcherAssumption DEF IInv, TypeOK, TxnInv, Transacting
<1>8. WorkerViewInv' /\ ServerViewInv' /\ HandInv'
  BY <1>1, <1>2, <1>3, <1>4, <1>5, DispatcherAssumption
     DEF IInv, TypeOK, TxnInv, WorkerViewInv, ServerViewInv, HandInv, HeldIsInFlight, Transacting,
         Holding, Rows, Claimable
<1>9. CountInv' /\ DuplicatesExplained'
  BY <1>3, <1>4 DEF IInv, CountInv, SendsAreCounted, DuplicatesExplained, Rows
<1> QED
  BY <1>6, <1>7, <1>8, <1>9 DEF IInv

(* ClaimUpdate preserves the inductive invariant. *)
LEMMA ClaimUpdateKeeps == ASSUME IInv, ClaimUpdate PROVE IInv'
<1> DEFINE after == [view[Worker] EXCEPT !.notifications = Claim(@, job)]
<1>1. /\ phase = "selected" /\ phase' = "updated" /\ writer' = Worker
      /\ view' = [view EXCEPT ![Worker] = after]
      /\ UNCHANGED <<db, stale, job, outcome, budget, due, elapsed, crashes, sends, delivered, doubts>>
  BY DEF ClaimUpdate, Write, historyVars
<1>2. writer = NoConn /\ Worker \notin stale
  BY <1>1, DispatcherAssumption DEF ClaimUpdate, Write, MayWrite, IInv, TxnInv
<1>3. view[Worker] = db /\ Claimable(Rows[job]) /\ job \in DOMAIN Rows
  BY <1>1, <1>2 DEF IInv, WorkerViewInv, HandInv, Transacting
<1>4. after.notifications = Claim(Rows, job) /\ after \in Queue
  BY <1>3, RowsAreJobs, ClaimRow DEF IInv, TypeOK, Queue, Rows
<1>5. after # NoTxn
  BY <1>4, NoQueueAssumption
<1> HIDE DEF after
<1>6. TypeOK'
  BY <1>1, <1>4, DispatcherAssumption DEF IInv, TypeOK, WorkerPhases
<1>7. TxnInv'
  BY <1>1, <1>2, <1>5, DispatcherAssumption, NoConnAssumption
     DEF IInv, TypeOK, TxnInv, Transacting
<1>8. WorkerViewInv' /\ ServerViewInv' /\ HandInv'
  BY <1>1, <1>2, <1>3, <1>4, DispatcherAssumption
     DEF IInv, TypeOK, WorkerViewInv, ServerViewInv, HandInv, HeldIsInFlight, Transacting,
         Holding, Rows, Claimable
<1>9. CountInv' /\ DuplicatesExplained'
  BY <1>1 DEF IInv, CountInv, SendsAreCounted, DuplicatesExplained, Rows
<1> QED
  BY <1>6, <1>7, <1>8, <1>9 DEF IInv

(* The claim is on disk: one attempt more than sends. *)
LEMMA ClaimCommitKeeps == ASSUME IInv, ClaimCommit PROVE IInv'
<1>1. /\ phase = "updated" /\ phase' = "claimed" /\ writer = Worker /\ writer' = NoConn
      /\ db' = view[Worker] /\ view' = [view EXCEPT ![Worker] = NoTxn]
      /\ stale' = OpenTxns \ {Worker}
      /\ due' = due \ {job} /\ elapsed' = elapsed \ {job}
      /\ UNCHANGED <<job, outcome, budget, crashes, sends, delivered, doubts>>
  BY DEF ClaimCommit, Commit, historyVars
<1>2. job \in DOMAIN Rows /\ budget > 0 /\ Claimable(Rows[job]) /\ Rows' = Claim(Rows, job)
  BY <1>1 DEF IInv, WorkerViewInv, HandInv, Transacting, Rows
<1>3. view[Server] = NoTxn
  BY <1>1, DispatcherAssumption DEF IInv, TxnInv
<1>4. OpenTxns \ {Worker} = {}
  BY <1>3 DEF OpenTxns, IInv, TxnInv
<1>5. /\ Rows \in Seq(JobRow) /\ DOMAIN Rows \subseteq JobIds /\ Rows' \in Seq(JobRow)
      /\ DOMAIN Rows' = DOMAIN Rows /\ Len(Rows') = Len(Rows)
      /\ Rows'[job].status = "in_flight" /\ Rows'[job].attempts = Rows[job].attempts + 1
      /\ \A j \in DOMAIN Rows \ {job} : Rows'[j] = Rows[j]
  BY <1>2, RowsAreJobs, ClaimRow DEF IInv
<1>6. view[Worker] \in Queue
  BY <1>1, DispatcherAssumption DEF IInv, TypeOK, TxnInv, Transacting
<1>7. TypeOK'
  BY <1>1, <1>4, <1>6, DispatcherAssumption DEF IInv, TypeOK, WorkerPhases
<1>8. TxnInv'
  BY <1>1, <1>3, <1>4, DispatcherAssumption, NoConnAssumption DEF IInv, TypeOK, TxnInv, Transacting
<1>9. WorkerViewInv' /\ ServerViewInv' /\ HandInv'
  BY <1>1, <1>2, <1>5, DispatcherAssumption, NoConnAssumption
     DEF WorkerViewInv, ServerViewInv, HandInv, HeldIsInFlight, Transacting, Holding
<1>10. Rows[job].attempts \in Nat /\ Rows[job].attempts < MaxAttempts /\ Rows[job].status # "sent"
  <2>1. Rows[job] \in JobRow
    BY <1>2, <1>5
  <2> QED
    BY <1>2, <2>1 DEF Claimable, JobRow
<1>11. CountInv'
  <2>1. sends[job] <= Rows[job].attempts /\ sends[job] \in Nat
    BY <1>2, <1>5 DEF IInv, TypeOK, CountInv, SendsAreCounted
  <2>2. sends'[job] < Rows'[job].attempts /\ Rows'[job].attempts <= MaxAttempts
    BY <1>1, <1>5, <1>10, <2>1, DispatcherAssumption
  <2>3. SendsAreCounted'
    <3> SUFFICES ASSUME NEW i \in JobIds
                 PROVE  IF i \in DOMAIN Rows'
                        THEN sends'[i] <= Rows'[i].attempts /\ Rows'[i].attempts <= MaxAttempts
                        ELSE sends'[i] = 0
      BY DEF SendsAreCounted
    <3>1. CASE i = job
      BY <1>1, <1>2, <1>5, <1>10, <2>1, <2>2, <3>1
    <3>2. CASE i # job
      BY <1>1, <1>5, <3>2 DEF IInv, CountInv, SendsAreCounted
    <3> QED
      BY <3>1, <3>2
  <2> QED
    BY <1>1, <1>5, <2>2, <2>3 DEF IInv, CountInv
<1>12. DuplicatesExplained'
  BY <1>1, <1>2, <1>5, <1>10 DEF IInv, DuplicatesExplained
<1> QED
  BY <1>7, <1>8, <1>9, <1>11, <1>12 DEF IInv

(* ClaimError preserves the inductive invariant. *)
LEMMA ClaimErrorKeeps == ASSUME IInv, ClaimError PROVE IInv'
<1>1. /\ Transacting /\ phase' = "sleeping" /\ job' = 0 /\ outcome' = "none" /\ budget' = 0
      /\ due' = {} /\ db' = db /\ view' = [view EXCEPT ![Worker] = NoTxn]
      /\ stale' = stale \ {Worker} /\ writer' = (IF writer = Worker THEN NoConn ELSE writer)
      /\ UNCHANGED <<elapsed, crashes, sends, delivered, doubts>>
  BY DEF ClaimError, Rollback, Sleep, Transacting, historyVars
<1>2. TypeOK'
  BY <1>1, DispatcherAssumption DEF IInv, TypeOK, WorkerPhases, SendOutcomes
<1>3. TxnInv'
  BY <1>1, DispatcherAssumption, NoConnAssumption DEF IInv, TypeOK, TxnInv, Transacting
<1>4. WorkerViewInv' /\ HandInv'
  BY <1>1 DEF WorkerViewInv, HandInv, HeldIsInFlight, Transacting, Holding
<1>5. ServerViewInv'
  BY <1>1, DispatcherAssumption, NoConnAssumption DEF IInv, TypeOK, ServerViewInv, Rows
<1>6. CountInv' /\ DuplicatesExplained'
  BY <1>1 DEF IInv, CountInv, SendsAreCounted, DuplicatesExplained, Transacting, Rows
<1> QED
  BY <1>2, <1>3, <1>4, <1>5, <1>6 DEF IInv

-----------------------------------------------------------------------------
(* Sending and recording *)

(* Unconfigured preserves the inductive invariant. *)
LEMMA UnconfiguredKeeps == ASSUME IInv, Unconfigured PROVE IInv'
<1>1. /\ phase = "claimed" /\ phase' = "recording" /\ outcome' = "permanent"
      /\ UNCHANGED <<db, view, stale, writer, job, budget, due, elapsed, crashes,
                     sends, delivered, doubts>>
  BY DEF Unconfigured, sqliteVars, historyVars
<1>2. TypeOK'
  BY <1>1 DEF IInv, TypeOK, WorkerPhases, SendOutcomes
<1>3. TxnInv' /\ WorkerViewInv' /\ ServerViewInv' /\ HandInv' /\ CountInv'
  BY <1>1 DEF IInv, TxnInv, WorkerViewInv, ServerViewInv, HandInv, HeldIsInFlight, CountInv,
              SendsAreCounted, Transacting, Holding, Rows
<1>4. DuplicatesExplained'
  BY <1>1 DEF IInv, DuplicatesExplained, Rows
<1> QED
  BY <1>2, <1>3, <1>4 DEF IInv

(* A send uses up the attempt that the claim put on disk. *)
LEMMA SendKeeps ==
  ASSUME IInv, NEW result \in SendOutcomes, NEW arrives \in BOOLEAN, Send(result, arrives),
         result = "ok" => arrives
  PROVE  IInv'
<1>1. /\ phase = "claimed" /\ phase' = "recording" /\ outcome' = result
      /\ sends' = [sends EXCEPT ![job] = @ + 1]
      /\ delivered' = (IF arrives THEN [delivered EXCEPT ![job] = @ + 1] ELSE delivered)
      /\ doubts' = (IF arrives /\ result # "ok" THEN [doubts EXCEPT ![job] = @ + 1] ELSE doubts)
      /\ UNCHANGED <<db, view, stale, writer, job, budget, due, elapsed, crashes>>
  BY DEF Send, sqliteVars
<1>2. /\ job \in DOMAIN Rows /\ job \in JobIds /\ Rows[job].status = "in_flight"
      /\ Rows[job] \in JobRow
  BY <1>1, RowsAreJobs DEF IInv, HandInv, HeldIsInFlight, Holding
<1>3. Rows' = Rows
  BY <1>1 DEF Rows
<1>4. /\ sends[job] \in Nat /\ Rows[job].attempts \in Nat
      /\ sends[job] < Rows[job].attempts /\ Rows[job].attempts <= MaxAttempts
  BY <1>1, <1>2 DEF IInv, TypeOK, CountInv, SendsAreCounted, JobRow
<1>5. TypeOK'
  BY <1>1, <1>2 DEF IInv, TypeOK, WorkerPhases
<1>6. TxnInv' /\ WorkerViewInv' /\ ServerViewInv' /\ HandInv'
  BY <1>1 DEF IInv, TxnInv, WorkerViewInv, ServerViewInv, HandInv, HeldIsInFlight,
              Transacting, Holding, Rows
<1>7. CountInv'
  <2>1. SendsAreCounted'
    <3> SUFFICES ASSUME NEW i \in JobIds
                 PROVE  IF i \in DOMAIN Rows
                        THEN sends'[i] <= Rows[i].attempts /\ Rows[i].attempts <= MaxAttempts
                        ELSE sends'[i] = 0
      BY <1>3 DEF SendsAreCounted
    <3>1. CASE i = job
      BY <1>1, <1>2, <1>4, <3>1 DEF IInv, TypeOK
    <3>2. CASE i # job
      BY <1>1, <3>2 DEF IInv, TypeOK, CountInv, SendsAreCounted
    <3> QED
      BY <3>1, <3>2
  <2> QED
    BY <1>1, <1>3, <2>1 DEF IInv, CountInv
<1>8. DuplicatesExplained'
  <2> SUFFICES ASSUME NEW i \in JobIds
               PROVE  delivered'[i] = doubts'[i] +
                        (IF \/ i \in DOMAIN Rows /\ Rows[i].status = "sent"
                            \/ i = job /\ result = "ok" THEN 1 ELSE 0)
    BY <1>1, <1>3 DEF DuplicatesExplained
  <2>1. delivered[i] \in Nat /\ doubts[i] \in Nat
    BY DEF IInv, TypeOK
  <2>2. delivered[i] = doubts[i] + (IF i \in DOMAIN Rows /\ Rows[i].status = "sent" THEN 1 ELSE 0)
    BY <1>1 DEF IInv, DuplicatesExplained
  <2>3. CASE i = job
    BY <1>1, <1>2, <2>1, <2>2, <2>3 DEF IInv, TypeOK
  <2>4. CASE i # job
    BY <1>1, <2>1, <2>2, <2>4 DEF IInv, TypeOK
  <2> QED
    BY <2>3, <2>4
<1> QED
  BY <1>5, <1>6, <1>7, <1>8 DEF IInv

(* What the two records of an outcome have in common: the row in hand gets *)
(* its status, which is "sent" only for the outcome "ok".                  *)
LEMMA RecordKeeps ==
  ASSUME IInv, phase = "recording", NextTurn, writer = NoConn, NEW recorded \in JobStatuses,
         db' = [db EXCEPT !.notifications = Rows'], Rows' \in Seq(JobRow),
         DOMAIN Rows' = DOMAIN Rows, Len(Rows') = Len(Rows),
         Rows'[job].status = recorded, Rows'[job].attempts = Rows[job].attempts,
         \A j \in DOMAIN Rows \ {job} : Rows'[j] = Rows[j],
         recorded = "sent" <=> outcome = "ok",
         stale' = OpenTxns, due' \subseteq JobIds, elapsed' \subseteq JobIds,
         UNCHANGED <<view, writer, crashes, sends, delivered, doubts>>
  PROVE  IInv'
<1>1. /\ phase' = "claiming" /\ job' = 0 /\ outcome' = "none" /\ budget' = budget - 1
      /\ job \in DOMAIN Rows /\ budget > 0 /\ Rows[job].status = "in_flight"
  BY DEF NextTurn, IInv, HandInv, HeldIsInFlight, Holding
<1>2. OpenTxns = {}
  BY NoConnAssumption, DispatcherAssumption DEF OpenTxns, IInv, TxnInv, Transacting
<1>3. TypeOK'
  <2>1. db' \in Queue
    BY DEF Queue, IInv, TypeOK
  <2>2. budget' \in 0..Limit
    BY <1>1, DispatcherAssumption DEF IInv, TypeOK
  <2> QED
    BY <1>1, <1>2, <2>1, <2>2 DEF IInv, TypeOK, WorkerPhases, SendOutcomes
<1>4. TxnInv'
  BY <1>1, <1>2, DispatcherAssumption, NoConnAssumption DEF IInv, TxnInv, Transacting
<1>5. WorkerViewInv' /\ ServerViewInv' /\ HandInv'
  BY <1>1, DispatcherAssumption, NoConnAssumption
     DEF WorkerViewInv, ServerViewInv, HandInv, HeldIsInFlight, Transacting, Holding
<1>6. CountInv'
  BY <1>1 DEF IInv, CountInv, SendsAreCounted
<1>7. DuplicatesExplained'
  <2> SUFFICES ASSUME NEW i \in JobIds
               PROVE  delivered[i] = doubts[i] +
                        (IF i \in DOMAIN Rows /\ Rows'[i].status = "sent" THEN 1 ELSE 0)
    BY <1>1 DEF DuplicatesExplained
  <2>1. delivered[i] = doubts[i] + (IF \/ i \in DOMAIN Rows /\ Rows[i].status = "sent"
                                       \/ i = job /\ outcome = "ok" THEN 1 ELSE 0)
    BY DEF IInv, DuplicatesExplained
  <2>2. CASE i = job
    BY <1>1, <2>1, <2>2
  <2>3. CASE i # job
    BY <2>1, <2>3
  <2> QED
    BY <2>2, <2>3
<1> QED
  BY <1>3, <1>4, <1>5, <1>6, <1>7 DEF IInv

(* RecordSent preserves the inductive invariant. *)
LEMMA RecordSentKeeps == ASSUME IInv, RecordSent PROVE IInv'
<1>1. /\ phase = "recording" /\ outcome = "ok" /\ NextTurn /\ writer = NoConn
      /\ db' = [db EXCEPT !.notifications = Complete(@, job)] /\ stale' = OpenTxns
      /\ UNCHANGED <<view, writer, due, elapsed, crashes, sends, delivered, doubts>>
  BY DEF RecordSent, Autocommit, historyVars
<1>2. job \in DOMAIN Rows /\ Rows[job].status = "in_flight" /\ Rows \in Seq(JobRow)
  BY <1>1, RowsAreJobs DEF IInv, HandInv, HeldIsInFlight, Holding
<1>3. Rows' = Complete(Rows, job) /\ db' = [db EXCEPT !.notifications = Rows']
  BY <1>1 DEF Rows, IInv, TypeOK, Queue
<1>4. due' \subseteq JobIds /\ elapsed' \subseteq JobIds
  BY <1>1 DEF IInv, TypeOK
<1> QED
  BY <1>1, <1>2, <1>3, <1>4, CompleteRow, RecordKeeps DEF JobStatuses

(* RecordFailed preserves the inductive invariant. *)
LEMMA RecordFailedKeeps == ASSUME IInv, RecordFailed PROVE IInv'
<1>1. /\ phase = "recording" /\ outcome # "ok" /\ NextTurn /\ writer = NoConn
      /\ db' = [db EXCEPT !.notifications = Fail(@, job, outcome = "temporary")]
      /\ stale' = OpenTxns
      /\ UNCHANGED <<view, writer, crashes, sends, delivered, doubts>>
  BY DEF RecordFailed, Autocommit, historyVars
<1>2. job \in DOMAIN Rows /\ Rows[job].status = "in_flight" /\ Rows \in Seq(JobRow) /\ job \in JobIds
  BY <1>1, RowsAreJobs DEF IInv, HandInv, HeldIsInFlight, Holding
<1>3. PICK again \in BOOLEAN : again = (outcome = "temporary")
  OBVIOUS
<1>4. Rows' = Fail(Rows, job, again) /\ db' = [db EXCEPT !.notifications = Rows']
  BY <1>1, <1>3 DEF Rows, IInv, TypeOK, Queue
<1>5. due' \subseteq JobIds /\ elapsed' \subseteq JobIds
  BY <1>2 DEF RecordFailed, IInv, TypeOK
<1>6. /\ Rows' \in Seq(JobRow) /\ DOMAIN Rows' = DOMAIN Rows /\ Len(Rows') = Len(Rows)
      /\ Rows'[job].status = "failed" /\ Rows'[job].attempts = Rows[job].attempts
      /\ \A j \in DOMAIN Rows \ {job} : Rows'[j] = Rows[j]
  BY <1>2, <1>4, FailRow
<1> QED
  BY <1>1, <1>4, <1>5, <1>6, RecordKeeps DEF JobStatuses

(* A delivery that ends unrecorded moves from the row to the doubts. *)
LEMMA DoubtExplains ==
  ASSUME IInv, Doubt, Rows' = Rows, phase' # "recording", delivered' = delivered
  PROVE  DuplicatesExplained' /\ doubts' \in [JobIds -> Nat]
<1>1. phase = "recording" =>
        job \in DOMAIN Rows /\ job \in JobIds /\ Rows[job].status = "in_flight"
  BY RowsAreJobs DEF IInv, HandInv, HeldIsInFlight, Holding
<1>2. doubts' \in [JobIds -> Nat]
  BY <1>1 DEF Doubt, IInv, TypeOK
<1>3. ASSUME NEW i \in JobIds
      PROVE  delivered[i] = doubts'[i] +
               (IF i \in DOMAIN Rows /\ Rows[i].status = "sent" THEN 1 ELSE 0)
  <2>1. delivered[i] = doubts[i] + (IF \/ i \in DOMAIN Rows /\ Rows[i].status = "sent"
                                       \/ i = job /\ phase = "recording" /\ outcome = "ok"
                                    THEN 1 ELSE 0)
    BY DEF IInv, DuplicatesExplained
  <2>2. doubts[i] \in Nat
    BY DEF IInv, TypeOK
  <2>3. CASE i = job /\ phase = "recording" /\ outcome = "ok"
    BY <1>1, <2>1, <2>2, <2>3 DEF Doubt, IInv, TypeOK
  <2>4. CASE ~(i = job /\ phase = "recording" /\ outcome = "ok")
    BY <1>1, <2>1, <2>4 DEF Doubt, IInv, TypeOK
  <2> QED
    BY <2>3, <2>4
<1> QED
  BY <1>2, <1>3 DEF DuplicatesExplained

(* RecordError preserves the inductive invariant. *)
LEMMA RecordErrorKeeps == ASSUME IInv, RecordError PROVE IInv'
<1>1. /\ phase = "recording" /\ phase' = "sleeping" /\ job' = 0 /\ outcome' = "none"
      /\ budget' = 0 /\ due' = {} /\ Doubt
      /\ UNCHANGED <<db, view, stale, writer, elapsed, crashes, sends, delivered>>
  BY DEF RecordError, Sleep, sqliteVars
<1>2. Rows' = Rows
  BY <1>1 DEF Rows
<1>3. DuplicatesExplained' /\ doubts' \in [JobIds -> Nat]
  BY <1>1, <1>2, DoubtExplains
<1>4. TypeOK'
  BY <1>1, <1>3, DispatcherAssumption DEF IInv, TypeOK, WorkerPhases, SendOutcomes
<1>5. TxnInv' /\ WorkerViewInv' /\ ServerViewInv' /\ HandInv' /\ CountInv'
  BY <1>1, <1>2 DEF IInv, TxnInv, WorkerViewInv, ServerViewInv, HandInv, HeldIsInFlight, CountInv,
              SendsAreCounted, Transacting, Holding
<1> QED
  BY <1>3, <1>4, <1>5 DEF IInv

-----------------------------------------------------------------------------
(* The requests, time, and the death of the process *)

(* QueueBegin preserves the inductive invariant. *)
LEMMA QueueBeginKeeps == ASSUME IInv, QueueBegin PROVE IInv'
<1>1. /\ view[Server] = NoTxn /\ writer = NoConn
      /\ view' = [view EXCEPT ![Server] = db] /\ writer' = Server
      /\ UNCHANGED <<db, stale, phase, job, outcome, budget, due, elapsed, crashes,
                     sends, delivered, doubts>>
  BY DEF QueueBegin, workerVars, historyVars
<1>2. db \in Queue /\ db # NoTxn
  BY NoQueueAssumption DEF IInv, TypeOK
<1>3. TypeOK'
  BY <1>1, <1>2, DispatcherAssumption DEF IInv, TypeOK
<1>4. TxnInv'
  BY <1>1, <1>2, DispatcherAssumption, NoConnAssumption DEF IInv, TypeOK, TxnInv, Transacting
<1>5. WorkerViewInv' /\ HandInv'
  BY <1>1, DispatcherAssumption
     DEF IInv, TypeOK, TxnInv, WorkerViewInv, HandInv, HeldIsInFlight, Transacting, Holding, Rows
<1>6. ServerViewInv'
  <2>1. Lengthens(Rows, Rows)
    BY RowsAreJobs DEF IInv, CountInv, Lengthens
  <2> QED
    BY <1>1, <2>1, DispatcherAssumption DEF IInv, TypeOK, ServerViewInv, Rows
<1>7. CountInv' /\ DuplicatesExplained'
  BY <1>1 DEF IInv, CountInv, SendsAreCounted, DuplicatesExplained, Rows
<1> QED
  BY <1>3, <1>4, <1>5, <1>6, <1>7 DEF IInv

(* QueueJob preserves the inductive invariant. *)
LEMMA QueueJobKeeps ==
  ASSUME IInv, NEW e \in Events, NEW c \in Channels, NEW headline \in Headlines,
         QueueJob(e, c, headline)
  PROVE  IInv'
<1> DEFINE rows == view[Server].notifications
           row == NewJob(e, [status |-> headline], c)
           more == InsertOrIgnore(rows, row)
           after == [view[Server] EXCEPT !.notifications = more]
<1>1. /\ writer = Server /\ Len(more) <= MaxJobs
      /\ view' = [view EXCEPT ![Server] = after] /\ writer' = Server
      /\ UNCHANGED <<db, stale, phase, job, outcome, budget, due, elapsed, crashes,
                     sends, delivered, doubts>>
  BY DEF QueueJob, Write, workerVars, historyVars
<1>2. view[Server] \in Queue
  BY <1>1, DispatcherAssumption DEF IInv, TypeOK, TxnInv
<1>3. Lengthens(Rows, rows) /\ rows \in Seq(JobRow)
  BY <1>1 DEF IInv, ServerViewInv, Lengthens
<1>4. row \in JobRow /\ row.status = "pending" /\ row.attempts = 0
  BY NewRow, DispatcherAssumption
<1>5. more = rows \/ more = Append(rows, row)
  BY DEF InsertOrIgnore
<1> HIDE DEF row, more
<1>6. Lengthens(Rows, more)
  <2>1. CASE more = rows
    BY <1>3, <2>1
  <2>2. CASE more = Append(rows, row)
    <3>1. /\ more \in Seq(JobRow) /\ Len(more) = Len(rows) + 1 /\ Len(rows) \in Nat
          /\ DOMAIN rows = 1..Len(rows) /\ DOMAIN more = DOMAIN rows \cup {Len(rows) + 1}
          /\ more[Len(rows) + 1] = row /\ \A i \in DOMAIN rows : more[i] = rows[i]
      BY <1>3, <1>4, <2>2, AppendProperties
    <3>2. DOMAIN Rows \subseteq DOMAIN rows /\ Len(Rows) \in Nat
      BY <1>3, <3>1, RowsAreJobs DEF IInv, Lengthens
    <3> HIDE DEF rows
    <3> QED
      BY <1>1, <1>3, <1>4, <3>1, <3>2 DEF Lengthens
  <2> QED
    BY <1>5, <2>1, <2>2
<1>7. after \in Queue /\ after.notifications = more /\ after # NoTxn
  <2>1. after \in Queue /\ after.notifications = more
    BY <1>2, <1>6 DEF Queue, Lengthens
  <2> QED
    BY <2>1, NoQueueAssumption
<1> HIDE DEF after
<1>8. TypeOK'
  BY <1>1, <1>7, DispatcherAssumption DEF IInv, TypeOK
<1>9. TxnInv'
  BY <1>1, <1>7, DispatcherAssumption, NoConnAssumption DEF IInv, TypeOK, TxnInv, Transacting
<1>10. WorkerViewInv' /\ HandInv'
  BY <1>1, DispatcherAssumption
     DEF IInv, TypeOK, TxnInv, WorkerViewInv, HandInv, HeldIsInFlight, Transacting, Holding, Rows
<1>11. ServerViewInv'
  BY <1>1, <1>6, <1>7, DispatcherAssumption DEF IInv, TypeOK, ServerViewInv, Rows
<1>12. CountInv' /\ DuplicatesExplained'
  BY <1>1 DEF IInv, CountInv, SendsAreCounted, DuplicatesExplained, Rows
<1> QED
  BY <1>8, <1>9, <1>10, <1>11, <1>12 DEF IInv

(* The commit of a request adds new rows at the end. *)
LEMMA CommitLengthens ==
  ASSUME IInv, QueueCommit
  PROVE  /\ Lengthens(Rows, Rows') /\ Rows' \in Seq(JobRow) /\ Len(Rows') <= MaxJobs
         /\ DOMAIN Rows \subseteq DOMAIN Rows' /\ DOMAIN Rows' \subseteq JobIds
<1>1. Rows' = view[Server].notifications /\ writer = Server
  BY DEF QueueCommit, Commit, Rows
<1>2. Lengthens(Rows, Rows')
  BY <1>1 DEF IInv, ServerViewInv
<1> QED
  BY <1>2, RowsAreJobs, DispatcherAssumption DEF IInv, Lengthens, JobIds

(* More rows, at the end: the worker, if it had not written yet, is late.  *)
LEMMA QueueCommitKeeps == ASSUME IInv, QueueCommit PROVE IInv'
<1>1. /\ writer = Server /\ writer' = NoConn /\ db' = view[Server]
      /\ view' = [view EXCEPT ![Server] = NoTxn] /\ stale' = OpenTxns \ {Server}
      /\ UNCHANGED <<phase, job, outcome, budget, due, elapsed, crashes,
                     sends, delivered, doubts>>
  BY DEF QueueCommit, Commit, workerVars, historyVars
<1>2. /\ Lengthens(Rows, Rows') /\ Rows' \in Seq(JobRow) /\ Len(Rows') <= MaxJobs
      /\ DOMAIN Rows \subseteq DOMAIN Rows' /\ DOMAIN Rows' \subseteq JobIds
  BY CommitLengthens
<1>3. DOMAIN Rows \subseteq JobIds
  BY RowsAreJobs DEF IInv
<1>4. db' \in Queue
  BY <1>1, DispatcherAssumption DEF IInv, TypeOK, TxnInv
<1>5. OpenTxns \ {Server} = (IF Transacting THEN {Worker} ELSE {})
  BY DispatcherAssumption DEF OpenTxns, IInv, TxnInv
<1>6. phase # "updated"
  BY <1>1, DispatcherAssumption DEF IInv, TxnInv
<1>7. TypeOK'
  BY <1>1, <1>4, <1>5, DispatcherAssumption DEF IInv, TypeOK
<1>8. TxnInv'
  BY <1>1, <1>5, <1>6, DispatcherAssumption, NoConnAssumption DEF IInv, TypeOK, TxnInv, Transacting
<1>9. WorkerViewInv' /\ ServerViewInv'
  BY <1>1, <1>5, <1>6, DispatcherAssumption, NoConnAssumption
     DEF WorkerViewInv, ServerViewInv, Transacting
<1>10. HandInv'
  BY <1>1, <1>2 DEF IInv, HandInv, HeldIsInFlight, Transacting, Holding, Lengthens
<1>11. CountInv'
  <2>1. SendsAreCounted'
    <3> SUFFICES ASSUME NEW i \in JobIds
                 PROVE  IF i \in DOMAIN Rows'
                        THEN sends[i] <= Rows'[i].attempts /\ Rows'[i].attempts <= MaxAttempts
                        ELSE sends[i] = 0
      BY <1>1 DEF SendsAreCounted
    <3>1. CASE i \in DOMAIN Rows
      BY <1>2, <3>1 DEF IInv, CountInv, SendsAreCounted, Lengthens
    <3>2. CASE i \notin DOMAIN Rows
      BY <1>2, <3>2, DispatcherAssumption DEF IInv, CountInv, SendsAreCounted, Lengthens
    <3> QED
      BY <3>1, <3>2
  <2>2. phase = "claimed" => job \in DOMAIN Rows /\ Rows'[job] = Rows[job]
    BY <1>2 DEF IInv, HandInv, Holding, Lengthens
  <2> QED
    BY <1>1, <1>2, <2>1, <2>2 DEF IInv, CountInv
<1>12. DuplicatesExplained'
  <2> SUFFICES ASSUME NEW i \in JobIds
               PROVE  delivered[i] = doubts[i] +
                        (IF \/ i \in DOMAIN Rows' /\ Rows'[i].status = "sent"
                            \/ i = job /\ phase = "recording" /\ outcome = "ok" THEN 1 ELSE 0)
    BY <1>1 DEF DuplicatesExplained
  <2>1. (i \in DOMAIN Rows' /\ Rows'[i].status = "sent") <=>
        (i \in DOMAIN Rows /\ Rows[i].status = "sent")
    BY <1>2 DEF Lengthens
  <2> QED
    BY <2>1 DEF IInv, DuplicatesExplained
<1> QED
  BY <1>7, <1>8, <1>9, <1>10, <1>11, <1>12 DEF IInv

(* QueueRollback preserves the inductive invariant. *)
LEMMA QueueRollbackKeeps == ASSUME IInv, QueueRollback PROVE IInv'
<1>1. /\ writer = Server /\ writer' = NoConn /\ db' = db
      /\ view' = [view EXCEPT ![Server] = NoTxn] /\ stale' = stale \ {Server}
      /\ UNCHANGED <<phase, job, outcome, budget, due, elapsed, crashes,
                     sends, delivered, doubts>>
  BY DEF QueueRollback, Rollback, workerVars, historyVars
<1>2. TypeOK'
  BY <1>1, DispatcherAssumption DEF IInv, TypeOK
<1>3. TxnInv'
  BY <1>1, DispatcherAssumption, NoConnAssumption DEF IInv, TypeOK, TxnInv, Transacting
<1>4. WorkerViewInv' /\ ServerViewInv' /\ HandInv'
  BY <1>1, DispatcherAssumption, NoConnAssumption
     DEF IInv, TypeOK, TxnInv, WorkerViewInv, ServerViewInv, HandInv, HeldIsInFlight,
         Transacting, Holding, Rows
<1>5. CountInv' /\ DuplicatesExplained'
  BY <1>1 DEF IInv, CountInv, SendsAreCounted, DuplicatesExplained, Rows
<1> QED
  BY <1>2, <1>3, <1>4, <1>5 DEF IInv

(* Elapse preserves the inductive invariant. *)
LEMMA ElapseKeeps == ASSUME IInv, NEW i \in JobIds, Elapse(i) PROVE IInv'
<1>1. /\ elapsed' = elapsed \cup {i}
      /\ UNCHANGED <<db, view, stale, writer, phase, job, outcome, budget, due, crashes,
                     sends, delivered, doubts>>
  BY DEF Elapse, sqliteVars, workerVars, historyVars
<1>2. TypeOK'
  BY <1>1 DEF IInv, TypeOK
<1>3. TxnInv' /\ WorkerViewInv' /\ ServerViewInv' /\ HandInv' /\ CountInv' /\ DuplicatesExplained'
  BY <1>1 DEF IInv, TxnInv, WorkerViewInv, ServerViewInv, HandInv, HeldIsInFlight, CountInv,
              SendsAreCounted, DuplicatesExplained, Transacting, Holding, Rows
<1> QED
  BY <1>2, <1>3 DEF IInv

(* Crash preserves the inductive invariant. *)
LEMMA CrashKeeps == ASSUME IInv, Crash PROVE IInv'
<1>1. /\ crashes < MaxCrashes /\ crashes' = crashes + 1
      /\ db' = db /\ view' = [c \in Connections |-> NoTxn] /\ stale' = {} /\ writer' = NoConn
      /\ phase' = "sleeping" /\ job' = 0 /\ outcome' = "none" /\ budget' = 0 /\ due' = {}
      /\ Doubt /\ UNCHANGED <<elapsed, sends, delivered>>
  BY DEF Crash, LoseConnections, Sleep
<1>2. Rows' = Rows
  BY <1>1 DEF Rows
<1>3. DuplicatesExplained' /\ doubts' \in [JobIds -> Nat]
  BY <1>1, <1>2, DoubtExplains
<1>4. TypeOK'
  BY <1>1, <1>3, DispatcherAssumption DEF IInv, TypeOK, WorkerPhases, SendOutcomes
<1>5. TxnInv' /\ WorkerViewInv' /\ ServerViewInv' /\ HandInv'
  BY <1>1, DispatcherAssumption, NoConnAssumption
     DEF TxnInv, WorkerViewInv, ServerViewInv, HandInv, HeldIsInFlight, Transacting, Holding
<1>6. CountInv'
  BY <1>1, <1>2 DEF IInv, CountInv, SendsAreCounted
<1> QED
  BY <1>3, <1>4, <1>5, <1>6 DEF IInv

-----------------------------------------------------------------------------
(* Theorems *)

(* Every step of the worker, a request, a clock or a crash preserves the   *)
(* invariant.                                                              *)
LEMMA NextKeepsIInv == IInv /\ [Next]_vars => IInv'
<1> SUFFICES ASSUME IInv, [Next]_vars PROVE IInv'
  OBVIOUS
<1>1. CASE WorkerStep
  <2>1. CASE SendAny
    <3>1. PICK result \in SendOutcomes, arrives \in BOOLEAN :
            Send(result, arrives) /\ (result = "ok" => arrives)
      BY <2>1 DEF SendAny, SendOutcomes
    <3> QED
      BY <3>1, SendKeeps
  <2> QED
    BY <1>1, <2>1, WakeKeeps, EndBatchKeeps, SelectDueKeeps, ClaimUpdateKeeps, ClaimCommitKeeps,
       ClaimErrorKeeps, UnconfiguredKeeps, RecordSentKeeps, RecordFailedKeeps, RecordErrorKeeps
       DEF WorkerStep
<1>2. ASSUME NEW e \in Events, NEW c \in Channels, NEW headline \in Headlines,
             QueueJob(e, c, headline)
      PROVE  IInv'
  BY <1>2, QueueJobKeeps
<1>3. CASE QueueBegin \/ QueueCommit \/ QueueRollback
  BY <1>3, QueueBeginKeeps, QueueCommitKeeps, QueueRollbackKeeps
<1>4. ASSUME NEW i \in JobIds, Elapse(i) PROVE IInv'
  BY <1>4, ElapseKeeps
<1>5. CASE Crash
  BY <1>5, CrashKeeps
<1>6. CASE UNCHANGED vars
  BY <1>6 DEF vars, sqliteVars, workerVars, historyVars, IInv, TypeOK, TxnInv, WorkerViewInv,
              ServerViewInv, HandInv, HeldIsInFlight, CountInv, SendsAreCounted,
              DuplicatesExplained, Transacting, Holding, Rows
<1> QED
  BY <1>1, <1>2, <1>3, <1>4, <1>5, <1>6 DEF Next

(* The inductive invariant holds in every state of the worker. *)
THEOREM Invariance == Spec => []IInv
<1> QED
  BY InitIInv, NextKeepsIInv, PTL DEF Spec

(* The worker's state and the rows of the queue keep their types. *)
THEOREM TypeCorrect == Spec => []TypeOK
<1>1. IInv => TypeOK
  BY DEF IInv
<1> QED
  BY <1>1, Invariance, PTL

(* Every send is one of at most MaxAttempts attempts that are on disk.     *)
THEOREM Counted == Spec => []SendsAreCounted
<1>1. IInv => SendsAreCounted
  BY DEF IInv, CountInv
<1> QED
  BY <1>1, Invariance, PTL

(* A row of the queue says "sent" only of a message that was delivered.    *)
THEOREM SentDelivered == Spec => []SentWasDelivered
<1>1. IInv => SentWasDelivered
  <2> SUFFICES ASSUME IInv, NEW i \in DOMAIN Rows, Rows[i].status = "sent"
               PROVE  delivered[i] > 0
    BY DEF SentWasDelivered
  <2>1. i \in JobIds
    BY RowsAreJobs DEF IInv
  <2>2. delivered[i] = doubts[i] + 1 /\ doubts[i] \in Nat
    BY <2>1 DEF IInv, TypeOK, DuplicatesExplained
  <2> QED
    BY <2>2
<1> QED
  BY <1>1, Invariance, PTL

(* A message is delivered again only after a delivery whose outcome the    *)
(* store never learned.                                                    *)
THEOREM Explained == Spec => []DuplicatesExplained
<1>1. IInv => DuplicatesExplained
  BY DEF IInv
<1> QED
  BY <1>1, Invariance, PTL

(* Recording an outcome always finds its row in flight.                    *)
THEOREM Held == Spec => []HeldIsInFlight
<1>1. IInv => HeldIsInFlight
  BY DEF IInv, HandInv
<1> QED
  BY <1>1, Invariance, PTL

(* The worker only changes the row in hand, and that one is not final: it  *)
(* is claimable until the claim, and in flight after it.                   *)
LEMMA FinalUntouched ==
  ASSUME IInv, [Next]_vars, NEW i \in DOMAIN Rows, Final(Rows[i])
  PROVE  Rows'[i] = Rows[i] /\ sends'[i] = sends[i]
<1>1. /\ Rows \in Seq(JobRow) /\ i \in JobIds
      /\ Rows[i] \in JobRow /\ Rows[i].attempts \in Nat
  <2>1. Rows \in Seq(JobRow) /\ i \in JobIds
    BY RowsAreJobs DEF IInv
  <2>2. Rows[i] \in JobRow
    BY <2>1
  <2> QED
    BY <2>1, <2>2 DEF JobRow
<1>2. CASE UNCHANGED <<db, sends>>
  BY <1>2 DEF Rows
<1>3. CASE QueueCommit
  BY <1>3, CommitLengthens DEF Lengthens, QueueCommit, historyVars
<1>4. CASE ClaimCommit
  <2>1. Rows' = Claim(Rows, job) /\ Claimable(Rows[job]) /\ job \in DOMAIN Rows /\ sends' = sends
    BY <1>4 DEF ClaimCommit, Commit, historyVars, IInv, TxnInv, WorkerViewInv, HandInv, Transacting,
                Rows
  <2>2. i # job
    BY <1>1, <2>1, DispatcherAssumption DEF Final, Claimable
  <2> QED
    BY <1>1, <2>1, <2>2, ClaimRow
<1>5. ASSUME phase \in {"claimed", "recording"}
      PROVE  i # job /\ job \in DOMAIN Rows /\ Rows[job].status = "in_flight"
  BY <1>5 DEF IInv, HandInv, HeldIsInFlight, Holding, Final
<1>6. CASE SendAny
  <2>1. phase = "claimed" /\ db' = db /\ sends' = [sends EXCEPT ![job] = @ + 1]
    BY <1>6 DEF SendAny, Send, sqliteVars
  <2> QED
    BY <1>1, <1>5, <2>1 DEF Rows, IInv, TypeOK
<1>7. CASE RecordSent
  <2>1. phase = "recording" /\ Rows' = Complete(Rows, job) /\ sends' = sends
    BY <1>7 DEF RecordSent, Autocommit, historyVars, Rows, IInv, TypeOK, Queue
  <2> QED
    BY <1>1, <1>5, <2>1, CompleteRow
<1>8. CASE RecordFailed
  <2>1. phase = "recording" /\ sends' = sends
    BY <1>8 DEF RecordFailed, historyVars
  <2>2. PICK again \in BOOLEAN : again = (outcome = "temporary")
    OBVIOUS
  <2>3. Rows' = Fail(Rows, job, again)
    BY <1>8, <2>2 DEF RecordFailed, Autocommit, Rows, IInv, TypeOK, Queue
  <2> QED
    BY <1>1, <1>5, <2>1, <2>3, FailRow
<1>9. QueueCommit \/ ClaimCommit \/ SendAny \/ RecordSent \/ RecordFailed \/ UNCHANGED <<db, sends>>
  BY DEF Next, WorkerStep, Wake, EndBatch, SelectDue, ClaimUpdate, ClaimError, Unconfigured,
         RecordError, QueueBegin, QueueJob, QueueRollback, Elapse, Crash, Begin, Write, Rollback,
         LoseConnections, Sleep, vars, sqliteVars, workerVars, historyVars
<1> QED
  BY <1>2, <1>3, <1>4, <1>6, <1>7, <1>8, <1>9

(* What was sent, refused for good or given up stays so, and is never sent *)
(* again: neither a claim that was late nor a restart touches it.          *)
THEOREM Finality == Spec => FinalStaysFinal
<1>1. IInv /\ [Next]_vars =>
        [\A i \in DOMAIN Rows :
           Final(Rows[i]) => Rows'[i] = Rows[i] /\ sends'[i] = sends[i]]_vars
  BY FinalUntouched
<1> QED
  BY <1>1, Invariance, PTL DEF Spec, FinalStaysFinal

-----------------------------------------------------------------------------
(* The order of first attempts *)

(* A row never attempted waits, and the row the worker is about to claim   *)
(* has none of those before it, as long as nothing was committed since the *)
(* SELECT that picked it.                                                  *)
OrderInv ==
  /\ \A i \in DOMAIN Rows : Rows[i].attempts = 0 => Rows[i].status = "pending"
  /\ Transacting /\ Worker \notin stale =>
       \A i \in DOMAIN Rows : i < job => Rows[i].attempts > 0

(* The rows after a step of the worker: a claim, a record, or no change.   *)
LEMMA WorkerRows ==
  ASSUME IInv, WorkerStep
  PROVE  \/ UNCHANGED Rows
         \/ /\ job \in DOMAIN Rows /\ DOMAIN Rows' = DOMAIN Rows
            /\ \A j \in DOMAIN Rows \ {job} : Rows'[j] = Rows[j]
            /\ \/ ClaimCommit /\ Rows'[job].attempts = Rows[job].attempts + 1
               \/ /\ phase \in {"claimed", "recording"} /\ phase' = "claiming"
                  /\ Rows'[job].attempts = Rows[job].attempts
<1>1. Rows \in Seq(JobRow)
  BY RowsAreJobs DEF IInv
<1>2. CASE ClaimCommit
  <2>1. Rows' = Claim(Rows, job) /\ job \in DOMAIN Rows
    BY <1>2 DEF ClaimCommit, Commit, IInv, TxnInv, WorkerViewInv, HandInv, Transacting, Rows
  <2> QED
    BY <1>1, <1>2, <2>1, ClaimRow
<1>3. CASE RecordSent
  <2>1. phase = "recording" /\ Rows' = Complete(Rows, job) /\ phase' = "claiming"
    BY <1>3 DEF RecordSent, Autocommit, NextTurn, Rows, IInv, TypeOK, Queue
  <2>2. job \in DOMAIN Rows /\ Rows[job].status = "in_flight"
    BY <2>1 DEF IInv, HandInv, HeldIsInFlight, Holding
  <2> QED
    BY <1>1, <2>1, <2>2, CompleteRow
<1>4. CASE RecordFailed
  <2>1. PICK again \in BOOLEAN : again = (outcome = "temporary")
    OBVIOUS
  <2>2. phase = "recording" /\ Rows' = Fail(Rows, job, again) /\ phase' = "claiming"
    BY <1>4, <2>1 DEF RecordFailed, Autocommit, NextTurn, Rows, IInv, TypeOK, Queue
  <2>3. job \in DOMAIN Rows /\ Rows[job].status = "in_flight"
    BY <2>2 DEF IInv, HandInv, HeldIsInFlight, Holding
  <2> QED
    BY <1>1, <2>2, <2>3, FailRow
<1>5. ClaimCommit \/ RecordSent \/ RecordFailed \/ UNCHANGED db
  BY DEF WorkerStep, Wake, EndBatch, SelectDue, ClaimUpdate, ClaimError, Unconfigured, SendAny,
         Send, RecordError, Begin, Write, Rollback, Sleep, sqliteVars
<1> QED
  BY <1>2, <1>3, <1>4, <1>5 DEF Rows

(* Every step preserves the order. *)
LEMMA NextKeepsOrder ==
  ASSUME IInv, IInv', OrderInv, [Next]_vars
  PROVE  OrderInv'
<1>1. /\ Rows \in Seq(JobRow) /\ DOMAIN Rows = 1..Len(Rows) /\ Len(Rows) \in Nat
      /\ \A i \in DOMAIN Rows : Rows[i].attempts \in Nat
  <2>1. Rows \in Seq(JobRow) /\ DOMAIN Rows = 1..Len(Rows) /\ Len(Rows) \in Nat
    BY RowsAreJobs DEF IInv
  <2>2. \A i \in DOMAIN Rows : Rows[i] \in JobRow
    BY <2>1
  <2> QED
    BY <2>1, <2>2 DEF JobRow
<1>2. CASE SelectDue
  <2>1. PICK i \in Eligible(Rows, due) : job' = i /\ \A j \in Eligible(Rows, due) : i <= j
    BY <1>2 DEF SelectDue
  <2>2. \A j \in DOMAIN Rows : Rows[j].attempts = 0 => j \in Eligible(Rows, due)
    BY DispatcherAssumption DEF OrderInv, Eligible
  <2>3. Rows' = Rows
    BY <1>2 DEF SelectDue, Begin, Rows
  <2>4. i \in DOMAIN Rows
    BY <2>1 DEF Eligible
  <2> QED
    BY <1>1, <2>1, <2>2, <2>3, <2>4 DEF OrderInv
<1>3. CASE QueueCommit
  <2>1. Lengthens(Rows, Rows') /\ DOMAIN Rows \subseteq DOMAIN Rows'
    BY <1>3, CommitLengthens
  <2>2. ~(Transacting' /\ Worker \notin stale')
    BY <1>3, DispatcherAssumption
       DEF QueueCommit, Commit, OpenTxns, workerVars, Transacting, IInv, TxnInv
  <2> QED
    BY <2>1, <2>2 DEF OrderInv, Lengthens
<1>4. CASE WorkerStep /\ ~SelectDue
  <2>1. Transacting' /\ Worker \notin stale' =>
          Transacting /\ Worker \notin stale /\ job' = job /\ UNCHANGED db
    BY <1>4 DEF WorkerStep, Wake, EndBatch, ClaimUpdate, ClaimCommit, ClaimError, Unconfigured,
         SendAny, Send, RecordSent, RecordFailed, RecordError, Write, NextTurn, Sleep,
         Transacting, sqliteVars
  <2>2. CASE UNCHANGED Rows
    BY <2>1, <2>2 DEF OrderInv
  <2>3. CASE ~UNCHANGED Rows
    <3>1. /\ job \in DOMAIN Rows /\ DOMAIN Rows' = DOMAIN Rows
          /\ \A j \in DOMAIN Rows \ {job} : Rows'[j] = Rows[j]
          /\ ~Transacting' /\ Rows'[job].attempts > 0
      <4>1. PICK n \in Nat : n = Rows[job].attempts
        BY <2>3, <1>4, <1>1, WorkerRows
      <4>2. Holding => Rows[job].attempts > 0
        BY <4>1, <1>1 DEF Holding, IInv, HandInv, HeldIsInFlight, OrderInv
      <4> QED
        BY <1>4, <2>3, <4>1, <4>2, WorkerRows DEF ClaimCommit, Transacting, Holding
    <3> QED
      BY <3>1 DEF OrderInv
  <2> QED
    BY <2>2, <2>3
<1>5. CASE UNCHANGED <<db, stale, phase, job>>
  BY <1>5 DEF OrderInv, Transacting, Rows
<1>6. CASE QueueRollback
  <2>1. stale' = stale
    BY <1>6, DispatcherAssumption DEF QueueRollback, Rollback, IInv, TxnInv
  <2> QED
    BY <1>6, <2>1 DEF QueueRollback, Rollback, workerVars, OrderInv, Transacting, Rows
<1>7. CASE Crash
  BY <1>7 DEF Crash, LoseConnections, Sleep, OrderInv, Transacting, Rows
<1>8. \/ WorkerStep \/ QueueCommit \/ QueueRollback \/ Crash
      \/ UNCHANGED <<db, stale, phase, job>>
  BY DEF Next, QueueBegin, QueueJob, Elapse, Write, vars, sqliteVars, workerVars
<1> QED
  BY <1>2, <1>3, <1>4, <1>5, <1>6, <1>7, <1>8

(* A row attempted for the first time has no row before it that still      *)
(* waits for its first attempt.                                            *)
FirstInOrder ==
  \A i, j \in DOMAIN Rows :
    i < j /\ Rows[j].attempts = 0 /\ Rows'[j].attempts > 0 => Rows[i].attempts > 0

(* The order holds in every state of the worker. *)
THEOREM Order == Spec => [](IInv /\ OrderInv)
<1>1. Init => OrderInv
  BY DEF Init, SqliteInit, WorkerInit, OrderInv, Transacting, Rows
<1>2. IInv /\ IInv' /\ OrderInv /\ [Next]_vars => OrderInv'
  BY NextKeepsOrder
<1> QED
  BY <1>1, <1>2, Invariance, PTL DEF Spec

(* Whatever is claimed, retried or appended: first attempts are made in    *)
(* the order of the queue.                                                 *)
THEOREM FirstsInOrder == Spec => [][FirstInOrder]_vars
<1>1. IInv /\ OrderInv /\ [Next]_vars => [FirstInOrder]_vars
  <2> SUFFICES ASSUME IInv, OrderInv, [Next]_vars, NEW i \in DOMAIN Rows, NEW j \in DOMAIN Rows,
                      i < j, Rows[j].attempts = 0, Rows'[j].attempts > 0
               PROVE  Rows[i].attempts > 0
    BY DEF FirstInOrder
  <2>1. Rows'[j] # Rows[j]
    OBVIOUS
  <2>2. ~QueueCommit
    BY <2>1, CommitLengthens DEF Lengthens
  <2>3. WorkerStep \/ QueueCommit \/ UNCHANGED db
    BY DEF Next, QueueBegin, QueueJob, QueueRollback, Rollback, Crash, LoseConnections, Elapse,
           Write, vars, sqliteVars
  <2>4. WorkerStep
    BY <2>1, <2>2, <2>3 DEF Rows
  <2>5. j = job /\ ClaimCommit
    BY <2>1, <2>4, WorkerRows
  <2>6. Transacting /\ Worker \notin stale
    BY <2>5 DEF ClaimCommit, Transacting, IInv, TxnInv
  <2> QED
    BY <2>5, <2>6 DEF OrderInv
<1> QED
  BY <1>1, Order, PTL DEF Spec

(* A message reaches its channel only if it was sent: with SendsAreCounted,*)
(* no job is delivered more than MaxAttempts times.                        *)
DeliveredInv == \A i \in JobIds : delivered[i] <= sends[i]

(* Every step preserves it. *)
LEMMA NextKeepsDelivered == IInv /\ DeliveredInv /\ [Next]_vars => DeliveredInv'
<1> SUFFICES ASSUME IInv, DeliveredInv, [Next]_vars PROVE DeliveredInv'
  OBVIOUS
<1>1. sends \in [JobIds -> Nat] /\ delivered \in [JobIds -> Nat]
  BY DEF IInv, TypeOK
<1>2. CASE SendAny
  <2>1. /\ sends' = [sends EXCEPT ![job] = @ + 1]
        /\ delivered' = delivered \/ delivered' = [delivered EXCEPT ![job] = @ + 1]
    BY <1>2 DEF SendAny, Send
  <2> QED
    BY <1>1, <2>1 DEF DeliveredInv
<1>3. CASE UNCHANGED <<sends, delivered>>
  BY <1>3 DEF DeliveredInv
<1>4. SendAny \/ UNCHANGED <<sends, delivered>>
  BY DEF Next, WorkerStep, Wake, EndBatch, SelectDue, ClaimUpdate, ClaimCommit, ClaimError,
         Unconfigured, RecordSent, RecordFailed, RecordError, QueueBegin, QueueJob, QueueCommit,
         QueueRollback, Elapse, Crash, vars, historyVars
<1> QED
  BY <1>2, <1>3, <1>4

THEOREM DeliveriesWereSent == Spec => []DeliveredInv
<1>1. Init => DeliveredInv
  BY DEF Init, WorkerInit, DeliveredInv
<1> QED
  BY <1>1, NextKeepsDelivered, Invariance, PTL DEF Spec
=============================================================================
