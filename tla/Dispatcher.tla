----------------------------- MODULE Dispatcher -----------------------------
(***************************************************************************)
(* The notification worker: spawn_notification_worker and the claim and    *)
(* record statements of src/src/server.rs, NotificationDispatcher and the  *)
(* Telegram channel of src/src/notification.rs.                            *)
(*                                                                         *)
(* One thread wakes up, reads the clock once, and works through at most    *)
(* Limit jobs: claim a due one in a transaction, send it, record what      *)
(* happened.  Any error of the store ends the batch and leaves the job as  *)
(* it is.  Events that arrive meanwhile take the write lock and append     *)
(* jobs (the module Intake has their detail).  The process may die between *)
(* any two steps.                                                          *)
(*                                                                         *)
(* Time is kept as the set of rows whose deadline has passed, which is     *)
(* next_attempt_at for a failed row and claimed_at plus five minutes for   *)
(* one in flight: elapsed by the real clock, due by the clock as the       *)
(* current batch read it.                                                  *)
(***************************************************************************)
EXTENDS Notifications, Sqlite

CONSTANTS
  Worker,        \* the connection of the notification worker
  Server,        \* the connection of the requests that queue jobs
  Configured,    \* the channels the dispatcher can send to
  MaxAttempts,   \* --notify-max-attempts
  Limit,         \* --notify-limit
  RetryDelays,   \* the values of --notify-retry-delay-seconds to look at
  Headlines,     \* the headlines of jobs to look at
  MaxJobs,       \* bound: jobs ever queued
  MaxCrashes     \* bound: deaths of the process

VARIABLES
  phase,       \* where the worker is
  job,         \* the row it works on, 0 for none
  outcome,     \* what sending that row gave
  budget,      \* how many more claims the batch may make
  due,         \* the rows whose deadline had passed when the batch began
  elapsed,     \* the rows whose deadline has passed
  crashes,     \* deaths so far
  sends,       \* history: calls of send per row
  delivered,   \* history: messages per row that reached the channel's users
  doubts       \* history: deliveries per row that the store never learned of

workerVars == <<phase, job, outcome, budget>>
historyVars == <<sends, delivered, doubts>>
vars == <<sqliteVars, workerVars, due, elapsed, crashes, historyVars>>

ASSUME DispatcherAssumption ==
  /\ {Worker, Server} \subseteq Connections /\ Worker # Server
  /\ Configured \subseteq Channels
  /\ MaxAttempts \in Nat \ {0}
  /\ Limit \in Nat \ {0}
  /\ RetryDelays \subseteq Nat /\ Headlines \subseteq AlertStatuses
  /\ MaxJobs \in Nat /\ MaxCrashes \in Nat

JobIds == 1..MaxJobs
Rows == db.notifications
Queue == [notifications : Seq(JobRow)]

ASSUME NoQueueAssumption == NoTxn \notin Queue

WorkerPhases == {"sleeping", "claiming", "selected", "updated", "claimed", "recording"}
SendOutcomes == {"none", "ok", "temporary", "permanent"}

TypeOK ==
  /\ db \in Queue
  /\ view \in [Connections -> Queue \cup {NoTxn}]
  /\ stale \subseteq Connections
  /\ writer \in Connections \cup {NoConn}
  /\ phase \in WorkerPhases
  /\ job \in JobIds \cup {0}
  /\ outcome \in SendOutcomes
  /\ budget \in 0..Limit
  /\ due \subseteq JobIds /\ elapsed \subseteq JobIds
  /\ crashes \in 0..MaxCrashes
  /\ sends \in [JobIds -> Nat]
  /\ delivered \in [JobIds -> Nat]
  /\ doubts \in [JobIds -> Nat]

WorkerInit ==
  /\ phase = "sleeping" /\ job = 0 /\ outcome = "none" /\ budget = 0
  /\ due = {} /\ elapsed = {}
  /\ crashes = 0
  /\ sends = [i \in JobIds |-> 0]
  /\ delivered = [i \in JobIds |-> 0]
  /\ doubts = [i \in JobIds |-> 0]

Init == SqliteInit([notifications |-> <<>>]) /\ WorkerInit

-----------------------------------------------------------------------------
(* The requests around the worker *)

(* A request writes its event, and so takes the write lock; the rest of    *)
(* what it writes before the jobs does not matter here.                    *)
QueueBegin ==
  /\ view[Server] = NoTxn /\ writer = NoConn
  /\ view' = [view EXCEPT ![Server] = db]
  /\ writer' = Server
  /\ UNCHANGED <<db, stale, workerVars, due, elapsed, crashes, historyVars>>

(* One turn of its enqueue loop; it may have none, or several.             *)
QueueJob(e, c, headline) ==
  LET rows == view[Server].notifications
      more == InsertOrIgnore(rows, NewJob(e, [status |-> headline], c))
  IN  /\ writer = Server
      /\ Len(more) <= MaxJobs
      /\ Write(Server, [view[Server] EXCEPT !.notifications = more])
      /\ UNCHANGED <<workerVars, due, elapsed, crashes, historyVars>>

QueueCommit ==
  /\ Commit(Server)
  /\ UNCHANGED <<workerVars, due, elapsed, crashes, historyVars>>

QueueRollback ==
  /\ writer = Server
  /\ Rollback(Server)
  /\ UNCHANGED <<workerVars, due, elapsed, crashes, historyVars>>

(* A deadline passes. *)
Elapse(i) ==
  /\ i \in DOMAIN Rows \ elapsed
  /\ Rows[i].status \in {"failed", "in_flight"}
  /\ elapsed' = elapsed \cup {i}
  /\ UNCHANGED <<sqliteVars, workerVars, due, crashes, historyVars>>

-----------------------------------------------------------------------------
(* The worker *)

(* The end of a batch, and of the connection it may have open. *)
Sleep ==
  /\ phase' = "sleeping" /\ job' = 0 /\ outcome' = "none" /\ budget' = 0 /\ due' = {}

(* The sleep is over; deliver_due reads the clock for the whole batch. *)
Wake ==
  /\ phase = "sleeping"
  /\ phase' = "claiming"
  /\ budget' = Limit
  /\ due' = elapsed
  /\ UNCHANGED <<sqliteVars, job, outcome, elapsed, crashes, historyVars>>

(* Mutants of the WHERE clause: a permanent failure is tried again; a sent *)
(* row counts as one left in flight; rows left in flight are forgotten.    *)
EligibleForEver(rows, passed) ==
  {i \in DOMAIN rows :
     /\ rows[i].attempts < MaxAttempts
     /\ rows[i].status = "pending" \/ (rows[i].status \in {"failed", "in_flight"} /\ i \in passed)}

EligibleThoughSent(rows, passed) ==
  {i \in DOMAIN rows :
     /\ rows[i].attempts < MaxAttempts
     /\ \/ rows[i].status = "pending"
        \/ rows[i].status = "failed" /\ rows[i].retryable /\ i \in passed
        \/ rows[i].status \in {"in_flight", "sent"} /\ i \in passed}

EligibleUnlessInFlight(rows, passed) ==
  {i \in DOMAIN rows :
     /\ rows[i].attempts < MaxAttempts
     /\ rows[i].status = "pending" \/ (rows[i].status = "failed" /\ rows[i].retryable /\ i \in passed)}

(* The rows the SELECT of claim_notification matches. *)
Eligible(rows, passed) ==
  {i \in DOMAIN rows :
     /\ rows[i].attempts < MaxAttempts
     /\ \/ rows[i].status = "pending"
        \/ rows[i].status = "failed" /\ rows[i].retryable /\ i \in passed
        \/ rows[i].status = "in_flight" /\ i \in passed}

EndBatch ==
  /\ phase = "claiming"
  /\ budget = 0 \/ Eligible(Rows, due) = {}
  /\ Sleep
  /\ UNCHANGED <<sqliteVars, elapsed, crashes, historyVars>>

(* Mutant: the batch is not limited. *)
SelectUnlimited ==
  /\ phase = "claiming"
  /\ \E i \in Eligible(Rows, due) :
       /\ \A j \in Eligible(Rows, due) : i <= j
       /\ job' = i
  /\ Begin(Worker)
  /\ phase' = "selected"
  /\ UNCHANGED <<outcome, budget, due, elapsed, crashes, historyVars>>

(* Mutant: the SELECT has no ORDER BY. *)
SelectAny ==
  /\ phase = "claiming" /\ budget > 0
  /\ \E i \in Eligible(Rows, due) : job' = i
  /\ Begin(Worker)
  /\ phase' = "selected"
  /\ UNCHANGED <<outcome, budget, due, elapsed, crashes, historyVars>>

SelectDue ==
  /\ phase = "claiming" /\ budget > 0
  /\ \E i \in Eligible(Rows, due) :
       /\ \A j \in Eligible(Rows, due) : i <= j
       /\ job' = i
  /\ Begin(Worker)
  /\ phase' = "selected"
  /\ UNCHANGED <<outcome, budget, due, elapsed, crashes, historyVars>>

ClaimUpdate ==
  /\ phase = "selected"
  /\ Write(Worker, [view[Worker] EXCEPT !.notifications = Claim(@, job)])
  /\ phase' = "updated"
  /\ UNCHANGED <<job, outcome, budget, due, elapsed, crashes, historyVars>>

(* Mutant: the claim is not committed. *)
ClaimForgotten ==
  /\ phase = "updated"
  /\ Rollback(Worker)
  /\ phase' = "claimed"
  /\ due' = due \ {job} /\ elapsed' = elapsed \ {job}
  /\ UNCHANGED <<job, outcome, budget, crashes, historyVars>>

ClaimCommit ==
  /\ phase = "updated"
  /\ Commit(Worker)
  /\ phase' = "claimed"
  /\ due' = due \ {job} /\ elapsed' = elapsed \ {job}
  /\ UNCHANGED <<job, outcome, budget, crashes, historyVars>>

(* The upgrade is refused, or a statement fails: the batch is over. *)
ClaimError ==
  /\ phase \in {"selected", "updated"}
  /\ Rollback(Worker)
  /\ Sleep
  /\ UNCHANGED <<elapsed, crashes, historyVars>>

(* No channel of that name: nothing is sent. *)
Unconfigured ==
  /\ phase = "claimed"
  /\ Rows[job].channel \notin Configured
  /\ phase' = "recording" /\ outcome' = "permanent"
  /\ UNCHANGED <<sqliteVars, job, budget, due, elapsed, crashes, historyVars>>

(* One call of send, its outcome, and whether the message got there: 2xx;  *)
(* 429, 5xx or no connection; another status; and a transport error after  *)
(* the message did get there, which looks like no connection.              *)
Send(result, arrives) ==
  /\ phase = "claimed"
  /\ Rows[job].channel \in Configured
  /\ phase' = "recording" /\ outcome' = result
  /\ sends' = [sends EXCEPT ![job] = @ + 1]
  /\ delivered' = IF arrives THEN [delivered EXCEPT ![job] = @ + 1] ELSE delivered
  /\ doubts' = IF arrives /\ result # "ok" THEN [doubts EXCEPT ![job] = @ + 1] ELSE doubts
  /\ UNCHANGED <<sqliteVars, job, budget, due, elapsed, crashes>>

SendAny ==
  \/ Send("ok", TRUE) \/ Send("temporary", FALSE)
  \/ Send("temporary", TRUE) \/ Send("permanent", FALSE)

(* The batch goes on with its next turn. *)
NextTurn ==
  /\ phase' = "claiming" /\ job' = 0 /\ outcome' = "none"
  /\ budget' = budget - 1

(* Mutant: any answer of the channel counts as sent. *)
RecordAlwaysSent ==
  /\ phase = "recording"
  /\ Autocommit([db EXCEPT !.notifications = Complete(@, job)])
  /\ NextTurn
  /\ UNCHANGED <<due, elapsed, crashes, historyVars>>

(* complete_notification *)
RecordSent ==
  /\ phase = "recording" /\ outcome = "ok"
  /\ Autocommit([db EXCEPT !.notifications = Complete(@, job)])
  /\ NextTurn
  /\ UNCHANGED <<due, elapsed, crashes, historyVars>>

(* fail_notification.  With no delay the next attempt is due at once, in   *)
(* this very batch.                                                        *)
RecordFailed ==
  /\ phase = "recording" /\ outcome \in {"temporary", "permanent"}
  /\ Autocommit([db EXCEPT !.notifications = Fail(@, job, outcome = "temporary")])
  /\ NextTurn
  /\ \E delay \in RetryDelays :
       LET passed(S) == IF delay = 0 THEN S \cup {job} ELSE S \ {job}
       IN  due' = passed(due) /\ elapsed' = passed(elapsed)
  /\ UNCHANGED <<crashes, historyVars>>

(* A delivery that ends here unrecorded. *)
Doubt ==
  doubts' = IF phase = "recording" /\ outcome = "ok"
            THEN [doubts EXCEPT ![job] = @ + 1] ELSE doubts

(* The UPDATE fails or waits too long for the writer: the batch is over    *)
(* and the row stays in flight.                                            *)
RecordError ==
  /\ phase = "recording"
  /\ Sleep
  /\ Doubt
  /\ UNCHANGED <<sqliteVars, elapsed, crashes, sends, delivered>>

-----------------------------------------------------------------------------
(* The process dies and starts again. *)
Crash ==
  /\ crashes < MaxCrashes
  /\ crashes' = crashes + 1
  /\ LoseConnections
  /\ Sleep
  /\ Doubt
  /\ UNCHANGED <<elapsed, sends, delivered>>

WorkerStep ==
  \/ Wake \/ EndBatch \/ SelectDue \/ ClaimUpdate \/ ClaimCommit \/ ClaimError
  \/ Unconfigured \/ SendAny \/ RecordSent \/ RecordFailed \/ RecordError

Next ==
  \/ WorkerStep
  \/ QueueBegin
  \/ \E e \in Events, c \in Channels, headline \in Headlines : QueueJob(e, c, headline)
  \/ QueueCommit \/ QueueRollback
  \/ \E i \in JobIds : Elapse(i)
  \/ Crash

Spec == Init /\ [][Next]_vars

(* Requests may never stop, but they leave gaps: a worker that selects     *)
(* again and again finds, again and again, the write lock free before      *)
(* anything was committed after its SELECT.  Requests that always hold the *)
(* lock when it wants to write would starve it for ever.                   *)
Gaps ==
  []<><<SelectDue>>_vars => []<>(phase = "selected" /\ MayWrite(Worker))

(* The worker thread runs, and clocks advance.  A request ends soon.  A    *)
(* claim that may be written again and again is written, and committed: no *)
(* statement fails for ever.                                               *)
Fairness ==
  /\ WF_vars(WorkerStep)
  /\ SF_vars(ClaimUpdate) /\ SF_vars(ClaimCommit) /\ Gaps
  /\ WF_vars(QueueCommit \/ QueueRollback)
  /\ \A i \in JobIds : WF_vars(Elapse(i))

FairSpec == Spec /\ Fairness

-----------------------------------------------------------------------------
(* Properties *)

(* A message is only ever sent for an attempt already on disk, and the     *)
(* attempts never pass the limit: no crash, failed statement or lost       *)
(* outcome makes the worker send a job more than MaxAttempts times.        *)
SendsAreCounted ==
  \A i \in JobIds :
    IF i \in DOMAIN Rows
    THEN sends[i] <= Rows[i].attempts /\ Rows[i].attempts <= MaxAttempts
    ELSE sends[i] = 0

(* A row says "sent" only if its message was delivered. *)
SentWasDelivered ==
  \A i \in DOMAIN Rows : Rows[i].status = "sent" => delivered[i] > 0

(* Every delivery beyond a job's first follows one the store never learned *)
(* of; on a row that says "sent", exactly one delivery was recorded.       *)
DuplicatesExplained ==
  \A i \in JobIds :
    delivered[i] = doubts[i] +
      (IF \/ i \in DOMAIN Rows /\ Rows[i].status = "sent"
          \/ i = job /\ phase = "recording" /\ outcome = "ok" THEN 1 ELSE 0)

(* The row the worker has in hand is in flight, so that recording its      *)
(* outcome, which asks for that, never quietly changes nothing.            *)
HeldIsInFlight ==
  phase \in {"claimed", "recording"} => Rows[job].status = "in_flight"

Final(row) ==
  \/ row.status = "sent"
  \/ row.status = "failed" /\ (~row.retryable \/ row.attempts = MaxAttempts)

(* What was sent, refused for good or given up stays so, and no message of *)
(* it leaves the process again.                                            *)
FinalStaysFinal ==
  [][\A i \in DOMAIN Rows :
       Final(Rows[i]) => Rows'[i] = Rows[i] /\ sends'[i] = sends[i]]_vars

(* Nothing can happen to the row any more: it is final, or it was left in  *)
(* flight on its last attempt, which no claim will ever look at again.     *)
Settled(i) ==
  i \in DOMAIN Rows /\
    (Final(Rows[i]) \/ (Rows[i].status = "in_flight" /\ Rows[i].attempts = MaxAttempts))

(* Every queued job settles for good: the oldest due job is served first,  *)
(* a batch is bounded and a failing job comes back, but none of them keeps *)
(* another waiting for ever.                                               *)
EveryJobSettles == \A i \in JobIds : i \in DOMAIN Rows ~> []Settled(i)

-----------------------------------------------------------------------------
(* What the documentation says and the code does not do *)

(* docs/protocol.md:106: "stale `in_flight` jobs can be reclaimed after a  *)
(* process crash."  A row whose lease ran out does not stay that way.      *)
Abandoned(i) == i \in DOMAIN Rows /\ Rows[i].status = "in_flight" /\ i \in elapsed

StaleJobsReclaimed == \A i \in JobIds : Abandoned(i) ~> ~Abandoned(i)
=============================================================================
