---------------------------- MODULE BeaconServer ----------------------------
(***************************************************************************)
(* The server process: the requests that take events in (Intake) and the   *)
(* worker that delivers their notifications (Dispatcher) on one database.  *)
(* Their transactions meet at the write lock, the commit of one outdates   *)
(* the snapshot of the other, and the process dies with all of them at     *)
(* once.  Every action is one of the two modules'; what stands for the     *)
(* requests in Dispatcher is not used.                                     *)
(***************************************************************************)
EXTENDS Intake

CONSTANTS
  Worker,        \* the connection of the notification worker
  Configured, MaxAttempts, Limit, RetryDelays, MaxJobs, MaxCrashes   \* see Dispatcher

VARIABLES phase, job, outcome, budget, due, elapsed, crashes, sends, delivered, doubts

(* The one connection that stands for the requests in Dispatcher. *)
Desk == CHOOSE t \in Tasks : TRUE

D == INSTANCE Dispatcher WITH Server <- Desk, Headlines <- AlertStatuses

workerVars == <<phase, job, outcome, budget, due, elapsed, crashes, sends, delivered, doubts>>
serverVars == <<vars, workerVars>>

(* The worker's connection is its own, and no job is ever one too many. *)
ASSUME WorkerAssumption ==
  /\ Tasks # {} /\ Worker \in Connections \ Tasks
  /\ Configured \subseteq Channels
  /\ MaxAttempts \in Nat \ {0} /\ Limit \in Nat \ {0} /\ RetryDelays \subseteq Nat
  /\ MaxCrashes \in Nat /\ MaxJobs \in Nat
  /\ IsFiniteSet(EventIds \X Channels) /\ Cardinality(EventIds \X Channels) <= MaxJobs

ASSUME NoQueueAssumption == NoTxn \notin D!Queue

ServerInit == Init /\ D!WorkerInit

(* Requests run on threads of their own, beside the worker's. *)
Request ==
  /\ \/ \E t \in Tasks : Handle(t)
     \/ \E t \in Tasks, e \in Events : Receive(t, e)
  /\ UNCHANGED workerVars

Work ==
  /\ D!WorkerStep \/ \E i \in D!JobIds : D!Elapse(i)
  /\ UNCHANGED <<taskVars, acked>>

(* The death of the process ends the requests, the worker's batch and every*)
(* transaction in one step.                                                *)
ServerCrash == Crash /\ D!Crash

ServerNext == Request \/ Work \/ ServerCrash

ServerSpec == ServerInit /\ [][ServerNext]_serverVars

-----------------------------------------------------------------------------
(* Properties *)

Rows == db.notifications

RowOf(id, c) == {i \in DOMAIN Rows : Rows[i].event_id = id /\ Rows[i].channel = c}

(* Seen from outside, the queue, the claims, the retries and the crashes   *)
(* never show: messages are about accepted events that call for one, on    *)
(* the channels the policy picks, and none arrives more than MaxAttempts   *)
(* times.                                                                  *)
Service ==
  INSTANCE AlertService WITH
    log <- db.events,
    told <- [m \in EventIds \X Channels |->
               IF RowOf(m[1], m[2]) = {} THEN 0
               ELSE delivered[CHOOSE i \in RowOf(m[1], m[2]) : TRUE]]

ImplementsService == Service!ServiceSpec

(* What an agent was told is accepted will be told to people: it is stored *)
(* and its jobs are in the committed queue, one per channel it calls for;  *)
(* no claim or record of the worker, made on a snapshot of its own, takes  *)
(* a job out again.                                                        *)
AckedIsQueued ==
  \A e \in acked : \E i \in DOMAIN db.events :
    /\ db.events[i] = e
    /\ \A m \in JobsOf(db.events, i) : Cardinality(RowOf(m[1], m[2])) = 1

(* Jobs are claimed for the first time in the order in which their events  *)
(* were accepted, so that "resolved" is not told before an attempt at      *)
(* "firing" was committed.  (If the process dies between that claim and    *)
(* its send, the later message may still be the first to leave.)           *)
FirstAttemptsInOrder ==
  [][\A i, j \in DOMAIN Rows :
       i < j /\ Rows[j].attempts = 0 /\ Rows'[j].attempts > 0 => Rows[i].attempts > 0]_serverVars
=============================================================================
