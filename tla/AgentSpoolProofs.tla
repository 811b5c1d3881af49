-------------------------- MODULE AgentSpoolProofs --------------------------
(***************************************************************************)
(* Theorems about AgentSpool, for any number of events and drains, any     *)
(* --limit and --max-attempts, and any crashes, refusals and lost or late  *)
(* requests.                                                               *)
(***************************************************************************)
EXTENDS AgentSpool, NaturalOrder

-----------------------------------------------------------------------------
(* The order of the files *)

(* Of the files of a directory one sorts first. *)
LEMMA FirstFile ==
  ASSUME NEW S \in SUBSET Events, S # {}
  PROVE  \E e \in S : \A o \in S : Name[e] <= Name[o]
<1> DEFINE Names == {Name[e] : e \in S}
<1>1. Names \in SUBSET Nat /\ Names # {}
  BY SpoolAssumption
<1> HIDE DEF Names
<1>2. PICK x \in Names : \A y \in Names : x <= y
  BY <1>1, LeastNatural
<1> QED
  BY <1>2 DEF Names

(* The event whose turn it is, is one of the batch. *)
LEMMA CurrentIsInBatch ==
  ASSUME NEW d \in Drains, batch[d] \in SUBSET Events, batch[d] # {}
  PROVE  Current(d) \in batch[d]
<1>1. \E e \in batch[d] : \A o \in batch[d] : Name[e] <= Name[o]
  BY FirstFile
<1> QED
  BY <1>1, Zenon DEF Current

(* The first of a directory with files are some of its files. *)
LEMMA FirstNamesOfSome ==
  ASSUME NEW S \in SUBSET Events, S # {}
  PROVE  FirstNames(S) # {} /\ FirstNames(S) \subseteq S
<1>1. PICK e \in S : \A o \in S : Name[e] <= Name[o]
  BY FirstFile
<1>2. {o \in S : Name[o] < Name[e]} = {}
  BY <1>1, SpoolAssumption
<1>3. Cardinality({o \in S : Name[o] < Name[e]}) = 0
  BY <1>2, FS_EmptySet
<1>4. 0 < Limit
  BY SpoolAssumption
<1>5. e \in FirstNames(S)
  BY <1>3, <1>4 DEF FirstNames
<1> QED
  BY <1>5 DEF FirstNames

(* Whose turn it is depends on the batch alone. *)
LEMMA SameCurrent ==
  ASSUME NEW d, batch'[d] = batch[d]
  PROVE  Current(d)' = Current(d)
BY Zenon DEF Current

-----------------------------------------------------------------------------
(* The inductive invariant *)

Sending == {"opened", "writing", "synced", "renamed"}
Delivering == {"posting", "awaiting", "removing"}

(* The lock is held by the one process that is running. *)
LockInv ==
  /\ \A e \in Events : sending[e] \in Sending <=> lock = e
  /\ \A d \in Drains : draining[d] # "idle" <=> lock = d

(* What a send command has written so far, and what is left of it. *)
FileInv ==
  /\ \A e \in Events : /\ sending[e] = "synced" => temporary[e] = "whole"
                       /\ sending[e] = "renamed" => pending[e] = "whole"
  /\ QueuedIsKept /\ BatchIsOnDisk

(* A drain with events in hand delivers them; what it was told is true of  *)
(* the server.                                                             *)
DrainInv ==
  \A d \in Drains :
    /\ draining[d] \in Delivering <=> batch[d] # {}
    /\ call[d] # "none" => draining[d] = "awaiting"
    /\ call[d] = "positive" => InLog(Current(d))
    /\ draining[d] = "removing" => InLog(Current(d)) /\ Current(d) \in acked

IInv == TypeOK /\ LockInv /\ FileInv /\ DrainInv

(* The invariant holds of an empty spool that nobody has opened. *)
LEMMA InitIInv == Init => IInv
<1> SUFFICES ASSUME Init PROVE IInv
  OBVIOUS
<1>1. TypeOK
  BY SpoolAssumption DEF Init, TypeOK, FileStates, SendPhases, DrainPhases, Calls, Server!LedgerInit
<1>2. LockInv
  BY SpoolAssumption DEF Init, LockInv, Sending
<1>3. FileInv
  BY DEF Init, FileInv, QueuedIsKept, BatchIsOnDisk
<1>4. DrainInv
  BY DEF Init, DrainInv, Delivering
<1> QED
  BY <1>1, <1>2, <1>3, <1>4 DEF IInv

-----------------------------------------------------------------------------
(* The server's log *)

(* What the server takes, it has; and it had the rest before. *)
LEMMA Takes ==
  ASSUME log \in Seq(Events), NEW e \in Events, Take(e)
  PROVE  /\ log' \in Seq(Events) /\ UNCHANGED acked
         /\ InLog(e)'
         /\ \A o \in Events : InLog(o) => InLog(o)'
<1>1. CASE Server!Store(e)
  <2>1. log' = Append(log, e) /\ UNCHANGED acked
    BY <1>1 DEF Server!Store
  <2>2. log' \in Seq(Events) /\ Len(log') = Len(log) + 1
    BY <2>1
  <2>3. Len(log') \in DOMAIN log' /\ log'[Len(log')] = e
    BY <2>1
  <2>4. \A i \in DOMAIN log : i \in DOMAIN log' /\ log'[i] = log[i]
    BY <2>1
  <2> QED
    BY <2>1, <2>2, <2>3, <2>4 DEF InLog
<1>2. CASE (\E i \in DOMAIN log : log[i] = e) /\ UNCHANGED <<log, acked>>
  BY <1>2 DEF InLog
<1> QED
  BY <1>1, <1>2 DEF Take

(* A step that leaves the log leaves what is in it. *)
LEMMA SameLog ==
  ASSUME UNCHANGED log
  PROVE  \A o : InLog(o)' = InLog(o)
BY DEF InLog

-----------------------------------------------------------------------------
(* Every step keeps the invariant *)

(* A step that leaves the drains and the server leaves what relates them.  *)
LEMMA SameDrains ==
  ASSUME IInv, UNCHANGED drainVars, UNCHANGED <<log, acked>>
  PROVE  DrainInv'
<1>1. \A d \in Drains : Current(d)' = Current(d)
  BY Zenon DEF Current, drainVars
<1>2. \A o : InLog(o)' = InLog(o)
  BY SameLog
<1> QED
  BY <1>1, <1>2, Zenon DEF IInv, DrainInv, drainVars

(* A send adds its own file and touches no other one. *)
LEMMA SendKeepsIInv ==
  ASSUME IInv, NEW e \in Events, SendStep(e)
  PROVE  IInv'
<1>1. UNCHANGED drainVars /\ UNCHANGED <<ghosts, log, acked>>
  BY DEF SendStep, SendOpen, SendRefused, SendCreate, SendSync, SendRename, SendExit, SendFails,
         Phase
<1>2. DrainInv'
  BY <1>1, SameDrains
<1>3. \A o \in Events : InLog(o)' = InLog(o)
  BY <1>1, SameLog
<1>4. TypeOK'
  <2> USE <1>1, SpoolAssumption
      DEF IInv, TypeOK, Phase, SendPhases, FileStates, drainVars, spoolVars
  <2>1. CASE SendOpen(e)
    BY <2>1 DEF SendOpen
  <2>2. CASE SendRefused(e)
    BY <2>2 DEF SendRefused
  <2>3. CASE SendCreate(e)
    BY <2>3 DEF SendCreate
  <2>4. CASE SendSync(e)
    BY <2>4 DEF SendSync
  <2>5. CASE SendRename(e)
    BY <2>5 DEF SendRename
  <2>6. CASE SendExit(e)
    BY <2>6 DEF SendExit
  <2>7. CASE SendFails(e)
    BY <2>7 DEF SendFails
  <2> QED
    BY <2>1, <2>2, <2>3, <2>4, <2>5, <2>6, <2>7 DEF SendStep
<1>5. LockInv'
  <2> USE <1>1, SpoolAssumption
      DEF IInv, TypeOK, LockInv, Sending, Phase, drainVars, spoolVars
  <2>1. CASE SendOpen(e)
    BY <2>1 DEF SendOpen
  <2>2. CASE SendRefused(e)
    BY <2>2 DEF SendRefused
  <2>3. CASE SendCreate(e)
    BY <2>3 DEF SendCreate
  <2>4. CASE SendSync(e)
    BY <2>4 DEF SendSync
  <2>5. CASE SendRename(e)
    BY <2>5 DEF SendRename
  <2>6. CASE SendExit(e)
    BY <2>6 DEF SendExit
  <2>7. CASE SendFails(e)
    BY <2>7 DEF SendFails
  <2> QED
    BY <2>1, <2>2, <2>3, <2>4, <2>5, <2>6, <2>7 DEF SendStep
<1>6. FileInv'
  <2> USE <1>1, <1>3 DEF IInv, TypeOK, FileInv, QueuedIsKept, BatchIsOnDisk, Phase, drainVars,
                         spoolVars
  <2>1. CASE SendOpen(e)
    BY <2>1 DEF SendOpen
  <2>2. CASE SendRefused(e)
    BY <2>2 DEF SendRefused
  <2>3. CASE SendCreate(e)
    BY <2>3 DEF SendCreate
  <2>4. CASE SendSync(e)
    BY <2>4 DEF SendSync
  <2>5. CASE SendRename(e)
    BY <2>5 DEF SendRename
  <2>6. CASE SendExit(e)
    BY <2>6 DEF SendExit
  <2>7. CASE SendFails(e)
    BY <2>7 DEF SendFails
  <2> QED
    BY <2>1, <2>2, <2>3, <2>4, <2>5, <2>6, <2>7 DEF SendStep
<1> QED
  BY <1>2, <1>4, <1>5, <1>6 DEF IInv

(* The log grows and nothing moves on the host. *)
LEMMA GrowingLogKeepsIInv ==
  ASSUME IInv, UNCHANGED <<spoolVars, sending, draining, batch, attempt, acked>>,
         log' \in Seq(Events), \A o \in Events : InLog(o) => InLog(o)',
         ghosts' \subseteq ghosts, call' \in [Drains -> Calls],
         \A d \in Drains : call'[d] = call[d] \/ (call[d] = "sent" /\ call'[d] = "negative")
                             \/ (call[d] = "sent" /\ call'[d] = "positive" /\ InLog(Current(d))')
  PROVE  IInv'
<1>1. TypeOK' /\ LockInv'
  BY DEF IInv, TypeOK, LockInv, spoolVars
<1>2. FileInv'
  BY DEF IInv, FileInv, QueuedIsKept, BatchIsOnDisk, spoolVars
<1>3. \A d \in Drains : Current(d)' = Current(d)
  BY Zenon DEF Current
<1>4. \A d \in Drains : batch[d] # {} => Current(d) \in Events
  BY CurrentIsInBatch DEF IInv, TypeOK
<1>5. DrainInv'
  BY <1>3, <1>4 DEF IInv, DrainInv, Delivering
<1> QED
  BY <1>1, <1>2, <1>5 DEF IInv

(* An answer of the server is about the event that was posted. *)
LEMMA ServerKeepsIInv ==
  ASSUME IInv, NEW d \in Drains, ServerAccepts(d) \/ ServerRefuses(d)
  PROVE  IInv'
<1>1. call[d] = "sent" /\ Current(d) \in Events /\ Current(d)' = Current(d)
  <2>1. call[d] = "sent" /\ UNCHANGED batch
    BY DEF ServerAccepts, ServerRefuses
  <2>2. batch[d] \in SUBSET Events /\ batch[d] # {}
    BY <2>1 DEF IInv, TypeOK, DrainInv, Delivering
  <2> QED
    BY <2>1, <2>2, CurrentIsInBatch, SameCurrent
<1>2. CASE ServerAccepts(d)
  <2>1. Take(Current(d)) /\ call' = [call EXCEPT ![d] = "positive"]
        /\ UNCHANGED <<spoolVars, sending, draining, batch, attempt, ghosts>>
    BY <1>2 DEF ServerAccepts
  <2>2. /\ log' \in Seq(Events) /\ UNCHANGED acked
        /\ InLog(Current(d))'
        /\ \A o \in Events : InLog(o) => InLog(o)'
    <3> DEFINE e == Current(d)
    <3>1. e \in Events /\ Take(e) /\ e' = e
      BY <1>1, <2>1
    <3> HIDE DEF e
    <3>2. log' \in Seq(Events) /\ UNCHANGED acked
          /\ (\E i \in DOMAIN log' : log'[i] = e)
          /\ \A o \in Events : InLog(o) => InLog(o)'
      BY <3>1, Takes DEF IInv, TypeOK, InLog
    <3> QED
      BY <3>1, <3>2 DEF InLog, e
  <2>3. call' \in [Drains -> Calls]
    BY <2>1 DEF IInv, TypeOK, Calls
  <2> QED
    BY <1>1, <2>1, <2>2, <2>3, GrowingLogKeepsIInv DEF IInv, TypeOK
<1>3. CASE ServerRefuses(d)
  <2>1. \A o : InLog(o)' = InLog(o)
    BY <1>3, SameLog DEF ServerRefuses
  <2>2. call' \in [Drains -> Calls]
    BY <1>3 DEF ServerRefuses, IInv, TypeOK, Calls
  <2> QED
    BY <1>1, <1>3, <2>1, <2>2, GrowingLogKeepsIInv DEF ServerRefuses, IInv, TypeOK
<1> QED
  BY <1>2, <1>3

(* A request nobody waits for any more can only make the log longer. *)
LEMMA GhostKeepsIInv ==
  ASSUME IInv, NEW e \in Events, GhostArrives(e) \/ GhostLost(e)
  PROVE  IInv'
<1>1. CASE GhostArrives(e)
  <2>1. log' \in Seq(Events) /\ UNCHANGED acked /\ \A o \in Events : InLog(o) => InLog(o)'
    BY <1>1, Takes DEF GhostArrives, IInv, TypeOK
  <2> QED
    BY <1>1, <2>1, GrowingLogKeepsIInv DEF GhostArrives, drainVars, IInv, TypeOK
<1>2. CASE GhostLost(e)
  <2>1. \A o : InLog(o)' = InLog(o)
    BY <1>2, SameLog DEF GhostLost
  <2> QED
    BY <1>2, <2>1, GrowingLogKeepsIInv DEF GhostLost, drainVars, IInv, TypeOK
<1> QED
  BY <1>1, <1>2

(* Where a drain is after a step of its own: the others are where they     *)
(* were.                                                                   *)
LEMMA Moves ==
  ASSUME IInv, NEW d \in Drains, NEW phase \in DrainPhases, NEW events \in SUBSET Events,
         NEW n \in 0..MaxAttempts, NEW request \in Calls, Drained(d, phase, events, n, request)
  PROVE  /\ draining' \in [Drains -> DrainPhases] /\ batch' \in [Drains -> SUBSET Events]
         /\ attempt' \in [Drains -> 0..MaxAttempts] /\ call' \in [Drains -> Calls]
         /\ draining'[d] = phase /\ batch'[d] = events /\ call'[d] = request
         /\ \A k \in Drains \ {d} : /\ draining'[k] = draining[k] /\ batch'[k] = batch[k]
                                    /\ call'[k] = call[k]
BY DEF Drained, IInv, TypeOK

(* A drain's step on the spool: what is to be shown of it, on the host. *)
LEMMA DrainMovesKeepIInv ==
  ASSUME IInv, NEW d \in Drains, NEW phase \in DrainPhases, NEW events \in SUBSET Events,
         NEW n \in 0..MaxAttempts, NEW request \in Calls, Drained(d, phase, events, n, request),
         UNCHANGED <<temporary, sending, log>>,
         lock \in {d, Nobody}, lock' = IF phase = "idle" THEN Nobody ELSE d,
         acked' \in SUBSET Events, acked \subseteq acked', ghosts' \in SUBSET Events,
         pending' \in [Events -> FileStates],
         \A e \in Events : /\ pending'[e] \in {pending[e], "absent"}
                           /\ pending'[e] # pending[e] => InLog(e),
         \A e \in events : pending'[e] = "whole",
         phase \in Delivering <=> events # {},
         request # "none" => phase = "awaiting",
         request # "positive",
         phase = "removing" =>
           events = batch[d] /\ InLog(Current(d)) /\ Current(d) \in acked'
  PROVE  IInv'
<1>1. \A o : InLog(o)' = InLog(o)
  BY SameLog
<1>2. \A k \in Drains \ {d} : draining[k] = "idle" /\ batch[k] = {} /\ call[k] = "none"
  BY SpoolAssumption DEF IInv, LockInv, DrainInv, Delivering
<1>3. \A e \in Events : sending[e] \notin Sending
  BY SpoolAssumption DEF IInv, LockInv
<1> DEFINE Moved ==
         /\ draining' \in [Drains -> DrainPhases] /\ batch' \in [Drains -> SUBSET Events]
         /\ attempt' \in [Drains -> 0..MaxAttempts] /\ call' \in [Drains -> Calls]
         /\ draining'[d] = phase /\ batch'[d] = events /\ call'[d] = request
         /\ \A k \in Drains \ {d} : /\ draining'[k] = draining[k] /\ batch'[k] = batch[k]
                                    /\ call'[k] = call[k]
<1>4. Moved
  BY Moves
<1>5. TypeOK'
  <2>1. lock' \in Events \cup Drains \cup {Nobody}
    OBVIOUS
  <2>2. /\ temporary' \in [Events -> FileStates] /\ sending' \in [Events -> SendPhases]
        /\ log' \in Seq(Events)
    BY DEF IInv, TypeOK
  <2> QED
    BY <1>4, <2>1, <2>2 DEF TypeOK
<1>6. LockInv'
  BY <1>4, <1>2, <1>3, SpoolAssumption DEF LockInv
<1>7. FileInv'
  <2>1. \A e \in Events : sending[e] \notin {"synced", "renamed"}
    BY <1>3 DEF Sending
  <2>2. QueuedIsKept'
    BY <1>1 DEF IInv, FileInv, QueuedIsKept
  <2>3. BatchIsOnDisk'
    BY <1>4, <1>2 DEF IInv, FileInv, BatchIsOnDisk
  <2> QED
    BY <2>1, <2>2, <2>3 DEF FileInv
<1>8. DrainInv'
  <2>1. ASSUME NEW k \in Drains \ {d}
        PROVE  draining'[k] = "idle" /\ batch'[k] = {} /\ call'[k] = "none"
    BY <1>2, <2>1, <1>4
  <2>2. draining'[d] = phase /\ batch'[d] = events /\ call'[d] = request
    BY <1>4
  <2>3. phase = "removing" => InLog(Current(d))' /\ (Current(d) \in acked)'
    <3>1. SUFFICES ASSUME phase = "removing" PROVE InLog(Current(d))' /\ (Current(d) \in acked)'
      OBVIOUS
    <3>2. Current(d)' = Current(d)
      BY <2>2, <3>1, SameCurrent
    <3> QED
      BY <3>1, <3>2 DEF InLog
  <2> QED
    BY <2>1, <2>2, <2>3 DEF DrainInv, Delivering
<1> QED
  BY <1>5, <1>6, <1>7, <1>8 DEF IInv

(* What holds of the drain that holds the lock. *)
LEMMA RunningDrain ==
  ASSUME IInv, NEW d \in Drains, draining[d] # "idle"
  PROVE  /\ lock = d
         /\ batch[d] \in SUBSET Events /\ attempt[d] \in 0..MaxAttempts
         /\ \A e \in batch[d] : pending[e] = "whole"
         /\ draining[d] \in Delivering => batch[d] # {} /\ Current(d) \in batch[d]
         /\ call[d] # "none" => draining[d] \in Delivering
<1>1. /\ lock = d
      /\ batch[d] \in SUBSET Events /\ attempt[d] \in 0..MaxAttempts
      /\ \A e \in batch[d] : pending[e] = "whole"
      /\ draining[d] \in Delivering => batch[d] # {}
      /\ call[d] # "none" => draining[d] \in Delivering
  BY DEF IInv, TypeOK, LockInv, FileInv, BatchIsOnDisk, DrainInv, Delivering
<1> QED
  BY <1>1, CurrentIsInBatch

(* What a drain leaves behind on the network is one of its events. *)
LEMMA AbandonedIsAnEvent ==
  ASSUME IInv, NEW d \in Drains, Abandon(d)
  PROVE  ghosts' \in SUBSET Events
<1>1. call[d] = "sent" => Current(d) \in Events
  BY RunningDrain DEF IInv, DrainInv
<1> QED
  BY <1>1 DEF Abandon, IInv, TypeOK

(* A drain that ends, well or not, gives the lock back and has removed no  *)
(* file but that of a stored event.                                        *)
LEMMA DrainEndKeepsIInv ==
  ASSUME IInv, NEW d \in Drains, draining[d] # "idle", DrainEnd(d),
         UNCHANGED <<temporary, sending, log, acked>>,
         pending' \in [Events -> FileStates],
         \A e \in Events : /\ pending'[e] \in {pending[e], "absent"}
                           /\ pending'[e] # pending[e] => InLog(e)
  PROVE  IInv'
<1>1. "idle" \in DrainPhases /\ "none" \in Calls /\ 0 \in 0..MaxAttempts /\ {} \in SUBSET Events
  BY SpoolAssumption DEF DrainPhases, Calls
<1>2. lock = d /\ lock' = Nobody /\ Drained(d, "idle", {}, 0, "none") /\ ghosts' \in SUBSET Events
  BY RunningDrain, AbandonedIsAnEvent DEF DrainEnd
<1>3. acked' \in SUBSET Events /\ acked \subseteq acked'
  BY DEF IInv, TypeOK
<1> QED
  BY <1>1, <1>2, <1>3, DrainMovesKeepIInv DEF Delivering

(* Another attempt, or the end. *)
LEMMA RetryKeepsIInv ==
  ASSUME IInv, NEW d \in Drains, draining[d] = "awaiting", RetryOrEnd(d),
         UNCHANGED <<temporary, pending, sending, log, acked>>
  PROVE  IInv'
<1>1. pending' \in [Events -> FileStates] /\ acked' \in SUBSET Events /\ acked \subseteq acked'
  BY DEF IInv, TypeOK
<1>2. CASE DrainEnd(d)
  BY <1>1, <1>2, DrainEndKeepsIInv
<1>3. CASE /\ attempt[d] < MaxAttempts
           /\ Drained(d, "posting", batch[d], attempt[d] + 1, "none") /\ Abandon(d)
           /\ UNCHANGED lock
  <2>1. /\ lock = d /\ batch[d] \in SUBSET Events /\ batch[d] # {}
        /\ \A e \in batch[d] : pending[e] = "whole"
    BY RunningDrain DEF Delivering
  <2>2. attempt[d] + 1 \in 0..MaxAttempts
    BY <1>3, RunningDrain, SpoolAssumption
  <2>3. ghosts' \in SUBSET Events
    BY <1>3, AbandonedIsAnEvent
  <2>4. "posting" \in DrainPhases /\ "none" \in Calls
    BY DEF DrainPhases, Calls
  <2> QED
    BY <1>1, <1>3, <2>1, <2>2, <2>3, <2>4, DrainMovesKeepIInv DEF Delivering
<1> QED
  BY <1>2, <1>3 DEF RetryOrEnd

(* The steps of a drain, and its being killed. *)
LEMMA DrainKeepsIInv ==
  ASSUME IInv, NEW d \in Drains, DrainStep(d) \/ DrainCrash(d)
  PROVE  IInv'
<1> USE DEF spoolVars
<1>1. /\ pending \in [Events -> FileStates] /\ acked \in SUBSET Events /\ ghosts \in SUBSET Events
      /\ batch[d] \in SUBSET Events /\ attempt[d] \in 0..MaxAttempts
      /\ {} \in SUBSET Events /\ 0 \in 0..MaxAttempts /\ 1 \in 0..MaxAttempts
  BY SpoolAssumption DEF IInv, TypeOK
<1>2. {"listing", "posting", "awaiting", "removing"} \subseteq DrainPhases
      /\ {"none", "sent"} \subseteq Calls
  BY DEF DrainPhases, Calls
<1>3. CASE DrainOpen(d)
  BY <1>1, <1>2, <1>3, DrainMovesKeepIInv DEF DrainOpen, Delivering
<1>4. CASE DrainList(d)
  <2>1. CASE DrainEnd(d)
    BY <1>1, <1>4, <2>1, DrainEndKeepsIInv DEF DrainList
  <2>2. CASE /\ Listed # {} /\ \A e \in Listed : pending[e] = "whole"
             /\ Drained(d, "posting", FirstNames(Listed), 1, "none") /\ UNCHANGED <<lock, ghosts>>
    <3>1. Listed \in SUBSET Events
      BY DEF Listed
    <3>2. FirstNames(Listed) # {} /\ FirstNames(Listed) \subseteq Listed
      BY <2>2, <3>1, FirstNamesOfSome
    <3>3. lock = d
      BY <1>4, RunningDrain DEF DrainList
    <3> QED
      BY <1>1, <1>2, <1>4, <2>2, <3>1, <3>2, <3>3, DrainMovesKeepIInv DEF DrainList, Delivering
  <2> QED
    BY <1>4, <2>1, <2>2 DEF DrainList
<1>5. CASE DrainPost(d)
  BY <1>1, <1>2, <1>5, RunningDrain, DrainMovesKeepIInv DEF DrainPost, Delivering
<1>6. CASE DrainRejected(d)
  BY <1>6, RetryKeepsIInv DEF DrainRejected
<1>7. CASE DrainAcked(d)
  <2>1. /\ lock = d /\ \A e \in batch[d] : pending[e] = "whole"
        /\ batch[d] # {} /\ Current(d) \in Events
    BY <1>1, <1>7, RunningDrain DEF DrainAcked, Delivering
  <2>2. UNCHANGED log /\ acked' = acked \cup {Current(d)}
    BY <1>7, Zenon DEF DrainAcked, Server!Acknowledge
  <2>3. InLog(Current(d))
    BY <1>7 DEF DrainAcked, IInv, DrainInv
  <2> QED
    BY <1>1, <1>2, <1>7, <2>1, <2>2, <2>3, DrainMovesKeepIInv DEF DrainAcked, Delivering
<1>8. CASE DrainRemove(d)
  <2>1. /\ lock = d /\ \A e \in batch[d] : pending[e] = "whole"
        /\ Current(d) \in batch[d]
    BY <1>8, RunningDrain DEF DrainRemove, Delivering
  <2>2. InLog(Current(d))
    BY <1>8 DEF DrainRemove, IInv, DrainInv
  <2>3. /\ pending' \in [Events -> FileStates]
        /\ \A e \in Events : /\ pending'[e] \in {pending[e], "absent"}
                             /\ pending'[e] # pending[e] => InLog(e)
        /\ \A e \in batch[d] \ {Current(d)} : pending'[e] = "whole"
    <3> DEFINE c == Current(d)
    <3>1. pending' = [pending EXCEPT ![c] = "absent"] /\ c \in Events /\ InLog(c)
      BY <1>1, <1>8, <2>1, <2>2 DEF DrainRemove
    <3> HIDE DEF c
    <3>2. /\ pending' \in [Events -> FileStates]
          /\ \A e \in Events : e # c => pending'[e] = pending[e]
          /\ pending'[c] = "absent"
      BY <1>1, <3>1 DEF FileStates
    <3>3. c = Current(d)
      BY DEF c
    <3> QED
      BY <1>1, <2>1, <3>1, <3>2, <3>3
  <2>4. CASE DrainEnd(d)
    BY <1>8, <2>3, <2>4, DrainEndKeepsIInv DEF DrainRemove
  <2>5. CASE /\ batch[d] # {Current(d)}
             /\ Drained(d, "posting", batch[d] \ {Current(d)}, 1, "none")
             /\ UNCHANGED <<lock, ghosts>>
    <3>1. batch[d] \ {Current(d)} \in SUBSET Events /\ batch[d] \ {Current(d)} # {}
      BY <1>1, <2>1, <2>5
    <3> QED
      BY <1>1, <1>2, <1>8, <2>1, <2>3, <2>5, <3>1, DrainMovesKeepIInv DEF DrainRemove, Delivering
  <2> QED
    BY <1>8, <2>4, <2>5 DEF DrainRemove
<1>9. CASE DrainCrash(d)
  BY <1>1, <1>9, DrainEndKeepsIInv DEF DrainCrash
<1> QED
  BY <1>3, <1>4, <1>5, <1>6, <1>7, <1>8, <1>9 DEF DrainStep

(* Every step of a command, the network or the server preserves the        *)
(* invariant.                                                              *)
LEMMA NextKeepsIInv == IInv /\ [Next]_vars => IInv'
<1> SUFFICES ASSUME IInv, [Next]_vars PROVE IInv'
  OBVIOUS
<1>1. CASE Next
  BY <1>1, SendKeepsIInv, GhostKeepsIInv, ServerKeepsIInv, DrainKeepsIInv DEF Next
<1>2. CASE UNCHANGED vars
  <2>1. DrainInv'
    BY <1>2, SameDrains DEF vars
  <2>2. TypeOK' /\ LockInv'
    BY <1>2 DEF vars, spoolVars, drainVars, IInv, TypeOK, LockInv
  <2>3. FileInv'
    BY <1>2, SameLog DEF vars, spoolVars, drainVars, IInv, FileInv, QueuedIsKept, BatchIsOnDisk
  <2> QED
    BY <2>1, <2>2, <2>3 DEF IInv
<1> QED
  BY <1>1, <1>2

-----------------------------------------------------------------------------
(* The theorems *)

(* The lock, the files and the drains agree in every state (see IInv). *)
THEOREM Invariance == Spec => []IInv
<1> QED
  BY InitIInv, NextKeepsIInv, PTL DEF Spec

(* Every variable keeps its type. *)
THEOREM TypeCorrect == Spec => []TypeOK
<1>1. IInv => TypeOK
  BY DEF IInv
<1> QED
  BY <1>1, Invariance, PTL

(* An event that `beacon-agent send` reported as queued is on disk until   *)
(* the server has it.                                                      *)
THEOREM Kept == Spec => []QueuedIsKept
<1>1. IInv => QueuedIsKept
  BY DEF IInv, FileInv
<1> QED
  BY <1>1, Invariance, PTL

(* No file a drain lists is half written, and none of those it has yet to  *)
(* deliver is gone.                                                        *)
THEOREM Snapshots == Spec => []BatchIsOnDisk
<1>1. IInv => BatchIsOnDisk
  BY DEF IInv, FileInv
<1> QED
  BY <1>1, Invariance, PTL

(* A file is removed only after the server told the agent that it has its  *)
(* event.                                                                  *)
THEOREM Removals == Spec => RemovedOnlyStored
<1>1. ASSUME IInv, Next, NEW e \in Events, pending[e] # "absent", pending'[e] = "absent"
      PROVE  InLog(e) /\ e \in acked
  <2>1. PICK d \in Drains : DrainRemove(d)
    <3>1. CASE \E o \in Events : SendRename(o)
      <4>1. PICK o \in Events : SendRename(o)
        BY <3>1
      <4>2. temporary[o] = "whole"
        BY <1>1, <4>1 DEF SendRename, Phase, IInv, FileInv
      <4> QED
        BY <1>1, <4>1, <4>2 DEF SendRename, IInv, TypeOK
    <3>2. CASE UNCHANGED pending
      BY <1>1, <3>2
    <3>3. \/ \E o \in Events : SendRename(o)
          \/ UNCHANGED pending
          \/ \E d \in Drains : DrainRemove(d)
      BY <1>1 DEF Next, SendStep, SendOpen, SendRefused, SendCreate, SendSync, SendExit, SendFails,
                  DrainStep, DrainOpen, DrainList, DrainPost, DrainRejected, DrainAcked, DrainCrash,
                  ServerAccepts, ServerRefuses, GhostArrives, GhostLost, spoolVars
    <3> QED
      BY <3>1, <3>2, <3>3
  <2>2. InLog(Current(d)) /\ Current(d) \in acked
    BY <1>1, <2>1 DEF DrainRemove, IInv, DrainInv
  <2>3. e = Current(d)
    BY <1>1, <2>1 DEF DrainRemove, IInv, TypeOK
  <2> QED
    BY <2>2, <2>3
<1>2. IInv /\ [Next]_vars =>
        [\A e \in Events :
           pending[e] # "absent" /\ pending'[e] = "absent" => InLog(e) /\ e \in acked]_vars
  BY <1>1
<1> QED
  BY <1>2, Invariance, PTL DEF Spec, RemovedOnlyStored
=============================================================================
