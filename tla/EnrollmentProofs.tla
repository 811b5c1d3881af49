-------------------------- MODULE EnrollmentProofs --------------------------
(***************************************************************************)
(* Theorems about Enrollment, for any number of codes, names, sessions and *)
(* scans, and any failures, crashes and removals.                          *)
(***************************************************************************)
EXTENDS Enrollment, TLAPS

(* A handler that has written to the database. *)
Writing == Transacting \ {"selected"}

(* A handler whose credential file is, or was, in the directory. *)
Linked == {"linked", "unlinked", "granted", "denied", "over"}

(* Who may have a transaction open, and who may write. *)
TxnInv ==
  /\ \A c \in Connections \ Sessions : view[c] = NoTxn
  /\ writer # NoConn => writer \in Sessions /\ handler[writer] \in Writing
  /\ \A s \in Sessions : handler[s] \in Writing => writer = s
  /\ \A c \in stale : c \in Sessions /\ handler[c] = "selected"

(* A session has an agent and a request from the same moment on. *)
AskInv ==
  \A s \in Sessions :
    /\ agent[s] = "idle" <=> handler[s] = "idle"
    /\ handler[s] # "idle" => ask[s] \in Asks

(* The code of a transaction that can still commit is there and unused,    *)
(* and its commit will change nothing else.                                *)
Unused(c) == db.enrollments[c] # NoRow /\ ~db.enrollments[c].consumed

ViewInv ==
  \A s \in Sessions :
    /\ handler[s] = "selected" /\ s \notin stale => view[s] = db /\ Unused(ask[s].code)
    /\ handler[s] \in Writing => view[s] = ConsumedIn(db, s) /\ Unused(ask[s].code)

(* A code has a row from its creation on. *)
CodeInv == \A c \in Codes : creating[c] # "created" => db.enrollments[c] = NoRow

(* A credential file is under the name its session asked for. *)
FileInv ==
  /\ \A n \in Names : installed[n] # NoToken =>
       ask[installed[n]].name = n /\ handler[installed[n]] \in Linked
  /\ \A s \in Sessions :
       /\ handler[s] \in {"linked", "unlinked"} => Kept(s)
       /\ handler[s] = "unlinked" => temporary[s] = "absent"

(* What a handler had to answer is final. *)
GrantInv ==
  /\ \A s \in granted :
       /\ handler[s] \in {"granted", "over"} /\ temporary[s] = "absent"
       /\ db.enrollments[ask[s].code] # NoRow
  /\ \A s \in Sessions : handler[s] = "granted" \/ agent[s] = "received" => s \in granted
  /\ GrantedOnce /\ GrantedWorks /\ ConsumedIsInstalled

(* A scan has found nothing that was not a credential when it began, and a *)
(* credential that is still there has been found or will be read.          *)
ScanOK(k) ==
  LET r == scan[k]
  IN  /\ r.phase # "idle" => r.token \in granted
      /\ r.phase # "done" => r.answer = "none"
      /\ r.phase = "reading" /\ ~r.live => ~r.matched /\ ~IsLive(r.token)
      /\ r.phase = "reading" /\ r.live /\ ~r.matched /\ IsLive(r.token) =>
           ask[r.token].name \in r.unread

ScanInv == (\A k \in Scans : ScanOK(k)) /\ YesWasLive /\ SteadyIsFound

IInv ==
  TypeOK /\ TxnInv /\ AskInv /\ ViewInv /\ CodeInv /\ FileInv /\ GrantInv /\ ScanInv

(* The invariant holds before the first code is created. *)
LEMMA InitIInv == Init => IInv
<1> SUFFICES ASSUME Init PROVE IInv
  OBVIOUS
<1>1. db \in Database /\ \A c \in Codes : db.enrollments[c] = NoRow
  BY DEF Init, SqliteInit, Database
<1>2. DirectoryTypeOK
  BY DEF Init, DirectoryInit, DirectoryTypeOK, NoScan, ScanRecord, TemporaryStates, Answers
<1>3. TypeOK
  BY <1>1, <1>2, SessionsAssumption DEF Init, SqliteInit, TypeOK, CreatePhases, AgentPhases, HandlerPhases, Transacting
<1>4. TxnInv /\ AskInv /\ ViewInv /\ CodeInv
  BY <1>1, SessionsAssumption DEF Init, SqliteInit, TxnInv, AskInv, ViewInv, CodeInv, Writing, Transacting
<1>5. FileInv /\ GrantInv
  BY <1>1 DEF Init, DirectoryInit, FileInv, GrantInv, GrantedOnce, GrantedWorks, ConsumedIsInstalled
<1>6. ScanInv
  BY DEF Init, DirectoryInit, ScanInv, ScanOK, YesWasLive, Authorized, SteadyIsFound, NoScan
<1> QED
  BY <1>3, <1>4, <1>5, <1>6 DEF IInv

-----------------------------------------------------------------------------
(* Each part of the invariant is about some of the variables. *)

(* TxnInv is about the transactions. (Each part of the invariant is stable *)
(* as long as the state it is about does not change.)                      *)
LEMMA TxnFrame == TxnInv /\ UNCHANGED <<view, stale, writer, handler>> => TxnInv'
  BY DEF TxnInv

(* AskInv is about the agents and handlers. *)
LEMMA AskFrame == AskInv /\ UNCHANGED <<ask, agent, handler>> => AskInv'
  BY DEF AskInv

(* ViewInv is about the snapshots. *)
LEMMA ViewFrame == ViewInv /\ UNCHANGED <<db, view, stale, ask, handler>> => ViewInv'
  BY DEF ViewInv, Unused, ConsumedIn

(* CodeInv is about the rows and their creation. *)
LEMMA CodeFrame == CodeInv /\ UNCHANGED <<db, creating>> => CodeInv'
  BY DEF CodeInv

(* FileInv is about the two kinds of files of the directory. *)
LEMMA FileFrame ==
  FileInv /\ UNCHANGED <<installed, temporary, ask, handler, revoked>> => FileInv'
  BY DEF FileInv, Kept

(* GrantInv is about what was granted, and what became of it. *)
LEMMA GrantFrame ==
  GrantInv /\ UNCHANGED <<db, installed, temporary, ask, agent, handler, tokenFile, granted, revoked>>
    => GrantInv'
<1> SUFFICES ASSUME GrantInv,
                    UNCHANGED <<db, installed, temporary, ask, agent, handler, tokenFile, granted,
                                revoked>>
             PROVE  GrantInv'
  OBVIOUS
<1>1. GrantedOnce' /\ GrantedWorks'
  BY DEF GrantInv, GrantedOnce, GrantedWorks, Kept
<1>2. ConsumedIsInstalled'
  BY DEF GrantInv, ConsumedIsInstalled, Kept
<1> QED
  BY <1>1, <1>2 DEF GrantInv

(* ScanInv is about the scans and the credentials they read. *)
LEMMA ScanFrame == ScanInv /\ UNCHANGED <<installed, scan, ask, granted>> => ScanInv'
  BY DEF ScanInv, ScanOK, IsLive, YesWasLive, Authorized, SteadyIsFound

-----------------------------------------------------------------------------
(* agent create *)

(* The steps of agent create that do not commit. *)
LEMMA CreationKeeps ==
  ASSUME IInv, NEW c \in Codes, NEW phase \in CreatePhases, Creation(c, phase),
         UNCHANGED sqliteVars, creating[c] # "created"
  PROVE  IInv'
<1>1. /\ creating' = [creating EXCEPT ![c] = phase]
      /\ UNCHANGED <<db, view, stale, writer, installed, temporary, scan, owner, expired,
                     ask, agent, handler, tokenFile, granted, revoked>>
  BY DEF Creation, sqliteVars, directoryVars, sessionVars, history
<1>2. TypeOK'
  BY <1>1 DEF IInv, TypeOK, DirectoryTypeOK
<1>3. TxnInv' /\ AskInv' /\ ViewInv' /\ FileInv' /\ GrantInv' /\ ScanInv'
  BY <1>1, TxnFrame, AskFrame, ViewFrame, FileFrame, GrantFrame, ScanFrame DEF IInv
<1>4. CodeInv'
  BY <1>1 DEF IInv, CodeInv, TypeOK
<1> QED
  BY <1>2, <1>3, <1>4 DEF IInv

(* The new row outdates every snapshot and is nobody's yet. *)
LEMMA InsertCodeKeeps == ASSUME IInv, NEW c \in Codes, InsertCode(c) PROVE IInv'
<1> DEFINE row == [name |-> owner[c], consumed |-> FALSE]
<1>1. /\ creating[c] = "written" /\ creating' = [creating EXCEPT ![c] = "created"]
      /\ writer = NoConn /\ stale' = OpenTxns
      /\ db' = [db EXCEPT !.enrollments[c] = row]
      /\ UNCHANGED <<view, writer, installed, temporary, scan, owner, expired,
                     ask, agent, handler, tokenFile, granted, revoked>>
  BY DEF InsertCode, Autocommit, Creation, directoryVars, sessionVars, history
<1>2. row \in Row /\ db.enrollments[c] = NoRow
  BY <1>1 DEF Row, IInv, TypeOK, CodeInv
<1>3. /\ db' \in Database
      /\ db'.enrollments = [db.enrollments EXCEPT ![c] = row]
  BY <1>1, <1>2 DEF IInv, TypeOK, Database
<1> HIDE DEF row
<1>4. \A d \in Codes : db'.enrollments[d] = IF d = c THEN row ELSE db.enrollments[d]
  BY <1>3 DEF IInv, TypeOK, Database
<1>5. ~row.consumed /\ row # NoRow
  BY <1>2, ValuesAssumption DEF row
<1>6. \A s \in Sessions : handler[s] \notin Writing
  BY <1>1, SessionsAssumption, NoConnAssumption DEF IInv, TxnInv
<1>7. \A s \in OpenTxns : s \in Sessions /\ handler[s] = "selected"
  BY <1>6 DEF OpenTxns, IInv, TypeOK, TxnInv, Writing
<1>8. TypeOK'
  BY <1>1, <1>3, <1>7, SessionsAssumption DEF IInv, TypeOK, DirectoryTypeOK, CreatePhases
<1>9. TxnInv' /\ AskInv'
  BY <1>1, <1>6, <1>7 DEF IInv, TxnInv, AskInv
<1>10. ViewInv'
  BY <1>1, <1>6, SessionsAssumption DEF ViewInv, OpenTxns, IInv, TypeOK, Transacting
<1>11. CodeInv' /\ FileInv'
  BY <1>1, <1>4 DEF IInv, CodeInv, FileInv, Kept, TypeOK
<1>12. GrantInv'
  <2>1. \A s \in granted : ask[s].code # c /\ ask[s].code \in Codes
    BY <1>2 DEF IInv, GrantInv, AskInv, TypeOK, Asks
  <2> QED
    BY <1>1, <1>4, <1>5, <2>1
       DEF IInv, GrantInv, GrantedOnce, GrantedWorks, ConsumedIsInstalled, Kept
<1>13. ScanInv'
  BY <1>1, ScanFrame DEF IInv
<1> QED
  BY <1>8, <1>9, <1>10, <1>11, <1>12, <1>13 DEF IInv

(* Expire preserves the inductive invariant. *)
LEMMA ExpireKeeps == ASSUME IInv, NEW c \in Codes, Expire(c) PROVE IInv'
<1>1. /\ expired' = expired \cup {c}
      /\ UNCHANGED <<db, view, stale, writer, installed, temporary, scan, creating, owner,
                     ask, agent, handler, tokenFile, granted, revoked>>
  BY DEF Expire, sqliteVars, directoryVars, sessionVars, history
<1>2. TypeOK'
  BY <1>1 DEF IInv, TypeOK, DirectoryTypeOK
<1>3. TxnInv' /\ AskInv' /\ ViewInv' /\ CodeInv' /\ FileInv' /\ GrantInv' /\ ScanInv'
  BY <1>1, TxnFrame, AskFrame, ViewFrame, CodeFrame, FileFrame, GrantFrame, ScanFrame DEF IInv
<1> QED
  BY <1>2, <1>3 DEF IInv

-----------------------------------------------------------------------------
(* The agent *)

(* AgentAsks preserves the inductive invariant. *)
LEMMA AgentAsksKeeps ==
  ASSUME IInv, NEW s \in Sessions, NEW n \in Names, NEW c \in Codes, AgentAsks(s, n, c)
  PROVE  IInv'
<1>1. /\ agent[s] = "idle" /\ agent' = [agent EXCEPT ![s] = "waiting"]
      /\ handler' = [handler EXCEPT ![s] = "asked"]
      /\ ask' = [ask EXCEPT ![s] = [name |-> n, code |-> c]]
      /\ UNCHANGED <<db, view, stale, writer, installed, temporary, scan, creating, owner, expired,
                     tokenFile, granted, revoked>>
  BY DEF AgentAsks, AgentGoto, Goto, sqliteVars, directoryVars, codeVars, history
<1>2. handler[s] = "idle" /\ s \notin granted /\ \A m \in Names : installed[m] # s
  <2>1. handler[s] = "idle"
    BY <1>1 DEF IInv, AskInv
  <2>2. s \notin granted /\ s # NoToken
    BY <2>1, CredentialAssumption DEF IInv, GrantInv
  <2> QED
    BY <2>1, <2>2 DEF IInv, FileInv, Linked
<1>3. TypeOK'
  BY <1>1, <1>2 DEF IInv, TypeOK, DirectoryTypeOK, Asks, AgentPhases, HandlerPhases, Transacting
<1>4. \A r \in Sessions \ {s} :
        agent'[r] = agent[r] /\ handler'[r] = handler[r] /\ ask'[r] = ask[r]
  BY <1>1 DEF IInv, TypeOK
<1>5. agent'[s] = "waiting" /\ handler'[s] = "asked" /\ ask'[s] \in Asks
  BY <1>1 DEF IInv, TypeOK, Asks
<1>6. TxnInv' /\ AskInv'
  BY <1>1, <1>2, <1>4, <1>5 DEF IInv, TxnInv, AskInv, Writing, Transacting
<1>7. ViewInv'
  <2> SUFFICES ASSUME NEW r \in Sessions
               PROVE  /\ handler'[r] = "selected" /\ r \notin stale =>
                           view[r] = db /\ Unused(ask'[r].code)
                      /\ handler'[r] \in Writing =>
                           /\ view[r] = [db EXCEPT !.enrollments[ask'[r].code].consumed = TRUE]
                           /\ Unused(ask'[r].code)
    BY <1>1 DEF ViewInv, Unused, ConsumedIn
  <2>1. CASE r = s
    BY <1>5, <2>1 DEF Writing, Transacting
  <2>2. CASE r # s
    BY <1>4, <2>2 DEF IInv, ViewInv, ConsumedIn
  <2> QED
    BY <2>1, <2>2
<1>8. CodeInv'
  BY <1>1, CodeFrame DEF IInv
<1>9. FileInv'
  BY <1>1, <1>2, <1>4, <1>5 DEF IInv, FileInv, Kept, TypeOK, DirectoryTypeOK, Tokens
<1>10. granted \subseteq Sessions \ {s}
  BY <1>2 DEF IInv, TypeOK
<1>11. GrantInv'
  <2>1. GrantedOnce'
    BY <1>1, <1>4, <1>10 DEF IInv, GrantInv, GrantedOnce
  <2>2. GrantedWorks' /\ ConsumedIsInstalled'
    BY <1>1, <1>4, <1>10 DEF IInv, GrantInv, GrantedWorks, ConsumedIsInstalled, Kept
  <2> QED
    BY <1>1, <1>4, <1>5, <1>10, <2>1, <2>2 DEF IInv, GrantInv
<1>12. ScanInv'
  BY <1>1, <1>4, <1>10 DEF IInv, ScanInv, ScanOK, IsLive, YesWasLive, Authorized, SteadyIsFound,
                           TypeOK, DirectoryTypeOK, ScanRecord
<1> QED
  BY <1>3, <1>6, <1>7, <1>8, <1>9, <1>11, <1>12 DEF IInv

(* From the answer on, the steps of the agent that leave the files alone.  *)
LEMMA AgentMoves ==
  ASSUME IInv, NEW s \in Sessions, NEW phase \in AgentPhases \ {"idle"}, agent[s] # "idle",
         AgentGoto(s, phase), phase = "received" => s \in granted,
         handler' = handler \/ (Goto(s, "over") /\ handler[s] \in {"granted", "denied"}),
         UNCHANGED <<sqliteVars, directoryVars, scan, codeVars, ask, history>>,
         \A n \in Names : tokenFile'[n] # NoToken => tokenFile'[n] \in granted,
         tokenFile' \in [Names -> Tokens \cup {NoToken}]
  PROVE  IInv'
<1>1. /\ agent' = [agent EXCEPT ![s] = phase]
      /\ UNCHANGED <<db, view, stale, writer, installed, temporary, scan, creating, owner, expired,
                     ask, granted, revoked>>
  BY DEF AgentGoto, sqliteVars, directoryVars, codeVars, history
<1>2. /\ handler' \in [Sessions -> HandlerPhases]
      /\ \A r \in Sessions :
           \/ handler'[r] = handler[r]
           \/ handler[r] \in {"granted", "denied"} /\ handler'[r] = "over"
  <2>1. handler \in [Sessions -> HandlerPhases] /\ "over" \in HandlerPhases
    BY DEF IInv, TypeOK, HandlerPhases
  <2>2. CASE handler' = handler
    BY <2>1, <2>2
  <2>3. CASE Goto(s, "over") /\ handler[s] \in {"granted", "denied"}
    BY <2>1, <2>3 DEF Goto
  <2> QED
    BY <2>2, <2>3
<1>3. \A r \in Sessions : handler'[r] \in Transacting => handler'[r] = handler[r]
  BY <1>2 DEF Transacting
<1>4. \A r \in Sessions : handler[r] \in Transacting => handler'[r] = handler[r]
  BY <1>2 DEF Transacting
<1>5. TypeOK'
  BY <1>1, <1>2, <1>3, <1>4 DEF IInv, TypeOK, DirectoryTypeOK
<1>6. TxnInv'
  BY <1>1, <1>3, <1>4 DEF IInv, TxnInv, Writing, Transacting
<1>7. AskInv'
  <2>1. \A r \in Sessions : handler'[r] = "idle" <=> handler[r] = "idle"
    BY <1>2
  <2> QED
    BY <1>1, <2>1 DEF IInv, AskInv, TypeOK
<1>8. ViewInv'
  <2>1. \A r \in Sessions : handler'[r] = "selected" => handler[r] = "selected"
    BY <1>2
  <2>2. \A r \in Sessions : handler'[r] \in Writing => handler[r] \in Writing
    BY <1>3 DEF Writing
  <2> QED
    BY <1>1, <2>1, <2>2 DEF IInv, ViewInv, Unused, ConsumedIn
<1>9. CodeInv' /\ ScanInv'
  BY <1>1, CodeFrame, ScanFrame DEF IInv
<1>10. FileInv'
  BY <1>1, <1>2 DEF IInv, FileInv, Kept, Linked, TypeOK, DirectoryTypeOK, Tokens
<1>11. GrantInv'
  <2>1. GrantedOnce' /\ ConsumedIsInstalled'
    BY <1>1 DEF IInv, GrantInv, GrantedOnce, ConsumedIsInstalled, Kept
  <2>2. GrantedWorks'
    BY <1>1 DEF IInv, GrantInv, GrantedWorks, Kept
  <2>3. \A r \in granted : handler'[r] \in {"granted", "over"}
    BY <1>2 DEF IInv, GrantInv, TypeOK
  <2>4. \A r \in Sessions : handler'[r] = "granted" \/ agent'[r] = "received" => r \in granted
    BY <1>1, <1>2 DEF IInv, GrantInv, TypeOK
  <2> QED
    BY <1>1, <2>1, <2>2, <2>3, <2>4 DEF IInv, GrantInv
<1> QED
  BY <1>5, <1>6, <1>7, <1>8, <1>9, <1>10, <1>11 DEF IInv

(* AgentGivesUp preserves the inductive invariant. *)
LEMMA AgentGivesUpKeeps == ASSUME IInv, NEW s \in Sessions, AgentGivesUp(s) PROVE IInv'
<1>1. UNCHANGED <<sqliteVars, directoryVars, scan, codeVars, ask, history>>
  BY DEF AgentGivesUp
<1> QED
  BY <1>1, AgentMoves DEF AgentGivesUp, AgentPhases, IInv, TypeOK, GrantInv, GrantedWorks

(* AgentDenied preserves the inductive invariant. *)
LEMMA AgentDeniedKeeps == ASSUME IInv, NEW s \in Sessions, AgentDenied(s) PROVE IInv'
<1>1. UNCHANGED <<sqliteVars, directoryVars, scan, codeVars, ask, history>>
  BY DEF AgentDenied
<1> QED
  BY <1>1, AgentMoves DEF AgentDenied, AgentPhases, IInv, TypeOK, GrantInv, GrantedWorks

(* AgentReceives preserves the inductive invariant. *)
LEMMA AgentReceivesKeeps == ASSUME IInv, NEW s \in Sessions, AgentReceives(s) PROVE IInv'
<1>1. UNCHANGED <<sqliteVars, directoryVars, scan, codeVars, ask, history>>
  BY DEF AgentReceives
<1>2. s \in granted
  BY DEF AgentReceives, IInv, GrantInv
<1> QED
  BY <1>1, <1>2, AgentMoves DEF AgentReceives, AgentPhases, IInv, TypeOK, GrantInv, GrantedWorks

(* AgentWritesToken preserves the inductive invariant. *)
LEMMA AgentWritesTokenKeeps == ASSUME IInv, NEW s \in Sessions, AgentWritesToken(s) PROVE IInv'
<1>1. UNCHANGED <<sqliteVars, directoryVars, scan, codeVars, ask, history>>
  BY DEF AgentWritesToken
<1>2. s \in granted /\ agent[s] # "idle"
  BY DEF AgentWritesToken, IInv, GrantInv
<1>3. tokenFile' = [tokenFile EXCEPT ![ask[s].name] = s]
  BY DEF AgentWritesToken
<1>4. /\ tokenFile' \in [Names -> Tokens \cup {NoToken}]
      /\ \A n \in Names : tokenFile'[n] # NoToken => tokenFile'[n] \in granted
  BY <1>2, <1>3 DEF IInv, TypeOK, Tokens, GrantInv, GrantedWorks
<1> QED
  BY <1>1, <1>2, <1>4, AgentMoves DEF AgentWritesToken, AgentPhases

(* AgentRefuses preserves the inductive invariant. *)
LEMMA AgentRefusesKeeps == ASSUME IInv, NEW s \in Sessions, AgentRefuses(s) PROVE IInv'
<1>1. UNCHANGED <<sqliteVars, directoryVars, scan, codeVars, ask, history>>
  BY DEF AgentRefuses
<1> QED
  BY <1>1, AgentMoves DEF AgentRefuses, AgentPhases, IInv, TypeOK, GrantInv, GrantedWorks

-----------------------------------------------------------------------------
(* The handler *)

(* The steps before and instead of the transaction. *)
LEMMA WaitingMoves ==
  ASSUME IInv, NEW s \in Sessions, NEW phase \in {"named", "denied"},
         handler[s] \in {"asked", "named"}, Goto(s, phase),
         UNCHANGED <<sqliteVars, directoryVars, granted>>, Stays
  PROVE  IInv'
<1>1. /\ handler' = [handler EXCEPT ![s] = phase]
      /\ UNCHANGED <<db, view, stale, writer, installed, temporary, scan, creating, owner, expired,
                     ask, agent, tokenFile, granted, revoked>>
  BY DEF Goto, Stays, sqliteVars, directoryVars, codeVars
<1>2. handler'[s] = phase /\ \A r \in Sessions \ {s} : handler'[r] = handler[r]
  BY <1>1 DEF IInv, TypeOK
<1>3. TypeOK'
  BY <1>1 DEF IInv, TypeOK, DirectoryTypeOK, HandlerPhases, Transacting
<1>4. TxnInv' /\ AskInv' /\ ViewInv'
  BY <1>1, <1>2 DEF IInv, TxnInv, AskInv, ViewInv, Unused, ConsumedIn, Writing, Transacting
<1>5. CodeInv' /\ ScanInv'
  BY <1>1, CodeFrame, ScanFrame DEF IInv
<1>6. FileInv'
  BY <1>1, <1>2 DEF IInv, FileInv, Kept, Linked, TypeOK, DirectoryTypeOK, Tokens
<1>7. GrantInv'
  <2>1. GrantedOnce' /\ GrantedWorks'
    BY <1>1 DEF IInv, GrantInv, GrantedOnce, GrantedWorks, Kept
  <2>2. ConsumedIsInstalled'
    BY <1>1 DEF IInv, GrantInv, ConsumedIsInstalled, Kept
  <2> QED
    BY <1>1, <1>2, <2>1, <2>2 DEF IInv, GrantInv, TypeOK
<1> QED
  BY <1>3, <1>4, <1>5, <1>6, <1>7 DEF IInv

(* SelectCode preserves the inductive invariant. *)
LEMMA SelectCodeKeeps == ASSUME IInv, NEW s \in Sessions, SelectCode(s) PROVE IInv'
<1>1. /\ handler[s] = "named" /\ handler' = [handler EXCEPT ![s] = "selected"]
      /\ view[s] = NoTxn /\ view' = [view EXCEPT ![s] = db]
      /\ Unused(ask[s].code)
      /\ UNCHANGED <<db, stale, writer, installed, temporary, scan, creating, owner, expired,
                     ask, agent, tokenFile, granted, revoked>>
  BY DEF SelectCode, Usable, Unused, Begin, Goto, Stays, directoryVars, codeVars
<1>2. /\ s \in Connections /\ db # NoTxn /\ db \in Database
      /\ view'[s] = db /\ \A c \in Connections \ {s} : view'[c] = view[c]
      /\ handler'[s] = "selected" /\ \A r \in Sessions \ {s} : handler'[r] = handler[r]
  BY <1>1, SessionsAssumption, ValuesAssumption DEF IInv, TypeOK
<1>3. TypeOK'
  <2>1. \A r \in Sessions : view'[r] # NoTxn <=> handler'[r] \in Transacting
    BY <1>2, SessionsAssumption DEF IInv, TypeOK, Transacting
  <2> QED
    BY <1>1, <1>2, <2>1 DEF IInv, TypeOK, DirectoryTypeOK, HandlerPhases
<1>4. TxnInv'
  BY <1>1, <1>2 DEF IInv, TxnInv, Writing, Transacting
<1>5. AskInv' /\ ViewInv'
  <2> DEFINE ViewOK(r) ==
        /\ handler[r] = "selected" /\ r \notin stale => view[r] = db /\ Unused(ask[r].code)
        /\ handler[r] \in Writing => view[r] = ConsumedIn(db, r) /\ Unused(ask[r].code)
  <2>1. AskInv'
    BY <1>1, <1>2 DEF IInv, AskInv
  <2>2. ASSUME NEW r \in Sessions
        PROVE  ViewOK(r)'
    <3>1. Unused(ask[r].code)' = Unused(ask[r].code)
      BY <1>1 DEF Unused
    <3>2. ConsumedIn(db, r)' = ConsumedIn(db, r)
      BY <1>1 DEF ConsumedIn
    <3>3. CASE r = s
      BY <1>1, <1>2, <3>1, <3>3 DEF Writing, Transacting
    <3>4. CASE r # s
      <4>1. view'[r] = view[r] /\ handler'[r] = handler[r]
        BY <1>2, <3>4, SessionsAssumption
      <4> QED
        BY <1>1, <3>1, <3>2, <4>1 DEF IInv, ViewInv
    <3> QED
      BY <3>3, <3>4
  <2> QED
    BY <2>1, <2>2 DEF ViewInv
<1>6. CodeInv' /\ ScanInv'
  BY <1>1, CodeFrame, ScanFrame DEF IInv
<1>7. FileInv'
  BY <1>1, <1>2 DEF IInv, FileInv, Kept, Linked, TypeOK, DirectoryTypeOK, Tokens
<1>8. GrantInv'
  <2>1. GrantedOnce' /\ GrantedWorks'
    BY <1>1 DEF IInv, GrantInv, GrantedOnce, GrantedWorks, Kept
  <2>2. ConsumedIsInstalled'
    BY <1>1 DEF IInv, GrantInv, ConsumedIsInstalled, Kept
  <2> QED
    BY <1>1, <1>2, <2>1, <2>2 DEF IInv, GrantInv, TypeOK
<1> QED
  BY <1>3, <1>4, <1>5, <1>6, <1>7, <1>8 DEF IInv

(* The transaction is not stale, so the code it uses up is unused now.     *)
LEMMA ConsumeKeeps == ASSUME IInv, NEW s \in Sessions, Consume(s) PROVE IInv'
<1>1. /\ handler[s] = "selected" /\ handler' = [handler EXCEPT ![s] = "consumed"]
      /\ MayWrite(s) /\ writer' = s
      /\ view' = [view EXCEPT ![s] = ConsumedIn(view[s], s)]
      /\ UNCHANGED <<db, stale, installed, temporary, scan, creating, owner, expired,
                     ask, agent, tokenFile, granted, revoked>>
  BY DEF Consume, Write, Goto, Stays, directoryVars, codeVars
<1>2. writer = NoConn /\ s \notin stale
  BY <1>1, SessionsAssumption, NoConnAssumption DEF MayWrite, IInv, TxnInv, Writing
<1>3. view[s] = db /\ Unused(ask[s].code) /\ ask[s] \in Asks
  BY <1>1, <1>2 DEF IInv, ViewInv, AskInv
<1>4. ConsumedIn(db, s) \in Database
  <2>1. db.enrollments[ask[s].code] \in Row
    BY <1>3 DEF Unused, IInv, TypeOK, Database, Asks
  <2>2. [db.enrollments[ask[s].code] EXCEPT !.consumed = TRUE] \in Row
    BY <2>1 DEF Row
  <2> QED
    BY <2>2 DEF ConsumedIn, IInv, TypeOK, Database
<1>5. /\ s \in Connections /\ ConsumedIn(db, s) # NoTxn
      /\ view'[s] = ConsumedIn(db, s) /\ \A c \in Connections \ {s} : view'[c] = view[c]
      /\ handler'[s] = "consumed" /\ \A r \in Sessions \ {s} : handler'[r] = handler[r]
  BY <1>1, <1>3, <1>4, SessionsAssumption, ValuesAssumption DEF IInv, TypeOK
<1>6. TypeOK'
  <2>1. \A r \in Sessions : view'[r] # NoTxn <=> handler'[r] \in Transacting
    BY <1>5, SessionsAssumption DEF IInv, TypeOK, Transacting
  <2> QED
    BY <1>1, <1>3, <1>4, <1>5, <2>1 DEF IInv, TypeOK, DirectoryTypeOK, HandlerPhases
<1>7. \A r \in Sessions : handler[r] \notin Writing
  BY <1>2, SessionsAssumption, NoConnAssumption DEF IInv, TxnInv
<1>8. TxnInv'
  BY <1>1, <1>2, <1>5, <1>7 DEF IInv, TxnInv, Writing, Transacting
<1>9. AskInv' /\ ViewInv'
  <2>1. AskInv'
    BY <1>1, <1>5 DEF IInv, AskInv
  <2>2. ConsumedIn(db, s)' = ConsumedIn(db, s) /\ \A c : Unused(c)' = Unused(c)
    BY <1>1 DEF ConsumedIn, Unused
  <2>3. \A r \in Sessions \ {s} : handler'[r] \notin Writing
    BY <1>5, <1>7
  <2>4. ViewInv'
    BY <1>1, <1>3, <1>5, <2>2, <2>3, SessionsAssumption DEF IInv, ViewInv
  <2> QED
    BY <2>1, <2>4
<1>10. CodeInv' /\ ScanInv'
  BY <1>1, CodeFrame, ScanFrame DEF IInv
<1>11. FileInv'
  BY <1>1, <1>5 DEF IInv, FileInv, Kept, Linked, TypeOK, DirectoryTypeOK, Tokens
<1>12. GrantInv'
  <2>1. GrantedOnce' /\ GrantedWorks'
    BY <1>1 DEF IInv, GrantInv, GrantedOnce, GrantedWorks, Kept
  <2>2. ConsumedIsInstalled'
    BY <1>1 DEF IInv, GrantInv, ConsumedIsInstalled, Kept
  <2> QED
    BY <1>1, <1>5, <2>1, <2>2 DEF IInv, GrantInv, TypeOK
<1> QED
  BY <1>6, <1>8, <1>9, <1>10, <1>11, <1>12 DEF IInv

(* The steps of a writer on the directory. *)
LEMMA WriterMoves ==
  ASSUME IInv, NEW s \in Sessions, NEW phase \in Writing, handler[s] \in Writing, Goto(s, phase),
         UNCHANGED <<sqliteVars, granted>>, Stays, temporary' \in [Sessions -> TemporaryStates],
         installed' \in [Names -> Tokens \cup {NoToken}]
  PROVE  /\ TypeOK' /\ TxnInv' /\ AskInv' /\ ViewInv' /\ CodeInv'
         /\ handler'[s] = phase /\ \A r \in Sessions \ {s} : handler'[r] = handler[r]
         /\ UNCHANGED <<db, scan, ask, agent, tokenFile, granted, revoked>>
<1>1. /\ handler' = [handler EXCEPT ![s] = phase]
      /\ UNCHANGED <<db, view, stale, writer, scan, creating, owner, expired,
                     ask, agent, tokenFile, granted, revoked>>
  BY DEF Goto, Stays, sqliteVars, codeVars
<1>2. handler'[s] = phase /\ \A r \in Sessions \ {s} : handler'[r] = handler[r]
  BY <1>1 DEF IInv, TypeOK
<1>3. TypeOK'
  BY <1>1, <1>2 DEF IInv, TypeOK, DirectoryTypeOK, HandlerPhases, Writing, Transacting
<1>4. TxnInv'
  BY <1>1, <1>2 DEF IInv, TxnInv, Writing
<1>5. AskInv'
  BY <1>1, <1>2 DEF IInv, AskInv, Writing, Transacting
<1>6. ViewInv'
  BY <1>1, <1>2 DEF IInv, ViewInv, Unused, ConsumedIn, Writing
<1>7. CodeInv'
  BY <1>1, CodeFrame DEF IInv
<1> QED
  BY <1>1, <1>2, <1>3, <1>4, <1>5, <1>6, <1>7

(* The three steps that touch nothing but the temporary file of a session. *)
LEMMA TemporaryKeeps ==
  ASSUME IInv, NEW s \in Sessions, OpenTemporary(s) \/ SyncTemporary(s) \/ Unlink(s)
  PROVE  IInv'
<1>1. PICK phase \in {"temporary", "whole", "unlinked"} :
        /\ handler[s] \in {"consumed", "temporary", "linked"}
        /\ handler[s] = "linked" <=> phase = "unlinked"
        /\ Goto(s, phase)
        /\ temporary' = [temporary EXCEPT ![s] =
             IF phase = "unlinked" THEN "absent" ELSE IF phase = "whole" THEN "whole" ELSE "partial"]
        /\ UNCHANGED <<sqliteVars, granted, installed>> /\ Stays
  BY DEF OpenTemporary, CreateTemporary, SyncTemporary, FillTemporary, Unlink, RemoveTemporary
<1>2. phase \in Writing /\ handler[s] \in Writing
  BY <1>1 DEF Writing, Transacting
<1>3. temporary' \in [Sessions -> TemporaryStates] /\ installed' \in [Names -> Tokens \cup {NoToken}]
  BY <1>1 DEF IInv, TypeOK, DirectoryTypeOK, TemporaryStates
<1>4. /\ TypeOK' /\ TxnInv' /\ AskInv' /\ ViewInv' /\ CodeInv'
      /\ handler'[s] = phase /\ \A r \in Sessions \ {s} : handler'[r] = handler[r]
      /\ UNCHANGED <<db, scan, ask, agent, tokenFile, granted, revoked>>
  BY <1>1, <1>2, <1>3, WriterMoves
<1>5. \A r \in Sessions \ {s} : temporary'[r] = temporary[r]
  BY <1>1 DEF IInv, TypeOK, DirectoryTypeOK
<1>6. phase = "unlinked" => temporary'[s] = "absent"
  BY <1>1 DEF IInv, TypeOK, DirectoryTypeOK
<1>7. FileInv'
  <2>1. \A n \in Names : installed[n] # NoToken =>
          ask[installed[n]].name = n /\ handler'[installed[n]] \in Linked
    BY <1>1, <1>4 DEF IInv, FileInv, Linked, TypeOK, DirectoryTypeOK, Tokens
  <2>2. \A r \in Sessions : handler'[r] \in {"linked", "unlinked"} => handler[r] \in {"linked", "unlinked"}
    BY <1>1, <1>4
  <2>3. \A r \in Sessions : handler'[r] = "unlinked" => temporary'[r] = "absent"
    BY <1>4, <1>5, <1>6 DEF IInv, FileInv
  <2> QED
    BY <1>1, <1>4, <2>1, <2>2, <2>3 DEF IInv, FileInv, Kept
<1>8. GrantInv'
  <2>1. GrantedOnce' /\ GrantedWorks'
    BY <1>1, <1>4 DEF IInv, GrantInv, GrantedOnce, GrantedWorks, Kept
  <2>2. ConsumedIsInstalled'
    BY <1>1, <1>4 DEF IInv, GrantInv, ConsumedIsInstalled, Kept
  <2>3. s \notin granted
    BY <1>1 DEF IInv, GrantInv
  <2> QED
    BY <1>1, <1>4, <1>5, <2>1, <2>2, <2>3 DEF IInv, GrantInv, TypeOK
<1>9. ScanInv'
  BY <1>1, <1>4, ScanFrame DEF IInv
<1> QED
  BY <1>4, <1>7, <1>8, <1>9 DEF IInv

(* The name was free, so no other credential goes. *)
LEMMA InstallKeeps == ASSUME IInv, NEW s \in Sessions, Install(s) PROVE IInv'
<1> DEFINE name == ask[s].name
<1>1. /\ handler[s] = "whole" /\ Goto(s, "linked") /\ UNCHANGED <<sqliteVars, granted, temporary>>
      /\ Stays /\ installed[name] = NoToken /\ installed' = [installed EXCEPT ![name] = s]
  BY DEF Install, LinkCredential, Taken
<1>2. name \in Names
  BY <1>1 DEF IInv, AskInv, Asks
<1>3. "linked" \in Writing /\ handler[s] \in Writing
  BY <1>1 DEF Writing, Transacting
<1>4. temporary' \in [Sessions -> TemporaryStates] /\ installed' \in [Names -> Tokens \cup {NoToken}]
  BY <1>1 DEF IInv, TypeOK, DirectoryTypeOK, Tokens
<1>5. /\ TypeOK' /\ TxnInv' /\ AskInv' /\ ViewInv' /\ CodeInv'
      /\ handler'[s] = "linked" /\ \A r \in Sessions \ {s} : handler'[r] = handler[r]
      /\ UNCHANGED <<db, scan, ask, agent, tokenFile, granted, revoked>>
  BY <1>1, <1>3, <1>4, WriterMoves
<1>6. /\ installed'[name] = s
      /\ \A n \in Names \ {name} : installed'[n] = installed[n]
  BY <1>1, <1>2 DEF IInv, TypeOK, DirectoryTypeOK
<1> HIDE DEF name
<1>7. s \notin granted /\ granted \subseteq Sessions /\ s # NoToken
  BY <1>1, CredentialAssumption DEF IInv, TypeOK, GrantInv
<1>8. \A r \in Sessions \ {s} : Kept(r) /\ ask[r] \in Asks => Kept(r)'
  BY <1>1, <1>5, <1>6, CredentialAssumption DEF Kept, Asks
<1>9. FileInv'
  <2>1. \A n \in Names : installed'[n] # NoToken =>
          ask[installed'[n]].name = n /\ handler'[installed'[n]] \in Linked
    BY <1>5, <1>6 DEF name, IInv, FileInv, Linked, TypeOK, DirectoryTypeOK, Tokens
  <2>2. Kept(s)'
    BY <1>5, <1>6 DEF Kept, name
  <2>3. \A r \in Sessions \ {s} : handler'[r] \in {"linked", "unlinked"} => Kept(r)'
    BY <1>5, <1>8 DEF IInv, FileInv, AskInv
  <2> QED
    BY <1>1, <1>5, <2>1, <2>2, <2>3 DEF IInv, FileInv
<1>10. GrantInv'
  <2>1. \A r \in granted : Kept(r)'
    BY <1>7, <1>8 DEF IInv, GrantInv, GrantedWorks, AskInv
  <2>2. GrantedOnce' /\ GrantedWorks'
    BY <1>5, <2>1 DEF IInv, GrantInv, GrantedOnce, GrantedWorks
  <2>3. ConsumedIsInstalled'
    BY <1>5, <2>1 DEF IInv, GrantInv, ConsumedIsInstalled
  <2> QED
    BY <1>1, <1>5, <1>7, <2>2, <2>3 DEF IInv, GrantInv
<1>11. ScanInv'
  <2>1. \A token \in granted : IsLive(token)' <=> IsLive(token)
    BY <1>1, <1>2, <1>6, <1>7, CredentialAssumption DEF IsLive, name
  <2> QED
    BY <1>5, <2>1 DEF IInv, ScanInv, ScanOK, YesWasLive, Authorized, SteadyIsFound
<1> QED
  BY <1>5, <1>9, <1>10, <1>11 DEF IInv

(* The code was unused in the database that the commit replaces, so no     *)
(* other session was granted for it.                                       *)
LEMMA CommitEnrollmentKeeps == ASSUME IInv, NEW s \in Sessions, CommitEnrollment(s) PROVE IInv'
<1> DEFINE code == ask[s].code
<1>1. /\ handler[s] = "unlinked" /\ handler' = [handler EXCEPT ![s] = "granted"]
      /\ writer = s /\ writer' = NoConn /\ db' = view[s] /\ view' = [view EXCEPT ![s] = NoTxn]
      /\ stale' = OpenTxns \ {s} /\ granted' = granted \cup {s}
      /\ UNCHANGED <<installed, temporary, scan, creating, owner, expired,
                     ask, agent, tokenFile, revoked>>
  BY DEF CommitEnrollment, Commit, Goto, Stays, directoryVars, codeVars
<1>2. handler[s] \in Writing /\ ask[s] \in Asks /\ code \in Codes /\ s \in Connections
  BY <1>1, SessionsAssumption DEF Writing, Transacting, IInv, AskInv, Asks
<1>3. view[s] = ConsumedIn(db, s) /\ Unused(code)
  BY <1>2 DEF IInv, ViewInv
<1>4. db' \in Database
  BY <1>1, <1>2 DEF IInv, TypeOK, Transacting
<1>5. db.enrollments[code] \in Row /\ db \in Database
  BY <1>2, <1>3 DEF Unused, IInv, TypeOK, Database
<1>6. /\ \A c \in Codes \ {code} : db'.enrollments[c] = db.enrollments[c]
      /\ db'.enrollments[code] = [db.enrollments[code] EXCEPT !.consumed = TRUE]
  BY <1>1, <1>2, <1>3, <1>5 DEF ConsumedIn, Database
<1>7. db'.enrollments[code].consumed /\ db'.enrollments[code] # NoRow
  BY <1>5, <1>6, ValuesAssumption DEF Row
<1>8. /\ view'[s] = NoTxn /\ \A c \in Connections \ {s} : view'[c] = view[c]
      /\ handler'[s] = "granted" /\ \A r \in Sessions \ {s} : handler'[r] = handler[r]
  BY <1>1, <1>2 DEF IInv, TypeOK
<1>9. \A r \in Sessions \ {s} : handler[r] \notin Writing
  BY <1>1 DEF IInv, TxnInv
<1>10. \A c \in OpenTxns \ {s} : c \in Sessions /\ handler[c] = "selected" /\ handler'[c] = "selected"
  BY <1>8, <1>9 DEF OpenTxns, IInv, TypeOK, TxnInv, Writing
<1>11. TypeOK'
  <2>1. \A r \in Sessions : view'[r] # NoTxn <=> handler'[r] \in Transacting
    BY <1>8, SessionsAssumption DEF IInv, TypeOK, Transacting
  <2> QED
    BY <1>1, <1>4, <1>10, <2>1, SessionsAssumption DEF IInv, TypeOK, DirectoryTypeOK, HandlerPhases
<1>12. TxnInv'
  BY <1>1, <1>8, <1>9, <1>10 DEF IInv, TxnInv, Writing, Transacting
<1>13. AskInv'
  BY <1>1, <1>8 DEF IInv, AskInv
<1>14. ViewInv'
  <2>1. \A r \in Sessions : handler'[r] \notin Writing
    BY <1>8, <1>9 DEF Writing, Transacting
  <2>2. \A r \in Sessions : handler'[r] = "selected" => r \in stale'
    BY <1>1, <1>8, SessionsAssumption DEF OpenTxns, IInv, TypeOK, Transacting
  <2> QED
    BY <2>1, <2>2 DEF ViewInv
<1>15. CodeInv'
  BY <1>1, <1>2, <1>3, <1>6 DEF IInv, CodeInv, Unused
<1>16. FileInv'
  BY <1>1, <1>8 DEF IInv, FileInv, Kept, Linked, TypeOK, DirectoryTypeOK, Tokens
<1>17. \A r \in granted : ask[r].code \in Codes \ {code} /\ r \in Sessions \ {s}
  BY <1>1, <1>3 DEF IInv, GrantInv, GrantedWorks, Unused, AskInv, Asks, TypeOK
<1>18. GrantInv'
  <2>1. Kept(s) /\ temporary[s] = "absent"
    BY <1>1 DEF IInv, FileInv
  <2>2. \A r \in Sessions : Kept(r)' <=> Kept(r)
    BY <1>1 DEF Kept
  <2>3. GrantedOnce'
    BY <1>1, <1>17 DEF IInv, GrantInv, GrantedOnce
  <2>4. GrantedWorks'
    <3>1. \A r \in granted : db'.enrollments[ask[r].code].consumed /\ Kept(r)'
      BY <1>6, <1>17, <2>2 DEF IInv, GrantInv, GrantedWorks
    <3>2. db'.enrollments[ask[s].code].consumed /\ Kept(s)'
      BY <1>7, <2>1, <2>2
    <3>3. \A n \in Names : tokenFile[n] # NoToken => tokenFile[n] \in granted
      BY DEF IInv, GrantInv, GrantedWorks
    <3> QED
      BY <1>1, <3>1, <3>2, <3>3 DEF GrantedWorks
  <2>5. ConsumedIsInstalled'
    <3> SUFFICES ASSUME NEW c \in Codes, db'.enrollments[c] # NoRow, db'.enrollments[c].consumed
                 PROVE  \E r \in granted' : ask'[r].code = c /\ Kept(r)'
      BY DEF ConsumedIsInstalled
    <3>1. CASE c = code
      BY <1>1, <2>1, <2>2, <3>1
    <3>2. CASE c # code
      <4>1. PICK r \in granted : ask[r].code = c /\ Kept(r)
        BY <1>6, <3>2 DEF IInv, GrantInv, ConsumedIsInstalled
      <4> QED
        BY <1>1, <1>17, <2>2, <4>1
    <3> QED
      BY <3>1, <3>2
  <2>6. \A r \in granted' : /\ handler'[r] \in {"granted", "over"} /\ temporary'[r] = "absent"
                           /\ db'.enrollments[ask'[r].code] # NoRow
    BY <1>1, <1>6, <1>7, <1>8, <1>17, <2>1 DEF IInv, GrantInv
  <2>7. \A r \in Sessions : handler'[r] = "granted" \/ agent'[r] = "received" => r \in granted'
    BY <1>1, <1>8 DEF IInv, GrantInv
  <2> QED
    BY <2>3, <2>4, <2>5, <2>6, <2>7 DEF GrantInv
<1>19. ScanInv'
  BY <1>1 DEF IInv, ScanInv, ScanOK, IsLive, YesWasLive, Authorized, SteadyIsFound
<1> QED
  BY <1>11, <1>12, <1>13, <1>14, <1>15, <1>16, <1>18, <1>19 DEF IInv

(* HandlerFails preserves the inductive invariant. *)
LEMMA HandlerFailsKeeps == ASSUME IInv, NEW s \in Sessions, HandlerFails(s) PROVE IInv'
<1>1. /\ handler[s] \in {"named"} \cup Transacting /\ handler' = [handler EXCEPT ![s] = "denied"]
      /\ db' = db /\ view' = [view EXCEPT ![s] = NoTxn] /\ stale' = stale \ {s}
      /\ writer' = (IF writer = s THEN NoConn ELSE writer)
      /\ UNCHANGED <<installed, temporary, scan, creating, owner, expired,
                     ask, agent, tokenFile, granted, revoked>>
  BY DEF HandlerFails, Rollback, Goto, Stays, directoryVars, codeVars
<1>2. /\ s \in Connections /\ view'[s] = NoTxn /\ \A c \in Connections \ {s} : view'[c] = view[c]
      /\ handler'[s] = "denied" /\ \A r \in Sessions \ {s} : handler'[r] = handler[r]
  BY <1>1, SessionsAssumption DEF IInv, TypeOK
<1>3. TypeOK'
  <2>1. \A r \in Sessions : view'[r] # NoTxn <=> handler'[r] \in Transacting
    BY <1>2, SessionsAssumption DEF IInv, TypeOK, Transacting
  <2> QED
    BY <1>1, <2>1 DEF IInv, TypeOK, DirectoryTypeOK, HandlerPhases
<1>4. TxnInv'
  BY <1>1, <1>2, SessionsAssumption, NoConnAssumption DEF IInv, TxnInv, Writing, Transacting
<1>5. AskInv'
  BY <1>1, <1>2 DEF IInv, AskInv, Transacting
<1>6. ViewInv'
  <2>1. \A r \in Sessions \ {s} : view'[r] = view[r] /\ (r \notin stale' => r \notin stale)
    BY <1>1, <1>2, SessionsAssumption
  <2>2. handler'[s] \notin Writing /\ handler'[s] # "selected"
    BY <1>2 DEF Writing, Transacting
  <2> QED
    BY <1>1, <1>2, <2>1, <2>2 DEF IInv, ViewInv, Unused, ConsumedIn
<1>7. CodeInv' /\ ScanInv'
  BY <1>1, CodeFrame, ScanFrame DEF IInv
<1>8. FileInv'
  BY <1>1, <1>2 DEF IInv, FileInv, Kept, Linked, TypeOK, DirectoryTypeOK, Tokens
<1>9. GrantInv'
  <2>1. GrantedOnce' /\ GrantedWorks'
    BY <1>1 DEF IInv, GrantInv, GrantedOnce, GrantedWorks, Kept
  <2>2. ConsumedIsInstalled'
    BY <1>1 DEF IInv, GrantInv, ConsumedIsInstalled, Kept
  <2>3. s \notin granted
    BY <1>1 DEF IInv, GrantInv, Transacting
  <2> QED
    BY <1>1, <1>2, <2>1, <2>2, <2>3 DEF IInv, GrantInv, TypeOK
<1> QED
  BY <1>3, <1>4, <1>5, <1>6, <1>7, <1>8, <1>9 DEF IInv

-----------------------------------------------------------------------------
(* The operator, the requests and the death of the server *)

(* Revoke preserves the inductive invariant. *)
LEMMA RevokeKeeps == ASSUME IInv, NEW n \in Names, Revoke(n) PROVE IInv'
<1>1. /\ installed[n] # NoToken /\ installed' = [installed EXCEPT ![n] = NoToken]
      /\ revoked' = revoked \cup {installed[n]}
      /\ UNCHANGED <<db, view, stale, writer, temporary, scan, creating, owner, expired,
                     ask, agent, handler, tokenFile, granted>>
  BY DEF Revoke, RemoveCredential, sqliteVars, codeVars, sessionVars
<1>2. /\ installed'[n] = NoToken /\ \A m \in Names \ {n} : installed'[m] = installed[m]
      /\ installed[n] \in Sessions
  BY <1>1 DEF IInv, TypeOK, DirectoryTypeOK, Tokens
<1>3. TypeOK'
  BY <1>1, <1>2 DEF IInv, TypeOK, DirectoryTypeOK
<1>4. TxnInv' /\ AskInv' /\ ViewInv' /\ CodeInv'
  BY <1>1, TxnFrame, AskFrame, ViewFrame, CodeFrame DEF IInv
<1>5. \A s \in Sessions : Kept(s) /\ ask[s] \in Asks => Kept(s)'
  BY <1>1, <1>2 DEF Kept, Asks
<1>6. FileInv'
  <2>1. \A m \in Names : installed'[m] # NoToken =>
          ask[installed'[m]].name = m /\ handler[installed'[m]] \in Linked
    BY <1>2 DEF IInv, FileInv
  <2>2. \A s \in Sessions : handler[s] \in {"linked", "unlinked"} => Kept(s)'
    BY <1>5 DEF IInv, FileInv, AskInv
  <2> QED
    BY <1>1, <2>1, <2>2 DEF IInv, FileInv
<1>7. GrantInv'
  <2>1. \A s \in granted : Kept(s)'
    BY <1>5 DEF IInv, TypeOK, GrantInv, GrantedWorks, AskInv
  <2>2. GrantedOnce' /\ GrantedWorks'
    BY <1>1, <2>1 DEF IInv, GrantInv, GrantedOnce, GrantedWorks
  <2>3. ConsumedIsInstalled'
    BY <1>1, <2>1 DEF IInv, GrantInv, ConsumedIsInstalled
  <2> QED
    BY <1>1, <2>2, <2>3 DEF IInv, GrantInv
<1>8. ScanInv'
  <2>1. \A token \in granted : IsLive(token)' => IsLive(token)
    BY <1>2, CredentialAssumption DEF IsLive, IInv, TypeOK
  <2> QED
    BY <1>1, <2>1 DEF IInv, ScanInv, ScanOK, YesWasLive, Authorized, SteadyIsFound
<1> QED
  BY <1>3, <1>4, <1>6, <1>7, <1>8 DEF IInv

(* RemoveTokenFile preserves the inductive invariant. *)
LEMMA RemoveTokenFileKeeps == ASSUME IInv, NEW n \in Names, RemoveTokenFile(n) PROVE IInv'
<1>1. /\ tokenFile' = [tokenFile EXCEPT ![n] = NoToken]
      /\ UNCHANGED <<db, view, stale, writer, installed, temporary, scan, creating, owner, expired,
                     ask, agent, handler, granted, revoked>>
  BY DEF RemoveTokenFile, sqliteVars, directoryVars, codeVars, sessionVars, history
<1>2. TypeOK'
  BY <1>1 DEF IInv, TypeOK, DirectoryTypeOK
<1>3. TxnInv' /\ AskInv' /\ ViewInv' /\ CodeInv' /\ FileInv' /\ ScanInv'
  BY <1>1, TxnFrame, AskFrame, ViewFrame, CodeFrame, FileFrame, ScanFrame DEF IInv
<1>4. GrantInv'
  <2>1. GrantedOnce' /\ GrantedWorks'
    BY <1>1 DEF IInv, TypeOK, GrantInv, GrantedOnce, GrantedWorks, Kept
  <2>2. ConsumedIsInstalled'
    BY <1>1 DEF IInv, GrantInv, ConsumedIsInstalled, Kept
  <2> QED
    BY <1>1, <2>1, <2>2 DEF IInv, GrantInv
<1> QED
  BY <1>2, <1>3, <1>4 DEF IInv

(* OtherCommit preserves the inductive invariant. *)
LEMMA OtherCommitKeeps == ASSUME IInv, OtherCommit PROVE IInv'
<1>1. /\ writer = NoConn /\ stale' = OpenTxns
      /\ UNCHANGED <<db, view, writer, installed, temporary, scan, creating, owner, expired,
                     ask, agent, handler, tokenFile, granted, revoked>>
  BY DEF OtherCommit, Autocommit, directoryVars, codeVars, sessionVars, history
<1>2. \A s \in Sessions : handler[s] \notin Writing
  BY <1>1, SessionsAssumption, NoConnAssumption DEF IInv, TxnInv
<1>3. \A c \in OpenTxns : c \in Sessions /\ handler[c] = "selected"
  BY <1>2 DEF OpenTxns, IInv, TypeOK, TxnInv, Writing
<1>4. TypeOK'
  BY <1>1, <1>3, SessionsAssumption DEF IInv, TypeOK, DirectoryTypeOK
<1>5. TxnInv'
  BY <1>1, <1>2, <1>3 DEF IInv, TxnInv
<1>6. ViewInv'
  BY <1>1, <1>2, SessionsAssumption DEF ViewInv, OpenTxns, IInv, TypeOK, Transacting
<1>7. AskInv' /\ CodeInv' /\ FileInv' /\ GrantInv' /\ ScanInv'
  BY <1>1, AskFrame, CodeFrame, FileFrame, GrantFrame, ScanFrame DEF IInv
<1> QED
  BY <1>4, <1>5, <1>6, <1>7 DEF IInv

(* A step of one scan: the rest of the invariant is not about scans.       *)
LEMMA ScanStep ==
  ASSUME IInv, NEW k \in Scans, NEW r \in ScanRecord, scan' = [scan EXCEPT ![k] = r],
         UNCHANGED <<db, view, stale, writer, installed, temporary, creating, owner, expired,
                     ask, agent, handler, tokenFile, granted, revoked>>,
         r.phase # "idle" => r.token \in granted,
         r.phase # "done" => r.answer = "none",
         r.phase = "reading" /\ ~r.live => ~r.matched /\ ~IsLive(r.token),
         r.phase = "reading" /\ r.live /\ ~r.matched /\ IsLive(r.token) =>
           ask[r.token].name \in r.unread,
         r.answer = "yes" => r.live,
         r.answer = "no" => ~(r.live /\ r.kept)
  PROVE  IInv'
<1>1. scan'[k] = r /\ \A j \in Scans \ {k} : scan'[j] = scan[j]
  BY DEF IInv, TypeOK, DirectoryTypeOK
<1>2. TypeOK'
  BY DEF IInv, TypeOK, DirectoryTypeOK
<1>3. TxnInv' /\ AskInv' /\ ViewInv' /\ CodeInv' /\ FileInv' /\ GrantInv'
  BY TxnFrame, AskFrame, ViewFrame, CodeFrame, FileFrame, GrantFrame DEF IInv
<1>4. ASSUME NEW j \in Scans PROVE ScanOK(j)'
  <2>1. CASE j = k
    BY <1>1, <2>1 DEF ScanOK, IsLive
  <2>2. CASE j # k
    BY <1>1, <2>2 DEF ScanOK, IsLive, IInv, ScanInv
  <2> QED
    BY <2>1, <2>2
<1>5. YesWasLive' /\ SteadyIsFound'
  BY <1>1 DEF YesWasLive, Authorized, SteadyIsFound, IInv, ScanInv
<1> QED
  BY <1>2, <1>3, <1>4, <1>5 DEF IInv, ScanInv

(* A token that was granted is in no file but its own credential's.        *)
LEMMA TokenIsItsFile ==
  ASSUME IInv, NEW token \in granted
  PROVE  /\ IsLive(token) => /\ ask[token].name \in Names
                             /\ installed[ask[token].name] = token
         /\ \A f \in Files : Content(f) = token => IsLive(token)
<1>1. token \in Sessions /\ token # NoToken /\ temporary[token] = "absent"
  BY CredentialAssumption DEF IInv, TypeOK, GrantInv
<1>2. ASSUME IsLive(token)
      PROVE  ask[token].name \in Names /\ installed[ask[token].name] = token
  BY <1>1, <1>2 DEF IsLive, IInv, FileInv
<1>3. ASSUME NEW f \in Files, Content(f) = token PROVE IsLive(token)
  BY <1>1, <1>3 DEF Content, Files, IsLive
<1> QED
  BY <1>2, <1>3

(* Request preserves the inductive invariant. *)
LEMMA RequestKeeps == ASSUME IInv, NEW k \in Scans, NEW token \in Tokens, Request(k, token) PROVE IInv'
<1> DEFINE r == [NoScan EXCEPT !.phase = "reading", !.token = token, !.live = IsLive(token),
                               !.unread = Present]
<1>1. /\ scan' = [scan EXCEPT ![k] = r] /\ token \in granted
      /\ UNCHANGED <<db, view, stale, writer, installed, temporary, creating, owner, expired,
                     ask, agent, handler, tokenFile, granted, revoked>>
  BY DEF Request, ScanStart, sqliteVars, directoryVars, codeVars, sessionVars, history
<1>2. Present \subseteq Files /\ IsLive(token) \in BOOLEAN
  BY DEF Present, Files, IsLive
<1>3. /\ r \in ScanRecord /\ r.phase = "reading" /\ r.token = token /\ r.live = IsLive(token)
      /\ r.unread = Present /\ ~r.matched /\ r.answer = "none"
  BY <1>2 DEF NoScan, ScanRecord, Answers
<1>4. IsLive(token) => ask[token].name \in Present
  BY <1>1, TokenIsItsFile, CredentialAssumption DEF Present, IInv, TypeOK
<1> HIDE DEF r
<1> QED
  BY <1>1, <1>3, <1>4, ScanStep

(* Authorize preserves the inductive invariant. *)
LEMMA AuthorizeKeeps == ASSUME IInv, NEW k \in Scans, Authorize(k) PROVE IInv'
<1> DEFINE r == scan[k]
<1>1. UNCHANGED <<db, view, stale, writer, installed, temporary, creating, owner, expired,
                  ask, agent, handler, tokenFile, granted, revoked>>
  <2>1. UNCHANGED directoryVars
    BY DEF Authorize, Scanning, ScanNotice, ScanMiss, ScanRead, ScanEnd, ScanFails
  <2>2. UNCHANGED <<sqliteVars, codeVars, sessionVars, tokenFile, history>>
    BY DEF Authorize
  <2> QED
    BY ONLY <2>1, <2>2 DEF sqliteVars, directoryVars, codeVars, sessionVars, history
<1>2. r \in ScanRecord /\ r.phase = "reading" /\ r.token \in granted /\ r.answer = "none"
  BY DEF Authorize, Scanning, ScanNotice, ScanMiss, ScanRead, ScanEnd, ScanFails,
         IInv, TypeOK, DirectoryTypeOK, ScanInv, ScanOK
<1>3. /\ ~r.live => ~r.matched /\ ~IsLive(r.token)
      /\ r.live /\ ~r.matched /\ IsLive(r.token) => ask[r.token].name \in r.unread
  BY <1>2 DEF IInv, ScanInv, ScanOK
<1>4. /\ IsLive(r.token) => ask[r.token].name \in Names /\ installed[ask[r.token].name] = r.token
      /\ \A f \in Files : Content(f) = r.token => IsLive(r.token)
      /\ r.token # NoToken
  BY <1>2, TokenIsItsFile, CredentialAssumption DEF IInv, TypeOK
<1> HIDE DEF r
<1>5. ASSUME NEW f \in Files, ScanNotice(k, f) PROVE IInv'
  <2> DEFINE q == [r EXCEPT !.unread = @ \cup {f}]
  <2>1. scan' = [scan EXCEPT ![k] = q]
    BY <1>5 DEF ScanNotice, r
  <2>2. /\ q \in ScanRecord /\ q.phase = "reading" /\ q.token = r.token /\ q.live = r.live
        /\ q.matched = r.matched /\ q.answer = "none" /\ q.unread = r.unread \cup {f}
    BY <1>2 DEF ScanRecord
  <2> HIDE DEF q
  <2> QED
    BY <1>1, <1>2, <1>3, <2>1, <2>2, ScanStep
<1>6. ASSUME NEW f \in Files, ScanMiss(k, f) PROVE IInv'
  <2> DEFINE q == [r EXCEPT !.unread = @ \ {f}]
  <2>1. scan' = [scan EXCEPT ![k] = q] /\ f \notin Present
    BY <1>6 DEF ScanMiss, r
  <2>2. /\ q \in ScanRecord /\ q.phase = "reading" /\ q.token = r.token /\ q.live = r.live
        /\ q.matched = r.matched /\ q.answer = "none" /\ q.unread = r.unread \ {f}
    BY <1>2 DEF ScanRecord
  <2>3. IsLive(r.token) => ask[r.token].name # f
    BY <1>4, <2>1 DEF Present
  <2> HIDE DEF q
  <2> QED
    BY <1>1, <1>2, <1>3, <2>1, <2>2, <2>3, ScanStep
<1>7. ASSUME NEW f \in Files, ScanRead(k, f) PROVE IInv'
  <2> DEFINE q == [r EXCEPT !.matched = Matches(r, Content(f)), !.unread = @ \ {f}, !.read = @ \cup {f}]
  <2>1. scan' = [scan EXCEPT ![k] = q] /\ f \in Present
    BY <1>7 DEF ScanRead, r
  <2>2. Matches(r, Content(f)) \in BOOLEAN /\ (Matches(r, Content(f)) <=> r.matched \/ Content(f) = r.token)
    BY <1>2 DEF Matches, ScanRecord
  <2>3. /\ q \in ScanRecord /\ q.phase = "reading" /\ q.token = r.token /\ q.live = r.live
        /\ q.matched = Matches(r, Content(f)) /\ q.answer = "none" /\ q.unread = r.unread \ {f}
    BY <1>2, <2>2 DEF ScanRecord
  <2>4. ~q.live => ~q.matched /\ ~IsLive(q.token)
    BY <1>3, <1>4, <2>2, <2>3
  <2>5. IsLive(r.token) /\ ~q.matched => ask[r.token].name # f
    BY <1>4, <2>2, <2>3 DEF Content
  <2> HIDE DEF q
  <2> QED
    BY <1>1, <1>2, <1>3, <2>1, <2>2, <2>3, <2>4, <2>5, ScanStep
<1>8. ASSUME NEW answer \in Answers, scan' = [scan EXCEPT ![k] = Finished(@, answer)],
             answer = "yes" => r.matched,
             answer = "no" => ~r.matched /\ r.unread = {}
      PROVE  IInv'
  <2> DEFINE q == Finished(r, answer)
  <2>1. scan' = [scan EXCEPT ![k] = q]
    BY <1>8 DEF r
  <2>2. IsLive(r.token) \in BOOLEAN
    BY DEF IsLive
  <2>3. /\ q \in ScanRecord /\ q.phase = "done" /\ q.token = r.token /\ q.live = r.live
        /\ q.answer = answer /\ q.kept = IsLive(r.token)
    BY <1>2, <2>2 DEF Finished, ScanRecord, Answers
  <2>4. q.answer = "yes" => q.live
    BY <1>2, <1>3, <1>8, <2>3 DEF ScanRecord
  <2>5. q.answer = "no" => ~(q.live /\ q.kept)
    BY <1>3, <1>8, <2>3
  <2> HIDE DEF q
  <2> QED
    BY <1>1, <1>2, <2>1, <2>3, <2>4, <2>5, ScanStep
<1>9. CASE ScanEnd(k)
  BY <1>8, <1>9 DEF ScanEnd, Answers, r
<1>10. CASE ScanFails(k)
  BY <1>8, <1>10 DEF ScanFails, Answers, r
<1>11. Scanning(k)
  BY DEF Authorize
<1> QED
  BY <1>5, <1>6, <1>7, <1>9, <1>10, <1>11 DEF Scanning

(* ServerCrash preserves the inductive invariant. *)
LEMMA ServerCrashKeeps == ASSUME IInv, ServerCrash PROVE IInv'
<1>1. /\ db' = db /\ view' = [c \in Connections |-> NoTxn] /\ stale' = {} /\ writer' = NoConn
      /\ handler' = [s \in Sessions |-> IF handler[s] = "idle" THEN "idle" ELSE "over"]
      /\ scan' = [k \in Scans |-> NoScan]
      /\ UNCHANGED <<installed, temporary, creating, owner, expired,
                     ask, agent, tokenFile, granted, revoked>>
  BY DEF ServerCrash, LoseConnections, directoryVars, codeVars, history
<1>2. NoScan \in ScanRecord
  BY DEF NoScan, ScanRecord, Answers
<1>3. TypeOK'
  BY <1>1, <1>2, SessionsAssumption DEF IInv, TypeOK, DirectoryTypeOK, HandlerPhases, Transacting
<1>4. TxnInv' /\ AskInv' /\ ViewInv'
  BY <1>1, SessionsAssumption DEF IInv, TxnInv, AskInv, ViewInv, Writing, Transacting
<1>5. CodeInv'
  BY <1>1, CodeFrame DEF IInv
<1>6. FileInv'
  <2>1. \A n \in Names : installed[n] # NoToken => handler'[installed[n]] = "over"
    BY <1>1 DEF IInv, FileInv, Linked, TypeOK, DirectoryTypeOK, Tokens
  <2> QED
    BY <1>1, <2>1 DEF IInv, FileInv, Linked
<1>7. GrantInv'
  <2>1. GrantedOnce' /\ GrantedWorks'
    BY <1>1 DEF IInv, GrantInv, GrantedOnce, GrantedWorks, Kept
  <2>2. ConsumedIsInstalled'
    BY <1>1 DEF IInv, GrantInv, ConsumedIsInstalled, Kept
  <2> QED
    BY <1>1, <2>1, <2>2 DEF IInv, GrantInv, TypeOK
<1>8. ScanInv'
  BY <1>1 DEF ScanInv, ScanOK, YesWasLive, Authorized, SteadyIsFound, NoScan
<1> QED
  BY <1>3, <1>4, <1>5, <1>6, <1>7, <1>8 DEF IInv

-----------------------------------------------------------------------------
(* Theorems *)

(* Every step of an agent, a handler, the operator or a scan preserves the *)
(* invariant.                                                              *)
LEMMA NextKeepsIInv == IInv /\ [Next]_vars => IInv'
<1> SUFFICES ASSUME IInv, [Next]_vars PROVE IInv'
  OBVIOUS
<1>1. ASSUME NEW c \in Codes, WriteCodeFile(c) \/ InsertCode(c) \/ CreateFails(c) \/ Expire(c)
      PROVE  IInv'
  <2>1. CASE WriteCodeFile(c) \/ CreateFails(c)
    BY <2>1, CreationKeeps DEF WriteCodeFile, CreateFails, CreatePhases
  <2> QED
    BY <1>1, <2>1, InsertCodeKeeps, ExpireKeeps
<1>2. ASSUME NEW s \in Sessions, NEW n \in Names, NEW c \in Codes, AgentAsks(s, n, c) PROVE IInv'
  BY <1>2, AgentAsksKeeps
<1>3. ASSUME NEW s \in Sessions, Consuming(s) PROVE IInv'
  <2>1. CASE NameIsFree(s) \/ RefuseTaken(s) \/ RefuseCode(s)
    BY <2>1, WaitingMoves DEF NameIsFree, RefuseTaken, RefuseCode
  <2> QED
    BY <1>3, <2>1, SelectCodeKeeps, ConsumeKeeps, TemporaryKeeps, InstallKeeps,
       CommitEnrollmentKeeps, HandlerFailsKeeps DEF Consuming
<1>4. ASSUME NEW s \in Sessions,
             \/ AgentGivesUp(s) \/ AgentDenied(s) \/ AgentReceives(s)
             \/ AgentWritesToken(s) \/ AgentRefuses(s)
      PROVE  IInv'
  BY <1>4, AgentGivesUpKeeps, AgentDeniedKeeps, AgentReceivesKeeps, AgentWritesTokenKeeps,
     AgentRefusesKeeps
<1>5. ASSUME NEW n \in Names, Revoke(n) \/ RemoveTokenFile(n) PROVE IInv'
  BY <1>5, RevokeKeeps, RemoveTokenFileKeeps
<1>6. ASSUME NEW k \in Scans, Authorize(k) \/ \E token \in Tokens : Request(k, token) PROVE IInv'
  BY <1>6, AuthorizeKeeps, RequestKeeps
<1>7. CASE OtherCommit \/ ServerCrash
  BY <1>7, OtherCommitKeeps, ServerCrashKeeps
<1>8. CASE UNCHANGED vars
  <2>1. UNCHANGED <<db, view, stale, writer, installed, temporary, scan, creating, owner, expired,
                    ask, agent, handler, tokenFile, granted, revoked>>
    BY <1>8 DEF vars, sqliteVars, directoryVars, codeVars, sessionVars, history
  <2>2. TypeOK'
    BY <2>1 DEF IInv, TypeOK, DirectoryTypeOK
  <2> QED
    BY <2>1, <2>2, TxnFrame, AskFrame, ViewFrame, CodeFrame, FileFrame, GrantFrame, ScanFrame DEF IInv
<1> QED
  BY <1>1, <1>2, <1>3, <1>4, <1>5, <1>6, <1>7, <1>8 DEF Next

(* The inductive invariant holds in every state of enrollment. *)
THEOREM Invariance == Spec => []IInv
<1> QED
  BY InitIInv, NextKeepsIInv, PTL DEF Spec

(* The tables, files and positions keep their types, and a handler has a   *)
(* transaction open exactly between its SELECT and its end.                *)
THEOREM TypeCorrect == Spec => []TypeOK
<1>1. IInv => TypeOK
  BY DEF IInv
<1> QED
  BY <1>1, Invariance, PTL

(* A code yields at most one token, however many sessions race for it.     *)
THEOREM Once == Spec => []GrantedOnce
<1>1. IInv => GrantedOnce
  BY DEF IInv, GrantInv
<1> QED
  BY <1>1, Invariance, PTL

(* A code is used up only together with a credential in the directory.     *)
THEOREM NothingWasted == Spec => []ConsumedIsInstalled
<1>1. IInv => ConsumedIsInstalled
  BY DEF IInv, GrantInv
<1> QED
  BY <1>1, Invariance, PTL

(* A token that was handed out works until an operator removes it.         *)
THEOREM TokensWork == Spec => []GrantedWorks
<1>1. IInv => GrantedWorks
  BY DEF IInv, GrantInv
<1> QED
  BY <1>1, Invariance, PTL

(* authorized() says yes only to a token that was in a credential file     *)
(* when the scan began (FileCredentialStore::authorized).                  *)
THEOREM YesIsRight == Spec => []YesWasLive
<1>1. IInv => YesWasLive
  BY DEF IInv, ScanInv
<1> QED
  BY <1>1, Invariance, PTL

(* It never says no to a token that was in a credential file all the time, *)
(* whatever else was put into the directory or taken out of it meanwhile.  *)
THEOREM NoIsRight == Spec => []SteadyIsFound
<1>1. IInv => SteadyIsFound
  BY DEF IInv, ScanInv
<1> QED
  BY <1>1, Invariance, PTL

(* No step puts one token in the place of another. *)
THEOREM Irreplaceable == Spec => NeverReplaced
<1>1. ASSUME IInv, Next, NEW n \in Names, installed[n] # NoToken
      PROVE  installed'[n] \in {installed[n], NoToken}
  <2>1. CASE UNCHANGED installed
    BY <2>1
  <2>a. installed \in [Names -> Tokens \cup {NoToken}]
    BY <1>1 DEF IInv, TypeOK, DirectoryTypeOK
  <2>2. ASSUME NEW s \in Sessions, Install(s) PROVE installed'[n] = installed[n]
    <3>1. \E m : installed[m] = NoToken /\ installed' = [installed EXCEPT ![m] = s]
      BY <2>2 DEF Install, LinkCredential, Taken
    <3> QED
      BY ONLY <1>1, <2>a, <3>1
  <2>3. ASSUME NEW m \in Names, Revoke(m) PROVE installed'[n] \in {installed[n], NoToken}
    <3>1. installed' = [installed EXCEPT ![m] = NoToken]
      BY <2>3 DEF Revoke, RemoveCredential
    <3> QED
      BY ONLY <1>1, <2>a, <3>1
  <2>4. \/ UNCHANGED installed
        \/ \E s \in Sessions : Install(s)
        \/ \E m \in Names : Revoke(m)
    BY <1>1 DEF Next, WriteCodeFile, InsertCode, CreateFails, Creation, Expire, AgentAsks,
                AgentGivesUp, Consuming, NameIsFree, RefuseTaken, SelectCode, RefuseCode, Consume,
                OpenTemporary, CreateTemporary, SyncTemporary, FillTemporary, Unlink,
                RemoveTemporary, CommitEnrollment, HandlerFails, AgentDenied, AgentReceives,
                AgentWritesToken, AgentRefuses, RemoveTokenFile, Authorize, Scanning, ScanNotice,
                ScanMiss, ScanRead, ScanEnd, ScanFails, Request, ScanStart, OtherCommit,
                ServerCrash, directoryVars
  <2> QED
    BY <2>1, <2>2, <2>3, <2>4
<1>2. IInv /\ [Next]_vars =>
        [\A n \in Names : installed[n] # NoToken => installed'[n] \in {installed[n], NoToken}]_vars
  BY <1>1
<1> QED
  BY <1>2, Invariance, PTL DEF Spec, NeverReplaced
=============================================================================
