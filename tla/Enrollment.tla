------------------------------ MODULE Enrollment ------------------------------
(***************************************************************************)
(* How an agent gets its credential: beacon-server agent create            *)
(* (create_enrollment), POST /v1/enroll (enroll_agent and                  *)
(* consume_enrollment) in src/src/server.rs, beacon-agent enroll (enroll   *)
(* and write_token) in src/src/agent.rs, and requests authorised meanwhile.*)
(*                                                                         *)
(* A session is one run of the agent's command, the request it posts and   *)
(* the handler that serves it.  The handler's work is a transaction on the *)
(* database and four steps on the credentials directory, one after the     *)
(* other; anything may fail, and the server or the agent die, between any  *)
(* two.  The agent gives up after its timeout while the handler runs on.   *)
(***************************************************************************)
EXTENDS CredentialStore, Sqlite

CONSTANTS
  Codes,     \* the runs of agent create; each makes its own code
  NoRow,     \* "no such code in the enrollments table"
  NoAsk      \* the request of a session that has not begun

VARIABLES
  creating,   \* where each run of agent create is
  owner,      \* the name each code was created for
  expired,    \* the codes whose expires_at has passed
  ask,        \* the name and the code each session posts
  agent,      \* where each session's agent is
  handler,    \* where each session's handler is
  tokenFile,  \* tokenFile[n]: the token in the token file of agent n
  granted,    \* history: the sessions whose handler had a token to answer
  revoked     \* history: the tokens whose credential file an operator removed

codeVars == <<creating, owner, expired>>
sessionVars == <<ask, agent, handler>>
history == <<granted, revoked>>
vars == <<sqliteVars, directoryVars, scan, codeVars, sessionVars, tokenFile, history>>

ASSUME SessionsAssumption == Sessions \subseteq Connections

Row == [name : Names, consumed : BOOLEAN]
Database == [enrollments : [Codes -> Row \cup {NoRow}]]
Asks == [name : Names, code : Codes]

ASSUME ValuesAssumption == NoTxn \notin Database /\ NoRow \notin Row /\ NoAsk \notin Asks

CreatePhases == {"idle", "written", "created", "failed"}
AgentPhases == {"idle", "waiting", "received", "enrolled", "failed", "refused"}
HandlerPhases == {"idle", "asked", "named", "selected", "consumed", "temporary", "whole",
                  "linked", "unlinked", "granted", "denied", "over"}

(* The phases in which the handler has an open transaction. *)
Transacting == {"selected", "consumed", "temporary", "whole", "linked", "unlinked"}

TypeOK ==
  /\ db \in Database
  /\ view \in [Connections -> Database \cup {NoTxn}]
  /\ \A s \in Sessions : view[s] # NoTxn <=> handler[s] \in Transacting
  /\ stale \subseteq Connections
  /\ writer \in Connections \cup {NoConn}
  /\ DirectoryTypeOK
  /\ creating \in [Codes -> CreatePhases]
  /\ owner \in [Codes -> Names]
  /\ expired \subseteq Codes
  /\ ask \in [Sessions -> Asks \cup {NoAsk}]
  /\ agent \in [Sessions -> AgentPhases]
  /\ handler \in [Sessions -> HandlerPhases]
  /\ tokenFile \in [Names -> Tokens \cup {NoToken}]
  /\ granted \subseteq Sessions
  /\ revoked \subseteq Sessions

Init ==
  /\ SqliteInit([enrollments |-> [c \in Codes |-> NoRow]])
  /\ DirectoryInit
  /\ creating = [c \in Codes |-> "idle"]
  /\ owner \in [Codes -> Names]
  /\ expired = {}
  /\ ask = [s \in Sessions |-> NoAsk]
  /\ agent = [s \in Sessions |-> "idle"]
  /\ handler = [s \in Sessions |-> "idle"]
  /\ tokenFile = [n \in Names |-> NoToken]
  /\ granted = {}
  /\ revoked = {}

-----------------------------------------------------------------------------
(* beacon-server agent create *)

Creation(c, phase) ==
  /\ creating' = [creating EXCEPT ![c] = phase]
  /\ UNCHANGED <<directoryVars, scan, owner, expired, sessionVars, tokenFile, history>>

(* The code file comes first ... *)
WriteCodeFile(c) ==
  /\ creating[c] = "idle"
  /\ Creation(c, "written")
  /\ UNCHANGED sqliteVars

(* ... then the row, by a statement that commits by itself. *)
InsertCode(c) ==
  /\ creating[c] = "written"
  /\ Autocommit([db EXCEPT !.enrollments[c] = [name |-> owner[c], consumed |-> FALSE]])
  /\ Creation(c, "created")

(* The INSERT fails and the code file is removed. *)
CreateFails(c) ==
  /\ creating[c] = "written"
  /\ Creation(c, "failed")
  /\ UNCHANGED sqliteVars

Expire(c) ==
  /\ db.enrollments[c] # NoRow
  /\ c \notin expired
  /\ expired' = expired \cup {c}
  /\ UNCHANGED <<sqliteVars, directoryVars, scan, creating, owner, sessionVars,
                 tokenFile, history>>

-----------------------------------------------------------------------------
(* beacon-agent enroll, up to its request *)

AgentGoto(s, phase) == agent' = [agent EXCEPT ![s] = phase]
Goto(s, phase) == handler' = [handler EXCEPT ![s] = phase]

(* The agent reads its copy of a code file and posts it with its name. *)
AgentAsks(s, n, c) ==
  /\ agent[s] = "idle"
  /\ creating[c] \in {"written", "created"}
  /\ ask' = [ask EXCEPT ![s] = [name |-> n, code |-> c]]
  /\ AgentGoto(s, "waiting")
  /\ Goto(s, "asked")
  /\ UNCHANGED <<sqliteVars, directoryVars, scan, codeVars, tokenFile, history>>

(* The timeout, a connection error, or the command is killed. *)
AgentGivesUp(s) ==
  /\ agent[s] \in {"waiting", "received"}
  /\ AgentGoto(s, "failed")
  /\ UNCHANGED <<sqliteVars, directoryVars, scan, codeVars, ask, handler, tokenFile, history>>

-----------------------------------------------------------------------------
(* POST /v1/enroll: consume_enrollment, one step per call that matters *)

Stays == UNCHANGED <<scan, codeVars, ask, agent, tokenFile, revoked>>

NameIsFree(s) ==
  /\ handler[s] = "asked"
  /\ ~Taken(ask[s].name)
  /\ Goto(s, "named")
  /\ UNCHANGED <<sqliteVars, directoryVars, granted>>
  /\ Stays

RefuseTaken(s) ==
  /\ handler[s] = "asked"
  /\ Taken(ask[s].name)
  /\ Goto(s, "denied")
  /\ UNCHANGED <<sqliteVars, directoryVars, granted>>
  /\ Stays

(* Mutant: consumed_at is not looked at. *)
UsableAgain(s) ==
  LET row == db.enrollments[ask[s].code]
  IN  row # NoRow /\ row.name = ask[s].name /\ ask[s].code \notin expired

(* The code is known, for this name, unused and not expired. *)
Usable(s) ==
  LET row == db.enrollments[ask[s].code]
  IN  /\ row # NoRow
      /\ row.name = ask[s].name
      /\ ~row.consumed
      /\ ask[s].code \notin expired

SelectCode(s) ==
  /\ handler[s] = "named"
  /\ Usable(s)
  /\ Begin(s)
  /\ Goto(s, "selected")
  /\ UNCHANGED <<directoryVars, granted>>
  /\ Stays

RefuseCode(s) ==
  /\ handler[s] = "named"
  /\ ~Usable(s)
  /\ Goto(s, "denied")
  /\ UNCHANGED <<sqliteVars, directoryVars, granted>>
  /\ Stays

ConsumedIn(d, s) == [d EXCEPT !.enrollments[ask[s].code].consumed = TRUE]

(* Mutant: the UPDATE is not part of the transaction. *)
ConsumeAlone(s) ==
  /\ handler[s] = "selected"
  /\ MayWrite(s)
  /\ db' = ConsumedIn(db, s)
  /\ view' = [view EXCEPT ![s] = ConsumedIn(@, s)]
  /\ writer' = s
  /\ stale' = OpenTxns \ {s}
  /\ Goto(s, "consumed")
  /\ UNCHANGED <<directoryVars, granted>>
  /\ Stays

Consume(s) ==
  /\ handler[s] = "selected"
  /\ Write(s, ConsumedIn(view[s], s))
  /\ Goto(s, "consumed")
  /\ UNCHANGED <<directoryVars, granted>>
  /\ Stays

(* write_credential: it looks again whether the name is taken ... *)
OpenTemporary(s) ==
  /\ handler[s] = "consumed"
  /\ ~Taken(ask[s].name)
  /\ CreateTemporary(s)
  /\ Goto(s, "temporary")
  /\ UNCHANGED <<sqliteVars, granted>>
  /\ Stays

SyncTemporary(s) ==
  /\ handler[s] = "temporary"
  /\ FillTemporary(s)
  /\ Goto(s, "whole")
  /\ UNCHANGED <<sqliteVars, granted>>
  /\ Stays

(* ... and hard_link does, too. *)
Install(s) ==
  /\ handler[s] = "whole"
  /\ LinkCredential(s, ask[s].name)
  /\ Goto(s, "linked")
  /\ UNCHANGED <<sqliteVars, granted>>
  /\ Stays

Unlink(s) ==
  /\ handler[s] = "linked"
  /\ RemoveTemporary(s)
  /\ Goto(s, "unlinked")
  /\ UNCHANGED <<sqliteVars, granted>>
  /\ Stays

CommitEnrollment(s) ==
  /\ handler[s] = "unlinked"
  /\ Commit(s)
  /\ granted' = granted \cup {s}
  /\ Goto(s, "granted")
  /\ UNCHANGED directoryVars
  /\ Stays

(* Mutant: the failure path tidies up the credential file of the name. *)
TidyUp(s) ==
  /\ handler[s] \in {"named"} \cup Transacting
  /\ Rollback(s)
  /\ Goto(s, "denied")
  /\ installed' = [installed EXCEPT ![ask[s].name] = NoToken]
  /\ UNCHANGED <<temporary, granted>>
  /\ Stays

(* Mutant: the connection goes back to a pool with its transaction open. *)
FailsInTransaction(s) ==
  /\ handler[s] \in {"named"} \cup Transacting
  /\ Goto(s, "denied")
  /\ UNCHANGED <<sqliteVars, directoryVars, granted>>
  /\ Stays

(* A statement fails, among them the UPDATE that cannot upgrade a stale    *)
(* transaction or finds another writer; or a file operation does, among    *)
(* them the ones that find the name taken.  The transaction is dropped and *)
(* whatever files there are stay.                                          *)
HandlerFails(s) ==
  /\ handler[s] \in {"named"} \cup Transacting
  /\ Rollback(s)
  /\ Goto(s, "denied")
  /\ UNCHANGED <<directoryVars, granted>>
  /\ Stays

Consuming(s) ==
  \/ NameIsFree(s) \/ RefuseTaken(s) \/ SelectCode(s) \/ RefuseCode(s) \/ Consume(s)
  \/ OpenTemporary(s) \/ SyncTemporary(s) \/ Install(s) \/ Unlink(s)
  \/ CommitEnrollment(s) \/ HandlerFails(s)

-----------------------------------------------------------------------------
(* beacon-agent enroll, from the answer on *)

AgentDenied(s) ==
  /\ agent[s] = "waiting" /\ handler[s] = "denied"
  /\ AgentGoto(s, "failed") /\ Goto(s, "over")
  /\ UNCHANGED <<sqliteVars, directoryVars, scan, codeVars, ask, tokenFile, history>>

AgentReceives(s) ==
  /\ agent[s] = "waiting" /\ handler[s] = "granted"
  /\ AgentGoto(s, "received") /\ Goto(s, "over")
  /\ UNCHANGED <<sqliteVars, directoryVars, scan, codeVars, ask, tokenFile, history>>

(* write_token: no token file is there yet. *)
AgentWritesToken(s) ==
  /\ agent[s] = "received"
  /\ tokenFile[ask[s].name] = NoToken
  /\ tokenFile' = [tokenFile EXCEPT ![ask[s].name] = s]
  /\ AgentGoto(s, "enrolled")
  /\ UNCHANGED <<sqliteVars, directoryVars, scan, codeVars, ask, handler, history>>

(* write_token: one is there, and the command ends without the token. *)
AgentRefuses(s) ==
  /\ agent[s] = "received"
  /\ tokenFile[ask[s].name] # NoToken
  /\ AgentGoto(s, "refused")
  /\ UNCHANGED <<sqliteVars, directoryVars, scan, codeVars, ask, handler, tokenFile, history>>

-----------------------------------------------------------------------------
(* The operator, the rest of the server, and the death of the server *)

Revoke(n) ==
  /\ RemoveCredential(n)
  /\ revoked' = revoked \cup {installed[n]}
  /\ UNCHANGED <<sqliteVars, scan, codeVars, sessionVars, tokenFile, granted>>

RemoveTokenFile(n) ==
  /\ tokenFile[n] # NoToken
  /\ tokenFile' = [tokenFile EXCEPT ![n] = NoToken]
  /\ UNCHANGED <<sqliteVars, directoryVars, scan, codeVars, sessionVars, history>>

(* An event is accepted: the enrollments stay, every snapshot is outdated. *)
OtherCommit ==
  /\ OpenTxns # {}
  /\ Autocommit(db)
  /\ UNCHANGED <<directoryVars, scan, codeVars, sessionVars, tokenFile, history>>

(* A client knows its token once the server has answered with it. *)
Request(k, token) ==
  /\ token \in granted
  /\ ScanStart(k, token)
  /\ UNCHANGED <<sqliteVars, codeVars, sessionVars, tokenFile, history>>

Authorize(k) ==
  /\ Scanning(k)
  /\ UNCHANGED <<sqliteVars, codeVars, sessionVars, tokenFile, history>>

ServerCrash ==
  /\ LoseConnections
  /\ handler' = [s \in Sessions |-> IF handler[s] = "idle" THEN "idle" ELSE "over"]
  /\ scan' = [k \in Scans |-> NoScan]
  /\ UNCHANGED <<directoryVars, codeVars, ask, agent, tokenFile, history>>

Next ==
  \/ \E c \in Codes : WriteCodeFile(c) \/ InsertCode(c) \/ CreateFails(c) \/ Expire(c)
  \/ \E s \in Sessions :
       \/ \E n \in Names, c \in Codes : AgentAsks(s, n, c)
       \/ AgentGivesUp(s) \/ Consuming(s) \/ AgentDenied(s) \/ AgentReceives(s)
       \/ AgentWritesToken(s) \/ AgentRefuses(s)
  \/ \E n \in Names : Revoke(n) \/ RemoveTokenFile(n)
  \/ \E k \in Scans : Authorize(k) \/ \E token \in Tokens : Request(k, token)
  \/ OtherCommit
  \/ ServerCrash

Spec == Init /\ [][Next]_vars

-----------------------------------------------------------------------------
(* Properties *)

(* A code yields at most one token, however its uses race and whatever     *)
(* happened to the credential of the first one since.                      *)
GrantedOnce ==
  \A s, r \in granted : ask[s].code = ask[r].code => s = r

Kept(s) == installed[ask[s].name] = s \/ s \in revoked

(* A code is marked used only together with a credential: no failure or    *)
(* crash uses it up without one in the directory, until an operator        *)
(* removes that.                                                           *)
ConsumedIsInstalled ==
  \A c \in Codes :
    (db.enrollments[c] # NoRow /\ db.enrollments[c].consumed) =>
      \E s \in granted : ask[s].code = c /\ Kept(s)

(* A token the server answers with, and so every token an agent keeps, is  *)
(* the credential of that agent until an operator removes it, and its code *)
(* is used up for ever: no other enrollment, finished or failed, undoes    *)
(* either.                                                                 *)
GrantedWorks ==
  /\ \A s \in granted :
       /\ db.enrollments[ask[s].code].consumed
       /\ Kept(s)
  /\ \A n \in Names : tokenFile[n] # NoToken => tokenFile[n] \in granted

(* No enrollment replaces a credential in place: between two tokens in one *)
(* file there is always an operator who removed the first.                 *)
NeverReplaced ==
  [][\A n \in Names : installed[n] # NoToken => installed'[n] \in {installed[n], NoToken}]_vars

(* A request with a token that is not, or no longer, in a credential file  *)
(* when it arrives is refused, whatever temporary files other enrollments  *)
(* left in the directory: removing a credential takes effect at once.      *)
YesWasLive == \A k \in Scans : Authorized(k) => scan[k].live

(* A scan that reads to its end finds a credential that was there all the  *)
(* time, whatever came and went beside it.                                 *)
SteadyIsFound ==
  \A k \in Scans : scan[k].answer = "no" => ~(scan[k].live /\ scan[k].kept)
=============================================================================
