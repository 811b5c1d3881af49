--------------------------- MODULE CredentialStore ---------------------------
(***************************************************************************)
(* The credentials directory of the server and the scan of it that         *)
(* authorises a request: CredentialStore, authorized and write_secret_file *)
(* of src/src/server.rs.                                                   *)
(*                                                                         *)
(* The directory holds one <name>.token per agent and the temporary file   *)
(* (.<uuid>.tmp) of every enrollment that is writing one, or that died     *)
(* while it did.  A scan opens the directory, then reads every regular     *)
(* file in it; files come and go between its steps.  As POSIX has it, a    *)
(* file there from the opening to the end is listed once, one that comes   *)
(* or goes meanwhile may be listed or not.                                 *)
(***************************************************************************)
EXTENDS FiniteSets

CONSTANTS
  Names,      \* the agents' names
  Sessions,   \* the enrollments; each makes its own token and temporary file
  Scans,      \* the requests that are authorised; each scans once
  NoToken     \* the content of a file that holds no whole token

VARIABLES
  installed,  \* installed[n]: the token in n.token, NoToken when there is none
  temporary,  \* temporary[s]: the temporary file of session s
  scan        \* the scans

directoryVars == <<installed, temporary>>

ASSUME CredentialAssumption ==
  /\ Names \cap Sessions = {}
  /\ NoToken \notin Names \cup Sessions

Tokens == Sessions
Files == Names \cup Sessions
TemporaryStates == {"absent", "partial", "whole"}
Answers == {"none", "yes", "no", "error"}

NoScan ==
  [phase |-> "idle", token |-> NoToken, live |-> FALSE, unread |-> {}, read |-> {},
   matched |-> FALSE, answer |-> "none", kept |-> FALSE]

(* live and kept are history: whether the token's credential file was      *)
(* there when the scan began, and was still there when it ended.           *)
ScanRecord ==
  [phase : {"idle", "reading", "done"}, token : Tokens \cup {NoToken}, live : BOOLEAN,
   unread : SUBSET Files, read : SUBSET Files,
   matched : BOOLEAN, answer : Answers, kept : BOOLEAN]

DirectoryTypeOK ==
  /\ installed \in [Names -> Tokens \cup {NoToken}]
  /\ temporary \in [Sessions -> TemporaryStates]
  /\ scan \in [Scans -> ScanRecord]

DirectoryInit ==
  /\ installed = [n \in Names |-> NoToken]
  /\ temporary = [s \in Sessions |-> "absent"]
  /\ scan = [k \in Scans |-> NoScan]

-----------------------------------------------------------------------------
(* The files *)

(* Mutant: nobody looks whether the file is there, and rename replaces it. *)
NeverTaken(n) == FALSE

(* path.exists(), and what makes hard_link fail. *)
Taken(n) == installed[n] # NoToken

Present == {n \in Names : installed[n] # NoToken} \cup
           {s \in Sessions : temporary[s] # "absent"}

Content(f) ==
  IF f \in Names THEN installed[f]
  ELSE IF temporary[f] = "whole" THEN f ELSE NoToken

(* The four steps of write_secret_file; the caller adds its guards. *)
CreateTemporary(s) ==
  /\ temporary' = [temporary EXCEPT ![s] = "partial"]
  /\ UNCHANGED installed

FillTemporary(s) ==
  /\ temporary' = [temporary EXCEPT ![s] = "whole"]
  /\ UNCHANGED installed

LinkCredential(s, n) ==
  /\ ~Taken(n)
  /\ installed' = [installed EXCEPT ![n] = s]
  /\ UNCHANGED temporary

(* Mutant: the temporary file stays beside the credential. *)
KeepTemporary(s) == UNCHANGED directoryVars

RemoveTemporary(s) ==
  /\ temporary' = [temporary EXCEPT ![s] = "absent"]
  /\ UNCHANGED installed

(* The operator removes a credential file. *)
RemoveCredential(n) ==
  /\ installed[n] # NoToken
  /\ installed' = [installed EXCEPT ![n] = NoToken]
  /\ UNCHANGED temporary

-----------------------------------------------------------------------------
(* CredentialStore::authorized *)

IsLive(token) == \E n \in Names : installed[n] = token

(* A request with a bearer token arrives, and the directory is opened. *)
ScanStart(k, token) ==
  /\ scan[k].phase = "idle"
  /\ scan' = [scan EXCEPT ![k] =
       [NoScan EXCEPT !.phase = "reading", !.token = token, !.live = IsLive(token),
                      !.unread = Present]]
  /\ UNCHANGED directoryVars

(* A file that came after the opening is listed all the same. *)
ScanNotice(k, f) ==
  /\ scan[k].phase = "reading"
  /\ f \in Present \ (scan[k].unread \cup scan[k].read)
  /\ scan' = [scan EXCEPT ![k].unread = @ \cup {f}]
  /\ UNCHANGED directoryVars

(* A file that went after the opening is not listed. *)
ScanMiss(k, f) ==
  /\ scan[k].phase = "reading"
  /\ f \in scan[k].unread \ Present
  /\ scan' = [scan EXCEPT ![k].unread = @ \ {f}]
  /\ UNCHANGED directoryVars

(* Mutant: the last file read decides. *)
LastDecides(r, content) == content = r.token

(* matched |= equal; an empty or half-written file equals no token. *)
Matches(r, content) == r.matched \/ content = r.token

ScanRead(k, f) ==
  /\ scan[k].phase = "reading"
  /\ f \in scan[k].unread \cap Present
  /\ scan' = [scan EXCEPT ![k].matched = Matches(scan[k], Content(f)),
                          ![k].unread = @ \ {f}, ![k].read = @ \cup {f}]
  /\ UNCHANGED directoryVars

Finished(r, answer) ==
  [r EXCEPT !.phase = "done", !.unread = {}, !.read = {}, !.matched = FALSE,
            !.answer = answer, !.kept = IsLive(r.token)]

ScanEnd(k) ==
  /\ scan[k].phase = "reading"
  /\ scan[k].unread = {}
  /\ scan' = [scan EXCEPT ![k] = Finished(@, IF scan[k].matched THEN "yes" ELSE "no")]
  /\ UNCHANGED directoryVars

(* A file was listed and is gone when it is read: ? ends the scan, and the *)
(* handler takes the error for a refusal.                                  *)
ScanFails(k) ==
  /\ scan[k].phase = "reading"
  /\ scan[k].unread \ Present # {}
  /\ scan' = [scan EXCEPT ![k] = Finished(@, "error")]
  /\ UNCHANGED directoryVars

Scanning(k) ==
  \/ \E f \in Files : ScanNotice(k, f) \/ ScanMiss(k, f) \/ ScanRead(k, f)
  \/ ScanEnd(k)
  \/ ScanFails(k)

(* The answer of authorized(): 401 unless it is "yes". *)
Authorized(k) == scan[k].answer = "yes"
=============================================================================
