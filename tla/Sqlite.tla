------------------------------- MODULE Sqlite -------------------------------
(***************************************************************************)
(* The database library as src/src/server.rs uses it: SQLite in WAL mode   *)
(* (server.rs:448), one connection per call, transactions opened with      *)
(* rusqlite's unchecked_transaction, which is BEGIN DEFERRED.  External:   *)
(* the library is not in the repository.                                   *)
(*                                                                         *)
(*   - the first SELECT of a deferred transaction takes a snapshot;        *)
(*   - its first write upgrades it to the single writer.  The upgrade      *)
(*     fails at once, whatever the busy timeout, if another connection is  *)
(*     the writer (SQLITE_BUSY) or if anybody committed after the snapshot *)
(*     was taken (SQLITE_BUSY_SNAPSHOT);                                   *)
(*   - a statement outside a transaction commits by itself and waits for   *)
(*     the writer up to its busy timeout;                                  *)
(*   - dropping a transaction rolls it back; a commit is durable.          *)
(***************************************************************************)
CONSTANTS
  Connections,  \* the connections that can be open at once
  NoTxn,        \* the view of a connection with no open transaction
  NoConn        \* "nobody holds the write lock"

VARIABLES
  db,      \* the committed database
  view,    \* view[c]: the snapshot of c's transaction with c's own writes
  stale,   \* the open transactions whose snapshot another commit has outdated
  writer   \* the connection that holds the write lock

sqliteVars == <<db, view, stale, writer>>

ASSUME NoConnAssumption == NoConn \notin Connections

OpenTxns == {c \in Connections : view[c] # NoTxn}

SqliteInit(d) ==
  /\ db = d
  /\ view = [c \in Connections |-> NoTxn]
  /\ stale = {}
  /\ writer = NoConn

(* BEGIN DEFERRED and the first SELECT. *)
Begin(c) ==
  /\ view[c] = NoTxn
  /\ view' = [view EXCEPT ![c] = db]
  /\ UNCHANGED <<db, stale, writer>>

(* The transaction of c may write: it already does, or it can upgrade. *)
MayWrite(c) == writer = c \/ (writer = NoConn /\ c \notin stale)

(* A write in the transaction of c that leaves c with the view d. *)
Write(c, d) ==
  /\ MayWrite(c)
  /\ view' = [view EXCEPT ![c] = d]
  /\ writer' = c
  /\ UNCHANGED <<db, stale>>

Commit(c) ==
  /\ writer = c
  /\ db' = view[c]
  /\ view' = [view EXCEPT ![c] = NoTxn]
  /\ stale' = OpenTxns \ {c}
  /\ writer' = NoConn

(* The transaction of c is dropped without a commit. *)
Rollback(c) ==
  /\ view' = [view EXCEPT ![c] = NoTxn]
  /\ stale' = stale \ {c}
  /\ writer' = IF writer = c THEN NoConn ELSE writer
  /\ UNCHANGED db

(* One UPDATE outside any transaction, which leaves the database d. *)
Autocommit(d) ==
  /\ writer = NoConn
  /\ db' = d
  /\ stale' = OpenTxns
  /\ UNCHANGED <<view, writer>>

(* The process dies: every open transaction goes, the committed data stay. *)
LoseConnections ==
  /\ view' = [c \in Connections |-> NoTxn]
  /\ stale' = {}
  /\ writer' = NoConn
  /\ UNCHANGED db
=============================================================================
