# Beacon: models, checks and proofs

A TLA+ development of Beacon, an alerting service in Rust: agents on hosts send
events to a server, which keeps one alert record per fingerprint and notifies
people over Telegram. `PROJECT.json` lists the components, the runs, a mutant
for every property, the source lines of every definition (`map`), the hazards
and the theorems.

## 1. The system

| Component | State it keeps | Operations | Source |
|---|---|---|---|
| Event and alert model | none (records, enumerations, field limits) | `Event::validate`, `require_field` | `src/src/model.rs` |
| Alert state machine | none (a row in, a row out) | `transition_alert`, `new_alert` | `src/src/server.rs` |
| Event intake | tables `events`, `alerts`, `notifications` | `accept_event`, `ServerEventStore::accept`, `enqueue_notifications` | `src/src/server.rs` |
| Notification queue and dispatcher | table `notifications`; the worker's batch | `claim_notification`, `complete_notification`, `fail_notification`, `deliver_due`, `TelegramChannel::send`, the worker thread | `src/src/server.rs`, `src/src/notification.rs` |
| Agent spool and drain | a directory of JSON files and a lock file | `beacon-agent send`, `beacon-agent run`; `FileEventSpool::open`, `enqueue`, `list`, `remove`; `drain` | `src/src/spool.rs`, `src/src/agent.rs`, `src/src/bin/beacon-agent.rs` |
| Enrollment | table `enrollments` (code hash, name, `expires_at`, `consumed_at`); the operator's code file; the agent's token file | `create_enrollment`, `enroll_agent`, `consume_enrollment`; the agent's `enroll` and `write_token` | `src/src/server.rs`, `src/src/agent.rs` |
| Credential store | one text file `<name>.token` per agent in the credentials directory | `CredentialStore::authorized`, `write_credential`, `write_secret_file` | `src/src/server.rs` |
| Policy routing | a catalog read at start | `channels_for`, `matches` | `src/src/policy.rs` |
| Templates and rendering | templates read at start | `MessageTemplates::validate`, `validate_template`, `render_event`, `render_template`, `render_fields` | `src/src/notification.rs` |
| Retry time | `next_attempt_at` of a row | `retry_time` and the claim's comparison with it | `src/src/notification.rs`, `src/src/server.rs` |
| Alert listing | none (reads `alerts`) | `list_alerts` | `src/src/server.rs` |
| Command lines, deployment | none | argument parsing, wiring, packaging | `src/src/bin/`, `src/install/` |

How they interact. `beacon-agent send` writes an event into the spool and exits.
`beacon-agent run`, started by a timer, posts what is there to
`POST /v1/events` and removes what was answered positively. The handler checks
the credential, validates, and runs one SQLite transaction on a blocking thread:
it looks the `event_id` up, inserts the event, moves the alert record of the
fingerprint through the state machine and inserts one job for each channel the
policy picks. A worker thread on a connection of its own claims due jobs, one
transaction each, sends them and records the outcome in one autocommitted
UPDATE. The three share nothing but the database file.

Before any of that, an operator runs `beacon-server agent create`, which writes a
code file and a row; `beacon-agent enroll` posts the code with its name to
`POST /v1/enroll`, and the handler, in one transaction around four steps on the
credentials directory, marks the row used and puts a token file there. Every
later request is authorised by reading all the files of that directory.

What is hard here:

- *Interleaving.* Requests run at once, each with its own connection and a
  deferred transaction: the lookup reads a snapshot that a commit may outdate
  before the first write. The worker's claims do the same.
  An enrollment and the scans that authorise requests meet in a directory that
  has no transactions at all.
- *Failure between steps.* The event, its alert and its jobs are several
  statements; claim, send and record are three steps; a spool file is created,
  written and renamed; a credential is a row and a file. Any statement may fail and the process may die between
  any two of them.
- *Unreliable delivery.* Between agent and server, and between server and
  Telegram, a request may take effect although the caller saw an error. Both
  sides retry.
- *Histories.* The alert state machine and the rule that only the opening of an
  episode is announced meet in long mixes of firing, info and resolved events.
- *Boundaries.* Delays grow by powers of two and become texts that SQLite compares;
  an event must pass the field limits on both sides and the body limit on one.
- *Progress.* Leases, retries, bounded batches, and drains that stop at the first
  failure must not starve anything.

What makes each part correct:

- Intake: an acknowledged event is stored; ids are unique; the alerts and the
  queue are functions of the stored history; refusals are justified; seen from
  outside it is one atomic ledger.
- Dispatcher: sends are counted before they happen and bounded; "sent" means
  delivered; duplicates only come from an outcome nobody recorded; final is
  final; every job settles.
- Spool: a queued event is kept until the server has it and is delivered in the
  end; what a drain listed is whole and stays on disk.
- Server as a whole: messages are about accepted events that call for one, at most
  `MaxAttempts` each; jobs are first claimed in the order of acceptance (a death
  between a claim and its send may still let a later message out first).
- Enrollment: a code yields at most one token; a code is used up only together with
  a credential; a token that was handed out works until an operator removes it.
- Credentials: no request gets in with a token that is not in a credential file;
  other agents' enrollments do not make a scan miss one that is.
- Configuration: each matched channel once, in order of first mention; what the
  startup check accepts renders as the operator wrote it.
- Limits: a failed job is tried again in exactly the batches that begin its backoff
  or more after the one it failed in; an event that passes its field
  limits fits into a request body.

## 2. The modules

| Module | Models | Composes |
|---|---|---|
| `BeaconModel` | event and alert records | |
| `Alerts` | `transition_alert`; the reference record of a history | `BeaconModel` |
| `Sqlite` | the database library as used (external) | |
| `Notifications` | job rows and the statements that change one | `BeaconModel` |
| `Intake` | handler and transaction of `POST /v1/events` | `Alerts`, `Notifications`, `Sqlite` |
| `EventLedger` | abstract specification of the intake | |
| `Dispatcher` | worker thread, claims, channel | `Notifications`, `Sqlite` |
| `BeaconServer` | requests and worker on one database | `Intake`, `Dispatcher` (instance) |
| `AlertService` | abstract specification of the server | `Alerts`, `EventLedger` (instance) |
| `Listing` | `GET /v1/alerts` | `Intake` |
| `AgentSpool` | send and run on one host, network, server | `EventLedger` (instance) |
| `CredentialStore` | the credentials directory, `authorized` | |
| `Enrollment` | `agent create`, `POST /v1/enroll`, `beacon-agent enroll` | `CredentialStore`, `Sqlite` |
| `Policy` | `channels_for` | |
| `Templates` | `validate_template`, `render_event` | |
| `Configuration` | the two files an operator writes | `Policy`, `Templates` |
| `RetryTime` | `retry_time`, texts of times, the claim's comparison, the clock of a batch | |
| `EventLimits` | `Event::validate`, the body limit | |
| `IntakeProofs`, `DispatcherProofs`, `ListingProofs`, `AgentSpoolProofs`, `EnrollmentProofs` | theorems | the modules they are named for |
| `AlgorithmProofs` | theorems | `EventLimits`, `RetryTime`, `Configuration` |
| `ServerProofs` | theorems about `BeaconServer` | `IntakeProofs`, `DispatcherProofs` (instances) |
| `NaturalOrder` | lemmas on natural numbers and on what goes on step by step | |
| `MCIntake`, `MCListing`, `MCDispatcher`, `MCBeaconServer`, `MCAgentSpool`, `MCEnrollment`, `MCConfiguration`, `MCLimits` | instances for TLC | |
| `IntakeClaims` | a statement of the documentation the code does not meet | `MCIntake` |

### BeaconModel, Alerts

Event type, source and host travel together everywhere in the event path and are
one field `origin`; `facts` stands for the rest of the payload, so that two
events can differ in it alone. Times are opaque, because no code in the event
path compares two of them. `Transition` has one operator per arm of the `match`.
The second half of `Alerts` defines the record a fingerprint *should* have
(`AlertOf`) from the list of accepted events only: where an episode opens, which
info events are remarks about a firing alert, what was counted since. It never
looks at a previous record, which is what makes the comparison meaningful.

### Sqlite (external)

`view[c]` is the snapshot of the transaction of connection `c` together with its
own writes, `stale` the transactions another commit has outdated, `writer` the
holder of the write lock. A deferred transaction takes its snapshot at its first
SELECT and becomes the writer at its first write, which fails at once if there is
a writer or the snapshot is stale. This is how SQLite in WAL mode treats the
upgrade of a read transaction, which the busy timeout does not cover. The model
assumes that a commit survives the death of the process (`synchronous` is not
changed by the code); power loss is outside it.

### Intake

A task is a request being handled, with `pc[t]` its position:

| `pc` | Where in the code |
|---|---|
| `received` | `accept_event`, before `authorize` and `validate` |
| `reading` | after the SELECT of `accept` |
| `inserted` | after the INSERT into `events` |
| `enqueueing` | after `save_alert`; `todo[t]` is what the loop has left |
| `replying` | `reply[t]` is the answer the handler returns |

Each SQL statement is an action, and `StatementError`, `InsertBusy` and `Crash`
can come between any two. An early return through `?` drops the transaction,
which is `Rollback` in the same action. A client that goes away cancels a handler
that has not started its blocking call; once started, the call runs to its end.
Authorisation is one outcome (any request may be refused), rendering keeps the
headline only (`payload`, the status of the alert), and the policy is a constant
function `Routes`.

### EventLedger

What is left when the database is forgotten: a log that only grows, one entry per
`event_id`, and acknowledgements only of what is in it. `Intake` implements it
with `log <- db.events` and `Events <- ValidEvents`; `AgentSpool` uses it as its
server, so that the spool is checked against the interface the intake is proved
to provide.

### Dispatcher

`phase` follows `deliver_due`: `claiming` (top of the loop), `selected`,
`updated` (inside the claim's transaction), `claimed`, `recording`. The clock is
read once per batch, and the model keeps time as two sets of rows: `elapsed`,
whose deadline has passed, and `due`, the copy of it the batch works with. The
deadline of a failed row is `next_attempt_at`, that of a row in flight
`claimed_at` plus five minutes. A retry delay is any of `RetryDelays`: with none a
failed row is due again in the same batch, with a positive one only later. `Send` has the four results the
Telegram client tells apart, including the message that arrived although the
client saw a transport error. `sends`, `delivered` and `doubts` are history
variables: no guard of the program reads them. Requests appear as a second
connection that takes the write lock (`QueueBegin`), inserts any number of rows
with any headline (`QueueJob`), and commits or rolls back; why it inserts which is
in `Intake`. `Elapse` may let a deadline pass at any time, which
includes every real duration.

### AgentSpool

`sending[e]` and `draining[d]` are the positions of the commands, `temporary` and
`pending` the files, `lock` the exclusive lock. Both commands hold the lock from
opening the spool to their end and fail at once when it is taken. A file may be
left half-written by a kill, but only under its temporary name. A request whose
answer nobody waits for any more becomes a *ghost* that may reach the server
later, or never. Each `send` makes its own UUID, so that no two of its events
share an id; `Name` is an arbitrary order of the file names.

### BeaconServer, AlertService

`BeaconServer` has no action of its own. `Request` is an action of `Intake`,
`Work` one of `Dispatcher` on the same `db`, `view`, `stale` and `writer`, and a
crash is the crash of both at once. `Desk` names the task that stands for all
requests where `Dispatcher` has one connection for them. `AlertService` is what the two promise
together: the ledger, and a counter `told` of the messages that reached a channel,
which may only grow for an entry that opens an episode, informs or resolves, on a
channel the policy picks, up to `MaxAttempts`. The refinement mapping reads `told`
off the worker's history through the row of the event and channel.

### Listing

A listing is one SELECT and changes nothing, so it is an operator over the
committed `db.alerts`, looked at in every state of the long histories. `List` is the
set of answers the SELECT may give: rows with equal times come in any order. Times are
numbers there: their place among the texts SQLite orders by.

### CredentialStore, Enrollment

The directory holds `installed` (one file per name) and `temporary` (one per
session that is writing, or died writing). A scan opens it and reads file by file;
`ScanNotice` and `ScanMiss` are the latitude POSIX leaves for files that come and go
meanwhile, and `ScanFails` is the `?` on a file that was listed and is gone.
`handler[s]` follows `consume_enrollment`:

| `handler` | Where in the code |
|---|---|
| `asked`, `named` | before and after the look at the credential's path |
| `selected` | after the SELECT that opens the transaction |
| `consumed` | after the UPDATE of `consumed_at` |
| `temporary`, `whole` | `write_secret_file`: file created; written and synced |
| `linked`, `unlinked` | after `hard_link`; after the temporary file is removed |
| `granted`, `denied`, `over` | committed; failed; answered or lost |

`HandlerFails` is any error between two of them, and leaves whatever files there
are. The agent may give up while the handler runs on, the operator may remove
credential files and token files at any time, and an accepted event (`OtherCommit`)
outdates every snapshot. `granted`, `revoked` and the fields `live` and `kept` of a
scan are history variables. A code and a token are the identity of the run that
made them: collisions of 32 random bytes, and hashing, are left out.

### Policy, Templates, Configuration

The operator's two files are written rule by rule and token by token, and the checks
look at every prefix, which is every file up to a length. A rule names any subset of
the fields; the code compares the five fields alike, and the instance has two of them.
A template is a sequence of tokens (braces, line break, words); `Accepts` scans it
as `validate_template` does, `RenderText` as `render_template` does, each a recursive
function of the position and both written from the code, so that the properties compare
two independent passes. The references they are compared with look at positions only:
where a placeholder opens (`OpensAt`), which rule names a channel first (`Mentions`,
`Before`), where a text breaks (`Breaks`). A label with a line break in it passes the
startup check and breaks its own line; `FieldsAreLines` leaves such labels out
(`PlainLabels`). Values are not cut to 256 characters.

### RetryTime

One row whose every send fails, and a clock. The widths are scaled: a second has four
ticks, `Wrap` stands for 2^64, `FourDigits` for the year 9999. `Text` is
`to_rfc3339` as far as its order matters (variable fraction, sign from five digits
of year on), `TextLeq` SQLite's comparison. The multiplication saturates, the cast
to `i64` does not, and a time outside the calendar is a panic, after which the
row is `lost`.

`deliver_due` reads the clock when it begins (`Wake`, `notification.rs:298`) and
gives that one reading to every claim and every failure of the batch, while the clock
goes on (`Tick`). So the backoff runs from the start of the batch in which the row
failed, and is compared with the start of a later one: that is what
`BackoffBetweenBatches` says. It is not a wait since the failure. A row that failed
late in a slow batch (a send may take up to 120 s, a batch has up to `--notify-limit` of
them) is due that much earlier, and its backoff may be over before it is written:
behaviours of the model in which a row fails after its `next_attempt_at` exist in the
run `limits`, whose batches may last longer than the shortest backoff. What the single
reading does give is that no batch tries a row again that failed in it, unless the
configured delay is none. A row left in flight is `Dispatcher`'s; wall clocks that are
set back are not modelled.

### EventLimits

An event is built part by part; only the number of bytes of each part, and of its
JSON, is kept. The numbers are the code's own.

## 3. The runs

| Run | Question | Bounds |
|---|---|---|
| `intake_racing` | is the store right whatever two requests do to each other? | two tasks, five events: a firing, a worse firing and a resolve of one fingerprint, a different event with the first one's id, an invalid one; two channels. Symmetric tasks. |
| `intake_long` | are record, queue and listing what the history calls for? | one task, six events (five can be stored), every order, repeats and failures at will; listings of at most two rows, asked for with limits below, at and above that |
| `dispatcher` | are sends counted, explained and final, and does every job settle? | two jobs, two attempts, two claims per batch, one crash, one unknown channel, with and without a retry delay |
| `server` | do requests and worker together implement the service, in order? | a firing and a resolve of one alert, one task, one attempt, one crash |
| `agent_spool` | is nothing lost, is every listing whole? | three sends, two drains, batches of two, two attempts, unlimited kills and lost answers |
| `agent_spool_live` | is everything delivered in the end? | two sends, one drain, one event per batch |
| `enrollment` | are codes used once, tokens kept, scans right? | two sessions, two codes, two names, one scan; unlimited crashes, failures, removals. Symmetric sessions and codes. |
| `configuration` | does every accepted configuration do what it says? | catalogs of up to two rules; templates of up to six tokens with up to two fields |
| `limits` | are delays and sizes right at their ends? | five attempts of a row, delays from none to the largest `u64`, batches of up to a second and a half, longer than the shortest delay; events of up to 64 facts with the code's limits |

The other three are the findings of section 4.

Why the bounds are enough to be interesting. Every conflict of the intake is
between two transactions, a third one meets the same stale snapshot or the same
lock; two tasks with four valid events reach the duplicate that races its
original, the clash of ids, and the two events of one alert that both want to
write first. Five storable events let an alert fire, repeat, be remarked upon,
resolve and fire again with the remark at any place. Two attempts reach the first,
the last and the exhausted one; two jobs reach the order of claims and the end of
a batch; rows of the queue are told apart by event and channel, so one headline is
enough, and one crash at any place is what every later one is like, since nothing but
the database outlives it. The retry delay is
chosen anew at each failure, so that one behaviour mixes the retry in the same
batch, the harder case for safety, with the one that needs time to pass, the harder
case for liveness. In `server` the interleavings are what matters: the request's
transaction against the worker's, each able to outdate the other; retries are
`dispatcher`'s. Two sessions are every conflict over a name or a code; a scan is
independent of every other one. Six tokens are two whole placeholders, or a stray,
nested or unclosed brace on either side of one. `intake_racing` declares tasks
symmetric, `enrollment` sessions and codes: they are interchangeable in `Init`, `Next`
and every property. No run with a liveness property uses symmetry.

Deadlock is checked but for three runs: a configuration ends at its bound, an
event or a clock does, and in `enrollment` all codes and sessions can be used up.

### Fairness

- `dispatcher`. The worker thread keeps running (`WF` of its steps) and
  clocks advance (`WF` of `Elapse`). A request ends (`WF`). The UPDATE and the COMMIT
  of a claim are under `SF`: the upgrade fails whenever a request committed or holds
  the lock, so `WF` would promise nothing; what is assumed is that a statement that
  may succeed over and over does not fail for ever. Requests may never stop, and
  `Gaps` says what must be true of them: a worker that selects again and again finds,
  again and again, the lock free and its snapshot fresh. That is an assumption about
  the traffic, not about the code, which gives the worker no precedence: requests
  that always hold the lock at the wrong moment starve it. Nothing is assumed of the
  channel, which may fail every time, nor of the recording UPDATE. A worker thread
  that has panicked (`RetryTime`) is not running, and nothing restarts it but the
  server: `dispatcher` assumes sane delays.
- `agent_spool_live`. A command that started ends (`WF`). The timer starts drains
  for ever, and the steps of a drain for a given event are under `SF`: the lock is
  free sometimes, the server answers some of the requests for each event, and the
  client reads some of those answers and survives to remove the file. These are
  assumptions about the environment; without any of them an event can stay in the
  spool for ever, as the code intends.

## 4. What disagrees with the documentation

Three are runs that TLC must find violated, and entries under `findings`.

| Run | The document says | The code does |
|---|---|---|
| `claim_every_event_queued` | a job for each accepted event and matching channel (`docs/protocol.md:102`) | a firing event that repeats queues nothing, even if its severity rose and other rules match |
| `claim_stale_reclaimed` | stale in-flight jobs can be reclaimed (`docs/protocol.md:106`) | not when the interrupted attempt was the last one: the row stays in flight for ever |
| `claim_refused_keeps_code` | the agent that finds a token file asks to remove it before enrolling (`src/src/agent.rs:136`) | it looks after the server has answered: the code is used up, the name taken, the token lost |

Others were met while modelling, and the models show them in passing:

- `docs/protocol.md:88`: events with the same fingerprint increment the count. A
  firing event that reopens an alert sets it to one (`Alerts!AlertOf`).
- `docs/configuration.md:260`: one message arrives for `firing`. An info event on a
  firing alert sends another one headed as firing (`NewJob` keeps the alert's status).
- `docs/configuration.md:264`: restarting drains without duplication. A crash between
  delivery and record sends again, which is what `DuplicatesExplained` counts.
- `src/README.md:92`: requests with a valid token are accepted. One is refused when a
  temporary file of another agent's enrollment vanishes in the middle of the scan
  (`ScanFails`); the agent keeps the event and tries again later.
- `src/src/notification.rs:170` rejects an unmatched closing brace, but only after
  the last placeholder (`ScanToken`).
- `docs/protocol.md:106` promises exponential backoff for any configured delay. From
  the year 10000 on the text of the time sorts before every other, and from 2^63
  seconds on the delay is negative (`Sane` in `RetryTime`).

## 5. What is proved

Everything below holds for every value of the constants that the modules' `ASSUME`s
allow: any number of requests, sessions, rows, files and attempts, any events and
routes. TLC evaluated each inductive invariant on its instance before it was proved.

| Module | Theorem | Statement |
|---|---|---|
| `IntakeProofs` | `TransitionType` | the state machine always yields a record |
| | `Invariance`, `TypeCorrect` | `[]IInv`, `[]TypeOK` |
| | `Durability` | `[]AckedIsStored` |
| | `Uniqueness` | `[]EventIdsUnique` |
| | `Justification` | `[]RefusalsJustified` |
| | `Growth` | `EventsOnlyGrow` |
| | `Refinement` | `ImplementsLedger` |
| | `Following` | `[]HistoryInv` |
| | `AlertsFollow` | `[]AlertsMatchHistory` |
| | `JobsFollow` | `[]JobsMatchHistory` |
| `ListingProofs` | `ListingsAreCurrent` | `[]ListingIsCurrent` |
| `DispatcherProofs` | `Invariance`, `TypeCorrect` | `[]IInv`, `[]TypeOK` |
| | `Counted` | `[]SendsAreCounted` |
| | `SentDelivered` | `[]SentWasDelivered` |
| | `Explained` | `[]DuplicatesExplained` |
| | `Held` | `[]HeldIsInFlight` |
| | `Finality` | `FinalStaysFinal` |
| | `Order`, `FirstsInOrder` | `[]OrderInv`; first attempts follow the order of the rows |
| | `DeliveriesWereSent` | no job is delivered more often than it was sent |
| `ServerProofs` | `Composed` | `[]ServerInv` |
| | `TakesIn` | the server implements `Intake` |
| | `Delivers` | the server implements `Dispatcher` |
| | `FirstsInOrder` | `FirstAttemptsInOrder` |
| | `AcceptedIsQueued` | `[]AckedIsQueued` |
| | `KeepsPromise` | `ImplementsService` |
| `AgentSpoolProofs` | `Invariance`, `TypeCorrect` | `[]IInv`, `[]TypeOK` |
| | `Kept` | `[]QueuedIsKept` |
| | `Snapshots` | `[]BatchIsOnDisk` |
| | `Removals` | `RemovedOnlyStored` |
| `EnrollmentProofs` | `Invariance`, `TypeCorrect` | `[]IInv`, `[]TypeOK` |
| | `Once` | `[]GrantedOnce` |
| | `NothingWasted` | `[]ConsumedIsInstalled` |
| | `TokensWork` | `[]GrantedWorks` |
| | `YesIsRight`, `NoIsRight` | `[]YesWasLive`, `[]SteadyIsFound` |
| | `Irreplaceable` | `NeverReplaced` |
| `AlgorithmProofs` | `Fits` | `[]ValidFits` |
| | `BackoffFromBatchToBatch` | `[]BackoffBetweenBatches` |
| | `Routing` | `[]RoutesAreFirstMentions` |
| | `Templating`, `Rendering` | `[]AcceptedIsWellFormed`, `[]RenderIsSubstitution` |
| | `Lines`, `Completeness` | `[]FieldsAreLines`, `[]NoEmptyPart` |

`NaturalOrder` holds facts about natural numbers that the library does not state
in a form the provers can use: a set of them has a least element, a bounded one a
greatest; what holds at zero and goes on from each number to the next leaves none
out; and steps that stay within a set can be made one after the other.

Each state machine is proved in the same way: an invariant `IInv` that is inductive,
`Init => IInv`, one lemma for each action or for actions that touch the same
state, and the properties as consequences.

**Intake.** A commit replaces the database by the view of one transaction, so
everything hangs on what that view is. `IInv` adds to the types

- `TxnInv`: a connection has a transaction exactly while its task is between the
  SELECT and the end; the writer is the one task past its first write; what is
  stale is still reading;
- `SnapshotInv`: the view of a reader is a past of the store and the present one
  unless it is stale; the view of the writer is the present store with its own
  event appended, whose id is new; each view has an alert for each of its events;
- `StoreInv`: the committed database has unique ids, valid events and an alert for
  each;
- `ReplyInv`: each answer that is waiting is true of the store.

The step that matters is `CommitEvent`. Since the writer's view is the present
store with one entry more, the commit appends; every other open transaction becomes
stale, and a stale one can never become the writer. `InsertEvent` can only happen to
a transaction that is not stale, whose lookup is therefore an answer about the
present store. `Duplicate` and `Conflict` may answer from a stale view, which is
harmless because the store only grows. The refinement needs one more lemma
(`NextLedger`): a commit is `Store`, a positive answer `Acknowledge`, everything
else a stutter.

**Histories.** The record a fingerprint should have is defined on the whole list of
events, and what a fold over it computes is out of the prover's reach. The proof
turns the induction around and makes it one over behaviours. `RecordAfter` and
`JobsAfter` say, without recursion, how the record and the jobs a list calls for
change when one event is appended; `TransitionHistory` says that `transition_alert`
makes exactly that change, arm by arm. `HistoryInv` then adds to the two properties
what the transaction that is being written holds: after `save_alert` its alerts are
those of its own events, and its queue together with the jobs the loop has yet to
insert is what they call for. It is inductive relative to the intake's `IInv`, which
says that there is one such transaction and that its snapshot is the present store.

**Dispatcher.** `IInv` adds who may have a transaction and who may write (`TxnInv`),
what the claim's snapshot and the request's are of the present queue
(`WorkerViewInv`, `ServerViewInv`), that the row in hand stays in flight from
the claim to the record (`HandInv`), and that between claim and send there is one
attempt more than sends (`CountInv`). A claim that is late is either stale, and
fails, or still reads the present queue. `FinalStaysFinal` follows from
`HandInv` (only a row in flight is recorded on) and from what the claim's SELECT
asks of a row. `OrderInv` says that while the claim's snapshot is the present queue,
no row before the selected one is unattempted: the SELECT orders by `id`, and
rows are only ever added behind.

**Listing.** What the SELECT needs of the table (`Listable`: finitely many rows, each
under its fingerprint, with times that compare) follows from `AlertsFollow`, since the
rows are those of finitely many events. That an order exists is an induction on the
number of rows, by taking the one seen least recently off the end (`OneMore`).

**Server.** The composition proves nothing about requests or the worker again. It is
looked at twice, through two substitutions for `db`, `view`, `stale` and `writer`.
`Requests` sees every job as it was queued (`Hide`), so that what the worker does to
a row changes nothing, and a transaction is stale only if the events changed under
it; `Worked` sees only the jobs, and the connection of whichever request holds the
lock as the one connection `Dispatcher` has for them. `ServerInv` is the conjunction
of the inductive invariants of both views with `BothInv`, which says what one side
must know of the other: who holds the lock, and that a fresh snapshot is the present
database in all its parts, not just in the part the view shows. From it each step of
the server is a step, or a stutter, of each view (`TakesIn`, `Delivers`), and with that
every theorem of `IntakeProofs` and `DispatcherProofs` holds of the server. The three
properties of the whole are then short: `AckedIsQueued` is `JobsMatchHistory` and
`AckedIsStored` through the first view, `FirstAttemptsInOrder` is `FirstInOrder`
through the second, and `ImplementsService` takes the ledger's steps from the first
and the messages from the second, with `DeliveriesWereSent` and `SendsAreCounted`
for their number.

**Spool.** `LockInv` makes the command that runs unique. From it follow `FileInv`
(a send's file is whole before it is renamed, a listing stays on disk) and `DrainInv`
(a drain that is told "accepted" has the event in the log). Requests nobody waits
for any more only make the log longer. `CurrentIsInBatch` needs `NaturalOrder`: the
files are taken in the order of their names.

**Enrollment.** The database and the directory have no transaction in common.
`IInv` relates them by the position of each handler: `ViewInv` (a transaction that
can still commit sees its code unused, now), `CodeInv`, `FileInv` (a credential
file is under the name its session asked for, and was linked by it), `GrantInv`
(an answer is final) and `ScanInv` (what a scan that has not found its token knows
about files that were there all the time). Two sessions with one code cannot both
commit, because the first commit outdates the second's snapshot; two with one name
cannot both link, because `hard_link` does not replace.

**Limits.** `SizeInv` bounds the size of an event by the room for its parts. That the
code's numbers leave that room is `RoomAssumption`, which TLC evaluates with them;
the theorem says that nothing else is needed, whatever the texts and facts are.
`RetryInv` keeps with a failed row the tick its wait, which began with the batch, ends,
and with the batch that it began no later than now. The theorem needs three facts. The order of texts is the order of times up to the year 9999 (`TextOrder`):
two texts differ first in the second, in whether there is a fraction, or in its first
digit. A sane delay goes through the saturation, the cast and the range checks
unchanged (`SaneDelay`). And `retry_time`'s power of two is the doubling of the
reference (`BackoffIsPower`); both are recursive functions, whose existence is proved
from the partial ones (`PowersExist`), so that each unfolds as it is written.

**Configuration.** Nothing here is an invariant of steps; each property is one of what
a loop computes, for an input of any length. Each loop is first unfolded (`StepsReach`
in `NaturalOrder`: steps that stay within a set can be made one after the other, so the
recursive function exists; then `PushAllUnfolds`, `AcceptsUnfolds` and so on), and then
something is shown of every position by `NoneIsLeftOut`. For routing that is `Routed`:
the routes so far are the first mentions among the mentions read so far. For the startup
check it is where an open placeholder began and that each earlier brace opens a known one
(`Opened`), and, the other way round, `Place`: after an opening brace, after the name, or
outside. `Place` serves the rendering too, and what was rendered at each of the three
places is the reference up to the placeholder that is open (`Rendered`). For the fields
it is `Lined`: as many breaks as lines but one, and each shown field at the start of
its own. The provers do not know that a string literal is in `STRING`, so that `Words`
adds the code's own words to it.

Assumed, besides: valid events have the states and severities of the enumerations;
tasks, sessions and the worker are connections; routes are sequences of channels;
each `send` has an event id and a file name of its own; and the model values that
stand for "none" are none of the values they are beside.

Model-checked only: liveness (`EveryJobSettles`, `QueuedIsDelivered`), which is out of
the prover's reach. Every safety property and every action property of a run is proved.

## 6. What is not modelled

- Command lines, and the order of the checks at the start of `serve`. The worker
  starts before the TLS settings are looked at, so a server that fails there may
  already have claimed a job: to the queue that is a crash, which is modelled.
- The JSON of the policy and of the configuration, and the limits on the number and
  length of rules, templates and fields. The fields a policy rule compares alike are
  two in the instance.
- Rotating a token by replacing its credential file: an operator's removal is modelled,
  and what enrollment itself does to the files.
- The primary key on `event_id`: it would only refuse a second row that the intake is
  shown never to insert.
- That `event_id` is a UUID, the schema version, and the form of `occurred_at`:
  they make events valid or not, which in the intake is membership in a set.
- The order of a listing for times in a form other than the agent's; no document
  promises one (see the hazards).
- Loss of power: a commit is taken as durable, and a renamed file as renamed. The
  code does not sync the spool's directory, which is listed as a hazard.
- Messages longer than Telegram takes: they are one more permanent failure.
- Hashing, and collisions of random tokens, codes and UUIDs.
- Packaging, install scripts, continuous integration.

## 7. Plan

1. The safety properties of `Intake` and `Dispatcher` that a reader may want to see
   stated of `BeaconServer` itself; `TakesIn` and `Delivers` already imply them.
2. The limits on the number and length of rules, templates and fields, and the cut of
   a value to 256 characters, with the length of the message they lead to.

## 8. Running it

`tlc -config MCIntakeRacing.cfg MCIntake` and likewise for the other runs (the
module and the configuration of each are in `PROJECT.json`); `tlapm` on each of the
modules of section 5. The longest run takes two minutes, the
longest proof (`ServerProofs`) five.
