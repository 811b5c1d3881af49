------------------------------ MODULE RetryTime ------------------------------
(***************************************************************************)
(* When a failed notification is tried again: retry_time of                *)
(* src/src/notification.rs writes a time, as a text, into the row, and the *)
(* claim of src/src/server.rs compares that text with the text of its own  *)
(* clock.  One row whose every send fails in a way that may be retried,    *)
(* and a clock that ticks.                                                 *)
(*                                                                         *)
(* That clock is not the time: deliver_due reads it once, at the start of  *)
(* a batch, for every claim and every failure of the batch, while sends,   *)
(* of this row and of others, take their time.                             *)
(*                                                                         *)
(* Widths are scaled.  A second has four ticks; the texts have no fraction *)
(* for a whole second, one digit for a half, two otherwise, as chrono's    *)
(* to_rfc3339 has none, three, six or nine.                                *)
(***************************************************************************)
EXTENDS Integers, Sequences

CONSTANTS
  Bases,         \* the values of --notify-retry-delay-seconds to look at
  MaxExponent,   \* the largest power of two a delay is multiplied by (10)
  Wrap,          \* the number of u64 values; half of them are negative as i64
  MaxSeconds,    \* the largest chrono::Duration, in seconds
  MaxDate,       \* the last second of chrono's calendar
  FourDigits,    \* the last second of the year 9999
  MaxAttempts,   \* --notify-max-attempts
  MaxBatch,      \* bound: ticks a batch takes
  MaxClock       \* bound: ticks of the clock

VARIABLES
  base,       \* the configured delay
  clock,      \* the time, in ticks
  batch,      \* the clock as the batch under way read it, or NoBatch
  status,     \* the row: "pending", "in_flight", "failed", or "lost" with the thread
  attempts,   \* its attempts so far
  next,       \* its next_attempt_at, a text
  failedIn    \* history: the clock of the batch in which it failed last

retryVars == <<base, clock, batch, status, attempts, next, failedIn>>

TicksPerSecond == 4

(* The thread sleeps. *)
NoBatch == 0

ASSUME WidthsAssumption ==
  /\ MaxExponent \in Nat /\ MaxAttempts \in Nat \ {0} /\ MaxBatch \in Nat /\ MaxClock \in Nat
  /\ {Wrap, MaxSeconds, MaxDate, FourDigits} \subseteq Nat
  /\ 2 * TicksPerSecond <= MaxClock /\ MaxClock < FourDigits * TicksPerSecond
  /\ FourDigits < MaxDate /\ MaxDate < MaxSeconds /\ 2 * MaxSeconds < Wrap
  /\ Bases \subseteq 0..(Wrap - 1)

-----------------------------------------------------------------------------
(* Texts: the characters '+', '-', '.', 'Z' and the digits by their codes; *)
(* date and time down to the second, which have a fixed width up to the    *)
(* year 9999, are one character whose code is larger.                      *)
Plus == 43
Minus == 45
Point == 46
Digit(n) == 48 + n
Zed == 90
Whole(second) == 100 + second

(* Mutant: the shorter form of the offset. *)
OffsetZ == <<Zed>>

(* "+00:00" *)
Offset == <<Plus>>

Fraction(ticks) ==
  CASE ticks = 0 -> <<>>
    [] ticks = 2 -> <<Point, Digit(5)>>
    [] OTHER -> <<Point, Digit((ticks * 25) \div 10), Digit((ticks * 25) % 10)>>

(* to_rfc3339 of a time in ticks: years of more than four digits have a    *)
(* plus sign, years before zero a minus sign.                              *)
Text(time) ==
  LET second == time \div TicksPerSecond
      sign == IF second > FourDigits THEN <<Plus>> ELSE IF second < 0 THEN <<Minus>> ELSE <<>>
      size == IF second < 0 THEN -second ELSE second
  IN  sign \o <<Whole(size)>> \o Fraction(time % TicksPerSecond) \o Offset

(* SQLite's comparison of two texts. *)
TextLeq(a, b) ==
  \/ \E i \in DOMAIN a \cap DOMAIN b :
       a[i] < b[i] /\ \A j \in 1..(i - 1) : a[j] = b[j]
  \/ Len(a) <= Len(b) /\ \A i \in DOMAIN a : a[i] = b[i]

-----------------------------------------------------------------------------
(* retry_time *)

Least(m, n) == IF m <= n THEN m ELSE n

(* attempts.saturating_sub(1).min(10) *)
Exponent(n) == IF n = 0 THEN 0 ELSE Least(n - 1, MaxExponent)

(* 2_u64.pow *)
PowerOfTwo[n \in Nat] == IF n = 0 THEN 1 ELSE 2 * PowerOfTwo[n - 1]

SaturatingDelay(n, seconds) == Least(seconds * PowerOfTwo[Exponent(n)], Wrap - 1)

(* as i64 *)
Signed(u) == IF u < Wrap \div 2 THEN u ELSE u - Wrap

Panic == <<>>

(* Duration::seconds and the addition panic outside their ranges. *)
NextAttempt(now, n, seconds) ==
  LET delay == Signed(SaturatingDelay(n, seconds))
      time == now + delay * TicksPerSecond
  IN  IF \/ delay > MaxSeconds \/ delay < -MaxSeconds
         \/ time \div TicksPerSecond > MaxDate \/ time \div TicksPerSecond < -MaxDate
      THEN Panic
      ELSE Text(time)

-----------------------------------------------------------------------------
(* The row is new when the clock stands anywhere within a second. *)
RetryInit ==
  /\ base \in Bases
  /\ clock \in TicksPerSecond..(2 * TicksPerSecond - 1)
  /\ batch = NoBatch
  /\ status = "pending" /\ attempts = 0
  /\ next = Text(clock) /\ failedIn = 0

(* Time passes between batches and, in the sends of this and of other      *)
(* rows, within one.                                                       *)
Tick ==
  /\ clock < MaxClock
  /\ batch # NoBatch => clock < batch + MaxBatch
  /\ clock' = clock + 1
  /\ UNCHANGED <<base, batch, status, attempts, next, failedIn>>

(* deliver_due begins, and reads the clock for the whole batch. *)
Wake ==
  /\ batch = NoBatch /\ status # "lost"
  /\ batch' = clock
  /\ UNCHANGED <<base, clock, status, attempts, next, failedIn>>

(* Nothing is due, the batch has had its number of rows, or a statement    *)
(* about another row failed.                                               *)
EndBatch ==
  /\ batch # NoBatch /\ status # "in_flight"
  /\ batch' = NoBatch
  /\ UNCHANGED <<base, clock, status, attempts, next, failedIn>>

(* claim_notification's condition on a failed row. *)
Due == TextLeq(next, Text(batch))

Claim ==
  /\ batch # NoBatch
  /\ attempts < MaxAttempts
  /\ status = "pending" \/ (status = "failed" /\ Due)
  /\ status' = "in_flight" /\ attempts' = attempts + 1
  /\ UNCHANGED <<base, clock, batch, next, failedIn>>

(* fail_notification: the last attempt leaves the batch's own time. *)
NextWritten ==
  IF attempts >= MaxAttempts THEN Text(batch) ELSE NextAttempt(batch, attempts, base)

(* The send fails, and the batch goes on.  A panic ends the worker's       *)
(* thread, and the row stays in flight until the server is started again.  *)
Fail ==
  /\ status = "in_flight"
  /\ next' = NextWritten
  /\ IF next' = Panic THEN status' = "lost" /\ batch' = NoBatch
                      ELSE status' = "failed" /\ batch' = batch
  /\ failedIn' = batch
  /\ UNCHANGED <<base, clock, attempts>>

RetryNext == Tick \/ Wake \/ EndBatch \/ Claim \/ Fail

RetrySpec == RetryInit /\ [][RetryNext]_retryVars

-----------------------------------------------------------------------------
(* Properties *)

(* The exponential backoff: the delay doubles with each failure, up to a   *)
(* limit.                                                                  *)
Backoff[n \in 1..MaxAttempts] ==
  IF n = 1 THEN base
  ELSE IF n <= MaxExponent + 1 THEN 2 * Backoff[n - 1] ELSE Backoff[n - 1]

BackoffIsOver == batch >= failedIn + Backoff[attempts] * TicksPerSecond

(* The longest delay still ends before the year 10000.  From there on the  *)
(* text of the time starts with a plus sign and sorts before every other,  *)
(* later the worker's thread dies of a panic, and from half of u64 on the  *)
(* delay is negative: the row is due at once, or never again.              *)
Sane == base * PowerOfTwo[MaxExponent] + MaxClock \div TicksPerSecond <= FourDigits

(* The backoff lies between the starts of two batches: a batch finds a     *)
(* failed notification due exactly if it began at least the backoff after  *)
(* the batch it failed in began, and the worker survives to try it.  The   *)
(* order of the texts is the order of the times, whatever fraction of a    *)
(* second each has; and a batch finds nothing due that failed in it, if    *)
(* there is a delay at all, however long it takes.  (It is not a wait      *)
(* since the failure: a batch that is slow to fail a row writes a time     *)
(* that is early by as much, and may be over already.)                     *)
BackoffBetweenBatches ==
  Sane => /\ status # "lost"
          /\ status = "failed" /\ attempts < MaxAttempts /\ batch # NoBatch
               => (Due <=> BackoffIsOver)
=============================================================================
