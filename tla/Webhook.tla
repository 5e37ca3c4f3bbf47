------------------------------ MODULE Webhook -------------------------------
(***************************************************************************)
(* The webhook delivery queue: rows of webhook_deliveries and the worker   *)
(* that POSTs them (internal/webhook/webhook.go).                          *)
(*                                                                         *)
(* Time is relative: wait[d] is how long it takes until next_attempt_at of *)
(* delivery d, 0 once it is due, and line has the pending rows in the      *)
(* order of next_attempt_at.  A step of the clock is as short as one likes *)
(* compared to the backoff gaps.  There is one clock: the code takes the   *)
(* time of the next attempt from the process (recordFailure) and compares  *)
(* it with the database's NOW() (tick), so two clocks that differ shift    *)
(* every gap by their difference.                                          *)
(***************************************************************************)
EXTENDS Naturals, Sequences, FiniteSets

CONSTANTS
    Deliveries,       \* the rows that may be enqueued
    BackoffSchedule,  \* the gaps between successive attempts
    BatchSize,        \* the LIMIT of the worker's query
    Unstorable,       \* rows whose receiver fails with a body the database refuses as text
    MaxFaults,        \* bound: failed updates and crashes
    MaxPosts          \* bound: POSTs counted per row

ASSUME WebhookAssumption ==
    /\ BackoffSchedule \in Seq(Nat \ {0})
    /\ BatchSize \in Nat \ {0}
    /\ Unstorable \subseteq Deliveries
    /\ MaxFaults \in Nat
    /\ MaxPosts \in Nat

VARIABLES
    status,   \* status[d]: webhook_deliveries.status, "none" before Enqueue
    attempt,  \* attempt[d]: webhook_deliveries.attempt
    wait,     \* wait[d]: the time until next_attempt_at
    line,     \* the pending rows by next_attempt_at
    work,     \* the rows the worker has selected and not yet handled
    answer,   \* the outcome of the POST of the first of them
    faults,   \* the faults that may still strike
    \* history: what the receiver sees
    posts,    \* posts[d]: how many times the worker tried to POST d
    acks,     \* acks[d]: how many 2xx answers came back for d
    since     \* since[d]: time since the last POST, up to the longest gap

vars == <<status, attempt, wait, line, work, answer, faults, posts, acks, since>>

Gaps == {BackoffSchedule[i] : i \in 1..Len(BackoffSchedule)}
LongestGap == CHOOSE g \in Gaps \union {0} : \A h \in Gaps : h <= g

Init ==
    /\ status = [d \in Deliveries |-> "none"]
    /\ attempt = [d \in Deliveries |-> 0]
    /\ wait = [d \in Deliveries |-> 0]
    /\ line = << >>
    /\ work = << >>
    /\ answer = "none"
    /\ faults = MaxFaults
    /\ posts = [d \in Deliveries |-> 0]
    /\ acks = [d \in Deliveries |-> 0]
    /\ since = [d \in Deliveries |-> LongestGap]

Strike == faults > 0 /\ faults' = faults - 1

\* s without its k-th element, and with e as its k-th.
Without(s, k) == [i \in 1..(Len(s) - 1) |-> IF i < k THEN s[i] ELSE s[i + 1]]
Inserted(s, k, e) == [i \in 1..(Len(s) + 1) |-> IF i < k THEN s[i] ELSE IF i = k THEN e ELSE s[i - 1]]

\* Mutant: a row that is not pending any more is still selected.
LeaveNot(d) == line

\* The line without d, when it is not pending any more.
Leave(d) == Without(line, CHOOSE i \in 1..Len(line) : line[i] = d)

\* Mutant: a row that is not due at once is not due again.
PlaceLost(rest, d, w) == line' = IF w = 0 THEN Append(rest, d) ELSE rest

\* d gets its place among the rest, as a row that is due in w.
Place(rest, d, w) ==
    \E k \in 1..(Len(rest) + 1) :
        /\ \A i \in 1..(k - 1) : wait[rest[i]] <= w
        /\ \A i \in k..Len(rest) : wait[rest[i]] > w
        /\ line' = Inserted(rest, k, d)

Current == work[1]

-----------------------------------------------------------------------------

\* Service.Enqueue: a row that is due at once.
Enqueue(d) ==
    /\ status[d] = "none"
    /\ status' = [status EXCEPT ![d] = "pending"]
    /\ Place(line, d, 0)
    /\ UNCHANGED <<attempt, wait, work, answer, faults, posts, acks, since>>

\* Worker.tick's query: the first BatchSize rows that are due, with their
\* attempt counts.
Tick ==
    /\ work = << >>
    /\ \E n \in 1..Len(line) :
         /\ n <= BatchSize
         /\ \A i \in 1..n : wait[line[i]] = 0
         /\ n < BatchSize /\ n < Len(line) => wait[line[n + 1]] > 0
         /\ work' = [i \in 1..n |-> [id |-> line[i], attempt |-> attempt[line[i]]]]
    /\ UNCHANGED <<status, attempt, wait, line, answer, faults, posts, acks, since>>

\* deliver, up to the answer: 2xx, another status, or no answer at all (a URL
\* that does not parse, a timeout, a broken connection).
Post ==
    LET d == Current.id IN
    /\ work # << >> /\ answer = "none"
    /\ posts' = [posts EXCEPT ![d] = IF @ < MaxPosts THEN @ + 1 ELSE @]
    /\ since' = [since EXCEPT ![d] = 0]
    /\ \/ answer' = "2xx" /\ acks' = [acks EXCEPT ![d] = IF @ < MaxPosts THEN @ + 1 ELSE @]
       \/ answer' = "failed" /\ UNCHANGED acks
    /\ UNCHANGED <<status, attempt, wait, line, work, faults>>

Done == work' = Tail(work) /\ answer' = "none"

\* deliver, after a 2xx.
RecordSuccess ==
    LET d == Current.id IN
    /\ answer = "2xx"
    /\ status' = [status EXCEPT ![d] = "delivered"]
    /\ attempt' = [attempt EXCEPT ![d] = @ + 1]
    /\ line' = Leave(d)
    /\ Done
    /\ UNCHANGED <<wait, faults, posts, acks, since>>

\* Mutant: the row is given up one attempt too early.
NextAttemptEager(w) == w.attempt + 2

\* Mutant: the attempt is not counted.
NextAttemptStuck(w) == w.attempt

NextAttempt(w) == w.attempt + 1

\* Mutant: the gap before the next attempt is the one before this attempt.
GapLate(w) == BackoffSchedule[IF w.attempt = 0 THEN 1 ELSE w.attempt]

\* BackoffSchedule[d.attempt], counted from 0 in the code.
Gap(w) == BackoffSchedule[w.attempt + 1]

\* recordFailure: the last attempt makes the row dead, another one makes it due
\* after the gap, by the one clock of the model.
RecordFailure ==
    LET w == Current
        d == w.id
        next == NextAttempt(w)
    IN
    /\ answer = "failed" /\ d \notin Unstorable
    /\ attempt' = [attempt EXCEPT ![d] = next]
    /\ \/ /\ next >= Len(BackoffSchedule) + 1
          /\ status' = [status EXCEPT ![d] = "dead"]
          /\ line' = Leave(d)
          /\ UNCHANGED wait
       \/ /\ next < Len(BackoffSchedule) + 1
          /\ wait' = [wait EXCEPT ![d] = Gap(w)]
          /\ Place(Leave(d), d, Gap(w))
          /\ UNCHANGED status
    /\ Done
    /\ UNCHANGED <<faults, posts, acks, since>>

\* The update fails, and the row stays as it was: due.  (One that took effect
\* before its error is the same as one without: the error is only logged.)
RecordError ==
    /\ \/ answer # "none" /\ Strike
       \/ answer = "failed" /\ Current.id \in Unstorable /\ UNCHANGED faults
    /\ Done
    /\ UNCHANGED <<status, attempt, wait, line, posts, acks, since>>

\* The process dies, possibly between a POST and its update, and starts again.
Crash ==
    /\ Strike
    /\ work' = << >> /\ answer' = "none"
    /\ UNCHANGED <<status, attempt, wait, line, posts, acks, since>>

Tock ==
    /\ wait' = [d \in Deliveries |-> IF wait[d] > 0 THEN wait[d] - 1 ELSE 0]
    /\ since' = [d \in Deliveries |-> IF since[d] < LongestGap THEN since[d] + 1 ELSE since[d]]
    /\ UNCHANGED <<status, attempt, line, work, answer, faults, posts, acks>>

Worker == Tick \/ Post \/ RecordSuccess \/ RecordFailure \/ RecordError

Next == (\E d \in Deliveries : Enqueue(d)) \/ Worker \/ Crash \/ Tock

Spec == Init /\ [][Next]_vars

\* The worker's ticker fires and time passes.
FairSpec == Spec /\ WF_vars(Worker) /\ WF_vars(Tock)

-----------------------------------------------------------------------------
(* Properties *)

InLine(d) == \E i \in 1..Len(line) : line[i] = d

\* The variables have the expected shape, the line is sorted and has exactly
\* the pending rows.
TypeOK ==
    /\ status \in [Deliveries -> {"none", "pending", "delivered", "dead"}]
    /\ attempt \in [Deliveries -> 0..(Len(BackoffSchedule) + 1)]
    /\ wait \in [Deliveries -> 0..LongestGap]
    /\ line \in Seq(Deliveries)
    /\ answer \in {"none", "2xx", "failed"}
    /\ faults \in 0..MaxFaults
    /\ \A d \in Deliveries : InLine(d) <=> status[d] = "pending"
    /\ \A i, j \in 1..Len(line) : i < j => line[i] # line[j] /\ wait[line[i]] <= wait[line[j]]

FaultsSoFar == MaxFaults - faults

\* A row whose failures can be stored is POSTed at most once per attempt of the
\* schedule, and no row again once a 2xx came back, plus once for each update
\* that failed or was lost in a crash.
PostsBounded ==
    \A d \in Deliveries : /\ d \notin Unstorable => posts[d] <= Len(BackoffSchedule) + 1 + FaultsSoFar
                          /\ acks[d] <= 1 + FaultsSoFar

\* A row is given up only after it was POSTed once more than there are gaps.
NotGivenUpEarly ==
    \A d \in Deliveries : status[d] = "dead" => posts[d] >= Len(BackoffSchedule) + 1

\* As long as there was no fault two POSTs of a row whose failures can be stored
\* are at least the scheduled gap apart, however long the worker takes over its
\* batch, provided that the clocks of the process and of the database agree.
GapsKept ==
    [][\A d \in Deliveries \ Unstorable :
          FaultsSoFar = 0 /\ posts'[d] > posts[d] /\ posts[d] > 0 => since[d] >= BackoffSchedule[posts[d]]]_vars

\* Every row whose failures can be stored is delivered or given up: it is not
\* starved by the others, unless there are so many rows whose failures cannot be
\* stored, and which are due for ever, that they fill the worker's batch.
EventuallySettled ==
    \A d \in Deliveries \ Unstorable :
        status[d] = "pending" ~> \/ status[d] \in {"delivered", "dead"}
                                \/ Cardinality(Unstorable) >= BatchSize

-----------------------------------------------------------------------------
(* What documents and comments say of the code, and the code does not do *)

\* docs/integration.md: "Up to 5 attempts total", that is one more than there
\* are gaps.
AttemptsAreBounded == \A d \in Deliveries : posts[d] <= Len(BackoffSchedule) + 1

=============================================================================
