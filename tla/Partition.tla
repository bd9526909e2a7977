----------------------------- MODULE Partition -----------------------------
(***************************************************************************)
(* From a stream of timestamped submissions to batches                     *)
(* (simulator/interval.cpp): the session is cut into intervals of equal    *)
(* length, and the orders that arrived in one are its batch.               *)
(*                                                                         *)
(* Times are words; the sums and products of partition_stream wrap.        *)
(***************************************************************************)
EXTENDS Sequences, Sorting

CONSTANT
  MaxTime        \* the largest word, 2^64 - 1 in the code

ASSUME TimeWidth == MaxTime \in Nat \ {0}

NoLimit == -1

VARIABLES
  stream,          \* OrderInputStream::submissions, sorted
  session_start,   \* session_start_nanos
  interval,        \* batch_interval_nanos
  max_batches,
  submission_idx,  \* how many submissions are placed
  batch_k,         \* the interval about to be closed
  bundles,         \* the batches so far, with their preimages
  finished         \* whether partition_stream has returned

partitionVars ==
  <<stream, session_start, interval, max_batches, submission_idx, batch_k, bundles,
    finished>>

----------------------------------------------------------------------------
Wrap(t) == t % (MaxTime + 1)

\* The key of the stream's sort; ids stand for all the fields of an order.
ArrivedBefore(a, b) ==
  a.arrival < b.arrival \/ (a.arrival = b.arrival /\ a.order.id < b.order.id)

\* OrderInputStream: the submissions as its constructor sorts them.
OrderInputStream(submissions) ==
  LET S == Range(submissions)
  IN  StdSorts(S, {p \in S \X S : ArrivedBefore(p[1], p[2])})

\* Variant: the interval in which the last submission arrives is not counted.
NumBatchesRoundedDown ==
  IF stream = << >> \/ interval = 0 THEN 0
  ELSE LET last == stream[Len(stream)].arrival
           span == IF last > session_start THEN last - session_start ELSE 0
           counted == span \div interval
       IN  IF max_batches # NoLimit /\ max_batches < counted
           THEN max_batches ELSE counted

\* num_batches: the intervals up to the last arrival, at most max_batches. The
\* loop's counter never wraps: batches.reserve(num_batches) throws long before.
NumBatches ==
  IF stream = << >> \/ interval = 0 THEN 0
  ELSE LET last == stream[Len(stream)].arrival
           span == IF last > session_start THEN last - session_start ELSE 0
           counted == Wrap(span \div interval + 1)
       IN  IF max_batches # NoLimit /\ max_batches < counted
           THEN max_batches ELSE counted

\* cutoff_nanos of interval j.
Cutoff(j) == Wrap(session_start + j * interval)

\* Variant: an order that arrives at the cutoff is let in.
TakenUpTo(from, cutoff) ==
  CHOOSE n \in 0..(Len(stream) - from) :
    /\ \A i \in 1..n : stream[from + i].arrival <= cutoff
    /\ from + n < Len(stream) => stream[from + n + 1].arrival > cutoff

\* How many submissions the inner loop takes before it breaks.
TakenBefore(from, cutoff) ==
  CHOOSE n \in 0..(Len(stream) - from) :
    /\ \A i \in 1..n : stream[from + i].arrival < cutoff
    /\ from + n < Len(stream) => stream[from + n + 1].arrival >= cutoff

\* Variant: the preimages keep the sequence numbers of the submissions.
BundleOldPreimages(j, from, n) ==
  [id |-> j, cutoff |-> Cutoff(j),
   orders |-> [i \in 1..n |-> [stream[from + i].order EXCEPT !.seq = i - 1]],
   preimages |-> [i \in 1..n |-> stream[from + i].order]]

\* The batch of interval j: orders and preimages are numbered afresh, so that
\* the constructor's sort leaves them as they are.
Bundle(j, from, n) ==
  LET orders == [i \in 1..n |-> [stream[from + i].order EXCEPT !.seq = i - 1]]
  IN  [id |-> j, cutoff |-> Cutoff(j), orders |-> orders, preimages |-> orders]

----------------------------------------------------------------------------
\* partition_stream has not been called.
PartitionInit ==
  /\ stream = << >>
  /\ session_start = 0
  /\ interval = 0
  /\ max_batches = NoLimit
  /\ submission_idx = 0
  /\ batch_k = 0
  /\ bundles = << >>
  /\ finished = TRUE

\* partition_stream is called on a stream of these submissions.
CallPartition(submissions) ==
  /\ stream' \in OrderInputStream(submissions)
  /\ submission_idx' = 0
  /\ batch_k' = 1
  /\ bundles' = << >>
  /\ finished' = FALSE

\* One iteration: the orders before the cutoff, if any, become a batch.
CloseInterval ==
  /\ ~finished
  /\ batch_k <= NumBatches
  /\ LET n == TakenBefore(submission_idx, Cutoff(batch_k))
     IN  /\ submission_idx' = submission_idx + n
         /\ bundles' = IF n = 0 THEN bundles
                       ELSE Append(bundles, Bundle(batch_k, submission_idx, n))
  /\ batch_k' = batch_k + 1
  /\ UNCHANGED <<stream, session_start, interval, max_batches, finished>>

ReturnBatches ==
  /\ ~finished
  /\ batch_k > NumBatches
  /\ finished' = TRUE
  /\ UNCHANGED <<stream, session_start, interval, max_batches, submission_idx,
                 batch_k, bundles>>

PartitionNext == CloseInterval \/ ReturnBatches

----------------------------------------------------------------------------
(***************************************************************************)
(* Properties                                                              *)
(***************************************************************************)
\* The cutoff after the last arrival fits a word, so none of them wraps.
CutoffsFit ==
  stream # << >> /\ interval > 0 =>
    LET last == stream[Len(stream)].arrival
        span == IF last > session_start THEN last - session_start ELSE 0
    IN  session_start + (span \div interval + 1) * interval <= MaxTime

\* Time t lies in interval j; whatever is early lies in the first.
InInterval(t, j) ==
  /\ t < session_start + j * interval
  /\ j > 1 => t >= session_start + (j - 1) * interval

\* When the submission arrived that an order of a bundle came from.
Arrival(o) ==
  LET i == CHOOSE n \in 1..Len(stream) : stream[n].order.id = o.id
  IN  stream[i].arrival

\* Every batch holds the orders of its own interval and no others: they come
\* before its cutoff and not before the cutoff of the interval ahead of it,
\* except that the first takes the early ones.  An id is passed over only for
\* an interval in which nothing arrived.
PlacedInTheirInterval ==
  CutoffsFit =>
    /\ \A b \in 1..Len(bundles) : \A i \in 1..Len(bundles[b].orders) :
         InInterval(Arrival(bundles[b].orders[i]), bundles[b].id)
    /\ \A j \in 1..(batch_k - 1) :
         (\A b \in 1..Len(bundles) : bundles[b].id # j) =>
           \A n \in 1..Len(stream) : ~InInterval(stream[n].arrival, j)

\* A call without max_batches that returns has placed every submission, once,
\* when none of its cutoffs wraps.
NothingLeftOut ==
  finished /\ CutoffsFit /\ max_batches = NoLimit /\ interval > 0 =>
    \A n \in 1..Len(stream) :
      1 = Cardinality({p \in (1..Len(bundles)) \X (1..Len(stream)) :
                         /\ p[2] <= Len(bundles[p[1]].orders)
                         /\ bundles[p[1]].orders[p[2]].id = stream[n].order.id})
=============================================================================
