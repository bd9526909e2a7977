-------------------------------- MODULE Feed --------------------------------
(***************************************************************************)
(* Where batches come from: the synthetic sessions of Simulator, and the   *)
(* streams Partition cuts into intervals.  The batch-interval sweep of     *)
(* bench/simulator_benchmarks.cpp joins them: it takes a generated session *)
(* apart, spreads its orders over a horizon and partitions them again.     *)
(***************************************************************************)
EXTENDS Simulator, Partition

CONSTANTS
  SweptConfigs,   \* the configurations the sweep generates sessions from
  Horizon,        \* how long the orders of a sweep are spread over
  Submissions,    \* vectors of submissions a stream may be made of directly
  Starts,         \* session_start_nanos
  Lengths,        \* batch_interval_nanos
  Limits          \* max_batches, or NoLimit

ASSUME ClocksOK ==
  /\ Horizon \in Nat
  /\ Starts \subseteq 0..MaxTime /\ Lengths \subseteq 0..MaxTime
  /\ Limits \subseteq Nat \union {NoLimit}

ASSUME SubmissionsOK == \A s \in Submissions :
  /\ s \in Seq([arrival : 0..MaxTime, order : [id : Nat, seq : Nat]])
  /\ \A i, j \in 1..Len(s) : i # j => s[i].order.id # s[j].order.id

feedVars == <<simulatorVars, partitionVars>>

FeedInit == SimulatorInit /\ PartitionInit

NotCalled == config = NoConfig /\ batch_k = 0

\* A session is generated, one draw at a time.
Simulate ==
  /\ batch_k = 0
  /\ SimulatorNext
  /\ UNCHANGED partitionVars

\* The orders of a session in batch order, as evaluate() visits them.
SessionOrders ==
  LET upto[b \in 0..Len(generated)] ==
        IF b = 0 THEN << >> ELSE upto[b - 1] \o generated[b].orders
  IN  upto[Len(generated)]

\* evaluate(): every order of a complete session gets an arrival within the
\* horizon, and the stream is partitioned without a limit.  The session is
\* not read again; partition_stream looks at ids, sequence numbers and
\* arrivals only.
Sweep ==
  /\ SessionComplete
  /\ config \in SweptConfigs
  /\ session_start' \in Starts
  /\ interval' \in Lengths \ {0}
  /\ max_batches' = NoLimit
  /\ \E delay \in [1..Len(SessionOrders) -> 0..Horizon] :
       CallPartition([i \in 1..Len(SessionOrders) |->
         [arrival |-> Wrap(session_start' + delay[i]),
          order |-> [id |-> SessionOrders[i].id, seq |-> SessionOrders[i].seq]]])
  /\ config' = NoConfig
  /\ genesis' = {}
  /\ next_order_id' = 1
  /\ generated' = << >>
  /\ UNCHANGED <<order_count, batch_orders>>

\* A caller's own stream: any arrivals, early ones too, and any limit.
PartitionStream ==
  /\ NotCalled
  /\ session_start' \in Starts
  /\ interval' \in Lengths
  /\ max_batches' \in Limits
  /\ \E s \in Submissions : CallPartition(s)
  /\ UNCHANGED simulatorVars

Cut == PartitionNext /\ UNCHANGED simulatorVars

FeedNext == Simulate \/ Sweep \/ PartitionStream \/ Cut

FeedSpec == FeedInit /\ [][FeedNext]_feedVars

----------------------------------------------------------------------------
(***************************************************************************)
(* Properties                                                              *)
(***************************************************************************)
\* A preimage for each leaf, of the order at that leaf, and sequence numbers
\* that are positions.
Provable(bundle) ==
  /\ bundle.preimages = bundle.orders
  /\ \A i \in 1..Len(bundle.orders) : bundle.orders[i].seq = i - 1

\* What a configuration must promise for its orders to have a quantity.
QuantitiesPositive(c) ==
  IF c.kind = "flow" THEN c.min_qty > 0
  ELSE /\ \A i \in 1..Len(c.makers) : c.makers[i].qty > 0
       /\ \A i \in 1..Len(c.traders) : c.traders[i].min_qty > 0

\* What a configuration must promise for its orders to have a price.  A flow's
\* formula ends in a clamp to one.  A market maker's ask and the buy order of a
\* noise trader are sums that wrap, to zero just above the largest price.
PricesPositive(c) ==
  c.kind = "population" =>
    /\ \A i \in 1..Len(c.makers) : Unsigned(c.mid + c.makers[i].half_spread) > 0
    /\ \A i \in 1..Len(c.traders) : c.mid + c.traders[i].max_aggression <= MaxRaw

\* No source goes through Batch::create; each must itself give the prover what
\* it asks for.  In every bundle each preimage is of the order at its leaf and
\* sequence numbers are positions.  In a generated session no id comes twice,
\* batches are numbered the way a recursive session counts them, and every
\* order has an account of the genesis ledger.  Its price and quantity are not
\* zero, as Batch::create would have required, if the configuration promises
\* it: the sources do not see to that in every case.
BundlesMeetTheProver ==
  /\ \A b \in 1..Len(bundles) : Provable(bundles[b])
  /\ \A b \in 1..Len(generated) : Provable(generated[b]) /\ generated[b].id = b
  /\ \A i, j \in 1..Len(SessionOrders) :
       i # j => SessionOrders[i].id # SessionOrders[j].id
  /\ config # NoConfig =>
       \A i \in 1..Len(SessionOrders) :
         /\ SessionOrders[i].account \in genesis
         /\ QuantitiesPositive(config) => SessionOrders[i].qty > 0
         /\ PricesPositive(config) => SessionOrders[i].price > 0
=============================================================================
