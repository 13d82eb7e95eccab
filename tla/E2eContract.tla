----------------------------- MODULE E2eContract -----------------------------
(***************************************************************************)
(* What one call of an end-to-end aggregator gives its caller.  Spec.md   *)
(* sections 4.2, 4.4 and 4.5: skip the runs with a non-empty stderr and    *)
(* the empty traces, and return, as one value, the distribution made of   *)
(* each remaining run's contribution.  The distribution is a bag: its only *)
(* consumers (np.mean, np.percentile) ignore the order of its entries.     *)
(* When one of the remaining traces has a row that does not cast, the     *)
(* call raises instead and returns nothing: that is what the four loops   *)
(* do, where spec section 5 would skip the run alone.                      *)
(***************************************************************************)
EXTENDS AppTrace, TLC

CONSTANTS
    Aggregators,    \* the aggregators a caller may invoke
    LatencyStride   \* stride N of the Downsampler

AllAggregators == {"avg_thr", "ue_thr", "avg_lat", "ue_lat"}
ASSUME Aggregators \subseteq AllAggregators /\ LatencyStride \in Nat \ {0}

VARIABLES db, fn, result, raised
vars == <<db, fn, result, raised>>

\* The value returned: <<>> before the call returns, <<distribution>> after.
NoResult == <<>>

Contributes(r) == ~db[r].stderr /\ db[r].trace # <<>>

\* System throughput: all bits over (last receive - boundary), skipped when
\* that span is zero.
SpanAfterBoundary(t) == ColumnMax(t, "rx_time") - Boundary
SystemThroughput(t) ==
    IF SpanAfterBoundary(t) = 0 THEN <<>>
    ELSE <<Mbps(ColumnSum(t, "packet_size"), SpanAfterBoundary(t))>>

\* Per-client throughput: the same reduction per client, skipping a client
\* whose span is zero but not the rest of the run.
ClientThroughputs(t) ==
    LET active == {c \in Range(Column(t, "address")) :
                     SpanAfterBoundary(RowsOf(t, c)) # 0}
        order  == SetToSeq(active)
    IN  [j \in DOMAIN order |->
            Mbps(ColumnSum(RowsOf(t, order[j]), "packet_size"),
                 SpanAfterBoundary(RowsOf(t, order[j])))]

MeanLatency(t) == <<Frac(ColumnSum(t, "delay"), Len(t) * NsPerMs)>>

\* The Downsampler: positions 0, N, 2N, ... of the ascending delays [ms].
LatencySample(t) ==
    LET s == SortSeq([k \in DOMAIN t |-> Frac(t[k].delay, NsPerMs)], FracLt)
    IN  [j \in 1..((Len(s) + LatencyStride - 1) \div LatencyStride) |->
            s[(j - 1) * LatencyStride + 1]]

Contribution(f, t) ==
    CASE f = "avg_thr" -> SystemThroughput(t)
      [] f = "ue_thr"  -> ClientThroughputs(t)
      [] f = "avg_lat" -> MeanLatency(t)
      [] f = "ue_lat"  -> LatencySample(t)

\* Some trace the call must read has a row astype cannot cast.
CastFails == \E r \in Runs : Contributes(r) /\ ~db[r].casts

Distribution ==
    ToBag(FlattenSeq([r \in Runs |->
            IF Contributes(r) THEN Contribution(fn, db[r].trace) ELSE <<>>]))

Init ==
    /\ db \in [Runs -> Result]
    /\ fn \in Aggregators
    /\ result = NoResult
    /\ raised = FALSE

Aggregate ==
    /\ result = NoResult /\ ~raised
    /\ ~CastFails
    /\ result' = <<Distribution>>
    /\ UNCHANGED <<db, fn, raised>>

Raise ==
    /\ result = NoResult /\ ~raised
    /\ CastFails
    /\ raised' = TRUE
    /\ UNCHANGED <<db, fn, result>>

\* The call ends, with its value or with the exception.
Spec == Init /\ [][Aggregate \/ Raise]_vars /\ WF_vars(Aggregate \/ Raise)
=============================================================================
