---------------------------- MODULE E2eAggregators ----------------------------
(***************************************************************************)
(* One call of an end-to-end aggregator of sem_script_c.py:                *)
(* get_e2e_avg_throughput, get_e2e_ue_throughput, get_e2e_avg_latency or   *)
(* get_e2e_ue_latency, each a loop over the result list that calls         *)
(* check_errors, reads the run's trace and appends its contribution.  One  *)
(* step is one iteration of the loop; the result database is read-only and *)
(* chosen in Init.                                                         *)
(***************************************************************************)
EXTENDS AppTrace, TLC

CONSTANTS
    Aggregators,    \* the aggregators a caller may invoke
    LatencyStride   \* the 8 of "if i % 8 == 0" in get_e2e_ue_latency

AllAggregators == {"avg_thr", "ue_thr", "avg_lat", "ue_lat"}
ASSUME Aggregators \subseteq AllAggregators /\ LatencyStride \in Nat \ {0}

VARIABLES
    db,     \* [Runs -> Result]: what campaign.db returns for each result
    fn,     \* the aggregator that was called
    i,      \* position of the loop in the result list
    out,    \* thr_avg / thr_ue / avg_lat / ovr_lat, the list returned
    empty,  \* the 'empty' counter of the two throughput aggregators
    read,   \* runs whose trace file pd.read_csv has opened
    pc      \* "loop" while iterating, "done" once the function returned,
            \* "raised" once astype has thrown
vars == <<db, fn, i, out, empty, read, pc>>

Value == [num : Nat, den : Nat]

TypeOK ==
    /\ db \in [Runs -> Result]
    /\ fn \in Aggregators
    /\ i \in 1..NumRuns + 1
    /\ out \in Seq(Value)
    /\ empty \in 0..NumRuns
    /\ read \subseteq Runs
    /\ pc \in {"loop", "done", "raised"}

-----------------------------------------------------------------------------
(* What one non-empty trace contributes, per aggregator.                   *)

\* Mutant: the first row's receive time (iat[0]) instead of the last one.
AvgThroughputFirstRow(t) ==
    <<Mbps(ColumnSum(t, "packet_size"), Head(t).rx_time - Boundary)>>

\* thr_entry = packet_size.sum()/(rx_time.iat[-1] - APP_START*1e6)*1e9*8/1e6
AvgThroughputEntries(t) ==
    <<Mbps(ColumnSum(t, "packet_size"), Last(t).rx_time - Boundary)>>

\* Mutant: the span of the whole run (rx_df) instead of the client's (ue_df).
UeThroughputFromRunMax(t) ==
    LET addrs == SetToSeq(Range(Column(t, "address")))
        entry(c) ==
            LET time_diff == ColumnMax(t, "rx_time") - Boundary
            IN  IF time_diff = 0 THEN <<>>
                ELSE <<Mbps(ColumnSum(RowsOf(t, c), "packet_size"), time_diff)>>
    IN  FlattenSeq([j \in DOMAIN addrs |-> entry(addrs[j])])

\* For each address in set(rx_df['address']): skip the client when
\* ue_df['rx_time'].max() - APP_START*1e6 == 0, else its throughput.
UeThroughputEntries(t) ==
    LET addrs == SetToSeq(Range(Column(t, "address")))
        entry(c) ==
            LET ue_df == RowsOf(t, c)
                time_diff == ColumnMax(ue_df, "rx_time") - Boundary
            IN  IF time_diff = 0 THEN <<>>
                ELSE <<Mbps(ColumnSum(ue_df, "packet_size"), time_diff)>>
    IN  FlattenSeq([j \in DOMAIN addrs |-> entry(addrs[j])])

\* lat_entry = rx_df['delay'].mean()/1e6  [ms]
AvgLatencyEntries(t) == <<Frac(ColumnSum(t, "delay"), Len(t) * NsPerMs)>>

\* [v for i, v in enumerate(np.sort(rx_df['delay']/1e6)) if i % 8 == 0]
UeLatencyEntries(t) ==
    LET sorted == SortSeq([k \in DOMAIN t |-> Frac(t[k].delay, NsPerMs)], FracLt)
        kept   == SelectSeq([k \in DOMAIN sorted |-> k],
                            LAMBDA k : (k - 1) % LatencyStride = 0)
    IN  [j \in DOMAIN kept |-> sorted[kept[j]]]

-----------------------------------------------------------------------------
(* One iteration of the loop over results.                                 *)

\* What a run's non-empty trace adds to the list of aggregator f.
Entries(f, t) ==
    CASE f = "avg_thr" -> AvgThroughputEntries(t)
      [] f = "ue_thr"  -> UeThroughputEntries(t)
      [] f = "avg_lat" -> AvgLatencyEntries(t)
      [] f = "ue_lat"  -> UeLatencyEntries(t)

\* Only the two throughput aggregators keep the 'empty' counter.
CountsEmpty(f) == f \in {"avg_thr", "ue_thr"}

\* Mutant: the empty-trace test made before check_errors.
LoopBodyEmptyFirst(f) ==
    LET res == db[i] IN
    \/ /\ res.trace = <<>>
       /\ empty' = IF CountsEmpty(f) THEN empty + 1 ELSE empty
       /\ i' = i + 1
       /\ UNCHANGED <<out, read, pc>>
    \/ /\ res.trace # <<>> /\ check_errors(res)
       /\ i' = i + 1
       /\ UNCHANGED <<out, empty, read, pc>>
    \/ /\ res.trace # <<>> /\ ~check_errors(res)
       /\ read' = read \cup {i}
       /\ \/ /\ res.casts
             /\ out' = out \o Entries(f, res.trace)
             /\ i' = i + 1
             /\ UNCHANGED <<empty, pc>>
          \/ /\ ~res.casts
             /\ pc' = "raised"
             /\ UNCHANGED <<out, empty, i>>

\* if check_errors(result) != 0: continue; read the trace; if rx_df.size == 0:
\* count it (throughput aggregators) or print a warning, and continue;
\* otherwise cast the columns, which raises ValueError, uncaught, on a row
\* that is not an integer, and extend the output with the run's entries.
LoopBody(f) ==
    LET res == db[i] IN
    \/ /\ check_errors(res)
       /\ i' = i + 1
       /\ UNCHANGED <<out, empty, read, pc>>
    \/ /\ ~check_errors(res)
       /\ read' = read \cup {i}
       /\ \/ /\ res.trace = <<>>
             /\ empty' = IF CountsEmpty(f) THEN empty + 1 ELSE empty
             /\ i' = i + 1
             /\ UNCHANGED <<out, pc>>
          \/ /\ res.trace # <<>> /\ res.casts
             /\ out' = out \o Entries(f, res.trace)
             /\ i' = i + 1
             /\ UNCHANGED <<empty, pc>>
          \/ /\ res.trace # <<>> /\ ~res.casts
             /\ pc' = "raised"
             /\ UNCHANGED <<out, empty, i>>

\* for result in results: one iteration of the loop of aggregator f.
Iterate(f) ==
    /\ pc = "loop" /\ fn = f /\ i <= NumRuns
    /\ LoopBody(f)
    /\ UNCHANGED <<db, fn>>

get_e2e_avg_throughput == Iterate("avg_thr")
get_e2e_ue_throughput  == Iterate("ue_thr")
get_e2e_avg_latency    == Iterate("avg_lat")
get_e2e_ue_latency     == Iterate("ue_lat")

\* End of the loop: print the warning and return the list.
Return ==
    /\ pc = "loop" /\ i > NumRuns
    /\ pc' = "done"
    /\ UNCHANGED <<db, fn, i, out, empty, read>>

\* Mutant: the counter initialised to 1 (empty = 1).
InitEmptyFromOne ==
    /\ db \in [Runs -> Result]
    /\ fn \in Aggregators
    /\ i = 1
    /\ out = <<>>
    /\ empty = 1
    /\ read = {}
    /\ pc = "loop"

\* thr_avg = []; empty = 0, then the loop over the results.
Init ==
    /\ db \in [Runs -> Result]
    /\ fn \in Aggregators
    /\ i = 1
    /\ out = <<>>
    /\ empty = 0
    /\ read = {}
    /\ pc = "loop"

Next ==
    \/ get_e2e_avg_throughput
    \/ get_e2e_ue_throughput
    \/ get_e2e_avg_latency
    \/ get_e2e_ue_latency
    \/ Return

\* The script is one sequential thread: an enabled step is eventually taken.
Spec == Init /\ [][Next]_vars /\ WF_vars(Next)

-----------------------------------------------------------------------------
(* Properties.                                                             *)

\* Spec 8.2: no aggregator reads the trace of a run whose stderr has content.
ErroredRunNeverRead == \A r \in read : ~db[r].stderr

\* Spec 8.1: the empty counter of the throughput aggregators counts exactly
\* the runs seen so far that passed check_errors and had an empty trace.
EmptyTraceCount ==
    fn \in {"avg_thr", "ue_thr"} =>
        empty = Cardinality({r \in 1..i - 1 :
                               ~db[r].stderr /\ db[r].trace = <<>>})

\* The comment "# If only 1 packet: skip" in get_e2e_ue_throughput: a
\* client with a single packet in a run contributes no throughput, so the
\* returned list has at most one entry per client with two or more packets.
OnePacketClientSkipped ==
    (pc = "done" /\ fn = "ue_thr") =>
        Len(out) <= Cardinality({rc \in read \X Clients :
                                   Len(RowsOf(db[rc[1]].trace, rc[2])) >= 2})

\* The loop implements the contract of spec 4.4: when the function returns,
\* the list holds, as a multiset, exactly the contributions the contract
\* defines; it raises exactly when a trace it must read does not cast; and
\* it does one or the other.
Contract == INSTANCE E2eContract
              WITH result <- IF pc = "done" THEN <<ToBag(out)>> ELSE <<>>,
                   raised <- pc = "raised"
ImplementsContract == Contract!Spec
=============================================================================
