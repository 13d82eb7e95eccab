------------------------------- MODULE BsrStats -------------------------------
(***************************************************************************)
(* The two buffer-status aggregators of sem_script_c.py, get_bsr_stats and *)
(* get_bsr_quartile_vs_depth, over the BsrStatsTrace.txt of each result.   *)
(* One step is one iteration of the loop over results; the final step of   *)
(* get_bsr_quartile_vs_depth is its loop over the depth buckets.           *)
(***************************************************************************)
EXTENDS Integers, Sequences, FiniteSets, SequencesExt, TLC

CONSTANTS
    NumRuns,      \* length of the result list
    TimeOffsets,  \* 'time' minus the warm-up boundary [ns]
    Targets,      \* values of 'targetImsi'
    Depths,       \* values of 'depth'
    BsrValues,    \* values of 'bsr' [B]
    MaxRows,      \* rows per trace file
    BsrStride,    \* the 64 of "if i % 64 == 0"
    Quartile,     \* the percentile asked of get_bsr_quartile_vs_depth
    Aggregators   \* subset of {"bsr_stats", "bsr_depth"}

ASSUME /\ NumRuns \in Nat \ {0} /\ MaxRows \in Nat /\ BsrStride \in Nat \ {0}
       /\ Depths \subseteq Nat /\ Quartile \in 0..100
       /\ Aggregators \subseteq {"bsr_stats", "bsr_depth"}

APP_START == 800
Boundary == APP_START * 10^6     \* 1e6*APP_START [ns]
UeThreshold == 200               \* targetImsi > 200: a UE; < 200: an IAB node
Runs == 1..NumRuns
DepthKeys == <<0, 1, 2, 3>>      \* the keys of bsr_map, in insertion order

\* A row of the trace; the columns come from its header line.
BsrRow == [time: {Boundary + o : o \in TimeOffsets}, targetImsi: Targets,
           depth: Depths, bsr: BsrValues]
BsrTraces == {t \in BoundedSeq(BsrRow, MaxRows) :
                \A k \in 1..Len(t) - 1 : t[k].time <= t[k+1].time}
Result == [stderr: BOOLEAN, trace: BsrTraces]

check_errors(res) == res.stderr

\* Mutant: the warm-up window left out.
WindowedNone(t) == t

\* rx_df = rx_df[rx_df['time'] > 1e6*APP_START]
Windowed(t) == SelectSeq(t, LAMBDA row : row.time > Boundary)

\* A column of the table: rx_df[f]
Column(t, f) == [k \in DOMAIN t |-> t[k][f]]
Bsrs(t) == Column(t, "bsr")

\* Mutant: the enumerate pair unpacked the wrong way round
\* ([i for v, i in enumerate(...) if v % 64 == 0]): positions are kept.
DownsampleSwapped(s) ==
    LET sorted == SortSeq(s, <)
        kept   == SelectSeq([k \in DOMAIN sorted |-> k],
                            LAMBDA k : sorted[k] % BsrStride = 0)
    IN  [j \in DOMAIN kept |-> kept[j] - 1]

\* Mutant: the first kept position off by one (i % 64 == 1).
DownsampleFromSecond(s) ==
    LET sorted == SortSeq(s, <)
        kept   == SelectSeq([k \in DOMAIN sorted |-> k],
                            LAMBDA k : (k - 1) % BsrStride = 1 % BsrStride)
    IN  [j \in DOMAIN kept |-> sorted[kept[j]]]

\* [v for i, v in enumerate(np.sort(s)) if i % 64 == 0]
Downsample(s) ==
    LET sorted == SortSeq(s, <)
        kept   == SelectSeq([k \in DOMAIN sorted |-> k],
                            LAMBDA k : (k - 1) % BsrStride = 0)
    IN  [j \in DOMAIN kept |-> sorted[kept[j]]]

\* np.percentile(a, q), linear interpolation, as the fraction num/100.
Percentile(a, q) ==
    LET s    == SortSeq(a, <)
        pos  == q * (Len(s) - 1)          \* 100 * (q/100 * (n-1))
        lo   == pos \div 100 + 1          \* 1-based index of the lower order statistic
        frac == pos % 100
        hi   == IF frac = 0 THEN lo ELSE lo + 1
    IN  [num |-> 100 * s[lo] + frac * (s[hi] - s[lo]), den |-> 100]

VARIABLES
    db,           \* [Runs -> Result]
    fn,           \* the aggregator called
    i,            \* position of the loop in the result list
    ue_bsr,       \* get_bsr_stats: samples of links towards UEs
    node_bsr,     \* get_bsr_stats: samples of links towards IAB nodes
    bsr_map,      \* get_bsr_quartile_vs_depth: depth -> samples
    quartile_vec, \* get_bsr_quartile_vs_depth: returned percentiles
    depth_vec,    \* get_bsr_quartile_vs_depth: returned depths
    pc            \* "loop", then "done"
vars == <<db, fn, i, ue_bsr, node_bsr, bsr_map, quartile_vec, depth_vec, pc>>

TypeOK ==
    /\ db \in [Runs -> Result]
    /\ fn \in Aggregators
    /\ i \in 1..NumRuns + 1
    /\ ue_bsr \in Seq(BsrValues) /\ node_bsr \in Seq(BsrValues)
    /\ bsr_map \in [0..3 -> Seq(BsrValues)]
    /\ quartile_vec \in Seq([num : Nat, den : {100}])
    /\ depth_vec \in Seq(0..3)
    /\ pc \in {"loop", "done", "raised"}

Init ==
    /\ db \in [Runs -> Result]
    /\ fn \in Aggregators
    /\ i = 1
    /\ ue_bsr = <<>> /\ node_bsr = <<>>
    /\ bsr_map = [d \in 0..3 |-> <<>>]
    /\ quartile_vec = <<>> /\ depth_vec = <<>>
    /\ pc = "loop"

\* An iteration that skips a run whose stderr has content.
SkipErrored(f) ==
    /\ pc = "loop" /\ fn = f /\ i <= NumRuns
    /\ check_errors(db[i])
    /\ i' = i + 1
    /\ UNCHANGED <<db, fn, ue_bsr, node_bsr, bsr_map, quartile_vec, depth_vec, pc>>

\* get_bsr_stats, one usable result: window the trace, split it into the
\* links towards UEs (targetImsi > 200) and towards IAB nodes
\* (targetImsi < 200), and extend each list with its downsampled samples.
get_bsr_stats ==
    /\ pc = "loop" /\ fn = "bsr_stats" /\ i <= NumRuns
    /\ ~check_errors(db[i])
    /\ LET rx_df   == Windowed(db[i].trace)
           ue_df   == SelectSeq(rx_df, LAMBDA row : row.targetImsi > UeThreshold)
           node_df == SelectSeq(rx_df, LAMBDA row : row.targetImsi < UeThreshold)
       IN  /\ ue_bsr' = ue_bsr \o Downsample(Bsrs(ue_df))
           /\ node_bsr' = node_bsr \o Downsample(Bsrs(node_df))
    /\ i' = i + 1
    /\ UNCHANGED <<db, fn, bsr_map, quartile_vec, depth_vec, pc>>

DepthRows(t, d) == SelectSeq(t, LAMBDA row : row.depth = d)

\* Mutant: bsr_map[depth] = temp, dropping the samples of earlier runs.
BucketOverwrite(old, t, d) == Downsample(Bsrs(DepthRows(t, d)))

\* bsr_map[depth].extend(temp)
BucketExtend(old, t, d) == old \o Downsample(Bsrs(DepthRows(t, d)))

\* get_bsr_quartile_vs_depth, one usable result: for each depth present in
\* the windowed trace, extend its bucket with the downsampled samples;
\* bsr_map[depth] raises KeyError, uncaught, for a depth that is no key.
get_bsr_quartile_vs_depth ==
    /\ pc = "loop" /\ fn = "bsr_depth" /\ i <= NumRuns
    /\ ~check_errors(db[i])
    /\ LET rx_df  == Windowed(db[i].trace)
           depths == Range(Column(rx_df, "depth"))
       IN  \/ /\ depths \subseteq 0..3
              /\ bsr_map' = [d \in 0..3 |->
                               IF d \in depths THEN BucketExtend(bsr_map[d], rx_df, d)
                               ELSE bsr_map[d]]
              /\ i' = i + 1
              /\ UNCHANGED pc
           \/ /\ ~(depths \subseteq 0..3)
              /\ pc' = "raised"
              /\ UNCHANGED <<bsr_map, i>>
    /\ UNCHANGED <<db, fn, ue_bsr, node_bsr, quartile_vec, depth_vec>>

\* After the loop: get_bsr_stats returns its lists; get_bsr_quartile_vs_depth
\* walks bsr_map's keys and reports (percentile, depth) for each non-empty
\* bucket.
Return ==
    /\ pc = "loop" /\ i > NumRuns
    /\ \/ /\ fn = "bsr_stats"
          /\ UNCHANGED <<quartile_vec, depth_vec>>
       \/ /\ fn = "bsr_depth"
          /\ LET kept == SelectSeq(DepthKeys, LAMBDA d : bsr_map[d] # <<>>)
             IN  /\ depth_vec' = kept
                 /\ quartile_vec' = [k \in DOMAIN kept |->
                                       Percentile(bsr_map[kept[k]], Quartile)]
    /\ pc' = "done"
    /\ UNCHANGED <<db, fn, i, ue_bsr, node_bsr, bsr_map>>

Next ==
    \/ SkipErrored("bsr_stats") \/ SkipErrored("bsr_depth")
    \/ get_bsr_stats
    \/ get_bsr_quartile_vs_depth
    \/ Return

\* One sequential thread: an enabled step is eventually taken.
Spec == Init /\ [][Next]_vars /\ WF_vars(Next)

-----------------------------------------------------------------------------
(* What spec.md 4.3-4.5 asks of the two aggregators.                       *)

\* Records at or after the warm-up boundary.
SpecWindow(t) == SelectSeq(t, LAMBDA row : row.time >= Boundary)
\* The Downsampler: positions 0, N, 2N, ... of the ascending sequence.
SpecDownsample(s) ==
    LET sorted == SortSeq(s, <)
    IN  [j \in 1..((Len(sorted) + BsrStride - 1) \div BsrStride) |->
            sorted[(j - 1) * BsrStride + 1]]
Usable(r) == ~db[r].stderr
PerRun(Sample(_)) ==
    ToBag(FlattenSeq([r \in Runs |-> IF Usable(r) THEN Sample(db[r].trace)
                                     ELSE <<>>]))
\* A link is client-facing iff its target id exceeds the threshold.
SpecUe(t) == SpecDownsample(Bsrs(SelectSeq(SpecWindow(t),
                 LAMBDA row : row.targetImsi > UeThreshold)))
SpecNode(t) == SpecDownsample(Bsrs(SelectSeq(SpecWindow(t),
                 LAMBDA row : ~(row.targetImsi > UeThreshold))))
SpecBucket(d) == FlattenSeq([r \in Runs |->
                    IF Usable(r)
                    THEN SpecDownsample(Bsrs(DepthRows(SpecWindow(db[r].trace), d)))
                    ELSE <<>>])

\* Spec 4.4: get_bsr_stats returns, as multisets, the downsampled samples of
\* every windowed record of every usable run, each record on the client side
\* or the relay side according to whether its target id exceeds 200.
BsrStatsAsSpecified ==
    (pc = "done" /\ fn = "bsr_stats") =>
        /\ ToBag(ue_bsr) = PerRun(SpecUe)
        /\ ToBag(node_bsr) = PerRun(SpecNode)

\* Spec 4.4 and 8.6: get_bsr_quartile_vs_depth reports, in depth order, one
\* pair per depth that received a sample, never a placeholder for an empty
\* one, and the pair's value is the percentile of all runs' samples of it.
DepthPairsAsSpecified ==
    (pc = "done" /\ fn = "bsr_depth") =>
        LET present == SelectSeq(DepthKeys, LAMBDA d : SpecBucket(d) # <<>>)
        IN  /\ depth_vec = present
            /\ \A k \in DOMAIN present :
                   quartile_vec[k] = Percentile(SpecBucket(present[k]), Quartile)

\* get_bsr_quartile_vs_depth ends, and it stops at the uncaught KeyError of
\* bsr_map[depth] exactly when a usable run has a report after the warm-up
\* boundary whose depth is no key of bsr_map; such a report before the
\* boundary is dropped by the window and the function returns.
KeyErrorDepth(r) ==
    \E k \in DOMAIN db[r].trace : /\ db[r].trace[k].time > Boundary
                                 /\ db[r].trace[k].depth \notin 0..3
DepthOutcome ==
    fn = "bsr_depth" =>
        <>[](pc = IF \E r \in Runs : Usable(r) /\ KeyErrorDepth(r)
                  THEN "raised" ELSE "done")
=============================================================================
