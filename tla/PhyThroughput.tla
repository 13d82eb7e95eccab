----------------------------- MODULE PhyThroughput -----------------------------
(***************************************************************************)
(* get_throughput of sem_script_c.py: the radio-layer throughput, one      *)
(* scalar per usable run, from RxPacketTrace.txt.  One step is one         *)
(* iteration of the loop over the results.  A row of the trace may fail    *)
(* the int cast of astype; the ValueError is not caught, so the function   *)
(* and the script stop there.  Frames are kept as the integers the code    *)
(* compares with APP_START; only 'frame' and 'tb' are read.                *)
(***************************************************************************)
EXTENDS Integers, Sequences, SequencesExt

CONSTANTS
    NumRuns,        \* results handed to the function
    FrameOffsets,   \* frame numbers, as offsets from APP_START
    Tbs,            \* transport-block sizes [bytes]
    ParseOutcomes,  \* {TRUE}: every row casts; {TRUE, FALSE}: a row may not
    MaxRows,        \* rows per trace
    app_run_time    \* [ms], 3000 in the script

ASSUME app_run_time \in Nat \ {0} /\ ParseOutcomes \subseteq BOOLEAN

APP_START == 800
Runs == 1..NumRuns
Frames == {APP_START + o : o \in FrameOffsets}

\* One line of the tab-separated trace: the two columns the function casts,
\* and whether both of them are integers.
PhyRow == [frame : Frames, tb : Tbs, parses : ParseOutcomes]
Result == [stderr : BOOLEAN, trace : BoundedSeq(PhyRow, MaxRows)]

check_errors(res) == res.stderr

Frac(n, d) == [num |-> n, den |-> d]

\* Mutant: the upper edge of the window inclusive (<=).
InWindowUpperInclusive(row) ==
    row.frame > APP_START /\ row.frame <= app_run_time + APP_START

\* rx_df[rx_df['frame'] > APP_START]; rx_df[rx_df['frame'] < app_run_time + APP_START]
InWindow(row) == row.frame > APP_START /\ row.frame < app_run_time + APP_START

\* rx_df['tb'].sum() over the windowed rows
TbSum(t) == SumFunction([k \in {k \in DOMAIN t : InWindow(t[k])} |-> t[k].tb])

\* Mutant: the end-to-end denominator (last frame minus APP_START) in place
\* of the nominal run duration.
ThroughputFromLastFrame(t) == Frac(TbSum(t) * 1000, Last(t).frame - APP_START)

\* data_tx_cut / (app_run_time / 1000)  [bytes/s]
Throughput(t) == Frac(TbSum(t) * 1000, app_run_time)

\* astype({'frame': 'int32', 'tb': 'int32'}) raises on the first bad row.
Unparsable(t) == \E k \in DOMAIN t : ~t[k].parses

VARIABLES
    db,     \* [Runs -> Result]
    i,      \* position in the result list
    thr,    \* the list returned
    pc      \* "loop", "done", or "raised" once astype has thrown
vars == <<db, i, thr, pc>>

TypeOK ==
    /\ db \in [Runs -> Result]
    /\ i \in 1..NumRuns + 1
    /\ thr \in Seq([num : Nat, den : Nat \ {0}])
    /\ pc \in {"loop", "done", "raised"}

\* thr = []
Init ==
    /\ db \in [Runs -> Result]
    /\ i = 1 /\ thr = <<>> /\ pc = "loop"

\* Mutant: the trace read and cast before check_errors is consulted.
get_throughput_cast_first ==
    /\ pc = "loop" /\ i <= NumRuns
    /\ LET res == db[i] IN
       \/ /\ Unparsable(res.trace)
          /\ pc' = "raised"
          /\ UNCHANGED <<i, thr>>
       \/ /\ ~Unparsable(res.trace)
          /\ i' = i + 1
          /\ thr' = IF check_errors(res) \/ res.trace = <<>> THEN thr
                    ELSE Append(thr, Throughput(res.trace))
          /\ UNCHANGED pc
    /\ UNCHANGED db

\* One iteration: skip an errored run; read the trace; skip it when empty;
\* cast (which may raise); window; append the run's throughput.
get_throughput ==
    /\ pc = "loop" /\ i <= NumRuns
    /\ LET res == db[i] IN
       \/ /\ check_errors(res) \/ res.trace = <<>>
          /\ i' = i + 1
          /\ UNCHANGED <<thr, pc>>
       \/ /\ ~check_errors(res) /\ res.trace # <<>>
          /\ Unparsable(res.trace)
          /\ pc' = "raised"
          /\ UNCHANGED <<i, thr>>
       \/ /\ ~check_errors(res) /\ res.trace # <<>>
          /\ ~Unparsable(res.trace)
          /\ thr' = Append(thr, Throughput(res.trace))
          /\ i' = i + 1
          /\ UNCHANGED pc
    /\ UNCHANGED db

\* return thr
Return ==
    /\ pc = "loop" /\ i > NumRuns
    /\ pc' = "done"
    /\ UNCHANGED <<db, i, thr>>

Next == get_throughput \/ Return

\* A single sequential thread: an enabled step is eventually taken.
Spec == Init /\ [][Next]_vars /\ WF_vars(Next)

-----------------------------------------------------------------------------
(* Spec 4.3 / 4.4: the radio-layer throughput of a usable run is the sum of *)
(* transport-block bytes of the records at or after the boundary and       *)
(* strictly before boundary + duration, divided by the duration in seconds; *)
(* spec 5: a run with an unparsable row is unusable and skipped.           *)

SpecWindow(row) == row.frame >= APP_START /\ row.frame < app_run_time + APP_START

SpecTbSum(t) == SumFunction([k \in {k \in DOMAIN t : SpecWindow(t[k])} |-> t[k].tb])

SpecUsable(res) == ~res.stderr /\ res.trace # <<>> /\ ~Unparsable(res.trace)

SpecThr ==
    LET used == SelectSeq([r \in Runs |-> r], LAMBDA r : SpecUsable(db[r]))
    IN  [j \in DOMAIN used |-> Frac(SpecTbSum(db[used[j]].trace) * 1000, app_run_time)]

\* When get_throughput returns, its list holds one value per usable run, in
\* run order, each computed over the two-sided window of spec 4.3.
ThroughputAsSpecified == pc = "done" => thr = SpecThr

\* get_throughput ends, and it ends in the uncaught ValueError of astype
\* exactly when a run that check_errors lets through has a non-empty trace
\* with a row that does not cast; the trace of an errored run is never cast,
\* so its bad rows cannot stop the script.  Otherwise it returns.
CastFailsInUsableRun ==
    \E r \in Runs : /\ ~db[r].stderr /\ db[r].trace # <<>>
                   /\ \E k \in DOMAIN db[r].trace : ~db[r].trace[k].parses
EndsAsCastDecides == <>[](pc = IF CastFailsInUsableRun THEN "raised" ELSE "done")

\* Spec 5 (ParseError is fatal per run, "never abort the whole sweep for
\* isolated bad runs"): get_throughput always returns.
AlwaysReturns == <>(pc = "done")
=============================================================================
