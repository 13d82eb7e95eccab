------------------------------ MODULE AppTrace ------------------------------
(***************************************************************************)
(* The application receive trace (UdpServerRxAdress.txt) of one simulation *)
(* run, as pd.read_csv and astype turn it into a table in the end-to-end   *)
(* aggregators of sem_script_c.py, and the result database entries that    *)
(* point to it.  Times are kept in ns, as in the trace; only the few       *)
(* receive times just after the warm-up boundary are enumerated, since     *)
(* every formula depends on them only through "time - boundary".           *)
(***************************************************************************)
EXTENDS Integers, Sequences, FiniteSets, SequencesExt

CONSTANTS
    NumRuns,    \* length of the list campaign.db.get_results returns
    Clients,    \* values of the 'address' column
    Sizes,      \* values of the 'packet_size' column [B]
    RxOffsets,  \* values of 'rx_time' minus the warm-up boundary [ns]
    Delays,     \* values of the 'delay' column [ns]
    MaxRows,    \* rows per trace file
    ParseOutcomes \* {TRUE}: every row casts; {TRUE, FALSE}: a row may not

ASSUME /\ NumRuns \in Nat \ {0}
       /\ MaxRows \in Nat
       /\ Sizes \subseteq Nat \ {0}
       /\ RxOffsets \subseteq Nat /\ Delays \subseteq Nat
       /\ ParseOutcomes \subseteq BOOLEAN

APP_START == 800                   \* [ms]
NsPerMs == 10^6                    \* rx_time and delay are in ns
Boundary == APP_START * NsPerMs    \* APP_START*1e6, the warm-up boundary
MbpsFactor == 8 * (10^9 \div 10^6) \* "*1e9*8/1e6" = 8000: B/ns -> Mbit/s

Runs == 1..NumRuns

\* One row, columns ['packet_size', 'address', 'rx_time', 'delay'] cast to ints.
Row == [packet_size: Sizes, address: Clients,
        rx_time: {Boundary + o : o \in RxOffsets}, delay: Delays]

\* The traces the simulator writes: a packet is sent after its application
\* starts (rx_time - delay >= boundary) and rows are appended in receive order.
Traces == {t \in BoundedSeq(Row, MaxRows) :
             /\ \A k \in DOMAIN t : t[k].rx_time - t[k].delay >= Boundary
             /\ \A k \in 1..Len(t) - 1 : t[k].rx_time <= t[k+1].rx_time}

\* A result handle: whether its stderr file has content, its trace, and
\* whether astype can cast every row of it (casts = FALSE: a truncated or
\* corrupt line; only a trace with rows can hold one).  The rows of an
\* uncastable trace are kept as what the other rows hold.
Result == {res \in [stderr: BOOLEAN, trace: Traces, casts: ParseOutcomes] :
             res.trace = <<>> => res.casts}

\* Mutant: the stderr test lost (check_errors always returns 0).
check_errors_never(res) == FALSE

\* check_errors: 1 iff the stderr file is not empty.
check_errors(res) == res.stderr

\* A column of the table, and its pandas .sum() and .max().
Column(t, f) == [k \in DOMAIN t |-> t[k][f]]
ColumnSum(t, f) == SumFunction(Column(t, f))
ColumnMax(t, f) == CHOOSE v \in Range(Column(t, f)) :
                     \A w \in Range(Column(t, f)) : w <= v

\* rx_df[rx_df['address'] == c]
RowsOf(t, c) == SelectSeq(t, LAMBDA row : row.address = c)

\* Non-negative rationals num/den, the float values the aggregators return;
\* den = 0 is inf, what numpy gives for a positive int64 / 0.0.
Frac(n, d) == [num |-> n, den |-> d]
FracLt(a, b) == a.num * b.den < b.num * a.den
Inf == Frac(1, 0)

\* bytes/(ns)*1e9*8/1e6 [Mbit/s] in numpy float arithmetic.
Mbps(bytes, ns) == IF ns = 0 THEN Inf ELSE Frac(bytes * MbpsFactor, ns)
=============================================================================
