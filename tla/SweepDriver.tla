------------------------------ MODULE SweepDriver ------------------------------
(***************************************************************************)
(* The top level of sem_script_c.py: the parameter grid, the campaign's    *)
(* run_missing_simulations, the error survey over all results, and the     *)
(* sweep over weightPolicy x allocationPeriod that mutates params_grid in  *)
(* place and asks the result database for each point's runs.  Only the    *)
(* parameters the script varies are kept; the others are single values    *)
(* equal in every configuration.  Each point records the configurations of *)
(* the results handed to get_e2e_ue_throughput and get_e2e_ue_latency,     *)
(* whose reductions E2eAggregators checks.                                 *)
(***************************************************************************)
EXTENDS Integers, Sequences, FiniteSets, SequencesExt

CONSTANTS
    Policies,   \* the 'weightPolicy' list, in order
    Periods,    \* the 'allocationPeriod' list, in order
    SimOutcomes \* what a stored run yields: "ok", "error" (stderr has
                \* content) or "empty" (no entry for the aggregators)

ASSUME SimOutcomes \subseteq {"ok", "error", "empty"}

Keys == {"centralizedSched", "weightPolicy", "allocationPeriod"}
\* A configuration of one simulation, on the parameters the script varies.
Config == [centralizedSched : BOOLEAN, weightPolicy : ToSet(Policies),
           allocationPeriod : ToSet(Periods)]
\* A parameter grid: each key maps to its candidate values (a scalar is a
\* one-element list to sem).
Grid == [centralizedSched : SUBSET BOOLEAN, weightPolicy : SUBSET ToSet(Policies),
         allocationPeriod : SUBSET ToSet(Periods)]

InitialGrid == [centralizedSched |-> {TRUE}, weightPolicy |-> ToSet(Policies),
                allocationPeriod |-> ToSet(Periods)]

\* sem.list_param_combinations: every configuration the grid allows.
list_param_combinations(g) == {c \in Config : \A k \in Keys : c[k] \in g[k]}

\* campaign.db.get_results(g): the stored results whose parameters the grid
\* allows (all of them when no filter is given).
get_results(dbase, g) == {c \in DOMAIN dbase : c \in list_param_combinations(g)}

VARIABLES
    db,           \* [configs run so far -> SimOutcomes]
    params_grid,  \* the mutable grid
    params_orig,  \* its deep copy taken before the sweep
    num_errors,   \* errors counted by the survey
    pi, qi,       \* positions in params_orig['weightPolicy'] / ['allocationPeriod']
    series,       \* policy -> configurations aggregated at each period
    pc
vars == <<db, params_grid, params_orig, num_errors, pi, qi, series, pc>>

TypeOK ==
    /\ DOMAIN db \subseteq Config /\ \A c \in DOMAIN db : db[c] \in SimOutcomes
    /\ params_grid \in Grid /\ params_orig \in Grid
    /\ num_errors \in Nat
    /\ pi \in 1..Len(Policies) + 1 /\ qi \in 1..Len(Periods) + 1
    /\ series \in [ToSet(Policies) -> Seq(SUBSET Config)]
    /\ pc \in {"run_missing", "survey", "sweep", "done", "raised"}

\* The result database may already hold runs of earlier campaigns, of any
\* configuration, e.g. the non-centralized runs of the commented-out blocks.
Init ==
    /\ \E prior \in SUBSET Config : db \in [prior -> SimOutcomes]
    /\ params_grid = InitialGrid
    /\ params_orig = InitialGrid
    /\ num_errors = 0
    /\ pi = 1 /\ qi = 1
    /\ series = [p \in ToSet(Policies) |-> <<>>]
    /\ pc = "run_missing"

\* overall_list = sem.list_param_combinations(params_grid);
\* campaign.run_missing_simulations(overall_list): every combination without
\* a stored result is simulated once, with any outcome.
run_missing_simulations ==
    /\ pc = "run_missing"
    /\ LET missing == list_param_combinations(params_grid) \ DOMAIN db
       IN  \E outcome \in [missing -> SimOutcomes] : db' = db @@ outcome
    /\ pc' = "survey"
    /\ UNCHANGED <<params_grid, params_orig, num_errors, pi, qi, series>>

\* params_grid.update(centralizedSched=[False, True]); weightPolicy=[1, 2, 3];
\* params_orig = copy.deepcopy(params_grid); then count, over every stored
\* result, those whose check_errors is 1.
PrepareSweep ==
    /\ pc = "survey"
    /\ LET g == [params_grid EXCEPT !.centralizedSched = BOOLEAN,
                                    !.weightPolicy = ToSet(Policies)]
       IN  /\ params_grid' = g
           /\ params_orig' = g
    /\ num_errors' = Cardinality({c \in DOMAIN db : db[c] = "error"})
    /\ pc' = "sweep"
    /\ UNCHANGED <<db, pi, qi, series>>

\* Mutant: only weightPolicy updated, allocationPeriod left as the full list.
SweepGridPolicyOnly(g, policy, period) == [g EXCEPT !.weightPolicy = {policy}]

\* params_grid.update(weightPolicy=policy, allocationPeriod=period)
SweepGrid(g, policy, period) ==
    [g EXCEPT !.weightPolicy = {policy}, !.allocationPeriod = {period}]

\* The lists params_orig['weightPolicy'] and ['allocationPeriod'] the two
\* for loops walk; the script writes both in ascending order.
SweptPolicies == SetToSortSeq(params_orig.weightPolicy, <)
SweptPeriods == SetToSortSeq(params_orig.allocationPeriod, <)

\* The two nested for loops: next period, or next policy and first period.
Advance(p, q) == IF q < Len(SweptPeriods) THEN <<p, q + 1>> ELSE <<p + 1, 1>>

\* One iteration of the inner loop: update the grid, fetch the point's
\* results, aggregate them and append the point to the policy's series
\* (first_quart_thr / third_quart_del, reset when the outer loop advances).
\* np.percentile of an empty list raises: when no fetched run yields an
\* entry the script stops there.
SweepPoint ==
    /\ pc = "sweep" /\ pi <= Len(SweptPolicies)
    /\ LET policy  == SweptPolicies[pi]
           period  == SweptPeriods[qi]
           g       == SweepGrid(params_grid, policy, period)
           results == get_results(db, g)
       IN  /\ params_grid' = g
           /\ \/ /\ \E c \in results : db[c] = "ok"
                 /\ series' = [series EXCEPT ![policy] =
                                 IF qi = 1 THEN <<results>> ELSE Append(@, results)]
                 /\ pi' = Advance(pi, qi)[1]
                 /\ qi' = Advance(pi, qi)[2]
                 /\ UNCHANGED pc
              \/ /\ \A c \in results : db[c] # "ok"
                 /\ pc' = "raised"
                 /\ UNCHANGED <<series, pi, qi>>
    /\ UNCHANGED <<db, params_orig, num_errors>>

\* Both loops ended: the figures are saved and the script ends.
SweepDone ==
    /\ pc = "sweep" /\ pi > Len(SweptPolicies)
    /\ pc' = "done"
    /\ UNCHANGED <<db, params_grid, params_orig, num_errors, pi, qi, series>>

Next == run_missing_simulations \/ PrepareSweep \/ SweepPoint \/ SweepDone

\* The script is one sequential thread.
Spec == Init /\ [][Next]_vars /\ WF_vars(Next)

-----------------------------------------------------------------------------
SweepPointConfigs(p, k) ==
    {c \in DOMAIN db : /\ c.weightPolicy = p
                       /\ c.allocationPeriod = SweptPeriods[k]
                       /\ c.centralizedSched \in params_orig.centralizedSched}

\* Spec 4.6 / 8.7: the point (policy, k-th period) aggregates exactly the
\* stored runs of that policy and period that match the caller's grid on
\* every other parameter, although the grid is one object mutated in place
\* across both loops.
SweepPointIsolation ==
    \A p \in ToSet(Policies) : \A k \in DOMAIN series[p] :
        series[p][k] = SweepPointConfigs(p, k)

CentralizedOnly ==
    \A p \in ToSet(Policies) : \A k \in DOMAIN series[p] :
        \A c \in series[p][k] : db[c] # "error" => c.centralizedSched
=============================================================================
