----------------------------- MODULE Validation -----------------------------
(* pipeline/validate.py: a merged pull request becomes a task when its     *)
(* tests fail before the fix (red) and pass after it (green), three times  *)
(* each. A pull request is a repository record of Adapters with            *)
(*   closes, touches (an issue, a test file), compiles (its tests build at *)
(*   the base commit), targets (tests whose id names a changed test file), *)
(*   diff (the lines of its test patch), base and gold (test -> the outcomes *)
(*   it may have before and after the fix; "absent": not reported).        *)
EXTENDS Adapters

CONSTANTS Runs   \* n of run_tests_n_times

ASSUME ValidationAssumption == Runs \in Nat \ {0}

(* What a test suite may report, one outcome per test. *)
Suites(behaviour) ==
  LET Chosen == {f \in [DOMAIN behaviour -> {"passed", "failed", "absent"}] :
                   \A t \in DOMAIN behaviour : f[t] \in behaviour[t]}
  IN {[t \in {u \in DOMAIN f : f[u] # "absent"} |-> f[t]] : f \in Chosen}

(* The suite is run again and again in one tree: `report` is the file a    *)
(* run leaves, `raised` what the first run to fail raises.                 *)
run_tests_n_times(pr, left, suites, rs) ==
  LET f[k \in 0..Runs] ==
        IF k = 0 THEN [raised |-> "nothing", report |-> left, seen |-> <<>>]
        ELSE IF f[k - 1].raised # "nothing" THEN f[k - 1]
        ELSE LET ran == run_tests(pr, get_adapter(pr), f[k - 1].report, suites[k], rs[k])
             IN [raised |-> ran.raised, report |-> ran.report,
                 seen |-> Append(f[k - 1].seen, parse_results(pr, ran.report))]
  IN f[Runs]

Reported(seen) == UNION {DOMAIN seen[k] : k \in 1..Len(seen)}
OutcomesOf(seen, t) == {seen[k][t] : k \in {j \in 1..Len(seen) : t \in DOMAIN seen[j]}}

(* A test that some runs do not report counts with the others. *)
deterministic_only(seen) ==
  [t \in {u \in Reported(seen) : Cardinality(OutcomesOf(seen, u)) = 1} |->
     TRUE \in OutcomesOf(seen, t)]

Flaky(seen) == Reported(seen) \ DOMAIN deterministic_only(seen)
-----------------------------------------------------------------------------
(* The red side: targets that fail, tests that pass. *)
NotRun == [f2p |-> {}, passing |-> {}, flaky |-> {}]
Salvaged(pr) == [NotRun EXCEPT !.f2p = extract_test_ids_from_diff(pr.diff)]

red_run(pr, seen) ==
  LET results == deterministic_only(seen)
  IN [f2p |-> {t \in DOMAIN results : t \in pr.targets /\ ~results[t]},
      passing |-> {t \in DOMAIN results : results[t]},
      flaky |-> Flaky(seen) \intersect pr.targets]

RedVerdict(red) ==
  IF red.flaky # {} THEN "red-flaky" ELSE IF red.f2p = {} THEN "red-gate" ELSE "go"

(* Without the guard on what passed before.                                *)
FixOnly(red, seen) ==
  LET results == deterministic_only(seen)
  IN IF Flaky(seen) \intersect (red.f2p \union red.passing) # {} THEN "green-flaky"
     ELSE IF \E t \in red.f2p : ~resolve_test_outcome(results, t) THEN "green-gate"
     ELSE "instance"

green_run(red, seen) ==
  LET results == deterministic_only(seen)
  IN IF Flaky(seen) \intersect (red.f2p \union red.passing) # {} THEN "green-flaky"
     ELSE IF \E t \in red.f2p : ~resolve_test_outcome(results, t) THEN "green-gate"
     ELSE IF \E t \in red.passing : ~resolve_test_outcome(results, t) THEN "regression-gate"
     ELSE "instance"
=============================================================================
