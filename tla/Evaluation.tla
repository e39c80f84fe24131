----------------------------- MODULE Evaluation -----------------------------
(* scripts/run_driver.py over harness/driver.py: for every model, instance *)
(* and repeat the agent runs, its patch is judged by evaluate() in a tree  *)
(* of its own, and the verdict is appended to a results file from which a  *)
(* restarted driver takes up the work. The file is loaded into the         *)
(* database, once or again, whenever somebody asks for it.                 *)
EXTENDS AgentLoop, Adapters, Reporting

CONSTANTS KeyLists,    \* sequences of records model, instance, repeat
          MaxCrashes,  \* bound of the fault model
          MaxLoads,    \* how often load_results is run
          F2P, P2P     \* the two lists of tests of the instances

ASSUME EvaluationAssumption ==
  /\ MaxCrashes \in Nat /\ MaxLoads \in Nat
  /\ \A ks \in KeyLists :
       /\ ks \in Seq([model : Models, instance : Instances, repeat : Nat])
       /\ \A k, l \in 1..Len(ks) : ks[k] = ks[l] => k = l

(* What validate.py lets through: a language there is an adapter for, a    *)
(* fix apart from the tests, tests that failed and others that passed.     *)
ASSUME InstanceAssumption ==
  /\ \A inst \in Instances : /\ inst.language \in {"typescript", "python", "java"}
                             /\ inst.gold \subseteq {p \in Paths : ~is_test_path(p)}
  /\ F2P # {} /\ F2P \intersect P2P = {}

VARIABLES
  keys,          \* models x instances x repeats of the command line
  driver,        \* the process: "off", "run", "row", "finished" or "broken"
  pos,           \* of the key in hand
  already_done,  \* the keys read from the file at start-up
  rows,          \* the results file
  torn,          \* its last line was cut off
  result,        \* what run_and_evaluate returned
  crashes,
  db,            \* the tables runs and results
  loads          \* how often they were loaded

dbVars == <<db, loads>>
driverVars == <<keys, driver, pos, already_done, rows, torn, result, crashes, dbVars>>
vars == <<loopVars, driverVars>>

EvalResult(status, resolved, strategy, reset, tree) ==
  [status |-> status, resolved |-> resolved, strategy |-> strategy, reset |-> reset,
   tree |-> tree, cost |-> -1]

NoResult == EvalResult("none", FALSE, "none", {}, BaseTree)
-----------------------------------------------------------------------------
(* External: which tests the runner of the repository reports on a tree. A *)
(* test file an agent rewrote says whatever the agent wants it to say.     *)
Suite(inst, tree) ==
  [t \in IF tree["tests"] = Absent THEN {} ELSE F2P \union P2P |->
     IF \/ "own" \in tree["tests"]
        \/ t \in F2P /\ "key" \in tree["tests"] /\ Works(tree, inst)
        \/ t \in P2P /\ "wrong" \notin tree["src"]
     THEN "passed" ELSE "failed"]

(* The answer key may need what only the fix adds. *)
Builds(inst, tree) == inst.api /\ "key" \in tree["tests"] => Works(tree, inst)

RunResults(inst, tree) ==
  IF Builds(inst, tree) \/ inst.language = "typescript"
  THEN sandbox_run \ {"marked"} ELSE sandbox_run \ {"ok"}

(* What an installation can come to, whatever each of its commands does.   *)
Installations ==
  [inst \in Instances |->
     {install(inst, rs, machine, download) :
        rs \in [1..3 -> sandbox_run], machine \in SUBSET {get_adapter(inst).version, build_jdk},
        download \in BOOLEAN}]

(* evaluate(), step by step. *)
RunAndScore(inst, env, tree, strategy, reset, r) ==
  LET ran == run_tests(inst, env, NoReport, Suite(inst, tree), r)
      outcomes == parse_results(inst, ran.report)
  IN CASE ran.raised = "TimeoutError" -> EvalResult("timeout", FALSE, "none", {}, tree)
       [] ran.raised = "CompileFailure" -> EvalResult("ok", FALSE, strategy, reset, tree)
       [] ran.raised = "RuntimeError" -> EvalResult("infra_error", FALSE, "none", {}, tree)
       [] OTHER -> EvalResult("ok", \A t \in F2P \union P2P : resolve_test_outcome(outcomes, t),
                              strategy, reset, tree)

InjectTests(inst, env, tree, strategy, reset, r) ==
  LET injected == try_apply_patch(tree, test_patch)
  IN IF injected.ok THEN RunAndScore(inst, env, injected.tree, strategy, reset, r)
     ELSE EvalResult("test_patch_apply_failed", FALSE, "none", {}, injected.tree)

(* The files of the candidate that are put back before the tests go in.    *)
AllTouched(candidate) == diff_touched_paths(candidate)
TestFiles(candidate) == {p \in diff_touched_paths(candidate) : is_test_path(p)}

ApplyAndReset(inst, env, tree, candidate, r) ==
  LET applied == try_apply_patch(tree, candidate)
      reset == TestFiles(candidate)
  IN IF applied.ok
     THEN InjectTests(inst, env, restore_paths(applied.tree, reset), applied.strategy, reset, r)
     ELSE EvalResult("patch_apply_failed", FALSE, "none", {}, applied.tree)

evaluate(inst, candidate, installed, r) ==
  LET tree == IF inst.language = "typescript" THEN ts_sanitize(inst, BaseTree) ELSE BaseTree
  IN CASE installed = "TimeoutError" -> EvalResult("timeout", FALSE, "none", {}, tree)
       [] installed = "CompileFailure" -> EvalResult("ok", FALSE, "none", {}, tree)
       [] installed = "RuntimeError" -> EvalResult("infra_error", FALSE, "none", {}, tree)
       [] OTHER -> ApplyAndReset(inst, get_adapter(inst), tree, candidate, r)
-----------------------------------------------------------------------------
Init ==
  /\ LoopInit
  /\ keys \in KeyLists
  /\ driver = "off" /\ pos = 0 /\ already_done = {} /\ rows = <<>> /\ torn = FALSE
  /\ result = NoResult /\ crashes = 0
  /\ db = [runs |-> {}, table |-> {}] /\ loads = 0

Recorded == {rows[k].key : k \in 1..Len(rows)}

(* A line that does not parse ends main() before anything is run. *)
StartDriver ==
  /\ driver = "off"
  /\ IF torn THEN driver' = "broken" /\ UNCHANGED <<already_done, pos>>
     ELSE driver' = "run" /\ already_done' = Recorded /\ pos' = 1
  /\ UNCHANGED <<loopVars, keys, rows, torn, result, crashes, dbVars>>

DoneWithoutRepeat(key) ==
  \E k \in already_done : k.model = key.model /\ k.instance = key.instance
DoneIfJudged(key) ==
  key \in already_done /\ \A k \in 1..Len(rows) : rows[k].key = key => rows[k].status = "ok"
AlreadyDone(key) == key \in already_done

Skip ==
  /\ driver = "run" /\ stage = "idle" /\ pos <= Len(keys)
  /\ AlreadyDone(keys[pos])
  /\ pos' = pos + 1
  /\ UNCHANGED <<loopVars, keys, driver, already_done, rows, torn, result, crashes, dbVars>>

Run ==
  /\ driver = "run" /\ pos <= Len(keys)
  /\ ~AlreadyDone(keys[pos])
  /\ run_agent(keys[pos].instance, keys[pos].model)
  /\ UNCHANGED driverVars

AgentStep == LoopNext /\ UNCHANGED driverVars

(* What the agent raises becomes a verdict, without what it cost. *)
AgentRaised ==
  /\ driver = "run" /\ stage = "raised"
  /\ result' = EvalResult("infra_error", FALSE, "none", {}, BaseTree)
  /\ driver' = "row"
  /\ UNCHANGED <<loopVars, keys, pos, already_done, rows, torn, crashes, dbVars>>

Evaluate ==
  /\ driver = "run" /\ stage = "done" /\ Detected(get_adapter(instance))
  /\ \E installed \in Installations[instance], r \in sandbox_run :
       LET verdict == evaluate(instance, patch, installed, r)
       IN /\ r \in RunResults(instance, verdict.tree)
          /\ result' = [verdict EXCEPT !.cost = paid]
  /\ driver' = "row"
  /\ UNCHANGED <<loopVars, keys, pos, already_done, rows, torn, crashes, dbVars>>

(* evaluate() stands outside the try: what escapes it ends the driver. No  *)
(* environment is there to detect, git cannot make the tree or put files   *)
(* back in it, or the report of the tests does not parse.                  *)
EvaluateRaises ==
  /\ driver = "run" /\ stage = "done"
  /\ driver' = "broken"
  /\ UNCHANGED <<loopVars, keys, pos, already_done, rows, torn, result, crashes, dbVars>>

WriteRow ==
  /\ driver = "row"
  /\ rows' = Append(rows, [key |-> keys[pos], status |-> result.status,
                           resolved |-> result.resolved, cost |-> result.cost])
  /\ driver' = "run" /\ pos' = pos + 1 /\ result' = NoResult
  /\ Forgotten
  /\ UNCHANGED <<keys, already_done, torn, crashes, dbVars>>

Finish ==
  /\ driver = "run" /\ stage = "idle" /\ pos > Len(keys)
  /\ driver' = "finished"
  /\ UNCHANGED <<loopVars, keys, pos, already_done, rows, torn, result, crashes, dbVars>>

(* The process dies: the run in hand is lost, and a row that is being      *)
(* written may leave half a line.                                          *)
Crash ==
  /\ driver \in {"run", "row"} /\ crashes < MaxCrashes
  /\ crashes' = crashes + 1
  /\ driver' = "off" /\ torn' \in {FALSE, driver = "row"} /\ result' = NoResult
  /\ Forgotten
  /\ UNCHANGED <<keys, pos, already_done, rows, dbVars>>

(* Beside the driver, and again: a file with half a line is refused whole. *)
LoadResults ==
  /\ loads < MaxLoads /\ ~torn /\ rows # <<>>
  /\ loads' = loads + 1
  /\ db' = load_results(db, rows)
  /\ UNCHANGED <<loopVars, keys, driver, pos, already_done, rows, torn, result, crashes>>

(* A finished driver, and one an exception ended, stays where it is. *)
Over == driver \in {"finished", "broken"} /\ UNCHANGED vars

Next ==
  \/ StartDriver \/ Skip \/ Run \/ AgentStep \/ AgentRaised \/ Evaluate \/ EvaluateRaises
  \/ WriteRow \/ Finish \/ Crash \/ LoadResults \/ Over

Spec == Init /\ [][Next]_vars
-----------------------------------------------------------------------------
(* What is recorded as resolved was judged by the answer key's tests alone, *)
(* whatever the agent did to the tests, in a tree that holds the fix       *)
(* (eval_runner.py:97-120).                                                *)
ResolvedByTheKey ==
  result.resolved =>
    /\ result.status = "ok"
    /\ result.tree["tests"] = {"key"} /\ result.tree["moved"] = Absent
    /\ Works(result.tree, instance)

(* A run whose patch carries the whole fix, went in without fuzz and was   *)
(* judged is resolved: neither the reset nor the test patch takes anything *)
(* of the fix away (eval_runner.py:101-162).                               *)
CarriesFix ==
  /\ \A p \in instance.gold : \E c \in patch : c.path = p /\ "fix" \in c.new
  /\ \A c \in patch : "wrong" \notin c.new

FixIsScored ==
  driver = "row" /\ result.status = "ok" /\ result.strategy = "strict" /\ CarriesFix
    => result.resolved

(* A restarted driver never pays again for a key that has its row, and no  *)
(* row is ever lost (run_driver.py:56-76).                                 *)
ResumesWhereItStopped ==
  [][/\ stage = "idle" /\ stage' # "idle" => keys[pos] \notin Recorded
     /\ SubSeq(rows', 1, Len(rows)) = rows]_vars

(* The driver always has a next statement until it ends (no deadlock), and *)
(* when it ends by itself every key of the command line has one row, even  *)
(* after crashes (run_driver.py:66-99).                                    *)
EveryKeyRecorded ==
  driver = "finished" =>
    /\ Recorded = {keys[k] : k \in 1..Len(keys)}
    /\ Len(rows) = Len(keys)

(* However often the file is loaded while the driver adds to it, dies and  *)
(* goes on, the database holds the verdicts of a part of it, each of them  *)
(* once (load_results.py:61-135).                                          *)
Stored(n) ==
  {[model |-> rows[k].key.model, instance |-> rows[k].key.instance,
    repeat |-> rows[k].key.repeat, status |-> rows[k].status,
    resolved |-> rows[k].resolved] : k \in 1..n}

ModelOf(id) == (CHOOSE run \in db.runs : run.id = id).model

TableIsTheFile ==
  \E n \in 0..Len(rows) :
    /\ Cardinality(db.table) = n
    /\ Stored(n) = {[model |-> ModelOf(e.run), instance |-> e.instance, repeat |-> e.repeat,
                     status |-> e.status, resolved |-> e.resolved] : e \in db.table}

(* The header of export_leaderboard_data.py, lines 9-12: the scoring rules *)
(* are those of pipeline/stats.py, infra_error attempts are excluded from  *)
(* the denominator.                                                        *)
InfraNotCounted ==
  \A m \in Models :
    compute_model_stats(rows, m, 1).total_attempts = leaderboard(rows, m, 0).attempts

(* The docstring of extract_patch, workspace.py:75: the patch is everything *)
(* the agent changed. Files it created and changes it committed are not.   *)
EverythingSubmitted ==
  stage = "done" =>
    \A p \in Paths : ws.tree[p] # BaseTree[p] => p \in {c.path : c \in patch}
=============================================================================
