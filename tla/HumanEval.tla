----------------------------- MODULE HumanEval ------------------------------
(* The humaneval command line over one directory and one ledger: generate  *)
(* asks a model for N samples of every problem with a pool of workers,     *)
(* execute scores them, and both take up the work of an earlier command    *)
(* that was cut short (humaneval/__main__.py, generate.py, spend.py). A    *)
(* model is reached by the provider "anthropic", behind a spend guard, or  *)
(* through LiteLLM, with neither guard nor ledger: a hosted one, with the  *)
(* price LiteLLM puts on it, or the engine of this repository, which costs *)
(* nothing. Money is counted in units of the ledger.                       *)
EXTENDS Scoring

CONSTANTS Problems,           \* 0..Problems-1
          Workers,            \* threads of the generation pool
          Worst,              \* the most one call costs
          Cap, Reserve,       \* budget_cap_usd and reserve_usd
          Models,             \* "anthropic", "litellm" or "engine", see above
          N,                  \* how many samples of a problem each is asked for
          Reply,              \* what the model says to each task
          MaxCommands, MaxFaults  \* bounds

AllTasks == UNION {(0..(Problems - 1)) \X (0..(N[m] - 1)) : m \in Models}

ASSUME HumanEvalAssumption ==
  /\ Problems \in Nat \ {0} /\ Workers \in Nat \ {0} /\ Worst \in Nat \ {0}
  /\ Cap \in Nat /\ Reserve \in Nat
  /\ Models \subseteq {"anthropic", "litellm", "engine"}
  /\ N \in [Models -> Nat \ {0}] /\ DOMAIN Reply = AllTasks

VARIABLES
  stage,        \* the command that runs: "none", "generate", "execute"
  command,      \* how many were started
  model,        \* of this directory
  queue,        \* futures no worker has taken, by their place in the order
  calls,        \* the futures in the hands of a thread
  finished,     \* futures with an outcome the main thread has not seen
  spent, tripped,            \* the SpendGuard
  ledger,       \* the sum of the ledger file
  completions,  \* the rows of completions.jsonl
  unscored,     \* of execute: the rows that are still to be run
  buffered,     \* of execute: rows written, not flushed
  results,      \* results.jsonl
  torn,         \* files whose last line was cut off
  crashes,
  errors        \* calls that have failed

guardVars == <<spent, tripped, ledger>>
poolVars == <<queue, calls, finished>>
genVars == <<model, guardVars, poolVars, completions>>
execVars == <<unscored, buffered, results>>
vars == <<stage, command, genVars, execVars, torn, crashes, errors>>
-----------------------------------------------------------------------------
Init ==
  /\ stage = "none" /\ command = 0 /\ model \in Models
  /\ queue = {} /\ calls = {} /\ finished = {}
  /\ spent = 0 /\ tripped = FALSE /\ ledger = 0
  /\ completions = {}
  /\ unscored = {} /\ buffered = {} /\ results = {}
  /\ torn = {} /\ crashes = 0 /\ errors = 0

Guarded == model = "anthropic"

TasksOf(rows) == {row.task : row \in rows}

(* Every problem's sample 0, then every problem's sample 1, ... *)
ProblemMajor ==
  [k \in 1..(Problems * N[model]) |-> <<(k - 1) \div N[model], (k - 1) % N[model]>>]
SampleMajor == [k \in 1..(Problems * N[model]) |-> <<(k - 1) % Problems, (k - 1) \div Problems>>]

(* load_done: a line that does not parse ends the command. *)
TodoAll == DOMAIN SampleMajor
Todo == {k \in DOMAIN SampleMajor : SampleMajor[k] \notin TasksOf(completions)}

(* Without what is held back for the calls in flight.                      *)
TrippedAtCap(total) == total >= Cap
Tripped(total) == total + Reserve >= Cap

(* A new SpendGuard has the ledger's total for its own. *)
SpendGuard ==
  /\ spent' = ledger
  /\ tripped' = (Guarded /\ Tripped(ledger))

StartGenerate ==
  /\ stage = "none" /\ command < MaxCommands /\ "completions" \notin torn
  /\ stage' = "generate" /\ command' = command + 1
  /\ SpendGuard
  /\ queue' = Todo /\ finished' = {} /\ calls' = {}
  /\ UNCHANGED <<model, ledger, completions, execVars, torn, crashes, errors>>

Call(task, pc) == [task |-> task, pc |-> pc]

Settle(call, kind, cost) ==
  /\ calls' = calls \ {call}
  /\ finished' = finished \union {[task |-> call.task, kind |-> kind, cost |-> cost]}

ThreadFree == Cardinality(calls) < Workers

(* A thread of the pool takes the next future... *)
Take ==
  /\ stage = "generate" /\ ThreadFree
  /\ \E k \in queue :
       /\ \A j \in queue : k <= j
       /\ calls' = calls \union {Call(SampleMajor[k], IF Guarded THEN "check" ELSE "call")}
       /\ queue' = queue \ {k}
  /\ UNCHANGED <<stage, command, model, guardVars, finished, completions,
                 execVars, torn, crashes, errors>>

CheckWaits(call) ==
  /\ call.pc = "check" /\ ~tripped
  /\ calls' = (calls \ {call}) \union {Call(call.task, "call")}
  /\ UNCHANGED <<stage, command, model, guardVars, queue, finished, completions,
                 execVars, torn, crashes, errors>>

(* ... reads `tripped` without the lock... *)
Check(call) ==
  /\ call.pc = "check"
  /\ IF tripped THEN Settle(call, "skipped", 0)
     ELSE /\ calls' = (calls \ {call}) \union {Call(call.task, "call")}
          /\ UNCHANGED finished
  /\ UNCHANGED <<stage, command, model, guardVars, queue, completions,
                 execVars, torn, crashes, errors>>

(* Under the lock: the total, the ledger and the breaker.                  *)
record(usd) ==
  /\ spent' = spent + usd /\ ledger' = ledger + usd
  /\ tripped' = (tripped \/ Tripped(spent + usd))

(* ... and records what the call has cost.                                 *)
CallReturns(call) ==
  /\ call.pc = "call" /\ Guarded
  /\ \E usd \in 1..Worst : record(usd) /\ Settle(call, "row", usd)
  /\ UNCHANGED <<stage, command, model, queue, completions,
                 execVars, torn, crashes, errors>>

(* What LiteLLM says the answer has cost, and nothing where it knows no    *)
(* price, goes into the row; no ledger hears of it.                        *)
CompletionCosts == IF model = "engine" THEN {0} ELSE 0..Worst

LiteLLMReturns(call) ==
  /\ call.pc = "call" /\ ~Guarded
  /\ \E usd \in CompletionCosts : Settle(call, "row", usd)
  /\ UNCHANGED <<stage, command, model, guardVars, queue, completions,
                 execVars, torn, crashes, errors>>

CallFails(call) ==
  /\ call.pc = "call" /\ errors + crashes < MaxFaults
  /\ errors' = errors + 1
  /\ Settle(call, "error", 0)
  /\ UNCHANGED <<stage, command, model, guardVars, queue, completions,
                 execVars, torn, crashes>>

(* as_completed hands futures out in any order; a row is flushed at once.  *)
BreakWhenSkipped(f) == f.kind = "row" /\ \A g \in finished : g.kind # "skipped"
IsRow(f) == f.kind = "row"

Collect ==
  /\ stage = "generate"
  /\ \E f \in finished :
       /\ finished' = finished \ {f}
       /\ completions' =
            IF IsRow(f)
            THEN completions \union {[task |-> f.task, cost |-> f.cost, command |-> command]}
            ELSE completions
  /\ UNCHANGED <<stage, command, model, guardVars, queue, calls,
                 execVars, torn, crashes, errors>>

(* The pool is empty: the command ends, with status 1 if there were errors. *)
EndGenerate ==
  /\ stage = "generate" /\ queue = {} /\ calls = {} /\ finished = {}
  /\ stage' = "none"
  /\ UNCHANGED <<command, model, guardVars, poolVars, completions,
                 execVars, torn, crashes, errors>>
-----------------------------------------------------------------------------
StartExecute ==
  /\ stage = "none" /\ command < MaxCommands /\ torn = {} /\ completions # {}
  /\ stage' = "execute" /\ command' = command + 1
  /\ unscored' = TasksOf(completions) \ TasksOf(results)
  /\ buffered' = {}
  /\ UNCHANGED <<genVars, results, torn, crashes, errors>>

(* Rows are run side by side, and written without a flush. *)
Execute ==
  /\ stage = "execute"
  /\ \E t \in unscored :
       LET program == assemble_program(extract_code(Reply[t])) IN
       \E proc \in Containers(program) :
       /\ buffered' = buffered \union {[task |-> t, assembly_mode |-> program.mode,
                                      outcome |-> run_program(proc), command |-> command]}
       /\ unscored' = unscored \ {t}
  /\ UNCHANGED <<stage, command, genVars, results, torn, crashes, errors>>

(* The file is closed when nothing is left, and when a run raises. *)
EndExecute ==
  /\ stage = "execute"
  /\ results' = results \union buffered
  /\ stage' = "none" /\ unscored' = {} /\ buffered' = {}
  /\ UNCHANGED <<command, genVars, torn, crashes, errors>>

(* The report over what is scored by now. *)
cmd_report == summarize(results, 1..N[model])

(* The process is killed: threads and buffers are gone, and the file in    *)
(* hand may end in half a line. What the calls in flight cost is not in    *)
(* the ledger.                                                             *)
Crash ==
  /\ stage # "none" /\ errors + crashes < MaxFaults
  /\ crashes' = crashes + 1
  /\ stage' = "none"
  /\ queue' = {} /\ finished' = {} /\ calls' = {}
  /\ \E flushed \in SUBSET buffered : results' = results \union flushed
  /\ torn' \in {torn, torn \union {IF stage = "generate" THEN "completions" ELSE "results"}}
  /\ unscored' = {} /\ buffered' = {}
  /\ UNCHANGED <<command, model, guardVars, completions, errors>>

Pool == Take \/ \E call \in calls : Check(call) \/ CallReturns(call) \/ LiteLLMReturns(call) \/ CallFails(call)
Main == Collect \/ EndGenerate

Next ==
  \/ StartGenerate \/ Pool \/ Main
  \/ StartExecute \/ Execute \/ EndExecute \/ Crash

Spec == Init /\ [][Next]_vars

(* Threads run, and a call ends: the client gives it 180 seconds. *)
FairSpec == Spec /\ WF_vars(Main) /\ WF_vars(Pool)
-----------------------------------------------------------------------------
(* The guard is read without its lock before a call and counts the call    *)
(* after it; all the same, what is held back for every worker's dearest    *)
(* call keeps the ledger, over restarts too, below the cap                 *)
(* (spend.py:46-67, generate.py:91-101).                                    *)
BreakerHolds ==
  ledger = 0 \/ ledger + Reserve < Cap + Workers * Worst

(* No sample has two rows in a file, whatever was cut short and taken up   *)
(* again, and what is scored was generated (generate.py:146-158,           *)
(* __main__.py:102-124).                                                   *)
OneRowPerSample ==
  /\ \A rows \in {completions, results \union buffered} :
       \A a, b \in rows : a.task = b.task => a = b
  /\ TasksOf(results \union buffered) \subseteq TasksOf(completions)

(* For the provider behind the guard, and while nothing is cut short, the  *)
(* ledger is the sum of the rows, those that are still on their way        *)
(* included, unit by unit (generate.py:101, 180-182).                      *)
Units(rows) == UNION {{row} \X (1..row.cost) : row \in rows}
LedgerIsTheRows ==
  crashes = 0 /\ Guarded =>
    ledger = Cardinality(Units(completions)) + Cardinality(Units(finished))

(* When the breaker has stopped a run, no problem is ahead of another one  *)
(* by more samples than there are workers (generate.py:156-158).           *)
Drawn(p) == Cardinality({t \in TasksOf(completions) : t[1] = p})
SamplesBalanced ==
  errors + crashes = 0 /\ stage = "none" =>
    \A p, q \in 0..(Problems - 1) : Drawn(p) <= Drawn(q) + Workers

(* A sample passes if and only if its code passed its problem's check; a   *)
(* program that never reported is no pass (executor.py:45-82).             *)
PassedByCheck ==
  \A row \in results :
    LET right == extract_code(Reply[row.task]).right
    IN /\ row.outcome = "passed" => right
       /\ row.outcome \in {"failed", "error", "collection_error"} => ~right

(* The pass@k of a report made now: a product of ratios, it is the share of *)
(* the k-subsets of a problem's scored samples that hold a passed one, and *)
(* it is there for every problem with k samples (stats.py:32-43,           *)
(* report.py:16-53).                                                       *)
PassAtKIsExact ==
  LET summary == cmd_report IN
  \A p \in 0..(Problems - 1), k \in 1..N[model] :
    LET samples == {row \in results : row.task[1] = p}
        passed == {row \in samples : row.outcome = "passed"}
    IN IF Cardinality(samples) < k THEN p \notin DOMAIN summary.pass_at_k[k]
       ELSE SameFraction(summary.pass_at_k[k][p], SubsetsWithAPass(samples, passed, k))

(* A generation comes to its end, tripped, failing or not. *)
GenerateEnds == stage = "generate" ~> stage # "generate"
=============================================================================
