# Verification of agentforge-eval

TLA+ modules, TLC configurations and TLAPS proofs for the program under `src/`:
an LLM inference engine (`src/engine`) and a code-generation benchmark that can
use it (`src/bench`), with a results site (`src/web`). The models are written
from the Python source; line references are in `PROJECT.json` under `map`.

How to run, in this directory:

    tlc -workers 2 -config <name>.cfg <module>.tla     # the runs, see "Runs"
    tlapm SchedulerProofs.tla                           # the proofs: one to three
    tlapm ServiceProofs.tla                             # minutes for these two,
    tlapm JobQueueProofs.tla                            # about one for each other
    tlapm HumanEvalProofs.tla
    tlapm EngineLoopProofs.tla
    tlapm EvaluationProofs.tla
    tlapm DatasetProofs.tla
    tlapm Lists.tla

## 1. Inventory

### Engine (`src/engine/engine`)

| Component | State it keeps | Operations | What is hard, and what makes it correct |
|---|---|---|---|
| **KV allocators** `block_manager.py`: `SlotManager`, `BlockManager` | free list (LIFO), a block table per request, `committed` per request id | `can_allocate`, `allocate`, `append_slot`, `free`, `fits_ever` | partial growth when the list runs dry, order of the free list, reserve mode against optimistic mode. Every block in one place at all times; reserve mode never over-commits. |
| **Scheduler** `scheduler.py` `class Scheduler`, `request.py` | `waiting`, `running`, `_admit_counter`; per request state, tokens, reason, `preempt_count`, `admit_seq`, `cancelled` | `submit`; `step` = `_retire`, `_admit` (+ `_prefill`), `_decode` (+ `_ensure_capacity`, `_preempt`, `_emit`) | eviction while iterating, recomputation, cancellation from another thread in the middle of a step, starvation. Rows of a decode have their block; nobody is served twice, lost or starved; the client sees a plain token stream. |
| **Engine loop** `scheduler.py` `class EngineLoop` | `inbox`, `_wake`, `_stop`, `ready`, `build_error` | `_run` (own thread), `submit`, `queue_depth`, `stop` | two threads without a lock: lost wake-ups, racy queue depth, shutdown, failed start-up. No accepted request is forgotten; the queue stays bounded. |
| **HTTP API** `api.py` | readiness, handlers in flight | `/generate`, `/v1/chat/completions`, `/health`, `/ready`, `/stats`, `/stats/reset`, lifespan | clients that leave; 400/413/429 checks must exclude what the scheduler cannot serve. |
| **NaiveScheduler, `Engine`** `scheduler.py` | one request at a time | `step`, `generate_batch`, `run_schedule` | sequential. |
| **KV pools** `cache.py` | tensors indexed by slot or block | scatter of new keys, gather through block tables, masks | padding with a foreign block hidden by the mask; block-boundary arithmetic. |
| **Runners, sampling** `model_runner.py`, `qwen_runner.py`, `sampling.py` | weights | one token per row | tensor arithmetic. |
| **Detokenizer** `detokenizer.py` | pending bytes | `push`, `flush` | split UTF-8: the pieces concatenate to the decoded whole. |
| **Metrics** `metrics.py`, `observability.py` | counters, list of served requests | `record_step`, `record_request`, `reset`, `summary` | reset from another thread, no lock. |

The API handlers run on one asyncio event loop; the engine runs on the thread of
`EngineLoop`. They share the inbox, the two events, the `Request` objects (the
handler sets `cancelled`, the engine writes everything else) and, for
`queue_depth`, the list `waiting`. Tokens go back through `sink` and
`call_soon_threadsafe`, in order.

### Benchmark (`src/bench`)

| Component | State it keeps | Operations | What is hard, and what makes it correct |
|---|---|---|---|
| **Agent loop** `agent/loop.py`, `workspace.py` | turn, clock, repeat count, the git workspace | `run_agent`, one model call and one shell command per turn, submit, rate-limit retries, mock models | several ends of a run, a clock nobody looks at during a call, an agent that uses git itself. A run keeps its clock up to one turn; what counts as submitted is a patch. |
| **Evaluation harness** `harness/eval_runner.py`, `driver.py`, `pipeline/gitplumbing.py`, three adapters | a tree per run, the report file | install, apply the candidate, reset its test files, apply the answer key, run, parse, classify | a ladder of two patch attempts on one tree, early returns, agents that edit or move tests. The verdict follows the answer key's tests alone. |
| **Sequential driver** `scripts/run_driver.py` | results JSONL, `already_done` | one run per model, instance and repeat | crash at any point. Every key one row, nothing paid twice once recorded. |
| **Loading and statistics** `scripts/load_results.py`, `export_leaderboard_data.py`, `pipeline/stats.py` | tables `runs`, `results` | load, score | a file loaded again while it grows. The table is the file. |
| **HumanEval** `humaneval/*` | completions and results JSONL, spend ledger, `tripped` | `generate` (pool of threads behind `SpendGuard`), `execute`, `report` | a breaker read without its lock, crash between call and row, restart. Spending stays under the cap, no sample twice, scores rest on the check. |
| **Mining and validation** `pipeline/miner.py`, `validate.py`, `scripts/mine_and_validate*.py` | page cache, `instances.jsonl`, `rejections.json` | search, red runs, green runs, salvage, write both files | flaky tests, stale report files and cached pages, files rewritten whole. What becomes a task was red and then green; the dataset grows. |
| **Publishing** `pipeline/dataset_export.py`, `scripts/load_postgres.py` | version directories, `tasks`, `dataset_versions` | export, load | a version is what it was when it was published. |
| **Kafka jobs** `scripts/kafka_*.py`, `infra/schema.sql` | topic offsets, `results` table | produce, consume, insert, commit | redelivery, crash between insert and commit, poison jobs. |
| **Other scripts, load generator, deployment, web** | files, manifests | glue, load, presentation | `engine/bench/*.go` is what disconnects clients at a cutoff. |

The agent, the harness and the driver run in one process, one after the other;
the results file is all that survives it. The job queue runs the same agent and
harness in many processes. The mining scripts share the two dataset files; an
exporter reads them at any time.

`PROJECT.json` lists these as components with their status, and under `hazards`
what in them is hard to test, at its line.

## 2. Modules

| Module | Models | Notes |
|---|---|---|
| `BlockManager` | both allocators of `block_manager.py` as operators over `free_blocks`, `block_table`, `committed` | a slot is a block that holds a whole context, so one module serves both back ends |
| `Scheduler` | `class Scheduler` with the Request state machine and the allocators; the API threads that submit and disconnect | EXTENDS `BlockManager` |
| `TokenStream` | the abstract specification: what a client of the engine sees | refined by `Scheduler` |
| `EngineLoop` | `class EngineLoop` and lifespan, two threads step by step | the scheduler step is reduced to its effect on `waiting` and `running` |
| `SchedulerProofs` | theorems about `Scheduler`: types, blocks, seats | EXTENDS `Scheduler`, TLAPS |
| `ServiceProofs` | theorems about `Scheduler` and `KVCache`: tokens, lengths, room, promises, the refinement, the tensors of a step | EXTENDS `SchedulerProofs`, `KVCache`, `Lists` |
| `JobQueue` | `kafka_produce_jobs.py`, `kafka_worker.py`, the tables `runs` and `results`; broker and pods as externals | |
| `ResultStore` | the abstract specification: what the owner of a run is promised | refined by `JobQueue` |
| `JobQueueProofs` | theorems about `JobQueue` | EXTENDS `JobQueue`, TLAPS |
| `EngineLoopProofs` | theorems about `EngineLoop` | EXTENDS `EngineLoop`, TLAPS |
| `KVCache` | `cache.py` and `step_tokens`: which keys a query of a batch reads | operators over the states of `Scheduler`, which it EXTENDS |
| `Patches` | trees, unified diffs, `gitplumbing.py`, the git workspace of the agent | operators |
| `AgentLoop` | `agent/loop.py` | EXTENDS `Patches` |
| `Adapters` | the three language adapters: detection, installation, report, parsing | operators; EXTENDS `Patches` |
| `Evaluation` | `run_driver.py`, `driver.py`, `eval_runner.py` | composes `AgentLoop`, `Adapters` and `Reporting` |
| `Reporting` | leaderboard, `stats.py`, `load_results.py` | operators over a results file |
| `HumanEval` | `generate`, `execute` and `report` of the `humaneval` command, `SpendGuard` | EXTENDS `Scoring` |
| `Scoring` | `program.py`, `executor.py`, `report.py`, pass@k | operators |
| `HumanEvalProofs` | theorems about `HumanEval` and `Scoring` | EXTENDS `HumanEval`, `Lists` |
| `EvaluationProofs` | theorems about `Evaluation` | EXTENDS `Evaluation`, `Lists` |
| `DatasetProofs` | theorems about `Dataset` and `Publishing` | EXTENDS `Publishing`, `Lists` |
| `Lists` | lemmas on lists, on counting their elements, and induction stated with a set | used by the other proof modules |
| `Validation` | `validate.py`: red and green runs and their verdict | operators; EXTENDS `Adapters` |
| `Dataset` | `miner.py` and the three mining scripts | EXTENDS `Validation` |
| `Publishing` | `dataset_export.py`, `load_postgres.py` | composes `Dataset` with an exporter and a loader |
| `MCScheduler`, `MCEngineLoop`, `MCJobQueue`, `MCEvaluation`, `MCHumanEval`, `MCDataset` | instances for TLC | |

### Scheduler

One iteration of `step()` is a path of the program counter `pc`:

    loop -BeginStep-> retire -Retire*, EndRetire-> admit -Admit*, EndAdmit->
      prefill -Prefill-> decode -BeginDecode-> ensure -AppendSlot | Preempt*->
      ensure -DecodeStep-> loop

`EndRetire` skips admission when a static batch has not drained, `EndAdmit` skips
the prefill of an empty batch, `BeginDecode` the decode of an empty one.
`AppendSlot` that fails goes to `evict`, where `Preempt` evicts or, without
preemption, `OutOfBlocks` raises; an exception ends the engine thread
(`pc = "dead"`), because nothing catches it.

Between any two of these an API thread may act. `Disconnect` and `SetCancelled`
are the two halves of `if not req.finished: req.cancelled = True`: the engine can
finish the request between the test and the assignment. `Submit` combines the 400
and 413 checks of `api.py` with `Scheduler.submit` and happens at `pc = "loop"`,
where the loop thread drains its inbox.

Abstractions:

* Tokens are counts. Whether a token is an end of sequence is chosen freely for
  each row, which also stands for `ignore_eos` and for every sampler.
* Times are gone, except that requests are numbered in order of `arrival_time`;
  `waiting` is a set because it is sorted by a total key before it is read, and
  `running` is one because it is always in order of `admit_seq`.
* `Prefill` emits for the popped batch in one step. In continuous batching the
  code prefills them one by one; nothing that happens in between (a client
  leaving) is read before the next `_retire`.
* `cached` counts the positions whose keys and values are in the request's
  blocks, which is what a wrong recomputation would get wrong.
* `committed` is a function from ids that is 0 where the dictionary has no entry.
  `live` and `stats()` feed gauges only and are left out, as are all counters of
  `EngineMetrics` except which requests it counts as served.
* `num_blocks` is a parameter instead of the division of `kv_budget_mib`.

### EngineLoop

`pc` is the loop thread (`build`, `top`, `drain`, `wait`, `clear`, `retire`,
`step`, `ended`), `api` the event loop, which runs one `submit()` at a time since
`_start` has no `await`. Each step reads or writes one shared object, so the two
reads of `queue_depth`, the comparison, `put` and `_wake.set()` interleave with
`get_nowait`, `append`, the sort, the wait and the clear. CPython empties a list
while it sorts it; `sorting` makes `len(waiting)` read 0 then. `_wake.wait(0.05)`
returns when the flag is set or at any time.

`Step` allows whatever `Scheduler` can do to the two lists in one iteration;
`Dies` is an exception of `step()`. Left out: `max_queue = None`, where the check
is skipped; the 10 s limit of the join in `stop()`; the second pass through
`_retire` that a last token needs (it is part of the next `RetireAndSort`).

External, modelled from the code's comments and use of it: uvicorn lets in-flight
requests finish before the lifespan goes on to `stop()` (`api.py:136-137`), so
`SetStop` waits for them. The load weights and warm-up of `build()` are one step
that succeeds or fails.

### TokenStream

Streams are opened, get tokens (one or several clients at a time, as a batch
emits), and end with the token that reaches the limit or an earlier end of
sequence; only an abandoned stream may be dropped; every live one makes progress.
`Scheduler` implements it under the mapping `StreamOf` (end of `Scheduler.tla`):
a request that left the queue without being admitted was dropped there.

### JobQueue

`pc[w]` is the statement of a worker's loop (`poll`, `check`, `run`, `write`,
`commit`, or `down`). Between any two the process may end: an exception
(`UnknownInstance`, `EvaluateRaises`, `ForeignKeyViolation`, `CommitFails`) or a
`Crash`, after which `Restart` is a new pod. `evaluate()` stands outside the try
of `run_and_evaluate`, so `EvaluateRaises` ends the worker after the agent's run
and before the row: every time for a job in `setup.raises`, and now and then, as
a counted fault, for any other. The producer sends `JobList` in order and can be
started again, from the first job, at any time.

External, modelled from how the code uses it:

* The topic is an append-only sequence per partition with two offsets:
  `committed` of the group and `position` of the partition's owner, which starts
  at `committed` with every assignment. `commit()` without arguments commits the
  positions of all partitions the worker owns; a position counts the messages the
  iterator has handed out, not those it has fetched.
* `Assign` and `Revoke` happen to a worker that polls. `Evict` is a job that
  takes longer than `max_poll_interval_ms`: the worker loses its partitions while
  it works on, and its commit raises.
* `partition` is any function of the message key, as Kafka's partitioner is.

Abstractions: one `run_id`; a row is the job and the worker that wrote it, which
is what a second insert could change. `setup` is what the operator may have set
up wrong, chosen at the start and never changed: jobs whose instance is missing
from the image's `instances.jsonl` (`unknown`), whose evaluation raises every
time (`raises`), or whose instance and version have no row in `tasks`
(`unlisted`). The row of `runs` is inserted by hand (`Register`), possibly after
the workers have begun; the two foreign keys of `results` refer to these two
(`References`).
An insert that is not committed when its worker dies is rolled back, so it is one
step with its commit. Faults are counted up to `MaxFaults`, starts of the
producer up to `MaxProducerRuns`.

`ResultStore` has a set of queued jobs and the result of each: `Enqueue`,
`Record`. Under the mapping at the end of `JobQueue.tla` a `Send` is an
`Enqueue`, a `WriteResult` that finds no row is a `Record`, and everything else
stutters.

### KVCache

The pool is no variable. What a cell holds follows from the block tables and
`cached` of `Scheduler` (`Stored`); the property says that the write of each
forward step makes it follow again, so that it is inductive along the behaviours
of `Scheduler`. A key is the token it was computed from, `<<request, position>>`,
and a cell nobody wrote holds `Stale`. `step_tokens` gives for each real query
its position and the keys the mask lets it read; `forward_single` gives the same
for the request alone, with a cache of its own.

### AgentLoop and Patches

`stage` is the point `run_agent` has reached: `open`, `turn` (head of the loop),
`ask` (a completion call), `extract`, `done`, or `raised`. A reply carries no
command, the submit command, or one of `Commands`, which do to the workspace what
agents do: edit the source or the tests, rename tests with and without git,
commit, check out. Time is counted in units of the first back-off (a call takes
up to `CallTime`, a command up to `CommandTime`); `paid` counts completions.
Token counts, transcripts and truncation are left out.

That a command ends within `CommandTime` is `subprocess.run(shell=True,
capture_output=True, timeout=60)` of `loop.py:351-362`. When the limit is reached,
CPython on POSIX kills the shell, waits for the shell alone and raises; it reads
the pipes to their end after the kill on Windows only. A background child that
holds the pipes therefore keeps `run` until the limit and no longer (the explicit
`communicate()` after `killpg` in `local_sandbox.py:31` is another call). Such a
child is not killed, and what it may do to the workspace after its turn is over
is not modelled.

A tree has five files: the source, `package.json`, the tests of the answer key,
the place an agent may move them to, and a file the base commit does not have.
The content of a file is a set of edits; a diff is a set of changes from one
content to another. `Attempt` is one call of GNU `patch` (external, from its
documented behaviour with `--batch`): files that do not match are left and make
it fail, the others are patched all the same, and a hunk that is there already is
taken back. The second rung of the ladder runs on what the first left.
`is_test_path` is idealised: the code goes by names (`gitplumbing.py:59-82`), and
the tree of the model holds no fixture or configuration file that steers the
tests under a name the code does not take for a test's.

### Evaluation, Adapters, Reporting

`driver` is the process of `run_driver.py` (`off`, `run`, `row`, `finished`,
`broken`), `pos` the key in hand. `AgentStep` is a step of `AgentLoop`;
`Evaluate` is the whole of `evaluate()` over the outcomes of the installation
and of the test run, which are chosen freely; nobody else sees the tree it works
in. `EvaluateRaises` is an exception it lets through (materialising the tree, no
adapter or environment, putting files back, a report that does not parse), which
ends the driver and may happen to any key. `Crash` ends the process anywhere, possibly in the middle of a line, and
`LoadResults` may come at any time. The adapters are operators over a record of
what is in a repository; the test suite itself (`Suite`) is external: the tests
of the answer key pass when the fix is there, and a test file the agent rewrote
says what the agent wants.

### HumanEval and Scoring

`stage` is the command that runs. A call of the pool is at `check` (before
`guard.check()`) or `call`; its outcome waits in `finished` until the main thread
collects it, in any order, as `as_completed` does. `record` holds the lock. The
ledger survives commands, the guard does not: each `generate` starts one with the
ledger's total. There are three kinds of model: `"anthropic"` goes through the
guard; `"litellm"`, a hosted model addressed by its LiteLLM name, has the cost
LiteLLM works out in its rows, with neither guard nor ledger; `"engine"` goes the
same way and costs nothing. What a container does is external (`Containers`): it outlives its
limit, is killed, writes no report, or reports what its program is worth.
One command runs at a time.

### Dataset, Validation, Publishing

A pull request is a record of what its tests may do before and after the fix;
`run_tests_n_times` draws `Runs` suites from it, in one tree, with the report file
of one run still there for the next where the adapter does not remove it.
`proc[s]` is a mining script: `fetch` (a page of the search, from the cache if it
was ever fetched), `next` (the loop over candidates with its two caps), `red`,
`green`, `issue` (the issue text and the making of the instance, which may be
rejected), `write`, `write2`. Pull requests go on being merged, which
shifts the pages. `damaged` records that two scripts overlapped or a write was
cut off; the code makes no claim after that. A version directory is at `rows`
between its two files, and `cut` when the exporter died there. The check for the
version's directory, the reading of the dataset and the first file are one step.

## 3. Runs

| Run | Checks | Instance | Distinct states |
|---|---|---|---|
| `sched_safety` | `TypeOK`, `BlocksOwnedOnce`, `SeatsAgree`, `RowsReady`, `AttendsAsAlone`, `FinishIsFinal` | 3 requests, 2 sharing an id; prompts 2, 5, 8; limit 5; blocks of 2; context 7; 5 configurations | 1.3 million |
| `sched_service` | `NeverOverCommit`, `EngineSurvives`, `PreemptionsPaidFor`, `EvictionSparesOne`, `EveryRequestEnds`, `ImplementsStream` | 3 requests, fresh ids; prompts 1, 4; limit 4; blocks of 1; context 6; 5 configurations | 145 thousand |
| `loop_service` | `SleepsOnlyIdle`, `InboxBounded`, `HeldInOnePlace`, `StartupEnds`, `EveryAcceptedAnswered` | 3 requests, `max_queue` 1, `max_batch` 2 | 40 thousand |
| `jobs_queue` | `TypeOK`, `CommittedIsRecorded`, `OneRunnerPerJob`, `QueueDrains`, `ImplementsStore` | 2 jobs in 2 partitions, 2 workers, 2 producer runs, 2 faults, 3 set-ups | 292 thousand |
| `agent_eval` | `OneTurnOverAtMost`, `SubmittedIsNotEmpty`, `ResolvedByTheKey`, `FixIsScored`, `EveryKeyRecorded`, `ResumesWhereItStopped`, `TableIsTheFile` | 5 repositories, 5 lists of up to 3 keys, 8 commands, 3 turns, 1 crash, 2 loads | 536 thousand |
| `humaneval` | `BreakerHolds`, `OneRowPerSample`, `LedgerIsTheRows`, `SamplesBalanced`, `PassedByCheck`, `PassAtKIsExact`, `GenerateEnds` | 2 problems, 3 samples (guarded), 2 (engine) or 1 (LiteLLM), 2 workers, cap 4, reserve 2, 3 commands, 1 fault | 325 thousand |
| `dataset` | `RedThenGreen`, `VerdictOnce`, `DatasetGrows`, `LoadedIsPublished` | 6 pull requests in 3 repositories, 2 scripts, 3 starts, 3 test runs, 1 fault, 2 exports | 3.7 million |
| `sched_headroom`, `sched_shared_id`, `jobs_charge`, `eval_newfile`, `stats_infra` | one property each, violated (section 6) | | |

**What they show.** *sched_safety*: memory, lists, states and decode rows stay
consistent in both allocators, both batching modes and both admission modes, with
evictions and clients that leave between any two steps, even when two clients
share a request id; what a shared id can do is end the engine thread, and
`SeatsAgree` speaks of the states before that. And in each of these states the
tensors of the next forward step would be right: however rows are padded, no
query reads a key of another request or of an earlier owner of a block.
*sched_service*: with fresh ids nothing raises, nobody starves, and the whole
machinery is invisible to clients; evictions end for two reasons, namely that
every stay in the batch emits a token and that an eviction always leaves somebody
in it.
*loop_service*: no wake-up is lost, the racy admission check still bounds the
inbox, start-up reports failure, and no accepted request is forgotten or held in
two places.
*jobs_queue*: nothing is committed without its row and no row is doubled wherever
a worker dies, workers in the group do not duplicate each other's work even when
a job is enqueued twice, and if every job can get a row the queue drains. The
last is conditional because a job that never can (an instance the image or
`tasks` lacks, an evaluation that always raises) kills each worker that reaches
it before its other partitions have had their turn, and never has a row (section
6); its offset is not committed either.
*agent_eval*: whatever an agent does with its shell, a run that is resolved was
judged by the answer key's tests on a tree that holds the fix, a patch with the
fix that applies strictly is resolved, and the results file survives a crash and
two loads. *humaneval*: the unlocked breaker is good enough for the ledger, which
is the sum of the rows for the provider behind it and for no other, and
samples, rows and scores stay in step over commands that are cut short.
*dataset*: the gates let through only what was read as failed and then as passed,
with the exceptions the code makes (section 4: targets from the diff when the
tests did not compile, targets known by their variants, reports left behind by an
earlier run), and neither a crash nor a shifting search makes the scripts judge
twice or forget, unless a write itself is cut off or two scripts overlap.

**Why the bounds are enough.** Three rows are needed for a victim before the row
being served that is not the row itself, and for a queue behind the batch. The
pools are chosen so that requests fit at admission but not when they grow, down
to the last block; in the small pool of *sched_service* one request is evicted
twice. Block sizes 1 and 2 with odd and even
lengths reach the block boundary from both sides. Prompts of 8 in a context of 7
are refused, so that the 400 check matters; a limit of 5 after a prompt of 5 is
capped by the context. `Impatient` bounds which clients may leave (others read to
the end), chosen so that one that shares an id and one that does not do. All runs
reach their end: no state constraint is used. In *loop_service* a cap of 1 makes
the check refuse and accept in the same behaviour. In *jobs_queue* two faults allow an eviction and then a crash
of the second worker on the same job, and a second producer run puts every
message on the topic twice; two partitions let a worker own both or one. The
set-ups are a sound one, one with an instance the image lacks beside one whose
evaluation raises, and one with a job that has no row in `tasks`.
In *agent_eval* three turns are the third repetition and the last turn at once,
and enough to edit, to use git and to submit; a clock of 2 runs out during any of
them. The five repositories are one with lifecycle scripts and two package
managers' traces, one whose fix adds a file, a Java one whose tests need the fix
to compile, one whose runner reports nowhere and one that no adapter fits. In
*humaneval* the guarded model is asked for more than its cap allows, so that the
breaker trips within a command and is found tripped by the next; with one fault
the third command takes up the work of two. In *dataset* pages of one pull
request shift with every merge, one script has two repositories, and the pull
requests are flaky before the fix, flaky after it, breaking another test, without
an issue, and not compiling before the fix.

**Deadlock.** `sched_service` checks it: the engine never gets stuck.
`sched_safety` and the violation runs of the scheduler do not, since a dead
engine thread is a final state there; nor does the loop run, since a stopped
server is one. The job runs check it (a drained queue is polled for ever), and
`agent_eval` does: a driver that is not through always has a next statement, and
one that has finished or died of an exception stays where it is. In *humaneval*
and *dataset* a last state is reached when the bounds on commands, starts and
exports are used up, so they do not.

**Fairness.** `Scheduler`: weak fairness of the engine thread's steps only (the
thread keeps running while there is work); clients owe nothing. `EngineLoop`:
weak fairness of the loop thread and of the statements of a `submit()` or
`stop()` that has begun, since both threads are scheduled by the OS and neither
blocks; none for new requests, for clients that leave, for `stop()` or for
exceptions. That a running request finishes in some step is strong fairness of
`StepFinishing`; it stands for what `EveryRequestEnds` establishes of the detailed
scheduler, where it needs no such assumption. `JobQueue`: weak fairness of the
statements of a worker, of restarts (Kubernetes), of the assignment of partitions
that have no owner (the coordinator) and of `Register` (an operator inserts the
missing run); none for the producer or for faults. `HumanEval`: weak fairness of
the pool's threads as a whole and of the main thread, since a call has a timeout
(180 s) and nothing waits for a lock for long; none for commands or faults.

Every property has a mutant in `PROJECT.json`: a plausible bug in a definition it
depends on, kept in the module next to the original ("Mutated form") and used by
nothing else, for which the run finds the property violated.

## 4. Proofs

`SchedulerProofs` proves, for every number of requests, every assignment of ids,
every block size, pool and set of configurations (the ASSUMEs of `BlockManager`
and `Scheduler`: sizes are positive, ids finite, inputs natural):

| Theorem | Statement |
|---|---|
| `TypeCorrect` | `Spec => []TypeOK` |
| `BlocksSafe` | `Spec => []BlocksOwnedOnce` |
| `SeatsSafe` | `Spec => []SeatsAgree` |

The argument. `TypeOK` is inductive by itself. `BlocksOwnedOnce` is not: when
`allocate` overwrites a block table, the old one must be empty or its blocks are
lost, and that is `SeatsAgree` (only the admitted hold memory). `SeatsAgree`
needs in turn that the popped batch is still in state WAITING and that the rows
of `_ensure_capacity` are running, each once, so that the victim is a running
request and its row goes with it; that `batch` is empty when the retirements
begin; and that a prompt is never empty, so that an admitted request always holds
at least one block. The conjunction is `SeatInv`, with one lemma per action that
disturbs it (`SubmitSeats` ... `PreemptSeats`) and the allocator's part in
`TakeOwned` (taking k blocks from the end of the list, for `allocate` and
`append_slot`) and `FreeOwned`. None of it depends on the ids being different,
on `can_allocate` being right, or on the victim being well chosen: that is the
part of `ServiceProofs`, under the same assumptions:

| Theorem | Statement |
|---|---|
| `PreemptionsArePaidFor` | `Spec => []PreemptionsPaidFor` |
| `FinishStays` | `Spec => FinishIsFinal` |
| `RowsAreReady` | `Spec => []RowsReady` |
| `SomebodyIsSpared` | `Spec => []EvictionSparesOne` |
| `ReserveNeverOverCommits` | `DistinctIds` implies `Spec => []NeverOverCommit` |
| `EngineThreadSurvives` | `DistinctIds` implies `Spec => []EngineSurvives` |
| `SchedulerServesStreams` | `DistinctIds` implies `Spec => Stream!Spec` |
| `RequestsComputedAlone` | `Spec => []AttendsAsAlone` |

The argument goes in layers, each inductive on top of those before it.

1. `TokenInv`: a running request has more tokens than evictions behind it, and
   the rows of `_ensure_capacity` are the unfinished running requests. That is
   `PreemptionsPaidFor`; with it no step touches a finished request.
2. `LimitInv`: the checks of the front door hold to the last token, and a running
   request has all but its last token cached.
3. `RoomInv`: block tables match lengths. Between the units held and the tokens
   stands the ceiling division of `blocks_needed`, which enters the proofs by its
   two inequalities (`BlocksNeededBounds`) and what follows of them
   (`BlocksNeededFits`, `UnitsOrder`). It is `RowsReady`, also when a row before
   `i` is evicted and the rows move up (`PreemptRoom`).
4. `SpareInv`: an eviction can only happen when every running request is a row,
   or the headroom left by this step's admissions covers one block for each row
   to come, in which case none happens. So a lone row never needs one: it could
   hold the whole pool, and the front door let it in only if that is enough.
5. `ReserveInv`: in reserve mode the promises in `committed` fit the pool and are
   the worst cases of the admitted, so `allocate` and `append_slot` find what they
   need; hence nobody raises. This is where `committed`, being keyed by the
   client's id, needs `DistinctIds`: `sched_shared_id` shows what happens without.

6. `CacheInv`: whatever is cached of a request has a place in the blocks it holds
   now. Distinct positions have distinct places (`CellsDistinct`), since a block
   has one owner and `(block, offset)` determines the position, so a step writes
   its own rows and nothing else (`WrittenTokens`, `StepWritesOwnRows`). On the
   reading side the gathered table of a row holds its own cells in order, then
   those of block 0 (`GatherReadsRow`), and the mask shows a query the keys up to
   its own position, which excludes the padding (`MaskIsCausal`, also where the
   code passes no mask). Together that is `StepSeesOwnPast`, for each step that
   feeds what `_prefill` and `_decode` feed (`PrefillFeeds`, `DecodeFeeds`), and
   hence `AttendsAsAlone`. It does not need `DistinctIds`.

The refinement uses 1 to 5: the mapping of section 2 takes each step to a step
of `TokenStream` or a stutter. It needs that the engine is not dead, hence
`DistinctIds`, which `FreshIds` of `sched_service` satisfies. The
fairness of `ImplementsStream` is left to TLC.

`JobQueueProofs` proves, for any finite or infinite sets of jobs, workers and
set-ups, any list of jobs, any number of partitions, any partitioner and any
bounds (`JobsAssumption`, `PartitionsAssumption`, `BoundsAssumption`):

| Theorem | Statement |
|---|---|
| `QueueTypeCorrect` | `Spec => []TypeOK` |
| `RecordedBeforeCommitted` | `Spec => []CommittedIsRecorded` |
| `OneRunner` | `Spec => []OneRunnerPerJob` |
| `QueueImplementsStore` | `Spec => ImplementsStore` |

The argument. `commit()` commits positions, so `CommittedIsRecorded` needs that
whatever an owner has been handed is recorded, except for the one job it has in
hand before the write (`HandedOutIsRecorded`); an assignment establishes that,
because it goes back to the committed offset, and it stays true of a partition
because it has one owner (`PartitionsDisjoint`). `OneRunnerPerJob` holds because
the messages of one key are in one partition (`KeysKeepPartitions`) and a worker
that has not been evicted owns the partition of the job in hand
(`InHandIsAssigned`). The refinement needs that the job in hand is on the topic
(`InHandIsQueued`). The conjunction is `QueueInv`, with one lemma per group of
actions.

`EngineLoopProofs` proves, for any set of requests, any cap and any batch size
(`QueueAssumption`):

| Theorem | Statement |
|---|---|
| `LoopTypeCorrect` | `Spec => []TypeOK` |
| `NoLostWakeUp` | `Spec => []SleepsOnlyIdle` |
| `InboxCapHolds` | `Spec => []InboxBounded` |
| `AcceptedIsHeldOnce` | `Spec => []HeldInOnePlace` |

The argument. What `submit()` read of the inbox stays an upper bound until its
`put`, because only it puts, and a read that passed the check left room for one
more (`ReadIsUpperBound`). A loop thread that is at its drain or its wait has
looked at `stop` since it was clear, so a stop it has not seen either has raised
the flag or is about to (`StopIsAnnounced`); the same holds of an entry of the
inbox by the order of wait and clear. Requests can be many, so the lists are
finite by induction (`ListsFinite`). The conjunction is `LoopInv`.
`TypeOK` of this module is part of it, and is proved rather than listed in a run.

`HeldInOnePlace` is the safety half of `EveryAcceptedAnswered`: whatever
`submit()` accepted, and nobody has answered or abandoned, is in exactly one of the
inbox, the hand of the loop thread, the queue and the batch. `HeldInv` adds that
nothing in these places is new or refused and that what `submit()` is about to put
still is new: so the put cannot make a second copy. Every step of the loop thread
then moves requests between disjoint places, and retiring takes out only those
whose fate is settled.

`HumanEvalProofs` proves, for any problems, samples, workers, prices, cap and
reserve and over any number of commands, crashes and restarts
(`HumanEvalAssumption`):

| Theorem | Statement |
|---|---|
| `SpendGuardHolds` | `Spec => []BreakerHolds` |
| `EverySampleOnce` | `Spec => []OneRowPerSample` |
| `ScoresAreTrue` | `Spec => []PassedByCheck` |
| `SamplesStayBalanced` | `Spec => []SamplesBalanced` |
| `LedgerAddsUp` | `Spec => []LedgerIsTheRows` |
| `PassAtKIsTheShare` | `Spec => []PassAtKIsExact` |

The argument. `BreakerHolds` speaks of the ledger alone; what makes it inductive
is the money the calls in flight may still cost. As long as the breaker is up the
ledger and the reserve are below the cap (`GuardCounts`), the pool never holds
more calls than it has workers (`PoolBounded`), so when the breaker falls at most
that many are left, each of which was held room for (`RoomForCalls`). A crash
forgets the calls in flight and leaves the ledger, a new command starts from the
ledger. The conjunction is `GuardInv`.

A sample is in the queue, in a thread's hand, finished or on file, and only one of
these (`RowsInv`); the same of a row that is to be executed (`ScoredInv`). An
outcome is `failed` only if the program reported, so it cannot contradict the
check (`OutcomeIsTrue`, `JudgedInv`). The balance is about order: the tasks go out
sample by sample, so as long as nothing failed and the breaker is up, what was
taken is the first T places of that order (`OnTheWay`), in which no problem is
ahead by more than one sample. When the breaker falls, the rows on file are those
places but for fewer than `Workers` of them, those in other threads' hands
(`StoppedAt`), and nothing new is asked for afterwards, whatever is called in
later commands (`BalanceInv`).

`LedgerIsTheRows` speaks of a sum over rows, for the provider behind the guard
and without a crash; a hosted model reached through LiteLLM has costs in its rows
and none in the ledger (section 6). It is stated by counting the units
the rows cost (`Units`: a row and one of its units), so that the lemma that
carries the proof is about one row more (`OneRowMore`): the rows are new because
no sample is twice on its way (`RowsInv`), and what is not a row cost nothing
(`PricesInv`).

`PassAtKIsExact` is a fact about counting. The number of k-subsets is never
written as a factorial: from Pascal's rule (`WaysWithOneMore`, by a bijection)
follows `(i + 1) * Ways(i + 1, S) = (Cardinality(S) - i) * Ways(i, S)`
(`NextWays`, by induction on the set), and with it every round of the loop keeps
numerator and denominator the same multiple of the numbers of i-subsets, of the
failed samples and of all (`RoundsCount`). The k-subsets without a passed sample
are those of the failed ones, which gives the share (`ExactShare`); the
denominators are not zero (`SomeWay`), which `SameFraction` asks for.

`EvaluationProofs` proves, for any models, instances and lists of keys (without
repetitions), any commands and limits of a run and any number of crashes
(`LoopAssumption`, `EvaluationAssumption`, `InstanceAssumption`):

| Theorem | Statement |
|---|---|
| `ClockKept` | `Spec => []OneTurnOverAtMost` |
| `SubmittedHasPatch` | `Spec => []SubmittedIsNotEmpty` |
| `AllKeysRecorded` | `Spec => []EveryKeyRecorded` |
| `NothingPaidTwice` | `Spec => ResumesWhereItStopped` |
| `ResolvedIsByTheKey` | `Spec => []ResolvedByTheKey` |
| `FixesAreScored` | `Spec => []FixIsScored` |
| `DatabaseIsTheFile` | `Spec => []TableIsTheFile` |

The argument. The clock is looked at once per turn, so during the completion call
it is bounded by attempt: each 429 adds a call and its pause to a clock that was
below the limit at the head (`AskInTime`). `submitted` is set only on the way to
the second diff, and nothing touches the workspace in between (`SubmitInv`). The
driver needs to know of both sides of `pos`: behind it every key has its row, and
before it only keys that had one when the process started, which are the keys it
skips (`PosInv`). So the key in hand has no row (`InHand`, `KeyInHand`), a row
written is a new one, no key is recorded twice, and at the end the file and the
command line list the same keys without repetitions, hence are equally long
(`SameLength`). The conjunction is `ProgressInv`.

`ResolvedIsByTheKey` and `FixesAreScored` are about `evaluate()` as a function and
then about the driver. A candidate is the diff of some workspace, and of the five
files a change can name, the tests are put back unless the change is one half of
a rename, which leaves them absent: after the reset the tests are those of the base
commit or not there, and nothing else is taken for a test (`ResetTests`, by
`PatchKeeps`, which holds of the strict attempt, the fuzzy one and the two on top
of each other). The test patch goes in on the first and fails on the second
(`KeyGoesIn`), so what is run is the answer key, and a report of it says
"resolved" exactly when the tree works (`ScoredByTheKey`). Conversely, a fix that
goes in forwards is there, one taken for reversed would not be, and that it is not
needs that no command takes back what was committed to the source
(`SourceKept`, `CommandKeepsSource`, with git's `commit`, `mv` and `checkout`):
that is `FixGoesIn`. `WorkspaceInv` says of the agent that its patch is such a
diff, `VerdictInv` of the driver that a result is held only for the row written of
it. `InstanceAssumption` is what mining and `validate.py` establish of every
instance: a language with an adapter (`adapters.py:21-25`), a fix apart from the
tests (`validate.py:43-44`), a fail-to-pass list that is not empty and disjoint
from the tests that passed before (`validate.py:95`, `193`).

`DatabaseIsTheFile` is about the two loops of `load_results`, first over the
models of the file and then over its rows. Both are recursive functions in
`Reporting`; that they have a value is proved first (`LoopsRun`), then what they
hold after each row. The first keeps one run per model, numbered without a gap,
and never renumbers one (`RunsKept`, `Known`, `OneRunMore`); so the rows that are
in the table already are found under the run they were put under (`RunStays`).
The second adds a row or finds it there: two rows with the same run, instance and
repeat are the same row (`EntriesDiffer`), because no key is recorded twice
(`NoKeyTwice` of `ProgressInv`). Between two loads the table stays the front part
that was loaded, as rows are only appended (`TableInv`).

`DatasetProofs` proves, for any pull requests, repositories, scripts, pages and
versions (the ASSUMEs of `Dataset` and `Publishing`), of `PubSpec`, the
composition of the scripts with the exporter and the loader:

| Theorem | Statement |
|---|---|
| `OneVerdict` | `PubSpec => []VerdictOnce` |
| `DatasetOnlyGrows` | `PubSpec => DatasetGrows` |
| `LoadedAsPublished` | `PubSpec => []LoadedIsPublished` |
| `TasksAreRedThenGreen` | `PubSpec => []RedThenGreen` |

The argument. A running script holds three lists it read or made, and its next
write replaces a file by two of them. It loses nothing because the files are still
what it read, or, between its two writes, what it has just written
(`FollowsFiles`), which holds because no other script runs (`ScriptsInv`, under
`~damaged`); it repeats nothing because it decides only on pull requests that are
in none of its lists (`DecisionsInv`). A crash between the writes leaves tasks
whose rejections are missing, never the reverse, and the next start reads them
from the file. A version is complete once its `info` file is there and never
written again (`DirectoryInv`), and only complete ones are loaded (`TablesInv`).

`RedThenGreen` says of a task: it asks for at least one test; each test it asks
for or has to keep was read as passed in all reports after the fix that name it,
or, where none does, in its variants that are not flaky (`SeenToPass`, as
`resolve_test_outcome` has it); and each it asks for was read as failed in all
reports before the fix that name it. The last does not hold, and is not claimed,
where the tests did not compile before the fix: these targets are taken from the
diff and never ran. And a report is what the adapter found in its place: one that
an earlier run left behind counts for the run that reads it (`ts_adapter.py:71`).

The proof is about what repeated runs accumulate: each adds the outcomes its
report holds, `TRUE` or `FALSE` per test (`RunsUnfold`, `RunsReport`, by induction
on the number of runs), and a test that is not flaky has one outcome in all runs
that report it (`OneOutcome`). A script that has gone on to the next step has seen
that of the step before (`FoundInv`, `TestedInv`), and `Judged` makes a task only
of what both have seen.

**Induction.** The library's induction theorems take a predicate as an operator
and cannot be cited. `Lists` proves the same of a set of numbers (`SetInduction`,
from the least element of a set), and every recursive function of the models that
a theorem is about (`run_tests_n_times`, `load_results`, `pass_at_k`) has a lemma
that it exists and satisfies its equation, which is where that induction is used
first. These definitions are recursive functions, and no theorem's module reaches
a RECURSIVE operator.

Only model-checked:

* liveness (`EveryRequestEnds`, `EveryAcceptedAnswered`, `QueueDrains`,
  `GenerateEnds`, `StartupEnds`, the fairness part of `ImplementsStream`): the
  prover has no rule for ENABLED, hence none for fairness.

Every invariant and every action property of the passing runs is the subject of a
theorem.

## 5. Not modelled

* The engine's tensor arithmetic and samplers; the detokenizer, which decodes
  with the tokenizer's library; the counters of `EngineMetrics` (which requests
  they count is modelled); `NaiveScheduler`, which has nothing to schedule; the
  synchronous `Engine` facade, which drives the modelled scheduler from one
  thread; the two output formats of the API.
* The Docker and local sandboxes: a command comes to one of the outcomes the
  adapters tell apart. `docker_sandbox.py` kills a container on a timeout; whether
  the daemon has started it by then is the daemon's state.
* `compare.py`, `gate.py`, `perf_gate.py`, `compute_stats.py` beyond
  `compute_model_stats`, plots and site builders: statistics and presentation of
  files the modelled parts write.
* `run_validation.py`, the first form of the mining scripts, with two candidates
  in its source; it replaces `instances.jsonl` by its own and is no part of the
  pipeline that grows the dataset. `contamination.py` looks up dates of commits.
* Manifests, rollout and canary drills, CI: behaviour of Kubernetes, Argo and
  GitHub, which is not in this repository. The Go load generator is a client.
* Of the modelled parts: the abstractions above; `max_new_tokens <= 0`, which the
  code lets through and answers with one token; two `humaneval` commands at once
  on one ledger, which do not see each other spend; two drivers on one file.

## 6. Findings

* `sched_headroom`: a request can be evicted in the step that admits it. Headroom
  counts the running and just-popped requests but not the one being admitted,
  which needs a block at once when its prompt fills its last block. It wastes a
  prefill; `PreemptionsPaidFor` shows that it cannot repeat without progress.
* `sched_shared_id`: `committed` is keyed by the client's `X-Request-ID`; two
  concurrent requests with one id make reserve mode promise more than it has.
* `jobs_charge`: a message delivered again after its model run ended, but before
  its row was written (a crash, an eviction, a run that is not registered), has
  the run made and paid again, where the task board promises a safe no-op.
* `eval_newfile`: the submitted patch is `git diff HEAD`. New files that were not
  added to the index, and anything the agent commits, are not in it, although the
  docstring and the prompt promise everything that was changed.
* `stats_infra`: `compute_model_stats` counts an `infra_error` attempt as an
  unresolved one, where the leaderboard and the docs leave it out.

Four have no run of their own.

* A request whose client leaves during its last step is counted as served
  (`scheduler.py:65`, against its comment).
* With `max_queue` requests queued, one of them in the loop thread's hand,
  `submit()` accepts another (`scheduler.py:322`); `InboxBounded` bounds the effect.
* An exception of `evaluate()` (no adapter or environment, a report that does not
  parse) escapes `run_and_evaluate` (`driver.py:28`) and ends the worker before
  the row and the commit. Where it comes back with every delivery, the job never
  has a row and every worker dies on it, against "no lost result"
  (`kafka_worker.py:15`) and "already classified correctly by evaluate() itself"
  (`driver.py:12-13`). `QueueDrains` therefore speaks of `Sound` set-ups.
* A hosted model addressed by its LiteLLM name, the default provider, has a cost
  in its rows, no line in the ledger and no look at the cap (`generate.py:132-142`,
  `__main__.py:72-74`), which `spend.py:7-8` says every hosted call shares.
  `LedgerIsTheRows` therefore speaks of the provider behind the guard.

## 7. Plan

Done: the modules of section 2 and the proofs of section 4.

Next, where the code moves first: `POST /stats/reset` against the engine thread
(`metrics.py:73`), and the delivery of `kafka_produce_jobs.py:75`, once the code
says what either promises.
