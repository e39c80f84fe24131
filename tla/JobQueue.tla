------------------------------ MODULE JobQueue ------------------------------
(***************************************************************************)
(* scripts/kafka_produce_jobs.py and scripts/kafka_worker.py: a producer   *)
(* puts the jobs of a benchmark run on a Kafka topic, a consumer group of  *)
(* workers takes them one at a time, and every result is a row of the      *)
(* table `results` (infra/schema.sql).                                     *)
(*                                                                         *)
(* A worker's step is one statement of its loop (pc):                      *)
(*                                                                         *)
(*   poll -> check -> run -> write -> commit -> poll       "down": no pod  *)
(*                                                                         *)
(* Any of them may be its last: an exception ends the process, as nothing  *)
(* catches it, and Kubernetes starts a new one.  The broker is external:   *)
(* it assigns each partition to one live worker, which begins at the       *)
(* committed offset; a worker that is too long between two polls loses its *)
(* partitions, and its next commit raises.                                 *)
(***************************************************************************)
EXTENDS Integers, Sequences, FiniteSets

CONSTANTS
  Jobs,            \* job keys, all of one run_id
  JobList,         \* the order in which kafka_produce_jobs.py enqueues them
  Setups,          \* what the operator may have set up wrong, see below
  Workers,
  NumPartitions,
  partition,       \* Kafka's partitioner: a function of the message key
  NoJob,           \* what an idle worker has in hand
  MaxProducerRuns, \* bound: how often an operator starts the producer
  MaxFaults        \* bound: crashes, evictions, rebalances and lost sends

Partitions == 0..(NumPartitions - 1)

(* Jobs that get no row however often they are tried: unknown, the instance*)
(* is not in the instances.jsonl of the worker image; raises, evaluate()   *)
(* can raise every time (no adapter or environment, an unreadable report); *)
(* unlisted, `tasks` has no row of the instance and the dataset_version.   *)
Setup == [unknown: SUBSET Jobs, raises: SUBSET Jobs, unlisted: SUBSET Jobs]

ASSUME JobsAssumption ==
  /\ JobList \in Seq(Jobs)
  /\ Setups \subseteq Setup
  /\ NoJob \notin Jobs

ASSUME PartitionsAssumption ==
  /\ NumPartitions \in Nat \ {0}
  /\ partition \in [Jobs -> Partitions]

ASSUME BoundsAssumption == MaxProducerRuns \in Nat /\ MaxFaults \in Nat

VARIABLES
  setup,         \* a member of Setups; never changes
  producer_runs, \* how often the producer has been started
  next,          \* the next element of JobList it sends
  topic,         \* per partition, the messages
  committed,     \* per partition, how many the group has committed
  assigned,      \* per worker, its partitions
  position       \* per partition, how many its owner has been handed

VARIABLES
  pc,            \* per worker, the statement it is at
  job,           \* per worker, the job in hand
  results,       \* rows of `results`, [job, by]
  registered,    \* the row of `runs` that results.run_id refers to exists
  paid,          \* jobs whose model run has come to its end
  faults

brokerVars == <<topic, committed, assigned, position>>
workerVars == <<pc, job>>
storeVars  == <<results, registered>>
vars == <<setup, producer_runs, next, brokerVars, workerVars, storeVars, paid, faults>>

Init ==
  /\ setup \in Setups
  /\ producer_runs = 0
  /\ next = Len(JobList) + 1
  /\ topic = [p \in Partitions |-> <<>>]
  /\ committed = [p \in Partitions |-> 0]
  /\ assigned = [w \in Workers |-> {}]
  /\ position = [p \in Partitions |-> 0]
  /\ pc = [w \in Workers |-> "down"]
  /\ job = [w \in Workers |-> NoJob]
  /\ results = {}
  /\ registered = FALSE
  /\ paid = {}
  /\ faults = 0

Fault == faults < MaxFaults /\ faults' = faults + 1
-----------------------------------------------------------------------------
(* The producer and the operator                                           *)

(* The script is started, again if it died or out of caution: it begins    *)
(* with the first job.                                                     *)
StartProducer ==
  /\ producer_runs < MaxProducerRuns
  /\ producer_runs' = producer_runs + 1
  /\ next' = 1
  /\ UNCHANGED <<setup, brokerVars, workerVars, storeVars, paid, faults>>

(* Mutated form: messages without a key are spread over the partitions.    *)
PartitionAnywhere(j) == (next + producer_runs) % NumPartitions

PartitionFor(j) == partition[j]

Send ==
  /\ next <= Len(JobList)
  /\ LET p == PartitionFor(JobList[next]) IN
       topic' = [topic EXCEPT ![p] = Append(@, JobList[next])]
  /\ next' = next + 1
  /\ UNCHANGED <<setup, producer_runs, committed, assigned, position, workerVars,
                 storeVars, paid, faults>>

(* Nobody looks at the future that send() returns.                         *)
SendLost ==
  /\ next <= Len(JobList)
  /\ Fault
  /\ next' = next + 1
  /\ UNCHANGED <<setup, producer_runs, brokerVars, workerVars, storeVars, paid>>

(* The row of `runs` is inserted by hand, possibly after the jobs started. *)
Register ==
  /\ ~registered
  /\ registered' = TRUE
  /\ UNCHANGED <<setup, producer_runs, next, brokerVars, workerVars, results, paid,
                 faults>>
-----------------------------------------------------------------------------
(* The broker and the cluster *)

Alive == {w \in Workers : pc[w] # "down"}

Unassigned == Partitions \ UNION {assigned[w] : w \in Workers}

(* A worker joins the group, and is told its partitions, in poll().        *)
Assign(w, p) ==
  /\ pc[w] = "poll"
  /\ p \in Unassigned
  /\ assigned' = [assigned EXCEPT ![w] = @ \cup {p}]
  /\ position' = [position EXCEPT ![p] = committed[p]]
  /\ UNCHANGED <<setup, producer_runs, next, topic, committed, workerVars, storeVars,
                 paid, faults>>

(* A rebalance takes a partition from a worker that polls.                 *)
Revoke(w, p) ==
  /\ pc[w] = "poll"
  /\ p \in assigned[w]
  /\ Fault
  /\ assigned' = [assigned EXCEPT ![w] = @ \ {p}]
  /\ UNCHANGED <<setup, producer_runs, next, topic, committed, position, workerVars,
                 storeVars, paid>>

(* A job takes longer than max_poll_interval_ms.                           *)
Evict(w) ==
  /\ pc[w] \notin {"down", "poll"}
  /\ assigned[w] # {}
  /\ Fault
  /\ assigned' = [assigned EXCEPT ![w] = {}]
  /\ UNCHANGED <<setup, producer_runs, next, topic, committed, position, workerVars,
                 storeVars, paid>>

Stopped(w) ==
  /\ pc' = [pc EXCEPT ![w] = "down"]
  /\ job' = [job EXCEPT ![w] = NoJob]
  /\ assigned' = [assigned EXCEPT ![w] = {}]

Crash(w) ==
  /\ w \in Alive
  /\ Fault
  /\ Stopped(w)
  /\ UNCHANGED <<setup, producer_runs, next, topic, committed, position, storeVars,
                 paid>>

Restart(w) ==
  /\ pc[w] = "down"
  /\ pc' = [pc EXCEPT ![w] = "poll"]
  /\ UNCHANGED <<setup, producer_runs, next, brokerVars, job, storeVars, paid, faults>>
-----------------------------------------------------------------------------
(* The loop of a worker *)

(* Mutated form: the offset is committed before the result is written.     *)
CommitThenWrite == [run |-> "commit", write |-> "poll", commit |-> "write"]

(* The order of the statements from run_and_evaluate on.                   *)
LoopOrder == [run |-> "write", write |-> "commit", commit |-> "poll"]

HasRow(j) == \E row \in results : row.job = j

Poll(w) ==
  /\ pc[w] = "poll"
  /\ \E p \in assigned[w] :
       /\ position[p] < Len(topic[p])
       /\ job' = [job EXCEPT ![w] = topic[p][position[p] + 1]]
       /\ position' = [position EXCEPT ![p] = @ + 1]
  /\ pc' = [pc EXCEPT ![w] = "check"]
  /\ UNCHANGED <<setup, producer_runs, next, topic, committed, assigned, storeVars,
                 paid, faults>>

(* Nothing to take: the iterator of the consumer keeps polling.            *)
PollNothing(w) ==
  /\ pc[w] = "poll"
  /\ \A p \in assigned[w] : position[p] >= Len(topic[p])
  /\ UNCHANGED vars

(* Mutated form: a job that was done already is skipped with no commit.    *)
SkipUncommitted == "poll"

AfterSkip == "commit"

AlreadyDone(w) ==
  /\ pc[w] = "check"
  /\ HasRow(job[w])
  /\ pc' = [pc EXCEPT ![w] = AfterSkip]
  /\ UNCHANGED <<setup, producer_runs, next, brokerVars, job, storeVars, paid, faults>>

Start(w) ==
  /\ pc[w] = "check"
  /\ ~HasRow(job[w])
  /\ job[w] \notin setup.unknown
  /\ pc' = [pc EXCEPT ![w] = "run"]
  /\ UNCHANGED <<setup, producer_runs, next, brokerVars, job, storeVars, paid, faults>>

(* instances[instance_id] raises KeyError.                                 *)
UnknownInstance(w) ==
  /\ pc[w] = "check"
  /\ ~HasRow(job[w])
  /\ job[w] \in setup.unknown
  /\ Stopped(w)
  /\ UNCHANGED <<setup, producer_runs, next, topic, committed, position, storeVars,
                 paid, faults>>

(* run_and_evaluate returns: a failure of the agent before there is a patch*)
(* is a result too, so any job may get here.                               *)
RunAndEvaluate(w) ==
  /\ pc[w] = "run"
  /\ paid' = paid \cup {job[w]}
  /\ pc' = [pc EXCEPT ![w] = LoopOrder.run]
  /\ UNCHANGED <<setup, producer_runs, next, brokerVars, job, storeVars, faults>>

(* evaluate() stands outside the try of run_and_evaluate: what it raises   *)
(* after the agent's run, once or every time, ends the worker.             *)
EvaluateRaises(w) ==
  /\ pc[w] = "run"
  /\ \/ job[w] \in setup.raises /\ UNCHANGED faults
     \/ Fault
  /\ paid' = paid \cup {job[w]}
  /\ Stopped(w)
  /\ UNCHANGED <<setup, producer_runs, next, topic, committed, position, storeVars>>

(* The foreign keys of `results`, to `runs` and to `tasks`.                *)
References(j) == registered /\ j \notin setup.unlisted

(* Mutated form: INSERT without ON CONFLICT and UNIQUE.                    *)
InsertAlways(j, w) == results' = results \cup {[job |-> j, by |-> w]}

(* Mutated form: two columns of the INSERT are swapped.                    *)
InsertSwapped(j, w) ==
  results' = IF HasRow(j) THEN results ELSE results \cup {[job |-> w, by |-> j]}

Insert(j, w) ==
  results' = IF HasRow(j) THEN results ELSE results \cup {[job |-> j, by |-> w]}

WriteResult(w) ==
  /\ pc[w] = "write"
  /\ References(job[w])
  /\ Insert(job[w], w)
  /\ pc' = [pc EXCEPT ![w] = LoopOrder.write]
  /\ UNCHANGED <<setup, producer_runs, next, brokerVars, job, registered, paid, faults>>

(* ON CONFLICT does not catch it, and nothing else does.                   *)
ForeignKeyViolation(w) ==
  /\ pc[w] = "write"
  /\ ~References(job[w])
  /\ Stopped(w)
  /\ UNCHANGED <<setup, producer_runs, next, topic, committed, position, storeVars,
                 paid, faults>>

(* commit() commits the positions of all partitions of the worker.         *)
Commit(w) ==
  /\ pc[w] = "commit"
  /\ assigned[w] # {}
  /\ committed' = [p \in Partitions |->
                     IF p \in assigned[w] THEN position[p] ELSE committed[p]]
  /\ pc' = [pc EXCEPT ![w] = LoopOrder.commit]
  /\ job' = [job EXCEPT ![w] = IF LoopOrder.commit = "poll" THEN NoJob ELSE @]
  /\ UNCHANGED <<setup, producer_runs, next, topic, assigned, position, storeVars, paid,
                 faults>>

(* CommitFailedError: the worker was evicted while it worked.              *)
CommitFails(w) ==
  /\ pc[w] = "commit"
  /\ assigned[w] = {}
  /\ Stopped(w)
  /\ UNCHANGED <<setup, producer_runs, next, topic, committed, position, storeVars,
                 paid, faults>>
-----------------------------------------------------------------------------
WorkerStep(w) ==
  \/ Poll(w) \/ AlreadyDone(w) \/ Start(w) \/ UnknownInstance(w)
  \/ RunAndEvaluate(w) \/ EvaluateRaises(w)
  \/ WriteResult(w) \/ ForeignKeyViolation(w) \/ Commit(w) \/ CommitFails(w)

Next ==
  \/ StartProducer \/ Send \/ SendLost \/ Register
  \/ \E w \in Workers :
       \/ WorkerStep(w) \/ PollNothing(w)
       \/ Restart(w) \/ Crash(w) \/ Evict(w)
       \/ \E p \in Partitions : Assign(w, p) \/ Revoke(w, p)

Spec == Init /\ [][Next]_vars

(* Kubernetes restarts pods, the broker hands out what nobody owns, workers*)
(* run, and the operator notices a missing run; producers owe nothing.     *)
FairSpec ==
  /\ Spec
  /\ WF_vars(Register)
  /\ \A w \in Workers : WF_vars(Restart(w)) /\ WF_vars(WorkerStep(w))
  /\ \A p \in Partitions : WF_vars(\E w \in Workers : Assign(w, p))
-----------------------------------------------------------------------------
(* Properties *)

TypeOK ==
  /\ setup \in Setup
  /\ producer_runs \in Nat /\ next \in 1..(Len(JobList) + 1)
  /\ topic \in [Partitions -> Seq(Jobs)]
  /\ committed \in [Partitions -> Nat]
  /\ assigned \in [Workers -> SUBSET Partitions]
  /\ position \in [Partitions -> Nat]
  /\ pc \in [Workers -> {"down", "poll", "check", "run", "write", "commit"}]
  /\ job \in [Workers -> Jobs \cup {NoJob}]
  /\ results \subseteq [job: Jobs, by: Workers]
  /\ registered \in BOOLEAN
  /\ paid \subseteq Jobs
  /\ faults \in Nat

(* "No lost result": what the group has committed, and Kafka will never    *)
(* deliver again, has its row, whichever worker died at whichever point.   *)
CommittedIsRecorded ==
  \A p \in Partitions : \A k \in 1..committed[p] : HasRow(topic[p][k])

(* Two workers have the same job in hand only if one of them has been put  *)
(* out of the group: repeated enqueueing, restarts and rebalances alone do *)
(* not make them work, and pay, in parallel.                               *)
Busy(w) == pc[w] \notin {"down", "poll"}
OneRunnerPerJob ==
  \A w, v \in Workers :
    w # v /\ Busy(w) /\ Busy(v) /\ job[w] = job[v] =>
      assigned[w] = {} \/ assigned[v] = {}

(* "A replayed or duplicate message must be a safe no-op, never [...] a    *)
(* double-charged API call": no job's model run comes to its end twice.    *)
NeverPaidTwice ==
  [][\A w \in Workers :
       pc[w] = "run" /\ pc'[w] = LoopOrder.run => job[w] \notin paid]_vars

(* If every job can get a row, the lag of the group is zero again and      *)
(* again, so with a topic that is finite every message is consumed for     *)
(* good: crashes, rebalances, an evaluation that fails once and a run      *)
(* registered too late cause no endless cycle.                             *)
Drained == \A p \in Partitions : committed[p] = Len(topic[p])
Sound == setup.unknown = {} /\ setup.raises = {} /\ setup.unlisted = {}
QueueDrains == []<>(Sound => Drained)
-----------------------------------------------------------------------------
Store == INSTANCE ResultStore WITH
  queued <- UNION {{topic[p][k] : k \in 1..Len(topic[p])} : p \in Partitions},
  result <- [j \in Jobs |-> {row.by : row \in {x \in results : x.job = j}}]

(* "No duplicate row": a row is the result of one worker for a queued job, *)
(* and no crash, redelivery or second worker adds another or replaces it.  *)
ImplementsStore == Store!Spec
=============================================================================
