---------------------------- MODULE ResultStore -----------------------------
(***************************************************************************)
(* What the job queue promises the owner of a benchmark run, with no       *)
(* broker, no partitions and no crashes in sight (kafka_worker.py, "no     *)
(* lost result, no duplicate row"): only a job that was queued gets a      *)
(* result, it gets one, from one of the workers, and it keeps it.          *)
(***************************************************************************)
CONSTANTS
  Jobs,   \* the keys (run_id, instance_id, repeat)
  Workers

VARIABLES
  queued,   \* jobs the queue has accepted
  result    \* per job, the workers whose result is stored

storeVars == <<queued, result>>

Init ==
  /\ queued = {}
  /\ result = [j \in Jobs |-> {}]

Enqueue(j) ==
  /\ queued' = queued \cup {j}
  /\ UNCHANGED result

Record(j) ==
  /\ j \in queued
  /\ result[j] = {}
  /\ \E w \in Workers : result' = [result EXCEPT ![j] = {w}]
  /\ UNCHANGED queued

Next == \E j \in Jobs : Enqueue(j) \/ Record(j)

Spec == Init /\ [][Next]_storeVars
=============================================================================
