--------------------------- MODULE JobQueueProofs ---------------------------
(***************************************************************************)
(* Theorems about JobQueue.tla for every number of jobs, workers and       *)
(* partitions, every setup and any number of faults.                       *)
(***************************************************************************)
EXTENDS JobQueue, SequenceTheorems, TLAPS

(* A partition has one owner.                                              *)
PartitionsDisjoint ==
  \A w, v \in Workers : w # v => assigned[w] \cap assigned[v] = {}

(* Nobody is past the end of a partition.                                  *)
OffsetsInTopic ==
  \A p \in Partitions :
    committed[p] <= Len(topic[p]) /\ position[p] <= Len(topic[p])

(* Messages with one key are in one partition.                             *)
KeysKeepPartitions ==
  \A p \in Partitions : \A k \in 1..Len(topic[p]) : partition[topic[p][k]] = p

(* What a worker in the group has been handed is recorded, except for the  *)
(* job it has in hand before the write.                                    *)
HandedOutIsRecorded ==
  \A w \in Workers : \A p \in assigned[w] : \A k \in 1..position[p] :
    \/ HasRow(topic[p][k])
    \/ pc[w] \in {"check", "run", "write"} /\ topic[p][k] = job[w]

(* A busy worker has a job from the topic in hand ...                      *)
InHandIsQueued ==
  \A w \in Workers :
    Busy(w) => \E p \in Partitions : \E k \in 1..Len(topic[p]) :
                 job[w] = topic[p][k]

(* ... whose partition it owns, unless it has been evicted.                *)
InHandIsAssigned ==
  \A w \in Workers :
    Busy(w) /\ assigned[w] # {} => partition[job[w]] \in assigned[w]

QueueInv ==
  /\ TypeOK
  /\ PartitionsDisjoint
  /\ OffsetsInTopic
  /\ KeysKeepPartitions
  /\ HandedOutIsRecorded
  /\ InHandIsQueued
  /\ InHandIsAssigned
  /\ CommittedIsRecorded

(* A job in hand is a job.                                                 *)
LEMMA InHandIsJob ==
  ASSUME QueueInv, NEW w \in Workers, Busy(w)
  PROVE  job[w] \in Jobs
BY DEF QueueInv, TypeOK, InHandIsQueued

(* It holds initially: there is nothing in the topic and nobody up.        *)
LEMMA QueueInit == Init => QueueInv
<1> SUFFICES ASSUME Init PROVE QueueInv
  OBVIOUS
<1>1. TypeOK
  <2>1. /\ setup \in Setup /\ Len(JobList) \in Nat
        /\ Len(JobList) + 1 \in 1..(Len(JobList) + 1)
    BY JobsAssumption DEF Init
  <2>2. <<>> \in Seq(Jobs)
    BY EmptySeq
  <2>3. QED
    BY <2>1, <2>2 DEF Init, TypeOK
<1>2. PartitionsDisjoint /\ OffsetsInTopic /\ KeysKeepPartitions
  BY DEF Init, PartitionsDisjoint, OffsetsInTopic, KeysKeepPartitions
<1>3. HandedOutIsRecorded /\ InHandIsQueued /\ InHandIsAssigned
  BY DEF Init, HandedOutIsRecorded, InHandIsQueued, InHandIsAssigned, Busy
<1>4. CommittedIsRecorded
  BY DEF Init, CommittedIsRecorded
<1>5. QED
  BY <1>1, <1>2, <1>3, <1>4 DEF QueueInv

(* The producer: starting, losing a message, and registering the run touch *)
(* nothing a worker or the broker relies on.                               *)
LEMMA ProducerInv ==
  ASSUME QueueInv, StartProducer \/ SendLost \/ Register
  PROVE  QueueInv'
<1>1. /\ UNCHANGED <<setup, topic, committed, assigned, position, pc, job,
                     results, paid>>
      /\ registered' \in BOOLEAN /\ faults' \in Nat /\ producer_runs' \in Nat
      /\ next' \in 1..(Len(JobList) + 1)
  <2>1. Len(JobList) \in Nat
    BY JobsAssumption
  <2>2. CASE StartProducer
    BY <2>1, <2>2
    DEF QueueInv, TypeOK, StartProducer, brokerVars, workerVars, storeVars
  <2>3. CASE SendLost
    BY <2>1, <2>3
    DEF QueueInv, TypeOK, SendLost, Fault, brokerVars, workerVars, storeVars
  <2>4. CASE Register
    BY <2>4 DEF QueueInv, TypeOK, Register, brokerVars, workerVars
  <2>5. QED
    BY <2>2, <2>3, <2>4
<1>2. TypeOK'
  BY <1>1 DEF QueueInv, TypeOK
<1>3. QED
  BY <1>1, <1>2
  DEF QueueInv, PartitionsDisjoint, OffsetsInTopic, KeysKeepPartitions,
      HandedOutIsRecorded, InHandIsQueued, InHandIsAssigned, CommittedIsRecorded,
      Busy, HasRow

(* Sending appends to the partition of the key, behind every offset.       *)
LEMMA SendInv ==
  ASSUME QueueInv, Send
  PROVE  QueueInv'
<1> DEFINE j == JobList[next]
           q == partition[j]
<1>1. j \in Jobs /\ q \in Partitions /\ next + 1 \in 1..(Len(JobList) + 1)
  BY JobsAssumption, PartitionsAssumption DEF QueueInv, TypeOK, Send
<1>2. /\ topic' = [topic EXCEPT ![q] = Append(@, j)]
      /\ topic \in [Partitions -> Seq(Jobs)]
      /\ UNCHANGED <<setup, committed, assigned, position, pc, job, results,
                     registered, paid, faults, producer_runs>>
      /\ next' = next + 1
  BY DEF QueueInv, TypeOK, Send, PartitionFor, workerVars, storeVars
<1> HIDE DEF j, q
<1>3. /\ topic' \in [Partitions -> Seq(Jobs)]
      /\ \A p \in Partitions :
           /\ Len(topic[p]) \in Nat /\ Len(topic'[p]) \in Nat
           /\ Len(topic[p]) <= Len(topic'[p])
           /\ \A k \in 1..Len(topic[p]) : topic'[p][k] = topic[p][k]
           /\ \A k \in 1..Len(topic'[p]) :
                k \in 1..Len(topic[p]) \/ (p = q /\ topic'[p][k] = j)
  BY <1>1, <1>2
<1>4. TypeOK'
  BY <1>1, <1>2, <1>3 DEF QueueInv, TypeOK
<1>5. \A p \in Partitions : committed[p] \in Nat /\ position[p] \in Nat
  BY DEF QueueInv, TypeOK
<1>6. PartitionsDisjoint' /\ OffsetsInTopic'
  BY <1>2, <1>3, <1>5 DEF QueueInv, PartitionsDisjoint, OffsetsInTopic
<1>7. KeysKeepPartitions'
  BY <1>2, <1>3 DEF QueueInv, KeysKeepPartitions, q
<1>8. HandedOutIsRecorded'
  <2>1. \A w \in Workers : \A p \in assigned[w] : p \in Partitions
    BY DEF QueueInv, TypeOK
  <2>2. \A p \in Partitions : \A k \in 1..position[p] : k \in 1..Len(topic[p])
    BY <1>3, <1>5 DEF QueueInv, OffsetsInTopic
  <2>3. QED
    BY <1>2, <1>3, <2>1, <2>2 DEF QueueInv, HandedOutIsRecorded, HasRow
<1>9. InHandIsQueued'
  <2> SUFFICES ASSUME NEW w \in Workers, Busy(w)'
               PROVE  \E p \in Partitions : \E k \in 1..Len(topic'[p]) :
                        job'[w] = topic'[p][k]
    BY DEF InHandIsQueued
  <2>1. PICK p \in Partitions : \E k \in 1..Len(topic[p]) : job[w] = topic[p][k]
    BY <1>2 DEF QueueInv, InHandIsQueued, Busy
  <2>2. PICK k \in 1..Len(topic[p]) : job[w] = topic[p][k]
    BY <2>1
  <2>3. k \in 1..Len(topic'[p])
    BY <1>3
  <2>4. QED
    BY <1>2, <1>3, <2>2, <2>3
<1>10. InHandIsAssigned'
  BY <1>2 DEF QueueInv, InHandIsAssigned, Busy
<1>11. CommittedIsRecorded'
  <2>1. \A p \in Partitions : \A k \in 1..committed[p] : k \in 1..Len(topic[p])
    BY <1>3, <1>5 DEF QueueInv, OffsetsInTopic
  <2>2. QED
    BY <1>2, <1>3, <2>1 DEF QueueInv, CommittedIsRecorded, HasRow
<1>12. QED
  BY <1>4, <1>6, <1>7, <1>8, <1>9, <1>10, <1>11 DEF QueueInv

(* A worker that stops, for whatever reason, leaves offsets and rows alone.*)
LEMMA StopInv ==
  ASSUME QueueInv, NEW w \in Workers,
         \/ Crash(w) \/ UnknownInstance(w) \/ EvaluateRaises(w)
         \/ ForeignKeyViolation(w) \/ CommitFails(w)
  PROVE  QueueInv'
<1>1. /\ UNCHANGED <<setup, producer_runs, next, topic, committed, position,
                     results, registered>>
      /\ faults' \in Nat
      /\ pc' = [pc EXCEPT ![w] = "down"]
      /\ job' = [job EXCEPT ![w] = NoJob]
      /\ assigned' = [assigned EXCEPT ![w] = {}]
      /\ paid' \subseteq Jobs
  <2>1. CASE EvaluateRaises(w)
    <3>1. job[w] \in Jobs
      BY <2>1, InHandIsJob DEF EvaluateRaises, Busy
    <3>2. QED
      BY <2>1, <3>1 DEF QueueInv, TypeOK, EvaluateRaises, Stopped, Fault, storeVars
  <2>2. CASE Crash(w) \/ UnknownInstance(w) \/ ForeignKeyViolation(w) \/ CommitFails(w)
    BY <2>2
    DEF QueueInv, TypeOK, Crash, UnknownInstance, ForeignKeyViolation, CommitFails,
        Stopped, Fault, storeVars
  <2>3. QED
    BY <2>1, <2>2
<1>2. TypeOK'
  BY <1>1 DEF QueueInv, TypeOK
<1>3. PartitionsDisjoint' /\ OffsetsInTopic' /\ KeysKeepPartitions'
  BY <1>1
  DEF QueueInv, TypeOK, PartitionsDisjoint, OffsetsInTopic, KeysKeepPartitions
<1>4. HandedOutIsRecorded'
  BY <1>1 DEF QueueInv, TypeOK, HandedOutIsRecorded, HasRow
<1>5. InHandIsQueued' /\ InHandIsAssigned'
  BY <1>1 DEF QueueInv, TypeOK, InHandIsQueued, InHandIsAssigned, Busy
<1>6. CommittedIsRecorded'
  BY <1>1 DEF QueueInv, CommittedIsRecorded, HasRow
<1>7. QED
  BY <1>2, <1>3, <1>4, <1>5, <1>6 DEF QueueInv

(* The broker: assignment begins at the committed offset; revocation and   *)
(* eviction only take away.                                                *)
LEMMA BrokerInv ==
  ASSUME QueueInv, NEW w \in Workers, NEW p \in Partitions,
         Assign(w, p) \/ Revoke(w, p) \/ Evict(w) \/ Restart(w)
  PROVE  QueueInv'
<1>1. CASE Assign(w, p)
  <2>1. /\ UNCHANGED <<setup, producer_runs, next, topic, committed, pc, job,
                       results, registered, paid, faults>>
        /\ pc[w] = "poll"
        /\ \A v \in Workers : p \notin assigned[v]
        /\ assigned' = [assigned EXCEPT ![w] = @ \cup {p}]
        /\ position' = [position EXCEPT ![p] = committed[p]]
    BY <1>1 DEF Assign, Unassigned, workerVars, storeVars
  <2>2. TypeOK'
    BY <2>1 DEF QueueInv, TypeOK
  <2>3. PartitionsDisjoint' /\ OffsetsInTopic' /\ KeysKeepPartitions'
    BY <2>1
    DEF QueueInv, TypeOK, PartitionsDisjoint, OffsetsInTopic, KeysKeepPartitions
  <2>4. HandedOutIsRecorded'
    BY <2>1
    DEF QueueInv, TypeOK, HandedOutIsRecorded, CommittedIsRecorded, HasRow
  <2>5. InHandIsQueued' /\ InHandIsAssigned'
    BY <2>1 DEF QueueInv, TypeOK, InHandIsQueued, InHandIsAssigned, Busy
  <2>6. CommittedIsRecorded'
    BY <2>1 DEF QueueInv, CommittedIsRecorded, HasRow
  <2>7. QED
    BY <2>2, <2>3, <2>4, <2>5, <2>6 DEF QueueInv
<1>2. CASE Revoke(w, p) \/ Evict(w)
  <2>1. /\ UNCHANGED <<setup, producer_runs, next, topic, committed, position,
                       pc, job, results, registered, paid>>
        /\ faults' \in Nat
        /\ \E S \in SUBSET assigned[w] :
             /\ assigned' = [assigned EXCEPT ![w] = S]
             /\ S = {} \/ pc[w] = "poll"
    BY <1>2 DEF QueueInv, TypeOK, Revoke, Evict, Fault, workerVars, storeVars
  <2>2. TypeOK'
    BY <2>1 DEF QueueInv, TypeOK
  <2>3. PartitionsDisjoint' /\ OffsetsInTopic' /\ KeysKeepPartitions'
    BY <2>1
    DEF QueueInv, TypeOK, PartitionsDisjoint, OffsetsInTopic, KeysKeepPartitions
  <2>4. HandedOutIsRecorded'
    BY <2>1 DEF QueueInv, TypeOK, HandedOutIsRecorded, HasRow
  <2>5. InHandIsQueued' /\ InHandIsAssigned'
    BY <2>1 DEF QueueInv, TypeOK, InHandIsQueued, InHandIsAssigned, Busy
  <2>6. CommittedIsRecorded'
    BY <2>1 DEF QueueInv, CommittedIsRecorded, HasRow
  <2>7. QED
    BY <2>2, <2>3, <2>4, <2>5, <2>6 DEF QueueInv
<1>3. CASE Restart(w)
  <2>1. /\ UNCHANGED <<setup, producer_runs, next, topic, committed, position,
                       assigned, job, results, registered, paid, faults>>
        /\ pc[w] = "down" /\ pc' = [pc EXCEPT ![w] = "poll"]
    BY <1>3 DEF Restart, brokerVars, storeVars
  <2>2. TypeOK'
    BY <2>1 DEF QueueInv, TypeOK
  <2>3. PartitionsDisjoint' /\ OffsetsInTopic' /\ KeysKeepPartitions'
    BY <2>1 DEF QueueInv, PartitionsDisjoint, OffsetsInTopic, KeysKeepPartitions
  <2>4. HandedOutIsRecorded'
    BY <2>1 DEF QueueInv, TypeOK, HandedOutIsRecorded, HasRow
  <2>5. InHandIsQueued' /\ InHandIsAssigned'
    BY <2>1 DEF QueueInv, TypeOK, InHandIsQueued, InHandIsAssigned, Busy
  <2>6. CommittedIsRecorded'
    BY <2>1 DEF QueueInv, CommittedIsRecorded, HasRow
  <2>7. QED
    BY <2>2, <2>3, <2>4, <2>5, <2>6 DEF QueueInv
<1>4. QED
  BY <1>1, <1>2, <1>3
-----------------------------------------------------------------------------
(* Taking a message: all the worker had before is recorded, the new one is *)
(* in hand.                                                                *)
LEMMA PollInv ==
  ASSUME QueueInv, NEW w \in Workers, Poll(w)
  PROVE  QueueInv'
<1>1. PICK p \in assigned[w] :
        /\ position[p] < Len(topic[p])
        /\ job' = [job EXCEPT ![w] = topic[p][position[p] + 1]]
        /\ position' = [position EXCEPT ![p] = @ + 1]
  BY DEF Poll
<1>2. /\ UNCHANGED <<setup, producer_runs, next, topic, committed, assigned,
                     results, registered, paid, faults>>
      /\ pc[w] = "poll" /\ pc' = [pc EXCEPT ![w] = "check"]
  BY DEF Poll, storeVars
<1> DEFINE n == position[p] + 1
<1>3. /\ p \in Partitions /\ topic[p] \in Seq(Jobs)
      /\ position[p] \in Nat /\ n \in 1..Len(topic[p])
      /\ topic[p][n] \in Jobs /\ partition[topic[p][n]] = p
  <2>1. p \in Partitions /\ topic[p] \in Seq(Jobs) /\ position[p] \in Nat
    BY DEF QueueInv, TypeOK
  <2>2. n \in 1..Len(topic[p]) /\ topic[p][n] \in Jobs
    BY <2>1, <1>1
  <2>3. QED
    BY <2>1, <2>2 DEF QueueInv, KeysKeepPartitions
<1>4. TypeOK'
  BY <1>1, <1>2, <1>3 DEF QueueInv, TypeOK
<1>5. PartitionsDisjoint' /\ OffsetsInTopic' /\ KeysKeepPartitions'
  BY <1>1, <1>2, <1>3
  DEF QueueInv, TypeOK, PartitionsDisjoint, OffsetsInTopic, KeysKeepPartitions
<1>6. HandedOutIsRecorded'
  <2> SUFFICES ASSUME NEW v \in Workers, NEW r \in assigned[v],
                      NEW k \in 1..position'[r]
               PROVE  \/ HasRow(topic[r][k])
                      \/ /\ pc'[v] \in {"check", "run", "write"}
                         /\ topic[r][k] = job'[v]
    BY <1>2 DEF HandedOutIsRecorded, HasRow
  <2>1. CASE v # w
    <3>1. r # p
      BY <2>1 DEF QueueInv, PartitionsDisjoint
    <3>2. position'[r] = position[r] /\ pc'[v] = pc[v] /\ job'[v] = job[v]
      BY <1>1, <1>2, <2>1, <3>1 DEF QueueInv, TypeOK
    <3>3. QED
      BY <3>2 DEF QueueInv, HandedOutIsRecorded
  <2>2. CASE v = w /\ k \in 1..position[r]
    BY <2>2, <1>2 DEF QueueInv, HandedOutIsRecorded
  <2>3. CASE v = w /\ k \notin 1..position[r]
    <3>1. r = p /\ k = n
      BY <2>3, <1>1, <1>3 DEF QueueInv, TypeOK
    <3>2. QED
      BY <3>1, <2>3, <1>1, <1>2 DEF QueueInv, TypeOK
  <2>4. QED
    BY <2>1, <2>2, <2>3
<1>7. InHandIsQueued' /\ InHandIsAssigned'
  BY <1>1, <1>2, <1>3
  DEF QueueInv, TypeOK, InHandIsQueued, InHandIsAssigned, Busy
<1>8. CommittedIsRecorded'
  BY <1>2 DEF QueueInv, CommittedIsRecorded, HasRow
<1>9. QED
  BY <1>4, <1>5, <1>6, <1>7, <1>8 DEF QueueInv

(* Deciding to skip or to run, and running: only pc moves.  A worker leaves*)
(* the statements before the write only if the row is there.               *)
LEMMA WorkInv ==
  ASSUME QueueInv, NEW w \in Workers,
         AlreadyDone(w) \/ Start(w) \/ RunAndEvaluate(w)
  PROVE  QueueInv'
<1>1. /\ UNCHANGED <<setup, producer_runs, next, topic, committed, assigned,
                     position, job, results, registered, faults>>
      /\ \E s \in {"run", "write", "commit"} :
           /\ pc' = [pc EXCEPT ![w] = s]
           /\ s = "commit" => HasRow(job[w])
      /\ pc[w] \in {"check", "run"}
      /\ paid' \subseteq paid \cup {job[w]}
  BY DEF AlreadyDone, Start, RunAndEvaluate, AfterSkip, LoopOrder, brokerVars,
         storeVars
<1>2. job[w] \in Jobs
  BY <1>1, InHandIsJob DEF Busy
<1>3. TypeOK'
  BY <1>1, <1>2 DEF QueueInv, TypeOK
<1>4. PartitionsDisjoint' /\ OffsetsInTopic' /\ KeysKeepPartitions'
  BY <1>1 DEF QueueInv, PartitionsDisjoint, OffsetsInTopic, KeysKeepPartitions
<1>5. HandedOutIsRecorded'
  BY <1>1 DEF QueueInv, TypeOK, HandedOutIsRecorded, HasRow
<1>6. InHandIsQueued' /\ InHandIsAssigned'
  BY <1>1 DEF QueueInv, TypeOK, InHandIsQueued, InHandIsAssigned, Busy
<1>7. CommittedIsRecorded'
  BY <1>1 DEF QueueInv, CommittedIsRecorded, HasRow
<1>8. QED
  BY <1>3, <1>4, <1>5, <1>6, <1>7 DEF QueueInv

(* Rows are never taken away, and after the write the job has one.         *)
LEMMA WriteKeepsRows ==
  ASSUME QueueInv, NEW w \in Workers, WriteResult(w)
  PROVE  /\ results \subseteq results'
         /\ \E row \in results' : row.job = job[w]
         /\ job[w] \in Jobs
         /\ results' \subseteq results \cup {[job |-> job[w], by |-> w]}
<1>1. job[w] \in Jobs
  BY InHandIsJob DEF WriteResult, Busy
<1>2. CASE HasRow(job[w])
  BY <1>1, <1>2 DEF WriteResult, Insert, HasRow
<1>3. CASE ~HasRow(job[w])
  <2> DEFINE row == [job |-> job[w], by |-> w]
  <2>1. results' = results \cup {row}
    BY <1>3 DEF WriteResult, Insert
  <2>2. row \in results' /\ row.job = job[w]
    BY <2>1
  <2>3. QED
    BY <1>1, <2>1, <2>2
<1>4. QED
  BY <1>2, <1>3

(* Writing the result.                                                     *)
LEMMA WriteInv ==
  ASSUME QueueInv, NEW w \in Workers, WriteResult(w)
  PROVE  QueueInv'
<1>1. /\ UNCHANGED <<setup, producer_runs, next, topic, committed, assigned,
                     position, job, registered, paid, faults>>
      /\ pc[w] = "write" /\ pc' = [pc EXCEPT ![w] = "commit"]
  BY DEF WriteResult, LoopOrder, brokerVars
<1>2. /\ results \subseteq results'
      /\ \E row \in results' : row.job = job[w]
      /\ job[w] \in Jobs
      /\ results' \subseteq results \cup {[job |-> job[w], by |-> w]}
  BY WriteKeepsRows
<1>3. TypeOK'
  BY <1>1, <1>2 DEF QueueInv, TypeOK
<1>4. PartitionsDisjoint' /\ OffsetsInTopic' /\ KeysKeepPartitions'
  BY <1>1 DEF QueueInv, PartitionsDisjoint, OffsetsInTopic, KeysKeepPartitions
<1>5. HandedOutIsRecorded'
  <2> SUFFICES ASSUME NEW v \in Workers, NEW p \in assigned[v],
                      NEW k \in 1..position[p]
               PROVE  \/ \E row \in results' : row.job = topic[p][k]
                      \/ /\ pc'[v] \in {"check", "run", "write"}
                         /\ topic[p][k] = job[v]
    BY <1>1 DEF HandedOutIsRecorded, HasRow
  <2>1. CASE HasRow(topic[p][k])
    BY <2>1, <1>2 DEF HasRow
  <2>2. CASE ~HasRow(topic[p][k]) /\ v = w
    BY <2>2, <1>2 DEF QueueInv, HandedOutIsRecorded
  <2>3. CASE ~HasRow(topic[p][k]) /\ v # w
    BY <2>3, <1>1 DEF QueueInv, TypeOK, HandedOutIsRecorded
  <2>4. QED
    BY <2>1, <2>2, <2>3
<1>6. InHandIsQueued' /\ InHandIsAssigned'
  BY <1>1 DEF QueueInv, TypeOK, InHandIsQueued, InHandIsAssigned, Busy
<1>7. CommittedIsRecorded'
  BY <1>1, <1>2 DEF QueueInv, CommittedIsRecorded, HasRow
<1>8. QED
  BY <1>3, <1>4, <1>5, <1>6, <1>7 DEF QueueInv

(* Committing: all that the worker has been handed is recorded by then.    *)
LEMMA CommitInv ==
  ASSUME QueueInv, NEW w \in Workers, Commit(w)
  PROVE  QueueInv'
<1>1. /\ UNCHANGED <<setup, producer_runs, next, topic, assigned, position,
                     results, registered, paid, faults>>
      /\ pc[w] = "commit" /\ pc' = [pc EXCEPT ![w] = "poll"]
      /\ job' = [job EXCEPT ![w] = NoJob]
      /\ committed' = [p \in Partitions |->
                         IF p \in assigned[w] THEN position[p] ELSE committed[p]]
  BY DEF Commit, LoopOrder, storeVars
<1>2. TypeOK'
  BY <1>1 DEF QueueInv, TypeOK
<1>3. PartitionsDisjoint' /\ OffsetsInTopic' /\ KeysKeepPartitions'
  BY <1>1 DEF QueueInv, PartitionsDisjoint, OffsetsInTopic, KeysKeepPartitions
<1>4. \A p \in assigned[w] : \A k \in 1..position[p] : HasRow(topic[p][k])
  BY <1>1 DEF QueueInv, HandedOutIsRecorded
<1>5. HandedOutIsRecorded'
  BY <1>1, <1>4 DEF QueueInv, TypeOK, HandedOutIsRecorded, HasRow
<1>6. InHandIsQueued' /\ InHandIsAssigned'
  BY <1>1 DEF QueueInv, TypeOK, InHandIsQueued, InHandIsAssigned, Busy
<1>7. CommittedIsRecorded'
  BY <1>1, <1>4 DEF QueueInv, CommittedIsRecorded, HasRow
<1>8. QED
  BY <1>2, <1>3, <1>5, <1>6, <1>7 DEF QueueInv
-----------------------------------------------------------------------------
(* A step that changes nothing.                                            *)
LEMMA StutterInv ==
  ASSUME QueueInv, UNCHANGED vars
  PROVE  QueueInv'
<1>1. UNCHANGED <<setup, producer_runs, next, topic, committed, assigned,
                  position, pc, job, results, registered, paid, faults>>
  BY DEF vars, brokerVars, workerVars, storeVars
<1>2. QED
  BY <1>1
  DEF QueueInv, TypeOK, PartitionsDisjoint, OffsetsInTopic, KeysKeepPartitions,
      HandedOutIsRecorded, InHandIsQueued, InHandIsAssigned, CommittedIsRecorded,
      Busy, HasRow

(* Every step of the system preserves the invariant.                       *)
LEMMA QueueStep == QueueInv /\ [Next]_vars => QueueInv'
<1> SUFFICES ASSUME QueueInv, [Next]_vars PROVE QueueInv'
  OBVIOUS
<1>1. CASE StartProducer \/ SendLost \/ Register
  BY <1>1, ProducerInv
<1>2. CASE Send
  BY <1>2, SendInv
<1>3. ASSUME NEW w \in Workers,
             WorkerStep(w) \/ PollNothing(w) \/ Restart(w) \/ Crash(w) \/ Evict(w)
      PROVE  QueueInv'
  <2>1. CASE Poll(w)
    BY <2>1, PollInv
  <2>2. CASE AlreadyDone(w) \/ Start(w) \/ RunAndEvaluate(w)
    BY <2>2, WorkInv
  <2>3. CASE WriteResult(w)
    BY <2>3, WriteInv
  <2>4. CASE Commit(w)
    BY <2>4, CommitInv
  <2>5. CASE \/ Crash(w) \/ UnknownInstance(w) \/ EvaluateRaises(w)
             \/ ForeignKeyViolation(w) \/ CommitFails(w)
    BY <2>5, StopInv
  <2>6. CASE PollNothing(w)
    BY <2>6, StutterInv DEF PollNothing
  <2>7. CASE Restart(w) \/ Evict(w)
    <3>1. 0 \in Partitions
      BY PartitionsAssumption DEF Partitions
    <3>2. QED
      BY <2>7, <3>1, BrokerInv
  <2>8. QED
    BY <1>3, <2>1, <2>2, <2>3, <2>4, <2>5, <2>6, <2>7 DEF WorkerStep
<1>4. ASSUME NEW w \in Workers, NEW p \in Partitions, Assign(w, p) \/ Revoke(w, p)
      PROVE  QueueInv'
  BY <1>4, BrokerInv
<1>5. CASE UNCHANGED vars
  BY <1>5, StutterInv
<1>6. QED
  BY <1>1, <1>2, <1>3, <1>4, <1>5 DEF Next

(* The inductive invariant of the queue.                                   *)
LEMMA QueueInvariant == Spec => []QueueInv
  BY QueueInit, QueueStep, PTL DEF Spec

(* Every variable keeps its type.                                          *)
THEOREM QueueTypeCorrect == Spec => []TypeOK
<1>1. QueueInv => TypeOK
  BY DEF QueueInv
<1>2. QED
  BY <1>1, QueueInvariant, PTL

(* No lost result: in every reachable state, each message the group has    *)
(* committed has its row (kafka_worker.py commits only after a durable     *)
(* write).                                                                 *)
THEOREM RecordedBeforeCommitted == Spec => []CommittedIsRecorded
<1>1. QueueInv => CommittedIsRecorded
  BY DEF QueueInv
<1>2. QED
  BY <1>1, QueueInvariant, PTL

(* Two members of the group never work on the same job: its messages are in*)
(* one partition, which has one owner.                                     *)
THEOREM OneRunner == Spec => []OneRunnerPerJob
<1>1. QueueInv => OneRunnerPerJob
  BY DEF QueueInv, OneRunnerPerJob, InHandIsAssigned, PartitionsDisjoint, Busy
<1>2. QED
  BY <1>1, QueueInvariant, PTL
-----------------------------------------------------------------------------
(* What the store of results sees of the queue.                            *)
Messages(p) == {topic[p][k] : k \in 1..Len(topic[p])}
QueuedJobs == UNION {Messages(p) : p \in Partitions}
ResultOf == [j \in Jobs |-> {row.by : row \in {x \in results : x.job = j}}]

(* A step that touches neither the topic nor the rows is no step of the    *)
(* store.                                                                  *)
LEMMA OtherStutters ==
  ASSUME UNCHANGED <<topic, results>>
  PROVE  UNCHANGED <<QueuedJobs, ResultOf>>
BY DEF QueuedJobs, Messages, ResultOf

(* A message sent is a job enqueued.                                       *)
LEMMA SendEnqueues ==
  ASSUME QueueInv, Send
  PROVE  /\ JobList[next] \in Jobs
         /\ QueuedJobs' = QueuedJobs \cup {JobList[next]}
         /\ ResultOf' = ResultOf
<1> DEFINE j == JobList[next]
           q == partition[j]
<1>1. j \in Jobs /\ q \in Partitions
  BY JobsAssumption, PartitionsAssumption DEF QueueInv, TypeOK, Send
<1>2. /\ topic' = [topic EXCEPT ![q] = Append(@, j)]
      /\ topic \in [Partitions -> Seq(Jobs)]
      /\ results' = results
  BY DEF QueueInv, TypeOK, Send, PartitionFor, storeVars
<1> HIDE DEF j, q
<1>3. \A p \in Partitions :
        Messages(p)' = Messages(p) \cup (IF p = q THEN {j} ELSE {})
  <2> SUFFICES ASSUME NEW p \in Partitions
               PROVE  Messages(p)' = Messages(p) \cup (IF p = q THEN {j} ELSE {})
    OBVIOUS
  <2>1. CASE p # q
    BY <2>1, <1>2 DEF Messages
  <2>2. CASE p = q
    <3>1. /\ topic'[p] = Append(topic[p], j) /\ topic[p] \in Seq(Jobs)
          /\ Len(topic[p]) \in Nat
      BY <2>2, <1>2
    <3>2. /\ Len(topic'[p]) = Len(topic[p]) + 1
          /\ topic'[p][Len(topic[p]) + 1] = j
          /\ \A k \in 1..Len(topic[p]) : topic'[p][k] = topic[p][k]
      BY <3>1, <1>1
    <3>3. QED
      BY <3>1, <3>2, <2>2 DEF Messages
  <2>3. QED
    BY <2>1, <2>2
<1>4. QueuedJobs' = QueuedJobs \cup {j}
  <2>1. QueuedJobs' = UNION {Messages(p)' : p \in Partitions}
    BY DEF QueuedJobs
  <2>2. \A x : x \in QueuedJobs' <=> \E p \in Partitions : x \in Messages(p)'
    BY <2>1
  <2>3. \A x : x \in QueuedJobs <=> \E p \in Partitions : x \in Messages(p)
    BY DEF QueuedJobs
  <2>4. QED
    BY <1>1, <1>3, <2>2, <2>3
<1>5. ResultOf' = ResultOf
  BY <1>2 DEF ResultOf
<1>6. QED
  BY <1>1, <1>4, <1>5 DEF j

(* Writing is the first result of a queued job, or nothing at all.         *)
LEMMA WriteRecords ==
  ASSUME QueueInv, NEW w \in Workers, WriteResult(w)
  PROVE  /\ QueuedJobs' = QueuedJobs
         /\ \/ ResultOf' = ResultOf
            \/ /\ job[w] \in QueuedJobs /\ job[w] \in Jobs
               /\ ResultOf[job[w]] = {}
               /\ ResultOf' = [ResultOf EXCEPT ![job[w]] = {w}]
<1>1. /\ topic' = topic /\ job[w] \in Jobs /\ Busy(w)
      /\ results \subseteq [job: Jobs, by: Workers]
  BY InHandIsJob DEF QueueInv, TypeOK, WriteResult, brokerVars, Busy
<1>2. QueuedJobs' = QueuedJobs
  BY <1>1 DEF QueuedJobs, Messages
<1>3. job[w] \in QueuedJobs
  BY <1>1 DEF QueueInv, InHandIsQueued, QueuedJobs, Messages
<1>4. CASE HasRow(job[w])
  <2>1. results' = results
    BY <1>4 DEF WriteResult, Insert
  <2>2. QED
    BY <2>1, <1>2 DEF ResultOf
<1>5. CASE ~HasRow(job[w])
  <2> DEFINE new == [job |-> job[w], by |-> w]
  <2>1. results' = results \cup {new} /\ new.job = job[w] /\ new.by = w
    BY <1>5 DEF WriteResult, Insert
  <2>2. \A row \in results : row.job # job[w]
    BY <1>5 DEF HasRow
  <2> HIDE DEF new
  <2>3. ResultOf[job[w]] = {}
    BY <1>1, <2>2 DEF ResultOf
  <2>4. \A j \in Jobs :
          {row.by : row \in {x \in results' : x.job = j}} =
            IF j = job[w] THEN {w}
            ELSE {row.by : row \in {x \in results : x.job = j}}
    <3> SUFFICES ASSUME NEW j \in Jobs
                 PROVE  {row.by : row \in {x \in results' : x.job = j}} =
                          IF j = job[w] THEN {w}
                          ELSE {row.by : row \in {x \in results : x.job = j}}
      OBVIOUS
    <3>1. CASE j = job[w]
      <4>1. {x \in results' : x.job = j} = {new}
        BY <3>1, <2>1, <2>2
      <4>2. QED
        BY <4>1, <3>1, <2>1
    <3>2. CASE j # job[w]
      <4>1. {x \in results' : x.job = j} = {x \in results : x.job = j}
        BY <3>2, <2>1
      <4>2. QED
        BY <4>1, <3>2
    <3>3. QED
      BY <3>1, <3>2
  <2>5. ResultOf' = [ResultOf EXCEPT ![job[w]] = {w}]
    BY <1>1, <2>4 DEF ResultOf
  <2>6. QED
    BY <1>1, <1>2, <1>3, <2>3, <2>5
<1>6. QED
  BY <1>4, <1>5

(* A step of the queue is a step of the store, or none.                    *)
LEMMA StoreStep == QueueInv /\ [Next]_vars => [Store!Next]_(Store!storeVars)
<1> SUFFICES ASSUME QueueInv, [Next]_vars
             PROVE  \/ \E j \in Jobs :
                         \/ /\ QueuedJobs' = QueuedJobs \cup {j}
                            /\ ResultOf' = ResultOf
                         \/ /\ j \in QueuedJobs /\ ResultOf[j] = {}
                            /\ \E w \in Workers :
                                 ResultOf' = [ResultOf EXCEPT ![j] = {w}]
                            /\ QueuedJobs' = QueuedJobs
                    \/ UNCHANGED <<QueuedJobs, ResultOf>>
  BY DEF Store!Next, Store!Enqueue, Store!Record, Store!storeVars, QueuedJobs,
         Messages, ResultOf
<1>1. CASE Send
  BY <1>1, SendEnqueues
<1>2. CASE \E w \in Workers : WriteResult(w)
  BY <1>2, WriteRecords
<1>3. CASE UNCHANGED <<topic, results>>
  BY <1>3, OtherStutters
<1>4. Send \/ (\E w \in Workers : WriteResult(w)) \/ UNCHANGED <<topic, results>>
  <2>1. CASE StartProducer \/ SendLost \/ Register \/ UNCHANGED vars
    BY <2>1
    DEF StartProducer, SendLost, Register, vars, brokerVars, storeVars
  <2>2. ASSUME NEW w \in Workers, WorkerStep(w), ~WriteResult(w)
        PROVE  UNCHANGED <<topic, results>>
    BY <2>2
    DEF WorkerStep, Poll, AlreadyDone, Start, UnknownInstance, RunAndEvaluate,
        EvaluateRaises, ForeignKeyViolation, Commit, CommitFails, brokerVars,
        storeVars
  <2>3. ASSUME NEW w \in Workers,
               PollNothing(w) \/ Restart(w) \/ Crash(w) \/ Evict(w)
        PROVE  UNCHANGED <<topic, results>>
    BY <2>3 DEF PollNothing, Restart, Crash, Evict, vars, brokerVars, storeVars
  <2>4. ASSUME NEW w \in Workers, NEW p \in Partitions,
               Assign(w, p) \/ Revoke(w, p)
        PROVE  UNCHANGED <<topic, results>>
    BY <2>4 DEF Assign, Revoke, storeVars
  <2>5. QED
    BY <2>1, <2>2, <2>3, <2>4 DEF Next
<1>5. QED
  BY <1>1, <1>2, <1>3, <1>4

(* The queue, with its crashes, redeliveries and rebalances, keeps what    *)
(* ResultStore.tla promises: a job gets at most one row, only if it was    *)
(* queued, and nothing replaces it.                                        *)
THEOREM QueueImplementsStore == Spec => ImplementsStore
<1>1. Init => Store!Init
  <2> SUFFICES ASSUME Init
               PROVE  QueuedJobs = {} /\ ResultOf = [j \in Jobs |-> {}]
    BY DEF Store!Init, QueuedJobs, Messages, ResultOf
  <2>1. \A p \in Partitions : Messages(p) = {}
    BY DEF Init, Messages
  <2>2. QED
    BY <2>1 DEF Init, QueuedJobs, ResultOf
<1>2. QED
  BY <1>1, StoreStep, QueueInvariant, PTL
  DEF Spec, ImplementsStore, Store!Spec
=============================================================================
