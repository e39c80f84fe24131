--------------------------- MODULE ServiceProofs ----------------------------
(***************************************************************************)
(* Theorems about what Scheduler.tla does for its clients and KVCache.tla  *)
(* reads and writes for them, for every number of requests, every pool and *)
(* block size and every EngineConfig.  They build on the agreement of      *)
(* lists, memory and seats that SchedulerProofs proves (SeatInv), and each *)
(* invariant below builds on the ones before it.                           *)
(***************************************************************************)
EXTENDS SchedulerProofs, KVCache, Lists

(* Block arithmetic.                                                       *)

(* The quotient of the ceiling division, by its two inequalities.          *)
LEMMA BlocksNeededBounds ==
  ASSUME NEW n \in Nat
  PROVE  /\ blocks_needed(n) \in Nat
         /\ n <= blocks_needed(n) * BlockSize
         /\ blocks_needed(n) * BlockSize <= n + BlockSize - 1
<1> DEFINE q == blocks_needed(n)
           b == BlockSize
<1>1. b \in Nat /\ b > 0 /\ q = (n + b - 1) \div b
  BY SizesAssumption DEF blocks_needed
<1>2. q \in Nat
  BY BlocksNeededType
<1> HIDE DEF q, b
<1>3. q * b <= n + b - 1 /\ n + b - 1 < (q + 1) * b
  BY <1>1, <1>2
<1>4. (q + 1) * b = q * b + b
  BY <1>1, <1>2
<1>5. q * b \in Nat
  BY <1>1, <1>2
<1>6. QED
  BY <1>1, <1>2, <1>3, <1>4, <1>5 DEF q, b

(* Comparing products with the same positive factor.                       *)
LEMMA ProductOrder ==
  ASSUME NEW k \in Nat, NEW l \in Nat, NEW b \in Nat, b > 0
  PROVE  /\ k <= l => k * b <= l * b
         /\ k * b < (l + 1) * b => k <= l
<1>1. ASSUME NEW x \in Nat, NEW y \in Nat, x <= y
      PROVE  x * b <= y * b
  <2>1. PICK d \in Nat : y = x + d
    <3>1. y - x \in Nat /\ y = x + (y - x)
      BY <1>1
    <3>2. QED
      BY <3>1
  <2>2. (x + d) * b = x * b + d * b /\ d * b \in Nat /\ x * b \in Nat
    OBVIOUS
  <2>3. QED
    BY <2>1, <2>2
<1>2. ASSUME ~(k <= l) PROVE ~(k * b < (l + 1) * b)
  <2>1. l + 1 <= k /\ l + 1 \in Nat
    BY <1>2
  <2>2. (l + 1) * b <= k * b
    BY <2>1, <1>1
  <2>3. (l + 1) * b \in Nat /\ k * b \in Nat
    OBVIOUS
  <2>4. QED
    BY <2>2, <2>3
<1>3. QED
  BY <1>1, <1>2

(* n tokens fit k blocks exactly when k is at least blocks_needed(n).      *)
LEMMA BlocksNeededFits ==
  ASSUME NEW n \in Nat, NEW k \in Nat
  PROVE  blocks_needed(n) <= k <=> n <= k * BlockSize
<1> DEFINE q == blocks_needed(n)
           b == BlockSize
<1>1. b \in Nat /\ b > 0
  BY SizesAssumption
<1>2. q \in Nat /\ n <= q * b /\ q * b <= n + b - 1
  BY BlocksNeededBounds
<1> HIDE DEF q, b
<1>3. q * b \in Nat /\ k * b \in Nat /\ (k + 1) * b = k * b + b
  BY <1>1, <1>2
<1>4. ASSUME q <= k PROVE n <= k * b
  <2>1. q * b <= k * b
    BY <1>1, <1>2, <1>4, ProductOrder
  <2>2. QED
    BY <1>2, <1>3, <2>1
<1>5. ASSUME n <= k * b PROVE q <= k
  <2>1. q * b < (k + 1) * b
    BY <1>1, <1>2, <1>3, <1>5
  <2>2. QED
    BY <1>1, <1>2, <2>1, ProductOrder
<1>6. QED
  BY <1>4, <1>5 DEF q, b

(* More tokens need no fewer blocks, and one more token at most one more.  *)
LEMMA BlocksNeededOrder ==
  ASSUME NEW n \in Nat, NEW m \in Nat, n <= m
  PROVE  blocks_needed(n) <= blocks_needed(m)
<1> DEFINE k == blocks_needed(m)
<1>1. k \in Nat /\ m <= k * BlockSize /\ k * BlockSize \in Nat
  BY BlocksNeededBounds, SizesAssumption
<1> HIDE DEF k
<1>2. n <= k * BlockSize
  BY <1>1
<1>3. QED
  BY <1>1, <1>2, BlocksNeededFits DEF k

LEMMA BlocksNeededNext ==
  ASSUME NEW n \in Nat
  PROVE  blocks_needed(n + 1) <= blocks_needed(n) + 1
<1> DEFINE k == blocks_needed(n)
           b == BlockSize
<1>1. b \in Nat /\ b > 0
  BY SizesAssumption
<1>2. k \in Nat /\ n <= k * b
  BY BlocksNeededBounds
<1> HIDE DEF k, b
<1>3. (k + 1) * b = k * b + b /\ k * b \in Nat
  BY <1>1, <1>2
<1>4. n + 1 <= (k + 1) * b
  BY <1>1, <1>2, <1>3
<1>5. n + 1 \in Nat /\ k + 1 \in Nat
  BY <1>2
<1>6. QED
  BY <1>4, <1>5, BlocksNeededFits DEF k, b
-----------------------------------------------------------------------------
(* Tokens, evictions and reasons.                                          *)

(* A request is finished only while it runs or afterwards; every eviction  *)
(* is preceded by a token; the rows of a decode are the unfinished running *)
(* requests.                                                               *)
TokenInv ==
  /\ \A r \in Requests : state[r] = "new" =>
       /\ finish_reason[r] = "none" /\ client[r] = "reading"
       /\ out_len[r] = 0 /\ preempt_count[r] = 0
  /\ \A r \in waiting : ~finished(r) /\ preempt_count[r] <= out_len[r]
  /\ pc \in {"admit", "prefill"} =>
       \A r \in batch : ~finished(r) /\ preempt_count[r] <= out_len[r]
  /\ \A r \in running : preempt_count[r] < out_len[r]
  /\ pc \in {"ensure", "evict"} => Rows = Unfinished

(* Sorting a set by admit_seq yields each of its elements once.            *)
LEMMA OldestFirstRows ==
  ASSUME TypeOK, NEW S \in SUBSET Requests, NEW rows \in OldestFirst(S)
  PROVE  /\ {rows[j] : j \in 1..Len(rows)} = S
         /\ Len(rows) = Cardinality(S)
         /\ \A j, k \in 1..Len(rows) : rows[j] = rows[k] => j = k
<1> DEFINE n == Cardinality(S)
<1>1. IsFiniteSet(S) /\ n \in Nat
  BY RequestsFinite, FS_Subset, FS_CardinalityType
<1>2. rows \in [1..n -> S] /\ Len(rows) = n
  BY <1>1, OldestFirstType DEF OldestFirst
<1>3. \A j, k \in 1..n : j < k => admit_seq[rows[j]] < admit_seq[rows[k]]
  BY DEF OldestFirst
<1>4. \A j \in 1..n : admit_seq[rows[j]] \in Int
  <2>1. admit_seq \in [Requests -> Nat \cup {-1}]
    BY DEF TypeOK
  <2>2. QED
    BY <1>2, <2>1
<1> HIDE DEF n
<1>5. \A j, k \in 1..n : rows[j] = rows[k] => j = k
  <2> SUFFICES ASSUME NEW j \in 1..n, NEW k \in 1..n, j < k
               PROVE  rows[j] # rows[k]
    BY <1>1
  <2>1. QED
    BY <1>3, <1>4
<1>6. rows \in Injection(1..n, S)
  BY <1>2, <1>5 DEF Injection, IsInjective
<1>7. Cardinality(1..n) = n
  <2>1. n \in Int /\ 1 \in Int /\ (IF 1 > n THEN 0 ELSE n - 1 + 1) = n
    BY <1>1
  <2>2. QED
    BY <2>1, FS_Interval
<1>8. rows \in Surjection(1..n, S)
  BY <1>1, <1>6, <1>7, FS_Injection DEF n
<1>9. {rows[j] : j \in 1..n} = S
  BY <1>2, <1>8 DEF Surjection
<1>10. QED
  BY <1>2, <1>5, <1>9 DEF n

(* Evicting row v of a list without repetitions leaves all the others.     *)
LEMMA RemainingRows ==
  ASSUME NEW S, NEW s \in Seq(S), NEW v \in 1..Len(s)
  PROVE  /\ Len(RemoveRow(s, v)) = Len(s) - 1
         /\ \A j \in 1..(Len(s) - 1) :
              \E k \in 1..Len(s) : k # v /\ RemoveRow(s, v)[j] = s[k]
         /\ \A k \in 1..Len(s) : k # v =>
              \E j \in 1..(Len(s) - 1) : RemoveRow(s, v)[j] = s[k]
<1> DEFINE t == RemoveRow(s, v)
           n == Len(s)
<1>1. n \in Nat /\ Len(t) = n - 1
      /\ \A j \in 1..(n - 1) : t[j] = IF j < v THEN s[j] ELSE s[j + 1]
  BY RemoveRowType
<1> HIDE DEF t, n
<1>2. v \in 1..n
  BY DEF n
<1>3. \A j \in 1..(n - 1) : \E k \in 1..n : k # v /\ t[j] = s[k]
  <2> SUFFICES ASSUME NEW j \in 1..(n - 1)
               PROVE  \E k \in 1..n : k # v /\ t[j] = s[k]
    OBVIOUS
  <2>1. CASE j < v
    <3>1. j \in 1..n /\ j # v /\ t[j] = s[j]
      BY <1>1, <1>2, <2>1
    <3>2. QED
      BY <3>1
  <2>2. CASE ~(j < v)
    <3>1. j + 1 \in 1..n /\ j + 1 # v /\ t[j] = s[j + 1]
      BY <1>1, <1>2, <2>2
    <3>2. QED
      BY <3>1
  <2>3. QED
    BY <2>1, <2>2
<1>4. \A k \in 1..n : k # v => \E j \in 1..(n - 1) : t[j] = s[k]
  <2> SUFFICES ASSUME NEW k \in 1..n, k # v
               PROVE  \E j \in 1..(n - 1) : t[j] = s[k]
    OBVIOUS
  <2>1. CASE k < v
    BY <1>1, <1>2, <2>1
  <2>2. CASE k > v
    <3>1. k - 1 \in 1..(n - 1) /\ ~(k - 1 < v) /\ (k - 1) + 1 = k
      BY <1>1, <1>2, <2>2
    <3>2. QED
      BY <1>1, <3>1
  <2>3. QED
    BY <1>2, <2>1, <2>2
<1>5. QED
  BY <1>1, <1>3, <1>4 DEF t, n

(* The evicted request had a token for each of its evictions and one more. *)
LEMMA PreemptTokens ==
  ASSUME SeatInv, TokenInv, SeatInv', Preempt
  PROVE  TokenInv'
<1>1. PICK v \in 1..Len(active) :
        /\ active' = RemoveRow(active, v)
        /\ running' = running \ {active[v]}
        /\ waiting' = waiting \cup {active[v]}
        /\ state' = [state EXCEPT ![active[v]] = "WAITING"]
        /\ preempt_count' = [preempt_count EXCEPT ![active[v]] = @ + 1]
  BY DEF Preempt
<1>2. active \in Seq(Requests) /\ TypeOK
  BY DEF SeatInv, TypeOK
<1>3. PICK victim \in Requests : victim = active[v]
  BY <1>2
<1>4. /\ pc = "evict" /\ pc' = "ensure"
      /\ out_len' = out_len /\ finish_reason' = finish_reason /\ client' = client
  BY DEF Preempt
<1>5. victim \in Unfinished
  BY <1>3, <1>4 DEF TokenInv, Rows
<1>6. Rows' = Rows \ {victim}
  <2>1. \A j, k \in 1..Len(active) : active[j] = active[k] => j = k
    BY <1>4 DEF SeatInv, RowsRunning
  <2>2. /\ Len(active') = Len(active) - 1
        /\ \A j \in 1..(Len(active) - 1) :
             \E k \in 1..Len(active) : k # v /\ active'[j] = active[k]
        /\ \A k \in 1..Len(active) : k # v =>
             \E j \in 1..(Len(active) - 1) : active'[j] = active[k]
    BY <1>1, <1>2, RemainingRows
  <2>3. \A k \in 1..Len(active) : k # v <=> active[k] # victim
    BY <1>3, <2>1
  <2>4. \A x : x \in Rows' <=> \E j \in 1..(Len(active) - 1) : active'[j] = x
    BY <2>2 DEF Rows
  <2>5. \A x : x \in Rows <=> \E k \in 1..Len(active) : active[k] = x
    BY DEF Rows
  <2>6. ASSUME NEW x \in Rows' PROVE x \in Rows /\ x # victim
    <3>1. PICK j \in 1..(Len(active) - 1) : active'[j] = x
      BY <2>4
    <3>2. PICK k \in 1..Len(active) : k # v /\ active'[j] = active[k]
      BY <2>2
    <3>3. QED
      BY <2>3, <2>5, <3>1, <3>2
  <2>7. ASSUME NEW x \in Rows, x # victim PROVE x \in Rows'
    <3>1. PICK k \in 1..Len(active) : active[k] = x
      BY <2>5
    <3>2. PICK j \in 1..(Len(active) - 1) : active'[j] = active[k]
      BY <2>2, <2>3, <2>7, <3>1
    <3>3. QED
      BY <2>4, <3>1, <3>2
  <2>8. QED
    BY <2>6, <2>7
<1>7. Unfinished' = Unfinished \ {victim}
  BY <1>1, <1>3, <1>4 DEF Unfinished, finished
<1>8. /\ preempt_count'[victim] = preempt_count[victim] + 1
      /\ \A q \in Requests : q # victim =>
           preempt_count'[q] = preempt_count[q] /\ state'[q] = state[q]
      /\ state'[victim] = "WAITING"
  BY <1>1, <1>2, <1>3 DEF TypeOK
<1>9. ~finished(victim) /\ preempt_count[victim] + 1 <= out_len[victim]
  <2>1. preempt_count[victim] \in Nat /\ out_len[victim] \in Nat
    BY <1>2 DEF TypeOK
  <2>2. QED
    BY <1>5, <2>1 DEF TokenInv, Unfinished
<1>10. \A r \in waiting' :
         ~finished(r)' /\ preempt_count'[r] <= out_len'[r]
  BY <1>1, <1>2, <1>3, <1>4, <1>8, <1>9 DEF TokenInv, finished, TypeOK
<1>11. \A r \in running' : preempt_count'[r] < out_len'[r]
  BY <1>1, <1>2, <1>3, <1>4, <1>8 DEF TokenInv, TypeOK
<1>12. QED
  BY <1>4, <1>6, <1>7, <1>8, <1>10, <1>11 DEF TokenInv, finished

(* One case per action.                                                    *)
LEMMA TokenStep == SeatInv /\ TokenInv /\ [Next]_vars => TokenInv'
<1> SUFFICES ASSUME SeatInv, TokenInv, [Next]_vars PROVE TokenInv'
  OBVIOUS
<1>0. TypeOK /\ SeatInv' /\ TypeOK'
  BY SeatStep DEF SeatInv
<1>1. CASE UNCHANGED vars
  BY <1>1 DEF vars, threadVars, requestVars, TokenInv, finished, Rows, Unfinished
<1>2. ASSUME NEW r \in Requests, NEW p \in PromptLens, NEW m \in MaxNewTokens,
             Submit(r, p, m)
      PROVE  TokenInv'
  <2>1. /\ pc = "loop" /\ pc' = "loop" /\ state[r] = "new"
        /\ waiting' = waiting \cup {r} /\ running' = running
        /\ UNCHANGED <<out_len, preempt_count, finish_reason, client>>
        /\ \A q \in Requests : state'[q] = "new" => state[q] = "new"
    BY <1>0, <1>2 DEF Submit, TypeOK
  <2>2. QED
    BY <2>1 DEF TokenInv, finished
<1>3. ASSUME NEW r \in Impatient, Disconnect(r) \/ SetCancelled(r)
      PROVE  TokenInv'
  <2>1. \A q \in Requests : state[q] = "new" => client'[q] = client[q]
    BY <1>0, <1>3 DEF Disconnect, SetCancelled, TypeOK, TokenInv
  <2>2. UNCHANGED <<threadVars, state, out_len, finish_reason, preempt_count>>
    BY <1>3 DEF Disconnect, SetCancelled
  <2>3. QED
    BY <2>1, <2>2 DEF threadVars, TokenInv, finished, Rows, Unfinished
<1>4. CASE BeginStep
  <2>1. \A r \in Requests : r \notin running => finish_reason'[r] = finish_reason[r]
    BY <1>4 DEF BeginStep, MarkedCancelled
  <2>2. \A r \in waiting : r \notin running /\ r \in Requests
    BY <1>0, <1>4 DEF BeginStep, SeatInv, SeatsAgree, QueuedOnce, Admitted, TypeOK
  <2>3. \A r \in Requests : state[r] = "new" => r \notin running
    BY <1>4 DEF BeginStep, SeatInv, SeatsAgree, StatesFollowLists
  <2>4. QED
    BY <1>4, <2>1, <2>2, <2>3 DEF BeginStep, TokenInv, finished
<1>5. ASSUME NEW r \in Requests, Retire(r) PROVE TokenInv'
  BY <1>0, <1>5 DEF Retire, TypeOK, TokenInv, finished
<1>6. CASE EndRetire \/ EndAdmit \/ OutOfBlocks
  BY <1>6 DEF EndRetire, EndAdmit, OutOfBlocks, SeatInv, requestVars, TokenInv,
     finished
<1>7. ASSUME NEW r \in Requests, Admit(r) PROVE TokenInv'
  <2>1. r \in waiting
    BY <1>7 DEF Admit, Admissible, IsHead
  <2>2. QED
    BY <1>7, <2>1 DEF Admit, TokenInv, finished
<1>8. ASSUME NEW r \in Requests, AdmitAsserts(r) PROVE TokenInv'
  BY <1>8 DEF AdmitAsserts, requestVars, TokenInv, finished
<1>9. CASE Prefill
  <2>1. PICK stops \in SUBSET batch : Emit(batch, stops)
    BY <1>9 DEF Prefill
  <2>2. \A r \in batch : out_len'[r] = out_len[r] + 1 /\ state[r] = "WAITING"
    BY <1>0, <1>9, <2>1 DEF Prefill, Emit, SeatInv, TypeOK
  <2>3. \A r \in Requests \ batch :
          out_len'[r] = out_len[r] /\ finish_reason'[r] = finish_reason[r]
    BY <2>1 DEF Emit
  <2>4. waiting \cap batch = {}
    BY <1>9 DEF Prefill, SeatInv, SeatsAgree, QueuedOnce, Admitted
  <2>5. \A r \in Requests : out_len[r] \in Nat /\ preempt_count[r] \in Nat
    BY <1>0 DEF TypeOK
  <2>6. batch \subseteq Requests /\ running \subseteq Requests
        /\ waiting \subseteq Requests
    BY <1>0 DEF TypeOK
  <2>7. \A r \in running' : preempt_count'[r] < out_len'[r]
    <3> SUFFICES ASSUME NEW r \in running' PROVE preempt_count'[r] < out_len'[r]
      OBVIOUS
    <3>1. CASE r \in batch
      BY <1>9, <2>2, <2>5, <2>6, <3>1 DEF Prefill, TokenInv
    <3>2. CASE r \notin batch
      BY <1>9, <2>3, <2>6, <3>2 DEF Prefill, TokenInv
    <3>3. QED
      BY <3>1, <3>2
  <2>8. QED
    BY <1>9, <2>2, <2>3, <2>4, <2>6, <2>7 DEF Prefill, TokenInv, finished
<1>10. CASE BeginDecode
  <2>1. PICK rows \in OldestFirst(Unfinished) : active' = rows
    BY <1>10 DEF BeginDecode
  <2>2. Unfinished \in SUBSET Requests
    BY <1>0 DEF Unfinished, TypeOK
  <2>3. {rows[j] : j \in 1..Len(rows)} = Unfinished
    BY <1>0, <2>2, OldestFirstRows
  <2>4. Rows' = Unfinished
    BY <2>1, <2>3 DEF Rows
  <2>5. Unfinished' = Unfinished
    BY <1>10 DEF BeginDecode, requestVars, Unfinished, finished
  <2>6. QED
    BY <1>10, <2>4, <2>5 DEF BeginDecode, requestVars, TokenInv, finished
<1>11. CASE AppendSlot
  <2>1. Rows' = Rows /\ Unfinished' = Unfinished
    BY <1>11 DEF AppendSlot, requestVars, Rows, Unfinished, finished
  <2>2. pc = "ensure" /\ pc' \in {"ensure", "evict"}
    BY <1>11 DEF AppendSlot
  <2>3. QED
    BY <1>11, <2>1, <2>2 DEF AppendSlot, requestVars, TokenInv, finished
<1>12. CASE Preempt
  BY <1>0, <1>12, PreemptTokens
<1>13. CASE DecodeStep
  <2>1. PICK stops \in SUBSET Rows : Emit(Rows, stops)
    BY <1>13 DEF DecodeStep
  <2>2. Rows = Unfinished /\ pc = "ensure" /\ pc' = "loop"
    BY <1>13 DEF DecodeStep, TokenInv
  <2>3. Rows \subseteq running /\ running \subseteq Requests
        /\ waiting \subseteq Requests
    BY <1>0, <2>2 DEF Unfinished, TypeOK
  <2>4. waiting \cap running = {}
    BY <2>2 DEF SeatInv, SeatsAgree, QueuedOnce, Admitted
  <2>5. \A r \in Requests : state[r] = "new" => r \notin running
    BY <2>2 DEF SeatInv, SeatsAgree, StatesFollowLists
  <2>6. \A r \in Requests \ Rows :
          out_len'[r] = out_len[r] /\ finish_reason'[r] = finish_reason[r]
    BY <2>1 DEF Emit
  <2>7. \A r \in Requests :
          out_len[r] \in Nat /\ preempt_count[r] \in Nat
          /\ (out_len'[r] = out_len[r] \/ out_len'[r] = out_len[r] + 1)
    BY <1>0, <2>1 DEF TypeOK, Emit
  <2>8. \A r \in running : preempt_count[r] < out_len'[r]
    BY <2>3, <2>7 DEF TokenInv
  <2>9. QED
    BY <1>13, <2>2, <2>3, <2>4, <2>5, <2>6, <2>8 DEF DecodeStep, TokenInv, finished
<1>14. QED
  BY <1>1, <1>2, <1>3, <1>4, <1>5, <1>6, <1>7, <1>8, <1>9, <1>10, <1>11, <1>12,
     <1>13
  DEF Next, EngineStep, ApiStep, Idle

LEMMA TokenInit == Init => TokenInv
BY DEF Init, TokenInv

LEMMA TokenInvariant == Spec => [](SeatInv /\ TokenInv)
BY SeatInit, SeatStep, TokenInit, TokenStep, PTL DEF Spec

(* Every stay in the batch yields a token, so nobody is evicted more often *)
(* than it has tokens to produce, whatever the sizes of pool and requests. *)
THEOREM PreemptionsArePaidFor == Spec => []PreemptionsPaidFor
<1>1. TokenInv => PreemptionsPaidFor
  BY DEF TokenInv, PreemptionsPaidFor
<1>2. QED
  BY <1>1, TokenInvariant, PTL

(* Only unfinished requests are given tokens, marked cancelled or queued.  *)
LEMMA FinalStep ==
  ASSUME SeatInv, TokenInv, [Next]_vars, NEW r \in Requests, finished(r)
  PROVE  /\ finish_reason'[r] = finish_reason[r]
         /\ out_len'[r] = out_len[r]
         /\ r \notin waiting'
<1> DEFINE Goal == /\ finish_reason'[r] = finish_reason[r]
                   /\ out_len'[r] = out_len[r]
                   /\ r \notin waiting'
<1>0. TypeOK /\ r \notin waiting /\ state[r] # "new"
  BY DEF SeatInv, TokenInv, finished
<1>1. CASE UNCHANGED <<finish_reason, out_len>> /\ waiting' \subseteq waiting
  BY <1>0, <1>1
<1>2. ASSUME NEW q \in Requests, NEW p \in PromptLens, NEW m \in MaxNewTokens,
             Submit(q, p, m)
      PROVE  Goal
  BY <1>0, <1>2 DEF Submit
<1>3. CASE BeginStep
  BY <1>0, <1>3 DEF BeginStep, MarkedCancelled
<1>4. CASE Prefill
  <2>1. r \notin batch
    BY <1>4 DEF Prefill, TokenInv
  <2>2. QED
    BY <1>0, <1>4, <2>1 DEF Prefill, Emit
<1>5. CASE DecodeStep
  <2>1. r \notin Rows
    BY <1>5 DEF DecodeStep, TokenInv, Unfinished
  <2>2. QED
    BY <1>0, <1>5, <2>1 DEF DecodeStep, Emit
<1>6. CASE Preempt
  <2>1. PICK v \in 1..Len(active) : waiting' = waiting \cup {active[v]}
    BY <1>6 DEF Preempt
  <2>2. active[v] # r
    BY <1>6 DEF Preempt, TokenInv, Rows, Unfinished
  <2>3. QED
    BY <1>0, <1>6, <2>1, <2>2 DEF Preempt
<1>7. ASSUME \/ UNCHANGED vars
             \/ \E q \in Impatient : Disconnect(q) \/ SetCancelled(q)
             \/ \E q \in Requests : Retire(q) \/ Admit(q) \/ AdmitAsserts(q)
             \/ EndRetire \/ EndAdmit \/ BeginDecode \/ AppendSlot \/ OutOfBlocks
      PROVE  UNCHANGED <<finish_reason, out_len>> /\ waiting' \subseteq waiting
  BY <1>7 DEF vars, requestVars, threadVars, Disconnect, SetCancelled, Retire,
     Admit, AdmitAsserts, EndRetire, EndAdmit, BeginDecode, AppendSlot, OutOfBlocks
<1>8. QED
  BY <1>1, <1>2, <1>3, <1>4, <1>5, <1>6, <1>7 DEF Next, EngineStep, ApiStep, Idle

(* The reason a client was told stays true: a finished request gets no     *)
(* token, no other reason and no second life in the queue.                 *)
THEOREM FinishStays == Spec => FinishIsFinal
<1>1. ASSUME SeatInv /\ TokenInv, [Next]_vars
      PROVE  [\A r \in Requests :
                finished(r) => /\ finish_reason'[r] = finish_reason[r]
                               /\ out_len'[r] = out_len[r]
                               /\ r \notin waiting']_vars
  BY <1>1, FinalStep
<1>2. QED
  BY <1>1, TokenInvariant, PTL DEF Spec, FinishIsFinal
-----------------------------------------------------------------------------
(* What the operations of the allocators do to the lengths of their lists. *)

(* More tokens need no fewer units, one more token at most one more unit.  *)
LEMMA UnitsOrder ==
  ASSUME NEW n \in Nat, NEW m \in Nat, n <= m
  PROVE  /\ UnitsFor(n) \in Nat /\ UnitsFor(m) \in Nat
         /\ UnitsFor(n) <= UnitsFor(m)
         /\ UnitsFor(n + 1) \in Nat
         /\ UnitsFor(n + 1) <= UnitsFor(n) + 1
<1>1. /\ blocks_needed(n) \in Nat /\ blocks_needed(m) \in Nat
      /\ blocks_needed(n + 1) \in Nat
  BY BlocksNeededType
<1>2. /\ blocks_needed(n) <= blocks_needed(m)
      /\ blocks_needed(n + 1) <= blocks_needed(n) + 1
  BY BlocksNeededOrder, BlocksNeededNext
<1>3. QED
  BY <1>1, <1>2 DEF UnitsFor

LEMMA ListLengths ==
  ASSUME TypeOK
  PROVE  /\ Len(free_blocks) \in Nat
         /\ \A r \in Requests : Len(block_table[r]) \in Nat
         /\ \A r \in Requests : block_table[r] = <<>> <=> Len(block_table[r]) = 0
BY EmptySeq DEF TypeOK, MemoryTypeOK

LEMMA AllocateLengths ==
  ASSUME TypeOK, NEW r \in Requests, AllocateAsserts(seq_len(r)),
         allocate(r, seq_len(r), worst_len(r))
  PROVE  /\ Len(block_table'[r]) = UnitsFor(seq_len(r))
         /\ \A q \in Requests : q # r => block_table'[q] = block_table[q]
         /\ Len(free_blocks') = Len(free_blocks) - UnitsFor(seq_len(r))
<1> DEFINE k == UnitsFor(seq_len(r))
<1>1. k \in 0..Len(free_blocks) /\ free_blocks \in Seq(Blocks)
  BY LengthsType DEF AllocateAsserts, TypeOK, MemoryTypeOK
<1>2. /\ Len(LastReversed(free_blocks, k)) = k
      /\ Len(DropLast(free_blocks, k)) = Len(free_blocks) - k
  BY <1>1, LastReversedType, DropLastType
<1>3. /\ block_table' = [block_table EXCEPT ![r] = LastReversed(free_blocks, k)]
      /\ free_blocks' = DropLast(free_blocks, k)
  BY DEF allocate
<1> HIDE DEF k
<1>4. block_table \in [Requests -> Seq(Blocks)]
  BY DEF TypeOK, MemoryTypeOK
<1>5. QED
  BY <1>2, <1>3, <1>4 DEF k

LEMMA FreeLengths ==
  ASSUME TypeOK, NEW r \in Requests, free(r)
  PROVE  /\ block_table'[r] = <<>>
         /\ \A q \in Requests : q # r => block_table'[q] = block_table[q]
         /\ Len(free_blocks') = Len(free_blocks) + Len(block_table[r])
<1>1. PICK f, t, u, S : /\ f = free_blocks /\ t = block_table[r] /\ S = Blocks
                        /\ u = LastReversed(t, Len(t))
  OBVIOUS
<1>2. f \in Seq(S) /\ t \in Seq(S)
  BY <1>1 DEF TypeOK, MemoryTypeOK
<1>3. u \in Seq(S) /\ Len(u) = Len(t)
  BY <1>1, <1>2, LastReversedType
<1>4. Len(f \o u) = Len(f) + Len(u)
  BY <1>2, <1>3, ConcatProperties
<1>5. free_blocks' = f \o u
  BY <1>1 DEF free
<1>6. QED
  BY <1>1, <1>3, <1>4, <1>5 DEF free, TypeOK, MemoryTypeOK

(* append_slot fills the table up to its n tokens, or as far as the free   *)
(* list goes; a slot, which is never short, stays as it is.                *)
LEMMA AppendLengths ==
  ASSUME TypeOK, NEW r \in Requests, append_slot(r, seq_len(r)),
         cfg.backend = "contiguous" => Len(block_table[r]) = 1
  PROVE  /\ \A q \in Requests : q # r => block_table'[q] = block_table[q]
         /\ AppendSucceeds(r, seq_len(r)) <=>
              UnitsFor(seq_len(r)) <= Len(block_table[r]) + Len(free_blocks)
         /\ AppendSucceeds(r, seq_len(r)) =>
              /\ Len(block_table'[r]) =
                   IF UnitsFor(seq_len(r)) > Len(block_table[r])
                     THEN UnitsFor(seq_len(r)) ELSE Len(block_table[r])
              /\ Len(free_blocks') =
                   Len(free_blocks) + Len(block_table[r]) - Len(block_table'[r])
         /\ ~AppendSucceeds(r, seq_len(r)) =>
              /\ Len(block_table'[r]) = Len(block_table[r]) + Len(free_blocks)
              /\ Len(block_table'[r]) < UnitsFor(seq_len(r))
              /\ free_blocks' = <<>>
<1> DEFINE m == MissingBlocks(r, seq_len(r))
           u == UnitsFor(seq_len(r))
           got == IF AppendSucceeds(r, seq_len(r)) THEN m ELSE Len(free_blocks)
<1>1. m \in Nat /\ u \in Nat
  BY LengthsType
<1>2. free_blocks \in Seq(Blocks) /\ block_table \in [Requests -> Seq(Blocks)]
      /\ Len(free_blocks) \in Nat /\ Len(block_table[r]) \in Nat
  BY DEF TypeOK, MemoryTypeOK
<1>3. m = IF u > Len(block_table[r]) THEN u - Len(block_table[r]) ELSE 0
  <2>1. cfg.backend \in {"paged", "contiguous"}
    BY ConfigsAssumption DEF TypeOK, MemoryTypeOK, EngineConfig
  <2>2. CASE cfg.backend = "paged"
    <3>1. u = blocks_needed(seq_len(r))
      BY <2>2 DEF UnitsFor
    <3>2. QED
      BY <2>2, <3>1 DEF MissingBlocks
  <2>3. CASE cfg.backend = "contiguous"
    <3>1. u = 1 /\ m = 0 /\ Len(block_table[r]) = 1
      BY <2>3 DEF UnitsFor, MissingBlocks
    <3>2. QED
      BY <3>1
  <2>4. QED
    BY <2>1, <2>2, <2>3
<1>4. AppendSucceeds(r, seq_len(r)) <=> m <= Len(free_blocks)
  BY DEF AppendSucceeds
<1>5. /\ block_table' = [block_table EXCEPT
                           ![r] = @ \o LastReversed(free_blocks, got)]
      /\ free_blocks' = DropLast(free_blocks, got)
  BY DEF append_slot
<1> HIDE DEF m, u
<1>6. got \in 0..Len(free_blocks)
  BY <1>1, <1>2, <1>4
<1> HIDE DEF got
<1>7. /\ Len(block_table[r] \o LastReversed(free_blocks, got)) =
           Len(block_table[r]) + got
      /\ Len(DropLast(free_blocks, got)) = Len(free_blocks) - got
      /\ DropLast(free_blocks, got) \in Seq(Blocks)
  BY <1>2, <1>6, TakenTable, DropLastType
<1>8. /\ Len(block_table'[r]) = Len(block_table[r]) + got
      /\ \A q \in Requests : q # r => block_table'[q] = block_table[q]
      /\ Len(free_blocks') = Len(free_blocks) - got
      /\ free_blocks' \in Seq(Blocks)
  BY <1>2, <1>5, <1>7
<1>9. free_blocks' = <<>> <=> Len(free_blocks') = 0
  BY <1>8, EmptySeq
<1>10. QED
  BY <1>1, <1>2, <1>3, <1>4, <1>8, <1>9 DEF got, m, u
-----------------------------------------------------------------------------
(* Lengths stay within what the front door accepted.                       *)

(* Every submitted request fits a context and an empty pool to its last    *)
(* token; the cache of an unfinished running one lacks its last token only.*)
LimitInv ==
  /\ \A r \in Requests : state[r] # "new" =>
       /\ worst_len(r) <= MaxContext
       /\ UnitsFor(worst_len(r)) <= cfg.num_blocks
       /\ ~finished(r) => out_len[r] = 0 \/ out_len[r] < max_new[r]
  /\ \A r \in running : ~finished(r) => cached[r] + 1 = seq_len(r)

(* One token for the requests in S, a last one where the limit is reached. *)
LEMMA EmitOne ==
  ASSUME TypeOK, NEW S, NEW stops, Emit(S, stops), NEW r \in Requests
  PROVE  /\ r \in S => out_len'[r] = out_len[r] + 1
         /\ r \in S /\ finish_reason'[r] = "none" =>
              out_len'[r] < max_new[r] /\ finish_reason[r] = "none"
         /\ r \notin S =>
              out_len'[r] = out_len[r] /\ finish_reason'[r] = finish_reason[r]
BY DEF TypeOK, Emit, ReasonAfter

(* The 400 and 413 checks and the cap of submit().                         *)
LEMMA SubmitLimits ==
  ASSUME TypeOK, TokenInv, LimitInv, StatesFollowLists,
         NEW r \in Requests, NEW p \in PromptLens, NEW m \in MaxNewTokens,
         Submit(r, p, m)
  PROVE  LimitInv'
<1> DEFINE room == MaxContext - p
           eff == IF m < room THEN m ELSE room
<1>1. p \in Nat /\ m \in Nat /\ MaxContext \in Nat /\ p < MaxContext
  BY InputsAssumption, SizesAssumption DEF Submit, AcceptsPrompt
<1>2. eff \in Nat /\ p + eff <= MaxContext
  BY <1>1
<1>3. fits_ever(p, eff)
  BY DEF Submit
<1>4. /\ prompt_len' = [prompt_len EXCEPT ![r] = p]
      /\ max_new' = [max_new EXCEPT ![r] = eff]
      /\ state' = [state EXCEPT ![r] = "WAITING"]
      /\ UNCHANGED <<cfg, out_len, finish_reason, cached, running>>
      /\ state[r] = "new"
  BY DEF Submit
<1> HIDE DEF eff
<1>5. UnitsFor(p + eff) <= cfg.num_blocks
  <2>1. cfg.num_blocks \in Nat \ {0} /\ cfg.backend \in {"paged", "contiguous"}
    BY ConfigsAssumption DEF TypeOK, MemoryTypeOK, EngineConfig
  <2>2. QED
    BY <1>3, <2>1 DEF fits_ever, UnitsFor
<1>6. worst_len(r)' = p + eff
  BY <1>4 DEF worst_len, TypeOK
<1>7. \A q \in Requests : q # r =>
        worst_len(q)' = worst_len(q) /\ seq_len(q)' = seq_len(q)
  BY <1>4 DEF worst_len, seq_len, TypeOK
<1>8. \A n : UnitsFor(n)' = UnitsFor(n)
  BY <1>4 DEF UnitsFor, blocks_needed
<1>9. \A q \in Requests : state'[q] # "new" =>
        /\ worst_len(q)' <= MaxContext
        /\ UnitsFor(worst_len(q))' <= cfg'.num_blocks
        /\ ~finished(q)' => out_len'[q] = 0 \/ out_len'[q] < max_new'[q]
  <2> SUFFICES ASSUME NEW q \in Requests, state'[q] # "new"
               PROVE  /\ worst_len(q)' <= MaxContext
                      /\ UnitsFor(worst_len(q))' <= cfg'.num_blocks
                      /\ ~finished(q)' =>
                           out_len'[q] = 0 \/ out_len'[q] < max_new'[q]
    OBVIOUS
  <2>1. CASE q = r
    <3>1. UnitsFor(worst_len(r))' = UnitsFor(p + eff)
      BY <1>4, <1>6 DEF UnitsFor, blocks_needed
    <3>2. out_len'[r] = 0
      BY <1>4 DEF TokenInv
    <3>3. QED
      BY <1>2, <1>4, <1>5, <1>6, <2>1, <3>1, <3>2
  <2>2. CASE q # r
    <3>1. state'[q] = state[q] /\ max_new'[q] = max_new[q]
      BY <1>4, <2>2 DEF TypeOK
    <3>2. UnitsFor(worst_len(q))' = UnitsFor(worst_len(q))
      BY <1>4, <1>7, <2>2 DEF UnitsFor, blocks_needed
    <3>3. finished(q)' = finished(q)
      BY <1>4 DEF finished
    <3>4. QED
      BY <1>4, <1>7, <2>2, <3>1, <3>2, <3>3 DEF LimitInv
  <2>3. QED
    BY <2>1, <2>2
<1>10. \A q \in running' : ~finished(q)' => cached'[q] + 1 = seq_len(q)'
  <2>1. r \notin running /\ running \subseteq Requests
    BY <1>4 DEF StatesFollowLists, TypeOK
  <2>2. QED
    BY <1>4, <1>7, <2>1 DEF LimitInv, finished
<1>11. QED
  BY <1>9, <1>10 DEF LimitInv

(* _prefill and _decode emit one token for each row and cache all before it*)
LEMMA EmitLimits ==
  ASSUME TypeOK, LimitInv, NEW S \in SUBSET Requests, NEW stops, Emit(S, stops),
         UNCHANGED <<cfg, prompt_len, max_new>>,
         \A r \in Requests : state'[r] # "new" => state[r] # "new",
         running' \subseteq Requests,
         \A r \in running' \ S : r \in running /\ cached'[r] = cached[r],
         \A r \in running' \cap S : cached'[r] = seq_len(r)
  PROVE  LimitInv'
<1>1. \A r \in Requests : worst_len(r)' = worst_len(r)
  BY DEF worst_len
<1>2. \A r \in Requests : state'[r] # "new" =>
        /\ worst_len(r)' <= MaxContext
        /\ UnitsFor(worst_len(r))' <= cfg'.num_blocks
  <2>1. \A r \in Requests : UnitsFor(worst_len(r))' = UnitsFor(worst_len(r))
    BY <1>1 DEF UnitsFor, blocks_needed
  <2>2. QED
    BY <1>1, <2>1 DEF LimitInv
<1>3. \A r \in Requests : state'[r] # "new" /\ ~finished(r)' =>
        out_len'[r] = 0 \/ out_len'[r] < max_new'[r]
  BY EmitOne DEF LimitInv, finished
<1>4. \A r \in running' : ~finished(r)' => cached'[r] + 1 = seq_len(r)'
  <2> SUFFICES ASSUME NEW r \in running', ~finished(r)'
               PROVE  cached'[r] + 1 = seq_len(r)'
    OBVIOUS
  <2>1. CASE r \in S
    <3>1. out_len'[r] = out_len[r] + 1 /\ cached'[r] = prompt_len[r] + out_len[r]
      BY <2>1, EmitOne DEF seq_len
    <3>2. QED
      BY <3>1 DEF seq_len, TypeOK
  <2>2. CASE r \notin S
    <3>1. out_len'[r] = out_len[r] /\ finish_reason'[r] = finish_reason[r]
      BY <2>2, EmitOne
    <3>2. QED
      BY <2>2, <3>1 DEF seq_len, finished, LimitInv
  <2>3. QED
    BY <2>1, <2>2
<1>5. QED
  BY <1>2, <1>3, <1>4 DEF LimitInv

(* Everything else leaves the lengths alone and only shortens `running`,   *)
(* finishes requests or forgets what a leaving one had cached.             *)
LEMMA OtherLimits ==
  ASSUME TypeOK, LimitInv, UNCHANGED <<cfg, prompt_len, max_new, out_len>>,
         \A r \in Requests : state'[r] # "new" => state[r] # "new",
         \A r \in Requests : finished(r) => finished(r)',
         running' \subseteq running,
         \A r \in running' : cached'[r] = cached[r]
  PROVE  LimitInv'
<1>1. \A r \in Requests : /\ worst_len(r)' = worst_len(r)
                          /\ seq_len(r)' = seq_len(r)
                          /\ UnitsFor(worst_len(r))' = UnitsFor(worst_len(r))
  BY DEF worst_len, seq_len, UnitsFor, blocks_needed
<1>2. \A r \in Requests : state'[r] # "new" =>
        /\ worst_len(r)' <= MaxContext
        /\ UnitsFor(worst_len(r))' <= cfg'.num_blocks
        /\ ~finished(r)' => out_len'[r] = 0 \/ out_len'[r] < max_new'[r]
  BY <1>1 DEF LimitInv
<1>3. \A r \in running' : ~finished(r)' => cached'[r] + 1 = seq_len(r)'
  BY <1>1 DEF LimitInv, TypeOK
<1>4. QED
  BY <1>2, <1>3 DEF LimitInv

LEMMA LimitStep == SeatInv /\ TokenInv /\ LimitInv /\ [Next]_vars => LimitInv'
<1> SUFFICES ASSUME SeatInv, TokenInv, LimitInv, [Next]_vars PROVE LimitInv'
  OBVIOUS
<1>0. TypeOK /\ TypeOK'
  BY TypeStep DEF SeatInv
<1>1. CASE UNCHANGED vars
  BY <1>0, <1>1, OtherLimits DEF vars, threadVars, requestVars, finished
<1>2. ASSUME NEW r \in Requests, NEW p \in PromptLens, NEW m \in MaxNewTokens,
             Submit(r, p, m)
      PROVE  LimitInv'
  <2>1. StatesFollowLists
    BY <1>2 DEF Submit, SeatInv, SeatsAgree
  <2>2. QED
    BY <1>0, <1>2, <2>1, SubmitLimits
<1>3. ASSUME NEW r \in Impatient, Disconnect(r) \/ SetCancelled(r)
      PROVE  LimitInv'
  BY <1>0, <1>3, OtherLimits DEF Disconnect, SetCancelled, threadVars, finished
<1>4. CASE BeginStep
  <2>1. \A r \in Requests : finished(r) => finished(r)'
    BY <1>4 DEF BeginStep, finished
  <2>2. QED
    BY <1>0, <1>4, <2>1, OtherLimits DEF BeginStep
<1>5. ASSUME NEW r \in Requests, Retire(r) PROVE LimitInv'
  <2>1. \A q \in Requests : state'[q] # "new" => state[q] # "new"
    <3>1. state[r] # "new"
      BY <1>5 DEF Retire, Oldest, SeatInv, SeatsAgree, StatesFollowLists
    <3>2. QED
      BY <1>0, <1>5, <3>1 DEF Retire, TypeOK
  <2>2. \A q \in running' : cached'[q] = cached[q]
    BY <1>0, <1>5 DEF Retire, TypeOK
  <2>3. QED
    BY <1>0, <1>5, <2>1, <2>2, OtherLimits DEF Retire, finished
<1>6. CASE EndRetire \/ EndAdmit \/ OutOfBlocks
  BY <1>0, <1>6, OtherLimits
  DEF EndRetire, EndAdmit, OutOfBlocks, requestVars, finished
<1>7. ASSUME NEW r \in Requests, Admit(r) \/ AdmitAsserts(r) PROVE LimitInv'
  BY <1>0, <1>7, OtherLimits DEF Admit, AdmitAsserts, requestVars, finished
<1>8. CASE Prefill
  <2>1. PICK stops \in SUBSET batch : Emit(batch, stops)
    BY <1>8 DEF Prefill
  <2>2. \A r \in Requests : state'[r] # "new" => state[r] # "new"
    BY <1>0, <1>8 DEF Prefill, SeatInv, TypeOK
  <2>3. /\ \A r \in running' \ batch : r \in running /\ cached'[r] = cached[r]
        /\ \A r \in running' \cap batch : cached'[r] = seq_len(r)
        /\ batch \in SUBSET Requests /\ running' \subseteq Requests
    BY <1>0, <1>8 DEF Prefill, PrefillTokens, seq_len, TypeOK
  <2>4. QED
    BY <1>0, <1>8, <2>1, <2>2, <2>3, EmitLimits DEF Prefill
<1>9. CASE BeginDecode \/ AppendSlot
  BY <1>0, <1>9, OtherLimits DEF BeginDecode, AppendSlot, requestVars, finished
<1>10. CASE Preempt
  <2>1. PICK v \in 1..Len(active) :
          /\ running' = running \ {active[v]}
          /\ state' = [state EXCEPT ![active[v]] = "WAITING"]
          /\ cached' = [cached EXCEPT ![active[v]] = 0]
    BY <1>10 DEF Preempt
  <2>2. PICK victim \in Requests : victim = active[v]
    BY <1>0 DEF TypeOK
  <2>3. state[victim] # "new"
    <3>1. victim \in running
      BY <1>10, <2>2 DEF Preempt, SeatInv, RowsRunning, Rows
    <3>2. QED
      BY <1>10, <3>1 DEF Preempt, SeatInv, SeatsAgree, StatesFollowLists
  <2>4. /\ running' = running \ {victim}
        /\ state' = [state EXCEPT ![victim] = "WAITING"]
        /\ cached' = [cached EXCEPT ![victim] = 0]
    BY <2>1, <2>2
  <2>5. /\ \A q \in Requests : state'[q] # "new" => state[q] # "new"
        /\ \A q \in running' : cached'[q] = cached[q]
    BY <1>0, <2>3, <2>4 DEF TypeOK
  <2>6. QED
    BY <1>0, <1>10, <2>4, <2>5, OtherLimits DEF Preempt, finished
<1>11. CASE DecodeStep
  <2>1. PICK stops \in SUBSET Rows : Emit(Rows, stops)
    BY <1>11 DEF DecodeStep
  <2>2. Rows \in SUBSET Requests
    BY <1>0, <1>11 DEF DecodeStep, TokenInv, Unfinished, TypeOK
  <2>3. /\ \A r \in Requests :
             cached'[r] = IF r \in Rows THEN seq_len(r) ELSE cached[r]
        /\ running' = running /\ state' = state
        /\ UNCHANGED <<cfg, prompt_len, max_new>>
    BY <1>11 DEF DecodeStep
  <2>4. running \subseteq Requests
    BY <1>0 DEF TypeOK
  <2>5. QED
    BY <1>0, <2>1, <2>2, <2>3, <2>4, EmitLimits
<1>12. QED
  BY <1>1, <1>2, <1>3, <1>4, <1>5, <1>6, <1>7, <1>8, <1>9, <1>10, <1>11
  DEF Next, EngineStep, ApiStep, Idle

LEMMA LimitInit == Init => LimitInv
BY DEF Init, LimitInv
-----------------------------------------------------------------------------
(* The memory of the admitted requests matches their lengths.              *)

(* A running request holds the units of what it has cached and no more     *)
(* than those of its worst case, one in the popped batch exactly those of  *)
(* its prefill, a row before i those of its next token; and an eviction is *)
(* on only when the list is empty and row i is still short.                *)
RoomInv ==
  /\ \A r \in running :
       /\ Len(block_table[r]) <= UnitsFor(worst_len(r))
       /\ ~finished(r) => UnitsFor(cached[r]) <= Len(block_table[r])
  /\ pc \in {"admit", "prefill"} =>
       \A r \in batch : Len(block_table[r]) = UnitsFor(seq_len(r))
  /\ pc \in {"ensure", "evict"} =>
       /\ i <= Len(active) + 1
       /\ \A j \in 1..(i - 1) :
            UnitsFor(seq_len(active[j])) <= Len(block_table[active[j]])
  /\ pc = "evict" =>
       /\ i <= Len(active) /\ free_blocks = <<>>
       /\ UnitsFor(seq_len(active[i])) > Len(block_table[active[i]])

(* The three invariants about tokens and lengths, on top of the agreement  *)
(* of lists, memory and seats.                                             *)
LengthInv == SeatInv /\ TokenInv /\ LimitInv

(* An unfinished request that holds memory is within its worst case.       *)
LEMMA WithinWorstCase ==
  ASSUME LengthInv, NEW r \in Requests, state[r] # "new", ~finished(r)
  PROVE  /\ seq_len(r) \in Nat /\ worst_len(r) \in Nat
         /\ seq_len(r) <= worst_len(r)
         /\ UnitsFor(seq_len(r)) \in Nat /\ UnitsFor(worst_len(r)) \in Nat
         /\ UnitsFor(seq_len(r)) <= UnitsFor(worst_len(r))
<1>1. TypeOK /\ (out_len[r] = 0 \/ out_len[r] < max_new[r])
  BY DEF LengthInv, SeatInv, LimitInv
<1>2. seq_len(r) \in Nat /\ worst_len(r) \in Nat /\ seq_len(r) <= worst_len(r)
  BY <1>1 DEF seq_len, worst_len, TypeOK
<1>3. QED
  BY <1>2, UnitsOrder

(* Steps that leave the memory, the tokens and the rows alone.             *)
LEMMA OtherRoom ==
  ASSUME TypeOK, RoomInv,
         UNCHANGED <<cfg, block_table, prompt_len, max_new, out_len>>,
         \A r \in Requests : finished(r) => finished(r)',
         running' \subseteq running,
         \A r \in running' : cached'[r] = cached[r],
         pc' \in {"admit", "prefill"} =>
           \/ batch' = {}
           \/ pc \in {"admit", "prefill"} /\ batch' = batch,
         pc' \in {"ensure", "evict"} =>
           UNCHANGED <<pc, free_blocks, active, i>>
  PROVE  RoomInv'
<1>1. \A r \in Requests : /\ worst_len(r)' = worst_len(r)
                          /\ seq_len(r)' = seq_len(r)
  BY DEF worst_len, seq_len
<1>3. \A r \in running' : /\ Len(block_table'[r]) <= UnitsFor(worst_len(r))'
                          /\ ~finished(r)' => UnitsFor(cached[r])' <= Len(block_table'[r])
  <2> SUFFICES ASSUME NEW r \in running'
               PROVE  /\ Len(block_table'[r]) <= UnitsFor(worst_len(r))'
                      /\ ~finished(r)' =>
                           UnitsFor(cached[r])' <= Len(block_table'[r])
    OBVIOUS
  <2>1. UnitsFor(worst_len(r))' = UnitsFor(worst_len(r))
        /\ UnitsFor(cached[r])' = UnitsFor(cached[r])
    BY <1>1 DEF UnitsFor, blocks_needed, TypeOK
  <2>2. QED
    BY <2>1 DEF RoomInv, TypeOK
<1>4. \A r \in Requests : UnitsFor(seq_len(r))' = UnitsFor(seq_len(r))
  BY <1>1 DEF UnitsFor, blocks_needed
<1>5. pc' \in {"admit", "prefill"} =>
        \A r \in batch' : Len(block_table'[r]) = UnitsFor(seq_len(r))'
  BY <1>4 DEF RoomInv, TypeOK
<1>6. pc' \in {"ensure", "evict"} =>
        /\ i' <= Len(active') + 1
        /\ \A j \in 1..(i' - 1) :
             UnitsFor(seq_len(active[j]))' <= Len(block_table'[active'[j]])
  <2> SUFFICES ASSUME pc' \in {"ensure", "evict"}
               PROVE  /\ i <= Len(active) + 1
                      /\ \A j \in 1..(i - 1) :
                           UnitsFor(seq_len(active[j]))'
                             <= Len(block_table[active[j]])
    OBVIOUS
  <2>1. \A j \in 1..(i - 1) :
          UnitsFor(seq_len(active[j]))' = UnitsFor(seq_len(active[j]))
    BY DEF UnitsFor, blocks_needed, seq_len
  <2>2. QED
    BY <2>1 DEF RoomInv
<1>7. pc' = "evict" =>
        /\ i' <= Len(active') /\ free_blocks' = <<>>
        /\ UnitsFor(seq_len(active[i]))' > Len(block_table'[active'[i']])
  BY DEF UnitsFor, blocks_needed, seq_len, RoomInv
<1>8. QED
  BY <1>3, <1>5, <1>6, <1>7 DEF RoomInv

(* What is known of a row of the decode.                                   *)
LEMMA RowFacts ==
  ASSUME LengthInv, RoomInv, pc \in {"ensure", "evict"},
         NEW r \in Requests, r \in Rows
  PROVE  /\ r \in running /\ ~finished(r) /\ state[r] # "new"
         /\ cached[r] \in Nat /\ seq_len(r) = cached[r] + 1
         /\ seq_len(r) \in Nat /\ worst_len(r) \in Nat
         /\ Len(block_table[r]) \in Nat
         /\ UnitsFor(seq_len(r)) \in Nat /\ UnitsFor(worst_len(r)) \in Nat
         /\ UnitsFor(seq_len(r)) <= UnitsFor(worst_len(r))
         /\ UnitsFor(seq_len(r)) <= Len(block_table[r]) + 1
         /\ Len(block_table[r]) <= UnitsFor(worst_len(r))
         /\ cfg.backend = "contiguous" =>
              Len(block_table[r]) = 1 /\ UnitsFor(seq_len(r)) = 1
<1>1. TypeOK
  BY DEF LengthInv, SeatInv
<1>2. r \in running /\ ~finished(r)
  BY DEF LengthInv, TokenInv, Unfinished
<1>3. state[r] # "new"
  BY <1>2 DEF LengthInv, SeatInv, SeatsAgree, StatesFollowLists
<1>4. cached[r] \in Nat /\ seq_len(r) = cached[r] + 1
  BY <1>1, <1>2 DEF LengthInv, LimitInv, TypeOK
<1>5. /\ seq_len(r) \in Nat /\ worst_len(r) \in Nat
      /\ UnitsFor(seq_len(r)) \in Nat /\ UnitsFor(worst_len(r)) \in Nat
      /\ UnitsFor(seq_len(r)) <= UnitsFor(worst_len(r))
  BY <1>2, <1>3, WithinWorstCase
<1>6. /\ UnitsFor(cached[r]) \in Nat
      /\ UnitsFor(cached[r] + 1) <= UnitsFor(cached[r]) + 1
  BY <1>4, UnitsOrder
<1>7. /\ Len(block_table[r]) \in Nat
      /\ Len(block_table[r]) <= UnitsFor(worst_len(r))
      /\ UnitsFor(cached[r]) <= Len(block_table[r])
  BY <1>1, <1>2, ListLengths DEF RoomInv
<1>8. UnitsFor(seq_len(r)) <= Len(block_table[r]) + 1
  BY <1>4, <1>5, <1>6, <1>7
<1>9. ASSUME cfg.backend = "contiguous"
      PROVE  Len(block_table[r]) = 1 /\ UnitsFor(seq_len(r)) = 1
  <2>1. /\ UnitsFor(seq_len(r)) = 1 /\ UnitsFor(cached[r]) = 1
        /\ UnitsFor(worst_len(r)) = 1
    BY <1>9 DEF UnitsFor
  <2>2. QED
    BY <1>7, <2>1
<1>10. QED
  BY <1>2, <1>3, <1>4, <1>5, <1>7, <1>8, <1>9

(* Row i gets its block, or the rest of an empty list.                     *)
LEMMA AppendRoom ==
  ASSUME LengthInv, RoomInv, LimitInv', TypeOK', AppendSlot
  PROVE  RoomInv'
<1> TypeOK
  BY DEF LengthInv, SeatInv
<1>0. TypeOK /\ i \in Nat \ {0} /\ Len(active) \in Nat
  BY DEF TypeOK
<1>1. i \in 1..Len(active) /\ active \in Seq(Requests)
  BY <1>0 DEF AppendSlot, TypeOK
<1>2. PICK r \in Requests : r = active[i]
  BY <1>1
<1>3. r \in Rows /\ pc = "ensure"
  BY <1>1, <1>2 DEF Rows, AppendSlot
<1>4. /\ append_slot(r, seq_len(r))
      /\ IF AppendSucceeds(r, seq_len(r))
           THEN i' = i + 1 /\ pc' = "ensure" ELSE i' = i /\ pc' = "evict"
      /\ UNCHANGED <<cfg, waiting, running, batch, active, requestVars>>
  BY <1>2 DEF AppendSlot
<1> DEFINE u == UnitsFor(seq_len(r))
           l == Len(block_table[r])
           f == Len(free_blocks)
<1>5. /\ r \in running /\ u \in Nat /\ l \in Nat /\ f \in Nat
      /\ u <= UnitsFor(worst_len(r)) /\ UnitsFor(worst_len(r)) \in Nat
      /\ l <= UnitsFor(worst_len(r)) /\ u <= l + 1
      /\ cfg.backend = "contiguous" => l = 1
  BY <1>0, <1>3, RowFacts, ListLengths
<1>6. /\ \A q \in Requests : q # r => block_table'[q] = block_table[q]
      /\ AppendSucceeds(r, seq_len(r)) =>
           Len(block_table'[r]) = IF u > l THEN u ELSE l
      /\ ~AppendSucceeds(r, seq_len(r)) =>
           /\ Len(block_table'[r]) = l + f
           /\ Len(block_table'[r]) < u
           /\ free_blocks' = <<>>
  BY <1>0, <1>4, <1>5, AppendLengths
<1>7. \A q \in Requests : /\ UnitsFor(seq_len(q))' = UnitsFor(seq_len(q))
                          /\ UnitsFor(worst_len(q))' = UnitsFor(worst_len(q))
                          /\ UnitsFor(cached[q])' = UnitsFor(cached[q])
                          /\ finished(q)' = finished(q)
  BY <1>4 DEF UnitsFor, blocks_needed, seq_len, worst_len, finished, requestVars
<1> HIDE DEF u, l, f
<1>8. /\ Len(block_table'[r]) >= l
      /\ Len(block_table'[r]) <= UnitsFor(worst_len(r))
  <2>1. CASE AppendSucceeds(r, seq_len(r))
    BY <1>5, <1>6, <2>1
  <2>2. CASE ~AppendSucceeds(r, seq_len(r))
    BY <1>5, <1>6, <2>2
  <2>3. QED
    BY <2>1, <2>2
<1>9. \A q \in running' :
        /\ Len(block_table'[q]) <= UnitsFor(worst_len(q))'
        /\ ~finished(q)' => UnitsFor(cached[q])' <= Len(block_table'[q])
  <2> SUFFICES ASSUME NEW q \in running
               PROVE  /\ Len(block_table'[q]) <= UnitsFor(worst_len(q))
                      /\ ~finished(q) => UnitsFor(cached[q]) <= Len(block_table'[q])
    BY <1>0, <1>4, <1>7 DEF TypeOK
  <2>1. CASE q = r
    <3>1. UnitsFor(cached[r]) \in Nat /\ Len(block_table'[r]) \in Nat
      <4>1. cached[r] \in Nat
        BY <1>0 DEF TypeOK
      <4>2. block_table'[r] \in Seq(Blocks')
        BY DEF TypeOK, MemoryTypeOK
      <4>3. Len(block_table'[r]) \in Nat
        BY <4>2
      <4>4. cached[r] <= cached[r]
        BY <4>1
      <4>5. UnitsFor(cached[r]) \in Nat
        BY <4>1, <4>4, UnitsOrder
      <4>6. QED
        BY <4>3, <4>5
    <3>2. ~finished(r) => UnitsFor(cached[r]) <= l
      BY <1>5 DEF RoomInv, l
    <3>3. QED
      BY <1>5, <1>8, <2>1, <3>1, <3>2
  <2>2. CASE q # r
    BY <1>0, <1>6, <2>2 DEF RoomInv, TypeOK
  <2>3. QED
    BY <2>1, <2>2
<1>10. \A j \in 1..(i - 1) :
         UnitsFor(seq_len(active[j]))' <= Len(block_table'[active'[j]])
  <2> SUFFICES ASSUME NEW j \in 1..(i - 1)
               PROVE  UnitsFor(seq_len(active[j]))' <= Len(block_table'[active'[j]])
    OBVIOUS
  <2>1. j \in 1..Len(active) /\ j # i
    BY <1>0, <1>1
  <2>2. active[j] \in Requests /\ active[j] # r
    BY <1>1, <1>2, <1>3, <2>1 DEF LengthInv, SeatInv, RowsRunning
  <2>3. UnitsFor(seq_len(active[j]))' = UnitsFor(seq_len(active[j]))
    BY <1>4, <1>7, <2>2 DEF UnitsFor, blocks_needed, seq_len, requestVars
  <2>4. UnitsFor(seq_len(active[j])) <= Len(block_table[active[j]])
    BY <1>3 DEF RoomInv
  <2>5. QED
    BY <1>4, <1>6, <2>2, <2>3, <2>4
<1>11. UnitsFor(seq_len(r))' = u
  BY <1>7 DEF u
<1>12. CASE AppendSucceeds(r, seq_len(r))
  <2>1. i' = i + 1 /\ pc' = "ensure" /\ active' = active
    BY <1>4, <1>12
  <2>2. u <= Len(block_table'[active[i]])
    BY <1>2, <1>5, <1>6, <1>12
  <2>3. \A j \in 1..(i' - 1) :
          UnitsFor(seq_len(active[j]))' <= Len(block_table'[active'[j]])
    <3> SUFFICES ASSUME NEW j \in 1..(i' - 1)
                 PROVE  UnitsFor(seq_len(active[j]))' <= Len(block_table'[active'[j]])
      OBVIOUS
    <3>1. j \in 1..(i - 1) \/ j = i
      BY <1>0, <2>1
    <3>2. CASE j \in 1..(i - 1)
      BY <1>10, <3>2
    <3>3. CASE j = i
      <4>1. active'[j] = r
        BY <1>2, <2>1, <3>3
      <4>2. UnitsFor(seq_len(active[j]))' = UnitsFor(seq_len(r))'
        BY <4>1 DEF UnitsFor, blocks_needed, seq_len
      <4>3. QED
        BY <1>2, <1>11, <2>2, <4>1, <4>2
    <3>4. QED
      BY <3>1, <3>2, <3>3
  <2>4. i' <= Len(active') + 1
    BY <1>0, <1>1, <2>1
  <2>5. QED
    BY <1>9, <2>1, <2>3, <2>4 DEF RoomInv
<1>13. CASE ~AppendSucceeds(r, seq_len(r))
  <2>1. i' = i /\ pc' = "evict" /\ active' = active
    BY <1>4, <1>13
  <2>2. UnitsFor(seq_len(active[i]))' > Len(block_table'[active'[i']])
    <3>1. active'[i'] = r
      BY <1>2, <2>1
    <3>2. UnitsFor(seq_len(active[i]))' = UnitsFor(seq_len(r))'
      BY <3>1 DEF UnitsFor, blocks_needed, seq_len
    <3>3. Len(block_table'[r]) < u /\ Len(block_table'[r]) \in Nat
      BY <1>5, <1>6, <1>13
    <3>4. QED
      BY <1>5, <1>11, <3>1, <3>2, <3>3
  <2>3. i' <= Len(active') /\ i' <= Len(active') + 1
    BY <1>0, <1>1, <2>1
  <2>4. QED
    BY <1>6, <1>9, <1>10, <1>13, <2>1, <2>2, <2>3 DEF RoomInv
<1>14. QED
  BY <1>12, <1>13

(* A running request keeps its part of RoomInv when its table, its lengths *)
(* and its cache stay.                                                     *)
LEMMA SameRoom ==
  ASSUME RoomInv, UNCHANGED <<cfg, prompt_len, max_new>>,
         NEW r \in Requests, r \in running, block_table'[r] = block_table[r],
         cached'[r] = cached[r], finished(r) => finished(r)'
  PROVE  /\ Len(block_table'[r]) <= UnitsFor(worst_len(r))'
         /\ ~finished(r)' => UnitsFor(cached[r])' <= Len(block_table'[r])
<1>1. UnitsFor(worst_len(r))' = UnitsFor(worst_len(r))
      /\ UnitsFor(cached[r])' = UnitsFor(cached[r])
  BY DEF UnitsFor, blocks_needed, worst_len
<1>2. QED
  BY <1>1 DEF RoomInv

(* What is freed belongs to a request that leaves.                         *)
LEMMA RetireRoom ==
  ASSUME LengthInv, RoomInv, NEW r \in Requests, Retire(r)
  PROVE  RoomInv'
<1>1. TypeOK /\ running \subseteq Requests
  BY DEF LengthInv, SeatInv, TypeOK
<1>2. /\ running' = running \ {r} /\ pc' = "retire" /\ free(r)
      /\ cached' = [cached EXCEPT ![r] = 0]
      /\ UNCHANGED <<cfg, prompt_len, max_new, out_len, finish_reason>>
  BY DEF Retire
<1>3. \A q \in running' : /\ q \in running /\ q \in Requests
                          /\ block_table'[q] = block_table[q]
                          /\ cached'[q] = cached[q]
                          /\ finished(q)' = finished(q)
  BY <1>1, <1>2, FreeLengths DEF TypeOK, finished
<1>4. \A q \in running' :
        /\ Len(block_table'[q]) <= UnitsFor(worst_len(q))'
        /\ ~finished(q)' => UnitsFor(cached[q])' <= Len(block_table'[q])
  BY <1>2, <1>3, SameRoom
<1>5. QED
  BY <1>2, <1>4 DEF RoomInv

(* allocate takes the blocks of the prefill.                               *)
LEMMA AdmitRoom ==
  ASSUME LengthInv, RoomInv, NEW r \in Requests, Admit(r)
  PROVE  RoomInv'
<1>1. TypeOK /\ running \subseteq Requests /\ batch \subseteq Requests
  BY DEF LengthInv, SeatInv, TypeOK
<1>2. /\ pc = "admit" /\ pc' = "admit" /\ r \in waiting
      /\ AllocateAsserts(seq_len(r))
      /\ allocate(r, seq_len(r), worst_len(r))
      /\ batch' = batch \cup {r} /\ running' = running
      /\ UNCHANGED <<cfg, prompt_len, max_new, out_len, finish_reason, cached>>
  BY DEF Admit, Admissible, IsHead
<1>3. r \notin running /\ r \notin batch
  BY <1>2 DEF LengthInv, SeatInv, SeatsAgree, QueuedOnce, Admitted
<1>4. /\ Len(block_table'[r]) = UnitsFor(seq_len(r))
      /\ \A q \in Requests : q # r => block_table'[q] = block_table[q]
  BY <1>1, <1>2, AllocateLengths
<1>5. \A q \in running' :
        /\ Len(block_table'[q]) <= UnitsFor(worst_len(q))'
        /\ ~finished(q)' => UnitsFor(cached[q])' <= Len(block_table'[q])
  BY <1>1, <1>2, <1>3, <1>4, SameRoom DEF finished
<1>6. \A q \in Requests : UnitsFor(seq_len(q))' = UnitsFor(seq_len(q))
  BY <1>2 DEF UnitsFor, blocks_needed, seq_len
<1>7. \A q \in batch' : Len(block_table'[q]) = UnitsFor(seq_len(q))'
  <2>1. \A q \in batch : Len(block_table[q]) = UnitsFor(seq_len(q))
    BY <1>2 DEF RoomInv
  <2>2. QED
    BY <1>1, <1>2, <1>3, <1>4, <1>6, <2>1
<1>8. QED
  BY <1>2, <1>5, <1>7 DEF RoomInv

(* A prefill caches what the batch was given memory for.                   *)
LEMMA PrefillRoom ==
  ASSUME LengthInv, RoomInv, Prefill
  PROVE  RoomInv'
<1>1. TypeOK /\ running \subseteq Requests /\ batch \subseteq Requests
  BY DEF LengthInv, SeatInv, TypeOK
<1>2. /\ pc = "prefill" /\ pc' = "decode"
      /\ running' = running \cup batch
      /\ UNCHANGED <<cfg, block_table, prompt_len, max_new>>
      /\ \A r \in Requests :
           cached'[r] = IF r \in batch THEN seq_len(r) ELSE cached[r]
  BY DEF Prefill, PrefillTokens, memoryVars, seq_len
<1>3. \A r \in Requests \ batch : finish_reason'[r] = finish_reason[r]
  <2>1. PICK stops \in SUBSET batch : Emit(batch, stops)
    BY DEF Prefill
  <2>2. QED
    BY <2>1 DEF Emit
<1>4. ASSUME NEW r \in batch
      PROVE  /\ Len(block_table'[r]) <= UnitsFor(worst_len(r))'
             /\ UnitsFor(cached[r])' <= Len(block_table'[r])
  <2>1. r \in Requests /\ ~finished(r) /\ state[r] # "new"
    BY <1>1, <1>2 DEF LengthInv, TokenInv, SeatInv
  <2>2. /\ UnitsFor(seq_len(r)) \in Nat
        /\ UnitsFor(seq_len(r)) <= UnitsFor(worst_len(r))
    BY <2>1, WithinWorstCase
  <2>3. Len(block_table[r]) = UnitsFor(seq_len(r))
    BY <1>2 DEF RoomInv
  <2>4. cached'[r] = seq_len(r)
    BY <1>2, <2>1
  <2>5. /\ UnitsFor(worst_len(r))' = UnitsFor(worst_len(r))
        /\ UnitsFor(cached[r])' = UnitsFor(seq_len(r))
    BY <1>2, <2>4 DEF UnitsFor, blocks_needed, worst_len
  <2>6. QED
    BY <1>2, <2>2, <2>3, <2>5
<1>5. ASSUME NEW r \in running, r \notin batch
      PROVE  /\ Len(block_table'[r]) <= UnitsFor(worst_len(r))'
             /\ ~finished(r)' => UnitsFor(cached[r])' <= Len(block_table'[r])
  <2>1. r \in Requests /\ cached'[r] = cached[r] /\ finished(r) = finished(r)'
    BY <1>1, <1>2, <1>3, <1>5 DEF finished
  <2>2. QED
    BY <1>2, <2>1, SameRoom
<1>6. QED
  BY <1>2, <1>4, <1>5 DEF RoomInv

(* The rows move up, and so does i when the evicted one was before it.     *)
LEMMA PreemptRoom ==
  ASSUME LengthInv, RoomInv, Preempt
  PROVE  RoomInv'
<1>1. PICK v \in 1..Len(active) :
        /\ active' = RemoveRow(active, v)
        /\ i' = RowAfterEviction(v)
        /\ free(active[v])
        /\ running' = running \ {active[v]}
        /\ cached' = [cached EXCEPT ![active[v]] = 0]
  BY DEF Preempt
<1>2. /\ TypeOK /\ active \in Seq(Requests) /\ running \subseteq Requests
      /\ i \in Nat \ {0} /\ Len(active) \in Nat
  <2>1. TypeOK
    BY DEF LengthInv, SeatInv
  <2>2. QED
    BY <2>1 DEF TypeOK
<1>3. PICK victim \in Requests : victim = active[v]
  BY <1>2
<1>4. /\ pc = "evict" /\ pc' = "ensure"
      /\ UNCHANGED <<cfg, prompt_len, max_new, out_len, finish_reason>>
  BY DEF Preempt
<1>5. /\ free(victim) /\ running' = running \ {victim}
      /\ cached' = [cached EXCEPT ![victim] = 0]
  BY <1>1, <1>3
<1>6. \A q \in Requests : q # victim =>
        block_table'[q] = block_table[q] /\ cached'[q] = cached[q]
  BY <1>2, <1>5, FreeLengths DEF TypeOK
<1>7. \A q \in running' :
        /\ Len(block_table'[q]) <= UnitsFor(worst_len(q))'
        /\ ~finished(q)' => UnitsFor(cached[q])' <= Len(block_table'[q])
  BY <1>2, <1>4, <1>5, <1>6, SameRoom DEF finished
<1>8. /\ Len(active') = Len(active) - 1
      /\ \A j \in 1..(Len(active) - 1) :
           active'[j] = IF j < v THEN active[j] ELSE active[j + 1]
  BY <1>1, <1>2, RemoveRowType
<1>9. i <= Len(active)
  BY <1>4 DEF RoomInv
<1>10. i' = IF v < i THEN i - 1 ELSE i
  BY <1>1 DEF RowAfterEviction
<1>11. i' <= Len(active') + 1
  BY <1>2, <1>8, <1>9, <1>10
<1>12. ASSUME NEW j \in 1..(i' - 1)
       PROVE  UnitsFor(seq_len(active[j]))' <= Len(block_table'[active'[j]])
  <2>1. PICK k \in 1..(i - 1) : k # v /\ active'[j] = active[k]
    <3>1. CASE j < v
      <4>1. j \in 1..(i - 1) /\ j \in 1..(Len(active) - 1) /\ j # v
        BY <1>2, <1>9, <1>10, <3>1
      <4>2. QED
        BY <1>8, <3>1, <4>1
    <3>2. CASE ~(j < v)
      <4>1. /\ j + 1 \in 1..(i - 1) /\ j \in 1..(Len(active) - 1)
            /\ j + 1 # v
        BY <1>2, <1>9, <1>10, <3>2
      <4>2. QED
        BY <1>8, <3>2, <4>1
    <3>3. QED
      BY <3>1, <3>2
  <2>2. k \in 1..Len(active)
    BY <1>2, <1>9
  <2>3. active[k] # victim /\ active[k] \in Requests
    BY <1>2, <1>3, <1>4, <2>1, <2>2 DEF LengthInv, SeatInv, RowsRunning
  <2>4. UnitsFor(seq_len(active[k])) <= Len(block_table[active[k]])
    BY <1>4, <2>1 DEF RoomInv
  <2>5. UnitsFor(seq_len(active[j]))' = UnitsFor(seq_len(active[k]))
    BY <1>4, <2>1 DEF UnitsFor, blocks_needed, seq_len
  <2>6. QED
    BY <1>6, <2>1, <2>3, <2>4, <2>5
<1>13. QED
  BY <1>4, <1>7, <1>11, <1>12 DEF RoomInv

(* A decode caches the position every row has room for.                    *)
LEMMA DecodeRoom ==
  ASSUME LengthInv, RoomInv, DecodeStep
  PROVE  RoomInv'
<1>1. /\ pc = "ensure" /\ pc' = "loop" /\ i > Len(active)
      /\ running' = running
      /\ UNCHANGED <<cfg, block_table, prompt_len, max_new>>
      /\ \A r \in Requests :
           cached'[r] = IF r \in Rows THEN seq_len(r) ELSE cached[r]
  BY DEF DecodeStep, memoryVars
<1>2. \A r \in Requests \ Rows : finish_reason'[r] = finish_reason[r]
  <2>1. PICK stops \in SUBSET Rows : Emit(Rows, stops)
    BY DEF DecodeStep
  <2>2. QED
    BY <2>1 DEF Emit
<1>3. TypeOK
  BY DEF LengthInv, SeatInv
<1>4. running \subseteq Requests /\ i \in Nat /\ Len(active) \in Nat
  BY <1>3 DEF TypeOK
<1>5. ASSUME NEW r \in running, r \in Rows
      PROVE  /\ Len(block_table'[r]) <= UnitsFor(worst_len(r))'
             /\ UnitsFor(cached[r])' <= Len(block_table'[r])
  <2>1. PICK j \in 1..Len(active) : r = active[j]
    BY <1>5 DEF Rows
  <2>2. j \in 1..(i - 1)
    BY <1>1, <1>4
  <2>3. UnitsFor(seq_len(r)) <= Len(block_table[r])
    BY <1>1, <2>1, <2>2 DEF RoomInv
  <2>4. cached'[r] = seq_len(r)
    BY <1>1, <1>4, <1>5
  <2>5. /\ UnitsFor(worst_len(r))' = UnitsFor(worst_len(r))
        /\ UnitsFor(cached[r])' = UnitsFor(seq_len(r))
    BY <1>1, <2>4 DEF UnitsFor, blocks_needed, worst_len
  <2>6. QED
    BY <1>1, <2>3, <2>5 DEF RoomInv
<1>6. ASSUME NEW r \in running, r \notin Rows
      PROVE  /\ Len(block_table'[r]) <= UnitsFor(worst_len(r))'
             /\ ~finished(r)' => UnitsFor(cached[r])' <= Len(block_table'[r])
  <2>1. r \in Requests /\ cached'[r] = cached[r] /\ finished(r) = finished(r)'
    BY <1>1, <1>2, <1>4, <1>6 DEF finished
  <2>2. QED
    BY <1>1, <2>1, SameRoom
<1>7. QED
  BY <1>1, <1>5, <1>6 DEF RoomInv

LEMMA RoomStep == LengthInv /\ RoomInv /\ [Next]_vars => RoomInv'
<1> SUFFICES ASSUME LengthInv, RoomInv, [Next]_vars PROVE RoomInv'
  OBVIOUS
<1>0. TypeOK /\ TypeOK' /\ LimitInv'
  BY TypeStep, LimitStep DEF LengthInv, SeatInv
<1>1. CASE UNCHANGED vars
  BY <1>0, <1>1, OtherRoom
  DEF vars, threadVars, requestVars, memoryVars, finished
<1>2. ASSUME NEW r \in Requests, NEW p \in PromptLens, NEW m \in MaxNewTokens,
             Submit(r, p, m)
      PROVE  RoomInv'
  <2>1. r \notin running /\ running' = running /\ pc' = "loop"
    BY <1>2 DEF Submit, LengthInv, SeatInv, SeatsAgree, StatesFollowLists
  <2>2. \A q \in running :
          /\ q \in Requests
          /\ UnitsFor(worst_len(q))' = UnitsFor(worst_len(q))
          /\ UnitsFor(cached[q])' = UnitsFor(cached[q])
          /\ finished(q)' = finished(q) /\ block_table'[q] = block_table[q]
    BY <1>0, <1>2, <2>1 DEF Submit, UnitsFor, blocks_needed, worst_len, finished,
       memoryVars, TypeOK
  <2>3. QED
    BY <2>1, <2>2 DEF RoomInv
<1>3. ASSUME NEW r \in Impatient, Disconnect(r) \/ SetCancelled(r)
      PROVE  RoomInv'
  BY <1>0, <1>3, OtherRoom
  DEF Disconnect, SetCancelled, threadVars, memoryVars, finished
<1>4. CASE BeginStep
  <2>1. \A r \in Requests : finished(r) => finished(r)'
    BY <1>4 DEF BeginStep, finished
  <2>2. QED
    BY <1>0, <1>4, <2>1, OtherRoom DEF BeginStep, memoryVars
<1>5. ASSUME NEW r \in Requests, Retire(r) PROVE RoomInv'
  BY <1>5, RetireRoom
<1>6. CASE EndRetire \/ EndAdmit \/ OutOfBlocks
  BY <1>0, <1>6, OtherRoom
  DEF EndRetire, EndAdmit, OutOfBlocks, requestVars, memoryVars, finished,
      LengthInv, SeatInv
<1>7. ASSUME NEW r \in Requests, Admit(r) PROVE RoomInv'
  BY <1>7, AdmitRoom
<1>8. ASSUME NEW r \in Requests, AdmitAsserts(r) PROVE RoomInv'
  BY <1>0, <1>8, OtherRoom
  DEF AdmitAsserts, requestVars, memoryVars, finished
<1>9. CASE Prefill
  BY <1>9, PrefillRoom
<1>10. CASE BeginDecode
  <2>1. i' = 1 /\ pc' \in {"loop", "ensure"} /\ active' \in Seq(Requests)
        /\ running' = running
    BY <1>0, <1>10 DEF BeginDecode, TypeOK
  <2>2. \A r \in running :
          /\ r \in Requests /\ block_table'[r] = block_table[r]
          /\ cached'[r] = cached[r] /\ finished(r)' = finished(r)
    BY <1>0, <1>10 DEF BeginDecode, requestVars, memoryVars, finished, TypeOK
  <2>3. \A r \in running' :
          /\ Len(block_table'[r]) <= UnitsFor(worst_len(r))'
          /\ ~finished(r)' => UnitsFor(cached[r])' <= Len(block_table'[r])
    BY <1>10, <2>1, <2>2, SameRoom DEF BeginDecode, requestVars
  <2>4. i' <= Len(active') + 1 /\ 1..(i' - 1) = {}
    BY <2>1
  <2>5. QED
    BY <2>1, <2>3, <2>4 DEF RoomInv
<1>11. CASE AppendSlot
  BY <1>0, <1>11, AppendRoom
<1>12. CASE Preempt
  BY <1>12, PreemptRoom
<1>13. CASE DecodeStep
  BY <1>13, DecodeRoom
<1>14. QED
  BY <1>1, <1>2, <1>3, <1>4, <1>5, <1>6, <1>7, <1>8, <1>9, <1>10, <1>11, <1>12,
     <1>13
  DEF Next, EngineStep, ApiStep, Idle

LEMMA RoomInit == Init => RoomInv
BY DEF Init, RoomInv

LEMMA RoomInvariant == Spec => [](LengthInv /\ RoomInv)
<1>1. Init => LengthInv /\ RoomInv
  BY SeatInit, TokenInit, LimitInit, RoomInit DEF LengthInv
<1>2. LengthInv /\ RoomInv /\ [Next]_vars => LengthInv' /\ RoomInv'
  BY SeatStep, TokenStep, LimitStep, RoomStep DEF LengthInv
<1>3. QED
  BY <1>1, <1>2, PTL DEF Spec

(* The loop of _ensure_capacity leaves a decode batch in which every row   *)
(* has its block and its cache, whatever was evicted in the middle of it.  *)
THEOREM RowsAreReady == Spec => []RowsReady
<1>1. LengthInv /\ RoomInv => RowsReady
  <2> SUFFICES ASSUME LengthInv, RoomInv, pc \in {"ensure", "evict"}
               PROVE  /\ Rows = Unfinished
                      /\ \A j, k \in 1..Len(active) : active[j] = active[k] => j = k
                      /\ \A j \in 1..(i - 1) :
                           /\ HasRoom(active[j])
                           /\ cached[active[j]] = seq_len(active[j]) - 1
    BY DEF RowsReady
  <2>1. Rows = Unfinished
    BY DEF LengthInv, TokenInv
  <2>2. \A j, k \in 1..Len(active) : active[j] = active[k] => j = k
    BY DEF LengthInv, SeatInv, RowsRunning
  <2>3. TypeOK
    BY DEF LengthInv, SeatInv
  <2>4. ASSUME NEW j \in 1..(i - 1)
        PROVE  HasRoom(active[j]) /\ cached[active[j]] = seq_len(active[j]) - 1
    <3>1. j \in 1..Len(active)
      <4>1. i \in Nat /\ Len(active) \in Nat /\ i <= Len(active) + 1
        BY <2>3 DEF TypeOK, RoomInv
      <4>2. QED
        BY <4>1
    <3>2. PICK r \in Requests : r = active[j] /\ r \in Rows
      BY <2>3, <3>1 DEF TypeOK, Rows
    <3>3. /\ cached[r] \in Nat /\ seq_len(r) = cached[r] + 1 /\ seq_len(r) \in Nat
          /\ Len(block_table[r]) \in Nat /\ state[r] # "new" /\ ~finished(r)
          /\ cfg.backend = "contiguous" => Len(block_table[r]) = 1
      BY <3>2, RowFacts
    <3>4. UnitsFor(seq_len(r)) <= Len(block_table[r])
      BY <3>2 DEF RoomInv
    <3>5. CASE cfg.backend = "paged"
      <4>1. blocks_needed(seq_len(r)) <= Len(block_table[r])
        BY <3>4, <3>5 DEF UnitsFor
      <4>2. seq_len(r) <= Len(block_table[r]) * BlockSize
        BY <3>3, <4>1, BlocksNeededFits
      <4>3. QED
        BY <3>2, <3>3, <3>5, <4>2 DEF HasRoom
    <3>6. CASE cfg.backend # "paged"
      <4>1. cfg.backend = "contiguous"
        BY <2>3, <3>6, ConfigsAssumption DEF TypeOK, MemoryTypeOK, EngineConfig
      <4>2. seq_len(r) <= MaxContext
        <5>1. worst_len(r) <= MaxContext /\ MaxContext \in Nat
          BY <3>3, SizesAssumption DEF LengthInv, LimitInv
        <5>2. seq_len(r) <= worst_len(r) /\ worst_len(r) \in Nat
          BY <3>3, WithinWorstCase
        <5>3. QED
          BY <3>3, <5>1, <5>2
      <4>3. QED
        BY <3>2, <3>3, <4>1, <4>2 DEF HasRoom
    <3>7. QED
      BY <3>5, <3>6
  <2>5. QED
    BY <2>1, <2>2, <2>4
<1>2. QED
  BY <1>1, RoomInvariant, PTL
-----------------------------------------------------------------------------
(* Evictions spare a row.                                                  *)

(* Where an eviction is possible, either every running request is a row,   *)
(* or the headroom of this step's admissions still covers one more block   *)
(* for each row to come: then none is evicted at all.                      *)
SpareInv ==
  /\ pc \in {"admit", "prefill"} => Unfinished = running
  /\ pc = "prefill" => batch # {}
  /\ cfg.backend = "paged" /\ cfg.preemption =>
       /\ pc \in {"admit", "prefill"} /\ batch # {} =>
            Len(free_blocks) + 1 >= Cardinality(running) + Cardinality(batch)
       /\ pc = "decode" =>
            \/ Unfinished = running
            \/ Len(free_blocks) + 1 >= Cardinality(running)
       /\ pc = "ensure" =>
            \/ Unfinished = running
            \/ Len(free_blocks) + i >= Len(active) + 1
       /\ pc = "evict" => Unfinished = running
  /\ pc \in {"ensure", "evict"} => active # <<>>

(* The pool has num_blocks blocks.                                         *)
LEMMA BlocksCount ==
  ASSUME TypeOK
  PROVE  /\ cfg.num_blocks \in Nat
         /\ IsFiniteSet(Blocks)
         /\ Cardinality(Blocks) = cfg.num_blocks
<1>1. cfg.num_blocks \in Nat
  BY ConfigsAssumption DEF TypeOK, MemoryTypeOK, EngineConfig
<1>2. /\ IsFiniteSet(1..cfg.num_blocks)
      /\ Cardinality(1..cfg.num_blocks) =
           (IF 1 > cfg.num_blocks THEN 0 ELSE cfg.num_blocks - 1 + 1)
  BY <1>1, FS_Interval
<1>3. QED
  BY <1>1, <1>2 DEF Blocks

(* Somebody who holds memory alone, with nothing free, holds it all.       *)
LEMMA SoleHolder ==
  ASSUME TypeOK, BlocksOwnedOnce, NEW r \in Requests, Len(free_blocks) = 0,
         \A q \in Requests : q # r => block_table[q] = <<>>
  PROVE  cfg.num_blocks <= Len(block_table[r])
<1> DEFINE t == block_table[r]
           n == Len(t)
<1>1. t \in Seq(Blocks) /\ n \in Nat /\ t \in [1..n -> Blocks]
  BY DEF TypeOK, MemoryTypeOK
<1>2. \A b \in Blocks : \E j \in 1..n : t[j] = b
  <2> SUFFICES ASSUME NEW b \in Blocks PROVE \E j \in 1..n : t[j] = b
    OBVIOUS
  <2>1. PICK q \in Requests : \E j \in 1..Len(block_table[q]) : block_table[q][j] = b
    BY DEF BlocksOwnedOnce, NoBlockLost
  <2>2. q = r
    <3>1. Len(block_table[q]) # 0
      BY <2>1
    <3>2. QED
      BY <3>1
  <2>3. QED
    BY <2>1, <2>2
<1> HIDE DEF t, n
<1>3. t \in Surjection(1..n, Blocks)
  BY <1>1, <1>2 DEF Surjection
<1>4. Cardinality(Blocks) <= n
  BY <1>1, <1>3, FS_SurjCardinalityBound DEF ExistsSurjection
<1>5. QED
  BY <1>4, BlocksCount DEF t, n

(* Admission keeps a block back for everyone it found admitted.            *)
LEMMA AdmitSpare ==
  ASSUME LengthInv, SpareInv, NEW r \in Requests, Admit(r)
  PROVE  SpareInv'
<1>1. TypeOK
  BY DEF LengthInv, SeatInv
<1>2. /\ pc = "admit" /\ pc' = "admit" /\ r \in waiting
      /\ AllocateAsserts(seq_len(r)) /\ Admissible(r)
      /\ allocate(r, seq_len(r), worst_len(r))
      /\ batch' = batch \cup {r}
      /\ UNCHANGED <<cfg, running, finish_reason>>
  BY DEF Admit, Admissible, IsHead
<1>3. r \notin batch
  BY <1>2 DEF LengthInv, SeatInv, SeatsAgree, QueuedOnce, Admitted
<1>4. Cardinality(batch') = Cardinality(batch) + 1 /\ Cardinality(batch) \in Nat
      /\ Cardinality(running) \in Nat
  BY <1>1, <1>2, <1>3, SeatsFinite, FS_AddElement
<1>5. Unfinished' = running'
  BY <1>2 DEF SpareInv, Unfinished, finished
<1>6. ASSUME cfg.backend = "paged", cfg.preemption
      PROVE  Len(free_blocks') + 1 >= Cardinality(running') + Cardinality(batch')
  <2>1. Len(free_blocks) >= UnitsFor(seq_len(r)) + Cardinality(running) + Cardinality(batch)
    <3>1. Len(free_blocks) >= blocks_needed(seq_len(r)) + headroom
      BY <1>2, <1>6 DEF Admissible, can_allocate
    <3>2. UnitsFor(seq_len(r)) \in Nat /\ UnitsFor(seq_len(r)) = blocks_needed(seq_len(r))
      BY <1>1, <1>6, LengthsType DEF UnitsFor
    <3>3. Len(free_blocks) \in Nat
      BY <1>1, ListLengths
    <3>4. QED
      BY <1>4, <3>1, <3>2, <3>3 DEF headroom
  <2>2. Len(free_blocks') = Len(free_blocks) - UnitsFor(seq_len(r))
    BY <1>1, <1>2, AllocateLengths
  <2>3. UnitsFor(seq_len(r)) \in Nat /\ Len(free_blocks) \in Nat
    BY <1>1, LengthsType, ListLengths
  <2>4. QED
    BY <1>2, <1>4, <2>1, <2>2, <2>3
<1>7. QED
  BY <1>2, <1>5, <1>6 DEF SpareInv

(* Requests that finish in the prefill leave rows and a block for each.    *)
LEMMA PrefillSpare ==
  ASSUME LengthInv, SpareInv, Prefill
  PROVE  SpareInv'
<1>1. TypeOK
  BY DEF LengthInv, SeatInv
<1>2. /\ pc = "prefill" /\ pc' = "decode" /\ running' = running \cup batch
      /\ UNCHANGED <<cfg, free_blocks>>
  BY DEF Prefill, memoryVars
<1>3. Cardinality(running') <= Cardinality(running) + Cardinality(batch)
      /\ Cardinality(running') \in Nat
  <2>1. /\ IsFiniteSet(running) /\ IsFiniteSet(batch)
        /\ Cardinality(running) \in Nat /\ Cardinality(batch) \in Nat
    BY <1>1, SeatsFinite
  <2>2. /\ IsFiniteSet(running \cup batch)
        /\ Cardinality(running \cup batch) = Cardinality(running)
             + Cardinality(batch) - Cardinality(running \cap batch)
    BY <2>1, FS_Union
  <2>3. Cardinality(running \cap batch) \in Nat
    BY <2>1, FS_Intersection, FS_CardinalityType
  <2>4. Cardinality(running \cup batch) \in Nat
    BY <2>2, FS_CardinalityType
  <2>5. QED
    BY <1>2, <2>1, <2>2, <2>3, <2>4
<1>4. ASSUME cfg.backend = "paged", cfg.preemption
      PROVE  Len(free_blocks') + 1 >= Cardinality(running')
  <2>1. Len(free_blocks) + 1 >= Cardinality(running) + Cardinality(batch)
    BY <1>2, <1>4 DEF SpareInv
  <2>2. Cardinality(running) \in Nat /\ Cardinality(batch) \in Nat
        /\ Len(free_blocks) \in Nat
    BY <1>1, SeatsFinite, ListLengths
  <2>3. QED
    BY <1>2, <1>3, <2>1, <2>2
<1>5. QED
  BY <1>2, <1>4 DEF SpareInv

(* With a finished request among the running there are fewer rows.         *)
LEMMA BeginDecodeSpare ==
  ASSUME LengthInv, SpareInv, BeginDecode
  PROVE  SpareInv'
<1>1. TypeOK
  BY DEF LengthInv, SeatInv
<1>2. /\ pc = "decode" /\ i' = 1
      /\ pc' = IF Unfinished = {} THEN "loop" ELSE "ensure"
      /\ UNCHANGED <<cfg, free_blocks, running, finish_reason>>
  BY DEF BeginDecode, memoryVars, requestVars
<1>3. PICK rows \in OldestFirst(Unfinished) : active' = rows
  BY DEF BeginDecode
<1>4. Unfinished \in SUBSET running /\ Unfinished \in SUBSET Requests
  BY <1>1 DEF Unfinished, TypeOK
<1>5. Len(active') = Cardinality(Unfinished)
      /\ {rows[j] : j \in 1..Len(rows)} = Unfinished
  BY <1>1, <1>3, <1>4, OldestFirstRows
<1>6. Unfinished' = Unfinished
  BY <1>2 DEF Unfinished, finished
<1>7. ASSUME pc' = "ensure" PROVE active' # <<>>
  <2>1. Unfinished # {}
    BY <1>2, <1>7
  <2>2. QED
    BY <1>3, <1>5, <2>1
<1>8. ASSUME cfg.backend = "paged", cfg.preemption, Unfinished # running
      PROVE  Len(free_blocks') + i' >= Len(active') + 1
  <2>1. Len(free_blocks) + 1 >= Cardinality(running)
    BY <1>2, <1>8 DEF SpareInv
  <2>2. IsFiniteSet(running) /\ Cardinality(running) \in Nat
        /\ Len(free_blocks) \in Nat
    BY <1>1, SeatsFinite, ListLengths
  <2>3. /\ IsFiniteSet(Unfinished)
        /\ Cardinality(Unfinished) <= Cardinality(running)
        /\ Cardinality(running) # Cardinality(Unfinished)
    BY <1>4, <1>8, <2>2, FS_Subset
  <2>4. Cardinality(Unfinished) \in Nat
    BY <2>3, FS_CardinalityType
  <2>5. QED
    BY <1>2, <1>5, <2>1, <2>2, <2>3, <2>4
<1>9. QED
  BY <1>2, <1>6, <1>7, <1>8 DEF SpareInv

(* A row takes at most one block, and as long as the list has one for each *)
(* row to come nobody finds it empty.                                      *)
LEMMA AppendSpare ==
  ASSUME LengthInv, RoomInv, SpareInv, AppendSlot
  PROVE  SpareInv'
<1> TypeOK
  BY DEF LengthInv, SeatInv
<1>1. i \in 1..Len(active) /\ active \in Seq(Requests) /\ Len(active) \in Nat
  BY DEF AppendSlot, TypeOK
<1>2. PICK r \in Requests : r = active[i]
  BY <1>1
<1>3. r \in Rows /\ pc = "ensure"
  BY <1>1, <1>2 DEF Rows, AppendSlot
<1>4. /\ append_slot(r, seq_len(r))
      /\ IF AppendSucceeds(r, seq_len(r))
           THEN i' = i + 1 /\ pc' = "ensure" ELSE i' = i /\ pc' = "evict"
      /\ UNCHANGED <<cfg, running, active, finish_reason>>
  BY <1>2 DEF AppendSlot, requestVars
<1> DEFINE u == UnitsFor(seq_len(r))
           l == Len(block_table[r])
           f == Len(free_blocks)
<1>5. /\ u \in Nat /\ l \in Nat /\ f \in Nat /\ u <= l + 1
      /\ cfg.backend = "contiguous" => l = 1
  BY <1>3, RowFacts, ListLengths
<1>6. /\ AppendSucceeds(r, seq_len(r)) <=> u <= l + f
      /\ AppendSucceeds(r, seq_len(r)) =>
           /\ Len(block_table'[r]) = IF u > l THEN u ELSE l
           /\ Len(free_blocks') = f + l - Len(block_table'[r])
  BY <1>4, <1>5, AppendLengths
<1> HIDE DEF u, l, f
<1>7. Unfinished' = Unfinished
  BY <1>4 DEF Unfinished, finished
<1>8. ASSUME cfg.backend = "paged", cfg.preemption, Unfinished # running
      PROVE  AppendSucceeds(r, seq_len(r)) /\ Len(free_blocks') + i' >= Len(active') + 1
  <2>1. f + i >= Len(active) + 1
    BY <1>3, <1>8 DEF SpareInv, f
  <2>2. AppendSucceeds(r, seq_len(r))
    BY <1>1, <1>5, <1>6, <2>1
  <2>3. Len(free_blocks') >= f - 1 /\ Len(free_blocks') \in Int
    BY <1>5, <1>6, <2>2
  <2>4. QED
    BY <1>1, <1>4, <1>5, <2>1, <2>2, <2>3
<1>9. active' # <<>>
  BY <1>3, <1>4 DEF SpareInv
<1>10. QED
  BY <1>4, <1>7, <1>8, <1>9 DEF SpareInv

(* Alone and short of a block, a request would hold the whole pool, which  *)
(* the front door knows to be enough for it.                               *)
LEMMA PreemptSpare ==
  ASSUME LengthInv, RoomInv, SpareInv, Preempt
  PROVE  SpareInv'
<1> TypeOK
  BY DEF LengthInv, SeatInv
<1>1. PICK v \in 1..Len(active) :
        active' = RemoveRow(active, v) /\ running' = running \ {active[v]}
  BY DEF Preempt
<1>2. /\ pc = "evict" /\ pc' = "ensure" /\ cfg' = cfg /\ cfg.preemption
      /\ finish_reason' = finish_reason
  BY DEF Preempt
<1>3. active \in Seq(Requests) /\ Len(active) \in Nat /\ i \in 1..Len(active)
  BY <1>2 DEF TypeOK, RoomInv
<1>4. PICK r \in Requests : r = active[i]
  BY <1>3
<1>5. r \in Rows
  BY <1>3, <1>4 DEF Rows
<1>6. /\ Len(free_blocks) = 0
      /\ UnitsFor(seq_len(r)) > Len(block_table[r])
  BY <1>2, <1>4 DEF RoomInv
<1>7. /\ cfg.backend = "contiguous" =>
           Len(block_table[r]) = 1 /\ UnitsFor(seq_len(r)) = 1
      /\ UnitsFor(seq_len(r)) \in Nat /\ Len(block_table[r]) \in Nat
      /\ UnitsFor(worst_len(r)) \in Nat
      /\ UnitsFor(seq_len(r)) <= UnitsFor(worst_len(r))
      /\ state[r] # "new"
  BY <1>2, <1>5, RowFacts
<1>8. cfg.backend = "paged"
  <2>1. cfg.backend \in {"paged", "contiguous"}
    BY ConfigsAssumption DEF TypeOK, MemoryTypeOK, EngineConfig
  <2>2. ASSUME cfg.backend = "contiguous" PROVE FALSE
    <3>1. Len(block_table[r]) = 1 /\ UnitsFor(seq_len(r)) = 1
      BY <1>7, <2>2
    <3>2. QED
      BY <1>6, <3>1
  <2>3. QED
    BY <2>1, <2>2
<1>9. Unfinished = running
  BY <1>2, <1>8 DEF SpareInv
<1>10. Unfinished' = running'
  BY <1>1, <1>2, <1>9 DEF Unfinished, finished
<1>11. Len(active) # 1
  <2> SUFFICES ASSUME Len(active) = 1 PROVE FALSE
    OBVIOUS
  <2>1. running = {r}
    <3>1. \A j \in 1..Len(active) : active[j] = r
      BY <1>3, <1>4
    <3>2. Rows = {r}
      BY <1>5, <3>1 DEF Rows
    <3>3. QED
      BY <1>2, <1>9, <3>2 DEF LengthInv, TokenInv
  <2>2. \A q \in Requests : q # r => block_table[q] = <<>>
    BY <1>2, <2>1 DEF LengthInv, SeatInv, SeatsAgree, MemoryFollowsSeats, Admitted
  <2>3. cfg.num_blocks <= Len(block_table[r])
    BY <1>6, <2>2, SoleHolder DEF LengthInv, SeatInv
  <2>4. UnitsFor(worst_len(r)) <= cfg.num_blocks
    BY <1>7 DEF LengthInv, LimitInv
  <2>5. cfg.num_blocks \in Nat
    BY ConfigsAssumption DEF TypeOK, MemoryTypeOK, EngineConfig
  <2>6. QED
    BY <1>6, <1>7, <2>3, <2>4, <2>5
<1>12. active' # <<>>
  <2>1. Len(active') = Len(active) - 1
    BY <1>1, <1>3, RemoveRowType
  <2>2. Len(active') # 0
    BY <1>3, <1>11, <2>1
  <2>3. QED
    BY <2>2
<1>13. QED
  BY <1>2, <1>10, <1>12 DEF SpareInv

LEMMA SpareStep ==
  LengthInv /\ RoomInv /\ SpareInv /\ [Next]_vars => SpareInv'
<1> SUFFICES ASSUME LengthInv, RoomInv, SpareInv, [Next]_vars PROVE SpareInv'
  OBVIOUS
<1>1. CASE UNCHANGED vars
  BY <1>1 DEF vars, threadVars, requestVars, memoryVars, SpareInv, Unfinished,
     finished
<1>2. ASSUME NEW r \in Requests, NEW p \in PromptLens, NEW m \in MaxNewTokens,
             Submit(r, p, m)
      PROVE  SpareInv'
  BY <1>2 DEF Submit, SpareInv
<1>3. ASSUME NEW r \in Impatient, Disconnect(r) \/ SetCancelled(r)
      PROVE  SpareInv'
  BY <1>3 DEF Disconnect, SetCancelled, threadVars, memoryVars, SpareInv,
     Unfinished, finished
<1>4. CASE BeginStep
  BY <1>4 DEF BeginStep, SpareInv
<1>5. ASSUME NEW r \in Requests, Retire(r) PROVE SpareInv'
  BY <1>5 DEF Retire, SpareInv
<1>6. CASE EndRetire
  BY <1>6 DEF EndRetire, requestVars, memoryVars, SpareInv, LengthInv, SeatInv,
     Unfinished, finished
<1>7. CASE EndAdmit
  BY <1>7 DEF EndAdmit, requestVars, memoryVars, SpareInv, Unfinished, finished
<1>8. CASE OutOfBlocks \/ \E r \in Requests : AdmitAsserts(r)
  BY <1>8 DEF OutOfBlocks, AdmitAsserts, SpareInv
<1>9. ASSUME NEW r \in Requests, Admit(r) PROVE SpareInv'
  BY <1>9, AdmitSpare
<1>10. CASE Prefill
  BY <1>10, PrefillSpare
<1>11. CASE BeginDecode
  BY <1>11, BeginDecodeSpare
<1>12. CASE AppendSlot
  BY <1>12, AppendSpare
<1>13. CASE Preempt
  BY <1>13, PreemptSpare
<1>14. CASE DecodeStep
  BY <1>14 DEF DecodeStep, SpareInv
<1>15. QED
  BY <1>1, <1>2, <1>3, <1>4, <1>5, <1>6, <1>7, <1>8, <1>9, <1>10, <1>11, <1>12,
     <1>13, <1>14
  DEF Next, EngineStep, ApiStep, Idle

LEMMA SpareInit == Init => SpareInv
BY DEF Init, SpareInv

(* Evictions never empty the decode batch: every iteration with unfinished *)
(* running requests yields a token, for every pool and request size that   *)
(* the front door accepts.                                                 *)
THEOREM SomebodyIsSpared == Spec => []EvictionSparesOne
<1>1. Init => LengthInv /\ RoomInv /\ SpareInv
  BY SeatInit, TokenInit, LimitInit, RoomInit, SpareInit DEF LengthInv
<1>2. LengthInv /\ RoomInv /\ SpareInv /\ [Next]_vars
        => LengthInv' /\ RoomInv' /\ SpareInv'
  BY SeatStep, TokenStep, LimitStep, RoomStep, SpareStep DEF LengthInv
<1>3. SpareInv => EvictionSparesOne
  BY DEF SpareInv, EvictionSparesOne
<1>4. QED
  BY <1>1, <1>2, <1>3, PTL DEF Spec
-----------------------------------------------------------------------------
(* Reservations.                                                           *)

(* The logical blocks that have a physical one.                            *)
HeldUnits ==
  {p \in Requests \X Nat : 1 <= p[2] /\ p[2] <= Len(block_table[p[1]])}

(* What is not free is held, block by block.                               *)
LEMMA HeldCount ==
  ASSUME TypeOK, BlocksOwnedOnce
  PROVE  /\ IsFiniteSet(HeldUnits)
         /\ Cardinality(HeldUnits) = cfg.num_blocks - Len(free_blocks)
<1> DEFINE n == cfg.num_blocks
           f == Len(free_blocks)
           F == {free_blocks[k] : k \in 1..f}
           H == Blocks \ F
           g == [p \in HeldUnits |-> block_table[p[1]][p[2]]]
<1>1. /\ n \in Nat /\ f \in Nat /\ free_blocks \in [1..f -> Blocks]
      /\ block_table \in [Requests -> Seq(Blocks)]
  <2>1. n \in Nat
    BY ConfigsAssumption DEF TypeOK, MemoryTypeOK, EngineConfig
  <2>2. QED
    BY <2>1 DEF TypeOK, MemoryTypeOK
<1>2. IsFiniteSet(Blocks) /\ Cardinality(Blocks) = n
  BY BlocksCount
<1>3. F \subseteq Blocks /\ Cardinality(F) = f
  <2>1. F \subseteq Blocks
    BY <1>1
  <2>2. free_blocks \in Bijection(1..f, F)
    <3>1. \A j, k \in 1..f : free_blocks[j] = free_blocks[k] => j = k
      BY DEF BlocksOwnedOnce, FreeListUnique
    <3>2. QED
      BY <1>1, <3>1 DEF Bijection, Injection, Surjection, IsInjective
  <2>3. ExistsBijection(1..f, F)
    BY <2>2 DEF ExistsBijection
  <2>4. Cardinality(F) = f
    BY <1>1, <2>3, FS_CountingElements
  <2>5. QED
    BY <2>1, <2>4
<1>4. IsFiniteSet(H) /\ Cardinality(H) = n - f
  <2>1. /\ IsFiniteSet(Blocks \ F)
        /\ Cardinality(Blocks \ F) = Cardinality(Blocks) - Cardinality(Blocks \cap F)
    BY <1>2, FS_Difference
  <2>2. Blocks \cap F = F
    BY <1>3
  <2>3. QED
    BY <1>2, <1>3, <2>1, <2>2
<1>5. \A p \in HeldUnits :
        /\ p[1] \in Requests /\ p[2] \in 1..Len(block_table[p[1]])
        /\ p = <<p[1], p[2]>>
  BY DEF HeldUnits
<1>6. \A p \in HeldUnits : g[p] \in H
  <2> SUFFICES ASSUME NEW p \in HeldUnits PROVE block_table[p[1]][p[2]] \in H
    OBVIOUS
  <2>1. block_table[p[1]][p[2]] \in Blocks
    <3>1. PICK t \in Seq(Blocks) : t = block_table[p[1]]
      BY <1>1, <1>5
    <3>2. p[2] \in 1..Len(t)
      BY <1>5, <3>1
    <3>3. QED
      BY <3>1, <3>2
  <2>2. \A k \in 1..f : block_table[p[1]][p[2]] # free_blocks[k]
    BY <1>5 DEF BlocksOwnedOnce, HeldIsNotFree
  <2>3. QED
    BY <2>1, <2>2
<1>7. \A p, q \in HeldUnits : g[p] = g[q] => p = q
  <2> SUFFICES ASSUME NEW p \in HeldUnits, NEW q \in HeldUnits,
                      block_table[p[1]][p[2]] = block_table[q[1]][q[2]]
               PROVE  p = q
    OBVIOUS
  <2>1. p[1] = q[1] /\ p[2] = q[2]
    BY <1>5 DEF BlocksOwnedOnce, TablesDisjoint
  <2>2. QED
    BY <1>5, <2>1
<1>8. \A b \in H : \E p \in HeldUnits : g[p] = b
  <2> SUFFICES ASSUME NEW b \in H PROVE \E p \in HeldUnits : g[p] = b
    OBVIOUS
  <2>1. PICK r \in Requests :
          \E j \in 1..Len(block_table[r]) : block_table[r][j] = b
    BY DEF BlocksOwnedOnce, NoBlockLost
  <2>2. PICK j \in 1..Len(block_table[r]) : block_table[r][j] = b
    BY <2>1
  <2>3. <<r, j>> \in HeldUnits
    BY DEF HeldUnits
  <2>4. g[<<r, j>>] = b
    BY <2>2, <2>3
  <2>5. QED
    BY <2>3, <2>4
<1> HIDE DEF H
<1>9. g \in Injection(HeldUnits, H) /\ g \in Surjection(HeldUnits, H)
  <2>1. g \in [HeldUnits -> H]
    BY <1>6
  <2>2. QED
    BY <1>7, <1>8, <2>1 DEF Injection, Surjection, IsInjective
<1> HIDE DEF g
<1>10. IsFiniteSet(HeldUnits) /\ Cardinality(HeldUnits) = Cardinality(H)
  BY <1>4, <1>9, FS_Injection
<1>11. QED
  BY <1>4, <1>10

(* No two requests carry one id: the front door generates them, and no     *)
(* client sends an X-Request-ID that is in use.                            *)
DistinctIds ==
  \A r, q \in Requests : request_id[r] = request_id[q] => r = q

Reserving == cfg.backend = "paged" /\ ~cfg.preemption

(* In reserve mode the promises fit the pool, and everyone admitted has    *)
(* the promise of its worst case; the engine thread lives, and only the    *)
(* preempting scheduler comes to evict.                                    *)
ReserveInv ==
  /\ Reserving => Cardinality(PromisedBlocks) <= cfg.num_blocks
  /\ Reserving => \A r \in Admitted :
       committed[request_id[r]] = blocks_needed(worst_len(r))
  /\ pc = "evict" => cfg.preemption
  /\ pc # "dead"

LEMMA PromisedFinite ==
  ASSUME TypeOK
  PROVE  IsFiniteSet(PromisedBlocks) /\ Cardinality(PromisedBlocks) \in Nat
<1>1. IsFiniteSet(RequestIds \X Blocks)
  BY BlocksCount, IdsAssumption, FS_Product
<1>2. PromisedBlocks \in SUBSET (RequestIds \X Blocks)
  BY DEF PromisedBlocks
<1>3. IsFiniteSet(PromisedBlocks)
  BY <1>1, <1>2, FS_Subset
<1>4. QED
  BY <1>3, FS_CardinalityType

(* With an entry of its own for everyone, the promises are the worst cases.*)
LEMMA WorstCasePromised ==
  ASSUME DistinctIds, LengthInv, ReserveInv, Reserving
  PROVE  /\ IsFiniteSet(WorstCaseUnits)
         /\ Cardinality(WorstCaseUnits) <= cfg.num_blocks
         /\ Cardinality(WorstCaseUnits) <= Cardinality(PromisedBlocks)
<1> DEFINE g == [p \in WorstCaseUnits |-> <<request_id[p[1]], p[2]>>]
<1>1. TypeOK
  BY DEF LengthInv, SeatInv
<1>2. \A p \in WorstCaseUnits :
        /\ p[1] \in Requests /\ p[1] \in Admitted /\ p[2] \in Blocks
        /\ p = <<p[1], p[2]>> /\ p[2] <= blocks_needed(worst_len(p[1]))
  BY DEF WorstCaseUnits
<1>3. ASSUME NEW p \in WorstCaseUnits PROVE g[p] \in PromisedBlocks
  <2>1. p[2] <= committed[request_id[p[1]]]
    BY <1>2 DEF ReserveInv
  <2>2. <<request_id[p[1]], p[2]>> \in RequestIds \X Blocks
    BY <1>2, IdsAssumption
  <2>3. QED
    BY <2>1, <2>2 DEF PromisedBlocks
<1>4. ASSUME NEW p \in WorstCaseUnits, NEW q \in WorstCaseUnits, g[p] = g[q]
      PROVE  p = q
  <2>1. request_id[p[1]] = request_id[q[1]] /\ p[2] = q[2]
    BY <1>4
  <2>2. p[1] = q[1]
    BY <1>2, <2>1 DEF DistinctIds
  <2>3. QED
    BY <1>2, <2>1, <2>2
<1>5. g \in Injection(WorstCaseUnits, PromisedBlocks)
  <2>1. g \in [WorstCaseUnits -> PromisedBlocks]
    BY <1>3
  <2>2. QED
    BY <1>4, <2>1 DEF Injection, IsInjective
<1> HIDE DEF g
<1>6. /\ IsFiniteSet(WorstCaseUnits)
      /\ Cardinality(WorstCaseUnits) <= Cardinality(PromisedBlocks)
  BY <1>1, <1>5, PromisedFinite, FS_Injection
<1>7. Cardinality(WorstCaseUnits) \in Nat /\ Cardinality(PromisedBlocks) \in Nat
      /\ cfg.num_blocks \in Nat
  BY <1>1, <1>6, PromisedFinite, FS_CardinalityType, ConfigsAssumption
  DEF TypeOK, MemoryTypeOK, EngineConfig
<1>8. QED
  BY <1>6, <1>7 DEF ReserveInv

(* Nobody admitted holds more than its worst case.                         *)
LEMMA HeldWithinWorstCase ==
  ASSUME LengthInv, RoomInv, pc # "dead", Reserving
  PROVE  HeldUnits \subseteq WorstCaseUnits
<1> TypeOK
  BY DEF LengthInv, SeatInv
<1> SUFFICES ASSUME NEW p \in HeldUnits PROVE p \in WorstCaseUnits
  OBVIOUS
<1>1. PICK r \in Requests : r = p[1]
  BY DEF HeldUnits
<1>2. /\ p = <<r, p[2]>> /\ p[2] \in Nat /\ 1 <= p[2]
      /\ p[2] <= Len(block_table[r]) /\ Len(block_table[r]) \in Nat
  BY <1>1, ListLengths DEF HeldUnits
<1>3. r \in Admitted
  <2>1. block_table[r] # <<>>
    BY <1>2, ListLengths
  <2>2. QED
    BY <2>1 DEF LengthInv, SeatInv, SeatsAgree, MemoryFollowsSeats
<1>4. state[r] # "new"
  BY <1>3 DEF Admitted, LengthInv, SeatInv, SeatsAgree, StatesFollowLists
<1>5. UnitsFor(worst_len(r)) = blocks_needed(worst_len(r))
      /\ blocks_needed(worst_len(r)) \in Nat
  BY LengthsType DEF Reserving, UnitsFor
<1>6. UnitsFor(worst_len(r)) <= cfg.num_blocks /\ cfg.num_blocks \in Nat
  BY <1>4, BlocksCount DEF LengthInv, LimitInv
<1>7. Len(block_table[r]) <= UnitsFor(worst_len(r))
  <2>1. CASE r \in running
    BY <2>1 DEF RoomInv
  <2>2. CASE r \notin running
    <3>1. pc \in {"admit", "prefill"} /\ r \in batch
      BY <1>3, <2>2 DEF Admitted
    <3>2. ~finished(r) /\ Len(block_table[r]) = UnitsFor(seq_len(r))
      BY <3>1 DEF LengthInv, TokenInv, RoomInv
    <3>3. UnitsFor(seq_len(r)) <= UnitsFor(worst_len(r))
      BY <1>4, <3>2, WithinWorstCase
    <3>4. QED
      BY <3>2, <3>3
  <2>3. QED
    BY <2>1, <2>2
<1>8. p[2] \in Blocks /\ p[2] <= blocks_needed(worst_len(r))
  BY <1>2, <1>5, <1>6, <1>7 DEF Blocks
<1>9. QED
  BY <1>1, <1>2, <1>3, <1>8 DEF WorstCaseUnits

(* The free list covers what is promised and not yet taken: any admission  *)
(* that can_allocate allows, and any growth of a row.                      *)
LEMMA PromisesCovered ==
  ASSUME DistinctIds, LengthInv, RoomInv, ReserveInv, Reserving
  PROVE  /\ cfg.num_blocks - Len(free_blocks) <= Cardinality(PromisedBlocks)
         /\ pc \in {"ensure", "evict"} => \A r \in Rows :
              UnitsFor(seq_len(r)) <= Len(block_table[r]) + Len(free_blocks)
<1> TypeOK
  BY DEF LengthInv, SeatInv
<1> DEFINE n == cfg.num_blocks
           f == Len(free_blocks)
<1>1. IsFiniteSet(HeldUnits) /\ Cardinality(HeldUnits) = n - f
  BY HeldCount DEF LengthInv, SeatInv
<1>2. /\ IsFiniteSet(WorstCaseUnits)
      /\ Cardinality(WorstCaseUnits) <= n
      /\ Cardinality(WorstCaseUnits) <= Cardinality(PromisedBlocks)
  BY WorstCasePromised
<1>3. HeldUnits \subseteq WorstCaseUnits
  BY HeldWithinWorstCase DEF ReserveInv
<1>4. n \in Nat /\ f \in Nat /\ Cardinality(WorstCaseUnits) \in Nat
      /\ Cardinality(PromisedBlocks) \in Nat
  BY <1>2, BlocksCount, ListLengths, PromisedFinite, FS_CardinalityType
<1>5. n - f <= Cardinality(PromisedBlocks)
  <2>1. Cardinality(HeldUnits) <= Cardinality(WorstCaseUnits)
    BY <1>2, <1>3, FS_Subset
  <2>2. QED
    BY <1>1, <1>2, <1>4, <2>1
<1>6. ASSUME pc \in {"ensure", "evict"}, NEW r \in Rows,
             ~(UnitsFor(seq_len(r)) <= Len(block_table[r]) + f)
      PROVE  FALSE
  <2> DEFINE l == Len(block_table[r])
             More == {r} \X ((l + 1)..(l + f + 1))
  <2>1. r \in Requests /\ r \in running
    BY <1>6 DEF LengthInv, TokenInv, Unfinished, TypeOK
  <2>2. /\ l \in Nat /\ UnitsFor(seq_len(r)) \in Nat
        /\ UnitsFor(worst_len(r)) \in Nat /\ state[r] # "new"
        /\ UnitsFor(seq_len(r)) <= UnitsFor(worst_len(r))
    BY <1>6, <2>1, RowFacts
  <2>3. l + f + 1 <= UnitsFor(worst_len(r)) /\ UnitsFor(worst_len(r)) <= n
        /\ UnitsFor(worst_len(r)) = blocks_needed(worst_len(r))
    <3>1. UnitsFor(worst_len(r)) <= n
      BY <2>1, <2>2 DEF LengthInv, LimitInv
    <3>2. QED
      BY <1>4, <1>6, <2>2, <3>1 DEF UnitsFor, Reserving
  <2>4. /\ IsFiniteSet(More) /\ Cardinality(More) = f + 1
    <3>1. /\ IsFiniteSet((l + 1)..(l + f + 1))
          /\ Cardinality((l + 1)..(l + f + 1)) = f + 1
      <4>1. /\ l + 1 \in Int /\ l + f + 1 \in Int
            /\ (IF l + 1 > l + f + 1 THEN 0 ELSE (l + f + 1) - (l + 1) + 1) = f + 1
        BY <1>4, <2>2
      <4>2. QED
        BY <4>1, FS_Interval
    <3>2. IsFiniteSet({r}) /\ Cardinality({r}) = 1
      BY FS_Singleton
    <3>3. IsFiniteSet(More) /\ Cardinality(More) = 1 * (f + 1)
      BY <3>1, <3>2, FS_Product
    <3>4. QED
      BY <1>4, <3>3
  <2>5. More \subseteq WorstCaseUnits
    <3> SUFFICES ASSUME NEW p \in More PROVE p \in WorstCaseUnits
      OBVIOUS
    <3>1. p = <<r, p[2]>> /\ p[1] = r /\ p[2] \in (l + 1)..(l + f + 1)
      OBVIOUS
    <3>2. p[2] \in Blocks /\ p[2] <= blocks_needed(worst_len(r))
      BY <1>4, <2>2, <2>3, <3>1 DEF Blocks
    <3>3. QED
      BY <2>1, <3>1, <3>2 DEF WorstCaseUnits, Admitted
  <2>6. HeldUnits \cap More = {}
    BY <2>2 DEF HeldUnits
  <2> HIDE DEF More, l
  <2>7. /\ IsFiniteSet(HeldUnits \cup More)
        /\ Cardinality(HeldUnits \cup More) = n + 1
    <3>1. /\ IsFiniteSet(HeldUnits \cup More)
          /\ Cardinality(HeldUnits \cup More) = Cardinality(HeldUnits)
               + Cardinality(More) - Cardinality(HeldUnits \cap More)
      BY <1>1, <2>4, FS_Union
    <3>2. Cardinality(HeldUnits \cap More) = 0
      BY <2>6, FS_EmptySet
    <3>3. QED
      BY <1>1, <1>4, <2>4, <3>1, <3>2
  <2>8. Cardinality(HeldUnits \cup More) <= Cardinality(WorstCaseUnits)
    BY <1>2, <1>3, <2>5, FS_Subset
  <2>9. QED
    BY <1>2, <1>4, <2>7, <2>8
<1>7. QED
  BY <1>5, <1>6

(* Neither kind of exception: whoever may be admitted has the blocks.      *)
LEMMA AdmissionSucceeds ==
  ASSUME DistinctIds, LengthInv, RoomInv, ReserveInv, NEW r \in Requests,
         Admissible(r)
  PROVE  AllocateAsserts(seq_len(r))
<1> TypeOK
  BY DEF LengthInv, SeatInv
<1>1. /\ Len(free_blocks) \in Nat /\ headroom \in Nat
      /\ UnitsFor(seq_len(r)) \in Nat /\ UnitsFor(worst_len(r)) \in Nat
      /\ UnitsFor(seq_len(r)) <= UnitsFor(worst_len(r))
  <2>1. r \in waiting
    BY DEF Admissible, IsHead
  <2>2. ~finished(r) /\ state[r] # "new"
    BY <2>1 DEF LengthInv, TokenInv, ReserveInv, SeatInv, SeatsAgree,
       StatesFollowLists
  <2>3. headroom \in Nat
    BY SeatsFinite DEF headroom
  <2>4. QED
    BY <2>2, <2>3, WithinWorstCase, ListLengths
<1>2. can_allocate(seq_len(r), worst_len(r), headroom)
  BY DEF Admissible
<1>3. CASE cfg.backend = "contiguous" /\ Len(free_blocks) > 0
  BY <1>1, <1>3 DEF AllocateAsserts, UnitsFor
<1>4. CASE Reserving /\ Cardinality(PromisedBlocks) + blocks_needed(worst_len(r))
                          <= cfg.num_blocks
  <2>1. cfg.num_blocks - Len(free_blocks) <= Cardinality(PromisedBlocks)
    BY <1>4, PromisesCovered
  <2>2. cfg.num_blocks \in Nat /\ Cardinality(PromisedBlocks) \in Nat
    BY BlocksCount, PromisedFinite
  <2>3. blocks_needed(worst_len(r)) = UnitsFor(worst_len(r))
    BY <1>4 DEF Reserving, UnitsFor
  <2>4. QED
    BY <1>1, <1>4, <2>1, <2>2, <2>3 DEF AllocateAsserts
<1>5. CASE cfg.backend = "paged"
           /\ Len(free_blocks) >= blocks_needed(seq_len(r)) + headroom
  BY <1>1, <1>5 DEF AllocateAsserts, UnitsFor
<1>6. QED
  BY <1>2, <1>3, <1>4, <1>5 DEF can_allocate, Reserving

(* A new promise is only made where it fits beside the others.             *)
LEMMA AdmitReserve ==
  ASSUME DistinctIds, LengthInv, ReserveInv, NEW r \in Requests, Admit(r)
  PROVE  ReserveInv'
<1> TypeOK
  BY DEF LengthInv, SeatInv
<1> DEFINE id == request_id[r]
           need == blocks_needed(worst_len(r))
           Fresh == {id} \X (1..need)
<1>1. /\ pc = "admit" /\ pc' = "admit" /\ r \in waiting
      /\ can_allocate(seq_len(r), worst_len(r), headroom)
      /\ allocate(r, seq_len(r), worst_len(r))
      /\ batch' = batch \cup {r}
      /\ UNCHANGED <<cfg, running, prompt_len, max_new>>
  BY DEF Admit, Admissible, IsHead
<1>2. id \in RequestIds /\ need \in Nat /\ committed \in [RequestIds -> Nat]
  BY IdsAssumption, LengthsType DEF TypeOK, MemoryTypeOK
<1>3. \A q \in Requests :
        blocks_needed(worst_len(q))' = blocks_needed(worst_len(q))
  BY <1>1 DEF blocks_needed, worst_len
<1> HIDE DEF need
<1>4. ASSUME Reserving
      PROVE  /\ Cardinality(PromisedBlocks') <= cfg'.num_blocks
             /\ \A q \in Admitted' :
                  committed'[request_id[q]] = blocks_needed(worst_len(q))'
  <2>1. committed' = [committed EXCEPT ![id] = need]
    BY <1>1, <1>4 DEF allocate, Reserving, need
  <2>2. Cardinality(PromisedBlocks) + need <= cfg.num_blocks
    BY <1>1, <1>4 DEF can_allocate, Reserving, need
  <2>3. PromisedBlocks' \subseteq PromisedBlocks \cup Fresh
    <3> SUFFICES ASSUME NEW p \in PromisedBlocks',
                        p \notin PromisedBlocks
                 PROVE  p \in Fresh
      OBVIOUS
    <3>1. /\ p = <<p[1], p[2]>> /\ p[1] \in RequestIds /\ p[2] \in Blocks
          /\ p[2] <= committed'[p[1]]
      BY <1>1 DEF PromisedBlocks, Blocks
    <3>2. ~(p[2] <= committed[p[1]])
      BY <3>1 DEF PromisedBlocks
    <3>3. p[1] = id
      BY <1>2, <2>1, <3>1, <3>2
    <3>4. p[2] \in 1..need
      BY <1>2, <2>1, <3>1, <3>3 DEF Blocks
    <3>5. QED
      BY <3>1, <3>3, <3>4
  <2>4. IsFiniteSet(Fresh) /\ Cardinality(Fresh) = need
    <3>1. IsFiniteSet(1..need) /\ Cardinality(1..need) = need
      <4>1. need \in Int /\ 1 \in Int /\ (IF 1 > need THEN 0 ELSE need - 1 + 1) = need
        BY <1>2
      <4>2. QED
        BY <4>1, FS_Interval
    <3>2. IsFiniteSet({id}) /\ Cardinality({id}) = 1
      BY FS_Singleton
    <3>3. IsFiniteSet(Fresh) /\ Cardinality(Fresh) = 1 * need
      BY <3>1, <3>2, FS_Product
    <3>4. QED
      BY <1>2, <3>3
  <2> HIDE DEF Fresh
  <2>5. Cardinality(PromisedBlocks') <= Cardinality(PromisedBlocks) + need
        /\ Cardinality(PromisedBlocks') \in Nat
    <3>1. IsFiniteSet(PromisedBlocks) /\ Cardinality(PromisedBlocks) \in Nat
      BY PromisedFinite
    <3>2. /\ IsFiniteSet(PromisedBlocks \cup Fresh)
          /\ Cardinality(PromisedBlocks \cup Fresh) =
               Cardinality(PromisedBlocks) + Cardinality(Fresh)
                 - Cardinality(PromisedBlocks \cap Fresh)
      BY <2>4, <3>1, FS_Union
    <3>3. Cardinality(PromisedBlocks \cap Fresh) \in Nat
      BY <3>1, FS_Intersection, FS_CardinalityType
    <3>4. /\ IsFiniteSet(PromisedBlocks')
          /\ Cardinality(PromisedBlocks') <= Cardinality(PromisedBlocks \cup Fresh)
      BY <2>3, <3>2, FS_Subset
    <3>5. Cardinality(PromisedBlocks') \in Nat
          /\ Cardinality(PromisedBlocks \cup Fresh) \in Nat
      BY <3>2, <3>4, FS_CardinalityType
    <3>6. QED
      BY <1>2, <2>4, <3>1, <3>2, <3>3, <3>4, <3>5
  <2>6. Cardinality(PromisedBlocks') <= cfg'.num_blocks
    <3>1. Cardinality(PromisedBlocks) \in Nat /\ cfg.num_blocks \in Nat
      BY PromisedFinite, BlocksCount
    <3>2. QED
      BY <1>1, <1>2, <2>2, <2>5, <3>1
  <2>7. ASSUME NEW q \in Admitted'
        PROVE  committed'[request_id[q]] = blocks_needed(worst_len(q))'
    <3>1. q \in Requests /\ (q = r \/ q \in Admitted)
      BY <1>1 DEF Admitted, TypeOK
    <3>2. CASE q = r
      BY <1>2, <1>3, <2>1, <3>1, <3>2 DEF need
    <3>3. CASE q # r
      <4>1. request_id[q] # id
        BY <3>1, <3>3 DEF DistinctIds
      <4>2. committed'[request_id[q]] = committed[request_id[q]]
        BY <1>2, <2>1, <3>1, <4>1, IdsAssumption
      <4>3. QED
        BY <1>3, <1>4, <3>1, <3>3, <4>2 DEF ReserveInv
    <3>4. QED
      BY <3>2, <3>3
  <2>8. QED
    BY <2>6, <2>7
<1>5. QED
  BY <1>1, <1>4 DEF ReserveInv, Reserving

(* free() takes back the promise of the one who leaves, and no other.      *)
LEMMA FreeReserve ==
  ASSUME DistinctIds, TypeOK, ReserveInv, NEW r \in Requests, free(r),
         UNCHANGED <<cfg, prompt_len, max_new>>, Admitted' \subseteq Admitted \ {r},
         pc' # "evict", pc' # "dead"
  PROVE  ReserveInv'
<1>1. /\ committed' = [committed EXCEPT ![request_id[r]] = 0]
      /\ committed \in [RequestIds -> Nat] /\ request_id[r] \in RequestIds
  BY IdsAssumption DEF free, TypeOK, MemoryTypeOK
<1>2. ASSUME Reserving PROVE Cardinality(PromisedBlocks') <= cfg'.num_blocks
  <2>1. PromisedBlocks' \subseteq PromisedBlocks
    <3> SUFFICES ASSUME NEW p \in PromisedBlocks' PROVE p \in PromisedBlocks
      OBVIOUS
    <3>1. /\ p \in RequestIds \X Blocks /\ p[1] \in RequestIds /\ p[2] \in Blocks
          /\ p[2] <= committed'[p[1]]
      BY DEF PromisedBlocks, Blocks
    <3>2. committed'[p[1]] <= committed[p[1]] /\ committed'[p[1]] \in Nat
          /\ committed[p[1]] \in Nat
      BY <1>1, <3>1
    <3>3. p[2] <= committed[p[1]]
      BY <3>1, <3>2 DEF Blocks
    <3>4. QED
      BY <3>1, <3>3 DEF PromisedBlocks
  <2>2. IsFiniteSet(PromisedBlocks) /\ Cardinality(PromisedBlocks) \in Nat
        /\ cfg.num_blocks \in Nat
    BY PromisedFinite, BlocksCount
  <2>3. /\ IsFiniteSet(PromisedBlocks')
        /\ Cardinality(PromisedBlocks') <= Cardinality(PromisedBlocks)
    BY <2>1, <2>2, FS_Subset
  <2>4. Cardinality(PromisedBlocks') \in Nat
    BY <2>3, FS_CardinalityType
  <2>5. Cardinality(PromisedBlocks) <= cfg.num_blocks
    BY <1>2 DEF ReserveInv
  <2>6. QED
    BY <2>2, <2>3, <2>4, <2>5
<1>3. ASSUME Reserving, NEW q \in Admitted'
      PROVE  committed'[request_id[q]] = blocks_needed(worst_len(q))'
  <2>1. q \in Admitted /\ q # r /\ q \in Requests
    BY DEF Admitted, TypeOK
  <2>2. request_id[q] # request_id[r] /\ request_id[q] \in RequestIds
    BY <2>1, IdsAssumption DEF DistinctIds
  <2>3. committed'[request_id[q]] = committed[request_id[q]]
    BY <1>1, <2>2
  <2>4. blocks_needed(worst_len(q))' = blocks_needed(worst_len(q))
    BY DEF blocks_needed, worst_len
  <2>5. QED
    BY <1>3, <2>1, <2>3, <2>4 DEF ReserveInv
<1>4. QED
  BY <1>2, <1>3 DEF ReserveInv, Reserving

(* Steps that leave the promises and the admitted alone.                   *)
LEMMA OtherReserve ==
  ASSUME ReserveInv, UNCHANGED <<cfg, committed>>, Admitted' = Admitted,
         \A r \in Admitted : worst_len(r)' = worst_len(r),
         pc' = "evict" => cfg.preemption,
         pc' # "dead"
  PROVE  ReserveInv'
<1>1. PromisedBlocks' = PromisedBlocks
  BY DEF PromisedBlocks, Blocks
<1>2. \A r \in Admitted : blocks_needed(worst_len(r))' = blocks_needed(worst_len(r))
  BY DEF blocks_needed
<1>3. QED
  BY <1>1, <1>2 DEF ReserveInv, Reserving

LEMMA ReserveStep ==
  ASSUME DistinctIds, LengthInv, RoomInv, ReserveInv, [Next]_vars
  PROVE  ReserveInv'
<1> TypeOK
  BY DEF LengthInv, SeatInv
<1>0. pc # "dead" /\ (pc = "evict" => cfg.preemption)
  BY DEF ReserveInv
<1>1. CASE UNCHANGED vars
  BY <1>0, <1>1, OtherReserve
  DEF vars, threadVars, requestVars, memoryVars, Admitted, worst_len
<1>2. ASSUME NEW r \in Requests, NEW p \in PromptLens, NEW m \in MaxNewTokens,
             Submit(r, p, m)
      PROVE  ReserveInv'
  <2>1. /\ pc = "loop" /\ pc' = "loop" /\ state[r] = "new" /\ running' = running
        /\ UNCHANGED <<cfg, committed>>
        /\ \A q \in Requests : q # r =>
             prompt_len'[q] = prompt_len[q] /\ max_new'[q] = max_new[q]
    BY <1>2 DEF Submit, memoryVars, TypeOK
  <2>2. r \notin Admitted /\ Admitted' = Admitted /\ Admitted \subseteq Requests
    BY <2>1 DEF Admitted, LengthInv, SeatInv, SeatsAgree, StatesFollowLists, TypeOK
  <2>3. \A q \in Admitted : worst_len(q)' = worst_len(q)
    BY <2>1, <2>2 DEF worst_len
  <2>4. QED
    BY <2>1, <2>2, <2>3, OtherReserve
<1>3. ASSUME NEW r \in Impatient, Disconnect(r) \/ SetCancelled(r)
      PROVE  ReserveInv'
  BY <1>0, <1>3, OtherReserve
  DEF Disconnect, SetCancelled, threadVars, memoryVars, Admitted, worst_len
<1>4. CASE BeginStep \/ EndRetire \/ EndAdmit \/ Prefill \/ BeginDecode \/ DecodeStep
  <2>1. /\ UNCHANGED <<cfg, committed, prompt_len, max_new>>
        /\ pc' # "evict" /\ pc' # "dead"
    BY <1>4 DEF BeginStep, EndRetire, EndAdmit, Prefill, BeginDecode, DecodeStep,
       memoryVars, requestVars
  <2>2. Admitted' = Admitted
    BY <1>4 DEF BeginStep, EndRetire, EndAdmit, Prefill, BeginDecode, DecodeStep,
       Admitted, LengthInv, SeatInv
  <2>3. QED
    BY <2>1, <2>2, OtherReserve DEF worst_len
<1>5. ASSUME NEW r \in Requests, Retire(r) PROVE ReserveInv'
  <2>1. Admitted' \subseteq Admitted \ {r}
    BY <1>5 DEF Retire, Admitted
  <2>2. QED
    BY <1>5, <2>1, FreeReserve DEF Retire
<1>6. ASSUME NEW r \in Requests, Admit(r) PROVE ReserveInv'
  BY <1>6, AdmitReserve
<1>7. ASSUME NEW r \in Requests, AdmitAsserts(r) PROVE FALSE
  BY <1>7, AdmissionSucceeds DEF AdmitAsserts
<1>8. CASE AppendSlot
  <2>1. i \in 1..Len(active) /\ active \in Seq(Requests)
    BY <1>8 DEF AppendSlot, TypeOK
  <2>2. PICK r \in Requests : r = active[i]
    BY <2>1
  <2>3. r \in Rows /\ pc = "ensure"
    BY <1>8, <2>1, <2>2 DEF Rows, AppendSlot
  <2>4. /\ append_slot(r, seq_len(r))
        /\ IF AppendSucceeds(r, seq_len(r)) THEN pc' = "ensure" ELSE pc' = "evict"
        /\ UNCHANGED <<cfg, committed, running, batch, prompt_len, max_new>>
    BY <1>8, <2>2 DEF AppendSlot, append_slot, requestVars
  <2>5. ASSUME ~AppendSucceeds(r, seq_len(r)) PROVE cfg.preemption
    <3>1. /\ cfg.backend = "contiguous" =>
               Len(block_table[r]) = 1 /\ UnitsFor(seq_len(r)) = 1
          /\ Len(block_table[r]) \in Nat /\ Len(free_blocks) \in Nat
      BY <2>3, RowFacts, ListLengths
    <3>2. ~(UnitsFor(seq_len(r)) <= Len(block_table[r]) + Len(free_blocks))
      BY <2>4, <2>5, <3>1, AppendLengths
    <3>3. ASSUME cfg.backend = "contiguous" PROVE FALSE
      <4>1. Len(block_table[r]) = 1 /\ UnitsFor(seq_len(r)) = 1
        BY <3>1, <3>3
      <4>2. QED
        BY <3>1, <3>2, <4>1
    <3>4. cfg.backend = "paged"
      BY <3>3, ConfigsAssumption DEF TypeOK, MemoryTypeOK, EngineConfig
    <3>5. ~Reserving
      BY <2>3, <3>2, PromisesCovered
    <3>6. QED
      BY <3>4, <3>5 DEF Reserving
  <2>6. Admitted' = Admitted /\ \A q \in Admitted : worst_len(q)' = worst_len(q)
    BY <2>3, <2>4 DEF Admitted, worst_len
  <2>7. QED
    BY <2>4, <2>5, <2>6, OtherReserve
<1>9. CASE Preempt
  <2>1. PICK v \in 1..Len(active) :
          free(active[v]) /\ running' = running \ {active[v]}
    BY <1>9 DEF Preempt
  <2>2. PICK victim \in Requests : victim = active[v]
    BY DEF TypeOK
  <2>3. free(victim) /\ Admitted' \subseteq Admitted \ {victim}
    BY <1>9, <2>1, <2>2 DEF Preempt, Admitted
  <2>4. QED
    BY <1>9, <2>3, FreeReserve DEF Preempt
<1>10. CASE OutOfBlocks
  BY <1>0, <1>10 DEF OutOfBlocks
<1>11. QED
  BY <1>1, <1>2, <1>3, <1>4, <1>5, <1>6, <1>7, <1>8, <1>9, <1>10
  DEF Next, EngineStep, ApiStep, Idle

LEMMA ReserveInit == Init => ReserveInv
<1> SUFFICES ASSUME Init PROVE ReserveInv
  OBVIOUS
<1>1. TypeOK
  BY TypeInit
<1>2. PromisedBlocks = {}
  BY <1>1 DEF Init, MemoryInit, PromisedBlocks, Blocks
<1>3. Cardinality(PromisedBlocks) <= cfg.num_blocks
  BY <1>1, <1>2, BlocksCount, FS_EmptySet
<1>4. QED
  BY <1>3 DEF Init, ReserveInv, Admitted

LEMMA ReserveInvariant ==
  ASSUME DistinctIds
  PROVE  Spec => [](LengthInv /\ RoomInv /\ ReserveInv)
<1>1. Init => LengthInv /\ RoomInv /\ ReserveInv
  BY SeatInit, TokenInit, LimitInit, RoomInit, ReserveInit DEF LengthInv
<1>2. LengthInv /\ RoomInv /\ ReserveInv /\ [Next]_vars
        => LengthInv' /\ RoomInv' /\ ReserveInv'
  BY SeatStep, TokenStep, LimitStep, RoomStep, ReserveStep DEF LengthInv
<1>3. QED
  BY <1>1, <1>2, PTL DEF Spec

(* "M4 has no preemption, so it must never over-commit": with an id for    *)
(* each request the worst cases of everyone admitted fit the pool together.*)
THEOREM ReserveNeverOverCommits ==
  ASSUME DistinctIds PROVE Spec => []NeverOverCommit
<1>1. LengthInv /\ ReserveInv => NeverOverCommit
  BY WorstCasePromised DEF NeverOverCommit, Reserving
<1>2. QED
  BY <1>1, ReserveInvariant, PTL

(* Neither the assert of allocate nor the RuntimeError of _ensure_capacity *)
(* ever ends the engine thread.                                            *)
THEOREM EngineThreadSurvives ==
  ASSUME DistinctIds PROVE Spec => []EngineSurvives
<1>1. ReserveInv => EngineSurvives
  BY DEF ReserveInv, EngineSurvives
<1>2. QED
  BY <1>1, ReserveInvariant, PTL
-----------------------------------------------------------------------------
(* The scheduler implements the token stream (its safety part).            *)

(* Each kind of step of TokenStream, by what happens to StreamOf.          *)
LEMMA StreamStutters ==
  ASSUME UNCHANGED <<max_new, out_len>>,
         \A r \in Requests : /\ StreamOf(r)' = StreamOf(r)
                             /\ cancelled(r)' = cancelled(r)
  PROVE  UNCHANGED Stream!streamVars
BY DEF Stream!streamVars

LEMMA StreamOpens ==
  ASSUME NEW r \in Requests, StreamOf(r) = "none", StreamOf(r)' = "open",
         max_new'[r] \in Nat,
         \A q \in Requests : q # r =>
           StreamOf(q)' = StreamOf(q) /\ max_new'[q] = max_new[q],
         UNCHANGED <<out_len, client>>
  PROVE  Stream!Next
<1>1. Stream!Open(r)
  BY DEF Stream!Open, cancelled
<1>2. QED
  BY <1>1 DEF Stream!Next

LEMMA StreamIsAbandoned ==
  ASSUME NEW r \in Requests, StreamOf(r) # "none",
         \A q \in Requests : cancelled(q)' <=> q = r \/ cancelled(q),
         \A q \in Requests : StreamOf(q)' = StreamOf(q),
         UNCHANGED <<max_new, out_len>>
  PROVE  Stream!Next
<1>1. Stream!Abandon(r)
  BY DEF Stream!Abandon
<1>2. QED
  BY <1>1 DEF Stream!Next

LEMMA StreamDrops ==
  ASSUME NEW S \in SUBSET Requests, S # {},
         \A r \in S : StreamOf(r) = "open" /\ cancelled(r),
         \A r \in Requests :
           StreamOf(r)' = IF r \in S THEN "dropped" ELSE StreamOf(r),
         UNCHANGED <<max_new, out_len, client>>
  PROVE  Stream!Next
<1>1. PICK c \in S : TRUE
  OBVIOUS
<1>2. S \in SUBSET Stream!Live
  BY DEF Stream!Live
<1>3. Stream!Drop(S)
  BY <1>2 DEF Stream!Drop, cancelled
<1>4. Stream!Progress(c)
  BY <1>1, <1>2, <1>3 DEF Stream!Progress
<1>5. QED
  BY <1>1, <1>4 DEF Stream!Next

LEMMA StreamSends ==
  ASSUME NEW S \in SUBSET Requests, S # {},
         \A r \in S : /\ StreamOf(r) = "open"
                      /\ StreamOf(r)' \in {"open", "done"}
                      /\ out_len[r] + 1 >= max_new[r] => StreamOf(r)' = "done",
         \A r \in Requests \ S : StreamOf(r)' = StreamOf(r),
         out_len' =
           [r \in Requests |-> IF r \in S THEN out_len[r] + 1 ELSE out_len[r]],
         UNCHANGED <<max_new, client>>
  PROVE  Stream!Next
<1> DEFINE last == {r \in S : StreamOf(r)' = "done"}
<1>1. PICK c \in S : TRUE
  OBVIOUS
<1>2. S \in SUBSET Stream!Live /\ last \in SUBSET S
  BY DEF Stream!Live
<1>3. \A r \in Requests :
        StreamOf(r)' = IF r \in last THEN "done" ELSE StreamOf(r)
  OBVIOUS
<1>4. Stream!Send(S, last)
  BY <1>2, <1>3 DEF Stream!Send, cancelled
<1>5. Stream!Progress(c)
  BY <1>1, <1>2, <1>4 DEF Stream!Progress
<1>6. QED
  BY <1>1, <1>5 DEF Stream!Next

LEMMA StreamSame ==
  ASSUME UNCHANGED <<state, finish_reason, client, max_new, out_len>>,
         waiting' \cup Admitted' = waiting \cup Admitted
  PROVE  UNCHANGED Stream!streamVars
<1>1. \A r \in Requests : /\ StreamOf(r)' = StreamOf(r)
                          /\ cancelled(r)' = cancelled(r)
  BY DEF StreamOf, cancelled
<1>2. QED
  BY <1>1, StreamStutters

(* A new request opens a stream.                                           *)
LEMMA SubmitOpens ==
  ASSUME LengthInv, NEW r \in Requests, NEW p \in PromptLens,
         NEW m \in MaxNewTokens, Submit(r, p, m)
  PROVE  Stream!Next
<1> TypeOK /\ TypeOK'
  BY TypeStep DEF LengthInv, SeatInv, Next, ApiStep
<1>1. /\ state[r] = "new" /\ state' = [state EXCEPT ![r] = "WAITING"]
      /\ waiting' = waiting \cup {r} /\ Admitted' = Admitted
      /\ UNCHANGED <<finish_reason, out_len, client>>
  BY DEF Submit, Admitted
<1>2. finish_reason[r] = "none"
  BY <1>1 DEF LengthInv, TokenInv
<1>3. StreamOf(r) = "none" /\ StreamOf(r)' = "open"
  BY <1>1, <1>2 DEF StreamOf, TypeOK
<1>4. \A q \in Requests : q # r =>
        StreamOf(q)' = StreamOf(q) /\ max_new'[q] = max_new[q]
  BY <1>1 DEF StreamOf, TypeOK, Submit
<1>5. max_new'[r] \in Nat
  BY DEF TypeOK
<1>6. QED
  BY <1>1, <1>3, <1>4, <1>5, StreamOpens

(* The flag of a client that has left is seen from now on.                 *)
LEMMA SetCancelledAbandons ==
  ASSUME LengthInv, NEW r \in Impatient, SetCancelled(r)
  PROVE  Stream!Next
<1> TypeOK /\ r \in Requests
  BY InputsAssumption DEF LengthInv, SeatInv
<1>1. /\ client[r] = "leaving" /\ client' = [client EXCEPT ![r] = "gone"]
      /\ UNCHANGED <<state, finish_reason, waiting, max_new, out_len>>
      /\ Admitted' = Admitted
  BY DEF SetCancelled, threadVars, Admitted
<1>2. state[r] # "new"
  BY <1>1 DEF LengthInv, TokenInv
<1>3. StreamOf(r) # "none"
  BY <1>2 DEF StreamOf
<1>4. \A q \in Requests : cancelled(q)' <=> q = r \/ cancelled(q)
  BY <1>1 DEF cancelled, TypeOK
<1>5. \A q \in Requests : StreamOf(q)' = StreamOf(q)
  BY <1>1 DEF StreamOf
<1>6. QED
  BY <1>1, <1>3, <1>4, <1>5, StreamIsAbandoned

(* _retire drops exactly what its clients abandoned: from the queue, and   *)
(* from the batch what had not finished yet.                               *)
LEMMA BeginStepDrops ==
  ASSUME LengthInv, BeginStep
  PROVE  Stream!Next \/ UNCHANGED Stream!streamVars
<1> DEFINE S == {r \in Requests : /\ cancelled(r)
                                  /\ r \in waiting \/ MarkedCancelled(r)}
<1> TypeOK
  BY DEF LengthInv, SeatInv
<1>1. /\ waiting' = {r \in waiting : ~cancelled(r)}
      /\ finish_reason' = [r \in Requests |->
           IF MarkedCancelled(r) THEN "cancelled" ELSE finish_reason[r]]
      /\ UNCHANGED <<state, max_new, out_len, client>>
      /\ Admitted = running /\ Admitted' = running
      /\ waiting \cap running = {}
  BY DEF BeginStep, Admitted, LengthInv, SeatInv, SeatsAgree, QueuedOnce
<1>2. \A r \in waiting \cup running :
        state[r] \in {"WAITING", "RUNNING"} /\ (r \in waiting => ~finished(r))
  BY <1>1 DEF LengthInv, SeatInv, SeatsAgree, StatesFollowLists, TokenInv,
     BeginStep
<1>3. \A r \in S : StreamOf(r) = "open" /\ cancelled(r)
  BY <1>1, <1>2 DEF StreamOf, MarkedCancelled, finished
<1>4. \A r \in Requests :
        StreamOf(r)' = IF r \in S THEN "dropped" ELSE StreamOf(r)
  <2> SUFFICES ASSUME NEW r \in Requests
               PROVE  StreamOf(r)' = IF r \in S THEN "dropped" ELSE StreamOf(r)
    OBVIOUS
  <2>1. CASE r \in waiting
    <3>1. ~MarkedCancelled(r) /\ state[r] # "new" /\ finish_reason[r] = "none"
      BY <1>1, <1>2, <2>1 DEF MarkedCancelled, finished
    <3>2. r \in waiting' <=> ~cancelled(r)
      BY <1>1, <2>1
    <3>3. finish_reason'[r] = "none" /\ state'[r] # "new" /\ r \notin running
      BY <1>1, <2>1, <3>1
    <3>4. QED
      BY <1>1, <2>1, <3>1, <3>2, <3>3 DEF StreamOf
  <2>2. CASE r \notin waiting /\ MarkedCancelled(r)
    BY <1>1, <1>2, <2>2 DEF StreamOf, MarkedCancelled
  <2>3. CASE r \notin waiting /\ ~MarkedCancelled(r)
    <3>1. finish_reason'[r] = finish_reason[r] /\ r \notin waiting' /\ r \notin S
      BY <1>1, <2>3
    <3>2. QED
      BY <1>1, <2>3, <3>1 DEF StreamOf
  <2>4. QED
    BY <2>1, <2>2, <2>3
<1>5. CASE S = {}
  <2>1. \A r \in Requests : /\ StreamOf(r)' = StreamOf(r)
                            /\ cancelled(r)' = cancelled(r)
    BY <1>1, <1>4, <1>5 DEF cancelled
  <2>2. QED
    BY <1>1, <2>1, StreamStutters
<1>6. CASE S # {}
  <2>1. S \in SUBSET Requests
    OBVIOUS
  <2> HIDE DEF S
  <2>2. QED
    BY <1>1, <1>3, <1>4, <1>6, <2>1, StreamDrops
<1>7. QED
  BY <1>5, <1>6

(* One token for everyone in S, who are open and stay in the lists.        *)
LEMMA EmissionSends ==
  ASSUME LengthInv, NEW S \in SUBSET Requests, NEW stops, Emit(S, stops),
         \A r \in S : /\ StreamOf(r) = "open" /\ finish_reason[r] = "none"
                      /\ state'[r] # "new" /\ r \in waiting' \cup Admitted',
         \A r \in Requests \ S : /\ state'[r] = state[r]
                                 /\ r \in waiting' \cup Admitted' <=>
                                      r \in waiting \cup Admitted,
         UNCHANGED <<max_new, client>>
  PROVE  Stream!Next \/ UNCHANGED Stream!streamVars
<1> TypeOK
  BY DEF LengthInv, SeatInv
<1>1. out_len' =
        [r \in Requests |-> IF r \in S THEN out_len[r] + 1 ELSE out_len[r]]
  BY DEF Emit
<1>2. \A r \in S :
        /\ finish_reason'[r] \in {"length", "stop", "none"}
        /\ out_len[r] + 1 >= max_new[r] => finish_reason'[r] = "length"
  BY DEF Emit, ReasonAfter
<1>3. \A r \in S :
        /\ StreamOf(r)' \in {"open", "done"}
        /\ out_len[r] + 1 >= max_new[r] => StreamOf(r)' = "done"
  BY <1>2 DEF StreamOf
<1>4. \A r \in Requests \ S : finish_reason'[r] = finish_reason[r]
  BY DEF Emit
<1>5. \A r \in Requests \ S : StreamOf(r)' = StreamOf(r)
  BY <1>4 DEF StreamOf
<1>6. CASE S = {}
  <2>1. out_len' = out_len
    BY <1>1, <1>6 DEF TypeOK
  <2>2. \A r \in Requests : /\ StreamOf(r)' = StreamOf(r)
                            /\ cancelled(r)' = cancelled(r)
    BY <1>5, <1>6 DEF cancelled
  <2>3. QED
    BY <2>1, <2>2, StreamStutters
<1>7. CASE S # {}
  BY <1>1, <1>3, <1>5, <1>7, StreamSends
<1>8. QED
  BY <1>6, <1>7

LEMMA PrefillSends ==
  ASSUME LengthInv, Prefill
  PROVE  Stream!Next \/ UNCHANGED Stream!streamVars
<1> TypeOK
  BY DEF LengthInv, SeatInv
<1>1. PICK stops \in SUBSET batch : Emit(batch, stops)
  BY DEF Prefill
<1>2. /\ Admitted = running \cup batch /\ Admitted' = running \cup batch
      /\ state' = [r \in Requests |-> IF r \in batch THEN "RUNNING" ELSE state[r]]
      /\ UNCHANGED <<waiting, max_new, client>>
  BY DEF Prefill, Admitted
<1>3. \A r \in batch : state[r] = "WAITING" /\ finish_reason[r] = "none"
  BY DEF LengthInv, SeatInv, TokenInv, Prefill, finished
<1>4. \A r \in batch : /\ StreamOf(r) = "open" /\ finish_reason[r] = "none"
                       /\ state'[r] # "new" /\ r \in waiting' \cup Admitted'
  BY <1>2, <1>3 DEF StreamOf, TypeOK
<1>5. \A r \in Requests \ batch : /\ state'[r] = state[r]
                                  /\ r \in waiting' \cup Admitted' <=>
                                       r \in waiting \cup Admitted
  BY <1>2
<1>6. batch \in SUBSET Requests
  BY DEF TypeOK
<1>7. QED
  BY <1>1, <1>2, <1>4, <1>5, <1>6, EmissionSends

LEMMA DecodeSends ==
  ASSUME LengthInv, DecodeStep
  PROVE  Stream!Next \/ UNCHANGED Stream!streamVars
<1> TypeOK
  BY DEF LengthInv, SeatInv
<1>1. PICK stops \in SUBSET Rows : Emit(Rows, stops)
  BY DEF DecodeStep
<1>2. /\ Admitted = running /\ Admitted' = running
      /\ UNCHANGED <<state, waiting, max_new, client>>
  BY DEF DecodeStep, Admitted
<1>3. Rows = Unfinished
  BY DEF LengthInv, TokenInv, DecodeStep
<1>4. \A r \in Rows : r \in running /\ finish_reason[r] = "none"
  BY <1>3 DEF Unfinished, finished
<1>5. \A r \in running : state[r] = "RUNNING"
  BY DEF LengthInv, SeatInv, SeatsAgree, StatesFollowLists, DecodeStep
<1>6. \A r \in Rows : /\ StreamOf(r) = "open" /\ finish_reason[r] = "none"
                      /\ state'[r] # "new" /\ r \in waiting' \cup Admitted'
  BY <1>2, <1>4, <1>5 DEF StreamOf
<1>7. \A r \in Requests \ Rows : /\ state'[r] = state[r]
                                 /\ r \in waiting' \cup Admitted' <=>
                                      r \in waiting \cup Admitted
  BY <1>2
<1>8. Rows \in SUBSET Requests
  BY <1>4 DEF TypeOK
<1>9. QED
  BY <1>1, <1>2, <1>6, <1>7, <1>8, EmissionSends

(* Every step of the scheduler is a step of the token stream, or none.     *)
LEMMA StreamStep ==
  ASSUME DistinctIds, LengthInv, RoomInv, ReserveInv, [Next]_vars
  PROVE  Stream!Next \/ UNCHANGED Stream!streamVars
<1> TypeOK
  BY DEF LengthInv, SeatInv
<1>1. CASE UNCHANGED vars \/ Idle
  BY <1>1, StreamSame DEF vars, requestVars, threadVars, Idle, Admitted
<1>2. ASSUME NEW r \in Requests, NEW p \in PromptLens, NEW m \in MaxNewTokens,
             Submit(r, p, m)
      PROVE  Stream!Next
  BY <1>2, SubmitOpens
<1>3. ASSUME NEW r \in Impatient, Disconnect(r)
      PROVE  UNCHANGED Stream!streamVars
  <2>1. /\ client[r] = "reading" /\ client' = [client EXCEPT ![r] = "leaving"]
        /\ UNCHANGED <<state, finish_reason, waiting, max_new, out_len>>
        /\ Admitted' = Admitted
    BY <1>3 DEF Disconnect, threadVars, Admitted
  <2>2. \A q \in Requests : /\ StreamOf(q)' = StreamOf(q)
                            /\ cancelled(q)' = cancelled(q)
    BY <2>1 DEF StreamOf, cancelled, TypeOK
  <2>3. QED
    BY <2>1, <2>2, StreamStutters
<1>4. ASSUME NEW r \in Impatient, SetCancelled(r) PROVE Stream!Next
  BY <1>4, SetCancelledAbandons
<1>5. CASE BeginStep
  BY <1>5, BeginStepDrops
<1>6. ASSUME NEW r \in Requests, Retire(r) PROVE UNCHANGED Stream!streamVars
  <2>1. /\ finish_reason[r] # "none" /\ r \in running
        /\ state' = [state EXCEPT ![r] = "FINISHED"]
        /\ running' = running \ {r}
        /\ UNCHANGED <<pc, batch, finish_reason, waiting, max_new, out_len,
                       client>>
    BY <1>6 DEF Retire, Oldest, finished
  <2>2. state[r] = "RUNNING" /\ Admitted' \cup {r} = Admitted \cup {r}
    BY <1>6, <2>1 DEF LengthInv, SeatInv, SeatsAgree, StatesFollowLists,
       Admitted, Retire
  <2>3. \A q \in Requests : /\ StreamOf(q)' = StreamOf(q)
                            /\ cancelled(q)' = cancelled(q)
    <3> SUFFICES ASSUME NEW q \in Requests
                 PROVE  StreamOf(q)' = StreamOf(q) /\ cancelled(q)' = cancelled(q)
      OBVIOUS
    <3>1. CASE q = r
      <4>1. finish_reason[r] \in {"length", "stop", "cancelled"}
        BY <2>1 DEF TypeOK
      <4>2. QED
        BY <2>1, <2>2, <3>1, <4>1 DEF StreamOf, cancelled, TypeOK
    <3>2. CASE q # r
      <4>1. state'[q] = state[q] /\ (q \in Admitted' <=> q \in Admitted)
        BY <2>1, <2>2, <3>2 DEF TypeOK
      <4>2. QED
        BY <2>1, <4>1 DEF StreamOf, cancelled
    <3>3. QED
      BY <3>1, <3>2
  <2>4. QED
    BY <2>1, <2>3, StreamStutters
<1>7. CASE EndRetire \/ EndAdmit \/ BeginDecode
  BY <1>7, StreamSame
  DEF EndRetire, EndAdmit, BeginDecode, requestVars, Admitted, LengthInv, SeatInv
<1>8. ASSUME NEW r \in Requests, Admit(r) PROVE UNCHANGED Stream!streamVars
  <2>1. r \in waiting
    BY <1>8 DEF Admit, Admissible, IsHead
  <2>2. QED
    BY <1>8, <2>1, StreamSame DEF Admit, Admitted
<1>9. ASSUME NEW r \in Requests, AdmitAsserts(r) PROVE FALSE
  BY <1>9, AdmissionSucceeds DEF AdmitAsserts
<1>10. CASE Prefill
  BY <1>10, PrefillSends
<1>11. CASE AppendSlot
  BY <1>11, StreamSame DEF AppendSlot, requestVars, Admitted
<1>12. CASE Preempt
  <2>1. PICK v \in 1..Len(active) :
          /\ running' = running \ {active[v]}
          /\ waiting' = waiting \cup {active[v]}
          /\ state' = [state EXCEPT ![active[v]] = "WAITING"]
    BY <1>12 DEF Preempt
  <2>2. PICK victim \in Requests : victim = active[v]
    BY DEF TypeOK
  <2>3. /\ victim \in running
        /\ Admitted = running /\ Admitted' = running'
        /\ UNCHANGED <<finish_reason, max_new, out_len, client>>
    <3>1. pc = "evict" /\ pc' = "ensure"
      BY <1>12 DEF Preempt
    <3>2. victim \in Rows /\ Rows \subseteq running
      BY <2>2, <3>1 DEF Rows, LengthInv, SeatInv, RowsRunning
    <3>3. QED
      BY <1>12, <3>1, <3>2 DEF Preempt, Admitted
  <2>4. state[victim] = "RUNNING"
    BY <1>12, <2>3
    DEF Preempt, LengthInv, SeatInv, SeatsAgree, StatesFollowLists
  <2>5. waiting' \cup Admitted' = waiting \cup Admitted
    BY <2>1, <2>2, <2>3
  <2>6. \A q \in Requests : state'[q] = "new" <=> state[q] = "new"
    BY <2>1, <2>2, <2>4 DEF TypeOK
  <2>7. \A q \in Requests : /\ StreamOf(q)' = StreamOf(q)
                            /\ cancelled(q)' = cancelled(q)
    BY <2>3, <2>5, <2>6 DEF StreamOf, cancelled
  <2>8. QED
    BY <2>3, <2>7, StreamStutters
<1>13. CASE OutOfBlocks
  BY <1>13 DEF OutOfBlocks, ReserveInv
<1>14. CASE DecodeStep
  BY <1>14, DecodeSends
<1>15. QED
  BY <1>1, <1>2, <1>3, <1>4, <1>5, <1>6, <1>7, <1>8, <1>9, <1>10, <1>11, <1>12,
     <1>13, <1>14
  DEF Next, EngineStep, ApiStep

(* Queueing, eviction and recomputation are invisible to the clients: the  *)
(* safety part of ImplementsStream.  A client receives every token once,   *)
(* in order, up to its limit, with exactly one last one, and only the      *)
(* request of a client that went away is dropped.                          *)
THEOREM SchedulerServesStreams ==
  ASSUME DistinctIds PROVE Spec => Stream!Spec
<1>1. Init => Stream!Init
  <2> SUFFICES ASSUME Init
               PROVE  /\ \A r \in Requests : StreamOf(r) = "none"
                      /\ {r \in Requests : cancelled(r)} = {}
    BY DEF Stream!Init, Init
  <2>1. QED
    BY DEF Init, StreamOf, cancelled
<1>2. LengthInv /\ RoomInv /\ ReserveInv /\ [Next]_vars
        => [Stream!Next]_(Stream!streamVars)
  BY StreamStep
<1>3. QED
  BY <1>1, <1>2, ReserveInvariant, PTL DEF Spec, Stream!Spec
-----------------------------------------------------------------------------
(* The forward steps of the model: each request as if it were alone.       *)

(* Where a position of a request lies: its block, and its place in it.     *)
LEMMA UnitSizeType ==
  ASSUME TypeOK
  PROVE  UnitSize \in Nat \ {0}
BY SizesAssumption DEF UnitSize

LEMMA Division ==
  ASSUME NEW p \in Nat, NEW u \in Nat \ {0}
  PROVE  /\ p \div u \in Nat /\ p % u \in 0..(u - 1)
         /\ p = u * (p \div u) + (p % u)
<1>1. p \div u \in Nat
  OBVIOUS
<1>2. p % u \in 0..(u - 1)
  OBVIOUS
<1>3. p = u * (p \div u) + (p % u)
  OBVIOUS
<1>4. QED
  BY <1>1, <1>2, <1>3

LEMMA QuotientBelow ==
  ASSUME NEW p \in Nat, NEW u \in Nat \ {0}, NEW n \in Nat, p < n * u
  PROVE  p \div u < n
<1> DEFINE q == p \div u
<1>1. q \in Nat /\ q * u <= p
  BY Division
<1> HIDE DEF q
<1>2. q * u < n * u
  BY <1>1
<1>3. CASE n = 0
  BY <1>2, <1>3, <1>1
<1>4. CASE n > 0
  <2>1. n - 1 \in Nat /\ (n - 1) + 1 = n
    BY <1>4
  <2>2. q <= n - 1
    BY <1>1, <1>2, <2>1, ProductOrder
  <2>3. QED
    BY <1>1, <2>2 DEF q
<1>5. QED
  BY <1>3, <1>4

(* A position is determined by its unit and its place in it.               *)
LEMMA DivisionUnique ==
  ASSUME NEW p \in Nat, NEW q \in Nat, NEW u \in Nat \ {0},
         p \div u = q \div u, p % u = q % u
  PROVE  p = q
<1> DEFINE a == p \div u
           b == p % u
<1>1. p = u * a + b /\ q = u * a + b
  <2>1. p = u * (p \div u) + (p % u)
    BY Division
  <2>2. q = u * (q \div u) + (q % u)
    BY Division
  <2>3. QED
    BY <2>1, <2>2
<1>2. QED
  BY <1>1

(* Position p of request r lies in the memory r holds.                     *)
Placed(r, p) ==
  /\ p \in 0..(MaxContext - 1)
  /\ p \div UnitSize + 1 \in 1..Len(block_table[r])

LEMMA PlacedWithin ==
  ASSUME TypeOK, NEW r \in Requests, NEW n \in Nat, n <= MaxContext,
         UnitsFor(n) <= Len(block_table[r]), NEW p \in 0..(n - 1)
  PROVE  /\ Placed(r, p)
         /\ p \div UnitSize < UnitsFor(n)
<1>1. /\ UnitSize \in Nat \ {0} /\ Len(block_table[r]) \in Nat
      /\ UnitsFor(n) \in Nat /\ MaxContext \in Nat
  <2>1. UnitSize \in Nat \ {0}
    BY UnitSizeType
  <2>2. Len(block_table[r]) \in Nat
    BY ListLengths
  <2>3. UnitsFor(n) \in Nat
    BY BlocksNeededType DEF UnitsFor
  <2>4. QED
    BY <2>1, <2>2, <2>3, SizesAssumption
<1>2. p \in Nat /\ p < n /\ p \in 0..(MaxContext - 1)
  BY <1>1
<1>3. n <= UnitsFor(n) * UnitSize
  <2>1. CASE cfg.backend = "paged"
    BY <2>1, BlocksNeededBounds DEF UnitsFor, UnitSize
  <2>2. CASE cfg.backend # "paged"
    BY <1>1, <2>2 DEF UnitsFor, UnitSize
  <2>3. QED
    BY <2>1, <2>2
<1>4. p \div UnitSize \in Nat
  BY <1>1, <1>2, Division
<1>5. p < UnitsFor(n) * UnitSize
  <2>1. UnitsFor(n) * UnitSize \in Nat
    BY <1>1
  <2>2. QED
    BY <1>2, <1>3, <2>1
<1>6. p \div UnitSize < UnitsFor(n)
  BY <1>1, <1>2, <1>5, QuotientBelow
<1>7. QED
  BY <1>1, <1>2, <1>4, <1>6 DEF Placed

LEMMA PlacedIsCell ==
  ASSUME TypeOK, NEW r \in Requests, NEW p, Placed(r, p)
  PROVE  CellOf(block_table[r], p) \in Cells
<1>1. p \in Nat /\ UnitSize \in Nat \ {0}
  BY UnitSizeType, SizesAssumption DEF Placed
<1>2. p % UnitSize \in 0..(UnitSize - 1)
  BY <1>1, Division
<1>3. block_table[r] \in Seq(Blocks)
  BY DEF TypeOK, MemoryTypeOK
<1>4. block_table[r][p \div UnitSize + 1] \in Blocks
  BY <1>3 DEF Placed
<1>5. QED
  BY <1>2, <1>4 DEF CellOf, Cells

LEMMA CellsDistinct ==
  ASSUME TypeOK, TablesDisjoint, NEW r \in Requests, NEW q \in Requests,
         NEW p, NEW o, Placed(r, p), Placed(q, o),
         CellOf(block_table[r], p) = CellOf(block_table[q], o)
  PROVE  r = q /\ p = o
<1>1. p \in Nat /\ o \in Nat /\ UnitSize \in Nat \ {0}
  BY UnitSizeType, SizesAssumption DEF Placed
<1>2. /\ block_table[r][p \div UnitSize + 1] = block_table[q][o \div UnitSize + 1]
      /\ p % UnitSize = o % UnitSize
  BY DEF CellOf
<1>3. r = q /\ p \div UnitSize + 1 = o \div UnitSize + 1
  BY <1>2 DEF TablesDisjoint, Placed
<1>4. p \div UnitSize = o \div UnitSize
  <2>1. p \div UnitSize \in Nat /\ o \div UnitSize \in Nat
    BY <1>1, Division
  <2>2. QED
    BY <1>3, <2>1
<1>5. QED
  BY <1>1, <1>2, <1>3, <1>4, DivisionUnique

(* Every token counted by `held' has its place.                            *)
Fits(held) ==
  /\ held \in [Requests -> Nat]
  /\ \A r \in Requests : held[r] # 0 =>
       held[r] <= MaxContext /\ UnitsFor(held[r]) <= Len(block_table[r])

LEMMA StoredTokens ==
  ASSUME TypeOK, TablesDisjoint, NEW held, Fits(held),
         NEW r \in Requests, NEW p \in 0..(held[r] - 1)
  PROVE  /\ Placed(r, p)
         /\ Stored(held)[CellOf(block_table[r], p)] = <<r, p>>
<1> DEFINE c == CellOf(block_table[r], p)
           here == {t \in Requests \X (0..(MaxContext - 1)) :
                      /\ t[2] < held[t[1]]
                      /\ CellOf(block_table[t[1]], t[2]) = c}
<1>1. ASSUME NEW q \in Requests, NEW o \in Nat, o < held[q]
      PROVE  Placed(q, o)
  <2>1. held[q] \in Nat /\ held[q] # 0 /\ o \in 0..(held[q] - 1)
    BY <1>1 DEF Fits
  <2>2. QED
    BY <2>1, PlacedWithin DEF Fits
<1>2. p \in Nat /\ p < held[r]
  BY DEF Fits
<1>3. Placed(r, p)
  BY <1>1, <1>2
<1>4. <<r, p>> \in here
  BY <1>2, <1>3 DEF Placed
<1>5. \A t \in here : t = <<r, p>>
  <2> SUFFICES ASSUME NEW q \in Requests, NEW o \in 0..(MaxContext - 1),
                      o < held[q], CellOf(block_table[q], o) = c
               PROVE  q = r /\ o = p
    OBVIOUS
  <2>1. Placed(q, o)
    BY <1>1, SizesAssumption
  <2>2. QED
    BY <1>3, <2>1, CellsDistinct
<1>6. c \in Cells
  BY <1>3, PlacedIsCell
<1>7. Stored(held)[c] = IF here = {} THEN Stale ELSE CHOOSE t \in here : TRUE
  BY <1>6 DEF Stored
<1> HIDE DEF here
<1>8. QED
  BY <1>3, <1>4, <1>5, <1>7

(* What _prefill and _decode feed.                                         *)
Feeds(acc, rows, starts, ns, held) ==
  /\ acc = access(rows, starts, ns)
  /\ rows \in Seq(Requests)
  /\ DOMAIN starts = 1..Len(rows) /\ DOMAIN ns = 1..Len(rows)
  /\ \A k \in 1..Len(rows) :
       /\ starts[k] \in Nat /\ ns[k] \in Nat \ {0}
       /\ ns[k] > 1 => starts[k] = 0
       /\ starts[k] <= held[rows[k]]
       /\ starts[k] + ns[k] = seq_len(rows[k])
       /\ seq_len(rows[k]) <= MaxContext
       /\ UnitsFor(seq_len(rows[k])) <= Len(block_table[rows[k]])

LEMMA AccessFields ==
  ASSUME NEW acc, NEW rows, NEW starts, NEW ns, NEW held, Feeds(acc, rows, starts, ns, held)
  PROVE  /\ acc.rows = rows /\ acc.starts = starts /\ acc.ns = ns
         /\ acc.b = Len(rows) /\ acc.t = largest(ns)
         /\ acc.lk = largest(acc.totals)
         /\ DOMAIN acc.rows = 1..Len(rows) /\ DOMAIN acc.totals = 1..Len(rows)
         /\ \A k \in 1..Len(rows) : acc.totals[k] = starts[k] + ns[k]
BY DEF access, Feeds

(* The longest entry of a row of lengths.                                  *)
LEMMA LargestOf ==
  ASSUME NEW s, NEW n \in Nat \ {0}, DOMAIN s = 1..n, NEW b \in Nat,
         \A k \in 1..n : s[k] \in Nat /\ s[k] <= b
  PROVE  /\ largest(s) \in Nat
         /\ \A k \in 1..n : s[k] <= largest(s)
         /\ \E k \in 1..n : s[k] = largest(s)
<1> DEFINE T == {s[k] : k \in DOMAIN s}
<1>1. T \in SUBSET Nat /\ T # {} /\ \A x \in T : x <= b
  <2>1. s[1] \in T
    OBVIOUS
  <2>2. QED
    BY <2>1
<1> HIDE DEF T
<1>2. \E m \in T : \A x \in T : m >= x
  <2>1. \E m \in T : \A x \in T : x <= m
    BY <1>1, LargestElement
  <2>2. QED
    BY <1>1, <2>1
<1>3. /\ Max(T) \in T
      /\ \A x \in T : Max(T) >= x
  BY <1>2 DEF Max
<1>4. largest(s) = Max(T)
  BY DEF largest, T
<1>5. QED
  BY <1>1, <1>3, <1>4 DEF T

(* Token p of r is stored before the step or fed by it.                    *)
Known(rows, starts, ns, held, r, p) ==
  \/ p < held[r]
  \/ \E k \in 1..Len(rows) :
       rows[k] = r /\ starts[k] <= p /\ p < starts[k] + ns[k]

(* Every token a step feeds has a place of its own, whatever was there, and*)
(* what was stored elsewhere stays.                                        *)
LEMMA WrittenTokens ==
  ASSUME TypeOK, TablesDisjoint, NEW acc, NEW rows, NEW starts, NEW ns, NEW held,
         Feeds(acc, rows, starts, ns, held), Fits(held)
  PROVE  \A r \in Requests : \A p \in Nat :
           Known(rows, starts, ns, held, r, p) =>
             write(acc, Stored(held))[CellOf(block_table[r], p)] = <<r, p>>
<1> SUFFICES ASSUME NEW r \in Requests, NEW p \in Nat,
                    Known(rows, starts, ns, held, r, p)
             PROVE  write(acc, Stored(held))[CellOf(block_table[r], p)] = <<r, p>>
  OBVIOUS
<1> DEFINE c == CellOf(block_table[r], p)
           here == {q \in UNION {{k} \X Columns(acc, k) : k \in DOMAIN acc.rows} :
                      CellOf(block_table[acc.rows[q[1]]],
                             acc.starts[q[1]] + q[2]) = c}
           q == CHOOSE q \in here : TRUE
<1>1. /\ acc.rows = rows /\ acc.starts = starts /\ acc.ns = ns
      /\ DOMAIN acc.rows = 1..Len(rows)
  BY AccessFields
<1>2. ASSUME NEW k \in 1..Len(rows), NEW u \in 0..(ns[k] - 1)
      PROVE  /\ rows[k] \in Requests /\ starts[k] + u \in Nat
             /\ Placed(rows[k], starts[k] + u)
  <2>1. /\ rows[k] \in Requests /\ starts[k] \in Nat /\ ns[k] \in Nat
        /\ starts[k] + ns[k] = seq_len(rows[k]) /\ seq_len(rows[k]) <= MaxContext
        /\ UnitsFor(seq_len(rows[k])) <= Len(block_table[rows[k]])
    BY DEF Feeds
  <2>2. seq_len(rows[k]) \in Nat /\ starts[k] + u \in 0..(seq_len(rows[k]) - 1)
    BY <2>1
  <2>3. Placed(rows[k], starts[k] + u)
    BY <2>1, <2>2, PlacedWithin
  <2>4. QED
    BY <2>1, <2>2, <2>3
<1>3. Placed(r, p)
  <2>1. CASE p < held[r]
    <3>1. p \in 0..(held[r] - 1)
      BY <2>1 DEF Fits
    <3>2. QED
      BY <3>1, StoredTokens
  <2>2. ASSUME NEW k \in 1..Len(rows),
               rows[k] = r, starts[k] <= p, p < starts[k] + ns[k]
        PROVE  Placed(r, p)
    <3>1. starts[k] \in Nat /\ ns[k] \in Nat
      BY DEF Feeds
    <3>2. p - starts[k] \in 0..(ns[k] - 1) /\ starts[k] + (p - starts[k]) = p
      BY <2>2, <3>1
    <3>3. QED
      BY <1>2, <2>2, <3>2
  <2>3. QED
    BY <2>1, <2>2 DEF Known
<1>4. c \in Cells
  BY <1>3, PlacedIsCell
<1>5. ASSUME NEW x \in here
      PROVE  <<rows[x[1]], starts[x[1]] + x[2]>> = <<r, p>>
  <2>1. PICK k \in 1..Len(rows) : \E u \in 0..(ns[k] - 1) : x = <<k, u>>
    BY <1>1 DEF Columns
  <2> PICK u \in 0..(ns[k] - 1) : x = <<k, u>>
    BY <2>1
  <2>2. CellOf(block_table[rows[k]], starts[k] + u) = c
    BY <1>1
  <2>3. /\ rows[k] \in Requests /\ starts[k] + u \in Nat
        /\ Placed(rows[k], starts[k] + u)
    BY <1>2
  <2>4. rows[k] = r /\ starts[k] + u = p
    BY <1>3, <2>2, <2>3, CellsDistinct
  <2>5. QED
    BY <2>4
<1>6. write(acc, Stored(held))[c] =
        IF here = {} THEN Stored(held)[c] ELSE <<rows[q[1]], starts[q[1]] + q[2]>>
  BY <1>1, <1>4 DEF write
<1>7. CASE here # {}
  <2>1. q \in here
    BY <1>7
  <2>2. <<rows[q[1]], starts[q[1]] + q[2]>> = <<r, p>>
    BY <1>5, <2>1
  <2>3. QED
    BY <1>6, <1>7, <2>2
<1>8. CASE here = {}
  <2>1. p < held[r]
    <3> SUFFICES ASSUME NEW k \in 1..Len(rows),
                        rows[k] = r, starts[k] <= p, p < starts[k] + ns[k]
                 PROVE  FALSE
      BY DEF Known
    <3>1. starts[k] \in Nat /\ ns[k] \in Nat
      BY DEF Feeds
    <3>2. p - starts[k] \in 0..(ns[k] - 1) /\ starts[k] + (p - starts[k]) = p
      BY <3>1
    <3>3. <<k, p - starts[k]>> \in here
      BY <1>1, <3>2 DEF Columns
    <3>4. QED
      BY <1>8, <3>3
  <2>2. p \in 0..(held[r] - 1)
    BY <2>1 DEF Fits
  <2>3. Stored(held)[c] = <<r, p>>
    BY <2>2, StoredTokens
  <2>4. QED
    BY <1>6, <1>8, <2>3
<1>9. QED
  BY <1>7, <1>8
-----------------------------------------------------------------------------
(* The longest row of a step is at least as long as any.                   *)
LEMMA StepLengths ==
  ASSUME TypeOK, NEW acc, NEW rows, NEW starts, NEW ns, NEW held,
         Feeds(acc, rows, starts, ns, held), NEW k \in 1..Len(rows)
  PROVE  /\ acc.t \in Nat /\ acc.lk \in Nat
         /\ ns[k] <= acc.t /\ starts[k] + ns[k] <= acc.lk
         /\ Len(rows) = 1 => acc.t = ns[1] /\ acc.lk = starts[1] + ns[1]
<1> DEFINE totals == acc.totals
<1>1. /\ acc.t = largest(ns) /\ acc.lk = largest(totals)
      /\ DOMAIN totals = 1..Len(rows) /\ DOMAIN ns = 1..Len(rows)
      /\ \A l \in 1..Len(rows) : totals[l] = starts[l] + ns[l]
  <2>1. DOMAIN ns = 1..Len(rows)
    BY DEF Feeds
  <2>2. QED
    BY <2>1, AccessFields
<1>2. /\ Len(rows) \in Nat \ {0} /\ MaxContext \in Nat
  BY SizesAssumption DEF Feeds
<1>3. \A l \in 1..Len(rows) :
        /\ ns[l] \in Nat /\ ns[l] <= MaxContext
        /\ totals[l] \in Nat /\ totals[l] <= MaxContext
  BY <1>1, <1>2 DEF Feeds
<1> HIDE DEF totals
<1>4. /\ largest(ns) \in Nat
      /\ \A l \in 1..Len(rows) : ns[l] <= largest(ns)
      /\ \E l \in 1..Len(rows) : ns[l] = largest(ns)
  BY <1>1, <1>2, <1>3, LargestOf
<1>5. /\ largest(totals) \in Nat
      /\ \A l \in 1..Len(rows) : totals[l] <= largest(totals)
      /\ \E l \in 1..Len(rows) : totals[l] = largest(totals)
  BY <1>1, <1>2, <1>3, LargestOf
<1>6. ns[k] <= acc.t /\ starts[k] + ns[k] <= acc.lk
  BY <1>1, <1>4, <1>5
<1>7. ASSUME Len(rows) = 1
      PROVE  acc.t = ns[1] /\ acc.lk = starts[1] + ns[1]
  BY <1>1, <1>4, <1>5, <1>7
<1>8. QED
  BY <1>1, <1>4, <1>5, <1>6, <1>7

(* The mask lets a query see the keys up to its own position, also where   *)
(* the code passes none.                                                   *)
LEMMA MaskIsCausal ==
  ASSUME TypeOK, NEW acc, NEW rows, NEW starts, NEW ns, NEW held,
         Feeds(acc, rows, starts, ns, held), NEW k \in 1..Len(rows),
         NEW u \in 0..(ns[k] - 1), NEW j \in 0..(acc.lk - 1)
  PROVE  build_mask(acc, k, u, j) <=> j <= starts[k] + u
<1>1. /\ acc.starts = starts /\ acc.b = Len(rows)
      /\ acc.totals[k] = starts[k] + ns[k]
  BY AccessFields
<1>2. /\ acc.t \in Nat /\ acc.lk \in Nat
      /\ ns[k] <= acc.t /\ starts[k] + ns[k] <= acc.lk
      /\ Len(rows) = 1 => acc.t = ns[1] /\ acc.lk = starts[1] + ns[1]
  BY StepLengths
<1>3. /\ Len(rows) \in Nat \ {0}
      /\ starts[k] \in Nat /\ ns[k] \in Nat \ {0}
      /\ ns[k] > 1 => starts[k] = 0
  BY DEF Feeds
<1>4. j \in 0..(acc.lk - 1)
  OBVIOUS
<1>5. build_mask(acc, k, u, j) <=>
        \/ Len(rows) = 1 /\ starts[1] = 0 /\ acc.t > 1 /\ j <= u
        \/ Len(rows) = 1 /\ acc.t = 1
        \/ /\ ~(Len(rows) = 1 /\ (acc.t = 1 \/ starts[1] = 0))
           /\ j <= starts[k] + u
           /\ j < starts[k] + ns[k]
  BY <1>1 DEF build_mask
<1>6. CASE Len(rows) = 1
  <2>1. k = 1
    BY <1>6
  <2>2. CASE ns[1] > 1
    BY <1>2, <1>3, <1>5, <1>6, <2>1, <2>2
  <2>3. CASE ns[1] = 1
    BY <1>2, <1>3, <1>4, <1>5, <1>6, <2>1, <2>3
  <2>4. QED
    BY <1>3, <2>1, <2>2, <2>3
<1>7. CASE Len(rows) # 1
  BY <1>3, <1>5, <1>7
<1>8. QED
  BY <1>6, <1>7

(* A row reads its own cells, the padding of its table apart.              *)
LEMMA GatherReadsRow ==
  ASSUME TypeOK, NEW acc, NEW rows, NEW starts, NEW ns, NEW held, NEW kv,
         Feeds(acc, rows, starts, ns, held), NEW k \in 1..Len(rows),
         NEW j \in 0..(seq_len(rows[k]) - 1)
  PROVE  /\ j \in 0..(acc.lk - 1)
         /\ gather(acc, kv, k)[j] = kv[CellOf(block_table[rows[k]], j)]
<1> DEFINE r == rows[k]
           n == seq_len(r)
<1>1. acc.rows = rows
  BY AccessFields
<1>2. /\ r \in Requests /\ n \in Nat /\ n <= MaxContext
      /\ UnitsFor(n) <= Len(block_table[r]) /\ starts[k] + ns[k] = n
  BY DEF Feeds
<1>3. acc.lk \in Nat /\ n <= acc.lk
  BY <1>2, StepLengths
<1> HIDE DEF r, n
<1>4. j \in 0..(n - 1)
  BY DEF n, r
<1>5. /\ Placed(r, j) /\ j \div UnitSize < UnitsFor(n)
  BY <1>2, <1>4, PlacedWithin
<1>6. /\ j \in 0..(acc.lk - 1)
  BY <1>2, <1>3, <1>4
<1>7. gather(acc, kv, k)[j] = kv[CellOf(RowTable(acc, k), j)]
  BY <1>6 DEF gather
<1>8. j \div UnitSize \in Nat /\ UnitSize \in Nat \ {0}
  <2>1. UnitSize \in Nat \ {0} /\ j \in Nat
    BY UnitSizeType
  <2>2. QED
    BY <2>1, Division
<1>9. RowTable(acc, k)[j \div UnitSize + 1] = block_table[r][j \div UnitSize + 1]
  <2>1. CASE cfg.backend = "paged"
    <3>1. blocks_needed(n) \in Nat /\ blocks_needed(acc.lk) \in Nat
          /\ blocks_needed(n) <= blocks_needed(acc.lk)
      BY <1>2, <1>3, BlocksNeededOrder, BlocksNeededType
    <3>2. j \div UnitSize < blocks_needed(n)
      BY <1>5, <2>1 DEF UnitsFor
    <3>3. j \div UnitSize + 1 \in 1..blocks_needed(acc.lk)
      BY <1>8, <3>1, <3>2
    <3>4. j \div UnitSize + 1 <= Len(block_table[r])
      BY <1>5 DEF Placed
    <3>5. RowTable(acc, k) = PaddedTable(acc, block_table[r])
      BY <1>1, <2>1 DEF RowTable, r
    <3>6. PaddedTable(acc, block_table[r])[j \div UnitSize + 1]
            = block_table[r][j \div UnitSize + 1]
      <4> DEFINE x == j \div UnitSize + 1
      <4> HIDE DEF x
      <4>1. x \in 1..blocks_needed(acc.lk) /\ x <= Len(block_table[r])
        BY <3>3, <3>4 DEF x
      <4>2. PaddedTable(acc, block_table[r])[x] = block_table[r][x]
        BY <4>1 DEF PaddedTable, blocks_needed
      <4>3. QED
        BY <4>2 DEF x
    <3>7. QED
      BY <3>5, <3>6
  <2>2. CASE cfg.backend # "paged"
    <3>1. j \div UnitSize = 0
      BY <1>5, <1>8, <2>2 DEF UnitsFor
    <3>2. RowTable(acc, k) = <<block_table[r][1]>>
      BY <1>1, <2>2 DEF RowTable, r
    <3>3. QED
      BY <3>1, <3>2
  <2>3. QED
    BY <2>1, <2>2
<1>10. CellOf(RowTable(acc, k), j) = CellOf(block_table[r], j)
  BY <1>9 DEF CellOf
<1>11. QED
  BY <1>6, <1>7, <1>10 DEF r

(* Every query of a step is as the request alone would have it.            *)
LEMMA StepSeesOwnPast ==
  ASSUME TypeOK, TablesDisjoint, NEW acc, NEW rows, NEW starts, NEW ns, NEW held,
         Feeds(acc, rows, starts, ns, held), Fits(held)
  PROVE  SeesItsOwnPast(acc, Stored(held))
<1> DEFINE kv == write(acc, Stored(held))
<1>1. /\ acc.rows = rows /\ acc.starts = starts /\ acc.ns = ns
      /\ DOMAIN acc.rows = 1..Len(rows)
  BY AccessFields
<1> HIDE DEF kv
<1>2. \A r \in Requests : \A p \in Nat :
        Known(rows, starts, ns, held, r, p) => kv[CellOf(block_table[r], p)] = <<r, p>>
  BY WrittenTokens DEF kv
<1>3. ASSUME NEW k \in 1..Len(rows)
      PROVE  step_tokens(acc, Stored(held))[k]
               = forward_single(rows[k], starts[k], ns[k])
  <2> DEFINE keys == gather(acc, kv, k)
             own == read(rows[k], starts[k] + ns[k])
  <2>1. step_tokens(acc, Stored(held))[k]
          = [u \in 0..(ns[k] - 1) |-> Query(acc, k, u, keys)]
    BY <1>1 DEF step_tokens, Columns, kv
  <2>2. forward_single(rows[k], starts[k], ns[k])
          = [u \in 0..(ns[k] - 1) |-> QueryAlone(own, starts[k], ns[k], u)]
    BY DEF forward_single
  <2>3. /\ rows[k] \in Requests /\ starts[k] \in Nat /\ ns[k] \in Nat \ {0}
        /\ ns[k] > 1 => starts[k] = 0
        /\ starts[k] <= held[rows[k]] /\ held[rows[k]] \in Nat
        /\ starts[k] + ns[k] = seq_len(rows[k]) /\ seq_len(rows[k]) <= MaxContext
        /\ MaxContext \in Nat
    BY SizesAssumption DEF Feeds, Fits
  <2>4. acc.lk \in Nat /\ starts[k] + ns[k] <= acc.lk
    BY StepLengths
  <2>5. ASSUME NEW j \in 0..(starts[k] + ns[k] - 1)
        PROVE  keys[j] = <<rows[k], j>> /\ own[j] = <<rows[k], j>>
    <3>1. j \in 0..(seq_len(rows[k]) - 1) /\ j \in Nat
      BY <2>3
    <3>2. keys[j] = kv[CellOf(block_table[rows[k]], j)]
      BY <3>1, GatherReadsRow
    <3>3. Known(rows, starts, ns, held, rows[k], j)
      BY <2>3, <3>1 DEF Known
    <3>4. kv[CellOf(block_table[rows[k]], j)] = <<rows[k], j>>
      <4>1. rows[k] \in Requests /\ j \in Nat
        BY <2>3, <3>1
      <4>2. QED
        BY <3>3, <4>1, <1>2
    <3> HIDE DEF keys
    <3>5. QED
      BY <2>3, <3>2, <3>4 DEF read
  <2>6. DOMAIN keys = 0..(acc.lk - 1) /\ DOMAIN own = 0..(starts[k] + ns[k] - 1)
    <3>1. DOMAIN own = 0..(starts[k] + ns[k] - 1)
      BY <2>3 DEF read
    <3>2. DOMAIN keys = 0..(acc.lk - 1)
      BY DEF gather
    <3>3. QED
      BY <3>1, <3>2
  <2> HIDE DEF own
  <2>7. \A u \in 0..(ns[k] - 1), j \in 0..(acc.lk - 1) :
          build_mask(acc, k, u, j) <=> j <= starts[k] + u
    BY MaskIsCausal
  <2> HIDE DEF keys
  <2>8. ASSUME NEW u \in 0..(ns[k] - 1)
        PROVE  Query(acc, k, u, keys) = QueryAlone(own, starts[k], ns[k], u)
    <3>1. positions(acc, k, u) = starts[k] + u
      BY <1>1, <2>3 DEF positions
    <3>0. /\ starts[k] \in Nat /\ ns[k] \in Nat /\ acc.lk \in Nat
          /\ u \in Nat /\ u + 1 <= ns[k] /\ starts[k] + ns[k] <= acc.lk
      BY <2>3, <2>4
    <3>2. {j \in DOMAIN keys : build_mask(acc, k, u, j)} = 0..(starts[k] + u)
      BY <3>0, <2>6, <2>7
    <3>3. {j \in DOMAIN own : ns[k] > 1 => j <= u} = 0..(starts[k] + u)
      <4>1. CASE ns[k] > 1
        BY <2>3, <2>6, <4>1
      <4>2. CASE ns[k] = 1
        BY <2>3, <2>6, <4>2
      <4>3. QED
        BY <2>3, <4>1, <4>2
    <3>4. \A j \in 0..(starts[k] + u) : keys[j] = own[j]
      <4>1. ASSUME NEW j \in 0..(starts[k] + u) PROVE keys[j] = own[j]
        <5>1. j \in 0..(starts[k] + ns[k] - 1)
          BY <3>0
        <5>2. QED
          BY <2>5, <5>1
      <4>2. QED
        BY <4>1
    <3>5. {<<j, keys[j]>> : j \in 0..(starts[k] + u)}
            = {<<j, own[j]>> : j \in 0..(starts[k] + u)}
      BY <3>4
    <3>6. QED
      BY <3>1, <3>2, <3>3, <3>5 DEF Query, QueryAlone
  <2>9. QED
    BY <2>1, <2>2, <2>8
<1>4. QED
  BY <1>1, <1>3 DEF SeesItsOwnPast

(* After a step its rows have all their tokens stored, the others theirs.  *)
LEMMA StepWritesOwnRows ==
  ASSUME TypeOK, TablesDisjoint, NEW acc, NEW rows, NEW starts, NEW ns, NEW held,
         Feeds(acc, rows, starts, ns, held), Fits(held)
  PROVE  WriteTouchesOwnRows(acc, held)
<1> DEFINE kv == write(acc, Stored(held))
           holds(r) == IF \E k \in DOMAIN acc.rows : acc.rows[k] = r
                         THEN seq_len(r) ELSE held[r]
<1>1. acc.rows = rows /\ DOMAIN acc.rows = 1..Len(rows)
  BY AccessFields
<1> HIDE DEF kv
<1>2. \A r \in Requests : \A p \in Nat :
        Known(rows, starts, ns, held, r, p) => kv[CellOf(block_table[r], p)] = <<r, p>>
  BY WrittenTokens DEF kv
<1>3. ASSUME NEW r \in Requests, NEW p \in 0..(holds(r) - 1)
      PROVE  kv[CellOf(block_table[r], p)] = <<r, p>>
  <2>1. p \in Nat
    OBVIOUS
  <2>2. CASE \E k \in 1..Len(rows) : rows[k] = r
    <3>1. PICK k \in 1..Len(rows) : rows[k] = r
      BY <2>2
    <3>2. holds(r) = seq_len(r)
      BY <1>1, <2>2
    <3>3. /\ starts[k] \in Nat /\ ns[k] \in Nat /\ starts[k] <= held[r]
          /\ starts[k] + ns[k] = seq_len(r) /\ held[r] \in Nat
      BY <3>1 DEF Feeds, Fits
    <3>4. p < seq_len(r)
      BY <3>2, <3>3
    <3>5. Known(rows, starts, ns, held, r, p)
      BY <2>1, <3>1, <3>3, <3>4 DEF Known
    <3>6. QED
      BY <2>1, <3>5, <1>2
  <2>3. CASE ~(\E k \in 1..Len(rows) : rows[k] = r)
    <3>1. holds(r) = held[r] /\ held[r] \in Nat
      BY <1>1, <2>3 DEF Fits
    <3>2. Known(rows, starts, ns, held, r, p)
      BY <3>1 DEF Known
    <3>3. QED
      BY <2>1, <3>2, <1>2
  <2>4. QED
    BY <2>2, <2>3
<1>4. QED
  BY <1>3 DEF WriteTouchesOwnRows, kv

(* What the pool holds of each request lies in the blocks it has.          *)
CacheInv == Fits(cached)

(* A step keeps what a request has cached, drops it, or caches what there  *)
(* is room for.                                                            *)
LEMMA OtherCache ==
  ASSUME TypeOK, TypeOK', CacheInv, cfg' = cfg,
         \A r \in Requests :
           \/ cached'[r] = 0
           \/ /\ cached'[r] = cached[r]
              /\ Len(block_table[r]) <= Len(block_table'[r])
           \/ /\ cached'[r] <= MaxContext
              /\ UnitsFor(cached'[r]) <= Len(block_table'[r])
  PROVE  CacheInv'
<1>1. cached' \in [Requests -> Nat]
  BY DEF TypeOK
<1>2. ASSUME NEW r \in Requests, cached'[r] # 0
      PROVE  cached'[r] <= MaxContext /\ UnitsFor(cached[r])' <= Len(block_table'[r])
  <2>1. UnitsFor(cached[r])' = UnitsFor(cached'[r])
    BY DEF UnitsFor, blocks_needed
  <2>2. CASE cached'[r] = cached[r] /\ Len(block_table[r]) <= Len(block_table'[r])
    <3>1. /\ cached[r] <= MaxContext /\ UnitsFor(cached[r]) <= Len(block_table[r])
          /\ UnitsFor(cached[r]) \in Nat
      <4>1. cached[r] \in Nat
        BY DEF TypeOK
      <4>2. QED
        BY <1>2, <2>2, <4>1, UnitsOrder DEF CacheInv, Fits
    <3>2. Len(block_table[r]) \in Nat /\ Len(block_table'[r]) \in Nat
      <4>1. block_table'[r] \in Seq(Blocks')
        BY DEF TypeOK, MemoryTypeOK
      <4>2. QED
        BY <4>1, ListLengths
    <3>3. QED
      BY <2>1, <2>2, <3>1, <3>2
  <2>3. QED
    BY <1>2, <2>1, <2>2
<1>3. QED
  BY <1>1, <1>2 DEF CacheInv, Fits

(* Nothing is cached of a request without memory.                          *)
LEMMA NothingCached ==
  ASSUME TypeOK, CacheInv, NEW r \in Requests, block_table[r] = <<>>
  PROVE  cached[r] = 0
<1>1. cached[r] \in Nat /\ UnitsFor(1) \in Nat /\ UnitsFor(cached[r]) \in Nat
  BY UnitsOrder DEF TypeOK
<1>2. UnitsFor(1) >= 1
  <2>1. blocks_needed(1) = 1
    <3>1. BlockSize \in Nat /\ BlockSize > 0 /\ blocks_needed(1) = (1 + BlockSize - 1) \div BlockSize
      BY SizesAssumption DEF blocks_needed
    <3>2. 1 + BlockSize - 1 = BlockSize
      BY <3>1
    <3>3. BlockSize \div BlockSize = 1
      BY <3>1
    <3>4. QED
      BY <3>1, <3>2, <3>3
  <2>2. QED
    BY <2>1 DEF UnitsFor
<1>3. ASSUME cached[r] # 0 PROVE FALSE
  <2>1. 1 <= cached[r]
    BY <1>1, <1>3
  <2>2. UnitsFor(1) <= UnitsFor(cached[r])
    BY <1>1, <2>1, UnitsOrder
  <2>3. UnitsFor(cached[r]) <= Len(block_table[r])
    BY <1>3 DEF CacheInv, Fits
  <2>4. Len(block_table[r]) = 0
    OBVIOUS
  <2>5. QED
    BY <1>1, <1>2, <2>2, <2>3, <2>4
<1>4. QED
  BY <1>3

(* A popped request and a row before i are within a context.               *)
LEMMA RoomForNext ==
  ASSUME LengthInv, RoomInv, NEW r \in Requests, state[r] # "new", ~finished(r)
  PROVE  seq_len(r) \in Nat /\ seq_len(r) <= MaxContext
<1>1. seq_len(r) \in Nat /\ worst_len(r) \in Nat /\ seq_len(r) <= worst_len(r)
  BY WithinWorstCase
<1>2. worst_len(r) <= MaxContext /\ MaxContext \in Nat
  BY SizesAssumption DEF LengthInv, LimitInv
<1>3. QED
  BY <1>1, <1>2

(* What the two forward steps feed has room.                               *)
LEMMA BatchHasRoom ==
  ASSUME LengthInv, RoomInv, pc = "prefill", NEW r \in batch
  PROVE  /\ r \in Requests /\ seq_len(r) \in Nat /\ seq_len(r) <= MaxContext
         /\ UnitsFor(seq_len(r)) <= Len(block_table[r])
<1>1. TypeOK
  BY DEF LengthInv, SeatInv
<1>2. r \in Requests /\ ~finished(r) /\ state[r] # "new"
  BY <1>1 DEF LengthInv, TokenInv, SeatInv, TypeOK
<1>3. Len(block_table[r]) = UnitsFor(seq_len(r))
  BY DEF RoomInv
<1>4. UnitsFor(seq_len(r)) \in Nat
  BY <1>2, WithinWorstCase
<1>5. QED
  BY <1>2, <1>3, <1>4, RoomForNext

LEMMA RowsHaveRoom ==
  ASSUME LengthInv, RoomInv, pc = "ensure", i > Len(active),
         NEW k \in 1..Len(active)
  PROVE  /\ active[k] \in Requests /\ active[k] \in running
         /\ seq_len(active[k]) \in Nat /\ seq_len(active[k]) <= MaxContext
         /\ cached[active[k]] \in Nat /\ seq_len(active[k]) = cached[active[k]] + 1
         /\ UnitsFor(seq_len(active[k])) <= Len(block_table[active[k]])
<1>1. active \in Seq(Requests) /\ i \in Nat
  BY DEF LengthInv, SeatInv, TypeOK
<1>2. PICK r \in Requests : r = active[k] /\ r \in Rows
  BY <1>1 DEF Rows
<1>3. /\ r \in running /\ ~finished(r) /\ state[r] # "new"
      /\ cached[r] \in Nat /\ seq_len(r) = cached[r] + 1
  BY <1>2, RowFacts
<1>4. k \in 1..(i - 1)
  BY <1>1
<1>5. UnitsFor(seq_len(active[k])) <= Len(block_table[active[k]])
  BY <1>4 DEF RoomInv
<1>6. QED
  BY <1>2, <1>3, <1>5, RoomForNext

LEMMA AppendCache ==
  ASSUME LengthInv, RoomInv, TypeOK', CacheInv, AppendSlot
  PROVE  CacheInv'
<1>0. TypeOK
  BY DEF LengthInv, SeatInv
<1>1. pc = "ensure" /\ i \in 1..Len(active) /\ cfg' = cfg /\ cached' = cached
  <2>1. i \in Nat \ {0} /\ Len(active) \in Nat
    BY <1>0 DEF TypeOK
  <2>2. QED
    BY <2>1 DEF AppendSlot, requestVars
<1>2. PICK r \in Requests : r = active[i] /\ r \in Rows
  BY <1>0, <1>1 DEF TypeOK, Rows
<1>3. append_slot(r, seq_len(r))
  BY <1>2 DEF AppendSlot
<1>4. /\ Len(block_table[r]) \in Nat /\ UnitsFor(seq_len(r)) \in Nat
      /\ cfg.backend = "contiguous" => Len(block_table[r]) = 1
  BY <1>1, <1>2, RowFacts
<1>5. Len(free_blocks) \in Nat
  BY <1>0, ListLengths
<1>6. /\ \A q \in Requests : q # r => block_table'[q] = block_table[q]
      /\ Len(block_table[r]) <= Len(block_table'[r])
  BY <1>0, <1>3, <1>4, <1>5, AppendLengths
<1>7. \A q \in Requests : Len(block_table[q]) <= Len(block_table'[q])
  BY <1>0, <1>6, ListLengths
<1>8. QED
  BY <1>0, <1>1, <1>7, OtherCache

LEMMA CacheStep == LengthInv /\ RoomInv /\ CacheInv /\ [Next]_vars => CacheInv'
<1> SUFFICES ASSUME LengthInv, RoomInv, CacheInv, [Next]_vars PROVE CacheInv'
  OBVIOUS
<1>0. TypeOK /\ TypeOK'
  BY TypeStep DEF LengthInv, SeatInv
<1>1. ASSUME cfg' = cfg, block_table' = block_table, cached' = cached
      PROVE  CacheInv'
  <2>1. \A r \in Requests : Len(block_table[r]) <= Len(block_table'[r])
    BY <1>0, <1>1, ListLengths
  <2>2. QED
    BY <1>0, <1>1, <2>1, OtherCache
<1>2. ASSUME cfg' = cfg, NEW r \in Requests, free(r),
             cached' = [cached EXCEPT ![r] = 0]
      PROVE  CacheInv'
  <2>1. \A q \in Requests : q # r => block_table'[q] = block_table[q]
    BY <1>0, <1>2, FreeLengths
  <2>2. \A q \in Requests : IF q = r THEN cached'[q] = 0 ELSE cached'[q] = cached[q]
    BY <1>0, <1>2 DEF TypeOK
  <2>3. \A q \in Requests :
          \/ cached'[q] = 0
          \/ cached'[q] = cached[q] /\ Len(block_table[q]) <= Len(block_table'[q])
    BY <1>0, <2>1, <2>2, ListLengths
  <2>4. QED
    BY <1>0, <1>2, <2>3, OtherCache
<1>3. ASSUME NEW r \in Requests, Retire(r) PROVE CacheInv'
  BY <1>2, <1>3 DEF Retire
<1>4. ASSUME NEW r \in Requests, Admit(r) PROVE CacheInv'
  <2>1. /\ pc = "admit" /\ r \in waiting /\ cfg' = cfg /\ cached' = cached
        /\ AllocateAsserts(seq_len(r)) /\ allocate(r, seq_len(r), worst_len(r))
    BY <1>4 DEF Admit, Admissible, IsHead
  <2>2. block_table[r] = <<>>
    BY <2>1 DEF LengthInv, SeatInv, SeatsAgree, QueuedOnce, MemoryFollowsSeats
  <2>3. cached[r] = 0
    BY <1>0, <2>2, NothingCached
  <2>4. \A q \in Requests : q # r => block_table'[q] = block_table[q]
    BY <1>0, <2>1, AllocateLengths
  <2>5. \A q \in Requests :
          \/ cached'[q] = 0
          \/ cached'[q] = cached[q] /\ Len(block_table[q]) <= Len(block_table'[q])
    BY <1>0, <2>1, <2>3, <2>4, ListLengths
  <2>6. QED
    BY <1>0, <2>1, <2>5, OtherCache
<1>5. CASE Prefill
  <2>1. /\ pc = "prefill" /\ cfg' = cfg /\ block_table' = block_table
        /\ \A r \in Requests :
             cached'[r] = IF r \in batch THEN seq_len(r) ELSE cached[r]
    BY <1>5 DEF Prefill, PrefillTokens, memoryVars, seq_len
  <2>2. \A r \in Requests :
          \/ cached'[r] = cached[r] /\ Len(block_table[r]) <= Len(block_table'[r])
          \/ cached'[r] <= MaxContext /\ UnitsFor(cached'[r]) <= Len(block_table'[r])
    <3> SUFFICES ASSUME NEW r \in Requests
                 PROVE  \/ /\ cached'[r] = cached[r]
                           /\ Len(block_table[r]) <= Len(block_table'[r])
                        \/ /\ cached'[r] <= MaxContext
                           /\ UnitsFor(cached'[r]) <= Len(block_table'[r])
      OBVIOUS
    <3>1. CASE r \in batch
      BY <2>1, <3>1, BatchHasRoom
    <3>2. CASE r \notin batch
      BY <1>0, <2>1, <3>2, ListLengths
    <3>3. QED
      BY <3>1, <3>2
  <2>3. QED
    BY <1>0, <2>1, <2>2, OtherCache
<1>6. CASE AppendSlot
  BY <1>0, <1>6, AppendCache
<1>7. CASE Preempt
  <2>1. PICK v \in 1..Len(active) :
          free(active[v]) /\ cached' = [cached EXCEPT ![active[v]] = 0]
    BY <1>7 DEF Preempt
  <2>2. PICK victim \in Requests : victim = active[v]
    BY <1>0 DEF TypeOK
  <2>3. free(victim) /\ cached' = [cached EXCEPT ![victim] = 0]
    BY <2>1, <2>2
  <2>4. cfg' = cfg
    BY <1>7 DEF Preempt
  <2>5. QED
    BY <1>2, <2>3, <2>4
<1>8. CASE DecodeStep
  <2>1. /\ pc = "ensure" /\ i > Len(active) /\ cfg' = cfg
        /\ block_table' = block_table
        /\ \A r \in Requests :
             cached'[r] = IF r \in Rows THEN seq_len(r) ELSE cached[r]
    BY <1>8 DEF DecodeStep, memoryVars
  <2>2. \A r \in Requests :
          \/ cached'[r] = cached[r] /\ Len(block_table[r]) <= Len(block_table'[r])
          \/ cached'[r] <= MaxContext /\ UnitsFor(cached'[r]) <= Len(block_table'[r])
    <3> SUFFICES ASSUME NEW r \in Requests
                 PROVE  \/ /\ cached'[r] = cached[r]
                           /\ Len(block_table[r]) <= Len(block_table'[r])
                        \/ /\ cached'[r] <= MaxContext
                           /\ UnitsFor(cached'[r]) <= Len(block_table'[r])
      OBVIOUS
    <3>1. CASE r \in Rows
      <4>1. PICK k \in 1..Len(active) : r = active[k]
        BY <3>1 DEF Rows
      <4>2. QED
        BY <2>1, <3>1, <4>1, RowsHaveRoom
    <3>2. CASE r \notin Rows
      BY <1>0, <2>1, <3>2, ListLengths
    <3>3. QED
      BY <3>1, <3>2
  <2>3. QED
    BY <1>0, <2>1, <2>2, OtherCache
<1>9. CASE BeginStep \/ EndRetire \/ EndAdmit \/ OutOfBlocks \/ BeginDecode
  BY <1>1, <1>9
  DEF BeginStep, EndRetire, EndAdmit, OutOfBlocks, BeginDecode, requestVars, memoryVars
<1>10. ASSUME NEW r \in Requests, AdmitAsserts(r) PROVE CacheInv'
  BY <1>1, <1>10 DEF AdmitAsserts, requestVars, memoryVars
<1>11. ASSUME NEW r \in Requests, NEW p \in PromptLens, NEW m \in MaxNewTokens,
              Submit(r, p, m)
       PROVE  CacheInv'
  BY <1>1, <1>11 DEF Submit, memoryVars
<1>12. ASSUME NEW r \in Impatient, Disconnect(r) \/ SetCancelled(r)
       PROVE  CacheInv'
  BY <1>1, <1>12 DEF Disconnect, SetCancelled, memoryVars
<1>13. CASE UNCHANGED vars
  BY <1>1, <1>13 DEF vars, requestVars, memoryVars
<1>14. QED
  BY <1>3, <1>4, <1>5, <1>6, <1>7, <1>8, <1>9, <1>10, <1>11, <1>12, <1>13
  DEF Next, EngineStep, ApiStep, Idle

LEMMA CacheInit == Init => CacheInv
BY DEF Init, CacheInv, Fits

LEMMA CacheInvariant == Spec => [](LengthInv /\ RoomInv /\ CacheInv)
<1>1. Init => CacheInv
  BY CacheInit
<1>2. LengthInv /\ RoomInv /\ CacheInv /\ [Next]_vars => CacheInv'
  BY CacheStep
<1>3. QED
  BY <1>1, <1>2, RoomInvariant, PTL DEF Spec

(* _prefill: a row of requests of the popped batch, from position 0.       *)
LEMMA PrefillFeeds ==
  ASSUME LengthInv, RoomInv, pc = "prefill", NEW rows, NEW held,
         rows \in Seq(batch), held \in [Requests -> Nat]
  PROVE  Feeds(PrefillAccess(rows), rows, [k \in DOMAIN rows |-> 0],
               [k \in DOMAIN rows |-> PrefillTokens(rows[k])], held)
<1> DEFINE starts == [k \in DOMAIN rows |-> 0]
           ns == [k \in DOMAIN rows |-> PrefillTokens(rows[k])]
<1>1. TypeOK /\ batch \subseteq Requests
  BY DEF LengthInv, SeatInv, TypeOK
<1>2. DOMAIN rows = 1..Len(rows) /\ rows \in Seq(Requests)
  BY <1>1
<1>3. ASSUME NEW k \in 1..Len(rows)
      PROVE  /\ starts[k] = 0 /\ ns[k] \in Nat \ {0}
             /\ starts[k] <= held[rows[k]]
             /\ starts[k] + ns[k] = seq_len(rows[k])
             /\ seq_len(rows[k]) <= MaxContext
             /\ UnitsFor(seq_len(rows[k])) <= Len(block_table[rows[k]])
  <2>1. rows[k] \in batch
    OBVIOUS
  <2>2. PICK r \in batch : r = rows[k]
    BY <2>1
  <2>3. /\ r \in Requests /\ seq_len(r) \in Nat /\ seq_len(r) <= MaxContext
        /\ UnitsFor(seq_len(r)) <= Len(block_table[r])
    BY BatchHasRoom
  <2>4. state[r] # "new"
    BY DEF LengthInv, SeatInv
  <2>5. prompt_len[r] > 0 /\ prompt_len[r] \in Nat /\ out_len[r] \in Nat
    BY <2>3, <2>4 DEF LengthInv, SeatInv, TypeOK
  <2>6. PrefillTokens(r) = seq_len(r) /\ seq_len(r) \in Nat \ {0}
    BY <2>5 DEF PrefillTokens, seq_len
  <2>7. ns[k] = PrefillTokens(r) /\ starts[k] = 0
    BY <1>2, <2>2
  <2>8. QED
    BY <2>2, <2>3, <2>6, <2>7
<1>4. DOMAIN starts = 1..Len(rows) /\ DOMAIN ns = 1..Len(rows)
  BY <1>2
<1>5. PrefillAccess(rows) = access(rows, starts, ns)
  BY DEF PrefillAccess
<1> HIDE DEF starts, ns
<1>6. Feeds(PrefillAccess(rows), rows, starts, ns, held)
  BY <1>2, <1>3, <1>4, <1>5 DEF Feeds
<1>7. QED
  BY <1>6 DEF starts, ns

(* _decode: every row, with the one token it has not stored yet.           *)
LEMMA DecodeFeeds ==
  ASSUME LengthInv, RoomInv, pc = "ensure", i > Len(active)
  PROVE  Feeds(DecodeAccess, active, [k \in DOMAIN active |-> seq_len(active[k]) - 1],
               [k \in DOMAIN active |-> 1], cached)
<1> DEFINE starts == [k \in DOMAIN active |-> seq_len(active[k]) - 1]
           ns == [k \in DOMAIN active |-> 1]
<1>1. active \in Seq(Requests) /\ DOMAIN active = 1..Len(active)
  BY DEF LengthInv, SeatInv, TypeOK
<1>2. ASSUME NEW k \in 1..Len(active)
      PROVE  /\ starts[k] \in Nat /\ ns[k] = 1
             /\ starts[k] <= cached[active[k]]
             /\ starts[k] + ns[k] = seq_len(active[k])
             /\ seq_len(active[k]) <= MaxContext
             /\ UnitsFor(seq_len(active[k])) <= Len(block_table[active[k]])
  <2>1. /\ seq_len(active[k]) \in Nat /\ seq_len(active[k]) <= MaxContext
        /\ cached[active[k]] \in Nat /\ seq_len(active[k]) = cached[active[k]] + 1
        /\ UnitsFor(seq_len(active[k])) <= Len(block_table[active[k]])
    BY RowsHaveRoom
  <2>2. starts[k] = seq_len(active[k]) - 1 /\ ns[k] = 1
    BY <1>1
  <2>3. QED
    BY <2>1, <2>2
<1>3. DOMAIN starts = 1..Len(active) /\ DOMAIN ns = 1..Len(active)
  BY <1>1
<1>4. DecodeAccess = access(active, starts, ns)
  BY DEF DecodeAccess
<1> HIDE DEF starts, ns
<1>5. Feeds(DecodeAccess, active, starts, ns, cached)
  BY <1>1, <1>2, <1>3, <1>4 DEF Feeds
<1>6. QED
  BY <1>5 DEF starts, ns

(* Batches are computed request by request: no row of a forward step, of a *)
(* padded prefill or of a decode, reads a key that is not its own or misses*)
(* one that is, and none overwrites a key of somebody else.                *)
THEOREM RequestsComputedAlone == Spec => []AttendsAsAlone
<1>1. LengthInv /\ RoomInv /\ CacheInv => AttendsAsAlone
  <2> SUFFICES ASSUME LengthInv, RoomInv, CacheInv, NEW step \in ForwardSteps
               PROVE  /\ SeesItsOwnPast(step.acc, Stored(step.held))
                      /\ WriteTouchesOwnRows(step.acc, step.held)
    BY DEF AttendsAsAlone
  <2>1. /\ TypeOK /\ TablesDisjoint /\ batch \subseteq Requests
        /\ cached \in [Requests -> Nat]
    BY DEF LengthInv, SeatInv, BlocksOwnedOnce, TypeOK
  <2>2. ASSUME NEW acc, NEW rows, NEW starts, NEW ns, NEW held,
               Feeds(acc, rows, starts, ns, held), Fits(held),
               step.acc = acc, step.held = held
        PROVE  /\ SeesItsOwnPast(step.acc, Stored(step.held))
               /\ WriteTouchesOwnRows(step.acc, step.held)
    BY <2>1, <2>2, StepSeesOwnPast, StepWritesOwnRows
  <2>3. ASSUME pc = "prefill", NEW admitted \in OldestFirst(batch),
               step \in PrefillSteps(admitted)
        PROVE  /\ SeesItsOwnPast(step.acc, Stored(step.held))
               /\ WriteTouchesOwnRows(step.acc, step.held)
    <3>1. admitted \in Seq(batch)
      BY <2>1, OldestFirstType
    <3>2. ASSUME NEW rows \in Seq(batch), NEW held, Fits(held),
                 step = [acc |-> PrefillAccess(rows), held |-> held]
          PROVE  /\ SeesItsOwnPast(step.acc, Stored(step.held))
                 /\ WriteTouchesOwnRows(step.acc, step.held)
      <4>1. held \in [Requests -> Nat]
        BY <3>2 DEF Fits
      <4>2. Feeds(PrefillAccess(rows), rows, [k \in DOMAIN rows |-> 0],
                  [k \in DOMAIN rows |-> PrefillTokens(rows[k])], held)
        BY <2>3, <4>1, PrefillFeeds
      <4>3. step.acc = PrefillAccess(rows) /\ step.held = held
        BY <3>2
      <4>4. QED
        BY <2>2, <3>2, <4>2, <4>3
    <3>3. CASE cfg.batching = "static"
      <4>1. step = [acc |-> PrefillAccess(admitted), held |-> cached]
        BY <2>3, <3>3 DEF PrefillSteps
      <4>2. QED
        BY <3>1, <3>2, <4>1 DEF CacheInv
    <3>4. CASE cfg.batching # "static"
      <4>1. PICK k \in DOMAIN admitted :
              step = [acc  |-> PrefillAccess(<<admitted[k]>>),
                      held |-> [r \in Requests |->
                                  IF \E j \in 1..(k - 1) : admitted[j] = r
                                    THEN PrefillTokens(r) ELSE cached[r]]]
        BY <2>3, <3>4 DEF PrefillSteps
      <4>2. PICK held : held = [r \in Requests |->
                                  IF \E j \in 1..(k - 1) : admitted[j] = r
                                    THEN PrefillTokens(r) ELSE cached[r]]
        OBVIOUS
      <4>3. k \in 1..Len(admitted) /\ <<admitted[k]>> \in Seq(batch)
        BY <3>1
      <4>4. ASSUME NEW r \in Requests
            PROVE  /\ held[r] \in Nat
                   /\ held[r] # 0 =>
                        held[r] <= MaxContext /\ UnitsFor(held[r]) <= Len(block_table[r])
        <5>1. CASE \E j \in 1..(k - 1) : admitted[j] = r
          <6>1. r \in batch
            BY <3>1, <4>3, <5>1
          <6>2. held[r] = seq_len(r)
            BY <4>2, <5>1 DEF PrefillTokens, seq_len
          <6>3. QED
            BY <2>3, <6>1, <6>2, BatchHasRoom
        <5>2. CASE ~(\E j \in 1..(k - 1) : admitted[j] = r)
          <6>1. held[r] = cached[r]
            BY <4>2, <5>2
          <6>2. QED
            BY <2>1, <6>1 DEF CacheInv, Fits
        <5>3. QED
          BY <5>1, <5>2
      <4>5. Fits(held)
        <5>1. held \in [Requests -> Nat]
          BY <4>2, <4>4
        <5>2. QED
          BY <4>4, <5>1 DEF Fits
      <4>6. step = [acc |-> PrefillAccess(<<admitted[k]>>), held |-> held]
        BY <4>1, <4>2
      <4>7. QED
        BY <3>2, <4>3, <4>5, <4>6
    <3>5. QED
      BY <3>3, <3>4
  <2>4. ASSUME pc = "ensure", i > Len(active),
               step = [acc |-> DecodeAccess, held |-> cached]
        PROVE  /\ SeesItsOwnPast(step.acc, Stored(step.held))
               /\ WriteTouchesOwnRows(step.acc, step.held)
    <3>1. Feeds(DecodeAccess, active, [k \in DOMAIN active |-> seq_len(active[k]) - 1],
                [k \in DOMAIN active |-> 1], cached)
      BY <2>4, DecodeFeeds
    <3>2. step.acc = DecodeAccess /\ step.held = cached
      BY <2>4
    <3>3. QED
      BY <2>2, <3>1, <3>2 DEF CacheInv
  <2>5. QED
    BY <2>3, <2>4 DEF ForwardSteps
<1>2. QED
  BY <1>1, CacheInvariant, PTL
=============================================================================
