-------------------------- MODULE SchedulerProofs ---------------------------
(***************************************************************************)
(* Theorems about Scheduler.tla for every number of requests, every pool   *)
(* and block size and every EngineConfig.                                  *)
(***************************************************************************)
EXTENDS Scheduler, FiniteSetTheorems, SequenceTheorems, TLAPS

(* Facts about the list operators and the block arithmetic.                *)

(* Taking k elements from the end of a sequence gives k of its elements,   *)
(* last first.                                                             *)
LEMMA LastReversedType ==
  ASSUME NEW S, NEW s \in Seq(S), NEW k \in 0..Len(s)
  PROVE  /\ LastReversed(s, k) \in Seq(S)
         /\ Len(LastReversed(s, k)) = k
         /\ \A j \in 1..k : LastReversed(s, k)[j] = s[Len(s) - j + 1]
BY DEF LastReversed

(* What remains is the sequence without its last k elements.               *)
LEMMA DropLastType ==
  ASSUME NEW S, NEW s \in Seq(S), NEW k \in 0..Len(s)
  PROVE  /\ DropLast(s, k) \in Seq(S)
         /\ Len(DropLast(s, k)) = Len(s) - k
         /\ \A j \in 1..(Len(s) - k) : DropLast(s, k)[j] = s[j]
BY DEF DropLast

(* Block counts are naturals.                                              *)
LEMMA BlocksNeededType ==
  ASSUME NEW n \in Nat
  PROVE  blocks_needed(n) \in Nat
BY SizesAssumption DEF blocks_needed

(* There are finitely many requests.                                       *)
LEMMA RequestsFinite == IsFiniteSet(Requests) /\ Requests \subseteq Nat
BY SizesAssumption, FS_Interval DEF Requests
-----------------------------------------------------------------------------
(* Type correctness.                                                       *)

(* Lengths, units and missing blocks are naturals.                         *)
LEMMA LengthsType ==
  ASSUME TypeOK, NEW r \in Requests
  PROVE  /\ seq_len(r) \in Nat
         /\ worst_len(r) \in Nat
         /\ UnitsFor(seq_len(r)) \in Nat
         /\ blocks_needed(worst_len(r)) \in Nat
         /\ MissingBlocks(r, seq_len(r)) \in Nat
<1>1. seq_len(r) \in Nat /\ worst_len(r) \in Nat
  BY DEF TypeOK, seq_len, worst_len
<1>2. blocks_needed(seq_len(r)) \in Nat /\ blocks_needed(worst_len(r)) \in Nat
  BY <1>1, BlocksNeededType
<1>3. Len(block_table[r]) \in Nat
  BY DEF TypeOK, MemoryTypeOK
<1>4. QED
  BY <1>1, <1>2, <1>3 DEF UnitsFor, MissingBlocks

(* free keeps the types of the allocator.                                  *)
LEMMA FreeType ==
  ASSUME TypeOK, NEW r \in Requests, cfg' = cfg, free(r)
  PROVE  MemoryTypeOK'
<1>1. LastReversed(block_table[r], Len(block_table[r])) \in Seq(Blocks)
  BY LastReversedType DEF TypeOK, MemoryTypeOK
<1>2. free_blocks' \in Seq(Blocks)
  BY <1>1 DEF TypeOK, MemoryTypeOK, free
<1>3. request_id[r] \in RequestIds
  BY IdsAssumption
<1>4. QED
  BY <1>2, <1>3 DEF TypeOK, MemoryTypeOK, free, Blocks

(* allocate keeps the types of the allocator when its assert holds.        *)
LEMMA AllocateType ==
  ASSUME TypeOK, NEW r \in Requests, cfg' = cfg,
         AllocateAsserts(seq_len(r)),
         allocate(r, seq_len(r), worst_len(r))
  PROVE  MemoryTypeOK'
<1> DEFINE need == UnitsFor(seq_len(r))
<1>1. need \in 0..Len(free_blocks) /\ free_blocks \in Seq(Blocks)
  BY LengthsType DEF AllocateAsserts, TypeOK, MemoryTypeOK
<1>2. LastReversed(free_blocks, need) \in Seq(Blocks)
      /\ DropLast(free_blocks, need) \in Seq(Blocks)
  BY <1>1, LastReversedType, DropLastType
<1>3. request_id[r] \in RequestIds /\ blocks_needed(worst_len(r)) \in Nat
  BY IdsAssumption, LengthsType
<1>4. QED
  BY <1>2, <1>3 DEF TypeOK, MemoryTypeOK, allocate, Blocks

(* append_slot keeps the types of the allocator, also when the list runs   *)
(* dry.                                                                    *)
LEMMA AppendType ==
  ASSUME TypeOK, NEW r \in Requests, cfg' = cfg, append_slot(r, seq_len(r))
  PROVE  MemoryTypeOK'
<1> DEFINE got == IF AppendSucceeds(r, seq_len(r))
                    THEN MissingBlocks(r, seq_len(r)) ELSE Len(free_blocks)
<1>1. got \in 0..Len(free_blocks) /\ free_blocks \in Seq(Blocks)
  BY LengthsType DEF AppendSucceeds, TypeOK, MemoryTypeOK
<1>2. LastReversed(free_blocks, got) \in Seq(Blocks)
      /\ DropLast(free_blocks, got) \in Seq(Blocks)
  BY <1>1, LastReversedType, DropLastType
<1>3. block_table[r] \o LastReversed(free_blocks, got) \in Seq(Blocks)
  BY <1>2 DEF TypeOK, MemoryTypeOK
<1>4. QED
  BY <1>2, <1>3 DEF TypeOK, MemoryTypeOK, append_slot, Blocks

(* Emitting a token keeps the types of output lengths and reasons.         *)
LEMMA EmitType ==
  ASSUME TypeOK, NEW S, NEW stops, Emit(S, stops)
  PROVE  /\ out_len' \in [Requests -> Nat]
         /\ finish_reason' \in
              [Requests -> {"none", "length", "stop", "cancelled"}]
BY DEF TypeOK, Emit, ReasonAfter

(* active.pop(v) yields a sequence one shorter, without row v.             *)
LEMMA RemoveRowType ==
  ASSUME NEW S, NEW s \in Seq(S), NEW v \in 1..Len(s)
  PROVE  /\ RemoveRow(s, v) \in Seq(S)
         /\ Len(RemoveRow(s, v)) = Len(s) - 1
         /\ \A j \in 1..(Len(s) - 1) :
              RemoveRow(s, v)[j] = IF j < v THEN s[j] ELSE s[j + 1]
BY DEF RemoveRow

(* Sorting a set of requests by admit_seq yields a sequence of them.       *)
LEMMA OldestFirstType ==
  ASSUME NEW S \in SUBSET Requests, NEW rows \in OldestFirst(S)
  PROVE  rows \in Seq(S) /\ Len(rows) = Cardinality(S)
<1>1. Cardinality(S) \in Nat
  BY RequestsFinite, FS_Subset, FS_CardinalityType
<1>2. QED
  BY <1>1 DEF OldestFirst

(* The variables keep their types: TypeOK is inductive by itself.          *)
LEMMA TypeStep == TypeOK /\ [Next]_vars => TypeOK'
<1> SUFFICES ASSUME TypeOK, [Next]_vars PROVE TypeOK'
  OBVIOUS
<1>1. CASE UNCHANGED vars
  BY <1>1 DEF vars, memoryVars, threadVars, requestVars, TypeOK, MemoryTypeOK,
     Blocks
<1>2. ASSUME NEW r \in Requests, NEW p \in PromptLens, NEW m \in MaxNewTokens,
             Submit(r, p, m)
      PROVE  TypeOK'
  <2>1. p \in Nat /\ m \in Nat /\ MaxContext \in Nat /\ p < MaxContext
    BY <1>2, InputsAssumption, SizesAssumption DEF Submit, AcceptsPrompt
  <2>2. QED
    BY <1>2, <2>1 DEF Submit, TypeOK, MemoryTypeOK, memoryVars, Blocks
<1>3. ASSUME NEW r \in Impatient, Disconnect(r) \/ SetCancelled(r)
      PROVE  TypeOK'
  BY <1>3, InputsAssumption DEF Disconnect, SetCancelled, TypeOK, MemoryTypeOK,
     memoryVars, threadVars, Blocks
<1>4. CASE BeginStep
  BY <1>4 DEF BeginStep, TypeOK, MemoryTypeOK, memoryVars, Blocks
<1>5. ASSUME NEW r \in Requests, Retire(r) PROVE TypeOK'
  <2>1. MemoryTypeOK'
    BY <1>5, FreeType DEF Retire
  <2>2. QED
    BY <1>5, <2>1 DEF Retire, TypeOK
<1>6. CASE EndRetire \/ EndAdmit \/ OutOfBlocks
  BY <1>6 DEF EndRetire, EndAdmit, OutOfBlocks, TypeOK, MemoryTypeOK, memoryVars,
     requestVars, Blocks
<1>7. ASSUME NEW r \in Requests, Admit(r) PROVE TypeOK'
  <2>1. MemoryTypeOK'
    BY <1>7, AllocateType DEF Admit
  <2>2. QED
    BY <1>7, <2>1 DEF Admit, TypeOK
<1>8. ASSUME NEW r \in Requests, AdmitAsserts(r) PROVE TypeOK'
  BY <1>8 DEF AdmitAsserts, TypeOK, MemoryTypeOK, memoryVars, requestVars, Blocks
<1>9. CASE Prefill
  <2>1. /\ out_len' \in [Requests -> Nat]
        /\ finish_reason' \in
             [Requests -> {"none", "length", "stop", "cancelled"}]
    BY <1>9, EmitType DEF Prefill
  <2>2. state' \in [Requests -> {"new", "WAITING", "RUNNING", "FINISHED"}]
    BY <1>9 DEF Prefill, TypeOK
  <2>3. cached' \in [Requests -> Nat]
    BY <1>9 DEF Prefill, PrefillTokens, TypeOK
  <2>4. QED
    BY <1>9, <2>1, <2>2, <2>3
    DEF Prefill, TypeOK, MemoryTypeOK, memoryVars, Blocks
<1>10. CASE BeginDecode
  <2>1. PICK rows \in OldestFirst(Unfinished) : active' = rows
    BY <1>10 DEF BeginDecode
  <2>2. Unfinished \in SUBSET Requests
    BY DEF Unfinished, TypeOK
  <2>3. active' \in Seq(Requests)
    BY <2>1, <2>2, OldestFirstType
  <2>4. QED
    BY <1>10, <2>3
    DEF BeginDecode, TypeOK, MemoryTypeOK, memoryVars, requestVars, Blocks
<1>11. CASE AppendSlot
  <2>1. active[i] \in Requests
    BY <1>11 DEF AppendSlot, TypeOK
  <2>2. MemoryTypeOK'
    BY <1>11, <2>1, AppendType DEF AppendSlot
  <2>3. i' \in Nat \ {0} /\ pc' \in {"ensure", "evict"}
    <3>1. i \in Nat \ {0}
      BY DEF TypeOK
    <3>2. CASE AppendSucceeds(active[i], seq_len(active[i]))
      BY <1>11, <3>1, <3>2 DEF AppendSlot
    <3>3. CASE ~AppendSucceeds(active[i], seq_len(active[i]))
      BY <1>11, <3>1, <3>3 DEF AppendSlot
    <3>4. QED
      BY <3>2, <3>3
  <2>4. /\ active' \in Seq(Requests)
        /\ waiting' \subseteq Requests /\ running' \subseteq Requests
        /\ batch' \subseteq Requests
        /\ admit_counter' \in Nat
    BY <1>11 DEF AppendSlot, TypeOK
  <2>5. QED
    BY <1>11, <2>2, <2>3, <2>4 DEF AppendSlot, TypeOK, requestVars
<1>12. CASE Preempt
  <2>1. PICK v \in 1..Len(active) :
          /\ active' = RemoveRow(active, v)
          /\ i' = RowAfterEviction(v)
          /\ free(active[v])
          /\ running' = running \ {active[v]}
          /\ waiting' = waiting \cup {active[v]}
          /\ state' = [state EXCEPT ![active[v]] = "WAITING"]
          /\ preempt_count' = [preempt_count EXCEPT ![active[v]] = @ + 1]
          /\ cached' = [cached EXCEPT ![active[v]] = 0]
    BY <1>12 DEF Preempt
  <2>2. active[v] \in Requests /\ active' \in Seq(Requests)
    BY <2>1, RemoveRowType DEF TypeOK
  <2>3. i' \in Nat \ {0}
    BY <2>1 DEF RowAfterEviction, TypeOK
  <2>4. MemoryTypeOK'
    BY <1>12, <2>1, <2>2, FreeType DEF Preempt
  <2>5. /\ state' \in [Requests -> {"new", "WAITING", "RUNNING", "FINISHED"}]
        /\ preempt_count' \in [Requests -> Nat]
        /\ cached' \in [Requests -> Nat]
    <3>1. PICK victim \in Requests : victim = active[v]
      BY <2>2
    <3>2. /\ state' = [state EXCEPT ![victim] = "WAITING"]
          /\ preempt_count' = [preempt_count EXCEPT ![victim] = @ + 1]
          /\ cached' = [cached EXCEPT ![victim] = 0]
      BY <2>1, <3>1
    <3>3. /\ state \in [Requests -> {"new", "WAITING", "RUNNING", "FINISHED"}]
          /\ preempt_count \in [Requests -> Nat]
          /\ cached \in [Requests -> Nat]
      BY DEF TypeOK
    <3>4. QED
      BY <3>2, <3>3
  <2>6. waiting' \subseteq Requests /\ running' \subseteq Requests
    BY <2>1, <2>2 DEF TypeOK
  <2>7. QED
    BY <1>12, <2>2, <2>3, <2>4, <2>5, <2>6 DEF Preempt, TypeOK
<1>13. CASE DecodeStep
  <2>1. /\ out_len' \in [Requests -> Nat]
        /\ finish_reason' \in
             [Requests -> {"none", "length", "stop", "cancelled"}]
    BY <1>13, EmitType DEF DecodeStep
  <2>2. cached' \in [Requests -> Nat]
    BY <1>13 DEF DecodeStep, seq_len, TypeOK
  <2>3. QED
    BY <1>13, <2>1, <2>2
    DEF DecodeStep, TypeOK, MemoryTypeOK, memoryVars, Blocks
<1>14. QED
  BY <1>1, <1>2, <1>3, <1>4, <1>5, <1>6, <1>7, <1>8, <1>9, <1>10, <1>11, <1>12,
     <1>13
  DEF Next, EngineStep, ApiStep, Idle

(* The initial state is well typed.                                        *)
LEMMA TypeInit == Init => TypeOK
<1> SUFFICES ASSUME Init PROVE TypeOK
  OBVIOUS
<1>1. cfg.num_blocks \in Nat
  BY ConfigsAssumption DEF Init, EngineConfig
<1>2. free_blocks \in Seq(Blocks)
  <2>1. free_blocks = [k \in Blocks |-> cfg.num_blocks - k + 1]
    BY DEF Init, MemoryInit
  <2>2. \A k \in Blocks : cfg.num_blocks - k + 1 \in Blocks
    BY <1>1 DEF Blocks
  <2>3. free_blocks \in [1..cfg.num_blocks -> Blocks]
    BY <2>1, <2>2 DEF Blocks
  <2>4. QED
    BY <1>1, <2>3
<1>3. block_table \in [Requests -> Seq(Blocks)] /\ committed \in [RequestIds -> Nat]
  BY DEF Init, MemoryInit
<1>4. QED
  BY <1>2, <1>3 DEF Init, TypeOK, MemoryTypeOK

(* The engine's variables keep their types in every behaviour.             *)
THEOREM TypeCorrect == Spec => []TypeOK
BY TypeInit, TypeStep, PTL DEF Spec
-----------------------------------------------------------------------------
(* The allocators keep every block in exactly one place.                   *)

(* The last k of f, last first, behind t.                                  *)
LEMMA TakenTable ==
  ASSUME NEW S, NEW f \in Seq(S), NEW t \in Seq(S), NEW k \in 0..Len(f)
  PROVE  /\ t \o LastReversed(f, k) \in Seq(S)
         /\ Len(t \o LastReversed(f, k)) = Len(t) + k
         /\ \A j \in 1..Len(t) : (t \o LastReversed(f, k))[j] = t[j]
         /\ \A j \in (Len(t) + 1)..(Len(t) + k) :
              (t \o LastReversed(f, k))[j] = f[Len(f) + Len(t) + 1 - j]
<1> DEFINE u == LastReversed(f, k)
<1>1. u \in Seq(S) /\ Len(u) = k /\ \A j \in 1..k : u[j] = f[Len(f) - j + 1]
  BY LastReversedType
<1>2. Len(t) \in Nat /\ Len(f) \in Nat /\ k \in Nat
  OBVIOUS
<1> HIDE DEF u
<1>3. /\ t \o u \in Seq(S)
      /\ Len(t \o u) = Len(t) + k
      /\ \A j \in 1..Len(t) : (t \o u)[j] = t[j]
      /\ \A j \in (Len(t) + 1)..(Len(t) + k) : (t \o u)[j] = u[j - Len(t)]
  <2>1. /\ t \o u \in Seq(S)
        /\ Len(t \o u) = Len(t) + Len(u)
        /\ \A j \in 1..(Len(t) + Len(u)) :
             (t \o u)[j] = IF j <= Len(t) THEN t[j] ELSE u[j - Len(t)]
    BY <1>1, ConcatProperties
  <2>2. \A j \in 1..Len(t) : j \in 1..(Len(t) + Len(u)) /\ j <= Len(t)
    BY <1>1, <1>2
  <2>3. \A j \in (Len(t) + 1)..(Len(t) + k) :
          j \in 1..(Len(t) + Len(u)) /\ ~(j <= Len(t))
    BY <1>1, <1>2
  <2>4. QED
    BY <1>1, <2>1, <2>2, <2>3
<1>4. \A j \in (Len(t) + 1)..(Len(t) + k) :
        u[j - Len(t)] = f[Len(f) + Len(t) + 1 - j]
  <2> SUFFICES ASSUME NEW j \in (Len(t) + 1)..(Len(t) + k)
               PROVE  u[j - Len(t)] = f[Len(f) + Len(t) + 1 - j]
    OBVIOUS
  <2>1. j - Len(t) \in 1..k
    BY <1>2
  <2>2. u[j - Len(t)] = f[Len(f) - (j - Len(t)) + 1]
    BY <1>1, <2>1
  <2>3. Len(f) - (j - Len(t)) + 1 = Len(f) + Len(t) + 1 - j
    BY <1>2
  <2>4. QED
    BY <2>2, <2>3
<1>5. QED
  BY <1>3, <1>4 DEF u

(* Taking the last k free blocks to the end of r's table: allocate, where  *)
(* the table is empty, and append_slot.                                    *)
LEMMA TakeOwned ==
  ASSUME TypeOK, BlocksOwnedOnce, cfg' = cfg,
         NEW r \in Requests, NEW k \in 0..Len(free_blocks),
         block_table' = [block_table EXCEPT
                           ![r] = @ \o LastReversed(free_blocks, k)],
         free_blocks' = DropLast(free_blocks, k)
  PROVE  BlocksOwnedOnce'
<1> DEFINE n == Len(free_blocks)
           m == Len(block_table[r])
           Old == 1..m
           New == (m + 1)..(m + k)
           From(j) == n + m + 1 - j
<1>1. /\ free_blocks \in Seq(Blocks) /\ n \in Nat /\ k \in 0..n
      /\ block_table[r] \in Seq(Blocks) /\ m \in Nat
  BY DEF TypeOK, MemoryTypeOK
<1>2. /\ Len(free_blocks') = n - k
      /\ \A j \in 1..(n - k) : free_blocks'[j] = free_blocks[j]
  BY <1>1, DropLastType
<1>3. \A q \in Requests : q # r => block_table'[q] = block_table[q]
  BY DEF TypeOK, MemoryTypeOK
<1>4. /\ Len(block_table'[r]) = m + k
      /\ \A j \in Old : block_table'[r][j] = block_table[r][j]
      /\ \A j \in New : block_table'[r][j] = free_blocks[From(j)]
  <2>1. block_table'[r] = block_table[r] \o LastReversed(free_blocks, k)
    BY DEF TypeOK, MemoryTypeOK
  <2>2. /\ Len(block_table'[r]) = Len(block_table[r]) + k
        /\ \A j \in 1..Len(block_table[r]) :
             block_table'[r][j] = block_table[r][j]
        /\ \A j \in (Len(block_table[r]) + 1)..(Len(block_table[r]) + k) :
             block_table'[r][j]
               = free_blocks[Len(free_blocks) + Len(block_table[r]) + 1 - j]
    <3> HIDE DEF n, m, Old, New, From
    <3>1. PICK S, f, t : S = Blocks /\ f = free_blocks /\ t = block_table[r]
      OBVIOUS
    <3>2. f \in Seq(S) /\ t \in Seq(S) /\ k \in 0..Len(f)
      BY <1>1, <3>1
    <3>3. /\ Len(t \o LastReversed(f, k)) = Len(t) + k
          /\ \A j \in 1..Len(t) : (t \o LastReversed(f, k))[j] = t[j]
          /\ \A j \in (Len(t) + 1)..(Len(t) + k) :
               (t \o LastReversed(f, k))[j] = f[Len(f) + Len(t) + 1 - j]
      BY <3>2, TakenTable
    <3>4. QED
      BY <2>1, <3>1, <3>3, Zenon
  <2>3. QED
    BY <2>2
<1>5. \A j \in 1..(m + k) : j \in Old \/ j \in New
  BY <1>1
<1>6. \A j \in New : From(j) \in 1..n /\ From(j) > n - k
  BY <1>1
<1>7. \A j, l \in New : From(j) = From(l) => j = l
  BY <1>1
<1>8. \A l \in 1..n : l > n - k => From(From(l)) = l /\ From(l) \in New
  <2>1. \A l \in 1..n : From(From(l)) = l
    <3>1. n \in Nat /\ m \in Nat
      BY <1>1
    <3> HIDE DEF n, m
    <3>2. QED
      BY <3>1
  <2>2. \A l \in 1..n : l > n - k => From(l) \in New
    BY <1>1
  <2>3. QED
    BY <2>1, <2>2
<1>9. \A l \in 1..(n - k) : l \in 1..n /\ ~(l > n - k)
  BY <1>1
<1>10. \A l \in 1..n : l > n - k \/ l \in 1..(n - k)
  BY <1>1
<1>11. Old \subseteq 1..(m + k) /\ New \subseteq 1..(m + k)
  BY <1>1
<1> HIDE DEF n, m, Old, New, From
<1>12. FreeListUnique'
  BY <1>2, <1>9 DEF BlocksOwnedOnce, FreeListUnique, n
<1>13. TablesDisjoint'
  <2> SUFFICES ASSUME NEW q \in Requests, NEW p \in Requests,
                      NEW j \in 1..Len(block_table'[q]),
                      NEW l \in 1..Len(block_table'[p]),
                      block_table'[q][j] = block_table'[p][l]
               PROVE  q = p /\ j = l
    BY DEF TablesDisjoint
  <2>1. ASSUME NEW q1 \in Requests, q1 # r,
               NEW j1 \in 1..Len(block_table'[q1]), NEW l1 \in New
        PROVE  block_table'[q1][j1] # block_table'[r][l1]
    <3>1. From(l1) \in 1..n /\ block_table'[r][l1] = free_blocks[From(l1)]
      BY <1>4, <1>6
    <3>2. block_table'[q1] = block_table[q1]
      BY <1>3, <2>1
    <3>3. \A c \in 1..n : block_table[q1][j1] # free_blocks[c]
      BY <3>2 DEF BlocksOwnedOnce, HeldIsNotFree, n
    <3>4. QED
      BY <3>1, <3>2, <3>3
  <2>2. ASSUME NEW j1 \in Old, NEW l1 \in New
        PROVE  block_table'[r][j1] # block_table'[r][l1]
    <3>1. From(l1) \in 1..n /\ block_table'[r][l1] = free_blocks[From(l1)]
      BY <1>4, <1>6
    <3>2. block_table'[r][j1] = block_table[r][j1]
      BY <1>4
    <3>3. \A c \in 1..n : block_table[r][j1] # free_blocks[c]
      BY DEF BlocksOwnedOnce, HeldIsNotFree, n, Old, m
    <3>4. QED
      BY <3>1, <3>2, <3>3
  <2>3. ASSUME NEW j1 \in New, NEW l1 \in New,
               block_table'[r][j1] = block_table'[r][l1]
        PROVE  j1 = l1
    <3>1. /\ From(j1) \in 1..n /\ block_table'[r][j1] = free_blocks[From(j1)]
          /\ From(l1) \in 1..n /\ block_table'[r][l1] = free_blocks[From(l1)]
      BY <1>4, <1>6
    <3>2. \A c, d \in 1..n : free_blocks[c] = free_blocks[d] => c = d
      BY DEF BlocksOwnedOnce, FreeListUnique, n
    <3>3. From(j1) = From(l1)
      BY <2>3, <3>1, <3>2
    <3>4. QED
      BY <1>7, <3>3
  <2>4. ASSUME NEW j1 \in Old, NEW l1 \in Old,
               block_table'[r][j1] = block_table'[r][l1]
        PROVE  j1 = l1
    BY <1>4, <2>4 DEF BlocksOwnedOnce, TablesDisjoint, Old, m
  <2>5. ASSUME NEW q1 \in Requests, q1 # r,
               NEW j1 \in 1..Len(block_table'[q1]), NEW l1 \in Old
        PROVE  block_table'[q1][j1] # block_table'[r][l1]
    BY <1>3, <1>4, <2>5 DEF BlocksOwnedOnce, TablesDisjoint, Old, m
  <2>6. CASE q # r /\ p # r
    BY <1>3, <2>6 DEF BlocksOwnedOnce, TablesDisjoint
  <2>7. CASE q # r /\ p = r
    <3>1. l \in Old \/ l \in New
      BY <1>4, <1>5, <2>7
    <3>2. QED
      BY <2>1, <2>5, <2>7, <3>1
  <2>8. CASE q = r /\ p # r
    <3>1. j \in Old \/ j \in New
      BY <1>4, <1>5, <2>8
    <3>2. QED
      BY <2>1, <2>5, <2>8, <3>1
  <2>9. CASE q = r /\ p = r
    <3>1. (j \in Old \/ j \in New) /\ (l \in Old \/ l \in New)
      BY <1>4, <1>5, <2>9
    <3>2. QED
      BY <2>2, <2>3, <2>4, <2>9, <3>1
  <2>10. QED
    BY <2>6, <2>7, <2>8, <2>9
<1>14. HeldIsNotFree'
  <2> SUFFICES ASSUME NEW q \in Requests, NEW j \in 1..Len(block_table'[q]),
                      NEW l \in 1..(n - k)
               PROVE  block_table'[q][j] # free_blocks[l]
    BY <1>2 DEF HeldIsNotFree
  <2>1. l \in 1..n /\ ~(l > n - k)
    BY <1>9
  <2>2. CASE q # r
    BY <1>3, <2>1, <2>2 DEF BlocksOwnedOnce, HeldIsNotFree, n
  <2>3. CASE q = r /\ j \in Old
    BY <1>4, <2>1, <2>3 DEF BlocksOwnedOnce, HeldIsNotFree, n, m, Old
  <2>4. CASE q = r /\ j \in New
    <3>1. From(j) \in 1..n /\ From(j) # l
      BY <1>6, <2>1, <2>4
    <3>2. QED
      BY <1>4, <2>1, <2>4, <3>1 DEF BlocksOwnedOnce, FreeListUnique, n
  <2>5. QED
    BY <1>4, <1>5, <2>2, <2>3, <2>4
<1>15. NoBlockLost'
  <2> SUFFICES ASSUME NEW b \in Blocks,
                      ~ \E l \in 1..(n - k) : free_blocks'[l] = b
               PROVE  \E q \in Requests : \E j \in 1..Len(block_table'[q]) :
                        block_table'[q][j] = b
    BY <1>2 DEF NoBlockLost, Blocks
  <2>1. CASE \E l \in 1..n : free_blocks[l] = b
    <3>1. PICK l \in 1..n : free_blocks[l] = b
      BY <2>1
    <3>2. l > n - k
      BY <1>2, <1>10, <3>1
    <3>3. From(l) \in New /\ From(From(l)) = l
      BY <1>8, <3>2
    <3>4. block_table'[r][From(l)] = b /\ From(l) \in 1..Len(block_table'[r])
      BY <1>4, <1>11, <3>1, <3>3
    <3>5. QED
      BY <3>4
  <2>2. CASE \E q \in Requests : \E j \in 1..Len(block_table[q]) :
               block_table[q][j] = b
    <3>1. PICK q \in Requests : \E j \in 1..Len(block_table[q]) :
                 block_table[q][j] = b
      BY <2>2
    <3>2. PICK j \in 1..Len(block_table[q]) : block_table[q][j] = b
      BY <3>1
    <3>3. CASE q # r
      BY <1>3, <3>2, <3>3
    <3>4. CASE q = r
      <4>1. j \in Old
        BY <3>2, <3>4 DEF Old, m
      <4>2. j \in 1..Len(block_table'[r]) /\ block_table'[r][j] = b
        BY <1>4, <1>11, <3>2, <3>4, <4>1
      <4>3. QED
        BY <4>2
    <3>5. QED
      BY <3>3, <3>4
  <2>3. QED
    BY <2>1, <2>2 DEF BlocksOwnedOnce, NoBlockLost, n
<1>16. QED
  BY <1>12, <1>13, <1>14, <1>15 DEF BlocksOwnedOnce

(* allocate keeps every block in one place: r has no table yet.            *)
LEMMA AllocateOwned ==
  ASSUME TypeOK, BlocksOwnedOnce, cfg' = cfg, NEW r \in Requests,
         block_table[r] = <<>>, AllocateAsserts(seq_len(r)),
         allocate(r, seq_len(r), worst_len(r))
  PROVE  BlocksOwnedOnce'
<1> DEFINE need == UnitsFor(seq_len(r))
<1>1. need \in 0..Len(free_blocks) /\ free_blocks \in Seq(Blocks)
  BY LengthsType DEF AllocateAsserts, TypeOK, MemoryTypeOK
<1>2. LastReversed(free_blocks, need) \in Seq(Blocks)
  BY <1>1, LastReversedType
<1>3. block_table[r] \o LastReversed(free_blocks, need)
        = LastReversed(free_blocks, need)
  <2> HIDE DEF need
  <2>1. PICK u : u = LastReversed(free_blocks, need)
    OBVIOUS
  <2>2. <<>> \o u = u
    BY <1>2, <2>1, ConcatEmptySeq
  <2>3. QED
    BY <2>1, <2>2
<1>4. /\ block_table' = [block_table EXCEPT
                           ![r] = @ \o LastReversed(free_blocks, need)]
      /\ free_blocks' = DropLast(free_blocks, need)
  <2>1. /\ block_table' = [block_table EXCEPT
                             ![r] = LastReversed(free_blocks, need)]
        /\ free_blocks' = DropLast(free_blocks, need)
    BY DEF allocate
  <2> HIDE DEF need
  <2>2. QED
    BY <1>3, <2>1, Zenon
<1>5. QED
  BY <1>1, <1>4, TakeOwned

(* append_slot does too, whether or not it gets all it needs.              *)
LEMMA AppendOwned ==
  ASSUME TypeOK, BlocksOwnedOnce, cfg' = cfg, NEW r \in Requests,
         append_slot(r, seq_len(r))
  PROVE  BlocksOwnedOnce'
<1> DEFINE got == IF AppendSucceeds(r, seq_len(r))
                    THEN MissingBlocks(r, seq_len(r)) ELSE Len(free_blocks)
<1>1. got \in 0..Len(free_blocks)
  BY LengthsType DEF AppendSucceeds, TypeOK, MemoryTypeOK
<1>2. /\ block_table' = [block_table EXCEPT
                           ![r] = @ \o LastReversed(free_blocks, got)]
      /\ free_blocks' = DropLast(free_blocks, got)
  BY DEF append_slot
<1> HIDE DEF got
<1>3. QED
  BY <1>1, <1>2, TakeOwned

(* Returning r's blocks to the end of the free list.                       *)
LEMMA FreeOwned ==
  ASSUME TypeOK, BlocksOwnedOnce, cfg' = cfg, NEW r \in Requests, free(r)
  PROVE  BlocksOwnedOnce'
<1> DEFINE n == Len(free_blocks)
           m == Len(block_table[r])
           Back == (n + 1)..(n + m)
           From(j) == m + n + 1 - j
<1>1. /\ free_blocks \in Seq(Blocks) /\ n \in Nat
      /\ block_table[r] \in Seq(Blocks) /\ m \in Nat
  BY DEF TypeOK, MemoryTypeOK
<1>2. /\ block_table'[r] = <<>> /\ Len(block_table'[r]) = 0
      /\ \A q \in Requests : q # r => block_table'[q] = block_table[q]
  BY DEF free, TypeOK, MemoryTypeOK
<1>3. /\ Len(free_blocks') = n + m
      /\ \A j \in 1..n : free_blocks'[j] = free_blocks[j]
      /\ \A j \in Back : free_blocks'[j] = block_table[r][From(j)]
  <2>1. free_blocks' = free_blocks \o LastReversed(block_table[r], m)
    BY DEF free
  <2> HIDE DEF n, m, Back, From
  <2>2. PICK S, f, t, k : /\ S = Blocks /\ f = block_table[r]
                          /\ t = free_blocks /\ k = m
    OBVIOUS
  <2>3. f \in Seq(S) /\ t \in Seq(S) /\ k \in 0..Len(f)
    BY <1>1, <2>2 DEF m
  <2>4. /\ Len(t \o LastReversed(f, k)) = Len(t) + k
        /\ \A j \in 1..Len(t) : (t \o LastReversed(f, k))[j] = t[j]
        /\ \A j \in (Len(t) + 1)..(Len(t) + k) :
             (t \o LastReversed(f, k))[j] = f[Len(f) + Len(t) + 1 - j]
    BY <2>3, TakenTable
  <2>5. QED
    BY <2>1, <2>2, <2>4, Zenon DEF n, m, Back, From
<1>4. \A j \in 1..(n + m) : j \in 1..n \/ j \in Back
  BY <1>1
<1>5. \A j \in Back : From(j) \in 1..m
  BY <1>1
<1>6. \A j, l \in Back : From(j) = From(l) => j = l
  BY <1>1
<1>7. n \in Nat /\ m \in Nat
  BY <1>1
<1>8. \A l \in 1..m : From(l) \in Back /\ From(From(l)) = l
  <2>1. \A l \in 1..m : From(l) \in Back
    BY <1>1
  <2>2. \A l \in 1..m : From(From(l)) = l
    <3> HIDE DEF n, m
    <3>1. QED
      BY <1>7
  <2>3. QED
    BY <2>1, <2>2
<1>9. 1..n \subseteq 1..(n + m) /\ Back \subseteq 1..(n + m)
  BY <1>1
<1> HIDE DEF n, m, Back, From
<1>10. \A c, d \in 1..n : free_blocks[c] = free_blocks[d] => c = d
  BY DEF BlocksOwnedOnce, FreeListUnique, n
<1>11. \A q \in Requests : \A j \in 1..Len(block_table[q]), c \in 1..n :
         block_table[q][j] # free_blocks[c]
  BY DEF BlocksOwnedOnce, HeldIsNotFree, n
<1>12. \A c, d \in 1..m : block_table[r][c] = block_table[r][d] => c = d
  BY DEF BlocksOwnedOnce, TablesDisjoint, m
<1>13. FreeListUnique'
  <2> SUFFICES ASSUME NEW j \in 1..(n + m), NEW l \in 1..(n + m),
                      free_blocks'[j] = free_blocks'[l]
               PROVE  j = l
    BY <1>3 DEF FreeListUnique
  <2>1. CASE j \in 1..n /\ l \in 1..n
    BY <1>3, <1>10, <2>1
  <2>2. CASE j \in Back /\ l \in Back
    BY <1>3, <1>5, <1>6, <1>12, <2>2
  <2>3. CASE j \in 1..n /\ l \in Back
    BY <1>3, <1>5, <1>11, <2>3 DEF m
  <2>4. CASE j \in Back /\ l \in 1..n
    BY <1>3, <1>5, <1>11, <2>4 DEF m
  <2>5. QED
    BY <1>4, <2>1, <2>2, <2>3, <2>4
<1>14. TablesDisjoint'
  <2> SUFFICES ASSUME NEW q \in Requests, NEW p \in Requests,
                      NEW j \in 1..Len(block_table'[q]),
                      NEW l \in 1..Len(block_table'[p]),
                      block_table'[q][j] = block_table'[p][l]
               PROVE  q = p /\ j = l
    BY DEF TablesDisjoint
  <2>1. q # r /\ p # r
    BY <1>2
  <2>2. QED
    BY <1>2, <2>1 DEF BlocksOwnedOnce, TablesDisjoint
<1>15. HeldIsNotFree'
  <2> SUFFICES ASSUME NEW q \in Requests,
                      NEW j \in 1..Len(block_table'[q]),
                      NEW l \in 1..(n + m)
               PROVE  block_table'[q][j] # free_blocks'[l]
    BY <1>3 DEF HeldIsNotFree
  <2>1. q # r /\ block_table'[q] = block_table[q]
    BY <1>2
  <2>2. CASE l \in 1..n
    BY <1>3, <1>11, <2>1, <2>2
  <2>3. CASE l \in Back
    <3>1. From(l) \in 1..Len(block_table[r])
      BY <1>5, <2>3 DEF m
    <3>2. block_table[q][j] # block_table[r][From(l)]
      BY <2>1, <3>1 DEF BlocksOwnedOnce, TablesDisjoint
    <3>3. QED
      BY <1>3, <2>1, <2>3, <3>2
  <2>4. QED
    BY <1>4, <2>2, <2>3
<1>16. NoBlockLost'
  <2> SUFFICES ASSUME NEW b \in Blocks
               PROVE  \/ \E l \in 1..(n + m) : free_blocks'[l] = b
                      \/ \E q \in Requests : \E j \in 1..Len(block_table'[q]) :
                           block_table'[q][j] = b
    BY <1>3 DEF NoBlockLost, Blocks
  <2>1. CASE \E l \in 1..n : free_blocks[l] = b
    BY <1>3, <1>9, <2>1
  <2>2. CASE \E q \in Requests : \E j \in 1..Len(block_table[q]) :
               block_table[q][j] = b
    <3>1. PICK q \in Requests : \E j \in 1..Len(block_table[q]) :
                 block_table[q][j] = b
      BY <2>2
    <3>2. PICK j \in 1..Len(block_table[q]) : block_table[q][j] = b
      BY <3>1
    <3>3. CASE q # r
      BY <1>2, <3>2, <3>3
    <3>4. CASE q = r
      <4>1. From(j) \in Back /\ From(From(j)) = j
        BY <1>8, <3>2, <3>4 DEF m
      <4>2. free_blocks'[From(j)] = b /\ From(j) \in 1..(n + m)
        BY <1>3, <1>9, <3>2, <3>4, <4>1
      <4>3. QED
        BY <4>2
    <3>5. QED
      BY <3>3, <3>4
  <2>3. QED
    BY <2>1, <2>2 DEF BlocksOwnedOnce, NoBlockLost, n
<1>17. QED
  BY <1>13, <1>14, <1>15, <1>16 DEF BlocksOwnedOnce
-----------------------------------------------------------------------------
(* The inductive invariant behind BlocksOwnedOnce and SeatsAgree.          *)

(* While capacity is being ensured, the rows are distinct and running.     *)
RowsRunning ==
  /\ Rows \subseteq running
  /\ \A j, k \in 1..Len(active) : active[j] = active[k] => j = k

SeatInv ==
  /\ TypeOK
  /\ BlocksOwnedOnce
  /\ SeatsAgree
  /\ \A r \in Requests : state[r] # "new" => prompt_len[r] > 0
  /\ pc = "retire" => batch = {}
  /\ pc \in {"admit", "prefill"} => \A r \in batch : state[r] = "WAITING"
  /\ pc \in {"ensure", "evict"} => RowsRunning

(* Steps that do not touch the allocator leave every block where it is.    *)
LEMMA MemoryStays ==
  ASSUME BlocksOwnedOnce, UNCHANGED <<cfg, free_blocks, block_table>>
  PROVE  BlocksOwnedOnce'
BY DEF BlocksOwnedOnce, FreeListUnique, TablesDisjoint, HeldIsNotFree,
   NoBlockLost, Blocks

(* A sequence with at least one token occupies at least one unit.          *)
LEMMA SomethingNeeded ==
  ASSUME TypeOK, NEW r \in Requests, prompt_len[r] > 0
  PROVE  UnitsFor(seq_len(r)) \in Nat \ {0}
<1>1. seq_len(r) \in Nat \ {0}
  BY DEF TypeOK, seq_len
<1>2. blocks_needed(seq_len(r)) \in Nat \ {0}
  <2> DEFINE n == seq_len(r)
  <2>1. n \in Nat \ {0} /\ BlockSize \in Nat \ {0}
    BY <1>1, SizesAssumption
  <2> HIDE DEF n
  <2>2. n + BlockSize - 1 >= BlockSize
    BY <2>1
  <2>3. (n + BlockSize - 1) \div BlockSize >= 1
    BY <2>1, <2>2
  <2>4. (n + BlockSize - 1) \div BlockSize \in Nat \ {0}
    BY <2>1, <2>3
  <2>5. QED
    BY <2>4 DEF n, blocks_needed
<1>3. QED
  BY <1>2 DEF UnitsFor

(* Seats can be counted.                                                   *)
LEMMA SeatsFinite ==
  ASSUME TypeOK
  PROVE  /\ IsFiniteSet(running) /\ Cardinality(running) \in Nat
         /\ IsFiniteSet(batch) /\ Cardinality(batch) \in Nat
         /\ cfg.max_batch \in Nat
<1>1. IsFiniteSet(running) /\ IsFiniteSet(batch)
  BY RequestsFinite, FS_Subset DEF TypeOK
<1>2. cfg.max_batch \in Nat
  BY ConfigsAssumption DEF TypeOK, MemoryTypeOK, EngineConfig
<1>3. QED
  BY <1>1, <1>2, FS_CardinalityType
-----------------------------------------------------------------------------
(* A submitted request is new: it is in no list and holds no memory.       *)
LEMMA SubmitSeats ==
  ASSUME SeatInv, TypeOK', NEW r \in Requests, NEW p \in PromptLens,
         NEW m \in MaxNewTokens, Submit(r, p, m)
  PROVE  SeatInv'
<1>1. BlocksOwnedOnce'
  BY MemoryStays DEF Submit, SeatInv, memoryVars
<1>2. r \notin running
  BY DEF Submit, SeatInv, SeatsAgree, StatesFollowLists
<1>3. SeatsAgree'
  BY <1>2 DEF Submit, SeatInv, SeatsAgree, QueuedOnce, MemoryFollowsSeats,
     StatesFollowLists, SeatsBounded, Admitted, memoryVars, TypeOK
<1>4. p > 0
  BY DEF Submit, AcceptsPrompt
<1>5. \A q \in Requests : state'[q] # "new" => prompt_len'[q] > 0
  BY <1>4 DEF Submit, SeatInv, TypeOK
<1>6. QED
  BY <1>1, <1>3, <1>5 DEF Submit, SeatInv

(* A retired request gives up its seat and its memory together.            *)
LEMMA RetireSeats ==
  ASSUME SeatInv, TypeOK', NEW r \in Requests, Retire(r)
  PROVE  SeatInv'
<1>1. BlocksOwnedOnce'
  BY FreeOwned DEF Retire, SeatInv
<1>2. /\ r \in running /\ batch = {} /\ pc = "retire" /\ pc' = "retire"
      /\ batch' = {} /\ waiting' = waiting /\ running' = running \ {r}
  BY DEF Retire, SeatInv, Oldest
<1>3. QueuedOnce'
  BY <1>2 DEF SeatInv, SeatsAgree, QueuedOnce, Admitted
<1>4. MemoryFollowsSeats'
  BY <1>2 DEF Retire, free, SeatInv, SeatsAgree, MemoryFollowsSeats, Admitted,
     TypeOK, MemoryTypeOK
<1>5. StatesFollowLists'
  <2>1. r \notin waiting
    BY <1>2 DEF SeatInv, SeatsAgree, QueuedOnce, Admitted
  <2>2. QED
    BY <1>2, <2>1 DEF Retire, SeatInv, SeatsAgree, StatesFollowLists, TypeOK
<1>6. SeatsBounded'
  <2>1. /\ Cardinality(running \ {r}) <= Cardinality(running)
        /\ Cardinality(running \ {r}) \in Nat
    BY SeatsFinite, FS_Subset, FS_CardinalityType DEF SeatInv
  <2>2. Cardinality(running) <= cfg.max_batch
    BY <1>2 DEF SeatInv, SeatsAgree, SeatsBounded, Admitted
  <2>3. cfg' = cfg /\ Admitted' = running \ {r}
    BY <1>2 DEF Retire, Admitted
  <2>4. QED
    BY <2>1, <2>2, <2>3, SeatsFinite DEF SeatsBounded, SeatInv
<1>7. \A q \in Requests : state'[q] # "new" => prompt_len'[q] > 0
  <2>1. state[r] # "new"
    BY <1>2 DEF SeatInv, SeatsAgree, StatesFollowLists
  <2>2. QED
    BY <2>1 DEF Retire, SeatInv, TypeOK
<1>8. QED
  BY <1>1, <1>2, <1>3, <1>4, <1>5, <1>6, <1>7 DEF SeatInv, SeatsAgree

(* An admitted request takes a free seat and its first units together.     *)
LEMMA AdmitSeats ==
  ASSUME SeatInv, TypeOK', NEW r \in Requests, Admit(r)
  PROVE  SeatInv'
<1>1. /\ pc = "admit" /\ pc' = "admit" /\ cfg' = cfg /\ r \in waiting
      /\ waiting' = waiting \ {r} /\ batch' = batch \cup {r}
      /\ running' = running /\ state' = state /\ prompt_len' = prompt_len
  BY DEF Admit, Admissible, IsHead
<1>2. r \notin running /\ r \notin batch /\ block_table[r] = <<>>
  BY <1>1 DEF SeatInv, SeatsAgree, QueuedOnce, MemoryFollowsSeats, Admitted
<1>3. BlocksOwnedOnce'
  BY <1>1, <1>2, AllocateOwned DEF Admit, SeatInv
<1>4. QueuedOnce'
  BY <1>1 DEF SeatInv, SeatsAgree, QueuedOnce, Admitted
<1>5. MemoryFollowsSeats'
  <2> DEFINE need == UnitsFor(seq_len(r))
  <2>1. prompt_len[r] > 0
    BY <1>1 DEF SeatInv, SeatsAgree, StatesFollowLists
  <2>2. need \in Nat \ {0}
    BY <2>1, SomethingNeeded DEF SeatInv
  <2>3. block_table' = [block_table EXCEPT ![r] = LastReversed(free_blocks, need)]
    BY DEF Admit, allocate
  <2>4. need \in 0..Len(free_blocks) /\ free_blocks \in Seq(Blocks)
    BY <2>2 DEF Admit, AllocateAsserts, SeatInv, TypeOK, MemoryTypeOK
  <2> HIDE DEF need
  <2>5. Len(LastReversed(free_blocks, need)) = need
    BY <2>4, LastReversedType
  <2>6. LastReversed(free_blocks, need) # <<>>
    BY <2>2, <2>5
  <2>7. block_table'[r] # <<>>
    BY <2>3, <2>6 DEF SeatInv, TypeOK, MemoryTypeOK
  <2>8. \A q \in Requests : q # r => block_table'[q] = block_table[q]
    BY <2>3 DEF SeatInv, TypeOK, MemoryTypeOK
  <2>9. QED
    BY <1>1, <2>7, <2>8 DEF SeatInv, SeatsAgree, MemoryFollowsSeats, Admitted
<1>6. StatesFollowLists'
  BY <1>1 DEF SeatInv, SeatsAgree, StatesFollowLists
<1>7. SeatsBounded'
  <2>1. /\ IsFiniteSet(running) /\ Cardinality(running) \in Nat
        /\ IsFiniteSet(batch) /\ Cardinality(batch) \in Nat
        /\ cfg.max_batch \in Nat
    BY SeatsFinite DEF SeatInv
  <2>2. cfg.max_batch - Cardinality(running) - Cardinality(batch) > 0
    BY DEF Admit, Admissible, FreeSeats
  <2>3. /\ IsFiniteSet(batch \cup {r})
        /\ Cardinality(batch \cup {r}) = Cardinality(batch) + 1
    BY <1>2, <2>1, FS_AddElement
  <2>4. /\ IsFiniteSet(running \cap (batch \cup {r}))
        /\ Cardinality(running \cap (batch \cup {r})) \in Nat
    BY <2>1, FS_Subset, FS_CardinalityType
  <2>5. Cardinality(running \cup (batch \cup {r}))
          = Cardinality(running) + Cardinality(batch \cup {r})
              - Cardinality(running \cap (batch \cup {r}))
    BY <2>1, <2>3, FS_Union
  <2>6. Admitted' = running \cup (batch \cup {r})
    BY <1>1 DEF Admitted
  <2>7. Cardinality(running \cup (batch \cup {r})) <= cfg.max_batch
    BY <2>1, <2>2, <2>3, <2>4, <2>5
  <2>8. QED
    BY <1>1, <2>6, <2>7 DEF SeatsBounded
<1>8. \A q \in batch' : state'[q] = "WAITING"
  BY <1>1 DEF SeatInv, SeatsAgree, StatesFollowLists
<1>9. QED
  BY <1>1, <1>3, <1>4, <1>5, <1>6, <1>7, <1>8 DEF SeatInv, SeatsAgree

(* The popped batch moves into `running` as a whole.                       *)
LEMMA PrefillSeats ==
  ASSUME SeatInv, TypeOK', Prefill
  PROVE  SeatInv'
<1>1. /\ pc = "prefill" /\ pc' = "decode" /\ cfg' = cfg /\ waiting' = waiting
      /\ running' = running \cup batch /\ block_table' = block_table
      /\ prompt_len' = prompt_len
      /\ state' = [r \in Requests |-> IF r \in batch THEN "RUNNING" ELSE state[r]]
  BY DEF Prefill, memoryVars
<1>2. BlocksOwnedOnce'
  BY MemoryStays DEF Prefill, SeatInv, memoryVars
<1>3. Admitted' = Admitted
  BY <1>1 DEF Admitted
<1>4. QueuedOnce' /\ MemoryFollowsSeats' /\ SeatsBounded'
  BY <1>1, <1>3 DEF SeatInv, SeatsAgree, QueuedOnce, MemoryFollowsSeats,
     SeatsBounded
<1>5. StatesFollowLists'
  BY <1>1 DEF SeatInv, SeatsAgree, QueuedOnce, StatesFollowLists, Admitted,
     TypeOK
<1>6. \A r \in Requests : state'[r] # "new" => prompt_len'[r] > 0
  <2>1. \A r \in batch : state[r] # "new"
    BY <1>1 DEF SeatInv
  <2>2. QED
    BY <1>1, <2>1 DEF SeatInv
<1>7. QED
  BY <1>1, <1>2, <1>4, <1>5, <1>6 DEF SeatInv, SeatsAgree

(* The rows of the decode are running, once each.                          *)
LEMMA BeginDecodeSeats ==
  ASSUME SeatInv, TypeOK', BeginDecode
  PROVE  SeatInv'
<1>1. BlocksOwnedOnce'
  BY MemoryStays DEF BeginDecode, SeatInv, memoryVars
<1>2. SeatsAgree'
  BY DEF BeginDecode, SeatInv, SeatsAgree, QueuedOnce, MemoryFollowsSeats,
     StatesFollowLists, SeatsBounded, Admitted, memoryVars, requestVars
<1>3. PICK rows \in OldestFirst(Unfinished) : active' = rows
  BY DEF BeginDecode
<1>4. Unfinished \in SUBSET Requests /\ Unfinished \subseteq running
  BY DEF Unfinished, SeatInv, TypeOK
<1>5. /\ Len(rows) = Cardinality(Unfinished)
      /\ rows \in [1..Cardinality(Unfinished) -> Unfinished]
      /\ Cardinality(Unfinished) \in Nat
  <2>1. Cardinality(Unfinished) \in Nat
    BY <1>4, RequestsFinite, FS_Subset, FS_CardinalityType
  <2>2. QED
    BY <1>4, <2>1, OldestFirstType DEF OldestFirst
<1>6. \A j, k \in 1..Len(rows) :
        j < k => admit_seq[rows[j]] < admit_seq[rows[k]]
  BY <1>5 DEF OldestFirst
<1>7. \A j \in 1..Len(rows) : rows[j] \in Unfinished
  BY <1>5
<1>8. \A j \in 1..Len(rows) : admit_seq[rows[j]] \in Int
  <2>1. admit_seq \in [Requests -> Nat \cup {-1}]
    BY DEF SeatInv, TypeOK
  <2>2. QED
    BY <1>4, <1>7, <2>1
<1>9. \A j, k \in 1..Len(rows) : rows[j] = rows[k] => j = k
  <2> SUFFICES ASSUME NEW j \in 1..Len(rows), NEW k \in 1..Len(rows), j < k
               PROVE  rows[j] # rows[k]
    BY <1>5
  <2>1. QED
    BY <1>6, <1>8
<1>10. running' = running
  BY DEF BeginDecode
<1>11. RowsRunning'
  BY <1>3, <1>4, <1>7, <1>9, <1>10 DEF RowsRunning, Rows
<1>12. QED
  BY <1>1, <1>2, <1>11 DEF BeginDecode, SeatInv, requestVars

(* append_slot gives memory only to a request that is running.             *)
LEMMA AppendSeats ==
  ASSUME SeatInv, TypeOK', AppendSlot
  PROVE  SeatInv'
<1> TypeOK
  BY DEF SeatInv
<1>1. PICK r \in Requests : r = active[i]
  <2>1. i \in 1..Len(active) /\ active \in Seq(Requests)
    BY DEF AppendSlot, TypeOK
  <2>2. QED
    BY <2>1
<1>2. /\ pc = "ensure" /\ pc' \in {"ensure", "evict"} /\ cfg' = cfg
      /\ append_slot(r, seq_len(r)) /\ active' = active /\ batch' = batch
      /\ waiting' = waiting /\ running' = running /\ state' = state
      /\ prompt_len' = prompt_len
  BY <1>1 DEF AppendSlot, requestVars
<1>3. r \in running
  <2>1. i \in 1..Len(active)
    BY DEF AppendSlot, TypeOK
  <2>2. QED
    BY <1>1, <1>2, <2>1 DEF SeatInv, RowsRunning, Rows
<1>4. BlocksOwnedOnce'
  BY <1>2, AppendOwned DEF SeatInv
<1>5. Admitted' = Admitted /\ r \in Admitted
  BY <1>2, <1>3 DEF Admitted
<1>6. MemoryFollowsSeats'
  <2> DEFINE got == IF AppendSucceeds(r, seq_len(r))
                      THEN MissingBlocks(r, seq_len(r)) ELSE Len(free_blocks)
             taken == LastReversed(free_blocks, got)
  <2>1. got \in 0..Len(free_blocks) /\ free_blocks \in Seq(Blocks)
    <3>1. MissingBlocks(r, seq_len(r)) \in Nat
      BY LengthsType
    <3>2. free_blocks \in Seq(Blocks) /\ Len(free_blocks) \in Nat
      BY DEF TypeOK, MemoryTypeOK
    <3>3. QED
      BY <3>1, <3>2 DEF AppendSucceeds
  <2>2. block_table' = [block_table EXCEPT ![r] = @ \o taken]
    BY <1>2 DEF append_slot
  <2>3. taken \in Seq(Blocks)
    BY <2>1, LastReversedType
  <2> HIDE DEF got, taken
  <2>4. block_table[r] \in Seq(Blocks) /\ block_table[r] # <<>>
    BY <1>2, <1>5 DEF SeatInv, SeatsAgree, MemoryFollowsSeats, TypeOK,
       MemoryTypeOK
  <2>5. block_table[r] \o taken # <<>>
    <3>1. PICK t, u, S : t = block_table[r] /\ u = taken /\ S = Blocks
      OBVIOUS
    <3>2. t \in Seq(S) /\ u \in Seq(S) /\ t # <<>>
      BY <2>3, <2>4, <3>1
    <3>3. Len(t \o u) = Len(t) + Len(u) /\ Len(t) > 0
      BY <3>2, ConcatProperties, EmptySeq
    <3>4. t \o u # <<>>
      BY <3>2, <3>3
    <3>5. QED
      BY <3>1, <3>4
  <2>6. /\ block_table'[r] # <<>>
        /\ \A q \in Requests : q # r => block_table'[q] = block_table[q]
    BY <2>2, <2>5 DEF SeatInv, TypeOK, MemoryTypeOK
  <2>7. QED
    BY <1>2, <1>5, <2>6 DEF SeatInv, SeatsAgree, MemoryFollowsSeats
<1>7. QueuedOnce' /\ StatesFollowLists' /\ SeatsBounded'
  BY <1>2, <1>5 DEF SeatInv, SeatsAgree, QueuedOnce, StatesFollowLists,
     SeatsBounded
<1>8. RowsRunning'
  BY <1>2 DEF SeatInv, RowsRunning, Rows
<1>9. QED
  BY <1>2, <1>4, <1>6, <1>7, <1>8 DEF SeatInv, SeatsAgree

(* An evicted request gives up its seat, row and memory together.          *)
LEMMA PreemptSeats ==
  ASSUME SeatInv, TypeOK', Preempt
  PROVE  SeatInv'
<1> TypeOK
  BY DEF SeatInv
<1>1. PICK v \in 1..Len(active) :
        /\ active' = RemoveRow(active, v)
        /\ free(active[v])
        /\ running' = running \ {active[v]}
        /\ waiting' = waiting \cup {active[v]}
        /\ state' = [state EXCEPT ![active[v]] = "WAITING"]
  BY DEF Preempt
<1>2. PICK victim \in Requests : victim = active[v]
  BY DEF SeatInv, TypeOK
<1>3. /\ pc = "evict" /\ pc' = "ensure" /\ cfg' = cfg /\ batch' = batch
      /\ prompt_len' = prompt_len
  BY DEF Preempt
<1>4. /\ free(victim)
      /\ running' = running \ {victim}
      /\ waiting' = waiting \cup {victim}
      /\ state' = [state EXCEPT ![victim] = "WAITING"]
  BY <1>1, <1>2
<1>5. victim \in running /\ Admitted = running /\ Admitted' = running \ {victim}
  BY <1>2, <1>3, <1>4 DEF SeatInv, RowsRunning, Rows, Admitted
<1>6. BlocksOwnedOnce'
  BY <1>3, <1>4, FreeOwned DEF SeatInv
<1>7. QueuedOnce'
  BY <1>3, <1>4, <1>5 DEF SeatInv, SeatsAgree, QueuedOnce
<1>8. MemoryFollowsSeats'
  <2>1. /\ block_table'[victim] = <<>>
        /\ \A q \in Requests : q # victim => block_table'[q] = block_table[q]
    BY <1>4 DEF free, TypeOK, MemoryTypeOK
  <2>2. \A q \in Requests : block_table[q] # <<>> <=> q \in running
    BY <1>3, <1>5 DEF SeatInv, SeatsAgree, MemoryFollowsSeats
  <2>3. QED
    BY <1>5, <2>1, <2>2 DEF MemoryFollowsSeats
<1>9. StatesFollowLists'
  <2>1. /\ state'[victim] = "WAITING"
        /\ \A q \in Requests : q # victim => state'[q] = state[q]
    BY <1>4 DEF TypeOK
  <2>2. StatesFollowLists /\ running \subseteq Requests /\ waiting \subseteq Requests
    BY <1>3 DEF SeatInv, SeatsAgree, TypeOK
  <2>3. QED
    BY <1>4, <2>1, <2>2 DEF StatesFollowLists
<1>10. SeatsBounded'
  <2>1. /\ Cardinality(running \ {victim}) <= Cardinality(running)
        /\ Cardinality(running \ {victim}) \in Nat
    BY SeatsFinite, FS_Subset, FS_CardinalityType DEF SeatInv
  <2>2. Cardinality(running) <= cfg.max_batch
    BY <1>3, <1>5 DEF SeatInv, SeatsAgree, SeatsBounded
  <2>3. QED
    BY <1>3, <1>5, <2>1, <2>2, SeatsFinite DEF SeatsBounded, SeatInv
<1>11. \A q \in Requests : state'[q] # "new" => prompt_len'[q] > 0
  <2>1. state[victim] # "new"
    BY <1>3, <1>5 DEF SeatInv, SeatsAgree, StatesFollowLists
  <2>2. QED
    BY <1>3, <1>4, <2>1 DEF SeatInv, TypeOK
<1>12. RowsRunning'
  <2>1. /\ Len(active') = Len(active) - 1
        /\ \A j \in 1..(Len(active) - 1) :
             active'[j] = IF j < v THEN active[j] ELSE active[j + 1]
    <3>1. active \in Seq(Requests) /\ active' = RemoveRow(active, v)
      BY <1>1 DEF TypeOK
    <3>2. QED
      BY <3>1, RemoveRowType
  <2>2. Len(active) \in Nat /\ v \in 1..Len(active)
    BY DEF SeatInv, TypeOK
  <2>3. PICK old : /\ \A j \in 1..(Len(active) - 1) :
                          /\ old[j] \in 1..Len(active) /\ old[j] # v
                          /\ active'[j] = active[old[j]]
                   /\ \A j, k \in 1..(Len(active) - 1) :
                        old[j] = old[k] => j = k
    <3> DEFINE f == [j \in 1..(Len(active) - 1) |-> IF j < v THEN j ELSE j + 1]
    <3>1. \A j \in 1..(Len(active) - 1) :
            f[j] \in 1..Len(active) /\ f[j] # v /\ active'[j] = active[f[j]]
      BY <2>1, <2>2
    <3>2. \A j, k \in 1..(Len(active) - 1) : f[j] = f[k] => j = k
      BY <2>2
    <3> HIDE DEF f
    <3>3. QED
      BY <3>1, <3>2
  <2>4. \A j, k \in 1..Len(active) : active[j] = active[k] => j = k
    BY <1>3 DEF SeatInv, RowsRunning
  <2>5. \A j \in 1..Len(active) : active[j] \in running
    BY <1>3 DEF SeatInv, RowsRunning, Rows
  <2>6. \A j \in 1..Len(active') : active'[j] \in running'
    BY <1>2, <1>4, <2>1, <2>2, <2>3, <2>4, <2>5
  <2>7. \A j, k \in 1..Len(active') : active'[j] = active'[k] => j = k
    BY <2>1, <2>3, <2>4
  <2>8. QED
    BY <2>6, <2>7 DEF RowsRunning, Rows
<1>13. QED
  BY <1>3, <1>6, <1>7, <1>8, <1>9, <1>10, <1>11, <1>12 DEF SeatInv, SeatsAgree

(* Every step keeps the strengthened invariant, one case per action.       *)
LEMMA SeatStep == SeatInv /\ [Next]_vars => SeatInv'
<1> SUFFICES ASSUME SeatInv, [Next]_vars PROVE SeatInv'
  OBVIOUS
<1>1. TypeOK'
  BY TypeStep DEF SeatInv
<1>2. ASSUME UNCHANGED <<cfg, memoryVars, threadVars, state, prompt_len>>
      PROVE  SeatInv'
  <2>1. BlocksOwnedOnce'
    BY <1>2, MemoryStays DEF SeatInv, memoryVars
  <2>2. SeatsAgree'
    BY <1>2 DEF SeatInv, SeatsAgree, QueuedOnce, MemoryFollowsSeats,
       StatesFollowLists, SeatsBounded, Admitted, memoryVars, threadVars
  <2>3. QED
    BY <1>1, <1>2, <2>1, <2>2 DEF SeatInv, RowsRunning, Rows, threadVars
<1>3. CASE UNCHANGED vars
  BY <1>2, <1>3 DEF vars, requestVars
<1>4. ASSUME NEW r \in Requests, NEW p \in PromptLens, NEW m \in MaxNewTokens,
             Submit(r, p, m)
      PROVE  SeatInv'
  BY <1>1, <1>4, SubmitSeats
<1>5. ASSUME NEW r \in Impatient, Disconnect(r) \/ SetCancelled(r)
      PROVE  SeatInv'
  BY <1>2, <1>5 DEF Disconnect, SetCancelled
<1>6. CASE BeginStep
  <2>1. BlocksOwnedOnce'
    BY <1>6, MemoryStays DEF BeginStep, SeatInv, memoryVars
  <2>2. SeatsAgree'
    BY <1>6 DEF BeginStep, SeatInv, SeatsAgree, QueuedOnce, MemoryFollowsSeats,
       StatesFollowLists, SeatsBounded, Admitted, memoryVars
  <2>3. QED
    BY <1>1, <1>6, <2>1, <2>2 DEF BeginStep, SeatInv
<1>7. ASSUME NEW r \in Requests, Retire(r) PROVE SeatInv'
  BY <1>1, <1>7, RetireSeats
<1>8. CASE EndRetire \/ EndAdmit
  <2>1. BlocksOwnedOnce'
    BY <1>8, MemoryStays DEF EndRetire, EndAdmit, SeatInv, memoryVars
  <2>2. Admitted' = Admitted
    BY <1>8 DEF EndRetire, EndAdmit, SeatInv, Admitted
  <2>3. SeatsAgree'
    BY <1>8, <2>2 DEF EndRetire, EndAdmit, SeatInv, SeatsAgree, QueuedOnce,
       MemoryFollowsSeats, StatesFollowLists, SeatsBounded, memoryVars,
       requestVars
  <2>4. QED
    BY <1>1, <1>8, <2>1, <2>3 DEF EndRetire, EndAdmit, SeatInv, requestVars
<1>9. ASSUME NEW r \in Requests, Admit(r) PROVE SeatInv'
  BY <1>1, <1>9, AdmitSeats
<1>10. CASE OutOfBlocks \/ \E r \in Requests : AdmitAsserts(r)
  <2>1. BlocksOwnedOnce'
    BY <1>10, MemoryStays DEF OutOfBlocks, AdmitAsserts, SeatInv, memoryVars
  <2>2. QED
    BY <1>1, <1>10, <2>1 DEF OutOfBlocks, AdmitAsserts, SeatInv, SeatsAgree,
       requestVars
<1>11. CASE Prefill
  BY <1>1, <1>11, PrefillSeats
<1>12. CASE BeginDecode
  BY <1>1, <1>12, BeginDecodeSeats
<1>13. CASE AppendSlot
  BY <1>1, <1>13, AppendSeats
<1>14. CASE Preempt
  BY <1>1, <1>14, PreemptSeats
<1>15. CASE DecodeStep
  <2>1. BlocksOwnedOnce'
    BY <1>15, MemoryStays DEF DecodeStep, SeatInv, memoryVars
  <2>2. SeatsAgree'
    BY <1>15 DEF DecodeStep, SeatInv, SeatsAgree, QueuedOnce,
       MemoryFollowsSeats, StatesFollowLists, SeatsBounded, Admitted, memoryVars
  <2>3. QED
    BY <1>1, <1>15, <2>1, <2>2 DEF DecodeStep, SeatInv
<1>16. QED
  BY <1>3, <1>4, <1>5, <1>6, <1>7, <1>8, <1>9, <1>10, <1>11, <1>12, <1>13,
     <1>14, <1>15
  DEF Next, EngineStep, ApiStep, Idle

(* The initial state satisfies it: nothing is queued and every block is    *)
(* free.                                                                   *)
LEMMA SeatInit == Init => SeatInv
<1> SUFFICES ASSUME Init PROVE SeatInv
  OBVIOUS
<1>1. TypeOK
  BY TypeInit
<1>2. cfg.num_blocks \in Nat /\ cfg.max_batch \in Nat
  BY ConfigsAssumption DEF Init, EngineConfig
<1>3. /\ Len(free_blocks) = cfg.num_blocks
      /\ \A j \in Blocks : free_blocks[j] = cfg.num_blocks - j + 1
  BY <1>2 DEF Init, MemoryInit, Blocks
<1>4. \A r \in Requests : block_table[r] = <<>> /\ Len(block_table[r]) = 0
  BY DEF Init, MemoryInit
<1>5. BlocksOwnedOnce
  <2>1. FreeListUnique
    BY <1>2, <1>3 DEF FreeListUnique, Blocks
  <2>2. NoBlockLost
    <3> SUFFICES ASSUME NEW b \in Blocks
                 PROVE  \E k \in 1..Len(free_blocks) : free_blocks[k] = b
      BY DEF NoBlockLost
    <3>1. cfg.num_blocks - b + 1 \in Blocks
      BY <1>2 DEF Blocks
    <3>2. free_blocks[cfg.num_blocks - b + 1] = b
      BY <1>2, <1>3, <3>1 DEF Blocks
    <3>3. QED
      BY <1>3, <3>1, <3>2 DEF Blocks
  <2>3. QED
    BY <1>4, <2>1, <2>2 DEF BlocksOwnedOnce, TablesDisjoint, HeldIsNotFree
<1>6. SeatsAgree
  <2>1. Admitted = {} /\ Cardinality(Admitted) = 0
    BY FS_EmptySet DEF Init, Admitted
  <2>2. QED
    BY <1>2, <1>4, <2>1 DEF Init, SeatsAgree, QueuedOnce, MemoryFollowsSeats,
       StatesFollowLists, SeatsBounded
<1>7. QED
  BY <1>1, <1>5, <1>6 DEF Init, SeatInv

(* It holds in every reachable state.                                      *)
LEMMA SeatInvariant == Spec => []SeatInv
BY SeatInit, SeatStep, PTL DEF Spec

(* Whatever is admitted, grown, evicted, cancelled or retired in whatever  *)
(* order, no block is lost, handed out twice, or free while it is held.    *)
THEOREM BlocksSafe == Spec => []BlocksOwnedOnce
<1>1. SeatInv => BlocksOwnedOnce
  BY DEF SeatInv
<1>2. QED
  BY <1>1, SeatInvariant, PTL

(* The lists, the states, the memory and max_batch agree in every state    *)
(* the engine thread lives to see.                                         *)
THEOREM SeatsSafe == Spec => []SeatsAgree
<1>1. SeatInv => SeatsAgree
  BY DEF SeatInv
<1>2. QED
  BY <1>1, SeatInvariant, PTL
=============================================================================
