---------------------------- MODULE BlockManager ----------------------------
(***************************************************************************)
(* The two allocators of KV memory in engine/engine/block_manager.py.      *)
(*                                                                         *)
(*   "paged"       BlockManager: a LIFO free list of fixed-size blocks and *)
(*                 one block table per request, filled lazily;             *)
(*   "contiguous"  SlotManager: one slot of MaxContext positions for every *)
(*                 admitted request.                                       *)
(*                                                                         *)
(* Both have the same interface (can_allocate, allocate, append_slot,      *)
(* free, fits_ever), so both live on the same three variables: a slot is a *)
(* block that holds a whole context.  The module has no specification of   *)
(* its own: Scheduler.tla is the caller whose steps are these operators.   *)
(***************************************************************************)
EXTENDS Integers, Sequences, FiniteSets

CONSTANTS
  NumRequests,  \* requests are numbered in order of arrival_time
  RequestIds,   \* the values of Request.request_id
  request_id,   \* the id each request carries: X-Request-ID, or a fresh uuid
  BlockSize,    \* tokens per block
  MaxContext,   \* spec.max_context: positions one request may use
  Configs       \* the EngineConfigs the server may be started with

Requests == 1..NumRequests

(* num_blocks is what the kv_budget_mib of the config divides into: blocks *)
(* of BlockSize tokens, or slots, of which never more than max_batch.      *)
EngineConfig ==
  [backend: {"paged", "contiguous"}, batching: {"static", "continuous"},
   preemption: BOOLEAN, max_batch: Nat \ {0}, num_blocks: Nat \ {0}]

ASSUME SizesAssumption ==
  /\ NumRequests \in Nat
  /\ BlockSize \in Nat \ {0}
  /\ MaxContext \in Nat \ {0}

ASSUME IdsAssumption ==
  /\ IsFiniteSet(RequestIds)
  /\ request_id \in [Requests -> RequestIds]

ASSUME ConfigsAssumption == Configs \subseteq EngineConfig

VARIABLES
  cfg,          \* the EngineConfig of this process; never changes
  free_blocks,  \* the free list; blocks are taken from and returned to its end
  block_table,  \* per request, the physical block of each logical block
  committed     \* per request id, the worst-case blocks promised (0: no entry)

memoryVars == <<free_blocks, block_table, committed>>

Blocks == 1..cfg.num_blocks

MemoryInit ==
  /\ free_blocks = [k \in Blocks |-> cfg.num_blocks - k + 1]
  /\ block_table = [r \in Requests |-> <<>>]
  /\ committed = [id \in RequestIds |-> 0]
-----------------------------------------------------------------------------
(* The last k elements of s, last one first: k pops from the end of a      *)
(* list, and for k = Len(s) the list reversed.                             *)
LastReversed(s, k) == [j \in 1..k |-> s[Len(s) - j + 1]]

DropLast(s, k) == SubSeq(s, 1, Len(s) - k)

blocks_needed(n_tokens) == (n_tokens + BlockSize - 1) \div BlockSize

(* Mutated form: the 413 check at the front door is missing. *)
FitsAlways(prompt, max_new) == TRUE

fits_ever(prompt, max_new) ==
  IF cfg.backend = "paged"
    THEN blocks_needed(prompt + max_new) <= cfg.num_blocks
    ELSE prompt + max_new <= MaxContext

(* sum(committed.values()), counted as the number of promised blocks.  An  *)
(* entry above num_blocks exists only where the sum is not read.           *)
PromisedBlocks ==
  {p \in RequestIds \X Blocks : p[2] <= committed[p[1]]}

(* Mutated form: admission in reserve mode looks at the free list only.    *)
CanAllocateUnreserved(seq_len, worst_len, headroom) ==
  Len(free_blocks) >= blocks_needed(seq_len) + headroom

(* Mutated form: admission ignores the blocks the others are about to need.*)
CanAllocateNoHeadroom(seq_len, worst_len, headroom) ==
  \/ /\ cfg.backend = "contiguous"
     /\ Len(free_blocks) > 0
  \/ /\ cfg.backend = "paged"
     /\ Len(free_blocks) >= blocks_needed(seq_len)

can_allocate(seq_len, worst_len, headroom) ==
  \/ /\ cfg.backend = "contiguous"
     /\ Len(free_blocks) > 0
  \/ /\ cfg.backend = "paged"
     /\ ~cfg.preemption
     /\ Cardinality(PromisedBlocks) + blocks_needed(worst_len)
          <= cfg.num_blocks
  \/ /\ cfg.backend = "paged"
     /\ cfg.preemption
     /\ Len(free_blocks) >= blocks_needed(seq_len) + headroom

(* What a sequence of n tokens occupies.                                   *)
UnitsFor(seq_len) ==
  IF cfg.backend = "paged" THEN blocks_needed(seq_len) ELSE 1

(* The assert on the first lines of BlockManager.allocate; for SlotManager *)
(* the IndexError of popping an empty list.                                *)
AllocateAsserts(seq_len) == Len(free_blocks) >= UnitsFor(seq_len)

allocate(r, seq_len, worst_len) ==
  LET need == UnitsFor(seq_len) IN
  /\ block_table' = [block_table EXCEPT ![r] = LastReversed(free_blocks, need)]
  /\ free_blocks' = DropLast(free_blocks, need)
  /\ committed' =
       IF cfg.backend = "paged"
         THEN [committed EXCEPT ![request_id[r]] = blocks_needed(worst_len)]
         ELSE committed

(* append_slot takes the missing blocks one by one and keeps what it got   *)
(* when the list runs dry.  A slot never misses one.                       *)
MissingBlocks(r, seq_len) ==
  IF cfg.backend = "paged" /\ blocks_needed(seq_len) > Len(block_table[r])
    THEN blocks_needed(seq_len) - Len(block_table[r])
    ELSE 0

AppendSucceeds(r, seq_len) == MissingBlocks(r, seq_len) <= Len(free_blocks)

append_slot(r, seq_len) ==
  LET got == IF AppendSucceeds(r, seq_len)
               THEN MissingBlocks(r, seq_len) ELSE Len(free_blocks) IN
  /\ block_table' = [block_table EXCEPT
                       ![r] = @ \o LastReversed(free_blocks, got)]
  /\ free_blocks' = DropLast(free_blocks, got)
  /\ UNCHANGED committed

(* Mutated form: the blocks go back to the free list, but the request      *)
(* keeps its table.                                                        *)
FreeKeepingTable(r) ==
  /\ free_blocks' = free_blocks \o
                      LastReversed(block_table[r], Len(block_table[r]))
  /\ committed' = [committed EXCEPT ![request_id[r]] = 0]
  /\ UNCHANGED block_table

free(r) ==
  /\ free_blocks' = free_blocks \o
                      LastReversed(block_table[r], Len(block_table[r]))
  /\ block_table' = [block_table EXCEPT ![r] = <<>>]
  /\ committed' = [committed EXCEPT ![request_id[r]] = 0]
-----------------------------------------------------------------------------
MemoryTypeOK ==
  /\ cfg \in Configs
  /\ free_blocks \in Seq(Blocks)
  /\ block_table \in [Requests -> Seq(Blocks)]
  /\ committed \in [RequestIds -> Nat]

(* Every block is in exactly one place: once in the free list or once in   *)
(* one request's table.  A double entry would let two sequences overwrite  *)
(* each other's keys and values, a missing one shrinks the pool for good.  *)
FreeListUnique ==
  \A j, k \in 1..Len(free_blocks) : free_blocks[j] = free_blocks[k] => j = k

TablesDisjoint ==
  \A r, q \in Requests :
    \A j \in 1..Len(block_table[r]), k \in 1..Len(block_table[q]) :
      block_table[r][j] = block_table[q][k] => r = q /\ j = k

HeldIsNotFree ==
  \A r \in Requests :
    \A j \in 1..Len(block_table[r]), k \in 1..Len(free_blocks) :
      block_table[r][j] # free_blocks[k]

NoBlockLost ==
  \A b \in Blocks :
    \/ \E k \in 1..Len(free_blocks) : free_blocks[k] = b
    \/ \E r \in Requests : \E j \in 1..Len(block_table[r]) :
         block_table[r][j] = b

BlocksOwnedOnce ==
  FreeListUnique /\ TablesDisjoint /\ HeldIsNotFree /\ NoBlockLost
=============================================================================
