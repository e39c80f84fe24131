------------------------------ MODULE KVCache -------------------------------
(***************************************************************************)
(* engine/engine/cache.py and the step_tokens of the two model runners:    *)
(* which keys each query of a forward step reads.  A key is the token it   *)
(* was computed from, <<request, position>>; the arithmetic on its value   *)
(* is left out.                                                            *)
(*                                                                         *)
(* The pool is not a variable: what a cell holds follows from the block    *)
(* tables and from `cached` (Stored), and the property says that the write *)
(* of every forward step makes it follow again.  Block 0 of the code is    *)
(* block 1 here.  A slot is a block that holds a whole context.            *)
(***************************************************************************)
EXTENDS Scheduler, FiniteSetsExt

UnitSize == IF cfg.backend = "paged" THEN BlockSize ELSE MaxContext

Cells == Blocks \X (0..(UnitSize - 1))

(* Whatever an earlier owner of the block left there, or the zeros of the  *)
(* start.                                                                  *)
Stale == <<0, 0>>

(* Where a block table puts position p.                                    *)
CellOf(table, p) == <<table[p \div UnitSize + 1], p % UnitSize>>

(* The pool when each request r has held[r] tokens in it.                  *)
Stored(held) ==
  [c \in Cells |->
     LET here == {t \in Requests \X (0..(MaxContext - 1)) :
                    /\ t[2] < held[t[1]]
                    /\ CellOf(block_table[t[1]], t[2]) = c}
     IN  IF here = {} THEN Stale ELSE CHOOSE t \in here : TRUE]
-----------------------------------------------------------------------------
(* BatchAccess: row k already holds starts[k] tokens and gets ns[k] more.  *)
largest(s) == Max({s[k] : k \in DOMAIN s})

access(rows, starts, ns) ==
  LET totals == [k \in DOMAIN rows |-> starts[k] + ns[k]]
  IN  [rows |-> rows, starts |-> starts, ns |-> ns, b |-> Len(rows),
       t |-> largest(ns), totals |-> totals, lk |-> largest(totals)]

(* Mutated form: the kernels without a mask for every batch.              *)
CausalPrefill(acc, k, u, j) == acc.t = 1 \/ j <= u

(* May query u of row k look at key j?  One row needs no mask.             *)
build_mask(acc, k, u, j) ==
  \/ acc.b = 1 /\ acc.starts[1] = 0 /\ acc.t > 1 /\ j <= u
  \/ acc.b = 1 /\ acc.t = 1
  \/ /\ ~(acc.b = 1 /\ (acc.t = 1 \/ acc.starts[1] = 0))
     /\ j <= acc.starts[k] + u
     /\ j < acc.totals[k]

(* The position embedding of query u; the clamp is for padding only.       *)
positions(acc, k, u) ==
  LET p == acc.starts[k] + u IN IF p < MaxContext THEN p ELSE MaxContext - 1

(* The real tokens of row k; the columns up to acc.t are padding.          *)
Columns(acc, k) == 0..(acc.ns[k] - 1)

(* write: each real token goes where its own row's table says; padding is  *)
(* not written.                                                            *)
write(acc, kv) ==
  [c \in Cells |->
     LET here == {q \in UNION {{k} \X Columns(acc, k) : k \in DOMAIN acc.rows} :
                    CellOf(block_table[acc.rows[q[1]]],
                           acc.starts[q[1]] + q[2]) = c}
         q == CHOOSE q \in here : TRUE
     IN  IF here = {} THEN kv[c]
         ELSE <<acc.rows[q[1]], acc.starts[q[1]] + q[2]>>]

(* PagedAccess: as many blocks as the longest row needs, short tables      *)
(* filled up with block 0.                                                 *)
PaddedTable(acc, table) ==
  [n \in 1..((acc.lk + BlockSize - 1) \div BlockSize) |->
     IF n <= Len(table) THEN table[n] ELSE 1]

(* SlotAccess: the table is the slot.                                      *)
RowTable(acc, k) ==
  LET table == block_table[acc.rows[k]] IN
  IF cfg.backend = "paged" THEN PaddedTable(acc, table) ELSE <<table[1]>>

(* gather: the first lk positions of row k, padding included.              *)
gather(acc, kv, k) ==
  [j \in 0..(acc.lk - 1) |-> kv[CellOf(RowTable(acc, k), j)]]

(* One query of the batch, and what attention gives it to read.            *)
Query(acc, k, u, keys) ==
  [pos  |-> positions(acc, k, u),
   keys |-> {<<j, keys[j]>> : j \in {j \in DOMAIN keys : build_mask(acc, k, u, j)}}]

(* step_tokens, its real queries.                                          *)
step_tokens(acc, before) ==
  LET kv == write(acc, before) IN
  [k \in DOMAIN acc.rows |->
     LET keys == gather(acc, kv, k) IN
     [u \in Columns(acc, k) |-> Query(acc, k, u, keys)]]

(* ContiguousKVCache after the first n tokens of r: one sequence, nobody   *)
(* else.                                                                   *)
read(r, n) == [j \in 0..(n - 1) |-> <<r, j>>]

(* _forward_single: the same n tokens of r alone; causal when there is     *)
(* more than one, which is when start is 0.                                *)
QueryAlone(keys, start, n, u) ==
  [pos  |-> start + u,
   keys |-> {<<j, keys[j]>> : j \in {j \in DOMAIN keys : n > 1 => j <= u}}]

forward_single(r, start, n) ==
  LET keys == read(r, start + n) IN [u \in 0..(n - 1) |-> QueryAlone(keys, start, n, u)]
-----------------------------------------------------------------------------
(* What _prefill feeds: all the tokens of a request, from position 0.      *)
PrefillAccess(rows) ==
  access(rows, [k \in DOMAIN rows |-> 0], [k \in DOMAIN rows |-> PrefillTokens(rows[k])])

(* The admitted requests together when batching is static, otherwise one   *)
(* by one, each when those before it have their tokens in the pool.        *)
PrefillSteps(admitted) ==
  IF cfg.batching = "static" THEN {[acc |-> PrefillAccess(admitted), held |-> cached]}
  ELSE {[acc  |-> PrefillAccess(<<admitted[k]>>),
         held |-> [r \in Requests |-> IF \E j \in 1..(k - 1) : admitted[j] = r
                                      THEN PrefillTokens(r) ELSE cached[r]]] :
          k \in DOMAIN admitted}

(* What _decode feeds: the newest token of every row.                      *)
DecodeAccess ==
  access(active, [k \in DOMAIN active |-> seq_len(active[k]) - 1],
         [k \in DOMAIN active |-> 1])

(* The forward steps that come next, if any.                               *)
ForwardSteps ==
  IF pc = "prefill" THEN UNION {PrefillSteps(admitted) : admitted \in OldestFirst(batch)}
  ELSE IF pc = "ensure" /\ i > Len(active) /\ active # <<>>
  THEN {[acc |-> DecodeAccess, held |-> cached]}
  ELSE {}

(* Every real token of every row is where it would be alone and sees the   *)
(* keys it would see alone.                                                *)
SeesItsOwnPast(acc, before) ==
  \A k \in DOMAIN acc.rows :
    step_tokens(acc, before)[k] = forward_single(acc.rows[k], acc.starts[k], acc.ns[k])

(* After the step its rows have all their tokens in the pool, and what the *)
(* others had there is as it was.                                          *)
WriteTouchesOwnRows(acc, held) ==
  LET kv == write(acc, Stored(held))
      holds(r) == IF \E k \in DOMAIN acc.rows : acc.rows[k] = r
                    THEN seq_len(r) ELSE held[r]
  IN  \A r \in Requests : \A p \in 0..(holds(r) - 1) :
        kv[CellOf(block_table[r], p)] = <<r, p>>

(* "Padding must contribute nothing" (model_runner.py:142, cache.py:52): in *)
(* every forward step every request is computed as if it were alone - with *)
(* no key of another row, of an earlier owner of a block or of block 0 -   *)
(* and the pool holds what the next step needs, however the rows were      *)
(* padded, admitted, evicted and recomputed.                               *)
AttendsAsAlone ==
  \A step \in ForwardSteps :
    /\ SeesItsOwnPast(step.acc, Stored(step.held))
    /\ WriteTouchesOwnRows(step.acc, step.held)
=============================================================================
