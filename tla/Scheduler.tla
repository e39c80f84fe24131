----------------------------- MODULE Scheduler ------------------------------
(***************************************************************************)
(* engine/engine/scheduler.py, class Scheduler: one iteration of step() is *)
(*                                                                         *)
(*   BeginStep, Retire*, EndRetire          _retire                        *)
(*   Admit*, EndAdmit, Prefill              _admit, _prefill               *)
(*   BeginDecode, AppendSlot*, Preempt*,    _decode, _ensure_capacity,     *)
(*   DecodeStep                             _preempt, _emit                *)
(*                                                                         *)
(* all on the engine thread (program counter pc).  API threads act between *)
(* any two of these: they hand over requests (Submit, when the thread      *)
(* drains its inbox) and, when a client goes away, test `finished` and     *)
(* then set `cancelled`, in two steps (Disconnect, SetCancelled).          *)
(*                                                                         *)
(* Tokens are not modelled, only how many there are and whether one is an  *)
(* end-of-sequence token.  `waiting` and `running` are sets: the code sorts*)
(* the first by a total key before it reads it, and the second is always   *)
(* in order of admit_seq.                                                  *)
(***************************************************************************)
EXTENDS BlockManager

CONSTANTS
  PromptLens,   \* the prompt lengths clients send
  MaxNewTokens, \* the max_new_tokens they ask for
  Impatient     \* the requests whose client may go away (a bound for TLC)

ASSUME InputsAssumption ==
  /\ PromptLens \subseteq Nat \ {0}
  /\ MaxNewTokens \subseteq Nat
  /\ Impatient \subseteq Requests

VARIABLES
  pc,            \* where the engine thread is
  waiting,       \* Scheduler.waiting
  running,       \* Scheduler.running
  batch,         \* the requests _pop_admissible admitted in this step
  active,        \* _ensure_capacity: the rows of this decode, oldest first
  i,             \* _ensure_capacity: the row that is given its block
  admit_counter  \* Scheduler._admit_counter

VARIABLES
  state,         \* RequestState; "new" before submit
  prompt_len,    \* len(prompt_token_ids)
  max_new,       \* max_new_tokens
  out_len,       \* len(output_token_ids), and the tokens handed to the sink
  finish_reason, \* "none", "length", "stop" or "cancelled"
  preempt_count,
  admit_seq,
  client,        \* "reading", "leaving" (saw an unfinished request), "gone"
  cached,        \* positions whose keys and values are in the request's blocks
  served         \* the requests EngineMetrics.record_request has counted

threadVars  == <<pc, waiting, running, batch, active, i, admit_counter>>
requestVars == <<state, prompt_len, max_new, out_len, finish_reason,
                 preempt_count, admit_seq, client, cached, served>>
vars == <<cfg, memoryVars, threadVars, requestVars>>

Init ==
  /\ cfg \in Configs
  /\ MemoryInit
  /\ pc = "loop"
  /\ waiting = {} /\ running = {} /\ batch = {}
  /\ active = <<>> /\ i = 1
  /\ admit_counter = 0
  /\ state = [r \in Requests |-> "new"]
  /\ prompt_len = [r \in Requests |-> 0]
  /\ max_new = [r \in Requests |-> 0]
  /\ out_len = [r \in Requests |-> 0]
  /\ finish_reason = [r \in Requests |-> "none"]
  /\ preempt_count = [r \in Requests |-> 0]
  /\ admit_seq = [r \in Requests |-> -1]
  /\ client = [r \in Requests |-> "reading"]
  /\ cached = [r \in Requests |-> 0]
  /\ served = {}
-----------------------------------------------------------------------------
seq_len(r) == prompt_len[r] + out_len[r]

finished(r) == finish_reason[r] # "none"

cancelled(r) == client[r] = "gone"

has_work == waiting # {} \/ running # {}

(* The key (-preempt_count, arrival_time) that orders `waiting`.           *)
GoesBefore(r, q) ==
  \/ preempt_count[r] > preempt_count[q]
  \/ preempt_count[r] = preempt_count[q] /\ r < q

IsHead(r) == r \in waiting /\ \A q \in waiting \ {r} : GoesBefore(r, q)

Oldest(r, S) == r \in S /\ \A q \in S : admit_seq[r] <= admit_seq[q]

(* S as sequences, oldest admission first (there is exactly one).          *)
OldestFirst(S) ==
  {s \in [1..Cardinality(S) -> S] :
     \A j, k \in 1..Cardinality(S) : j < k => admit_seq[s[j]] < admit_seq[s[k]]}

(* The key (preempt_count, -admit_seq) whose minimum is evicted.           *)
EvictedBefore(r, q) ==
  \/ preempt_count[r] < preempt_count[q]
  \/ preempt_count[r] = preempt_count[q] /\ admit_seq[r] >= admit_seq[q]

RemoveRow(s, v) ==
  [j \in 1..(Len(s) - 1) |-> IF j < v THEN s[j] ELSE s[j + 1]]
-----------------------------------------------------------------------------
(* What the API does before and after the scheduler.                       *)

(* Mutated form: the 400 check on the prompt is missing. *)
AcceptsAnyPrompt(p) == p > 0

AcceptsPrompt(p) == p > 0 /\ p < MaxContext

(* A client request p, m that passes the 400 and 413 checks reaches        *)
(* Scheduler.submit, which caps its output.                                *)
Submit(r, p, m) ==
  LET room == MaxContext - p
      eff  == IF m < room THEN m ELSE room IN
  /\ pc = "loop"
  /\ state[r] = "new"
  /\ \A q \in 1..(r - 1) : state[q] # "new"
  /\ AcceptsPrompt(p)
  /\ fits_ever(p, eff)
  /\ prompt_len' = [prompt_len EXCEPT ![r] = p]
  /\ max_new' = [max_new EXCEPT ![r] = eff]
  /\ state' = [state EXCEPT ![r] = "WAITING"]
  /\ waiting' = waiting \cup {r}
  /\ UNCHANGED <<cfg, memoryVars, pc, running, batch, active, i, admit_counter,
                 out_len, finish_reason, preempt_count, admit_seq, client,
                 cached, served>>

(* The `finally` of a handler whose client went away: `if not              *)
(* req.finished:` ...                                                      *)
Disconnect(r) ==
  /\ state[r] # "new"
  /\ client[r] = "reading"
  /\ ~finished(r)
  /\ client' = [client EXCEPT ![r] = "leaving"]
  /\ UNCHANGED <<cfg, memoryVars, threadVars, state, prompt_len, max_new,
                 out_len, finish_reason, preempt_count, admit_seq, cached,
                 served>>

(* ... `req.cancelled = True`, whatever the engine did meanwhile.          *)
SetCancelled(r) ==
  /\ client[r] = "leaving"
  /\ client' = [client EXCEPT ![r] = "gone"]
  /\ UNCHANGED <<cfg, memoryVars, threadVars, state, prompt_len, max_new,
                 out_len, finish_reason, preempt_count, admit_seq, cached,
                 served>>
-----------------------------------------------------------------------------
(* _retire *)

(* Mutated form: a cancelled request is marked even if it has finished.    *)
MarkAllCancelled(r) == r \in running /\ cancelled(r)

MarkedCancelled(r) == r \in running /\ cancelled(r) /\ ~finished(r)

(* Drop what was cancelled in the queue, finish what was cancelled running.*)
BeginStep ==
  /\ pc = "loop"
  /\ has_work
  /\ waiting' = {r \in waiting : ~cancelled(r)}
  /\ finish_reason' =
       [r \in Requests |->
          IF MarkedCancelled(r) THEN "cancelled" ELSE finish_reason[r]]
  /\ batch' = {}
  /\ pc' = "retire"
  /\ UNCHANGED <<cfg, memoryVars, running, active, i, admit_counter, state,
                 prompt_len, max_new, out_len, preempt_count, admit_seq, client,
                 cached, served>>

(* The finished requests leave in the order of `running`.                  *)
Retire(r) ==
  /\ pc = "retire"
  /\ Oldest(r, {q \in running : finished(q)})
  /\ state' = [state EXCEPT ![r] = "FINISHED"]
  /\ running' = running \ {r}
  /\ free(r)
  /\ cached' = [cached EXCEPT ![r] = 0]
  /\ served' = IF finish_reason[r] = "cancelled" THEN served ELSE served \cup {r}
  /\ UNCHANGED <<cfg, pc, waiting, batch, active, i, admit_counter, prompt_len,
                 max_new, out_len, finish_reason, preempt_count, admit_seq,
                 client>>

(* In static batching nothing joins until the batch has drained.           *)
EndRetire ==
  /\ pc = "retire"
  /\ \A r \in running : ~finished(r)
  /\ pc' = IF cfg.batching = "static" /\ running # {} THEN "decode" ELSE "admit"
  /\ UNCHANGED <<cfg, memoryVars, waiting, running, batch, active, i,
                 admit_counter, requestVars>>
-----------------------------------------------------------------------------
(* _admit and _prefill *)

worst_len(r) == prompt_len[r] + max_new[r]

headroom == Cardinality(running) + Cardinality(batch)

(* Mutated form: the size of the running batch is not subtracted.          *)
FreeSeatsIgnoringRunning == cfg.max_batch - Cardinality(batch)

(* The limit of _pop_admissible less what it popped; when batching is      *)
(* static `running` is empty here.                                         *)
FreeSeats == cfg.max_batch - Cardinality(running) - Cardinality(batch)

(* FCFS: only the head of the queue is looked at.                          *)
Admissible(r) ==
  /\ IsHead(r)
  /\ FreeSeats > 0
  /\ can_allocate(seq_len(r), worst_len(r), headroom)

Admit(r) ==
  /\ pc = "admit"
  /\ Admissible(r)
  /\ AllocateAsserts(seq_len(r))
  /\ allocate(r, seq_len(r), worst_len(r))
  /\ waiting' = waiting \ {r}
  /\ batch' = batch \cup {r}
  /\ admit_seq' = [admit_seq EXCEPT ![r] = admit_counter]
  /\ admit_counter' = admit_counter + 1
  /\ UNCHANGED <<cfg, pc, running, active, i, state, prompt_len, max_new,
                 out_len, finish_reason, preempt_count, client, cached, served>>

(* allocate() raises, and with it the engine thread ends.                  *)
AdmitAsserts(r) ==
  /\ pc = "admit"
  /\ Admissible(r)
  /\ ~AllocateAsserts(seq_len(r))
  /\ pc' = "dead"
  /\ waiting' = waiting \ {r}
  /\ UNCHANGED <<cfg, memoryVars, running, batch, active, i, admit_counter,
                 requestVars>>

EndAdmit ==
  /\ pc = "admit"
  /\ \A r \in waiting : ~Admissible(r)
  /\ pc' = IF batch = {} THEN "decode" ELSE "prefill"
  /\ UNCHANGED <<cfg, memoryVars, waiting, running, batch, active, i,
                 admit_counter, requestVars>>

(* Mutated form: max_new_tokens is exceeded by one.                        *)
ReasonAfterOneMore(r, stops) ==
  IF out_len[r] + 1 > max_new[r] THEN "length"
  ELSE IF r \in stops THEN "stop"
  ELSE finish_reason[r]

(* _emit: one more token; `stops` are the requests whose token is an end   *)
(* of sequence they do not ignore.                                         *)
ReasonAfter(r, stops) ==
  IF out_len[r] + 1 >= max_new[r] THEN "length"
  ELSE IF r \in stops THEN "stop"
  ELSE finish_reason[r]

(* Mutated form: a recomputing prefill only rebuilds the cache.            *)
EmitFirstOnly(S, stops) ==
  LET T == {r \in S : pc # "prefill" \/ out_len[r] = 0} IN
  /\ out_len' = [r \in Requests |-> IF r \in T THEN out_len[r] + 1 ELSE out_len[r]]
  /\ finish_reason' = [r \in Requests |->
       IF r \in T THEN ReasonAfter(r, stops) ELSE finish_reason[r]]

Emit(S, stops) ==
  /\ out_len' = [r \in Requests |-> IF r \in S THEN out_len[r] + 1 ELSE out_len[r]]
  /\ finish_reason' = [r \in Requests |->
       IF r \in S THEN ReasonAfter(r, stops) ELSE finish_reason[r]]

(* Mutated form: only the prompt is recomputed after a preemption.         *)
PrefillPromptOnly(r) == prompt_len[r]

(* Prompt plus any tokens already generated.                               *)
PrefillTokens(r) == prompt_len[r] + out_len[r]

Prefill ==
  /\ pc = "prefill"
  /\ \E stops \in SUBSET batch : Emit(batch, stops)
  /\ state' = [r \in Requests |-> IF r \in batch THEN "RUNNING" ELSE state[r]]
  /\ cached' = [r \in Requests |->
                  IF r \in batch THEN PrefillTokens(r) ELSE cached[r]]
  /\ running' = running \cup batch
  /\ pc' = "decode"
  /\ UNCHANGED <<cfg, memoryVars, waiting, batch, active, i, admit_counter,
                 prompt_len, max_new, preempt_count, admit_seq, client, served>>
-----------------------------------------------------------------------------
(* _decode, _ensure_capacity, _preempt *)

Unfinished == {r \in running : ~finished(r)}

BeginDecode ==
  /\ pc = "decode"
  /\ \E rows \in OldestFirst(Unfinished) : active' = rows
  /\ i' = 1
  /\ pc' = IF Unfinished = {} THEN "loop" ELSE "ensure"
  /\ UNCHANGED <<cfg, memoryVars, waiting, running, batch, admit_counter,
                 requestVars>>

AppendSlot ==
  /\ pc = "ensure"
  /\ i <= Len(active)
  /\ append_slot(active[i], seq_len(active[i]))
  /\ IF AppendSucceeds(active[i], seq_len(active[i]))
       THEN i' = i + 1 /\ pc' = "ensure"
       ELSE i' = i /\ pc' = "evict"
  /\ UNCHANGED <<cfg, waiting, running, batch, active, admit_counter,
                 requestVars>>

(* Mutated form: the index is not moved when an earlier row is evicted.    *)
RowUnmoved(v) == i

RowAfterEviction(v) == IF v < i THEN i - 1 ELSE i

Preempt ==
  /\ pc = "evict"
  /\ cfg.preemption
  /\ \E v \in 1..Len(active) :
       LET victim == active[v] IN
       /\ \A w \in 1..Len(active) : EvictedBefore(victim, active[w])
       /\ active' = RemoveRow(active, v)
       /\ i' = RowAfterEviction(v)
       /\ free(victim)
       /\ running' = running \ {victim}
       /\ waiting' = waiting \cup {victim}
       /\ state' = [state EXCEPT ![victim] = "WAITING"]
       /\ preempt_count' = [preempt_count EXCEPT ![victim] = @ + 1]
       /\ cached' = [cached EXCEPT ![victim] = 0]
  /\ pc' = "ensure"
  /\ UNCHANGED <<cfg, batch, admit_counter, prompt_len, max_new, out_len,
                 finish_reason, admit_seq, client, served>>

(* RuntimeError("out of KV blocks and preemption is disabled").            *)
OutOfBlocks ==
  /\ pc = "evict"
  /\ ~cfg.preemption
  /\ pc' = "dead"
  /\ UNCHANGED <<cfg, memoryVars, waiting, running, batch, active, i,
                 admit_counter, requestVars>>

Rows == {active[j] : j \in 1..Len(active)}

(* The token fed is the last one produced: its keys and values take        *)
(* position seq_len - 1 of every row.  With no row left this is the second *)
(* early return of _decode.                                                *)
DecodeStep ==
  /\ pc = "ensure"
  /\ i > Len(active)
  /\ \E stops \in SUBSET Rows : Emit(Rows, stops)
  /\ cached' = [r \in Requests |-> IF r \in Rows THEN seq_len(r) ELSE cached[r]]
  /\ active' = <<>>
  /\ i' = 1
  /\ pc' = "loop"
  /\ UNCHANGED <<cfg, memoryVars, waiting, running, batch, admit_counter, state,
                 prompt_len, max_new, preempt_count, admit_seq, client, served>>
-----------------------------------------------------------------------------
(* The engine loop with nothing to do waits for work; it also wakes up     *)
(* every 50 ms and looks again, which changes nothing.                     *)
Idle ==
  /\ pc = "loop"
  /\ ~has_work
  /\ UNCHANGED vars

EngineStep ==
  \/ BeginStep
  \/ \E r \in Requests : Retire(r)
  \/ EndRetire
  \/ \E r \in Requests : Admit(r)
  \/ \E r \in Requests : AdmitAsserts(r)
  \/ EndAdmit
  \/ Prefill
  \/ BeginDecode
  \/ AppendSlot
  \/ Preempt
  \/ OutOfBlocks
  \/ DecodeStep

ApiStep ==
  \/ \E r \in Requests : \E p \in PromptLens, m \in MaxNewTokens :
       Submit(r, p, m)
  \/ \E r \in Impatient : Disconnect(r)
  \/ \E r \in Impatient : SetCancelled(r)

Next == EngineStep \/ ApiStep \/ Idle

Spec == Init /\ [][Next]_vars

(* The engine thread never stops while there is work; clients owe nothing. *)
FairSpec == Spec /\ WF_vars(EngineStep)
-----------------------------------------------------------------------------
(* Properties *)

TypeOK ==
  /\ MemoryTypeOK
  /\ pc \in {"loop", "retire", "admit", "prefill", "decode", "ensure", "evict",
             "dead"}
  /\ waiting \subseteq Requests /\ running \subseteq Requests
  /\ batch \subseteq Requests
  /\ active \in Seq(Requests) /\ i \in Nat \ {0}
  /\ admit_counter \in Nat
  /\ state \in [Requests -> {"new", "WAITING", "RUNNING", "FINISHED"}]
  /\ prompt_len \in [Requests -> Nat]
  /\ max_new \in [Requests -> Nat]
  /\ out_len \in [Requests -> Nat]
  /\ finish_reason \in [Requests -> {"none", "length", "stop", "cancelled"}]
  /\ preempt_count \in [Requests -> Nat]
  /\ admit_seq \in [Requests -> Nat \cup {-1}]
  /\ client \in [Requests -> {"reading", "leaving", "gone"}]
  /\ cached \in [Requests -> Nat]
  /\ served \subseteq Requests

(* The requests _admit has let in and _retire or _preempt has not taken    *)
(* out again.                                                              *)
Admitted == running \cup (IF pc \in {"admit", "prefill"} THEN batch ELSE {})

QueuedOnce == waiting \cap Admitted = {}

MemoryFollowsSeats ==
  \A r \in Requests : block_table[r] # <<>> <=> r \in Admitted

StatesFollowLists ==
  /\ \A r \in waiting : state[r] = "WAITING"
  /\ \A r \in running : state[r] = "RUNNING"

SeatsBounded == Cardinality(Admitted) <= cfg.max_batch

(* The lists, the state field, the allocator and max_batch agree: nobody   *)
(* is queued twice or queued while running, memory is held by exactly the  *)
(* admitted requests (a waiting, preempted, cancelled or finished one      *)
(* holds none), and there are never more of them than decode slots.        *)
SeatsAgree ==
  pc # "dead" =>
    QueuedOnce /\ MemoryFollowsSeats /\ StatesFollowLists /\ SeatsBounded

(* Position seq_len - 1, where the next token goes, lies in memory that r  *)
(* holds.                                                                  *)
HasRoom(r) ==
  IF cfg.backend = "paged"
    THEN seq_len(r) <= Len(block_table[r]) * BlockSize
    ELSE Len(block_table[r]) = 1 /\ seq_len(r) <= MaxContext

(* The loop of _ensure_capacity: the rows are all the unfinished running   *)
(* requests, once each, whatever was evicted; every row before i has the   *)
(* block its next token needs, and the cache holds everything but that     *)
(* token, also after an eviction and a recomputation.  When the loop ends  *)
(* these are all the rows of the decode batch.                             *)
RowsReady ==
  pc \in {"ensure", "evict"} =>
    /\ Rows = Unfinished
    /\ \A j, k \in 1..Len(active) : active[j] = active[k] => j = k
    /\ \A j \in 1..(i - 1) :
         /\ HasRoom(active[j])
         /\ cached[active[j]] = seq_len(active[j]) - 1

(* Every stay in the batch yields a token, however soon it ends: a running *)
(* request has more tokens than evictions behind it, and a waiting one at  *)
(* least as many.  So nobody is evicted more than max_new_tokens times,    *)
(* and the work that recomputation repeats is bounded.                     *)
PreemptionsPaidFor ==
  /\ \A r \in running : preempt_count[r] < out_len[r]
  /\ \A r \in waiting : preempt_count[r] <= out_len[r]

(* Evictions never empty the decode batch, so every iteration with running *)
(* requests produces a token: the front-door size check and the headroom   *)
(* together leave the survivor enough memory.                              *)
EvictionSparesOne == pc \in {"ensure", "evict"} => active # <<>>

(* "M4 has no preemption, so it must never over-commit": the worst cases   *)
(* of everyone admitted fit together.                                      *)
WorstCaseUnits ==
  {p \in Requests \X Blocks :
     p[1] \in Admitted /\ p[2] <= blocks_needed(worst_len(p[1]))}
NeverOverCommit ==
  cfg.backend = "paged" /\ ~cfg.preemption =>
    Cardinality(WorstCaseUnits) <= cfg.num_blocks

(* Neither the RuntimeError of _ensure_capacity nor the assert of allocate *)
(* can end the engine thread.                                              *)
EngineSurvives == pc # "dead"

(* A finished request gets no token, no other reason, and no second life,  *)
(* whatever its client does: the reason a client was told stays true.      *)
FinishIsFinal ==
  [][\A r \in Requests :
       finished(r) => /\ finish_reason'[r] = finish_reason[r]
                      /\ out_len'[r] = out_len[r]
                      /\ r \notin waiting']_vars

(* "Headroom: free blocks kept back at admission so that admitting a new   *)
(* request does not force an immediate eviction": nobody is back in the    *)
(* queue in the step that admitted it.                                     *)
NoImmediateEviction == batch \cap waiting = {}

(* Every accepted request is answered unless its client leaves: no         *)
(* livelock of evictions and no head of the queue that can never fit.      *)
EveryRequestEnds ==
  \A r \in Requests :
    state[r] = "WAITING" ~> (finished(r) \/ cancelled(r))
-----------------------------------------------------------------------------
(* What clients see of the scheduler: a request that left the queue        *)
(* without being admitted was dropped there.                               *)
StreamOf(r) ==
  IF state[r] = "new" THEN "none"
  ELSE IF finish_reason[r] \in {"length", "stop"} THEN "done"
  ELSE IF finish_reason[r] = "cancelled" THEN "dropped"
  ELSE IF r \notin waiting \cup Admitted THEN "dropped"
  ELSE "open"

Stream == INSTANCE TokenStream WITH
  Clients   <- Requests,
  stream    <- [r \in Requests |-> StreamOf(r)],
  limit     <- max_new,
  sent      <- out_len,
  abandoned <- {r \in Requests : cancelled(r)}

(* Queueing, eviction and recomputation are invisible: the client receives *)
(* every token once, in order, up to its limit, and exactly one last one;  *)
(* only an abandoned request is dropped; and every other one is served to  *)
(* its end.                                                                *)
ImplementsStream == Stream!FairSpec
=============================================================================
