---------------------------- MODULE MCScheduler -----------------------------
(* Small instances of Scheduler for TLC.                                   *)
EXTENDS KVCache

Paged(bat, pre, slots, blocks) ==
  [backend |-> "paged", batching |-> bat, preemption |-> pre,
   max_batch |-> slots, num_blocks |-> blocks]

Slots(bat, slots) ==
  [backend |-> "contiguous", batching |-> bat, preemption |-> FALSE,
   max_batch |-> slots, num_blocks |-> slots]

(* Pools in which the requests fit at admission but not when they grow; the *)
(* reserve pool has room for two worst cases of the three.                 *)
SafetyConfigs ==
  {Paged("continuous", TRUE, 3, 5), Paged("static", TRUE, 2, 4),
   Paged("continuous", FALSE, 3, 8), Paged("continuous", TRUE, 2, 8),
   Slots("static", 2)}

ServiceConfigs ==
  {Paged("continuous", TRUE, 3, 6), Paged("continuous", FALSE, 3, 12),
   Paged("static", TRUE, 2, 6), Paged("static", FALSE, 2, 5),
   Slots("continuous", 1)}

HeadroomConfigs == {Paged("continuous", TRUE, 2, 4)}

ReserveConfigs == {Paged("continuous", FALSE, 3, 8)}

(* Two clients that send the same X-Request-ID, and one that does not. *)
Ids == {"a", "b", "c"}
SharedIds == [r \in Requests |-> IF r = 3 THEN "c" ELSE "a"]
FreshIds == [r \in Requests |-> IF r = 1 THEN "a" ELSE IF r = 2 THEN "b" ELSE "c"]
=============================================================================
