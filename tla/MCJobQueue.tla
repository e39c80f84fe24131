----------------------------- MODULE MCJobQueue -----------------------------
(* A small instance of JobQueue for TLC: two jobs, of two instances,       *)
(* enqueued twice, in a partition each, and two workers.                   *)
EXTENDS JobQueue

CONSTANTS a0, a1, w1, w2

MCJobs == {a0, a1}
MCJobList == <<a0, a1>>
MCPartition == [j \in MCJobs |-> IF j = a0 THEN 0 ELSE 1]
MCWorkers == {w1, w2}

AllSound == [unknown |-> {}, raises |-> {}, unlisted |-> {}]

(* Nothing wrong; an instance the image lacks beside one whose evaluation   *)
(* raises; a job with no row in tasks.                                     *)
MCSetups == {AllSound,
             [AllSound EXCEPT !.unknown = {a1}, !.raises = {a0}],
             [AllSound EXCEPT !.unlisted = {a1}]}
=============================================================================
