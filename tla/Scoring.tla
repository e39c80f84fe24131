------------------------------ MODULE Scoring -------------------------------
(* How a reply becomes a program, a sandboxed run an outcome, and a set of *)
(* outcomes a pass@k: humaneval/program.py, executor.py, report.py and     *)
(* pipeline/stats.py. A piece of code is a record                          *)
(*   entry (it defines the entry point), right (it does what is asked);    *)
(* a reply has closed fenced blocks, a last one cut off, and loose text.   *)
EXTENDS Integers, FiniteSets, Sequences, FiniteSetsExt

Code == [entry : BOOLEAN, right : BOOLEAN]
NoCode == [entry |-> FALSE, right |-> FALSE]

IsEntry(code) == code.entry

extract_code(reply) ==
  LET defining == SelectSeq(reply.blocks, IsEntry)
  IN IF defining # <<>> THEN defining[1]
     ELSE IF reply.blocks # <<>> THEN reply.blocks[1]
     ELSE IF reply.open # NoCode THEN reply.open
     ELSE reply.text

(* Code without the entry point continues the prompt's function; the other *)
(* overrides it.                                                           *)
assemble_program(code) ==
  [mode |-> IF code.entry THEN "full_function" ELSE "body_only", right |-> code.right]
-----------------------------------------------------------------------------
(* What is left of a container: did it outlive its limit, its exit code,   *)
(* and what its report says of the test and of the collection.             *)
(* External: a container runs to one of these. *)
Containers(program) ==
  [late : {TRUE}, code : {0}, report : {"none"}]
    \union [late : {FALSE}, code : {137, 125}, report : {"none"}]
    \union (IF program.right THEN [late : {FALSE}, code : {0}, report : {"passed"}]
            ELSE [late : {FALSE}, code : {1}, report : {"assertion", "exception"}]
                   \union [late : {FALSE}, code : {2}, report : {"collection"}]
                   \union [late : {FALSE}, code : {4}, report : {"empty"}])

COLLECTION_EXITS == {2, 4}

(* The test counts as passed unless the report says that it failed.        *)
PassedUnlessReported(proc) == proc.report \notin {"assertion", "exception"}
TestPassed(proc) == proc.report = "passed"

run_program(proc) ==
  IF proc.late THEN "timeout"
  ELSE IF proc.report = "none" THEN IF proc.code = 137 THEN "resource_killed" ELSE "no_report"
  ELSE IF TestPassed(proc) THEN "passed"
  ELSE IF proc.report = "collection" \/ proc.code \in COLLECTION_EXITS THEN "collection_error"
  ELSE IF proc.report = "assertion" THEN "failed" ELSE "error"

-----------------------------------------------------------------------------
(* A probability is a pair of a numerator and a denominator. *)
SameFraction(a, b) == a[2] # 0 /\ b[2] # 0 /\ a[1] * b[2] = b[1] * a[2]

pass_with_replacement(n, c, k) == <<n ^ k - (n - c) ^ k, n ^ k>>

pass_at_k(n, c, k) ==
  IF n - c < k THEN <<1, 1>>
  ELSE LET prob_all_fail[i \in 0..k] ==
             IF i = 0 THEN <<1, 1>>
             ELSE LET before == prob_all_fail[i - 1]
                  IN <<before[1] * (n - c - (i - 1)), before[2] * (n - (i - 1))>>
       IN <<prob_all_fail[k][2] - prob_all_fail[k][1], prob_all_fail[k][2]>>

(* The report: pass@k for the problems that have k samples. Means and      *)
(* intervals over the problems are left out.                               *)
per_problem_pass_at_k(rows, k) ==
  LET Of(p) == {row \in rows : row.task[1] = p}
      Passed(p) == {row \in Of(p) : row.outcome = "passed"}
  IN [p \in {q \in {row.task[1] : row \in rows} : Cardinality(Of(q)) >= k} |->
        pass_at_k(Cardinality(Of(p)), Cardinality(Passed(p)), k)]

summarize(rows, ks) ==
  [n_problems |-> Cardinality({row.task[1] : row \in rows}),
   n_samples  |-> Cardinality(rows),
   pass_at_k  |-> [k \in ks |-> per_problem_pass_at_k(rows, k)],
   solved     |-> {row.task[1] : row \in {r \in rows : r.outcome = "passed"}}]

(* The reference: how many of the k-subsets of the samples hold a passed one. *)
SubsetsWithAPass(samples, passed, k) ==
  <<Cardinality({s \in kSubset(k, samples) : s \intersect passed # {}}),
    Cardinality(kSubset(k, samples))>>
=============================================================================
