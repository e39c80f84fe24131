----------------------------- MODULE Reporting ------------------------------
(* What is made of a results file: the leaderboard                         *)
(* (scripts/export_leaderboard_data.py), the statistics of a model         *)
(* (pipeline/stats.py) and the database (scripts/load_results.py). A row   *)
(* has key (a record model, instance, repeat), status, resolved and cost.  *)
EXTENDS Integers, FiniteSets, Sequences

LOCAL INSTANCE Scoring

RowsOf(rows, model) == {k \in DOMAIN rows : rows[k].key.model = model}
TasksTried(rows, model) == {rows[k].key.instance : k \in RowsOf(rows, model)}
-----------------------------------------------------------------------------
outcome_code(row) ==
  CASE row.status = "infra_error" -> "excluded"
    [] row.status = "ok" -> IF row.resolved THEN "resolved" ELSE "unresolved"
    [] row.status = "timeout" -> "timeout"
    [] row.status = "patch_apply_failed" -> "patch_apply_failed"
    [] OTHER -> "unresolved"

leaderboard(rows, model, planned) ==
  LET Coded(code) == {k \in RowsOf(rows, model) : outcome_code(rows[k]) = code}
      attempts == Cardinality(RowsOf(rows, model) \ Coded("excluded"))
  IN [attempts |-> attempts,
      resolved |-> Cardinality(Coded("resolved")),
      excluded |-> Cardinality(Coded("excluded")),
      covered |-> Cardinality(TasksTried(rows, model)),
      status |-> IF attempts = 0 THEN "not_run"
                 ELSE IF attempts < planned THEN "partial" ELSE "complete"]
-----------------------------------------------------------------------------
NaN == <<0, 0>>

task_stats(rows, model, instance, k) ==
  LET tried == {j \in RowsOf(rows, model) : rows[j].key.instance = instance}
      n == Cardinality(tried)
      c == Cardinality({j \in tried : rows[j].resolved})
  IN [n |-> n, c |-> c, pass_at_k |-> IF n >= k THEN pass_at_k(n, c, k) ELSE NaN]

compute_model_stats(rows, model, k) ==
  [num_tasks |-> Cardinality(TasksTried(rows, model)),
   total_attempts |-> Cardinality(RowsOf(rows, model)),
   total_resolved |-> Cardinality({j \in RowsOf(rows, model) : rows[j].resolved}),
   per_task |-> [i \in TasksTried(rows, model) |-> task_stats(rows, model, i, k)]]
-----------------------------------------------------------------------------
(* The database: runs, one per model of a file, and the table results. *)
AlwaysANewRun(runs, model) ==
  [id |-> Cardinality(runs) + 1, runs |-> runs \union {[id |-> Cardinality(runs) + 1, model |-> model]}]

get_or_create_run(runs, model) ==
  IF \E run \in runs : run.model = model
  THEN [id |-> (CHOOSE run \in runs : run.model = model).id, runs |-> runs]
  ELSE [id |-> Cardinality(runs) + 1,
        runs |-> runs \union {[id |-> Cardinality(runs) + 1, model |-> model]}]

(* INSERT ... ON CONFLICT (run_id, instance_id, repeat) DO NOTHING.         *)
insert(table, entry) ==
  IF \E e \in table : /\ e.run = entry.run /\ e.instance = entry.instance
                      /\ e.repeat = entry.repeat
  THEN table ELSE table \union {entry}

FindRun(s, model) ==
  IF model \in DOMAIN s.run_ids THEN s
  ELSE LET run == get_or_create_run(s.runs, model)
       IN [runs |-> run.runs,
           run_ids |-> [m \in DOMAIN s.run_ids \union {model} |->
                          IF m = model THEN run.id ELSE s.run_ids[m]]]

EntryOf(run_ids, row) ==
  [run |-> run_ids[row.key.model], instance |-> row.key.instance, repeat |-> row.key.repeat,
   status |-> row.status, resolved |-> row.resolved]

(* The runs of all models of the file first, then its rows, one transaction. *)
load_results(db, rows) ==
  LET known[n \in 0..Len(rows)] ==
        IF n = 0 THEN [runs |-> db.runs, run_ids |-> <<>>]
        ELSE FindRun(known[n - 1], rows[n].key.model)
      found == known[Len(rows)]
      table[n \in 0..Len(rows)] ==
        IF n = 0 THEN db.table
        ELSE insert(table[n - 1], EntryOf(found.run_ids, rows[n]))
  IN [runs |-> found.runs, table |-> table[Len(rows)]]
=============================================================================
