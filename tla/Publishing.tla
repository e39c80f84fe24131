----------------------------- MODULE Publishing -----------------------------
(* Beside the mining scripts, the dataset is published as versions that    *)
(* never change (pipeline/dataset_export.py), and a version is loaded into *)
(* the database, once or again (scripts/load_postgres.py).                 *)
EXTENDS Dataset

CONSTANTS Versions,  \* the names that are given
          MaxExports \* bound

ASSUME PublishingAssumption == MaxExports \in Nat

VARIABLES
  version_dir,  \* name -> the directory: at "absent", "rows" or "info"; rows
  tasks,        \* the tables tasks and dataset_versions: name -> ids, count
  exports

pubVars == <<version_dir, tasks, exports>>

Absentee == [at |-> "absent", rows |-> <<>>]

PubInit ==
  /\ Init
  /\ version_dir = [v \in Versions |-> Absentee]
  /\ tasks = [v \in Versions |-> [ids |-> {}, count |-> 0]]
  /\ exports = 0
-----------------------------------------------------------------------------
(* Without the FileExistsError.                                            *)
AnyName(v) == version_dir[v].at # "rows"

NotPublished(v) == version_dir[v].at = "absent"

(* export_version: a snapshot of instances.jsonl in a new directory ...    *)
ExportRows(v) ==
  /\ exports < MaxExports /\ NotPublished(v)
  /\ "instances" \notin torn
  /\ version_dir' = [version_dir EXCEPT ![v] = [at |-> "rows", rows |-> instances]]
  /\ exports' = exports + 1
  /\ UNCHANGED <<vars, tasks>>

(* ... and dataset_info.json last.                                         *)
ExportInfo(v) ==
  /\ version_dir[v].at = "rows"
  /\ version_dir' = [version_dir EXCEPT ![v].at = "info"]
  /\ UNCHANGED <<vars, tasks, exports>>

(* The exporter dies: the name is taken, the rows may be fewer, and there  *)
(* is no info.                                                             *)
ExportDies(v) ==
  /\ version_dir[v].at = "rows" /\ faults < MaxFaults
  /\ faults' = faults + 1
  /\ \E n \in 0..Len(version_dir[v].rows) :
       version_dir' = [version_dir EXCEPT ![v] =
                         [at |-> "cut", rows |-> SubSeq(version_dir[v].rows, 1, n)]]
  /\ UNCHANGED <<merged, cache, Files, damaged, starts, proc, tasks, exports>>

(* load_version: one transaction; INSERT ... ON CONFLICT DO NOTHING twice. *)
LoadVersion(v) ==
  /\ version_dir[v].at = "info"
  /\ tasks' = [tasks EXCEPT ![v] =
                 [ids   |-> @.ids \union ToSet(version_dir[v].rows),
                  count |-> IF @.count = 0 THEN Len(version_dir[v].rows) ELSE @.count]]
  /\ UNCHANGED <<vars, version_dir, exports>>

Publish(v) == ExportRows(v) \/ ExportInfo(v) \/ ExportDies(v) \/ LoadVersion(v)

PubNext ==
  \/ Next /\ UNCHANGED pubVars
  \/ \E v \in Versions : Publish(v)

PubSpec == PubInit /\ [][PubNext]_<<vars, pubVars>>
-----------------------------------------------------------------------------
(* The database holds of a version all or nothing of what its directory    *)
(* holds, under the count that was published, although the dataset grows,  *)
(* exporters die and a version is loaded again: verify_round_trip never    *)
(* fails (dataset_export.py:48-75, load_postgres.py:28-81).                *)
LoadedIsPublished ==
  \A v \in Versions : tasks[v].count # 0 =>
    /\ version_dir[v].at = "info"
    /\ tasks[v].ids = ToSet(version_dir[v].rows)
    /\ tasks[v].count = Cardinality(tasks[v].ids)
=============================================================================
