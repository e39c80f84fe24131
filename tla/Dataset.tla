------------------------------ MODULE Dataset -------------------------------
(* The mining scripts, scripts/mine_and_validate*.py over pipeline/miner.py: *)
(* each reads the dataset when it starts, takes merged pull requests from  *)
(* cached search pages, validates them one by one and writes both files of *)
(* the dataset when it is through with all its repositories.               *)
EXTENDS Validation, SequencesExt

CONSTANTS Scripts,      \* the three scripts, or some of them
          ReposOf,      \* REPOS_TO_MINE of each
          PRs,          \* repository -> its pull requests, oldest first
          About,        \* pull request -> its record of Validation
          PageSize, MaxPages,
          MaxAttempts, TargetValidated,  \* the caps per repository
          NoPR,
          MaxStarts, MaxFaults           \* bounds

ASSUME DatasetAssumption ==
  /\ PageSize \in Nat \ {0} /\ MaxPages \in Nat \ {0}
  /\ MaxAttempts \in Nat /\ TargetValidated \in Nat
  /\ \A s \in Scripts : \A k \in 1..Len(ReposOf[s]) : ReposOf[s][k] \in DOMAIN PRs
  /\ \A r \in DOMAIN PRs : ToSet(PRs[r]) \subseteq DOMAIN About

VARIABLES
  merged,      \* repository -> how many of its pull requests are merged
  cache,       \* <<repository, page>> -> the page as it was when fetched
  instances,   \* instances.jsonl
  rejections,  \* rejections.json
  torn,        \* the files cut off in the middle
  damaged,     \* two scripts overlapped, or a write was cut off
  starts, faults,
  proc         \* script -> its state

vars == <<merged, cache, instances, rejections, torn, damaged, starts, faults, proc>>

Repos == DOMAIN PRs

Off == [at |-> "off", existing |-> <<>>, rejected |-> <<>>, fresh |-> <<>>, repo |-> 0, page |-> 0,
        candidates |-> <<>>, attempted |-> 0, validated |-> 0, pr |-> NoPR,
        red |-> NotRun, report |-> NoReport, before |-> <<>>, after |-> <<>>]

Init ==
  /\ merged = [r \in Repos |-> 1] /\ cache = <<>>
  /\ instances = <<>> /\ rejections = <<>> /\ torn = {} /\ damaged = FALSE
  /\ starts = 0 /\ faults = 0
  /\ proc = [s \in Scripts |-> Off]

Files == <<instances, rejections, torn>>
World == <<merged, cache, Files, damaged, starts, faults>>

Goes(s, p) == proc' = [proc EXCEPT ![s] = p]

Repo(s) == ReposOf[s][proc[s].repo]

(* Decided: in the files as they were read, or by this script since.       *)
DecidedInFiles(p, pr) == \E k \in 1..Len(p.existing) : p.existing[k] = pr
AlreadySeen(p, pr) ==
  \/ \E k \in 1..Len(p.existing) : p.existing[k] = pr
  \/ \E k \in 1..Len(p.fresh) : p.fresh[k] = pr
  \/ \E k \in 1..Len(p.rejected) : p.rejected[k].pr = pr
-----------------------------------------------------------------------------
(* Somebody merges a pull request. *)
Merge ==
  /\ \E r \in Repos : /\ merged[r] < Len(PRs[r])
                      /\ merged' = [merged EXCEPT ![r] = @ + 1]
  /\ UNCHANGED <<cache, Files, damaged, starts, faults, proc>>

(* A file that does not parse ends the script before it begins. *)
Start(s) ==
  /\ proc[s].at = "off" /\ starts < MaxStarts /\ torn = {}
  /\ starts' = starts + 1
  /\ damaged' = (damaged \/ \E o \in Scripts : proc[o].at # "off")
  /\ Goes(s, [Off EXCEPT !.at = "fetch", !.existing = instances, !.rejected = rejections,
                         !.repo = 1, !.page = 1])
  /\ UNCHANGED <<merged, cache, Files, faults>>

(* Newest first, by the offset in the cursor. *)
Search(r, page) ==
  LET newest == Reverse(SubSeq(PRs[r], 1, merged[r]))
      first == (page - 1) * PageSize
  IN [nodes |-> SubSeq(newest, first + 1, first + PageSize),
      more |-> Len(newest) > first + PageSize]

Qualifies(pr) == About[pr].closes /\ About[pr].touches

(* A page that was ever fetched is read from the cache for good. *)
fetch_page(key) == IF key \in DOMAIN cache THEN cache[key] ELSE Search(key[1], key[2])

FetchPage(s) ==
  LET p == proc[s]
      key == <<Repo(s), p.page>>
      page == fetch_page(key)
      found == p.candidates \o SelectSeq(page.nodes, Qualifies)
  IN /\ p.at = "fetch"
     /\ cache' = (key :> page) @@ cache
     /\ Goes(s, IF page.more /\ p.page < MaxPages
                THEN [p EXCEPT !.candidates = found, !.page = @ + 1]
                ELSE [p EXCEPT !.candidates = found, !.at = "next"])
     /\ UNCHANGED <<merged, Files, damaged, starts, faults>>

(* The search is outside the try: with the script go the verdicts of the   *)
(* repositories before.                                                    *)
FetchFails(s) ==
  /\ proc[s].at = "fetch" /\ <<Repo(s), proc[s].page>> \notin DOMAIN cache
  /\ faults < MaxFaults /\ faults' = faults + 1
  /\ Goes(s, Off)
  /\ UNCHANGED <<merged, cache, Files, damaged, starts>>

AtCap(p) == p.attempted >= MaxAttempts \/ p.validated >= TargetValidated

DropHead(p) == [p EXCEPT !.candidates = Tail(@)]

SkipCandidate(s) ==
  LET p == proc[s] IN
  /\ p.at = "next" /\ p.candidates # <<>> /\ AlreadySeen(p, Head(p.candidates))
  /\ Goes(s, DropHead(p))
  /\ UNCHANGED World

TakeCandidate(s) ==
  LET p == proc[s] IN
  /\ p.at = "next" /\ p.candidates # <<>> /\ ~AlreadySeen(p, Head(p.candidates)) /\ ~AtCap(p)
  /\ Goes(s, [DropHead(p) EXCEPT !.at = "red", !.pr = Head(p.candidates), !.attempted = @ + 1])
  /\ UNCHANGED World

NextRepo(s) ==
  LET p == proc[s] IN
  /\ p.at = "next"
  /\ p.candidates # <<>> => ~AlreadySeen(p, Head(p.candidates)) /\ AtCap(p)
  /\ Goes(s, IF p.repo < Len(ReposOf[s])
             THEN [p EXCEPT !.at = "fetch", !.repo = @ + 1, !.page = 1, !.candidates = <<>>,
                            !.attempted = 0, !.validated = 0]
             ELSE [p EXCEPT !.at = "write", !.candidates = <<>>])
  /\ UNCHANGED World

Judged(p, verdict) ==
  LET done == [p EXCEPT !.at = "next", !.pr = NoPR, !.red = NotRun, !.report = NoReport,
                        !.before = <<>>, !.after = <<>>]
  IN IF verdict = "instance"
     THEN [done EXCEPT !.fresh = Append(@, p.pr), !.validated = @ + 1]
     ELSE [done EXCEPT !.rejected = Append(@, [pr |-> p.pr, stage |-> verdict])]

(* What the runs of a pull request's tests may come to, in a tree that     *)
(* holds the report `left`.                                                *)
RunsOf(pr, left, behaviour) ==
  {run_tests_n_times(About[pr], left, suites, rs) :
     suites \in [1..Runs -> Suites(behaviour)], rs \in [1..Runs -> {"ok", "failed"}]}

RunsBefore == UNION {{pr} \X RunsOf(pr, NoReport, About[pr].base) : pr \in DOMAIN About}
RunsAfter ==
  LET trees == UNION {{pr} \X ({NoReport} \union Suites(About[pr].base)) : pr \in DOMAIN About}
  IN UNION {{tree} \X RunsOf(tree[1], tree[2], About[tree[1]].gold) : tree \in trees}

RedRuns(p) == {o[2] : o \in {o \in RunsBefore : o[1] = p.pr}}
GreenRuns(p) == {o[2] : o \in {o \in RunsAfter : o[1] = <<p.pr, p.report>>}}

(* Tests that do not compile at the base commit are taken from the diff;   *)
(* whatever else is raised becomes a rejection.                            *)
Salvage(s) ==
  LET p == proc[s] IN
  /\ p.at = "red" /\ ~About[p.pr].compiles
  /\ Goes(s, IF Salvaged(About[p.pr]).f2p = {} THEN Judged(p, "exception")
             ELSE [p EXCEPT !.at = "green", !.red = Salvaged(About[p.pr])])
  /\ UNCHANGED World

InstallFails(s) ==
  /\ proc[s].at = "red" /\ About[proc[s].pr].compiles
  /\ faults < MaxFaults /\ faults' = faults + 1
  /\ Goes(s, Judged(proc[s], "exception"))
  /\ UNCHANGED <<merged, cache, Files, damaged, starts>>

Red(s) ==
  LET p == proc[s] IN
  /\ p.at = "red" /\ About[p.pr].compiles
  /\ \E ran \in RedRuns(p) :
       LET red == red_run(About[p.pr], ran.seen)
       IN Goes(s, IF ran.raised # "nothing" THEN Judged(p, "exception")
                  ELSE IF RedVerdict(red) # "go" THEN Judged(p, RedVerdict(red))
                  ELSE [p EXCEPT !.at = "green", !.red = red, !.report = ran.report,
                                 !.before = ran.seen])
  /\ UNCHANGED World

Green(s) ==
  LET p == proc[s] IN
  /\ p.at = "green"
  /\ \E ran \in GreenRuns(p) :
       LET verdict == IF ran.raised = "nothing" THEN green_run(p.red, ran.seen) ELSE "exception"
       IN Goes(s, IF verdict = "instance" THEN [p EXCEPT !.at = "issue", !.after = ran.seen]
                  ELSE Judged(p, verdict))
  /\ UNCHANGED World

(* The issue is fetched last, and the instance is put together. *)
MakeInstance(s) ==
  /\ proc[s].at = "issue"
  /\ Goes(s, Judged(proc[s], "instance"))
  /\ UNCHANGED World

(* The issue does not come, or the instance is not valid.                  *)
InstanceFails(s) ==
  /\ proc[s].at = "issue"
  /\ faults < MaxFaults /\ faults' = faults + 1
  /\ \E stage \in {"exception", "schema"} : Goes(s, Judged(proc[s], stage))
  /\ UNCHANGED <<merged, cache, Files, damaged, starts>>

(* The two files are written whole, one after the other. *)
FreshOnly(p) == p.fresh
AllInstances(p) == p.existing \o p.fresh

WriteInstances(s) ==
  /\ proc[s].at = "write"
  /\ instances' = AllInstances(proc[s])
  /\ Goes(s, [proc[s] EXCEPT !.at = "write2"])
  /\ UNCHANGED <<merged, cache, rejections, torn, damaged, starts, faults>>

WriteRejections(s) ==
  /\ proc[s].at = "write2"
  /\ rejections' = proc[s].rejected
  /\ Goes(s, Off)
  /\ UNCHANGED <<merged, cache, instances, torn, damaged, starts, faults>>

(* A script dies; the file it is writing has been emptied and is as long   *)
(* as what was written since.                                              *)
Crash(s) ==
  /\ proc[s].at # "off" /\ faults < MaxFaults /\ faults' = faults + 1
  /\ Goes(s, Off)
  /\ \/ UNCHANGED <<instances, rejections, torn, damaged>>
     \/ /\ proc[s].at = "write"
        /\ \E n \in 0..Len(AllInstances(proc[s])) :
             instances' = SubSeq(AllInstances(proc[s]), 1, n)
        /\ torn' \in {torn, torn \union {"instances"}}
        /\ damaged' = TRUE /\ UNCHANGED rejections
     \/ /\ proc[s].at = "write2"
        /\ rejections' = <<>>
        /\ torn' \in {torn, torn \union {"rejections"}}
        /\ damaged' = TRUE /\ UNCHANGED instances
  /\ UNCHANGED <<merged, cache, starts>>

Script(s) ==
  \/ FetchPage(s) \/ SkipCandidate(s) \/ TakeCandidate(s) \/ NextRepo(s)
  \/ Salvage(s) \/ Red(s) \/ Green(s) \/ MakeInstance(s)
  \/ WriteInstances(s) \/ WriteRejections(s)

Fault(s) == FetchFails(s) \/ InstallFails(s) \/ InstanceFails(s) \/ Crash(s)

Next == Merge \/ \E s \in Scripts : Start(s) \/ Script(s) \/ Fault(s)

Spec == Init /\ [][Next]_vars
-----------------------------------------------------------------------------
(* t passed in every run that reported it; a test that none of the runs    *)
(* reported has variants for it, and each of them, but for the flaky ones. *)
SeenToPass(seen, t) ==
  LET steady == Variants(deterministic_only(seen), t)
  IN \/ t \in Reported(seen) /\ OutcomesOf(seen, t) = {TRUE}
     \/ /\ t \notin Reported(seen) /\ steady # {}
        /\ \A u \in steady : OutcomesOf(seen, u) = {TRUE}

(* What becomes a task was red and then green in the outcomes that were    *)
(* read: it asks for a test; unless its tests do not compile before the    *)
(* fix, when they are taken from the diff and never ran, each one it asks  *)
(* for failed in every run before the fix that reported it; and these and  *)
(* the ones it has to keep were all seen to pass after it                  *)
(* (validate.py:60-96, 125-141, 186-207).  A run that left the report of   *)
(* an earlier one in place counts with that report.                        *)
RedThenGreen ==
  \A s \in Scripts : proc[s].at = "issue" =>
    LET p == proc[s] IN
    /\ p.red.f2p # {}
    /\ About[p.pr].compiles => \A t \in p.red.f2p : OutcomesOf(p.before, t) = {FALSE}
    /\ \A t \in p.red.passing : OutcomesOf(p.before, t) = {TRUE}
    /\ \A t \in p.red.f2p \union p.red.passing : SeenToPass(p.after, t)

(* As long as no two scripts overlapped and no write was cut off, a pull   *)
(* request has at most one verdict in the two files together, over crashes *)
(* between the two writes and pages that shift under the search            *)
(* (mine_and_validate.py:52-56, 67-104).                                   *)
VerdictOnce ==
  ~damaged =>
    /\ Cardinality(ToSet(instances)) = Len(instances)
    /\ \A j, k \in 1..Len(rejections) : rejections[j].pr = rejections[k].pr => j = k
    /\ \A k \in 1..Len(rejections) : rejections[k].pr \notin ToSet(instances)

(* Under the same condition no step takes a task or a rejection out of the *)
(* dataset (mine_and_validate.py:2-4, 106-109).                            *)
DatasetGrows ==
  [][~damaged' => /\ IsPrefix(instances, instances')
                  /\ IsPrefix(rejections, rejections')]_vars
=============================================================================
