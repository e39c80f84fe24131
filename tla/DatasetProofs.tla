--------------------------- MODULE DatasetProofs ----------------------------
(***************************************************************************)
(* The dataset of Dataset.tla stays consistent and only grows, what        *)
(* Publishing.tla loads of it is what was published, and what becomes a    *)
(* task was red and then green, for any scripts, repositories, pull        *)
(* requests, caps and number of runs, starts and faults.                   *)
(***************************************************************************)
EXTENDS Publishing, Lists, TLAPS

Apart(rs, is) == \A j \in 1..Len(rs), k \in 1..Len(is) : rs[j].pr # is[k]

NoPRTwice(rs) == \A j, k \in 1..Len(rs) : rs[j].pr = rs[k].pr => j = k

(* What a script holds, whatever the files held when it read them: it      *)
(* decides only what it has not seen, and so nothing twice.                *)
DecisionsInv(p) ==
  /\ DOMAIN p = DOMAIN Off
  /\ IsSequence(p.existing) /\ IsSequence(p.fresh) /\ IsSequence(p.rejected)
  /\ NoRepeats(p.existing) /\ NoRepeats(p.fresh) /\ NoPRTwice(p.rejected)
  /\ \A j \in 1..Len(p.existing), k \in 1..Len(p.fresh) : p.existing[j] # p.fresh[k]
  /\ Apart(p.rejected, p.fresh)
  /\ p.at \in {"red", "green", "issue"} => ~AlreadySeen(p, p.pr)

(* A script that has the files for itself: what it read is what is there,  *)
(* but for what it wrote itself.                                           *)
FollowsFiles(p) ==
  /\ instances = IF p.at = "write2" THEN AllInstances(p) ELSE p.existing
  /\ IsFront(rejections, p.rejected)
  /\ Apart(p.rejected, p.existing)

FilesInv ==
  /\ IsSequence(instances) /\ NoRepeats(instances)
  /\ IsSequence(rejections) /\ NoPRTwice(rejections)
  /\ ~damaged => Apart(rejections, instances)

ScriptsInv ==
  /\ proc = [s \in Scripts |-> proc[s]]
  /\ \A s \in Scripts : DecisionsInv(proc[s])
  /\ ~damaged => \A s \in Scripts : proc[s].at # "off" =>
       /\ FollowsFiles(proc[s])
       /\ \A o \in Scripts : o # s => proc[o].at = "off"

DatasetInv == FilesInv /\ ScriptsInv

(* q is a script that goes on from p without a verdict.                    *)
Kept(p, q) ==
  /\ DOMAIN q = DOMAIN p
  /\ q.existing = p.existing /\ q.fresh = p.fresh /\ q.rejected = p.rejected
-----------------------------------------------------------------------------
LEMMA UpdatedScript ==
  ASSUME ScriptsInv, NEW s \in Scripts, NEW q, Goes(s, q)
  PROVE  /\ proc'[s] = q /\ \A o \in Scripts : o # s => proc'[o] = proc[o]
         /\ proc' = [o \in Scripts |-> proc'[o]]
<1>1. proc = [o \in Scripts |-> proc[o]]
  BY DEF ScriptsInv
<1>2. proc' = [o \in Scripts |-> IF o = s THEN q ELSE proc[o]]
  BY <1>1 DEF Goes
<1>3. QED
  BY <1>2

(* Searching for the next pull request decides nothing.                    *)
LEMMA SearchKeeps ==
  ASSUME ScriptsInv, NEW s \in Scripts,
         FetchPage(s) \/ SkipCandidate(s) \/ TakeCandidate(s) \/ NextRepo(s)
  PROVE  \E q : /\ Goes(s, q) /\ Kept(proc[s], q)
               /\ proc[s].at \in {"fetch", "next"}
               /\ \/ q.at \in {"fetch", "next", "write"}
                  \/ q.at = "red" /\ ~AlreadySeen(proc[s], q.pr)
               /\ UNCHANGED <<Files, damaged>>
<1> DEFINE p == proc[s]
<1>1. DOMAIN p = DOMAIN Off
  BY DEF ScriptsInv, DecisionsInv
<1>2. CASE FetchPage(s)
  <2>1. PICK c : \/ Goes(s, [p EXCEPT !.candidates = c, !.page = @ + 1])
                 \/ Goes(s, [p EXCEPT !.candidates = c, !.at = "next"])
    BY <1>2 DEF FetchPage, Goes
  <2>2. p.at = "fetch" /\ UNCHANGED <<Files, damaged>>
    BY <1>2 DEF FetchPage
  <2>3. CASE Goes(s, [p EXCEPT !.candidates = c, !.page = @ + 1])
    BY <1>1, <2>2, <2>3, Zenon DEF Off, Kept
  <2>4. CASE Goes(s, [p EXCEPT !.candidates = c, !.at = "next"])
    BY <1>1, <2>2, <2>4, Zenon DEF Off, Kept
  <2>5. QED
    BY <2>1, <2>3, <2>4
<1>3. CASE SkipCandidate(s)
  BY <1>1, <1>3, Zenon DEF SkipCandidate, DropHead, Off, Kept, World
<1>4. CASE TakeCandidate(s)
  BY <1>1, <1>4, Zenon DEF TakeCandidate, DropHead, Off, Kept, World
<1>5. CASE NextRepo(s)
  BY <1>1, <1>5, Zenon DEF NextRepo, Off, Kept, World
<1>6. QED
  BY <1>2, <1>3, <1>4, <1>5

(* A verdict is one entry more in one of the two lists.                    *)
LEMMA JudgedFields ==
  ASSUME NEW p, NEW v, DOMAIN p = DOMAIN Off
  PROVE  /\ DOMAIN Judged(p, v) = DOMAIN Off
         /\ Judged(p, v).at = "next" /\ Judged(p, v).existing = p.existing
         /\ v = "instance" => /\ Judged(p, v).fresh = Append(p.fresh, p.pr)
                              /\ Judged(p, v).rejected = p.rejected
         /\ v # "instance" =>
              /\ Judged(p, v).fresh = p.fresh
              /\ Judged(p, v).rejected = Append(p.rejected, [pr |-> p.pr, stage |-> v])
BY Zenon DEF Judged, Off

(* Validation keeps the pull request in hand until there is a verdict.     *)
LEMMA ValidationJudges ==
  ASSUME ScriptsInv, NEW s \in Scripts,
         \/ Salvage(s) \/ InstallFails(s) \/ Red(s) \/ Green(s)
         \/ MakeInstance(s) \/ InstanceFails(s)
  PROVE  /\ proc[s].at \in {"red", "green", "issue"}
         /\ UNCHANGED <<Files, damaged>>
         /\ \/ \E v : Goes(s, Judged(proc[s], v))
            \/ \E q : /\ Goes(s, q) /\ Kept(proc[s], q)
                     /\ q.at \in {"green", "issue"} /\ q.pr = proc[s].pr
<1> DEFINE p == proc[s]
<1>1. DOMAIN p = DOMAIN Off
  BY DEF ScriptsInv, DecisionsInv
<1> DEFINE Going == \/ \E v : Goes(s, Judged(p, v))
                    \/ \E q : /\ Goes(s, q) /\ Kept(p, q)
                             /\ q.at \in {"green", "issue"} /\ q.pr = p.pr
<1>2. ASSUME NEW red, NEW report, NEW before,
             \/ Goes(s, [p EXCEPT !.at = "green", !.red = red])
             \/ Goes(s, [p EXCEPT !.at = "green", !.red = red, !.report = report,
                                  !.before = before])
      PROVE  Going
  <2>1. CASE Goes(s, [p EXCEPT !.at = "green", !.red = red])
    <3> DEFINE q == [p EXCEPT !.at = "green", !.red = red]
    <3>1. Kept(p, q) /\ q.at = "green" /\ q.pr = p.pr
      BY <1>1, Zenon DEF Off, Kept
    <3> HIDE DEF q, p
    <3>2. QED
      BY <2>1, <3>1 DEF q
  <2>2. CASE Goes(s, [p EXCEPT !.at = "green", !.red = red, !.report = report,
                               !.before = before])
    <3> DEFINE q == [p EXCEPT !.at = "green", !.red = red, !.report = report,
                              !.before = before]
    <3>1. Kept(p, q) /\ q.at = "green" /\ q.pr = p.pr
      BY <1>1, Zenon DEF Off, Kept
    <3> HIDE DEF q, p
    <3>2. QED
      BY <2>2, <3>1 DEF q
  <2>3. QED
    BY <1>2, <2>1, <2>2
<1>3. ASSUME NEW after, Goes(s, [p EXCEPT !.at = "issue", !.after = after])
      PROVE  Going
  <2> DEFINE q == [p EXCEPT !.at = "issue", !.after = after]
  <2>1. Kept(p, q) /\ q.at = "issue" /\ q.pr = p.pr
    BY <1>1, Zenon DEF Off, Kept
  <2> HIDE DEF q, p
  <2>2. QED
    BY <1>3, <2>1 DEF q
<1>4. CASE Salvage(s)
  <2>1. p.at = "red" /\ UNCHANGED <<Files, damaged>>
    BY <1>4 DEF Salvage, World
  <2>2. \/ Goes(s, Judged(p, "exception"))
        \/ Goes(s, [p EXCEPT !.at = "green", !.red = Salvaged(About[p.pr])])
    BY <1>4, Zenon DEF Salvage
  <2> HIDE DEF p
  <2>3. Going
    BY <1>2, <2>2, Zenon
  <2>4. QED
    BY <2>1, <2>3 DEF p
<1>5. CASE InstallFails(s) \/ InstanceFails(s) \/ MakeInstance(s)
  BY <1>5, Zenon DEF InstallFails, InstanceFails, MakeInstance, World
<1>6. CASE Red(s)
  <2>1. p.at = "red" /\ UNCHANGED <<Files, damaged>>
    BY <1>6, Zenon DEF Red, World
  <2>2. PICK ran \in RedRuns(p) :
          \/ Goes(s, Judged(p, "exception"))
          \/ Goes(s, Judged(p, RedVerdict(red_run(About[p.pr], ran.seen))))
          \/ Goes(s, [p EXCEPT !.at = "green", !.red = red_run(About[p.pr], ran.seen),
                               !.report = ran.report, !.before = ran.seen])
    BY <1>6, Zenon DEF Red
  <2> HIDE DEF p
  <2>3. Going
    BY <1>2, <2>2, Zenon
  <2>4. QED
    BY <2>1, <2>3 DEF p
<1>7. CASE Green(s)
  <2>1. p.at = "green" /\ UNCHANGED <<Files, damaged>>
    BY <1>7, Zenon DEF Green, World
  <2>2. PICK ran \in GreenRuns(p) :
          \/ \E v : Goes(s, Judged(p, v))
          \/ Goes(s, [p EXCEPT !.at = "issue", !.after = ran.seen])
    BY <1>7, Zenon DEF Green
  <2> HIDE DEF p
  <2>3. Going
    BY <1>3, <2>2, Zenon
  <2>4. QED
    BY <2>1, <2>3 DEF p
<1>8. QED
  BY <1>4, <1>5, <1>6, <1>7
-----------------------------------------------------------------------------
LEMMA KeptDecides ==
  ASSUME NEW p, NEW q, DecisionsInv(p), Kept(p, q),
         q.at \in {"red", "green", "issue"} => ~AlreadySeen(p, q.pr)
  PROVE  DecisionsInv(q)
BY DEF DecisionsInv, Kept, AlreadySeen

LEMMA JudgedDecides ==
  ASSUME NEW p, NEW v, DecisionsInv(p), p.at \in {"red", "green", "issue"}
  PROVE  DecisionsInv(Judged(p, v))
<1> DEFINE q == Judged(p, v)
<1>1. DOMAIN p = DOMAIN Off
  BY DEF DecisionsInv
<1>2. DOMAIN q = DOMAIN Off /\ q.at = "next" /\ q.existing = p.existing
  BY <1>1, JudgedFields
<1>3. /\ \A k \in 1..Len(p.existing) : p.existing[k] # p.pr
      /\ \A k \in 1..Len(p.fresh) : p.fresh[k] # p.pr
      /\ \A k \in 1..Len(p.rejected) : p.rejected[k].pr # p.pr
  BY DEF DecisionsInv, AlreadySeen
<1>4. IsSequence(p.fresh) /\ IsSequence(p.rejected) /\ NoPRTwice(p.rejected)
  BY DEF DecisionsInv
<1>5. CASE v = "instance"
  <2>1. q.fresh = Append(p.fresh, p.pr) /\ q.rejected = p.rejected
    BY <1>1, <1>5, JudgedFields
  <2>2. /\ IsSequence(q.fresh) /\ NoRepeats(q.fresh) /\ Len(p.fresh) \in Nat
        /\ Len(q.fresh) = Len(p.fresh) + 1 /\ q.fresh[Len(p.fresh) + 1] = p.pr
        /\ \A k \in 1..Len(p.fresh) : q.fresh[k] = p.fresh[k]
    BY <1>3, <1>4, <2>1, Appended, AppendedNew DEF DecisionsInv
  <2>3. \A k \in 1..Len(q.fresh) : k \in 1..Len(p.fresh) \/ q.fresh[k] = p.pr
    BY <2>2
  <2>4. /\ \A j \in 1..Len(p.existing), k \in 1..Len(q.fresh) :
             p.existing[j] # q.fresh[k]
        /\ Apart(p.rejected, q.fresh)
    BY <1>3, <2>2, <2>3 DEF DecisionsInv, Apart
  <2> HIDE DEF q
  <2>5. DecisionsInv(q)
    BY <1>2, <2>1, <2>2, <2>4 DEF DecisionsInv
  <2>6. QED
    BY <2>5 DEF q
<1>6. CASE v # "instance"
  <2> DEFINE e == [pr |-> p.pr, stage |-> v]
  <2>1. q.fresh = p.fresh /\ q.rejected = Append(p.rejected, e) /\ e.pr = p.pr
    BY <1>1, <1>6, JudgedFields
  <2> HIDE DEF e, q
  <2>2. /\ IsSequence(q.rejected) /\ Len(p.rejected) \in Nat
        /\ Len(q.rejected) = Len(p.rejected) + 1
        /\ q.rejected[Len(p.rejected) + 1] = e
        /\ \A k \in 1..Len(p.rejected) : q.rejected[k] = p.rejected[k]
    BY <1>4, <2>1, Appended
  <2>3. \A k \in 1..Len(q.rejected) :
          \/ k \in 1..Len(p.rejected) /\ q.rejected[k].pr = p.rejected[k].pr
          \/ k = Len(p.rejected) + 1 /\ q.rejected[k].pr = p.pr
    BY <2>1, <2>2
  <2>4. NoPRTwice(q.rejected)
    BY <1>3, <1>4, <2>3 DEF NoPRTwice
  <2>5. Apart(q.rejected, q.fresh)
    BY <1>3, <2>1, <2>3 DEF DecisionsInv, Apart
  <2>6. DecisionsInv(q)
    BY <1>2, <2>1, <2>2, <2>4, <2>5 DEF DecisionsInv
  <2>7. QED
    BY <2>6 DEF q
<1>7. QED
  BY <1>5, <1>6

LEMMA OffDecides == DecisionsInv(Off) /\ Off.at = "off"
BY EmptyList DEF DecisionsInv, Off, NoRepeats, NoPRTwice, Apart

(* A verdict is apart from what the files hold, and only adds to it.       *)
LEMMA JudgedFollows ==
  ASSUME FilesInv, NEW p, NEW v, DecisionsInv(p), FollowsFiles(p),
         p.at \in {"red", "green", "issue"}
  PROVE  FollowsFiles(Judged(p, v))
<1> DEFINE q == Judged(p, v)
<1>1. DOMAIN p = DOMAIN Off
  BY DEF DecisionsInv
<1>2. q.at = "next" /\ q.existing = p.existing
  BY <1>1, JudgedFields
<1>3. instances = q.existing
  BY <1>2 DEF FollowsFiles
<1>4. CASE v = "instance"
  <2>1. q.rejected = p.rejected
    BY <1>1, <1>4, JudgedFields
  <2> HIDE DEF q
  <2>2. FollowsFiles(q)
    BY <1>2, <1>3, <2>1 DEF FollowsFiles
  <2>3. QED
    BY <2>2 DEF q
<1>5. CASE v # "instance"
  <2> DEFINE e == [pr |-> p.pr, stage |-> v]
  <2>1. q.rejected = Append(p.rejected, e) /\ e.pr = p.pr
    BY <1>1, <1>5, JudgedFields
  <2> HIDE DEF e, q
  <2>2. /\ IsSequence(q.rejected) /\ Len(p.rejected) \in Nat
        /\ Len(q.rejected) = Len(p.rejected) + 1
        /\ q.rejected[Len(p.rejected) + 1] = e
        /\ \A k \in 1..Len(p.rejected) : q.rejected[k] = p.rejected[k]
    BY <2>1, Appended DEF DecisionsInv
  <2>3. \A k \in 1..Len(p.existing) : p.existing[k] # p.pr
    BY DEF DecisionsInv, AlreadySeen
  <2>4. Apart(q.rejected, q.existing)
    BY <1>2, <2>1, <2>2, <2>3 DEF FollowsFiles, Apart
  <2>5. IsFront(rejections, q.rejected)
    BY <2>1, FrontOfAppended DEF FollowsFiles, DecisionsInv, FilesInv
  <2>6. FollowsFiles(q)
    BY <1>2, <1>3, <2>4, <2>5 DEF FollowsFiles
  <2>7. QED
    BY <2>6 DEF q
<1>6. QED
  BY <1>4, <1>5
-----------------------------------------------------------------------------
(* A script that goes on beside the files.                                 *)
LEMMA ScriptGoesOn ==
  ASSUME DatasetInv, NEW s \in Scripts, NEW q, Goes(s, q), proc[s].at # "off",
         DecisionsInv(q), UNCHANGED <<instances, rejections, damaged>>,
         ~damaged /\ q.at # "off" => FollowsFiles(q)
  PROVE  DatasetInv'
<1>1. /\ proc'[s] = q /\ \A o \in Scripts : o # s => proc'[o] = proc[o]
      /\ proc' = [o \in Scripts |-> proc'[o]]
  BY UpdatedScript DEF DatasetInv
<1>2. FilesInv'
  BY DEF DatasetInv, FilesInv
<1>3. \A o \in Scripts : DecisionsInv(proc'[o])
  BY <1>1 DEF DatasetInv, ScriptsInv
<1>4. ASSUME ~damaged', NEW o \in Scripts, proc'[o].at # "off"
      PROVE  /\ FollowsFiles(proc[o])'
             /\ \A w \in Scripts : w # o => proc'[w].at = "off"
  <2>1. \A w \in Scripts : w # s => proc[w].at = "off"
    BY <1>4 DEF DatasetInv, ScriptsInv
  <2>2. o = s
    BY <1>1, <1>4, <2>1
  <2>3. FollowsFiles(q)'
    BY <1>1, <1>4, <2>2 DEF FollowsFiles
  <2>4. QED
    BY <1>1, <2>1, <2>2, <2>3 DEF FollowsFiles
<1>5. QED
  BY <1>1, <1>2, <1>3, <1>4 DEF DatasetInv, ScriptsInv

LEMMA SearchStep ==
  ASSUME DatasetInv, NEW s \in Scripts,
         FetchPage(s) \/ SkipCandidate(s) \/ TakeCandidate(s) \/ NextRepo(s)
  PROVE  DatasetInv'
<1>1. PICK q : /\ Goes(s, q) /\ Kept(proc[s], q)
               /\ proc[s].at \in {"fetch", "next"}
               /\ \/ q.at \in {"fetch", "next", "write"}
                  \/ q.at = "red" /\ ~AlreadySeen(proc[s], q.pr)
               /\ UNCHANGED <<Files, damaged>>
  BY SearchKeeps DEF DatasetInv
<1>2. DecisionsInv(q)
  BY <1>1, KeptDecides DEF DatasetInv, ScriptsInv
<1>3. ~damaged => FollowsFiles(q)
  BY <1>1 DEF DatasetInv, ScriptsInv, FollowsFiles, Kept
<1>4. QED
  BY <1>1, <1>2, <1>3, ScriptGoesOn DEF Files

LEMMA ValidationStep ==
  ASSUME DatasetInv, NEW s \in Scripts,
         \/ Salvage(s) \/ InstallFails(s) \/ Red(s) \/ Green(s)
         \/ MakeInstance(s) \/ InstanceFails(s)
  PROVE  DatasetInv'
<1>1. /\ proc[s].at \in {"red", "green", "issue"}
      /\ UNCHANGED <<Files, damaged>>
      /\ \/ \E v : Goes(s, Judged(proc[s], v))
         \/ \E q : /\ Goes(s, q) /\ Kept(proc[s], q)
                   /\ q.at \in {"green", "issue"} /\ q.pr = proc[s].pr
  BY ValidationJudges DEF DatasetInv
<1>2. /\ DecisionsInv(proc[s]) /\ (~damaged => FollowsFiles(proc[s]))
      /\ FilesInv /\ UNCHANGED <<instances, rejections>>
  BY <1>1 DEF DatasetInv, ScriptsInv, Files
<1>3. ASSUME NEW v, Goes(s, Judged(proc[s], v)) PROVE DatasetInv'
  <2> DEFINE q == Judged(proc[s], v)
  <2>1. DecisionsInv(q) /\ (~damaged => FollowsFiles(q))
    BY <1>1, <1>2, JudgedDecides, JudgedFollows
  <2>2. Goes(s, q)
    BY <1>3
  <2> HIDE DEF q
  <2>3. QED
    BY <1>1, <1>2, <2>1, <2>2, ScriptGoesOn
<1>4. ASSUME NEW q, Goes(s, q), Kept(proc[s], q), q.at \in {"green", "issue"},
             q.pr = proc[s].pr
      PROVE  DatasetInv'
  <2>1. DecisionsInv(q)
    BY <1>1, <1>2, <1>4, KeptDecides DEF DecisionsInv
  <2>2. ~damaged => FollowsFiles(q)
    BY <1>1, <1>2, <1>4 DEF FollowsFiles, Kept
  <2>3. QED
    BY <1>1, <1>2, <1>4, <2>1, <2>2, ScriptGoesOn
<1>5. QED
  BY <1>1, <1>3, <1>4

(* A script that ends, or is killed away from the files.                   *)
LEMMA EndsQuietly ==
  ASSUME DatasetInv, NEW s \in Scripts, Goes(s, Off), proc[s].at # "off",
         UNCHANGED <<instances, rejections, damaged>>
  PROVE  DatasetInv'
BY ScriptGoesOn, OffDecides

LEMMA StartStep ==
  ASSUME DatasetInv, NEW s \in Scripts, Start(s)
  PROVE  DatasetInv'
<1> DEFINE q == [Off EXCEPT !.at = "fetch", !.existing = instances,
                            !.rejected = rejections, !.repo = 1, !.page = 1]
<1>1. /\ proc[s].at = "off" /\ Goes(s, q)
      /\ damaged' = (damaged \/ \E o \in Scripts : proc[o].at # "off")
      /\ UNCHANGED <<instances, rejections>>
  BY DEF Start, Files
<1>2. /\ DOMAIN q = DOMAIN Off /\ q.at = "fetch" /\ q.existing = instances
      /\ q.rejected = rejections /\ q.fresh = <<>>
  BY Zenon DEF Off
<1> HIDE DEF q
<1>3. /\ proc'[s] = q /\ \A o \in Scripts : o # s => proc'[o] = proc[o]
      /\ proc' = [o \in Scripts |-> proc'[o]]
  BY <1>1, UpdatedScript DEF DatasetInv
<1>4. FilesInv'
  BY <1>1 DEF DatasetInv, FilesInv
<1>5. DecisionsInv(q)
  BY <1>2, EmptyList DEF DatasetInv, FilesInv, DecisionsInv, NoRepeats, Apart
<1>6. \A o \in Scripts : DecisionsInv(proc'[o])
  BY <1>3, <1>5 DEF DatasetInv, ScriptsInv
<1>7. ASSUME ~damaged', NEW o \in Scripts, proc'[o].at # "off"
      PROVE  /\ FollowsFiles(proc[o])'
             /\ \A w \in Scripts : w # o => proc'[w].at = "off"
  <2>1. ~damaged /\ \A w \in Scripts : proc[w].at = "off"
    BY <1>1, <1>7
  <2>2. o = s
    BY <1>3, <1>7, <2>1
  <2>3. IsFront(rejections, rejections)
    BY FrontOfItself DEF DatasetInv, FilesInv
  <2>4. FollowsFiles(proc[s])'
    BY <1>1, <1>2, <1>3, <2>1, <2>3 DEF DatasetInv, FilesInv, FollowsFiles
  <2>5. QED
    BY <1>3, <2>1, <2>2, <2>4
<1>8. QED
  BY <1>3, <1>4, <1>6, <1>7 DEF DatasetInv, ScriptsInv
-----------------------------------------------------------------------------
(* The tasks a script writes: those it read and those it found.            *)
LEMMA WrittenTasks ==
  ASSUME NEW p, DecisionsInv(p)
  PROVE  /\ IsSequence(AllInstances(p)) /\ NoRepeats(AllInstances(p))
         /\ IsFront(p.existing, AllInstances(p))
         /\ Apart(p.rejected, p.existing) => Apart(p.rejected, AllInstances(p))
<1>1. PICK es, fs : es = p.existing /\ fs = p.fresh
  OBVIOUS
<1>2. PICK all : all = es \o fs
  OBVIOUS
<1>3. /\ IsSequence(es) /\ IsSequence(fs) /\ NoRepeats(es) /\ NoRepeats(fs)
      /\ \A j \in 1..Len(es), k \in 1..Len(fs) : es[j] # fs[k]
      /\ Apart(p.rejected, fs)
  BY <1>1 DEF DecisionsInv
<1>4. /\ Len(es) \in Nat /\ Len(fs) \in Nat /\ IsSequence(all)
      /\ Len(all) = Len(es) + Len(fs)
      /\ \A k \in 1..Len(es) : all[k] = es[k]
      /\ \A k \in 1..Len(fs) : all[Len(es) + k] = fs[k]
      /\ SubSeq(all, 1, Len(es)) = es
  BY <1>2, <1>3, Concatenated
<1>5. NoRepeats(all)
  BY <1>2, <1>3, ConcatenatedNew
<1>6. ASSUME Apart(p.rejected, es) PROVE Apart(p.rejected, all)
  <2> SUFFICES ASSUME NEW j \in 1..Len(p.rejected), NEW k \in 1..Len(all)
               PROVE  p.rejected[j].pr # all[k]
    BY DEF Apart
  <2>1. CASE k <= Len(es)
    <3>1. k \in 1..Len(es) /\ all[k] = es[k]
      BY <1>4, <2>1
    <3>2. QED
      BY <1>6, <3>1 DEF Apart
  <2>2. CASE ~(k <= Len(es))
    <3>1. k - Len(es) \in 1..Len(fs) /\ k = Len(es) + (k - Len(es))
      BY <1>4, <2>2
    <3>2. all[k] = fs[k - Len(es)]
      BY <1>4, <3>1
    <3>3. QED
      BY <1>3, <3>1, <3>2 DEF Apart
  <2>3. QED
    BY <2>1, <2>2
<1>7. all = AllInstances(p)
  BY <1>1, <1>2 DEF AllInstances
<1>8. IsFront(es, all)
  BY <1>4 DEF IsFront
<1>9. QED
  BY <1>1, <1>4, <1>5, <1>6, <1>7, <1>8

LEMMA FrontApart ==
  ASSUME NEW rs, NEW ps, NEW is, IsSequence(rs), IsSequence(ps),
         IsFront(rs, ps), Apart(ps, is)
  PROVE  Apart(rs, is)
<1>0. Len(rs) \in Nat /\ Len(ps) \in Nat
  BY DEF IsSequence
<1>1. PICK n \in 0..Len(ps) : n = Len(rs) /\ SubSeq(ps, 1, n) = rs
  <2>1. Len(rs) <= Len(ps) /\ SubSeq(ps, 1, Len(rs)) = rs
    BY DEF IsFront
  <2>2. Len(rs) \in 0..Len(ps)
    BY <1>0, <2>1
  <2>3. QED
    BY <2>1, <2>2, Zenon
<1>2. Len(ps) \in Nat /\ \A k \in 1..n : SubSeq(ps, 1, n)[k] = ps[k]
  BY FrontPart
<1>3. \A k \in 1..Len(rs) : rs[k] = ps[k] /\ k \in 1..Len(ps)
  BY <1>1, <1>2
<1>4. QED
  BY <1>3 DEF Apart

LEMMA WriteInstancesStep ==
  ASSUME DatasetInv, NEW s \in Scripts, WriteInstances(s)
  PROVE  DatasetInv' /\ (~damaged' => IsFront(instances, instances'))
<1>0. PICK p, q : p = proc[s] /\ q = [proc[s] EXCEPT !.at = "write2"]
  OBVIOUS
<1>1. /\ p.at = "write" /\ instances' = AllInstances(p) /\ Goes(s, q)
      /\ UNCHANGED <<rejections, damaged>>
  BY <1>0 DEF WriteInstances
<1>2. DecisionsInv(p) /\ DOMAIN p = DOMAIN Off
  BY <1>0 DEF DatasetInv, ScriptsInv, DecisionsInv
<1>3. Kept(p, q) /\ q.at = "write2"
  BY <1>0, <1>2, Zenon DEF Off, Kept
<1>4. ASSUME ~damaged
      PROVE  /\ FollowsFiles(p)
             /\ \A o \in Scripts : o # s => proc[o].at = "off"
  BY <1>0, <1>1, <1>4 DEF DatasetInv, ScriptsInv
<1>5. /\ proc'[s] = q /\ \A o \in Scripts : o # s => proc'[o] = proc[o]
      /\ proc' = [o \in Scripts |-> proc'[o]]
  BY <1>1, UpdatedScript DEF DatasetInv
<1>6. DecisionsInv(q)
  BY <1>2, <1>3, KeptDecides
<1>7. FilesInv'
  <2>1. ASSUME ~damaged PROVE Apart(rejections, AllInstances(p))
    <3>1. Apart(p.rejected, AllInstances(p)) /\ IsFront(rejections, p.rejected)
      BY <1>2, <1>4, <2>1, WrittenTasks DEF FollowsFiles
    <3>2. QED
      BY <1>2, <3>1, FrontApart DEF DatasetInv, FilesInv, DecisionsInv
  <2>2. QED
    BY <1>1, <1>2, <2>1, WrittenTasks DEF DatasetInv, FilesInv
<1>8. \A o \in Scripts : DecisionsInv(proc'[o])
  BY <1>5, <1>6 DEF DatasetInv, ScriptsInv
<1>9. ASSUME ~damaged', NEW o \in Scripts, proc'[o].at # "off"
      PROVE  /\ FollowsFiles(proc[o])'
             /\ \A w \in Scripts : w # o => proc'[w].at = "off"
  <2>1. /\ ~damaged /\ FollowsFiles(p)
        /\ \A w \in Scripts : w # s => proc[w].at = "off"
    BY <1>1, <1>4, <1>9
  <2>2. o = s
    BY <1>5, <1>9, <2>1
  <2>3. AllInstances(q) = AllInstances(p)
    BY <1>3 DEF AllInstances, Kept
  <2>4. FollowsFiles(q)'
    BY <1>1, <1>3, <2>1, <2>3 DEF FollowsFiles, Kept
  <2>5. FollowsFiles(proc[s])'
    BY <1>5, <2>4 DEF FollowsFiles
  <2>6. QED
    BY <1>5, <2>1, <2>2, <2>5
<1>10. ASSUME ~damaged' PROVE IsFront(instances, instances')
  <2>1. instances = p.existing
    BY <1>1, <1>4, <1>10 DEF FollowsFiles
  <2>2. QED
    BY <1>1, <1>2, <2>1, WrittenTasks
<1>11. QED
  BY <1>5, <1>7, <1>8, <1>9, <1>10 DEF DatasetInv, ScriptsInv

LEMMA WriteRejectionsStep ==
  ASSUME DatasetInv, NEW s \in Scripts, WriteRejections(s)
  PROVE  DatasetInv' /\ (~damaged' => IsFront(rejections, rejections'))
<1> DEFINE p == proc[s]
<1>1. /\ p.at = "write2" /\ rejections' = p.rejected /\ Goes(s, Off)
      /\ UNCHANGED <<instances, damaged>>
  BY DEF WriteRejections
<1>2. DecisionsInv(p)
  BY DEF DatasetInv, ScriptsInv
<1>3. ASSUME ~damaged
      PROVE  /\ FollowsFiles(p)
             /\ \A o \in Scripts : o # s => proc[o].at = "off"
  BY <1>1, <1>3 DEF DatasetInv, ScriptsInv
<1> HIDE DEF p
<1>4. /\ proc'[s] = Off /\ \A o \in Scripts : o # s => proc'[o] = proc[o]
      /\ proc' = [o \in Scripts |-> proc'[o]]
  BY <1>1, UpdatedScript DEF DatasetInv
<1>5. FilesInv'
  <2>1. ASSUME ~damaged PROVE Apart(p.rejected, instances)
    BY <1>1, <1>2, <1>3, <2>1, WrittenTasks DEF FollowsFiles
  <2>2. QED
    BY <1>1, <1>2, <2>1 DEF DatasetInv, FilesInv, DecisionsInv
<1>6. \A o \in Scripts : DecisionsInv(proc'[o])
  BY <1>4, OffDecides DEF DatasetInv, ScriptsInv
<1>7. ~damaged' => \A o \in Scripts : proc'[o].at = "off"
  BY <1>1, <1>3, <1>4, OffDecides
<1>8. QED
  BY <1>1, <1>3, <1>4, <1>5, <1>6, <1>7
  DEF DatasetInv, ScriptsInv, FollowsFiles

(* A write that is cut off leaves a part of what was to be written, and    *)
(* nothing is promised of the two files together from there on.            *)
LEMMA CrashStep ==
  ASSUME DatasetInv, NEW s \in Scripts, Crash(s)
  PROVE  DatasetInv' /\ (UNCHANGED <<instances, rejections>> \/ damaged')
<1> DEFINE p == proc[s]
<1>1. p.at # "off" /\ Goes(s, Off) /\ DecisionsInv(p)
  BY DEF Crash, DatasetInv, ScriptsInv
<1>2. CASE UNCHANGED <<instances, rejections, torn, damaged>>
  BY <1>1, <1>2, EndsQuietly
<1>3. ASSUME IsSequence(instances'), NoRepeats(instances'),
             IsSequence(rejections'), NoPRTwice(rejections'), damaged'
      PROVE  DatasetInv'
  <2>1. /\ proc'[s] = Off /\ \A o \in Scripts : o # s => proc'[o] = proc[o]
        /\ proc' = [o \in Scripts |-> proc'[o]]
    BY <1>1, UpdatedScript DEF DatasetInv
  <2>2. \A o \in Scripts : DecisionsInv(proc'[o])
    BY <2>1, OffDecides DEF DatasetInv, ScriptsInv
  <2>3. QED
    BY <1>3, <2>1, <2>2 DEF DatasetInv, FilesInv, ScriptsInv
<1>4. CASE /\ \E n \in 0..Len(AllInstances(p)) :
                instances' = SubSeq(AllInstances(p), 1, n)
           /\ damaged' = TRUE /\ UNCHANGED rejections
  <2>1. PICK n \in 0..Len(AllInstances(p)) :
               instances' = SubSeq(AllInstances(p), 1, n)
    BY <1>4
  <2>2. PICK all : /\ all = AllInstances(p) /\ instances' = SubSeq(all, 1, n)
                   /\ n \in 0..Len(all) /\ IsSequence(all) /\ NoRepeats(all)
    BY <1>1, <2>1, WrittenTasks
  <2>3. /\ IsSequence(instances') /\ Len(instances') = n
        /\ Len(all) \in Nat
        /\ \A k \in 1..n : instances'[k] = all[k]
    BY <2>2, FrontPart
  <2>4. NoRepeats(instances')
    BY <2>2, <2>3 DEF NoRepeats
  <2>5. QED
    BY <1>3, <1>4, <2>3, <2>4 DEF DatasetInv, FilesInv
<1>5. CASE rejections' = <<>> /\ damaged' = TRUE /\ UNCHANGED instances
  BY <1>3, <1>5, EmptyList DEF DatasetInv, FilesInv, NoPRTwice
<1>6. QED
  BY <1>2, <1>4, <1>5 DEF Crash

LEMMA DatasetStep ==
  ASSUME DatasetInv, [Next]_vars
  PROVE  /\ DatasetInv'
         /\ \/ UNCHANGED <<instances, rejections>>
            \/ ~damaged' => /\ IsFront(instances, instances')
                            /\ IsFront(rejections, rejections')
<1>0. IsFront(instances, instances) /\ IsFront(rejections, rejections)
  BY FrontOfItself DEF DatasetInv, FilesInv
<1>1. CASE Merge \/ UNCHANGED vars
  BY <1>1
  DEF Merge, vars, Files, DatasetInv, FilesInv, ScriptsInv, FollowsFiles
<1>2. ASSUME NEW s \in Scripts, Start(s)
      PROVE  DatasetInv' /\ UNCHANGED <<instances, rejections>>
  BY <1>2, StartStep DEF Start, Files
<1>3. ASSUME NEW s \in Scripts,
             FetchPage(s) \/ SkipCandidate(s) \/ TakeCandidate(s) \/ NextRepo(s)
      PROVE  DatasetInv' /\ UNCHANGED <<instances, rejections>>
  BY <1>3, SearchStep, SearchKeeps DEF Files, DatasetInv
<1>4. ASSUME NEW s \in Scripts,
             \/ Salvage(s) \/ InstallFails(s) \/ Red(s) \/ Green(s)
             \/ MakeInstance(s) \/ InstanceFails(s)
      PROVE  DatasetInv' /\ UNCHANGED <<instances, rejections>>
  BY <1>4, ValidationStep, ValidationJudges DEF Files, DatasetInv
<1>5. ASSUME NEW s \in Scripts, FetchFails(s)
      PROVE  DatasetInv' /\ UNCHANGED <<instances, rejections>>
  BY <1>5, EndsQuietly DEF FetchFails, Files
<1>6. ASSUME NEW s \in Scripts, WriteInstances(s)
      PROVE  DatasetInv' /\ UNCHANGED rejections
             /\ (~damaged' => IsFront(instances, instances'))
  BY <1>6, WriteInstancesStep DEF WriteInstances
<1>7. ASSUME NEW s \in Scripts, WriteRejections(s)
      PROVE  DatasetInv' /\ UNCHANGED instances
             /\ (~damaged' => IsFront(rejections, rejections'))
  BY <1>7, WriteRejectionsStep DEF WriteRejections
<1>8. ASSUME NEW s \in Scripts, Crash(s)
      PROVE  DatasetInv' /\ (UNCHANGED <<instances, rejections>> \/ damaged')
  BY <1>8, CrashStep
<1>9. QED
  BY <1>0, <1>1, <1>2, <1>3, <1>4, <1>5, <1>6, <1>7, <1>8
  DEF Next, Script, Fault, Merge, vars, Files

LEMMA DatasetInit == Init => DatasetInv
<1> SUFFICES ASSUME Init PROVE DatasetInv
  OBVIOUS
<1>1. FilesInv
  BY EmptyList DEF Init, FilesInv, NoRepeats, NoPRTwice, Apart
<1>2. \A s \in Scripts : proc[s] = Off
  BY DEF Init
<1>3. QED
  BY <1>1, <1>2, OffDecides DEF Init, DatasetInv, ScriptsInv

(* The dataset goes on beside its publication.                             *)
LEMMA PublishingStep ==
  ASSUME DatasetInv, [PubNext]_<<vars, pubVars>>
  PROVE  /\ DatasetInv'
         /\ \/ UNCHANGED <<instances, rejections>>
            \/ ~damaged' => /\ IsFront(instances, instances')
                            /\ IsFront(rejections, rejections')
<1>1. CASE [Next]_vars
  BY <1>1, DatasetStep
<1>2. ASSUME NEW v \in Versions, Publish(v), ~UNCHANGED vars
      PROVE  UNCHANGED <<instances, rejections, damaged, proc>>
  BY <1>2
  DEF Publish, ExportRows, ExportInfo, ExportDies, LoadVersion, Files
<1>3. CASE UNCHANGED <<instances, rejections, damaged, proc>>
  BY <1>3 DEF DatasetInv, FilesInv, ScriptsInv, FollowsFiles
<1>4. QED
  BY <1>1, <1>2, <1>3 DEF PubNext

LEMMA DatasetInvariant == Spec => []DatasetInv
<1>1. DatasetInv /\ [Next]_vars => DatasetInv'
  BY DatasetStep
<1>2. QED
  BY <1>1, DatasetInit, PTL DEF Spec

LEMMA PublishedInvariant == PubSpec => []DatasetInv
<1>1. PubInit => DatasetInv
  BY DatasetInit DEF PubInit
<1>2. DatasetInv /\ [PubNext]_<<vars, pubVars>> => DatasetInv'
  BY PublishingStep
<1>3. QED
  BY <1>1, <1>2, PTL DEF PubSpec

LEMMA Distinct ==
  ASSUME NEW s, IsSequence(s), NoRepeats(s)
  PROVE  Cardinality(ToSet(s)) = Len(s)
<1>1. ToSet(s) = {s[k] : k \in 1..Len(s)}
  BY DEF ToSet, IsSequence
<1>2. QED
  BY <1>1, ListCounts

(* A pull request has at most one verdict in the two files, whatever       *)
(* crashes between their two writes (mine_and_validate.py:52-109).         *)
THEOREM OneVerdict == PubSpec => []VerdictOnce
<1>1. DatasetInv => VerdictOnce
  <2> SUFFICES ASSUME DatasetInv, ~damaged PROVE VerdictOnce
    BY DEF VerdictOnce
  <2>1. Cardinality(ToSet(instances)) = Len(instances)
    BY Distinct DEF DatasetInv, FilesInv
  <2>2. \A j, k \in 1..Len(rejections) : rejections[j].pr = rejections[k].pr => j = k
    BY DEF DatasetInv, FilesInv, NoPRTwice
  <2>3. \A k \in 1..Len(rejections) : rejections[k].pr \notin ToSet(instances)
    <3>1. ToSet(instances) = {instances[k] : k \in 1..Len(instances)}
      BY DEF ToSet, IsSequence, DatasetInv, FilesInv
    <3>2. QED
      BY <3>1 DEF DatasetInv, FilesInv, Apart
  <2>4. QED
    BY <2>1, <2>2, <2>3 DEF VerdictOnce
<1>2. QED
  BY <1>1, PublishedInvariant, PTL

(* No step takes a task or a rejection out of the dataset, as long as no   *)
(* two scripts overlap and no write is cut off.                            *)
THEOREM DatasetOnlyGrows == PubSpec => DatasetGrows
<1>1. ASSUME DatasetInv, [PubNext]_<<vars, pubVars>>, ~damaged'
      PROVE  IsPrefix(instances, instances') /\ IsPrefix(rejections, rejections')
  <2>1. IsFront(instances, instances) /\ IsFront(rejections, rejections)
    BY <1>1, FrontOfItself DEF DatasetInv, FilesInv
  <2>2. IsFront(instances, instances') /\ IsFront(rejections, rejections')
    BY <1>1, <2>1, PublishingStep
  <2>3. /\ SubSeq(instances, 1, Len(instances)) = instances
        /\ SubSeq(rejections, 1, Len(rejections)) = rejections
    BY <2>1 DEF IsFront
  <2>4. QED
    BY <2>2, <2>3 DEF IsFront, IsPrefix
<1>2. DatasetInv /\ [PubNext]_<<vars, pubVars>>
        => [~damaged' => /\ IsPrefix(instances, instances')
                         /\ IsPrefix(rejections, rejections')]_vars
  BY <1>1
<1>3. QED
  BY <1>2, PublishedInvariant, PTL DEF PubSpec, DatasetGrows
-----------------------------------------------------------------------------
(* What has been published is a list without repetitions, and what has     *)
(* been loaded is all of it.                                               *)
DirectoryInv ==
  /\ version_dir = [v \in Versions |-> version_dir[v]]
  /\ \A v \in Versions :
       /\ DOMAIN version_dir[v] = DOMAIN Absentee
       /\ version_dir[v].at \in {"rows", "info"} =>
            IsSequence(version_dir[v].rows) /\ NoRepeats(version_dir[v].rows)

TablesInv ==
  /\ tasks = [v \in Versions |-> tasks[v]]
  /\ \A v \in Versions :
       IF tasks[v].count = 0 THEN tasks[v].ids = {}
       ELSE /\ version_dir[v].at = "info"
            /\ tasks[v].ids = ToSet(version_dir[v].rows)
            /\ tasks[v].count = Len(version_dir[v].rows)

PublishedInv == DirectoryInv /\ TablesInv

LEMMA DirectoryChanges ==
  ASSUME PublishedInv, NEW v \in Versions, NEW dir,
         version_dir' = [version_dir EXCEPT ![v] = dir], tasks' = tasks,
         version_dir[v].at # "info", DOMAIN dir = DOMAIN Absentee,
         dir.at \in {"rows", "info"} => IsSequence(dir.rows) /\ NoRepeats(dir.rows)
  PROVE  PublishedInv'
<1>1. version_dir' = [u \in Versions |-> IF u = v THEN dir ELSE version_dir[u]]
  BY DEF PublishedInv, DirectoryInv
<1>2. tasks[v].count = 0 /\ tasks[v].ids = {}
  BY DEF PublishedInv, TablesInv
<1>3. DirectoryInv'
  BY <1>1 DEF PublishedInv, DirectoryInv
<1>4. TablesInv'
  BY <1>1, <1>2 DEF PublishedInv, TablesInv
<1>5. QED
  BY <1>3, <1>4 DEF PublishedInv

LEMMA LoadStep ==
  ASSUME PublishedInv, NEW v \in Versions, LoadVersion(v)
  PROVE  PublishedInv'
<1>1. PICK ids, count : ids = tasks[v].ids /\ count = tasks[v].count
  OBVIOUS
<1>2. PICK rows : rows = version_dir[v].rows
  OBVIOUS
<1> DEFINE new == [ids |-> ids \union ToSet(rows),
                   count |-> IF count = 0 THEN Len(rows) ELSE count]
<1>3. /\ version_dir[v].at = "info" /\ version_dir' = version_dir
      /\ tasks' = [u \in Versions |-> IF u = v THEN new ELSE tasks[u]]
  BY <1>1, <1>2 DEF LoadVersion, PublishedInv, TablesInv
<1>4. IF count = 0 THEN ids = {} ELSE ids = ToSet(rows) /\ count = Len(rows)
  BY <1>1, <1>2 DEF PublishedInv, TablesInv
<1>5. new.ids = ToSet(rows) /\ new.count = Len(rows)
  BY <1>4
<1>6. IsSequence(rows)
  BY <1>2, <1>3 DEF PublishedInv, DirectoryInv
<1>7. new.count = 0 => new.ids = {}
  <2>1. Len(rows) = 0 => ToSet(rows) = {}
    BY <1>6 DEF IsSequence, ToSet
  <2>2. QED
    BY <1>5, <2>1
<1> HIDE DEF new
<1>8. DirectoryInv'
  BY <1>3 DEF PublishedInv, DirectoryInv
<1>9. TablesInv'
  BY <1>2, <1>3, <1>5, <1>7 DEF PublishedInv, TablesInv
<1>10. QED
  BY <1>8, <1>9 DEF PublishedInv

LEMMA PublishStep ==
  ASSUME DatasetInv, PublishedInv, [PubNext]_<<vars, pubVars>>
  PROVE  PublishedInv'
<1>1. CASE UNCHANGED pubVars
  BY <1>1 DEF pubVars, PublishedInv, DirectoryInv, TablesInv
<1>2. ASSUME NEW v \in Versions, ExportRows(v) PROVE PublishedInv'
  <2> DEFINE dir == [at |-> "rows", rows |-> instances]
  <2>1. /\ version_dir[v].at = "absent" /\ tasks' = tasks
        /\ version_dir' = [version_dir EXCEPT ![v] = dir]
    BY <1>2 DEF ExportRows, NotPublished
  <2>2. DOMAIN dir = DOMAIN Absentee /\ dir.rows = instances
    BY DEF Absentee
  <2>3. IsSequence(instances) /\ NoRepeats(instances)
    BY DEF DatasetInv, FilesInv
  <2> HIDE DEF dir
  <2>4. QED
    BY <2>1, <2>2, <2>3, DirectoryChanges
<1>3. ASSUME NEW v \in Versions, ExportInfo(v) PROVE PublishedInv'
  <2> DEFINE dir == [version_dir[v] EXCEPT !.at = "info"]
  <2>1. /\ version_dir[v].at = "rows" /\ tasks' = tasks
        /\ version_dir' = [version_dir EXCEPT ![v] = dir]
    BY <1>3 DEF ExportInfo
  <2>2. DOMAIN dir = DOMAIN Absentee /\ dir.rows = version_dir[v].rows
    BY DEF Absentee, PublishedInv, DirectoryInv
  <2>3. IsSequence(version_dir[v].rows) /\ NoRepeats(version_dir[v].rows)
    BY <2>1 DEF PublishedInv, DirectoryInv
  <2> HIDE DEF dir
  <2>4. QED
    BY <2>1, <2>2, <2>3, DirectoryChanges
<1>4. ASSUME NEW v \in Versions, ExportDies(v) PROVE PublishedInv'
  <2>1. PICK n \in 0..Len(version_dir[v].rows) :
               version_dir' = [version_dir EXCEPT ![v] =
                 [at |-> "cut", rows |-> SubSeq(version_dir[v].rows, 1, n)]]
    BY <1>4 DEF ExportDies
  <2> DEFINE dir == [at |-> "cut", rows |-> SubSeq(version_dir[v].rows, 1, n)]
  <2>2. version_dir[v].at = "rows" /\ tasks' = tasks
    BY <1>4 DEF ExportDies
  <2>3. DOMAIN dir = DOMAIN Absentee /\ dir.at = "cut"
    BY DEF Absentee
  <2>4. version_dir' = [version_dir EXCEPT ![v] = dir]
    BY <2>1
  <2> HIDE DEF dir
  <2>5. QED
    BY <2>2, <2>3, <2>4, DirectoryChanges
<1>5. ASSUME NEW v \in Versions, LoadVersion(v) PROVE PublishedInv'
  BY <1>5, LoadStep
<1>6. QED
  BY <1>1, <1>2, <1>3, <1>4, <1>5 DEF PubNext, Publish

(* A version that was loaded is what its directory holds and under the     *)
(* count that was published, although the dataset grows and exporters die  *)
(* (dataset_export.py:48-75, load_postgres.py:28-81).                      *)
THEOREM LoadedAsPublished == PubSpec => []LoadedIsPublished
<1>1. PubInit => PublishedInv
  BY DEF PubInit, PublishedInv, DirectoryInv, TablesInv, Absentee
<1>2. DatasetInv /\ PublishedInv /\ [PubNext]_<<vars, pubVars>> => PublishedInv'
  BY PublishStep
<1>3. PublishedInv => LoadedIsPublished
  <2> SUFFICES ASSUME PublishedInv, NEW v \in Versions, tasks[v].count # 0
               PROVE  /\ version_dir[v].at = "info"
                      /\ tasks[v].ids = ToSet(version_dir[v].rows)
                      /\ tasks[v].count = Cardinality(tasks[v].ids)
    BY DEF LoadedIsPublished
  <2>1. /\ version_dir[v].at = "info"
        /\ tasks[v].ids = ToSet(version_dir[v].rows)
        /\ tasks[v].count = Len(version_dir[v].rows)
    BY DEF PublishedInv, TablesInv
  <2>2. Cardinality(ToSet(version_dir[v].rows)) = Len(version_dir[v].rows)
    BY <2>1, Distinct DEF PublishedInv, DirectoryInv
  <2>3. QED
    BY <2>1, <2>2
<1>4. QED
  BY <1>1, <1>2, <1>3, PublishedInvariant, PTL DEF PubSpec
-----------------------------------------------------------------------------
(* What becomes a task was red and then green.                             *)

(* One run of the suite in the tree of the run before it.                  *)
RunOnce(pr, suites, rs, k, p) ==
  IF p.raised # "nothing" THEN p
  ELSE LET ran == run_tests(pr, get_adapter(pr), p.report, suites[k], rs[k])
       IN [raised |-> ran.raised, report |-> ran.report,
           seen |-> Append(p.seen, parse_results(pr, ran.report))]

(* The recursion of run_tests_n_times has a solution, run by run.          *)
LEMMA RunsUnfold ==
  ASSUME NEW pr, NEW left, NEW suites, NEW rs
  PROVE  \E f :
           /\ run_tests_n_times(pr, left, suites, rs) = f[Runs]
           /\ f[0] = [raised |-> "nothing", report |-> left, seen |-> <<>>]
           /\ \A k \in 1..Runs : f[k] = RunOnce(pr, suites, rs, k, f[k - 1])
<1> DEFINE start == [raised |-> "nothing", report |-> left, seen |-> <<>>]
           Step(k, p) == RunOnce(pr, suites, rs, k, p)
           Follows(n, f) == f = [k \in 0..n |-> IF k = 0 THEN start ELSE Step(k, f[k - 1])]
           F == CHOOSE f : Follows(Runs, f)
           P == {n \in Nat : \E f : Follows(n, f)}
<1>1. run_tests_n_times(pr, left, suites, rs) = F[Runs]
  BY DEF run_tests_n_times, RunOnce
<1> HIDE DEF start, Step
<1>2. 0 \in P
  <2> DEFINE f == [k \in 0..0 |-> start]
  <2>1. Follows(0, f)
    OBVIOUS
  <2>2. QED
    BY <2>1
<1>3. ASSUME NEW n \in Nat, n \in P
      PROVE  n + 1 \in P
  <2>1. PICK f : Follows(n, f)
    BY <1>3
  <2> DEFINE g == [k \in 0..(n + 1) |-> IF k = n + 1 THEN Step(n + 1, f[n]) ELSE f[k]]
  <2>2. ASSUME NEW k \in 0..(n + 1)
        PROVE  g[k] = IF k = 0 THEN start ELSE Step(k, g[k - 1])
    <3>1. CASE k = n + 1
      <4>1. k # 0 /\ k - 1 = n /\ n \in 0..(n + 1) /\ n # n + 1
        BY <3>1
      <4>2. g[n] = f[n] /\ g[k] = Step(n + 1, f[n])
        BY <3>1, <4>1
      <4>3. QED
        BY <3>1, <4>1, <4>2
    <3>2. CASE k # n + 1
      <4>1. k \in 0..n /\ (k # 0 => k - 1 \in 0..(n + 1) /\ k - 1 # n + 1)
        BY <3>2
      <4>2. g[k] = f[k] /\ (k # 0 => g[k - 1] = f[k - 1])
        BY <3>2, <4>1
      <4>3. f[k] = IF k = 0 THEN start ELSE Step(k, f[k - 1])
        BY <2>1, <4>1
      <4>4. QED
        BY <4>2, <4>3
    <3>3. QED
      BY <3>1, <3>2
  <2>3. g = [k \in 0..(n + 1) |-> g[k]]
    OBVIOUS
  <2> HIDE DEF g
  <2>4. Follows(n + 1, g)
    BY <2>2, <2>3
  <2>5. QED
    BY <2>4
<1>4. Runs \in P
  <2> HIDE DEF P
  <2>1. Nat \subseteq P
    BY <1>2, <1>3, SetInduction
  <2>2. QED
    BY <2>1, ValidationAssumption
<1>5. Follows(Runs, F)
  BY <1>4
<1> HIDE DEF F
<1>6. 0 \in 0..Runs /\ F[0] = start
  BY <1>5, ValidationAssumption
<1>7. ASSUME NEW k \in 1..Runs
      PROVE  F[k] = Step(k, F[k - 1])
  <2>1. k \in 0..Runs /\ k # 0
    BY ValidationAssumption
  <2>2. QED
    BY <1>5, <2>1
<1>8. QED
  BY <1>1, <1>6, <1>7 DEF start, Step

(* What a run reports of a test is passed or not.                          *)
Reports(seen) ==
  /\ IsSequence(seen)
  /\ \A k \in 1..Len(seen) : \A t \in DOMAIN seen[k] : seen[k][t] \in BOOLEAN

LEMMA RunsReport ==
  ASSUME NEW pr, NEW left, NEW suites, NEW rs
  PROVE  Reports(run_tests_n_times(pr, left, suites, rs).seen)
<1>1. PICK f : /\ run_tests_n_times(pr, left, suites, rs) = f[Runs]
               /\ f[0] = [raised |-> "nothing", report |-> left, seen |-> <<>>]
               /\ \A k \in 1..Runs : f[k] = RunOnce(pr, suites, rs, k, f[k - 1])
  BY RunsUnfold
<1> DEFINE P == {n \in Nat : n <= Runs => Reports(f[n].seen)}
<1>2. 0 \in P
  <2>1. Reports(<<>>)
    BY EmptyList DEF Reports
  <2>2. f[0].seen = <<>>
    BY <1>1
  <2>3. QED
    BY <2>1, <2>2
<1>3. ASSUME NEW n \in Nat, n \in P
      PROVE  n + 1 \in P
  <2> SUFFICES ASSUME n + 1 <= Runs
               PROVE  Reports(f[n + 1].seen)
    OBVIOUS
  <2>1. Reports(f[n].seen) /\ f[n + 1] = RunOnce(pr, suites, rs, n + 1, f[n])
    <3>1. n <= Runs /\ n + 1 \in 1..Runs /\ (n + 1) - 1 = n
      BY ValidationAssumption
    <3>2. QED
      BY <1>1, <1>3, <3>1
  <2>2. PICK e : \/ f[n + 1].seen = f[n].seen
                 \/ /\ f[n + 1].seen = Append(f[n].seen, e)
                    /\ \A t \in DOMAIN e : e[t] \in BOOLEAN
    <3> DEFINE ran == run_tests(pr, get_adapter(pr), f[n].report, suites[n + 1], rs[n + 1])
               e == parse_results(pr, ran.report)
    <3>1. \A t \in DOMAIN e : e[t] \in BOOLEAN
      <4> HIDE DEF ran
      <4>1. CASE pr.language = "java"
        BY <4>1 DEF parse_results, java_parse_results
      <4>2. CASE pr.language # "java"
        BY <4>2 DEF parse_results
      <4>3. QED
        BY <4>1, <4>2
    <3>2. f[n + 1].seen = f[n].seen \/ f[n + 1].seen = Append(f[n].seen, e)
      BY <2>1 DEF RunOnce
    <3> HIDE DEF e
    <3>3. QED
      BY <3>1, <3>2
  <2>3. CASE f[n + 1].seen = f[n].seen
    BY <2>1, <2>3
  <2>4. CASE /\ f[n + 1].seen = Append(f[n].seen, e)
             /\ \A t \in DOMAIN e : e[t] \in BOOLEAN
    <3> DEFINE s == f[n].seen
               u == f[n + 1].seen
    <3>0. IsSequence(s) /\ u = Append(s, e)
      BY <2>1, <2>4 DEF Reports
    <3> HIDE DEF s, u
    <3>1. /\ IsSequence(u) /\ Len(s) \in Nat /\ Len(u) = Len(s) + 1
          /\ u[Len(s) + 1] = e /\ \A k \in 1..Len(s) : u[k] = s[k]
      BY <3>0, Appended
    <3>2. \A k \in 1..Len(u) : k \in 1..Len(s) \/ k = Len(s) + 1
      BY <3>1
    <3>3. \A k \in 1..Len(u) : \A t \in DOMAIN u[k] : u[k][t] \in BOOLEAN
      BY <2>1, <2>4, <3>1, <3>2 DEF Reports, s
    <3>4. QED
      BY <3>1, <3>3 DEF Reports, u
  <2>5. QED
    BY <2>2, <2>3, <2>4
<1>4. Runs \in P
  <2> HIDE DEF P
  <2>1. Nat \subseteq P
    BY <1>2, <1>3, SetInduction
  <2>2. QED
    BY <2>1, ValidationAssumption
<1>5. QED
  BY <1>1, <1>4, ValidationAssumption

(* The outcomes of a test that is not flaky are one.                       *)
LEMMA OneOutcome ==
  ASSUME NEW seen, Reports(seen), NEW t \in DOMAIN deterministic_only(seen)
  PROVE  /\ deterministic_only(seen)[t] => OutcomesOf(seen, t) = {TRUE}
         /\ ~deterministic_only(seen)[t] => OutcomesOf(seen, t) = {FALSE}
<1> DEFINE S == OutcomesOf(seen, t)
<1>1. S \subseteq BOOLEAN
  BY DEF OutcomesOf, Reports
<1>2. Cardinality(S) = 1 /\ deterministic_only(seen)[t] = (TRUE \in S)
  BY DEF deterministic_only
<1> HIDE DEF S
<1>3. IsFiniteSet(S)
  <2>1. IsFiniteSet({TRUE}) /\ IsFiniteSet({FALSE})
    BY FS_Singleton
  <2>2. IsFiniteSet({TRUE} \cup {FALSE})
    BY <2>1, FS_Union
  <2>3. S \subseteq {TRUE} \cup {FALSE}
    BY <1>1
  <2>4. QED
    BY <2>2, <2>3, FS_Subset
<1>4. PICK x : S = {x}
  BY <1>2, <1>3, FS_Singleton
<1>5. x = TRUE \/ x = FALSE
  BY <1>1, <1>4
<1>6. QED
  BY <1>2, <1>4, <1>5 DEF S

LEMMA RunsSeen ==
  ASSUME NEW p, NEW ran, ran \in RedRuns(p) \/ ran \in GreenRuns(p)
  PROVE  Reports(ran.seen)
<1>1. ASSUME NEW pr, NEW left, NEW behaviour, ran \in RunsOf(pr, left, behaviour)
      PROVE  Reports(ran.seen)
  BY <1>1, RunsReport DEF RunsOf
<1>2. CASE ran \in RedRuns(p)
  <2>1. \E pr \in DOMAIN About : ran \in RunsOf(pr, NoReport, About[pr].base)
    BY <1>2 DEF RedRuns, RunsBefore
  <2>2. QED
    BY <1>1, <2>1
<1>3. CASE ran \in GreenRuns(p)
  <2>1. \E tree : ran \in RunsOf(tree[1], tree[2], About[tree[1]].gold)
    BY <1>3 DEF GreenRuns, RunsAfter
  <2>2. QED
    BY <1>1, <2>1
<1>4. QED
  BY <1>2, <1>3

(* What the red side has found of a pull request, and the green side.      *)
RedFound(red, pr, before) ==
  /\ red.f2p # {}
  /\ pr.compiles => \A t \in red.f2p : OutcomesOf(before, t) = {FALSE}
  /\ \A t \in red.passing : OutcomesOf(before, t) = {TRUE}

GreenFound(red, after) ==
  \A t \in red.f2p \union red.passing : SeenToPass(after, t)

LEMMA RedRunFinds ==
  ASSUME NEW pr, NEW seen, Reports(seen),
         RedVerdict(red_run(pr, seen)) = "go"
  PROVE  RedFound(red_run(pr, seen), pr, seen)
<1> DEFINE results == deterministic_only(seen)
           red == red_run(pr, seen)
<1>1. red.f2p # {}
  BY DEF RedVerdict
<1>2. /\ \A t \in red.f2p : t \in DOMAIN results /\ ~results[t]
      /\ \A t \in red.passing : t \in DOMAIN results /\ results[t]
  BY DEF red_run
<1> HIDE DEF red
<1>3. /\ \A t \in red.f2p : OutcomesOf(seen, t) = {FALSE}
      /\ \A t \in red.passing : OutcomesOf(seen, t) = {TRUE}
  BY <1>2, OneOutcome
<1>4. RedFound(red, pr, seen)
  BY <1>1, <1>3 DEF RedFound
<1>5. QED
  BY <1>4 DEF red

LEMMA GreenRunFinds ==
  ASSUME NEW red, NEW seen, Reports(seen), green_run(red, seen) = "instance"
  PROVE  GreenFound(red, seen)
<1> DEFINE results == deterministic_only(seen)
<1>1. /\ Flaky(seen) \intersect (red.f2p \union red.passing) = {}
      /\ \A t \in red.f2p : resolve_test_outcome(results, t)
      /\ \A t \in red.passing : resolve_test_outcome(results, t)
  BY DEF green_run
<1> HIDE DEF results
<1>2. ASSUME NEW t \in red.f2p \union red.passing, t \in Reported(seen)
      PROVE  OutcomesOf(seen, t) = {TRUE}
  <2>1. t \in DOMAIN results
    BY <1>1, <1>2 DEF Flaky, results
  <2>2. results[t]
    BY <1>1, <2>1 DEF resolve_test_outcome
  <2>3. QED
    BY <2>1, <2>2, OneOutcome DEF results
<1>3. ASSUME NEW t \in red.f2p \union red.passing, t \notin Reported(seen)
      PROVE  /\ Variants(results, t) # {}
             /\ \A u \in Variants(results, t) : OutcomesOf(seen, u) = {TRUE}
  <2>1. t \notin DOMAIN results
    BY <1>3 DEF deterministic_only, results
  <2>2. /\ Variants(results, t) # {}
        /\ \A u \in Variants(results, t) : results[u]
    BY <1>1, <2>1 DEF resolve_test_outcome
  <2>3. \A u \in Variants(results, t) : u \in DOMAIN results
    BY DEF Variants
  <2>4. QED
    BY <2>2, <2>3, OneOutcome DEF results
<1>4. QED
  BY <1>2, <1>3 DEF GreenFound, SeenToPass, results

(* Salvaged tests come from the diff: nothing of them was seen.            *)
LEMMA SalvageFinds ==
  ASSUME NEW pr, NEW before, Salvaged(pr).f2p # {}, ~pr.compiles
  PROVE  RedFound(Salvaged(pr), pr, before)
BY DEF RedFound, Salvaged, NotRun

(* A script that runs the tests, or waits for the issue, has found what    *)
(* lets it go on.                                                          *)
FoundInv(p) ==
  /\ p.at \in {"green", "issue"} => RedFound(p.red, About[p.pr], p.before)
  /\ p.at = "issue" => GreenFound(p.red, p.after)

TestedInv == \A s \in Scripts : FoundInv(proc[s])

LEMMA OneGoesOn ==
  ASSUME DatasetInv, TestedInv, NEW s \in Scripts, NEW q, Goes(s, q), FoundInv(q)
  PROVE  TestedInv'
<1>1. /\ proc'[s] = q /\ \A o \in Scripts : o # s => proc'[o] = proc[o]
  BY UpdatedScript DEF DatasetInv
<1>2. \A o \in Scripts : FoundInv(proc'[o])
  BY <1>1 DEF TestedInv
<1>3. QED
  BY <1>2 DEF TestedInv, FoundInv

LEMMA JudgedAway ==
  ASSUME DatasetInv, TestedInv, NEW s \in Scripts, NEW v, Goes(s, Judged(proc[s], v))
  PROVE  TestedInv'
<1>1. DOMAIN proc[s] = DOMAIN Off
  BY DEF DatasetInv, ScriptsInv, DecisionsInv
<1>2. Judged(proc[s], v).at = "next"
  BY <1>1, JudgedFields
<1>3. FoundInv(Judged(proc[s], v))
  BY <1>2 DEF FoundInv
<1>4. QED
  BY <1>3, OneGoesOn

LEMMA RedTests ==
  ASSUME DatasetInv, TestedInv, NEW s \in Scripts, Salvage(s) \/ Red(s)
  PROVE  TestedInv'
<1> DEFINE p == proc[s]
<1>1. DOMAIN p = DOMAIN Off
  BY DEF DatasetInv, ScriptsInv, DecisionsInv
<1>2. CASE Salvage(s)
  <2> DEFINE q == [p EXCEPT !.at = "green", !.red = Salvaged(About[p.pr])]
  <2>1. \/ Goes(s, Judged(p, "exception"))
        \/ /\ Goes(s, q)
           /\ Salvaged(About[p.pr]).f2p # {} /\ ~About[p.pr].compiles
    BY <1>2, Zenon DEF Salvage
  <2>2. /\ q.at = "green" /\ q.red = Salvaged(About[p.pr]) /\ q.pr = p.pr
        /\ q.before = p.before
    BY <1>1, Zenon DEF Off
  <2> HIDE DEF q
  <2>3. CASE Goes(s, q) /\ Salvaged(About[p.pr]).f2p # {} /\ ~About[p.pr].compiles
    <3>1. RedFound(q.red, About[q.pr], q.before)
      BY <2>2, <2>3, SalvageFinds
    <3>2. FoundInv(q)
      BY <2>2, <3>1 DEF FoundInv
    <3>3. QED
      BY <2>3, <3>2, OneGoesOn
  <2>4. QED
    BY <2>1, <2>3, JudgedAway
<1>3. CASE Red(s)
  <2>1. PICK ran \in RedRuns(p) :
          \/ Goes(s, Judged(p, "exception"))
          \/ Goes(s, Judged(p, RedVerdict(red_run(About[p.pr], ran.seen))))
          \/ /\ RedVerdict(red_run(About[p.pr], ran.seen)) = "go"
             /\ Goes(s, [p EXCEPT !.at = "green", !.red = red_run(About[p.pr], ran.seen),
                                  !.report = ran.report, !.before = ran.seen])
    BY <1>3, Zenon DEF Red
  <2> DEFINE red == red_run(About[p.pr], ran.seen)
             q == [p EXCEPT !.at = "green", !.red = red, !.report = ran.report,
                            !.before = ran.seen]
  <2>2. /\ q.at = "green" /\ q.red = red /\ q.before = ran.seen /\ q.pr = p.pr
    BY <1>1, Zenon DEF Off
  <2>3. CASE RedVerdict(red) = "go" /\ Goes(s, q)
    <3>1. RedFound(red, About[p.pr], ran.seen)
      BY <2>3, RunsSeen, RedRunFinds
    <3> HIDE DEF red, q
    <3>2. FoundInv(q)
      BY <2>2, <3>1 DEF FoundInv
    <3>3. QED
      BY <2>3, <3>2, OneGoesOn
  <2>4. QED
    BY <2>1, <2>3, JudgedAway
<1>4. QED
  BY <1>2, <1>3

LEMMA GreenTests ==
  ASSUME DatasetInv, TestedInv, NEW s \in Scripts, Green(s)
  PROVE  TestedInv'
<1> DEFINE p == proc[s]
<1>1. DOMAIN p = DOMAIN Off /\ p.at = "green" /\ FoundInv(p)
  BY DEF DatasetInv, ScriptsInv, DecisionsInv, TestedInv, Green
<1>2. PICK ran \in GreenRuns(p) :
        \/ \E v : Goes(s, Judged(p, v))
        \/ /\ green_run(p.red, ran.seen) = "instance"
           /\ Goes(s, [p EXCEPT !.at = "issue", !.after = ran.seen])
  <2>1. PICK ran \in GreenRuns(p) :
          LET verdict == IF ran.raised = "nothing" THEN green_run(p.red, ran.seen)
                         ELSE "exception"
          IN Goes(s, IF verdict = "instance" THEN [p EXCEPT !.at = "issue", !.after = ran.seen]
                     ELSE Judged(p, verdict))
    BY Zenon DEF Green
  <2>2. CASE ran.raised = "nothing"
    BY <2>1, <2>2, Zenon
  <2>3. CASE ran.raised # "nothing"
    <3>1. "exception" # "instance"
      OBVIOUS
    <3>2. QED
      BY <2>1, <2>3, <3>1, Zenon
  <2>4. QED
    BY <2>2, <2>3
<1> DEFINE q == [p EXCEPT !.at = "issue", !.after = ran.seen]
<1>3. /\ q.at = "issue" /\ q.red = p.red /\ q.before = p.before
      /\ q.pr = p.pr /\ q.after = ran.seen
  BY <1>1, Zenon DEF Off
<1>4. CASE green_run(p.red, ran.seen) = "instance" /\ Goes(s, q)
  <2>1. GreenFound(p.red, ran.seen)
    BY <1>4, RunsSeen, GreenRunFinds
  <2> HIDE DEF q
  <2>2. FoundInv(q)
    BY <1>1, <1>3, <2>1 DEF FoundInv
  <2>3. QED
    BY <1>4, <2>2, OneGoesOn
<1>5. QED
  BY <1>2, <1>4, JudgedAway

LEMMA TestedStep ==
  ASSUME DatasetInv, TestedInv, [Next]_vars
  PROVE  TestedInv'
<1>1. CASE Merge \/ UNCHANGED vars
  BY <1>1 DEF Merge, vars, TestedInv, FoundInv
<1>2. ASSUME NEW s \in Scripts, Start(s) \/ FetchFails(s) \/ Crash(s) \/ WriteRejections(s)
      PROVE  TestedInv'
  <2>1. PICK q : Goes(s, q) /\ q.at \in {"off", "fetch"}
    <3> DEFINE q == [Off EXCEPT !.at = "fetch", !.existing = instances,
                                !.rejected = rejections, !.repo = 1, !.page = 1]
    <3>1. q.at = "fetch" /\ Off.at = "off"
      BY DEF Off
    <3> HIDE DEF q
    <3>2. Goes(s, Off) \/ Goes(s, q)
      BY <1>2, Zenon DEF Start, FetchFails, Crash, WriteRejections, q
    <3>3. QED
      BY <3>1, <3>2
  <2>2. FoundInv(q)
    BY <2>1 DEF FoundInv
  <2>3. QED
    BY <2>1, <2>2, OneGoesOn
<1>3. ASSUME NEW s \in Scripts,
             FetchPage(s) \/ SkipCandidate(s) \/ TakeCandidate(s) \/ NextRepo(s)
      PROVE  TestedInv'
  <2>1. PICK q : Goes(s, q) /\ q.at \in {"fetch", "next", "write", "red"}
    BY <1>3, SearchKeeps DEF DatasetInv
  <2>2. FoundInv(q)
    BY <2>1 DEF FoundInv
  <2>3. QED
    BY <2>1, <2>2, OneGoesOn
<1>4. ASSUME NEW s \in Scripts, Salvage(s) \/ Red(s) PROVE TestedInv'
  BY <1>4, RedTests
<1>5. ASSUME NEW s \in Scripts, Green(s) PROVE TestedInv'
  BY <1>5, GreenTests
<1>6. ASSUME NEW s \in Scripts, InstallFails(s) \/ MakeInstance(s) \/ InstanceFails(s)
      PROVE  TestedInv'
  BY <1>6, JudgedAway DEF InstallFails, MakeInstance, InstanceFails
<1>7. ASSUME NEW s \in Scripts, WriteInstances(s) PROVE TestedInv'
  <2> DEFINE q == [proc[s] EXCEPT !.at = "write2"]
  <2>1. Goes(s, q)
    BY <1>7 DEF WriteInstances
  <2>2. q.at = "write2"
    BY Zenon DEF DatasetInv, ScriptsInv, DecisionsInv, Off
  <2> HIDE DEF q
  <2>3. FoundInv(q)
    BY <2>2 DEF FoundInv
  <2>4. QED
    BY <2>1, <2>3, OneGoesOn
<1>8. QED
  BY <1>1, <1>2, <1>3, <1>4, <1>5, <1>6, <1>7 DEF Next, Script, Fault

(* Every test a task asks for was read as failed, in each run before the   *)
(* fix that reported it, unless the tests did not compile there, and as    *)
(* passed after it, itself or as its variants; every test it has to keep   *)
(* was read as passed on both sides.  However flaky the suites, whatever   *)
(* report a run left to the next one, and whichever side raised.           *)
THEOREM TasksAreRedThenGreen == PubSpec => []RedThenGreen
<1>1. PubInit => TestedInv
  <2> SUFFICES ASSUME PubInit, NEW s \in Scripts PROVE FoundInv(proc[s])
    BY DEF TestedInv
  <2>1. proc[s].at = "off"
    BY OffDecides DEF PubInit, Init
  <2>2. QED
    BY <2>1 DEF FoundInv
<1>2. DatasetInv /\ TestedInv /\ [PubNext]_<<vars, pubVars>> => TestedInv'
  <2> SUFFICES ASSUME DatasetInv, TestedInv, [PubNext]_<<vars, pubVars>> PROVE TestedInv'
    OBVIOUS
  <2>1. CASE [Next]_vars
    BY <2>1, TestedStep
  <2>2. ASSUME NEW v \in Versions, Publish(v), ~UNCHANGED vars
        PROVE  UNCHANGED proc
    BY <2>2 DEF Publish, ExportRows, ExportInfo, ExportDies, LoadVersion
  <2>3. CASE UNCHANGED proc
    BY <2>3 DEF TestedInv, FoundInv
  <2>4. QED
    BY <2>1, <2>2, <2>3 DEF PubNext
<1>3. TestedInv => RedThenGreen
  BY DEF TestedInv, FoundInv, RedFound, GreenFound, RedThenGreen
<1>4. QED
  BY <1>1, <1>2, <1>3, PublishedInvariant, PTL DEF PubSpec
=============================================================================
