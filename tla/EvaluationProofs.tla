-------------------------- MODULE EvaluationProofs --------------------------
(***************************************************************************)
(* Theorems about the agent runs and the resumable driver of               *)
(* Evaluation.tla, for any models, instances and lists of keys, any limits *)
(* of a run and any number of crashes.                                     *)
(***************************************************************************)
EXTENDS Evaluation, Lists, TLAPS

LEMMA Limits ==
  WallClock \in Nat /\ WallClock > 0 /\ CallTime \in Nat /\ CommandTime \in Nat
BY LoopAssumption

(* A step is one of the agent's, leaves it alone, or begins or forgets a   *)
(* run.                                                                    *)
LEMMA StepsOfTheAgent ==
  ASSUME [Next]_vars
  PROVE  \/ LoopNext
         \/ UNCHANGED loopVars
         \/ FromNothing /\ stage' \in {"idle", "open", "raised"}
<1>1. CASE Next
  <2>1. StartDriver \/ Skip \/ AgentRaised \/ Evaluate \/ EvaluateRaises \/ Finish
          \/ LoadResults \/ Over => UNCHANGED loopVars
    BY DEF StartDriver, Skip, AgentRaised, Evaluate, EvaluateRaises, Finish, LoadResults,
           Over, vars
  <2>2. Run => FromNothing /\ stage' \in {"open", "raised"}
    BY DEF Run, run_agent
  <2>3. WriteRow \/ Crash => FromNothing /\ stage' = "idle"
    BY DEF WriteRow, Crash, Forgotten
  <2>4. AgentStep => LoopNext
    BY DEF AgentStep
  <2>5. QED
    BY <1>1, <2>1, <2>2, <2>3, <2>4 DEF Next
<1>2. CASE UNCHANGED vars
  BY <1>2 DEF vars
<1>3. QED
  BY <1>1, <1>2
-----------------------------------------------------------------------------
(* The clock of a run. *)

(* A completion call that is made for the fourth time has waited three     *)
(* times since the head of the turn looked at the clock.                   *)
AskInTime ==
  stage = "ask" =>
    \/ attempt = 0 /\ clock < WallClock
    \/ attempt = 1 /\ clock < WallClock + CallTime + 1
    \/ attempt = 2 /\ clock < WallClock + 2 * CallTime + 3
    \/ attempt = 3 /\ clock < WallClock + 3 * CallTime + 7

ClockInv == clock \in Nat /\ AskInTime /\ OneTurnOverAtMost

LEMMA ClockStarts ==
  ASSUME clock = 0, stage # "ask"
  PROVE  ClockInv
BY Limits DEF ClockInv, AskInTime, OneTurnOverAtMost

LEMMA CallInTime ==
  ASSUME ClockInv, stage = "ask", NEW d \in 0..CallTime
  PROVE  /\ clock + d \in Nat
         /\ clock + d < WallClock + 4 * CallTime + 7
BY Limits DEF ClockInv, AskInTime

LEMMA RetryInTime ==
  ASSUME ClockInv, stage = "ask", NEW d \in 0..CallTime, attempt < MAX_RATE_LIMIT_RETRIES,
         clock' = clock + d + Backoff[attempt], attempt' = attempt + 1, stage' = stage
  PROVE  ClockInv'
<1>1. /\ attempt = 0 => Backoff[attempt] = 1
      /\ attempt = 1 => Backoff[attempt] = 2
      /\ attempt = 2 => Backoff[attempt] = 4
  BY DEF Backoff
<1>2. \/ attempt = 0 /\ clock < WallClock
      \/ attempt = 1 /\ clock < WallClock + CallTime + 1
      \/ attempt = 2 /\ clock < WallClock + 2 * CallTime + 3
  BY DEF ClockInv, AskInTime, MAX_RATE_LIMIT_RETRIES
<1>3. clock \in Nat
  BY DEF ClockInv
<1>4. AskInTime'
  BY <1>1, <1>2, <1>3, Limits DEF AskInTime
<1>5. clock' \in Nat /\ OneTurnOverAtMost'
  BY <1>1, <1>2, <1>3, Limits DEF OneTurnOverAtMost
<1>6. QED
  BY <1>4, <1>5 DEF ClockInv

LEMMA ClockOfTheLoop ==
  ASSUME ClockInv, LoopNext
  PROVE  ClockInv'
<1>1. CASE _run_mock_agent
  BY <1>1 DEF ClockInv, AskInTime, OneTurnOverAtMost, _run_mock_agent
<1>2. CASE OpenWorkspace \/ ExtractPatch
  BY <1>2 DEF ClockInv, AskInTime, OneTurnOverAtMost, OpenWorkspace, ExtractPatch
<1>3. CASE BeginTurn
  <2>1. clock' = clock /\ (stage' = "ask" => attempt' = 0 /\ ~LastTurn)
    BY <1>3 DEF BeginTurn
  <2>2. stage' = "ask" => clock < WallClock
    BY <2>1, Limits DEF LastTurn, ClockInv
  <2>3. QED
    BY <2>1, <2>2 DEF ClockInv, AskInTime, OneTurnOverAtMost
<1>4. CASE CallFails
  <2>1. PICK limited \in BOOLEAN, d \in 0..CallTime :
          IF limited /\ attempt < MAX_RATE_LIMIT_RETRIES
          THEN /\ clock' = clock + d + Backoff[attempt]
               /\ attempt' = attempt + 1
               /\ UNCHANGED stage
          ELSE /\ clock' = clock + d
               /\ stage' = "raised"
               /\ UNCHANGED attempt
    BY <1>4 DEF CallFails
  <2>2. stage = "ask"
    BY <1>4 DEF CallFails
  <2>3. CASE limited /\ attempt < MAX_RATE_LIMIT_RETRIES
    BY <2>1, <2>2, <2>3, RetryInTime
  <2>4. CASE ~(limited /\ attempt < MAX_RATE_LIMIT_RETRIES)
    BY <2>1, <2>2, <2>4, CallInTime, Limits DEF ClockInv, AskInTime, OneTurnOverAtMost
  <2>5. QED
    BY <2>3, <2>4
<1>5. CASE ReplyWithoutCommand \/ ReplySubmit
  <2>1. stage = "ask" /\ stage' # "ask" /\ \E d \in 0..CallTime : clock' = clock + d
    BY <1>5 DEF ReplyWithoutCommand, ReplySubmit, CallReturns
  <2>2. QED
    BY <2>1, CallInTime, Limits DEF ClockInv, AskInTime, OneTurnOverAtMost
<1>6. CASE ReplyCommand
  <2>1. /\ stage = "ask" /\ stage' # "ask"
        /\ \E d \in 0..CallTime, e \in 0..CommandTime : clock' = clock + d + e
    BY <1>6 DEF ReplyCommand, CallReturns
  <2>2. QED
    BY <2>1, CallInTime, Limits DEF ClockInv, AskInTime, OneTurnOverAtMost
<1>7. QED
  BY <1>1, <1>2, <1>3, <1>4, <1>5, <1>6 DEF LoopNext

(* A run outlives its wall clock by at most one turn, whatever the limits  *)
(* are and however often the provider answers 429 (loop.py:132-134,        *)
(* 215-230).                                                               *)
THEOREM ClockKept == Spec => []OneTurnOverAtMost
<1>1. Init => ClockInv
  BY ClockStarts DEF Init, LoopInit
<1>2. ClockInv /\ [Next]_vars => ClockInv'
  <2> SUFFICES ASSUME ClockInv, [Next]_vars PROVE ClockInv'
    OBVIOUS
  <2>1. CASE LoopNext
    BY <2>1, ClockOfTheLoop
  <2>2. CASE UNCHANGED loopVars
    BY <2>2 DEF loopVars, ClockInv, AskInTime, OneTurnOverAtMost
  <2>3. CASE FromNothing /\ stage' \in {"idle", "open", "raised"}
    BY <2>3, Limits DEF FromNothing, ClockInv, AskInTime, OneTurnOverAtMost
  <2>4. QED
    BY <2>1, <2>2, <2>3, StepsOfTheAgent
<1>3. ClockInv => OneTurnOverAtMost
  BY DEF ClockInv
<1>4. QED
  BY <1>1, <1>2, <1>3, PTL DEF Spec
-----------------------------------------------------------------------------
(* What counts as submitted. *)

(* `submitted` is set on the way out of the loop, where there was a diff,  *)
(* and nothing touches the workspace before the second diff.               *)
SubmitInv ==
  /\ stage \in {"idle", "open", "turn", "ask"} => ~submitted
  /\ stage = "extract" /\ submitted => SomethingToSubmit
  /\ SubmittedIsNotEmpty

LEMMA SubmitOfTheLoop ==
  ASSUME SubmitInv, LoopNext
  PROVE  SubmitInv'
<1>1. CASE _run_mock_agent
  <2>1. model' # "openrouter" /\ stage' \in {"done", "raised"}
    BY <1>1 DEF _run_mock_agent
  <2>2. QED
    BY <2>1 DEF SubmitInv, SubmittedIsNotEmpty
<1>2. CASE OpenWorkspace \/ BeginTurn \/ CallFails \/ ReplyWithoutCommand \/ ReplyCommand
  <2>1. /\ stage \in {"open", "turn", "ask"} /\ submitted' = submitted
        /\ stage' \in {"turn", "ask", "extract", "raised"}
    BY <1>2 DEF OpenWorkspace, BeginTurn, CallFails, ReplyWithoutCommand, ReplyCommand,
                CallReturns
  <2>2. QED
    BY <2>1 DEF SubmitInv, SubmittedIsNotEmpty
<1>3. CASE ReplySubmit
  <2>1. /\ stage = "ask" /\ ws' = ws
        /\ \/ SomethingToSubmit /\ stage' = "extract"
           \/ submitted' = submitted /\ stage' = "turn"
    BY <1>3 DEF ReplySubmit, CallReturns
  <2>2. SomethingToSubmit' = SomethingToSubmit
    BY <2>1 DEF SomethingToSubmit, extract_patch, Differs, Tracked, Renamed
  <2>3. QED
    BY <2>1, <2>2 DEF SubmitInv, SubmittedIsNotEmpty
<1>4. CASE ExtractPatch
  <2>1. /\ stage = "extract" /\ stage' = "done" /\ submitted' = submitted
        /\ patch' = extract_patch(ws)
    BY <1>4 DEF ExtractPatch
  <2>2. QED
    BY <2>1 DEF SubmitInv, SubmittedIsNotEmpty, SomethingToSubmit
<1>5. QED
  BY <1>1, <1>2, <1>3, <1>4 DEF LoopNext

(* A run of a real model that counts as submitted has a patch, for every   *)
(* instance and whatever its commands do (loop.py:168-171, 202).           *)
THEOREM SubmittedHasPatch == Spec => []SubmittedIsNotEmpty
<1>1. Init => SubmitInv
  BY DEF Init, LoopInit, SubmitInv, SubmittedIsNotEmpty
<1>2. SubmitInv /\ [Next]_vars => SubmitInv'
  <2> SUFFICES ASSUME SubmitInv, [Next]_vars PROVE SubmitInv'
    OBVIOUS
  <2>1. CASE LoopNext
    BY <2>1, SubmitOfTheLoop
  <2>2. CASE UNCHANGED loopVars
    <3>1. SomethingToSubmit' = SomethingToSubmit
      BY <2>2 DEF loopVars, SomethingToSubmit, extract_patch, Differs, Tracked, Renamed
    <3>2. QED
      BY <2>2, <3>1 DEF loopVars, SubmitInv, SubmittedIsNotEmpty
  <2>3. CASE FromNothing /\ stage' \in {"idle", "open", "raised"}
    BY <2>3 DEF FromNothing, SubmitInv, SubmittedIsNotEmpty
  <2>4. QED
    BY <2>1, <2>2, <2>3, StepsOfTheAgent
<1>3. SubmitInv => SubmittedIsNotEmpty
  BY DEF SubmitInv
<1>4. QED
  BY <1>1, <1>2, <1>3, PTL DEF Spec
-----------------------------------------------------------------------------
(* The results file and the driver that goes on from it. *)

LEMMA KeysTyped ==
  ASSUME NEW ks \in KeyLists
  PROVE  /\ Len(ks) \in Nat
         /\ \A k, l \in 1..Len(ks) : ks[k] = ks[l] => k = l
BY EvaluationAssumption

KeySet == {keys[k] : k \in 1..Len(keys)}

NoKeyTwice == \A j, k \in 1..Len(rows) : rows[j].key = rows[k].key => j = k

FileInv ==
  /\ keys \in KeyLists /\ IsSequence(rows)
  /\ Recorded \subseteq KeySet /\ already_done \subseteq Recorded
  /\ NoKeyTwice

(* Behind the driver every key has its row; before it only those have one  *)
(* that were there when it started.                                        *)
PosInv ==
  driver \in {"run", "row"} =>
    /\ pos \in 1..(Len(keys) + 1)
    /\ \A k \in 1..Len(keys) :
         /\ k < pos => keys[k] \in Recorded
         /\ k >= pos /\ keys[k] \in Recorded => keys[k] \in already_done

InHand ==
  driver = "row" \/ (driver = "run" /\ stage # "idle") =>
    pos <= Len(keys) /\ keys[pos] \notin already_done

StageInv ==
  /\ driver \in {"off", "finished"} => stage = "idle"
  /\ driver = "row" => stage \in {"raised", "done"}
  /\ driver = "broken" => stage \in {"idle", "done"}

ProgressInv ==
  /\ FileInv /\ PosInv /\ InHand /\ StageInv
  /\ driver = "finished" => KeySet \subseteq Recorded

LEMMA FileStays ==
  ASSUME FileInv, keys' = keys, rows' = rows, already_done' = already_done
  PROVE  FileInv' /\ Recorded' = Recorded /\ KeySet' = KeySet
<1>1. Recorded' = Recorded /\ KeySet' = KeySet
  BY DEF Recorded, KeySet
<1>2. NoKeyTwice'
  BY DEF FileInv, NoKeyTwice
<1>3. QED
  BY <1>1, <1>2 DEF FileInv

(* The key in hand has no row. *)
LEMMA KeyInHand ==
  ASSUME ProgressInv, driver \in {"run", "row"}, pos <= Len(keys),
         keys[pos] \notin already_done
  PROVE  pos \in 1..Len(keys) /\ keys[pos] \notin Recorded
<1>1. Len(keys) \in Nat
  BY KeysTyped DEF ProgressInv, FileInv
<1>2. pos \in 1..Len(keys)
  BY <1>1 DEF ProgressInv, PosInv
<1>3. QED
  BY <1>1, <1>2 DEF ProgressInv, PosInv

LEMMA ProgressOfTheRow ==
  ASSUME ProgressInv, WriteRow
  PROVE  ProgressInv' /\ SubSeq(rows', 1, Len(rows)) = rows
<1> DEFINE e == [key |-> keys[pos], status |-> result.status,
                 resolved |-> result.resolved, cost |-> result.cost]
<1>1. /\ driver = "row" /\ driver' = "run" /\ pos' = pos + 1 /\ stage' = "idle"
      /\ keys' = keys /\ already_done' = already_done /\ rows' = Append(rows, e)
  BY DEF WriteRow, Forgotten
<1>2. pos \in 1..Len(keys) /\ keys[pos] \notin Recorded
  BY <1>1, KeyInHand DEF ProgressInv, InHand
<1>3. /\ Len(keys) \in Nat
      /\ \A k, l \in 1..Len(keys) : keys[k] = keys[l] => k = l
  BY KeysTyped DEF ProgressInv, FileInv
<1>4. e.key = keys[pos]
  OBVIOUS
<1> HIDE DEF e
<1>5. /\ IsSequence(rows') /\ Len(rows) \in Nat
      /\ Len(rows') = Len(rows) + 1
      /\ \A k \in 1..Len(rows) : rows'[k] = rows[k]
      /\ rows'[Len(rows) + 1] = e
      /\ SubSeq(rows', 1, Len(rows)) = rows
  BY <1>1, Appended DEF ProgressInv, FileInv
<1>6. Recorded' = Recorded \union {keys[pos]}
  <2>1. ASSUME NEW k \in 1..Len(rows') PROVE rows'[k].key \in Recorded \union {keys[pos]}
    <3>1. k \in 1..Len(rows) \/ k = Len(rows) + 1
      BY <1>5
    <3>2. QED
      BY <3>1, <1>4, <1>5 DEF Recorded
  <2>2. ASSUME NEW k \in 1..Len(rows) PROVE rows[k].key \in Recorded'
    <3>1. k \in 1..Len(rows') /\ rows'[k] = rows[k]
      BY <1>5
    <3>2. QED
      BY <3>1 DEF Recorded
  <2>3. keys[pos] \in Recorded'
    <3>1. Len(rows) + 1 \in 1..Len(rows')
      BY <1>5
    <3>2. QED
      BY <3>1, <1>4, <1>5 DEF Recorded
  <2>4. QED
    BY <2>1, <2>2, <2>3 DEF Recorded
<1>7. NoKeyTwice'
  <2> SUFFICES ASSUME NEW j \in 1..Len(rows'), NEW k \in 1..Len(rows'),
                      rows'[j].key = rows'[k].key
               PROVE  j = k
    BY DEF NoKeyTwice
  <2>1. /\ j \in 1..Len(rows) \/ j = Len(rows) + 1
        /\ k \in 1..Len(rows) \/ k = Len(rows) + 1
    BY <1>5
  <2>2. \A i \in 1..Len(rows) : rows'[i].key \in Recorded
    BY <1>5 DEF Recorded
  <2>3. CASE j \in 1..Len(rows) /\ k \in 1..Len(rows)
    BY <2>3, <1>5 DEF ProgressInv, FileInv, NoKeyTwice
  <2>4. QED
    BY <2>1, <2>2, <2>3, <1>2, <1>4, <1>5
<1>8. FileInv'
  <2>1. KeySet' = KeySet /\ keys[pos] \in KeySet
    BY <1>1, <1>2 DEF KeySet
  <2>2. QED
    BY <2>1, <1>1, <1>5, <1>6, <1>7 DEF ProgressInv, FileInv
<1>9. PosInv'
  <2>1. pos' \in 1..(Len(keys) + 1)
    BY <1>1, <1>2, <1>3
  <2>2. ASSUME NEW k \in 1..Len(keys), k < pos' PROVE keys[k] \in Recorded'
    <3>1. k < pos \/ k = pos
      BY <2>2, <1>1, <1>2, <1>3
    <3>2. QED
      BY <3>1, <1>1, <1>6 DEF ProgressInv, PosInv
  <2>3. ASSUME NEW k \in 1..Len(keys), k >= pos', keys[k] \in Recorded'
        PROVE  keys[k] \in already_done
    <3>1. k >= pos /\ k # pos
      BY <2>3, <1>1, <1>2, <1>3
    <3>2. keys[k] \in Recorded
      BY <3>1, <2>3, <1>2, <1>3, <1>6
    <3>3. QED
      BY <3>1, <3>2, <1>1 DEF ProgressInv, PosInv
  <2>4. QED
    BY <2>1, <2>2, <2>3, <1>1 DEF PosInv
<1>10. QED
  BY <1>1, <1>5, <1>8, <1>9 DEF ProgressInv, InHand, StageInv

LEMMA LoopIsBusy ==
  ASSUME LoopNext
  PROVE  stage \in {"open", "turn", "ask", "extract"} /\ stage' # "idle"
<1>1. _run_mock_agent => stage = "open" /\ stage' # "idle"
  BY DEF _run_mock_agent
<1>2. OpenWorkspace \/ BeginTurn \/ ExtractPatch
        => stage \in {"open", "turn", "extract"} /\ stage' # "idle"
  BY DEF OpenWorkspace, BeginTurn, ExtractPatch
<1>3. CallFails => stage = "ask" /\ stage' # "idle"
  BY DEF CallFails
<1>4. ReplyWithoutCommand \/ ReplySubmit \/ ReplyCommand => stage = "ask" /\ stage' # "idle"
  BY DEF ReplyWithoutCommand, ReplySubmit, ReplyCommand, CallReturns
<1>5. QED
  BY <1>1, <1>2, <1>3, <1>4 DEF LoopNext

LEMMA ProgressOfTheDriver ==
  ASSUME ProgressInv, [Next]_vars
  PROVE  ProgressInv' /\ SubSeq(rows', 1, Len(rows)) = rows
<1>0. /\ Len(keys) \in Nat
      /\ IsSequence(rows)
      /\ SubSeq(rows, 1, Len(rows)) = rows
  BY KeysTyped, WholeSubSeq DEF ProgressInv, FileInv
<1>1. CASE StartDriver
  <2>1. keys' = keys /\ rows' = rows /\ stage' = stage /\ stage = "idle"
    BY <1>1 DEF StartDriver, loopVars, ProgressInv, StageInv
  <2>2. Recorded' = Recorded /\ KeySet' = KeySet /\ NoKeyTwice'
    BY <2>1 DEF Recorded, KeySet, NoKeyTwice, ProgressInv, FileInv
  <2>3. CASE torn
    <3>1. driver' = "broken" /\ already_done' = already_done
      BY <1>1, <2>3 DEF StartDriver
    <3>2. QED
      BY <3>1, <2>1, <2>2, <1>0 DEF ProgressInv, FileInv, PosInv, InHand, StageInv
  <2>4. CASE ~torn
    <3>1. driver' = "run" /\ already_done' = Recorded /\ pos' = 1
      BY <1>1, <2>4 DEF StartDriver
    <3>2. FileInv'
      BY <3>1, <2>1, <2>2 DEF ProgressInv, FileInv
    <3>3. PosInv'
      BY <3>1, <2>1, <2>2, <1>0 DEF PosInv
    <3>4. QED
      BY <3>1, <3>2, <3>3, <2>1, <1>0 DEF ProgressInv, InHand, StageInv
  <2>5. QED
    BY <2>3, <2>4
<1>2. CASE Skip
  <2>1. /\ driver = "run" /\ stage = "idle" /\ pos <= Len(keys)
        /\ keys[pos] \in already_done /\ pos' = pos + 1
        /\ UNCHANGED <<stage, keys, driver, already_done, rows>>
    BY <1>2 DEF Skip, AlreadyDone, loopVars
  <2>2. FileInv' /\ Recorded' = Recorded
    BY <2>1, FileStays DEF ProgressInv
  <2>3. PosInv'
    <3>1. pos \in 1..Len(keys) /\ keys[pos] \in Recorded
      BY <2>1, <1>0 DEF ProgressInv, PosInv, FileInv
    <3>2. \A k \in 1..Len(keys) : k < pos + 1 => k < pos \/ k = pos
      BY <3>1, <1>0
    <3>3. \A k \in 1..Len(keys) : k >= pos + 1 => k >= pos
      BY <3>1, <1>0
    <3>4. pos' \in 1..(Len(keys) + 1)
      BY <3>1, <2>1, <1>0
    <3>5. QED
      BY <3>1, <3>2, <3>3, <3>4, <2>1, <2>2 DEF ProgressInv, PosInv
  <2>4. QED
    BY <2>1, <2>2, <2>3, <1>0 DEF ProgressInv, InHand, StageInv
<1>3. CASE Run
  <2>1. /\ driver = "run" /\ pos <= Len(keys) /\ keys[pos] \notin already_done
        /\ UNCHANGED <<keys, driver, pos, already_done, rows>>
    BY <1>3 DEF Run, AlreadyDone, driverVars
  <2>2. FileInv' /\ Recorded' = Recorded
    BY <2>1, FileStays DEF ProgressInv
  <2>3. QED
    BY <2>1, <2>2, <1>0 DEF ProgressInv, PosInv, InHand, StageInv
<1>4. CASE AgentStep
  <2>1. /\ stage \in {"open", "turn", "ask", "extract"} /\ stage' # "idle"
        /\ UNCHANGED <<keys, driver, pos, already_done, rows>>
    BY <1>4, LoopIsBusy DEF AgentStep, driverVars
  <2>2. FileInv' /\ Recorded' = Recorded
    BY <2>1, FileStays DEF ProgressInv
  <2>3. QED
    BY <2>1, <2>2, <1>0 DEF ProgressInv, PosInv, InHand, StageInv
<1>5. CASE AgentRaised \/ Evaluate
  <2>1. /\ driver = "run" /\ stage \in {"raised", "done"} /\ driver' = "row"
        /\ UNCHANGED <<stage, keys, pos, already_done, rows>>
    BY <1>5 DEF AgentRaised, Evaluate, loopVars
  <2>2. FileInv' /\ Recorded' = Recorded
    BY <2>1, FileStays DEF ProgressInv
  <2>3. QED
    BY <2>1, <2>2, <1>0 DEF ProgressInv, PosInv, InHand, StageInv
<1>6. CASE EvaluateRaises
  <2>1. /\ stage = "done" /\ driver' = "broken"
        /\ UNCHANGED <<stage, keys, pos, already_done, rows>>
    BY <1>6 DEF EvaluateRaises, loopVars
  <2>2. FileInv' /\ Recorded' = Recorded
    BY <2>1, FileStays DEF ProgressInv
  <2>3. QED
    BY <2>1, <2>2, <1>0 DEF ProgressInv, PosInv, InHand, StageInv
<1>7. CASE WriteRow
  BY <1>7, ProgressOfTheRow
<1>8. CASE Finish
  <2>1. /\ driver = "run" /\ stage = "idle" /\ pos > Len(keys) /\ driver' = "finished"
        /\ UNCHANGED <<stage, keys, pos, already_done, rows>>
    BY <1>8 DEF Finish, loopVars
  <2>2. FileInv' /\ Recorded' = Recorded /\ KeySet' = KeySet
    BY <2>1, FileStays DEF ProgressInv
  <2>3. KeySet \subseteq Recorded
    <3>1. \A k \in 1..Len(keys) : k < pos
      BY <2>1, <1>0 DEF ProgressInv, PosInv
    <3>2. QED
      BY <3>1, <2>1 DEF ProgressInv, PosInv, KeySet
  <2>4. QED
    BY <2>1, <2>2, <2>3, <1>0 DEF ProgressInv, PosInv, InHand, StageInv
<1>9. CASE Crash
  <2>1. driver' = "off" /\ stage' = "idle" /\ UNCHANGED <<keys, pos, already_done, rows>>
    BY <1>9 DEF Crash, Forgotten
  <2>2. FileInv' /\ Recorded' = Recorded
    BY <2>1, FileStays DEF ProgressInv
  <2>3. QED
    BY <2>1, <2>2, <1>0 DEF ProgressInv, PosInv, InHand, StageInv
<1>10. CASE LoadResults \/ Over \/ UNCHANGED vars
  <2>1. UNCHANGED <<stage, keys, driver, pos, already_done, rows>>
    BY <1>10 DEF LoadResults, Over, vars, loopVars, driverVars
  <2>2. FileInv' /\ Recorded' = Recorded /\ KeySet' = KeySet
    BY <2>1, FileStays DEF ProgressInv
  <2>3. QED
    BY <2>1, <2>2, <1>0 DEF ProgressInv, PosInv, InHand, StageInv
<1>11. QED
  BY <1>1, <1>2, <1>3, <1>4, <1>5, <1>6, <1>7, <1>8, <1>9, <1>10 DEF Next

LEMMA ProgressStarts ==
  ASSUME Init
  PROVE  ProgressInv
<1>1. /\ keys \in KeyLists /\ rows = <<>> /\ already_done = {} /\ driver = "off"
      /\ stage = "idle"
  BY DEF Init, LoopInit
<1>2. Recorded = {} /\ NoKeyTwice /\ IsSequence(rows)
  <2>1. rows \in Seq({}) /\ Len(rows) = 0
    BY <1>1
  <2>2. QED
    BY <2>1 DEF Recorded, NoKeyTwice, IsSequence
<1>3. QED
  BY <1>1, <1>2 DEF ProgressInv, FileInv, PosInv, InHand, StageInv

(* A driver that ends by itself leaves one row for every key of its        *)
(* command line, whatever the keys are and however often it died before    *)
(* (run_driver.py:56-99).                                                  *)
THEOREM AllKeysRecorded == Spec => []EveryKeyRecorded
<1>1. ProgressInv => EveryKeyRecorded
  <2> SUFFICES ASSUME ProgressInv, driver = "finished" PROVE EveryKeyRecorded
    BY DEF EveryKeyRecorded
  <2>1. Recorded = KeySet
    BY DEF ProgressInv, FileInv
  <2>2. Len(rows) \in Nat /\ Len(keys) \in Nat
    BY Appended, KeysTyped DEF ProgressInv, FileInv
  <2> DEFINE f == [k \in 1..Len(rows) |-> rows[k].key]
             g == [k \in 1..Len(keys) |-> keys[k]]
  <2>3. Enumerates(f, Len(rows), KeySet)
    <3>1. f \in [1..Len(rows) -> KeySet]
      BY <2>1 DEF Recorded
    <3>2. \A t \in KeySet : \E k \in 1..Len(rows) : f[k] = t
      BY <2>1 DEF Recorded
    <3>3. \A j, k \in 1..Len(rows) : f[j] = f[k] => j = k
      BY DEF ProgressInv, FileInv, NoKeyTwice
    <3>4. QED
      BY <3>1, <3>2, <3>3 DEF Enumerates
  <2>4. Enumerates(g, Len(keys), KeySet)
    <3>1. /\ g \in [1..Len(keys) -> KeySet]
          /\ \A t \in KeySet : \E k \in 1..Len(keys) : g[k] = t
      BY DEF KeySet
    <3>2. \A j, k \in 1..Len(keys) : g[j] = g[k] => j = k
      BY KeysTyped DEF ProgressInv, FileInv
    <3>3. QED
      BY <3>1, <3>2 DEF Enumerates
  <2> HIDE DEF f, g
  <2>5. Len(rows) = Len(keys)
    BY <2>2, <2>3, <2>4, SameLength
  <2>6. QED
    BY <2>1, <2>5 DEF EveryKeyRecorded, KeySet
<1>2. QED
  BY <1>1, ProgressStarts, ProgressOfTheDriver, PTL DEF Spec

(* A restarted driver begins no run for a key that has its row, and no row *)
(* is ever lost or changed (run_driver.py:56-76).                          *)
THEOREM NothingPaidTwice == Spec => ResumesWhereItStopped
<1>1. ASSUME ProgressInv, [Next]_vars
      PROVE  [/\ stage = "idle" /\ stage' # "idle" => keys[pos] \notin Recorded
              /\ SubSeq(rows', 1, Len(rows)) = rows]_vars
  <2>1. SubSeq(rows', 1, Len(rows)) = rows
    BY <1>1, ProgressOfTheDriver
  <2>2. ASSUME stage = "idle", stage' # "idle" PROVE keys[pos] \notin Recorded
    <3>1. ~LoopNext /\ ~UNCHANGED loopVars
      BY <2>2, LoopIsBusy DEF loopVars
    <3>2. ~(WriteRow \/ Crash)
      BY <2>2 DEF WriteRow, Crash, Forgotten
    <3>3. Run
      BY <1>1, <3>1, <3>2 DEF Next, vars, StartDriver, Skip, AgentStep, AgentRaised, Evaluate,
            EvaluateRaises, Finish, LoadResults, Over
    <3>4. QED
      BY <1>1, <3>3, KeyInHand DEF Run, AlreadyDone
  <2>3. QED
    BY <2>1, <2>2
<1>2. QED
  BY <1>1, ProgressStarts, ProgressOfTheDriver, PTL DEF Spec, ResumesWhereItStopped
-----------------------------------------------------------------------------
(* What a patch does to a tree. *)

(* What every change to a file keeps of it, a patch keeps, whichever of    *)
(* its attempts went through.                                              *)
LEMMA PatchKeeps ==
  ASSUME NEW p \in Paths, NEW S, NEW tree, NEW some, tree[p] \in S,
         \A c \in some : c.path = p =>
           \A x \in S, fuzzy \in BOOLEAN : Patched(x, c, fuzzy) \in S
  PROVE  try_apply_patch(tree, some).tree[p] \in S
<1>1. ASSUME NEW t, t[p] \in S, NEW fuzzy \in BOOLEAN
      PROVE  Attempt(t, some, fuzzy).tree[p] \in S
  <2>1. Attempt(t, some, fuzzy).tree[p] =
          (IF \E c \in some : c.path = p
           THEN Patched(t[p], CHOOSE c \in some : c.path = p, fuzzy) ELSE t[p])
    BY DEF Attempt
  <2>2. CASE \E c \in some : c.path = p
    <3> DEFINE d == CHOOSE c \in some : c.path = p
    <3>1. d \in some /\ d.path = p
      BY <2>2
    <3> HIDE DEF d
    <3>2. Patched(t[p], d, fuzzy) \in S
      BY <1>1, <3>1
    <3>3. QED
      BY <2>1, <2>2, <3>2 DEF d
  <2>3. CASE ~\E c \in some : c.path = p
    BY <1>1, <2>1, <2>3
  <2>4. QED
    BY <2>2, <2>3
<1> DEFINE strict == Attempt(tree, some, FALSE)
           fuzzy == Attempt(strict.tree, some, TRUE)
<1>2. strict.tree[p] \in S
  BY <1>1
<1>3. fuzzy.tree[p] \in S
  BY <1>1, <1>2
<1>4. try_apply_patch(tree, some).tree \in {tree, strict.tree, fuzzy.tree}
  BY DEF try_apply_patch
<1> HIDE DEF strict, fuzzy
<1>5. QED
  BY <1>2, <1>3, <1>4

LEMMA PatchSpares ==
  ASSUME NEW p \in Paths, NEW tree, NEW some, \A c \in some : c.path # p
  PROVE  try_apply_patch(tree, some).tree[p] = tree[p]
<1>1. PICK S : S = {tree[p]}
  OBVIOUS
<1>2. try_apply_patch(tree, some).tree[p] \in S
  <2>1. tree[p] \in S
    BY <1>1
  <2>2. QED
    BY <2>1, PatchKeeps
<1>3. QED
  BY <1>1, <1>2

(* The changes of a workspace's diff. *)
LEMMA DiffOfWorkspace ==
  ASSUME NEW w, NEW c \in extract_patch(w)
  PROVE  /\ c.path \in Differs(w)
         /\ c.old = w.head[c.path] /\ c.new = w.tree[c.path] /\ c.old # c.new
         /\ c.renamed <=> Renamed(w) /\ is_test_path(c.path)
<1>1. PICK p \in Differs(w) :
        c = Change(p, w.head[p], w.tree[p], Renamed(w) /\ is_test_path(p))
  BY DEF extract_patch
<1>2. /\ c.path = p /\ c.old = w.head[p] /\ c.new = w.tree[p]
      /\ c.renamed = (Renamed(w) /\ is_test_path(p))
  BY <1>1, Zenon DEF Change
<1>3. w.tree[p] # w.head[p]
  BY DEF Differs
<1>4. QED
  BY <1>2, <1>3

(* Tests an agent moved away stay away. *)
LEMMA MovedAway ==
  ASSUME NEW c, c.renamed, c.new = Absent, c.old # Absent,
         NEW content \in {{}, Absent}, NEW fuzzy \in BOOLEAN
  PROVE  Patched(content, c, fuzzy) \in {{}, Absent}
<1>1. CASE content = {}
  <2>1. Absent # {}
    BY DEF Absent
  <2>2. CASE Forward(content, c, fuzzy)
    <3>1. c.old = {}
      BY <1>1, <2>1, <2>2 DEF Forward, Matches, Absent
    <3>2. Patched(content, c, fuzzy) = Absent
      BY <1>1, <2>2, <3>1 DEF Patched
    <3>3. QED
      BY <3>2
  <2>3. CASE ~Forward(content, c, fuzzy)
    <3>1. ~Backward(content, c, fuzzy)
      BY <1>1, <2>1 DEF Backward, Matches
    <3>2. QED
      BY <2>3, <3>1 DEF Patched
  <2>4. QED
    BY <2>2, <2>3
<1>2. CASE content = Absent
  <2>1. ~Forward(content, c, fuzzy)
    BY <1>2 DEF Forward, Matches
  <2>2. content \intersect Absent = Absent
    BY <1>2
  <2>3. QED
    BY <1>2, <2>1, <2>2 DEF Patched
<1>3. QED
  BY <1>1, <1>2

(* Whatever the patch did to the tests, after the reset they are those of  *)
(* the base commit or are not there, and nothing else passes for a test.   *)
LEMMA ResetTests ==
  ASSUME NEW w, NEW tree, tree["tests"] = {}, tree["moved"] = Absent,
         NEW candidate, candidate = extract_patch(w),
         NEW reset, reset = restore_paths(try_apply_patch(tree, candidate).tree,
                                          TestFiles(candidate))
  PROVE  reset["tests"] \in {{}, Absent} /\ reset["moved"] = Absent
<1>0. /\ "tests" \in Paths /\ "moved" \in Paths
      /\ BaseTree["tests"] = {} /\ BaseTree["moved"] = Absent
      /\ is_test_path("tests") /\ is_test_path("moved")
  BY DEF Paths, BaseTree, is_test_path
<1>1. ASSUME NEW p \in {"tests", "moved"}, NEW c \in candidate, c.path = p,
             ~(c.renamed /\ c.new = Absent)
      PROVE  p \in TestFiles(candidate)
  BY <1>0, <1>1 DEF TestFiles, diff_touched_paths
<1> DEFINE applied == try_apply_patch(tree, candidate).tree
<1>2. ASSUME NEW p \in {"tests", "moved"}
      PROVE  reset[p] = IF p \in TestFiles(candidate) THEN BaseTree[p] ELSE applied[p]
  BY <1>0 DEF restore_paths
<1>3. reset["moved"] = Absent
  <2>1. CASE \E c \in candidate : c.path = "moved"
    <3>1. PICK c \in candidate : c.path = "moved"
      BY <2>1
    <3>2. /\ c.old = w.head["moved"] /\ c.new # c.old
          /\ c.renamed => w.head["moved"] = Absent
      BY <3>1, DiffOfWorkspace DEF Renamed
    <3>3. "moved" \in TestFiles(candidate)
      BY <1>1, <3>1, <3>2
    <3>4. QED
      BY <1>0, <1>2, <3>3
  <2>2. CASE \A c \in candidate : c.path # "moved"
    <3>1. applied["moved"] = Absent
      BY <1>0, <2>2, PatchSpares
    <3> HIDE DEF applied
    <3>2. QED
      BY <1>0, <1>2, <3>1
  <2>3. QED
    BY <2>1, <2>2
<1>4. reset["tests"] \in {{}, Absent}
  <2>1. CASE "tests" \in TestFiles(candidate)
    BY <1>0, <1>2, <2>1
  <2>2. CASE "tests" \notin TestFiles(candidate)
    <3>1. ASSUME NEW c \in candidate, c.path = "tests"
          PROVE  c.renamed /\ c.new = Absent /\ c.old # Absent
      <4>1. c.renamed /\ c.new = Absent
        BY <1>1, <2>2, <3>1
      <4>2. c.old # c.new
        BY DiffOfWorkspace
      <4>3. QED
        BY <4>1, <4>2
    <3>2. applied["tests"] \in {{}, Absent}
      <4>1. PICK S : S = {{}, Absent}
        OBVIOUS
      <4>2. tree["tests"] \in S
        BY <4>1
      <4>3. ASSUME NEW c \in candidate, c.path = "tests", NEW x \in S, NEW fuzzy \in BOOLEAN
            PROVE  Patched(x, c, fuzzy) \in S
        BY <3>1, <4>1, <4>3, MovedAway
      <4>4. try_apply_patch(tree, candidate).tree["tests"] \in S
        BY <1>0, <4>2, <4>3, PatchKeeps
      <4>5. QED
        BY <4>1, <4>4
    <3> HIDE DEF applied
    <3>3. QED
      BY <1>2, <2>2, <3>2
  <2>3. QED
    BY <2>1, <2>2
<1>5. QED
  BY <1>3, <1>4

(* The answer key goes in where the tests of the base commit are. *)
LEMMA KeyGoesIn ==
  ASSUME NEW tree, tree["tests"] \in {{}, Absent},
         NEW injected, injected = try_apply_patch(tree, test_patch), injected.ok
  PROVE  /\ injected.tree["tests"] = {"key"}
         /\ \A p \in Paths \ {"tests"} : injected.tree[p] = tree[p]
<1> DEFINE c == Change("tests", {}, {"key"}, FALSE)
<1>1. /\ test_patch = {c} /\ c.path = "tests" /\ c.old = {} /\ c.new = {"key"}
      /\ "tests" \in Paths /\ Absent # {} /\ {"key"} # Absent
  BY DEF test_patch, Change, Paths, Absent
<1> HIDE DEF c
<1>2. \A p \in Paths \ {"tests"} : injected.tree[p] = tree[p]
  <2>1. \A p \in Paths \ {"tests"} : \A d \in test_patch : d.path # p
    BY <1>1
  <2>2. QED
    BY <2>1, PatchSpares
<1>3. CASE tree["tests"] = {}
  <2> DEFINE strict == Attempt(tree, test_patch, FALSE)
  <2>1. Forward(tree["tests"], c, FALSE)
    BY <1>1, <1>3 DEF Forward, Matches
  <2>2. strict.ok
    BY <1>1, <2>1 DEF Attempt
  <2>3. strict.tree["tests"] = Patched(tree["tests"], c, FALSE)
    BY <1>1 DEF Attempt
  <2>4. Patched(tree["tests"], c, FALSE) = {"key"}
    BY <1>1, <1>3, <2>1 DEF Patched
  <2>5. injected.tree = strict.tree
    BY <1>1, <2>2 DEF try_apply_patch
  <2>6. QED
    BY <1>2, <2>3, <2>4, <2>5
<1>4. CASE tree["tests"] = Absent
  <2>1. ASSUME NEW fuzzy \in BOOLEAN
        PROVE  ~Forward(Absent, c, fuzzy) /\ ~Backward(Absent, c, fuzzy)
    BY <1>1 DEF Forward, Backward, Matches
  <2>2. ASSUME NEW t, t["tests"] = Absent, NEW fuzzy \in BOOLEAN
        PROVE  /\ ~Attempt(t, test_patch, fuzzy).ok
               /\ Attempt(t, test_patch, fuzzy).tree["tests"] = Absent
    BY <1>1, <2>1, <2>2 DEF Attempt, Patched
  <2> DEFINE strict == Attempt(tree, test_patch, FALSE)
             again == Attempt(strict.tree, test_patch, TRUE)
  <2>3. ~strict.ok /\ strict.tree["tests"] = Absent
    BY <1>4, <2>2
  <2>4. ~again.ok
    BY <2>2, <2>3
  <2>5. injected.ok = again.ok
    BY <1>1, <2>3 DEF try_apply_patch
  <2>6. QED
    BY <2>4, <2>5
<1>5. QED
  BY <1>3, <1>4

LEMMA Instanced ==
  ASSUME NEW inst \in Instances
  PROVE  /\ inst.language \in {"typescript", "python", "java"}
         /\ \A p \in inst.gold : p \in Paths /\ ~is_test_path(p)
BY InstanceAssumption

(* What a test run in a fresh checkout leaves to be parsed. *)
LEMMA FreshRun ==
  ASSUME NEW inst \in Instances, NEW env, NEW fresh, NEW r,
         NEW ran, ran = run_tests(inst, env, NoReport, fresh, r)
  PROVE  /\ ran.report \in {NoReport, fresh}
         /\ ran.raised \in {"nothing", "TimeoutError", "CompileFailure", "RuntimeError"}
         /\ ran.raised = "nothing" => ran.report = fresh
         /\ ran.raised = "CompileFailure" => r = "marked" /\ inst.language # "typescript"
<1>1. ASSUME NEW left \in {NoReport, fresh}, NEW marked \in {"CompileFailure", "RuntimeError"},
             NEW out, out = Read(left, r, marked)
      PROVE  /\ out.report \in {NoReport, fresh}
             /\ out.raised \in {"nothing", "TimeoutError", "CompileFailure", "RuntimeError"}
             /\ out.raised = "nothing" => out.report = fresh
             /\ out.raised = "CompileFailure" => r = "marked" /\ marked = "CompileFailure"
  <2>1. CASE r = "timeout"
    BY <1>1, <2>1 DEF Read
  <2>2. CASE r # "timeout"
    <3>1. /\ out.report = left
          /\ out.raised = IF left # NoReport THEN "nothing"
                          ELSE IF r = "marked" THEN marked ELSE "RuntimeError"
      BY <1>1, <2>2 DEF Read
    <3>2. QED
      BY <3>1
  <2>3. QED
    BY <2>1, <2>2
<1>2. CASE inst.language = "typescript"
  <2>1. PICK left \in {NoReport, fresh} : ran = Read(left, r, "RuntimeError")
    <3>1. ran = ts_run_tests(env, NoReport, fresh, r)
      BY <1>2 DEF run_tests
    <3>2. QED
      BY <3>1 DEF ts_run_tests
  <2>2. QED
    BY <1>1, <2>1
<1>3. CASE inst.language \in {"python", "java"}
  <2>1. PICK left \in {NoReport, fresh} : ran = Read(left, r, "CompileFailure")
    <3>1. ran \in {py_run_tests(NoReport, fresh, r), java_run_tests(NoReport, fresh, r)}
      BY <1>3 DEF run_tests
    <3>2. QED
      BY <3>1 DEF py_run_tests, java_run_tests, java_clear_reports
  <2>2. QED
    BY <1>1, <1>3, <2>1
<1>4. QED
  BY <1>2, <1>3, Instanced

(* What is read of the report of a suite in which the key's tests are.     *)
LEMMA SuiteSays ==
  ASSUME NEW inst, NEW tree, tree["tests"] = {"key"}, NEW t \in F2P \union P2P
  PROVE  /\ t \in DOMAIN Suite(inst, tree)
         /\ Suite(inst, tree)[t] \in {"passed", "failed"}
         /\ Suite(inst, tree)[t] = "passed" <=>
              \/ t \in F2P /\ Works(tree, inst)
              \/ t \in P2P /\ "wrong" \notin tree["src"]
<1>1. "own" \notin tree["tests"] /\ "key" \in tree["tests"] /\ tree["tests"] # Absent
  BY DEF Absent
<1>2. QED
  BY <1>1 DEF Suite

LEMMA ReportRead ==
  ASSUME NEW inst, NEW report, NEW t \in DOMAIN report, report[t] \in {"passed", "failed"}
  PROVE  resolve_test_outcome(parse_results(inst, report), t) <=> report[t] = "passed"
<1>1. /\ t \in DOMAIN parse_results(inst, report)
      /\ parse_results(inst, report)[t] <=> report[t] = "passed"
  BY DEF parse_results, java_parse_results
<1>2. QED
  BY <1>1 DEF resolve_test_outcome

LEMMA NothingRead ==
  ASSUME NEW inst, NEW t
  PROVE  ~resolve_test_outcome(parse_results(inst, NoReport), t)
<1>1. DOMAIN NoReport = {}
  BY DEF NoReport
<1>2. DOMAIN parse_results(inst, NoReport) = {}
  BY <1>1 DEF parse_results, java_parse_results
<1>3. QED
  BY <1>2 DEF resolve_test_outcome, Variants

LEMMA ResultFields ==
  ASSUME NEW status, NEW resolved \in BOOLEAN, NEW strategy, NEW reset, NEW tree, NEW v,
         v = EvalResult(status, resolved, strategy, reset, tree)
  PROVE  /\ v.status = status /\ v.resolved = resolved /\ v.strategy = strategy
         /\ v.tree = tree
BY DEF EvalResult

(* With the key's tests in place a run is resolved if the tree works, and  *)
(* only then; it may be stopped before that, but not by a compiler while   *)
(* the tree works.                                                         *)
LEMMA ScoredByTheKey ==
  ASSUME NEW inst \in Instances, NEW env, NEW tree, tree["tests"] = {"key"},
         NEW strategy, NEW reset, NEW r, NEW v,
         v = RunAndScore(inst, env, tree, strategy, reset, r)
  PROVE  /\ v.tree = tree /\ v.strategy \in {strategy, "none"}
         /\ v.resolved => v.status = "ok" /\ Works(tree, inst)
         /\ (v.status = "ok" /\ Works(tree, inst)
               /\ (r = "marked" => inst.language = "typescript")) => v.resolved
<1> DEFINE suite == Suite(inst, tree)
           ran == run_tests(inst, env, NoReport, suite, r)
           outcomes == parse_results(inst, ran.report)
           all == \A t \in F2P \union P2P : resolve_test_outcome(outcomes, t)
<1>1. /\ ran.report \in {NoReport, suite}
      /\ ran.raised \in {"nothing", "TimeoutError", "CompileFailure", "RuntimeError"}
      /\ ran.raised = "nothing" => ran.report = suite
      /\ ran.raised = "CompileFailure" => r = "marked" /\ inst.language # "typescript"
  BY FreshRun
<1>2. v = CASE ran.raised = "TimeoutError" -> EvalResult("timeout", FALSE, "none", {}, tree)
            [] ran.raised = "CompileFailure" -> EvalResult("ok", FALSE, strategy, reset, tree)
            [] ran.raised = "RuntimeError" -> EvalResult("infra_error", FALSE, "none", {}, tree)
            [] OTHER -> EvalResult("ok", all, strategy, reset, tree)
  BY Zenon DEF RunAndScore
<1>3. ASSUME NEW t \in F2P \union P2P, ran.report = suite
      PROVE  resolve_test_outcome(outcomes, t) <=>
               \/ t \in F2P /\ Works(tree, inst)
               \/ t \in P2P /\ "wrong" \notin tree["src"]
  <2>1. t \in DOMAIN suite /\ suite[t] \in {"passed", "failed"}
    BY SuiteSays
  <2>2. resolve_test_outcome(outcomes, t) <=> suite[t] = "passed"
    <3> HIDE DEF suite
    <3>1. resolve_test_outcome(parse_results(inst, suite), t) <=> suite[t] = "passed"
      BY <2>1, ReportRead
    <3>2. QED
      BY <1>3, <3>1
  <2>3. QED
    BY <2>2, SuiteSays
<1>4. Works(tree, inst) => "wrong" \notin tree["src"]
  BY DEF Works
<1>5. all => Works(tree, inst)
  <2>1. PICK t : t \in F2P /\ t \notin P2P
    BY InstanceAssumption
  <2>2. CASE ran.report = NoReport
    <3>1. ~resolve_test_outcome(parse_results(inst, NoReport), t)
      BY NothingRead
    <3>2. QED
      BY <2>1, <2>2, <3>1
  <2>3. CASE ran.report = suite
    <3>1. resolve_test_outcome(outcomes, t) => Works(tree, inst)
      BY <1>3, <2>1, <2>3
    <3>2. QED
      BY <2>1, <3>1
  <2>4. QED
    BY <1>1, <2>2, <2>3
<1>6. ran.report = suite /\ Works(tree, inst) => all
  BY <1>3, <1>4
<1>7. all \in BOOLEAN
  OBVIOUS
<1> HIDE DEF suite, ran, outcomes, all
<1>8. CASE ran.raised = "TimeoutError"
  <2>1. v = EvalResult("timeout", FALSE, "none", {}, tree)
    BY <1>2, <1>8
  <2>2. /\ v.status = "timeout" /\ ~v.resolved /\ v.strategy = "none" /\ v.tree = tree
    BY <2>1 DEF EvalResult
  <2>3. QED
    BY <2>2
<1>9. CASE ran.raised = "CompileFailure"
  <2>1. v = EvalResult("ok", FALSE, strategy, reset, tree)
    BY <1>2, <1>9
  <2>2. ~v.resolved /\ v.strategy = strategy /\ v.tree = tree
    BY <2>1 DEF EvalResult
  <2>3. QED
    BY <1>1, <1>9, <2>2
<1>10. CASE ran.raised = "RuntimeError"
  <2>1. v = EvalResult("infra_error", FALSE, "none", {}, tree)
    BY <1>2, <1>10
  <2>2. /\ v.status = "infra_error" /\ ~v.resolved /\ v.strategy = "none" /\ v.tree = tree
    BY <2>1 DEF EvalResult
  <2>3. QED
    BY <2>2
<1>11. CASE ran.raised = "nothing"
  <2>1. v = EvalResult("ok", all, strategy, reset, tree)
    BY <1>2, <1>11
  <2>2. /\ v.status = "ok" /\ v.resolved = all /\ v.strategy = strategy /\ v.tree = tree
    BY <1>7, <2>1, ResultFields
  <2>3. QED
    BY <1>1, <1>5, <1>6, <1>11, <2>2
<1>12. QED
  BY <1>1, <1>8, <1>9, <1>10, <1>11

LEMMA WorksOnly ==
  ASSUME NEW inst \in Instances, NEW tree, NEW other,
         \A p \in Paths \ {"tests"} : other[p] = tree[p]
  PROVE  Works(other, inst) <=> Works(tree, inst)
<1>1. \A p \in inst.gold : p \in Paths \ {"tests"}
  BY Instanced DEF is_test_path
<1>2. "src" \in Paths \ {"tests"}
  BY DEF Paths
<1>3. QED
  BY <1>1, <1>2 DEF Works

(* A verdict the answer key's tests have given, or none that counts. *)
ByTheKey(v, inst) ==
  v.resolved => /\ v.status = "ok"
                /\ v.tree["tests"] = {"key"} /\ v.tree["moved"] = Absent
                /\ Works(v.tree, inst)

LEMMA JudgedAfterReset ==
  ASSUME NEW inst \in Instances, NEW env, NEW tree, tree["tests"] \in {{}, Absent},
         tree["moved"] = Absent, NEW strategy, NEW reset, NEW r, NEW v,
         v = InjectTests(inst, env, tree, strategy, reset, r)
  PROVE  /\ ByTheKey(v, inst) /\ v.strategy \in {strategy, "none"}
         /\ v.status = "ok" /\ Works(tree, inst) =>
              /\ Works(v.tree, inst)
              /\ (r = "marked" => inst.language = "typescript") => v.resolved
<1> DEFINE injected == try_apply_patch(tree, test_patch)
<1>1. CASE injected.ok
  <2>1. v = RunAndScore(inst, env, injected.tree, strategy, reset, r)
    BY <1>1 DEF InjectTests
  <2>2. /\ injected.tree["tests"] = {"key"}
        /\ \A p \in Paths \ {"tests"} : injected.tree[p] = tree[p]
    BY <1>1, KeyGoesIn
  <2> HIDE DEF injected
  <2>3. injected.tree["moved"] = Absent
    BY <2>2 DEF Paths
  <2>4. Works(injected.tree, inst) <=> Works(tree, inst)
    BY <2>2, WorksOnly
  <2>5. /\ v.tree = injected.tree /\ v.strategy \in {strategy, "none"}
        /\ v.resolved => v.status = "ok" /\ Works(injected.tree, inst)
        /\ (v.status = "ok" /\ Works(injected.tree, inst)
              /\ (r = "marked" => inst.language = "typescript")) => v.resolved
    BY <2>1, <2>2, ScoredByTheKey
  <2>6. QED
    BY <2>2, <2>3, <2>4, <2>5 DEF ByTheKey
<1>2. CASE ~injected.ok
  <2>1. v = EvalResult("test_patch_apply_failed", FALSE, "none", {}, injected.tree)
    BY <1>2 DEF InjectTests
  <2> HIDE DEF injected
  <2>2. ~v.resolved /\ v.status = "test_patch_apply_failed" /\ v.strategy = "none"
    BY <2>1 DEF EvalResult
  <2>3. QED
    BY <2>2 DEF ByTheKey
<1>3. QED
  BY <1>1, <1>2

(* A workspace in which nothing that was committed to the source was taken *)
(* away again.                                                             *)
SourceKept(w) == w.head["src"] \subseteq w.tree["src"] /\ "absent" \notin w.tree["src"]

Carries(candidate, inst) ==
  /\ \A p \in inst.gold : \E c \in candidate : c.path = p /\ "fix" \in c.new
  /\ \A c \in candidate : "wrong" \notin c.new

(* A fix that goes in without fuzz is there, the wrong one is not.         *)
LEMMA FixGoesIn ==
  ASSUME NEW inst \in Instances, NEW w, SourceKept(w),
         NEW candidate, candidate = extract_patch(w), Carries(candidate, inst),
         NEW tree, tree["src"] = {}, \A p \in Paths : "fix" \notin tree[p],
         NEW applied, applied = try_apply_patch(tree, candidate),
         applied.strategy = "strict"
  PROVE  Works(restore_paths(applied.tree, TestFiles(candidate)), inst)
<1> DEFINE strict == Attempt(tree, candidate, FALSE)
           reset == restore_paths(applied.tree, TestFiles(candidate))
<1>1. strict.ok /\ applied.tree = strict.tree
  BY DEF try_apply_patch
<1>2. ASSUME NEW p \in Paths, ~is_test_path(p) PROVE reset[p] = strict.tree[p]
  BY <1>1, <1>2 DEF restore_paths, TestFiles
<1>3. ASSUME NEW p \in Paths, \E c \in candidate : c.path = p
      PROVE  \E d \in candidate :
               /\ d.path = p /\ d.new = w.tree[p] /\ d.old = w.head[p]
               /\ strict.tree[p] = Patched(tree[p], d, FALSE)
               /\ Forward(tree[p], d, FALSE) \/ Backward(tree[p], d, FALSE)
  <2> DEFINE d == CHOOSE c \in candidate : c.path = p
  <2>1. d \in candidate /\ d.path = p
    BY <1>3
  <2>2. strict.tree[p] = Patched(tree[p], d, FALSE)
    BY <1>3 DEF Attempt
  <2> HIDE DEF d
  <2>3. d.new = w.tree[p] /\ d.old = w.head[p]
    BY <2>1, DiffOfWorkspace
  <2>4. Forward(tree[p], d, FALSE) \/ Backward(tree[p], d, FALSE)
    BY <1>1, <2>1 DEF Attempt
  <2>5. QED
    BY <2>1, <2>2, <2>3, <2>4
<1> HIDE DEF strict, reset
<1>4. ASSUME NEW d, NEW content, Forward(content, d, FALSE)
      PROVE  Patched(content, d, FALSE) = d.new
  <2>1. content = d.old
    BY <1>4 DEF Forward, Matches
  <2>2. (d.old \ (d.old \ d.new)) \union (d.new \ d.old) = d.new
    OBVIOUS
  <2>3. QED
    BY <1>4, <2>1, <2>2 DEF Patched
<1>5. ASSUME NEW p \in inst.gold PROVE "fix" \in reset[p]
  <2>1. p \in Paths /\ ~is_test_path(p)
    BY Instanced
  <2>2. PICK c \in candidate : c.path = p /\ "fix" \in c.new
    BY DEF Carries
  <2>3. PICK d \in candidate :
          /\ d.path = p /\ d.new = w.tree[p] /\ d.old = w.head[p]
          /\ strict.tree[p] = Patched(tree[p], d, FALSE)
          /\ Forward(tree[p], d, FALSE) \/ Backward(tree[p], d, FALSE)
    BY <1>3, <2>1, <2>2
  <2>4. "fix" \in d.new
    BY <2>2, <2>3, DiffOfWorkspace
  <2>5. ~Backward(tree[p], d, FALSE)
    BY <2>1, <2>4 DEF Backward, Matches
  <2>6. strict.tree[p] = d.new
    BY <1>4, <2>3, <2>5
  <2>7. QED
    BY <1>2, <2>1, <2>4, <2>6
<1>6. "wrong" \notin reset["src"]
  <2>1. "src" \in Paths /\ ~is_test_path("src")
    BY DEF Paths, is_test_path
  <2>2. CASE \A c \in candidate : c.path # "src"
    <3>1. applied.tree["src"] = tree["src"]
      BY <2>1, <2>2, PatchSpares
    <3>2. QED
      BY <1>1, <1>2, <2>1, <3>1
  <2>3. CASE \E c \in candidate : c.path = "src"
    <3>1. PICK d \in candidate :
            /\ d.path = "src" /\ d.new = w.tree["src"] /\ d.old = w.head["src"]
            /\ strict.tree["src"] = Patched(tree["src"], d, FALSE)
            /\ Forward(tree["src"], d, FALSE) \/ Backward(tree["src"], d, FALSE)
      BY <1>3, <2>1, <2>3
    <3>2. "wrong" \notin d.new
      BY DEF Carries
    <3>3. CASE Forward(tree["src"], d, FALSE)
      BY <1>2, <1>4, <2>1, <3>1, <3>2, <3>3
    <3>4. CASE ~Forward(tree["src"], d, FALSE)
      <4>1. Backward(tree["src"], d, FALSE)
        BY <3>1, <3>4
      <4>2. ~d.renamed
        BY <2>1, <3>1, DiffOfWorkspace
      <4>3. Patched(tree["src"], d, FALSE) = (tree["src"] \ (d.new \ d.old)) \union (d.old \ d.new)
        BY <3>4, <4>1, <4>2 DEF Patched
      <4>4. d.old \subseteq d.new
        BY <3>1 DEF SourceKept
      <4>5. "wrong" \notin Patched(tree["src"], d, FALSE)
        BY <4>3, <4>4
      <4>6. QED
        BY <1>2, <2>1, <3>1, <4>5
    <3>5. QED
      BY <3>3, <3>4
  <2>4. QED
    BY <2>2, <2>3
<1>7. QED
  BY <1>5, <1>6 DEF Works, reset

(* The tree a verdict starts from: only the manifest may be touched. *)
LEMMA StartingTree ==
  ASSUME NEW inst, NEW tree,
         tree = IF inst.language = "typescript" THEN ts_sanitize(inst, BaseTree) ELSE BaseTree
  PROVE  /\ tree["tests"] = {} /\ tree["moved"] = Absent /\ tree["src"] = {}
         /\ \A p \in Paths : "fix" \notin tree[p]
<1>1. /\ BaseTree["tests"] = {} /\ BaseTree["moved"] = Absent /\ BaseTree["src"] = {}
      /\ \A p \in Paths : "fix" \notin BaseTree[p]
  BY DEF BaseTree, Paths, Absent
<1>2. tree = BaseTree \/ tree = [BaseTree EXCEPT !["manifest"] = @ \union {"drift"}]
  BY DEF ts_sanitize
<1>3. DOMAIN BaseTree = Paths
  BY DEF BaseTree
<1>4. CASE tree = [BaseTree EXCEPT !["manifest"] = @ \union {"drift"}]
  <2>1. \A p \in Paths : tree[p] = IF p = "manifest" THEN BaseTree[p] \union {"drift"}
                                   ELSE BaseTree[p]
    BY <1>3, <1>4
  <2>2. "tests" \in Paths /\ "moved" \in Paths /\ "src" \in Paths
    BY DEF Paths
  <2>3. /\ tree["tests"] = BaseTree["tests"] /\ tree["moved"] = BaseTree["moved"]
        /\ tree["src"] = BaseTree["src"]
    BY <2>1, <2>2
  <2>4. ASSUME NEW p \in Paths PROVE "fix" \notin tree[p]
    <3>1. tree[p] = BaseTree[p] \/ tree[p] = BaseTree[p] \union {"drift"}
      BY <2>1
    <3>2. "fix" \notin BaseTree[p]
      BY <1>1
    <3>3. QED
      BY <3>1, <3>2
  <2>5. QED
    BY <1>1, <2>3, <2>4
<1>5. QED
  BY <1>1, <1>2, <1>4

LEMMA JudgedByTheKey ==
  ASSUME NEW inst \in Instances, NEW w, NEW candidate, candidate = extract_patch(w),
         NEW installed, NEW r, NEW v, v = evaluate(inst, candidate, installed, r)
  PROVE  /\ ByTheKey(v, inst)
         /\ (v.status = "ok" /\ v.strategy = "strict" /\ SourceKept(w)
               /\ Carries(candidate, inst)) =>
              /\ Works(v.tree, inst)
              /\ (r = "marked" => inst.language = "typescript") => v.resolved
<1> DEFINE tree == IF inst.language = "typescript" THEN ts_sanitize(inst, BaseTree) ELSE BaseTree
           applied == try_apply_patch(tree, candidate)
           reset == restore_paths(applied.tree, TestFiles(candidate))
           env == get_adapter(inst)
<1>1. /\ tree["tests"] = {} /\ tree["moved"] = Absent /\ tree["src"] = {}
      /\ \A p \in Paths : "fix" \notin tree[p]
  BY StartingTree
<1>2. v = CASE installed = "TimeoutError" -> EvalResult("timeout", FALSE, "none", {}, tree)
            [] installed = "CompileFailure" -> EvalResult("ok", FALSE, "none", {}, tree)
            [] installed = "RuntimeError" -> EvalResult("infra_error", FALSE, "none", {}, tree)
            [] OTHER -> ApplyAndReset(inst, env, tree, candidate, r)
  BY Zenon DEF evaluate
<1> HIDE DEF tree, env
<1>3. CASE installed \in {"TimeoutError", "CompileFailure", "RuntimeError"}
  <2>1. \E status : v = EvalResult(status, FALSE, "none", {}, tree)
    BY <1>2, <1>3
  <2>2. ~v.resolved /\ v.strategy = "none"
    BY <2>1 DEF EvalResult
  <2>3. QED
    BY <2>2 DEF ByTheKey
<1>4. CASE installed \notin {"TimeoutError", "CompileFailure", "RuntimeError"}
  <2>1. v = ApplyAndReset(inst, env, tree, candidate, r)
    BY <1>2, <1>4
  <2>2. CASE ~applied.ok
    <3>1. v = EvalResult("patch_apply_failed", FALSE, "none", {}, applied.tree)
      BY <2>1, <2>2 DEF ApplyAndReset
    <3> HIDE DEF applied
    <3>2. ~v.resolved /\ v.strategy = "none"
      BY <3>1 DEF EvalResult
    <3>3. QED
      BY <3>2 DEF ByTheKey
  <2>3. CASE applied.ok
    <3>1. v = InjectTests(inst, env, reset, applied.strategy, TestFiles(candidate), r)
      BY <2>1, <2>3 DEF ApplyAndReset
    <3>2. reset["tests"] \in {{}, Absent} /\ reset["moved"] = Absent
      BY <1>1, ResetTests
    <3>3. ASSUME SourceKept(w), Carries(candidate, inst), applied.strategy = "strict"
          PROVE  Works(reset, inst)
      BY <1>1, <3>3, FixGoesIn
    <3> HIDE DEF applied, reset
    <3>4. /\ ByTheKey(v, inst) /\ v.strategy \in {applied.strategy, "none"}
          /\ v.status = "ok" /\ Works(reset, inst) =>
               /\ Works(v.tree, inst)
               /\ (r = "marked" => inst.language = "typescript") => v.resolved
      BY <3>1, <3>2, JudgedAfterReset
    <3>5. QED
      BY <3>3, <3>4
  <2>4. QED
    BY <2>2, <2>3
<1>5. QED
  BY <1>3, <1>4
-----------------------------------------------------------------------------
(* The patch of a run is the diff of a workspace in which no source was    *)
(* taken back, and the instance in hand is one of the project's.           *)
PatchOf(w) == patch = extract_patch(w) /\ SourceKept(w)

Contents == SUBSET (Edits \union Absent)

Workspaces ==
  [head : [Paths -> Contents], tree : [Paths -> Contents], staged : SUBSET Paths]

WorkspaceInv ==
  /\ ws \in Workspaces /\ SourceKept(ws)
  /\ stage = "open" => ws = agent_workspace
  /\ \E w : PatchOf(w)
  /\ stage # "idle" => instance \in Instances

LEMMA FreshWorkspace ==
  /\ agent_workspace \in Workspaces /\ SourceKept(agent_workspace)
  /\ extract_patch(agent_workspace) = {}
<1>1. BaseTree["src"] = {} /\ "src" \in Paths
  BY DEF BaseTree, Paths
<1>2. SourceKept(agent_workspace)
  BY <1>1 DEF SourceKept, agent_workspace
<1>3. Differs(agent_workspace) = {}
  BY DEF Differs, agent_workspace
<1>4. agent_workspace \in Workspaces
  <2>1. BaseTree \in [Paths -> Contents]
    BY DEF BaseTree, Absent, Contents
  <2>2. QED
    BY <2>1 DEF agent_workspace, Workspaces
<1>5. QED
  BY <1>2, <1>3, <1>4 DEF extract_patch

LEMMA SourceIsAPath == "src" \in Paths /\ "tests" \in Paths /\ "moved" \in Paths
                       /\ "manifest" \in Paths
BY DEF Paths

(* A workspace whose files change: what matters is what becomes of the      *)
(* source.                                                                 *)
LEMMA FilesChange ==
  ASSUME NEW w \in Workspaces, NEW t \in [Paths -> Contents], NEW v,
         v = [w EXCEPT !.tree = t], w.head["src"] \subseteq t["src"], "absent" \notin t["src"]
  PROVE  v \in Workspaces /\ SourceKept(v)
<1>1. v.head = w.head /\ v.tree = t /\ v \in Workspaces
  BY DEF Workspaces
<1>2. QED
  BY <1>1 DEF SourceKept

LEMMA OneFileWritten ==
  ASSUME NEW w \in Workspaces, SourceKept(w), NEW p \in Paths, NEW edit \in Edits
  PROVE  Written(w, p, edit) \in Workspaces /\ SourceKept(Written(w, p, edit))
<1> DEFINE t == [w.tree EXCEPT ![p] = (@ \ Absent) \union {edit}]
<1>1. w.tree \in [Paths -> Contents]
  BY DEF Workspaces
<1>2. t \in [Paths -> Contents]
  <2>1. w.tree[p] \in Contents
    BY <1>1
  <2>2. (w.tree[p] \ Absent) \union {edit} \in Contents
    BY <2>1 DEF Contents
  <2>3. QED
    BY <1>1, <2>2
<1>3. w.head["src"] \subseteq t["src"] /\ "absent" \notin t["src"]
  <2>1. t["src"] = IF p = "src" THEN (w.tree["src"] \ Absent) \union {edit} ELSE w.tree["src"]
    BY <1>1, SourceIsAPath
  <2>2. QED
    BY <2>1 DEF SourceKept, Absent, Edits
<1>4. Written(w, p, edit) = [w EXCEPT !.tree = t]
  BY Zenon DEF Written
<1> HIDE DEF t
<1>5. QED
  BY <1>2, <1>3, <1>4, FilesChange

LEMMA TestsMoved ==
  ASSUME NEW w \in Workspaces, SourceKept(w), NEW staged \in SUBSET Paths
  PROVE  Moved(w, staged) \in Workspaces /\ SourceKept(Moved(w, staged))
<1>1. CASE w.tree["tests"] = Absent
  BY <1>1 DEF Moved
<1>2. CASE w.tree["tests"] # Absent
  <2> DEFINE one == [w.tree EXCEPT !["moved"] = w.tree["tests"]]
             two == [one EXCEPT !["tests"] = Absent]
             v == [w EXCEPT !.tree = two]
  <2>1. w.tree \in [Paths -> Contents] /\ w.tree["tests"] \in Contents
    BY SourceIsAPath DEF Workspaces
  <2>2. one \in [Paths -> Contents] /\ one["src"] = w.tree["src"]
    BY <2>1, SourceIsAPath
  <2> HIDE DEF one
  <2>3. two \in [Paths -> Contents] /\ two["src"] = one["src"]
    <3>1. Absent \in Contents
      BY DEF Contents
    <3> HIDE DEF v
    <3>2. QED
      BY <2>2, <3>1, SourceIsAPath
  <2> HIDE DEF two
  <2>4. v \in Workspaces /\ SourceKept(v)
    BY <2>2, <2>3, FilesChange DEF SourceKept
  <2>5. Moved(w, staged) = [v EXCEPT !.staged = w.staged \union staged]
    BY <1>2, Zenon DEF Moved, v, two, one
  <2> HIDE DEF v
  <2>6. Moved(w, staged).head = v.head /\ Moved(w, staged).tree = v.tree
        /\ Moved(w, staged) \in Workspaces
    BY <2>4, <2>5 DEF Workspaces
  <2>7. QED
    BY <2>4, <2>6 DEF SourceKept
<1>3. QED
  BY <1>1, <1>2

(* No command takes back what was committed to the source. *)
LEMMA CommandKeepsSource ==
  ASSUME NEW w \in Workspaces, SourceKept(w), NEW c \in AllCommands
  PROVE  Effect(c, w) \in Workspaces /\ SourceKept(Effect(c, w))
<1>1. /\ w.head \in [Paths -> Contents] /\ w.tree \in [Paths -> Contents]
      /\ w.staged \in SUBSET Paths
  BY DEF Workspaces
<1>2. CASE c = "look"
  BY <1>2 DEF Effect
<1>3. CASE c = "fix"
  <2> DEFINE t == [p \in Paths |-> IF p \in instance.gold
                                   THEN (w.tree[p] \ Absent) \union {"fix"} ELSE w.tree[p]]
  <2>1. Effect(c, w) = [w EXCEPT !.tree = t]
    BY <1>3, Zenon DEF Effect
  <2>2. t \in [Paths -> Contents]
    BY <1>1 DEF Contents, Edits
  <2>3. t["src"] = w.tree["src"] \/ t["src"] = (w.tree["src"] \ Absent) \union {"fix"}
    BY SourceIsAPath
  <2> HIDE DEF t
  <2>4. w.head["src"] \subseteq t["src"] /\ "absent" \notin t["src"]
    BY <2>3 DEF SourceKept, Absent
  <2>5. QED
    BY <2>1, <2>2, <2>4, FilesChange
<1>4. CASE c = "wrong"
  <2>1. Effect(c, w) = Written(w, "src", "wrong")
    BY <1>4 DEF Effect
  <2>2. "wrong" \in Edits
    BY DEF Edits
  <2>3. QED
    BY <2>1, <2>2, SourceIsAPath, OneFileWritten
<1>5. CASE c = "tests"
  <2>1. Effect(c, w) = w \/ Effect(c, w) = Written(w, "tests", "own")
    BY <1>5 DEF Effect
  <2>2. "own" \in Edits
    BY DEF Edits
  <2>3. QED
    BY <2>1, <2>2, SourceIsAPath, OneFileWritten
<1>6. CASE c = "manifest"
  <2>1. Effect(c, w) = Written(w, "manifest", "own")
    BY <1>6 DEF Effect
  <2>2. "own" \in Edits
    BY DEF Edits
  <2>3. QED
    BY <2>1, <2>2, SourceIsAPath, OneFileWritten
<1>7. CASE c \in {"mv", "git mv"}
  <2>1. Effect(c, w) = Moved(w, {}) \/ Effect(c, w) = Moved(w, {"moved"})
    BY <1>7 DEF Effect
  <2>2. {} \in SUBSET Paths /\ {"moved"} \in SUBSET Paths
    BY SourceIsAPath
  <2>3. QED
    BY <2>1, <2>2, TestsMoved
<1>8. CASE c = "git add"
  <2> DEFINE s == {p \in Paths : w.tree[p] # Absent}
  <2>1. Effect(c, w) = [w EXCEPT !.staged = s]
    BY <1>8, Zenon DEF Effect
  <2>2. s \in SUBSET Paths
    OBVIOUS
  <2> HIDE DEF s
  <2>3. /\ Effect(c, w) \in Workspaces
        /\ Effect(c, w).head = w.head /\ Effect(c, w).tree = w.tree
    BY <2>1, <2>2 DEF Workspaces
  <2>4. QED
    BY <2>3 DEF SourceKept
<1>9. CASE c = "git commit"
  <2> DEFINE h == [p \in Paths |-> IF p \in Tracked(w) THEN w.tree[p] ELSE w.head[p]]
  <2>1. Effect(c, w) = [w EXCEPT !.head = h]
    BY <1>9, Zenon DEF Effect
  <2>2. h \in [Paths -> Contents]
    BY <1>1
  <2>3. h["src"] = w.tree["src"] \/ h["src"] = w.head["src"]
    BY SourceIsAPath
  <2> HIDE DEF h
  <2>4. /\ Effect(c, w) \in Workspaces
        /\ Effect(c, w).head = h /\ Effect(c, w).tree = w.tree
    BY <2>1, <2>2 DEF Workspaces
  <2>5. QED
    BY <2>3, <2>4 DEF SourceKept
<1>10. CASE c = "git checkout"
  <2> DEFINE t == [p \in Paths |-> IF w.head[p] # Absent THEN w.head[p] ELSE w.tree[p]]
  <2>1. Effect(c, w) = [w EXCEPT !.tree = t]
    BY <1>10, Zenon DEF Effect
  <2>2. t \in [Paths -> Contents]
    BY <1>1
  <2>3. t["src"] = w.head["src"] \/ t["src"] = w.tree["src"]
    BY SourceIsAPath
  <2> HIDE DEF t
  <2>4. w.head["src"] \subseteq t["src"] /\ "absent" \notin t["src"]
    BY <2>3 DEF SourceKept
  <2>5. QED
    BY <2>1, <2>2, <2>4, FilesChange
<1>11. QED
  BY <1>2, <1>3, <1>4, <1>5, <1>6, <1>7, <1>8, <1>9, <1>10 DEF AllCommands

(* The mock model applies the right fix to the tree of the base commit. *)
LEMMA GoldGoesIn ==
  ASSUME NEW inst, NEW t, t = Attempt(BaseTree, gold_patch(inst), FALSE).tree
  PROVE  t \in [Paths -> Contents] /\ "absent" \notin t["src"]
<1> DEFINE gold == gold_patch(inst)
<1>1. /\ t = [p \in Paths |->
               IF \E c \in gold : c.path = p
               THEN Patched(BaseTree[p], CHOOSE c \in gold : c.path = p, FALSE)
               ELSE BaseTree[p]]
      /\ BaseTree["src"] = {}
      /\ \A p \in Paths : BaseTree[p] \in {{}, Absent}
  BY SourceIsAPath DEF Attempt, BaseTree
<1>2. ASSUME NEW c \in gold
      PROVE  Patched(BaseTree[c.path], c, FALSE) = {"fix"}
  <2>1. PICK p \in inst.gold : c = Change(p, BaseTree[p], {"fix"}, FALSE)
    BY DEF gold_patch
  <2>2. c.path = p /\ c.old = BaseTree[p] /\ c.new = {"fix"}
    BY <2>1, Zenon DEF Change
  <2>3. Forward(BaseTree[c.path], c, FALSE)
    BY <2>2 DEF Forward, Matches
  <2>4. Patched(BaseTree[c.path], c, FALSE)
          = (c.old \ (c.old \ c.new)) \union (c.new \ c.old)
    BY <2>2, <2>3 DEF Patched
  <2>5. QED
    BY <2>2, <2>4
<1> HIDE DEF gold
<1>3. ASSUME NEW p \in Paths
      PROVE  t[p] = {"fix"} \/ t[p] = BaseTree[p]
  <2>1. CASE \E c \in gold : c.path = p
    <3> DEFINE d == CHOOSE c \in gold : c.path = p
    <3>1. d \in gold /\ d.path = p
      BY <2>1
    <3>2. t[p] = Patched(BaseTree[p], d, FALSE)
      BY <1>1, <2>1
    <3> HIDE DEF d
    <3>3. QED
      BY <1>2, <3>1, <3>2
  <2>2. CASE ~\E c \in gold : c.path = p
    BY <1>1, <2>2
  <2>3. QED
    BY <2>1, <2>2
<1>4. {} \in Contents /\ Absent \in Contents /\ {"fix"} \in Contents
  BY DEF Contents, Edits
<1>5. t = [p \in Paths |-> t[p]]
  BY <1>1
<1>6. \A p \in Paths : t[p] \in {{"fix"}, {}, Absent}
  BY <1>1, <1>3
<1>7. t \in [Paths -> Contents]
  BY <1>4, <1>5, <1>6
<1>8. t["src"] = {"fix"} \/ t["src"] = {}
  BY <1>1, <1>3, SourceIsAPath
<1>9. QED
  BY <1>7, <1>8

LEMMA WorkspaceOfTheLoop ==
  ASSUME WorkspaceInv, LoopNext
  PROVE  WorkspaceInv' /\ instance' = instance
<1>1. instance \in Instances /\ stage' # "idle"
  BY LoopIsBusy DEF WorkspaceInv
<1>2. \A w : SourceKept(w) /\ patch' = extract_patch(w) => PatchOf(w)'
  BY DEF PatchOf
<1>3. UNCHANGED patch => \E w : PatchOf(w)'
  BY DEF WorkspaceInv, PatchOf
<1>4. CASE _run_mock_agent
  <2>1. ws = agent_workspace /\ ws \in Workspaces /\ SourceKept(ws)
    BY <1>4 DEF _run_mock_agent, WorkspaceInv
  <2>2. /\ ws' = ws \/ ws' = [ws EXCEPT !.tree = Attempt(ws.tree, gold_patch(instance), FALSE).tree]
        /\ patch' = extract_patch(ws') /\ stage' \in {"done", "raised"}
        /\ instance' = instance
    BY <1>4 DEF _run_mock_agent
  <2>3. ws' \in Workspaces /\ SourceKept(ws')
    <3>1. ws.tree = BaseTree /\ ws.head["src"] = {}
      BY <2>1, SourceIsAPath DEF agent_workspace, BaseTree
    <3> DEFINE t == Attempt(BaseTree, gold_patch(instance), FALSE).tree
    <3>2. t \in [Paths -> Contents] /\ "absent" \notin t["src"]
      BY GoldGoesIn
    <3>3. ws' = ws \/ ws' = [ws EXCEPT !.tree = t]
      BY <2>2, <3>1
    <3> HIDE DEF t
    <3>4. QED
      BY <2>1, <3>1, <3>2, <3>3, FilesChange
  <2>4. \E w : PatchOf(w)'
    BY <1>2, <2>2, <2>3
  <2>5. QED
    BY <1>1, <2>2, <2>3, <2>4 DEF WorkspaceInv
<1>5. CASE ReplyCommand
  <2>1. PICK c \in Commands : ws' = ws \/ ws' = Effect(c, ws)
    BY <1>5 DEF ReplyCommand
  <2>2. /\ stage' \in {"extract", "turn"} /\ instance' = instance /\ patch' = patch
    BY <1>5 DEF ReplyCommand, CallReturns
  <2>3. c \in AllCommands
    BY LoopAssumption
  <2>4. ws' \in Workspaces /\ SourceKept(ws')
    BY <2>1, <2>3, CommandKeepsSource DEF WorkspaceInv
  <2>5. QED
    BY <1>1, <1>3, <2>2, <2>4 DEF WorkspaceInv
<1>6. CASE ExtractPatch
  <2>1. /\ ws' = ws /\ patch' = extract_patch(ws) /\ stage' = "done" /\ instance' = instance
    BY <1>6 DEF ExtractPatch
  <2>2. \E w : PatchOf(w)'
    BY <1>2, <2>1 DEF WorkspaceInv
  <2>3. QED
    BY <1>1, <2>1, <2>2 DEF WorkspaceInv
<1>7. CASE OpenWorkspace \/ BeginTurn \/ CallFails \/ ReplyWithoutCommand \/ ReplySubmit
  <2>1. /\ ws' = ws /\ patch' = patch /\ instance' = instance /\ stage' # "open"
    BY <1>7 DEF OpenWorkspace, BeginTurn, CallFails, ReplyWithoutCommand, ReplySubmit,
                CallReturns
  <2>2. QED
    BY <1>1, <1>3, <2>1 DEF WorkspaceInv
<1>8. QED
  BY <1>4, <1>5, <1>6, <1>7 DEF LoopNext

LEMMA WorkspaceOfTheDriver ==
  ASSUME ProgressInv, WorkspaceInv, [Next]_vars
  PROVE  WorkspaceInv'
<1>1. CASE LoopNext
  BY <1>1, WorkspaceOfTheLoop
<1>2. CASE UNCHANGED loopVars
  <2>1. \A w : PatchOf(w) => PatchOf(w)'
    BY <1>2 DEF loopVars, PatchOf
  <2>2. QED
    BY <1>2, <2>1 DEF loopVars, WorkspaceInv
<1>3. CASE FromNothing /\ stage' \in {"idle", "open", "raised"}
  <2>1. /\ ws' = agent_workspace /\ patch' = {}
    BY <1>3 DEF FromNothing
  <2>2. PatchOf(agent_workspace)'
    BY <2>1, FreshWorkspace DEF PatchOf
  <2>3. stage' # "idle" => instance' \in Instances
    <3>1. CASE LoopNext \/ UNCHANGED loopVars
      BY <3>1, <1>1, <1>2 DEF WorkspaceInv
    <3>2. CASE Run
      <4>1. /\ instance' = keys[pos].instance /\ driver = "run" /\ pos <= Len(keys)
            /\ keys[pos] \notin already_done
        BY <3>2 DEF Run, run_agent, AlreadyDone
      <4>2. pos \in 1..Len(keys)
        BY <4>1, KeyInHand
      <4>3. PICK Keys : Keys = [model : Models, instance : Instances, repeat : Nat]
        OBVIOUS
      <4>4. keys \in Seq(Keys)
        BY <4>3, EvaluationAssumption DEF ProgressInv, FileInv
      <4>5. keys[pos] \in Keys
        BY <4>2, <4>4
      <4>6. QED
        BY <4>1, <4>3, <4>5
    <3>3. CASE WriteRow \/ Crash
      BY <3>3 DEF WriteRow, Crash, Forgotten
    <3>4. Run \/ WriteRow \/ Crash \/ LoopNext \/ UNCHANGED loopVars
      <4>1. StartDriver \/ Skip \/ AgentRaised \/ Evaluate \/ EvaluateRaises \/ Finish
              \/ LoadResults \/ Over \/ UNCHANGED vars => UNCHANGED loopVars
        BY DEF StartDriver, Skip, AgentRaised, Evaluate, EvaluateRaises, Finish, LoadResults,
               Over, vars
      <4>2. AgentStep => LoopNext
        BY DEF AgentStep
      <4>3. QED
        BY <4>1, <4>2 DEF Next
    <3>5. QED
      BY <3>1, <3>2, <3>3, <3>4
  <2>4. QED
    BY <2>1, <2>2, <2>3, FreshWorkspace DEF WorkspaceInv
<1>4. QED
  BY <1>1, <1>2, <1>3, StepsOfTheAgent
-----------------------------------------------------------------------------
(* Verdicts. *)

LEMMA EvaluateReturns ==
  ASSUME NEW inst, NEW candidate, NEW installed, NEW r
  PROVE  DOMAIN evaluate(inst, candidate, installed, r)
           = {"status", "resolved", "strategy", "reset", "tree", "cost"}
<1> DEFINE Fields == {"status", "resolved", "strategy", "reset", "tree", "cost"}
<1>1. \A status, resolved, strategy, reset, tree :
        DOMAIN EvalResult(status, resolved, strategy, reset, tree) = Fields
  BY DEF EvalResult
<1>2. \A env, tree, strategy, reset :
        DOMAIN RunAndScore(inst, env, tree, strategy, reset, r) = Fields
  BY <1>1, Zenon DEF RunAndScore
<1>3. \A env, tree, strategy, reset :
        DOMAIN InjectTests(inst, env, tree, strategy, reset, r) = Fields
  BY <1>1, <1>2, Zenon DEF InjectTests
<1>4. \A env, tree : DOMAIN ApplyAndReset(inst, env, tree, candidate, r) = Fields
  BY <1>1, <1>3, Zenon DEF ApplyAndReset
<1>5. QED
  BY <1>1, <1>4, Zenon DEF evaluate

(* A result is held for the row that is written of it; it is the answer    *)
(* key's, and a fix that went in whole was not judged in vain.             *)
VerdictInv ==
  /\ driver # "row" => ~result.resolved
  /\ ResolvedByTheKey /\ FixIsScored

LEMMA VerdictOfTheRun ==
  ASSUME ProgressInv, WorkspaceInv, Evaluate
  PROVE  VerdictInv'
<1>1. /\ stage = "done" /\ driver' = "row" /\ instance' = instance /\ patch' = patch
  BY DEF Evaluate, loopVars
<1>2. instance \in Instances
  BY <1>1 DEF WorkspaceInv
<1>3. PICK installed \in Installations[instance], r \in sandbox_run :
        /\ r \in RunResults(instance, evaluate(instance, patch, installed, r).tree)
        /\ result' = [evaluate(instance, patch, installed, r) EXCEPT !.cost = paid]
  BY Zenon DEF Evaluate
<1> DEFINE v == evaluate(instance, patch, installed, r)
<1>a. r \in RunResults(instance, v.tree) /\ result' = [v EXCEPT !.cost = paid]
  BY <1>3
<1>b. DOMAIN v = {"status", "resolved", "strategy", "reset", "tree", "cost"}
  BY EvaluateReturns
<1>4. PICK w : patch = extract_patch(w) /\ SourceKept(w)
  BY DEF WorkspaceInv, PatchOf
<1>5. /\ ByTheKey(v, instance)
      /\ (v.status = "ok" /\ v.strategy = "strict" /\ Carries(patch, instance)) =>
           /\ Works(v.tree, instance)
           /\ (r = "marked" => instance.language = "typescript") => v.resolved
  BY <1>2, <1>4, JudgedByTheKey
<1> HIDE DEF v
<1>6. Works(v.tree, instance) => r # "marked"
  BY <1>a DEF RunResults, Builds
<1>7. /\ result'.status = v.status /\ result'.resolved = v.resolved
      /\ result'.strategy = v.strategy /\ result'.tree = v.tree
  BY <1>a, <1>b
<1>8. ResolvedByTheKey'
  BY <1>1, <1>5, <1>7 DEF ByTheKey, ResolvedByTheKey
<1>9. FixIsScored'
  <2>1. CarriesFix' => Carries(patch, instance)
    BY <1>1 DEF CarriesFix, Carries
  <2>2. QED
    BY <2>1, <1>5, <1>6, <1>7 DEF FixIsScored
<1>10. QED
  BY <1>1, <1>8, <1>9 DEF VerdictInv

LEMMA VerdictOfTheDriver ==
  ASSUME ProgressInv, WorkspaceInv, VerdictInv, [Next]_vars
  PROVE  VerdictInv'
<1>1. CASE Evaluate
  BY <1>1, VerdictOfTheRun
<1>2. CASE AgentRaised
  <2>1. ~result'.resolved /\ result'.status = "infra_error"
    BY <1>2 DEF AgentRaised, EvalResult
  <2>2. QED
    BY <2>1 DEF VerdictInv, ResolvedByTheKey, FixIsScored
<1>3. CASE WriteRow \/ Crash
  <2>1. result' = NoResult /\ driver' # "row"
    BY <1>3 DEF WriteRow, Crash
  <2>2. ~result'.resolved
    BY <2>1 DEF NoResult, EvalResult
  <2>3. QED
    BY <2>1, <2>2 DEF VerdictInv, ResolvedByTheKey, FixIsScored
<1>4. CASE Run \/ AgentStep
  <2>1. driver # "row" /\ driver' = driver /\ result' = result
    <3>1. Run => driver = "run"
      BY DEF Run
    <3>2. AgentStep => stage \notin {"raised", "done"}
      BY LoopIsBusy DEF AgentStep
    <3>3. QED
      BY <1>4, <3>1, <3>2 DEF Run, AgentStep, driverVars, ProgressInv, StageInv
  <2>2. QED
    BY <2>1 DEF VerdictInv, ResolvedByTheKey, FixIsScored
<1>5. CASE StartDriver \/ Skip \/ EvaluateRaises \/ Finish \/ LoadResults \/ Over
             \/ UNCHANGED vars
  <2>1. /\ instance' = instance /\ patch' = patch /\ result' = result
        /\ (driver' = "row") <=> (driver = "row")
    BY <1>5 DEF StartDriver, Skip, EvaluateRaises, Finish, LoadResults, Over, vars, loopVars,
                driverVars
  <2>2. CarriesFix' = CarriesFix /\ ResolvedByTheKey' = ResolvedByTheKey
    BY <2>1 DEF CarriesFix, ResolvedByTheKey
  <2>3. QED
    BY <2>1, <2>2 DEF VerdictInv, FixIsScored
<1>6. QED
  BY <1>1, <1>2, <1>3, <1>4, <1>5 DEF Next

VerdictsInv == ProgressInv /\ WorkspaceInv /\ VerdictInv

LEMMA VerdictsHold == Spec => []VerdictsInv
<1>1. Init => VerdictsInv
  <2> SUFFICES ASSUME Init PROVE VerdictsInv
    OBVIOUS
  <2>1. /\ ws = agent_workspace /\ patch = {} /\ stage = "idle"
        /\ driver = "off" /\ result = NoResult
    BY DEF Init, LoopInit
  <2>2. WorkspaceInv
    <3>1. PatchOf(agent_workspace)
      BY <2>1, FreshWorkspace DEF PatchOf
    <3>2. QED
      BY <2>1, <3>1, FreshWorkspace DEF WorkspaceInv
  <2>3. ~result.resolved
    BY <2>1 DEF NoResult, EvalResult
  <2>4. QED
    BY <2>1, <2>2, <2>3, ProgressStarts
    DEF VerdictsInv, VerdictInv, ResolvedByTheKey, FixIsScored
<1>2. VerdictsInv /\ [Next]_vars => VerdictsInv'
  BY ProgressOfTheDriver, WorkspaceOfTheDriver, VerdictOfTheDriver DEF VerdictsInv
<1>3. QED
  BY <1>1, <1>2, PTL DEF Spec

(* What is recorded as resolved was judged by the answer key's tests alone *)
(* in a tree that holds the fix, whatever commands the agent ran before,   *)
(* for any instances and any limits (eval_runner.py:97-120).               *)
THEOREM ResolvedIsByTheKey == Spec => []ResolvedByTheKey
<1>1. VerdictsInv => ResolvedByTheKey
  BY DEF VerdictsInv, VerdictInv
<1>2. QED
  BY <1>1, VerdictsHold, PTL

(* A run whose patch carries the whole fix, went in without fuzz and was   *)
(* judged is resolved (eval_runner.py:101-162).                            *)
THEOREM FixesAreScored == Spec => []FixIsScored
<1>1. VerdictsInv => FixIsScored
  BY DEF VerdictsInv, VerdictInv
<1>2. QED
  BY <1>1, VerdictsHold, PTL
-----------------------------------------------------------------------------
(* The database the file is loaded into. *)

HasRun(runs, who) == \E run \in runs : run.model = who
IdOf(runs, who) == (CHOOSE run \in runs : run.model = who).id

(* One run per model, numbered without a gap.                              *)
RunsKept(runs) ==
  /\ IsFiniteSet(runs)
  /\ \A run \in runs : /\ run.id \in Nat /\ run.id <= Cardinality(runs)
                       /\ run = [id |-> run.id, model |-> run.model]
  /\ \A r, s \in runs : r.id = s.id \/ r.model = s.model => r = s

EntryAt(runs, row) ==
  [run |-> IdOf(runs, row.key.model), instance |-> row.key.instance,
   repeat |-> row.key.repeat, status |-> row.status, resolved |-> row.resolved]
EntriesOf(runs, file, n) == {EntryAt(runs, file[k]) : k \in 1..n}

(* The table is the front part of the file that was loaded.                *)
LoadedPart(n) ==
  /\ \A k \in 1..n : HasRun(db.runs, rows[k].key.model)
  /\ db.table = EntriesOf(db.runs, rows, n)
TableInv ==
  /\ RunsKept(db.runs)
  /\ \E n \in 0..Len(rows) : LoadedPart(n)

LEMMA RunOfModel ==
  ASSUME NEW runs, RunsKept(runs), NEW run \in runs
  PROVE  IdOf(runs, run.model) = run.id
BY DEF RunsKept, IdOf

LEMMA RunStays ==
  ASSUME NEW runs, NEW more, RunsKept(more), RunsKept(runs), runs \subseteq more,
         NEW who, HasRun(runs, who)
  PROVE  HasRun(more, who) /\ IdOf(more, who) = IdOf(runs, who)
<1>1. PICK run \in runs : run.model = who
  BY DEF HasRun
<1>2. run \in more
  BY <1>1
<1>3. QED
  BY <1>1, <1>2, RunOfModel DEF HasRun

LEMMA NewRun ==
  ASSUME NEW runs, RunsKept(runs), NEW who, ~HasRun(runs, who)
  PROVE  RunsKept(runs \union {[id |-> Cardinality(runs) + 1, model |-> who]})
<1> DEFINE new == [id |-> Cardinality(runs) + 1, model |-> who]
           more == runs \union {new}
<1>0. Cardinality(runs) \in Nat /\ IsFiniteSet(runs)
  BY FS_CardinalityType DEF RunsKept
<1>1. new.id = Cardinality(runs) + 1 /\ new.model = who
      /\ new = [id |-> new.id, model |-> new.model]
  OBVIOUS
<1> HIDE DEF new
<1>2. new \notin runs
  BY <1>0, <1>1 DEF RunsKept
<1>3. IsFiniteSet(more) /\ Cardinality(more) = Cardinality(runs) + 1
  BY <1>0, <1>2, FS_AddElement
<1>4. \A run \in more : /\ run.id \in Nat /\ run.id <= Cardinality(more)
                        /\ run = [id |-> run.id, model |-> run.model]
  <2>1. \A run \in runs : run.id \in Nat /\ run.id <= Cardinality(more)
    BY <1>0, <1>3 DEF RunsKept
  <2>2. new.id \in Nat /\ new.id <= Cardinality(more)
    BY <1>0, <1>1, <1>3
  <2>3. QED
    BY <1>1, <2>1, <2>2 DEF RunsKept
<1>5. \A r, s \in more : r.id = s.id \/ r.model = s.model => r = s
  <2>1. \A r \in runs : r.id # new.id /\ r.model # new.model
    BY <1>0, <1>1 DEF RunsKept, HasRun
  <2>2. QED
    BY <2>1 DEF RunsKept
<1>6. RunsKept(more)
  BY <1>3, <1>4, <1>5 DEF RunsKept
<1>7. QED
  BY <1>6 DEF new

LEMMA RunFound ==
  ASSUME NEW runs, RunsKept(runs), NEW who
  PROVE  /\ RunsKept(get_or_create_run(runs, who).runs)
         /\ runs \subseteq get_or_create_run(runs, who).runs
         /\ [id |-> get_or_create_run(runs, who).id, model |-> who]
              \in get_or_create_run(runs, who).runs
<1>1. CASE HasRun(runs, who)
  <2>1. PICK run \in runs : run.model = who
    BY <1>1 DEF HasRun
  <2>2. /\ get_or_create_run(runs, who).runs = runs
        /\ get_or_create_run(runs, who).id = IdOf(runs, who)
    BY <1>1 DEF get_or_create_run, IdOf, HasRun
  <2>3. [id |-> IdOf(runs, who), model |-> who] = run
    BY <2>1, RunOfModel DEF RunsKept
  <2>4. QED
    BY <2>2, <2>3
<1>2. CASE ~HasRun(runs, who)
  <2>1. /\ get_or_create_run(runs, who).runs
             = runs \union {[id |-> Cardinality(runs) + 1, model |-> who]}
        /\ get_or_create_run(runs, who).id = Cardinality(runs) + 1
    BY <1>2 DEF get_or_create_run, HasRun
  <2>2. QED
    BY <1>2, <2>1, NewRun
<1>3. QED
  BY <1>1, <1>2

(* What the search for the runs holds after some models.                   *)
Known(s, models, before) ==
  /\ RunsKept(s.runs) /\ before \subseteq s.runs
  /\ DOMAIN s.run_ids = models
  /\ \A m \in models : [id |-> s.run_ids[m], model |-> m] \in s.runs

LEMMA OneRunMore ==
  ASSUME NEW s, NEW models, NEW before, Known(s, models, before), NEW who
  PROVE  Known(FindRun(s, who), models \union {who}, before)
<1>1. CASE who \in models
  BY <1>1 DEF FindRun, Known
<1>2. CASE who \notin models
  <2> DEFINE run == get_or_create_run(s.runs, who)
             ids == [m \in DOMAIN s.run_ids \union {who} |->
                       IF m = who THEN run.id ELSE s.run_ids[m]]
  <2>1. /\ FindRun(s, who).runs = run.runs
        /\ FindRun(s, who).run_ids = ids
    BY <1>2 DEF FindRun, Known
  <2>2. /\ RunsKept(run.runs) /\ s.runs \subseteq run.runs
        /\ [id |-> run.id, model |-> who] \in run.runs
    BY RunFound DEF Known
  <2> HIDE DEF run
  <2>3. /\ DOMAIN ids = models \union {who}
        /\ \A m \in models : ids[m] = s.run_ids[m]
        /\ ids[who] = run.id
    BY <1>2 DEF Known
  <2>4. QED
    BY <2>1, <2>2, <2>3 DEF Known
<1>3. QED
  BY <1>1, <1>2

(* The two loops of load_results: the runs that are known and the table    *)
(* after each row.                                                         *)
Loops(base, file, known, table) ==
  /\ load_results(base, file) = [runs |-> known[Len(file)].runs, table |-> table[Len(file)]]
  /\ known[0] = [runs |-> base.runs, run_ids |-> <<>>]
  /\ \A n \in 1..Len(file) : known[n] = FindRun(known[n - 1], file[n].key.model)
  /\ table[0] = base.table
  /\ \A n \in 1..Len(file) :
       table[n] = insert(table[n - 1], EntryOf(known[Len(file)].run_ids, file[n]))

LEMMA LoopsRun ==
  ASSUME NEW base, NEW file, Len(file) \in Nat
  PROVE  \E known, table : Loops(base, file, known, table)
<1> DEFINE L == Len(file)
           start == [runs |-> base.runs, run_ids |-> <<>>]
           Find(n, s) == FindRun(s, file[n].key.model)
           Known1(n, f) == f = [k \in 0..n |-> IF k = 0 THEN start ELSE Find(k, f[k - 1])]
           K == CHOOSE f : Known1(L, f)
           Row(n, t) == insert(t, EntryOf(K[L].run_ids, file[n]))
           Table1(n, f) == f = [k \in 0..n |-> IF k = 0 THEN base.table ELSE Row(k, f[k - 1])]
           T == CHOOSE f : Table1(L, f)
<1>1. load_results(base, file) = [runs |-> K[L].runs, table |-> T[L]]
  BY DEF load_results
<1> DEFINE Start(c) == IF c = "known" THEN start ELSE base.table
           Step(c, n, x) == IF c = "known" THEN Find(n, x) ELSE Row(n, x)
           Follows(c, n, f) ==
             f = [k \in 0..n |-> IF k = 0 THEN Start(c) ELSE Step(c, k, f[k - 1])]
<1>2. ASSUME NEW c PROVE \E f : Follows(c, L, f)
  <2> HIDE DEF Start, Step
  <2> DEFINE P == {n \in Nat : \E f : Follows(c, n, f)}
  <2>1. 0 \in P
    <3> DEFINE f == [k \in 0..0 |-> Start(c)]
    <3>1. Follows(c, 0, f)
      OBVIOUS
    <3>2. QED
      BY <3>1
  <2>2. ASSUME NEW n \in Nat, n \in P
        PROVE  n + 1 \in P
    <3>1. PICK f : Follows(c, n, f)
      BY <2>2
    <3> DEFINE g == [k \in 0..(n + 1) |-> IF k = n + 1 THEN Step(c, n + 1, f[n]) ELSE f[k]]
    <3>2. ASSUME NEW k \in 0..(n + 1)
          PROVE  g[k] = IF k = 0 THEN Start(c) ELSE Step(c, k, g[k - 1])
      <4>1. CASE k = n + 1
        <5>1. k # 0 /\ k - 1 = n /\ n \in 0..(n + 1) /\ n # n + 1
          BY <4>1
        <5>2. g[n] = f[n] /\ g[k] = Step(c, n + 1, f[n])
          BY <4>1, <5>1
        <5>3. QED
          BY <4>1, <5>1, <5>2
      <4>2. CASE k # n + 1
        <5>1. k \in 0..n /\ (k # 0 => k - 1 \in 0..(n + 1) /\ k - 1 # n + 1)
          BY <4>2
        <5>2. g[k] = f[k] /\ (k # 0 => g[k - 1] = f[k - 1])
          BY <4>2, <5>1
        <5>3. f[k] = IF k = 0 THEN Start(c) ELSE Step(c, k, f[k - 1])
          BY <3>1, <5>1
        <5>4. QED
          BY <5>2, <5>3
      <4>3. QED
        BY <4>1, <4>2
    <3>3. g = [k \in 0..(n + 1) |-> g[k]]
      OBVIOUS
    <3> HIDE DEF g
    <3>4. Follows(c, n + 1, g)
      BY <3>2, <3>3
    <3>5. QED
      BY <3>4
  <2> HIDE DEF P
  <2>3. Nat \subseteq P
    BY <2>1, <2>2, SetInduction
  <2>4. L \in P
    BY <2>3
  <2>5. QED
    BY <2>4 DEF P
<1> HIDE DEF start, Find, Row
<1>3. Known1(L, K)
  <2>1. \E f : Follows("known", L, f)
    BY <1>2
  <2>2. \E f : Known1(L, f)
    BY <2>1
  <2>3. QED
    BY <2>2
<1>4. Table1(L, T)
  <2>1. \E f : Follows("table", L, f)
    BY <1>2
  <2>2. \E f : Table1(L, f)
    BY <2>1
  <2>3. QED
    BY <2>2
<1> HIDE DEF K, T
<1>5. K[0] = start /\ T[0] = base.table
  BY <1>3, <1>4
<1>6. ASSUME NEW n \in 1..L
      PROVE  K[n] = Find(n, K[n - 1]) /\ T[n] = Row(n, T[n - 1])
  <2>1. n \in 0..L /\ n # 0
    OBVIOUS
  <2>2. QED
    BY <1>3, <1>4, <2>1
<1>7. QED
  BY <1>1, <1>5, <1>6 DEF start, Find, Row, Loops

LEMMA RunsKnown ==
  ASSUME NEW before, NEW file, Len(file) \in Nat, RunsKept(before), NEW known,
         known[0] = [runs |-> before, run_ids |-> <<>>],
         \A n \in 1..Len(file) : known[n] = FindRun(known[n - 1], file[n].key.model)
  PROVE  Known(known[Len(file)], {file[k].key.model : k \in 1..Len(file)}, before)
<1> DEFINE Named(n) == {file[k].key.model : k \in 1..n}
           P == {n \in Nat : n <= Len(file) => Known(known[n], Named(n), before)}
<1>1. 0 \in P
  <2>1. Named(0) = {}
    OBVIOUS
  <2>2. known[0].runs = before /\ known[0].run_ids = <<>> /\ DOMAIN <<>> = {}
    OBVIOUS
  <2>3. Known(known[0], Named(0), before)
    BY <2>1, <2>2 DEF Known
  <2>4. QED
    BY <2>3
<1>2. ASSUME NEW n \in Nat, n \in P
      PROVE  n + 1 \in P
  <2> SUFFICES ASSUME n + 1 <= Len(file)
               PROVE  Known(known[n + 1], Named(n + 1), before)
    OBVIOUS
  <2>1. n <= Len(file) /\ n + 1 \in 1..Len(file) /\ (n + 1) - 1 = n
    OBVIOUS
  <2>2. /\ Known(known[n], Named(n), before)
        /\ known[n + 1] = FindRun(known[n], file[n + 1].key.model)
    BY <1>2, <2>1
  <2>3. Named(n + 1) = Named(n) \union {file[n + 1].key.model}
    OBVIOUS
  <2> HIDE DEF Named
  <2>4. QED
    BY <2>2, <2>3, OneRunMore
<1> HIDE DEF P
<1>3. Nat \subseteq P
  BY <1>1, <1>2, SetInduction
<1>4. Len(file) \in P
  BY <1>3
<1>5. QED
  BY <1>4 DEF P

(* Two rows do not go by the same run, instance and repeat.                *)
LEMMA EntriesDiffer ==
  ASSUME ProgressInv, NEW runs, RunsKept(runs),
         NEW j \in 1..Len(rows), NEW k \in 1..Len(rows),
         HasRun(runs, rows[j].key.model), HasRun(runs, rows[k].key.model),
         EntryAt(runs, rows[j]).run = EntryAt(runs, rows[k]).run,
         EntryAt(runs, rows[j]).instance = EntryAt(runs, rows[k]).instance,
         EntryAt(runs, rows[j]).repeat = EntryAt(runs, rows[k]).repeat
  PROVE  j = k
<1> DEFINE a == rows[j].key
           b == rows[k].key
<1>1. a \in KeySet /\ b \in KeySet
  BY DEF ProgressInv, FileInv, Recorded
<1>2. \A key \in KeySet :
        key = [model |-> key.model, instance |-> key.instance, repeat |-> key.repeat]
  <2> DEFINE Records == [model : Models, instance : Instances, repeat : Nat]
  <2>1. keys \in Seq(Records)
    BY EvaluationAssumption DEF ProgressInv, FileInv
  <2>2. \A key \in Records :
          key = [model |-> key.model, instance |-> key.instance, repeat |-> key.repeat]
    OBVIOUS
  <2> HIDE DEF Records
  <2>3. KeySet \subseteq Records
    BY <2>1 DEF KeySet
  <2>4. QED
    BY <2>2, <2>3
<1>3. /\ IdOf(runs, a.model) = IdOf(runs, b.model)
      /\ a.instance = b.instance /\ a.repeat = b.repeat
  BY DEF EntryAt
<1>4. a.model = b.model
  <2>1. PICK r \in runs : r.model = a.model
    BY DEF HasRun
  <2>2. PICK s \in runs : s.model = b.model
    BY DEF HasRun
  <2>3. r.id = s.id
    BY <1>3, <2>1, <2>2, RunOfModel
  <2>4. QED
    BY <2>1, <2>2, <2>3 DEF RunsKept
<1> HIDE DEF a, b
<1>5. a = b
  BY <1>1, <1>2, <1>3, <1>4
<1>6. QED
  BY <1>5 DEF a, b, ProgressInv, FileInv, NoKeyTwice

LEMMA InsertAdds ==
  ASSUME NEW table, NEW e,
         \A f \in table : f.run = e.run /\ f.instance = e.instance /\ f.repeat = e.repeat
                            => f = e
  PROVE  insert(table, e) = table \union {e}
BY DEF insert

(* Loading leaves in the table all rows of the file, each once.            *)
LEMMA TableAfterLoad ==
  ASSUME ProgressInv, TableInv, LoadResults
  PROVE  TableInv'
<1> DEFINE L == Len(rows)
           before == db.runs
<1>1. /\ db' = load_results(db, rows) /\ rows' = rows /\ L \in Nat
      /\ RunsKept(before)
  BY Appended DEF LoadResults, ProgressInv, FileInv, TableInv
<1>2. PICK known, table : Loops(db, rows, known, table)
  BY <1>1, LoopsRun
<1> DEFINE runs == known[L].runs
           ids == known[L].run_ids
<1>3. Known(known[L], {rows[k].key.model : k \in 1..L}, before)
  BY <1>1, <1>2, RunsKnown DEF Loops
<1>4. RunsKept(runs) /\ before \subseteq runs
  BY <1>3 DEF Known
<1>5. ASSUME NEW k \in 1..L
      PROVE  /\ HasRun(runs, rows[k].key.model)
             /\ EntryOf(ids, rows[k]) = EntryAt(runs, rows[k])
  <2> DEFINE who == rows[k].key.model
             run == [id |-> ids[who], model |-> who]
  <2>1. run \in runs /\ run.model = who /\ run.id = ids[who]
    BY <1>3 DEF Known
  <2> HIDE DEF run
  <2>2. HasRun(runs, who) /\ IdOf(runs, who) = ids[who]
    BY <1>4, <2>1, RunOfModel DEF HasRun
  <2>3. QED
    BY <2>2 DEF EntryOf, EntryAt
<1>6. PICK m \in 0..L : /\ \A k \in 1..m : HasRun(before, rows[k].key.model)
                        /\ db.table = EntriesOf(before, rows, m)
  BY DEF TableInv, LoadedPart
<1>7. db.table = EntriesOf(runs, rows, m)
  <2>1. ASSUME NEW k \in 1..m PROVE EntryAt(before, rows[k]) = EntryAt(runs, rows[k])
    <3>1. IdOf(runs, rows[k].key.model) = IdOf(before, rows[k].key.model)
      BY <1>1, <1>4, <1>6, RunStays
    <3>2. QED
      BY <3>1 DEF EntryAt
  <2>2. QED
    BY <1>6, <2>1 DEF EntriesOf
<1> DEFINE All(n) == EntriesOf(runs, rows, m) \union EntriesOf(runs, rows, n)
           P == {n \in Nat : n <= L => table[n] = All(n)}
<1> HIDE DEF runs, ids, before
<1>8. 0 \in P
  <2>1. EntriesOf(runs, rows, 0) = {}
    BY DEF EntriesOf
  <2>2. QED
    BY <1>2, <1>7, <2>1 DEF Loops
<1>9. ASSUME NEW n \in Nat, n \in P
      PROVE  n + 1 \in P
  <2> SUFFICES ASSUME n + 1 <= L
               PROVE  table[n + 1] = All(n + 1)
    OBVIOUS
  <2> DEFINE e == EntryAt(runs, rows[n + 1])
  <2>1. n <= L /\ n + 1 \in 1..L /\ (n + 1) - 1 = n
    BY <1>1
  <2>2. table[n + 1] = insert(All(n), e)
    <3>1. table[n + 1] = insert(table[n], EntryOf(ids, rows[n + 1])) /\ table[n] = All(n)
      BY <1>2, <1>9, <2>1 DEF ids, Loops
    <3>2. EntryOf(ids, rows[n + 1]) = e
      BY <1>5, <2>1
    <3>3. QED
      BY <3>1, <3>2
  <2>3. ASSUME NEW f \in All(n), f.run = e.run, f.instance = e.instance, f.repeat = e.repeat
        PROVE  f = e
    <3>1. PICK j \in 1..L : f = EntryAt(runs, rows[j])
      BY <1>1, <2>1 DEF EntriesOf
    <3>2. j = n + 1
      BY <1>4, <1>5, <2>1, <2>3, <3>1, EntriesDiffer
    <3>3. QED
      BY <3>1, <3>2
  <2>4. table[n + 1] = All(n) \union {e}
    <3> HIDE DEF All, e
    <3>1. QED
      BY <2>2, <2>3, InsertAdds
  <2>5. EntriesOf(runs, rows, n + 1) = EntriesOf(runs, rows, n) \union {e}
    <3>1. 1..(n + 1) = 1..n \union {n + 1}
      OBVIOUS
    <3>2. QED
      BY <3>1 DEF EntriesOf
  <2>6. QED
    BY <2>4, <2>5
<1>10. table[L] = EntriesOf(runs, rows, L)
  <2> HIDE DEF P
  <2>1. Nat \subseteq P
    BY <1>8, <1>9, SetInduction
  <2>2. L \in P
    BY <1>1, <2>1
  <2>3. table[L] = All(L)
    BY <1>1, <2>2 DEF P
  <2>4. EntriesOf(runs, rows, m) \subseteq EntriesOf(runs, rows, L)
    BY <1>1 DEF EntriesOf
  <2>5. QED
    BY <2>3, <2>4
<1>11. db' = [runs |-> runs, table |-> EntriesOf(runs, rows, L)]
  BY <1>1, <1>2, <1>10 DEF runs, Loops
<1>12. db'.runs = runs /\ db'.table = EntriesOf(runs, rows, L)
  BY <1>11
<1>13. LoadedPart(L)'
  BY <1>1, <1>5, <1>12 DEF LoadedPart, EntriesOf, EntryAt
<1>14. L \in 0..Len(rows')
  BY <1>1
<1>15. QED
  BY <1>1, <1>4, <1>12, <1>13, <1>14 DEF TableInv

(* More rows in the file change nothing in the table.                      *)
LEMMA TableStays ==
  ASSUME TableInv, db' = db, Len(rows) \in Nat, Len(rows') \in Nat,
         Len(rows) <= Len(rows'), \A k \in 1..Len(rows) : rows'[k] = rows[k]
  PROVE  TableInv'
<1>1. PICK n \in 0..Len(rows) : LoadedPart(n)
  BY DEF TableInv
<1>2. \A k \in 1..n : rows'[k] = rows[k]
  BY <1>1
<1>3. EntriesOf(db.runs, rows', n) = EntriesOf(db.runs, rows, n)
  BY <1>2 DEF EntriesOf
<1>4. LoadedPart(n)'
  BY <1>1, <1>2, <1>3 DEF LoadedPart
<1>5. n \in 0..Len(rows')
  BY <1>1
<1>6. QED
  BY <1>4, <1>5 DEF TableInv

LEMMA TableStep ==
  ASSUME ProgressInv, TableInv, [Next]_vars
  PROVE  TableInv'
<1>1. CASE LoadResults
  BY <1>1, TableAfterLoad
<1>2. CASE WriteRow
  <2>1. db' = db /\ \E e : rows' = Append(rows, e)
    BY <1>2 DEF WriteRow, dbVars
  <2>2. IsSequence(rows)
    BY DEF ProgressInv, FileInv
  <2>3. /\ Len(rows) \in Nat /\ Len(rows') \in Nat /\ Len(rows) <= Len(rows')
        /\ \A k \in 1..Len(rows) : rows'[k] = rows[k]
    BY <2>1, <2>2, Appended
  <2>4. QED
    BY <2>1, <2>3, TableStays
<1>3. CASE ~LoadResults /\ ~WriteRow
  <2>1. db' = db /\ rows' = rows
    BY <1>3 DEF Next, vars, StartDriver, Skip, Run, AgentStep, AgentRaised, Evaluate,
         EvaluateRaises, Finish, Crash, Over, driverVars, dbVars
  <2>2. Len(rows) \in Nat
    BY Appended DEF ProgressInv, FileInv
  <2>3. QED
    BY <2>1, <2>2, TableStays
<1>4. QED
  BY <1>1, <1>2, <1>3

LEMMA TableStarts ==
  ASSUME Init
  PROVE  TableInv
<1>1. rows = <<>> /\ db.runs = {} /\ db.table = {}
  BY DEF Init
<1>2. RunsKept({})
  BY FS_EmptySet DEF RunsKept
<1>3. LoadedPart(0) /\ 0 \in 0..Len(rows)
  BY <1>1 DEF LoadedPart, EntriesOf
<1>4. QED
  BY <1>1, <1>2, <1>3 DEF TableInv

LEMMA TableHolds ==
  ASSUME ProgressInv, TableInv
  PROVE  TableIsTheFile
<1>1. PICK n \in 0..Len(rows) : LoadedPart(n)
  BY DEF TableInv
<1>2. Len(rows) \in Nat /\ n \in Nat /\ RunsKept(db.runs)
  BY <1>1, Appended DEF ProgressInv, FileInv, TableInv
<1>3. /\ \A k \in 1..n : HasRun(db.runs, rows[k].key.model)
      /\ db.table = {EntryAt(db.runs, rows[k]) : k \in 1..n}
  BY <1>1 DEF LoadedPart, EntriesOf
<1>4. Cardinality(db.table) = n
  <2> DEFINE f == [k \in 1..n |-> EntryAt(db.runs, rows[k])]
  <2>1. /\ f \in [1..n -> db.table]
        /\ \A e \in db.table : \E k \in 1..n : f[k] = e
    BY <1>3
  <2>2. ASSUME NEW j \in 1..n, NEW k \in 1..n, f[j] = f[k]
        PROVE  j = k
    <3>1. j \in 1..Len(rows) /\ k \in 1..Len(rows)
      BY <1>2
    <3>2. EntryAt(db.runs, rows[j]) = EntryAt(db.runs, rows[k])
      BY <2>2
    <3>3. QED
      BY <1>2, <1>3, <3>1, <3>2, EntriesDiffer
  <2> HIDE DEF f
  <2>3. Enumerates(f, n, db.table)
    BY <2>1, <2>2 DEF Enumerates
  <2>4. QED
    BY <1>2, <2>3, EnumerationCounts
<1>5. ASSUME NEW k \in 1..n
      PROVE  ModelOf(EntryAt(db.runs, rows[k]).run) = rows[k].key.model
  <2>1. PICK run \in db.runs : run.model = rows[k].key.model
    BY <1>3 DEF HasRun
  <2>2. EntryAt(db.runs, rows[k]).run = run.id
    BY <1>2, <2>1, RunOfModel DEF EntryAt
  <2>3. (CHOOSE r \in db.runs : r.id = run.id) = run
    BY <1>2, <2>1 DEF RunsKept
  <2>4. QED
    BY <2>1, <2>2, <2>3 DEF ModelOf
<1> DEFINE Out(e) == [model |-> ModelOf(e.run), instance |-> e.instance, repeat |-> e.repeat,
                      status |-> e.status, resolved |-> e.resolved]
           Row(k) == [model |-> rows[k].key.model, instance |-> rows[k].key.instance,
                      repeat |-> rows[k].key.repeat, status |-> rows[k].status,
                      resolved |-> rows[k].resolved]
<1>6. \A k \in 1..n : Out(EntryAt(db.runs, rows[k])) = Row(k)
  BY <1>5 DEF EntryAt
<1>7. Stored(n) = {Row(k) : k \in 1..n}
  BY DEF Stored
<1> HIDE DEF Out, Row
<1>8. Stored(n) = {Out(e) : e \in db.table}
  BY <1>3, <1>6, <1>7
<1>9. QED
  BY <1>1, <1>4, <1>8 DEF TableIsTheFile, Out

(* However often the file is loaded while the driver adds to it, dies and  *)
(* goes on, the database holds the verdicts of its front part, each once,  *)
(* under one run per model (load_results.py:61-135).                       *)
THEOREM DatabaseIsTheFile == Spec => []TableIsTheFile
<1>1. ProgressInv /\ TableInv => TableIsTheFile
  BY TableHolds
<1>2. Init => ProgressInv /\ TableInv
  BY ProgressStarts, TableStarts
<1>3. ProgressInv /\ TableInv /\ [Next]_vars => (ProgressInv /\ TableInv)'
  BY ProgressOfTheDriver, TableStep
<1>4. QED
  BY <1>1, <1>2, <1>3, PTL DEF Spec
=============================================================================
