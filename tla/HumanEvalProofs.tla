-------------------------- MODULE HumanEvalProofs ---------------------------
(***************************************************************************)
(* The spend guard, the ledger and the scores of HumanEval.tla, for every  *)
(* number of problems, samples, workers and restarts, every price, cap and *)
(* reserve, every k.                                                       *)
(***************************************************************************)
EXTENDS HumanEval, Lists, TLAPS

(* The calls a thread has made up its mind to pay for.                     *)
Calling == {call \in calls : call.pc = "call"}
InFlight == Cardinality(Calling)

(* The pool has no more threads than it was given.                         *)
PoolBounded ==
  /\ IsFiniteSet(calls) /\ Cardinality(calls) <= Workers
  /\ stage # "generate" => calls = {}

(* The guard's total is the ledger's, and while it has not tripped there   *)
(* is room for the reserve; calls past the guard leave the ledger alone.   *)
GuardCounts ==
  /\ ledger \in Nat /\ spent = ledger
  /\ stage = "generate" /\ Guarded /\ ~tripped => ledger + Reserve < Cap
  /\ ~Guarded => ledger = 0

(* What is paid and what the calls in flight may still cost. Both are zero *)
(* under a cap that lets no call through at all.                           *)
RoomForCalls ==
  Guarded => \/ ledger + Reserve + Worst * InFlight < Cap + Workers * Worst
             \/ ledger = 0 /\ InFlight = 0

GuardInv == PoolBounded /\ GuardCounts /\ RoomForCalls
-----------------------------------------------------------------------------
LEMMA Constants ==
  Workers \in Nat /\ Workers > 0 /\ Worst \in Nat /\ Cap \in Nat /\ Reserve \in Nat
BY HumanEvalAssumption

LEMMA OneMore ==
  ASSUME NEW S, NEW x, IsFiniteSet(S)
  PROVE  /\ IsFiniteSet(S \union {x}) /\ Cardinality(S) \in Nat
         /\ Cardinality(S \union {x}) \in Nat
         /\ Cardinality(S \union {x}) <= Cardinality(S) + 1
BY FS_AddElement, FS_CardinalityType

LEMMA TimesMonotone ==
  ASSUME NEW w \in Nat, NEW k \in Nat, NEW n \in Nat, k <= n
  PROVE  w * k <= w * n
<1>1. PICK d \in Nat : n = k + d
  <2>1. n - k \in Nat /\ n = k + (n - k)
    OBVIOUS
  <2>2. QED
    BY <2>1
<1>2. w * n = w * k + w * d
  BY <1>1
<1>3. w * d \in Nat /\ w * k \in Nat
  OBVIOUS
<1>4. QED
  BY <1>2, <1>3

(* What a call costs was held room for.                                    *)
LEMMA RoomIsUsed ==
  ASSUME NEW before \in Nat, NEW after \in Nat, NEW r \in Nat, NEW w \in Nat,
         NEW cost \in Nat, NEW bound \in Nat,
         after <= before + cost, before + r + w < bound
  PROVE  after + r + (w - cost) < bound
OBVIOUS

(* The calls in flight are calls of the pool.                              *)
LEMMA InFlightBounded ==
  ASSUME IsFiniteSet(calls)
  PROVE  /\ IsFiniteSet(Calling) /\ InFlight \in Nat
         /\ Cardinality(calls) \in Nat /\ InFlight <= Cardinality(calls)
<1>1. Calling \subseteq calls
  BY DEF Calling
<1>2. QED
  BY <1>1, FS_Subset, FS_CardinalityType DEF InFlight

LEMMA GuardInit == Init => GuardInv
<1> SUFFICES ASSUME Init PROVE GuardInv
  OBVIOUS
<1>1. IsFiniteSet(calls) /\ Cardinality(calls) = 0 /\ Calling = {}
  BY FS_EmptySet DEF Init, Calling
<1>2. InFlight = 0
  BY <1>1, FS_EmptySet DEF InFlight
<1>3. QED
  BY <1>1, <1>2, Constants
  DEF Init, GuardInv, PoolBounded, GuardCounts, RoomForCalls
-----------------------------------------------------------------------------
(* A call that leaves the pool leaves room for a thread, and for money if   *)
(* it was in flight.                                                       *)
LEMMA CallLeaves ==
  ASSUME GuardInv, NEW call \in calls, calls' = calls \ {call}
  PROVE  /\ IsFiniteSet(calls') /\ Cardinality(calls') <= Workers
         /\ InFlight' = IF call.pc = "call" THEN InFlight - 1 ELSE InFlight
<1>1. IsFiniteSet(calls) /\ Cardinality(calls) <= Workers
  BY DEF GuardInv, PoolBounded
<1>2. Calling' = Calling \ {call}
  BY DEF Calling
<1>3. call.pc = "call" <=> call \in Calling
  BY DEF Calling
<1>4. /\ IsFiniteSet(calls') /\ Cardinality(calls') = Cardinality(calls) - 1
      /\ Cardinality(calls) \in Nat
  BY <1>1, FS_RemoveElement, FS_CardinalityType
<1>5. InFlight' = IF call \in Calling THEN InFlight - 1 ELSE InFlight
  BY <1>1, <1>2, InFlightBounded, FS_RemoveElement DEF InFlight
<1>6. QED
  BY <1>1, <1>3, <1>4, <1>5, Constants

(* A command that starts, or dies, has no call in flight.                  *)
LEMMA NoCalls ==
  ASSUME GuardInv, calls' = {}
  PROVE  IsFiniteSet(calls') /\ Cardinality(calls') <= Workers /\ InFlight' = 0
<1>1. Calling' = {}
  BY DEF Calling
<1>2. QED
  BY <1>1, FS_EmptySet, Constants DEF InFlight

LEMMA GuardStart ==
  ASSUME GuardInv, StartGenerate
  PROVE  GuardInv'
<1>1. /\ stage' = "generate" /\ calls' = {} /\ model' = model
      /\ ledger' = ledger /\ spent' = ledger
      /\ tripped' = (Guarded /\ Tripped(ledger))
  BY DEF StartGenerate, SpendGuard
<1>2. IsFiniteSet(calls') /\ Cardinality(calls') <= Workers /\ InFlight' = 0
  BY <1>1, NoCalls
<1>3. PoolBounded'
  BY <1>1, <1>2 DEF PoolBounded
<1>4. GuardCounts'
  <2>1. ledger \in Nat /\ (~Guarded => ledger = 0)
    BY DEF GuardInv, GuardCounts
  <2>2. Guarded' = Guarded
    BY <1>1 DEF Guarded
  <2>3. ASSUME Guarded, ~tripped' PROVE ledger + Reserve < Cap
    <3>1. ~(ledger + Reserve >= Cap)
      BY <1>1, <2>3 DEF Tripped
    <3>2. QED
      BY <2>1, <3>1, Constants
  <2>4. QED
    BY <1>1, <2>1, <2>2, <2>3 DEF GuardCounts
<1>5. RoomForCalls'
  <2> SUFFICES ASSUME Guarded, ledger # 0
               PROVE  ledger + Reserve < Cap + Workers * Worst
    BY <1>1, <1>2, Constants DEF RoomForCalls, Guarded, GuardInv, GuardCounts
  <2>1. ledger + Reserve + Worst * InFlight < Cap + Workers * Worst
    BY DEF GuardInv, RoomForCalls
  <2>2. InFlight \in Nat
    BY InFlightBounded DEF GuardInv, PoolBounded
  <2>3. Worst * InFlight \in Nat
    BY <2>2, Constants
  <2>4. ledger \in Nat /\ Workers * Worst \in Nat
    BY Constants DEF GuardInv, GuardCounts
  <2>5. QED
    BY <2>1, <2>3, <2>4, Constants
<1>6. QED
  BY <1>3, <1>4, <1>5 DEF GuardInv
-----------------------------------------------------------------------------
(* A thread takes a future: it is about to look at the guard, or has none. *)
LEMMA GuardTake ==
  ASSUME GuardInv, Take
  PROVE  GuardInv'
<1>1. PICK k \in queue, pc \in {"check", "call"} :
        /\ calls' = calls \union {Call(SampleMajor[k], pc)}
        /\ Guarded => pc = "check"
  BY DEF Take
<1>2. /\ stage = "generate" /\ stage' = stage /\ model' = model
      /\ ledger' = ledger /\ spent' = spent /\ tripped' = tripped
      /\ Cardinality(calls) < Workers
  BY DEF Take, ThreadFree, guardVars
<1>3. IsFiniteSet(calls) /\ Cardinality(calls) \in Nat
  BY FS_CardinalityType DEF GuardInv, PoolBounded
<1>4. IsFiniteSet(calls') /\ Cardinality(calls') <= Workers
  <2> DEFINE more == calls \union {Call(SampleMajor[k], pc)}
  <2>1. /\ IsFiniteSet(more) /\ Cardinality(more) \in Nat
        /\ Cardinality(more) <= Cardinality(calls) + 1
    BY <1>3, OneMore
  <2>2. calls' = more
    BY <1>1
  <2> HIDE DEF more
  <2>3. QED
    BY <1>2, <1>3, <2>1, <2>2, Constants
<1>5. PoolBounded'
  BY <1>2, <1>4 DEF PoolBounded
<1>6. GuardCounts'
  BY <1>2 DEF GuardInv, GuardCounts, Guarded
<1>7. RoomForCalls'
  <2>1. CASE ~Guarded
    BY <1>2, <2>1 DEF RoomForCalls, Guarded
  <2>2. CASE Guarded
    <3>1. Calling' = Calling
      BY <1>1, <2>2 DEF Calling, Call
    <3>2. InFlight' = InFlight
      BY <3>1 DEF InFlight
    <3>3. QED
      BY <1>2, <3>2 DEF GuardInv, RoomForCalls, Guarded
  <2>3. QED
    BY <2>1, <2>2
<1>8. QED
  BY <1>5, <1>6, <1>7 DEF GuardInv

(* The look at the guard: a call goes out only while there is room for a   *)
(* call of every worker.                                                   *)
LEMMA GuardCheck ==
  ASSUME GuardInv, NEW call \in calls, Check(call)
  PROVE  GuardInv'
<1>1. /\ call.pc = "check" /\ stage' = stage /\ model' = model
      /\ ledger' = ledger /\ spent' = spent /\ tripped' = tripped
  BY DEF Check, guardVars
<1>2. stage = "generate"
  BY DEF GuardInv, PoolBounded
<1>3. GuardCounts'
  BY <1>1 DEF GuardInv, GuardCounts, Guarded
<1>4. CASE tripped
  <2>1. calls' = calls \ {call}
    BY <1>4 DEF Check, Settle
  <2>2. IsFiniteSet(calls') /\ Cardinality(calls') <= Workers /\ InFlight' = InFlight
    BY <1>1, <2>1, CallLeaves
  <2>3. PoolBounded'
    BY <1>1, <1>2, <2>2 DEF PoolBounded
  <2>4. RoomForCalls'
    BY <1>1, <2>2 DEF GuardInv, RoomForCalls, Guarded
  <2>5. QED
    BY <1>3, <2>3, <2>4 DEF GuardInv
<1>5. CASE ~tripped
  <2>1. calls' = (calls \ {call}) \union {Call(call.task, "call")}
    BY <1>5 DEF Check
  <2>2. /\ IsFiniteSet(calls) /\ Cardinality(calls) <= Workers
        /\ Cardinality(calls) \in Nat
    BY FS_CardinalityType DEF GuardInv, PoolBounded
  <2>3. /\ IsFiniteSet(calls \ {call}) /\ Cardinality(calls \ {call}) \in Nat
        /\ Cardinality(calls \ {call}) = Cardinality(calls) - 1
    BY <2>2, FS_RemoveElement, FS_CardinalityType
  <2>4. IsFiniteSet(calls') /\ Cardinality(calls') <= Workers
    <3> DEFINE more == (calls \ {call}) \union {Call(call.task, "call")}
    <3>1. /\ IsFiniteSet(more) /\ Cardinality(more) \in Nat
          /\ Cardinality(more) <= Cardinality(calls \ {call}) + 1
      BY <2>3, OneMore
    <3>2. calls' = more
      BY <2>1
    <3> HIDE DEF more
    <3>3. QED
      BY <2>2, <2>3, <3>1, <3>2, Constants
  <2>5. PoolBounded'
    BY <1>1, <1>2, <2>4 DEF PoolBounded
  <2>6. RoomForCalls'
    <3> SUFFICES ASSUME Guarded
                 PROVE  ledger + Reserve + Worst * InFlight' < Cap + Workers * Worst
      BY <1>1 DEF RoomForCalls, Guarded
    <3>1. ledger \in Nat /\ ledger + Reserve < Cap
      BY <1>2, <1>5 DEF GuardInv, GuardCounts
    <3>2. InFlight' \in Nat /\ InFlight' <= Workers
      <4>1. /\ Calling' \subseteq calls' /\ IsFiniteSet(Calling')
            /\ Cardinality(Calling') \in Nat /\ Cardinality(calls') \in Nat
            /\ Cardinality(Calling') <= Cardinality(calls')
        BY <2>4, FS_Subset, FS_CardinalityType DEF Calling
      <4>2. QED
        BY <2>4, <4>1, Constants DEF InFlight
    <3>3. Worst * InFlight' <= Worst * Workers /\ Worst * InFlight' \in Nat
      <4> HIDE DEF InFlight
      <4>1. \A k \in Nat : k <= Workers => Worst * k <= Worst * Workers /\ Worst * k \in Nat
        BY TimesMonotone, Constants
      <4>2. QED
        BY <3>2, <4>1
    <3>4. Worst * Workers = Workers * Worst /\ Worst * Workers \in Nat
      BY Constants
    <3>5. QED
      BY <3>1, <3>3, <3>4, Constants
  <2>7. QED
    BY <1>3, <2>5, <2>6 DEF GuardInv
<1>6. QED
  BY <1>4, <1>5

(* The answer of a hosted model is paid while its call was held room for.   *)
LEMMA GuardReturns ==
  ASSUME GuardInv, NEW call \in calls, CallReturns(call)
  PROVE  GuardInv'
<1>1. PICK usd \in 1..Worst :
        /\ spent' = spent + usd /\ ledger' = ledger + usd
        /\ tripped' = (tripped \/ Tripped(spent + usd))
  BY DEF CallReturns, record
<1>2. /\ call.pc = "call" /\ Guarded /\ stage' = stage /\ model' = model
      /\ calls' = calls \ {call}
  BY DEF CallReturns, Settle
<1>3. /\ stage = "generate" /\ spent = ledger /\ ledger \in Nat /\ usd \in Nat
  BY Constants DEF GuardInv, PoolBounded, GuardCounts
<1>4. IsFiniteSet(calls') /\ Cardinality(calls') <= Workers /\ InFlight' = InFlight - 1
  BY <1>2, CallLeaves
<1>5. PoolBounded'
  BY <1>2, <1>3, <1>4 DEF PoolBounded
<1>6. GuardCounts'
  <2>1. ASSUME ~tripped' PROVE ledger' + Reserve < Cap
    <3>1. ~(spent + usd + Reserve >= Cap)
      BY <1>1, <2>1 DEF Tripped
    <3>2. QED
      BY <1>1, <1>3, <3>1, Constants
  <2>2. Guarded' = Guarded /\ ledger' \in Nat /\ spent' = ledger'
    BY <1>1, <1>2, <1>3 DEF Guarded
  <2>3. QED
    BY <1>2, <2>1, <2>2 DEF GuardCounts
<1>7. RoomForCalls'
  <2>1. InFlight \in Nat /\ InFlight # 0
    <3>1. IsFiniteSet(Calling) /\ InFlight \in Nat
      BY InFlightBounded DEF GuardInv, PoolBounded
    <3>2. call \in Calling
      BY <1>2 DEF Calling
    <3>3. QED
      BY <3>1, <3>2, FS_EmptySet DEF InFlight
  <2>2. ledger + Reserve + Worst * InFlight < Cap + Workers * Worst
    BY <1>2, <2>1 DEF GuardInv, RoomForCalls
  <2>3. /\ Worst * InFlight' = Worst * InFlight - Worst
        /\ Worst * InFlight \in Nat /\ Workers * Worst \in Nat
    BY <1>4, <2>1, Constants
  <2>4. ledger' <= ledger + Worst
    BY <1>1, <1>3, Constants
  <2>5. ledger' + Reserve + Worst * InFlight' < Cap + Workers * Worst
    <3>1. ledger \in Nat /\ ledger' \in Nat /\ Cap + Workers * Worst \in Nat
      BY <1>1, <1>3, <2>3, Constants
    <3>2. ledger' + Reserve + (Worst * InFlight - Worst) < Cap + Workers * Worst
      BY <2>2, <2>3, <2>4, <3>1, RoomIsUsed, Constants
    <3>3. QED
      BY <2>3, <3>2
  <2>6. QED
    BY <2>5 DEF RoomForCalls
<1>8. QED
  BY <1>5, <1>6, <1>7 DEF GuardInv

(* A call the guard does not hear of: by LiteLLM, or one that has failed.  *)
LEMMA GuardUnpaid ==
  ASSUME GuardInv, NEW call \in calls, LiteLLMReturns(call) \/ CallFails(call)
  PROVE  GuardInv'
<1>1. /\ call.pc = "call" /\ stage' = stage /\ model' = model
      /\ ledger' = ledger /\ spent' = spent /\ tripped' = tripped
      /\ calls' = calls \ {call}
  BY DEF LiteLLMReturns, CallFails, Settle, guardVars
<1>2. IsFiniteSet(calls') /\ Cardinality(calls') <= Workers /\ InFlight' = InFlight - 1
  BY <1>1, CallLeaves
<1>3. PoolBounded' /\ stage = "generate"
  BY <1>1, <1>2 DEF GuardInv, PoolBounded
<1>4. GuardCounts'
  BY <1>1 DEF GuardInv, GuardCounts, Guarded
<1>5. RoomForCalls'
  <2> SUFFICES ASSUME Guarded
               PROVE  ledger + Reserve + Worst * InFlight' < Cap + Workers * Worst
    BY <1>1 DEF RoomForCalls, Guarded
  <2>1. InFlight \in Nat /\ InFlight # 0
    <3>1. IsFiniteSet(Calling) /\ InFlight \in Nat
      BY InFlightBounded DEF GuardInv, PoolBounded
    <3>2. call \in Calling
      BY <1>1 DEF Calling
    <3>3. QED
      BY <3>1, <3>2, FS_EmptySet DEF InFlight
  <2>2. ledger + Reserve + Worst * InFlight < Cap + Workers * Worst
    BY <2>1 DEF GuardInv, RoomForCalls
  <2>3. /\ Worst * InFlight' = Worst * InFlight - Worst
        /\ Worst * InFlight \in Nat /\ Workers * Worst \in Nat /\ ledger \in Nat
    BY <1>2, <2>1, Constants DEF GuardInv, GuardCounts
  <2> DEFINE w == Worst * InFlight
             all == Workers * Worst
  <2>4. /\ w \in Nat /\ all \in Nat /\ Worst * InFlight' = w - Worst /\ ledger \in Nat
        /\ ledger + Reserve + w < Cap + all
    BY <2>2, <2>3
  <2> HIDE DEF w, all
  <2>5. ledger + Reserve + (w - Worst) < Cap + all
    BY <2>4, Constants
  <2>6. QED
    BY <2>4, <2>5 DEF all
<1>6. QED
  BY <1>3, <1>4, <1>5 DEF GuardInv

(* The process dies in the middle of its calls.                            *)
LEMMA GuardCrash ==
  ASSUME GuardInv, Crash
  PROVE  GuardInv'
<1>1. /\ stage' = "none" /\ calls' = {} /\ model' = model
      /\ ledger' = ledger /\ spent' = spent
  BY DEF Crash, guardVars
<1>2. IsFiniteSet(calls') /\ Cardinality(calls') <= Workers /\ InFlight' = 0
  BY <1>1, NoCalls
<1>3. PoolBounded' /\ GuardCounts'
  BY <1>1, <1>2 DEF PoolBounded, GuardInv, GuardCounts, Guarded
<1>4. RoomForCalls'
  <2> SUFFICES ASSUME Guarded, ledger # 0
               PROVE  ledger + Reserve + Worst * 0 < Cap + Workers * Worst
    BY <1>1, <1>2, Constants DEF RoomForCalls, Guarded
  <2>1. ledger + Reserve + Worst * InFlight < Cap + Workers * Worst
    BY DEF GuardInv, RoomForCalls
  <2>2. InFlight \in Nat
    BY InFlightBounded DEF GuardInv, PoolBounded
  <2>3. /\ Worst * InFlight \in Nat /\ Worst * 0 = 0
        /\ ledger \in Nat /\ Workers * Worst \in Nat
    BY <2>2, Constants DEF GuardInv, GuardCounts
  <2>4. QED
    BY <2>1, <2>3, Constants
<1>5. QED
  BY <1>3, <1>4 DEF GuardInv

(* What leaves the pool and the guard alone.                               *)
LEMMA GuardElsewhere ==
  ASSUME GuardInv, UNCHANGED <<calls, guardVars, model>>,
         stage' = stage \/ (calls = {} /\ stage' # "generate")
  PROVE  GuardInv'
<1>1. Calling' = Calling /\ InFlight' = InFlight
  BY DEF Calling, InFlight
<1>2. /\ calls' = calls /\ ledger' = ledger /\ spent' = spent /\ tripped' = tripped
      /\ model' = model
  BY DEF guardVars
<1>3. PoolBounded' /\ GuardCounts' /\ RoomForCalls'
  BY <1>1, <1>2 DEF GuardInv, PoolBounded, GuardCounts, RoomForCalls, Guarded
<1>4. QED
  BY <1>3 DEF GuardInv

LEMMA GuardStep == GuardInv /\ [Next]_vars => GuardInv'
<1> SUFFICES ASSUME GuardInv, [Next]_vars PROVE GuardInv'
  OBVIOUS
<1>1. CASE StartGenerate
  BY <1>1, GuardStart
<1>2. CASE Take
  BY <1>2, GuardTake
<1>3. ASSUME NEW call \in calls, Check(call) PROVE GuardInv'
  BY <1>3, GuardCheck
<1>4. ASSUME NEW call \in calls, CallReturns(call) PROVE GuardInv'
  BY <1>4, GuardReturns
<1>5. ASSUME NEW call \in calls, LiteLLMReturns(call) \/ CallFails(call) PROVE GuardInv'
  BY <1>5, GuardUnpaid
<1>6. CASE Collect \/ EndGenerate
  <2>1. /\ UNCHANGED <<calls, guardVars, model>>
        /\ stage' = stage \/ (calls = {} /\ stage' # "generate")
    BY <1>6 DEF Collect, EndGenerate, poolVars
  <2>2. QED
    BY <2>1, GuardElsewhere
<1>7. CASE StartExecute \/ Execute \/ EndExecute
  <2>1. UNCHANGED <<calls, guardVars, model>>
    BY <1>7 DEF StartExecute, Execute, EndExecute, genVars, poolVars
  <2>2. stage # "generate" /\ stage' # "generate"
    BY <1>7 DEF StartExecute, Execute, EndExecute
  <2>3. calls = {}
    BY <2>2 DEF GuardInv, PoolBounded
  <2>4. QED
    BY <2>1, <2>2, <2>3, GuardElsewhere
<1>8. CASE Crash
  BY <1>8, GuardCrash
<1>9. CASE UNCHANGED vars
  <2>1. UNCHANGED <<calls, guardVars, model>> /\ stage' = stage
    BY <1>9 DEF vars, genVars, poolVars
  <2>2. QED
    BY <2>1, GuardElsewhere
<1>10. QED
  BY <1>1, <1>2, <1>3, <1>4, <1>5, <1>6, <1>7, <1>8, <1>9 DEF Next, Pool, Main
-----------------------------------------------------------------------------
(* The spend guard holds in every reachable state: what the ledger counts, *)
(* over all commands, restarts and failures of a directory, stays below    *)
(* the cap plus what the workers' dearest calls exceed the reserve by,     *)
(* although the guard is read without its lock (spend.py:46-67).           *)
THEOREM SpendGuardHolds == Spec => []BreakerHolds
<1>1. GuardInv => BreakerHolds
  <2> SUFFICES ASSUME GuardInv, ledger # 0
               PROVE  ledger + Reserve < Cap + Workers * Worst
    BY DEF BreakerHolds
  <2>1. ledger + Reserve + Worst * InFlight < Cap + Workers * Worst
    BY DEF GuardInv, GuardCounts, RoomForCalls
  <2>2. InFlight \in Nat
    BY InFlightBounded DEF GuardInv, PoolBounded
  <2>3. Worst * InFlight \in Nat /\ ledger \in Nat /\ Workers * Worst \in Nat
    BY <2>2, Constants DEF GuardInv, GuardCounts
  <2>4. QED
    BY <2>1, <2>3, Constants
<1>2. QED
  BY <1>1, GuardInit, GuardStep, PTL DEF Spec
-----------------------------------------------------------------------------
(***************************************************************************)
(* What is generated and what is scored: a task is in one place at a time. *)
(***************************************************************************)
OnePerTask(rows) == \A a, b \in rows : a.task = b.task => a = b

Queued == {SampleMajor[k] : k \in queue}

(* A task waits in the queue, is in a thread's hand, has an outcome, or has *)
(* its row, and only one of these.                                          *)
RowsInv ==
  /\ model \in Models /\ queue \subseteq DOMAIN SampleMajor
  /\ stage # "generate" => queue = {} /\ calls = {} /\ finished = {}
  /\ OnePerTask(calls) /\ OnePerTask(finished) /\ OnePerTask(completions)
  /\ Queued \intersect (TasksOf(calls) \union TasksOf(finished) \union TasksOf(completions)) = {}
  /\ TasksOf(calls) \intersect (TasksOf(finished) \union TasksOf(completions)) = {}
  /\ TasksOf(finished) \intersect TasksOf(completions) = {}

(* The same of a row that is to be run, and its result.                    *)
ScoredInv ==
  /\ stage # "execute" => unscored = {} /\ buffered = {}
  /\ OnePerTask(results \union buffered)
  /\ TasksOf(results \union buffered) \subseteq TasksOf(completions)
  /\ unscored \subseteq TasksOf(completions) \ TasksOf(results \union buffered)

LEMMA Divided ==
  ASSUME NEW P \in Nat \ {0}, NEW n \in Nat
  PROVE  n % P \in 0..(P - 1) /\ n \div P \in Nat /\ n = P * (n \div P) + (n % P)
OBVIOUS

(* No task is twice in the order.                                          *)
LEMMA OrderedOnce ==
  ASSUME model \in Models,
         NEW j \in DOMAIN SampleMajor, NEW k \in DOMAIN SampleMajor,
         SampleMajor[j] = SampleMajor[k]
  PROVE  j = k
<1>1. Problems \in Nat \ {0} /\ N[model] \in Nat
  BY HumanEvalAssumption
<1>2. Problems * N[model] \in Nat
  BY <1>1
<1>3. j - 1 \in Nat /\ k - 1 \in Nat /\ j \in Nat /\ k \in Nat
  BY <1>2 DEF SampleMajor
<1>4. /\ (j - 1) % Problems = (k - 1) % Problems
      /\ (j - 1) \div Problems = (k - 1) \div Problems
  BY <1>3 DEF SampleMajor
<1>5. /\ j - 1 = Problems * ((j - 1) \div Problems) + ((j - 1) % Problems)
      /\ k - 1 = Problems * ((k - 1) \div Problems) + ((k - 1) % Problems)
  BY <1>1, <1>3, Divided
<1>6. j - 1 = k - 1
  BY <1>4, <1>5
<1>7. QED
  BY <1>3, <1>6

LEMMA RowLeaves ==
  ASSUME NEW rows, NEW a \in rows, OnePerTask(rows)
  PROVE  /\ OnePerTask(rows \ {a})
         /\ TasksOf(rows \ {a}) = TasksOf(rows) \ {a.task}
         /\ a.task \in TasksOf(rows)
BY DEF OnePerTask, TasksOf

LEMMA RowComes ==
  ASSUME NEW rows, NEW a, OnePerTask(rows), a.task \notin TasksOf(rows)
  PROVE  /\ OnePerTask(rows \union {a})
         /\ TasksOf(rows \union {a}) = TasksOf(rows) \union {a.task}
BY DEF OnePerTask, TasksOf

LEMMA FewerRows ==
  ASSUME NEW rows, NEW some, some \subseteq rows, OnePerTask(rows)
  PROVE  OnePerTask(some) /\ TasksOf(some) \subseteq TasksOf(rows)
BY DEF OnePerTask, TasksOf

LEMMA RowsInit == Init => RowsInv /\ ScoredInv
BY DEF Init, RowsInv, ScoredInv, OnePerTask, TasksOf, Queued

LEMMA RowsStart ==
  ASSUME RowsInv, StartGenerate
  PROVE  RowsInv'
<1>1. /\ queue' = Todo /\ finished' = {} /\ calls' = {} /\ stage' = "generate"
      /\ completions' = completions /\ model' = model
  BY DEF StartGenerate
<1>2. SampleMajor' = SampleMajor
  BY <1>1 DEF SampleMajor
<1>3. Queued' \intersect TasksOf(completions) = {}
  BY <1>1, <1>2 DEF Queued, Todo
<1>4. queue' \subseteq DOMAIN SampleMajor
  BY <1>1 DEF Todo
<1>5. TasksOf({}) = {} /\ OnePerTask({})
  BY DEF TasksOf, OnePerTask
<1>6. QED
  BY <1>1, <1>2, <1>3, <1>4, <1>5 DEF RowsInv

LEMMA RowsTake ==
  ASSUME RowsInv, Take
  PROVE  RowsInv'
<1>1. PICK k \in queue, pc \in {"check", "call"} :
        /\ calls' = calls \union {Call(SampleMajor[k], pc)}
        /\ queue' = queue \ {k}
  BY DEF Take
<1>2. /\ stage = "generate" /\ stage' = stage /\ finished' = finished
      /\ completions' = completions /\ model' = model
  BY DEF Take
<1>3. SampleMajor' = SampleMajor
  BY <1>2 DEF SampleMajor
<1>4. Queued' = Queued \ {SampleMajor[k]} /\ SampleMajor[k] \in Queued
  BY <1>1, <1>3, OrderedOnce DEF Queued, RowsInv
<1>5. SampleMajor[k] \notin TasksOf(calls)
  BY <1>4 DEF RowsInv
<1>6. Call(SampleMajor[k], pc).task = SampleMajor[k]
  BY DEF Call
<1>7. /\ OnePerTask(calls')
      /\ TasksOf(calls') = TasksOf(calls) \union {SampleMajor[k]}
  BY <1>1, <1>5, <1>6, RowComes DEF RowsInv
<1>8. QED
  BY <1>1, <1>2, <1>3, <1>4, <1>7 DEF RowsInv

(* A call that ends gives its task to its outcome.                         *)
LEMMA RowsSettle ==
  ASSUME RowsInv, NEW call \in calls, NEW kind, NEW cost, Settle(call, kind, cost),
         UNCHANGED <<stage, model, queue, completions>>
  PROVE  RowsInv'
<1> DEFINE outcome == [task |-> call.task, kind |-> kind, cost |-> cost]
<1>1. calls' = calls \ {call} /\ finished' = finished \union {outcome}
  BY DEF Settle
<1>2. SampleMajor' = SampleMajor /\ Queued' = Queued
  BY DEF SampleMajor, Queued
<1>3. /\ OnePerTask(calls') /\ TasksOf(calls') = TasksOf(calls) \ {call.task}
      /\ call.task \in TasksOf(calls)
  BY <1>1, RowLeaves DEF RowsInv
<1>4. outcome.task = call.task
  OBVIOUS
<1>5. call.task \notin TasksOf(finished)
  BY <1>3 DEF RowsInv
<1> HIDE DEF outcome
<1>6. /\ OnePerTask(finished')
      /\ TasksOf(finished') = TasksOf(finished) \union {call.task}
  BY <1>1, <1>4, <1>5, RowComes DEF RowsInv
<1>7. stage = "generate"
  BY DEF RowsInv
<1>8. QED
  BY <1>2, <1>3, <1>6, <1>7 DEF RowsInv

LEMMA RowsCheck ==
  ASSUME RowsInv, NEW call \in calls, Check(call)
  PROVE  RowsInv'
<1>1. UNCHANGED <<stage, model, queue, completions>>
  BY DEF Check
<1>2. CASE tripped
  BY <1>1, <1>2, RowsSettle DEF Check
<1>3. CASE ~tripped
  <2>1. calls' = (calls \ {call}) \union {Call(call.task, "call")} /\ finished' = finished
    BY <1>3 DEF Check
  <2>2. SampleMajor' = SampleMajor /\ Queued' = Queued
    BY <1>1 DEF SampleMajor, Queued
  <2>3. /\ OnePerTask(calls \ {call}) /\ call.task \in TasksOf(calls)
        /\ TasksOf(calls \ {call}) = TasksOf(calls) \ {call.task}
    BY RowLeaves DEF RowsInv
  <2>4. Call(call.task, "call").task = call.task
    BY DEF Call
  <2>5. OnePerTask(calls') /\ TasksOf(calls') = TasksOf(calls)
    <3>1. PICK rest, again : rest = calls \ {call} /\ again = Call(call.task, "call")
      OBVIOUS
    <3>2. OnePerTask(rest) /\ again.task \notin TasksOf(rest)
      BY <2>3, <2>4, <3>1
    <3>3. /\ OnePerTask(rest \union {again})
          /\ TasksOf(rest \union {again}) = TasksOf(rest) \union {again.task}
      BY <3>2, RowComes
    <3>4. TasksOf(rest) \union {again.task} = TasksOf(calls)
      BY <2>3, <2>4, <3>1
    <3>5. QED
      BY <2>1, <3>1, <3>3, <3>4
  <2>6. stage = "generate"
    BY DEF RowsInv
  <2>7. QED
    BY <1>1, <2>1, <2>2, <2>5, <2>6 DEF RowsInv
<1>4. QED
  BY <1>2, <1>3

LEMMA RowsCollect ==
  ASSUME RowsInv, Collect
  PROVE  RowsInv'
<1>1. PICK f \in finished :
        /\ finished' = finished \ {f}
        /\ completions' =
             IF IsRow(f)
             THEN completions \union {[task |-> f.task, cost |-> f.cost, command |-> command]}
             ELSE completions
  BY DEF Collect
<1>2. stage = "generate" /\ UNCHANGED <<stage, model, queue, calls>>
  BY DEF Collect
<1>3. SampleMajor' = SampleMajor /\ Queued' = Queued
  BY <1>2 DEF SampleMajor, Queued
<1>4. /\ OnePerTask(finished') /\ f.task \in TasksOf(finished)
      /\ TasksOf(finished') = TasksOf(finished) \ {f.task}
  BY <1>1, RowLeaves DEF RowsInv
<1>5. /\ OnePerTask(completions')
      /\ \/ TasksOf(completions') = TasksOf(completions)
         \/ TasksOf(completions') = TasksOf(completions) \union {f.task}
  <2> DEFINE row == [task |-> f.task, cost |-> f.cost, command |-> command]
  <2>1. row.task = f.task /\ f.task \notin TasksOf(completions)
    BY <1>4 DEF RowsInv
  <2>2. completions' = completions \/ completions' = completions \union {row}
    BY <1>1
  <2>3. OnePerTask(completions)
    BY DEF RowsInv
  <2> HIDE DEF row
  <2>4. /\ OnePerTask(completions \union {row})
        /\ TasksOf(completions \union {row}) = TasksOf(completions) \union {row.task}
    BY <2>1, <2>3, RowComes
  <2>5. QED
    BY <2>1, <2>2, <2>3, <2>4
<1>6. QED
  BY <1>2, <1>3, <1>4, <1>5 DEF RowsInv

(* The pool is empty when a command ends or dies.                          *)
LEMMA RowsEmpty ==
  ASSUME RowsInv, queue' = {}, calls' = {}, finished' = {},
         UNCHANGED <<model, completions>>
  PROVE  RowsInv'
<1>1. TasksOf({}) = {} /\ OnePerTask({})
  BY DEF TasksOf, OnePerTask
<1>2. Queued' = {} /\ SampleMajor' = SampleMajor
  BY DEF Queued, SampleMajor
<1>3. QED
  BY <1>1, <1>2 DEF RowsInv

LEMMA RowsKept ==
  ASSUME RowsInv, UNCHANGED <<model, poolVars, completions>>, stage # "generate",
         stage' # "generate"
  PROVE  RowsInv'
<1>1. SampleMajor' = SampleMajor /\ Queued' = Queued
  BY DEF SampleMajor, Queued, poolVars
<1>2. QED
  BY <1>1 DEF RowsInv, poolVars

LEMMA RowsStep == RowsInv /\ [Next]_vars => RowsInv'
<1> SUFFICES ASSUME RowsInv, [Next]_vars PROVE RowsInv'
  OBVIOUS
<1>1. CASE StartGenerate
  BY <1>1, RowsStart
<1>2. CASE Take
  BY <1>2, RowsTake
<1>3. ASSUME NEW call \in calls, Check(call) PROVE RowsInv'
  BY <1>3, RowsCheck
<1>4. ASSUME NEW call \in calls, CallReturns(call) PROVE RowsInv'
  <2>1. PICK usd : Settle(call, "row", usd)
    BY <1>4 DEF CallReturns
  <2>2. UNCHANGED <<stage, model, queue, completions>>
    BY <1>4 DEF CallReturns
  <2>3. QED
    BY <2>1, <2>2, RowsSettle
<1>5. ASSUME NEW call \in calls, LiteLLMReturns(call) \/ CallFails(call) PROVE RowsInv'
  <2>1. UNCHANGED <<stage, model, queue, completions>>
    BY <1>5 DEF LiteLLMReturns, CallFails
  <2>2. \E usd : Settle(call, "row", usd) \/ Settle(call, "error", usd)
    BY <1>5 DEF LiteLLMReturns, CallFails
  <2>3. QED
    BY <2>1, <2>2, RowsSettle
<1>6. CASE Collect
  BY <1>6, RowsCollect
<1>7. CASE EndGenerate \/ Crash
  <2>1. queue' = {} /\ calls' = {} /\ finished' = {} /\ UNCHANGED <<model, completions>>
    BY <1>7 DEF EndGenerate, Crash, poolVars
  <2>2. QED
    BY <2>1, RowsEmpty
<1>8. CASE StartExecute \/ Execute \/ EndExecute
  <2>1. UNCHANGED <<model, poolVars, completions>> /\ stage # "generate" /\ stage' # "generate"
    BY <1>8 DEF StartExecute, Execute, EndExecute, genVars
  <2>2. QED
    BY <2>1, RowsKept
<1>9. CASE UNCHANGED vars
  <2>1. UNCHANGED <<model, queue, calls, finished, completions, stage>>
    BY <1>9 DEF vars, genVars, poolVars
  <2>2. SampleMajor' = SampleMajor /\ Queued' = Queued
    BY <2>1 DEF SampleMajor, Queued
  <2>3. QED
    BY <2>1, <2>2 DEF RowsInv
<1>10. QED
  BY <1>1, <1>2, <1>3, <1>4, <1>5, <1>6, <1>7, <1>8, <1>9 DEF Next, Pool, Main
-----------------------------------------------------------------------------
(* Rows are only added to a completions file, by a command that scores      *)
(* nothing.                                                                *)
LEMMA ScoredApart ==
  ASSUME ScoredInv, UNCHANGED execVars, completions \subseteq completions',
         stage' = stage \/ stage # "execute"
  PROVE  ScoredInv'
<1>1. TasksOf(completions) \subseteq TasksOf(completions')
  BY DEF TasksOf
<1>2. unscored' = unscored /\ buffered' = buffered /\ results' = results
  BY DEF execVars
<1>3. QED
  BY <1>1, <1>2 DEF ScoredInv

LEMMA ScoredStart ==
  ASSUME ScoredInv, StartExecute
  PROVE  ScoredInv'
<1>1. /\ unscored' = TasksOf(completions) \ TasksOf(results) /\ buffered' = {}
      /\ results' = results /\ completions' = completions /\ stage' = "execute"
  BY DEF StartExecute, genVars
<1>2. results \union buffered' = results
  BY <1>1
<1>3. OnePerTask(results) /\ TasksOf(results) \subseteq TasksOf(completions)
  <2>1. results \subseteq results \union buffered
    OBVIOUS
  <2>2. OnePerTask(results \union buffered)
        /\ TasksOf(results \union buffered) \subseteq TasksOf(completions)
    BY DEF ScoredInv
  <2>3. QED
    BY <2>1, <2>2, FewerRows
<1>4. QED
  BY <1>1, <1>2, <1>3 DEF ScoredInv

LEMMA ScoredExecute ==
  ASSUME ScoredInv, Execute
  PROVE  ScoredInv'
<1>1. PICK t \in unscored :
        /\ \E row : row.task = t /\ buffered' = buffered \union {row}
        /\ unscored' = unscored \ {t}
  <2>1. PICK t \in unscored :
          LET program == assemble_program(extract_code(Reply[t])) IN
          \E proc \in Containers(program) :
          /\ buffered' = buffered \union {[task |-> t, assembly_mode |-> program.mode,
                                          outcome |-> run_program(proc), command |-> command]}
          /\ unscored' = unscored \ {t}
    BY DEF Execute
  <2> DEFINE program == assemble_program(extract_code(Reply[t]))
  <2>2. PICK proc \in Containers(program) :
          /\ buffered' = buffered \union {[task |-> t, assembly_mode |-> program.mode,
                                          outcome |-> run_program(proc), command |-> command]}
          /\ unscored' = unscored \ {t}
    BY <2>1, Zenon
  <2> DEFINE row == [task |-> t, assembly_mode |-> program.mode,
                     outcome |-> run_program(proc), command |-> command]
  <2>3. row.task = t /\ buffered' = buffered \union {row}
    BY <2>2, Zenon
  <2> HIDE DEF row, program
  <2>4. QED
    BY <2>2, <2>3
<1>2. PICK row : row.task = t /\ buffered' = buffered \union {row}
  BY <1>1
<1>3. /\ stage = "execute" /\ stage' = stage /\ results' = results
      /\ completions' = completions
  BY DEF Execute, genVars
<1>4. PICK rows : rows = results \union buffered
  OBVIOUS
<1>5. OnePerTask(rows) /\ row.task \notin TasksOf(rows)
  BY <1>2, <1>4 DEF ScoredInv
<1>6. /\ OnePerTask(rows \union {row})
      /\ TasksOf(rows \union {row}) = TasksOf(rows) \union {row.task}
  BY <1>5, RowComes
<1>7. (results \union buffered)' = rows \union {row}
  BY <1>2, <1>3, <1>4
<1>8. QED
  BY <1>1, <1>2, <1>3, <1>4, <1>6, <1>7 DEF ScoredInv

(* A command that ends or dies leaves some of its rows.                    *)
LEMMA ScoredEnds ==
  ASSUME ScoredInv, EndExecute \/ Crash
  PROVE  ScoredInv'
<1>1. PICK some : some \subseteq results \union buffered /\ results' = some
  BY DEF EndExecute, Crash
<1>2. unscored' = {} /\ buffered' = {} /\ completions' = completions
  BY DEF EndExecute, Crash, genVars
<1>3. OnePerTask(results \union buffered)
      /\ TasksOf(results \union buffered) \subseteq TasksOf(completions)
  BY DEF ScoredInv
<1>4. OnePerTask(some) /\ TasksOf(some) \subseteq TasksOf(completions)
  BY <1>1, <1>3, FewerRows
<1>5. (results \union buffered)' = some
  BY <1>1, <1>2
<1>6. QED
  BY <1>2, <1>4, <1>5 DEF ScoredInv

LEMMA ScoredStep == ScoredInv /\ [Next]_vars => ScoredInv'
<1> SUFFICES ASSUME ScoredInv, [Next]_vars PROVE ScoredInv'
  OBVIOUS
<1>1. CASE StartGenerate \/ Pool \/ Main
  <2>1. UNCHANGED execVars /\ completions \subseteq completions'
    BY <1>1, Zenon
    DEF StartGenerate, Pool, Main, Take, Check, CallReturns, LiteLLMReturns, CallFails,
        Collect, EndGenerate
  <2>2. stage # "execute" \/ stage' = stage
    BY <1>1 DEF StartGenerate, Pool, Main, Take, Check, CallReturns, LiteLLMReturns,
        CallFails, Collect, EndGenerate
  <2>3. QED
    BY <2>1, <2>2, ScoredApart
<1>2. CASE StartExecute
  BY <1>2, ScoredStart
<1>3. CASE Execute
  BY <1>3, ScoredExecute
<1>4. CASE EndExecute \/ Crash
  BY <1>4, ScoredEnds
<1>5. CASE UNCHANGED vars
  BY <1>5 DEF vars, genVars, execVars, ScoredInv
<1>6. QED
  BY <1>1, <1>2, <1>3, <1>4, <1>5 DEF Next
-----------------------------------------------------------------------------
(* No sample has two rows in a file and what is scored was generated, for  *)
(* any number of problems, samples, threads, commands and crashes          *)
(* (generate.py:146-158, __main__.py:102-124).                             *)
THEOREM EverySampleOnce == Spec => []OneRowPerSample
<1>1. RowsInv /\ ScoredInv => OneRowPerSample
  <2> SUFFICES ASSUME RowsInv, ScoredInv PROVE OneRowPerSample
    OBVIOUS
  <2>1. /\ OnePerTask(completions) /\ OnePerTask(results \union buffered)
        /\ TasksOf(results \union buffered) \subseteq TasksOf(completions)
    BY DEF RowsInv, ScoredInv
  <2>2. ASSUME NEW rows \in {completions, results \union buffered} PROVE OnePerTask(rows)
    BY <2>1, Zenon
  <2>3. QED
    BY <2>1, <2>2, Zenon DEF OneRowPerSample, OnePerTask
<1>2. QED
  BY <1>1, RowsInit, RowsStep, ScoredStep, PTL DEF Spec
-----------------------------------------------------------------------------
(* A result and what its reply was.                                        *)
Judged(row) ==
  LET right == extract_code(Reply[row.task]).right
  IN /\ row.outcome = "passed" => right
     /\ row.outcome \in {"failed", "error", "collection_error"} => ~right

JudgedInv == \A row \in results \union buffered : Judged(row)

(* However a container ends, the outcome that is read from it does not     *)
(* contradict the check.                                                   *)
LEMMA OutcomeIsTrue ==
  ASSUME NEW code, NEW proc \in Containers(assemble_program(code))
  PROVE  /\ run_program(proc) = "passed" => code.right
         /\ run_program(proc) \in {"failed", "error", "collection_error"} => ~code.right
<1>1. assemble_program(code).right = code.right
  BY DEF assemble_program
<1>2. CASE code.right
  <2>1. \/ proc.late = TRUE
        \/ proc.late = FALSE /\ proc.report = "none"
        \/ proc.late = FALSE /\ proc.code = 0 /\ proc.report = "passed"
    BY <1>1, <1>2 DEF Containers
  <2>2. run_program(proc) \in {"timeout", "resource_killed", "no_report", "passed"}
    BY <2>1 DEF run_program, TestPassed
  <2>3. QED
    BY <1>2, <2>2
<1>3. CASE ~code.right
  <2>1. \/ proc.late = TRUE
        \/ proc.late = FALSE /\ proc.report \in {"none", "assertion", "exception",
                                                  "collection", "empty"}
    BY <1>1, <1>3 DEF Containers
  <2>2. run_program(proc) # "passed"
    BY <2>1 DEF run_program, TestPassed
  <2>3. QED
    BY <1>3, <2>2
<1>4. QED
  BY <1>2, <1>3

LEMMA JudgedStep == JudgedInv /\ [Next]_vars => JudgedInv'
<1> SUFFICES ASSUME JudgedInv, [Next]_vars PROVE JudgedInv'
  OBVIOUS
<1>1. CASE Execute
  <2>1. PICK t \in unscored :
          LET program == assemble_program(extract_code(Reply[t])) IN
          \E proc \in Containers(program) :
          /\ buffered' = buffered \union {[task |-> t, assembly_mode |-> program.mode,
                                          outcome |-> run_program(proc), command |-> command]}
          /\ unscored' = unscored \ {t}
    BY <1>1 DEF Execute
  <2> DEFINE code == extract_code(Reply[t])
             program == assemble_program(code)
  <2>2. PICK proc \in Containers(program) :
          buffered' = buffered \union {[task |-> t, assembly_mode |-> program.mode,
                                       outcome |-> run_program(proc), command |-> command]}
    BY <2>1, Zenon
  <2> DEFINE row == [task |-> t, assembly_mode |-> program.mode,
                     outcome |-> run_program(proc), command |-> command]
  <2>3. row.task = t /\ row.outcome = run_program(proc) /\ buffered' = buffered \union {row}
    BY <2>2, Zenon
  <2>4. /\ run_program(proc) = "passed" => code.right
        /\ run_program(proc) \in {"failed", "error", "collection_error"} => ~code.right
    <3> HIDE DEF code
    <3>1. QED
      BY <2>2, OutcomeIsTrue
  <2> HIDE DEF row
  <2>5. Judged(row)
    BY <2>3, <2>4, Zenon DEF Judged
  <2>6. results' = results
    BY <1>1 DEF Execute
  <2>7. QED
    BY <2>3, <2>5, <2>6 DEF JudgedInv
<1>2. CASE EndExecute \/ Crash
  <2>1. results' \subseteq results \union buffered /\ buffered' = {}
    BY <1>2 DEF EndExecute, Crash
  <2>2. QED
    BY <2>1 DEF JudgedInv
<1>3. CASE StartExecute
  BY <1>3 DEF StartExecute, JudgedInv
<1>4. CASE StartGenerate \/ Pool \/ Main \/ UNCHANGED vars
  <2>1. UNCHANGED <<results, buffered>>
    BY <1>4, Zenon
    DEF StartGenerate, Pool, Main, Take, Check, CallReturns, LiteLLMReturns, CallFails,
        Collect, EndGenerate, execVars, vars
  <2>2. QED
    BY <2>1 DEF JudgedInv
<1>5. QED
  BY <1>1, <1>2, <1>3, <1>4 DEF Next

(* A sample is scored as passed only if its code is right, and as failed   *)
(* only if it is not, whatever the replies and however a container ends    *)
(* (executor.py:45-82).                                                    *)
THEOREM ScoresAreTrue == Spec => []PassedByCheck
<1>1. Init => JudgedInv
  BY DEF Init, JudgedInv
<1>2. JudgedInv => PassedByCheck
  BY Zenon DEF JudgedInv, PassedByCheck, Judged
<1>3. QED
  BY <1>1, <1>2, JudgedStep, PTL DEF Spec
-----------------------------------------------------------------------------
(***************************************************************************)
(* Where the breaker stops a run: the tasks of the first T places, but for *)
(* those in other threads' hands at that moment, and no later one.         *)
(***************************************************************************)
Total == Problems * N[model]
Prefix(T) == {SampleMajor[k] : k \in 1..T}
OfProblem(tasks, p) == {t \in tasks : t[1] = p}

LEMMA Placed ==
  ASSUME NEW P \in Nat \ {0}, NEW p \in 0..(P - 1), NEW s \in Nat
  PROVE  (s * P + p) % P = p /\ (s * P + p) \div P = s
OBVIOUS

LEMMA Earlier ==
  ASSUME NEW P \in Nat \ {0}, NEW p \in 0..(P - 1), NEW q \in 0..(P - 1), NEW s \in Nat \ {0}
  PROVE  (s - 1) * P + q \in Nat /\ (s - 1) * P + q < P * s + p
<1>1. (s - 1) * P = P * s - P /\ (s - 1) * P \in Nat
  OBVIOUS
<1>2. P * s \in Nat
  OBVIOUS
<1>3. QED
  BY <1>1, <1>2

LEMMA TotalType == model \in Models => Total \in Nat /\ DOMAIN SampleMajor = 1..Total
<1> SUFFICES ASSUME model \in Models PROVE Total \in Nat /\ DOMAIN SampleMajor = 1..Total
  OBVIOUS
<1>1. Problems \in Nat /\ N[model] \in Nat
  BY HumanEvalAssumption
<1>2. QED
  BY <1>1 DEF Total, SampleMajor

(* As many records, or more, as tasks among them.                          *)
LEMMA TasksFewer ==
  ASSUME NEW rows, IsFiniteSet(rows)
  PROVE  IsFiniteSet(TasksOf(rows)) /\ Cardinality(TasksOf(rows)) <= Cardinality(rows)
<1> DEFINE f == [row \in rows |-> row.task]
<1>1. f \in Surjection(rows, TasksOf(rows))
  BY DEF Surjection, TasksOf
<1> HIDE DEF f
<1>2. QED
  BY <1>1, FS_Surjection

LEMMA PrefixFinite ==
  ASSUME NEW T \in Nat
  PROVE  IsFiniteSet(Prefix(T))
<1> DEFINE f == [k \in 1..T |-> SampleMajor[k]]
<1>1. f \in Surjection(1..T, Prefix(T))
  BY DEF Surjection, Prefix
<1>2. IsFiniteSet(1..T)
  BY FS_Interval
<1> HIDE DEF f
<1>3. QED
  BY <1>1, <1>2, FS_Surjection

LEMMA OfBoth ==
  ASSUME NEW S, NEW T, IsFiniteSet(S), IsFiniteSet(T)
  PROVE  /\ IsFiniteSet(S \union T) /\ Cardinality(S \union T) \in Nat
         /\ Cardinality(S) \in Nat /\ Cardinality(T) \in Nat
         /\ Cardinality(S \union T) <= Cardinality(S) + Cardinality(T)
<1>1. /\ IsFiniteSet(S \union T)
      /\ Cardinality(S \union T) = Cardinality(S) + Cardinality(T) - Cardinality(S \intersect T)
  BY FS_Union
<1>2. IsFiniteSet(S \intersect T)
  BY FS_Subset
<1>3. /\ Cardinality(S \intersect T) \in Nat /\ Cardinality(S) \in Nat
      /\ Cardinality(T) \in Nat /\ Cardinality(S \union T) \in Nat
  BY <1>1, <1>2, FS_CardinalityType
<1>4. QED
  BY <1>1, <1>3

LEMMA AllButOne ==
  ASSUME NEW S, NEW x, IsFiniteSet(S)
  PROVE  /\ Cardinality(S) \in Nat /\ Cardinality(S \ {x}) \in Nat
         /\ Cardinality(S) <= Cardinality(S \ {x}) + 1
<1>1. Cardinality(S) \in Nat
  BY FS_CardinalityType
<1>2. CASE x \in S
  <2>1. IsFiniteSet(S \ {x}) /\ Cardinality(S \ {x}) = Cardinality(S) - 1
    BY <1>2, FS_RemoveElement
  <2>2. Cardinality(S \ {x}) \in Nat
    BY <2>1, FS_CardinalityType
  <2>3. QED
    BY <1>1, <2>1, <2>2
<1>3. CASE x \notin S
  <2>1. S \ {x} = S
    BY <1>3
  <2>2. QED
    BY <1>1, <2>1
<1>4. QED
  BY <1>2, <1>3

(* In sample-major order a problem is one sample ahead of another at most:  *)
(* every sample of it but the first stands behind one of the other's.       *)
LEMMA OneSampleAhead ==
  ASSUME model \in Models, NEW T \in 0..Total,
         NEW p \in 0..(Problems - 1), NEW q \in 0..(Problems - 1)
  PROVE  Cardinality(OfProblem(Prefix(T), p)) <= Cardinality(OfProblem(Prefix(T), q)) + 1
<1> DEFINE A == OfProblem(Prefix(T), p)
           B == OfProblem(Prefix(T), q)
           Rest == A \ {<<p, 0>>}
           before == [t \in Rest |-> <<q, t[2] - 1>>]
<1>1. T \in Nat /\ Total \in Nat /\ Problems \in Nat \ {0} /\ DOMAIN SampleMajor = 1..Total
  BY TotalType, HumanEvalAssumption
<1>2. IsFiniteSet(A) /\ IsFiniteSet(B)
  BY <1>1, PrefixFinite, FS_Subset DEF OfProblem
<1>3. ASSUME NEW t \in Rest
      PROVE  /\ t = <<p, t[2]>> /\ t[2] \in Nat \ {0}
             /\ <<q, t[2] - 1>> \in B
  <2>1. PICK k \in 1..T : t = SampleMajor[k]
    BY DEF OfProblem, Prefix
  <2>2. k \in 1..(Problems * N[model]) /\ k - 1 \in Nat /\ k \in Nat
    BY <1>1 DEF Total
  <2>3. t = <<(k - 1) % Problems, (k - 1) \div Problems>>
    BY <2>1, <2>2 DEF SampleMajor
  <2> DEFINE s == (k - 1) \div Problems
  <2>4. t = <<p, s>> /\ s \in Nat /\ k - 1 = Problems * s + p
    <3>1. t[1] = p
      BY DEF OfProblem
    <3>2. (k - 1) % Problems = p
      BY <2>3, <3>1
    <3>3. s \in Nat /\ k - 1 = Problems * s + ((k - 1) % Problems)
      BY <1>1, <2>2, Divided
    <3>4. QED
      BY <2>3, <3>2, <3>3
  <2> HIDE DEF s
  <2>5. s # 0
    BY <2>4
  <2> DEFINE j == (s - 1) * Problems + q
  <2>6. j \in Nat /\ j < k - 1
    BY <1>1, <2>4, <2>5, Earlier
  <2>7. j % Problems = q /\ j \div Problems = s - 1
    <3>1. PICK r \in Nat : r = s - 1
      BY <2>4, <2>5
    <3>2. (r * Problems + q) % Problems = q /\ (r * Problems + q) \div Problems = r
      BY <1>1, Placed
    <3>3. QED
      BY <3>1, <3>2
  <2> HIDE DEF j
  <2>8. j + 1 \in 1..T /\ j + 1 \in 1..(Problems * N[model])
    BY <1>1, <2>2, <2>6 DEF Total
  <2>9. SampleMajor[j + 1] = <<q, s - 1>>
    <3>1. (j + 1) - 1 = j
      BY <2>6
    <3>2. QED
      BY <2>7, <2>8, <3>1 DEF SampleMajor
  <2>10. <<q, s - 1>> \in B
    BY <2>8, <2>9 DEF OfProblem, Prefix
  <2>11. QED
    BY <2>4, <2>5, <2>10
<1>4. before \in Injection(Rest, B)
  <2>1. before \in [Rest -> B]
    BY <1>3
  <2>2. ASSUME NEW a \in Rest, NEW b \in Rest, before[a] = before[b] PROVE a = b
    <3>1. a = <<p, a[2]>> /\ b = <<p, b[2]>> /\ a[2] \in Nat /\ b[2] \in Nat
      BY <1>3
    <3>2. a[2] - 1 = b[2] - 1
      BY <2>2
    <3>3. QED
      BY <3>1, <3>2
  <2> HIDE DEF before
  <2>3. QED
    BY <2>1, <2>2 DEF Injection, IsInjective
<1> HIDE DEF before
<1>5. Cardinality(Rest) <= Cardinality(B)
  BY <1>2, <1>4, FS_Injection
<1>6. /\ Cardinality(A) \in Nat /\ Cardinality(B) \in Nat
      /\ Cardinality(A) <= Cardinality(Rest) + 1 /\ Cardinality(Rest) \in Nat
  <2>1. PICK x : x = <<p, 0>>
    OBVIOUS
  <2> HIDE DEF A, B
  <2>2. QED
    BY <1>2, <2>1, AllButOne, FS_CardinalityType
<1> HIDE DEF A, B, Rest
<1>7. QED
  BY <1>5, <1>6 DEF A, B

(* The tasks that have their row, or are sure of it.                       *)
Got == TasksOf(completions) \union TasksOf({f \in finished : f.kind = "row"})

(* Before the breaker trips nothing is passed over...                      *)
OnTheWay(T) ==
  /\ queue = (T + 1)..Total
  /\ \A f \in finished : f.kind = "row"
  /\ TasksOf(completions) \union TasksOf(finished) \union TasksOf(calls) = Prefix(T)

(* ... and afterwards nothing new is asked for.                            *)
StoppedAt(T) ==
  /\ Got \union TasksOf(Calling) \subseteq Prefix(T)
  /\ Cardinality(Prefix(T) \ Got) < Workers

Balance ==
  /\ tripped => \E T \in 0..Total : StoppedAt(T)
  /\ ~tripped /\ stage = "generate" => \E T \in 0..Total : OnTheWay(T)
  /\ ~tripped /\ stage # "generate" => completions = {} \/ TasksOf(completions) = Prefix(Total)

FaultFree == errors + crashes = 0

BalanceInv ==
  /\ errors \in Nat /\ crashes \in Nat
  /\ tripped => Guarded /\ Tripped(ledger)
  /\ FaultFree => Balance

LEMMA PrefixKept ==
  ASSUME model' = model
  PROVE  Total' = Total /\ SampleMajor' = SampleMajor /\ \A T : Prefix(T)' = Prefix(T)
BY DEF Total, SampleMajor, Prefix

LEMMA NoTasks == TasksOf({}) = {}
BY DEF TasksOf

LEMMA NothingOpen ==
  ASSUME calls = {}, finished = {}
  PROVE  Got = TasksOf(completions) /\ TasksOf(Calling) = {}
<1>1. {f \in finished : f.kind = "row"} = {} /\ Calling = {}
  BY DEF Calling
<1>2. QED
  BY <1>1, NoTasks DEF Got

(* All tasks have their rows, or none has: there are no gaps.              *)
LEMMA NoGaps ==
  ASSUME RowsInv, NEW T \in 0..Total, calls = {}, finished = {},
         TasksOf(completions) = Prefix(T)
  PROVE  StoppedAt(T)
<1>1. Got = Prefix(T) /\ TasksOf(Calling) = {}
  BY NothingOpen
<1>2. Prefix(T) \ Got = {}
  BY <1>1
<1>3. QED
  BY <1>1, <1>2, FS_EmptySet, Constants DEF StoppedAt

LEMMA BalanceInit == Init => BalanceInv
BY DEF Init, BalanceInv, Balance

(* What has an error or dies is not asked about again.                     *)
LEMMA BalanceFault ==
  ASSUME BalanceInv, UNCHANGED <<guardVars, model>>,
         \/ errors' = errors + 1 /\ crashes' = crashes
         \/ errors' = errors /\ crashes' = crashes + 1
  PROVE  BalanceInv'
<1>1. errors' \in Nat /\ crashes' \in Nat /\ ~FaultFree'
  BY DEF BalanceInv, FaultFree
<1>2. tripped' = tripped /\ ledger' = ledger
  BY DEF guardVars
<1>3. QED
  BY <1>1, <1>2 DEF BalanceInv, Guarded, Tripped

(* A command takes up what has no row.                                     *)
LEMMA BalanceStart ==
  ASSUME RowsInv, GuardInv, BalanceInv, StartGenerate
  PROVE  BalanceInv'
<1>1. /\ stage = "none" /\ stage' = "generate" /\ queue' = Todo
      /\ finished' = {} /\ calls' = {} /\ completions' = completions
      /\ model' = model /\ ledger' = ledger /\ tripped' = (Guarded /\ Tripped(ledger))
      /\ errors' = errors /\ crashes' = crashes
  BY DEF StartGenerate, SpendGuard
<1>2. tripped' => Guarded' /\ Tripped(ledger)'
  BY <1>1 DEF Guarded, Tripped
<1>3. Total' = Total /\ \A T : Prefix(T)' = Prefix(T)
  BY <1>1, PrefixKept
<1>4. Total \in Nat /\ DOMAIN SampleMajor = 1..Total
  BY TotalType DEF RowsInv
<1>5. calls = {} /\ finished = {}
  BY <1>1 DEF RowsInv
<1>6. Got' = TasksOf(completions) /\ TasksOf(Calling)' = {}
  <2>1. {f \in finished : f.kind = "row"}' = {} /\ Calling' = {}
    BY <1>1 DEF Calling
  <2>2. QED
    BY <1>1, <2>1, NoTasks DEF Got
<1>7. Got = TasksOf(completions) /\ TasksOf(Calling) = {}
  BY <1>5, NothingOpen
<1> SUFFICES ASSUME FaultFree PROVE Balance'
  BY <1>1, <1>2 DEF BalanceInv, FaultFree
<1>8. Balance
  BY DEF BalanceInv
<1>9. CASE tripped
  <2>1. PICK T \in 0..Total : StoppedAt(T)
    BY <1>8, <1>9 DEF Balance
  <2>2. tripped'
    BY <1>1, <1>9 DEF BalanceInv
  <2>3. StoppedAt(T)'
    BY <1>3, <1>6, <1>7, <2>1 DEF StoppedAt
  <2>4. QED
    BY <1>3, <2>2, <2>3 DEF Balance
<1>10. CASE ~tripped
  <2>1. completions = {} \/ TasksOf(completions) = Prefix(Total)
    BY <1>1, <1>8, <1>10 DEF Balance
  <2>2. Prefix(0) = {}
    BY DEF Prefix
  <2>3. PICK T \in 0..Total :
          TasksOf(completions) = Prefix(T) /\ (T = Total \/ (completions = {} /\ T = 0))
    BY <1>4, <2>1, <2>2, NoTasks
  <2>4. CASE tripped'
    <3>1. StoppedAt(T)
      BY <1>5, <2>3, NoGaps
    <3>2. StoppedAt(T)'
      BY <1>3, <1>6, <1>7, <3>1 DEF StoppedAt
    <3>3. QED
      BY <1>3, <2>4, <3>2 DEF Balance
  <2>5. CASE ~tripped'
    <3>1. queue' = (T + 1)..Total
      <4>1. CASE T = Total
        <5>1. \A k \in DOMAIN SampleMajor : SampleMajor[k] \in TasksOf(completions)
          BY <1>4, <2>3, <4>1 DEF Prefix
        <5>2. queue' = {}
          BY <1>1, <5>1 DEF Todo
        <5>3. QED
          BY <1>4, <4>1, <5>2
      <4>2. CASE completions = {} /\ T = 0
        <5>1. queue' = 1..Total
          BY <1>1, <1>4, <4>2, NoTasks DEF Todo
        <5>2. QED
          BY <4>2, <5>1
      <4>3. QED
        BY <2>3, <4>1, <4>2
    <3>2. TasksOf(completions)' \union TasksOf(finished)' \union TasksOf(calls)' = Prefix(T)
      BY <1>1, <2>3, NoTasks
    <3>3. OnTheWay(T)'
      BY <1>1, <1>3, <3>1, <3>2 DEF OnTheWay
    <3>4. QED
      BY <1>1, <1>3, <2>5, <3>3 DEF Balance
  <2>6. QED
    BY <2>4, <2>5
<1>11. QED
  BY <1>9, <1>10

LEMMA BalanceTake ==
  ASSUME RowsInv, BalanceInv, Take
  PROVE  BalanceInv'
<1>1. PICK k \in queue, pc \in {"check", "call"} :
        /\ \A j \in queue : k <= j
        /\ calls' = calls \union {Call(SampleMajor[k], pc)}
        /\ queue' = queue \ {k}
        /\ Guarded => pc = "check"
  <2>1. PICK k \in queue :
          /\ \A j \in queue : k <= j
          /\ calls' = calls \union {Call(SampleMajor[k], IF Guarded THEN "check" ELSE "call")}
          /\ queue' = queue \ {k}
    BY DEF Take
  <2>2. QED
    BY <2>1
<1>2. /\ stage = "generate" /\ stage' = stage /\ finished' = finished
      /\ completions' = completions /\ model' = model /\ tripped' = tripped
      /\ ledger' = ledger /\ errors' = errors /\ crashes' = crashes
  BY DEF Take, guardVars
<1>3. Total' = Total /\ \A T : Prefix(T)' = Prefix(T)
  BY <1>2, PrefixKept
<1>4. Total \in Nat /\ DOMAIN SampleMajor = 1..Total
  BY TotalType DEF RowsInv
<1> SUFFICES ASSUME FaultFree PROVE Balance'
  BY <1>2 DEF BalanceInv, FaultFree, Guarded, Tripped
<1>5. CASE tripped
  <2>1. PICK T \in 0..Total : StoppedAt(T)
    BY <1>5 DEF BalanceInv, Balance
  <2>2. Calling' = Calling /\ Got' = Got
    <3>1. pc = "check"
      BY <1>1, <1>5 DEF BalanceInv
    <3>2. QED
      BY <1>1, <1>2, <3>1 DEF Calling, Call, Got
  <2>3. StoppedAt(T)'
    BY <1>3, <2>1, <2>2 DEF StoppedAt
  <2>4. QED
    BY <1>2, <1>3, <1>5, <2>3 DEF Balance
<1>6. CASE ~tripped
  <2>1. PICK T \in 0..Total : OnTheWay(T)
    BY <1>2, <1>6 DEF BalanceInv, Balance
  <2>2. queue = (T + 1)..Total /\ T \in Nat
    BY <1>4, <2>1 DEF OnTheWay
  <2>3. k = T + 1 /\ T + 1 \in 0..Total /\ queue' = (T + 2)..Total
    <3>1. k \in (T + 1)..Total /\ T + 1 \in (T + 1)..Total
      BY <1>4, <2>2
    <3>2. k = T + 1
      BY <1>1, <1>4, <2>2, <3>1
    <3>3. QED
      BY <1>1, <1>4, <2>2, <3>1, <3>2
  <2>4. Prefix(T + 1) = Prefix(T) \union {SampleMajor[T + 1]}
    <3>1. 1..(T + 1) = (1..T) \union {T + 1}
      BY <2>2
    <3>2. QED
      BY <3>1 DEF Prefix
  <2>5. TasksOf(calls') = TasksOf(calls) \union {SampleMajor[T + 1]}
    <3>1. PICK call : call = Call(SampleMajor[k], pc)
      OBVIOUS
    <3>2. call.task = SampleMajor[T + 1] /\ calls' = calls \union {call}
      BY <1>1, <2>3, <3>1 DEF Call
    <3>3. QED
      BY <3>2 DEF TasksOf
  <2>6. OnTheWay(T + 1)'
    <3>1. (T + 1) + 1 = T + 2
      BY <2>2
    <3>2. \A f \in finished' : f.kind = "row"
      BY <1>2, <2>1 DEF OnTheWay
    <3>3. TasksOf(completions') \union TasksOf(finished') \union TasksOf(calls')
            = Prefix(T + 1)
      BY <1>2, <2>1, <2>4, <2>5 DEF OnTheWay
    <3>4. Prefix(T + 1)' = Prefix(T + 1)
      BY <1>3
    <3>5. QED
      BY <1>3, <2>3, <3>1, <3>2, <3>3, <3>4 DEF OnTheWay
  <2>7. QED
    <3>1. PICK U \in 0..Total : U = T + 1
      BY <2>3
    <3>2. OnTheWay(U)'
      BY <2>6, <3>1
    <3>3. QED
      BY <1>2, <1>3, <1>6, <3>2 DEF Balance
<1>7. QED
  BY <1>5, <1>6

LEMMA BalanceCheck ==
  ASSUME RowsInv, BalanceInv, NEW call \in calls, Check(call)
  PROVE  BalanceInv'
<1>1. /\ call.pc = "check" /\ stage' = stage /\ queue' = queue
      /\ completions' = completions /\ model' = model /\ tripped' = tripped
      /\ ledger' = ledger /\ errors' = errors /\ crashes' = crashes
  BY DEF Check, guardVars
<1>2. Total' = Total /\ \A T : Prefix(T)' = Prefix(T)
  BY <1>1, PrefixKept
<1>3. stage = "generate"
  BY DEF RowsInv
<1> SUFFICES ASSUME FaultFree PROVE Balance'
  BY <1>1 DEF BalanceInv, FaultFree, Guarded, Tripped
<1>4. CASE tripped
  <2>1. PICK T \in 0..Total : StoppedAt(T)
    BY <1>4 DEF BalanceInv, Balance
  <2>2. /\ calls' = calls \ {call}
        /\ finished' = finished \union {[task |-> call.task, kind |-> "skipped", cost |-> 0]}
    BY <1>4 DEF Check, Settle
  <2>3. Calling' = Calling
    BY <1>1, <2>2 DEF Calling
  <2>4. {f \in finished : f.kind = "row"}' = {f \in finished : f.kind = "row"}
    BY <2>2
  <2>5. Got' = Got
    BY <1>1, <2>4 DEF Got
  <2>6. StoppedAt(T)'
    BY <1>2, <2>1, <2>3, <2>5 DEF StoppedAt
  <2>7. QED
    BY <1>1, <1>2, <1>4, <2>6 DEF Balance
<1>5. CASE ~tripped
  <2>1. PICK T \in 0..Total : OnTheWay(T)
    BY <1>3, <1>5 DEF BalanceInv, Balance
  <2>2. calls' = (calls \ {call}) \union {Call(call.task, "call")} /\ finished' = finished
    BY <1>5 DEF Check
  <2>3. TasksOf(calls') = TasksOf(calls)
    <3>1. PICK again : again = Call(call.task, "call")
      OBVIOUS
    <3>2. again.task = call.task /\ calls' = (calls \ {call}) \union {again}
      BY <2>2, <3>1 DEF Call
    <3>3. /\ TasksOf(calls \ {call}) = TasksOf(calls) \ {call.task}
          /\ call.task \in TasksOf(calls)
      BY RowLeaves DEF RowsInv
    <3>4. TasksOf(calls') = TasksOf(calls \ {call}) \union {again.task}
      BY <3>2 DEF TasksOf
    <3>5. QED
      BY <3>2, <3>3, <3>4
  <2>4. OnTheWay(T)'
    BY <1>1, <1>2, <2>1, <2>2, <2>3 DEF OnTheWay
  <2>5. QED
    BY <1>1, <1>2, <1>3, <1>5, <2>4 DEF Balance
<1>6. QED
  BY <1>4, <1>5

(* A row that trips the breaker finds one worker less with a call in hand.  *)
LEMMA BalanceSettle ==
  ASSUME RowsInv, GuardInv, BalanceInv, NEW call \in calls, call.pc = "call",
         NEW cost, Settle(call, "row", cost),
         UNCHANGED <<stage, model, queue, completions, errors, crashes>>,
         tripped => tripped', tripped' => Guarded /\ Tripped(ledger)'
  PROVE  BalanceInv'
<1> DEFINE outcome == [task |-> call.task, kind |-> "row", cost |-> cost]
<1>1. calls' = calls \ {call} /\ finished' = finished \union {outcome}
  BY DEF Settle
<1>2. outcome.task = call.task /\ outcome.kind = "row"
  OBVIOUS
<1> HIDE DEF outcome
<1>3. Total' = Total /\ \A T : Prefix(T)' = Prefix(T)
  BY PrefixKept
<1>4. stage = "generate" /\ Total \in Nat
  BY TotalType DEF RowsInv
<1>5. /\ TasksOf(calls') = TasksOf(calls) \ {call.task} /\ call.task \in TasksOf(calls)
  BY <1>1, RowLeaves DEF RowsInv
<1>6. TasksOf(finished') = TasksOf(finished) \union {call.task}
  BY <1>1, <1>2 DEF TasksOf
<1> SUFFICES ASSUME FaultFree PROVE Balance'
  BY DEF BalanceInv, FaultFree, Guarded
<1>7. CASE tripped
  <2>1. PICK T \in 0..Total : StoppedAt(T)
    BY <1>7 DEF BalanceInv, Balance
  <2>2. Got' = Got \union {call.task}
    <3>1. {f \in finished : f.kind = "row"}' = {f \in finished : f.kind = "row"} \union {outcome}
      BY <1>1, <1>2
    <3>2. TasksOf({f \in finished : f.kind = "row"})'
            = TasksOf({f \in finished : f.kind = "row"}) \union {call.task}
      BY <1>2, <3>1 DEF TasksOf
    <3>3. QED
      BY <3>2 DEF Got
  <2>3. TasksOf(Calling') \subseteq TasksOf(Calling) /\ call.task \in TasksOf(Calling)
    BY <1>1 DEF Calling, TasksOf
  <2>4. StoppedAt(T)'
    <3>1. IsFiniteSet(Prefix(T) \ Got)
      BY <1>4, PrefixFinite, FS_Subset
    <3>2. Prefix(T) \ Got' \subseteq Prefix(T) \ Got
      BY <2>2
    <3>3. /\ Cardinality(Prefix(T) \ Got') <= Cardinality(Prefix(T) \ Got)
          /\ Cardinality(Prefix(T) \ Got') \in Nat /\ Cardinality(Prefix(T) \ Got) \in Nat
      BY <3>1, <3>2, FS_Subset, FS_CardinalityType
    <3>4. Cardinality(Prefix(T) \ Got') < Workers
      BY <2>1, <3>3, Constants DEF StoppedAt
    <3>5. Got' \union TasksOf(Calling') \subseteq Prefix(T)
      BY <2>1, <2>2, <2>3 DEF StoppedAt
    <3>6. Prefix(T)' = Prefix(T)
      BY <1>3
    <3>7. QED
      BY <3>4, <3>5, <3>6 DEF StoppedAt
  <2>5. QED
    BY <1>3, <1>7, <2>4 DEF Balance
<1>8. CASE ~tripped
  <2>1. PICK T \in 0..Total : OnTheWay(T)
    BY <1>4, <1>8 DEF BalanceInv, Balance
  <2>2. \A f \in finished' : f.kind = "row"
    BY <1>1, <1>2, <2>1 DEF OnTheWay
  <2>3. TasksOf(completions') \union TasksOf(finished') \union TasksOf(calls') = Prefix(T)
    BY <1>5, <1>6, <2>1 DEF OnTheWay
  <2>4. CASE ~tripped'
    <3>1. OnTheWay(T)'
      BY <1>3, <2>1, <2>2, <2>3 DEF OnTheWay
    <3>2. QED
      BY <1>3, <1>4, <2>4, <3>1 DEF Balance
  <2>5. CASE tripped'
    <3>1. Got' = TasksOf(completions') \union TasksOf(finished')
      <4>1. {f \in finished : f.kind = "row"}' = finished'
        BY <2>2
      <4>2. QED
        BY <4>1 DEF Got
    <3>2. TasksOf(Calling') \subseteq TasksOf(calls')
      BY DEF Calling, TasksOf
    <3>3. Prefix(T) \ Got' \subseteq TasksOf(calls')
      BY <2>3, <3>1
    <3>4. /\ IsFiniteSet(calls') /\ Cardinality(calls') \in Nat
          /\ Cardinality(calls') < Workers
      <4>1. IsFiniteSet(calls) /\ Cardinality(calls) <= Workers /\ Cardinality(calls) \in Nat
        BY FS_CardinalityType DEF GuardInv, PoolBounded
      <4>2. /\ IsFiniteSet(calls \ {call})
            /\ Cardinality(calls \ {call}) = Cardinality(calls) - 1
        BY <4>1, FS_RemoveElement
      <4>3. Cardinality(calls \ {call}) \in Nat
        BY <4>2, FS_CardinalityType
      <4>4. QED
        BY <1>1, <4>1, <4>2, <4>3, Constants
    <3>5. /\ IsFiniteSet(TasksOf(calls')) /\ Cardinality(TasksOf(calls')) \in Nat
          /\ Cardinality(TasksOf(calls')) <= Cardinality(calls')
      BY <3>4, TasksFewer, FS_CardinalityType
    <3>6. /\ Cardinality(Prefix(T) \ Got') <= Cardinality(TasksOf(calls'))
          /\ Cardinality(Prefix(T) \ Got') \in Nat
      BY <3>3, <3>5, FS_Subset, FS_CardinalityType
    <3>7. Cardinality(Prefix(T) \ Got') < Workers
      BY <3>4, <3>5, <3>6, Constants
    <3>8. StoppedAt(T)'
      BY <1>3, <2>3, <3>1, <3>2, <3>7 DEF StoppedAt
    <3>9. QED
      BY <1>3, <2>5, <3>8 DEF Balance
  <2>6. QED
    BY <2>4, <2>5
<1>9. QED
  BY <1>7, <1>8

LEMMA BalanceReturns ==
  ASSUME RowsInv, GuardInv, BalanceInv, NEW call \in calls,
         CallReturns(call) \/ LiteLLMReturns(call)
  PROVE  BalanceInv'
<1>1. /\ call.pc = "call"
      /\ UNCHANGED <<stage, model, queue, completions, errors, crashes>>
  BY DEF CallReturns, LiteLLMReturns
<1>2. CASE LiteLLMReturns(call)
  <2>1. /\ \E usd : Settle(call, "row", usd)
        /\ tripped' = tripped /\ ledger' = ledger
    BY <1>2 DEF LiteLLMReturns, guardVars
  <2>2. tripped' => Guarded /\ Tripped(ledger)'
    BY <2>1 DEF BalanceInv, Tripped
  <2>3. QED
    BY <1>1, <2>1, <2>2, BalanceSettle
<1>3. CASE CallReturns(call)
  <2>1. PICK usd \in 1..Worst : record(usd) /\ Settle(call, "row", usd)
    BY <1>3 DEF CallReturns
  <2>2. tripped' = (tripped \/ Tripped(spent + usd)) /\ ledger' = ledger + usd /\ Guarded
    BY <1>3, <2>1 DEF record, CallReturns
  <2>3. /\ spent = ledger /\ ledger \in Nat /\ usd \in Nat
        /\ Cap \in Nat /\ Reserve \in Nat
    BY Constants DEF GuardInv, GuardCounts
  <2>4. tripped' => Guarded /\ Tripped(ledger)'
    <3>1. ASSUME tripped PROVE ledger + usd + Reserve >= Cap
      <4>1. ledger + Reserve >= Cap
        BY <3>1 DEF BalanceInv, Tripped
      <4>2. QED
        BY <2>3, <4>1
    <3>2. ASSUME Tripped(spent + usd) PROVE ledger + usd + Reserve >= Cap
      BY <2>3, <3>2 DEF Tripped
    <3>3. ASSUME tripped' PROVE ledger' + Reserve >= Cap
      BY <2>2, <3>1, <3>2, <3>3
    <3>4. Tripped(ledger)' <=> ledger' + Reserve >= Cap
      BY DEF Tripped
    <3>5. QED
      BY <2>2, <3>3, <3>4
  <2>5. tripped => tripped'
    BY <2>2
  <2>6. QED
    BY <1>1, <2>1, <2>4, <2>5, BalanceSettle
<1>4. QED
  BY <1>2, <1>3

LEMMA BalanceCollect ==
  ASSUME RowsInv, BalanceInv, Collect
  PROVE  BalanceInv'
<1>1. PICK f \in finished :
        /\ finished' = finished \ {f}
        /\ completions' =
             IF IsRow(f)
             THEN completions \union {[task |-> f.task, cost |-> f.cost, command |-> command]}
             ELSE completions
  BY DEF Collect
<1>2. /\ stage = "generate" /\ UNCHANGED <<stage, model, queue, calls>>
      /\ tripped' = tripped /\ ledger' = ledger /\ errors' = errors /\ crashes' = crashes
  BY DEF Collect, guardVars
<1>3. Total' = Total /\ \A T : Prefix(T)' = Prefix(T)
  BY <1>2, PrefixKept
<1>4. TasksOf(finished') = TasksOf(finished) \ {f.task} /\ f.task \in TasksOf(finished)
  BY <1>1, RowLeaves DEF RowsInv
<1> DEFINE rows == {g \in finished : g.kind = "row"}
           row == [task |-> f.task, cost |-> f.cost, command |-> command]
<1>5. rows' = rows \ {f}
  BY <1>1
<1>6. row.task = f.task
  OBVIOUS
<1>7. Got' = Got
  <2>1. CASE IsRow(f)
    <3>1. f \in rows
      BY <2>1 DEF IsRow
    <3>2. completions' = completions \union {row}
      BY <1>1, <2>1
    <3>3. rows = rows' \union {f}
      BY <1>5, <3>1
    <3> HIDE DEF rows, row
    <3>4. TasksOf(completions') = TasksOf(completions) \union {f.task}
      BY <1>6, <3>2 DEF TasksOf
    <3>5. TasksOf(rows) = TasksOf(rows') \union {f.task}
      BY <3>3 DEF TasksOf
    <3>6. QED
      BY <3>4, <3>5 DEF Got, rows
  <2>2. CASE ~IsRow(f)
    <3>1. completions' = completions /\ rows' = rows
      BY <1>1, <1>5, <2>2 DEF IsRow
    <3>2. QED
      BY <3>1 DEF Got
  <2>3. QED
    BY <2>1, <2>2
<1> HIDE DEF rows, row
<1> SUFFICES ASSUME FaultFree PROVE Balance'
  BY <1>2 DEF BalanceInv, FaultFree, Guarded, Tripped
<1>8. CASE tripped
  <2>1. PICK T \in 0..Total : StoppedAt(T)
    BY <1>8 DEF BalanceInv, Balance
  <2>2. Calling' = Calling
    BY <1>2 DEF Calling
  <2>3. StoppedAt(T)'
    BY <1>3, <1>7, <2>1, <2>2 DEF StoppedAt
  <2>4. QED
    BY <1>2, <1>3, <1>8, <2>3 DEF Balance
<1>9. CASE ~tripped
  <2>1. PICK T \in 0..Total : OnTheWay(T)
    BY <1>2, <1>9 DEF BalanceInv, Balance
  <2>2. completions' = completions \union {row}
    BY <1>1, <2>1 DEF OnTheWay, IsRow, row
  <2>3. TasksOf(completions') = TasksOf(completions) \union {f.task}
    BY <1>6, <2>2 DEF TasksOf
  <2>4. TasksOf(completions') \union TasksOf(finished') \union TasksOf(calls') = Prefix(T)
    BY <1>2, <1>4, <2>1, <2>3 DEF OnTheWay
  <2>5. \A g \in finished' : g.kind = "row"
    BY <1>1, <2>1 DEF OnTheWay
  <2>6. OnTheWay(T)'
    BY <1>2, <1>3, <2>1, <2>4, <2>5 DEF OnTheWay
  <2>7. QED
    BY <1>2, <1>3, <1>9, <2>6 DEF Balance
<1>10. QED
  BY <1>8, <1>9

(* A command that was not stopped has left nothing out.                    *)
LEMMA BalanceEnd ==
  ASSUME RowsInv, BalanceInv, EndGenerate
  PROVE  BalanceInv'
<1>1. /\ stage = "generate" /\ stage' = "none" /\ queue = {} /\ calls = {} /\ finished = {}
      /\ UNCHANGED <<model, queue, calls, finished, completions, tripped, ledger, errors, crashes>>
  BY DEF EndGenerate, guardVars, poolVars
<1>2. Total' = Total /\ \A T : Prefix(T)' = Prefix(T)
  BY <1>1, PrefixKept
<1>3. Total \in Nat
  BY TotalType DEF RowsInv
<1> SUFFICES ASSUME FaultFree PROVE Balance'
  BY <1>1 DEF BalanceInv, FaultFree, Guarded, Tripped
<1>4. CASE tripped
  <2>1. PICK T \in 0..Total : StoppedAt(T)
    BY <1>4 DEF BalanceInv, Balance
  <2>2. Calling' = Calling /\ Got' = Got
    BY <1>1 DEF Calling, Got
  <2>3. StoppedAt(T)'
    BY <1>2, <2>1, <2>2 DEF StoppedAt
  <2>4. QED
    BY <1>1, <1>2, <1>4, <2>3 DEF Balance
<1>5. CASE ~tripped
  <2>1. PICK T \in 0..Total : OnTheWay(T)
    BY <1>1, <1>5 DEF BalanceInv, Balance
  <2>2. T = Total
    <3>1. (T + 1)..Total = {}
      BY <1>1, <2>1 DEF OnTheWay
    <3>2. QED
      BY <1>3, <3>1
  <2>3. TasksOf(completions) = Prefix(Total)
    BY <1>1, <2>1, <2>2, NoTasks DEF OnTheWay
  <2>4. TasksOf(completions)' = Prefix(Total)'
    BY <1>1, <1>2, <2>3
  <2>5. QED
    BY <1>1, <1>5, <2>4 DEF Balance
<1>6. QED
  BY <1>4, <1>5

LEMMA BalanceKept ==
  ASSUME BalanceInv,
         UNCHANGED <<model, queue, calls, finished, completions, tripped, ledger, errors, crashes>>,
         stage' = stage \/ (stage # "generate" /\ stage' # "generate")
  PROVE  BalanceInv'
<1>1. Total' = Total /\ \A T : Prefix(T)' = Prefix(T)
  BY PrefixKept
<1>2. Calling' = Calling /\ Got' = Got
  BY DEF Calling, Got
<1>3. \A T : StoppedAt(T) => StoppedAt(T)'
  BY <1>1, <1>2 DEF StoppedAt
<1>4. \A T : OnTheWay(T) => OnTheWay(T)'
  BY <1>1 DEF OnTheWay
<1>5. Balance => Balance'
  BY <1>1, <1>3, <1>4 DEF Balance
<1>6. QED
  BY <1>5 DEF BalanceInv, FaultFree, Guarded, Tripped

LEMMA BalanceStep == RowsInv /\ GuardInv /\ BalanceInv /\ [Next]_vars => BalanceInv'
<1> SUFFICES ASSUME RowsInv, GuardInv, BalanceInv, [Next]_vars PROVE BalanceInv'
  OBVIOUS
<1>1. CASE StartGenerate
  BY <1>1, BalanceStart
<1>2. CASE Take
  BY <1>2, BalanceTake
<1>3. ASSUME NEW call \in calls, Check(call) PROVE BalanceInv'
  BY <1>3, BalanceCheck
<1>4. ASSUME NEW call \in calls, CallReturns(call) \/ LiteLLMReturns(call) PROVE BalanceInv'
  BY <1>4, BalanceReturns
<1>5. ASSUME NEW call \in calls, CallFails(call) PROVE BalanceInv'
  BY <1>5, BalanceFault DEF CallFails
<1>6. CASE Collect
  BY <1>6, BalanceCollect
<1>7. CASE EndGenerate
  BY <1>7, BalanceEnd
<1>8. CASE Crash
  BY <1>8, BalanceFault DEF Crash
<1>9. CASE StartExecute \/ Execute \/ EndExecute
  <2>1. UNCHANGED <<model, queue, calls, finished, completions, tripped, ledger, errors, crashes>>
    BY <1>9 DEF StartExecute, Execute, EndExecute, genVars, guardVars, poolVars
  <2>2. stage # "generate" /\ stage' # "generate"
    BY <1>9 DEF StartExecute, Execute, EndExecute
  <2>3. QED
    BY <2>1, <2>2, BalanceKept
<1>10. CASE UNCHANGED vars
  <2>1. UNCHANGED <<model, queue, calls, finished, completions, tripped, ledger, errors, crashes>>
        /\ stage' = stage
    BY <1>10 DEF vars, genVars, guardVars, poolVars
  <2>2. QED
    BY <2>1, BalanceKept
<1>11. QED
  BY <1>1, <1>2, <1>3, <1>4, <1>5, <1>6, <1>7, <1>8, <1>9, <1>10 DEF Next, Pool, Main

(* What stands in the file when a command has ended.                       *)
LEMMA StopsInOrder ==
  ASSUME RowsInv, BalanceInv, FaultFree, stage = "none"
  PROVE  \E T \in 0..Total : /\ TasksOf(completions) \subseteq Prefix(T)
                             /\ Cardinality(Prefix(T) \ TasksOf(completions)) < Workers
<1>1. calls = {} /\ finished = {} /\ Total \in Nat
  BY TotalType DEF RowsInv
<1>2. Got = TasksOf(completions)
  BY <1>1, NothingOpen
<1>3. \E T \in 0..Total : StoppedAt(T)
  <2>1. CASE tripped
    BY <2>1 DEF BalanceInv, Balance
  <2>2. CASE ~tripped
    <3>1. completions = {} \/ TasksOf(completions) = Prefix(Total)
      BY <2>2 DEF BalanceInv, Balance
    <3>2. Prefix(0) = {}
      BY DEF Prefix
    <3>3. PICK T \in 0..Total : TasksOf(completions) = Prefix(T)
      BY <1>1, <3>1, <3>2, NoTasks
    <3>4. QED
      BY <1>1, <3>3, NoGaps
  <2>3. QED
    BY <2>1, <2>2
<1>4. QED
  BY <1>2, <1>3 DEF StoppedAt

(* A run that the breaker stops leaves the problems with as many samples   *)
(* as each other, up to the number of threads, for any number of problems, *)
(* samples and threads and any price (generate.py:156-158).                *)
THEOREM SamplesStayBalanced == Spec => []SamplesBalanced
<1>1. RowsInv /\ BalanceInv => SamplesBalanced
  <2> SUFFICES ASSUME RowsInv, BalanceInv, FaultFree, stage = "none",
                      NEW p \in 0..(Problems - 1), NEW q \in 0..(Problems - 1)
               PROVE  Drawn(p) <= Drawn(q) + Workers
    BY DEF SamplesBalanced, FaultFree
  <2>1. PICK T \in 0..Total : /\ TasksOf(completions) \subseteq Prefix(T)
                              /\ Cardinality(Prefix(T) \ TasksOf(completions)) < Workers
    BY StopsInOrder
  <2>2. model \in Models /\ T \in Nat
    BY <2>1, TotalType DEF RowsInv
  <2> DEFINE done == TasksOf(completions)
             holes == Prefix(T) \ done
             A == OfProblem(Prefix(T), p)
             B == OfProblem(Prefix(T), q)
             b == OfProblem(done, q)
  <2>3. IsFiniteSet(Prefix(T)) /\ IsFiniteSet(done) /\ IsFiniteSet(holes)
    BY <2>1, <2>2, PrefixFinite, FS_Subset
  <2>4. IsFiniteSet(A) /\ IsFiniteSet(B) /\ IsFiniteSet(b)
    BY <2>3, FS_Subset DEF OfProblem
  <2>5. Drawn(p) <= Cardinality(A) /\ Drawn(p) \in Nat /\ Cardinality(A) \in Nat
    <3>1. OfProblem(done, p) \subseteq A
      BY <2>1 DEF OfProblem
    <3>2. Drawn(p) = Cardinality(OfProblem(done, p))
      BY DEF Drawn, OfProblem
    <3>3. QED
      BY <2>4, <3>1, <3>2, FS_Subset, FS_CardinalityType
  <2>6. Cardinality(A) <= Cardinality(B) + 1 /\ Cardinality(B) \in Nat
    BY <2>2, <2>4, OneSampleAhead, FS_CardinalityType
  <2>7. Cardinality(B) <= Cardinality(b) + Cardinality(holes)
        /\ Cardinality(b) \in Nat /\ Cardinality(holes) \in Nat
    <3>1. B \subseteq b \union holes
      BY DEF OfProblem
    <3> HIDE DEF B, b, holes
    <3>2. /\ IsFiniteSet(b \union holes) /\ Cardinality(b \union holes) \in Nat
          /\ Cardinality(b \union holes) <= Cardinality(b) + Cardinality(holes)
          /\ Cardinality(b) \in Nat /\ Cardinality(holes) \in Nat
      BY <2>3, <2>4, OfBoth
    <3>3. Cardinality(B) <= Cardinality(b \union holes) /\ Cardinality(B) \in Nat
      BY <3>1, <3>2, FS_Subset, FS_CardinalityType
    <3>4. QED
      BY <3>2, <3>3
  <2>8. Drawn(q) = Cardinality(b)
    BY DEF Drawn, OfProblem
  <2> HIDE DEF A, B, b, holes
  <2>9. Cardinality(holes) < Workers
    BY <2>1 DEF holes
  <2>10. QED
    BY <2>5, <2>6, <2>7, <2>8, <2>9, Constants
<1>2. QED
  BY <1>1, RowsInit, GuardInit, BalanceInit, RowsStep, GuardStep, BalanceStep, PTL DEF Spec
-----------------------------------------------------------------------------
(* Every outcome has its price, and only a row has one that is not zero.   *)
PricesInv ==
  /\ IsFiniteSet(finished) /\ IsFiniteSet(completions)
  /\ \A row \in finished \union completions : row.cost \in Nat
  /\ \A f \in finished : ~IsRow(f) => f.cost = 0

LedgerInv ==
  /\ ledger \in Nat /\ crashes \in Nat
  /\ PricesInv /\ LedgerIsTheRows

LEMMA UnitsFinite ==
  ASSUME NEW rows, IsFiniteSet(rows), \A row \in rows : row.cost \in Nat
  PROVE  IsFiniteSet(Units(rows)) /\ Cardinality(Units(rows)) \in Nat
<1> DEFINE Of(row) == {row} \X (1..row.cost)
<1>1. ASSUME NEW row \in rows PROVE IsFiniteSet(Of(row))
  <2>1. IsFiniteSet({row})
    BY FS_Singleton
  <2>2. row.cost \in Int
    OBVIOUS
  <2>3. IsFiniteSet(1..row.cost)
    BY <2>2, FS_Interval
  <2>4. QED
    BY <2>1, <2>3, FS_Product
<1>2. IsFiniteSet({Of(row) : row \in rows})
  <2> DEFINE f == [row \in rows |-> Of(row)]
  <2>1. f \in Surjection(rows, {Of(row) : row \in rows})
    BY DEF Surjection
  <2>2. QED
    BY <2>1, FS_Surjection
<1>3. \A U \in {Of(row) : row \in rows} : IsFiniteSet(U)
  BY <1>1
<1> HIDE DEF Of
<1>4. IsFiniteSet(UNION {Of(row) : row \in rows})
  BY <1>2, <1>3, FS_UNION
<1>5. Units(rows) = UNION {Of(row) : row \in rows}
  BY DEF Units, Of
<1>6. QED
  BY <1>4, <1>5, FS_CardinalityType

(* One row more is its price more.                                         *)
LEMMA OneRowMore ==
  ASSUME NEW rows, IsFiniteSet(rows), \A row \in rows : row.cost \in Nat,
         NEW new, new \notin rows, new.cost \in Nat
  PROVE  /\ IsFiniteSet(rows \union {new})
         /\ \A row \in rows \union {new} : row.cost \in Nat
         /\ Cardinality(Units(rows \union {new})) = Cardinality(Units(rows)) + new.cost
<1> DEFINE U == {new} \X (1..new.cost)
<1>1. Units(rows \union {new}) = Units(rows) \union U
  BY DEF Units
<1>2. Units(rows) \intersect U = {}
  BY DEF Units
<1>3. IsFiniteSet(U) /\ Cardinality(U) = new.cost
  <2>1. IsFiniteSet({new}) /\ Cardinality({new}) = 1
    BY FS_Singleton
  <2>2. IsFiniteSet(1..new.cost) /\ Cardinality(1..new.cost) = new.cost
    BY FS_Interval
  <2>3. ASSUME NEW A, NEW B, IsFiniteSet(A), IsFiniteSet(B)
        PROVE  /\ IsFiniteSet(A \X B)
               /\ Cardinality(A \X B) = Cardinality(A) * Cardinality(B)
    BY <2>3, FS_Product
  <2>4. /\ IsFiniteSet(U)
        /\ Cardinality(U) = Cardinality({new}) * Cardinality(1..new.cost)
    BY <2>1, <2>2, <2>3
  <2>5. Cardinality(U) = 1 * new.cost
    BY <2>1, <2>2, <2>4
  <2>6. 1 * new.cost = new.cost
    OBVIOUS
  <2>7. QED
    BY <2>4, <2>5, <2>6
<1>4. IsFiniteSet(Units(rows)) /\ Cardinality(Units(rows)) \in Nat
  BY UnitsFinite
<1> HIDE DEF U
<1>5. Cardinality(Units(rows) \union U)
        = Cardinality(Units(rows)) + Cardinality(U) - Cardinality({})
  BY <1>2, <1>3, <1>4, FS_Union
<1>6. Cardinality({}) = 0
  BY FS_EmptySet
<1>7. Cardinality(Units(rows \union {new})) = Cardinality(Units(rows)) + new.cost
  <2>1. Cardinality(Units(rows \union {new}))
          = Cardinality(Units(rows)) + new.cost - 0
    BY <1>1, <1>3, <1>5, <1>6
  <2>2. QED
    BY <1>4, <2>1
<1>8. IsFiniteSet(rows \union {new})
  BY FS_AddElement
<1>9. \A row \in rows \union {new} : row.cost \in Nat
  OBVIOUS
<1>10. QED
  BY <1>7, <1>8, <1>9

LEMMA OneRowLess ==
  ASSUME NEW rows, IsFiniteSet(rows), \A row \in rows : row.cost \in Nat,
         NEW old \in rows
  PROVE  /\ IsFiniteSet(rows \ {old})
         /\ Cardinality(Units(rows \ {old})) = Cardinality(Units(rows)) - old.cost
<1> DEFINE rest == rows \ {old}
<1>1. IsFiniteSet(rest)
  BY FS_RemoveElement
<1>2. /\ rest \union {old} = rows /\ old \notin rest /\ old.cost \in Nat
      /\ \A row \in rest : row.cost \in Nat
  OBVIOUS
<1> HIDE DEF rest
<1>3. Cardinality(Units(rows)) = Cardinality(Units(rest)) + old.cost
  BY <1>1, <1>2, OneRowMore
<1>4. Cardinality(Units(rest)) \in Nat
  BY <1>1, <1>2, UnitsFinite
<1>5. QED
  BY <1>1, <1>2, <1>3, <1>4 DEF rest

LEMMA LedgerInit == Init => LedgerInv
<1> SUFFICES ASSUME Init PROVE LedgerInv
  OBVIOUS
<1>1. Units({}) = {}
  BY DEF Units
<1>2. Cardinality(Units({})) = 0 /\ IsFiniteSet({})
  BY <1>1, FS_EmptySet
<1>3. QED
  BY <1>2 DEF Init, LedgerInv, PricesInv, LedgerIsTheRows

(* A call that ends has its price in the ledger.                           *)
LEMMA LedgerSettle ==
  ASSUME RowsInv, LedgerInv, NEW call \in calls, NEW kind, NEW cost \in Nat,
         Settle(call, kind, cost), kind # "row" => cost = 0,
         IF Guarded THEN ledger' = ledger + cost ELSE ledger' = ledger,
         UNCHANGED <<model, completions, crashes>>
  PROVE  LedgerInv'
<1> DEFINE new == [task |-> call.task, kind |-> kind, cost |-> cost]
<1>1. finished' = finished \union {new} /\ new.cost = cost
      /\ new.task = call.task /\ new.kind = kind
  BY DEF Settle
<1> HIDE DEF new
<1>2. new \notin finished
  <2>1. call.task \notin TasksOf(finished)
    BY RowLeaves DEF RowsInv
  <2>2. QED
    BY <1>1, <2>1 DEF TasksOf
<1>3. /\ IsFiniteSet(finished) /\ \A row \in finished : row.cost \in Nat
      /\ IsFiniteSet(completions) /\ \A row \in completions : row.cost \in Nat
  BY DEF LedgerInv, PricesInv
<1>4. /\ IsFiniteSet(finished') /\ \A row \in finished' : row.cost \in Nat
      /\ Cardinality(Units(finished')) = Cardinality(Units(finished)) + cost
  BY <1>1, <1>2, <1>3, OneRowMore
<1>5. /\ Cardinality(Units(finished)) \in Nat /\ Cardinality(Units(completions)) \in Nat
      /\ ledger \in Nat /\ crashes \in Nat
  BY <1>3, UnitsFinite DEF LedgerInv
<1>6. \A f \in finished' : ~IsRow(f) => f.cost = 0
  BY <1>1 DEF LedgerInv, PricesInv, IsRow
<1>7. LedgerIsTheRows' /\ ledger' \in Nat
  BY <1>4, <1>5 DEF LedgerInv, LedgerIsTheRows, Guarded
<1>8. QED
  BY <1>3, <1>4, <1>5, <1>6, <1>7 DEF LedgerInv, PricesInv

(* A row keeps its price when it is written.                               *)
LEMMA LedgerCollect ==
  ASSUME RowsInv, LedgerInv, Collect
  PROVE  LedgerInv'
<1>1. PICK f \in finished :
        /\ finished' = finished \ {f}
        /\ completions' =
             IF IsRow(f)
             THEN completions \union {[task |-> f.task, cost |-> f.cost, command |-> command]}
             ELSE completions
  BY DEF Collect
<1>2. UNCHANGED <<model, ledger, crashes>>
  BY DEF Collect, guardVars
<1>3. /\ IsFiniteSet(finished) /\ \A row \in finished : row.cost \in Nat
      /\ IsFiniteSet(completions) /\ \A row \in completions : row.cost \in Nat
      /\ ledger \in Nat /\ crashes \in Nat
  BY DEF LedgerInv, PricesInv
<1>4. /\ IsFiniteSet(finished')
      /\ Cardinality(Units(finished')) = Cardinality(Units(finished)) - f.cost
  BY <1>1, <1>3, OneRowLess
<1>5. /\ Cardinality(Units(finished)) \in Nat /\ Cardinality(Units(completions)) \in Nat
      /\ f.cost \in Nat
  BY <1>3, UnitsFinite
<1>6. /\ \A row \in finished' : row.cost \in Nat
      /\ \A g \in finished' : ~IsRow(g) => g.cost = 0
  BY <1>1 DEF LedgerInv, PricesInv
<1>7. /\ IsFiniteSet(completions') /\ \A row \in completions' : row.cost \in Nat
      /\ Cardinality(Units(completions')) = Cardinality(Units(completions)) + f.cost
  <2>1. CASE IsRow(f)
    <3> DEFINE new == [task |-> f.task, cost |-> f.cost, command |-> command]
    <3>1. new.cost = f.cost /\ new.task = f.task
      OBVIOUS
    <3>2. completions' = completions \union {new}
      BY <1>1, <2>1
    <3> HIDE DEF new
    <3>3. new \notin completions
      <4>1. f.task \notin TasksOf(completions)
        BY RowLeaves DEF RowsInv
      <4>2. QED
        BY <3>1, <4>1 DEF TasksOf
    <3>4. QED
      BY <1>3, <1>5, <3>1, <3>2, <3>3, OneRowMore
  <2>2. CASE ~IsRow(f)
    <3>1. completions' = completions /\ f.cost = 0
      BY <1>1, <2>2 DEF LedgerInv, PricesInv
    <3>2. QED
      BY <1>3, <1>5, <3>1
  <2>3. QED
    BY <2>1, <2>2
<1>8. LedgerIsTheRows'
  BY <1>2, <1>4, <1>5, <1>7 DEF LedgerInv, LedgerIsTheRows, Guarded
<1>9. QED
  BY <1>2, <1>3, <1>4, <1>6, <1>7, <1>8 DEF LedgerInv, PricesInv

LEMMA LedgerKept ==
  ASSUME LedgerInv, UNCHANGED <<model, ledger, finished, completions, crashes>>
  PROVE  LedgerInv'
BY DEF LedgerInv, PricesInv, LedgerIsTheRows, Guarded

LEMMA LedgerStep == RowsInv /\ LedgerInv /\ [Next]_vars => LedgerInv'
<1> SUFFICES ASSUME RowsInv, LedgerInv, [Next]_vars PROVE LedgerInv'
  OBVIOUS
<1>1. CASE StartGenerate
  <2>1. /\ finished = {} /\ finished' = {}
        /\ UNCHANGED <<model, ledger, completions, crashes>>
    BY <1>1 DEF StartGenerate, RowsInv
  <2>2. QED
    BY <2>1, LedgerKept
<1>2. ASSUME NEW call \in calls, Check(call) PROVE LedgerInv'
  <2>1. UNCHANGED <<model, ledger, completions, crashes>> /\ ledger \in Nat
    BY <1>2 DEF Check, guardVars, LedgerInv
  <2>2. finished' = finished \/ Settle(call, "skipped", 0)
    BY <1>2 DEF Check
  <2>3. QED
    BY <2>1, <2>2, LedgerKept, LedgerSettle
<1>3. ASSUME NEW call \in calls, CallReturns(call) PROVE LedgerInv'
  <2>1. PICK usd \in 1..Worst : ledger' = ledger + usd /\ Settle(call, "row", usd)
    BY <1>3 DEF CallReturns, record
  <2>2. UNCHANGED <<model, completions, crashes>> /\ usd \in Nat /\ Guarded
    BY <1>3, Constants DEF CallReturns
  <2>3. QED
    BY <2>1, <2>2, LedgerSettle
<1>4. ASSUME NEW call \in calls, LiteLLMReturns(call) \/ CallFails(call) PROVE LedgerInv'
  <2>1. UNCHANGED <<model, ledger, completions, crashes>> /\ ledger \in Nat
    BY <1>4 DEF LiteLLMReturns, CallFails, guardVars, LedgerInv
  <2>2. CASE LiteLLMReturns(call)
    <3>1. PICK usd \in CompletionCosts : Settle(call, "row", usd)
      BY <2>2 DEF LiteLLMReturns
    <3>2. usd \in Nat /\ ~Guarded
      BY <2>2, Constants DEF LiteLLMReturns, CompletionCosts
    <3>3. QED
      BY <2>1, <3>1, <3>2, LedgerSettle
  <2>3. CASE CallFails(call)
    <3>1. Settle(call, "error", 0)
      BY <2>3 DEF CallFails
    <3>2. QED
      BY <2>1, <3>1, LedgerSettle
  <2>4. QED
    BY <1>4, <2>2, <2>3
<1>5. CASE Collect
  BY <1>5, LedgerCollect
<1>6. CASE Crash
  <2>1. /\ finished' = {} /\ crashes' = crashes + 1
        /\ UNCHANGED <<ledger, completions>>
    BY <1>6 DEF Crash, guardVars
  <2>2. QED
    BY <2>1, FS_EmptySet DEF LedgerInv, PricesInv, LedgerIsTheRows
<1>7. CASE Take \/ EndGenerate \/ StartExecute \/ Execute \/ EndExecute
  BY <1>7, LedgerKept
  DEF Take, EndGenerate, StartExecute, Execute, EndExecute, genVars, guardVars, poolVars
<1>8. CASE UNCHANGED vars
  BY <1>8, LedgerKept DEF vars, genVars, guardVars, poolVars
<1>9. QED
  BY <1>1, <1>2, <1>3, <1>4, <1>5, <1>6, <1>7, <1>8 DEF Next, Pool, Main

(* Behind the guard the ledger is what the rows cost, those on their way   *)
(* included, for any number of problems, samples, threads and commands,    *)
(* while nothing is cut short (generate.py:101, 180-182).                  *)
THEOREM LedgerAddsUp == Spec => []LedgerIsTheRows
<1>1. LedgerInv => LedgerIsTheRows
  BY DEF LedgerInv
<1>2. QED
  BY <1>1, RowsInit, RowsStep, LedgerInit, LedgerStep, PTL DEF Spec
-----------------------------------------------------------------------------
(* How many sets of i elements there are, and what pass@k makes of them.   *)

Ways(i, S) == Cardinality(kSubset(i, S))

LEMMA WaysFinite ==
  ASSUME NEW S, IsFiniteSet(S), NEW i
  PROVE  /\ IsFiniteSet(kSubset(i, S)) /\ Ways(i, S) \in Nat
<1>1. IsFiniteSet(SUBSET S)
  BY FS_SUBSET
<1>2. kSubset(i, S) \in SUBSET SUBSET S
  BY DEF kSubset
<1>3. IsFiniteSet(kSubset(i, S))
  BY <1>1, <1>2, FS_Subset
<1>4. QED
  BY <1>3, FS_CardinalityType DEF Ways

LEMMA NothingChosen ==
  ASSUME NEW S, IsFiniteSet(S)
  PROVE  Ways(0, S) = 1
<1>1. \A s \in SUBSET S : Cardinality(s) = 0 <=> s = {}
  <2>1. \A s \in SUBSET S : IsFiniteSet(s)
    BY FS_Subset
  <2>2. QED
    BY <2>1, FS_EmptySet
<1>2. kSubset(0, S) = {{}}
  BY <1>1 DEF kSubset
<1>3. QED
  BY <1>2, FS_Singleton DEF Ways

(* With one element more: the choices without it and those with it.        *)
LEMMA WaysWithOneMore ==
  ASSUME NEW S, IsFiniteSet(S), NEW x, x \notin S, NEW i \in Nat
  PROVE  Ways(i + 1, S \union {x}) = Ways(i + 1, S) + Ways(i, S)
<1> DEFINE A == kSubset(i + 1, S)
           C == kSubset(i, S)
           B == {t \union {x} : t \in C}
           more == S \union {x}
<1>1. \A t \in SUBSET S : IsFiniteSet(t) /\ Cardinality(t) \in Nat
  BY FS_Subset, FS_CardinalityType
<1>2. IsFiniteSet(more)
  BY FS_AddElement
<1>3. \A t \in SUBSET S : Cardinality(t \union {x}) = Cardinality(t) + 1
  <2> SUFFICES ASSUME NEW t \in SUBSET S PROVE Cardinality(t \union {x}) = Cardinality(t) + 1
    OBVIOUS
  <2>1. x \notin t
    OBVIOUS
  <2>2. QED
    BY <1>1, <2>1, FS_AddElement
<1>4. kSubset(i + 1, more) = A \union B
  <2>1. ASSUME NEW s \in kSubset(i + 1, more) PROVE s \in A \union B
    <3>1. s \in SUBSET more /\ Cardinality(s) = i + 1
      BY DEF kSubset
    <3>2. CASE x \notin s
      BY <3>1, <3>2 DEF kSubset
    <3>3. CASE x \in s
      <4> DEFINE t == s \ {x}
      <4>1. t \in SUBSET S /\ s = t \union {x}
        BY <3>1, <3>3
      <4>2. Cardinality(s) = Cardinality(t) + 1
        BY <1>3, <4>1
      <4>3. Cardinality(t) = i
        BY <1>1, <3>1, <4>1, <4>2
      <4>4. QED
        BY <4>1, <4>3 DEF kSubset
    <3>4. QED
      BY <3>2, <3>3
  <2>2. A \subseteq kSubset(i + 1, more)
    BY DEF kSubset
  <2>3. ASSUME NEW t \in C PROVE t \union {x} \in kSubset(i + 1, more)
    <3>1. t \in SUBSET S /\ Cardinality(t) = i
      BY DEF kSubset
    <3>2. Cardinality(t \union {x}) = i + 1
      BY <1>3, <3>1
    <3>3. QED
      BY <3>1, <3>2 DEF kSubset
  <2>4. QED
    BY <2>1, <2>2, <2>3
<1>5. A \intersect B = {}
  BY DEF kSubset
<1>6. IsFiniteSet(A) /\ IsFiniteSet(C)
  BY WaysFinite
<1>7. IsFiniteSet(B) /\ Cardinality(B) = Cardinality(C)
  <2> DEFINE f == [t \in C |-> t \union {x}]
  <2>1. \A t \in C : x \notin t
    BY DEF kSubset
  <2>2. \A t, u \in C : f[t] = f[u] => t = u
    <3> SUFFICES ASSUME NEW t \in C, NEW u \in C, t \union {x} = u \union {x}
                 PROVE  t = u
      OBVIOUS
    <3>1. t = (t \union {x}) \ {x} /\ u = (u \union {x}) \ {x}
      BY <2>1
    <3>2. QED
      BY <3>1
  <2>3. f \in [C -> B] /\ \A b \in B : \E t \in C : f[t] = b
    OBVIOUS
  <2> HIDE DEF f, B, C
  <2>4. f \in Bijection(C, B)
    BY <2>2, <2>3 DEF Bijection, Injection, Surjection, IsInjective
  <2>5. ExistsBijection(C, B)
    BY <2>4 DEF ExistsBijection
  <2>6. QED
    BY <1>6, <2>5, FS_Bijection
<1> HIDE DEF A, B, C
<1>8. /\ Cardinality(A \union B) = Cardinality(A) + Cardinality(B) - Cardinality({})
      /\ Cardinality({}) = 0
  BY <1>5, <1>6, <1>7, FS_Union, FS_EmptySet
<1>9. Cardinality(A) \in Nat /\ Cardinality(C) \in Nat
  BY <1>6, FS_CardinalityType
<1>10. Cardinality(A \union B) = Cardinality(A) + Cardinality(C)
  BY <1>7, <1>8, <1>9
<1>11. QED
  BY <1>4, <1>10 DEF Ways, A, C

(* (i + 1) C(n, i + 1) = (n - i) C(n, i).                                  *)
LEMMA NextWays ==
  ASSUME NEW S, IsFiniteSet(S), NEW i \in Nat
  PROVE  Ways(i + 1, S) * (i + 1) = Ways(i, S) * (Cardinality(S) - i)
<1> DEFINE Holds(T, j) == Ways(j + 1, T) * (j + 1) = Ways(j, T) * (Cardinality(T) - j)
           P == {n \in Nat : \A T : IsFiniteSet(T) /\ Cardinality(T) = n
                                      => \A j \in Nat : Holds(T, j)}
<1>1. 0 \in P
  <2> SUFFICES ASSUME NEW T, IsFiniteSet(T), Cardinality(T) = 0, NEW j \in Nat
               PROVE  Holds(T, j)
    OBVIOUS
  <2>1. T = {}
    BY FS_EmptySet
  <2>2. \A k \in Nat : k # 0 => Ways(k, T) = 0
    <3> SUFFICES ASSUME NEW k \in Nat, k # 0 PROVE Ways(k, T) = 0
      OBVIOUS
    <3>1. kSubset(k, T) = {}
      BY <2>1, FS_EmptySet DEF kSubset
    <3>2. QED
      BY <3>1, FS_EmptySet DEF Ways
  <2>3. Ways(j + 1, T) = 0
    BY <2>2
  <2>4. CASE j = 0
    BY <2>3, <2>4, NothingChosen
  <2>5. CASE j # 0
    <3>1. Ways(j, T) = 0
      BY <2>2, <2>5
    <3>2. QED
      BY <2>3, <3>1
  <2>6. QED
    BY <2>4, <2>5
<1>2. ASSUME NEW n \in Nat, n \in P
      PROVE  n + 1 \in P
  <2> SUFFICES ASSUME NEW T, IsFiniteSet(T), Cardinality(T) = n + 1, NEW j \in Nat
               PROVE  Holds(T, j)
    OBVIOUS
  <2>1. PICK x : x \in T
    BY FS_EmptySet
  <2> DEFINE R == T \ {x}
  <2>2. T = R \union {x} /\ x \notin R
    BY <2>1
  <2>3. IsFiniteSet(R) /\ Cardinality(R) = n
    <3>1. IsFiniteSet(R) /\ Cardinality(R) = Cardinality(T) - 1
      BY <2>1, FS_RemoveElement
    <3>2. Cardinality(T) = n + 1
      OBVIOUS
    <3>3. QED
      BY <3>1, <3>2
  <2> HIDE DEF R
  <2>4. \A k \in Nat : Holds(R, k)
    BY <1>2, <2>3
  <2> DEFINE a == Ways(j + 1, R)
             b == Ways(j, R)
  <2>5. a \in Nat /\ b \in Nat
    BY <2>3, WaysFinite
  <2>6. Ways(j + 1, T) = a + b
    BY <2>2, <2>3, WaysWithOneMore
  <2>7. a * (j + 1) = b * (n - j)
    BY <2>3, <2>4
  <2>8. CASE j = 0
    <3>1. b = 1 /\ Ways(j, T) = 1
      BY <2>3, <2>8, NothingChosen
    <3> HIDE DEF a, b
    <3>2. a = n
      BY <2>5, <2>7, <2>8, <3>1
    <3>3. QED
      BY <2>6, <2>8, <3>1, <3>2
  <2>9. CASE j # 0
    <3> DEFINE c == Ways(j - 1, R)
    <3>1. j - 1 \in Nat /\ (j - 1) + 1 = j
      BY <2>9
    <3>2. c \in Nat
      BY <2>3, WaysFinite
    <3>3. Ways(j, T) = b + c
      BY <2>2, <2>3, <3>1, WaysWithOneMore
    <3>4. b * j = c * (n - (j - 1))
      BY <2>3, <2>4, <3>1
    <3> HIDE DEF a, b, c
    <3>5. (a + b) * (j + 1) = b * (n + 1)
      <4>1. (a + b) * (j + 1) = a * (j + 1) + b * (j + 1)
        BY <2>5
      <4>2. b * (n - j) + b * (j + 1) = b * (n + 1)
        BY <2>5
      <4>3. QED
        BY <2>7, <4>1, <4>2
    <3>6. (b + c) * ((n + 1) - j) = b * (n + 1)
      <4>1. (b + c) * ((n + 1) - j) = b * ((n + 1) - j) + c * (n - (j - 1))
        BY <2>5, <3>2
      <4>2. b * ((n + 1) - j) + b * j = b * (n + 1)
        BY <2>5
      <4>3. QED
        BY <3>4, <4>1, <4>2
    <3>7. QED
      BY <2>6, <3>3, <3>5, <3>6
  <2>10. QED
    BY <2>8, <2>9
<1> HIDE DEF P
<1>3. Nat \subseteq P
  BY <1>1, <1>2, SetInduction
<1>4. Cardinality(S) \in P
  BY <1>3, FS_CardinalityType
<1>5. QED
  BY <1>4 DEF P

LEMMA SomeWay ==
  ASSUME NEW S, IsFiniteSet(S), NEW k \in 0..Cardinality(S)
  PROVE  Ways(k, S) > 0
<1> DEFINE P == {i \in Nat : i <= Cardinality(S) => Ways(i, S) > 0}
<1>1. Cardinality(S) \in Nat
  BY FS_CardinalityType
<1>2. 0 \in P
  BY NothingChosen
<1>3. ASSUME NEW i \in Nat, i \in P
      PROVE  i + 1 \in P
  <2> SUFFICES ASSUME i + 1 <= Cardinality(S) PROVE Ways(i + 1, S) > 0
    OBVIOUS
  <2> DEFINE m == Ways(i + 1, S)
             c == Ways(i, S)
             left == Cardinality(S) - i
  <2>1. m \in Nat /\ c \in Nat
    BY WaysFinite
  <2>2. c > 0 /\ left \in Nat /\ left > 0
    BY <1>1, <1>3
  <2>3. m * (i + 1) = c * left
    BY NextWays
  <2> HIDE DEF m, c, left
  <2>4. c * left > 0
    BY <2>1, <2>2
  <2>5. m # 0
    BY <2>1, <2>3, <2>4
  <2>6. QED
    BY <2>1, <2>5 DEF m
<1> HIDE DEF P
<1>4. Nat \subseteq P
  BY <1>2, <1>3, SetInduction
<1>5. k \in P
  BY <1>1, <1>4
<1>6. QED
  BY <1>1, <1>5 DEF P

(* The rounds of the loop of pass_at_k.                                    *)
Round(n, c, i, before) == <<before[1] * (n - c - (i - 1)), before[2] * (n - (i - 1))>>

Rounds(n, c, k, f) ==
  f[0] = <<1, 1>> /\ \A i \in 1..k : f[i] = Round(n, c, i, f[i - 1])

LEMMA PassLoop ==
  ASSUME NEW n, NEW c, NEW k \in Nat, ~(n - c < k)
  PROVE  \E f : /\ pass_at_k(n, c, k) = <<f[k][2] - f[k][1], f[k][2]>>
                /\ Rounds(n, c, k, f)
<1> DEFINE start == <<1, 1>>
           Step(i, p) == Round(n, c, i, p)
           Follows(m, f) == f = [i \in 0..m |-> IF i = 0 THEN start ELSE Step(i, f[i - 1])]
           F == CHOOSE f : Follows(k, f)
           P == {m \in Nat : \E f : Follows(m, f)}
<1>1. pass_at_k(n, c, k) = <<F[k][2] - F[k][1], F[k][2]>>
  BY DEF pass_at_k, Round
<1> HIDE DEF start, Step
<1>2. 0 \in P
  <2> DEFINE f == [i \in 0..0 |-> start]
  <2>1. Follows(0, f)
    OBVIOUS
  <2>2. QED
    BY <2>1
<1>3. ASSUME NEW m \in Nat, m \in P
      PROVE  m + 1 \in P
  <2>1. PICK f : Follows(m, f)
    BY <1>3
  <2> DEFINE g == [i \in 0..(m + 1) |-> IF i = m + 1 THEN Step(m + 1, f[m]) ELSE f[i]]
  <2>2. ASSUME NEW i \in 0..(m + 1)
        PROVE  g[i] = IF i = 0 THEN start ELSE Step(i, g[i - 1])
    <3>1. CASE i = m + 1
      <4>1. i # 0 /\ i - 1 = m /\ m \in 0..(m + 1) /\ m # m + 1
        BY <3>1
      <4>2. g[m] = f[m] /\ g[i] = Step(m + 1, f[m])
        BY <3>1, <4>1
      <4>3. QED
        BY <3>1, <4>1, <4>2
    <3>2. CASE i # m + 1
      <4>1. i \in 0..m /\ (i # 0 => i - 1 \in 0..(m + 1) /\ i - 1 # m + 1)
        BY <3>2
      <4>2. g[i] = f[i] /\ (i # 0 => g[i - 1] = f[i - 1])
        BY <3>2, <4>1
      <4>3. f[i] = IF i = 0 THEN start ELSE Step(i, f[i - 1])
        BY <2>1, <4>1
      <4>4. QED
        BY <4>2, <4>3
    <3>3. QED
      BY <3>1, <3>2
  <2>3. g = [i \in 0..(m + 1) |-> g[i]]
    OBVIOUS
  <2> HIDE DEF g
  <2>4. Follows(m + 1, g)
    BY <2>2, <2>3
  <2>5. QED
    BY <2>4
<1>4. k \in P
  <2> HIDE DEF P
  <2>1. Nat \subseteq P
    BY <1>2, <1>3, SetInduction
  <2>2. QED
    BY <2>1
<1>5. Follows(k, F)
  BY <1>4
<1> HIDE DEF F
<1>6. 0 \in 0..k /\ F[0] = start
  BY <1>5
<1>7. ASSUME NEW i \in 1..k
      PROVE  F[i] = Step(i, F[i - 1])
  <2>1. i \in 0..k /\ i # 0
    OBVIOUS
  <2>2. QED
    BY <1>5, <2>1
<1>8. QED
  BY <1>1, <1>6, <1>7 DEF start, Step, Rounds

(* After i rounds the fraction is that of the i-subsets, expanded.         *)
LEMMA RoundsCount ==
  ASSUME NEW S, IsFiniteSet(S), NEW T, IsFiniteSet(T), NEW n, n = Cardinality(S),
         NEW c \in Int, n - c = Cardinality(T), NEW k \in Nat, NEW f,
         Rounds(n, c, k, f)
  PROVE  \E q \in Nat \ {0} : f[k] = <<q * Ways(k, T), q * Ways(k, S)>>
<1> DEFINE P == {i \in Nat : i <= k => \E q \in Nat \ {0} :
                               f[i] = <<q * Ways(i, T), q * Ways(i, S)>>}
<1>1. 0 \in P
  <2>1. Ways(0, T) = 1 /\ Ways(0, S) = 1
    BY NothingChosen
  <2>2. f[0] = <<1 * Ways(0, T), 1 * Ways(0, S)>>
    BY <2>1 DEF Rounds
  <2>3. QED
    BY <2>2
<1>2. ASSUME NEW i \in Nat, i \in P
      PROVE  i + 1 \in P
  <2> SUFFICES ASSUME i + 1 <= k
               PROVE  \E q \in Nat \ {0} :
                        f[i + 1] = <<q * Ways(i + 1, T), q * Ways(i + 1, S)>>
    OBVIOUS
  <2>1. PICK q \in Nat \ {0} : f[i] = <<q * Ways(i, T), q * Ways(i, S)>>
    BY <1>2
  <2>2. i + 1 \in 1..k /\ (i + 1) - 1 = i
    OBVIOUS
  <2> DEFINE a == Ways(i, T)
             b == Ways(i, S)
             a1 == Ways(i + 1, T)
             b1 == Ways(i + 1, S)
  <2>3. a \in Nat /\ b \in Nat /\ a1 \in Nat /\ b1 \in Nat /\ n \in Nat
    BY WaysFinite, FS_CardinalityType
  <2>4. a1 * (i + 1) = a * (n - c - i) /\ b1 * (i + 1) = b * (n - i)
    BY NextWays
  <2>5. f[i + 1] = Round(n, c, i + 1, f[i])
    BY <2>2 DEF Rounds
  <2> HIDE DEF a, b, a1, b1
  <2>6. f[i] = <<q * a, q * b>>
    BY <2>1 DEF a, b
  <2>7. f[i + 1] = <<(q * a) * (n - c - i), (q * b) * (n - i)>>
    BY <2>2, <2>5, <2>6 DEF Round
  <2>8. (q * a) * (n - c - i) = (q * (i + 1)) * a1
    <3>1. (q * a) * (n - c - i) = q * (a * (n - c - i))
      BY <2>3
    <3>2. (q * (i + 1)) * a1 = q * (a1 * (i + 1))
      BY <2>3
    <3>3. QED
      BY <2>4, <3>1, <3>2
  <2>9. (q * b) * (n - i) = (q * (i + 1)) * b1
    <3>1. (q * b) * (n - i) = q * (b * (n - i))
      BY <2>3
    <3>2. (q * (i + 1)) * b1 = q * (b1 * (i + 1))
      BY <2>3
    <3>3. QED
      BY <2>4, <3>1, <3>2
  <2>10. q * (i + 1) \in Nat \ {0}
    OBVIOUS
  <2>11. f[i + 1] = <<(q * (i + 1)) * a1, (q * (i + 1)) * b1>>
    BY <2>7, <2>8, <2>9
  <2>12. QED
    BY <2>10, <2>11 DEF a1, b1
<1> HIDE DEF P
<1>3. Nat \subseteq P
  BY <1>1, <1>2, SetInduction
<1>4. k \in P
  BY <1>3
<1>5. QED
  BY <1>4 DEF P

(* The product of ratios is the share of the k-subsets with a pass.        *)
LEMMA ExactShare ==
  ASSUME NEW S, IsFiniteSet(S), NEW passed \in SUBSET S, NEW k \in 0..Cardinality(S)
  PROVE  SameFraction(pass_at_k(Cardinality(S), Cardinality(passed), k),
                      SubsetsWithAPass(S, passed, k))
<1> DEFINE n == Cardinality(S)
           c == Cardinality(passed)
           T == S \ passed
           all == Ways(k, S)
           fails == Ways(k, T)
           hits == Cardinality({s \in kSubset(k, S) : s \intersect passed # {}})
<1>1. /\ IsFiniteSet(T) /\ IsFiniteSet(passed) /\ n \in Nat /\ c \in Nat
      /\ Cardinality(T) = n - c
  <2>1. IsFiniteSet(passed)
    BY FS_Subset
  <2>2. n \in Nat /\ c \in Nat
    BY <2>1, FS_CardinalityType
  <2>3. S \intersect passed = passed
    OBVIOUS
  <2>4. IsFiniteSet(T) /\ Cardinality(T) = n - Cardinality(S \intersect passed)
    BY FS_Difference
  <2>5. QED
    BY <2>1, <2>2, <2>3, <2>4
<1>2. hits = all - fails
  <2>1. {s \in kSubset(k, S) : s \intersect passed # {}} = kSubset(k, S) \ kSubset(k, T)
    BY DEF kSubset
  <2>2. kSubset(k, S) \intersect kSubset(k, T) = kSubset(k, T)
    BY DEF kSubset
  <2>3. IsFiniteSet(kSubset(k, S))
    BY WaysFinite
  <2>4. QED
    BY <2>1, <2>2, <2>3, FS_Difference DEF Ways
<1>3. all \in Nat /\ all > 0 /\ fails \in Nat
  BY <1>1, WaysFinite, SomeWay
<1>4. SubsetsWithAPass(S, passed, k) = <<hits, all>>
  BY DEF SubsetsWithAPass, Ways
<1>5. CASE n - c < k
  <2>1. pass_at_k(n, c, k) = <<1, 1>>
    BY <1>5 DEF pass_at_k
  <2>2. fails = 0
    <3>1. \A s \in SUBSET T : Cardinality(s) \in Nat /\ Cardinality(s) <= n - c
      BY <1>1, FS_Subset, FS_CardinalityType
    <3>2. kSubset(k, T) = {}
      BY <1>1, <1>5, <3>1 DEF kSubset
    <3>3. QED
      BY <3>2, FS_EmptySet DEF Ways
  <2> HIDE DEF hits, all, fails
  <2>3. QED
    BY <1>2, <1>3, <1>4, <2>1, <2>2 DEF SameFraction
<1>6. CASE ~(n - c < k)
  <2>0. k \in Nat
    BY <1>1
  <2>1. PICK f : /\ pass_at_k(n, c, k) = <<f[k][2] - f[k][1], f[k][2]>>
                 /\ Rounds(n, c, k, f)
    <3> HIDE DEF n, c
    <3>1. QED
      BY <1>6, <2>0, PassLoop
  <2>2. PICK q \in Nat \ {0} : f[k] = <<q * fails, q * all>>
    <3>1. k \in Nat /\ c \in Int /\ n - c = Cardinality(T)
      BY <1>1
    <3>2. QED
      BY <1>1, <2>1, <3>1, RoundsCount
  <2>3. pass_at_k(n, c, k) = <<q * all - q * fails, q * all>>
    BY <2>1, <2>2
  <2> HIDE DEF hits, all, fails
  <2>4. q * all # 0 /\ (q * all - q * fails) * all = (all - fails) * (q * all)
    BY <1>3
  <2>5. QED
    BY <1>2, <1>3, <1>4, <2>3, <2>4 DEF SameFraction
<1>7. QED
  BY <1>5, <1>6

ScoresFinite == IsFiniteSet(results) /\ IsFiniteSet(buffered)

LEMMA FiniteStep == ScoresFinite /\ [Next]_vars => ScoresFinite'
<1> SUFFICES ASSUME ScoresFinite, [Next]_vars PROVE ScoresFinite'
  OBVIOUS
<1>1. CASE UNCHANGED <<results, buffered>>
  BY <1>1 DEF ScoresFinite
<1>2. CASE StartExecute
  BY <1>2, FS_EmptySet DEF StartExecute, ScoresFinite
<1>3. CASE Execute
  <2>1. results' = results /\ \E row : buffered' = buffered \union {row}
    BY <1>3 DEF Execute
  <2>2. QED
    BY <2>1, FS_AddElement DEF ScoresFinite
<1>4. CASE EndExecute
  BY <1>4, FS_Union, FS_EmptySet DEF EndExecute, ScoresFinite
<1>5. CASE Crash
  <2>1. PICK flushed \in SUBSET buffered : results' = results \union flushed
    BY <1>5 DEF Crash
  <2>2. buffered' = {} /\ IsFiniteSet(flushed)
    BY <1>5, <2>1, FS_Subset DEF Crash, ScoresFinite
  <2>3. QED
    BY <2>1, <2>2, FS_Union, FS_EmptySet DEF ScoresFinite
<1>6. CASE StartGenerate \/ Pool \/ Main
  <2>1. UNCHANGED <<results, buffered>>
    BY <1>6 DEF StartGenerate, Pool, Main, Take, Check, CallReturns, LiteLLMReturns, CallFails,
                Collect, EndGenerate, execVars
  <2>2. QED
    BY <1>1, <2>1
<1>7. QED
  BY <1>1, <1>2, <1>3, <1>4, <1>5, <1>6 DEF Next, vars, execVars

(* What a report says of a problem is the share of the k-subsets of its    *)
(* scored samples that hold a passed one, for any number of samples and    *)
(* any k (stats.py:32-43, report.py:16-53).                                *)
THEOREM PassAtKIsTheShare == Spec => []PassAtKIsExact
<1>1. ScoresFinite /\ model \in Models => PassAtKIsExact
  <2> SUFFICES ASSUME ScoresFinite, model \in Models,
                      NEW p \in 0..(Problems - 1), NEW k \in 1..N[model]
               PROVE  LET summary == cmd_report
                          samples == {row \in results : row.task[1] = p}
                          passed == {row \in samples : row.outcome = "passed"}
                      IN IF Cardinality(samples) < k THEN p \notin DOMAIN summary.pass_at_k[k]
                         ELSE SameFraction(summary.pass_at_k[k][p],
                                           SubsetsWithAPass(samples, passed, k))
    BY DEF PassAtKIsExact
  <2> DEFINE samples == {row \in results : row.task[1] = p}
             passed == {row \in samples : row.outcome = "passed"}
             share == per_problem_pass_at_k(results, k)
             asked == {row.task[1] : row \in results}
  <2>1. cmd_report.pass_at_k[k] = share
    BY DEF cmd_report, summarize
  <2>2. IsFiniteSet(samples) /\ Cardinality(samples) \in Nat /\ k \in Nat /\ k >= 1
    <3>1. samples \in SUBSET results
      OBVIOUS
    <3>2. N[model] \in Nat
      BY HumanEvalAssumption
    <3>3. QED
      BY <3>1, <3>2, FS_Subset, FS_CardinalityType DEF ScoresFinite
  <2>3. p \in DOMAIN share <=> p \in asked /\ Cardinality(samples) >= k
    BY DEF per_problem_pass_at_k
  <2>4. CASE Cardinality(samples) < k
    BY <2>1, <2>2, <2>3, <2>4
  <2>5. CASE ~(Cardinality(samples) < k)
    <3>1. Cardinality(samples) >= k /\ k \in 0..Cardinality(samples)
      BY <2>2, <2>5
    <3>2. samples # {}
      BY <2>2, <3>1, FS_EmptySet
    <3>3. p \in asked
      BY <3>2
    <3>4. p \in DOMAIN share
      BY <2>3, <3>1, <3>3
    <3>5. share[p] = pass_at_k(Cardinality(samples), Cardinality(passed), k)
      BY <3>1, <3>3 DEF per_problem_pass_at_k
    <3>6. SameFraction(share[p], SubsetsWithAPass(samples, passed, k))
      <4> HIDE DEF samples
      <4>1. passed \in SUBSET samples
        OBVIOUS
      <4> HIDE DEF passed
      <4>2. QED
        BY <2>2, <3>1, <3>5, <4>1, ExactShare
    <3>7. QED
      BY <2>1, <2>5, <3>6
  <2>6. QED
    BY <2>4, <2>5
<1>2. Init => ScoresFinite
  BY FS_EmptySet DEF Init, ScoresFinite
<1>3. RowsInv => model \in Models
  BY DEF RowsInv
<1>4. QED
  BY <1>1, <1>2, <1>3, FiniteStep, RowsInit, RowsStep, PTL DEF Spec
=============================================================================
