-------------------------- MODULE EngineLoopProofs --------------------------
(***************************************************************************)
(* Theorems about EngineLoop.tla for every set of requests, every cap of   *)
(* the inbox and every size of the batch.                                  *)
(***************************************************************************)
EXTENDS EngineLoop, FiniteSetTheorems, TLAPS

(* The lists are finite, so that queue_depth is a number.                  *)
ListsFinite ==
  IsFiniteSet(in_hand) /\ IsFiniteSet(waiting) /\ IsFiniteSet(running)

(* Between the two reads of submit() and its put the inbox only shrinks,   *)
(* and what was read left room for one more.                               *)
ReadIsUpperBound ==
  /\ api \in {"depth", "put"} => Len(inbox) <= qsize
  /\ api = "put" => qsize < max_queue

(* A loop thread that has not looked at `stop` since it was set finds the  *)
(* flag up, unless it is about to be.                                      *)
StopIsAnnounced ==
  pc \in {"drain", "wait"} /\ stop /\ ~wake => api = "stop"

LoopInv ==
  /\ TypeOK
  /\ ListsFinite
  /\ InboxBounded
  /\ ReadIsUpperBound
  /\ StopIsAnnounced
  /\ SleepsOnlyIdle

LEMMA LoopInit == Init => LoopInv
<1> SUFFICES ASSUME Init PROVE LoopInv
  OBVIOUS
<1>1. TypeOK
  <2>1. <<>> \in Seq(Requests)
    OBVIOUS
  <2>2. 0 \in 0..max_queue
    BY QueueAssumption
  <2>3. [r \in Requests |-> "new"]
          \in [Requests -> {"new", "rejected", "accepted", "answered", "left"}]
    OBVIOUS
  <2>4. QED
    BY <2>1, <2>2, <2>3 DEF Init, TypeOK
<1>2. ListsFinite
  BY FS_EmptySet DEF Init, ListsFinite
<1>3. InboxBounded /\ ReadIsUpperBound /\ StopIsAnnounced /\ SleepsOnlyIdle
  BY QueueAssumption
  DEF Init, InboxBounded, ReadIsUpperBound, StopIsAnnounced, SleepsOnlyIdle
<1>4. QED
  BY <1>1, <1>2, <1>3 DEF LoopInv
-----------------------------------------------------------------------------
(* The loop thread *)

LEMMA LoopStarts ==
  ASSUME LoopInv, BuildSucceeds \/ BuildFails \/ Top
  PROVE  LoopInv'
<1>1. /\ UNCHANGED <<inbox, in_hand, waiting, sorting, running, wake, stop>>
      /\ UNCHANGED <<api, req, qsize, fate>>
  BY DEF BuildSucceeds, BuildFails, Top, apiVars
<1>2. TypeOK'
  BY <1>1 DEF LoopInv, TypeOK, BuildSucceeds, BuildFails, Top, ReadyAfterFailure
<1>3. ListsFinite' /\ InboxBounded' /\ ReadIsUpperBound'
  BY <1>1 DEF LoopInv, ListsFinite, InboxBounded, ReadIsUpperBound
<1>4. pc' # "wait" /\ (pc' = "drain" => ~stop)
  BY DEF BuildSucceeds, BuildFails, Top
<1>5. StopIsAnnounced' /\ SleepsOnlyIdle'
  BY <1>1, <1>4 DEF StopIsAnnounced, SleepsOnlyIdle
<1>6. QED
  BY <1>2, <1>3, <1>5 DEF LoopInv

LEMMA LoopDrains ==
  ASSUME LoopInv, GetNowait \/ HandOver
  PROVE  LoopInv'
<1>1. /\ UNCHANGED <<pc, ready, build_error, sorting, running, wake, stop>>
      /\ UNCHANGED <<api, req, qsize, fate>> /\ pc = "drain"
  BY DEF GetNowait, HandOver, apiVars
<1>2. CASE GetNowait
  <2>1. /\ inbox \in Seq(Requests) /\ inbox # <<>>
        /\ inbox' = Tail(inbox) /\ in_hand' = {Head(inbox)} /\ waiting' = waiting
    BY <1>2 DEF GetNowait, LoopInv, TypeOK
  <2>2. /\ inbox' \in Seq(Requests) /\ Head(inbox) \in Requests
        /\ Len(inbox') <= Len(inbox) /\ Len(inbox') \in Nat /\ Len(inbox) \in Nat
    BY <2>1
  <2>3. TypeOK'
    BY <1>1, <2>1, <2>2 DEF LoopInv, TypeOK
  <2>4. IsFiniteSet(in_hand')
    BY <2>1, FS_Singleton
  <2>5. ListsFinite'
    BY <1>1, <2>1, <2>4 DEF LoopInv, ListsFinite
  <2>6. InboxBounded' /\ ReadIsUpperBound'
    BY <1>1, <2>2, QueueAssumption DEF LoopInv, TypeOK, InboxBounded, ReadIsUpperBound
  <2>7. StopIsAnnounced' /\ SleepsOnlyIdle'
    BY <1>1 DEF LoopInv, StopIsAnnounced, SleepsOnlyIdle
  <2>8. QED
    BY <2>3, <2>5, <2>6, <2>7 DEF LoopInv
<1>3. CASE HandOver
  <2>1. waiting' = waiting \cup in_hand /\ in_hand' = {} /\ inbox' = inbox
    BY <1>3 DEF HandOver
  <2>2. TypeOK'
    BY <1>1, <2>1 DEF LoopInv, TypeOK
  <2>3. ListsFinite'
    BY <1>1, <2>1, FS_Union, FS_EmptySet DEF LoopInv, ListsFinite
  <2>4. InboxBounded' /\ ReadIsUpperBound' /\ StopIsAnnounced' /\ SleepsOnlyIdle'
    BY <1>1, <2>1
    DEF LoopInv, InboxBounded, ReadIsUpperBound, StopIsAnnounced, SleepsOnlyIdle
  <2>5. QED
    BY <2>2, <2>3, <2>4 DEF LoopInv
<1>4. QED
  BY <1>2, <1>3

(* Going to sleep and waking up: the inbox was empty, and the flag goes    *)
(* down only before the inbox and `stop` are looked at again.              *)
LEMMA LoopIdles ==
  ASSUME LoopInv, Drained \/ Clear \/ \E why \in {"set", "timeout"} : Awake(why)
  PROVE  LoopInv'
<1>1. /\ UNCHANGED <<ready, build_error, inbox, in_hand, waiting, sorting, running, stop>>
      /\ UNCHANGED <<api, req, qsize, fate>>
      /\ wake' = wake \/ (wake' = FALSE /\ pc' = "top")
  BY DEF Drained, Clear, Awake, apiVars, IdleOrder
<1>2. \/ pc = "drain" /\ inbox = <<>> /\ pc' \in {"retire", "wait"} /\ wake' = wake
      \/ pc' \in {"clear", "top"}
  BY DEF Drained, Clear, Awake, IdleOrder
<1>3. TypeOK'
  BY <1>1, <1>2 DEF LoopInv, TypeOK
<1>4. ListsFinite' /\ InboxBounded' /\ ReadIsUpperBound'
  BY <1>1 DEF LoopInv, ListsFinite, InboxBounded, ReadIsUpperBound
<1>5. StopIsAnnounced' /\ SleepsOnlyIdle'
  BY <1>1, <1>2 DEF LoopInv, StopIsAnnounced, SleepsOnlyIdle
<1>6. QED
  BY <1>3, <1>4, <1>5 DEF LoopInv

LEMMA LoopWorks ==
  ASSUME LoopInv, RetireAndSort \/ AnyStep \/ Dies
  PROVE  LoopInv'
<1>1. /\ UNCHANGED <<ready, build_error, inbox, in_hand, wake, stop>>
      /\ UNCHANGED <<api, req, qsize>> /\ sorting' \in BOOLEAN
      /\ pc' \in {"step", "top", "ended"}
  BY DEF RetireAndSort, AnyStep, Step, Dies, apiVars
<1>2. /\ waiting' \subseteq waiting \cup running
      /\ running' \subseteq waiting \cup running
  BY DEF RetireAndSort, AnyStep, Step, Dies
<1>3. fate' \in [Requests -> {"new", "rejected", "accepted", "answered", "left"}]
  BY DEF LoopInv, TypeOK, RetireAndSort, AnyStep, Step, Dies, apiVars
<1>4. TypeOK'
  BY <1>1, <1>2, <1>3 DEF LoopInv, TypeOK
<1>5. IsFiniteSet(waiting \cup running)
  BY FS_Union DEF LoopInv, ListsFinite
<1>6. IsFiniteSet(waiting') /\ IsFiniteSet(running')
  BY <1>2, <1>5, FS_Subset
<1>7. ListsFinite'
  BY <1>1, <1>6 DEF LoopInv, ListsFinite
<1>8. InboxBounded' /\ ReadIsUpperBound' /\ StopIsAnnounced' /\ SleepsOnlyIdle'
  BY <1>1 DEF LoopInv, InboxBounded, ReadIsUpperBound, StopIsAnnounced, SleepsOnlyIdle
<1>9. QED
  BY <1>4, <1>7, <1>8 DEF LoopInv
-----------------------------------------------------------------------------
(* The event loop *)

LEMMA ApiReads ==
  ASSUME LoopInv, Startup \/ (\E r \in Requests : ReadInbox(r)) \/ ReadWaiting
  PROVE  LoopInv'
<1>1. UNCHANGED <<pc, ready, build_error, inbox, in_hand, waiting, sorting, running, wake, stop>>
  BY DEF Startup, ReadInbox, ReadWaiting, loopVars
<1>2. Len(inbox) \in 0..max_queue /\ qsize \in 0..max_queue
  BY QueueAssumption DEF LoopInv, TypeOK, InboxBounded
<1>3. TypeOK'
  BY <1>1, <1>2 DEF LoopInv, TypeOK, Startup, ReadInbox, ReadWaiting
<1>4. ListsFinite' /\ InboxBounded'
  BY <1>1 DEF LoopInv, ListsFinite, InboxBounded
<1>5. ReadIsUpperBound'
  <2>1. CASE Startup \/ \E r \in Requests : ReadInbox(r)
    BY <1>1, <1>2, <2>1, QueueAssumption
    DEF LoopInv, ReadIsUpperBound, Startup, ReadInbox
  <2>2. CASE ReadWaiting
    <3>1. Cardinality(waiting) \in Nat
      BY FS_CardinalityType DEF LoopInv, ListsFinite
    <3>2. api = "depth" /\ qsize' = qsize /\ api' = (IF Full THEN "idle" ELSE "put")
      BY <2>2 DEF ReadWaiting
    <3>3. ~Full => qsize < max_queue
      BY <1>2, <3>1, QueueAssumption DEF Full, queue_depth
    <3>4. QED
      BY <1>1, <3>2, <3>3 DEF LoopInv, ReadIsUpperBound
  <2>3. QED
    BY <2>1, <2>2
<1>6. api \notin {"wake", "stop"} /\ StopIsAnnounced' /\ SleepsOnlyIdle'
  BY <1>1
  DEF LoopInv, StopIsAnnounced, SleepsOnlyIdle, Startup, ReadInbox, ReadWaiting
<1>7. QED
  BY <1>3, <1>4, <1>5, <1>6 DEF LoopInv

(* The put finds room, and is followed by the wake-up.                     *)
LEMMA ApiPuts ==
  ASSUME LoopInv, Put
  PROVE  LoopInv'
<1>1. PICK r \in req : /\ inbox' = Append(inbox, r)
                       /\ fate' = [fate EXCEPT ![r] = "accepted"]
  BY DEF Put
<1>2. /\ UNCHANGED <<pc, ready, build_error, in_hand, waiting, sorting, running, wake, stop>>
      /\ UNCHANGED <<req, qsize>> /\ api = "put" /\ api' = "wake"
  BY DEF Put
<1>3. r \in Requests /\ inbox \in Seq(Requests)
  BY DEF LoopInv, TypeOK
<1>4. /\ inbox' \in Seq(Requests) /\ Len(inbox') = Len(inbox) + 1
      /\ Len(inbox) \in Nat
  BY <1>1, <1>3
<1>5. TypeOK'
  BY <1>1, <1>2, <1>3, <1>4 DEF LoopInv, TypeOK
<1>6. InboxBounded'
  BY <1>2, <1>4, QueueAssumption DEF LoopInv, TypeOK, ReadIsUpperBound, InboxBounded
<1>7. ListsFinite' /\ ReadIsUpperBound'
  BY <1>2 DEF LoopInv, ListsFinite, ReadIsUpperBound
<1>8. StopIsAnnounced' /\ SleepsOnlyIdle'
  BY <1>2 DEF LoopInv, StopIsAnnounced, SleepsOnlyIdle
<1>9. QED
  BY <1>5, <1>6, <1>7, <1>8 DEF LoopInv

LEMMA ApiWakes ==
  ASSUME LoopInv, SetWake \/ (\E r \in Requests : Leave(r)) \/ SetStop
  PROVE  LoopInv'
<1>1. /\ UNCHANGED <<pc, ready, build_error, inbox, in_hand, waiting, sorting, running>>
      /\ UNCHANGED <<req, qsize>> /\ api' \notin {"depth", "put"}
  BY DEF SetWake, Leave, SetStop, loopVars
<1>2. TypeOK'
  BY <1>1 DEF LoopInv, TypeOK, SetWake, Leave, SetStop, loopVars
<1>3. ListsFinite' /\ InboxBounded' /\ ReadIsUpperBound'
  BY <1>1 DEF LoopInv, ListsFinite, InboxBounded, ReadIsUpperBound
<1>4. \/ wake'
      \/ api = "idle" /\ wake' = wake /\ (stop' => api' = "stop" \/ stop' = stop)
         /\ (api' = "stop" \/ api' = api)
  BY DEF SetWake, Leave, SetStop, loopVars
<1>5. StopIsAnnounced' /\ SleepsOnlyIdle'
  BY <1>1, <1>4 DEF LoopInv, TypeOK, StopIsAnnounced, SleepsOnlyIdle
<1>6. QED
  BY <1>2, <1>3, <1>5 DEF LoopInv

LEMMA LoopStutters ==
  ASSUME LoopInv, UNCHANGED vars
  PROVE  LoopInv'
<1>1. /\ UNCHANGED <<pc, ready, build_error, inbox, in_hand, waiting, sorting>>
      /\ UNCHANGED <<running, wake, stop, api, req, qsize, fate>>
  BY DEF vars, loopVars, apiVars
<1>2. TypeOK' /\ ListsFinite' /\ InboxBounded'
  BY <1>1 DEF LoopInv, TypeOK, ListsFinite, InboxBounded
<1>3. ReadIsUpperBound' /\ StopIsAnnounced' /\ SleepsOnlyIdle'
  BY <1>1 DEF LoopInv, ReadIsUpperBound, StopIsAnnounced, SleepsOnlyIdle
<1>4. QED
  BY <1>2, <1>3 DEF LoopInv

LEMMA LoopInvariant == Spec => []LoopInv
<1>1. LoopInv /\ [Next]_vars => LoopInv'
  BY LoopStarts, LoopDrains, LoopIdles, LoopWorks, ApiReads, ApiPuts, ApiWakes, LoopStutters
  DEF Next, LoopStep, ApiStep
<1>2. QED
  BY <1>1, LoopInit, PTL DEF Spec
-----------------------------------------------------------------------------
(* Every variable of the two threads keeps its type.                       *)
THEOREM LoopTypeCorrect == Spec => []TypeOK
<1>1. LoopInv => TypeOK
  BY DEF LoopInv
<1>2. QED
  BY <1>1, LoopInvariant, PTL

(* No wake-up is lost: whenever the loop thread sleeps with its flag down, *)
(* nothing waits for it (scheduler.py:344-356).                            *)
THEOREM NoLostWakeUp == Spec => []SleepsOnlyIdle
<1>1. LoopInv => SleepsOnlyIdle
  BY DEF LoopInv
<1>2. QED
  BY <1>1, LoopInvariant, PTL

(* The cap of the inbox holds although the depth is read without a lock    *)
(* and before the put (scheduler.py:317-333).                              *)
THEOREM InboxCapHolds == Spec => []InboxBounded
<1>1. LoopInv => InboxBounded
  BY DEF LoopInv
<1>2. QED
  BY <1>1, LoopInvariant, PTL
-----------------------------------------------------------------------------
(* Where a request is.  HeldInv adds to HeldInOnePlace that what is in one *)
(* of the places was accepted, and what submit() is about to put there has *)
(* not been: so it cannot be there twice.                                  *)

Held == Inboxed \cup in_hand \cup waiting \cup running

Unseen(r) == fate[r] \in {"new", "rejected"}

HeldInv ==
  /\ HeldInOnePlace
  /\ \A r \in Held : ~Unseen(r)
  /\ api \in {"depth", "put"} => \A r \in req : fate[r] = "new"

LEMMA HeldInit == Init => HeldInv
<1> SUFFICES ASSUME Init PROVE HeldInv
  OBVIOUS
<1>1. Inboxed = {} /\ InFlight = {} /\ Held = {}
  BY DEF Init, Inboxed, InFlight, Held
<1>2. QED
  BY <1>1 DEF Init, HeldInv, HeldInOnePlace

LEMMA HeldAreRequests ==
  ASSUME LoopInv
  PROVE  Held \subseteq Requests
<1>1. inbox \in Seq(Requests)
  BY DEF LoopInv, TypeOK
<1>2. Inboxed \subseteq Requests
  BY <1>1 DEF Inboxed
<1>3. QED
  BY <1>2 DEF Held, LoopInv, TypeOK

(* Taking the head of the inbox splits what is in it.                      *)
LEMMA TakesOne ==
  ASSUME LoopInv, HeldInOnePlace, inbox # <<>>, inbox' = Tail(inbox)
  PROVE  /\ Inboxed = {Head(inbox)} \cup Inboxed'
         /\ Head(inbox) \notin Inboxed'
         /\ \A i, j \in 1..Len(inbox') : inbox'[i] = inbox'[j] => i = j
<1>1. inbox \in Seq(Requests) /\ Len(inbox) \in Nat /\ Len(inbox) # 0
  BY DEF LoopInv, TypeOK
<1>2. /\ Len(inbox') = Len(inbox) - 1
      /\ \A i \in 1..Len(inbox') : inbox'[i] = inbox[i + 1]
      /\ Head(inbox) = inbox[1]
  BY <1>1
<1>3. Inboxed = {inbox[1]} \cup Inboxed'
  <2>1. \A i \in 1..Len(inbox) : i = 1 \/ (i - 1 \in 1..Len(inbox') /\ i = (i - 1) + 1)
    BY <1>1, <1>2
  <2>2. \A i \in 1..Len(inbox) : i = 1 \/ inbox[i] = inbox'[i - 1]
    BY <1>2, <2>1
  <2>3. Inboxed \subseteq {inbox[1]} \cup Inboxed'
    BY <2>1, <2>2 DEF Inboxed
  <2>4. 1 \in 1..Len(inbox) /\ \A i \in 1..Len(inbox') : i + 1 \in 1..Len(inbox)
    BY <1>1, <1>2
  <2>5. {inbox[1]} \cup Inboxed' \subseteq Inboxed
    BY <1>2, <2>4 DEF Inboxed
  <2>6. QED
    BY <2>3, <2>5
<1>4. \A i \in 1..Len(inbox') : i + 1 \in 1..Len(inbox) /\ i + 1 # 1 /\ 1 \in 1..Len(inbox)
  BY <1>1, <1>2
<1>5. inbox[1] \notin Inboxed'
  BY <1>2, <1>4 DEF HeldInOnePlace, Inboxed
<1>6. \A i, j \in 1..Len(inbox') : inbox'[i] = inbox'[j] => i = j
  <2> SUFFICES ASSUME NEW i \in 1..Len(inbox'), NEW j \in 1..Len(inbox'),
                      inbox'[i] = inbox'[j]
               PROVE  i = j
    OBVIOUS
  <2>1. i + 1 = j + 1
    BY <1>2, <1>4 DEF HeldInOnePlace
  <2>2. QED
    BY <1>1, <1>2, <2>1
<1>7. QED
  BY <1>2, <1>3, <1>5, <1>6

(* Putting a request that was not in the inbox.                            *)
LEMMA PutsOne ==
  ASSUME LoopInv, HeldInOnePlace, NEW r \in Requests, r \notin Inboxed,
         inbox' = Append(inbox, r)
  PROVE  /\ Inboxed' = Inboxed \cup {r}
         /\ \A i, j \in 1..Len(inbox') : inbox'[i] = inbox'[j] => i = j
<1>1. inbox \in Seq(Requests) /\ Len(inbox) \in Nat
  BY DEF LoopInv, TypeOK
<1>2. /\ Len(inbox') = Len(inbox) + 1
      /\ \A i \in 1..Len(inbox) : inbox'[i] = inbox[i]
      /\ inbox'[Len(inbox) + 1] = r
  BY <1>1
<1>3. \A i \in 1..Len(inbox') : i \in 1..Len(inbox) \/ i = Len(inbox')
  BY <1>1, <1>2
<1>4. 1..Len(inbox) \subseteq 1..Len(inbox') /\ Len(inbox') \in 1..Len(inbox')
  BY <1>1, <1>2
<1>5. Inboxed' = Inboxed \cup {r}
  <2>1. Inboxed' \subseteq Inboxed \cup {r}
    BY <1>2, <1>3 DEF Inboxed
  <2>2. Inboxed \cup {r} \subseteq Inboxed'
    BY <1>2, <1>4 DEF Inboxed
  <2>3. QED
    BY <2>1, <2>2
<1>6. \A i \in 1..Len(inbox) : inbox[i] # r
  BY DEF Inboxed
<1>7. \A i, j \in 1..Len(inbox') : inbox'[i] = inbox'[j] => i = j
  <2> SUFFICES ASSUME NEW i \in 1..Len(inbox'), NEW j \in 1..Len(inbox'),
                      inbox'[i] = inbox'[j]
               PROVE  i = j
    OBVIOUS
  <2>1. CASE i \in 1..Len(inbox) /\ j \in 1..Len(inbox)
    BY <1>2, <2>1 DEF HeldInOnePlace
  <2>2. CASE i \in 1..Len(inbox) /\ j = Len(inbox')
    BY <1>2, <1>6, <2>2
  <2>3. CASE i = Len(inbox') /\ j \in 1..Len(inbox)
    BY <1>2, <1>6, <2>3
  <2>4. QED
    BY <1>3, <2>1, <2>2, <2>3
<1>8. QED
  BY <1>5, <1>7

(* The loop thread moves requests between its places: it takes one from    *)
(* the inbox, hands it over, and the batch takes and gives back.           *)
LEMMA HeldMoves ==
  ASSUME LoopInv, HeldInv,
         GetNowait \/ HandOver \/ RetireAndSort \/ AnyStep
  PROVE  HeldInv'
<1>1. UNCHANGED <<api, req>>
  BY DEF GetNowait, HandOver, RetireAndSort, AnyStep, Step, apiVars
<1>2. CASE GetNowait
  <2>1. /\ inbox # <<>> /\ inbox' = Tail(inbox)
        /\ in_hand = {} /\ in_hand' = {Head(inbox)}
        /\ UNCHANGED <<waiting, running, fate>>
    BY <1>2 DEF GetNowait, apiVars
  <2>2. /\ Inboxed = in_hand' \cup Inboxed' /\ in_hand' \cap Inboxed' = {}
        /\ \A i, j \in 1..Len(inbox') : inbox'[i] = inbox'[j] => i = j
    BY <2>1, TakesOne DEF HeldInv
  <2>3. Held' = Held /\ InFlight' = InFlight
    BY <2>1, <2>2 DEF Held, InFlight
  <2>4. HeldInOnePlace'
    BY <2>1, <2>2, <2>3 DEF HeldInv, HeldInOnePlace, Held
  <2>5. QED
    BY <1>1, <2>1, <2>3, <2>4 DEF HeldInv, Unseen
<1>3. CASE HandOver
  <2>1. /\ waiting' = waiting \cup in_hand /\ in_hand' = {}
        /\ UNCHANGED <<inbox, running, fate>>
    BY <1>3 DEF HandOver, apiVars
  <2>2. Inboxed' = Inboxed /\ Held' = Held /\ InFlight' = InFlight
    BY <2>1 DEF Inboxed, Held, InFlight
  <2>3. HeldInOnePlace'
    BY <2>1, <2>2 DEF HeldInv, HeldInOnePlace, Held
  <2>4. QED
    BY <1>1, <2>1, <2>2, <2>3 DEF HeldInv, Unseen
<1>4. CASE RetireAndSort
  <2>1. /\ waiting' = waiting \ Ended /\ running' = running \ Ended
        /\ UNCHANGED <<inbox, in_hand, fate>>
    BY <1>4 DEF RetireAndSort, apiVars
  <2>2. /\ Inboxed' = Inboxed /\ Held' \subseteq Held /\ InFlight' = InFlight
        /\ Ended \cap InFlight = {}
    BY <2>1 DEF Inboxed, Held, InFlight, Ended
  <2>3. HeldInOnePlace'
    BY <2>1, <2>2 DEF HeldInv, HeldInOnePlace, Held
  <2>4. QED
    BY <1>1, <2>1, <2>2, <2>3 DEF HeldInv, Unseen
<1>5. CASE AnyStep
  <2>a. PICK admitted \in SUBSET waiting :
          \E evicted \in SUBSET (running \cup admitted) :
            \E finished \in SUBSET (running \cup admitted) :
              Step(admitted, evicted, finished)
    BY <1>5 DEF AnyStep
  <2>1. PICK evicted \in SUBSET (running \cup admitted),
             finished \in SUBSET (running \cup admitted) :
               Step(admitted, evicted, finished)
    BY <2>a
  <2>2. /\ running' = (running \cup admitted) \ evicted
        /\ waiting' = (waiting \ admitted) \cup evicted
        /\ fate' = [r \in Requests |-> IF r \in finished THEN "answered" ELSE fate[r]]
        /\ UNCHANGED <<inbox, in_hand>>
    BY <2>1 DEF Step
  <2>3. Inboxed' = Inboxed /\ Held' = Held
    BY <2>a, <2>1, <2>2 DEF Inboxed, Held
  <2>4. finished \subseteq Held /\ Held \subseteq Requests /\ req \subseteq Requests
    BY <2>a, <2>1, HeldAreRequests DEF Held, LoopInv, TypeOK
  <2>5. /\ InFlight' \subseteq InFlight
        /\ \A r \in Held : ~Unseen(r)'
    BY <2>2, <2>4 DEF InFlight, Unseen, HeldInv
  <2>6. HeldInOnePlace'
    BY <2>1, <2>2, <2>3, <2>5 DEF HeldInv, HeldInOnePlace, Held
  <2>7. api' \in {"depth", "put"} => \A r \in req' : fate'[r] = "new"
    BY <1>1, <2>2, <2>4 DEF HeldInv, Unseen
  <2>8. QED
    BY <2>3, <2>5, <2>6, <2>7 DEF HeldInv
<1>6. QED
  BY <1>2, <1>3, <1>4, <1>5

(* submit() puts a request that is nowhere yet.                            *)
LEMMA HeldByPut ==
  ASSUME LoopInv, HeldInv, Put
  PROVE  HeldInv'
<1>1. PICK r \in req : inbox' = Append(inbox, r) /\ fate' = [fate EXCEPT ![r] = "accepted"]
  BY DEF Put
<1>2. api = "put" /\ api' = "wake" /\ UNCHANGED <<in_hand, waiting, running, req>>
  BY DEF Put
<1>3. r \in Requests /\ fate[r] = "new" /\ r \notin Held
  BY <1>2 DEF LoopInv, TypeOK, HeldInv, Unseen
<1>4. /\ Inboxed' = Inboxed \cup {r}
      /\ \A i, j \in 1..Len(inbox') : inbox'[i] = inbox'[j] => i = j
  BY <1>1, <1>3, PutsOne DEF HeldInv, Held
<1>5. /\ DOMAIN fate = Requests
      /\ fate'[r] = "accepted"
      /\ \A q \in Requests : q = r \/ fate'[q] = fate[q]
  BY <1>1, <1>3 DEF LoopInv, TypeOK
<1>6. InFlight' \subseteq InFlight \cup {r} /\ Held' = Held \cup {r}
  BY <1>2, <1>4, <1>5 DEF InFlight, Held
<1>7. HeldInOnePlace'
  BY <1>2, <1>3, <1>4, <1>6 DEF HeldInv, HeldInOnePlace, Held
<1>8. \A q \in Held' : ~Unseen(q)'
  <2>1. Held \subseteq Requests
    BY HeldAreRequests
  <2>2. QED
    BY <1>5, <1>6, <2>1 DEF HeldInv, Unseen
<1>9. QED
  BY <1>2, <1>7, <1>8 DEF HeldInv

(* The other steps of the event loop decide about requests that are held   *)
(* nowhere, or let a client leave.                                         *)
LEMMA HeldByApi ==
  ASSUME LoopInv, HeldInv,
         Startup \/ (\E r \in Requests : ReadInbox(r)) \/ ReadWaiting
           \/ SetWake \/ (\E r \in Requests : Leave(r)) \/ SetStop
  PROVE  HeldInv'
<1>1. /\ UNCHANGED <<inbox, in_hand, waiting, running>>
      /\ Inboxed' = Inboxed /\ Held' = Held
  BY DEF Startup, ReadInbox, ReadWaiting, SetWake, Leave, SetStop, loopVars, Inboxed, Held
<1>2. HeldInOnePlace /\ (InFlight' \subseteq InFlight => HeldInOnePlace')
  BY <1>1 DEF HeldInv, HeldInOnePlace
<1>3. CASE Startup \/ SetWake \/ SetStop
  <2>1. UNCHANGED fate /\ api' \notin {"depth", "put"} /\ InFlight' = InFlight
    BY <1>3 DEF Startup, SetWake, SetStop, InFlight
  <2>2. QED
    BY <1>1, <1>2, <2>1 DEF HeldInv, Unseen
<1>4. ASSUME NEW r \in Requests, ReadInbox(r) PROVE HeldInv'
  <2>1. UNCHANGED fate /\ req' = {r} /\ fate[r] = "new" /\ InFlight' = InFlight
    BY <1>4 DEF ReadInbox, InFlight
  <2>2. QED
    BY <1>1, <1>2, <2>1 DEF HeldInv, Unseen
<1>5. CASE ReadWaiting
  <2>1. /\ api = "depth" /\ UNCHANGED req
        /\ api' = "put" => UNCHANGED fate
        /\ api' \in {"put", "idle"}
        /\ \/ UNCHANGED fate
           \/ fate' = [r \in Requests |-> IF r \in req THEN "rejected" ELSE fate[r]]
    BY <1>5 DEF ReadWaiting
  <2>2. \A r \in req : r \in Requests /\ fate[r] = "new" /\ r \notin Held
    BY <2>1 DEF HeldInv, Unseen, LoopInv, TypeOK
  <2>3. /\ InFlight' \subseteq InFlight
        /\ \A r \in Held : r \in Requests => Unseen(r)' = Unseen(r)
    BY <2>1, <2>2 DEF InFlight, Unseen
  <2>4. Held \subseteq Requests
    BY HeldAreRequests
  <2>5. api' \in {"depth", "put"} => \A r \in req' : fate'[r] = "new"
    BY <2>1, <2>2
  <2>6. QED
    BY <1>1, <1>2, <2>3, <2>4, <2>5 DEF HeldInv
<1>6. ASSUME NEW r \in Requests, Leave(r) PROVE HeldInv'
  <2>1. api = "idle" /\ UNCHANGED <<api, req>> /\ fate' = [fate EXCEPT ![r] = "left"]
    BY <1>6 DEF Leave
  <2>2. /\ InFlight' \subseteq InFlight
        /\ \A q \in Requests : q = r \/ fate'[q] = fate[q]
        /\ fate'[r] = "left"
    BY <1>6, <2>1 DEF InFlight, LoopInv, TypeOK
  <2>3. Held \subseteq Requests
    BY HeldAreRequests
  <2>4. QED
    BY <1>1, <1>2, <2>1, <2>2, <2>3 DEF HeldInv, Unseen
<1>7. QED
  BY <1>3, <1>4, <1>5, <1>6

(* Everything else leaves the requests where they are.                     *)
LEMMA HeldStill ==
  ASSUME HeldInv, UNCHANGED <<inbox, in_hand, waiting, running, api, req, fate>>
  PROVE  HeldInv'
<1>1. Inboxed' = Inboxed /\ Held' = Held /\ InFlight' = InFlight
  BY DEF Inboxed, Held, InFlight
<1>2. HeldInOnePlace'
  BY <1>1 DEF HeldInv, HeldInOnePlace
<1>3. QED
  BY <1>1, <1>2 DEF HeldInv, Unseen

LEMMA HeldInvariant == Spec => []HeldInv
<1>1. LoopInv /\ HeldInv /\ [Next]_vars => HeldInv'
  <2> SUFFICES ASSUME LoopInv, HeldInv, [Next]_vars PROVE HeldInv'
    OBVIOUS
  <2>1. CASE GetNowait \/ HandOver \/ RetireAndSort \/ AnyStep
    BY <2>1, HeldMoves
  <2>2. CASE Put
    BY <2>2, HeldByPut
  <2>3. CASE Startup \/ (\E r \in Requests : ReadInbox(r)) \/ ReadWaiting
               \/ SetWake \/ (\E r \in Requests : Leave(r)) \/ SetStop
    BY <2>3, HeldByApi
  <2>4. CASE BuildSucceeds \/ BuildFails \/ Top \/ Drained \/ Clear \/ Dies
               \/ (\E why \in {"set", "timeout"} : Awake(why)) \/ UNCHANGED vars
    <3>1. UNCHANGED <<inbox, in_hand, waiting, running, api, req, fate>>
      BY <2>4
      DEF BuildSucceeds, BuildFails, Top, Drained, Clear, Dies, Awake, vars, loopVars, apiVars
    <3>2. QED
      BY <3>1, HeldStill
  <2>5. QED
    BY <2>1, <2>2, <2>3, <2>4 DEF Next, LoopStep, ApiStep
<1>2. QED
  BY <1>1, LoopInvariant, HeldInit, PTL DEF Spec

(* Nothing accepted is lost on its way from submit() to the batch and back *)
(* to the queue, and nothing is in two places (scheduler.py:331-352).      *)
THEOREM AcceptedIsHeldOnce == Spec => []HeldInOnePlace
<1>1. HeldInv => HeldInOnePlace
  BY DEF HeldInv
<1>2. QED
  BY <1>1, HeldInvariant, PTL
=============================================================================
