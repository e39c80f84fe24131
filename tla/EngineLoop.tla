----------------------------- MODULE EngineLoop -----------------------------
(***************************************************************************)
(* engine/engine/scheduler.py, class EngineLoop, with the two threads that *)
(* share it:                                                               *)
(*                                                                         *)
(*   the loop thread (pc)   builds the engine, then drains the inbox, runs *)
(*                          a scheduler step or sleeps, until told to stop *)
(*   the event loop (api)   waits for the engine, then runs one submit()   *)
(*                          at a time: read the queue depth, refuse or put *)
(*                          in the inbox, wake the loop thread             *)
(*                                                                         *)
(* Every step is one point at which the other thread can run.  The         *)
(* scheduler is reduced to the two lists the loop thread shares with       *)
(* submit(), and what a step may do to them (Scheduler.tla has the rest).  *)
(***************************************************************************)
EXTENDS Integers, Sequences, FiniteSets

CONSTANTS
  Requests,   \* client requests that passed the 400 and 413 checks
  max_queue,  \* EngineConfig.max_queue
  max_batch   \* EngineConfig.max_batch

ASSUME QueueAssumption == max_queue \in Nat /\ max_batch \in Nat \ {0}

VARIABLES
  pc,          \* the loop thread
  ready,       \* EngineLoop.ready
  build_error, \* EngineLoop.build_error is not None
  inbox,       \* EngineLoop.inbox
  in_hand,     \* what get_nowait returned and submit has not yet appended
  waiting,     \* Scheduler.waiting
  sorting,     \* waiting.sort() is under way: CPython shows an empty list
  running,     \* Scheduler.running
  wake,        \* EngineLoop._wake
  stop         \* EngineLoop._stop

VARIABLES
  api,         \* the event loop: where it is in lifespan, submit() or stop()
  req,         \* {} or the request of the latest submit()
  qsize,       \* what inbox.qsize() returned
  fate         \* "new", "rejected", "accepted", "answered" or "left"

loopVars == <<pc, ready, build_error, inbox, in_hand, waiting, sorting, running,
              wake, stop>>
apiVars  == <<api, req, qsize, fate>>
vars     == <<loopVars, apiVars>>

Init ==
  /\ pc = "build"
  /\ ready = FALSE /\ build_error = FALSE
  /\ inbox = <<>> /\ in_hand = {} /\ waiting = {} /\ running = {}
  /\ sorting = FALSE /\ wake = FALSE /\ stop = FALSE
  /\ api = "startup" /\ req = {} /\ qsize = 0
  /\ fate = [r \in Requests |-> "new"]
-----------------------------------------------------------------------------
(* The loop thread *)

BuildSucceeds ==
  /\ pc = "build"
  /\ ready' = TRUE
  /\ pc' = "top"
  /\ UNCHANGED <<build_error, inbox, in_hand, waiting, sorting, running, wake,
                 stop, apiVars>>

(* Mutated form: a failed build is recorded and nobody is told.            *)
ReadyUntold == ready

ReadyAfterFailure == TRUE

BuildFails ==
  /\ pc = "build"
  /\ build_error' = TRUE
  /\ ready' = ReadyAfterFailure
  /\ pc' = "ended"
  /\ UNCHANGED <<inbox, in_hand, waiting, sorting, running, wake, stop, apiVars>>

(* while not self._stop.is_set()                                           *)
Top ==
  /\ pc = "top"
  /\ pc' = IF stop THEN "ended" ELSE "drain"
  /\ UNCHANGED <<ready, build_error, inbox, in_hand, waiting, sorting, running,
                 wake, stop, apiVars>>

GetNowait ==
  /\ pc = "drain"
  /\ in_hand = {} /\ inbox # <<>>
  /\ in_hand' = {Head(inbox)}
  /\ inbox' = Tail(inbox)
  /\ UNCHANGED <<pc, ready, build_error, waiting, sorting, running, wake, stop,
                 apiVars>>

(* Mutated form: the list is replaced, not appended to.                    *)
HandOverReplacing ==
  /\ pc = "drain"
  /\ in_hand # {}
  /\ waiting' = in_hand
  /\ in_hand' = {}
  /\ UNCHANGED <<pc, ready, build_error, inbox, sorting, running, wake, stop,
                 apiVars>>

(* self.sched.submit *)
HandOver ==
  /\ pc = "drain"
  /\ in_hand # {}
  /\ waiting' = waiting \cup in_hand
  /\ in_hand' = {}
  /\ UNCHANGED <<pc, ready, build_error, inbox, sorting, running, wake, stop,
                 apiVars>>

(* Mutated form: only the running requests count as work.                  *)
HasWorkRunning == running # {}

has_work == waiting # {} \/ running # {}

(* Mutated form: the flag is cleared before the wait, not after it.        *)
ClearThenWait == [drained |-> "clear", clear |-> "wait", wait |-> "top"]

(* The order of the statements of the idle branch.                         *)
IdleOrder == [drained |-> "wait", wait |-> "clear", clear |-> "top"]

(* queue.Empty *)
Drained ==
  /\ pc = "drain"
  /\ in_hand = {} /\ inbox = <<>>
  /\ pc' = IF has_work THEN "retire" ELSE IdleOrder.drained
  /\ UNCHANGED <<ready, build_error, inbox, in_hand, waiting, sorting, running,
                 wake, stop, apiVars>>

(* _wake.wait(0.05) returns: the flag is set, or the time is up.           *)
Awake(why) ==
  /\ pc = "wait"
  /\ why = "set" => wake
  /\ pc' = IdleOrder.wait
  /\ UNCHANGED <<ready, build_error, inbox, in_hand, waiting, sorting, running,
                 wake, stop, apiVars>>

Clear ==
  /\ pc = "clear"
  /\ wake' = FALSE
  /\ pc' = IdleOrder.clear
  /\ UNCHANGED <<ready, build_error, inbox, in_hand, waiting, sorting, running,
                 stop, apiVars>>
-----------------------------------------------------------------------------
(* step() *)

Ended == {r \in Requests : fate[r] \in {"answered", "left"}}

(* _retire, then the sort of _pop_admissible begins.                       *)
RetireAndSort ==
  /\ pc = "retire"
  /\ waiting' = waiting \ Ended
  /\ running' = running \ Ended
  /\ sorting' = TRUE
  /\ pc' = "step"
  /\ UNCHANGED <<ready, build_error, inbox, in_hand, wake, stop, apiVars>>

(* The rest of _admit, and _decode: some of the waiting come in, some of   *)
(* the batch are evicted but never all of it, and some of those that stay  *)
(* get their last token.  An empty batch takes the head of the queue.      *)
Step(admitted, evicted, finished) ==
  LET batch == running \cup admitted IN
  /\ pc = "step"
  /\ admitted \subseteq waiting /\ Cardinality(batch) <= max_batch
  /\ running = {} /\ waiting # {} => admitted # {}
  /\ evicted \subseteq batch /\ (batch # {} => evicted # batch)
  /\ finished \subseteq (batch \ evicted) \ Ended
  /\ running' = batch \ evicted
  /\ waiting' = (waiting \ admitted) \cup evicted
  /\ sorting' = FALSE
  /\ fate' = [r \in Requests |-> IF r \in finished THEN "answered" ELSE fate[r]]
  /\ pc' = "top"
  /\ UNCHANGED <<ready, build_error, inbox, in_hand, wake, stop, api, req, qsize>>

StepFinishing(r) ==
  \E admitted \in SUBSET waiting : \E evicted \in SUBSET (running \cup admitted) :
    \E finished \in SUBSET (running \cup admitted) :
      r \in finished /\ Step(admitted, evicted, finished)

AnyStep ==
  \E admitted \in SUBSET waiting : \E evicted \in SUBSET (running \cup admitted) :
    \E finished \in SUBSET (running \cup admitted) :
      Step(admitted, evicted, finished)

(* An exception of step() ends the thread: nobody catches it.              *)
Dies ==
  /\ pc = "step"
  /\ sorting' = FALSE
  /\ pc' = "ended"
  /\ UNCHANGED <<ready, build_error, inbox, in_hand, waiting, running, wake, stop,
                 apiVars>>
-----------------------------------------------------------------------------
(* The event loop *)

(* lifespan: ready.wait, and then `raise loop.build_error` or serve.       *)
Startup ==
  /\ api = "startup"
  /\ ready
  /\ api' = IF build_error THEN "failed" ELSE "idle"
  /\ UNCHANGED <<loopVars, req, qsize, fate>>

(* queue_depth reads first one queue, then the other.                      *)
ReadInbox(r) ==
  /\ api = "idle"
  /\ fate[r] = "new"
  /\ req' = {r}
  /\ qsize' = Len(inbox)
  /\ api' = "depth"
  /\ UNCHANGED <<loopVars, fate>>

queue_depth == qsize + (IF sorting THEN 0 ELSE Cardinality(waiting))

(* Mutated form: one request too many. *)
FullBeyondCap == queue_depth > max_queue

Full == queue_depth >= max_queue

ReadWaiting ==
  /\ api = "depth"
  /\ api' = IF Full THEN "idle" ELSE "put"
  /\ fate' = IF Full
               THEN [r \in Requests |-> IF r \in req THEN "rejected" ELSE fate[r]]
               ELSE fate
  /\ UNCHANGED <<loopVars, req, qsize>>

Put ==
  /\ api = "put"
  /\ \E r \in req : /\ inbox' = Append(inbox, r)
                     /\ fate' = [fate EXCEPT ![r] = "accepted"]
  /\ api' = "wake"
  /\ UNCHANGED <<pc, ready, build_error, in_hand, waiting, sorting, running, wake,
                 stop, req, qsize>>

SetWake ==
  /\ api \in {"wake", "stop"}
  /\ wake' = TRUE
  /\ api' = IF api = "wake" THEN "idle" ELSE "stopped"
  /\ UNCHANGED <<pc, ready, build_error, inbox, in_hand, waiting, sorting, running,
                 stop, req, qsize, fate>>

(* The client goes away before its last token: req.cancelled.              *)
Leave(r) ==
  /\ api = "idle"
  /\ fate[r] = "accepted"
  /\ fate' = [fate EXCEPT ![r] = "left"]
  /\ UNCHANGED <<loopVars, api, req, qsize>>

InFlight == {r \in Requests : fate[r] = "accepted"}

(* EngineLoop.stop: uvicorn lets in-flight requests finish before the      *)
(* lifespan calls it.                                                      *)
SetStop ==
  /\ api = "idle"
  /\ InFlight = {}
  /\ stop' = TRUE
  /\ api' = "stop"
  /\ UNCHANGED <<pc, ready, build_error, inbox, in_hand, waiting, sorting, running,
                 wake, req, qsize, fate>>
-----------------------------------------------------------------------------
LoopStep ==
  \/ BuildSucceeds \/ BuildFails \/ Top \/ GetNowait \/ HandOver \/ Drained
  \/ \E why \in {"set", "timeout"} : Awake(why)
  \/ Clear \/ RetireAndSort \/ AnyStep

ApiStep ==
  \/ Startup
  \/ \E r \in Requests : ReadInbox(r)
  \/ ReadWaiting \/ Put \/ SetWake
  \/ \E r \in Requests : Leave(r)
  \/ SetStop

Next == LoopStep \/ Dies \/ ApiStep

Spec == Init /\ [][Next]_vars

(* Both threads run; submit() returns; stop() and new clients are optional.*)
(* That a request gets its last token in some step is what EveryRequestEnds*)
(* of Scheduler.tla says of the steps left out here.                       *)
FairSpec ==
  /\ Spec
  /\ WF_vars(LoopStep)
  /\ WF_vars(Startup) /\ WF_vars(ReadWaiting) /\ WF_vars(Put) /\ WF_vars(SetWake)
  /\ \A r \in Requests : SF_vars(StepFinishing(r))
-----------------------------------------------------------------------------
(* Properties *)

TypeOK ==
  /\ pc \in {"build", "top", "drain", "wait", "clear", "retire", "step", "ended"}
  /\ ready \in BOOLEAN /\ build_error \in BOOLEAN
  /\ inbox \in Seq(Requests)
  /\ in_hand \subseteq Requests /\ waiting \subseteq Requests
  /\ running \subseteq Requests
  /\ sorting \in BOOLEAN /\ wake \in BOOLEAN /\ stop \in BOOLEAN
  /\ api \in {"startup", "failed", "idle", "depth", "put", "wake", "stop",
              "stopped"}
  /\ req \subseteq Requests /\ qsize \in 0..max_queue
  /\ fate \in [Requests -> {"new", "rejected", "accepted", "answered", "left"}]

(* No wake-up is lost: the loop thread is not asleep with its flag down    *)
(* while there is something in the inbox or a stop to obey, unless the     *)
(* other thread is just about to raise the flag.  So the 50 ms timeout is  *)
(* never what a request waits for.                                         *)
SleepsOnlyIdle ==
  pc = "wait" /\ ~wake =>
    /\ inbox # <<>> => api = "wake"
    /\ stop => api = "stop"

(* The admission check, racy as it is, keeps the inbox within max_queue:   *)
(* submit() alone puts, and the loop thread can only shorten the inbox     *)
(* between the reading and the put.                                        *)
InboxBounded == Len(inbox) <= max_queue

Inboxed == {inbox[i] : i \in 1..Len(inbox)}

(* A request in flight is always in one of the four places the two threads *)
(* keep requests in, and no request is in two of them or twice in one:     *)
(* what submit() accepted is not lost between the inbox, the hand of the   *)
(* loop thread, the queue and the batch, and nobody is served twice.       *)
HeldInOnePlace ==
  /\ InFlight \subseteq Inboxed \cup in_hand \cup waiting \cup running
  /\ \A i, j \in 1..Len(inbox) : inbox[i] = inbox[j] => i = j
  /\ Inboxed \cap (in_hand \cup waiting \cup running) = {}
  /\ in_hand \cap (waiting \cup running) = {}
  /\ waiting \cap running = {}

(* The server comes up or reports why not: `ready` is set either way.      *)
StartupEnds == (api = "startup") ~> (api # "startup")

(* Every accepted request is answered or abandoned, unless the loop thread *)
(* died, which /health reports: neither stop() nor the hand-over loses it. *)
EveryAcceptedAnswered ==
  \A r \in Requests :
    (fate[r] = "accepted") ~> (fate[r] \in {"answered", "left"}
                               \/ (pc = "ended" /\ ~stop))
=============================================================================
