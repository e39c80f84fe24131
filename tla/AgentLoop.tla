----------------------------- MODULE AgentLoop ------------------------------
(* One run of the reference agent, agent/loop.py: a turn asks the model for *)
(* one command, runs it in the workspace and looks at the clock only when  *)
(* the next turn begins. `paid` counts the completions the provider bills. *)
EXTENDS Patches, Integers

CONSTANTS Instances,     \* records with the set `gold` of the paths a fix needs
          Commands,      \* what models do with the shell, a subset of AllCommands
          Models,        \* mock models and "openrouter"
          MaxTurns,      \* MAX_TURNS
          WallClock, CallTime, CommandTime,  \* the limits, in units of the first back-off
          NoCommand, NoInstance

AllCommands == {"look", "fix", "wrong", "tests", "manifest", "mv", "git mv",
                "git add", "git commit", "git checkout"}

ASSUME LoopAssumption ==
  /\ MaxTurns \in Nat /\ WallClock \in Nat \ {0}
  /\ CallTime \in Nat /\ CommandTime \in Nat
  /\ Commands \subseteq AllCommands /\ NoCommand \notin Commands
  /\ NoInstance \notin Instances

STUCK_REPEAT_LIMIT == 3
MAX_RATE_LIMIT_RETRIES == 3
Backoff == [attempt \in 0..2 |-> IF attempt = 0 THEN 1 ELSE 2 * attempt]

VARIABLES
  stage,         \* where run_agent is
  instance, model,
  api_key,       \* OPENROUTER_API_KEY is set
  turn, attempt, \* attempt: of the completion call of this turn
  clock,         \* time.monotonic() - start
  turns_used, submitted, last_command, repeat_count,
  paid,          \* completions billed
  ws,            \* the throwaway workspace
  patch

loopVars == <<stage, instance, model, api_key, turn, attempt, clock, turns_used,
              submitted, last_command, repeat_count, paid, ws, patch>>

LoopInit ==
  /\ stage = "idle" /\ instance = NoInstance /\ model = "none" /\ api_key \in BOOLEAN
  /\ turn = 0 /\ attempt = 0 /\ clock = 0
  /\ turns_used = 0 /\ submitted = FALSE /\ last_command = NoCommand /\ repeat_count = 0
  /\ paid = 0 /\ ws = agent_workspace /\ patch = {}
-----------------------------------------------------------------------------
(* Every run starts from nothing, and its workspace is removed on exit.    *)
FromNothing ==
  /\ turn' = 0 /\ attempt' = 0 /\ clock' = 0
  /\ turns_used' = 0 /\ submitted' = FALSE /\ last_command' = NoCommand /\ repeat_count' = 0
  /\ paid' = 0 /\ ws' = agent_workspace /\ patch' = {}
  /\ UNCHANGED api_key

Forgotten ==
  stage' = "idle" /\ instance' = NoInstance /\ model' = "none" /\ FromNothing

(* _resolve_api_key comes before everything else. *)
run_agent(i, m) ==
  /\ stage = "idle"
  /\ instance' = i /\ model' = m
  /\ stage' = IF m = "openrouter" /\ ~api_key THEN "raised" ELSE "open"
  /\ FromNothing

(* The coin of mock/random falls on either side. *)
Coin(m) == IF m = "mock/random" THEN {"mock/gold", "mock/empty"} ELSE {m}

_run_mock_agent ==
  /\ stage = "open" /\ model # "openrouter"
  /\ \E v \in Coin(model) :
       LET gold == Attempt(ws.tree, gold_patch(instance), FALSE)
       IN IF v = "mock/gold"
          THEN /\ ws' = [ws EXCEPT !.tree = gold.tree]
               /\ stage' = IF gold.ok THEN "done" ELSE "raised"
               /\ submitted' = TRUE /\ turns_used' = 1
               /\ patch' = extract_patch(ws')
          ELSE /\ stage' = "done" /\ patch' = extract_patch(ws)
               /\ UNCHANGED <<ws, submitted, turns_used>>
  /\ UNCHANGED <<instance, model, api_key, turn, attempt, clock, last_command,
                 repeat_count, paid>>

OpenWorkspace ==
  /\ stage = "open" /\ model = "openrouter"
  /\ stage' = "turn"
  /\ UNCHANGED <<instance, model, api_key, turn, attempt, clock, turns_used, submitted,
                 last_command, repeat_count, paid, ws, patch>>

(* The head of the for loop: the only look at the clock. *)
NoLookAtTheClock == turn = MaxTurns
LastTurn == turn = MaxTurns \/ clock >= WallClock

BeginTurn ==
  /\ stage = "turn"
  /\ IF LastTurn
     THEN stage' = "extract" /\ UNCHANGED <<turn, attempt>>
     ELSE stage' = "ask" /\ turn' = turn + 1 /\ attempt' = 0
  /\ UNCHANGED <<instance, model, api_key, clock, turns_used, submitted, last_command,
                 repeat_count, paid, ws, patch>>

(* A 429 sleeps and asks again, up to the last attempt; any other error    *)
(* ends the run, and what it has paid so far goes with it.                 *)
CallFails ==
  /\ stage = "ask"
  /\ \E limited \in BOOLEAN, d \in 0..CallTime :
       IF limited /\ attempt < MAX_RATE_LIMIT_RETRIES
       THEN /\ clock' = clock + d + Backoff[attempt]
            /\ attempt' = attempt + 1
            /\ UNCHANGED stage
       ELSE /\ clock' = clock + d
            /\ stage' = "raised"
            /\ UNCHANGED attempt
  /\ UNCHANGED <<instance, model, api_key, turn, turns_used, submitted, last_command,
                 repeat_count, paid, ws, patch>>

(* What the bookkeeping of a completed call does in every branch below.    *)
CallReturns(d) ==
  /\ stage = "ask"
  /\ paid' = paid + 1 /\ turns_used' = turn
  /\ UNCHANGED <<instance, model, api_key, turn, attempt, patch>>

(* No code block in the reply: neither counter is touched. *)
ReplyWithoutCommand ==
  \E d \in 0..CallTime :
    /\ CallReturns(d)
    /\ clock' = clock + d /\ stage' = "turn"
    /\ UNCHANGED <<submitted, last_command, repeat_count, ws>>

(* The submit command counts only when the diff is not empty. *)
TreeChanged == ws.tree # BaseTree
SomethingToSubmit == extract_patch(ws) # {}

ReplySubmit ==
  \E d \in 0..CallTime :
    /\ CallReturns(d)
    /\ clock' = clock + d
    /\ IF SomethingToSubmit
       THEN submitted' = TRUE /\ stage' = "extract"
       ELSE stage' = "turn" /\ UNCHANGED submitted
    /\ UNCHANGED <<last_command, repeat_count, ws>>

(* What the commands do to the workspace (external: the model's choice).   *)
Moved(ws0, staged) ==
  IF ws0.tree["tests"] = Absent THEN ws0
  ELSE [ws0 EXCEPT !.tree["moved"] = ws0.tree["tests"], !.tree["tests"] = Absent,
                   !.staged = @ \union staged]

Written(ws0, p, edit) ==
  [ws0 EXCEPT !.tree[p] = (@ \ Absent) \union {edit}]

Effect(c, ws0) ==
  CASE c = "look" -> ws0
    [] c = "fix" -> [ws0 EXCEPT !.tree = [p \in Paths |->
                       IF p \in instance.gold THEN (@[p] \ Absent) \union {"fix"} ELSE @[p]]]
    [] c = "wrong" -> Written(ws0, "src", "wrong")
    [] c = "tests" -> IF ws0.tree["tests"] = Absent THEN ws0 ELSE Written(ws0, "tests", "own")
    [] c = "manifest" -> Written(ws0, "manifest", "own")
    [] c = "mv" -> Moved(ws0, {})
    [] c = "git mv" -> Moved(ws0, {"moved"})
    [] c = "git add" -> [ws0 EXCEPT !.staged = {p \in Paths : ws0.tree[p] # Absent}]
    [] c = "git commit" -> [ws0 EXCEPT !.head = [p \in Paths |->
                              IF p \in Tracked(ws0) THEN ws0.tree[p] ELSE @[p]]]
    [] OTHER -> [ws0 EXCEPT !.tree = [p \in Paths |->
                   IF ws0.head[p] # Absent THEN ws0.head[p] ELSE @[p]]]

(* _run_command: a command that outlives its limit may have done its work  *)
(* or not. On POSIX subprocess.run kills and reaps the shell at the limit  *)
(* and raises without reading the pipes to their end (its handler does that*)
(* on Windows only), so a child that holds them open delays nothing. The   *)
(* third one in a row ends the run.                                        *)
Repeats(c) == IF c = last_command THEN repeat_count + 1 ELSE 1

ReplyCommand ==
  \E d \in 0..CallTime, e \in 0..CommandTime, c \in Commands :
    /\ CallReturns(d)
    /\ clock' = clock + d + e
    /\ ws' \in IF e = CommandTime THEN {ws, Effect(c, ws)} ELSE {Effect(c, ws)}
    /\ repeat_count' = Repeats(c) /\ last_command' = c
    /\ stage' = IF Repeats(c) >= STUCK_REPEAT_LIMIT THEN "extract" ELSE "turn"
    /\ UNCHANGED submitted

ExtractPatch ==
  /\ stage = "extract"
  /\ patch' = extract_patch(ws)
  /\ stage' = "done"
  /\ UNCHANGED <<instance, model, api_key, turn, attempt, clock, turns_used, submitted,
                 last_command, repeat_count, paid, ws>>

LoopNext ==
  \/ _run_mock_agent \/ OpenWorkspace \/ BeginTurn \/ CallFails
  \/ ReplyWithoutCommand \/ ReplySubmit \/ ReplyCommand \/ ExtractPatch
-----------------------------------------------------------------------------
(* However slow the provider, however often it answers 429, and whatever   *)
(* the last command does: a run outlives its wall clock by at most one     *)
(* turn, four calls with three pauses of 1, 2 and 4 units and one command  *)
(* (loop.py:132-134, 215-230, 350-362).                                    *)
OneTurnOverAtMost ==
  clock < WallClock + 4 * CallTime + 7 + CommandTime

(* A run of a real model that counts as submitted left a patch behind, the *)
(* diff being taken twice (loop.py:168-171, 202). A mock run says that it  *)
(* has submitted whatever it changed.                                      *)
SubmittedIsNotEmpty ==
  stage = "done" /\ submitted /\ model = "openrouter" => patch # {}
=============================================================================
