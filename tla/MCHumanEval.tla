---------------------------- MODULE MCHumanEval -----------------------------
(* Small instances of HumanEval for TLC.                                   *)
EXTENDS HumanEval

(* The guarded model is asked for more than its cap allows.                 *)
MCN == [m \in Models |-> CASE m = "anthropic" -> 3 [] m = "engine" -> 2 [] OTHER -> 1]

Right == [entry |-> TRUE, right |-> TRUE]
Body == [entry |-> FALSE, right |-> TRUE]
Wrong == [entry |-> TRUE, right |-> FALSE]
Prose == [entry |-> FALSE, right |-> FALSE]

Says(blocks, open, text) == [blocks |-> blocks, open |-> open, text |-> text]

(* An example before the answer, a body alone, a block cut off, bare code. *)
MCReply ==
  [t \in AllTasks |->
     IF t[2] = 0 THEN Says(<<Prose, Right>>, NoCode, Prose)
     ELSE IF t = <<0, 1>> THEN Says(<<Wrong>>, Right, Prose)
     ELSE IF t = <<1, 1>> THEN Says(<<>>, Wrong, Prose)
     ELSE IF t = <<0, 2>> THEN Says(<<>>, NoCode, Body)
     ELSE Says(<<Wrong, Right>>, NoCode, Prose)]
=============================================================================
