------------------------------ MODULE Patches -------------------------------
(* Trees of files and the patches between them: pipeline/gitplumbing.py    *)
(* and agent/workspace.py. A tree is five files, each the set of edits it  *)
(* has on top of the base commit; a change is one file of a unified diff.  *)
EXTENDS FiniteSets, Sequences

(* A source file, package.json, the tests of the answer key, where an agent *)
(* may move them, and a source file the base commit does not have.         *)
Paths == {"src", "manifest", "tests", "moved", "added"}

(* The right fix, a wrong one, an agent's own edit, the answer key's tests, *)
(* and what the installation rewrites.                                     *)
Edits == {"fix", "wrong", "own", "key", "drift"}

Absent == {"absent"}

(* materialize_instance: the tree of the base commit. *)
BaseTree == [p \in Paths |-> IF p \in {"moved", "added"} THEN Absent ELSE {}]

(* Where the tests of the answer key are, or an agent moves them, the name *)
(* of the file says so; fixtures and configuration files that steer tests  *)
(* under names that do not are no paths of this tree.                      *)
is_test_path(p) == p \in {"tests", "moved"}

(* A renamed file is two changes, and one header that names the new path.  *)
Change(p, old, new, renamed) ==
  [path |-> p, old |-> old, new |-> new, renamed |-> renamed]

(* What GNU patch takes for the place of a hunk: the file is there when it *)
(* should be, its own lines are as in `side`, and without fuzz so are the  *)
(* lines around them.                                                      *)
Matches(content, side, other, fuzzy) ==
  /\ (content = Absent) = (side = Absent)
  /\ IF fuzzy THEN /\ side \ other \subseteq content
                   /\ (other \ side) \intersect content = {}
              ELSE content = side

Forward(content, c, fuzzy) == Matches(content, c.old, c.new, fuzzy)
Backward(content, c, fuzzy) == Matches(content, c.new, c.old, fuzzy)

(* --batch assumes -R for a file in which the change already is: its hunks *)
(* are taken out again, a file it created is removed, a rename stays.      *)
Patched(content, c, fuzzy) ==
  IF Forward(content, c, fuzzy) THEN (content \ (c.old \ c.new)) \union (c.new \ c.old)
  ELSE IF ~Backward(content, c, fuzzy) THEN content
  ELSE IF c.renamed THEN content \intersect Absent
  ELSE (content \ (c.new \ c.old)) \union (c.old \ c.new)

(* One run of `patch`: files that do not match are left alone and make it  *)
(* fail, the others are patched all the same.                              *)
Attempt(tree, patch, fuzzy) ==
  [ok |-> \A c \in patch : \/ Forward(tree[c.path], c, fuzzy)
                           \/ Backward(tree[c.path], c, fuzzy),
   tree |-> [p \in Paths |->
     IF \E c \in patch : c.path = p
     THEN Patched(tree[p], CHOOSE c \in patch : c.path = p, fuzzy)
     ELSE tree[p]]]

(* The ladder: the fuzzy attempt runs on what the strict one left behind.  *)
try_apply_patch(tree, patch) ==
  LET strict == Attempt(tree, patch, FALSE)
      fuzzy == Attempt(strict.tree, patch, TRUE)
  IN IF patch = {} THEN [ok |-> TRUE, strategy |-> "empty", tree |-> tree]
     ELSE IF strict.ok THEN [ok |-> TRUE, strategy |-> "strict", tree |-> strict.tree]
     ELSE [ok |-> fuzzy.ok, strategy |-> IF fuzzy.ok THEN "fuzzy" ELSE "none",
           tree |-> fuzzy.tree]

diff_touched_paths(patch) == {c.path : c \in {d \in patch : ~(d.renamed /\ d.new = Absent)}}

RemoveNewOnly(tree, paths) ==
  [p \in Paths |-> IF p \in paths /\ BaseTree[p] = Absent THEN Absent ELSE tree[p]]
restore_paths(tree, paths) == [p \in Paths |-> IF p \in paths THEN BaseTree[p] ELSE tree[p]]
-----------------------------------------------------------------------------
(* The agent's workspace: the commit HEAD names, the files, and the new    *)
(* ones that were added to the index.                                      *)
agent_workspace == [head |-> BaseTree, tree |-> BaseTree, staged |-> {}]

Tracked(ws) == {p \in Paths : ws.head[p] # Absent} \union ws.staged

(* git diff HEAD sees tracked files only; a deletion and an added file with *)
(* the same text are one rename.                                           *)
Differs(ws) == {p \in Tracked(ws) : ws.tree[p] # ws.head[p]}

Renamed(ws) == /\ {"tests", "moved"} \subseteq Differs(ws)
               /\ ws.tree["tests"] = Absent
               /\ ws.head["moved"] = Absent

extract_patch(ws) ==
  {Change(p, ws.head[p], ws.tree[p], Renamed(ws) /\ is_test_path(p)) : p \in Differs(ws)}

(* The two halves of the pull request an instance was made from. *)
gold_patch(inst) == {Change(p, BaseTree[p], {"fix"}, FALSE) : p \in inst.gold}
test_patch == {Change("tests", {}, {"key"}, FALSE)}

(* Whether a tree holds the whole fix, and nothing that spoils it. *)
Works(tree, inst) ==
  (\A p \in inst.gold : "fix" \in tree[p]) /\ "wrong" \notin tree["src"]
=============================================================================
