----------------------------- MODULE MCDataset ------------------------------
(* Small instances of Dataset for TLC.                                     *)
EXTENDS Publishing

T == Test("t", "")
T1 == Test("t", "1")
P == Test("p", "")

Always(t, o) == t :> {o}
PR(language, files, closes, compiles, diff, base, gold) ==
  [language |-> language, files |-> files, field |-> "", deps |-> {"vitest"},
   hooks |-> FALSE, closes |-> closes, touches |-> TRUE, compiles |-> compiles,
   targets |-> {T, T1}, diff |-> diff, base |-> base, gold |-> gold]

Line(kind, name) == [kind |-> kind, name |-> name]
AddsTest(class) ==
  <<Line("header", class), Line("method", "helper"), Line("test", ""), Line("annotation", ""),
    Line("context", ""), Line("method", "t"), Line("method", "helper")>>

Npm == {"package-lock.json"}
Maven == {"pom.xml"}

(* A fix that may break another test, a test that is flaky before the fix  *)
(* and not always reported after it, two pull requests without an issue,   *)
(* and two of which the tests do not compile before the fix.               *)
Fix == PR("typescript", Npm, TRUE, TRUE, <<>>, Always(T, "failed") @@ Always(P, "passed"),
          Always(T, "passed") @@ (P :> {"passed", "failed"}))
Flake == PR("typescript", Npm, TRUE, TRUE, <<>>, T :> {"passed", "failed"},
            T :> {"passed", "absent"})
NoIssue == PR("typescript", Npm, FALSE, TRUE, <<>>, Always(T, "failed"), Always(T, "passed"))
NewApi == PR("java", Maven, TRUE, FALSE, AddsTest("TTest"), Always(T, "failed"), Always(T1, "passed"))
NoTest == PR("java", Maven, TRUE, FALSE, AddsTest(""), Always(T, "failed"), Always(T, "passed"))

MCAbout == [n \in 1..6 |-> CASE n = 1 -> Fix [] n = 2 -> Flake [] n \in {3, 4} -> NoIssue
                            [] n = 5 -> NewApi [] n = 6 -> NoTest]
MCScripts == {"typescript", "java"}
MCReposOf == [s \in MCScripts |-> IF s = "typescript" THEN <<"r1", "r2">> ELSE <<"r3">>]
MCPRs == [r \in {"r1", "r2", "r3"} |->
            CASE r = "r1" -> <<1, 2, 3>>
              [] r = "r2" -> <<4>>
              [] r = "r3" -> <<5, 6>>]
=============================================================================
