---------------------------- MODULE MCEvaluation ----------------------------
(* Small instances of Evaluation for TLC.                                  *)
EXTENDS Evaluation

Repo(language, files, field, deps, hooks, gold, api) ==
  [language |-> language, files |-> files, field |-> field, deps |-> deps,
   hooks |-> hooks, gold |-> gold, api |-> api]

(* A repository with a lifecycle script, one whose fix adds a file, a Java *)
(* one whose tests need the fix to compile, one whose runner reports       *)
(* nowhere, and one nothing is known about.                                *)
Hooked == Repo("typescript", {"package.json", "pnpm-lock.yaml", ".nvmrc"}, "bun", {"vitest"},
               TRUE, {"src"}, FALSE)
Adding == Repo("python", {"pyproject.toml"}, "", {}, FALSE, {"src", "added"}, FALSE)
Compiled == Repo("java", {"pom.xml", "mvnw"}, "", {}, FALSE, {"src"}, TRUE)
Mocha == Repo("typescript", {"package.json", "yarn.lock", ".mocharc.json"}, "npm", {},
              FALSE, {"src"}, FALSE)
Unknown == Repo("typescript", {"package.json"}, "", {}, FALSE, {"src"}, FALSE)

MCInstances == {Hooked, Adding, Compiled, Mocha, Unknown}
MCModels == {"openrouter", "mock/gold", "mock/empty", "mock/random"}

Key(m, i, n) == [model |-> m, instance |-> i, repeat |-> n]

MCKeyLists ==
  {<<Key("openrouter", Hooked, 0)>>, <<Key("openrouter", Compiled, 0)>>,
   <<Key("openrouter", Adding, 0)>>,
   <<Key("mock/random", Compiled, 0), Key("mock/random", Compiled, 1), Key("mock/gold", Hooked, 0)>>,
   <<Key("mock/gold", Mocha, 0), Key("mock/empty", Unknown, 0), Key("mock/gold", Adding, 0)>>}

MCF2P == {Test("t", ""), Test("u", "1")}
MCP2P == {Test("p", "")}
=============================================================================
