------------------------------ MODULE Adapters ------------------------------
(* The language adapters of harness/: what they find in a repository, what *)
(* an installation does to its tree, and which report a test run leaves to *)
(* be parsed. A repository is a record                                     *)
(*   language, files (names present), field (packageManager, "" if unset), *)
(*   deps (test runners among the dependencies), hooks (lifecycle scripts).*)
EXTENDS Patches, Naturals

LOCAL INSTANCE SequencesExt

(* The name of the first pair with a file of the repository, or `default`. *)
FirstPresent(pairs, files, default) ==
  LET Here(pair) == pair[2] \intersect files # {}
      hits == SelectSeq(pairs, Here)
  IN IF hits = <<>> THEN default ELSE hits[1][1]

NotFound == "ValueError"
-----------------------------------------------------------------------------
(* TypeScript. *)
KNOWN_MANAGERS == {"npm", "pnpm", "yarn"}

(* All files of a git archive have one mtime, so the sort by mtime keeps   *)
(* the order of the candidates.                                            *)
ts_detect_package_manager(repo) ==
  IF "package.json" \in repo.files /\ repo.field \in KNOWN_MANAGERS THEN repo.field
  ELSE FirstPresent(<< <<"pnpm", {"pnpm-lock.yaml"}>>, <<"yarn", {"yarn.lock"}>>,
                       <<"npm", {"package-lock.json"}>> >>, repo.files, NotFound)

(* A single runner among the dependencies wins, then a configuration file. *)
ts_detect_test_runner(repo) ==
  IF \E d \in repo.deps : repo.deps = {d} THEN CHOOSE d \in repo.deps : TRUE
  ELSE FirstPresent(<< <<"vitest", {"vitest.config.ts"}>>, <<"jest", {"jest.config.js"}>>,
                       <<"mocha", {".mocharc.json"}>> >>, repo.files, NotFound)

ts_detect_node_version(repo) ==
  FirstPresent(<< <<".nvmrc", {".nvmrc"}>>, <<".node-version", {".node-version"}>> >>,
               repo.files, "20.11.1")

(* Each of the two rewrites package.json with json.dumps when it removes   *)
(* something.                                                              *)
sanitize_package_manager_field(repo) == repo.field # "" /\ repo.field \notin KNOWN_MANAGERS
sanitize_lifecycle_scripts(repo) == repo.hooks

ts_sanitize(repo, tree) ==
  IF "package.json" \in repo.files
     /\ (sanitize_package_manager_field(repo) \/ sanitize_lifecycle_scripts(repo))
  THEN [tree EXCEPT !["manifest"] = @ \union {"drift"}]
  ELSE tree

(* Python. *)
py_detect_package_manager(repo) ==
  FirstPresent(<< <<"uv", {"uv.lock"}>>, <<"poetry", {"poetry.lock"}>>,
                  <<"pipenv", {"Pipfile.lock"}>>,
                  <<"pip", {"requirements.txt", "pyproject.toml", "setup.py"}>> >>,
               repo.files, NotFound)

(* requirements.txt in place of the package, and whether it is editable.   *)
py_install_target(repo, manager) ==
  IF manager \in {"pip", "uv"} /\ "requirements.txt" \in repo.files THEN "requirements"
  ELSE IF manager \in {"pip", "pipenv"} THEN "editable" ELSE "package"

py_detect_python_version(repo) ==
  FirstPresent(<< <<".python-version", {".python-version"}>> >>, repo.files, "3.12")

(* Java. *)
java_detect_build_tool(repo) ==
  FirstPresent(<< <<"maven", {"pom.xml"}>>, <<"gradle", {"build.gradle", "build.gradle.kts"}>> >>,
               repo.files, NotFound)

(* Maven has a fallback when the repository brings no wrapper, Gradle none. *)
java_build_invoke(repo, manager) ==
  IF manager = "maven" THEN IF "mvnw" \in repo.files THEN "./mvnw" ELSE "mvn"
  ELSE IF "gradlew" \in repo.files THEN "./gradlew" ELSE NotFound

(* What the project compiles for, from the build file of its own tool only. *)
java_detect_jdk_version(repo, manager) ==
  LET build_files == IF manager = "maven" THEN {"pom.xml"}
                     ELSE {"build.gradle", "build.gradle.kts"}
  IN FirstPresent(<< <<".java-version", {".java-version"}>>, <<manager, build_files>> >>,
                  repo.files, "17")
-----------------------------------------------------------------------------
Environment(version, manager, runner, command) ==
  [version |-> version, manager |-> manager, runner |-> runner, command |-> command]

ts_detect_environment(repo) ==
  Environment(ts_detect_node_version(repo), ts_detect_package_manager(repo),
              ts_detect_test_runner(repo), "frozen")

py_detect_environment(repo) ==
  LET manager == py_detect_package_manager(repo)
  IN Environment(py_detect_python_version(repo), manager, "pytest",
                 py_install_target(repo, manager))

java_detect_environment(repo) ==
  LET manager == java_detect_build_tool(repo)
  IN Environment(java_detect_jdk_version(repo, manager), manager,
                 IF manager = "maven" THEN "surefire" ELSE "gradle",
                 java_build_invoke(repo, manager))

(* get_adapter picks the class; what it detects is never cached. *)
get_adapter(repo) ==
  CASE repo.language = "typescript" -> ts_detect_environment(repo)
    [] repo.language = "python" -> py_detect_environment(repo)
    [] repo.language = "java" -> java_detect_environment(repo)

Detected(env) == NotFound \notin {env.manager, env.runner, env.command}
-----------------------------------------------------------------------------
(* What a command in the sandbox comes to; "marked" failures carry the sign *)
(* the adapter looks for: ERR_PNPM_IGNORED_BUILDS, a compiler's message or  *)
(* pytest's exit code 4. A command past its limit is killed with its group. *)
sandbox_run == {"ok", "failed", "marked", "timeout"}

Raises(r) ==
  IF r = "ok" THEN "nothing" ELSE IF r = "timeout" THEN "TimeoutError" ELSE "RuntimeError"

(* A toolchain is looked for on the machine, then downloaded. *)
node_bin_dir(version, machine, download) == version \in machine \/ download
jdk_home(version, machine, download) == version \in machine \/ download

(* Node is the one the repository pins, the JDK always the same; once found *)
(* they are kept for the runs that follow.                                 *)
ts_pinned_env(env, machine, download) == node_bin_dir(env.version, machine, download)
build_jdk == "17"
java_build_jdk_env(machine, download) == jdk_home(build_jdk, machine, download)

(* Builds pnpm ignored are approved, and the installation runs once more.  *)
ts_install(rs) ==
  IF rs[1] # "marked" THEN Raises(rs[1])
  ELSE IF rs[2] = "timeout" THEN "TimeoutError" ELSE Raises(rs[3])

(* The virtual environment, the package, pytest and its report plugin.     *)
py_install(rs) ==
  IF \E k \in 1..3 : rs[k] # "ok"
  THEN Raises(rs[CHOOSE k \in 1..3 : rs[k] # "ok" /\ \A j \in 1..(k - 1) : rs[j] = "ok"])
  ELSE "nothing"

(* Maven compiles the tests, so its installation can fail to compile.      *)
java_install(rs) == IF rs[1] = "marked" THEN "CompileFailure" ELSE Raises(rs[1])

install(repo, rs, machine, download) ==
  CASE repo.language = "typescript" ->
         IF ts_pinned_env(get_adapter(repo), machine, download)
         THEN ts_install(rs) ELSE "RuntimeError"
    [] repo.language = "python" -> py_install(rs)
    [] repo.language = "java" ->
         IF java_build_jdk_env(machine, download) THEN java_install(rs) ELSE "RuntimeError"
-----------------------------------------------------------------------------
(* A report maps tests to "passed", "failed" or "skipped". *)
NoReport == <<>>

(* The report found after a run: `left` is what is at its place by then.   *)
Read(left, r, marked) ==
  IF r = "timeout" THEN [raised |-> "TimeoutError", report |-> NoReport]
  ELSE [raised |-> IF left # NoReport THEN "nothing"
                   ELSE IF r = "marked" THEN marked ELSE "RuntimeError",
        report |-> left]

(* The file each runner is told to report to; mocha reports on stdout,     *)
(* where nobody looks.                                                     *)
ts_build_test_cmd(runner) ==
  CASE runner = "vitest" -> {"vitest-results.json"}
    [] runner = "jest" -> {"jest-results.json"}
    [] runner = "mocha" -> {}

(* A run that writes no report leaves the one of the run before.           *)
ts_run_tests(env, old, fresh, r) ==
  Read(IF r = "ok" /\ ts_build_test_cmd(env.runner) # {} THEN fresh ELSE old,
       r, "RuntimeError")

py_run_tests(old, fresh, r) ==
  Read(IF r = "ok" THEN fresh ELSE old, r, "CompileFailure")

(* Java clears the reports first. *)
java_clear_reports(old) == NoReport

java_run_tests(old, fresh, r) ==
  Read(IF r = "ok" THEN fresh ELSE java_clear_reports(old), r, "CompileFailure")

run_tests(repo, env, old, fresh, r) ==
  CASE repo.language = "typescript" -> ts_run_tests(env, old, fresh, r)
    [] repo.language = "python" -> py_run_tests(old, fresh, r)
    [] repo.language = "java" -> java_run_tests(old, fresh, r)

(* Skipped tests are failures to vitest and pytest, and absent to JUnit.   *)
java_parse_results(report) ==
  [t \in {u \in DOMAIN report : report[u] # "skipped"} |-> report[t] = "passed"]

parse_results(repo, report) ==
  IF repo.language = "java" THEN java_parse_results(report)
  ELSE [t \in DOMAIN report |-> report[t] = "passed"]

(* A test is a name and, for one of its parameterized variants, an argument. *)
Test(name, arg) == [name |-> name, arg |-> arg]

(* The tests a diff adds, for code that does not compile: lines are records *)
(* kind, name, and a header names the class of a test file, or "". An added *)
(* method counts when a test annotation comes before it and nothing but     *)
(* other annotations and lines that were there in between.                  *)
NextLine(s, line) ==
  CASE line.kind = "header" -> [s EXCEPT !.class = line.name, !.awaiting = FALSE]
    [] line.kind = "test" -> [s EXCEPT !.awaiting = TRUE]
    [] line.kind \in {"method", "other"} ->
         [s EXCEPT !.awaiting = FALSE,
                   !.ids = IF s.awaiting /\ line.kind = "method" /\ s.class # ""
                           THEN @ \union {Test(line.name, "")} ELSE @]
    [] line.kind \in {"annotation", "context"} -> s

extract_test_ids_from_diff(diff) ==
  FoldLeft(NextLine, [class |-> "", awaiting |-> FALSE, ids |-> {}], diff).ids

(* A target that is not among the results stands for all of its variants.  *)
Variants(results, t) == {u \in DOMAIN results : t.arg = "" /\ u.name = t.name}

resolve_test_outcome(results, t) ==
  IF t \in DOMAIN results THEN results[t]
  ELSE Variants(results, t) # {} /\ \A u \in Variants(results, t) : results[u]
=============================================================================
