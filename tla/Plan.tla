-------------------------------- MODULE Plan --------------------------------
(***************************************************************************)
(* The pure parts of package plan: what kind of project the work directory *)
(* holds, which tests a symbol of the source gets and where they go, and   *)
(* which kinds of tests a user's filter keeps.                             *)
(*                                                                         *)
(* A path is <<directories, stem, extension>>; directories are a sequence. *)
(* A symbol is a record with name, file, line, end, lang, kind, hint,      *)
(* aspects, job and links.                                                 *)
(***************************************************************************)
EXTENDS Integers, Sequences, FiniteSets, SequencesExt, Filtering

Path(dirs, stem, ext) == <<dirs, stem, ext>>
Dirs(path) == path[1]
Stem(path) == path[2]
Ext(path)  == path[3]

-----------------------------------------------------------------------------
(* The layout of the work directory: has is the set of signs found there.  *)

Signs == {"__tests__", "tests", "src/*.test.*", "src/test/java", "vitest",
          "playwright-bdd", "tests/e2e/features", "tests/e2e/steps",
          "defineBddConfig", "playwright.config", "tests/e2e"}

(* A directory under tests/e2e is in tests/e2e, and BDD is configured in   *)
(* playwright.config.ts.                                                   *)
WorkDirs ==
  {has \in SUBSET Signs :
     /\ has \cap {"tests/e2e/features", "tests/e2e/steps"} # {} => "tests/e2e" \in has
     /\ "tests/e2e" \in has => "tests" \in has
     /\ "defineBddConfig" \in has => "playwright.config" \in has}

HasAnyPlaywrightSignal(has) == has \cap {"playwright.config", "tests/e2e"} # {}

UsesBDD(has) ==
  \/ has \cap {"playwright-bdd", "tests/e2e/features", "tests/e2e/steps", "defineBddConfig"} # {}
  \/ ~HasAnyPlaywrightSignal(has)

Detect(has) ==
  [HasJestDir     |-> "__tests__" \in has,
   HasTestsDir    |-> "tests" \in has,
   HasPyTestsDir  |-> "tests" \in has,
   HasUnderTest   |-> "src/*.test.*" \in has,
   HasMavenLayout |-> "src/test/java" \in has,
   UsesVitest     |-> "vitest" \in has,
   UsesBDD        |-> UsesBDD(has)]

-----------------------------------------------------------------------------
(* The test of a symbol.                                                   *)

GRPC == {"grpc_unary", "grpc_server_stream", "grpc_client_stream", "grpc_bidi"}
Journey == {"pw_e2e", "pw_happyflow", "pw_feature"}

PickTemplate(s, layout) ==
  IF s.hint \in GRPC THEN s.hint ELSE
  CASE s.lang = "ts" /\ s.kind = "route" -> "jest_api"
    [] s.lang = "ts" /\ s.kind = "component" ->
         IF layout.UsesBDD THEN "pw_feature" ELSE "pw_e2e"
    [] s.lang = "python" -> IF s.kind = "route" THEN "pytest_api" ELSE "pytest_unit"
    [] s.lang = "go" -> IF s.kind = "route" THEN "go_httptest" ELSE "go_unit"
    [] s.lang = "java" -> IF s.kind = "route" THEN "junit5_restassured" ELSE "junit5_unit"
    [] OTHER -> "jest_unit"

E2EPath(stem)     == Path(<<"tests", "e2e">>, stem, ".spec.ts")
FeaturePath(stem) == Path(<<"tests", "e2e", "features">>, stem, ".feature")

TestPathForTS(dir, stem, t, layout) ==
  CASE t \in {"pw_e2e", "pw_happyflow"} -> E2EPath(stem)
    [] t = "pw_feature" -> FeaturePath(stem)
    [] t \notin Journey /\ layout.HasJestDir -> Path(dir \o <<"__tests__">>, stem, ".test.ts")
    [] t \notin Journey /\ ~layout.HasJestDir /\ layout.HasUnderTest ->
         Path(dir, stem, ".test.ts")
    [] OTHER -> Path(<<"tests">>, stem, ".test.ts")

JavaRoot == <<"src", "main", "java">>
TestPathForJava(dir, stem, layout) ==
  LET rel == IF IsPrefix(JavaRoot, dir) THEN SubSeq(dir, 4, Len(dir)) ELSE dir IN
  IF layout.HasMavenLayout THEN Path(<<"src", "test", "java">> \o rel, stem, "Test.java")
  ELSE Path(dir, stem, "Test.java")

TestPathFor(s, t, layout) ==
  LET dir == Dirs(s.file)  stem == Stem(s.file) IN
  CASE t \in GRPC -> Path(<<"tests", "grpc">>, <<s.receiver, s.name>>, ".test.ts")
    [] t \notin GRPC /\ s.lang = "ts" -> TestPathForTS(dir, stem, t, layout)
    [] t \notin GRPC /\ s.lang = "python" -> Path(<<"tests">>, <<"test_", stem>>, ".py")
    [] t \notin GRPC /\ s.lang = "go" -> Path(dir, stem, "_test.go")
    [] t \notin GRPC /\ s.lang = "java" -> TestPathForJava(dir, stem, layout)
    [] OTHER -> Path(<<"tests">>, stem, ".test")

Item(s, t, out) == [symbol |-> s, symbols |-> << >>, url |-> "", template |-> t, out |-> out]

(* The further tests of a symbol the extractor found something special of. *)
AspectTemplate ==
  [property |-> "jest_property", validator |-> "jest_validator_pos",
   serialization |-> "jest_serialization", store |-> "jest_store",
   constructor |-> "jest_constructor", cron |-> "scheduled_job",
   event |-> "event_handler", email |-> "email_template"]
Aspects == <<"property", "validator", "serialization", "store", "constructor",
             "cron", "event", "email">>
Place == [a \in DOMAIN AspectTemplate |->
            CASE a = "cron" -> "jobs" [] a = "event" -> "events" [] OTHER -> a]

AspectItem(s, a) ==
  Item(s, AspectTemplate[a], Path(<<"tests", Place[a]>>, <<Stem(s.file), s.name>>, a))

(* A pure symbol has a property test only if it can be called.             *)
FanOutAspects(s) ==
  LET has(a) == /\ a \in s.aspects \cup {s.job}
                /\ a = "property" => s.kind \in {"function", "method"} IN
  LET wanted == Only(Aspects, {a \in Range(Aspects) : has(a)}) IN
  [i \in DOMAIN wanted |-> AspectItem(s, wanted[i])]

-----------------------------------------------------------------------------
(* Kinds of tests, and the user's filter.                                  *)

KindOf(t) ==
  CASE t \in Journey -> "journey"
    [] t \in GRPC -> "grpc"
    [] t \in {"jest_api", "pytest_api", "go_httptest", "junit5_restassured"} -> "api"
    [] t \in {"scheduled_job", "event_handler", "email_template"} -> "jobs"
    [] t \in {"jest_unit", "pytest_unit", "go_unit", "junit5_unit"} -> "unit"
    [] t \in {AspectTemplate[a] : a \in {"property", "validator", "serialization",
                                         "store", "constructor"}} -> "unit"
    [] t \in {"openapi_compat", "proto_compat", "asyncapi_compat"} -> "compat"
    [] t \in {"pw_config", "pw_steps_bdd"} -> "scaffold"
    [] t = "pw_summary" -> "docs"
    [] t = "pw_sentinel" -> "sentinel"
    [] OTHER -> "unknown"

\* Mutant: step definitions are filtered like tests.
KeepDocs(kind) == kind = "docs"

IsAlwaysKeep(kind) == kind \in {"scaffold", "docs"}

FilterByKinds(items, allow, deny) ==
  LET keep(it) == LET k == KindOf(it.template) IN
                  \/ IsAlwaysKeep(k)
                  \/ (allow # {} => k \in allow) /\ k \notin deny IN
  Only(items, {it \in Range(items) : keep(it)})
=============================================================================
