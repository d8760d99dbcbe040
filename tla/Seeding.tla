-------------------------------- MODULE Seeding --------------------------------
(***************************************************************************)
(* framework/testdata: pytest processes (xdist workers, or one run after   *)
(* another) seed scenarios into one database server and one API, register  *)
(* the cleanup of what they seeded, and tear it down after each test.      *)
(*                                                                         *)
(* A seed or a delete is one step here: DatabaseSeeder.seed and            *)
(* DatabaseCleanupService.delete run in one UnitOfWork, and UnitOfWork     *)
(* shows that its work becomes durable at once on a database server.       *)
(***************************************************************************)
EXTENDS Naturals, Sequences, FiniteSets, SequencesExt

CONSTANTS
    Worker,         \* pytest processes that share the server
    Kind,           \* entity types the builders produce
    DbKind,         \* keys of _REPOSITORY_MAP
    DeletableKind,  \* keys of _DELETE_MAP
    Scenario,       \* the entity types each ScenarioLibrary scenario bundles
    Api,            \* resources the API can create
    MaxPosts,       \* bound: api_payloads of one orchestrated seed
    MaxId,          \* bound: ids a process takes from one sequence
    MaxTests,       \* bound: tests started
    MaxRestarts     \* bound: processes ended and started again

ASSUME KindAssumption == DeletableKind \subseteq DbKind /\ DbKind \subseteq Kind
ASSUME ScenarioAssumption == Scenario \subseteq SUBSET Kind
ASSUME BoundAssumption ==
    {MaxPosts, MaxId, MaxTests, MaxRestarts} \subseteq Nat

VARIABLES
    rows,           \* rows[id]: the test that created the row, or NoTest
    records,        \* records[a]: the test that created the API resource, or NoTest
    sequence,       \* sequence[w][k]: last number w's process took for kind k
    current,        \* current[w]: the test w runs, or NoTest
    stage,          \* where w's test is
    schema,         \* schema[w]: whether w's test uses db_schema, and has torn it down
    handle,         \* handle[w]: what the seed in progress has produced
    posts,          \* posts[w]: api_payloads still to be posted
    callbacks,      \* callbacks[w]: CleanupRegistry._callbacks
    started,        \* history: number of tests started
    restarts,       \* history: number of process restarts
    excuse          \* history: why a test may have left data behind

tables == <<rows, records>>
seedingVars == <<tables, sequence, current, stage, schema, handle, posts, callbacks,
          started, restarts, excuse>>

Id == DbKind \X (1..MaxId)
NoTest == 0
Test == 1..MaxTests
Stage == {"idle", "body", "posting", "seeded", "teardown"}
Excuse == {"crash", "cleanup_error", "api_warning", "half_seeded"}

NoHandle == [db |-> {}, api |-> {}]
Callback == [db : SUBSET Id, api : SUBSET Api]

SeedingTypeOK ==
    /\ rows \in [Id -> Test \cup {NoTest}]
    /\ records \in [Api -> Test \cup {NoTest}]
    /\ sequence \in [Worker -> [Kind -> 0..MaxId]]
    /\ current \in [Worker -> Test \cup {NoTest}]
    /\ stage \in [Worker -> Stage]
    /\ schema \in [Worker -> {"unused", "held", "truncated"}]
    /\ handle \in [Worker -> Callback]
    /\ posts \in [Worker -> 0..MaxPosts]
    /\ callbacks \in [Worker -> Seq(Callback)]
    /\ started \in 0..MaxTests
    /\ restarts \in 0..MaxRestarts
    /\ excuse \in [Test -> SUBSET Excuse]

NewProcess == [k \in Kind |-> 0]

SeedingInit ==
    /\ rows = [id \in Id |-> NoTest]
    /\ records = [a \in Api |-> NoTest]
    /\ sequence = [w \in Worker |-> NewProcess]
    /\ current = [w \in Worker |-> NoTest]
    /\ stage = [w \in Worker |-> "idle"]
    /\ schema = [w \in Worker |-> "unused"]
    /\ handle = [w \in Worker |-> NoHandle]
    /\ posts = [w \in Worker |-> 0]
    /\ callbacks = [w \in Worker |-> <<>>]
    /\ started = 0
    /\ restarts = 0
    /\ excuse = [t \in Test |-> {}]

Blame(w, why) == excuse' = [excuse EXCEPT ![current[w]] = @ \cup {why}]

-----------------------------------------------------------------------------
(* A test starts and seeds *)

\* A test that truncates the tables runs alone: CI runs the database suite in
\* one process.
Alone(w, use) ==
    \A v \in Worker \ {w} : stage[v] # "idle" => use = "unused" /\ schema[v] = "unused"

StartTest(w) ==
    /\ stage[w] = "idle"
    /\ started < MaxTests
    /\ started' = started + 1
    /\ current' = [current EXCEPT ![w] = started + 1]
    /\ stage' = [stage EXCEPT ![w] = "body"]
    /\ \E use \in {"unused", "held"} :
           /\ Alone(w, use)
           /\ schema' = [schema EXCEPT ![w] = use]
    /\ UNCHANGED <<tables, sequence, handle, posts, callbacks, restarts, excuse>>

\* The builders number the scenario's entities from this process's sequences;
\* entities without a repository (SIM cards, users) are skipped.
Entities(w, scenario) == {<<k, sequence[w][k] + 1>> : k \in scenario \cap DbKind}

TakeIds(w, scenario) ==
    /\ \A k \in scenario : sequence[w][k] < MaxId
    /\ sequence' = [sequence EXCEPT ![w] =
           [k \in Kind |-> IF k \in scenario THEN @[k] + 1 ELSE @[k]]]

\* Mutant of SeedScenario: INSERT OR REPLACE, a row that is there is taken over.
SeedScenarioReplaces(w, scenario) ==
    /\ stage[w] = "body"
    /\ TakeIds(w, scenario)
    /\ rows' = [id \in Id |-> IF id \in Entities(w, scenario) THEN current[w] ELSE rows[id]]
    /\ handle' = [handle EXCEPT ![w].db = Entities(w, scenario)]
    /\ stage' = [stage EXCEPT ![w] = "seeded"]
    /\ UNCHANGED <<records, current, schema, posts, callbacks, started, restarts, excuse>>

\* All rows are inserted in one UnitOfWork.
SeedScenario(w, scenario) ==
    /\ stage[w] = "body"
    /\ TakeIds(w, scenario)
    /\ \A id \in Entities(w, scenario) : rows[id] = NoTest
    /\ rows' = [id \in Id |-> IF id \in Entities(w, scenario) THEN current[w] ELSE rows[id]]
    /\ handle' = [handle EXCEPT ![w].db = Entities(w, scenario)]
    /\ \E n \in 0..MaxPosts :
           /\ posts' = [posts EXCEPT ![w] = n]
           /\ stage' = [stage EXCEPT ![w] = IF n = 0 THEN "seeded" ELSE "posting"]
    /\ UNCHANGED <<records, current, schema, callbacks, started, restarts, excuse>>

\* A primary key already in the table, strict=True with an unmapped entity, or
\* a database error: the UnitOfWork rolls back and the test sees the exception.
SeedFails(w, scenario) ==
    /\ stage[w] = "body"
    /\ TakeIds(w, scenario)
    /\ UNCHANGED <<tables, current, stage, schema, handle, posts, callbacks,
                   started, restarts, excuse>>

\* SeedOrchestrator.seed goes on with ApiSeeder.seed_many, one POST at a time.
SeedApi(w) ==
    /\ stage[w] = "posting"
    /\ \E a \in Api :
           /\ records[a] = NoTest
           /\ records' = [records EXCEPT ![a] = current[w]]
           /\ handle' = [handle EXCEPT ![w].api = @ \cup {a}]
    /\ posts' = [posts EXCEPT ![w] = @ - 1]
    /\ stage' = [stage EXCEPT ![w] = IF posts[w] = 1 THEN "seeded" ELSE "posting"]
    /\ UNCHANGED <<rows, sequence, current, schema, callbacks, started, restarts, excuse>>

\* A POST raises, whether or not the server created the resource: seed()
\* returns no handle, and what was seeded before stays.
SeedApiFails(w) ==
    /\ stage[w] = "posting"
    /\ \/ UNCHANGED records
       \/ \E a \in Api : /\ records[a] = NoTest
                         /\ records' = [records EXCEPT ![a] = current[w]]
    /\ handle' = [handle EXCEPT ![w] = NoHandle]
    /\ posts' = [posts EXCEPT ![w] = 0]
    /\ stage' = [stage EXCEPT ![w] = "body"]
    /\ Blame(w, "half_seeded")
    /\ UNCHANGED <<rows, sequence, current, schema, callbacks, started, restarts>>

\* Mutant of Register: the new callback replaces the ones registered before.
RegisterReplaces(w) ==
    /\ stage[w] = "seeded"
    /\ callbacks' = [callbacks EXCEPT ![w] = <<[db |-> handle[w].db, api |-> {}]>>]
    /\ handle' = [handle EXCEPT ![w] = NoHandle]
    /\ stage' = [stage EXCEPT ![w] = "body"]
    /\ UNCHANGED <<tables, sequence, current, schema, posts, started, restarts, excuse>>

\* The seeded_scenario fixture registers the delete of what was seeded; for an
\* orchestrated seed the test registers the API's delete as well.
Register(w) ==
    /\ stage[w] = "seeded"
    /\ callbacks' = [callbacks EXCEPT ![w] = @ \o
           <<[db |-> handle[w].db, api |-> {}]>> \o
           (IF handle[w].api = {} THEN <<>> ELSE <<[db |-> {}, api |-> handle[w].api]>>)]
    /\ handle' = [handle EXCEPT ![w] = NoHandle]
    /\ stage' = [stage EXCEPT ![w] = "body"]
    /\ UNCHANGED <<tables, sequence, current, schema, posts, started, restarts, excuse>>

\* The test passes or fails: teardown runs all the same.
EndBody(w) ==
    /\ stage[w] = "body"
    /\ stage' = [stage EXCEPT ![w] = "teardown"]
    /\ UNCHANGED <<tables, sequence, current, schema, handle, posts, callbacks,
                   started, restarts, excuse>>

-----------------------------------------------------------------------------
(* Teardown *)

Newest(w) == Last(callbacks[w])
Popped(w) == [callbacks EXCEPT ![w] = Front(@)]

Remaining(table, gone) == [id \in DOMAIN table |-> IF id \in gone THEN NoTest ELSE table[id]]

\* Mutant of CleanRows: deletes by entity type instead of by id.
CleanRowsByKind(w) ==
    /\ stage[w] = "teardown"
    /\ callbacks[w] # <<>>
    /\ rows' = Remaining(rows, {id \in Id : id[1] \in DeletableKind})
    /\ callbacks' = Popped(w)
    /\ UNCHANGED <<records, sequence, current, stage, schema, handle, posts,
                   started, restarts, excuse>>

\* CleanupRegistry.execute_all pops the newest callback and runs it.
\* DatabaseCleanupService.delete removes what it has a mapping for; a row
\* that is already gone is no error.
CleanRows(w) ==
    /\ stage[w] = "teardown"
    /\ callbacks[w] # <<>>
    /\ Newest(w).api = {}
    /\ rows' = Remaining(rows, {id \in Newest(w).db : id[1] \in DeletableKind})
    /\ callbacks' = Popped(w)
    /\ UNCHANGED <<records, sequence, current, stage, schema, handle, posts,
                   started, restarts, excuse>>

\* The callback raises: its UnitOfWork rolls back, the error is collected and
\* the older callbacks still run.
CleanupFails(w) ==
    /\ stage[w] = "teardown"
    /\ callbacks[w] # <<>>
    /\ callbacks' = Popped(w)
    /\ Blame(w, "cleanup_error")
    /\ UNCHANGED <<tables, sequence, current, stage, schema, handle, posts,
                   started, restarts>>

\* ApiCleanupService.delete_many: an answer of 400 or more is only logged.
CleanRecords(w) ==
    /\ stage[w] = "teardown"
    /\ callbacks[w] # <<>>
    /\ Newest(w).api # {}
    /\ \E gone \in SUBSET Newest(w).api :
           /\ records' = Remaining(records, gone)
           /\ IF gone = Newest(w).api THEN UNCHANGED excuse ELSE Blame(w, "api_warning")
    /\ callbacks' = Popped(w)
    /\ UNCHANGED <<rows, sequence, current, stage, schema, handle, posts,
                   started, restarts>>

\* db_schema's teardown: every row of every table goes.
Truncate(w) ==
    /\ stage[w] = "teardown"
    /\ schema[w] = "held"
    /\ rows' = [id \in Id |-> NoTest]
    /\ schema' = [schema EXCEPT ![w] = "truncated"]
    /\ UNCHANGED <<records, sequence, current, stage, handle, posts, callbacks,
                   started, restarts, excuse>>

\* Mutant of FinishTest: teardown leaves the registry's callbacks unexecuted.
FinishTestEarly(w) ==
    /\ stage[w] = "teardown"
    /\ callbacks' = [callbacks EXCEPT ![w] = <<>>]
    /\ schema' = [schema EXCEPT ![w] = "unused"]
    /\ stage' = [stage EXCEPT ![w] = "idle"]
    /\ current' = [current EXCEPT ![w] = NoTest]
    /\ UNCHANGED <<tables, sequence, handle, posts, started, restarts, excuse>>

FinishTest(w) ==
    /\ stage[w] = "teardown"
    /\ callbacks[w] = <<>>
    /\ schema[w] # "held"
    /\ schema' = [schema EXCEPT ![w] = "unused"]
    /\ stage' = [stage EXCEPT ![w] = "idle"]
    /\ current' = [current EXCEPT ![w] = NoTest]
    /\ UNCHANGED <<tables, sequence, handle, posts, callbacks,
                   started, restarts, excuse>>

-----------------------------------------------------------------------------
(* Processes *)

\* The next run's process: its sequences start again at 1.
Restart(w) ==
    /\ stage[w] = "idle"
    /\ restarts < MaxRestarts
    /\ restarts' = restarts + 1
    /\ sequence' = [sequence EXCEPT ![w] = NewProcess]
    /\ UNCHANGED <<tables, current, stage, schema, handle, posts, callbacks, started, excuse>>

\* The process dies in the middle of a test and is started again.
Crash(w) ==
    /\ stage[w] # "idle"
    /\ restarts < MaxRestarts
    /\ restarts' = restarts + 1
    /\ Blame(w, "crash")
    /\ sequence' = [sequence EXCEPT ![w] = NewProcess]
    /\ current' = [current EXCEPT ![w] = NoTest]
    /\ stage' = [stage EXCEPT ![w] = "idle"]
    /\ schema' = [schema EXCEPT ![w] = "unused"]
    /\ handle' = [handle EXCEPT ![w] = NoHandle]
    /\ posts' = [posts EXCEPT ![w] = 0]
    /\ callbacks' = [callbacks EXCEPT ![w] = <<>>]
    /\ UNCHANGED <<tables, started>>

-----------------------------------------------------------------------------
Teardown(w) ==
    \/ CleanRows(w) \/ CleanRecords(w) \/ CleanupFails(w)
    \/ Truncate(w)
    \/ FinishTest(w)

SeedingNext ==
    \E w \in Worker :
        \/ StartTest(w)
        \/ \E scenario \in Scenario : SeedScenario(w, scenario) \/ SeedFails(w, scenario)
        \/ SeedApi(w) \/ SeedApiFails(w)
        \/ Register(w)
        \/ EndBody(w)
        \/ Teardown(w)
        \/ Restart(w)
        \/ Crash(w)

\* Nothing bounds a test's body, no pytest timeout is configured.  pytest runs
\* every finalizer of a test once its teardown has begun, whatever others
\* raised, and the server answers each of their requests or fails it.
Fairness == \A w \in Worker : WF_seedingVars(Teardown(w))

SeedingSpec == SeedingInit /\ [][SeedingNext]_seedingVars /\ Fairness

-----------------------------------------------------------------------------
(* Properties *)

Running == {current[w] : w \in Worker} \ {NoTest}

\* While a test may still use it, everything in its handles is in the tables
\* as the test seeded it: another worker's ids, cleanup or failed seed never
\* takes it away.
HandlesStayValid ==
    \A w \in Worker : stage[w] # "teardown" =>
        \A h \in {handle[w]} \cup Range(callbacks[w]) :
            /\ \A id \in h.db : rows[id] = current[w]
            /\ \A a \in h.api : records[a] = current[w]

\* CleanupStrategy.md: test data "doesn't outlive" its test.  A finished test
\* leaves rows of a deletable type or API resources only after a crash, a
\* raised cleanup error, a refused API delete or a half-done orchestrated seed.
NothingOutlivesItsTest ==
    /\ \A id \in Id : rows[id] # NoTest /\ id[1] \in DeletableKind =>
           rows[id] \in Running \/ excuse[rows[id]] # {}
    /\ \A a \in Api : records[a] # NoTest =>
           records[a] \in Running \/ excuse[records[a]] # {}

\* No test's cleanup removes what another test seeded.
CleanupIsOwn ==
    [][\A w \in Worker : Len(callbacks'[w]) < Len(callbacks[w]) /\ stage[w] = "teardown" =>
        \A id \in Id : rows'[id] # rows[id] => rows[id] = current[w]]_seedingVars

TearingDown(t) == \E w \in Worker : current[w] = t /\ stage[w] = "teardown"

\* cleanup_registry: what a test seeded is deleted in the end, however its body
\* ended; a body that never ends keeps its rows.
SeededRowsGo ==
    \A id \in Id : id[1] \in DeletableKind =>
        \A t \in Test : rows[id] = t /\ TearingDown(t) ~> rows[id] # t \/ excuse[t] # {}
==============================================================================
