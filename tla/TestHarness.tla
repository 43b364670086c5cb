---------------------------- MODULE TestHarness ----------------------------
(***************************************************************************)
(* The test harness, test_common/harness/testHarness.cpp: runTestHarness   *)
(* sets the suite up, selects the tests that the command line names, runs  *)
(* them serially or on worker threads, prints a summary, saves the results *)
(* and computes the exit code of the process.                              *)
(*                                                                         *)
(* The main thread and the workers run callSingleTestFunction, one action  *)
(* per OpenCL call or test function.  A critical section of                *)
(* gTestStateMutex is one action.  The totals are plain ints that the      *)
(* workers increment without the mutex, so an increment is a load and a    *)
(* store.                                                                  *)
(***************************************************************************)
EXTENDS Integers, Sequences, FiniteSets

CONSTANTS
  TestNum,       \* number of tests in the suite
  MaxWorkers,    \* bound on --num-worker-threads
  ArgLists,      \* command lines: sequences of arguments (see Argument)
  Missing,       \* tests without a function (func == NULL)
  TooNew,        \* tests whose min_version is above the device's version
  OnlineOnly,    \* tests that check_functions_for_offline_compiler refuses
  Main           \* the main thread

Tests == 0 .. TestNum - 1
Workers == 1 .. MaxWorkers
Threads == Workers \cup {Main}

\* An argument of the command line: the word "all", a name or a pattern with a
\* wildcard, and the tests whose names match it.
Argument == [kind : {"all", "name", "wildcard"}, matches : SUBSET Tests]

ASSUME HarnessAssumption ==
  /\ TestNum \in Nat \ {0}
  /\ MaxWorkers \in Nat
  /\ ArgLists \subseteq Seq(Argument)
  /\ Missing \subseteq Tests /\ TooNew \subseteq Tests
  /\ OnlineOnly \subseteq Tests
  /\ Main \notin Workers

TEST_PASS == 0
TEST_FAIL == 1
TEST_SKIP == 2
TEST_SKIPPED_ITSELF == -100
test_status == {TEST_PASS, TEST_FAIL, TEST_SKIP, TEST_SKIPPED_ITSELF}

EXIT_SUCCESS == 0
EXIT_FAILURE == 1

Counters == {"gFailCount", "gTestsFailed", "gTestsPassed"}

VARIABLES
  mpc,              \* where the main thread is
  argv, argi,       \* the command line and the argument being processed
  forceNoContext,   \* config.forceNoContextCreation
  numWorkers,       \* config.numWorkerThreads
  selectedTestList, \* the tests that are selected
  resultTestList,   \* [Tests -> test_status]
  gTestQueue,       \* tests that wait for a worker
  counter,          \* [Counters -> Nat]
  summary,          \* what print_results said of the tests
  saved, json,      \* what became of the results file, and what it says
  code,             \* the value runTestHarness returns
  i,                \* loop counter of callTestFunctions
  tpc,              \* where each thread is in the execution of a test
  testID, status,   \* locals of a thread
  bump,             \* the counter it has to increment next, or "none"
  loaded,           \* the value it is about to store in a counter, or 0
  opened,           \* OpenCL objects it has not released
  entered, wrong    \* history: tests entered, tests in which something failed

main    == <<mpc, argv, argi, forceNoContext, numWorkers, selectedTestList>>
outcome == <<summary, saved, json, code>>
locals  == <<testID, status, opened>>
vars    == <<main, resultTestList, gTestQueue, counter, outcome, i, tpc,
             locals, bump, loaded, entered, wrong>>

Init ==
  /\ mpc = "setup"
  /\ argv \in ArgLists /\ argi = 1
  /\ forceNoContext \in {0, 1}
  /\ numWorkers \in 0 .. MaxWorkers
  /\ selectedTestList = {}
  /\ resultTestList = [t \in Tests |-> TEST_PASS]
  /\ gTestQueue = <<>>
  /\ counter = [k \in Counters |-> 0]
  /\ summary = "none" /\ saved = "none" /\ json = <<>> /\ code = EXIT_SUCCESS
  /\ i = 0
  /\ tpc = [r \in Threads |-> "idle"]
  /\ testID = [r \in Threads |-> 0]
  /\ status = [r \in Threads |-> TEST_PASS]
  /\ bump = [r \in Threads |-> "none"]
  /\ loaded = [r \in Threads |-> 0]
  /\ opened = [r \in Threads |-> {}]
  /\ entered = {} /\ wrong = {}

-----------------------------------------------------------------------------
(* Before the tests: setup, device check, command line.                    *)

Exit(c) == mpc' = "exit" /\ code' = c

\* Everything up to the device check: the custom parameters, -list, the choice
\* of platform and device and the queries of the device, any of which may fail.
Setup(result) ==
  /\ mpc = "setup"
  /\ \/ result = "fails" /\ Exit(EXIT_FAILURE) /\ UNCHANGED summary
     \/ result = "list"  /\ Exit(EXIT_SUCCESS) /\ summary' = "listed"
     \/ result = "works" /\ mpc' = "check" /\ UNCHANGED <<code, summary>>
  /\ UNCHANGED <<argv, argi, forceNoContext, numWorkers, selectedTestList,
                 resultTestList, gTestQueue, counter, saved, json, i, tpc,
                 locals, bump, loaded, entered, wrong>>

\* check_spirv_compilation_readiness and deviceCheckFn: the suite goes on, or
\* suite_did_not_pass_init gives every test the same result.
DeviceCheck(s) ==
  /\ mpc = "check"
  /\ IF s = TEST_PASS
       THEN /\ mpc' = "select"
            /\ UNCHANGED <<selectedTestList, resultTestList>>
       ELSE /\ mpc' = "init_save"
            /\ selectedTestList' = Tests
            /\ resultTestList' = [t \in Tests |->
                 IF s = TEST_FAIL THEN TEST_FAIL ELSE TEST_SKIP]
  /\ UNCHANGED <<argv, argi, forceNoContext, numWorkers, gTestQueue, counter,
                 outcome, i, tpc, locals, bump, loaded, entered, wrong>>

\* Mutant of Refused: a test may be selected twice.
RefusedTwiceForgotten(arg) == arg.matches = {} \/ arg.matches \cap Missing # {}

\* find_matching_tests refuses an argument that names nothing, a test that is
\* already selected, or a test that is not implemented.
Refused(arg) ==
  \/ arg.matches = {}
  \/ arg.matches \cap selectedTestList # {}
  \/ arg.matches \cap Missing # {}

\* One argument of parseAndCallCommandLineTests; no argument means all tests.
Select ==
  /\ mpc = "select"
  /\ IF Len(argv) = 0 \/ (argi <= Len(argv) /\ argv[argi].kind = "all")
       THEN /\ selectedTestList' = Tests
            /\ mpc' = "start"
            /\ UNCHANGED <<argi, code>>
     ELSE IF argi > Len(argv)
       THEN mpc' = "start" /\ UNCHANGED <<selectedTestList, argi, code>>
     ELSE IF Refused(argv[argi])
       THEN Exit(EXIT_FAILURE) /\ UNCHANGED <<selectedTestList, argi>>
     ELSE /\ selectedTestList' = selectedTestList \cup argv[argi].matches
          /\ argi' = argi + 1
          /\ UNCHANGED <<mpc, code>>
  /\ UNCHANGED <<argv, forceNoContext, numWorkers, resultTestList, gTestQueue,
                 counter, summary, saved, json, i, tpc, locals, bump, loaded,
                 entered, wrong>>

-----------------------------------------------------------------------------
(* callTestFunctions: the serial loop, or the queue and its workers.       *)

\* resultTestList starts as TEST_PASS; numWorkerThreads picks the way to go.
Start ==
  /\ mpc = "start"
  /\ mpc' = IF numWorkers = 0 THEN "serial" ELSE "queue"
  /\ UNCHANGED <<argv, argi, forceNoContext, numWorkers, selectedTestList,
                 resultTestList, gTestQueue, counter, outcome, i, tpc, locals,
                 bump, loaded, entered, wrong>>

\* Mutant of SerialNext: the counter only moves past selected tests.
SerialNextStuck ==
  /\ mpc = "serial" /\ tpc[Main] = "idle"
  /\ IF i = TestNum
       THEN mpc' = "print" /\ UNCHANGED <<i, testID, tpc>>
       ELSE /\ i \in selectedTestList
            /\ i' = i + 1
            /\ testID' = [testID EXCEPT ![Main] = i]
            /\ tpc' = [tpc EXCEPT ![Main] = "begin"]
            /\ UNCHANGED mpc
  /\ UNCHANGED <<argv, argi, forceNoContext, numWorkers, selectedTestList,
                 resultTestList, gTestQueue, counter, outcome, status, opened,
                 bump, loaded, entered, wrong>>

\* One iteration of the serial loop: the main thread runs test i itself.
SerialNext ==
  /\ mpc = "serial" /\ tpc[Main] = "idle"
  /\ IF i = TestNum
       THEN mpc' = "print" /\ UNCHANGED <<i, testID, tpc>>
       ELSE /\ i' = i + 1
            /\ IF i \in selectedTestList
                 THEN /\ testID' = [testID EXCEPT ![Main] = i]
                      /\ tpc' = [tpc EXCEPT ![Main] = "begin"]
                 ELSE UNCHANGED <<testID, tpc>>
            /\ UNCHANGED mpc
  /\ UNCHANGED <<argv, argi, forceNoContext, numWorkers, selectedTestList,
                 resultTestList, gTestQueue, counter, outcome, status, opened,
                 bump, loaded, entered, wrong>>

\* One iteration of the loop that queues the selected tests.
Enqueue ==
  /\ mpc = "queue"
  /\ IF i = TestNum
       THEN mpc' = "spawn" /\ i' = 0 /\ UNCHANGED gTestQueue
       ELSE /\ gTestQueue' = IF i \in selectedTestList
                             THEN Append(gTestQueue, i) ELSE gTestQueue
            /\ i' = i + 1
            /\ UNCHANGED mpc
  /\ UNCHANGED <<argv, argi, forceNoContext, numWorkers, selectedTestList,
                 resultTestList, counter, outcome, tpc, locals, bump, loaded,
                 entered, wrong>>

\* new std::thread(test_function_runner, &state)
Spawn ==
  /\ mpc = "spawn"
  /\ IF i = numWorkers
       THEN mpc' = "join" /\ UNCHANGED <<i, tpc>>
       ELSE /\ tpc' = [tpc EXCEPT ![i + 1] = "take"]
            /\ i' = i + 1
            /\ UNCHANGED mpc
  /\ UNCHANGED <<argv, argi, forceNoContext, numWorkers, selectedTestList,
                 resultTestList, gTestQueue, counter, outcome, locals, bump,
                 loaded, entered, wrong>>

\* The joins return when every worker has.
Join ==
  /\ mpc = "join"
  /\ \A r \in 1 .. numWorkers : tpc[r] = "done"
  /\ mpc' = "print"
  /\ UNCHANGED <<argv, argi, forceNoContext, numWorkers, selectedTestList,
                 resultTestList, gTestQueue, counter, outcome, i, tpc, locals,
                 bump, loaded, entered, wrong>>

-----------------------------------------------------------------------------
(* test_function_runner and callSingleTestFunction, in thread r.           *)

Goto(r, l) == tpc' = [tpc EXCEPT ![r] = l]

\* The thread is about to increment k, and then goes on at l.  gTestsFailed++
\* follows every gFailCount++.
Bump(r, k, l) ==
  /\ bump' = [bump EXCEPT ![r] = k]
  /\ Goto(r, l)

\* Something went wrong in the test that r executes.
Blame(r) == wrong' = wrong \cup {testID[r]}

\* Mutant of Take: front() without pop_front().
TakeWithoutPop(r) ==
  /\ tpc[r] = "take"
  /\ IF gTestQueue = <<>>
       THEN Goto(r, "done") /\ UNCHANGED testID
       ELSE testID' = [testID EXCEPT ![r] = Head(gTestQueue)] /\ Goto(r, "begin")
  /\ UNCHANGED <<main, resultTestList, gTestQueue, counter, outcome, i, status,
                 opened, bump, loaded, entered, wrong>>

\* Under gTestStateMutex: the queue is empty, or its front is taken.
Take(r) ==
  /\ tpc[r] = "take"
  /\ IF gTestQueue = <<>>
       THEN Goto(r, "done") /\ UNCHANGED <<gTestQueue, testID>>
       ELSE /\ testID' = [testID EXCEPT ![r] = Head(gTestQueue)]
            /\ gTestQueue' = Tail(gTestQueue)
            /\ Goto(r, "begin")
  /\ UNCHANGED <<main, resultTestList, counter, outcome, i, status, opened,
                 bump, loaded, entered, wrong>>

\* The device is too old for the test, or the offline compiler cannot do it.
Begin(r) ==
  /\ tpc[r] = "begin"
  /\ IF testID[r] \in TooNew \cup OnlineOnly
       THEN /\ status' = [status EXCEPT ![r] = TEST_SKIP]
            /\ Goto(r, "store")
       ELSE /\ Goto(r, IF forceNoContext = 1 THEN "call" ELSE "context")
            /\ UNCHANGED status
  /\ UNCHANGED <<main, resultTestList, gTestQueue, counter, outcome, i, testID,
                 opened, bump, loaded, entered, wrong>>

\* Mutant of Create: the context stays when there is no queue.
CreateLeaks(r, works) ==
  /\ tpc[r] \in {"context", "queue"}
  /\ IF works
       THEN /\ opened' = [opened EXCEPT ![r] = @ \cup {tpc[r]}]
            /\ Goto(r, IF tpc[r] = "context" THEN "queue" ELSE "call")
            /\ UNCHANGED <<status, bump, wrong>>
       ELSE /\ Bump(r, "gFailCount", "store")
            /\ status' = [status EXCEPT ![r] = TEST_FAIL]
            /\ Blame(r)
            /\ UNCHANGED opened
  /\ UNCHANGED <<main, resultTestList, gTestQueue, counter, outcome, i, testID,
                 loaded, entered>>

\* clCreateContext, then clCreateCommandQueue; without a queue the context is
\* released again
Create(r, works) ==
  /\ tpc[r] \in {"context", "queue"}
  /\ IF works
       THEN /\ opened' = [opened EXCEPT ![r] = @ \cup {tpc[r]}]
            /\ Goto(r, IF tpc[r] = "context" THEN "queue" ELSE "call")
            /\ UNCHANGED <<status, bump, wrong>>
       ELSE /\ opened' = [opened EXCEPT ![r] = {}]
            /\ Bump(r, "gFailCount", "store")
            /\ status' = [status EXCEPT ![r] = TEST_FAIL]
            /\ Blame(r)
  /\ UNCHANGED <<main, resultTestList, gTestQueue, counter, outcome, i, testID,
                 loaded, entered>>

\* test.func(...) is entered, if there is one
Call(r) ==
  /\ tpc[r] = "call"
  /\ IF testID[r] \in Missing
       THEN /\ status' = [status EXCEPT ![r] = TEST_SKIP]
            /\ Goto(r, "finish")
            /\ UNCHANGED entered
       ELSE /\ entered' = entered \cup {testID[r]}
            /\ Goto(r, "running")
            /\ UNCHANGED status
  /\ UNCHANGED <<main, resultTestList, gTestQueue, counter, outcome, i, testID,
                 opened, bump, loaded, wrong>>

\* Mutant of Return: the test's return value is its status.
ReturnUnmapped(r, ret) ==
  /\ tpc[r] = "running"
  /\ status' = [status EXCEPT ![r] = ret]
  /\ Bump(r, IF ret = 0 THEN "gTestsPassed" ELSE "gTestsFailed", "finish")
  /\ IF ret \in {0, TEST_SKIPPED_ITSELF} THEN UNCHANGED wrong ELSE Blame(r)
  /\ UNCHANGED <<main, resultTestList, gTestQueue, counter, outcome, i, testID,
                 opened, loaded, entered>>

\* ... and returns 0, TEST_SKIPPED_ITSELF, or something else that is a failure
Return(r, ret) ==
  /\ tpc[r] = "running"
  /\ status' = [status EXCEPT ![r] =
                  CASE ret = TEST_SKIPPED_ITSELF -> TEST_SKIP
                    [] ret = 0 -> TEST_PASS
                    [] OTHER -> TEST_FAIL]
  /\ Bump(r, CASE ret = TEST_SKIPPED_ITSELF -> "none"
               [] ret = 0 -> "gTestsPassed"
               [] OTHER -> "gTestsFailed", "finish")
  /\ IF ret \in {0, TEST_SKIPPED_ITSELF} THEN UNCHANGED wrong ELSE Blame(r)
  /\ UNCHANGED <<main, resultTestList, gTestQueue, counter, outcome, i, testID,
                 opened, loaded, entered>>

\* counter++ is a load ...
Load(r) ==
  /\ tpc[r] \in {"store", "finish", "release"} /\ bump[r] # "none"
  /\ loaded[r] = 0
  /\ loaded' = [loaded EXCEPT ![r] = counter[bump[r]] + 1]
  /\ UNCHANGED <<main, resultTestList, gTestQueue, counter, outcome, i, tpc,
                 locals, bump, entered, wrong>>

\* ... and a store
Store(r) ==
  /\ tpc[r] \in {"store", "finish", "release"} /\ loaded[r] # 0
  /\ counter' = [counter EXCEPT ![bump[r]] = loaded[r]]
  /\ bump' = [bump EXCEPT ![r] = IF @ = "gFailCount" THEN "gTestsFailed" ELSE "none"]
  /\ loaded' = [loaded EXCEPT ![r] = 0]
  /\ UNCHANGED <<main, resultTestList, gTestQueue, outcome, i, tpc, locals,
                 entered, wrong>>

\* Mutant of Finish: an error of clFinish is only printed.
FinishErrorIgnored(r, works) ==
  /\ tpc[r] = "finish" /\ bump[r] = "none"
  /\ Goto(r, "release")
  /\ IF forceNoContext = 1 \/ works THEN UNCHANGED wrong ELSE Blame(r)
  /\ UNCHANGED <<main, resultTestList, gTestQueue, counter, outcome, i, testID,
                 status, opened, bump, loaded, entered>>

\* clFinish: an error makes any test a failure
Finish(r, works) ==
  /\ tpc[r] = "finish" /\ bump[r] = "none"
  /\ IF forceNoContext = 1 \/ works
       THEN Goto(r, "release") /\ UNCHANGED <<status, bump, wrong>>
       ELSE /\ Bump(r, "gFailCount", "release")
            /\ status' = [status EXCEPT ![r] = TEST_FAIL]
            /\ Blame(r)
  /\ UNCHANGED <<main, resultTestList, gTestQueue, counter, outcome, i, testID,
                 opened, loaded, entered>>

\* clReleaseCommandQueue, clReleaseContext
Release(r) ==
  /\ tpc[r] = "release" /\ bump[r] = "none"
  /\ opened' = [opened EXCEPT ![r] = {}]
  /\ Goto(r, "store")
  /\ UNCHANGED <<main, resultTestList, gTestQueue, counter, outcome, i, testID,
                 status, bump, loaded, entered, wrong>>

\* The result is stored, by a worker under gTestStateMutex
StoreResult(r) ==
  /\ tpc[r] = "store" /\ bump[r] = "none"
  /\ resultTestList' = [resultTestList EXCEPT ![testID[r]] = status[r]]
  /\ Goto(r, IF r = Main THEN "idle" ELSE "take")
  /\ UNCHANGED <<main, gTestQueue, counter, outcome, i, locals, bump, loaded,
                 entered, wrong>>

Returns == {TEST_PASS, TEST_FAIL, TEST_SKIP, TEST_SKIPPED_ITSELF, -1}

ThreadStep(r) ==
  \/ Take(r) \/ Begin(r) \/ Call(r) \/ Load(r) \/ Store(r) \/ Release(r)
  \/ StoreResult(r)
  \/ (\E works \in BOOLEAN : Create(r, works) \/ Finish(r, works))
  \/ (\E ret \in Returns : Return(r, ret))

-----------------------------------------------------------------------------
(* After the tests: summary, results file, exit code.                      *)

\* print_results(gTestsFailed, gTestsFailed + gTestsPassed, "test")
PrintResults ==
  /\ mpc = "print"
  /\ summary' = IF counter["gTestsFailed"] = 0 THEN "PASSED" ELSE "FAILED"
  /\ mpc' = "save"
  /\ UNCHANGED <<argv, argi, forceNoContext, numWorkers, selectedTestList,
                 resultTestList, gTestQueue, counter, saved, json, code, i, tpc,
                 locals, bump, loaded, entered, wrong>>

\* result_map[(int)resultTestList[i]]; any other value reads past the array.
ResultMap(s) == CASE s = TEST_PASS -> "pass"
                  [] s = TEST_FAIL -> "fail"
                  [] s = TEST_SKIP -> "skip"
                  [] OTHER -> "garbage"

\* saveResultsToJson: no file is asked for, it cannot be opened, the final
\* write fails, or it is written
SaveResults(result) ==
  /\ mpc \in {"save", "init_save"}
  /\ saved' = result
  /\ json' = IF result = "ok" THEN [t \in selectedTestList |-> ResultMap(resultTestList[t])]
             ELSE json
  /\ LET failed == \E t \in Tests : resultTestList[t] \notin {TEST_PASS, TEST_SKIP}
     IN  Exit(IF result \in {"open_fails", "close_fails"} \/ failed
              THEN EXIT_FAILURE ELSE EXIT_SUCCESS)
  /\ UNCHANGED <<argv, argi, forceNoContext, numWorkers, selectedTestList,
                 resultTestList, gTestQueue, counter, summary, i, tpc, locals,
                 bump, loaded, entered, wrong>>

\* The process is gone.
Exited == mpc = "exit" /\ UNCHANGED vars

MainStep ==
  \/ \E result \in {"fails", "list", "works"} : Setup(result)
  \/ \E s \in test_status : DeviceCheck(s)
  \/ Select \/ Start \/ SerialNext \/ Enqueue \/ Spawn \/ Join \/ PrintResults
  \/ \E result \in {"none", "open_fails", "close_fails", "ok"} :
       SaveResults(result)

Next == MainStep \/ (\E r \in Threads : ThreadStep(r)) \/ Exited

Spec == Init /\ [][Next]_vars

\* The operating system schedules every thread, and tests return.
FairSpec ==
  Spec /\ WF_vars(MainStep) /\ \A r \in Threads : WF_vars(ThreadStep(r))
-----------------------------------------------------------------------------
(* Properties.                                                             *)

SuiteTypes ==
  /\ mpc \in {"setup", "check", "select", "start", "serial", "queue", "spawn",
              "join", "print", "save", "init_save", "exit"}
  /\ argv \in ArgLists /\ argi \in Nat \ {0}
  /\ forceNoContext \in {0, 1} /\ numWorkers \in 0 .. MaxWorkers
  /\ selectedTestList \subseteq Tests
  /\ summary \in {"none", "listed", "PASSED", "FAILED"}
  /\ saved \in {"none", "open_fails", "close_fails", "ok"}
  /\ code \in {EXIT_SUCCESS, EXIT_FAILURE}
  /\ i \in Nat

SharedTypes ==
  /\ resultTestList \in [Tests -> test_status]
  /\ gTestQueue \in Seq(Tests)
  /\ counter \in [Counters -> Nat]
  /\ entered \subseteq Tests /\ wrong \subseteq Tests

ThreadTypes ==
  /\ tpc \in [Threads -> {"idle", "take", "begin", "context", "queue", "call",
                          "running", "finish", "release", "store", "done"}]
  /\ testID \in [Threads -> Tests]
  /\ status \in [Threads -> test_status]
  /\ bump \in [Threads -> Counters \cup {"none"}]
  /\ loaded \in [Threads -> Nat]
  /\ opened \in [Threads -> SUBSET {"context", "queue"}]

\* Every variable keeps its type: in particular a result is a test_status and
\* never the raw return value of a test.
TypeOK == SuiteTypes /\ SharedTypes /\ ThreadTypes

\* The suite got as far as running its tests.
Ran == summary \in {"PASSED", "FAILED"}

\* A test that the harness cannot or need not call.
Skippable == Missing \cup TooNew \cup OnlineOnly

\* The test function of a test is entered at most once, and only if the test is
\* selected: no two workers take the same test from gTestQueue.
EachTestOnce ==
  [][\A r \in Threads : tpc[r] = "call" /\ tpc'[r] = "running" =>
       testID[r] \in selectedTestList \ entered]_vars

\* assert(gTestQueue.size() == 0) after the joins; and nothing that a test uses
\* is left behind when the summary is printed: no thread, context or queue.
NothingLeftBehind ==
  mpc \in {"print", "save", "exit"} =>
    /\ gTestQueue = <<>>
    /\ \A r \in Threads : tpc[r] \in {"idle", "done"} /\ opened[r] = {}

\* The results file lists the selected tests, a failure for those in which
\* anything failed (context, queue, test or clFinish), a pass only for those
\* that were called, and a skip otherwise.
ResultsFileIsRight ==
  Ran /\ saved = "ok" =>
    /\ DOMAIN json = selectedTestList
    /\ \A t \in selectedTestList :
         /\ json[t] \in {"pass", "fail", "skip"}
         /\ json[t] = "fail" <=> t \in wrong
         /\ json[t] = "pass" => t \in entered \ Skippable

\* A run of the tests ends with EXIT_SUCCESS exactly when no test failed and
\* the results file, if one was asked for, was written.  That is what the code does;
\* its header says otherwise of skipped tests and of the file: see HeaderPromise.
ExitCodeIsRight ==
  mpc = "exit" /\ Ran =>
    (code = EXIT_SUCCESS <=> wrong = {} /\ saved \in {"none", "ok"})

\* testHarness.h of runTestHarness: "Returns EXIT_SUCCESS iff all tests succeeded or
\* the tests were listed, otherwise return EXIT_FAILURE."
HeaderPromise ==
  mpc = "exit" =>
    (code = EXIT_SUCCESS <=>
       \/ summary = "listed"
       \/ Ran /\ \A t \in selectedTestList : resultTestList[t] = TEST_PASS)

\* The increments of gTestsFailed race and may be lost, but never all of them:
\* the summary says FAILED exactly when a test failed.
SummaryIsRight == Ran => (summary = "FAILED" <=> wrong # {})

\* The tests that run are those the command line names: each argument (up to
\* the word all) names some, and none is named twice.
SelectionIsRight ==
  Ran => \/ selectedTestList = Tests
            /\ (argv = <<>> \/ \E k \in DOMAIN argv : argv[k].kind = "all")
         \/ /\ selectedTestList = UNION {argv[k].matches : k \in DOMAIN argv}
            /\ \A k \in DOMAIN argv : argv[k].matches # {}
            /\ \A k, l \in DOMAIN argv :
                 k # l => argv[k].matches \cap argv[l].matches = {}
            /\ selectedTestList \cap Missing = {}

\* runTestHarness returns.
HarnessReturns == <>(mpc = "exit")
=============================================================================
