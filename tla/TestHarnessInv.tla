--------------------------- MODULE TestHarnessInv ---------------------------
(***************************************************************************)
(* The inductive invariant of the test harness: which threads run in which *)
(* phase, where every selected test is, and what has been made of the ones *)
(* that are done.                                                          *)
(***************************************************************************)
EXTENDS TestHarness

\* A thread that executes a test, and where it has a status for it.
Exec == {"begin", "context", "queue", "call", "running", "finish", "release",
         "store"}
Judged == {"finish", "release", "store"}
BeforeCall == {"begin", "context", "queue", "call"}

\* The main thread is before the tests, and after them.
Before == {"setup", "check", "select", "start"}
After == {"print", "save", "exit"}

\* The suite failed to come up: every test has the same result.
Down == mpc = "init_save" \/ (mpc = "exit" /\ ~Ran)

Queued(t) == \E k \in 1 .. Len(gTestQueue) : gTestQueue[k] = t

\* A selected test that nobody has begun.
Todo(t) ==
  \/ mpc \in Before
  \/ mpc = "serial" /\ i <= t
  \/ mpc = "queue" /\ i <= t
  \/ Queued(t)

\* Who runs when: the main thread in the serial loop, workers from their launch
\* until they find the queue empty, which it then stays.
Threading ==
  /\ tpc[Main] \in Exec \cup {"idle"}
  /\ mpc # "serial" => tpc[Main] = "idle"
  /\ \A r \in Workers : tpc[r] = "done" => gTestQueue = <<>>
  /\ mpc \notin After \cup {"spawn", "join"} =>
       \A r \in Workers : tpc[r] = "idle"
  /\ mpc \in After => \A r \in Workers : tpc[r] \in {"idle", "done"}
  /\ mpc \in {"spawn", "join"} => numWorkers > 0
  /\ mpc = "spawn" => i <= numWorkers /\ \A r \in Workers : r > i => tpc[r] = "idle"
  /\ mpc = "join" => \A r \in Workers : r > numWorkers => tpc[r] = "idle"
  /\ mpc \notin {"queue", "spawn", "join"} => gTestQueue = <<>>
  /\ mpc \in {"serial", "queue"} => i <= TestNum
  /\ mpc \in Before => i = 0
  /\ mpc = "queue" => numWorkers > 0

\* What a thread holds at each place.
Holding ==
  \A r \in Threads :
    /\ tpc[r] \notin {"queue", "call", "running", "finish", "release"} =>
         opened[r] = {}
    /\ tpc[r] \notin Judged => bump[r] = "none"
    /\ bump[r] = "none" => loaded[r] = 0
    /\ tpc[r] \in Judged => status[r] \in {TEST_PASS, TEST_FAIL, TEST_SKIP}

\* Every test is in one place: queued once, or in the hands of one thread.
Distribution ==
  /\ \A k, l \in 1 .. Len(gTestQueue) : k < l => gTestQueue[k] < gTestQueue[l]
  /\ \A k \in 1 .. Len(gTestQueue) :
       /\ gTestQueue[k] \in selectedTestList
       /\ mpc = "queue" => gTestQueue[k] < i
  /\ \A r \in Threads : tpc[r] \in Exec =>
       testID[r] \in selectedTestList /\ ~Queued(testID[r])
  /\ \A r, s \in Threads : tpc[r] \in Exec /\ tpc[s] \in Exec /\ r # s =>
       testID[r] # testID[s]
  /\ tpc[Main] \in Exec => testID[Main] < i

\* What is known of a test in the hands of a thread.
InHand ==
  \A r \in Threads :
    /\ tpc[r] \in BeforeCall => testID[r] \notin entered \cup wrong
    /\ tpc[r] = "running" => testID[r] \in entered \ wrong
    /\ tpc[r] \in Exec \ {"begin", "store"} => testID[r] \notin TooNew \cup OnlineOnly
    /\ tpc[r] \in Judged =>
         /\ status[r] = TEST_FAIL <=> testID[r] \in wrong
         /\ status[r] = TEST_PASS => testID[r] \in entered

\* What is known of the others: nothing has happened to the ones still to do,
\* and the results of the ones done are right.
Verdicts ==
  ~Down =>
    /\ \A t \in Tests : Todo(t) \/ t \notin selectedTestList =>
         t \notin entered \cup wrong
    /\ entered \cap Skippable = {}
    /\ \A t \in Tests : resultTestList[t] \in {TEST_PASS, TEST_FAIL, TEST_SKIP}
    /\ \A t \in Tests : resultTestList[t] = TEST_FAIL => t \in wrong
    /\ \A t \in Tests :
         \/ Todo(t) \/ t \notin selectedTestList
         \/ \E r \in Threads : tpc[r] \in Exec /\ testID[r] = t
         \/ /\ t \in wrong => resultTestList[t] = TEST_FAIL
            /\ resultTestList[t] = TEST_PASS => t \in entered

\* A failure that r has still to count.
Owes(r) == bump[r] \in {"gFailCount", "gTestsFailed"}

\* A failure is counted, or about to be; and nothing else is.
Counted ==
  ~Down => (wrong # {} <=> counter["gTestsFailed"] > 0 \/ \E r \in Threads : Owes(r))

\* What the command line selects.
Selected ==
  \/ selectedTestList = Tests
     /\ (argv = <<>> \/ \E k \in DOMAIN argv : argv[k].kind = "all")
  \/ /\ selectedTestList = UNION {argv[k].matches : k \in DOMAIN argv}
     /\ \A k \in DOMAIN argv : argv[k].matches # {}
     /\ \A k, l \in DOMAIN argv :
          k # l => argv[k].matches \cap argv[l].matches = {}
     /\ selectedTestList \cap Missing = {}

Selecting ==
  /\ mpc \in {"setup", "check"} => selectedTestList = {} /\ argi = 1
  /\ mpc = "select" =>
       /\ argi <= Len(argv) + 1
       /\ selectedTestList = UNION {argv[k].matches : k \in 1 .. argi - 1}
       /\ \A k \in 1 .. argi - 1 : argv[k].matches # {}
       /\ \A k, l \in 1 .. argi - 1 :
            k # l => argv[k].matches \cap argv[l].matches = {}
       /\ selectedTestList \cap Missing = {}
  /\ mpc \notin {"setup", "check", "select"} /\ ~Down => Selected

\* What the process leaves behind.
Outcome ==
  /\ Ran => mpc \in {"save", "exit"}
  /\ mpc = "save" => Ran
  /\ saved # "none" => mpc = "exit"
  /\ SummaryIsRight /\ ResultsFileIsRight /\ ExitCodeIsRight

\* The inductive invariant of TestHarnessProofs.
HInv ==
  /\ TypeOK /\ Threading /\ Holding /\ Distribution /\ InHand /\ Verdicts
  /\ Counted /\ Selecting /\ Outcome
=============================================================================
