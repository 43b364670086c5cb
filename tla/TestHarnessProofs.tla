-------------------------- MODULE TestHarnessProofs --------------------------
(***************************************************************************)
(* Theorems about TestHarness, for any number of tests and workers and any *)
(* command line.                                                           *)
(***************************************************************************)
EXTENDS TestHarnessInv, TLAPS

\* The groups of variables that UNCHANGED names.
USE DEF main, outcome, locals, HarnessAssumption

-----------------------------------------------------------------------------
LEMMA TypeInit == Init => TypeOK
  BY HarnessAssumption
  DEF Init, TypeOK, SuiteTypes, SharedTypes, ThreadTypes, Tests, test_status,
      Counters, TEST_PASS

LEMMA TypeMain ==
  ASSUME TypeOK, MainStep
  PROVE  TypeOK'
<1> USE HarnessAssumption
<1> USE DEF TypeOK
<1>1. CASE \E result \in {"fails", "list", "works"} : Setup(result)
  BY <1>1 DEF Setup, Exit, SuiteTypes, SharedTypes, ThreadTypes
<1>2. CASE \E s \in test_status : DeviceCheck(s)
  <2>1. SuiteTypes' /\ ThreadTypes'
    BY <1>2 DEF DeviceCheck, SuiteTypes, ThreadTypes
  <2>2. SharedTypes'
    BY <1>2 DEF DeviceCheck, SharedTypes, test_status
  <2> QED
    BY <2>1, <2>2
<1>3. CASE Select
  <2>1. argi \in 1 .. Len(argv) => argv[argi] \in Argument
    BY DEF SuiteTypes
  <2>2. argi \in 1 .. Len(argv) => argv[argi].matches \subseteq Tests
    BY <2>1 DEF Argument
  <2>3. argi \in Nat \ {0} /\ Len(argv) \in Nat
    BY DEF SuiteTypes
  <2>4. SuiteTypes'
    BY <1>3, <2>2, <2>3 DEF Select, Exit, SuiteTypes
  <2> QED
    BY <1>3, <2>4 DEF Select, SharedTypes, ThreadTypes
<1>4. CASE Start \/ Join \/ PrintResults
  BY <1>4 DEF Start, Join, PrintResults, SuiteTypes, SharedTypes, ThreadTypes
<1>5. CASE SerialNext
  <2>1. i \in selectedTestList => i \in Tests
    BY DEF SuiteTypes
  <2>2. ThreadTypes'
    BY <1>5, <2>1 DEF SerialNext, ThreadTypes
  <2> QED
    BY <1>5, <2>2 DEF SerialNext, SuiteTypes, SharedTypes
<1>6. CASE Enqueue
  <2>1. i \in selectedTestList => i \in Tests
    BY DEF SuiteTypes
  <2>2. i \in Tests => Append(gTestQueue, i) \in Seq(Tests)
    BY DEF SharedTypes
  <2>3. gTestQueue' \in Seq(Tests)
    BY <1>6, <2>1, <2>2 DEF Enqueue, SharedTypes
  <2> QED
    BY <1>6, <2>3 DEF Enqueue, SuiteTypes, SharedTypes, ThreadTypes
<1>7. CASE Spawn
  <2>1. ThreadTypes'
    BY <1>7 DEF Spawn, ThreadTypes
  <2> QED
    BY <1>7, <2>1 DEF Spawn, SuiteTypes, SharedTypes
<1>8. CASE \E result \in {"none", "open_fails", "close_fails", "ok"} :
             SaveResults(result)
  BY <1>8 DEF SaveResults, Exit, SuiteTypes, SharedTypes, ThreadTypes
<1> QED
  BY <1>1, <1>2, <1>3, <1>4, <1>5, <1>6, <1>7, <1>8 DEF MainStep

LEMMA TypeThread ==
  ASSUME TypeOK, NEW r \in Threads, ThreadStep(r)
  PROVE  TypeOK'
<1> USE DEF TypeOK, Goto, Bump, Blame
<1>0. SuiteTypes'
  BY DEF ThreadStep, Take, Begin, Create, Call, Return, Load, Store, Finish,
         Release, StoreResult, SuiteTypes
<1>1. CASE Take(r)
  <2>1. gTestQueue # <<>> => Head(gTestQueue) \in Tests /\ Tail(gTestQueue) \in Seq(Tests)
    BY DEF SharedTypes
  <2> QED
    BY <1>0, <1>1, <2>1 DEF Take, SharedTypes, ThreadTypes
<1>2. CASE Begin(r)
  BY <1>0, <1>2 DEF Begin, SharedTypes, ThreadTypes, test_status
<1>3. CASE Call(r)
  <2>1. SharedTypes'
    BY <1>3 DEF Call, SharedTypes, ThreadTypes
  <2> QED
    BY <1>0, <1>3, <2>1 DEF Call, ThreadTypes, test_status
<1>4. CASE \E works \in BOOLEAN : Create(r, works)
  <2>1. SharedTypes'
    BY <1>4 DEF Create, SharedTypes, ThreadTypes
  <2> QED
    BY <1>0, <1>4, <2>1 DEF Create, ThreadTypes, test_status, Counters
<1>5. CASE \E ret \in Returns : Return(r, ret)
  <2>1. SharedTypes'
    BY <1>5 DEF Return, SharedTypes, ThreadTypes
  <2> QED
    BY <1>0, <1>5, <2>1 DEF Return, ThreadTypes, test_status, Counters
<1>6. CASE Load(r)
  <2>1. bump[r] \in Counters
    BY <1>6 DEF Load, ThreadTypes
  <2> QED
    BY <1>0, <1>6, <2>1 DEF Load, SharedTypes, ThreadTypes
<1>7. CASE Store(r)
  <2>1. SharedTypes'
    BY <1>7 DEF Store, SharedTypes, ThreadTypes
  <2> QED
    BY <1>0, <1>7, <2>1 DEF Store, ThreadTypes, Counters
<1>8. CASE \E works \in BOOLEAN : Finish(r, works)
  <2>1. SharedTypes'
    BY <1>8 DEF Finish, SharedTypes, ThreadTypes
  <2> QED
    BY <1>0, <1>8, <2>1 DEF Finish, ThreadTypes, test_status, Counters
<1>9. CASE Release(r)
  BY <1>0, <1>9 DEF Release, SharedTypes, ThreadTypes
<1>10. CASE StoreResult(r)
  BY <1>0, <1>10 DEF StoreResult, SharedTypes, ThreadTypes
<1> QED
  BY <1>1, <1>2, <1>3, <1>4, <1>5, <1>6, <1>7, <1>8, <1>9, <1>10 DEF ThreadStep

LEMMA TypeNext == TypeOK /\ [Next]_vars => TypeOK'
<1> SUFFICES ASSUME TypeOK, [Next]_vars PROVE TypeOK'
  OBVIOUS
<1>1. CASE UNCHANGED vars
  BY <1>1 DEF vars, TypeOK, SuiteTypes, SharedTypes, ThreadTypes
<1> QED
  BY <1>1, TypeMain, TypeThread DEF Next, Exited

\* Every variable of the harness keeps its type: in particular each result is a
\* test_status and each counter a natural number.
THEOREM TypeCorrect == Spec => []TypeOK
  BY TypeInit, TypeNext, PTL DEF Spec

-----------------------------------------------------------------------------
LEMMA ThreadingMain ==
  ASSUME TypeOK, Threading, MainStep
  PROVE  Threading'
<1> USE HarnessAssumption
<1> USE DEF TypeOK, SuiteTypes, Threading, Before, After
<1>1. CASE \E result \in {"fails", "list", "works"} : Setup(result)
  BY <1>1 DEF Setup, Exit
<1>2. CASE \E s \in test_status : DeviceCheck(s)
  BY <1>2 DEF DeviceCheck
<1>3. CASE Select
  BY <1>3 DEF Select, Exit
<1>4. CASE Start
  BY <1>4 DEF Start
<1>5. CASE SerialNext
  <2>1. \A r \in Workers : tpc'[r] = tpc[r]
    BY <1>5 DEF SerialNext, ThreadTypes, Threads
  <2>2. /\ tpc'[Main] \in Exec \cup {"idle"}
        /\ mpc' # "serial" => tpc'[Main] = "idle"
    BY <1>5 DEF SerialNext, ThreadTypes, Threads, Exec
  <2>3. /\ mpc = "serial" /\ mpc' \in {"serial", "print"}
        /\ mpc' = "serial" => i' <= TestNum
        /\ gTestQueue' = gTestQueue
    BY <1>5 DEF SerialNext
  <2> QED
    BY <2>1, <2>2, <2>3
<1>6. CASE Enqueue
  BY <1>6 DEF Enqueue
<1>7. CASE Spawn
  <2>1. CASE i = numWorkers
    BY <1>7, <2>1 DEF Spawn
  <2>2. CASE i # numWorkers
    <3>1. tpc' = [tpc EXCEPT ![i + 1] = "take"] /\ i + 1 # Main
      BY <1>7, <2>2 DEF Spawn, Workers
    <3>2. tpc'[Main] = tpc[Main]
      BY <3>1 DEF ThreadTypes, Threads
    <3>3. \A r \in Workers : r # i + 1 => tpc'[r] = tpc[r]
      BY <3>1 DEF ThreadTypes, Threads
    <3>4. i + 1 \in Workers /\ tpc'[i + 1] = "take"
      BY <1>7, <2>2, <3>1 DEF Spawn, ThreadTypes, Threads, Workers
    <3>5. /\ mpc = "spawn" /\ mpc' = "spawn" /\ i' = i + 1 /\ i' <= numWorkers
          /\ numWorkers' = numWorkers /\ gTestQueue' = gTestQueue
      BY <1>7, <2>2 DEF Spawn
    <3> QED
      BY <3>2, <3>3, <3>4, <3>5 DEF Workers
  <2> QED
    BY <2>1, <2>2
<1>8. CASE Join
  <2>1. 1 \in 1 .. numWorkers /\ 1 \in Workers
    BY <1>8 DEF Join, Workers
  <2>2. gTestQueue = <<>>
    BY <1>8, <2>1 DEF Join
  <2>3. \A r \in Workers : tpc[r] \in {"idle", "done"}
    BY <1>8 DEF Join, Workers
  <2> QED
    BY <1>8, <2>2, <2>3 DEF Join
<1>9. CASE PrintResults
  BY <1>9 DEF PrintResults
<1>10. CASE \E result \in {"none", "open_fails", "close_fails", "ok"} :
             SaveResults(result)
  BY <1>10 DEF SaveResults, Exit
<1> QED
  BY <1>1, <1>2, <1>3, <1>4, <1>5, <1>6, <1>7, <1>8, <1>9, <1>10 DEF MainStep

\* What a step of r does to the program counters and to the queue.
LEMMA ThreadMoves ==
  ASSUME TypeOK, NEW r \in Threads, ThreadStep(r)
  PROVE  /\ tpc' = [tpc EXCEPT ![r] = tpc'[r]]
         /\ tpc[r] \in Exec \cup {"take"}
         /\ tpc'[r] \in Exec \cup {"take", "done", "idle"}
         /\ tpc'[r] = "done" => gTestQueue = <<>>
         /\ tpc'[r] = "idle" => r = Main
         /\ tpc[r] \in Exec => tpc'[r] \in Exec \cup {IF r = Main THEN "idle" ELSE "take"}
         /\ gTestQueue' = gTestQueue
              \/ (tpc[r] = "take" /\ gTestQueue # <<>> /\ gTestQueue' = Tail(gTestQueue))
         /\ UNCHANGED <<main, outcome, i>>
<1> USE DEF TypeOK, ThreadTypes, Goto, Bump, Exec
<1>1. CASE Take(r)
  BY <1>1 DEF Take
<1>2. CASE Begin(r)
  BY <1>2 DEF Begin
<1>3. CASE Call(r)
  BY <1>3 DEF Call
<1>4. CASE \E works \in BOOLEAN : Create(r, works)
  BY <1>4 DEF Create
<1>5. CASE \E ret \in Returns : Return(r, ret)
  BY <1>5 DEF Return
<1>6. CASE Load(r)
  BY <1>6 DEF Load
<1>7. CASE Store(r)
  BY <1>7 DEF Store
<1>8. CASE \E works \in BOOLEAN : Finish(r, works)
  BY <1>8 DEF Finish
<1>9. CASE Release(r)
  BY <1>9 DEF Release
<1>10. CASE StoreResult(r)
  BY <1>10 DEF StoreResult
<1> QED
  BY <1>1, <1>2, <1>3, <1>4, <1>5, <1>6, <1>7, <1>8, <1>9, <1>10 DEF ThreadStep

LEMMA ThreadingThread ==
  ASSUME TypeOK, Threading, NEW r \in Threads, ThreadStep(r)
  PROVE  Threading'
<1> USE HarnessAssumption
<1>1. /\ tpc' = [tpc EXCEPT ![r] = tpc'[r]]
      /\ tpc[r] \in Exec \cup {"take"}
      /\ tpc'[r] \in Exec \cup {"take", "done", "idle"}
      /\ tpc'[r] = "done" => gTestQueue = <<>>
      /\ tpc'[r] = "idle" => r = Main
      /\ tpc[r] \in Exec =>
           tpc'[r] \in Exec \cup {IF r = Main THEN "idle" ELSE "take"}
      /\ gTestQueue = <<>> => gTestQueue' = <<>>
      /\ UNCHANGED <<main, outcome, i>>
  BY ThreadMoves
<1>2. \A s \in Threads : s # r => tpc'[s] = tpc[s]
  BY <1>1 DEF TypeOK, ThreadTypes
<1>3. CASE r = Main
  <2>1. mpc = "serial" /\ tpc[Main] \in Exec
    BY <1>1, <1>3 DEF Threading, Exec
  <2>2. tpc'[Main] \in Exec \cup {"idle"}
    BY <1>1, <1>3, <2>1
  <2>3. \A s \in Workers : tpc'[s] = "idle"
    BY <1>2, <1>3, <2>1 DEF Threading, After, Threads
  <2> QED
    BY <1>1, <1>3, <2>1, <2>2, <2>3 DEF Threading, After, Before, Exec
<1>4. CASE r # Main
  <2>1. r \in Workers /\ mpc \in {"spawn", "join"}
    BY <1>1, <1>4 DEF Threading, Threads, Exec, After, TypeOK, SuiteTypes
  <2>2. tpc'[Main] = tpc[Main]
    BY <1>2, <1>4 DEF Threads
  <2>3. tpc'[r] # "idle" /\ tpc[r] # "idle"
    BY <1>1, <1>4 DEF Exec
  <2>4. \A s \in Workers : tpc'[s] = "done" => gTestQueue' = <<>>
    BY <1>1, <1>2 DEF Threading, Threads
  <2>5. \A s \in Workers : tpc'[s] = "idle" <=> tpc[s] = "idle"
    BY <1>2, <2>3 DEF Threads
  <2> QED
    BY <1>1, <2>1, <2>2, <2>4, <2>5 DEF Threading, After, Before
<1> QED
  BY <1>3, <1>4

-----------------------------------------------------------------------------
\* What a step of the main thread does to the threads.
LEMMA MainMoves ==
  ASSUME TypeOK, Threading, MainStep
  PROVE  /\ UNCHANGED <<opened, bump, loaded, status, entered, wrong, counter>>
         /\ \A r \in Threads :
              \/ tpc'[r] = tpc[r] /\ testID'[r] = testID[r]
              \/ /\ SerialNext /\ r = Main /\ i \in selectedTestList
                 /\ tpc[r] = "idle" /\ tpc'[r] = "begin" /\ testID'[r] = i
              \/ Spawn /\ tpc[r] = "idle" /\ tpc'[r] = "take"
<1> USE HarnessAssumption
<1>1. UNCHANGED <<opened, bump, loaded, status, entered, wrong, counter>>
  BY DEF MainStep, Setup, DeviceCheck, Select, Start, SerialNext, Enqueue,
         Spawn, Join, PrintResults, SaveResults
<1>2. CASE SerialNext
  BY <1>1, <1>2 DEF SerialNext, TypeOK, ThreadTypes, Threads
<1>3. CASE Spawn
  <2>1. CASE i = numWorkers
    BY <1>1, <1>3, <2>1 DEF Spawn
  <2>2. CASE i # numWorkers
    <3>1. i + 1 \in Workers /\ tpc[i + 1] = "idle"
      BY <1>3, <2>2 DEF Spawn, Threading, TypeOK, SuiteTypes, Workers
    <3>2. tpc' = [tpc EXCEPT ![i + 1] = "take"] /\ testID' = testID
      BY <1>3, <2>2 DEF Spawn
    <3> QED
      BY <1>1, <1>3, <3>1, <3>2 DEF TypeOK, ThreadTypes, Threads
  <2> QED
    BY <2>1, <2>2
<1>4. CASE ~SerialNext /\ ~Spawn
  BY <1>1, <1>4 DEF MainStep, Setup, DeviceCheck, Select, Start, Enqueue, Join,
                    PrintResults, SaveResults
<1> QED
  BY <1>2, <1>3, <1>4

LEMMA HoldingMain ==
  ASSUME TypeOK, Threading, Holding, MainStep
  PROVE  Holding'
  BY MainMoves DEF Holding, Judged

LEMMA HoldingThread ==
  ASSUME TypeOK, Holding, NEW r \in Threads, ThreadStep(r)
  PROVE  Holding'
<1> USE DEF TypeOK, ThreadTypes, Goto, Bump, Holding, Judged
<1>1. CASE Take(r)
  BY <1>1 DEF Take
<1>2. CASE Begin(r)
  BY <1>2 DEF Begin
<1>3. CASE Call(r)
  BY <1>3 DEF Call
<1>4. CASE \E works \in BOOLEAN : Create(r, works)
  BY <1>4 DEF Create
<1>5. CASE \E ret \in Returns : Return(r, ret)
  BY <1>5 DEF Return
<1>6. CASE Load(r)
  BY <1>6 DEF Load
<1>7. CASE Store(r)
  BY <1>7 DEF Store
<1>8. CASE \E works \in BOOLEAN : Finish(r, works)
  BY <1>8 DEF Finish
<1>9. CASE Release(r)
  BY <1>9 DEF Release
<1>10. CASE StoreResult(r)
  BY <1>10 DEF StoreResult
<1> QED
  BY <1>1, <1>2, <1>3, <1>4, <1>5, <1>6, <1>7, <1>8, <1>9, <1>10 DEF ThreadStep

-----------------------------------------------------------------------------
\* Nobody has a test, and the queue is empty.
NoTests == gTestQueue = <<>> /\ \A r \in Threads : tpc[r] \notin Exec

LEMMA NoTestsDistributed == NoTests => Distribution
<1>1. Len(<<>>) = 0
  OBVIOUS
<1> QED
  BY <1>1, HarnessAssumption DEF NoTests, Distribution, Threads

\* Outside of its loops the main thread is alone.
LEMMA MainAlone ==
  ASSUME TypeOK, Threading, mpc \notin {"serial", "queue", "spawn", "join"}
  PROVE  NoTests
  BY HarnessAssumption
  DEF NoTests, TypeOK, SuiteTypes, Threading, Threads, Exec, After, Before

LEMMA DistributionMain ==
  ASSUME TypeOK, Threading, Distribution, MainStep, Threading', TypeOK'
  PROVE  Distribution'
<1> USE HarnessAssumption
<1>1. CASE SerialNext
  <2>1. gTestQueue = <<>> /\ gTestQueue' = <<>> /\ Len(gTestQueue') = 0
    BY <1>1 DEF SerialNext, Threading
  <2>2. \A r \in Workers : tpc'[r] \notin Exec
    BY <1>1 DEF SerialNext, Threading, Exec, After
  <2>3. tpc'[Main] \in Exec => /\ testID'[Main] = i /\ i \in selectedTestList
                               /\ i' = i + 1
    BY <1>1 DEF SerialNext, TypeOK, ThreadTypes, Threads, Exec
  <2>4. selectedTestList' = selectedTestList /\ i \in Nat
    BY <1>1 DEF SerialNext, TypeOK, SuiteTypes
  <2> QED
    BY <2>1, <2>2, <2>3, <2>4 DEF Distribution, Threads, Queued
<1>2. CASE Enqueue
  <2>1. \A r \in Threads : tpc'[r] \notin Exec
    BY <1>2 DEF Enqueue, Threading, Threads, Exec, After
  <2>2. gTestQueue \in Seq(Tests) /\ i \in Nat /\ \A t \in Tests : t \in Nat
    BY DEF TypeOK, SharedTypes, SuiteTypes, Tests
  <2>5. Len(gTestQueue) \in Nat /\ \A k \in 1 .. Len(gTestQueue) : gTestQueue[k] \in Nat
    <3>1. \A k \in 1 .. Len(gTestQueue) : gTestQueue[k] \in Tests
      BY <2>2
    <3> QED
      BY <2>2, <3>1
  <2>3. CASE gTestQueue' = gTestQueue
    <3>1. /\ mpc = "queue" /\ selectedTestList' = selectedTestList
          /\ mpc' = "queue" => i' = i + 1
      BY <1>2, <2>3 DEF Enqueue
    <3>2. \A k \in 1 .. Len(gTestQueue) : mpc' = "queue" => gTestQueue[k] < i'
      BY <2>2, <2>5, <3>1 DEF Distribution
    <3> QED
      BY <2>1, <2>3, <3>1, <3>2 DEF Distribution, Threads
  <2>4. CASE gTestQueue' # gTestQueue
    <3>1. /\ gTestQueue' = Append(gTestQueue, i) /\ i \in selectedTestList
          /\ i \in Tests /\ i' = i + 1 /\ mpc = "queue"
          /\ UNCHANGED <<mpc, selectedTestList>>
      BY <1>2, <2>4 DEF Enqueue, TypeOK, SuiteTypes
    <3>2. /\ Len(gTestQueue') = Len(gTestQueue) + 1
          /\ gTestQueue'[Len(gTestQueue) + 1] = i
          /\ \A k \in 1 .. Len(gTestQueue) : gTestQueue'[k] = gTestQueue[k]
          /\ Len(gTestQueue) \in Nat
      BY <2>2, <3>1
    <3>3. \A k \in 1 .. Len(gTestQueue) : gTestQueue[k] < i /\ gTestQueue[k] \in Nat
      BY <2>5, <3>1 DEF Distribution
    <3>4. \A k, l \in 1 .. Len(gTestQueue') : k < l => gTestQueue'[k] < gTestQueue'[l]
      <4> SUFFICES ASSUME NEW k \in 1 .. Len(gTestQueue'),
                          NEW l \in 1 .. Len(gTestQueue'), k < l
                   PROVE  gTestQueue'[k] < gTestQueue'[l]
        OBVIOUS
      <4>1. k \in 1 .. Len(gTestQueue) /\ gTestQueue'[k] = gTestQueue[k]
        BY <3>2
      <4>2. CASE l \in 1 .. Len(gTestQueue)
        BY <3>2, <4>1, <4>2 DEF Distribution
      <4>3. CASE l = Len(gTestQueue) + 1
        BY <3>2, <3>3, <4>1, <4>3
      <4> QED
        BY <3>2, <4>2, <4>3
    <3>5. \A k \in 1 .. Len(gTestQueue') :
            gTestQueue'[k] \in selectedTestList /\ gTestQueue'[k] < i'
      BY <2>2, <3>1, <3>2, <3>3 DEF Distribution
    <3> QED
      BY <2>1, <3>1, <3>4, <3>5 DEF Distribution, Threads
  <2> QED
    BY <2>3, <2>4
<1>3. CASE Spawn \/ Join
  <2>1. UNCHANGED <<gTestQueue, selectedTestList, testID>>
    BY <1>3 DEF Spawn, Join
  <2>2. \A r \in Threads : tpc'[r] \in Exec => tpc[r] \in Exec
    BY <1>3, MainMoves DEF Exec, SerialNext, Spawn, Join
  <2>3. tpc'[Main] \notin Exec /\ mpc' # "queue"
    BY <1>3 DEF Threading, Spawn, Join, Exec
  <2> QED
    BY <2>1, <2>2, <2>3 DEF Distribution, Queued
<1>4. CASE ~(SerialNext \/ Enqueue \/ Spawn \/ Join)
  <2>1. UNCHANGED <<gTestQueue, tpc>> /\ mpc \notin {"serial", "queue", "spawn", "join"}
    BY <1>4 DEF MainStep, Setup, DeviceCheck, Select, Start, PrintResults,
                SaveResults
  <2>2. NoTests'
    BY <2>1, MainAlone DEF NoTests
  <2>3. Len(<<>>) = 0
    OBVIOUS
  <2> QED
    BY <2>2, <2>3 DEF NoTests, Distribution, Threads
<1> QED
  BY <1>1, <1>2, <1>3, <1>4

LEMMA DistributionThread ==
  ASSUME TypeOK, Threading, Distribution, NEW r \in Threads, ThreadStep(r),
         TypeOK'
  PROVE  Distribution'
<1> USE HarnessAssumption
<1>1. CASE Take(r) /\ gTestQueue # <<>>
  <2>1. /\ mpc \in {"spawn", "join"} /\ r \in Workers
        /\ UNCHANGED <<mpc, i, selectedTestList>>
    BY <1>1 DEF Take, Threading, Threads, Exec, After, TypeOK, SuiteTypes
  <2>2. /\ gTestQueue \in Seq(Tests) /\ \A t \in Tests : t \in Nat
    BY DEF TypeOK, SharedTypes, Tests
  <2>3. \A k \in 1 .. Len(gTestQueue) : gTestQueue[k] \in Nat
    <3>1. \A k \in 1 .. Len(gTestQueue) : gTestQueue[k] \in Tests
      BY <2>2
    <3> QED
      BY <2>2, <3>1
  <2>4. /\ gTestQueue' = Tail(gTestQueue) /\ testID'[r] = gTestQueue[1]
        /\ tpc'[r] = "begin" /\ tpc[r] = "take"
        /\ \A s \in Threads \ {r} : tpc'[s] = tpc[s] /\ testID'[s] = testID[s]
    BY <1>1 DEF Take, Goto, TypeOK, ThreadTypes
  <2>5. /\ Len(gTestQueue') = Len(gTestQueue) - 1 /\ Len(gTestQueue) \in Nat \ {0}
        /\ \A k \in 1 .. Len(gTestQueue') :
             gTestQueue'[k] = gTestQueue[k + 1] /\ k + 1 \in 1 .. Len(gTestQueue)
    BY <1>1, <2>2, <2>4
  <2>6. \A k, l \in 1 .. Len(gTestQueue') : k < l => gTestQueue'[k] < gTestQueue'[l]
    BY <2>5 DEF Distribution
  <2>7. \A k \in 1 .. Len(gTestQueue') : gTestQueue'[k] \in selectedTestList
    BY <2>5 DEF Distribution
  <2>8. Queued(gTestQueue[1]) /\ gTestQueue[1] \in selectedTestList
    BY <2>5 DEF Queued, Distribution
  <2>9. \A s \in Threads \ {r} : tpc'[s] \in Exec =>
          /\ testID'[s] \in selectedTestList /\ testID'[s] # gTestQueue[1]
          /\ \A k \in 1 .. Len(gTestQueue') : gTestQueue'[k] # testID'[s]
    BY <2>4, <2>5, <2>8 DEF Distribution, Queued
  <2>10. \A k \in 1 .. Len(gTestQueue') : gTestQueue'[k] # gTestQueue[1]
    <3> SUFFICES ASSUME NEW k \in 1 .. Len(gTestQueue')
                 PROVE  gTestQueue[1] < gTestQueue'[k]
      BY <2>3, <2>5
    <3>1. 1 \in 1 .. Len(gTestQueue) /\ 1 < k + 1
      BY <2>5
    <3> QED
      BY <2>5, <3>1 DEF Distribution
  <2>11. \A s \in Threads : tpc'[s] \in Exec =>
          /\ testID'[s] \in selectedTestList'
          /\ \A k \in 1 .. Len(gTestQueue') : gTestQueue'[k] # testID'[s]
    BY <2>1, <2>4, <2>8, <2>9, <2>10
  <2>12. \A s, u \in Threads : tpc'[s] \in Exec /\ tpc'[u] \in Exec /\ s # u =>
           testID'[s] # testID'[u]
    BY <2>4, <2>9 DEF Distribution
  <2>13. tpc'[Main] \notin Exec
    BY <2>1, <2>4 DEF Threading, Threads, Exec
  <2> QED
    BY <2>1, <2>6, <2>7, <2>11, <2>12, <2>13 DEF Distribution, Queued
<1>2. CASE ~(Take(r) /\ gTestQueue # <<>>)
  <2>1. UNCHANGED <<testID, gTestQueue, selectedTestList, mpc, i>>
    BY <1>2 DEF ThreadStep, Take, Begin, Create, Call, Return, Load, Store,
                Finish, Release, StoreResult
  <2>2. \A s \in Threads : tpc'[s] \in Exec => tpc[s] \in Exec
    <3>1. tpc[r] = "take" => tpc'[r] = "done"
      BY <1>2 DEF ThreadStep, Take, Begin, Create, Call, Return, Load, Store,
                  Finish, Release, StoreResult, Goto, TypeOK, ThreadTypes
    <3>2. /\ tpc' = [tpc EXCEPT ![r] = tpc'[r]]
          /\ tpc[r] \in Exec \cup {"take"}
      BY ThreadMoves
    <3> QED
      BY <3>1, <3>2 DEF TypeOK, ThreadTypes, Exec
  <2> QED
    BY <2>1, <2>2 DEF Distribution, Queued, Threads
<1> QED
  BY <1>1, <1>2

-----------------------------------------------------------------------------
\* What a step of thread r leaves alone.
LEMMA ThreadFrame ==
  ASSUME TypeOK, NEW r \in Threads, ThreadStep(r)
  PROVE  /\ UNCHANGED <<main, outcome, i>>
         /\ \A s \in Threads \ {r} :
              UNCHANGED <<tpc[s], testID[s], status[s], bump[s], loaded[s]>>
         /\ entered \subseteq entered' /\ entered' \subseteq entered \cup {testID[r]}
         /\ wrong \subseteq wrong' /\ wrong' \subseteq wrong \cup {testID[r]}
         /\ testID'[r] = testID[r] \/ Take(r)
         /\ Take(r) => UNCHANGED <<entered, wrong, status>>
<1> USE DEF TypeOK, ThreadTypes, Goto, Bump, Blame
<1>1. CASE Take(r)
  BY <1>1 DEF Take
<1>2. CASE Begin(r)
  BY <1>2 DEF Begin, Take
<1>3. CASE \E works \in BOOLEAN : Create(r, works)
  BY <1>3 DEF Create, Take
<1>4. CASE Call(r)
  BY <1>4 DEF Call, Take
<1>5. CASE \E ret \in Returns : Return(r, ret)
  BY <1>5 DEF Return, Take
<1>6. CASE Load(r)
  BY <1>6 DEF Load, Take
<1>7. CASE Store(r)
  BY <1>7 DEF Store, Take
<1>8. CASE \E works \in BOOLEAN : Finish(r, works)
  BY <1>8 DEF Finish, Take
<1>9. CASE Release(r)
  BY <1>9 DEF Release, Take
<1>10. CASE StoreResult(r)
  BY <1>10 DEF StoreResult, Take
<1> QED
  BY <1>1, <1>2, <1>3, <1>4, <1>5, <1>6, <1>7, <1>8, <1>9, <1>10 DEF ThreadStep

LEMMA InHandMain ==
  ASSUME TypeOK, Threading, InHand, Verdicts, MainStep
  PROVE  InHand'
<1>1. UNCHANGED <<status, entered, wrong>>
  BY MainMoves
<1> SUFFICES ASSUME NEW r \in Threads
             PROVE  /\ tpc'[r] \in BeforeCall => testID'[r] \notin entered \cup wrong
                    /\ tpc'[r] = "running" => testID'[r] \in entered \ wrong
                    /\ tpc'[r] \in Exec \ {"begin", "store"} =>
                         testID'[r] \notin TooNew \cup OnlineOnly
                    /\ tpc'[r] \in Judged =>
                         /\ status[r] = TEST_FAIL <=> testID'[r] \in wrong
                         /\ status[r] = TEST_PASS => testID'[r] \in entered
  BY <1>1 DEF InHand
<1>2. CASE tpc'[r] = tpc[r] /\ testID'[r] = testID[r]
  BY <1>2 DEF InHand
<1>3. CASE /\ SerialNext /\ r = Main /\ i \in selectedTestList
           /\ tpc[r] = "idle" /\ tpc'[r] = "begin" /\ testID'[r] = i
  <2>1. mpc = "serial" /\ i \in Tests /\ i <= i
    BY <1>3 DEF SerialNext, TypeOK, SuiteTypes
  <2>2. i \notin entered \cup wrong
    BY <2>1 DEF Verdicts, Down, Todo
  <2> QED
    BY <1>3, <2>2 DEF BeforeCall, Judged
<1>4. CASE tpc[r] = "idle" /\ tpc'[r] = "take"
  BY <1>4 DEF BeforeCall, Judged, Exec
<1> QED
  BY <1>2, <1>3, <1>4, MainMoves

\* Only a worker takes tests from the queue, and it takes one that is still to do.
LEMMA TakesTodo ==
  ASSUME TypeOK, Threading, Distribution, NEW r \in Threads, Take(r),
         gTestQueue # <<>>
  PROVE  /\ mpc \in {"spawn", "join"} /\ ~Down
         /\ Head(gTestQueue) \in selectedTestList /\ Queued(Head(gTestQueue))
         /\ testID'[r] = Head(gTestQueue) /\ tpc'[r] = "begin"
<1>1. mpc \in {"spawn", "join"}
  BY DEF Take, Threading, Threads, Exec, After, TypeOK, SuiteTypes
<1>2. gTestQueue \in Seq(Tests) /\ Len(gTestQueue) \in Nat \ {0}
      /\ Head(gTestQueue) = gTestQueue[1]
  BY DEF TypeOK, SharedTypes
<1>3. 1 \in 1 .. Len(gTestQueue)
  BY <1>2
<1> QED
  BY <1>1, <1>2, <1>3 DEF Take, Goto, Down, Queued, Distribution, TypeOK,
                          ThreadTypes

LEMMA InHandThread ==
  ASSUME TypeOK, Threading, Holding, Distribution, InHand, Verdicts,
         NEW r \in Threads, ThreadStep(r)
  PROVE  InHand'
<1> DEFINE Fine(s, at, t, st, en, wr) ==
             /\ at \in BeforeCall => t \notin en \cup wr
             /\ at = "running" => t \in en \ wr
             /\ at \in Exec \ {"begin", "store"} => t \notin TooNew \cup OnlineOnly
             /\ at \in Judged => /\ st = TEST_FAIL <=> t \in wr
                                 /\ st = TEST_PASS => t \in en
<1>1. ASSUME NEW s \in Threads, s # r
      PROVE  Fine(s, tpc'[s], testID'[s], status'[s], entered', wrong')
  <2>1. UNCHANGED <<tpc[s], testID[s], status[s]>>
    BY <1>1, ThreadFrame
  <2>2. tpc[r] \in Exec \/ UNCHANGED <<entered, wrong>>
    BY ThreadMoves, ThreadFrame DEF ThreadStep, Take, Begin, Create, Call,
       Return, Load, Store, Finish, Release, StoreResult, Exec
  <2>3. tpc[s] \in Exec => (testID[s] \in entered' <=> testID[s] \in entered)
                        /\ (testID[s] \in wrong' <=> testID[s] \in wrong)
    BY <1>1, <2>2, ThreadFrame DEF Distribution
  <2> QED
    BY <2>1, <2>3 DEF InHand, Exec, Judged, BeforeCall
<1>2. Fine(r, tpc'[r], testID'[r], status'[r], entered', wrong')
  <2> USE DEF TypeOK, ThreadTypes, Goto, Bump, Blame, Exec, Judged, BeforeCall,
              TEST_PASS, TEST_FAIL, TEST_SKIP, TEST_SKIPPED_ITSELF
  <2>1. CASE Take(r)
    <3>1. CASE gTestQueue = <<>>
      BY <2>1, <3>1 DEF Take
    <3>2. CASE gTestQueue # <<>>
      <4>1. testID'[r] \in Tests /\ Todo(testID'[r]) /\ ~Down /\ tpc'[r] = "begin"
        BY <2>1, <3>2, TakesTodo DEF Todo, SuiteTypes
      <4>2. testID'[r] \notin entered \cup wrong
        BY <4>1 DEF Verdicts
      <4> QED
        BY <2>1, <4>1, <4>2, ThreadFrame
    <3> QED
      BY <3>1, <3>2
  <2>2. CASE Begin(r)
    BY <2>2 DEF Begin, InHand
  <2>3. CASE \E works \in BOOLEAN : Create(r, works)
    BY <2>3 DEF Create, InHand
  <2>4. CASE Call(r)
    BY <2>4 DEF Call, InHand
  <2>5. CASE \E ret \in Returns : Return(r, ret)
    BY <2>5 DEF Return, InHand, Returns
  <2>6. CASE Load(r)
    BY <2>6 DEF Load, InHand
  <2>7. CASE Store(r)
    BY <2>7 DEF Store, InHand
  <2>8. CASE \E works \in BOOLEAN : Finish(r, works)
    BY <2>8 DEF Finish, InHand
  <2>9. CASE Release(r)
    BY <2>9 DEF Release, InHand
  <2>10. CASE StoreResult(r)
    BY <2>10 DEF StoreResult
  <2> QED
    BY <2>1, <2>2, <2>3, <2>4, <2>5, <2>6, <2>7, <2>8, <2>9, <2>10 DEF ThreadStep
<1> QED
  BY <1>1, <1>2 DEF InHand

-----------------------------------------------------------------------------
\* The steps of the main thread before the tests.
LEMMA VerdictsBefore ==
  ASSUME TypeOK, Threading, Verdicts, Outcome, MainStep, mpc \in Before
  PROVE  Verdicts'
<1> SUFFICES ASSUME ~Down' PROVE Verdicts'
  BY DEF Verdicts
<1>1. ~Down
  BY DEF Down, Before
<1>2. UNCHANGED <<entered, wrong>>
  BY MainMoves
<1>3. \A t \in Tests : t \notin entered \cup wrong
  BY <1>1 DEF Verdicts, Todo
<1>4. UNCHANGED resultTestList
  BY DEF MainStep, Setup, DeviceCheck, Select, Start, SerialNext, Enqueue,
         Spawn, Join, PrintResults, SaveResults, Before, Down
<1>5. \/ mpc' \in Before \/ mpc' = "exit"
      \/ mpc' \in {"serial", "queue"} /\ i' = 0
  BY DEF MainStep, Setup, DeviceCheck, Select, Start, SerialNext, Enqueue,
         Spawn, Join, PrintResults, SaveResults, Before, Down, Threading, Exit
<1>6. mpc' # "exit"
  <2>1. ~Ran
    BY DEF Outcome, Before
  <2>2. mpc' = "exit" => ~Ran'
    BY <2>1 DEF MainStep, Setup, DeviceCheck, Select, Start, SerialNext,
                Enqueue, Spawn, Join, PrintResults, SaveResults, Before, Exit,
                Ran
  <2> QED
    BY <2>2 DEF Down
<1>7. \A t \in Tests : Todo(t)'
  BY <1>5, <1>6, HarnessAssumption DEF Todo, Tests
<1> QED
  BY <1>1, <1>2, <1>3, <1>4, <1>7 DEF Verdicts

\* The other steps of the main thread move tests, one at a time.
LEMMA MovesTests ==
  ASSUME TypeOK, Threading, Distribution, Outcome, MainStep, mpc \notin Before,
         ~Down'
  PROVE  /\ ~Down
         /\ UNCHANGED <<resultTestList, selectedTestList>>
         /\ \A t \in Tests : t \in selectedTestList /\ Todo(t)' => Todo(t)
         /\ \A t \in Tests : t \in selectedTestList /\ Todo(t) =>
              \/ Todo(t)'
              \/ \E r \in Threads : tpc'[r] \in Exec /\ testID'[r] = t
<1> USE HarnessAssumption
<1>1. ~Down /\ UNCHANGED <<resultTestList, selectedTestList>>
  BY DEF MainStep, Setup, DeviceCheck, Select, Start, SerialNext, Enqueue, Spawn,
         Join, PrintResults, SaveResults, Before, Down, Exit, Ran, Outcome
<1>2. \A t \in Tests : t \in Nat /\ t < TestNum
  BY DEF Tests
<1>3. i \in Nat /\ gTestQueue \in Seq(Tests)
  BY DEF TypeOK, SuiteTypes, SharedTypes
<1>4. CASE SerialNext
  <2>1. mpc = "serial" /\ mpc' \in {"serial", "print"} /\ UNCHANGED gTestQueue
    BY <1>4 DEF SerialNext
  <2>2. CASE i = TestNum
    <3>1. mpc' = "print" /\ UNCHANGED <<tpc, testID>>
      BY <1>4, <2>2 DEF SerialNext
    <3> QED
      BY <1>1, <1>2, <1>3, <2>1, <2>2, <3>1 DEF Todo, Before, Queued
  <2>3. CASE i # TestNum
    <3>1. mpc' = "serial" /\ i' = i + 1
      BY <1>4, <2>3 DEF SerialNext
    <3>2. i \in selectedTestList => tpc'[Main] = "begin" /\ testID'[Main] = i
      BY <1>4, <2>3 DEF SerialNext, TypeOK, ThreadTypes, Threads
    <3>3. \A t \in Tests : t \in selectedTestList /\ Todo(t)' => Todo(t)
      BY <1>2, <1>3, <2>1, <3>1 DEF Todo, Before, Queued
    <3>4. \A t \in Tests : t \in selectedTestList /\ Todo(t) => Todo(t)' \/ t = i
      BY <1>2, <1>3, <2>1, <3>1 DEF Todo, Before, Queued
    <3> QED
      BY <1>1, <3>2, <3>3, <3>4 DEF Threads, Exec
  <2> QED
    BY <2>2, <2>3
<1>5. CASE Enqueue
  <2>1. mpc = "queue" /\ mpc' \in {"queue", "spawn"}
    BY <1>5 DEF Enqueue
  <2>2. CASE i = TestNum
    <3>1. mpc' = "spawn" /\ UNCHANGED gTestQueue
      BY <1>5, <2>2 DEF Enqueue
    <3> QED
      BY <1>1, <1>2, <1>3, <2>1, <2>2, <3>1 DEF Todo, Before, Queued
  <2>3. CASE i # TestNum /\ i \notin selectedTestList
    <3>1. mpc' = "queue" /\ i' = i + 1 /\ UNCHANGED gTestQueue
      BY <1>5, <2>3 DEF Enqueue
    <3> QED
      BY <1>1, <1>2, <1>3, <2>1, <2>3, <3>1 DEF Todo, Before, Queued
  <2>4. CASE i # TestNum /\ i \in selectedTestList
    <3>1. /\ mpc' = "queue" /\ i' = i + 1
          /\ gTestQueue' = Append(gTestQueue, i) /\ i \in Tests
      BY <1>5, <2>4 DEF Enqueue, TypeOK, SuiteTypes
    <3>2. /\ Len(gTestQueue') = Len(gTestQueue) + 1 /\ Len(gTestQueue) \in Nat
          /\ gTestQueue'[Len(gTestQueue) + 1] = i
          /\ \A k \in 1 .. Len(gTestQueue) : gTestQueue'[k] = gTestQueue[k]
      BY <1>3, <3>1
    <3>3. \A t : Queued(t)' <=> Queued(t) \/ t = i
      <4>1. \A k : k \in 1 .. Len(gTestQueue') <=>
                     k \in 1 .. Len(gTestQueue) \/ k = Len(gTestQueue) + 1
        BY <3>2
      <4> QED
        BY <3>2, <4>1 DEF Queued
    <3>4. \A t \in Tests : i <= t <=> i + 1 <= t \/ t = i
      BY <1>2, <1>3
    <3> QED
      BY <1>1, <2>1, <3>1, <3>3, <3>4 DEF Todo, Before
  <2> QED
    BY <2>2, <2>3, <2>4
<1>6. CASE ~SerialNext /\ ~Enqueue
  <2>1. /\ UNCHANGED gTestQueue
        /\ mpc \notin {"serial", "queue"} /\ mpc' \notin Before \cup {"serial", "queue"}
    BY <1>6 DEF MainStep, Setup, DeviceCheck, Select, Start, Spawn, Join,
                PrintResults, SaveResults, Before, Exit
  <2> QED
    BY <1>1, <2>1 DEF Todo, Before, Queued
<1> QED
  BY <1>4, <1>5, <1>6

LEMMA VerdictsMain ==
  ASSUME TypeOK, Threading, Distribution, Verdicts, Outcome, MainStep
  PROVE  Verdicts'
<1>1. CASE mpc \in Before
  BY <1>1, VerdictsBefore
<1>2. CASE mpc \notin Before /\ ~Down'
  <2>1. UNCHANGED <<entered, wrong>>
    BY MainMoves
  <2>2. \A r \in Threads : tpc[r] \in Exec =>
          tpc'[r] \in Exec /\ testID'[r] = testID[r]
    BY MainMoves DEF Exec
  <2> QED
    BY <1>2, <2>1, <2>2, MovesTests DEF Verdicts
<1> QED
  BY <1>1, <1>2 DEF Verdicts

\* A test in the hands of a thread is not one of those still to do.
LEMMA InHandNotTodo ==
  ASSUME TypeOK, Threading, Distribution, NEW r \in Threads, tpc[r] \in Exec
  PROVE  testID[r] \in selectedTestList /\ ~Todo(testID[r]) /\ testID[r] \in Tests
<1> USE HarnessAssumption
<1>1. testID[r] \in selectedTestList /\ ~Queued(testID[r]) /\ testID[r] \in Tests
  BY DEF Distribution, TypeOK, ThreadTypes
<1>2. mpc \notin Before \cup {"queue"}
  BY DEF Threading, Threads, Exec, Before, After
<1>3. mpc = "serial" => r = Main
  BY DEF Threading, Threads, Exec, After
<1>4. mpc = "serial" => testID[r] < i
  BY <1>3 DEF Distribution
<1>5. testID[r] \in Nat /\ i \in Nat
  BY <1>1 DEF Tests, TypeOK, SuiteTypes
<1> QED
  BY <1>1, <1>2, <1>4, <1>5 DEF Todo

\* A step of a thread moves no other test than the one it takes.
LEMMA TakesTests ==
  ASSUME TypeOK, Threading, Distribution, NEW r \in Threads, ThreadStep(r)
  PROVE  /\ \A t \in Tests : Todo(t)' => Todo(t)
         /\ \A t \in Tests : Todo(t) => Todo(t)' \/ (tpc'[r] \in Exec /\ testID'[r] = t)
<1>1. UNCHANGED <<mpc, i>>
  BY ThreadFrame
<1>2. CASE Take(r) /\ gTestQueue # <<>>
  <2>1. gTestQueue \in Seq(Tests) /\ gTestQueue' = Tail(gTestQueue)
    BY <1>2 DEF Take, TypeOK, SharedTypes
  <2>2. /\ Len(gTestQueue) \in Nat \ {0} /\ Len(gTestQueue') = Len(gTestQueue) - 1
        /\ Head(gTestQueue) = gTestQueue[1]
        /\ \A k \in 1 .. Len(gTestQueue') : gTestQueue'[k] = gTestQueue[k + 1]
    BY <1>2, <2>1
  <2>3. \A k \in 1 .. Len(gTestQueue') : k + 1 \in 1 .. Len(gTestQueue)
    BY <2>2
  <2>4. \A k \in 1 .. Len(gTestQueue) :
          k = 1 \/ (k - 1 \in 1 .. Len(gTestQueue') /\ (k - 1) + 1 = k)
    BY <2>2
  <2>5. \A t : Queued(t)' => Queued(t)
    BY <2>2, <2>3 DEF Queued
  <2>6. \A t : Queued(t) => Queued(t)' \/ t = Head(gTestQueue)
    <3> SUFFICES ASSUME NEW t, NEW k \in 1 .. Len(gTestQueue), gTestQueue[k] = t,
                        k # 1
                 PROVE  \E l \in 1 .. Len(gTestQueue') : gTestQueue'[l] = t
      BY <2>2 DEF Queued
    <3>1. k - 1 \in 1 .. Len(gTestQueue') /\ gTestQueue'[k - 1] = gTestQueue[k]
      BY <2>2, <2>4
    <3> QED
      BY <3>1
  <2> QED
    BY <1>1, <1>2, <2>5, <2>6, TakesTodo DEF Todo, Exec
<1>3. CASE ~(Take(r) /\ gTestQueue # <<>>)
  <2>1. UNCHANGED gTestQueue
    BY <1>3 DEF ThreadStep, Take, Begin, Create, Call, Return, Load, Store,
                Finish, Release, StoreResult
  <2> QED
    BY <1>1, <2>1 DEF Todo, Queued
<1> QED
  BY <1>2, <1>3

LEMMA VerdictsThread ==
  ASSUME TypeOK, Threading, Holding, Distribution, InHand, Verdicts,
         NEW r \in Threads, ThreadStep(r)
  PROVE  Verdicts'
<1> USE DEF TypeOK, SharedTypes, ThreadTypes
<1>1. UNCHANGED <<Down, selectedTestList>>
  BY ThreadFrame DEF Down, Ran
<1> SUFFICES ASSUME ~Down PROVE Verdicts'
  BY <1>1 DEF Verdicts
<1>2. \/ tpc[r] \in Exec
      \/ Take(r) /\ UNCHANGED <<entered, wrong, resultTestList>> /\ tpc[r] = "take"
  BY ThreadMoves, ThreadFrame DEF ThreadStep, Take, Begin, Create, Call,
     Return, Load, Store, Finish, Release, StoreResult, Exec
<1>3. \A t \in Tests : (Todo(t) \/ t \notin selectedTestList)' =>
        t \notin entered' \cup wrong'
  <2> SUFFICES ASSUME NEW t \in Tests, Todo(t) \/ t \notin selectedTestList
               PROVE  t \notin entered' \cup wrong'
    BY <1>1, TakesTests
  <2>1. t \notin entered \cup wrong
    BY DEF Verdicts
  <2>2. CASE tpc[r] \in Exec
    BY <2>1, <2>2, InHandNotTodo, ThreadFrame
  <2>3. CASE UNCHANGED <<entered, wrong>>
    BY <2>1, <2>3
  <2> QED
    BY <1>2, <2>2, <2>3
<1>4. entered' \cap Skippable = {}
  <2>1. CASE Call(r)
    <3>1. testID[r] \notin TooNew \cup OnlineOnly
      BY <2>1 DEF Call, InHand, Exec
    <3>2. entered' = entered \/ (entered' = entered \cup {testID[r]} /\ testID[r] \notin Missing)
      BY <2>1 DEF Call
    <3>3. entered \cap Skippable = {}
      BY DEF Verdicts
    <3> QED
      BY <3>1, <3>2, <3>3 DEF Skippable
  <2>2. CASE ~Call(r)
    <3>1. UNCHANGED entered
      BY <2>2 DEF ThreadStep, Take, Begin, Create, Return, Load, Store, Finish,
                  Release, StoreResult
    <3> QED
      BY <3>1 DEF Verdicts
  <2> QED
    BY <2>1, <2>2
<1>5. \/ UNCHANGED resultTestList
      \/ /\ tpc[r] \in Judged /\ StoreResult(r)
         /\ resultTestList' = [resultTestList EXCEPT ![testID[r]] = status[r]]
         /\ UNCHANGED <<entered, wrong>>
  BY DEF ThreadStep, Take, Begin, Create, Call, Return, Load, Store, Finish,
         Release, StoreResult, Judged
<1>6. \A t \in Tests : resultTestList'[t] \in {TEST_PASS, TEST_FAIL, TEST_SKIP}
  BY <1>5 DEF Verdicts, Holding
<1>7. \A t \in Tests : resultTestList'[t] = TEST_FAIL => t \in wrong'
  <2>1. wrong \subseteq wrong'
    BY ThreadFrame
  <2> QED
    BY <1>5, <2>1 DEF Verdicts, InHand
<1>8. ASSUME NEW t \in Tests, ~Todo(t)', t \in selectedTestList,
             ~ \E s \in Threads : tpc'[s] \in Exec /\ testID'[s] = t
      PROVE  /\ t \in wrong' => resultTestList'[t] = TEST_FAIL
             /\ resultTestList'[t] = TEST_PASS => t \in entered'
  <2>1. ~Todo(t)
    BY <1>8, TakesTests
  <2>2. CASE tpc[r] \in Exec /\ testID[r] = t
    <3>1. tpc'[r] \notin Exec
      BY <1>8, <2>2, ThreadFrame DEF Take, Exec
    <3>2. StoreResult(r)
      BY <2>2, <3>1 DEF ThreadStep, Take, Begin, Create, Call, Return, Load,
                        Store, Finish, Release, Goto, Bump, Exec
    <3>3. resultTestList'[t] = status[r] /\ UNCHANGED <<entered, wrong>>
          /\ tpc[r] \in Judged
      BY <2>2, <3>2 DEF StoreResult, Judged
    <3> QED
      BY <2>2, <3>3 DEF InHand
  <2>3. CASE ~(tpc[r] \in Exec /\ testID[r] = t)
    <3>1. ~ \E s \in Threads : tpc[s] \in Exec /\ testID[s] = t
      BY <1>8, <2>3, ThreadFrame
    <3>2. /\ t \in wrong => resultTestList[t] = TEST_FAIL
          /\ resultTestList[t] = TEST_PASS => t \in entered
      BY <1>8, <2>1, <3>1 DEF Verdicts
    <3>3. tpc[r] \in Exec => testID[r] # t
      BY <2>3
    <3>4. (t \in wrong' <=> t \in wrong) /\ (t \in entered' <=> t \in entered)
      BY <1>2, <3>3, ThreadFrame
    <3>5. resultTestList'[t] = resultTestList[t]
      BY <1>5, <3>3 DEF Judged, Exec
    <3> QED
      BY <3>2, <3>4, <3>5
  <2> QED
    BY <2>2, <2>3
<1> QED
  BY <1>1, <1>3, <1>4, <1>6, <1>7, <1>8 DEF Verdicts

-----------------------------------------------------------------------------
\* A suite that came up stays up.
LEMMA StaysUp ==
  ASSUME TypeOK, Threading, Distribution, Outcome, MainStep, ~Down'
  PROVE  ~Down
<1>1. CASE mpc \in Before
  BY <1>1 DEF Down, Before
<1>2. CASE mpc \notin Before
  BY <1>2, MovesTests
<1> QED
  BY <1>1, <1>2

LEMMA CountedMain ==
  ASSUME TypeOK, Threading, Distribution, Counted, Outcome, MainStep
  PROVE  Counted'
  BY StaysUp, MainMoves DEF Counted, Owes

LEMMA CountedThread ==
  ASSUME TypeOK, Holding, Counted, NEW r \in Threads, ThreadStep(r)
  PROVE  Counted'
<1> USE DEF TypeOK, SharedTypes, ThreadTypes, Goto, Bump, Blame, Owes
<1>1. UNCHANGED Down
  BY ThreadFrame DEF Down, Ran
<1> SUFFICES ASSUME ~Down
             PROVE  wrong' # {} <=> counter'["gTestsFailed"] > 0
                                    \/ \E s \in Threads : Owes(s)'
  BY <1>1 DEF Counted
<1>2. wrong # {} <=> counter["gTestsFailed"] > 0 \/ \E s \in Threads : Owes(s)
  BY DEF Counted
<1>3. CASE Take(r) \/ Begin(r) \/ Call(r) \/ Load(r) \/ Release(r) \/ StoreResult(r)
  BY <1>2, <1>3 DEF Take, Begin, Call, Load, Release, StoreResult
<1>4. CASE wrong' # {} /\ Owes(r)'
  BY <1>4
<1>5. ASSUME UNCHANGED <<wrong, counter>>, ~Owes(r), ~Owes(r)',
             bump' = [bump EXCEPT ![r] = bump'[r]]
      PROVE  wrong' # {} <=> counter'["gTestsFailed"] > 0
                                    \/ \E s \in Threads : Owes(s)'
  BY <1>2, <1>5
<1>6. CASE \E works \in BOOLEAN : Create(r, works)
  <2>1. UNCHANGED <<wrong, counter, bump>> \/ (wrong' # {} /\ Owes(r)')
    BY <1>6 DEF Create
  <2> QED
    BY <1>2, <1>4, <2>1
<1>7. CASE \E works \in BOOLEAN : Finish(r, works)
  <2>1. UNCHANGED <<wrong, counter, bump>> \/ (wrong' # {} /\ Owes(r)')
    BY <1>7 DEF Finish
  <2> QED
    BY <1>2, <1>4, <2>1
<1>8. CASE \E ret \in Returns : Return(r, ret)
  <2>1. bump[r] = "none"
    BY <1>8 DEF Return, Holding, Judged
  <2>2. \/ wrong' # {} /\ Owes(r)'
        \/ /\ UNCHANGED <<wrong, counter>> /\ bump'[r] \in {"none", "gTestsPassed"}
           /\ bump' = [bump EXCEPT ![r] = bump'[r]]
    BY <1>8 DEF Return, TEST_PASS, TEST_FAIL, TEST_SKIP, TEST_SKIPPED_ITSELF,
                Returns
  <2> QED
    BY <1>4, <1>5, <2>1, <2>2
<1>9. CASE Store(r)
  <2>1. bump[r] \in Counters /\ loaded[r] > 0 /\ UNCHANGED wrong
    BY <1>9 DEF Store, Holding
  <2>2. CASE bump[r] = "gFailCount"
    BY <1>2, <1>9, <2>1, <2>2 DEF Store, Counters
  <2>3. CASE bump[r] = "gTestsPassed"
    BY <1>2, <1>9, <2>1, <2>3 DEF Store, Counters
  <2>4. CASE bump[r] = "gTestsFailed"
    <3>1. counter'["gTestsFailed"] > 0
      BY <1>9, <2>1, <2>4 DEF Store, Counters
    <3> QED
      BY <1>2, <2>1, <2>4, <3>1
  <2> QED
    BY <2>1, <2>2, <2>3, <2>4 DEF Counters
<1> QED
  BY <1>3, <1>6, <1>7, <1>8, <1>9 DEF ThreadStep

-----------------------------------------------------------------------------
\* The arguments up to argi - 1 stay disjoint when argi joins them.
LEMMA SelectOne ==
  ASSUME TypeOK, Selecting, Select, mpc' = "select"
  PROVE  /\ argi' = argi + 1 /\ argi \in 1 .. Len(argv) /\ UNCHANGED argv
         /\ selectedTestList' = selectedTestList \cup argv[argi].matches
         /\ argv[argi].matches # {} /\ argv[argi].matches \cap selectedTestList = {}
         /\ argv[argi].matches \cap Missing = {}
<1>1. argi \in Nat \ {0} /\ Len(argv) \in Nat
  BY HarnessAssumption DEF TypeOK, SuiteTypes
<1> QED
  BY <1>1 DEF Select, Refused, Exit

LEMMA SelectingSelect ==
  ASSUME TypeOK, Selecting, Outcome, Select
  PROVE  Selecting'
<1>1. argi \in Nat \ {0} /\ Len(argv) \in Nat /\ argv \in Seq(Argument)
  BY HarnessAssumption DEF TypeOK, SuiteTypes
<1>2. mpc = "select" /\ UNCHANGED <<argv, summary>> /\ mpc' \in {"select", "start", "exit"}
  BY DEF Select, Exit
<1>3. /\ argi <= Len(argv) + 1
      /\ selectedTestList = UNION {argv[k].matches : k \in 1 .. argi - 1}
      /\ \A k \in 1 .. argi - 1 : argv[k].matches # {}
      /\ \A k, l \in 1 .. argi - 1 : k # l => argv[k].matches \cap argv[l].matches = {}
      /\ selectedTestList \cap Missing = {}
  BY <1>2 DEF Selecting
<1>4. CASE mpc' = "select"
  <2>1. /\ argi' = argi + 1 /\ argi \in 1 .. Len(argv)
        /\ selectedTestList' = selectedTestList \cup argv[argi].matches
        /\ argv[argi].matches # {} /\ argv[argi].matches \cap selectedTestList = {}
        /\ argv[argi].matches \cap Missing = {}
    BY <1>4, SelectOne
  <2>2. \A k : k \in 1 .. argi' - 1 <=> k \in 1 .. argi - 1 \/ k = argi
    BY <1>1, <2>1
  <2>3. selectedTestList' = UNION {argv[k].matches : k \in 1 .. argi' - 1}
    BY <1>3, <2>1, <2>2
  <2>4. \A k \in 1 .. argi - 1 : argv[k].matches \subseteq selectedTestList
    BY <1>3
  <2>5. \A k, l \in 1 .. argi' - 1 :
          k # l => argv[k].matches \cap argv[l].matches = {}
    BY <1>3, <2>1, <2>2, <2>4
  <2>6. argi' <= Len(argv) + 1 /\ selectedTestList' \cap Missing = {}
    BY <1>1, <1>3, <2>1
  <2>7. \A k \in 1 .. argi' - 1 : argv'[k].matches # {}
    BY <1>2, <1>3, <2>1, <2>2
  <2> QED
    BY <1>2, <1>4, <2>3, <2>5, <2>6, <2>7 DEF Selecting
<1>5. CASE mpc' = "start" /\ selectedTestList' = Tests
           /\ (Len(argv) = 0 \/ (argi <= Len(argv) /\ argv[argi].kind = "all"))
  <2>1. argv = <<>> \/ \E k \in DOMAIN argv : argv[k].kind = "all"
    <3>1. CASE Len(argv) = 0
      BY <1>1, <3>1
    <3>2. CASE argi <= Len(argv) /\ argv[argi].kind = "all"
      <4>1. argi \in DOMAIN argv
        BY <1>1, <3>2
      <4> QED
        BY <3>2, <4>1
    <3> QED
      BY <1>5, <3>1, <3>2
  <2> QED
    BY <1>2, <1>5, <2>1 DEF Selecting, Selected
<1>6. CASE mpc' = "start" /\ argi > Len(argv) /\ UNCHANGED selectedTestList
  <2>1. argi - 1 = Len(argv) /\ DOMAIN argv = 1 .. argi - 1
    BY <1>1, <1>3, <1>6
  <2> QED
    BY <1>2, <1>3, <1>6, <2>1 DEF Selecting, Selected
<1>7. CASE mpc' = "exit"
  <2>1. ~Ran'
    BY <1>2 DEF Outcome, Ran
  <2> QED
    BY <1>7, <2>1 DEF Selecting, Down
<1> QED
  BY <1>2, <1>4, <1>5, <1>6, <1>7 DEF Select, Exit

LEMMA SelectingMain ==
  ASSUME TypeOK, Threading, Distribution, Selecting, Outcome, MainStep
  PROVE  Selecting'
<1>1. CASE Select
  BY <1>1, SelectingSelect
<1>2. CASE \E result \in {"fails", "list", "works"} : Setup(result)
  <2>1. mpc = "setup" /\ UNCHANGED <<selectedTestList, argi>>
        /\ mpc' \in {"check", "exit"}
    BY <1>2 DEF Setup, Exit
  <2>2. ~Ran'
    BY <1>2, <2>1 DEF Setup, Outcome, Ran
  <2> QED
    BY <2>1, <2>2 DEF Selecting, Down
<1>3. CASE \E s \in test_status : DeviceCheck(s)
  <2>1. mpc = "check" /\ UNCHANGED <<argi, argv>> /\ selectedTestList = {} /\ argi = 1
    BY <1>3 DEF DeviceCheck, Selecting
  <2>2. CASE mpc' = "init_save"
    BY <2>2 DEF Selecting, Down
  <2>3. CASE mpc' = "select" /\ UNCHANGED selectedTestList
    <3>1. Len(argv) \in Nat
      BY HarnessAssumption DEF TypeOK, SuiteTypes
    <3>2. 1 .. argi' - 1 = {}
      BY <2>1
    <3> QED
      BY <2>1, <2>3, <3>1, <3>2 DEF Selecting
  <2> QED
    BY <1>3, <2>2, <2>3 DEF DeviceCheck
<1>4. CASE ~(mpc \in {"setup", "check", "select"})
  <2>1. UNCHANGED <<argv, selectedTestList>> /\ mpc' \notin {"setup", "check", "select"}
    BY <1>4 DEF MainStep, Setup, DeviceCheck, Select, Start, SerialNext, Enqueue,
                Spawn, Join, PrintResults, SaveResults, Exit
  <2> QED
    BY <1>4, <2>1, StaysUp DEF Selecting, Selected
<1> QED
  BY <1>1, <1>2, <1>3, <1>4 DEF MainStep, Start, SerialNext, Enqueue, Spawn,
                                Join, PrintResults, SaveResults

LEMMA SelectingThread ==
  ASSUME TypeOK, Selecting, NEW r \in Threads, ThreadStep(r)
  PROVE  Selecting'
<1>1. UNCHANGED <<mpc, argv, argi, selectedTestList, summary>>
  BY ThreadFrame
<1> QED
  BY <1>1 DEF Selecting, Selected, Down, Ran

-----------------------------------------------------------------------------
\* What SaveResults finds after the tests: every verdict has been stored.
LEMMA AllJudged ==
  ASSUME TypeOK, Threading, Verdicts, mpc \in {"print", "save"}
  PROVE  /\ wrong \subseteq selectedTestList
         /\ entered \cap Skippable = {}
         /\ \A t \in Tests :
              /\ resultTestList[t] \in {TEST_PASS, TEST_FAIL, TEST_SKIP}
              /\ resultTestList[t] = TEST_FAIL <=> t \in wrong
         /\ \A t \in selectedTestList : resultTestList[t] = TEST_PASS => t \in entered
<1>1. NoTests /\ ~Down
  BY MainAlone DEF Down
<1>2. wrong \subseteq Tests /\ selectedTestList \subseteq Tests
  BY DEF TypeOK, SharedTypes, SuiteTypes
<1>3. Len(<<>>) = 0 /\ 1 .. 0 = {}
  OBVIOUS
<1>4. \A t \in Tests : ~Todo(t)
  BY <1>1, <1>3 DEF Todo, Before, Queued, NoTests
<1>5. \A t \in Tests : t \notin selectedTestList => t \notin wrong
  BY <1>1 DEF Verdicts
<1>6. \A t \in selectedTestList : /\ t \in wrong => resultTestList[t] = TEST_FAIL
                                  /\ resultTestList[t] = TEST_PASS => t \in entered
  BY <1>1, <1>2, <1>4 DEF Verdicts, NoTests
<1> QED
  BY <1>1, <1>2, <1>5, <1>6 DEF Verdicts

LEMMA OutcomeSave ==
  ASSUME TypeOK, Threading, Verdicts, Outcome, mpc = "save",
         NEW result \in {"none", "open_fails", "close_fails", "ok"},
         SaveResults(result)
  PROVE  ResultsFileIsRight' /\ ExitCodeIsRight'
<1> USE DEF TEST_PASS, TEST_FAIL, TEST_SKIP, TEST_SKIPPED_ITSELF, EXIT_SUCCESS,
            EXIT_FAILURE
<1>1. /\ UNCHANGED <<selectedTestList, resultTestList, entered, wrong, summary>>
      /\ saved' = result /\ mpc' = "exit"
      /\ result = "ok" => json' = [t \in selectedTestList |-> ResultMap(resultTestList[t])]
  BY DEF SaveResults, Exit
<1>2. selectedTestList \subseteq Tests /\ wrong \subseteq Tests
  BY DEF TypeOK, SuiteTypes, SharedTypes
<1>3. ResultsFileIsRight'
  <2> SUFFICES ASSUME result = "ok"
               PROVE  /\ DOMAIN json' = selectedTestList
                      /\ \A t \in selectedTestList :
                           /\ json'[t] \in {"pass", "fail", "skip"}
                           /\ json'[t] = "fail" <=> t \in wrong
                           /\ json'[t] = "pass" => t \in entered \ Skippable
    BY <1>1 DEF ResultsFileIsRight, Skippable
  <2>1. \A t \in selectedTestList : json'[t] = ResultMap(resultTestList[t])
    BY <1>1
  <2>2. \A t \in selectedTestList :
          /\ resultTestList[t] \in {TEST_PASS, TEST_FAIL, TEST_SKIP}
          /\ resultTestList[t] = TEST_FAIL <=> t \in wrong
          /\ resultTestList[t] = TEST_PASS => t \in entered \ Skippable
    BY <1>2, AllJudged
  <2> QED
    BY <1>1, <2>1, <2>2 DEF ResultMap
<1>4. ExitCodeIsRight'
  <2>1. (\E t \in Tests : resultTestList[t] \notin {TEST_PASS, TEST_SKIP}) <=> wrong # {}
    BY <1>2, AllJudged
  <2>2. code' = IF result \in {"open_fails", "close_fails"} \/ wrong # {}
                THEN EXIT_FAILURE ELSE EXIT_SUCCESS
    BY <2>1 DEF SaveResults, Exit
  <2> QED
    BY <1>1, <2>2 DEF ExitCodeIsRight
<1> QED
  BY <1>3, <1>4

LEMMA OutcomeMain ==
  ASSUME TypeOK, Threading, Holding, Verdicts, Counted, Outcome, MainStep
  PROVE  Outcome'
<1> USE DEF Outcome, SummaryIsRight, Ran
<1>1. CASE PrintResults
  <2>1. mpc = "print" /\ mpc' = "save" /\ UNCHANGED <<wrong, saved>>
        /\ summary' = IF counter["gTestsFailed"] = 0 THEN "PASSED" ELSE "FAILED"
    BY <1>1 DEF PrintResults
  <2>2. \A r \in Threads : ~Owes(r)
    BY <2>1, MainAlone DEF NoTests, Holding, Judged, Exec, Owes
  <2>3. counter["gTestsFailed"] \in Nat
    BY DEF TypeOK, SharedTypes, Counters
  <2>4. summary' = "FAILED" <=> wrong # {}
    BY <2>1, <2>2, <2>3 DEF Counted, Down
  <2> QED
    BY <2>1, <2>4 DEF ResultsFileIsRight, ExitCodeIsRight
<1>2. ASSUME NEW result \in {"none", "open_fails", "close_fails", "ok"},
             SaveResults(result)
      PROVE  Outcome'
  <2>1. mpc \in {"save", "init_save"} /\ mpc' = "exit" /\ UNCHANGED <<wrong, summary>>
    BY <1>2 DEF SaveResults, Exit
  <2>2. CASE mpc = "save"
    BY <1>2, <2>1, <2>2, OutcomeSave
  <2>3. CASE mpc = "init_save"
    BY <2>1, <2>3 DEF ResultsFileIsRight, ExitCodeIsRight
  <2> QED
    BY <2>1, <2>2, <2>3
<1>3. CASE /\ ~PrintResults
           /\ ~ \E result \in {"none", "open_fails", "close_fails", "ok"} :
                  SaveResults(result)
  <2>1. mpc \notin {"save", "exit"} /\ mpc' # "save" /\ UNCHANGED saved
        /\ summary' \in {summary, "listed"}
    BY <1>3 DEF MainStep, Setup, DeviceCheck, Select, Start, SerialNext, Enqueue,
                Spawn, Join, Exit
  <2>2. ~Ran /\ ~Ran'
    BY <2>1
  <2> QED
    BY <2>1, <2>2 DEF ResultsFileIsRight, ExitCodeIsRight
<1> QED
  BY <1>1, <1>2, <1>3

LEMMA OutcomeThread ==
  ASSUME TypeOK, Threading, Outcome, NEW r \in Threads, ThreadStep(r)
  PROVE  Outcome'
<1>1. UNCHANGED <<mpc, summary, saved>>
  BY ThreadFrame
<1>2. mpc \notin {"save", "exit"}
  BY ThreadMoves, MainAlone DEF NoTests, Exec, Threading, Threads, After
<1>3. ~Ran /\ ~Ran'
  BY <1>1, <1>2 DEF Outcome, Ran
<1> QED
  BY <1>1, <1>2, <1>3 DEF Outcome, SummaryIsRight, ResultsFileIsRight,
                         ExitCodeIsRight

-----------------------------------------------------------------------------
LEMMA HInit == Init => HInv
<1> SUFFICES ASSUME Init PROVE HInv
  OBVIOUS
<1> USE HarnessAssumption
<1>1. TypeOK
  BY TypeInit
<1>2. Threading /\ Holding
  BY DEF Init, Threading, Holding, Exec, Judged, Before, After, Threads
<1>3. Distribution
  BY NoTestsDistributed DEF Init, NoTests, Exec
<1>4. InHand
  BY DEF Init, InHand, BeforeCall, Exec, Judged
<1>5. Verdicts
  BY DEF Init, Verdicts, Todo, Before, Skippable, TEST_PASS, TEST_FAIL, TEST_SKIP
<1>6. Counted
  BY DEF Init, Counted, Owes, Counters
<1>7. Selecting /\ Outcome
  BY DEF Init, Selecting, Outcome, Ran, SummaryIsRight, ResultsFileIsRight,
         ExitCodeIsRight
<1> QED
  BY <1>1, <1>2, <1>3, <1>4, <1>5, <1>6, <1>7 DEF HInv

LEMMA HStutter ==
  ASSUME HInv, UNCHANGED vars
  PROVE  HInv'
<1> USE DEF vars
<1>1. TypeOK' /\ Threading' /\ Holding'
  BY DEF HInv, TypeOK, SuiteTypes, SharedTypes, ThreadTypes, Threading, Holding
<1>2. Distribution' /\ InHand'
  BY DEF HInv, Distribution, Queued, InHand
<1>3. Verdicts' /\ Counted'
  BY DEF HInv, Verdicts, Counted, Todo, Queued, Down, Ran, Owes
<1>4. Selecting' /\ Outcome'
  BY DEF HInv, Selecting, Selected, Outcome, Down, Ran, SummaryIsRight,
         ResultsFileIsRight, ExitCodeIsRight
<1> QED
  BY <1>1, <1>2, <1>3, <1>4 DEF HInv

LEMMA HInvNext == HInv /\ [Next]_vars => HInv'
<1> SUFFICES ASSUME HInv, [Next]_vars PROVE HInv'
  OBVIOUS
<1>1. CASE UNCHANGED vars
  BY <1>1, HStutter
<1>2. CASE MainStep
  <2>1. TypeOK' /\ Threading'
    BY <1>2, TypeMain, ThreadingMain DEF HInv
  <2>2. Holding' /\ Distribution' /\ InHand'
    BY <1>2, <2>1, HoldingMain, DistributionMain, InHandMain DEF HInv
  <2>3. Verdicts' /\ Counted'
    BY <1>2, VerdictsMain, CountedMain DEF HInv
  <2>4. Selecting' /\ Outcome'
    BY <1>2, SelectingMain, OutcomeMain DEF HInv
  <2> QED
    BY <2>1, <2>2, <2>3, <2>4 DEF HInv
<1>3. ASSUME NEW r \in Threads, ThreadStep(r) PROVE HInv'
  <2>1. TypeOK' /\ Threading'
    BY <1>3, TypeThread, ThreadingThread DEF HInv
  <2>2. Holding' /\ Distribution' /\ InHand'
    BY <1>3, <2>1, HoldingThread, DistributionThread, InHandThread DEF HInv
  <2>3. Verdicts' /\ Counted'
    BY <1>3, VerdictsThread, CountedThread DEF HInv
  <2>4. Selecting' /\ Outcome'
    BY <1>3, SelectingThread, OutcomeThread DEF HInv
  <2> QED
    BY <2>1, <2>2, <2>3, <2>4 DEF HInv
<1> QED
  BY <1>1, <1>2, <1>3 DEF Next, Exited

\* HInv holds in every reachable state of the harness, however many tests and
\* workers there are.
THEOREM HInvariant == Spec => []HInv
  BY HInit, HInvNext, PTL DEF Spec

\* Once the summary is printed nothing of a test is left behind: the queue is
\* empty, as the assertion after the joins says, no thread is in a test and
\* every context and queue has been released.
THEOREM NothingIsLeftBehind == Spec => []NothingLeftBehind
<1>1. HInv => NothingLeftBehind
  BY HarnessAssumption
  DEF HInv, NothingLeftBehind, Threading, Holding, Threads, After, Exec
<1> QED
  BY <1>1, HInvariant, PTL

\* The results file of a suite that ran is right about every selected test,
\* whichever worker ran it and in whichever order.
THEOREM ResultsFileCorrect == Spec => []ResultsFileIsRight
<1>1. HInv => ResultsFileIsRight
  BY DEF HInv, Outcome
<1> QED
  BY <1>1, HInvariant, PTL

\* The process exits with success exactly when no test failed and the results
\* file was written.
THEOREM ExitCodeCorrect == Spec => []ExitCodeIsRight
<1>1. HInv => ExitCodeIsRight
  BY DEF HInv, Outcome
<1> QED
  BY <1>1, HInvariant, PTL

\* The lost increments of gTestsFailed never turn the summary into a lie.
THEOREM SummaryCorrect == Spec => []SummaryIsRight
<1>1. HInv => SummaryIsRight
  BY DEF HInv, Outcome
<1> QED
  BY <1>1, HInvariant, PTL

\* A suite that ran did run the tests that the command line names.
THEOREM SelectionCorrect == Spec => []SelectionIsRight
<1>1. HInv => SelectionIsRight
  BY DEF HInv, Outcome, Selecting, Selected, SelectionIsRight, Down
<1> QED
  BY <1>1, HInvariant, PTL

\* No test function is entered twice, and none that is not selected.
THEOREM EachTestRunsOnce == Spec => EachTestOnce
<1>1. HInv /\ [Next]_vars =>
        [\A r \in Threads : tpc[r] = "call" /\ tpc'[r] = "running" =>
           testID[r] \in selectedTestList \ entered]_vars
  <2> SUFFICES ASSUME HInv, NEW r \in Threads, tpc[r] = "call"
               PROVE  testID[r] \in selectedTestList \ entered
    OBVIOUS
  <2> QED
    BY DEF HInv, Distribution, InHand, Exec, BeforeCall
<1> QED
  BY <1>1, HInvariant, PTL DEF Spec, EachTestOnce

=============================================================================
