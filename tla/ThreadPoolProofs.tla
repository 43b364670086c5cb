-------------------------- MODULE ThreadPoolProofs --------------------------
(***************************************************************************)
(* Theorems about ThreadPool, for any number of workers and callers.       *)
(***************************************************************************)
EXTENDS ThreadPoolInv, FiniteSetTheorems, TLAPS

\* The groups of variables that UNCHANGED names.
USE DEF locks, initial, worker, caller, exiting, history, ConstantsAssumption

-----------------------------------------------------------------------------
LEMMA CountIsInt == \A n \in Counts \cup {0} : n \in Int
  BY ConstantsAssumption

LEMMA TypeInit == Init => TypeOK
  BY ConstantsAssumption
  DEF Init, TypeOK, CL_SUCCESS, CallerLabels, InitLabels, DoLabels,
      WorkerLabels, ActiveLabels, CondLabels

LEMMA TypeWorker ==
  ASSUME TypeOK, NEW w \in Workers, WorkerStep(w)
  PROVE  TypeOK'
<1> USE ConstantsAssumption
    DEF TypeOK, CL_SUCCESS, WorkerLabels, ActiveLabels, CondLabels, WGoto
<1>1. CASE WStart(w)
  BY <1>1 DEF WStart
<1>2. CASE WTakeItem(w)
  BY <1>2 DEF WTakeItem, Dispatch
<1>3. CASE WParkLock(w) \/ WSignalLock(w) \/ WWait(w) \/ WWoken(w)
  BY <1>3 DEF WParkLock, WSignalLock, WWait, WWoken
<1>4. CASE WDecRunning(w) \/ WIncRunning(w)
  BY <1>4 DEF WDecRunning, WIncRunning
<1>5. CASE WSignal(w)
  BY <1>5 DEF WSignal, WakeCallers, CallerLabels, InitLabels, DoLabels
<1>6. CASE WTake(w)
  BY <1>6 DEF WTake
<1>7. CASE WParkUnlock(w) \/ WCheckError(w)
  BY <1>7 DEF WParkUnlock, WCheckError
<1>8. CASE WCall(w)
  BY <1>8 DEF WCall
<1>9. CASE \E e \in Errors \cup {CL_SUCCESS} : WReturn(w, e)
  BY <1>9 DEF WReturn
<1>10. CASE WSetError(w)
  BY <1>10 DEF WSetError
<1>11. CASE WDropWork(w) \/ WExit(w)
  BY <1>11 DEF WDropWork, WExit
<1> QED
  BY <1>1, <1>2, <1>3, <1>4, <1>5, <1>6, <1>7, <1>8, <1>9, <1>10, <1>11
  DEF WorkerStep

LEMMA TypeCaller ==
  ASSUME TypeOK, NEW c \in Callers, CallerStep(c)
  PROVE  TypeOK'
<1> USE ConstantsAssumption
    DEF TypeOK, CL_SUCCESS, CallerLabels, InitLabels, DoLabels, CGoto
<1>1. CASE COnce(c)
  BY <1>1 DEF COnce, AfterOnce
<1>2. CASE CCallerLock(c)
  BY <1>2 DEF CCallerLock
<1>3. CASE ISetRunning(c) \/ CWait(c)
  BY <1>3 DEF ISetRunning, CWait
<1>4. CASE ISpawn(c)
  <2>1. wpc' \in [Workers -> WorkerLabels]
    BY <1>4, Zenon DEF ISpawn, WorkerLabels, ActiveLabels
  <2> QED
    BY <1>4, <2>1 DEF ISpawn
<1>5. CASE ITest(c)
  BY <1>5 DEF ITest, AfterOnce
<1>6. CASE GRead(c)
  BY <1>6 DEF GRead
<1>7. CASE CInit(c)
  BY <1>7 DEF CInit
<1>8. CASE CSerialCall(c)
  BY <1>8 DEF CSerialCall
<1>9. CASE \E e \in Errors \cup {CL_SUCCESS} : CSerialReturn(c, e)
  BY <1>9 DEF CSerialReturn
<1>10. CASE CSerialEnd(c) \/ CPoolLock(c) \/ CCondLock(c) \/ CPoolUnlock(c)
  BY <1>10 DEF CSerialEnd, CPoolLock, CCondLock, CPoolUnlock
<1>11. CASE CPrimeError(c) \/ CPrimeCount(c) \/ CPrimeFunc(c)
  <2>1. CASE CPrimeError(c)
    BY <2>1 DEF CPrimeError
  <2>2. CASE CPrimeCount(c)
    <3>1. count[c] \in Counts \cup {0}
      BY Zenon
    <3>2. count[c] \in Int
      BY <3>1, CountIsInt, Zenon
    <3> QED
      BY <2>2, <3>2 DEF CPrimeCount
  <2>3. CASE CPrimeFunc(c)
    BY <2>3 DEF CPrimeFunc
  <2> QED
    BY <1>11, <2>1, <2>2, <2>3
<1>12. CASE CBroadcast(c)
  BY <1>12 DEF CBroadcast, WakeWorkers, WorkerLabels, ActiveLabels, CondLabels
<1>13. CASE CTest(c) \/ CReadError(c)
  BY <1>13 DEF CTest, CReadError
<1>14. CASE CReturned(c)
  BY <1>14 DEF CReturned
<1>15. CASE \E single \in BOOLEAN, cores \in Cores : IConfigure(c, single, cores)
  BY <1>15 DEF IConfigure, ThreadCount, AfterOnce
<1> QED
  BY <1>1, <1>2, <1>3, <1>4, <1>5, <1>6, <1>7, <1>8, <1>9, <1>10, <1>11,
     <1>12, <1>13, <1>14, <1>15
  DEF CallerStep

LEMMA TypeNext == TypeOK /\ [Next]_vars => TypeOK'
<1> SUFFICES ASSUME TypeOK, [Next]_vars PROVE TypeOK'
  OBVIOUS
<1>1. CASE \E n \in SetCounts : SetThreadCount(n)
  BY <1>1, ConstantsAssumption DEF SetThreadCount, TypeOK
<1>2. CASE \E c \in Callers : \/ \E n \in Counts : CCall(c, "do", n)
                              \/ CCall(c, "count", 0)
  BY <1>2 DEF CCall, CGoto, TypeOK, CallerLabels
<1>3. CASE \E c \in Callers : CallerStep(c)
  BY <1>3, TypeCaller
<1>4. CASE \E w \in Workers : WorkerStep(w)
  BY <1>4, TypeWorker
<1>5. CASE XStart \/ ExitStep
  BY <1>5, ConstantsAssumption
  DEF XStart, ExitStep, XBroadcast, XTimeout, XJoin, WakeWorkers, TypeOK,
      WorkerLabels, ActiveLabels, CondLabels
<1>6. CASE Terminated \/ UNCHANGED vars
  BY <1>6 DEF Terminated, vars, TypeOK
<1> QED
  BY <1>1, <1>2, <1>3, <1>4, <1>5, <1>6 DEF Next

\* Every variable keeps its type: counters stay integers, locks are free or
\* owned by a thread, every program counter is at a line of the code.
THEOREM TypeCorrect == Spec => []TypeOK
  BY TypeInit, TypeNext, PTL DEF Spec

-----------------------------------------------------------------------------
(* The mutexes.                                                            *)

LEMMA LocksWorker ==
  ASSUME TypeOK, Locks, NEW w \in Workers, WorkerStep(w)
  PROVE  Locks'
<1> USE ConstantsAssumption
    DEF TypeOK, Locks, WGoto, CondLabels, CondCaller, PoolCaller, DoLabels
<1>1. CASE WStart(w) \/ WTakeItem(w)
  BY <1>1 DEF WStart, WTakeItem, Dispatch
<1>2. CASE WParkLock(w) \/ WWoken(w)
  BY <1>2 DEF WParkLock, WWoken
<1>3. CASE WDecRunning(w) \/ WSignalLock(w) \/ WIncRunning(w)
  BY <1>3 DEF WDecRunning, WSignalLock, WIncRunning
<1>4. CASE WSignal(w)
  BY <1>4 DEF WSignal, WakeCallers
<1>5. CASE WWait(w) \/ WTake(w) \/ WParkUnlock(w)
  BY <1>5 DEF WWait, WTake, WParkUnlock
<1>6. CASE WCheckError(w) \/ WCall(w) \/ WSetError(w) \/ WDropWork(w) \/ WExit(w)
  BY <1>6 DEF WCheckError, WCall, WSetError, WDropWork, WExit
<1>7. CASE \E e \in Errors \cup {CL_SUCCESS} : WReturn(w, e)
  BY <1>7 DEF WReturn
<1> QED
  BY <1>1, <1>2, <1>3, <1>4, <1>5, <1>6, <1>7 DEF WorkerStep

LEMMA LocksCaller ==
  ASSUME TypeOK, Locks, NEW c \in Callers, CallerStep(c)
  PROVE  Locks'
<1> USE ConstantsAssumption
    DEF TypeOK, Locks, CGoto, CondLabels, CondCaller, PoolCaller, DoLabels
<1>1. CASE COnce(c) \/ ITest(c)
  BY <1>1 DEF COnce, ITest, AfterOnce
<1>2. CASE CCallerLock(c) \/ CWait(c) \/ ISetRunning(c)
  BY <1>2 DEF CCallerLock, CWait, ISetRunning
<1>3. CASE ISpawn(c)
  BY <1>3 DEF ISpawn
<1>4. CASE GRead(c) \/ CInit(c) \/ CSerialCall(c) \/ CSerialEnd(c)
  BY <1>4 DEF GRead, CInit, CSerialCall, CSerialEnd
<1>5. CASE \E e \in Errors \cup {CL_SUCCESS} : CSerialReturn(c, e)
  BY <1>5 DEF CSerialReturn
<1>6. CASE CPoolLock(c) \/ CCondLock(c)
  BY <1>6 DEF CPoolLock, CCondLock
<1>7. CASE CPrimeError(c) \/ CPrimeCount(c) \/ CPrimeFunc(c)
  BY <1>7 DEF CPrimeError, CPrimeCount, CPrimeFunc
<1>8. CASE CBroadcast(c)
  BY <1>8 DEF CBroadcast, WakeWorkers
<1>9. CASE CTest(c) \/ CReadError(c) \/ CPoolUnlock(c) \/ CReturned(c)
  BY <1>9 DEF CTest, CReadError, CPoolUnlock, CReturned
<1>10. CASE \E single \in BOOLEAN, cores \in Cores : IConfigure(c, single, cores)
  BY <1>10 DEF IConfigure, AfterOnce
<1> QED
  BY <1>1, <1>2, <1>3, <1>4, <1>5, <1>6, <1>7, <1>8, <1>9, <1>10
  DEF CallerStep

LEMMA LocksNext == TypeOK /\ Locks /\ [Next]_vars => Locks'
<1> SUFFICES ASSUME TypeOK, Locks, [Next]_vars PROVE Locks'
  OBVIOUS
<1>1. CASE \E c \in Callers : CallerStep(c)
  BY <1>1, LocksCaller
<1>2. CASE \E w \in Workers : WorkerStep(w)
  BY <1>2, LocksWorker
<1> USE DEF TypeOK, Locks, CondLabels, CondCaller, PoolCaller, DoLabels
<1>3. CASE \E n \in SetCounts : SetThreadCount(n)
  BY <1>3 DEF SetThreadCount
<1>4. CASE \E c \in Callers : \/ \E n \in Counts : CCall(c, "do", n)
                              \/ CCall(c, "count", 0)
  BY <1>4 DEF CCall, CGoto
<1>5. CASE XStart \/ ExitStep
  BY <1>5 DEF XStart, ExitStep, XBroadcast, XTimeout, XJoin, WakeWorkers
<1>6. CASE Terminated \/ UNCHANGED vars
  BY <1>6 DEF Terminated, vars
<1> QED
  BY <1>1, <1>2, <1>3, <1>4, <1>5, <1>6 DEF Next

-----------------------------------------------------------------------------
(* The phases of the pool.                                                 *)

LEMMA PhasesWorker ==
  ASSUME TypeOK, Phases, NEW w \in Workers, WorkerStep(w)
  PROVE  Phases'
<1>1. /\ UNCHANGED <<once, threadPoolInitErr, xpc>>
      /\ cpc' = cpc \/ WakeCallers
  BY DEF WorkerStep, WStart, WTakeItem, WParkLock, WDecRunning, WSignalLock,
         WSignal, WWait, WWoken, WTake, WIncRunning, WParkUnlock, WCheckError,
         WCall, WReturn, WSetError, WDropWork, WExit
<1> QED
  BY <1>1 DEF TypeOK, Phases, WakeCallers, InitLabels

LEMMA PhasesCaller ==
  ASSUME TypeOK, Phases, NEW c \in Callers, CallerStep(c)
  PROVE  Phases'
<1> USE DEF TypeOK, Phases, CGoto, InitLabels
<1>1. CASE COnce(c) \/ ITest(c)
  BY <1>1 DEF COnce, ITest, AfterOnce
<1>2. CASE CCallerLock(c) \/ CWait(c) \/ ISetRunning(c) \/ ISpawn(c)
  BY <1>2 DEF CCallerLock, CWait, ISetRunning, ISpawn
<1>3. CASE GRead(c) \/ CInit(c) \/ CSerialCall(c) \/ CSerialEnd(c)
  BY <1>3 DEF GRead, CInit, CSerialCall, CSerialEnd
<1>4. CASE \E e \in Errors \cup {CL_SUCCESS} : CSerialReturn(c, e)
  BY <1>4 DEF CSerialReturn
<1>5. CASE CPoolLock(c) \/ CCondLock(c) \/ CPrimeError(c) \/ CPrimeCount(c)
  BY <1>5 DEF CPoolLock, CCondLock, CPrimeError, CPrimeCount
<1>6. CASE CPrimeFunc(c) \/ CBroadcast(c) \/ CTest(c)
  BY <1>6 DEF CPrimeFunc, CBroadcast, CTest
<1>7. CASE CReadError(c) \/ CPoolUnlock(c) \/ CReturned(c)
  BY <1>7 DEF CReadError, CPoolUnlock, CReturned
<1>8. CASE \E single \in BOOLEAN, cores \in Cores : IConfigure(c, single, cores)
  BY <1>8 DEF IConfigure, AfterOnce
<1> QED
  BY <1>1, <1>2, <1>3, <1>4, <1>5, <1>6, <1>7, <1>8 DEF CallerStep

LEMMA PhasesNext == TypeOK /\ Phases /\ [Next]_vars => Phases'
<1> SUFFICES ASSUME TypeOK, Phases, [Next]_vars PROVE Phases'
  OBVIOUS
<1>1. CASE \E c \in Callers : CallerStep(c)
  BY <1>1, PhasesCaller
<1>2. CASE \E w \in Workers : WorkerStep(w)
  BY <1>2, PhasesWorker
<1> USE DEF TypeOK, Phases, InitLabels
<1>3. CASE \E n \in SetCounts : SetThreadCount(n)
  BY <1>3 DEF SetThreadCount
<1>4. CASE \E c \in Callers : \/ \E n \in Counts : CCall(c, "do", n)
                              \/ CCall(c, "count", 0)
  BY <1>4 DEF CCall, CGoto
<1>5. CASE XStart \/ ExitStep
  BY <1>5 DEF XStart, ExitStep, XBroadcast, XTimeout, XJoin
<1>6. CASE Terminated \/ UNCHANGED vars
  BY <1>6 DEF Terminated, vars
<1> QED
  BY <1>1, <1>2, <1>3, <1>4, <1>5, <1>6 DEF Next

-----------------------------------------------------------------------------
(* Launching the workers.                                                  *)

LEMMA LaunchWorker ==
  ASSUME TypeOK, Phases, Launch, NEW w \in Workers, WorkerStep(w)
  PROVE  Launch'
<1> USE ConstantsAssumption
    DEF TypeOK, Phases, Launch, WGoto, LaunchLabels, BeforeLaunch, InitLabels
<1>1. CASE WStart(w) \/ WParkLock(w) \/ WDecRunning(w) \/ WSignalLock(w)
  BY <1>1 DEF WStart, WParkLock, WDecRunning, WSignalLock
<1>2. CASE WTakeItem(w)
  BY <1>2 DEF WTakeItem, Dispatch
<1>3. CASE WSignal(w)
  BY <1>3 DEF WSignal, WakeCallers
<1>4. CASE WWait(w) \/ WWoken(w) \/ WTake(w) \/ WIncRunning(w)
  BY <1>4 DEF WWait, WWoken, WTake, WIncRunning
<1>5. CASE WParkUnlock(w) \/ WCheckError(w) \/ WCall(w) \/ WSetError(w)
  BY <1>5 DEF WParkUnlock, WCheckError, WCall, WSetError
<1>6. CASE \E e \in Errors \cup {CL_SUCCESS} : WReturn(w, e)
  BY <1>6 DEF WReturn
<1>7. CASE WDropWork(w) \/ WExit(w)
  BY <1>7 DEF WDropWork, WExit
<1> QED
  BY <1>1, <1>2, <1>3, <1>4, <1>5, <1>6, <1>7 DEF WorkerStep

LEMMA LaunchCaller ==
  ASSUME TypeOK, Phases, Launch, QuietTimes, NEW c \in Callers, CallerStep(c)
  PROVE  Launch'
<1> USE ConstantsAssumption
    DEF TypeOK, Phases, Launch, CGoto, LaunchLabels, BeforeLaunch, InitLabels
<1>1. CASE COnce(c)
  BY <1>1 DEF COnce, AfterOnce
<1>2. CASE \E single \in BOOLEAN, cores \in Cores : IConfigure(c, single, cores)
  BY <1>2 DEF IConfigure, AfterOnce, ThreadCount
<1>3. CASE CCallerLock(c) \/ CWait(c) \/ ISetRunning(c)
  BY <1>3 DEF CCallerLock, CWait, ISetRunning
<1>4. CASE ISpawn(c)
  <2>1. /\ cpc[c] = "i_spawn" /\ cpc'[c] \in {"i_spawn", "i_wait"} /\ once = "running"
        /\ \A d \in Callers \ {c} : cpc'[d] = cpc[d] /\ cpc[d] \notin InitLabels
        /\ UNCHANGED <<once, gThreadCount, gRunCount, gRunning>>
        /\ spawned' = spawned + 1 /\ spawned < gThreadCount
        /\ cpc'[c] = "i_spawn" => spawned + 1 # gThreadCount
    BY <1>4 DEF ISpawn
  <2>2. \A w \in Workers : wpc'[w] = IF w = spawned THEN "start" ELSE wpc[w]
    BY <1>4 DEF ISpawn
  <2>3. /\ \A w \in Workers : wpc'[w] \in LaunchLabels
        /\ \A w \in Workers : w >= spawned' => wpc'[w] = "none"
    BY <2>1, <2>2 DEF Workers
  <2> QED
    BY <2>1, <2>3
<1>5. CASE ITest(c)
  BY <1>5 DEF ITest, AfterOnce, QuietTimes, Quiet, NobodyBusy, Busy, ActiveLabels
<1>6. CASE GRead(c) \/ CInit(c) \/ CSerialCall(c) \/ CSerialEnd(c)
  BY <1>6 DEF GRead, CInit, CSerialCall, CSerialEnd
<1>7. CASE \E e \in Errors \cup {CL_SUCCESS} : CSerialReturn(c, e)
  BY <1>7 DEF CSerialReturn
<1>8. CASE CPoolLock(c) \/ CCondLock(c) \/ CPrimeError(c) \/ CPrimeCount(c)
  BY <1>8 DEF CPoolLock, CCondLock, CPrimeError, CPrimeCount
<1>9. CASE CPrimeFunc(c) \/ CTest(c) \/ CReadError(c) \/ CPoolUnlock(c)
  BY <1>9 DEF CPrimeFunc, CTest, CReadError, CPoolUnlock
<1>10. CASE CBroadcast(c)
  BY <1>10 DEF CBroadcast, WakeWorkers
<1>11. CASE CReturned(c)
  BY <1>11 DEF CReturned
<1> QED
  BY <1>1, <1>2, <1>3, <1>4, <1>5, <1>6, <1>7, <1>8, <1>9, <1>10, <1>11
  DEF CallerStep

LEMMA LaunchNext == IInv /\ [Next]_vars => Launch'
<1> SUFFICES ASSUME IInv, [Next]_vars PROVE Launch'
  OBVIOUS
<1>1. CASE \E c \in Callers : CallerStep(c)
  BY <1>1, LaunchCaller DEF IInv
<1>2. CASE \E w \in Workers : WorkerStep(w)
  BY <1>2, LaunchWorker DEF IInv
<1> USE DEF IInv, TypeOK, Phases, Launch, BeforeLaunch, InitLabels, LaunchLabels
<1>3. CASE \E n \in SetCounts : SetThreadCount(n)
  BY <1>3, ConstantsAssumption DEF SetThreadCount
<1>4. CASE \E c \in Callers : \/ \E n \in Counts : CCall(c, "do", n)
                              \/ CCall(c, "count", 0)
  BY <1>4 DEF CCall, CGoto
<1>5. CASE XStart \/ ExitStep
  BY <1>5 DEF XStart, ExitStep, XBroadcast, XTimeout, XJoin, WakeWorkers
<1>6. CASE Terminated \/ UNCHANGED vars
  BY <1>6 DEF Terminated, vars
<1> QED
  BY <1>1, <1>2, <1>3, <1>4, <1>5, <1>6 DEF Next

-----------------------------------------------------------------------------
(* Counting workers.                                                       *)

LEMMA WorkersFinite ==
  /\ IsFiniteSet(Workers) /\ Cardinality(Workers) = MaxThreads
  /\ \A S \in SUBSET Workers :
       IsFiniteSet(S) /\ Cardinality(S) \in Nat /\ Cardinality(S) <= MaxThreads
<1>1. IsFiniteSet(Workers) /\ Cardinality(Workers) = MaxThreads
  BY FS_Interval, ConstantsAssumption DEF Workers
<1>2. ASSUME NEW S \in SUBSET Workers
      PROVE IsFiniteSet(S) /\ Cardinality(S) \in Nat /\ Cardinality(S) <= MaxThreads
  <2>1. IsFiniteSet(S) /\ Cardinality(S) <= Cardinality(Workers)
    BY <1>1, FS_Subset
  <2> QED
    BY <1>1, <2>1, FS_CardinalityType
<1> QED
  BY <1>1, <1>2

\* A worker that moves between two sets of labels changes their sizes by one.
LEMMA BusyMove ==
  ASSUME NEW w \in Workers, \A v \in Workers \ {w} : wpc'[v] = wpc[v]
  PROVE  /\ (wpc[w] \in Busy <=> wpc'[w] \in Busy) => BusyWorkers' = BusyWorkers
         /\ wpc[w] \notin Busy /\ wpc'[w] \in Busy =>
              Cardinality(BusyWorkers') = Cardinality(BusyWorkers) + 1
         /\ wpc[w] \in Busy /\ wpc'[w] \notin Busy =>
              Cardinality(BusyWorkers') = Cardinality(BusyWorkers) - 1
<1>1. IsFiniteSet(BusyWorkers) /\ Cardinality(BusyWorkers) \in Nat
  BY WorkersFinite DEF BusyWorkers
<1>2. ASSUME wpc[w] \in Busy <=> wpc'[w] \in Busy PROVE BusyWorkers' = BusyWorkers
  BY <1>2 DEF BusyWorkers
<1>3. ASSUME wpc[w] \notin Busy, wpc'[w] \in Busy
      PROVE Cardinality(BusyWorkers') = Cardinality(BusyWorkers) + 1
  <2>1. BusyWorkers' = BusyWorkers \cup {w} /\ w \notin BusyWorkers
    BY <1>3 DEF BusyWorkers
  <2> QED
    BY <1>1, <2>1, FS_AddElement
<1>4. ASSUME wpc[w] \in Busy, wpc'[w] \notin Busy
      PROVE Cardinality(BusyWorkers') = Cardinality(BusyWorkers) - 1
  <2>1. BusyWorkers' = BusyWorkers \ {w} /\ w \in BusyWorkers
    BY <1>4 DEF BusyWorkers
  <2> QED
    BY <1>1, <2>1, FS_RemoveElement
<1> QED
  BY <1>2, <1>3, <1>4

LEMMA GoneMove ==
  ASSUME NEW w \in Workers, \A v \in Workers \ {w} : wpc'[v] = wpc[v]
  PROVE  /\ (wpc[w] \in {"exit", "done"} <=> wpc'[w] \in {"exit", "done"}) =>
              GoneWorkers' = GoneWorkers
         /\ wpc[w] \notin {"exit", "done"} /\ wpc'[w] \in {"exit", "done"} =>
              Cardinality(GoneWorkers') = Cardinality(GoneWorkers) + 1
<1>1. IsFiniteSet(GoneWorkers) /\ Cardinality(GoneWorkers) \in Nat
  BY WorkersFinite DEF GoneWorkers
<1>2. ASSUME wpc[w] \in {"exit", "done"} <=> wpc'[w] \in {"exit", "done"}
      PROVE GoneWorkers' = GoneWorkers
  BY <1>2 DEF GoneWorkers
<1>3. ASSUME wpc[w] \notin {"exit", "done"}, wpc'[w] \in {"exit", "done"}
      PROVE Cardinality(GoneWorkers') = Cardinality(GoneWorkers) + 1
  <2>1. GoneWorkers' = GoneWorkers \cup {w} /\ w \notin GoneWorkers
    BY <1>3 DEF GoneWorkers
  <2> QED
    BY <1>1, <2>1, FS_AddElement
<1> QED
  BY <1>2, <1>3

\* The order to exit is larger than any number of workers can count down.
LEMMA ExitOrder ==
  ASSUME TypeOK, ExitCount
  PROVE  xpc # "none" => gRunCount >= MAX_COUNT
<1>1. Cardinality(GoneWorkers) \in Nat /\ Cardinality(GoneWorkers) <= MaxThreads
  BY WorkersFinite DEF GoneWorkers
<1> QED
  BY <1>1, ConstantsAssumption DEF TypeOK, ExitCount

\* ThreadPool_Exit runs when nobody is at work.
LEMMA ExitIdle == IInv /\ xpc # "none" => once = "done" /\ NobodyBusy
  BY DEF IInv, Phases, QuietTimes, Waiting

LEMMA BoundedNext == IInv /\ [Next]_vars => Bounded'
<1> SUFFICES ASSUME IInv, [Next]_vars PROVE Bounded'
  OBVIOUS
<1> USE ConstantsAssumption
    DEF IInv, TypeOK, Phases, Bounded, PoolCaller, DoLabels, InitLabels, CL_SUCCESS
<1>1. ASSUME NEW w \in Workers, WorkerStep(w) PROVE Bounded'
  <2>1. /\ UNCHANGED <<count, xpc>>
        /\ cpc' = cpc \/ WakeCallers
        /\ gRunCount' \in {gRunCount, gRunCount - 1, 0}
    BY <1>1
    DEF WorkerStep, WStart, WTakeItem, WParkLock, WDecRunning, WSignalLock,
        WSignal, WWait, WWoken, WTake, WIncRunning, WParkUnlock, WCheckError,
        WCall, WReturn, WSetError, WDropWork, WExit
  <2> QED
    BY <2>1 DEF WakeCallers
<1>2. ASSUME NEW c \in Callers, CallerStep(c) PROVE Bounded'
  <2> USE DEF CGoto
  <2>1. CASE COnce(c) \/ ITest(c)
    BY <2>1 DEF COnce, ITest, AfterOnce
  <2>2. CASE CCallerLock(c) \/ CWait(c) \/ ISetRunning(c) \/ ISpawn(c)
    BY <2>2 DEF CCallerLock, CWait, ISetRunning, ISpawn
  <2>3. CASE GRead(c) \/ CSerialCall(c) \/ CSerialEnd(c)
    BY <2>3 DEF GRead, CSerialCall, CSerialEnd
  <2>4. CASE \E e \in Errors \cup {CL_SUCCESS} : CSerialReturn(c, e)
    BY <2>4 DEF CSerialReturn
  <2>5. CASE CInit(c)
    <3>1. count[c] \in Int
      <4>1. count[c] \in Counts \cup {0}
        BY Zenon
      <4> QED
        BY <4>1, CountIsInt, Zenon
    <3> QED
      BY <2>5, <3>1 DEF CInit
  <2>6. CASE CPoolLock(c) \/ CCondLock(c) \/ CPrimeError(c) \/ CPrimeCount(c)
    BY <2>6 DEF CPoolLock, CCondLock, CPrimeError, CPrimeCount
  <2>7. CASE CPrimeFunc(c) \/ CBroadcast(c) \/ CTest(c)
    BY <2>7 DEF CPrimeFunc, CBroadcast, CTest
  <2>8. CASE CReadError(c) \/ CPoolUnlock(c) \/ CReturned(c)
    BY <2>8 DEF CReadError, CPoolUnlock, CReturned
  <2>9. CASE \E single \in BOOLEAN, cores \in Cores : IConfigure(c, single, cores)
    BY <2>9 DEF IConfigure, AfterOnce
  <2> QED
    BY <1>2, <2>1, <2>2, <2>3, <2>4, <2>5, <2>6, <2>7, <2>8, <2>9
    DEF CallerStep
<1>3. CASE \E n \in SetCounts : SetThreadCount(n)
  BY <1>3 DEF SetThreadCount
<1>4. CASE \E c \in Callers : \/ \E n \in Counts : CCall(c, "do", n)
                              \/ CCall(c, "count", 0)
  BY <1>4 DEF CCall, CGoto
<1>5. CASE XStart \/ ExitStep
  BY <1>5 DEF XStart, ExitStep, XBroadcast, XTimeout, XJoin
<1>6. CASE Terminated \/ UNCHANGED vars
  BY <1>6 DEF Terminated, vars
<1> QED
  BY <1>1, <1>2, <1>3, <1>4, <1>5, <1>6 DEF Next

LEMMA ExitCountNext == IInv /\ [Next]_vars => ExitCount'
<1> SUFFICES ASSUME IInv, [Next]_vars PROVE ExitCount'
  OBVIOUS
<1> USE ConstantsAssumption DEF ExitCount
<1>0. TypeOK /\ Phases /\ (xpc # "none" => NobodyBusy)
  BY ExitIdle DEF IInv
<1>1. ASSUME NEW w \in Workers, WorkerStep(w) PROVE ExitCount'
  <2> SUFFICES ASSUME xpc # "none", xpc' = xpc PROVE ExitCount'
    BY <1>1 DEF TypeOK, WorkerStep, WStart, WTakeItem, WParkLock, WDecRunning,
        WSignalLock, WSignal, WWait, WWoken, WTake, WIncRunning, WParkUnlock,
        WCheckError, WCall, WReturn, WSetError, WDropWork, WExit
  <2>1. wpc[w] \notin Busy \cup {"inc"} /\ gRunCount >= MAX_COUNT
    BY <1>0, ExitOrder DEF NobodyBusy, IInv
  <2> USE DEF TypeOK, WGoto, Busy, ActiveLabels
  <2>2. CASE WSignalLock(w) \/ WSignal(w) \/ WWait(w) \/ WWoken(w) \/ WExit(w)
    <3>1. /\ gRunCount' = gRunCount
          /\ \A v \in Workers \ {w} : wpc'[v] = wpc[v]
          /\ wpc[w] \in {"exit", "done"} <=> wpc'[w] \in {"exit", "done"}
      BY <1>0, <2>2 DEF WSignalLock, WSignal, WWait, WWoken, WExit
    <3>2. GoneWorkers' = GoneWorkers
      BY <1>0, <3>1, GoneMove
    <3> QED
      BY <3>1, <3>2 DEF IInv
  <2>3. CASE WTake(w)
    <3>1. /\ gRunCount' = gRunCount - 1 /\ wpc[w] = "take" /\ wpc'[w] = "exit"
          /\ \A v \in Workers \ {w} : wpc'[v] = wpc[v]
      BY <1>0, <2>1, <2>3 DEF WTake
    <3>2. Cardinality(GoneWorkers') = Cardinality(GoneWorkers) + 1
      BY <1>0, <3>1, GoneMove
    <3>3. Cardinality(GoneWorkers) \in Nat
      BY WorkersFinite DEF GoneWorkers
    <3> QED
      BY <1>0, <3>1, <3>2, <3>3 DEF IInv
  <2> QED
    BY <1>0, <1>1, <2>1, <2>2, <2>3
    DEF WorkerStep, WStart, WTakeItem, WParkLock, WDecRunning, WIncRunning,
        WParkUnlock, WCheckError, WCall, WReturn, WSetError, WDropWork
<1>2. ASSUME NEW c \in Callers, CallerStep(c) PROVE ExitCount'
  <2>1. cpc[c] # "idle" /\ xpc' = xpc
    BY <1>2 DEF CallerStep, COnce, CCallerLock, ISetRunning, ISpawn, CWait,
      ITest, GRead, CInit, CSerialEnd, CPoolLock, CCondLock, CPrimeError,
      CPrimeCount, CPrimeFunc, CBroadcast, CTest, CReadError, CPoolUnlock,
      CReturned, CSerialCall, IConfigure, CSerialReturn
  <2> QED
    BY <1>0, <2>1 DEF Phases
<1>3. CASE \E n \in SetCounts : SetThreadCount(n)
  BY <1>0, <1>3 DEF SetThreadCount, Phases
<1>4. CASE \E c \in Callers : \/ \E n \in Counts : CCall(c, "do", n)
                              \/ CCall(c, "count", 0)
  BY <1>0, <1>4 DEF CCall
<1>5. CASE XStart
  <2>1. Cardinality(GoneWorkers)' \in Nat
    BY WorkersFinite DEF GoneWorkers
  <2> QED
    BY <1>5, <2>1 DEF XStart
<1>6. CASE ExitStep \/ Terminated \/ UNCHANGED vars
  <2>1. /\ gRunCount' = gRunCount /\ (xpc' # "none" => xpc # "none")
        /\ \A w \in Workers : wpc[w] \in {"exit", "done"}
                              <=> wpc'[w] \in {"exit", "done"}
    BY <1>0, <1>6 DEF ExitStep, XBroadcast, XTimeout, XJoin, WakeWorkers,
      Terminated, vars, TypeOK
  <2>2. GoneWorkers' = GoneWorkers
    BY <2>1 DEF GoneWorkers
  <2> QED
    BY <2>1, <2>2 DEF IInv
<1> QED
  BY <1>1, <1>2, <1>3, <1>4, <1>5, <1>6 DEF Next

\* Unlaunched depends on the loop of ThreadPool_Init only.
LEMMA UnlaunchedSame ==
  ASSUME \A c \in Callers : cpc'[c] = "i_spawn" <=> cpc[c] = "i_spawn",
         (\E c \in Callers : cpc[c] = "i_spawn")
           => spawned' = spawned /\ gThreadCount' = gThreadCount
  PROVE  Unlaunched' = Unlaunched
  BY DEF Unlaunched

LEMMA RunningWorker ==
  ASSUME IInv, NEW w \in Workers, WorkerStep(w)
  PROVE  Running'
<1> USE ConstantsAssumption DEF WGoto, Running
<1>0. TypeOK /\ Phases /\ Launch /\ Bounded /\ (xpc # "none" => NobodyBusy)
  BY ExitIdle DEF IInv
<1>1. Unlaunched' = Unlaunched
  <2>1. /\ \A c \in Callers : cpc'[c] = "i_spawn" <=> cpc[c] = "i_spawn"
        /\ spawned' = spawned
        /\ gThreadCount' = gThreadCount \/ wpc[w] = "exit"
    BY <1>0 DEF WorkerStep, WStart, WTakeItem, WParkLock, WDecRunning,
        WSignalLock, WSignal, WWait, WWoken, WTake, WIncRunning, WParkUnlock,
        WCheckError, WCall, WReturn, WSetError, WDropWork, WExit, WakeCallers,
        TypeOK
  <2>2. wpc[w] = "exit" => \A c \in Callers : cpc[c] # "i_spawn"
    BY <1>0 DEF Launch, LaunchLabels, Phases, InitLabels
  <2> QED
    BY <2>1, <2>2, UnlaunchedSame
<1>2. Cardinality(BusyWorkers) \in Nat /\ Unlaunched \in Int
  BY <1>0, WorkersFinite DEF BusyWorkers, Unlaunched, TypeOK
<1>3. CASE WDecRunning(w)
  <2>1. /\ gRunning' = gRunning - 1 /\ wpc[w] \in Busy
        /\ wpc'[w] \notin Busy /\ \A v \in Workers \ {w} : wpc'[v] = wpc[v]
    BY <1>0, <1>3 DEF WDecRunning, Busy, ActiveLabels, TypeOK
  <2> QED
    BY <1>0, <1>1, <1>2, <2>1, BusyMove DEF IInv
<1>4. CASE WIncRunning(w)
  <2>1. /\ gRunning' = gRunning + 1 /\ wpc[w] \notin Busy
        /\ wpc'[w] \in Busy /\ \A v \in Workers \ {w} : wpc'[v] = wpc[v]
    BY <1>0, <1>4 DEF WIncRunning, Busy, ActiveLabels, TypeOK
  <2> QED
    BY <1>0, <1>1, <1>2, <2>1, BusyMove DEF IInv
<1>5. CASE ~WDecRunning(w) /\ ~WIncRunning(w)
  <2>1. /\ gRunning' = gRunning
        /\ \A v \in Workers \ {w} : wpc'[v] = wpc[v]
        /\ wpc[w] \in Busy <=> wpc'[w] \in Busy
    <3> USE <1>0 DEF Busy, ActiveLabels, TypeOK
    <3>1. CASE WTakeItem(w)
      BY <3>1 DEF WTakeItem, Dispatch, NobodyBusy, Bounded
    <3>2. CASE \E e \in Errors \cup {CL_SUCCESS} : WReturn(w, e)
      BY <3>2 DEF WReturn
    <3>3. CASE WStart(w) \/ WParkLock(w) \/ WSignalLock(w) \/ WSignal(w)
      BY <3>3 DEF WStart, WParkLock, WSignalLock, WSignal
    <3>4. CASE WWait(w) \/ WWoken(w) \/ WTake(w) \/ WParkUnlock(w)
      BY <3>4 DEF WWait, WWoken, WTake, WParkUnlock
    <3>5. CASE WCheckError(w) \/ WCall(w) \/ WSetError(w) \/ WDropWork(w) \/ WExit(w)
      BY <3>5 DEF WCheckError, WCall, WSetError, WDropWork, WExit
    <3> QED
      BY <1>5, <3>1, <3>2, <3>3, <3>4, <3>5 DEF WorkerStep
  <2>2. BusyWorkers' = BusyWorkers
    BY <1>0, <2>1, BusyMove
  <2> QED
    BY <1>1, <2>1, <2>2 DEF IInv
<1> QED
  BY <1>3, <1>4, <1>5

LEMMA RunningCaller ==
  ASSUME IInv, NEW c \in Callers, CallerStep(c)
  PROVE  Running'
<1> USE ConstantsAssumption DEF CGoto, Running
<1>0. TypeOK /\ Phases /\ Launch
  BY DEF IInv
<1>1. CASE ISetRunning(c)
  <2>1. BusyWorkers' = {} /\ Cardinality(BusyWorkers') = 0
    <3>1. BusyWorkers' = {}
      BY <1>0, <1>1 DEF ISetRunning, Launch, BeforeLaunch, BusyWorkers, Busy
    <3> QED
      BY <3>1, FS_EmptySet
  <2>2. Unlaunched' = gThreadCount /\ gRunning' = gThreadCount
    BY <1>0, <1>1 DEF ISetRunning, Unlaunched, Launch, BeforeLaunch, TypeOK
  <2> QED
    BY <1>0, <2>1, <2>2 DEF TypeOK
<1>2. CASE ISpawn(c)
  <2>1. spawned \in Workers /\ wpc[spawned] = "none"
    BY <1>0, <1>2 DEF ISpawn, Launch, TypeOK, Workers
  <2>2. Cardinality(BusyWorkers') = Cardinality(BusyWorkers) + 1
    <3>1. /\ wpc'[spawned] = "start"
          /\ \A v \in Workers \ {spawned} : wpc'[v] = wpc[v]
      BY <1>0, <1>2, <2>1 DEF ISpawn, TypeOK
    <3> QED
      BY <2>1, <3>1, BusyMove DEF Busy, ActiveLabels
  <2>3. Unlaunched = gThreadCount - spawned
    BY <1>2 DEF ISpawn, Unlaunched
  <2>4. Unlaunched' = gThreadCount - spawned - 1
    <3>1. \A d \in Callers : cpc[d] = "i_spawn" => d = c
      BY <1>0, <1>2 DEF ISpawn, Phases, InitLabels
    <3>2. CASE spawned + 1 = gThreadCount
      BY <1>0, <1>2, <3>1, <3>2 DEF ISpawn, Unlaunched, TypeOK
    <3>3. CASE spawned + 1 # gThreadCount
      BY <1>0, <1>2, <3>1, <3>3 DEF ISpawn, Unlaunched, TypeOK
    <3> QED
      BY <3>2, <3>3
  <2>5. Cardinality(BusyWorkers) \in Nat
    BY WorkersFinite DEF BusyWorkers
  <2>6. gRunning' = gRunning
    BY <1>2 DEF ISpawn
  <2> QED
    BY <1>0, <2>2, <2>3, <2>4, <2>5, <2>6 DEF IInv, TypeOK
<1>3. CASE ~ISetRunning(c) /\ ~ISpawn(c)
  <2>1. /\ gRunning' = gRunning
        /\ \A w \in Workers : wpc'[w] \in Busy <=> wpc[w] \in Busy
    BY <1>0, <1>3 DEF CallerStep, COnce, CCallerLock, CWait,
      ITest, GRead, CInit, CSerialEnd, CPoolLock, CCondLock, CPrimeError,
      CPrimeCount, CPrimeFunc, CBroadcast, CTest, CReadError, CPoolUnlock,
      CReturned, CSerialCall, IConfigure, CSerialReturn, WakeWorkers, TypeOK,
      Busy, ActiveLabels
  <2>2. BusyWorkers' = BusyWorkers
    BY <2>1 DEF BusyWorkers
  <2>3. /\ \A d \in Callers : cpc'[d] = "i_spawn" <=> cpc[d] = "i_spawn"
        /\ spawned' = spawned
        /\ gThreadCount' = gThreadCount \/ cpc[c] = "i_conf"
    BY <1>0, <1>3 DEF CallerStep, COnce, CCallerLock, CWait,
      ITest, GRead, CInit, CSerialEnd, CPoolLock, CCondLock, CPrimeError,
      CPrimeCount, CPrimeFunc, CBroadcast, CTest, CReadError, CPoolUnlock,
      CReturned, CSerialCall, IConfigure, CSerialReturn, TypeOK, AfterOnce
  <2>4. cpc[c] = "i_conf" => \A d \in Callers : cpc[d] # "i_spawn"
    BY <1>0 DEF Phases, InitLabels
  <2>5. Unlaunched' = Unlaunched
    BY <2>3, <2>4, UnlaunchedSame
  <2> QED
    BY <2>1, <2>2, <2>5 DEF IInv
<1> QED
  BY <1>1, <1>2, <1>3

LEMMA RunningNext == IInv /\ [Next]_vars => Running'
<1> SUFFICES ASSUME IInv, [Next]_vars PROVE Running'
  OBVIOUS
<1>0. TypeOK /\ Phases
  BY DEF IInv
<1>1. CASE \E c \in Callers : CallerStep(c)
  BY <1>1, RunningCaller
<1>2. CASE \E w \in Workers : WorkerStep(w)
  BY <1>2, RunningWorker
<1>3. CASE \/ \E n \in SetCounts : SetThreadCount(n)
           \/ \E c \in Callers : \/ \E n \in Counts : CCall(c, "do", n)
                                 \/ CCall(c, "count", 0)
           \/ XStart \/ ExitStep \/ Terminated \/ UNCHANGED vars
  <2>1. /\ gRunning' = gRunning /\ spawned' = spawned
        /\ gThreadCount' = gThreadCount \/ \A c \in Callers : cpc[c] = "idle"
        /\ \A w \in Workers : wpc'[w] \in Busy <=> wpc[w] \in Busy
        /\ \A c \in Callers : cpc'[c] = "i_spawn" <=> cpc[c] = "i_spawn"
    BY <1>0, <1>3 DEF SetThreadCount, CCall, XStart, ExitStep, XBroadcast,
      XTimeout, XJoin, Terminated, vars, WakeWorkers, CGoto, TypeOK, Busy,
      ActiveLabels
  <2>2. BusyWorkers' = BusyWorkers
    BY <2>1 DEF BusyWorkers
  <2>3. Unlaunched' = Unlaunched
    BY <2>1, UnlaunchedSame
  <2> QED
    BY <2>1, <2>2, <2>3 DEF IInv, Running
<1> QED
  BY <1>1, <1>2, <1>3 DEF Next

-----------------------------------------------------------------------------
(* When the pool is quiet.                                                 *)

\* The last worker out leaves nobody busy behind it.
LEMMA LastOut ==
  ASSUME IInv, NEW w \in Workers, wpc[w] = "dec", gRunning = 1
  PROVE  /\ \A v \in Workers \ {w} : wpc[v] \notin Busy \cup {"inc"}
         /\ \A c \in Callers : cpc[c] # "i_spawn"
<1>0. TypeOK /\ Locks /\ Launch /\ Running /\ w \in BusyWorkers
  BY DEF IInv, BusyWorkers, Busy, ActiveLabels
<1>1. IsFiniteSet(BusyWorkers) /\ Cardinality(BusyWorkers) \in Nat
  BY WorkersFinite DEF BusyWorkers
<1>2. Cardinality(BusyWorkers) >= 1
  BY <1>0, <1>1, FS_EmptySet
<1>3. Unlaunched \in Nat /\ ((\E c \in Callers : cpc[c] = "i_spawn") => Unlaunched > 0)
  BY <1>0 DEF Unlaunched, Launch, TypeOK
<1>4. Unlaunched = 0 /\ Cardinality(BusyWorkers) = 1
  BY <1>0, <1>1, <1>2, <1>3 DEF Running
<1>5. BusyWorkers = {w}
  BY <1>0, <1>1, <1>4, FS_Singleton
<1>6. \A v \in Workers \ {w} : wpc[v] # "inc"
  BY <1>0 DEF Locks, CondLabels
<1> QED
  BY <1>3, <1>4, <1>5, <1>6 DEF BusyWorkers

LEMMA QuietWorker ==
  ASSUME IInv, NEW w \in Workers, WorkerStep(w)
  PROVE  QuietTimes'
<1> USE ConstantsAssumption
    DEF TypeOK, Locks, Phases, Launch, Bounded, QuietTimes, Quiet, NobodyBusy,
        Busy, ActiveLabels, CondLabels, LaunchLabels, Waiting, Window,
        CondCaller, WGoto
<1>0. /\ TypeOK /\ Locks /\ Phases /\ Launch /\ Bounded /\ QuietTimes
      /\ xpc # "none" => gRunCount >= MAX_COUNT
  BY ExitOrder DEF IInv
<1>1. CASE WStart(w) \/ WParkLock(w) \/ WSignalLock(w)
  BY <1>0, <1>1 DEF WStart, WParkLock, WSignalLock
<1>2. CASE WTakeItem(w)
  BY <1>0, <1>2 DEF WTakeItem, Dispatch
<1>3. CASE WDecRunning(w)
  <2>1. CASE gRunning = 1
    BY <1>0, <1>3, <2>1, LastOut DEF WDecRunning
  <2>2. CASE gRunning # 1
    BY <1>0, <1>3, <2>2 DEF WDecRunning
  <2> QED
    BY <2>1, <2>2
<1>4. CASE WSignal(w)
  BY <1>0, <1>4 DEF WSignal, WakeCallers
<1>5. CASE WWait(w) \/ WWoken(w) \/ WIncRunning(w) \/ WParkUnlock(w)
  BY <1>0, <1>5 DEF WWait, WWoken, WIncRunning, WParkUnlock
<1>6. CASE WTake(w)
  BY <1>0, <1>6 DEF WTake
<1>7. CASE WCheckError(w) \/ WCall(w) \/ WSetError(w) \/ WExit(w)
  BY <1>0, <1>7 DEF WCheckError, WCall, WSetError, WExit
<1>8. CASE \E e \in Errors \cup {CL_SUCCESS} : WReturn(w, e)
  BY <1>0, <1>8 DEF WReturn
<1>9. CASE WDropWork(w)
  BY <1>0, <1>9 DEF WDropWork
<1> QED
  BY <1>1, <1>2, <1>3, <1>4, <1>5, <1>6, <1>7, <1>8, <1>9 DEF WorkerStep

LEMMA QuietCaller ==
  ASSUME IInv, NEW c \in Callers, CallerStep(c)
  PROVE  QuietTimes'
<1> USE ConstantsAssumption
    DEF TypeOK, Locks, Phases, Launch, QuietTimes, Quiet, NobodyBusy, Busy,
        ActiveLabels, CondLabels, Waiting, Window, CondCaller, PoolCaller,
        DoLabels, InitLabels, BeforeLaunch, CGoto
<1>0. TypeOK /\ Locks /\ Phases /\ Launch /\ QuietTimes
  BY DEF IInv
<1>1. CASE COnce(c)
  BY <1>0, <1>1 DEF COnce, AfterOnce
<1>2. CASE \E single \in BOOLEAN, cores \in Cores : IConfigure(c, single, cores)
  BY <1>0, <1>2 DEF IConfigure, AfterOnce
<1>3. CASE CCallerLock(c) \/ CWait(c) \/ ISetRunning(c)
  BY <1>0, <1>3 DEF CCallerLock, CWait, ISetRunning
<1>4. CASE ISpawn(c)
  BY <1>0, <1>4 DEF ISpawn
<1>5. CASE ITest(c)
  BY <1>0, <1>5 DEF ITest, AfterOnce
<1>6. CASE GRead(c) \/ CInit(c) \/ CSerialCall(c) \/ CSerialEnd(c)
  BY <1>0, <1>6 DEF GRead, CInit, CSerialCall, CSerialEnd
<1>7. CASE \E e \in Errors \cup {CL_SUCCESS} : CSerialReturn(c, e)
  BY <1>0, <1>7 DEF CSerialReturn
<1>8. CASE CPoolLock(c) \/ CCondLock(c) \/ CPrimeError(c)
  BY <1>0, <1>8 DEF CPoolLock, CCondLock, CPrimeError
<1>9. CASE CPrimeCount(c)
  BY <1>0, <1>9 DEF CPrimeCount
<1>10. CASE CPrimeFunc(c) \/ CTest(c) \/ CReadError(c) \/ CPoolUnlock(c)
  BY <1>0, <1>10 DEF CPrimeFunc, CTest, CReadError, CPoolUnlock
<1>11. CASE CBroadcast(c)
  BY <1>0, <1>11 DEF CBroadcast, WakeWorkers
<1>12. CASE CReturned(c)
  BY <1>0, <1>12 DEF CReturned
<1> QED
  BY <1>1, <1>2, <1>3, <1>4, <1>5, <1>6, <1>7, <1>8, <1>9, <1>10, <1>11, <1>12
  DEF CallerStep

LEMMA QuietNext == IInv /\ [Next]_vars => QuietTimes'
<1> SUFFICES ASSUME IInv, [Next]_vars PROVE QuietTimes'
  OBVIOUS
<1>1. CASE \E c \in Callers : CallerStep(c)
  BY <1>1, QuietCaller
<1>2. CASE \E w \in Workers : WorkerStep(w)
  BY <1>2, QuietWorker
<1> USE DEF TypeOK, Phases, QuietTimes, Quiet, NobodyBusy, Busy, ActiveLabels,
        Waiting, Window
<1>0. TypeOK /\ Phases /\ QuietTimes
  BY DEF IInv
<1>3. CASE \E n \in SetCounts : SetThreadCount(n)
  BY <1>0, <1>3 DEF SetThreadCount
<1>4. CASE \E c \in Callers : \/ \E n \in Counts : CCall(c, "do", n)
                              \/ CCall(c, "count", 0)
  BY <1>0, <1>4 DEF CCall, CGoto
<1>5. CASE XStart \/ XTimeout \/ XJoin
  BY <1>0, <1>5 DEF XStart, XTimeout, XJoin
<1>6. CASE XBroadcast
  BY <1>0, <1>6 DEF XBroadcast, WakeWorkers
<1>7. CASE Terminated \/ UNCHANGED vars
  BY <1>0, <1>7 DEF Terminated, vars
<1> QED
  BY <1>1, <1>2, <1>3, <1>4, <1>5, <1>6, <1>7 DEF Next, ExitStep

-----------------------------------------------------------------------------
(* Whose job it is.                                                        *)

LEMMA UserInfoNext == IInv /\ [Next]_vars => UserInfo'
<1> SUFFICES ASSUME IInv, [Next]_vars PROVE UserInfo'
  OBVIOUS
<1>0. TypeOK /\ Locks /\ Phases /\ QuietTimes /\ UserInfo
  BY DEF IInv
<1> USE ConstantsAssumption
    DEF TypeOK, UserInfo, Waiting
<1>1. ASSUME NEW w \in Workers, WorkerStep(w) PROVE UserInfo'
  <2> USE DEF WGoto
  <2>1. CASE WStart(w) \/ WTakeItem(w) \/ WParkLock(w) \/ WDecRunning(w)
    BY <1>0, <2>1 DEF WStart, WTakeItem, WParkLock, WDecRunning, Dispatch
  <2>2. CASE WSignalLock(w) \/ WWait(w) \/ WWoken(w) \/ WTake(w)
    BY <1>0, <2>2 DEF WSignalLock, WWait, WWoken, WTake
  <2>3. CASE WSignal(w)
    BY <1>0, <2>3 DEF WSignal, WakeCallers
  <2>4. CASE WIncRunning(w) \/ WParkUnlock(w) \/ WCheckError(w)
    BY <1>0, <2>4 DEF WIncRunning, WParkUnlock, WCheckError
  <2>5. CASE WCall(w)
    BY <1>0, <2>5 DEF WCall
  <2>6. CASE \E e \in Errors \cup {CL_SUCCESS} : WReturn(w, e)
    BY <1>0, <2>6 DEF WReturn
  <2>7. CASE WSetError(w) \/ WDropWork(w) \/ WExit(w)
    BY <1>0, <2>7 DEF WSetError, WDropWork, WExit
  <2> QED
    BY <1>1, <2>1, <2>2, <2>3, <2>4, <2>5, <2>6, <2>7 DEF WorkerStep
<1>2. ASSUME NEW c \in Callers, CallerStep(c) PROVE UserInfo'
  <2> USE DEF CGoto
  <2>1. CASE COnce(c) \/ ITest(c)
    BY <1>0, <2>1 DEF COnce, ITest, AfterOnce
  <2>2. CASE CCallerLock(c) \/ CWait(c) \/ ISetRunning(c)
    BY <1>0, <2>2 DEF CCallerLock, CWait, ISetRunning
  <2>3. CASE ISpawn(c)
    BY <1>0, <2>3 DEF ISpawn
  <2>4. CASE GRead(c) \/ CInit(c) \/ CSerialCall(c) \/ CSerialEnd(c)
    BY <1>0, <2>4 DEF GRead, CInit, CSerialCall, CSerialEnd
  <2>5. CASE \E e \in Errors \cup {CL_SUCCESS} : CSerialReturn(c, e)
    BY <1>0, <2>5 DEF CSerialReturn
  <2>6. CASE CPoolLock(c) \/ CCondLock(c) \/ CPrimeError(c) \/ CPrimeCount(c)
    BY <1>0, <2>6 DEF CPoolLock, CCondLock, CPrimeError, CPrimeCount
  <2>7. CASE CPrimeFunc(c)
    <3>1. \A d \in Callers : cpc[d] \in PoolCaller => d = c
      BY <1>0, <2>7 DEF CPrimeFunc, Locks, PoolCaller, DoLabels
    <3>2. \A w \in Workers : wpc[w] # "running"
      BY <1>0, <2>7, <3>1 DEF CPrimeFunc, QuietTimes, NobodyBusy, Busy,
        ActiveLabels, Phases, InitLabels, PoolCaller, DoLabels
    <3> QED
      BY <1>0, <2>7, <3>1, <3>2 DEF CPrimeFunc, PoolCaller, DoLabels
  <2>8. CASE CBroadcast(c)
    BY <1>0, <2>8 DEF CBroadcast, WakeWorkers
  <2>9. CASE CTest(c) \/ CReadError(c) \/ CPoolUnlock(c) \/ CReturned(c)
    BY <1>0, <2>9 DEF CTest, CReadError, CPoolUnlock, CReturned
  <2>10. CASE \E single \in BOOLEAN, cores \in Cores : IConfigure(c, single, cores)
    BY <1>0, <2>10 DEF IConfigure, AfterOnce
  <2> QED
    BY <1>2, <2>1, <2>2, <2>3, <2>4, <2>5, <2>6, <2>7, <2>8, <2>9, <2>10
    DEF CallerStep
<1>3. CASE \E n \in SetCounts : SetThreadCount(n)
  BY <1>0, <1>3 DEF SetThreadCount
<1>4. CASE \E c \in Callers : \/ \E n \in Counts : CCall(c, "do", n)
                              \/ CCall(c, "count", 0)
  BY <1>0, <1>4 DEF CCall, CGoto
<1>5. CASE XStart \/ ExitStep
  BY <1>0, <1>5 DEF XStart, ExitStep, XBroadcast, XTimeout, XJoin, WakeWorkers
<1>6. CASE Terminated \/ UNCHANGED vars
  BY <1>0, <1>6 DEF Terminated, vars
<1> QED
  BY <1>1, <1>2, <1>3, <1>4, <1>5, <1>6 DEF Next

-----------------------------------------------------------------------------
(* The invariant and what follows from it.                                 *)

LEMMA IInvInit == Init => IInv
<1> SUFFICES ASSUME Init PROVE IInv
  OBVIOUS
<1>1. TypeOK
  BY TypeInit
<1>2. Locks /\ Phases /\ Launch /\ Bounded /\ UserInfo /\ ExitCount
  BY ConstantsAssumption
  DEF Init, Locks, Phases, Launch, Bounded, UserInfo, ExitCount, CondLabels,
      CondCaller, PoolCaller, DoLabels, InitLabels, BeforeLaunch, LaunchLabels,
      Waiting, CL_SUCCESS
<1>3. Running
  <2>1. BusyWorkers = {}
    BY DEF Init, BusyWorkers, Busy
  <2>2. Unlaunched = 0
    BY DEF Init, Unlaunched
  <2> QED
    BY <2>1, <2>2, FS_EmptySet DEF Init, Running
<1>4. QuietTimes
  BY DEF Init, QuietTimes, Quiet, NobodyBusy, Busy
<1> QED
  BY <1>1, <1>2, <1>3, <1>4 DEF IInv

LEMMA IInvNext == IInv /\ [Next]_vars => IInv'
  BY TypeNext, LocksNext, PhasesNext, LaunchNext, BoundedNext, RunningNext,
     QuietNext, UserInfoNext, ExitCountNext
  DEF IInv

\* gRunning counts exactly the busy workers, and the pool is quiet whenever no
\* caller waits for work: the invariant the protocol rests on.
THEOREM PoolInvariant == Spec => []IInv
  BY IInvInit, IInvNext, PTL DEF Spec

\* No job outlives its call, for any number of threads, callers and jobs.
THEOREM JobsEndBeforeTheirCall == Spec => []NoJobOutlivesItsCall
<1>1. IInv => NoJobOutlivesItsCall
  <2> SUFFICES ASSUME IInv, NEW w \in Workers, wpc[w] = "running"
               PROVE  /\ user[w] \in Callers
                      /\ cpc[user[w]] \in {"c_wait", "c_waiting", "c_woken", "c_test"}
    BY DEF NoJobOutlivesItsCall
  <2>1. TypeOK /\ Launch /\ QuietTimes /\ UserInfo
    BY DEF IInv
  <2>2. once = "done" /\ ~NobodyBusy
    BY <2>1 DEF TypeOK, Launch, LaunchLabels, NobodyBusy, Busy, ActiveLabels
  <2>3. PICK c \in Callers : cpc[c] \in Waiting
    BY <2>1, <2>2 DEF QuietTimes
  <2>4. user[w] = c
    BY <2>1, <2>3 DEF UserInfo
  <2> QED
    BY <2>3, <2>4 DEF Waiting
<1> QED
  BY <1>1, PoolInvariant, PTL

\* No worker reads the thread id counter after ThreadPool_Init has returned
\* and its stack frame is gone.
THEOREM CounterOutlivesItsReaders == Spec => []ThreadIdCounterAlive
<1>1. IInv => ThreadIdCounterAlive
  BY DEF IInv, ThreadIdCounterAlive, TypeOK, Launch
<1> QED
  BY <1>1, PoolInvariant, PTL

\* Nothing takes the order to exit back, however many workers obey it.
THEOREM ExitOrderIsFinal == Spec => []ExitOrderStands
<1>1. IInv => ExitOrderStands
  BY ExitOrder DEF IInv, ExitOrderStands
<1> QED
  BY <1>1, PoolInvariant, PTL

=============================================================================
