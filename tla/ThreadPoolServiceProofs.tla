---------------------- MODULE ThreadPoolServiceProofs ----------------------
(***************************************************************************)
(* The thread pool implements JobService, and the thread ids it hands out  *)
(* are distinct: the invariant SInv on top of IInv.  Spurious wakeups of   *)
(* workers and failing launches change nothing of that: FaultInv.          *)
(***************************************************************************)
EXTENDS ThreadPoolService, ThreadPoolFaults, ThreadPoolJobProofs

\* The groups of variables that UNCHANGED names.
USE DEF locks, initial, worker, caller, exiting, history, ConstantsAssumption

-----------------------------------------------------------------------------
(* Thread ids.                                                             *)

\* Ids stay as they are when no worker gets one.
LEMMA NumberedSame ==
  ASSUME TypeOK, ThreadIds, UNCHANGED <<tid, threadID>>,
         \A w \in Workers : wpc'[w] \in {"none", "start"} <=> wpc[w] \in {"none", "start"}
  PROVE  /\ tid' = Cardinality(Numbered)'
         /\ \A w \in Numbered' : threadID'[w] < tid'
         /\ \A v, w \in Numbered' : v # w => threadID'[v] # threadID'[w]
<1>1. Numbered' = Numbered
  BY DEF Numbered
<1> QED
  BY <1>1 DEF ThreadIds

\* A worker that starts gets the next id.
LEMMA IdsStart ==
  ASSUME IInv, ThreadIds, NEW w \in Workers, WStart(w)
  PROVE  ThreadIds'
<1> USE DEF IInv, TypeOK, WStart, WGoto
<1>1. Numbered' = Numbered \cup {w} /\ w \notin Numbered
  BY DEF Numbered
<1>2. IsFiniteSet(Numbered)
  BY WorkersFinite DEF Numbered
<1>3. tid' = Cardinality(Numbered')
  BY <1>1, <1>2, FS_AddElement DEF ThreadIds
<1>4. Numbered \subseteq Workers
  BY DEF Numbered
<1>5. \A v \in Numbered' : threadID'[v] < tid'
  BY <1>1, <1>4 DEF ThreadIds
<1>6. \A u, v \in Numbered' : u # v => threadID'[u] # threadID'[v]
  BY <1>1, <1>4 DEF ThreadIds
<1> QED
  BY <1>3, <1>5, <1>6 DEF ThreadIds

\* What the other steps of a worker have in common.
LEMMA IdsWorkerStep ==
  ASSUME IInv, NEW w \in Workers, WorkerStep(w), ~WStart(w)
  PROVE  /\ UNCHANGED <<tid, threadID, spawned, xpc>>
         /\ \A v \in Workers \ {w} : wpc'[v] = wpc[v]
         /\ wpc[w] \notin {"none", "start"} /\ wpc'[w] \notin {"none", "start"}
         /\ wpc'[w] \in {"exit", "done"} => xpc # "none" \/ wpc[w] = "exit"
         /\ wpc[w] # "exit" => gThreadCount' = gThreadCount
         /\ \A c \in Callers : cpc'[c] = "i_spawn" <=> cpc[c] = "i_spawn"
<1>0. TypeOK /\ (xpc = "none" => gRunCount < MAX_COUNT)
  BY DEF IInv, Bounded
<1>1. CASE WParkLock(w) \/ WDecRunning(w) \/ WSignalLock(w)
  BY <1>0, <1>1 DEF WParkLock, WDecRunning, WSignalLock, WGoto, TypeOK
<1>2. CASE WTakeItem(w) \/ WTake(w)
  <2>1. gRunCount >= MAX_COUNT => xpc # "none"
    BY <1>0, ConstantsAssumption DEF TypeOK
  <2>2. /\ UNCHANGED <<tid, threadID, spawned, xpc, gThreadCount, cpc>>
        /\ wpc' = [wpc EXCEPT ![w] = wpc'[w]]
        /\ wpc[w] \in {"first", "next", "take"}
        /\ wpc'[w] \in {"exit", "plock", "check", "wait", "inc"}
        /\ wpc'[w] = "exit" => gRunCount >= MAX_COUNT
    BY <1>0, <1>2 DEF WTakeItem, WTake, Dispatch, WGoto, TypeOK
  <2> QED
    BY <1>0, <2>1, <2>2 DEF TypeOK
<1>3. CASE WSignal(w)
  BY <1>0, <1>3 DEF WSignal, WakeCallers, WGoto, TypeOK
<1>5. CASE WWait(w) \/ WWoken(w) \/ WIncRunning(w) \/ WParkUnlock(w)
  BY <1>0, <1>5 DEF WWait, WWoken, WIncRunning, WParkUnlock, WGoto, TypeOK
<1>6. CASE WCheckError(w) \/ WCall(w) \/ WSetError(w) \/ WDropWork(w) \/ WExit(w)
  BY <1>0, <1>6 DEF WCheckError, WCall, WSetError, WDropWork, WExit, WGoto, TypeOK
<1>7. CASE \E e \in Errors \cup {CL_SUCCESS} : WReturn(w, e)
  BY <1>0, <1>7 DEF WReturn, WGoto, TypeOK
<1> QED
  BY <1>1, <1>2, <1>3, <1>5, <1>6, <1>7 DEF WorkerStep

LEMMA IdsWorker ==
  ASSUME IInv, ThreadIds, NEW w \in Workers, WorkerStep(w)
  PROVE  ThreadIds'
<1>1. CASE WStart(w)
  BY <1>1, IdsStart
<1>2. CASE ~WStart(w)
  <2>1. TypeOK /\ \A v \in Workers : wpc'[v] \in {"none", "start"}
                                       <=> wpc[v] \in {"none", "start"}
    BY <1>2, IdsWorkerStep DEF IInv
  <2>2. /\ tid' = Cardinality(Numbered)'
        /\ \A v \in Numbered' : threadID'[v] < tid'
        /\ \A u, v \in Numbered' : u # v => threadID'[u] # threadID'[v]
    BY <1>2, <2>1, NumberedSame, IdsWorkerStep
  <2>3. /\ UNCHANGED <<spawned, xpc>>
        /\ \A v \in Workers \ {w} : wpc'[v] = wpc[v]
        /\ wpc[w] # "none"
        /\ wpc'[w] \in {"exit", "done"} => xpc # "none" \/ wpc[w] = "exit"
        /\ wpc[w] # "exit" => gThreadCount' = gThreadCount
        /\ \A c \in Callers : cpc'[c] = "i_spawn" <=> cpc[c] = "i_spawn"
    BY <1>2, IdsWorkerStep
  <2>4. \A v \in Workers : v >= spawned' => wpc'[v] = "none"
    BY <2>3 DEF ThreadIds
  <2>5. \A v \in Workers : wpc'[v] \in {"exit", "done"} => xpc' # "none"
    BY <2>3 DEF ThreadIds
  <2>6. xpc' = "none" /\ spawned' > 0 /\ (\A c \in Callers : cpc'[c] # "i_spawn")
          => gThreadCount' = spawned'
    BY <2>3 DEF ThreadIds
  <2> QED
    BY <2>2, <2>4, <2>5, <2>6 DEF ThreadIds
<1> QED
  BY <1>1, <1>2

LEMMA IdsSpawn ==
  ASSUME IInv, ThreadIds, NEW c \in Callers, ISpawn(c)
  PROVE  ThreadIds'
<1> USE DEF IInv, TypeOK, ISpawn, CGoto
<1>1. spawned \in Workers /\ spawned < gThreadCount /\ wpc[spawned] = "none"
  BY ConstantsAssumption DEF Launch, Workers
<1>2. /\ tid' = Cardinality(Numbered)'
      /\ \A v \in Numbered' : threadID'[v] < tid'
      /\ \A u, v \in Numbered' : u # v => threadID'[u] # threadID'[v]
  BY <1>1, NumberedSame
<1>3. \A v \in Workers : v >= spawned' => wpc'[v] = "none"
  BY <1>1 DEF ThreadIds, Workers
<1>4. (\A d \in Callers : cpc'[d] # "i_spawn") => gThreadCount' = spawned'
  BY <1>1
<1>5. \A v \in Workers : wpc'[v] \in {"exit", "done"} => xpc' # "none"
  BY <1>1 DEF ThreadIds
<1> QED
  BY <1>2, <1>3, <1>4, <1>5 DEF ThreadIds

\* What the other steps of a caller have in common.
LEMMA IdsCallerStep ==
  ASSUME IInv, NEW c \in Callers, CallerStep(c), ~ISpawn(c)
  PROVE  /\ UNCHANGED <<tid, threadID, spawned, xpc>>
         /\ \A v \in Workers : \/ wpc'[v] = wpc[v]
                               \/ wpc[v] = "waiting" /\ wpc'[v] = "woken"
         /\ gThreadCount' = gThreadCount \/ spawned = 0
         /\ \A d \in Callers : cpc[d] = "i_spawn" => cpc'[d] = "i_spawn"
<1> USE DEF IInv, TypeOK, CGoto
<1>1. CASE COnce(c)
  BY <1>1 DEF COnce, AfterOnce
<1>2. CASE \E single \in BOOLEAN, cores \in Cores : IConfigure(c, single, cores)
  BY <1>2 DEF IConfigure, AfterOnce, Launch, BeforeLaunch
<1>3. CASE CCallerLock(c) \/ CWait(c) \/ ISetRunning(c)
  BY <1>3 DEF CCallerLock, CWait, ISetRunning
<1>4. CASE ITest(c)
  BY <1>4 DEF ITest, AfterOnce
<1>5. CASE GRead(c) \/ CInit(c) \/ CSerialCall(c) \/ CSerialEnd(c)
  BY <1>5 DEF GRead, CInit, CSerialCall, CSerialEnd
<1>6. CASE \E e \in Errors \cup {CL_SUCCESS} : CSerialReturn(c, e)
  BY <1>6 DEF CSerialReturn
<1>7. CASE CPoolLock(c) \/ CCondLock(c) \/ CPrimeError(c) \/ CPrimeCount(c)
  BY <1>7 DEF CPoolLock, CCondLock, CPrimeError, CPrimeCount
<1>8. CASE CPrimeFunc(c) \/ CTest(c) \/ CReadError(c) \/ CPoolUnlock(c)
  BY <1>8 DEF CPrimeFunc, CTest, CReadError, CPoolUnlock
<1>9. CASE CBroadcast(c)
  BY <1>9 DEF CBroadcast, WakeWorkers
<1>10. CASE CReturned(c)
  BY <1>10 DEF CReturned
<1> QED
  BY <1>1, <1>2, <1>3, <1>4, <1>5, <1>6, <1>7, <1>8, <1>9, <1>10
  DEF CallerStep

LEMMA ThreadIdsNext == IInv /\ ThreadIds /\ [Next]_vars => ThreadIds'
<1> SUFFICES ASSUME IInv, ThreadIds, [Next]_vars PROVE ThreadIds'
  OBVIOUS
<1>1. CASE \E w \in Workers : WorkerStep(w)
  BY <1>1, IdsWorker
<1>2. CASE \E c \in Callers : ISpawn(c)
  BY <1>2, IdsSpawn
<1>3. CASE ~(\E w \in Workers : WorkerStep(w)) /\ ~(\E c \in Callers : ISpawn(c))
  <2>1. /\ UNCHANGED <<tid, threadID, spawned>>
        /\ xpc # "none" => xpc' # "none"
        /\ \A v \in Workers : \/ wpc'[v] = wpc[v]
                              \/ wpc[v] = "waiting" /\ wpc'[v] = "woken"
        /\ gThreadCount' = gThreadCount \/ spawned = 0
        /\ \A d \in Callers : cpc[d] = "i_spawn" => cpc'[d] = "i_spawn"
    <3>1. CASE \E c \in Callers : CallerStep(c)
      BY <1>3, <3>1, IdsCallerStep
    <3>2. CASE \E n \in SetCounts : SetThreadCount(n)
      BY <3>2 DEF SetThreadCount, IInv, Launch
    <3>3. CASE \E c \in Callers : \/ \E n \in Counts : CCall(c, "do", n)
                                  \/ CCall(c, "count", 0)
      BY <3>3 DEF CCall, CGoto, IInv, TypeOK
    <3>4. CASE XStart \/ ExitStep \/ Terminated \/ UNCHANGED vars
      BY <3>4 DEF XStart, ExitStep, XBroadcast, XTimeout, XJoin, WakeWorkers,
                  Terminated, vars
    <3> QED
      BY <1>3, <3>1, <3>2, <3>3, <3>4 DEF Next
  <2>2. /\ tid' = Cardinality(Numbered)'
        /\ \A v \in Numbered' : threadID'[v] < tid'
        /\ \A u, v \in Numbered' : u # v => threadID'[u] # threadID'[v]
    BY <2>1, NumberedSame DEF IInv
  <2> QED
    BY <2>1, <2>2 DEF ThreadIds
<1> QED
  BY <1>1, <1>2, <1>3

LEMMA ThreadIdsInit == Init => ThreadIds
<1> SUFFICES ASSUME Init PROVE ThreadIds
  OBVIOUS
<1>1. Numbered = {}
  BY DEF Init, Numbered
<1> QED
  BY <1>1, FS_EmptySet DEF Init, ThreadIds

\* Two workers never run a job with the same thread id, and ids index arrays
\* of GetThreadCount() elements.
THEOREM IdsAreDistinct == Spec => []ThreadIdsDistinct
<1>1. ASSUME IInv, ThreadIds, NEW w \in Workers, wpc[w] = "running"
      PROVE  threadID[w] < gThreadCount
  <2>1. xpc = "none" /\ \A c \in Callers : cpc[c] # "i_spawn"
    <3>1. PICK c \in Callers : cpc[c] \in Waiting
      BY <1>1, WorkHasCaller
    <3>2. xpc = "none" /\ once = "done"
      BY <1>1, <3>1, OneCall DEF Waiting, PoolCaller, DoLabels
    <3> QED
      BY <1>1, <3>2 DEF IInv, Phases, InitLabels
  <2>2. spawned \in Nat /\ w < spawned /\ w \in Nat
    BY <1>1 DEF ThreadIds, IInv, TypeOK, Workers
  <2>3. Numbered \subseteq 0 .. (spawned - 1)
    BY <1>1, <2>2 DEF ThreadIds, Numbered, Workers
  <2>4. /\ IsFiniteSet(0 .. (spawned - 1))
        /\ Cardinality(0 .. (spawned - 1)) = spawned
    BY <2>2, FS_Interval
  <2>5. Cardinality(Numbered) <= spawned
    BY <2>3, <2>4, FS_Subset
  <2>6. w \in Numbered /\ threadID[w] < tid /\ tid = Cardinality(Numbered)
    BY <1>1 DEF ThreadIds, Numbered
  <2>7. gThreadCount = spawned
    BY <1>1, <2>1, <2>2 DEF ThreadIds
  <2> QED
    BY <1>1, <2>2, <2>5, <2>6, <2>7 DEF IInv, TypeOK
<1>2. IInv /\ ThreadIds => ThreadIdsDistinct
  BY <1>1 DEF ThreadIdsDistinct, ThreadIds, Numbered
<1>3. Init => ThreadIds
  BY ThreadIdsInit
<1> QED
  BY <1>2, <1>3, ThreadIdsNext, PoolInvariant, PTL DEF Spec

-----------------------------------------------------------------------------
(* The jobs inside the user's function, and calls of GetThreadCount.       *)

\* A worker inside the user's function works for the caller that waits.
LEMMA RunsForWaiting ==
  ASSUME IInv, NEW w \in Workers, wpc[w] = "running"
  PROVE  user[w] = gUserInfo /\ gUserInfo \in Callers /\ cpc[gUserInfo] \in Waiting
  BY WorkHasCaller DEF IInv, UserInfo

\* The job a worker is about to start is one of the call's, and new.
LEMMA StartsNewJob ==
  ASSUME IInv, JInv, NEW w \in Workers, wpc[w] = "call"
  PROVE  /\ gUserInfo \in Callers /\ cpc[gUserInfo] \in Waiting
         /\ item[w] - 1 \in (0 .. count[gUserInfo] - 1) \ started[gUserInfo]
<1>1. PICK c \in Callers : cpc[c] \in Waiting /\ gUserInfo = c
  BY WorkHasCaller DEF Held
<1>2. 1 <= item[w] /\ item[w] <= count[c] /\ item[w] - 1 \notin started[c]
  BY <1>1 DEF JInv, ItemsAreJobs, Held, Out, Window
<1>3. item[w] \in Int /\ count[c] \in Nat
  BY CountIsNat DEF IInv, TypeOK
<1> QED
  BY <1>1, <1>2, <1>3

\* Steps that start no job and end none in a worker.
LEMMA WorkerRunsSame ==
  ASSUME TypeOK, NEW w \in Workers, WorkerStep(w), ~WCall(w),
         ~(\E e \in Errors \cup {CL_SUCCESS} : WReturn(w, e))
  PROVE  /\ UNCHANGED <<user, started, raised, op, count, next, ret>>
         /\ \A v \in Workers : /\ wpc'[v] = "running" <=> wpc[v] = "running"
                               /\ wpc[v] = "running" => item'[v] = item[v]
         /\ cpc' = cpc \/ WakeCallers
  BY DEF TypeOK, WGoto, Dispatch, WorkerStep, WStart, WTakeItem, WParkLock,
         WDecRunning, WSignalLock, WSignal, WWait, WWoken, WTake, WIncRunning,
         WParkUnlock, WCheckError, WSetError, WDropWork, WExit

\* Callers do not disturb the jobs in workers.
LEMMA CallerRunsSame ==
  ASSUME IInv, NEW c \in Callers, CallerStep(c)
  PROVE  /\ UNCHANGED <<user, item>>
         /\ \A v \in Workers : wpc'[v] = "running" <=> wpc[v] = "running"
         /\ \A d \in Callers \ {c} : /\ cpc'[d] = cpc[d] /\ op'[d] = op[d]
                                     /\ count'[d] = count[d] /\ next'[d] = next[d]
                                     /\ ret'[d] = ret[d] /\ started'[d] = started[d]
                                     /\ raised'[d] = raised[d]
         /\ cpc[c] # "returned" => UNCHANGED <<op, count>>
         /\ cpc[c] \notin {"returned", "serial"} => UNCHANGED started
         /\ cpc[c] \notin {"returned", "s_run"} => UNCHANGED raised
         /\ cpc[c] # "returned" => started[c] \subseteq started'[c]
<1>0. TypeOK /\ UNCHANGED <<user, item>>
  BY DEF IInv, CallerStep, COnce, CCallerLock, ISetRunning, ISpawn, CWait, ITest,
         GRead, CInit, CSerialEnd, CPoolLock, CCondLock, CPrimeError,
         CPrimeCount, CPrimeFunc, CBroadcast, CTest, CReadError, CPoolUnlock,
         CReturned, CSerialCall, IConfigure, CSerialReturn
<1>1. CASE ISpawn(c)
  <2>1. \A v \in Workers : v >= spawned => wpc[v] = "none"
    BY <1>1 DEF ISpawn, IInv, Launch
  <2> QED
    BY <1>0, <1>1, <2>1 DEF ISpawn, CGoto, TypeOK
<1>2. CASE CBroadcast(c)
  BY <1>0, <1>2 DEF CBroadcast, WakeWorkers, CGoto, TypeOK
<1>3. CASE CReturned(c)
  BY <1>0, <1>3 DEF CReturned, CGoto, TypeOK
<1>4. CASE CSerialCall(c) \/ CSerialEnd(c)
  BY <1>0, <1>4 DEF CSerialCall, CSerialEnd, CGoto, TypeOK
<1>5. CASE \E e \in Errors \cup {CL_SUCCESS} : CSerialReturn(c, e)
  BY <1>0, <1>5 DEF CSerialReturn, CGoto, TypeOK
<1>6. CASE COnce(c) \/ CCallerLock(c) \/ ISetRunning(c) \/ CWait(c) \/ ITest(c)
  BY <1>0, <1>6 DEF COnce, CCallerLock, ISetRunning, CWait, ITest, CGoto, TypeOK
<1>7. CASE GRead(c) \/ CInit(c) \/ CPoolLock(c) \/ CCondLock(c) \/ CPrimeError(c)
  BY <1>0, <1>7 DEF GRead, CInit, CPoolLock, CCondLock, CPrimeError, CGoto, TypeOK
<1>8. CASE CPrimeCount(c) \/ CPrimeFunc(c) \/ CTest(c) \/ CReadError(c) \/ CPoolUnlock(c)
  BY <1>0, <1>8 DEF CPrimeCount, CPrimeFunc, CTest, CReadError, CPoolUnlock, CGoto, TypeOK
<1>9. CASE \E single \in BOOLEAN, cores \in Cores : IConfigure(c, single, cores)
  BY <1>0, <1>9 DEF IConfigure, CGoto, TypeOK
<1> QED
  BY <1>1, <1>2, <1>3, <1>4, <1>5, <1>6, <1>7, <1>8, <1>9 DEF CallerStep

\* The steps that are neither a worker's nor a caller's inside a call.
LEMMA OthersRunSame ==
  ASSUME \/ \E n \in SetCounts : SetThreadCount(n)
         \/ XStart \/ ExitStep \/ Terminated \/ UNCHANGED vars
  PROVE  /\ UNCHANGED <<user, item, started, raised, op, cpc, count, next, ret>>
         /\ \A v \in Workers : wpc'[v] = "running" <=> wpc[v] = "running"
  BY DEF SetThreadCount, XStart, ExitStep, XBroadcast, XTimeout, XJoin,
         WakeWorkers, Terminated, vars

LEMMA RunningJobsNext == IInv /\ JInv /\ RunningJobs /\ [Next]_vars => RunningJobs'
<1> SUFFICES ASSUME IInv, JInv, RunningJobs, [Next]_vars PROVE RunningJobs'
  OBVIOUS
<1>0. TypeOK
  BY DEF IInv
<1>1. ASSUME /\ \A v \in Workers : wpc'[v] = "running" =>
                  /\ wpc[v] = "running" /\ item'[v] = item[v]
                  /\ user'[v] = user[v]
             /\ \A c \in Callers : started[c] \subseteq started'[c] \/ cpc[c] \notin Waiting
      PROVE  RunningJobs'
  BY <1>1, RunsForWaiting DEF RunningJobs
<1>2. CASE \E w \in Workers : WCall(w)
  <2>1. PICK w \in Workers : WCall(w)
    BY <1>2
  <2>2. /\ wpc[w] = "call" /\ item' = item /\ user'[w] = gUserInfo
        /\ \A v \in Workers \ {w} : wpc'[v] = wpc[v] /\ user'[v] = user[v]
        /\ \A c \in Callers : started[c] \subseteq started'[c]
        /\ gUserInfo \in Callers => started'[gUserInfo] = started[gUserInfo] \cup {item[w] - 1}
    BY <1>0, <2>1 DEF WCall, WGoto, TypeOK
  <2>3. gUserInfo \in Callers /\ item[w] - 1 \notin started[gUserInfo]
    BY <2>2, StartsNewJob
  <2>4. \A v \in Workers : wpc[v] = "running" => item[v] - 1 \in started[gUserInfo]
    BY <2>3, RunsForWaiting DEF RunningJobs
  <2>5. \A v \in Workers : wpc[v] = "running" => item[v] # item[w]
    BY <2>3, <2>4
  <2> QED
    BY <2>2, <2>3, <2>5 DEF RunningJobs
<1>3. CASE \E w \in Workers, e \in Errors \cup {CL_SUCCESS} : WReturn(w, e)
  <2>1. PICK w \in Workers, e \in Errors \cup {CL_SUCCESS} : WReturn(w, e)
    BY <1>3
  <2>2. /\ UNCHANGED <<started, item>> /\ wpc'[w] # "running"
        /\ \A v \in Workers \ {w} : wpc'[v] = wpc[v] /\ user'[v] = user[v]
    BY <1>0, <2>1 DEF WReturn, WGoto, TypeOK
  <2> QED
    BY <1>1, <2>2
<1>4. CASE \E w \in Workers : /\ WorkerStep(w) /\ ~WCall(w)
                              /\ ~(\E e \in Errors \cup {CL_SUCCESS} : WReturn(w, e))
  BY <1>0, <1>1, <1>4, WorkerRunsSame
<1>5. CASE \E c \in Callers : CallerStep(c)
  <2>1. PICK c \in Callers : CallerStep(c)
    BY <1>5
  <2>2. \A d \in Callers : started[d] \subseteq started'[d] \/ cpc[d] \notin Waiting
    BY <1>0, <2>1, CallerRunsSame DEF Waiting
  <2> QED
    BY <1>0, <1>1, <2>1, <2>2, CallerRunsSame
<1>6. CASE \E c \in Callers : \/ \E n \in Counts : CCall(c, "do", n)
                              \/ CCall(c, "count", 0)
  BY <1>1, <1>6 DEF CCall
<1>7. CASE \/ \E n \in SetCounts : SetThreadCount(n)
           \/ XStart \/ ExitStep \/ Terminated \/ UNCHANGED vars
  BY <1>1, <1>7, OthersRunSame
<1> QED
  BY <1>2, <1>3, <1>4, <1>5, <1>6, <1>7 DEF Next

LEMMA NoCallNext == IInv /\ JInv /\ NoCall /\ [Next]_vars => NoCall'
<1> SUFFICES ASSUME IInv, JInv, NoCall, [Next]_vars PROVE NoCall'
  OBVIOUS
<1>0. TypeOK
  BY DEF IInv
<1>1. CASE \E w \in Workers : WorkerStep(w)
  <2>1. PICK w \in Workers : WorkerStep(w)
    BY <1>1
  <2>2. \A c \in Callers : cpc[c] \in Waiting \/ UNCHANGED <<started[c], raised[c]>>
    <3>1. CASE WCall(w)
      BY <3>1, StartsNewJob DEF WCall
    <3>2. CASE \E e \in Errors \cup {CL_SUCCESS} : WReturn(w, e)
      <4>1. user[w] \in Callers /\ cpc[user[w]] \in Waiting /\ UNCHANGED started
        BY <3>2, RunsForWaiting DEF WReturn
      <4> QED
        BY <3>2, <4>1 DEF WReturn
    <3> QED
      BY <1>0, <2>1, <3>1, <3>2, WorkerRunsSame
  <2>3. \A c \in Callers : \/ cpc'[c] = cpc[c]
                           \/ cpc[c] = "i_waiting" /\ cpc'[c] = "i_woken"
                           \/ cpc[c] = "c_waiting" /\ cpc'[c] = "c_woken"
    <3>1. cpc' = cpc \/ WakeCallers
      BY <1>0, <2>1, WorkerRunsSame DEF WCall, WReturn
    <3> QED
      BY <3>1 DEF WakeCallers
  <2>4. UNCHANGED <<op, count>>
    BY <1>0, <2>1, WorkerKeepsCalls
  <2> QED
    BY <2>2, <2>3, <2>4 DEF NoCall, Waiting, InitLabels
<1>2. CASE \E c \in Callers : CallerStep(c)
  <2>1. PICK c \in Callers : CallerStep(c)
    BY <1>2
  <2>2. \A d \in Callers \ {c} :
          /\ cpc'[d] = cpc[d] /\ op'[d] = op[d] /\ count'[d] = count[d]
          /\ started'[d] = started[d] /\ raised'[d] = raised[d]
    BY <2>1, CallerRunsSame
  <2>3. CASE cpc[c] = "returned"
    <3>1. CReturned(c)
      BY <2>1, <2>3
      DEF CallerStep, COnce, CCallerLock, ISetRunning, ISpawn, CWait, ITest,
         GRead, CInit, CSerialEnd, CPoolLock, CCondLock, CPrimeError,
         CPrimeCount, CPrimeFunc, CBroadcast, CTest, CReadError, CPoolUnlock,
         CSerialCall, IConfigure, CSerialReturn
    <3>2. /\ op'[c] = "do" /\ count'[c] = 0
          /\ started'[c] = {} /\ raised'[c] = {}
      BY <1>0, <3>1 DEF CReturned, TypeOK
    <3> QED
      BY <2>2, <3>2 DEF NoCall
  <2>4. CASE cpc[c] # "returned"
    <3>1. op'[c] = op[c] /\ count'[c] = count[c]
      BY <2>1, <2>4, CallerRunsSame
    <3>2. op[c] = "count" => started'[c] = started[c] /\ raised'[c] = raised[c]
      BY <2>1, <2>4, CallerRunsSame DEF NoCall, InitLabels
    <3>3. cpc'[c] # "idle"
      BY <1>0, <2>1, <2>4
      DEF CallerStep, COnce, CCallerLock, ISetRunning, ISpawn, CWait, ITest,
         GRead, CInit, CSerialEnd, CPoolLock, CCondLock, CPrimeError,
         CPrimeCount, CPrimeFunc, CBroadcast, CTest, CReadError, CPoolUnlock,
         CReturned, CSerialCall, IConfigure, CSerialReturn, AfterOnce, CGoto, TypeOK
    <3>4. op[c] = "count" => cpc'[c] \in {"once", "g_read", "returned"} \cup InitLabels
      <4>1. SUFFICES ASSUME op[c] = "count",
                            cpc[c] \in {"once", "g_read"} \cup InitLabels
            PROVE cpc'[c] \in {"once", "g_read", "returned"} \cup InitLabels
        BY <2>4 DEF NoCall
      <4> QED
        BY <1>0, <2>1, <4>1
        DEF CallerStep, COnce, CCallerLock, ISetRunning, ISpawn, CWait, ITest,
         GRead, CInit, CSerialEnd, CPoolLock, CCondLock, CPrimeError,
         CPrimeCount, CPrimeFunc, CBroadcast, CTest, CReadError, CPoolUnlock,
         CReturned, CSerialCall, IConfigure, CSerialReturn, AfterOnce, CGoto,
         TypeOK, InitLabels
    <3> QED
      BY <2>2, <3>1, <3>2, <3>3, <3>4 DEF NoCall
  <2> QED
    BY <2>3, <2>4
<1>3. CASE \E c \in Callers : \/ \E n \in Counts : CCall(c, "do", n)
                              \/ CCall(c, "count", 0)
  BY <1>0, <1>3 DEF CCall, CGoto, NoCall, TypeOK
<1>4. CASE \/ \E n \in SetCounts : SetThreadCount(n)
           \/ XStart \/ ExitStep \/ Terminated \/ UNCHANGED vars
  BY <1>4, OthersRunSame DEF NoCall
<1> QED
  BY <1>1, <1>2, <1>3, <1>4 DEF Next

LEMMA ServiceInvariant == Spec => [](IInv /\ SInv)
<1>1. Init => RunningJobs /\ NoCall
  BY DEF Init, RunningJobs, NoCall
<1>2. Init => IInv /\ SInv
  BY <1>1, IInvInit, JInvInit, ThreadIdsInit DEF SInv
<1>3. IInv /\ SInv /\ [Next]_vars => (IInv /\ SInv)'
  BY IInvNext, JInvNext, ThreadIdsNext, RunningJobsNext, NoCallNext DEF SInv
<1> QED
  BY <1>2, <1>3, PTL DEF Spec

\* Counters, jobs, thread ids and results of the pool are accounted for in every reachable
\* state: the invariant that its correctness as a job service rests on.
THEOREM JobsAreAccountedFor == Spec => []PoolInv
  BY ServiceInvariant, PTL DEF PoolInv

-----------------------------------------------------------------------------
(* The refinement: every step is a step of JobService or a stutter.        *)

\* What is inside the user's function, before and after a step.
LEMMA InService ==
  ASSUME NEW c \in Callers
  PROVE  /\ \A j : j \in ServiceRunning(c) <=>
               \/ \E w \in Workers : wpc[w] = "running" /\ user[w] = c /\ j = item[w] - 1
               \/ cpc[c] = "s_run" /\ j = next[c]
         /\ \A j : j \in ServiceRunning(c)' <=>
               \/ \E w \in Workers : wpc'[w] = "running" /\ user'[w] = c /\ j = item'[w] - 1
               \/ cpc'[c] = "s_run" /\ j = next'[c]
  BY DEF ServiceRunning

LEMMA RunningSame ==
  ASSUME \A v \in Workers : /\ wpc'[v] = "running" <=> wpc[v] = "running"
                            /\ wpc[v] = "running" => /\ item'[v] = item[v]
                                                      /\ user'[v] = user[v],
         NEW c \in Callers,
         cpc'[c] = "s_run" <=> cpc[c] = "s_run",
         cpc[c] = "s_run" => next'[c] = next[c]
  PROVE  ServiceRunning(c)' = ServiceRunning(c)
  BY InService

\* A caller that is not waiting has no job in a worker.
LEMMA NoneRunning ==
  ASSUME IInv, NEW c \in Callers, cpc[c] \notin Waiting \cup {"s_run"}
  PROVE  ServiceRunning(c) = {}
  BY RunsForWaiting, InService

LEMMA Stutter ==
  ASSUME UNCHANGED <<count, started, raised>>,
         \A c \in Callers : /\ ServicePhase(c)' = ServicePhase(c)
                            /\ ServiceRunning(c)' = ServiceRunning(c)
                            /\ ServiceRet(c)' = ServiceRet(c)
  PROVE  UNCHANGED Service!vars
  BY DEF Service!vars, phaseBar, runningBar, retBar

LEMMA WorkerRefines ==
  ASSUME IInv, SInv, NEW w \in Workers, WorkerStep(w)
  PROVE  Service!Next \/ UNCHANGED Service!vars
<1>0. TypeOK /\ JInv /\ RunningJobs /\ NoCall /\ UNCHANGED <<count, op, next, ret>>
  BY WorkerKeepsCalls DEF IInv, SInv
<1>1. \A c \in Callers : ServicePhase(c)' = ServicePhase(c) /\ ServiceRet(c)' = ServiceRet(c)
  <2>1. cpc' = cpc \/ WakeCallers
    BY <1>0, WorkerRunsSame DEF WCall, WReturn
  <2>2. \A c \in Callers : /\ cpc'[c] = "idle" <=> cpc[c] = "idle"
                           /\ cpc'[c] = "returned" <=> cpc[c] = "returned"
    BY <2>1 DEF WakeCallers
  <2> QED
    BY <1>0, <2>2 DEF ServicePhase, ServiceRet
<1>2. phaseBar' = phaseBar /\ retBar' = retBar
  BY <1>1 DEF phaseBar, retBar
<1>3. CASE WCall(w)
  <2> DEFINE c == gUserInfo
             j == item[w] - 1
  <2>1. wpc[w] = "call" /\ c \in Callers /\ cpc[c] \in Waiting
    BY <1>0, <1>3, StartsNewJob DEF WCall
  <2>2. j \in (0 .. count[c] - 1) \ started[c]
    BY <1>0, <2>1, StartsNewJob
  <2>3. /\ UNCHANGED <<item, cpc, raised>> /\ wpc'[w] = "running" /\ user'[w] = c
        /\ \A v \in Workers \ {w} : wpc'[v] = wpc[v] /\ user'[v] = user[v]
        /\ started' = [started EXCEPT ![c] = @ \cup {j}]
    BY <1>0, <1>3, <2>1 DEF WCall, WGoto, TypeOK
  <2> HIDE DEF c, j
  <2>4. phaseBar[c] = "working"
    BY <1>0, <2>1 DEF phaseBar, ServicePhase, NoCall, Waiting, InitLabels, TypeOK
  <2>5. \A d \in Callers : ServiceRunning(d)' =
          IF d = c THEN ServiceRunning(c) \cup {j} ELSE ServiceRunning(d)
    <3> TAKE d \in Callers
    <3>1. ASSUME NEW i PROVE i \in ServiceRunning(d)' <=>
                  i \in ServiceRunning(d) \/ (d = c /\ i = j)
      BY <1>0, <2>1, <2>3, InService DEF j
    <3> QED
      BY <3>1
  <2>6. runningBar' = [runningBar EXCEPT ![c] = @ \cup {j}]
    BY <2>1, <2>5 DEF runningBar
  <2>7. Service!Start(c, j)
    BY <1>0, <1>2, <2>2, <2>3, <2>4, <2>6 DEF Service!Start
  <2> QED
    BY <2>1, <2>2, <2>7 DEF Service!Next
<1>4. CASE \E e \in Errors \cup {CL_SUCCESS} : WReturn(w, e)
  <2>1. PICK e \in Errors \cup {CL_SUCCESS} : WReturn(w, e)
    BY <1>4
  <2> DEFINE c == user[w]
             j == item[w] - 1
  <2>2. wpc[w] = "running" /\ c \in Callers
    BY <2>1, RunsForWaiting DEF WReturn
  <2>3. /\ UNCHANGED <<item, cpc, started>> /\ wpc'[w] # "running"
        /\ \A v \in Workers \ {w} : wpc'[v] = wpc[v] /\ user'[v] = user[v]
        /\ raised' = [raised EXCEPT ![c] = @ \cup ({e} \ {CL_SUCCESS})]
    BY <1>0, <2>1, <2>2 DEF WReturn, WGoto, TypeOK
  <2>4. j \in ServiceRunning(c)
    BY <2>2, InService
  <2>5. \A d \in Callers : ServiceRunning(d)' =
          IF d = c THEN ServiceRunning(c) \ {j} ELSE ServiceRunning(d)
    <3> TAKE d \in Callers
    <3>1. \A v \in Workers \ {w} : wpc[v] = "running" => item[v] - 1 # j
      BY <1>0, <2>2 DEF RunningJobs, TypeOK
    <3>2. cpc[c] # "s_run"
      BY <2>2, RunsForWaiting DEF Waiting
    <3>3. ASSUME NEW i PROVE i \in ServiceRunning(d)' <=>
                  i \in ServiceRunning(d) /\ ~(d = c /\ i = j)
      BY <1>0, <2>2, <2>3, <3>1, <3>2, InService
    <3> QED
      BY <3>3
  <2> HIDE DEF c, j
  <2>6. runningBar' = [runningBar EXCEPT ![c] = @ \ {j}]
    BY <2>2, <2>5 DEF runningBar
  <2>7. j \in runningBar[c]
    BY <2>2, <2>4 DEF runningBar
  <2>8. Service!Finish(c, j, e)
    BY <1>0, <1>2, <2>3, <2>6, <2>7 DEF Service!Finish, Service!CL_SUCCESS, CL_SUCCESS
  <2> QED
    BY <2>2, <2>7, <2>8 DEF Service!Next, Service!CL_SUCCESS, CL_SUCCESS
<1>5. CASE ~WCall(w) /\ ~(\E e \in Errors \cup {CL_SUCCESS} : WReturn(w, e))
  <2>1. /\ UNCHANGED <<user, started, raised>>
        /\ \A v \in Workers : /\ wpc'[v] = "running" <=> wpc[v] = "running"
                              /\ wpc[v] = "running" => item'[v] = item[v]
        /\ cpc' = cpc \/ WakeCallers
    BY <1>0, <1>5, WorkerRunsSame
  <2>2. \A c \in Callers : cpc'[c] = "s_run" <=> cpc[c] = "s_run"
    BY <2>1 DEF WakeCallers
  <2>3. \A c \in Callers : ServiceRunning(c)' = ServiceRunning(c)
    BY <1>0, <2>1, <2>2, RunningSame
  <2> QED
    BY <1>0, <1>1, <2>1, <2>3, Stutter
<1> QED
  BY <1>3, <1>4, <1>5

\* Steps of callers that the job service does not see.
LEMMA CallerStutters ==
  ASSUME IInv, SInv, NEW c \in Callers, CallerStep(c),
         UNCHANGED <<count, op, started, raised>>,
         cpc[c] # "idle" /\ cpc'[c] # "idle",
         op[c] = "do" => cpc[c] # "returned" /\ cpc'[c] # "returned",
         cpc[c] # "s_run" /\ cpc'[c] # "s_run"
  PROVE  UNCHANGED Service!vars
<1>0. /\ UNCHANGED <<user, item>>
      /\ \A v \in Workers : wpc'[v] = "running" <=> wpc[v] = "running"
      /\ \A d \in Callers \ {c} : cpc'[d] = cpc[d] /\ next'[d] = next[d] /\ ret'[d] = ret[d]
  BY CallerRunsSame
<1>1. \A d \in Callers : ServiceRunning(d)' = ServiceRunning(d)
  BY <1>0, RunningSame
<1>2. \A d \in Callers : ServicePhase(d)' = ServicePhase(d) /\ ServiceRet(d)' = ServiceRet(d)
  BY <1>0 DEF ServicePhase, ServiceRet
<1> QED
  BY <1>1, <1>2, Stutter

\* The end of a call, whichever path it takes.
LEMMA CallReturns ==
  ASSUME IInv, SInv, NEW c \in Callers, CallerStep(c),
         UNCHANGED <<count, op, started, raised>>, op[c] = "do",
         cpc[c] \in {"c_init", "serial", "c_unlock"}, cpc'[c] = "returned",
         Result(c)'
  PROVE  Service!Next
<1> DEFINE r == ret'[c]
<1>0. /\ UNCHANGED <<user, item>>
      /\ \A v \in Workers : wpc'[v] = "running" <=> wpc[v] = "running"
      /\ \A d \in Callers \ {c} : cpc'[d] = cpc[d] /\ next'[d] = next[d] /\ ret'[d] = ret[d]
  BY CallerRunsSame
<1>1. \A d \in Callers : ServiceRunning(d)' = ServiceRunning(d)
  BY <1>0, RunningSame
<1>2. runningBar' = runningBar /\ runningBar[c] = {}
  BY <1>1, NoneRunning DEF runningBar, Waiting
<1>3. phaseBar[c] = "working"
  BY DEF phaseBar, ServicePhase
<1>4. phaseBar' = [phaseBar EXCEPT ![c] = "returned"]
  BY <1>0 DEF phaseBar, ServicePhase
<1>5. retBar' = [retBar EXCEPT ![c] = r]
  BY <1>0 DEF retBar, ServiceRet, ServicePhase
<1>6. /\ \/ r = CL_SUCCESS /\ started[c] = 0 .. count[c] - 1 /\ raised[c] = {}
         \/ r \in raised[c]
         \/ r = -1 /\ count[c] >= MAX_COUNT /\ started[c] = {}
      /\ r \in Errors \cup {CL_SUCCESS, -1}
  BY DEF Result, IInv, TypeOK
<1> HIDE DEF r
<1>7. Service!Return(c, r)
  BY <1>2, <1>3, <1>4, <1>5, <1>6 DEF Service!Return, Service!CL_SUCCESS, CL_SUCCESS
<1> QED
  BY <1>6, <1>7 DEF Service!Next, Service!CL_SUCCESS, CL_SUCCESS

\* The application takes the result.
LEMMA CallForgotten ==
  ASSUME IInv, SInv, NEW c \in Callers, CReturned(c)
  PROVE  Service!Next \/ UNCHANGED Service!vars
<1>0. TypeOK /\ NoCall /\ CallerStep(c)
  BY DEF IInv, SInv, CallerStep
<1>1. /\ cpc[c] = "returned" /\ cpc'[c] = "idle"
      /\ count' = [count EXCEPT ![c] = 0]
      /\ started' = [started EXCEPT ![c] = {}]
      /\ raised' = [raised EXCEPT ![c] = {}]
  BY <1>0 DEF CReturned, CGoto, TypeOK
<1>2. /\ UNCHANGED <<user, item>>
      /\ \A v \in Workers : wpc'[v] = "running" <=> wpc[v] = "running"
      /\ \A d \in Callers \ {c} : /\ cpc'[d] = cpc[d] /\ next'[d] = next[d]
                                  /\ ret'[d] = ret[d] /\ op'[d] = op[d]
  BY <1>0, CallerRunsSame
<1>3. \A d \in Callers : ServiceRunning(d)' = ServiceRunning(d)
  BY <1>1, <1>2, RunningSame
<1>4. runningBar' = runningBar
  BY <1>3 DEF runningBar
<1>5. CASE op[c] = "do"
  <2>1. phaseBar[c] = "returned" /\ phaseBar' = [phaseBar EXCEPT ![c] = "idle"]
    BY <1>1, <1>2, <1>5 DEF phaseBar, ServicePhase
  <2>2. retBar' = [retBar EXCEPT ![c] = CL_SUCCESS]
    BY <1>1, <1>2, <1>5 DEF retBar, ServiceRet, ServicePhase
  <2>3. Service!Forget(c)
    BY <1>1, <1>4, <2>1, <2>2 DEF Service!Forget, Service!CL_SUCCESS, CL_SUCCESS
  <2> QED
    BY <2>3 DEF Service!Next
<1>6. CASE op[c] = "count"
  <2>1. UNCHANGED <<count, started, raised>>
    BY <1>0, <1>1, <1>6 DEF NoCall, TypeOK
  <2>2. \A d \in Callers : ServicePhase(d)' = ServicePhase(d) /\ ServiceRet(d)' = ServiceRet(d)
    BY <1>1, <1>2, <1>6 DEF ServicePhase, ServiceRet
  <2> QED
    BY <1>3, <2>1, <2>2, Stutter
<1> QED
  BY <1>0, <1>5, <1>6 DEF TypeOK

\* The serial loop starts a job.
LEMMA SerialStarts ==
  ASSUME IInv, SInv, NEW c \in Callers, CSerialCall(c)
  PROVE  Service!Next
<1> DEFINE j == next[c]
<1>0. TypeOK /\ NoCall /\ CallState /\ CallerStep(c)
  BY DEF IInv, SInv, JInv, CallerStep
<1>1. /\ cpc[c] = "serial" /\ cpc'[c] = "s_run" /\ j < count[c]
      /\ UNCHANGED <<count, op, next, ret, raised>>
      /\ started' = [started EXCEPT ![c] = @ \cup {j}]
  BY <1>0 DEF CSerialCall, CGoto, TypeOK
<1>2. /\ UNCHANGED <<user, item>>
      /\ \A v \in Workers : wpc'[v] = "running" <=> wpc[v] = "running"
      /\ \A d \in Callers \ {c} : cpc'[d] = cpc[d]
  BY <1>0, CallerRunsSame
<1>3. op[c] = "do" /\ phaseBar[c] = "working"
  BY <1>0, <1>1 DEF NoCall, InitLabels, TypeOK, phaseBar, ServicePhase
<1>4. j \in (0 .. count[c] - 1) \ started[c]
  <2>1. started[c] = 0 .. j - 1 /\ j \in Nat /\ count[c] \in Nat
    BY <1>0, <1>1, CountIsNat DEF CallState, TypeOK
  <2> QED
    BY <1>1, <2>1
<1>5. phaseBar' = phaseBar /\ retBar' = retBar
  BY <1>1, <1>2, <1>3 DEF phaseBar, retBar, ServiceRet, ServicePhase
<1>6. \A d \in Callers \ {c} : ServiceRunning(d)' = ServiceRunning(d)
  BY <1>1, <1>2, RunningSame
<1>7. ServiceRunning(c)' = ServiceRunning(c) \cup {j}
  BY <1>1, <1>2, InService
<1>8. runningBar' = [runningBar EXCEPT ![c] = @ \cup {j}]
  BY <1>6, <1>7 DEF runningBar
<1> HIDE DEF j
<1>9. Service!Start(c, j)
  BY <1>1, <1>3, <1>4, <1>5, <1>8 DEF Service!Start
<1> QED
  BY <1>4, <1>9 DEF Service!Next

\* ... and the job returns.
LEMMA SerialFinishes ==
  ASSUME IInv, SInv, NEW c \in Callers, NEW e \in Errors \cup {CL_SUCCESS},
         CSerialReturn(c, e)
  PROVE  Service!Next
<1> DEFINE j == next[c]
<1>0. TypeOK /\ NoCall /\ CallerStep(c)
  BY DEF IInv, SInv, CallerStep
<1>1. /\ cpc[c] = "s_run" /\ cpc'[c] = "serial" /\ UNCHANGED <<count, op, started>>
      /\ raised' = [raised EXCEPT ![c] = @ \cup ({e} \ {CL_SUCCESS})]
  BY <1>0 DEF CSerialReturn, CGoto, TypeOK
<1>2. /\ UNCHANGED <<user, item>>
      /\ \A v \in Workers : wpc'[v] = "running" <=> wpc[v] = "running"
      /\ \A d \in Callers \ {c} : cpc'[d] = cpc[d] /\ next'[d] = next[d] /\ ret'[d] = ret[d]
  BY <1>0, CallerRunsSame
<1>3. op[c] = "do"
  BY <1>0, <1>1 DEF NoCall, InitLabels, TypeOK
<1>4. phaseBar' = phaseBar /\ retBar' = retBar
  BY <1>1, <1>2, <1>3 DEF phaseBar, retBar, ServiceRet, ServicePhase
<1>5. \A d \in Callers \ {c} : ServiceRunning(d)' = ServiceRunning(d)
  BY <1>2, RunningSame
<1>6. \A w \in Workers : wpc[w] = "running" => user[w] # c
  BY <1>1, RunsForWaiting DEF Waiting
<1>7. ServiceRunning(c)' = {} /\ ServiceRunning(c) = {j}
  BY <1>1, <1>2, <1>6, InService
<1>8. runningBar' = [runningBar EXCEPT ![c] = @ \ {j}] /\ j \in runningBar[c]
  BY <1>5, <1>7 DEF runningBar
<1> HIDE DEF j
<1>9. Service!Finish(c, j, e)
  BY <1>1, <1>4, <1>8 DEF Service!Finish, Service!CL_SUCCESS, CL_SUCCESS
<1> QED
  BY <1>8, <1>9 DEF Service!Next, Service!CL_SUCCESS, CL_SUCCESS

LEMMA CallerRefines ==
  ASSUME IInv, SInv, NEW c \in Callers, CallerStep(c)
  PROVE  Service!Next \/ UNCHANGED Service!vars
<1>0. TypeOK /\ NoCall /\ Next
  BY DEF IInv, SInv, Next
<1>1. CASE CReturned(c)
  BY <1>1, CallForgotten
<1>2. CASE CSerialCall(c)
  BY <1>2, SerialStarts
<1>3. CASE \E e \in Errors \cup {CL_SUCCESS} : CSerialReturn(c, e)
  BY <1>3, SerialFinishes
<1>4. CASE cpc'[c] = "returned" /\ (CInit(c) \/ CSerialEnd(c) \/ CPoolUnlock(c))
  <2>1. /\ UNCHANGED <<count, op, started, raised>>
        /\ cpc[c] \in {"c_init", "serial", "c_unlock"}
    BY <1>4 DEF CInit, CSerialEnd, CPoolUnlock
  <2>2. op[c] = "do"
    BY <1>0, <2>1 DEF NoCall, InitLabels, TypeOK
  <2>3. Result(c)'
    <3>1. Results'
      BY <1>0, JInvNext DEF SInv, JInv
    <3> QED
      BY <1>4, <2>1, <2>2, <3>1 DEF Results
  <2> QED
    BY <1>4, <2>1, <2>2, <2>3, CallReturns
<1>5. CASE GRead(c)
  <2>1. /\ cpc[c] = "g_read" /\ cpc'[c] = "returned"
        /\ UNCHANGED <<count, op, started, raised>>
    BY <1>0, <1>5 DEF GRead, CGoto, TypeOK
  <2>2. op[c] = "count"
    BY <2>1 DEF SInv, JInv, Results
  <2> QED
    BY <2>1, <2>2, CallerStutters
<1>6. CASE /\ ~CReturned(c) /\ ~CSerialCall(c) /\ ~GRead(c)
           /\ ~(\E e \in Errors \cup {CL_SUCCESS} : CSerialReturn(c, e))
           /\ ~(cpc'[c] = "returned" /\ (CInit(c) \/ CSerialEnd(c) \/ CPoolUnlock(c)))
  <2>1. UNCHANGED <<count, op, started, raised>> /\ cpc[c] \notin {"idle", "returned", "s_run"}
    BY <1>6
    DEF CallerStep, COnce, CCallerLock, ISetRunning, ISpawn, CWait, ITest,
        CInit, CSerialEnd, CPoolLock, CCondLock, CPrimeError, CPrimeCount,
        CPrimeFunc, CBroadcast, CTest, CReadError, CPoolUnlock, IConfigure
  <2>2. cpc'[c] \notin {"idle", "returned", "s_run"}
    BY <1>0, <1>6
    DEF CallerStep, COnce, CCallerLock, ISetRunning, ISpawn, CWait, ITest,
        CInit, CSerialEnd, CPoolLock, CCondLock, CPrimeError, CPrimeCount,
        CPrimeFunc, CBroadcast, CTest, CReadError, CPoolUnlock, IConfigure,
        AfterOnce, CGoto, TypeOK
  <2> QED
    BY <2>1, <2>2, CallerStutters
<1> QED
  BY <1>1, <1>2, <1>3, <1>4, <1>5, <1>6

\* A call of ThreadPool_Do is a call of the service, one of GetThreadCount is not.
LEMMA CallRefines ==
  ASSUME TypeOK, NoCall, NEW c \in Callers, NEW o \in {"do", "count"}, NEW n,
         CCall(c, o, n), o = "do" => n \in Counts, o = "count" => n = 0
  PROVE  Service!Next \/ UNCHANGED Service!vars
<1>1. /\ cpc[c] = "idle" /\ cpc'[c] = "once" /\ op'[c] = o
      /\ count' = [count EXCEPT ![c] = n]
      /\ UNCHANGED <<wpc, item, user, next, ret, started, raised>>
      /\ \A d \in Callers \ {c} : cpc'[d] = cpc[d] /\ op'[d] = op[d]
  BY DEF CCall, CGoto, TypeOK
<1>2. \A d \in Callers : ServiceRunning(d)' = ServiceRunning(d)
  BY <1>1, RunningSame
<1>3. \A d \in Callers : ServiceRet(d)' = ServiceRet(d)
  BY <1>1 DEF ServiceRet, ServicePhase
<1>4. \A d \in Callers \ {c} : ServicePhase(d)' = ServicePhase(d)
  BY <1>1 DEF ServicePhase
<1>5. CASE o = "do"
  <2>1. phaseBar[c] = "idle" /\ phaseBar' = [phaseBar EXCEPT ![c] = "working"]
    BY <1>1, <1>4, <1>5 DEF phaseBar, ServicePhase
  <2>2. runningBar' = runningBar /\ retBar' = retBar
    BY <1>2, <1>3 DEF runningBar, retBar
  <2>3. Service!Call(c, n)
    BY <1>1, <2>1, <2>2 DEF Service!Call
  <2> QED
    BY <1>5, <2>3 DEF Service!Next
<1>6. CASE o = "count"
  <2>1. UNCHANGED <<count, started, raised>>
    BY <1>1, <1>6 DEF NoCall, TypeOK
  <2>2. ServicePhase(c)' = ServicePhase(c)
    BY <1>1, <1>6 DEF ServicePhase
  <2> QED
    BY <1>2, <1>3, <1>4, <2>1, <2>2, Stutter
<1> QED
  BY <1>5, <1>6

LEMMA StepRefines ==
  IInv /\ SInv /\ [Next]_vars => [Service!Next]_Service!vars
<1> SUFFICES ASSUME IInv, SInv, [Next]_vars
    PROVE Service!Next \/ UNCHANGED Service!vars
  OBVIOUS
<1>1. CASE \E w \in Workers : WorkerStep(w)
  BY <1>1, WorkerRefines
<1>2. CASE \E c \in Callers : CallerStep(c)
  BY <1>2, CallerRefines
<1>3. CASE \E c \in Callers : \/ \E n \in Counts : CCall(c, "do", n)
                              \/ CCall(c, "count", 0)
  BY <1>3, CallRefines DEF IInv, SInv
<1>4. CASE \/ \E n \in SetCounts : SetThreadCount(n)
           \/ XStart \/ ExitStep \/ Terminated \/ UNCHANGED vars
  <2>1. /\ UNCHANGED <<user, item, started, raised, op, cpc, count, next, ret>>
        /\ \A v \in Workers : wpc'[v] = "running" <=> wpc[v] = "running"
    BY <1>4, OthersRunSame
  <2>2. \A c \in Callers : ServiceRunning(c)' = ServiceRunning(c)
    BY <2>1, RunningSame
  <2>3. \A c \in Callers : ServicePhase(c)' = ServicePhase(c) /\ ServiceRet(c)' = ServiceRet(c)
    BY <2>1 DEF ServicePhase, ServiceRet
  <2> QED
    BY <2>1, <2>2, <2>3, Stutter
<1> QED
  BY <1>1, <1>2, <1>3, <1>4 DEF Next

\* The pool keeps the promises of ThreadPool.h, for any number of workers,
\* callers and jobs: to its callers, ThreadPool_Do cannot be told from the
\* job service, which has no threads, counters, locks or condition variables.
THEOREM PoolIsAJobService == Spec => ImplementsJobService
<1>1. Init => Service!Init
  BY DEF Init, Service!Init, Service!CL_SUCCESS, CL_SUCCESS, phaseBar, retBar,
         runningBar, ServicePhase, ServiceRet, ServiceRunning
<1> QED
  BY <1>1, StepRefines, ServiceInvariant, PTL
  DEF Spec, ImplementsJobService, Service!Spec

-----------------------------------------------------------------------------
(* Faults: workers that wake for no reason, and threads that fail to start. *)

\* A worker that is woken changes nothing but its place in the wait.
LEMMA SpuriousWakeKeeps ==
  ASSUME IInv, SInv, NEW w \in Workers, SpuriousWorkerWake(w)
  PROVE  IInv' /\ SInv' /\ UNCHANGED Service!vars
<1>1. /\ wpc' = [wpc EXCEPT ![w] = "woken"] /\ wpc[w] = "waiting"
      /\ UNCHANGED <<gRunCount, gRunning, gThreadCount, jobError, gUserInfo, threadPoolInitErr,
                     once, spawned, tid, cond_lock, caller_cond_lock, gThreadPoolLock>>
      /\ UNCHANGED <<item, threadID, user, werr, cpc, op, count, next, ret, xpc, spins,
                     started, raised>>
  BY DEF SpuriousWorkerWake, WGoto
<1>2. /\ TypeOK /\ TypeOK'
      /\ \A v \in Workers : wpc'[v] = IF v = w THEN "woken" ELSE wpc[v]
  BY <1>1 DEF IInv, TypeOK, WorkerLabels
<1>3. BusyWorkers' = BusyWorkers /\ GoneWorkers' = GoneWorkers /\ Unlaunched' = Unlaunched
  <2>1. BusyWorkers' = BusyWorkers
    BY <1>1, <1>2 DEF BusyWorkers, Busy, ActiveLabels
  <2>2. GoneWorkers' = GoneWorkers
    BY <1>1, <1>2 DEF GoneWorkers
  <2> QED
    BY <1>1, <2>1, <2>2 DEF Unlaunched
<1>4. (NobodyBusy <=> NobodyBusy') /\ (Quiet <=> Quiet')
  BY <1>1, <1>2 DEF NobodyBusy, Quiet, Busy, ActiveLabels
<1>5. Locks' /\ Phases' /\ Bounded'
  BY <1>1, <1>2 DEF IInv, Locks, Phases, Bounded, CondLabels
<1>6. Launch'
  BY <1>1, <1>2 DEF IInv, Launch, LaunchLabels, BeforeLaunch
<1>7. Running' /\ ExitCount'
  BY <1>1, <1>3 DEF IInv, Running, ExitCount
<1>8. QuietTimes' /\ UserInfo'
  BY <1>1, <1>2, <1>4 DEF IInv, QuietTimes, UserInfo
<1>9. JInv'
  <2>1. \A v \in Workers : /\ wpc'[v] \in Held <=> wpc[v] \in Held
                           /\ wpc'[v] = "cas" <=> wpc[v] = "cas"
                           /\ wpc'[v] = "zero" <=> wpc[v] = "zero"
    BY <1>1, <1>2 DEF Held
  <2>2. ItemsAreJobs' /\ NoJobLost'
    BY <1>1, <2>1 DEF SInv, JInv, ItemsAreJobs, NoJobLost
  <2>3. ErrorsKept' /\ CallState' /\ Results'
    BY <1>1, <2>1 DEF SInv, JInv, ErrorsKept, CallState, Results, Result
  <2> QED
    BY <2>2, <2>3 DEF JInv
<1>10. ThreadIds'
  <2>1. Numbered' = Numbered
    BY <1>1, <1>2 DEF Numbered
  <2> QED
    BY <1>1, <1>2, <2>1 DEF SInv, ThreadIds
<1>11. RunningJobs' /\ NoCall'
  BY <1>1, <1>2 DEF SInv, RunningJobs, NoCall
<1>12. UNCHANGED Service!vars
  <2>1. \A c \in Callers : ServiceRunning(c)' = ServiceRunning(c)
    BY <1>1, <1>2, RunningSame
  <2> QED
    BY <1>1, <2>1, Stutter DEF ServicePhase, ServiceRet
<1> QED
  BY <1>2, <1>5, <1>6, <1>7, <1>8, <1>9, <1>10, <1>11, <1>12 DEF IInv, SInv

\* A thread that fails to start: gRunning counts it all the same.
LEMMA SpawnFailureStops ==
  ASSUME IInv, SInv, NEW c \in Callers, SpawnFails(c)
  PROVE  LaunchFailed' /\ UNCHANGED Service!vars
<1>1. /\ cpc[c] = "i_spawn" /\ cpc' = [cpc EXCEPT ![c] = "i_wait"]
      /\ threadPoolInitErr' = EAGAIN /\ gThreadCount' = spawned
      /\ UNCHANGED <<gRunCount, gRunning, jobError, gUserInfo, once, spawned, tid, cond_lock,
                     caller_cond_lock, gThreadPoolLock>>
      /\ UNCHANGED <<wpc, item, threadID, user, werr, op, count, next, ret, xpc, spins,
                     started, raised>>
  BY DEF SpawnFails, CGoto
<1>2. TypeOK /\ TypeOK'
  BY <1>1, FaultsAssumption DEF IInv, TypeOK, CallerLabels, InitLabels
<1>3. /\ once = "running" /\ cpc'[c] = "i_wait"
      /\ \A d \in Callers \ {c} : cpc'[d] = cpc[d] /\ cpc[d] \in {"idle", "once"}
  BY <1>1, <1>2 DEF IInv, Phases, InitLabels, TypeOK
<1>4. Phases'
  BY <1>1, <1>3, FaultsAssumption DEF IInv, Phases, InitLabels
<1>5. NoCall'
  BY <1>1, <1>3 DEF SInv, NoCall, InitLabels
<1>6. /\ xpc = "none" /\ gRunCount <= 0
      /\ \A w \in Workers : wpc[w] \in LaunchLabels \ {"slock", "sig"}
  BY <1>1, <1>3 DEF IInv, Phases, Launch, QuietTimes
<1>7. gRunning > Cardinality(BusyWorkers)
  <2>1. spawned < gThreadCount /\ Unlaunched = gThreadCount - spawned
    BY <1>1 DEF IInv, Launch, Unlaunched
  <2>2. gRunning = Cardinality(BusyWorkers) + (gThreadCount - spawned)
    BY <2>1 DEF IInv, Running
  <2>3. Cardinality(BusyWorkers) \in Nat
    BY WorkersFinite DEF BusyWorkers
  <2> QED
    BY <1>2, <2>1, <2>2, <2>3 DEF TypeOK
<1>8. BusyWorkers' = BusyWorkers
  BY <1>1 DEF BusyWorkers
<1>9. UNCHANGED Service!vars
  <2>1. \A d \in Callers : ServiceRunning(d)' = ServiceRunning(d)
    BY <1>1, <1>3, RunningSame
  <2> QED
    BY <1>1, <1>3, <2>1, Stutter DEF ServicePhase, ServiceRet
<1> QED
  BY <1>1, <1>2, <1>3, <1>4, <1>5, <1>6, <1>7, <1>8, <1>9 DEF LaunchFailed

\* After that the workers start and park, none of them as the last one out.
LEMMA FailedWorker ==
  ASSUME LaunchFailed, NEW w \in Workers,
         WorkerStep(w) \/ SpuriousWorkerWake(w)
  PROVE  /\ UNCHANGED <<cpc, op, count, next, ret, xpc, started, raised, once>>
         /\ gRunCount' <= 0
         /\ \A v \in Workers : wpc'[v] \in LaunchLabels \ {"slock", "sig"}
         /\ gRunning' > Cardinality(BusyWorkers')
<1>1. /\ TypeOK /\ wpc[w] \in LaunchLabels \ {"slock", "sig"} /\ gRunCount <= 0
      /\ gRunning > Cardinality(BusyWorkers) /\ gRunCount \in Int /\ gRunning \in Int
      /\ MAX_COUNT \in Nat \ {0}
  BY ConstantsAssumption DEF LaunchFailed, TypeOK
<1>2. ~(gRunCount >= MAX_COUNT)
  BY <1>1
<1>3. wpc[w] = "dec" => gRunning # 1
  <2>1. SUFFICES ASSUME wpc[w] = "dec" PROVE Cardinality(BusyWorkers) >= 1
    BY <1>1, WorkersFinite DEF BusyWorkers
  <2>2. w \in BusyWorkers /\ IsFiniteSet(BusyWorkers) /\ Cardinality(BusyWorkers) \in Nat
    BY <2>1, WorkersFinite DEF BusyWorkers, Busy, ActiveLabels
  <2> QED
    BY <2>2, FS_EmptySet
<1>4. /\ UNCHANGED <<cpc, op, count, next, ret, xpc, started, raised, once>>
      /\ \A v \in Workers \ {w} : wpc'[v] = wpc[v]
      /\ gRunCount' \in {gRunCount, gRunCount - 1}
      /\ \/ gRunning' = gRunning - 1 /\ wpc[w] = "dec" /\ wpc'[w] = "wait"
         \/ /\ gRunning' = gRunning
            /\ <<wpc[w], wpc'[w]>> \in
                 {<<"start", "first">>, <<"first", "plock">>, <<"plock", "dec">>,
                  <<"wait", "waiting">>, <<"waiting", "woken">>, <<"woken", "take">>,
                  <<"take", "wait">>}
  <2> USE <1>1, <1>2 DEF TypeOK, LaunchLabels, WGoto
  <2>1. CASE WStart(w) \/ WParkLock(w) \/ WWait(w) \/ WWoken(w)
    BY <2>1 DEF WStart, WParkLock, WWait, WWoken
  <2>2. CASE WTakeItem(w)
    BY <2>2 DEF WTakeItem, Dispatch
  <2>3. CASE WDecRunning(w)
    BY <1>3, <2>3 DEF WDecRunning
  <2>4. CASE WTake(w)
    BY <2>4 DEF WTake
  <2>5. CASE SpuriousWorkerWake(w)
    BY <2>5 DEF SpuriousWorkerWake
  <2>6. ~(\/ WSignalLock(w) \/ WSignal(w) \/ WIncRunning(w) \/ WParkUnlock(w) \/ WCheckError(w)
          \/ WCall(w) \/ (\E e \in Errors \cup {CL_SUCCESS} : WReturn(w, e))
          \/ WSetError(w) \/ WDropWork(w) \/ WExit(w))
    BY DEF WSignalLock, WSignal, WIncRunning, WParkUnlock, WCheckError, WCall, WReturn,
       WSetError, WDropWork, WExit
  <2> QED
    BY <2>1, <2>2, <2>3, <2>4, <2>5, <2>6 DEF WorkerStep
<1>5. \A v \in Workers : wpc'[v] \in LaunchLabels \ {"slock", "sig"}
  <2>1. wpc'[w] \in LaunchLabels \ {"slock", "sig"}
    BY <1>4 DEF LaunchLabels
  <2> QED
    BY <1>4, <2>1 DEF LaunchFailed
<1>6. gRunning' > Cardinality(BusyWorkers')
  <2>1. Cardinality(BusyWorkers) \in Nat
    BY WorkersFinite DEF BusyWorkers
  <2>2. CASE gRunning' = gRunning - 1 /\ wpc[w] = "dec" /\ wpc'[w] = "wait"
    <3>1. Cardinality(BusyWorkers') = Cardinality(BusyWorkers) - 1
      BY <1>4, <2>2, BusyMove DEF Busy, ActiveLabels
    <3> QED
      BY <1>1, <2>1, <2>2, <3>1
  <2>3. CASE ~(gRunning' = gRunning - 1 /\ wpc[w] = "dec" /\ wpc'[w] = "wait")
    <3>1. wpc[w] \in Busy <=> wpc'[w] \in Busy
      BY <1>4, <2>3 DEF Busy, ActiveLabels
    <3>2. BusyWorkers' = BusyWorkers
      BY <1>4, <3>1, BusyMove
    <3> QED
      BY <1>1, <1>4, <2>3, <3>2
  <2> QED
    BY <2>2, <2>3
<1>7. gRunCount' <= 0
  BY <1>1, <1>4
<1> QED
  BY <1>4, <1>5, <1>6, <1>7

\* ThreadPool_Init goes to wait, and that is all a caller can do but call.
LEMMA FailedCaller ==
  ASSUME LaunchFailed, NEW c \in Callers, CallerStep(c) \/ SpawnFails(c)
  PROVE  cpc[c] = "i_wait" /\ CWait(c)
<1>1. /\ once = "running" /\ TypeOK
      /\ cpc[c] \in {"idle", "once", "i_wait", "i_waiting"}
  <2>1. PICK d \in Callers : cpc[d] \in {"i_wait", "i_waiting"}
    BY DEF LaunchFailed
  <2>2. Phases /\ TypeOK
    BY DEF LaunchFailed
  <2>3. once = "running" /\ \A e \in Callers : cpc[e] \in InitLabels => e = d
    BY <2>1, <2>2 DEF Phases, InitLabels
  <2> QED
    BY <2>1, <2>2, <2>3 DEF Phases
<1>2. ~(\/ COnce(c) \/ CCallerLock(c) \/ ISetRunning(c) \/ ISpawn(c) \/ ITest(c) \/ GRead(c)
        \/ CInit(c) \/ CSerialEnd(c) \/ CPoolLock(c) \/ CCondLock(c) \/ SpawnFails(c))
  BY <1>1 DEF COnce, CCallerLock, ISetRunning, ISpawn, ITest, GRead, CInit, CSerialEnd,
     CPoolLock, CCondLock, SpawnFails
<1>3. ~(\/ CPrimeError(c) \/ CPrimeCount(c) \/ CPrimeFunc(c) \/ CBroadcast(c) \/ CTest(c)
        \/ CReadError(c) \/ CPoolUnlock(c) \/ CReturned(c) \/ CSerialCall(c)
        \/ (\E single \in BOOLEAN, cores \in Cores : IConfigure(c, single, cores))
        \/ (\E e \in Errors \cup {CL_SUCCESS} : CSerialReturn(c, e)))
  BY <1>1 DEF CPrimeError, CPrimeCount, CPrimeFunc, CBroadcast, CTest, CReadError, CPoolUnlock,
     CReturned, CSerialCall, IConfigure, CSerialReturn
<1>4. CWait(c)
  BY <1>2, <1>3 DEF CallerStep
<1> QED
  BY <1>1, <1>4 DEF CWait

\* No step leads out of a failed launch, and none but the calls themselves is
\* one the job service sees.
LEMMA LaunchStaysFailed ==
  ASSUME LaunchFailed,
         \/ [Next]_vars
         \/ \E w \in Workers : SpuriousWorkerWake(w)
         \/ \E c \in Callers : SpawnFails(c)
  PROVE  LaunchFailed' /\ (Service!Next \/ UNCHANGED Service!vars)
<1>1. /\ TypeOK /\ Phases /\ NoCall /\ xpc = "none" /\ once = "running"
      /\ \A v \in Workers : wpc[v] \in LaunchLabels
  BY DEF LaunchFailed, Phases, InitLabels
<1>2. CASE \E w \in Workers : WorkerStep(w) \/ SpuriousWorkerWake(w)
  <2>1. PICK w \in Workers : WorkerStep(w) \/ SpuriousWorkerWake(w)
    BY <1>2
  <2>2. /\ UNCHANGED <<cpc, op, count, next, ret, xpc, started, raised, once>>
        /\ gRunCount' <= 0
        /\ \A v \in Workers : wpc'[v] \in LaunchLabels \ {"slock", "sig"}
        /\ gRunning' > Cardinality(BusyWorkers')
    BY <2>1, FailedWorker
  <2>3. TypeOK' /\ threadPoolInitErr' = threadPoolInitErr
    <3>1. CASE WorkerStep(w)
      BY <1>1, <3>1, TypeWorker DEF WorkerStep, WStart, WTakeItem, WParkLock, WDecRunning,
         WSignalLock, WSignal, WWait, WWoken, WTake, WIncRunning, WParkUnlock, WCheckError,
         WCall, WReturn, WSetError, WDropWork, WExit
    <3>2. CASE SpuriousWorkerWake(w)
      BY <1>1, <3>2 DEF SpuriousWorkerWake, WGoto, TypeOK, WorkerLabels
    <3> QED
      BY <2>1, <3>1, <3>2
  <2>4. Phases' /\ NoCall'
    BY <1>1, <2>2, <2>3 DEF Phases, NoCall
  <2>5. \A v \in Workers : wpc[v] # "running" /\ wpc'[v] # "running"
    BY <1>1, <2>2 DEF LaunchLabels
  <2>6. \A c \in Callers : ServiceRunning(c)' = ServiceRunning(c)
    BY <2>2, <2>5, RunningSame
  <2>7. UNCHANGED Service!vars
    BY <2>2, <2>6, Stutter DEF ServicePhase, ServiceRet
  <2> QED
    BY <1>1, <2>2, <2>3, <2>4, <2>7 DEF LaunchFailed
<1>3. CASE \E c \in Callers : CallerStep(c) \/ SpawnFails(c)
  <2>1. PICK c \in Callers : cpc[c] = "i_wait" /\ CWait(c)
    BY <1>3, FailedCaller
  <2>2. /\ cpc' = [cpc EXCEPT ![c] = "i_waiting"]
        /\ UNCHANGED <<wpc, item, user, op, count, next, ret, xpc, started, raised, once>>
        /\ UNCHANGED <<gRunCount, gRunning, threadPoolInitErr>>
    BY <2>1 DEF CWait, CGoto
  <2>3. TypeOK'
    BY <1>1, <2>1, TypeCaller DEF CallerStep
  <2>4. \A d \in Callers : cpc'[d] = IF d = c THEN "i_waiting" ELSE cpc[d]
    BY <1>1, <2>2 DEF TypeOK
  <2>5. Phases'
    BY <1>1, <2>1, <2>2, <2>4 DEF Phases, InitLabels
  <2>6. NoCall'
    BY <1>1, <2>1, <2>2, <2>4 DEF NoCall, InitLabels
  <2>7. BusyWorkers' = BusyWorkers
    BY <2>2 DEF BusyWorkers
  <2>8. LaunchFailed'
    BY <2>2, <2>3, <2>4, <2>5, <2>6, <2>7 DEF LaunchFailed
  <2>9. \A d \in Callers : ServiceRunning(d)' = ServiceRunning(d)
    BY <2>1, <2>2, <2>4, RunningSame
  <2>10. UNCHANGED Service!vars
    BY <2>1, <2>2, <2>4, <2>9, Stutter DEF ServicePhase, ServiceRet
  <2> QED
    BY <2>8, <2>10
<1>4. ASSUME NEW c \in Callers, NEW o \in {"do", "count"}, NEW n,
             CCall(c, o, n), o = "do" => n \in Counts, o = "count" => n = 0
      PROVE  LaunchFailed' /\ (Service!Next \/ UNCHANGED Service!vars)
  <2>1. /\ cpc[c] = "idle" /\ cpc' = [cpc EXCEPT ![c] = "once"]
        /\ op' = [op EXCEPT ![c] = o] /\ count' = [count EXCEPT ![c] = n]
        /\ UNCHANGED <<wpc, item, user, next, ret, xpc, started, raised, once>>
        /\ UNCHANGED <<gRunCount, gRunning, threadPoolInitErr>>
    BY <1>4 DEF CCall, CGoto
  <2>2. TypeOK'
    <3>1. [Next]_vars
      BY <1>4 DEF Next
    <3> QED
      BY <1>1, <3>1, TypeNext
  <2>3. \A d \in Callers : /\ cpc'[d] = IF d = c THEN "once" ELSE cpc[d]
                           /\ op'[d] = IF d = c THEN o ELSE op[d]
                           /\ count'[d] = IF d = c THEN n ELSE count[d]
    BY <1>1, <2>1 DEF TypeOK
  <2>4. Phases'
    BY <1>1, <2>1, <2>3 DEF Phases, InitLabels
  <2>5. NoCall'
    BY <1>1, <1>4, <2>1, <2>3 DEF NoCall
  <2>6. BusyWorkers' = BusyWorkers
    BY <2>1 DEF BusyWorkers
  <2>7. LaunchFailed'
    BY <2>1, <2>2, <2>3, <2>4, <2>5, <2>6 DEF LaunchFailed
  <2>8. Service!Next \/ UNCHANGED Service!vars
    BY <1>1, <1>4, CallRefines
  <2> QED
    BY <2>7, <2>8
<1>5. ~(\/ \E n \in SetCounts : SetThreadCount(n)
        \/ XStart \/ ExitStep \/ Terminated)
  BY <1>1 DEF SetThreadCount, XStart, ExitStep, XBroadcast, XTimeout, XJoin, Terminated
<1>6. CASE UNCHANGED vars
  <2>1. LaunchFailed'
    BY <1>6 DEF LaunchFailed, vars, TypeOK, Phases, NoCall, BusyWorkers
  <2>2. \A c \in Callers : ServiceRunning(c)' = ServiceRunning(c)
    BY <1>6, RunningSame DEF vars
  <2>3. UNCHANGED Service!vars
    BY <1>6, <2>2, Stutter DEF vars, ServicePhase, ServiceRet
  <2> QED
    BY <2>1, <2>3
<1>7. CASE \E c \in Callers : \/ \E n \in Counts : CCall(c, "do", n)
                              \/ CCall(c, "count", 0)
  BY <1>4, <1>7
<1> QED
  BY <1>2, <1>3, <1>5, <1>6, <1>7 DEF Next

LEMMA FaultStep ==
  ASSUME FaultInv,
         [\/ Usual
          \/ \E w \in Workers : SpuriousWorkerWake(w)
          \/ \E c \in Callers : SpawnFails(c)]_fvars
  PROVE  FaultInv' /\ [Service!Next]_Service!vars
<1>1. \/ [Next]_vars
      \/ \E w \in Workers : SpuriousWorkerWake(w)
      \/ \E c \in Callers : SpawnFails(c)
  BY DEF Usual, fvars
<1>2. CASE LaunchFailed
  BY <1>1, <1>2, LaunchStaysFailed DEF FaultInv, PoolInv
<1>3. CASE IInv /\ SInv
  <2>1. CASE [Next]_vars
    <3>1. IInv' /\ SInv'
      BY <1>3, <2>1, IInvNext, JInvNext, ThreadIdsNext, RunningJobsNext, NoCallNext DEF SInv
    <3> QED
      BY <1>3, <2>1, <3>1, StepRefines DEF FaultInv, PoolInv
  <2>2. CASE \E w \in Workers : SpuriousWorkerWake(w)
    BY <1>3, <2>2, SpuriousWakeKeeps DEF FaultInv, PoolInv
  <2>3. CASE \E c \in Callers : SpawnFails(c)
    BY <1>3, <2>3, SpawnFailureStops DEF FaultInv, PoolInv
  <2> QED
    BY <1>1, <2>1, <2>2, <2>3
<1> QED
  BY <1>2, <1>3 DEF FaultInv, PoolInv

\* Whatever wakeups without a broadcast the workers get, and whichever threads
\* cannot be launched, the pool is in order or is never used.
THEOREM FaultsLeaveOrder == WorkerFaultSpec => []FaultInv
<1>1. FInit => FaultInv
  <2>1. Init => RunningJobs /\ NoCall
    BY DEF Init, RunningJobs, NoCall
  <2> QED
    BY <2>1, IInvInit, JInvInit, ThreadIdsInit DEF FInit, FaultInv, PoolInv, SInv
<1> QED
  BY <1>1, FaultStep, PTL DEF WorkerFaultSpec

\* Under these faults, too, the pool keeps the promises of ThreadPool.h, as far
\* as they are about safety.
THEOREM FaultyPoolIsAJobService == WorkerFaultSpec => ImplementsJobService
<1>1. FInit => Service!Init
  BY DEF FInit, Init, Service!Init, Service!CL_SUCCESS, CL_SUCCESS, phaseBar, retBar,
         runningBar, ServicePhase, ServiceRet, ServiceRunning
<1> QED
  BY <1>1, FaultStep, FaultsLeaveOrder, PTL
  DEF WorkerFaultSpec, ImplementsJobService, Service!Spec

\* No job outlives its call, results are right and no job runs twice, under the
\* same faults.
THEOREM FaultsAreHarmless ==
  WorkerFaultSpec => [](NoJobOutlivesItsCall /\ ReturnIsRight) /\ JobsRunOnce
<1>1. ASSUME LaunchFailed
      PROVE  /\ \A w \in Workers : wpc[w] \notin {"call", "running"}
             /\ \A c \in Callers : cpc[c] # "returned"
  BY <1>1 DEF LaunchFailed, LaunchLabels, Phases, InitLabels
<1>2. ASSUME FaultInv PROVE NoJobOutlivesItsCall
  BY <1>1, <1>2, RunsForWaiting DEF FaultInv, PoolInv, NoJobOutlivesItsCall, Waiting
<1>3. ASSUME FaultInv PROVE ReturnIsRight
  BY <1>1, <1>3 DEF FaultInv, PoolInv, SInv, JInv, Results, Result, ReturnIsRight
<1>4. ASSUME FaultInv, NEW w \in Workers, wpc[w] = "call"
      PROVE  /\ gUserInfo \in Callers
             /\ item[w] - 1 \in (0 .. count[gUserInfo] - 1) \ started[gUserInfo]
  BY <1>1, <1>4, StartsNewJob DEF FaultInv, PoolInv, SInv
<1>5. FaultInv =>
        [\A w \in Workers : wpc[w] = "call" /\ wpc'[w] = "running" =>
           /\ gUserInfo \in Callers
           /\ item[w] - 1 \in (0 .. count[gUserInfo] - 1) \ started[gUserInfo]]_vars
  BY <1>4
<1>6. FaultInv => NoJobOutlivesItsCall /\ ReturnIsRight
  BY <1>2, <1>3
<1> QED
  BY <1>5, <1>6, FaultsLeaveOrder, PTL DEF JobsRunOnce

-----------------------------------------------------------------------------
(* ThreadPool_Exit, and launches that fail.                                *)

LEMMA LeftFinite == IsFiniteSet(LeftWorkers)
  BY WorkersFinite, FS_Subset DEF LeftWorkers

\* A step of a worker: only the one that returns is counted out.
LEMMA LaunchedWorker ==
  ASSUME IInv, SInv, Launched, NEW w \in Workers, WorkerStep(w)
  PROVE  Launched'
<1>0. TypeOK
  BY DEF IInv
<1>1. /\ UNCHANGED <<spawned, threadPoolInitErr, xpc>>
      /\ cpc' = cpc \/ WakeCallers
      /\ \A v \in Workers \ {w} : wpc'[v] = wpc[v]
      /\ wpc[w] # "none" /\ wpc'[w] # "none" /\ wpc[w] # "done"
  <2>1. CASE WStart(w) \/ WTakeItem(w) \/ WParkLock(w) \/ WDecRunning(w) \/ WSignalLock(w)
    BY <1>0, <2>1 DEF WStart, WTakeItem, WParkLock, WDecRunning, WSignalLock, WGoto, Dispatch,
       TypeOK
  <2>2. CASE WSignal(w) \/ WWait(w) \/ WWoken(w) \/ WTake(w) \/ WIncRunning(w)
    BY <1>0, <2>2 DEF WSignal, WWait, WWoken, WTake, WIncRunning, WGoto, TypeOK
  <2>3. CASE WParkUnlock(w) \/ WCheckError(w) \/ WCall(w) \/ WSetError(w) \/ WDropWork(w)
    BY <1>0, <2>3 DEF WParkUnlock, WCheckError, WCall, WSetError, WDropWork, WGoto, TypeOK
  <2>4. CASE WExit(w) \/ \E e \in Errors \cup {CL_SUCCESS} : WReturn(w, e)
    BY <1>0, <2>4 DEF WExit, WReturn, WGoto, TypeOK
  <2> QED
    BY <2>1, <2>2, <2>3, <2>4 DEF WorkerStep
<1>2. \A c \in Callers : cpc'[c] \in {"i_wait", "i_waiting", "i_woken", "i_test"} =>
                         cpc[c] \in {"i_wait", "i_waiting", "i_woken", "i_test"}
  BY <1>0, <1>1 DEF WakeCallers, TypeOK
<1>3. ExitKnowsWhoIsLeft'
  <2>1. CASE WExit(w)
    <3>1. wpc'[w] = "done" /\ gThreadCount' = gThreadCount - 1
      BY <1>0, <2>1 DEF WExit, WGoto, TypeOK
    <3>2. w \in LeftWorkers /\ LeftWorkers' = LeftWorkers \ {w}
      BY <1>1, <3>1 DEF LeftWorkers
    <3>3. Cardinality(LeftWorkers') = Cardinality(LeftWorkers) - 1
      BY <3>2, LeftFinite, FS_RemoveElement
    <3> QED
      BY <1>1, <3>1, <3>3 DEF Launched, ExitKnowsWhoIsLeft
  <2>2. CASE ~WExit(w)
    <3>1. wpc'[w] # "done" /\ gThreadCount' = gThreadCount
      <4>1. CASE WStart(w) \/ WTakeItem(w) \/ WParkLock(w) \/ WDecRunning(w) \/ WSignalLock(w)
        BY <1>0, <4>1 DEF WStart, WTakeItem, WParkLock, WDecRunning, WSignalLock, WGoto,
           Dispatch, TypeOK
      <4>2. CASE WSignal(w) \/ WWait(w) \/ WWoken(w) \/ WTake(w) \/ WIncRunning(w)
        BY <1>0, <4>2 DEF WSignal, WWait, WWoken, WTake, WIncRunning, WGoto, TypeOK
      <4>3. CASE WParkUnlock(w) \/ WCheckError(w) \/ WCall(w) \/ WSetError(w) \/ WDropWork(w)
        BY <1>0, <4>3 DEF WParkUnlock, WCheckError, WCall, WSetError, WDropWork, WGoto, TypeOK
      <4>4. CASE \E e \in Errors \cup {CL_SUCCESS} : WReturn(w, e)
        BY <1>0, <4>4 DEF WReturn, WGoto, TypeOK
      <4> QED
        BY <2>2, <4>1, <4>2, <4>3, <4>4 DEF WorkerStep
    <3>2. LeftWorkers' = LeftWorkers
      BY <1>1, <3>1 DEF LeftWorkers
    <3> QED
      BY <1>1, <3>1, <3>2 DEF Launched, ExitKnowsWhoIsLeft
  <2> QED
    BY <2>1, <2>2
<1> QED
  BY <1>1, <1>2, <1>3 DEF Launched

\* A step of a caller: there is none once ThreadPool_Exit has begun.
LEMMA LaunchedCaller ==
  ASSUME IInv, SInv, Launched, NEW c \in Callers, CallerStep(c)
  PROVE  Launched'
<1>0. TypeOK
  BY DEF IInv
<1>1. cpc[c] # "idle"
  BY DEF CallerStep, COnce, CCallerLock, ISetRunning, ISpawn, CWait, ITest, GRead, CInit,
     CSerialEnd, CPoolLock, CCondLock, CPrimeError, CPrimeCount, CPrimeFunc, CBroadcast, CTest,
     CReadError, CPoolUnlock, CReturned, CSerialCall, IConfigure, CSerialReturn
<1>2. xpc = "none" /\ xpc' = "none"
  <2>1. xpc = "none"
    BY <1>1 DEF IInv, Phases
  <2>2. xpc' = xpc
    BY DEF CallerStep, COnce, CCallerLock, ISetRunning, ISpawn, CWait, ITest, GRead, CInit,
       CSerialEnd, CPoolLock, CCondLock, CPrimeError, CPrimeCount, CPrimeFunc, CBroadcast, CTest,
       CReadError, CPoolUnlock, CReturned, CSerialCall, IConfigure, CSerialReturn
  <2> QED
    BY <2>1, <2>2
<1>3. ExitKnowsWhoIsLeft'
  BY <1>2 DEF ExitKnowsWhoIsLeft
<1>4. CASE ISpawn(c)
  <2>1. /\ spawned \in Workers /\ spawned' = spawned + 1 /\ wpc'[spawned] = "start"
        /\ \A v \in Workers \ {spawned} : wpc'[v] = wpc[v]
        /\ UNCHANGED threadPoolInitErr
    <3>1. /\ spawned \in Nat /\ spawned < gThreadCount /\ gThreadCount <= MaxThreads
          /\ gThreadCount \in Int
      BY <1>0, <1>4 DEF ISpawn, IInv, Launch, TypeOK
    <3>2. spawned \in Workers
      BY <3>1, ConstantsAssumption DEF Workers
    <3> QED
      BY <1>0, <1>4, <3>2 DEF ISpawn, TypeOK
  <2>2. spawned' > 0 /\ \A v \in Workers : v < spawned' => v < spawned \/ v = spawned
    BY <1>0, <2>1 DEF TypeOK, Workers
  <2> QED
    BY <1>3, <2>1, <2>2 DEF Launched
<1>5. CASE ITest(c)
  <2>1. /\ UNCHANGED <<spawned, wpc>> /\ spawned > 0
    BY <1>5 DEF ITest, Launched
  <2> QED
    BY <1>3, <2>1 DEF Launched
<1>6. CASE ~ISpawn(c) /\ ~ITest(c)
  <2>1. UNCHANGED <<spawned, threadPoolInitErr>> /\ (wpc' = wpc \/ WakeWorkers)
    BY <1>6 DEF CallerStep, COnce, CCallerLock, ISetRunning, CWait, GRead, CInit,
       CSerialEnd, CPoolLock, CCondLock, CPrimeError, CPrimeCount, CPrimeFunc, CBroadcast, CTest,
       CReadError, CPoolUnlock, CReturned, CSerialCall, IConfigure, CSerialReturn
  <2>2. \A v \in Workers : wpc[v] # "none" => wpc'[v] # "none"
    BY <1>0, <2>1 DEF WakeWorkers, TypeOK
  <2>3. \A d \in Callers : cpc'[d] \in {"i_wait", "i_waiting", "i_woken", "i_test"} =>
                           cpc[d] \in {"i_wait", "i_waiting", "i_woken", "i_test"}
    <3>1. \E l : cpc' = [cpc EXCEPT ![c] = l] /\
                 (l \in {"i_wait", "i_waiting", "i_woken", "i_test"} =>
                    cpc[c] \in {"i_wait", "i_waiting", "i_woken", "i_test"})
      BY <1>0, <1>6 DEF CallerStep, COnce, CCallerLock, ISetRunning, CWait, GRead, CInit,
         CSerialEnd, CPoolLock, CCondLock, CPrimeError, CPrimeCount, CPrimeFunc, CBroadcast,
         CTest, CReadError, CPoolUnlock, CReturned, CSerialCall, IConfigure, CSerialReturn,
         CGoto, AfterOnce
    <3> QED
      BY <1>0, <3>1 DEF TypeOK
  <2> QED
    BY <1>3, <2>1, <2>2, <2>3 DEF Launched
<1> QED
  BY <1>4, <1>5, <1>6

\* When ThreadPool_Exit begins nobody has left: gThreadCount is the number launched.
LEMMA LaunchedExit ==
  ASSUME IInv, SInv, Launched, XStart
  PROVE  Launched'
<1>1. /\ xpc = "none" /\ threadPoolInitErr = CL_SUCCESS
      /\ \A c \in Callers : cpc[c] = "idle"
      /\ UNCHANGED <<spawned, threadPoolInitErr, wpc, cpc, gThreadCount>>
  BY DEF XStart
<1>2. spawned > 0 /\ gThreadCount = spawned
  BY <1>1 DEF Launched, SInv, ThreadIds
<1>3. \A w \in Workers : w \in LeftWorkers <=> w < spawned
  <2>1. \A w \in Workers : wpc[w] # "done" /\ (wpc[w] = "none" <=> ~(w < spawned))
    BY <1>1 DEF SInv, ThreadIds, Launched, IInv, TypeOK, Workers
  <2> QED
    BY <2>1 DEF LeftWorkers
<1>4. LeftWorkers = 0 .. spawned - 1
  <2>1. spawned \in Nat /\ spawned <= MaxThreads /\ MaxThreads \in Nat
    BY <1>2, ConstantsAssumption DEF IInv, Launch, TypeOK
  <2>2. LeftWorkers \subseteq Workers
    BY DEF LeftWorkers
  <2>3. \A w \in Workers : w < spawned <=> w \in 0 .. spawned - 1
    BY <2>1 DEF Workers
  <2>4. 0 .. spawned - 1 \subseteq Workers
    BY <2>1 DEF Workers
  <2> QED
    BY <1>3, <2>2, <2>3, <2>4, Zenon
<1>5. Cardinality(LeftWorkers) = spawned
  BY <1>2, <1>4, FS_Interval DEF IInv, TypeOK
<1>6. LeftWorkers' = LeftWorkers
  BY <1>1 DEF LeftWorkers
<1> QED
  BY <1>1, <1>2, <1>5, <1>6 DEF Launched, ExitKnowsWhoIsLeft

LEMMA LaunchedNext ==
  ASSUME IInv, SInv, Launched,
         [Next]_vars \/ \E w \in Workers : SpuriousWorkerWake(w)
  PROVE  Launched'
<1>0. TypeOK
  BY DEF IInv
<1>1. ASSUME UNCHANGED <<spawned, threadPoolInitErr, gThreadCount>>, xpc' # "none" => xpc # "none",
             \A v \in Workers : /\ wpc'[v] = "none" <=> wpc[v] = "none"
                                /\ wpc'[v] = "done" <=> wpc[v] = "done",
             \A c \in Callers : cpc'[c] \in {cpc[c], "once"}
      PROVE  Launched'
  <2>1. LeftWorkers' = LeftWorkers
    BY <1>1 DEF LeftWorkers
  <2> QED
    BY <1>1, <2>1 DEF Launched, ExitKnowsWhoIsLeft
<1>2. CASE XBroadcast \/ (\E w \in Workers : SpuriousWorkerWake(w))
  BY <1>0, <1>1, <1>2 DEF XBroadcast, SpuriousWorkerWake, WakeWorkers, WGoto, TypeOK
<1>3. CASE XTimeout \/ XJoin \/ Terminated \/ UNCHANGED vars
  BY <1>1, <1>3 DEF XTimeout, XJoin, Terminated, vars
<1>4. CASE \E c \in Callers : (\E n \in Counts : CCall(c, "do", n)) \/ CCall(c, "count", 0)
  BY <1>0, <1>1, <1>4 DEF CCall, CGoto, TypeOK
<1>5. CASE \E n \in SetCounts : SetThreadCount(n)
  <2>1. /\ UNCHANGED <<spawned, threadPoolInitErr, wpc, cpc, xpc>> /\ once = "new"
    BY <1>5 DEF SetThreadCount
  <2>2. xpc = "none"
    BY <2>1 DEF IInv, Phases
  <2> QED
    BY <2>1, <2>2 DEF Launched, ExitKnowsWhoIsLeft
<1> QED
  BY <1>2, <1>3, <1>4, <1>5, LaunchedWorker, LaunchedCaller, LaunchedExit DEF Next, ExitStep

\* Whenever ThreadPool_Exit looks at gThreadCount it is the number of workers that
\* have not left, with spurious wakeups of workers and failing launches, too.
THEOREM ExitCountIsRight == WorkerFaultSpec => []ExitKnowsWhoIsLeft
<1> DEFINE Good == (PoolInv /\ Launched) \/ LaunchFailed
<1>1. FInit => PoolInv /\ Launched
  <2>1. Init => RunningJobs /\ NoCall
    BY DEF Init, RunningJobs, NoCall
  <2>2. Init => Launched
    BY ConstantsAssumption DEF Init, Launched, ExitKnowsWhoIsLeft, CL_SUCCESS, Workers
  <2> QED
    BY <2>1, <2>2, IInvInit, JInvInit, ThreadIdsInit DEF FInit, PoolInv, SInv
<1>2. ASSUME Good, [\/ Usual
                    \/ \E w \in Workers : SpuriousWorkerWake(w)
                    \/ \E c \in Callers : SpawnFails(c)]_fvars
      PROVE  Good'
  <2>1. \/ [Next]_vars
        \/ \E w \in Workers : SpuriousWorkerWake(w)
        \/ \E c \in Callers : SpawnFails(c)
    BY <1>2 DEF Usual, fvars
  <2>2. CASE LaunchFailed
    BY <2>1, <2>2, LaunchStaysFailed
  <2>3. CASE PoolInv /\ Launched /\ \E c \in Callers : SpawnFails(c)
    BY <2>3, SpawnFailureStops DEF PoolInv
  <2>4. CASE /\ PoolInv /\ Launched
             /\ [Next]_vars \/ \E w \in Workers : SpuriousWorkerWake(w)
    <3>1. IInv /\ SInv /\ Launched'
      BY <2>4, LaunchedNext DEF PoolInv
    <3>2. IInv' /\ SInv'
      BY <2>4, <3>1, IInvNext, JInvNext, ThreadIdsNext, RunningJobsNext, NoCallNext,
         SpuriousWakeKeeps DEF SInv
    <3> QED
      BY <3>1, <3>2 DEF PoolInv
  <2> QED
    BY <1>2, <2>1, <2>2, <2>3, <2>4
<1>3. Good => ExitKnowsWhoIsLeft
  BY DEF Launched, LaunchFailed, ExitKnowsWhoIsLeft
<1> HIDE DEF Good
<1>4. FInit => Good
  BY <1>1 DEF Good
<1> QED
  BY <1>2, <1>3, <1>4, PTL DEF WorkerFaultSpec

\* A launch that fails is final: from then on the thread in ThreadPool_Init waits for
\* a signal that no worker gives, the others wait for it, and no job is handed out.
THEOREM FailedLaunchIsFinal ==
  WorkerFaultSpec =>
    [][/\ LaunchFailed => LaunchFailed'
       /\ (\E c \in Callers : SpawnFails(c)) => LaunchFailed']_fvars
<1>1. ASSUME FaultInv, [\/ Usual
                        \/ \E w \in Workers : SpuriousWorkerWake(w)
                        \/ \E c \in Callers : SpawnFails(c)]_fvars
      PROVE  /\ LaunchFailed => LaunchFailed'
             /\ (\E c \in Callers : SpawnFails(c)) => LaunchFailed'
  <2>1. \/ [Next]_vars
        \/ \E w \in Workers : SpuriousWorkerWake(w)
        \/ \E c \in Callers : SpawnFails(c)
    BY <1>1 DEF Usual, fvars
  <2>2. LaunchFailed => LaunchFailed'
    BY <2>1, LaunchStaysFailed
  <2>3. PoolInv /\ (\E c \in Callers : SpawnFails(c)) => LaunchFailed'
    BY SpawnFailureStops DEF PoolInv
  <2> QED
    BY <1>1, <2>2, <2>3 DEF FaultInv
<1> QED
  BY <1>1, FaultsLeaveOrder, PTL DEF WorkerFaultSpec
=============================================================================
