------------------------ MODULE ThreadPoolJobProofs ------------------------
(***************************************************************************)
(* ThreadPool_Do runs every job once and returns the right result, for any *)
(* number of workers, callers and jobs: the invariant JInv on top of IInv. *)
(***************************************************************************)
EXTENDS ThreadPoolProofs

\* The groups of variables that UNCHANGED names.
USE DEF locks, initial, worker, caller, exiting, history, ConstantsAssumption

LEMMA CountIsNat == TypeOK => \A c \in Callers : count[c] \in Nat
<1>1. \A n \in Counts \cup {0} : n \in Nat
  BY ConstantsAssumption
<1>2. TypeOK => \A c \in Callers : count[c] \in Counts \cup {0}
  BY Zenon DEF TypeOK
<1> QED
  BY <1>1, <1>2, Zenon

LEMMA ErrorsAreNonZero ==
  TypeOK => \A c \in Callers : raised[c] \subseteq Int \ {CL_SUCCESS}
<1>1. Errors \subseteq Int \ {CL_SUCCESS}
  BY ConstantsAssumption
<1>2. TypeOK => \A c \in Callers : raised[c] \subseteq Errors
  BY DEF TypeOK
<1> QED
  BY <1>1, <1>2

\* gThreadPoolLock lets one call hand out jobs at a time.
LEMMA OneCall ==
  ASSUME IInv, NEW c \in Callers, cpc[c] \in PoolCaller
  PROVE  /\ once = "done" /\ xpc = "none"
         /\ \A d \in Callers : cpc[d] \in PoolCaller => d = c
  BY DEF IInv, TypeOK, Phases, Locks, PoolCaller, DoLabels, InitLabels

LEMMA OutIsPoolCaller == Out \subseteq PoolCaller
  BY DEF Out, Window, Waiting, PoolCaller, DoLabels

\* A worker that is at work works for the one caller that waits.
LEMMA WorkHasCaller ==
  ASSUME IInv, NEW w \in Workers,
         wpc[w] \in Held \cup {"running", "cas", "zero", "next"}
  PROVE  \E c \in Callers : /\ cpc[c] \in Waiting /\ gUserInfo = c
                            /\ \A d \in Callers : cpc[d] \in Out => d = c
<1>0. TypeOK /\ Launch /\ QuietTimes /\ UserInfo
  BY DEF IInv
<1>1. once = "done" /\ ~NobodyBusy
  BY <1>0 DEF TypeOK, Launch, LaunchLabels, NobodyBusy, Busy, ActiveLabels, Held
<1>2. PICK c \in Callers : cpc[c] \in Waiting
  BY <1>0, <1>1 DEF QuietTimes
<1>3. gUserInfo = c /\ \A d \in Callers : cpc[d] \in Out => d = c
  BY <1>0, <1>2, OneCall, OutIsPoolCaller DEF UserInfo, Out, Window
<1> QED
  BY <1>2, <1>3

\* While a call primes the pool, or has been woken, no worker has an item.
LEMMA NoHolders ==
  ASSUME IInv, NEW c \in Callers,
         cpc[c] \in PoolCaller \ Waiting
  PROVE  NobodyBusy /\ (cpc[c] \notin {"p_func", "c_bcast"} => gRunCount <= 0)
<1>1. once = "done" /\ xpc = "none" /\ \A d \in Callers : cpc[d] \in PoolCaller => d = c
  BY OneCall
<1>2. \A d \in Callers : cpc[d] \notin Waiting
  BY <1>1 DEF PoolCaller, DoLabels, Waiting
<1>3. NobodyBusy
  BY <1>1, <1>2 DEF IInv, QuietTimes
<1>4. ASSUME cpc[c] \notin {"p_func", "c_bcast"} PROVE gRunCount <= 0
  <2>1. \A d \in Callers : cpc[d] \notin Window
    BY <1>1, <1>2, <1>4 DEF PoolCaller, DoLabels, Waiting, Window
  <2> QED
    BY <1>1, <2>1 DEF IInv, QuietTimes, Quiet
<1> QED
  BY <1>3, <1>4

-----------------------------------------------------------------------------
(* Steps of workers.                                                       *)

LEMMA WorkerKeepsCalls ==
  ASSUME TypeOK, NEW w \in Workers, WorkerStep(w)
  PROVE  /\ UNCHANGED <<count, op, next, ret>>
         /\ \A c \in Callers : cpc'[c] \in Out <=> cpc[c] \in Out
         /\ \A v \in Workers \ {w} : /\ wpc'[v] = wpc[v] /\ item'[v] = item[v]
                                     /\ werr'[v] = werr[v]
<1>1. UNCHANGED <<count, op, next, ret>> /\ (cpc' = cpc \/ WakeCallers)
  BY DEF WorkerStep, WStart, WTakeItem, WParkLock, WDecRunning, WSignalLock,
         WSignal, WWait, WWoken, WTake, WIncRunning, WParkUnlock, WCheckError,
         WCall, WReturn, WSetError, WDropWork, WExit
<1>2. \A v \in Workers \ {w} : wpc'[v] = wpc[v] /\ item'[v] = item[v] /\ werr'[v] = werr[v]
  BY DEF TypeOK, WGoto, WorkerStep, WStart, WTakeItem, WParkLock, WDecRunning,
         WSignalLock, WSignal, WWait, WWoken, WTake, WIncRunning, WParkUnlock,
         WCheckError, WCall, WReturn, WSetError, WDropWork, WExit
<1> QED
  BY <1>1, <1>2 DEF WakeCallers, Out, Window, Waiting, TypeOK

\* The item a worker takes is the next one of the call.
LEMMA TakeKeepsItems ==
  ASSUME IInv, ItemsAreJobs, NoJobLost, NEW w \in Workers, WTakeItem(w) \/ WTake(w),
         NEW c \in Callers, cpc[c] \in Out
  PROVE  /\ gRunCount' = gRunCount - 1
         /\ UNCHANGED <<cpc, started, raised, count>>
         /\ wpc'[w] \in Held <=> 0 < gRunCount
         /\ item'[w] = gRunCount
         /\ wpc[w] \notin Held
<1>1. TypeOK /\ Bounded /\ xpc = "none"
  BY OneCall, OutIsPoolCaller DEF IInv
<1> QED
  BY <1>1, ConstantsAssumption
  DEF WTakeItem, WTake, Dispatch, WGoto, TypeOK, Bounded, Held

LEMMA ItemsWorker ==
  ASSUME IInv, ItemsAreJobs, NoJobLost, NEW w \in Workers, WorkerStep(w)
  PROVE  ItemsAreJobs'
<1> SUFFICES ASSUME NEW c \in Callers, cpc[c] \in Out
    PROVE /\ gRunCount' <= count[c]
          /\ \A j \in started'[c] : 0 <= j /\ j < count[c] /\ gRunCount' <= j
          /\ \A v \in Workers : wpc'[v] \in Held =>
               /\ 1 <= item'[v] /\ item'[v] <= count[c] /\ gRunCount' < item'[v]
               /\ item'[v] - 1 \notin started'[c]
          /\ \A u, v \in Workers : wpc'[u] \in Held /\ wpc'[v] \in Held /\ u # v =>
               item'[u] # item'[v]
  BY WorkerKeepsCalls DEF IInv, ItemsAreJobs
<1>0. /\ TypeOK /\ count[c] \in Nat
      /\ \A v \in Workers \ {w} : wpc'[v] = wpc[v] /\ item'[v] = item[v]
  BY WorkerKeepsCalls, CountIsNat DEF IInv
<1>1. /\ gRunCount <= count[c]
      /\ \A j \in started[c] : 0 <= j /\ j < count[c] /\ gRunCount <= j
      /\ \A v \in Workers : wpc[v] \in Held =>
           /\ 1 <= item[v] /\ item[v] <= count[c] /\ gRunCount < item[v]
           /\ item[v] - 1 \notin started[c]
      /\ \A u, v \in Workers : wpc[u] \in Held /\ wpc[v] \in Held /\ u # v =>
           item[u] # item[v]
  BY DEF ItemsAreJobs
<1>2. gRunCount \in Int /\ started[c] \subseteq Int /\ \A v \in Workers : item[v] \in Int
  BY <1>0 DEF TypeOK
<1>3. CASE WTakeItem(w) \/ WTake(w)
  BY <1>0, <1>1, <1>2, <1>3, TakeKeepsItems
<1>4. CASE WCall(w)
  <2>1. gUserInfo = c
    BY <1>4, WorkHasCaller DEF WCall, Held
  <2>2. /\ gRunCount' = gRunCount /\ item' = item
        /\ started'[c] = started[c] \cup {item[w] - 1}
        /\ wpc[w] \in Held /\ wpc'[w] \notin Held
    BY <1>0, <1>4, <2>1 DEF WCall, WGoto, TypeOK, Held
  <2> QED
    BY <1>0, <1>1, <1>2, <2>2
<1>5. CASE WDropWork(w)
  <2>1. gRunCount' = 0 /\ UNCHANGED <<started, item>> /\ wpc'[w] \notin Held
    BY <1>0, <1>5 DEF WDropWork, WGoto, TypeOK, Held
  <2> QED
    BY <1>0, <1>1, <1>2, <2>1
<1>6. CASE ~WTakeItem(w) /\ ~WTake(w) /\ ~WCall(w) /\ ~WDropWork(w)
  <2>1. /\ UNCHANGED <<gRunCount, started, item>>
        /\ wpc'[w] \in Held => wpc[w] \in Held
    BY <1>0, <1>6
    DEF TypeOK, WGoto, Held, WorkerStep, WStart, WParkLock, WDecRunning,
        WSignalLock, WSignal, WWait, WWoken, WIncRunning, WParkUnlock,
        WCheckError, WReturn, WSetError, WExit
  <2> QED
    BY <1>0, <1>1, <2>1
<1> QED
  BY <1>3, <1>4, <1>5, <1>6

LEMMA NoJobLostWorker ==
  ASSUME IInv, JInv, NEW w \in Workers, WorkerStep(w)
  PROVE  NoJobLost'
<1> SUFFICES ASSUME NEW c \in Callers, cpc[c] \in Out, raised'[c] = {},
                    NEW j \in 0 .. count[c] - 1
    PROVE \/ j < gRunCount'
          \/ j \in started'[c]
          \/ \E v \in Workers : wpc'[v] \in Held /\ item'[v] = j + 1
  BY WorkerKeepsCalls DEF IInv, NoJobLost
<1>0. /\ TypeOK /\ count[c] \in Nat /\ gRunCount \in Int
      /\ \A v \in Workers \ {w} : wpc'[v] = wpc[v] /\ item'[v] = item[v]
  BY WorkerKeepsCalls, CountIsNat DEF IInv, TypeOK
<1>1. raised[c] = {} /\ started[c] \subseteq started'[c]
  BY <1>0
  DEF TypeOK, WorkerStep, WStart, WTakeItem, WParkLock, WDecRunning, WSignalLock,
      WSignal, WWait, WWoken, WTake, WIncRunning, WParkUnlock, WCheckError,
      WCall, WReturn, WSetError, WDropWork, WExit
<1>2. \/ j < gRunCount
      \/ j \in started[c]
      \/ \E v \in Workers : wpc[v] \in Held /\ item[v] = j + 1
  BY <1>1 DEF JInv, NoJobLost
<1>3. CASE WTakeItem(w) \/ WTake(w)
  BY <1>0, <1>1, <1>2, <1>3, TakeKeepsItems DEF JInv
<1>4. CASE WCall(w)
  <2>1. gUserInfo = c
    BY <1>4, WorkHasCaller DEF WCall, Held
  <2>2. gRunCount' = gRunCount /\ item' = item /\ item[w] - 1 \in started'[c]
    BY <1>0, <1>4, <2>1 DEF WCall, TypeOK
  <2>3. item[w] \in Int
    BY <1>0 DEF TypeOK
  <2> QED
    BY <1>0, <1>1, <1>2, <2>2, <2>3
<1>5. CASE WCheckError(w)
  <2>1. jobError = CL_SUCCESS
    BY <1>1 DEF JInv, ErrorsKept
  <2>2. UNCHANGED <<gRunCount, item>> /\ wpc'[w] = "call"
    BY <1>0, <1>5, <2>1 DEF WCheckError, WGoto, TypeOK
  <2> QED
    BY <1>0, <1>1, <1>2, <2>2 DEF Held
<1>6. CASE WDropWork(w)
  BY <1>1, <1>6 DEF WDropWork, JInv, ErrorsKept
<1>7. CASE ~WTakeItem(w) /\ ~WTake(w) /\ ~WCall(w) /\ ~WCheckError(w) /\ ~WDropWork(w)
  <2>1. UNCHANGED <<gRunCount, item>> /\ (wpc[w] \in Held => wpc'[w] \in Held)
    BY <1>0, <1>7
    DEF TypeOK, WGoto, Held, WorkerStep, WStart, WParkLock, WDecRunning,
        WSignalLock, WSignal, WWait, WWoken, WIncRunning, WParkUnlock,
        WReturn, WSetError, WExit
  <2> QED
    BY <1>0, <1>1, <1>2, <2>1
<1> QED
  BY <1>3, <1>4, <1>5, <1>6, <1>7

LEMMA ErrorsKeptWorker ==
  ASSUME IInv, JInv, NEW w \in Workers, WorkerStep(w)
  PROVE  ErrorsKept'
<1> SUFFICES ASSUME NEW c \in Callers, cpc[c] \in Out
    PROVE /\ jobError' # CL_SUCCESS => jobError' \in raised'[c]
          /\ \A v \in Workers : wpc'[v] = "cas" => werr'[v] \in raised'[c]
          /\ \A v \in Workers : wpc'[v] = "zero" => raised'[c] # {}
          /\ raised'[c] # {} =>
               jobError' # CL_SUCCESS \/ \E v \in Workers : wpc'[v] = "cas"
  BY WorkerKeepsCalls DEF IInv, ErrorsKept
<1>0. /\ TypeOK
      /\ \A v \in Workers \ {w} : wpc'[v] = wpc[v] /\ werr'[v] = werr[v]
  BY WorkerKeepsCalls DEF IInv
<1>1. /\ jobError # CL_SUCCESS => jobError \in raised[c]
      /\ \A v \in Workers : wpc[v] = "cas" => werr[v] \in raised[c]
      /\ \A v \in Workers : wpc[v] = "zero" => raised[c] # {}
      /\ raised[c] # {} =>
           jobError # CL_SUCCESS \/ \E v \in Workers : wpc[v] = "cas"
  BY DEF JInv, ErrorsKept
<1>2. raised[c] \subseteq Int \ {CL_SUCCESS}
  BY <1>0, ErrorsAreNonZero
<1>3. CASE \E e \in Errors \cup {CL_SUCCESS} : WReturn(w, e)
  <2>1. PICK e \in Errors \cup {CL_SUCCESS} : WReturn(w, e)
    BY <1>3
  <2>2. user[w] = c
    BY <2>1, WorkHasCaller DEF WReturn, IInv, UserInfo
  <2>3. /\ raised'[c] = IF e # CL_SUCCESS THEN raised[c] \cup {e} ELSE raised[c]
        /\ jobError' = jobError /\ werr'[w] = e
        /\ wpc[w] = "running" /\ wpc'[w] = IF e = CL_SUCCESS THEN "next" ELSE "cas"
    BY <1>0, <2>1, <2>2 DEF WReturn, WGoto, TypeOK
  <2>4. CASE e = CL_SUCCESS
    BY <1>0, <1>1, <2>3, <2>4
  <2>5. CASE e # CL_SUCCESS
    BY <1>0, <1>1, <2>3, <2>5
  <2> QED
    BY <2>4, <2>5
<1>4. CASE WSetError(w)
  <2>1. /\ wpc[w] = "cas" /\ wpc'[w] = "zero" /\ UNCHANGED <<raised, werr>>
        /\ jobError' = IF jobError = CL_SUCCESS THEN werr[w] ELSE jobError
    BY <1>0, <1>4 DEF WSetError, WGoto, TypeOK
  <2> QED
    BY <1>0, <1>1, <1>2, <2>1
<1>5. CASE WDropWork(w)
  BY <1>0, <1>1, <1>5 DEF WDropWork, WGoto, TypeOK
<1>6. CASE ~WSetError(w) /\ ~WDropWork(w) /\
           ~(\E e \in Errors \cup {CL_SUCCESS} : WReturn(w, e))
  <2>1. /\ UNCHANGED <<jobError, raised, werr>>
        /\ wpc[w] \notin {"cas", "zero"} /\ wpc'[w] \notin {"cas", "zero"}
    BY <1>0, <1>6
    DEF TypeOK, WGoto, Dispatch, WorkerStep, WStart, WTakeItem, WParkLock,
        WDecRunning, WSignalLock, WSignal, WWait, WWoken, WTake, WIncRunning,
        WParkUnlock, WCheckError, WCall, WExit
  <2> QED
    BY <1>0, <1>1, <2>1
<1> QED
  BY <1>3, <1>4, <1>5, <1>6

LEMMA CallStateWorker ==
  ASSUME IInv, JInv, NEW w \in Workers, WorkerStep(w)
  PROVE  CallState' /\ Results'
<1>0. TypeOK /\ CallState /\ Results /\ UNCHANGED <<count, op, next, ret>>
  BY WorkerKeepsCalls DEF IInv, JInv
<1>1. \A c \in Callers :
        \/ /\ cpc'[c] = cpc[c] /\ started'[c] = started[c] /\ raised'[c] = raised[c]
        \/ /\ cpc[c] \in Waiting \cup {"i_waiting"}
           /\ cpc'[c] \in Waiting \cup {"c_woken", "i_woken"}
           /\ cpc[c] = "i_waiting" => started'[c] = started[c] /\ raised'[c] = raised[c]
           /\ cpc'[c] = "i_woken" => cpc[c] = "i_waiting"
  <2>1. CASE WCall(w)
    BY <1>0, <2>1, WorkHasCaller DEF WCall, Held, TypeOK, Waiting
  <2>2. CASE \E e \in Errors \cup {CL_SUCCESS} : WReturn(w, e)
    <3>1. user[w] = gUserInfo
      BY <2>2 DEF WReturn, IInv, UserInfo
    <3> QED
      BY <1>0, <2>2, <3>1, WorkHasCaller DEF WReturn, TypeOK, Waiting
  <2>3. CASE WSignal(w)
    BY <1>0, <2>3 DEF WSignal, WakeCallers, TypeOK, Waiting
  <2>4. CASE ~WCall(w) /\ ~WSignal(w) /\
             ~(\E e \in Errors \cup {CL_SUCCESS} : WReturn(w, e))
    BY <2>4
    DEF WorkerStep, WStart, WTakeItem, WParkLock, WDecRunning, WSignalLock,
        WWait, WWoken, WTake, WIncRunning, WParkUnlock, WCheckError,
        WSetError, WDropWork, WExit
  <2> QED
    BY <2>1, <2>2, <2>3, <2>4
<1>2. \A c \in Callers : cpc[c] = "p_count" => jobError' = jobError
  <2>1. ASSUME NEW c \in Callers, cpc[c] = "p_count" PROVE wpc[w] # "cas"
    BY <2>1, NoHolders DEF PoolCaller, DoLabels, Waiting, NobodyBusy, Busy, ActiveLabels
  <2>2. wpc[w] # "cas" => jobError' = jobError
    BY DEF WorkerStep, WStart, WTakeItem, WParkLock, WDecRunning, WSignalLock,
        WSignal, WWait, WWoken, WTake, WIncRunning, WParkUnlock, WCheckError,
        WCall, WReturn, WSetError, WDropWork, WExit
  <2> QED
    BY <2>1, <2>2
<1> QED
  BY <1>0, <1>1, <1>2
  DEF CallState, Results, Result, Fresh, InitLabels, Waiting

-----------------------------------------------------------------------------
(* Steps of callers.                                                       *)

LEMMA JobsCaller ==
  ASSUME IInv, JInv, NEW c \in Callers, CallerStep(c)
  PROVE  ItemsAreJobs' /\ NoJobLost' /\ ErrorsKept'
<1>0. TypeOK /\ ItemsAreJobs /\ NoJobLost /\ ErrorsKept /\ CallState
  BY DEF IInv, JInv
<1>1. CASE CPrimeCount(c)
  <2>1. /\ cpc[c] = "p_count" /\ cpc'[c] = "p_func" /\ gRunCount' = count[c]
        /\ \A d \in Callers \ {c} : cpc'[d] = cpc[d]
        /\ UNCHANGED <<wpc, item, werr, count, started, raised, jobError>>
    BY <1>0, <1>1 DEF CPrimeCount, CGoto, TypeOK
  <2>2. \A d \in Callers : cpc'[d] \in Out => d = c
    BY <2>1, OneCall, OutIsPoolCaller DEF PoolCaller, DoLabels
  <2>3. NobodyBusy
    BY <2>1, NoHolders DEF PoolCaller, DoLabels, Waiting
  <2>4. started[c] = {} /\ raised[c] = {} /\ jobError = CL_SUCCESS /\ count[c] \in Nat
    BY <1>0, <2>1, CountIsNat DEF CallState, Fresh
  <2>5. \A w \in Workers : wpc[w] \notin Held \cup {"cas", "zero"}
    BY <2>3 DEF NobodyBusy, Busy, ActiveLabels, Held
  <2>6. ItemsAreJobs'
    BY <2>1, <2>2, <2>4, <2>5 DEF ItemsAreJobs
  <2>7. NoJobLost'
    BY <2>1, <2>2, <2>4 DEF NoJobLost
  <2>8. ErrorsKept'
    BY <2>1, <2>2, <2>4, <2>5 DEF ErrorsKept
  <2> QED
    BY <2>6, <2>7, <2>8
<1>2. CASE CPrimeError(c)
  <2>1. \A d \in Callers : cpc'[d] \notin Out
    BY <1>0, <1>2, OneCall, OutIsPoolCaller
    DEF CPrimeError, CGoto, TypeOK, PoolCaller, DoLabels, Out, Window, Waiting
  <2> QED
    BY <2>1 DEF ItemsAreJobs, NoJobLost, ErrorsKept
<1>3. CASE ~CPrimeCount(c) /\ ~CPrimeError(c)
  <2>1. /\ UNCHANGED <<gRunCount, jobError, item, werr>>
        /\ \A w \in Workers : wpc'[w] = wpc[w] \/ /\ wpc[w] \in {"waiting", "none"}
                                                  /\ wpc'[w] \in {"woken", "start"}
    <3>1. CASE ISpawn(c)
      BY <1>0, <3>1 DEF ISpawn, TypeOK, IInv, Launch, Workers
    <3>2. CASE CBroadcast(c)
      BY <1>0, <3>2 DEF CBroadcast, WakeWorkers, TypeOK
    <3>3. CASE ~ISpawn(c) /\ ~CBroadcast(c)
      BY <1>3, <3>3
      DEF CallerStep, COnce, CCallerLock, ISetRunning, CWait, ITest, GRead,
        CInit, CSerialEnd, CPoolLock, CCondLock, CPrimeFunc, CTest,
        CReadError, CPoolUnlock, CReturned, CSerialCall, IConfigure,
        CSerialReturn
    <3> QED
      BY <3>1, <3>2, <3>3
  <2>2. \A d \in Callers : cpc'[d] \in Out =>
          /\ cpc[d] \in Out
          /\ count'[d] = count[d] /\ started'[d] = started[d] /\ raised'[d] = raised[d]
    <3> USE <1>0 DEF TypeOK, CGoto, Out, Window, Waiting
    <3>1. CASE COnce(c) \/ ITest(c)
      BY <3>1 DEF COnce, ITest, AfterOnce
    <3>2. CASE CCallerLock(c) \/ CWait(c) \/ ISetRunning(c) \/ ISpawn(c)
      BY <3>2 DEF CCallerLock, CWait, ISetRunning, ISpawn
    <3>3. CASE GRead(c) \/ CInit(c) \/ CSerialCall(c) \/ CSerialEnd(c)
      BY <3>3 DEF GRead, CInit, CSerialCall, CSerialEnd
    <3>4. CASE \E e \in Errors \cup {CL_SUCCESS} : CSerialReturn(c, e)
      BY <3>4 DEF CSerialReturn
    <3>5. CASE CPoolLock(c) \/ CCondLock(c) \/ CPrimeFunc(c) \/ CBroadcast(c)
      BY <3>5 DEF CPoolLock, CCondLock, CPrimeFunc, CBroadcast
    <3>6. CASE CTest(c) \/ CReadError(c) \/ CPoolUnlock(c) \/ CReturned(c)
      BY <3>6 DEF CTest, CReadError, CPoolUnlock, CReturned
    <3>7. CASE \E single \in BOOLEAN, cores \in Cores : IConfigure(c, single, cores)
      BY <3>7 DEF IConfigure, AfterOnce
    <3> QED
      BY <1>3, <3>1, <3>2, <3>3, <3>4, <3>5, <3>6, <3>7 DEF CallerStep
  <2>3. \A w \in Workers : /\ wpc'[w] \in Held <=> wpc[w] \in Held
                           /\ wpc'[w] = "cas" <=> wpc[w] = "cas"
                           /\ wpc'[w] = "zero" <=> wpc[w] = "zero"
    BY <2>1 DEF Held
  <2>4. ItemsAreJobs'
    BY <1>0, <2>1, <2>2, <2>3 DEF ItemsAreJobs
  <2>5. NoJobLost'
    BY <1>0, <2>1, <2>2, <2>3 DEF NoJobLost
  <2>6. ErrorsKept'
    BY <1>0, <2>1, <2>2, <2>3 DEF ErrorsKept
  <2> QED
    BY <2>4, <2>5, <2>6
<1> QED
  BY <1>1, <1>2, <1>3

\* When the caller reads jobError, every job has run or some error is in it.
LEMMA OutcomeIsRight ==
  ASSUME IInv, JInv, NEW c \in Callers, cpc[c] = "c_err"
  PROVE  \/ /\ jobError = CL_SUCCESS /\ raised[c] = {}
            /\ started[c] = 0 .. count[c] - 1
         \/ jobError # CL_SUCCESS /\ jobError \in raised[c]
<1>0. TypeOK /\ count[c] \in Nat /\ cpc[c] \in Out /\ gRunCount \in Int
  BY CountIsNat DEF IInv, Out, TypeOK
<1>1. NobodyBusy /\ gRunCount <= 0
  BY NoHolders DEF PoolCaller, Waiting
<1>2. \A w \in Workers : wpc[w] \notin Held \cup {"cas"}
  BY <1>1 DEF NobodyBusy, Busy, ActiveLabels, Held
<1>3. CASE raised[c] = {}
  <2>1. \A j \in 0 .. count[c] - 1 : j \in started[c]
    BY <1>0, <1>1, <1>2, <1>3 DEF JInv, NoJobLost
  <2>2. \A j \in started[c] : j \in 0 .. count[c] - 1
    BY <1>0 DEF JInv, ItemsAreJobs, TypeOK
  <2> QED
    BY <1>0, <1>3, <2>1, <2>2 DEF JInv, ErrorsKept
<1>4. CASE raised[c] # {}
  BY <1>0, <1>2, <1>4 DEF JInv, ErrorsKept
<1> QED
  BY <1>3, <1>4

\* A caller's step touches the locals of no other caller.
LEMMA CallerLocals ==
  ASSUME TypeOK, NEW c \in Callers, CallerStep(c)
  PROVE  /\ jobError' \in {jobError, CL_SUCCESS}
         /\ \A d \in Callers \ {c} :
              /\ cpc'[d] = cpc[d] /\ op'[d] = op[d] /\ count'[d] = count[d]
              /\ next'[d] = next[d] /\ ret'[d] = ret[d]
              /\ started'[d] = started[d] /\ raised'[d] = raised[d]
<1> USE DEF TypeOK, CGoto
<1>1. CASE COnce(c) \/ ITest(c) \/ CCallerLock(c) \/ CWait(c)
  BY <1>1 DEF COnce, ITest, CCallerLock, CWait
<1>2. CASE ISetRunning(c) \/ ISpawn(c) \/ GRead(c) \/ CInit(c)
  BY <1>2 DEF ISetRunning, ISpawn, GRead, CInit
<1>3. CASE CSerialCall(c) \/ CSerialEnd(c) \/ CPoolLock(c) \/ CCondLock(c)
  BY <1>3 DEF CSerialCall, CSerialEnd, CPoolLock, CCondLock
<1>4. CASE \E e \in Errors \cup {CL_SUCCESS} : CSerialReturn(c, e)
  BY <1>4 DEF CSerialReturn
<1>5. CASE CPrimeError(c) \/ CPrimeCount(c) \/ CPrimeFunc(c) \/ CBroadcast(c)
  BY <1>5 DEF CPrimeError, CPrimeCount, CPrimeFunc, CBroadcast
<1>6. CASE CTest(c) \/ CReadError(c) \/ CPoolUnlock(c) \/ CReturned(c)
  BY <1>6 DEF CTest, CReadError, CPoolUnlock, CReturned
<1>7. CASE \E single \in BOOLEAN, cores \in Cores : IConfigure(c, single, cores)
  BY <1>7 DEF IConfigure
<1> QED
  BY <1>1, <1>2, <1>3, <1>4, <1>5, <1>6, <1>7 DEF CallerStep

LEMMA CallStateCaller ==
  ASSUME IInv, JInv, NEW c \in Callers, CallerStep(c)
  PROVE  CallState' /\ Results'
<1> DEFINE
      clean == started[c] = {} /\ raised[c] = {} /\ next[c] = 0
      loop  == /\ started[c] = 0 .. next[c] - 1 /\ next[c] <= count[c]
               /\ ret[c] = CL_SUCCESS => raised[c] = {}
               /\ ret[c] # CL_SUCCESS => ret[c] \in raised[c]
      inJob == /\ started[c] = 0 .. next[c] /\ next[c] < count[c]
               /\ ret[c] = CL_SUCCESS /\ raised[c] = {}
      mine  == /\ cpc[c] \in Fresh => clean
               /\ cpc[c] = "p_count" => jobError = CL_SUCCESS
               /\ cpc[c] = "serial" => loop
               /\ cpc[c] = "s_run" => inJob
               /\ cpc[c] = "c_unlock" => Result(c)
               /\ cpc[c] = "returned" /\ op[c] = "do" => Result(c)
               /\ cpc[c] = "g_read" => op[c] = "count"
<1>0. /\ TypeOK /\ CallState /\ Results /\ mine
      /\ count[c] \in Nat /\ next[c] \in Nat
  BY CountIsNat DEF IInv, JInv, CallState, Results, TypeOK
<1> SUFFICES mine'
  BY <1>0, CallerLocals DEF CallState, Results, Result
<1>1. ASSUME UNCHANGED <<op, count, next, ret, started, raised, jobError>>,
             cpc[c] \in Fresh, cpc'[c] \in Fresh \ {"p_count", "g_read"}
      PROVE  mine'
  BY <1>0, <1>1 DEF Fresh, InitLabels
<1> USE DEF CGoto
<1>2. CASE COnce(c) \/ ITest(c)
  BY <1>0, <1>2 DEF COnce, ITest, AfterOnce, TypeOK, Fresh, InitLabels
<1>3. CASE CCallerLock(c) \/ CWait(c)
  BY <1>0, <1>3 DEF CCallerLock, CWait, TypeOK, Fresh, InitLabels
<1>4. CASE ISetRunning(c) \/ ISpawn(c) \/ CPoolLock(c) \/ CCondLock(c)
  BY <1>0, <1>1, <1>4
  DEF ISetRunning, ISpawn, CPoolLock, CCondLock, TypeOK, Fresh, InitLabels
<1>5. CASE CPrimeCount(c) \/ CPrimeFunc(c)
  BY <1>0, <1>1, <1>5 DEF CPrimeCount, CPrimeFunc, TypeOK, Fresh
<1>6. CASE CPrimeError(c)
  BY <1>0, <1>6 DEF CPrimeError, TypeOK, Fresh
<1>7. CASE CBroadcast(c) \/ CTest(c)
  BY <1>0, <1>7 DEF CBroadcast, CTest, TypeOK, Fresh, InitLabels
<1>8. CASE GRead(c)
  BY <1>0, <1>8 DEF GRead, TypeOK, Fresh, InitLabels
<1>9. CASE CInit(c)
  <2>1. /\ cpc[c] = "c_init" /\ UNCHANGED <<count, next, started, raised>>
        /\ \/ cpc'[c] = "serial" /\ ret'[c] = CL_SUCCESS
           \/ cpc'[c] = "returned" /\ ret'[c] = -1 /\ count[c] >= MAX_COUNT
           \/ cpc'[c] = "c_pool"
    BY <1>0, <1>9 DEF CInit, TypeOK
  <2>2. clean
    BY <1>0, <2>1 DEF Fresh
  <2>3. 0 .. next[c] - 1 = {}
    BY <2>2
  <2> QED
    BY <1>0, <2>1, <2>2, <2>3 DEF Fresh, InitLabels, Result
<1>10. CASE CSerialCall(c)
  <2>1. /\ cpc[c] = "serial" /\ cpc'[c] = "s_run" /\ next[c] < count[c]
        /\ ret[c] = CL_SUCCESS /\ started'[c] = started[c] \cup {next[c]}
        /\ UNCHANGED <<count, next, ret, raised>>
    BY <1>0, <1>10 DEF CSerialCall, TypeOK
  <2>2. 0 .. next[c] = (0 .. next[c] - 1) \cup {next[c]}
    BY <1>0
  <2> QED
    BY <1>0, <2>1, <2>2 DEF Fresh, InitLabels
<1>11. CASE \E e \in Errors \cup {CL_SUCCESS} : CSerialReturn(c, e)
  BY <1>0, <1>11 DEF CSerialReturn, TypeOK, Fresh, InitLabels
<1>12. CASE CSerialEnd(c)
  <2>1. /\ cpc[c] = "serial" /\ cpc'[c] = "returned"
        /\ ret[c] # CL_SUCCESS \/ next[c] >= count[c]
        /\ UNCHANGED <<count, next, ret, started, raised>>
    BY <1>0, <1>12 DEF CSerialEnd, TypeOK
  <2>2. Result(c)
    BY <1>0, <2>1 DEF Result
  <2> QED
    BY <2>1, <2>2 DEF Fresh, InitLabels, Result
<1>13. CASE CReadError(c)
  BY <1>0, <1>13, OutcomeIsRight DEF CReadError, TypeOK, Fresh, InitLabels, Result
<1>14. CASE CPoolUnlock(c)
  BY <1>0, <1>14 DEF CPoolUnlock, TypeOK, Fresh, InitLabels, Result
<1>15. CASE CReturned(c)
  BY <1>0, <1>15 DEF CReturned, TypeOK, Fresh, InitLabels
<1>16. CASE \E single \in BOOLEAN, cores \in Cores : IConfigure(c, single, cores)
  BY <1>0, <1>16 DEF IConfigure, AfterOnce, TypeOK, Fresh, InitLabels
<1> QED
  BY <1>2, <1>3, <1>4, <1>5, <1>6, <1>7, <1>8, <1>9, <1>10, <1>11,
     <1>12, <1>13, <1>14, <1>15, <1>16
  DEF CallerStep

-----------------------------------------------------------------------------
(* The invariant and what follows from it.                                 *)

LEMMA JInvInit == Init => JInv
  BY ConstantsAssumption
  DEF Init, JInv, ItemsAreJobs, NoJobLost, ErrorsKept, CallState, Results, Out,
      Window, Waiting, Fresh

LEMMA JInvNext == IInv /\ JInv /\ [Next]_vars => JInv'
<1> SUFFICES ASSUME IInv, JInv, [Next]_vars PROVE JInv'
  OBVIOUS
<1>1. CASE \E c \in Callers : CallerStep(c)
  BY <1>1, JobsCaller, CallStateCaller DEF JInv
<1>2. CASE \E w \in Workers : WorkerStep(w)
  BY <1>2, ItemsWorker, NoJobLostWorker, ErrorsKeptWorker, CallStateWorker
  DEF JInv
<1>3. CASE \E c \in Callers : \/ \E n \in Counts : CCall(c, "do", n)
                              \/ CCall(c, "count", 0)
  <2>0. TypeOK
    BY DEF IInv
  <2>1. PICK c \in Callers : \E o \in {"do", "count"}, n \in Counts \cup {0} : CCall(c, o, n)
    BY <1>3
  <2>2. /\ cpc[c] = "idle" /\ cpc'[c] = "once"
        /\ UNCHANGED <<gRunCount, jobError, wpc, item, werr, next, ret, started, raised>>
        /\ \A d \in Callers \ {c} :
             cpc'[d] = cpc[d] /\ count'[d] = count[d] /\ op'[d] = op[d]
    BY <2>0, <2>1 DEF CCall, CGoto, TypeOK
  <2>3. ItemsAreJobs' /\ NoJobLost' /\ ErrorsKept'
    BY <2>2 DEF JInv, ItemsAreJobs, NoJobLost, ErrorsKept, Out, Window, Waiting
  <2>4. CallState' /\ Results'
    BY <2>2 DEF JInv, CallState, Results, Result, Fresh
  <2> QED
    BY <2>3, <2>4 DEF JInv
<1>4. CASE XStart
  <2>1. /\ \A c \in Callers : cpc[c] = "idle"
        /\ UNCHANGED <<jobError, cpc, op, count, next, ret, started, raised>>
    BY <1>4 DEF XStart
  <2> QED
    BY <2>1 DEF JInv, ItemsAreJobs, NoJobLost, ErrorsKept, CallState, Results,
      Result, Out, Window, Waiting
<1>5. CASE \/ \E n \in SetCounts : SetThreadCount(n)
           \/ ExitStep \/ Terminated \/ UNCHANGED vars
  <2>1. /\ UNCHANGED <<gRunCount, jobError, item, werr, cpc, op, count, next,
                       ret, started, raised>>
        /\ \A w \in Workers : wpc'[w] = wpc[w] \/ /\ wpc[w] = "waiting"
                                                  /\ wpc'[w] = "woken"
    BY <1>5 DEF SetThreadCount, ExitStep, XBroadcast, XTimeout, XJoin,
      WakeWorkers, Terminated, vars
  <2>2. \A w \in Workers : /\ wpc'[w] \in Held <=> wpc[w] \in Held
                           /\ wpc'[w] = "cas" <=> wpc[w] = "cas"
                           /\ wpc'[w] = "zero" <=> wpc[w] = "zero"
    BY <2>1 DEF Held
  <2>3. ItemsAreJobs'
    BY <2>1, <2>2 DEF JInv, ItemsAreJobs
  <2>4. NoJobLost' /\ ErrorsKept'
    BY <2>1, <2>2 DEF JInv, NoJobLost, ErrorsKept
  <2>5. CallState' /\ Results'
    BY <2>1 DEF JInv, CallState, Results, Result
  <2> QED
    BY <2>3, <2>4, <2>5 DEF JInv
<1> QED
  BY <1>1, <1>2, <1>3, <1>4, <1>5 DEF Next

LEMMA JobInvariant == Spec => [](IInv /\ JInv)
<1>1. Init => IInv /\ JInv
  BY IInvInit, JInvInit
<1>2. IInv /\ JInv /\ [Next]_vars => (IInv /\ JInv)'
  BY IInvNext, JInvNext
<1> QED
  BY <1>1, <1>2, PTL DEF Spec

\* ThreadPool_Do returns CL_SUCCESS only if all its jobs ran and none failed,
\* and otherwise an error of one of its own jobs, whatever the interleaving.
THEOREM DoReturnsTheRightResult == Spec => []ReturnIsRight
<1>1. JInv => ReturnIsRight
  BY DEF JInv, Results, Result, ReturnIsRight
<1> QED
  BY <1>1, JobInvariant, PTL

\* No job id is handed to the user's function twice, and none that is not a
\* job of the call in progress.
THEOREM EachJobRunsOnce == Spec => JobsRunOnce
<1>1. ASSUME IInv, JInv, NEW w \in Workers, wpc[w] = "call"
      PROVE  /\ gUserInfo \in Callers
             /\ item[w] - 1 \in (0 .. count[gUserInfo] - 1) \ started[gUserInfo]
  <2>1. PICK c \in Callers : cpc[c] \in Waiting /\ gUserInfo = c
    BY <1>1, WorkHasCaller DEF Held
  <2>2. /\ 1 <= item[w] /\ item[w] <= count[c]
        /\ item[w] - 1 \notin started[c]
    BY <1>1, <2>1 DEF JInv, ItemsAreJobs, Held, Out, Window
  <2>3. item[w] \in Int /\ count[c] \in Nat
    BY <1>1, CountIsNat DEF IInv, TypeOK
  <2> QED
    BY <2>1, <2>2, <2>3
<1>2. IInv /\ JInv =>
        [\A w \in Workers : wpc[w] = "call" /\ wpc'[w] = "running" =>
           /\ gUserInfo \in Callers
           /\ item[w] - 1 \in (0 .. count[gUserInfo] - 1) \ started[gUserInfo]]_vars
  BY <1>1
<1> QED
  BY <1>2, JobInvariant, PTL DEF JobsRunOnce

=============================================================================
