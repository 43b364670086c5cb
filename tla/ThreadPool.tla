----------------------------- MODULE ThreadPool -----------------------------
(***************************************************************************)
(* The harness thread pool, test_common/harness/ThreadPool.cpp, POSIX      *)
(* build.                                                                  *)
(*                                                                         *)
(* Application threads (Callers) call ThreadPool_Do, which farms out the   *)
(* jobs 0 .. count-1 to worker threads that the first call launches.       *)
(* Workers and callers meet in three places only:                          *)
(*   - gRunCount, an atomic counter that hands out the jobs;               *)
(*   - gRunning, an atomic counter of the workers that are not parked;     *)
(*   - two condition variables: cond_var parks the workers, and            *)
(*     caller_cond_var parks the caller that waits for its jobs.           *)
(* One action is one access to the shared state: an atomic operation, the  *)
(* acquisition or release of a mutex, one entry to or exit from a wait, or *)
(* one call of the user's function.                                        *)
(*                                                                         *)
(* A thread in pthread_cond_wait is at "waiting" (cpc: "i_waiting",        *)
(* "c_waiting"); a broadcast moves it to the matching "woken" label, where *)
(* it needs the mutex to go on.  Wakeups that no broadcast caused, and     *)
(* pthread_create failing, are in ThreadPoolFaults.                        *)
(***************************************************************************)
EXTENDS Integers, FiniteSets

CONSTANTS
  MaxThreads,   \* bound on the number of worker threads
  Cores,        \* the CPU counts the machine may report
  SetCounts,    \* the arguments SetThreadCount may be given
  Callers,      \* application threads that use the pool
  Counts,       \* the job counts ThreadPool_Do may be given
  Errors,       \* the non-zero results a job may return
  MAX_COUNT,    \* counts from here on are refused and mean "exit" to a worker
  CL_INT_MAX,   \* the value of gRunCount that makes the workers exit
  MaxSpins,     \* broadcasts of ThreadPool_Exit before it gives up
  None          \* "no thread"

Workers == 0 .. MaxThreads - 1

CL_SUCCESS == 0

ASSUME ConstantsAssumption ==
  /\ MaxThreads \in Nat \ {0, 1}
  /\ Cores \subseteq 1 .. MaxThreads
  /\ SetCounts \subseteq {n \in Int : n <= MaxThreads}
  /\ Counts \subseteq Nat
  /\ Errors \subseteq Int \ {CL_SUCCESS}
  /\ MAX_COUNT \in Nat \ {0}
  /\ CL_INT_MAX \in Nat /\ CL_INT_MAX >= MAX_COUNT + MaxThreads
  /\ MaxSpins \in Nat
  /\ Callers \cap Workers = {}
  /\ None \notin Callers \cup Workers

VARIABLES
  gRunCount,         \* jobs not yet handed out; may go negative
  gRunning,          \* workers that are not parked
  gThreadCount,      \* worker threads launched (or asked for)
  jobError,          \* first error of the job as a whole
  gUserInfo,         \* gFunc_ptr and gUserInfo: whose job it is
  threadPoolInitErr, \* CL_SUCCESS once the pool is up
  once,              \* threadpool_init_control: "new", "running" or "done"
  spawned,           \* i, the thread loop of ThreadPool_Init
  tid,               \* threadID, the counter on the stack of ThreadPool_Init
  cond_lock,         \* owner of each mutex
  caller_cond_lock,
  gThreadPoolLock,
  wpc, item, threadID, user, werr,   \* program counter and locals of a worker
  cpc, op, count, next, ret,         \* program counter and locals of a caller
  xpc, spins,                        \* ThreadPool_Exit and its loop counter
  started, raised    \* history: jobs started and errors returned, per call

locks   == <<cond_lock, caller_cond_lock, gThreadPoolLock>>
initial == <<threadPoolInitErr, once, spawned, tid>>
worker  == <<wpc, item, threadID, user, werr>>
caller  == <<cpc, op, count, next, ret>>
exiting == <<xpc, spins>>
history == <<started, raised>>
vars    == <<gRunCount, gRunning, gThreadCount, jobError, gUserInfo,
             initial, locks, worker, caller, exiting, history>>

-----------------------------------------------------------------------------
(* Labels.                                                                 *)

\* A worker that gRunning counts: from its launch until it parks, and from
\* the moment it has taken a job until it parks again.
ActiveLabels == {"none", "start", "first", "plock", "dec", "punlock", "check",
                 "call", "running", "cas", "zero", "next"}

\* A worker that holds the cond_lock mutex.
CondLabels == {"dec", "slock", "sig", "wait", "take", "inc", "punlock"}

WorkerLabels == ActiveLabels \cup CondLabels
                  \cup {"waiting", "woken", "exit", "done"}

\* ThreadPool_Init, run by the first caller inside pthread_once.
InitLabels == {"i_conf", "i_lock", "i_running", "i_spawn", "i_wait",
               "i_waiting", "i_woken", "i_test"}

\* ThreadPool_Do inside its critical region, up to the end of the wait.
DoLabels == {"c_cond", "c_caller", "p_err", "p_count", "p_func", "c_bcast",
             "c_wait", "c_waiting", "c_woken", "c_test"}

CallerLabels == InitLabels \cup DoLabels
                  \cup {"idle", "once", "c_init", "serial", "s_run", "c_pool",
                        "c_err", "c_unlock", "g_read", "returned"}

-----------------------------------------------------------------------------
Init ==
  /\ gRunCount = 0 /\ gRunning = 0 /\ gThreadCount = 0
  /\ jobError = CL_SUCCESS /\ gUserInfo = None
  /\ threadPoolInitErr = -1 /\ once = "new" /\ spawned = 0 /\ tid = 0
  /\ cond_lock = None /\ caller_cond_lock = None /\ gThreadPoolLock = None
  /\ wpc = [w \in Workers |-> "none"]
  /\ item = [w \in Workers |-> 0]
  /\ threadID = [w \in Workers |-> 0]
  /\ user = [w \in Workers |-> None]
  /\ werr = [w \in Workers |-> CL_SUCCESS]
  /\ cpc = [c \in Callers |-> "idle"]
  /\ op = [c \in Callers |-> "do"]
  /\ count = [c \in Callers |-> 0]
  /\ next = [c \in Callers |-> 0]
  /\ ret = [c \in Callers |-> CL_SUCCESS]
  /\ xpc = "none" /\ spins = 0
  /\ started = [c \in Callers |-> {}]
  /\ raised = [c \in Callers |-> {}]

-----------------------------------------------------------------------------
(* Worker threads: ThreadPool_WorkerFunc.                                  *)

WGoto(w, l) == wpc' = [wpc EXCEPT ![w] = l]

\* Which way the outer loop goes with the item it has just taken.
Dispatch(i) == IF i >= MAX_COUNT THEN "exit"
               ELSE IF i <= 0 THEN "plock" ELSE "check"

\* Mutant of WStart: ++tid.
WStartPreIncrement(w) ==
  /\ wpc[w] = "start"
  /\ threadID' = [threadID EXCEPT ![w] = tid + 1]
  /\ tid' = tid + 1
  /\ WGoto(w, "first")
  /\ UNCHANGED <<gRunCount, gRunning, gThreadCount, jobError, gUserInfo,
                 threadPoolInitErr, once, spawned, locks, item, user, werr,
                 caller, exiting, history>>

\* threadID = tid++
WStart(w) ==
  /\ wpc[w] = "start"
  /\ threadID' = [threadID EXCEPT ![w] = tid]
  /\ tid' = tid + 1
  /\ WGoto(w, "first")
  /\ UNCHANGED <<gRunCount, gRunning, gThreadCount, jobError, gUserInfo,
                 threadPoolInitErr, once, spawned, locks, item, user, werr,
                 caller, exiting, history>>

\* item = gRunCount--, at the top of the function and at the end of the loop
WTakeItem(w) ==
  /\ wpc[w] \in {"first", "next"}
  /\ item' = [item EXCEPT ![w] = gRunCount]
  /\ gRunCount' = gRunCount - 1
  /\ WGoto(w, Dispatch(gRunCount))
  /\ UNCHANGED <<gRunning, gThreadCount, jobError, gUserInfo, initial, locks,
                 threadID, user, werr, caller, exiting, history>>

\* No work: pthread_mutex_lock(&cond_lock)
WParkLock(w) ==
  /\ wpc[w] = "plock"
  /\ cond_lock = None
  /\ cond_lock' = w
  /\ WGoto(w, "dec")
  /\ UNCHANGED <<gRunCount, gRunning, gThreadCount, jobError, gUserInfo,
                 initial, caller_cond_lock, gThreadPoolLock, item, threadID,
                 user, werr, caller, exiting, history>>

\* remaining = gRunning--; the last one out signals the caller
WDecRunning(w) ==
  /\ wpc[w] = "dec"
  /\ gRunning' = gRunning - 1
  /\ WGoto(w, IF gRunning = 1 THEN "slock" ELSE "wait")
  /\ UNCHANGED <<gRunCount, gThreadCount, jobError, gUserInfo, initial, locks,
                 item, threadID, user, werr, caller, exiting, history>>

\* pthread_mutex_lock(&caller_cond_lock)
WSignalLock(w) ==
  /\ wpc[w] = "slock"
  /\ caller_cond_lock = None
  /\ caller_cond_lock' = w
  /\ WGoto(w, "sig")
  /\ UNCHANGED <<gRunCount, gRunning, gThreadCount, jobError, gUserInfo,
                 initial, cond_lock, gThreadPoolLock, item, threadID, user,
                 werr, caller, exiting, history>>

\* Every caller parked on caller_cond_var wakes.
WakeCallers == cpc' = [c \in Callers |->
                         IF cpc[c] = "i_waiting" THEN "i_woken"
                         ELSE IF cpc[c] = "c_waiting" THEN "c_woken"
                         ELSE cpc[c]]

\* pthread_cond_broadcast(&caller_cond_var) and the unlock that follows
WSignal(w) ==
  /\ wpc[w] = "sig"
  /\ WakeCallers
  /\ caller_cond_lock' = None
  /\ WGoto(w, "wait")
  /\ UNCHANGED <<gRunCount, gRunning, gThreadCount, jobError, gUserInfo,
                 initial, cond_lock, gThreadPoolLock, item, threadID, user,
                 werr, op, count, next, ret, exiting, history>>

\* pthread_cond_wait(&cond_var, &cond_lock): release and park in one step
WWait(w) ==
  /\ wpc[w] = "wait"
  /\ cond_lock' = None
  /\ WGoto(w, "waiting")
  /\ UNCHANGED <<gRunCount, gRunning, gThreadCount, jobError, gUserInfo,
                 initial, caller_cond_lock, gThreadPoolLock, item, threadID,
                 user, werr, caller, exiting, history>>

\* pthread_cond_wait returns with the mutex held
WWoken(w) ==
  /\ wpc[w] = "woken"
  /\ cond_lock = None
  /\ cond_lock' = w
  /\ WGoto(w, "take")
  /\ UNCHANGED <<gRunCount, gRunning, gThreadCount, jobError, gUserInfo,
                 initial, caller_cond_lock, gThreadPoolLock, item, threadID,
                 user, werr, caller, exiting, history>>

\* Mutant of WTake: the mutex is released before gRunning++.
WTakeUnlocksEarly(w) ==
  /\ wpc[w] = "take"
  /\ item' = [item EXCEPT ![w] = gRunCount]
  /\ gRunCount' = gRunCount - 1
  /\ WGoto(w, IF gRunCount >= MAX_COUNT THEN "exit"
              ELSE IF gRunCount <= 0 THEN "wait" ELSE "inc")
  /\ cond_lock' = IF gRunCount <= 0 THEN cond_lock ELSE None
  /\ UNCHANGED <<gRunning, gThreadCount, jobError, gUserInfo, initial,
                 caller_cond_lock, gThreadPoolLock, threadID, user, werr,
                 caller, exiting, history>>

\* item = gRunCount-- under cond_lock: exit, wait again, or leave the loop
WTake(w) ==
  /\ wpc[w] = "take"
  /\ item' = [item EXCEPT ![w] = gRunCount]
  /\ gRunCount' = gRunCount - 1
  /\ WGoto(w, IF gRunCount >= MAX_COUNT THEN "exit"
              ELSE IF gRunCount <= 0 THEN "wait" ELSE "inc")
  /\ cond_lock' = IF gRunCount >= MAX_COUNT THEN None ELSE cond_lock
  /\ UNCHANGED <<gRunning, gThreadCount, jobError, gUserInfo, initial,
                 caller_cond_lock, gThreadPoolLock, threadID, user, werr,
                 caller, exiting, history>>

\* Mutant of WIncRunning: the worker does not count itself.
WIncRunningForgotten(w) ==
  /\ wpc[w] = "inc"
  /\ WGoto(w, "punlock")
  /\ UNCHANGED <<gRunCount, gRunning, gThreadCount, jobError, gUserInfo,
                 initial, locks, item, threadID, user, werr, caller, exiting,
                 history>>

\* gRunning++
WIncRunning(w) ==
  /\ wpc[w] = "inc"
  /\ gRunning' = gRunning + 1
  /\ WGoto(w, "punlock")
  /\ UNCHANGED <<gRunCount, gThreadCount, jobError, gUserInfo, initial, locks,
                 item, threadID, user, werr, caller, exiting, history>>

\* pthread_mutex_unlock(&cond_lock)
WParkUnlock(w) ==
  /\ wpc[w] = "punlock"
  /\ cond_lock' = None
  /\ WGoto(w, "check")
  /\ UNCHANGED <<gRunCount, gRunning, gThreadCount, jobError, gUserInfo,
                 initial, caller_cond_lock, gThreadPoolLock, item, threadID,
                 user, werr, caller, exiting, history>>

\* if (CL_SUCCESS == jobError): an item taken after an error is dropped
WCheckError(w) ==
  /\ wpc[w] = "check"
  /\ WGoto(w, IF jobError = CL_SUCCESS THEN "call" ELSE "next")
  /\ UNCHANGED <<gRunCount, gRunning, gThreadCount, jobError, gUserInfo,
                 initial, locks, item, threadID, user, werr, caller, exiting,
                 history>>

\* gFunc_ptr(item - 1, threadID, gUserInfo) is entered
WCall(w) ==
  /\ wpc[w] = "call"
  /\ user' = [user EXCEPT ![w] = gUserInfo]
  /\ started' = [c \in Callers |->
                   IF c = gUserInfo THEN started[c] \cup {item[w] - 1}
                   ELSE started[c]]
  /\ WGoto(w, "running")
  /\ UNCHANGED <<gRunCount, gRunning, gThreadCount, jobError, gUserInfo,
                 initial, locks, item, threadID, werr, caller, exiting, raised>>

\* The user's function returns, with an error or without.
WReturn(w, e) ==
  /\ wpc[w] = "running"
  /\ werr' = [werr EXCEPT ![w] = e]
  /\ raised' = [c \in Callers |-> IF c = user[w] /\ e # CL_SUCCESS
                                  THEN raised[c] \cup {e} ELSE raised[c]]
  /\ user' = [user EXCEPT ![w] = None]
  /\ WGoto(w, IF e = CL_SUCCESS THEN "next" ELSE "cas")
  /\ UNCHANGED <<gRunCount, gRunning, gThreadCount, jobError, gUserInfo,
                 initial, locks, item, threadID, caller, exiting, started>>

\* __sync_val_compare_and_swap(&jobError, CL_SUCCESS, err)
WSetError(w) ==
  /\ wpc[w] = "cas"
  /\ jobError' = IF jobError = CL_SUCCESS THEN werr[w] ELSE jobError
  /\ WGoto(w, "zero")
  /\ UNCHANGED <<gRunCount, gRunning, gThreadCount, gUserInfo, initial, locks,
                 item, threadID, user, werr, caller, exiting, history>>

\* gRunCount = 0
WDropWork(w) ==
  /\ wpc[w] = "zero"
  /\ gRunCount' = 0
  /\ WGoto(w, "next")
  /\ UNCHANGED <<gRunning, gThreadCount, jobError, gUserInfo, initial, locks,
                 item, threadID, user, werr, caller, exiting, history>>

\* Mutant of WExit: the worker leaves without counting itself out.
WExitForgotten(w) ==
  /\ wpc[w] = "exit"
  /\ WGoto(w, "done")
  /\ UNCHANGED <<gRunCount, gRunning, gThreadCount, jobError, gUserInfo,
                 initial, locks, item, threadID, user, werr, caller, exiting,
                 history>>

\* gThreadCount--; return
WExit(w) ==
  /\ wpc[w] = "exit"
  /\ gThreadCount' = gThreadCount - 1
  /\ WGoto(w, "done")
  /\ UNCHANGED <<gRunCount, gRunning, jobError, gUserInfo, initial, locks,
                 item, threadID, user, werr, caller, exiting, history>>

WorkerStep(w) ==
  \/ WStart(w) \/ WTakeItem(w) \/ WParkLock(w) \/ WDecRunning(w)
  \/ WSignalLock(w) \/ WSignal(w) \/ WWait(w) \/ WWoken(w) \/ WTake(w)
  \/ WIncRunning(w) \/ WParkUnlock(w) \/ WCheckError(w) \/ WCall(w)
  \/ (\E e \in Errors \cup {CL_SUCCESS} : WReturn(w, e))
  \/ WSetError(w) \/ WDropWork(w) \/ WExit(w)

-----------------------------------------------------------------------------
(* Application threads: SetThreadCount, GetThreadCount, ThreadPool_Do.     *)

CGoto(c, l) == cpc' = [cpc EXCEPT ![c] = l]

\* SetThreadCount(n), used as ThreadPool.h asks: before the first use of the
\* pool.  (Once threadPoolInitErr is CL_SUCCESS the code aborts.)
SetThreadCount(n) ==
  /\ threadPoolInitErr # CL_SUCCESS
  /\ once = "new" /\ \A c \in Callers : cpc[c] = "idle"
  /\ gThreadCount' = n
  /\ UNCHANGED <<gRunCount, gRunning, jobError, gUserInfo, initial, locks,
                 worker, caller, exiting, history>>

\* A caller enters ThreadPool_Do(func_ptr, n, userInfo) or GetThreadCount().
CCall(c, o, n) ==
  /\ cpc[c] = "idle"
  /\ xpc = "none"
  /\ op' = [op EXCEPT ![c] = o]
  /\ count' = [count EXCEPT ![c] = n]
  /\ CGoto(c, "once")
  /\ UNCHANGED <<gRunCount, gRunning, gThreadCount, jobError, gUserInfo,
                 initial, locks, worker, next, ret, exiting, history>>

\* What follows pthread_once.
AfterOnce(c) == IF op[c] = "do" THEN "c_init" ELSE "g_read"

\* pthread_once(&threadpool_init_control, ThreadPool_Init): the first caller
\* runs the routine, the others block until it has returned.
COnce(c) ==
  /\ cpc[c] = "once"
  /\ \/ once = "new"  /\ once' = "running" /\ CGoto(c, "i_conf")
     \/ once = "done" /\ UNCHANGED once /\ CGoto(c, AfterOnce(c))
  /\ UNCHANGED <<gRunCount, gRunning, gThreadCount, jobError, gUserInfo,
                 threadPoolInitErr, spawned, tid, locks, worker, op, count,
                 next, ret, exiting, history>>

\* The number of threads ThreadPool_Init settles on: the environment variable
\* CL_TEST_SINGLE_THREADED, else what SetThreadCount asked for, else the CPU
\* count, which a unicore machine rounds up to 2.
ThreadCount(single, cores) ==
  IF single THEN 1
  ELSE IF gThreadCount # 0 THEN gThreadCount
  ELSE IF cores = 1 THEN 2 ELSE cores

\* Below 2 threads the pool stays down and threadPoolInitErr stays -1.
IConfigure(c, single, cores) ==
  LET n == ThreadCount(single, cores) IN
  /\ cpc[c] = "i_conf"
  /\ gThreadCount' = IF n < 2 THEN 1 ELSE n
  /\ once' = IF n < 2 THEN "done" ELSE once
  /\ CGoto(c, IF n < 2 THEN AfterOnce(c) ELSE "i_lock")
  /\ UNCHANGED <<gRunCount, gRunning, jobError, gUserInfo, threadPoolInitErr,
                 spawned, tid, locks, worker, op, count, next, ret, exiting,
                 history>>

\* pthread_mutex_lock(&caller_cond_lock), in ThreadPool_Init and ThreadPool_Do,
\* and the re-acquisition at the end of a pthread_cond_wait
CCallerLock(c) ==
  /\ cpc[c] \in {"i_lock", "i_woken", "c_caller", "c_woken"}
  /\ caller_cond_lock = None
  /\ caller_cond_lock' = c
  /\ CGoto(c, CASE cpc[c] = "i_lock"   -> "i_running"
                [] cpc[c] = "i_woken"  -> "i_test"
                [] cpc[c] = "c_caller" -> "p_err"
                [] cpc[c] = "c_woken"  -> "c_test")
  /\ UNCHANGED <<gRunCount, gRunning, gThreadCount, jobError, gUserInfo,
                 initial, cond_lock, gThreadPoolLock, worker, op, count, next,
                 ret, exiting, history>>

\* Mutant of ISetRunning: gRunning is left at 0.
ISetRunningForgotten(c) ==
  /\ cpc[c] = "i_running"
  /\ CGoto(c, "i_spawn")
  /\ UNCHANGED <<gRunCount, gRunning, gThreadCount, jobError, gUserInfo,
                 initial, locks, worker, op, count, next, ret, exiting,
                 history>>

\* gRunning = gThreadCount
ISetRunning(c) ==
  /\ cpc[c] = "i_running"
  /\ gRunning' = gThreadCount
  /\ CGoto(c, "i_spawn")
  /\ UNCHANGED <<gRunCount, gThreadCount, jobError, gUserInfo, initial, locks,
                 worker, op, count, next, ret, exiting, history>>

\* Mutant of ISpawn: ThreadPool_Init returns without waiting.
ISpawnNoWait(c) ==
  /\ cpc[c] = "i_spawn"
  /\ wpc' = [wpc EXCEPT ![spawned] = "start"]
  /\ spawned' = spawned + 1
  /\ CGoto(c, IF spawned + 1 = gThreadCount
              THEN AfterOnce(c) ELSE "i_spawn")
  /\ once' = IF spawned + 1 = gThreadCount THEN "done" ELSE once
  /\ UNCHANGED <<gRunCount, gRunning, gThreadCount, jobError, gUserInfo,
                 threadPoolInitErr, tid, locks, item, threadID, user,
                 werr, op, count, next, ret, exiting, history>>

\* pthread_create, once per iteration of the loop
ISpawn(c) ==
  /\ cpc[c] = "i_spawn"
  /\ wpc' = [wpc EXCEPT ![spawned] = "start"]
  /\ spawned' = spawned + 1
  /\ CGoto(c, IF spawned + 1 = gThreadCount THEN "i_wait" ELSE "i_spawn")
  /\ UNCHANGED <<gRunCount, gRunning, gThreadCount, jobError, gUserInfo,
                 threadPoolInitErr, once, tid, locks, item, threadID, user,
                 werr, op, count, next, ret, exiting, history>>

\* pthread_cond_wait(&caller_cond_var, &caller_cond_lock): release and park
CWait(c) ==
  /\ cpc[c] \in {"i_wait", "c_wait"}
  /\ caller_cond_lock' = None
  /\ CGoto(c, IF cpc[c] = "i_wait" THEN "i_waiting" ELSE "c_waiting")
  /\ UNCHANGED <<gRunCount, gRunning, gThreadCount, jobError, gUserInfo,
                 initial, cond_lock, gThreadPoolLock, worker, op, count, next,
                 ret, exiting, history>>

\* while (gRunCount != -gThreadCount), then unlock; the pool is up
ITest(c) ==
  /\ cpc[c] = "i_test"
  /\ IF gRunCount # -gThreadCount
       THEN CGoto(c, "i_wait") /\ UNCHANGED <<caller_cond_lock, initial>>
       ELSE /\ CGoto(c, AfterOnce(c))
            /\ caller_cond_lock' = None
            /\ threadPoolInitErr' = CL_SUCCESS
            /\ once' = "done"
            /\ UNCHANGED <<spawned, tid>>
  /\ UNCHANGED <<gRunCount, gRunning, gThreadCount, jobError, gUserInfo,
                 cond_lock, gThreadPoolLock, worker, op, count, next, ret,
                 exiting, history>>

\* GetThreadCount returns max(gThreadCount, 1).
GRead(c) ==
  /\ cpc[c] = "g_read"
  /\ ret' = [ret EXCEPT ![c] = IF gThreadCount < 1 THEN 1 ELSE gThreadCount]
  /\ CGoto(c, "returned")
  /\ UNCHANGED <<gRunCount, gRunning, gThreadCount, jobError, gUserInfo,
                 initial, locks, worker, op, count, next, exiting, history>>

\* ThreadPool_Do: serial when the pool is down, refused when count is too big
CInit(c) ==
  /\ cpc[c] = "c_init"
  /\ LET refused == threadPoolInitErr = CL_SUCCESS /\ count[c] >= MAX_COUNT IN
     /\ ret' = [ret EXCEPT ![c] = IF refused THEN -1 ELSE CL_SUCCESS]
     /\ CGoto(c, IF threadPoolInitErr # CL_SUCCESS THEN "serial"
                 ELSE IF refused THEN "returned" ELSE "c_pool")
  /\ UNCHANGED <<gRunCount, gRunning, gThreadCount, jobError, gUserInfo,
                 initial, locks, worker, op, count, next, exiting, history>>

\* The single threaded loop: func_ptr(currentJob, 0, userInfo) is entered
CSerialCall(c) ==
  /\ cpc[c] = "serial"
  /\ ret[c] = CL_SUCCESS /\ next[c] < count[c]
  /\ started' = [started EXCEPT ![c] = @ \cup {next[c]}]
  /\ CGoto(c, "s_run")
  /\ UNCHANGED <<gRunCount, gRunning, gThreadCount, jobError, gUserInfo,
                 initial, locks, worker, op, count, next, ret, exiting, raised>>

\* ... and returns
CSerialReturn(c, e) ==
  /\ cpc[c] = "s_run"
  /\ raised' = IF e = CL_SUCCESS THEN raised
               ELSE [raised EXCEPT ![c] = @ \cup {e}]
  /\ next' = [next EXCEPT ![c] = @ + 1]
  /\ ret' = [ret EXCEPT ![c] = e]
  /\ CGoto(c, "serial")
  /\ UNCHANGED <<gRunCount, gRunning, gThreadCount, jobError, gUserInfo,
                 initial, locks, worker, op, count, exiting, started>>

\* The loop ends with the first error, or after the last job
CSerialEnd(c) ==
  /\ cpc[c] = "serial"
  /\ ret[c] # CL_SUCCESS \/ next[c] >= count[c]
  /\ CGoto(c, "returned")
  /\ UNCHANGED <<gRunCount, gRunning, gThreadCount, jobError, gUserInfo,
                 initial, locks, worker, op, count, next, ret, exiting,
                 history>>

\* Mutant of CPoolLock: no mutual exclusion of callers.
CPoolLockIgnored(c) ==
  /\ cpc[c] = "c_pool"
  /\ gThreadPoolLock' = c
  /\ CGoto(c, "c_cond")
  /\ UNCHANGED <<gRunCount, gRunning, gThreadCount, jobError, gUserInfo,
                 initial, cond_lock, caller_cond_lock, worker, op, count, next,
                 ret, exiting, history>>

\* pthread_mutex_lock(&gThreadPoolLock)
CPoolLock(c) ==
  /\ cpc[c] = "c_pool"
  /\ gThreadPoolLock = None
  /\ gThreadPoolLock' = c
  /\ CGoto(c, "c_cond")
  /\ UNCHANGED <<gRunCount, gRunning, gThreadCount, jobError, gUserInfo,
                 initial, cond_lock, caller_cond_lock, worker, op, count, next,
                 ret, exiting, history>>

\* pthread_mutex_lock(&cond_lock)
CCondLock(c) ==
  /\ cpc[c] = "c_cond"
  /\ cond_lock = None
  /\ cond_lock' = c
  /\ CGoto(c, "c_caller")
  /\ UNCHANGED <<gRunCount, gRunning, gThreadCount, jobError, gUserInfo,
                 initial, caller_cond_lock, gThreadPoolLock, worker, op, count,
                 next, ret, exiting, history>>

\* Mutant of CPrimeError: the error of the last call stays.
CPrimeErrorForgotten(c) ==
  /\ cpc[c] = "p_err"
  /\ CGoto(c, "p_count")
  /\ UNCHANGED <<gRunCount, gRunning, gThreadCount, jobError, gUserInfo,
                 initial, locks, worker, op, count, next, ret, exiting,
                 history>>

\* jobError = CL_SUCCESS
CPrimeError(c) ==
  /\ cpc[c] = "p_err"
  /\ jobError' = CL_SUCCESS
  /\ CGoto(c, "p_count")
  /\ UNCHANGED <<gRunCount, gRunning, gThreadCount, gUserInfo, initial, locks,
                 worker, op, count, next, ret, exiting, history>>

\* gRunCount = gJobCount = count (gJobCount is never read)
CPrimeCount(c) ==
  /\ cpc[c] = "p_count"
  /\ gRunCount' = count[c]
  /\ CGoto(c, "p_func")
  /\ UNCHANGED <<gRunning, gThreadCount, jobError, gUserInfo, initial, locks,
                 worker, op, count, next, ret, exiting, history>>

\* gFunc_ptr = func_ptr; gUserInfo = userInfo
CPrimeFunc(c) ==
  /\ cpc[c] = "p_func"
  /\ gUserInfo' = c
  /\ CGoto(c, "c_bcast")
  /\ UNCHANGED <<gRunCount, gRunning, gThreadCount, jobError, initial, locks,
                 worker, op, count, next, ret, exiting, history>>

\* Every worker parked on cond_var wakes.
WakeWorkers == wpc' = [w \in Workers |->
                         IF wpc[w] = "waiting" THEN "woken" ELSE wpc[w]]

\* pthread_cond_broadcast(&cond_var); pthread_mutex_unlock(&cond_lock)
CBroadcast(c) ==
  /\ cpc[c] = "c_bcast"
  /\ WakeWorkers
  /\ cond_lock' = None
  /\ CGoto(c, "c_wait")
  /\ UNCHANGED <<gRunCount, gRunning, gThreadCount, jobError, gUserInfo,
                 initial, caller_cond_lock, gThreadPoolLock, item, threadID,
                 user, werr, op, count, next, ret, exiting, history>>

\* while (gRunning), then pthread_mutex_unlock(&caller_cond_lock)
CTest(c) ==
  /\ cpc[c] = "c_test"
  /\ caller_cond_lock' = IF gRunning # 0 THEN caller_cond_lock ELSE None
  /\ CGoto(c, IF gRunning # 0 THEN "c_wait" ELSE "c_err")
  /\ UNCHANGED <<gRunCount, gRunning, gThreadCount, jobError, gUserInfo,
                 initial, cond_lock, gThreadPoolLock, worker, op, count, next,
                 ret, exiting, history>>

\* err = jobError
CReadError(c) ==
  /\ cpc[c] = "c_err"
  /\ ret' = [ret EXCEPT ![c] = jobError]
  /\ CGoto(c, "c_unlock")
  /\ UNCHANGED <<gRunCount, gRunning, gThreadCount, jobError, gUserInfo,
                 initial, locks, worker, op, count, next, exiting, history>>

\* pthread_mutex_unlock(&gThreadPoolLock); return err
CPoolUnlock(c) ==
  /\ cpc[c] = "c_unlock"
  /\ gThreadPoolLock' = None
  /\ CGoto(c, "returned")
  /\ UNCHANGED <<gRunCount, gRunning, gThreadCount, jobError, gUserInfo,
                 initial, cond_lock, caller_cond_lock, worker, op, count, next,
                 ret, exiting, history>>

\* The application has the result; its locals and the history are cleared.
CReturned(c) ==
  /\ cpc[c] = "returned"
  /\ CGoto(c, "idle")
  /\ op' = [op EXCEPT ![c] = "do"]
  /\ count' = [count EXCEPT ![c] = 0]
  /\ next' = [next EXCEPT ![c] = 0]
  /\ ret' = [ret EXCEPT ![c] = CL_SUCCESS]
  /\ started' = [started EXCEPT ![c] = {}]
  /\ raised' = [raised EXCEPT ![c] = {}]
  /\ UNCHANGED <<gRunCount, gRunning, gThreadCount, jobError, gUserInfo,
                 initial, locks, worker, exiting>>

CallerStep(c) ==
  \/ COnce(c) \/ CCallerLock(c) \/ ISetRunning(c) \/ ISpawn(c) \/ CWait(c)
  \/ ITest(c) \/ GRead(c) \/ CInit(c) \/ CSerialEnd(c) \/ CPoolLock(c)
  \/ CCondLock(c) \/ CPrimeError(c) \/ CPrimeCount(c) \/ CPrimeFunc(c)
  \/ CBroadcast(c) \/ CTest(c) \/ CReadError(c) \/ CPoolUnlock(c)
  \/ CReturned(c) \/ CSerialCall(c)
  \/ (\E single \in BOOLEAN, cores \in Cores : IConfigure(c, single, cores))
  \/ (\E e \in Errors \cup {CL_SUCCESS} : CSerialReturn(c, e))

-----------------------------------------------------------------------------
(* ThreadPool_Exit, registered with atexit by ThreadPool_Init.  The harness *)
(* joins its test threads before main returns, so no call is in progress.   *)

XStart ==
  /\ xpc = "none"
  /\ once = "done" /\ threadPoolInitErr = CL_SUCCESS
  /\ \A c \in Callers : cpc[c] = "idle"
  /\ gRunCount' = CL_INT_MAX
  /\ xpc' = "spin"
  /\ UNCHANGED <<gRunning, gThreadCount, jobError, gUserInfo, initial, locks,
                 worker, caller, spins, history>>

\* Mutant of XBroadcast: one broadcast, and sleep until the workers are gone.
XBroadcastOnce ==
  /\ xpc = "spin"
  /\ gThreadCount # 0 /\ spins < MaxSpins
  /\ IF spins = 0 THEN WakeWorkers /\ spins' = 1 ELSE UNCHANGED <<wpc, spins>>
  /\ UNCHANGED <<gRunCount, gRunning, gThreadCount, jobError, gUserInfo,
                 initial, locks, item, threadID, user, werr, caller, xpc,
                 history>>

\* One iteration: pthread_cond_broadcast(&cond_var), without cond_lock; sleep
XBroadcast ==
  /\ xpc = "spin"
  /\ gThreadCount # 0 /\ spins < MaxSpins
  /\ WakeWorkers
  /\ spins' = spins + 1
  /\ UNCHANGED <<gRunCount, gRunning, gThreadCount, jobError, gUserInfo,
                 initial, locks, item, threadID, user, werr, caller, xpc,
                 history>>

\* The loop ends: threads are left behind, or pthread_join collects them all
XTimeout ==
  /\ xpc = "spin"
  /\ gThreadCount # 0 /\ spins >= MaxSpins
  /\ xpc' = "timeout"
  /\ UNCHANGED <<gRunCount, gRunning, gThreadCount, jobError, gUserInfo,
                 initial, locks, worker, caller, spins, history>>

XJoin ==
  /\ xpc = "spin"
  /\ gThreadCount = 0
  /\ \A w \in Workers : w < spawned => wpc[w] = "done"
  /\ xpc' = "orderly"
  /\ UNCHANGED <<gRunCount, gRunning, gThreadCount, jobError, gUserInfo,
                 initial, locks, worker, caller, spins, history>>

ExitStep == XBroadcast \/ XTimeout \/ XJoin

\* The process is gone.
Terminated == xpc \in {"orderly", "timeout"} /\ UNCHANGED vars

-----------------------------------------------------------------------------
Next ==
  \/ \E n \in SetCounts : SetThreadCount(n)
  \/ \E c \in Callers : \/ \E n \in Counts : CCall(c, "do", n)
                        \/ CCall(c, "count", 0)
                        \/ CallerStep(c)
  \/ \E w \in Workers : WorkerStep(w)
  \/ XStart \/ ExitStep \/ Terminated

Spec == Init /\ [][Next]_vars

\* Every thread that can take a step does: the operating system schedules it,
\* and the user's functions return.  Nobody has to call the pool or to exit.
Fairness ==
  /\ \A w \in Workers : WF_vars(WorkerStep(w))
  /\ \A c \in Callers : WF_vars(CallerStep(c))
  /\ WF_vars(ExitStep)

FairSpec == Spec /\ Fairness

-----------------------------------------------------------------------------
(* Properties.                                                             *)

\* Every variable keeps its type: counters are integers, mutexes have owners,
\* threads are at labels of their code, and ThreadPool_Exit broadcasts at most
\* MaxSpins times.
TypeOK ==
  /\ gRunCount \in Int /\ gRunning \in Int /\ gThreadCount \in Int
  /\ jobError \in Errors \cup {CL_SUCCESS}
  /\ gUserInfo \in Callers \cup {None}
  /\ threadPoolInitErr \in Int
  /\ once \in {"new", "running", "done"}
  /\ spawned \in Nat /\ tid \in Nat
  /\ cond_lock \in Workers \cup Callers \cup {None}
  /\ caller_cond_lock \in Workers \cup Callers \cup {None}
  /\ gThreadPoolLock \in Callers \cup {None}
  /\ wpc \in [Workers -> WorkerLabels]
  /\ item \in [Workers -> Int]
  /\ threadID \in [Workers -> Nat]
  /\ user \in [Workers -> Callers \cup {None}]
  /\ werr \in [Workers -> Errors \cup {CL_SUCCESS}]
  /\ cpc \in [Callers -> CallerLabels]
  /\ op \in [Callers -> {"do", "count"}]
  /\ count \in [Callers -> Counts \cup {0}]
  /\ next \in [Callers -> Nat]
  /\ ret \in [Callers -> Int]
  /\ xpc \in {"none", "spin", "orderly", "timeout"} /\ spins \in 0 .. MaxSpins
  /\ started \in [Callers -> SUBSET Int]
  /\ raised \in [Callers -> SUBSET Errors]

\* No job outlives its call: while a worker is inside the user's function, the
\* caller whose userInfo it uses has not left the wait in ThreadPool_Do.
NoJobOutlivesItsCall ==
  \A w \in Workers : wpc[w] = "running" =>
    /\ user[w] \in Callers
    /\ cpc[user[w]] \in {"c_wait", "c_waiting", "c_woken", "c_test"}

\* ThreadPool_Do returns CL_SUCCESS only when every job ran and none failed;
\* otherwise it returns an error that one of its own jobs returned, or -1 for
\* a count it refused without running anything.
ReturnIsRight ==
  \A c \in Callers : cpc[c] = "returned" /\ op[c] = "do" =>
    \/ ret[c] = CL_SUCCESS /\ started[c] = 0 .. count[c] - 1 /\ raised[c] = {}
    \/ ret[c] # CL_SUCCESS /\ ret[c] \in raised[c]
    \/ ret[c] = -1 /\ count[c] >= MAX_COUNT /\ started[c] = {}

\* A job id handed to the user's function is one of the call's, and no two
\* workers are ever given the same one.
JobsRunOnce ==
  [][\A w \in Workers : wpc[w] = "call" /\ wpc'[w] = "running" =>
       /\ gUserInfo \in Callers
       /\ item[w] - 1 \in (0 .. count[gUserInfo] - 1) \ started[gUserInfo]]_vars

\* The thread ids that jobs see are below GetThreadCount() and differ between
\* workers, so that per-thread scratch space indexed by them is never shared.
ThreadIdsDistinct ==
  \A w \in Workers : wpc[w] = "running" =>
    /\ threadID[w] < gThreadCount
    /\ \A v \in Workers \ {w} : wpc[v] = "running" => threadID[v] # threadID[w]

\* threadID, the counter every new worker increments, is a local variable of
\* ThreadPool_Init: no worker is still to read it once the routine has returned.
ThreadIdCounterAlive ==
  \A w \in Workers : wpc[w] = "start" => once = "running"

\* Once ThreadPool_Exit has told the workers to exit, nothing (a late error
\* path, a late caller) takes the order back.
ExitOrderStands == xpc # "none" => gRunCount >= MAX_COUNT

\* Workers that were launched and have not returned.
LeftWorkers == {w \in Workers : wpc[w] \notin {"none", "done"}}

\* While ThreadPool_Exit looks at it, gThreadCount is the number of workers that are
\* still there: it joins no thread that has not left, and what it says when it gives
\* up is true.
ExitKnowsWhoIsLeft == xpc # "none" => gThreadCount = Cardinality(LeftWorkers)

\* A call that has the pool returns: the wakeup that ends its wait is never
\* lost and its workers never wait for one another.
DoReturns == \A c \in Callers : cpc[c] = "c_cond" ~> cpc[c] = "returned"

\* ThreadPool_Init returns, so that callers blocked in pthread_once go on.
InitReturns == \A c \in Callers : cpc[c] = "i_conf" ~> once = "done"

\* ThreadPool_Exit comes to an end, although it broadcasts without cond_lock and a
\* worker between its test and its wait misses that.
ExitReturns == xpc = "spin" ~> xpc \in {"orderly", "timeout"}

=============================================================================
