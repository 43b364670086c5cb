---------------------------- MODULE ThreadPoolInv ----------------------------
(***************************************************************************)
(* The inductive invariant behind the safety of the thread pool: the three *)
(* mutexes, the phases of the pool, what gRunning counts, and when the     *)
(* pool is quiet.                                                          *)
(***************************************************************************)
EXTENDS ThreadPool

\* A launched worker that gRunning counts.
Busy == ActiveLabels \ {"none"}
BusyWorkers == {w \in Workers : wpc[w] \in Busy}

\* Workers that the order to exit has reached.
GoneWorkers == {w \in Workers : wpc[w] \in {"exit", "done"}}

\* A worker that is being launched, one that has parked or is about to, and one
\* that was woken for no reason and will park again.
LaunchLabels == {"none", "start", "first", "plock", "dec", "slock", "sig",
                 "wait", "waiting", "woken", "take"}

\* ThreadPool_Init before its loop.
BeforeLaunch == {"i_conf", "i_lock", "i_running"}

\* Where a caller holds each mutex.
CondCaller == {"c_caller", "p_err", "p_count", "p_func", "c_bcast"}
PoolCaller == DoLabels \cup {"c_err", "c_unlock"}

\* Where the caller has handed out work that it still waits for.
Waiting == {"c_wait", "c_waiting"}
Window == Waiting \cup {"p_func", "c_bcast"}

\* No worker has work, or is about to count itself as busy.
NobodyBusy == \A w \in Workers : wpc[w] \notin Busy \cup {"inc"}

\* ... and none will find any.
Quiet == NobodyBusy /\ (xpc = "none" => gRunCount <= 0)

\* Each mutex has one owner: the thread that is where it holds it.
Locks ==
  /\ \A w \in Workers : wpc[w] \in CondLabels => cond_lock = w
  /\ \A c \in Callers : cpc[c] \in CondCaller => cond_lock = c
  /\ \A c \in Callers : cpc[c] \in PoolCaller => gThreadPoolLock = c

\* pthread_once: nobody gets past it before ThreadPool_Init has returned, and
\* one thread runs the routine.
Phases ==
  /\ once = "new" => \A c \in Callers : cpc[c] \in {"idle", "once"}
  /\ once = "running" =>
       \A c \in Callers : cpc[c] \in {"idle", "once"} \cup InitLabels
  /\ \A c \in Callers : cpc[c] \in InitLabels =>
       once = "running" /\ \A d \in Callers : cpc[d] \in InitLabels => d = c
  /\ threadPoolInitErr = CL_SUCCESS => once = "done"
  /\ xpc # "none" => once = "done" /\ \A c \in Callers : cpc[c] = "idle"

\* Launching: no thread before the loop; while ThreadPool_Init runs the workers
\* only start and park; afterwards none is left to read its stack.
Launch ==
  /\ gThreadCount <= MaxThreads
  /\ (once = "new" \/ \E c \in Callers : cpc[c] \in BeforeLaunch) =>
       spawned = 0 /\ gRunning = 0 /\ \A w \in Workers : wpc[w] = "none"
  /\ \A c \in Callers : cpc[c] \in {"i_lock", "i_running"} => gThreadCount > 0
  /\ \A c \in Callers : cpc[c] = "i_spawn" =>
       /\ spawned < gThreadCount
       /\ \A w \in Workers : w >= spawned => wpc[w] = "none"
  /\ once # "done" => gRunCount <= 0 /\ \A w \in Workers : wpc[w] \in LaunchLabels
  /\ once = "done" => \A w \in Workers : wpc[w] \notin {"start", "first"}

\* Until the order to exit, gRunCount is too small to be mistaken for it.
Bounded ==
  /\ xpc = "none" => gRunCount < MAX_COUNT
  /\ \A c \in Callers : cpc[c] \in PoolCaller \cup {"c_pool"} => count[c] < MAX_COUNT

\* Threads that gRunning counts and that ThreadPool_Init has still to launch.
Unlaunched == IF \E c \in Callers : cpc[c] = "i_spawn"
              THEN gThreadCount - spawned ELSE 0

\* gRunning is the number of busy workers.
Running == gRunning = Cardinality(BusyWorkers) + Unlaunched

\* The pool is quiet when the last worker out signals, when that signal has
\* reached the caller, and whenever nobody waits for work to be done.
QuietTimes ==
  /\ \A w \in Workers : wpc[w] \in {"plock", "dec"} =>
       xpc = "none" /\ gRunCount <= 0
  /\ \A w \in Workers : wpc[w] \in {"slock", "sig"} =>
       Quiet /\ \A c \in Callers : cpc[c] # "i_spawn"
  /\ \A c \in Callers : cpc[c] \in {"i_woken", "i_test"} => Quiet
  /\ once = "done" /\ (\A c \in Callers : cpc[c] \notin Waiting) => NobodyBusy
  /\ once = "done" /\ (\A c \in Callers : cpc[c] \notin Window) => Quiet

\* The user's function and data are those of the caller that waits.
UserInfo ==
  /\ \A c \in Callers :
       cpc[c] \in Waiting \cup {"c_bcast", "c_woken", "c_test"} => gUserInfo = c
  /\ \A w \in Workers : wpc[w] = "running" => user[w] = gUserInfo

\* Each worker takes one item after the order to exit, so the order stands.
ExitCount == xpc # "none" => gRunCount + Cardinality(GoneWorkers) >= CL_INT_MAX

\* The inductive invariant of ThreadPoolProofs.
IInv ==
  /\ TypeOK /\ Locks /\ Phases /\ Launch /\ Bounded /\ Running /\ QuietTimes
  /\ UserInfo /\ ExitCount

-----------------------------------------------------------------------------
(* The second invariant: what became of each job of the call in progress.  *)

\* A worker that has an item and has not called the user's function with it.
Held == {"inc", "punlock", "check", "call"}

\* Where a caller's jobs have been handed out and its result not yet read.
Out == Window \cup {"c_woken", "c_test", "c_err"}

\* Where a call has not started any job.
Fresh == {"idle", "once", "g_read", "c_init", "c_pool", "c_cond", "c_caller",
          "p_err", "p_count", "p_func", "c_bcast"} \cup InitLabels

\* The items in the hands of workers are jobs of the call that have not been
\* started, all different, and gRunCount will not hand them out again.
ItemsAreJobs ==
  \A c \in Callers : cpc[c] \in Out =>
    /\ gRunCount <= count[c]
    /\ \A j \in started[c] : 0 <= j /\ j < count[c] /\ gRunCount <= j
    /\ \A w \in Workers : wpc[w] \in Held =>
         /\ 1 <= item[w] /\ item[w] <= count[c] /\ gRunCount < item[w]
         /\ item[w] - 1 \notin started[c]
    /\ \A v, w \in Workers : wpc[v] \in Held /\ wpc[w] \in Held /\ v # w =>
         item[v] # item[w]

\* Unless a job failed, each one was started, is in a worker's hands, or is
\* still to be handed out.
NoJobLost ==
  \A c \in Callers : cpc[c] \in Out /\ raised[c] = {} =>
    \A j \in 0 .. count[c] - 1 :
      \/ j < gRunCount
      \/ j \in started[c]
      \/ \E w \in Workers : wpc[w] \in Held /\ item[w] = j + 1

\* jobError is an error of this call, and no error of it is forgotten.
ErrorsKept ==
  \A c \in Callers : cpc[c] \in Out =>
    /\ jobError # CL_SUCCESS => jobError \in raised[c]
    /\ \A w \in Workers : wpc[w] = "cas" => werr[w] \in raised[c]
    /\ \A w \in Workers : wpc[w] = "zero" => raised[c] # {}
    /\ raised[c] # {} => jobError # CL_SUCCESS \/ \E w \in Workers : wpc[w] = "cas"

\* A call starts clean; the serial loop runs its jobs in order.
CallState ==
  \A c \in Callers :
    /\ cpc[c] \in Fresh => started[c] = {} /\ raised[c] = {} /\ next[c] = 0
    /\ cpc[c] = "p_count" => jobError = CL_SUCCESS
    /\ cpc[c] = "serial" =>
         /\ started[c] = 0 .. next[c] - 1 /\ next[c] <= count[c]
         /\ ret[c] = CL_SUCCESS => raised[c] = {}
         /\ ret[c] # CL_SUCCESS => ret[c] \in raised[c]
    /\ cpc[c] = "s_run" =>
         /\ started[c] = 0 .. next[c] /\ next[c] < count[c]
         /\ ret[c] = CL_SUCCESS /\ raised[c] = {}

\* What ThreadPool_Do is about to return, or has returned, is right.
Result(c) ==
  \/ ret[c] = CL_SUCCESS /\ started[c] = 0 .. count[c] - 1 /\ raised[c] = {}
  \/ ret[c] # CL_SUCCESS /\ ret[c] \in raised[c]
  \/ ret[c] = -1 /\ count[c] >= MAX_COUNT /\ started[c] = {}

Results ==
  \A c \in Callers :
    /\ cpc[c] = "c_unlock" => Result(c)
    /\ cpc[c] = "returned" /\ op[c] = "do" => Result(c)
    /\ cpc[c] = "g_read" => op[c] = "count"

\* The inductive invariant of ThreadPoolJobProofs: every job of the call in
\* progress is accounted for, and so is every error.
JInv == ItemsAreJobs /\ NoJobLost /\ ErrorsKept /\ CallState /\ Results

-----------------------------------------------------------------------------
(* The third invariant: thread ids.                                        *)

\* Workers that have got their thread id.
Numbered == {w \in Workers : wpc[w] \notin {"none", "start"}}

\* The ids handed out are 0 .. tid-1, to as many workers; and the threads that
\* were launched are those GetThreadCount() counts, until the order to exit.
ThreadIds ==
  /\ \A w \in Workers : w >= spawned => wpc[w] = "none"
  /\ tid = Cardinality(Numbered)
  /\ \A w \in Numbered : threadID[w] < tid
  /\ \A v, w \in Numbered : v # w => threadID[v] # threadID[w]
  /\ \A w \in Workers : wpc[w] \in {"exit", "done"} => xpc # "none"
  /\ xpc = "none" /\ spawned > 0 /\ (\A c \in Callers : cpc[c] # "i_spawn") =>
       gThreadCount = spawned

-----------------------------------------------------------------------------
(* The fourth: what the job service sees of a call.                        *)

\* The jobs inside the user's function are different jobs of the call.
RunningJobs ==
  \A w \in Workers : wpc[w] = "running" =>
    /\ \A c \in Callers : user[w] = c => item[w] - 1 \in started[c]
    /\ \A v \in Workers \ {w} : wpc[v] = "running" => item[v] # item[w]

\* A thread that makes no call of ThreadPool_Do has no jobs.
NoCall ==
  \A c \in Callers :
    /\ op[c] = "count" => cpc[c] \in {"once", "g_read", "returned"} \cup InitLabels
    /\ cpc[c] = "idle" \/ op[c] = "count" =>
         count[c] = 0 /\ started[c] = {} /\ raised[c] = {}

\* What ThreadPoolServiceProofs adds to the other two invariants: the ids of the
\* workers, and what the job service sees, are in order.
SInv == JInv /\ ThreadIds /\ RunningJobs /\ NoCall

\* Everything together: the counters, locks, jobs, results and ids of the pool are
\* in order.
PoolInv == IInv /\ SInv

-----------------------------------------------------------------------------
(* The fifth: what ThreadPool_Exit knows.                                  *)

\* A pool that is up has as many threads as were launched, and gThreadCount follows
\* them when they leave.
Launched ==
  /\ \A w \in Workers : w < spawned => wpc[w] # "none"
  /\ \A c \in Callers :
       cpc[c] \in {"i_wait", "i_waiting", "i_woken", "i_test"} => spawned > 0
  /\ threadPoolInitErr = CL_SUCCESS => spawned > 0
  /\ ExitKnowsWhoIsLeft

-----------------------------------------------------------------------------
(* The sixth: when pthread_create has failed.                              *)

\* gRunning counts threads that were never launched, so that no worker is the
\* last one out: nobody ever ends the wait of ThreadPool_Init, nobody gets past
\* pthread_once, and no job is handed out.
LaunchFailed ==
  /\ TypeOK /\ Phases /\ NoCall
  /\ xpc = "none" /\ gRunCount <= 0
  /\ \A w \in Workers : wpc[w] \in LaunchLabels \ {"slock", "sig"}
  /\ \E c \in Callers : cpc[c] \in {"i_wait", "i_waiting"}
  /\ gRunning > Cardinality(BusyWorkers)

=============================================================================
