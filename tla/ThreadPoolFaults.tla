-------------------------- MODULE ThreadPoolFaults --------------------------
(***************************************************************************)
(* ThreadPool with the two faults that its environment may show and that   *)
(* the code has a loop or a branch for: pthread_cond_wait returning though *)
(* nobody broadcast, which POSIX allows, and pthread_create failing.       *)
(***************************************************************************)
EXTENDS ThreadPoolInv

CONSTANTS
  EAGAIN,     \* what pthread_create returns when it fails
  MaxWakes    \* bound on the number of spurious wakeups

ASSUME FaultsAssumption == EAGAIN \in Int \ {CL_SUCCESS} /\ MaxWakes \in Nat

VARIABLE wakes     \* spurious wakeups so far

fvars == <<vars, wakes>>

FInit == Init /\ wakes = 0

\* pthread_cond_wait(&cond_var, &cond_lock) returns to a worker spuriously.
SpuriousWorkerWake(w) ==
  /\ wpc[w] = "waiting"
  /\ wakes < MaxWakes
  /\ WGoto(w, "woken")
  /\ wakes' = wakes + 1
  /\ UNCHANGED <<gRunCount, gRunning, gThreadCount, jobError, gUserInfo,
                 initial, locks, item, threadID, user, werr, caller, exiting,
                 history>>

\* pthread_cond_wait(&caller_cond_var, &caller_cond_lock) returns spuriously.
SpuriousCallerWake(c) ==
  /\ cpc[c] \in {"i_waiting", "c_waiting"}
  /\ wakes < MaxWakes
  /\ CGoto(c, IF cpc[c] = "i_waiting" THEN "i_woken" ELSE "c_woken")
  /\ wakes' = wakes + 1
  /\ UNCHANGED <<gRunCount, gRunning, gThreadCount, jobError, gUserInfo,
                 initial, locks, worker, op, count, next, ret, exiting,
                 history>>

\* pthread_create fails: the loop ends with the threads launched so far.
SpawnFails(c) ==
  /\ cpc[c] = "i_spawn"
  /\ threadPoolInitErr' = EAGAIN
  /\ gThreadCount' = spawned
  /\ CGoto(c, "i_wait")
  /\ UNCHANGED <<gRunCount, gRunning, jobError, gUserInfo, once, spawned, tid,
                 locks, worker, op, count, next, ret, exiting, history, wakes>>

Usual == Next /\ UNCHANGED wakes

\* Workers are woken spuriously, and threads fail to start.
WorkerFaultSpec ==
  FInit /\ [][\/ Usual
              \/ \E w \in Workers : SpuriousWorkerWake(w)
              \/ \E c \in Callers : SpawnFails(c)]_fvars

\* The calling thread is woken spuriously.
CallerFaultSpec ==
  FInit /\ [][Usual \/ \E c \in Callers : SpuriousCallerWake(c)]_fvars

\* The pool is in order, or a launch has failed and it is never used.
FaultInv == PoolInv \/ LaunchFailed
=============================================================================
