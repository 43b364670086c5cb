----------------------------- MODULE JobService -----------------------------
(***************************************************************************)
(* What ThreadPool_Do promises its callers (ThreadPool.h): "returns first  *)
(* non-zero result from func_ptr, or CL_SUCCESS if all are zero.  Some     *)
(* workitems may not run if a non-zero result is returned", "every job     *)
(* will be run", and the call blocks until no job of it is running.        *)
(*                                                                         *)
(* There are no threads, locks or counters here: a call has jobs that run  *)
(* in any order and overlap in any way, each at most once, until the call  *)
(* returns.  ThreadPool is shown to implement this specification.          *)
(***************************************************************************)
EXTENDS Integers

CONSTANTS
  Callers,     \* application threads
  Counts,      \* job counts they may ask for
  Errors,      \* non-zero results a job may return
  MAX_COUNT    \* counts from here on may be refused

CL_SUCCESS == 0

VARIABLES
  phase,       \* [Callers -> {"idle", "working", "returned"}]
  count,       \* jobs of the call in progress
  started,     \* jobs that were started
  running,     \* jobs inside the user's function
  raised,      \* errors that jobs of the call returned
  ret          \* result of the call

vars == <<phase, count, started, running, raised, ret>>

Init ==
  /\ phase = [c \in Callers |-> "idle"]
  /\ count = [c \in Callers |-> 0]
  /\ started = [c \in Callers |-> {}]
  /\ running = [c \in Callers |-> {}]
  /\ raised = [c \in Callers |-> {}]
  /\ ret = [c \in Callers |-> CL_SUCCESS]

\* A caller asks for n jobs.
Call(c, n) ==
  /\ phase[c] = "idle"
  /\ phase' = [phase EXCEPT ![c] = "working"]
  /\ count' = [count EXCEPT ![c] = n]
  /\ UNCHANGED <<started, running, raised, ret>>

\* A job of the call that has not been started is.
Start(c, j) ==
  /\ phase[c] = "working"
  /\ j \in (0 .. count[c] - 1) \ started[c]
  /\ started' = [started EXCEPT ![c] = @ \cup {j}]
  /\ running' = [running EXCEPT ![c] = @ \cup {j}]
  /\ UNCHANGED <<phase, count, raised, ret>>

\* A running job returns, with an error or without.
Finish(c, j, e) ==
  /\ j \in running[c]
  /\ running' = [running EXCEPT ![c] = @ \ {j}]
  /\ raised' = [raised EXCEPT ![c] = @ \cup ({e} \ {CL_SUCCESS})]
  /\ UNCHANGED <<phase, count, started, ret>>

\* The call returns r: nothing of it is running, and r tells what happened.
Return(c, r) ==
  /\ phase[c] = "working"
  /\ running[c] = {}
  /\ \/ r = CL_SUCCESS /\ started[c] = 0 .. count[c] - 1 /\ raised[c] = {}
     \/ r \in raised[c]
     \/ r = -1 /\ count[c] >= MAX_COUNT /\ started[c] = {}
  /\ phase' = [phase EXCEPT ![c] = "returned"]
  /\ ret' = [ret EXCEPT ![c] = r]
  /\ UNCHANGED <<count, started, running, raised>>

\* The caller is ready for another call.
Forget(c) ==
  /\ phase[c] = "returned"
  /\ phase' = [phase EXCEPT ![c] = "idle"]
  /\ count' = [count EXCEPT ![c] = 0]
  /\ started' = [started EXCEPT ![c] = {}]
  /\ raised' = [raised EXCEPT ![c] = {}]
  /\ ret' = [ret EXCEPT ![c] = CL_SUCCESS]
  /\ UNCHANGED running

Next ==
  \E c \in Callers :
    \/ \E n \in Counts : Call(c, n)
    \/ \E j \in 0 .. count[c] - 1 : Start(c, j)
    \/ \E j \in running[c], e \in Errors \cup {CL_SUCCESS} : Finish(c, j, e)
    \/ \E r \in Errors \cup {CL_SUCCESS, -1} : Return(c, r)
    \/ Forget(c)

Spec == Init /\ [][Next]_vars
=============================================================================
