----------------------------- MODULE WinCondVar -----------------------------
(***************************************************************************)
(* The condition variable that test_common/harness/ThreadPool.cpp builds   *)
(* for Windows versions without one: a manual reset event, and three       *)
(* counters under a critical section of their own (mLock).  The pool's     *)
(* workers sleep on it; ThreadPool_Do wakes them with cond_lock held, and  *)
(* ThreadPool_Exit without.                                                *)
(*                                                                         *)
(* Nothing blocks inside mLock, and everything it protects is accessed     *)
(* inside, so each of its critical sections is one action.                 *)
(***************************************************************************)
EXTENDS Integers, FiniteSets

CONSTANTS
  Threads,         \* threads that use the condition variable
  MaxEntries,      \* bound on the number of times cond_lock is entered
  MaxGeneration,   \* bound on the number of wakeups (far below 2^31)
  None             \* nobody

ASSUME CondVarAssumption ==
  /\ IsFiniteSet(Threads)
  /\ MaxEntries \in Nat /\ MaxGeneration \in Nat
  /\ None \notin Threads

VARIABLES
  mEvent,          \* the event is signalled
  mWaiters, mGeneration, mReleaseCount,
  cond_lock,       \* owner of the critical section that goes with it
  pc, generation,  \* where each thread is, and its local variable
  entries          \* entries to cond_lock so far

counters == <<mWaiters, mGeneration, mReleaseCount>>
vars == <<mEvent, counters, cond_lock, pc, generation, entries>>

\* _InitializeConditionVariable; cond_var is static, so that mReleaseCount is 0
\* in release builds too
Init ==
  /\ mEvent = FALSE
  /\ mWaiters = 0 /\ mGeneration = 0 /\ mReleaseCount = 0
  /\ cond_lock = None
  /\ pc = [t \in Threads |-> "out"]
  /\ generation = [t \in Threads |-> 0]
  /\ entries = 0

Goto(t, l) == pc' = [pc EXCEPT ![t] = l]

-----------------------------------------------------------------------------
\* The client: EnterCriticalSection(cond_lock) ...
EnterCS(t) ==
  /\ pc[t] = "out" /\ entries < MaxEntries
  /\ cond_lock = None
  /\ cond_lock' = t
  /\ entries' = entries + 1
  /\ Goto(t, "in")
  /\ UNCHANGED <<mEvent, counters, generation>>

\* ... and LeaveCriticalSection(cond_lock), if it does not sleep
LeaveCS(t) ==
  /\ pc[t] = "in"
  /\ cond_lock' = None
  /\ Goto(t, "out")
  /\ UNCHANGED <<mEvent, counters, generation, entries>>

\* _SleepConditionVariableCS: the thread reads the generation and counts itself
Enlist(t) ==
  /\ pc[t] = "in"
  /\ generation' = [generation EXCEPT ![t] = mGeneration]
  /\ mWaiters' = mWaiters + 1
  /\ Goto(t, "enlisted")
  /\ UNCHANGED <<mEvent, mGeneration, mReleaseCount, cond_lock, entries>>

\* LeaveCriticalSection(cond_lock)
Unlock(t) ==
  /\ pc[t] = "enlisted"
  /\ cond_lock' = None
  /\ Goto(t, "parked")
  /\ UNCHANGED <<mEvent, counters, generation, entries>>

\* WaitForSingleObject(mEvent) returns
Park(t) ==
  /\ pc[t] = "parked" /\ mEvent
  /\ Goto(t, "check")
  /\ UNCHANGED <<mEvent, counters, cond_lock, generation, entries>>

\* Mutant of Test: any thread may use up a release.
TestIgnoresGeneration(t) ==
  /\ pc[t] = "check"
  /\ Goto(t, IF mReleaseCount > 0 THEN "relock" ELSE "parked")
  /\ UNCHANGED <<mEvent, counters, cond_lock, generation, entries>>

\* done = mReleaseCount > 0 && mGeneration != generation
Test(t) ==
  /\ pc[t] = "check"
  /\ Goto(t, IF mReleaseCount > 0 /\ mGeneration # generation[t]
             THEN "relock" ELSE "parked")
  /\ UNCHANGED <<mEvent, counters, cond_lock, generation, entries>>

\* EnterCriticalSection(cond_lock)
Relock(t) ==
  /\ pc[t] = "relock"
  /\ cond_lock = None
  /\ cond_lock' = t
  /\ Goto(t, "leave")
  /\ UNCHANGED <<mEvent, counters, generation, entries>>

\* Mutant of Release: the first thread out resets the event.
ReleaseResetsFirst(t) ==
  /\ pc[t] = "leave"
  /\ mReleaseCount' = mReleaseCount - 1
  /\ mEvent' = FALSE
  /\ mWaiters' = mWaiters - 1
  /\ Goto(t, "in")
  /\ UNCHANGED <<mGeneration, cond_lock, generation, entries>>

\* The last thread out resets the event.
Release(t) ==
  /\ pc[t] = "leave"
  /\ mReleaseCount' = mReleaseCount - 1
  /\ mEvent' = IF mReleaseCount - 1 = 0 THEN FALSE ELSE mEvent
  /\ mWaiters' = mWaiters - 1
  /\ Goto(t, "in")
  /\ UNCHANGED <<mGeneration, cond_lock, generation, entries>>

\* Mutant of WakeAll: releases of overlapping wakeups add up.
WakeAllAccumulates ==
  /\ mGeneration < MaxGeneration
  /\ IF mWaiters > 0
       THEN /\ mGeneration' = mGeneration + 1
            /\ mReleaseCount' = mReleaseCount + mWaiters
            /\ mEvent' = TRUE
       ELSE UNCHANGED <<mGeneration, mReleaseCount, mEvent>>
  /\ UNCHANGED <<mWaiters, cond_lock, pc, generation, entries>>

\* _WakeAllConditionVariable, by a thread that does not sleep: one that holds
\* cond_lock (ThreadPool_Do), or one without it (ThreadPool_Exit)
WakeAll ==
  /\ mGeneration < MaxGeneration
  /\ IF mWaiters > 0
       THEN /\ mGeneration' = mGeneration + 1
            /\ mReleaseCount' = mWaiters
            /\ mEvent' = TRUE
       ELSE UNCHANGED <<mGeneration, mReleaseCount, mEvent>>
  /\ UNCHANGED <<mWaiters, cond_lock, pc, generation, entries>>

\* What a thread that is in the code goes on to do.
Going(t) ==
  LeaveCS(t) \/ Unlock(t) \/ Park(t) \/ Test(t) \/ Relock(t) \/ Release(t)

Next ==
  \/ \E t \in Threads : EnterCS(t) \/ Enlist(t) \/ Going(t)
  \/ WakeAll

Spec == Init /\ [][Next]_vars

\* The operating system schedules every thread, and no thread keeps cond_lock.
FairSpec == Spec /\ \A t \in Threads : WF_vars(Going(t))
-----------------------------------------------------------------------------
(* Properties.                                                             *)

\* Every variable keeps its type: in particular no counter becomes negative.
TypeOK ==
  /\ mEvent \in BOOLEAN
  /\ mWaiters \in Nat /\ mGeneration \in Nat /\ mReleaseCount \in Nat
  /\ cond_lock \in Threads \cup {None}
  /\ pc \in [Threads -> {"out", "in", "enlisted", "parked", "check", "relock",
                         "leave"}]
  /\ generation \in [Threads -> Nat]
  /\ entries \in Nat

\* Threads inside _SleepConditionVariableCS, and those that a wakeup is for.
Sleepers == {t \in Threads :
               pc[t] \in {"enlisted", "parked", "check", "relock", "leave"}}
Released == {t \in Sleepers : generation[t] # mGeneration}

\* The event is signalled exactly while a thread that was woken has not left:
\* none is left behind when it is reset, and nobody spins on it afterwards.
EventIsRight == mEvent <=> Released # {}

\* The counters count what their names say.
Counts == mWaiters = Cardinality(Sleepers) /\ mReleaseCount = Cardinality(Released)

\* A thread that has passed its test was woken.
Woken ==
  /\ \A t \in Sleepers : generation[t] <= mGeneration
  /\ \A t \in Threads : pc[t] \in {"relock", "leave"} => generation[t] # mGeneration

\* cond_lock has one owner.
Owner ==
  \A t \in Threads : pc[t] \in {"in", "enlisted", "leave"} <=> cond_lock = t

\* The inductive invariant of WinCondVarProofs.
VInv == TypeOK /\ Counts /\ EventIsRight /\ Woken /\ Owner

\* The refinement mapping: a thread waits from the moment it has enlisted, which
\* is when it gives the lock up for good.
Phase(t) == IF pc[t] = "out" THEN "out"
            ELSE IF pc[t] \in {"in", "leave"} THEN "in"
            ELSE IF generation[t] # mGeneration THEN "signalled" ELSE "waiting"

Phases == [t \in Threads |-> Phase(t)]

Holder == IF \E t \in Threads : pc[t] = "enlisted" THEN None ELSE cond_lock

Abstract == INSTANCE CondVar WITH phase <- Phases, holder <- Holder

\* It is a condition variable: no thread returns that was not woken since it
\* began to wait, and none that was woken is forgotten by a later wakeup.
ImplementsCondVar == Abstract!Spec

\* A thread that was woken returns from _SleepConditionVariableCS.
SignalledReturn ==
  \A t \in Threads : Phase(t) = "signalled" ~> Phase(t) = "in"
=============================================================================
