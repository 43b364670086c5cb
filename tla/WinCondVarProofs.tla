-------------------------- MODULE WinCondVarProofs --------------------------
(***************************************************************************)
(* The Windows condition variable keeps its invariant VInv and implements  *)
(* CondVar, for any number of threads, entries and wakeups.                *)
(***************************************************************************)
EXTENDS WinCondVar, FiniteSetTheorems, TLAPS

\* The sets that the counters count are finite.
LEMMA Finite ==
  /\ IsFiniteSet(Sleepers) /\ Cardinality(Sleepers) \in Nat
  /\ IsFiniteSet(Released) /\ Cardinality(Released) \in Nat
  /\ Released \subseteq Sleepers
<1>1. Sleepers \subseteq Threads /\ Released \subseteq Sleepers
  BY DEF Sleepers, Released
<1> QED
  BY <1>1, CondVarAssumption, FS_Subset, FS_CardinalityType

LEMMA VInit == Init => VInv
<1> SUFFICES ASSUME Init PROVE VInv
  OBVIOUS
<1> USE DEF Init
<1>1. TypeOK
  BY CondVarAssumption DEF TypeOK
<1>2. Sleepers = {} /\ Released = {}
  BY DEF Sleepers, Released
<1>3. Counts /\ EventIsRight
  BY <1>2, FS_EmptySet DEF Counts, EventIsRight
<1>4. Woken /\ Owner
  BY <1>2, CondVarAssumption DEF Woken, Owner
<1> QED
  BY <1>1, <1>3, <1>4 DEF VInv

-----------------------------------------------------------------------------
\* A step that moves one thread and touches neither counters nor event keeps
\* the sets of sleepers, if the thread stays in the set or out of it.
LEMMA Moves ==
  ASSUME VInv, NEW t \in Threads, NEW l, pc' = [pc EXCEPT ![t] = l],
         UNCHANGED <<mEvent, counters, generation>>, t \in Sleepers <=> t \in Sleepers'
  PROVE  Sleepers' = Sleepers /\ Released' = Released /\ Counts' /\ EventIsRight'
<1>1. Sleepers' = Sleepers
  BY DEF VInv, TypeOK, Sleepers
<1>2. Released' = Released
  BY <1>1 DEF Released, counters
<1> QED
  BY <1>1, <1>2 DEF VInv, Counts, EventIsRight, counters

LEMMA EnlistKeeps ==
  ASSUME VInv, NEW t \in Threads, Enlist(t)
  PROVE  VInv'
<1> USE DEF VInv, TypeOK, Enlist, Goto
<1>1. t \notin Sleepers /\ Sleepers' = Sleepers \cup {t}
  BY DEF Sleepers
<1>2. Released' = Released
  BY <1>1 DEF Released
<1>3. Counts' /\ EventIsRight'
  BY <1>1, <1>2, Finite, FS_AddElement DEF Counts, EventIsRight
<1>4. TypeOK'
  OBVIOUS
<1>5. Woken' /\ Owner'
  BY <1>1 DEF Woken, Owner
<1> QED
  BY <1>3, <1>4, <1>5

LEMMA ReleaseKeeps ==
  ASSUME VInv, NEW t \in Threads, Release(t)
  PROVE  VInv'
<1> USE DEF VInv, TypeOK, Release, Goto
<1>1. t \in Sleepers /\ Sleepers' = Sleepers \ {t}
  BY DEF Sleepers
<1>2. t \in Released /\ Released' = Released \ {t}
  BY <1>1 DEF Released, Woken
<1>3. /\ Cardinality(Sleepers') = Cardinality(Sleepers) - 1
      /\ Cardinality(Released') = Cardinality(Released) - 1
  BY <1>1, <1>2, Finite, FS_RemoveElement
<1>4. Counts'
  BY <1>3 DEF Counts
<1>5. Cardinality(Released') = 0 <=> Released' = {}
  <2>1. IsFiniteSet(Released')
    BY <1>2, Finite, FS_RemoveElement
  <2> QED
    BY <2>1, FS_EmptySet
<1>6. EventIsRight'
  BY <1>2, <1>3, <1>5, Finite DEF Counts, EventIsRight
<1>7. Cardinality(Sleepers') \in Nat /\ Cardinality(Released') \in Nat
  BY <1>1, <1>2, Finite, FS_RemoveElement, FS_CardinalityType
<1>8. TypeOK'
  BY <1>3, <1>7 DEF Counts
<1>9. Woken' /\ Owner'
  BY <1>1 DEF Woken, Owner
<1> QED
  BY <1>4, <1>6, <1>8, <1>9

LEMMA WakeAllKeeps ==
  ASSUME VInv, WakeAll
  PROVE  VInv'
<1> USE DEF VInv, TypeOK, WakeAll
<1>1. Sleepers' = Sleepers
  BY DEF Sleepers
<1>2. CASE mWaiters > 0
  <2>1. Released' = Sleepers
    BY <1>1, <1>2 DEF Released, Woken, Sleepers
  <2>2. Sleepers # {}
    BY <1>2, FS_EmptySet DEF Counts
  <2>3. Counts' /\ EventIsRight'
    BY <1>1, <1>2, <2>1, <2>2 DEF Counts, EventIsRight
  <2>4. TypeOK'
    BY <1>2
  <2>5. Woken' /\ Owner'
    BY <1>1, <1>2 DEF Woken, Owner, Sleepers
  <2> QED
    BY <2>3, <2>4, <2>5
<1>3. CASE ~(mWaiters > 0)
  <2>1. Released' = Released
    BY <1>1, <1>3 DEF Released
  <2> QED
    BY <1>1, <1>3, <2>1 DEF Counts, EventIsRight, Woken, Owner
<1> QED
  BY <1>2, <1>3

LEMMA ThreadKeeps ==
  ASSUME VInv, NEW t \in Threads,
         EnterCS(t) \/ LeaveCS(t) \/ Unlock(t) \/ Park(t) \/ Test(t) \/ Relock(t)
  PROVE  VInv'
<1> USE CondVarAssumption DEF VInv, TypeOK, Goto, counters
<1>1. CASE EnterCS(t)
  <2>1. Sleepers' = Sleepers /\ Counts' /\ EventIsRight'
    BY <1>1, Moves DEF EnterCS, Sleepers
  <2> QED
    BY <1>1, <2>1 DEF EnterCS, Woken, Owner
<1>2. CASE LeaveCS(t)
  <2>1. Sleepers' = Sleepers /\ Counts' /\ EventIsRight'
    BY <1>2, Moves DEF LeaveCS, Sleepers
  <2> QED
    BY <1>2, <2>1 DEF LeaveCS, Woken, Owner
<1>3. CASE Unlock(t)
  <2>1. Sleepers' = Sleepers /\ Counts' /\ EventIsRight'
    BY <1>3, Moves DEF Unlock, Sleepers
  <2> QED
    BY <1>3, <2>1 DEF Unlock, Woken, Owner
<1>4. CASE Park(t)
  <2>1. Sleepers' = Sleepers /\ Counts' /\ EventIsRight'
    BY <1>4, Moves DEF Park, Sleepers
  <2> QED
    BY <1>4, <2>1 DEF Park, Woken, Owner
<1>5. CASE Test(t)
  <2>1. Sleepers' = Sleepers /\ Counts' /\ EventIsRight'
    BY <1>5, Moves DEF Test, Sleepers
  <2> QED
    BY <1>5, <2>1 DEF Test, Woken, Owner
<1>6. CASE Relock(t)
  <2>1. Sleepers' = Sleepers /\ Counts' /\ EventIsRight'
    BY <1>6, Moves DEF Relock, Sleepers
  <2> QED
    BY <1>6, <2>1 DEF Relock, Woken, Owner
<1> QED
  BY <1>1, <1>2, <1>3, <1>4, <1>5, <1>6

LEMMA VNext == VInv /\ [Next]_vars => VInv'
<1> SUFFICES ASSUME VInv, [Next]_vars PROVE VInv'
  OBVIOUS
<1>1. CASE UNCHANGED vars
  BY <1>1 DEF vars, counters, VInv, TypeOK, Counts, EventIsRight, Woken, Owner,
              Sleepers, Released
<1>2. CASE Next
  BY <1>2, ThreadKeeps, EnlistKeeps, ReleaseKeeps, WakeAllKeeps DEF Next, Going
<1> QED
  BY <1>1, <1>2

\* The counters of the condition variable are exact in every reachable state:
\* the invariant its correctness rests on.
THEOREM VInvariant == Spec => []VInv
  BY VInit, VNext, PTL DEF Spec

\* No counter becomes negative, however wakeups overlap.
THEOREM TypeCorrect == Spec => []TypeOK
<1>1. VInv => TypeOK
  BY DEF VInv
<1> QED
  BY <1>1, VInvariant, PTL

\* The event is reset by the last thread of a wakeup to leave, and not before.
THEOREM EventIsAlwaysRight == Spec => []EventIsRight
<1>1. VInv => EventIsRight
  BY DEF VInv
<1> QED
  BY <1>1, VInvariant, PTL

-----------------------------------------------------------------------------
(* The refinement: every step is one of CondVar, or invisible to it.       *)

\* Steps that take the lock or give it up.
LEMMA VisibleSteps ==
  ASSUME VInv, VInv', NEW t \in Threads,
         EnterCS(t) \/ LeaveCS(t) \/ Enlist(t) \/ Relock(t)
  PROVE  Abstract!Next
<1> USE CondVarAssumption DEF VInv, TypeOK, Goto, counters
<1>1. CASE EnterCS(t)
  <2>1. Holder = None /\ Holder' = t
    BY <1>1 DEF EnterCS, Owner, Holder
  <2>2. Phases[t] = "out" /\ Phases' = [Phases EXCEPT ![t] = "in"]
    BY <1>1 DEF EnterCS, Phases, Phase
  <2> QED
    BY <2>1, <2>2 DEF Abstract!Next, Abstract!Enter
<1>2. CASE LeaveCS(t)
  <2>1. Holder' = None
    BY <1>2 DEF LeaveCS, Owner, Holder
  <2>2. Phases[t] = "in" /\ Phases' = [Phases EXCEPT ![t] = "out"]
    BY <1>2 DEF LeaveCS, Phases, Phase
  <2> QED
    BY <2>1, <2>2 DEF Abstract!Next, Abstract!Leave
<1>3. CASE Enlist(t)
  <2>1. Holder' = None
    BY <1>3 DEF Enlist, Owner, Holder
  <2>2. Phases[t] = "in" /\ Phases' = [Phases EXCEPT ![t] = "waiting"]
    BY <1>3 DEF Enlist, Phases, Phase
  <2> QED
    BY <2>1, <2>2 DEF Abstract!Next, Abstract!Leave
<1>4. CASE Relock(t)
  <2>1. Holder = None /\ Holder' = t
    BY <1>4 DEF Relock, Owner, Holder
  <2>2. Phases[t] = "signalled" /\ Phases' = [Phases EXCEPT ![t] = "in"]
    BY <1>4 DEF Relock, Phases, Phase, Woken
  <2> QED
    BY <2>1, <2>2 DEF Abstract!Next, Abstract!Enter
<1> QED
  BY <1>1, <1>2, <1>3, <1>4

\* Steps inside _SleepConditionVariableCS that nobody else can tell.
LEMMA InvisibleSteps ==
  ASSUME VInv, VInv', NEW t \in Threads,
         Unlock(t) \/ Park(t) \/ Test(t) \/ Release(t)
  PROVE  UNCHANGED <<Phases, Holder>>
<1> USE CondVarAssumption DEF VInv, TypeOK, Goto, counters
<1>1. CASE Unlock(t)
  BY <1>1 DEF Unlock, Owner, Phases, Phase, Holder
<1>2. CASE Park(t)
  BY <1>2 DEF Park, Phases, Phase, Holder
<1>3. CASE Test(t)
  BY <1>3 DEF Test, Phases, Phase, Holder
<1>4. CASE Release(t)
  BY <1>4 DEF Release, Phases, Phase, Holder
<1> QED
  BY <1>1, <1>2, <1>3, <1>4

\* A wakeup reaches every thread that waits, and changes nothing for the others.
LEMMA WakeStep ==
  ASSUME VInv, WakeAll
  PROVE  Abstract!Next
<1> USE DEF VInv, TypeOK, WakeAll
<1>1. Holder' = Holder
  BY DEF Holder
<1>2. ASSUME NEW t \in Threads
      PROVE  Phase(t)' = IF Phase(t) = "waiting" THEN "signalled" ELSE Phase(t)
  <2>1. CASE mWaiters > 0
    BY <2>1 DEF Phase, Woken, Sleepers
  <2>2. CASE ~(mWaiters > 0)
    <3>1. Sleepers = {}
      BY <2>2, Finite, FS_EmptySet DEF Counts
    <3> QED
      BY <2>2, <3>1 DEF Phase, Sleepers
  <2> QED
    BY <2>1, <2>2
<1>3. Abstract!WakeAll
  BY <1>1, <1>2 DEF Phases, Abstract!WakeAll
<1> QED
  BY <1>3 DEF Abstract!Next

\* The condition variable built from an event and a generation counter is one:
\* a wakeup releases exactly the threads that wait, and waiting releases the
\* lock in the same step as far as any thread that uses the lock can tell.
THEOREM ItIsACondVar == Spec => ImplementsCondVar
<1>1. Init => Abstract!Init
  BY CondVarAssumption DEF Init, Abstract!Init, Phases, Phase, Holder
<1>2. VInv /\ VInv' /\ [Next]_vars => [Abstract!Next]_<<Holder, Phases>>
  <2> SUFFICES ASSUME VInv, VInv', [Next]_vars
               PROVE  Abstract!Next \/ UNCHANGED <<Holder, Phases>>
    OBVIOUS
  <2>1. CASE UNCHANGED vars
    BY <2>1 DEF vars, counters, Holder, Phases, Phase
  <2>2. CASE Next
    BY <2>2, VisibleSteps, InvisibleSteps, WakeStep DEF Next, Going
  <2> QED
    BY <2>1, <2>2
<1> QED
  BY <1>1, <1>2, VInvariant, PTL
  DEF Spec, ImplementsCondVar, Abstract!Spec, Abstract!vars
=============================================================================
