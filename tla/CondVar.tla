------------------------------ MODULE CondVar ------------------------------
(***************************************************************************)
(* What the thread pool needs of a condition variable and its lock, and    *)
(* what Windows' own CONDITION_VARIABLE offers: waiting releases the lock  *)
(* in the same step, waking releases exactly the threads that wait, and a  *)
(* thread returns from its wait with the lock and only if it was woken.    *)
(***************************************************************************)
CONSTANTS
  Threads,
  None       \* nobody

VARIABLES
  holder,    \* owner of the lock
  phase      \* [Threads -> {"out", "in", "waiting", "signalled"}]

vars == <<holder, phase>>

Init == holder = None /\ phase = [t \in Threads |-> "out"]

\* The lock is taken, by a thread that was outside or one that was woken.
Enter(t) ==
  /\ phase[t] \in {"out", "signalled"} /\ holder = None
  /\ holder' = t /\ phase' = [phase EXCEPT ![t] = "in"]

\* The lock is given back, and the thread goes away or waits.
Leave(t, p) ==
  /\ phase[t] = "in" /\ p \in {"out", "waiting"}
  /\ holder' = None /\ phase' = [phase EXCEPT ![t] = p]

\* Every thread that waits is woken, with the lock or without.
WakeAll ==
  /\ phase' = [t \in Threads |->
                 IF phase[t] = "waiting" THEN "signalled" ELSE phase[t]]
  /\ UNCHANGED holder

Next ==
  \/ \E t \in Threads : Enter(t) \/ \E p \in {"out", "waiting"} : Leave(t, p)
  \/ WakeAll

Spec == Init /\ [][Next]_vars
=============================================================================
