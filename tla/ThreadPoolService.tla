-------------------------- MODULE ThreadPoolService --------------------------
(***************************************************************************)
(* The refinement mapping that shows ThreadPool to implement JobService.   *)
(***************************************************************************)
EXTENDS ThreadPoolInv

\* Calls of GetThreadCount are no business of the job service.
ServicePhase(c) == IF cpc[c] = "idle" \/ op[c] # "do" THEN "idle"
                   ELSE IF cpc[c] = "returned" THEN "returned" ELSE "working"

\* The jobs of c that are inside the user's function, in workers or serially.
ServiceRunning(c) ==
  {item[w] - 1 : w \in {v \in Workers : wpc[v] = "running" /\ user[v] = c}}
    \cup (IF cpc[c] = "s_run" THEN {next[c]} ELSE {})

ServiceRet(c) == IF ServicePhase(c) = "returned" THEN ret[c] ELSE CL_SUCCESS

phaseBar   == [c \in Callers |-> ServicePhase(c)]
runningBar == [c \in Callers |-> ServiceRunning(c)]
retBar     == [c \in Callers |-> ServiceRet(c)]

Service == INSTANCE JobService WITH
  phase <- phaseBar, running <- runningBar, ret <- retBar

\* The thread pool does what ThreadPool.h says of ThreadPool_Do: every step of
\* the pool is a step of the job service, or none of its business.
ImplementsJobService == Service!Spec
=============================================================================
