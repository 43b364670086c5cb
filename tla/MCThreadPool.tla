---------------------------- MODULE MCThreadPool ----------------------------
(* ThreadPool, with its refinement of JobService, for model checking.      *)
EXTENDS ThreadPoolService
=============================================================================
