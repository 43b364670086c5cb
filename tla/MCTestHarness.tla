---------------------------- MODULE MCTestHarness ----------------------------
(***************************************************************************)
(* TestHarness for model checking: four tests, of which one needs the     *)
(* online compiler and one is missing, and command lines with and without  *)
(* overlapping arguments.                                                  *)
(***************************************************************************)
EXTENDS TestHarnessInv

Name(t) == [kind |-> "name", matches |-> {t}]
Wildcard(T) == [kind |-> "wildcard", matches |-> T]
All == [kind |-> "all", matches |-> {}]
NoMatch == [kind |-> "name", matches |-> {}]

MCArgLists == {<<>>, <<Name(1), All>>, <<Name(0), Name(1)>>,
               <<Wildcard({0, 1})>>, <<Name(0), Wildcard({0, 1})>>,
               <<Name(0), Name(3)>>, <<Name(1), NoMatch>>}
=============================================================================
