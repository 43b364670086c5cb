-------------------------- MODULE MCConversionTest --------------------------
(* ConversionTest, for model checking.                                     *)
EXTENDS ConversionInv

Kind(min, out, same, denormals, nans, huge, lastCase, step) ==
  [min |-> min, out |-> out, same |-> same, denormals |-> denormals, nans |-> nans,
   huge |-> huge, lastCase |-> lastCase, step |-> step]

\* Two blocks, of all vector sizes, from floating point to integers; flushing to
\* zero, with a step that skips inputs; float to double; doubles to doubles, and a
\* block smaller than BlockCount.
MCKinds == {Kind(0, "int", FALSE, {}, {2}, {}, 4, 2),
            Kind(1, "float", FALSE, {1}, {0}, {}, 4, 4),
            Kind(1, "double", FALSE, {}, {0}, {1}, 2, 2),
            Kind(1, "double", TRUE, {}, {}, {0}, 1, 2)}

\* An infinity that is made a double.
DoubleKinds == {Kind(1, "double", FALSE, {}, {}, {0}, 1, 2)}

MCOptions == {[gSkipTesting |-> TRUE, gTimeResults |-> FALSE],
              [gSkipTesting |-> FALSE, gTimeResults |-> TRUE]}
=============================================================================
