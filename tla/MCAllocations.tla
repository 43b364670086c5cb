---------------------------- MODULE MCAllocations ----------------------------
(* Allocations, for model checking.                                        *)
EXTENDS Allocations

Config(type, blocking, images, multiple, fill, execute, percent, repetitions) ==
  [type |-> type, blocking |-> blocking, images |-> images, unified |-> multiple,
   g_multiple_allocations |-> multiple, g_write_allocations |-> fill,
   g_execute_kernel |-> execute, g_reduction_percentage |-> percent,
   g_repetition_count |-> repetitions]

\* One buffer; several buffers; images of all kinds, some in several objects;
\* no filling and no kernel, twice; no images.
MCConfigs ==
  {Config("buffer", TRUE, TRUE, FALSE, TRUE, TRUE, 100, 1),
   Config("buffer", FALSE, FALSE, TRUE, TRUE, TRUE, 40, 1),
   Config("read", TRUE, TRUE, TRUE, TRUE, TRUE, 60, 1),
   Config("write", FALSE, TRUE, FALSE, TRUE, TRUE, 60, 1),
   Config("read", FALSE, TRUE, TRUE, FALSE, FALSE, 100, 2),
   Config("read", FALSE, FALSE, FALSE, TRUE, TRUE, 100, 1)}
=============================================================================
