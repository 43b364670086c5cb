----------------------------- MODULE Allocations -----------------------------
(***************************************************************************)
(* The memory stress suite (test_conformance/allocations).  doTest         *)
(* allocates as much memory as the device claims to have, as one object or *)
(* as several, fills the objects with random data, has a kernel sum it up  *)
(* and compares the sum with its own.  A device may run out of memory at   *)
(* any point, and then two nested loops back off: allocate_size tries a    *)
(* smaller object, doTest a smaller total.                                 *)
(*                                                                         *)
(* An object is the slot of mems it is in and what has become of it; the   *)
(* checksum counts the data of each slot.  Every OpenCL call may have any  *)
(* outcome.                                                                *)
(***************************************************************************)
EXTENDS Integers, FiniteSets

CONSTANTS
  MAX_NUMBER_TO_ALLOCATE,  \* slots of mems (100 in the code)
  MaxAllocSize,            \* CL_DEVICE_MAX_MEM_ALLOC_SIZE
  GlobalMemSize,           \* CL_DEVICE_GLOBAL_MEM_SIZE
  MaxWidth, MaxHeight,     \* of a two dimensional image
  MaxImageArgs,            \* images a kernel may have
  PixelSize,               \* bytes of a pixel (16 in the code)
  MB,                      \* bytes of a megabyte
  Configs,                 \* command lines, tests and devices: see ConfigType
  Garbage                  \* values the uninitialised final_size may have

\* What the command line, the test and the device tell apart.
ConfigType ==
  [type : {"buffer", "read", "write"}, blocking : BOOLEAN, images : BOOLEAN,
   unified : BOOLEAN, g_multiple_allocations : BOOLEAN,
   g_write_allocations : BOOLEAN, g_execute_kernel : BOOLEAN,
   g_reduction_percentage : 1 .. 100, g_repetition_count : Nat]

\* Objects have sixteen bytes or more, and so does a pixel: both loops go down
\* by a sixteenth.
ASSUME AllocationAssumption ==
  /\ MAX_NUMBER_TO_ALLOCATE \in Nat \ {0} /\ MaxImageArgs \in Nat \ {0}
  /\ MaxAllocSize \in Nat /\ GlobalMemSize \in Nat /\ MaxAllocSize >= 16
  /\ MaxAllocSize <= GlobalMemSize
  /\ MaxWidth \in Nat \ {0} /\ MaxHeight \in Nat \ {0}
  /\ PixelSize \in Nat /\ PixelSize >= 16 /\ MB \in Nat /\ MB >= 16
  /\ Configs \subseteq ConfigType
  /\ Garbage \subseteq Nat

SUCCEEDED      == "SUCCEEDED"
FAILED_TOO_BIG == "FAILED_TOO_BIG"
FAILED_ABORT   == "FAILED_ABORT"
CL_ERROR       == "CL_ERROR"  \* an error code of OpenCL returned as it is

Slots == 0 .. MAX_NUMBER_TO_ALLOCATE - 1

VARIABLES
  config, pc,
  \* doTest
  count, current_test_size, error,
  failure_counts,    \* whether it is not zero
  final_size,
  queue,             \* the harness's, or "other" once that was given up
  mems,              \* "none" not written, "null", "live" or "released"
  number_of_mems_used, checksum,
  \* allocate_size
  amount_allocated, current_allocation, allocation_this_time,
  reduction_amount, max_individual,
  \* history: a slot was overwritten while its object lived, a fill failed in
  \* this attempt, repetitions that passed
  lost, spoilt, passed

outer   == <<config, count, current_test_size, failure_counts, passed>>
inner   == <<amount_allocated, current_allocation, allocation_this_time,
             reduction_amount, max_individual>>
objects == <<mems, number_of_mems_used, checksum, lost, spoilt>>
vars == <<outer, pc, error, final_size, queue, objects, inner>>

IsImage   == config.type # "buffer"
Lesser(a, b) == IF a < b THEN a ELSE b

-----------------------------------------------------------------------------
(* Sizes.                                                                  *)

\* init_cl: half of the memory where it is shared with the host, else 60%.
g_global_mem_size ==
  IF config.unified THEN GlobalMemSize - GlobalMemSize \div 2
  ELSE (GlobalMemSize * 60) \div 100

g_max_individual_allocation_size == Lesser(MaxAllocSize, g_global_mem_size)

\* What doTest asks for, rounded to megabytes.
g_max_size ==
  LET individual == IF IsImage
                    THEN Lesser(g_max_individual_allocation_size,
                                MaxHeight * MaxWidth * PixelSize)
                    ELSE g_max_individual_allocation_size
      base    == IF config.g_multiple_allocations THEN g_global_mem_size ELSE individual
      reduced == (base * config.g_reduction_percentage) \div 100
  IN  (reduced \div MB) * MB

SquareRoot(n) == CHOOSE r \in 0 .. n : r * r <= n /\ n < (r + 1) * (r + 1)

AtLeastOne(n) == IF n = 0 THEN 1 ELSE n

\* find_good_image_size: an image of about size bytes, close to a square.
TooManyPixels(size) == size \div PixelSize > MaxWidth * MaxHeight
FoundWidth(size)    == AtLeastOne(Lesser(SquareRoot(size \div PixelSize), MaxWidth))
FoundHeight(size)   ==
  AtLeastOne(Lesser((size \div PixelSize) \div FoundWidth(size), MaxHeight))
FoundSize(size) ==
  IF TooManyPixels(size) THEN MaxWidth * MaxHeight * PixelSize
  ELSE FoundWidth(size) * FoundHeight(size) * PixelSize

\* What an object is really allocated with.
ActualSize(size) == IF IsImage THEN FoundSize(size) ELSE size

\* Objects an attempt may use: one, or as many as there are slots or as a
\* kernel takes.
max_to_allocate ==
  LET n == IF config.g_multiple_allocations THEN MAX_NUMBER_TO_ALLOCATE ELSE 1
  IN  IF IsImage THEN Lesser(n, MaxImageArgs) ELSE n

-----------------------------------------------------------------------------
\* check_allocation_error: no error, an error that means the device is out of
\* memory, any other.  An invalid command queue is released and another one
\* created: out of memory if that succeeds, an abort if not.
check_allocation_error ==
  ({SUCCEEDED, FAILED_TOO_BIG, FAILED_ABORT} \X {queue})
    \cup ({FAILED_TOO_BIG, FAILED_ABORT} \X {"other"})

Init ==
  /\ config \in Configs
  /\ pc = "start"
  /\ count = 0 /\ current_test_size = 0 /\ error = SUCCEEDED
  /\ failure_counts = FALSE
  /\ final_size \in Garbage
  /\ queue = "harness"
  /\ mems = [s \in Slots |-> "none"]
  /\ number_of_mems_used = 0
  /\ checksum = [s \in Slots |-> 0]
  /\ amount_allocated = 0 /\ current_allocation = 0 /\ allocation_this_time = 0
  /\ reduction_amount = 0 /\ max_individual = 0
  /\ lost = FALSE /\ spoilt = FALSE
  /\ passed = {}

\* doTest begins: image tests are left out on a device without images, and
\* fail if the device cannot be asked for the sizes of images.
StartTest ==
  /\ pc = "start"
  /\ \E known \in {TRUE} \cup {b \in {FALSE} : IsImage} :
       IF IsImage /\ ~config.images
       THEN pc' = "skipped" /\ UNCHANGED failure_counts
       ELSE IF ~known THEN pc' = "returned" /\ failure_counts' = TRUE
       ELSE pc' = "next" /\ UNCHANGED failure_counts
  /\ UNCHANGED <<config, count, current_test_size, passed, error, final_size,
                 queue, objects, inner>>

\* The next repetition, or the end.
NextRepetition ==
  /\ pc = "next"
  /\ IF count < config.g_repetition_count
     THEN /\ current_test_size' = g_max_size
          /\ error' = FAILED_TOO_BIG
          /\ pc' = "repetition"
     ELSE pc' = "returned" /\ UNCHANGED <<current_test_size, error>>
  /\ UNCHANGED <<config, count, failure_counts, passed, final_size, queue, objects, inner>>

TryAgain == error = FAILED_TOO_BIG /\ current_test_size > g_max_size \div 8

\* The checksum an attempt begins with.
ChecksumKept  == checksum
ChecksumReset == [s \in Slots |-> 0]

\* allocate_size up to its loop.  The device may refuse to tell the sizes of
\* images (FAILED_ABORT) or the number of arguments (the error itself).
BeginAttempt ==
  /\ pc = "repetition" /\ TryAgain
  /\ checksum' = ChecksumReset
  /\ number_of_mems_used' = 0
  /\ spoilt' = FALSE
  /\ amount_allocated' = 0 /\ current_allocation' = 0
  /\ max_individual' = IF IsImage THEN Lesser(MaxAllocSize, FoundSize(current_test_size))
                       ELSE MaxAllocSize
  /\ reduction_amount' = max_individual' \div 16
  /\ \E r \in {SUCCEEDED} \cup {e \in {FAILED_ABORT, CL_ERROR} : IsImage} :
       LET refused == current_test_size > GlobalMemSize
       IN  /\ error' = IF refused THEN FAILED_ABORT ELSE r
           /\ pc' = IF refused \/ r # SUCCEEDED THEN "settle" ELSE "allocate"
  /\ UNCHANGED <<outer, final_size, queue, mems, lost, allocation_this_time>>

\* The outer loop of allocate_size: the size of the next object, or success.
NextObject ==
  /\ pc = "allocate"
  /\ IF amount_allocated # current_test_size /\ current_allocation < max_to_allocate
     THEN /\ allocation_this_time' =
               Lesser(current_test_size - amount_allocated, max_individual)
          /\ pc' = "create" /\ UNCHANGED error
     ELSE /\ pc' = "execute" /\ error' = SUCCEEDED
          /\ UNCHANGED allocation_this_time
  /\ UNCHANGED <<outer, final_size, queue, objects, amount_allocated,
                 current_allocation, reduction_amount, max_individual>>

\* The objects Clean up is told of once the one in slot c exists.
MemsBefore(c)  == c
MemsUpTo(c)    == c + 1

\* An object is created: its slot is written, with NULL where that failed, and
\* not at all where no image size was found.  Its size is asked for, 0 if the
\* answer fails, and has to be right to a megabyte.
CreateObject(checked, found, sized) ==
  LET c       == current_allocation
      tooMany == IsImage /\ TooManyPixels(allocation_this_time)
      written == found /\ ~tooMany
      result  == IF ~found THEN FAILED_ABORT
                 ELSE IF tooMany THEN FAILED_TOO_BIG ELSE checked[1]
      actual  == IF sized THEN ActualSize(allocation_this_time) ELSE 0
      right   == /\ allocation_this_time - actual <= MB
                 /\ actual - allocation_this_time <= MB
  IN  /\ pc = "create"
      /\ found \/ IsImage
      /\ queue' = IF written THEN checked[2] ELSE queue
      /\ mems' = IF written
                 THEN [mems EXCEPT ![c] = IF result = SUCCEEDED THEN "live" ELSE "null"]
                 ELSE mems
      /\ lost' = (lost \/ (written /\ mems[c] = "live"))
      /\ number_of_mems_used' = IF result = SUCCEEDED THEN MemsUpTo(c)
                                ELSE number_of_mems_used
      /\ error' = IF result = FAILED_ABORT \/ (result = SUCCEEDED /\ ~right)
                  THEN FAILED_ABORT ELSE error
      /\ pc' = IF result = FAILED_TOO_BIG THEN "reduce"
               ELSE IF result = FAILED_ABORT \/ ~right THEN "settle"
               ELSE IF config.g_write_allocations THEN "fill" ELSE "accept"
      /\ UNCHANGED <<outer, final_size, checksum, spoilt, inner>>

\* The data of a fill are counted only if all of it was written.
SumOfFill(r) ==
  IF r = SUCCEEDED THEN [checksum EXCEPT ![current_allocation] = @ + 1] ELSE checksum

\* fill_mem_with_data.  A write that fails releases the object, and so does a
\* non-blocking one whose event fails; a call that fails before the first
\* write does not.  After a blocking write to an image clFinish is checked and
\* its error returned as it is: the program exits.
FillObject(checked, began) ==
  LET r        == checked[1]
      releases == began /\ r \in {FAILED_TOO_BIG, FAILED_ABORT}
  IN  /\ pc = "fill"
      /\ r = CL_ERROR => IsImage /\ config.blocking
      /\ ~began => checked = <<FAILED_ABORT, queue>>
      /\ queue' = checked[2]
      /\ checksum' = SumOfFill(r)
      /\ mems' = IF releases THEN [mems EXCEPT ![current_allocation] = "released"]
                 ELSE mems
      /\ spoilt' = (spoilt \/ releases)
      /\ error' = IF r = FAILED_ABORT THEN FAILED_ABORT ELSE error
      /\ pc' = CASE r = SUCCEEDED      -> "accept"
                 [] r = FAILED_TOO_BIG -> "reduce"
                 [] r = FAILED_ABORT   -> "settle"
                 [] r = CL_ERROR       -> "exit"
      /\ UNCHANGED <<outer, final_size, number_of_mems_used, lost, inner>>

\* A smaller object, a smaller reduction, or no object at all.
MayHalveToZero == reduction_amount > 0
MayHalve       == reduction_amount > 1

Reduce ==
  /\ pc = "reduce"
  /\ IF allocation_this_time > reduction_amount
     THEN /\ allocation_this_time' = allocation_this_time - reduction_amount
          /\ pc' = "create" /\ UNCHANGED <<reduction_amount, error>>
     ELSE IF MayHalve
     THEN /\ reduction_amount' = reduction_amount \div 2
          /\ pc' = "create" /\ UNCHANGED <<allocation_this_time, error>>
     ELSE /\ allocation_this_time' = 0
          /\ error' = FAILED_TOO_BIG
          /\ pc' = "settle" /\ UNCHANGED reduction_amount
  /\ UNCHANGED <<outer, final_size, queue, objects, amount_allocated,
                 current_allocation, max_individual>>

AcceptObject ==
  /\ pc = "accept"
  /\ amount_allocated' = amount_allocated + allocation_this_time
  /\ final_size' = amount_allocated'
  /\ current_allocation' = current_allocation + 1
  /\ pc' = "allocate"
  /\ UNCHANGED <<outer, error, queue, objects, allocation_this_time, reduction_amount,
                 max_individual>>

\* What the kernel finds: the data of the objects it is given, once each.
ChecksumAgrees ==
  \A s \in Slots : checksum[s] = IF s < number_of_mems_used THEN 1 ELSE 0

\* execute_kernel: the checksum, or the pattern written to write-only images,
\* is verified where the objects were filled.
ExecuteKernel(checked) ==
  /\ pc = "execute"
  /\ config.g_write_allocations /\ config.type # "write" /\ ~ChecksumAgrees
       => checked[1] # SUCCEEDED
  /\ IF config.g_execute_kernel THEN error' = checked[1] /\ queue' = checked[2]
     ELSE UNCHANGED <<error, queue>>
  /\ pc' = "settle"
  /\ UNCHANGED <<outer, final_size, objects, inner>>

\* An eighth of what was asked for is the least that counts (the comment in the code
\* says: more than an eighth).
LessThanASixteenth(size) == size < g_max_size \div 16
TooLittle(size)          == size < g_max_size \div 8

\* After the attempt: too small an allocation is a failure, the objects are
\* released, and after FAILED_TOO_BIG a smaller size is tried.
Settle ==
  /\ pc = "settle"
  /\ failure_counts' =
       (failure_counts \/ TooLittle(final_size) \/ error = FAILED_ABORT)
  /\ mems' = [s \in Slots |->
                IF s < number_of_mems_used /\ mems[s] = "live" THEN "released" ELSE mems[s]]
  /\ current_test_size' = IF error = FAILED_TOO_BIG
                          THEN current_test_size - g_max_size \div 16
                          ELSE current_test_size
  /\ passed' = IF error = SUCCEEDED /\ ~(amount_allocated < g_max_size \div 8)
               THEN passed \cup {count} ELSE passed
  /\ pc' = "repetition"
  /\ UNCHANGED <<config, count, error, final_size, queue, number_of_mems_used,
                 checksum, lost, spoilt, inner>>

\* The repetition is over and its result counted.
EndRepetition ==
  /\ pc = "repetition" /\ ~TryAgain
  /\ failure_counts' =
       (failure_counts \/ ~(error = SUCCEEDED /\ current_test_size > g_max_size \div 8))
  /\ count' = count + 1
  /\ pc' = "next"
  /\ UNCHANGED <<config, current_test_size, passed, error, final_size, queue, objects, inner>>

Ended == pc \in {"returned", "skipped", "exit"} /\ UNCHANGED vars

Step ==
  \/ StartTest \/ NextRepetition \/ BeginAttempt \/ NextObject
  \/ \E checked \in check_allocation_error, found, sized \in BOOLEAN :
       CreateObject(checked, found, sized)
  \/ \E checked \in check_allocation_error \cup {<<CL_ERROR, queue>>}, began \in BOOLEAN :
       FillObject(checked, began)
  \/ Reduce \/ AcceptObject
  \/ \E checked \in check_allocation_error \cup {<<CL_ERROR, queue>>} : ExecuteKernel(checked)
  \/ Settle \/ EndRepetition

Next == Step \/ Ended

Spec == Init /\ [][Next]_vars

\* The test is one thread, and no call of OpenCL hangs.
FairSpec == Spec /\ WF_vars(Step)

-----------------------------------------------------------------------------
\* No memory object survives the attempt that created it, however it ended:
\* none is left when the next attempt starts and no slot is overwritten while
\* its object lives.  Clean up releases an object that is gone already only if
\* a write to it failed in the same attempt.
ObjectsAreSettled ==
  /\ ~lost
  /\ pc \in {"next", "repetition", "returned", "skipped"} =>
       \A s \in Slots : mems[s] # "live"
  /\ pc = "settle" /\ (\E s \in Slots : s < number_of_mems_used /\ mems[s] = "released")
       => spoilt

\* The kernel is given live objects, filled all of them, and is compared with
\* the sum of exactly their data, after whatever number of attempts and of
\* failed fills.
KernelSeesTheSum ==
  pc = "execute" =>
    /\ number_of_mems_used = current_allocation
    /\ \A s \in Slots : s < number_of_mems_used => mems[s] = "live"
    /\ config.g_write_allocations => ChecksumAgrees

\* A test that counts no failure has, in every repetition, allocated an eighth or
\* more of what it was after and, where a kernel is to be run (g_execute_kernel), run
\* it on that with the right sum.  Exactly an eighth is enough for the code, whose
\* comment and message call it a failure not to allocate "more than 1/8th".
VerdictIsEarned ==
  pc = "returned" /\ ~failure_counts => passed = 0 .. config.g_repetition_count - 1

\* Both loops end: the test comes to its end whatever the device refuses.
DoTestReturns == <>(pc \in {"returned", "skipped", "exit"})
=============================================================================
