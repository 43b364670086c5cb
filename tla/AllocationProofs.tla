-------------------------- MODULE AllocationProofs --------------------------
(***************************************************************************)
(* ObjectsAreSettled, KernelSeesTheSum and VerdictIsEarned of Allocations, *)
(* for any device, command line and number of slots.                       *)
(***************************************************************************)
EXTENDS Allocations, TLAPS

Idle == pc \in {"start", "next", "repetition", "returned", "skipped"}
Busy == pc \in {"allocate", "create", "fill", "reduce", "accept", "execute"}

TypeOK ==
  /\ config \in Configs
  /\ Idle \/ Busy \/ pc \in {"settle", "exit"}
  /\ mems \in [Slots -> {"none", "null", "live", "released"}]
  /\ checksum \in [Slots -> Nat]
  /\ number_of_mems_used \in Nat /\ current_allocation \in Nat
  /\ lost = FALSE /\ spoilt \in BOOLEAN

\* The slots below current_allocation hold filled objects, the data of which is
\* in the checksum, and the slots above hold none.  The slot itself has an
\* object only while it is being filled or accepted.
Owned == IF pc \in {"fill", "accept"} THEN current_allocation + 1 ELSE current_allocation
Summed == IF pc = "accept" THEN current_allocation + 1 ELSE current_allocation

SlotsInOrder ==
  Busy =>
    /\ \A s \in Slots : mems[s] = "live" <=> s < Owned
    /\ config.g_write_allocations =>
         \A s \in Slots : checksum[s] = IF s < Summed THEN 1 ELSE 0

\* Clean up is told of the objects there are.  It is told of one more only after
\* a fill that failed.
MemsInOrder ==
  /\ pc \in {"create", "fill", "reduce", "accept"} => current_allocation \in Slots
  /\ pc \in {"allocate", "execute", "fill", "accept"} => number_of_mems_used = Owned
  /\ pc \in {"create", "reduce"} =>
       \/ number_of_mems_used = current_allocation
       \/ number_of_mems_used = current_allocation + 1 /\ spoilt

\* What Clean up finds, and what it leaves.
CleanUpInOrder ==
  /\ Idle => \A s \in Slots : mems[s] # "live"
  /\ pc = "settle" =>
       /\ \A s \in Slots : mems[s] = "live" => s < number_of_mems_used
       /\ (\E s \in Slots : s < number_of_mems_used /\ mems[s] = "released") => spoilt

AInv == TypeOK /\ SlotsInOrder /\ MemsInOrder /\ CleanUpInOrder

-----------------------------------------------------------------------------
LEMMA SlotBound == \A n \in Nat : n < max_to_allocate => n \in Slots
<1>1. PICK m : m = max_to_allocate
  OBVIOUS
<1>2. m \in Nat /\ m <= MAX_NUMBER_TO_ALLOCATE
  <2>1. CASE config.g_multiple_allocations
    BY <1>1, <2>1, AllocationAssumption DEF max_to_allocate, Lesser
  <2>2. CASE ~config.g_multiple_allocations
    BY <1>1, <2>2, AllocationAssumption DEF max_to_allocate, Lesser
  <2> QED
    BY <2>1, <2>2
<1> QED
  BY <1>1, <1>2, AllocationAssumption DEF Slots

LEMMA AInit == Init => AInv
<1> SUFFICES ASSUME Init PROVE AInv
  OBVIOUS
<1>1. TypeOK
  BY DEF Init, TypeOK, Idle
<1>2. SlotsInOrder /\ MemsInOrder /\ CleanUpInOrder
  BY DEF Init, SlotsInOrder, MemsInOrder, CleanUpInOrder, Busy
<1> QED
  BY <1>1, <1>2 DEF AInv

-----------------------------------------------------------------------------
(* The actions.                                                            *)

LEMMA QuietKeeps ==
  ASSUME AInv, StartTest \/ NextRepetition \/ EndRepetition \/ Ended
  PROVE  AInv'
<1>1. UNCHANGED <<config, objects, current_allocation>>
  BY DEF StartTest, NextRepetition, EndRepetition, Ended, outer, inner, vars
<1>2. (Idle /\ Idle') \/ pc' = pc
  BY DEF StartTest, NextRepetition, EndRepetition, Ended, Idle, vars
<1> QED
  BY <1>1, <1>2 DEF AInv, TypeOK, SlotsInOrder, MemsInOrder, CleanUpInOrder, Owned, Summed,
     Idle, Busy, objects

LEMMA BeginKeeps ==
  ASSUME AInv, BeginAttempt
  PROVE  AInv'
<1> USE DEF AInv
<1>1. /\ pc = "repetition" /\ pc' \in {"settle", "allocate"}
      /\ checksum' = [s \in Slots |-> 0] /\ number_of_mems_used' = 0
      /\ spoilt' = FALSE /\ current_allocation' = 0 /\ UNCHANGED <<mems, lost, config>>
  BY DEF BeginAttempt, ChecksumReset, outer
<1>2. TypeOK'
  BY <1>1 DEF TypeOK, Idle, Busy
<1>3. \A s \in Slots : mems[s] # "live" /\ ~(s < 0)
  BY <1>1 DEF CleanUpInOrder, Idle, Slots
<1>4. SlotsInOrder'
  BY <1>1, <1>3 DEF SlotsInOrder, Owned, Summed, Busy
<1>5. MemsInOrder'
  BY <1>1 DEF MemsInOrder, Owned
<1>6. CleanUpInOrder'
  BY <1>1, <1>3 DEF CleanUpInOrder, Idle
<1> QED
  BY <1>2, <1>4, <1>5, <1>6

LEMMA NextObjectKeeps ==
  ASSUME AInv, NextObject
  PROVE  AInv'
<1> USE DEF AInv, NextObject, outer, objects
<1>1. /\ pc = "allocate" /\ pc' \in {"create", "execute"}
      /\ UNCHANGED <<objects, config, current_allocation>>
  OBVIOUS
<1>2. pc' = "create" => current_allocation \in Slots
  BY SlotBound DEF TypeOK
<1> QED
  BY <1>1, <1>2 DEF TypeOK, SlotsInOrder, MemsInOrder, CleanUpInOrder, Owned, Summed, Idle, Busy

\* Slots before, at and after the one in use are told apart by comparison.
LEMMA SlotOrder ==
  ASSUME TypeOK
  PROVE  \A s \in Slots : /\ s < current_allocation + 1 <=> (s < current_allocation \/ s = current_allocation)
                          /\ ~(current_allocation < current_allocation)
BY DEF TypeOK, Slots

LEMMA CreateKeeps ==
  ASSUME AInv, NEW checked \in check_allocation_error, NEW found \in BOOLEAN,
         NEW sized \in BOOLEAN, CreateObject(checked, found, sized)
  PROVE  AInv'
<1> USE DEF AInv
<1>0. checked[1] \in {SUCCEEDED, FAILED_TOO_BIG, FAILED_ABORT}
  BY DEF check_allocation_error
<1>1. /\ pc = "create" /\ UNCHANGED <<config, checksum, spoilt, current_allocation>>
      /\ \/ UNCHANGED <<mems, number_of_mems_used, lost>> /\ pc' \in {"reduce", "settle"}
         \/ /\ mems' = [mems EXCEPT ![current_allocation] = "null"]
            /\ lost' = (lost \/ mems[current_allocation] = "live")
            /\ UNCHANGED number_of_mems_used /\ pc' \in {"reduce", "settle"}
         \/ /\ mems' = [mems EXCEPT ![current_allocation] = "live"]
            /\ lost' = (lost \/ mems[current_allocation] = "live")
            /\ number_of_mems_used' = current_allocation + 1
            /\ pc' \in {"settle", "fill"} \/ (pc' = "accept" /\ ~config.g_write_allocations)
  BY <1>0, Zenon DEF CreateObject, MemsUpTo, SUCCEEDED, FAILED_TOO_BIG, FAILED_ABORT, outer, inner, TypeOK
<1>2. current_allocation \in Slots /\ mems[current_allocation] # "live"
  BY <1>1, SlotOrder DEF MemsInOrder, SlotsInOrder, Owned, Busy
<1>3. lost' = FALSE
  BY <1>1, <1>2 DEF TypeOK
<1>4. TypeOK'
  BY <1>1, <1>2, <1>3 DEF TypeOK, Idle, Busy
<1>5. SlotsInOrder'
  BY <1>1, <1>2, SlotOrder DEF SlotsInOrder, Owned, Summed, Busy, TypeOK
<1>6. MemsInOrder'
  BY <1>1, <1>2 DEF MemsInOrder, Owned, TypeOK
<1>7. CleanUpInOrder'
  BY <1>1, <1>2, SlotOrder DEF CleanUpInOrder, MemsInOrder, SlotsInOrder, Owned, Idle, Busy, TypeOK
<1> QED
  BY <1>4, <1>5, <1>6, <1>7

LEMMA FillKeeps ==
  ASSUME AInv, NEW checked \in check_allocation_error \cup {<<CL_ERROR, queue>>},
         NEW began \in BOOLEAN, FillObject(checked, began)
  PROVE  AInv'
<1> USE DEF AInv
<1>0. checked[1] \in {SUCCEEDED, FAILED_TOO_BIG, FAILED_ABORT, CL_ERROR}
  BY DEF check_allocation_error
<1>1. /\ pc = "fill"
      /\ UNCHANGED <<config, number_of_mems_used, current_allocation, lost>>
      /\ \/ /\ pc' = "accept" /\ UNCHANGED <<mems, spoilt>>
            /\ checksum' = [checksum EXCEPT ![current_allocation] = @ + 1]
         \/ /\ pc' \in {"reduce", "settle"} /\ UNCHANGED checksum
            /\ mems' = [mems EXCEPT ![current_allocation] = "released"] /\ spoilt' = TRUE
         \/ pc' \in {"settle", "exit"} /\ UNCHANGED <<mems, spoilt, checksum>>
  <2>1. CASE checked[1] = SUCCEEDED
    BY <2>1 DEF FillObject, SumOfFill, SUCCEEDED, FAILED_TOO_BIG, FAILED_ABORT, CL_ERROR,
       outer, inner, TypeOK
  <2>2. CASE checked[1] = FAILED_TOO_BIG
    BY <2>2 DEF FillObject, SumOfFill, SUCCEEDED, FAILED_TOO_BIG, FAILED_ABORT, CL_ERROR,
       outer, inner, TypeOK, check_allocation_error
  <2>3. CASE checked[1] = FAILED_ABORT
    BY <2>3 DEF FillObject, SumOfFill, SUCCEEDED, FAILED_TOO_BIG, FAILED_ABORT, CL_ERROR,
       outer, inner, TypeOK
  <2>4. CASE checked[1] = CL_ERROR
    BY <2>4 DEF FillObject, SumOfFill, SUCCEEDED, FAILED_TOO_BIG, FAILED_ABORT, CL_ERROR,
       outer, inner, TypeOK
  <2> QED
    BY <1>0, <2>1, <2>2, <2>3, <2>4
<1>2. current_allocation \in Slots /\ number_of_mems_used = current_allocation + 1
  BY <1>1 DEF MemsInOrder, Owned
<1>3. /\ \A s \in Slots : mems[s] = "live" <=> s < current_allocation + 1
      /\ config.g_write_allocations =>
           \A s \in Slots : checksum[s] = IF s < current_allocation THEN 1 ELSE 0
  BY <1>1 DEF SlotsInOrder, Owned, Summed, Busy
<1>4. TypeOK'
  <2>1. checksum' \in [Slots -> Nat]
    BY <1>1, <1>2 DEF TypeOK
  <2>2. mems' \in [Slots -> {"none", "null", "live", "released"}]
    BY <1>1, <1>2 DEF TypeOK
  <2>3. spoilt' \in BOOLEAN
    BY <1>1, Zenon DEF TypeOK
  <2>4. (Idle \/ Busy \/ pc \in {"settle", "exit"})'
    BY <1>1 DEF Idle, Busy
  <2> QED
    BY <1>1, <2>1, <2>2, <2>3, <2>4, Zenon DEF TypeOK
<1>5. SlotsInOrder'
  <2>1. CASE pc' = "accept"
    BY <1>1, <1>2, <1>3, <2>1, SlotOrder DEF SlotsInOrder, Owned, Summed, Busy, TypeOK
  <2>2. CASE pc' = "reduce"
    BY <1>1, <1>2, <1>3, <2>2, SlotOrder DEF SlotsInOrder, Owned, Summed, Busy, TypeOK
  <2> QED
    BY <1>1, <2>1, <2>2 DEF SlotsInOrder, Busy
<1>6. MemsInOrder'
  BY <1>1, <1>2 DEF MemsInOrder, Owned
<1>7. CleanUpInOrder'
  BY <1>1, <1>2, <1>3, SlotOrder DEF CleanUpInOrder, Idle, TypeOK
<1> QED
  BY <1>4, <1>5, <1>6, <1>7

LEMMA ReduceKeeps ==
  ASSUME AInv, Reduce
  PROVE  AInv'
<1> USE DEF AInv
<1>1. /\ pc = "reduce" /\ pc' \in {"create", "settle"}
      /\ UNCHANGED <<config, objects, current_allocation>>
  BY DEF Reduce, outer
<1>2. TypeOK'
  BY <1>1 DEF TypeOK, Idle, Busy, objects
<1>3. SlotsInOrder' /\ MemsInOrder'
  BY <1>1 DEF SlotsInOrder, MemsInOrder, Owned, Summed, Busy, objects
<1>4. CleanUpInOrder'
  BY <1>1, SlotOrder DEF CleanUpInOrder, MemsInOrder, SlotsInOrder, Owned, Idle, Busy, objects,
     TypeOK
<1> QED
  BY <1>2, <1>3, <1>4

LEMMA AcceptKeeps ==
  ASSUME AInv, AcceptObject
  PROVE  AInv'
<1> USE DEF AInv
<1>1. /\ pc = "accept" /\ pc' = "allocate" /\ current_allocation' = current_allocation + 1
      /\ UNCHANGED <<config, objects>>
  BY DEF AcceptObject, outer
<1> QED
  BY <1>1 DEF TypeOK, SlotsInOrder, MemsInOrder, CleanUpInOrder, Owned, Summed, Idle, Busy,
     objects

LEMMA ExecuteKeeps ==
  ASSUME AInv, NEW checked, ExecuteKernel(checked)
  PROVE  AInv'
<1> USE DEF AInv
<1>1. /\ pc = "execute" /\ pc' = "settle"
      /\ UNCHANGED <<config, objects, current_allocation>>
  BY DEF ExecuteKernel, outer, inner
<1> QED
  BY <1>1 DEF TypeOK, SlotsInOrder, MemsInOrder, CleanUpInOrder, Owned, Idle, Busy, objects

LEMMA SettleKeeps ==
  ASSUME AInv, Settle
  PROVE  AInv'
<1> USE DEF AInv
<1>1. /\ pc = "settle" /\ pc' = "repetition"
      /\ UNCHANGED <<config, checksum, number_of_mems_used, lost, spoilt, current_allocation>>
      /\ mems' = [s \in Slots |->
                    IF s < number_of_mems_used /\ mems[s] = "live" THEN "released" ELSE mems[s]]
  BY DEF Settle, inner
<1>2. TypeOK'
  BY <1>1 DEF TypeOK, Idle
<1>3. \A s \in Slots : mems'[s] # "live"
  BY <1>1 DEF CleanUpInOrder
<1> QED
  BY <1>1, <1>2, <1>3 DEF SlotsInOrder, MemsInOrder, CleanUpInOrder, Idle, Busy

LEMMA ANext ==
  ASSUME AInv, [Next]_vars
  PROVE  AInv'
<1>1. CASE UNCHANGED vars
  BY <1>1 DEF AInv, TypeOK, SlotsInOrder, MemsInOrder, CleanUpInOrder, Owned, Summed, Idle,
     Busy, vars, outer, inner, objects
<1>2. CASE Ended
  BY <1>2, QuietKeeps
<1>3. CASE Step
  BY <1>3, QuietKeeps, BeginKeeps, NextObjectKeeps, CreateKeeps, FillKeeps, ReduceKeeps,
     AcceptKeeps, ExecuteKeeps, SettleKeeps DEF Step
<1> QED
  BY <1>1, <1>2, <1>3 DEF Next

LEMMA SlotsAreInOrder == Spec => []AInv
<1>1. AInv /\ [Next]_vars => AInv'
  BY ANext
<1> QED
  BY <1>1, AInit, PTL DEF Spec

\* No memory object outlives its attempt or is lost, whatever the OpenCL calls
\* return, and Clean up releases one twice only after a fill that failed.
THEOREM NothingIsLeaked == Spec => []ObjectsAreSettled
<1>1. AInv => ObjectsAreSettled
  BY DEF AInv, TypeOK, CleanUpInOrder, Idle, ObjectsAreSettled
<1> QED
  BY <1>1, SlotsAreInOrder, PTL

\* The checksum the kernel's result is compared with is that of the objects the
\* kernel was given.
THEOREM ChecksumIsTheKernels == Spec => []KernelSeesTheSum
<1>1. AInv => KernelSeesTheSum
  BY DEF AInv, SlotsInOrder, MemsInOrder, Owned, Summed, Busy, KernelSeesTheSum, ChecksumAgrees
<1> QED
  BY <1>1, SlotsAreInOrder, PTL

-----------------------------------------------------------------------------
(* The verdict.                                                            *)

\* The repetitions that have passed while no failure has been counted.
Repetitions == IF pc = "repetition" /\ error = SUCCEEDED THEN count + 1 ELSE count

CountInOrder ==
  /\ count \in Nat /\ count <= config.g_repetition_count
  /\ pc \notin {"start", "next", "returned", "skipped"} => count < config.g_repetition_count
  /\ pc = "returned" /\ ~failure_counts => count = config.g_repetition_count

\* doTest judges an attempt by final_size, which allocate_size writes only once
\* it has an object.  An attempt that ended well has one, or was after nothing.
SizeInOrder ==
  /\ current_test_size \in Int
  /\ Busy => current_test_size > g_max_size \div 8
  /\ Busy /\ current_allocation # 0 => final_size = amount_allocated
  /\ pc = "execute" \/ (pc = "settle" /\ error = SUCCEEDED) =>
       final_size = amount_allocated \/ ~(amount_allocated < g_max_size \div 8)

PassedInOrder == ~failure_counts => passed = 0 .. Repetitions - 1

JInv == CountInOrder /\ SizeInOrder /\ PassedInOrder

LEMMA ConfigTypes ==
  ASSUME config \in Configs
  PROVE  config.g_repetition_count \in Nat /\ g_max_size \div 8 \in Int /\ g_max_size \in Int
<1>1. config \in ConfigType
  BY AllocationAssumption
<1>2. config.g_repetition_count \in Nat /\ config.g_reduction_percentage \in Int
  BY <1>1 DEF ConfigType
<1>3. g_global_mem_size \in Int
  BY AllocationAssumption DEF g_global_mem_size
<1>4. g_max_individual_allocation_size \in Int
  BY <1>3, AllocationAssumption DEF g_max_individual_allocation_size, Lesser
<1>5. MaxHeight * MaxWidth * PixelSize \in Int
  BY AllocationAssumption
<1>6. PICK individual \in Int : individual =
        (IF IsImage THEN Lesser(g_max_individual_allocation_size, MaxHeight * MaxWidth * PixelSize)
         ELSE g_max_individual_allocation_size)
  BY <1>4, <1>5 DEF Lesser
<1>7. PICK base \in Int : base =
        (IF config.g_multiple_allocations THEN g_global_mem_size ELSE individual)
  BY <1>3, <1>6
<1>8. PICK reduced \in Int : reduced = (base * config.g_reduction_percentage) \div 100
  BY <1>2
<1>9. g_max_size = (reduced \div MB) * MB
  BY <1>6, <1>7, <1>8 DEF g_max_size
<1>10. g_max_size \in Int
  BY <1>9, AllocationAssumption
<1> QED
  BY <1>2, <1>10

LEMMA JInit == Init => JInv
<1> SUFFICES ASSUME Init PROVE JInv
  OBVIOUS
<1>1. config.g_repetition_count \in Nat
  BY ConfigTypes DEF Init
<1>2. PassedInOrder
  BY DEF Init, PassedInOrder, Repetitions
<1> QED
  BY <1>1, <1>2 DEF Init, JInv, CountInOrder, SizeInOrder, Busy

LEMMA StartJudged ==
  ASSUME TypeOK, JInv, StartTest
  PROVE  JInv'
<1> USE DEF JInv
<1>1. /\ pc = "start" /\ UNCHANGED <<config, count, current_test_size, passed>>
      /\ \/ pc' = "skipped" /\ failure_counts' = failure_counts
         \/ pc' = "next" /\ failure_counts' = failure_counts
         \/ pc' = "returned" /\ failure_counts' = TRUE
  BY DEF StartTest
<1>2. CountInOrder'
  BY <1>1 DEF CountInOrder
<1>3. SizeInOrder'
  BY <1>1 DEF SizeInOrder, Busy
<1>4. PassedInOrder'
  BY <1>1 DEF PassedInOrder, Repetitions
<1> QED
  BY <1>2, <1>3, <1>4

LEMMA RepetitionJudged ==
  ASSUME TypeOK, JInv, NextRepetition \/ EndRepetition
  PROVE  JInv'
<1> USE DEF JInv
<1>0. config.g_repetition_count \in Nat /\ g_max_size \in Int
  BY ConfigTypes DEF TypeOK
<1>1. CASE NextRepetition
  <2>1. /\ pc = "next" /\ UNCHANGED <<config, count, failure_counts, passed>>
        /\ \/ /\ count < config.g_repetition_count /\ pc' = "repetition"
              /\ current_test_size' = g_max_size /\ error' = FAILED_TOO_BIG
           \/ /\ ~(count < config.g_repetition_count) /\ pc' = "returned"
              /\ UNCHANGED current_test_size
    BY <1>1 DEF NextRepetition
  <2>2. CountInOrder'
    BY <1>0, <2>1 DEF CountInOrder
  <2>3. SizeInOrder'
    BY <1>0, <2>1 DEF SizeInOrder, Busy
  <2>4. PassedInOrder'
    BY <2>1 DEF PassedInOrder, Repetitions, SUCCEEDED, FAILED_TOO_BIG
  <2> QED
    BY <2>2, <2>3, <2>4
<1>2. CASE EndRepetition
  <2>1. /\ pc = "repetition" /\ pc' = "next" /\ count' = count + 1
        /\ UNCHANGED <<config, current_test_size, passed>>
        /\ ~failure_counts' => ~failure_counts /\ error = SUCCEEDED
    BY <1>2, Zenon DEF EndRepetition
  <2>2. CountInOrder'
    BY <1>0, <2>1 DEF CountInOrder
  <2>3. SizeInOrder'
    BY <2>1 DEF SizeInOrder, Busy
  <2>4. PassedInOrder'
    BY <2>1 DEF PassedInOrder, Repetitions
  <2> QED
    BY <2>2, <2>3, <2>4
<1> QED
  BY <1>1, <1>2

\* A step of allocate_size before its end leaves the verdict alone.
LEMMA VerdictKept ==
  ASSUME JInv, pc # "repetition" \/ error # SUCCEEDED, pc' # "repetition",
         pc \notin {"start", "next", "returned", "skipped"},
         pc' \notin {"start", "next", "returned", "skipped"},
         UNCHANGED <<config, count, failure_counts, passed>>
  PROVE  CountInOrder' /\ PassedInOrder'
BY DEF JInv, CountInOrder, PassedInOrder, Repetitions

LEMMA AttemptJudged ==
  ASSUME TypeOK, JInv, BeginAttempt
  PROVE  JInv'
<1>1. /\ pc = "repetition" /\ error = FAILED_TOO_BIG
      /\ current_test_size > g_max_size \div 8 /\ current_allocation' = 0
      /\ UNCHANGED <<config, count, current_test_size, failure_counts, passed>>
  BY DEF BeginAttempt, TryAgain, outer
<1>2. pc' = "allocate" \/ (pc' = "settle" /\ error' # SUCCEEDED)
  BY DEF BeginAttempt, SUCCEEDED, FAILED_ABORT, CL_ERROR
<1>3. g_max_size' = g_max_size
  BY <1>1 DEF g_max_size, g_max_individual_allocation_size, g_global_mem_size, IsImage
<1>4. SizeInOrder'
  BY <1>1, <1>2, <1>3 DEF JInv, SizeInOrder, Busy
<1> QED
  BY <1>1, <1>2, <1>4, VerdictKept DEF JInv, SUCCEEDED, FAILED_TOO_BIG

\* So does one that asks for, fills or gives up an object.
LEMMA ObjectJudged ==
  ASSUME TypeOK, JInv, pc \in {"create", "fill", "reduce"},
         UNCHANGED <<config, count, current_test_size, failure_counts, passed, final_size,
                     amount_allocated, current_allocation>>,
         \/ pc' \in {"create", "fill", "reduce", "accept", "exit"}
         \/ pc' = "settle" /\ error' # SUCCEEDED
  PROVE  JInv'
<1>1. g_max_size' = g_max_size
  BY DEF g_max_size, g_max_individual_allocation_size, g_global_mem_size, IsImage
<1>2. SizeInOrder'
  BY <1>1 DEF JInv, SizeInOrder, Busy
<1> QED
  BY <1>2, VerdictKept DEF JInv

LEMMA CreateJudged ==
  ASSUME TypeOK, JInv, NEW checked \in check_allocation_error, NEW found \in BOOLEAN,
         NEW sized \in BOOLEAN, CreateObject(checked, found, sized)
  PROVE  JInv'
<1>1. /\ pc = "create"
      /\ UNCHANGED <<config, count, current_test_size, failure_counts, passed, final_size,
                     amount_allocated, current_allocation>>
  BY DEF CreateObject, outer, inner
<1>2. checked[1] \in {SUCCEEDED, FAILED_TOO_BIG, FAILED_ABORT}
  BY DEF check_allocation_error
<1>3. \/ pc' \in {"reduce", "fill", "accept"}
      \/ pc' = "settle" /\ error' # SUCCEEDED
  <2> DEFINE tooMany == IsImage /\ TooManyPixels(allocation_this_time)
             result  == IF ~found THEN FAILED_ABORT
                        ELSE IF tooMany THEN FAILED_TOO_BIG ELSE checked[1]
             actual  == IF sized THEN ActualSize(allocation_this_time) ELSE 0
             right   == /\ allocation_this_time - actual <= MB
                        /\ actual - allocation_this_time <= MB
  <2>1. result \in {SUCCEEDED, FAILED_TOO_BIG, FAILED_ABORT}
    BY <1>2
  <2>2. /\ error' = IF result = FAILED_ABORT \/ (result = SUCCEEDED /\ ~right)
                    THEN FAILED_ABORT ELSE error
        /\ pc' = IF result = FAILED_TOO_BIG THEN "reduce"
                 ELSE IF result = FAILED_ABORT \/ ~right THEN "settle"
                 ELSE IF config.g_write_allocations THEN "fill" ELSE "accept"
    BY Zenon DEF CreateObject
  <2> HIDE DEF result, right
  <2> QED
    BY <2>1, <2>2 DEF SUCCEEDED, FAILED_TOO_BIG, FAILED_ABORT
<1> QED
  BY <1>1, <1>3, ObjectJudged

LEMMA FillJudged ==
  ASSUME TypeOK, JInv, NEW checked \in check_allocation_error \cup {<<CL_ERROR, queue>>},
         NEW began \in BOOLEAN, FillObject(checked, began)
  PROVE  JInv'
<1>1. /\ pc = "fill"
      /\ UNCHANGED <<config, count, current_test_size, failure_counts, passed, final_size,
                     amount_allocated, current_allocation>>
  BY DEF FillObject, outer, inner
<1>2. checked[1] \in {SUCCEEDED, FAILED_TOO_BIG, FAILED_ABORT, CL_ERROR}
  BY DEF check_allocation_error
<1>3. \/ pc' \in {"reduce", "accept", "exit"}
      \/ pc' = "settle" /\ error' # SUCCEEDED
  BY <1>2 DEF FillObject, SUCCEEDED, FAILED_TOO_BIG, FAILED_ABORT, CL_ERROR
<1> QED
  BY <1>1, <1>3, ObjectJudged

LEMMA ReduceJudged ==
  ASSUME TypeOK, JInv, Reduce
  PROVE  JInv'
<1>1. /\ pc = "reduce"
      /\ UNCHANGED <<config, count, current_test_size, failure_counts, passed, final_size,
                     amount_allocated, current_allocation>>
      /\ pc' = "create" \/ (pc' = "settle" /\ error' # SUCCEEDED)
  BY DEF Reduce, outer, SUCCEEDED, FAILED_TOO_BIG
<1> QED
  BY <1>1, ObjectJudged

LEMMA NextObjectJudged ==
  ASSUME TypeOK, JInv, NextObject
  PROVE  JInv'
<1>1. /\ pc = "allocate" /\ pc' \in {"create", "execute"}
      /\ UNCHANGED <<config, count, current_test_size, failure_counts, passed, final_size,
                     amount_allocated, current_allocation>>
      /\ pc' = "execute" =>
           ~(amount_allocated # current_test_size /\ current_allocation < max_to_allocate)
  BY DEF NextObject, outer
<1>2. g_max_size' = g_max_size
  BY <1>1 DEF g_max_size, g_max_individual_allocation_size, g_global_mem_size, IsImage
<1>3. 0 < max_to_allocate
  BY AllocationAssumption DEF max_to_allocate, Lesser
<1>4. g_max_size \div 8 \in Int
  BY ConfigTypes DEF TypeOK
<1>5. pc' = "execute" =>
        final_size = amount_allocated \/ ~(amount_allocated < g_max_size \div 8)
  BY <1>1, <1>3, <1>4 DEF JInv, SizeInOrder, Busy
<1>6. SizeInOrder'
  BY <1>1, <1>2, <1>5 DEF JInv, SizeInOrder, Busy
<1> QED
  BY <1>1, <1>6, VerdictKept DEF JInv

LEMMA AcceptJudged ==
  ASSUME TypeOK, JInv, AcceptObject
  PROVE  JInv'
<1>1. /\ pc = "accept" /\ pc' = "allocate" /\ final_size' = amount_allocated'
      /\ UNCHANGED <<config, count, current_test_size, failure_counts, passed>>
  BY DEF AcceptObject, outer
<1>2. g_max_size' = g_max_size
  BY <1>1 DEF g_max_size, g_max_individual_allocation_size, g_global_mem_size, IsImage
<1>3. SizeInOrder'
  BY <1>1, <1>2 DEF JInv, SizeInOrder, Busy
<1> QED
  BY <1>1, <1>3, VerdictKept DEF JInv

LEMMA ExecuteJudged ==
  ASSUME TypeOK, JInv, NEW checked, ExecuteKernel(checked)
  PROVE  JInv'
<1>1. /\ pc = "execute" /\ pc' = "settle"
      /\ UNCHANGED <<config, count, current_test_size, failure_counts, passed, final_size,
                     amount_allocated>>
  BY DEF ExecuteKernel, outer, inner
<1>2. g_max_size' = g_max_size
  BY <1>1 DEF g_max_size, g_max_individual_allocation_size, g_global_mem_size, IsImage
<1>3. SizeInOrder'
  BY <1>1, <1>2 DEF JInv, SizeInOrder, Busy
<1> QED
  BY <1>1, <1>3, VerdictKept DEF JInv

LEMMA SettleJudged ==
  ASSUME TypeOK, JInv, Settle
  PROVE  JInv'
<1> USE DEF JInv
<1>1. /\ pc = "settle" /\ pc' = "repetition" /\ UNCHANGED <<config, count, error>>
      /\ ~failure_counts' => ~failure_counts /\ ~(final_size < g_max_size \div 8)
      /\ current_test_size' = IF error = FAILED_TOO_BIG
                              THEN current_test_size - g_max_size \div 16
                              ELSE current_test_size
      /\ passed' = IF error = SUCCEEDED /\ ~(amount_allocated < g_max_size \div 8)
                   THEN passed \cup {count} ELSE passed
  BY Zenon DEF Settle, TooLittle
<1>2. CountInOrder'
  BY <1>1 DEF CountInOrder
<1>3. SizeInOrder'
  <2>1. g_max_size \div 16 \in Int
    BY ConfigTypes DEF TypeOK
  <2> QED
    BY <1>1, <2>1 DEF SizeInOrder, Busy
<1>4. PassedInOrder'
  <2> SUFFICES ASSUME ~failure_counts' PROVE passed' = 0 .. Repetitions' - 1
    BY DEF PassedInOrder
  <2>1. passed = 0 .. count - 1 /\ count \in Nat
    BY <1>1 DEF PassedInOrder, Repetitions, CountInOrder
  <2>2. CASE error = SUCCEEDED
    <3>1. passed' = passed \cup {count}
      BY <1>1, <2>2 DEF SizeInOrder
    <3>2. Repetitions' = count + 1
      BY <1>1, <2>2 DEF Repetitions
    <3> QED
      BY <2>1, <3>1, <3>2
  <2>3. CASE error # SUCCEEDED
    BY <1>1, <2>1, <2>3 DEF Repetitions
  <2> QED
    BY <2>2, <2>3
<1> QED
  BY <1>2, <1>3, <1>4

LEMMA JNext ==
  ASSUME TypeOK, JInv, [Next]_vars
  PROVE  JInv'
<1>1. CASE UNCHANGED vars \/ Ended
  BY <1>1 DEF JInv, CountInOrder, SizeInOrder, PassedInOrder, Repetitions, Busy, Ended, vars,
     outer, inner, g_max_size, g_max_individual_allocation_size, g_global_mem_size, IsImage
<1>2. CASE Step
  BY <1>2, StartJudged, RepetitionJudged, AttemptJudged, NextObjectJudged, CreateJudged,
     FillJudged, ReduceJudged, AcceptJudged, ExecuteJudged, SettleJudged DEF Step
<1> QED
  BY <1>1, <1>2 DEF Next

\* A test that counts no failure has passed every repetition: the final_size it
\* is judged by is that of its last attempt, though allocate_size leaves it
\* alone where an attempt fails early.
THEOREM VerdictIsAlwaysEarned == Spec => []VerdictIsEarned
<1>1. TypeOK /\ JInv /\ [Next]_vars => JInv'
  BY JNext
<1>2. AInv => TypeOK
  BY DEF AInv
<1>3. JInv => VerdictIsEarned
  BY DEF JInv, CountInOrder, PassedInOrder, Repetitions, VerdictIsEarned
<1> QED
  BY <1>1, <1>2, <1>3, JInit, SlotsAreInOrder, PTL DEF Spec
=============================================================================
