--------------------------- MODULE ConversionTest ---------------------------
(***************************************************************************)
(* The conversions suite (test_conformance/conversions): one thread walks  *)
(* through the conversions and runs DoTest on each.  DoTest works in       *)
(* blocks: the thread pool fills gIn, the device converts it once per      *)
(* vector size, the pool computes the reference values gRef, and OpenCL    *)
(* event callbacks, one per vector size, compare the two.  The callbacks   *)
(* run on threads of the driver; two user events tie them to DoTest:       *)
(*                                                                         *)
(*   calcReferenceValues  set by DoTest when gRef is ready: starts them    *)
(*   doneBarrier          set by the last of them: lets DoTest go on       *)
(*                                                                         *)
(* Everything they share is in DoTest's stack frame or in globals that the *)
(* next block writes again, so that all rests on barrierCount, and on the  *)
(* reference counts of the events.                                         *)
(*                                                                         *)
(* ThreadPool_Do is used through JobService, which ThreadPool implements.  *)
(* A value is abstract: the input x is a number, Reference(x) its correct  *)
(* conversion, and no two inputs share one unless they are NaNs that become*)
(* integers, so that a comparison with the values of another block never   *)
(* succeeds by chance.                                                     *)
(***************************************************************************)
EXTENDS Integers, FiniteSets

CONSTANTS
  gMaxVectorSize,  \* vector sizes are gMinVectorSize .. gMaxVectorSize - 1
  ThreadCounts,    \* what GetThreadCount() may return
  BlockCount,      \* elements of a block (BUFFER_SIZE / type size)
  MinChunk,        \* elements a job has at least (16384 in the code)
  Options,         \* command lines: link check (-l) and timing (-t)
  Kinds,           \* the conversions: see KindType
  MaxTests,        \* bound: conversions tested
  MaxBlocks,       \* bound: blocks of all of them together
  MaxWrong,        \* bound: elements of a block and vector size converted wrong
  Faults           \* external calls that may fail, see Outcomes

\* What tells conversions apart here: the vector sizes, the output type (half is as
\* float), whether the input type is the same; the inputs whose result may be flushed
\* to zero, those that are NaNs, those whose result is beyond 0x7f80000000000000 as a
\* double; the number of input values and the distance between blocks (wimpy mode
\* and embedded profiles skip some).
KindType == [min : {0, 1}, out : {"int", "float", "double"}, same : BOOLEAN,
             denormals : SUBSET Nat, nans : SUBSET Nat, huge : SUBSET Nat,
             lastCase : Nat \ {0}, step : Nat \ {0}]

ASSUME ConversionAssumption ==
  /\ gMaxVectorSize \in Nat /\ gMaxVectorSize >= 2
  /\ ThreadCounts \subseteq Nat \ {0}
  /\ BlockCount \in Nat \ {0}
  /\ MinChunk \in Nat \ {0}
  /\ Options \subseteq [gSkipTesting : BOOLEAN, gTimeResults : BOOLEAN]
  /\ Kinds # {} /\ Kinds \subseteq KindType
  /\ MaxTests \in Nat /\ MaxBlocks \in Nat /\ MaxWrong \in Nat

VectorSizes == 0 .. gMaxVectorSize - 1
Elements    == 0 .. BlockCount - 1
Blocks      == 1 .. MaxBlocks

CL_SUCCESS == 0

\* Contents of the buffers, as numbers.
Junk         == -1        \* 0xffffdead, or nothing written yet
Bad          == -2        \* a value that no conversion gives
Zero         == 0
NaN          == -3        \* a NaN of other bits than the reference

VARIABLES
  \* the walk over the conversions (TestTypesConversion)
  testNumber, kind, threads, option, gFailCount,
  \* DoTest: where it is, its locals and its result
  pc, i, count, chunks, size, vectorSize, ret,
  \* its WriteInputBufferInfo: current events, barrier and results
  doneBarrier, barrierCount, result,
  \* buffers: host, device input, mapped output
  gIn, gRef, gAllowZ, gInBuffer, mapped, isMapped,
  \* user events, by kind and number of the block: references, completion
  refs, complete,
  \* callbacks by vector size and block: where they are, their local copy of
  \* info->parent->doneBarrier
  cb, cbBarrier,
  \* the call of ThreadPool_Do in progress (JobService)
  phase, jobCount, started, running, raised, jobResult,
  \* history: elements that the device converted wrong, those that are wrong and
  \* pass for right, whether a call failed
  wrong, missed, mishap

suite   == <<testNumber, kind, threads, option>>
frame   == <<i, count, chunks, size>>
buffers == <<gIn, gRef, gAllowZ, gInBuffer>>
outputs == <<mapped, isMapped>>
events  == <<refs, complete>>
calls   == <<cb, cbBarrier>>
poolVars == <<phase, jobCount, started, running, raised, jobResult>>
vars == <<suite, gFailCount, pc, frame, vectorSize, ret, doneBarrier,
          barrierCount, result, buffers, outputs, events, calls, poolVars,
          wrong, missed, mishap>>

Main == "main"
Pool == INSTANCE JobService
          WITH Callers <- {Main}, Counts <- Nat, Errors <- {},
               MAX_COUNT <- 2147483647, count <- jobCount, ret <- jobResult

\* The vector sizes of the current conversion.
Sizes == kind.min .. gMaxVectorSize - 1

\* An external call succeeds, or fails if it may.  Bound: nothing fails once a
\* failure has been counted.
MayFail(call)  == call \in Faults /\ ~gFailCount
Outcomes(call) == {TRUE} \cup {ok \in {FALSE} : MayFail(call)}

-----------------------------------------------------------------------------
(* The arithmetic of the partition of a block.                             *)

PowersOfTwo == {2 ^ k : k \in 0 .. 29}

\* The bit trick of the code, for thread counts below 2^29.
RoundUpToNextPowerOfTwo(x) ==
  IF x = 0 \/ x \in PowersOfTwo THEN x
  ELSE 2 * (CHOOSE p \in PowersOfTwo : p < x /\ x < 2 * p)

\* Jobs a block of n elements is split into: two per thread, one per thread
\* or one, so that each has MinChunk elements or more.
ChunksPerThread(n) ==
  LET t == RoundUpToNextPowerOfTwo(threads)
  IN  IF n \div (2 * t) >= MinChunk THEN 2 * t ELSE t

Chunks(n) ==
  LET t == RoundUpToNextPowerOfTwo(threads)
  IN  IF n \div (2 * t) >= MinChunk THEN 2 * t
      ELSE IF n \div t >= MinChunk THEN t ELSE 1

\* Blocks and numbers of inputs are powers of two, or multiples of a block, and
\* no machine has more than 2^29 threads: the jobs of a block then cover it.
ASSUME PartitionAssumption ==
  /\ BlockCount \in PowersOfTwo
  /\ \A t \in ThreadCounts : t <= 2 ^ 29
  /\ \A k \in Kinds : /\ k.step % BlockCount = 0
                      /\ k.lastCase \in PowersOfTwo \/ k.lastCase % BlockCount = 0

\* The elements of a job.
Slice(j) == j * size .. (j + 1) * size - 1

Smaller(a, b) == IF a < b THEN a ELSE b

-----------------------------------------------------------------------------
(* Values, for a conversion t.                                             *)

\* An integer made of a NaN may be anything: FixNanConversions zeroes it, in the
\* references and in the output.
NaNToInt(t, x) == t.out = "int" /\ x \in t.nans
Fixed(t, x, y) == IF NaNToInt(t, x) THEN Zero ELSE y

Reference(t, x) == Fixed(t, x, x + 1)

\* A value that is a NaN, of the reference's bits or others.
IsNaN(t, y) == y = NaN \/ y - 1 \in t.nans

\* The references for which a NaN passes: a NaN may have other bits.  For double the
\* reference is compared with 0x7f80000000000000, which is not infinity.
TakesNaN(t, c) ==
  /\ t.out # "int"
  /\ c - 1 \in t.nans \/ (t.out = "double" /\ c - 1 \in t.huge)

\* What the device may make of an input: the reference, zero where denormals are
\* flushed, any NaN for a NaN, any integer for a NaN.
Right(t, x, y) ==
  \/ y = Reference(t, x)
  \/ y = Zero /\ ~t.same /\ x \in t.denormals
  \/ x \in t.nans /\ (t.out = "int" \/ IsNaN(t, y))

\* Wrong results that pass: a NaN where TakesNaN is too generous, and a zero where an
\* earlier conversion has left permission for one in gAllowZ, which PrepareReference
\* does not write when it converts between equal types.
Overlooked(t, allowZ, x, y) ==
  \/ t.out = "double" /\ x \in t.huge /\ IsNaN(t, y)
  \/ t.same /\ allowZ /\ y = Zero

Passes(t, allowZ, x, y) == Right(t, x, y) \/ Overlooked(t, allowZ, x, y)

-----------------------------------------------------------------------------
Init ==
  /\ testNumber = 0
  /\ kind = CHOOSE k \in Kinds : TRUE
  /\ threads \in ThreadCounts
  /\ option \in Options
  /\ gFailCount = FALSE
  /\ pc = "suite"
  /\ i = 0 /\ count = 0 /\ chunks = 1 /\ size = 0 /\ vectorSize = 0 /\ ret = 0
  /\ doneBarrier = 0 /\ barrierCount = 0
  /\ result = [v \in VectorSizes |-> -1]
  /\ gIn = [k \in Elements |-> 0]
  /\ gRef = [k \in Elements |-> Junk]
  /\ gAllowZ = [k \in Elements |-> FALSE]
  /\ gInBuffer = [k \in Elements |-> 0]
  /\ mapped = [v \in VectorSizes |-> [k \in Elements |-> Junk]]
  /\ isMapped = [v \in VectorSizes |-> FALSE]
  /\ refs = [e \in {"calc", "done"} \X Blocks |-> 0]
  /\ complete = [e \in {"calc", "done"} \X Blocks |-> FALSE]
  /\ cb = [c \in VectorSizes \X Blocks |-> "none"]
  /\ cbBarrier = [c \in VectorSizes \X Blocks |-> 0]
  /\ Pool!Init
  /\ wrong = {} /\ missed = {} /\ mishap = FALSE

-----------------------------------------------------------------------------
(* DoTest.                                                                 *)

\* DoTest returns r.  Whatever failed is counted in gFailCount; the increments
\* of the callbacks are not atomic and may be lost, but never all of them: the
\* model keeps whether it is zero.
Return(r) == pc' = "returned" /\ ret' = r

\* An external call failed in DoTest itself.
Abort == Return(-1) /\ gFailCount' = TRUE /\ mishap' = TRUE

\* The next conversion that is not skipped: gMinVectorSize is set for it.
\* Bound: the suite is followed up to the first failure it counts.
NextTest(k) ==
  /\ pc \in {"suite", "returned"}
  /\ testNumber < MaxTests /\ ~gFailCount
  /\ testNumber' = testNumber + 1
  /\ kind' = k
  /\ pc' = "programs"
  /\ ret' = 0
  /\ i' = 0 /\ count' = 0 /\ chunks' = 1 /\ size' = 0 /\ vectorSize' = 0
  /\ barrierCount' = 0
  /\ wrong' = {} /\ missed' = {} /\ mishap' = FALSE
  /\ result' = [v \in VectorSizes |-> -1]
  /\ UNCHANGED <<threads, option, gFailCount, doneBarrier, buffers, outputs,
                 events, calls, poolVars>>

\* The programs of all vector sizes are built; in link check mode (-l) that is
\* all.
MakePrograms ==
  /\ pc = "programs"
  /\ \E ok \in Outcomes("program") :
       IF ok THEN /\ IF option.gSkipTesting THEN Return(0)
                     ELSE pc' = "block" /\ ret' = ret
                  /\ UNCHANGED <<gFailCount, mishap>>
       ELSE Abort
  /\ UNCHANGED <<suite, frame, vectorSize, doneBarrier, barrierCount, result,
                 buffers, outputs, events, calls, poolVars, wrong, missed>>

\* The references to the two events of a block: one of the creator each, one
\* per callback registration, one for the callback that completes the barrier.
\* A call that fails leaves what was created and retained before it.
EventReferences ==
  LET n == Cardinality(Sizes)
  IN  {<<n + 1, 2>>} \cup
      {made \in {<<0, 0>>, <<n + 1, 1>>} \cup ((1 .. n + 1) \X {0}) : MayFail("events")}

\* The next block begins: its events are created and retained.
CreateEvents(b) ==
  /\ pc = "block"
  /\ i < kind.lastCase
  /\ b \in Blocks /\ b = doneBarrier + 1
  /\ doneBarrier' = b
  /\ count' = Smaller(BlockCount, kind.lastCase - i)
  /\ \E made \in EventReferences :
       /\ refs' = [refs EXCEPT ![<<"calc", b>>] = made[1], ![<<"done", b>>] = made[2]]
       /\ IF made[2] = 2
          THEN pc' = "split" /\ UNCHANGED <<gFailCount, ret, mishap>>
          ELSE Abort
  /\ UNCHANGED <<suite, i, chunks, size, vectorSize, barrierCount, result,
                 buffers, outputs, complete, calls, poolVars, wrong, missed>>

\* The block is split, and the pool called to fill gIn.
SplitBlock ==
  /\ pc = "split"
  /\ chunks' = Chunks(count)
  /\ size' = count \div chunks'
  /\ Pool!Call(Main, chunks')
  /\ pc' = "init"
  /\ UNCHANGED <<suite, gFailCount, i, count, vectorSize, ret, doneBarrier,
                 barrierCount, result, buffers, outputs, events, calls, wrong,
                 missed, mishap>>

\* A thread of the pool takes a job of either kind.
StartJob(j) ==
  /\ Pool!Start(Main, j)
  /\ UNCHANGED <<suite, gFailCount, pc, frame, vectorSize, ret, doneBarrier,
                 barrierCount, result, buffers, outputs, events, calls, wrong,
                 missed, mishap>>

\* InitData: consecutive inputs from the start of the block.  Every job begins
\* with ulStart = start.
InitData(j) ==
  /\ pc = "init"
  /\ gIn' = [k \in Elements |->
               IF k \in Slice(j) THEN i + (k - j * size) ELSE gIn[k]]
  /\ Pool!Finish(Main, j, CL_SUCCESS)
  /\ UNCHANGED <<suite, gFailCount, pc, frame, vectorSize, ret, doneBarrier,
                 barrierCount, result, gRef, gAllowZ, gInBuffer, outputs,
                 events, calls, wrong, missed, mishap>>

\* PrepareReference: the references of the job's elements, and where zero is a
\* right result too.  Between equal types the input is copied, and gAllowZ is
\* left as it is.
PrepareReference(j) ==
  /\ pc = "prepare"
  /\ gRef' = [k \in Elements |->
                IF k \in Slice(j) THEN Reference(kind, gIn[k]) ELSE gRef[k]]
  /\ gAllowZ' = [k \in Elements |->
                   IF k \in Slice(j) /\ ~kind.same
                   THEN gIn[k] \in kind.denormals ELSE gAllowZ[k]]
  /\ Pool!Finish(Main, j, CL_SUCCESS)
  /\ UNCHANGED <<suite, gFailCount, pc, frame, vectorSize, ret, doneBarrier,
                 barrierCount, result, gIn, gInBuffer, outputs, events, calls,
                 wrong, missed, mishap>>

\* ThreadPool_Do returns.
PoolReturns ==
  /\ pc \in {"init", "prepare"}
  /\ Pool!Return(Main, CL_SUCCESS)
  /\ pc' = IF pc = "init" THEN "write" ELSE "complete"
  /\ UNCHANGED <<suite, gFailCount, frame, vectorSize, ret, doneBarrier,
                 barrierCount, result, buffers, outputs, events, calls, wrong,
                 missed, mishap>>

\* What the barrier starts from.
BarrierOffByOne == gMaxVectorSize - kind.min - 1
BarrierStart    == gMaxVectorSize - kind.min

\* gIn is copied to the device by a blocking write, and
\* WriteInputBufferComplete called: the barrier counts the vector sizes.
WriteInputBuffer ==
  /\ pc = "write"
  /\ Pool!Forget(Main)
  /\ \E ok \in Outcomes("write") :
       IF ok
       THEN /\ gInBuffer' = [k \in Elements |->
                               IF k < count THEN gIn[k] ELSE gInBuffer[k]]
            /\ barrierCount' = BarrierStart
            /\ vectorSize' = kind.min
            /\ pc' = "run"
            /\ UNCHANGED <<gFailCount, ret, mishap>>
       ELSE Abort /\ UNCHANGED <<gInBuffer, barrierCount, vectorSize>>
  /\ UNCHANGED <<suite, frame, doneBarrier, result, gIn, gRef, gAllowZ,
                 outputs, events, calls, wrong, missed>>

\* The kernel of one vector size runs and its output is mapped, both finished
\* when the blocking map returns.  The device may convert some elements wrong.
\* When a call fails WriteInputBufferComplete returns at once.
RunAndMap(bad, v) ==
  /\ pc = "run" /\ v = vectorSize
  /\ \E ok \in Outcomes("kernel") \cap Outcomes("map") :
       IF ok
       THEN /\ mapped' = [mapped EXCEPT ![v] =
                 [k \in Elements |->
                    IF k >= count THEN @[k]
                    ELSE IF k \in DOMAIN bad THEN bad[k]
                    ELSE Reference(kind, gInBuffer[k])]]
            /\ isMapped' = [isMapped EXCEPT ![v] = TRUE]
            /\ wrong' = wrong \cup
                 {<<v, k>> : k \in {n \in DOMAIN bad :
                                      ~Passes(kind, gAllowZ[n], gInBuffer[n], bad[n])}}
            /\ missed' = missed \cup
                 {<<v, k>> : k \in {n \in DOMAIN bad :
                                      /\ ~Right(kind, gInBuffer[n], bad[n])
                                      /\ Overlooked(kind, gAllowZ[n], gInBuffer[n], bad[n])}}
            /\ vectorSize' = IF v + 1 < gMaxVectorSize THEN v + 1 ELSE kind.min
            /\ pc' = IF v + 1 < gMaxVectorSize THEN "run" ELSE "register"
            /\ UNCHANGED <<gFailCount, mishap>>
       ELSE /\ gFailCount' = TRUE /\ mishap' = TRUE
            /\ pc' = "flush"
            /\ UNCHANGED <<vectorSize, outputs, wrong, missed>>
  /\ UNCHANGED <<suite, frame, ret, doneBarrier, barrierCount, result, buffers,
                 events, calls, poolVars>>

\* MapResultValuesComplete: the callback of one vector size is registered with
\* calcReferenceValues, and a reference to the event given back.  After the
\* last one WriteInputBufferComplete flushes the queue.  Failures are counted
\* and nothing else.
MapResultValuesComplete(v) ==
  /\ pc = "register" /\ v = vectorSize
  /\ \E set \in Outcomes("setCallback"), released \in Outcomes("release"),
        flushed \in Outcomes("flush") :
       /\ cb' = IF set THEN [cb EXCEPT ![<<v, doneBarrier>>] = "registered"] ELSE cb
       /\ refs' = IF released THEN [refs EXCEPT ![<<"calc", doneBarrier>>] = @ - 1]
                  ELSE refs
       /\ LET failed == ~set \/ ~released \/ (~flushed /\ v + 1 = gMaxVectorSize)
          IN  gFailCount' = (gFailCount \/ failed) /\ mishap' = (mishap \/ failed)
  /\ vectorSize' = v + 1
  /\ pc' = IF v + 1 < gMaxVectorSize THEN "register" ELSE "flush"
  /\ UNCHANGED <<suite, frame, ret, doneBarrier, barrierCount, result, buffers,
                 outputs, complete, cbBarrier, poolVars, wrong, missed>>

\* DoTest flushes the queue and calls the pool for the reference values.
Flush ==
  /\ pc = "flush"
  /\ \E ok \in Outcomes("flush") :
       IF ok THEN /\ Pool!Call(Main, chunks)
                  /\ pc' = "prepare"
                  /\ UNCHANGED <<gFailCount, ret, mishap>>
       ELSE Abort /\ UNCHANGED poolVars
  /\ UNCHANGED <<suite, frame, vectorSize, doneBarrier, barrierCount, result,
                 buffers, outputs, events, calls, wrong, missed>>

\* The reference values are ready: the callbacks may run.
SetCalcReferenceValues ==
  /\ pc = "complete"
  /\ Pool!Forget(Main)
  /\ \E ok \in Outcomes("setStatus") :
       IF ok THEN /\ complete' = [complete EXCEPT ![<<"calc", doneBarrier>>] = TRUE]
                  /\ pc' = "wait"
                  /\ UNCHANGED <<gFailCount, ret, mishap>>
       ELSE Abort /\ UNCHANGED complete
  /\ UNCHANGED <<suite, frame, vectorSize, doneBarrier, barrierCount, result,
                 buffers, outputs, refs, calls, wrong, missed>>

\* clWaitForEvents on the barrier.
WaitForBarrier ==
  /\ pc = "wait"
  /\ \E ok \in Outcomes("wait") :
       IF ok THEN /\ complete[<<"done", doneBarrier>>]
                  /\ pc' = "collect"
                  /\ UNCHANGED <<gFailCount, ret, mishap>>
       ELSE Abort
  /\ UNCHANGED <<suite, frame, vectorSize, doneBarrier, barrierCount, result,
                 buffers, outputs, events, calls, poolVars, wrong, missed>>

\* The events are released and the results read: the first one that is not
\* zero, element number plus one, ends the test.
FirstResult(r) ==
  LET failed == {v \in Sizes : r[v] # 0}
  IN  IF failed = {} THEN 0
      ELSE r[CHOOSE v \in failed : \A w \in failed : v <= w]

CollectResults ==
  /\ pc = "collect"
  /\ \E calc, done \in Outcomes("release") :
       /\ refs' = [refs EXCEPT
                     ![<<"calc", doneBarrier>>] = IF calc THEN @ - 1 ELSE @,
                     ![<<"done", doneBarrier>>] = IF calc /\ done THEN @ - 1 ELSE @]
       /\ IF calc /\ done
          THEN LET r == FirstResult(result) IN
            /\ gFailCount' = (gFailCount \/ r # 0)
            /\ mishap' = mishap
            /\ IF r # 0 THEN Return(r) /\ i' = i
               ELSE /\ pc' = "block" /\ ret' = ret
                    /\ i' = i + kind.step
          ELSE Abort /\ i' = i
  /\ UNCHANGED <<suite, count, chunks, size, vectorSize, doneBarrier,
                 barrierCount, result, buffers, outputs, complete, calls,
                 poolVars, wrong, missed>>

\* All blocks are done.  With -t the kernels run again to be timed: a kernel
\* that cannot be enqueued is counted, a clFinish that fails is not.
FinishTest ==
  /\ pc = "block"
  /\ i >= kind.lastCase
  /\ \E run \in Outcomes("kernel"), finished \in Outcomes("finish") :
       IF option.gTimeResults /\ ~(run /\ finished)
       THEN /\ Return(-1) /\ mishap' = TRUE
            /\ gFailCount' = (gFailCount \/ ~run)
       ELSE Return(0) /\ UNCHANGED <<gFailCount, mishap>>
  /\ UNCHANGED <<suite, frame, vectorSize, doneBarrier, barrierCount, result,
                 buffers, outputs, events, calls, poolVars, wrong, missed>>

-----------------------------------------------------------------------------
(* CalcReferenceValuesComplete, the callback of vector size v and block b. *)

\* The driver calls it once the event is complete: it reads the frame.
CalcBegin(v, b) ==
  /\ cb[<<v, b>>] = "registered"
  /\ complete[<<"calc", b>>]
  /\ cbBarrier' = [cbBarrier EXCEPT ![<<v, b>>] = doneBarrier]
  /\ \E ok \in Outcomes("status") :
       /\ cb' = [cb EXCEPT ![<<v, b>>] = IF ok THEN "verify" ELSE "over"]
       /\ gFailCount' = (gFailCount \/ ~ok) /\ mishap' = (mishap \/ ~ok)
  /\ UNCHANGED <<suite, pc, frame, vectorSize, ret, doneBarrier, barrierCount,
                 result, buffers, outputs, events, poolVars, wrong, missed>>

\* FixNanConversions, memcmp and check_result: the first element that is neither the
\* reference nor a NaN that passes for it nor a zero where gAllowZ permits one, plus
\* one; zero if there is none.
CheckFromTheSecond(v) ==
  LET differs == {k \in 1 .. count - 1 :
                    LET y == Fixed(kind, gIn[k], mapped[v][k]) IN
                    /\ y # gRef[k]
                    /\ ~(IsNaN(kind, y) /\ TakesNaN(kind, gRef[k]))
                    /\ ~(gAllowZ[k] /\ y = Zero)}
  IN  IF differs = {} THEN 0
      ELSE 1 + CHOOSE k \in differs : \A n \in differs : k <= n

check_result(v) ==
  LET differs == {k \in 0 .. count - 1 :
                    LET y == Fixed(kind, gIn[k], mapped[v][k]) IN
                    /\ y # gRef[k]
                    /\ ~(IsNaN(kind, y) /\ TakesNaN(kind, gRef[k]))
                    /\ ~(gAllowZ[k] /\ y = Zero)}
  IN  IF differs = {} THEN 0
      ELSE 1 + CHOOSE k \in differs : \A n \in differs : k <= n

CalcVerify(v, b) ==
  /\ cb[<<v, b>>] = "verify"
  /\ result' = [result EXCEPT ![v] = check_result(v)]
  /\ cb' = [cb EXCEPT ![<<v, b>>] = "unmap"]
  /\ UNCHANGED <<suite, gFailCount, pc, frame, vectorSize, ret, doneBarrier,
                 barrierCount, buffers, outputs, events, cbBarrier, poolVars,
                 wrong, missed, mishap>>

\* The output is filled with junk and unmapped.
CalcUnmap(v, b) ==
  /\ cb[<<v, b>>] = "unmap"
  /\ mapped' = [mapped EXCEPT ![v] =
                  [k \in Elements |-> IF k < count THEN Junk ELSE @[k]]]
  /\ cb' = [cb EXCEPT ![<<v, b>>] = "count"]
  /\ \E ok \in Outcomes("unmap") :
       /\ isMapped' = [isMapped EXCEPT ![v] = ~ok]
       /\ gFailCount' = (gFailCount \/ ~ok) /\ mishap' = (mishap \/ ~ok)
  /\ UNCHANGED <<suite, pc, frame, vectorSize, ret, doneBarrier, barrierCount,
                 result, buffers, events, cbBarrier, poolVars, wrong, missed>>

\* The callback that finds n in the barrier is the last one.
LastFindsZero(n) == n = 0
LastFindsTwo(n)  == n = 2
IsLast(n)        == n = 1

\* The event a callback signals and releases: its copy, as the frame may hold
\* another by then.
EventInTheFrame(v, b) == doneBarrier
BarrierEvent(v, b)    == cbBarrier[<<v, b>>]

\* The atomic decrement of the barrier, the last use of the frame.
CalcCount(v, b) ==
  /\ cb[<<v, b>>] = "count"
  /\ barrierCount' = barrierCount - 1
  /\ cb' = [cb EXCEPT ![<<v, b>>] = IF IsLast(barrierCount) THEN "signal" ELSE "over"]
  /\ UNCHANGED <<suite, gFailCount, pc, frame, vectorSize, ret, doneBarrier,
                 result, buffers, outputs, events, cbBarrier, poolVars, wrong,
                 missed, mishap>>

\* The last callback completes the barrier ...
CalcSignal(v, b) ==
  /\ cb[<<v, b>>] = "signal"
  /\ \E ok \in Outcomes("setDone") :
       /\ complete' = [complete EXCEPT ![<<"done", BarrierEvent(v, b)>>] = @ \/ ok]
       /\ cb' = [cb EXCEPT ![<<v, b>>] = IF ok THEN "release" ELSE "over"]
       /\ gFailCount' = (gFailCount \/ ~ok) /\ mishap' = (mishap \/ ~ok)
  /\ UNCHANGED <<suite, pc, frame, vectorSize, ret, doneBarrier, barrierCount,
                 result, buffers, outputs, refs, cbBarrier, poolVars, wrong, missed>>

\* ... and gives its reference back, while DoTest may be blocks ahead.
CalcRelease(v, b) ==
  /\ cb[<<v, b>>] = "release"
  /\ \E ok \in Outcomes("release") :
       /\ refs' = IF ok THEN [refs EXCEPT ![<<"done", BarrierEvent(v, b)>>] = @ - 1]
                  ELSE refs
       /\ gFailCount' = (gFailCount \/ ~ok) /\ mishap' = (mishap \/ ~ok)
  /\ cb' = [cb EXCEPT ![<<v, b>>] = "over"]
  /\ UNCHANGED <<suite, pc, frame, vectorSize, ret, doneBarrier, barrierCount,
                 result, buffers, outputs, complete, cbBarrier, poolVars,
                 wrong, missed>>

Callback(v, b) ==
  \/ CalcBegin(v, b) \/ CalcVerify(v, b) \/ CalcUnmap(v, b)
  \/ CalcCount(v, b) \/ CalcSignal(v, b) \/ CalcRelease(v, b)

-----------------------------------------------------------------------------
\* Wrong results the device may give for a block.  Zero stands for any of them
\* where it is not a right one and no NaN.
WrongResults ==
  UNION {[S -> {Zero} \cup {y \in {Bad} : kind.denormals # {}}
                      \cup {y \in {NaN} : kind.out # "int"}] :
           S \in {T \in SUBSET (0 .. count - 1) : Cardinality(T) <= MaxWrong}}

DoTestStep ==
  \/ MakePrograms
  \/ \E b \in Blocks : CreateEvents(b)
  \/ SplitBlock \/ PoolReturns \/ WriteInputBuffer
  \/ \E bad \in WrongResults, v \in VectorSizes : RunAndMap(bad, v)
  \/ \E v \in VectorSizes : MapResultValuesComplete(v)
  \/ Flush \/ SetCalcReferenceValues \/ WaitForBarrier \/ CollectResults
  \/ FinishTest

JobStep == \E j \in 0 .. chunks - 1 : StartJob(j) \/ InitData(j) \/ PrepareReference(j)

\* The suite is over.
Terminated ==
  /\ pc = "returned" /\ (testNumber = MaxTests \/ gFailCount)
  /\ \A c \in VectorSizes \X Blocks : cb[c] \in {"none", "registered", "over"}
  /\ UNCHANGED vars

Next ==
  \/ \E k \in Kinds : NextTest(k)
  \/ DoTestStep
  \/ JobStep
  \/ \E v \in VectorSizes, b \in Blocks : Callback(v, b)
  \/ Terminated

Spec == Init /\ [][Next]_vars

\* The main thread, the threads of the pool and those of the driver that run
\* callbacks are scheduled.
Fairness ==
  /\ WF_vars(DoTestStep)
  /\ WF_vars(JobStep)
  /\ \A v \in VectorSizes, b \in Blocks : WF_vars(Callback(v, b))

FairSpec == Spec /\ Fairness

-----------------------------------------------------------------------------
\* Callbacks that still use DoTest's frame and the global buffers.
AtWork(v, b) == cb[<<v, b>>] \in {"verify", "unmap", "count"}

\* A callback uses the frame (info, parent, barrierCount) and the buffers only
\* while DoTest is in the wait of the very block the callback belongs to: the
\* frame is there, and nobody fills gIn, gRef or the output meanwhile.
WorkInsideTheWait ==
  \A v \in VectorSizes, b \in Blocks :
    AtWork(v, b) => pc = "wait" /\ b = doneBarrier

\* Nobody touches an event it has no reference to, and when nothing failed a
\* finished test has given every reference back but the one its last callback
\* is about to release.
EventsAreBalanced ==
  /\ \A e \in DOMAIN refs : refs[e] >= 0
  /\ pc = "wait" => refs[<<"calc", doneBarrier>>] > 0 /\ refs[<<"done", doneBarrier>>] > 0
  /\ \A v \in VectorSizes, b \in Blocks :
       cb[<<v, b>>] \in {"signal", "release"} => refs[<<"done", b>>] > 0
  /\ pc = "returned" /\ ~mishap /\ ~option.gSkipTesting =>
       /\ refs[<<"calc", doneBarrier>>] = 0
       /\ refs[<<"done", doneBarrier>>] =
            Cardinality({v \in VectorSizes : cb[<<v, doneBarrier>>] = "release"})

\* The elements of the block that the first failing vector size got wrong.
FirstWrong ==
  LET v == CHOOSE v \in Sizes : /\ \E k \in Elements : <<v, k>> \in wrong
                                /\ \A p \in wrong : v <= p[1]
  IN  {k \in Elements : <<v, k>> \in wrong}

\* clFinish failed when the kernels were timed, after all values had been tested.
TimingFailed == option.gTimeResults /\ i >= kind.lastCase /\ ret = -1

\* The result of DoTest is the verdict on the device, as far as check_result can tell
\* (see NothingIsMissed): zero iff every value passes, else the place of the first
\* one that does not; and whatever went wrong is counted in gFailCount, which is
\* what the suite returns, but a failure of the timing.
VerdictIsRight ==
  pc = "returned" =>
    /\ ~mishap =>
         IF wrong = {} THEN ret = 0
         ELSE ret - 1 \in FirstWrong /\ \A k \in FirstWrong : ret - 1 <= k
    /\ ret # 0 \/ mishap => gFailCount \/ TimingFailed

\* The comment of check_result on doubles: "Allow nan's to be binary different".  A
\* conversion that passes would then have no wrong values.
NothingIsMissed == pc = "returned" /\ ret = 0 /\ ~mishap => missed = {}

\* DoTest comes to an end: no callback is lost and the barrier is reached.
DoTestReturns == pc = "programs" ~> pc = "returned"
=============================================================================
