---------------------------- MODULE ConversionInv ----------------------------
(***************************************************************************)
(* The inductive invariants behind the safety properties of                *)
(* ConversionTest, each on top of the first one.                           *)
(*                                                                         *)
(*   ConvInv  the barrier, behind WorkInsideTheWait.  barrierCount is an   *)
(*            upper bound of the callbacks that have not passed it yet, so *)
(*            that the one that takes it to zero is the last: when DoTest  *)
(*            leaves its wait nobody is left who could touch the frame.    *)
(*            It is only a bound since a registration that fails leaves    *)
(*            the barrier too high, and DoTest waiting for ever.           *)
(*   RefsInv  the references, behind EventsAreBalanced: who holds how many *)
(*            of them at every place of DoTest and of the callbacks.       *)
(*   DataInv  the data, behind VerdictIsRight: the jobs of the pool cover  *)
(*            the block, references belong to the inputs the device got,   *)
(*            and what it converted wrong is in the output until the       *)
(*            callback has judged it.                                      *)
(***************************************************************************)
EXTENDS ConversionTest

\* The callbacks of block b that have not passed the barrier.
Pending(b) ==
  {v \in VectorSizes : cb[<<v, b>>] \in {"registered", "verify", "unmap", "count"}}

\* DoTest has begun the block and not yet started its callbacks.
Preparing == pc \in {"split", "init", "write", "run", "register", "flush",
                     "prepare", "complete"}

TypeOK ==
  /\ kind \in Kinds
  /\ pc \in {"suite", "programs", "block", "wait", "collect", "returned"} \/ Preparing
  /\ vectorSize \in Nat
  /\ doneBarrier \in 0 .. MaxBlocks
  /\ barrierCount \in Int
  /\ cb \in [VectorSizes \X Blocks ->
               {"none", "registered", "verify", "unmap", "count", "signal",
                "release", "over"}]
  /\ cbBarrier \in [VectorSizes \X Blocks -> 0 .. MaxBlocks]
  /\ complete \in [{"calc", "done"} \X Blocks -> BOOLEAN]

\* Blocks to come have no callbacks and no completed events.
FutureIsBlank ==
  \A b \in Blocks :
    b > doneBarrier =>
      /\ ~complete[<<"calc", b>>] /\ ~complete[<<"done", b>>]
      /\ \A v \in VectorSizes : cb[<<v, b>>] = "none"

\* The callbacks of a block cannot start before DoTest lets them.
NotYetStarted ==
  Preparing =>
    /\ doneBarrier \in Blocks
    /\ ~complete[<<"calc", doneBarrier>>] /\ ~complete[<<"done", doneBarrier>>]
    /\ Pending(doneBarrier) \subseteq Sizes
    /\ \A v \in VectorSizes : cb[<<v, doneBarrier>>] \in {"none", "registered"}

\* The barrier is set for all vector sizes before the first registration.
BarrierIsSet ==
  /\ pc \in {"run", "register"} => vectorSize \in Sizes
  /\ pc \in {"split", "init", "write", "run"} => Pending(doneBarrier) = {}
  /\ pc \in {"run", "register", "flush", "prepare", "complete"} =>
       barrierCount = gMaxVectorSize - kind.min

\* During the wait the barrier bounds the callbacks still to come, and once it
\* is complete there are none.
BarrierIsUpperBound ==
  pc = "wait" =>
    /\ doneBarrier \in Blocks
    /\ Cardinality(Pending(doneBarrier)) <= barrierCount
    /\ \A v \in VectorSizes :
         cb[<<v, doneBarrier>>] \in {"signal", "release"} => barrierCount = 0
    /\ complete[<<"done", doneBarrier>>] => barrierCount = 0

\* A callback that runs, or may start, does so during the wait of its block,
\* and it has that block's barrier in its local copy.
InPlace(v, b) ==
  /\ AtWork(v, b) \/ cb[<<v, b>>] = "signal"
       \/ (cb[<<v, b>>] = "registered" /\ complete[<<"calc", b>>])
     => pc = "wait" /\ b = doneBarrier
  /\ AtWork(v, b) \/ cb[<<v, b>>] \in {"signal", "release"} => cbBarrier[<<v, b>>] = b

CallbacksInPlace == \A v \in VectorSizes, b \in Blocks : InPlace(v, b)

\* One callback signals the barrier, and it is not complete before.
OneSignal ==
  \A v \in VectorSizes, b \in Blocks :
    cb[<<v, b>>] = "signal" =>
      /\ ~complete[<<"done", b>>]
      /\ \A w \in VectorSizes : cb[<<w, b>>] \in {"signal", "release"} => w = v

\* The barrier of DoTest and its callbacks, wherever they are.
ConvInv ==
  /\ TypeOK /\ FutureIsBlank /\ NotYetStarted /\ BarrierIsSet
  /\ BarrierIsUpperBound /\ CallbacksInPlace /\ OneSignal

-----------------------------------------------------------------------------
(* The references to the events, on top of ConvInv.                        *)

\* The callback that has taken the barrier of block b to zero holds a reference
\* to its event.
Holds(v, b)  == cb[<<v, b>>] \in {"signal", "release"}
SomeHolds(b) == \E v \in VectorSizes : Holds(v, b)

\* References DoTest has taken for callbacks that have not given them back.
Owed == IF SomeHolds(doneBarrier) \/ (pc = "wait" /\ barrierCount > 0) THEN 1 ELSE 0

\* At least n references, and no more unless a call failed.
AtLeast(e, n) == refs[<<e, doneBarrier>>] >= n /\ (~mishap => refs[<<e, doneBarrier>>] = n)

OneHolder ==
  \A v, w \in VectorSizes, b \in Blocks : Holds(v, b) /\ Holds(w, b) => v = w

HolderHasReference ==
  \A b \in Blocks : SomeHolds(b) => refs[<<"done", b>>] >= 1

\* calcReferenceValues: one reference per registration still to come, and one of
\* DoTest.
CalcReferences ==
  /\ pc \in {"split", "init", "write", "run"} =>
       refs[<<"calc", doneBarrier>>] = gMaxVectorSize - kind.min + 1
  /\ pc = "register" => AtLeast("calc", gMaxVectorSize - vectorSize + 1)
  /\ pc \in {"flush", "prepare", "complete", "wait", "collect"} => AtLeast("calc", 1)

\* doneBarrier: one reference of DoTest, one of the last callback.
DoneReferences ==
  /\ Preparing => refs[<<"done", doneBarrier>>] = 2
  /\ pc \in {"wait", "collect"} => AtLeast("done", 1 + Owed)

\* A block that is over keeps none but the last callback's.
BlockIsOver ==
  \/ pc = "returned" /\ ~option.gSkipTesting
  \/ pc = "block" /\ i > 0

ReferencesSettled ==
  BlockIsOver /\ ~mishap =>
    /\ doneBarrier \in Blocks
    /\ refs[<<"calc", doneBarrier>>] = 0
    /\ refs[<<"done", doneBarrier>>] = Owed

\* At every moment the two events of the block have the references that the
\* clRetainEvent and clReleaseEvent calls still to come make up for.
RefsInv ==
  /\ refs \in [{"calc", "done"} \X Blocks -> Nat] /\ i \in Nat
  /\ pc = "programs" => i = 0
  /\ pc \in {"wait", "collect"} => doneBarrier \in Blocks
  /\ OneHolder /\ HolderHasReference /\ CalcReferences /\ DoneReferences
  /\ ReferencesSettled

-----------------------------------------------------------------------------
(* The data: from the inputs to the verdict, on top of ConvInv.            *)

\* The jobs of the pool cover the block, and a job counted as finished is.
JobsInOrder ==
  /\ i \in Nat /\ i % BlockCount = 0
  /\ phase \in [{Main} -> {"idle", "working", "returned"}]
  /\ jobCount \in [{Main} -> Nat] /\ jobResult \in [{Main} -> Int]
  /\ started \in [{Main} -> SUBSET Nat] /\ running \in [{Main} -> SUBSET Nat]
  /\ raised = [c \in {Main} |-> {}]
  /\ running[Main] \subseteq started[Main]
  /\ phase[Main] = "working" <=> pc \in {"init", "prepare"}
  /\ IF pc \in {"init", "prepare"} THEN jobCount[Main] = chunks ELSE running[Main] = {}
  /\ pc \notin {"init", "prepare", "write", "complete"} => started[Main] = {}

\* So does their arithmetic: no element is left over.
BlockInOrder ==
  /\ count \in 0 .. BlockCount
  /\ threads \in ThreadCounts
  /\ pc = "split" => count \in PowersOfTwo
  /\ (Preparing /\ pc # "split") \/ pc \in {"wait", "collect"} =>
       chunks \in Nat \ {0} /\ size \in Nat \ {0} /\ chunks * size = count

\* PrepareReference has been there.
Referenced(k) ==
  /\ gRef[k] = Reference(kind, gIn[k])
  /\ ~kind.same => (gAllowZ[k] <=> gIn[k] \in kind.denormals)

ReferencesInOrder ==
  /\ pc = "prepare" =>
       \A j \in started[Main] \ running[Main], k \in Elements :
         k \in Slice(j) => Referenced(k)
  /\ pc \in {"complete", "wait", "collect"} => \A k \in 0 .. count - 1 : Referenced(k)

\* The device has converted what is still in gIn.
Converting == pc \in {"run", "register", "flush", "prepare", "complete", "wait", "collect"}

InputsInOrder ==
  /\ gIn \in [Elements -> Int] /\ gInBuffer \in [Elements -> Int]
  /\ Converting => \A k \in 0 .. count - 1 : gInBuffer[k] = gIn[k]

\* What the device did wrong for vector size v shows in its output.
Shown(v) ==
  \A k \in 0 .. count - 1 :
    <<v, k>> \in wrong <=> ~Passes(kind, gAllowZ[k], gInBuffer[k], mapped[v][k])

\* r is the place of the first wrong element plus one, zero if there is none.
Judged(v, r) ==
  LET bad == {k \in Elements : <<v, k>> \in wrong}
  IN  IF bad = {} THEN r = 0 ELSE r - 1 \in bad /\ \A k \in bad : r - 1 <= k

OutputsInOrder ==
  /\ mapped \in [VectorSizes -> [Elements -> Int]]
  /\ result \in [VectorSizes -> Int]
  /\ wrong \subseteq Sizes \X Elements
  /\ ~mishap =>
       /\ Converting => \A p \in wrong : p[2] < count
       /\ pc \in {"suite", "programs", "block", "split", "init", "write"} => wrong = {}
       /\ pc = "run" => /\ \A p \in wrong : p[1] < vectorSize
                        /\ \A v \in Sizes : v < vectorSize => Shown(v)
       /\ pc \in {"register", "flush", "prepare", "complete"} => \A v \in Sizes : Shown(v)

\* No callback is missing unless something failed.
CallbacksInOrder ==
  ~mishap =>
    /\ pc = "register" =>
         \A v \in Sizes : v < vectorSize => cb[<<v, doneBarrier>>] # "none"
    /\ pc \in {"flush", "prepare", "complete", "wait", "collect"} =>
         \A v \in Sizes : cb[<<v, doneBarrier>>] # "none"

\* During the wait an output is still there or has been judged; at its end all
\* have been judged.
ResultsInOrder ==
  /\ pc \in {"wait", "collect"} => doneBarrier \in Blocks /\ complete[<<"calc", doneBarrier>>]
  /\ pc \in {"wait", "collect"} /\ ~mishap =>
       \A v \in Sizes :
         IF cb[<<v, doneBarrier>>] \in {"registered", "verify"}
         THEN Shown(v) ELSE Judged(v, result[v])

\* A test that is over has given the verdict.
VerdictGiven ==
  pc = "returned" /\ ~mishap =>
    IF wrong = {} THEN ret = 0
    ELSE ret - 1 \in FirstWrong /\ \A k \in FirstWrong : ret - 1 <= k

\* Whatever failed is in gFailCount, but the timing of a test that is over.
FailuresCounted == ret # 0 \/ mishap => gFailCount \/ (pc = "returned" /\ TimingFailed)

\* From InitData to the return of DoTest every buffer holds what its next reader
\* takes it for.
DataInv ==
  /\ JobsInOrder /\ BlockInOrder /\ ReferencesInOrder /\ InputsInOrder
  /\ OutputsInOrder /\ CallbacksInOrder /\ ResultsInOrder /\ VerdictGiven
=============================================================================
