-------------------------- MODULE ConversionProofs --------------------------
(***************************************************************************)
(* DoTest's frame outlives the callbacks that use it: ConvInv is an        *)
(* invariant of ConversionTest, and WorkInsideTheWait follows, for any     *)
(* number of vector sizes, threads, blocks and conversions and whatever    *)
(* calls fail, but clWaitForEvents: DoTest returns when that one fails,    *)
(* with its callbacks under way.                                           *)
(*                                                                         *)
(* On top of it, nobody uses an event without a reference (RefsInv), and   *)
(* what check_result reads is what PrepareReference and the kernel wrote   *)
(* for the block (DataInv), so the verdict of DoTest is right.  The        *)
(* verdict also needs that clFinish does not fail: the timing runs do not  *)
(* count that.                                                             *)
(***************************************************************************)
EXTENDS ConversionInv, FiniteSetTheorems, WellFoundedInduction, TLAPS

\* All that ConvInv speaks of, but pc.
rest == <<kind, vectorSize, doneBarrier, barrierCount, cb, cbBarrier, complete>>

LEMMA SizesFacts ==
  ASSUME TypeOK
  PROVE  /\ kind.min \in {0, 1} /\ gMaxVectorSize \in Nat /\ kind.min < gMaxVectorSize
         /\ IsFiniteSet(Sizes) /\ Cardinality(Sizes) = gMaxVectorSize - kind.min
         /\ Sizes \subseteq VectorSizes /\ IsFiniteSet(VectorSizes)
<1>1. kind \in KindType
  BY ConversionAssumption DEF TypeOK
<1>2. kind.min \in {0, 1} /\ gMaxVectorSize \in Nat /\ kind.min < gMaxVectorSize
  BY <1>1, ConversionAssumption DEF KindType
<1>3. IsFiniteSet(Sizes) /\ Cardinality(Sizes) = gMaxVectorSize - kind.min
  <2>1. kind.min \in Int /\ gMaxVectorSize - 1 \in Int /\ kind.min <= gMaxVectorSize - 1
    BY <1>2
  <2>2. /\ IsFiniteSet(kind.min .. gMaxVectorSize - 1)
        /\ Cardinality(kind.min .. gMaxVectorSize - 1) = (gMaxVectorSize - 1) - kind.min + 1
    BY <2>1, FS_Interval
  <2> QED
    BY <1>2, <2>2 DEF Sizes
<1>4. IsFiniteSet(VectorSizes)
  BY <1>2, FS_Interval DEF VectorSizes
<1> QED
  BY <1>2, <1>3, <1>4 DEF Sizes, VectorSizes

LEMMA PendingFinite ==
  ASSUME TypeOK, NEW b
  PROVE  IsFiniteSet(Pending(b)) /\ Cardinality(Pending(b)) \in Nat
<1>1. Pending(b) \in SUBSET VectorSizes
  BY DEF Pending
<1> QED
  BY <1>1, SizesFacts, FS_Subset, FS_CardinalityType

LEMMA ConvInit == Init => ConvInv
<1> SUFFICES ASSUME Init PROVE ConvInv
  OBVIOUS
<1> USE DEF Init
<1>1. TypeOK
  BY ConversionAssumption DEF TypeOK
<1>2. FutureIsBlank /\ NotYetStarted
  BY DEF FutureIsBlank, NotYetStarted, Preparing
<1>3. BarrierIsSet /\ BarrierIsUpperBound
  BY DEF BarrierIsSet, BarrierIsUpperBound
<1>4. CallbacksInPlace /\ OneSignal
  BY DEF CallbacksInPlace, InPlace, AtWork, OneSignal
<1> QED
  BY <1>1, <1>2, <1>3, <1>4 DEF ConvInv

-----------------------------------------------------------------------------
\* Steps of DoTest that change nothing but its place.  It leaves the wait only
\* with the barrier complete, and then no callback is left.
LEMMA QuietMove ==
  ASSUME ConvInv, UNCHANGED rest,
         \/ pc' = pc
         \/ pc \in {"programs", "block", "collect"} /\ pc' \in {"block", "returned"}
         \/ Preparing /\ pc' = "returned"
         \/ <<pc, pc'>> \in {<<"split", "init">>, <<"init", "write">>, <<"run", "flush">>,
                             <<"flush", "prepare">>, <<"prepare", "complete">>}
         \/ pc = "wait" /\ pc' = "collect" /\ complete[<<"done", doneBarrier>>]
  PROVE  ConvInv'
<1> USE DEF ConvInv, rest
<1>1. TypeOK'
  BY DEF TypeOK, Preparing
<1>2. FutureIsBlank'
  BY DEF FutureIsBlank
<1>3. \A b : Pending(b)' = Pending(b)
  BY DEF Pending
<1>4. NotYetStarted'
  BY <1>3 DEF NotYetStarted, Preparing, Sizes
<1>5. BarrierIsSet'
  BY <1>3 DEF BarrierIsSet, Sizes
<1>6. BarrierIsUpperBound'
  BY <1>3 DEF BarrierIsUpperBound, Preparing
<1>7. pc' = pc \/ \A v \in VectorSizes, b \in Blocks :
        ~(AtWork(v, b) \/ cb[<<v, b>>] = "signal"
            \/ (cb[<<v, b>>] = "registered" /\ complete[<<"calc", b>>]))
  <2>1. CASE pc # "wait"
    BY <2>1 DEF CallbacksInPlace, InPlace
  <2>2. CASE pc = "wait" /\ complete[<<"done", doneBarrier>>]
    <3>1. barrierCount = 0 /\ Cardinality(Pending(doneBarrier)) <= barrierCount
      BY <2>2 DEF BarrierIsUpperBound
    <3>2. Pending(doneBarrier) = {}
      BY <3>1, PendingFinite, FS_EmptySet
    <3> QED
      BY <2>2, <3>2 DEF CallbacksInPlace, InPlace, OneSignal, Pending, AtWork
  <2> QED
    BY <2>1, <2>2 DEF Preparing
<1>8. CallbacksInPlace' /\ OneSignal'
  BY <1>7 DEF CallbacksInPlace, InPlace, AtWork, OneSignal
<1> QED
  BY <1>1, <1>2, <1>4, <1>5, <1>6, <1>8

\* The actions of DoTest, the pool and the end that are such steps.
LEMMA QuietSteps ==
  ASSUME ConvInv, "wait" \notin Faults,
         \/ MakePrograms \/ SplitBlock \/ PoolReturns \/ Flush \/ WaitForBarrier
         \/ CollectResults \/ FinishTest \/ JobStep \/ Terminated
  PROVE  ConvInv'
<1>1. CASE MakePrograms
  BY <1>1, QuietMove DEF MakePrograms, Return, Abort, rest, suite, calls, events
<1>2. CASE SplitBlock
  BY <1>2, QuietMove DEF SplitBlock, rest, suite, calls, events
<1>3. CASE PoolReturns
  BY <1>3, QuietMove DEF PoolReturns, rest, suite, calls, events
<1>4. CASE Flush
  BY <1>4, QuietMove DEF Flush, Preparing, Return, Abort, rest, suite, calls, events
<1>5. CASE WaitForBarrier
  BY <1>5, QuietMove DEF WaitForBarrier, Outcomes, MayFail, rest, suite, calls, events
<1>6. CASE CollectResults
  BY <1>6, QuietMove DEF CollectResults, Return, Abort, rest, suite, calls
<1>7. CASE FinishTest
  BY <1>7, QuietMove DEF FinishTest, Return, rest, suite, calls, events
<1>8. CASE JobStep
  <2>1. UNCHANGED <<rest, pc>>
    BY <1>8 DEF JobStep, StartJob, InitData, PrepareReference, rest, suite, calls, events
  <2> QED
    BY <2>1, QuietMove
<1>9. CASE Terminated
  <2>1. UNCHANGED <<rest, pc>>
    BY <1>9 DEF Terminated, vars, rest, suite, calls, events
  <2> QED
    BY <2>1, QuietMove
<1> QED
  BY <1>1, <1>2, <1>3, <1>4, <1>5, <1>6, <1>7, <1>8, <1>9

-----------------------------------------------------------------------------
(* The steps of DoTest that set a block up.                                *)

LEMMA NextTestKeeps ==
  ASSUME ConvInv, NEW k \in Kinds, NextTest(k)
  PROVE  ConvInv'
<1> USE DEF ConvInv, NextTest, events, calls
<1>1. TypeOK'
  BY DEF TypeOK
<1>2. FutureIsBlank'
  BY DEF FutureIsBlank
<1>3. NotYetStarted' /\ BarrierIsSet' /\ BarrierIsUpperBound'
  BY DEF NotYetStarted, Preparing, BarrierIsSet, BarrierIsUpperBound
<1>4. CallbacksInPlace' /\ OneSignal'
  BY DEF CallbacksInPlace, InPlace, AtWork, OneSignal
<1> QED
  BY <1>1, <1>2, <1>3, <1>4

LEMMA CreateEventsKeeps ==
  ASSUME ConvInv, NEW b \in Blocks, CreateEvents(b)
  PROVE  ConvInv'
<1> USE DEF ConvInv, CreateEvents, suite, calls
<1>0. pc' \in {"split", "returned"}
  BY DEF Abort, Return
<1>1. TypeOK'
  BY <1>0 DEF TypeOK, Preparing, Blocks
<1>2. FutureIsBlank'
  BY DEF FutureIsBlank, TypeOK, Blocks
<1>3. /\ ~complete[<<"calc", b>>] /\ ~complete[<<"done", b>>]
      /\ \A v \in VectorSizes : cb[<<v, b>>] = "none"
  BY DEF FutureIsBlank, TypeOK, Blocks
<1>4. Pending(b)' = {}
  BY <1>3 DEF Pending
<1>5. NotYetStarted'
  BY <1>3, <1>4 DEF NotYetStarted
<1>6. BarrierIsSet' /\ BarrierIsUpperBound'
  BY <1>0, <1>4 DEF BarrierIsSet, BarrierIsUpperBound
<1>7. CallbacksInPlace' /\ OneSignal'
  BY DEF CallbacksInPlace, InPlace, AtWork, OneSignal
<1> QED
  BY <1>1, <1>2, <1>5, <1>6, <1>7

LEMMA WriteKeeps ==
  ASSUME ConvInv, WriteInputBuffer
  PROVE  ConvInv'
<1> USE DEF WriteInputBuffer, suite, events, calls
<1>1. CASE pc' = "returned"
  BY <1>1, QuietMove DEF Preparing, rest
<1>2. CASE pc' # "returned"
  <2> USE DEF ConvInv
  <2>1. pc' = "run" /\ barrierCount' = gMaxVectorSize - kind.min /\ vectorSize' = kind.min
    BY <1>2 DEF Abort, Return, BarrierStart
  <2>2. TypeOK'
    BY <2>1, SizesFacts DEF TypeOK, Preparing
  <2>3. FutureIsBlank'
    BY DEF FutureIsBlank
  <2>4. \A b : Pending(b)' = Pending(b)
    BY DEF Pending
  <2>5. NotYetStarted'
    BY <2>4 DEF NotYetStarted, Preparing, Sizes
  <2>6. BarrierIsSet' /\ BarrierIsUpperBound'
    BY <2>1, <2>4, SizesFacts DEF BarrierIsSet, BarrierIsUpperBound, Sizes
  <2>7. CallbacksInPlace' /\ OneSignal'
    BY <2>1 DEF CallbacksInPlace, InPlace, AtWork, OneSignal
  <2> QED
    BY <2>2, <2>3, <2>5, <2>6, <2>7
<1> QED
  BY <1>1, <1>2

LEMMA RunAndMapKeeps ==
  ASSUME ConvInv, NEW bad, NEW v \in VectorSizes, RunAndMap(bad, v)
  PROVE  ConvInv'
<1> USE DEF RunAndMap, suite, events, calls
<1>1. CASE pc' = "flush"
  BY <1>1, QuietMove DEF rest
<1>2. CASE pc' # "flush"
  <2> USE DEF ConvInv
  <2>1. /\ vectorSize' = IF v + 1 < gMaxVectorSize THEN v + 1 ELSE kind.min
        /\ pc' \in {"run", "register"} /\ pc = "run" /\ v = vectorSize
    BY <1>2
  <2>2. vectorSize' \in Sizes' /\ vectorSize' \in Nat
    BY <2>1, SizesFacts DEF BarrierIsSet, Sizes
  <2>3. TypeOK'
    BY <2>1, <2>2 DEF TypeOK, Preparing
  <2>4. FutureIsBlank'
    BY DEF FutureIsBlank
  <2>5. \A b : Pending(b)' = Pending(b)
    BY DEF Pending
  <2>6. NotYetStarted'
    BY <2>5 DEF NotYetStarted, Preparing, Sizes
  <2>7. BarrierIsSet' /\ BarrierIsUpperBound'
    BY <2>1, <2>2, <2>5 DEF BarrierIsSet, BarrierIsUpperBound
  <2>8. CallbacksInPlace' /\ OneSignal'
    BY <2>1 DEF CallbacksInPlace, InPlace, AtWork, OneSignal
  <2> QED
    BY <2>3, <2>4, <2>6, <2>7, <2>8
<1> QED
  BY <1>1, <1>2

LEMMA RegisterKeeps ==
  ASSUME ConvInv, NEW v \in VectorSizes, MapResultValuesComplete(v)
  PROVE  ConvInv'
<1> USE DEF ConvInv, MapResultValuesComplete, suite
<1>0. /\ pc = "register" /\ v = vectorSize /\ vectorSize' = v + 1
      /\ pc' = IF v + 1 < gMaxVectorSize THEN "register" ELSE "flush"
      /\ UNCHANGED <<kind, doneBarrier, barrierCount, cbBarrier, complete>>
      /\ cb' \in {cb, [cb EXCEPT ![<<v, doneBarrier>>] = "registered"]}
  OBVIOUS
<1> USE <1>0
<1>1. doneBarrier \in Blocks /\ v \in Sizes
  BY DEF NotYetStarted, Preparing, BarrierIsSet
<1>2. TypeOK'
  BY <1>1, SizesFacts DEF TypeOK, Preparing, Sizes
<1>3. FutureIsBlank'
  BY <1>1 DEF FutureIsBlank, TypeOK, Blocks
<1>4. Pending(doneBarrier)' \subseteq Pending(doneBarrier) \cup {v}
  BY <1>1 DEF Pending, TypeOK
<1>5. \A w \in VectorSizes : cb[<<w, doneBarrier>>]' \in {"none", "registered"}
  BY <1>1 DEF NotYetStarted, Preparing, TypeOK
<1>6. NotYetStarted'
  BY <1>1, <1>4, <1>5 DEF NotYetStarted, Preparing, Sizes
<1>7. BarrierIsSet' /\ BarrierIsUpperBound'
  BY <1>1, SizesFacts DEF BarrierIsSet, BarrierIsUpperBound, Sizes
<1>8. \A w \in VectorSizes, c \in Blocks :
        cb'[<<w, c>>] = cb[<<w, c>>] \/ (c = doneBarrier /\ cb'[<<w, c>>] = "registered")
  BY <1>1 DEF TypeOK
<1>9. ~complete[<<"calc", doneBarrier>>]
  BY DEF NotYetStarted, Preparing
<1>10. CallbacksInPlace'
  BY <1>8, <1>9 DEF CallbacksInPlace, InPlace, AtWork
<1>11. OneSignal'
  BY <1>8 DEF CallbacksInPlace, InPlace, OneSignal
<1> QED
  BY <1>2, <1>3, <1>6, <1>7, <1>10, <1>11

\* The callbacks are let go: there are no more of them than the barrier counts.
LEMMA SetCalcKeeps ==
  ASSUME ConvInv, SetCalcReferenceValues
  PROVE  ConvInv'
<1> USE DEF SetCalcReferenceValues, suite, calls
<1>1. CASE pc' = "returned"
  BY <1>1, QuietMove DEF Preparing, rest
<1>2. CASE pc' # "returned"
  <2> USE DEF ConvInv
  <2>1. /\ pc = "complete" /\ pc' = "wait"
        /\ complete' = [complete EXCEPT ![<<"calc", doneBarrier>>] = TRUE]
        /\ UNCHANGED <<kind, vectorSize, doneBarrier, barrierCount, cb, cbBarrier>>
    BY <1>2 DEF Abort, Return
  <2> USE <2>1
  <2>2. /\ doneBarrier \in Blocks /\ ~complete[<<"done", doneBarrier>>]
        /\ \A w \in VectorSizes : cb[<<w, doneBarrier>>] \in {"none", "registered"}
        /\ Pending(doneBarrier) \subseteq Sizes
        /\ barrierCount = gMaxVectorSize - kind.min
    BY DEF NotYetStarted, Preparing, BarrierIsSet
  <2>3. TypeOK'
    BY <2>2 DEF TypeOK
  <2>4. FutureIsBlank'
    BY <2>2 DEF FutureIsBlank, TypeOK, Blocks
  <2>5. NotYetStarted' /\ BarrierIsSet'
    BY DEF NotYetStarted, Preparing, BarrierIsSet
  <2>6. Cardinality(Pending(doneBarrier)) <= barrierCount
    BY <2>2, SizesFacts, FS_Subset
  <2>7. Pending(doneBarrier)' = Pending(doneBarrier)
    BY DEF Pending
  <2>8. ~complete'[<<"done", doneBarrier>>]
    BY <2>2 DEF TypeOK
  <2>9. BarrierIsUpperBound'
    BY <2>2, <2>6, <2>7, <2>8 DEF BarrierIsUpperBound
  <2>10. CallbacksInPlace' /\ OneSignal'
    BY <2>2 DEF CallbacksInPlace, InPlace, AtWork, OneSignal, TypeOK
  <2> QED
    BY <2>3, <2>4, <2>5, <2>9, <2>10
<1> QED
  BY <1>1, <1>2

-----------------------------------------------------------------------------
(* The callbacks.                                                          *)

\* Steps of a callback before the barrier, and its giving up.
LEMMA CallbackWorks ==
  ASSUME ConvInv, NEW v \in VectorSizes, NEW b \in Blocks,
         \/ CalcBegin(v, b) \/ CalcVerify(v, b) \/ CalcUnmap(v, b)
  PROVE  ConvInv'
<1> USE DEF ConvInv
<1>0. /\ UNCHANGED <<kind, pc, vectorSize, doneBarrier, barrierCount, complete>>
      /\ AtWork(v, b) \/ (cb[<<v, b>>] = "registered" /\ complete[<<"calc", b>>])
  BY DEF CalcBegin, CalcVerify, CalcUnmap, AtWork, suite, events
<1>1. \E l \in {"verify", "unmap", "count", "over"} : cb' = [cb EXCEPT ![<<v, b>>] = l]
  BY DEF CalcBegin, CalcVerify, CalcUnmap
<1>2. \/ cbBarrier' = cbBarrier /\ AtWork(v, b)
      \/ cbBarrier' = [cbBarrier EXCEPT ![<<v, b>>] = doneBarrier]
  BY DEF CalcBegin, CalcVerify, CalcUnmap, AtWork
<1>3. pc = "wait" /\ b = doneBarrier
  BY <1>0 DEF CallbacksInPlace, InPlace
<1>4. Pending(b)' \subseteq Pending(b)
  BY <1>0, <1>1 DEF Pending, TypeOK, AtWork
<1>5. Cardinality(Pending(b)') <= Cardinality(Pending(b)) /\ Cardinality(Pending(b)') \in Nat
  BY <1>4, PendingFinite, FS_Subset, FS_CardinalityType
<1>6. TypeOK'
  BY <1>0, <1>1, <1>2 DEF TypeOK, Preparing
<1>7. FutureIsBlank'
  BY <1>0, <1>1, <1>3 DEF FutureIsBlank, TypeOK, Blocks
<1>8. NotYetStarted' /\ BarrierIsSet'
  BY <1>0, <1>3 DEF NotYetStarted, Preparing, BarrierIsSet
<1>9. \A w \in VectorSizes : cb'[<<w, b>>] \in {"signal", "release"} =>
                               cb[<<w, b>>] \in {"signal", "release"}
  BY <1>1 DEF TypeOK
<1>10. BarrierIsUpperBound'
  BY <1>0, <1>3, <1>5, <1>9, PendingFinite DEF BarrierIsUpperBound, TypeOK
<1>11. \A w \in VectorSizes, c \in Blocks :
         \/ cb'[<<w, c>>] = cb[<<w, c>>] /\ cbBarrier'[<<w, c>>] = cbBarrier[<<w, c>>]
         \/ w = v /\ c = b /\ cb'[<<w, c>>] \in {"verify", "unmap", "count", "over"}
  BY <1>1, <1>2 DEF TypeOK
<1>12. cbBarrier'[<<v, b>>] = b
  BY <1>2, <1>3 DEF CallbacksInPlace, InPlace, TypeOK
<1>13. CallbacksInPlace'
  <2> SUFFICES ASSUME NEW w \in VectorSizes, NEW c \in Blocks PROVE InPlace(w, c)'
    BY DEF CallbacksInPlace
  <2>1. InPlace(w, c)
    BY DEF CallbacksInPlace
  <2>2. CASE cb'[<<w, c>>] = cb[<<w, c>>] /\ cbBarrier'[<<w, c>>] = cbBarrier[<<w, c>>]
    BY <2>1, <2>2, <1>0, <1>3, <1>11, <1>12 DEF InPlace, AtWork
  <2>3. CASE w = v /\ c = b
    BY <2>3, <1>0, <1>3, <1>11, <1>12 DEF InPlace, AtWork
  <2> QED
    BY <2>2, <2>3, <1>0, <1>3, <1>11, <1>12
<1>14. OneSignal'
  BY <1>0, <1>11 DEF OneSignal
<1> QED
  BY <1>6, <1>7, <1>8, <1>10, <1>13, <1>14

\* The barrier: a callback that passes it is one less to come.
LEMMA CountKeeps ==
  ASSUME ConvInv, NEW v \in VectorSizes, NEW b \in Blocks, CalcCount(v, b)
  PROVE  ConvInv'
<1> USE DEF ConvInv
<1>0. /\ UNCHANGED <<kind, pc, vectorSize, doneBarrier, cbBarrier, complete>>
      /\ cb[<<v, b>>] = "count" /\ barrierCount' = barrierCount - 1
      /\ cb' = [cb EXCEPT ![<<v, b>>] = IF barrierCount = 1 THEN "signal" ELSE "over"]
  BY DEF CalcCount, IsLast, suite, events
<1>1. pc = "wait" /\ b = doneBarrier /\ cbBarrier[<<v, b>>] = b
  BY <1>0 DEF CallbacksInPlace, InPlace, AtWork, OneSignal
<1>2. v \in Pending(b) /\ Pending(b)' = Pending(b) \ {v}
  BY <1>0 DEF Pending, TypeOK
<1>3. /\ Cardinality(Pending(b)') = Cardinality(Pending(b)) - 1
      /\ Cardinality(Pending(b)) \in Nat /\ Cardinality(Pending(b)') \in Nat
  BY <1>2, PendingFinite, FS_RemoveElement, FS_CardinalityType
<1>4. barrierCount \in Int /\ barrierCount >= 1
  BY <1>1, <1>3 DEF BarrierIsUpperBound, TypeOK
<1>5. /\ ~complete[<<"done", b>>]
      /\ \A w \in VectorSizes : cb[<<w, b>>] \notin {"signal", "release"}
  BY <1>1, <1>4 DEF BarrierIsUpperBound, TypeOK
<1>6. TypeOK'
  BY <1>0, <1>4 DEF TypeOK, Preparing
<1>7. FutureIsBlank'
  BY <1>0, <1>1 DEF FutureIsBlank, TypeOK, Blocks
<1>8. NotYetStarted' /\ BarrierIsSet'
  BY <1>0, <1>1 DEF NotYetStarted, Preparing, BarrierIsSet
<1>9. \A w \in VectorSizes :
        cb'[<<w, b>>] \in {"signal", "release"} => w = v /\ barrierCount = 1
  BY <1>0, <1>5 DEF TypeOK
<1>10. Cardinality(Pending(b)') <= barrierCount'
  BY <1>0, <1>1, <1>3, <1>4 DEF BarrierIsUpperBound
<1>11. BarrierIsUpperBound'
  BY <1>0, <1>1, <1>4, <1>5, <1>9, <1>10 DEF BarrierIsUpperBound
<1>12. \A w \in VectorSizes, c \in Blocks :
         cb'[<<w, c>>] = cb[<<w, c>>] \/ (w = v /\ c = b /\ cb'[<<w, c>>] \in {"signal", "over"})
  BY <1>0 DEF TypeOK
<1>13. CallbacksInPlace'
  <2> SUFFICES ASSUME NEW w \in VectorSizes, NEW c \in Blocks PROVE InPlace(w, c)'
    BY DEF CallbacksInPlace
  <2>1. InPlace(w, c)
    BY DEF CallbacksInPlace
  <2>2. CASE cb'[<<w, c>>] = cb[<<w, c>>] /\ cbBarrier'[<<w, c>>] = cbBarrier[<<w, c>>]
    BY <2>1, <2>2, <1>0, <1>1, <1>12 DEF InPlace, AtWork
  <2>3. CASE w = v /\ c = b
    BY <2>3, <1>0, <1>1, <1>12 DEF InPlace, AtWork
  <2> QED
    BY <2>2, <2>3, <1>0, <1>1, <1>12
<1>14. OneSignal'
  BY <1>0, <1>5, <1>9, <1>12 DEF OneSignal
<1> QED
  BY <1>6, <1>7, <1>8, <1>11, <1>13, <1>14

LEMMA SignalKeeps ==
  ASSUME ConvInv, NEW v \in VectorSizes, NEW b \in Blocks, CalcSignal(v, b)
  PROVE  ConvInv'
<1> USE DEF ConvInv
<1>1. pc = "wait" /\ b = doneBarrier /\ cb[<<v, b>>] = "signal" /\ cbBarrier[<<v, b>>] = b
  BY DEF CalcSignal, CallbacksInPlace, InPlace
<1>2. PICK ok \in BOOLEAN :
        /\ complete' = [complete EXCEPT ![<<"done", b>>] = complete[<<"done", b>>] \/ ok]
        /\ cb' = [cb EXCEPT ![<<v, b>>] = IF ok THEN "release" ELSE "over"]
  BY <1>1 DEF CalcSignal, Outcomes, BarrierEvent
<1>3. UNCHANGED <<kind, pc, vectorSize, doneBarrier, barrierCount, cbBarrier>>
  BY DEF CalcSignal, suite
<1>4. /\ barrierCount = 0
      /\ \A w \in VectorSizes : cb[<<w, b>>] \in {"signal", "release"} => w = v
  BY <1>1 DEF BarrierIsUpperBound, OneSignal
<1>5. TypeOK'
  BY <1>2, <1>3 DEF TypeOK, Preparing
<1>6. FutureIsBlank'
  BY <1>1, <1>2, <1>3 DEF FutureIsBlank, TypeOK, Blocks
<1>7. NotYetStarted' /\ BarrierIsSet'
  BY <1>1, <1>3 DEF NotYetStarted, Preparing, BarrierIsSet
<1>8. Pending(b)' = Pending(b)
  BY <1>1, <1>2 DEF Pending, TypeOK
<1>9. BarrierIsUpperBound'
  BY <1>1, <1>2, <1>3, <1>4, <1>8 DEF BarrierIsUpperBound, TypeOK
<1>11. \A w \in VectorSizes, c \in Blocks :
         cb'[<<w, c>>] = cb[<<w, c>>] \/ (w = v /\ c = b /\ cb'[<<w, c>>] \in {"release", "over"})
  BY <1>2 DEF TypeOK
<1>12. \A c \in Blocks : complete'[<<"calc", c>>] = complete[<<"calc", c>>]
  BY <1>2 DEF TypeOK
<1>13. CallbacksInPlace'
  <2> SUFFICES ASSUME NEW w \in VectorSizes, NEW c \in Blocks PROVE InPlace(w, c)'
    BY DEF CallbacksInPlace
  <2>1. InPlace(w, c)
    BY DEF CallbacksInPlace
  <2>2. CASE cb'[<<w, c>>] = cb[<<w, c>>] /\ cbBarrier'[<<w, c>>] = cbBarrier[<<w, c>>]
    BY <2>1, <2>2, <1>1, <1>3, <1>11, <1>12 DEF InPlace, AtWork
  <2>3. CASE w = v /\ c = b
    BY <2>3, <1>1, <1>3, <1>11, <1>12 DEF InPlace, AtWork
  <2> QED
    BY <2>2, <2>3, <1>1, <1>3, <1>11, <1>12
<1>14. ASSUME NEW w \in VectorSizes, NEW c \in Blocks PROVE cb'[<<w, c>>] # "signal"
  <2>1. SUFFICES ASSUME cb'[<<w, c>>] = "signal" PROVE FALSE
    OBVIOUS
  <2>2. cb[<<w, c>>] = "signal" /\ InPlace(w, c)
    BY <2>1, <1>11 DEF CallbacksInPlace
  <2>3. c = b /\ w = v
    BY <2>2, <1>1, <1>4 DEF InPlace
  <2> QED
    BY <2>1, <2>3, <1>2 DEF TypeOK
<1> QED
  BY <1>5, <1>6, <1>7, <1>9, <1>13, <1>14 DEF OneSignal

LEMMA ReleaseKeeps ==
  ASSUME ConvInv, NEW v \in VectorSizes, NEW b \in Blocks, CalcRelease(v, b)
  PROVE  ConvInv'
<1> USE DEF ConvInv
<1>1. /\ cb[<<v, b>>] = "release" /\ cb' = [cb EXCEPT ![<<v, b>>] = "over"]
      /\ UNCHANGED <<kind, pc, vectorSize, doneBarrier, barrierCount, cbBarrier, complete>>
  BY DEF CalcRelease, suite
<1> USE <1>1
<1>2. TypeOK'
  BY DEF TypeOK, Preparing
<1>3. b <= doneBarrier
  <2>1. ~(b > doneBarrier)
    BY DEF FutureIsBlank
  <2> QED
    BY <2>1, ConversionAssumption DEF TypeOK, Blocks
<1>4. FutureIsBlank'
  BY <1>3 DEF FutureIsBlank, TypeOK, Blocks
<1>5. \A c \in Blocks : Pending(c)' = Pending(c)
  BY DEF Pending, TypeOK
<1>6. Preparing => b # doneBarrier
  BY DEF NotYetStarted
<1>7. NotYetStarted'
  BY <1>5, <1>6 DEF NotYetStarted, Preparing, Sizes, TypeOK
<1>8. BarrierIsSet'
  BY <1>5 DEF BarrierIsSet, Sizes, NotYetStarted, Preparing
<1>9. BarrierIsUpperBound'
  BY <1>5 DEF BarrierIsUpperBound, TypeOK
<1>10. \A w \in VectorSizes, c \in Blocks :
         cb'[<<w, c>>] = cb[<<w, c>>] \/ cb'[<<w, c>>] = "over"
  BY DEF TypeOK
<1>11. CallbacksInPlace' /\ OneSignal'
  BY <1>10 DEF CallbacksInPlace, InPlace, AtWork, OneSignal
<1> QED
  BY <1>2, <1>4, <1>7, <1>8, <1>9, <1>11

-----------------------------------------------------------------------------
LEMMA ConvNext ==
  ASSUME ConvInv, "wait" \notin Faults, [Next]_vars
  PROVE  ConvInv'
<1>1. CASE UNCHANGED vars
  <2>1. UNCHANGED <<rest, pc>>
    BY <1>1 DEF vars, rest, suite, calls, events
  <2> QED
    BY <2>1, QuietMove
<1>2. CASE \E k \in Kinds : NextTest(k)
  BY <1>2, NextTestKeeps
<1>3. CASE DoTestStep
  BY <1>3, QuietSteps, CreateEventsKeeps, WriteKeeps, RunAndMapKeeps, RegisterKeeps,
     SetCalcKeeps DEF DoTestStep
<1>4. CASE JobStep \/ Terminated
  BY <1>4, QuietSteps
<1>5. CASE \E v \in VectorSizes, b \in Blocks : Callback(v, b)
  BY <1>5, CallbackWorks, CountKeeps, SignalKeeps, ReleaseKeeps DEF Callback
<1> QED
  BY <1>1, <1>2, <1>3, <1>4, <1>5 DEF Next

\* The barrier bounds the callbacks of a block that have not passed it, in every
\* behaviour in which clWaitForEvents does not fail.
THEOREM BarrierHolds ==
  ASSUME "wait" \notin Faults
  PROVE  Spec => []ConvInv
<1>1. ConvInv /\ [Next]_vars => ConvInv'
  BY ConvNext
<1> QED
  BY <1>1, ConvInit, PTL DEF Spec

\* No callback uses DoTest's frame, the reference values or the mapped output
\* but during the wait of its own block.
THEOREM FrameOutlivesCallbacks ==
  ASSUME "wait" \notin Faults
  PROVE  Spec => []WorkInsideTheWait
<1>1. ConvInv => WorkInsideTheWait
  BY DEF ConvInv, CallbacksInPlace, InPlace, WorkInsideTheWait
<1> QED
  BY <1>1, BarrierHolds, PTL

-----------------------------------------------------------------------------
(* The references to the events.                                           *)

LEMMA RefsInit == Init => RefsInv
<1> SUFFICES ASSUME Init PROVE RefsInv
  OBVIOUS
<1> USE DEF Init
<1>1. refs \in [{"calc", "done"} \X Blocks -> Nat] /\ i \in Nat
  OBVIOUS
<1>2. OneHolder /\ HolderHasReference
  BY DEF OneHolder, HolderHasReference, SomeHolds, Holds
<1>3. CalcReferences /\ DoneReferences /\ ReferencesSettled
  BY DEF CalcReferences, DoneReferences, ReferencesSettled, BlockIsOver, Preparing
<1> QED
  BY <1>1, <1>2, <1>3 DEF RefsInv

\* Steps that leave references and callbacks alone.
LEMMA RefsQuiet ==
  ASSUME ConvInv, RefsInv, mishap => mishap',
         UNCHANGED <<kind, option, i, doneBarrier, barrierCount, cb, refs>>,
         \/ pc' = pc /\ (vectorSize' = vectorSize \/ pc = "run")
         \/ pc' = "returned" /\ (mishap' \/ option.gSkipTesting)
         \/ pc = "programs" /\ pc' = "block"
         \/ pc = "block" /\ pc' = "returned" /\ i >= kind.lastCase
         \/ <<pc, pc'>> \in {<<"split", "init">>, <<"init", "write">>, <<"write", "run">>,
                             <<"flush", "prepare">>, <<"prepare", "complete">>,
                             <<"complete", "wait">>}
         \/ pc = "run" /\ pc' = "register" /\ vectorSize' = kind.min
         \/ pc = "run" /\ pc' = "flush" /\ mishap'
         \/ pc = "wait" /\ pc' = "collect" /\ complete[<<"done", doneBarrier>>]
  PROVE  RefsInv'
<1> USE DEF RefsInv
<1>1. /\ (refs \in [{"calc", "done"} \X Blocks -> Nat] /\ i \in Nat)'
      /\ (pc = "programs" => i = 0)'
      /\ OneHolder' /\ HolderHasReference'
  BY DEF OneHolder, HolderHasReference, SomeHolds, Holds, Preparing
<1>2. /\ kind.min \in {0, 1} /\ gMaxVectorSize \in Nat /\ kind.min < gMaxVectorSize
      /\ kind.lastCase \in Nat \ {0}
  BY SizesFacts, ConversionAssumption DEF ConvInv, TypeOK, KindType
<1>3. Preparing => doneBarrier \in Blocks
  BY DEF ConvInv, NotYetStarted
<1>4. (pc \in {"wait", "collect"} => doneBarrier \in Blocks)'
  BY <1>3 DEF Preparing
<1>5. CalcReferences'
  BY <1>2, <1>3 DEF CalcReferences, AtLeast, Preparing
<1>6. pc = "complete" => barrierCount = gMaxVectorSize - kind.min
  BY DEF ConvInv, BarrierIsSet
<1>7. pc = "wait" /\ complete[<<"done", doneBarrier>>] => barrierCount = 0
  BY DEF ConvInv, BarrierIsUpperBound
<1>8. SomeHolds(doneBarrier)' <=> SomeHolds(doneBarrier)
  BY DEF SomeHolds, Holds
<1>9. DoneReferences'
  BY <1>2, <1>3, <1>6, <1>7, <1>8 DEF DoneReferences, AtLeast, Owed, Preparing
<1>10. ReferencesSettled'
  BY <1>2, <1>8 DEF ReferencesSettled, BlockIsOver, Owed
<1> QED
  BY <1>1, <1>4, <1>5, <1>9, <1>10

LEMMA RefsQuietSteps ==
  ASSUME ConvInv, RefsInv, "wait" \notin Faults,
         \/ MakePrograms \/ SplitBlock \/ PoolReturns \/ WriteInputBuffer \/ Flush
         \/ SetCalcReferenceValues \/ WaitForBarrier \/ FinishTest \/ JobStep \/ Terminated
         \/ UNCHANGED vars
  PROVE  RefsInv'
<1> USE DEF Return, Abort, suite, frame, events, calls
<1>1. CASE MakePrograms
  BY <1>1, RefsQuiet DEF MakePrograms
<1>2. CASE SplitBlock
  BY <1>2, RefsQuiet DEF SplitBlock
<1>3. CASE PoolReturns
  BY <1>3, RefsQuiet DEF PoolReturns
<1>4. CASE WriteInputBuffer
  <2>1. /\ UNCHANGED <<kind, option, i, doneBarrier, cb, refs>> /\ pc = "write"
        /\ \/ pc' = "returned" /\ mishap' /\ barrierCount' = barrierCount
           \/ pc' = "run" /\ mishap' = mishap
    BY <1>4 DEF WriteInputBuffer
  <2>2. CASE pc' = "returned"
    BY <2>1, <2>2, RefsQuiet
  <2>3. CASE pc' = "run"
    <3> USE DEF RefsInv
    <3>1. OneHolder' /\ HolderHasReference'
      BY <2>1 DEF OneHolder, HolderHasReference, SomeHolds, Holds
    <3>2. CalcReferences' /\ DoneReferences' /\ ReferencesSettled'
      BY <2>1, <2>3 DEF CalcReferences, DoneReferences, Preparing, ReferencesSettled, BlockIsOver
    <3> QED
      BY <2>1, <2>3, <3>1, <3>2
  <2> QED
    BY <2>1, <2>2, <2>3
<1>5. CASE Flush
  BY <1>5, RefsQuiet DEF Flush
<1>6. CASE SetCalcReferenceValues
  BY <1>6, RefsQuiet DEF SetCalcReferenceValues
<1>7. CASE WaitForBarrier
  BY <1>7, RefsQuiet DEF WaitForBarrier, Outcomes, MayFail
<1>8. CASE FinishTest
  BY <1>8, RefsQuiet DEF FinishTest
<1>9. CASE JobStep
  <2>1. UNCHANGED <<kind, option, i, doneBarrier, barrierCount, cb, refs, pc, vectorSize, mishap>>
    BY <1>9 DEF JobStep, StartJob, InitData, PrepareReference
  <2> QED
    BY <2>1, RefsQuiet
<1>10. CASE Terminated \/ UNCHANGED vars
  <2>1. UNCHANGED <<kind, option, i, doneBarrier, barrierCount, cb, refs, pc, vectorSize, mishap>>
    BY <1>10 DEF Terminated, vars
  <2> QED
    BY <2>1, RefsQuiet
<1> QED
  BY <1>1, <1>2, <1>3, <1>4, <1>5, <1>6, <1>7, <1>8, <1>9, <1>10

LEMMA RefsRunAndMap ==
  ASSUME ConvInv, RefsInv, NEW bad, NEW v \in VectorSizes, RunAndMap(bad, v)
  PROVE  RefsInv'
<1>1. /\ UNCHANGED <<kind, option, i, doneBarrier, barrierCount, cb, refs>> /\ pc = "run"
      /\ \/ pc' = "run" /\ mishap' = mishap
         \/ pc' = "register" /\ vectorSize' = kind.min /\ mishap' = mishap
         \/ pc' = "flush" /\ mishap'
  BY DEF RunAndMap, suite, frame, events, calls
<1> QED
  BY <1>1, RefsQuiet

LEMMA RefsNextTest ==
  ASSUME RefsInv, NEW k \in Kinds, NextTest(k)
  PROVE  RefsInv'
<1> USE DEF RefsInv, NextTest, events, calls
<1>1. OneHolder' /\ HolderHasReference'
  BY DEF OneHolder, HolderHasReference, SomeHolds, Holds
<1>2. CalcReferences' /\ DoneReferences' /\ ReferencesSettled'
  BY DEF CalcReferences, DoneReferences, Preparing, ReferencesSettled, BlockIsOver
<1> QED
  BY <1>1, <1>2

LEMMA RefsCreateEvents ==
  ASSUME ConvInv, RefsInv, NEW b \in Blocks, CreateEvents(b)
  PROVE  RefsInv'
<1> USE DEF RefsInv
<1>1. PICK made \in EventReferences :
        /\ refs' = [refs EXCEPT ![<<"calc", b>>] = made[1], ![<<"done", b>>] = made[2]]
        /\ IF made[2] = 2 THEN pc' = "split" ELSE pc' = "returned" /\ mishap'
  BY DEF CreateEvents, Abort, Return
<1>2. /\ UNCHANGED <<kind, option, i, cb>> /\ doneBarrier' = b /\ b = doneBarrier + 1
  BY DEF CreateEvents, suite, calls
<1>3. /\ kind.min \in {0, 1} /\ gMaxVectorSize \in Nat /\ kind.min < gMaxVectorSize
      /\ Cardinality(Sizes) = gMaxVectorSize - kind.min
  BY SizesFacts DEF ConvInv
<1>4. /\ made[1] \in Nat /\ made[2] \in Nat
      /\ made[2] = 2 => made[1] = gMaxVectorSize - kind.min + 1
  BY <1>3 DEF EventReferences
<1>5. \A v \in VectorSizes : cb[<<v, b>>] = "none"
  <2>1. b > doneBarrier
    BY <1>2 DEF ConvInv, TypeOK
  <2> QED
    BY <2>1 DEF ConvInv, FutureIsBlank
<1>6. /\ refs' \in [{"calc", "done"} \X Blocks -> Nat]
      /\ refs'[<<"calc", b>>] = made[1] /\ refs'[<<"done", b>>] = made[2]
      /\ \A c \in Blocks : c # b => refs'[<<"done", c>>] = refs[<<"done", c>>]
  BY <1>1, <1>4
<1>7. OneHolder'
  BY <1>2 DEF OneHolder, Holds
<1>8. HolderHasReference'
  BY <1>2, <1>5, <1>6 DEF HolderHasReference, SomeHolds, Holds
<1>9. CalcReferences' /\ DoneReferences' /\ ReferencesSettled'
  BY <1>1, <1>2, <1>4, <1>6
  DEF CalcReferences, DoneReferences, Preparing, ReferencesSettled, BlockIsOver
<1> QED
  BY <1>1, <1>2, <1>6, <1>7, <1>8, <1>9

LEMMA RefsRegister ==
  ASSUME ConvInv, RefsInv, NEW v \in VectorSizes, MapResultValuesComplete(v)
  PROVE  RefsInv'
<1> USE DEF RefsInv
<1>1. /\ pc = "register" /\ v = vectorSize /\ vectorSize' = v + 1
      /\ pc' = IF v + 1 < gMaxVectorSize THEN "register" ELSE "flush"
      /\ UNCHANGED <<kind, option, i, doneBarrier, barrierCount>>
      /\ cb' \in {cb, [cb EXCEPT ![<<v, doneBarrier>>] = "registered"]}
  BY DEF MapResultValuesComplete, suite, frame
<1>2. \/ refs' = [refs EXCEPT ![<<"calc", doneBarrier>>] = refs[<<"calc", doneBarrier>>] - 1]
         /\ (mishap => mishap')
      \/ refs' = refs /\ mishap'
  BY DEF MapResultValuesComplete
<1>3. doneBarrier \in Blocks /\ v \in Sizes /\ v < gMaxVectorSize /\ v \in Nat
      /\ gMaxVectorSize \in Nat
  BY <1>1, SizesFacts DEF ConvInv, NotYetStarted, Preparing, BarrierIsSet, Sizes
<1>4. /\ refs[<<"calc", doneBarrier>>] \in Nat
      /\ refs[<<"calc", doneBarrier>>] >= gMaxVectorSize - v + 1
      /\ ~mishap => refs[<<"calc", doneBarrier>>] = gMaxVectorSize - v + 1
  BY <1>1, <1>3 DEF CalcReferences, AtLeast
<1>5. /\ refs' \in [{"calc", "done"} \X Blocks -> Nat]
      /\ \A c \in Blocks : refs'[<<"done", c>>] = refs[<<"done", c>>]
      /\ refs'[<<"calc", doneBarrier>>] >= gMaxVectorSize - v
      /\ ~mishap' => refs'[<<"calc", doneBarrier>>] = gMaxVectorSize - v
  BY <1>2, <1>3, <1>4
<1>6. \A w \in VectorSizes, c \in Blocks : Holds(w, c)' => Holds(w, c)
  BY <1>1, <1>3 DEF Holds, ConvInv, TypeOK
<1>7. OneHolder' /\ HolderHasReference'
  BY <1>5, <1>6 DEF OneHolder, HolderHasReference, SomeHolds
<1>8. CalcReferences'
  BY <1>1, <1>3, <1>5 DEF CalcReferences, AtLeast
<1>9. DoneReferences' /\ ReferencesSettled'
  BY <1>1, <1>3, <1>5 DEF DoneReferences, Preparing, ReferencesSettled, BlockIsOver
<1> QED
  BY <1>1, <1>5, <1>7, <1>8, <1>9

\* DoTest gives its own references back.
LEMMA RefsCollect ==
  ASSUME ConvInv, RefsInv, CollectResults
  PROVE  RefsInv'
<1> USE DEF RefsInv
<1>1. /\ pc = "collect" /\ pc' \in {"block", "returned"}
      /\ UNCHANGED <<kind, option, doneBarrier, barrierCount, cb>>
      /\ i' \in {i, i + kind.step}
  BY DEF CollectResults, Return, Abort, suite, calls
<1>2. PICK calc \in BOOLEAN, done \in BOOLEAN :
        /\ refs' = [refs EXCEPT
             ![<<"calc", doneBarrier>>] = IF calc THEN refs[<<"calc", doneBarrier>>] - 1
                                          ELSE refs[<<"calc", doneBarrier>>],
             ![<<"done", doneBarrier>>] = IF calc /\ done THEN refs[<<"done", doneBarrier>>] - 1
                                          ELSE refs[<<"done", doneBarrier>>]]
        /\ mishap => mishap'
        /\ ~(calc /\ done) => mishap'
  BY DEF CollectResults, Abort, Outcomes
<1>3. doneBarrier \in Blocks /\ kind.step \in Nat
  BY <1>1, ConversionAssumption DEF ConvInv, TypeOK, KindType
<1>4. /\ Owed \in {0, 1} /\ Owed' = Owed
      /\ SomeHolds(doneBarrier) => Owed = 1
  BY <1>1 DEF Owed, SomeHolds, Holds
<1>5. AtLeast("calc", 1) /\ AtLeast("done", 1 + Owed)
  BY <1>1 DEF CalcReferences, DoneReferences
<1>6. /\ refs' \in [{"calc", "done"} \X Blocks -> Nat]
      /\ \A c \in Blocks : c # doneBarrier => refs'[<<"done", c>>] = refs[<<"done", c>>]
      /\ refs'[<<"done", doneBarrier>>] >= Owed
      /\ ~mishap' => refs'[<<"calc", doneBarrier>>] = 0 /\ refs'[<<"done", doneBarrier>>] = Owed
  BY <1>2, <1>3, <1>4, <1>5 DEF AtLeast
<1>7. \A w \in VectorSizes, c \in Blocks : Holds(w, c)' <=> Holds(w, c)
  BY <1>1 DEF Holds
<1>8. OneHolder' /\ HolderHasReference'
  BY <1>3, <1>4, <1>6, <1>7 DEF OneHolder, HolderHasReference, SomeHolds
<1>9. CalcReferences' /\ DoneReferences'
  BY <1>1 DEF CalcReferences, DoneReferences, Preparing
<1>10. ReferencesSettled'
  BY <1>1, <1>3, <1>4, <1>6 DEF ReferencesSettled
<1> QED
  BY <1>1, <1>3, <1>6, <1>8, <1>9, <1>10

\* A callback that is not the one to signal has nothing to do with references.
LEMMA RefsCallbackWorks ==
  ASSUME ConvInv, RefsInv, NEW v \in VectorSizes, NEW b \in Blocks,
         \/ CalcBegin(v, b) \/ CalcVerify(v, b) \/ CalcUnmap(v, b)
  PROVE  RefsInv'
<1> USE DEF RefsInv
<1>0. /\ UNCHANGED <<kind, pc, option, i, doneBarrier, barrierCount, refs>>
      /\ AtWork(v, b) \/ (cb[<<v, b>>] = "registered" /\ complete[<<"calc", b>>])
  BY DEF CalcBegin, CalcVerify, CalcUnmap, AtWork, suite, frame, events
<1>7. mishap => mishap'
  BY Zenon DEF CalcBegin, CalcVerify, CalcUnmap
<1>1. \E l \in {"verify", "unmap", "count", "over"} : cb' = [cb EXCEPT ![<<v, b>>] = l]
  BY DEF CalcBegin, CalcVerify, CalcUnmap
<1>2. pc = "wait" /\ b = doneBarrier
  BY <1>0 DEF ConvInv, CallbacksInPlace, InPlace
<1>3. \A w \in VectorSizes, c \in Blocks : Holds(w, c)' <=> Holds(w, c)
  BY <1>0, <1>1 DEF Holds, AtWork, ConvInv, TypeOK
<1>4. OneHolder' /\ HolderHasReference'
  BY <1>0, <1>3 DEF OneHolder, HolderHasReference, SomeHolds
<1>5. Owed' = Owed
  BY <1>0, <1>2, <1>3 DEF Owed, SomeHolds
<1>6. CalcReferences' /\ DoneReferences' /\ ReferencesSettled'
  BY <1>0, <1>2, <1>5, <1>7
  DEF CalcReferences, DoneReferences, AtLeast, Preparing, ReferencesSettled, BlockIsOver
<1> QED
  BY <1>0, <1>4, <1>6

\* The callback that takes the barrier to zero takes over the second reference
\* to it.
LEMMA RefsCount ==
  ASSUME ConvInv, RefsInv, NEW v \in VectorSizes, NEW b \in Blocks, CalcCount(v, b)
  PROVE  RefsInv'
<1> USE DEF RefsInv
<1>0. /\ UNCHANGED <<kind, pc, option, i, doneBarrier, refs, mishap>>
      /\ cb[<<v, b>>] = "count" /\ barrierCount' = barrierCount - 1
      /\ cb' = [cb EXCEPT ![<<v, b>>] = IF barrierCount = 1 THEN "signal" ELSE "over"]
  BY DEF CalcCount, IsLast, suite, frame, events
<1>1. pc = "wait" /\ b = doneBarrier
  BY <1>0 DEF ConvInv, CallbacksInPlace, InPlace, AtWork
<1>2. barrierCount \in Int /\ barrierCount >= 1
  <2>1. v \in Pending(b)
    BY <1>0 DEF Pending
  <2>2. Cardinality(Pending(b)) \in Nat /\ Cardinality(Pending(b)) # 0
    BY <2>1, PendingFinite, FS_EmptySet DEF ConvInv
  <2> QED
    BY <1>1, <2>2 DEF ConvInv, BarrierIsUpperBound, TypeOK
<1>3. ~SomeHolds(b)
  <2>1. \A w \in VectorSizes : Holds(w, b) => barrierCount = 0
    BY <1>1 DEF ConvInv, BarrierIsUpperBound, Holds
  <2> QED
    BY <1>2, <2>1 DEF SomeHolds
<1>4. \A w \in VectorSizes, c \in Blocks :
        Holds(w, c)' <=> Holds(w, c) \/ (w = v /\ c = b /\ barrierCount = 1)
  BY <1>0, <1>3 DEF Holds, SomeHolds, ConvInv, TypeOK
<1>5. Owed = 1 /\ Owed' = 1
  BY <1>0, <1>1, <1>2, <1>4 DEF Owed, SomeHolds
<1>6. OneHolder'
  BY <1>3, <1>4 DEF OneHolder, SomeHolds
<1>7. refs[<<"done", b>>] \in Nat /\ refs[<<"done", b>>] >= 2
  BY <1>1, <1>5 DEF DoneReferences, AtLeast
<1>8. HolderHasReference'
  BY <1>0, <1>4, <1>7 DEF HolderHasReference, SomeHolds
<1>9. CalcReferences' /\ DoneReferences' /\ ReferencesSettled'
  BY <1>0, <1>1, <1>5
  DEF CalcReferences, DoneReferences, AtLeast, Preparing, ReferencesSettled, BlockIsOver
<1> QED
  BY <1>0, <1>6, <1>8, <1>9

LEMMA RefsSignal ==
  ASSUME ConvInv, RefsInv, NEW v \in VectorSizes, NEW b \in Blocks, CalcSignal(v, b)
  PROVE  RefsInv'
<1> USE DEF RefsInv
<1>0. UNCHANGED <<kind, pc, option, i, doneBarrier, barrierCount, refs>>
  BY DEF CalcSignal, suite, frame
<1>1. pc = "wait" /\ b = doneBarrier /\ Holds(v, b)
  BY DEF CalcSignal, ConvInv, CallbacksInPlace, InPlace, Holds
<1>2. PICK l \in {"release", "over"} : cb' = [cb EXCEPT ![<<v, b>>] = l]
  BY DEF CalcSignal
<1>3. (mishap => mishap') /\ (l = "over" => mishap')
  <2>1. PICK ok \in Outcomes("setDone") :
          /\ cb' = [cb EXCEPT ![<<v, b>>] = IF ok THEN "release" ELSE "over"]
          /\ mishap' = (mishap \/ ~ok)
    BY DEF CalcSignal
  <2>2. cb'[<<v, b>>] = l /\ cb'[<<v, b>>] = (IF ok THEN "release" ELSE "over")
    BY <1>2, <2>1 DEF ConvInv, TypeOK
  <2>3. l = "over" => ~ok
    BY <2>2
  <2> QED
    BY <2>1, <2>3, Zenon
<1>4. \A w \in VectorSizes, c \in Blocks :
        /\ Holds(w, c)' => Holds(w, c)
        /\ l = "release" => (Holds(w, c)' <=> Holds(w, c))
  BY <1>1, <1>2 DEF Holds, ConvInv, TypeOK
<1>5. OneHolder' /\ HolderHasReference'
  BY <1>0, <1>4 DEF OneHolder, HolderHasReference, SomeHolds
<1>6. /\ Owed \in {0, 1} /\ Owed' \in {0, 1} /\ Owed' <= Owed
      /\ ~mishap' => Owed' = Owed
  <2>1. SomeHolds(doneBarrier)' => SomeHolds(doneBarrier)
    BY <1>0, <1>1, <1>4 DEF SomeHolds
  <2>2. ~mishap' => (SomeHolds(doneBarrier)' <=> SomeHolds(doneBarrier))
    BY <1>0, <1>1, <1>2, <1>3, <1>4 DEF SomeHolds
  <2> QED
    BY <1>0, <2>1, <2>2 DEF Owed
<1>7. CalcReferences' /\ DoneReferences' /\ ReferencesSettled'
  BY <1>0, <1>1, <1>3, <1>6
  DEF CalcReferences, DoneReferences, AtLeast, Preparing, ReferencesSettled, BlockIsOver
<1> QED
  BY <1>0, <1>5, <1>7

\* It gives it back, however far DoTest has come by then.
LEMMA RefsRelease ==
  ASSUME ConvInv, RefsInv, NEW v \in VectorSizes, NEW b \in Blocks, CalcRelease(v, b)
  PROVE  RefsInv'
<1> USE DEF RefsInv
<1>0. /\ UNCHANGED <<kind, pc, option, i, doneBarrier, barrierCount, vectorSize>>
      /\ cb[<<v, b>>] = "release" /\ cb' = [cb EXCEPT ![<<v, b>>] = "over"]
  BY DEF CalcRelease, suite, frame
<1>1. cbBarrier[<<v, b>>] = b /\ Holds(v, b)
  BY <1>0 DEF ConvInv, CallbacksInPlace, InPlace, Holds
<1>2. \/ /\ refs' = [refs EXCEPT ![<<"done", b>>] = refs[<<"done", b>>] - 1]
         /\ mishap => mishap'
      \/ refs' = refs /\ mishap'
  <2>1. PICK ok \in Outcomes("release") :
          /\ refs' = IF ok THEN [refs EXCEPT ![<<"done", b>>] = @ - 1] ELSE refs
          /\ mishap' = (mishap \/ ~ok)
    BY <1>1 DEF CalcRelease, BarrierEvent
  <2>2. CASE ok
    BY <2>1, <2>2
  <2>3. CASE ~ok
    BY <2>1, <2>3
  <2> QED
    BY <2>2, <2>3
<1>3. refs[<<"done", b>>] \in Nat /\ refs[<<"done", b>>] >= 1
  BY <1>1 DEF HolderHasReference, SomeHolds
<1>4. /\ refs' \in [{"calc", "done"} \X Blocks -> Nat]
      /\ \A c \in Blocks : /\ refs'[<<"calc", c>>] = refs[<<"calc", c>>]
                           /\ c # b => refs'[<<"done", c>>] = refs[<<"done", c>>]
      /\ refs'[<<"done", b>>] >= refs[<<"done", b>>] - 1
      /\ ~mishap' => ~mishap /\ refs'[<<"done", b>>] = refs[<<"done", b>>] - 1
  BY <1>2, <1>3
<1>5. \A w \in VectorSizes, c \in Blocks :
        Holds(w, c)' <=> Holds(w, c) /\ ~(w = v /\ c = b)
  BY <1>0 DEF Holds, ConvInv, TypeOK
<1>6. \A w \in VectorSizes : Holds(w, b) => w = v
  BY <1>1 DEF OneHolder
<1>7. OneHolder' /\ HolderHasReference'
  BY <1>4, <1>5, <1>6 DEF OneHolder, HolderHasReference, SomeHolds
<1>8. /\ b # doneBarrier /\ doneBarrier \in Blocks => Owed' = Owed
      /\ b = doneBarrier => Owed = 1 /\ Owed' = 0
      /\ Owed \in {0, 1}
  <2>1. pc = "wait" /\ b = doneBarrier => barrierCount = 0
    BY <1>0 DEF ConvInv, BarrierIsUpperBound
  <2>2. SomeHolds(b) /\ ~SomeHolds(b)'
    BY <1>1, <1>5, <1>6 DEF SomeHolds
  <2>3. CASE b = doneBarrier
    BY <2>1, <2>2, <2>3, <1>0 DEF Owed
  <2>4. CASE b # doneBarrier /\ doneBarrier \in Blocks
    <3>1. SomeHolds(doneBarrier)' <=> SomeHolds(doneBarrier)
      BY <2>4, <1>0, <1>5 DEF SomeHolds
    <3> QED
      BY <3>1, <2>4, <1>0 DEF Owed
  <2> QED
    BY <2>3, <2>4 DEF Owed
<1>9. Preparing => b # doneBarrier /\ doneBarrier \in Blocks
  BY <1>0 DEF ConvInv, NotYetStarted
<1>10. CalcReferences'
  BY <1>0, <1>4, <1>9 DEF CalcReferences, AtLeast, Preparing
<1>11. DoneReferences'
  <2>1. (Preparing => refs[<<"done", doneBarrier>>] = 2)'
    BY <1>0, <1>4, <1>9 DEF DoneReferences, Preparing
  <2>2. (pc \in {"wait", "collect"} => AtLeast("done", 1 + Owed))'
    <3>1. CASE b = doneBarrier
      BY <3>1, <1>0, <1>3, <1>4, <1>8 DEF DoneReferences, AtLeast
    <3>2. CASE b # doneBarrier
      BY <3>2, <1>0, <1>4, <1>8 DEF DoneReferences, AtLeast
    <3> QED
      BY <3>1, <3>2
  <2> QED
    BY <2>1, <2>2 DEF DoneReferences
<1>12. ReferencesSettled'
  BY <1>0, <1>4, <1>8 DEF ReferencesSettled, BlockIsOver
<1> QED
  BY <1>0, <1>4, <1>7, <1>10, <1>11, <1>12

LEMMA RefsNext ==
  ASSUME ConvInv, RefsInv, "wait" \notin Faults, [Next]_vars
  PROVE  RefsInv'
<1>1. CASE \E k \in Kinds : NextTest(k)
  BY <1>1, RefsNextTest
<1>2. CASE DoTestStep
  BY <1>2, RefsQuietSteps, RefsCreateEvents, RefsRunAndMap, RefsRegister, RefsCollect
  DEF DoTestStep
<1>3. CASE JobStep \/ Terminated \/ UNCHANGED vars
  BY <1>3, RefsQuietSteps
<1>4. CASE \E v \in VectorSizes, b \in Blocks : Callback(v, b)
  BY <1>4, RefsCallbackWorks, RefsCount, RefsSignal, RefsRelease DEF Callback
<1> QED
  BY <1>1, <1>2, <1>3, <1>4 DEF Next

\* The references DoTest and the callbacks hold to the events of a block are
\* accounted for at every moment.
THEOREM ReferencesAreAccountedFor ==
  ASSUME "wait" \notin Faults
  PROVE  Spec => []RefsInv
<1>1. ConvInv /\ RefsInv /\ [Next]_vars => RefsInv'
  BY RefsNext
<1> QED
  BY <1>1, RefsInit, BarrierHolds, PTL DEF Spec

\* Nobody uses an event without a reference to it, and a test in which nothing
\* failed gives all of them back but the one its last callback is about to.
THEOREM EventsStayBalanced ==
  ASSUME "wait" \notin Faults
  PROVE  Spec => []EventsAreBalanced
<1>1. ASSUME ConvInv, RefsInv
      PROVE  EventsAreBalanced
  <2> USE <1>1 DEF RefsInv
  <2>1. \A e \in DOMAIN refs : refs[e] >= 0
    OBVIOUS
  <2>2. pc = "wait" => refs[<<"calc", doneBarrier>>] > 0 /\ refs[<<"done", doneBarrier>>] > 0
    BY DEF CalcReferences, DoneReferences, AtLeast, Owed
  <2>3. \A v \in VectorSizes, b \in Blocks :
          cb[<<v, b>>] \in {"signal", "release"} => refs[<<"done", b>>] > 0
    BY DEF HolderHasReference, SomeHolds, Holds
  <2>4. ASSUME pc = "returned", ~mishap, ~option.gSkipTesting
        PROVE  /\ refs[<<"calc", doneBarrier>>] = 0
               /\ refs[<<"done", doneBarrier>>] =
                    Cardinality({v \in VectorSizes : cb[<<v, doneBarrier>>] = "release"})
    <3> DEFINE H == {v \in VectorSizes : cb[<<v, doneBarrier>>] = "release"}
    <3>1. /\ doneBarrier \in Blocks /\ refs[<<"calc", doneBarrier>>] = 0
          /\ refs[<<"done", doneBarrier>>] = Owed
      BY <2>4 DEF ReferencesSettled, BlockIsOver
    <3>2. \A v \in VectorSizes : Holds(v, doneBarrier) <=> v \in H
      BY <2>4, <3>1 DEF Holds, ConvInv, CallbacksInPlace, InPlace
    <3>3. CASE SomeHolds(doneBarrier)
      <4>1. PICK v \in VectorSizes : Holds(v, doneBarrier)
        BY <3>3 DEF SomeHolds
      <4>2. H = {v}
        BY <3>1, <3>2, <4>1 DEF OneHolder
      <4> QED
        BY <3>1, <3>3, <4>2, FS_Singleton DEF Owed
    <3>4. CASE ~SomeHolds(doneBarrier)
      <4>1. H = {}
        BY <3>2, <3>4 DEF SomeHolds
      <4> QED
        BY <2>4, <3>1, <3>4, <4>1, FS_EmptySet DEF Owed
    <3> QED
      BY <3>3, <3>4
  <2> QED
    BY <2>1, <2>2, <2>3, <2>4 DEF EventsAreBalanced
<1> QED
  BY <1>1, BarrierHolds, ReferencesAreAccountedFor, PTL

-----------------------------------------------------------------------------
(* The arithmetic of a block: the jobs cover it.                           *)

LEMMA PowersFacts ==
  /\ PowersOfTwo \subseteq Nat \ {0}
  /\ \A a, b \in PowersOfTwo : a <= b => b % a = 0
  /\ \A a, b \in PowersOfTwo : 2 * a <= b => 2 * a \in PowersOfTwo
<1>1. PowersOfTwo \subseteq Nat \ {0}
  BY SMT DEF PowersOfTwo
<1>2. \A a, b \in PowersOfTwo : a <= b => b % a = 0
  BY SMT DEF PowersOfTwo
<1>3. \A a, b \in PowersOfTwo : 2 * a <= b => 2 * a \in PowersOfTwo
  BY SMT DEF PowersOfTwo
<1> QED
  BY <1>1, <1>2, <1>3

LEMMA RoundUpIsPower ==
  ASSUME NEW x \in Nat \ {0}, x <= 2 ^ 29
  PROVE  RoundUpToNextPowerOfTwo(x) \in PowersOfTwo
<1>1. CASE x \in PowersOfTwo
  BY <1>1 DEF RoundUpToNextPowerOfTwo
<1>2. CASE x \notin PowersOfTwo
  <2>1. \E p \in PowersOfTwo : p < x /\ x < 2 * p
    <3>1. SUFFICES ASSUME \A p \in PowersOfTwo : ~(p < x /\ x < 2 * p) PROVE FALSE
      OBVIOUS
    <3> QED
      BY <1>2, <3>1, SMT DEF PowersOfTwo
  <2> DEFINE p == CHOOSE p \in PowersOfTwo : p < x /\ x < 2 * p
  <2>2. p \in PowersOfTwo /\ p < x /\ x < 2 * p
    BY <2>1
  <2>3. \A q \in PowersOfTwo : q < 2 ^ 29 => 2 * q \in PowersOfTwo
    BY SMT DEF PowersOfTwo
  <2> HIDE DEF p
  <2>4. p \in Nat
    BY <2>2, PowersFacts, SMT
  <2>5. p < 2 ^ 29
    BY <2>2, <2>4, SMT
  <2>6. 2 * p \in PowersOfTwo
    BY <2>2, <2>3, <2>5
  <2> QED
    BY <1>2, <2>6 DEF RoundUpToNextPowerOfTwo, p
<1> QED
  BY <1>1, <1>2

LEMMA DivMod ==
  ASSUME NEW a \in Nat, NEW d \in Nat \ {0}
  PROVE  a % d = 0 <=> \E q \in Nat : a = d * q
<1>1. a % d = 0 => a \div d \in Nat /\ a = d * (a \div d)
  BY SMT
<1>2. ASSUME NEW q \in Nat, a = d * q PROVE a % d = 0
  BY <1>2, SMT
<1> QED
  BY <1>1, <1>2

LEMMA ChunksDivide ==
  ASSUME NEW n \in PowersOfTwo, threads \in ThreadCounts
  PROVE  /\ Chunks(n) \in Nat \ {0} /\ n \div Chunks(n) \in Nat \ {0}
         /\ Chunks(n) * (n \div Chunks(n)) = n
<1> DEFINE t == RoundUpToNextPowerOfTwo(threads)
<1>1. t \in PowersOfTwo
  BY RoundUpIsPower, ConversionAssumption, PartitionAssumption
<1> HIDE DEF t
<1>2. /\ n \in Nat \ {0} /\ t \in Nat \ {0} /\ MinChunk \in Nat \ {0}
  BY <1>1, PowersFacts, ConversionAssumption
<1>3. ASSUME NEW d \in Nat \ {0}, n \div d >= 1 PROVE d <= n
  BY <1>2, <1>3, SMT
<1>4. ASSUME NEW d \in PowersOfTwo, d <= n PROVE n \div d \in Nat \ {0} /\ d * (n \div d) = n
  <2>1. d \in Nat \ {0} /\ n % d = 0
    BY <1>4, PowersFacts
  <2> QED
    BY <1>2, <1>4, <2>1, SMT
<1>5. Chunks(n) = IF n \div (2 * t) >= MinChunk THEN 2 * t
                  ELSE IF n \div t >= MinChunk THEN t ELSE 1
  BY DEF Chunks, t
<1>6. n \div t \in Int /\ n \div (2 * t) \in Int
  BY <1>2, SMT
<1>7. CASE n \div (2 * t) >= MinChunk
  <2>1. 2 * t <= n
    BY <1>2, <1>3, <1>6, <1>7
  <2>2. 2 * t \in PowersOfTwo
    BY <1>1, <2>1, PowersFacts
  <2> QED
    BY <1>2, <1>4, <1>5, <1>7, <2>1, <2>2
<1>8. CASE ~(n \div (2 * t) >= MinChunk) /\ n \div t >= MinChunk
  <2>1. t <= n
    BY <1>2, <1>3, <1>6, <1>8
  <2> QED
    BY <1>1, <1>2, <1>4, <1>5, <1>8, <2>1
<1>9. CASE ~(n \div (2 * t) >= MinChunk) /\ ~(n \div t >= MinChunk)
  BY <1>2, <1>5, <1>9
<1> QED
  BY <1>7, <1>8, <1>9

\* Every block has a power of two of elements, the last one too.
LEMMA BlockIsPower ==
  ASSUME NEW k \in Kinds, NEW m \in Nat, m % BlockCount = 0, m < k.lastCase
  PROVE  Smaller(BlockCount, k.lastCase - m) \in PowersOfTwo
<1>1. /\ BlockCount \in PowersOfTwo /\ BlockCount \in Nat \ {0}
      /\ k.lastCase \in Nat \ {0}
  BY PartitionAssumption, PowersFacts, ConversionAssumption DEF KindType
<1>2. PICK p \in Nat : m = BlockCount * p
  BY <1>1, DivMod
<1>3. CASE k.lastCase % BlockCount = 0
  <2>1. PICK q \in Nat : k.lastCase = BlockCount * q
    BY <1>1, <1>3, DivMod
  <2>2. BlockCount * p < BlockCount * q
    BY <1>2, <2>1
  <2>3. q - p >= 1
    BY <1>1, <2>2, SMT
  <2>4. k.lastCase - m = BlockCount * (q - p)
    BY <1>1, <1>2, <2>1, SMT
  <2>5. BlockCount * (q - p) >= BlockCount
    BY <1>1, <2>3, SMT
  <2>6. ~(k.lastCase - m < BlockCount)
    BY <1>1, <2>4, <2>5, SMT
  <2>7. Smaller(BlockCount, k.lastCase - m) \in {BlockCount, k.lastCase - m}
        /\ (Smaller(BlockCount, k.lastCase - m) = BlockCount \/ k.lastCase - m <= BlockCount)
    BY <1>1 DEF Smaller
  <2> QED
    BY <1>1, <2>6, <2>7
<1>4. CASE k.lastCase % BlockCount # 0
  <2>1. k.lastCase \in PowersOfTwo /\ k.lastCase < BlockCount
    BY <1>1, <1>4, PartitionAssumption, PowersFacts
  <2>2. p = 0
    <3>1. BlockCount * p < BlockCount
      BY <1>1, <1>2, <2>1
    <3> QED
      BY <1>1, <3>1, SMT
  <2>3. m = 0
    BY <1>1, <1>2, <2>2
  <2> QED
    BY <1>1, <2>1, <2>3 DEF Smaller
<1> QED
  BY <1>3, <1>4

LEMMA StepKeepsAlignment ==
  ASSUME NEW k \in Kinds, NEW m \in Nat, m % BlockCount = 0
  PROVE  m + k.step \in Nat /\ (m + k.step) % BlockCount = 0
<1>1. BlockCount \in Nat \ {0} /\ k.step \in Nat /\ k.step % BlockCount = 0
  BY PartitionAssumption, ConversionAssumption DEF KindType
<1>2. PICK p \in Nat : m = BlockCount * p
  BY <1>1, DivMod
<1>3. PICK q \in Nat : k.step = BlockCount * q
  BY <1>1, DivMod
<1>4. m + k.step = BlockCount * (p + q) /\ p + q \in Nat
  BY <1>1, <1>2, <1>3, SMT
<1> DEFINE n == m + k.step
<1>5. n \in Nat
  BY <1>1
<1>6. n = BlockCount * (p + q)
  BY <1>4
<1> HIDE DEF n
<1>7. n % BlockCount = 0
  BY <1>1, <1>4, <1>5, <1>6, DivMod
<1> QED
  BY <1>5, <1>7 DEF n

LEMMA SlicesCover ==
  ASSUME NEW c \in Nat \ {0}, NEW s \in Nat \ {0}, NEW n \in Nat, c * s = n,
         NEW k \in 0 .. n - 1
  PROVE  \E j \in 0 .. c - 1 : k \in j * s .. (j + 1) * s - 1
<1>1. k \in Nat /\ k < c * s
  OBVIOUS
<1>6. /\ k \div s \in Nat
      /\ s * (k \div s) <= k /\ k < s * (k \div s) + s
  BY <1>1, SMT
<1> DEFINE j == k \div s
<1> HIDE DEF j
<1>2. j \in Nat /\ s * j <= k /\ k < s * j + s /\ k < c * s
  BY <1>1, <1>6 DEF j
<1>3. j < c
  <2>1. s * j < s * c
    BY <1>1, <1>2, SMT
  <2> QED
    BY <1>2, <2>1, SMT
<1>4. j * s <= k /\ k <= (j + 1) * s - 1
  BY <1>1, <1>2, SMT
<1>5. j * s \in Int /\ (j + 1) * s - 1 \in Int
  BY <1>2, SMT
<1> QED
  BY <1>1, <1>2, <1>3, <1>4, <1>5

LEMMA LeastElement ==
  ASSUME NEW S \in SUBSET Nat, S # {}
  PROVE  \E x \in S : \A y \in S : x <= y
<1>1. PICK x \in S : \A y \in S : ~(<<y, x>> \in OpToRel(<, Nat))
  BY NatLessThanWellFounded, WFMin
<1>2. \A y \in S : ~(y < x)
  BY <1>1 DEF OpToRel
<1> QED
  BY <1>2

-----------------------------------------------------------------------------
(* The data: what the pool's jobs do to a block.                           *)

\* Calls of the pool, as DoTest makes them.
LEMMA PoolCall ==
  ASSUME JobsInOrder, NEW n \in Nat, Pool!Call(Main, n)
  PROVE  /\ phase' \in [{Main} -> {"idle", "working", "returned"}]
         /\ phase'[Main] = "working" /\ jobCount'[Main] = n
         /\ jobCount' \in [{Main} -> Nat]
         /\ UNCHANGED <<started, running, raised, jobResult>>
  BY DEF JobsInOrder, Pool!Call

LEMMA PoolForget ==
  ASSUME JobsInOrder, Pool!Forget(Main)
  PROVE  /\ phase' \in [{Main} -> {"idle", "working", "returned"}]
         /\ phase'[Main] = "idle" /\ started'[Main] = {} /\ running' = running
         /\ jobCount' \in [{Main} -> Nat] /\ jobResult' \in [{Main} -> Int]
         /\ started' \in [{Main} -> SUBSET Nat] /\ raised' = [c \in {Main} |-> {}]
<1>1. /\ phase' \in [{Main} -> {"idle", "working", "returned"}]
      /\ phase'[Main] = "idle" /\ running' = running
  BY DEF JobsInOrder, Pool!Forget
<1>2. started'[Main] = {} /\ started' \in [{Main} -> SUBSET Nat]
  BY DEF JobsInOrder, Pool!Forget
<1>3. jobCount' \in [{Main} -> Nat] /\ jobResult' \in [{Main} -> Int]
  BY DEF JobsInOrder, Pool!Forget, Pool!CL_SUCCESS
<1>4. raised' = [c \in {Main} |-> {}]
  BY DEF JobsInOrder, Pool!Forget
<1> QED
  BY <1>1, <1>2, <1>3, <1>4

LEMMA PoolStart ==
  ASSUME JobsInOrder, NEW j, Pool!Start(Main, j)
  PROVE  /\ j \in Nat /\ phase[Main] = "working" /\ j \notin started[Main]
         /\ started' = [started EXCEPT ![Main] = started[Main] \cup {j}]
         /\ running' = [running EXCEPT ![Main] = running[Main] \cup {j}]
         /\ UNCHANGED <<phase, jobCount, raised, jobResult>>
  BY DEF JobsInOrder, Pool!Start

LEMMA PoolFinish ==
  ASSUME JobsInOrder, NEW j, Pool!Finish(Main, j, CL_SUCCESS)
  PROVE  /\ j \in running[Main] /\ j \in Nat /\ raised' = raised
         /\ running' = [running EXCEPT ![Main] = running[Main] \ {j}]
         /\ UNCHANGED <<phase, jobCount, started, jobResult>>
  BY DEF JobsInOrder, Pool!Finish, Pool!CL_SUCCESS, CL_SUCCESS

LEMMA PoolReturn ==
  ASSUME JobsInOrder, Pool!Return(Main, CL_SUCCESS)
  PROVE  /\ phase' \in [{Main} -> {"idle", "working", "returned"}]
         /\ phase'[Main] = "returned" /\ running[Main] = {}
         /\ started[Main] = 0 .. jobCount[Main] - 1
         /\ jobResult' \in [{Main} -> Int]
         /\ UNCHANGED <<jobCount, started, running, raised>>
  BY DEF JobsInOrder, Pool!Return, Pool!CL_SUCCESS, CL_SUCCESS

LEMMA JobsInit == Init => JobsInOrder /\ BlockInOrder
<1> SUFFICES ASSUME Init PROVE JobsInOrder /\ BlockInOrder
  OBVIOUS
<1>1. JobsInOrder
  BY ConversionAssumption, SMT DEF Init, JobsInOrder, Pool!Init, Pool!CL_SUCCESS
<1>2. BlockInOrder
  BY ConversionAssumption DEF Init, BlockInOrder, Preparing
<1> QED
  BY <1>1, <1>2

\* Steps that leave the block and the pool alone.
LEMMA JobsQuiet ==
  ASSUME JobsInOrder, BlockInOrder, UNCHANGED <<i, count, chunks, size, threads, poolVars>>,
         \/ pc' = pc
         \/ pc \notin {"init", "prepare", "write", "complete"}
              /\ pc' \in {"suite", "programs", "block", "returned"}
         \/ <<pc, pc'>> \in {<<"run", "register">>, <<"run", "flush">>, <<"register", "flush">>,
                             <<"wait", "collect">>}
  PROVE  JobsInOrder' /\ BlockInOrder'
<1>1. JobsInOrder'
  BY DEF JobsInOrder, poolVars
<1>2. BlockInOrder'
  BY DEF BlockInOrder, Preparing
<1> QED
  BY <1>1, <1>2

LEMMA JobsQuietSteps ==
  ASSUME ConvInv, JobsInOrder, BlockInOrder,
         \/ MakePrograms \/ WaitForBarrier \/ FinishTest \/ Terminated \/ UNCHANGED vars
         \/ \E bad, v : RunAndMap(bad, v)
         \/ \E v : MapResultValuesComplete(v)
         \/ \E v, b : Callback(v, b)
  PROVE  JobsInOrder' /\ BlockInOrder'
<1> USE DEF suite, frame, Return, Abort
<1>1. CASE MakePrograms
  BY <1>1, JobsQuiet DEF MakePrograms
<1>2. CASE WaitForBarrier
  BY <1>2, JobsQuiet DEF WaitForBarrier
<1>3. CASE FinishTest
  BY <1>3, JobsQuiet DEF FinishTest
<1>4. CASE Terminated \/ UNCHANGED vars
  <2>1. UNCHANGED <<i, count, chunks, size, threads, poolVars, pc>>
    BY <1>4 DEF Terminated, vars
  <2> QED
    BY <2>1, JobsQuiet
<1>5. CASE \E bad, v : RunAndMap(bad, v)
  <2>1. /\ UNCHANGED <<i, count, chunks, size, threads, poolVars>>
        /\ pc = "run" /\ pc' \in {"run", "register", "flush"}
    BY <1>5 DEF RunAndMap
  <2> QED
    BY <2>1, JobsQuiet
<1>6. CASE \E v : MapResultValuesComplete(v)
  BY <1>6, JobsQuiet DEF MapResultValuesComplete
<1>7. CASE \E v, b : Callback(v, b)
  <2>1. UNCHANGED <<i, count, chunks, size, threads, poolVars, pc>>
    BY <1>7 DEF Callback, CalcBegin, CalcVerify, CalcUnmap, CalcCount, CalcSignal, CalcRelease
  <2> QED
    BY <2>1, JobsQuiet
<1> QED
  BY <1>1, <1>2, <1>3, <1>4, <1>5, <1>6, <1>7

LEMMA JobsNext ==
  ASSUME ConvInv, JobsInOrder, BlockInOrder, [Next]_vars
  PROVE  JobsInOrder' /\ BlockInOrder'
<1> USE DEF suite, frame
<1>1. ASSUME NEW k \in Kinds, NextTest(k)
      PROVE  JobsInOrder' /\ BlockInOrder'
  <2>1. /\ i' = 0 /\ count' = 0 /\ pc \in {"suite", "returned"} /\ pc' = "programs"
        /\ UNCHANGED <<threads, poolVars>>
    BY <1>1 DEF NextTest
  <2>2. 0 % BlockCount = 0
    BY ConversionAssumption, SMT
  <2>3. JobsInOrder'
    BY <2>1, <2>2 DEF JobsInOrder, poolVars
  <2>4. BlockInOrder'
    BY <2>1, ConversionAssumption DEF BlockInOrder, Preparing
  <2> QED
    BY <2>3, <2>4
<1>2. ASSUME NEW b \in Blocks, CreateEvents(b)
      PROVE  JobsInOrder' /\ BlockInOrder'
  <2>1. /\ pc = "block" /\ pc' \in {"split", "returned"} /\ i < kind.lastCase
        /\ count' = Smaller(BlockCount, kind.lastCase - i)
        /\ UNCHANGED <<i, chunks, size, threads, poolVars>>
    BY <1>2 DEF CreateEvents, Abort, Return
  <2>2. kind \in Kinds /\ i \in Nat /\ i % BlockCount = 0
    BY DEF ConvInv, TypeOK, JobsInOrder
  <2>3. count' \in PowersOfTwo
    BY <2>1, <2>2, BlockIsPower
  <2>4. kind.lastCase \in Nat /\ BlockCount \in Nat
    BY <2>2, ConversionAssumption DEF KindType
  <2>5. count' \in 0 .. BlockCount
    BY <2>1, <2>2, <2>3, <2>4, PowersFacts DEF Smaller
  <2>6. JobsInOrder'
    BY <2>1 DEF JobsInOrder, poolVars
  <2>7. BlockInOrder'
    BY <2>1, <2>3, <2>5 DEF BlockInOrder, Preparing
  <2> QED
    BY <2>6, <2>7
<1>3. CASE SplitBlock
  <2>1. /\ pc = "split" /\ pc' = "init" /\ UNCHANGED <<i, count, threads>>
        /\ chunks' = Chunks(count) /\ size' = count \div chunks' /\ Pool!Call(Main, chunks')
    BY <1>3 DEF SplitBlock
  <2>2. count \in PowersOfTwo /\ threads \in ThreadCounts
    BY <2>1 DEF BlockInOrder
  <2>3. chunks' \in Nat \ {0} /\ size' \in Nat \ {0} /\ chunks' * size' = count
    BY <2>1, <2>2, ChunksDivide
  <2>4. /\ phase' \in [{Main} -> {"idle", "working", "returned"}]
        /\ phase'[Main] = "working" /\ jobCount'[Main] = chunks'
        /\ jobCount' \in [{Main} -> Nat]
        /\ UNCHANGED <<started, running, raised, jobResult>>
    BY <2>1, <2>3, PoolCall
  <2>5. JobsInOrder'
    BY <2>1, <2>4 DEF JobsInOrder
  <2>6. BlockInOrder'
    BY <2>1, <2>3 DEF BlockInOrder
  <2> QED
    BY <2>5, <2>6
<1>4. ASSUME NEW j \in 0 .. chunks - 1, StartJob(j)
      PROVE  JobsInOrder' /\ BlockInOrder'
  <2>1. UNCHANGED <<i, count, chunks, size, threads, pc>> /\ Pool!Start(Main, j)
    BY <1>4 DEF StartJob
  <2>2. /\ j \in Nat /\ phase[Main] = "working" /\ j \notin started[Main]
        /\ started' = [started EXCEPT ![Main] = started[Main] \cup {j}]
        /\ running' = [running EXCEPT ![Main] = running[Main] \cup {j}]
        /\ UNCHANGED <<phase, jobCount, raised, jobResult>>
    BY <2>1, PoolStart
  <2>3. JobsInOrder'
    BY <2>1, <2>2 DEF JobsInOrder
  <2>4. BlockInOrder'
    BY <2>1 DEF BlockInOrder, Preparing
  <2> QED
    BY <2>3, <2>4
<1>5. ASSUME NEW j \in 0 .. chunks - 1, InitData(j) \/ PrepareReference(j)
      PROVE  JobsInOrder' /\ BlockInOrder'
  <2>1. /\ UNCHANGED <<i, count, chunks, size, threads, pc>>
        /\ Pool!Finish(Main, j, CL_SUCCESS) /\ pc \in {"init", "prepare"}
    BY <1>5 DEF InitData, PrepareReference
  <2>2. /\ j \in running[Main] /\ j \in Nat /\ raised' = raised
        /\ running' = [running EXCEPT ![Main] = running[Main] \ {j}]
        /\ UNCHANGED <<phase, jobCount, started, jobResult>>
    BY <2>1, PoolFinish
  <2>3. JobsInOrder'
    BY <2>1, <2>2 DEF JobsInOrder
  <2>4. BlockInOrder'
    BY <2>1 DEF BlockInOrder, Preparing
  <2> QED
    BY <2>3, <2>4
<1>6. CASE PoolReturns
  <2>1. /\ UNCHANGED <<i, count, chunks, size, threads>> /\ Pool!Return(Main, CL_SUCCESS)
        /\ <<pc, pc'>> \in {<<"init", "write">>, <<"prepare", "complete">>}
    BY <1>6 DEF PoolReturns
  <2>2. /\ phase' \in [{Main} -> {"idle", "working", "returned"}]
        /\ phase'[Main] = "returned" /\ running[Main] = {}
        /\ jobResult' \in [{Main} -> Int]
        /\ UNCHANGED <<jobCount, started, running, raised>>
    BY <2>1, PoolReturn
  <2>3. JobsInOrder'
    BY <2>1, <2>2 DEF JobsInOrder
  <2>4. BlockInOrder'
    BY <2>1 DEF BlockInOrder, Preparing
  <2> QED
    BY <2>3, <2>4
<1>7. CASE WriteInputBuffer \/ SetCalcReferenceValues
  <2>1. /\ UNCHANGED <<i, count, chunks, size, threads>> /\ Pool!Forget(Main)
        /\ pc \in {"write", "complete"} /\ pc' \in {"returned", "run", "wait"}
    BY <1>7 DEF WriteInputBuffer, SetCalcReferenceValues, Abort, Return
  <2>2. /\ phase' \in [{Main} -> {"idle", "working", "returned"}]
        /\ phase'[Main] = "idle" /\ started'[Main] = {} /\ running' = running
        /\ jobCount' \in [{Main} -> Nat] /\ jobResult' \in [{Main} -> Int]
        /\ started' \in [{Main} -> SUBSET Nat] /\ raised' = [c \in {Main} |-> {}]
    BY <2>1, PoolForget
  <2>3. JobsInOrder'
    BY <2>1, <2>2 DEF JobsInOrder
  <2>4. BlockInOrder'
    BY <2>1 DEF BlockInOrder, Preparing
  <2> QED
    BY <2>3, <2>4
<1>8. CASE Flush
  <2>1. /\ UNCHANGED <<i, count, chunks, size, threads>> /\ pc = "flush"
        /\ \/ pc' = "prepare" /\ Pool!Call(Main, chunks)
           \/ pc' = "returned" /\ UNCHANGED poolVars
    BY <1>8 DEF Flush, Abort, Return
  <2>2. CASE pc' = "returned" /\ UNCHANGED poolVars
    BY <2>1, <2>2, JobsQuiet
  <2>3. CASE pc' = "prepare" /\ Pool!Call(Main, chunks)
    <3>1. chunks \in Nat
      BY <2>1 DEF BlockInOrder, Preparing
    <3>2. /\ phase' \in [{Main} -> {"idle", "working", "returned"}]
          /\ phase'[Main] = "working" /\ jobCount'[Main] = chunks
          /\ jobCount' \in [{Main} -> Nat]
          /\ UNCHANGED <<started, running, raised, jobResult>>
      BY <2>3, <3>1, PoolCall
    <3>3. JobsInOrder'
      BY <2>1, <2>3, <3>2 DEF JobsInOrder
    <3>4. BlockInOrder'
      BY <2>1, <2>3 DEF BlockInOrder, Preparing
    <3> QED
      BY <3>3, <3>4
  <2> QED
    BY <2>1, <2>2, <2>3
<1>9. CASE CollectResults
  <2>1. /\ UNCHANGED <<count, chunks, size, threads, poolVars>> /\ pc = "collect"
        /\ pc' \in {"block", "returned"} /\ i' \in {i, i + kind.step}
    BY <1>9 DEF CollectResults, Abort, Return
  <2>2. i' \in Nat /\ i' % BlockCount = 0
    BY <2>1, StepKeepsAlignment DEF JobsInOrder, ConvInv, TypeOK
  <2>3. JobsInOrder'
    BY <2>1, <2>2 DEF JobsInOrder, poolVars
  <2>4. BlockInOrder'
    BY <2>1 DEF BlockInOrder, Preparing
  <2> QED
    BY <2>3, <2>4
<1> QED
  BY <1>1, <1>2, <1>3, <1>4, <1>5, <1>6, <1>7, <1>8, <1>9, JobsQuietSteps
  DEF Next, DoTestStep, JobStep

-----------------------------------------------------------------------------
(* The data: inputs and references.                                        *)

LEMMA BuffersInit == Init => ReferencesInOrder /\ InputsInOrder
  BY DEF Init, ReferencesInOrder, InputsInOrder, Converting

\* Steps that leave the buffers alone, and enter no phase in which they matter.
LEMMA BuffersQuiet ==
  ASSUME ReferencesInOrder, InputsInOrder,
         UNCHANGED <<kind, count, size, started, running, gIn, gRef, gAllowZ, gInBuffer>>,
         \/ pc' = pc
         \/ pc' \in {"suite", "programs", "block", "returned", "split", "init", "write"}
         \/ pc = "run" /\ pc' \in {"register", "flush"}
         \/ pc = "register" /\ pc' = "flush"
         \/ pc = "wait" /\ pc' = "collect"
  PROVE  ReferencesInOrder' /\ InputsInOrder'
<1>1. ReferencesInOrder'
  BY DEF ReferencesInOrder, Referenced, Slice
<1>2. InputsInOrder'
  BY DEF InputsInOrder, Converting
<1> QED
  BY <1>1, <1>2

LEMMA BuffersQuietSteps ==
  ASSUME ReferencesInOrder, InputsInOrder,
         \/ MakePrograms \/ WaitForBarrier \/ CollectResults \/ FinishTest \/ Terminated
         \/ UNCHANGED vars
         \/ \E bad, v : RunAndMap(bad, v)
         \/ \E v : MapResultValuesComplete(v)
         \/ \E v, b : Callback(v, b)
  PROVE  ReferencesInOrder' /\ InputsInOrder'
<1> USE DEF suite, frame, buffers, poolVars, Return, Abort
<1>1. CASE MakePrograms
  BY <1>1, BuffersQuiet DEF MakePrograms
<1>2. CASE WaitForBarrier
  BY <1>2, BuffersQuiet DEF WaitForBarrier
<1>3. CASE FinishTest
  BY <1>3, BuffersQuiet DEF FinishTest
<1>4. CASE Terminated \/ UNCHANGED vars
  <2>1. UNCHANGED <<kind, count, size, started, running, gIn, gRef, gAllowZ, gInBuffer, pc>>
    BY <1>4 DEF Terminated, vars
  <2> QED
    BY <2>1, BuffersQuiet
<1>5. CASE \E bad, v : RunAndMap(bad, v)
  <2>1. /\ UNCHANGED <<kind, count, size, started, running, gIn, gRef, gAllowZ, gInBuffer>>
        /\ pc = "run" /\ pc' \in {"run", "register", "flush"}
    BY <1>5 DEF RunAndMap
  <2> QED
    BY <2>1, BuffersQuiet
<1>6. CASE \E v : MapResultValuesComplete(v)
  BY <1>6, BuffersQuiet DEF MapResultValuesComplete
<1>7. CASE \E v, b : Callback(v, b)
  <2>1. UNCHANGED <<kind, count, size, started, running, gIn, gRef, gAllowZ, gInBuffer, pc>>
    BY <1>7 DEF Callback, CalcBegin, CalcVerify, CalcUnmap, CalcCount, CalcSignal, CalcRelease
  <2> QED
    BY <2>1, BuffersQuiet
<1>8. CASE CollectResults
  <2>1. /\ UNCHANGED <<kind, count, size, started, running, gIn, gRef, gAllowZ, gInBuffer>>
        /\ pc' \in {"block", "returned"}
    BY <1>8 DEF CollectResults
  <2> QED
    BY <2>1, BuffersQuiet
<1> QED
  BY <1>1, <1>2, <1>3, <1>4, <1>5, <1>6, <1>7, <1>8

LEMMA BuffersNext ==
  ASSUME ConvInv, JobsInOrder, BlockInOrder, ReferencesInOrder, InputsInOrder, [Next]_vars
  PROVE  ReferencesInOrder' /\ InputsInOrder'
<1> USE DEF suite, frame, buffers
<1>1. CASE \/ \E k \in Kinds : NextTest(k)
           \/ \E b \in Blocks : CreateEvents(b)
           \/ SplitBlock
  <2>1. /\ UNCHANGED <<gIn, gInBuffer>>
        /\ pc' \in {"programs", "split", "returned", "init"}
    BY <1>1 DEF NextTest, CreateEvents, SplitBlock, Abort, Return
  <2> QED
    BY <2>1 DEF ReferencesInOrder, InputsInOrder, Converting
<1>2. ASSUME NEW j \in 0 .. chunks - 1, StartJob(j)
      PROVE  ReferencesInOrder' /\ InputsInOrder'
  <2>1. /\ UNCHANGED <<kind, count, size, gIn, gRef, gAllowZ, gInBuffer, pc>>
        /\ Pool!Start(Main, j)
    BY <1>2 DEF StartJob
  <2>2. /\ started' = [started EXCEPT ![Main] = started[Main] \cup {j}]
        /\ running' = [running EXCEPT ![Main] = running[Main] \cup {j}]
    BY <2>1, PoolStart
  <2>3. started'[Main] \ running'[Main] \subseteq started[Main] \ running[Main]
    BY <2>2 DEF JobsInOrder
  <2>4. ReferencesInOrder'
    BY <2>1, <2>3 DEF ReferencesInOrder, Referenced, Slice
  <2>5. InputsInOrder'
    BY <2>1 DEF InputsInOrder, Converting
  <2> QED
    BY <2>4, <2>5
<1>3. ASSUME NEW j \in 0 .. chunks - 1, InitData(j)
      PROVE  ReferencesInOrder' /\ InputsInOrder'
  <2>1. /\ pc' = "init" /\ gInBuffer' = gInBuffer
        /\ gIn' = [k \in Elements |-> IF k \in Slice(j) THEN i + (k - j * size) ELSE gIn[k]]
        /\ pc = "init"
    BY <1>3 DEF InitData
  <2>2. i \in Nat /\ size \in Nat /\ j \in Int /\ Elements \subseteq Int
    BY <2>1, ConversionAssumption DEF JobsInOrder, BlockInOrder, Preparing, Elements
  <2>3. \A k \in Elements : i + (k - j * size) \in Int
    BY <2>2, SMT
  <2>4. gIn' \in [Elements -> Int]
    BY <2>1, <2>3 DEF InputsInOrder
  <2> QED
    BY <2>1, <2>4 DEF ReferencesInOrder, InputsInOrder, Converting
<1>4. ASSUME NEW j \in 0 .. chunks - 1, PrepareReference(j)
      PROVE  ReferencesInOrder' /\ InputsInOrder'
  <2>1. /\ UNCHANGED <<kind, count, size, gIn, gInBuffer, pc>> /\ pc = "prepare"
        /\ gRef' = [k \in Elements |->
                      IF k \in Slice(j) THEN Reference(kind, gIn[k]) ELSE gRef[k]]
        /\ gAllowZ' = [k \in Elements |->
                         IF k \in Slice(j) /\ ~kind.same
                         THEN gIn[k] \in kind.denormals ELSE gAllowZ[k]]
        /\ Pool!Finish(Main, j, CL_SUCCESS)
    BY <1>4 DEF PrepareReference
  <2>2. /\ running' = [running EXCEPT ![Main] = running[Main] \ {j}] /\ started' = started
    BY <2>1, PoolFinish
  <2>3. started'[Main] \ running'[Main] \subseteq (started[Main] \ running[Main]) \cup {j}
    BY <2>2 DEF JobsInOrder
  <2>4. \A k \in Elements : k \in Slice(j) => Referenced(k)'
    BY <2>1 DEF Referenced
  <2>5. \A k \in Elements : k \notin Slice(j) /\ Referenced(k) => Referenced(k)'
    BY <2>1 DEF Referenced
  <2>6. \A n : Slice(n)' = Slice(n)
    BY <2>1 DEF Slice
  <2>7. ReferencesInOrder'
    BY <2>1, <2>3, <2>4, <2>5, <2>6 DEF ReferencesInOrder
  <2>8. InputsInOrder'
    BY <2>1 DEF InputsInOrder, Converting
  <2> QED
    BY <2>7, <2>8
<1>5. CASE PoolReturns
  <2>1. /\ UNCHANGED <<kind, count, size, gIn, gRef, gAllowZ, gInBuffer>>
        /\ Pool!Return(Main, CL_SUCCESS)
        /\ <<pc, pc'>> \in {<<"init", "write">>, <<"prepare", "complete">>}
    BY <1>5 DEF PoolReturns
  <2>2. running[Main] = {} /\ started[Main] = 0 .. jobCount[Main] - 1
    BY <2>1, PoolReturn
  <2>3. InputsInOrder'
    BY <2>1 DEF InputsInOrder, Converting
  <2>4. CASE pc' = "write"
    BY <2>3, <2>4 DEF ReferencesInOrder
  <2>5. CASE pc' = "complete"
    <3>1. /\ pc = "prepare" /\ started[Main] = 0 .. chunks - 1 /\ count \in 0 .. BlockCount
          /\ chunks \in Nat \ {0} /\ size \in Nat \ {0} /\ chunks * size = count
      BY <2>1, <2>2, <2>5 DEF JobsInOrder, BlockInOrder, Preparing
    <3>2. ASSUME NEW k \in 0 .. count - 1 PROVE Referenced(k)
      <4>1. count \in Nat /\ BlockCount \in Nat /\ count <= BlockCount
        BY <3>1, ConversionAssumption
      <4>2. PICK j \in 0 .. chunks - 1 : k \in j * size .. (j + 1) * size - 1
        BY <3>1, <4>1, SlicesCover
      <4>3. k \in Elements /\ k \in Slice(j)
        BY <4>1, <4>2 DEF Elements, Slice
      <4> QED
        BY <2>2, <3>1, <4>3 DEF ReferencesInOrder
    <3>3. \A k \in 0 .. count - 1 : Referenced(k)'
      BY <2>1, <3>2 DEF Referenced
    <3> QED
      BY <2>1, <2>3, <2>5, <3>3 DEF ReferencesInOrder
  <2> QED
    BY <2>1, <2>4, <2>5
<1>6. CASE WriteInputBuffer
  <2>1. /\ UNCHANGED <<count, gIn>>
        /\ \/ pc' = "returned" /\ gInBuffer' = gInBuffer
           \/ /\ pc' = "run"
              /\ gInBuffer' = [k \in Elements |-> IF k < count THEN gIn[k] ELSE gInBuffer[k]]
    BY <1>6 DEF WriteInputBuffer, Abort, Return
  <2>2. 0 .. count - 1 \subseteq Elements /\ \A k \in 0 .. count - 1 : k < count
    BY ConversionAssumption DEF BlockInOrder, Elements
  <2>3. InputsInOrder'
    BY <2>1, <2>2 DEF InputsInOrder, Converting
  <2> QED
    BY <2>1, <2>3 DEF ReferencesInOrder
<1>7. CASE Flush
  <2>1. /\ UNCHANGED <<count, gIn, gInBuffer>> /\ pc = "flush"
        /\ \/ pc' = "prepare" /\ Pool!Call(Main, chunks)
           \/ pc' = "returned"
    BY <1>7 DEF Flush, Abort, Return
  <2>2. InputsInOrder'
    BY <2>1 DEF InputsInOrder, Converting
  <2>3. CASE pc' = "prepare" /\ Pool!Call(Main, chunks)
    <3>1. chunks \in Nat /\ started[Main] = {}
      BY <2>1 DEF BlockInOrder, JobsInOrder, Preparing
    <3>2. started' = started
      BY <2>3, <3>1, PoolCall
    <3> QED
      BY <2>2, <2>3, <3>1, <3>2 DEF ReferencesInOrder
  <2> QED
    BY <2>1, <2>2, <2>3 DEF ReferencesInOrder
<1>8. CASE SetCalcReferenceValues
  <2>1. /\ UNCHANGED <<kind, count, gIn, gRef, gAllowZ, gInBuffer>> /\ pc = "complete"
        /\ pc' \in {"wait", "returned"}
    BY <1>8 DEF SetCalcReferenceValues, Abort, Return
  <2> QED
    BY <2>1 DEF ReferencesInOrder, Referenced, InputsInOrder, Converting
<1> QED
  BY <1>1, <1>2, <1>3, <1>4, <1>5, <1>6, <1>7, <1>8, BuffersQuietSteps
  DEF Next, DoTestStep, JobStep

-----------------------------------------------------------------------------
(* The data: from the outputs to the verdict.                              *)

\* Within a test nothing that has gone wrong is forgotten.
LEMMA MishapStays ==
  ASSUME Next, ~\E k \in Kinds : NextTest(k)
  PROVE  mishap => mishap'
<1> USE DEF Abort
<1>1. CASE DoTestStep
  BY <1>1, Zenon DEF DoTestStep, MakePrograms, CreateEvents, SplitBlock, PoolReturns,
     WriteInputBuffer, RunAndMap, MapResultValuesComplete, Flush, SetCalcReferenceValues,
     WaitForBarrier, CollectResults, FinishTest
<1>2. CASE JobStep
  BY <1>2 DEF JobStep, StartJob, InitData, PrepareReference
<1>3. CASE \E v \in VectorSizes, b \in Blocks : Callback(v, b)
  <2>1. ASSUME NEW v, NEW b, CalcBegin(v, b) \/ CalcUnmap(v, b) PROVE mishap => mishap'
    BY <2>1, Zenon DEF CalcBegin, CalcUnmap
  <2>2. ASSUME NEW v, NEW b, CalcVerify(v, b) \/ CalcCount(v, b) PROVE mishap => mishap'
    BY <2>2, Zenon DEF CalcVerify, CalcCount
  <2>3. ASSUME NEW v, NEW b, CalcSignal(v, b) \/ CalcRelease(v, b) PROVE mishap => mishap'
    BY <2>3, Zenon DEF CalcSignal, CalcRelease
  <2> QED
    BY <1>3, <2>1, <2>2, <2>3 DEF Callback
<1>4. CASE Terminated
  BY <1>4 DEF Terminated, vars
<1> QED
  BY <1>1, <1>2, <1>3, <1>4 DEF Next

\* A conversion between equal types reads the permissions it found.
AllowZKept == kind.same => \A k \in 0 .. count - 1 : gAllowZ'[k] = gAllowZ[k]

LEMMA StaysWithinTest ==
  ASSUME Next, ~\E k \in Kinds : NextTest(k), BlockInOrder
  PROVE  (mishap => mishap') /\ AllowZKept
<1>1. AllowZKept
  <2>1. CASE \E j \in 0 .. chunks - 1 : PrepareReference(j)
    <3>1. kind.same => \A k \in Elements : gAllowZ'[k] = gAllowZ[k]
      BY <2>1 DEF PrepareReference
    <3>2. 0 .. count - 1 \subseteq Elements
      BY ConversionAssumption DEF BlockInOrder, Elements
    <3> QED
      BY <3>1, <3>2 DEF AllowZKept
  <2>2. CASE ~\E j \in 0 .. chunks - 1 : PrepareReference(j)
    <3>1. gAllowZ' = gAllowZ
      BY <2>2 DEF Next, DoTestStep, JobStep, Callback, Terminated, MakePrograms, CreateEvents,
         SplitBlock, PoolReturns, WriteInputBuffer, RunAndMap, MapResultValuesComplete, Flush,
         SetCalcReferenceValues, WaitForBarrier, CollectResults, FinishTest, StartJob, InitData,
         CalcBegin, CalcVerify, CalcUnmap, CalcCount, CalcSignal, CalcRelease,
         buffers, vars
    <3> QED
      BY <3>1 DEF AllowZKept
  <2> QED
    BY <2>1, <2>2
<1> QED
  BY <1>1, MishapStays

\* An output that is not touched shows what it showed.
LEMMA ShownStays ==
  ASSUME UNCHANGED <<kind, count, gInBuffer, wrong>>, AllowZKept,
         NEW v, mapped'[v] = mapped[v]
  PROVE  Shown(v)' <=> Shown(v)
<1>1. ASSUME NEW k \in 0 .. count - 1, NEW x, NEW y
      PROVE  Passes(kind, gAllowZ'[k], x, y) <=> Passes(kind, gAllowZ[k], x, y)
  BY DEF AllowZKept, Passes, Overlooked
<1> QED
  BY <1>1 DEF Shown

LEMMA OutputsInit ==
  Init => OutputsInOrder /\ CallbacksInOrder /\ ResultsInOrder /\ VerdictGiven
  BY DEF Init, OutputsInOrder, CallbacksInOrder, ResultsInOrder, VerdictGiven, Converting, Junk

\* Steps that leave outputs and callbacks alone.
LEMMA OutputsMove ==
  ASSUME ConvInv, OutputsInOrder, CallbacksInOrder, ResultsInOrder, VerdictGiven,
         AllowZKept, mishap => mishap',
         UNCHANGED <<kind, count, doneBarrier, gInBuffer, mapped, result, wrong, cb>>,
         \/ pc' = pc /\ UNCHANGED <<vectorSize, complete, ret>>
         \/ pc' = "returned" /\ mishap'
         \/ pc \in {"programs", "block"} /\ pc' = "returned" /\ ret' = 0
         \/ <<pc, pc'>> \in {<<"programs", "block">>, <<"split", "init">>, <<"init", "write">>,
                             <<"flush", "prepare">>, <<"prepare", "complete">>}
         \/ pc = "run" /\ pc' = "flush" /\ mishap'
         \/ /\ pc = "complete" /\ pc' = "wait"
            /\ complete' = [complete EXCEPT ![<<"calc", doneBarrier>>] = TRUE]
         \/ pc = "wait" /\ pc' = "collect" /\ complete' = complete
  PROVE  OutputsInOrder' /\ CallbacksInOrder' /\ ResultsInOrder' /\ VerdictGiven'
<1>1. /\ \A v \in Sizes : Shown(v)' <=> Shown(v)
      /\ \A v \in Sizes : Judged(v, result[v])' <=> Judged(v, result[v])
      /\ Sizes' = Sizes /\ FirstWrong' = FirstWrong
  BY ShownStays DEF Judged, Sizes, FirstWrong
<1>3. OutputsInOrder'
  BY <1>1 DEF OutputsInOrder, Converting
<1>4. CallbacksInOrder'
  BY <1>1 DEF CallbacksInOrder
<1>5. ResultsInOrder'
  <2>1. CASE pc = "complete" /\ pc' = "wait"
    <3>1. /\ doneBarrier \in Blocks
          /\ \A v \in VectorSizes : cb[<<v, doneBarrier>>] \in {"none", "registered"}
      BY <2>1 DEF ConvInv, NotYetStarted, Preparing
    <3>2. complete'[<<"calc", doneBarrier>>]
      BY <2>1, <3>1 DEF ConvInv, TypeOK
    <3>3. ~mishap' => \A v \in Sizes : Shown(v)
      BY <2>1 DEF OutputsInOrder
    <3>4. ~mishap' => \A v \in Sizes : cb[<<v, doneBarrier>>] = "registered"
      BY <2>1, <3>1, SizesFacts DEF CallbacksInOrder, ConvInv
    <3> QED
      BY <2>1, <3>1, <3>2, <3>3, <3>4, <1>1 DEF ResultsInOrder
  <2>2. CASE ~(pc = "complete" /\ pc' = "wait")
    BY <2>2, <1>1 DEF ResultsInOrder
  <2> QED
    BY <2>1, <2>2
<1>6. VerdictGiven'
  <2>1. CASE pc \in {"programs", "block"} /\ pc' = "returned" /\ ret' = 0
    BY <2>1 DEF VerdictGiven, OutputsInOrder
  <2>2. CASE pc' = pc /\ UNCHANGED ret
    BY <2>2, <1>1 DEF VerdictGiven
  <2>3. CASE pc' # "returned" \/ mishap'
    BY <2>3 DEF VerdictGiven
  <2> QED
    BY <2>1, <2>2, <2>3
<1> QED
  BY <1>3, <1>4, <1>5, <1>6

LEMMA OutputsQuietSteps ==
  ASSUME ConvInv, OutputsInOrder, CallbacksInOrder, ResultsInOrder, VerdictGiven,
         AllowZKept, mishap => mishap', "wait" \notin Faults,
         \/ MakePrograms \/ SplitBlock \/ PoolReturns \/ Flush \/ SetCalcReferenceValues
         \/ WaitForBarrier \/ FinishTest \/ JobStep \/ Terminated \/ UNCHANGED vars
  PROVE  OutputsInOrder' /\ CallbacksInOrder' /\ ResultsInOrder' /\ VerdictGiven'
<1> USE DEF Return, Abort, suite, frame, buffers, outputs, events, calls
<1>1. CASE MakePrograms
  BY <1>1, OutputsMove DEF MakePrograms
<1>2. CASE SplitBlock
  BY <1>2, OutputsMove DEF SplitBlock
<1>3. CASE PoolReturns
  BY <1>3, OutputsMove DEF PoolReturns
<1>4. CASE Flush
  BY <1>4, OutputsMove DEF Flush
<1>5. CASE SetCalcReferenceValues
  BY <1>5, OutputsMove DEF SetCalcReferenceValues
<1>6. CASE WaitForBarrier
  BY <1>6, OutputsMove DEF WaitForBarrier, Outcomes, MayFail
<1>7. CASE FinishTest
  BY <1>7, OutputsMove DEF FinishTest
<1>8. CASE JobStep
  <2>1. /\ UNCHANGED <<kind, count, doneBarrier, gInBuffer, mapped, result, wrong, cb>>
        /\ UNCHANGED <<pc, vectorSize, complete, ret>>
    BY <1>8 DEF JobStep, StartJob, InitData, PrepareReference
  <2> QED
    BY <2>1, OutputsMove
<1>9. CASE Terminated \/ UNCHANGED vars
  <2>1. /\ UNCHANGED <<kind, count, doneBarrier, gInBuffer, mapped, result, wrong, cb>>
        /\ UNCHANGED <<pc, vectorSize, complete, ret>>
    BY <1>9 DEF Terminated, vars
  <2> QED
    BY <2>1, OutputsMove
<1> QED
  BY <1>1, <1>2, <1>3, <1>4, <1>5, <1>6, <1>7, <1>8, <1>9

\* A test, and a block, begin with nothing wrong.
LEMMA OutputsBegin ==
  ASSUME ConvInv, BlockInOrder, OutputsInOrder,
         \/ \E k \in Kinds : NextTest(k)
         \/ (\E b \in Blocks : CreateEvents(b)) /\ (mishap => mishap')
         \/ WriteInputBuffer /\ (mishap => mishap')
  PROVE  OutputsInOrder' /\ CallbacksInOrder' /\ ResultsInOrder' /\ VerdictGiven'
<1> USE DEF suite, outputs
<1>1. CASE \E k \in Kinds : NextTest(k)
  <2>1. /\ wrong' = {} /\ mapped' = mapped /\ result' = [v \in VectorSizes |-> -1]
        /\ pc' = "programs"
    BY <1>1 DEF NextTest
  <2>2. result' \in [VectorSizes -> Int]
    BY <2>1
  <2> QED
    BY <2>1, <2>2
    DEF OutputsInOrder, CallbacksInOrder, ResultsInOrder, VerdictGiven, Converting
<1>2. CASE (\E b \in Blocks : CreateEvents(b)) /\ (mishap => mishap')
  <2>1. /\ UNCHANGED <<kind, mapped, result, wrong>> /\ pc = "block"
        /\ pc' = "split" \/ (pc' = "returned" /\ mishap')
    BY <1>2 DEF CreateEvents, Abort, Return
  <2> QED
    BY <2>1, <1>2
    DEF OutputsInOrder, CallbacksInOrder, ResultsInOrder, VerdictGiven, Converting, Sizes
<1>3. CASE WriteInputBuffer /\ (mishap => mishap')
  <2>1. /\ UNCHANGED <<kind, mapped, result, wrong, count>> /\ pc = "write"
        /\ \/ pc' = "run" /\ vectorSize' = kind.min
           \/ pc' = "returned" /\ mishap'
    BY <1>3 DEF WriteInputBuffer, Abort, Return, frame
  <2>2. \A v \in Sizes : ~(v < kind.min)
    BY SizesFacts DEF Sizes, ConvInv
  <2>3. Sizes' = Sizes
    BY <2>1 DEF Sizes
  <2> QED
    BY <2>1, <2>2, <2>3, <1>3
    DEF OutputsInOrder, CallbacksInOrder, ResultsInOrder, VerdictGiven, Converting
<1> QED
  BY <1>1, <1>2, <1>3

\* What WrongResults holds: some elements of the block, with integers.
LEMMA WrongResultsFacts ==
  ASSUME NEW bad \in WrongResults
  PROVE  DOMAIN bad \subseteq 0 .. count - 1 /\ \A k \in DOMAIN bad : bad[k] \in Int
<1> DEFINE Y == {Zero} \cup {y \in {Bad} : kind.denormals # {}}
                       \cup {y \in {NaN} : kind.out # "int"}
<1>1. PICK S \in SUBSET (0 .. count - 1) : bad \in [S -> Y]
  BY DEF WrongResults
<1>2. Y \subseteq Int
  BY DEF Zero, Bad, NaN
<1> QED
  BY <1>1, <1>2

\* A kernel: what it converts wrong is in its output.
LEMMA OutputsRun ==
  ASSUME ConvInv, BlockInOrder, InputsInOrder, OutputsInOrder, CallbacksInOrder,
         ResultsInOrder, VerdictGiven, AllowZKept, mishap => mishap',
         NEW bad \in WrongResults, NEW v \in VectorSizes, RunAndMap(bad, v)
  PROVE  OutputsInOrder' /\ CallbacksInOrder' /\ ResultsInOrder' /\ VerdictGiven'
<1> USE DEF suite, frame, buffers, outputs, events, calls
<1> DEFINE new == {<<v, k>> : k \in {n \in DOMAIN bad : ~Passes(kind, gAllowZ[n], gInBuffer[n], bad[n])}}
           good == [k \in Elements |-> IF k >= count THEN mapped[v][k]
                                       ELSE IF k \in DOMAIN bad THEN bad[k]
                                       ELSE Reference(kind, gInBuffer[k])]
<1> HIDE DEF new, good
<1>1. /\ UNCHANGED <<kind, count, doneBarrier, gInBuffer, gAllowZ, result, cb, ret>>
      /\ pc = "run" /\ v = vectorSize
      /\ \/ pc' = "flush" /\ mishap' /\ UNCHANGED <<mapped, wrong>>
         \/ /\ mapped' = [mapped EXCEPT ![v] = good]
            /\ wrong' = wrong \cup new
            /\ \/ v + 1 < gMaxVectorSize /\ pc' = "run" /\ vectorSize' = v + 1
               \/ ~(v + 1 < gMaxVectorSize) /\ pc' = "register" /\ vectorSize' = kind.min
  BY DEF RunAndMap, new, good
<1>2. CASE pc' = "flush" /\ mishap' /\ UNCHANGED <<mapped, wrong>>
  BY <1>1, <1>2, OutputsMove
<1>3. CASE ~(pc' = "flush" /\ mishap' /\ UNCHANGED <<mapped, wrong>>)
  <2>1. /\ mapped' = [mapped EXCEPT ![v] = good]
        /\ wrong' = wrong \cup new
        /\ \/ v + 1 < gMaxVectorSize /\ pc' = "run" /\ vectorSize' = v + 1
           \/ ~(v + 1 < gMaxVectorSize) /\ pc' = "register" /\ vectorSize' = kind.min
    BY <1>1, <1>3
  <2>2. /\ v \in Sizes /\ Sizes' = Sizes /\ Sizes \subseteq VectorSizes /\ Sizes \subseteq Int
        /\ \A w \in Sizes : w < gMaxVectorSize
        /\ gMaxVectorSize \in Int
    BY <1>1, SizesFacts, ConversionAssumption DEF ConvInv, BarrierIsSet, Sizes
  <2>3. DOMAIN bad \subseteq 0 .. count - 1 /\ \A k \in DOMAIN bad : bad[k] \in Int
    BY WrongResultsFacts
  <2>4. count \in Int /\ 0 .. count - 1 \subseteq Elements /\ Elements \subseteq Int
    BY ConversionAssumption DEF BlockInOrder, Elements
  <2>5. good \in [Elements -> Int]
    BY <2>2, <2>3 DEF good, OutputsInOrder, InputsInOrder, Reference, Fixed, Zero
  <2>6. mapped' \in [VectorSizes -> [Elements -> Int]]
    BY <2>1, <2>5 DEF OutputsInOrder
  <2>7. new \subseteq Sizes \X Elements /\ \A p \in new : p[1] = v /\ p[2] < count
    BY <2>2, <2>3, <2>4 DEF new
  <2>8. wrong' \subseteq Sizes' \X Elements
    BY <2>1, <2>2, <2>7 DEF OutputsInOrder
  <2>9. ASSUME ~mishap' PROVE /\ \A p \in wrong' : p[2] < count /\ p[1] < v + 1
                            /\ \A w \in Sizes : w < v + 1 => Shown(w)'
    <3>1. \A p \in wrong : p[1] < v /\ p[2] < count
      BY <1>1, <2>9 DEF OutputsInOrder, Converting
    <3>2. \A p \in wrong' : p[2] < count /\ p[1] < v + 1
      <4>1. \A p \in wrong : p[1] \in Int
        BY <2>2 DEF OutputsInOrder
      <4> QED
        BY <2>1, <2>2, <2>7, <3>1, <4>1
    <3>3. ASSUME NEW k \in 0 .. count - 1
          PROVE  <<v, k>> \in wrong' <=>
                   ~Passes(kind, gAllowZ[k], gInBuffer[k], mapped'[v][k])
      <4>1. <<v, k>> \notin wrong
        BY <2>2, <3>1
      <4>2. mapped'[v][k] = IF k \in DOMAIN bad THEN bad[k]
                            ELSE Reference(kind, gInBuffer[k])
        BY <2>1, <2>4 DEF good, OutputsInOrder
      <4>3. <<v, k>> \in new <=>
              k \in DOMAIN bad /\ ~Passes(kind, gAllowZ[k], gInBuffer[k], bad[k])
        BY DEF new
      <4> QED
        BY <2>1, <4>1, <4>2, <4>3 DEF Passes, Right
    <3>5. Shown(v)'
      BY <1>1, <3>3 DEF Shown
    <3>6. ASSUME NEW w \in Sizes, w < v PROVE Shown(w)'
      <4>1. Shown(w)
        BY <1>1, <2>9, <3>6 DEF OutputsInOrder
      <4>2. w # v /\ mapped'[w] = mapped[w]
        BY <2>1, <2>2, <3>6 DEF OutputsInOrder
      <4>3. \A k \in 0 .. count - 1 : <<w, k>> \in wrong' <=> <<w, k>> \in wrong
        BY <2>1, <4>2 DEF new
      <4> QED
        BY <1>1, <4>1, <4>2, <4>3 DEF Shown
    <3> QED
      BY <2>2, <3>2, <3>5, <3>6
  <2>10. OutputsInOrder'
    <3>1. result' \in [VectorSizes -> Int]
      BY <1>1 DEF OutputsInOrder
    <3>2. CASE pc' = "run" /\ vectorSize' = v + 1
      BY <2>6, <2>8, <2>9, <2>2, <3>1, <3>2, <1>1 DEF OutputsInOrder
    <3>3. CASE pc' = "register" /\ ~(v + 1 < gMaxVectorSize)
      <4>1. \A w \in Sizes : w < v + 1
        BY <2>2, <3>3
      <4>2. ~mishap' => (\A p \in wrong' : p[2] < count) /\ \A w \in Sizes : Shown(w)'
        BY <2>9, <4>1
      <4> QED
        BY <2>6, <2>8, <4>2, <2>2, <3>1, <3>3, <1>1 DEF OutputsInOrder
    <3> QED
      BY <2>1, <3>2, <3>3
  <2>11. CallbacksInOrder'
    <3>1. \A w \in Sizes : ~(w < kind.min)
      BY SizesFacts DEF Sizes, ConvInv
    <3> QED
      BY <2>1, <2>2, <3>1 DEF CallbacksInOrder
  <2> QED
    BY <2>1, <2>10, <2>11 DEF ResultsInOrder, VerdictGiven
<1> QED
  BY <1>2, <1>3

\* A registration: the callback is there, unless it is counted as failed.
LEMMA OutputsRegister ==
  ASSUME ConvInv, OutputsInOrder, CallbacksInOrder, ResultsInOrder, VerdictGiven,
         AllowZKept, mishap => mishap',
         NEW v \in VectorSizes, MapResultValuesComplete(v)
  PROVE  OutputsInOrder' /\ CallbacksInOrder' /\ ResultsInOrder' /\ VerdictGiven'
<1> USE DEF suite, frame, buffers, outputs, events, calls
<1>1. /\ UNCHANGED <<kind, count, doneBarrier, gInBuffer, result, mapped, wrong>>
      /\ pc = "register" /\ v = vectorSize /\ vectorSize' = v + 1
      /\ pc' = IF v + 1 < gMaxVectorSize THEN "register" ELSE "flush"
  BY DEF MapResultValuesComplete
<1>2. ~mishap' => ~mishap /\ cb' = [cb EXCEPT ![<<v, doneBarrier>>] = "registered"]
  <2>1. PICK set \in BOOLEAN, more \in BOOLEAN :
          /\ cb' = IF set THEN [cb EXCEPT ![<<v, doneBarrier>>] = "registered"] ELSE cb
          /\ mishap' = (mishap \/ (~set \/ more))
    <3>1. PICK set \in Outcomes("setCallback"), released \in Outcomes("release"),
               flushed \in Outcomes("flush") :
          /\ cb' = IF set THEN [cb EXCEPT ![<<v, doneBarrier>>] = "registered"] ELSE cb
          /\ mishap' = (mishap \/ (~set \/ ~released \/ (~flushed /\ v + 1 = gMaxVectorSize)))
      BY Zenon DEF MapResultValuesComplete
    <3>2. set \in BOOLEAN
      BY DEF Outcomes
    <3>3. CASE ~released \/ (~flushed /\ v + 1 = gMaxVectorSize)
      BY <3>1, <3>2, <3>3, Zenon
    <3>4. CASE ~(~released \/ (~flushed /\ v + 1 = gMaxVectorSize))
      BY <3>1, <3>2, <3>4, Zenon
    <3> QED
      BY <3>3, <3>4
  <2>2. CASE mishap'
    BY <2>2
  <2>3. CASE ~mishap'
    <3>1. ~mishap /\ set
      BY <2>1, <2>3, Zenon
    <3> QED
      BY <2>1, <3>1
  <2> QED
    BY <2>2, <2>3
<1>3. /\ v \in Sizes /\ Sizes' = Sizes /\ Sizes \subseteq VectorSizes /\ Sizes \subseteq Int
      /\ \A w \in Sizes : w < gMaxVectorSize
      /\ gMaxVectorSize \in Int /\ doneBarrier \in Blocks
  BY <1>1, SizesFacts, ConversionAssumption DEF ConvInv, BarrierIsSet, Sizes, NotYetStarted, Preparing
<1>4. \A w \in Sizes : Shown(w)' <=> Shown(w)
  BY <1>1, ShownStays
<1>5. OutputsInOrder'
  BY <1>1, <1>3, <1>4 DEF OutputsInOrder, Converting
<1>6. CallbacksInOrder'
  <2> SUFFICES ASSUME ~mishap', NEW w \in Sizes, w < v + 1 PROVE cb'[<<w, doneBarrier>>] # "none"
    BY <1>1, <1>3 DEF CallbacksInOrder
  <2>1. /\ cb' = [cb EXCEPT ![<<v, doneBarrier>>] = "registered"]
        /\ w < v => cb[<<w, doneBarrier>>] # "none"
    BY <1>1, <1>2 DEF CallbacksInOrder
  <2>2. w < v \/ w = v
    BY <1>3
  <2> QED
    BY <1>3, <2>1, <2>2 DEF ConvInv, TypeOK
<1> QED
  BY <1>1, <1>5, <1>6 DEF ResultsInOrder, VerdictGiven

\* A step of a callback is one of its block's wait that leaves its output there
\* or judged, or it comes after that and leaves outputs and results alone.
LEMMA OutputsCallback ==
  ASSUME ConvInv, OutputsInOrder, CallbacksInOrder, ResultsInOrder, VerdictGiven,
         AllowZKept, mishap => mishap',
         NEW v \in VectorSizes, NEW b \in Blocks, NEW s, s # "none",
         UNCHANGED <<kind, count, doneBarrier, gInBuffer, pc, vectorSize, ret, wrong>>,
         mapped' \in [VectorSizes -> [Elements -> Int]], result' \in [VectorSizes -> Int],
         \A c \in Blocks : complete[<<"calc", c>>] => complete'[<<"calc", c>>],
         cb' = [cb EXCEPT ![<<v, b>>] = s],
         \A w \in VectorSizes \ {v} : mapped'[w] = mapped[w] /\ result'[w] = result[w],
         \/ cb[<<v, b>>] = "release" /\ s = "over" /\ UNCHANGED <<mapped, result>>
         \/ /\ pc = "wait" /\ b = doneBarrier
            /\ ~mishap' /\ v \in Sizes =>
                 IF s \in {"registered", "verify"} THEN Shown(v)' ELSE Judged(v, result[v])'
  PROVE  OutputsInOrder' /\ CallbacksInOrder' /\ ResultsInOrder' /\ VerdictGiven'
<1>1. Sizes' = Sizes /\ FirstWrong' = FirstWrong /\ Sizes \subseteq VectorSizes
  BY SizesFacts DEF Sizes, FirstWrong, ConvInv
<1>2. \A w \in Sizes \ {v} : /\ Shown(w)' <=> Shown(w)
                             /\ Judged(w, result[w])' <=> Judged(w, result[w])
  BY <1>1, ShownStays DEF Judged
<1>3. /\ \A c \in VectorSizes \X Blocks : cb'[c] = IF c = <<v, b>> THEN s ELSE cb[c]
      /\ \A c \in VectorSizes \X Blocks : cb[c] # "none" => cb'[c] # "none"
  BY DEF ConvInv, TypeOK
<1>4. VerdictGiven'
  BY <1>1 DEF VerdictGiven
<1>5. pc \in {"flush", "prepare", "complete", "wait", "collect", "register"} => doneBarrier \in Blocks
  BY DEF ConvInv, NotYetStarted, Preparing, ResultsInOrder
<1>6. CallbacksInOrder'
  <2> SUFFICES ASSUME ~mishap' PROVE CallbacksInOrder'
    BY DEF CallbacksInOrder
  <2>1. \A w \in Sizes : doneBarrier \in Blocks /\ cb[<<w, doneBarrier>>] # "none"
                         => cb'[<<w, doneBarrier>>] # "none"
    BY <1>1, <1>3
  <2> QED
    BY <1>1, <1>5, <2>1 DEF CallbacksInOrder
<1>7. CASE cb[<<v, b>>] = "release" /\ s = "over" /\ UNCHANGED <<mapped, result>>
  <2>1. \A w \in Sizes : /\ Shown(w)' <=> Shown(w)
                         /\ Judged(w, result[w])' <=> Judged(w, result[w])
    BY <1>7, ShownStays DEF Judged
  <2>2. OutputsInOrder'
    BY <1>1, <2>1, <1>7 DEF OutputsInOrder, Converting
  <2>3. \A w \in Sizes : doneBarrier \in Blocks =>
          (cb'[<<w, doneBarrier>>] \in {"registered", "verify"}
             <=> cb[<<w, doneBarrier>>] \in {"registered", "verify"})
    BY <1>1, <1>3, <1>7
  <2>4. ResultsInOrder'
    BY <1>1, <2>1, <2>3 DEF ResultsInOrder
  <2> QED
    BY <1>4, <1>6, <2>2, <2>4
<1>8. CASE /\ pc = "wait" /\ b = doneBarrier
           /\ ~mishap' /\ v \in Sizes =>
                IF s \in {"registered", "verify"} THEN Shown(v)' ELSE Judged(v, result[v])'
  <2>1. OutputsInOrder'
    BY <1>1, <1>8 DEF OutputsInOrder, Converting
  <2>2. ASSUME ~mishap', NEW w \in Sizes
        PROVE  IF cb'[<<w, doneBarrier>>] \in {"registered", "verify"}
               THEN Shown(w)' ELSE Judged(w, result[w])'
    <3>1. CASE w = v
      BY <1>3, <1>8, <2>2, <3>1
    <3>2. CASE w # v
      <4>1. cb'[<<w, doneBarrier>>] = cb[<<w, doneBarrier>>]
        BY <1>1, <1>3, <1>8, <3>2
      <4> QED
        BY <1>2, <1>8, <2>2, <3>2, <4>1 DEF ResultsInOrder
    <3> QED
      BY <3>1, <3>2
  <2>3. ResultsInOrder'
    BY <1>1, <1>8, <2>2 DEF ResultsInOrder
  <2> QED
    BY <1>4, <1>6, <2>1, <2>3
<1> QED
  BY <1>7, <1>8

LEMMA CheckIsInt ==
  ASSUME BlockInOrder, NEW v PROVE check_result(v) \in Int
<1> DEFINE differs == {k \in 0 .. count - 1 :
                         LET y == Fixed(kind, gIn[k], mapped[v][k]) IN
                         /\ y # gRef[k]
                         /\ ~(IsNaN(kind, y) /\ TakesNaN(kind, gRef[k]))
                         /\ ~(gAllowZ[k] /\ y = Zero)}
<1>1. differs \subseteq Nat
  BY ConversionAssumption DEF BlockInOrder
<1> HIDE DEF differs
<1>2. check_result(v) = IF differs = {} THEN 0
                        ELSE 1 + CHOOSE k \in differs : \A n \in differs : k <= n
  BY DEF check_result, differs
<1>3. CASE differs = {}
  BY <1>2, <1>3
<1>4. CASE differs # {}
  <2>1. \E k \in differs : \A n \in differs : k <= n
    BY <1>1, <1>4, LeastElement
  <2>2. (CHOOSE k \in differs : \A n \in differs : k <= n) \in Nat
    BY <1>1, <2>1
  <2> QED
    BY <1>2, <1>4, <2>2
<1> QED
  BY <1>3, <1>4

\* check_result finds the first element that does not pass: it reads the input from
\* the reference, and takes a NaN or a zero for right exactly where Passes does.
LEMMA CheckJudges ==
  ASSUME ConvInv, BlockInOrder, ReferencesInOrder, InputsInOrder, OutputsInOrder, ~mishap,
         pc = "wait", NEW v \in Sizes, Shown(v)
  PROVE  Judged(v, check_result(v))
<1> DEFINE differs == {k \in 0 .. count - 1 :
                         LET y == Fixed(kind, gIn[k], mapped[v][k]) IN
                         /\ y # gRef[k]
                         /\ ~(IsNaN(kind, y) /\ TakesNaN(kind, gRef[k]))
                         /\ ~(gAllowZ[k] /\ y = Zero)}
           bad == {k \in Elements : <<v, k>> \in wrong}
<1> HIDE DEF differs, bad
<1>1. count \in Int /\ 0 .. count - 1 \subseteq Elements /\ Elements \subseteq Nat
  BY ConversionAssumption DEF BlockInOrder, Elements
<1>2. ASSUME NEW k \in 0 .. count - 1
      PROVE  k \in differs <=> ~Passes(kind, gAllowZ[k], gInBuffer[k], mapped[v][k])
  <2> DEFINE x == gInBuffer[k]
             z == mapped[v][k]
  <2>1. Referenced(k) /\ gInBuffer[k] = gIn[k]
    BY DEF ReferencesInOrder, InputsInOrder, Converting
  <2>2. gRef[k] = Reference(kind, x) /\ (~kind.same => (gAllowZ[k] <=> x \in kind.denormals))
    BY <2>1 DEF Referenced
  <2>3. k \in differs <=> LET y == Fixed(kind, x, z) IN
                          /\ y # Reference(kind, x)
                          /\ ~(IsNaN(kind, y) /\ TakesNaN(kind, Reference(kind, x)))
                          /\ ~(gAllowZ[k] /\ y = Zero)
    BY <2>1, <2>2 DEF differs
  <2>4. x \in Int
    BY <1>1 DEF InputsInOrder
  <2> HIDE DEF x, z
  <2>5. CASE NaNToInt(kind, x)
    <3>1. Fixed(kind, x, z) = Reference(kind, x)
      BY <2>5 DEF Fixed, Reference
    <3>2. k \notin differs
      BY <2>3, <3>1, Zenon
    <3>3. Passes(kind, gAllowZ[k], x, z)
      BY <2>5 DEF NaNToInt, Passes, Right
    <3> QED
      BY <3>2, <3>3, Zenon DEF x, z
  <2>6. CASE ~NaNToInt(kind, x)
    <3>1. /\ Fixed(kind, x, z) = z /\ Reference(kind, x) = x + 1
      BY <2>6 DEF Fixed, Reference
    <3>2. (x + 1) - 1 = x
      BY <2>4
    <3>3. TakesNaN(kind, x + 1) <=>
            /\ kind.out # "int"
            /\ x \in kind.nans \/ (kind.out = "double" /\ x \in kind.huge)
      BY <3>2 DEF TakesNaN
    <3>4. k \in differs <=> /\ z # x + 1
                            /\ ~(IsNaN(kind, z) /\ TakesNaN(kind, x + 1))
                            /\ ~(gAllowZ[k] /\ z = Zero)
      BY <2>3, <3>1
    <3>5. x \in kind.nans \/ kind.out = "double" => kind.out # "int"
      BY <2>6 DEF NaNToInt
    <3>6. Passes(kind, gAllowZ[k], x, z) <=>
            \/ z = x + 1
            \/ z = Zero /\ ~kind.same /\ x \in kind.denormals
            \/ x \in kind.nans /\ IsNaN(kind, z)
            \/ kind.out = "double" /\ x \in kind.huge /\ IsNaN(kind, z)
            \/ kind.same /\ gAllowZ[k] /\ z = Zero
      BY <3>1, <3>5 DEF Passes, Right, Overlooked
    <3> QED
      BY <2>2, <3>3, <3>4, <3>5, <3>6, Zenon DEF x, z
  <2> QED
    BY <2>5, <2>6 DEF x, z
<1>3. differs = bad
  <2>1. \A k \in bad : k \in 0 .. count - 1
    <3>1. \A k \in bad : k < count
      BY DEF OutputsInOrder, Converting, bad
    <3> QED
      BY <1>1, <3>1 DEF bad
  <2>2. \A k \in 0 .. count - 1 : 
          k \in bad <=> ~Passes(kind, gAllowZ[k], gInBuffer[k], mapped[v][k])
    BY <1>1 DEF Shown, bad
  <2>3. \A k \in differs : k \in 0 .. count - 1
    BY DEF differs
  <2> QED
    BY <1>2, <2>1, <2>2, <2>3
<1>4. check_result(v) = IF differs = {} THEN 0
                        ELSE 1 + CHOOSE k \in differs : \A n \in differs : k <= n
  BY DEF check_result, differs
<1>5. CASE bad = {}
  BY <1>3, <1>4, <1>5 DEF Judged, bad
<1>6. CASE bad # {}
  <2>1. bad \subseteq Nat
    BY <1>1 DEF bad
  <2>2. \E k \in bad : \A n \in bad : k <= n
    BY <1>6, <2>1, LeastElement
  <2> DEFINE m == CHOOSE k \in bad : \A n \in bad : k <= n
  <2>3. m \in bad /\ \A n \in bad : m <= n
    BY <2>2
  <2> HIDE DEF m
  <2>4. check_result(v) = 1 + m
    BY <1>3, <1>4, <1>6 DEF m
  <2>5. check_result(v) - 1 = m
    BY <2>1, <2>3, <2>4
  <2> QED
    BY <1>6, <2>3, <2>5 DEF Judged, bad
<1> QED
  BY <1>5, <1>6

\* The callbacks.
LEMMA OutputsCallbackSteps ==
  ASSUME ConvInv, BlockInOrder, ReferencesInOrder, InputsInOrder, OutputsInOrder,
         CallbacksInOrder, ResultsInOrder, VerdictGiven, AllowZKept, mishap => mishap',
         NEW v \in VectorSizes, NEW b \in Blocks, Callback(v, b)
  PROVE  OutputsInOrder' /\ CallbacksInOrder' /\ ResultsInOrder' /\ VerdictGiven'
<1> USE DEF suite, frame, buffers, outputs, events, calls
<1>1. /\ mapped \in [VectorSizes -> [Elements -> Int]] /\ result \in [VectorSizes -> Int]
      /\ Sizes \subseteq VectorSizes
  BY SizesFacts DEF OutputsInOrder, ConvInv
<1>2. InPlace(v, b)
  BY DEF ConvInv, CallbacksInPlace
<1>4. CASE CalcBegin(v, b)
  <2>1. pc = "wait" /\ b = doneBarrier
    BY <1>2, <1>4 DEF CalcBegin, InPlace
  <2>2. /\ UNCHANGED <<kind, count, doneBarrier, gInBuffer, pc, vectorSize, ret, wrong>>
        /\ UNCHANGED <<mapped, result, complete>> /\ cb[<<v, b>>] = "registered"
    BY <1>4 DEF CalcBegin
  <2>3. PICK ok \in BOOLEAN : /\ cb' = [cb EXCEPT ![<<v, b>>] = IF ok THEN "verify" ELSE "over"]
                              /\ mishap' = (mishap \/ ~ok)
    BY <1>4, Zenon DEF CalcBegin, Outcomes
  <2>4. Shown(v)' <=> Shown(v)
    BY <2>2, ShownStays
  <2>5. CASE ok
    <3>1. ~mishap' /\ v \in Sizes => Shown(v)'
      BY <2>1, <2>2, <2>4 DEF ResultsInOrder
    <3>2. cb' = [cb EXCEPT ![<<v, b>>] = "verify"]
      BY <2>3, <2>5
    <3> QED
      BY <1>1, <2>1, <2>2, <3>1, <3>2, OutputsCallback
  <2>6. CASE ~ok
    <3>1. mishap'
      BY <2>3, <2>6, Zenon
    <3>2. cb' = [cb EXCEPT ![<<v, b>>] = "over"]
      BY <2>3, <2>6
    <3> QED
      BY <1>1, <2>1, <2>2, <3>1, <3>2, OutputsCallback
  <2> QED
    BY <2>5, <2>6
<1>5. CASE CalcVerify(v, b)
  <2>1. pc = "wait" /\ b = doneBarrier
    BY <1>2, <1>5 DEF CalcVerify, InPlace, AtWork
  <2>2. /\ UNCHANGED <<kind, count, doneBarrier, gInBuffer, pc, vectorSize, ret, wrong>>
        /\ UNCHANGED <<mapped, complete>> /\ cb[<<v, b>>] = "verify"
        /\ result' = [result EXCEPT ![v] = check_result(v)]
        /\ cb' = [cb EXCEPT ![<<v, b>>] = "unmap"]
    BY <1>5 DEF CalcVerify
  <2>3. check_result(v) \in Int
    BY CheckIsInt
  <2>4. result' \in [VectorSizes -> Int] /\ \A w \in VectorSizes \ {v} : result'[w] = result[w]
    BY <1>1, <2>2, <2>3
  <2>5. ASSUME ~mishap', v \in Sizes PROVE Judged(v, result[v])'
    <3>1. Shown(v)
      BY <2>1, <2>2, <2>5 DEF ResultsInOrder
    <3>2. Judged(v, check_result(v))
      BY <2>1, <2>5, <3>1, CheckJudges
    <3>3. result'[v] = check_result(v)
      BY <1>1, <2>2
    <3> QED
      BY <2>2, <3>2, <3>3 DEF Judged
  <2> QED
    BY <1>1, <2>1, <2>2, <2>4, <2>5, OutputsCallback
<1>6. CASE CalcUnmap(v, b)
  <2>1. pc = "wait" /\ b = doneBarrier
    BY <1>2, <1>6 DEF CalcUnmap, InPlace, AtWork
  <2>2. /\ UNCHANGED <<kind, count, doneBarrier, gInBuffer, pc, vectorSize, ret, wrong>>
        /\ UNCHANGED <<result, complete>> /\ cb[<<v, b>>] = "unmap"
        /\ mapped' = [mapped EXCEPT ![v] =
                        [k \in Elements |-> IF k < count THEN Junk ELSE mapped[v][k]]]
        /\ cb' = [cb EXCEPT ![<<v, b>>] = "count"]
    BY <1>6 DEF CalcUnmap
  <2>3. /\ mapped' \in [VectorSizes -> [Elements -> Int]]
        /\ \A w \in VectorSizes \ {v} : mapped'[w] = mapped[w]
    BY <1>1, <2>2 DEF Junk
  <2>4. Judged(v, result[v])' <=> Judged(v, result[v])
    BY <2>2 DEF Judged
  <2>5. ~mishap' /\ v \in Sizes => Judged(v, result[v])'
    BY <2>1, <2>2, <2>4 DEF ResultsInOrder
  <2> QED
    BY <1>1, <2>1, <2>2, <2>3, <2>5, OutputsCallback
<1>7. CASE CalcCount(v, b) \/ CalcSignal(v, b)
  <2>1. pc = "wait" /\ b = doneBarrier
    BY <1>2, <1>7 DEF CalcCount, CalcSignal, InPlace, AtWork
  <2>2. /\ UNCHANGED <<kind, count, doneBarrier, gInBuffer, pc, vectorSize, ret, wrong>>
        /\ UNCHANGED <<mapped, result>> /\ cb[<<v, b>>] \in {"count", "signal"}
    BY <1>7 DEF CalcCount, CalcSignal
  <2>3. \A c \in Blocks : complete'[<<"calc", c>>] = complete[<<"calc", c>>]
    BY <1>7 DEF CalcCount, CalcSignal, ConvInv, TypeOK
  <2>4. PICK s \in {"signal", "release", "over"} : cb' = [cb EXCEPT ![<<v, b>>] = s]
    BY <1>7 DEF CalcCount, CalcSignal
  <2>5. Judged(v, result[v])' <=> Judged(v, result[v])
    BY <2>2 DEF Judged
  <2>6. ~mishap' /\ v \in Sizes => Judged(v, result[v])'
    BY <2>1, <2>2, <2>5 DEF ResultsInOrder
  <2> QED
    BY <1>1, <2>1, <2>2, <2>3, <2>4, <2>6, OutputsCallback
<1>8. CASE CalcRelease(v, b)
  <2>1. /\ UNCHANGED <<kind, count, doneBarrier, gInBuffer, pc, vectorSize, ret, wrong>>
        /\ UNCHANGED <<mapped, result, complete>> /\ cb[<<v, b>>] = "release"
        /\ cb' = [cb EXCEPT ![<<v, b>>] = "over"]
    BY <1>8 DEF CalcRelease
  <2> QED
    BY <1>1, <2>1, OutputsCallback
<1> QED
  BY <1>4, <1>5, <1>6, <1>7, <1>8 DEF Callback

\* DoTest reads the results: the first one that is not zero is the one of the
\* first vector size with a wrong element.
LEMMA FirstResultIsRight ==
  ASSUME ConvInv, OutputsInOrder, \A v \in Sizes : Judged(v, result[v])
  PROVE  /\ FirstResult(result) = 0 => wrong = {}
         /\ FirstResult(result) # 0 =>
              /\ wrong # {}
              /\ FirstResult(result) - 1 \in FirstWrong
              /\ \A k \in FirstWrong : FirstResult(result) - 1 <= k
<1> DEFINE failed == {v \in Sizes : result[v] # 0}
           bad(v) == {k \in Elements : <<v, k>> \in wrong}
<1>1. /\ Sizes \subseteq Nat /\ Elements \subseteq Nat /\ wrong \subseteq Sizes \X Elements
      /\ \A v \in Sizes : result[v] \in Int
  <2>1. TypeOK /\ Elements \subseteq Nat
    BY ConversionAssumption DEF ConvInv, Elements
  <2>2. Sizes \subseteq Nat /\ Sizes \subseteq VectorSizes
    BY <2>1, SizesFacts DEF Sizes
  <2> QED
    BY <2>1, <2>2 DEF OutputsInOrder
<1>2. ASSUME NEW v \in Sizes
      PROVE  /\ v \in failed <=> bad(v) # {}
             /\ v \in failed => result[v] - 1 \in bad(v) /\ \A k \in bad(v) : result[v] - 1 <= k
  <2>1. IF bad(v) = {} THEN result[v] = 0
        ELSE result[v] - 1 \in bad(v) /\ \A k \in bad(v) : result[v] - 1 <= k
    BY DEF Judged
  <2>2. bad(v) \subseteq Nat
    BY <1>1
  <2>3. v \in failed <=> result[v] # 0
    OBVIOUS
  <2> HIDE DEF bad, failed
  <2> QED
    BY <1>1, <2>1, <2>2, <2>3
<1>3. \A p \in wrong : p[1] \in failed
  <2> SUFFICES ASSUME NEW p \in wrong PROVE p[1] \in failed
    OBVIOUS
  <2>1. p[1] \in Sizes /\ p[2] \in Elements /\ p = <<p[1], p[2]>>
    BY <1>1
  <2>2. p[2] \in bad(p[1])
    BY <2>1
  <2> QED
    BY <1>2, <2>1, <2>2
<1>4. FirstResult(result) = IF failed = {} THEN 0
                            ELSE result[CHOOSE v \in failed : \A w \in failed : v <= w]
  BY DEF FirstResult
<1>5. CASE failed = {}
  BY <1>3, <1>4, <1>5
<1>6. CASE failed # {}
  <2>1. failed \subseteq Nat
    BY <1>1
  <2>2. \E v \in failed : \A w \in failed : v <= w
    BY <1>6, <2>1, LeastElement
  <2> DEFINE m == CHOOSE v \in failed : \A w \in failed : v <= w
  <2>3. m \in failed /\ \A w \in failed : m <= w
    BY <2>2
  <2> HIDE DEF m
  <2>4. FirstResult(result) = result[m] /\ result[m] # 0
    BY <1>4, <1>6, <2>3 DEF m
  <2>5. /\ m \in Sizes /\ \E k \in Elements : <<m, k>> \in wrong
        /\ \A p \in wrong : m <= p[1]
    BY <1>2, <1>3, <2>3
  <2>6. \A v \in Sizes : (\E k \in Elements : <<v, k>> \in wrong) /\ (\A p \in wrong : v <= p[1])
                         => v = m
    <3> SUFFICES ASSUME NEW v \in Sizes, NEW k \in Elements, <<v, k>> \in wrong,
                        \A p \in wrong : v <= p[1]
                 PROVE  v = m
      OBVIOUS
    <3>1. m <= v
      BY <2>5
    <3>2. v <= m
      BY <2>5
    <3> QED
      BY <1>1, <2>5, <3>1, <3>2
  <2>7. (CHOOSE v \in Sizes : /\ \E k \in Elements : <<v, k>> \in wrong
                              /\ \A p \in wrong : v <= p[1]) = m
    BY <2>5, <2>6
  <2>8. FirstWrong = bad(m)
    BY <2>7 DEF FirstWrong
  <2>9. wrong # {}
    BY <2>5
  <2> QED
    BY <1>2, <2>3, <2>4, <2>8, <2>9
<1> QED
  BY <1>5, <1>6

LEMMA OutputsCollect ==
  ASSUME ConvInv, OutputsInOrder, CallbacksInOrder, ResultsInOrder, VerdictGiven,
         mishap => mishap', CollectResults
  PROVE  OutputsInOrder' /\ CallbacksInOrder' /\ ResultsInOrder' /\ VerdictGiven'
<1> USE DEF suite, frame, buffers, outputs, events, calls
<1>1. /\ UNCHANGED <<kind, mapped, result, wrong>> /\ pc = "collect"
      /\ \/ pc' = "returned" /\ mishap'
         \/ pc' = "returned" /\ FirstResult(result) # 0 /\ ret' = FirstResult(result)
         \/ pc' = "block" /\ FirstResult(result) = 0
  BY DEF CollectResults, Abort, Return
<1>2. ASSUME ~mishap', NEW v \in Sizes PROVE Judged(v, result[v])
  <2>1. /\ v \in VectorSizes /\ doneBarrier \in Blocks /\ complete[<<"calc", doneBarrier>>]
    BY <1>1, SizesFacts DEF ResultsInOrder, ConvInv
  <2>2. InPlace(v, doneBarrier)
    BY <2>1 DEF ConvInv, CallbacksInPlace
  <2>3. cb[<<v, doneBarrier>>] \notin {"registered", "verify"}
    BY <1>1, <2>1, <2>2 DEF InPlace, AtWork
  <2> QED
    BY <1>1, <1>2, <2>3 DEF ResultsInOrder
<1>3. Sizes' = Sizes /\ FirstWrong' = FirstWrong
  BY <1>1 DEF Sizes, FirstWrong
<1>5. CASE ~mishap'
  <2>1. /\ FirstResult(result) = 0 => wrong = {}
        /\ FirstResult(result) # 0 =>
             /\ wrong # {}
             /\ FirstResult(result) - 1 \in FirstWrong
             /\ \A k \in FirstWrong : FirstResult(result) - 1 <= k
    BY <1>2, <1>5, FirstResultIsRight
  <2> QED
    BY <1>1, <1>3, <1>5, <2>1
    DEF OutputsInOrder, CallbacksInOrder, ResultsInOrder, VerdictGiven, Converting
<1>6. CASE mishap'
  BY <1>1, <1>3, <1>6
  DEF OutputsInOrder, CallbacksInOrder, ResultsInOrder, VerdictGiven
<1> QED
  BY <1>5, <1>6

LEMMA OutputsNext ==
  ASSUME ConvInv, DataInv, "wait" \notin Faults, [Next]_vars
  PROVE  OutputsInOrder' /\ CallbacksInOrder' /\ ResultsInOrder' /\ VerdictGiven'
<1> USE DEF DataInv
<1>1. CASE \E k \in Kinds : NextTest(k)
  BY <1>1, OutputsBegin
<1>2. CASE Next /\ ~\E k \in Kinds : NextTest(k)
  <2>1. (mishap => mishap') /\ AllowZKept
    BY <1>2, StaysWithinTest
  <2>2. CASE DoTestStep
    BY <2>1, <2>2, OutputsQuietSteps, OutputsBegin, OutputsRun, OutputsRegister, OutputsCollect
    DEF DoTestStep
  <2>3. CASE JobStep \/ Terminated
    BY <2>1, <2>3, OutputsQuietSteps
  <2>4. CASE \E v \in VectorSizes, b \in Blocks : Callback(v, b)
    BY <2>1, <2>4, OutputsCallbackSteps
  <2> QED
    BY <1>2, <2>2, <2>3, <2>4 DEF Next
<1>3. CASE UNCHANGED vars
  <2>1. (mishap => mishap') /\ AllowZKept
    BY <1>3 DEF vars, suite, buffers, AllowZKept
  <2> QED
    BY <1>3, <2>1, OutputsQuietSteps
<1> QED
  BY <1>1, <1>2, <1>3

\* From the inputs to the verdict every buffer holds what the next step takes it
\* for: jobs cover the block, the references belong to the inputs the device
\* converted, and an output is there until it has been judged.
THEOREM DataStaysInOrder ==
  ASSUME "wait" \notin Faults
  PROVE  Spec => []DataInv
<1>1. Init => DataInv
  BY JobsInit, BuffersInit, OutputsInit DEF DataInv
<1>2. ConvInv /\ DataInv /\ [Next]_vars => DataInv'
  BY JobsNext, BuffersNext, OutputsNext DEF DataInv
<1> QED
  BY <1>1, <1>2, BarrierHolds, PTL DEF Spec

\* Nothing fails without being counted, but for the clFinish of the timing runs.
LEMMA FailuresNext ==
  ASSUME FailuresCounted, [Next]_vars
  PROVE  FailuresCounted'
<1> DEFINE T == pc = "returned" /\ TimingFailed
           Counted == ret # 0 \/ mishap => gFailCount
           Kept == \/ gFailCount'
                   \/ UNCHANGED <<ret, mishap, gFailCount>>
                   \/ /\ ret' = ret
                      /\ \E failed \in BOOLEAN : /\ gFailCount' = (gFailCount \/ failed)
                                                 /\ mishap' = (mishap \/ failed)
<1>0. /\ FailuresCounted <=> Counted \/ T
      /\ FailuresCounted' <=> Counted' \/ T'
      /\ T => pc = "returned"
  BY DEF FailuresCounted
<1>1. CASE \E k \in Kinds : NextTest(k)
  BY <1>1 DEF NextTest, FailuresCounted
<1>2. Kept /\ Counted => Counted'
  <2>1. ASSUME Counted, NEW failed \in BOOLEAN, ret' = ret,
               gFailCount' = (gFailCount \/ failed), mishap' = (mishap \/ failed)
        PROVE  Counted'
    BY <2>1, Zenon
  <2>2. Counted /\ UNCHANGED <<ret, mishap, gFailCount>> => Counted'
    OBVIOUS
  <2>3. gFailCount' => Counted'
    OBVIOUS
  <2> HIDE DEF Counted
  <2> QED
    BY <2>1, <2>2, <2>3, Zenon
<1>3. CASE \/ MakePrograms \/ (\E b \in Blocks : CreateEvents(b)) \/ SplitBlock \/ PoolReturns
           \/ WriteInputBuffer \/ (\E bad \in WrongResults, v \in VectorSizes : RunAndMap(bad, v))
           \/ Flush \/ SetCalcReferenceValues \/ WaitForBarrier
  <2>1. /\ pc # "returned"
        /\ gFailCount' \/ (UNCHANGED <<mishap, gFailCount>> /\ ret' \in {ret, 0})
    BY <1>3 DEF MakePrograms, CreateEvents, SplitBlock, PoolReturns, WriteInputBuffer,
       RunAndMap, Flush, SetCalcReferenceValues, WaitForBarrier, Abort, Return
  <2>2. Counted'
    BY <1>0, <2>1
  <2> QED
    BY <1>0, <2>2
<1>4. CASE \E v \in VectorSizes : MapResultValuesComplete(v)
  <2>1. PICK v \in VectorSizes : MapResultValuesComplete(v)
    BY <1>4
  <2>2. ret' = ret /\ pc # "returned"
    BY <2>1 DEF MapResultValuesComplete
  <2>3. \E failed \in BOOLEAN : /\ gFailCount' = (gFailCount \/ failed)
                                /\ mishap' = (mishap \/ failed)
    <3>1. PICK set \in Outcomes("setCallback"), released \in Outcomes("release"),
               flushed \in Outcomes("flush") :
            /\ gFailCount' =
                 (gFailCount \/ (~set \/ ~released \/ (~flushed /\ v + 1 = gMaxVectorSize)))
            /\ mishap' =
                 (mishap \/ (~set \/ ~released \/ (~flushed /\ v + 1 = gMaxVectorSize)))
      BY <2>1, Zenon DEF MapResultValuesComplete
    <3>2. WITNESS (~set \/ ~released \/ (~flushed /\ v + 1 = gMaxVectorSize)) \in BOOLEAN
    <3> QED
      BY <3>1, Zenon
  <2>4. Kept
    BY <2>2, <2>3, Zenon
  <2> HIDE DEF T, Counted, Kept
  <2> QED
    BY <1>0, <1>2, <2>2, <2>4
<1>5. CASE CollectResults
  <2>0. pc # "returned"
    BY <1>5 DEF CollectResults
  <2>1. \/ gFailCount'
        \/ /\ mishap' = mishap /\ ret' = ret /\ FirstResult(result) = 0
           /\ gFailCount' = (gFailCount \/ FirstResult(result) # 0)
        \/ gFailCount' = (gFailCount \/ FirstResult(result) # 0) /\ FirstResult(result) # 0
    BY <1>5, Zenon DEF CollectResults, Abort, Return
  <2>2. Counted
    BY <1>0, <2>0
  <2>3. CASE gFailCount'
    BY <1>0, <2>3
  <2>4. CASE /\ mishap' = mishap /\ ret' = ret /\ FirstResult(result) = 0
             /\ gFailCount' = (gFailCount \/ FirstResult(result) # 0)
    <3>1. Counted'
      BY <2>2, <2>4, Zenon
    <3> QED
      BY <1>0, <3>1
  <2>5. CASE gFailCount' = (gFailCount \/ FirstResult(result) # 0) /\ FirstResult(result) # 0
    <3>1. Counted'
      BY <2>5, Zenon
    <3> QED
      BY <1>0, <3>1
  <2> QED
    BY <2>1, <2>3, <2>4, <2>5
<1>6. CASE FinishTest
  <2>1. /\ pc = "block" /\ i >= kind.lastCase /\ pc' = "returned"
        /\ UNCHANGED <<option, i, kind>>
        /\ \/ option.gTimeResults /\ ret' = -1
           \/ ret' = 0 /\ UNCHANGED <<gFailCount, mishap>>
    BY <1>6 DEF FinishTest, Return, suite, frame
  <2>2. CASE option.gTimeResults /\ ret' = -1
    BY <2>1, <2>2 DEF FailuresCounted, TimingFailed
  <2>3. CASE ret' = 0 /\ UNCHANGED <<gFailCount, mishap>>
    BY <2>1, <2>3 DEF FailuresCounted
  <2> QED
    BY <2>1, <2>2, <2>3
<1>7. ASSUME UNCHANGED <<pc, option, i, kind, ret>>, Kept
      PROVE  FailuresCounted'
  <2>1. T' <=> T
    BY <1>7 DEF TimingFailed
  <2> HIDE DEF T, Counted, Kept
  <2> QED
    BY <1>0, <1>2, <1>7, <2>1
<1>8. CASE JobStep \/ Terminated \/ UNCHANGED vars
  <2>1. UNCHANGED <<pc, option, i, kind, ret, mishap, gFailCount>>
    BY <1>8 DEF JobStep, StartJob, InitData, PrepareReference, Terminated, vars, suite, frame
  <2> QED
    BY <1>7, <2>1
<1>9. CASE \E v \in VectorSizes, b \in Blocks : Callback(v, b)
  <2>1. PICK v \in VectorSizes, b \in Blocks : Callback(v, b)
    BY <1>9
  <2>2. UNCHANGED <<pc, option, i, kind, ret>>
    BY <2>1 DEF Callback, CalcBegin, CalcVerify, CalcUnmap, CalcCount, CalcSignal,
       CalcRelease, suite, frame
  <2>3. CASE CalcVerify(v, b) \/ CalcCount(v, b)
    BY <1>7, <2>2, <2>3 DEF CalcVerify, CalcCount
  <2>4. CASE CalcBegin(v, b) \/ CalcUnmap(v, b) \/ CalcSignal(v, b) \/ CalcRelease(v, b)
    <3>1. PICK ok \in BOOLEAN : gFailCount' = (gFailCount \/ ~ok) /\ mishap' = (mishap \/ ~ok)
      BY <2>4, Zenon DEF CalcBegin, CalcUnmap, CalcSignal, CalcRelease, Outcomes
    <3>2. \E failed \in BOOLEAN : /\ gFailCount' = (gFailCount \/ failed)
                                  /\ mishap' = (mishap \/ failed)
      <4>1. WITNESS (~ok) \in BOOLEAN
      <4> QED
        BY <3>1, Zenon
    <3>3. Kept
      BY <2>2, <3>2, Zenon
    <3> QED
      BY <1>7, <2>2, <3>3
  <2> QED
    BY <2>1, <2>3, <2>4 DEF Callback
<1> QED
  BY <1>1, <1>3, <1>4, <1>5, <1>6, <1>8, <1>9 DEF Next, DoTestStep

\* When a test ends its result is zero iff every value passes the comparison, else the
\* place of the first one that does not, unless a call failed; and whatever went
\* wrong is counted, but a clFinish of the timing.
THEOREM VerdictsAreRight ==
  ASSUME "wait" \notin Faults
  PROVE  Spec => []VerdictIsRight
<1>1. Init => FailuresCounted
  BY DEF Init, FailuresCounted
<1>2. FailuresCounted /\ [Next]_vars => FailuresCounted'
  BY FailuresNext
<1>3. Spec => []FailuresCounted
  BY <1>1, <1>2, PTL DEF Spec
<1>4. DataInv /\ FailuresCounted => VerdictIsRight
  BY DEF DataInv, VerdictGiven, FailuresCounted, VerdictIsRight
<1> QED
  BY <1>3, <1>4, DataStaysInOrder, PTL
=============================================================================
