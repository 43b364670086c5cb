------------------------- MODULE OfflineCacheProofs -------------------------
(***************************************************************************)
(* Theorems about OfflineCache, for any number of threads, sources,        *)
(* processes and calls, whatever options the processes of a cache have.    *)
(***************************************************************************)
EXTENDS OfflineCacheInv, TLAPS

\* The groups of variables that UNCHANGED names.
USE DEF disk, cut

-----------------------------------------------------------------------------
LEMMA KeyType ==
  ASSUME TypeOK, NEW s \in Sources
  PROVE  BinaryKey(s) \in Key /\ Prefix[s] \in Prefixes
<1>1. config.bits \in Bits /\ Prefix[s] \in Prefixes
  BY CacheAssumption DEF TypeOK, Config, Prefixes
<1> QED
  BY <1>1 DEF BinaryKey, Key

LEMMA ConfigType ==
  ASSUME TypeOK
  PROVE  /\ config.mode \in Modes /\ config.cache \in CacheModes
         /\ config.bits \in Bits /\ config.validate \in BOOLEAN
         /\ config.mode = "kOnline" => config.cache \notin {"force-read", "overwrite"}
  BY CacheAssumption DEF TypeOK, Config

LEMMA TypeInit == Init => TypeOK
<1> SUFFICES ASSUME Init PROVE TypeOK
  OBVIOUS
<1>1. (CHOOSE s \in Sources : TRUE) \in Sources
  BY CacheAssumption
<1> QED
  BY <1>1 DEF Init, TypeOK

LEMMA TypeThread ==
  ASSUME TypeOK, NEW r \in Threads, ThreadStep(r)
  PROVE  TypeOK'
<1> USE DEF TypeOK, Goto, Error
<1>0. src[r] \in Sources /\ BinaryKey(src[r]) \in Key /\ Prefix[src[r]] \in Prefixes
  BY KeyType
<1>1. CASE Lock(r)
  BY <1>1 DEF Lock
<1>2. CASE Check(r)
  BY <1>2 DEF Check
<1>3. CASE \E works \in BOOLEAN : SavedSource(r, works)
  BY <1>0, <1>3 DEF SavedSource
<1>4. CASE Open(r)
  BY <1>4 DEF Open
<1>5. CASE \E works \in BOOLEAN : SaveSource(r, works)
  BY <1>0, <1>5 DEF SaveSource
<1>6. CASE \E works \in BOOLEAN : SaveOptions(r, works)
  BY <1>6 DEF SaveOptions
<1>7. CASE \E works \in BOOLEAN : Create(r, works)
  <2>1. [src |-> src[r], mode |-> "kOnline", bits |-> config.bits] \in Output
    BY <1>0, ConfigType DEF Output, Modes
  <2> QED
    BY <1>7, <2>1 DEF Create
<1>8. CASE \E works \in BOOLEAN : Compile(r, works)
  BY <1>0, <1>8 DEF Compile
<1>9. ASSUME NEW works \in BOOLEAN, NEW left \in {"whole", "torn", "nothing"},
             Compiled(r, left, works)
      PROVE  TypeOK'
  <2>1. cl[Prefix[src[r]]] \in Sources \cup {Torn, None}
    BY <1>0
  <2>2. left = "whole" =>
          [src |-> cl[Prefix[src[r]]], mode |-> config.mode, bits |-> config.bits] \in Output
    BY <1>9, <2>1, ConfigType DEF Output, Compiled
  <2>3. bin' \in [Key -> Output \cup {Torn, None}]
    BY <1>0, <1>9, <2>2 DEF Compiled
  <2> QED
    BY <1>9, <2>3 DEF Compiled
<1>10. CASE \E works \in BOOLEAN : Validate(r, works)
  BY <1>10 DEF Validate
<1>11. CASE \E works \in BOOLEAN : Load(r, works)
  BY <1>11 DEF Load
<1>12. CASE \E works \in BOOLEAN : Build(r, works)
  BY <1>12 DEF Build
<1> QED
  BY <1>1, <1>2, <1>3, <1>4, <1>5, <1>6, <1>7, <1>8, <1>9, <1>10, <1>11, <1>12
  DEF ThreadStep

LEMMA TypeCall ==
  ASSUME TypeOK, NEW r \in Threads, NEW s \in Sources, Call(r, s)
  PROVE  TypeOK'
  BY DEF TypeOK, Call, Goto

LEMMA TypeRestart ==
  ASSUME TypeOK, NEW c \in Config, Restart(c)
  PROVE  TypeOK'
<1>1. (CHOOSE s \in Sources : TRUE) \in Sources
  BY CacheAssumption
<1> QED
  BY <1>1 DEF TypeOK, Restart

LEMMA TypeNext == TypeOK /\ [Next]_vars => TypeOK'
<1> SUFFICES ASSUME TypeOK, [Next]_vars PROVE TypeOK'
  OBVIOUS
<1>1. CASE UNCHANGED vars
  BY <1>1 DEF vars, TypeOK
<1> QED
  BY <1>1, TypeThread, TypeCall, TypeRestart DEF Next, Finished

\* The state of the cache keeps its type in every process.
THEOREM TypeCorrect == Spec => []TypeOK
  BY TypeInit, TypeNext, PTL DEF Spec

-----------------------------------------------------------------------------
\* What a step of thread r leaves alone: a thread outside of the mutex never
\* touches the files, and one inside is the only one there.
LEMMA ThreadFrame ==
  ASSUME TypeOK, Locking, NEW r \in Threads, ThreadStep(r)
  PROVE  /\ UNCHANGED <<plan, config, src, lost>> /\ short \subseteq short'
         /\ \A s \in Threads \ {r} :
              /\ pc'[s] = pc[s] /\ program'[s] = program[s]
              /\ s \in failed' <=> s \in failed
         /\ pc[r] \in Locked \cup {"lock", "build"}
         /\ pc[r] \notin Locked => UNCHANGED <<cl, bin, mishap, short>>
         /\ pc[r] \in Locked => \A s \in Threads \ {r} : pc[s] \notin Locked
<1> USE DEF TypeOK, Goto, Error
<1>0. pc[r] \in Locked => \A s \in Threads \ {r} : pc[s] \notin Locked
  BY DEF Locking
<1>1. CASE Lock(r)
  BY <1>0, <1>1 DEF Lock
<1>2. CASE Check(r)
  BY <1>0, <1>2 DEF Check, Locked
<1>3. CASE \E works \in BOOLEAN : SavedSource(r, works)
  BY <1>0, <1>3 DEF SavedSource, Locked
<1>4. CASE Open(r)
  BY <1>0, <1>4 DEF Open, Locked
<1>5. CASE \E works \in BOOLEAN : SaveSource(r, works)
  BY <1>0, <1>5 DEF SaveSource, Locked
<1>6. CASE \E works \in BOOLEAN : SaveOptions(r, works)
  BY <1>0, <1>6 DEF SaveOptions, Locked
<1>7. CASE \E works \in BOOLEAN : Create(r, works)
  BY <1>0, <1>7 DEF Create, Locked
<1>8. CASE \E works \in BOOLEAN : Compile(r, works)
  BY <1>0, <1>8 DEF Compile, Locked
<1>9. CASE \E works \in BOOLEAN : \E left \in {"whole", "torn", "nothing"} :
             Compiled(r, left, works)
  BY <1>0, <1>9 DEF Compiled, Locked
<1>10. CASE \E works \in BOOLEAN : Validate(r, works)
  BY <1>0, <1>10 DEF Validate, Locked
<1>11. CASE \E works \in BOOLEAN : Load(r, works)
  BY <1>0, <1>11 DEF Load, Locked
<1>12. CASE \E works \in BOOLEAN : Build(r, works)
  BY <1>0, <1>12 DEF Build
<1> QED
  BY <1>1, <1>2, <1>3, <1>4, <1>5, <1>6, <1>7, <1>8, <1>9, <1>10, <1>11, <1>12
  DEF ThreadStep

LEMMA LockingThread ==
  ASSUME TypeOK, Locking, NEW r \in Threads, ThreadStep(r)
  PROVE  Locking'
<1>1. pc'[r] \in Locked => owner' = r
  <2> USE DEF TypeOK, Goto, Error, Locking, Locked
  <2>1. CASE Lock(r) \/ Check(r) \/ Open(r)
    BY <2>1 DEF Lock, Check, Open
  <2>2. CASE \E works \in BOOLEAN :
               \/ SaveSource(r, works) \/ SavedSource(r, works)
               \/ SaveOptions(r, works) \/ Create(r, works)
    BY <2>2 DEF SaveSource, SavedSource, SaveOptions, Create
  <2>3. CASE \E works \in BOOLEAN :
               \/ Compile(r, works) \/ Validate(r, works) \/ Load(r, works)
               \/ Build(r, works)
    BY <2>3 DEF Compile, Validate, Load, Build
  <2>4. CASE \E works \in BOOLEAN : \E left \in {"whole", "torn", "nothing"} :
               Compiled(r, left, works)
    BY <2>4 DEF Compiled
  <2> QED
    BY <2>1, <2>2, <2>3, <2>4 DEF ThreadStep
<1>2. ASSUME NEW s \in Threads, s # r, pc'[s] \in Locked PROVE owner' = s
  <2>1. pc[s] \in Locked /\ owner = s /\ pc[r] \notin Locked
    BY <1>2, ThreadFrame DEF Locking
  <2>2. Lock(r) \/ \E works \in BOOLEAN : Build(r, works)
    BY <2>1 DEF ThreadStep, Check, SavedSource, Open, SaveSource, SaveOptions,
                Create, Compile, Compiled, Validate, Load, Locked
  <2>3. ~Lock(r)
    BY <2>1, CacheAssumption DEF Lock
  <2> QED
    BY <2>1, <2>2, <2>3 DEF Build
<1> QED
  BY <1>1, <1>2 DEF Locking

LEMMA AllowedThread ==
  ASSUME TypeOK, Locking, Allowed, NEW r \in Threads, ThreadStep(r)
  PROVE  Allowed'
<1>1. UNCHANGED config /\ \A s \in Threads \ {r} : pc'[s] = pc[s]
  BY ThreadFrame
<1>2. /\ pc'[r] \in Saving => /\ config.cache # "force-read"
                              /\ config.mode = "kOnline" => config.cache = "dump-cl-files"
      /\ pc'[r] \in Compiling => config.cache # "force-read"
      /\ pc'[r] \in Compiling \cup Reading \cup {"open"} => config.mode # "kOnline"
  <2> USE DEF TypeOK, Goto, Error, Allowed, Saving, Compiling, Reading
  <2>1. CASE Lock(r) \/ Open(r)
    BY <2>1 DEF Lock, Open
  <2>2. CASE Check(r)
    BY <2>2, ConfigType DEF Check, ShouldSave
  <2>3. CASE \E works \in BOOLEAN :
               \/ SaveSource(r, works) \/ SavedSource(r, works)
               \/ SaveOptions(r, works) \/ Create(r, works)
    BY <2>3 DEF SaveSource, SavedSource, SaveOptions, Create
  <2>4. CASE \E works \in BOOLEAN :
               \/ Compile(r, works) \/ Validate(r, works) \/ Load(r, works)
               \/ Build(r, works)
    BY <2>4 DEF Compile, Validate, Load, Build
  <2>5. CASE \E works \in BOOLEAN : \E left \in {"whole", "torn", "nothing"} :
               Compiled(r, left, works)
    BY <2>5 DEF Compiled
  <2> QED
    BY <2>1, <2>2, <2>3, <2>4, <2>5 DEF ThreadStep
<1> QED
  BY <1>1, <1>2 DEF Allowed

-----------------------------------------------------------------------------
\* A thread that need not save its source finds the compiler's output, or the
\* source that was saved when a compiler made a binary of it.
LEMMA CachedUnlessSaved ==
  ASSUME TypeOK, Saved, Stored, NEW s \in Sources, ~ShouldSave(s),
         config.mode # "kOnline", \A r \in Threads : pc[r] # "saving"
  PROVE  config.cache = "force-read" \/ bin[BinaryKey(s)] # None \/ s \in OnDisk
<1> DEFINE bare == [prefix |-> Prefix[s], spv |-> None]
<1> SUFFICES ASSUME config.cache # "force-read", config.mode # "kBinary"
             PROVE  s \in OnDisk
  <2>1. config.cache # "force-read" => bin[bare] # None
    BY ConfigType DEF ShouldSave, CacheModes
  <2> QED
    BY <2>1 DEF BinaryKey
<1>1. bin[bare] # None /\ bare \in Key
  BY ConfigType, KeyType DEF ShouldSave, CacheModes, Key
<1>2. cl[Prefix[s]] # None /\ \E c \in plan : c.mode = "kBinary"
  BY <1>1 DEF Stored
<1>3. Mixed
  BY <1>2, ConfigType DEF Mixed, Modes, TypeOK
<1> QED
  BY <1>2, <1>3 DEF Saved, OnDisk, Spoilt

\* What is spoilt stays so.
LEMMA SpoiltThread ==
  ASSUME TypeOK, Locking, NEW r \in Threads, ThreadStep(r), NEW s
  PROVE  /\ s \in Spoilt => s \in Spoilt'
         /\ UNCHANGED <<cl, short>> /\ s \in OnDisk => s \in OnDisk'
  BY ThreadFrame DEF Spoilt, Mixed, OnDisk, TypeOK

LEMMA SourcedThread ==
  ASSUME TypeOK, Locking, Allowed, Sourced, Saved, Stored,
         NEW r \in Threads, ThreadStep(r)
  PROVE  Sourced'
<1> DEFINE S(s) ==
      /\ pc'[s] \in {"lock", "check", "save", "saving"} => s \notin failed'
      /\ pc'[s] = "saving" => cl'[Prefix[src[s]]] = Torn
      /\ pc'[s] = "options" /\ s \notin failed' => src[s] \in OnDisk'
      /\ pc'[s] \in {"create", "open"} /\ config.mode # "kOnline" =>
           \/ src[s] \in OnDisk' \/ config.cache = "force-read"
           \/ bin'[BinaryKey(src[s])] # None
      /\ pc'[s] \in Compiling => src[s] \in OnDisk'
      /\ pc'[s] \in Reading => bin'[BinaryKey(src[s])] # None
<1>1. UNCHANGED <<config, src>> /\ \A s : BinaryKey(s)' = BinaryKey(s)
  BY ThreadFrame DEF BinaryKey
<1>2. ASSUME NEW s \in Threads, s # r PROVE S(s)
  <2>1. pc'[s] = pc[s] /\ (s \in failed' <=> s \in failed)
    BY <1>2, ThreadFrame
  <2>2. CASE pc[r] \in Locked
    <3>1. pc[s] \notin Locked
      BY <1>2, <2>2, ThreadFrame
    <3> QED
      BY <2>1, <3>1 DEF Sourced, Locked, Compiling, Reading
  <2>3. CASE pc[r] \notin Locked
    <3>1. UNCHANGED <<cl, bin, short>>
      BY <2>3, ThreadFrame
    <3>2. src[s] \in OnDisk => src[s] \in OnDisk'
      BY <1>1, <3>1, SpoiltThread
    <3> QED
      BY <2>1, <3>1, <3>2 DEF Sourced
  <2> QED
    BY <2>2, <2>3
<1>3. S(r)
  <2> USE DEF TypeOK, Goto, Error, Compiling, Reading
  <2>0. src[r] \in Sources /\ BinaryKey(src[r]) \in Key /\ Prefix[src[r]] \in Prefixes
    BY KeyType
  <2>1. CASE Lock(r)
    BY <2>1 DEF Lock, Sourced
  <2>s. UNCHANGED <<cl, short>> /\ src[r] \in OnDisk => src[r] \in OnDisk'
    BY <1>1, SpoiltThread
  <2>2. CASE Check(r)
    <3>1. \A q \in Threads : pc[q] # "saving"
      BY <2>2 DEF Check, Locking, Locked
    <3> QED
      BY <2>0, <2>2, <2>s, <3>1, CachedUnlessSaved DEF Check, Sourced
  <2>3. CASE \E works \in BOOLEAN : SavedSource(r, works)
    <3>1. pc'[r] = "options"
      BY <2>3 DEF SavedSource
    <3>2. cl[Prefix[src[r]]] = Torn
      BY <2>3 DEF SavedSource, Sourced
    <3>3. src[r] \in OnDisk'
      BY <1>1, <2>0, <2>3, <3>2 DEF SavedSource, OnDisk, Spoilt
    <3> QED
      BY <3>1, <3>3
  <2>4. CASE Open(r)
    BY <2>4, <2>s DEF Open, Sourced, Allowed
  <2>5. CASE \E works \in BOOLEAN : SaveSource(r, works)
    BY <2>0, <2>5 DEF SaveSource, Sourced
  <2>6. CASE \E works \in BOOLEAN : SaveOptions(r, works)
    BY <2>6, <2>s DEF SaveOptions, Sourced
  <2>7. CASE \E works \in BOOLEAN : Create(r, works)
    BY <2>7, <2>s DEF Create, Sourced
  <2>8. CASE \E works \in BOOLEAN : Compile(r, works)
    BY <2>8, <2>s DEF Compile, Sourced
  <2>9. ASSUME NEW works \in BOOLEAN, NEW left \in {"whole", "torn", "nothing"},
               Compiled(r, left, works)
        PROVE  S(r)
    <3>1. pc'[r] \in {"idle", "validate"} /\ (pc'[r] = "validate" => left # "nothing")
      BY <1>1, <2>9 DEF Compiled
    <3>2. [src |-> cl[Prefix[src[r]]], mode |-> config.mode, bits |-> config.bits] # None
          \/ left # "whole"
      <4>1. left = "whole" => cl[Prefix[src[r]]] \in Sources \cup {Torn}
        BY <2>0, <2>9 DEF Compiled
      <4> QED
        BY <4>1, ConfigType, CacheAssumption DEF Output
    <3>3. left # "nothing" => bin'[BinaryKey(src[r])] # None
      BY <2>0, <2>9, <3>2, CacheAssumption DEF Compiled
    <3> QED
      BY <3>1, <3>3
  <2>10. CASE \E works \in BOOLEAN : Validate(r, works)
    BY <2>10 DEF Validate, Sourced
  <2>11. CASE \E works \in BOOLEAN : Load(r, works) \/ Build(r, works)
    BY <2>11 DEF Load, Build
  <2> QED
    BY <2>1, <2>2, <2>3, <2>4, <2>5, <2>6, <2>7, <2>8, <2>9, <2>10, <2>11
    DEF ThreadStep
<1> QED
  BY <1>1, <1>2, <1>3 DEF Sourced

\* The steps that write compiler output.
LEMMA Writes ==
  ASSUME NEW r \in Threads, ThreadStep(r)
  PROVE  \/ UNCHANGED bin
         \/ \E works \in BOOLEAN : Compile(r, works)
         \/ \E works \in BOOLEAN : \E left \in {"whole", "torn", "nothing"} :
              Compiled(r, left, works)
  BY DEF ThreadStep, Lock, Check, SavedSource, Open, SaveSource, SaveOptions,
         Create, Validate, Load, Build

LEMMA SavedThread ==
  ASSUME TypeOK, Locking, Saved, NEW r \in Threads, ThreadStep(r)
  PROVE  Saved' /\ \A p \in Prefixes : cl[p] # None => cl'[p] # None
<1>0. /\ src[r] \in Sources /\ Prefix[src[r]] \in Prefixes /\ Torn # None
      /\ \A s \in Sources : Prefix[s] \in Prefixes /\ s # None /\ s # Torn
  BY CacheAssumption DEF TypeOK, Prefixes
<1>1. /\ UNCHANGED <<src, lost>> /\ short \subseteq short'
      /\ \A q \in Threads \ {r} : pc'[q] = pc[q]
  BY ThreadFrame
<1>2. CASE \E works \in BOOLEAN : SaveSource(r, works)
  <2>1. UNCHANGED cl \/ (cl' = [cl EXCEPT ![Prefix[src[r]]] = Torn] /\ pc'[r] = "saving")
    BY <1>2 DEF SaveSource, Goto, TypeOK
  <2>2. pc[r] # "saving"
    BY <1>2 DEF SaveSource
  <2>3. CASE UNCHANGED cl
    BY <1>1, <2>2, <2>3 DEF Saved
  <2>4. CASE cl' = [cl EXCEPT ![Prefix[src[r]]] = Torn] /\ pc'[r] = "saving"
    <3>1. \A s \in Sources : s # src[r] => cl'[Prefix[s]] = cl[Prefix[s]]
      BY <1>0, <2>4, PrefixAssumption DEF TypeOK
    <3>2. cl'[Prefix[src[r]]] = Torn
      BY <1>0, <2>4 DEF TypeOK
    <3> QED
      BY <1>0, <1>1, <2>2, <2>4, <3>1, <3>2 DEF Saved, TypeOK
  <2> QED
    BY <2>1, <2>3, <2>4
<1>3. CASE \E works \in BOOLEAN : SavedSource(r, works)
  <2>1. \/ UNCHANGED cl /\ src[r] \in short'
        \/ cl' = [cl EXCEPT ![Prefix[src[r]]] = src[r]]
    BY <1>3 DEF SavedSource
  <2>2. CASE UNCHANGED cl /\ src[r] \in short'
    BY <1>1, <2>2 DEF Saved
  <2>3. CASE cl' = [cl EXCEPT ![Prefix[src[r]]] = src[r]]
    <3>1. \A s \in Sources : s # src[r] => cl'[Prefix[s]] = cl[Prefix[s]]
      BY <1>0, <2>3, PrefixAssumption DEF TypeOK
    <3>2. cl'[Prefix[src[r]]] = src[r]
      BY <1>0, <2>3 DEF TypeOK
    <3> QED
      BY <1>0, <1>1, <2>3, <3>1, <3>2 DEF Saved, TypeOK
  <2> QED
    BY <2>1, <2>2, <2>3
<1>4. \/ UNCHANGED cl /\ pc[r] # "saving"
      \/ \E works \in BOOLEAN : SaveSource(r, works) \/ SavedSource(r, works)
  BY DEF ThreadStep, Lock, Check, Open, SaveOptions, Create, Compile, Compiled, Validate,
         Load, Build
<1>5. CASE UNCHANGED cl /\ pc[r] # "saving"
  BY <1>1, <1>5 DEF Saved
<1> QED
  BY <1>2, <1>3, <1>4, <1>5

LEMMA StoredThread ==
  ASSUME TypeOK, Locking, Allowed, Sourced, Saved, Stored, NEW r \in Threads,
         ThreadStep(r)
  PROVE  Stored'
<1> DEFINE k0 == BinaryKey(src[r])
           b  == bin'[k0]
           Of(o, s) == o.src = s \/ (o.src = Torn /\ s \in Spoilt)
           Of1(o, s) == o.src = s \/ (o.src = Torn /\ s \in Spoilt')
<1>0. k0 \in Key /\ src[r] \in Sources /\ Prefix[src[r]] \in Prefixes
  BY KeyType DEF TypeOK
<1>1. UNCHANGED plan
  BY ThreadFrame
<1>s. /\ \A p \in Prefixes : cl[p] # None => cl'[p] # None
      /\ \A k \in Key : k.prefix \in Prefixes
      /\ \A s : s \in Spoilt => s \in Spoilt'
  BY SavedThread, SpoiltThread DEF Key
<1>k. ASSUME NEW k \in Key, bin'[k] = bin[k]
      PROVE  /\ bin'[k] \in Output =>
                  /\ \E s \in Sources : Prefix[s] = k.prefix /\ Of1(bin'[k], s)
                  /\ bin'[k].mode = IF k.spv = None THEN "kBinary" ELSE "kSpir_v"
                  /\ k.spv # None => bin'[k].bits = k.spv
             /\ bin'[k] # None => cl'[k.prefix] # None
             /\ k.spv = None /\ bin'[k] # None => \E c \in plan : c.mode = "kBinary"
  <2>1. bin[k] \in Output => \E s \in Sources : Prefix[s] = k.prefix /\ Of(bin[k], s)
    BY DEF Stored
  <2>2. bin[k] \in Output => \E s \in Sources : Prefix[s] = k.prefix /\ Of1(bin'[k], s)
    BY <1>k, <1>s, <2>1
  <2> HIDE DEF Of1
  <2> QED
    BY <1>k, <1>s, <2>2 DEF Stored
<1>2. CASE UNCHANGED bin
  <2>1. \A k \in Key : bin'[k] = bin[k]
    BY <1>2
  <2> QED
    BY <1>1, <1>k, <2>1 DEF Stored
<1>3. ASSUME bin' = [bin EXCEPT ![k0] = b], config.mode # "kOnline",
             cl[Prefix[src[r]]] # None,
             b \in Output => /\ Of(b, src[r]) /\ b.mode = config.mode
                             /\ b.bits = config.bits
      PROVE  Stored'
  <2>1. \A k \in Key \ {k0} : bin'[k] = bin[k]
    BY <1>3 DEF TypeOK
  <2>2. k0.prefix = Prefix[src[r]]
        /\ k0.spv = IF config.mode = "kSpir_v" THEN config.bits ELSE None
    BY DEF BinaryKey
  <2>3. config.bits # None /\ config \in plan /\ config.mode \in {"kBinary", "kSpir_v"}
    BY <1>3, ConfigType, CacheAssumption DEF Modes, TypeOK
  <2>4. b \in Output => Of1(b, src[r])
    BY <1>3, <1>s
  <2>5. /\ b \in Output =>
             /\ \E s \in Sources : Prefix[s] = k0.prefix /\ Of1(b, s)
             /\ b.mode = IF k0.spv = None THEN "kBinary" ELSE "kSpir_v"
             /\ k0.spv # None => b.bits = k0.spv
        /\ cl'[k0.prefix] # None
        /\ k0.spv = None => \E c \in plan : c.mode = "kBinary"
    <3> HIDE DEF Of1, Of
    <3> QED
      BY <1>0, <1>3, <1>s, <2>2, <2>3, <2>4
  <2> QED
    BY <1>1, <1>k, <2>1, <2>5 DEF Stored
<1>4. CASE \E works \in BOOLEAN : Compile(r, works)
  <2>1. bin' = bin \/ (bin' = [bin EXCEPT ![k0] = Torn] /\ b = Torn)
    BY <1>0, <1>4 DEF Compile, TypeOK
  <2>2. config.mode # "kOnline" /\ Torn \notin Output /\ cl[Prefix[src[r]]] # None
    BY <1>0, <1>4, CacheAssumption
    DEF Compile, Allowed, Sourced, OnDisk, Compiling
  <2> QED
    BY <1>2, <1>3, <2>1, <2>2
<1>5. ASSUME NEW works \in BOOLEAN, NEW left \in {"whole", "torn", "nothing"},
             Compiled(r, left, works)
      PROVE  Stored'
  <2>1. config.mode # "kOnline" /\ src[r] \in OnDisk /\ cl[Prefix[src[r]]] # None
    BY <1>0, <1>5, CacheAssumption
    DEF Compiled, Allowed, Sourced, OnDisk, Compiling
  <2>2. /\ bin' = [bin EXCEPT ![k0] = b]
        /\ \/ b = [src |-> cl[Prefix[src[r]]], mode |-> config.mode, bits |-> config.bits]
           \/ b = Torn \/ b = None
    BY <1>0, <1>5 DEF Compiled, TypeOK
  <2>3. Torn \notin Output /\ None \notin Output
    BY CacheAssumption
  <2> QED
    BY <1>3, <2>1, <2>2, <2>3 DEF OnDisk
<1> QED
  BY <1>2, <1>4, <1>5, Writes

LEMMA WritingThread ==
  ASSUME TypeOK, Locking, Sourced, Writing, NEW r \in Threads, ThreadStep(r)
  PROVE  Writing'
<1> DEFINE k0 == BinaryKey(src[r])
<1>0. k0 \in Key /\ src[r] \in Sources /\ Prefix[src[r]] \in Prefixes
  BY KeyType DEF TypeOK
<1>1. UNCHANGED <<config, src>> /\ (\A s : BinaryKey(s)' = BinaryKey(s))
      /\ \A s \in Threads \ {r} : pc'[s] = pc[s]
  BY ThreadFrame DEF BinaryKey
<1>2. mishap => mishap'
  BY DEF ThreadStep, Lock, Check, SavedSource, Open, SaveSource, SaveOptions,
         Create, Compile, Compiled, Validate, Load, Build
<1> SUFFICES ASSUME ~mishap', NEW k \in Key, bin'[k] = Torn
             PROVE  \E s \in Threads : pc'[s] = "compiling" /\ BinaryKey(src[s]) = k
  BY <1>1 DEF Writing
<1>3. CASE UNCHANGED bin /\ pc[r] # "compiling"
  BY <1>1, <1>2, <1>3 DEF Writing
<1>4. CASE \E works \in BOOLEAN : Compile(r, works)
  <2>1. CASE k = k0 /\ pc'[r] = "compiling"
    BY <2>1
  <2>2. CASE k # k0
    <3>1. bin[k] = Torn /\ pc[r] # "compiling"
      BY <1>0, <1>4, <2>2 DEF Compile, TypeOK
    <3> QED
      BY <1>1, <1>2, <3>1 DEF Writing
  <2>3. pc'[r] = "compiling" \/ (UNCHANGED bin /\ pc[r] # "compiling")
    BY <1>4 DEF Compile, Goto, TypeOK
  <2> QED
    BY <1>3, <2>1, <2>2, <2>3
<1>5. ASSUME NEW works \in BOOLEAN, NEW left \in {"whole", "torn", "nothing"},
             Compiled(r, left, works)
      PROVE  \E s \in Threads : pc'[s] = "compiling" /\ BinaryKey(src[s]) = k
  <2> DEFINE f == cl[Prefix[src[r]]]
  <2>1. left = "whole" /\ f \in Sources \cup {Torn}
    BY <1>0, <1>5 DEF Compiled, TypeOK
  <2>2. bin' = [bin EXCEPT ![k0] = [src |-> f, mode |-> config.mode, bits |-> config.bits]]
    BY <1>5, <2>1 DEF Compiled
  <2>3. [src |-> f, mode |-> config.mode, bits |-> config.bits] # Torn
    BY <2>1, ConfigType, CacheAssumption DEF Output
  <2>4. k # k0 /\ bin[k] = Torn
    BY <1>0, <2>2, <2>3 DEF TypeOK
  <2>5. PICK s \in Threads : pc[s] = "compiling" /\ BinaryKey(src[s]) = k
    BY <1>2, <2>4 DEF Writing
  <2> QED
    BY <1>1, <2>4, <2>5
<1>6. UNCHANGED bin /\ pc[r] = "compiling" =>
        \E works \in BOOLEAN : \E left \in {"whole", "torn", "nothing"} :
          Compiled(r, left, works)
  BY DEF ThreadStep, Lock, Check, SavedSource, Open, SaveSource, SaveOptions,
         Create, Compile, Validate, Load, Build
<1> QED
  BY <1>3, <1>4, <1>5, <1>6, Writes

LEMMA RightProgramThread ==
  ASSUME TypeOK, Locking, Allowed, Stored, RightProgram, NEW r \in Threads,
         ThreadStep(r)
  PROVE  RightProgram'
<1> DEFINE Of(o, s) == o.src = s \/ (o.src = Torn /\ s \in Spoilt)
           Of1(o, s) == o.src = s \/ (o.src = Torn /\ s \in Spoilt')
<1>1. UNCHANGED <<config, src>> /\ \A s \in Threads \ {r} : program'[s] = program[s]
  BY ThreadFrame
<1>s. \A o, s : Of(o, s) => Of1(o, s)
  BY SpoiltThread
<1>2. program'[r] # None =>
        /\ Of(program'[r], src[r]) /\ program'[r].mode = config.mode
        /\ config.mode = "kSpir_v" => program'[r].bits = config.bits
  <2>0. program[r] # None =>
        /\ Of(program[r], src[r]) /\ program[r].mode = config.mode
        /\ config.mode = "kSpir_v" => program[r].bits = config.bits
    BY DEF RightProgram
  <2>1. CASE program'[r] = program[r]
    BY <2>0, <2>1
  <2>2. CASE \E works \in BOOLEAN : Create(r, works)
    BY <2>0, <2>2 DEF Create, TypeOK
  <2>3. CASE \E works \in BOOLEAN : Build(r, works)
    BY <2>0, <2>3 DEF Build, TypeOK
  <2>4. CASE \E works \in BOOLEAN : Load(r, works)
    <3> DEFINE k0 == BinaryKey(src[r])
    <3>1. k0 \in Key /\ src[r] \in Sources
      BY KeyType DEF TypeOK
    <3>2. k0.prefix = Prefix[src[r]]
          /\ k0.spv = IF config.mode = "kSpir_v" THEN config.bits ELSE None
      BY DEF BinaryKey
    <3>3. config.bits # None /\ config.mode \in {"kBinary", "kSpir_v"}
      BY <2>4, ConfigType, CacheAssumption DEF Load, Allowed, Reading, Modes
    <3>4. program'[r] = program[r] \/ (bin[k0] \in Output /\ program'[r] = bin[k0])
      BY <2>4 DEF Load, TypeOK
    <3>5. bin[k0] \in Output =>
            /\ \E s \in Sources : Prefix[s] = Prefix[src[r]] /\ Of(bin[k0], s)
            /\ bin[k0].mode = config.mode
            /\ config.mode = "kSpir_v" => bin[k0].bits = config.bits
      BY <3>1, <3>2, <3>3 DEF Stored
    <3>6. bin[k0] \in Output => Of(bin[k0], src[r])
      BY <3>1, <3>5, PrefixAssumption
    <3> QED
      BY <2>0, <3>4, <3>5, <3>6
  <2>5. \/ program'[r] = program[r]
        \/ \E works \in BOOLEAN : Create(r, works) \/ Build(r, works) \/ Load(r, works)
    BY DEF ThreadStep, Lock, Check, SavedSource, Open, SaveSource, SaveOptions,
           Compile, Compiled, Validate
  <2> QED
    BY <2>1, <2>2, <2>3, <2>4, <2>5
<1>3. program'[r] # None => Of1(program'[r], src[r])
  BY <1>2, <1>s
<1>4. \A s \in Threads \ {r} : program'[s] # None => Of1(program'[s], src[s])
  BY <1>1, <1>s DEF RightProgram
<1> QED
  BY <1>1, <1>2, <1>3, <1>4 DEF RightProgram

-----------------------------------------------------------------------------
LEMMA CallKeeps ==
  ASSUME CInv, NEW r \in Threads, NEW s \in Sources, Call(r, s)
  PROVE  CInv'
<1>1. /\ TypeOK' /\ UNCHANGED <<plan, config, owner, disk, mishap, cut>>
      /\ pc[r] = "idle" /\ pc'[r] = "lock" /\ r \notin failed' /\ program'[r] = None
      /\ \A q \in Threads \ {r} :
           /\ pc'[q] = pc[q] /\ src'[q] = src[q] /\ program'[q] = program[q]
           /\ q \in failed' <=> q \in failed
  BY TypeCall DEF CInv, TypeOK, Call, Goto
<1>2. (\A t : BinaryKey(t)' = BinaryKey(t)) /\ Spoilt' = Spoilt /\ OnDisk' = OnDisk
  BY <1>1 DEF BinaryKey, OnDisk, Spoilt, Mixed
<1>3. Locking' /\ Allowed'
  BY <1>1 DEF CInv, Locking, Allowed, Locked, Saving, Compiling, Reading
<1>4. Sourced'
  BY <1>1, <1>2 DEF CInv, Sourced, Compiling, Reading
<1>5. Stored' /\ RightProgram'
  BY <1>1, <1>2 DEF CInv, Stored, RightProgram
<1>6. Writing'
  BY <1>1, <1>2 DEF CInv, Writing
<1>7. Saved'
  BY <1>1 DEF CInv, Saved
<1> QED
  BY <1>1, <1>3, <1>4, <1>5, <1>6, <1>7 DEF CInv

LEMMA RestartKeeps ==
  ASSUME CInv, NEW c \in Config, Restart(c)
  PROVE  CInv'
<1>1. /\ TypeOK' /\ UNCHANGED <<plan, disk, short>> /\ (mishap => mishap')
      /\ \A r \in Threads : pc'[r] = "idle" /\ program'[r] = None
      /\ ~mishap' => \A r \in Threads : pc[r] = "idle"
      /\ lost \subseteq lost' /\ \A r \in Threads : pc[r] = "saving" => src[r] \in lost'
  BY TypeRestart DEF CInv, Restart
<1>2. Locking' /\ Allowed' /\ Sourced' /\ RightProgram'
  BY <1>1 DEF Locking, Allowed, Sourced, RightProgram, Locked, Saving, Compiling,
              Reading
<1>3. \A s : s \in Spoilt => s \in Spoilt'
  BY <1>1 DEF Spoilt, Mixed
<1>4. Stored'
  <2> SUFFICES ASSUME NEW k \in Key, bin[k] \in Output
               PROVE  \E s \in Sources : /\ Prefix[s] = k.prefix
                                         /\ \/ bin[k].src = s
                                            \/ bin[k].src = Torn /\ s \in Spoilt'
    BY <1>1 DEF CInv, Stored
  <2>1. PICK s \in Sources : /\ Prefix[s] = k.prefix
                             /\ bin[k].src = s \/ (bin[k].src = Torn /\ s \in Spoilt)
    BY DEF CInv, Stored
  <2> QED
    BY <1>3, <2>1
<1>5. Saved' /\ Writing'
  BY <1>1 DEF CInv, Saved, Writing
<1> QED
  BY <1>1, <1>2, <1>4, <1>5 DEF CInv

LEMMA StutterKeeps ==
  ASSUME CInv, UNCHANGED vars
  PROVE  CInv'
<1> USE DEF vars
<1>1. TypeOK' /\ Locking' /\ Allowed' /\ Saved'
  BY DEF CInv, TypeOK, Locking, Allowed, Saved
<1>2. (\A t : BinaryKey(t)' = BinaryKey(t)) /\ Spoilt' = Spoilt /\ OnDisk' = OnDisk
  BY DEF BinaryKey, OnDisk, Spoilt, Mixed
<1>3. Sourced' /\ Writing' /\ Stored' /\ RightProgram'
  BY <1>2 DEF CInv, Sourced, Writing, Stored, RightProgram
<1> QED
  BY <1>1, <1>3 DEF CInv

LEMMA CInit == Init => CInv
<1> SUFFICES ASSUME Init PROVE CInv
  OBVIOUS
<1>1. TypeOK
  BY TypeInit
<1>2. Locking /\ Allowed /\ Sourced /\ RightProgram
  BY DEF Init, Locking, Allowed, Sourced, RightProgram, Locked, Saving, Compiling,
         Reading
<1>3. Stored /\ Saved /\ Writing
  BY CacheAssumption DEF Init, Stored, Saved, Writing, Prefixes
<1> QED
  BY <1>1, <1>2, <1>3 DEF CInv

LEMMA CInvNext == CInv /\ [Next]_vars => CInv'
<1> SUFFICES ASSUME CInv, [Next]_vars PROVE CInv'
  OBVIOUS
<1>1. CASE UNCHANGED vars
  BY <1>1, StutterKeeps
<1>2. ASSUME NEW r \in Threads, ThreadStep(r) PROVE CInv'
  <2>1. TypeOK' /\ Locking' /\ Allowed'
    BY <1>2, TypeThread, LockingThread, AllowedThread DEF CInv
  <2>2. Sourced' /\ Saved' /\ Stored'
    BY <1>2, SourcedThread, SavedThread, StoredThread DEF CInv
  <2>3. Writing' /\ RightProgram'
    BY <1>2, WritingThread, RightProgramThread DEF CInv
  <2> QED
    BY <2>1, <2>2, <2>3 DEF CInv
<1> QED
  BY <1>1, <1>2, CallKeeps, RestartKeeps DEF Next, Finished

\* CInv holds in every process that uses the cache, whatever became of the
\* processes before it and whatever their options were.
THEOREM CInvariant == Spec => []CInv
  BY CInit, CInvNext, PTL DEF Spec

\* A test gets the program of its own source, compiled in the mode of its process
\* and, for SPIR-V, for the address size of its device, whatever killed processes,
\* failed writes and failed compilations have left in the cache; only a source that
\* is spoilt may be compiled in part.
THEOREM RightProgramAlways == Spec => []RightProgram
<1>1. CInv => RightProgram
  BY DEF CInv
<1> QED
  BY <1>1, CInvariant, PTL

\* The compiler finds the file of its source, whole unless the source is spoilt.
THEOREM CompilerAlwaysGetsItsSource == Spec => []CompilerGetsItsSource
<1>1. CInv => CompilerGetsItsSource
  BY DEF CInv, Sourced, Compiling, CompilerGetsItsSource
<1> QED
  BY <1>1, CInvariant, PTL

\* gCompilerMutex keeps readers from what a compiler is still writing.
THEOREM TornFilesComeFromMishaps == Spec => []TornOnlyAfterMishap
<1>1. ASSUME CInv, NEW r \in Threads, pc[r] \in {"validate", "load"}, ~mishap
      PROVE  bin[BinaryKey(src[r])] \in Output
  <2>1. \A s \in Threads : pc[s] # "compiling"
    BY <1>1 DEF CInv, Locking, Locked
  <2>2. BinaryKey(src[r]) \in Key
    BY <1>1, KeyType DEF CInv, TypeOK
  <2>3. bin[BinaryKey(src[r])] # Torn /\ bin[BinaryKey(src[r])] # None
    BY <1>1, <2>1, <2>2 DEF CInv, Writing, Sourced, Reading
  <2> QED
    BY <1>1, <2>2, <2>3 DEF CInv, TypeOK
<1>2. CInv => TornOnlyAfterMishap
  BY <1>1 DEF TornOnlyAfterMishap
<1> QED
  BY <1>2, CInvariant, PTL

\* A process that reads from the cache only, or compiles online, writes nothing.
THEOREM QuietModesAreQuiet == Spec => QuietModes
<1> DEFINE Quiet == \/ config.cache = "force-read"
                    \/ config.mode = "kOnline" /\ config.cache # "dump-cl-files"
<1>1. ASSUME CInv, Next, Quiet PROVE UNCHANGED disk
  <2>1. ASSUME NEW r \in Threads, ThreadStep(r) PROVE UNCHANGED disk
    <3>1. pc[r] \notin Saving \cup Compiling
      BY <1>1, <2>1 DEF CInv, Allowed, Compiling
    <3> QED
      BY <2>1, <3>1 DEF ThreadStep, Lock, Check, SavedSource, Open, SaveSource,
         SaveOptions, Create, Compile, Compiled, Validate, Load, Build, Saving,
         Compiling
  <2> QED
    BY <1>1, <2>1 DEF Next, Call, Restart, Finished, vars
<1>2. CInv /\ [Next]_vars => [Quiet => UNCHANGED disk]_vars
  BY <1>1
<1> QED
  BY <1>2, CInvariant, PTL DEF Spec, QuietModes

=============================================================================
