-------------------------- MODULE OfflineCacheInv --------------------------
(***************************************************************************)
(* The inductive invariant of the offline compilation cache: who holds the *)
(* mutex, what a thread has made sure of before each step, and what the    *)
(* files of the cache contain.                                             *)
(***************************************************************************)
EXTENDS OfflineCache

\* Places where a thread holds gCompilerMutex, and where it may write files.
Locked == {"check", "save", "saving", "options", "create", "open", "compile",
           "compiling", "validate", "load"}
Saving == {"save", "saving", "options"}
Compiling == {"compile", "compiling"}
Reading == {"validate", "load"}

Locking == \A r \in Threads : pc[r] \in Locked => owner = r

\* What the options of the process allow a thread to do.
Allowed ==
  \A r \in Threads :
    /\ pc[r] \in Saving => /\ config.cache # "force-read"
                           /\ config.mode = "kOnline" => config.cache = "dump-cl-files"
    /\ pc[r] \in Compiling => config.cache # "force-read"
    /\ pc[r] \in Compiling \cup Reading \cup {"open"} => config.mode # "kOnline"

\* The source is on disk before the compiler is called for.
Sourced ==
  \A r \in Threads :
    /\ pc[r] \in {"lock", "check", "save", "saving"} => r \notin failed
    /\ pc[r] = "saving" => cl[Prefix[src[r]]] = Torn
    /\ pc[r] = "options" /\ r \notin failed => src[r] \in OnDisk
    /\ pc[r] \in {"create", "open"} /\ config.mode # "kOnline" =>
         \/ src[r] \in OnDisk \/ config.cache = "force-read"
         \/ bin[BinaryKey(src[r])] # None
    /\ pc[r] \in Compiling => src[r] \in OnDisk
    /\ pc[r] \in Reading => bin[BinaryKey(src[r])] # None

\* A .cl file is that of its source; an incomplete one is being written, or its
\* writing was cut short.
Saved ==
  \A s \in Sources :
    /\ cl[Prefix[s]] \in {s, Torn, None}
    /\ cl[Prefix[s]] = Torn =>
         s \in short \cup lost \/ \E r \in Threads : pc[r] = "saving" /\ src[r] = s

\* A complete file is what its name says, and its source has been saved, in whatever
\* shape.
Stored ==
  \A k \in Key :
    /\ bin[k] \in Output =>
         /\ \E s \in Sources : /\ Prefix[s] = k.prefix
                              /\ \/ bin[k].src = s
                                 \/ bin[k].src = Torn /\ s \in Spoilt
         /\ bin[k].mode = IF k.spv = None THEN "kBinary" ELSE "kSpir_v"
         /\ k.spv # None => bin[k].bits = k.spv
    /\ bin[k] # None => cl[k.prefix] # None
    /\ k.spv = None /\ bin[k] # None => \E c \in plan : c.mode = "kBinary"

\* An incomplete file is being written, unless there was a mishap.
Writing ==
  ~mishap => \A k \in Key : bin[k] = Torn =>
    \E r \in Threads : pc[r] = "compiling" /\ BinaryKey(src[r]) = k

\* The inductive invariant of OfflineCacheProofs.
CInv ==
  /\ TypeOK /\ Locking /\ Allowed /\ Sourced /\ Saved /\ Stored /\ Writing
  /\ RightProgram
=============================================================================
