---------------------------- MODULE OfflineCache ----------------------------
(***************************************************************************)
(* Program creation with an offline compiler and its cache on disk,        *)
(* test_common/harness/kernelHelpers.cpp.  The tests of a suite, on the    *)
(* worker threads of the harness, call create_single_kernel_helper; what   *)
(* the compiler produces stays in a directory that outlives the process.   *)
(* A process may be killed at any point, and the next one may run with     *)
(* other options on another device.                                        *)
(***************************************************************************)
EXTENDS Naturals, FiniteSets

CONSTANTS
  Threads,    \* threads that create programs
  Sources,    \* kernel sources with their build options
  Prefix,     \* file name prefix of a source: kernel names and two CRCs
  Plans,      \* sets of options that the processes of a cache are started with
  MaxRuns,    \* bound on the number of processes
  MaxCalls,   \* bound on the calls of all processes
  None,       \* no file, no thread, no program
  Torn        \* a file that somebody has begun to write

Modes == {"kOnline", "kBinary", "kSpir_v"}
CacheModes == {"compile-if-absent", "force-read", "overwrite", "dump-cl-files"}
Bits == {32, 64}

\* The options that parseCustomParam accepts (it refuses to force reading, or
\* overwriting, when it compiles online), and the address bits of the device.
Config ==
  {c \in [mode : Modes, cache : CacheModes, validate : BOOLEAN, bits : Bits] :
     c.mode = "kOnline" => c.cache \notin {"force-read", "overwrite"}}

Prefixes == {Prefix[s] : s \in Sources}

\* What the compiler makes of a source, and the name of the file it goes to.
Output == [src : Sources \cup {Torn}, mode : Modes, bits : Bits]
Key == [prefix : Prefixes, spv : Bits \cup {None}]

ASSUME CacheAssumption ==
  /\ Plans \subseteq SUBSET Config /\ Sources # {}
  /\ MaxRuns \in Nat /\ MaxCalls \in Nat
  /\ None \notin Threads \cup Sources \cup Bits
  /\ Torn \notin Sources \cup {None}
  /\ {None, Torn} \cap Output = {}

\* A prefix stands for one source: CRCs do not collide.
ASSUME PrefixAssumption == \A s, t \in Sources : Prefix[s] = Prefix[t] => s = t

VARIABLES
  plan,       \* the options that processes use with this cache
  config,     \* gCompilationMode, gCompilationCacheMode, ... of the process
  runs, calls,\* processes and calls so far
  owner,      \* gCompilerMutex
  pc, src,    \* where each thread is, and the source it works on
  failed,     \* it could not save a file
  program,    \* what it returns: a program, or None after an error
  cl, bin,    \* the cache: .cl files, and files with compiler output
  compiled,   \* history: threads whose call ran the compiler
  mishap,     \* history: a process was killed, or the compiler failed
  short, lost \* history: sources of which a write failed, or was killed, halfway

disk == <<cl, bin>>
cut == <<short, lost>>
vars == <<plan, config, runs, calls, owner, pc, src, failed, program, disk, compiled,
          mishap, cut>>

Init ==
  /\ plan \in Plans /\ config \in plan
  /\ runs = 1 /\ calls = 0
  /\ owner = None
  /\ pc = [r \in Threads |-> "idle"]
  /\ src = [r \in Threads |-> CHOOSE s \in Sources : TRUE]
  /\ failed = {}
  /\ program = [r \in Threads |-> None]
  /\ cl = [p \in Prefixes |-> None]
  /\ bin = [k \in Key |-> None]
  /\ compiled = {}
  /\ mishap = FALSE
  /\ short = {} /\ lost = {}

Goto(r, l) == pc' = [pc EXCEPT ![r] = l]

\* Mutant of Error: the mutex is not unlocked on the way out.
ErrorKeepsLock(r) == Goto(r, "idle") /\ UNCHANGED owner

\* The call of r returns without a program, and the lock guard is destroyed.
Error(r) == Goto(r, "idle") /\ owner' = None

-----------------------------------------------------------------------------
(* create_single_kernel_helper_create_program, under gCompilerMutex.       *)

\* A test calls create_single_kernel_helper.
Call(r, s) ==
  /\ pc[r] = "idle" /\ calls < MaxCalls
  /\ calls' = calls + 1
  /\ src' = [src EXCEPT ![r] = s]
  /\ failed' = failed \ {r}
  /\ program' = [program EXCEPT ![r] = None]
  /\ compiled' = compiled \ {r}
  /\ Goto(r, "lock")
  /\ UNCHANGED <<plan, config, runs, owner, disk, mishap, cut>>

\* Mutant of Lock: no mutex.
LockMissing(r) ==
  /\ pc[r] = "lock"
  /\ owner' = r
  /\ Goto(r, "check")
  /\ UNCHANGED <<plan, config, runs, calls, src, failed, program, disk, compiled, mishap, cut>>

Lock(r) ==
  /\ pc[r] = "lock" /\ owner = None
  /\ owner' = r
  /\ Goto(r, "check")
  /\ UNCHANGED <<plan, config, runs, calls, src, failed, program, disk, compiled, mishap, cut>>

\* Mutant of BinaryKey: a SPIR-V file does not say for which address size it is.
BinaryKeyWithoutBits(s) ==
  [prefix |-> Prefix[s], spv |-> IF config.mode = "kSpir_v" THEN 64 ELSE None]

\* get_binary_filename_with_path
BinaryKey(s) ==
  [prefix |-> Prefix[s], spv |-> IF config.mode = "kSpir_v" THEN config.bits ELSE None]

\* Mutant of ShouldSave: a source that is on disk need not be saved again.
ShouldSaveIfAbsent(s) ==
  /\ cl[Prefix[s]] = None
  /\ config.cache # "force-read"
  /\ config.cache = "dump-cl-files" \/ config.mode # "kOnline"

\* should_save_kernel_source_to_disk: compile-if-absent looks for a file with
\* the bare prefix, which is what binaries are called but never SPIR-V.
ShouldSave(s) ==
  \/ config.cache = "dump-cl-files"
  \/ config.cache = "overwrite" /\ config.mode # "kOnline"
  \/ /\ config.cache = "compile-if-absent" /\ config.mode # "kOnline"
     /\ bin[[prefix |-> Prefix[s], spv |-> None]] = None

Check(r) ==
  /\ pc[r] = "check"
  /\ Goto(r, IF ShouldSave(src[r]) THEN "save" ELSE "create")
  /\ UNCHANGED <<plan, config, runs, calls, owner, src, failed, program, disk,
                 compiled, mishap, cut>>

\* save_kernel_source_to_disk: the file is opened, which truncates it ...
SaveSource(r, works) ==
  /\ pc[r] = "save"
  /\ IF works
       THEN /\ cl' = [cl EXCEPT ![Prefix[src[r]]] = Torn]
            /\ Goto(r, "saving") /\ UNCHANGED failed
       ELSE failed' = failed \cup {r} /\ Goto(r, "options") /\ UNCHANGED cl
  /\ UNCHANGED <<plan, config, runs, calls, owner, src, program, bin, compiled, mishap, cut>>

\* ... and written.  Nobody looks whether that worked: after a failed write the
\* call goes on with what is in the file.
SavedSource(r, works) ==
  /\ pc[r] = "saving"
  /\ IF works
       THEN cl' = [cl EXCEPT ![Prefix[src[r]]] = src[r]] /\ UNCHANGED cut
       ELSE short' = short \cup {src[r]} /\ UNCHANGED <<cl, lost>>
  /\ Goto(r, "options")
  /\ UNCHANGED <<plan, config, runs, calls, owner, src, failed, program, bin, compiled,
                 mishap>>

\* save_kernel_build_options_to_disk, even if the source could not be saved; the
\* harness never reads this file.  A file that cannot be opened ends the call.
SaveOptions(r, works) ==
  /\ pc[r] = "options"
  /\ IF ~works \/ r \in failed
       THEN Error(r)
       ELSE Goto(r, "create") /\ UNCHANGED owner
  /\ UNCHANGED <<plan, config, runs, calls, src, failed, program, disk, compiled, mishap, cut>>

\* clCreateProgramWithSource; or the way to the cache, which dump-cl-files and
\* failing device queries end.
Create(r, works) ==
  /\ pc[r] = "create"
  /\ \/ /\ config.mode = "kOnline" /\ works
        /\ program' = [program EXCEPT ![r] =
                         [src |-> src[r], mode |-> "kOnline", bits |-> config.bits]]
        /\ Goto(r, "build") /\ owner' = None
     \/ /\ config.mode # "kOnline" /\ works /\ config.cache # "dump-cl-files"
        /\ Goto(r, "open") /\ UNCHANGED <<owner, program>>
     \/ /\ ~works \/ (config.mode # "kOnline" /\ config.cache = "dump-cl-files")
        /\ Error(r) /\ UNCHANGED program
  /\ UNCHANGED <<plan, config, runs, calls, src, failed, disk, compiled, mishap, cut>>

-----------------------------------------------------------------------------
(* get_offline_compiler_output and what is made of it.                     *)

\* Mutant of Open: force-read falls back on the compiler.
OpenAlwaysCompiles(r) ==
  /\ pc[r] = "open"
  /\ IF bin[BinaryKey(src[r])] # None
       THEN Goto(r, "validate") /\ UNCHANGED owner
       ELSE Goto(r, "compile") /\ UNCHANGED owner
  /\ UNCHANGED <<plan, config, runs, calls, src, failed, program, disk, compiled, mishap, cut>>

\* The file is there, whatever the cache mode; or it has to be compiled.
Open(r) ==
  /\ pc[r] = "open"
  /\ IF bin[BinaryKey(src[r])] # None
       THEN Goto(r, "validate") /\ UNCHANGED owner
     ELSE IF config.cache = "force-read"
       THEN Error(r)
     ELSE Goto(r, "compile") /\ UNCHANGED owner
  /\ UNCHANGED <<plan, config, runs, calls, src, failed, program, disk, compiled, mishap, cut>>

\* write_cl_device_info; system(): the compiler starts and creates its output.
Compile(r, works) ==
  /\ pc[r] = "compile"
  /\ IF works
       THEN /\ bin' = [bin EXCEPT ![BinaryKey(src[r])] = Torn]
            /\ compiled' = compiled \cup {r}
            /\ Goto(r, "compiling") /\ UNCHANGED owner
       ELSE Error(r) /\ UNCHANGED <<bin, compiled>>
  /\ UNCHANGED <<plan, config, runs, calls, src, failed, program, cl, mishap, cut>>

\* The compiler ends: it made something of the .cl file, which may be incomplete,
\* or it left no output or an incomplete one.  Without its success, or without a
\* file to open, the call ends.
Compiled(r, left, works) ==
  /\ pc[r] = "compiling"
  /\ LET k == BinaryKey(src[r]) IN
     /\ left = "whole" => works /\ cl[Prefix[src[r]]] # None
     /\ bin' = [bin EXCEPT ![k] =
          CASE left = "whole" -> [src |-> cl[Prefix[src[r]]], mode |-> config.mode,
                                  bits |-> config.bits]
            [] left = "torn" -> Torn
            [] left = "nothing" -> None]
  /\ IF works /\ left # "nothing"
       THEN Goto(r, "validate") /\ UNCHANGED owner
       ELSE Error(r)
  /\ mishap' = (mishap \/ left # "whole")
  /\ UNCHANGED <<plan, config, runs, calls, src, failed, program, cl, compiled, cut>>

\* The SPIR-V validator, which refuses an incomplete file.
Validate(r, works) ==
  /\ pc[r] = "validate"
  /\ IF config.mode = "kSpir_v" /\ config.validate
        /\ (~works \/ bin[BinaryKey(src[r])] = Torn)
       THEN Error(r)
       ELSE Goto(r, "load") /\ UNCHANGED owner
  /\ UNCHANGED <<plan, config, runs, calls, src, failed, program, disk, compiled, mishap, cut>>

\* The file is read; clCreateProgramWithBinary or clCreateProgramWithIL makes a
\* program of it, unless it is incomplete, or refuses.
Load(r, works) ==
  /\ pc[r] = "load"
  /\ IF works /\ bin[BinaryKey(src[r])] \in Output
       THEN /\ program' = [program EXCEPT ![r] = bin[BinaryKey(src[r])]]
            /\ Goto(r, "build") /\ owner' = None
       ELSE Error(r) /\ UNCHANGED program
  /\ UNCHANGED <<plan, config, runs, calls, src, failed, disk, compiled, mishap, cut>>

\* build_program_create_kernel_helper, after the mutex: clBuildProgram, the
\* build status of the device, clCreateKernel.
Build(r, works) ==
  /\ pc[r] = "build"
  /\ program' = [program EXCEPT ![r] = IF works THEN @ ELSE None]
  /\ Goto(r, "idle")
  /\ UNCHANGED <<plan, config, runs, calls, owner, src, failed, disk, compiled, mishap, cut>>

-----------------------------------------------------------------------------
\* The process ends, or is killed at any point, and another one starts.
Restart(c) ==
  /\ runs < MaxRuns
  /\ runs' = runs + 1
  /\ c \in plan /\ config' = c
  /\ owner' = None
  /\ pc' = [r \in Threads |-> "idle"]
  /\ src' = [r \in Threads |-> CHOOSE s \in Sources : TRUE]
  /\ failed' = {}
  /\ program' = [r \in Threads |-> None]
  /\ compiled' = {}
  /\ mishap' = (mishap \/ \E r \in Threads : pc[r] # "idle")
  /\ lost' = lost \cup {src[r] : r \in {t \in Threads : pc[t] = "saving"}}
  /\ UNCHANGED <<plan, calls, disk, short>>

\* The suites have no more tests.
Finished ==
  /\ calls = MaxCalls /\ \A r \in Threads : pc[r] = "idle"
  /\ UNCHANGED vars

ThreadStep(r) ==
  \/ Lock(r) \/ Check(r) \/ Open(r)
  \/ \E works \in BOOLEAN :
       \/ SaveSource(r, works) \/ SavedSource(r, works) \/ SaveOptions(r, works)
       \/ Create(r, works)
       \/ Compile(r, works) \/ Validate(r, works) \/ Load(r, works)
       \/ Build(r, works)
       \/ \E left \in {"whole", "torn", "nothing"} : Compiled(r, left, works)

Next ==
  \/ \E r \in Threads : ThreadStep(r) \/ \E s \in Sources : Call(r, s)
  \/ \E c \in Config : Restart(c)
  \/ Finished

Spec == Init /\ [][Next]_vars

\* The operating system schedules every thread, and the compiler ends.
FairSpec == Spec /\ \A r \in Threads : WF_vars(ThreadStep(r))
-----------------------------------------------------------------------------
(* Properties.                                                             *)

\* Every variable keeps its type: in particular a program is made of a complete
\* compiler output, never of a torn file.
TypeOK ==
  /\ plan \in Plans /\ config \in plan /\ runs \in Nat /\ calls \in Nat
  /\ owner \in Threads \cup {None}
  /\ pc \in [Threads -> {"idle", "lock", "check", "save", "saving", "options",
                         "create", "open", "compile", "compiling", "validate",
                         "load", "build"}]
  /\ src \in [Threads -> Sources]
  /\ failed \subseteq Threads /\ compiled \subseteq Threads
  /\ program \in [Threads -> Output \cup {None}]
  /\ cl \in [Prefixes -> Sources \cup {Torn, None}]
  /\ bin \in [Key -> Output \cup {Torn, None}]
  /\ mishap \in BOOLEAN
  /\ short \subseteq Sources /\ lost \subseteq Sources

\* The cache is used for binaries and for SPIR-V, as it may be: every mode has the
\* same default path.
Mixed == \E c, d \in plan : c.mode = "kBinary" /\ d.mode = "kSpir_v"

\* The sources of which the file may be incomplete without anybody noticing: a write
\* failed, or a killed process left it so and a binary of the same name, found in
\* SPIR-V mode, makes should_save_kernel_source_to_disk spare the new write.
Spoilt == short \cup {s \in lost : Mixed}

\* A test gets the program of its own source and never of another one, whatever
\* earlier processes left in the cache, compiled in the mode of its process and,
\* for SPIR-V, for the address size of its device: the names of binaries do not
\* tell the size.  It is made of an incomplete source only where one is spoilt.
RightProgram ==
  \A r \in Threads : program[r] # None =>
    /\ \/ program[r].src = src[r]
       \/ program[r].src = Torn /\ src[r] \in Spoilt
    /\ program[r].mode = config.mode
    /\ config.mode = "kSpir_v" => program[r].bits = config.bits

\* The sources that are on disk, whole unless they are spoilt.
OnDisk == {s \in Sources : cl[Prefix[s]] = s \/ (cl[Prefix[s]] = Torn /\ s \in Spoilt)}

\* The compiler finds the file of the source that it is asked to compile, and the
\* source whole unless it is spoilt: what a killed process left of a .cl file has
\* been written again.
CompilerGetsItsSource ==
  \A r \in Threads : pc[r] = "compiling" => src[r] \in OnDisk

\* No thread reads what another one's compiler is still writing: an incomplete
\* file is only seen after a process was killed or the compiler failed.
TornOnlyAfterMishap ==
  \A r \in Threads :
    pc[r] \in {"validate", "load"} /\ ~mishap => bin[BinaryKey(src[r])] \in Output

\* A process that is to read from the cache (force-read), or to compile online,
\* leaves the cache alone.
QuietModes ==
  [][config.cache = "force-read"
     \/ (config.mode = "kOnline" /\ config.cache # "dump-cl-files")
       => UNCHANGED disk]_vars

\* Every call of create_single_kernel_helper returns.
CallsReturn == \A r \in Threads : pc[r] # "idle" ~> pc[r] = "idle"

\* parseParameters.cpp on overwrite: "Disable reading from the cache".  A program
\* would then come from the compiler that the same call ran.
OverwriteCompiles ==
  \A r \in Threads :
    program[r] # None /\ config.cache = "overwrite" => r \in compiled

=============================================================================
