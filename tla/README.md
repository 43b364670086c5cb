# A TLA+ model of the OpenCL CTS

The OpenCL Conformance Test Suite is some fifty executables (`test_conformance/*`) that
share one library, `test_common/harness`.  The suites talk to an OpenCL
implementation that is not part of the repository.  Most of the program's own logic is in the
harness: it chooses and runs tests, on several threads if asked
to, farms out jobs to a thread pool, compiles kernels with an external compiler and keeps
the results in a cache on disk, and turns all of it into a results file and an exit code.
A fault there makes a verdict of the whole suite wrong.  Of the suites, two have a protocol of
their own beyond "call OpenCL and compare": the conversions suite, in which jobs of the pool
and event callbacks on the driver's threads work on the frame of the function that waits for
them, and the memory stress suite, which has to survive a device that runs out of memory at any
point.  These modules model the harness and those two suites.

* [Inventory](#inventory)
* [The modules](#the-modules)
* [The runs](#the-runs)
* [What is proved](#what-is-proved)
* [What only TLC checks](#what-only-tlc-checks)
* [What is not modelled](#what-is-not-modelled)
* [Disagreements between the code and what is said of it](#disagreements-between-the-code-and-what-is-said-of-it)
* [Plan](#plan)

## Inventory

| Part | State | Operations | Hard because |
|---|---|---|---|
| **Thread pool** `ThreadPool.cpp` | `gRunCount`, `gRunning`, `gThreadCount`, `jobError`, `gFunc_ptr`/`gUserInfo`, `threadPoolInitErr`; mutexes `gThreadPoolLock`, `cond_lock`, `caller_cond_lock`; two condition variables | `ThreadPool_Do`, `GetThreadCount`, `SetThreadCount`; `ThreadPool_Init` (once), `ThreadPool_WorkerFunc`, `ThreadPool_Exit` (atexit) | workers and callers meet through atomic counters of which one has three meanings (jobs left, launch progress, order to exit); a missed wakeup hangs the suite |
| **Test harness** `testHarness.cpp` | selected tests, results, `gTestQueue` under `gTestStateMutex`, the totals `gTestsPassed`, `gTestsFailed`, `gFailCount` without it | setup, device check, selection, serial or parallel execution, one test from context to release, summary, results file, exit code | the totals race; a test fails in five different places; a late failure overrides an earlier pass |
| **Condition variable of the Windows build** `ThreadPool.cpp` 141-215 | an event, `mWaiters`, `mGeneration`, `mReleaseCount` under `mLock` | sleep, wake all | generations of sleepers overlap: one wakeup's are still leaving when the next ones arrive |
| **Offline compilation** `kernelHelpers.cpp` | the cache directory (`.cl`, `.options`, binary and SPIR-V files), `gCompilerMutex`, the compilation and cache modes | `create_single_kernel_helper` and what it calls | the cache outlives the process, which may be killed while it writes; modes and devices change between processes |
| Command line `parseParameters.cpp` | modes, paths, worker count, removed options | `parseCustomParam` | order of options |
| Suite setup `testHarness.cpp` 178-564 | device type, platform and device index, element count | trailing arguments, choice of platform and device | arguments are consumed from the end in one order |
| Thread pool on Windows `ThreadPool.cpp` 72-137 and the `#if` branches | the pool's state, and an event instead of `caller_cond_var` | init once; the branches of the pool | as the POSIX pool |
| **Conversions suite** `test_conformance/conversions` | the frame of `DoTest` (`writeInputBufferInfo`, `barrierCount`), the global buffers `gIn`, `gRef`, `gAllowZ`, mapped outputs, two user events per block, `gFailCount` | `TestTypesConversion`, `DoTest`, `InitData`, `PrepareReference`, `WriteInputBufferComplete`, `MapResultValuesComplete`, `CalcReferenceValuesComplete` | callbacks on threads of the driver use a stack frame and buffers that the next block writes again; events are counted on three threads |
| **Memory stress suite** `test_conformance/allocations` | `mems`, `number_of_mems_used`, `checksum`, `final_size`, the two sizes that are reduced, `queue` | `init_cl`, `doTest`, `allocate_size`, `fill_mem_with_data`, `execute_kernel`, clean up | any call may fail at any point and is retried with less, in two nested loops |
| Numeric conversions, images, random numbers, checksums | none, or a generator state | pure functions | floating point, large data |
| Typed wrappers | one OpenCL reference each | construct, assign, destroy | counting |
| Other conformance suites | the device under test | some 1500 tests | outside the repository |

How the parts interact: the harness's main thread starts test threads
(`--num-worker-threads`), which run tests.  A test calls `create_single_kernel_helper`,
which takes `gCompilerMutex`, and may call `ThreadPool_Do`, which takes `gThreadPoolLock`
and hands the test's function to the pool's own workers.  A job of
the pool may take `gCompilerMutex` while its caller holds `gThreadPoolLock`, never the other
way round.  The harness joins its threads before `main` returns, and `ThreadPool_Exit`
runs after that.  So these three parts share no state but meet through these calls, and each
has a module that leaves the others nondeterministic: any number of callers and any order
of calls for the pool, any threads and sources for the cache, any result of a test for the
harness.  The conversions suite is composed with the pool: `ConversionTest` uses `ThreadPool_Do`
through the actions of `JobService`, the abstract specification that `ThreadPool` is proved to
implement.

What makes each correct, in a sentence: the pool runs every job of a call once, none after
the call has returned, and returns the right result; the harness runs every selected test
once and tells the truth about it in three places; the condition variable releases exactly the
threads that wait; the cache gives a test the program of
its own source, whatever earlier processes left behind; a callback of the conversions suite works
only while `DoTest` waits for it, and the verdict is that on the device; the memory stress suite
gives back every object, compares with the sum of the right data, and passes only what it has
really allocated.

What in this code a unit test would hardly reach is listed, at its line, under
`hazards` in `PROJECT.json`, with the properties that would catch it.  Four smaller ones are not
in that list: `gThreadPoolLock` is not fair, so with several application threads one may wait for
ever while the others keep calling; a worker of the pool that is woken spuriously during
`ThreadPool_Init` takes one more item, and the loop there never ends; the trailing arguments of a suite are
consumed in one fixed order, from the end; and the totals of the conversions suite are incremented without
atomicity, like the harness's.

## The modules

| Module | What it is |
|---|---|
| `ThreadPool` | the pool, POSIX build: state, actions, properties |
| `JobService` | what `ThreadPool.h` promises of `ThreadPool_Do`: the abstract specification |
| `ThreadPoolFaults` | the pool with spurious wakeups and a failing `pthread_create`, and its invariant `FaultInv` |
| `ThreadPoolInv` | the inductive invariants of the pool: `IInv`, `JInv`, `SInv` and `Launched`, and `LaunchFailed` |
| `ThreadPoolService` | the refinement mapping from the pool to `JobService` |
| `ThreadPoolProofs`, `ThreadPoolJobProofs`, `ThreadPoolServiceProofs` | theorems from `IInv`, from `IInv` and `JInv`, and from `IInv` and `SInv`, the last also with faults |
| `CondVar` | an abstract condition variable and its lock |
| `WinCondVar`, `WinCondVarProofs` | the one of the Windows build, which implements it; its theorems |
| `TestHarness` | the harness, from the device check to the exit code |
| `TestHarnessInv`, `TestHarnessProofs` | its inductive invariant `HInv`, its theorems |
| `OfflineCache` | program creation and the cache on disk |
| `OfflineCacheInv`, `OfflineCacheProofs` | its inductive invariant `CInv`, its theorems |
| `ConversionTest` | the conversions suite, on top of `JobService` |
| `ConversionInv`, `ConversionProofs` | its inductive invariants `ConvInv` (the barrier), `RefsInv` (references) and `DataInv` (buffers and verdict), its theorems |
| `Allocations`, `AllocationProofs` | the memory stress suite; its invariants and theorems |
| `MC*` | constants for TLC |

### ThreadPool

One action is one access to shared state: an atomic operation on a counter, one mutex
operation, one entry to or exit from `pthread_cond_wait`, one call of the user's function.
So TLC interleaves exactly what the machine interleaves.  Variables have the names of the
code.  `wpc[w]` and `cpc[c]` say where a worker and a calling thread are.  A worker's
actions (`W...`) are the lines of `ThreadPool_WorkerFunc` in order; a caller's (`C...`, and
`I...` inside `ThreadPool_Init`) those of `ThreadPool_Do`, `GetThreadCount` and
`ThreadPool_Init`; `X...` those of `ThreadPool_Exit`.

* Waiting on a condition variable releases the mutex and parks in one step (`"waiting"`);
  a broadcast moves every parked thread to `"woken"`; it then needs the mutex.
* `gFunc_ptr` and `gUserInfo` are one variable: a caller is its own user data.
* `cl_int` overflow cannot happen: `gRunCount` starts below `MAX_COUNT` (0x20000000) and
  each worker subtracts one when it finds nothing.  `MAX_COUNT`, `CL_INT_MAX` and the 1000 broadcasts of
  `ThreadPool_Exit` (`MaxSpins`) are constants, and the code's relation between them is an
  assumption.
* `started` and `raised` are history: which jobs a call has started and which errors they
  returned.
* `SetThreadCount` is used before the first call, as the header asks; `ThreadPool_Exit` starts
  when no call is in progress, because the harness joins its threads first.
* Errors that mutex functions report for misuse (`EINVAL`, `EDEADLK`) are left out: the model
  has no misuse to report.

`JobService` knows no threads: a call has jobs, each is started at most once and finishes,
and the call returns when none is running, with a result that tells what happened.
`ThreadPoolService` maps the pool to it: a call of `ThreadPool_Do` works from its start to
its return, and the jobs that run are those inside the user's function, in a worker or in the serial loop.
Calls of `GetThreadCount` are invisible.

`ThreadPoolFaults` adds what POSIX allows and the code has a loop or a branch for, in
two specifications: workers woken without a broadcast together with threads that fail to start
(`WorkerFaultSpec`), and callers woken without a broadcast (`CallerFaultSpec`).

### WinCondVar

The pool's Windows build brings its own condition variable for systems without one
(`ThreadPool.cpp` 141-215): a manual reset event that a wakeup sets, a count of the threads
that sleep, one of the threads still to be released, and a generation that tells the sleepers of
a wakeup from the ones that come later.  `pc[t]` follows a thread through
`_SleepConditionVariableCS`.  A critical section of `mLock` is one action, because all it
protects is accessed inside and nothing blocks there.  `WakeAll` needs no lock: `ThreadPool_Do` calls it with
`cond_lock` and `ThreadPool_Exit` without.  The client (`EnterCS`, `LeaveCS`) is any thread that
takes `cond_lock` and then sleeps or leaves, and wakeups come at any time.

`CondVar` is what the pool relies on: waiting gives up the lock in the same step, a wakeup
releases all threads that wait, and only a thread that was woken returns.  In the mapping a
thread waits from the moment it has read the generation and counted itself (`Enlist`): from
there on a wakeup is for it too, although it still holds `cond_lock`.

### TestHarness

`mpc` is the main thread's place, `tpc[r]` the place of a thread that executes a test (the
main thread itself in the serial loop).  A critical section of `gTestStateMutex` is one
action (`Take`, `StoreResult`); an increment of a total, which the code does without the
mutex, is a load and a store (`Load`, `Store`), so updates get lost in the model as they do
in the code.  An argument of the command line is abstracted to its kind and the set of tests
whose names it matches.  The return value of a test is one of 0, 1, 2, -1 and
`TEST_SKIPPED_ITSELF`; context, queue and `clFinish` may each fail.  `wrong` is history: the
tests in which anything failed.  `Setup` stands for everything up to the device check; it
works, lists the tests, or fails.

### OfflineCache

`cl` and `bin` are the files in the cache: absent, `Torn` (somebody has begun to write),
or complete.  A source and its build options have one prefix, the kernel names and two CRCs; that the prefixes of
different sources differ is an assumption (`PrefixAssumption`), which 32 bit CRCs make likely and not certain.  `BinaryKey` is the file name: the bare prefix for
binaries, prefix and address size for SPIR-V.  The steps of a call are those of
`create_single_kernel_helper_create_program`, `get_offline_compiler_output` and
`build_program_create_kernel_helper`; writing a `.cl` file and running the compiler take
two actions each, so that `Restart` (the process ends or is killed, and the next one starts
with other options on another device) can fall in between.  The compiler may succeed, leave
a torn file or leave nothing; the validator and the driver refuse a torn file.  A driver that
accepted one would be a fault of the driver.

* Opening a `.cl` file is checked by the code, writing and closing it are not (`kernelHelpers.cpp` 274-277): `SavedSource`
  may fail, and the call then goes on with a torn `.cl` file as if it were saved.  The compiler may accept it, and
  what it makes of it is an output whose source is `Torn`.
* `short` and `lost` are history: the sources of which a write failed, or was cut off by the end of the process.
* `plan` is the set of options that the processes of one cache are started with.  The cache path has the same
  default in every mode, so a plan may have binaries and SPIR-V in one directory (`Mixed`).  Then
  `should_save_kernel_source_to_disk`, which looks for the file with the bare prefix also in SPIR-V mode, may find a
  binary and spare a new write of a `.cl` file that a killed process left torn.
* `Spoilt` is the set of sources that may be incomplete without anybody noticing: those in `short`, and in a mixed
  cache those in `lost`.

### ConversionTest

`pc` is the place of the main thread: between conversions (`"suite"`, `"returned"`) or in `DoTest`,
one action per OpenCL call or call of the pool.  `cb[v, b]` is the place of the callback of
vector size `v` and block `b`; blocks are numbered through all conversions, so a callback that
is late still belongs to its own block while `DoTest` is blocks ahead.  `refs` and `complete` are
the reference counts and the state of the two user events of each block.  What the frame holds
(`doneBarrier`, `barrierCount`, `result`) is one variable each, not one per block, because the
frame is reused: a late callback in the model sees the next block's values, as it would in the
program.  The jobs of `InitData` and `PrepareReference` run through `Pool!Call`, `Pool!Start`, `Pool!Finish`,
`Pool!Return` and `Pool!Forget` of `JobService`.

* An input is a number, its reference the next one, so that no two inputs share a result and a
  comparison with another block's values cannot succeed by chance.  `Zero` is a result that is
  right only where denormals are flushed; `NaN` is one of other bits than the reference, right only where that is a NaN; `Bad` never is right.
* A conversion (`kind`) is what `check_result` tells apart: its vector sizes, whether its output is an integer, a
  float (half is as float) or a double, whether the types are equal, which inputs may be flushed to zero, which are NaNs,
  and which have a result beyond 0x7f80000000000000 as a double.  `check_result` has the NaN clauses of all three
  floating point branches, the one for doubles with the constant it has in the code; `FixNanConversions` zeroes what became of
  a NaN that was made an integer, in the references and in the output.
* `Right` says what the device may return, by OpenCL; `Passes` what the comparison lets through.  The difference is
  recorded in `missed`, what fails the comparison in `wrong`.
* `gFailCount` is kept as "not zero": increments that race lose counts, never the fact.
* `Faults` names the OpenCL calls that may fail; the model follows the suite up to the first
  failure it counts.  A `clFinish` that fails in the timing loop ends `DoTest` without being counted, as in the code.
* A blocking map is one action with the kernel before it.  Special value tables and
  random inputs are data and left out.

### Allocations

`pc` walks through `doTest` and, inside it, `allocate_size`.  A slot of `mems` is `"none"` (never
written), `"null"`, `"live"` or `"released"`; `checksum` counts, per slot, how often the data of
the object in it has been added, so that "the right sum" is "once for each object the kernel has
and for nothing else".  `final_size` starts with any value of `Garbage`, as it is not initialised.
Sizes are integers with the code's arithmetic (60%, halves, sixteenths, rounding to a megabyte,
images near a square), scaled down: a pixel and a megabyte are 16 bytes.  `check_allocation_error` is the
set of outcomes a call may have, among them that the queue was invalid and has been replaced.
`lost`, `spoilt` and `passed` are history.

## The runs

All runs check deadlock except the ones named below.  States are distinct states.

| Run | Instance | Shows |
|---|---|---|
| `pool` | 2 callers (symmetric), up to 2 workers, 1 to 3 jobs of which 3 is refused, one error code, 1 broadcast on exit, 1 spurious wakeup of a worker, launches that may fail | `FaultInv` (`IInv` with the type invariant, and `SInv` with `JInv` in it, or a failed launch), the safety properties and the refinement of `JobService` (no deadlock check: the pool hangs after a failed launch, see `FailedLaunchIsFinal`) |
| `pool_live` | 1 caller, 2 workers, 1 to 3 jobs, 2 broadcasts on exit | `ThreadPool_Init`, every call that has the pool, and `ThreadPool_Exit` return |
| `win_cond_var` | 3 threads, 4 entries to the lock, 3 wakeups | `VInv`, the refinement of `CondVar`, and that every thread that was woken returns (no deadlock check: threads may sleep with no wakeup to come) |
| `harness` | 4 tests (one missing, one refused by the offline compiler), up to 2 workers, 7 command lines | `HInv` and the harness's properties, and that it returns |
| `offline_cache` | 2 threads, 2 sources, 2 processes with 3 calls in all, three caches: binaries with every cache mode, SPIR-V with both device sizes, and both kinds in one; writes that may fail | `CInv` and the cache's properties, and that every call returns |
| `conversions` | 2 vector sizes, 2 or 3 threads (which round up to 2 and 4), blocks of 2 elements, 2 conversions of 4 kinds (to integers, to float, to double, double to double) with up to 2 blocks, up to two wrong elements per block and vector size, NaNs among them, 8 calls that may fail, the `clFinish` of the timing included | `ConvInv`, `RefsInv`, `DataInv`, the suite's properties, and that `DoTest` returns |
| `allocations` | 2 slots, 32 bytes per object, 96 of memory, images of 1 by 2 pixels, 6 configurations (buffers and images, blocking or not, one object or several, filled or not, one or two repetitions) | the suite's properties, and that `doTest` returns |
| `pool_zero_jobs`, `pool_caller_wake`, `harness_exit_code`, `offline_overwrite`, `conversions_nan` | smaller | violations, [see below](#disagreements-between-the-code-and-what-is-said-of-it) |

The properties:

* **Pool.** `NoJobOutlivesItsCall`: no worker is in the user's function once its call has
  left its wait, so `userInfo` may live on the caller's stack.  `ReturnIsRight`: success only
  if every job ran and none failed, else an error of this very call.  `JobsRunOnce`: no job
  id is handed out twice.  `ThreadIdsDistinct`: ids index per-thread buffers.
  `ThreadIdCounterAlive`: the counter the workers increment when they start is on the stack of
  `ThreadPool_Init`.  `ExitOrderStands`: `gRunCount` never falls back below `MAX_COUNT` after
  the order to exit.  `ExitKnowsWhoIsLeft`: while `ThreadPool_Exit` runs, `gThreadCount` is the number of
  workers that have not left.  `DoReturns`, `InitReturns`: no wakeup is lost.  `ExitReturns`: `ThreadPool_Exit` broadcasts without
  `cond_lock`, so that a worker may miss it, but it returns all the same.
* **Condition variable.** `VInv`: the counters are exact, and the event is signalled exactly while a
  thread that was woken has not left, so nobody is left behind and nobody spins.  `ImplementsCondVar`;
  `SignalledReturn`: a wakeup is not lost, whatever wakeups and sleepers come after it.
* **Harness.** `EachTestOnce`; `NothingLeftBehind` (queue empty, all contexts released);
  `ResultsFileIsRight`; `ExitCodeIsRight` (what the code does: a failure or an unwritable results file, and nothing else,
  gives `EXIT_FAILURE`; what the header says is `HeaderPromise`, see below); `SummaryIsRight` (increments of `gTestsFailed` get
  lost, but never all of them, so the verdict is right even when the number is not);
  `SelectionIsRight`; `HarnessReturns`.
* **Cache.** `RightProgram`: a test gets the program of its own source, in the mode of its process and, for SPIR-V,
  for the address size of its device (the name of a binary does not tell the size, and a binary for another one is found); made
  of part of the source only where that is spoilt.  `CompilerGetsItsSource`: the compiler finds the file of its
  source, whole unless spoilt: what a killed process left is written again.  `TornOnlyAfterMishap` (no thread reads what
  another one's compiler is writing); `QuietModes` (force-read and online runs do not touch
  the cache); `CallsReturn`.
* **Conversions.** `WorkInsideTheWait`: a callback uses the frame and the buffers only while `DoTest`
  waits for its very block.  `EventsAreBalanced`: nobody uses an event without a reference, and
  a test in which nothing failed keeps none.  `VerdictIsRight`: `DoTest` returns the place of the first element that
  does not pass, of the first vector size that has one, else 0, and whatever went wrong is counted, but a `clFinish` that fails in the
  timing loop (`TimingFailed`).  What passes and should not is the subject of `NothingIsMissed`, see below.  `DoTestReturns`.
* **Allocations.** `ObjectsAreSettled`: no object survives its attempt or is overwritten while it
  lives, and Clean up meets a released one only after a failed write.  `KernelSeesTheSum`: after any
  retries the checksum is that of the kernel's live objects.  `VerdictIsEarned`: no failure counted
  means that each repetition ended with an eighth or more of the target allocated and, unless the command line says not to, a kernel
  run on it.  `DoTestReturns`.

*Bounds.*  Two workers are the fewest for which "the last worker out" differs from "a worker",
and the fewest the pool allows; two callers are enough for one to prime a call while the other
leaves; counts of one and two jobs leave one worker without a job, or give each one, and three
is refused.  One broadcast on exit makes `ThreadPool_Exit` give up with workers left, two let it make up for one that was missed.  Three threads and three wakeups give a sleeper of a first wakeup that is still leaving, one of a
second, and one that arrives in between.  Job errors and the exit order reach every branch of the worker.  Two test
threads are enough to lose an increment; four tests are one of each kind and leave a queue for
both.  Two processes, of which the first may be killed anywhere, are enough for a file to be
found in each of its states; a third finds the same files again.  Three calls let two threads compete for a source that the
first process has left.  Two vector sizes are the fewest
for which the last callback is not the only one, two wrong elements let the wrong one be taken for the first, and two blocks and a second conversion let a
callback be late for each; three threads are no power of two.  Two slots give an object before the
one that fails; the sizes make every branch of the reduction happen, a halved one included.  The
invariants, all safety properties of the passing runs and the refinements are proved without bounds,
the ones of the faulty pool included, so for them the runs serve to find mistakes
early; only liveness rests on the bounds.

*Fairness.*  `pool_live`, `win_cond_var`, `harness`, `offline_cache`, `conversions` and `allocations` assume weak fairness of each thread:
the operating system schedules every thread that can run, the user's functions, tests and
compilers return.  In `conversions` the threads are the main one, those of the pool and those on
which the driver calls callbacks: that a registered callback is called once its event is complete is
OpenCL's promise.  `allocations` has one thread, and no OpenCL call hangs.  A contended mutex could call for strong fairness; it is not needed because
the holder of each mutex releases it and the bound on calls (or the start of `DoReturns` after
`gThreadPoolLock` is taken) leaves no endless competition.  No fairness is assumed for new
calls, for sleeping, for wakeups, for exits, for restarts or for faults.

## What is proved

Theorems hold for all values of the constants that satisfy the named assumptions: any number of
threads, callers, jobs, tests, workers, arguments, sources, processes and calls.

**Thread pool** (assumption `ConstantsAssumption`: at least two threads, thread counts within
`MaxThreads`, `CL_INT_MAX >= MAX_COUNT + MaxThreads`).  The inductive invariant `IInv` says:
each mutex is owned by the thread that is between its lock and its unlock (`Locks`); who may be
where in each phase of the one-time initialisation (`Phases`, `Launch`); **`gRunning` is the
number of busy workers, plus those still to be launched** (`Running`); and **the pool is quiet,
nobody busy and `gRunCount` not positive, whenever the last worker out signals and whenever no
caller is waiting** (`QuietTimes`).  The last two need each other: the worker that counts from 1
to 0 knows that nobody is busy only because the counter is exact, and nobody becomes busy
behind its back only because it holds `cond_lock`, under which items are taken.  From `IInv`:
`NoJobOutlivesItsCall`, `ThreadIdCounterAlive`, `ExitOrderStands` (each worker takes at most one
item after the order: `gRunCount` plus the workers gone stays at `CL_INT_MAX` or above).

The second invariant `JInv`, proved relative to the first, accounts for jobs: the items in
workers' hands are distinct jobs of the call, not started, and not to be handed out again
(`ItemsAreJobs`); unless a job failed none is lost (`NoJobLost`); an error raised is in
`jobError` or in the hands of a worker that is about to put it there (`ErrorsKept`).  From it:
`ReturnIsRight` and `JobsRunOnce`.

`SInv` adds thread ids (`ThreadIds`: the workers that have an id are as many as `tid`, their ids
are below it and distinct, and until the order to exit the workers launched are those `gThreadCount` counts) and
what the job service sees (`RunningJobs`: the jobs inside the user's function are different and
were started; `NoCall`: a thread that makes no call has no jobs).  From it: `ThreadIdsDistinct`,
and `Spec => ImplementsJobService`: `CCall` is `Call`, `WCall` and `CSerialCall` are `Start`,
`WReturn` and `CSerialReturn` are `Finish`, the three ends of a call (refused, serial, pool) are
`Return`, `CReturned` is `Forget`, and every other step is a stutter.  `Start` needs
`ItemsAreJobs`, `Finish` needs that no two workers run the same job, and `Return` needs both
`Results` and that nothing of the call runs (`QuietTimes`).

`Launched` is about the way out: the workers launched are there until they leave, and `ExitKnowsWhoIsLeft`.  That
`gThreadCount` is exact at the exit needs `ThreadIds` and that a pool in use has launched its workers.  From it
`ExitCountIsRight`, with the faults below.

All of this also holds when workers are woken without a broadcast, any number of times, and when
`pthread_create` fails (`FaultsLeaveOrder`, `FaultyPoolIsAJobService`, `FaultsAreHarmless`;
`FaultsAssumption`: the code of a failed launch is not `CL_SUCCESS`).  A worker that wakes up in
the middle of a launch takes an item id that is not positive and parks again; the invariant allows for it
by letting workers be at `"woken"` and `"take"` during the launch (`LaunchLabels`).  After a failed
launch `IInv` is false for good, as `gRunning` is more than the workers account for; `LaunchFailed`
says what is left: the surplus stays, so no worker is the last one out, the thread in
`ThreadPool_Init` stays in its wait, all others stay before `pthread_once`, and no item is a job.
`FaultInv`, which is `PoolInv` (`IInv` and `SInv`) or `LaunchFailed`, is the invariant.  `FailedLaunchIsFinal` says that
a launch that fails leads to `LaunchFailed` and that nothing leads out of it.  So a hang is the
worst that happens: no call is served by half a pool.

**Condition variable of the Windows build** (`CondVarAssumption`: a finite set of threads).  `VInv`
says that `mWaiters` and `mReleaseCount` are the numbers of threads that sleep and of those whose
generation has passed, that the event is set exactly while there are any, and that a thread past
its test was woken.  A second wakeup may overwrite `mReleaseCount` because everyone whom the first
one woke and who has not left is still counted in `mWaiters`.  From it `EventIsRight` and
`Spec => ImplementsCondVar`.

**Test harness** (`HarnessAssumption`: types only).  `HInv` says who runs when, that each
selected test is queued, in the hands of one thread, or done; what is known of it in each place;
that there is a failure exactly when `gTestsFailed` is positive or a thread owes it an increment
(`Counted`: a lost update stores a positive number, which is why the summary is right); and what
selection has done so far.  From it all six safety properties and `EachTestOnce`.

**Offline cache** (`CacheAssumption`, `PrefixAssumption`).  `CInv` says who holds
`gCompilerMutex`, what a thread has made sure of before each step (`Sourced`), and what the files
contain (`Stored`: a complete file is what its name says, of a whole source unless that is spoilt; `Writing`: a torn file is being
written unless there was a mishap), in every process, with any writes that fail and with binaries and SPIR-V in one
directory or not.  From it `RightProgram`, `CompilerGetsItsSource`, `TornOnlyAfterMishap` and `QuietModes`.  In a mixed cache the
compiler still finds a `.cl` file, because no binary comes into the cache before the file of its source; it may be the torn one that a killed
process left, which is why `Spoilt` has that case.

**Conversions suite** (`ConversionAssumption`: types, at least two vector sizes; `PartitionAssumption`, for
the verdict only; and, for all theorems, that `clWaitForEvents` does not fail).  `ConvInv` says that blocks to come are blank, that no
callback starts before `DoTest` has set the reference event of its block, and that **during
the wait `barrierCount` is an upper bound of the callbacks that have not passed it**
(`BarrierIsUpperBound`), so that the one that takes it from 1 to 0 is the last and nobody is at
work once the barrier is complete.  It is a bound and not the number because a registration that fails leaves the
barrier too high: then `DoTest` waits for ever, but still nobody uses a dead frame.  From it
`WorkInsideTheWait`, for any number of vector sizes, threads, blocks and conversions, with every
other call allowed to fail.  When the wait itself fails the property is false, since `DoTest` then returns
with callbacks at work.

`RefsInv`, on top of it, keeps the accounts of the two user events of a block, at every place of `DoTest`:
`calcReferenceValues` has one reference of `DoTest` and one per registration still to come (`CalcReferences`),
`doneBarrier` one of `DoTest` and one of the callback that passes the barrier last (`DoneReferences`, `OneHolder`), which
may keep it after `DoTest` has moved on (`HolderHasReference`); a call that failed leaves references too many, never
too few; and a block in which nothing failed leaves none but that callback's (`ReferencesSettled`).  From it `EventsAreBalanced`.

`DataInv`, also on top of `ConvInv`, follows the data of a block from job to verdict: the jobs
of the pool are those of this block and are over when their call is (`JobsInOrder`), no element is left over (`BlockInOrder`), the references of
finished jobs belong to the inputs the device got (`ReferencesInOrder`, `InputsInOrder`), an output holds the kernel's results until
its own callback has judged it (`OutputsInOrder`, `CallbacksInOrder`), `result` tells what was judged
(`ResultsInOrder`), and the value returned is the first of them (`VerdictGiven`).  From it, and `FailuresCounted`, `VerdictIsRight`.
`PartitionAssumption` is what makes the jobs cover the block: block sizes are powers of two, a conversion has a power of two or whole blocks of
inputs, and rounding the number of threads up to a power of two does not overflow.  It holds for any values the device may return and whatever an
earlier conversion left in `gAllowZ`.

**Memory stress suite** (`AllocationAssumption`: sizes are positive, an object is no larger than the memory, as
`init_cl` checks).  `AInv` says that the slots below `current_allocation` hold exactly the live objects,
each counted once in the checksum (`SlotsInOrder`), and that `number_of_mems_used` covers them
and is one too many only after a failed fill (`MemsInOrder`).  From it `ObjectsAreSettled` and
`KernelSeesTheSum`.  `JInv`, on top of it, is about the verdict: `final_size` is that of the attempt
once the attempt has an object, and an attempt that ends well has one or was after nothing
(`SizeInOrder`).  From it `VerdictIsEarned`, although `final_size` may be stale or uninitialised.

## What only TLC checks

Liveness (`DoReturns`, `InitReturns`, `ExitReturns`, `SignalledReturn`, `HarnessReturns`, `CallsReturn`, and
`DoTestReturns` of both suites): temporal
reasoning under fairness is out of the prover's reach.  The violation runs, with the faults of callers
among them, are counterexamples and nothing to prove.

## What is not modelled

The list with reasons is under `components` in `PROJECT.json`.  In short: floating point
(conversions, image sampling, the reference results of the suites) is out of TLC's reach; error
texts and operating system wrappers are wording and I/O; the other conformance suites, which
are most of the repository's lines, each call OpenCL and compare with a reference: their control is a straight
line, and the system that has the behaviour is not in the repository; GL, Direct3D and Vulkan support is calls of external
libraries; miniz is vendored.  Within the modelled files: the other Windows branches of `ThreadPool.cpp`,
the parsing of names and options, and the queries at the end of `kernelHelpers.cpp` and
`testHarness.cpp`.

## Disagreements between the code and what is said of it

* `pool_zero_jobs`: with the pool up, `ThreadPool_Do` with a count of 0 never returns; no worker
  has a reason to signal.  The serial branch, which the comment in the code calls the sample to be mimicked, returns
  `CL_SUCCESS`.
* `pool_caller_wake`: the wait ends when `gRunning` is 0, which is also its value before the
  first worker wakes up; a spurious wakeup of the caller then ends the call with `CL_SUCCESS` and
  jobs not run.
* `harness_exit_code`: `testHarness.h:171` promises `EXIT_SUCCESS` if and only if all tests succeeded or were listed; skipped
  tests, one by one or all of them by the device check, also give `EXIT_SUCCESS`, and a results file that cannot be written
  gives `EXIT_FAILURE`.
* `offline_overwrite`: the help says that overwrite disables reading from the cache; the code reads
  a file that is there.
* `conversions_nan`: for double outputs `check_result` compares the reference with 0x7f80000000000000
  (`basic_test_conversions.cpp:381`), the float constant widened by zeros, instead of infinity; a NaN then passes where an infinity or a large
  number is due.  The comment above it, "Allow nan's to be binary different", allows it for NaNs only.

Met while modelling, without a run of their own:

* Pool: when `pthread_create` fails, `gThreadCount` is corrected but `gRunning` is not, nobody is the last one out, and
  `ThreadPool_Init` hangs.  That this is so in every behaviour is the theorem `FailedLaunchIsFinal`.
* Cache: a `.cl` file that could not be written to its end is reported as saved and compiled (`kernelHelpers.cpp:274-277`), and what comes of it is
  kept (`short`).  With binaries and SPIR-V in one directory a source that a killed process left torn may be compiled (`lost`).
  In binary mode a file made for a device with another address size is found and loaded.
* Conversions: `DataInfoSpec::init` starts every job at the first input of the block
  (`conversions_data_info.h:761`), so with several jobs per block the same inputs are tested several times and the rest not at all.
* Conversions: `gAllowZ` is not written for conversions between equal types, and `check_result` reads what an
  earlier conversion left: a zero may pass that is wrong.  The model records it in `missed`.
* Conversions: a kernel, map or callback registration that fails leaves `DoTest` waiting for ever; a failing `clFinish` of the
  timing loop is not counted.
* Allocations: the comment and the message of `main.cpp:226-231` call it a failure not to allocate more than an eighth of the
  target; the test there lets exactly an eighth pass, and `VerdictIsEarned` states that.
* Allocations: the comment "this implicitly assumes that  max width >= max height"
  (`allocation_functions.cpp:77`) is the wrong way round: where the maximal height is the smaller one the
  image is cut off and the size check aborts the test.
* Allocations: after a failed write an object is released by `fill_mem_with_data` and again by Clean up; a
  queue that was replaced is released behind the harness's back; a failing `clFinish` after a blocking write to an image
  ends in `exit(-1)` with "Test logic error."; an attempt without objects is judged by an old `final_size`.

## Plan

Done: the pool, its abstract specification, faults and invariants; the condition variable of the
Windows build; the harness; the cache; the conversions suite on top of the pool's abstract
specification; the memory stress suite; the theorems above.  Left, in this order:

1. `CommandLine`: `parseCustomParam` and the trailing arguments of `runTestHarnessWithCheck` up to
   the choice of the device, refining the `Setup` step of `TestHarness`.
2. The Windows branches of the pool on top of `CondVar`, with the event that replaces
   `caller_cond_var`, and `_InitOnceExecuteOnce`.
3. Two processes that share a cache at the same time, where `gCompilerMutex` does not help.
4. Reference counts of the typed wrappers; saturating integer conversions as pure operators
   checked against reference definitions.
