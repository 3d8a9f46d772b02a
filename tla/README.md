# Specifications of the EC440 systems projects

TLA+ models of the C programs of this repository, their TLC configurations, and
TLAPS proofs. Paths below are relative to `src/`.

## The system and its parts

| Part | Source | State | Operations |
|---|---|---|---|
| Scheduler | `2. Threading Library/threads.c`, `3. Thread Synchronisation/threads.c` | `TCB_Table` (status, registers, stack), `TID` | `schedule()`, called by the library and as the SIGALRM handler |
| Thread creation and end | the same | `is_first_call` | `scheduler_init`, `pthread_create`, `pthread_exit`, `pthread_self` |
| Mutex | `3. Thread Synchronisation` | `state`, `wait_list` | init, destroy, lock, unlock |
| Barrier | `3. Thread Synchronisation` | `init`, `flag`, `calling_thread`, `count`, `left` | init, destroy, wait |
| Thread local storage | `4. Thread Local Storage/tls.c` | hash table of threads, pages with reference counts | create, destroy, read, write, clone, page fault handler |
| Shell | `1. Simple Shell/myshell.c` | children, pipes | `execCommand`, the SIGCHLD handler, the main loop |
| Parser | `0. Simple Shell Parser`, `1. Simple Shell` (`myshell_parser.c`) | the pipeline being built | `pipeline_build`, `pipeline_free` |
| File system | `5. Virtual File System/fs.c` | directory, block table, bitmap, descriptors | the calls of `fs.h` |
| Virtual disk | `5. Virtual File System/disk.c` | blocks, `active` | make, open, close, read, write |

Mutex and barrier change the statuses of threads and call `schedule()`; the file
system calls the disk; the shell calls the parser. Thread local storage uses the
system's own pthreads, not this library.

What makes each part hard, and what should hold of it:

* **Scheduler.** SIGALRM comes between any two statements, also inside
  `schedule()` (`SA_NODEFER`). Every thread that can run should get its turn, and
  a switch should look like one step to everybody else.
* **Creation and end.** Neither masks the signal. Ids should be unique, the
  search for a READY thread should end, and so should the process.
* **Mutex, barrier.** Both test shared fields with the signal enabled and mask it
  only to write. Mutual exclusion, no lost wakeup, no early exit from a barrier,
  and a barrier that is ready for its next round.
* **File system.** Long sequences of legal calls, a full disk, several descriptors
  of one file, unmounting and mounting, a process that ends without unmounting.
  Files should hold what was written, and no block should belong to two of them.
* **Thread local storage.** Pages are shared after a clone and copied when
  written. Reference counts change partly outside the mutex. Private data should
  stay private.
* **Shell and parser.** The order of fork, pipe, close and wait, and two places
  that collect children. A pipeline should end, and no child stay a zombie. What
  runs should be what was written.

## Modules

* `Scheduler`: the statuses, `TID` and `schedule(st)` as one step. `Gap` counts
  the increments of the search loop, so the next thread is the READY one with
  the least gap. `proc` is `"spin"` when the loop would never end.
* `ScheduleSteps`: `schedule()` statement by statement. Each thread has a stack of
  unfinished calls, `regs` says to which frame `longjmp` returns, and `Alarm`
  pushes a frame anywhere. `old_status` and `old_TID` are the values without the
  unfinished switch, and are what `Scheduler` is instantiated with.
* `Threads`: creation and end, one action per stretch of code that the timer
  cannot usefully split; `pc` says where each thread is. An alarm between
  `ualarm` and `sigaction` kills the process (`AlarmUnhandled`).
* `FairQueue`, `MCThreads`: the line of threads the scheduler promises, and the
  mapping from `Threads` to it.
* `Mutex`, `Barrier`: the two primitives, used by threads that already exist. A
  stretch between `lock()` and `unlock()` is one step; a test outside it is a
  step of its own. In `Barrier`, `left--` is a load and a store.
* `FileStore`: what a file system promises (named byte sequences, descriptors with
  positions). `FileSystem`: `fs.c` with the disk, one action per call, and `Crash`,
  the end of the process between two calls. `saved` is the directory and table on
  the disk, `Files` and `Fds` read the files and positions by following blocks and
  inode numbers. `MCFileSystem`: the bounds for TLC.
* `PrivateStorage`: what thread local storage promises, a private array per thread.
  `LocalStorage`: `tls.c`, called by threads that run in parallel. A step ends where
  another thread can see or disturb what comes next, so reference counts are
  loaded and stored in separate steps. `Remove` unlinks nothing, and freed Items
  (`NULL`) stay in the chains. `MCLocalStorage`: the mapping, which reads the bytes of
  a thread through its pages.
* `Parser`: `pipeline_build` on tokens (words, special characters, white space). Words
  are sequences of letters, because `deleteWords` deletes a text inside words too.
* `Shell`: `myshell.c` among its children. Pipes have a capacity, programs read and
  write them, `wait` and the SIGCHLD handler compete for the children. `MCShell`
  writes lines by the rules of the documentation, gives them to the parser and
  compares what is executed with what was written.
* `SchedulerProofs`, `ScheduleStepsProofs`, `ThreadsProofs`, `MutexProofs`, `BarrierProofs`,
  `LocalStorageProofs`, `ShellProofs`: the proofs.

Projects 2 and 3 contain the same scheduler; `Scheduler` is mapped to the copy of
project 3, `Threads` and `ScheduleSteps` mostly to that of project 2. The parsers of
projects 0 and 1 are the same code as well; `Parser` is mapped to both.

**History variables.** The code is wrong if the timer fires in certain places.
`hit` (in `ScheduleSteps` the counter `hits`) records that it has; in `LocalStorage`
it names the races, and the leaks of pages, that have happened. `ignored`, `marks`,
`lost` and `early` record other events that later steps trip over, `kept` the saved
files nobody touched. A property that names one says what holds until that happens.
Where the documentation promises the property without exception, it is broken: five
further runs show this with a counterexample for the scheduler, thread termination,
the mutex, the barrier and the remounting of a disk. The other places are listed
under "Where code and documentation differ".

## Runs

| Run | Bounds | Result |
|---|---|---|
| `threads` | 4 slots | holds, 22,597 states |
| `threads_exit` | 4 slots | **violated**: `ProcessExits` |
| `schedule_steps` | 3 threads, stack depth 2, one alarm in the window | holds, 201,218 states |
| `schedule_nested` | 2 threads | **violated**: `FairShare` |
| `mutex` | 3 threads | holds, 92,016 states |
| `mutex_handoff` | 3 threads | **violated**: `WokenAcquires` |
| `barrier` | 3 threads, counts 0 to 3, 6 calls | holds, 17,757 states |
| `barrier_reuse` | 3 threads, count 3 | **violated**: `OneSerial` |
| `file_system` | 3 data blocks of 2 bytes and one descriptor; or 2 blocks and two descriptors, or two mounts | holds, 54,802 states |
| `file_system_remount` | 2 entries, of which 1 is loaded | **violated**: `Persistent` |
| `local_storage` | 3 threads, 4 pages of 2 bytes, 5 calls, 2 of them at a time | holds, 128,251 states |
| `shell` | 4 children, pipes of 1 unit, programs that write up to 2 | holds, 12,415 states |

What they show:

* `threads`: ids are handed out once, `schedule()` finds a thread, a created
  thread runs and the process exits after its last thread, each unless the timer
  hits the window named in the property. `schedule()` implements `FairQueue`.
* `threads_exit`: an alarm after the last thread wrote `TS_EXITED` starts a search
  that never ends, although "the process shall exit".
* `schedule_steps`: a call of `schedule()` is one step of `Scheduler`, taken at its
  `longjmp`, as long as no alarm comes between its first write and the `longjmp`.
  This is what entitles the other modules to the atomic `schedule`.
* `schedule_nested`: one alarm in that stretch makes the registers of one thread
  point into the stack of another. The thread never runs again. Behaviours in
  which a `longjmp` goes to a frame that is gone (undefined) are excepted.
* `mutex`: sleeping and being listed always agree. Exclusion, wakeups and the
  list head are right unless the timer hits the window of the test each relies
  on (and, for exclusion, callers retry on `EBUSY`). Callers retry or ignore
  `EBUSY`; one that gives up is not modelled, and could leave sleepers behind.
* `mutex_handoff`: unlocking leaves the mutex `UNLOCKED`, and the woken thread
  returns `EBUSY` without owning it. The documentation says it "will finish
  acquiring the lock", and the repository's test does not look at the result.
* `barrier`: nobody leaves early, wherever the timer fires. A round ends, returns
  one SERIAL result and resets the barrier, unless the timer hits a window. With
  a count of 1 the only thread blocks for ever, so `RoundEnds` is about counts
  from 2 on.
* `barrier_reuse`: a thread that calls again at once takes part in the old round,
  and a round ends without a SERIAL result.
* `file_system`: each call does to files and descriptors what `FileStore` says of that
  call; only a write without room for all its bytes writes none (`StoresFiles`). No
  block is in two files, blocks and open descriptors are accounted for. Excepted
  are offsets left behind by `fs_truncate` and mounts that lose directory entries. A
  mount may find any bitmap, since the code reads what `malloc` returned. With one that
  has blocks of files as free (all zeros is the usual one) the model goes on until such a
  block is handed out again (the mark `"reused"`). When the process ends without
  `umount_fs`, every file is found as it was saved that was not written or deleted since
  (`SavedSurvive`). This holds because `fs_truncate` does not free what it cuts off: with
  the blocks freed, as the documentation asks, a truncated file could come back with
  the bytes of another.
* `file_system_remount`: files in directory entries that `mount_fs` does not load
  are gone.
* `local_storage`: the areas behave as private arrays, counts are right and pages
  protected, and no page stays mapped without a user, up to the races named in the
  properties: two counts updated at
  once (`tls_clone` and `tls_destroy` take no mutex), a clone between the test of
  `ref_count` and the write, a clone of an area that is being destroyed, two Items
  added to a chain at once, two first calls. `PrivateArrays` also excepts a process
  that dies in a copy without a free page, or of the Items that `tls_destroy` freed
  and left in the table. Pages leak in two ways without such a race: `tls_create`
  that runs out of pages leaves those it has, and `tls_write` stores a count of 0
  when `tls_destroy` of the other user comes between its test and its decrement. A
  thread gives the mutex back while the process lives.
* `shell`: the prompt comes after the foreground commands, unless a background
  child ends first and `wait` returns for it. It comes unless a command fills its
  pipe, since each command is waited for before its reader is started. No zombie
  stays, although signals do not queue. What runs is what was written, except:
  in the background the child closes `fd[1]` before it is duplicated, so its output
  reaches neither pipe nor file; an input file is opened into `fd[1]`, so it is not
  read in the background or when a pipe follows, and the output goes astray; and
  `deleteWords` removes the text of a path from other words.

**Why the bounds are enough.** Three threads give a holder, a waiter and a
newcomer; four slots give main, two creators that race and a full table. Three
data blocks are enough for two chains that interleave and for a disk that fills
in mid-write; two bytes per block put every size at or next to a block boundary.
Two blocks are enough for what a second descriptor or a second mount adds. Bytes
are 0, which a fresh block holds as well, and 1, so that what overwrites what can be
seen; at most one 1 is left behind in blocks by deleted or truncated files, a second
mount finds files of zeros, and with an offset behind the end of a file all are zeros.
`LOADED_ENTRIES` stands for the 16 of 64 entries that `mount_fs` copies; in
`file_system` it is large enough for the files, in `file_system_remount` it is not.
`UINT_SIZE` is larger than any count, so that wrapping is distinguishable. File
names are symmetric, since the code only compares them. Three threads give a
storage area, its clone and the clone of the clone; areas of three bytes have a
full and a partial page; the ranges cross a page, exceed the area and wrap; all
races are between two calls. After a race the calls in progress are followed to
their end. In the shell, lines have up to three commands (first, middle and last),
with two ways to space them and both orders of the redirections; a foreground
line follows a background line, whose children are then still about. A program
may write more than its pipe holds.

**Fairness.** `ualarm` is periodic: weak fairness of `Alarm`. A turn lasts up to
50 ms, so a thread that gets turns again and again makes progress in a call it has
begun: strong fairness of its steps, not of starting calls. In `ScheduleSteps` the
processor goes on: weak fairness of the body. Threads of `LocalStorage` and processes
of `Shell` are run by the operating system: weak fairness of their steps. A program
ends when it has written its output and its input has ended.

**Deadlock** is not checked where the process ends, spins or crashes, or where
the model stops following it (bounds, damaged disk).

## Proofs

The theorems about threads hold for any `MAX_THREADS` of 2 or more
(`MaxThreadsAssumption`; `ScheduleSteps`: 1 or more), the others for any constants that
satisfy the assumption of their module. They are about `Spec`; the runs of `LocalStorage`
and `Shell` check it with the bounds on calls and lines of their MC modules.

* `SchedulerProofs`: `ScheduleEffect` says what a `schedule` step does. Threads that
  can run still can, the others keep their status, and either the new `TID` is
  RUNNING or nothing could run.
* `ScheduleStepsProofs`: `TypeOK`, `OwnStack`, and `SwitchIsAtomic`, the refinement that
  entitles the other modules to the atomic `schedule`. While the timer spares the
  window, the invariant says how far the innermost call has come and what it has
  done to `status` and `TID` (`Progress`; the search has passed only threads that are
  not READY), that outer calls were interrupted before their first statement, and
  that every thread but the running one is `Resumable`: its registers are those of
  its innermost frame. Hence `longjmp` finds its frame and completes the step.
* `ThreadsProofs`: `TypeOK`, `SearchEnds`, `RunningIsTID` and `UniqueIds`. The inductive
  invariant adds `FirstCall` (the shape of the table before the first creation is
  done), `RunnerCanRun` (the running thread can run until it has exited, so the
  search finds at least it) and `HandedOut` (an id was handed out for each slot
  that is not EMPTY and for the slot being set up, so a chosen slot is new).
* `MutexProofs`: `TypeOK`, `WaitListBlocked`, `LockedHasHolder`, `MutualExclusion`,
  `NoLostWakeup`, `NoNullHead` and `NeverAllBlocked`. The invariant adds what a thread
  saw in its unmasked test and still holds while the timer spares the window
  (`Seen`), where blocked threads are (`BlockedIsInLock`), and that a holder implies
  a LOCKED state under the conditions of `MutualExclusion` (`HolderLocks`).
  `InsertTail` and `GetHead` are the facts about the list.
* `BarrierProofs`: `TypeOK` and `BlockedIsCalling`, with the fact that while the timer
  spares the windows only the running thread is between its tests and writes
  (`Alone`). `NoEarlyExit` for any timer, count and number of rounds, provided that
  no thread calls again before everyone has left (`~ReuseAtOnce`; see
  `barrier_reuse`). Its invariant `Rounds` relates `left` to the threads of the round that
  have stored it: decrements can be lost, so `left` is at least what it would be
  without the timer, and is 0 only when all of the round have entered. Stores by
  threads that loaded `left` early, and the wrapping of `left`, are the other cases.
* `LocalStorageProofs`: `Protected`, and `WritesInside`, a conjunct of `TypeOK`: no byte is
  written behind the end of an area although the test of `tls_write` can wrap
  around. The invariant gives every thread an index inside its area (`InArea`) and
  says that whoever is inside `tls_read` or `tls_write` has the mutex (`Guarded`).
  Steps outside these two are `Quiet`: they make no page accessible.
* `ShellProofs`: `PromptAfterCommands`, and `PipesClosed`, a conjunct of `TypeOK`. At every
  point at most the last child runs in the foreground (`OnlyChildIsAlive`), unless
  `wait` has returned for another; and `OpenEnds` lists the pipe ends open at each point.

Only model-checked: all liveness (out of the prover's reach); the refinements
`RoundRobin`, `StoresFiles` and `PrivateArrays`; `RoundResets`, `RefCounted` and
`RunsAsWritten`; everything about `FileSystem`, whose properties follow chains of
blocks, which takes induction over data.

## Where code and documentation differ

Five differences have a run of their own (the violated ones above). These follow
from what the properties of the passing runs except or state, and have none:

* `fs_write` on a full disk returns -1 and writes nothing (`fs.c:486`); it should write
  as many bytes as fit, or return 0.
* `fs_truncate` neither frees the blocks it cuts off (`fs.c:627`) nor moves offsets that
  are behind the new end (`fs.c:608`).
* `mount_fs` does not load the bitmap (`fs.c:202`): files can lose blocks to other files.
* A clone can see a write that began before it (`tls.c:299`), and pages leak
  (`tls.c:308`).
* In the shell, redirections combined with each other, with a pipe or with `&` go
  astray (`myshell.c:49`, `57`), and a path disappears from other words
  (`myshell_parser.c:91`).

## Not modelled

* `start_thunk` and pointer mangling: assembly. Its effect is in `CreateSetup`.
* In the file system: the bytes `fs_read` copies to its caller (their source is the
  block chain that `StoresFiles` checks), descriptors that `fs_open` did not return,
  negative lengths, errors of the host's file system, and the end of the process
  inside a call (inside `umount_fs` it leaves a new directory with an old table).
  After `make_fs` on a mounted disk, a mount whose directory misses files, or when
  a block that the bitmap forgot is handed out again, the model stops. The empty
  file name, which `fs_open` and `fs_delete` would find in an unused entry, is not
  used. The `fs_` calls are made only while mounted: the code does not test it, and
  the documentation requires it.
* Initialising or destroying a mutex or barrier in use, and unlocking a mutex one
  did not lock: left undefined by the documentation.
* In thread local storage: the bytes `tls_read` copies out, failures of `malloc` (not
  tested in the code), the reuse of thread ids, areas of 2 GiB and more, and the
  walk or the `Add` of another thread between lines 71 and 72 of `tls.c` (78 and 79),
  when an Item is linked and its `next` is not yet set through `Table[index]`. `free` is taken to overwrite the `tid`
  of an Item and to keep its `next`; `mmap` returns the first free page or fails.
* In the shell: failures of `fork` and `pipe`, prompts and messages, lines longer than
  512 characters, which `fgets` splits, arguments behind a redirection that stands
  alone, and what `pipeline_free` frees.
* Tests and headers, which hold no behaviour of their own.

## Plan

1. Composition of mutex and thread termination in one state space.
2. Proofs of `RefCounted` and of the refinement `RoundRobin`.
3. The end of the process inside `umount_fs`.
