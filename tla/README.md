# TLA+ models of the compatra runtime

compatra runs macOS arm64 binaries on a CPU emulator and answers their library
calls with hooks written in Rust. What the guest takes for an operating system
(threads, processes, descriptors, kqueues, a heap, a dynamic linker, host calls)
is a set of tables that the hooks change between two guest instructions. This
directory models those tables and hooks in TLA+, checks them with TLC on small
instances and proves the central invariants with TLAPS for every instance.

Paths below are relative to `src/crates/`; `arm64/` stands for
`compatra-runtime/src/macos/arch_arm64/`. `PROJECT.json` names the lines that each
definition stands for.

## The system

| component | state | operations | modelled in |
|---|---|---|---|
| thread scheduler (`compatra-threading/src/lib.rs`, `arm64/pthread_imports.rs`, `arm64/runtime_hooks.rs`) | ready queue, active slot with the context its exit resumes, wait queues, stored signals, mutex owners, results, `current_thread_id`, the registers | pthread create/join/detach/exit, mutexes, condition variables, `thread_exit_stub`, `done_addr` | `GuestThreads`, abstractly `ThreadLifecycle` |
| synthetic processes (`arm64/process_imports.rs`) | process table, thread-to-process map, fork parents | fork, execve, exit, posix_spawn, wait4, waitpid | `GuestProcesses` |
| delay hooks (`arm64/time_imports.rs`) | streaks of calls per call site, virtual clock | `_sleep`, `_usleep` | `GuestDelays` |
| synthetic descriptors and captures (`arm64/io_imports.rs`, `arm64/runtime.rs`, `guest_model/files.rs`) | a table per process and a shared one, pipes, files, offsets, captures | open, pipe, dup, dup2, read, write, close, what exec, exit and posix_spawn do to them | `SyntheticFds` |
| guest files and directory streams (`arm64/io_imports.rs`, `guest_model/files.rs`) | files by path, made-up directories, streams | open, stat, fstat, opendir, fdopendir, readdir_r, closedir | `GuestDirectories` |
| kqueues (`arm64/io_imports.rs`) | a list of registrations per kqueue | kqueue, kevent, `F_DUPFD` of a kqueue | `Kqueues` |
| libdispatch, `pthread_once`, exit handlers (`arm64/pthread_imports.rs`, `arm64/runtime_hooks.rs`) | once tokens, the saved return address, the stack of handlers | dispatch_sync/async/once, pthread_once, atexit, `__cxa_atexit`, `done_addr` | `GuestCallbacks` |
| thread-local storage (`arm64/pthread_imports.rs`) | a page per variable and thread, keys, values, semaphores | `_tlv_bootstrap`, pthread keys, dispatch semaphores | `ThreadStorage` |
| popen and file actions (`arm64/process_imports.rs`) | streams, action lists | popen, fgets, fread, pclose, posix_spawn_file_actions | `ChildOutput` |
| guest memory (`guest_model/memory.rs`, `arm64/compat_memory.rs`, `compatra-unicorn`) | bump pointer, mapped pages, reserved regions | malloc family, mmap, munmap, mprotect, faults | `GuestMemory` |
| legacy dispatcher (`compatra-runtime/src/macos/imports.rs`) | another scheduler, pipes and kqueues, used when no dyld is loaded | its import handlers | `LegacyThreads`, `LegacyKqueues` |
| loader, fixups, stubs (`compatra-runtime/src/macos/loader/`, `arm64/binary_setup.rs`) | parsed file, images, import slots, stubs, exports | parse, map, bind, rebase, patch, dlopen, dlsym | `MachoFiles`, `MachoLoading`, `ImageLoading` |
| emulated atomics (`arm64/binary_setup.rs`) | memory, registers | the LSE and exclusive instructions it takes | `AtomicHooks` |
| raw system calls (`compatra-runtime/src/macos/syscall_plugins.rs`) | synthetic descriptors, host numbers, the mmap arena | every named call, in analysis and in proxy mode | `SyscallTable` |
| trace bus and plugins (`compatra-runtime/src/macos/core/`) | events in flight, bursts, suppressed counts | emit, worker, flush | `TraceBus` |
| kernel extension services (`compatra-runtime/src/macos/events/`) | process list, callbacks, jobs, policies | load, register, deliver | `KextServices` |
| Apple frameworks (`compatra-runtime/src/macos/platform_apple/`) | objects, host copies | CF and NS strings and containers, bridges | `AppleObjects` |
| compat host layer (`compatra/src/`) | readiness tables, stream registries, result blocks, buffers | file, stream, socket, name service and C string calls | `HostDescriptors`, `HostStreams`, `HostResults`, `HostTransfers`, `GuestStrings` |
| libc++ support (`compatra/src/cxx.rs`) | strings and vectors in guest memory | their members | `CxxObjects` |
| analysis presets, reports, command line | text | records and argument parsing | not modelled |

How they interact. There is one emulated CPU. A hook is a callback of the
emulator at the address of an import stub; it takes the locks it needs, changes
the tables, writes the return value and the program counter, and returns. No
guest instruction runs meanwhile, so a hook is one atomic step and all
concurrency is that of guest threads which the hooks themselves switch
(`save_arm64_context`, `restore_arm64_context`). The one other thread is the worker of
a trace bus. A process is a row of a table and one more synthetic thread. Descriptors
belong to `(pid, fd)` and the pid comes from `current_thread_id`, which is why a
scheduler that loses track of who runs would corrupt every other component. Compat
hooks take blocks from the guest's heap for what the host answers, and kqueues look at
the pipes at the time of a poll.

What is hard here: the order in which signals, waits, joins, exits and forks
come; contexts that are saved twice, dropped or resumed after their thread
called exit; queues that are pushed at both ends; references counted over two
descriptor tables; wake-ups that are postponed by receipts or short event lists;
loops that are taken for idle and stop the run; numbers that name one thing in one
table and another in the next; host calls made before their result can be stored; heaps
that refuse the third block of five; names looked up under several spellings. The
hazards of `PROJECT.json` list these at their lines with the properties that watch them.

## Modules

The guest program is unknown: a module lets it call any hook at any time with any
argument of the configured sets. Every counter that a model bounds is a constant whose
comment says so.

### Threads and processes

`GuestThreads` has the fields of `GuestThreadRuntime` and the CPU as variables. A
register context is reduced to whose it is (`tid`) and where it resumes (`at`: after an
import call, or at `done_addr`). The ids in the queues and slots are kept apart from the
contexts, as in the code; `Attribution` says that they agree. Actions are hooks:
`CondWait` has one disjunct per outcome, in the order of the hook's conditions;
`CondSignal` is the wake or the stored signal followed by the yield, in one step.
`exited`, `taken` and `lost` are histories. The main thread is peculiar: with
nobody active it runs without a slot, and `block_current_on_cond_and_dispatch` saves
it both as a waiter and as the parent of the thread it gives way to, so it can be
resumed more than once from one call. `ThreadsConserved` counts how often at most.

`ThreadLifecycle` is the abstract specification: a thread is unborn, ready, running,
waiting on one condition, exited or forgotten, at most one runs, and a thread leaves a
wait only by a wake of its own condition. `GuestThreads` implements it under the
mapping `place` (`ImplementsLifecycle`).

`GuestProcesses` extends the scheduler with the process table. `Fork` enters the child at
once and keeps the caller as the parent of the slot; `Execve` gives the CPU back to the
recorded parent; `Exit` ends the process if the queues show no other thread of it, then
dispatches or goes on to `done_addr` in the same step (the code writes the program
counter and the `done_addr` hook runs next). `GuestDelays` extends the scheduler with
`_sleep` and `_usleep`; streaks are counted up to the thresholds that decide and then
saturate or wrap, which takes the same branches.

`LegacyThreads` is the dispatcher that `loader/mod.rs` installs when no dyld is loaded:
main and one child on the CPU in turns. It shares nothing with the above.

### Descriptors, kqueues, files

`SyntheticFds` has the two tables of the code: `own` by process, `global` shared. Closing
a set of descriptors is one operator because each call of `close_synthetic_fd` looks at
what is left. It assumes that the guest duplicates onto standard input or onto numbers
it was given: onto a number not handed out yet, a later `open` would overwrite the
binding without closing it. `Kqueues` extends it, so that readiness is that of the pipes
at the time of the poll; `Kevent` applies the change list in order, then acknowledges
(`EV_RECEIPT`) or reports. `GuestDirectories` models the table of guest files, with the
directories made up from their paths, and the directory streams. `LegacyKqueues` are the
kqueues of the legacy dispatcher, which drain one bus of signals. `SyscallTable` is the
layer of raw system calls; `holds` is a history of what the guest was given under a
number. `ChildOutput` is what popen and posix_spawn feed; next to the code's state it keeps
for each stream the places in the output of the bytes an answer promised (`told`), where a
read ended that lost bytes for a reason (`lossy`: it could not be stored, or met the limit
of one fread within an item), and the last item size.

### Memory and what lives in it

`GuestMemory` counts quanta of 16 bytes in a small word, so that the unchecked sums of
the code wrap. `HostResults` builds results of several blocks with a heap that may refuse
any. `CxxObjects` runs the members of std::string and std::vector on objects in guest
memory, together with what the guest's inlined code does to them (moves, swaps). The layer
holds at most `Longest` bytes of a text (`MAX_COMPAT_STRING_LEN`, 64 KiB) and drops the rest
of an append, an assignment or a resize without a word; a push_back on a full vector does
nothing. The history `value` follows C++, which has no such limit, so that the model shows
what is dropped: an object reads as the beginning of what C++ holds, until bytes are
removed from a text that was cut, after which the two have different bytes (`sure`).
`ThreadStorage` and `GuestCallbacks` model thread-local pages, keys, semaphores, and
the calls back into the guest.

### Loader and instructions

`MachoFiles` reads load commands, fat files and both byte orders; `MachoLoading`
turns them into memory, stack and registers, with dyld, without it, or by
relocations; `ImageLoading` maps an executable with its libraries, collects imports,
places stubs, binds and patches, and answers dlsym. `AtomicHooks` runs the emulated
atomics on bits.

### The host

`HostDescriptors` models the tables next to the host's kernel, which is external and
hands out the lowest number; `HostStreams` extends it with the registries of streams;
`HostTransfers` carries bytes between guest memory with holes and the host;
`GuestStrings` are the C string and number functions; `AppleObjects` the containers
with their host copies. `TraceBus` and `KextServices` are the event bus and the services
of kernel extensions. Of the touches of a page the tracer of a bus shows the first alone,
whichever plugin claimed it: its key is the page and its kind, while a burst's signature
has the plugin in it.

### `MC*` and `*Proofs`

MC modules extend the modules of a run, define the sets a configuration cannot write,
and explore independent parts one at a time: a variable `part` says which one moves.
Parts share no state, so exploring them apart loses no behaviour of any of them.
Theorems are in `GuestThreadsProofs`, `ThreadPlacesProofs`, `GuestProcessesProofs`,
`SyntheticFdsProofs`, `HostStreamsProofs`, `LegacyThreadsProofs` and
`GuestLibraryProofs`; `ListSteps` holds the lemmas about lists that several of them use.

## Runs

Bounds are in the configurations. Deadlock checking is off everywhere since the
system may stop: the scheduler stops at `done_addr`, and models with a bound on
numbers or calls run out of them.

| run | instance | shows |
|---|---|---|
| `ThreadsSafety` | 3 threads, 1 condition, 1 mutex | `TypeOK`, `NoLostWakeup`, `Attribution`, `ThreadsConserved`, `StopStrandsOnlyWaiters` and the refinement `ImplementsLifecycle` |
| `ThreadsFair` | 2 threads, 2 conditions, 2 mutexes | `WakeHandsMutex`, and `ReadyEventuallyRuns` under `FairSpec` |
| `Program` | 3 processes, 2 threads; an executable with up to 2 of 3 libraries; atomics on 5 cells; Mach-O files | `ForkAttribution`, `EndsAndReapsOnce`, `WaitTellsTruth` (wait for 0 or a named pid), `LoadingHonest`, `MachoHonest`, `AtomicsExact` |
| `Delays` | 1 thread next to main, both hooks, thresholds of 2 | `IdleCountsHarmless`, and `PollingRescues` under weak fairness of usleep |
| `Fds` | 2 interchangeable processes, numbers 0 and 3 to 5, a pipe or a file | `EofHonest`, `TablesAgree`, `DescriptorsKept`, `CaptureComplete` |
| `Kqueues` | 1 process, 2 kqueues, room for none or 2 events; a waker, or both ends of a pipe | `NoTriggerLost`, and `ReadyIsReported` under fair polls |
| `GuestLibrary` | nine parts, each on its own | `MemorySound`, `ResultsAccounted`, `ContainersSound`, `CallbacksHonest`, `StorageOwn`, `OutputHonest`, `SyscallsHonest`, `DirectoriesHonest` |
| `Apple` | 4 calls, 2 containers | `ObjectsHonest` |
| `HostFiles` | 4 numbers, 2 pipes, 2 streams, 6 calls; 7 cells of guest memory; strings of 5 bytes | `CacheExact`, `SelectHonest`, `NothingOrphaned`, `StringsAgree`, `TransfersHonest` |
| `Legacy` | 2 threads, 2 forks; 1 pipe, 2 kqueues; 2 buses, 3 events; 2 loads of an extension | `LegacyConserved`, `EventsTold`, `TraceHonest`, `KextHonest` |
| `ProcessWaitAny` | 3 processes, waits for -1 | `WaitTellsTruth` is violated |
| `ProcessDeadTail` | 2 threads, 3 processes | `NoDeadTail` is violated |

Why these bounds are enough. Three threads are the least number with which a join
takes an entry from the middle of a queue, two threads that can be confused stand
behind a third and a broadcast reverses an order; two conditions and two mutexes are
needed only where a property relates them. A fork in a forked child needs three
processes. With one thread next to it main can wait while the thread polls, be saved
twice by that, and be rescued together with it. Two processes and one pipe with one spare
number give an end held twice and by two processes, with a dup2 over either end and over
standard input; one byte of capacity tells empty from not empty. Two kqueues are a
kqueue and its duplicate. Thresholds of the delay hooks are scaled from 3, 50, 25 and 4 to
2: what matters is that a streak can fall short, reach the threshold and pass it;
`RescueAfter % RescueEvery = 0` holds of the code's 50 and 25. The heap has a word of 14
quanta, so that each size the guest can ask for lies below, at or beyond a wrap, and an
arena that lies in the way of the heap; two blocks come with one call on mappings, one with
two (`MemoryBound`). Lists of results have up to three entries with
up to two parts each, so that a refusal may come at the first, a middle and the last
block. Strings and vectors hold up to 3 bytes and are given texts of up to 4, so that each
call also meets the limit. An output has 7 bytes, more than the 4 that one fread takes there
(64 KiB in the code), and items have 1 to 3, so that the limit falls between items and within
one. Both plugins claim the plain events and the page touches, one of them the hot calls. Two
libraries of three are enough for an import that both export, under two
spellings and in both orders. The kext parts run over two loads because a reload keeps
what the first left.

### Runs that show a disagreement

| run | what the code does | what is said of it |
|---|---|---|
| `ProcessWaitAny` | `waitpid(-1, ..)` compares an unsigned 64-bit -1 with the pids and answers `ECHILD` next to an ended, unreaped child | the comment in `wait4` and `docs/sample-status.md:56` promise `ECHILD` when no reapable child is left |
| `ProcessDeadTail` | the caller of exit is saved as the parent of the thread `done_addr` dispatches, and resumed when that thread ends | the comment in exit: the runner stops "instead of executing the dead caller's tail" |

Two more remarks of the sources do not hold of the code. The comment in exit calls the
caller "the last live thread we can schedule", but a forked child that exits with an
empty queue stops the run while the active slot holds its living parent.
`docs/sample-status.md:23` says that with waiting threads "the delay hooks stay
cooperative", while the third sleep of a call site stops the run whether threads wait or
not (line 137 of the same file describes this idle stop).

### What the models keep of the code as it is

The properties are stated of what the code does, and where that departs from the system
it stands in for, the model departs with it:

- Threads: `pthread_mutex_lock` never blocks; a join of a thread that neither
  ended nor is ready returns 0 at once; `dispatch_semaphore_wait` never blocks; a pthread key has one value
  for all threads; a return through the trampoline of `pthread_once` goes to the last
  caller.
- Descriptors: a capture whose consumer's end is closed by exit or replaced by dup2
  never completes; the log stream of posix_spawn closes the write end early;
  `dup2(f, f)` closes f, and dup2 takes neither a directory nor an offset along;
  closedir closes whatever its number names by now, two streams of one descriptor share
  its place, readdir_r of an unknown stream returns 0, stat of a made-up directory
  answers as for a file, and a file made by `O_CREAT` is forgotten at its last close.
- System calls: in analysis mode lseek, dup, socket, getdirentries, wait4 and kevent
  answer 0; socketpair, accept and getsockname ignore a failed write; sysctl ignores the
  guest's length.
- Strings: `strtoul` of a negative overflow returns 1.
- Loader: a command is read beyond its cmdsize; names that differ only in underscores
  meet; segments of one name share data; an arm64 `LC_UNIXTHREAD` is read without lr, so
  that pc is the saved sp; a chain that cannot be read overwrites pointers already bound
  with the ret gadget; pointers to data in `__nl_symbol_ptr` get function stubs;
  relocations narrower than a pointer keep their values; `resolve_symbol` answers
  `Some(0)` for an undefined symbol. Atomics of a byte or a half use the
  width of the code.

## Fairness

`FairSpec` of `GuestThreads` is about a guest, since the scheduler is cooperative and
forces nothing: a thread that again and again could give way does call a delay hook
(strong fairness of `DelayYield`: while it can call one only when another thread
is ready, the guest calls it in a loop), and main, when it holds the CPU with
threads ready, eventually waits, joins or returns (weak fairness of
`MainGivesWay`). Weak fairness of the yield alone is not enough: TLC then shows a
cycle in which main, doubled by a wait, keeps taking the CPU through
`pthread_exit`. `Polls` of `GuestDelays` assumes only that a guest in a usleep loop
goes on calling it: the emulator executes the loop. `Polling` of `Kqueues`
assumes an event loop that keeps polling each kqueue with room for every source and
without changes; with less room the registrations added first starve the others,
because the list is reported from its head.

## Proofs

Theorems hold for every value of the constants that the named assumptions allow; the
assumptions say that bounds are numbers, that sets which the code keeps apart are
disjoint, and what the code fixes about its arguments. Each proof has an inductive
invariant of named parts, lemmas about the helpers of the model, one lemma per
action (or per action and part), and a last theorem that reads the property off the
invariant.

| module | inductive invariant | theorems |
|---|---|---|
| `GuestThreadsProofs` | `IInv`: `SchedOK`, `WaitOK`, `RestOK` | `InductiveInvariant`, `TypeCorrect`, `NoWakeupLost`, `AttributionHolds`, `MutexesAreHanded` |
| `ThreadPlacesProofs` | `PInv`: `PlacesOK`, `CountOK`, `StopOK`, `ResultDeliveredOnce` on top of `IInv`; `DInv` adds the delay hooks | `PlacesInvariant`, `NothingLost`, `StopIsHonest`, `ThreadsHaveALifecycle`, `IdleIsHarmless` |
| `GuestProcessesProofs` | `KInv`: `CpuOK`, `WaitOK`, `RestOK`, `TableOK` | `ProcessInvariant`, `ProcessesTyped`, `AttributionSurvivesFork`, `EndsAndReapsHold`, `WaitHonestWithoutAny` |
| `SyntheticFdsProofs` | `Sound` (`Tables`, `Owned`, `FilesOK`, `EndsOK`), `RestOK`, `EofIsFinal`; of kqueues `RegistrationsOK`; of directories `DirectoriesInv`: `TableSound`, `GivenOK`, `ToldOK` | `DescriptorsInvariant`, `TablesAlwaysAgree`, `EofAlwaysHonest`, `OthersKeepDescriptors`, `CapturesEndDry`, `TriggersNeverLost`, `DirectoriesInvariant`, `DirectoriesAreHonest` |
| `HostStreamsProofs` | `IInv`: `HTypeOK`, `KernelOK`, `CacheExact`, `ClosedForgotten`; `SInv` adds `STypeOK`, `NothingOrphaned`; of results `RInv`: `ResultsTyped`, `Accounted`; of transfers `TInv`: `StreamIsRest`, `ThroughInOrder`, `AnswersHold` | `StreamsInvariant`, `TablesExact`, `SelectIsHonest`, `OrphansNever`, `ResultsInvariant`, `ResultsAreAccounted`, `TransfersInvariant`, `TransfersAreHonest` |
| `LegacyThreadsProofs` | until a thread is deferred, `Settled`: `NumbersOK`, `PlacedOK`, what is left behind is marked; `KextInv`: `ListOK`, `EventsInv`, `PoliciesInv`; `QueuesInv`; `TraceInv`: `TraceTyped`, `Delivering`, `Stuck`, `FlushedOK`, `TracerOK` | `LegacyInvariant`, `LegacyIsConserved`, `KextInvariant`, `KextIsHonest`, `QueuesInvariant`, `EventsAreTold`, `TraceInvariant`, `TracesAreHonest` |
| `GuestLibraryProofs` | `StorageInv`, `CallbacksInv`, `CxxInv`, `OutputInv`; `SyscallInv`: `InMode`, `EntriesOK`, `ObjectsOK`, `MeantOK`, `Isolated`, `ArenaOK`; `MInv`: `HeapOK` with `BlocksOK`, `Mapped` | `StorageInvariant`, `StorageIsOwn`, `CallbacksInvariant`, `CallbacksAreHonest`, `ContainersInvariant`, `ContainersAreSound`, `OutputInvariant`, `OutputIsHonest`, `SyscallInvariant`, `SyscallsAreHonest`, `MemoryInvariant`, `MemoryIsSound`, `MemoryIsTyped` |

Why these invariants.

*Scheduler.* That a signal is stored only with no waiter needs the types of queues that
contexts enter; the type of a queue entry (a context resumed after an import call, never
at `done_addr`) needs that guest code runs when an entry is made; and the attribution of
the running thread after an exit needs that of the parent kept in the slot. So the three
parts of `IInv`, one per set of variables that steps change together, are proved at once.

*Places.* `PlacesOK` says for each child in which of five places (not created, ready,
active, waiting, ended or forgotten) it is, and that it is in no second one; an entry of a
queue may belong to main. Main may be queued several times, and `CountOK` pays each surplus
continuation with a thread that ended or was rescued from a place. The same case
distinction gives the refinement: `PlaceIs` computes the abstract state of a thread, and a
step of the scheduler moves one thread along `ThreadLifecycle` or none. The theorem
needs the conditions to differ from the abstract names of states. The proof found a
missing case of the abstract specification: a yield with no condition in the model
switches threads too.

*Wakes.* A signal takes one waiter, a broadcast all of one condition, the rescue of the
delay hooks those of every condition. `MutexesAreHanded` is about the first two and
follows from what one wake does to the owners. The rescue is an induction over the number
of wakes: between two of them every waiter is ready or waits still, and the mutex of one
that was taken out belongs to one that was (`RescueOK`). The proof corrected the
property: with two conditions that share a mutex the rescue hands it to a second thread
after the first, so what holds of it is `RescueHandsOver`, that the owner is
one of those it woke.

*Processes.* `SchedOK` is not kept by fork: the slot then holds the context of a parent
whose slot had a parent, and the inner one is dropped, so `KInv` says only that whoever
runs, waits or is kept as a parent belongs to a known process, and that rows are
written by fork, spawn and the start. `WaitTellsTruth` is proved under the hypothesis that
-1 is not among the arguments: with it, it is false (`ProcessWaitAny`).

*Descriptors.* `Sound` is stated of a state given as an argument and not of the
variables, since closing a set passes through states that no step shows. It relates
the shared table to owners, files to holders and the flags of a pipe to its ends; the
invariant adds that unused numbers name nothing. `TablesExact` of the compat layer needs what the
kernel's slots hold and that a closed number is forgotten before it is handed out again.

What a number of a process means is its own binding or else the shared one. `MeaningKept`
follows both, since a forked child has the pipes of its parent through the shared table alone:
there `close_synthetic_fd` removes the number's entry whoever closes it, so a child loses a
number it borrows when any process that has it, or borrows it too, gives it up. The property
says that a number ends only in this way, or with the consumer of a complete capture, and never
comes to name something else; the proof goes by what each hook writes into the two tables.

*Kqueue triggers.* A kevent runs through its list of changes; a pending trigger is carried
through each change that neither adds nor deletes its registration, by induction over
the list, and through the reset of those that were reported.

*Directories.* A number, file or directory that was not given out is in no table, so that a
fresh one inherits no place of an earlier use; places lie inside what they are places in; and
what a stream told is the part of its listing between where it began and where it is.

*Results of the host.* A result of several blocks is told from garbage by its links alone.
That a list which the guest cut in two falls into two accounts needs more than that
each block is counted once: links lead to later blocks, so every list ends, and its nodes have
no part in common (`Accounted`). A block that is granted lies above all that are in use.

*Transfers.* That bytes pass in order needs where the stream stands: what is left is its end
(`StreamIsRest`), so what the next call takes follows on what the guest has. A call writes several
pieces one after the other, and what it tells of the first must outlive the last: the pieces of a
call are pairwise apart, since a guest gives buffers that do not overlap (the guards `Disjoint` of
the model), and `WrittenIs` says of such a list that each piece that was written is found again and
every other cell is as before. Its induction runs over the pieces, that of `ScatteredIs` over the
buffers of a list, each of which begins where the ones before it end.

*Legacy dispatcher.* Past `ARM64_RESUME_STREAK_LIMIT` resumes a dispatch is deferred and main is
saved over the thread that waits. `LegacyConserved` claims nothing after that, and the
invariant is accordingly an implication. Of its kqueues the invariant says what each is
owed: an event waits for each ready registration of a kqueue that alone drained the bus, and
every change, signal and popped event keeps that; what an end-of-file event says stays true
since closed ends stay closed and an empty pipe without a writer stays empty.

*Kernel extensions.* Addresses grow below the next free one, so that a new entry of the
process list overwrites none; neighbours point at listed processes until the head's old
cell is used again. Jobs are queued in the order of the callbacks that are due, for which
the lists of jobs are flattened step by step.

*Trace bus.* Each event is in one of three places, in their order: shown, in the hands of the
worker, in the channel; the counter is the number of those not dealt with, and a worker that
died in a plugin holds one for ever, which is why a flush gives up then and only then. For a
page that is skipped the invariant remembers the line that told of it, of whichever plugin
(`TellsPage`). Bursts are counted exactly since what was collapsed is the sum of what is yet to
be printed.

*Library.* Thread-local pages: those handed out lie below the next one and belong to
one variable of one thread, as long as the next one lies below the heap. Calls back:
unless routines of `pthread_once` overlap, the literal of the trampoline names the frame
that returns through it; the handlers left are in the order of registration. Here the
proof needs `Controls \cap Tokens \subseteq Readable`, an assumption it brought to
light: a word that serves both as a `pthread_once_t` and as a `dispatch_once_t` and
cannot be read would run its routine twice. Containers: the length lies in the block and no
two living objects have one block, through move and swap; that an append to the held beginning
of a text is the beginning of what C++ appends to all of it is a lemma about texts of any
length, on either side of the limit. Output of commands: what was promised last and where
reads left marks say where the next read begins, so that no byte is promised twice and none
between two promises is passed over without a mark; that an item cut by the end of the
output loses less than an item is arithmetic on quotients. How often the log of a spawned
child is fed to a pipe is counted along the action list and compared with how many of 1 and 2
the actions would make that pipe, which is twice where both are.

*System calls.* A number may be in both tables once the host hands out one that the
synthetic table gave to a kqueue; until that collision the tables are disjoint and each
number reaches what is held under it. Regions lie below the next one and apart.

*Memory.* Rounding and saturation are isolated in lemmas about one sum each (`RoundsUp`,
`Saturates`, `MapEndIs`), where the solver does division by a page of any size. Behind them
the heap is a pointer that only grows: a new block begins where all others have ended, and
the part of the mapping that is new is all that is mapped anew. The flag `over` marks the
states in which a sum left the word, of which `BlocksOK` claims nothing. For `mmap` the
invariant names, page by page, the first region that holds the page; what a cut leaves of one
region holds what it held outside of the hole (`SplitIs`, `RecutIs`), and the list flattened
from these pieces keeps who comes first (`FirstOfFlat`).

*Lists.* The models write what is done for one element after the other as a recursive
function on the indices. The library's induction theorems take an operator as a parameter
and cannot be instantiated by the installed provers, but for one recursive function at a time
the least index at which a claim would fail does the same; `ListSteps` states this once
(`StepsExist`: there is such a function; `EachStep` and `EachNext`: it keeps what each step
keeps; `FlatSteps`: a list of lists is flattened so). What is
folded, filtered with `SelectSeq` or built with `:>` and `@@` stays closed to the provers,
so models that are proved about write these as functions too.

Where the properties end. Some claim nothing beyond a point at which the code itself goes
wrong, named by a flag of the model: the heap of `GuestMemory` once a sum left the word
(`over`), `ThreadStorage` once its pages reach the heap, returns of `pthread_once` once two
routines overlapped, `SyscallTable` once a number is in both tables (`collided`), containers
once bytes were removed from a text that was cut, the legacy dispatcher once a resume was
deferred, transfers once bytes were lost, the process list of an extension once the heap was
cleared under it, pipes of the compat host that dup, dup2 or fclose touched, atomics of 8 and
16 bits, and file actions that take up what others put. Up to there they are checked and, where
a theorem is listed, proved; what happens behind is in the models but not promised. The
hazards of `PROJECT.json` say the same one by one.

What only TLC checks, and why.

- Liveness (`ReadyEventuallyRuns`, `PollingRescues`, `ReadyIsReported`): fairness and
  `ENABLED` are out of the prover's reach.
- `StringsAgree` and `ObjectsHonest` rest on nested folds over bytes and objects that were not
  rewritten as steps.
- `LoadingHonest` and `MachoHonest` compare one long computation with what the file says, for
  the files of the instance; `AtomicsExact` uses the `Bitwise` module, which a module
  with theorems cannot reach.

## Not modelled

The bytes of buffers and files, paths beyond their identity, argument vectors, register
contents other than identity (but in the atomics and the loader), the virtual clock, and
the fields and wording of events. Addresses of one sample hard-coded in fork, exit and
`runtime_hooks.rs` change where a context resumes. The write of eight bytes after an
execve that is suppressed by queueing the parent under the id 10000 + tid is left out, as
are the trampolines for raw libc calls and the idle stop after 256 reads at end of file. In
compat mode many hooks first ask the host: for the delay hooks that is the condition
under which the hook changes nothing, for the rest it is the host layer's models.

Of the framework stand-ins, IOKit, keychain and CoreGraphics handles and the Objective-C
runtime answer constants or record calls. Presets, artifacts, reports and the command
line decide nothing. The zone and `vm_*` calls and the legacy arena, `dlerror`, `dladdr`,
stack queries, thread-specific keys of the legacy dispatcher and its fts streams are small
and were left out; signed pointers in fixups would need the signature. The synthetic
handler table of `syscall.rs` is used by its own test only. The components of
`PROJECT.json` say the same part by part.

## Plan

Done: all the modules above, with the invariants of scheduler, processes, descriptors,
kqueues, streams, calls back, storage, containers, command output, system calls, guest memory,
guest directories, results and transfers of the host, the legacy dispatcher, the trace bus and the kernel
extension services proved.

Next: the folds of `GuestStrings` and `AppleObjects` written as steps, so that `StringsAgree` and
`ObjectsHonest` can be proved; the loader's
properties for a file of any shape; signed pointers in fixups and the zone and `vm_*` calls.
