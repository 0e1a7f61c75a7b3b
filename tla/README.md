# Specifications of mem_interf_eval

TLA+ models of the programs of this repository, the TLC runs that check them
and proofs, checked with TLAPS, of the most important of their properties. The
models are translated from the C sources under `src/`; `PROJECT.json` names,
for every definition, the lines it stands for.

## 1. The system

The repository measures how cores disturb each other in shared caches. It is a
set of stand-alone Linux programs. They interact only through the operating
system: cache and memory, the cgroup file system, the PMU, the registers of
the DSU (ARM's shared cache unit), signals, and their log files.

| component | state | operations | what makes it correct |
|---|---|---|---|
| **inf-sim-lat_mem_rd**, log (`-r -f`) | `buf_log`, `result_idx`, `buf_full_flag`, `log_fp`, the file | start-up (remove or create the log, register handlers), the heap's use in `loads()`, reporting loop, `signal_handler` on SIGINT, SIGTERM or a full buffer | the log of a run that ends well is complete and nothing else; the program ends when it is told to |
| **inf-sim-lat_mem_rd**, load | the malloc'ed block, `mem_state` of each thread, `cpus_to_set` | `base_initialize`, split, `stride_initialize`, thread creation, affinity, pointer chase | the threads divide the buffer; nobody stores outside of it or leaves his ring; threads are on their CPUs |
| **cg_taskset** (in five programs) | the cgroup v2 hierarchy | enable cpuset, mkdir, set CPUs, join, poll `cgroup.procs` | a benchmark runs in its group and on its CPUs; a reported failure is one |
| **pmu-monitor** | a group of perf events on each target CPU, `buf_logs`, `result_idx`, `start_flag`, the log or stdout | `timer_handler` on SIGALRM, `signal_handler`, `export_counter` | no work is lost or counted twice; rows belong together; the log is whole |
| **sim-lat_mem_rd** | sizes, `just_size_flug`, samples, the CPUs of `-t`, `-g` | size steps, ring, warm-up, samples | every size is measured, with a warm cache |
| **pmu-sim-lat_mem_rd** | `target_cpu`, the CPUs of `-t`, `-g`, the group it is at | 19 times: create a group of events, walk, export | every printed value is of one whole walk on the CPU the process was put on |
| **pmu_counter** | six descriptors, the kernel's events behind them | create, reset, start, stop, export, clean | counts are of the work between start and stop; no descriptor is lost |
| **inf-sim-bw_mem_wr**, **sim-bw_mem_wr** | buffer, boundaries, `p`, `head`, `times` or `buf_log` | `init_loop`, `wr`, samples, the log | a pass writes each stride once, inside; a result is the time of whole calls per write |
| **wayset_ctrl**, **calculate_clpartcr** | cluster ids of the CPUs, CLUSTERPARTCR | set and compare ids, input of the ways, confirmation, write; `-c` | every way has one owner, the one typed; success means that the register was written |

Scripts, Makefiles, the parsing of numbers and the patches to other
repositories are not modelled (section 8).

Where the difficulty is:

* *signals*: `signal_handler` is installed for SIGINT and SIGTERM with
  `signal()`, which masks only the signal being handled, and it is also called
  directly. Handlers therefore nest, on the reporting loop and on each other,
  and each reopens and truncates the log. `exit()` in the last one flushes the
  streams of all the others.
* *threads*: with `-m` the kernel picks any thread for a signal.
* *the PMU*: work goes on while a group is stopped, read, reset and started,
  and it is counted only on the CPU the events were opened for, while the
  process may be elsewhere.
* *several programs*: they share cgroup directories.
* *ignored results*: of `fclose`, `ioctl`, `scanf`, `mkdir`.
* *boundaries*: shares, remainders, the end of a ring, the last chunk.

## 2. The modules

| module | models | source |
|---|---|---|
| `LogLines` | lines of a log, told apart by kind and measurement | the `fprintf` calls of the handlers |
| `Stdio` | `fopen "w"`, `fprintf`, `fclose`, `exit`'s flush, `remove` | external, as the programs use it |
| `RunLog` | what a measuring program promises about its log (abstract) | README and the handler's outcome |
| `InfLatLog` | start-up, what `loads()` uses the heap for and where it returns, reporting loop, handlers, signals | `inf-sim-lat_mem_rd.c` 218-329, 332-417, 475-498, 703-800 |
| `PmuMonitor` | arguments, events of each CPU, ticks, handlers, log or stdout | `pmu-monitor.c` 86-265, 399-578 |
| `CgTaskset` | several processes in `cg_taskset` | `inf-sim-lat_mem_rd.c` 459-594 and its copies |
| `StrideRing` | arguments, buffer, rings, threads | `inf-sim-lat_mem_rd.c` 139-213, 236-258, 332-424, 500-524, 640-697 |
| `Wayset` | cluster ids, ways, register | `wayset_ctrl.c`, `calculate_clpartcr.c` |
| `BwWr` | arguments, boundaries, write loops, samples, the log's storing | `inf-sim-bw_mem_wr.c` 127-150, 239-589 and `sim-bw_mem_wr.c` 238-424 |
| `PmuCounter` | the library, perf events, any program that uses it as its README asks | `pmu_counter.c` |
| `SimLat` | both measuring programs and a user's program over `PmuCounter` | `sim-lat_mem_rd.c` 112-331, 487-610 and `pmu-sim-lat_mem_rd.c` 137-296, 353-731 |
| `MCCgTaskset`, `MCStrideRing`, `MCWayset`, `MCPmuMonitor`, `MCSimLat` | values of constants that are functions, records or sequences | |
| `Stdio_proofs`, `InfLatLog_proofs`, `PmuMonitor_proofs`, `CgTaskset_proofs`, `StrideRing_proofs`, `Wayset_proofs`, `BwWr_proofs`, `SimLat_proofs` | theorems and proofs about the module of that name; `SimLat_proofs` also about `PmuCounter` | |

Composition: `InfLatLog` and `PmuMonitor` extend `Stdio`, which extends
`LogLines`; `InfLatLog` instantiates `RunLog` under a refinement mapping
(`Promise`). `SimLat` extends `PmuCounter`: its programs call the library's
actions, and `KeepsTheProtocol` says that they implement `CounterSpec`, the
specification of a program that keeps to the library's README. Its step
`CgTaskset` is what `CgTaskset`'s theorems leave of `cg_taskset()`. The others
stand alone, as the programs do.

How state and actions correspond to the code:

* **Frames.** In `InfLatLog`, `stack[t]` holds the handler frames on thread
  `t`. `Deliver` and `CallHandler` push one; no handler ever returns. A frame's
  `pc` is the statement it is at, `idx` is `report_idx` and later the stream
  `exit()` is at. A thread's own code runs only when its stack is empty
  (`Free`). `from` is a history variable: `result_idx` when the frame began.
* **Streams.** A `FILE *` is its number in `streams`; it has an offset and
  buffered lines. A line is either buffered or fills the buffer (`FillAt`
  bounds when), so that everything between one write per line and one write at
  the end is covered. `fopen "w"` empties the file under streams that are
  still open, and a write beyond the end leaves a `Hole`.
* **The heap.** `fopen`, the first line (whose buffer is allocated) and `fclose`
  are inside the allocator, and so is `main` while it allocates in `loads()` and
  creates the threads (`MainInHeap`), or, in `pmu-monitor`, creates or closes the
  log and prints its first results. Another thread waits for it. A handler that
  needs the heap on top of a user of it on the *same* thread is undefined: the
  call goes through, hangs (`"hang"`, `"hung"`) or crashes.
* **Memory order.** `hidden` holds the slots of `buf_log` whose stores other
  CPUs have not seen; `Drain` makes one visible. On a CPU of its own the
  reporting thread always sees its own stores.
* **The PMU under pmu-monitor.** `Work(i)` is one unit of work of target CPU
  `i`, counted by an event of its group while the leader and the event are
  enabled. All events of the model
  count the same work, so that rows can be compared. `slept` is the part done
  while `main` sleeps in `pause()`.
* **The PMU under `pmu_counter`.** `events` are the kernel's open events:
  leader, CPU, enabled, count. `Execute` is a unit of the program's work,
  counted by the events that are on, on the CPU the process is on. `Migrate`
  moves the process, within `allowed`, at any moment. A step of the library is
  itself work that may be counted: `slack` counts those, and a value is exact
  up to `slack`.
* **Calls of the library.** `call` is the function, or the loop of it, that
  runs, `k` the event it is at; the program waits at `call = "none"`. In
  `SimLat`, `pc` is the program's own place.
* **The log of inf-sim-bw_mem_wr.** `SignalHandler` is one step of `BwWr`, at
  any point of a call or of its storing. That handlers which interrupt it leave
  the same file is `InfLatLog`'s theorem for the same code on one thread. The
  program and its handler are one thread, so stores are seen in program order.
* **cgroup files.** `Write(effect, unchanged)` is `fopen`..`fclose` of a
  control file: the kernel may refuse the text, and nobody notices.
* **Registers.** A value is the set of its bits. An `ioctl` may fail, or
  report success and do nothing.
* **Addresses** are offsets in the block; `mem` holds the stored pointers.

Every definition called `X_Something` that a comment introduces with "Mutant:"
is a wrong variant of `X`. It is part of no specification; replacing `X` by it
must break the property `PROJECT.json` pairs it with.

## 3. What the runs check

Nine runs pass, three end in a counterexample. Times are with two workers.

**`InfLatLog_single`** (one thread, 2 slots, 2 signals, 3 measurements; 212,000
states, one minute). `LogIsComplete`: whatever handlers nest, success means the
file is the warning (exactly if the buffer was full), the header and every
measurement, in order. `FileIsPrefix`: at every moment the new file is a
beginning of that log, so that even a kill leaves no mixture. `NoMisuse`: no
store outside of `buf_log`, no use of a closed or NULL stream. `OneThreadInv`
is the inductive invariant of the proofs. `KeepsPromise`: the program
implements `RunLog`. `HandlerEnds` and `RunEnds`: a handler that starts ends
the process, and a program that measures ends by itself, *unless* a handler
interrupted another one, or `loads()`, inside the heap. A program measures from
the moment its loop runs: `loads()` may also exit (no block, no page table) or
return (a stride beyond the size, no page table), after which `main` sleeps in
`pause()` until a signal comes. With two slots and two signals there are
up to three frames: both signals and the direct call.

**`InfLatLog_threads`** (2 threads, 4 slots, 3 measurements, 1 signal): with
`-m`, when a single handler ran, its log is a header and consecutive rows,
among them all recorded when it began, and a row is its measurement or (weak
memory order) still unset (`SoleHandlerLog`). `RecordsAreKept`: a recorded
measurement is never overwritten.

**`PmuMonitor_log`** (with and without a log, with a timer, a timer of 0 or totals
only; 1 event, 3 slots, 4 ticks, 2 signals, no work; a million states, two and a
half minutes). `LogIsWellFormed`: a log reported as success is a heading and the
first rows, at least those there were when the first handler that ends the run
began; it leaves the case of `PmuMonitor_full` aside. `NoMisuse`.
`SignalEndsRun`: a signal that was sent ends the process, whatever ticks
interrupt its handler. The ticks are enough to fill the buffers (the first only
starts the counters) on top of a handler inside `fopen`, which then calls
`signal_handler`, and `fopen`, again: this may hang or crash, and the property
has these two as ends of their own. No tick is delivered on a full buffer, since
the one that filled it never returns.

**`PmuMonitor_rows`** (two events, or two CPUs; 3 slots, 3 ticks, 2 signals, one
unit of work; `-i` positive or negative, with and without `-f` and `-e`; 2.3
million states, under two minutes). `EachUnitIsInOneRow`: with the order stop,
export, reset, start, work done while the monitor sleeps is in a row or still
in the counter, and in no two rows, in the log, in the totals over the CPUs and
in each column of `-e`. `RowsAgree`: in each row no event counts more than its
leader. `TotalsAgree`: with a negative `-i`, repeated exports give the same
totals, and the last one is printed to the end, also when it interrupted
another. `RowsAreKept`. The counters count each unit of work by itself, so that
one unit, done at any moment, is enough: a run with more loses or repeats one of
them if this run does.

**`CgTaskset_shared`** (3 processes, two of one subgroup; 1 poll instead of 20; a
new hierarchy or any that earlier runs left, every `fopen`, write and `mkdir`
refused or not; 235,000 states, one minute).
`DoneIsMember`: the polling loop makes up for every ignored result before it.
`GroupsAreBuilt`: the order of the hierarchy. `Settles`: the loop ends.
`LoneProcessOwnsCpus` and `LoneFailureIsReal` speak of the process that has a
subgroup of its own; `CgTaskset_timeout` shows that the second does not hold
of the others. One poll more only repeats the loop's single read.

**`StrideRing_rings`** (pointers and pages of 2, a `size_t` of 20 values, sizes to
17, strides to 6, 1 to 3 threads, 4 refused, five lists of CPUs, every alignment;
28,000 states, one to two minutes).
`PointersAreWhole`, `RingsDivideBuffer`, `WalkersStayHome`, `ThreadsArePlaced`,
`EveryLineIsRead`. The sizes include those below, at and
above the limits, multiples and non-multiples of the stride, shares of less
than a line, the defaults, and one with which the sum of `malloc`'s argument
wraps: there pointers go astray, and `BlockFits` is the condition of
`PointersAreWhole` and `EveryLineIsRead`. The lists are empty, shorter than, as
long as and longer than allowed, and name a CPU twice.

**`Wayset_ids`** (2 CPUs, 4 ways, ids 0 to 7, all three modes; 6.5 million
states, two minutes). `WaysHaveOneOwner` for every assignment, up to bit 31,
`PartcrIsSetLast` with failing and lost writes and mistyped input.

**`BwWr_passes`** (chunks of 4 writes, an int up to 15, a `size_t` of 128
values, sizes to 28, strides to 7 and 32 and 33, 0 to 2 iterations, logs of 0 to
2 lines, 3 calls; 162,000 states, seconds).
`WritesStayInside`, `EachStrideIsWrittenOnce`; the sizes reach from no chunk
(refused) to several, with a rest of none, one, two and three writes. Strides
of 6 and 7 make `head` wrap; `HeadFits` names the condition under which the
first two hold. With strides of 32 and 33 the length of a chunk wraps to 0 and to 4:
with 0 the chunk loop never ends, and neither passes `HeadFits`; `StrideFits` is
the part of it that `ResultsAreOfWholeCalls` needs. This property says: `sim-bw_mem_wr` has `NUM_SAMPLE` times
of whole calls, divided by the number of their writes for `-l`; the log of
`inf-sim-bw_mem_wr` has every call but possibly the last, at whatever step the
signal came, and a warning only when it is full. With `-r 0` a result is 0 over
0, with `-e 0` one line is logged (and stored outside of the buffer).

**`SimLat_programs`** (2 events in a group, 2 groups, CPUs 1 and 3, a descriptor
table of 3, walks of 2 accesses, 2 samples, powers 3 to 6, a `size_t` of 44 values,
five maximal sizes (40 makes `malloc`'s sum wrap) and four strides, lists of CPUs
from none to too many; a user's program makes up to 5 calls, as many as it takes
to start a second time and export, and works twice; 1.5 million states, three
minutes).

* `NoDescriptorIsLost`, `CountsAreOfTheWork`: the library under any program that
  keeps to its README, with calls failing and the process moving at any moment.
* `PinnedCountsAreWhole`: pinned by `-t` or by `-g` to one CPU, or by its caller
  to CPU 3, `pmu-sim-lat_mem_rd` counts the whole walk in every group, and
  nothing of what it does beside the walk. `Pinned` names what is needed: with a
  range for `-g` the counters watch the first CPU of it alone, with an empty
  list an uninitialized one, without an option always CPU 3.
* `KeepsTheProtocol`: `pmu-sim-lat_mem_rd` implements `CounterSpec`, early
  returns included.
* `EverySizeIsMeasured`, `RingIsWarm`: the sizes of `sim-lat_mem_rd`, each once
  and in order, and ten rounds before each sample.
* `RunEnds`: both programs end.

Two events suffice for a leader and a member, two groups for what one leaves to
the next; a table of 3 descriptors is full when a group is not closed. The sizes
lie below the minimum, below a stride, on the grid and between, and above it.

### Where code and documentation disagree

These runs end in a counterexample; `findings` in `PROJECT.json` quotes the
lines.

| run | shows |
|---|---|
| `InfLatLog_concurrent` | with `-m`, a signal and a full buffer start two handlers that write one file |
| `PmuMonitor_full` | a tick on top of `signal_handler` makes the log lose its warning |
| `CgTaskset_timeout` | a process gives up although it is in its group |

Other weaknesses are in the models as behaviour, and the properties are stated
so that they hold in spite of them; no run is kept for each:

* `-e 0` stores one result outside of the buffer (`BufLogSize = 0` breaks
  `NoMisuse`);
* a signal that interrupts `fopen`, `fclose`, a first line or the allocations of
  `loads()` may leave the process waiting for the allocator (the exceptions in
  `HandlerEnds`, `RunEnds` and `SignalEndsRun`); so may the tick that fills the
  buffers of `pmu-monitor` on top of `signal_handler`;
* `loads()` may return without measuring, and the program sleeps in `pause()`
  (`Measures` in `RunEnds`);
* sizes from 2^64 minus two pages on (also `-1`) pass the checks and wrap the
  argument of `malloc`, which then succeeds with a small block: pointers are
  stored outside of it (`BlockFits`, in `SimLat` `Stray`). A huge size that does
  not wrap is refused by `malloc`;
* an empty list of CPUs with `-m` makes the first thread read the uninitialized
  `cpus_to_set[0]` (`CpuSets`);
* strides from 2^59 on wrap `stride * CHUNK_SIZE`: at 2^59 the loop over the
  chunks never ends (`Endless`, `StrideFits`);
* with a negative `-i` a second signal adds a second row of totals;
* programs that share a subgroup take each other's CPUs, and a refused list of
  CPUs goes unnoticed (the conditions of `LoneProcessOwnsCpus`);
* `scanf`'s result is ignored in the way tools: after a letter the ways get
  the id before, at the end of stdin the answer is not initialized;
* the last `ioctl` of `wayset_ctrl` and those of `-c` may fail unnoticed;
* from 2^31/31 bytes on, a stride the checks accept overflows the int `head`
  (`HeadFits`);
* the steps of `sim-lat_mem_rd` stop at 2^28 bytes whatever the maximum is
  (`GridSizes` in `EverySizeIsMeasured`);
* `pmu-sim-lat_mem_rd` warns of a refused affinity and measures all the same,
  and counts on CPU 3 if nothing else is said (`Pinned`);
* a failing allocation of the page table leads to a walk from a pointer nobody
  set (`WildRead`), in both programs;
* `sim-bw_mem_wr` and `inf-sim-bw_mem_wr` join the subgroup of
  `sim-lat_mem_rd`, so that a pair of them shares it (`CgTaskset_shared`);
* the comments `pmu_counter.c:11` and `pmu-monitor.c:22` call PID 0 "all
  processes"; to `perf_event_open()` it is the calling one, which is what the
  models have.

## 4. Bounds

Each bound is a constant: `MaxMeasured`, `MaxSignals`, `MaxTicks`, `MaxWork`,
`MaxCalls` stop the environment or a loop that has no end in the code;
`BufLogSize`, `Polls`, `WayNum`, `CHUNK_SIZE`, `INT_MAX`, `PageSize`,
`SizeMod` and `SIZE_MOD` (the width of `size_t`), `kBufferSizePow2High`,
`NUM_SAMPLE`, `num_iters`, `EventNum`, `GroupNum` replace a number of the code. They are small because the
code treats all values but the boundary alike: the buffer is full or not, a
signal is masked or not, a share has a remainder or not.

Deadlock is checked in every run: each specification has an explicit
`Terminated` step for the states in which the program really is at its end.

## 5. Fairness

Weak fairness of each thread's code, start-up included (the Linux scheduler runs
what can run) and of the delivery of a pending signal to a thread that does not
block it. For `pmu-monitor`, whose code and signal handlers are one thread, this
is one condition on its code and one on the delivery of SIGINT and SIGTERM; no
tick has to come. Nothing is assumed about the environment: nobody has to send a
signal, start a program or do work, and no file operation has to succeed. For
`StrideRing` each thread is scheduled; for `CgTaskset` each process; for
`SimLat` the measuring program and the library it calls, but not the user's
program, which need not do anything.

## 6. What is proved

With TLAPS, for all values of the constants that satisfy their assumptions.
Every invariant and every action property or refinement that a passing run
checks is a theorem; what is left to TLC alone is liveness.

| module | theorem | statement |
|---|---|---|
| `InfLatLog_proofs` | `TypeCorrect` | `Spec => []TypeOK` |
| | `RecordsKept` | `Spec => RecordsAreKept`, with any number of threads |
| | `OneThreadInvariant` | `OneThread` implies `Spec => []OneThreadInv` |
| | `LogComplete` | ... `Spec => []LogIsComplete` |
| | `LogPrefix` | ... `Spec => []FileIsPrefix` |
| | `NothingMisused` | ... `Spec => []NoMisuse` |
| | `PromiseKept` | ... `Spec => KeepsPromise`, that is `InfLatLog` implements `RunLog` |
| | `SoleHandlerWritesLog` | `Spec => []SoleHandlerLog`, with any number of threads |
| `PmuMonitor_proofs` | `NoMisuseAlways` | `Spec => []NoMisuse` |
| | `RowsKeptAlways` | `Spec => RowsAreKept` |
| | `RowsAgreeAlways` | `Spec => []RowsAgree` |
| | `TotalsAgreeAlways` | `Spec => []TotalsAgree` |
| | `EachUnitIsInOneRowAlways` | `Spec => []EachUnitIsInOneRow` |
| | `LogIsWellFormedAlways` | `Spec => []LogIsWellFormed` |
| `CgTaskset_proofs` | `TypeCorrect` | `Spec => []TypeOK` |
| | `HierarchyIsBuilt` | `Spec => []GroupsAreBuilt` |
| | `Membership` | `Spec => []DoneIsMember` |
| | `LoneCpus`, `LoneFailure` | `Spec => []LoneProcessOwnsCpus`, `Spec => []LoneFailureIsReal` |
| `StrideRing_proofs` | `PointersAreWholeAlways` | `Spec => []PointersAreWhole` |
| | `RingsDivideBufferAlways` | `Spec => []RingsDivideBuffer` |
| | `WalkersStayHomeAlways` | `Spec => []WalkersStayHome` |
| | `ThreadsArePlacedAlways` | `Spec => []ThreadsArePlaced` |
| `Wayset_proofs` | `TypeCorrect` | `Spec => []TypeOK` |
| | `OneOwner` | `IdNum <= 7` implies `Spec => []WaysHaveOneOwner` |
| | `RegisterComesLast` | `IdNum <= 7` and `~ReadFails` imply `Spec => PartcrIsSetLast` |
| `BwWr_proofs` | `WritesStayInsideAlways` | `Spec => []WritesStayInside` |
| | `EachStrideIsWrittenOnceAlways` | `Spec => []EachStrideIsWrittenOnce` |
| | `ResultsAreOfWholeCallsAlways` | `Spec => []ResultsAreOfWholeCalls` |
| `SimLat_proofs` | `NoDescriptorIsLostAlways` | `CounterSpec => []NoDescriptorIsLost` |
| | `CountsAreOfTheWorkAlways` | `CounterSpec => []CountsAreOfTheWork` |
| | `ProgramsKeepTheProtocol` | `Spec => KeepsTheProtocol`, that is `Spec => CounterSpec` |
| | `ProgramsCountTheirWork` | `Spec => [](NoDescriptorIsLost /\ CountsAreOfTheWork)` |
| | `EverySizeIsMeasuredAlways` | `Spec => []EverySizeIsMeasured` |
| | `RingIsWarmAlways` | `Spec => []RingIsWarm` |
| | `PinnedCountsAreWholeAlways` | `Spec => []PinnedCountsAreWhole` |

where `OneThread` is `Threads = {Main} /\ Reporter = Main /\ BufLogSize > 0`.

*Assumptions.* Those of the modules themselves are what the code has: a pointer
fits in a page (`StrideRing`), `pmu-sim-lat_mem_rd` takes one CPU
(`MAX_CPU_NUM["pmu"] = 1`), the powers of two reach from 3 up, the buffers of
`pmu-monitor` have room for three rows if a negative `-i` is among the arguments
(two signals each add one, and the program has 3M slots). Beyond them:

* `OneThread`: a buffer of size 0 is stored into, and two threads write one file
  (`InfLatLog_concurrent`). `RecordsKept` and `SoleHandlerWritesLog` do without.
* `~ReadFails` of `RegisterComesLast`: an unread register leaves the value of the
  CPU before, which may be the expected one. `IdNum <= 7`: four bits for each id.
* the conditions inside the properties, each of which a run or the list of
  weaknesses above shows to be needed: `BlockFits`, `HeadFits`, `StrideFits`,
  `Pinned`, a list of CPUs that is not empty, a subgroup of one's own, no
  `FullOnTopOfHandler`.

### The log of inf-sim-lat_mem_rd

`LogIsComplete` is not inductive: one must know what is still buffered anywhere.
`OneThreadInv` adds

* `RecordsInv`: the first `measured` slots hold the first measurements, there
  is room whenever the loop is about to store, and the flag says "full" only
  when the buffer is;
* `TopInv`: the handler on top writes at the end of the file through the last
  stream opened, and what is in the file and its buffer is exactly what its
  `pc` says it has printed; once it closed the stream the file is the log;
* `StreamsInv`: what any other stream still buffers is a `Piece` of the same
  log at the stream's own offset.

While a handler is on the stack the loop stands still, hence all handlers print
the same log; a new handler truncates the file and starts at its beginning; and
when `exit()` flushes the streams each one overlays a piece of the log on that
same log (`OverlayRepeats` and its neighbours in `Stdio_proofs`).
`RecordsKept` needs less: `measured` and `result_idx` differ by one exactly
between the store and the increment, so a store never hits a counted slot, and
only the reporting loop touches them (`OnlyReportRecords`).

`PromiseKept` goes step by step: under the mapping `Promise` the initial states
are those of `RunLog`, the increment of `result_idx` (`IncResultIdx`) is its
`Keep`, the step that ends `exit(0)` its `Finish` (here `LogIsComplete` is what
the abstract step asks for), every other way to end its `Fail`, and all else a
stutter.

With other threads the log is a moving target: the loop goes on storing. For a
handler that stays the only one `SoleInv` keeps a witness: there is a log `c`
with rows without a gap (`Shaped`) of which the file is a beginning and every
buffer a piece, and which is as long as the handler's place says (`Done`);
before the first handler nothing was ever written to a stream (`Quiet`).

### pmu-monitor

Five invariants, each inductive with those before it.

* `TypeOK`. `NestInv`: which frames can lie on which (`signal_handler` never
  returns, a signal does not interrupt its own handler, so the stack is at most
  `main`, a tick, both signals and the direct call); a full buffer has a tick
  standing at its check; with `-i < 0` there are no more rows than signals that
  got past the increment; the last handler that writes has an open stream. It
  gives `NoMisuse`.
* `CounterInv`: what the loops over CPUs and events have done so far (`Visited`,
  from the arithmetic of `\div` and `%`), that from the end of one until the
  start of the other no event counts (`Frozen`), and that a leader counts
  whatever its group does.
* `RowInv`: what a frame at a row or a line has stored of it, from values
  that are still those of the counters. With the two before it this gives
  `RowsAgree` and `TotalsAgree`.
* `UnitInv`: for each event and column, what is reported and what is still
  counted and not yet reported is between the work done asleep and all work.
* `LogInv` and `RowsOK`: the *last* `signal_handler` on the stack has written
  what its place says; the streams of those below hold pieces of the same log,
  which may only have grown since, because rows are only added, and the flag
  only changes below the first handler unless `FullOnTopOfHandler`.
  A handler that has closed its stream keeps the number of rows it wrote, and
  that number is no less than the rows counted when any handler below started.

`Total` is a fold of the community modules. The library's induction theorems
have an operator as parameter, which the provers cannot instantiate, so
`Induction` is proved from `WFMin` for sets of numbers; with it `SumsEquation`
(the fold's equation has a solution for every finite set) and `BySize`
(induction on the size of a set) give `SumRemove`, `SumGrows`, `TotalAt` and
`TotalExtends`, which are all the proofs need of sums.

### The rings, the writes and the sizes

`StrideRing`: `RingInv` is `ArgsInv` (what the checks of the arguments leave),
`StateTyped`, `PlaceInv` (where each thread's share begins and which pointer is
next) and `LinkInv` (the pointers stored so far are the lines below the next
one, and no pointer of a thread's ring leads out of it). The lemmas `Shares` and
their neighbours say that shares are multiples of the stride, that none is
empty and that the last ends with the block. `PlacedInv` adds the list of CPUs,
sorted once, and the affinity of each thread.

`BwWr`: `WrInv` relates what a pass has written to the loop's two positions
(`PassInv`, `HeadInv`: the bytes written are the multiples of the stride below
`p + n * stride`), counts whole passes (`CountInv`) and the results stored
(`ResultInv`), at whatever step the signal comes. Its parts about whole passes hold
under `StrideFits`, which `HeadFits` implies (`HeadFitsStrideFits`).

`SimLat`: `SizesOK` says for each place of the two loops which sizes of the grid
are behind it (`StepsInv`; `FourSizes` puts the grid in order) and that the flag
`just_size_flug` belongs to the ring built last (`WarmInv`).

### The counters

`CounterInv` is one inductive invariant, because what a
value says depends on which events were on at every step since the reset. Its
parts: `Descriptors` (which of the six numbers are open while a group is built
or closed), `Members` (every event has the first one as leader and the CPU of
the group), `Switched` (which of them are on: the loops of `start` and `stop`
have come to event `k`), `Bounded` (an event's count lies between the work done
and the work with the library's own steps, or is on its way to 0 in a reset)
and `ReadSoFar` (the values read already lie in the same bounds). The leader is
switched on first and off first; while only a part of the group is on, what is
counted is library work, hence within `slack`. `SimLat_proofs` shows that
`pmu-sim-lat_mem_rd` has a group exactly between its creation and its export
(`InTurn`), so that each of its steps is one of `CounterNext` or a stutter, and
takes both theorems over. `PinnedOK` adds where a pinned process is
(`PinnedInv`) and how much of its walk is done while the counters run
(`WalkInv`).

### cg_taskset and the way tools

`CgTaskset_proofs` has one inductive invariant for each theorem:
`HierarchyInv` (a level is enabled before anything below it, and a process past
`cpuset.cpus` has its subgroup), `MemberInv` (who has read its own PID is a
member until it ends), `LoneCpusInv`, and `LonePollInv` (a lone member finds
its PID at its first poll, when `pid_check_cnt` is 0). `Wayset_proofs` needs
the range of the index in each loop (`LoopInv`), that the CPUs before it have
their ids (`IdsInv`), and the arithmetic of the bits (`BitsAreApart`).

### Only model-checked

`HandlerEnds`, `RunEnds` (both), `Settles`, `EveryLineIsRead` and
`SignalEndsRun`: liveness rests on fairness and ENABLED, which are beyond the
prover. The three counterexamples are TLC's as well.

## 7. Plan

Done, in this order: `LogLines`, `Stdio`, `InfLatLog`, `RunLog`, the proofs of
the log, `PmuMonitor`, `CgTaskset`, `StrideRing`, `Wayset`, `BwWr`, the proofs of
`CgTaskset` and `Wayset`, `PmuCounter` and its proofs, `SimLat` and its proofs,
the results of `BwWr`, `pmu-monitor` without a log, the proofs of `StrideRing`,
`BwWr` and `PmuMonitor`, the sizes and the pinned counts of `SimLat`, the
refinement of `RunLog`.

Next, to model: read failures of `pmu-monitor`, an interleaving of `CgTaskset`
with benchmarks that are still running.

Next, to prove: that what `pmu-monitor` logs is a `RunLog` too, when no
handler interrupts another; the safety half of `SignalEndsRun` (a handler of
a signal never returns, from `NestInv`); `SoleHandlerLog` for several handlers
on one of many threads.

## 8. What is not modelled

* Builds with `CHECK_LOGFILE_DEL`, `_DEBUG` or `DEBUG`; runs without `-f` in
  `InfLatLog` (the handler then only exits).
* Library calls are atomic with respect to signals, but for the heap inside
  `fopen`, `fclose`, the first line of a stream, and the allocations of `main`.
  What fires on top of a monitor that hangs is left out, and so is a thread of
  `InfLatLog` that waits for another one at its first line. The `printf` calls of
  one line of `-e` are one step.
* `report_idx` is an `int` compared with a `uint32_t`; the models count without
  a limit, which differs above 2^31 entries only.
* stdout and stderr, but for the results `pmu-monitor` and `pmu_counter` print;
  the text of messages, the parsing of sizes and lists,
  `atoi` and `strtoull` on what is not a number.
* Times and latencies as numbers: a measurement is its number in order.
* What else uses the PMU: events are never multiplexed, and all of a group are
  taken to count the same work. Which events the groups have is data, in both
  builds (Cortex-A76 and A55, 19 groups each). (The A76 table prints two of
  them, 0x2b and 0xA0, as `L3D_CACHE_RD`.) A CPU named twice for `pmu-monitor`,
  an empty list for it, and a read of a counter that fails.
* The sort behind a median, the bandwidth computed from it.
* `-m 0`, a failing `pthread_create` (its result is ignored, the models take it to
  succeed) and other inputs whose effect is
  undefined and says nothing about the code around it; they are listed under
  `hazards` in `PROJECT.json`.
* SIGKILL: it may come at any moment, and `FileIsPrefix` says what it leaves.
* `permutation()`: only its failure matters, nothing reads its table.
* Scripts, Makefiles, the `sd-vbs_arm` patch, the `wpuser-control` patch.
