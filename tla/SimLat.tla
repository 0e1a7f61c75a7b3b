------------------------------- MODULE SimLat -------------------------------
(***************************************************************************)
(* sim-lat_mem_rd and pmu-sim-lat_mem_rd: main()'s checks, the CPUs of -t  *)
(* and -g, and loads(), which builds a ring of lines and walks it.         *)
(* sim-lat_mem_rd steps through the sizes up to the one it was given, or   *)
(* with -o takes that one only, and measures each NUM_SAMPLE times, warmed *)
(* up.  pmu-sim-lat_mem_rd walks the one size once for each of GroupNum    *)
(* groups of events, with the library of PmuCounter.  A third program is   *)
(* any user's, compiled with that library.                                 *)
(***************************************************************************)
EXTENDS PmuCounter, Sequences

CONSTANTS
  kBufferSizePow2Low,    \* 13 in the code
  kBufferSizePow2High,   \* 29
  NUM_SAMPLE,            \* 100
  num_iters,             \* the accesses of a walk, 1200 * 1000
  GroupNum,              \* 19 blocks of main()
  MAX_CPU_NUM,           \* of sim-lat_mem_rd, 32, and of pmu-sim-lat_mem_rd, 1
  MinSize, DefaultSize, MinStride, DefaultStride,
  PageSize, SizeMod,     \* a size_t counts up to SizeMod - 1
  DefaultCpu,            \* what target_cpu is without an option, 3
  NoCpu,                 \* a number that is no CPU's
  MaxSizes, Strides,     \* the arguments
  CpuLists,              \* the operands of -t and -g: CPUs, or ranges of them
  CallerCpus,            \* where the caller of the program may have put it
  MaxWork, MaxCalls      \* bounds: work and calls of a user's program

ASSUME SimLatAssumption ==
  /\ kBufferSizePow2Low \in Nat /\ kBufferSizePow2Low >= 3
  /\ kBufferSizePow2High \in Nat /\ kBufferSizePow2High > kBufferSizePow2Low
  /\ NUM_SAMPLE \in Nat \ {0} /\ num_iters \in Nat \ {0} /\ GroupNum \in Nat
  /\ MAX_CPU_NUM["sim"] \in Nat /\ MAX_CPU_NUM["pmu"] = 1
  /\ MinSize \in Nat /\ DefaultSize \in Nat
  /\ MinStride \in Nat \ {0} /\ DefaultStride \in Nat \ {0}
  /\ PageSize \in Nat /\ SizeMod \in Nat
  /\ MaxSizes \subseteq Nat /\ Strides \subseteq Nat
  /\ \A cpus \in CallerCpus : cpus \subseteq Cpus
  /\ Cpus \cup {AnyCpu, NoCpu, DefaultCpu} \subseteq Targets
  /\ CpuLists \subseteq Seq([first : Targets, cpus : SUBSET Targets])
  /\ MaxWork \in Nat /\ MaxCalls \in Nat

VARIABLES
  program, pc,
  max_work_size, stride,
  opts, list,        \* the options that were given, and their operand
  target_cpu,
  allowed, refused,  \* where the process may run; an option that failed
  i, b, size,        \* the two loops of main() and the size they are at
  group,             \* the blocks of main() that are done
  initialized, just_size_flug,
  j,                 \* the sample, or the access of the walk
  warmed,            \* history: accesses made to warm up in this sample
  measured,          \* history: the sizes that were measured, each above the last
  works, calls       \* history: what a user's program did

args == <<program, max_work_size, stride, opts, list>>
place == <<target_cpu, allowed, refused>>
steps == <<i, b, size, group>>
ring == <<initialized, just_size_flug>>
samples == <<j, warmed, measured>>
user == <<works, calls>>
vars == <<pc, args, place, steps, ring, samples, user, pmuVars>>

num_bt == 2

(* 1 << n *)
Shift[n \in 0 .. kBufferSizePow2High] == IF n = 0 THEN 1 ELSE 2 * Shift[n - 1]

use_step == "o" \notin opts

(* Only sim-lat_mem_rd knows -o. *)
Options == {"t", "g", "o"}

Init ==
  /\ CounterInit
  /\ program \in {"sim", "pmu", "user"}
  /\ pc = IF program = "user" THEN "user" ELSE "args"
  /\ IF program = "user"
     THEN max_work_size = DefaultSize /\ stride = DefaultStride /\ opts = {}
     ELSE max_work_size \in MaxSizes /\ stride \in Strides /\ opts \in SUBSET Options
  /\ list \in CpuLists
  /\ opts \cap {"t", "g"} = {} => list = <<>>
  /\ allowed \in CallerCpus /\ cpu \in allowed
  /\ target_cpu = DefaultCpu /\ refused = FALSE
  /\ i = kBufferSizePow2Low /\ b = 0 /\ size = 0 /\ group = 0
  /\ initialized = FALSE /\ just_size_flug = FALSE
  /\ j = 0 /\ warmed = 0 /\ measured = [sizes |-> {}, ascending |-> TRUE]
  /\ works = 0 /\ calls = 0

-----------------------------------------------------------------------------
(* main(): the arguments and the CPUs *)

At(from) == pc = from /\ call = "none"

Goto(to) == pc' = to

(* A list has one CPU more than extract_cpunum() has room for.  With -g,   *)
(* sim-lat_mem_rd does not take the operand apart.                         *)
TooManyCpus ==
  /\ Len(list) > MAX_CPU_NUM[program]
  /\ "t" \in opts \/ program = "pmu"

(* pmu-sim-lat_mem_rd takes no option or one, with its operand. *)
WrongUse ==
  IF program = "pmu" THEN opts \notin {{}, {"t"}, {"g"}} ELSE {"t", "g"} \subseteq opts

TooSmall ==
  max_work_size \in 1 .. MinSize - 1 \/ stride \in 1 .. MinStride - 1

(* Mutant: the counters stay on the default CPU. *)
TargetCpus_Default == {DefaultCpu}

(* cpus_to_set[0]: atoi() of a range is its first CPU, and an empty list   *)
(* leaves the number uninitialized.                                        *)
TargetCpus ==
  IF program = "sim" \/ opts = {} THEN {DefaultCpu}
  ELSE IF list = <<>> THEN Cpus \cup {AnyCpu, NoCpu}
  ELSE {list[1].first}

CheckArgs ==
  /\ At("args")
  /\ IF WrongUse \/ TooManyCpus \/ TooSmall
     THEN Goto("exit") /\ UNCHANGED <<target_cpu, max_work_size, stride>>
     ELSE /\ Goto("affinity")
          /\ target_cpu' \in TargetCpus
          /\ max_work_size' = IF max_work_size = 0 THEN DefaultSize ELSE max_work_size
          /\ stride' = IF stride = 0 THEN DefaultStride ELSE stride
  /\ UNCHANGED <<program, opts, list, allowed, refused, steps, ring, samples, user, pmuVars>>

(* cpu_set_all() *)
CpuSet == {list[n].first : n \in 1 .. Len(list)}

(* sched_setaffinity() refuses a set without a CPU that is there: the      *)
(* program warns and goes on.                                              *)
SetAffinity ==
  /\ At("affinity")
  /\ Goto("cgroup")
  /\ IF "t" \in opts
     THEN IF CpuSet \cap Cpus # {}
          THEN allowed' = CpuSet \cap Cpus /\ cpu' \in allowed' /\ UNCHANGED refused
          ELSE refused' = TRUE /\ UNCHANGED <<allowed, cpu>>
     ELSE UNCHANGED <<allowed, refused, cpu>>
  /\ UNCHANGED <<args, target_cpu, steps, ring, samples, user, library>>

(* cg_taskset(), by what CgTaskset shows of it: it exits, or the process   *)
(* is in a group whose CPUs are the operand's, unless the kernel refused   *)
(* them or another process with that group wrote its own.                  *)
CgTaskset ==
  /\ At("cgroup")
  /\ IF "g" \in opts
     THEN LET cpus == (UNION {list[n].cpus : n \in 1 .. Len(list)}) \cap Cpus
          IN \/ Goto("exit") /\ UNCHANGED <<allowed, refused, cpu>>
             \/ /\ Goto("main")
                /\ cpus # {} /\ allowed' = cpus /\ cpu' \in cpus
                /\ UNCHANGED refused
             \/ /\ Goto("main")
                /\ allowed' \in SUBSET Cpus \ {{}} /\ cpu' \in allowed'
                /\ refused' = TRUE
     ELSE Goto("main") /\ UNCHANGED <<allowed, refused, cpu>>
  /\ UNCHANGED <<args, target_cpu, steps, ring, samples, user, library>>

-----------------------------------------------------------------------------
(* main() of sim-lat_mem_rd: the sizes *)

SimAt(from) == At(from) /\ program = "sim"

StepLoop ==
  /\ SimAt("main") /\ use_step
  /\ IF i < kBufferSizePow2High /\ size <= max_work_size
     THEN Goto("sizes") /\ b' = Shift[num_bt] - 1
     ELSE Goto("end") /\ UNCHANGED b
  /\ UNCHANGED <<args, place, i, size, group, ring, samples, user, pmuVars>>

(* size = (1 << i) - (b << (i - num_bt - 1)) *)
SizeOf(exp, part) == Shift[exp] - part * Shift[exp - num_bt - 1]

(* Mutant: the maximum itself is too large. *)
TooLarge_OffByOne(s) == s >= max_work_size

TooLarge(s) == s > max_work_size

(* Mutant: the power of two stays as it is. *)
NextPower_Stays == i

NextPower == i + 1

(* The inner loop: it ends with b < 0 or at a size too large. *)
NextSize ==
  /\ SimAt("sizes")
  /\ IF b >= 0
     THEN /\ size' = SizeOf(i, b)
          /\ IF TooLarge(size')
             THEN Goto("main") /\ i' = NextPower /\ UNCHANGED b
             ELSE Goto("loads") /\ b' = b - 1 /\ UNCHANGED i
     ELSE Goto("main") /\ i' = NextPower /\ UNCHANGED <<b, size>>
  /\ UNCHANGED <<args, place, group, ring, samples, user, pmuVars>>

OneShot ==
  /\ SimAt("main") /\ ~use_step
  /\ Goto("loads") /\ size' = max_work_size
  /\ UNCHANGED <<args, place, i, b, group, ring, samples, user, pmuVars>>

-----------------------------------------------------------------------------
(* main() of pmu-sim-lat_mem_rd: create_six_event_group(), loads() and     *)
(* export_and_clean_counter(), GroupNum times.                             *)

PmuAt(from) == At(from) /\ program = "pmu"

NextGroup ==
  /\ PmuAt("main") /\ group < GroupNum
  /\ CreateSixEventGroup(target_cpu)
  /\ Goto("loads") /\ size' = max_work_size /\ j' = 0
  /\ UNCHANGED <<args, place, i, b, group, ring, warmed, measured, user>>

(* Mutant: the group is exported and not closed. *)
Export_NoClean ==
  /\ PmuAt("export")
  /\ Begin("export")
  /\ Goto("main") /\ group' = group + 1
  /\ UNCHANGED <<args, place, i, b, size, ring, samples, user>>

Export ==
  /\ PmuAt("export")
  /\ Begin("export_and_clean")
  /\ Goto("main") /\ group' = group + 1
  /\ UNCHANGED <<args, place, i, b, size, ring, samples, user>>

LastGroup ==
  /\ PmuAt("main") /\ group = GroupNum
  /\ Goto("end")
  /\ UNCHANGED <<args, place, steps, ring, samples, user, pmuVars>>

-----------------------------------------------------------------------------
(* loads() *)

Back == IF program = "pmu" THEN "export" ELSE IF use_step THEN "sizes" ELSE "end"

SmallSize ==
  /\ At("loads") /\ size < stride
  /\ Goto(Back)
  /\ UNCHANGED <<args, place, steps, ring, samples, user, pmuVars>>

(* The lines stride_initialize() links: one at every stride below size. *)
RingLength == Cardinality({n \in 0 .. size - 1 : n % stride = 0})

(* Mutant: the flag is never cleared. *)
JustSize_Stale == just_size_flug \/ size % stride = 0

JustSize == size % stride = 0

(* malloc(maxlen + 2 * pagesize): the sum wraps for the largest sizes, and *)
(* the lines are stored outside the few bytes it asks for.                 *)
Stray == size + 2 * PageSize >= SizeMod

(* stride_initialize().  Without memory for the buffer the program ends;   *)
(* without memory for the permutation of its pages it warns and goes on    *)
(* with no ring, and with the flag of the size before.  Lines outside the  *)
(* buffer may end it too.                                                  *)
StrideInitialize ==
  /\ At("loads") /\ size >= stride
  /\ Execute
  /\ \/ Goto("exit") /\ UNCHANGED ring
     \/ Stray /\ Goto("crash") /\ UNCHANGED ring
     \/ /\ pc' = IF program = "pmu" THEN "start" ELSE "warm"
        /\ \/ initialized' = TRUE /\ just_size_flug' = JustSize
           \/ initialized' = FALSE /\ UNCHANGED just_size_flug
  /\ j' = 0 /\ warmed' = 0
  /\ UNCHANGED <<args, place, steps, measured, user>>

(* A walk that starts at a pointer nobody set may end the program; it may  *)
(* as well go on, through whatever it finds.                               *)
WildRead ==
  /\ At("warm") \/ At("walk")
  /\ ~initialized
  /\ Goto("crash")
  /\ UNCHANGED <<args, place, steps, ring, samples, user, pmuVars>>

list_len == (size \div stride) + (IF just_size_flug THEN 0 ELSE 1)

(* warm_up(): TEN accesses for each line, with a pointer of its own. *)
WarmUp ==
  /\ SimAt("warm")
  /\ Goto("walk") /\ warmed' = 10 * list_len
  /\ UNCHANGED <<args, place, steps, ring, j, measured, user, pmuVars>>

Measured(s) ==
  [sizes |-> measured.sizes \cup {s},
   ascending |-> measured.ascending /\ \A t \in measured.sizes : t < s]

(* measure_stride_acesses() of sim-lat_mem_rd, without what it reads (see  *)
(* StrideRing).                                                            *)
MeasureSample ==
  /\ SimAt("walk")
  /\ j' = j + 1 /\ warmed' = 0
  /\ IF j' < NUM_SAMPLE
     THEN Goto("warm") /\ UNCHANGED measured
     ELSE Goto(Back) /\ measured' = Measured(size)
  /\ UNCHANGED <<args, place, steps, ring, user, pmuVars>>

(* loads() of pmu-sim-lat_mem_rd: only the walk is between the start and   *)
(* the stop of the counters.                                               *)
StartWalk ==
  /\ PmuAt("start")
  /\ Begin("reset_and_start")
  /\ Goto("walk")
  /\ UNCHANGED <<args, place, steps, ring, samples, user>>

Access ==
  /\ PmuAt("walk") /\ j < num_iters
  /\ Execute
  /\ j' = j + 1
  /\ UNCHANGED <<args, pc, place, steps, ring, warmed, measured, user>>

StopWalk ==
  /\ PmuAt("walk") /\ j = num_iters
  /\ Begin("stop")
  /\ Goto("free")
  /\ UNCHANGED <<args, place, steps, ring, samples, user>>

Free ==
  /\ PmuAt("free")
  /\ Execute
  /\ Goto("export")
  /\ UNCHANGED <<args, place, steps, ring, samples, user>>

loads ==
  \/ SmallSize \/ StrideInitialize \/ WildRead \/ WarmUp \/ MeasureSample
  \/ StartWalk \/ Access \/ StopWalk \/ Free

-----------------------------------------------------------------------------

main ==
  \/ CheckArgs \/ SetAffinity \/ CgTaskset
  \/ StepLoop \/ NextSize \/ OneShot
  \/ NextGroup \/ Export \/ LastGroup

LibraryStep ==
  Library /\ UNCHANGED <<pc, args, place, steps, ring, samples, user>>

(* Where the process is does not matter before it has a group of events. *)
Move ==
  /\ Grouped /\ call # "exit" /\ Migrate(allowed)
  /\ UNCHANGED <<pc, args, place, steps, ring, samples, user>>

(* A user's program does as CounterNext says. *)
UserProgram ==
  /\ program = "user"
  /\ \/ /\ calls < MaxCalls /\ calls' = calls + 1 /\ UNCHANGED works
        /\ IF Grouped
           THEN \E function \in Functions : Begin(function)
           ELSE \E cpu_id \in Targets : CreateSixEventGroup(cpu_id)
     \/ /\ works < MaxWork /\ works' = works + 1 /\ UNCHANGED calls
        /\ Execute
  /\ UNCHANGED <<pc, args, place, steps, ring, samples>>

Ended == pc \in {"end", "exit", "crash"} \/ call = "exit"

Terminated ==
  (Ended \/ (program = "user" /\ calls = MaxCalls)) /\ UNCHANGED vars

Next == main \/ loads \/ LibraryStep \/ Move \/ UserProgram \/ Terminated

Spec == Init /\ [][Next]_vars

(* The scheduler runs the program. *)
Fairness == WF_vars(main \/ loads \/ LibraryStep)

FairSpec == Spec /\ Fairness

-----------------------------------------------------------------------------
(* Properties *)

(* The sizes the program knows: four between a power of two and the next. *)
GridSizes ==
  {SizeOf(exp, part) : exp \in kBufferSizePow2Low .. kBufferSizePow2High - 1,
                       part \in 0 .. 3}

(* A run in steps measures every size of the grid that the stride and the  *)
(* maximum allow, from the smallest to the largest, each once; with -o it  *)
(* measures the maximum (README.md:15, 25).                                *)
EverySizeIsMeasured ==
  pc = "end" /\ program = "sim" =>
    LET wanted == IF use_step THEN {s \in GridSizes : stride <= s /\ s <= max_work_size}
                  ELSE {s \in {max_work_size} : stride <= s}
    IN measured.sizes = wanted /\ measured.ascending

(* Before each sample the cache is warmed up with exactly ten rounds of    *)
(* the ring, whether the stride divides the size or not, also after a size *)
(* for which the flag was the other way, or that left it as it was         *)
(* (just_size_flug, list_len).                                             *)
RingIsWarm ==
  pc = "walk" /\ program = "sim" /\ initialized => warmed = 10 * RingLength

(* The program asked for one CPU and got it, or its caller put it on the   *)
(* CPU that is counted without an option.                                  *)
Pinned ==
  CASE opts = {} -> allowed = {DefaultCpu}
    [] opts = {"t"} -> ~refused
    [] opts = {"g"} -> ~refused /\ list[1].cpus = {list[1].first}

(* Every value pmu-sim-lat_mem_rd prints for a process on one CPU is that  *)
(* of one whole walk, in every one of its groups: the counters are on the  *)
(* CPU the process was put on (target_cpu, cpus_to_set), what one group    *)
(* leaves behind does not disturb the next, and nothing that main() and    *)
(* loads() do beside the walk is counted.  A stride above the size gives   *)
(* no walk, and zeros.                                                     *)
PinnedCountsAreWhole ==
  program = "pmu" /\ call = "print_and_clean" /\ Pinned =>
    LET accesses == IF stride <= max_work_size THEN num_iters ELSE 0
    IN \A n \in Group : ret[n] => val[n] \in accesses .. accesses + slack

(* pmu-sim-lat_mem_rd uses the library as its README asks: it creates a    *)
(* group only when the one before is closed, and starts, stops and exports *)
(* only a group that is there, whatever loads() does (a return before the  *)
(* start, for a stride above the size).                                    *)
KeepsTheProtocol == CounterSpec

(* Both programs end, whatever the sizes and strides and whatever fails:   *)
(* the two loops over the sizes come to an end, and so do the groups.      *)
RunEnds == program # "user" ~> Ended
=============================================================================
