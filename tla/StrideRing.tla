----------------------------- MODULE StrideRing -----------------------------
(***************************************************************************)
(* The buffer of inf-sim-lat_mem_rd: main()'s checks of its arguments, the *)
(* -t list, base_initialize(), the split of the buffer among the threads   *)
(* of -m, the rings of pointers stride_initialize() links, and the threads *)
(* that pin themselves to CPUs and chase the pointers for ever.            *)
(*                                                                         *)
(* Addresses are offsets in the block malloc() returns.  The sizes the     *)
(* code has as numbers are constants, so that they can be small.           *)
(***************************************************************************)
EXTENDS Integers, Sequences, FiniteSets, Functions

CONSTANTS
  SizeMod,          \* 2^64, where a size_t wraps
  PtrSize,          \* sizeof(char *)
  PageSize,         \* getpagesize()
  MinSize,          \* 5K
  DefaultSize,      \* 5M
  DefaultStride,    \* 2K
  MaxParallelism,   \* MAX_MEM_PARALLELISM
  MaxCpuNum,        \* MAX_CPU_NUM
  WorkSizes, Strides, ThreadNums,   \* the arguments, -m
  CpuLists          \* the lists of -t

ASSUME RingAssumption ==
  /\ PtrSize \in Nat \ {0} /\ PageSize \in Nat /\ PtrSize <= PageSize
  /\ MinSize \in Nat \ {0} /\ DefaultSize \in Nat /\ DefaultSize >= MinSize
  /\ DefaultStride \in Nat /\ DefaultStride >= PtrSize
  /\ MaxParallelism \in Nat \ {0} /\ MaxCpuNum \in Nat \ {0}
  /\ SizeMod \in Nat /\ DefaultSize + 2 * PageSize < SizeMod
  /\ WorkSizes \subseteq 0 .. SizeMod - 1 /\ Strides \subseteq 0 .. SizeMod - 1
  /\ ThreadNums \subseteq Nat \ {0}
  /\ CpuLists \subseteq Seq(Nat)

VARIABLES
  pc,            \* where main() is
  work_size, stride, num_threads, use_threadset, cpus_to_set,
  mem,           \* the pointers stored so far, by their address
  at,            \* stride_initialize(): thread and offset i it is at
  state,         \* each thread's base, tail and p
  tpc,           \* where each thread is
  affinity       \* the CPUs each thread was set to; {} before and on failure

args == <<work_size, stride, num_threads, use_threadset, cpus_to_set>>
vars == <<pc, args, mem, at, state, tpc, affinity>>

Tasks == 0 .. MaxParallelism - 1

Threads == 0 .. num_threads - 1

Init ==
  /\ pc = "args"
  /\ work_size \in WorkSizes /\ stride \in Strides
  /\ num_threads \in ThreadNums /\ use_threadset \in BOOLEAN
  /\ cpus_to_set \in (IF use_threadset THEN CpuLists ELSE {<<>>})
  /\ mem = <<>>
  /\ at = [thread |-> 0, i |-> 0]
  /\ state = [k \in Tasks |-> [base |-> 0, tail |-> 0, p |-> 0]]
  /\ tpc = [k \in Tasks |-> "none"]
  /\ affinity = [k \in Tasks |-> {}]

-----------------------------------------------------------------------------
(* main() *)

Goto(from, to) == pc = from /\ pc' = to

SizesRefused ==
  (work_size # 0 /\ work_size < MinSize) \/ (stride # 0 /\ stride < PtrSize)

ArgsRefused == SizesRefused \/ num_threads > MaxParallelism

CheckArgs ==
  /\ IF ArgsRefused
     THEN Goto("args", "exit") ELSE Goto("args", "cpus")
  /\ work_size' = IF work_size = 0 THEN DefaultSize ELSE work_size
  /\ stride' = IF stride = 0 THEN DefaultStride ELSE stride
  /\ UNCHANGED <<num_threads, use_threadset, cpus_to_set, mem, at, state, tpc, affinity>>

(* Mutant: the smallest CPU is the first. *)
Before_Ascending(a, b) == a < b

(* compare_desc() *)
Before(a, b) == a > b

(* qsort(): the list in another order, in which no CPU comes after one it  *)
(* should come before.                                                     *)
Sort(list) ==
  \E order \in Bijection(DOMAIN list, DOMAIN list) :
    /\ \A m, n \in DOMAIN list : m < n => ~Before(list[order[n]], list[order[m]])
    /\ cpus_to_set' = [n \in DOMAIN list |-> list[order[n]]]

(* extract_cpunum(): the list sorted, or an error when it is too long. *)
ExtractCpus ==
  /\ IF Len(cpus_to_set) > MaxCpuNum
     THEN Goto("cpus", "exit") /\ UNCHANGED cpus_to_set
     ELSE Goto("cpus", "base") /\ Sort(cpus_to_set)
  /\ UNCHANGED <<work_size, stride, num_threads, use_threadset, mem, at, state, tpc, affinity>>

(* Mutant: nothing is added for the alignment. *)
BlockSize_Exact == work_size

(* What malloc() is asked for. *)
BlockSize == (work_size + 2 * PageSize) % SizeMod

(* loads() and base_initialize(): the base is the block's first page       *)
(* boundary.  A failed malloc ends the program; without the page table, or *)
(* with a stride beyond the buffer, it does nothing and sleeps.            *)
BaseInitialize ==
  /\ \/ work_size < stride /\ Goto("base", "pause") /\ UNCHANGED state
     \/ /\ work_size >= stride
        /\ \/ Goto("base", "exit") /\ UNCHANGED state
           \/ Goto("base", "pause") /\ UNCHANGED state
           \/ \E base \in 0 .. PageSize - 1 :
                Goto("base", "split") /\ state' = [state EXCEPT ![0].base = base]
  /\ UNCHANGED <<args, mem, at, tpc, affinity>>

-----------------------------------------------------------------------------
(* loads(): the shares of the threads *)

thread_size == ((work_size \div num_threads) \div stride) * stride

lastone_size == work_size - thread_size * (num_threads - 1)

Share(k) == IF k = num_threads - 1 THEN lastone_size ELSE thread_size

Split ==
  /\ pc = "split"
  /\ pc' = IF num_threads > 1 /\ thread_size < stride THEN "exit" ELSE "link"
  /\ at' = [thread |-> 0, i |-> stride]
  /\ UNCHANGED <<args, mem, state, tpc, affinity>>

(* A pointer was stored beyond the block. *)
Stray == \E a \in DOMAIN mem : a + PtrSize > BlockSize

Store(addr, val) ==
  mem' = [a \in DOMAIN mem \cup {addr} |-> IF a = addr THEN val ELSE mem[a]]

(* Mutant: a ring starts on the last line of the one before. *)
NextBase_Tail(tail) == tail

(* base of the next thread: tail + stride *)
NextBase(tail) == tail + stride

(* Mutant: every ring closes at the start of the buffer. *)
RingHead_First(k) == state[0].base + 0 * k

(* Mutant: the ring leaves its first line out. *)
RingHead_Second(k) == state[k].base + (IF Share(k) > stride THEN stride ELSE 0)

(* &addr[0], where the last line points to *)
RingHead(k) == state[k].base

(* stride_initialize(): one pointer to the next line, or the last one back *)
(* to the first line, after which the next thread's ring follows.          *)
StoreLink ==
  LET k == at.thread
      addr == state[k].base + at.i - stride
  IN /\ pc = "link"
     /\ at.i < Share(k)
     /\ Store(addr, addr + stride)
     /\ at' = [at EXCEPT !.i = @ + stride]
     /\ UNCHANGED <<pc, args, state, tpc, affinity>>

CloseRing ==
  LET k == at.thread
      addr == state[k].base + at.i - stride
      closed == [state EXCEPT ![k].tail = addr, ![k].p = state[k].base]
  IN /\ pc = "link"
     /\ at.i >= Share(k)
     /\ Store(addr, RingHead(k))
     /\ IF k + 1 \in Threads
        THEN /\ state' = [closed EXCEPT ![k + 1].base = NextBase(addr)]
             /\ at' = [thread |-> k + 1, i |-> stride]
             /\ UNCHANGED pc
        ELSE state' = closed /\ pc' = "create" /\ UNCHANGED at
     /\ UNCHANGED <<args, tpc, affinity>>

(* A pointer beyond the block overwrites what is not the program's, or     *)
(* ends it.                                                                *)
Crash ==
  /\ pc \in {"link", "create"} /\ \A k \in Tasks : tpc[k] = "none"
  /\ Stray
  /\ pc' = "crash"
  /\ UNCHANGED <<args, mem, at, state, tpc, affinity>>

(* pthread_create(), or without -m the call of measure_stride_acesses(). *)
CreateThread ==
  /\ pc = "create"
  /\ \E k \in Threads :
        /\ tpc[k] = "none" /\ \A m \in Threads : m < k => tpc[m] # "none"
        /\ tpc' = [tpc EXCEPT ![k] = "start"]
        /\ pc' = IF k + 1 \in Threads THEN "create" ELSE "join"
  /\ UNCHANGED <<args, mem, at, state, affinity>>

-----------------------------------------------------------------------------
(* measure_stride_acesses_mt() *)

AllCpus == {cpus_to_set[n] : n \in 1 .. Len(cpus_to_set)}

(* state.cpu, or all of the list for the threads beyond it (-1) and for a  *)
(* program of one thread.                                                  *)
CpuSet(k) ==
  IF num_threads > 1 /\ k < Len(cpus_to_set) THEN {cpus_to_set[k + 1]} ELSE AllCpus

(* With an empty list the first thread of -m takes cpus_to_set[0] all the  *)
(* same, which was never written.                                          *)
CpuSets(k) ==
  IF use_threadset /\ cpus_to_set = <<>> /\ num_threads > 1 /\ k = 0
  THEN {{}} \cup {{c} : c \in 0 .. MaxCpuNum} ELSE {CpuSet(k)}

(* sched_setaffinity() may fail; the thread then runs anywhere. *)
SetAffinity(k) ==
  /\ tpc[k] = "start"
  /\ tpc' = [tpc EXCEPT ![k] = "walk"]
  /\ \/ UNCHANGED affinity
     \/ \E cpus \in CpuSets(k) :
          use_threadset /\ affinity' = [affinity EXCEPT ![k] = cpus]
  /\ UNCHANGED <<pc, args, mem, at, state>>

(* ONE: the thread follows one pointer. *)
Walk(k) ==
  /\ tpc[k] = "walk"
  /\ state' = [state EXCEPT ![k].p = mem[state[k].p]]
  /\ UNCHANGED <<pc, args, mem, at, tpc, affinity>>

Terminated == pc \in {"exit", "pause", "crash"} /\ UNCHANGED vars

Loads ==
  \/ CheckArgs \/ ExtractCpus \/ BaseInitialize \/ Split
  \/ StoreLink \/ CloseRing \/ Crash \/ CreateThread

Next == Loads \/ Terminated \/ \E k \in Tasks : SetAffinity(k) \/ Walk(k)

Spec == Init /\ [][Next]_vars

(* Every thread is scheduled. *)
FairSpec ==
  Spec /\ WF_vars(Loads) /\ \A k \in Tasks : WF_vars(SetAffinity(k) \/ Walk(k))

-----------------------------------------------------------------------------
(* Properties *)

Ready == pc \in {"create", "join"}

(* The addresses the whole buffer is read at: every stride-th byte. *)
Grid == {state[0].base + n : n \in {m \in 0 .. work_size - 1 : m % stride = 0}}

(* The part of the grid in thread k's share of the buffer. *)
Ring(k) == {a \in Grid : a >= state[k].base /\ a < state[k].base + Share(k)}

(* The size of the block is a size_t, although main() takes any. *)
BlockFits == work_size + 2 * PageSize < SizeMod

(* No pointer is stored beyond the block malloc() returned or into another *)
(* pointer, although a ring's last one may lie beyond its share: the slack *)
(* of two pages and a stride of at least a pointer (base_initialize, main), *)
(* unless the size of the block wraps.                                     *)
PointersAreWhole ==
  BlockFits =>
    \A a \in DOMAIN mem :
      /\ a + PtrSize <= BlockSize
      /\ \A b \in DOMAIN mem : a = b \/ a + PtrSize <= b \/ b + PtrSize <= a

(* The threads divide the buffer: every line of it is in the ring of one   *)
(* of them and of no other, none is lost where the size does not divide    *)
(* (loads; README.md:75-78).                                               *)
RingsDivideBuffer ==
  Ready =>
    /\ DOMAIN mem = Grid
    /\ \A a \in Grid : Cardinality({k \in Threads : a \in Ring(k)}) = 1

(* Wherever a thread is in its walk, it reads its own ring (README.md:78). *)
WalkersStayHome ==
  \A k \in Threads \cap Tasks : tpc[k] # "none" => state[k].p \in Ring(k)

(* The entries of the list that name a CPU of at least n. *)
AtLeast(n) == {m \in DOMAIN cpus_to_set : cpus_to_set[m] >= n}

(* The k-th thread is on the k-th largest CPU of the list, a CPU that is   *)
(* named twice counted twice, and those for which no CPU is left are on    *)
(* all of them (README.md:50-57); the list is not empty.                   *)
ThreadsArePlaced ==
  \A k \in Threads \cap Tasks : affinity[k] # {} /\ cpus_to_set # <<>> =>
    IF num_threads > 1 /\ k < Len(cpus_to_set)
    THEN \E c \in AllCpus :
           /\ affinity[k] = {c}
           /\ Cardinality(AtLeast(c + 1)) <= k /\ k < Cardinality(AtLeast(c))
    ELSE affinity[k] = AllCpus

(* No ring has more lines than this. *)
MostLines ==
  (DefaultSize + CHOOSE n \in WorkSizes : \A m \in WorkSizes : m <= n) \div PtrSize

(* A thread comes to every line of its share again and again: the ring has *)
(* no shortcut and no tail that is left for good (stride_initialize).      *)
EveryLineIsRead ==
  \A k \in Tasks : \A n \in 0 .. MostLines :
    LET line == state[k].base + n * stride IN
    (BlockFits /\ tpc[k] # "none" /\ line \in Ring(k)) ~> (state[k].p = line)
=============================================================================
