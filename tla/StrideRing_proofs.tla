-------------------------- MODULE StrideRing_proofs --------------------------
(* Proofs about StrideRing, for any sizes, any number of threads and any   *)
(* list of CPUs.                                                           *)
EXTENDS StrideRing, FiniteSetTheorems, TLAPS

-----------------------------------------------------------------------------
(* Multiples of the stride *)

LEMMA DivMod ==
  ASSUME NEW d \in Nat \ {0}, NEW a \in Int
  PROVE  /\ a \div d \in Int /\ a % d \in 0 .. d - 1
         /\ a = (a \div d) * d + (a % d)
OBVIOUS

LEMMA DivNat ==
  ASSUME NEW d \in Nat \ {0}, NEW a \in Nat
  PROVE  a \div d \in Nat /\ (a \div d) * d <= a
OBVIOUS

LEMMA BelowModulus ==
  ASSUME NEW d \in Nat, NEW a \in 0 .. d - 1
  PROVE  a % d = a
OBVIOUS

LEMMA QuotientIsUnique ==
  ASSUME NEW d \in Nat \ {0}, NEW q \in Int, NEW r \in 0 .. d - 1
  PROVE  (q * d + r) % d = r /\ (q * d + r) \div d = q
OBVIOUS

LEMMA Multiple ==
  ASSUME NEW d \in Nat \ {0}, NEW a \in Int, a % d = 0
  PROVE  \E q \in Int : a = q * d
BY DivMod

LEMMA IsMultiple ==
  ASSUME NEW d \in Nat \ {0}, NEW q \in Int
  PROVE  (q * d) % d = 0
OBVIOUS

LEMMA Product ==
  ASSUME NEW a \in Int, NEW b \in Int, NEW c \in Nat, a <= b
  PROVE  a * c <= b * c
OBVIOUS

LEMMA NextMultiple ==
  ASSUME NEW d \in Nat \ {0}, NEW a \in Int, a % d = 0
  PROVE  (a + d) % d = 0
<1>1. PICK q \in Int : a = q * d
  BY Multiple
<1>2. a + d = (q + 1) * d
  BY <1>1
<1> QED BY <1>1, <1>2, IsMultiple

LEMMA PreviousMultiple ==
  ASSUME NEW d \in Nat \ {0}, NEW a \in Int, a % d = 0
  PROVE  (a - d) % d = 0
<1>1. PICK q \in Int : a = q * d
  BY Multiple
<1>2. a - d = (q - 1) * d
  BY <1>1
<1> QED BY <1>1, <1>2, IsMultiple

(* Two multiples are a stride apart. *)
LEMMA MultiplesApart ==
  ASSUME NEW d \in Nat \ {0}, NEW a \in Int, NEW b \in Int,
         a % d = 0, b % d = 0, a < b
  PROVE  a + d <= b
<1>1. PICK q \in Int, r \in Int : a = q * d /\ b = r * d
  BY Multiple
<1>2. q < r
  <2> SUFFICES ASSUME r <= q PROVE FALSE
    BY <1>1
  <2>1. r * d <= q * d
    BY Product
  <2> QED BY <1>1, <2>1
<1>3. (q + 1) * d <= r * d
  BY <1>2, Product
<1> QED BY <1>1, <1>3

LEMMA SumOfMultiples ==
  ASSUME NEW d \in Nat \ {0}, NEW a \in Int, NEW b \in Int, a % d = 0, b % d = 0
  PROVE  (a + b) % d = 0
<1>1. PICK q \in Int, r \in Int : a = q * d /\ b = r * d
  BY Multiple
<1>2. a + b = (q + r) * d
  BY <1>1
<1> QED BY <1>2, IsMultiple

LEMMA MultipleOfMultiple ==
  ASSUME NEW d \in Nat \ {0}, NEW a \in Int, NEW k \in Int, a % d = 0
  PROVE  (k * a) % d = 0
<1>1. PICK q \in Int : a = q * d
  BY Multiple
<1>2. k * q \in Int /\ k * a = (k * q) * d
  BY <1>1
<1>3. ((k * q) * d) % d = 0
  BY <1>2, IsMultiple
<1> QED BY <1>2, <1>3

-----------------------------------------------------------------------------
(* The arguments *)

LEMMA Constants ==
  /\ PtrSize \in Nat \ {0} /\ PageSize \in Nat /\ PtrSize <= PageSize
  /\ MinSize \in Nat \ {0} /\ DefaultSize \in Nat /\ DefaultSize >= MinSize
  /\ DefaultStride \in Nat /\ DefaultStride >= PtrSize
  /\ MaxParallelism \in Nat \ {0} /\ MaxCpuNum \in Nat \ {0}
  /\ WorkSizes \subseteq Nat /\ Strides \subseteq Nat
  /\ ThreadNums \subseteq Nat \ {0}
  /\ CpuLists \subseteq Seq(Nat)
BY RingAssumption

(* Where the arguments are known to be good. *)
Checked == {"cpus", "base", "pause", "split", "link", "create", "join", "crash"}

Sized == {"split", "link", "create", "join", "crash"}

ArgsInv ==
  /\ pc \in Checked \cup {"args", "exit"}
  /\ work_size \in Nat /\ stride \in Nat /\ num_threads \in Nat \ {0}
  /\ cpus_to_set \in Seq(Nat)
  /\ pc \in Checked =>
       /\ stride >= PtrSize /\ work_size >= MinSize /\ num_threads <= MaxParallelism
  /\ pc \in Sized => work_size >= stride
  /\ pc \in {"link", "create", "join"} => num_threads = 1 \/ thread_size >= stride

(* The shares of the threads, given arguments that are good. *)
LEMMA Shares ==
  ASSUME work_size \in Nat, stride \in Nat \ {0}, num_threads \in Nat \ {0},
         work_size >= stride
  PROVE  /\ thread_size \in Nat /\ thread_size % stride = 0
         /\ thread_size * num_threads <= work_size
         /\ lastone_size \in Nat /\ lastone_size >= thread_size
         /\ lastone_size = work_size - (num_threads - 1) * thread_size
         /\ lastone_size > 0
<1> DEFINE W == work_size \div num_threads
           q == W \div stride
<1>1. W \in Nat /\ W * num_threads <= work_size
  BY DivNat
<1>2. q \in Nat /\ q * stride <= W
  BY <1>1, DivNat
<1>3. thread_size = q * stride
  BY DEF thread_size
<1> HIDE DEF W, q
<1>4. thread_size \in Nat /\ thread_size % stride = 0
  BY <1>2, <1>3, IsMultiple
<1>5. thread_size * num_threads <= W * num_threads
  BY <1>1, <1>2, <1>3, <1>4, Product
<1>6. thread_size * num_threads <= work_size
  BY <1>1, <1>4, <1>5
<1>7. (num_threads - 1) * thread_size = thread_size * num_threads - thread_size
  BY <1>4
<1>8. thread_size * (num_threads - 1) = (num_threads - 1) * thread_size
  BY <1>4
<1>9. lastone_size = work_size - (num_threads - 1) * thread_size
  BY <1>8 DEF lastone_size
<1>10. thread_size * num_threads \in Int
  BY <1>4
<1>11. lastone_size \in Int /\ lastone_size >= thread_size
  BY <1>4, <1>6, <1>7, <1>9, <1>10
<1>12. lastone_size > 0
  <2>1. CASE thread_size = 0
    BY <1>9, <2>1
  <2>2. CASE thread_size > 0
    BY <1>11, <1>4, <2>2
  <2> QED BY <1>4, <2>1, <2>2
<1> QED BY <1>4, <1>6, <1>9, <1>11, <1>12

LEMMA ArgsStep ==
  ASSUME ArgsInv, [Next]_vars
  PROVE  ArgsInv'
<1> USE Constants DEF ArgsInv, Checked, Sized, Goto
<1>1. CASE UNCHANGED <<pc, args>>
  BY <1>1 DEF args, thread_size
<1>2. CASE CheckArgs
  BY <1>2 DEF CheckArgs, ArgsRefused, SizesRefused, thread_size
<1>3. CASE ExtractCpus
  <2>1. cpus_to_set' \in Seq(Nat)
    <3>1. CASE UNCHANGED cpus_to_set
      BY <3>1
    <3>2. CASE Sort(cpus_to_set)
      <4>1. PICK order \in Bijection(DOMAIN cpus_to_set, DOMAIN cpus_to_set) :
              cpus_to_set' = [n \in DOMAIN cpus_to_set |-> cpus_to_set[order[n]]]
        BY <3>2 DEF Sort
      <4>2. order \in [DOMAIN cpus_to_set -> DOMAIN cpus_to_set]
        BY DEF Bijection, Injection
      <4>3. \A n \in DOMAIN cpus_to_set : cpus_to_set[order[n]] \in Nat
        BY <4>2
      <4>4. Len(cpus_to_set) \in Nat /\ DOMAIN cpus_to_set = 1 .. Len(cpus_to_set)
        OBVIOUS
      <4> QED BY <4>1, <4>3, <4>4
    <3> QED BY <1>3, <3>1, <3>2 DEF ExtractCpus
  <2> QED BY <1>3, <2>1 DEF ExtractCpus, thread_size
<1>4. CASE BaseInitialize
  BY <1>4 DEF BaseInitialize, args, thread_size
<1>5. CASE Split
  <2>1. thread_size \in Nat
    BY <1>5, Shares DEF Split
  <2>2. UNCHANGED thread_size
    BY <1>5 DEF Split, args, thread_size
  <2> QED BY <1>5, <2>1, <2>2 DEF Split, args
<1>6. CASE StoreLink \/ Terminated
  BY <1>1, <1>6 DEF StoreLink, Terminated, vars
<1>7. CASE CloseRing
  <2>1. pc = "link" /\ pc' \in {"link", "create"} /\ UNCHANGED args
    BY <1>7 DEF CloseRing
  <2> QED BY <2>1 DEF args, thread_size
<1>8. CASE CreateThread
  <2>1. pc = "create" /\ pc' \in {"create", "join"} /\ UNCHANGED args
    BY <1>8 DEF CreateThread
  <2> QED BY <2>1 DEF args, thread_size
<1>9. CASE \E k \in Tasks : SetAffinity(k) \/ Walk(k)
  BY <1>1, <1>9 DEF SetAffinity, Walk
<1>10. CASE Crash
  BY <1>10 DEF Crash, args
<1> QED
  BY <1>1, <1>2, <1>3, <1>4, <1>5, <1>6, <1>7, <1>8, <1>9, <1>10 DEF Next, Loads, vars

-----------------------------------------------------------------------------
(* The rings *)

Base == state[0].base

(* The threads whose place in the buffer is known. *)
Reached == IF pc = "link" THEN 0 .. at.thread ELSE IF Ready THEN Threads ELSE {}

(* The address of the next pointer stride_initialize() is to store. *)
NextAddr == state[at.thread].base + at.i - stride

StateTyped ==
  /\ state \in [Tasks -> [base : Int, tail : Int, p : Int]]
  /\ at \in [thread : Int, i : Nat]
  /\ tpc \in [Tasks -> {"none", "start", "walk"}]
  /\ \A k \in Tasks : tpc[k] # "none" => Ready /\ k \in Threads
  /\ pc \in Sized => Base \in 0 .. PageSize - 1

(* The shares lie one behind the other, and the rings in their shares. *)
PlaceInv ==
  /\ \A k \in Reached : k \in Threads /\ state[k].base = Base + k * thread_size
  /\ pc = "link" =>
       /\ at.thread \in Threads
       /\ at.i \in Nat /\ at.i % stride = 0
       /\ at.i >= stride /\ at.i < Share(at.thread) + stride

(* What is linked so far is the part of the grid below the next pointer,   *)
(* and no pointer of a ring leads out of it.                               *)
LinkInv ==
  /\ pc \notin {"link", "create", "join", "crash"} => mem = <<>>
  /\ pc = "crash" => DOMAIN mem \subseteq Grid
  /\ pc = "link" => DOMAIN mem = {a \in Grid : a < NextAddr}
  /\ Ready => DOMAIN mem = Grid
  /\ \A k \in Reached : \A a \in DOMAIN mem \cap Ring(k) : mem[a] \in Ring(k)
  /\ \A k \in Reached : Ready \/ k < at.thread => state[k].p \in Ring(k)

RingInv == ArgsInv /\ StateTyped /\ PlaceInv /\ LinkInv

LEMMA RingInit == Init => RingInv
<1> SUFFICES ASSUME Init PROVE RingInv
  OBVIOUS
<1> USE Constants DEF Init
<1>1. ArgsInv
  <2>1. cpus_to_set \in Seq(Nat)
    <3>1. cpus_to_set \in CpuLists \/ cpus_to_set = <<>>
      OBVIOUS
    <3>2. <<>> \in Seq(Nat)
      OBVIOUS
    <3> QED BY <3>1, <3>2
  <2> QED BY <2>1 DEF ArgsInv, Checked, Sized
<1>2. StateTyped
  BY DEF StateTyped, Sized
<1>3. PlaceInv /\ LinkInv
  BY DEF PlaceInv, LinkInv, Reached, Ready
<1> QED BY <1>1, <1>2, <1>3 DEF RingInv

(* What is known where the rings are built and walked. *)
LEMMA Facts ==
  ASSUME RingInv, pc \in Sized
  PROVE  /\ work_size \in Nat \ {0} /\ stride \in Nat \ {0} /\ num_threads \in Nat \ {0}
         /\ Base \in Nat /\ Threads = 0 .. num_threads - 1 /\ Threads \subseteq Tasks
         /\ thread_size \in Nat /\ thread_size % stride = 0
         /\ PtrSize <= stride /\ Base < PageSize
<1>1. /\ work_size \in Nat /\ stride \in Nat \ {0} /\ num_threads \in Nat \ {0}
      /\ work_size >= stride /\ stride >= PtrSize /\ num_threads <= MaxParallelism
  BY Constants DEF RingInv, ArgsInv, Sized, Checked
<1>2. thread_size \in Nat /\ thread_size % stride = 0
  BY <1>1, Shares
<1>3. Base \in 0 .. PageSize - 1
  BY DEF RingInv, StateTyped
<1>4. Threads \subseteq Tasks
  BY <1>1, Constants DEF Threads, Tasks
<1> QED BY <1>1, <1>2, <1>3, <1>4, Constants DEF Threads

(* Where a share begins and ends. *)
LEMMA ShareOf ==
  ASSUME RingInv, pc \in Sized, num_threads = 1 \/ thread_size >= stride,
         NEW k \in Threads
  PROVE  /\ k * thread_size \in Nat /\ (k * thread_size) % stride = 0
         /\ Share(k) \in Nat \ {0}
         /\ k = num_threads - 1 => k * thread_size + Share(k) = work_size
         /\ k # num_threads - 1 =>
              /\ Share(k) = thread_size
              /\ k * thread_size + Share(k) = (k + 1) * thread_size
         /\ k * thread_size + Share(k) <= work_size
<1> DEFINE T == thread_size
<1>0. /\ stride \in Nat \ {0} /\ num_threads \in Nat \ {0} /\ T \in Nat /\ T % stride = 0
      /\ k \in 0 .. num_threads - 1 /\ work_size \in Nat
  BY Facts
<1> HIDE DEF T
<1>1. k * T \in Nat /\ (k * T) % stride = 0
  <2>1. k \in Int /\ T \in Int /\ k * T \in Nat
    BY <1>0
  <2>2. (k * T) % stride = 0
    BY <1>0, <2>1, MultipleOfMultiple, Zenon
  <2> QED BY <2>1, <2>2
<1>2. work_size >= stride
  BY DEF RingInv, ArgsInv
<1>3. /\ lastone_size \in Nat /\ lastone_size > 0
      /\ lastone_size = work_size - (num_threads - 1) * T
  BY <1>0, <1>2, Shares DEF T
<1>4. CASE k = num_threads - 1
  BY <1>0, <1>1, <1>3, <1>4 DEF Share, T
<1>5. CASE k # num_threads - 1
  <2>1. num_threads # 1 /\ k + 1 <= num_threads - 1
    BY <1>0, <1>5
  <2>2. Share(k) = T /\ T > 0
    BY <1>0, <1>5, <2>1 DEF Share, T
  <2>3. k * T + T = (k + 1) * T
    BY <1>0
  <2>4. (k + 1) * T <= (num_threads - 1) * T
    BY <1>0, <2>1, Product
  <2>5. (num_threads - 1) * T \in Int /\ (k + 1) * T \in Int
    BY <1>0
  <2>6. k * T + T <= work_size
    BY <1>0, <1>1, <1>3, <2>3, <2>4, <2>5
  <2> QED BY <1>0, <1>1, <1>5, <2>2, <2>3, <2>6 DEF T
<1> QED BY <1>4, <1>5

(* The shares do not overlap. *)
LEMMA SharesApart ==
  ASSUME RingInv, pc \in Sized, num_threads = 1 \/ thread_size >= stride,
         NEW k \in Threads, NEW m \in Threads, m < k
  PROVE  m * thread_size + Share(m) <= k * thread_size
<1> USE Facts
<1>1. m # num_threads - 1 /\ m + 1 <= k
  OBVIOUS
<1>2. m * thread_size + Share(m) = (m + 1) * thread_size
  BY <1>1, ShareOf
<1>3. (m + 1) * thread_size <= k * thread_size
  BY <1>1, Product
<1> QED BY <1>2, <1>3

LEMMA InGrid ==
  ASSUME RingInv, pc \in Sized
  PROVE  /\ \A a \in Grid : a \in Int /\ a - Base \in 0 .. work_size - 1 /\ (a - Base) % stride = 0
         /\ \A n \in 0 .. work_size - 1 : n % stride = 0 => Base + n \in Grid
<1> USE Facts
<1>1. ASSUME NEW a \in Grid
      PROVE  a \in Int /\ a - Base \in 0 .. work_size - 1 /\ (a - Base) % stride = 0
  <2>1. PICK n \in 0 .. work_size - 1 : n % stride = 0 /\ a = Base + n
    BY DEF Grid, Base
  <2>2. a - Base = n
    BY <2>1
  <2> QED BY <2>1, <2>2
<1>2. ASSUME NEW n \in 0 .. work_size - 1, n % stride = 0 PROVE Base + n \in Grid
  BY <1>2 DEF Grid, Base
<1> QED BY <1>1, <1>2

(* Where the pointer that is stored next goes. *)
LEMMA NextLink ==
  ASSUME RingInv, pc = "link"
  PROVE  /\ at.thread \in Threads /\ at.thread \in Tasks
         /\ NextAddr = Base + (at.thread * thread_size + at.i - stride)
         /\ at.thread * thread_size + at.i - stride \in 0 .. work_size - 1
         /\ (at.thread * thread_size + at.i - stride) % stride = 0
         /\ NextAddr \in Grid
         /\ num_threads = 1 \/ thread_size >= stride
<1> DEFINE k == at.thread
           n == k * thread_size + at.i - stride
<1>0. /\ pc \in Sized /\ stride \in Nat \ {0} /\ Base \in Nat /\ work_size \in Nat
      /\ num_threads = 1 \/ thread_size >= stride
  BY Facts DEF Sized, RingInv, ArgsInv
<1>1. /\ k \in Threads /\ k \in Tasks /\ at.i \in Nat /\ at.i % stride = 0
      /\ at.i >= stride /\ at.i < Share(k) + stride
      /\ state[k].base = Base + k * thread_size
  <2>1. k \in Threads /\ k \in 0 .. k
    BY <1>0, Facts DEF RingInv, PlaceInv
  <2> QED BY <1>0, <2>1, Facts DEF RingInv, PlaceInv, Reached, Threads
<1>2. /\ k * thread_size \in Nat /\ (k * thread_size) % stride = 0
      /\ Share(k) \in Nat /\ k * thread_size + Share(k) <= work_size
  BY <1>0, <1>1, ShareOf
<1>3. NextAddr = Base + n
  BY <1>0, <1>1, <1>2 DEF NextAddr
<1>4. n \in 0 .. work_size - 1
  BY <1>0, <1>1, <1>2
<1>5. n % stride = 0
  <2> DEFINE i0 == at.i - stride
             b0 == k * thread_size
  <2>1. i0 \in Int /\ i0 % stride = 0
    <3>1. at.i \in Int /\ at.i % stride = 0 /\ i0 \in Int
      BY <1>0, <1>1
    <3> QED BY <1>0, <3>1, PreviousMultiple, Zenon
  <2>2. n = b0 + i0 /\ b0 \in Int /\ b0 % stride = 0
    BY <1>0, <1>1, <1>2
  <2> HIDE DEF i0, b0, n
  <2> QED BY <1>0, <2>1, <2>2, SumOfMultiples
<1>6. NextAddr \in Grid
  BY <1>0, <1>3, <1>4, <1>5, InGrid
<1> QED BY <1>0, <1>1, <1>3, <1>4, <1>5, <1>6

(* A thread that walks reads its own ring. *)
LEMMA AtHome ==
  ASSUME RingInv, NEW k \in Tasks, tpc[k] # "none"
  PROVE  /\ Ready /\ k \in Threads
         /\ state[k].p \in Ring(k) /\ mem[state[k].p] \in Ring(k)
<1>1. Ready /\ k \in Threads
  BY DEF RingInv, StateTyped
<1>2. k \in Reached
  BY <1>1 DEF Reached, Ready
<1>3. state[k].p \in Ring(k) /\ Ring(k) \subseteq DOMAIN mem
  BY <1>1, <1>2 DEF RingInv, LinkInv, Ring
<1> QED BY <1>1, <1>2, <1>3 DEF RingInv, LinkInv

LEMMA SetBase ==
  ASSUME NEW S, NEW f \in [S -> [base : Int, tail : Int, p : Int]],
         NEW k, NEW base \in Int
  PROVE  /\ [f EXCEPT ![k].base = base] \in [S -> [base : Int, tail : Int, p : Int]]
         /\ \A m \in S :
              /\ m = k => [f EXCEPT ![k].base = base][m].base = base
              /\ m # k => [f EXCEPT ![k].base = base][m].base = f[m].base
              /\ [f EXCEPT ![k].base = base][m].p = f[m].p
OBVIOUS

(* What becomes of the threads when a ring is closed. *)
LEMMA Closed ==
  ASSUME RingInv, CloseRing
  PROVE  LET k == at.thread IN
         /\ state' \in [Tasks -> [base : Int, tail : Int, p : Int]]
         /\ at' \in [thread : Int, i : Nat]
         /\ Base' = Base
         /\ \A m \in Threads : m <= k => state'[m].base = state[m].base
         /\ state'[k].p = state[k].base
         /\ \A m \in Threads : m # k => state'[m].p = state[m].p
         /\ k + 1 \in Threads =>
              /\ state'[k + 1].base = NextAddr + stride
              /\ at' = [thread |-> k + 1, i |-> stride] /\ pc' = "link"
         /\ k + 1 \notin Threads => pc' = "create" /\ UNCHANGED at
<1> DEFINE k == at.thread
           closed == [state EXCEPT ![k].tail = NextAddr, ![k].p = state[k].base]
<1>1. pc = "link" /\ pc \in Sized
  BY DEF CloseRing, Sized
<1>2. /\ stride \in Nat /\ k \in Threads /\ Threads \subseteq Tasks /\ k \in Nat
      /\ state \in [Tasks -> [base : Int, tail : Int, p : Int]]
      /\ at \in [thread : Int, i : Nat] /\ 0 \in Tasks /\ k + 1 \in Int
  <2>1. stride \in Nat /\ Threads \subseteq Tasks /\ num_threads \in Nat
    BY <1>1, Facts
  <2>2. k \in Threads /\ k \in Nat
    BY <1>1, <2>1, NextLink DEF Threads
  <2>3. 0 \in Tasks
    BY Constants DEF Tasks
  <2> QED BY <2>1, <2>2, <2>3 DEF RingInv, StateTyped
<1>3. NextAddr \in Int /\ state[k].base \in Int
  BY <1>2 DEF NextAddr
<1>4. /\ closed \in [Tasks -> [base : Int, tail : Int, p : Int]]
      /\ \A m \in Tasks : closed[m].base = state[m].base
      /\ \A m \in Tasks : m # k => closed[m].p = state[m].p
      /\ closed[k].p = state[k].base
  <2> DEFINE tail == NextAddr
             p == state[k].base
  <2>1. tail \in Int /\ p \in Int /\ k \in Tasks
    BY <1>2, <1>3
  <2>2. closed = [state EXCEPT ![k].tail = tail, ![k].p = p]
    OBVIOUS
  <2> HIDE DEF closed, tail, p, k
  <2> QED BY <1>2, <2>1, <2>2 DEF k, p
<1> HIDE DEF closed
<1>5. CASE k + 1 \in Threads
  <2> DEFINE next == NextAddr + stride
  <2>1. /\ state' = [closed EXCEPT ![k + 1].base = next]
        /\ at' = [thread |-> k + 1, i |-> stride] /\ pc' = "link"
    BY <1>1, <1>5 DEF CloseRing, NextBase, NextAddr, closed
  <2>2. next \in Int /\ k + 1 # 0 /\ k + 1 # k /\ k + 1 \in Tasks
    BY <1>2, <1>3, <1>5
  <2> HIDE DEF next, k
  <2>3. /\ state' \in [Tasks -> [base : Int, tail : Int, p : Int]]
        /\ \A m \in Tasks : /\ m = k + 1 => state'[m].base = next
                            /\ m # k + 1 => state'[m].base = closed[m].base
                            /\ state'[m].p = closed[m].p
    BY <1>4, <2>1, <2>2, SetBase
  <2>4. Base' = Base
    BY <1>2, <1>4, <2>2, <2>3 DEF Base
  <2>5. ASSUME NEW m \in Threads, m <= k PROVE state'[m].base = state[m].base
    <3>1. m # k + 1 /\ m \in Tasks
      BY <1>2, <2>5 DEF Threads
    <3> QED BY <1>4, <2>3, <3>1
  <2>6. state'[k].p = state[k].base /\ \A m \in Threads : m # k => state'[m].p = state[m].p
    BY <1>2, <1>4, <2>3
  <2>7. at' \in [thread : Int, i : Nat]
    BY <1>2, <2>1
  <2> QED BY <1>5, <2>1, <2>2, <2>3, <2>4, <2>5, <2>6, <2>7 DEF k, next
<1>6. CASE k + 1 \notin Threads
  <2>1. state' = closed /\ pc' = "create" /\ UNCHANGED at
    BY <1>6 DEF CloseRing, NextAddr, closed
  <2>2. Base' = Base
    BY <1>2, <1>4, <2>1 DEF Base
  <2> QED BY <1>2, <1>4, <1>6, <2>1, <2>2
<1> QED BY <1>5, <1>6

LEMMA StateStep ==
  ASSUME RingInv, [Next]_vars
  PROVE  StateTyped'
<1> USE Constants DEF RingInv, StateTyped, Sized, Ready, Threads
<1>1. CASE UNCHANGED <<pc, args, at, state, tpc>>
  BY <1>1 DEF Base, args
<1>2. CASE CheckArgs
  BY <1>2 DEF CheckArgs, Goto
<1>3. CASE ExtractCpus
  BY <1>3 DEF ExtractCpus, Goto
<1>4. CASE BaseInitialize
  <2>1. pc = "base" /\ UNCHANGED <<tpc, args, at>> /\ pc' \notin {"create", "join", "link", "crash"}
    BY <1>4 DEF BaseInitialize, Goto
  <2>2. CASE UNCHANGED state /\ pc' # "split"
    BY <2>1, <2>2
  <2>3. CASE \E base \in 0 .. PageSize - 1 : state' = [state EXCEPT ![0].base = base]
    <3>1. 0 \in Tasks
      BY DEF Tasks
    <3>2. PICK base \in 0 .. PageSize - 1 : state' = [state EXCEPT ![0].base = base]
      BY <2>3
    <3>3. state' \in [Tasks -> [base : Int, tail : Int, p : Int]]
      <4>1. base \in Int /\ state \in [Tasks -> [base : Int, tail : Int, p : Int]]
        BY <3>2
      <4> QED BY <3>2, <4>1, SetBase
    <3>4. Base' = base
      BY <3>1, <3>2 DEF Base
    <3> QED BY <2>1, <3>2, <3>3, <3>4
  <2> QED BY <1>4, <2>2, <2>3 DEF BaseInitialize, Goto
<1>5. CASE Split
  <2>1. stride \in Nat
    BY DEF ArgsInv
  <2> QED BY <1>5, <2>1 DEF Split, args, Base
<1>6. CASE StoreLink
  <2>1. stride \in Nat
    BY DEF ArgsInv
  <2>2. at' = [at EXCEPT !.i = @ + stride] /\ UNCHANGED <<pc, args, state, tpc>>
    BY <1>6 DEF StoreLink
  <2>3. at' \in [thread : Int, i : Nat]
    <3>1. at \in [thread : Int, i : Nat] /\ at.i + stride \in Nat
      BY <2>1
    <3>2. at' = [at EXCEPT !.i = at.i + stride]
      BY <2>2
    <3> QED BY <3>1, <3>2, Zenon
  <2> QED BY <2>2, <2>3 DEF args, Base
<1>7. CASE CloseRing
  <2>1. pc = "link" /\ pc' \in {"link", "create"} /\ UNCHANGED <<args, tpc>>
    BY <1>7 DEF CloseRing
  <2> QED BY <1>7, <2>1, Closed DEF args
<1>8. CASE CreateThread
  <2>1. PICK k \in Threads :
          /\ tpc' = [tpc EXCEPT ![k] = "start"] /\ pc' \in {"create", "join"}
          /\ pc = "create" /\ UNCHANGED <<args, at, state>>
    BY <1>8 DEF CreateThread
  <2> QED BY <2>1 DEF Base, args
<1>9. ASSUME NEW k \in Tasks, SetAffinity(k) PROVE StateTyped'
  BY <1>9 DEF SetAffinity, Base, args
<1>10. ASSUME NEW k \in Tasks, Walk(k) PROVE StateTyped'
  <2>1. Ready /\ mem[state[k].p] \in Ring(k)
    BY <1>10, AtHome DEF Walk
  <2>2. mem[state[k].p] \in Int
    BY <2>1, InGrid DEF Ring
  <2>3. 0 \in Tasks
    BY DEF Tasks
  <2> QED BY <1>10, <2>2, <2>3 DEF Walk, Base, args
<1>11. CASE Crash
  BY <1>11 DEF Crash, Base, args
<1> QED
  BY <1>1, <1>2, <1>3, <1>4, <1>5, <1>6, <1>7, <1>8, <1>9, <1>10, <1>11
  DEF Next, Loads, Terminated, vars

-----------------------------------------------------------------------------
(* The steps of stride_initialize() *)

Linking == {"link", "create", "join"}

(* A share that is not the last is full when a pointer is at its end. *)
LEMMA AtTheEnd ==
  ASSUME RingInv, pc = "link", at.i >= Share(at.thread), at.thread + 1 \in Threads
  PROVE  /\ at.i = thread_size
         /\ NextAddr + stride = Base + (at.thread + 1) * thread_size
<1> DEFINE k == at.thread
<1>1. /\ pc \in Sized /\ k \in Threads /\ k \in Nat
      /\ num_threads = 1 \/ thread_size >= stride
      /\ stride \in Nat \ {0} /\ thread_size \in Nat /\ thread_size % stride = 0
      /\ Base \in Nat /\ k # num_threads - 1
  BY NextLink, Facts DEF Sized, Threads
<1>2. /\ Share(k) = thread_size /\ k * thread_size + thread_size = (k + 1) * thread_size
      /\ k * thread_size \in Nat
  BY <1>1, ShareOf
<1>3. at.i \in Nat /\ at.i % stride = 0 /\ at.i < thread_size + stride /\ at.i >= thread_size
  BY <1>2 DEF RingInv, PlaceInv
<1>4. at.i = thread_size
  BY <1>1, <1>3, MultiplesApart
<1>5. NextAddr = Base + (k * thread_size + at.i - stride)
  BY NextLink
<1> QED BY <1>1, <1>2, <1>4, <1>5

LEMMA PlaceStep ==
  ASSUME RingInv, [Next]_vars
  PROVE  PlaceInv'
<1> USE Constants DEF RingInv
<1>1. ASSUME UNCHANGED args PROVE UNCHANGED <<Threads, thread_size>> /\ \A k : UNCHANGED Share(k)
  BY <1>1 DEF args, Threads, thread_size, lastone_size, Share
<1>2. CASE pc' \notin Linking
  BY <1>2 DEF PlaceInv, Reached, Ready, Linking
<1>3. CASE UNCHANGED <<pc, args, at>> /\ \A k \in Tasks : state'[k].base = state[k].base
  <2>1. 0 \in Tasks
    BY DEF Tasks
  <2>2. pc \in Linking => Threads \subseteq Tasks
    BY Facts DEF Linking, Sized
  <2>3. UNCHANGED Reached
    BY <1>1, <1>3 DEF Reached, Ready
  <2>4. \A k \in Reached : k \in Tasks
    BY <2>2 DEF PlaceInv, Reached, Ready, Linking
  <2> QED BY <1>1, <1>3, <2>1, <2>3, <2>4 DEF PlaceInv, Base, args
<1>4. CASE CheckArgs \/ ExtractCpus \/ BaseInitialize
  BY <1>2, <1>4 DEF CheckArgs, ExtractCpus, BaseInitialize, Goto, Linking
<1>5. CASE Split /\ pc' = "link"
  <2>1. /\ pc \in Sized /\ UNCHANGED args /\ UNCHANGED state
        /\ at' = [thread |-> 0, i |-> stride]
        /\ ~(num_threads > 1 /\ thread_size < stride)
    BY <1>5 DEF Split, Sized
  <2>2. /\ stride \in Nat \ {0} /\ num_threads \in Nat \ {0} /\ thread_size \in Nat
        /\ 0 \in Threads /\ Base \in Nat
    BY <2>1, Facts
  <2>3. num_threads = 1 \/ thread_size >= stride
    BY <2>1, <2>2
  <2>4. Share(0) \in Nat \ {0}
    BY <2>1, <2>2, <2>3, ShareOf
  <2>5. stride % stride = 0
    BY <2>2
  <2>6. Reached' = {0}
    BY <1>5, <2>1 DEF Reached
  <2>7. UNCHANGED <<Threads, thread_size, Base, stride>> /\ Share(0)' = Share(0)
    BY <1>1, <2>1 DEF Base, args
  <2> QED BY <1>5, <2>1, <2>2, <2>4, <2>5, <2>6, <2>7 DEF PlaceInv, Base
<1>6. CASE StoreLink
  <2>1. /\ pc = "link" /\ pc \in Sized /\ UNCHANGED <<pc, args, state>>
        /\ at.i < Share(at.thread) /\ at' = [at EXCEPT !.i = @ + stride]
    BY <1>6 DEF StoreLink, Sized
  <2>2. at \in [thread : Int, i : Nat] /\ stride \in Nat \ {0}
    BY <2>1, Facts DEF StateTyped
  <2>3. at'.thread = at.thread /\ at'.i = at.i + stride
    BY <2>1, <2>2
  <2>4. (at.i + stride) % stride = 0
    BY <2>1, <2>2, NextMultiple DEF PlaceInv
  <2>5. at.thread \in Threads /\ Share(at.thread) \in Nat
    BY <2>1, NextLink, ShareOf
  <2>6. UNCHANGED <<Reached, Base, Threads, thread_size, stride>>
        /\ Share(at.thread)' = Share(at.thread)
    BY <1>1, <2>1, <2>3 DEF Reached, Base, Ready, args
  <2> QED BY <2>1, <2>2, <2>3, <2>4, <2>5, <2>6 DEF PlaceInv
<1>7. CASE CloseRing
  <2> DEFINE k == at.thread
  <2>1. pc = "link" /\ pc \in Sized /\ UNCHANGED args /\ at.i >= Share(k)
    BY <1>7 DEF CloseRing, Sized
  <2>2. /\ k \in Threads /\ k \in Nat /\ Threads = 0 .. num_threads - 1
        /\ num_threads \in Nat \ {0} /\ stride \in Nat \ {0}
        /\ num_threads = 1 \/ thread_size >= stride
    BY <2>1, NextLink, Facts DEF Threads
  <2>3. \A m \in 0 .. k : m \in Threads /\ state[m].base = Base + m * thread_size
    BY <2>1 DEF PlaceInv, Reached
  <2>4. /\ Base' = Base /\ UNCHANGED <<Threads, thread_size, stride>>
        /\ \A m : Share(m)' = Share(m)
        /\ \A m \in Threads : m <= k => state'[m].base = state[m].base
    BY <1>1, <1>7, <2>1, Closed DEF args
  <2>5. \A m \in 0 .. k : m \in Threads' /\ state'[m].base = Base' + m * thread_size'
    BY <2>2, <2>3, <2>4
  <2>6. CASE k + 1 \in Threads
    <3>1. /\ state'[k + 1].base = NextAddr + stride
          /\ at' = [thread |-> k + 1, i |-> stride] /\ pc' = "link"
      BY <1>7, <2>6, Closed
    <3>2. state'[k + 1].base = Base' + (k + 1) * thread_size'
      BY <2>1, <2>4, <2>6, <3>1, AtTheEnd
    <3>3. Reached' = 0 .. k + 1
      BY <3>1 DEF Reached
    <3>4. \A m \in Reached' : m \in Threads' /\ state'[m].base = Base' + m * thread_size'
      BY <2>2, <2>4, <2>5, <2>6, <3>2, <3>3
    <3>5. Share(k + 1) \in Nat \ {0} /\ stride % stride = 0
      BY <2>1, <2>2, <2>6, ShareOf
    <3> QED BY <2>2, <2>4, <2>6, <3>1, <3>4, <3>5 DEF PlaceInv
  <2>7. CASE k + 1 \notin Threads
    <3>1. pc' = "create"
      BY <1>7, <2>7, Closed
    <3>2. Threads = 0 .. k
      BY <2>2, <2>7
    <3>3. Reached' = Threads
      BY <2>4, <3>1 DEF Reached, Ready
    <3> QED BY <2>5, <3>1, <3>2, <3>3 DEF PlaceInv
  <2> QED BY <2>6, <2>7
<1>8. CASE CreateThread
  <2>1. pc = "create" /\ pc' \in {"create", "join"} /\ UNCHANGED <<args, at, state>>
    BY <1>8 DEF CreateThread
  <2>2. Reached' = Reached
    BY <1>1, <2>1 DEF Reached, Ready
  <2> QED BY <1>1, <2>1, <2>2 DEF PlaceInv, Base
<1>9. ASSUME NEW k \in Tasks, SetAffinity(k) \/ Walk(k) PROVE PlaceInv'
  <2>1. CASE SetAffinity(k)
    BY <1>3, <2>1 DEF SetAffinity
  <2>2. CASE Walk(k)
    <3> DEFINE p == mem[state[k].p]
    <3>1. UNCHANGED <<pc, args, at>> /\ state' = [state EXCEPT ![k].p = p]
      BY <2>2 DEF Walk
    <3> HIDE DEF p
    <3>2. state \in [Tasks -> [base : Int, tail : Int, p : Int]]
      BY DEF StateTyped
    <3>3. \A m \in Tasks : state'[m].base = state[m].base
      BY <3>1, <3>2
    <3> QED BY <1>3, <3>1, <3>3
  <2> QED BY <1>9, <2>1, <2>2
<1>10. CASE UNCHANGED vars
  BY <1>3, <1>10 DEF vars
<1> QED
  BY <1>2, <1>4, <1>5, <1>6, <1>7, <1>8, <1>9, <1>10
  DEF Next, Loads, Terminated, Split, Crash, Linking

(* Whose ring an address is in does not change once its base is known. *)
LEMMA SameRings ==
  ASSUME UNCHANGED args, Base' = Base
  PROVE  /\ Grid' = Grid /\ Threads' = Threads
         /\ \A k : state'[k].base = state[k].base => Ring(k)' = Ring(k)
<1>1. Grid' = Grid /\ Threads' = Threads
  BY DEF Grid, Base, args, Threads
<1>2. ASSUME NEW k PROVE Share(k)' = Share(k)
  BY DEF Share, args, thread_size, lastone_size
<1> QED BY <1>1, <1>2 DEF Ring

(* An address below the base of a ring is not in it, nor one of a ring     *)
(* after it.                                                               *)
LEMMA RingsApart ==
  ASSUME RingInv, pc = "link", NEW k \in Reached, NextAddr \in Ring(k)
  PROVE  k = at.thread
<1> DEFINE m == at.thread
<1>1. /\ pc \in Sized /\ m \in Threads /\ m \in Nat /\ k \in Threads /\ k \in 0 .. m
      /\ num_threads = 1 \/ thread_size >= stride
      /\ stride \in Nat \ {0} /\ Base \in Nat /\ thread_size \in Nat
  BY NextLink, Facts DEF Sized, Threads, Reached
<1>2. SUFFICES ASSUME k < m PROVE FALSE
  BY <1>1
<1>3. k * thread_size + Share(k) <= m * thread_size
  BY <1>1, <1>2, SharesApart
<1>4. /\ k * thread_size \in Nat /\ Share(k) \in Nat /\ m * thread_size \in Nat
  BY <1>1, ShareOf
<1>5. state[k].base = Base + k * thread_size /\ at.i \in Nat /\ at.i >= stride
  BY DEF RingInv, PlaceInv
<1>6. NextAddr < state[k].base + Share(k)
  BY DEF Ring
<1>7. NextAddr = Base + (m * thread_size + at.i - stride)
  BY NextLink
<1> QED BY <1>1, <1>3, <1>4, <1>5, <1>6, <1>7

(* The grid up to the pointer that is stored. *)
LEMMA GridUpTo ==
  ASSUME RingInv, pc = "link"
  PROVE  {a \in Grid : a < NextAddr} \cup {NextAddr} = {a \in Grid : a < NextAddr + stride}
<1>1. /\ pc \in Sized /\ NextAddr \in Grid /\ stride \in Nat \ {0} /\ Base \in Nat
  BY NextLink, Facts DEF Sized
<1>2. ASSUME NEW a \in Grid, NextAddr < a PROVE NextAddr + stride <= a
  <2> DEFINE x == NextAddr - Base
             y == a - Base
  <2>1. /\ a \in Int /\ NextAddr \in Int /\ x \in Int /\ y \in Int
        /\ x % stride = 0 /\ y % stride = 0
    BY <1>1, InGrid
  <2>2. x < y
    BY <1>1, <1>2, <2>1
  <2>3. x + stride <= y
    <3> HIDE DEF x, y
    <3> QED BY <1>1, <2>1, <2>2, MultiplesApart
  <2> QED BY <1>1, <2>1, <2>3
<1>3. \A a \in Grid : a \in Int
  BY <1>1, InGrid
<1> QED BY <1>1, <1>2, <1>3

(* The base of a ring is in it. *)
LEMMA BaseIsInRing ==
  ASSUME RingInv, pc = "link", NEW k \in Reached
  PROVE  state[k].base \in Ring(k)
<1> DEFINE n == k * thread_size
<1>1. pc \in Sized /\ (num_threads = 1 \/ thread_size >= stride)
  BY NextLink DEF Sized
<1>2. k \in Threads /\ state[k].base = Base + n
  BY DEF RingInv, PlaceInv
<1>3. work_size \in Nat /\ Base \in Nat
  BY <1>1, Facts
<1>4. n \in Nat /\ n % stride = 0 /\ Share(k) \in Nat \ {0} /\ n + Share(k) <= work_size
  BY <1>1, <1>2, ShareOf
<1> HIDE DEF n
<1>5. n \in 0 .. work_size - 1
  BY <1>3, <1>4
<1>6. state[k].base \in Grid
  BY <1>1, <1>2, <1>4, <1>5, InGrid
<1> QED BY <1>2, <1>3, <1>4, <1>6 DEF Ring

LEMMA LinkStep ==
  ASSUME RingInv, [Next]_vars
  PROVE  LinkInv'
<1> USE Constants DEF RingInv
<1>1. CASE UNCHANGED <<pc, args, mem, at, state>>
  <2>1. UNCHANGED Reached /\ (Ready' = Ready) /\ (pc = "link" => UNCHANGED NextAddr)
    BY <1>1 DEF Reached, Ready, Threads, args, NextAddr
  <2>2. UNCHANGED Grid /\ \A k : UNCHANGED Ring(k)
    BY <1>1, SameRings DEF Base
  <2> QED BY <1>1, <2>1, <2>2 DEF LinkInv
<1>2. CASE CheckArgs \/ ExtractCpus \/ BaseInitialize
  <2>1. /\ pc' \notin Linking \cup {"crash"} /\ pc \notin Linking \cup {"crash"}
        /\ UNCHANGED mem
    BY <1>2 DEF CheckArgs, ExtractCpus, BaseInitialize, Goto, Linking
  <2> QED BY <2>1 DEF LinkInv, Linking, Reached, Ready
<1>3. CASE Split
  <2>1. /\ pc = "split" /\ pc \in Sized /\ mem' = <<>> /\ UNCHANGED <<args, state>>
        /\ pc' \in {"link", "exit"} /\ at' = [thread |-> 0, i |-> stride]
    BY <1>3 DEF Split, LinkInv, Sized
  <2>2. CASE pc' = "exit"
    BY <2>1, <2>2 DEF LinkInv, Reached, Ready
  <2>3. CASE pc' = "link"
    <3>1. /\ Grid' = Grid /\ stride \in Nat /\ Base \in Nat /\ 0 \in Tasks
          /\ \A a \in Grid : a \in Int /\ a >= Base
      BY <2>1, SameRings, Facts, InGrid DEF Base, Tasks
    <3>2. NextAddr' = Base
      BY <2>1, <3>1 DEF NextAddr, Base, args
    <3>3. DOMAIN mem' = {}
      BY <2>1
    <3>4. {a \in Grid' : a < NextAddr'} = {}
      BY <3>1, <3>2
    <3>5. Reached' = {0}
      BY <2>1, <2>3 DEF Reached
    <3> QED BY <2>1, <2>3, <3>3, <3>4, <3>5 DEF LinkInv, Ready
  <2> QED BY <2>1, <2>2, <2>3
<1>4. CASE StoreLink
  <2> DEFINE k == at.thread
  <2>1. /\ pc = "link" /\ pc \in Sized /\ UNCHANGED <<pc, args, state>>
        /\ at.i < Share(k) /\ at' = [at EXCEPT !.i = @ + stride]
        /\ Store(NextAddr, NextAddr + stride)
    BY <1>4 DEF StoreLink, Sized, NextAddr
  <2>2. /\ at \in [thread : Int, i : Nat] /\ stride \in Nat \ {0} /\ Base \in Nat
        /\ NextAddr \in Int /\ NextAddr \in Grid /\ k \in Threads /\ k \in Nat
    <3>1. stride \in Nat \ {0} /\ Base \in Nat /\ num_threads \in Nat
      BY <2>1, Facts
    <3>2. NextAddr \in Grid /\ k \in Threads
      BY <2>1, NextLink
    <3>3. NextAddr \in Int
      BY <2>1, <3>2, InGrid
    <3>4. k \in Nat
      BY <3>1, <3>2 DEF Threads
    <3> QED BY <3>1, <3>2, <3>3, <3>4 DEF StateTyped
  <2>3. at'.thread = k /\ at'.i = at.i + stride
    BY <2>1, <2>2
  <2>4. NextAddr' = NextAddr + stride
    <3>1. state[k].base = Base + k * thread_size /\ k * thread_size \in Int
      <4>1. k \in Reached /\ thread_size \in Nat
        BY <2>1, <2>2, Facts DEF Reached
      <4> QED BY <2>2, <4>1 DEF PlaceInv
    <3>2. state[k].base \in Int
      BY <2>2, <3>1
    <3> QED BY <2>1, <2>2, <2>3, <3>2 DEF NextAddr, args
  <2>5. /\ DOMAIN mem' = DOMAIN mem \cup {NextAddr}
        /\ \A a \in DOMAIN mem' : mem'[a] = IF a = NextAddr THEN NextAddr + stride ELSE mem[a]
    BY <2>1 DEF Store
  <2>6. /\ Reached' = Reached /\ Grid' = Grid /\ ~Ready /\ ~Ready'
        /\ \A m : Ring(m)' = Ring(m)
    BY <2>1, <2>3, SameRings DEF Reached, Ready, Base
  <2>7. DOMAIN mem' = {a \in Grid' : a < NextAddr'}
    BY <2>1, <2>4, <2>5, <2>6, GridUpTo DEF LinkInv
  <2>8. NextAddr + stride \in Ring(k)
    <3> DEFINE b == k * thread_size
               n == b + at.i
    <3>1. /\ NextAddr = Base + (n - stride) /\ (n - stride) % stride = 0
          /\ num_threads = 1 \/ thread_size >= stride
      <4>1. b \in Int /\ at.i \in Int /\ stride \in Int
        BY <2>1, <2>2, Facts
      <4>2. n - stride = b + at.i - stride
        BY <4>1
      <4> QED BY <2>1, <4>2, NextLink
    <3>2. /\ b \in Nat /\ Share(k) \in Nat /\ b + Share(k) <= work_size
          /\ work_size \in Nat
      BY <2>1, <2>2, <3>1, ShareOf, Facts
    <3>3. state[k].base = Base + b
      BY <2>1, <2>2 DEF PlaceInv, Reached
    <3> HIDE DEF b
    <3>4. n \in 0 .. work_size - 1 /\ n - stride \in Int
      <4>1. at.i \in Nat /\ at.i < Share(k) /\ stride \in Nat
        BY <2>1, <2>2
      <4> HIDE DEF RingInv, k
      <4> QED BY <3>2, <4>1
    <3>5. NextAddr + stride = Base + n /\ NextAddr + stride = state[k].base + at.i
      BY <2>2, <3>1, <3>2, <3>3
    <3>6. n % stride = 0
      <4>1. (n - stride) + stride = n
        BY <2>2, <3>4
      <4> HIDE DEF n
      <4> QED BY <2>2, <3>1, <3>4, <4>1, NextMultiple
    <3>7. NextAddr + stride \in Grid
      BY <2>1, <3>4, <3>5, <3>6, InGrid
    <3>8. state[k].base + at.i >= state[k].base /\ state[k].base + at.i < state[k].base + Share(k)
      BY <2>1, <2>2, <3>2, <3>3
    <3> QED BY <3>5, <3>7, <3>8 DEF Ring
  <2>9. ASSUME NEW m \in Reached, NEW a \in DOMAIN mem' \cap Ring(m) PROVE mem'[a] \in Ring(m)
    <3>1. CASE a = NextAddr
      BY <2>1, <2>5, <2>8, <2>9, <3>1, RingsApart
    <3>2. CASE a # NextAddr
      BY <2>5, <2>9, <3>2 DEF LinkInv
    <3> QED BY <3>1, <3>2
  <2> QED BY <2>1, <2>3, <2>6, <2>7, <2>9 DEF LinkInv
<1>5. CASE CloseRing
  <2> DEFINE k == at.thread
  <2>1. /\ pc = "link" /\ pc \in Sized /\ UNCHANGED args /\ at.i >= Share(k)
        /\ Store(NextAddr, state[k].base)
    BY <1>5 DEF CloseRing, Sized, NextAddr, RingHead
  <2>2. /\ k \in Threads /\ k \in Nat /\ Threads = 0 .. num_threads - 1
        /\ num_threads \in Nat \ {0} /\ stride \in Nat \ {0}
        /\ num_threads = 1 \/ thread_size >= stride
        /\ \A a \in Grid : a \in Int
    BY <2>1, NextLink, Facts, InGrid DEF Threads
  <2>3. NextAddr \in Grid /\ NextAddr \in Int
    BY <2>1, <2>2, NextLink
  <2>4. Reached = 0 .. k /\ Reached \subseteq Threads
    BY <2>1 DEF Reached, PlaceInv
  <2>5. /\ Base' = Base /\ Grid' = Grid /\ Threads' = Threads /\ stride' = stride
        /\ \A m \in Reached : Ring(m)' = Ring(m)
    <3>1. Base' = Base /\ \A m \in Threads : m <= k => state'[m].base = state[m].base
      BY <1>5, Closed
    <3>2. \A m \in Reached : m \in Threads /\ m <= k
      BY <2>2, <2>4
    <3> QED BY <2>1, <3>1, <3>2, SameRings DEF args
  <2>6. /\ DOMAIN mem' = DOMAIN mem \cup {NextAddr}
        /\ \A a \in DOMAIN mem' : mem'[a] = IF a = NextAddr THEN state[k].base ELSE mem[a]
    BY <2>1 DEF Store
  <2>7. DOMAIN mem' = {a \in Grid : a < NextAddr + stride}
    BY <2>1, <2>6, GridUpTo DEF LinkInv
  <2>8. state[k].base \in Ring(k)
    BY <2>1, <2>2, <2>4, BaseIsInRing
  <2>9. \A m \in Reached : \A a \in DOMAIN mem' \cap Ring(m) : mem'[a] \in Ring(m)
    <3>1. SUFFICES ASSUME NEW m \in Reached, NEW a \in DOMAIN mem' \cap Ring(m)
                   PROVE  mem'[a] \in Ring(m)
      OBVIOUS
    <3>2. CASE a = NextAddr
      <4>1. m = k
        BY <2>1, <3>2, RingsApart
      <4> QED BY <2>6, <2>8, <3>2, <4>1
    <3>3. CASE a # NextAddr
      BY <2>6, <3>3 DEF LinkInv
    <3> QED BY <3>2, <3>3
  <2>10. \A m \in Reached : state'[m].p \in Ring(m)
    <3>1. SUFFICES ASSUME NEW m \in Reached PROVE state'[m].p \in Ring(m)
      OBVIOUS
    <3>2. CASE m = k
      BY <1>5, <2>8, <3>2, Closed
    <3>3. CASE m # k
      <4>1. m < k /\ m \in Threads
        BY <2>2, <2>4, <3>3
      <4>2. state'[m].p = state[m].p
        BY <1>5, <3>3, <4>1, Closed
      <4> QED BY <4>1, <4>2 DEF LinkInv
    <3> QED BY <3>2, <3>3
  <2>11. CASE k + 1 \in Threads
    <3>1. /\ state'[k + 1].base = NextAddr + stride
          /\ at' = [thread |-> k + 1, i |-> stride] /\ pc' = "link"
      BY <1>5, <2>11, Closed
    <3>2. NextAddr' = NextAddr + stride
      BY <2>2, <2>3, <2>5, <3>1 DEF NextAddr
    <3> PICK next : next = k + 1
      OBVIOUS
    <3>3. Reached' = Reached \cup {next} /\ ~Ready'
      BY <2>2, <2>4, <3>1 DEF Reached, Ready
    <3>4. DOMAIN mem' \cap Ring(next)' = {}
      <4>1. \A a \in Ring(next)' : a >= NextAddr + stride
        BY <3>1 DEF Ring
      <4>2. \A a \in DOMAIN mem' : a \in Int /\ a < NextAddr + stride
        BY <2>2, <2>7
      <4> QED BY <2>2, <2>3, <4>1, <4>2
    <3>5. \A m \in Reached' : \A a \in DOMAIN mem' \cap Ring(m)' : mem'[a] \in Ring(m)'
      BY <2>5, <2>9, <3>3, <3>4
    <3>6. \A m \in Reached' : m < at'.thread => m \in Reached
      BY <2>2, <2>4, <3>1, <3>3
    <3> QED BY <2>5, <2>7, <2>10, <3>1, <3>2, <3>3, <3>5, <3>6 DEF LinkInv
  <2>12. CASE k + 1 \notin Threads
    <3>1. pc' = "create"
      BY <1>5, <2>12, Closed
    <3>2. Reached' = Reached
      BY <2>2, <2>4, <2>5, <2>12, <3>1 DEF Reached, Ready
    <3>3. DOMAIN mem' = Grid
      <4>1. ASSUME NEW a \in Grid PROVE a < NextAddr + stride
        <5> DEFINE n == k * thread_size
        <5>1. k = num_threads - 1 /\ Base \in Nat /\ at.i \in Nat
          BY <2>1, <2>2, <2>12, Facts DEF PlaceInv
        <5>2. n \in Nat /\ n + Share(k) = work_size /\ Share(k) \in Nat
          BY <2>1, <2>2, <5>1, ShareOf
        <5>3. NextAddr = Base + (n + at.i - stride)
          BY <2>1, NextLink
        <5>4. a \in Int /\ a - Base \in 0 .. work_size - 1
          BY <2>1, InGrid
        <5> HIDE DEF n
        <5> QED BY <2>1, <2>2, <5>1, <5>2, <5>3, <5>4
      <4> QED BY <2>7, <4>1
    <3> QED BY <2>5, <2>9, <2>10, <3>1, <3>2, <3>3 DEF LinkInv
  <2> QED BY <2>11, <2>12
<1>6. CASE CreateThread
  <2>1. /\ pc = "create" /\ pc' \in {"create", "join"}
        /\ UNCHANGED <<args, mem, at, state>>
    BY <1>6 DEF CreateThread
  <2>2. Ready /\ Ready' /\ Reached' = Reached
    BY <2>1 DEF Ready, Reached, args, Threads
  <2>3. UNCHANGED Grid /\ \A k : UNCHANGED Ring(k)
    BY <2>1, SameRings DEF Base
  <2> QED BY <2>1, <2>2, <2>3 DEF LinkInv
<1>7. ASSUME NEW k \in Tasks, SetAffinity(k) PROVE LinkInv'
  BY <1>1, <1>7 DEF SetAffinity
<1>8. ASSUME NEW k \in Tasks, Walk(k) PROVE LinkInv'
  <2> DEFINE p == mem[state[k].p]
  <2>1. Ready /\ k \in Threads /\ p \in Ring(k) /\ tpc[k] = "walk"
    BY <1>8, AtHome DEF Walk
  <2>2. UNCHANGED <<pc, args, mem, at>> /\ state' = [state EXCEPT ![k].p = p]
    BY <1>8 DEF Walk
  <2> HIDE DEF p
  <2>3. state \in [Tasks -> [base : Int, tail : Int, p : Int]]
    BY DEF StateTyped
  <2>4. /\ \A m \in Tasks : state'[m].base = state[m].base
        /\ \A m \in Tasks : m # k => state'[m].p = state[m].p
        /\ state'[k].p = p
    BY <2>2, <2>3
  <2>5. Reached' = Reached /\ Reached \subseteq Tasks /\ Ready'
    BY <2>1, <2>2, Facts DEF Reached, Ready, Sized, Threads, args
  <2>6. Grid' = Grid /\ \A m \in Tasks : Ring(m)' = Ring(m)
    <3>1. 0 \in Tasks
      BY DEF Tasks
    <3> QED BY <2>2, <2>4, <3>1, SameRings DEF Base
  <2> QED BY <2>1, <2>2, <2>4, <2>5, <2>6 DEF LinkInv, Ready
<1>9. CASE UNCHANGED vars
  BY <1>1, <1>9 DEF vars
<1>10. CASE Crash
  <2>1. /\ pc \in {"link", "create"} /\ pc' = "crash" /\ mem' = mem
        /\ UNCHANGED args /\ Base' = Base
    BY <1>10 DEF Crash, Base
  <2>2. DOMAIN mem \subseteq Grid /\ Grid' = Grid
    BY <2>1, SameRings DEF LinkInv, Ready
  <2> QED BY <2>1, <2>2 DEF LinkInv, Reached, Ready
<1> QED
  BY <1>2, <1>3, <1>4, <1>5, <1>6, <1>7, <1>8, <1>9, <1>10 DEF Next, Loads, Terminated

LEMMA RingInvAlways == Spec => []RingInv
<1>1. RingInv /\ [Next]_vars => RingInv'
  BY ArgsStep, StateStep, PlaceStep, LinkStep DEF RingInv
<1> QED BY <1>1, RingInit, PTL DEF Spec

-----------------------------------------------------------------------------
(* A thread, however often it follows a pointer, stays in the ring it was  *)
(* given, for any size, stride and number of threads the program accepts.  *)
THEOREM WalkersStayHomeAlways == Spec => []WalkersStayHome
<1>1. RingInv => WalkersStayHome
  BY AtHome DEF WalkersStayHome
<1> QED BY <1>1, RingInvAlways, PTL

(* The share a line of the buffer lies in. *)
LEMMA OneShareEach ==
  ASSUME RingInv, Ready, NEW a \in Grid
  PROVE  \E k \in Threads : \A m \in Threads : a \in Ring(m) <=> m = k
<1> DEFINE T == thread_size
           x == a - Base
           n == num_threads
           Top(m) == m * T + Share(m)
<1>1. /\ pc \in Sized /\ (n = 1 \/ T >= stride) /\ Reached = Threads
  BY DEF Ready, Sized, Reached, RingInv, ArgsInv
<1>2. /\ Threads = 0 .. n - 1 /\ n \in Nat \ {0} /\ T \in Nat /\ stride \in Nat \ {0}
      /\ Base \in Nat /\ work_size \in Nat
  BY <1>1, Facts DEF Threads
<1>3. a \in Int /\ x \in 0 .. work_size - 1
  BY <1>1, InGrid
<1>4. ASSUME NEW m \in Threads
      PROVE  /\ a \in Ring(m) <=> m * T <= x /\ x < Top(m)
             /\ m * T \in Nat /\ Share(m) \in Nat
  <2>1. m * T \in Nat /\ Share(m) \in Nat
    BY <1>1, ShareOf
  <2>2. state[m].base = Base + m * T
    BY <1>1 DEF RingInv, PlaceInv
  <2> QED BY <1>2, <1>3, <2>1, <2>2 DEF Ring
<1>5. \A k, m \in Threads : m < k => Top(m) <= k * T
  BY <1>1, SharesApart
<1>6. PICK k \in Threads : k * T <= x /\ x < Top(k)
  <2>1. CASE (n - 1) * T <= x
    <3>1. n - 1 \in Threads
      BY <1>2
    <3>2. Top(n - 1) = work_size
      BY <1>1, <3>1, ShareOf
    <3> QED BY <1>2, <1>3, <2>1, <3>1, <3>2
  <2>2. CASE x < (n - 1) * T
    <3> DEFINE k == x \div T
    <3>1. T \in Nat \ {0}
      <4>1. T # 0
        BY <1>2, <1>3, <2>2
      <4> QED BY <1>2, <4>1
    <3>2. k \in Nat /\ k * T <= x /\ x < (k + 1) * T
      <4>1. /\ k \in Int /\ x % T \in 0 .. T - 1 /\ x = k * T + (x % T) /\ k \in Nat
        <5>1. x \in Nat /\ x \in Int
          BY <1>2, <1>3
        <5> HIDE DEF T, x
        <5>2. k \in Int /\ x % T \in 0 .. T - 1 /\ x = k * T + (x % T)
          BY <3>1, <5>1, DivMod
        <5>3. k \in Nat
          BY <3>1, <5>1, DivNat
        <5> QED BY <5>2, <5>3
      <4>2. (k + 1) * T = k * T + T /\ k * T \in Int
        BY <3>1, <4>1
      <4> HIDE DEF k
      <4> QED BY <1>3, <3>1, <4>1, <4>2
    <3> HIDE DEF k
    <3>3. k < n - 1
      <4>1. SUFFICES ASSUME n - 1 <= k PROVE FALSE
        BY <1>2, <3>2
      <4>2. (n - 1) * T <= k * T
        BY <1>2, <3>2, <4>1, Product
      <4>3. (n - 1) * T \in Int /\ k * T \in Int
        BY <1>2, <3>2
      <4> QED BY <1>3, <2>2, <3>2, <4>2, <4>3
    <3>4. k \in Threads /\ k # n - 1
      BY <1>2, <3>2, <3>3
    <3>5. Top(k) = (k + 1) * T
      BY <1>1, <3>4, ShareOf
    <3> QED BY <3>2, <3>4, <3>5
  <2>3. (n - 1) * T \in Int
    BY <1>2
  <2> QED BY <1>3, <2>1, <2>2, <2>3
<1>7. ASSUME NEW m \in Threads, m # k, a \in Ring(m) PROVE FALSE
  <2>1. m * T <= x /\ x < Top(m)
    BY <1>4, <1>7
  <2>2. m < k \/ k < m
    BY <1>2, <1>7
  <2>3. Top(m) <= k * T \/ Top(k) <= m * T
    BY <1>5, <2>2
  <2>4. /\ k * T \in Int /\ m * T \in Int /\ Top(k) \in Int /\ Top(m) \in Int
    BY <1>4
  <2> HIDE DEF Top, T
  <2> QED BY <1>3, <1>6, <2>1, <2>3, <2>4
<1> QED BY <1>4, <1>6, <1>7

(* When the rings are linked every line of the buffer is in the ring of    *)
(* exactly one thread, whether the sizes divide or not.                    *)
THEOREM RingsDivideBufferAlways == Spec => []RingsDivideBuffer
<1>1. ASSUME RingInv PROVE RingsDivideBuffer
  <2> SUFFICES ASSUME Ready
               PROVE  /\ DOMAIN mem = Grid
                      /\ \A a \in Grid : Cardinality({k \in Threads : a \in Ring(k)}) = 1
    BY DEF RingsDivideBuffer
  <2>1. DOMAIN mem = Grid
    BY <1>1 DEF RingInv, LinkInv
  <2>2. ASSUME NEW a \in Grid PROVE Cardinality({k \in Threads : a \in Ring(k)}) = 1
    <3>1. PICK k \in Threads : \A m \in Threads : a \in Ring(m) <=> m = k
      BY <1>1, OneShareEach
    <3>2. {m \in Threads : a \in Ring(m)} = {k}
      BY <3>1
    <3> QED BY <3>2, FS_Singleton
  <2> QED BY <2>1, <2>2
<1> QED BY <1>1, RingInvAlways, PTL

(* No pointer is stored beyond the block, or over a part of another, for   *)
(* any size with which the size of the block does not wrap.                *)
THEOREM PointersAreWholeAlways == Spec => []PointersAreWhole
<1>1. ASSUME RingInv, BlockFits PROVE PointersAreWhole
  <2>1. CASE pc \notin {"link", "create", "join", "crash"}
    <3>1. DOMAIN mem = {}
      BY <1>1, <2>1 DEF RingInv, LinkInv
    <3> QED BY <3>1 DEF PointersAreWhole
  <2>2. CASE pc \in {"link", "create", "join", "crash"}
    <3>1. pc \in Sized /\ DOMAIN mem \subseteq Grid
      BY <1>1, <2>2 DEF RingInv, LinkInv, Ready, Sized
    <3>2. /\ stride \in Nat \ {0} /\ Base \in Nat /\ Base < PageSize /\ PtrSize <= stride
          /\ work_size \in Nat
      BY <1>1, <3>1, Facts
    <3>3. ASSUME NEW a \in Grid
          PROVE  a \in Int /\ a - Base \in 0 .. work_size - 1 /\ (a - Base) % stride = 0
      BY <1>1, <3>1, InGrid
    <3>4. ASSUME NEW a \in Grid PROVE a + PtrSize <= BlockSize
      <4>1. work_size + 2 * PageSize \in 0 .. SizeMod - 1
        BY <1>1, <3>2, RingAssumption DEF BlockFits
      <4>2. BlockSize = work_size + 2 * PageSize
        BY <4>1, BelowModulus, RingAssumption DEF BlockSize
      <4> QED BY <3>2, <3>3, <4>2, Constants
    <3>5. ASSUME NEW a \in Grid, NEW b \in Grid, a < b PROVE a + PtrSize <= b
      <4> DEFINE x == a - Base
                 y == b - Base
      <4>1. x \in Int /\ y \in Int /\ x % stride = 0 /\ y % stride = 0 /\ x < y
        BY <3>2, <3>3, <3>5
      <4>2. x + stride <= y
        <5> HIDE DEF x, y
        <5> QED BY <3>2, <4>1, MultiplesApart
      <4> QED BY <3>2, <3>3, <4>2, Constants
    <3>6. \A a, b \in Grid : a = b \/ a < b \/ b < a
      BY <3>3
    <3> QED BY <3>1, <3>4, <3>5, <3>6 DEF PointersAreWhole
  <2> QED BY <2>1, <2>2
<1>2. RingInv => PointersAreWhole
  BY <1>1 DEF PointersAreWhole
<1> QED BY <1>2, RingInvAlways, PTL

-----------------------------------------------------------------------------
(* The CPUs of the threads *)

Sorted ==
  \A m, n \in DOMAIN cpus_to_set : m < n => cpus_to_set[m] >= cpus_to_set[n]

(* Once the list is sorted, the CPUs a thread was set to are those that    *)
(* its place in the list gives it, if there is one.                        *)
PlacedInv ==
  /\ pc \in {"base", "pause", "split", "link", "create", "join"} => Sorted
  /\ affinity \in [Tasks -> SUBSET Int]
  /\ \A k \in Tasks : affinity[k] # {} =>
       tpc[k] # "none" /\ (cpus_to_set = <<>> \/ affinity[k] = CpuSet(k))

LEMMA CpuSetTyped ==
  ASSUME RingInv, NEW k \in Tasks
  PROVE  CpuSet(k) \in SUBSET Int
<1>1. cpus_to_set \in Seq(Nat) /\ k \in Nat
  BY DEF RingInv, ArgsInv, Tasks
<1>2. Len(cpus_to_set) \in Nat /\ \A n \in 1 .. Len(cpus_to_set) : cpus_to_set[n] \in Nat
  BY <1>1
<1>3. AllCpus \in SUBSET Int
  BY <1>2 DEF AllCpus
<1> QED BY <1>1, <1>2, <1>3 DEF CpuSet

LEMMA PlacedStep ==
  ASSUME RingInv, PlacedInv, [Next]_vars
  PROVE  PlacedInv'
<1> DEFINE After == {"base", "pause", "split", "link", "create", "join"}
<1>1. ASSUME UNCHANGED <<args, affinity>>, UNCHANGED tpc, pc \in After \/ pc' \notin After
      PROVE  PlacedInv'
  BY <1>1 DEF PlacedInv, args, Sorted, CpuSet, AllCpus
<1>2. ASSUME ~Ready PROVE \A k \in Tasks : affinity[k] = {}
  BY <1>2 DEF RingInv, StateTyped, PlacedInv
<1>3. CASE CheckArgs
  BY <1>2, <1>3 DEF CheckArgs, Goto, PlacedInv, Ready
<1>4. CASE ExtractCpus
  <2>1. CASE UNCHANGED cpus_to_set /\ pc' = "exit"
    BY <1>2, <1>4, <2>1 DEF ExtractCpus, Goto, PlacedInv, Ready
  <2>2. CASE Sort(cpus_to_set)
    <3>1. PICK order \in Bijection(DOMAIN cpus_to_set, DOMAIN cpus_to_set) :
            /\ \A m, n \in DOMAIN cpus_to_set :
                 m < n => ~Before(cpus_to_set[order[n]], cpus_to_set[order[m]])
            /\ cpus_to_set' = [n \in DOMAIN cpus_to_set |-> cpus_to_set[order[n]]]
      BY <2>2 DEF Sort
    <3>2. order \in [DOMAIN cpus_to_set -> DOMAIN cpus_to_set]
      BY <3>1 DEF Bijection, Injection
    <3>3. \A n \in DOMAIN cpus_to_set : cpus_to_set[order[n]] \in Nat
      BY <3>2 DEF RingInv, ArgsInv
    <3>4. Sorted'
      BY <3>1, <3>3 DEF Sorted, Before
    <3> QED BY <1>2, <1>4, <3>4 DEF ExtractCpus, Goto, PlacedInv, Ready
  <2> QED BY <1>4, <2>1, <2>2 DEF ExtractCpus, Goto
<1>5. CASE BaseInitialize
  <2>1. pc = "base" /\ UNCHANGED <<args, affinity, tpc>>
    BY <1>5 DEF BaseInitialize, Goto
  <2> QED BY <1>1, <2>1
<1>6. CASE Split \/ StoreLink \/ CloseRing \/ Crash \/ Terminated
  <2>1. (pc \in After \/ pc' \notin After) /\ UNCHANGED <<args, affinity, tpc>>
    BY <1>6 DEF Split, StoreLink, CloseRing, Crash, Terminated, vars, args
  <2> QED BY <1>1, <2>1
<1>7. CASE CreateThread
  <2>1. PICK k \in Threads : tpc[k] = "none" /\ tpc' = [tpc EXCEPT ![k] = "start"]
    BY <1>7 DEF CreateThread
  <2>2. pc \in After /\ UNCHANGED <<args, affinity>>
    BY <1>7 DEF CreateThread
  <2>3. \A m \in Tasks : tpc[m] # "none" => tpc'[m] # "none"
    BY <2>1 DEF RingInv, StateTyped
  <2> QED BY <2>2, <2>3 DEF PlacedInv, args, Sorted, CpuSet, AllCpus
<1>8. CASE \E k \in Tasks : SetAffinity(k)
  <2>1. PICK k \in Tasks : SetAffinity(k)
    BY <1>8
  <2>2. /\ tpc[k] = "start" /\ tpc' = [tpc EXCEPT ![k] = "walk"] /\ UNCHANGED <<pc, args>>
    BY <2>1 DEF SetAffinity
  <2> PICK cpus \in {affinity[k]} \cup CpuSets(k) : affinity' = [affinity EXCEPT ![k] = cpus]
    <3>1. [affinity EXCEPT ![k] = affinity[k]] = affinity
      BY DEF PlacedInv
    <3> QED BY <2>1, <3>1 DEF SetAffinity
  <2>3. pc \in After
    BY <2>2 DEF RingInv, StateTyped, Ready
  <2>4. \A m \in Tasks : tpc[m] # "none" => tpc'[m] # "none"
    BY <2>2 DEF RingInv, StateTyped
  <2>5. \A m : CpuSet(m)' = CpuSet(m)
    BY <2>2 DEF CpuSet, AllCpus, args
  <2>6. tpc'[k] # "none"
    BY <2>2 DEF RingInv, StateTyped
  <2>7. CpuSet(k) \in SUBSET Int
    BY CpuSetTyped
  <2>8. affinity' \in [Tasks -> SUBSET Int]
    <3>1. cpus \in SUBSET Int
      BY <2>7, Constants DEF PlacedInv, CpuSets
    <3> QED BY <3>1 DEF PlacedInv
  <2>9. \A m \in Tasks : \/ affinity'[m] = affinity[m]
                        \/ (m = k /\ (cpus_to_set = <<>> \/ affinity'[m] = CpuSet(m)))
    BY DEF PlacedInv, CpuSets
  <2>10. Sorted'
    BY <2>2, <2>3 DEF PlacedInv, Sorted, args
  <2> QED BY <2>2, <2>4, <2>5, <2>6, <2>8, <2>9, <2>10 DEF PlacedInv, args
<1>9. CASE \E k \in Tasks : Walk(k)
  <2>1. UNCHANGED <<pc, args, affinity, tpc>>
    BY <1>9 DEF Walk
  <2> QED BY <1>1, <2>1
<1>10. CASE UNCHANGED vars
  BY <1>1, <1>10 DEF vars
<1> QED
  BY <1>3, <1>4, <1>5, <1>6, <1>7, <1>8, <1>9, <1>10 DEF Next, Loads

(* In a sorted list the k-th CPU is the k-th largest. *)
LEMMA KthLargest ==
  ASSUME RingInv, Sorted, NEW k \in Nat, k < Len(cpus_to_set)
  PROVE  LET c == cpus_to_set[k + 1]
         IN /\ c \in AllCpus
            /\ Cardinality(AtLeast(c + 1)) <= k /\ k < Cardinality(AtLeast(c))
<1> DEFINE c == cpus_to_set[k + 1]
<1>1. /\ Len(cpus_to_set) \in Nat /\ DOMAIN cpus_to_set = 1 .. Len(cpus_to_set)
      /\ \A m \in DOMAIN cpus_to_set : cpus_to_set[m] \in Nat
      /\ k + 1 \in DOMAIN cpus_to_set
  BY DEF RingInv, ArgsInv
<1>2. c \in AllCpus /\ c \in Nat
  BY <1>1 DEF AllCpus
<1>3. AtLeast(c + 1) \subseteq 1 .. k
  <2> SUFFICES ASSUME NEW m \in DOMAIN cpus_to_set, cpus_to_set[m] >= c + 1, m > k
               PROVE  FALSE
    BY <1>1 DEF AtLeast
  <2>1. k + 1 < m => c >= cpus_to_set[m]
    BY <1>1 DEF Sorted
  <2> QED BY <1>1, <1>2, <2>1
<1>4. 1 .. k + 1 \subseteq AtLeast(c)
  <2> SUFFICES ASSUME NEW m \in 1 .. k + 1
               PROVE  m \in DOMAIN cpus_to_set /\ cpus_to_set[m] >= c
    BY DEF AtLeast
  <2>1. m \in DOMAIN cpus_to_set
    BY <1>1
  <2>2. m < k + 1 => cpus_to_set[m] >= c
    BY <1>1, <2>1 DEF Sorted
  <2> QED BY <1>1, <2>1, <2>2
<1>5. /\ IsFiniteSet(1 .. k) /\ Cardinality(1 .. k) = k
      /\ Cardinality(1 .. k + 1) = k + 1
  BY FS_Interval
<1>6. IsFiniteSet(AtLeast(c)) /\ Cardinality(1 .. k + 1) <= Cardinality(AtLeast(c))
  <2>1. IsFiniteSet(DOMAIN cpus_to_set)
    BY <1>1, FS_Interval
  <2>2. IsFiniteSet(AtLeast(c))
    BY <2>1, FS_Subset DEF AtLeast
  <2> QED BY <1>4, <2>2, FS_Subset
<1>7. IsFiniteSet(AtLeast(c + 1)) /\ Cardinality(AtLeast(c + 1)) <= k
  BY <1>3, <1>5, FS_Subset
<1>8. Cardinality(AtLeast(c)) \in Nat /\ Cardinality(AtLeast(c + 1)) \in Nat
  BY <1>6, <1>7, FS_CardinalityType
<1> HIDE DEF c
<1>9. k < Cardinality(AtLeast(c))
  BY <1>5, <1>6, <1>8
<1> QED BY <1>2, <1>7, <1>9 DEF c

(* The k-th thread is on the k-th largest CPU of any list, whatever its    *)
(* order and whether it names a CPU twice; the threads beyond it are on    *)
(* all of them.                                                            *)
THEOREM ThreadsArePlacedAlways == Spec => []ThreadsArePlaced
<1>1. Init => PlacedInv
  BY DEF Init, PlacedInv
<1>2. ASSUME RingInv, PlacedInv PROVE ThreadsArePlaced
  <2> SUFFICES ASSUME NEW k \in Threads \cap Tasks, affinity[k] # {}, cpus_to_set # <<>>
               PROVE  IF num_threads > 1 /\ k < Len(cpus_to_set)
                      THEN \E c \in AllCpus :
                             /\ affinity[k] = {c}
                             /\ Cardinality(AtLeast(c + 1)) <= k
                             /\ k < Cardinality(AtLeast(c))
                      ELSE affinity[k] = AllCpus
    BY DEF ThreadsArePlaced
  <2>1. tpc[k] # "none" /\ affinity[k] = CpuSet(k)
    BY <1>2 DEF PlacedInv
  <2>2. Sorted
    BY <1>2, <2>1 DEF RingInv, StateTyped, Ready, PlacedInv
  <2>3. k \in Nat
    BY DEF Tasks
  <2>4. CASE num_threads > 1 /\ k < Len(cpus_to_set)
    BY <1>2, <2>1, <2>2, <2>3, <2>4, KthLargest DEF CpuSet
  <2>5. CASE ~(num_threads > 1 /\ k < Len(cpus_to_set))
    BY <2>1, <2>5 DEF CpuSet
  <2> QED BY <2>4, <2>5
<1> QED BY <1>1, <1>2, PlacedStep, RingInvAlways, RingInit, PTL DEF Spec
=============================================================================
