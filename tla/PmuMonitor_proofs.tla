-------------------------- MODULE PmuMonitor_proofs --------------------------
(***************************************************************************)
(* Proofs about PmuMonitor, for any number of CPUs, events, ticks and      *)
(* signals, and any size of the buffers with room for the totals.          *)
(***************************************************************************)
EXTENDS PmuMonitor, Stdio_proofs, FiniteSetTheorems, WellFoundedInduction

-----------------------------------------------------------------------------
(* Sums *)

(* A set of numbers that has 0 and the successor of each has them all. *)
LEMMA Induction ==
  ASSUME NEW T \in SUBSET Nat, 0 \in T, \A n \in T : n + 1 \in T
  PROVE  T = Nat
<1> DEFINE Left == Nat \ T
<1> SUFFICES ASSUME Left # {} PROVE FALSE
  OBVIOUS
<1>1. PICK x \in Left : \A y \in Left : ~(<<y, x>> \in OpToRel(<, Nat))
  BY NatLessThanWellFounded, WFMin
<1>2. x \in Nat \ {0} /\ x - 1 \in Nat
  OBVIOUS
<1>3. x - 1 \notin T
  BY <1>2
<1>4. <<x - 1, x>> \in OpToRel(<, Nat)
  BY <1>2 DEF OpToRel
<1> QED BY <1>1, <1>2, <1>3, <1>4

First(S) == CHOOSE x \in S : TRUE

(* The sums of f over the sets of a family. *)
Adds(f, g, Family) ==
  g = [S \in Family |-> IF S = {} THEN 0 ELSE f[First(S)] + g[S \ {First(S)}]]

Sums(f) == CHOOSE g : Adds(f, g, SUBSET DOMAIN f)

LEMMA SumsEquation ==
  ASSUME NEW f, IsFiniteSet(DOMAIN f)
  PROVE  Adds(f, Sums(f), SUBSET DOMAIN f)
<1> DEFINE D == DOMAIN f
           Family(n) == {S \in SUBSET D : Cardinality(S) <= n}
           T == {n \in Nat : \E g : Adds(f, g, Family(n))}
<1>c. \A S \in SUBSET D : IsFiniteSet(S) /\ Cardinality(S) \in Nat
  BY FS_Subset, FS_CardinalityType
<1>f. \A S \in SUBSET D : S # {} => First(S) \in S
  BY DEF First
<1>1. 0 \in T
  <2> DEFINE g == [S \in Family(0) |-> 0]
  <2>1. \A S \in Family(0) : S = {}
    BY <1>c, FS_EmptySet
  <2>2. Adds(f, g, Family(0))
    BY <2>1 DEF Adds
  <2> HIDE DEF g, Family
  <2>3. \E h : Adds(f, h, Family(0))
    BY <2>2
  <2> QED BY <2>3
<1>2. ASSUME NEW n \in T PROVE n + 1 \in T
  <2>1. n \in Nat
    OBVIOUS
  <2>2. PICK g : Adds(f, g, Family(n))
    OBVIOUS
  <2> DEFINE h == [S \in Family(n + 1) |->
                     IF S = {} THEN 0 ELSE f[First(S)] + g[S \ {First(S)}]]
  <2>3. \A S \in Family(n) : S \in Family(n + 1) /\ h[S] = g[S]
    <3>1. \A S \in Family(n) : S \in Family(n + 1)
      BY <1>c, <2>1
    <3> QED BY <2>2, <3>1 DEF Adds
  <2>4. \A S \in Family(n + 1) : S # {} => S \ {First(S)} \in Family(n)
    <3> SUFFICES ASSUME NEW S \in Family(n + 1), S # {} PROVE S \ {First(S)} \in Family(n)
      OBVIOUS
    <3>1. IsFiniteSet(S) /\ First(S) \in S
      BY <1>c, <1>f
    <3>2. Cardinality(S \ {First(S)}) = Cardinality(S) - 1
      BY <3>1, FS_RemoveElement
    <3> QED BY <1>c, <2>1, <3>2
  <2> HIDE DEF Family
  <2>5. Adds(f, h, Family(n + 1))
    BY <2>3, <2>4 DEF Adds
  <2> HIDE DEF h
  <2>6. \E e : Adds(f, e, Family(n + 1))
    BY <2>5
  <2> QED BY <2>1, <2>6
<1>3. T = Nat
  <2>1. T \in SUBSET Nat
    OBVIOUS
  <2> HIDE DEF T
  <2> QED BY <1>1, <1>2, <2>1, Induction
<1>4. Family(Cardinality(D)) = SUBSET D
  BY FS_Subset
<1>5. \E g : Adds(f, g, SUBSET D)
  <2>1. Cardinality(D) \in T
    <3>1. Cardinality(D) \in Nat
      BY FS_CardinalityType
    <3> HIDE DEF T
    <3> QED BY <1>3, <3>1
  <2> QED BY <1>4, <2>1
<1> QED BY <1>5 DEF Sums

LEMMA TotalIsSum == \A f : Total(f) = Sums(f)[DOMAIN f]
BY DEF Total, FoldFunction, FoldFunctionOnSet, MapThenFoldSet, Sums, Adds, First

LEMMA SumStep ==
  ASSUME NEW f, IsFiniteSet(DOMAIN f)
  PROVE  /\ Sums(f)[{}] = 0
         /\ \A S \in SUBSET DOMAIN f : S # {} =>
              First(S) \in S /\ Sums(f)[S] = f[First(S)] + Sums(f)[S \ {First(S)}]
<1> DEFINE g == Sums(f)
<1>1. g = [S \in SUBSET DOMAIN f |-> IF S = {} THEN 0 ELSE f[First(S)] + g[S \ {First(S)}]]
  BY SumsEquation DEF Adds
<1> HIDE DEF g
<1>2. g[{}] = 0
  BY <1>1
<1>3. \A S \in SUBSET DOMAIN f : S # {} => g[S] = f[First(S)] + g[S \ {First(S)}]
  BY <1>1
<1>4. \A S : S # {} => First(S) \in S
  BY DEF First
<1> QED BY <1>2, <1>3, <1>4 DEF g

(* What holds of a set if it holds of all those that are smaller. *)
LEMMA BySize ==
  ASSUME NEW D, IsFiniteSet(D), NEW Good \in SUBSET SUBSET D,
         \A S \in SUBSET D :
           (\A R \in SUBSET D : Cardinality(R) < Cardinality(S) => R \in Good) => S \in Good
  PROVE  Good = SUBSET D
<1> DEFINE T == {n \in Nat : \A S \in SUBSET D : Cardinality(S) < n => S \in Good}
<1>c. \A S \in SUBSET D : Cardinality(S) \in Nat
  BY FS_Subset, FS_CardinalityType
<1>1. 0 \in T
  BY <1>c
<1>2. ASSUME NEW n \in T PROVE n + 1 \in T
  <2>1. ASSUME NEW S \in SUBSET D, Cardinality(S) < n + 1 PROVE S \in Good
    <3>1. \A R \in SUBSET D : Cardinality(R) < Cardinality(S) => R \in Good
      BY <1>c, <2>1
    <3> QED BY <3>1
  <2> QED BY <2>1
<1>3. T = Nat
  <2>1. T \in SUBSET Nat
    OBVIOUS
  <2> HIDE DEF T
  <2> QED BY <1>1, <1>2, <2>1, Induction
<1>4. ASSUME NEW S \in SUBSET D PROVE S \in Good
  <2>1. Cardinality(S) + 1 \in T /\ Cardinality(S) < Cardinality(S) + 1
    BY <1>c, <1>3
  <2> QED BY <2>1
<1> QED BY <1>4

LEMMA OneLess ==
  ASSUME NEW D, IsFiniteSet(D), NEW S \in SUBSET D, NEW x \in S
  PROVE  S \ {x} \in SUBSET D /\ Cardinality(S \ {x}) < Cardinality(S)
<1>1. IsFiniteSet(S) /\ Cardinality(S) \in Nat
  BY FS_Subset, FS_CardinalityType
<1>2. Cardinality(S \ {x}) = Cardinality(S) - 1
  BY <1>1, FS_RemoveElement
<1> QED BY <1>1, <1>2

LEMMA SumType ==
  ASSUME NEW D, IsFiniteSet(D), NEW f \in [D -> Nat]
  PROVE  \A S \in SUBSET D : Sums(f)[S] \in Nat
<1> DEFINE Good == {S \in SUBSET D : Sums(f)[S] \in Nat}
<1>d. DOMAIN f = D
  OBVIOUS
<1>1. ASSUME NEW S \in SUBSET D,
             \A R \in SUBSET D : Cardinality(R) < Cardinality(S) => R \in Good
      PROVE  S \in Good
  <2>1. CASE S = {}
    BY <1>d, <2>1, SumStep
  <2>2. CASE S # {}
    <3>1. First(S) \in S /\ Sums(f)[S] = f[First(S)] + Sums(f)[S \ {First(S)}]
      BY <1>d, <2>2, SumStep
    <3>2. Sums(f)[S \ {First(S)}] \in Nat
      BY <1>1, <3>1, OneLess
    <3>3. f[First(S)] \in Nat
      BY <3>1
    <3> QED BY <3>1, <3>2, <3>3
  <2> QED BY <2>1, <2>2
<1>2. Good = SUBSET D
  <2>1. Good \in SUBSET SUBSET D
    OBVIOUS
  <2> HIDE DEF Good
  <2> QED BY <1>1, <2>1, BySize
<1> QED BY <1>2

(* It does not matter which element comes first. *)
LEMMA SumRemove ==
  ASSUME NEW D, IsFiniteSet(D), NEW f \in [D -> Nat]
  PROVE  \A S \in SUBSET D : \A x \in S : Sums(f)[S] = f[x] + Sums(f)[S \ {x}]
<1> DEFINE Good == {S \in SUBSET D : \A x \in S : Sums(f)[S] = f[x] + Sums(f)[S \ {x}]}
<1>d. DOMAIN f = D
  OBVIOUS
<1>1. ASSUME NEW S \in SUBSET D,
             \A R \in SUBSET D : Cardinality(R) < Cardinality(S) => R \in Good
      PROVE  S \in Good
  <2> SUFFICES ASSUME NEW x \in S PROVE Sums(f)[S] = f[x] + Sums(f)[S \ {x}]
    OBVIOUS
  <2> DEFINE y == First(S)
  <2>1. y \in S /\ Sums(f)[S] = f[y] + Sums(f)[S \ {y}]
    BY <1>d, SumStep
  <2> HIDE DEF y
  <2>2. CASE x = y
    BY <2>1, <2>2
  <2>3. CASE x # y
    <3>1. S \ {x} \in Good /\ S \ {y} \in Good
      BY <1>1, <2>1, OneLess
    <3>2. Sums(f)[S \ {y}] = f[x] + Sums(f)[(S \ {y}) \ {x}]
      BY <2>1, <2>3, <3>1
    <3>3. Sums(f)[S \ {x}] = f[y] + Sums(f)[(S \ {x}) \ {y}]
      BY <2>1, <2>3, <3>1
    <3>4. (S \ {x}) \ {y} = (S \ {y}) \ {x}
      OBVIOUS
    <3>5. Sums(f)[(S \ {y}) \ {x}] \in Nat /\ f[x] \in Nat /\ f[y] \in Nat
      BY <2>1, SumType
    <3> QED BY <2>1, <3>2, <3>3, <3>4, <3>5
  <2> QED BY <2>2, <2>3
<1>2. Good = SUBSET D
  <2>1. Good \in SUBSET SUBSET D
    OBVIOUS
  <2> HIDE DEF Good
  <2> QED BY <1>1, <2>1, BySize
<1> QED BY <1>2

(* A function that is nowhere greater has no greater sum. *)
LEMMA SumGrows ==
  ASSUME NEW D, IsFiniteSet(D), NEW E, IsFiniteSet(E),
         NEW f \in [D -> Nat], NEW g \in [E -> Nat]
  PROVE  \A S \in SUBSET D :
           S \subseteq E /\ (\A x \in S : f[x] <= g[x]) => Sums(f)[S] <= Sums(g)[S]
<1> DEFINE Good == {S \in SUBSET D :
             S \subseteq E /\ (\A x \in S : f[x] <= g[x]) => Sums(f)[S] <= Sums(g)[S]}
<1>d. DOMAIN f = D /\ DOMAIN g = E
  OBVIOUS
<1>1. ASSUME NEW S \in SUBSET D,
             \A R \in SUBSET D : Cardinality(R) < Cardinality(S) => R \in Good
      PROVE  S \in Good
  <2> SUFFICES ASSUME S \subseteq E, \A x \in S : f[x] <= g[x]
               PROVE  Sums(f)[S] <= Sums(g)[S]
    OBVIOUS
  <2>1. CASE S = {}
    <3>1. Sums(f)[S] = 0 /\ Sums(g)[S] = 0
      BY <1>d, <2>1, SumStep
    <3> QED BY <3>1
  <2>2. CASE S # {}
    <3> DEFINE y == First(S)
    <3>1. /\ y \in S /\ Sums(f)[S] = f[y] + Sums(f)[S \ {y}]
          /\ Sums(g)[S] = g[y] + Sums(g)[S \ {y}]
      BY <1>d, <2>2, SumStep
    <3> HIDE DEF y
    <3>2. Sums(f)[S \ {y}] <= Sums(g)[S \ {y}]
      BY <1>1, <3>1, OneLess
    <3>3. Sums(f)[S \ {y}] \in Nat /\ Sums(g)[S \ {y}] \in Nat
      BY SumType
    <3>4. f[y] \in Nat /\ g[y] \in Nat /\ f[y] <= g[y]
      BY <3>1
    <3> QED BY <3>1, <3>2, <3>3, <3>4
  <2> QED BY <2>1, <2>2
<1>2. Good = SUBSET D
  <2>1. Good \in SUBSET SUBSET D
    OBVIOUS
  <2> HIDE DEF Good
  <2> QED BY <1>1, <2>1, BySize
<1> QED BY <1>2

-----------------------------------------------------------------------------
(* Totals *)

LEMMA TotalType ==
  ASSUME NEW D, IsFiniteSet(D), NEW f \in [D -> Nat]
  PROVE  Total(f) \in Nat
<1>1. DOMAIN f = D
  OBVIOUS
<1> QED BY <1>1, TotalIsSum, SumType

LEMMA TotalGrows ==
  ASSUME NEW D, IsFiniteSet(D), NEW f \in [D -> Nat], NEW g \in [D -> Nat],
         \A x \in D : f[x] <= g[x]
  PROVE  Total(f) <= Total(g)
<1>1. DOMAIN f = D /\ DOMAIN g = D
  OBVIOUS
<1> QED BY <1>1, TotalIsSum, SumGrows

(* Functions that differ at one point only. *)
LEMMA TotalAt ==
  ASSUME NEW D, IsFiniteSet(D), NEW f \in [D -> Nat], NEW g \in [D -> Nat],
         NEW x \in D, \A y \in D \ {x} : f[y] = g[y]
  PROVE  Total(f) + g[x] = Total(g) + f[x]
<1>1. DOMAIN f = D /\ DOMAIN g = D /\ f[x] \in Nat /\ g[x] \in Nat
  OBVIOUS
<1>2. Total(f) = f[x] + Sums(f)[D \ {x}] /\ Total(g) = g[x] + Sums(g)[D \ {x}]
  BY <1>1, TotalIsSum, SumRemove
<1>3. \A S \in SUBSET D : Sums(f)[S] \in Nat /\ Sums(g)[S] \in Nat
  BY SumType
<1>4. Sums(f)[D \ {x}] <= Sums(g)[D \ {x}]
  <2>1. \A y \in D \ {x} : f[y] <= g[y]
    OBVIOUS
  <2> QED BY <2>1, SumGrows
<1>5. Sums(g)[D \ {x}] <= Sums(f)[D \ {x}]
  <2>1. \A y \in D \ {x} : g[y] <= f[y]
    OBVIOUS
  <2> QED BY <2>1, SumGrows
<1>6. D \ {x} \in SUBSET D
  OBVIOUS
<1> QED BY <1>1, <1>2, <1>3, <1>4, <1>5, <1>6

(* One value more. *)
LEMMA TotalExtends ==
  ASSUME NEW n \in Nat, NEW f \in [1 .. n -> Nat], NEW g \in [1 .. n + 1 -> Nat],
         \A m \in 1 .. n : f[m] = g[m]
  PROVE  Total(g) = Total(f) + g[n + 1]
<1> DEFINE D == 1 .. n
           E == 1 .. n + 1
<1>1. IsFiniteSet(D) /\ IsFiniteSet(E)
  BY FS_Interval
<1>2. n + 1 \in E /\ E \ {n + 1} = D /\ D \subseteq E /\ g[n + 1] \in Nat
  OBVIOUS
<1>3. DOMAIN f = D /\ DOMAIN g = E
  OBVIOUS
<1> HIDE DEF D, E
<1>t. f \in [D -> Nat] /\ g \in [E -> Nat] /\ E \in SUBSET E
  BY DEF D, E
<1>4. Total(g) = g[n + 1] + Sums(g)[D] /\ Total(f) = Sums(f)[D]
  <2>1. Sums(g)[E] = g[n + 1] + Sums(g)[E \ {n + 1}]
    BY <1>1, <1>2, <1>t, SumRemove
  <2>2. Total(g) = Sums(g)[E] /\ Total(f) = Sums(f)[D]
    BY <1>3, TotalIsSum
  <2> QED BY <1>2, <2>1, <2>2
<1>5. Sums(f)[D] \in Nat /\ Sums(g)[D] \in Nat
  BY <1>1, <1>2, SumType DEF D, E
<1>6. Sums(f)[D] <= Sums(g)[D]
  <2>1. \A m \in D : f[m] <= g[m]
    BY DEF D
  <2> QED BY <1>1, <1>2, <2>1, SumGrows DEF D, E
<1>7. Sums(g)[D] <= Sums(f)[D]
  <2>1. \A m \in D : g[m] <= f[m]
    BY DEF D
  <2> QED BY <1>1, <1>2, <2>1, SumGrows DEF D, E
<1> QED BY <1>2, <1>4, <1>5, <1>6, <1>7

LEMMA TotalOfOne ==
  ASSUME NEW c, NEW f \in [{c} -> Nat]
  PROVE  Total(f) = f[c]
<1>1. DOMAIN f = {c} /\ IsFiniteSet({c}) /\ {c} # {} /\ f[c] \in Nat
  BY FS_Singleton
<1>2. First({c}) \in {c} /\ Sums(f)[{c}] = f[First({c})] + Sums(f)[{c} \ {First({c})}]
  BY <1>1, SumStep
<1>3. First({c}) = c /\ {c} \ {First({c})} = {}
  BY <1>2
<1>4. Sums(f)[{}] = 0
  BY <1>1, SumStep
<1>5. Sums(f)[{c}] = f[c] + 0
  BY <1>2, <1>3, <1>4
<1> QED BY <1>1, <1>5, TotalIsSum

LEMMA TotalOfZeros ==
  ASSUME NEW D, IsFiniteSet(D), NEW f, f = [x \in D |-> 0]
  PROVE  Total(f) = 0
<1> DEFINE Good == {S \in SUBSET D : Sums(f)[S] = 0}
<1>d. DOMAIN f = D
  OBVIOUS
<1>1. ASSUME NEW S \in SUBSET D,
             \A R \in SUBSET D : Cardinality(R) < Cardinality(S) => R \in Good
      PROVE  S \in Good
  <2>1. CASE S = {}
    BY <1>d, <2>1, SumStep
  <2>2. CASE S # {}
    <3>1. First(S) \in S /\ Sums(f)[S] = f[First(S)] + Sums(f)[S \ {First(S)}]
      BY <1>d, <2>2, SumStep
    <3>2. Sums(f)[S \ {First(S)}] = 0 /\ f[First(S)] = 0
      BY <1>1, <3>1, OneLess
    <3> QED BY <3>1, <3>2
  <2> QED BY <2>1, <2>2
<1>2. Good = SUBSET D
  <2>1. Good \in SUBSET SUBSET D
    OBVIOUS
  <2> HIDE DEF Good
  <2> QED BY <1>1, <2>1, BySize
<1> QED BY <1>2, <1>d, TotalIsSum

-----------------------------------------------------------------------------
(* Types *)

Sigs == {"main", "ALRM", "INT", "TERM", "call"}

FramePcs ==
  {"tick", "begin", "stop", "read", "store", "inc", "check", "print", "reset", "enable",
   "return", "open", "alloc", "warn", "overall", "title", "rows", "close", "free", "exit"}

FrameSet ==
  [sig : Sigs, pc : FramePcs, idx : Nat, code : {0, 1}, rows : Nat, val : [Fds -> Nat]]

Printed == [event : Events, columns : [ColumnNums -> Nat]]

TypeOK ==
  /\ StdioTypeOK
  /\ args \in Arguments
  /\ pc \in {"args", "events", "probe", "create", "remove", "sigint", "sigterm", "start", "pause"}
  /\ enabled \in SUBSET Fds
  /\ count \in [Fds -> Nat]
  /\ work \in [CpuNums -> Nat] /\ slept \in [CpuNums -> Nat]
  /\ start_flag \in BOOLEAN
  /\ buf_logs \in [Events -> [Slots -> Nat]]
  /\ result_idx \in Nat
  /\ buf_full_flag \in BOOLEAN
  /\ printed \in Seq(Printed)
  /\ stack \in Seq(FrameSet)
  /\ log_fp \in Nat
  /\ pending \in SUBSET {"ALRM", "INT", "TERM"}
  /\ status \in {"running", "exit0", "exit1", "killed", "hung", "crashed"}

LEMMA ArgsFields ==
  ASSUME args \in Arguments
  PROVE  /\ args.interval \in {"neg", "zero", "pos"}
         /\ args.use_file_export \in BOOLEAN /\ args.exp_all_flag \in BOOLEAN
         /\ args.target_cpu_num \in Nat \ {0} /\ args.counter_num \in Nat \ {0}
BY ArgumentsAssumption

LEMMA SameArgs ==
  ASSUME args' = args
  PROVE  /\ CpuNums' = CpuNums /\ Events' = Events /\ Fds' = Fds
         /\ Overall' = Overall /\ ColumnNums' = ColumnNums
         /\ FrameSet' = FrameSet /\ Printed' = Printed
         /\ \A c : CpusOf(c)' = CpusOf(c)
         /\ \A n : FdAt(n)' = FdAt(n)
         /\ Slots' = Slots
BY DEF CpuNums, Events, Fds, Overall, ColumnNums, FrameSet, Printed, CpusOf, FdAt, Slots

LEMMA FiniteSets ==
  ASSUME args \in Arguments
  PROVE  /\ IsFiniteSet(CpuNums) /\ \A c \in ColumnNums : IsFiniteSet(CpusOf(c))
         /\ 1 \in CpuNums /\ 1 \in Events
         /\ \A c \in ColumnNums : CpusOf(c) \subseteq CpuNums
<1>1. IsFiniteSet(CpuNums) /\ \A c : IsFiniteSet({c})
  <2>1. IsFiniteSet(CpuNums)
    BY ArgsFields, FS_Interval DEF CpuNums
  <2> QED BY <2>1, FS_Singleton
<1>2. 1 \in CpuNums /\ 1 \in Events
  BY ArgsFields DEF CpuNums, Events
<1> QED BY <1>1, <1>2 DEF ColumnNums, CpusOf

LEMMA FrameUpdate ==
  ASSUME NEW f \in FrameSet, NEW at \in FramePcs, NEW i \in Nat, NEW c \in {0, 1},
         NEW v \in [Fds -> Nat]
  PROVE  /\ [f EXCEPT !.pc = at, !.idx = i] \in FrameSet
         /\ [f EXCEPT !.idx = i] \in FrameSet
         /\ [f EXCEPT !.pc = at, !.idx = i, !.code = c] \in FrameSet
         /\ [f EXCEPT !.val = v, !.idx = i] \in FrameSet
BY DEF FrameSet

LEMMA TopType ==
  ASSUME stack \in Seq(FrameSet), stack # <<>>
  PROVE  /\ Len(stack) \in Nat \ {0} /\ Len(stack) \in 1 .. Len(stack)
         /\ Top \in FrameSet /\ Top = stack[Len(stack)]
<1>1. Len(stack) \in Nat \ {0}
  BY EmptySeq
<1>2. Len(stack) \in 1 .. Len(stack)
  BY <1>1
<1> QED BY <1>1, <1>2, ElementOfSeq DEF Top

LEMMA SetTopType ==
  ASSUME stack \in Seq(FrameSet), stack # <<>>, NEW frame \in FrameSet, SetTop(frame)
  PROVE  /\ stack' \in Seq(FrameSet) /\ Len(stack') = Len(stack) /\ stack' # <<>>
         /\ Top' = frame
         /\ \A k \in 1 .. Len(stack) :
              stack'[k] = IF k = Len(stack) THEN frame ELSE stack[k]
<1>1. Len(stack) \in Nat \ {0} /\ Len(stack) \in 1 .. Len(stack)
  BY TopType
<1>2. /\ stack' \in Seq(FrameSet) /\ Len(stack') = Len(stack)
      /\ \A k \in 1 .. Len(stack) :
           stack'[k] = IF k = Len(stack) THEN frame ELSE stack[k]
  BY <1>1, ExceptSeq DEF SetTop
<1>3. stack' # <<>>
  BY <1>1, <1>2, EmptySeq
<1> QED BY <1>1, <1>2, <1>3 DEF Top

LEMMA GotoType ==
  ASSUME stack \in Seq(FrameSet), stack # <<>>, NEW at \in FramePcs, Goto(at)
  PROVE  stack' \in Seq(FrameSet)
<1>1. [Top EXCEPT !.pc = at, !.idx = 1] \in FrameSet
  BY TopType, FrameUpdate DEF FrameSet
<1> QED BY <1>1, SetTopType DEF Goto

LEMMA NextIdxType ==
  ASSUME stack \in Seq(FrameSet), stack # <<>>, NextIdx
  PROVE  stack' \in Seq(FrameSet)
<1>1. Top \in FrameSet /\ Top.idx + 1 \in Nat
  BY TopType DEF FrameSet
<1>2. [Top EXCEPT !.idx = Top.idx + 1] \in FrameSet
  BY <1>1, FrameUpdate DEF FrameSet
<1>3. [Top EXCEPT !.idx = @ + 1] = [Top EXCEPT !.idx = Top.idx + 1]
  OBVIOUS
<1> QED BY <1>2, <1>3, SetTopType DEF NextIdx

LEMMA GotoExitType ==
  ASSUME stack \in Seq(FrameSet), stack # <<>>, Len(streams') \in Nat,
         NEW code \in {0, 1}, GotoExit(code)
  PROVE  stack' \in Seq(FrameSet)
<1>1. Top \in FrameSet /\ Top.val \in [Fds -> Nat] /\ "exit" \in FramePcs
  BY TopType DEF FramePcs, FrameSet
<1>2. [Top EXCEPT !.pc = "exit", !.idx = Len(streams'), !.code = code] \in FrameSet
  BY <1>1, FrameUpdate
<1> QED BY <1>2, SetTopType DEF GotoExit

LEMMA FrameType ==
  ASSUME result_idx \in Nat, NEW sig \in Sigs, NEW at \in FramePcs
  PROVE  Frame(sig, at) \in FrameSet
BY DEF Frame, FrameSet

LEMMA PushType ==
  ASSUME stack \in Seq(FrameSet), NEW frame \in FrameSet, stack' = Append(stack, frame)
  PROVE  /\ stack' \in Seq(FrameSet) /\ Len(stack') = Len(stack) + 1
         /\ stack'[Len(stack')] = frame
         /\ \A k \in 1 .. Len(stack) : stack'[k] = stack[k]
BY AppendProperties, LenProperties

LEMMA PopType ==
  ASSUME stack \in Seq(FrameSet), stack # <<>>,
         stack' = SubSeq(stack, 1, Len(stack) - 1)
  PROVE  /\ stack' \in Seq(FrameSet) /\ Len(stack') = Len(stack) - 1
         /\ \A k \in 1 .. Len(stack) - 1 : stack'[k] = stack[k]
<1>1. Len(stack) \in Nat \ {0}
  BY TopType
<1> DEFINE n == Len(stack) - 1
<1>2. n \in Nat /\ n <= Len(stack)
  BY <1>1
<1>3. \A k \in 1 .. n : stack[k] \in FrameSet
  BY <1>1, ElementOfSeq
<1>4. /\ stack' = SubSeq(stack, 1, n)
      /\ n - 1 + 1 = n /\ \A k \in 1 .. n : 1 + k - 1 = k
  BY <1>2
<1> HIDE DEF n
<1>5. /\ SubSeq(stack, 1, n) \in Seq(FrameSet)
      /\ Len(SubSeq(stack, 1, n)) = IF 1 <= n THEN n - 1 + 1 ELSE 0
      /\ \A k \in 1 .. n - 1 + 1 : SubSeq(stack, 1, n)[k] = stack[1 + k - 1]
  BY <1>2, <1>3, SubSeqProperties
<1>6. Len(stack') = n
  BY <1>2, <1>4, <1>5
<1>7. \A k \in 1 .. n : stack'[k] = stack[k]
  BY <1>2, <1>4, <1>5
<1> QED BY <1>4, <1>5, <1>6, <1>7 DEF n

LEMMA LineTypes ==
  /\ Old \in Lines /\ Warn \in Lines /\ OverallOnly \in Lines /\ Title \in Lines
  /\ \A v \in Nat : Row(v) \in Lines
BY DEF Old, Warn, OverallOnly, Title, Row, Line, Lines

LEMMA InitType == Init => TypeOK
<1> SUFFICES ASSUME Init PROVE TypeOK
  OBVIOUS
<1>1. StdioTypeOK
  <2>1. <<Old>> \in Seq(Lines) /\ <<>> \in Seq(Lines)
    BY LineTypes, EmptySeq
  <2> QED BY <2>1, EmptySeq DEF Init, StdioInit, StdioTypeOK
<1>2. stack \in Seq(FrameSet) /\ printed \in Seq(Printed)
  BY EmptySeq DEF Init
<1>3. buf_logs \in [Events -> [Slots -> Nat]]
  BY DEF Init
<1> QED BY <1>1, <1>2, <1>3 DEF Init, TypeOK, NULL

LEMMA StdioSame == StdioTypeOK /\ UNCHANGED stdioVars => StdioTypeOK'
BY DEF StdioTypeOK, stdioVars

LEMMA StartupsType == TypeOK /\ Startups => TypeOK'
<1> SUFFICES ASSUME TypeOK, Startups PROVE TypeOK'
  OBVIOUS
<1> USE DEF TypeOK
<1>1. args' = args
  BY DEF Startups, CheckArgs, CreateEvents, Probe, Create, RemoveOld, Register, Start, resVars
<1>2. CASE CheckArgs \/ CreateEvents \/ Probe \/ Register
  <2>1. StdioTypeOK'
    BY <1>2, StdioSame DEF CheckArgs, CreateEvents, Probe, Register
  <2>2. CASE CheckArgs
    BY <1>1, <2>1, <2>2, SameArgs DEF CheckArgs, pmuVars, resVars, sigVars
  <2>3. CASE CreateEvents
    BY <1>1, <2>1, <2>3, SameArgs DEF CreateEvents, pmuVars, resVars, sigVars
  <2>4. CASE Probe
    BY <1>1, <2>1, <2>4, SameArgs DEF Probe, pmuVars, resVars, sigVars
  <2>5. CASE Register
    BY <1>1, <2>1, <2>5, SameArgs DEF Register, pmuVars, resVars, sigVars
  <2> QED BY <1>2, <2>2, <2>3, <2>4, <2>5
<1>3. CASE Create
  <2>1. StdioTypeOK' /\ log_fp' \in Nat
    <3>1. CASE UNCHANGED stdioVars /\ log_fp' = NULL
      BY <3>1, StdioSame DEF NULL
    <3>2. CASE FOpenW /\ log_fp' = Len(streams')
      BY <3>2, FOpenWType
    <3> QED BY <1>3, <3>1, <3>2 DEF Create
  <2> QED BY <1>1, <1>3, <2>1, SameArgs DEF Create, pmuVars, resVars, sigVars
<1>4. CASE RemoveOld
  <2>1. StdioTypeOK'
    <3>1. CASE UNCHANGED stdioVars
      BY <3>1, StdioSame
    <3>2. CASE Remove
      BY <3>2, EmptySeq DEF Remove, StdioTypeOK
    <3> QED BY <1>4, <3>1, <3>2 DEF RemoveOld
  <2> QED BY <1>1, <1>4, <2>1, SameArgs DEF RemoveOld, pmuVars, resVars, sigVars
<1>5. CASE Start
  <2>1. StdioTypeOK'
    BY <1>5, StdioSame DEF Start
  <2>2. stack' \in Seq(FrameSet)
    <3>1. Frame("main", "reset") \in FrameSet
      BY FrameType DEF Sigs, FramePcs
    <3>2. <<Frame("main", "reset")>> \in Seq(FrameSet) /\ <<>> \in Seq(FrameSet)
      BY <3>1, EmptySeq
    <3> QED BY <1>5, <3>2 DEF Start, Startup
  <2> QED BY <1>1, <1>5, <2>1, <2>2, SameArgs DEF Start, pmuVars, resVars, sigVars
<1> QED BY <1>2, <1>3, <1>4, <1>5 DEF Startups

(* What no frame of a handler changes. *)
LEMMA HandlersKeep ==
  Handlers => /\ Running /\ stack # <<>>
              /\ UNCHANGED <<args, pc, work, slept, pending, ticks, sent>>
BY DEF Handlers, StopCounter, ResetCounter, StartCounter, ReadCounter, StoreRow,
       IncResultIdx, CheckFull, PrintResult, Tick, Return, Begin, CallFopen, OpenLog, PrintWarn,
       PrintOverall, PrintTitle, PrintRow, CallFclose, CloseLog, Exit, ForEach, PrintLine, StopOne,
       ResetOne, EnableOne, At, resVars, pmuVars, sigVars

LEMMA LoopsType == TypeOK /\ (StopCounter \/ ResetCounter \/ StartCounter) => TypeOK'
<1> SUFFICES ASSUME TypeOK, StopCounter \/ ResetCounter \/ StartCounter PROVE TypeOK'
  OBVIOUS
<1>1. /\ UNCHANGED <<args, pc, work, slept, pending>> /\ stack # <<>>
      /\ UNCHANGED <<stdioVars, start_flag, buf_logs, result_idx, buf_full_flag>>
      /\ UNCHANGED <<printed, log_fp, status>>
  <2>1. Handlers
    BY DEF Handlers
  <2> QED BY <2>1, HandlersKeep DEF StopCounter, ResetCounter, StartCounter, resVars
<1>2. StdioTypeOK'
  BY <1>1, StdioSame DEF TypeOK
<1>3. stack' \in Seq(FrameSet)
  <2>1. NextIdx \/ Goto("read") \/ Goto("enable") \/ Goto("return")
    BY DEF StopCounter, ResetCounter, StartCounter, ForEach
  <2> QED BY <1>1, <2>1, NextIdxType, GotoType DEF TypeOK, FramePcs
<1>4. enabled' \in SUBSET Fds /\ count' \in [Fds -> Nat]
  BY DEF TypeOK, StopCounter, ResetCounter, StartCounter, ForEach, StopOne, ResetOne,
         EnableOne, pmuVars
<1> QED BY <1>1, <1>2, <1>3, <1>4, SameArgs DEF TypeOK

LEMMA total_valType ==
  ASSUME TypeOK, stack # <<>>, NEW j \in Events
  PROVE  total_val(j) \in Nat
<1>1. Top.val \in [Fds -> Nat]
  BY TopType DEF TypeOK, FrameSet
<1>2. [i \in CpuNums |-> Top.val[i, j]] \in [CpuNums -> Nat]
  BY <1>1 DEF Fds
<1>3. IsFiniteSet(CpuNums)
  BY FiniteSets DEF TypeOK
<1> QED BY <1>2, <1>3, TotalType DEF total_val

LEMMA ColumnsType ==
  ASSUME TypeOK, stack # <<>>, NEW j \in Events
  PROVE  Columns(j) \in [ColumnNums -> Nat]
<1>1. CASE args.exp_all_flag
  <2>1. Top.val \in [Fds -> Nat]
    BY TopType DEF TypeOK, FrameSet
  <2> QED BY <1>1, <2>1 DEF Columns, ColumnNums, Fds
<1>2. CASE ~args.exp_all_flag
  <2> DEFINE t == total_val(j)
  <2>1. t \in Nat
    BY total_valType
  <2>2. Columns(j) = <<t>> /\ ColumnNums = {1}
    BY <1>2 DEF Columns, ColumnNums
  <2> HIDE DEF t
  <2>3. <<t>> \in [{1} -> Nat]
    <3>1. 1 .. 1 = {1}
      OBVIOUS
    <3> QED BY <2>1, <3>1
  <2> QED BY <2>2, <2>3
<1> QED BY <1>1, <1>2

LEMMA ReadType == TypeOK /\ ReadCounter => TypeOK'
<1> SUFFICES ASSUME TypeOK, ReadCounter PROVE TypeOK'
  OBVIOUS
<1>1. /\ UNCHANGED <<args, pc, pmuVars, pending, resVars, log_fp, status>> /\ stack # <<>>
      /\ StdioTypeOK'
  <2>1. UNCHANGED <<stdioVars, pc, pmuVars, resVars, log_fp, sigVars, status>> /\ At("read")
    BY DEF ReadCounter
  <2> QED BY <2>1, StdioSame DEF At, sigVars, resVars, TypeOK
<1>2. stack' \in Seq(FrameSet)
  <2> DEFINE fd == FdAt(Top.idx)
  <2>1. Top \in FrameSet /\ Top.idx + 1 \in Nat /\ Top.val \in [Fds -> Nat] /\ Top.code \in {0, 1}
    BY <1>1, TopType DEF TypeOK, FrameSet
  <2>2. CASE fd \in Fds
    <3> DEFINE v == [Top.val EXCEPT ![fd] = count[fd]]
    <3>1. v \in [Fds -> Nat]
      BY <2>1, <2>2 DEF TypeOK
    <3>2. SetTop([Top EXCEPT !.val = v, !.idx = Top.idx + 1])
      <4> HIDE DEF fd
      <4>1. SetTop([Top EXCEPT !.val[fd] = count[fd], !.idx = @ + 1])
        BY <2>2 DEF ReadCounter, fd
      <4>2. [Top EXCEPT !.val[fd] = count[fd], !.idx = @ + 1] =
              [Top EXCEPT !.val = v, !.idx = Top.idx + 1]
        BY <2>1 DEF FrameSet
      <4> QED BY <4>1, <4>2
    <3> HIDE DEF v, fd
    <3>3. [Top EXCEPT !.val = v, !.idx = Top.idx + 1] \in FrameSet
      BY <2>1, <3>1, FrameUpdate DEF FramePcs
    <3> QED BY <1>1, <3>2, <3>3, SetTopType DEF TypeOK
  <2>3. CASE fd \notin Fds
    <3>1. Goto("store") \/ Goto("print")
      BY <2>3 DEF ReadCounter
    <3> QED BY <1>1, <3>1, GotoType DEF TypeOK, FramePcs
  <2> QED BY <2>2, <2>3
<1> QED BY <1>1, <1>2, SameArgs DEF TypeOK, pmuVars, resVars

LEMMA StoreType == TypeOK /\ StoreRow => TypeOK'
<1> SUFFICES ASSUME TypeOK, StoreRow PROVE TypeOK'
  OBVIOUS
<1>1. /\ UNCHANGED <<args, pc, pmuVars, start_flag, result_idx, buf_full_flag, printed>>
      /\ UNCHANGED <<log_fp, pending, status>> /\ stack # <<>>
  BY DEF StoreRow, At, sigVars
<1>2. StdioTypeOK'
  <2>1. Misuse \/ UNCHANGED stdioVars
    BY DEF StoreRow
  <2> QED BY <2>1, StdioSame DEF TypeOK, StdioTypeOK, Misuse
<1>3. buf_logs' \in [Events -> [Slots -> Nat]]
  <2>1. CASE Top.idx \in Events /\ RowSlot \in Slots
    <3> DEFINE j == Top.idx
               v == total_val(j)
    <3>1. v \in Nat
      BY <1>1, <2>1, total_valType
    <3>2. buf_logs' = [buf_logs EXCEPT ![j][RowSlot] = v]
      BY <2>1 DEF StoreRow
    <3> HIDE DEF v, j
    <3>3. [buf_logs[j] EXCEPT ![RowSlot] = v] \in [Slots -> Nat]
      BY <2>1, <3>1 DEF TypeOK, j
    <3> QED BY <2>1, <3>2, <3>3 DEF TypeOK, j
  <2>2. CASE ~(Top.idx \in Events /\ RowSlot \in Slots)
    BY <2>2 DEF TypeOK, StoreRow
  <2> QED BY <2>1, <2>2
<1>4. stack' \in Seq(FrameSet)
  BY <1>1, NextIdxType, GotoType DEF TypeOK, FramePcs, StoreRow
<1> QED BY <1>1, <1>2, <1>3, <1>4, SameArgs DEF TypeOK, pmuVars

LEMMA PrintType == TypeOK /\ PrintResult => TypeOK'
<1> SUFFICES ASSUME TypeOK, PrintResult PROVE TypeOK'
  OBVIOUS
<1>1. /\ UNCHANGED <<args, pc, pmuVars, start_flag, buf_logs, result_idx, buf_full_flag>>
      /\ UNCHANGED <<log_fp, pending, status>> /\ stack # <<>> /\ StdioTypeOK'
      /\ Len(streams') \in Nat
  BY StdioSame, LenProperties DEF PrintResult, At, sigVars, TypeOK, StdioTypeOK
<1>2. printed' \in Seq(Printed)
  <2>1. CASE Top.idx \in Events
    <3> DEFINE line == [event |-> Top.idx, columns |-> Columns(Top.idx)]
    <3>1. line \in Printed
      BY <1>1, <2>1, ColumnsType DEF Printed
    <3>2. printed' = Append(printed, line)
      BY <2>1 DEF PrintResult
    <3> HIDE DEF line
    <3> QED BY <3>1, <3>2, AppendProperties DEF TypeOK
  <2>2. CASE Top.idx \notin Events
    BY <2>2 DEF TypeOK, PrintResult
  <2> QED BY <2>1, <2>2
<1>3. stack' \in Seq(FrameSet)
  <2>1. NextIdx \/ Goto("reset") \/ GotoExit(0)
    BY DEF PrintResult
  <2> QED BY <1>1, <2>1, NextIdxType, GotoType, GotoExitType DEF TypeOK, FramePcs
<1> QED BY <1>1, <1>2, <1>3, SameArgs DEF TypeOK, pmuVars

LEMMA CheckType == TypeOK /\ (IncResultIdx \/ CheckFull) => TypeOK'
<1> SUFFICES ASSUME TypeOK, IncResultIdx \/ CheckFull PROVE TypeOK'
  OBVIOUS
<1>1. /\ UNCHANGED <<args, pc, pmuVars, start_flag, buf_logs, printed>>
      /\ UNCHANGED <<log_fp, pending, status>> /\ stack # <<>> /\ StdioTypeOK'
  BY StdioSame DEF IncResultIdx, CheckFull, At, sigVars, TypeOK
<1>2. result_idx' \in Nat /\ buf_full_flag' \in BOOLEAN
  <2>1. buf_full_flag' = TRUE \/ buf_full_flag' = buf_full_flag
    BY DEF IncResultIdx, CheckFull
  <2>2. result_idx' = result_idx + 1 \/ result_idx' = result_idx
    BY DEF IncResultIdx, CheckFull
  <2>3. result_idx' \in Nat
    BY <2>2 DEF TypeOK
  <2>4. buf_full_flag \in BOOLEAN
    BY DEF TypeOK
  <2>5. buf_full_flag' \in BOOLEAN
    BY <2>1, <2>4, Zenon
  <2> QED BY <2>3, <2>5
<1>3. stack' \in Seq(FrameSet)
  <2>1. CASE Goto("check") \/ Goto("open") \/ Goto("reset")
    BY <1>1, <2>1, GotoType DEF TypeOK, FramePcs
  <2>2. CASE stack' = Append(stack, Frame("call", "begin"))
    BY <2>2, FrameType, PushType DEF TypeOK, Sigs, FramePcs
  <2> QED BY <2>1, <2>2 DEF IncResultIdx, CheckFull
<1> QED BY <1>1, <1>2, <1>3, SameArgs DEF TypeOK, pmuVars

LEMMA TickType == TypeOK /\ (Tick \/ Return \/ Begin) => TypeOK'
<1> SUFFICES ASSUME TypeOK, Tick \/ Return \/ Begin PROVE TypeOK'
  OBVIOUS
<1>1. /\ UNCHANGED <<args, pc, pmuVars, buf_logs, result_idx, buf_full_flag, printed>>
      /\ UNCHANGED <<log_fp, pending, status>> /\ stack # <<>> /\ StdioTypeOK'
      /\ start_flag' \in BOOLEAN /\ Len(streams') \in Nat
  BY StdioSame, LenProperties DEF Tick, Return, Begin, At, sigVars, resVars, TypeOK, StdioTypeOK
<1>2. stack' \in Seq(FrameSet)
  <2>1. CASE stack' = SubSeq(stack, 1, Len(stack) - 1)
    BY <1>1, <2>1, PopType DEF TypeOK
  <2>2. CASE Goto("stop") \/ Goto("reset") \/ Goto("open") \/ GotoExit(0)
    BY <1>1, <2>2, GotoType, GotoExitType DEF TypeOK, FramePcs
  <2> QED BY <2>1, <2>2 DEF Tick, FirstCall, Return, Begin, LogOrExit
<1> QED BY <1>1, <1>2, SameArgs DEF TypeOK, pmuVars

LEMMA LogType ==
  TypeOK /\ (\/ CallFopen \/ OpenLog \/ PrintWarn \/ PrintOverall \/ PrintTitle \/ PrintRow
             \/ CallFclose \/ CloseLog) => TypeOK'
<1> SUFFICES ASSUME TypeOK,
                    \/ CallFopen \/ OpenLog \/ PrintWarn \/ PrintOverall \/ PrintTitle \/ PrintRow
                    \/ CallFclose \/ CloseLog
             PROVE  TypeOK'
  OBVIOUS
<1>1. UNCHANGED <<pc, pmuVars, resVars, pending, status>> /\ stack # <<>>
  BY DEF CallFopen, OpenLog, PrintWarn, PrintOverall, PrintTitle, PrintRow, CallFclose, CloseLog, PrintLine, At, sigVars
<1>2. StdioTypeOK' /\ Len(streams') \in Nat
  <2>1. CASE FOpenW \/ UNCHANGED stdioVars
    BY <2>1, FOpenWType, StdioSame, LenProperties DEF TypeOK, StdioTypeOK
  <2>2. CASE \E line \in Lines : FPrintf(log_fp, line)
    BY <2>2, FPrintfType, LenProperties DEF TypeOK, StdioTypeOK
  <2>3. CASE FClose(log_fp)
    BY <2>3, FCloseType, LenProperties DEF TypeOK, StdioTypeOK
  <2>4. Top.idx \in Nat
    BY <1>1, TopType DEF TypeOK, FrameSet
  <2> QED BY <2>1, <2>2, <2>3, <2>4, LineTypes
          DEF CallFopen, OpenLog, PrintWarn, PrintOverall, PrintTitle, PrintRow, CallFclose, CloseLog, PrintLine
<1>3. log_fp' \in Nat
  BY <1>2 DEF CallFopen, OpenLog, PrintWarn, PrintOverall, PrintTitle, PrintRow, CallFclose, CloseLog, PrintLine,
              NULL, TypeOK
<1>4. stack' \in Seq(FrameSet)
  <2>1. \/ NextIdx \/ GotoExit(0) \/ GotoExit(1)
        \/ \E at \in {"alloc", "warn", "overall", "title", "rows", "close", "free"} : Goto(at)
    BY DEF CallFopen, OpenLog, PrintWarn, PrintOverall, PrintTitle, PrintRow, CallFclose, CloseLog, PrintLine
  <2> QED BY <1>1, <1>2, <2>1, NextIdxType, GotoType, GotoExitType DEF TypeOK, FramePcs
<1> QED BY <1>1, <1>2, <1>3, <1>4, SameArgs DEF TypeOK, pmuVars, resVars

LEMMA ExitType == TypeOK /\ Exit => TypeOK'
<1> SUFFICES ASSUME TypeOK, Exit PROVE TypeOK'
  OBVIOUS
<1>1. UNCHANGED <<pc, pmuVars, resVars, log_fp, pending>> /\ stack # <<>>
  BY DEF Exit, At, sigVars
<1>2. Top \in FrameSet /\ Top.idx \in Nat
  BY <1>1, TopType DEF TypeOK, FrameSet
<1>3. StdioTypeOK' /\ status' \in {"running", "exit0", "exit1", "killed", "hung", "crashed"}
  BY ExitFlushType, StdioSame DEF Exit, TypeOK
<1>4. stack' \in Seq(FrameSet)
  <2>1. CASE Top.idx > 0
    <3>1. [Top EXCEPT !.idx = Top.idx - 1] \in FrameSet
      <4>1. Top.idx - 1 \in Nat /\ Top.val \in [Fds -> Nat] /\ "exit" \in FramePcs
        BY <1>2, <2>1 DEF FrameSet, FramePcs
      <4> QED BY <1>2, <4>1, FrameUpdate
    <3>2. SetTop([Top EXCEPT !.idx = Top.idx - 1])
      BY <2>1 DEF Exit
    <3> QED BY <1>1, <3>1, <3>2, SetTopType DEF TypeOK
  <2>2. CASE ~(Top.idx > 0)
    BY <2>2 DEF TypeOK, Exit
  <2> QED BY <2>1, <2>2
<1> QED BY <1>1, <1>3, <1>4, SameArgs DEF TypeOK, pmuVars, resVars

LEMMA HandlersType == TypeOK /\ Handlers => TypeOK'
BY LoopsType, ReadType, StoreType, PrintType, CheckType, TickType, LogType, ExitType DEF Handlers

LEMMA WorkType == ASSUME TypeOK, NEW i \in CpuNums, Work(i) PROVE TypeOK'
<1>1. UNCHANGED <<args, pc, enabled, resVars, stack, log_fp, pending, status>> /\ StdioTypeOK'
  BY StdioSame DEF Work, resVars, sigVars, TypeOK
<1>2. work' \in [CpuNums -> Nat] /\ slept' \in [CpuNums -> Nat] /\ count' \in [Fds -> Nat]
  BY DEF Work, TypeOK
<1> QED BY <1>1, <1>2, SameArgs DEF TypeOK, resVars

LEMMA SignalType ==
  ASSUME TypeOK, NEW sig \in {"ALRM", "INT", "TERM"},
         Send(sig) \/ Expire \/ Deliver(sig) \/ Kill \/ Hang
  PROVE  TypeOK'
<1>1. /\ UNCHANGED <<args, pc, pmuVars, resVars, log_fp>> /\ StdioTypeOK'
      /\ pending' \in SUBSET {"ALRM", "INT", "TERM"}
      /\ status' \in {"running", "exit0", "exit1", "killed", "hung", "crashed"}
  BY StdioSame DEF Send, Expire, Deliver, Kill, Hang, resVars, sigVars, TypeOK
<1>2. stack' \in Seq(FrameSet)
  <2>1. CASE Deliver(sig)
    <3>1. PICK at \in FramePcs : stack' = Append(stack, Frame(sig, at))
      BY <2>1 DEF Deliver, FramePcs
    <3> QED BY <3>1, FrameType, PushType DEF TypeOK, Sigs
  <2>2. CASE ~Deliver(sig)
    BY <2>2 DEF Send, Expire, Kill, Hang, TypeOK
  <2> QED BY <2>1, <2>2
<1> QED BY <1>1, <1>2, SameArgs DEF TypeOK, pmuVars, resVars

(* One case per part of the next-state relation. *)
LEMMA NextCases ==
  [Next]_vars =>
    \/ UNCHANGED vars \/ Startups \/ Handlers \/ Expire \/ Kill \/ Hang
    \/ \E i \in CpuNums : Work(i)
    \/ \E sig \in {"ALRM", "INT", "TERM"} : (Send(sig) /\ sig # "ALRM") \/ Deliver(sig)
BY DEF Next, Terminated

LEMMA TypeStep == TypeOK /\ [Next]_vars => TypeOK' /\ args' = args
<1> SUFFICES ASSUME TypeOK, [Next]_vars PROVE TypeOK' /\ args' = args
  OBVIOUS
<1>1. CASE UNCHANGED vars
  BY <1>1, SameArgs, StdioSame DEF vars, pmuVars, resVars, sigVars, TypeOK
<1>2. args' = args
  <2>1. CASE Startups
    BY <2>1 DEF Startups, CheckArgs, CreateEvents, Probe, Create, RemoveOld, Register, Start, resVars
  <2> QED BY <1>1, <2>1, NextCases, HandlersKeep DEF vars, resVars, Work, Send, Deliver, Expire, Kill, Hang
<1>3. TypeOK'
  BY <1>1, NextCases, StartupsType, HandlersType, WorkType, SignalType
<1> QED BY <1>2, <1>3

-----------------------------------------------------------------------------
(***************************************************************************)
(* The handlers' frames.  signal_handler() never returns and a signal is   *)
(* not delivered to its own handler, so that what it interrupts, with its  *)
(* counters half stopped or half read, never goes on: only timer_handler() *)
(* returns, and below it may be a signal_handler that prints the log.      *)
(***************************************************************************)

TickPcs ==
  {"tick", "stop", "read", "store", "inc", "check", "print", "reset", "enable", "return"}

ExportPcs == {"stop", "read", "store", "inc", "check", "print"}

FilePcs == {"open", "alloc", "warn", "overall", "title", "rows", "close", "free"}

(* Where signal_handler has a stream to write to, and where its result is  *)
(* counted.                                                                *)
WritingPcs == {"warn", "overall", "title", "rows", "close"}

CountedPcs == FilePcs \cup {"check", "exit"}

FrameOK(f) ==
  /\ f.pc # "exit" => f.idx >= 1
  /\ f.sig = "main" => Overall /\ f.pc \in {"reset", "enable", "return"}
  /\ f.sig = "ALRM" => ~Overall /\ f.pc \in TickPcs
  /\ f.sig = "call" => ~Overall
  /\ IsEnd(f) => f.pc \in ExportPcs \cup FilePcs \cup {"begin", "exit"}
  /\ IsEnd(f) /\ f.pc \in ExportPcs => Overall
  /\ f.pc \in FilePcs \cup {"store", "inc", "check"} => args.use_file_export
  /\ f.pc = "print" => ~args.use_file_export

FramesOK == \A k \in 1 .. Len(stack) : FrameOK(stack[k])

(* main()'s own frame is the lowest, and no handler is there twice. *)
NestOK ==
  /\ \A k \in 1 .. Len(stack) : stack[k].sig = "main" => k = 1
  /\ \A k, m \in 1 .. Len(stack) : k < m => stack[k].sig # stack[m].sig

Checking(k) == stack[k].sig = "ALRM" /\ stack[k].pc = "check"

(* The direct call is made by a tick that finds the buffers full. *)
CallOK ==
  \A m \in 1 .. Len(stack) : stack[m].sig = "call" => \E k \in 1 .. m - 1 : Checking(k)

(* The timer is armed last, and it is the timer that ticks. *)
TimerOK ==
  /\ "ALRM" \in pending => pc = "pause" /\ ~Overall
  /\ \A k \in 1 .. Len(stack) : stack[k].sig \in {"ALRM", "main"} => pc = "pause"

IsCounted(sig) ==
  \E k \in 1 .. Len(stack) : stack[k].sig = sig /\ stack[k].pc \in CountedPcs

(* There is room for the next row: a tick that fills the buffers never     *)
(* goes on, and with -i < 0 each of the two signals adds one row.          *)
RoomOK ==
  /\ ~Overall => /\ result_idx <= BufLogSize
                 /\ result_idx = BufLogSize => \E k \in 1 .. Len(stack) : Checking(k)
  /\ Overall => /\ result_idx >= 1 => IsCounted("INT") \/ IsCounted("TERM")
                /\ result_idx >= 2 => IsCounted("INT") /\ IsCounted("TERM")
                /\ result_idx <= 2

(* The last signal_handler is the one that writes. *)
LastEnd(k) == IsEnd(stack[k]) /\ \A m \in k + 1 .. Len(stack) : ~IsEnd(stack[m])

StreamOK ==
  \A k \in 1 .. Len(stack) : LastEnd(k) /\ stack[k].pc \in WritingPcs => IsOpen(log_fp)

NestInv == FramesOK /\ NestOK /\ CallOK /\ TimerOK /\ RoomOK /\ StreamOK /\ misused = FALSE

(* The steps of a frame. *)
Flow(f, n) ==
  \/ n.pc = f.pc /\ n.idx = f.idx + 1
     /\ f.pc \in {"stop", "read", "store", "print", "reset", "enable", "rows"}
  \/ f.pc = "exit" /\ n.pc = "exit"
  \/ n.pc = "exit"
     /\ \/ f.pc \in {"alloc", "free"}
        \/ (f.pc = "print" /\ IsEnd(f))
        \/ (f.pc = "begin" /\ ~Overall /\ ~args.use_file_export)
  \/ n.idx = 1
     /\ \/ <<f.pc, n.pc>> \in {<<"stop", "read">>, <<"store", "inc">>, <<"inc", "check">>,
                               <<"reset", "enable">>, <<"enable", "return">>,
                               <<"tick", "stop">>, <<"tick", "reset">>, <<"open", "alloc">>,
                               <<"alloc", "warn">>, <<"close", "free">>, <<"warn", "overall">>, <<"overall", "title">>,
                               <<"title", "rows">>, <<"rows", "close">>}
        \/ f.pc = "read" /\ args.use_file_export /\ n.pc = "store"
        \/ f.pc = "read" /\ ~args.use_file_export /\ n.pc = "print"
        \/ f.pc = "check" /\ ~Full /\ IsEnd(f) /\ n.pc = "open"
        \/ f.pc = "check" /\ ~Full /\ ~IsEnd(f) /\ n.pc = "reset"
        \/ f.pc = "print" /\ ~IsEnd(f) /\ n.pc = "reset"
        \/ f.pc = "begin" /\ Overall /\ n.pc = "stop"
        \/ f.pc = "begin" /\ ~Overall /\ args.use_file_export /\ n.pc = "open"

LEMMA FlowOK ==
  ASSUME args \in Arguments, NEW f \in FrameSet, NEW n \in FrameSet, FrameOK(f), Flow(f, n),
         n.sig = f.sig
  PROVE  /\ FrameOK(n) /\ (IsEnd(f) /\ f.pc \in CountedPcs => n.pc \in CountedPcs)
         /\ (f.sig = "ALRM" /\ f.pc = "check" => ~Full)
<1> USE DEF FrameOK, IsEnd, TickPcs, ExportPcs, FilePcs, CountedPcs
<1>t. f.sig \in Sigs /\ f.pc \in FramePcs /\ f.idx \in Nat /\ n.idx \in Nat /\ n.pc \in FramePcs
  BY DEF FrameSet
<1>1. CASE n.pc = f.pc /\ n.idx = f.idx + 1
           /\ f.pc \in {"stop", "read", "store", "print", "reset", "enable", "rows"}
  BY <1>1, <1>t
<1>2. CASE f.pc = "exit" /\ n.pc = "exit"
  BY <1>2, <1>t DEF Sigs
<1>3. CASE n.pc = "exit" /\ (\/ f.pc \in {"alloc", "free"} \/ (f.pc = "print" /\ IsEnd(f))
                              \/ (f.pc = "begin" /\ ~Overall /\ ~args.use_file_export))
  BY <1>3, <1>t DEF Sigs
<1>4. CASE n.idx = 1 /\ <<f.pc, n.pc>> \in
                          {<<"stop", "read">>, <<"store", "inc">>, <<"inc", "check">>,
                           <<"reset", "enable">>, <<"enable", "return">>,
                           <<"tick", "stop">>, <<"tick", "reset">>, <<"open", "alloc">>,
                           <<"alloc", "warn">>, <<"close", "free">>, <<"warn", "overall">>, <<"overall", "title">>,
                           <<"title", "rows">>, <<"rows", "close">>}
  BY <1>4, <1>t DEF Sigs
<1>5. CASE n.idx = 1 /\ f.pc = "read"
           /\ (\/ (args.use_file_export /\ n.pc = "store")
               \/ (~args.use_file_export /\ n.pc = "print"))
  BY <1>5, <1>t DEF Sigs
<1>6. CASE n.idx = 1 /\ f.pc = "check" /\ ~Full
           /\ (\/ (IsEnd(f) /\ n.pc = "open") \/ (~IsEnd(f) /\ n.pc = "reset"))
  BY <1>6, <1>t DEF Sigs
<1>7. CASE n.idx = 1 /\ f.pc = "print" /\ ~IsEnd(f) /\ n.pc = "reset"
  BY <1>7, <1>t DEF Sigs
<1>8. CASE n.idx = 1 /\ f.pc = "begin"
           /\ (\/ (Overall /\ n.pc = "stop")
               \/ (~Overall /\ args.use_file_export /\ n.pc = "open"))
  BY <1>8, <1>t DEF Sigs
<1> QED BY <1>1, <1>2, <1>3, <1>4, <1>5, <1>6, <1>7, <1>8 DEF Flow

LEMMA GotoMoves ==
  ASSUME stack \in Seq(FrameSet), stack # <<>>, NEW at \in FramePcs, Goto(at)
  PROVE  \E n \in FrameSet : /\ SetTop(n) /\ n.sig = Top.sig /\ n.pc = at /\ n.idx = 1
                             /\ n.val = Top.val /\ n.rows = Top.rows /\ n.code = Top.code
<1> DEFINE n == [Top EXCEPT !.pc = at, !.idx = 1]
<1>1. Top \in FrameSet
  BY TopType
<1>2. /\ n \in FrameSet /\ n.sig = Top.sig /\ n.pc = at /\ n.idx = 1 /\ n.val = Top.val /\ n.rows = Top.rows
      /\ n.code = Top.code
  BY <1>1 DEF FrameSet
<1>3. SetTop(n)
  BY DEF Goto
<1> HIDE DEF n
<1> QED BY <1>2, <1>3

LEMMA NextIdxMoves ==
  ASSUME stack \in Seq(FrameSet), stack # <<>>, NextIdx
  PROVE  \E n \in FrameSet : /\ SetTop(n) /\ n.sig = Top.sig /\ n.pc = Top.pc
                             /\ n.idx = Top.idx + 1 /\ n.val = Top.val /\ n.rows = Top.rows /\ n.code = Top.code
<1> DEFINE n == [Top EXCEPT !.idx = Top.idx + 1]
<1>1. Top \in FrameSet /\ Top.idx + 1 \in Nat
  BY TopType DEF FrameSet
<1>2. /\ n \in FrameSet /\ n.sig = Top.sig /\ n.pc = Top.pc /\ n.idx = Top.idx + 1
      /\ n.val = Top.val /\ n.rows = Top.rows /\ n.code = Top.code
  BY <1>1 DEF FrameSet
<1>3. SetTop(n)
  BY DEF NextIdx
<1> HIDE DEF n
<1> QED BY <1>2, <1>3

LEMMA GotoExitMoves ==
  ASSUME stack \in Seq(FrameSet), stack # <<>>, Len(streams') \in Nat,
         NEW code \in {0, 1}, GotoExit(code)
  PROVE  \E n \in FrameSet : /\ SetTop(n) /\ n.sig = Top.sig /\ n.pc = "exit"
                             /\ n.val = Top.val /\ n.rows = Top.rows /\ n.code = code
<1> DEFINE n == [Top EXCEPT !.pc = "exit", !.idx = Len(streams'), !.code = code]
<1>1. Top \in FrameSet
  BY TopType
<1>2. /\ n \in FrameSet /\ n.sig = Top.sig /\ n.pc = "exit" /\ n.val = Top.val /\ n.rows = Top.rows
      /\ n.code = code
  BY <1>1 DEF FrameSet, FramePcs
<1>3. SetTop(n)
  BY DEF GotoExit
<1> HIDE DEF n
<1> QED BY <1>2, <1>3

MovesTo(n) ==
  /\ SetTop(n) /\ n.sig = Top.sig /\ Flow(Top, n)
  /\ n.rows = Top.rows
  /\ Top.pc # "read" => n.val = Top.val

Moves == \E n \in FrameSet : MovesTo(n)

LEMMA LoopMoves ==
  ASSUME stack \in Seq(FrameSet), NEW at, NEW next \in FramePcs,
         <<at, next>> \in {<<"stop", "read">>, <<"reset", "enable">>, <<"enable", "return">>},
         At(at), NextIdx \/ Goto(next)
  PROVE  Moves
<1>1. stack # <<>> /\ Top.pc = at
  BY DEF At
<1>2. CASE NextIdx
  <2>1. PICK n \in FrameSet : SetTop(n) /\ n.sig = Top.sig /\ n.pc = Top.pc /\ n.idx = Top.idx + 1
                          /\ n.val = Top.val /\ n.rows = Top.rows
    BY <1>1, <1>2, NextIdxMoves
  <2>2. Flow(Top, n)
    BY <1>1, <2>1 DEF Flow
  <2> QED BY <2>1, <2>2 DEF Moves, MovesTo
<1>3. CASE Goto(next)
  <2>1. PICK n \in FrameSet : SetTop(n) /\ n.sig = Top.sig /\ n.pc = next /\ n.idx = 1
                          /\ n.val = Top.val /\ n.rows = Top.rows
    BY <1>1, <1>3, GotoMoves
  <2>2. Flow(Top, n)
    BY <1>1, <2>1 DEF Flow
  <2> QED BY <2>1, <2>2 DEF Moves, MovesTo
<1> QED BY <1>2, <1>3

(* Every handler's step moves its frame, calls signal_handler, returns or ends the process. *)
LEMMA HandlerMoves ==
  ASSUME TypeOK, Handlers
  PROVE  \/ Moves
         \/ At("check") /\ Full /\ stack' = Append(stack, Frame("call", "begin"))
         \/ At("return") /\ stack' = SubSeq(stack, 1, Len(stack) - 1)
         \/ At("exit") /\ stack' = stack
<1>1. stack \in Seq(FrameSet) /\ stack # <<>> /\ Top \in FrameSet /\ Len(streams') \in Nat
  <2>1. stack # <<>> /\ StdioTypeOK'
    BY HandlersKeep, HandlersType DEF TypeOK
  <2> QED BY <2>1, TopType, LenProperties DEF TypeOK, StdioTypeOK
<1>2. ASSUME NEW at, NEW next \in FramePcs, Top.pc = at, Goto(next),
             \A n \in FrameSet : n.sig = Top.sig /\ n.pc = next /\ n.idx = 1 => Flow(Top, n)
      PROVE  Moves
  <2>1. PICK n \in FrameSet : SetTop(n) /\ n.sig = Top.sig /\ n.pc = next /\ n.idx = 1
                          /\ n.val = Top.val /\ n.rows = Top.rows
    BY <1>1, <1>2, GotoMoves
  <2> QED BY <2>1, <1>2 DEF Moves, MovesTo
<1>3. ASSUME NEW code \in {0, 1}, GotoExit(code),
             \A n \in FrameSet : n.sig = Top.sig /\ n.pc = "exit" => Flow(Top, n)
      PROVE  Moves
  <2>1. PICK n \in FrameSet : SetTop(n) /\ n.sig = Top.sig /\ n.pc = "exit" /\ n.val = Top.val /\ n.rows = Top.rows
    BY <1>1, <1>3, GotoExitMoves
  <2> QED BY <2>1, <1>3 DEF Moves, MovesTo
<1>4. ASSUME NextIdx, Top.pc \in {"store", "print", "rows"} PROVE Moves
  <2>1. PICK n \in FrameSet : SetTop(n) /\ n.sig = Top.sig /\ n.pc = Top.pc /\ n.idx = Top.idx + 1
                          /\ n.val = Top.val /\ n.rows = Top.rows
    BY <1>1, <1>4, NextIdxMoves
  <2> QED BY <2>1, <1>4 DEF Moves, MovesTo, Flow
<1>5. CASE StopCounter
  <2>1. At("stop") /\ (NextIdx \/ Goto("read"))
    BY <1>5 DEF StopCounter, ForEach
  <2> QED BY <1>1, <2>1, LoopMoves DEF FramePcs
<1>6. CASE ResetCounter
  <2>1. At("reset") /\ (NextIdx \/ Goto("enable"))
    BY <1>6 DEF ResetCounter, ForEach
  <2> QED BY <1>1, <2>1, LoopMoves DEF FramePcs
<1>7. CASE StartCounter
  <2>1. At("enable") /\ (NextIdx \/ Goto("return"))
    BY <1>7 DEF StartCounter, ForEach
  <2> QED BY <1>1, <2>1, LoopMoves DEF FramePcs
<1>8. CASE ReadCounter
  <2>1. Top.pc = "read"
    BY <1>8 DEF ReadCounter, At
  <2>2. CASE FdAt(Top.idx) \in Fds
    <3> DEFINE fd == FdAt(Top.idx)
               n == [Top EXCEPT !.val[fd] = count[fd], !.idx = @ + 1]
    <3>1. SetTop(n)
      BY <1>8, <2>2 DEF ReadCounter
    <3>2. /\ n \in FrameSet /\ n.sig = Top.sig /\ n.pc = Top.pc /\ n.idx = Top.idx + 1
          /\ n.rows = Top.rows
      <4>1. count[fd] \in Nat
        BY <2>2 DEF TypeOK
      <4> HIDE DEF fd
      <4>2. Top.val \in [Fds -> Nat] /\ Top.idx + 1 \in Nat
        BY <1>1 DEF FrameSet
      <4>3. [Top.val EXCEPT ![fd] = count[fd]] \in [Fds -> Nat]
        BY <4>1, <4>2
      <4>4. n = [Top EXCEPT !.val = [Top.val EXCEPT ![fd] = count[fd]], !.idx = Top.idx + 1]
        BY <1>1 DEF FrameSet
      <4> QED BY <1>1, <4>2, <4>3, <4>4 DEF FrameSet
    <3> HIDE DEF n
    <3>3. Flow(Top, n)
      BY <2>1, <3>2 DEF Flow
    <3> QED BY <2>1, <3>1, <3>2, <3>3 DEF Moves, MovesTo
  <2>3. CASE FdAt(Top.idx) \notin Fds
    <3>1. \/ args.use_file_export /\ Goto("store")
          \/ ~args.use_file_export /\ Goto("print")
      BY <1>8, <2>3 DEF ReadCounter
    <3>2. "store" \in FramePcs /\ "print" \in FramePcs
      BY DEF FramePcs
    <3> QED BY <1>2, <2>1, <3>1, <3>2 DEF Flow
  <2> QED BY <2>2, <2>3
<1>9. CASE StoreRow
  <2>1. Top.pc = "store" /\ (NextIdx \/ Goto("inc"))
    BY <1>9 DEF StoreRow, At
  <2> QED BY <1>2, <1>4, <2>1 DEF Flow, FramePcs
<1>10. CASE IncResultIdx
  <2>1. Top.pc = "inc" /\ Goto("check")
    BY <1>10 DEF IncResultIdx, At
  <2> QED BY <1>2, <2>1 DEF Flow, FramePcs
<1>11. CASE CheckFull
  <2>1. At("check") /\ Top.pc = "check"
    BY <1>11 DEF CheckFull, At
  <2>2. CASE Full
    BY <1>11, <2>1, <2>2 DEF CheckFull
  <2>3. CASE ~Full
    <3>1. \/ IsEnd(Top) /\ Goto("open")
          \/ ~IsEnd(Top) /\ Goto("reset")
      BY <1>11, <2>3 DEF CheckFull
    <3> QED BY <1>2, <2>1, <2>3, <3>1 DEF Flow, FramePcs
  <2> QED BY <2>2, <2>3
<1>12. CASE PrintResult
  <2>1. /\ Top.pc = "print"
        /\ \/ NextIdx \/ (IsEnd(Top) /\ GotoExit(0)) \/ (~IsEnd(Top) /\ Goto("reset"))
    BY <1>12 DEF PrintResult, At
  <2> QED BY <1>2, <1>3, <1>4, <2>1 DEF Flow, FramePcs
<1>13. CASE Tick
  <2>1. Top.pc = "tick" /\ (Goto("stop") \/ Goto("reset"))
    BY <1>13 DEF Tick, FirstCall, At
  <2> QED BY <1>2, <2>1 DEF Flow, FramePcs
<1>14. CASE Return
  BY <1>14 DEF Return
<1>15. CASE Begin
  <2>1. /\ Top.pc = "begin"
        /\ \/ (Overall /\ Goto("stop"))
           \/ (~Overall /\ args.use_file_export /\ Goto("open"))
           \/ (~Overall /\ ~args.use_file_export /\ GotoExit(0))
    BY <1>15 DEF Begin, LogOrExit, At
  <2> QED BY <1>2, <1>3, <2>1 DEF Flow, FramePcs
<1>16. CASE OpenLog
  <2>1. Top.pc = "alloc" /\ (Goto("warn") \/ GotoExit(1))
    BY <1>16 DEF OpenLog, At
  <2> QED BY <1>2, <1>3, <2>1 DEF Flow, FramePcs
<1>17. CASE PrintWarn \/ PrintOverall \/ PrintTitle
  <2>1. \/ (Top.pc = "warn" /\ Goto("overall"))
        \/ (Top.pc = "overall" /\ Goto("title"))
        \/ (Top.pc = "title" /\ Goto("rows"))
    BY <1>17 DEF PrintWarn, PrintOverall, PrintTitle, PrintLine, At
  <2> QED BY <1>2, <2>1 DEF Flow, FramePcs
<1>18. CASE PrintRow
  <2>1. Top.pc = "rows" /\ (NextIdx \/ Goto("close"))
    BY <1>18 DEF PrintRow, At
  <2> QED BY <1>2, <1>4, <2>1 DEF Flow, FramePcs
<1>19. CASE CloseLog
  <2>1. Top.pc = "free" /\ GotoExit(0)
    BY <1>19 DEF CloseLog, At
  <2> QED BY <1>3, <2>1 DEF Flow, FramePcs
<1>20. CASE Exit
  <2>1. At("exit") /\ Top.pc = "exit"
    BY <1>20 DEF Exit, At
  <2>2. CASE Top.idx > 0
    <3> DEFINE n == [Top EXCEPT !.idx = Top.idx - 1]
    <3>1. SetTop(n)
      BY <1>20, <2>2 DEF Exit
    <3>2. n \in FrameSet /\ n.sig = Top.sig /\ n.pc = "exit" /\ n.val = Top.val /\ n.rows = Top.rows
      <4>1. Top.idx - 1 \in Nat
        BY <1>1, <2>2 DEF FrameSet
      <4> QED BY <1>1, <2>1, <4>1 DEF FrameSet
    <3> HIDE DEF n
    <3> QED BY <2>1, <3>1, <3>2 DEF Moves, MovesTo, Flow
  <2>3. CASE ~(Top.idx > 0)
    BY <1>20, <2>1, <2>3 DEF Exit
  <2> QED BY <2>2, <2>3
<1>21. CASE CallFopen \/ CallFclose
  <2>1. \/ (Top.pc = "open" /\ Goto("alloc"))
        \/ (Top.pc = "close" /\ Goto("free"))
    BY <1>21 DEF CallFopen, CallFclose, At
  <2> QED BY <1>2, <2>1 DEF Flow, FramePcs
<1> QED BY <1>5, <1>6, <1>7, <1>8, <1>9, <1>10, <1>11, <1>12, <1>13, <1>14, <1>15, <1>16,
           <1>17, <1>18, <1>19, <1>20, <1>21 DEF Handlers

LEMMA Moved ==
  ASSUME stack \in Seq(FrameSet), stack # <<>>, NEW n \in FrameSet, SetTop(n), n.sig = Top.sig
  PROVE  /\ Len(stack') = Len(stack) /\ Len(stack) \in Nat \ {0} /\ Len(stack) \in 1 .. Len(stack)
         /\ Top = stack[Len(stack)] /\ stack'[Len(stack)] = n /\ Top' = n /\ stack' # <<>>
         /\ \A k \in 1 .. Len(stack) :
              /\ stack'[k].sig = stack[k].sig
              /\ k # Len(stack) => stack'[k] = stack[k]
BY TopType, SetTopType

LEMMA MovesNest ==
  ASSUME TypeOK, FramesOK, NestOK, CallOK, TimerOK, stack # <<>>, Moves,
         UNCHANGED <<args, pc, pending>>
  PROVE  (FramesOK /\ NestOK /\ CallOK /\ TimerOK)'
<1>1. PICK n \in FrameSet : SetTop(n) /\ n.sig = Top.sig /\ Flow(Top, n)
  BY DEF Moves, MovesTo
<1>2. /\ Len(stack') = Len(stack) /\ Len(stack) \in Nat \ {0} /\ Len(stack) \in 1 .. Len(stack)
      /\ Top = stack[Len(stack)] /\ stack'[Len(stack)] = n
      /\ \A k \in 1 .. Len(stack) :
           /\ stack'[k].sig = stack[k].sig
           /\ k # Len(stack) => stack'[k] = stack[k]
  BY <1>1, Moved DEF TypeOK
<1>3. FrameOK(n) /\ Top \in FrameSet
  BY <1>1, <1>2, FlowOK, TopType DEF TypeOK, FramesOK
<1>4. \A f : FrameOK(f)' <=> FrameOK(f)
  BY DEF FrameOK, Overall
<1>5. FramesOK'
  BY <1>2, <1>3 DEF FramesOK, FrameOK, Overall
<1>6. NestOK'
  BY <1>2 DEF NestOK
<1>7. CallOK'
  BY <1>2 DEF CallOK, Checking
<1>8. TimerOK'
  BY <1>2 DEF TimerOK, Overall
<1> QED BY <1>5, <1>6, <1>7, <1>8

LEMMA MovesRoom ==
  ASSUME TypeOK, FramesOK, RoomOK, stack # <<>>, Moves, UNCHANGED <<args, result_idx>>
  PROVE  RoomOK'
<1>1. PICK n \in FrameSet : SetTop(n) /\ n.sig = Top.sig /\ Flow(Top, n)
  BY DEF Moves, MovesTo
<1>2. /\ Len(stack') = Len(stack) /\ Len(stack) \in Nat \ {0} /\ Len(stack) \in 1 .. Len(stack)
      /\ Top = stack[Len(stack)] /\ stack'[Len(stack)] = n
      /\ \A k \in 1 .. Len(stack) :
           /\ stack'[k].sig = stack[k].sig
           /\ k # Len(stack) => stack'[k] = stack[k]
  BY <1>1, Moved DEF TypeOK
<1>3. /\ IsEnd(Top) /\ Top.pc \in CountedPcs => n.pc \in CountedPcs
      /\ Top.sig = "ALRM" /\ Top.pc = "check" => ~Full
  BY <1>1, <1>2, FlowOK, TopType DEF TypeOK, FramesOK
<1>4. ASSUME NEW sig \in {"INT", "TERM"}, IsCounted(sig) PROVE IsCounted(sig)'
  BY <1>1, <1>2, <1>3, <1>4 DEF IsCounted, IsEnd
<1>5. ASSUME NEW k \in 1 .. Len(stack), Checking(k), result_idx = BufLogSize
      PROVE  Checking(k)'
  <2>1. k # Len(stack)
    BY <1>2, <1>3, <1>5, PmuAssumption DEF Checking, Full
  <2> QED BY <1>2, <1>5, <2>1 DEF Checking
<1> QED BY <1>2, <1>4, <1>5 DEF RoomOK, Overall

(* Pushing a handler's frame. *)
LEMMA PushNest ==
  ASSUME TypeOK, FramesOK, NestOK, CallOK, TimerOK, NEW sig \in {"ALRM", "INT", "TERM", "call"},
         NEW at \in {"tick", "begin"}, stack' = Append(stack, Frame(sig, at)),
         UNCHANGED <<args, pc>>, pending' \subseteq pending,
         at = IF sig = "ALRM" THEN "tick" ELSE "begin",
         \A k \in 1 .. Len(stack) : stack[k].sig # sig,
         sig = "ALRM" => pc = "pause" /\ ~Overall,
         sig = "call" => ~Overall /\ \E k \in 1 .. Len(stack) : Checking(k)
  PROVE  (FramesOK /\ NestOK /\ CallOK /\ TimerOK)'
<1> DEFINE f == Frame(sig, at)
<1>1. /\ f \in FrameSet /\ f.sig = sig /\ f.pc = at /\ f.idx = 1
  BY FrameType DEF TypeOK, Frame, Sigs, FramePcs
<1> HIDE DEF f
<1>2. /\ Len(stack) \in Nat /\ Len(stack') = Len(stack) + 1 /\ stack'[Len(stack) + 1] = f
      /\ \A k \in 1 .. Len(stack) : stack'[k] = stack[k]
  BY <1>1, PushType, LenProperties DEF TypeOK, f
<1>3. FrameOK(f)
  BY <1>1 DEF FrameOK, IsEnd, TickPcs, ExportPcs, FilePcs
<1>4. \A k \in 1 .. Len(stack') : k \in 1 .. Len(stack) \/ k = Len(stack) + 1
  BY <1>2
<1>5. FramesOK'
  BY <1>2, <1>3, <1>4 DEF FramesOK, FrameOK, Overall
<1>6. NestOK'
  BY <1>1, <1>2, <1>4 DEF NestOK
<1>7. CallOK'
  <2>1. \A k \in 1 .. Len(stack) : Checking(k) => Checking(k)'
    BY <1>2 DEF Checking
  <2>2. ASSUME NEW m \in 1 .. Len(stack'), stack'[m].sig = "call"
        PROVE  \E k \in 1 .. m - 1 : Checking(k)'
    <3>1. CASE m \in 1 .. Len(stack)
      <4>1. PICK k \in 1 .. m - 1 : Checking(k)
        BY <1>2, <2>2, <3>1 DEF CallOK
      <4>2. k \in 1 .. Len(stack)
        BY <1>2, <3>1
      <4> QED BY <2>1, <4>1, <4>2
    <3>2. CASE m = Len(stack) + 1
      <4>1. PICK k \in 1 .. Len(stack) : Checking(k)
        BY <1>1, <1>2, <2>2, <3>2
      <4>2. k \in 1 .. m - 1
        BY <1>2, <3>2
      <4> QED BY <2>1, <4>1, <4>2
    <3> QED BY <1>4, <3>1, <3>2
  <2> QED BY <2>2 DEF CallOK
<1>8. TimerOK'
  BY <1>1, <1>2, <1>4 DEF TimerOK, Overall
<1> QED BY <1>5, <1>6, <1>7, <1>8

LEMMA PushRoom ==
  ASSUME TypeOK, RoomOK, NEW f \in FrameSet, stack' = Append(stack, f),
         UNCHANGED <<args, result_idx>>
  PROVE  RoomOK'
<1>1. /\ Len(stack) \in Nat /\ Len(stack') = Len(stack) + 1
      /\ \A k \in 1 .. Len(stack) : stack'[k] = stack[k] /\ k \in 1 .. Len(stack')
  BY PushType, LenProperties DEF TypeOK
<1>2. \A k \in 1 .. Len(stack) : Checking(k) => Checking(k)'
  BY <1>1 DEF Checking
<1>3. \A sig : IsCounted(sig) => IsCounted(sig)'
  BY <1>1 DEF IsCounted
<1> QED BY <1>1, <1>2, <1>3 DEF RoomOK, Overall

(* The frame of timer_handler, or of the start in main(), is done. *)
LEMMA PopNest ==
  ASSUME TypeOK, FramesOK, NestOK, CallOK, TimerOK, RoomOK, At("return"),
         stack' = SubSeq(stack, 1, Len(stack) - 1), UNCHANGED <<args, pc, pending, result_idx>>
  PROVE  (FramesOK /\ NestOK /\ CallOK /\ TimerOK /\ RoomOK)'
<1>1. stack # <<>> /\ Top.pc = "return" /\ Top = stack[Len(stack)] /\ Len(stack) \in Nat \ {0}
  BY TopType DEF At, TypeOK
<1>2. /\ Len(stack') = Len(stack) - 1
      /\ \A k \in 1 .. Len(stack) - 1 : stack'[k] = stack[k] /\ k \in 1 .. Len(stack)
  BY <1>1, PopType DEF TypeOK
<1>3. FramesOK'
  BY <1>1, <1>2 DEF FramesOK, FrameOK, Overall
<1>4. NestOK'
  <2>1. \A k \in 1 .. Len(stack') : k \in 1 .. Len(stack) /\ stack'[k] = stack[k]
    BY <1>1, <1>2
  <2> QED BY SMTT(30), <2>1 DEF NestOK
<1>5. CallOK'
  BY <1>1, <1>2 DEF CallOK, Checking
<1>6. TimerOK'
  BY <1>1, <1>2 DEF TimerOK, Overall
<1>7. RoomOK'
  <2>1. ASSUME NEW k \in 1 .. Len(stack), Checking(k)
        PROVE  k \in 1 .. Len(stack') /\ Checking(k)'
    BY <1>1, <1>2, <2>1 DEF Checking
  <2>2. ASSUME NEW sig \in {"INT", "TERM"}, IsCounted(sig) PROVE IsCounted(sig)'
    <3>1. PICK k \in 1 .. Len(stack) : stack[k].sig = sig /\ stack[k].pc \in CountedPcs
      BY <2>2 DEF IsCounted
    <3>2. k # Len(stack)
      BY <1>1, <3>1 DEF CountedPcs, FilePcs
    <3> QED BY <1>1, <1>2, <3>1, <3>2 DEF IsCounted
  <2> QED BY <2>1, <2>2 DEF RoomOK, Overall
<1> QED BY <1>3, <1>4, <1>5, <1>6, <1>7

(* There is room where a row is about to be stored or counted. *)
LEMMA RoomForRow ==
  ASSUME TypeOK, FramesOK, NestOK, RoomOK, stack # <<>>, Top.pc \in {"store", "inc"}
  PROVE  /\ result_idx \in Slots
         /\ Overall => Top.sig \in {"INT", "TERM"} /\ ~IsCounted(Top.sig)
         /\ ~Overall => Top.sig = "ALRM"
<1>1. Top = stack[Len(stack)] /\ Len(stack) \in 1 .. Len(stack) /\ Top.sig \in Sigs
  BY TopType DEF TypeOK, FrameSet
<1>2. FrameOK(Top)
  BY <1>1 DEF FramesOK
<1>3. \A k \in 1 .. Len(stack) : k # Len(stack) => stack[k].sig # Top.sig
  BY <1>1 DEF NestOK
<1>4. CASE Overall
  <2>1. Top.sig \in {"INT", "TERM"}
    BY <1>1, <1>2, <1>4 DEF FrameOK, Sigs
  <2>2. ~IsCounted(Top.sig)
    BY <1>1, <1>3 DEF IsCounted, CountedPcs, FilePcs
  <2>3. BufLogSize \in Nat /\ BufLogSize >= 3
    BY <1>4, PmuAssumption DEF Overall, TypeOK
  <2> QED BY <1>4, <2>1, <2>2, <2>3 DEF RoomOK, Slots, TypeOK
<1>5. CASE ~Overall
  <2>1. Top.sig = "ALRM"
    BY <1>1, <1>2, <1>5 DEF FrameOK, Sigs, IsEnd, ExportPcs, FilePcs
  <2>2. result_idx # BufLogSize
    BY <1>1, <1>3, <1>5, <2>1 DEF RoomOK, Checking
  <2> QED BY <1>5, <2>1, <2>2, PmuAssumption DEF RoomOK, Slots, TypeOK
<1> QED BY <1>4, <1>5

LEMMA IncRoom ==
  ASSUME TypeOK, FramesOK, NestOK, RoomOK, IncResultIdx
  PROVE  RoomOK'
<1>1. stack # <<>> /\ Top.pc = "inc" /\ Goto("check") /\ result_idx' = result_idx + 1 /\ args' = args
  BY DEF IncResultIdx, At
<1>2. PICK n \in FrameSet : SetTop(n) /\ n.sig = Top.sig /\ n.pc = "check"
  BY <1>1, GotoMoves DEF TypeOK, FramePcs
<1>3. /\ Len(stack') = Len(stack) /\ Len(stack) \in Nat \ {0} /\ Len(stack) \in 1 .. Len(stack)
      /\ Top = stack[Len(stack)] /\ stack'[Len(stack)] = n
      /\ \A k \in 1 .. Len(stack) :
           /\ stack'[k].sig = stack[k].sig
           /\ k # Len(stack) => stack'[k] = stack[k]
  BY <1>1, <1>2, Moved DEF TypeOK
<1>4. /\ result_idx \in Slots
      /\ Overall => Top.sig \in {"INT", "TERM"} /\ ~IsCounted(Top.sig)
      /\ ~Overall => Top.sig = "ALRM"
  BY <1>1, RoomForRow
<1>5. CASE Overall
  <2>2. ASSUME NEW sig \in {"INT", "TERM"}, IsCounted(sig) PROVE IsCounted(sig)'
    BY <1>1, <1>3, <2>2 DEF IsCounted, CountedPcs, FilePcs
  <2>4. IsCounted("INT")' \/ IsCounted("TERM")'
    BY <1>3, <1>2, <1>4, <1>5 DEF IsCounted, CountedPcs
  <2>5. result_idx >= 1 => IsCounted("INT")' /\ IsCounted("TERM")'
    <3>1. ASSUME result_idx >= 1 PROVE IsCounted("INT") \/ IsCounted("TERM")
      BY <1>5, <3>1 DEF RoomOK
    <3>2. ASSUME NEW sig \in {"INT", "TERM"}, Top.sig = sig PROVE IsCounted(sig)'
      BY <1>2, <1>3, <3>2 DEF IsCounted, CountedPcs
    <3> QED BY <1>4, <1>5, <2>2, <3>1, <3>2
  <2>6. result_idx <= 1
    BY <1>4, <1>5 DEF RoomOK, TypeOK
  <2> QED BY <1>1, <1>5, <2>4, <2>5, <2>6 DEF RoomOK, Overall, TypeOK
<1>6. CASE ~Overall
  <2>1. Checking(Len(stack))'
    BY <1>2, <1>3, <1>4, <1>6 DEF Checking
  <2>2. result_idx + 1 <= BufLogSize
    BY <1>4, PmuAssumption DEF Slots
  <2>3. \E k \in 1 .. Len(stack') : Checking(k)'
    BY <1>3, <2>1
  <2> QED BY <1>1, <1>6, <2>2, <2>3 DEF RoomOK, Overall
<1> QED BY <1>5, <1>6

-----------------------------------------------------------------------------
(* Streams *)

LEMMA StillOpen ==
  ASSUME TypeOK, NEW s, IsOpen(s), NEW t,
         \/ UNCHANGED stdioVars \/ FOpenW \/ ExitFlush(t)
         \/ \E line \in Lines : FPrintf(t, line)
  PROVE  IsOpen(s)'
<1>1. s \in 1 .. Len(streams) /\ streams[s].open
      /\ streams \in Seq([off : Nat, buf : Seq(Lines), open : BOOLEAN])
  BY DEF IsOpen, TypeOK, StdioTypeOK
<1>2. CASE UNCHANGED stdioVars
  BY <1>1, <1>2 DEF IsOpen, stdioVars
<1>3. CASE FOpenW
  <2> DEFINE r == [off |-> 0, buf |-> <<>>, open |-> TRUE]
  <2>1. streams' = Append(streams, r)
    BY <1>3 DEF FOpenW
  <2> HIDE DEF r
  <2>2. Len(streams') = Len(streams) + 1 /\ streams'[s] = streams[s] /\ Len(streams) \in Nat
    BY <1>1, <2>1, AppendProperties, LenProperties
  <2> QED BY <1>1, <2>2 DEF IsOpen
<1>4. ASSUME NEW k \in 1 .. Len(streams), NEW r, streams' = [streams EXCEPT ![k] = r],
             k = s => r.open
      PROVE  IsOpen(s)'
  BY <1>1, <1>4, ExceptSeq DEF IsOpen
<1>5. ASSUME NEW k, IsOpen(k), NEW b, WriteOut(k, b, TRUE) PROVE IsOpen(s)'
  <2> DEFINE r == [off |-> streams[k].off + Len(b), buf |-> <<>>, open |-> TRUE]
  <2>1. streams' = [streams EXCEPT ![k] = r] /\ r.open
    BY <1>5 DEF WriteOut
  <2> HIDE DEF r
  <2> QED BY <1>4, <1>5, <2>1 DEF IsOpen
<1>6. CASE ExitFlush(t)
  BY <1>1, <1>5, <1>6 DEF ExitFlush, IsOpen
<1>7. ASSUME NEW line \in Lines, FPrintf(t, line) PROVE IsOpen(s)'
  <2>1. CASE ~IsOpen(t)
    BY <1>1, <1>7, <2>1 DEF FPrintf, Misuse, IsOpen
  <2>2. CASE IsOpen(t) /\ WriteOut(t, Append(streams[t].buf, line), TRUE)
    BY <1>5, <2>2
  <2>3. CASE IsOpen(t) /\ streams' = [streams EXCEPT ![t].buf = Append(@, line)]
    <3> DEFINE r == [streams[t] EXCEPT !.buf = Append(streams[t].buf, line)]
    <3>1. streams[t] \in [off : Nat, buf : Seq(Lines), open : BOOLEAN] /\ t \in 1 .. Len(streams)
      BY <1>1, <2>3, ElementOfSeq DEF IsOpen
    <3>2. r.open = streams[t].open
      BY <3>1
    <3>3. streams' = [streams EXCEPT ![t] = r]
      BY <2>3
    <3> HIDE DEF r
    <3> QED BY <1>1, <1>4, <3>1, <3>2, <3>3
  <2> QED BY <1>7, <2>1, <2>2, <2>3 DEF FPrintf
<1> QED BY <1>2, <1>3, <1>6, <1>7

LEMMA Opened ==
  ASSUME TypeOK, FOpenW, NEW s, s = Len(streams')
  PROVE  IsOpen(s)'
<1> DEFINE r == [off |-> 0, buf |-> <<>>, open |-> TRUE]
<1>1. streams' = Append(streams, r) /\ r.open
  BY DEF FOpenW
<1> HIDE DEF r
<1>2. /\ Len(streams') = Len(streams) + 1 /\ streams'[Len(streams) + 1] = r
      /\ Len(streams) \in Nat
  BY <1>1, AppendProperties, LenProperties DEF TypeOK, StdioTypeOK
<1> QED BY <1>1, <1>2 DEF IsOpen

(* The frame that writes is the last of signal_handler's. *)
LEMMA MovesStream ==
  ASSUME TypeOK, StreamOK, stack # <<>>, NEW n \in FrameSet, SetTop(n), n.sig = Top.sig,
         ~IsEnd(Top) /\ IsOpen(log_fp) => IsOpen(log_fp)',
         IsEnd(n) /\ n.pc \in WritingPcs => IsOpen(log_fp)'
  PROVE  StreamOK'
<1>1. /\ Len(stack') = Len(stack) /\ Len(stack) \in Nat \ {0} /\ Len(stack) \in 1 .. Len(stack)
      /\ Top = stack[Len(stack)] /\ stack'[Len(stack)] = n
      /\ \A k \in 1 .. Len(stack) :
           /\ stack'[k].sig = stack[k].sig
           /\ k # Len(stack) => stack'[k] = stack[k]
  BY Moved DEF TypeOK
<1>2. ASSUME NEW k \in 1 .. Len(stack), LastEnd(k)', stack'[k].pc \in WritingPcs
      PROVE  IsOpen(log_fp)'
  <2>1. CASE k = Len(stack)
    BY <1>1, <1>2, <2>1 DEF LastEnd
  <2>2. CASE k # Len(stack)
    <3>1. LastEnd(k) /\ ~IsEnd(Top)
      BY <1>1, <1>2, <2>2 DEF LastEnd, IsEnd
    <3>2. stack[k].pc \in WritingPcs
      BY <1>1, <1>2, <2>2
    <3> QED BY <3>1, <3>2 DEF StreamOK
  <2> QED BY <2>1, <2>2
<1> QED BY <1>1, <1>2 DEF StreamOK

LEMMA PushStream ==
  ASSUME TypeOK, StreamOK, NEW f \in FrameSet, f.pc \notin WritingPcs,
         stack' = Append(stack, f), UNCHANGED <<stdioVars, log_fp>>
  PROVE  StreamOK'
<1>1. /\ Len(stack) \in Nat /\ Len(stack') = Len(stack) + 1 /\ stack'[Len(stack) + 1] = f
      /\ \A k \in 1 .. Len(stack) : stack'[k] = stack[k]
  BY PushType, LenProperties DEF TypeOK
<1>2. ASSUME NEW k \in 1 .. Len(stack'), LastEnd(k)', stack'[k].pc \in WritingPcs
      PROVE  IsOpen(log_fp)
  <2>1. k \in 1 .. Len(stack)
    BY <1>1, <1>2
  <2>2. LastEnd(k)
    BY <1>1, <1>2, <2>1 DEF LastEnd, IsEnd
  <2> QED BY <1>1, <1>2, <2>1, <2>2 DEF StreamOK
<1>3. IsOpen(log_fp) => IsOpen(log_fp)'
  BY DEF IsOpen, stdioVars
<1> QED BY <1>2, <1>3 DEF StreamOK

LEMMA PopStream ==
  ASSUME TypeOK, FramesOK, StreamOK, At("return"),
         stack' = SubSeq(stack, 1, Len(stack) - 1), UNCHANGED <<stdioVars, log_fp>>
  PROVE  StreamOK'
<1>1. stack # <<>> /\ Top.pc = "return" /\ Top = stack[Len(stack)] /\ Len(stack) \in Nat \ {0}
  BY TopType DEF At, TypeOK
<1>2. /\ Len(stack') = Len(stack) - 1
      /\ \A k \in 1 .. Len(stack) - 1 : stack'[k] = stack[k] /\ k \in 1 .. Len(stack)
  BY <1>1, PopType DEF TypeOK
<1>3. ~IsEnd(Top)
  <2>1. Len(stack) \in 1 .. Len(stack)
    BY <1>1
  <2> QED BY <1>1, <2>1 DEF FramesOK, FrameOK, ExportPcs, FilePcs
<1>4. ASSUME NEW k \in 1 .. Len(stack'), LastEnd(k)', stack'[k].pc \in WritingPcs
      PROVE  IsOpen(log_fp)
  <2>1. k \in 1 .. Len(stack) - 1
    BY <1>2
  <2>2. LastEnd(k)
    BY <1>1, <1>2, <1>3, <1>4, <2>1 DEF LastEnd, IsEnd
  <2> QED BY <1>2, <1>4, <2>1, <2>2 DEF StreamOK
<1>5. IsOpen(log_fp) => IsOpen(log_fp)'
  BY DEF IsOpen, stdioVars
<1> QED BY <1>4, <1>5 DEF StreamOK

LEMMA TopWrites ==
  ASSUME TypeOK, FramesOK, StreamOK, stack # <<>>, Top.pc \in WritingPcs
  PROVE  IsEnd(Top) /\ IsOpen(log_fp)
<1>1. Top = stack[Len(stack)] /\ Len(stack) \in 1 .. Len(stack) /\ Top.sig \in Sigs
  BY TopType DEF TypeOK, FrameSet
<1>2. IsEnd(Top)
  BY <1>1 DEF FramesOK, FrameOK, IsEnd, Sigs, WritingPcs, TickPcs
<1>3. LastEnd(Len(stack))
  BY <1>1, <1>2 DEF LastEnd
<1> QED BY <1>1, <1>2, <1>3 DEF StreamOK

(* Only a tick of a run without -i < 0 finds the buffers full. *)
LEMMA FullTick ==
  ASSUME TypeOK, FramesOK, NestOK, RoomOK, At("check"), Full
  PROVE  ~Overall /\ Checking(Len(stack)) /\ Len(stack) \in 1 .. Len(stack)
         /\ Top = stack[Len(stack)]
<1>1. Top = stack[Len(stack)] /\ Len(stack) \in 1 .. Len(stack) /\ Top.pc = "check" /\ Top.sig \in Sigs
  BY TopType DEF TypeOK, FrameSet, At
<1>2. FrameOK(Top)
  BY <1>1 DEF FramesOK
<1>3. ~Overall
  <2> SUFFICES ASSUME Overall PROVE FALSE
    OBVIOUS
  <2>1. BufLogSize \in Nat /\ BufLogSize >= 3
    BY PmuAssumption DEF Overall, TypeOK
  <2> QED BY <2>1 DEF RoomOK, Full, TypeOK
<1>4. Top.sig = "ALRM"
  BY <1>1, <1>2, <1>3 DEF FrameOK, IsEnd, Sigs, ExportPcs
<1> QED BY <1>1, <1>3, <1>4 DEF Checking

LEMMA HandlersNesting ==
  ASSUME TypeOK, NestInv, Handlers
  PROVE  (FramesOK /\ NestOK /\ CallOK /\ TimerOK /\ RoomOK)'
<1> USE DEF NestInv
<1>1. UNCHANGED <<args, pc, pending>> /\ stack # <<>> /\ Len(stack) \in 1 .. Len(stack)
      /\ Top = stack[Len(stack)]
  BY HandlersKeep, TopType DEF TypeOK
<1>2. CASE IncResultIdx
  <2>1. Moves
    BY <1>1, <1>2, HandlerMoves DEF IncResultIdx, At
  <2> QED BY <1>1, <1>2, <2>1, MovesNest, IncRoom
<1>3. CASE ~IncResultIdx
  <2>1. result_idx' = result_idx
    BY <1>3 DEF Handlers, StopCounter, ResetCounter, StartCounter, ReadCounter, StoreRow,
         CheckFull, PrintResult, Tick, Return, Begin, CallFopen, OpenLog, PrintWarn,
         PrintOverall, PrintTitle, PrintRow, CallFclose, CloseLog, Exit, PrintLine, resVars
  <2>2. CASE Moves
    BY <1>1, <2>1, <2>2, MovesNest, MovesRoom
  <2>3. CASE At("check") /\ Full /\ stack' = Append(stack, Frame("call", "begin"))
    <3>1. ~Overall /\ Checking(Len(stack))
      BY <2>3, FullTick
    <3>2. ASSUME NEW m \in 1 .. Len(stack), stack[m].sig = "call" PROVE FALSE
      <4>1. PICK k \in 1 .. m - 1 : Checking(k)
        BY <3>2 DEF CallOK
      <4>2. k \in 1 .. Len(stack) /\ k < Len(stack)
        BY <1>1
      <4> QED BY <1>1, <3>1, <4>1, <4>2 DEF Checking, NestOK
    <3>3. (FramesOK /\ NestOK /\ CallOK /\ TimerOK)'
      BY <1>1, <2>3, <3>1, <3>2, PushNest
    <3>4. Frame("call", "begin") \in FrameSet
      BY FrameType DEF TypeOK, Sigs, FramePcs
    <3> QED BY <1>1, <2>1, <2>3, <3>3, <3>4, PushRoom
  <2>4. CASE At("return") /\ stack' = SubSeq(stack, 1, Len(stack) - 1)
    BY <1>1, <2>1, <2>4, PopNest
  <2>5. CASE stack' = stack
    BY <1>1, <2>1, <2>5 DEF FramesOK, FrameOK, NestOK, CallOK, Checking, TimerOK, RoomOK,
                            IsCounted, Overall
  <2> QED BY <2>2, <2>3, <2>4, <2>5, HandlerMoves
<1> QED BY <1>2, <1>3

(* No step of a handler uses a stream that is not open, or a row that is not there. *)
LEMMA HandlersStreams ==
  ASSUME TypeOK, NestInv, Handlers
  PROVE  StreamOK' /\ misused' = FALSE
<1> USE DEF NestInv
<1>1. stack # <<>> /\ Top \in FrameSet /\ stack \in Seq(FrameSet) /\ Len(streams') \in Nat
  <2>1. StdioTypeOK'
    BY HandlersType DEF TypeOK
  <2> QED BY <2>1, HandlersKeep, TopType, LenProperties DEF TypeOK, StdioTypeOK
<1>2. CASE PrintWarn \/ PrintOverall \/ PrintTitle \/ PrintRow
  <2>1. Top.pc \in WritingPcs /\ log_fp' = log_fp
    BY <1>2 DEF PrintWarn, PrintOverall, PrintTitle, PrintRow, PrintLine, At, WritingPcs
  <2>2. IsOpen(log_fp) /\ IsEnd(Top)
    BY <1>1, <2>1, TopWrites
  <2>3. UNCHANGED stdioVars \/ \E line \in Lines : FPrintf(log_fp, line)
    BY <1>1, <1>2, LineTypes DEF PrintWarn, PrintOverall, PrintTitle, PrintRow, PrintLine, FrameSet
  <2>4. IsOpen(log_fp)'
    BY <2>1, <2>2, <2>3, StillOpen
  <2>5. misused' = FALSE
    BY <2>2, <2>3 DEF FPrintf, stdioVars
  <2>6. PICK n \in FrameSet : SetTop(n) /\ n.sig = Top.sig
    <3>1. NextIdx \/ \E at \in {"overall", "title", "rows", "close"} : Goto(at)
      BY <1>2 DEF PrintWarn, PrintOverall, PrintTitle, PrintRow, PrintLine
    <3> QED BY <1>1, <3>1, NextIdxMoves, GotoMoves DEF FramePcs
  <2> QED BY <1>1, <2>2, <2>4, <2>5, <2>6, MovesStream
<1>3. CASE OpenLog
  <2>1. IsEnd(Top)
    <3>1. Top.pc = "alloc" /\ FrameOK(Top) /\ Top.sig \in Sigs
      BY <1>1, <1>3, TopType DEF OpenLog, At, FramesOK, FrameSet
    <3> QED BY <3>1 DEF FrameOK, Sigs, IsEnd, TickPcs
  <2>2. CASE FOpenW /\ log_fp' = Len(streams') /\ Goto("warn")
    <3>1. PICK n \in FrameSet : SetTop(n) /\ n.sig = Top.sig
      BY <1>1, <2>2, GotoMoves DEF FramePcs
    <3>2. \A s : s = Len(streams') => IsOpen(s)'
      BY <2>2, Opened
    <3>3. IsOpen(log_fp)'
      BY <2>2, <3>2 DEF IsOpen
    <3> QED BY <1>1, <2>1, <2>2, <3>1, <3>3, MovesStream DEF FOpenW
  <2>3. CASE UNCHANGED stdioVars /\ GotoExit(1)
    <3>1. PICK n \in FrameSet : SetTop(n) /\ n.sig = Top.sig /\ n.pc = "exit"
      BY <1>1, <2>3, GotoExitMoves
    <3> QED BY <1>1, <2>1, <2>3, <3>1, MovesStream DEF stdioVars, WritingPcs
  <2> QED BY <1>3, <2>2, <2>3 DEF OpenLog
<1>4. CASE CallFclose
  <2>1. IsOpen(log_fp) /\ IsEnd(Top)
    BY <1>1, <1>4, TopWrites DEF CallFclose, At, WritingPcs
  <2>2. misused' = FALSE
    BY <1>4, <2>1 DEF CallFclose, FClose
  <2>3. PICK n \in FrameSet : SetTop(n) /\ n.sig = Top.sig /\ n.pc = "free"
    BY <1>1, <1>4, GotoMoves DEF CallFclose, FramePcs
  <2> QED BY <1>1, <2>1, <2>2, <2>3, MovesStream DEF WritingPcs
<1>5. CASE ~(PrintWarn \/ PrintOverall \/ PrintTitle \/ PrintRow \/ OpenLog \/ CallFclose)
  <2>1. /\ log_fp' = log_fp /\ Top.pc \notin WritingPcs \cup {"alloc"}
        /\ UNCHANGED stdioVars \/ ExitFlush(Top.idx)
    <3>1. CASE StoreRow
      <4>1. Top.pc = "store"
        BY <3>1 DEF StoreRow, At
      <4>2. RowSlot \in Slots
        BY <1>1, <4>1, RoomForRow DEF RowSlot
      <4> QED BY <3>1, <4>1, <4>2 DEF StoreRow, WritingPcs
    <3>2. CASE ~StoreRow
      BY <1>5, <3>2 DEF Handlers, StopCounter, ResetCounter, StartCounter, ReadCounter, ForEach,
         IncResultIdx, CheckFull, PrintResult, Tick, Return, Begin, CallFopen, CloseLog, Exit, At, WritingPcs
    <3> QED BY <3>1, <3>2
  <2>2. IsOpen(log_fp) => IsOpen(log_fp)'
    BY <2>1, StillOpen DEF IsOpen
  <2>3. misused' = FALSE
    BY <2>1 DEF stdioVars, ExitFlush
  <2>4. CASE Moves
    <3>1. PICK n \in FrameSet : SetTop(n) /\ n.sig = Top.sig /\ Flow(Top, n)
      BY <2>4 DEF Moves, MovesTo
    <3>2. n.pc \notin WritingPcs
      BY <2>1, <3>1 DEF Flow, WritingPcs
    <3> QED BY <1>1, <2>2, <2>3, <3>1, <3>2, MovesStream
  <2>5. CASE At("check") /\ stack' = Append(stack, Frame("call", "begin"))
    <3>1. Frame("call", "begin") \in FrameSet /\ Frame("call", "begin").pc \notin WritingPcs
      BY FrameType DEF TypeOK, Sigs, FramePcs, Frame, WritingPcs
    <3>2. UNCHANGED stdioVars
      BY <2>5, <1>5, <2>1 DEF Handlers, StopCounter, ResetCounter, StartCounter, ReadCounter, ForEach,
         IncResultIdx, CheckFull, PrintResult, Tick, Return, Begin, CallFopen, CloseLog, Exit, At, StoreRow
    <3> QED BY <2>1, <2>3, <2>5, <3>1, <3>2, PushStream
  <2>6. CASE At("return") /\ stack' = SubSeq(stack, 1, Len(stack) - 1)
    <3>1. UNCHANGED stdioVars
      BY <2>6, <1>5, <2>1 DEF Handlers, StopCounter, ResetCounter, StartCounter, ReadCounter, ForEach,
         IncResultIdx, CheckFull, PrintResult, Tick, Return, Begin, CallFopen, CloseLog, Exit, At, StoreRow
    <3> QED BY <2>1, <2>3, <2>6, <3>1, PopStream
  <2>7. CASE stack' = stack
    BY <2>1, <2>2, <2>3, <2>7 DEF StreamOK, LastEnd, IsEnd
  <2> QED BY <2>4, <2>5, <2>6, <2>7, HandlerMoves
<1> QED BY <1>2, <1>3, <1>4, <1>5

LEMMA NestInit == Init => NestInv
<1> SUFFICES ASSUME Init PROVE NestInv
  OBVIOUS
<1>1. Len(stack) = 0 /\ stack = <<>> /\ result_idx = 0 /\ pending = {} /\ misused = FALSE
  BY EmptySeq DEF Init, StdioInit
<1>2. 1 .. 0 = {}
  OBVIOUS
<1> QED BY <1>1, <1>2, PmuAssumption DEF NestInv, FramesOK, NestOK, CallOK, TimerOK, RoomOK, StreamOK

LEMMA SameNest ==
  NestInv /\ UNCHANGED <<stdioVars, args, pc, result_idx, stack, log_fp, pending>> => NestInv'
BY DEF NestInv, FramesOK, FrameOK, Overall, NestOK, CallOK, Checking, TimerOK, RoomOK, IsCounted,
       StreamOK, LastEnd, IsOpen, stdioVars

(* main() starts with an empty stack. *)
LEMMA StartupsNest ==
  ASSUME TypeOK, NestInv, Startups
  PROVE  NestInv'
<1>1. stack = <<>> /\ Len(stack) = 0 /\ pc # "pause"
      /\ UNCHANGED <<args, result_idx, pending>>
  BY EmptySeq DEF Startups, CheckArgs, CreateEvents, Probe, Create, RemoveOld, Register, Start,
                  Startup, resVars, sigVars
<1>2. misused' = FALSE
  BY DEF NestInv, Startups, CheckArgs, CreateEvents, Probe, Create, RemoveOld, Register, Start,
         stdioVars, FOpenW, Remove
<1>3. "ALRM" \notin pending
  BY <1>1 DEF NestInv, TimerOK
<1>4. ~Overall => result_idx < BufLogSize
  <2>1. ASSUME ~Overall, result_idx = BufLogSize PROVE FALSE
    BY <1>1, <2>1 DEF NestInv, RoomOK
  <2> QED BY <2>1, PmuAssumption DEF NestInv, RoomOK, TypeOK
<1>5. Overall => result_idx = 0
  BY <1>1 DEF NestInv, RoomOK, IsCounted, TypeOK
<1>6. CASE stack' = <<>>
  <2>1. Len(stack') = 0
    BY <1>6, EmptySeq
  <2> QED BY <1>1, <1>2, <1>3, <1>4, <1>5, <2>1, PmuAssumption
          DEF NestInv, FramesOK, NestOK, CallOK, TimerOK, RoomOK, StreamOK, Overall, TypeOK
<1>7. CASE Overall /\ stack' = <<Frame("main", "reset")>> /\ pc' = "pause"
  <2> DEFINE f == Frame("main", "reset")
  <2>1. Len(stack') = 1 /\ stack'[1] = f
    BY <1>7
  <2>2. f.sig = "main" /\ f.pc = "reset" /\ f.idx = 1
    BY DEF Frame
  <2> HIDE DEF f
  <2>3. \A k : k \in 1 .. Len(stack') <=> k = 1
    BY <2>1
  <2>4. FramesOK' /\ NestOK' /\ CallOK' /\ TimerOK' /\ StreamOK'
    BY <1>1, <1>3, <1>7, <2>1, <2>2, <2>3
       DEF FramesOK, FrameOK, NestOK, CallOK, TimerOK, StreamOK, LastEnd, IsEnd, Overall,
           ExportPcs, FilePcs
  <2>5. RoomOK'
    BY <1>1, <1>5, <1>7 DEF RoomOK, Overall
  <2> QED BY <1>2, <2>4, <2>5 DEF NestInv
<1> QED BY <1>1, <1>6, <1>7
        DEF Startups, CheckArgs, CreateEvents, Probe, Create, RemoveOld, Register, Start

LEMMA SignalNest ==
  ASSUME TypeOK, NestInv, NEW sig \in {"ALRM", "INT", "TERM"},
         (Send(sig) /\ sig # "ALRM") \/ Expire \/ Deliver(sig) \/ Kill \/ Hang
  PROVE  NestInv'
<1>1. UNCHANGED <<stdioVars, args, pc, result_idx, log_fp>>
  BY DEF Send, Expire, Deliver, Kill, Hang, resVars
<1>2. CASE (Send(sig) /\ sig # "ALRM") \/ Expire \/ Kill \/ Hang
  <2>1. TimerOK'
    BY <1>1, <1>2 DEF NestInv, TimerOK, Send, Expire, Kill, Hang, sigVars, Overall
  <2>2. stack' = stack
    BY <1>2 DEF Send, Expire, Kill, Hang
  <2> QED BY <1>1, <2>1, <2>2
          DEF NestInv, FramesOK, FrameOK, Overall, NestOK, CallOK, Checking, RoomOK, IsCounted,
              StreamOK, LastEnd, IsOpen, stdioVars
<1>3. CASE Deliver(sig)
  <2> DEFINE at == IF sig = "ALRM" THEN "tick" ELSE "begin"
  <2>1. /\ sig \in pending /\ pending' = pending \ {sig}
        /\ stack' = Append(stack, Frame(sig, at))
        /\ \A k \in 1 .. Len(stack) : stack[k].sig # sig
    BY <1>3 DEF Deliver, Blocked
  <2>2. sig = "ALRM" => pc = "pause" /\ ~Overall
    BY <2>1 DEF NestInv, TimerOK
  <2>3. at \in {"tick", "begin"} /\ at = IF sig = "ALRM" THEN "tick" ELSE "begin"
    OBVIOUS
  <2> HIDE DEF at
  <2>4. (FramesOK /\ NestOK /\ CallOK /\ TimerOK)'
    BY <1>1, <2>1, <2>2, <2>3, PushNest DEF NestInv
  <2>5. Frame(sig, at) \in FrameSet /\ Frame(sig, at).pc \notin WritingPcs
    <3>1. at \in FramePcs /\ sig \in Sigs
      BY <2>3 DEF Sigs, FramePcs
    <3>2. Frame(sig, at).pc = at
      BY DEF Frame
    <3> QED BY <2>3, <3>1, <3>2, FrameType DEF TypeOK, WritingPcs
  <2>6. RoomOK' /\ StreamOK' /\ misused' = FALSE
    BY <1>1, <2>1, <2>5, PushRoom, PushStream DEF NestInv, stdioVars
  <2> QED BY <2>4, <2>6 DEF NestInv
<1> QED BY <1>2, <1>3

LEMMA NestStep == TypeOK /\ NestInv /\ [Next]_vars => NestInv'
<1> SUFFICES ASSUME TypeOK, NestInv, [Next]_vars PROVE NestInv'
  OBVIOUS
<1>1. CASE UNCHANGED vars \/ \E i \in CpuNums : Work(i)
  BY <1>1, SameNest DEF vars, resVars, sigVars, Work
<1>2. CASE Handlers
  BY <1>2, HandlersNesting, HandlersStreams DEF NestInv
<1>3. CASE Startups
  BY <1>3, StartupsNest
<1>4. CASE Expire \/ Kill \/ Hang \/ \E sig \in {"ALRM", "INT", "TERM"} : (Send(sig) /\ sig # "ALRM") \/ Deliver(sig)
  BY <1>4, SignalNest
<1> QED BY <1>1, <1>2, <1>3, <1>4, NextCases

(* Whatever the stack, there is room for the next row, and the stream a    *)
(* handler prints to is open.                                              *)
THEOREM NoMisuseAlways == Spec => []NoMisuse
<1>1. Init => TypeOK /\ NestInv
  BY InitType, NestInit
<1>2. TypeOK /\ NestInv /\ [Next]_vars => TypeOK' /\ NestInv'
  BY TypeStep, NestStep
<1>3. NestInv => NoMisuse
  BY DEF NestInv, NoMisuse
<1> QED BY <1>1, <1>2, <1>3, PTL DEF Spec

-----------------------------------------------------------------------------
(* Rows and lines are kept *)

LEMMA OnlyRows ==
  [Next]_vars /\ ~StoreRow /\ ~IncResultIdx /\ ~PrintResult =>
    UNCHANGED <<buf_logs, result_idx, printed>>
<1> SUFFICES ASSUME [Next]_vars, ~StoreRow, ~IncResultIdx, ~PrintResult
             PROVE  UNCHANGED <<buf_logs, result_idx, printed>>
  OBVIOUS
<1>1. CASE Handlers
  BY <1>1 DEF Handlers, StopCounter, ResetCounter, StartCounter, ReadCounter, CheckFull, Tick,
     Return, Begin, CallFopen, OpenLog, PrintWarn, PrintOverall, PrintTitle, PrintRow, CallFclose, CloseLog, Exit,
     PrintLine, resVars
<1>2. CASE Startups
  BY <1>2 DEF Startups, CheckArgs, CreateEvents, Probe, Create, RemoveOld, Register, Start, resVars
<1>3. CASE ~Handlers /\ ~Startups
  BY <1>3, NextCases DEF vars, resVars, Work, Send, Deliver, Expire, Kill, Hang
<1> QED BY <1>1, <1>2, <1>3

LEMMA RecordedSlots ==
  ASSUME TypeOK, RoomOK
  PROVE  result_idx <= BufLogSize /\ \A m \in 1 .. result_idx : m - 1 \in Slots
<1>1. result_idx \in Nat /\ BufLogSize \in Nat
  BY PmuAssumption DEF TypeOK
<1>2. result_idx <= BufLogSize
  <2>1. Overall => BufLogSize >= 3
    BY PmuAssumption DEF Overall, TypeOK
  <2> QED BY <1>1, <2>1 DEF RoomOK
<1> QED BY <1>1, <1>2 DEF Slots

(* The effect of the three actions on what is recorded. *)
LEMMA StoreEffect ==
  ASSUME TypeOK, FramesOK, NestOK, RoomOK, StoreRow
  PROVE  /\ result_idx' = result_idx /\ printed' = printed /\ stack # <<>> /\ Top.pc = "store"
         /\ Top.idx \in Events => /\ NextIdx
                                  /\ buf_logs'[Top.idx][result_idx] = total_val(Top.idx)
         /\ Top.idx \notin Events => Goto("inc") /\ buf_logs' = buf_logs
         /\ \A j \in Events, i \in Slots :
              j # Top.idx \/ i # result_idx => buf_logs'[j][i] = buf_logs[j][i]
<1>1. stack # <<>> /\ Top.pc = "store" /\ result_idx' = result_idx /\ printed' = printed
  BY DEF StoreRow, At
<1>2. result_idx \in Slots
  BY <1>1, RoomForRow
<1>3. CASE Top.idx \in Events
  <2> DEFINE j == Top.idx
             v == total_val(j)
  <2>1. NextIdx /\ buf_logs' = [buf_logs EXCEPT ![j][result_idx] = v]
    BY <1>2, <1>3 DEF StoreRow, RowSlot
  <2>2. j \in Events /\ buf_logs \in [Events -> [Slots -> Nat]]
    BY <1>3 DEF TypeOK
  <2> HIDE DEF v, j
  <2>3. buf_logs'[j][result_idx] = v
    BY <1>2, <2>1, <2>2
  <2>4. \A e \in Events, i \in Slots : e # j \/ i # result_idx => buf_logs'[e][i] = buf_logs[e][i]
    BY <1>2, <2>1, <2>2
  <2> QED BY <1>1, <1>3, <2>1, <2>3, <2>4 DEF v, j
<1>4. CASE Top.idx \notin Events
  BY <1>1, <1>4 DEF StoreRow
<1> QED BY <1>3, <1>4

LEMMA PrintEffect ==
  ASSUME TypeOK, PrintResult
  PROVE  /\ UNCHANGED <<buf_logs, result_idx>> /\ stack # <<>> /\ Top.pc = "print"
         /\ Top.idx \in Events =>
              /\ NextIdx /\ Len(printed') = Len(printed) + 1
              /\ printed'[Len(printed) + 1] = [event |-> Top.idx, columns |-> Columns(Top.idx)]
              /\ \A n \in 1 .. Len(printed) : printed'[n] = printed[n]
         /\ Top.idx \notin Events =>
              /\ printed' = printed
              /\ IF IsEnd(Top) THEN GotoExit(0) ELSE Goto("reset")
<1>1. UNCHANGED <<buf_logs, result_idx>> /\ stack # <<>> /\ Top.pc = "print"
  BY DEF PrintResult, At
<1>2. CASE Top.idx \in Events
  <2> DEFINE line == [event |-> Top.idx, columns |-> Columns(Top.idx)]
  <2>1. NextIdx /\ printed' = Append(printed, line)
    BY <1>2 DEF PrintResult
  <2>2. line \in Printed
    BY <1>1, <1>2, ColumnsType DEF Printed
  <2> HIDE DEF line
  <2>3. /\ Len(printed') = Len(printed) + 1 /\ printed'[Len(printed) + 1] = line
        /\ \A n \in 1 .. Len(printed) : printed'[n] = printed[n]
    BY <2>1, <2>2, AppendProperties DEF TypeOK
  <2> QED BY <1>1, <1>2, <2>1, <2>3 DEF line
<1>3. CASE Top.idx \notin Events
  BY <1>1, <1>3 DEF PrintResult
<1> QED BY <1>2, <1>3

(* A row is only added behind the others, and so is a line: what is        *)
(* recorded or printed stays as it is (export_counter).                    *)
THEOREM RowsKeptAlways == Spec => RowsAreKept
<1> DEFINE Kept ==
      /\ result_idx <= result_idx' /\ Len(printed) <= Len(printed')
      /\ \A j \in Events, m \in 1 .. result_idx : buf_logs'[j][m - 1] = buf_logs[j][m - 1]
      /\ \A n \in 1 .. Len(printed) : printed'[n] = printed[n]
<1>1. Init => TypeOK /\ NestInv
  BY InitType, NestInit
<1>2. TypeOK /\ NestInv /\ [Next]_vars => TypeOK' /\ NestInv'
  BY TypeStep, NestStep
<1>3. TypeOK /\ NestInv /\ [Next]_vars => [Kept]_vars
  <2> SUFFICES ASSUME TypeOK, NestInv, [Next]_vars PROVE Kept
    OBVIOUS
  <2>1. result_idx \in Nat /\ Len(printed) \in Nat
    BY LenProperties DEF TypeOK
  <2>2. CASE StoreRow
    <3>1. \A m \in 1 .. result_idx : m - 1 \in Slots /\ m - 1 # result_idx
      BY <2>1, RecordedSlots DEF NestInv
    <3>2. /\ result_idx' = result_idx /\ printed' = printed
          /\ \A j \in Events, i \in Slots : i # result_idx => buf_logs'[j][i] = buf_logs[j][i]
      BY <2>2, StoreEffect DEF NestInv
    <3> QED BY <2>1, <3>1, <3>2
  <2>3. CASE IncResultIdx
    BY <2>1, <2>3 DEF IncResultIdx
  <2>4. CASE PrintResult
    BY <2>1, <2>4, PrintEffect
  <2>5. CASE ~StoreRow /\ ~IncResultIdx /\ ~PrintResult
    BY <2>1, <2>5, OnlyRows
  <2> QED BY <2>2, <2>3, <2>4, <2>5
<1> QED BY <1>1, <1>2, <1>3, PTL DEF Spec, RowsAreKept

-----------------------------------------------------------------------------
(***************************************************************************)
(* The counters.  The loops over the CPUs and the events do to every one   *)
(* of them what the last one that ran says; a loop that was interrupted by *)
(* a handler that counts never goes on.                                    *)
(***************************************************************************)

Zero(fn) == \A x \in DOMAIN fn : fn[x] = 0

(* The descriptors the loops have been at. *)
Visited(idx) == {FdAt(n) : n \in 1 .. idx - 1} \cap Fds

(* From the end of the loop that stops them until they are started again,  *)
(* and with -i < 0 for ever, no event is enabled.                          *)
Frozen(f) ==
  \/ f.pc \in {"read", "store", "inc", "check", "print", "reset"}
  \/ Overall /\ IsEnd(f) /\ f.pc \notin {"begin", "stop"}

FrameCounts(f) ==
  /\ Frozen(f) => enabled = {}
  /\ f.pc = "stop" => \A fd \in Visited(f.idx) : fd \notin enabled
  /\ f.pc = "read" => \A fd \in Visited(f.idx) : f.val[fd] = count[fd]
  /\ f.pc \in {"store", "inc", "check", "print"} => f.val = count
  /\ f.pc = "reset" => \A fd \in Visited(f.idx) : count[fd] = 0
  /\ f.sig = "main" => Zero(slept) /\ (f.pc = "reset" => Zero(count))
  /\ f.sig = "ALRM" /\ f.pc # "tick" => start_flag = TRUE

TopCounts(f) ==
  /\ f.pc = "enable" => Visited(f.idx) \subseteq enabled
  /\ f.pc = "return" => enabled = Fds

CountsOK ==
  /\ \A k \in 1 .. Len(stack) : FrameCounts(stack[k])
  /\ stack # <<>> => TopCounts(Top)

(* Until the start in main() or the first tick nothing is counted. *)
QuietOK ==
  pc # "pause" \/ (~Overall /\ start_flag = FALSE) => enabled = {} /\ Zero(count) /\ Zero(slept)

(* Between the ticks every event counts. *)
StartedOK ==
  /\ pc = "pause" /\ Overall /\ stack = <<>> => enabled = Fds
  /\ ~Overall /\ start_flag = TRUE /\ (\A k \in 1 .. Len(stack) : stack[k].sig # "ALRM") =>
       enabled = Fds

Resetting(k) == stack[k].sig = "ALRM" /\ stack[k].pc = "reset"

(* The leader counts what any event of its group counts. *)
GroupOK ==
  (\A k \in 1 .. Len(stack) : ~Resetting(k)) =>
    \A fd \in Fds : count[fd] <= count[<<fd[1], 1>>]

CounterInv == CountsOK /\ QuietOK /\ StartedOK /\ GroupOK

LEMMA DivMod ==
  ASSUME NEW c \in Nat \ {0}, NEW a \in Nat, NEW b \in 0 .. c - 1
  PROVE  (a * c + b) \div c = a /\ (a * c + b) % c = b
<1> DEFINE x == a * c + b
           q == x \div c
           r == x % c
<1>1. x \in Nat /\ a * c \in Nat
  BY Z3
<1> HIDE DEF x
<1>2. q \in Int /\ r \in 0 .. c - 1 /\ x = c * q + r
  BY <1>1
<1> HIDE DEF q, r
<1>3. x = a * c + b
  BY DEF x
<1>4. a * c = c * a
  BY Z3
<1>5. c * (q - a) = b - r
  BY <1>2, <1>3, <1>4, Z3
<1>6. q = a
  <2>1. CASE q - a >= 1
    <3>1. c * (q - a) >= c
      BY <2>1, <1>2, Z3
    <3> QED BY <3>1, <1>5, <1>2
  <2>2. CASE q - a <= -1
    <3>1. c * (q - a) <= -c
      BY <2>2, <1>2, Z3
    <3> QED BY <3>1, <1>5, <1>2
  <2> QED BY <1>2, <2>1, <2>2
<1>7. r = b
  BY <1>2, <1>3, <1>4, <1>6
<1> QED BY <1>6, <1>7 DEF q, r, x

LEMMA VisitedNone == Visited(1) = {}
<1>1. 1 .. 1 - 1 = {}
  OBVIOUS
<1> QED BY <1>1 DEF Visited

LEMMA VisitedNext ==
  ASSUME NEW i \in Nat, i >= 1
  PROVE  Visited(i + 1) = Visited(i) \cup ({FdAt(i)} \cap Fds)
<1>1. 1 .. i + 1 - 1 = (1 .. i - 1) \cup {i}
  OBVIOUS
<1> QED BY <1>1 DEF Visited

(* A loop that is at no descriptor has been at each. *)
LEMMA VisitedAll ==
  ASSUME args \in Arguments, NEW idx \in Nat, idx >= 1, FdAt(idx) \notin Fds
  PROVE  Visited(idx) = Fds
<1> DEFINE C == args.counter_num
           T == args.target_cpu_num
           q == (idx - 1) \div C
           r == (idx - 1) % C
<1>1. C \in Nat \ {0} /\ T \in Nat \ {0}
  BY ArgsFields
<1>d. Fds = (1 .. T) \X (1 .. C) /\ \A n : FdAt(n) = <<((n - 1) \div C) + 1, ((n - 1) % C) + 1>>
  BY DEF Fds, CpuNums, Events, FdAt
<1> HIDE DEF C, T
<1>2. q \in Nat /\ r \in 0 .. C - 1 /\ idx - 1 = C * q + r
  <2>1. idx - 1 \in Nat
    OBVIOUS
  <2>2. q \in Int /\ r \in 0 .. C - 1 /\ idx - 1 = C * q + r
    BY <1>1, <2>1
  <2> HIDE DEF q, r
  <2>3. q >= 0
    <3>1. CASE q <= -1
      <4>1. C * q <= -C
        BY <1>1, <2>2, <3>1, Z3
      <4> QED BY <1>1, <2>1, <2>2, <4>1
    <3> QED BY <2>2, <3>1
  <2> QED BY <2>2, <2>3
<1>3. q >= T
  <2>1. <<q + 1, r + 1>> \notin (1 .. T) \X (1 .. C)
    BY <1>d
  <2> HIDE DEF q, r
  <2> QED BY <1>1, <1>2, <2>1
<1> HIDE DEF q, r
<1>4. idx - 1 >= C * T
  <2>1. C * q >= C * T
    BY <1>1, <1>2, <1>3, Z3
  <2>2. C * q \in Nat /\ C * T \in Nat
    BY <1>1, <1>2, Z3
  <2> QED BY <1>1, <1>2, <2>1, <2>2
<1>5. ASSUME NEW i \in 1 .. T, NEW j \in 1 .. C
      PROVE  <<i, j>> \in {FdAt(n) : n \in 1 .. idx - 1}
  <2> DEFINE a == i - 1
             b == j - 1
             p == a * C
             n == p + j
  <2>1. a \in Nat /\ b \in 0 .. C - 1 /\ a <= T - 1 /\ j = b + 1 /\ i = a + 1
    BY <1>1
  <2> HIDE DEF a, b
  <2>2. p \in Nat /\ p <= C * (T - 1) /\ C * (T - 1) = C * T - C /\ C * T \in Nat
    BY <1>1, <2>1, Z3
  <2>3. (p + b) \div C = a /\ (p + b) % C = b
    BY <1>1, <2>1, DivMod
  <2> HIDE DEF p
  <2>4. n \in 1 .. idx - 1 /\ n - 1 = p + b
    BY <1>1, <1>4, <2>1, <2>2
  <2> HIDE DEF n
  <2>5. FdAt(n) = <<i, j>>
    BY <1>d, <2>1, <2>3, <2>4
  <2> QED BY <2>4, <2>5
<1> QED BY <1>5, <1>d DEF Visited

LEMMA SameCounts ==
  UNCHANGED <<args, pmuVars, start_flag>> =>
    \A f : (FrameCounts(f) => FrameCounts(f)') /\ (TopCounts(f) => TopCounts(f)')
BY DEF FrameCounts, TopCounts, Frozen, Overall, IsEnd, Visited, FdAt, Fds, CpuNums, Events,
       pmuVars, Zero

(* The frame on top has moved, the others are as they were. *)
LEMMA MovesCounts ==
  ASSUME TypeOK, stack # <<>>, NEW n \in FrameSet, SetTop(n), n.sig = Top.sig,
         \A k \in 1 .. Len(stack) : k # Len(stack) =>
           \A f : f = stack[k] => FrameCounts(f)',
         FrameCounts(n)', TopCounts(n)'
  PROVE  CountsOK'
<1>1. /\ Len(stack') = Len(stack) /\ Len(stack) \in 1 .. Len(stack)
      /\ stack'[Len(stack)] = n /\ Top' = n
      /\ \A k \in 1 .. Len(stack) : k # Len(stack) => stack'[k] = stack[k]
  BY Moved DEF TypeOK
<1>2. ASSUME NEW k \in 1 .. Len(stack') PROVE FrameCounts(stack[k])'
  <2>1. \A f : f = stack'[k] => FrameCounts(f)'
    BY <1>1
  <2> QED BY <2>1
<1>3. TopCounts(Top)'
  BY <1>1
<1> QED BY <1>2, <1>3 DEF CountsOK

LEMMA BelowLoop ==
  ASSUME TypeOK, NestInv, stack # <<>>, Top.pc \in {"reset", "enable", "return"},
         NEW k \in 1 .. Len(stack), k # Len(stack)
  PROVE  /\ ~Overall /\ IsEnd(stack[k]) /\ ~Frozen(stack[k])
         /\ stack[k].pc \notin ExportPcs \cup {"reset", "enable", "return"}
<1>1. Top = stack[Len(stack)] /\ Len(stack) \in 1 .. Len(stack) /\ Top.sig \in Sigs
      /\ Len(stack) \in Nat
  BY TopType DEF TypeOK, FrameSet
<1>t. stack[k] \in FrameSet /\ stack[k].sig \in Sigs
  <2>1. stack[k] \in FrameSet
    BY ElementOfSeq DEF TypeOK
  <2> QED BY <2>1 DEF FrameSet
<1>2. FrameOK(Top) /\ FrameOK(stack[k])
  BY <1>1 DEF NestInv, FramesOK
<1>3. Top.sig = "ALRM"
  BY <1>1, <1>2 DEF NestInv, NestOK, FrameOK, Sigs, IsEnd, ExportPcs, FilePcs
<1>4. stack[k].sig # "ALRM" /\ stack[k].sig # "main"
  BY <1>1, <1>2, <1>3 DEF NestInv, NestOK, FrameOK
<1> QED BY <1>1, <1>t, <1>2, <1>3, <1>4 DEF FrameOK, Sigs, IsEnd, ExportPcs, FilePcs, Frozen

LEMMA WorkCounts ==
  ASSUME TypeOK, CounterInv, NEW i \in CpuNums, Work(i)
  PROVE  CounterInv'
<1>1. /\ UNCHANGED <<args, pc, start_flag, enabled, stack>>
      /\ count' = [fd \in Fds |->
                     IF fd[1] = i /\ {<<i, 1>>, fd} \subseteq enabled
                     THEN count[fd] + 1 ELSE count[fd]]
      /\ slept' = IF Measuring THEN [slept EXCEPT ![i] = @ + 1] ELSE slept
  BY DEF Work, resVars
<1>t. count \in [Fds -> Nat]
  BY DEF TypeOK
<1>2. enabled = {} => count' = count
  BY <1>1, <1>t
<1>3. stack # <<>> => slept' = slept
  BY <1>1 DEF Measuring
<1>4. CountsOK'
  <2>1. ASSUME NEW k \in 1 .. Len(stack), FrameCounts(stack[k]) PROVE FrameCounts(stack[k])'
    <3>1. Frozen(stack[k]) => count' = count
      BY <1>2, <2>1 DEF FrameCounts
    <3>2. stack # <<>>
      BY <2>1, EmptySeq
    <3>3. slept' = slept
      BY <1>3, <3>2
    <3>4. stack[k].pc \in {"read", "store", "inc", "check", "print", "reset"} => count' = count
      BY <3>1 DEF Frozen
    <3> QED BY <1>1, <2>1, <3>3, <3>4
            DEF FrameCounts, Frozen, Overall, IsEnd, Visited, FdAt, Fds, CpuNums, Events, Zero
  <2>2. stack # <<>> => TopCounts(Top)'
    BY <1>1 DEF CounterInv, CountsOK, TopCounts, Top, Visited, FdAt, Fds, CpuNums, Events
  <2> QED BY <1>1, <2>1, <2>2 DEF CounterInv, CountsOK, FrameCounts, TopCounts, Top
<1>5. QuietOK'
  <2>1. pc # "pause" \/ (~Overall /\ start_flag = FALSE) => slept' = slept
    BY <1>1 DEF Measuring
  <2> QED BY <1>1, <1>2, <2>1 DEF CounterInv, QuietOK, Overall
<1>6. StartedOK'
  BY <1>1 DEF CounterInv, StartedOK, Overall, Fds, CpuNums, Events
<1>7. GroupOK'
  <2> SUFFICES ASSUME \A k \in 1 .. Len(stack) : ~Resetting(k), NEW fd \in Fds
               PROVE  count'[fd] <= count'[<<fd[1], 1>>]
    BY <1>1 DEF GroupOK, Resetting, Fds, CpuNums, Events
  <2> DEFINE first == <<fd[1], 1>>
  <2>1. first \in Fds /\ first[1] = fd[1]
    <3>1. fd[1] \in CpuNums /\ 1 \in Events
      BY FiniteSets DEF TypeOK, Fds
    <3> QED BY <3>1 DEF Fds
  <2>2. count[fd] <= count[first] /\ count[fd] \in Nat /\ count[first] \in Nat
    BY <1>t, <2>1 DEF CounterInv, GroupOK
  <2> HIDE DEF first
  <2>3. CASE fd[1] = i /\ {<<i, 1>>, fd} \subseteq enabled
    <3>1. first = <<i, 1>> /\ {<<i, 1>>, first} \subseteq enabled /\ first[1] = i
      BY <2>3 DEF first
    <3>2. count'[fd] = count[fd] + 1 /\ count'[first] = count[first] + 1
      BY <1>1, <2>1, <2>3, <3>1
    <3> QED BY <2>2, <3>2 DEF first
  <2>4. CASE ~(fd[1] = i /\ {<<i, 1>>, fd} \subseteq enabled)
    <3>1. count'[fd] = count[fd]
      BY <1>1, <2>4
    <3>2. count'[first] = count[first] \/ count'[first] = count[first] + 1
      BY <1>1, <2>1
    <3> QED BY <2>2, <3>1, <3>2 DEF first
  <2> QED BY <2>3, <2>4
<1> QED BY <1>4, <1>5, <1>6, <1>7 DEF CounterInv

LEMMA CounterInit == Init => CounterInv
<1> SUFFICES ASSUME Init PROVE CounterInv
  OBVIOUS
<1>1. stack = <<>> /\ Len(stack) = 0 /\ start_flag = FALSE /\ pc = "args" /\ enabled = {}
  BY EmptySeq DEF Init
<1>e. 1 .. 0 = {}
  OBVIOUS
<1>2. Zero(count) /\ Zero(slept)
  BY DEF Init, Zero
<1>3. \A fd \in Fds : count[fd] <= count[<<fd[1], 1>>]
  <2>1. ASSUME NEW fd \in Fds PROVE <<fd[1], 1>> \in Fds
    BY FiniteSets DEF Init, Fds
  <2>2. \A fd \in Fds : count[fd] = 0
    BY DEF Init
  <2>3. ASSUME NEW fd \in Fds PROVE count[fd] <= count[<<fd[1], 1>>]
    <3>1. count[fd] = 0 /\ count[<<fd[1], 1>>] = 0
      BY <2>1, <2>2
    <3> QED BY <3>1
  <2> QED BY <2>3
<1>4. CountsOK
  BY <1>1, <1>e DEF CountsOK
<1>5. QuietOK
  BY <1>1, <1>2 DEF QuietOK
<1>6. StartedOK
  BY <1>1 DEF StartedOK
<1>7. GroupOK
  BY <1>3 DEF GroupOK
<1> QED BY <1>4, <1>5, <1>6, <1>7 DEF CounterInv

LEMMA StartupsCounts ==
  ASSUME TypeOK, NestInv, CounterInv, Startups
  PROVE  CounterInv'
<1>1. stack = <<>> /\ Len(stack) = 0 /\ pc # "pause" /\ UNCHANGED <<args, pmuVars, start_flag>>
  BY EmptySeq DEF Startups, CheckArgs, CreateEvents, Probe, Create, RemoveOld, Register, Start,
                  Startup, resVars
<1>e. 1 .. 0 = {}
  OBVIOUS
<1>2. enabled = {} /\ Zero(count) /\ Zero(slept)
  BY <1>1 DEF CounterInv, QuietOK
<1>3. enabled' = {} /\ Zero(count)' /\ Zero(slept)' /\ QuietOK'
  BY <1>1, <1>2 DEF QuietOK, Zero, pmuVars, Overall
<1>4. GroupOK'
  <2>1. \A fd \in Fds : count[fd] <= count[<<fd[1], 1>>]
    BY <1>1, <1>e DEF CounterInv, GroupOK
  <2> QED BY <1>1, <2>1 DEF GroupOK, pmuVars, Fds, CpuNums, Events
<1>5. CASE stack' = <<>> /\ (pc' = "pause" => ~Overall)
  <2>1. Len(stack') = 0
    BY <1>5, EmptySeq
  <2>2. StartedOK'
    BY <1>1, <1>5, <2>1 DEF CounterInv, StartedOK, Overall, pmuVars, Fds, CpuNums, Events
  <2> QED BY <1>3, <1>4, <1>5, <2>1, <2>2 DEF CounterInv, CountsOK
<1>6. CASE Overall /\ stack' = <<Frame("main", "reset")>>
  <2>0. PICK f : f = Frame("main", "reset")
    OBVIOUS
  <2>1. Len(stack') = 1 /\ stack'[1] = f /\ stack' # <<>> /\ Top' = f
    BY <1>6, <2>0 DEF Top
  <2>2. f.sig = "main" /\ f.pc = "reset" /\ f.idx = 1
    BY <2>0 DEF Frame
  <2>3. \A k : k \in 1 .. Len(stack') <=> k = 1
    BY <2>1
  <2>4. Visited(1)' = {}
    <3>1. 1 .. 1 - 1 = {}
      OBVIOUS
    <3> QED BY <3>1 DEF Visited
  <2>5. FrameCounts(f)' /\ TopCounts(f)'
    BY <1>3, <2>2, <2>4 DEF FrameCounts, TopCounts
  <2>8. ASSUME NEW k \in 1 .. Len(stack') PROVE FrameCounts(stack[k])'
    <3>1. stack'[k] = f
      BY <2>1, <2>3
    <3> QED BY <2>5, <3>1
  <2>9. TopCounts(Top)'
    BY <2>1, <2>5
  <2>6. CountsOK'
    BY <2>8, <2>9 DEF CountsOK
  <2>7. StartedOK'
    BY <1>1, <1>6, <2>1 DEF StartedOK, Overall
  <2> QED BY <1>3, <1>4, <2>6, <2>7 DEF CounterInv
<1> QED BY <1>1, <1>5, <1>6
        DEF Startups, CheckArgs, CreateEvents, Probe, Create, RemoveOld, Register, Start

(* A new frame at the start of a handler, above the others. *)
LEMMA PushCounts ==
  ASSUME TypeOK, CounterInv, NEW f \in FrameSet, stack' = Append(stack, f),
         \/ f.sig = "ALRM" /\ f.pc = "tick"
         \/ IsEnd(f) /\ f.pc = "begin",
         UNCHANGED <<args, pc, pmuVars, start_flag>>
  PROVE  CounterInv'
<1>1. /\ Len(stack) \in Nat /\ Len(stack') = Len(stack) + 1 /\ stack'[Len(stack) + 1] = f
      /\ \A k \in 1 .. Len(stack) : stack'[k] = stack[k] /\ k \in 1 .. Len(stack')
  BY PushType, LenProperties DEF TypeOK
<1>2. \A k \in 1 .. Len(stack') : k \in 1 .. Len(stack) \/ k = Len(stack) + 1
  BY <1>1
<1>3. stack' # <<>> /\ Top' = f
  BY <1>1, EmptySeq DEF Top
<1>4. FrameCounts(f)' /\ TopCounts(f)'
  BY DEF FrameCounts, TopCounts, Frozen, IsEnd
<1>5. CountsOK'
  <2>1. ASSUME NEW k \in 1 .. Len(stack') PROVE FrameCounts(stack[k])'
    <3>1. \A g : g = stack'[k] => FrameCounts(g)'
      BY <1>1, <1>2, <1>4, SameCounts DEF CounterInv, CountsOK
    <3> QED BY <3>1
  <2>2. TopCounts(Top)'
    BY <1>3, <1>4
  <2> QED BY <2>1, <2>2 DEF CountsOK
<1>6. QuietOK'
  BY DEF CounterInv, QuietOK, Overall, pmuVars, Zero
<1>7. StartedOK'
  BY <1>1, <1>3 DEF CounterInv, StartedOK, Overall, pmuVars, Fds, CpuNums, Events
<1>8. GroupOK'
  BY <1>1 DEF CounterInv, GroupOK, Resetting, pmuVars, Fds, CpuNums, Events
<1> QED BY <1>5, <1>6, <1>7, <1>8 DEF CounterInv

-----------------------------------------------------------------------------
(* The steps of the handlers *)

LEMMA FewerCounts ==
  ASSUME UNCHANGED <<args, count, slept>>, enabled' \subseteq enabled,
         start_flag = TRUE => start_flag' = TRUE
  PROVE  \A f : FrameCounts(f) => FrameCounts(f)'
BY DEF FrameCounts, Frozen, Overall, IsEnd, Visited, FdAt, Fds, CpuNums, Events, Zero

LEMMA TopFacts ==
  ASSUME TypeOK, NestInv, CounterInv, stack # <<>>
  PROVE  /\ stack \in Seq(FrameSet) /\ Top \in FrameSet /\ Top = stack[Len(stack)]
         /\ Len(stack) \in 1 .. Len(stack)
         /\ Top.sig \in Sigs /\ Top.pc \in FramePcs /\ Top.idx \in Nat /\ Top.val \in [Fds -> Nat]
         /\ FrameOK(Top) /\ FrameCounts(Top) /\ TopCounts(Top)
         /\ Top.sig \in {"ALRM", "main"} => pc = "pause"
<1>1. /\ stack \in Seq(FrameSet) /\ Top \in FrameSet /\ Top = stack[Len(stack)]
      /\ Len(stack) \in 1 .. Len(stack)
  BY TopType DEF TypeOK
<1>2. Top.sig \in Sigs /\ Top.pc \in FramePcs /\ Top.idx \in Nat /\ Top.val \in [Fds -> Nat]
  BY <1>1 DEF FrameSet
<1>3. FrameOK(Top) /\ (Top.sig \in {"ALRM", "main"} => pc = "pause")
  BY <1>1 DEF NestInv, FramesOK, TimerOK
<1>4. FrameCounts(Top) /\ TopCounts(Top)
  BY <1>1 DEF CounterInv, CountsOK
<1> QED BY <1>1, <1>2, <1>3, <1>4

LEMMA MovesStarted ==
  ASSUME TypeOK, StartedOK, stack # <<>>, NEW n \in FrameSet, SetTop(n), n.sig = Top.sig,
         UNCHANGED <<args, pc>>,
         UNCHANGED <<enabled, start_flag>> \/ Overall \/ Top.sig = "ALRM"
  PROVE  StartedOK'
<1>1. /\ Len(stack') = Len(stack) /\ Len(stack) \in 1 .. Len(stack) /\ stack' # <<>>
      /\ Top = stack[Len(stack)]
      /\ \A k \in 1 .. Len(stack) : stack'[k].sig = stack[k].sig
  BY Moved DEF TypeOK
<1>2. Overall' = Overall /\ Fds' = Fds
  BY SameArgs
<1> QED BY <1>1, <1>2 DEF StartedOK

LEMMA MovesGroup ==
  ASSUME TypeOK, GroupOK, stack # <<>>, NEW n \in FrameSet, SetTop(n), n.sig = Top.sig,
         UNCHANGED <<args, count>>, ~(Top.sig = "ALRM" /\ Top.pc = "reset")
  PROVE  GroupOK'
<1>1. /\ Len(stack') = Len(stack) /\ Len(stack) \in 1 .. Len(stack)
      /\ Top = stack[Len(stack)]
      /\ \A k \in 1 .. Len(stack) : k # Len(stack) => stack'[k] = stack[k]
  BY Moved DEF TypeOK
<1>2. Fds' = Fds
  BY SameArgs
<1>3. (\A k \in 1 .. Len(stack') : ~Resetting(k)') => \A k \in 1 .. Len(stack) : ~Resetting(k)
  BY <1>1 DEF Resetting
<1> QED BY <1>2, <1>3 DEF GroupOK

(* The frames below one that starts the counters have nothing to do with them. *)
LEMMA BelowCounts ==
  ASSUME TypeOK, NestInv, stack # <<>>, Top.pc \in {"reset", "enable", "return"}, args' = args
  PROVE  \A k \in 1 .. Len(stack) : k # Len(stack) => \A f : f = stack[k] => FrameCounts(f)'
<1> SUFFICES ASSUME NEW k \in 1 .. Len(stack), k # Len(stack), NEW f, f = stack[k]
             PROVE  FrameCounts(f)'
  OBVIOUS
<1>1. ~Overall /\ IsEnd(f) /\ ~Frozen(f) /\ f.pc \notin ExportPcs \cup {"reset", "enable", "return"}
  BY BelowLoop
<1>2. Overall' = Overall
  BY SameArgs
<1> QED BY <1>1, <1>2 DEF FrameCounts, Frozen, IsEnd, ExportPcs

LEMMA StopCounts ==
  ASSUME TypeOK, NestInv, CounterInv, StopCounter
  PROVE  CounterInv'
<1>1. /\ UNCHANGED <<args, pc, start_flag, count, slept>> /\ stack # <<>> /\ Top.pc = "stop"
      /\ FdAt(Top.idx) \in Fds => NextIdx /\ enabled' = enabled \ {FdAt(Top.idx)}
      /\ FdAt(Top.idx) \notin Fds => Goto("read") /\ enabled' = enabled
  BY DEF StopCounter, ForEach, At, StopOne, pmuVars, resVars
<1>2. /\ stack \in Seq(FrameSet) /\ Top.sig \in Sigs /\ Top.idx \in Nat /\ Top.idx >= 1
      /\ Overall \/ Top.sig = "ALRM"
      /\ Top.sig = "ALRM" => start_flag = TRUE
      /\ \A fd \in Visited(Top.idx) : fd \notin enabled
      /\ Top.sig # "main"
  <2>1. FrameOK(Top) /\ FrameCounts(Top) /\ stack \in Seq(FrameSet) /\ Top.sig \in Sigs /\ Top.idx \in Nat
    BY <1>1, TopFacts
  <2> QED BY <1>1, <2>1 DEF FrameOK, FrameCounts, Sigs, IsEnd, ExportPcs
<1>3. PICK n \in FrameSet :
        /\ SetTop(n) /\ n.sig = Top.sig
        /\ FrameCounts(n)' /\ TopCounts(n)'
  <2>1. CASE FdAt(Top.idx) \in Fds
    <3>1. PICK n \in FrameSet : SetTop(n) /\ n.sig = Top.sig /\ n.pc = "stop" /\ n.idx = Top.idx + 1
      BY <1>1, <1>2, <2>1, NextIdxMoves
    <3>2. Visited(n.idx) = Visited(Top.idx) \cup {FdAt(Top.idx)}
      BY <1>2, <2>1, <3>1, VisitedNext
    <3>3. Visited(n.idx)' = Visited(n.idx)
      BY <1>1, SameArgs DEF Visited
    <3>4. \A fd \in Visited(n.idx) : fd \notin enabled'
      BY <1>1, <1>2, <2>1, <3>2
    <3>5. FrameCounts(n)' /\ TopCounts(n)'
      BY <1>1, <1>2, <3>1, <3>3, <3>4 DEF FrameCounts, TopCounts, Frozen
    <3> QED BY <3>1, <3>5
  <2>2. CASE FdAt(Top.idx) \notin Fds
    <3>1. PICK n \in FrameSet : SetTop(n) /\ n.sig = Top.sig /\ n.pc = "read" /\ n.idx = 1
      BY <1>1, <1>2, <2>2, GotoMoves DEF FramePcs
    <3>2. Visited(Top.idx) = Fds
      BY <1>2, <2>2, VisitedAll DEF TypeOK
    <3>3. enabled' = {}
      BY <1>1, <1>2, <2>2, <3>2 DEF TypeOK
    <3>4. Visited(1)' = {}
      BY VisitedNone DEF Visited
    <3>5. FrameCounts(n)' /\ TopCounts(n)'
      BY <1>1, <1>2, <3>1, <3>3, <3>4 DEF FrameCounts, TopCounts
    <3> QED BY <3>1, <3>5
  <2> QED BY <2>1, <2>2
<1>4. enabled' \subseteq enabled
  BY <1>1
<1>5. CountsOK'
  <2>1. \A k \in 1 .. Len(stack) : k # Len(stack) => \A f : f = stack[k] => FrameCounts(f)'
    BY <1>1, <1>4, FewerCounts DEF CounterInv, CountsOK
  <2> QED BY <1>1, <1>3, <2>1, MovesCounts
<1>6. QuietOK'
  BY <1>1, <1>4 DEF CounterInv, QuietOK, Overall, Zero
<1>7. StartedOK'
  BY <1>1, <1>2, <1>3, MovesStarted DEF CounterInv
<1>8. GroupOK'
  BY <1>1, <1>3, MovesGroup DEF CounterInv
<1> QED BY <1>5, <1>6, <1>7, <1>8 DEF CounterInv

(* Only main() and a tick that is not the first start the counters. *)
LEMMA StartingFrame ==
  ASSUME TypeOK, NestInv, CounterInv, stack # <<>>, Top.pc \in {"reset", "enable", "return"}
  PROVE  /\ pc = "pause" /\ Top.sig \in {"ALRM", "main"}
         /\ Overall => Top.sig = "main" /\ Zero(slept)
         /\ ~Overall => Top.sig = "ALRM" /\ start_flag = TRUE
<1>1. /\ FrameOK(Top) /\ FrameCounts(Top) /\ Top.sig \in Sigs
      /\ Top.sig \in {"ALRM", "main"} => pc = "pause"
  BY TopFacts
<1> QED BY <1>1 DEF FrameOK, FrameCounts, Sigs, IsEnd, ExportPcs, FilePcs

LEMMA StartingQuiet ==
  ASSUME TypeOK, NestInv, CounterInv, stack # <<>>, Top.pc \in {"reset", "enable", "return"},
         UNCHANGED <<args, pc, start_flag>>
  PROVE  QuietOK'
<1>1. pc = "pause" /\ (~Overall => start_flag = TRUE)
  BY StartingFrame
<1> QED BY <1>1 DEF QuietOK, Overall

LEMMA ResetCounts ==
  ASSUME TypeOK, NestInv, CounterInv, ResetCounter
  PROVE  CounterInv'
<1>1. /\ UNCHANGED <<args, pc, start_flag, enabled, slept>> /\ stack # <<>> /\ Top.pc = "reset"
      /\ FdAt(Top.idx) \in Fds => NextIdx /\ count' = [count EXCEPT ![FdAt(Top.idx)] = 0]
      /\ FdAt(Top.idx) \notin Fds => Goto("enable") /\ count' = count
  BY DEF ResetCounter, ForEach, At, ResetOne, pmuVars, resVars
<1>2. /\ stack \in Seq(FrameSet) /\ Top.idx \in Nat /\ Top.idx >= 1 /\ enabled = {}
      /\ \A fd \in Visited(Top.idx) : count[fd] = 0
      /\ Top.sig = "main" => Zero(slept) /\ Zero(count)
  <2>1. FrameOK(Top) /\ FrameCounts(Top) /\ stack \in Seq(FrameSet) /\ Top.idx \in Nat
    BY <1>1, TopFacts
  <2> QED BY <1>1, <2>1 DEF FrameOK, FrameCounts, Frozen
<1>3. Top.sig \in {"ALRM", "main"} /\ (~Overall => Top.sig = "ALRM" /\ start_flag = TRUE)
      /\ (Overall => Top.sig = "main")
  BY <1>1, StartingFrame
<1>t. count \in [Fds -> Nat] /\ Fds' = Fds /\ Overall' = Overall
  BY <1>1, SameArgs DEF TypeOK
<1>4. (Zero(count) => Zero(count)') /\ Zero(slept)' = Zero(slept)
  <2>1. CASE FdAt(Top.idx) \in Fds
    BY <1>1, <1>t, <2>1 DEF Zero
  <2>2. CASE FdAt(Top.idx) \notin Fds
    BY <1>1, <2>2 DEF Zero
  <2> QED BY <1>1, <2>1, <2>2 DEF Zero
<1>5. CASE FdAt(Top.idx) \in Fds
  <2>1. PICK n \in FrameSet : SetTop(n) /\ n.sig = Top.sig /\ n.pc = "reset" /\ n.idx = Top.idx + 1
    BY <1>1, <1>2, <1>5, NextIdxMoves
  <2>2. Visited(n.idx) = Visited(Top.idx) \cup {FdAt(Top.idx)}
    BY <1>2, <1>5, <2>1, VisitedNext
  <2>3. Visited(n.idx)' = Visited(n.idx)
    BY <1>1, SameArgs DEF Visited
  <2>4. \A fd \in Visited(n.idx) : count'[fd] = 0
    <3>1. Visited(Top.idx) \subseteq Fds
      BY DEF Visited
    <3> QED BY <1>1, <1>2, <1>5, <1>t, <2>2, <3>1
  <2>5. FrameCounts(n)' /\ TopCounts(n)'
    <3>1. n.sig = "main" => Zero(slept)' /\ Zero(count)'
      BY <1>2, <1>4, <2>1
    <3>2. n.sig = "ALRM" => start_flag' = TRUE
      BY <1>1, <1>3, <2>1
    <3> QED BY <1>1, <1>2, <2>1, <2>3, <2>4, <3>1, <3>2 DEF FrameCounts, TopCounts
  <2>6. CountsOK'
    BY <1>1, <2>1, <2>5, BelowCounts, MovesCounts
  <2>7. GroupOK'
    <3>1. CASE n.sig = "ALRM"
      <4>1. /\ Len(stack') = Len(stack) /\ Len(stack) \in 1 .. Len(stack)
            /\ stack'[Len(stack)] = n
        BY <1>1, <1>2, <2>1, Moved
      <4> QED BY <2>1, <3>1, <4>1 DEF GroupOK, Resetting
    <3>2. CASE n.sig = "main"
      <4>1. Zero(count)' /\ count' \in [Fds -> Nat]
        BY <1>1, <1>2, <1>4, <1>5, <1>t, <2>1, <3>2
      <4>2. \A fd \in Fds : <<fd[1], 1>> \in Fds
        BY FiniteSets DEF Fds, TypeOK
      <4>3. \A fd \in Fds : count'[fd] = 0
        BY <4>1 DEF Zero
      <4>4. ASSUME NEW fd \in Fds PROVE count'[fd] <= count'[<<fd[1], 1>>]
        <5>1. count'[fd] = 0 /\ count'[<<fd[1], 1>>] = 0
          BY <4>2, <4>3
        <5> QED BY <5>1
      <4> QED BY <1>t, <4>4 DEF GroupOK
    <3> QED BY <1>3, <2>1, <3>1, <3>2
  <2> QED BY <1>1, <1>3, <2>1, <2>6, <2>7, StartingQuiet, MovesStarted DEF CounterInv
<1>6. CASE FdAt(Top.idx) \notin Fds
  <2>1. PICK n \in FrameSet : SetTop(n) /\ n.sig = Top.sig /\ n.pc = "enable" /\ n.idx = 1
    BY <1>1, <1>2, <1>6, GotoMoves DEF FramePcs
  <2>2. Visited(1)' = {}
    BY VisitedNone DEF Visited
  <2>3. FrameCounts(n)' /\ TopCounts(n)'
    <3>1. n.sig = "main" => Zero(slept)'
      BY <1>2, <1>4, <2>1
    <3>2. n.sig = "ALRM" => start_flag' = TRUE
      BY <1>1, <1>3, <2>1
    <3> QED BY <1>1, <1>2, <2>1, <2>2, <3>1, <3>2 DEF FrameCounts, TopCounts
  <2>4. CountsOK'
    BY <1>1, <2>1, <2>3, BelowCounts, MovesCounts
  <2>5. Visited(Top.idx) = Fds
    BY <1>2, <1>6, VisitedAll DEF TypeOK
  <2>6. GroupOK'
    <3>1. \A fd \in Fds : <<fd[1], 1>> \in Fds
      BY FiniteSets DEF Fds, TypeOK
    <3>2. \A fd \in Fds : count'[fd] = 0
      BY <1>1, <1>2, <1>6, <2>5
    <3>3. ASSUME NEW fd \in Fds PROVE count'[fd] <= count'[<<fd[1], 1>>]
      <4>1. count'[fd] = 0 /\ count'[<<fd[1], 1>>] = 0
        BY <3>1, <3>2
      <4> QED BY <4>1
    <3> QED BY <1>t, <3>3 DEF GroupOK
  <2> QED BY <1>1, <1>3, <2>1, <2>4, <2>6, StartingQuiet, MovesStarted DEF CounterInv
<1> QED BY <1>5, <1>6

LEMMA StartCounts ==
  ASSUME TypeOK, NestInv, CounterInv, StartCounter
  PROVE  CounterInv'
<1>1. /\ UNCHANGED <<args, pc, start_flag, count, slept>> /\ stack # <<>> /\ Top.pc = "enable"
      /\ FdAt(Top.idx) \in Fds => NextIdx /\ enabled' = enabled \cup {FdAt(Top.idx)}
      /\ FdAt(Top.idx) \notin Fds => Goto("return") /\ enabled' = enabled
  BY DEF StartCounter, ForEach, At, EnableOne, pmuVars, resVars
<1>2. /\ stack \in Seq(FrameSet) /\ Top.idx \in Nat /\ Top.idx >= 1
      /\ Visited(Top.idx) \subseteq enabled
  <2>1. FrameOK(Top) /\ TopCounts(Top) /\ stack \in Seq(FrameSet) /\ Top.idx \in Nat
    BY <1>1, TopFacts
  <2> QED BY <1>1, <2>1 DEF FrameOK, TopCounts
<1>3. Top.sig \in {"ALRM", "main"} /\ (~Overall => Top.sig = "ALRM" /\ start_flag = TRUE)
      /\ (Overall => Top.sig = "main" /\ Zero(slept))
  BY <1>1, StartingFrame
<1>t. Fds' = Fds /\ Overall' = Overall
  BY <1>1, SameArgs
<1>4. ASSUME NEW n \in FrameSet, n.sig = Top.sig, n.pc \in {"enable", "return"}
      PROVE  FrameCounts(n)'
  <2>1. n.sig = "main" => Zero(slept)'
    <3>1. n.sig = "main" => Overall
      BY <1>3, <1>4
    <3> QED BY <1>1, <1>3, <3>1 DEF Zero
  <2>2. n.sig = "ALRM" => start_flag' = TRUE
    <3>1. n.sig = "ALRM" => ~Overall
      BY <1>3, <1>4
    <3> QED BY <1>1, <1>3, <3>1
  <2> QED BY <1>3, <1>4, <2>1, <2>2 DEF FrameCounts, Frozen, IsEnd
<1>5. PICK n \in FrameSet : SetTop(n) /\ n.sig = Top.sig /\ FrameCounts(n)' /\ TopCounts(n)'
  <2>1. CASE FdAt(Top.idx) \in Fds
    <3>1. PICK n \in FrameSet : SetTop(n) /\ n.sig = Top.sig /\ n.pc = "enable" /\ n.idx = Top.idx + 1
      BY <1>1, <1>2, <2>1, NextIdxMoves
    <3>2. Visited(n.idx) = Visited(Top.idx) \cup {FdAt(Top.idx)}
      BY <1>2, <2>1, <3>1, VisitedNext
    <3>3. Visited(n.idx)' = Visited(n.idx)
      BY <1>1, SameArgs DEF Visited
    <3>4. TopCounts(n)'
      BY <1>1, <1>2, <2>1, <3>1, <3>2, <3>3 DEF TopCounts
    <3> QED BY <1>4, <3>1, <3>4
  <2>2. CASE FdAt(Top.idx) \notin Fds
    <3>1. PICK n \in FrameSet : SetTop(n) /\ n.sig = Top.sig /\ n.pc = "return" /\ n.idx = 1
      BY <1>1, <1>2, <2>2, GotoMoves DEF FramePcs
    <3>2. Visited(Top.idx) = Fds
      BY <1>2, <2>2, VisitedAll DEF TypeOK
    <3>3. enabled' = Fds
      BY <1>1, <1>2, <2>2, <3>2 DEF TypeOK
    <3>4. TopCounts(n)'
      BY <1>t, <3>1, <3>3 DEF TopCounts
    <3> QED BY <1>4, <3>1, <3>4
  <2> QED BY <2>1, <2>2
<1>6. CountsOK'
  BY <1>1, <1>5, BelowCounts, MovesCounts
<1>7. StartedOK'
  BY <1>1, <1>3, <1>5, MovesStarted DEF CounterInv
<1>8. GroupOK'
  BY <1>1, <1>5, MovesGroup DEF CounterInv
<1> QED BY <1>1, <1>6, <1>7, <1>8, StartingQuiet DEF CounterInv

(* The steps of a handler that leave the counters alone. *)
LEMMA StillCounts ==
  ASSUME TypeOK, NestInv, CounterInv, stack # <<>>, NEW n \in FrameSet, SetTop(n),
         n.sig = Top.sig, Top.pc # "reset", UNCHANGED <<args, pc, pmuVars>>,
         start_flag' = start_flag \/ (start_flag' = TRUE /\ Top.sig = "ALRM"),
         FrameCounts(n)', TopCounts(n)'
  PROVE  CounterInv'
<1>1. enabled' \subseteq enabled /\ UNCHANGED <<enabled, count, slept>>
  BY DEF pmuVars
<1>2. CountsOK'
  <2>1. \A k \in 1 .. Len(stack) : k # Len(stack) => \A f : f = stack[k] => FrameCounts(f)'
    BY <1>1, FewerCounts DEF CounterInv, CountsOK
  <2> QED BY <2>1, MovesCounts
<1>3. QuietOK'
  <2>1. Top.sig = "ALRM" => pc = "pause"
    BY TopFacts
  <2> QED BY <1>1, <2>1 DEF CounterInv, QuietOK, Overall, Zero
<1>4. StartedOK'
  BY <1>1, MovesStarted DEF CounterInv
<1>5. GroupOK'
  BY <1>1, MovesGroup DEF CounterInv
<1> QED BY <1>2, <1>3, <1>4, <1>5 DEF CounterInv

LEMMA ReadCounts ==
  ASSUME TypeOK, NestInv, CounterInv, ReadCounter
  PROVE  CounterInv'
<1>1. /\ UNCHANGED <<args, pc, start_flag, pmuVars>> /\ stack # <<>> /\ Top.pc = "read"
  BY DEF ReadCounter, At, resVars
<1>2. /\ stack \in Seq(FrameSet) /\ Top \in FrameSet /\ Top.idx \in Nat /\ Top.idx >= 1
      /\ enabled = {} /\ Top.val \in [Fds -> Nat] /\ Top.sig # "main"
      /\ \A fd \in Visited(Top.idx) : Top.val[fd] = count[fd]
      /\ Top.sig = "ALRM" => start_flag = TRUE
  <2>1. FrameOK(Top) /\ FrameCounts(Top) /\ stack \in Seq(FrameSet) /\ Top \in FrameSet
        /\ Top.idx \in Nat /\ Top.val \in [Fds -> Nat]
    BY <1>1, TopFacts
  <2> QED BY <1>1, <2>1 DEF FrameOK, FrameCounts, Frozen
<1>t. count \in [Fds -> Nat] /\ UNCHANGED <<enabled, count, slept>>
  BY <1>1 DEF TypeOK, pmuVars
<1>3. CASE FdAt(Top.idx) \in Fds
  <2>0. PICK fd \in Fds : fd = FdAt(Top.idx)
    BY <1>3
  <2>1. PICK n \in FrameSet :
          /\ SetTop(n) /\ n.sig = Top.sig /\ n.pc = "read" /\ n.idx = Top.idx + 1
          /\ n.val = [Top.val EXCEPT ![fd] = count[fd]]
    <3> DEFINE f == [Top EXCEPT !.val[fd] = count[fd], !.idx = @ + 1]
    <3>1. SetTop(f)
      BY <1>3, <2>0 DEF ReadCounter
    <3>2. count[fd] \in Nat /\ Top.idx + 1 \in Nat
      BY <1>2, <1>t
    <3>3. [Top.val EXCEPT ![fd] = count[fd]] \in [Fds -> Nat]
      BY <1>2, <3>2
    <3>4. f = [Top EXCEPT !.val = [Top.val EXCEPT ![fd] = count[fd]], !.idx = Top.idx + 1]
      BY <1>2 DEF FrameSet
    <3>5. /\ f \in FrameSet /\ f.sig = Top.sig /\ f.pc = "read" /\ f.idx = Top.idx + 1
          /\ f.val = [Top.val EXCEPT ![fd] = count[fd]]
      BY <1>1, <1>2, <3>2, <3>3, <3>4 DEF FrameSet
    <3> HIDE DEF f
    <3> QED BY <3>1, <3>5
  <2>2. Visited(n.idx) = Visited(Top.idx) \cup {fd}
    BY <1>2, <2>0, <2>1, VisitedNext
  <2>3. \A d \in Visited(n.idx) : n.val[d] = count[d]
    <3>1. Visited(Top.idx) \subseteq Fds
      BY DEF Visited
    <3> QED BY <1>2, <2>1, <2>2, <3>1
  <2>4. Visited(n.idx)' = Visited(n.idx)
    BY <1>1, SameArgs DEF Visited
  <2>5. FrameCounts(n)' /\ TopCounts(n)'
    BY <1>1, <1>2, <1>t, <2>1, <2>3, <2>4 DEF FrameCounts, TopCounts
  <2> QED BY <1>1, <2>1, <2>5, StillCounts
<1>4. CASE FdAt(Top.idx) \notin Fds
  <2>1. PICK n \in FrameSet : SetTop(n) /\ n.sig = Top.sig /\ n.pc \in {"store", "print"}
                              /\ n.val = Top.val
    <3>1. Goto("store") \/ Goto("print")
      BY <1>4 DEF ReadCounter
    <3> QED BY <1>1, <1>2, <3>1, GotoMoves DEF FramePcs
  <2>2. Visited(Top.idx) = Fds
    BY <1>2, <1>4, VisitedAll DEF TypeOK
  <2>3. n.val = count
    BY <1>2, <1>t, <2>1, <2>2
  <2>4. FrameCounts(n)' /\ TopCounts(n)'
    BY <1>1, <1>2, <1>t, <2>1, <2>3 DEF FrameCounts, TopCounts
  <2> QED BY <1>1, <2>1, <2>4, StillCounts
<1> QED BY <1>3, <1>4

LEMMA TickCounts ==
  ASSUME TypeOK, NestInv, CounterInv, Tick
  PROVE  CounterInv'
<1>1. /\ UNCHANGED <<args, pc, pmuVars>> /\ start_flag' = TRUE /\ stack # <<>> /\ Top.pc = "tick"
      /\ Goto(IF start_flag THEN "stop" ELSE "reset")
  BY DEF Tick, At, FirstCall
<1>2. Top.sig = "ALRM" /\ ~Overall /\ stack \in Seq(FrameSet)
  <2>1. FrameOK(Top) /\ Top.sig \in Sigs /\ stack \in Seq(FrameSet)
    BY <1>1, TopFacts
  <2> QED BY <1>1, <2>1 DEF FrameOK, Sigs, IsEnd, ExportPcs, FilePcs
<1>3. PICK n \in FrameSet : /\ SetTop(n) /\ n.sig = Top.sig /\ n.idx = 1
                            /\ n.pc = IF start_flag THEN "stop" ELSE "reset"
  BY <1>1, <1>2, GotoMoves DEF FramePcs
<1>4. n.pc = "reset" => enabled = {}
  <2>1. start_flag \in BOOLEAN
    BY DEF TypeOK
  <2> QED BY <1>2, <1>3, <2>1 DEF CounterInv, QuietOK
<1>5. Visited(1)' = {}
  BY VisitedNone DEF Visited
<1>6. UNCHANGED <<enabled, count, slept>> /\ n.pc \in {"stop", "reset"}
  BY <1>1, <1>3 DEF pmuVars
<1>7. FrameCounts(n)' /\ TopCounts(n)'
  BY <1>1, <1>2, <1>3, <1>4, <1>5, <1>6 DEF FrameCounts, TopCounts, Frozen, IsEnd
<1> QED BY <1>1, <1>2, <1>3, <1>7, StillCounts

LEMMA PlainCounts ==
  ASSUME TypeOK, NestInv, CounterInv, stack # <<>>, Moves,
         Top.pc \notin {"stop", "read", "reset", "enable", "tick"},
         UNCHANGED <<args, pc, pmuVars, start_flag>>
  PROVE  CounterInv'
<1>1. PICK n \in FrameSet : SetTop(n) /\ n.sig = Top.sig /\ Flow(Top, n) /\ n.val = Top.val
  BY DEF Moves, MovesTo
<1>2. /\ FrameOK(Top) /\ FrameCounts(Top) /\ Top.pc \in FramePcs /\ Top.sig \in Sigs
  BY TopFacts
<1>3. Top.sig # "main"
  <2>1. Top.pc # "return"
    BY <1>1 DEF Flow
  <2> QED BY <1>2, <2>1 DEF FrameOK
<1>4. Frozen(n) => enabled = {}
  <2>1. Frozen(n) => Frozen(Top)
    BY <1>1, <1>2 DEF Flow, Frozen, IsEnd, FrameOK, ExportPcs
  <2> QED BY <1>2, <2>1 DEF FrameCounts
<1>5. n.pc \in {"stop", "reset"} => n.idx = 1
  BY <1>1 DEF Flow
<1>6. n.pc \in {"store", "inc", "check", "print"} => n.val = count
  BY <1>1, <1>2 DEF Flow, FrameCounts
<1>7. n.pc \notin {"read", "enable", "return"}
  BY <1>1 DEF Flow
<1>8. n.sig = "ALRM" => start_flag = TRUE
  BY <1>1, <1>2 DEF FrameCounts
<1>9. Visited(1) = {}
  BY VisitedNone
<1>10. FrameCounts(n) /\ TopCounts(n)
  BY <1>1, <1>3, <1>4, <1>5, <1>6, <1>7, <1>8, <1>9 DEF FrameCounts, TopCounts
<1>11. FrameCounts(n)' /\ TopCounts(n)'
  BY <1>10, SameCounts
<1> QED BY <1>1, <1>11, StillCounts

LEMMA PopCounts ==
  ASSUME TypeOK, NestInv, CounterInv, stack # <<>>, Top.pc = "return",
         stack' = SubSeq(stack, 1, Len(stack) - 1), UNCHANGED <<args, pc, pmuVars, start_flag>>
  PROVE  CounterInv'
<1>1. /\ Len(stack') = Len(stack) - 1 /\ Len(stack) \in Nat \ {0} /\ stack' \in Seq(FrameSet)
      /\ \A k \in 1 .. Len(stack) - 1 : stack'[k] = stack[k]
  BY PopType, TopType DEF TypeOK
<1>2. enabled = Fds /\ Top = stack[Len(stack)]
  BY TopFacts DEF TopCounts
<1>3. UNCHANGED <<enabled, count, slept>> /\ Fds' = Fds /\ Overall' = Overall
  BY SameArgs DEF pmuVars
<1>4. CountsOK'
  <2>1. ASSUME NEW k \in 1 .. Len(stack') PROVE FrameCounts(stack[k])'
    <3>1. \A f : f = stack'[k] => FrameCounts(f)'
      BY <1>1, BelowCounts
    <3> QED BY <3>1
  <2>2. ASSUME stack' # <<>> PROVE TopCounts(Top)'
    <3>1. Len(stack') \in 1 .. Len(stack) - 1
      <4>1. Len(stack') # 0
        BY <1>1, <2>2, EmptySeq
      <4> QED BY <1>1, <4>1
    <3>2. PICK f : f = stack[Len(stack')]
      OBVIOUS
    <3>3. Top' = f
      BY <1>1, <3>1, <3>2 DEF Top
    <3>4. f.pc \notin {"enable", "return"}
      BY <1>1, <3>1, <3>2, BelowLoop
    <3>5. TopCounts(f)'
      BY <3>4 DEF TopCounts
    <3> QED BY <3>3, <3>5
  <2> QED BY <2>1, <2>2 DEF CountsOK
<1>5. StartedOK'
  BY <1>2, <1>3 DEF StartedOK
<1>6. GroupOK'
  <2>1. (\A k \in 1 .. Len(stack') : ~Resetting(k)') => \A k \in 1 .. Len(stack) : ~Resetting(k)
    <3>1. \A k \in 1 .. Len(stack) : k \in 1 .. Len(stack) - 1 \/ k = Len(stack)
      BY <1>1
    <3> QED BY <1>1, <1>2, <3>1 DEF Resetting
  <2> QED BY <1>3, <2>1 DEF CounterInv, GroupOK
<1> QED BY <1>4, <1>5, <1>6, StartingQuiet DEF CounterInv

LEMMA SameCounter ==
  CounterInv /\ UNCHANGED <<args, pc, pmuVars, start_flag, stack>> => CounterInv'
BY DEF CounterInv, CountsOK, FrameCounts, TopCounts, Frozen, Overall, IsEnd, Visited, FdAt, Fds,
       CpuNums, Events, pmuVars, Zero, Top, QuietOK, StartedOK, GroupOK, Resetting

LEMMA HandlersCounts ==
  ASSUME TypeOK, NestInv, CounterInv, Handlers
  PROVE  CounterInv'
<1>1. stack # <<>> /\ UNCHANGED <<args, pc>>
  BY HandlersKeep
<1>2. CASE StopCounter \/ ResetCounter \/ StartCounter \/ ReadCounter \/ Tick
  BY <1>2, StopCounts, ResetCounts, StartCounts, ReadCounts, TickCounts
<1>3. CASE ~(StopCounter \/ ResetCounter \/ StartCounter \/ ReadCounter \/ Tick)
  <2>1. UNCHANGED <<pmuVars, start_flag>>
    BY <1>3 DEF Handlers, StoreRow, IncResultIdx, CheckFull, PrintResult, Return, Begin, CallFopen, OpenLog,
         PrintWarn, PrintOverall, PrintTitle, PrintRow, CallFclose, CloseLog, Exit, PrintLine, resVars
  <2>2. Top.pc \notin {"stop", "read", "reset", "enable", "tick"}
    BY <1>3 DEF Handlers, StoreRow, IncResultIdx, CheckFull, PrintResult, Return, Begin, CallFopen, OpenLog,
         PrintWarn, PrintOverall, PrintTitle, PrintRow, CallFclose, CloseLog, Exit, PrintLine, At
  <2>3. CASE Moves
    BY <1>1, <2>1, <2>2, <2>3, PlainCounts
  <2>4. CASE stack' = Append(stack, Frame("call", "begin"))
    <3> DEFINE f == Frame("call", "begin")
    <3>1. f \in FrameSet /\ IsEnd(f) /\ f.pc = "begin"
      BY FrameType DEF TypeOK, Frame, IsEnd, Sigs, FramePcs
    <3> HIDE DEF f
    <3> QED BY <1>1, <2>1, <2>4, <3>1, PushCounts DEF f
  <2>5. CASE At("return") /\ stack' = SubSeq(stack, 1, Len(stack) - 1)
    BY <1>1, <2>1, <2>5, PopCounts DEF At
  <2>6. CASE stack' = stack
    BY <1>1, <2>1, <2>6, SameCounter
  <2> QED BY <2>3, <2>4, <2>5, <2>6, HandlerMoves
<1> QED BY <1>2, <1>3

LEMMA SignalCounts ==
  ASSUME TypeOK, CounterInv, NEW sig \in {"ALRM", "INT", "TERM"},
         Send(sig) \/ Expire \/ Deliver(sig) \/ Kill \/ Hang
  PROVE  CounterInv'
<1>1. UNCHANGED <<args, pc, pmuVars, start_flag>>
  BY DEF Send, Expire, Deliver, Kill, Hang, resVars
<1>2. CASE ~Deliver(sig)
  <2>1. stack' = stack
    BY <1>2 DEF Send, Expire, Kill, Hang
  <2> QED BY <1>1, <2>1, SameCounter
<1>3. CASE Deliver(sig)
  <2> DEFINE at == IF sig = "ALRM" THEN "tick" ELSE "begin"
             f == Frame(sig, at)
  <2>1. stack' = Append(stack, f)
    BY <1>3 DEF Deliver
  <2>2. f \in FrameSet
    BY FrameType DEF TypeOK, Sigs, FramePcs
  <2>3. f.sig = sig /\ f.pc = at
    BY DEF Frame
  <2>4. \/ f.sig = "ALRM" /\ f.pc = "tick"
        \/ IsEnd(f) /\ f.pc = "begin"
    BY <2>3 DEF IsEnd
  <2> HIDE DEF f
  <2> QED BY <1>1, <2>1, <2>2, <2>4, PushCounts
<1> QED BY <1>2, <1>3

LEMMA CounterStep == TypeOK /\ NestInv /\ CounterInv /\ [Next]_vars => CounterInv'
<1> SUFFICES ASSUME TypeOK, NestInv, CounterInv, [Next]_vars PROVE CounterInv'
  OBVIOUS
<1>1. CASE UNCHANGED vars
  BY <1>1, SameCounter DEF vars, resVars
<1> QED BY <1>1, NextCases, StartupsCounts, HandlersCounts, WorkCounts, SignalCounts

-----------------------------------------------------------------------------
(***************************************************************************)
(* The rows and the lines.  While a result is stored or printed it is what *)
(* the counters hold.                                                      *)
(***************************************************************************)

SumOf(v, j) == Total([i \in CpuNums |-> v[i, j]])

ColumnsOf(v, j) ==
  IF args.exp_all_flag THEN [i \in CpuNums |-> v[i, j]] ELSE <<SumOf(v, j)>>

(* The part of its result the frame has stored, and the part it has printed. *)
StoredOK(f) ==
  /\ f.pc = "store" =>
       /\ f.idx <= args.counter_num + 1
       /\ \A j \in Events : j < f.idx => buf_logs[j][result_idx] = SumOf(f.val, j)
  /\ f.pc = "inc" => \A j \in Events : buf_logs[j][result_idx] = SumOf(f.val, j)

PrintedOK(f) ==
  /\ f.pc = "print" =>
       /\ f.idx <= args.counter_num + 1 /\ f.idx - 1 <= Len(printed)
       /\ \A j \in Events : j < f.idx =>
            printed[(Len(printed) - f.idx) + (j + 1)] = [event |-> j, columns |-> ColumnsOf(f.val, j)]
  /\ f.pc = "exit" /\ Overall /\ ~args.use_file_export =>
       /\ args.counter_num <= Len(printed)
       /\ \A j \in Events : printed[(Len(printed) - args.counter_num) + j].event = j

OutputOK == stack # <<>> => StoredOK(Top) /\ PrintedOK(Top)

(* signal_handler has stopped the counters for good. *)
HasStopped(k) == IsEnd(stack[k]) /\ stack[k].pc \notin {"begin", "stop"}

SameOK ==
  Overall =>
    /\ \A j \in Events, m \in 1 .. result_idx : buf_logs[j][m - 1] = SumOf(count, j)
    /\ \A n \in 1 .. Len(printed) : printed[n].columns = ColumnsOf(count, printed[n].event)
    /\ result_idx > 0 \/ printed # <<>> => \E k \in 1 .. Len(stack) : HasStopped(k)

EndOK == status = "exit0" => stack # <<>> /\ Top.pc = "exit"

RowInv == OutputOK /\ RowsAgree /\ SameOK /\ EndOK

LEMMA ColumnTypes ==
  ASSUME args \in Arguments, NEW v \in [Fds -> Nat], NEW j \in Events
  PROVE  /\ [i \in CpuNums |-> v[i, j]] \in [CpuNums -> Nat] /\ SumOf(v, j) \in Nat
         /\ \A c \in ColumnNums :
              ColumnsOf(v, j)[c] = IF args.exp_all_flag THEN v[c, j] ELSE SumOf(v, j)
<1>1. [i \in CpuNums |-> v[i, j]] \in [CpuNums -> Nat]
  BY DEF Fds
<1>2. SumOf(v, j) \in Nat
  BY <1>1, FiniteSets, TotalType DEF SumOf
<1>3. ASSUME NEW c \in ColumnNums
      PROVE  ColumnsOf(v, j)[c] = IF args.exp_all_flag THEN v[c, j] ELSE SumOf(v, j)
  <2>1. CASE args.exp_all_flag
    BY <2>1 DEF ColumnsOf, ColumnNums
  <2>2. CASE ~args.exp_all_flag
    <3> DEFINE t == SumOf(v, j)
    <3>1. c = 1 /\ ColumnsOf(v, j) = <<t>>
      BY <2>2 DEF ColumnNums, ColumnsOf
    <3> HIDE DEF t
    <3> QED BY <2>2, <3>1 DEF t
  <2> QED BY <2>1, <2>2
<1> QED BY <1>1, <1>2, <1>3

(* What is exported of an event is never more than what is of its leader. *)
LEMMA GroupSums ==
  ASSUME TypeOK, NestInv, CounterInv, stack # <<>>, Top.pc \in {"store", "inc", "print"},
         NEW j \in Events
  PROVE  /\ Top.val = count /\ SumOf(count, j) <= SumOf(count, 1)
         /\ \A c \in ColumnNums : ColumnsOf(count, j)[c] <= ColumnsOf(count, 1)[c]
<1>1. /\ Top = stack[Len(stack)] /\ Len(stack) \in 1 .. Len(stack) /\ FrameOK(Top)
      /\ FrameCounts(Top) /\ Top.sig \in Sigs
  BY TopFacts
<1>2. Top.val = count
  BY <1>1 DEF FrameCounts
<1>3. \A k \in 1 .. Len(stack) : ~Resetting(k)
  <2>1. ASSUME NEW k \in 1 .. Len(stack), stack[k].sig = "ALRM" PROVE k = Len(stack)
    <3>1. ~Overall
      BY <2>1 DEF NestInv, FramesOK, FrameOK
    <3>2. Top.sig = "ALRM"
      BY <1>1, <3>1 DEF FrameOK, Sigs, IsEnd, ExportPcs
    <3> QED BY <1>1, <2>1, <3>2 DEF NestInv, NestOK
  <2> QED BY <1>1, <2>1 DEF Resetting
<1>t. args \in Arguments /\ count \in [Fds -> Nat] /\ 1 \in Events /\ IsFiniteSet(CpuNums)
  BY FiniteSets DEF TypeOK
<1>4. ASSUME NEW i \in CpuNums PROVE count[i, j] <= count[i, 1]
  <2>1. <<i, j>> \in Fds /\ <<i, j>>[1] = i
    BY DEF Fds
  <2> QED BY <1>3, <2>1 DEF CounterInv, GroupOK
<1>5. SumOf(count, j) <= SumOf(count, 1)
  <2> DEFINE f == [i \in CpuNums |-> count[i, j]]
             g == [i \in CpuNums |-> count[i, 1]]
  <2>1. f \in [CpuNums -> Nat] /\ g \in [CpuNums -> Nat]
    BY <1>t, ColumnTypes
  <2>2. \A i \in CpuNums : f[i] <= g[i]
    BY <1>4
  <2> HIDE DEF f, g
  <2>3. Total(f) <= Total(g)
    BY <1>t, <2>1, <2>2, TotalGrows
  <2> QED BY <2>3 DEF f, g, SumOf
<1>6. ASSUME NEW c \in ColumnNums PROVE ColumnsOf(count, j)[c] <= ColumnsOf(count, 1)[c]
  <2>1. CASE args.exp_all_flag
    BY <1>4, <1>t, <2>1, ColumnTypes DEF ColumnNums
  <2>2. CASE ~args.exp_all_flag
    BY <1>5, <1>t, <2>2, ColumnTypes
  <2> QED BY <2>1, <2>2
<1> QED BY <1>2, <1>5, <1>6

LEMMA SameSums ==
  ASSUME args' = args
  PROVE  \A v, j : SumOf(v, j)' = SumOf(v, j) /\ ColumnsOf(v, j)' = ColumnsOf(v, j)
BY DEF SumOf, ColumnsOf, CpuNums

LEMMA SameOutput ==
  UNCHANGED <<args, buf_logs, result_idx, printed>> =>
    \A f : StoredOK(f) /\ PrintedOK(f) => (StoredOK(f) /\ PrintedOK(f))'
BY SameSums DEF StoredOK, PrintedOK, Overall, Events

(* The steps between the results leave them alone. *)
LEMMA PlainOutput ==
  ASSUME TypeOK, NestInv, OutputOK, stack # <<>>, Top.pc \notin {"store", "inc", "print"},
         NEW n \in FrameSet, MovesTo(n), UNCHANGED <<args, buf_logs, result_idx, printed>>
  PROVE  OutputOK'
<1>1. FrameOK(Top) /\ Top \in FrameSet /\ Top.sig \in Sigs
  BY TopType DEF TypeOK, NestInv, FramesOK, FrameSet
<1>2. Len(printed) \in Nat /\ args.counter_num \in Nat \ {0}
  BY LenProperties, ArgsFields DEF TypeOK
<1>3. Flow(Top, n) /\ n.sig = Top.sig /\ PrintedOK(Top)
  BY DEF MovesTo, OutputOK
<1>4. StoredOK(n)
  BY <1>2, <1>3 DEF StoredOK, Flow, Events
<1>5. PrintedOK(n)
  <2>1. n.pc = "print" => n.idx = 1
    BY <1>3 DEF Flow
  <2>2. n.pc = "exit" /\ Overall /\ ~args.use_file_export => Top.pc = "exit"
    BY <1>1, <1>3 DEF Flow, FrameOK, FilePcs
  <2> QED BY <1>2, <1>3, <2>1, <2>2 DEF PrintedOK, Events
<1>6. (StoredOK(n) /\ PrintedOK(n))'
  BY <1>4, <1>5, SameOutput
<1>7. Top' = n /\ stack' # <<>>
  BY Moved DEF MovesTo, TypeOK
<1> QED BY <1>6, <1>7 DEF OutputOK

(* Nothing is half recorded by a frame that is pushed, or that another uncovers. *)
LEMMA IdleOutput ==
  ASSUME NEW f, f.pc \notin {"store", "inc", "print"}, f.pc = "exit" => ~Overall, args' = args
  PROVE  (StoredOK(f) /\ PrintedOK(f))'
BY DEF StoredOK, PrintedOK, Overall

LEMMA OtherOutput ==
  ASSUME TypeOK, NestInv, CounterInv, OutputOK, [Next]_vars,
         ~StoreRow, ~IncResultIdx, ~PrintResult
  PROVE  OutputOK'
<1>1. UNCHANGED <<args, buf_logs, result_idx, printed>>
  BY TypeStep, OnlyRows
<1>2. ASSUME NEW f \in FrameSet, f.pc \notin {"store", "inc", "print", "exit"},
             stack' = Append(stack, f)
      PROVE  OutputOK'
  <2>1. Top' = f
    BY <1>2, PushType DEF Top, TypeOK
  <2>2. (StoredOK(f) /\ PrintedOK(f))'
    BY <1>1, <1>2, IdleOutput
  <2> QED BY <2>1, <2>2 DEF OutputOK
<1>3. ASSUME stack' = stack PROVE OutputOK'
  <2>1. Top' = Top
    BY <1>3 DEF Top
  <2>2. ASSUME NEW f, f = Top, stack # <<>> PROVE (StoredOK(f) /\ PrintedOK(f))'
    BY <1>1, <2>2, SameOutput DEF OutputOK
  <2> QED BY <1>3, <2>1, <2>2 DEF OutputOK
<1>4. CASE Handlers
  <2>1. stack # <<>> /\ Top.pc \notin {"store", "inc", "print"}
    BY <1>4, HandlersKeep DEF Handlers, StopCounter, ResetCounter, StartCounter, ReadCounter,
         ForEach, CheckFull, Tick, Return, Begin, CallFopen, OpenLog, PrintWarn, PrintOverall, PrintTitle,
         PrintRow, CallFclose, CloseLog, Exit, PrintLine, At
  <2>2. CASE Moves
    BY <1>1, <2>1, <2>2, PlainOutput DEF Moves
  <2>3. CASE stack' = Append(stack, Frame("call", "begin"))
    <3>1. Frame("call", "begin") \in FrameSet /\ Frame("call", "begin").pc = "begin"
      BY FrameType DEF TypeOK, Frame, Sigs, FramePcs
    <3> QED BY <1>2, <2>3, <3>1
  <2>4. CASE At("return") /\ stack' = SubSeq(stack, 1, Len(stack) - 1)
    <3> SUFFICES ASSUME stack' # <<>> PROVE (StoredOK(Top) /\ PrintedOK(Top))'
      BY DEF OutputOK
    <3>1. /\ Len(stack') = Len(stack) - 1 /\ Len(stack) \in Nat \ {0} /\ stack' \in Seq(FrameSet)
          /\ \A k \in 1 .. Len(stack) - 1 : stack'[k] = stack[k]
      BY <2>1, <2>4, PopType, TopType DEF TypeOK
    <3>2. Len(stack') \in 1 .. Len(stack) - 1
      <4>1. Len(stack') # 0
        BY <3>1, EmptySeq
      <4> QED BY <3>1, <4>1
    <3>3. PICK f : f = stack[Len(stack')]
      OBVIOUS
    <3>4. Top' = f
      BY <3>1, <3>2, <3>3 DEF Top
    <3>5. f.pc \notin {"store", "inc", "print"} /\ ~Overall
      BY <2>1, <2>4, <3>1, <3>2, <3>3, BelowLoop DEF At, ExportPcs
    <3>6. (StoredOK(f) /\ PrintedOK(f))'
      BY <1>1, <3>5, IdleOutput
    <3> QED BY <3>4, <3>6
  <2>5. CASE stack' = stack
    BY <1>3, <2>5
  <2> QED BY <1>4, <2>2, <2>3, <2>4, <2>5, HandlerMoves
<1>5. CASE Startups
  <2>1. CASE stack' = <<>>
    BY <2>1 DEF OutputOK
  <2>2. CASE stack' = <<Frame("main", "reset")>>
    <3>1. PICK f : f = Frame("main", "reset")
      OBVIOUS
    <3>2. f.pc = "reset"
      BY <3>1 DEF Frame
    <3>3. Top' = f
      BY <2>2, <3>1 DEF Top
    <3>4. (StoredOK(f) /\ PrintedOK(f))'
      BY <1>1, <3>2, IdleOutput
    <3> QED BY <3>3, <3>4 DEF OutputOK
  <2> QED BY <1>5, <2>1, <2>2 DEF Startups, CheckArgs, CreateEvents, Probe, Create, RemoveOld,
             Register, Start, Startup
<1>6. CASE \E sig \in {"ALRM", "INT", "TERM"} : Deliver(sig)
  <2>1. PICK sig \in {"ALRM", "INT", "TERM"}, at \in {"tick", "begin"} :
          stack' = Append(stack, Frame(sig, at))
    BY <1>6 DEF Deliver
  <2>2. Frame(sig, at) \in FrameSet /\ Frame(sig, at).pc = at
    <3>1. Frame(sig, at).pc = at
      BY DEF Frame
    <3> QED BY <3>1, FrameType DEF TypeOK, Sigs, FramePcs
  <2> QED BY <1>2, <2>1, <2>2
<1>7. CASE ~Handlers /\ ~Startups /\ ~\E sig \in {"ALRM", "INT", "TERM"} : Deliver(sig)
  <2>1. stack' = stack
    BY <1>7, NextCases DEF vars, Work, Send, Expire, Kill, Hang
  <2> QED BY <1>3, <2>1
<1> QED BY <1>4, <1>5, <1>6, <1>7

LEMMA StoreOutput ==
  ASSUME TypeOK, NestInv, OutputOK, RowsAgree, StoreRow
  PROVE  OutputOK' /\ RowsAgree'
<1>1. /\ args' = args /\ stack # <<>> /\ stack \in Seq(FrameSet) /\ Top \in FrameSet
      /\ Top.idx \in Nat /\ args.counter_num \in Nat \ {0} /\ Top.idx >= 1
      /\ StoredOK(Top)
  <2>1. stack # <<>> /\ Top.pc = "store" /\ args' = args
    BY DEF StoreRow, At
  <2>2. Top \in FrameSet /\ FrameOK(Top)
    BY <2>1, TopType DEF TypeOK, NestInv, FramesOK
  <2> QED BY <2>1, <2>2, ArgsFields DEF TypeOK, FrameSet, FrameOK, OutputOK
<1>2. /\ result_idx' = result_idx /\ printed' = printed /\ Top.pc = "store"
      /\ Top.idx \in Events => /\ NextIdx
                               /\ buf_logs'[Top.idx][result_idx] = total_val(Top.idx)
      /\ Top.idx \notin Events => Goto("inc") /\ buf_logs' = buf_logs
      /\ \A j \in Events, i \in Slots :
           j # Top.idx \/ i # result_idx => buf_logs'[j][i] = buf_logs[j][i]
  BY StoreEffect DEF NestInv
<1>3. result_idx \in Slots /\ \A m \in 1 .. result_idx : m - 1 \in Slots /\ m - 1 # result_idx
  <2>1. result_idx \in Slots
    BY <1>1, <1>2, RoomForRow DEF NestInv
  <2> QED BY <2>1, RecordedSlots DEF NestInv, TypeOK
<1>4. RowsAgree'
  <2>1. 1 \in Events /\ Events' = Events /\ ColumnNums' = ColumnNums
    BY <1>1, FiniteSets, SameArgs DEF TypeOK
  <2>2. \A j \in Events, m \in 1 .. result_idx : buf_logs'[j][m - 1] = buf_logs[j][m - 1]
    BY <1>2, <1>3
  <2> QED BY <1>2, <2>1, <2>2 DEF RowsAgree
<1>5. CASE Top.idx \in Events
  <2>1. PICK n \in FrameSet : SetTop(n) /\ n.pc = "store" /\ n.idx = Top.idx + 1 /\ n.val = Top.val
    BY <1>1, <1>2, <1>5, NextIdxMoves
  <2>2. Top' = n /\ stack' # <<>>
    BY <1>1, <2>1, SetTopType
  <2>3. n.idx <= args.counter_num + 1
    BY <1>1, <1>5, <2>1 DEF Events
  <2>4. ASSUME NEW j \in Events, j < n.idx PROVE buf_logs'[j][result_idx] = SumOf(n.val, j)
    <3>1. CASE j = Top.idx
      BY <1>2, <1>5, <2>1, <3>1 DEF total_val, SumOf
    <3>2. CASE j # Top.idx
      <4>1. j < Top.idx
        BY <1>1, <2>1, <2>4, <3>2 DEF Events
      <4>2. buf_logs[j][result_idx] = SumOf(Top.val, j)
        BY <1>1, <1>2, <4>1 DEF StoredOK
      <4> QED BY <1>2, <1>3, <2>1, <3>2, <4>2
    <3> QED BY <3>1, <3>2
  <2>5. StoredOK(n)' /\ PrintedOK(n)'
    BY <1>1, <1>2, <2>1, <2>3, <2>4, SameSums DEF StoredOK, PrintedOK, Events
  <2> QED BY <1>4, <2>2, <2>5 DEF OutputOK
<1>6. CASE Top.idx \notin Events
  <2>1. PICK n \in FrameSet : SetTop(n) /\ n.pc = "inc" /\ n.val = Top.val
    BY <1>1, <1>2, <1>6, GotoMoves DEF FramePcs
  <2>2. Top' = n /\ stack' # <<>>
    BY <1>1, <2>1, SetTopType
  <2>3. \A j \in Events : j < Top.idx
    BY <1>1, <1>6 DEF Events
  <2>4. \A j \in Events : buf_logs'[j][result_idx] = SumOf(n.val, j)
    BY <1>1, <1>2, <1>6, <2>1, <2>3 DEF StoredOK
  <2>5. StoredOK(n)' /\ PrintedOK(n)'
    BY <1>1, <1>2, <2>1, <2>4, SameSums DEF StoredOK, PrintedOK, Events
  <2> QED BY <1>4, <2>2, <2>5 DEF OutputOK
<1> QED BY <1>5, <1>6

LEMMA IncOutput ==
  ASSUME TypeOK, NestInv, CounterInv, OutputOK, RowsAgree, IncResultIdx
  PROVE  OutputOK' /\ RowsAgree'
<1>1. /\ UNCHANGED <<args, buf_logs, printed>> /\ result_idx' = result_idx + 1
      /\ stack # <<>> /\ Top.pc = "inc" /\ Goto("check")
  BY DEF IncResultIdx, At
<1>2. stack \in Seq(FrameSet) /\ result_idx \in Nat /\ 1 \in Events /\ StoredOK(Top)
  BY <1>1, FiniteSets DEF TypeOK, OutputOK
<1>3. \A j \in Events : buf_logs[j][result_idx] <= buf_logs[1][result_idx]
  <2>1. ASSUME NEW j \in Events PROVE buf_logs[j][result_idx] <= buf_logs[1][result_idx]
    <3>1. buf_logs[j][result_idx] = SumOf(Top.val, j) /\ buf_logs[1][result_idx] = SumOf(Top.val, 1)
      BY <1>1, <1>2 DEF StoredOK
    <3>2. Top.val = count /\ SumOf(count, j) <= SumOf(count, 1)
      BY <1>1, GroupSums
    <3> QED BY <3>1, <3>2
  <2> QED BY <2>1
<1>4. RowsAgree'
  <2>1. Events' = Events /\ ColumnNums' = ColumnNums
    BY <1>1, SameArgs
  <2>2. \A m \in 1 .. result_idx + 1 : m \in 1 .. result_idx \/ m - 1 = result_idx
    BY <1>2
  <2>3. \A j \in Events, m \in 1 .. result_idx + 1 : buf_logs[j][m - 1] <= buf_logs[1][m - 1]
    BY <1>3, <2>2 DEF RowsAgree
  <2> QED BY <1>1, <2>1, <2>3 DEF RowsAgree
<1>5. PICK n \in FrameSet : SetTop(n) /\ n.pc = "check"
  BY <1>1, <1>2, GotoMoves DEF FramePcs
<1>6. Top' = n
  BY <1>1, <1>2, <1>5, SetTopType
<1>7. (StoredOK(n) /\ PrintedOK(n))'
  BY <1>1, <1>5, IdleOutput
<1> QED BY <1>4, <1>6, <1>7 DEF OutputOK

LEMMA PrintOutput ==
  ASSUME TypeOK, NestInv, CounterInv, OutputOK, RowsAgree, PrintResult
  PROVE  OutputOK' /\ RowsAgree'
<1> DEFINE L == Len(printed)
           C == args.counter_num
<1>1. /\ args' = args /\ stack # <<>> /\ stack \in Seq(FrameSet) /\ Top \in FrameSet
      /\ Top.idx \in Nat /\ Top.idx >= 1 /\ C \in Nat \ {0} /\ L \in Nat
      /\ PrintedOK(Top) /\ Top.pc = "print" /\ Len(streams') \in Nat
  <2>1. stack # <<>> /\ Top.pc = "print" /\ UNCHANGED <<args, stdioVars>>
    BY DEF PrintResult, At
  <2>2. Top \in FrameSet /\ FrameOK(Top)
    BY <2>1, TopType DEF TypeOK, NestInv, FramesOK
  <2> QED BY <2>1, <2>2, ArgsFields, LenProperties
          DEF TypeOK, FrameSet, FrameOK, OutputOK, StdioTypeOK, stdioVars
<1>2. /\ UNCHANGED <<buf_logs, result_idx>>
      /\ Top.idx \in Events =>
           /\ NextIdx /\ Len(printed') = L + 1
           /\ printed'[L + 1] = [event |-> Top.idx, columns |-> Columns(Top.idx)]
           /\ \A n \in 1 .. L : printed'[n] = printed[n]
      /\ Top.idx \notin Events =>
           /\ printed' = printed
           /\ IF IsEnd(Top) THEN GotoExit(0) ELSE Goto("reset")
  BY PrintEffect
<1>3. /\ Top.idx <= C + 1 /\ Top.idx - 1 <= L
      /\ \A j \in Events : j < Top.idx =>
           printed[(L - Top.idx) + (j + 1)] = [event |-> j, columns |-> ColumnsOf(Top.val, j)]
  BY <1>1 DEF PrintedOK
<1>e. Events = 1 .. C /\ Events' = Events /\ ColumnNums' = ColumnNums /\ 1 \in Events
  BY <1>1, SameArgs DEF Events
<1>4. CASE Top.idx \in Events
  <2>1. PICK n \in FrameSet : SetTop(n) /\ n.pc = "print" /\ n.idx = Top.idx + 1 /\ n.val = Top.val
    BY <1>1, <1>2, <1>4, NextIdxMoves
  <2>2. Top' = n /\ stack' # <<>>
    BY <1>1, <2>1, SetTopType
  <2>3. printed'[L + 1] = [event |-> Top.idx, columns |-> ColumnsOf(Top.val, Top.idx)]
    BY <1>2, <1>4 DEF Columns, ColumnsOf, total_val, SumOf
  <2> HIDE DEF L, C
  <2>4. ASSUME NEW j \in Events, j < n.idx
        PROVE  printed'[((L + 1) - n.idx) + (j + 1)] = [event |-> j, columns |-> ColumnsOf(n.val, j)]
    <3>1. (L + 1) - n.idx = L - Top.idx
      BY <1>1, <2>1
    <3>2. CASE j = Top.idx
      <4>1. (L - Top.idx) + (j + 1) = L + 1
        BY <1>1, <3>2
      <4> QED BY <2>1, <2>3, <3>1, <3>2, <4>1
    <3>3. CASE j # Top.idx
      <4>1. j < Top.idx /\ j \in Nat
        BY <1>1, <1>e, <2>1, <2>4, <3>3
      <4>2. (L - Top.idx) + (j + 1) \in 1 .. L
        BY <1>1, <1>3, <1>e, <4>1
      <4> QED BY <1>2, <1>3, <1>4, <2>1, <3>1, <4>1, <4>2
    <3> QED BY <3>2, <3>3
  <2>5. StoredOK(n)' /\ PrintedOK(n)'
    <3>1. Len(printed') = L + 1 /\ n.idx <= C + 1 /\ n.idx - 1 <= L + 1
      BY <1>1, <1>2, <1>3, <1>4, <1>e, <2>1
    <3>2. StoredOK(n)'
      BY <2>1 DEF StoredOK
    <3>3. PrintedOK(n)'
      BY <1>1, <1>e, <2>1, <2>4, <3>1, SameSums DEF PrintedOK, C
    <3> QED BY <3>2, <3>3
  <2>6. ASSUME NEW m \in 1 .. L + 1
        PROVE  LET first == m - printed'[m].event + 1
               IN /\ first >= 1 /\ printed'[first].event = 1
                  /\ \A c \in ColumnNums : printed'[m].columns[c] <= printed'[first].columns[c]
    <3>1. CASE m \in 1 .. L
      <4>1. LET first == m - printed[m].event + 1
            IN /\ first >= 1 /\ printed[first].event = 1
               /\ \A c \in ColumnNums : printed[m].columns[c] <= printed[first].columns[c]
        BY <3>1 DEF RowsAgree, L
      <4>2. printed[m] \in Printed
        BY <3>1, ElementOfSeq DEF TypeOK, L
      <4>3. printed[m].event \in 1 .. C
        BY <1>e, <4>2 DEF Printed
      <4> DEFINE first == m - printed[m].event + 1
      <4>4. first \in 1 .. L
        BY <1>1, <3>1, <4>1, <4>3
      <4>5. printed'[m] = printed[m] /\ printed'[first] = printed[first]
        BY <1>2, <1>4, <3>1, <4>4 DEF L
      <4> QED BY <4>1, <4>5
    <3>2. CASE m = L + 1
      <4>1. printed'[m].event = Top.idx /\ printed'[m].columns = ColumnsOf(count, Top.idx)
        BY <1>1, <1>4, <2>3, <3>2, GroupSums
      <4>2. m - Top.idx + 1 = (L - Top.idx) + (1 + 1) /\ m - Top.idx + 1 >= 1
        BY <1>1, <1>3, <3>2
      <4>3. 1 \in Events /\ 1 < n.idx
        BY <1>1, <1>e, <2>1
      <4>4. (L + 1) - n.idx = L - Top.idx
        BY <1>1, <2>1
      <4>5. printed'[m - Top.idx + 1] = [event |-> 1, columns |-> ColumnsOf(n.val, 1)]
        BY <2>4, <4>2, <4>3, <4>4
      <4>6. /\ n.val = count
            /\ \A c \in ColumnNums : ColumnsOf(count, Top.idx)[c] <= ColumnsOf(count, 1)[c]
        BY <1>1, <1>4, <2>1, GroupSums
      <4> QED BY <4>1, <4>2, <4>5, <4>6
    <3>3. m \in 1 .. L \/ m = L + 1
      BY <1>1
    <3> QED BY <3>1, <3>2, <3>3
  <2>7. RowsAgree'
    BY <1>2, <1>4, <1>e, <2>6 DEF RowsAgree, L
  <2> QED BY <2>2, <2>5, <2>7 DEF OutputOK
<1>5. CASE Top.idx \notin Events
  <2>1. printed' = printed /\ Top.idx = C + 1
    BY <1>1, <1>2, <1>3, <1>5, <1>e
  <2>2. RowsAgree'
    BY <1>2, <1>e, <2>1 DEF RowsAgree
  <2>3. PICK n \in FrameSet : SetTop(n) /\ n.pc \in {"exit", "reset"}
    <3>1. CASE IsEnd(Top)
      BY <1>1, <1>2, <1>5, <3>1, GotoExitMoves
    <3>2. CASE ~IsEnd(Top)
      BY <1>1, <1>2, <1>5, <3>2, GotoMoves DEF FramePcs
    <3> QED BY <3>1, <3>2
  <2>4. Top' = n /\ stack' # <<>>
    BY <1>1, <2>3, SetTopType
  <2>5. C <= L /\ \A j \in Events : printed[(L - C) + j].event = j
    <3>1. C <= L
      BY <1>1, <1>3, <2>1
    <3>2. ASSUME NEW j \in Events PROVE printed[(L - C) + j].event = j
      <4>1. j < Top.idx /\ (L - Top.idx) + (j + 1) = (L - C) + j
        BY <1>1, <1>e, <2>1
      <4>2. printed[(L - C) + j] = [event |-> j, columns |-> ColumnsOf(Top.val, j)]
        BY <1>3, <4>1
      <4> QED BY <4>2
    <3> QED BY <3>1, <3>2
  <2>6. StoredOK(n)' /\ PrintedOK(n)'
    BY <1>1, <1>e, <2>1, <2>3, <2>5 DEF StoredOK, PrintedOK
  <2> QED BY <2>2, <2>4, <2>6 DEF OutputOK
<1> QED BY <1>4, <1>5

(* A signal_handler that has stopped the counters stays, and so do they. *)
LEMMA StopperStays ==
  ASSUME TypeOK, NestInv, CounterInv, Overall, [Next]_vars,
         NEW k \in 1 .. Len(stack), HasStopped(k)
  PROVE  count' = count /\ k \in 1 .. Len(stack') /\ HasStopped(k)'
<1>1. stack # <<>> /\ enabled = {} /\ stack \in Seq(FrameSet) /\ Len(stack) \in Nat
  <2>1. stack # <<>>
    BY EmptySeq
  <2>2. Frozen(stack[k])
    BY DEF Frozen, HasStopped
  <2> QED BY <2>1, <2>2, LenProperties DEF CounterInv, CountsOK, FrameCounts, TypeOK
<1>2. Top.pc \notin {"reset", "enable", "return"}
  <2>1. CASE k = Len(stack)
    BY <2>1 DEF NestInv, FramesOK, FrameOK, HasStopped, Top, ExportPcs, FilePcs
  <2>2. CASE k # Len(stack)
    BY <1>1, <2>2, BelowLoop
  <2> QED BY <2>1, <2>2
<1>3. count' = count
  <2>1. CASE Handlers
    BY <1>2, <2>1 DEF Handlers, StopCounter, ResetCounter, StartCounter, ReadCounter, StoreRow,
         IncResultIdx, CheckFull, PrintResult, Tick, Return, Begin, CallFopen, OpenLog, PrintWarn,
         PrintOverall, PrintTitle, PrintRow, CallFclose, CloseLog, Exit, ForEach, PrintLine, StopOne, At,
         pmuVars, EnableOne
  <2>2. CASE Startups
    BY <1>1, <2>2 DEF Startups, CheckArgs, CreateEvents, Probe, Create, RemoveOld, Register, Start,
                      Startup
  <2>3. CASE \E i \in CpuNums : Work(i)
    <3>1. PICK i \in CpuNums : Work(i)
      BY <2>3
    <3>2. count' = [fd \in Fds |-> count[fd]]
      BY <1>1, <3>1 DEF Work
    <3> QED BY <3>2 DEF TypeOK
  <2>4. CASE ~Handlers /\ ~Startups /\ ~\E i \in CpuNums : Work(i)
    BY <2>4, NextCases DEF vars, pmuVars, Send, Expire, Kill, Deliver, Hang
  <2> QED BY <2>1, <2>2, <2>3, <2>4
<1>4. ASSUME NEW f \in FrameSet, stack' = Append(stack, f)
      PROVE  k \in 1 .. Len(stack') /\ HasStopped(k)'
  <2>1. Len(stack') = Len(stack) + 1 /\ stack'[k] = stack[k]
    BY <1>1, <1>4, PushType
  <2> QED BY <1>1, <2>1 DEF HasStopped, IsEnd
<1>5. ASSUME stack' = stack PROVE k \in 1 .. Len(stack') /\ HasStopped(k)'
  BY <1>5 DEF HasStopped, IsEnd
<1>6. CASE Handlers
  <2>1. CASE Moves
    <3>1. PICK n \in FrameSet : SetTop(n) /\ n.sig = Top.sig /\ Flow(Top, n)
      BY <2>1 DEF Moves, MovesTo
    <3>2. /\ Len(stack') = Len(stack) /\ stack'[Len(stack)] = n /\ Top = stack[Len(stack)]
          /\ k # Len(stack) => stack'[k] = stack[k]
      BY <1>1, <3>1, Moved
    <3>3. CASE k = Len(stack)
      <4>1. FrameOK(Top) /\ IsEnd(Top) /\ Top.pc \notin {"begin", "stop"}
        BY <3>2, <3>3 DEF NestInv, FramesOK, HasStopped
      <4>2. n.pc \notin {"begin", "stop"}
        BY <3>1, <4>1 DEF Flow, FrameOK, IsEnd, ExportPcs, FilePcs
      <4> QED BY <1>3, <3>1, <3>2, <3>3, <4>1, <4>2 DEF HasStopped, IsEnd
    <3> QED BY <1>3, <3>2, <3>3 DEF HasStopped, IsEnd
  <2>2. CASE stack' = Append(stack, Frame("call", "begin"))
    BY <1>3, <1>4, <2>2, FrameType DEF TypeOK, Sigs, FramePcs
  <2>3. CASE At("return") /\ stack' = SubSeq(stack, 1, Len(stack) - 1)
    BY <1>2, <2>3 DEF At
  <2>4. CASE stack' = stack
    BY <1>3, <1>5, <2>4
  <2> QED BY <1>6, <2>1, <2>2, <2>3, <2>4, HandlerMoves
<1>7. CASE \E sig \in {"ALRM", "INT", "TERM"} : Deliver(sig)
  <2>1. PICK sig \in {"ALRM", "INT", "TERM"}, at \in {"tick", "begin"} :
          stack' = Append(stack, Frame(sig, at))
    BY <1>7 DEF Deliver
  <2>2. Frame(sig, at) \in FrameSet
    BY FrameType DEF TypeOK, Sigs, FramePcs
  <2> QED BY <1>3, <1>4, <2>1, <2>2
<1>8. CASE ~Handlers /\ ~\E sig \in {"ALRM", "INT", "TERM"} : Deliver(sig)
  <2>1. ~Startups
    BY <1>1 DEF Startups, CheckArgs, CreateEvents, Probe, Create, RemoveOld, Register, Start,
                Startup
  <2>2. stack' = stack
    BY <1>8, <2>1, NextCases DEF vars, Work, Send, Expire, Kill, Hang
  <2> QED BY <1>3, <1>5, <2>2
<1> QED BY <1>6, <1>7, <1>8

LEMMA SameStep ==
  ASSUME TypeOK, NestInv, CounterInv, OutputOK, SameOK, [Next]_vars
  PROVE  SameOK'
<1> SUFFICES ASSUME Overall PROVE SameOK'
  <2>1. Overall' = Overall
    BY TypeStep, SameArgs
  <2> QED BY <2>1 DEF SameOK
<1>1. args' = args /\ Events' = Events /\ result_idx \in Nat /\ Len(printed) \in Nat
  BY TypeStep, SameArgs, LenProperties DEF TypeOK
<1>2. CASE \E k \in 1 .. Len(stack) : HasStopped(k)
  <2>1. PICK k \in 1 .. Len(stack) : HasStopped(k)
    BY <1>2
  <2>2. count' = count /\ k \in 1 .. Len(stack') /\ HasStopped(k)'
    BY <2>1, StopperStays
  <2>3. \A j : SumOf(count, j)' = SumOf(count, j) /\ ColumnsOf(count, j)' = ColumnsOf(count, j)
    <3>1. PICK v : v = count
      OBVIOUS
    <3> QED BY <1>1, <2>2 DEF SumOf, ColumnsOf, CpuNums
  <2>4. \A m \in 1 .. result_idx : m - 1 \in Slots /\ m - 1 # result_idx
    BY <1>1, RecordedSlots DEF NestInv
  <2>5. \A j \in Events, m \in 1 .. result_idx' : buf_logs'[j][m - 1] = SumOf(count, j)
    <3>1. CASE StoreRow
      <4>1. \A j \in Events, m \in 1 .. result_idx : buf_logs'[j][m - 1] = buf_logs[j][m - 1]
        BY <2>4, <3>1, StoreEffect DEF NestInv
      <4>2. result_idx' = result_idx
        BY <3>1 DEF StoreRow
      <4> QED BY <4>1, <4>2 DEF SameOK
    <3>2. CASE IncResultIdx
      <4>1. /\ buf_logs' = buf_logs /\ result_idx' = result_idx + 1 /\ stack # <<>>
            /\ Top.pc = "inc"
        BY <3>2 DEF IncResultIdx, At
      <4>2. \A m \in 1 .. result_idx + 1 : m \in 1 .. result_idx \/ m - 1 = result_idx
        BY <1>1
      <4>3. \A j \in Events : buf_logs[j][result_idx] = SumOf(count, j)
        <5>1. \A j \in Events : buf_logs[j][result_idx] = SumOf(Top.val, j)
          BY <4>1 DEF OutputOK, StoredOK
        <5>2. Top.val = count
          BY <4>1, TopFacts DEF FrameCounts
        <5> QED BY <5>1, <5>2
      <4> QED BY <4>1, <4>2, <4>3 DEF SameOK
    <3>3. CASE ~StoreRow /\ ~IncResultIdx
      <4>1. UNCHANGED <<buf_logs, result_idx>>
        BY <3>3, OnlyRows DEF PrintResult
      <4> QED BY <4>1 DEF SameOK
    <3> QED BY <3>1, <3>2, <3>3
  <2>6. \A n \in 1 .. Len(printed') : printed'[n].columns = ColumnsOf(count, printed'[n].event)
    <3>1. CASE PrintResult /\ Top.idx \in Events
      <4>1. /\ stack # <<>> /\ Top.pc = "print" /\ Len(printed') = Len(printed) + 1
            /\ printed'[Len(printed) + 1] = [event |-> Top.idx, columns |-> Columns(Top.idx)]
            /\ \A n \in 1 .. Len(printed) : printed'[n] = printed[n]
        BY <3>1, PrintEffect
      <4>2. Top.val = count
        BY <4>1, TopFacts DEF FrameCounts
      <4>3. Columns(Top.idx) = ColumnsOf(Top.val, Top.idx)
        BY DEF Columns, ColumnsOf, total_val, SumOf
      <4>4. \A n \in 1 .. Len(printed) + 1 : n \in 1 .. Len(printed) \/ n = Len(printed) + 1
        BY <1>1
      <4>5. printed'[Len(printed) + 1].columns = ColumnsOf(count, printed'[Len(printed) + 1].event)
        BY <4>1, <4>2, <4>3
      <4> QED BY <4>1, <4>4, <4>5 DEF SameOK
    <3>2. CASE ~(PrintResult /\ Top.idx \in Events)
      <4>1. printed' = printed
        BY <3>2, PrintEffect, OnlyRows DEF StoreRow, IncResultIdx
      <4> QED BY <4>1 DEF SameOK
    <3> QED BY <3>1, <3>2
  <2> QED BY <1>1, <2>2, <2>3, <2>5, <2>6 DEF SameOK
<1>3. CASE ~\E k \in 1 .. Len(stack) : HasStopped(k)
  <2>1. result_idx = 0 /\ printed = <<>>
    BY <1>1, <1>3 DEF SameOK
  <2>2. ~IncResultIdx /\ ~PrintResult
    <3> SUFFICES ASSUME stack # <<>>, Top.pc \in {"inc", "print"} PROVE FALSE
      BY DEF IncResultIdx, PrintResult, At
    <3>1. /\ FrameOK(Top) /\ Top.sig \in Sigs /\ Top = stack[Len(stack)]
          /\ Len(stack) \in 1 .. Len(stack)
      BY TopFacts
    <3>2. IsEnd(Top)
      BY <3>1 DEF FrameOK, Sigs, IsEnd
    <3> QED BY <1>3, <3>1, <3>2 DEF HasStopped
  <2>3. result_idx' = 0 /\ printed' = <<>>
    BY <2>1, <2>2, OnlyRows DEF StoreRow
  <2>4. Len(printed') = 0 /\ 1 .. 0 = {}
    BY <2>3
  <2> QED BY <2>3, <2>4 DEF SameOK
<1> QED BY <1>2, <1>3

LEMMA EndStep == EndOK /\ [Next]_vars => EndOK'
<1> SUFFICES ASSUME EndOK, [Next]_vars, status' = "exit0" PROVE stack' # <<>> /\ Top'.pc = "exit"
  BY DEF EndOK
<1>1. CASE status = "exit0"
  <2>1. UNCHANGED vars
    BY <1>1, NextCases, HandlersKeep
       DEF Running, Startups, CheckArgs, CreateEvents, Probe, Create, RemoveOld, Register, Start,
           Startup, Work, Send, Expire, Deliver, Kill, Hang
  <2> QED BY <1>1, <2>1 DEF EndOK, vars, Top
<1>2. CASE status # "exit0"
  <2>1. Exit
    BY <1>2, NextCases
       DEF Handlers, StopCounter, ResetCounter, StartCounter, ReadCounter, StoreRow,
           IncResultIdx, CheckFull, PrintResult, Tick, Return, Begin, CallFopen, OpenLog, PrintWarn,
           PrintOverall, PrintTitle, PrintRow, CallFclose, CloseLog, PrintLine, Startups, CheckArgs,
           CreateEvents, Probe, Create, RemoveOld, Register, Start, Work, Send, Expire, Deliver,
           Kill, Hang, vars, sigVars
  <2>2. stack' = stack /\ stack # <<>> /\ Top.pc = "exit"
    BY <1>2, <2>1 DEF Exit, At
  <2> QED BY <2>2 DEF Top
<1> QED BY <1>1, <1>2

LEMMA RowInit == Init => RowInv
<1> SUFFICES ASSUME Init PROVE RowInv
  OBVIOUS
<1>1. /\ stack = <<>> /\ result_idx = 0 /\ printed = <<>> /\ Len(printed) = 0
      /\ status = "running" /\ 1 .. 0 = {}
  BY DEF Init
<1> QED BY <1>1 DEF RowInv, OutputOK, RowsAgree, SameOK, EndOK

LEMMA RowStep == TypeOK /\ NestInv /\ CounterInv /\ RowInv /\ [Next]_vars => RowInv'
<1> SUFFICES ASSUME TypeOK, NestInv, CounterInv, RowInv, [Next]_vars PROVE RowInv'
  OBVIOUS
<1> USE DEF RowInv
<1>1. OutputOK' /\ RowsAgree'
  <2>1. CASE StoreRow \/ IncResultIdx \/ PrintResult
    BY <2>1, StoreOutput, IncOutput, PrintOutput
  <2>2. CASE ~StoreRow /\ ~IncResultIdx /\ ~PrintResult
    <3>1. UNCHANGED <<buf_logs, result_idx, printed>> /\ Events' = Events
          /\ ColumnNums' = ColumnNums
      BY <2>2, OnlyRows, TypeStep, SameArgs
    <3>2. RowsAgree'
      BY <3>1 DEF RowsAgree
    <3> QED BY <2>2, <3>2, OtherOutput
  <2> QED BY <2>1, <2>2
<1> QED BY <1>1, SameStep, EndStep

(* No event is exported with more than the leader of its group, in any row *)
(* of the log and in any line, however many events, CPUs and signals.      *)
THEOREM RowsAgreeAlways == Spec => []RowsAgree
<1>1. Init => TypeOK /\ NestInv /\ CounterInv /\ RowInv
  BY InitType, NestInit, CounterInit, RowInit
<1>2. TypeOK /\ NestInv /\ CounterInv /\ RowInv /\ [Next]_vars =>
        TypeOK' /\ NestInv' /\ CounterInv' /\ RowInv'
  BY TypeStep, NestStep, CounterStep, RowStep
<1>3. RowInv => RowsAgree
  BY DEF RowInv
<1> QED BY <1>1, <1>2, <1>3, PTL DEF Spec

(* With -i < 0 all the results of an event are one total, which is printed *)
(* once more to the last event by whatever handler ends the run.           *)
THEOREM TotalsAgreeAlways == Spec => []TotalsAgree
<1>1. Init => TypeOK /\ NestInv /\ CounterInv /\ RowInv
  BY InitType, NestInit, CounterInit, RowInit
<1>2. TypeOK /\ NestInv /\ CounterInv /\ RowInv /\ [Next]_vars =>
        TypeOK' /\ NestInv' /\ CounterInv' /\ RowInv'
  BY TypeStep, NestStep, CounterStep, RowStep
<1>3. TypeOK /\ RowInv => TotalsAgree
  <2> SUFFICES ASSUME TypeOK, RowInv, Overall
               PROVE  /\ \A j \in Events, m \in 1 .. result_idx : buf_logs[j][m - 1] = buf_logs[j][0]
                      /\ \A m, n \in 1 .. Len(printed) :
                           printed[m].event = printed[n].event =>
                             printed[m].columns = printed[n].columns
                      /\ status = "exit0" /\ ~args.use_file_export =>
                           LET before == Len(printed) - args.counter_num
                           IN before >= 0 /\ \A j \in Events : printed[before + j].event = j
    BY DEF TotalsAgree
  <2>1. ASSUME NEW j \in Events, NEW m \in 1 .. result_idx
        PROVE  buf_logs[j][m - 1] = buf_logs[j][0]
    <3>1. 1 \in 1 .. result_idx /\ 1 - 1 = 0
      BY DEF TypeOK
    <3>2. buf_logs[j][m - 1] = SumOf(count, j) /\ buf_logs[j][1 - 1] = SumOf(count, j)
      BY <3>1 DEF RowInv, SameOK
    <3> QED BY <3>1, <3>2
  <2>2. \A m, n \in 1 .. Len(printed) :
          printed[m].event = printed[n].event => printed[m].columns = printed[n].columns
    BY DEF RowInv, SameOK
  <2>3. ASSUME status = "exit0", ~args.use_file_export
        PROVE  /\ Len(printed) - args.counter_num >= 0
               /\ \A j \in Events : printed[(Len(printed) - args.counter_num) + j].event = j
    <3>1. PrintedOK(Top) /\ Top.pc = "exit"
      BY <2>3 DEF RowInv, OutputOK, EndOK
    <3>2. Len(printed) \in Nat /\ args.counter_num \in Nat
      BY LenProperties, ArgsFields DEF TypeOK
    <3> QED BY <2>3, <3>1, <3>2 DEF PrintedOK
  <2> QED BY <2>1, <2>2, <2>3
<1> QED BY <1>1, <1>2, <1>3, PTL DEF Spec

-----------------------------------------------------------------------------
(***************************************************************************)
(* The units of work.  Between its export and its reset a result is in a   *)
(* row and still in the counter, so that what is on top of the stack says  *)
(* how the two are to be added.                                            *)
(***************************************************************************)

Reported(j, c) == Total(Values(j, c))

Counted(j, c) == OnCpus([i \in CpuNums |-> count[i, j]], c)

(* A tick was interrupted by a handler that never returns. *)
Dead == \E k \in 1 .. Len(stack) : k # Len(stack) /\ stack[k].sig = "ALRM"

ExportedBy(f, j) == f.pc \in {"check", "reset"} \/ (f.pc = "print" /\ j < f.idx)

Exported(j) == stack # <<>> /\ ExportedBy(Top, j)

UnitsOK(j, c) ==
  /\ Reported(j, c) <= OnCpus(work, c)
  /\ ~Dead /\ Exported(j) => Reported(j, c) >= OnCpus(slept, c)
  /\ ~Dead /\ ~Exported(j) => /\ Reported(j, c) + Counted(j, c) <= OnCpus(work, c)
                              /\ Reported(j, c) + Counted(j, c) >= OnCpus(slept, c)

UnitInv ==
  /\ pc # "args" /\ args.use_file_export => args.target_cpu_num = 1
  /\ ~Overall => \A j \in Events, c \in ColumnNums : UnitsOK(j, c)
  /\ Overall /\ stack = <<>> => \A fd \in Fds : slept[fd[1]] <= count[fd]

ValueNums == 1 .. IF args.use_file_export THEN result_idx ELSE Len(printed)

LEMMA ValuesType ==
  ASSUME TypeOK, NestInv, NEW j \in Events, NEW c \in ColumnNums
  PROVE  IsFiniteSet(ValueNums) /\ Values(j, c) \in [ValueNums -> Nat] /\ Reported(j, c) \in Nat
<1>1. IsFiniteSet(ValueNums)
  <2>1. ValueNums = 1 .. result_idx \/ ValueNums = 1 .. Len(printed)
    BY DEF ValueNums
  <2>2. result_idx \in Int /\ Len(printed) \in Int
    BY LenProperties DEF TypeOK
  <2> QED BY <2>1, <2>2, FS_Interval
<1>2. \A m \in 1 .. result_idx : buf_logs[j][m - 1] \in Nat
  BY RecordedSlots DEF NestInv, TypeOK
<1>3. \A n \in 1 .. Len(printed) : printed[n].columns[c] \in Nat
  <2>1. \A n \in 1 .. Len(printed) : printed[n] \in Printed
    BY ElementOfSeq DEF TypeOK
  <2> QED BY <2>1 DEF Printed
<1>4. Values(j, c) \in [ValueNums -> Nat]
  BY <1>2, <1>3 DEF Values, ValueNums
<1> QED BY <1>1, <1>4, TotalType DEF Reported

LEMMA OnCpusType ==
  ASSUME args \in Arguments, NEW c \in ColumnNums, NEW f \in [CpuNums -> Nat]
  PROVE  OnCpus(f, c) \in Nat
<1>1. IsFiniteSet(CpusOf(c)) /\ CpusOf(c) \subseteq CpuNums
  BY FiniteSets
<1>2. [i \in CpusOf(c) |-> f[i]] \in [CpusOf(c) -> Nat]
  BY <1>1
<1> QED BY <1>1, <1>2, TotalType DEF OnCpus

LEMMA OnCpusGrows ==
  ASSUME args \in Arguments, NEW c \in ColumnNums, NEW f \in [CpuNums -> Nat],
         NEW g \in [CpuNums -> Nat], \A i \in CpuNums : f[i] <= g[i]
  PROVE  OnCpus(f, c) <= OnCpus(g, c)
<1> DEFINE D == CpusOf(c)
           a == [i \in D |-> f[i]]
           b == [i \in D |-> g[i]]
<1>1. IsFiniteSet(D) /\ D \subseteq CpuNums
  BY FiniteSets
<1>2. a \in [D -> Nat] /\ b \in [D -> Nat] /\ \A i \in D : a[i] <= b[i]
  BY <1>1
<1> HIDE DEF a, b
<1>3. Total(a) <= Total(b)
  BY <1>1, <1>2, TotalGrows
<1> QED BY <1>3 DEF OnCpus, a, b

LEMMA OnCpusAt ==
  ASSUME args \in Arguments, NEW c \in ColumnNums, NEW f \in [CpuNums -> Nat],
         NEW g \in [CpuNums -> Nat], NEW i \in CpuNums, \A y \in CpuNums \ {i} : f[y] = g[y]
  PROVE  /\ i \in CpusOf(c) => OnCpus(f, c) + g[i] = OnCpus(g, c) + f[i]
         /\ i \notin CpusOf(c) => OnCpus(f, c) = OnCpus(g, c)
<1> DEFINE D == CpusOf(c)
           a == [y \in D |-> f[y]]
           b == [y \in D |-> g[y]]
<1>1. IsFiniteSet(D) /\ D \subseteq CpuNums
  BY FiniteSets
<1>2. a \in [D -> Nat] /\ b \in [D -> Nat] /\ OnCpus(f, c) = Total(a) /\ OnCpus(g, c) = Total(b)
  BY <1>1 DEF OnCpus
<1>3. ASSUME i \in D PROVE Total(a) + b[i] = Total(b) + a[i]
  <2>1. \A y \in D \ {i} : a[y] = b[y]
    BY <1>1
  <2> HIDE DEF a, b
  <2> QED BY <1>1, <1>2, <1>3, <2>1, TotalAt
<1>4. ASSUME i \notin D PROVE Total(a) = Total(b)
  <2>1. a = b
    BY <1>1, <1>4
  <2> QED BY <2>1
<1>5. i \in D => a[i] = f[i] /\ b[i] = g[i]
  OBVIOUS
<1> QED BY <1>2, <1>3, <1>4, <1>5

LEMMA OnCpusZero ==
  ASSUME args \in Arguments, NEW c \in ColumnNums, NEW f \in [CpuNums -> Nat],
         \A i \in CpuNums : f[i] = 0
  PROVE  OnCpus(f, c) = 0
<1>1. IsFiniteSet(CpusOf(c)) /\ CpusOf(c) \subseteq CpuNums
  BY FiniteSets
<1>2. [i \in CpusOf(c) |-> f[i]] = [i \in CpusOf(c) |-> 0]
  BY <1>1
<1> QED BY <1>1, <1>2, TotalOfZeros DEF OnCpus

(* What is exported of an event is what its counters hold on these CPUs. *)
LEMMA ExportsCounted ==
  ASSUME TypeOK, NEW j \in Events, NEW c \in ColumnNums
  PROVE  /\ ColumnsOf(count, j)[c] = Counted(j, c)
         /\ args.target_cpu_num = 1 => SumOf(count, j) = Counted(j, c)
<1> DEFINE f == [i \in CpuNums |-> count[i, j]]
<1>1. args \in Arguments /\ count \in [Fds -> Nat] /\ f \in [CpuNums -> Nat]
  BY ColumnTypes DEF TypeOK
<1>2. CpusOf(c) = CpuNums => SumOf(count, j) = Counted(j, c)
  BY DEF SumOf, Counted, OnCpus
<1>3. args.target_cpu_num = 1 => CpusOf(c) = CpuNums
  BY DEF CpusOf, CpuNums, ColumnNums
<1>4. CASE ~args.exp_all_flag
  <2>1. CpusOf(c) = CpuNums
    BY <1>4 DEF CpusOf
  <2> QED BY <1>1, <1>2, <1>4, <2>1, ColumnTypes
<1>5. CASE args.exp_all_flag
  <2>1. CpusOf(c) = {c} /\ c \in CpuNums
    BY <1>5 DEF CpusOf, ColumnNums
  <2> DEFINE a == [i \in {c} |-> f[i]]
  <2>2. Counted(j, c) = Total(a) /\ a \in [{c} -> Nat] /\ a[c] = count[c, j]
    BY <1>1, <2>1 DEF Counted, OnCpus
  <2> HIDE DEF a
  <2>3. Total(a) = a[c]
    BY <2>2, TotalOfOne
  <2> QED BY <1>1, <1>2, <1>3, <1>5, <2>2, <2>3, ColumnTypes
<1> QED BY <1>4, <1>5

LEMMA SameWork ==
  UNCHANGED <<args, work, slept>> =>
    \A c : OnCpus(work, c)' = OnCpus(work, c) /\ OnCpus(slept, c)' = OnCpus(slept, c)
BY DEF OnCpus, CpusOf, CpuNums

LEMMA SameCounted ==
  UNCHANGED <<args, count>> => \A j, c : Counted(j, c)' = Counted(j, c)
BY DEF Counted, OnCpus, CpusOf, CpuNums

LEMMA ReportedKept ==
  ASSUME TypeOK, NestInv, [Next]_vars, ~IncResultIdx, ~(PrintResult /\ Top.idx \in Events),
         NEW j \in Events, NEW c \in ColumnNums
  PROVE  Reported(j, c)' = Reported(j, c)
<1>1. args' = args
  BY TypeStep
<1>2. result_idx' = result_idx /\ printed' = printed
      /\ \A m \in 1 .. result_idx : buf_logs'[j][m - 1] = buf_logs[j][m - 1]
  <2>1. CASE StoreRow
    <3>1. \A m \in 1 .. result_idx : m - 1 \in Slots /\ m - 1 # result_idx
      BY RecordedSlots DEF NestInv, TypeOK
    <3> QED BY <2>1, <3>1, StoreEffect DEF NestInv
  <2>2. CASE PrintResult
    BY <2>2, PrintEffect
  <2>3. CASE ~StoreRow /\ ~PrintResult
    BY <2>3, OnlyRows
  <2> QED BY <2>1, <2>2, <2>3
<1>3. Values(j, c)' = Values(j, c)
  BY <1>1, <1>2 DEF Values
<1> QED BY <1>3 DEF Reported

LEMMA EndExports ==
  ASSUME ~Overall, NEW f, FrameOK(f), IsEnd(f)
  PROVE  \A j : ~ExportedBy(f, j)
BY DEF FrameOK, ExportedBy, ExportPcs, FilePcs

(* On top there is a tick that goes on, or a handler that records nothing. *)
LEMMA TickOrEnd ==
  ASSUME TypeOK, NestInv, CounterInv, ~Overall, stack # <<>>
  PROVE  /\ Top.sig = "ALRM" \/ IsEnd(Top)
         /\ Top.sig = "ALRM" => ~Dead /\ pc = "pause"
         /\ IsEnd(Top) => \A j : ~Exported(j)
<1>1. /\ FrameOK(Top) /\ Top.sig \in Sigs /\ Top = stack[Len(stack)]
      /\ Len(stack) \in 1 .. Len(stack) /\ Len(stack) \in Nat
      /\ Top.sig \in {"ALRM", "main"} => pc = "pause"
  BY TopFacts, LenProperties
<1>2. Top.sig = "ALRM" \/ IsEnd(Top)
  BY <1>1 DEF FrameOK, Sigs, IsEnd
<1>3. Top.sig = "ALRM" => ~Dead
  <2> SUFFICES ASSUME Top.sig = "ALRM", NEW k \in 1 .. Len(stack), k # Len(stack),
                      stack[k].sig = "ALRM"
               PROVE  FALSE
    BY DEF Dead
  <2>1. k < Len(stack)
    BY <1>1
  <2> QED BY <1>1, <2>1 DEF NestInv, NestOK
<1> QED BY <1>1, <1>2, <1>3, EndExports DEF Exported

LEMMA MovesDead ==
  ASSUME TypeOK, stack # <<>>, NEW n \in FrameSet, SetTop(n), n.sig = Top.sig
  PROVE  /\ Dead' <=> Dead
         /\ \A j : Exported(j)' <=> ExportedBy(n, j)
<1>1. /\ Len(stack') = Len(stack) /\ Top' = n /\ stack' # <<>>
      /\ \A k \in 1 .. Len(stack) : stack'[k].sig = stack[k].sig
  BY Moved DEF TypeOK
<1> QED BY <1>1 DEF Dead, Exported, ExportedBy

LEMMA SameUnits ==
  ASSUME NEW j, NEW c, UnitsOK(j, c), Reported(j, c)' = Reported(j, c),
         Counted(j, c)' = Counted(j, c), OnCpus(work, c)' = OnCpus(work, c),
         OnCpus(slept, c)' = OnCpus(slept, c),
         ~Dead' => ~Dead /\ (Exported(j)' <=> Exported(j))
  PROVE  UnitsOK(j, c)'
BY DEF UnitsOK

LEMMA PushUnits ==
  ASSUME TypeOK, NestInv, CounterInv, ~Overall, NEW f \in FrameSet, f.pc \in {"tick", "begin"},
         stack' = Append(stack, f), UNCHANGED <<args, work, slept, count>>,
         NEW j, NEW c, UnitsOK(j, c), Reported(j, c)' = Reported(j, c)
  PROVE  UnitsOK(j, c)'
<1>1. /\ Len(stack) \in Nat /\ Len(stack') = Len(stack) + 1 /\ stack'[Len(stack) + 1] = f
      /\ \A k \in 1 .. Len(stack) : stack'[k] = stack[k]
  BY PushType, LenProperties DEF TypeOK
<1>2. Top' = f
  BY <1>1 DEF Top
<1>3. ~Exported(j)'
  BY <1>2 DEF Exported, ExportedBy
<1>4. ASSUME ~Dead' PROVE ~Dead /\ ~Exported(j)
  <2>1. \A k \in 1 .. Len(stack) : stack[k].sig # "ALRM"
    <3>1. \A k \in 1 .. Len(stack) : k \in 1 .. Len(stack') /\ k # Len(stack')
      BY <1>1
    <3> QED BY <1>1, <1>4, <3>1 DEF Dead
  <2>2. stack # <<>> => Top.sig # "ALRM"
    BY <2>1, TopFacts
  <2> QED BY <2>1, <2>2, TickOrEnd DEF Dead, Exported
<1> QED BY <1>3, <1>4, SameWork, SameCounted, SameUnits

LEMMA WorkUnits ==
  ASSUME TypeOK, NestInv, CounterInv, ~Overall, NEW i \in CpuNums, Work(i),
         NEW j \in Events, NEW c \in ColumnNums, UnitsOK(j, c), Reported(j, c)' = Reported(j, c)
  PROVE  UnitsOK(j, c)'
<1> DEFINE f == [y \in CpuNums |-> count[y, j]]
           g == [y \in CpuNums |-> count'[y, j]]
<1>1. /\ UNCHANGED <<args, pc, start_flag, enabled, stack>>
      /\ work' = [work EXCEPT ![i] = @ + 1]
      /\ slept' = IF Measuring THEN [slept EXCEPT ![i] = @ + 1] ELSE slept
      /\ count' = [fd \in Fds |->
                     IF fd[1] = i /\ {<<i, 1>>, fd} \subseteq enabled
                     THEN count[fd] + 1 ELSE count[fd]]
  BY DEF Work, resVars
<1>t. /\ args \in Arguments /\ count \in [Fds -> Nat] /\ work \in [CpuNums -> Nat]
      /\ slept \in [CpuNums -> Nat] /\ count' \in [Fds -> Nat] /\ work' \in [CpuNums -> Nat]
      /\ slept' \in [CpuNums -> Nat]
  BY <1>1 DEF TypeOK
<1>2. /\ f \in [CpuNums -> Nat] /\ g \in [CpuNums -> Nat]
      /\ \A y \in CpuNums \ {i} : f[y] = g[y]
      /\ g[i] = f[i] \/ g[i] = f[i] + 1
  <2>1. \A y \in CpuNums : <<y, j>> \in Fds /\ <<y, j>>[1] = y
    BY DEF Fds
  <2>2. \A y \in CpuNums \ {i} : count'[<<y, j>>] = count[<<y, j>>]
    BY <1>1, <2>1
  <2>3. count'[<<i, j>>] = count[<<i, j>>] \/ count'[<<i, j>>] = count[<<i, j>>] + 1
    BY <1>1, <2>1
  <2> QED BY <1>t, <2>1, <2>2, <2>3
<1>3. Measuring => g[i] = f[i] + 1
  <2>1. Measuring => start_flag = TRUE /\ Len(stack) = 0 /\ 1 .. 0 = {}
    BY EmptySeq DEF Measuring, TypeOK
  <2>2. Measuring => enabled = Fds
    BY <2>1 DEF CounterInv, StartedOK
  <2>3. <<i, j>> \in Fds /\ <<i, 1>> \in Fds /\ <<i, j>>[1] = i
    BY <1>t, FiniteSets DEF Fds
  <2> QED BY <1>1, <2>2, <2>3
<1>4. /\ Counted(j, c) = OnCpus(f, c) /\ Counted(j, c)' = OnCpus(g, c)
      /\ OnCpus(work, c)' = OnCpus(work', c) /\ OnCpus(slept, c)' = OnCpus(slept', c)
  BY <1>1 DEF Counted, OnCpus, CpusOf, CpuNums
<1>5. /\ OnCpus(f, c) \in Nat /\ OnCpus(g, c) \in Nat /\ OnCpus(work, c) \in Nat
      /\ OnCpus(work', c) \in Nat /\ OnCpus(slept, c) \in Nat /\ OnCpus(slept', c) \in Nat
      /\ Reported(j, c) \in Nat /\ f[i] \in Nat /\ work[i] \in Nat /\ slept[i] \in Nat
  <2> HIDE DEF f, g
  <2> QED BY <1>t, <1>2, OnCpusType, ValuesType
<1>6. work'[i] = work[i] + 1 /\ \A y \in CpuNums \ {i} : work[y] = work'[y]
  BY <1>1, <1>t
<1>7. /\ slept'[i] = IF Measuring THEN slept[i] + 1 ELSE slept[i]
      /\ \A y \in CpuNums \ {i} : slept[y] = slept'[y]
  BY <1>1, <1>t
<1>8. Exported(j) => ~Measuring
  BY DEF Exported, Measuring
<1>9. Dead' = Dead /\ Exported(j)' = Exported(j)
  BY <1>1 DEF Dead, Exported, ExportedBy, Top
<1> HIDE DEF f, g
<1>10. CASE i \in CpusOf(c)
  <2>1. /\ OnCpus(f, c) + g[i] = OnCpus(g, c) + f[i]
        /\ OnCpus(work, c) + work'[i] = OnCpus(work', c) + work[i]
        /\ OnCpus(slept, c) + slept'[i] = OnCpus(slept', c) + slept[i]
    <3>1. OnCpus(f, c) + g[i] = OnCpus(g, c) + f[i]
      BY <1>t, <1>2, <1>10, OnCpusAt
    <3>2. OnCpus(work, c) + work'[i] = OnCpus(work', c) + work[i]
      BY <1>t, <1>6, <1>10, OnCpusAt
    <3>3. OnCpus(slept, c) + slept'[i] = OnCpus(slept', c) + slept[i]
      <4>1. \A y \in CpuNums \ {i} : slept[y] = slept'[y]
        BY <1>7
      <4> QED BY <1>t, <1>10, <4>1, OnCpusAt
    <3> QED BY <3>1, <3>2, <3>3
  <2>2. OnCpus(work', c) = OnCpus(work, c) + 1
    BY <1>5, <1>6, <2>1
  <2>3. OnCpus(slept', c) = IF Measuring THEN OnCpus(slept, c) + 1 ELSE OnCpus(slept, c)
    BY <1>5, <1>7, <2>1
  <2>4. /\ OnCpus(g, c) \in {OnCpus(f, c), OnCpus(f, c) + 1}
        /\ Measuring => OnCpus(g, c) = OnCpus(f, c) + 1
    BY <1>2, <1>3, <1>5, <2>1
  <2> QED BY <1>4, <1>5, <1>8, <1>9, <2>2, <2>3, <2>4 DEF UnitsOK
<1>11. CASE i \notin CpusOf(c)
  <2>1. /\ OnCpus(f, c) = OnCpus(g, c) /\ OnCpus(work, c) = OnCpus(work', c)
        /\ OnCpus(slept, c) = OnCpus(slept', c)
    BY <1>t, <1>2, <1>6, <1>7, <1>11, OnCpusAt
  <2> QED BY <1>4, <1>9, <2>1 DEF UnitsOK
<1> QED BY <1>10, <1>11

(* One value more is reported. *)
LEMMA OneMore ==
  ASSUME TypeOK, NestInv, NEW j \in Events, NEW c \in ColumnNums, NEW v \in Nat,
         ValueNums' = 1 .. Cardinality(ValueNums) + 1,
         Values(j, c)' \in [ValueNums' -> Nat],
         \A m \in ValueNums : Values(j, c)'[m] = Values(j, c)[m],
         Values(j, c)'[Cardinality(ValueNums) + 1] = v
  PROVE  Reported(j, c)' = Reported(j, c) + v
<1> DEFINE n == Cardinality(ValueNums)
           f == Values(j, c)
           g == Values(j, c)'
<1>1. n \in Nat /\ ValueNums = 1 .. n
  <2>1. PICK k \in Nat : ValueNums = 1 .. k
    BY LenProperties DEF ValueNums, TypeOK
  <2>2. Cardinality(1 .. k) = k
    BY FS_Interval
  <2> QED BY <2>1, <2>2
<1>2. f \in [1 .. n -> Nat]
  BY <1>1, ValuesType
<1>3. g \in [1 .. n + 1 -> Nat] /\ g[n + 1] = v /\ \A m \in 1 .. n : f[m] = g[m]
  BY <1>1
<1> HIDE DEF n, f, g
<1>4. Total(g) = Total(f) + g[n + 1]
  BY <1>1, <1>2, <1>3, TotalExtends
<1>5. Total(g) = Reported(j, c)' /\ Total(f) = Reported(j, c)
  BY DEF f, g, Reported
<1> QED BY <1>3, <1>4, <1>5

LEMMA IncUnits ==
  ASSUME TypeOK, NestInv, CounterInv, RowInv, UnitInv, IncResultIdx, ~Overall,
         NEW j \in Events, NEW c \in ColumnNums
  PROVE  UnitsOK(j, c)'
<1>1. /\ UNCHANGED <<args, buf_logs, printed, count, work, slept>> /\ result_idx' = result_idx + 1
      /\ stack # <<>> /\ Top.pc = "inc" /\ Goto("check") /\ stack \in Seq(FrameSet)
  BY DEF IncResultIdx, At, TypeOK, pmuVars
<1>2. FrameOK(Top) /\ StoredOK(Top) /\ Top.val = count
  BY <1>1, TopFacts DEF RowInv, OutputOK, FrameCounts
<1>3. args.use_file_export = TRUE /\ ~Dead /\ pc = "pause" /\ ~Exported(j)
  <2>1. args.use_file_export = TRUE /\ Top.sig = "ALRM"
    BY <1>1, <1>2, ArgsFields, TickOrEnd DEF FrameOK, ExportPcs, TypeOK
  <2> QED BY <1>1, <2>1, TickOrEnd DEF Exported, ExportedBy
<1>4. args.target_cpu_num = 1
  BY <1>3 DEF UnitInv
<1>5. buf_logs[j][result_idx] = Counted(j, c)
  BY <1>1, <1>2, <1>4, ExportsCounted DEF StoredOK
<1>6. Reported(j, c)' = Reported(j, c) + Counted(j, c)
  <2>1. ValueNums = 1 .. result_idx /\ Cardinality(ValueNums) = result_idx
    <3>1. ValueNums = 1 .. result_idx
      BY <1>3 DEF ValueNums
    <3> QED BY <3>1, FS_Interval DEF TypeOK
  <2>2. ValueNums' = 1 .. result_idx + 1
    BY <1>1, <1>3 DEF ValueNums
  <2>3. Counted(j, c) \in Nat
    <3>1. [i \in CpuNums |-> count[i, j]] \in [CpuNums -> Nat]
      BY ColumnTypes DEF TypeOK
    <3> QED BY <3>1, OnCpusType DEF Counted, TypeOK
  <2>4. Values(j, c)' = [m \in 1 .. result_idx + 1 |-> buf_logs[j][m - 1]]
    BY <1>1, <1>3 DEF Values
  <2>5. Values(j, c) = [m \in 1 .. result_idx |-> buf_logs[j][m - 1]]
    BY <1>3 DEF Values
  <2>6. Values(j, c) \in [ValueNums -> Nat]
    BY ValuesType
  <2>7. /\ result_idx + 1 \in 1 .. result_idx + 1 /\ (result_idx + 1) - 1 = result_idx
        /\ 1 .. result_idx \subseteq 1 .. result_idx + 1
        /\ \A m \in 1 .. result_idx + 1 : m \in 1 .. result_idx \/ m = result_idx + 1
    BY DEF TypeOK
  <2>8. Values(j, c)'[result_idx + 1] = Counted(j, c)
    BY <1>5, <2>4, <2>7
  <2>9. \A m \in 1 .. result_idx : Values(j, c)'[m] = Values(j, c)[m]
    BY <2>4, <2>5, <2>7
  <2>10. Values(j, c)' \in [1 .. result_idx + 1 -> Nat]
    <3>1. \A m \in 1 .. result_idx + 1 : Values(j, c)'[m] \in Nat
      BY <2>1, <2>3, <2>6, <2>7, <2>8, <2>9
    <3> QED BY <2>4, <3>1
  <2> QED BY <2>1, <2>2, <2>3, <2>8, <2>9, <2>10, OneMore
<1>7. PICK n \in FrameSet : SetTop(n) /\ n.sig = Top.sig /\ n.pc = "check"
  BY <1>1, GotoMoves DEF FramePcs
<1>8. Exported(j)'
  BY <1>1, <1>7, MovesDead DEF ExportedBy
<1>9. /\ Reported(j, c) + Counted(j, c) <= OnCpus(work, c)
      /\ Reported(j, c) + Counted(j, c) >= OnCpus(slept, c)
  BY <1>3 DEF UnitInv, UnitsOK
<1> QED BY <1>1, <1>6, <1>8, <1>9, SameWork DEF UnitsOK

LEMMA PrintUnits ==
  ASSUME TypeOK, NestInv, CounterInv, RowInv, UnitInv, PrintResult, Top.idx \in Events, ~Overall,
         NEW j \in Events, NEW c \in ColumnNums
  PROVE  UnitsOK(j, c)'
<1> DEFINE L == Len(printed)
           e == Top.idx
<1>1. /\ UNCHANGED <<args, buf_logs, result_idx, count, work, slept>>
      /\ stack # <<>> /\ Top.pc = "print" /\ NextIdx /\ stack \in Seq(FrameSet)
      /\ Len(printed') = L + 1 /\ L \in Nat
      /\ printed'[L + 1] = [event |-> e, columns |-> Columns(e)]
      /\ \A n \in 1 .. L : printed'[n] = printed[n]
  BY PrintEffect, LenProperties DEF PrintResult, TypeOK, pmuVars
<1>2. FrameOK(Top) /\ Top.val = count /\ e \in Nat
  BY <1>1, TopFacts DEF FrameCounts
<1>3. args.use_file_export = FALSE /\ ~Dead
  <2>1. args.use_file_export = FALSE /\ Top.sig = "ALRM"
    BY <1>1, <1>2, ArgsFields, TickOrEnd DEF FrameOK, ExportPcs, TypeOK
  <2> QED BY <1>1, <2>1, TickOrEnd
<1>4. Columns(e)[c] = Counted(e, c)
  <2>1. Columns(e) = ColumnsOf(count, e)
    BY <1>2 DEF Columns, ColumnsOf, total_val, SumOf
  <2> QED BY <2>1, ExportsCounted
<1>5. Counted(j, c) \in Nat /\ Counted(e, c) \in Nat
  <2>1. \A d \in Events : [i \in CpuNums |-> count[i, d]] \in [CpuNums -> Nat]
    BY ColumnTypes DEF TypeOK
  <2>2. \A d \in Events : Counted(d, c) \in Nat
    BY <2>1, OnCpusType DEF Counted, TypeOK
  <2> QED BY <2>2
<1> DEFINE v == IF j = e THEN Counted(e, c) ELSE 0
<1>6. Reported(j, c)' = Reported(j, c) + v
  <2>1. v \in Nat
    BY <1>5
  <2>2. ValueNums = 1 .. L /\ Cardinality(ValueNums) = L
    <3>1. ValueNums = 1 .. L
      BY <1>3 DEF ValueNums
    <3>2. L \in Nat
      BY <1>1
    <3> HIDE DEF L
    <3>3. Cardinality(1 .. L) = L
      BY <3>2, FS_Interval
    <3> QED BY <3>1, <3>3
  <2>3. ValueNums' = 1 .. L + 1
    BY <1>1, <1>3 DEF ValueNums
  <2>4. Values(j, c)' = [n \in 1 .. L + 1 |->
                           IF printed'[n].event = j THEN printed'[n].columns[c] ELSE 0]
    BY <1>1, <1>3 DEF Values
  <2>5. Values(j, c) = [n \in 1 .. L |->
                          IF printed[n].event = j THEN printed[n].columns[c] ELSE 0]
    BY <1>3 DEF Values
  <2>6. Values(j, c) \in [ValueNums -> Nat]
    BY ValuesType
  <2>7. /\ L + 1 \in 1 .. L + 1 /\ 1 .. L \subseteq 1 .. L + 1
        /\ \A m \in 1 .. L + 1 : m \in 1 .. L \/ m = L + 1
    BY <1>1
  <2>8. Values(j, c)'[L + 1] = v
    <3>1. printed'[L + 1].event = e /\ printed'[L + 1].columns[c] = Counted(e, c)
      BY <1>1, <1>4
    <3> HIDE DEF L, e
    <3> QED BY <2>4, <2>7, <3>1
  <2> HIDE DEF L, e, v
  <2>9. \A m \in 1 .. L : Values(j, c)'[m] = Values(j, c)[m]
    BY <1>1, <2>4, <2>5, <2>7
  <2>10. Values(j, c)' \in [1 .. L + 1 -> Nat]
    <3>1. \A m \in 1 .. L + 1 : Values(j, c)'[m] \in Nat
      BY <2>1, <2>2, <2>6, <2>7, <2>8, <2>9
    <3> QED BY <2>4, <3>1
  <2> QED BY <2>1, <2>2, <2>3, <2>8, <2>9, <2>10, OneMore
<1>7. PICK n \in FrameSet : SetTop(n) /\ n.sig = Top.sig /\ n.pc = "print" /\ n.idx = e + 1
  BY <1>1, NextIdxMoves
<1>8. (Dead' <=> Dead) /\ (Exported(j)' <=> j < e + 1) /\ (Exported(j) <=> j < e)
  BY <1>1, <1>7, MovesDead DEF Exported, ExportedBy
<1>9. UnitsOK(j, c)
  BY DEF UnitInv
<1>10. CASE j = e
  <2>1. Exported(j)' /\ ~Exported(j) /\ v = Counted(j, c)
    BY <1>2, <1>8, <1>10
  <2> HIDE DEF v
  <2> QED BY <1>1, <1>3, <1>6, <1>9, <2>1, SameWork DEF UnitsOK
<1>11. CASE j # e
  <2>1. Reported(j, c)' = Reported(j, c)
    BY <1>6, <1>11, ValuesType
  <2>2. Exported(j)' <=> Exported(j)
    BY <1>2, <1>8, <1>11 DEF Events
  <2> QED BY <1>1, <1>8, <1>9, <2>1, <2>2, SameWork, SameCounted, SameUnits
<1> QED BY <1>10, <1>11

LEMMA ResetUnits ==
  ASSUME TypeOK, NestInv, CounterInv, UnitInv, ResetCounter, ~Overall,
         NEW j \in Events, NEW c \in ColumnNums, Reported(j, c)' = Reported(j, c)
  PROVE  UnitsOK(j, c)'
<1>1. /\ UNCHANGED <<args, work, slept>> /\ stack # <<>> /\ stack \in Seq(FrameSet)
      /\ Top.pc = "reset"
      /\ FdAt(Top.idx) \in Fds => NextIdx
      /\ FdAt(Top.idx) \notin Fds => Goto("enable") /\ count' = count
  BY DEF ResetCounter, ForEach, At, ResetOne, pmuVars, resVars, TypeOK
<1>2. ~Dead /\ Exported(j) /\ UnitsOK(j, c)
  BY <1>1, StartingFrame, TickOrEnd DEF Exported, ExportedBy, UnitInv
<1>3. CASE FdAt(Top.idx) \in Fds
  <2>1. PICK n \in FrameSet : SetTop(n) /\ n.sig = Top.sig /\ n.pc = "reset"
    BY <1>1, <1>3, NextIdxMoves
  <2>2. Exported(j)'
    BY <1>1, <2>1, MovesDead DEF ExportedBy
  <2> QED BY <1>1, <1>2, <2>2, SameWork DEF UnitsOK
<1>4. CASE FdAt(Top.idx) \notin Fds
  <2>1. Top.idx \in Nat /\ Top.idx >= 1 /\ \A fd \in Visited(Top.idx) : count[fd] = 0
    BY <1>1, TopFacts DEF FrameOK, FrameCounts
  <2>2. \A fd \in Fds : count[fd] = 0
    BY <1>4, <2>1, VisitedAll DEF TypeOK
  <2>3. Counted(j, c) = 0
    <3>1. [i \in CpuNums |-> count[i, j]] \in [CpuNums -> Nat]
      BY ColumnTypes DEF TypeOK
    <3>2. \A i \in CpuNums : count[i, j] = 0
      BY <2>2 DEF Fds
    <3> QED BY <3>1, <3>2, OnCpusZero DEF Counted, TypeOK
  <2>4. Counted(j, c)' = 0
    BY <1>1, <1>4, <2>3, SameCounted
  <2>5. Reported(j, c) \in Nat
    BY ValuesType
  <2> QED BY <1>1, <1>2, <2>4, <2>5, SameWork DEF UnitsOK
<1> QED BY <1>3, <1>4

LEMMA TickUnits ==
  ASSUME TypeOK, NestInv, CounterInv, UnitInv, Tick, ~Overall,
         NEW j \in Events, NEW c \in ColumnNums, Reported(j, c)' = Reported(j, c)
  PROVE  UnitsOK(j, c)'
<1>1. /\ UNCHANGED <<args, count, work, slept>> /\ stack # <<>> /\ stack \in Seq(FrameSet)
      /\ Top.pc = "tick" /\ Goto(IF start_flag THEN "stop" ELSE "reset")
  BY DEF Tick, FirstCall, At, pmuVars, TypeOK
<1>2. UnitsOK(j, c) /\ ~Exported(j)
  BY <1>1 DEF Exported, ExportedBy, UnitInv
<1>3. PICK n \in FrameSet : SetTop(n) /\ n.sig = Top.sig
                            /\ n.pc = IF start_flag THEN "stop" ELSE "reset"
  BY <1>1, GotoMoves DEF FramePcs
<1>4. (Dead' <=> Dead) /\ (Exported(j)' <=> ExportedBy(n, j))
  BY <1>1, <1>3, MovesDead
<1>5. CASE start_flag
  BY <1>1, <1>2, <1>3, <1>4, <1>5, SameWork, SameCounted, SameUnits DEF ExportedBy
<1>6. CASE ~start_flag
  <2>1. Zero(slept) /\ slept \in [CpuNums -> Nat]
    BY <1>6 DEF CounterInv, QuietOK, TypeOK
  <2>2. OnCpus(slept, c) = 0 /\ Reported(j, c) \in Nat
    BY <2>1, OnCpusZero, ValuesType DEF Zero, TypeOK
  <2> QED BY <1>1, <1>2, <1>3, <1>4, <1>6, <2>2, SameWork DEF UnitsOK, ExportedBy
<1> QED BY <1>5, <1>6

LEMMA PopUnits ==
  ASSUME TypeOK, NestInv, CounterInv, ~Overall, stack # <<>>, Top.pc = "return",
         stack' = SubSeq(stack, 1, Len(stack) - 1), UNCHANGED <<args, count, work, slept>>,
         NEW j, NEW c, UnitsOK(j, c), Reported(j, c)' = Reported(j, c)
  PROVE  UnitsOK(j, c)'
<1>1. /\ Len(stack') = Len(stack) - 1 /\ Len(stack) \in Nat \ {0} /\ stack' \in Seq(FrameSet)
      /\ \A k \in 1 .. Len(stack) - 1 : stack'[k] = stack[k]
  BY PopType, TopType DEF TypeOK
<1>2. ~Dead /\ ~Exported(j)
  BY StartingFrame, TickOrEnd DEF Exported, ExportedBy
<1>3. ~Exported(j)'
  <2> SUFFICES ASSUME stack' # <<>> PROVE ~ExportedBy(Top', j)
    BY DEF Exported, ExportedBy
  <2>1. Len(stack') \in 1 .. Len(stack) - 1
    <3>1. Len(stack') # 0
      BY <1>1, EmptySeq
    <3> QED BY <1>1, <3>1
  <2>2. Top' = stack[Len(stack')]
    BY <1>1, <2>1 DEF Top
  <2>3. stack[Len(stack')].pc \notin ExportPcs \cup {"reset", "enable", "return"}
    BY <1>1, <2>1, BelowLoop
  <2> QED BY <2>2, <2>3 DEF ExportedBy, ExportPcs
<1> QED BY <1>2, <1>3, SameWork, SameCounted DEF UnitsOK

(* The other steps of a frame. *)
LEMMA MovesUnits ==
  ASSUME TypeOK, NestInv, CounterInv, ~Overall, stack # <<>>, Moves,
         Top.pc \notin {"inc", "tick", "reset"},
         Top.pc = "print" => Top.idx \notin Events /\ PrintedOK(Top),
         UNCHANGED <<args, count, work, slept>>,
         NEW j \in Events, NEW c, UnitsOK(j, c), Reported(j, c)' = Reported(j, c),
         Top.pc = "print" => Top'.pc # "print"
  PROVE  UnitsOK(j, c)'
<1>1. PICK n \in FrameSet : SetTop(n) /\ n.sig = Top.sig /\ Flow(Top, n)
  BY DEF Moves, MovesTo
<1>2. (Dead' <=> Dead) /\ (Exported(j)' <=> ExportedBy(n, j)) /\ Top' = n
  BY <1>1, MovesDead, Moved DEF TypeOK
<1>3. FrameOK(Top) /\ Top.sig \in Sigs /\ Top.idx \in Nat
  BY TopFacts
<1>4. j \in Nat /\ j >= 1
  BY DEF Events
<1>5. CASE Top.pc = "print"
  <2>1. ~IsEnd(Top)
    BY <1>5, <1>3 DEF FrameOK, ExportPcs
  <2>2. n.pc = "reset"
    BY <1>1, <1>2, <1>5, <2>1 DEF Flow
  <2>3. j < Top.idx
    <3>1. Top.idx <= args.counter_num + 1 /\ Top.idx >= 1 /\ args.counter_num \in Nat
      BY <1>3, <1>5, ArgsFields DEF PrintedOK, FrameOK, TypeOK
    <3> QED BY <1>3, <1>5, <3>1 DEF Events
  <2>4. Exported(j)' /\ Exported(j)
    BY <1>2, <1>5, <2>2, <2>3 DEF Exported, ExportedBy
  <2> QED BY <1>2, <2>4, SameWork, SameCounted, SameUnits
<1>6. CASE Top.pc # "print"
  <2>1. ExportedBy(Top, j) <=> Top.pc = "check"
    BY <1>6 DEF ExportedBy
  <2>2. Top.pc = "check" => n.pc = "reset"
    BY <1>1, <1>3 DEF Flow, FrameOK, ExportPcs
  <2>3. Top.pc # "check" => n.pc \notin {"check", "reset"} /\ (n.pc = "print" => n.idx = 1)
    BY <1>1, <1>6 DEF Flow
  <2>4. Exported(j)' <=> Exported(j)
    BY <1>2, <1>4, <2>1, <2>2, <2>3 DEF Exported, ExportedBy
  <2> QED BY <1>2, <2>4, SameWork, SameCounted, SameUnits
<1> QED BY <1>5, <1>6

LEMMA HandlersUnits ==
  ASSUME TypeOK, NestInv, CounterInv, RowInv, UnitInv, Handlers, ~Overall,
         NEW j \in Events, NEW c \in ColumnNums
  PROVE  UnitsOK(j, c)'
<1>1. UNCHANGED <<args, work, slept>> /\ stack # <<>> /\ UnitsOK(j, c)
  BY HandlersKeep DEF UnitInv
<1>2. CASE IncResultIdx
  BY <1>2, IncUnits
<1>3. CASE PrintResult /\ Top.idx \in Events
  BY <1>3, PrintUnits
<1>4. CASE ~IncResultIdx /\ ~(PrintResult /\ Top.idx \in Events)
  <2>1. Reported(j, c)' = Reported(j, c)
    <3>1. [Next]_vars
      BY DEF Next
    <3> QED BY <1>4, <3>1, ReportedKept
  <2>2. CASE ResetCounter
    BY <2>1, <2>2, ResetUnits
  <2>3. CASE Tick
    BY <2>1, <2>3, TickUnits
  <2>4. CASE ~ResetCounter /\ ~Tick
    <3>1. count' = count
      BY <2>4 DEF Handlers, StopCounter, StartCounter, ReadCounter, StoreRow,
         IncResultIdx, CheckFull, PrintResult, Return, Begin, CallFopen, OpenLog, PrintWarn,
         PrintOverall, PrintTitle, PrintRow, CallFclose, CloseLog, Exit, ForEach, PrintLine, StopOne,
         pmuVars, EnableOne
    <3>2. CASE Moves
      <4>1. Top.pc \notin {"inc", "tick", "reset"}
        BY <1>4, <2>4 DEF Handlers, StopCounter, StartCounter, ReadCounter, StoreRow,
         CheckFull, PrintResult, Return, Begin, CallFopen, OpenLog, PrintWarn,
         PrintOverall, PrintTitle, PrintRow, CallFclose, CloseLog, Exit, ForEach, PrintLine, At
      <4>2. ASSUME Top.pc = "print"
            PROVE  Top.idx \notin Events /\ PrintedOK(Top) /\ Top'.pc # "print"
        <5>1. PrintResult
          BY <4>2 DEF Handlers, StopCounter, ResetCounter, StartCounter, ReadCounter, StoreRow,
             IncResultIdx, CheckFull, Tick, Return, Begin, CallFopen, OpenLog, PrintWarn,
             PrintOverall, PrintTitle, PrintRow, CallFclose, CloseLog, Exit, ForEach, PrintLine, At
        <5>2. Top.idx \notin Events /\ PrintedOK(Top)
          BY <1>1, <1>4, <5>1 DEF RowInv, OutputOK
        <5>3. ~IsEnd(Top)
          BY <1>1, <4>2, TopFacts DEF FrameOK, ExportPcs
        <5>4. Goto("reset") /\ stack \in Seq(FrameSet)
          BY <5>1, <5>2, <5>3 DEF PrintResult, TypeOK
        <5>5. PICK n \in FrameSet : SetTop(n) /\ n.pc = "reset"
          BY <1>1, <5>4, GotoMoves DEF FramePcs
        <5> QED BY <1>1, <5>2, <5>4, <5>5, SetTopType
      <4> QED BY <1>1, <2>1, <3>1, <3>2, <4>1, <4>2, MovesUnits
    <3>3. CASE stack' = Append(stack, Frame("call", "begin"))
      <4> DEFINE f == Frame("call", "begin")
      <4>1. f \in FrameSet /\ f.pc \in {"tick", "begin"}
        BY FrameType DEF TypeOK, Frame, Sigs, FramePcs
      <4> HIDE DEF f
      <4> QED BY <1>1, <2>1, <3>1, <3>3, <4>1, PushUnits DEF f
    <3>4. CASE At("return") /\ stack' = SubSeq(stack, 1, Len(stack) - 1)
      BY <1>1, <2>1, <3>1, <3>4, PopUnits DEF At
    <3>5. CASE stack' = stack
      <4>1. Dead' = Dead /\ Exported(j)' = Exported(j)
        BY <3>5 DEF Dead, Exported, ExportedBy, Top
      <4> QED BY <1>1, <2>1, <3>1, <4>1, SameWork, SameCounted, SameUnits
    <3> QED BY <3>2, <3>3, <3>4, <3>5, HandlerMoves
  <2> QED BY <2>2, <2>3, <2>4
<1> QED BY <1>2, <1>3, <1>4

LEMMA UnitsStep ==
  ASSUME TypeOK, NestInv, CounterInv, RowInv, UnitInv, [Next]_vars, ~Overall,
         NEW j \in Events, NEW c \in ColumnNums
  PROVE  UnitsOK(j, c)'
<1>1. UnitsOK(j, c) /\ args' = args
  BY TypeStep DEF UnitInv
<1>2. CASE Handlers
  BY <1>2, HandlersUnits
<1>3. ASSUME ~Handlers PROVE Reported(j, c)' = Reported(j, c)
  BY <1>3, ReportedKept DEF Handlers
<1>4. CASE \E i \in CpuNums : Work(i)
  <2>1. ~Handlers \/ work' = work
    BY HandlersKeep
  <2>2. ~Handlers
    <3>1. PICK i \in CpuNums : Work(i)
      BY <1>4
    <3>2. work' # work
      <4>1. work \in [CpuNums -> Nat] /\ work' = [work EXCEPT ![i] = @ + 1]
        BY <3>1 DEF Work, TypeOK
      <4>2. work'[i] = work[i] + 1 /\ work[i] \in Nat
        BY <4>1
      <4>3. work'[i] # work[i]
        BY <4>2
      <4> QED BY <4>3
    <3> QED BY <2>1, <3>2
  <2> QED BY <1>1, <1>3, <1>4, <2>2, WorkUnits
<1>5. CASE ~Handlers /\ ~\E i \in CpuNums : Work(i)
  <2>1. UNCHANGED <<args, count, work, slept>>
    BY <1>1, <1>5, NextCases DEF vars, pmuVars, Startups, CheckArgs, CreateEvents, Probe, Create,
       RemoveOld, Register, Start, Send, Deliver, Expire, Kill, Hang
  <2>2. CASE \E sig \in {"ALRM", "INT", "TERM"} : Deliver(sig)
    <3>1. PICK sig \in {"ALRM", "INT", "TERM"}, at \in {"tick", "begin"} :
            stack' = Append(stack, Frame(sig, at))
      BY <2>2 DEF Deliver
    <3> DEFINE f == Frame(sig, at)
    <3>2. f \in FrameSet /\ f.pc \in {"tick", "begin"}
      BY FrameType DEF TypeOK, Frame, Sigs, FramePcs
    <3> HIDE DEF f
    <3> QED BY <1>1, <1>3, <1>5, <2>1, <3>1, <3>2, PushUnits DEF f
  <2>3. CASE ~\E sig \in {"ALRM", "INT", "TERM"} : Deliver(sig)
    <3>1. stack' = stack
      BY <1>5, <2>3, NextCases DEF vars, Startups, CheckArgs, CreateEvents, Probe, Create,
         RemoveOld, Register, Start, Startup, Send, Expire, Kill, Hang
    <3>2. Dead' = Dead /\ Exported(j)' = Exported(j)
      BY <3>1 DEF Dead, Exported, ExportedBy, Top
    <3> QED BY <1>1, <1>3, <1>5, <2>1, <3>2, SameWork, SameCounted, SameUnits
  <2> QED BY <2>2, <2>3
<1> QED BY <1>2, <1>4, <1>5

(* With -i < 0 the counters have what was done since their start. *)
LEMMA OverallStep ==
  ASSUME TypeOK, NestInv, CounterInv, UnitInv, [Next]_vars, Overall, stack' = <<>>
  PROVE  \A fd \in Fds : slept'[fd[1]] <= count'[fd]
<1>t. count \in [Fds -> Nat] /\ slept \in [CpuNums -> Nat] /\ \A fd \in Fds : fd[1] \in CpuNums
  BY DEF TypeOK, Fds
<1>1. CASE Handlers
  <2>1. stack # <<>> /\ slept' = slept
    BY <1>1, HandlersKeep
  <2>2. At("return") /\ stack' = SubSeq(stack, 1, Len(stack) - 1)
    <3>1. ~Moves
      <4>1. ASSUME NEW n \in FrameSet, SetTop(n) PROVE stack' # <<>>
        BY <2>1, <4>1, SetTopType DEF TypeOK
      <4> QED BY <4>1 DEF Moves, MovesTo
    <3>2. stack' # Append(stack, Frame("call", "begin"))
      <4>1. Frame("call", "begin") \in FrameSet
        BY FrameType DEF TypeOK, Sigs, FramePcs
      <4>2. Append(stack, Frame("call", "begin")) # <<>>
        BY <4>1, AppendProperties DEF TypeOK
      <4> QED BY <4>2
    <3> QED BY <1>1, <2>1, <3>1, <3>2, HandlerMoves
  <2>3. Zero(slept)
    BY <2>1, <2>2, StartingFrame DEF At
  <2>4. count' \in [Fds -> Nat]
    BY TypeStep, SameArgs DEF TypeOK
  <2> QED BY <1>t, <2>1, <2>3, <2>4 DEF Zero
<1>2. CASE \E i \in CpuNums : Work(i)
  <2>1. PICK i \in CpuNums : Work(i)
    BY <1>2
  <2>2. /\ stack = <<>> /\ UNCHANGED <<enabled, pc>>
        /\ slept' = IF Measuring THEN [slept EXCEPT ![i] = @ + 1] ELSE slept
        /\ count' = [fd \in Fds |->
                       IF fd[1] = i /\ {<<i, 1>>, fd} \subseteq enabled
                       THEN count[fd] + 1 ELSE count[fd]]
    BY <2>1 DEF Work
  <2>3. \A fd \in Fds : slept[fd[1]] <= count[fd]
    BY <2>2 DEF UnitInv
  <2>4. CASE Measuring
    <3>1. enabled = Fds
      BY <2>2, <2>4 DEF CounterInv, StartedOK, Measuring
    <3>2. <<i, 1>> \in Fds
      BY FiniteSets DEF Fds, TypeOK
    <3> SUFFICES ASSUME NEW fd \in Fds PROVE slept'[fd[1]] <= count'[fd]
      OBVIOUS
    <3>3. slept[fd[1]] <= count[fd] /\ slept[fd[1]] \in Nat /\ count[fd] \in Nat
      BY <1>t, <2>3
    <3>4. count'[fd] = IF fd[1] = i THEN count[fd] + 1 ELSE count[fd]
      BY <2>2, <3>1, <3>2
    <3>5. slept'[fd[1]] = IF fd[1] = i THEN slept[fd[1]] + 1 ELSE slept[fd[1]]
      BY <1>t, <2>2, <2>4
    <3> QED BY <3>3, <3>4, <3>5
  <2>5. CASE ~Measuring
    <3> SUFFICES ASSUME NEW fd \in Fds PROVE slept'[fd[1]] <= count'[fd]
      OBVIOUS
    <3>1. slept[fd[1]] <= count[fd] /\ slept[fd[1]] \in Nat /\ count[fd] \in Nat
      BY <1>t, <2>3
    <3>2. count'[fd] = count[fd] \/ count'[fd] = count[fd] + 1
      BY <2>2
    <3> QED BY <2>2, <2>5, <3>1, <3>2
  <2> QED BY <2>4, <2>5
<1>3. CASE ~Handlers /\ ~\E i \in CpuNums : Work(i)
  <2>1. UNCHANGED <<count, slept>>
    BY <1>3, NextCases DEF vars, pmuVars, Startups, CheckArgs, CreateEvents, Probe, Create,
       RemoveOld, Register, Start, Send, Deliver, Expire, Kill, Hang
  <2>2. stack = <<>>
    <3>1. ASSUME NEW sig \in {"ALRM", "INT", "TERM"}, Deliver(sig) PROVE FALSE
      <4>1. PICK at \in {"tick", "begin"} : stack' = Append(stack, Frame(sig, at))
        BY <3>1 DEF Deliver
      <4>2. Frame(sig, at) \in FrameSet
        BY FrameType DEF TypeOK, Sigs, FramePcs
      <4>3. Append(stack, Frame(sig, at)) # <<>>
        BY <4>2, AppendProperties DEF TypeOK
      <4> QED BY <4>1, <4>3
    <3> QED BY <1>3, <3>1, NextCases DEF vars, Startups, CheckArgs, CreateEvents, Probe, Create,
         RemoveOld, Register, Start, Startup, Send, Expire, Kill, Hang
  <2> QED BY <2>1, <2>2 DEF UnitInv
<1> QED BY <1>1, <1>2, <1>3

LEMMA UnitStep ==
  TypeOK /\ NestInv /\ CounterInv /\ RowInv /\ UnitInv /\ [Next]_vars => UnitInv'
<1> SUFFICES ASSUME TypeOK, NestInv, CounterInv, RowInv, UnitInv, [Next]_vars PROVE UnitInv'
  OBVIOUS
<1>1. /\ args' = args /\ Overall' = Overall /\ Events' = Events /\ ColumnNums' = ColumnNums
      /\ Fds' = Fds
  BY TypeStep, SameArgs
<1>2. pc' # "args" /\ args.use_file_export => args.target_cpu_num = 1
  <2>1. CASE pc = "args" /\ pc' # "args"
    <3>1. CheckArgs
      BY <2>1, NextCases, HandlersKeep DEF vars, Startups, CreateEvents, Probe, Create, RemoveOld,
         Register, Start, Startup, Work, Send, Deliver, Expire, Kill, Hang
    <3> QED BY <2>1, <3>1 DEF CheckArgs
  <2>2. CASE ~(pc = "args" /\ pc' # "args")
    BY <2>2 DEF UnitInv
  <2> QED BY <2>1, <2>2
<1>3. ~Overall => (\A j \in Events, c \in ColumnNums : UnitsOK(j, c)')
  BY UnitsStep
<1>4. Overall /\ stack' = <<>> => \A fd \in Fds : slept'[fd[1]] <= count'[fd]
  BY OverallStep
<1> QED BY <1>1, <1>2, <1>3, <1>4 DEF UnitInv

LEMMA UnitInit == Init => UnitInv
<1> SUFFICES ASSUME Init PROVE UnitInv
  OBVIOUS
<1>1. TypeOK /\ NestInv
  BY InitType, NestInit
<1>2. /\ stack = <<>> /\ Len(stack) = 0 /\ result_idx = 0 /\ printed = <<>> /\ Len(printed) = 0
      /\ 1 .. 0 = {} /\ pc = "args"
      /\ count = [fd \in Fds |-> 0]
      /\ work = [i \in CpuNums |-> 0] /\ slept = [i \in CpuNums |-> 0]
  BY DEF Init
<1>3. ASSUME NEW j \in Events, NEW c \in ColumnNums PROVE UnitsOK(j, c)
  <2>1. Reported(j, c) = 0
    <3>1. Values(j, c) = [m \in {} |-> 0]
      BY <1>2 DEF Values
    <3>2. IsFiniteSet({})
      BY FS_EmptySet
    <3> QED BY <3>1, <3>2, TotalOfZeros DEF Reported
  <2>2. OnCpus(work, c) = 0 /\ OnCpus(slept, c) = 0
    <3>1. work \in [CpuNums -> Nat] /\ slept \in [CpuNums -> Nat]
          /\ \A i \in CpuNums : work[i] = 0 /\ slept[i] = 0
      BY <1>2
    <3> QED BY <1>1, <3>1, OnCpusZero DEF TypeOK
  <2>3. Counted(j, c) = 0
    <3>1. [i \in CpuNums |-> count[i, j]] \in [CpuNums -> Nat]
      BY <1>1, ColumnTypes DEF TypeOK
    <3>2. \A i \in CpuNums : count[i, j] = 0
      BY <1>2 DEF Fds
    <3> QED BY <1>1, <3>1, <3>2, OnCpusZero DEF Counted, TypeOK
  <2>4. ~Dead /\ ~Exported(j)
    BY <1>2 DEF Dead, Exported
  <2> QED BY <2>1, <2>2, <2>3, <2>4 DEF UnitsOK
<1>4. \A fd \in Fds : slept[fd[1]] <= count[fd]
  <2>1. \A fd \in Fds : fd[1] \in CpuNums
    BY DEF Fds
  <2> QED BY <1>2, <2>1
<1> QED BY <1>2, <1>3, <1>4 DEF UnitInv

(* Whatever is done on the target CPUs while the monitor sleeps is in one  *)
(* row, or still in the counters, and in no other.                         *)
THEOREM EachUnitIsInOneRowAlways == Spec => []EachUnitIsInOneRow
<1>1. Init => TypeOK /\ NestInv /\ CounterInv /\ RowInv /\ UnitInv
  BY InitType, NestInit, CounterInit, RowInit, UnitInit
<1>2. TypeOK /\ NestInv /\ CounterInv /\ RowInv /\ UnitInv /\ [Next]_vars =>
        TypeOK' /\ NestInv' /\ CounterInv' /\ RowInv' /\ UnitInv'
  BY TypeStep, NestStep, CounterStep, RowStep, UnitStep
<1>3. TypeOK /\ NestInv /\ CounterInv /\ RowInv /\ UnitInv => EachUnitIsInOneRow
  <2> SUFFICES ASSUME TypeOK, NestInv, CounterInv, RowInv, UnitInv,
                      NEW j \in Events, NEW c \in ColumnNums
               PROVE  /\ Measuring => Reported(j, c) + Counted(j, c) >= OnCpus(slept, c)
                      /\ ~Overall => Reported(j, c) <= OnCpus(work, c)
    BY DEF EachUnitIsInOneRow, Reported, Counted
  <2>1. Measuring => stack = <<>> /\ Len(stack) = 0 /\ 1 .. 0 = {}
    BY EmptySeq DEF Measuring
  <2>2. CASE ~Overall
    <3>1. UnitsOK(j, c)
      BY <2>2 DEF UnitInv
    <3>2. Measuring => ~Dead /\ ~Exported(j)
      BY <2>1 DEF Dead, Exported
    <3> QED BY <3>1, <3>2 DEF UnitsOK
  <2>3. CASE Overall
    <3> SUFFICES ASSUME Measuring PROVE Reported(j, c) + Counted(j, c) >= OnCpus(slept, c)
      BY <2>3
    <3> DEFINE f == [i \in CpuNums |-> count[i, j]]
    <3>1. f \in [CpuNums -> Nat] /\ slept \in [CpuNums -> Nat] /\ args \in Arguments
      BY ColumnTypes DEF TypeOK
    <3>2. \A i \in CpuNums : slept[i] <= f[i]
      <4>1. \A fd \in Fds : slept[fd[1]] <= count[fd]
        BY <2>1, <2>3 DEF UnitInv
      <4>2. \A i \in CpuNums : <<i, j>> \in Fds /\ <<i, j>>[1] = i
        BY DEF Fds
      <4>3. ASSUME NEW i \in CpuNums PROVE slept[i] <= f[i]
        <5>1. slept[<<i, j>>[1]] <= count[<<i, j>>]
          BY <4>1, <4>2
        <5> QED BY <4>2, <5>1
      <4> QED BY <4>3
    <3> HIDE DEF f
    <3>3. OnCpus(slept, c) <= OnCpus(f, c) /\ OnCpus(slept, c) \in Nat /\ OnCpus(f, c) \in Nat
      BY <3>1, <3>2, OnCpusGrows, OnCpusType
    <3>4. Reported(j, c) \in Nat
      BY ValuesType
    <3>5. Counted(j, c) = OnCpus(f, c)
      BY DEF Counted, f
    <3> QED BY <3>3, <3>4, <3>5
  <2> QED BY <2>2, <2>3
<1> QED BY <1>1, <1>2, <1>3, PTL DEF Spec

-----------------------------------------------------------------------------
(***************************************************************************)
(* The log.  The last signal_handler on the stack is the one that ends the *)
(* process: the file is what it wrote, and the streams of those below it   *)
(* hold pieces of the same log, which may only have grown since, because   *)
(* the number of rows does not go back and the flag of full buffers is set *)
(* below the first signal_handler or not at all (FullOnTopOfHandler aside).*)
(***************************************************************************)

Log(h, n) == h \o Rows(n)

(* No handler started with more rows than there are. *)
RowsOK == \A k \in 1 .. Len(stack) : stack[k].rows <= result_idx

(* Rows enough for every signal_handler. *)
EndRows(n) == \A k \in 1 .. Len(stack) : IsEnd(stack[k]) => n >= stack[k].rows

(* The lines the handler f of a log with heading h has printed. *)
LinesOf(f, h) ==
  IF f.pc = "warn" THEN 0
  ELSE IF f.pc = "overall" THEN (IF buf_full_flag THEN 1 ELSE 0)
  ELSE IF f.pc = "title" THEN Len(h) - 1
  ELSE Len(h) + (f.idx - 1)

(* The last signal_handler f; h is the heading, r the number of rows. *)
LastFrame(f, h, r) ==
  /\ f.pc \in {"warn", "overall", "title", "rows"} =>
       /\ present /\ Len(file) = streams[log_fp].off /\ Begins(file, Log(h, r))
       /\ Len(file) + Len(streams[log_fp].buf) = LinesOf(f, h)
       /\ f.pc = "rows" => f.idx <= r + 1
  /\ f.pc = "close" =>
       /\ present /\ Len(file) = streams[log_fp].off
       /\ \E n \in 0 .. r :
            /\ EndRows(n) /\ Pieces(streams, Log(h, n)) /\ Begins(file, Log(h, n))
            /\ Len(file) + Len(streams[log_fp].buf) = Len(Log(h, n))
  /\ f.pc = "free" \/ (f.pc = "exit" /\ f.code = 0) =>
       \E n \in 0 .. r :
         EndRows(n) /\ present /\ file = Log(h, n) /\ Pieces(streams, Log(h, n))

NoEnd == \A k \in 1 .. Len(stack) : ~IsEnd(stack[k])

Succeeded == stack # <<>> /\ IsEnd(Top) /\ Top.pc = "exit" /\ Top.code = 0

LogInv ==
  args.use_file_export /\ ~FullOnTopOfHandler =>
    /\ NoEnd => Quiet
    /\ Pieces(streams, Log(LogHeading(buf_full_flag), result_idx))
    /\ \A k \in 1 .. Len(stack) :
         LastEnd(k) => LastFrame(stack[k], LogHeading(buf_full_flag), result_idx)
    /\ status = "exit0" => Succeeded

LEMMA HeadingLines ==
  ASSUME TypeOK, NEW h, h = LogHeading(buf_full_flag)
  PROVE  /\ h \in Seq(Lines)
         /\ Len(h) = (IF buf_full_flag THEN 1 ELSE 0) + (IF Overall THEN 2 ELSE 1)
         /\ buf_full_flag => h[1] = Warn
         /\ Overall => h[Len(h) - 1] = OverallOnly
         /\ h[Len(h)] = Title
<1> DEFINE a == IF buf_full_flag THEN <<Warn>> ELSE <<>>
           b == IF Overall THEN <<OverallOnly>> ELSE <<>>
           c == <<Title>>
           n == IF buf_full_flag THEN 1 ELSE 0
           m == IF Overall THEN 1 ELSE 0
<1>1. Warn \in Lines /\ OverallOnly \in Lines /\ Title \in Lines
  BY LineTypes
<1>2. h = (a \o b) \o c
  BY DEF LogHeading
<1> HIDE DEF Warn, OverallOnly, Title
<1>3. a \in Seq(Lines) /\ Len(a) = n /\ (buf_full_flag => a[1] = Warn)
  <2>1. CASE buf_full_flag
    BY <1>1, <2>1
  <2>2. CASE ~buf_full_flag
    BY <2>2, EmptySeq
  <2> QED BY <2>1, <2>2
<1>4. b \in Seq(Lines) /\ Len(b) = m /\ (Overall => b[1] = OverallOnly)
  <2>1. CASE Overall
    BY <1>1, <2>1
  <2>2. CASE ~Overall
    BY <2>2, EmptySeq
  <2> QED BY <2>1, <2>2
<1>5. c \in Seq(Lines) /\ Len(c) = 1 /\ c[1] = Title
  BY <1>1
<1>6. n \in Nat /\ m \in Nat /\ (buf_full_flag => n = 1) /\ (Overall => m = 1)
      /\ (IF Overall THEN 2 ELSE 1) = m + 1
  OBVIOUS
<1> HIDE DEF a, b, c, n, m
<1>7. /\ a \o b \in Seq(Lines) /\ Len(a \o b) = n + m
      /\ \A i \in 1 .. n + m : (a \o b)[i] = IF i <= n THEN a[i] ELSE b[i - n]
  BY <1>3, <1>4, ConcatProperties
<1>8. /\ h \in Seq(Lines) /\ Len(h) = n + m + 1
      /\ \A i \in 1 .. n + m + 1 : h[i] = IF i <= n + m THEN (a \o b)[i] ELSE c[i - (n + m)]
  <2> DEFINE ab == a \o b
             s == ab \o c
  <2>1. ab \in Seq(Lines) /\ Len(ab) = n + m
    BY <1>7
  <2> HIDE DEF ab
  <2>2. /\ s \in Seq(Lines) /\ Len(s) = Len(ab) + Len(c)
        /\ \A i \in 1 .. Len(ab) + Len(c) : s[i] = IF i <= Len(ab) THEN ab[i] ELSE c[i - Len(ab)]
    BY <1>5, <2>1, ConcatProperties
  <2>3. h = s
    BY <1>2 DEF ab
  <2> HIDE DEF s
  <2>4. \A i \in 1 .. n + m + 1 : s[i] = IF i <= n + m THEN ab[i] ELSE c[i - (n + m)]
    BY <1>5, <2>1, <2>2
  <2>5. Len(s) = n + m + 1
    BY <1>5, <2>1, <2>2
  <2>6. h \in Seq(Lines) /\ Len(h) = n + m + 1
    BY <2>2, <2>3, <2>5
  <2>7. \A i \in 1 .. n + m + 1 : h[i] = IF i <= n + m THEN (a \o b)[i] ELSE c[i - (n + m)]
    BY <2>3, <2>4 DEF ab
  <2> QED BY <2>6, <2>7
<1>9. buf_full_flag => h[1] = Warn
  <2> SUFFICES ASSUME buf_full_flag PROVE h[1] = Warn
    OBVIOUS
  <2>1. 1 \in 1 .. n + m /\ 1 \in 1 .. n + m + 1 /\ 1 <= n /\ 1 <= n + m
    BY <1>6
  <2> QED BY <1>3, <1>7, <1>8, <2>1
<1>10. Overall => h[n + m] = OverallOnly
  <2> SUFFICES ASSUME Overall PROVE h[n + m] = OverallOnly
    OBVIOUS
  <2>1. n + m \in 1 .. n + m /\ n + m \in 1 .. n + m + 1 /\ ~(n + m <= n) /\ (n + m) - n = 1
    BY <1>6
  <2> QED BY <1>4, <1>7, <1>8, <2>1
<1>11. h[n + m + 1] = Title
  <2> DEFINE k == n + m + 1
  <2>1. k \in 1 .. n + m + 1 /\ ~(k <= n + m) /\ k - (n + m) = 1
    BY <1>6
  <2> QED BY <1>5, <1>8, <2>1
<1>12. Len(h) = n + (m + 1) /\ (Overall => Len(h) - 1 = n + m)
  BY <1>6, <1>8
<1>13. Overall => h[Len(h) - 1] = OverallOnly
  BY <1>10, <1>12
<1>14. h[Len(h)] = Title
  BY <1>8, <1>11
<1>15. Len(h) = n + (IF Overall THEN 2 ELSE 1)
  BY <1>6, <1>12
<1> QED BY <1>8, <1>9, <1>13, <1>14, <1>15 DEF n

LEMMA LogLinesAre ==
  ASSUME NEW h \in Seq(Lines), NEW n \in Nat
  PROVE  /\ Log(h, n) \in Seq(Lines) /\ Len(Log(h, n)) = Len(h) + n /\ Len(h) \in Nat
         /\ \A i \in 1 .. Len(h) : Log(h, n)[i] = h[i]
         /\ \A i \in 1 .. n : Log(h, n)[Len(h) + i] = Row(i)
<1> DEFINE rw == Rows(n)
<1>1. rw \in Seq(Lines) /\ Len(rw) = n /\ \A i \in 1 .. n : rw[i] = Row(i)
  BY RowsLines
<1>2. Len(h) \in Nat
  BY LenProperties
<1>3. Log(h, n) = h \o rw
  BY DEF Log
<1> HIDE DEF rw
<1>4. /\ h \o rw \in Seq(Lines) /\ Len(h \o rw) = Len(h) + Len(rw)
      /\ \A i \in 1 .. Len(h) + Len(rw) :
           (h \o rw)[i] = IF i <= Len(h) THEN h[i] ELSE rw[i - Len(h)]
  BY <1>1, ConcatProperties
<1>5. \A i \in 1 .. Len(h) : (h \o rw)[i] = h[i]
  BY <1>1, <1>2, <1>4
<1>6. ASSUME NEW i \in 1 .. n PROVE (h \o rw)[Len(h) + i] = Row(i)
  <2>1. /\ Len(h) + i \in 1 .. Len(h) + Len(rw)
        /\ ~(Len(h) + i <= Len(h)) /\ (Len(h) + i) - Len(h) = i
    BY <1>1, <1>2
  <2> QED BY <1>1, <1>4, <2>1
<1> QED BY <1>1, <1>2, <1>3, <1>4, <1>5, <1>6

(* More rows make a longer log with the same beginning. *)
LEMMA LogGrows ==
  ASSUME NEW h \in Seq(Lines), NEW m \in Nat, NEW n \in Nat, m <= n
  PROVE  /\ \A f \in Seq(Lines) : Begins(f, Log(h, m)) => Begins(f, Log(h, n))
         /\ \A ss \in Seq([off : Nat, buf : Seq(Lines), open : BOOLEAN]) :
              Pieces(ss, Log(h, m)) => Pieces(ss, Log(h, n))
<1> DEFINE c == Log(h, m)
           d == Log(h, n)
<1>1. Len(c) = Len(h) + m /\ Len(d) = Len(h) + n /\ Len(h) \in Nat
  BY LogLinesAre
<1>2. Len(c) <= Len(d)
  BY <1>1
<1>3. ASSUME NEW i \in 1 .. Len(c) PROVE c[i] = d[i]
  <2>1. CASE i <= Len(h)
    <3>1. i \in 1 .. Len(h)
      BY <1>1, <2>1
    <3>2. c[i] = h[i]
      BY <3>1, LogLinesAre
    <3>3. d[i] = h[i]
      BY <3>1, LogLinesAre
    <3> QED BY <3>2, <3>3
  <2>2. CASE ~(i <= Len(h))
    <3> DEFINE j == i - Len(h)
    <3>1. j \in 1 .. m /\ j \in 1 .. n /\ i = Len(h) + j
      BY <1>1, <2>2
    <3> HIDE DEF j
    <3>2. c[Len(h) + j] = Row(j) /\ d[Len(h) + j] = Row(j)
      BY <3>1, LogLinesAre
    <3> QED BY <3>1, <3>2
  <2> QED BY <2>1, <2>2
<1> HIDE DEF c, d
<1>4. ASSUME NEW f \in Seq(Lines), Begins(f, c) PROVE Begins(f, d)
  <2>1. Len(f) \in Nat /\ Len(f) <= Len(c)
    BY <1>4, LenProperties DEF Begins
  <2>2. \A i \in 1 .. Len(f) : i \in 1 .. Len(c)
    BY <1>1, <2>1
  <2> QED BY <1>1, <1>2, <1>3, <1>4, <2>1, <2>2 DEF Begins
<1>5. ASSUME NEW ss \in Seq([off : Nat, buf : Seq(Lines), open : BOOLEAN]), Pieces(ss, c),
             NEW k \in 1 .. Len(ss)
      PROVE  Piece(ss[k].off, ss[k].buf, d)
  <2>1. ss[k] \in [off : Nat, buf : Seq(Lines), open : BOOLEAN]
    BY <1>5, ElementOfSeq
  <2>2. Piece(ss[k].off, ss[k].buf, c)
    BY <1>5 DEF Pieces
  <2>3. Len(ss[k].buf) \in Nat /\ ss[k].off \in Nat
    BY <2>1, LenProperties
  <2>4. \A i \in 1 .. Len(ss[k].buf) : ss[k].off + i \in 1 .. Len(c)
    <3>1. PICK o \in Nat, b \in Nat, l \in Nat : o = ss[k].off /\ b = Len(ss[k].buf) /\ l = Len(c)
      BY <1>1, <2>3
    <3>2. o + b <= l
      BY <2>2, <3>1 DEF Piece
    <3>4. o \in Nat /\ b \in Nat /\ l \in Nat
      BY <3>1
    <3>3. \A i \in 1 .. b : o + i \in 1 .. l
      BY <3>2, <3>4
    <3> QED BY <3>1, <3>3
  <2>5. \A i \in 1 .. Len(ss[k].buf) : ss[k].buf[i] = d[ss[k].off + i]
    BY <1>3, <2>2, <2>4 DEF Piece
  <2>6. ss[k].off + Len(ss[k].buf) <= Len(d)
    BY SMTT(30), <1>1, <1>2, <2>2, <2>3 DEF Piece
  <2> QED BY <2>5, <2>6 DEF Piece
<1> QED BY <1>4, <1>5 DEF Pieces, c, d

(* A stream that was never written to is a piece of any log. *)
LEMMA QuietPieces ==
  ASSUME Quiet, NEW c \in Seq(Lines)
  PROVE  Pieces(streams, c)
<1>1. Len(<<>>) = 0 /\ Len(c) \in Nat /\ 1 .. 0 = {}
  BY LenProperties
<1>2. Piece(0, <<>>, c)
  BY <1>1 DEF Piece
<1> QED BY <1>2 DEF Quiet, Pieces

(* A longer log and a handler on top of it take nothing from the last signal_handler. *)
LEMMA KeptLast ==
  ASSUME TypeOK, UNCHANGED <<present, file, streams, log_fp, buf_full_flag>>,
         \A n : EndRows(n) => EndRows(n)',
         NEW f, NEW h \in Seq(Lines), NEW r \in Nat, NEW q \in Nat, r <= q,
         LastFrame(f, h, r), f.pc = "rows" => f.idx \in Nat
  PROVE  LastFrame(f, h, q)'
<1>0. StdioTypeOK /\ file \in Seq(Lines)
  BY DEF TypeOK, StdioTypeOK
<1>2. f.pc \in {"warn", "overall", "title", "rows"} => Begins(file', Log(h, q))
  BY <1>0, LogGrows DEF LastFrame
<1>3. f.pc = "rows" => f.idx <= q + 1
  BY DEF LastFrame
<1>4. \A n \in 0 .. r : n \in 0 .. q
  OBVIOUS
<1>5. f.pc = "close" =>
        \E n \in 0 .. q :
          /\ EndRows(n)' /\ Pieces(streams', Log(h, n)) /\ Begins(file', Log(h, n))
          /\ Len(file') + Len(streams'[log_fp'].buf) = Len(Log(h, n))
  <2> SUFFICES ASSUME f.pc = "close"
               PROVE  \E n \in 0 .. q :
                        /\ EndRows(n)' /\ Pieces(streams', Log(h, n)) /\ Begins(file', Log(h, n))
                        /\ Len(file') + Len(streams'[log_fp'].buf) = Len(Log(h, n))
    OBVIOUS
  <2>1. PICK n \in 0 .. r :
          /\ EndRows(n) /\ Pieces(streams, Log(h, n)) /\ Begins(file, Log(h, n))
          /\ Len(file) + Len(streams[log_fp].buf) = Len(Log(h, n))
    BY DEF LastFrame
  <2> WITNESS n \in 0 .. q
  <2> QED BY <2>1
<1>6. f.pc = "free" \/ (f.pc = "exit" /\ f.code = 0) =>
        \E n \in 0 .. q :
          EndRows(n)' /\ present' /\ file' = Log(h, n) /\ Pieces(streams', Log(h, n))
  <2> SUFFICES ASSUME f.pc = "free" \/ (f.pc = "exit" /\ f.code = 0)
               PROVE  \E n \in 0 .. q :
                        EndRows(n)' /\ present' /\ file' = Log(h, n) /\ Pieces(streams', Log(h, n))
    OBVIOUS
  <2>1. PICK n \in 0 .. r :
          EndRows(n) /\ present /\ file = Log(h, n) /\ Pieces(streams, Log(h, n))
    BY DEF LastFrame
  <2> WITNESS n \in 0 .. q
  <2> QED BY <2>1
<1> QED BY <1>2, <1>3, <1>5, <1>6 DEF LastFrame, LinesOf

LEMMA SameHeading ==
  ASSUME UNCHANGED <<args, buf_full_flag>>
  PROVE  LogHeading(buf_full_flag)' = LogHeading(buf_full_flag)
BY DEF LogHeading, Overall

LEMMA HeadingTypes ==
  ASSUME NEW h, h = LogHeading(buf_full_flag)'
  PROVE  h \in Seq(Lines)
<1>1. Warn \in Lines /\ OverallOnly \in Lines /\ Title \in Lines
  BY LineTypes
<1> PICK a, b : /\ a = IF buf_full_flag' THEN <<Warn>> ELSE <<>>
                /\ b = IF Overall' THEN <<OverallOnly>> ELSE <<>>
  OBVIOUS
<1>2. h = (a \o b) \o <<Title>>
  BY DEF LogHeading, Warn, OverallOnly, Title, Line
<1> HIDE DEF Warn, OverallOnly, Title
<1>3. a \in Seq(Lines) /\ b \in Seq(Lines) /\ <<Title>> \in Seq(Lines)
  <2>1. <<>> \in Seq(Lines) /\ <<Warn>> \in Seq(Lines) /\ <<OverallOnly>> \in Seq(Lines)
        /\ <<Title>> \in Seq(Lines)
    BY <1>1, EmptySeq
  <2> QED BY <2>1
<1>4. a \o b \in Seq(Lines)
  BY <1>3, ConcatProperties
<1> QED BY <1>2, <1>3, <1>4, ConcatProperties

(* A step of something else than a signal_handler. *)
LEMMA SameLast ==
  ASSUME TypeOK, TypeOK', LogInv, UNCHANGED <<present, file, streams, log_fp, args, buf_full_flag>>,
         result_idx <= result_idx',
         \A k \in 1 .. Len(stack') :
           IsEnd(stack'[k]) => k \in 1 .. Len(stack) /\ stack'[k] = stack[k],
         \A k \in 1 .. Len(stack) :
           IsEnd(stack[k]) => k \in 1 .. Len(stack') /\ stack'[k] = stack[k],
         status' = "exit0" => Succeeded'
  PROVE  LogInv'
<1> SUFFICES ASSUME args.use_file_export, ~FullOnTopOfHandler'
             PROVE  /\ NoEnd' => Quiet'
                    /\ Pieces(streams, Log(LogHeading(buf_full_flag), result_idx))'
                    /\ \A k \in 1 .. Len(stack') :
                         LastEnd(k)' => LastFrame(stack[k], LogHeading(buf_full_flag), result_idx)'
  BY DEF LogInv
<1>0. /\ Len(stack) \in Nat /\ Len(stack') \in Nat
      /\ result_idx \in Nat /\ result_idx' \in Nat
      /\ \A k \in 1 .. Len(stack) : stack[k] \in FrameSet
  BY LenProperties, ElementOfSeq DEF TypeOK
<1>1. ~FullOnTopOfHandler
  <2> SUFFICES ASSUME NEW k \in 1 .. Len(stack), NEW m \in 1 .. Len(stack), k < m,
                      IsEnd(stack[k]), stack[m].sig = "call"
               PROVE  FALSE
    BY DEF FullOnTopOfHandler
  <2>1. IsEnd(stack[m])
    BY DEF IsEnd
  <2>2. /\ k \in 1 .. Len(stack') /\ stack'[k] = stack[k]
        /\ m \in 1 .. Len(stack') /\ stack'[m] = stack[m]
    BY <2>1
  <2> QED BY <2>2 DEF FullOnTopOfHandler, IsEnd
<1>2. NoEnd' => Quiet'
  <2>1. NoEnd' => NoEnd
    BY DEF NoEnd, IsEnd
  <2> QED BY <1>1, <2>1 DEF LogInv, Quiet
<1>3. ASSUME NEW k \in 1 .. Len(stack'), LastEnd(k)'
      PROVE  LastFrame(stack[k], LogHeading(buf_full_flag), result_idx)'
  <2>1. k \in 1 .. Len(stack) /\ stack'[k] = stack[k] /\ IsEnd(stack[k])
    BY <1>3 DEF LastEnd, IsEnd
  <2>2. LastEnd(k)
    <3> SUFFICES ASSUME NEW m \in k + 1 .. Len(stack), IsEnd(stack[m]) PROVE FALSE
      BY <2>1 DEF LastEnd
    <3>1. m \in 1 .. Len(stack)
      BY <1>0, <2>1
    <3>2. m \in 1 .. Len(stack') /\ stack'[m] = stack[m]
      BY <3>1
    <3>3. m \in k + 1 .. Len(stack')
      BY <1>0, <3>2
    <3> QED BY <1>3, <3>2, <3>3 DEF LastEnd, IsEnd
  <2>3. PICK f \in FrameSet : f = stack[k]
    BY <1>0, <2>1
  <2>4. PICK h : h = LogHeading(buf_full_flag)
    OBVIOUS
  <2>5. h \in Seq(Lines)
    BY <2>4, HeadingLines
  <2>6. PICK r \in Nat, q \in Nat : r = result_idx /\ q = result_idx' /\ r <= q
    BY <1>0
  <2>7. LastFrame(f, h, r)
    BY <1>1, <2>1, <2>2, <2>3, <2>4, <2>6 DEF LogInv
  <2>8. \A n : EndRows(n) => EndRows(n)'
    BY DEF EndRows, IsEnd
  <2>9. LastFrame(f, h, q)'
    BY <2>3, <2>5, <2>6, <2>7, <2>8, KeptLast DEF FrameSet
  <2>10. h = LogHeading(buf_full_flag)' /\ f = stack'[k]
    BY <2>1, <2>3, <2>4, SameHeading
  <2> QED BY <2>6, <2>9, <2>10
<1>4. Pieces(streams, Log(LogHeading(buf_full_flag), result_idx))'
  <2>1. PICK h : h = LogHeading(buf_full_flag)
    OBVIOUS
  <2>2. PICK r \in Nat, q \in Nat : r = result_idx /\ q = result_idx' /\ r <= q
    BY <1>0
  <2>3. h \in Seq(Lines) /\ streams \in Seq([off : Nat, buf : Seq(Lines), open : BOOLEAN])
    BY <2>1, HeadingLines DEF TypeOK, StdioTypeOK
  <2>4. Pieces(streams, Log(h, r))
    BY <1>1, <2>1, <2>2 DEF LogInv
  <2>5. Pieces(streams', Log(h, q))
    BY <2>2, <2>3, <2>4, LogGrows
  <2>6. h = LogHeading(buf_full_flag)'
    BY <2>1, SameHeading
  <2> QED BY <2>2, <2>5, <2>6
<1> QED BY <1>2, <1>3, <1>4

(* A step of a signal_handler on top of all. *)
LEMMA TopLast ==
  ASSUME TypeOK, stack # <<>>, IsEnd(Top), NEW n \in FrameSet, SetTop(n), n.sig = Top.sig,
         NEW h, h = LogHeading(buf_full_flag)', NEW r, r = result_idx',
         args' = args, status' # "exit0",
         args.use_file_export /\ ~FullOnTopOfHandler =>
           LastFrame(n, h, r)' /\ Pieces(streams', Log(h, r))
  PROVE  LogInv'
<1>1. /\ Len(stack') = Len(stack) /\ Len(stack) \in Nat \ {0} /\ Len(stack) \in 1 .. Len(stack)
      /\ Top = stack[Len(stack)] /\ stack'[Len(stack)] = n
      /\ \A k \in 1 .. Len(stack) :
           /\ stack'[k].sig = stack[k].sig
           /\ k # Len(stack) => stack'[k] = stack[k]
  BY Moved DEF TypeOK
<1> SUFFICES ASSUME args.use_file_export, ~FullOnTopOfHandler'
             PROVE  /\ NoEnd' => Quiet'
                    /\ Pieces(streams, Log(LogHeading(buf_full_flag), result_idx))'
                    /\ \A k \in 1 .. Len(stack') :
                         LastEnd(k)' => LastFrame(stack[k], LogHeading(buf_full_flag), result_idx)'
  BY DEF LogInv
<1>2. ~FullOnTopOfHandler
  BY <1>1 DEF FullOnTopOfHandler, IsEnd
<1>3. IsEnd(stack'[Len(stack')])
  BY <1>1 DEF IsEnd
<1>4. ~NoEnd'
  BY <1>1, <1>3 DEF NoEnd, IsEnd
<1>5. ASSUME NEW k \in 1 .. Len(stack'), LastEnd(k)'
      PROVE  LastFrame(stack[k], LogHeading(buf_full_flag), result_idx)'
  <2>1. k = Len(stack)
    <3> SUFFICES ASSUME k # Len(stack) PROVE FALSE
      OBVIOUS
    <3>1. Len(stack') \in k + 1 .. Len(stack')
      BY <1>1
    <3> QED BY <1>3, <1>5, <3>1 DEF LastEnd, IsEnd
  <2>2. n = stack'[k]
    BY <1>1, <2>1
  <2> QED BY <1>2, <2>2
<1>6. Pieces(streams, Log(LogHeading(buf_full_flag), result_idx))'
  BY <1>2
<1> QED BY <1>4, <1>5, <1>6

-----------------------------------------------------------------------------
(* Rows and frames *)

LEMMA NeverFewer == TypeOK /\ [Next]_vars => result_idx <= result_idx'
<1> SUFFICES ASSUME TypeOK, [Next]_vars PROVE result_idx <= result_idx'
  OBVIOUS
<1>1. result_idx' = result_idx \/ result_idx' = result_idx + 1
  BY OnlyRows DEF StoreRow, IncResultIdx, PrintResult
<1> QED BY <1>1 DEF TypeOK

LEMMA MovedRows ==
  ASSUME TypeOK, stack # <<>>, NEW n \in FrameSet, SetTop(n), n.sig = Top.sig, n.rows = Top.rows
  PROVE  /\ Len(stack') = Len(stack)
         /\ \A k \in 1 .. Len(stack) : stack'[k].sig = stack[k].sig /\ stack'[k].rows = stack[k].rows
         /\ \A m : EndRows(m) => EndRows(m)'
<1>1. /\ Len(stack') = Len(stack) /\ Top = stack[Len(stack)] /\ stack'[Len(stack)] = n
      /\ \A k \in 1 .. Len(stack) :
           /\ stack'[k].sig = stack[k].sig
           /\ k # Len(stack) => stack'[k] = stack[k]
  BY Moved DEF TypeOK
<1>2. \A k \in 1 .. Len(stack) : stack'[k].rows = stack[k].rows
  BY <1>1
<1>3. \A m : EndRows(m) => EndRows(m)'
  BY <1>1, <1>2 DEF EndRows, IsEnd
<1> QED BY <1>1, <1>2, <1>3

LEMMA RowsPush ==
  ASSUME TypeOK, RowsOK, NEW sig \in Sigs, NEW at \in FramePcs, stack' = Append(stack, Frame(sig, at)),
         result_idx' = result_idx
  PROVE  RowsOK'
<1> DEFINE f == Frame(sig, at)
<1>1. f \in FrameSet /\ f.rows = result_idx
  BY FrameType DEF TypeOK, Frame
<1> HIDE DEF f
<1>2. /\ Len(stack) \in Nat /\ Len(stack') = Len(stack) + 1 /\ stack'[Len(stack) + 1] = f
      /\ \A k \in 1 .. Len(stack) : stack'[k] = stack[k]
  BY <1>1, PushType, LenProperties DEF TypeOK, f
<1>3. \A k \in 1 .. Len(stack') : k \in 1 .. Len(stack) \/ k = Len(stack) + 1
  BY <1>2
<1>4. result_idx <= result_idx
  BY DEF TypeOK
<1> QED BY <1>1, <1>2, <1>3, <1>4 DEF RowsOK

LEMMA RowsStep == TypeOK /\ RowsOK /\ [Next]_vars => RowsOK'
<1> SUFFICES ASSUME TypeOK, RowsOK, [Next]_vars PROVE RowsOK'
  OBVIOUS
<1>0. /\ result_idx <= result_idx' /\ result_idx \in Nat /\ result_idx' \in Nat /\ Len(stack) \in Nat
      /\ \A k \in 1 .. Len(stack) : stack[k].rows \in Nat
  <2>1. result_idx <= result_idx' /\ TypeOK'
    BY NeverFewer, TypeStep
  <2>2. \A k \in 1 .. Len(stack) : stack[k] \in FrameSet
    BY ElementOfSeq DEF TypeOK
  <2> QED BY <2>1, <2>2, LenProperties DEF TypeOK, FrameSet
<1>1. CASE stack' = stack
  BY <1>0, <1>1 DEF RowsOK
<1>2. CASE Handlers
  <2>1. stack # <<>>
    BY <1>2, HandlersKeep
  <2>2. CASE Moves
    <3>1. PICK n \in FrameSet : SetTop(n) /\ n.sig = Top.sig /\ n.rows = Top.rows
      BY <2>2 DEF Moves, MovesTo
    <3>2. /\ Len(stack') = Len(stack)
          /\ \A k \in 1 .. Len(stack) : stack'[k].rows = stack[k].rows
      BY <2>1, <3>1, MovedRows
    <3> QED BY <1>0, <3>2 DEF RowsOK
  <2>3. CASE At("check") /\ Full /\ stack' = Append(stack, Frame("call", "begin"))
    <3>1. ~StoreRow /\ ~IncResultIdx /\ ~PrintResult
      BY <2>3 DEF At, StoreRow, IncResultIdx, PrintResult
    <3>2. result_idx' = result_idx
      BY <3>1, OnlyRows
    <3> QED BY <2>3, <3>2, RowsPush DEF Sigs, FramePcs
  <2>4. CASE At("return") /\ stack' = SubSeq(stack, 1, Len(stack) - 1)
    <3>1. /\ Len(stack') = Len(stack) - 1
          /\ \A k \in 1 .. Len(stack) - 1 : stack'[k] = stack[k] /\ k \in 1 .. Len(stack)
      BY <1>0, <2>1, <2>4, PopType DEF TypeOK
    <3> QED BY <1>0, <3>1 DEF RowsOK
  <2> QED BY <1>1, <1>2, <2>2, <2>3, <2>4, HandlerMoves
<1>3. CASE Startups
  <2>1. CASE stack' = <<>>
    <3>1. Len(stack') = 0
      BY <2>1, EmptySeq
    <3> QED BY <3>1 DEF RowsOK
  <2>2. CASE stack' = <<Frame("main", "reset")>>
    <3>1. Len(stack') = 1 /\ stack'[1].rows = result_idx
      BY <2>2 DEF Frame
    <3> QED BY <1>0, <3>1 DEF RowsOK
  <2> QED BY <1>1, <1>3, <2>1, <2>2
          DEF Startups, CheckArgs, CreateEvents, Probe, Create, RemoveOld, Register, Start
<1>4. ASSUME NEW sig \in {"ALRM", "INT", "TERM"}, Deliver(sig) PROVE RowsOK'
  <2>1. PICK at \in {"tick", "begin"} : stack' = Append(stack, Frame(sig, at))
    BY <1>4 DEF Deliver
  <2>2. result_idx' = result_idx
    BY <1>4 DEF Deliver, resVars
  <2>3. sig \in Sigs /\ at \in FramePcs
    BY DEF Sigs, FramePcs
  <2> QED BY <2>1, <2>2, <2>3, RowsPush
<1> QED BY <1>1, <1>2, <1>3, <1>4, NextCases DEF vars, Work, Send, Expire, Kill, Hang

-----------------------------------------------------------------------------
(* The steps of the log. *)

(* What the invariant says of a handler on top. *)
LEMMA TopEnd ==
  ASSUME TypeOK, NestInv, LogInv, stack # <<>>, IsEnd(Top), args.use_file_export,
         ~FullOnTopOfHandler, NEW h, h = LogHeading(buf_full_flag), NEW r, r = result_idx
  PROVE  /\ LastFrame(Top, h, r) /\ Pieces(streams, Log(h, r))
         /\ h \in Seq(Lines) /\ r \in Nat /\ Top \in FrameSet /\ Top.idx \in Nat
         /\ Top.pc # "exit" => Top.idx >= 1
<1>1. Top = stack[Len(stack)] /\ Len(stack) \in 1 .. Len(stack) /\ Top \in FrameSet
      /\ Len(stack) \in Nat
  BY TopType DEF TypeOK
<1>2. LastEnd(Len(stack))
  BY <1>1 DEF LastEnd
<1>3. LastFrame(Top, h, r) /\ Pieces(streams, Log(h, r))
  BY <1>1, <1>2 DEF LogInv
<1>4. h \in Seq(Lines) /\ r \in Nat /\ Top.idx \in Nat
  BY <1>1, HeadingLines DEF TypeOK, FrameSet
<1>5. FrameOK(Top)
  BY <1>1 DEF NestInv, FramesOK
<1> QED BY <1>1, <1>3, <1>4, <1>5 DEF FrameOK

(* It prints a line, or leaves one out. *)
LEMMA LogPrints ==
  ASSUME TypeOK, NestInv, LogInv, stack # <<>>, Top.pc \in {"warn", "overall", "title", "rows"},
         NEW n \in FrameSet, SetTop(n), n.sig = Top.sig, n.rows = Top.rows,
         n.pc \in {"overall", "title", "rows"},
         UNCHANGED <<args, buf_full_flag, result_idx, log_fp>>, status' # "exit0",
         NEW h, h = LogHeading(buf_full_flag), NEW r, r = result_idx,
         args.use_file_export /\ ~FullOnTopOfHandler /\ LastFrame(Top, h, r) =>
           /\ n.pc = "rows" => n.idx <= r + 1
           /\ \/ UNCHANGED stdioVars /\ LinesOf(n, h) = LinesOf(Top, h)
              \/ /\ LinesOf(n, h) = LinesOf(Top, h) + 1 /\ LinesOf(Top, h) < Len(Log(h, r))
                 /\ FPrintf(log_fp, Log(h, r)[LinesOf(Top, h) + 1])
  PROVE  LogInv'
<1>1. IsEnd(Top) /\ IsOpen(log_fp)
  BY TopWrites DEF NestInv, WritingPcs
<1>2. h = LogHeading(buf_full_flag)' /\ r = result_idx'
  BY SameHeading
<1>3. ASSUME args.use_file_export, ~FullOnTopOfHandler
      PROVE  LastFrame(n, h, r)' /\ Pieces(streams', Log(h, r))
  <2>1. /\ LastFrame(Top, h, r) /\ Pieces(streams, Log(h, r))
        /\ h \in Seq(Lines) /\ r \in Nat
    BY <1>1, <1>3, TopEnd
  <2>2. /\ present /\ Len(file) = streams[log_fp].off /\ Begins(file, Log(h, r))
        /\ Len(file) + Len(streams[log_fp].buf) = LinesOf(Top, h)
    BY <2>1 DEF LastFrame
  <2>3. n.pc = "rows" => n.idx <= r + 1
    BY <1>3, <2>1
  <2>4. LinesOf(n, h)' = LinesOf(n, h)
    BY DEF LinesOf
  <2>5. PICK c \in Seq(Lines) : c = Log(h, r)
    BY <2>1, LogLinesAre
  <2>6. /\ present' /\ Len(file') = streams'[log_fp'].off /\ Begins(file', c)
        /\ Len(file') + Len(streams'[log_fp'].buf) = LinesOf(n, h)
        /\ Pieces(streams', c)
    <3>1. CASE UNCHANGED stdioVars /\ LinesOf(n, h) = LinesOf(Top, h)
      BY <2>1, <2>2, <2>5, <3>1 DEF stdioVars
    <3>2. CASE /\ LinesOf(n, h) = LinesOf(Top, h) + 1 /\ LinesOf(Top, h) < Len(Log(h, r))
               /\ FPrintf(log_fp, Log(h, r)[LinesOf(Top, h) + 1])
      <4>1. PICK l : l = Len(file) + Len(streams[log_fp].buf) /\ l = LinesOf(Top, h)
        BY <2>2
      <4>2. FPrintf(log_fp, c[Len(file) + Len(streams[log_fp].buf) + 1])
        BY <2>5, <3>2, <4>1
      <4>3. Len(file) + Len(streams[log_fp].buf) < Len(c)
        BY <2>5, <3>2, <4>1
      <4>4. /\ UNCHANGED present /\ Pieces(streams', c)
            /\ Begins(file', c) /\ Len(file') = streams'[log_fp].off
            /\ Len(file') + Len(streams'[log_fp].buf) = Len(file) + Len(streams[log_fp].buf) + 1
        BY <1>1, <2>1, <2>2, <2>5, <4>2, <4>3, FPrintfEffect DEF TypeOK
      <4>5. Len(file') + Len(streams'[log_fp].buf) = l + 1
        BY <4>1, <4>4
      <4> QED BY <2>2, <3>2, <4>1, <4>4, <4>5
    <3> QED BY <1>3, <2>1, <3>1, <3>2
  <2> QED BY <2>3, <2>4, <2>5, <2>6 DEF LastFrame
<1> QED BY <1>1, <1>2, <1>3, TopLast

LEMMA LogWarn ==
  ASSUME TypeOK, NestInv, LogInv, PrintWarn \/ PrintOverall \/ PrintTitle
  PROVE  LogInv'
<1>1. /\ stack # <<>> /\ stack \in Seq(FrameSet) /\ Top.pc \in {"warn", "overall", "title"}
      /\ UNCHANGED <<args, buf_full_flag, result_idx, log_fp, status>> /\ status # "exit0"
  BY DEF PrintWarn, PrintOverall, PrintTitle, PrintLine, At, Running, resVars, TypeOK
<1> PICK h : h = LogHeading(buf_full_flag)
  OBVIOUS
<1> PICK r \in Nat : r = result_idx
  BY DEF TypeOK
<1>2. /\ h \in Seq(Lines)
      /\ Len(h) = (IF buf_full_flag THEN 1 ELSE 0) + (IF Overall THEN 2 ELSE 1)
      /\ buf_full_flag => h[1] = Warn
      /\ Overall => h[Len(h) - 1] = OverallOnly
      /\ h[Len(h)] = Title
  BY HeadingLines
<1>3. /\ Len(Log(h, r)) = Len(h) + r /\ Len(h) \in Nat
      /\ \A i \in 1 .. Len(h) : Log(h, r)[i] = h[i]
  BY <1>2, LogLinesAre
<1> HIDE DEF Warn, OverallOnly, Title
<1>4. CASE PrintWarn
  <2>1. PICK n \in FrameSet : /\ SetTop(n) /\ n.sig = Top.sig /\ n.pc = "overall" /\ n.idx = 1
                              /\ n.rows = Top.rows
    <3>1. Goto("overall") /\ "overall" \in FramePcs
      BY <1>4 DEF PrintWarn, PrintLine, FramePcs
    <3> QED BY <1>1, <3>1, GotoMoves
  <2>2. LinesOf(Top, h) = 0 /\ LinesOf(n, h) = IF buf_full_flag THEN 1 ELSE 0
    BY <1>4, <2>1 DEF PrintWarn, PrintLine, At, LinesOf
  <2>3. CASE buf_full_flag
    <3>1. 1 \in 1 .. Len(h) /\ 0 < Len(h) + r
      BY <1>2, <2>3
    <3>2. FPrintf(log_fp, Warn)
      BY <1>4, <2>3 DEF PrintWarn, PrintLine
    <3>3. Log(h, r)[1] = Warn
      BY <1>2, <1>3, <2>3, <3>1
    <3>4. FPrintf(log_fp, Log(h, r)[1])
      BY <3>2, <3>3
    <3>5. LinesOf(Top, h) + 1 = 1 /\ LinesOf(n, h) = LinesOf(Top, h) + 1
      BY <2>2, <2>3
    <3>6. FPrintf(log_fp, Log(h, r)[LinesOf(Top, h) + 1])
      BY <3>4, <3>5
    <3>7. LinesOf(Top, h) < Len(Log(h, r))
      BY <1>3, <2>2, <3>1
    <3> QED BY <1>1, <2>1, <3>5, <3>6, <3>7, LogPrints
  <2>4. CASE ~buf_full_flag
    <3>1. UNCHANGED stdioVars /\ LinesOf(n, h) = LinesOf(Top, h)
      BY <1>4, <2>2, <2>4 DEF PrintWarn, PrintLine
    <3> QED BY <1>1, <2>1, <3>1, LogPrints
  <2> QED BY <2>3, <2>4
<1>5. CASE PrintOverall
  <2>1. PICK n \in FrameSet : /\ SetTop(n) /\ n.sig = Top.sig /\ n.pc = "title" /\ n.idx = 1
                              /\ n.rows = Top.rows
    <3>1. Goto("title") /\ "title" \in FramePcs
      BY <1>5 DEF PrintOverall, PrintLine, FramePcs
    <3> QED BY <1>1, <3>1, GotoMoves
  <2>2. LinesOf(Top, h) = (IF buf_full_flag THEN 1 ELSE 0) /\ LinesOf(n, h) = Len(h) - 1
    BY <1>5, <2>1 DEF PrintOverall, PrintLine, At, LinesOf
  <2>3. CASE Overall
    <3>1. /\ Len(h) - 1 \in 1 .. Len(h) /\ LinesOf(Top, h) + 1 = Len(h) - 1
          /\ LinesOf(Top, h) < Len(h) + r
      BY <1>2, <2>2, <2>3
    <3>2. FPrintf(log_fp, Log(h, r)[Len(h) - 1])
      BY <1>2, <1>3, <1>5, <2>3, <3>1 DEF PrintOverall, PrintLine
    <3>3. /\ LinesOf(n, h) = LinesOf(Top, h) + 1 /\ LinesOf(Top, h) < Len(Log(h, r))
          /\ FPrintf(log_fp, Log(h, r)[LinesOf(Top, h) + 1])
      BY <1>3, <2>2, <3>1, <3>2
    <3> QED BY <1>1, <2>1, <3>3, LogPrints
  <2>4. CASE ~Overall
    <3>1. LinesOf(n, h) = LinesOf(Top, h)
      BY <1>2, <2>2, <2>4
    <3>2. UNCHANGED stdioVars
      BY <1>5, <2>4 DEF PrintOverall, PrintLine
    <3> QED BY <1>1, <2>1, <3>1, <3>2, LogPrints
  <2> QED BY <2>3, <2>4
<1>6. CASE PrintTitle
  <2>1. PICK n \in FrameSet : /\ SetTop(n) /\ n.sig = Top.sig /\ n.pc = "rows" /\ n.idx = 1
                              /\ n.rows = Top.rows
    <3>1. Goto("rows") /\ "rows" \in FramePcs
      BY <1>6 DEF PrintTitle, PrintLine, FramePcs
    <3> QED BY <1>1, <3>1, GotoMoves
  <2>2. LinesOf(Top, h) = Len(h) - 1 /\ LinesOf(n, h) = Len(h) + (1 - 1)
    BY <1>6, <2>1 DEF PrintTitle, PrintLine, At, LinesOf
  <2>3. /\ Len(h) \in 1 .. Len(h) /\ LinesOf(Top, h) + 1 = Len(h) /\ LinesOf(n, h) = Len(h)
        /\ LinesOf(Top, h) < Len(h) + r /\ 1 <= r + 1
    BY <1>2, <2>2
  <2>4. FPrintf(log_fp, Log(h, r)[Len(h)])
    BY <1>2, <1>3, <1>6, <2>3 DEF PrintTitle, PrintLine
  <2>5. /\ LinesOf(n, h) = LinesOf(Top, h) + 1 /\ LinesOf(Top, h) < Len(Log(h, r))
        /\ FPrintf(log_fp, Log(h, r)[LinesOf(Top, h) + 1])
    BY <1>3, <2>3, <2>4
  <2> QED BY <1>1, <2>1, <2>3, <2>5, LogPrints
<1> QED BY <1>4, <1>5, <1>6

LEMMA LogRow ==
  ASSUME TypeOK, TypeOK', NestInv, RowsOK', LogInv, PrintRow
  PROVE  LogInv'
<1>1. /\ stack # <<>> /\ stack \in Seq(FrameSet) /\ Top.pc = "rows"
      /\ UNCHANGED <<args, buf_full_flag, result_idx, log_fp, status>> /\ status # "exit0"
  BY DEF PrintRow, At, Running, resVars, TypeOK
<1> PICK h : h = LogHeading(buf_full_flag)
  OBVIOUS
<1> PICK r \in Nat : r = result_idx
  BY DEF TypeOK
<1> PICK i : i = Top.idx
  OBVIOUS
<1>2. /\ h \in Seq(Lines) /\ Log(h, r) \in Seq(Lines)
      /\ Len(Log(h, r)) = Len(h) + r /\ Len(h) \in Nat
      /\ \A k \in 1 .. r : Log(h, r)[Len(h) + k] = Row(k)
  BY SMTT(30), HeadingLines, LogLinesAre
<1>3. i \in Nat /\ i >= 1 /\ IsEnd(Top)
  <2>1. Top = stack[Len(stack)] /\ Len(stack) \in 1 .. Len(stack) /\ Top \in FrameSet
    BY <1>1, TopType
  <2>2. FrameOK(Top)
    BY <2>1 DEF NestInv, FramesOK
  <2> QED BY <1>1, <2>1, <2>2, TopWrites DEF FrameOK, NestInv, WritingPcs, FrameSet
<1>4. CASE i <= r
  <2>1. FPrintf(log_fp, Row(i)) /\ NextIdx
    BY <1>4 DEF PrintRow
  <2>2. PICK n \in FrameSet : /\ SetTop(n) /\ n.sig = Top.sig /\ n.pc = "rows" /\ n.idx = i + 1
                              /\ n.rows = Top.rows
    BY <1>1, <2>1, NextIdxMoves
  <2>3. LinesOf(Top, h) = Len(h) + (i - 1) /\ LinesOf(n, h) = Len(h) + ((i + 1) - 1)
    BY <1>1, <2>2 DEF LinesOf
  <2>4. /\ LinesOf(n, h) = LinesOf(Top, h) + 1 /\ LinesOf(Top, h) < Len(h) + r
        /\ LinesOf(Top, h) + 1 = Len(h) + i /\ i \in 1 .. r /\ i + 1 <= r + 1
    <3> PICK l \in Nat : l = Len(h)
      BY <1>2
    <3> PICK a, b : a = LinesOf(Top, h) /\ b = LinesOf(n, h)
      OBVIOUS
    <3>1. a = l + (i - 1) /\ b = l + ((i + 1) - 1)
      BY <2>3
    <3>2. b = a + 1 /\ a < l + r /\ a + 1 = l + i
      BY <1>3, <1>4, <3>1
    <3>3. i \in 1 .. r /\ i + 1 <= r + 1
      BY <1>3, <1>4
    <3> QED BY <3>2, <3>3
  <2>5. FPrintf(log_fp, Log(h, r)[LinesOf(Top, h) + 1])
    BY <1>2, <2>1, <2>4
  <2> QED BY <1>1, <1>2, <2>2, <2>4, <2>5, LogPrints
<1>5. CASE ~(i <= r)
  <2>1. UNCHANGED stdioVars /\ Goto("close")
    BY <1>5 DEF PrintRow
  <2>2. PICK n \in FrameSet : /\ SetTop(n) /\ n.sig = Top.sig /\ n.pc = "close" /\ n.rows = Top.rows
    BY <1>1, <2>1, GotoMoves DEF FramePcs
  <2>3. ASSUME args.use_file_export, ~FullOnTopOfHandler
        PROVE  LastFrame(n, h, r)' /\ Pieces(streams', Log(h, r))
    <3>1. LastFrame(Top, h, r) /\ Pieces(streams, Log(h, r))
      BY <1>1, <1>3, <2>3, TopEnd
    <3>2. /\ present /\ Len(file) = streams[log_fp].off /\ Begins(file, Log(h, r))
          /\ Len(file) + Len(streams[log_fp].buf) = LinesOf(Top, h) /\ i <= r + 1
      BY <1>1, <3>1 DEF LastFrame
    <3>3. LinesOf(Top, h) = Len(h) + (i - 1)
      BY <1>1 DEF LinesOf
    <3>4. LinesOf(Top, h) = Len(Log(h, r))
      <4>1. i = r + 1
        BY <1>3, <1>5, <3>2
      <4>2. Len(h) + (i - 1) = Len(h) + r
        BY <1>2, <4>1
      <4> QED BY <1>2, <3>3, <4>2
    <3>5. EndRows(r)'
      BY <1>1 DEF RowsOK, EndRows
    <3>6. r \in 0 .. r
      OBVIOUS
    <3>7. \E m \in 0 .. r :
            /\ EndRows(m)' /\ Pieces(streams', Log(h, m)) /\ Begins(file', Log(h, m))
            /\ Len(file') + Len(streams'[log_fp'].buf) = Len(Log(h, m))
      <4> WITNESS r \in 0 .. r
      <4> QED BY <1>1, <2>1, <3>1, <3>2, <3>4, <3>5 DEF stdioVars
    <3>8. present' /\ Len(file') = streams'[log_fp'].off
      BY <1>1, <2>1, <3>2 DEF stdioVars
    <3> QED BY <2>1, <2>2, <3>1, <3>7, <3>8 DEF LastFrame, stdioVars
  <2>4. h = LogHeading(buf_full_flag)' /\ r = result_idx'
    BY <1>1, SameHeading
  <2> QED BY <1>1, <1>3, <2>2, <2>3, <2>4, TopLast
<1> QED BY <1>4, <1>5

LEMMA LogOpen ==
  ASSUME TypeOK, TypeOK', NestInv, LogInv, OpenLog
  PROVE  LogInv'
<1>1. /\ stack # <<>> /\ stack \in Seq(FrameSet) /\ Top.pc = "alloc"
      /\ UNCHANGED <<args, buf_full_flag, result_idx, status>> /\ status # "exit0"
  BY DEF OpenLog, At, Running, resVars, TypeOK
<1> PICK h : h = LogHeading(buf_full_flag)
  OBVIOUS
<1> PICK r \in Nat : r = result_idx
  BY DEF TypeOK
<1>2. h = LogHeading(buf_full_flag)' /\ r = result_idx'
  BY <1>1, SameHeading
<1>3. IsEnd(Top)
  <2>1. Top = stack[Len(stack)] /\ Len(stack) \in 1 .. Len(stack) /\ Top \in FrameSet
    BY <1>1, TopType
  <2> QED BY <1>1, <2>1 DEF NestInv, FramesOK, FrameOK, Sigs, IsEnd, TickPcs, FrameSet
<1>4. PICK c \in Seq(Lines) : c = Log(h, r)
  BY HeadingLines, LogLinesAre
<1>5. CASE FOpenW /\ log_fp' = Len(streams') /\ Goto("warn")
  <2>1. PICK n \in FrameSet : /\ SetTop(n) /\ n.sig = Top.sig /\ n.pc = "warn" /\ n.rows = Top.rows
    BY <1>1, <1>5, GotoMoves DEF FramePcs
  <2>2. /\ present' /\ file' = <<>>
        /\ Len(streams') = Len(streams) + 1 /\ Len(streams) \in Nat
        /\ \A k \in 1 .. Len(streams) : streams'[k] = streams[k]
        /\ streams'[Len(streams')].off = 0 /\ streams'[Len(streams')].buf = <<>>
    BY <1>5, OpenedStream DEF TypeOK
  <2>3. ASSUME args.use_file_export, ~FullOnTopOfHandler
        PROVE  LastFrame(n, h, r)' /\ Pieces(streams', c)
    <3>1. Pieces(streams, c)
      BY <1>1, <1>3, <1>4, <2>3, TopEnd
    <3>2. Len(<<>>) = 0 /\ Len(c) \in Nat /\ 1 .. 0 = {}
      BY LenProperties
    <3>3. Piece(0, <<>>, c) /\ Begins(<<>>, c)
      BY <3>2 DEF Piece, Begins
    <3>4. \A k \in 1 .. Len(streams') : k \in 1 .. Len(streams) \/ k = Len(streams')
      BY <2>2
    <3>5. Pieces(streams', c)
      BY <2>2, <3>1, <3>3, <3>4 DEF Pieces
    <3>6. LinesOf(n, h)' = 0
      BY <2>1 DEF LinesOf
    <3> QED BY <1>4, <1>5, <2>1, <2>2, <3>2, <3>3, <3>5, <3>6 DEF LastFrame
  <2> QED BY <1>1, <1>2, <1>3, <1>4, <2>1, <2>3, TopLast
<1>6. CASE UNCHANGED stdioVars /\ GotoExit(1)
  <2>1. Len(streams') \in Nat
    BY LenProperties DEF TypeOK, StdioTypeOK
  <2>2. PICK n \in FrameSet : /\ SetTop(n) /\ n.sig = Top.sig /\ n.pc = "exit" /\ n.code = 1
                              /\ n.rows = Top.rows
    BY <1>1, <1>6, <2>1, GotoExitMoves
  <2>3. ASSUME args.use_file_export, ~FullOnTopOfHandler
        PROVE  LastFrame(n, h, r)' /\ Pieces(streams', Log(h, r))
    <3>1. Pieces(streams, Log(h, r))
      BY <1>1, <1>3, <2>3, TopEnd
    <3> QED BY <1>6, <2>2, <3>1 DEF LastFrame, stdioVars
  <2> QED BY <1>1, <1>2, <1>3, <2>2, <2>3, TopLast
<1> QED BY <1>5, <1>6 DEF OpenLog

LEMMA LogClose ==
  ASSUME TypeOK, TypeOK', NestInv, LogInv, CallFclose
  PROVE  LogInv'
<1>1. /\ stack # <<>> /\ stack \in Seq(FrameSet) /\ Top.pc = "close" /\ FClose(log_fp) /\ Goto("free")
      /\ UNCHANGED <<args, buf_full_flag, result_idx, log_fp, status>> /\ status # "exit0"
  BY DEF CallFclose, At, Running, resVars, TypeOK
<1> PICK h : h = LogHeading(buf_full_flag)
  OBVIOUS
<1> PICK r \in Nat : r = result_idx
  BY DEF TypeOK
<1>2. h = LogHeading(buf_full_flag)' /\ r = result_idx'
  BY <1>1, SameHeading
<1>3. IsEnd(Top) /\ IsOpen(log_fp)
  BY <1>1, TopWrites DEF NestInv, WritingPcs
<1>4. StdioTypeOK /\ streams' \in Seq([off : Nat, buf : Seq(Lines), open : BOOLEAN])
  BY DEF TypeOK, StdioTypeOK
<1>5. PICK n \in FrameSet : /\ SetTop(n) /\ n.sig = Top.sig /\ n.pc = "free" /\ n.rows = Top.rows
  BY <1>1, GotoMoves DEF FramePcs
<1>6. ASSUME args.use_file_export, ~FullOnTopOfHandler
      PROVE  LastFrame(n, h, r)' /\ Pieces(streams', Log(h, r))
  <2>1. LastFrame(Top, h, r) /\ h \in Seq(Lines)
    BY <1>1, <1>3, <1>6, TopEnd
  <2>2. PICK m \in 0 .. r :
          /\ EndRows(m) /\ Pieces(streams, Log(h, m)) /\ Begins(file, Log(h, m))
          /\ Len(file) + Len(streams[log_fp].buf) = Len(Log(h, m))
    BY <1>1, <2>1 DEF LastFrame
  <2>3. present /\ Len(file) = streams[log_fp].off
    BY <1>1, <2>1 DEF LastFrame
  <2>4. m \in Nat /\ m <= r
    OBVIOUS
  <2>5. PICK c \in Seq(Lines) : c = Log(h, m)
    BY <2>1, <2>4, LogLinesAre
  <2>6. UNCHANGED present /\ Pieces(streams', c) /\ file' = c
    BY <1>1, <1>3, <1>4, <2>2, <2>3, <2>5, FCloseEffect
  <2>7. Pieces(streams', Log(h, r))
    BY <1>4, <2>1, <2>4, <2>5, <2>6, LogGrows
  <2>8. EndRows(m)'
    BY <1>1, <1>5, <2>2, MovedRows
  <2>9. \E k \in 0 .. r :
          EndRows(k)' /\ present' /\ file' = Log(h, k) /\ Pieces(streams', Log(h, k))
    <3> WITNESS m \in 0 .. r
    <3> QED BY <2>3, <2>5, <2>6, <2>8
  <2> QED BY <1>5, <2>7, <2>9 DEF LastFrame
<1> QED BY <1>1, <1>2, <1>3, <1>5, <1>6, TopLast

LEMMA LogFreed ==
  ASSUME TypeOK, TypeOK', NestInv, LogInv, CloseLog
  PROVE  LogInv'
<1>1. /\ stack # <<>> /\ stack \in Seq(FrameSet) /\ Top.pc = "free" /\ GotoExit(0)
      /\ UNCHANGED <<stdioVars, args, buf_full_flag, result_idx, log_fp, status>> /\ status # "exit0"
  BY DEF CloseLog, At, Running, resVars, TypeOK
<1> PICK h : h = LogHeading(buf_full_flag)
  OBVIOUS
<1> PICK r \in Nat : r = result_idx
  BY DEF TypeOK
<1>2. h = LogHeading(buf_full_flag)' /\ r = result_idx'
  BY <1>1, SameHeading
<1>3. IsEnd(Top)
  <2>1. Top = stack[Len(stack)] /\ Len(stack) \in 1 .. Len(stack) /\ Top \in FrameSet
    BY <1>1, TopType
  <2> QED BY <1>1, <2>1 DEF NestInv, FramesOK, FrameOK, Sigs, IsEnd, TickPcs, FrameSet
<1>4. PICK n \in FrameSet : /\ SetTop(n) /\ n.sig = Top.sig /\ n.pc = "exit" /\ n.code = 0
                            /\ n.rows = Top.rows
  <2>1. Len(streams') \in Nat
    BY LenProperties DEF TypeOK, StdioTypeOK
  <2> QED BY <1>1, <2>1, GotoExitMoves
<1>5. ASSUME args.use_file_export, ~FullOnTopOfHandler
      PROVE  LastFrame(n, h, r)' /\ Pieces(streams', Log(h, r))
  <2>1. LastFrame(Top, h, r) /\ Pieces(streams, Log(h, r))
    BY <1>1, <1>3, <1>5, TopEnd
  <2>2. PICK m \in 0 .. r :
          EndRows(m) /\ present /\ file = Log(h, m) /\ Pieces(streams, Log(h, m))
    BY <1>1, <2>1 DEF LastFrame
  <2>3. EndRows(m)'
    BY <1>1, <1>4, <2>2, MovedRows
  <2>4. \E k \in 0 .. r :
          EndRows(k)' /\ present' /\ file' = Log(h, k) /\ Pieces(streams', Log(h, k))
    <3> WITNESS m \in 0 .. r
    <3> QED BY <1>1, <2>2, <2>3 DEF stdioVars
  <2> QED BY <1>1, <1>4, <2>1, <2>4 DEF LastFrame, stdioVars
<1> QED BY <1>1, <1>2, <1>3, <1>4, <1>5, TopLast

LEMMA LogExit ==
  ASSUME TypeOK, TypeOK', NestInv, LogInv, Exit
  PROVE  LogInv'
<1>1. /\ stack # <<>> /\ stack \in Seq(FrameSet) /\ Top.pc = "exit" /\ status # "exit0"
      /\ UNCHANGED <<args, buf_full_flag, result_idx, log_fp>>
  BY DEF Exit, At, Running, resVars, TypeOK
<1> PICK h : h = LogHeading(buf_full_flag)
  OBVIOUS
<1> PICK r \in Nat : r = result_idx
  BY DEF TypeOK
<1>2. h = LogHeading(buf_full_flag)' /\ r = result_idx'
  BY <1>1, SameHeading
<1>3. IsEnd(Top) /\ Top \in FrameSet
  <2>1. Top = stack[Len(stack)] /\ Len(stack) \in 1 .. Len(stack) /\ Top \in FrameSet
    BY <1>1, TopType
  <2> QED BY <1>1, <2>1 DEF NestInv, FramesOK, FrameOK, Sigs, IsEnd, TickPcs, FrameSet
<1>4. CASE Top.idx > 0
  <2>1. ExitFlush(Top.idx) /\ SetTop([Top EXCEPT !.idx = @ - 1]) /\ status' = status
    BY <1>4 DEF Exit
  <2>2. PICK f \in FrameSet : /\ SetTop(f) /\ f.sig = Top.sig /\ f.pc = "exit" /\ f.rows = Top.rows
                              /\ f.code = Top.code
    <3> DEFINE g == [Top EXCEPT !.idx = @ - 1]
    <3>1. Top.idx - 1 \in Nat
      BY <1>3, <1>4 DEF FrameSet
    <3>2. /\ g \in FrameSet /\ g.sig = Top.sig /\ g.pc = "exit" /\ g.rows = Top.rows
          /\ g.code = Top.code
      BY <1>1, <1>3, <3>1 DEF FrameSet
    <3>3. SetTop(g)
      BY <2>1
    <3> HIDE DEF g
    <3> QED BY <3>2, <3>3
  <2>4. ASSUME args.use_file_export, ~FullOnTopOfHandler
        PROVE  LastFrame(f, h, r)' /\ Pieces(streams', Log(h, r))
    <3>1. LastFrame(Top, h, r) /\ Pieces(streams, Log(h, r)) /\ h \in Seq(Lines) /\ StdioTypeOK
      BY <1>1, <1>3, <2>4, TopEnd DEF TypeOK
    <3>2. ASSUME NEW m \in Nat, Pieces(streams, Log(h, m))
          PROVE  /\ UNCHANGED present /\ Pieces(streams', Log(h, m))
                 /\ file = Log(h, m) => file' = Log(h, m)
      <4>1. PICK c \in Seq(Lines) : c = Log(h, m)
        BY <3>1, LogLinesAre
      <4> QED BY <2>1, <3>1, <3>2, <4>1, ExitFlushEffect
    <3>3. Top.code = 0 =>
            \E k \in 0 .. r :
              EndRows(k)' /\ present' /\ file' = Log(h, k) /\ Pieces(streams', Log(h, k))
      <4> SUFFICES ASSUME Top.code = 0
                   PROVE  \E k \in 0 .. r :
                            EndRows(k)' /\ present' /\ file' = Log(h, k) /\ Pieces(streams', Log(h, k))
        OBVIOUS
      <4>1. PICK m \in 0 .. r :
              EndRows(m) /\ present /\ file = Log(h, m) /\ Pieces(streams, Log(h, m))
        BY <1>1, <3>1 DEF LastFrame
      <4>2. m \in Nat
        OBVIOUS
      <4>3. EndRows(m)'
        BY <1>1, <2>2, <4>1, MovedRows
      <4> WITNESS m \in 0 .. r
      <4> QED BY <3>2, <4>1, <4>2, <4>3
    <3> QED BY <2>2, <3>1, <3>2, <3>3 DEF LastFrame
  <2> QED BY <1>1, <1>2, <1>3, <2>1, <2>2, <2>4, TopLast
<1>5. CASE ~(Top.idx > 0)
  <2>1. /\ UNCHANGED <<stdioVars, stack>>
        /\ status' = "exit0" => Top.code = 0
    BY <1>3, <1>5 DEF Exit
  <2>2. status' = "exit0" => Succeeded'
    BY <1>1, <1>3, <2>1 DEF Succeeded, Top, IsEnd
  <2>3. result_idx <= result_idx'
    BY <1>1 DEF TypeOK
  <2> QED BY <1>1, <2>1, <2>2, <2>3, SameLast DEF stdioVars
<1> QED BY <1>4, <1>5

(* A signal_handler starts, on top of all. *)
LEMMA LogCalls ==
  ASSUME TypeOK, TypeOK', LogInv, NEW sig \in {"INT", "TERM", "call"},
         stack' = Append(stack, Frame(sig, "begin")),
         UNCHANGED <<present, file, streams, args, result_idx>>, status' # "exit0",
         buf_full_flag' = buf_full_flag \/ sig = "call"
  PROVE  LogInv'
<1> DEFINE f == Frame(sig, "begin")
<1>1. f \in FrameSet /\ f.sig = sig /\ f.pc = "begin"
  BY FrameType DEF TypeOK, Frame, Sigs, FramePcs
<1> HIDE DEF f
<1>2. /\ Len(stack) \in Nat /\ Len(stack') = Len(stack) + 1 /\ stack'[Len(stack) + 1] = f
      /\ \A k \in 1 .. Len(stack) : stack'[k] = stack[k] /\ k \in 1 .. Len(stack')
  BY <1>1, PushType, LenProperties DEF TypeOK, f
<1>3. Len(stack) + 1 \in 1 .. Len(stack') /\ IsEnd(stack'[Len(stack) + 1])
  BY <1>1, <1>2 DEF IsEnd
<1> SUFFICES ASSUME args.use_file_export, ~FullOnTopOfHandler'
             PROVE  /\ NoEnd' => Quiet'
                    /\ Pieces(streams, Log(LogHeading(buf_full_flag), result_idx))'
                    /\ \A k \in 1 .. Len(stack') :
                         LastEnd(k)' => LastFrame(stack[k], LogHeading(buf_full_flag), result_idx)'
  BY DEF LogInv
<1>4. ~FullOnTopOfHandler
  BY <1>2 DEF FullOnTopOfHandler, IsEnd
<1>5. ~NoEnd'
  BY <1>3 DEF NoEnd, IsEnd
<1>6. ASSUME NEW k \in 1 .. Len(stack'), LastEnd(k)'
      PROVE  LastFrame(stack[k], LogHeading(buf_full_flag), result_idx)'
  <2>1. k = Len(stack) + 1
    <3> SUFFICES ASSUME k # Len(stack) + 1 PROVE FALSE
      OBVIOUS
    <3>1. Len(stack) + 1 \in k + 1 .. Len(stack')
      BY <1>2
    <3> QED BY <1>3, <1>6, <3>1 DEF LastEnd, IsEnd
  <2>2. stack'[k].pc = "begin"
    BY <1>1, <1>2, <2>1
  <2> QED BY <2>2 DEF LastFrame
<1>7. Pieces(streams, Log(LogHeading(buf_full_flag), result_idx))'
  <2>1. CASE NoEnd
    <3>1. Quiet
      BY <1>4, <2>1 DEF LogInv
    <3> PICK h : h = LogHeading(buf_full_flag)'
      OBVIOUS
    <3> PICK r \in Nat : r = result_idx'
      BY DEF TypeOK
    <3>2. PICK c \in Seq(Lines) : c = Log(h, r)
      <4>1. h \in Seq(Lines)
        BY HeadingTypes
      <4> QED BY <4>1, LogLinesAre
    <3>3. Pieces(streams, c)
      BY <3>1, QuietPieces
    <3> QED BY <3>2, <3>3
  <2>2. CASE ~NoEnd
    <3>1. PICK k \in 1 .. Len(stack) : IsEnd(stack[k])
      BY <2>2 DEF NoEnd
    <3>2. k < Len(stack) + 1 /\ IsEnd(stack'[k])
      BY <1>2, <3>1 DEF IsEnd
    <3>3. sig # "call"
      BY <1>1, <1>2, <1>3, <3>2 DEF FullOnTopOfHandler, IsEnd
    <3> QED BY <1>4, <3>3, SameHeading DEF LogInv
  <2> QED BY <2>1, <2>2
<1> QED BY <1>5, <1>6, <1>7

(* The steps between two prints. *)
LEMMA LogOther ==
  ASSUME TypeOK, TypeOK', NestInv, LogInv, [Next]_vars, Handlers,
         ~(\/ PrintWarn \/ PrintOverall \/ PrintTitle \/ PrintRow
           \/ OpenLog \/ CallFclose \/ CloseLog \/ Exit)
  PROVE  LogInv'
<1>1. stack # <<>> /\ Top \in FrameSet /\ stack \in Seq(FrameSet) /\ args' = args
      /\ Top = stack[Len(stack)] /\ Len(stack) \in 1 .. Len(stack) /\ Len(stack) \in Nat
      /\ Running
  BY HandlersKeep, TopType DEF TypeOK
<1>2. /\ UNCHANGED <<stdioVars, log_fp, status>> /\ Top.pc \notin WritingPcs \cup {"alloc", "free", "exit"}
      /\ ~(At("check") /\ Full) => buf_full_flag' = buf_full_flag
  <2>1. CASE StoreRow
    <3>1. Top.pc = "store"
      BY <2>1 DEF StoreRow, At
    <3>2. RowSlot \in Slots
      BY <1>1, <3>1, RoomForRow DEF NestInv, RowSlot
    <3> QED BY <2>1, <3>1, <3>2 DEF StoreRow, WritingPcs
  <2>2. CASE CheckFull
    BY <2>2 DEF CheckFull, At, WritingPcs
  <2>3. CASE ~StoreRow /\ ~CheckFull
    BY <2>3 DEF Handlers, StopCounter, ResetCounter, StartCounter, ReadCounter, ForEach,
       IncResultIdx, PrintResult, Tick, Return, Begin, CallFopen, At, WritingPcs, resVars
  <2> QED BY <2>1, <2>2, <2>3
<1>3. status # "exit0" /\ status' # "exit0" /\ result_idx <= result_idx'
  BY <1>1, <1>2, NeverFewer DEF Running
<1>4. CASE At("check") /\ Full /\ stack' = Append(stack, Frame("call", "begin"))
  <2>1. ~StoreRow /\ ~IncResultIdx /\ ~PrintResult
    BY <1>4 DEF At, StoreRow, IncResultIdx, PrintResult
  <2>2. result_idx' = result_idx
    BY <2>1, OnlyRows
  <2> QED BY <1>1, <1>2, <1>3, <1>4, <2>2, LogCalls DEF stdioVars
<1>5. CASE At("return") /\ stack' = SubSeq(stack, 1, Len(stack) - 1)
  <2>1. ~IsEnd(Top)
    BY <1>1, <1>5 DEF NestInv, FramesOK, FrameOK, ExportPcs, FilePcs, At
  <2>2. /\ Len(stack') = Len(stack) - 1
        /\ \A k \in 1 .. Len(stack) - 1 : stack'[k] = stack[k] /\ k \in 1 .. Len(stack)
    BY <1>1, <1>5, PopType
  <2>3. \A k \in 1 .. Len(stack') : k \in 1 .. Len(stack) /\ stack'[k] = stack[k]
    BY <1>1, <2>2
  <2>4. \A k \in 1 .. Len(stack) : IsEnd(stack[k]) => k \in 1 .. Len(stack') /\ stack'[k] = stack[k]
    BY <1>1, <2>1, <2>2
  <2>5. buf_full_flag' = buf_full_flag
    BY <1>2, <1>5 DEF At
  <2> QED BY <1>1, <1>2, <1>3, <2>3, <2>4, <2>5, SameLast DEF stdioVars
<1>6. CASE Moves
  <2>1. PICK n \in FrameSet : MovesTo(n)
    BY <1>6 DEF Moves
  <2>2. SetTop(n) /\ n.sig = Top.sig /\ Flow(Top, n)
    BY <2>1 DEF MovesTo
  <2>3. /\ Len(stack') = Len(stack) /\ stack'[Len(stack)] = n
        /\ \A k \in 1 .. Len(stack) :
             /\ stack'[k].sig = stack[k].sig
             /\ k # Len(stack) => stack'[k] = stack[k]
    BY <1>1, <2>2, Moved
  <2>4. buf_full_flag' = buf_full_flag
    <3>1. CASE At("check") /\ Full
      <4>1. CheckFull
        BY <3>1, <1>2 DEF Handlers, StopCounter, ResetCounter, StartCounter, ReadCounter, ForEach,
           StoreRow, IncResultIdx, PrintResult, Tick, Return, Begin, CallFopen, At, PrintWarn, PrintOverall,
           PrintTitle, PrintRow, OpenLog, CallFclose, CloseLog, Exit, PrintLine
      <4>2. stack' = Append(stack, Frame("call", "begin")) /\ Frame("call", "begin") \in FrameSet
        BY <3>1, <4>1, FrameType DEF CheckFull, TypeOK, Sigs, FramePcs
      <4>3. Len(stack') = Len(stack) + 1
        BY <1>1, <4>2, PushType
      <4> QED BY <1>1, <2>3, <4>3
    <3> QED BY <1>2, <3>1
  <2>5. CASE IsEnd(Top)
    <3> PICK h : h = LogHeading(buf_full_flag)
      OBVIOUS
    <3> PICK r \in Nat, q \in Nat : r = result_idx /\ q = result_idx' /\ r <= q
      BY <1>3 DEF TypeOK
    <3>1. h = LogHeading(buf_full_flag)'
      BY <1>1, <2>4, SameHeading
    <3>2. ASSUME args.use_file_export PROVE n.pc \notin WritingPcs \cup {"free", "exit"}
      <4>1. Top.pc # "print"
        BY <1>1, <3>2 DEF NestInv, FramesOK, FrameOK
      <4> QED BY <1>2, <2>2, <3>2, <4>1 DEF Flow, WritingPcs
    <3>3. ASSUME args.use_file_export, ~FullOnTopOfHandler
          PROVE  LastFrame(n, h, q)' /\ Pieces(streams', Log(h, q))
      <4>1. Pieces(streams, Log(h, r)) /\ h \in Seq(Lines)
        BY <1>1, <2>5, <3>3, TopEnd
      <4>2. streams \in Seq([off : Nat, buf : Seq(Lines), open : BOOLEAN])
        BY DEF TypeOK, StdioTypeOK
      <4>3. Pieces(streams', Log(h, q))
        BY <1>2, <4>1, <4>2, LogGrows DEF stdioVars
      <4> QED BY <3>2, <3>3, <4>3 DEF LastFrame, WritingPcs
    <3> QED BY <1>1, <1>3, <2>2, <2>5, <3>1, <3>3, TopLast
  <2>6. CASE ~IsEnd(Top)
    <3>1. \A k \in 1 .. Len(stack') :
            IsEnd(stack'[k]) => k \in 1 .. Len(stack) /\ stack'[k] = stack[k]
      BY <1>1, <2>3, <2>6 DEF IsEnd
    <3>2. \A k \in 1 .. Len(stack) :
            IsEnd(stack[k]) => k \in 1 .. Len(stack') /\ stack'[k] = stack[k]
      BY <1>1, <2>3, <2>6
    <3> QED BY <1>1, <1>2, <1>3, <2>4, <3>1, <3>2, SameLast DEF stdioVars
  <2> QED BY <2>5, <2>6
<1>7. ~(At("exit") /\ stack' = stack)
  BY <1>2 DEF At
<1> QED BY <1>4, <1>5, <1>6, <1>7, HandlerMoves

LEMMA LogStartups ==
  ASSUME TypeOK, TypeOK', LogInv, Startups
  PROVE  LogInv'
<1>1. stack = <<>> /\ Len(stack) = 0 /\ status' # "exit0" /\ args' = args
  BY EmptySeq DEF Startups, CheckArgs, CreateEvents, Probe, Create, RemoveOld, Register, Start,
                  Startup, Running, resVars
<1>2. \A k \in 1 .. Len(stack') : ~IsEnd(stack'[k])
  <2>1. CASE stack' = <<>>
    <3>1. Len(stack') = 0
      BY <2>1, EmptySeq
    <3> QED BY <3>1
  <2>2. CASE stack' = <<Frame("main", "reset")>>
    <3>1. Len(stack') = 1 /\ stack'[1].sig = "main"
      BY <2>2 DEF Frame
    <3> QED BY <3>1 DEF IsEnd
  <2> QED BY <1>1, <2>1, <2>2
          DEF Startups, CheckArgs, CreateEvents, Probe, Create, RemoveOld, Register, Start
<1>3. NoEnd /\ ~FullOnTopOfHandler
  BY <1>1 DEF NoEnd, FullOnTopOfHandler
<1>4. ASSUME args.use_file_export PROVE Quiet'
  <2>1. Quiet
    BY <1>3, <1>4 DEF LogInv
  <2>2. CASE FOpenW
    <3>1. /\ Len(streams') = Len(streams) + 1 /\ Len(streams) \in Nat
          /\ \A k \in 1 .. Len(streams) : streams'[k] = streams[k]
          /\ streams'[Len(streams')].off = 0 /\ streams'[Len(streams')].buf = <<>>
      BY <2>2, OpenedStream DEF TypeOK
    <3>2. \A k \in 1 .. Len(streams') : k \in 1 .. Len(streams) \/ k = Len(streams')
      BY <3>1
    <3> QED BY <2>1, <3>1, <3>2 DEF Quiet
  <2>3. CASE streams' = streams
    BY <2>1, <2>3 DEF Quiet
  <2> QED BY <2>2, <2>3 DEF Startups, CheckArgs, CreateEvents, Probe, Create, RemoveOld, Register,
                            Start, Remove, stdioVars
<1>5. ASSUME args.use_file_export
      PROVE  Pieces(streams, Log(LogHeading(buf_full_flag), result_idx))'
  <2> PICK h : h = LogHeading(buf_full_flag)'
    OBVIOUS
  <2> PICK r \in Nat : r = result_idx'
    BY DEF TypeOK
  <2>1. PICK c \in Seq(Lines) : c = Log(h, r)
    BY HeadingTypes, LogLinesAre
  <2>2. Pieces(streams', c)
    <3>1. \A k \in 1 .. Len(streams') : streams'[k].off = 0 /\ streams'[k].buf = <<>>
      BY <1>4, <1>5 DEF Quiet
    <3>2. Len(<<>>) = 0 /\ Len(c) \in Nat /\ 1 .. 0 = {}
      BY LenProperties
    <3>3. Piece(0, <<>>, c)
      BY <3>2 DEF Piece
    <3> QED BY <3>1, <3>3 DEF Pieces
  <2> QED BY <2>1, <2>2
<1>6. \A k \in 1 .. Len(stack') : ~LastEnd(k)'
  BY <1>2 DEF LastEnd, IsEnd
<1> QED BY <1>1, <1>4, <1>5, <1>6 DEF LogInv

LEMMA LogDeliver ==
  ASSUME TypeOK, TypeOK', LogInv, NEW sig \in {"ALRM", "INT", "TERM"}, Deliver(sig)
  PROVE  LogInv'
<1>1. /\ UNCHANGED <<present, file, streams, log_fp, args, buf_full_flag, result_idx, status>>
      /\ status # "exit0" /\ result_idx <= result_idx'
      /\ stack' = Append(stack, Frame(sig, IF sig = "ALRM" THEN "tick" ELSE "begin"))
  BY DEF Deliver, Running, resVars, stdioVars, TypeOK
<1>2. CASE sig = "ALRM"
  <2> DEFINE f == Frame("ALRM", "tick")
  <2>1. f \in FrameSet /\ f.sig = "ALRM"
    BY FrameType DEF TypeOK, Frame, Sigs, FramePcs
  <2>2. stack' = Append(stack, f)
    BY <1>1, <1>2
  <2> HIDE DEF f
  <2>3. /\ Len(stack) \in Nat /\ Len(stack') = Len(stack) + 1 /\ stack'[Len(stack) + 1] = f
        /\ \A k \in 1 .. Len(stack) : stack'[k] = stack[k] /\ k \in 1 .. Len(stack')
    BY <2>1, <2>2, PushType, LenProperties DEF TypeOK
  <2>4. \A k \in 1 .. Len(stack') : IsEnd(stack'[k]) => k \in 1 .. Len(stack)
    BY <2>1, <2>3 DEF IsEnd
  <2>5. \A k \in 1 .. Len(stack') :
          IsEnd(stack'[k]) => k \in 1 .. Len(stack) /\ stack'[k] = stack[k]
    BY <2>3, <2>4
  <2> QED BY <1>1, <2>3, <2>5, SameLast
<1>3. CASE sig # "ALRM"
  BY <1>1, <1>3, LogCalls
<1> QED BY <1>2, <1>3

LEMMA LogInit == Init => LogInv
<1> SUFFICES ASSUME Init PROVE LogInv
  OBVIOUS
<1>1. Len(stack) = 0 /\ Len(streams) = 0 /\ status # "exit0" /\ 1 .. 0 = {}
  BY EmptySeq DEF Init, StdioInit
<1>2. Quiet /\ \A c : Pieces(streams, c)
  BY <1>1 DEF Quiet, Pieces
<1> QED BY <1>1, <1>2 DEF LogInv

LEMMA LogStep ==
  TypeOK /\ NestInv /\ RowsOK /\ LogInv /\ [Next]_vars => LogInv'
<1> SUFFICES ASSUME TypeOK, NestInv, RowsOK, LogInv, [Next]_vars PROVE LogInv'
  OBVIOUS
<1>1. TypeOK' /\ RowsOK'
  BY TypeStep, RowsStep
<1>2. CASE UNCHANGED vars
  <2>1. /\ UNCHANGED <<present, file, streams, log_fp, args, buf_full_flag, result_idx>>
        /\ UNCHANGED <<stack, status>>
    BY <1>2 DEF vars, stdioVars, resVars
  <2>2. CASE status = "exit0"
    <3>1. LogHeading(buf_full_flag)' = LogHeading(buf_full_flag)
      BY <2>1, SameHeading
    <3>2. \A f, h, r : LastFrame(f, h, r)' <=> LastFrame(f, h, r)
      BY <2>1 DEF LastFrame, LinesOf, EndRows
    <3>3. /\ (NoEnd' <=> NoEnd) /\ (Quiet' <=> Quiet) /\ (Succeeded' <=> Succeeded)
          /\ FullOnTopOfHandler' <=> FullOnTopOfHandler
          /\ \A k : LastEnd(k)' <=> LastEnd(k)
      BY <2>1 DEF NoEnd, Quiet, Succeeded, FullOnTopOfHandler, LastEnd, Top
    <3>4. \A k \in 1 .. Len(stack) :
            LastFrame(stack[k], LogHeading(buf_full_flag), result_idx)'
              <=> LastFrame(stack[k], LogHeading(buf_full_flag), result_idx)
      <4> PICK h, r : h = LogHeading(buf_full_flag) /\ r = result_idx
        OBVIOUS
      <4>1. h = LogHeading(buf_full_flag)' /\ r = result_idx'
        BY <2>1, <3>1
      <4> SUFFICES ASSUME NEW k \in 1 .. Len(stack)
                   PROVE  LastFrame(stack[k], h, r)' <=> LastFrame(stack[k], h, r)
        BY <4>1
      <4> PICK f : f = stack[k]
        OBVIOUS
      <4> QED BY <2>1, <3>2
    <3>5. Pieces(streams, Log(LogHeading(buf_full_flag), result_idx))'
            <=> Pieces(streams, Log(LogHeading(buf_full_flag), result_idx))
      BY <2>1, <3>1
    <3> QED BY <2>1, <3>3, <3>4, <3>5 DEF LogInv
  <2>3. CASE status # "exit0"
    <3>1. result_idx <= result_idx'
      BY <2>1 DEF TypeOK
    <3> QED BY <1>1, <2>1, <2>3, <3>1, SameLast
  <2> QED BY <2>2, <2>3
<1>3. CASE Expire \/ Kill \/ Hang \/ (\E i \in CpuNums : Work(i)) \/ \E sig \in {"INT", "TERM"} : Send(sig)
  <2>1. /\ UNCHANGED <<present, file, streams, log_fp, args, buf_full_flag, result_idx, stack>>
        /\ status' # "exit0"
    <3>1. CASE Expire \/ Kill \/ Hang
      BY <3>1 DEF Expire, Kill, Hang, Running, resVars, stdioVars
    <3>2. ASSUME NEW i \in CpuNums, Work(i)
          PROVE  /\ UNCHANGED <<present, file, streams, log_fp, args, buf_full_flag, result_idx, stack>>
                 /\ status' # "exit0"
      BY <3>2 DEF Work, Running, resVars, stdioVars
    <3>3. ASSUME NEW sig \in {"INT", "TERM"}, Send(sig)
          PROVE  /\ UNCHANGED <<present, file, streams, log_fp, args, buf_full_flag, result_idx, stack>>
                 /\ status' # "exit0"
      BY <3>3 DEF Send, Running, resVars, stdioVars
    <3> QED BY <1>3, <3>1, <3>2, <3>3
  <2>2. result_idx <= result_idx'
    BY <2>1 DEF TypeOK
  <2> QED BY <1>1, <2>1, <2>2, SameLast
<1>4. CASE Handlers
  BY <1>1, <1>4, LogWarn, LogRow, LogOpen, LogClose, LogFreed, LogExit, LogOther
<1> QED BY <1>1, <1>2, <1>3, <1>4, LogStartups, LogDeliver, NextCases

(* When the monitor reports success its log is a heading and the first     *)
(* rows, those counted when the first signal_handler started among them,   *)
(* however the handlers are stacked on one another (fopen to exit in       *)
(* signal_handler).                                                        *)
THEOREM LogIsWellFormedAlways == Spec => []LogIsWellFormed
<1>1. Init => TypeOK /\ NestInv /\ RowsOK /\ LogInv
  <2>1. Init => RowsOK
    <3>1. Init => Len(stack) = 0
      BY EmptySeq DEF Init
    <3> QED BY <3>1 DEF RowsOK
  <2> QED BY <2>1, InitType, NestInit, LogInit
<1>2. TypeOK /\ NestInv /\ RowsOK /\ LogInv /\ [Next]_vars
        => TypeOK' /\ NestInv' /\ RowsOK' /\ LogInv'
  BY TypeStep, NestStep, RowsStep, LogStep
<1>3. TypeOK /\ LogInv => LogIsWellFormed
  <2> SUFFICES ASSUME TypeOK, LogInv, status = "exit0", args.use_file_export, ~FullOnTopOfHandler
               PROVE  \E n \in 0 .. result_idx :
                        /\ present /\ file = LogHeading(buf_full_flag) \o Rows(n)
                        /\ \A k \in 1 .. Len(stack) : IsEnd(stack[k]) => n >= stack[k].rows
    BY DEF LogIsWellFormed
  <2>1. Succeeded
    BY DEF LogInv
  <2>2. Top = stack[Len(stack)] /\ Len(stack) \in 1 .. Len(stack) /\ Len(stack) \in Nat
    BY <2>1, TopType DEF Succeeded, TypeOK
  <2>3. LastEnd(Len(stack))
    BY <2>1, <2>2 DEF Succeeded, LastEnd
  <2>4. LastFrame(Top, LogHeading(buf_full_flag), result_idx)
    BY <2>2, <2>3 DEF LogInv
  <2> QED BY <2>1, <2>4 DEF Succeeded, LastFrame, EndRows, Log
<1> QED BY <1>1, <1>2, <1>3, PTL DEF Spec
=============================================================================
