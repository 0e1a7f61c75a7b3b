---------------------------- MODULE BwWr_proofs ----------------------------
(***************************************************************************)
(* Proofs about BwWr, for every size of a chunk, of the buffer, of the     *)
(* stride and of the log, and any number of passes and calls.              *)
(*                                                                         *)
(* The invariant relates what a pass has written to the loop's two         *)
(* positions: the bytes written are the multiples of the stride below      *)
(* p + n * stride, their number is that many strides, and a call that has  *)
(* outer_cnt passes left has made a whole pass for each of the others.     *)
(***************************************************************************)
EXTENDS BwWr, FiniteSetTheorems, TLAPS

(* Where main() has accepted the arguments. *)
Live == {"call", "pass", "chunk", "rest", "sample", "store", "count", "stored", "full"}

Writing == {"chunk", "rest"}

ArgsInv ==
  /\ pc \in Live \cup {"args", "exit", "crash", "end"}
  /\ program \in {"sim", "inf"} /\ opts \in SUBSET Options[program]
  /\ nbytes \in 0 .. SIZE_MOD - 1 /\ stride \in Nat /\ iterations \in Nat
  /\ buf_log_size \in Nat
  /\ pc \in Live => ~WrongUse /\ ~TooLarge /\ stride >= 1

(* The two positions of the loop. *)
PassInv ==
  /\ p \in Nat /\ n \in 0 .. CHUNK_SIZE
  /\ pc \in (Live \cup {"args"}) \ {"chunk"} => n = 0
  /\ pc \in Writing => p % stride = 0 /\ p <= nbytes
  /\ pc = "chunk" /\ n > 0 => p <= remainder_boundary

(* The offset in the chunk, and the bytes written. *)
HeadInv ==
  HeadFits =>
    /\ ~outside
    /\ pc \in Live \cup {"args"} => head = IF n = 0 THEN 0 ELSE (n - 1) * stride
    /\ pc \in Writing =>
         hits = [a \in Bytes |-> IF a % stride = 0 /\ a < p + n * stride THEN 1 ELSE 0]

(* The number of writes in this call. *)
CountInv ==
  /\ outer_cnt \in Nat /\ writes \in Nat
  /\ Timed =>
       /\ pc = "pass" =>
            /\ outer_cnt <= iterations
            /\ writes = (iterations - outer_cnt) * stride_cnt
       /\ pc \in Writing =>
            /\ outer_cnt < iterations
            /\ writes = (iterations - outer_cnt - 1) * stride_cnt + ((p \div stride) + n)

(* The results stored so far. *)
Kept == IF pc = "count" THEN result_idx + 1 ELSE result_idx

Room == IF buf_log_size = 0 THEN 1 ELSE buf_log_size

Open == pc \notin {"stored", "full"}

ResultInv ==
  /\ result_idx \in Nat /\ calls \in Nat
  /\ pc \in {"sample", "store"} => res = WholeResult
  /\ pc = "sample" => program = "sim"
  /\ pc \in {"store", "count", "stored", "full"} => program = "inf" /\ "f" \in opts
  /\ pc \in Live \/ (pc = "end" /\ program = "sim") =>
       results = [m \in 0 .. Kept - 1 |-> WholeResult]
  /\ program = "sim" /\ pc \in Live \cup {"end"} =>
       IF pc = "end" THEN result_idx = NUM_SAMPLE ELSE result_idx < NUM_SAMPLE
  /\ pc = "args" => results = <<>> /\ result_idx = 0 /\ calls = 0 /\ buf_full_flag = FALSE
  /\ program = "inf" /\ "f" \in opts /\ pc \in Live =>
       /\ calls = IF pc \in {"call", "stored", "full"} THEN result_idx ELSE result_idx + 1
       /\ buf_full_flag \in BOOLEAN /\ (buf_full_flag => pc = "full")
       /\ result_idx <= Room /\ (Open => result_idx < Room)
       /\ pc = "stored" => result_idx > 0
       /\ pc = "full" => result_idx = Room
  /\ pc = "end" /\ "f" \in opts =>
       /\ Len(log.lines) \in Nat
       /\ \A m \in 1 .. Len(log.lines) : log.lines[m] = WholeResult
       /\ Len(log.lines) \in {calls - 1, calls} /\ Len(log.lines) <= Room
       /\ log.warn => Len(log.lines) = Room

WrInv == ArgsInv /\ (StrideFits => PassInv /\ HeadInv /\ CountInv /\ ResultInv)

-----------------------------------------------------------------------------
(* Multiples of the stride *)

LEMMA DivMod ==
  ASSUME NEW d \in Nat \ {0}, NEW a \in Nat
  PROVE  /\ a \div d \in Nat /\ a % d \in 0 .. d - 1
         /\ a = (a \div d) * d + (a % d)
OBVIOUS

LEMMA Quotient ==
  ASSUME NEW d \in Nat \ {0}, NEW q \in Int
  PROVE  (q * d) % d = 0 /\ (q * d) \div d = q
OBVIOUS

LEMMA Product ==
  ASSUME NEW a \in Int, NEW b \in Int, NEW c \in Nat, a <= b
  PROVE  a * c <= b * c
OBVIOUS

LEMMA Multiple ==
  ASSUME NEW d \in Nat \ {0}, NEW a \in Nat, a % d = 0
  PROVE  a = (a \div d) * d /\ a \div d \in Nat
BY DivMod

(* The quotient counts the strides. *)
LEMMA Further ==
  ASSUME NEW d \in Nat \ {0}, NEW a \in Nat, NEW m \in Nat, a % d = 0
  PROVE  (a + d * m) % d = 0 /\ (a + d * m) \div d = (a \div d) + m
<1> DEFINE q == a \div d
<1>1. a = q * d /\ q \in Nat
  BY Multiple
<1> HIDE DEF q
<1>2. a + d * m = (q + m) * d /\ q + m \in Int
  BY <1>1
<1>3. ((q + m) * d) % d = 0 /\ ((q + m) * d) \div d = q + m
  BY <1>2, Quotient
<1> QED BY <1>2, <1>3 DEF q

LEMMA NextMultiple ==
  ASSUME NEW d \in Nat \ {0}, NEW a \in Nat, a % d = 0
  PROVE  (a + d) % d = 0 /\ (a + d) \div d = (a \div d) + 1
<1> DEFINE q == a \div d
<1>1. a = q * d /\ q \in Nat
  BY Multiple
<1> HIDE DEF q
<1>2. a + d = (q + 1) * d /\ q + 1 \in Int
  BY <1>1
<1>3. ((q + 1) * d) % d = 0 /\ ((q + 1) * d) \div d = q + 1
  BY <1>2, Quotient
<1> QED BY <1>2, <1>3 DEF q

(* Two multiples are a stride apart. *)
LEMMA MultiplesApart ==
  ASSUME NEW d \in Nat \ {0}, NEW a \in Nat, NEW b \in Nat,
         a % d = 0, b % d = 0, a < b
  PROVE  a + d <= b
<1>1. PICK q \in Nat, r \in Nat : a = q * d /\ b = r * d
  BY Multiple
<1>2. q < r
  <2> SUFFICES ASSUME r <= q PROVE FALSE
    BY <1>1
  <2>1. r * d <= q * d
    BY Product
  <2> QED BY <1>1, <2>1
<1>3. (q + 1) * d <= r * d
  BY <1>2, Product
<1> QED BY <1>1, <1>3

(* The last multiple below a number has its quotient. *)
LEMMA SameQuotient ==
  ASSUME NEW d \in Nat \ {0}, NEW a \in Nat, NEW b \in Nat,
         a % d = 0, a <= b, b < a + d
  PROVE  a \div d = b \div d
<1> DEFINE q == a \div d
           r == b \div d
<1>1. a = q * d /\ q \in Nat
  BY Multiple
<1>2. r \in Nat /\ r * d <= b /\ b < (r + 1) * d
  <2>1. r \in Nat /\ b % d \in 0 .. d - 1 /\ b = r * d + (b % d)
    BY DivMod
  <2> HIDE DEF r
  <2>2. (r + 1) * d = r * d + d /\ r * d \in Int
    BY <2>1
  <2> QED BY <2>1, <2>2
<1> HIDE DEF q, r
<1>3. ~(q < r)
  <2> SUFFICES ASSUME q < r PROVE FALSE
    OBVIOUS
  <2>1. (q + 1) * d <= r * d /\ (q + 1) * d = q * d + d
    BY <1>1, <1>2, Product
  <2> QED BY <1>1, <1>2, <2>1
<1>4. ~(r < q)
  <2> SUFFICES ASSUME r < q PROVE FALSE
    OBVIOUS
  <2>1. (r + 1) * d <= q * d /\ (r + 1) * d \in Int
    BY <1>1, <1>2, Product
  <2> QED BY <1>1, <1>2, <2>1
<1>5. q = r
  BY <1>1, <1>2, <1>3, <1>4
<1> QED BY <1>5 DEF q, r

-----------------------------------------------------------------------------
(* The arguments *)

LEMMA Constants ==
  ASSUME [Next]_vars
  PROVE  UNCHANGED args
BY DEF Next, wr, CheckArgs, Call, StartPass, ChunkWrite, NextChunk, ChunksDone, RestWrite,
       PassDone, Crash, Report, Sample, Store, Count, CheckFull, SignalHandler, Terminated, vars

(* What is computed from the arguments alone. *)
LEMMA Derived ==
  ASSUME UNCHANGED args
  PROVE  /\ UNCHANGED <<remainder_boundary, lastone, stride_cnt, Divisor>>
         /\ UNCHANGED <<Bytes, FirstBytes, WholeResult, Room>>
         /\ (WrongUse' <=> WrongUse) /\ (TooLarge' <=> TooLarge)
         /\ (HeadFits' <=> HeadFits) /\ (Timed' <=> Timed)
         /\ (StrideFits' <=> StrideFits)
<1>1. UNCHANGED <<remainder_boundary, lastone, stride_cnt, Divisor, Bytes, Room>>
  BY DEF args, remainder_boundary, ChunkBytes, lastone, stride_cnt, Divisor, chunk_count,
         rest_cnt, Bytes, Room
<1>2. UNCHANGED <<FirstBytes, WholeResult>>
  BY <1>1 DEF args, FirstBytes, WholeResult
<1>3. /\ (WrongUse' <=> WrongUse) /\ (TooLarge' <=> TooLarge)
      /\ (HeadFits' <=> HeadFits) /\ (Timed' <=> Timed)
      /\ (StrideFits' <=> StrideFits)
  BY DEF args, WrongUse, TooLarge, ChunkBytes, HeadFits, Timed, StrideFits
<1> QED BY <1>1, <1>2, <1>3

LEMMA ArgsStep ==
  ASSUME ArgsInv, [Next]_vars
  PROVE  ArgsInv'
<1>1. UNCHANGED args /\ (WrongUse' <=> WrongUse) /\ (TooLarge' <=> TooLarge)
  BY Constants, Derived
<1>2. pc \in Live /\ pc' \in Live \cup {"exit", "crash", "end"} => ArgsInv'
  BY <1>1 DEF ArgsInv, args, Live
<1>3. CASE CheckArgs
  BY <1>1, <1>3 DEF CheckArgs, ArgsInv, args, Live
<1>4. CASE Call \/ wr \/ Crash \/ Sample \/ SignalHandler
  <2>1. pc \in Live /\ pc' \in Live \cup {"exit", "crash", "end"}
    BY <1>4 DEF ArgsInv, Live, Call, wr, Crash, Sample, SignalHandler, StartPass, ChunkWrite,
                NextChunk, ChunksDone, RestWrite, PassDone, Report, Store, Count, CheckFull
  <2> QED BY <1>2, <2>1
<1>5. CASE UNCHANGED pc
  BY <1>1, <1>5 DEF ArgsInv, args
<1> QED BY <1>3, <1>4, <1>5 DEF Next, Terminated, vars

(* A number below the limit is what it is after wrapping. *)
LEMMA Below ==
  ASSUME NEW x \in 0 .. SIZE_MOD - 1
  PROVE  x % SIZE_MOD = x
<1> DEFINE m == SIZE_MOD
<1>1. m \in Nat \ {0} /\ x \in Nat /\ x < m
  BY WrAssumption
<1> HIDE DEF m
<1>2. x % m = x
  BY <1>1
<1> QED BY <1>2 DEF m

(* An offset that fits an int is of a stride whose chunk fits a size_t. *)
LEMMA HeadFitsStrideFits ==
  ASSUME stride \in Nat, HeadFits
  PROVE  StrideFits
<1> DEFINE s == stride * (CHUNK_SIZE - 1)
<1>1. CHUNK_SIZE \in Nat /\ CHUNK_SIZE > 1 /\ s <= INT_MAX
      /\ INT_MAX \in Nat /\ SIZE_MOD \in Nat /\ SIZE_MOD > 2 * INT_MAX
  BY WrAssumption DEF HeadFits
<1>2. s \in Nat /\ stride * CHUNK_SIZE = s + stride
  BY <1>1
<1>3. stride <= s
  <2>1. 1 * stride <= (CHUNK_SIZE - 1) * stride
    BY <1>1, Product
  <2>2. (CHUNK_SIZE - 1) * stride = s /\ 1 * stride = stride
    BY <1>1
  <2> HIDE DEF s
  <2> QED BY <2>1, <2>2
<1> HIDE DEF s
<1> QED BY <1>1, <1>2, <1>3 DEF StrideFits

(* What is known where wr() runs. *)
LEMMA Facts ==
  ASSUME ArgsInv, StrideFits, pc \in Live
  PROVE  /\ stride \in Nat \ {0} /\ nbytes \in Nat /\ iterations \in Nat
         /\ CHUNK_SIZE \in Nat \ {0} /\ stride * CHUNK_SIZE \in Nat
         /\ remainder_boundary \in Nat /\ remainder_boundary + stride * CHUNK_SIZE = nbytes
         /\ ChunkBytes = stride * CHUNK_SIZE
         /\ lastone \in Nat /\ lastone + stride = nbytes
<1>1. /\ stride \in Nat \ {0} /\ nbytes \in Nat /\ iterations \in Nat
      /\ CHUNK_SIZE \in Nat \ {0} /\ SIZE_MOD \in Nat /\ nbytes < SIZE_MOD
  BY WrAssumption DEF ArgsInv
<1>2. stride * CHUNK_SIZE \in Nat
  BY <1>1
<1>3. ChunkBytes = stride * CHUNK_SIZE
  BY <1>1, <1>2, Below DEF StrideFits, ChunkBytes
<1>4. stride * CHUNK_SIZE <= nbytes
  BY <1>1, <1>2, <1>3 DEF ArgsInv, TooLarge
<1>5. stride <= nbytes
  <2>1. 1 * stride <= CHUNK_SIZE * stride /\ CHUNK_SIZE * stride = stride * CHUNK_SIZE
    BY <1>1, Product
  <2> QED BY <1>1, <1>2, <1>4, <2>1
<1>6. lastone = nbytes - stride
  BY <1>1, <1>5, Below DEF lastone
<1> QED BY <1>1, <1>2, <1>3, <1>4, <1>5, <1>6 DEF remainder_boundary

(* A write of the rest does not wrap either. *)
LEMMA RestStep ==
  ASSUME ArgsInv, StrideFits, p \in Nat, RestWrite
  PROVE  p' = p + stride
<1>1. /\ stride \in Nat /\ lastone \in Nat /\ lastone + stride = nbytes /\ p <= lastone
      /\ nbytes \in Nat /\ nbytes < SIZE_MOD /\ SIZE_MOD \in Nat
  BY Facts, WrAssumption DEF RestWrite, Live, ArgsInv
<1>2. p + stride \in 0 .. SIZE_MOD - 1
  BY <1>1
<1> QED BY <1>2, Below DEF RestWrite

-----------------------------------------------------------------------------
(* The positions of the loop *)

LEMMA PassStep ==
  ASSUME ArgsInv, StrideFits, PassInv, [Next]_vars
  PROVE  PassInv'
<1> USE DEF PassInv, Live, Writing
<1>1. /\ UNCHANGED args /\ UNCHANGED stride /\ UNCHANGED nbytes
      /\ UNCHANGED remainder_boundary
  BY Constants, Derived DEF args
<1>2. p \in Nat /\ n \in Nat /\ n <= CHUNK_SIZE /\ CHUNK_SIZE \in Nat \ {0}
  BY WrAssumption
<1>3. CASE CheckArgs
  BY <1>1, <1>2, <1>3 DEF CheckArgs, loop
<1>4. CASE Call
  BY <1>1, <1>2, <1>4 DEF Call
<1>5. CASE StartPass
  <2>1. 0 % stride = 0 /\ nbytes \in Nat
    BY <1>5, Facts DEF StartPass
  <2> QED BY <1>1, <1>2, <1>5, <2>1 DEF StartPass
<1>6. CASE ChunkWrite
  BY <1>1, <1>2, <1>6 DEF ChunkWrite
<1>7. CASE NextChunk
  <2>1. /\ stride \in Nat \ {0} /\ stride * CHUNK_SIZE \in Nat
        /\ remainder_boundary \in Nat /\ remainder_boundary + stride * CHUNK_SIZE = nbytes
    BY <1>7, Facts DEF NextChunk
  <2>2. pc = "chunk" /\ n = CHUNK_SIZE /\ p' = p + stride * CHUNK_SIZE /\ n' = 0 /\ pc' = pc
    BY <1>7, Facts DEF NextChunk, Live
  <2>3. p' % stride = 0
    BY <1>2, <2>1, <2>2, Further
  <2>4. p <= remainder_boundary
    BY <1>2, <2>2
  <2> QED BY <1>1, <1>2, <2>1, <2>2, <2>3, <2>4
<1>8. CASE ChunksDone
  BY <1>1, <1>2, <1>8 DEF ChunksDone
<1>9. CASE RestWrite
  <2>1. /\ stride \in Nat \ {0} /\ nbytes \in Nat
        /\ lastone \in Int /\ lastone + stride = nbytes
    BY <1>9, Facts DEF RestWrite
  <2>2. pc = "rest" /\ p <= lastone /\ p' = p + stride /\ n' = n /\ pc' = pc
    BY <1>2, <1>9, RestStep DEF RestWrite
  <2>3. p' % stride = 0
    BY <1>2, <2>1, <2>2, NextMultiple
  <2> QED BY <1>1, <1>2, <2>1, <2>2, <2>3
<1>10. CASE PassDone \/ Crash \/ Report \/ Sample \/ Store \/ Count \/ CheckFull \/ SignalHandler
  BY <1>1, <1>2, <1>10
     DEF PassDone, Crash, Report, Sample, Store, Count, CheckFull, SignalHandler, loop
<1>11. CASE UNCHANGED <<pc, loop>>
  BY <1>1, <1>11 DEF loop
<1> QED
  BY <1>3, <1>4, <1>5, <1>6, <1>7, <1>8, <1>9, <1>10, <1>11 DEF Next, wr, Terminated, vars

(* An offset an int can hold is converted to itself. *)
LEMMA Fits ==
  ASSUME NEW x \in Nat, x <= INT_MAX
  PROVE  ToInt(x) = x
<1> DEFINE half == INT_MAX + 1
<1>1. half \in Nat \ {0} /\ x + half \in Nat /\ x < half
  BY WrAssumption
<1>2. 2 * half \in Nat \ {0} /\ x + half < 2 * half
  BY <1>1
<1> HIDE DEF half
<1>3. (x + half) % (2 * half) = x + half
  <2> DEFINE w == 2 * half
             y == x + half
  <2>1. y \in Nat /\ w \in Nat \ {0} /\ y < w
    BY <1>1, <1>2
  <2> HIDE DEF y, w
  <2>2. y % w = y
    BY <2>1
  <2> QED BY <2>2 DEF y, w
<1>4. ((x + half) % (2 * half)) - half = x
  BY <1>1, <1>3
<1> QED BY <1>4 DEF ToInt, half

(* A write is to the first byte of the next whole stride. *)
LEMMA NextByte ==
  ASSUME ArgsInv, StrideFits, PassInv,
         \/ pc = "chunk" /\ n < CHUNK_SIZE /\ p <= remainder_boundary
         \/ pc = "rest" /\ p <= lastone
  PROVE  LET a == p + n * stride
         IN a \in Bytes /\ a % stride = 0 /\ a + stride <= nbytes
<1> DEFINE a == p + n * stride
<1>1. /\ stride \in Nat \ {0} /\ nbytes \in Nat /\ CHUNK_SIZE \in Nat
      /\ stride * CHUNK_SIZE \in Nat
      /\ remainder_boundary \in Nat /\ remainder_boundary + stride * CHUNK_SIZE = nbytes
      /\ lastone \in Int /\ lastone + stride = nbytes
  BY Facts DEF Live
<1>2. p \in Nat /\ n \in Nat /\ p % stride = 0
  BY WrAssumption DEF PassInv, Writing
<1>3. n * stride \in Nat /\ n * stride = stride * n
  BY <1>1, <1>2
<1>4. a % stride = 0
  <2>1. (p + stride * n) % stride = 0
    BY <1>1, <1>2, Further
  <2> QED BY <1>3, <2>1
<1>5. a + stride <= nbytes
  <2>1. CASE pc = "chunk"
    <3>1. (n + 1) * stride <= CHUNK_SIZE * stride /\ (n + 1) * stride = n * stride + stride
      BY <1>1, <1>2, <2>1, Product
    <3>2. CHUNK_SIZE * stride = stride * CHUNK_SIZE
      BY <1>1
    <3> QED BY <1>1, <1>2, <1>3, <2>1, <3>1, <3>2
  <2>2. CASE pc = "rest"
    <3>1. n = 0
      BY <2>2 DEF PassInv, Live
    <3>2. n * stride = 0
      BY <1>1, <3>1
    <3> QED BY <1>1, <1>2, <2>2, <3>2
  <2> QED BY <2>1, <2>2
<1> HIDE DEF a
<1>6. a \in Nat
  BY <1>2, <1>3 DEF a
<1> QED BY <1>1, <1>4, <1>5, <1>6 DEF Bytes, a

(* The byte that is written had not been written in this pass, and it is   *)
(* the only multiple of the stride before the next.                        *)
LEMMA WriteStep ==
  ASSUME ArgsInv, StrideFits, pc \in Live, NEW a \in Bytes, a % stride = 0, WriteAt(a),
         hits = [b \in Bytes |-> IF b % stride = 0 /\ b < a THEN 1 ELSE 0]
  PROVE  /\ hits' = [b \in Bytes |-> IF b % stride = 0 /\ b < a + stride THEN 1 ELSE 0]
         /\ UNCHANGED outside
<1>1. hits' = [hits EXCEPT ![a] = @ + 1] /\ UNCHANGED outside
  BY DEF WriteAt
<1>2. stride \in Nat \ {0} /\ nbytes \in Nat
  BY Facts
<1>3. a \in Nat /\ \A b \in Bytes : b \in Nat
  BY <1>2 DEF Bytes
<1>4. hits[a] = 0
  BY <1>3
<1>5. hits' = [b \in Bytes |-> IF b = a THEN 1 ELSE hits[b]]
  BY <1>1, <1>4
<1>6. ASSUME NEW b \in Bytes
      PROVE  (IF b = a THEN 1 ELSE hits[b]) =
               IF b % stride = 0 /\ b < a + stride THEN 1 ELSE 0
  <2>1. CASE b = a
    BY <1>2, <1>3, <2>1
  <2>2. CASE b # a
    <3>1. b < a \/ a < b
      BY <1>3, <2>2
    <3>2. b % stride = 0 /\ a < b => a + stride <= b
      BY <1>2, <1>3, MultiplesApart
    <3>3. hits[b] = IF b % stride = 0 /\ b < a THEN 1 ELSE 0
      OBVIOUS
    <3>4. b % stride = 0 => (b < a <=> b < a + stride)
      BY <1>2, <1>3, <3>1, <3>2
    <3> QED BY <2>2, <3>3, <3>4
  <2> QED BY <2>1, <2>2
<1> QED BY <1>1, <1>5, <1>6

LEMMA HeadStep ==
  ASSUME ArgsInv, StrideFits, PassInv, HeadInv, [Next]_vars
  PROVE  HeadInv'
<1> SUFFICES ASSUME HeadFits, HeadFits'
             PROVE  /\ ~outside'
                    /\ pc' \in Live \cup {"args"} =>
                         head' = IF n' = 0 THEN 0 ELSE (n' - 1) * stride'
                    /\ pc' \in Writing =>
                         hits' = [a \in Bytes' |-> IF a % stride' = 0 /\ a < p' + n' * stride'
                                                   THEN 1 ELSE 0]
  BY Constants, Derived DEF HeadInv
<1>1. UNCHANGED stride /\ UNCHANGED Bytes
  BY Constants, Derived DEF args
<1>2. /\ ~outside
      /\ pc \in Live \cup {"args"} => head = IF n = 0 THEN 0 ELSE (n - 1) * stride
      /\ pc \in Writing =>
           hits = [a \in Bytes |-> IF a % stride = 0 /\ a < p + n * stride THEN 1 ELSE 0]
  BY DEF HeadInv
<1>3. p \in Nat /\ n \in Nat /\ CHUNK_SIZE \in Nat \ {0}
  BY WrAssumption DEF PassInv
<1>4. ASSUME UNCHANGED <<head, n, outside>>, pc' \in Live => pc \in Live \cup {"args"},
             pc' \notin Writing, pc' # "args"
      PROVE  /\ ~outside' /\ pc' \notin Writing
             /\ pc' \in Live \cup {"args"} =>
                  head' = IF n' = 0 THEN 0 ELSE (n' - 1) * stride'
  BY <1>1, <1>2, <1>4
<1>5. CASE CheckArgs
  BY <1>4, <1>5 DEF CheckArgs, loop, history, Live, Writing
<1>6. CASE Call
  <2>1. n = 0
    BY <1>6 DEF Call, PassInv, Live
  <2> QED BY <1>2, <1>6, <2>1 DEF Call, Writing
<1>7. CASE StartPass
  <2>1. /\ pc = "pass" /\ pc' = "chunk" /\ p' = 0 /\ hits' = [a \in Bytes |-> 0]
        /\ UNCHANGED <<head, n, outside>>
    BY <1>7 DEF StartPass, NoHits
  <2>2. n = 0 /\ stride \in Nat \ {0} /\ nbytes \in Nat
    BY <2>1, Facts DEF PassInv, Live
  <2>3. p' + n' * stride = 0 /\ \A a \in Bytes : ~(a < 0)
    BY <2>1, <2>2 DEF Bytes
  <2>4. hits' = [a \in Bytes |-> IF a % stride = 0 /\ a < p' + n' * stride THEN 1 ELSE 0]
    BY <2>1, <2>3
  <2> QED BY <1>1, <1>2, <2>1, <2>2, <2>4 DEF Live
<1>8. CASE ChunkWrite
  <2>1. /\ pc = "chunk" /\ pc' = "chunk" /\ p <= remainder_boundary /\ n < CHUNK_SIZE
        /\ head' = IF n = 0 THEN head ELSE ToInt(head + stride)
        /\ WriteAt(p + head') /\ n' = n + 1 /\ p' = p
    BY <1>8 DEF ChunkWrite
  <2>2. stride \in Nat \ {0}
    BY <2>1, Facts DEF Live
  <2>3. head' = n * stride
    <3>1. CASE n = 0
      BY <1>2, <2>1, <2>2, <3>1 DEF Live
    <3>2. CASE n # 0
      <4>1. head = (n - 1) * stride /\ n - 1 \in Nat
        BY <1>2, <1>3, <2>1, <3>2 DEF Live
      <4>2. head + stride = n * stride
        BY <1>3, <2>2, <4>1
      <4>3. n * stride <= (CHUNK_SIZE - 1) * stride
        BY <1>3, <2>1, <2>2, Product
      <4>4. (CHUNK_SIZE - 1) * stride = stride * (CHUNK_SIZE - 1)
        BY <1>3, <2>2
      <4>5. n * stride \in Nat /\ (CHUNK_SIZE - 1) * stride \in Int
        BY <1>3, <2>2
      <4>6. n * stride <= INT_MAX
        BY <4>3, <4>4, <4>5, WrAssumption DEF HeadFits
      <4> QED BY <2>1, <3>2, <4>2, <4>5, <4>6, Fits
    <3> QED BY <3>1, <3>2
  <2> DEFINE a == p + n * stride
  <2>4. a \in Bytes /\ a % stride = 0
    BY <2>1, NextByte
  <2>5. p' + n' * stride = a + stride
    BY <1>3, <2>1, <2>2
  <2>6. WriteAt(a) /\ hits = [b \in Bytes |-> IF b % stride = 0 /\ b < a THEN 1 ELSE 0]
    BY <1>2, <2>1, <2>3 DEF Writing
  <2>7. pc \in Live
    BY <2>1 DEF Live
  <2> HIDE DEF a
  <2>8. /\ hits' = [b \in Bytes |-> IF b % stride = 0 /\ b < a + stride THEN 1 ELSE 0]
        /\ UNCHANGED outside
    BY <2>4, <2>6, <2>7, WriteStep
  <2>9. n' # 0 /\ n' - 1 = n
    BY <1>3, <2>1
  <2> QED BY <1>1, <1>2, <2>3, <2>5, <2>8, <2>9
<1>9. CASE NextChunk
  <2>1. /\ pc = "chunk" /\ pc' = "chunk" /\ n = CHUNK_SIZE /\ n' = 0 /\ head' = 0
        /\ p' = p + stride * CHUNK_SIZE /\ UNCHANGED <<hits, outside>>
    BY <1>9, Facts DEF NextChunk, Live, history
  <2>2. stride \in Nat \ {0}
    BY <2>1, Facts DEF Live
  <2>3. p' + n' * stride = p + n * stride
    BY <1>3, <2>1, <2>2
  <2> QED BY <1>1, <1>2, <2>1, <2>3 DEF Writing
<1>10. CASE ChunksDone
  <2>1. pc = "chunk" /\ pc' = "rest" /\ n = 0 /\ head' = 0 /\ UNCHANGED <<p, n, hits, outside>>
    BY <1>10 DEF ChunksDone, history
  <2> QED BY <1>1, <1>2, <2>1 DEF Writing
<1>11. CASE RestWrite
  <2>1. /\ pc = "rest" /\ pc' = "rest" /\ p <= lastone
        /\ WriteAt(p + head) /\ p' = p + stride /\ UNCHANGED <<head, n>>
    BY <1>3, <1>11, RestStep DEF RestWrite
  <2>2. stride \in Nat \ {0} /\ n = 0 /\ head = 0 /\ pc \in Live
    BY <1>2, <2>1, Facts DEF Live, PassInv
  <2>3. n * stride = 0
    BY <2>2
  <2>4. p \in Bytes /\ p % stride = 0
    BY <1>3, <2>1, <2>3, NextByte
  <2>5. /\ WriteAt(p) /\ hits = [b \in Bytes |-> IF b % stride = 0 /\ b < p THEN 1 ELSE 0]
    BY <1>2, <1>3, <2>1, <2>2, <2>3 DEF Writing
  <2>6. /\ hits' = [b \in Bytes |-> IF b % stride = 0 /\ b < p + stride THEN 1 ELSE 0]
        /\ UNCHANGED outside
    BY <2>2, <2>4, <2>5, WriteStep
  <2>7. p' + n' * stride = p + stride
    BY <1>3, <2>1, <2>2
  <2> QED BY <1>1, <1>2, <2>1, <2>2, <2>6, <2>7
<1>12. CASE PassDone \/ Crash \/ Report \/ Sample \/ Store \/ Count \/ CheckFull \/ SignalHandler
  <2>1. /\ UNCHANGED <<head, n, outside>> /\ pc \in Live \cup {"args"}
        /\ pc' \notin Writing /\ pc' # "args"
    BY <1>12 DEF PassDone, Crash, Report, Sample, Store, Count, CheckFull, SignalHandler,
                 loop, history, Live, Writing, ArgsInv
  <2> QED BY <1>4, <2>1
<1>13. CASE UNCHANGED <<pc, loop, history>>
  BY <1>1, <1>2, <1>13 DEF loop, history
<1> QED
  BY <1>5, <1>6, <1>7, <1>8, <1>9, <1>10, <1>11, <1>12, <1>13
     DEF Next, wr, Terminated, vars

-----------------------------------------------------------------------------
(* The number of writes *)

LEMMA CountStep ==
  ASSUME ArgsInv, StrideFits, PassInv, CountInv, [Next]_vars
  PROVE  CountInv'
<1> DEFINE W == stride_cnt
           k == iterations - outer_cnt
<1>1. UNCHANGED <<stride, iterations, stride_cnt>> /\ (Timed' <=> Timed)
  BY Constants, Derived DEF args
<1>2. p \in Nat /\ n \in Nat /\ CHUNK_SIZE \in Nat \ {0}
  BY WrAssumption DEF PassInv
<1>3. /\ outer_cnt \in Nat /\ writes \in Nat /\ iterations \in Nat
      /\ pc = "pass" /\ Timed => outer_cnt <= iterations /\ writes = k * W
      /\ pc \in Writing /\ Timed =>
           /\ outer_cnt < iterations
           /\ writes = (k - 1) * W + ((p \div stride) + n)
  BY DEF CountInv, ArgsInv
<1>4. ASSUME pc \in Writing
      PROVE  /\ stride \in Nat \ {0} /\ nbytes \in Nat /\ W \in Nat
             /\ p \div stride \in Nat /\ p % stride = 0 /\ (k - 1) * W \in Int
  <2>1. stride \in Nat \ {0} /\ nbytes \in Nat
    BY <1>4, Facts DEF Live, Writing
  <2>2. W \in Nat /\ p \div stride \in Nat
    BY <1>2, <2>1, DivMod DEF stride_cnt
  <2>3. k - 1 \in Int
    BY <1>3
  <2> HIDE DEF W, k
  <2>4. (k - 1) * W \in Int
    BY <2>2, <2>3
  <2> QED BY <1>4, <2>1, <2>2, <2>4 DEF PassInv
<1>5. ASSUME UNCHANGED <<outer_cnt, writes>>, pc' \notin Writing, pc' # "pass"
      PROVE  CountInv'
  BY <1>3, <1>5 DEF CountInv
<1>6. CASE CheckArgs
  BY <1>5, <1>6 DEF CheckArgs, loop, history, Writing
<1>7. CASE Call
  <2>1. /\ pc = "call" /\ pc' = "pass" /\ outer_cnt' = iterations /\ writes' = 0
    BY <1>7 DEF Call
  <2>2. stride_cnt \in Nat
    BY <2>1, Facts, DivMod DEF Live, stride_cnt
  <2>3. (iterations - iterations) * stride_cnt = 0
    BY <1>3, <2>2
  <2> QED BY <1>1, <1>3, <2>1, <2>3 DEF CountInv, Writing
<1>8. CASE StartPass
  <2>1. /\ pc = "pass" /\ pc' = "chunk" /\ p' = 0 /\ n' = n /\ writes' = writes
        /\ IF Timed THEN outer_cnt > 0 /\ outer_cnt' = outer_cnt - 1 ELSE UNCHANGED outer_cnt
    BY <1>8 DEF StartPass
  <2>2. n = 0 /\ stride \in Nat \ {0} /\ nbytes \in Nat /\ W \in Nat
    BY <2>1, Facts, DivMod DEF PassInv, Live, stride_cnt
  <2>3. (p' \div stride) + n' = 0
    BY <2>1, <2>2
  <2>4. outer_cnt' \in Nat /\ writes' \in Nat
    BY <1>3, <2>1
  <2>5. ASSUME Timed
        PROVE  /\ outer_cnt' < iterations
               /\ writes' = (iterations - outer_cnt' - 1) * W + ((p' \div stride) + n')
    <3>1. iterations - outer_cnt' - 1 = k
      BY <1>3, <2>1, <2>5
    <3>2. writes' = k * W /\ k * W \in Nat /\ outer_cnt' < iterations
      BY <1>3, <2>1, <2>5
    <3> HIDE DEF k, W
    <3> QED BY <2>3, <3>1, <3>2
  <2> QED BY <1>1, <2>1, <2>4, <2>5 DEF CountInv
<1>9. ASSUME pc \in Writing, pc' \in Writing, UNCHANGED outer_cnt, writes' \in Nat,
             Timed => /\ writes' - writes \in Nat
                      /\ (p' \div stride) + n' = (p \div stride) + n + (writes' - writes)
      PROVE  CountInv'
  <2> DEFINE d == writes' - writes
             q == p \div stride
             q1 == p' \div stride
             base == (k - 1) * W
  <2>1. ASSUME Timed
        PROVE  /\ outer_cnt' < iterations
               /\ writes' = base + (q1 + n')
    <3>1. writes = base + (q + n) /\ base \in Int /\ q \in Nat
      BY <1>3, <1>4, <1>9, <2>1
    <3>2. q1 + n' = q + n + d /\ d \in Nat /\ writes' = writes + d
      BY <1>3, <1>9, <2>1
    <3>3. outer_cnt' < iterations
      BY <1>3, <1>9, <2>1
    <3> HIDE DEF base, q, q1, d
    <3> QED BY <1>2, <3>1, <3>2, <3>3
  <2>2. base = (iterations' - outer_cnt' - 1) * stride_cnt'
    BY <1>1, <1>9
  <2>3. pc' # "pass"
    BY <1>9 DEF Writing
  <2> QED BY <1>1, <1>3, <1>9, <2>1, <2>2, <2>3 DEF CountInv
<1>10. CASE ChunkWrite
  <2>1. /\ pc \in Writing /\ pc' \in Writing /\ UNCHANGED <<p, outer_cnt>> /\ n' = n + 1
        /\ writes' = IF Timed THEN writes + 1 ELSE writes
    BY <1>10 DEF ChunkWrite, Writing, WriteAt
  <2>2. p \div stride \in Nat
    BY <1>4, <2>1
  <2>3. Timed => writes' - writes = 1
    BY <1>3, <2>1
  <2> QED BY <1>2, <1>3, <1>9, <2>1, <2>2, <2>3
<1>11. CASE NextChunk
  <2>1. /\ pc \in Writing /\ pc' \in Writing /\ UNCHANGED <<outer_cnt, writes>>
        /\ n = CHUNK_SIZE /\ n' = 0 /\ p' = p + stride * CHUNK_SIZE
    BY <1>11, Facts DEF NextChunk, Writing, Live, history
  <2>2. p' \div stride = (p \div stride) + CHUNK_SIZE /\ p \div stride \in Nat
    BY <1>2, <1>4, <2>1, Further
  <2> QED BY <1>2, <1>3, <1>9, <2>1, <2>2
<1>12. CASE ChunksDone
  <2>1. /\ pc \in Writing /\ pc' \in Writing /\ UNCHANGED <<p, n, outer_cnt, writes>>
    BY <1>12 DEF ChunksDone, Writing, history
  <2>2. p \div stride \in Nat
    BY <1>4, <2>1
  <2> QED BY <1>2, <1>3, <1>9, <2>1, <2>2
<1>13. CASE RestWrite
  <2>1. /\ pc \in Writing /\ pc' \in Writing /\ UNCHANGED <<outer_cnt, n>>
        /\ p' = p + stride /\ writes' = IF Timed THEN writes + 1 ELSE writes
    BY <1>2, <1>13, RestStep DEF RestWrite, Writing, WriteAt
  <2>2. p' \div stride = (p \div stride) + 1 /\ p \div stride \in Nat
    BY <1>2, <1>4, <2>1, NextMultiple
  <2>3. Timed => writes' - writes = 1
    BY <1>3, <2>1
  <2> QED BY <1>2, <1>3, <1>9, <2>1, <2>2, <2>3
<1>14. CASE PassDone
  <2>1. /\ pc = "rest" /\ pc' = "pass" /\ p > lastone /\ UNCHANGED <<outer_cnt, writes>>
    BY <1>14 DEF PassDone, loop, history
  <2>2. pc \in Writing /\ pc' \notin Writing
    BY <2>1 DEF Writing
  <2>3. p <= nbytes /\ n = 0 /\ nbytes < p + stride
    BY <1>2, <2>1, <2>2, Facts DEF PassInv, Live
  <2>4. p \div stride = W
    BY <1>2, <1>4, <2>2, <2>3, SameQuotient DEF stride_cnt
  <2>5. Timed => outer_cnt <= iterations /\ writes = k * W
    <3>1. k \in Int /\ W \in Nat
      BY <1>3, <1>4, <2>2
    <3>2. Timed => outer_cnt < iterations /\ writes = (k - 1) * W + (W + 0)
      BY <1>3, <2>2, <2>3, <2>4
    <3>3. Timed => outer_cnt <= iterations
      BY <1>3, <3>2
    <3> HIDE DEF k, W
    <3>4. (k - 1) * W + (W + 0) = k * W
      BY <3>1
    <3> QED BY <3>2, <3>3, <3>4
  <2> QED BY <1>1, <1>3, <2>1, <2>2, <2>5 DEF CountInv
<1>15. CASE Crash \/ Report \/ Sample \/ Store \/ Count \/ CheckFull \/ SignalHandler
  BY <1>5, <1>15 DEF Crash, Report, Sample, Store, Count, CheckFull, SignalHandler,
                     loop, history, Writing
<1>16. CASE UNCHANGED <<pc, loop, history>>
  BY <1>1, <1>16 DEF CountInv, loop, history
<1> QED
  BY <1>6, <1>7, <1>8, <1>10, <1>11, <1>12, <1>13, <1>14, <1>15, <1>16
     DEF Next, wr, Terminated, vars

(* A pass has as many bytes to write as there are whole strides. *)
LEMMA FirstBytesCount ==
  ASSUME stride \in Nat \ {0}, nbytes \in Nat
  PROVE  Cardinality(FirstBytes) = stride_cnt
<1> DEFINE W == stride_cnt
           f == [q \in 1 .. W |-> (q - 1) * stride]
<1>1. W \in Nat /\ W * stride <= nbytes /\ nbytes < W * stride + stride
  <2>1. W \in Nat /\ nbytes % stride \in 0 .. stride - 1
        /\ nbytes = W * stride + (nbytes % stride)
    BY DivMod DEF stride_cnt
  <2>2. W * stride \in Nat
    BY <2>1
  <2> HIDE DEF W
  <2> QED BY <2>1, <2>2
<1> HIDE DEF W
<1>2. ASSUME NEW q \in 1 .. W PROVE f[q] \in FirstBytes
  <2>1. q * stride <= W * stride /\ W * stride \in Nat /\ q \in Nat
    BY <1>1, Product
  <2>2. (q - 1) * stride \in Nat /\ (q - 1) * stride + stride = q * stride
    BY <2>1
  <2>3. ((q - 1) * stride) % stride = 0
    BY <2>1, Quotient
  <2>4. q * stride <= nbytes
    BY <1>1, <2>1, <2>2
  <2> DEFINE x == (q - 1) * stride
  <2>5. f[q] = x
    BY <1>2
  <2>6. x \in Nat /\ x + stride <= nbytes /\ x % stride = 0
    BY <2>2, <2>3, <2>4
  <2> HIDE DEF x, f
  <2> QED BY <2>5, <2>6 DEF FirstBytes, Bytes
<1>3. ASSUME NEW a \in FirstBytes PROVE \E q \in 1 .. W : f[q] = a
  <2>1. a \in Nat /\ a % stride = 0 /\ a + stride <= nbytes
    BY DEF FirstBytes, Bytes
  <2> DEFINE r == a \div stride
  <2>2. r \in Nat /\ a = r * stride
    BY <2>1, Multiple
  <2> HIDE DEF r
  <2>3. r < W
    <3>1. SUFFICES ASSUME W <= r PROVE FALSE
      BY <1>1, <2>2
    <3>2. W * stride <= r * stride /\ W * stride \in Nat
      BY <1>1, <2>2, <3>1, Product
    <3> QED BY <1>1, <2>1, <2>2, <3>2
  <2>4. r + 1 \in 1 .. W /\ ((r + 1) - 1) = r
    BY <1>1, <2>2, <2>3
  <2> QED BY <2>2, <2>4
<1>4. ASSUME NEW q \in 1 .. W, NEW r \in 1 .. W, f[q] = f[r] PROVE q = r
  <2>1. q \in Nat /\ r \in Nat /\ (q - 1) * stride = (r - 1) * stride
    BY <1>1, <1>4
  <2>2. ((q - 1) * stride) \div stride = q - 1 /\ ((r - 1) * stride) \div stride = r - 1
    BY <2>1, Quotient
  <2> QED BY <2>1, <2>2
<1>5. f \in Bijection(1 .. W, FirstBytes)
  <2>1. f \in [1 .. W -> FirstBytes]
    BY <1>2
  <2> HIDE DEF f
  <2> QED BY <1>3, <1>4, <2>1 DEF Bijection, Injection, IsInjective, Surjection
<1>6. IsFiniteSet(1 .. W) /\ Cardinality(1 .. W) = W
  BY <1>1, FS_Interval
<1>7. ExistsBijection(1 .. W, FirstBytes)
  BY <1>5 DEF ExistsBijection
<1> QED BY <1>6, <1>7, FS_Bijection DEF W

-----------------------------------------------------------------------------
(* The results *)

LEMMA Reported ==
  ASSUME ArgsInv, StrideFits, CountInv, Report
  PROVE  res' = WholeResult
<1> DEFINE W == stride_cnt
<1>1. /\ pc = "pass" /\ outer_cnt = 0 /\ Timed
      /\ res' = [time |-> writes,
                 over |-> IF program = "sim" /\ "l" \notin opts THEN 1 ELSE Divisor]
  BY DEF Report
<1>2. stride \in Nat \ {0} /\ nbytes \in Nat /\ iterations \in Nat /\ CHUNK_SIZE \in Nat \ {0}
  BY <1>1, Facts DEF Live
<1>3. W \in Nat
  BY <1>2, DivMod DEF stride_cnt
<1>4. writes = W * iterations
  <2>1. writes = (iterations - 0) * W
    BY <1>1 DEF CountInv
  <2> HIDE DEF W
  <2> QED BY <1>2, <1>3, <2>1
<1>5. Divisor = W * iterations
  <2>1. chunk_count * CHUNK_SIZE + rest_cnt = W
    BY <1>2, <1>3, DivMod DEF chunk_count, rest_cnt
  <2> QED BY <2>1 DEF Divisor
<1>6. Cardinality(FirstBytes) = W
  BY <1>2, FirstBytesCount
<1> QED BY <1>1, <1>4, <1>5, <1>6 DEF WholeResult

(* The next result comes behind those there are. *)
LEMMA StoredResults ==
  ASSUME result_idx \in Nat, res = WholeResult,
         results = [m \in 0 .. result_idx - 1 |-> WholeResult]
  PROVE  Stored = [m \in 0 .. result_idx |-> WholeResult]
<1>1. (0 .. result_idx - 1) \cup {result_idx} = 0 .. result_idx
  OBVIOUS
<1> QED BY <1>1 DEF Stored

LEMMA ResultStep ==
  ASSUME ArgsInv, StrideFits, CountInv, ResultInv, [Next]_vars
  PROVE  ResultInv'
<1>1. UNCHANGED <<program, opts, buf_log_size, WholeResult, Room>>
  BY Constants, Derived DEF args
<1>2. Room \in Nat \ {0} /\ NUM_SAMPLE \in Nat \ {0} /\ buf_log_size \in Nat
  BY WrAssumption DEF ArgsInv, Room
<1>3. program \in {"sim", "inf"} /\ (program = "sim" => "f" \notin opts)
  BY DEF ArgsInv, Options
<1> USE DEF ResultInv, Live, Kept, Open
<1>4. CASE CheckArgs
  <2>1. /\ pc = "args" /\ pc' \in {"call", "exit"}
        /\ UNCHANGED <<res, results, result_idx, buf_full_flag, log, calls>>
    BY <1>4 DEF CheckArgs, logging, history
  <2>2. <<>> = [m \in 0 .. 0 - 1 |-> WholeResult]
    OBVIOUS
  <2>3. results' = [m \in 0 .. result_idx' - 1 |-> WholeResult'] /\ result_idx' = 0
    BY <1>1, <2>1, <2>2
  <2>4. calls = 0 /\ buf_full_flag = FALSE /\ result_idx = 0
    BY <2>1
  <2>5. CASE pc' = "call"
    <3>1. Kept' = 0 /\ Kept' = result_idx' /\ results' = [m \in 0 .. Kept' - 1 |-> WholeResult']
      BY <2>1, <2>3, <2>4, <2>5
    <3>2. calls' = 0 /\ buf_full_flag' = FALSE /\ result_idx' = 0
      BY <2>1, <2>4
    <3>3. buf_full_flag' \in BOOLEAN /\ ~buf_full_flag'
      BY <3>2
    <3> QED BY <1>1, <1>2, <1>3, <2>5, <3>1, <3>2, <3>3
  <2>6. CASE pc' = "exit"
    BY <2>1, <2>4, <2>6
  <2> QED BY <2>1, <2>5, <2>6
<1>5. CASE Call
  <2>1. /\ pc = "call" /\ pc' = "pass" /\ calls' = calls + 1
        /\ UNCHANGED <<results, result_idx, buf_full_flag, log>>
    BY <1>5 DEF Call
  <2>2. results' = [m \in 0 .. result_idx' - 1 |-> WholeResult']
    BY <1>1, <2>1
  <2> QED BY <1>1, <1>2, <1>3, <2>1, <2>2
<1>6. CASE StartPass \/ ChunkWrite \/ NextChunk \/ ChunksDone \/ RestWrite \/ PassDone
  <2>1. /\ pc \in {"pass", "chunk", "rest"} /\ pc' \in {"pass", "chunk", "rest"}
        /\ UNCHANGED <<res, results, result_idx, buf_full_flag, log, calls>>
    BY <1>6 DEF StartPass, ChunkWrite, NextChunk, ChunksDone, RestWrite, PassDone,
                logging, history
  <2>2. results' = [m \in 0 .. result_idx' - 1 |-> WholeResult']
    BY <1>1, <2>1
  <2> QED BY <1>1, <1>2, <1>3, <2>1, <2>2
<1>7. CASE Crash
  <2>1. pc' = "crash" /\ UNCHANGED <<result_idx, calls>>
    BY <1>7 DEF Crash, logging, history
  <2> QED BY <1>1, <2>1
<1>8. CASE Report
  <2>1. /\ pc = "pass" /\ Timed
        /\ pc' = IF program = "sim" THEN "sample" ELSE IF "f" \in opts THEN "store" ELSE "call"
        /\ UNCHANGED <<results, result_idx, buf_full_flag, log, calls>>
    BY <1>8 DEF Report, history
  <2>2. res' = WholeResult'
    BY <1>1, <1>8, Reported
  <2>3. results' = [m \in 0 .. result_idx' - 1 |-> WholeResult']
    BY <1>1, <2>1
  <2> QED BY <1>1, <1>2, <1>3, <2>1, <2>2, <2>3
<1>9. CASE Sample
  <2>1. /\ pc = "sample" /\ results' = Stored /\ result_idx' = result_idx + 1
        /\ pc' = IF result_idx' < NUM_SAMPLE THEN "call" ELSE "end"
        /\ UNCHANGED <<buf_full_flag, log, calls>>
    BY <1>9 DEF Sample, history
  <2>2. program = "sim" /\ result_idx < NUM_SAMPLE /\ result_idx \in Nat
    BY <2>1
  <2>3. result_idx' - 1 = result_idx
    BY <2>1, <2>2
  <2>4. Stored = [m \in 0 .. result_idx |-> WholeResult]
    BY <2>1, StoredResults
  <2>5. results' = [m \in 0 .. result_idx' - 1 |-> WholeResult']
    BY <1>1, <2>1, <2>3, <2>4
  <2> QED BY <1>1, <1>2, <1>3, <2>1, <2>2, <2>5
<1>10. CASE Store
  <2>1. /\ pc = "store" /\ results' = Stored /\ pc' = "count"
        /\ UNCHANGED <<result_idx, buf_full_flag, log, calls>>
    BY <1>10 DEF Store, history
  <2>2. Stored = [m \in 0 .. result_idx |-> WholeResult]
    BY <2>1, StoredResults
  <2>3. result_idx' + 1 - 1 = result_idx /\ Kept' = result_idx' + 1
    BY <2>1
  <2>4. results' = [m \in 0 .. Kept' - 1 |-> WholeResult']
    BY <1>1, <2>1, <2>2, <2>3
  <2> QED BY <1>1, <1>2, <1>3, <2>1, <2>4
<1>11. CASE Count
  <2>1. /\ pc = "count" /\ result_idx' = result_idx + 1 /\ pc' = "stored"
        /\ UNCHANGED <<res, results, buf_full_flag, log, calls>>
    BY <1>11 DEF Count, history
  <2>2. results' = [m \in 0 .. result_idx' - 1 |-> WholeResult']
    BY <1>1, <2>1
  <2> QED BY <1>1, <1>2, <1>3, <2>1, <2>2
<1>12. CASE CheckFull
  <2>1. /\ pc = "stored"
        /\ IF result_idx >= buf_log_size
           THEN buf_full_flag' = TRUE /\ pc' = "full"
           ELSE pc' = "call" /\ UNCHANGED buf_full_flag
        /\ UNCHANGED <<results, result_idx, log, calls>>
    BY <1>12 DEF CheckFull, history
  <2>2. results' = [m \in 0 .. result_idx' - 1 |-> WholeResult']
    BY <1>1, <2>1
  <2>3. /\ program = "inf" /\ "f" \in opts /\ result_idx \in Nat /\ result_idx > 0
        /\ result_idx <= Room /\ calls = result_idx /\ calls \in Nat /\ ~buf_full_flag
    BY <2>1
  <2>4. IF pc' = "full" THEN result_idx = Room ELSE result_idx < Room
    BY <1>2, <2>1, <2>3 DEF Room
  <2>5. pc' \in {"call", "full"} /\ buf_full_flag' \in BOOLEAN /\ (buf_full_flag' => pc' = "full")
    BY <2>1, <2>3
  <2> QED BY <1>1, <1>2, <1>3, <2>1, <2>2, <2>3, <2>4, <2>5
<1>13. CASE SignalHandler
  <2>1. /\ program = "inf" /\ pc \in Live
        /\ UNCHANGED <<res, results, result_idx, buf_full_flag, calls>>
    BY <1>13 DEF SignalHandler, ArgsInv, history
  <2>2. CASE pc' = "exit"
    BY <1>1, <2>1, <2>2
  <2>3. CASE "f" \notin opts /\ pc' = "end"
    BY <1>1, <1>3, <2>1, <2>3
  <2>4. CASE /\ "f" \in opts /\ pc' = "end"
             /\ log' = [warn |-> buf_full_flag,
                        lines |-> [m \in 1 .. result_idx |-> results[m - 1]]]
    <3>1. /\ result_idx \in Nat /\ result_idx <= Room /\ calls \in Nat
          /\ calls - 1 = result_idx \/ calls = result_idx
          /\ buf_full_flag => result_idx = Room
      BY <2>1, <2>4
    <3>2. Len(log'.lines) = result_idx
      BY <2>4, <3>1
    <3>3. \A m \in 1 .. result_idx : m - 1 \in 0 .. Kept - 1
      BY <2>1, <3>1
    <3>4. \A m \in 1 .. result_idx : log'.lines[m] = WholeResult'
      BY <1>1, <2>1, <2>4, <3>3
    <3>5. log'.warn = buf_full_flag
      BY <2>4
    <3> QED BY <1>1, <2>1, <2>4, <3>1, <3>2, <3>4, <3>5
  <2> QED BY <1>13, <2>2, <2>3, <2>4 DEF SignalHandler
<1>14. CASE UNCHANGED <<pc, logging, history>>
  BY <1>1, <1>14 DEF logging, history
<1> QED
  BY <1>4, <1>5, <1>6, <1>7, <1>8, <1>9, <1>10, <1>11, <1>12, <1>13, <1>14
     DEF Next, wr, Terminated, vars

-----------------------------------------------------------------------------
LEMMA WrInit == Init => WrInv
<1> SUFFICES ASSUME Init PROVE WrInv
  OBVIOUS
<1>1. ArgsInv
  BY WrAssumption DEF Init, ArgsInv, Live
<1>2. PassInv /\ HeadInv /\ CountInv
  BY WrAssumption DEF Init, PassInv, HeadInv, CountInv, Live, Writing
<1>3. ResultInv
  BY DEF Init, ResultInv, Live
<1> QED BY <1>1, <1>2, <1>3 DEF WrInv

LEMMA WrInvAlways == Spec => []WrInv
<1>1. WrInv /\ [Next]_vars => WrInv'
  <2> SUFFICES ASSUME WrInv, [Next]_vars PROVE WrInv'
    OBVIOUS
  <2>1. ArgsInv' /\ (StrideFits' <=> StrideFits)
    BY ArgsStep, Constants, Derived DEF WrInv
  <2>2. StrideFits => PassInv' /\ HeadInv' /\ CountInv' /\ ResultInv'
    BY PassStep, HeadStep, CountStep, ResultStep DEF WrInv
  <2> QED BY <2>1, <2>2 DEF WrInv
<1> QED BY <1>1, WrInit, PTL DEF Spec

(* For every stride and size main() accepts, and as long as the offset of  *)
(* a chunk's last write is an int, no byte outside of the buffer is        *)
(* written.                                                                *)
THEOREM WritesStayInsideAlways == Spec => []WritesStayInside
<1>1. WrInv => WritesStayInside
  BY HeadFitsStrideFits DEF WrInv, ArgsInv, HeadInv, WritesStayInside
<1> QED BY <1>1, WrInvAlways, PTL

(* Every pass over the buffer writes the first byte of every whole stride, *)
(* once, and no other byte, whether the strides divide the buffer and the  *)
(* chunks the strides or not.                                              *)
THEOREM EachStrideIsWrittenOnceAlways == Spec => []EachStrideIsWrittenOnce
<1>1. ASSUME WrInv PROVE EachStrideIsWrittenOnce
  <2> SUFFICES ASSUME HeadFits, pc = "rest", p > lastone, NEW a \in Bytes
               PROVE  hits[a] = IF a \in FirstBytes THEN 1 ELSE 0
    BY DEF EachStrideIsWrittenOnce
  <2>0. StrideFits
    BY <1>1, HeadFitsStrideFits DEF WrInv, ArgsInv
  <2>1. /\ n = 0 /\ p \in Nat /\ p % stride = 0 /\ p <= nbytes
        /\ hits[a] = IF a % stride = 0 /\ a < p + n * stride THEN 1 ELSE 0
    BY <1>1, <2>0 DEF WrInv, PassInv, HeadInv, Live, Writing
  <2>2. stride \in Nat \ {0} /\ nbytes \in Nat /\ nbytes < p + stride
    BY <1>1, <2>0, <2>1, Facts DEF WrInv, Live
  <2>3. p + n * stride = p /\ a \in Nat
    BY <2>1, <2>2 DEF Bytes
  <2>4. a % stride = 0 => (a < p <=> a + stride <= nbytes)
    <3>1. a % stride = 0 /\ a < p => a + stride <= p
      BY <2>1, <2>2, <2>3, MultiplesApart
    <3> QED BY <2>1, <2>2, <2>3, <3>1
  <2> QED BY <2>1, <2>3, <2>4 DEF FirstBytes
<1> QED BY <1>1, WrInvAlways, PTL

(* For every stride with which the length of a chunk does not wrap,        *)
(* whatever is printed or logged is the time of whole calls over the       *)
(* number of their writes, and the log has room and a line for every call  *)
(* but the one that the signal cut short.                                  *)
THEOREM ResultsAreOfWholeCallsAlways == Spec => []ResultsAreOfWholeCalls
<1>1. ASSUME WrInv PROVE ResultsAreOfWholeCalls
  <2> SUFFICES ASSUME StrideFits, pc = "end" PROVE ResultsAreOfWholeCalls
    BY DEF ResultsAreOfWholeCalls
  <2>1. program = "sim" => results = [m \in 0 .. NUM_SAMPLE - 1 |-> WholeResult]
    BY <1>1 DEF WrInv, ResultInv, Kept
  <2>2. "f" \in opts =>
          /\ \A m \in 1 .. Len(log.lines) : log.lines[m] = WholeResult
          /\ Len(log.lines) \in {calls - 1, calls} /\ Len(log.lines) <= Room
          /\ log.warn => Len(log.lines) = Room
    BY <1>1 DEF WrInv, ResultInv
  <2> QED BY <2>1, <2>2 DEF ResultsAreOfWholeCalls, Room
<1> QED BY <1>1, WrInvAlways, PTL
=============================================================================
