-------------------------------- MODULE BwWr --------------------------------
(***************************************************************************)
(* inf-sim-bw_mem_wr and sim-bw_mem_wr: main()'s checks, the boundaries    *)
(* init_loop() computes, and wr(), which writes a byte at every stride in  *)
(* chunks of CHUNK_SIZE writes and then one by one.  sim-bw_mem_wr keeps   *)
(* the times of NUM_SAMPLE calls and prints their median, as a latency     *)
(* (-l) or as a bandwidth.  inf-sim-bw_mem_wr writes until a signal ends   *)
(* it; it reports each call (-r), or logs it (-f) until the log is full.   *)
(*                                                                         *)
(* Addresses are offsets in the buffer, and wrap at SIZE_MOD as a size_t   *)
(* does; head is an int, up to INT_MAX.  A write takes a unit of time, and *)
(* a quotient is left as it is.                                            *)
(***************************************************************************)
EXTENDS Integers, FiniteSets, Sequences

CONSTANTS
  CHUNK_SIZE,    \* 32 in the code
  NUM_SAMPLE,    \* 20
  INT_MAX, SIZE_MOD,   \* 2^31 - 1 and 2^64
  Sizes, Strides, Iterations,   \* the arguments, -r
  DefaultLogSize, LogSizes,     \* buf_log_size, and what -e may make of it
  MaxCalls       \* bound: calls of wr() by inf-sim-bw_mem_wr

ASSUME WrAssumption ==
  /\ {CHUNK_SIZE, NUM_SAMPLE, INT_MAX, DefaultLogSize} \subseteq Nat \ {0}
  /\ CHUNK_SIZE > 1
  /\ SIZE_MOD \in Nat /\ SIZE_MOD > 2 * INT_MAX
  /\ Sizes \cup Strides \subseteq 0 .. SIZE_MOD - 1
  /\ Iterations \cup LogSizes \cup {MaxCalls} \subseteq Nat

VARIABLES
  program, pc, opts,
  nbytes, stride, iterations,
  p, head, outer_cnt,
  n,             \* how many writes of the chunk are done
  res,           \* of wr(), a time over a number
  results,       \* times or buf_log: what is stored
  result_idx,    \* or the index of main()'s loop in sim-bw_mem_wr
  buf_log_size, buf_full_flag,
  log,           \* the file of -f: the warning and the lines
  hits,          \* history: writes to each byte in this pass over the buffer,
  writes,        \* in this call of wr(), if it is timed,
  outside,       \* and whether one was outside of the buffer
  calls          \* history: calls of wr()

args == <<program, opts, nbytes, stride, iterations, buf_log_size>>
loop == <<p, head, outer_cnt, n>>
logging == <<res, results, result_idx, buf_full_flag, log>>
history == <<hits, writes, outside, calls>>
vars == <<pc, args, loop, logging, history>>

Bytes == 0 .. nbytes - 1

NoHits == [a \in Bytes |-> 0]

NoResult == [time |-> 0, over |-> 1]

(* wr() takes the time in sim-bw_mem_wr, and otherwise with -r. *)
Timed == program = "sim" \/ "r" \in opts

(* What an int holds when x is converted to it. *)
ToInt(x) ==
  LET half == INT_MAX + 1 IN ((x + half) % (2 * half)) - half

Options == [sim |-> {"l"}, inf |-> {"r", "f", "e"}]

Init ==
  /\ pc = "args"
  /\ program \in {"sim", "inf"} /\ opts \in SUBSET Options[program]
  /\ nbytes \in Sizes /\ stride \in Strides /\ iterations \in Iterations
  /\ buf_log_size \in IF "e" \in opts THEN LogSizes ELSE {DefaultLogSize}
  /\ p = 0 /\ head = 0 /\ outer_cnt = 0 /\ n = 0
  /\ res = NoResult /\ results = <<>> /\ result_idx = 0
  /\ buf_full_flag = FALSE /\ log = [warn |-> FALSE, lines |-> <<>>]
  /\ hits = NoHits /\ writes = 0 /\ outside = FALSE
  /\ calls = 0

-----------------------------------------------------------------------------
(* main() *)

WrongUse == ("f" \in opts /\ "r" \notin opts) \/ ("e" \in opts /\ "f" \notin opts)

(* The length of a chunk, a size_t: a huge stride passes for a small one.  *)
ChunkBytes == (stride * CHUNK_SIZE) % SIZE_MOD

TooLarge == ChunkBytes > nbytes

(* The buffers, the cgroup or the file of the log may fail, too. *)
CheckArgs ==
  /\ pc = "args"
  /\ pc' \in IF WrongUse \/ TooLarge \/ stride < 1 THEN {"exit"} ELSE {"call", "exit"}
  /\ UNCHANGED <<args, loop, logging, history>>

(* Without -r the call never returns. *)
Call ==
  /\ pc = "call" /\ (program = "inf" => calls < MaxCalls)
  /\ pc' = "pass"
  /\ calls' = calls + 1
  /\ outer_cnt' = iterations /\ head' = 0 /\ writes' = 0 /\ res' = NoResult
  /\ UNCHANGED <<args, p, n, results, result_idx, buf_full_flag, log, hits, outside>>

-----------------------------------------------------------------------------
(* init_loop() and wr() *)

(* Mutant: the last chunk need not be whole. *)
remainder_boundary_End == nbytes - 1

remainder_boundary == nbytes - ChunkBytes

lastone == (nbytes - stride) % SIZE_MOD

stride_cnt == nbytes \div stride

chunk_count == stride_cnt \div CHUNK_SIZE

rest_cnt == stride_cnt % CHUNK_SIZE

StartPass ==
  /\ pc = "pass"
  /\ IF Timed THEN outer_cnt > 0 /\ outer_cnt' = outer_cnt - 1 ELSE UNCHANGED outer_cnt
  /\ p' = 0 /\ hits' = NoHits
  /\ pc' = "chunk"
  /\ UNCHANGED <<args, head, n, logging, writes, outside, calls>>

(* p[i] = 1 *)
WriteAt(a) ==
  /\ writes' = IF Timed THEN writes + 1 ELSE writes
  /\ IF a \in Bytes
     THEN hits' = [hits EXCEPT ![a] = @ + 1] /\ UNCHANGED outside
     ELSE outside' = TRUE /\ UNCHANGED hits

(* One of the CHUNK_SIZE macros ONE of a chunk: all but the first advance. *)
ChunkWrite ==
  /\ pc = "chunk" /\ p <= remainder_boundary /\ n < CHUNK_SIZE
  /\ head' = IF n = 0 THEN head ELSE ToInt(head + stride)
  /\ WriteAt(p + head')
  /\ n' = n + 1
  /\ UNCHANGED <<pc, args, p, outer_cnt, logging, calls>>

(* Mutant: head is not reset. *)
NextChunk_KeepsHead ==
  /\ pc = "chunk" /\ n = CHUNK_SIZE
  /\ p' = p + ChunkBytes
  /\ n' = 0
  /\ UNCHANGED <<pc, args, head, outer_cnt, logging, history>>

(* A chunk without a length is written for ever; here it is written once.  *)
Endless == pc = "chunk" /\ n = CHUNK_SIZE /\ ChunkBytes = 0

NextChunk ==
  /\ pc = "chunk" /\ n = CHUNK_SIZE /\ ~Endless
  /\ p' = p + ChunkBytes
  /\ head' = 0 /\ n' = 0
  /\ UNCHANGED <<pc, args, outer_cnt, logging, history>>

ChunksDone ==
  /\ pc = "chunk" /\ n = 0 /\ p > remainder_boundary
  /\ pc' = "rest" /\ head' = 0
  /\ UNCHANGED <<args, p, outer_cnt, n, logging, history>>

RestWrite ==
  /\ pc = "rest" /\ p <= lastone
  /\ WriteAt(p + head)
  /\ p' = (p + stride) % SIZE_MOD
  /\ UNCHANGED <<pc, args, head, outer_cnt, n, logging, calls>>

PassDone ==
  /\ pc = "rest" /\ p > lastone
  /\ pc' = "pass"
  /\ UNCHANGED <<args, loop, logging, history>>

(* A write outside of the buffer may end the program. *)
Crash ==
  /\ pc \in {"chunk", "rest"} /\ outside
  /\ pc' = "crash"
  /\ UNCHANGED <<args, loop, logging, history>>

Divisor == (chunk_count * CHUNK_SIZE + rest_cnt) * iterations

(* With -r 0 there is no pass, and the result is 0 over 0. *)
Report ==
  /\ pc = "pass" /\ outer_cnt = 0 /\ Timed
  /\ res' = [time |-> writes,
             over |-> IF program = "sim" /\ "l" \notin opts THEN 1 ELSE Divisor]
  /\ pc' = IF program = "sim" THEN "sample" ELSE IF "f" \in opts THEN "store" ELSE "call"
  /\ UNCHANGED <<args, loop, results, result_idx, buf_full_flag, log, history>>

-----------------------------------------------------------------------------
(* What becomes of the result *)

(* With -e 0 the first is stored beyond the end of an empty buf_log. *)
Stored ==
  [m \in DOMAIN results \cup {result_idx} |-> IF m = result_idx THEN res ELSE results[m]]

(* main() of sim-bw_mem_wr: the next of the times, or their median, which  *)
(* is one of them or lies between two.                                     *)
Sample ==
  /\ pc = "sample"
  /\ results' = Stored /\ result_idx' = result_idx + 1
  /\ pc' = IF result_idx' < NUM_SAMPLE THEN "call" ELSE "end"
  /\ UNCHANGED <<args, loop, res, buf_full_flag, log, history>>

(* The end of wr(), with -f. *)
Store ==
  /\ pc = "store"
  /\ results' = Stored
  /\ pc' = "count"
  /\ UNCHANGED <<args, loop, res, result_idx, buf_full_flag, log, history>>

Count ==
  /\ pc = "count"
  /\ result_idx' = result_idx + 1
  /\ pc' = "stored"
  /\ UNCHANGED <<args, loop, res, results, buf_full_flag, log, history>>

(* Mutant: the limit is found one element late. *)
CheckFull_Late ==
  /\ pc = "stored"
  /\ IF result_idx > buf_log_size
     THEN buf_full_flag' = TRUE /\ pc' = "full"
     ELSE pc' = "call" /\ UNCHANGED buf_full_flag
  /\ UNCHANGED <<args, loop, res, results, result_idx, log, history>>

CheckFull ==
  /\ pc = "stored"
  /\ IF result_idx >= buf_log_size
     THEN buf_full_flag' = TRUE /\ pc' = "full"
     ELSE pc' = "call" /\ UNCHANGED buf_full_flag
  /\ UNCHANGED <<args, loop, res, results, result_idx, log, history>>

(* signal_handler(), by SIGINT or SIGTERM at any moment, or for a full log. *)
(* It is one step here; InfLatLog has the same code interrupted.           *)
SignalHandler ==
  /\ program = "inf" /\ pc \notin {"args", "exit", "crash", "end"}
  /\ \/ /\ "f" \in opts
        /\ log' = [warn |-> buf_full_flag,
                   lines |-> [m \in 1 .. result_idx |-> results[m - 1]]]
        /\ pc' = "end"
     \/ "f" \in opts /\ pc' = "exit" /\ UNCHANGED log
     \/ "f" \notin opts /\ pc' = "end" /\ UNCHANGED log
  /\ UNCHANGED <<args, loop, res, results, result_idx, buf_full_flag, history>>

Terminated ==
  /\ \/ pc \in {"exit", "crash", "end"}
     \/ pc = "call" /\ program = "inf" /\ calls = MaxCalls
     \/ Endless
  /\ UNCHANGED vars

wr ==
  \/ StartPass \/ ChunkWrite \/ NextChunk \/ ChunksDone \/ RestWrite
  \/ PassDone \/ Report \/ Store \/ Count \/ CheckFull

Next == CheckArgs \/ Call \/ wr \/ Crash \/ Sample \/ SignalHandler \/ Terminated

Spec == Init /\ [][Next]_vars

-----------------------------------------------------------------------------
(* Properties *)

(* The offset of a chunk's last write is a value of the int head.  The     *)
(* checks of main() let larger strides pass, and their writes do go astray. *)
HeadFits == stride * (CHUNK_SIZE - 1) <= INT_MAX

(* Nothing is written outside of the buffer, wherever the chunks and the   *)
(* rest meet (init_loop's remainder_boundary and lastone), as long as head *)
(* does not overflow.                                                      *)
WritesStayInside == HeadFits => ~outside

(* The length of a chunk does not wrap; HeadFits implies it.  main() lets  *)
(* some strides pass with which it does, and they are not the strides that *)
(* are written.                                                            *)
StrideFits == stride * CHUNK_SIZE < SIZE_MOD

(* The bytes a pass is to write: the first of every whole stride. *)
FirstBytes == {a \in Bytes : a % stride = 0 /\ a + stride <= nbytes}

(* A pass over the buffer writes a byte in every whole stride, once, and   *)
(* no other: the chunks and the rest neither overlap nor leave a gap.      *)
EachStrideIsWrittenOnce ==
  HeadFits /\ pc = "rest" /\ p > lastone =>
    \A a \in Bytes : hits[a] = IF a \in FirstBytes THEN 1 ELSE 0

(* The result of a call that was not cut short. *)
WholeResult ==
  LET count == Cardinality(FirstBytes) * iterations
  IN [time |-> count, over |-> IF program = "sim" /\ "l" \notin opts THEN 1 ELSE count]

(* What is printed or logged comes from whole calls of wr(), divided by    *)
(* the number of writes they made (a latency) or by nothing (a bandwidth): *)
(* sim-bw_mem_wr has NUM_SAMPLE such times.  The log, at whatever moment   *)
(* of a call or of its storing the signal comes, has a line for every call *)
(* but the last, which it may have or not (a call is not cut in), no more  *)
(* lines than there is room for, and a warning only when the room is full. *)
ResultsAreOfWholeCalls ==
  StrideFits /\ pc = "end" =>
    /\ program = "sim" =>
         results = [m \in 0 .. NUM_SAMPLE - 1 |-> WholeResult]
    /\ "f" \in opts =>
         LET room == IF buf_log_size = 0 THEN 1 ELSE buf_log_size
         IN /\ \A m \in 1 .. Len(log.lines) : log.lines[m] = WholeResult
            /\ Len(log.lines) \in {calls - 1, calls} /\ Len(log.lines) <= room
            /\ log.warn => Len(log.lines) = room
=============================================================================
