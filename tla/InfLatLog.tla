----------------------------- MODULE InfLatLog -----------------------------
(***************************************************************************)
(* inf-sim-lat_mem_rd run with -r and -f: the log file's life from the     *)
(* start of main() to the end of the process, loads() as far as it decides *)
(* whether anything is measured and uses the heap, the reporting thread    *)
(* that fills buf_log, and signal_handler(), which SIGINT, SIGTERM or a    *)
(* direct call when the buffer is full may start on any thread, at any     *)
(* point and on top of one another.                                        *)
(*                                                                         *)
(* Without -m the process is one thread: Threads = {Main}, Reporter = Main *)
(* (measure_stride_acesses).  With -m the main thread sits in              *)
(* pthread_join and Reporter is the first worker                           *)
(* (measure_stride_acesses_mt).                                            *)
(***************************************************************************)
EXTENDS Stdio

CONSTANTS
  Threads,      \* the process's threads
  Main,         \* the one that runs main()
  Reporter,     \* the one that measures and reports
  BufLogSize,   \* buf_log_size (-e)
  MaxSignals,   \* bound: how many signals are sent to the process
  MaxMeasured   \* bound: how many measurements a run is followed for

ASSUME ThreadsAssumption ==
  /\ Main \in Threads /\ Reporter \in Threads
  /\ Reporter = Main <=> Threads = {Main}
ASSUME SizeAssumption ==
  BufLogSize \in Nat /\ MaxSignals \in Nat /\ MaxMeasured \in Nat

VARIABLES
  up,            \* where main() is
  alive,         \* the threads that were created
  rpc,           \* where the reporting loop is
  measured,      \* history: the number of measurements made
  buf_log,
  result_idx,
  buf_full_flag,
  hidden,        \* slots of buf_log other CPUs do not see yet
  stack,         \* the signal_handler frames of each thread, the last one on top
  log_fp,
  pending,       \* signals sent and not delivered
  sent,
  status         \* running, or how the process ended

procVars == <<up, alive, rpc, measured, buf_log, result_idx, buf_full_flag, hidden>>
sigVars == <<pending, sent>>
vars == <<stdioVars, procVars, stack, log_fp, sigVars, status>>

Signals == {"INT", "TERM"}

Slots == 0 .. BufLogSize - 1

Running == status = "running"

(* A thread runs its own code only while no handler is on its stack. *)
Free(t) == Running /\ stack[t] = <<>>

Top(t) == stack[t][Len(stack[t])]

At(t, pc) == Running /\ stack[t] # <<>> /\ Top(t).pc = pc

SetTop(t, frame) == stack' = [stack EXCEPT ![t][Len(stack[t])] = frame]

Goto(t, pc) == SetTop(t, [Top(t) EXCEPT !.pc = pc])

(* fopen and fclose use the heap; a frame at one of these points is inside *)
(* malloc or free.  So is main() in loads().                               *)
MainInHeap == up \in {"malloc", "calloc"}

HeapUser(t) ==
  \/ t = Main /\ MainInHeap
  \/ \E i \in 1 .. Len(stack[t]) : stack[t][i].pc \in {"alloc", "free"}

(* The first line takes the stream's buffer from the heap. *)
InHeap(frame) ==
  frame.pc \in {"alloc", IF buf_full_flag THEN "warn" ELSE "bufsize", "free"}

(* exit(code): every stream is flushed, the newest first. *)
GotoExit(t, code) ==
  SetTop(t, [Top(t) EXCEPT !.pc = "exit", !.idx = Len(streams'), !.code = code])

Push(t, sig) ==
  stack' = [stack EXCEPT ![t] = Append(@,
              [sig |-> sig, pc |-> "open", idx |-> 0, code |-> 0,
               from |-> result_idx])]

Init ==
  /\ StdioInit(<<Old>>)
  /\ up = "probe" /\ alive = {Main}
  /\ rpc = "store"
  /\ measured = 0
  /\ buf_log = [i \in Slots |-> 0]
  /\ result_idx = 0
  /\ buf_full_flag = FALSE
  /\ hidden = {}
  /\ stack = [t \in Threads |-> <<>>]
  /\ log_fp = NULL
  /\ pending = {}
  /\ sent = 0
  /\ status = "running"

-----------------------------------------------------------------------------
(* main(): the log file and the registration of the handlers *)

Startup(from) == Free(Main) /\ up = from

Probe ==
  /\ Startup("probe")
  /\ up' = IF present THEN "remove" ELSE "create"
  /\ UNCHANGED <<stdioVars, alive, rpc, measured, buf_log, result_idx, buf_full_flag,
                 hidden, stack, log_fp, sigVars, status>>

(* The stream stays open: only the handler's fopen replaces log_fp. *)
Create ==
  /\ Startup("create")
  /\ \/ FOpenW /\ log_fp' = Len(streams') /\ up' = "sigint" /\ UNCHANGED status
     \/ UNCHANGED <<stdioVars, up>> /\ log_fp' = NULL /\ status' = "exit1"
  /\ UNCHANGED <<alive, rpc, measured, buf_log, result_idx, buf_full_flag, hidden,
                 stack, sigVars>>

(* Mutant: the old log stays. *)
RemoveOld_Kept ==
  /\ Startup("remove") /\ up' = "sigint"
  /\ UNCHANGED <<stdioVars, alive, rpc, measured, buf_log, result_idx, buf_full_flag,
                 hidden, stack, log_fp, sigVars, status>>

RemoveOld ==
  /\ Startup("remove")
  /\ \/ Remove /\ up' = "sigint" /\ UNCHANGED status
     \/ UNCHANGED <<stdioVars, up>> /\ status' = "exit1"
  /\ UNCHANGED <<alive, rpc, measured, buf_log, result_idx, buf_full_flag, hidden,
                 stack, log_fp, sigVars>>

RegisterInt ==
  /\ Startup("sigint")
  /\ up' = "sigterm"
  /\ UNCHANGED <<stdioVars, alive, rpc, measured, buf_log, result_idx, buf_full_flag,
                 hidden, stack, log_fp, sigVars, status>>

RegisterTerm ==
  /\ Startup("sigterm")
  /\ up' = "loads"
  /\ UNCHANGED <<stdioVars, alive, rpc, measured, buf_log, result_idx, buf_full_flag,
                 hidden, stack, log_fp, sigVars, status>>

(* The signals signal() has installed the handler for. *)
Handled == CASE up \in {"probe", "create", "remove", "sigint"} -> {}
             [] up = "sigterm" -> {"INT"}
             [] OTHER -> Signals

-----------------------------------------------------------------------------
(* loads(): the heap, the threads and the ways to measure nothing.  What   *)
(* it does with the memory is StrideRing's.                                *)

loopVars == <<rpc, measured, buf_log, result_idx, buf_full_flag, hidden>>

(* A stride beyond the buffer: main() goes on to while (1) pause(). *)
SkipLoads ==
  /\ Startup("loads")
  /\ up' = "pause"
  /\ UNCHANGED <<stdioVars, alive, loopVars, stack, log_fp, sigVars, status>>

(* The calls of malloc by permutation() and base_initialize(). *)
CallMalloc ==
  /\ Startup("loads")
  /\ up' = "malloc"
  /\ UNCHANGED <<stdioVars, alive, loopVars, stack, log_fp, sigVars, status>>

(* Without the page table loads() returns; without the buffer, or with too *)
(* many threads for it, exit(1) finds no line in any stream.               *)
BaseInitialize ==
  /\ Startup("malloc")
  /\ \/ up' = (IF Reporter = Main THEN "run" ELSE "spawn") /\ UNCHANGED status
     \/ up' = "pause" /\ UNCHANGED status
     \/ status' = "exit1" /\ UNCHANGED up
  /\ UNCHANGED <<stdioVars, alive, loopVars, stack, log_fp, sigVars>>

(* pthread_create() takes memory for the thread, and then starts it: the   *)
(* reporting one first.  When all run main() waits in pthread_join().      *)
CallPthreadCreate ==
  /\ Startup("spawn")
  /\ \A u \in Threads \ {Main} : ~HeapUser(u)
  /\ up' = "calloc"
  /\ UNCHANGED <<stdioVars, alive, loopVars, stack, log_fp, sigVars, status>>

PthreadCreate ==
  /\ Startup("calloc")
  /\ \E t \in Threads \ alive :
        /\ Reporter \in alive \cup {t}
        /\ alive' = alive \cup {t}
  /\ up' = IF alive' = Threads THEN "run" ELSE "spawn"
  /\ UNCHANGED <<stdioVars, loopVars, stack, log_fp, sigVars, status>>

-----------------------------------------------------------------------------
(* The reporting loop *)

(* The ring is linked and the thread that reports is in its loop. *)
Measures == Reporter \in alive /\ (Reporter = Main => up = "run")

Reporting(at) == Free(Reporter) /\ Measures /\ rpc = at

(* buf_log[result_idx] = res.  A store beyond the end is undefined. *)
StoreResult ==
  /\ Reporting("store")
  /\ measured < MaxMeasured
  /\ measured' = measured + 1
  /\ rpc' = "inc"
  /\ IF result_idx \in Slots
     THEN /\ buf_log' = [buf_log EXCEPT ![result_idx] = measured + 1]
          /\ hidden' = hidden \cup {i \in {result_idx} : Threads # {Reporter}}
          /\ UNCHANGED stdioVars
     ELSE Misuse /\ UNCHANGED <<buf_log, hidden>>
  /\ UNCHANGED <<up, alive, result_idx, buf_full_flag, stack, log_fp, sigVars, status>>

(* Mutant: a slot is left out. *)
IncResultIdx_Twice ==
  /\ Reporting("inc")
  /\ result_idx' = result_idx + 2
  /\ rpc' = "check"
  /\ UNCHANGED <<stdioVars, up, alive, measured, buf_log, buf_full_flag, hidden, stack,
                 log_fp, sigVars, status>>

IncResultIdx ==
  /\ Reporting("inc")
  /\ result_idx' = result_idx + 1
  /\ rpc' = "check"
  /\ UNCHANGED <<stdioVars, up, alive, measured, buf_log, buf_full_flag, hidden, stack,
                 log_fp, sigVars, status>>

(* Mutant: the check is one slot late. *)
Full_OffByOne == result_idx > BufLogSize

Full == result_idx >= BufLogSize

CheckFull ==
  /\ Reporting("check")
  /\ IF Full
     THEN rpc' = "full" /\ buf_full_flag' = TRUE
     ELSE rpc' = "store" /\ UNCHANGED buf_full_flag
  /\ UNCHANGED <<stdioVars, up, alive, measured, buf_log, result_idx, hidden, stack,
                 log_fp, sigVars, status>>

(* signal_handler(15): a plain call, it masks nothing. *)
CallHandler ==
  /\ Reporting("full")
  /\ Push(Reporter, "call")
  /\ rpc' = "store"
  /\ UNCHANGED <<stdioVars, up, alive, measured, buf_log, result_idx, buf_full_flag,
                 hidden, log_fp, sigVars, status>>

(* A store to buf_log reaches the other CPUs, in no particular order. *)
Drain ==
  /\ Running
  /\ \E i \in hidden : hidden' = hidden \ {i}
  /\ UNCHANGED <<stdioVars, up, alive, rpc, measured, buf_log, result_idx,
                 buf_full_flag, stack, log_fp, sigVars, status>>

-----------------------------------------------------------------------------
(* signal_handler() *)

(* Another thread that is inside the heap makes a call wait. *)
CallFopen(t) ==
  /\ At(t, "open")
  /\ \A u \in Threads \ {t} : ~HeapUser(u)
  /\ Goto(t, "alloc")
  /\ UNCHANGED <<stdioVars, procVars, log_fp, sigVars, status>>

(* When the frame, or main(), that a handler interrupted is inside, its    *)
(* own use of the heap is undefined: the allocator's lock may never be     *)
(* released, or the call goes through.                                     *)
Hang(t) ==
  /\ Running /\ stack[t] # <<>> /\ InHeap(Top(t))
  /\ \/ t = Main /\ MainInHeap
     \/ \E i \in 1 .. Len(stack[t]) - 1 : InHeap(stack[t][i])
  /\ Goto(t, "hang")
  /\ UNCHANGED <<stdioVars, procVars, log_fp, sigVars, status>>

(* log_fp = fopen(log_file_path, "w"), or the error path. *)
OpenLog(t) ==
  /\ At(t, "alloc")
  /\ \/ FOpenW /\ log_fp' = Len(streams') /\ Goto(t, "warn")
     \/ UNCHANGED stdioVars /\ log_fp' = NULL /\ GotoExit(t, 1)
  /\ UNCHANGED <<procVars, sigVars, status>>

PrintLine(t, at, line, to) ==
  /\ At(t, at)
  /\ FPrintf(log_fp, line)
  /\ Goto(t, to)
  /\ UNCHANGED <<procVars, log_fp, sigVars, status>>

(* Mutant: the warning does not depend on the flag. *)
PrintWarn_Always(t) == PrintLine(t, "warn", Warn, "bufsize")

PrintWarn(t) ==
  \/ buf_full_flag /\ PrintLine(t, "warn", Warn, "bufsize")
  \/ /\ ~buf_full_flag /\ At(t, "warn") /\ Goto(t, "bufsize")
     /\ UNCHANGED <<stdioVars, procVars, log_fp, sigVars, status>>

PrintBufSize(t) == PrintLine(t, "bufsize", BufSize, "title")

PrintTitle(t) == PrintLine(t, "title", Title, "rows")

(* Mutant: the rows start at the second slot. *)
Read_OffByOne(t, i) ==
  IF i + 1 \in Slots /\ (t = Reporter \/ i \notin hidden) THEN buf_log[i + 1] ELSE 0

(* buf_log[i] as thread t sees it. *)
Read(t, i) ==
  IF i \in Slots /\ (t = Reporter \/ i \notin hidden) THEN buf_log[i] ELSE 0

PrintRow(t) ==
  /\ At(t, "rows")
  /\ Top(t).idx < result_idx
  /\ FPrintf(log_fp, Row(Read(t, Top(t).idx)))
  /\ SetTop(t, [Top(t) EXCEPT !.idx = @ + 1])
  /\ UNCHANGED <<procVars, log_fp, sigVars, status>>

RowsDone(t) ==
  /\ At(t, "rows")
  /\ Top(t).idx >= result_idx
  /\ Goto(t, "close")
  /\ UNCHANGED <<stdioVars, procVars, log_fp, sigVars, status>>

(* fclose(log_fp): the stream is written and closed, then freed. *)
CallFclose(t) ==
  /\ At(t, "close")
  /\ \A u \in Threads \ {t} : ~HeapUser(u)
  /\ FClose(log_fp)
  /\ Goto(t, "free")
  /\ UNCHANGED <<procVars, log_fp, sigVars, status>>

(* Mutant: without exit(0) the handler returns. *)
CloseLog_Returns(t) ==
  /\ At(t, "free")
  /\ stack' = [stack EXCEPT ![t] = SubSeq(@, 1, Len(@) - 1)]
  /\ UNCHANGED <<stdioVars, procVars, log_fp, sigVars, status>>

CloseLog(t) ==
  /\ At(t, "free")
  /\ UNCHANGED stdioVars
  /\ GotoExit(t, 0)
  /\ UNCHANGED <<procVars, log_fp, sigVars, status>>

(* exit(): flush one stream, or end the process when all are flushed. *)
Exit(t) ==
  /\ At(t, "exit")
  /\ IF Top(t).idx > 0
     THEN /\ ExitFlush(Top(t).idx)
          /\ SetTop(t, [Top(t) EXCEPT !.idx = @ - 1])
          /\ UNCHANGED status
     ELSE /\ status' = (IF Top(t).code = 0 THEN "exit0" ELSE "exit1")
          /\ UNCHANGED <<stdioVars, stack>>
  /\ UNCHANGED <<procVars, log_fp, sigVars>>

(* What is undefined may also end the process. *)
Crash ==
  /\ Running
  /\ misused \/ \E t \in Threads : At(t, "hang")
  /\ status' = "crashed"
  /\ UNCHANGED <<stdioVars, procVars, stack, log_fp, sigVars>>

Handler(t) ==
  \/ CallFopen(t) \/ OpenLog(t)
  \/ PrintWarn(t) \/ PrintBufSize(t) \/ PrintTitle(t)
  \/ PrintRow(t) \/ RowsDone(t)
  \/ CallFclose(t) \/ CloseLog(t)
  \/ Exit(t) \/ Hang(t)

-----------------------------------------------------------------------------
(* Signals *)

(* Standard signals do not queue: a second one of a pending kind is lost. *)
Send(sig) ==
  /\ Running
  /\ sent < MaxSignals
  /\ pending' = pending \cup {sig}
  /\ sent' = sent + 1
  /\ UNCHANGED <<stdioVars, procVars, stack, log_fp, status>>

(* signal() masks the signal it handles, in the thread that handles it. *)
Blocked(t) == {stack[t][i].sig : i \in 1 .. Len(stack[t])}

Deliver(t, sig) ==
  /\ Running
  /\ sig \in pending \cap Handled
  /\ t \in alive
  /\ sig \notin Blocked(t)
  /\ Push(t, sig)
  /\ pending' = pending \ {sig}
  /\ UNCHANGED <<stdioVars, procVars, log_fp, sent, status>>

(* The default action of a signal that has no handler yet. *)
Kill ==
  /\ Running
  /\ pending \ Handled # {}
  /\ status' = "killed"
  /\ UNCHANGED <<stdioVars, procVars, stack, log_fp, sigVars>>

(* The end, or while (1) pause(). *)
Terminated == (~Running \/ up = "pause") /\ UNCHANGED vars

-----------------------------------------------------------------------------
Startups == Probe \/ Create \/ RemoveOld \/ RegisterInt \/ RegisterTerm

Loads ==
  SkipLoads \/ CallMalloc \/ BaseInitialize \/ CallPthreadCreate \/ PthreadCreate

Report == StoreResult \/ IncResultIdx \/ CheckFull \/ CallHandler

Next ==
  \/ Startups \/ Loads \/ Report \/ Drain \/ Crash \/ Kill \/ Terminated
  \/ \E t \in Threads : Handler(t)
  \/ \E sig \in Signals : Send(sig)
  \/ \E t \in Threads, sig \in Signals : Deliver(t, sig)

Spec == Init /\ [][Next]_vars

(* The scheduler runs every thread that can run and the kernel delivers    *)
(* what is pending to a thread that does not block it; nothing makes       *)
(* anybody send a signal.                                                  *)
Fairness ==
  /\ WF_vars(Startups)
  /\ WF_vars(Loads)
  /\ WF_vars(Report)
  /\ WF_vars(Kill)
  /\ \A t \in Threads : WF_vars(Handler(t))
  /\ \A sig \in Signals : WF_vars(\E t \in Threads : Deliver(t, sig))

FairSpec == Spec /\ Fairness

-----------------------------------------------------------------------------
(* Properties *)

FramePcs == {"open", "alloc", "warn", "bufsize", "title", "rows", "close",
             "free", "exit", "hang"}

Frames == [sig : Signals \cup {"call"}, pc : FramePcs, idx : Nat,
           code : {0, 1}, from : Nat]

(* The type invariant of the log program and of the library under it. *)
TypeOK ==
  /\ StdioTypeOK
  /\ up \in {"probe", "create", "remove", "sigint", "sigterm", "loads", "malloc",
             "spawn", "calloc", "run", "pause"}
  /\ alive \subseteq Threads
  /\ rpc \in {"store", "inc", "check", "full"}
  /\ measured \in Nat /\ result_idx \in Nat
  /\ buf_log \in [Slots -> Nat]
  /\ buf_full_flag \in BOOLEAN
  /\ hidden \subseteq Slots
  /\ stack \in [Threads -> Seq(Frames)]
  /\ log_fp \in Nat
  /\ pending \subseteq Signals /\ sent \in Nat
  /\ status \in {"running", "exit0", "exit1", "killed", "crashed"}

CompleteLog == Heading(buf_full_flag) \o Rows(result_idx)

(* One thread: however the handlers nest, when the program reports success *)
(* the file holds the warning exactly if the buffer was full, the header   *)
(* and every measurement recorded, in order, and nothing else              *)
(* (signal_handler and the flush exit() makes of interrupted streams).     *)
LogIsComplete == status = "exit0" => present /\ file = CompleteLog

(* No handler failed to open the log. *)
NoneFailed ==
  \A t \in Threads : \A i \in 1 .. Len(stack[t]) : stack[t][i].code = 0

(* One thread: whatever point the process is killed or crashes at, the new *)
(* file is a beginning of the right log, never a line of the old log, a    *)
(* hole, or lines of two handlers mixed.  Only a handler that failed to    *)
(* open the log, on top of one that had truncated it, may leave a hole.    *)
FileIsPrefix ==
  up \notin {"probe", "create", "remove"} /\ NoneFailed =>
    Begins(file, CompleteLog)

(* A result is stored inside buf_log and no closed or NULL stream is used  *)
(* (the loop's check of buf_log_size, the handler's of fopen's result).    *)
NoMisuse == ~misused

(* One thread, the inductive form of the three properties above.  First    *)
(* the records: nothing is measured beyond the buffer, and the flag says   *)
(* it is full.                                                             *)
RecordsInv ==
  /\ ~misused
  /\ measured = result_idx + (IF rpc = "inc" THEN 1 ELSE 0)
  /\ measured <= BufLogSize
  /\ \A i \in Slots : i < measured => buf_log[i] = i + 1
  /\ rpc = "store" /\ stack[Main] = <<>> => result_idx < BufLogSize
  /\ rpc = "full" => buf_full_flag
  /\ buf_full_flag => result_idx = BufLogSize

(* How many lines of the log a handler frame has printed. *)
Printed(frame) ==
  LET heading == Len(Heading(buf_full_flag))
  IN IF frame.pc = "warn" THEN 0
     ELSE IF frame.pc = "bufsize" THEN heading - 2
     ELSE IF frame.pc = "title" THEN heading - 1
     ELSE IF frame.pc = "rows" THEN heading + frame.idx
     ELSE heading + result_idx

(* The running handler writes at the end of a file that is the beginning   *)
(* of the log, through the last stream opened; once it has closed it the   *)
(* file is the log.                                                        *)
TopInv ==
  stack[Main] # <<>> =>
    LET top == Top(Main) IN
    /\ up \notin {"probe", "create", "remove", "sigint"}
    /\ top.pc # "exit" => top.code = 0
    /\ top.pc \in {"open", "alloc", "warn", "bufsize", "title"} => top.idx = 0
    /\ top.pc = "rows" => top.idx <= result_idx
    /\ top.pc \in {"warn", "bufsize", "title", "rows", "close"} =>
         /\ present /\ log_fp = Len(streams) /\ IsOpen(log_fp)
         /\ Begins(file, CompleteLog)
         /\ Len(file) = streams[log_fp].off
         /\ Len(file) + Len(streams[log_fp].buf) = Printed(top)
    /\ top.pc = "free" \/ (top.pc = "exit" /\ top.code = 0) =>
         present /\ file = CompleteLog

(* Whatever an interrupted handler still buffers is a piece of the log, so *)
(* that the flush of exit() writes what is already there.                  *)
StreamsInv ==
  /\ \A k \in 1 .. Len(streams) :
        Piece(streams[k].off, streams[k].buf, CompleteLog)
  /\ stack[Main] = <<>> =>
       /\ \A k \in 1 .. Len(streams) : streams[k].off = 0 /\ streams[k].buf = <<>>
       /\ up \notin {"probe", "create", "remove"} => file = <<>>
  /\ up \in {"probe", "create", "remove"} => streams = <<>>

OneThreadInv ==
  RecordsInv /\ TopInv /\ StreamsInv /\ FileIsPrefix /\ LogIsComplete

(* The only handler frame of the process, if there is one only. *)
Sole(t) == Len(stack[t]) = 1 /\ \A u \in Threads \ {t} : stack[u] = <<>>

(* With threads, when one handler alone ran and reported success, the file *)
(* holds a header and consecutive rows from the first one, all that were   *)
(* recorded when the signal arrived among them; a row is its measurement,  *)
(* or not yet a value if the handler's CPU had not seen the store.         *)
SoleHandlerLog ==
  status = "exit0" => \A t \in Threads : Sole(t) =>
    \E full \in {FALSE, buf_full_flag}, n \in stack[t][1].from .. result_idx :
      /\ present
      /\ Len(file) = Len(Heading(full)) + n
      /\ \A i \in 1 .. Len(file) :
            IF i <= Len(Heading(full)) THEN file[i] = Heading(full)[i]
            ELSE LET k == i - Len(Heading(full))
                 IN file[i] = Row(k) \/ (t # Reporter /\ file[i] = Row(0))

(* A recorded measurement is never overwritten: every slot below           *)
(* result_idx keeps its value, whoever else runs (the reporting loop).     *)
RecordsAreKept ==
  [][/\ result_idx' >= result_idx
     /\ \A i \in Slots : i < result_idx => buf_log'[i] = i + 1]_vars

(* When a handler has started, the process ends, unless it interrupted     *)
(* another handler, or loads(), inside the heap.                           *)
HandlerEnds ==
  (\E t \in Threads : stack[t] # <<>>)
    ~> (~Running \/ \E t \in Threads : At(t, "hang"))

(* A program that measures comes to its end by itself: the buffer fills up *)
(* and the log is written (README.md:70), unless a handler hangs.  One     *)
(* whose loads() returned measures nothing and sleeps until a signal comes *)
(* (main's pause()).                                                       *)
RunEnds == Measures ~> (~Running \/ \E t \in Threads : At(t, "hang"))

(* One thread: the program keeps the promise of RunLog, whatever signals   *)
(* come, the log appearing when the process ends with success.             *)
Promise == INSTANCE RunLog WITH
  Limit <- BufLogSize,
  kept <- result_idx,
  outcome <- (CASE status = "running" -> "running"
                [] status = "exit0" -> "done"
                [] OTHER -> "failed"),
  log <- (IF status = "exit0" THEN file ELSE <<>>)

KeepsPromise == Promise!Spec

-----------------------------------------------------------------------------
(* What the documentation says *)

(* README.md:69-70: when the program ends, also because the buffer is full, *)
(* the results kept in the array are written to the file.  Which values a  *)
(* row holds is left aside here: the file is a header and rows.            *)
LogIsRecorded ==
  status = "exit0" =>
    \E full \in BOOLEAN :
      /\ Len(file) \in Len(Heading(full)) .. Len(Heading(full)) + result_idx
      /\ \A i \in 1 .. Len(file) :
            IF i <= Len(Heading(full)) THEN file[i] = Heading(full)[i]
            ELSE file[i].kind = "row"
=============================================================================
