----------------------------- MODULE PmuMonitor -----------------------------
(***************************************************************************)
(* pmu-monitor: a group of events on each of the target CPUs,              *)
(* timer_handler() on every SIGALRM of the interval timer, and             *)
(* signal_handler() on SIGINT, SIGTERM or a direct call when the buffers   *)
(* are full.  Results are recorded for a log (-f, one CPU) or printed.     *)
(* The process is one thread that sleeps in pause(): every handler runs on *)
(* top of what it interrupts, a handler of another kind included, because  *)
(* no handler masks a signal but its own.                                  *)
(*                                                                         *)
(* Messages on stdout are left out but for the memory the first one takes; *)
(* results are not.                                                        *)
(***************************************************************************)
EXTENDS Stdio, Functions, FiniteSets

CONSTANTS
  Arguments,    \* of the program: see ArgumentsAssumption
  BufLogSize,   \* buf_log_size, 3M in the program
  MaxWork,      \* bound: units of work the monitored CPU does
  MaxTicks,     \* bound: expirations of the timer
  MaxSignals    \* bound: SIGINT and SIGTERM sent

(* -i may be "neg" (only the overall result), "zero" or "pos".             *)
ASSUME ArgumentsAssumption ==
  Arguments \subseteq [interval : {"neg", "zero", "pos"},
                      use_file_export : BOOLEAN, exp_all_flag : BOOLEAN,
                      target_cpu_num : Nat \ {0}, counter_num : Nat \ {0}]

(* Two signals may each add a total with -i < 0: there is room for them.   *)
ASSUME PmuAssumption ==
  /\ BufLogSize \in Nat \ {0}
  /\ BufLogSize >= 3 \/ \A a \in Arguments : a.interval # "neg"
  /\ MaxWork \in Nat /\ MaxTicks \in Nat /\ MaxSignals \in Nat

VARIABLES
  args,           \* the arguments
  pc,             \* where main() is
  enabled,        \* the events switched on by PERF_EVENT_IOC_ENABLE
  count,          \* what each event's counter holds
  work,           \* history: work done on each target CPU,
  slept,          \* and the part of it done while main() slept, measuring
  start_flag,
  buf_logs,       \* buf_logs[j][i]: what row i says of event j
  result_idx,
  buf_full_flag,
  printed,        \* stdout: the lines of results
  stack,          \* the handlers' frames, the last one on top
  log_fp,
  pending,        \* signals sent and not delivered
  ticks,
  sent,
  status          \* running, or how the process ended

pmuVars == <<enabled, count, work, slept>>
resVars == <<args, start_flag, buf_logs, result_idx, buf_full_flag, printed>>
sigVars == <<pending, ticks, sent>>
vars == <<stdioVars, pc, pmuVars, resVars, stack, log_fp, sigVars, status>>

CpuNums == 1 .. args.target_cpu_num

Events == 1 .. args.counter_num

(* fds[i][j]: event j on target CPU i.  Event 1 leads the group of its CPU. *)
Fds == CpuNums \X Events

Slots == 0 .. BufLogSize - 1

Overall == args.interval = "neg"

Total(f) == FoldFunction(LAMBDA x, y : x + y, 0, f)

Running == status = "running"

Top == stack[Len(stack)]

At(at) == Running /\ stack # <<>> /\ Top.pc = at

SetTop(frame) == stack' = [stack EXCEPT ![Len(stack)] = frame]

Goto(at) == SetTop([Top EXCEPT !.pc = at, !.idx = 1])

NextIdx == SetTop([Top EXCEPT !.idx = @ + 1])

(* A frame of timer_handler ("ALRM") or of signal_handler.  rows is how    *)
(* many results were recorded when it started, val the counters it read.   *)
Frame(sig, at) ==
  [sig |-> sig, pc |-> at, idx |-> 1, code |-> 0, rows |-> result_idx,
   val |-> [fd \in Fds |-> 0]]

IsEnd(frame) == frame.sig \in {"INT", "TERM", "call"}

(* stdout takes its buffer from the heap at its first output: main()'s     *)
(* with -i < 0, otherwise, without a log, a handler's.                     *)
NoOutput ==
  /\ ~args.use_file_export /\ (Overall => pc = "start")
  /\ printed = <<>> /\ \A k \in 1 .. Len(stack) : stack[k].pc # "exit"

(* The first line of the log, which takes the stream's buffer. *)
FirstLine == CASE buf_full_flag -> "warn"
               [] Overall /\ ~buf_full_flag -> "overall"
               [] OTHER -> "title"

(* The points at which a handler is inside malloc or free. *)
InHeap(frame) ==
  \/ frame.pc \in {"alloc", FirstLine, "free"}
  \/ NoOutput /\ frame.pc \in {"begin", "print"}

GotoExit(code) ==
  SetTop([Top EXCEPT !.pc = "exit", !.idx = Len(streams'), !.code = code])

Init ==
  /\ StdioInit(<<Old>>)
  /\ args \in Arguments
  /\ pc = "args"
  /\ enabled = {}
  /\ count = [fd \in Fds |-> 0]
  /\ work = [i \in CpuNums |-> 0]
  /\ slept = [i \in CpuNums |-> 0]
  /\ start_flag = FALSE
  /\ buf_logs = [j \in Events |-> [i \in Slots |-> 0]]
  /\ result_idx = 0
  /\ buf_full_flag = FALSE
  /\ printed = <<>>
  /\ stack = <<>>
  /\ log_fp = NULL
  /\ pending = {}
  /\ ticks = 0
  /\ sent = 0
  /\ status = "running"

-----------------------------------------------------------------------------
(* main() *)

Startup(from) == Running /\ stack = <<>> /\ pc = from

(* The arguments, the handler of SIGALRM and the timer.  A log is of one   *)
(* CPU; lists too long or not of the same length, sigaction() and          *)
(* timer_create() may end the program as well.                             *)
CheckArgs ==
  /\ Startup("args")
  /\ \/ /\ args.use_file_export => args.target_cpu_num = 1
        /\ pc' = "events" /\ UNCHANGED status
     \/ status' = "exit1" /\ UNCHANGED pc
  /\ UNCHANGED <<stdioVars, pmuVars, resVars, stack, log_fp, sigVars>>

(* create_events_per_core(): the events start disabled; perf_event_open()  *)
(* may be refused, and the memory of the buffers.                          *)
CreateEvents ==
  /\ Startup("events")
  /\ \/ pc' = (IF args.use_file_export THEN "probe" ELSE "sigint")
        /\ UNCHANGED status
     \/ status' = "exit1" /\ UNCHANGED pc
  /\ UNCHANGED <<stdioVars, pmuVars, resVars, stack, log_fp, sigVars>>

Probe ==
  /\ Startup("probe")
  /\ pc' = IF present THEN "remove" ELSE "create"
  /\ UNCHANGED <<stdioVars, pmuVars, resVars, stack, log_fp, sigVars, status>>

Create ==
  /\ Startup("create")
  /\ \/ FOpenW /\ log_fp' = Len(streams') /\ pc' = "sigint" /\ UNCHANGED status
     \/ UNCHANGED <<stdioVars, pc>> /\ log_fp' = NULL /\ status' = "exit1"
  /\ UNCHANGED <<pmuVars, resVars, stack, sigVars>>

RemoveOld ==
  /\ Startup("remove")
  /\ \/ Remove /\ pc' = "sigint" /\ UNCHANGED status
     \/ UNCHANGED <<stdioVars, pc>> /\ status' = "exit1"
  /\ UNCHANGED <<pmuVars, resVars, stack, log_fp, sigVars>>

(* signal(SIGINT, ..), then signal(SIGTERM, ..). *)
Register ==
  /\ \/ Startup("sigint") /\ pc' = "sigterm"
     \/ Startup("sigterm") /\ pc' = "start"
  /\ UNCHANGED <<stdioVars, pmuVars, resVars, stack, log_fp, sigVars, status>>

(* main() arms the timer, which may be refused, or with -i < 0 starts the  *)
(* counters itself: that call is a frame below the handlers'.              *)
Start ==
  /\ Startup("start")
  /\ \/ /\ pc' = "pause" /\ UNCHANGED status
        /\ stack' = IF Overall THEN <<Frame("main", "reset")>> ELSE <<>>
     \/ ~Overall /\ status' = "exit1" /\ UNCHANGED <<pc, stack>>
  /\ UNCHANGED <<stdioVars, pmuVars, resVars, log_fp, sigVars>>

-----------------------------------------------------------------------------
(* The counters.  Work on a CPU is counted by every event of its group     *)
(* while the leader and the event are enabled: a group is on the PMU as a  *)
(* whole.                                                                  *)

Measuring ==
  pc = "pause" /\ stack = <<>> /\ (Overall \/ start_flag)

Work(i) ==
  /\ Running
  /\ Total(work) < MaxWork
  /\ work' = [work EXCEPT ![i] = @ + 1]
  /\ slept' = IF Measuring THEN [slept EXCEPT ![i] = @ + 1] ELSE slept
  /\ count' = [fd \in Fds |->
                 IF fd[1] = i /\ {<<i, 1>>, fd} \subseteq enabled
                 THEN count[fd] + 1 ELSE count[fd]]
  /\ UNCHANGED <<stdioVars, pc, enabled, resVars, stack, log_fp, sigVars, status>>

(* The descriptor at which the two loops over the CPUs and the events are. *)
FdAt(idx) ==
  <<((idx - 1) \div args.counter_num) + 1, ((idx - 1) % args.counter_num) + 1>>

(* One iteration of these loops, or their end. *)
ForEach(at, Body(_), next) ==
  /\ At(at)
  /\ IF FdAt(Top.idx) \in Fds
     THEN NextIdx /\ Body(FdAt(Top.idx))
     ELSE Goto(next) /\ UNCHANGED pmuVars

StopOne(fd) == enabled' = enabled \ {fd} /\ UNCHANGED <<count, work, slept>>

(* Mutant: the counter is not reset. *)
ResetOne_Skipped(fd) == fd \in Fds /\ UNCHANGED pmuVars

ResetOne(fd) == count' = [count EXCEPT ![fd] = 0] /\ UNCHANGED <<enabled, work, slept>>

EnableOne(fd) == enabled' = enabled \cup {fd} /\ UNCHANGED <<count, work, slept>>

StopCounter ==
  /\ ForEach("stop", StopOne, "read")
  /\ UNCHANGED <<stdioVars, pc, resVars, log_fp, sigVars, status>>

(* reset_and_start_counter() *)
ResetCounter ==
  /\ ForEach("reset", ResetOne, "enable")
  /\ UNCHANGED <<stdioVars, pc, resVars, log_fp, sigVars, status>>

StartCounter ==
  /\ ForEach("enable", EnableOne, "return")
  /\ UNCHANGED <<stdioVars, pc, resVars, log_fp, sigVars, status>>

-----------------------------------------------------------------------------
(* export_counter() *)

ReadCounter ==
  /\ At("read")
  /\ IF FdAt(Top.idx) \in Fds
     THEN SetTop([Top EXCEPT !.val[FdAt(Top.idx)] = count[FdAt(Top.idx)], !.idx = @ + 1])
     ELSE Goto(IF args.use_file_export THEN "store" ELSE "print")
  /\ UNCHANGED <<stdioVars, pc, pmuVars, resVars, log_fp, sigVars, status>>

(* total_val[j] *)
total_val(j) == Total([i \in CpuNums |-> Top.val[i, j]])

(* Mutant: the last row is stored over. *)
RowSlot_Last == IF result_idx > 0 THEN result_idx - 1 ELSE 0

(* Mutant: the index is incremented too early. *)
RowSlot_Next == result_idx + 1

RowSlot == result_idx

(* buf_logs[j][result_idx] = total_val[j]; beyond the end it is undefined. *)
StoreRow ==
  /\ At("store")
  /\ IF Top.idx \in Events
     THEN /\ NextIdx
          /\ IF RowSlot \in Slots
             THEN /\ buf_logs' = [buf_logs EXCEPT
                                    ![Top.idx][RowSlot] = total_val(Top.idx)]
                  /\ UNCHANGED stdioVars
             ELSE Misuse /\ UNCHANGED buf_logs
     ELSE Goto("inc") /\ UNCHANGED <<stdioVars, buf_logs>>
  /\ UNCHANGED <<pc, pmuVars, args, start_flag, result_idx, buf_full_flag, printed,
                 log_fp, sigVars, status>>

IncResultIdx ==
  /\ At("inc")
  /\ result_idx' = result_idx + 1
  /\ Goto("check")
  /\ UNCHANGED <<stdioVars, pc, pmuVars, args, start_flag, buf_logs, buf_full_flag,
                 printed, log_fp, sigVars, status>>

Full == result_idx >= BufLogSize

(* A full buffer: signal_handler(15) is called, on top of this frame.      *)
CheckFull ==
  /\ At("check")
  /\ IF Full
     THEN buf_full_flag' = TRUE /\ stack' = Append(stack, Frame("call", "begin"))
     ELSE UNCHANGED buf_full_flag /\ Goto(IF IsEnd(Top) THEN "open" ELSE "reset")
  /\ UNCHANGED <<stdioVars, pc, pmuVars, args, start_flag, buf_logs, result_idx,
                 printed, log_fp, sigVars, status>>

(* What is printed of event j: each CPU's value with -e, or the total. *)
Columns(j) ==
  IF args.exp_all_flag THEN [i \in CpuNums |-> Top.val[i, j]] ELSE <<total_val(j)>>

(* Without -f a line for each event, and then the caller goes on. *)
PrintResult ==
  /\ At("print")
  /\ UNCHANGED stdioVars
  /\ IF Top.idx \in Events
     THEN /\ printed' = Append(printed, [event |-> Top.idx, columns |-> Columns(Top.idx)])
          /\ NextIdx
     ELSE /\ IF IsEnd(Top) THEN GotoExit(0) ELSE Goto("reset")
          /\ UNCHANGED printed
  /\ UNCHANGED <<pc, pmuVars, args, start_flag, buf_logs, result_idx, buf_full_flag,
                 log_fp, sigVars, status>>

-----------------------------------------------------------------------------
(* timer_handler() *)

(* Mutant: the counters are read while they run. *)
FirstCall_NoStop == IF start_flag THEN "read" ELSE "reset"

(* The first tick only starts the counters. *)
FirstCall == IF start_flag THEN "stop" ELSE "reset"

Tick ==
  /\ At("tick")
  /\ start_flag' = TRUE
  /\ Goto(FirstCall)
  /\ UNCHANGED <<stdioVars, pc, pmuVars, args, buf_logs, result_idx, buf_full_flag,
                 printed, log_fp, sigVars, status>>

Return ==
  /\ At("return")
  /\ stack' = SubSeq(stack, 1, Len(stack) - 1)
  /\ UNCHANGED <<stdioVars, pc, pmuVars, resVars, log_fp, sigVars, status>>

-----------------------------------------------------------------------------
(* signal_handler() *)

LogOrExit == IF args.use_file_export THEN Goto("open") ELSE GotoExit(0)

(* Mutant: the totals are read while they grow. *)
Begin_NoStop ==
  /\ At("begin")
  /\ UNCHANGED stdioVars
  /\ IF Overall THEN Goto("read") ELSE LogOrExit
  /\ UNCHANGED <<pc, pmuVars, resVars, log_fp, sigVars, status>>

Begin ==
  /\ At("begin")
  /\ UNCHANGED stdioVars
  /\ IF Overall THEN Goto("stop") ELSE LogOrExit
  /\ UNCHANGED <<pc, pmuVars, resVars, log_fp, sigVars, status>>

(* fopen() takes memory, and then truncates the file. *)
CallFopen ==
  /\ At("open")
  /\ Goto("alloc")
  /\ UNCHANGED <<stdioVars, pc, pmuVars, resVars, log_fp, sigVars, status>>

OpenLog ==
  /\ At("alloc")
  /\ \/ FOpenW /\ log_fp' = Len(streams') /\ Goto("warn")
     \/ UNCHANGED stdioVars /\ log_fp' = NULL /\ GotoExit(1)
  /\ UNCHANGED <<pc, pmuVars, resVars, sigVars, status>>

PrintLine(at, cond, line, next) ==
  /\ At(at)
  /\ IF cond THEN FPrintf(log_fp, line) ELSE UNCHANGED stdioVars
  /\ Goto(next)
  /\ UNCHANGED <<pc, pmuVars, resVars, log_fp, sigVars, status>>

(* Mutant: the warning does not depend on the flag. *)
PrintWarn_Always == PrintLine("warn", TRUE, Warn, "overall")

PrintWarn == PrintLine("warn", buf_full_flag, Warn, "overall")

PrintOverall == PrintLine("overall", Overall, OverallOnly, "title")

PrintTitle == PrintLine("title", TRUE, Title, "rows")

(* Row k shows what buf_logs holds in slot k - 1; no slot changes once it  *)
(* is counted (RowsAreKept), so its number stands for its values.          *)
PrintRow ==
  /\ At("rows")
  /\ IF Top.idx <= result_idx
     THEN FPrintf(log_fp, Row(Top.idx)) /\ NextIdx
     ELSE UNCHANGED stdioVars /\ Goto("close")
  /\ UNCHANGED <<pc, pmuVars, resVars, log_fp, sigVars, status>>

(* fclose(log_fp): the stream is written and closed, then freed. *)
CallFclose ==
  /\ At("close")
  /\ FClose(log_fp)
  /\ Goto("free")
  /\ UNCHANGED <<pc, pmuVars, resVars, log_fp, sigVars, status>>

(* Mutant: without exit(0) the handler returns. *)
CloseLog_Returns ==
  /\ At("free")
  /\ stack' = SubSeq(stack, 1, Len(stack) - 1)
  /\ UNCHANGED <<stdioVars, pc, pmuVars, resVars, log_fp, sigVars, status>>

CloseLog ==
  /\ At("free")
  /\ UNCHANGED stdioVars
  /\ GotoExit(0)
  /\ UNCHANGED <<pc, pmuVars, resVars, log_fp, sigVars, status>>

Exit ==
  /\ At("exit")
  /\ IF Top.idx > 0
     THEN /\ ExitFlush(Top.idx)
          /\ SetTop([Top EXCEPT !.idx = @ - 1])
          /\ UNCHANGED status
     ELSE /\ status' = (IF Top.code = 0 THEN "exit0" ELSE "exit1")
          /\ UNCHANGED <<stdioVars, stack>>
  /\ UNCHANGED <<pc, pmuVars, resVars, log_fp, sigVars>>

(* A handler uses the heap inside of what it interrupted there.  That is   *)
(* undefined: it may wait for ever for the allocator's lock, with every    *)
(* later handler that opens the log, or end the process, or go on.         *)
Hang ==
  /\ Running /\ stack # <<>> /\ InHeap(Top)
  /\ \/ NoOutput /\ Overall
     \/ \E k \in 1 .. Len(stack) - 1 : InHeap(stack[k])
  /\ status' \in {"hung", "crashed"}
  /\ UNCHANGED <<stdioVars, pc, pmuVars, resVars, stack, log_fp, sigVars>>

-----------------------------------------------------------------------------
(* Signals *)

(* A signal that is pending already is merged with this one, which has no  *)
(* effect.                                                                 *)
Send(sig) ==
  /\ Running
  /\ sent < MaxSignals /\ sig \notin pending
  /\ pending' = pending \cup {sig}
  /\ sent' = sent + 1
  /\ UNCHANGED <<stdioVars, pc, pmuVars, resVars, stack, log_fp, ticks, status>>

(* timer_settime with a zero value disarms the timer.  An expiration while *)
(* the last one is pending is merged with it, without effect.              *)
Expire ==
  /\ Running /\ pc = "pause" /\ args.interval = "pos"
  /\ ticks < MaxTicks /\ "ALRM" \notin pending
  /\ ticks' = ticks + 1
  /\ pending' = pending \cup {"ALRM"}
  /\ UNCHANGED <<stdioVars, pc, pmuVars, resVars, stack, log_fp, sent, status>>

Blocked == {stack[k].sig : k \in 1 .. Len(stack)}

Handled == CASE pc \in {"start", "pause"} -> {"ALRM", "INT", "TERM"}
             [] pc = "sigterm" -> {"ALRM", "INT"}
             [] OTHER -> {"ALRM"}

Deliver(sig) ==
  /\ Running
  /\ sig \in (pending \cap Handled) \ Blocked
  /\ stack' = Append(stack, Frame(sig, IF sig = "ALRM" THEN "tick" ELSE "begin"))
  /\ pending' = pending \ {sig}
  /\ UNCHANGED <<stdioVars, pc, pmuVars, resVars, log_fp, ticks, sent, status>>

Kill ==
  /\ Running
  /\ pending \ Handled # {}
  /\ status' = "killed"
  /\ UNCHANGED <<stdioVars, pc, pmuVars, resVars, stack, log_fp, sigVars>>

Terminated == ~Running /\ UNCHANGED vars

Startups == CheckArgs \/ CreateEvents \/ Probe \/ Create \/ RemoveOld \/ Register \/ Start

Handlers ==
  \/ StopCounter \/ ResetCounter \/ StartCounter
  \/ ReadCounter \/ StoreRow \/ IncResultIdx \/ CheckFull \/ PrintResult
  \/ Tick \/ Return
  \/ Begin \/ CallFopen \/ OpenLog
  \/ PrintWarn \/ PrintOverall \/ PrintTitle \/ PrintRow
  \/ CallFclose \/ CloseLog \/ Exit

Next ==
  \/ Startups \/ Handlers \/ Hang \/ Expire \/ Kill
  \/ Terminated
  \/ \E i \in CpuNums : Work(i)
  \/ \E sig \in {"INT", "TERM"} : Send(sig)
  \/ \E sig \in {"ALRM", "INT", "TERM"} : Deliver(sig)

Spec == Init /\ [][Next]_vars

(* The scheduler runs the process, the kernel delivers SIGINT and SIGTERM; *)
(* nothing makes anybody send one, or a tick come.                         *)
Fairness ==
  /\ WF_vars(Startups \/ Handlers)
  /\ WF_vars(Kill \/ Deliver("INT") \/ Deliver("TERM"))

FairSpec == Spec /\ Fairness

-----------------------------------------------------------------------------
(* Properties *)

LogHeading(full) ==
  (IF full THEN <<Warn>> ELSE <<>>)
    \o (IF Overall THEN <<OverallOnly>> ELSE <<>>) \o <<Title>>

(* A tick that fires while signal_handler runs may fill the buffers up and *)
(* call signal_handler once more, on top of the one it interrupted.        *)
FullOnTopOfHandler ==
  \E k, m \in 1 .. Len(stack) :
    k < m /\ IsEnd(stack[k]) /\ stack[m].sig = "call"

(* When the monitor reports success its log is a heading and the first     *)
(* results in order, at least those recorded when the first handler that   *)
(* ends the run started, whatever handlers are stacked on one another      *)
(* (signal_handler and the flush of exit()).  Left aside: the case of      *)
(* FullIsWarned, in which this does not hold.                              *)
LogIsWellFormed ==
  status = "exit0" /\ args.use_file_export /\ ~FullOnTopOfHandler =>
    \E n \in 0 .. result_idx :
      /\ present /\ file = LogHeading(buf_full_flag) \o Rows(n)
      /\ \A k \in 1 .. Len(stack) : IsEnd(stack[k]) => n >= stack[k].rows

(* No row is stored behind the end of the buffers and no closed or NULL    *)
(* stream is used (CheckFull, the test of fopen's result).                 *)
NoMisuse == ~misused

(* A column is of one CPU or, as a total, of all. *)
ColumnNums == IF args.exp_all_flag THEN CpuNums ELSE {1}

CpusOf(c) == IF args.exp_all_flag THEN {c} ELSE CpuNums

(* What the rows of the log, or the lines printed, say of event j. *)
Values(j, c) ==
  IF args.use_file_export
  THEN [m \in 1 .. result_idx |-> buf_logs[j][m - 1]]
  ELSE [n \in 1 .. Len(printed) |->
          IF printed[n].event = j THEN printed[n].columns[c] ELSE 0]

OnCpus(f, c) == Total([i \in CpusOf(c) |-> f[i]])

(* No unit of work is lost and none is counted twice: what is done on a    *)
(* target CPU while the monitor sleeps is in a row or still in the         *)
(* counter, whatever a tick does between the read and the reset, and what  *)
(* a tick has exported it resets before it counts again (timer_handler's   *)
(* order stop, export, reset, start; with -i < 0 each row is a total), in  *)
(* the log, in the totals over the CPUs and in the columns of -e.  Units   *)
(* are counted one by one, so that one unit at any moment stands for many. *)
EachUnitIsInOneRow ==
  \A j \in Events, c \in ColumnNums :
    LET reported == Total(Values(j, c))
    IN /\ Measuring => reported + OnCpus([i \in CpuNums |-> count[i, j]], c) >= OnCpus(slept, c)
       /\ ~Overall => reported <= OnCpus(work, c)

(* In every row an event of the group never counts what its leader does    *)
(* not: the group starts and stops as one, whatever signal interrupts the  *)
(* loops over the CPUs and the events (for events that count the same).    *)
(* A line stands where its event says behind that of the leader.           *)
RowsAgree ==
  /\ \A j \in Events, m \in 1 .. result_idx : buf_logs[j][m - 1] <= buf_logs[1][m - 1]
  /\ \A n \in 1 .. Len(printed) :
       LET first == n - printed[n].event + 1
       IN /\ first >= 1 /\ printed[first].event = 1
          /\ \A c \in ColumnNums : printed[n].columns[c] <= printed[first].columns[c]

(* With -i < 0 every result is the same total: a second signal that finds  *)
(* the handler at work adds a row, never other numbers, and one that cuts  *)
(* into the printing prints them all once more, to the last event.         *)
TotalsAgree ==
  Overall =>
    /\ \A j \in Events, m \in 1 .. result_idx : buf_logs[j][m - 1] = buf_logs[j][0]
    /\ \A m, n \in 1 .. Len(printed) :
         printed[m].event = printed[n].event => printed[m].columns = printed[n].columns
    /\ status = "exit0" /\ ~args.use_file_export =>
         LET before == Len(printed) - args.counter_num
         IN before >= 0 /\ \A j \in Events : printed[before + j].event = j

(* A recorded row never changes, so a handler may print it at any time,    *)
(* and the number of rows never goes back.                                 *)
RowsAreKept ==
  [][/\ result_idx <= result_idx' /\ Len(printed) <= Len(printed')
     /\ \A j \in Events, m \in 1 .. result_idx : buf_logs'[j][m - 1] = buf_logs[j][m - 1]
     /\ \A n \in 1 .. Len(printed) : printed'[n] = printed[n]]_vars

(* Once SIGINT or SIGTERM was sent the process ends, however many ticks    *)
(* fire on top of its handler, unless one handler interrupted another, or  *)
(* main(), inside the heap: a tick that fills the buffers up while         *)
(* signal_handler opens the log calls signal_handler, and fopen, again.    *)
SignalEndsRun ==
  (pending \cap {"INT", "TERM"} # {}) ~> status \in {"exit0", "exit1", "killed", "crashed", "hung"}

-----------------------------------------------------------------------------
(* What the program says of itself *)

(* pmu-monitor.c:237: a log of full buffers starts with the warning.       *)
FullIsWarned == status = "exit0" /\ buf_full_flag => Head(file) = Warn
=============================================================================
