-------------------------- MODULE InfLatLog_proofs --------------------------
(***************************************************************************)
(* What is proved of the log of inf-sim-lat_mem_rd, for every buffer size, *)
(* number of signals and way the streams' buffers fill.                    *)
(***************************************************************************)
EXTENDS InfLatLog, Stdio_proofs

(* A changed top frame is still a frame. *)
LEMMA FrameUpdate ==
  ASSUME NEW f \in Frames, NEW pc \in FramePcs, NEW i \in Nat, NEW c \in {0, 1}
  PROVE  /\ [f EXCEPT !.pc = pc] \in Frames
         /\ [f EXCEPT !.idx = i] \in Frames
         /\ [f EXCEPT !.pc = pc, !.idx = i, !.code = c] \in Frames
BY DEF Frames

LEMMA TopType ==
  ASSUME TypeOK, NEW t \in Threads, stack[t] # <<>>
  PROVE  Len(stack[t]) \in Nat \ {0} /\ Top(t) \in Frames
<1>1. stack[t] \in Seq(Frames)
  BY DEF TypeOK
<1>2. Len(stack[t]) \in Nat \ {0}
  BY <1>1, EmptySeq
<1> QED BY <1>1, <1>2, ElementOfSeq DEF Top

LEMMA SetTopType ==
  ASSUME TypeOK, NEW t \in Threads, stack[t] # <<>>,
         NEW frame \in Frames, SetTop(t, frame)
  PROVE  stack' \in [Threads -> Seq(Frames)]
<1>1. stack[t] \in Seq(Frames) /\ Len(stack[t]) \in 1 .. Len(stack[t])
  BY TopType DEF TypeOK
<1>2. [stack[t] EXCEPT ![Len(stack[t])] = frame] \in Seq(Frames)
  BY <1>1, ExceptSeq
<1>3. stack' = [stack EXCEPT ![t] = [stack[t] EXCEPT ![Len(stack[t])] = frame]]
  BY DEF SetTop
<1> QED BY <1>2, <1>3 DEF TypeOK

LEMMA GotoType ==
  ASSUME TypeOK, NEW t \in Threads, stack[t] # <<>>,
         NEW pc \in FramePcs, Goto(t, pc)
  PROVE  stack' \in [Threads -> Seq(Frames)]
<1>1. [Top(t) EXCEPT !.pc = pc] \in Frames
  BY TopType, FrameUpdate
<1> QED BY <1>1, SetTopType DEF Goto

LEMMA GotoExitType ==
  ASSUME TypeOK, NEW t \in Threads, stack[t] # <<>>,
         NEW c \in {0, 1}, Len(streams') \in Nat, GotoExit(t, c)
  PROVE  stack' \in [Threads -> Seq(Frames)]
<1>1. [Top(t) EXCEPT !.pc = "exit", !.idx = Len(streams'), !.code = c] \in Frames
  BY TopType, FrameUpdate DEF FramePcs
<1> QED BY <1>1, SetTopType DEF GotoExit

LEMMA PushType ==
  ASSUME TypeOK, NEW t \in Threads, NEW sig \in Signals \cup {"call"},
         Push(t, sig)
  PROVE  stack' \in [Threads -> Seq(Frames)]
<1> DEFINE f == [sig |-> sig, pc |-> "open", idx |-> 0, code |-> 0,
                 from |-> result_idx]
<1>1. f \in Frames
  BY DEF TypeOK, Frames, FramePcs
<1>2. stack' = [stack EXCEPT ![t] = Append(stack[t], f)]
  BY DEF Push
<1> HIDE DEF f
<1>3. Append(stack[t], f) \in Seq(Frames)
  BY <1>1, AppendProperties DEF TypeOK
<1> QED BY <1>2, <1>3 DEF TypeOK

LEMMA LineTypes ==
  /\ Old \in Lines /\ Warn \in Lines /\ BufSize \in Lines /\ Title \in Lines
  /\ \A v \in Nat : Row(v) \in Lines
BY DEF Old, Warn, BufSize, Title, Row, Line, Lines

LEMMA ReadType ==
  ASSUME TypeOK, NEW t, NEW i
  PROVE  Read(t, i) \in Nat
BY DEF TypeOK, Read

-----------------------------------------------------------------------------
LEMMA InitType == Init => TypeOK
<1> SUFFICES ASSUME Init PROVE TypeOK
  OBVIOUS
<1>1. <<Old>> \in Seq(Lines) /\ <<>> \in Seq(Lines)
  BY LineTypes
<1>2. StdioTypeOK
  BY <1>1, EmptySeq DEF Init, StdioInit, StdioTypeOK
<1>3. stack \in [Threads -> Seq(Frames)]
  BY EmptySeq DEF Init
<1> QED BY <1>2, <1>3, ThreadsAssumption DEF Init, TypeOK, NULL

LEMMA StartupsType == TypeOK /\ Startups => TypeOK'
<1> SUFFICES ASSUME TypeOK, Startups PROVE TypeOK'
  OBVIOUS
<1>1. CASE Probe
  BY <1>1 DEF TypeOK, Probe, StdioTypeOK, stdioVars, sigVars
<1>2. CASE Create
  <2>1. CASE FOpenW
    <3>1. StdioTypeOK' /\ Len(streams') \in Nat
      BY <2>1, FOpenWType DEF TypeOK
    <3> QED BY <1>2, <3>1 DEF Create, TypeOK, stdioVars, sigVars, NULL
  <2>2. CASE UNCHANGED stdioVars
    BY <1>2, <2>2, FOpenWType DEF Create, TypeOK, StdioTypeOK, stdioVars, sigVars, NULL
  <2> QED BY <1>2, <2>1, <2>2 DEF Create
<1>3. CASE RemoveOld
  BY <1>3, EmptySeq
    DEF RemoveOld, Remove, TypeOK, StdioTypeOK, stdioVars, sigVars
<1>4. CASE RegisterInt
  BY <1>4 DEF TypeOK, RegisterInt, StdioTypeOK, stdioVars, sigVars
<1>5. CASE RegisterTerm
  BY <1>5 DEF TypeOK, RegisterTerm, StdioTypeOK, stdioVars, sigVars
<1> QED BY <1>1, <1>2, <1>3, <1>4, <1>5 DEF Startups

(* A step of loads() leaves the log, the loop and the handlers alone: it    *)
(* moves main() on, starts a thread or ends the process.                   *)
LEMMA LoadsStep ==
  ASSUME Loads
  PROVE  /\ Free(Main) /\ UNCHANGED <<stdioVars, loopVars, stack, log_fp, sigVars>>
         /\ up \in {"loads", "malloc", "spawn", "calloc"}
         /\ up' \in {"loads", "malloc", "spawn", "calloc", "run", "pause"}
         /\ status' \in {"running", "exit1"}
         /\ alive \subseteq alive'
         /\ \A t \in alive' \ alive : t \in Threads
<1>1. CASE SkipLoads \/ CallMalloc \/ BaseInitialize \/ CallPthreadCreate
  BY <1>1 DEF SkipLoads, CallMalloc, BaseInitialize, CallPthreadCreate, Startup,
              Free, Running
<1>2. CASE PthreadCreate
  BY <1>2 DEF PthreadCreate, Startup, Free, Running
<1> QED BY <1>1, <1>2 DEF Loads

LEMMA LoadsType == TypeOK /\ Loads => TypeOK'
BY LoadsStep DEF TypeOK, StdioTypeOK, stdioVars, loopVars, sigVars

LEMMA ReportType == TypeOK /\ Report => TypeOK'
<1> SUFFICES ASSUME TypeOK, Report PROVE TypeOK'
  OBVIOUS
<1>1. CASE StoreResult
  <2>1. CASE result_idx \in Slots
    <3>0. measured + 1 \in Nat /\ buf_log \in [Slots -> Nat] /\ hidden \subseteq Slots
      BY DEF TypeOK
    <3>1. buf_log' \in [Slots -> Nat] /\ hidden' \subseteq Slots
      <4>1. buf_log' = [buf_log EXCEPT ![result_idx] = measured + 1]
        BY <1>1, <2>1 DEF StoreResult
      <4>2. hidden' = hidden \cup {i \in {result_idx} : Threads # {Reporter}}
        BY <1>1, <2>1 DEF StoreResult
      <4> QED BY <2>1, <3>0, <4>1, <4>2
    <3>2. measured' \in Nat
      BY <1>1 DEF StoreResult, TypeOK
    <3> QED BY <1>1, <2>1, <3>1, <3>2
            DEF StoreResult, TypeOK, StdioTypeOK, stdioVars, sigVars
  <2>2. CASE result_idx \notin Slots
    BY <1>1, <2>2 DEF StoreResult, Misuse, TypeOK, StdioTypeOK, sigVars
  <2> QED BY <2>1, <2>2
<1>2. CASE IncResultIdx
  BY <1>2 DEF IncResultIdx, TypeOK, StdioTypeOK, stdioVars, sigVars
<1>3. CASE CheckFull
  BY <1>3 DEF CheckFull, Full, TypeOK, StdioTypeOK, stdioVars, sigVars
<1>4. CASE CallHandler
  <2>1. stack' \in [Threads -> Seq(Frames)]
    BY <1>4, PushType, ThreadsAssumption DEF CallHandler
  <2> QED BY <1>4, <2>1 DEF CallHandler, TypeOK, StdioTypeOK, stdioVars, sigVars
<1> QED BY <1>1, <1>2, <1>3, <1>4 DEF Report

LEMMA HandlerType ==
  ASSUME TypeOK, NEW t \in Threads, Handler(t)
  PROVE  TypeOK'
<1> USE DEF sigVars
<1>1. CASE CallFopen(t)
  <2>1. stack' \in [Threads -> Seq(Frames)]
    BY <1>1, GotoType DEF CallFopen, At, FramePcs
  <2> QED BY <1>1, <2>1
    DEF CallFopen, TypeOK, StdioTypeOK, stdioVars, procVars
<1>2. CASE OpenLog(t)
  <2>1. StdioTypeOK' /\ Len(streams') \in Nat
    <3>1. CASE FOpenW
      BY <3>1, FOpenWType DEF TypeOK
    <3>2. CASE UNCHANGED stdioVars
      BY <3>2, LenProperties DEF TypeOK, StdioTypeOK, stdioVars
    <3> QED BY <1>2, <3>1, <3>2 DEF OpenLog
  <2>2. stack' \in [Threads -> Seq(Frames)]
    BY <1>2, <2>1, GotoType, GotoExitType DEF OpenLog, At, FramePcs
  <2> QED BY <1>2, <2>1, <2>2 DEF OpenLog, TypeOK, procVars, NULL
<1>3. ASSUME NEW at, NEW line \in Lines, NEW to \in FramePcs,
             PrintLine(t, at, line, to)
      PROVE  TypeOK'
  <2>1. StdioTypeOK'
    BY <1>3, FPrintfType DEF PrintLine, TypeOK
  <2>2. stack' \in [Threads -> Seq(Frames)]
    BY <1>3, GotoType DEF PrintLine, At
  <2> QED BY <1>3, <2>1, <2>2 DEF PrintLine, TypeOK, procVars
<1>4. CASE PrintWarn(t)
  <2>1. CASE PrintLine(t, "warn", Warn, "bufsize")
    BY <2>1, <1>3, LineTypes DEF FramePcs
  <2>2. CASE At(t, "warn") /\ Goto(t, "bufsize")
             /\ UNCHANGED <<stdioVars, procVars, log_fp, sigVars, status>>
    <3>1. stack' \in [Threads -> Seq(Frames)]
      BY <2>2, GotoType DEF At, FramePcs
    <3> QED BY <2>2, <3>1 DEF TypeOK, StdioTypeOK, stdioVars, procVars
  <2> QED BY <1>4, <2>1, <2>2 DEF PrintWarn
<1>5. CASE PrintBufSize(t)
  BY <1>5, <1>3, LineTypes DEF PrintBufSize, FramePcs
<1>6. CASE PrintTitle(t)
  BY <1>6, <1>3, LineTypes DEF PrintTitle, FramePcs
<1>7. CASE PrintRow(t)
  <2>1. Row(Read(t, Top(t).idx)) \in Lines
    BY ReadType, LineTypes
  <2>2. StdioTypeOK'
    BY <1>7, <2>1, FPrintfType DEF PrintRow, TypeOK
  <2>3. stack[t] # <<>> /\ Top(t) \in Frames
    BY <1>7, TopType DEF PrintRow, At
  <2>4. [Top(t) EXCEPT !.idx = Top(t).idx + 1] \in Frames
    BY <2>3 DEF Frames
  <2>5. stack' \in [Threads -> Seq(Frames)]
    BY <1>7, <2>3, <2>4, SetTopType DEF PrintRow
  <2> QED BY <1>7, <2>2, <2>5 DEF PrintRow, TypeOK, procVars
<1>8. CASE RowsDone(t)
  <2>1. stack' \in [Threads -> Seq(Frames)]
    BY <1>8, GotoType DEF RowsDone, At, FramePcs
  <2> QED BY <1>8, <2>1 DEF RowsDone, TypeOK, StdioTypeOK, stdioVars, procVars
<1>9. CASE CallFclose(t)
  <2>1. StdioTypeOK'
    BY <1>9, FCloseType DEF CallFclose, TypeOK
  <2>2. stack' \in [Threads -> Seq(Frames)]
    BY <1>9, GotoType DEF CallFclose, At, FramePcs
  <2> QED BY <1>9, <2>1, <2>2 DEF CallFclose, TypeOK, procVars
<1>10. CASE CloseLog(t)
  <2>1. Len(streams') \in Nat
    BY <1>10, LenProperties DEF CloseLog, TypeOK, StdioTypeOK, stdioVars
  <2>2. stack' \in [Threads -> Seq(Frames)]
    BY <1>10, <2>1, GotoExitType DEF CloseLog, At
  <2> QED BY <1>10, <2>2 DEF CloseLog, TypeOK, StdioTypeOK, stdioVars, procVars
<1>11. CASE Exit(t)
  <2>1. CASE Top(t).idx > 0
    <3>1. StdioTypeOK'
      BY <1>11, <2>1, ExitFlushType DEF Exit, TypeOK
    <3>2. stack[t] # <<>> /\ Top(t) \in Frames
      BY <1>11, TopType DEF Exit, At
    <3>3. [Top(t) EXCEPT !.idx = Top(t).idx - 1] \in Frames
      BY <2>1, <3>2 DEF Frames
    <3>4. stack' \in [Threads -> Seq(Frames)]
      BY <1>11, <2>1, <3>2, <3>3, SetTopType DEF Exit
    <3> QED BY <1>11, <2>1, <3>1, <3>4 DEF Exit, TypeOK, procVars
  <2>2. CASE ~(Top(t).idx > 0)
    BY <1>11, <2>2 DEF Exit, TypeOK, StdioTypeOK, stdioVars, procVars
  <2> QED BY <2>1, <2>2
<1>12. CASE Hang(t)
  <2>1. stack' \in [Threads -> Seq(Frames)]
    BY <1>12, GotoType DEF Hang, FramePcs
  <2> QED BY <1>12, <2>1 DEF Hang, TypeOK, StdioTypeOK, stdioVars, procVars
<1> QED BY <1>1, <1>2, <1>4, <1>5, <1>6, <1>7, <1>8, <1>9, <1>10, <1>11, <1>12
        DEF Handler

LEMMA SignalType ==
  ASSUME TypeOK, NEW t \in Threads, NEW sig \in Signals,
         Send(sig) \/ Deliver(t, sig)
  PROVE  TypeOK'
<1>1. CASE Send(sig)
  BY <1>1 DEF Send, TypeOK, StdioTypeOK, stdioVars, procVars
<1>2. CASE Deliver(t, sig)
  <2>1. stack' \in [Threads -> Seq(Frames)]
    BY <1>2, PushType DEF Deliver
  <2> QED BY <1>2, <2>1 DEF Deliver, TypeOK, StdioTypeOK, stdioVars, procVars
<1> QED BY <1>1, <1>2

(* The program and the library stay within their types, with any number of *)
(* threads, records, signals and nested handlers.                          *)
THEOREM TypeCorrect == Spec => []TypeOK
<1>1. TypeOK /\ [Next]_vars => TypeOK'
  <2> SUFFICES ASSUME TypeOK, [Next]_vars PROVE TypeOK'
    OBVIOUS
  <2> USE DEF TypeOK, StdioTypeOK, vars, stdioVars, procVars, sigVars
  <2>1. CASE UNCHANGED vars
    BY <2>1
  <2>2. CASE Startups
    BY <2>2, StartupsType
  <2>11. CASE Loads
    BY <2>11, LoadsType
  <2>3. CASE Report
    BY <2>3, ReportType
  <2>4. CASE Drain
    BY <2>4 DEF Drain
  <2>5. CASE Crash
    BY <2>5 DEF Crash
  <2>6. CASE Kill
    BY <2>6 DEF Kill
  <2>7. CASE \E t \in Threads : Handler(t)
    BY <2>7, HandlerType
  <2>8. CASE \E sig \in Signals : Send(sig)
    BY <2>8, SignalType, ThreadsAssumption
  <2>9. CASE \E t \in Threads, sig \in Signals : Deliver(t, sig)
    BY <2>9, SignalType
  <2>10. CASE Terminated
    BY <2>10 DEF Terminated
  <2> QED BY <2>1, <2>2, <2>3, <2>4, <2>5, <2>6, <2>7, <2>8, <2>9, <2>10,
         <2>11 DEF Next
<1> QED BY InitType, <1>1, PTL DEF Spec

(* What keeps the recorded measurements: the slots below measured hold     *)
(* their values, and measured is ahead of result_idx only between the      *)
(* store and the increment.                                                *)
KeptInv ==
  /\ measured = (IF rpc = "inc" THEN result_idx + 1 ELSE result_idx)
  /\ \A i \in Slots : i < measured => buf_log[i] = i + 1

(* The part of the state only the reporting loop changes. *)
recordVars == <<rpc, measured, buf_log, result_idx>>

LEMMA OnlyReportRecords ==
  ASSUME [Next]_vars, ~Report
  PROVE  UNCHANGED recordVars
<1> USE DEF recordVars, procVars
<1>1. CASE Startups
  BY <1>1 DEF Startups, Probe, Create, RemoveOld, RegisterInt, RegisterTerm
<1>6. CASE Loads
  BY <1>6, LoadsStep DEF loopVars
<1>2. CASE Drain \/ Crash \/ Kill \/ Terminated \/ UNCHANGED vars
  BY <1>2 DEF Drain, Crash, Kill, Terminated, vars
<1>3. ASSUME NEW t \in Threads, Handler(t) PROVE UNCHANGED recordVars
  BY <1>3 DEF Handler, CallFopen, OpenLog, PrintWarn, PrintBufSize,
              PrintTitle, PrintLine, PrintRow, RowsDone, CallFclose, CloseLog, Exit, Hang
<1>4. ASSUME NEW sig \in Signals, Send(sig) PROVE UNCHANGED recordVars
  BY <1>4 DEF Send
<1>5. ASSUME NEW t \in Threads, NEW sig \in Signals, Deliver(t, sig)
      PROVE  UNCHANGED recordVars
  BY <1>5 DEF Deliver
<1> QED BY <1>1, <1>2, <1>3, <1>4, <1>5, <1>6 DEF Next

LEMMA KeptStep ==
  ASSUME TypeOK, KeptInv, [Next]_vars
  PROVE  KeptInv'
<1> USE DEF KeptInv, TypeOK, Slots
<1>1. CASE StoreResult
  <2>1. /\ measured = result_idx /\ measured' = measured + 1
        /\ rpc' = "inc" /\ result_idx' = result_idx
        /\ buf_log' = IF result_idx \in Slots
                      THEN [buf_log EXCEPT ![result_idx] = measured + 1] ELSE buf_log
    BY <1>1 DEF StoreResult, Reporting
  <2>2. ASSUME NEW i \in Slots, i < measured' PROVE buf_log'[i] = i + 1
    <3>1. CASE i = measured
      BY <2>1, <3>1
    <3>2. CASE i < measured
      BY <2>1, <3>2
    <3> QED BY <2>1, <2>2, <3>1, <3>2, SizeAssumption
  <2> QED BY <2>1, <2>2
<1>2. CASE IncResultIdx
  BY <1>2 DEF IncResultIdx, Reporting
<1>3. CASE CheckFull
  BY <1>3 DEF CheckFull, Full, Reporting
<1>4. CASE CallHandler
  BY <1>4 DEF CallHandler, Reporting
<1>5. CASE ~Report
  BY <1>5, OnlyReportRecords DEF recordVars
<1> QED BY <1>1, <1>2, <1>3, <1>4, <1>5 DEF Report

(* With any number of threads, a recorded measurement is never overwritten *)
(* and result_idx never goes back: a handler may read the slots below it   *)
(* while the reporting loop goes on (measure_stride_acesses_mt).           *)
THEOREM RecordsKept == Spec => RecordsAreKept
<1> DEFINE Kept == /\ result_idx' >= result_idx
                   /\ \A i \in Slots : i < result_idx => buf_log'[i] = i + 1
<1>1. Init => KeptInv
  BY DEF Init, KeptInv, Slots
<1>2. TypeOK /\ KeptInv /\ [Next]_vars => [Kept]_vars
  <2> SUFFICES ASSUME TypeOK, KeptInv, [Next]_vars PROVE Kept
    OBVIOUS
  <2>1. result_idx' \in Nat /\ result_idx' >= result_idx
    <3>1. CASE Report
      BY <3>1 DEF Report, StoreResult, IncResultIdx, CheckFull, CallHandler, TypeOK
    <3>2. CASE ~Report
      BY <3>2, OnlyReportRecords DEF recordVars, TypeOK
    <3> QED BY <3>1, <3>2
  <2>2. KeptInv'
    BY KeptStep
  <2>3. ASSUME NEW i \in Slots, i < result_idx PROVE buf_log'[i] = i + 1
    <3>1. measured' = result_idx' + 1 \/ measured' = result_idx'
      BY <2>2, Zenon DEF KeptInv
    <3>0. result_idx' \in Nat
      BY <2>1
    <3>2. measured' \in Nat /\ measured' >= result_idx'
      BY <3>0, <3>1
    <3>3. i \in Int /\ result_idx \in Int
      BY SizeAssumption DEF Slots, TypeOK
    <3>4. i < measured'
      <4>1. result_idx' >= result_idx
        BY <2>1
      <4> QED BY <4>1, <2>3, <3>0, <3>2, <3>3
    <3> QED BY <2>2, <3>4 DEF KeptInv
  <2> QED BY <2>1, <2>3
<1>3. TypeOK /\ KeptInv /\ [Next]_vars => KeptInv'
  BY KeptStep
<1> QED BY <1>1, <1>2, <1>3, TypeCorrect, PTL DEF Spec, RecordsAreKept

-----------------------------------------------------------------------------
(***************************************************************************)
(* Without -m the process has one thread.  However many signals arrive and *)
(* however the handlers nest on it, a run that reports success leaves the  *)
(* complete log.  The argument is OneThreadInv: while a handler is on the  *)
(* stack the reporting loop is stopped, so that every handler prints the   *)
(* same log; a handler never returns, so that only the last one opened     *)
(* writes; and what the ones below it still buffer is a piece of that same *)
(* log, which exit() writes over an equal piece.                           *)
(***************************************************************************)

OneThread == Threads = {Main} /\ Reporter = Main /\ BufLogSize > 0

Inv == TypeOK /\ OneThreadInv

LEMMA HeadingLines ==
  ASSUME NEW full \in BOOLEAN
  PROVE  /\ Heading(full) \in Seq(Lines)
         /\ Len(Heading(full)) = IF full THEN 3 ELSE 2
         /\ full => Heading(full)[1] = Warn
         /\ Heading(full)[Len(Heading(full)) - 1] = BufSize
         /\ Heading(full)[Len(Heading(full))] = Title
<1>1. Warn \in Lines /\ BufSize \in Lines /\ Title \in Lines
  BY LineTypes
<1> HIDE DEF Warn, BufSize, Title
<1>2. CASE full
  BY <1>1, <1>2 DEF Heading
<1>3. CASE ~full
  BY <1>1, <1>3 DEF Heading
<1> QED BY <1>2, <1>3

(* The lines of the complete log. *)
LEMMA LogElements ==
  ASSUME TypeOK
  PROVE  LET h == Len(Heading(buf_full_flag)) IN
         /\ CompleteLog \in Seq(Lines)
         /\ h = (IF buf_full_flag THEN 3 ELSE 2)
         /\ Len(CompleteLog) = h + result_idx
         /\ buf_full_flag => CompleteLog[1] = Warn
         /\ CompleteLog[h - 1] = BufSize
         /\ CompleteLog[h] = Title
         /\ \A i \in 1 .. result_idx : CompleteLog[h + i] = Row(i)
<1> DEFINE hd == Heading(buf_full_flag)
           rw == Rows(result_idx)
<1>0. buf_full_flag \in BOOLEAN /\ result_idx \in Nat
  BY DEF TypeOK
<1>1. /\ hd \in Seq(Lines)
      /\ Len(hd) = IF buf_full_flag THEN 3 ELSE 2
      /\ buf_full_flag => hd[1] = Warn
      /\ hd[Len(hd) - 1] = BufSize
      /\ hd[Len(hd)] = Title
  BY <1>0, HeadingLines
<1>2. /\ rw \in Seq(Lines) /\ Len(rw) = result_idx
      /\ \A i \in 1 .. result_idx : rw[i] = Row(i)
  BY <1>0, RowsLines
<1>3. CompleteLog = hd \o rw
  BY DEF CompleteLog
<1> HIDE DEF hd, rw
<1>4. /\ hd \o rw \in Seq(Lines)
      /\ Len(hd \o rw) = Len(hd) + Len(rw)
      /\ \A i \in 1 .. Len(hd) + Len(rw) : (hd \o rw)[i] =
           IF i <= Len(hd) THEN hd[i] ELSE rw[i - Len(hd)]
  BY <1>1, <1>2, ConcatProperties
<1>5. \A i \in 1 .. Len(hd) : (hd \o rw)[i] = hd[i]
  BY <1>0, <1>1, <1>2, <1>4
<1>6. ASSUME NEW i \in 1 .. result_idx
      PROVE (hd \o rw)[Len(hd) + i] = Row(i)
  <2>1. /\ Len(hd) + i \in 1 .. Len(hd) + Len(rw)
        /\ ~(Len(hd) + i <= Len(hd)) /\ (Len(hd) + i) - Len(hd) = i
    BY <1>0, <1>1, <1>2
  <2> QED BY <2>1, <1>2, <1>4
<1>7. CompleteLog[Len(hd) - 1] = BufSize /\ CompleteLog[Len(hd)] = Title
  BY <1>0, <1>1, <1>3, <1>5
<1>8. buf_full_flag => CompleteLog[1] = Warn
  BY <1>0, <1>1, <1>3, <1>5
<1>9. /\ Len(CompleteLog) = Len(hd) + result_idx /\ CompleteLog \in Seq(Lines)
      /\ \A i \in 1 .. result_idx : CompleteLog[Len(hd) + i] = Row(i)
  BY <1>2, <1>3, <1>4, <1>6
<1> QED BY <1>1, <1>7, <1>8, <1>9 DEF hd

LEMMA LogFrozen ==
  UNCHANGED <<result_idx, buf_full_flag>> =>
    CompleteLog' = CompleteLog /\ \A f : Printed(f)' = Printed(f)
BY DEF CompleteLog, Printed

-----------------------------------------------------------------------------
(* What a change of the top frame does to the stack. *)
LEMMA NewTop ==
  ASSUME OneThread, TypeOK, stack[Main] # <<>>, NEW frame \in Frames,
         SetTop(Main, frame)
  PROVE  /\ stack'[Main] # <<>> /\ Top(Main)' = frame
         /\ frame.code = 1 => ~NoneFailed'
         /\ NoneFailed' => \/ NoneFailed
                           \/ Top(Main).code # 0
<1> DEFINE s == stack[Main]
           n == Len(s)
           s2 == [s EXCEPT ![n] = frame]
<1>1. s \in Seq(Frames) /\ n \in Nat \ {0}
  BY TopType, ThreadsAssumption DEF TypeOK
<1>2. stack' = [stack EXCEPT ![Main] = s2]
  BY DEF SetTop
<1>3. stack'[Main] = s2
  BY <1>2, ThreadsAssumption DEF TypeOK
<1> HIDE DEF s2
<1>4. /\ s2 \in Seq(Frames) /\ Len(s2) = n
      /\ \A j \in 1 .. n : s2[j] = IF j = n THEN frame ELSE s[j]
  BY <1>1, ExceptSeq DEF s2
<1>5. s2 # <<>>
  BY <1>1, <1>4, EmptySeq
<1>6. Top(Main)' = frame
  BY <1>1, <1>3, <1>4 DEF Top
<1>7. n \in 1 .. n
  BY <1>1
<1>8. frame.code = 1 => ~NoneFailed'
  BY <1>3, <1>4, <1>7, ThreadsAssumption DEF NoneFailed
<1>9. ASSUME NoneFailed', Top(Main).code = 0 PROVE NoneFailed
  <2>1. \A j \in 1 .. n : s2[j].code = 0
    BY <1>9, <1>3, <1>4, ThreadsAssumption DEF NoneFailed
  <2>2. \A j \in 1 .. n : s[j].code = 0
    BY <1>9, <2>1, <1>4 DEF Top
  <2> QED BY <2>2 DEF OneThread, NoneFailed
<1> QED BY <1>3, <1>5, <1>6, <1>8, <1>9

(* What a new frame does to the stack. *)
LEMMA Pushed ==
  ASSUME OneThread, TypeOK, NEW sig \in Signals \cup {"call"}, Push(Main, sig)
  PROVE  /\ stack'[Main] # <<>>
         /\ Top(Main)' \in Frames
         /\ Top(Main)'.pc = "open" /\ Top(Main)'.idx = 0 /\ Top(Main)'.code = 0
         /\ NoneFailed' => NoneFailed
<1> DEFINE f == [sig |-> sig, pc |-> "open", idx |-> 0, code |-> 0,
                 from |-> result_idx]
           s == stack[Main]
<1>1. f \in Frames /\ f.pc = "open" /\ f.idx = 0 /\ f.code = 0
  BY DEF TypeOK, Frames, FramePcs
<1>2. s \in Seq(Frames) /\ Len(s) \in Nat
  BY ThreadsAssumption, LenProperties DEF TypeOK
<1>3. stack' = [stack EXCEPT ![Main] = Append(s, f)]
  BY DEF Push
<1> HIDE DEF f
<1>4. stack'[Main] = Append(s, f)
  BY <1>3, ThreadsAssumption DEF TypeOK
<1>5. /\ Append(s, f) # <<>> /\ Len(Append(s, f)) = Len(s) + 1
      /\ \A i \in 1 .. Len(s) : Append(s, f)[i] = s[i]
      /\ Append(s, f)[Len(s) + 1] = f
  BY <1>1, <1>2, AppendProperties
<1>6. Top(Main)' = f
  BY <1>4, <1>5 DEF Top
<1>7. ASSUME NoneFailed' PROVE NoneFailed
  <2>1. \A i \in 1 .. Len(s) + 1 : Append(s, f)[i].code = 0
    BY <1>7, <1>4, <1>5, ThreadsAssumption DEF NoneFailed
  <2>2. \A i \in 1 .. Len(s) : i \in 1 .. Len(s) + 1
    BY <1>2
  <2>3. \A i \in 1 .. Len(s) : s[i].code = 0
    BY <2>1, <2>2, <1>5
  <2> QED BY <2>3 DEF OneThread, NoneFailed
<1> QED BY <1>1, <1>4, <1>5, <1>6, <1>7

-----------------------------------------------------------------------------
(* The initial state, and the steps that find no handler on the stack. *)

LEMMA OneThreadInit == OneThread /\ Init => OneThreadInv
<1> SUFFICES ASSUME OneThread, Init PROVE OneThreadInv
  OBVIOUS
<1>1. TypeOK
  BY InitType
<1>2. RecordsInv
  <2>1. BufLogSize \in Nat /\ 0 < BufLogSize
    BY SizeAssumption DEF OneThread
  <2>2. /\ measured = 0 /\ result_idx = 0 /\ rpc = "store"
        /\ buf_full_flag = FALSE /\ misused = FALSE
    BY DEF Init, StdioInit
  <2> QED BY <2>1, <2>2 DEF RecordsInv, Slots
<1>3. stack[Main] = <<>> /\ streams = <<>> /\ Len(streams) = 0
  BY ThreadsAssumption DEF Init, StdioInit
<1> QED BY <1>2, <1>3
        DEF OneThreadInv, TopInv, StreamsInv, FileIsPrefix, LogIsComplete, Init

(* What is empty is a piece and a beginning of any log. *)
LEMMA EmptyPiece ==
  ASSUME NEW c \in Seq(Lines)
  PROVE  Piece(0, <<>>, c) /\ Begins(<<>>, c)
BY EmptySeq, LenProperties DEF Piece, Begins

(* Every value of the flag and the index makes a log. *)
LEMMA LogType ==
  /\ TypeOK => CompleteLog \in Seq(Lines)
  /\ TypeOK' => CompleteLog' \in Seq(Lines)
<1>1. \A full \in BOOLEAN, n \in Nat : Heading(full) \o Rows(n) \in Seq(Lines)
  BY HeadingLines, RowsLines, ConcatProperties
<1> QED BY <1>1 DEF CompleteLog, TypeOK

LEMMA OneThreadStartups ==
  ASSUME OneThread, Inv, TypeOK', Startups
  PROVE  OneThreadInv'
<1>1. /\ stack[Main] = <<>> /\ stack' = stack /\ Running
      /\ UNCHANGED <<rpc, measured, buf_log, result_idx, buf_full_flag>>
      /\ status' \in {"running", "exit1"}
  BY DEF Startups, Startup, Free, Probe, Create, RemoveOld, RegisterInt,
         RegisterTerm, Running
<1>2. misused' = misused
  BY DEF Startups, Probe, Create, RemoveOld, RegisterInt, RegisterTerm,
         FOpenW, Remove, stdioVars
<1>3. RecordsInv'
  BY <1>1, <1>2 DEF Inv, OneThreadInv, RecordsInv, Slots
<1>4. /\ \A k \in 1 .. Len(streams') :
           streams'[k].off = 0 /\ streams'[k].buf = <<>>
      /\ up' \notin {"probe", "create", "remove"} => file' = <<>>
      /\ up' \in {"probe", "create", "remove"} => streams' = <<>>
  <2>1. /\ \A k \in 1 .. Len(streams) :
             streams[k].off = 0 /\ streams[k].buf = <<>>
        /\ up \notin {"probe", "create", "remove"} => file = <<>>
        /\ up \in {"probe", "create", "remove"} => streams = <<>>
    BY <1>1 DEF Inv, OneThreadInv, StreamsInv
  <2>2. CASE Probe
    BY <2>1, <2>2 DEF Probe, Startup, stdioVars
  <2>3. CASE Create
    <3>1. CASE FOpenW /\ up' = "sigint"
      <4>1. /\ file' = <<>> /\ Len(streams') = Len(streams) + 1
            /\ Len(streams) \in Nat
            /\ \A k \in 1 .. Len(streams) : streams'[k] = streams[k]
            /\ streams'[Len(streams')] = [off |-> 0, buf |-> <<>>, open |-> TRUE]
        BY <3>1, OpenedStream DEF Inv, TypeOK
      <4> QED BY <4>1, <2>1, <3>1
    <3>2. CASE UNCHANGED <<stdioVars, up>>
      BY <2>1, <3>2 DEF stdioVars
    <3> QED BY <2>3, <3>1, <3>2 DEF Create
  <2>4. CASE RemoveOld
    BY <2>1, <2>4 DEF RemoveOld, Remove, Startup, stdioVars
  <2>5. CASE RegisterInt
    BY <2>1, <2>5 DEF RegisterInt, Startup, stdioVars
  <2>6. CASE RegisterTerm
    BY <2>1, <2>6 DEF RegisterTerm, Startup, stdioVars
  <2> QED BY <2>2, <2>3, <2>4, <2>5, <2>6 DEF Startups
<1>5. CompleteLog' \in Seq(Lines)
  BY LogType
<1>6. StreamsInv'
  BY <1>1, <1>4, <1>5, EmptyPiece DEF StreamsInv
<1>7. FileIsPrefix'
  BY <1>4, <1>5, EmptyPiece DEF FileIsPrefix
<1> QED BY <1>1, <1>3, <1>6, <1>7 DEF OneThreadInv, TopInv, LogIsComplete

LEMMA ReportRecords ==
  ASSUME OneThread, Inv, TypeOK', Report
  PROVE  RecordsInv'
<1>1. /\ stack[Main] = <<>> /\ RecordsInv /\ BufLogSize \in Nat
      /\ measured \in Nat /\ result_idx \in Nat
  BY SizeAssumption
    DEF Report, StoreResult, IncResultIdx, CheckFull, Full, CallHandler, Reporting,
        Free, OneThread, Inv, OneThreadInv, TypeOK
<1>2. CASE StoreResult
  <2>1. rpc = "store" /\ result_idx < BufLogSize /\ measured = result_idx
    BY <1>1, <1>2 DEF StoreResult, Reporting, RecordsInv
  <2>2. result_idx \in Slots
    BY <1>1, <2>1 DEF Slots
  <2>3. /\ measured' = measured + 1 /\ rpc' = "inc" /\ misused' = misused
        /\ buf_log' = [buf_log EXCEPT ![result_idx] = measured + 1]
        /\ UNCHANGED <<result_idx, buf_full_flag, stack>>
    BY <1>2, <2>2 DEF StoreResult, stdioVars
  <2>4. ASSUME NEW i \in Slots, i < measured'
        PROVE buf_log'[i] = i + 1
    <3>1. i \in Nat
      BY DEF Slots
    <3>2. CASE i = result_idx
      BY <1>1, <2>1, <2>2, <2>3, <3>2 DEF Inv, TypeOK
    <3>3. CASE i # result_idx
      <4>1. i < measured
        BY <1>1, <2>1, <2>3, <2>4, <3>1, <3>3
      <4>2. buf_log'[i] = buf_log[i]
        BY <2>3, <3>3 DEF Inv, TypeOK
      <4> QED BY <1>1, <4>1, <4>2 DEF RecordsInv
    <3> QED BY <3>2, <3>3
  <2> QED BY <1>1, <2>1, <2>3, <2>4 DEF RecordsInv, Slots
<1>3. CASE IncResultIdx
  BY <1>1, <1>3 DEF IncResultIdx, Reporting, RecordsInv, stdioVars, Slots
<1>4. CASE CheckFull
  BY <1>1, <1>4 DEF CheckFull, Full, Reporting, RecordsInv, stdioVars, Slots
<1>5. CASE CallHandler
  <2>1. stack'[Main] # <<>>
    BY <1>5, Pushed DEF CallHandler, OneThread, Inv
  <2> QED BY <1>1, <1>5, <2>1
          DEF CallHandler, Reporting, RecordsInv, stdioVars, Slots
<1> QED BY <1>2, <1>3, <1>4, <1>5 DEF Report

LEMMA OneThreadReport ==
  ASSUME OneThread, Inv, TypeOK', Report
  PROVE  OneThreadInv'
<1>1. RecordsInv'
  BY ReportRecords
<1>2. /\ stack[Main] = <<>> /\ Running
      /\ up \notin {"probe", "create", "remove", "sigint"}
      /\ UNCHANGED <<up, status>>
  BY DEF Report, StoreResult, IncResultIdx, CheckFull, Full, CallHandler, Reporting,
         Measures, Free, OneThread
<1>3. UNCHANGED <<present, file, streams>>
  BY DEF Report, StoreResult, IncResultIdx, CheckFull, Full, CallHandler, Misuse,
         stdioVars
<1>4. /\ \A k \in 1 .. Len(streams) :
           streams[k].off = 0 /\ streams[k].buf = <<>>
      /\ file = <<>>
  BY <1>2 DEF Inv, OneThreadInv, StreamsInv
<1>5. CompleteLog' \in Seq(Lines)
  BY LogType
<1>6. StreamsInv' /\ FileIsPrefix'
  BY <1>2, <1>3, <1>4, <1>5, EmptyPiece DEF StreamsInv, FileIsPrefix
<1>7. TopInv'
  <2>1. CASE CallHandler
    <3>1. /\ stack'[Main] # <<>>
          /\ Top(Main)'.pc = "open" /\ Top(Main)'.idx = 0 /\ Top(Main)'.code = 0
      BY <2>1, Pushed DEF CallHandler, OneThread, Inv
    <3> QED BY <1>2, <3>1 DEF TopInv
  <2>2. CASE ~CallHandler
    <3>1. stack' = stack
      BY <2>2 DEF Report, StoreResult, IncResultIdx, CheckFull, Full
    <3> QED BY <1>2, <3>1 DEF TopInv
  <2> QED BY <2>1, <2>2
<1>8. LogIsComplete'
  BY <1>2 DEF Running, LogIsComplete
<1> QED BY <1>1, <1>6, <1>7, <1>8 DEF OneThreadInv

LEMMA OneThreadDeliver ==
  ASSUME OneThread, Inv, TypeOK', NEW sig \in Signals, Deliver(Main, sig)
  PROVE  OneThreadInv'
<1>1. /\ stack'[Main] # <<>>
      /\ Top(Main)'.pc = "open" /\ Top(Main)'.idx = 0 /\ Top(Main)'.code = 0
      /\ NoneFailed' => NoneFailed
  BY Pushed DEF Deliver, Inv
<1>2. /\ UNCHANGED <<stdioVars, procVars, status>> /\ Running
      /\ up \notin {"probe", "create", "remove", "sigint"}
  BY DEF Deliver, Handled
<1>3. CompleteLog' = CompleteLog
  BY <1>2, LogFrozen DEF procVars
<1>4. RecordsInv'
  BY <1>1, <1>2 DEF Inv, OneThreadInv, RecordsInv, Slots, stdioVars, procVars
<1>5. TopInv'
  BY <1>1, <1>2 DEF TopInv, procVars
<1>6. StreamsInv'
  BY <1>1, <1>2, <1>3 DEF Inv, OneThreadInv, StreamsInv, stdioVars, procVars
<1>7. FileIsPrefix'
  BY <1>1, <1>2, <1>3
    DEF Inv, OneThreadInv, FileIsPrefix, stdioVars, procVars
<1> QED BY <1>2, <1>4, <1>5, <1>6, <1>7 DEF OneThreadInv, LogIsComplete, Running

-----------------------------------------------------------------------------
(* The steps of the handler on top. *)

(* What is left to show of a step that changes the top frame only.  *)
LEMMA HandlerStep ==
  ASSUME OneThread, Inv, stack[Main] # <<>>, NEW frame \in Frames,
         SetTop(Main, frame), UNCHANGED <<procVars, status>>, Running,
         misused' = misused, Pieces(streams', CompleteLog),
         frame.code = 0 => Top(Main).code = 0,
         NoneFailed /\ frame.code = 0 => Begins(file', CompleteLog),
         TopInv'
  PROVE  OneThreadInv'
<1>1. CompleteLog' = CompleteLog
  BY LogFrozen DEF procVars
<1>2. /\ stack'[Main] # <<>>
      /\ frame.code = 1 => ~NoneFailed'
      /\ NoneFailed' => NoneFailed \/ Top(Main).code # 0
      /\ frame.code \in {0, 1}
  BY NewTop DEF Inv, Frames
<1>3. up \notin {"probe", "create", "remove", "sigint"} /\ up' = up
  BY DEF Inv, OneThreadInv, TopInv, procVars
<1>4. RecordsInv'
  BY <1>2 DEF Inv, OneThreadInv, RecordsInv, Slots, procVars
<1>5. StreamsInv'
  BY <1>1, <1>2, <1>3 DEF StreamsInv, Pieces
<1>6. FileIsPrefix'
  BY <1>1, <1>2 DEF FileIsPrefix
<1>7. LogIsComplete'
  BY DEF Running, LogIsComplete
<1> QED BY <1>4, <1>5, <1>6, <1>7 DEF OneThreadInv

(* The log is at hand whenever the handler is writing. *)
LEMMA Writing ==
  ASSUME OneThread, Inv, stack[Main] # <<>>,
         Top(Main).pc \in {"warn", "bufsize", "title", "rows", "close"}
  PROVE  /\ CompleteLog \in Seq(Lines) /\ StdioTypeOK
         /\ Top(Main) \in Frames /\ Top(Main).code = 0
         /\ up \notin {"probe", "create", "remove", "sigint"}
         /\ Top(Main).pc \in {"warn", "bufsize", "title"} => Top(Main).idx = 0
         /\ Top(Main).pc = "rows" => Top(Main).idx <= result_idx
         /\ present /\ log_fp = Len(streams) /\ IsOpen(log_fp)
         /\ Begins(file, CompleteLog) /\ Len(file) = streams[log_fp].off
         /\ Len(file) + Len(streams[log_fp].buf) = Printed(Top(Main))
         /\ Pieces(streams, CompleteLog)
<1>1. Top(Main) \in Frames
  BY TopType, ThreadsAssumption DEF Inv
<1>2. CompleteLog \in Seq(Lines) /\ StdioTypeOK
  BY LogType DEF Inv, TypeOK
<1>3. Pieces(streams, CompleteLog)
  BY DEF Inv, OneThreadInv, StreamsInv, Pieces
<1> QED BY <1>1, <1>2, <1>3 DEF Inv, OneThreadInv, TopInv

(* A handler that prints the next line of the log and moves on. *)
LEMMA PrintStep ==
  ASSUME OneThread, Inv, stack[Main] # <<>>, Running,
         Top(Main).pc \in {"warn", "bufsize", "title", "rows"},
         NEW line, line = CompleteLog[Printed(Top(Main)) + 1],
         Printed(Top(Main)) < Len(CompleteLog),
         FPrintf(log_fp, line),
         NEW frame \in Frames, SetTop(Main, frame), frame.code = 0,
         frame.pc \in {"bufsize", "title", "rows"},
         frame.pc \in {"bufsize", "title"} => frame.idx = 0,
         frame.pc = "rows" => frame.idx <= result_idx,
         Printed(frame) = Printed(Top(Main)) + 1,
         UNCHANGED <<procVars, log_fp, status>>
  PROVE  OneThreadInv'
<1>1. /\ CompleteLog \in Seq(Lines) /\ StdioTypeOK
      /\ Top(Main) \in Frames /\ Top(Main).code = 0
      /\ up \notin {"probe", "create", "remove", "sigint"}
      /\ present /\ log_fp = Len(streams) /\ IsOpen(log_fp)
      /\ Begins(file, CompleteLog) /\ Len(file) = streams[log_fp].off
      /\ Len(file) + Len(streams[log_fp].buf) = Printed(Top(Main))
      /\ Pieces(streams, CompleteLog)
  BY Writing
<1>2. /\ UNCHANGED <<present, misused>>
      /\ Len(streams') = Len(streams) /\ Pieces(streams', CompleteLog)
      /\ IsOpen(log_fp)'
      /\ Begins(file', CompleteLog) /\ Len(file') = streams'[log_fp].off
      /\ Len(file') + Len(streams'[log_fp].buf) = Printed(Top(Main)) + 1
  BY <1>1, FPrintfEffect
<1>3. stack'[Main] # <<>> /\ Top(Main)' = frame
  BY NewTop DEF Inv
<1>4. /\ CompleteLog' = CompleteLog /\ Printed(frame)' = Printed(frame)
      /\ up' = up /\ result_idx' = result_idx
  BY LogFrozen DEF procVars
<1>5. Printed(Top(Main))' = Printed(frame)
  BY <1>3, <1>4
<1>6. TopInv'
  BY <1>1, <1>2, <1>3, <1>4, <1>5 DEF TopInv
<1> QED BY <1>1, <1>2, <1>6, HandlerStep

(* A handler that moves on without touching the library. *)
LEMMA SilentStep ==
  ASSUME OneThread, Inv, stack[Main] # <<>>, Running,
         Top(Main).code = 0,
         NEW frame \in Frames, SetTop(Main, frame), frame.code = 0,
         UNCHANGED <<stdioVars, procVars, log_fp, status>>, TopInv'
  PROVE  OneThreadInv'
<1>1. NoneFailed => Begins(file, CompleteLog)
  BY DEF Inv, OneThreadInv, TopInv, FileIsPrefix
<1>2. Pieces(streams', CompleteLog)
  BY DEF Inv, OneThreadInv, StreamsInv, Pieces, stdioVars
<1> QED BY <1>1, <1>2, HandlerStep DEF stdioVars

(* A top frame that has only its program counter changed. *)
LEMMA GotoFrame ==
  ASSUME OneThread, Inv, stack[Main] # <<>>, NEW pc \in FramePcs
  PROVE  LET frame == [Top(Main) EXCEPT !.pc = pc]
         IN /\ frame \in Frames /\ frame.pc = pc
            /\ frame.idx = Top(Main).idx /\ frame.code = Top(Main).code
            /\ Goto(Main, pc) => SetTop(Main, frame)
<1>1. Top(Main) \in Frames
  BY TopType, ThreadsAssumption DEF Inv
<1> QED BY <1>1 DEF Frames, Goto

LEMMA ExitFrame ==
  ASSUME OneThread, Inv, stack[Main] # <<>>, NEW c \in {0, 1},
         Len(streams') \in Nat
  PROVE  LET frame == [Top(Main) EXCEPT !.pc = "exit", !.idx = Len(streams'),
                                        !.code = c]
         IN /\ frame \in Frames /\ frame.pc = "exit" /\ frame.code = c
            /\ GotoExit(Main, c) => SetTop(Main, frame)
<1>1. Top(Main) \in Frames
  BY TopType, ThreadsAssumption DEF Inv
<1> QED BY <1>1 DEF Frames, FramePcs, GotoExit

LEMMA OneThreadFopen ==
  ASSUME OneThread, Inv, CallFopen(Main) \/ Hang(Main) \/ OpenLog(Main)
  PROVE  OneThreadInv'
<1>1. CASE CallFopen(Main) \/ Hang(Main)
  <2>1. /\ stack[Main] # <<>> /\ Running /\ Top(Main).pc # "exit"
        /\ CallFopen(Main) => Top(Main).pc = "open"
        /\ UNCHANGED <<stdioVars, procVars, log_fp, status>>
    BY <1>1 DEF CallFopen, Hang, InHeap, At
  <2>2. PICK pc \in {"alloc", "hang"} :
          Goto(Main, pc) /\ (pc = "alloc" => CallFopen(Main))
    BY <1>1 DEF CallFopen, Hang
  <2> DEFINE frame == [Top(Main) EXCEPT !.pc = pc]
  <2>3. /\ Top(Main).code = 0 /\ up \notin {"probe", "create", "remove", "sigint"}
        /\ pc = "alloc" => Top(Main).idx = 0
    BY <2>1, <2>2 DEF Inv, OneThreadInv, TopInv
  <2>4. /\ frame \in Frames /\ frame.pc = pc
        /\ frame.idx = Top(Main).idx /\ frame.code = 0 /\ SetTop(Main, frame)
    BY <2>1, <2>2, <2>3, GotoFrame DEF FramePcs
  <2> HIDE DEF frame
  <2>5. stack'[Main] # <<>> /\ Top(Main)' = frame
    BY <2>1, <2>4, NewTop DEF Inv
  <2>6. TopInv'
    BY <2>1, <2>2, <2>3, <2>4, <2>5 DEF TopInv, procVars
  <2> QED BY <2>1, <2>3, <2>4, <2>6, SilentStep
<1>2. CASE OpenLog(Main)
  <2>1. /\ stack[Main] # <<>> /\ Running /\ Top(Main).pc = "alloc"
        /\ UNCHANGED <<procVars, status>>
    BY <1>2 DEF OpenLog, At
  <2>2. Top(Main).code = 0 /\ Top(Main).idx = 0 /\ up \notin {"probe", "create", "remove", "sigint"}
    BY <2>1 DEF Inv, OneThreadInv, TopInv
  <2>3. /\ CompleteLog' = CompleteLog /\ CompleteLog \in Seq(Lines)
        /\ up' = up
    BY <2>1, LogFrozen, LogType DEF procVars, Inv
  <2>4. Pieces(streams, CompleteLog)
    BY DEF Inv, OneThreadInv, StreamsInv, Pieces
  <2>5. CASE FOpenW /\ log_fp' = Len(streams') /\ Goto(Main, "warn")
    <3> DEFINE frame == [Top(Main) EXCEPT !.pc = "warn"]
    <3>1. /\ frame \in Frames /\ frame.pc = "warn"
          /\ frame.idx = 0 /\ frame.code = 0 /\ SetTop(Main, frame)
      BY <2>1, <2>2, <2>5, GotoFrame DEF FramePcs
    <3> HIDE DEF frame
    <3>2. stack'[Main] # <<>> /\ Top(Main)' = frame
      BY <2>1, <3>1, NewTop DEF Inv
    <3>3. /\ present' /\ file' = <<>> /\ misused' = misused
          /\ Len(streams') = Len(streams) + 1 /\ Len(streams) \in Nat
          /\ \A k \in 1 .. Len(streams) : streams'[k] = streams[k]
          /\ streams'[Len(streams')] = [off |-> 0, buf |-> <<>>, open |-> TRUE]
      BY <2>5, OpenedStream DEF Inv, TypeOK
    <3>4. Begins(file', CompleteLog) /\ Piece(0, <<>>, CompleteLog)
      BY <2>3, <3>3, EmptyPiece
    <3>5. Pieces(streams', CompleteLog)
      BY <2>4, <3>3, <3>4 DEF Pieces
    <3>6. Top(Main)'.pc = "warn" /\ Printed(Top(Main))' = 0
      BY <3>1, <3>2 DEF Printed
    <3>7. Len(<<>>) = 0
      BY EmptySeq
    <3>8. TopInv'
      <4>1. IsOpen(log_fp)' /\ streams'[log_fp'].off = 0
            /\ streams'[log_fp'].buf = <<>>
        BY <2>5, <3>3 DEF IsOpen
      <4> QED BY <2>2, <2>3, <2>5, <3>1, <3>2, <3>3, <3>4, <3>6, <3>7, <4>1
              DEF TopInv
    <3> QED BY <2>1, <2>2, <3>1, <3>3, <3>4, <3>5, <3>8, HandlerStep
  <2>6. CASE UNCHANGED stdioVars /\ GotoExit(Main, 1)
    <3> DEFINE frame == [Top(Main) EXCEPT !.pc = "exit", !.idx = Len(streams'),
                                          !.code = 1]
    <3>1. Len(streams') \in Nat
      BY <2>6, LenProperties DEF Inv, TypeOK, StdioTypeOK, stdioVars
    <3>2. /\ frame \in Frames /\ frame.pc = "exit" /\ frame.code = 1
          /\ SetTop(Main, frame)
      BY <2>1, <2>6, <3>1, ExitFrame
    <3> HIDE DEF frame
    <3>3. stack'[Main] # <<>> /\ Top(Main)' = frame
      BY <2>1, <3>2, NewTop DEF Inv
    <3>4. TopInv'
      BY <2>2, <2>3, <3>2, <3>3 DEF TopInv
    <3> QED BY <2>1, <2>4, <2>6, <3>2, <3>4, HandlerStep DEF stdioVars
  <2> QED BY <1>2, <2>5, <2>6 DEF OpenLog
<1> QED BY <1>1, <1>2

(* The lengths that place the next line of the log. *)
LEMMA HeadingLength ==
  ASSUME TypeOK
  PROVE  /\ Len(Heading(buf_full_flag)) = (IF buf_full_flag THEN 3 ELSE 2)
         /\ Len(CompleteLog) = Len(Heading(buf_full_flag)) + result_idx
         /\ result_idx \in Nat
BY LogElements DEF TypeOK

LEMMA OneThreadHeading ==
  ASSUME OneThread, Inv,
         PrintWarn(Main) \/ PrintBufSize(Main) \/ PrintTitle(Main)
  PROVE  OneThreadInv'
<1>1. ASSUME NEW at \in {"warn", "bufsize", "title"}, NEW line,
             NEW to \in {"bufsize", "title", "rows"},
             PrintLine(Main, at, line, to),
             \A f : f.pc = at => Printed(f) < Len(CompleteLog)
                                /\ line = CompleteLog[Printed(f) + 1],
             \A f, g : f.pc = at /\ g.pc = to /\ g.idx = 0
                         => Printed(g) = Printed(f) + 1
      PROVE  OneThreadInv'
  <2>1. /\ stack[Main] # <<>> /\ Running /\ Top(Main).pc = at
        /\ FPrintf(log_fp, line) /\ Goto(Main, to)
        /\ UNCHANGED <<procVars, log_fp, status>>
    BY <1>1 DEF PrintLine, At
  <2>2. Top(Main).code = 0 /\ Top(Main).idx = 0 /\ result_idx \in Nat
    BY <2>1, Writing DEF Inv, TypeOK
  <2> DEFINE frame == [Top(Main) EXCEPT !.pc = to]
  <2>3. /\ frame \in Frames /\ frame.pc = to
        /\ frame.idx = 0 /\ frame.code = 0 /\ SetTop(Main, frame)
    BY <2>1, <2>2, GotoFrame DEF FramePcs
  <2> HIDE DEF frame
  <2>4. /\ Printed(Top(Main)) < Len(CompleteLog)
        /\ line = CompleteLog[Printed(Top(Main)) + 1]
        /\ Printed(frame) = Printed(Top(Main)) + 1
    BY <1>1, <2>1, <2>3
  <2> QED BY <2>1, <2>2, <2>3, <2>4, PrintStep
<1> DEFINE h == Len(Heading(buf_full_flag))
<1>2. /\ h = (IF buf_full_flag THEN 3 ELSE 2)
      /\ Len(CompleteLog) = h + result_idx /\ result_idx \in Nat
  BY HeadingLength DEF Inv
<1>3. /\ buf_full_flag => CompleteLog[1] = Warn
      /\ CompleteLog[h - 1] = BufSize
      /\ CompleteLog[h] = Title
  BY LogElements DEF Inv
<1>4. \A f : /\ f.pc = "warn" => Printed(f) = 0
             /\ f.pc = "bufsize" => Printed(f) = h - 2
             /\ f.pc = "title" => Printed(f) = h - 1
             /\ f.pc = "rows" => Printed(f) = h + f.idx
  BY DEF Printed
<1> HIDE DEF h
<1>5. CASE PrintWarn(Main)
  <2>1. CASE buf_full_flag /\ PrintLine(Main, "warn", Warn, "bufsize")
    <3>1. \A f : f.pc = "warn" => Printed(f) < Len(CompleteLog)
                                /\ Warn = CompleteLog[Printed(f) + 1]
      BY <2>1, <1>2, <1>3, <1>4
    <3>2. \A f, g : f.pc = "warn" /\ g.pc = "bufsize" /\ g.idx = 0
                     => Printed(g) = Printed(f) + 1
      BY <2>1, <1>2, <1>4
    <3> QED BY <2>1, <3>1, <3>2, <1>1
  <2>2. CASE /\ ~buf_full_flag /\ At(Main, "warn") /\ Goto(Main, "bufsize")
             /\ UNCHANGED <<stdioVars, procVars, log_fp, sigVars, status>>
    <3>1. stack[Main] # <<>> /\ Running /\ Top(Main).pc = "warn"
      BY <2>2 DEF At
    <3>2. /\ Top(Main).code = 0 /\ Top(Main).idx = 0 /\ up \notin {"probe", "create", "remove", "sigint"}
          /\ present /\ log_fp = Len(streams) /\ IsOpen(log_fp)
          /\ Begins(file, CompleteLog) /\ Len(file) = streams[log_fp].off
          /\ Len(file) + Len(streams[log_fp].buf) = 0
      BY <3>1, <1>4, Writing
    <3> DEFINE frame == [Top(Main) EXCEPT !.pc = "bufsize"]
    <3>3. /\ frame \in Frames /\ frame.pc = "bufsize"
          /\ frame.idx = 0 /\ frame.code = 0 /\ SetTop(Main, frame)
      BY <2>2, <3>1, <3>2, GotoFrame DEF FramePcs
    <3> HIDE DEF frame
    <3>4. stack'[Main] # <<>> /\ Top(Main)' = frame
      BY <3>1, <3>3, NewTop DEF Inv
    <3>5. CompleteLog' = CompleteLog /\ Printed(Top(Main))' = 0
      <4>1. \A f : Printed(f)' = Printed(f) /\ CompleteLog' = CompleteLog
        BY <2>2, LogFrozen DEF procVars
      <4>2. Printed(frame) = 0
        BY <2>2, <1>2, <1>4, <3>3
      <4> QED BY <3>4, <4>1, <4>2
    <3>6. TopInv'
      BY <2>2, <3>2, <3>3, <3>4, <3>5 DEF TopInv, IsOpen, stdioVars, procVars
    <3> QED BY <2>2, <3>1, <3>2, <3>3, <3>6, SilentStep
  <2> QED BY <1>5, <2>1, <2>2 DEF PrintWarn
<1>6. CASE PrintBufSize(Main)
  <2>1. \A f : f.pc = "bufsize" => Printed(f) < Len(CompleteLog)
                                 /\ BufSize = CompleteLog[Printed(f) + 1]
    BY <1>2, <1>3, <1>4
  <2>2. \A f, g : f.pc = "bufsize" /\ g.pc = "title" /\ g.idx = 0
                   => Printed(g) = Printed(f) + 1
    BY <1>2, <1>4
  <2> QED BY <1>6, <2>1, <2>2, <1>1 DEF PrintBufSize
<1>7. CASE PrintTitle(Main)
  <2>1. \A f : f.pc = "title" => Printed(f) < Len(CompleteLog)
                               /\ Title = CompleteLog[Printed(f) + 1]
    BY <1>2, <1>3, <1>4
  <2>2. \A f, g : f.pc = "title" /\ g.pc = "rows" /\ g.idx = 0
                   => Printed(g) = Printed(f) + 1
    BY <1>2, <1>4
  <2> QED BY <1>7, <2>1, <2>2, <1>1 DEF PrintTitle
<1> QED BY <1>5, <1>6, <1>7

LEMMA OneThreadRows ==
  ASSUME OneThread, Inv, PrintRow(Main) \/ RowsDone(Main)
  PROVE  OneThreadInv'
<1>1. /\ stack[Main] # <<>> /\ Running /\ Top(Main).pc = "rows"
      /\ UNCHANGED <<procVars, log_fp, status>>
  BY DEF PrintRow, RowsDone, At
<1> DEFINE h == Len(Heading(buf_full_flag))
           i == Top(Main).idx
<1>2. /\ Top(Main) \in Frames /\ Top(Main).code = 0
      /\ i \in Nat /\ i <= result_idx /\ result_idx \in Nat
      /\ up \notin {"probe", "create", "remove", "sigint"}
      /\ present /\ log_fp = Len(streams) /\ IsOpen(log_fp)
      /\ Begins(file, CompleteLog) /\ Len(file) = streams[log_fp].off
      /\ Len(file) + Len(streams[log_fp].buf) = Printed(Top(Main))
  BY <1>1, Writing DEF Inv, TypeOK, Frames
<1>3. /\ h \in Nat /\ Len(CompleteLog) = h + result_idx
      /\ \A k \in 1 .. result_idx : CompleteLog[h + k] = Row(k)
  BY LogElements, HeadingLength DEF Inv
<1>4. Printed(Top(Main)) = h + i
  BY <1>1 DEF Printed
<1>5. CASE PrintRow(Main)
  <2> DEFINE frame == [Top(Main) EXCEPT !.idx = i + 1]
             line == Row(Read(Main, i))
  <2>1. i < result_idx /\ FPrintf(log_fp, line) /\ SetTop(Main, frame)
    BY <1>5 DEF PrintRow
  <2>2. /\ frame \in Frames /\ frame.pc = "rows"
        /\ frame.idx = i + 1 /\ frame.code = 0
    BY <1>1, <1>2 DEF Frames
  <2>3. i \in Slots /\ i < measured
    BY <1>2, <2>1, SizeAssumption DEF Inv, OneThreadInv, RecordsInv, TypeOK, Slots
  <2>4. Read(Main, i) = i + 1
    <3>1. buf_log[i] = i + 1
      BY <2>3 DEF Inv, OneThreadInv, RecordsInv
    <3> QED BY <2>3, <3>1 DEF OneThread, Read
  <2>5. line = CompleteLog[Printed(Top(Main)) + 1]
    <3>1. i + 1 \in 1 .. result_idx /\ h + (i + 1) = (h + i) + 1
      <4>1. i < result_idx /\ i \in Nat /\ result_idx \in Nat /\ h \in Nat
        BY <1>2, <1>3, <2>1
      <4> HIDE DEF i, h
      <4> QED BY <4>1
    <3> QED BY <1>3, <1>4, <2>4, <3>1
  <2> HIDE DEF frame, line
  <2>6. Printed(frame) = h + (i + 1)
    BY <2>2 DEF Printed
  <2>7. Printed(Top(Main)) < Len(CompleteLog)
        /\ Printed(frame) = Printed(Top(Main)) + 1
    BY <1>2, <1>3, <1>4, <2>1, <2>6
  <2>8. frame.idx <= result_idx
    BY <1>2, <2>1, <2>2
  <2> QED BY <1>1, <2>1, <2>2, <2>5, <2>7, <2>8, PrintStep
<1>6. CASE RowsDone(Main)
  <2>1. i >= result_idx /\ Goto(Main, "close") /\ UNCHANGED stdioVars
    BY <1>6 DEF RowsDone
  <2> DEFINE frame == [Top(Main) EXCEPT !.pc = "close"]
  <2>2. /\ frame \in Frames /\ frame.pc = "close" /\ frame.code = 0
        /\ SetTop(Main, frame)
    BY <1>1, <1>2, <2>1, GotoFrame DEF FramePcs
  <2> HIDE DEF frame
  <2>3. stack'[Main] # <<>> /\ Top(Main)' = frame
    BY <1>1, <2>2, NewTop DEF Inv
  <2>4. CompleteLog' = CompleteLog /\ Printed(Top(Main))' = Printed(Top(Main))
    <3>1. \A f : Printed(f)' = Printed(f) /\ CompleteLog' = CompleteLog
      BY <1>1, LogFrozen DEF procVars
    <3>2. Printed(frame) = h + result_idx
      BY <2>2 DEF Printed
    <3>3. i = result_idx
      BY <1>2, <2>1
    <3> QED BY <1>4, <2>3, <3>1, <3>2, <3>3
  <2>5. TopInv'
    BY <1>1, <1>2, <2>1, <2>2, <2>3, <2>4 DEF TopInv, IsOpen, stdioVars, procVars
  <2> QED BY <1>1, <1>2, <2>1, <2>2, <2>5, SilentStep
<1> QED BY <1>5, <1>6

LEMMA OneThreadFclose ==
  ASSUME OneThread, Inv, CallFclose(Main)
  PROVE  OneThreadInv'
<1>1. /\ stack[Main] # <<>> /\ Running /\ Top(Main).pc = "close"
      /\ FClose(log_fp) /\ UNCHANGED <<procVars, log_fp, status>>
  BY DEF CallFclose, At
<1>2. Goto(Main, "free")
  BY DEF CallFclose
<1>3. /\ CompleteLog \in Seq(Lines) /\ StdioTypeOK
      /\ Top(Main).code = 0 /\ up \notin {"probe", "create", "remove", "sigint"}
      /\ present /\ IsOpen(log_fp)
      /\ Begins(file, CompleteLog) /\ Len(file) = streams[log_fp].off
      /\ Len(file) + Len(streams[log_fp].buf) = Printed(Top(Main))
      /\ Pieces(streams, CompleteLog)
  BY <1>1, Writing
<1>4. Printed(Top(Main)) = Len(CompleteLog)
  BY <1>1, HeadingLength DEF Printed, Inv
<1>5. /\ UNCHANGED <<present, misused>> /\ Pieces(streams', CompleteLog)
      /\ file' = CompleteLog
  BY <1>1, <1>3, <1>4, FCloseEffect
<1> DEFINE frame == [Top(Main) EXCEPT !.pc = "free"]
<1>6. /\ frame \in Frames /\ frame.pc = "free" /\ frame.code = 0
      /\ SetTop(Main, frame)
  BY <1>1, <1>2, <1>3, GotoFrame DEF FramePcs
<1> HIDE DEF frame
<1>7. stack'[Main] # <<>> /\ Top(Main)' = frame
  BY <1>1, <1>6, NewTop DEF Inv
<1>8. CompleteLog' = CompleteLog
  BY <1>1, LogFrozen DEF procVars
<1>9. TopInv'
  BY <1>1, <1>2, <1>3, <1>5, <1>6, <1>7, <1>8 DEF TopInv, procVars
<1>10. Begins(file', CompleteLog)
  BY <1>3, <1>5, LenProperties DEF Begins
<1> QED BY <1>1, <1>3, <1>5, <1>6, <1>9, <1>10, HandlerStep

LEMMA OneThreadExit ==
  ASSUME OneThread, Inv, CloseLog(Main) \/ Exit(Main)
  PROVE  OneThreadInv'
<1>1. /\ stack[Main] # <<>> /\ Running
      /\ UNCHANGED <<procVars, log_fp>>
  BY DEF CloseLog, Exit, Hang, At
<1>2. /\ CompleteLog \in Seq(Lines) /\ StdioTypeOK
      /\ Pieces(streams, CompleteLog)
      /\ up \notin {"probe", "create", "remove", "sigint"} /\ Top(Main) \in Frames
  BY <1>1, LogType, TopType, ThreadsAssumption
    DEF Inv, TypeOK, OneThreadInv, StreamsInv, TopInv, Pieces
<1>3. CompleteLog' = CompleteLog
  BY <1>1, LogFrozen DEF procVars
<1>4. CASE CloseLog(Main)
  <2>1. /\ Top(Main).pc = "free" /\ UNCHANGED <<stdioVars, status>>
        /\ GotoExit(Main, 0)
    BY <1>4 DEF CloseLog, At
  <2>2. Top(Main).code = 0 /\ present /\ file = CompleteLog
    BY <1>1, <2>1 DEF Inv, OneThreadInv, TopInv
  <2> DEFINE frame == [Top(Main) EXCEPT !.pc = "exit", !.idx = Len(streams'),
                                        !.code = 0]
  <2>3. Len(streams') \in Nat
    BY <2>1, <1>2, LenProperties DEF StdioTypeOK, stdioVars
  <2>4. /\ frame \in Frames /\ frame.pc = "exit" /\ frame.code = 0
        /\ SetTop(Main, frame)
    BY <1>1, <2>1, <2>3, ExitFrame
  <2> HIDE DEF frame
  <2>5. stack'[Main] # <<>> /\ Top(Main)' = frame
    BY <1>1, <2>4, NewTop DEF Inv
  <2>6. TopInv'
    BY <1>1, <1>2, <1>3, <2>1, <2>2, <2>4, <2>5 DEF TopInv, stdioVars, procVars
  <2> QED BY <1>1, <2>1, <2>2, <2>4, <2>6, SilentStep
<1>5. CASE Exit(Main) /\ Top(Main).idx > 0
  <2>1. /\ Top(Main).pc = "exit" /\ ExitFlush(Top(Main).idx) /\ status' = status
    BY <1>5 DEF Exit, At
  <2> DEFINE frame == [Top(Main) EXCEPT !.idx = Top(Main).idx - 1]
  <2>2. /\ frame \in Frames /\ frame.pc = "exit" /\ frame.code = Top(Main).code
        /\ SetTop(Main, frame)
    BY <1>2, <1>5, <2>1 DEF Exit, Frames
  <2> HIDE DEF frame
  <2>3. stack'[Main] # <<>> /\ Top(Main)' = frame
    BY <1>1, <2>2, NewTop DEF Inv
  <2>4. /\ UNCHANGED <<present, misused>> /\ Pieces(streams', CompleteLog)
        /\ file = CompleteLog => file' = CompleteLog
    BY <1>2, <2>1, ExitFlushEffect
  <2>5. Top(Main).code = 0 =>
          present /\ file = CompleteLog /\ Begins(CompleteLog, CompleteLog)
    BY <1>1, <1>2, <2>1, LenProperties DEF Inv, OneThreadInv, TopInv, Begins
  <2>6. TopInv'
    BY <1>1, <1>2, <1>3, <2>2, <2>3, <2>4, <2>5 DEF TopInv, procVars
  <2> QED BY <1>1, <1>2, <2>1, <2>2, <2>4, <2>5, <2>6, HandlerStep
<1>6. CASE Exit(Main) /\ ~(Top(Main).idx > 0)
  <2>1. /\ Top(Main).pc = "exit" /\ UNCHANGED <<stdioVars, stack>>
        /\ status' = (IF Top(Main).code = 0 THEN "exit0" ELSE "exit1")
    BY <1>6 DEF Exit, At
  <2>2. Top(Main).code = 0 => present /\ file = CompleteLog
    BY <1>1, <2>1 DEF Inv, OneThreadInv, TopInv
  <2>3. LogIsComplete'
    BY <1>3, <2>1, <2>2 DEF LogIsComplete, stdioVars
  <2>4. /\ Top(Main)' = Top(Main) /\ NoneFailed' = NoneFailed
        /\ \A f : Printed(f)' = Printed(f)
    BY <1>1, <2>1, LogFrozen DEF Top, NoneFailed, procVars
  <2>5. RecordsInv' /\ FileIsPrefix' /\ StreamsInv'
    BY <1>1, <1>3, <2>1, <2>4
      DEF Inv, OneThreadInv, RecordsInv, FileIsPrefix, StreamsInv, Slots,
          stdioVars, procVars
  <2>6. TopInv'
    BY <1>1, <1>2, <1>3, <2>1, <2>2, <2>4 DEF TopInv, stdioVars, procVars
  <2> QED BY <2>3, <2>5, <2>6 DEF OneThreadInv
<1> QED BY <1>4, <1>5, <1>6 DEF Exit

LEMMA OneThreadStutter ==
  ASSUME Inv, UNCHANGED <<stdioVars, up, rpc, measured, buf_log, result_idx,
                          buf_full_flag, stack, log_fp>>,
         status' = status \/ status' \in {"killed", "crashed"}
  PROVE  OneThreadInv'
BY DEF Inv, OneThreadInv, RecordsInv, TopInv, StreamsInv, FileIsPrefix,
       LogIsComplete, CompleteLog, Printed, Top, NoneFailed, IsOpen, stdioVars

LEMMA OneThreadLoads ==
  ASSUME Inv, Loads
  PROVE  OneThreadInv'
<1>1. /\ UNCHANGED <<stdioVars, loopVars, stack, log_fp>>
      /\ up \notin {"probe", "create", "remove", "sigint"}
      /\ up' \notin {"probe", "create", "remove", "sigint"}
      /\ status' # "exit0"
  BY LoadsStep
<1> QED BY <1>1
        DEF Inv, OneThreadInv, RecordsInv, TopInv, StreamsInv, FileIsPrefix,
            LogIsComplete, CompleteLog, Printed, Top, NoneFailed, IsOpen,
            stdioVars, loopVars

(* The inductive argument: the types and OneThreadInv together.            *)
LEMMA InvHolds ==
  ASSUME OneThread
  PROVE  Spec => []Inv
<1>1. Init => Inv
  BY InitType, OneThreadInit DEF Inv
<1>2. Inv /\ [Next]_vars => OneThreadInv' \/ ~TypeOK'
  <2> SUFFICES ASSUME Inv, [Next]_vars, TypeOK' PROVE OneThreadInv'
    OBVIOUS
  <2>1. CASE UNCHANGED vars
    BY <2>1, OneThreadStutter DEF vars, stdioVars, procVars
  <2>2. CASE Startups
    BY <2>2, OneThreadStartups
  <2>11. CASE Loads
    BY <2>11, OneThreadLoads
  <2>3. CASE Report
    BY <2>3, OneThreadReport
  <2>4. CASE Drain
    BY <2>4, OneThreadStutter DEF Drain
  <2>5. CASE Crash
    BY <2>5, OneThreadStutter DEF Crash, procVars
  <2>6. CASE Kill
    BY <2>6, OneThreadStutter DEF Kill, procVars
  <2>7. CASE Handler(Main)
    BY <2>7, OneThreadFopen, OneThreadHeading, OneThreadRows, OneThreadFclose,
       OneThreadExit DEF Handler
  <2>8. ASSUME NEW sig \in Signals, Send(sig) PROVE OneThreadInv'
    BY <2>8, OneThreadStutter DEF Send, procVars
  <2>9. ASSUME NEW sig \in Signals, Deliver(Main, sig) PROVE OneThreadInv'
    BY <2>9, OneThreadDeliver
  <2>10. CASE Terminated
    BY <2>10, OneThreadStutter DEF Terminated, vars, stdioVars, procVars
  <2> QED BY <2>1, <2>2, <2>3, <2>4, <2>5, <2>6, <2>7, <2>8, <2>9, <2>10,
          <2>11 DEF Next, OneThread
<1>3. Inv => TypeOK
  BY DEF Inv
<1>4. TypeOK /\ OneThreadInv => Inv
  BY DEF Inv
<1> QED BY <1>1, <1>2, <1>3, <1>4, TypeCorrect, PTL DEF Spec

(* OneThreadInv holds of the program without -m, for every buffer size     *)
(* that has room for a measurement (-e 1 or more).                         *)
THEOREM OneThreadInvariant ==
  ASSUME OneThread
  PROVE  Spec => []OneThreadInv
<1>1. Inv => OneThreadInv
  BY DEF Inv
<1> QED BY <1>1, InvHolds, PTL

(* A run of the program without -m that reports success leaves the         *)
(* complete log: the warning exactly if the buffer was full, the header    *)
(* and every measurement, in order, whatever signals came and whenever.    *)
THEOREM LogComplete ==
  ASSUME OneThread
  PROVE  Spec => []LogIsComplete
<1>1. Inv => LogIsComplete
  BY DEF Inv, OneThreadInv
<1> QED BY <1>1, InvHolds, PTL

(* Killed at any point, it leaves a beginning of that log, unless a        *)
(* handler failed to open the file.                                        *)
THEOREM LogPrefix ==
  ASSUME OneThread
  PROVE  Spec => []FileIsPrefix
<1>1. Inv => FileIsPrefix
  BY DEF Inv, OneThreadInv
<1> QED BY <1>1, InvHolds, PTL

(* It stores nothing outside buf_log and uses no closed stream.            *)
THEOREM NothingMisused ==
  ASSUME OneThread
  PROVE  Spec => []NoMisuse
<1>1. Inv => NoMisuse
  BY DEF Inv, OneThreadInv, RecordsInv, NoMisuse
<1> QED BY <1>1, InvHolds, PTL

-----------------------------------------------------------------------------
(***************************************************************************)
(* The program implements RunLog.  What a run has kept is what it counted, *)
(* and the log that RunLog lets appear in one step is the file that the    *)
(* last handler leaves when exit() is through: OneThreadInv says that it   *)
(* is complete.                                                            *)
(***************************************************************************)

(* A step counts a measurement, ends the process, or changes nothing that  *)
(* the promise speaks of.                                                  *)
LEMMA OutcomeStep ==
  ASSUME [Next]_vars
  PROVE  \/ IncResultIdx
         \/ Running /\ ~Running' /\ UNCHANGED result_idx
         \/ UNCHANGED <<result_idx, status>> /\ (Running \/ UNCHANGED file)
<1> USE DEF Running, procVars, stdioVars
<1>1. CASE Startups
  BY <1>1 DEF Startups, Probe, Create, RemoveOld, RegisterInt, RegisterTerm, Startup, Free
<1>6. CASE Loads
  BY <1>6, LoadsStep DEF loopVars, Free
<1>2. CASE Report
  BY <1>2 DEF Report, StoreResult, CheckFull, CallHandler, Reporting, Free
<1>3. CASE Drain \/ Crash \/ Kill \/ Terminated \/ UNCHANGED vars
  BY <1>3 DEF Drain, Crash, Kill, Terminated, vars
<1>4. CASE \E t \in Threads : Handler(t)
  <2> PICK t \in Threads : Handler(t)
    BY <1>4
  <2>1. Running /\ UNCHANGED result_idx
    BY DEF Handler, CallFopen, OpenLog, PrintWarn, PrintBufSize, PrintTitle,
           PrintLine, PrintRow, RowsDone, CallFclose, CloseLog, Exit, Hang, At
  <2>2. UNCHANGED status \/ ~Running'
    BY DEF Handler, CallFopen, OpenLog, PrintWarn, PrintBufSize, PrintTitle,
           PrintLine, PrintRow, RowsDone, CallFclose, CloseLog, Exit, Hang
  <2> QED BY <2>1, <2>2
<1>5. CASE (\E sig \in Signals : Send(sig)) \/ \E t \in Threads, sig \in Signals : Deliver(t, sig)
  BY <1>5 DEF Send, Deliver
<1> QED BY <1>1, <1>2, <1>3, <1>4, <1>5, <1>6 DEF Next

(* RunLog's lines are those of the program. *)
LEMMA SameLines ==
  /\ \A full : Promise!Heading(full) = Heading(full)
  /\ \A n : Promise!Rows(n) = Rows(n)
<1>1. \A v : Promise!Row(v) = Row(v)
  BY DEF Promise!Row, Promise!Line, Row, Line
<1>2. Promise!Warn = Warn /\ Promise!BufSize = BufSize /\ Promise!Title = Title
  BY DEF Promise!Warn, Promise!BufSize, Promise!Title, Promise!Line, Warn, BufSize, Title, Line
<1> QED BY <1>1, <1>2 DEF Promise!Heading, Promise!Rows, Heading, Rows

(* Without -m and with room for a measurement every run is one RunLog      *)
(* allows: whatever signals come, a run ends with the log of all that it   *)
(* kept and a true warning, or it does not report success.                 *)
THEOREM PromiseKept ==
  ASSUME OneThread
  PROVE  Spec => KeepsPromise
<1>1. Init => Promise!Init
  BY DEF Init, Promise!Init
<1>2. Inv /\ Inv' /\ [Next]_vars => [Promise!Next]_Promise!runVars
  <2> SUFFICES ASSUME Inv, Inv', [Next]_vars
               PROVE  Promise!Next \/ UNCHANGED Promise!runVars
    OBVIOUS
  <2>1. CASE IncResultIdx
    <3>1. Running /\ UNCHANGED <<status, file>> /\ rpc = "inc" /\ result_idx' = result_idx + 1
      BY <2>1 DEF IncResultIdx, Reporting, Free, stdioVars
    <3>2. result_idx < BufLogSize
      BY <3>1, SizeAssumption DEF Inv, OneThreadInv, RecordsInv, TypeOK
    <3> QED BY <3>1, <3>2 DEF Promise!Next, Promise!Keep, Running
  <2>2. CASE UNCHANGED <<result_idx, status>> /\ (Running \/ UNCHANGED file)
    BY <2>2 DEF Promise!runVars, Running
  <2>3. CASE Running /\ ~Running' /\ UNCHANGED result_idx
    <3>1. CASE status' = "exit0"
      <4>1. file' = Heading(buf_full_flag') \o Rows(result_idx')
        BY <3>1 DEF Inv, OneThreadInv, LogIsComplete, CompleteLog
      <4>2. buf_full_flag' \in {FALSE, result_idx = BufLogSize}
        BY <2>3 DEF Inv, OneThreadInv, RecordsInv, TypeOK
      <4>3. \E full \in {FALSE, result_idx = BufLogSize} :
              file' = Heading(full) \o Rows(result_idx)
        BY <2>3, <4>1, <4>2
      <4>4. Promise!Finish
        BY <2>3, <3>1, <4>3, SameLines DEF Promise!Finish, Running
      <4> QED BY <4>4 DEF Promise!Next
    <3>2. CASE status' # "exit0"
      BY <2>3, <3>2 DEF Promise!Next, Promise!Fail, Running
    <3> QED BY <3>1, <3>2
  <2> QED BY <2>1, <2>2, <2>3, OutcomeStep
<1> QED BY <1>1, <1>2, InvHolds, PTL DEF Spec, KeepsPromise, Promise!Spec

-----------------------------------------------------------------------------
(***************************************************************************)
(* With -m, when a single handler ran.  The reporting loop goes on while   *)
(* the handler prints, so that the log is not fixed beforehand: it is what *)
(* the handler has printed so far, a text of the right shape, of which the *)
(* file is the beginning and the rest is buffered.  The other streams      *)
(* buffer nothing, and nobody enters the heap inside of the handler.       *)
(***************************************************************************)

NoHandler == \A t \in Threads : stack[t] = <<>>

(* What thread t may print as line i, the flag being full when it looked.  *)
LineAt(t, full, i, line) ==
  IF i <= Len(Heading(full)) THEN line = Heading(full)[i]
  ELSE LET k == i - Len(Heading(full))
       IN line = Row(k) \/ (t # Reporter /\ line = Row(0))

Shaped(t, full, c) == \A i \in 1 .. Len(c) : LineAt(t, full, i, c[i])

(* Frame f has printed n lines, all rows it has to once it is done. *)
Done(f, full, n) ==
  LET heading == Len(Heading(full)) IN
  /\ f.pc = "warn" => n = 0
  /\ f.pc = "bufsize" => n = heading - 2
  /\ f.pc = "title" => n = heading - 1
  /\ f.pc = "rows" => f.idx <= result_idx /\ n = heading + f.idx
  /\ f.pc \in {"close", "free", "exit"} =>
       \E m \in Nat : f.from <= m /\ m <= result_idx /\ n = heading + m

Writes == {"warn", "bufsize", "title", "rows", "close"}

(* A handler can be on thread t: it is installed, and t was created. *)
Listens(t) ==
  /\ up \notin {"probe", "create", "remove", "sigint"}
  /\ t = Main \/ up # "sigterm"

(* The only frame, f on thread t. *)
SoleFrame(t, f) ==
  /\ Listens(t)
  /\ f.from <= result_idx
  /\ f.pc # "exit" => f.code = 0
  /\ f.pc \in {"open", "alloc", "warn", "bufsize", "title"} => f.idx = 0
  /\ f.pc \in {"open", "alloc"} => Quiet
  /\ f.pc \in Writes =>
       /\ present /\ IsOpen(log_fp) /\ Len(file) = streams[log_fp].off
       /\ \E full \in {FALSE, buf_full_flag}, c \in Seq(Lines) :
            /\ Shaped(t, full, c) /\ Done(f, full, Len(c))
            /\ Begins(file, c) /\ Pieces(streams, c)
            /\ Len(file) + Len(streams[log_fp].buf) = Len(c)
  /\ f.pc = "free" \/ (f.pc = "exit" /\ f.code = 0) =>
       /\ present /\ Pieces(streams, file)
       /\ \E full \in {FALSE, buf_full_flag} :
            Shaped(t, full, file) /\ Done(f, full, Len(file))

(* The other threads are created in loads(). *)
AliveInv ==
  alive # {Main} => up \in {"loads", "malloc", "spawn", "calloc", "run", "pause"}

(* The records, whoever handles the signals, and the threads. *)
ReportInv ==
  /\ measured = (IF rpc = "inc" THEN result_idx + 1 ELSE result_idx)
  /\ measured <= BufLogSize
  /\ \A i \in Slots : i < measured => buf_log[i] = i + 1
  /\ rpc = "store" /\ stack[Reporter] = <<>> => result_idx < BufLogSize
  /\ AliveInv

SoleInv ==
  /\ ReportInv
  /\ NoHandler => Quiet /\ status # "exit0"
  /\ \A t \in Threads : Sole(t) =>
       /\ SoleFrame(t, stack[t][1])
       /\ status = "exit0" => stack[t][1].pc = "exit" /\ stack[t][1].code = 0

(* The only frame becomes f. *)
NextFrame(t, f) ==
  /\ Len(stack'[t]) = 1 /\ stack'[t][1] = f
  /\ \A u \in Threads \ {t} : stack'[u] = stack[u]

LEMMA SoleSetTop ==
  ASSUME TypeOK, NEW t \in Threads, Len(stack[t]) = 1
  PROVE  /\ stack[t] # <<>> /\ Top(t) = stack[t][1] /\ Top(t) \in Frames
         /\ \A f \in Frames : SetTop(t, f) => NextFrame(t, f)
<1> DEFINE s == stack[t]
<1>1. s \in Seq(Frames) /\ Len(s) = 1 /\ Len(<<>>) = 0
  BY EmptySeq DEF TypeOK
<1>2. s # <<>> /\ Top(t) = s[1]
  BY <1>1 DEF Top
<1>3. Top(t) \in Frames
  BY <1>2, TopType
<1>4. ASSUME NEW f \in Frames, SetTop(t, f) PROVE NextFrame(t, f)
  <2>1. stack' = [stack EXCEPT ![t] = [s EXCEPT ![Len(s)] = f]]
    BY <1>4 DEF SetTop
  <2>2. stack'[t] = [s EXCEPT ![1] = f] /\ \A u \in Threads \ {t} : stack'[u] = stack[u]
    BY <1>1, <2>1 DEF TypeOK
  <2>3. 1 \in 1 .. Len(s)
    BY <1>1
  <2>4. Len([s EXCEPT ![1] = f]) = 1 /\ [s EXCEPT ![1] = f][1] = f
    BY <1>1, <2>3, ExceptSeq
  <2> QED BY <2>2, <2>4 DEF NextFrame
<1> QED BY <1>2, <1>3, <1>4

(* What other threads do to the records takes nothing from a frame. *)
LEMMA SoleKept ==
  ASSUME TypeOK, TypeOK', UNCHANGED <<present, file, streams, log_fp>>,
         up' = up \/ up' \in {"loads", "malloc", "spawn", "calloc", "run", "pause"},
         result_idx' >= result_idx, buf_full_flag => buf_full_flag',
         NEW t \in Threads, NEW f \in Frames, SoleFrame(t, f)
  PROVE  SoleFrame(t, f)'
<1>1. result_idx \in Nat /\ result_idx' \in Nat /\ f.from \in Nat /\ f.idx \in Nat
  BY DEF TypeOK, Frames
<1>2. \A full, n : Done(f, full, n) => Done(f, full, n)'
  <2> SUFFICES ASSUME NEW full, NEW n, Done(f, full, n) PROVE Done(f, full, n)'
    OBVIOUS
  <2>1. f.pc = "rows" => f.idx <= result_idx' /\ n = Len(Heading(full)) + f.idx
    BY <1>1 DEF Done
  <2>2. f.pc \in {"close", "free", "exit"} =>
          \E m \in Nat : f.from <= m /\ m <= result_idx' /\ n = Len(Heading(full)) + m
    <3> SUFFICES ASSUME f.pc \in {"close", "free", "exit"}
                 PROVE  \E m \in Nat : f.from <= m /\ m <= result_idx' /\ n = Len(Heading(full)) + m
      OBVIOUS
    <3>1. PICK m \in Nat : f.from <= m /\ m <= result_idx /\ n = Len(Heading(full)) + m
      BY DEF Done
    <3>2. m <= result_idx'
      BY <1>1, <3>1
    <3> QED BY <3>1, <3>2
  <2> QED BY <2>1, <2>2 DEF Done
<1>3. \A full \in {FALSE, buf_full_flag} : full \in {FALSE, buf_full_flag'}
  BY DEF TypeOK
<1>4. f.pc \in Writes =>
        \E full \in {FALSE, buf_full_flag'}, c \in Seq(Lines) :
           /\ Shaped(t, full, c) /\ Done(f, full, Len(c))'
           /\ Begins(file, c) /\ Pieces(streams, c)
           /\ Len(file) + Len(streams[log_fp].buf) = Len(c)
  <2> SUFFICES ASSUME f.pc \in Writes
               PROVE  \E full \in {FALSE, buf_full_flag'}, c \in Seq(Lines) :
                        /\ Shaped(t, full, c) /\ Done(f, full, Len(c))'
                        /\ Begins(file, c) /\ Pieces(streams, c)
                        /\ Len(file) + Len(streams[log_fp].buf) = Len(c)
    OBVIOUS
  <2>1. PICK full \in {FALSE, buf_full_flag}, c \in Seq(Lines) :
           /\ Shaped(t, full, c) /\ Done(f, full, Len(c))
           /\ Begins(file, c) /\ Pieces(streams, c)
           /\ Len(file) + Len(streams[log_fp].buf) = Len(c)
    BY DEF Listens, SoleFrame
  <2> QED BY <1>2, <1>3, <2>1
<1>5. f.pc = "free" \/ (f.pc = "exit" /\ f.code = 0) =>
        \E full \in {FALSE, buf_full_flag'} :
          Shaped(t, full, file) /\ Done(f, full, Len(file))'
  BY <1>2, <1>3 DEF Listens, SoleFrame
<1>6. f.from <= result_idx'
  BY <1>1 DEF Listens, SoleFrame
<1> QED BY <1>4, <1>5, <1>6 DEF Listens, SoleFrame, Quiet, IsOpen, Shaped, LineAt

-----------------------------------------------------------------------------
(* The steps of a handler that is alone. *)

(* A line more is behind what it has printed. *)
LEMMA SolePrint ==
  ASSUME TypeOK, IsOpen(log_fp), Len(file) = streams[log_fp].off,
         NEW c \in Seq(Lines), Begins(file, c), Pieces(streams, c),
         Len(file) + Len(streams[log_fp].buf) = Len(c),
         NEW line \in Lines, FPrintf(log_fp, line)
  PROVE  /\ Append(c, line) \in Seq(Lines) /\ Len(Append(c, line)) = Len(c) + 1
         /\ UNCHANGED present /\ Len(streams') = Len(streams)
         /\ log_fp' = log_fp => IsOpen(log_fp)'
         /\ Pieces(streams', Append(c, line)) /\ Begins(file', Append(c, line))
         /\ Len(file') = streams'[log_fp].off
         /\ Len(file') + Len(streams'[log_fp].buf) = Len(Append(c, line))
<1> DEFINE d == Append(c, line)
<1>0. StdioTypeOK /\ Len(c) \in Nat /\ Len(file) \in Nat
  BY LenProperties DEF TypeOK, StdioTypeOK
<1>1. /\ d \in Seq(Lines) /\ Len(d) = Len(c) + 1
      /\ \A i \in 1 .. Len(c) : d[i] = c[i]
      /\ d[Len(c) + 1] = line
  BY AppendProperties
<1> HIDE DEF d
<1>2. Begins(file, d)
  BY <1>0, <1>1 DEF Begins
<1>3. Pieces(streams, d)
  <2> SUFFICES ASSUME NEW k \in 1 .. Len(streams)
               PROVE  Piece(streams[k].off, streams[k].buf, d)
    BY DEF Pieces
  <2>1. streams[k] \in [off : Nat, buf : Seq(Lines), open : BOOLEAN]
    BY <1>0, ElementOfSeq DEF StdioTypeOK
  <2>2. Piece(streams[k].off, streams[k].buf, c)
    BY DEF Pieces
  <2>3. Len(streams[k].buf) \in Nat /\ streams[k].off \in Nat
    BY <2>1, LenProperties
  <2>4. \A i \in 1 .. Len(streams[k].buf) : streams[k].off + i \in 1 .. Len(c)
    BY <1>0, <2>2, <2>3 DEF Piece
  <2>5. \A i \in 1 .. Len(streams[k].buf) : streams[k].buf[i] = d[streams[k].off + i]
    BY <1>1, <2>2, <2>4 DEF Piece
  <2>6. streams[k].off + Len(streams[k].buf) <= Len(d)
    BY <1>0, <1>1, <2>2, <2>3 DEF Piece
  <2> QED BY <2>5, <2>6 DEF Piece
<1>4. /\ Len(file) + Len(streams[log_fp].buf) < Len(d)
      /\ d[Len(file) + Len(streams[log_fp].buf) + 1] = line
  BY <1>0, <1>1
<1>5. /\ UNCHANGED <<present, misused>>
      /\ Len(streams') = Len(streams) /\ Pieces(streams', d)
      /\ Begins(file', d) /\ Len(file') = streams'[log_fp].off
      /\ Len(file') + Len(streams'[log_fp].buf)
           = Len(file) + Len(streams[log_fp].buf) + 1
  BY <1>0, <1>1, <1>2, <1>3, <1>4, FPrintfEffect
<1>6. log_fp' = log_fp => IsOpen(log_fp)'
  <2>1. log_fp \in 1 .. Len(streams)
    BY StreamTypes, <1>0
  <2>2. streams'[log_fp].open
    <3>1. streams[log_fp] \in [off : Nat, buf : Seq(Lines), open : BOOLEAN]
      BY <1>0, StreamTypes
    <3>2. CASE streams' = [streams EXCEPT ![log_fp].buf = Append(@, line)]
      BY <3>1, <3>2, <2>1, LenProperties DEF IsOpen, TypeOK, StdioTypeOK
    <3>3. CASE WriteOut(log_fp, Append(streams[log_fp].buf, line), TRUE)
      BY <3>3, <2>1, LenProperties DEF WriteOut, TypeOK, StdioTypeOK
    <3> QED BY <3>2, <3>3 DEF FPrintf
  <2> QED BY <1>5, <2>1, <2>2 DEF IsOpen
<1> QED BY <1>0, <1>1, <1>5, <1>6 DEF d

LEMMA ShapedGrows ==
  ASSUME NEW t, NEW full, NEW c \in Seq(Lines), Shaped(t, full, c),
         NEW line \in Lines, LineAt(t, full, Len(c) + 1, line)
  PROVE  Shaped(t, full, Append(c, line))
<1>1. /\ Len(Append(c, line)) = Len(c) + 1 /\ Len(c) \in Nat
      /\ \A i \in 1 .. Len(c) : Append(c, line)[i] = c[i]
      /\ Append(c, line)[Len(c) + 1] = line
  BY AppendProperties, LenProperties
<1>2. \A i \in 1 .. Len(c) + 1 : i \in 1 .. Len(c) \/ i = Len(c) + 1
  BY <1>1
<1> QED BY <1>1, <1>2 DEF Shaped

(* A changed frame. *)
LEMMA SoleGoto ==
  ASSUME TypeOK, NEW t \in Threads, Len(stack[t]) = 1, NEW pc \in FramePcs,
         Goto(t, pc)
  PROVE  \E f \in Frames :
           /\ f.pc = pc /\ f.idx = stack[t][1].idx /\ f.code = stack[t][1].code
           /\ f.from = stack[t][1].from /\ NextFrame(t, f)
<1>1. Top(t) = stack[t][1] /\ Top(t) \in Frames
  BY SoleSetTop
<1> DEFINE f == [Top(t) EXCEPT !.pc = pc]
<1>2. /\ f \in Frames /\ f.pc = pc /\ f.idx = stack[t][1].idx /\ f.code = stack[t][1].code
      /\ f.from = stack[t][1].from
  BY <1>1 DEF Frames
<1>3. SetTop(t, f)
  BY DEF Goto
<1> HIDE DEF f
<1>4. NextFrame(t, f)
  BY <1>2, <1>3, SoleSetTop
<1> QED BY <1>2, <1>4

LEMMA SoleGotoExit ==
  ASSUME TypeOK, NEW t \in Threads, Len(stack[t]) = 1, NEW code \in {0, 1},
         Len(streams') \in Nat, GotoExit(t, code)
  PROVE  \E f \in Frames :
           /\ f.pc = "exit" /\ f.code = code
           /\ f.from = stack[t][1].from /\ NextFrame(t, f)
<1>1. Top(t) = stack[t][1] /\ Top(t) \in Frames
  BY SoleSetTop
<1> DEFINE f == [Top(t) EXCEPT !.pc = "exit", !.idx = Len(streams'), !.code = code]
<1>2. f \in Frames /\ f.pc = "exit" /\ f.code = code /\ f.from = stack[t][1].from
  BY <1>1 DEF Frames, FramePcs
<1>3. SetTop(t, f)
  BY DEF GotoExit
<1> HIDE DEF f
<1>4. NextFrame(t, f)
  BY <1>2, <1>3, SoleSetTop
<1> QED BY <1>2, <1>4

(* What each step of the handler has to leave. *)
SoleNext(t) ==
  \E f \in Frames :
    /\ NextFrame(t, f) /\ SoleFrame(t, f)'
    /\ status' = "exit0" => f.pc = "exit" /\ f.code = 0

LEMMA SoleFopen ==
  ASSUME TypeOK, TypeOK', NEW t \in Threads, Len(stack[t]) = 1,
         SoleFrame(t, stack[t][1]), CallFopen(t) \/ Hang(t) \/ OpenLog(t)
  PROVE  SoleNext(t)
<1> DEFINE g == stack[t][1]
<1>0. Top(t) = g /\ g \in Frames
  BY SoleSetTop
<1>1. CASE CallFopen(t) \/ Hang(t)
  <2>1. /\ g.pc # "exit" /\ (CallFopen(t) => g.pc = "open")
        /\ UNCHANGED <<stdioVars, procVars, log_fp, status>> /\ Running
    BY <1>0, <1>1 DEF CallFopen, Hang, InHeap, At
  <2>2. PICK pc \in {"alloc", "hang"} :
          Goto(t, pc) /\ (pc = "alloc" => CallFopen(t))
    BY <1>1 DEF CallFopen, Hang
  <2>3. PICK f \in Frames : /\ f.pc = pc /\ f.idx = g.idx /\ f.code = g.code
                            /\ f.from = g.from /\ NextFrame(t, f)
    BY <2>2, SoleGoto DEF FramePcs
  <2>4. SoleFrame(t, f)'
    <3>1. /\ f.from <= result_idx' /\ Listens(t)' /\ f.code = 0
          /\ f.pc = "alloc" => f.idx = 0 /\ Quiet
      BY <2>1, <2>2, <2>3 DEF Listens, SoleFrame, procVars
    <3> QED BY <2>1, <2>2, <2>3, <3>1 DEF SoleFrame, Writes, Quiet, stdioVars
  <2> QED BY <2>1, <2>2, <2>3, <2>4 DEF SoleNext, Running
<1>2. CASE OpenLog(t)
  <2>1. /\ g.pc = "alloc" /\ UNCHANGED <<procVars, status>> /\ Running
    BY <1>0, <1>2 DEF OpenLog, At
  <2>2. CASE FOpenW /\ log_fp' = Len(streams') /\ Goto(t, "warn")
    <3>1. PICK f \in Frames : /\ f.pc = "warn" /\ f.idx = g.idx /\ f.code = g.code
                              /\ f.from = g.from /\ NextFrame(t, f)
      BY <2>2, SoleGoto DEF FramePcs
    <3>2. /\ present' /\ file' = <<>>
          /\ Len(streams') = Len(streams) + 1 /\ Len(streams) \in Nat
          /\ \A k \in 1 .. Len(streams) : streams'[k] = streams[k]
          /\ streams'[Len(streams')] = [off |-> 0, buf |-> <<>>, open |-> TRUE]
      BY <2>2, OpenedStream DEF TypeOK
    <3>3. <<>> \in Seq(Lines) /\ Len(<<>>) = 0
      BY EmptySeq
    <3>4. Pieces(streams', <<>>) /\ Begins(file', <<>>)
      <4>1. Piece(0, <<>>, <<>>) /\ Begins(<<>>, <<>>)
        BY <3>3, EmptyPiece
      <4>2. \A k \in 1 .. Len(streams') : streams'[k].off = 0 /\ streams'[k].buf = <<>>
        BY <2>1, <3>2 DEF Listens, SoleFrame, Quiet
      <4> QED BY <3>2, <4>1, <4>2 DEF Pieces
    <3>5. Shaped(t, FALSE, <<>>)'
      BY <3>3 DEF Shaped
    <3>6. IsOpen(log_fp)' /\ streams'[log_fp'].off = 0 /\ streams'[log_fp'].buf = <<>>
      BY <2>2, <3>2 DEF IsOpen
    <3>7. \E full \in {FALSE, buf_full_flag'}, c \in Seq(Lines) :
            /\ Shaped(t, full, c)' /\ Done(f, full, Len(c))'
            /\ Begins(file', c) /\ Pieces(streams', c)
            /\ Len(file') + Len(streams'[log_fp'].buf) = Len(c)
      <4>1. \A n : n = 0 => Done(f, FALSE, n)'
        BY <3>1 DEF Done
      <4>2. Done(f, FALSE, Len(<<>>))'
        BY <3>3, <4>1
      <4>3. FALSE \in {FALSE, buf_full_flag'}
        OBVIOUS
      <4>4. Len(file') + Len(streams'[log_fp'].buf) = Len(<<>>)
        BY <3>2, <3>3, <3>6
      <4> WITNESS FALSE \in {FALSE, buf_full_flag'}, <<>> \in Seq(Lines)
      <4> QED BY <3>4, <3>5, <4>2, <4>4
    <3>8. SoleFrame(t, f)'
      BY <2>1, <3>1, <3>2, <3>3, <3>6, <3>7 DEF Listens, SoleFrame, Writes, procVars
    <3> QED BY <2>1, <3>1, <3>8 DEF SoleNext, Running
  <2>3. CASE UNCHANGED stdioVars /\ GotoExit(t, 1)
    <3>1. Len(streams') \in Nat
      BY LenProperties DEF TypeOK, StdioTypeOK
    <3>2. PICK f \in Frames : /\ f.pc = "exit" /\ f.code = 1
                              /\ f.from = g.from /\ NextFrame(t, f)
      BY <2>3, <3>1, SoleGotoExit
    <3>3. SoleFrame(t, f)'
      BY <2>1, <3>2 DEF Listens, SoleFrame, Writes, procVars
    <3> QED BY <2>1, <3>2, <3>3 DEF SoleNext, Running
  <2> QED BY <1>2, <2>2, <2>3 DEF OpenLog
<1> QED BY <1>1, <1>2

(* The text so far, and the one with another line. *)
SoleText(t, f, full, c) ==
  /\ Shaped(t, full, c) /\ Done(f, full, Len(c))
  /\ Begins(file, c) /\ Pieces(streams, c)
  /\ Len(file) + Len(streams[log_fp].buf) = Len(c)

LEMMA SoleLine ==
  ASSUME TypeOK, TypeOK', NEW t \in Threads, Len(stack[t]) = 1,
         SoleFrame(t, stack[t][1]), stack[t][1].pc \in Writes,
         Running, UNCHANGED <<procVars, log_fp, status>>,
         NEW line \in Lines, FPrintf(log_fp, line),
         NEW f \in Frames, NextFrame(t, f), f.pc \in Writes,
         f.code = 0, f.from = stack[t][1].from,
         f.pc \in {"warn", "bufsize", "title"} => f.idx = 0,
         \A full \in {FALSE, buf_full_flag}, n \in Nat : Done(stack[t][1], full, n) =>
           \E full2 \in {FALSE, buf_full_flag} :
             /\ LineAt(t, full2, n + 1, line) /\ Done(f, full2, n + 1)
             /\ (full2 = full \/ n = 0)
  PROVE  SoleNext(t)
<1> DEFINE g == stack[t][1]
<1>1. /\ present /\ IsOpen(log_fp) /\ Len(file) = streams[log_fp].off
      /\ g.from <= result_idx
      /\ Listens(t)
  BY DEF Listens, SoleFrame
<1>2. PICK full \in {FALSE, buf_full_flag}, c \in Seq(Lines) :
        /\ Shaped(t, full, c) /\ Done(g, full, Len(c))
        /\ Begins(file, c) /\ Pieces(streams, c)
        /\ Len(file) + Len(streams[log_fp].buf) = Len(c)
  BY DEF Listens, SoleFrame
<1>3. Len(c) \in Nat
  BY LenProperties
<1>4. PICK full2 \in {FALSE, buf_full_flag} :
        /\ LineAt(t, full2, Len(c) + 1, line) /\ Done(f, full2, Len(c) + 1)
        /\ (full2 = full \/ Len(c) = 0)
  BY <1>2, <1>3
<1>5. Shaped(t, full2, c)
  <2>1. CASE Len(c) = 0
    BY <2>1 DEF Shaped
  <2> QED BY <1>2, <1>4, <2>1
<1> PICK d \in Seq(Lines) : d = Append(c, line)
  BY AppendProperties
<1>6. Shaped(t, full2, d)
  BY <1>4, <1>5, ShapedGrows
<1>7. /\ Len(d) = Len(c) + 1
      /\ UNCHANGED present /\ IsOpen(log_fp)'
      /\ Pieces(streams', d) /\ Begins(file', d)
      /\ Len(file') = streams'[log_fp].off
      /\ Len(file') + Len(streams'[log_fp].buf) = Len(d)
  BY <1>1, <1>2, SolePrint
<1>8. Done(f, full2, Len(d))'
  BY <1>4, <1>7 DEF Done, procVars
<1>9. SoleText(t, f, full2, d)'
  BY <1>6, <1>7, <1>8 DEF SoleText, Shaped, LineAt
<1>10. \E x \in {FALSE, buf_full_flag'}, y \in Seq(Lines) : SoleText(t, f, x, y)'
  <2>1. full2 \in {FALSE, buf_full_flag'}
    BY DEF procVars
  <2> WITNESS full2 \in {FALSE, buf_full_flag'}, d \in Seq(Lines)
  <2> QED BY <1>9
<1>11. SoleFrame(t, f)'
  BY <1>1, <1>7, <1>10 DEF Listens, SoleFrame, SoleText, Writes, procVars
<1> QED BY <1>11 DEF SoleNext, Running

LEMMA SoleSilent ==
  ASSUME TypeOK, TypeOK', NEW t \in Threads, Len(stack[t]) = 1,
         SoleFrame(t, stack[t][1]), stack[t][1].pc \in Writes,
         Running, UNCHANGED <<stdioVars, procVars, log_fp, status>>,
         NEW f \in Frames, NextFrame(t, f), f.pc \in Writes,
         f.code = 0, f.from = stack[t][1].from,
         f.pc \in {"warn", "bufsize", "title"} => f.idx = 0,
         \A full \in {FALSE, buf_full_flag}, n \in Nat : Done(stack[t][1], full, n) =>
           \E full2 \in {FALSE, buf_full_flag} :
             Done(f, full2, n) /\ (full2 = full \/ n = 0)
  PROVE  SoleNext(t)
<1> DEFINE g == stack[t][1]
<1>1. /\ present /\ IsOpen(log_fp) /\ Len(file) = streams[log_fp].off
      /\ g.from <= result_idx
      /\ Listens(t)
  BY DEF Listens, SoleFrame
<1>2. PICK full \in {FALSE, buf_full_flag}, c \in Seq(Lines) :
        /\ Shaped(t, full, c) /\ Done(g, full, Len(c))
        /\ Begins(file, c) /\ Pieces(streams, c)
        /\ Len(file) + Len(streams[log_fp].buf) = Len(c)
  BY DEF Listens, SoleFrame
<1>3. Len(c) \in Nat
  BY LenProperties
<1>4. PICK full2 \in {FALSE, buf_full_flag} :
        Done(f, full2, Len(c)) /\ (full2 = full \/ Len(c) = 0)
  BY <1>2, <1>3
<1>5. Shaped(t, full2, c)
  <2>1. CASE Len(c) = 0
    BY <2>1 DEF Shaped
  <2> QED BY <1>2, <1>4, <2>1
<1>6. Done(f, full2, Len(c))'
  BY <1>4 DEF Done, procVars
<1>7. SoleText(t, f, full2, c)'
  BY <1>2, <1>5, <1>6 DEF SoleText, Shaped, LineAt, stdioVars
<1>8. \E x \in {FALSE, buf_full_flag'}, y \in Seq(Lines) : SoleText(t, f, x, y)'
  <2>1. full2 \in {FALSE, buf_full_flag'}
    BY DEF procVars
  <2> WITNESS full2 \in {FALSE, buf_full_flag'}, c \in Seq(Lines)
  <2> QED BY <1>7
<1>9. SoleFrame(t, f)'
  BY <1>1, <1>8 DEF Listens, SoleFrame, SoleText, Writes, IsOpen, stdioVars, procVars
<1> QED BY <1>9 DEF SoleNext, Running

LEMMA HeadingAt ==
  ASSUME NEW full \in BOOLEAN
  PROVE  \/ /\ full /\ Len(Heading(full)) = 3 /\ Heading(full)[1] = Warn
            /\ Heading(full)[2] = BufSize /\ Heading(full)[3] = Title
         \/ /\ ~full /\ Len(Heading(full)) = 2
            /\ Heading(full)[1] = BufSize /\ Heading(full)[2] = Title
<1>1. Warn \in Lines /\ BufSize \in Lines /\ Title \in Lines
  BY LineTypes
<1> HIDE DEF Warn, BufSize, Title
<1> QED BY <1>1 DEF Heading

LEMMA SoleHeading ==
  ASSUME TypeOK, TypeOK', NEW t \in Threads, Len(stack[t]) = 1,
         SoleFrame(t, stack[t][1]), PrintWarn(t) \/ PrintBufSize(t) \/ PrintTitle(t)
  PROVE  SoleNext(t)
<1> DEFINE g == stack[t][1]
<1>0. Top(t) = g /\ g \in Frames
  BY SoleSetTop
<1>1. /\ Running /\ g.pc \in Writes /\ g.code = 0 /\ g.idx = 0
      /\ UNCHANGED <<procVars, log_fp, status>>
  BY <1>0 DEF PrintWarn, PrintBufSize, PrintTitle, PrintLine, At, Writes, SoleFrame
<1>2. {FALSE, buf_full_flag} \subseteq BOOLEAN /\ result_idx \in Nat
  BY DEF TypeOK
<1>3. CASE PrintWarn(t) /\ buf_full_flag
  <2>1. g.pc = "warn" /\ FPrintf(log_fp, Warn) /\ Goto(t, "bufsize")
    BY <1>0, <1>3 DEF PrintWarn, PrintLine, At
  <2>2. PICK f \in Frames : /\ f.pc = "bufsize" /\ f.idx = 0 /\ f.code = 0
                            /\ f.from = g.from /\ NextFrame(t, f)
    BY <1>1, <2>1, SoleGoto DEF FramePcs
  <2>3. LineAt(t, buf_full_flag, 1, Warn) /\ Done(f, buf_full_flag, 1)
    <3> DEFINE h == Heading(buf_full_flag)
    <3>1. Len(h) = 3 /\ h[1] = Warn
      BY <1>2, <1>3, HeadingAt
    <3> HIDE DEF h
    <3> QED BY <2>2, <3>1 DEF LineAt, Done, h
  <2>4. ASSUME NEW full \in {FALSE, buf_full_flag}, NEW n \in Nat, Done(g, full, n)
        PROVE  n = 0 /\ LineAt(t, buf_full_flag, n + 1, Warn) /\ Done(f, buf_full_flag, n + 1)
    <3>1. n = 0
      BY <2>1, <2>4, Zenon DEF Done
    <3>2. n + 1 = 1
      BY <3>1
    <3> QED BY <2>3, <3>1, <3>2
  <2>5. Warn \in Lines /\ f.pc \in Writes
    BY <2>2, LineTypes DEF Writes
  <2> QED BY <1>1, <2>1, <2>2, <2>4, <2>5, SoleLine
<1>4. CASE PrintWarn(t) /\ ~buf_full_flag
  <2>1. g.pc = "warn" /\ UNCHANGED stdioVars /\ Goto(t, "bufsize")
    BY <1>0, <1>4 DEF PrintWarn, At
  <2>2. PICK f \in Frames : /\ f.pc = "bufsize" /\ f.idx = 0 /\ f.code = 0
                            /\ f.from = g.from /\ NextFrame(t, f)
    BY <1>1, <2>1, SoleGoto DEF FramePcs
  <2>3. ASSUME NEW full \in {FALSE, buf_full_flag}, NEW n \in Nat, Done(g, full, n)
        PROVE  Done(f, buf_full_flag, n) /\ n = 0
    <3>1. n = 0
      BY <2>1, <2>3, Zenon DEF Done
    <3> DEFINE h == Heading(buf_full_flag)
    <3>2. Len(h) = 2
      BY <1>2, <1>4, HeadingAt
    <3> HIDE DEF h
    <3> QED BY <2>2, <3>1, <3>2 DEF Done, h
  <2>4. f.pc \in Writes
    BY <2>2 DEF Writes
  <2> QED BY <1>1, <2>1, <2>2, <2>3, <2>4, SoleSilent
<1>5. CASE PrintBufSize(t)
  <2>1. g.pc = "bufsize" /\ FPrintf(log_fp, BufSize) /\ Goto(t, "title")
    BY <1>0, <1>5 DEF PrintBufSize, PrintLine, At
  <2>2. PICK f \in Frames : /\ f.pc = "title" /\ f.idx = 0 /\ f.code = 0
                            /\ f.from = g.from /\ NextFrame(t, f)
    BY <1>1, <2>1, SoleGoto DEF FramePcs
  <2>3. ASSUME NEW full \in {FALSE, buf_full_flag}, NEW n \in Nat, Done(g, full, n)
        PROVE  LineAt(t, full, n + 1, BufSize) /\ Done(f, full, n + 1)
    <3> DEFINE h == Heading(full)
    <3>1. Len(h) \in {2, 3} /\ h[Len(h) - 1] = BufSize
      <4>1. \/ Len(h) = 3 /\ h[2] = BufSize
            \/ Len(h) = 2 /\ h[1] = BufSize
        BY <1>2, HeadingAt
      <4> HIDE DEF h
      <4>2. CASE Len(h) = 3 /\ h[2] = BufSize
        <5>1. Len(h) - 1 = 2
          BY <4>2
        <5> QED BY <4>2, <5>1
      <4>3. CASE Len(h) = 2 /\ h[1] = BufSize
        <5>1. Len(h) - 1 = 1
          BY <4>3
        <5> QED BY <4>3, <5>1
      <4> QED BY <4>1, <4>2, <4>3
    <3>2. n + 1 = Len(h) - 1
      BY <2>1, <2>3, <3>1 DEF Done
    <3> HIDE DEF h
    <3> QED BY <2>2, <3>1, <3>2 DEF LineAt, Done, h
  <2>4. BufSize \in Lines /\ f.pc \in Writes
    BY <2>2, LineTypes DEF Writes
  <2> QED BY <1>1, <2>1, <2>2, <2>3, <2>4, SoleLine
<1>6. CASE PrintTitle(t)
  <2>1. g.pc = "title" /\ FPrintf(log_fp, Title) /\ Goto(t, "rows")
    BY <1>0, <1>6 DEF PrintTitle, PrintLine, At
  <2>2. PICK f \in Frames : /\ f.pc = "rows" /\ f.idx = 0 /\ f.code = 0
                            /\ f.from = g.from /\ NextFrame(t, f)
    BY <1>1, <2>1, SoleGoto DEF FramePcs
  <2>3. ASSUME NEW full \in {FALSE, buf_full_flag}, NEW n \in Nat, Done(g, full, n)
        PROVE  LineAt(t, full, n + 1, Title) /\ Done(f, full, n + 1)
    <3> DEFINE h == Heading(full)
    <3>1. Len(h) \in {2, 3} /\ h[Len(h)] = Title
      BY <1>2, HeadingAt
    <3>2. n + 1 = Len(h)
      BY <2>1, <2>3, <3>1 DEF Done
    <3> HIDE DEF h
    <3>3. LineAt(t, full, n + 1, Title)
      BY <3>1, <3>2 DEF LineAt, h
    <3>4. Done(f, full, n + 1)
      BY <1>2, <2>2, <3>1, <3>2 DEF Done, h
    <3> QED BY <3>3, <3>4
  <2>4. Title \in Lines /\ f.pc \in Writes
    BY <2>2, LineTypes DEF Writes
  <2> QED BY <1>1, <2>1, <2>2, <2>3, <2>4, SoleLine
<1> QED BY <1>3, <1>4, <1>5, <1>6

LEMMA SoleRows ==
  ASSUME TypeOK, TypeOK', ReportInv, NEW t \in Threads, Len(stack[t]) = 1,
         SoleFrame(t, stack[t][1]), PrintRow(t) \/ RowsDone(t)
  PROVE  SoleNext(t)
<1> DEFINE g == stack[t][1]
<1>0. Top(t) = g /\ g \in Frames /\ g.idx \in Nat /\ g.from \in Nat
  BY SoleSetTop DEF Frames
<1>1. /\ Running /\ g.pc = "rows" /\ g.code = 0 /\ g.from <= result_idx
      /\ UNCHANGED <<procVars, log_fp, status>>
  BY <1>0 DEF PrintRow, RowsDone, At, SoleFrame
<1>2. {FALSE, buf_full_flag} \subseteq BOOLEAN /\ result_idx \in Nat
  BY DEF TypeOK
<1>3. CASE PrintRow(t)
  <2> DEFINE i == g.idx
  <2>1. /\ i < result_idx /\ FPrintf(log_fp, Row(Read(t, i)))
        /\ SetTop(t, [g EXCEPT !.idx = i + 1])
    BY <1>0, <1>3 DEF PrintRow
  <2>2. PICK f \in Frames : /\ f.pc = "rows" /\ f.idx = i + 1 /\ f.code = 0
                            /\ f.from = g.from /\ NextFrame(t, f)
    <3> DEFINE n == [g EXCEPT !.idx = i + 1]
    <3>1. n \in Frames /\ n.pc = "rows" /\ n.idx = i + 1 /\ n.code = 0 /\ n.from = g.from
      BY <1>0, <1>1 DEF Frames
    <3>2. SetTop(t, n)
      BY <2>1
    <3> HIDE DEF n
    <3> QED BY <3>1, <3>2, SoleSetTop
  <2>3. Read(t, i) = i + 1 \/ (t # Reporter /\ Read(t, i) = 0)
    <3>1. i \in Slots /\ i < measured
      BY <1>0, <1>2, <2>1, SizeAssumption DEF ReportInv, Slots, TypeOK
    <3>2. buf_log[i] = i + 1
      BY <3>1 DEF ReportInv
    <3> QED BY <3>1, <3>2 DEF Read
  <2>4. PICK line \in Lines : line = Row(Read(t, i))
    BY ReadType, LineTypes
  <2>5. ASSUME NEW full \in {FALSE, buf_full_flag}, NEW n \in Nat, Done(g, full, n)
        PROVE  LineAt(t, full, n + 1, line) /\ Done(f, full, n + 1)
    <3> DEFINE h == Len(Heading(full))
    <3>1. h \in Nat /\ n = h + i
      <4>1. h \in {2, 3}
        BY <1>2, HeadingAt
      <4>2. n = h + i
        BY <1>1, <2>5 DEF Done
      <4> QED BY <4>1, <4>2
    <3> HIDE DEF h
    <3>2. ~(n + 1 <= h) /\ (n + 1) - h = i + 1
      BY <1>0, <3>1
    <3>3. line = Row((n + 1) - h) \/ (t # Reporter /\ line = Row(0))
      BY <2>3, <2>4, <3>2
    <3>4. LineAt(t, full, n + 1, line)
      BY <3>2, <3>3 DEF LineAt, h
    <3>5. i + 1 <= result_idx /\ n + 1 = h + (i + 1)
      BY <1>0, <1>2, <2>1, <3>1
    <3>6. Done(f, full, n + 1)
      BY <2>2, <3>5 DEF Done, h
    <3> QED BY <3>4, <3>6
  <2>6. f.pc \in Writes /\ g.pc \in Writes
    BY <1>1, <2>2 DEF Writes
  <2>7. FPrintf(log_fp, line)
    BY <2>1, <2>4
  <2> QED BY <1>1, <2>2, <2>5, <2>6, <2>7, SoleLine
<1>4. CASE RowsDone(t)
  <2>1. g.idx >= result_idx /\ Goto(t, "close") /\ UNCHANGED stdioVars
    BY <1>0, <1>4 DEF RowsDone
  <2>2. PICK f \in Frames : /\ f.pc = "close" /\ f.code = 0
                            /\ f.from = g.from /\ NextFrame(t, f)
    BY <1>1, <2>1, SoleGoto DEF FramePcs
  <2>3. ASSUME NEW full \in {FALSE, buf_full_flag}, NEW n \in Nat, Done(g, full, n)
        PROVE  Done(f, full, n)
    <3>1. g.idx <= result_idx /\ n = Len(Heading(full)) + g.idx
      BY <1>1, <2>3 DEF Done
    <3>2. g.idx = result_idx
      BY <1>0, <1>2, <2>1, <3>1
    <3>3. f.from <= result_idx /\ result_idx <= result_idx
      BY <1>1, <1>2, <2>2
    <3> QED BY <1>2, <2>2, <3>1, <3>2, <3>3 DEF Done
  <2>4. f.pc \in Writes /\ g.pc \in Writes
    BY <1>1, <2>2 DEF Writes
  <2> QED BY <1>1, <2>1, <2>2, <2>3, <2>4, SoleSilent
<1> QED BY <1>3, <1>4

LEMMA SoleFclose ==
  ASSUME TypeOK, TypeOK', NEW t \in Threads, Len(stack[t]) = 1,
         SoleFrame(t, stack[t][1]), CallFclose(t)
  PROVE  SoleNext(t)
<1> DEFINE g == stack[t][1]
<1>0. Top(t) = g /\ g \in Frames
  BY SoleSetTop
<1>1. /\ Running /\ g.pc = "close" /\ UNCHANGED <<procVars, log_fp, status>>
      /\ FClose(log_fp)
  BY <1>0 DEF CallFclose, At
<1>2. Goto(t, "free")
  BY DEF CallFclose
<1>3. PICK f \in Frames : /\ f.pc = "free" /\ f.idx = g.idx /\ f.code = g.code
                          /\ f.from = g.from /\ NextFrame(t, f)
  BY <1>2, SoleGoto DEF FramePcs
<1>4. /\ present /\ IsOpen(log_fp) /\ Len(file) = streams[log_fp].off
      /\ Listens(t)
  BY <1>1 DEF Listens, SoleFrame, Writes
<1>5. PICK full \in {FALSE, buf_full_flag}, c \in Seq(Lines) :
        /\ Shaped(t, full, c) /\ Done(g, full, Len(c))
        /\ Begins(file, c) /\ Pieces(streams, c)
        /\ Len(file) + Len(streams[log_fp].buf) = Len(c)
  BY <1>1 DEF Listens, SoleFrame, Writes
<1>6. present' /\ Pieces(streams', c) /\ file' = c
  BY <1>1, <1>4, <1>5, FCloseEffect DEF TypeOK
<1>7. Done(f, full, Len(c))'
  BY <1>1, <1>3, <1>5 DEF Done, procVars
<1>8. Shaped(t, full, file)' /\ Done(f, full, Len(file))'
  BY <1>5, <1>6, <1>7 DEF Shaped, LineAt, Done
<1>9. full \in {FALSE, buf_full_flag'} /\ Pieces(streams', file')
  BY <1>1, <1>6 DEF procVars
<1>10. SoleFrame(t, f)'
  BY <1>1, <1>3, <1>4, <1>6, <1>8, <1>9 DEF Listens, SoleFrame, Writes, procVars
<1> QED BY <1>1, <1>3, <1>10 DEF SoleNext, Running

LEMMA SoleExit ==
  ASSUME TypeOK, TypeOK', NEW t \in Threads, Len(stack[t]) = 1,
         SoleFrame(t, stack[t][1]), CloseLog(t) \/ Exit(t)
  PROVE  SoleNext(t)
<1> DEFINE g == stack[t][1]
<1>0. Top(t) = g /\ g \in Frames
  BY SoleSetTop
<1>1. Running /\ UNCHANGED <<procVars, log_fp>> /\ g.pc \in {"free", "exit"}
  BY <1>0 DEF CloseLog, Exit, Hang, At
<1>2. /\ g.from <= result_idx
      /\ Listens(t)
  BY DEF Listens, SoleFrame
<1> DEFINE Whole(full, fr) ==
             present /\ Pieces(streams, file) /\ Shaped(t, full, file) /\ Done(fr, full, Len(file))
<1>3. g.pc = "free" \/ g.code = 0 => \E full \in {FALSE, buf_full_flag} : Whole(full, g)
  BY <1>1 DEF Listens, SoleFrame
<1>4. ASSUME NEW f \in Frames, NextFrame(t, f), f.pc = "exit", f.from = g.from,
             status' = "exit0" => f.code = 0,
             f.code = 0 => \E full \in {FALSE, buf_full_flag} : Whole(full, f)'
      PROVE  SoleNext(t)
  <2>1. f.code = 0 => /\ present' /\ Pieces(streams, file)'
                      /\ \E full \in {FALSE, buf_full_flag'} :
                           Shaped(t, full, file)' /\ Done(f, full, Len(file))'
    BY <1>1, <1>4 DEF procVars
  <2> HIDE DEF Whole
  <2>2. SoleFrame(t, f)'
    BY <1>1, <1>2, <1>4, <2>1 DEF Listens, SoleFrame, Writes, procVars
  <2> QED BY <1>4, <2>2 DEF SoleNext
<1>5. CASE CloseLog(t)
  <2>1. g.pc = "free" /\ UNCHANGED <<stdioVars, status>> /\ GotoExit(t, 0)
    BY <1>0, <1>5 DEF CloseLog, At
  <2>2. Len(streams') \in Nat
    BY LenProperties DEF TypeOK, StdioTypeOK
  <2>3. PICK f \in Frames : /\ f.pc = "exit" /\ f.code = 0
                            /\ f.from = g.from /\ NextFrame(t, f)
    BY <2>1, <2>2, SoleGotoExit
  <2>4. PICK full \in {FALSE, buf_full_flag} : Whole(full, g)
    BY <1>3, <2>1
  <2>5. Whole(full, f)'
    BY <1>1, <2>1, <2>3, <2>4 DEF Done, Shaped, LineAt, stdioVars, procVars
  <2> HIDE DEF Whole
  <2> QED BY <1>4, <2>3, <2>5
<1>6. CASE Exit(t) /\ g.idx > 0
  <2>1. /\ g.pc = "exit" /\ ExitFlush(g.idx) /\ status' = status
        /\ SetTop(t, [g EXCEPT !.idx = g.idx - 1])
    BY <1>0, <1>6 DEF Exit, At
  <2>2. PICK f \in Frames : /\ f.pc = "exit" /\ f.code = g.code
                            /\ f.from = g.from /\ NextFrame(t, f)
    <3> DEFINE n == [g EXCEPT !.idx = g.idx - 1]
    <3>1. n \in Frames /\ n.pc = "exit" /\ n.code = g.code /\ n.from = g.from
      BY <1>0, <1>6, <2>1 DEF Frames
    <3>2. SetTop(t, n)
      BY <2>1
    <3> HIDE DEF n
    <3> QED BY <3>1, <3>2, SoleSetTop
  <2>3. ASSUME f.code = 0 PROVE \E full \in {FALSE, buf_full_flag} : Whole(full, f)'
    <3>1. PICK full \in {FALSE, buf_full_flag} : Whole(full, g)
      BY <1>3, <2>2, <2>3
    <3>2. PICK c \in Seq(Lines) : c = file
      BY DEF TypeOK, StdioTypeOK
    <3>3. /\ present' = present /\ Pieces(streams', c) /\ file' = c
      BY <2>1, <3>1, <3>2, ExitFlushEffect DEF TypeOK
    <3>4. Whole(full, f)'
      BY <1>1, <2>1, <2>2, <3>1, <3>2, <3>3 DEF Done, Shaped, LineAt, procVars
    <3> QED BY <3>4
  <2>4. status' # "exit0"
    BY <1>1, <2>1 DEF Running
  <2> HIDE DEF Whole
  <2> QED BY <1>4, <2>2, <2>3, <2>4
<1>7. CASE Exit(t) /\ ~(g.idx > 0)
  <2>1. /\ g.pc = "exit" /\ UNCHANGED <<stdioVars, stack>>
        /\ status' = (IF g.code = 0 THEN "exit0" ELSE "exit1")
    BY <1>0, <1>7 DEF Exit, At
  <2>2. PICK f \in Frames : f = g
    BY <1>0
  <2>3. NextFrame(t, f)
    BY <2>1, <2>2 DEF NextFrame
  <2>4. ASSUME f.code = 0 PROVE \E full \in {FALSE, buf_full_flag} : Whole(full, f)'
    <3>1. PICK full \in {FALSE, buf_full_flag} : Whole(full, g)
      BY <1>3, <2>2, <2>4
    <3>2. Whole(full, f)'
      BY <1>1, <2>1, <2>2, <3>1 DEF Done, Shaped, LineAt, stdioVars, procVars
    <3> QED BY <3>2
  <2>5. status' = "exit0" => f.code = 0
    BY <2>1, <2>2
  <2>6. f.pc = "exit" /\ f.from = g.from
    BY <2>1, <2>2
  <2> HIDE DEF Whole
  <2> QED BY <1>4, <2>3, <2>4, <2>5, <2>6
<1> QED BY <1>0, <1>5, <1>6, <1>7 DEF Exit

-----------------------------------------------------------------------------
(* Handlers come and never go. *)
LEMMA HandlerFrames ==
  ASSUME TypeOK, NEW t \in Threads, Handler(t)
  PROVE  /\ stack[t] # <<>> /\ Len(stack'[t]) = Len(stack[t]) /\ stack'[t] # <<>>
         /\ \A u \in Threads \ {t} : stack'[u] = stack[u]
<1> DEFINE s == stack[t]
<1>1. s # <<>>
  BY DEF Handler, CallFopen, OpenLog, PrintWarn, PrintBufSize, PrintTitle,
         PrintLine, PrintRow, RowsDone, CallFclose, CloseLog, Exit, Hang, At
<1>2. s \in Seq(Frames) /\ Len(s) \in Nat \ {0} /\ Top(t) \in Frames
  BY <1>1, TopType DEF TypeOK
<1>3. UNCHANGED stack \/ \E f : SetTop(t, f)
  BY DEF Handler, CallFopen, OpenLog, PrintWarn, PrintBufSize, PrintTitle,
         PrintLine, PrintRow, RowsDone, CallFclose, CloseLog, Exit, Hang, Goto, GotoExit
<1>4. ASSUME NEW f, SetTop(t, f)
      PROVE  /\ Len(stack'[t]) = Len(s) /\ stack'[t] # <<>>
             /\ \A u \in Threads \ {t} : stack'[u] = stack[u]
  <2>1. stack' = [stack EXCEPT ![t] = [s EXCEPT ![Len(s)] = f]]
    BY <1>4 DEF SetTop
  <2>2. /\ stack'[t] = [s EXCEPT ![Len(s)] = f]
        /\ \A u \in Threads \ {t} : stack'[u] = stack[u]
    BY <2>1 DEF TypeOK
  <2>3. Len(s) \in 1 .. Len(s) /\ s \in Seq(Frames \cup {f}) /\ f \in Frames \cup {f}
    BY <1>2, SeqDef, LenProperties
  <2>4. /\ [s EXCEPT ![Len(s)] = f] \in Seq(Frames \cup {f})
        /\ Len([s EXCEPT ![Len(s)] = f]) = Len(s)
    BY <2>3, ExceptSeq
  <2>5. [s EXCEPT ![Len(s)] = f] # <<>>
    BY <1>2, <2>4, EmptySeq
  <2> QED BY <2>2, <2>4, <2>5
<1> QED BY <1>1, <1>3, <1>4

LEMMA PushedOn ==
  ASSUME TypeOK, NEW t \in Threads, NEW sig \in Signals \cup {"call"}, Push(t, sig)
  PROVE  /\ Len(stack'[t]) = Len(stack[t]) + 1 /\ stack'[t] # <<>>
         /\ Len(stack[t]) \in Nat
         /\ \A u \in Threads \ {t} : stack'[u] = stack[u]
         /\ \E f \in Frames : /\ f.pc = "open" /\ f.idx = 0 /\ f.code = 0
                              /\ f.from = result_idx
                              /\ stack[t] = <<>> => stack'[t][1] = f
<1> DEFINE s == stack[t]
           f == [sig |-> sig, pc |-> "open", idx |-> 0, code |-> 0, from |-> result_idx]
<1>1. /\ f \in Frames /\ f.pc = "open" /\ f.idx = 0 /\ f.code = 0 /\ f.from = result_idx
      /\ s \in Seq(Frames) /\ Len(s) \in Nat
  BY LenProperties DEF TypeOK, Frames, FramePcs
<1>2. stack' = [stack EXCEPT ![t] = Append(s, f)]
  BY DEF Push
<1> HIDE DEF f
<1>3. stack'[t] = Append(s, f) /\ \A u \in Threads \ {t} : stack'[u] = stack[u]
  BY <1>2 DEF TypeOK
<1>4. /\ Append(s, f) # <<>> /\ Len(Append(s, f)) = Len(s) + 1
      /\ Append(s, f)[Len(s) + 1] = f
  BY <1>1, AppendProperties
<1>5. s = <<>> => Len(s) + 1 = 1
  BY EmptySeq
<1> QED BY <1>1, <1>3, <1>4, <1>5

LEMMA AliveStep ==
  ASSUME AliveInv, [Next]_vars
  PROVE  AliveInv'
<1> USE DEF AliveInv, procVars
<1>1. CASE Startups
  BY <1>1 DEF Startups, Probe, Create, RemoveOld, RegisterInt, RegisterTerm, Startup
<1>2. CASE Loads
  BY <1>2, LoadsStep
<1>3. CASE Report
  BY <1>3 DEF Report, StoreResult, IncResultIdx, CheckFull, CallHandler
<1>4. CASE Drain \/ Crash \/ Kill \/ Terminated \/ UNCHANGED vars
  BY <1>4 DEF Drain, Crash, Kill, Terminated, vars
<1>5. ASSUME NEW t \in Threads, Handler(t) PROVE AliveInv'
  BY <1>5 DEF Handler, CallFopen, OpenLog, PrintWarn, PrintBufSize,
              PrintTitle, PrintLine, PrintRow, RowsDone, CallFclose, CloseLog, Exit, Hang
<1>6. ASSUME NEW sig \in Signals, Send(sig) PROVE AliveInv'
  BY <1>6 DEF Send
<1>7. ASSUME NEW t \in Threads, NEW sig \in Signals, Deliver(t, sig) PROVE AliveInv'
  BY <1>7 DEF Deliver
<1> QED BY <1>1, <1>2, <1>3, <1>4, <1>5, <1>6, <1>7 DEF Next

(* The reporting loop keeps its records, whoever handles the signals.      *)
LEMMA ReportInvStep ==
  ASSUME TypeOK, TypeOK', ReportInv, [Next]_vars
  PROVE  ReportInv'
<1>0. /\ BufLogSize \in Nat /\ measured \in Nat /\ result_idx \in Nat /\ result_idx' \in Nat
      /\ KeptInv
  BY SizeAssumption DEF TypeOK, ReportInv, KeptInv
<1>1. KeptInv' /\ AliveInv'
  BY <1>0, KeptStep, AliveStep DEF ReportInv
<1>2. CASE Report
  <2>1. stack[Reporter] = <<>>
    BY <1>2 DEF Report, StoreResult, IncResultIdx, CheckFull, CallHandler, Reporting, Free
  <2>2. CASE StoreResult
    BY <1>0, <1>1, <2>1, <2>2 DEF StoreResult, Reporting, ReportInv, KeptInv
  <2>3. CASE IncResultIdx
    BY <1>0, <1>1, <2>1, <2>3 DEF IncResultIdx, Reporting, ReportInv, KeptInv
  <2>4. CASE CheckFull
    BY <1>0, <1>1, <2>1, <2>4 DEF CheckFull, Full, Reporting, ReportInv, KeptInv
  <2>5. CASE CallHandler
    <3>1. stack'[Reporter] # <<>>
      BY <2>5, PushedOn, ThreadsAssumption DEF CallHandler
    <3> QED BY <1>0, <1>1, <2>5, <3>1 DEF CallHandler, Reporting, ReportInv, KeptInv
  <2> QED BY <1>2, <2>2, <2>3, <2>4, <2>5 DEF Report
<1>3. CASE ~Report
  <2>1. UNCHANGED recordVars
    BY <1>3, OnlyReportRecords
  <2>2. stack[Reporter] # <<>> => stack'[Reporter] # <<>>
    <3>6. CASE Loads
      BY <3>6, LoadsStep
    <3>1. CASE Startups
      BY <3>1 DEF Startups, Probe, Create, RemoveOld, RegisterInt, RegisterTerm
    <3>2. CASE Drain \/ Crash \/ Kill \/ Terminated \/ UNCHANGED vars
      BY <3>2 DEF Drain, Crash, Kill, Terminated, vars
    <3>3. ASSUME NEW t \in Threads, Handler(t) PROVE stack[Reporter] # <<>> => stack'[Reporter] # <<>>
      BY <3>3, HandlerFrames, ThreadsAssumption
    <3>4. ASSUME NEW sig \in Signals, Send(sig) PROVE stack' = stack
      BY <3>4 DEF Send
    <3>5. ASSUME NEW t \in Threads, NEW sig \in Signals, Deliver(t, sig)
          PROVE  stack[Reporter] # <<>> => stack'[Reporter] # <<>>
      BY <3>5, PushedOn, ThreadsAssumption DEF Deliver
    <3> QED BY <1>3, <3>1, <3>2, <3>3, <3>4, <3>5, <3>6 DEF Next
  <2> QED BY <1>1, <2>1, <2>2 DEF ReportInv, KeptInv, recordVars
<1> QED BY <1>2, <1>3

(* The step that starts the only handler there is. *)
LEMMA SolePush ==
  ASSUME TypeOK, TypeOK', SoleInv, ReportInv', Running, NEW t \in Threads,
         NEW sig \in Signals \cup {"call"}, Push(t, sig),
         Listens(t),
         UNCHANGED <<stdioVars, up, result_idx, buf_full_flag, log_fp, status>>
  PROVE  SoleInv'
<1>1. /\ Len(stack'[t]) = Len(stack[t]) + 1 /\ stack'[t] # <<>>
      /\ Len(stack[t]) \in Nat
      /\ \A u \in Threads \ {t} : stack'[u] = stack[u]
  BY PushedOn
<1>2. PICK f \in Frames : /\ f.pc = "open" /\ f.idx = 0 /\ f.code = 0
                          /\ f.from = result_idx
                          /\ stack[t] = <<>> => stack'[t][1] = f
  BY PushedOn
<1>3. ~NoHandler'
  BY <1>1 DEF NoHandler
<1>4. ASSUME NEW u \in Threads, Sole(u)'
      PROVE  SoleFrame(u, stack[u][1])' /\ status' # "exit0"
  <2>1. u = t
    BY <1>1, <1>4 DEF Sole
  <2>8. Len(stack'[t]) = 1
    BY <1>4, <2>1 DEF Sole
  <2>9. PICK n \in Nat : n = Len(stack[t])
    BY <1>1
  <2>10. n + 1 = 1
    BY <1>1, <2>8, <2>9
  <2>2. Len(stack[t]) = 0
    BY <2>9, <2>10
  <2>3. stack[t] = <<>>
    BY <2>2, EmptySeq DEF TypeOK
  <2>4. NoHandler
    BY <1>1, <1>4, <2>1, <2>3 DEF Sole, NoHandler
  <2>5. Quiet
    BY <2>4 DEF SoleInv
  <2>6. SoleFrame(t, f)'
    BY <1>2, <2>5 DEF Listens, SoleFrame, Quiet, Writes, TypeOK, stdioVars
  <2>7. SoleFrame(u, stack[u][1])'
    BY <1>2, <2>1, <2>3, <2>6
  <2> QED BY <2>7 DEF Running
<1> QED BY <1>3, <1>4 DEF SoleInv

(* A step that leaves the stack, the streams and the file. *)
LEMMA SoleElse ==
  ASSUME TypeOK, TypeOK', SoleInv, ReportInv',
         UNCHANGED <<present, file, streams, stack, log_fp>>,
         up' = up \/ up' \in {"loads", "malloc", "spawn", "calloc", "run", "pause"},
         result_idx' >= result_idx, buf_full_flag => buf_full_flag',
         status' = status \/ status' \in {"exit1", "killed", "crashed"}
  PROVE  SoleInv'
<1>1. ASSUME NEW t \in Threads, Sole(t)'
      PROVE  /\ SoleFrame(t, stack[t][1])'
             /\ status' = "exit0" => stack'[t][1].pc = "exit" /\ stack'[t][1].code = 0
  <2>1. Sole(t)
    BY <1>1 DEF Sole
  <2>2. stack[t][1] \in Frames
    BY <2>1, SoleSetTop DEF Sole
  <2> PICK f \in Frames : f = stack[t][1]
    BY <2>2
  <2>3. SoleFrame(t, f)
    BY <2>1 DEF SoleInv
  <2>4. SoleFrame(t, f)'
    BY <2>3, SoleKept
  <2> QED BY <2>1, <2>4 DEF SoleInv
<1>2. NoHandler' => Quiet' /\ status' # "exit0"
  BY DEF NoHandler, Quiet, SoleInv
<1> QED BY <1>1, <1>2 DEF SoleInv

(* main() before the handlers: none can be on a stack. *)
LEMMA SoleStartups ==
  ASSUME TypeOK, TypeOK', SoleInv, ReportInv', Startups
  PROVE  SoleInv'
<1>1. Free(Main) /\ stack' = stack /\ up \in {"probe", "create", "remove", "sigint", "sigterm"}
  BY DEF Startups, Startup, Probe, Create, RemoveOld, RegisterInt, RegisterTerm
<1>2. ASSUME NEW t \in Threads, Sole(t)' PROVE FALSE
  <2>1. Sole(t) /\ Len(stack[t]) = 1
    BY <1>1, <1>2 DEF Sole
  <2>2. t = Main
    BY <1>1, <2>1 DEF SoleInv, Listens, SoleFrame
  <2>3. stack[t] = <<>>
    BY <1>1, <2>2 DEF Free
  <2> QED BY <2>1, <2>3, EmptySeq
<1>3. ASSUME NoHandler' PROVE Quiet' /\ status' # "exit0"
  <2>1. Quiet
    BY <1>1, <1>3 DEF NoHandler, SoleInv
  <2>2. CASE Create
    <3>1. status' # "exit0"
      BY <2>2 DEF Create, Startup, Free, Running
    <3>2. CASE FOpenW
      <4>1. /\ Len(streams') = Len(streams) + 1 /\ Len(streams) \in Nat
            /\ \A k \in 1 .. Len(streams) : streams'[k] = streams[k]
            /\ streams'[Len(streams')].off = 0 /\ streams'[Len(streams')].buf = <<>>
        BY <3>2, OpenedStream DEF TypeOK
      <4>2. \A k \in 1 .. Len(streams') : k \in 1 .. Len(streams) \/ k = Len(streams')
        BY <4>1
      <4>3. Quiet'
        BY <2>1, <4>1, <4>2 DEF Quiet
      <4> QED BY <3>1, <4>3
    <3>3. CASE ~FOpenW
      BY <2>1, <2>2, <3>1, <3>3 DEF Create, Quiet, stdioVars
    <3> QED BY <3>2, <3>3
  <2>3. CASE Probe \/ RemoveOld \/ RegisterInt \/ RegisterTerm
    <3>1. streams' = streams
      BY <2>3 DEF Probe, RemoveOld, Remove, RegisterInt, RegisterTerm, stdioVars
    <3>2. status' # "exit0"
      BY <2>3 DEF Probe, RemoveOld, RegisterInt, RegisterTerm, Startup, Free, Running
    <3> QED BY <2>1, <3>1, <3>2 DEF Quiet
  <2> QED BY <2>2, <2>3 DEF Startups
<1> QED BY <1>2, <1>3 DEF SoleInv

(* A handler's step moves its own frame only. *)
LEMMA SoleHandlerStep ==
  ASSUME TypeOK, TypeOK', SoleInv, ReportInv', NEW t \in Threads, Handler(t)
  PROVE  SoleInv'
<1>1. /\ stack[t] # <<>> /\ Len(stack'[t]) = Len(stack[t]) /\ stack'[t] # <<>>
      /\ \A u \in Threads \ {t} : stack'[u] = stack[u]
  BY HandlerFrames
<1>2. ~NoHandler'
  BY <1>1 DEF NoHandler
<1>3. ASSUME NEW u \in Threads, Sole(u)'
      PROVE  /\ SoleFrame(u, stack[u][1])'
             /\ status' = "exit0" => stack'[u][1].pc = "exit" /\ stack'[u][1].code = 0
  <2>1. u = t /\ Sole(t)
    BY <1>1, <1>3 DEF Sole
  <2>2. Len(stack[t]) = 1 /\ SoleFrame(t, stack[t][1]) /\ ReportInv
    BY <2>1 DEF Sole, SoleInv
  <2>3. SoleNext(t)
    <3>1. CASE CallFopen(t) \/ Hang(t) \/ OpenLog(t)
      BY <2>2, <3>1, SoleFopen
    <3>2. CASE PrintWarn(t) \/ PrintBufSize(t) \/ PrintTitle(t)
      BY <2>2, <3>2, SoleHeading
    <3>3. CASE PrintRow(t) \/ RowsDone(t)
      BY <2>2, <3>3, SoleRows
    <3>4. CASE CallFclose(t)
      BY <2>2, <3>4, SoleFclose
    <3>5. CASE CloseLog(t) \/ Exit(t)
      BY <2>2, <3>5, SoleExit
    <3> QED BY <3>1, <3>2, <3>3, <3>4, <3>5 DEF Handler
  <2>4. PICK f \in Frames : /\ NextFrame(t, f) /\ SoleFrame(t, f)'
                            /\ status' = "exit0" => f.pc = "exit" /\ f.code = 0
    BY <2>3 DEF SoleNext
  <2>5. stack'[t][1] = f
    BY <2>4 DEF NextFrame
  <2>6. SoleFrame(u, stack[u][1])'
    BY <2>1, <2>4, <2>5
  <2> QED BY <2>1, <2>4, <2>5, <2>6
<1> QED BY <1>2, <1>3 DEF SoleInv

LEMMA SoleReport ==
  ASSUME TypeOK, TypeOK', SoleInv, ReportInv', Report
  PROVE  SoleInv'
<1>1. CASE CallHandler
  <2>1. Running /\ Listens(Reporter) /\ Push(Reporter, "call")
    <3>1. Measures /\ Running /\ Push(Reporter, "call")
      BY <1>1 DEF CallHandler, Reporting, Free
    <3>2. Listens(Reporter)
      BY <3>1 DEF Measures, SoleInv, ReportInv, AliveInv, Listens
    <3> QED BY <3>1, <3>2
  <2>2. UNCHANGED <<stdioVars, up, result_idx, buf_full_flag, log_fp, status>>
    BY <1>1 DEF CallHandler
  <2> QED BY <2>1, <2>2, SolePush, ThreadsAssumption
<1>2. CASE StoreResult \/ IncResultIdx \/ CheckFull
  <2>1. UNCHANGED <<present, file, streams, stack, log_fp, up, status>>
    BY <1>2 DEF StoreResult, Misuse, IncResultIdx, CheckFull, stdioVars
  <2>2. result_idx' >= result_idx
    BY <1>2 DEF StoreResult, IncResultIdx, CheckFull, TypeOK
  <2>3. buf_full_flag => buf_full_flag'
    BY <1>2 DEF StoreResult, IncResultIdx, CheckFull
  <2> QED BY <2>1, <2>2, <2>3, SoleElse
<1> QED BY <1>1, <1>2 DEF Report

LEMMA SoleStep ==
  ASSUME TypeOK, TypeOK', SoleInv, [Next]_vars
  PROVE  SoleInv'
<1>1. ReportInv'
  BY ReportInvStep DEF SoleInv
<1>2. CASE Startups
  BY <1>1, <1>2, SoleStartups
<1>7. CASE Loads
  <2>1. result_idx' >= result_idx
    BY <1>7, LoadsStep DEF loopVars, TypeOK
  <2>2. status' = status \/ status' = "exit1"
    BY <1>7, LoadsStep DEF Free, Running
  <2> QED BY <1>1, <1>7, <2>1, <2>2, LoadsStep, SoleElse DEF stdioVars, loopVars
<1>3. CASE Report
  BY <1>1, <1>3, SoleReport
<1>4. ASSUME NEW t \in Threads, Handler(t) PROVE SoleInv'
  BY <1>1, <1>4, SoleHandlerStep
<1>5. CASE Drain \/ Crash \/ Kill \/ Terminated \/ UNCHANGED vars \/ \E sig \in Signals : Send(sig)
  <2>1. /\ UNCHANGED <<present, file, streams, stack, log_fp, up, result_idx, buf_full_flag>>
        /\ status' = status \/ status' \in {"killed", "crashed"}
    BY <1>5 DEF Drain, Crash, Kill, Terminated, Send, vars, stdioVars, procVars
  <2>2. result_idx' >= result_idx
    BY <2>1 DEF TypeOK
  <2> QED BY <1>1, <2>1, <2>2, SoleElse
<1>6. ASSUME NEW t \in Threads, NEW sig \in Signals, Deliver(t, sig) PROVE SoleInv'
  <2>1. /\ Running /\ Push(t, sig) /\ sig \in Handled
        /\ t \in alive
        /\ UNCHANGED <<stdioVars, up, result_idx, buf_full_flag, log_fp, status>>
    BY <1>6 DEF Deliver, procVars
  <2>2. Listens(t)
    BY <2>1 DEF Handled, SoleInv, ReportInv, AliveInv, Listens
  <2> QED BY <1>1, <2>1, <2>2, SolePush
<1> QED BY <1>2, <1>3, <1>4, <1>5, <1>6, <1>7 DEF Next

LEMMA SoleInit ==
  ASSUME BufLogSize > 0, Init
  PROVE  SoleInv
<1>1. NoHandler /\ Quiet
  BY DEF Init, StdioInit, NoHandler, Quiet
<1>2. \A t \in Threads : ~Sole(t)
  BY EmptySeq DEF Init, Sole
<1>3. ReportInv
  BY SizeAssumption DEF Init, ReportInv, AliveInv, Slots
<1> QED BY <1>1, <1>2, <1>3 DEF SoleInv, Init

(* What it says at the end. *)
LEMMA SoleEnds ==
  ASSUME TypeOK, SoleInv
  PROVE  SoleHandlerLog
<1> SUFFICES ASSUME status = "exit0", NEW t \in Threads, Sole(t)
             PROVE  \E full \in {FALSE, buf_full_flag}, n \in stack[t][1].from .. result_idx :
                      /\ present
                      /\ Len(file) = Len(Heading(full)) + n
                      /\ \A i \in 1 .. Len(file) :
                            IF i <= Len(Heading(full)) THEN file[i] = Heading(full)[i]
                            ELSE LET k == i - Len(Heading(full))
                                 IN file[i] = Row(k) \/ (t # Reporter /\ file[i] = Row(0))
  BY DEF SoleHandlerLog
<1> DEFINE f == stack[t][1]
<1>1. f \in Frames /\ f.from \in Nat /\ result_idx \in Nat
  BY SoleSetTop DEF Sole, Frames, TypeOK
<1>2. SoleFrame(t, f) /\ f.pc = "exit" /\ f.code = 0
  BY DEF SoleInv
<1>3. PICK full \in {FALSE, buf_full_flag} : Shaped(t, full, file) /\ Done(f, full, Len(file))
  BY <1>2 DEF Listens, SoleFrame
<1>4. present
  BY <1>2 DEF Listens, SoleFrame
<1>5. PICK n \in Nat : f.from <= n /\ n <= result_idx /\ Len(file) = Len(Heading(full)) + n
  BY <1>2, <1>3 DEF Done
<1>6. n \in f.from .. result_idx
  BY <1>1, <1>5
<1> QED BY <1>3, <1>4, <1>5, <1>6 DEF Shaped, LineAt

(* With any number of threads: a run that only one handler ends, and ends  *)
(* with success, leaves a header and the rows from the first one on, every *)
(* one recorded before the signal among them.  Other threads go on storing *)
(* while it writes; the buffer has room for a measurement (-e 1 or more).  *)
THEOREM SoleHandlerWritesLog ==
  ASSUME BufLogSize > 0
  PROVE  Spec => []SoleHandlerLog
<1>1. Init => SoleInv
  BY SoleInit
<1>2. TypeOK /\ TypeOK' /\ SoleInv /\ [Next]_vars => SoleInv'
  BY SoleStep
<1>3. TypeOK /\ SoleInv => SoleHandlerLog
  BY SoleEnds
<1> QED BY <1>1, <1>2, <1>3, TypeCorrect, PTL DEF Spec
=============================================================================
