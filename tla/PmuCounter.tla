----------------------------- MODULE PmuCounter -----------------------------
(***************************************************************************)
(* pmu_counter.c: one group of EventNum performance events that a program  *)
(* compiled with it creates, resets, starts, stops and exports, the kernel *)
(* side of perf events as far as these calls use it, and any program that  *)
(* makes the calls in the order the library's README asks for.             *)
(*                                                                         *)
(* A unit of work is what the process does in user mode between two steps. *)
(* It is counted by the events that are on at that moment: one that is     *)
(* enabled, as is its leader, on the CPU the process runs on.  All events  *)
(* are taken to count the same work, and the PMU to be theirs alone.       *)
(***************************************************************************)
EXTENDS Integers, FiniteSets

CONSTANTS
  EventNum,    \* 6 in the code: fd0 to fd5, pe0 to pe5
  Cpus,        \* the CPUs that are online
  AnyCpu,      \* -1, for an event that follows its process
  Targets,     \* what a program may name as the CPU to count on
  Fds          \* the descriptors the process may have, for perf events

ASSUME PmuCounterAssumption == EventNum \in Nat \ {0}

VARIABLES
  fd,         \* fd0 ..: a closed descriptor's number stays in it
  events,     \* the kernel's: the open descriptors, and the event of each
  target,     \* target_cpu, the argument of create_six_event_group
  call,       \* the function, or the loop of it, that runs, or "none"
  k,          \* the event that loop is at
  val, ret,   \* the locals of export_counter: values, and reads that failed
  cpu,        \* the CPU the process is on
  running,    \* history: the program has started the counters,
  work,       \* the work it did since then and the last reset, on the target,
  slack       \* and the steps inside the library that may be counted, too

counters == <<fd, events, target>>
locals == <<val, ret>>
history == <<running, work, slack>>
library == <<counters, call, k, locals, history>>
pmuVars == <<library, cpu>>

Group == 1 .. EventNum

Grouped == DOMAIN events # {}

NoValues == [n \in Group |-> 0]

OnTarget == target \in {cpu, AnyCpu}

CounterInit ==
  /\ fd = [n \in Group |-> 0] /\ events = [d \in {} |-> 0] /\ target = AnyCpu
  /\ call = "none" /\ k = 1
  /\ val = NoValues /\ ret = [n \in Group |-> TRUE]
  /\ cpu \in Cpus
  /\ running = FALSE /\ work = 0 /\ slack = 0

-----------------------------------------------------------------------------
(* perf events *)

Counts(d) ==
  /\ events[d].enabled /\ events[events[d].leader].enabled
  /\ events[d].cpu \in {cpu, AnyCpu}

(* What the events hold after one more unit of work of the process. *)
Counted ==
  [d \in DOMAIN events |->
     IF Counts(d) THEN [events[d] EXCEPT !.count = @ + 1] ELSE events[d]]

(* The library's own instructions between two system calls are one unit.   *)
Counting == running \/ call \in {"reset", "reset_and_start", "start", "stop"}

LibraryWork == slack' = IF Counting THEN slack + 1 ELSE slack

(* The loop is at the next event, or over: the function goes on or returns. *)
Advance(next) ==
  IF k < EventNum THEN k' = k + 1 /\ UNCHANGED call ELSE k' = 1 /\ call' = next

(* ioctl(fdk, ..): how it changes the event, after what was counted until  *)
(* the call.  On a descriptor that is not open it changes nothing.         *)
Ioctl(d, Change(_)) ==
  events' = [e \in DOMAIN events |->
               IF e = d THEN Change(Counted[e]) ELSE Counted[e]]

-----------------------------------------------------------------------------
(* create_six_event_group() *)

CreateSixEventGroup(cpu_id) ==
  /\ call = "none"
  /\ call' = "create" /\ k' = 1 /\ target' = cpu_id
  /\ work' = 0 /\ slack' = 0 /\ running' = FALSE
  /\ UNCHANGED <<fd, events, locals, cpu>>

Leader(d) == IF k = 1 THEN d ELSE fd[1]

(* perf_event_open(): refused by the kernel, for want of descriptors, or   *)
(* for a CPU that is not there, it ends the program.                       *)
PerfEventOpen ==
  /\ call = "create"
  /\ \/ /\ target \in Cpus \cup {AnyCpu} /\ DOMAIN events # Fds
        /\ LET d == CHOOSE d \in Fds \ DOMAIN events : TRUE
               pe == [leader |-> Leader(d), cpu |-> target,
                      enabled |-> FALSE, count |-> 0]
           IN /\ fd' = [fd EXCEPT ![k] = d]
              /\ events' = [e \in DOMAIN events \cup {d} |->
                              IF e = d THEN pe ELSE Counted[e]]
        /\ Advance("none")
     \/ call' = "exit" /\ UNCHANGED <<fd, events, k>>
  /\ LibraryWork
  /\ UNCHANGED <<target, locals, running, work, cpu>>

-----------------------------------------------------------------------------
(* The loops over fd0 .. of the calls that control the counters *)

Begin(function) ==
  /\ call = "none"
  /\ call' = function /\ k' = 1
  /\ running' = (running /\ function # "stop")
  /\ IF function \in {"reset", "reset_and_start"}
     THEN work' = 0 /\ slack' = 0
     ELSE UNCHANGED <<work, slack>>
  /\ IF function \in {"export", "export_and_clean"}
     THEN val' = NoValues /\ ret' = [n \in Group |-> TRUE]
     ELSE UNCHANGED locals
  /\ UNCHANGED <<counters, cpu>>

Zero(e) == [e EXCEPT !.count = 0]

On(e) == [e EXCEPT !.enabled = TRUE]

Off(e) == [e EXCEPT !.enabled = FALSE]

(* reset_counter(), and the first half of reset_and_start_counter(). *)
Reset ==
  /\ call \in {"reset", "reset_and_start"}
  /\ Ioctl(fd[k], Zero)
  /\ Advance(IF call = "reset" THEN "none" ELSE "start")
  /\ LibraryWork
  /\ UNCHANGED <<fd, target, locals, running, work, cpu>>

(* start_counter(), and the second half of reset_and_start_counter(). *)
Start ==
  /\ call = "start"
  /\ Ioctl(fd[k], On)
  /\ Advance("none")
  /\ running' = (running \/ k = EventNum)
  /\ LibraryWork
  /\ UNCHANGED <<fd, target, locals, work, cpu>>

(* Mutant: the leader is left on. *)
Stop_NotLeader ==
  /\ call = "stop"
  /\ IF k > 1 THEN Ioctl(fd[k], Off) ELSE events' = Counted
  /\ Advance("none")
  /\ LibraryWork
  /\ UNCHANGED <<fd, target, locals, running, work, cpu>>

Stop ==
  /\ call = "stop"
  /\ Ioctl(fd[k], Off)
  /\ Advance("none")
  /\ LibraryWork
  /\ UNCHANGED <<fd, target, locals, running, work, cpu>>

-----------------------------------------------------------------------------
(* export_counter(), and export_and_clean_counter(), which closes as well  *)

(* A read that fails leaves the value at 0. *)
Read ==
  /\ call \in {"export", "export_and_clean"}
  /\ \/ val' = [val EXCEPT ![k] = Counted[fd[k]].count] /\ UNCHANGED ret
     \/ ret' = [ret EXCEPT ![k] = FALSE] /\ UNCHANGED val
  /\ events' = Counted
  /\ Advance(IF call = "export" THEN "print" ELSE "print_and_clean")
  /\ LibraryWork
  /\ UNCHANGED <<fd, target, running, work, cpu>>

(* The warnings and the rows; they are what val and ret hold here. *)
PrintValues ==
  /\ call \in {"print", "print_and_clean"}
  /\ call' = (IF call = "print" THEN "none" ELSE "clean") /\ k' = 1
  /\ events' = Counted
  /\ LibraryWork
  /\ UNCHANGED <<fd, target, locals, running, work, cpu>>

(* Mutant: the last descriptor is not closed. *)
Close_SkipsLast ==
  /\ call = "clean"
  /\ events' = [e \in DOMAIN events \ {fd[n] : n \in {k} \ {EventNum}} |-> Counted[e]]
  /\ Advance("none")
  /\ LibraryWork
  /\ UNCHANGED <<fd, target, locals, running, work, cpu>>

(* close(fdk): the members of a closed leader's group become leaders. *)
Close ==
  /\ call = "clean"
  /\ events' = [e \in DOMAIN events \ {fd[k]} |->
                  [Counted[e] EXCEPT !.leader = IF @ = fd[k] THEN e ELSE @]]
  /\ Advance("none")
  /\ LibraryWork
  /\ UNCHANGED <<fd, target, locals, running, work, cpu>>

Library == PerfEventOpen \/ Reset \/ Start \/ Stop \/ Read \/ PrintValues \/ Close

-----------------------------------------------------------------------------
(* The process outside of the library *)

Execute ==
  /\ call = "none"
  /\ events' = Counted
  /\ work' = IF running /\ OnTarget THEN work + 1 ELSE work
  /\ UNCHANGED <<fd, target, call, k, locals, running, slack, cpu>>

(* The scheduler moves the process, at any moment. *)
Migrate(cpus) == cpu' \in cpus /\ UNCHANGED library

Functions ==
  {"reset", "reset_and_start", "start", "stop", "export", "export_and_clean"}

(* A program that keeps to the README of the library creates a group when  *)
(* it has none, and uses the rest of the library while it has one.         *)
CounterNext ==
  \/ ~Grouped /\ \E cpu_id \in Targets : CreateSixEventGroup(cpu_id)
  \/ Grouped /\ \E function \in Functions : Begin(function)
  \/ Library \/ Execute \/ Migrate(Cpus)

CounterSpec == CounterInit /\ [][CounterNext]_pmuVars

-----------------------------------------------------------------------------
(* Properties *)

(* No descriptor is lost: every open event is one of fd0 .. fd5, so that   *)
(* export_and_clean_counter() closes it, and between the calls a group is  *)
(* there as a whole or not at all, under six numbers.                      *)
NoDescriptorIsLost ==
  /\ DOMAIN events \subseteq {fd[n] : n \in Group}
  /\ call = "none" /\ Grouped =>
       /\ \A n \in Group : fd[n] \in DOMAIN events
       /\ \A m, n \in Group : fd[m] = fd[n] => m = n

(* A count that is exported holds the work the process did on the target   *)
(* CPU since the last reset while the counters were started, all of it and *)
(* nothing else but the library's own instructions: nothing is lost when   *)
(* the counters are stopped and started again, nothing is added before the *)
(* start, after the stop or on another CPU, and the values of the six are  *)
(* of the same stretch of work, whatever the order in which the loops of   *)
(* the library switch the leader and the others.  A value that could not   *)
(* be read is 0.                                                           *)
CountsAreOfTheWork ==
  call \in {"print", "print_and_clean"} =>
    \A n \in Group : IF ret[n] THEN val[n] \in work .. work + slack ELSE val[n] = 0
=============================================================================
