------------------------------ MODULE CgTaskset ------------------------------
(***************************************************************************)
(* cg_taskset(), the -g option of the four benchmarks and of               *)
(* pmu-sim-lat_mem_rd: a process puts itself into a cpuset group of cgroup *)
(* v2.  Several processes run it at the same time on one cgroup file       *)
(* system; the programs' subgroups are not all different: sim-lat_mem_rd,  *)
(* sim-bw_mem_wr and inf-sim-bw_mem_wr use sim_lmb/sim-lat_mem_rd.         *)
(***************************************************************************)
EXTENDS Naturals, FiniteSets

CONSTANTS
  Procs,     \* the processes
  Group,     \* Group[p]: the subgroup p's program uses
  Want,      \* Want[p]: the CPUs p was given with -g
  Refusals,  \* may the kernel refuse an open, a write or a mkdir: a set of answers
  Polls      \* 20 in the code

Groups == {Group[p] : p \in Procs}

NoCpus == {}     \* cpuset.cpus of a new group
NoPid == "0"     \* cpuset_value before anything was read

ASSUME CgAssumption ==
  /\ Refusals \subseteq BOOLEAN /\ Polls \in Nat \ {0}
  /\ NoPid \notin Procs
  /\ \A p \in Procs : Want[p] # NoCpus

VARIABLES
  refuses,         \* whether the kernel may refuse a call; constant
  pc,              \* where each process is
  rootCtl,         \* cpuset is enabled below the root group
  parent,          \* the group sim_lmb exists
  parentCtl,       \* cpuset is enabled below sim_lmb
  subgroups,       \* the subgroups that exist
  cpus,            \* cpuset.cpus of each subgroup
  procs,           \* cgroup.procs of each subgroup
  cpuset_value,    \* what each process read last
  pid_check_cnt

fs == <<refuses, rootCtl, parent, parentCtl, subgroups, cpus, procs>>
poll == <<cpuset_value, pid_check_cnt>>
vars == <<pc, fs, poll>>

(* The groups that earlier runs of the programs left behind: the code      *)
(* removes none, and a controller or a group can only be where the level   *)
(* above it was built.                                                     *)
LeftBehind ==
  /\ rootCtl \in BOOLEAN /\ parent \in BOOLEAN
  /\ parentCtl \in {FALSE, rootCtl /\ parent}
  /\ subgroups \in IF parent THEN SUBSET Groups ELSE {{}}
  /\ cpus \in [Groups -> {NoCpus} \cup {Want[p] : p \in Procs}]
  /\ \A g \in Groups : cpus[g] # NoCpus => parentCtl /\ g \in subgroups

Init ==
  /\ refuses \in Refusals
  /\ pc = [p \in Procs |-> "root"]
  /\ LeftBehind
  /\ procs = [g \in Groups |-> {}]
  /\ cpuset_value = [p \in Procs |-> NoPid]
  /\ pid_check_cnt = [p \in Procs |-> 0]

Goto(p, from, to) == pc[p] = from /\ pc' = [pc EXCEPT ![p] = to]

(* fopen() fails, which every call of it looks at: exit(1). *)
CannotOpen(p, from) == refuses /\ Goto(p, from, "exit")

(* The text reaches the kernel in fclose(), whose result nobody looks at.  *)
Write(effect, unchanged) == effect \/ (refuses /\ unchanged)

EnableRoot(p) ==
  /\ \/ /\ Goto(p, "root", "mkparent")
        /\ Write(rootCtl' = TRUE, UNCHANGED rootCtl)
     \/ CannotOpen(p, "root") /\ UNCHANGED rootCtl
  /\ UNCHANGED <<refuses, parent, parentCtl, subgroups, cpus, procs, poll>>

(* create_directory(): its result is not looked at either. *)
MakeParent(p) ==
  /\ Goto(p, "mkparent", "parentctl")
  /\ Write(parent' = TRUE, UNCHANGED parent)
  /\ UNCHANGED <<refuses, rootCtl, parentCtl, subgroups, cpus, procs, poll>>

EnableParent(p) ==
  /\ \/ /\ parent /\ Goto(p, "parentctl", "mksub")
        /\ Write(parentCtl' = rootCtl, UNCHANGED parentCtl)
     \/ ~parent /\ Goto(p, "parentctl", "exit") /\ UNCHANGED parentCtl
     \/ CannotOpen(p, "parentctl") /\ UNCHANGED parentCtl
  /\ UNCHANGED <<refuses, rootCtl, parent, subgroups, cpus, procs, poll>>

MakeSubgroup(p) ==
  /\ Goto(p, "mksub", "cpus")
  /\ Write(subgroups' = subgroups \cup {Group[p]}, UNCHANGED subgroups)
  /\ UNCHANGED <<refuses, rootCtl, parent, parentCtl, cpus, procs, poll>>

(* Mutant: the result of fopen is not looked at. *)
CpusetExists_Any(p) == p \in Procs

(* cpuset.cpus exists in a subgroup once the parent enables the controller. *)
CpusetExists(p) == Group[p] \in subgroups /\ parentCtl

(* Mutant: the CPUs of all subgroups are written. *)
NewCpus_All(p) ==
  [g \in Groups |-> IF g \in subgroups THEN Want[p] ELSE cpus[g]]

NewCpus(p) == [cpus EXCEPT ![Group[p]] = Want[p]]

SetCpus(p) ==
  /\ \/ /\ CpusetExists(p) /\ Goto(p, "cpus", "join")
        /\ Write(cpus' = NewCpus(p), UNCHANGED cpus)
     \/ ~CpusetExists(p) /\ Goto(p, "cpus", "exit") /\ UNCHANGED cpus
     \/ CannotOpen(p, "cpus") /\ UNCHANGED cpus
  /\ UNCHANGED <<refuses, rootCtl, parent, parentCtl, subgroups, procs, poll>>

Join(p) ==
  /\ \/ /\ Goto(p, "join", "read")
        /\ Write(procs' = [procs EXCEPT ![Group[p]] = @ \cup {p}], UNCHANGED procs)
     \/ CannotOpen(p, "join") /\ UNCHANGED procs
  /\ UNCHANGED <<refuses, rootCtl, parent, parentCtl, subgroups, cpus, poll>>

(* fscanf reads the first PID of the file, whichever it is, or nothing. *)
ReadPid(p) ==
  /\ \/ /\ Goto(p, "read", "check")
        /\ \E q \in procs[Group[p]] : cpuset_value' = [cpuset_value EXCEPT ![p] = q]
     \/ Goto(p, "read", "check") /\ procs[Group[p]] = {} /\ UNCHANGED cpuset_value
     \/ CannotOpen(p, "read") /\ UNCHANGED cpuset_value
  /\ UNCHANGED <<fs, pid_check_cnt>>

(* Mutant: the limit is tested one poll late. *)
GivesUp_Late(p) == pid_check_cnt[p] > Polls

GivesUp(p) == pid_check_cnt[p] = Polls

(* Mutant: any PID will do. *)
Found_Any(p) == cpuset_value[p] # NoPid

(* Mutant: the loop's condition is inverted. *)
Found_Inverted(p) == cpuset_value[p] # p

Found(p) == cpuset_value[p] = p

(* Mutant: the polls are not counted. *)
CheckPid_ForEver(p) ==
  /\ Goto(p, "check", IF Found(p) THEN "done" ELSE "read")
  /\ UNCHANGED <<fs, poll>>

CheckPid(p) ==
  /\ IF GivesUp(p)
     THEN Goto(p, "check", "timeout") /\ UNCHANGED pid_check_cnt
     ELSE /\ Goto(p, "check", IF Found(p) THEN "done" ELSE "read")
          /\ pid_check_cnt' = [pid_check_cnt EXCEPT ![p] = @ + 1]
  /\ UNCHANGED <<fs, cpuset_value>>

(* A process that ends, after an error or after its benchmark, leaves its  *)
(* group; the groups and their CPUs stay.                                  *)
End(p) ==
  /\ \E from \in {"exit", "timeout", "done"} : Goto(p, from, "ended")
  /\ procs' = [g \in Groups |-> procs[g] \ {p}]
  /\ UNCHANGED <<refuses, rootCtl, parent, parentCtl, subgroups, cpus, poll>>

Terminated == (\A p \in Procs : pc[p] = "ended") /\ UNCHANGED vars

cg_taskset(p) ==
  \/ EnableRoot(p) \/ MakeParent(p) \/ EnableParent(p) \/ MakeSubgroup(p)
  \/ SetCpus(p) \/ Join(p) \/ ReadPid(p) \/ CheckPid(p)

Next == Terminated \/ \E p \in Procs : cg_taskset(p) \/ End(p)

Spec == Init /\ [][Next]_vars

(* Every process is scheduled; nothing makes a benchmark end. *)
FairSpec == Spec /\ \A p \in Procs : WF_vars(cg_taskset(p))

-----------------------------------------------------------------------------
(* Properties *)

Pcs == {"root", "mkparent", "parentctl", "mksub", "cpus", "join", "read",
        "check", "done", "timeout", "exit", "ended"}

(* The type invariant; a polling process has not polled too often. *)
TypeOK ==
  /\ refuses \in Refusals
  /\ pc \in [Procs -> Pcs]
  /\ rootCtl \in BOOLEAN /\ parent \in BOOLEAN /\ parentCtl \in BOOLEAN
  /\ subgroups \subseteq Groups
  /\ cpus \in [Groups -> {NoCpus} \cup {Want[p] : p \in Procs}]
  /\ procs \in [Groups -> SUBSET Procs]
  /\ cpuset_value \in [Procs -> Procs \cup {NoPid}]
  /\ pid_check_cnt \in [Procs -> 0 .. Polls]

(* A process that goes on to its benchmark is in its subgroup, whatever    *)
(* the kernel refused and whoever else uses the group: the loop that reads *)
(* cgroup.procs makes up for every result that is ignored before it.       *)
DoneIsMember == \A p \in Procs : pc[p] = "done" => p \in procs[Group[p]]

(* A group never has CPUs or members before cpuset is enabled for it, in   *)
(* whatever order the processes build the hierarchy.                       *)
GroupsAreBuilt ==
  \A g \in Groups : cpus[g] # NoCpus \/ procs[g] # {} =>
    rootCtl /\ parent /\ parentCtl /\ g \in subgroups

(* cg_taskset() ends, in the benchmark or in an error, and no other        *)
(* process in the group can keep it in its loop.                           *)
Settles ==
  \A p \in Procs : <>(pc[p] \in {"done", "timeout", "exit", "ended"})

(* No other process has p's subgroup. *)
Alone(p) == \A q \in Procs \ {p} : Group[q] # Group[p]

(* A process that has its subgroup to itself runs on the CPUs it was       *)
(* given, if the kernel refuses nothing, however the steps of the others   *)
(* fall between its own (lat_mem_rd/README.md:21).                         *)
LoneProcessOwnsCpus ==
  ~refuses => \A p \in Procs : Alone(p) /\ pc[p] = "done" =>
    cpus[Group[p]] = Want[p]

(* A process that has its subgroup to itself gives up only when it could   *)
(* not be put into it.                                                     *)
LoneFailureIsReal ==
  \A p \in Procs : Alone(p) /\ pc[p] = "timeout" => p \notin procs[Group[p]]

-----------------------------------------------------------------------------
(* What the messages say *)

(* inf-sim-lat_mem_rd.c:589: a process that gives up could not be put into *)
(* its group.                                                              *)
FailureIsReal == \A p \in Procs : pc[p] = "timeout" => p \notin procs[Group[p]]
=============================================================================
