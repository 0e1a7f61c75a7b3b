-------------------------- MODULE CgTaskset_proofs --------------------------
(* Proofs about CgTaskset, for any number of processes and subgroups.      *)
EXTENDS CgTaskset, TLAPS

LEMMA InitType == Init => TypeOK
<1> SUFFICES ASSUME Init PROVE TypeOK
  OBVIOUS
<1>1. pid_check_cnt \in [Procs -> 0 .. Polls]
  BY CgAssumption DEF Init
<1>2. /\ cpus \in [Groups -> {NoCpus} \cup {Want[p] : p \in Procs}]
      /\ procs \in [Groups -> SUBSET Procs]
      /\ cpuset_value \in [Procs -> Procs \cup {NoPid}]
  BY DEF Init, LeftBehind
<1> QED BY <1>1, <1>2 DEF Init, LeftBehind, TypeOK, Pcs

(* The processes and the kernel stay within their types: no process polls  *)
(* more often than it may.                                                 *)
THEOREM TypeCorrect == Spec => []TypeOK
<1>1. TypeOK /\ [Next]_vars => TypeOK'
  <2> SUFFICES ASSUME TypeOK, [Next]_vars PROVE TypeOK'
    OBVIOUS
  <2> USE DEF TypeOK, Goto, CannotOpen, Write, Groups, fs, poll
  <2>1. CASE UNCHANGED vars
    BY <2>1 DEF vars
  <2>2. CASE Terminated
    BY <2>2 DEF Terminated, vars
  <2>3. ASSUME NEW p \in Procs, cg_taskset(p) PROVE TypeOK'
    <3>1. CASE EnableRoot(p)
      BY <3>1 DEF EnableRoot, Pcs
    <3>2. CASE MakeParent(p)
      BY <3>2 DEF MakeParent, Pcs
    <3>3. CASE EnableParent(p)
      BY <3>3 DEF EnableParent, Pcs
    <3>4. CASE MakeSubgroup(p)
      BY <3>4 DEF MakeSubgroup, Pcs
    <3>5. CASE SetCpus(p)
      BY <3>5 DEF SetCpus, NewCpus, Pcs
    <3>6. CASE Join(p)
      BY <3>6 DEF Join, Pcs
    <3>7. CASE ReadPid(p)
      BY <3>7 DEF ReadPid, Pcs
    <3>8. CASE CheckPid(p)
      BY <3>8, CgAssumption DEF CheckPid, GivesUp, Pcs
    <3> QED BY <2>3, <3>1, <3>2, <3>3, <3>4, <3>5, <3>6, <3>7, <3>8
            DEF cg_taskset
  <2>4. ASSUME NEW p \in Procs, End(p) PROVE TypeOK'
    BY <2>4 DEF End, Pcs
  <2> QED BY <2>1, <2>2, <2>3, <2>4 DEF Next
<1> QED BY <1>1, InitType, PTL DEF Spec

-----------------------------------------------------------------------------
(* The hierarchy *)

(* A process that has got past the opening of cpuset.cpus. *)
PastCpus == {"join", "read", "check", "done", "timeout"}

(* The controller of a level is there before anything below it, and a      *)
(* process is past cpuset.cpus only if its subgroup is complete.           *)
HierarchyInv ==
  /\ parentCtl => rootCtl /\ parent
  /\ \A p \in Procs : pc[p] \in PastCpus => parentCtl /\ Group[p] \in subgroups
  /\ \A g \in Groups : cpus[g] # NoCpus \/ procs[g] # {} =>
       parentCtl /\ g \in subgroups

LEMMA HierarchyStep ==
  ASSUME TypeOK, HierarchyInv, [Next]_vars
  PROVE  HierarchyInv'
<1> USE DEF TypeOK, HierarchyInv, PastCpus, Goto, CannotOpen, Write, Groups, fs, poll
<1>1. CASE UNCHANGED vars
  BY <1>1 DEF vars
<1>2. CASE Terminated
  BY <1>2 DEF Terminated, vars
<1>3. ASSUME NEW p \in Procs, cg_taskset(p) PROVE HierarchyInv'
  <2>1. CASE EnableRoot(p)
    BY <2>1 DEF EnableRoot
  <2>2. CASE MakeParent(p)
    BY <2>2 DEF MakeParent
  <2>3. CASE EnableParent(p)
    BY <2>3 DEF EnableParent
  <2>4. CASE MakeSubgroup(p)
    BY <2>4 DEF MakeSubgroup
  <2>5. CASE SetCpus(p)
    BY <2>5 DEF SetCpus, NewCpus, CpusetExists
  <2>6. CASE Join(p)
    BY <2>6 DEF Join
  <2>7. CASE ReadPid(p)
    BY <2>7 DEF ReadPid
  <2>8. CASE CheckPid(p)
    BY <2>8 DEF CheckPid
  <2> QED BY <1>3, <2>1, <2>2, <2>3, <2>4, <2>5, <2>6, <2>7, <2>8
          DEF cg_taskset
<1>4. ASSUME NEW p \in Procs, End(p) PROVE HierarchyInv'
  BY <1>4 DEF End
<1> QED BY <1>1, <1>2, <1>3, <1>4 DEF Next

(* In whatever order the processes build the hierarchy and whatever the    *)
(* kernel refuses, a subgroup has CPUs or members only below groups that   *)
(* enable cpuset.                                                          *)
THEOREM HierarchyIsBuilt == Spec => []GroupsAreBuilt
<1>1. Init => HierarchyInv
  BY DEF Init, LeftBehind, HierarchyInv, PastCpus
<1>2. HierarchyInv => GroupsAreBuilt
  BY DEF HierarchyInv, GroupsAreBuilt
<1> QED BY <1>1, <1>2, HierarchyStep, TypeCorrect, PTL DEF Spec

-----------------------------------------------------------------------------
(* Membership *)

(* A process that has read its own PID is in its group, until it ends, and *)
(* one that goes on has read it.                                           *)
MemberInv ==
  \A p \in Procs :
    /\ cpuset_value[p] = p /\ pc[p] # "ended" => p \in procs[Group[p]]
    /\ pc[p] = "done" => cpuset_value[p] = p

LEMMA MemberStep ==
  ASSUME TypeOK, MemberInv, [Next]_vars
  PROVE  MemberInv'
<1> USE DEF TypeOK, MemberInv, Goto, CannotOpen, Write, Groups, fs, poll
<1>1. CASE UNCHANGED vars
  BY <1>1 DEF vars
<1>2. CASE Terminated
  BY <1>2 DEF Terminated, vars
<1>3. ASSUME NEW p \in Procs, cg_taskset(p) PROVE MemberInv'
  <2>1. CASE EnableRoot(p) \/ MakeParent(p) \/ EnableParent(p) \/ MakeSubgroup(p)
    BY <2>1 DEF EnableRoot, MakeParent, EnableParent, MakeSubgroup
  <2>2. CASE SetCpus(p)
    BY <2>2 DEF SetCpus
  <2>3. CASE Join(p)
    BY <2>3 DEF Join
  <2>4. CASE ReadPid(p)
    BY <2>4 DEF ReadPid
  <2>5. CASE CheckPid(p)
    BY <2>5 DEF CheckPid, Found
  <2> QED BY <1>3, <2>1, <2>2, <2>3, <2>4, <2>5 DEF cg_taskset
<1>4. ASSUME NEW p \in Procs, End(p) PROVE MemberInv'
  BY <1>4 DEF End
<1> QED BY <1>1, <1>2, <1>3, <1>4 DEF Next

(* A process goes on to its benchmark only as a member of its subgroup,    *)
(* with any number of processes in it and whatever the kernel refused.     *)
THEOREM Membership == Spec => []DoneIsMember
<1>1. Init => MemberInv
  BY CgAssumption DEF Init, MemberInv
<1>2. MemberInv => DoneIsMember
  BY DEF MemberInv, DoneIsMember
<1> QED BY <1>1, <1>2, MemberStep, TypeCorrect, PTL DEF Spec

-----------------------------------------------------------------------------
(* Processes that have their subgroup to themselves *)

(* Once a lone process has written its CPUs they stay its group's. *)
LoneCpusInv ==
  ~refuses => \A p \in Procs : Alone(p) /\ pc[p] \in PastCpus =>
    cpus[Group[p]] = Want[p]

LEMMA LoneCpusStep ==
  ASSUME TypeOK, LoneCpusInv, [Next]_vars
  PROVE  LoneCpusInv'
<1> USE DEF TypeOK, LoneCpusInv, PastCpus, Alone, Goto, CannotOpen, Write, Groups, fs, poll
<1>1. CASE UNCHANGED vars
  BY <1>1 DEF vars
<1>2. CASE Terminated
  BY <1>2 DEF Terminated, vars
<1>3. ASSUME NEW p \in Procs, cg_taskset(p) PROVE LoneCpusInv'
  <2>1. CASE EnableRoot(p) \/ MakeParent(p) \/ EnableParent(p) \/ MakeSubgroup(p)
    BY <2>1 DEF EnableRoot, MakeParent, EnableParent, MakeSubgroup
  <2>2. CASE SetCpus(p)
    BY <2>2 DEF SetCpus, NewCpus
  <2>3. CASE Join(p) \/ ReadPid(p) \/ CheckPid(p)
    BY <2>3 DEF Join, ReadPid, CheckPid
  <2> QED BY <1>3, <2>1, <2>2, <2>3 DEF cg_taskset
<1>4. ASSUME NEW p \in Procs, End(p) PROVE LoneCpusInv'
  BY <1>4 DEF End
<1> QED BY <1>1, <1>2, <1>3, <1>4 DEF Next

(* Programs with subgroups of their own never get each other's CPUs,       *)
(* however many of them start at the same time.                            *)
THEOREM LoneCpus == Spec => []LoneProcessOwnsCpus
<1>1. Init => LoneCpusInv
  BY DEF Init, LoneCpusInv, PastCpus
<1>2. LoneCpusInv => LoneProcessOwnsCpus
  BY DEF LoneCpusInv, LoneProcessOwnsCpus, PastCpus
<1> QED BY <1>1, <1>2, LoneCpusStep, TypeCorrect, PTL DEF Spec

(* A lone process that was put into its group reads its own PID at its     *)
(* first poll.                                                             *)
LonePollInv ==
  /\ \A p \in Procs, g \in Groups : p \in procs[g] => g = Group[p]
  /\ \A p \in Procs :
       /\ pc[p] \in {"root", "mkparent", "parentctl", "mksub", "cpus", "join"} =>
            p \notin procs[Group[p]] /\ pid_check_cnt[p] = 0
       /\ Alone(p) /\ p \in procs[Group[p]] =>
            /\ pc[p] \in {"read", "check"} => pid_check_cnt[p] = 0
            /\ pc[p] = "check" => cpuset_value[p] = p
            /\ pc[p] # "timeout"

LEMMA LonePollStep ==
  ASSUME TypeOK, LonePollInv, [Next]_vars
  PROVE  LonePollInv'
<1> USE DEF TypeOK, LonePollInv, Alone, Goto, CannotOpen, Write, Groups, fs, poll
<1>1. CASE UNCHANGED vars
  BY <1>1 DEF vars
<1>2. CASE Terminated
  BY <1>2 DEF Terminated, vars
<1>3. ASSUME NEW p \in Procs, cg_taskset(p) PROVE LonePollInv'
  <2>1. CASE EnableRoot(p) \/ MakeParent(p) \/ EnableParent(p) \/ MakeSubgroup(p)
    BY <2>1 DEF EnableRoot, MakeParent, EnableParent, MakeSubgroup
  <2>2. CASE SetCpus(p)
    BY <2>2 DEF SetCpus
  <2>3. CASE Join(p)
    BY <2>3 DEF Join
  <2>4. CASE ReadPid(p)
    BY <2>4 DEF ReadPid
  <2>5. CASE CheckPid(p)
    BY <2>5, CgAssumption DEF CheckPid, Found, GivesUp
  <2> QED BY <1>3, <2>1, <2>2, <2>3, <2>4, <2>5 DEF cg_taskset
<1>4. ASSUME NEW p \in Procs, End(p) PROVE LonePollInv'
  BY <1>4 DEF End
<1> QED BY <1>1, <1>2, <1>3, <1>4 DEF Next

(* A process that has its subgroup to itself gives up only when the kernel *)
(* did not put it there: for every number of polls, the first one is       *)
(* enough.                                                                 *)
THEOREM LoneFailure == Spec => []LoneFailureIsReal
<1>1. Init => LonePollInv
  BY DEF Init, LonePollInv, Groups
<1>2. LonePollInv => LoneFailureIsReal
  BY DEF LonePollInv, LoneFailureIsReal
<1> QED BY <1>1, <1>2, LonePollStep, TypeCorrect, PTL DEF Spec
=============================================================================
