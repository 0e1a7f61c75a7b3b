------------------------------- MODULE Wayset -------------------------------
(***************************************************************************)
(* wayset_ctrl and calculate_clpartcr: cluster ids are written to the CPUs *)
(* and read back, the ways of the cache are given to clusters by what is   *)
(* typed, and the value of CLUSTERPARTCR made of it is written to the      *)
(* register (wayset_ctrl) or only printed (calculate_clpartcr).  With -c   *)
(* wayset_ctrl clears the register.                                        *)
(*                                                                         *)
(* A register value is the set of its bits.  The driver way-part and the   *)
(* hardware behind it are external: an ioctl may fail, and a write that    *)
(* reports success may have had no effect.                                 *)
(***************************************************************************)
EXTENDS Integers, FiniteSets

CONSTANTS
  NumCpu,      \* NUM_CPU
  WayNum,      \* WAY_NUM
  IdNum,       \* ID_NUM, the largest cluster id
  CpuIds,      \* the lists of cluster ids given as arguments
  Modes,       \* "set", "reset" (-c), "calculate"
  WriteFails,  \* ioctl to write may return an error
  WriteLost,   \* ioctl to write may do nothing and report success
  ReadFails,   \* ioctl to read may fail, which nobody looks at
  Letters,     \* what may be typed besides numbers: "y", "n", "x"
  Closes       \* stdin may end

ASSUME WaysetAssumption ==
  /\ NumCpu \in Nat \ {0} /\ WayNum \in 1 .. 4 /\ IdNum \in Nat
  /\ CpuIds \subseteq [0 .. NumCpu - 1 -> Nat]
  /\ Modes \subseteq {"set", "reset", "calculate"}
  /\ {WriteFails, WriteLost, ReadFails, Closes} \subseteq BOOLEAN
  /\ Letters \subseteq {"y", "n", "x"}

VARIABLES
  pc, mode,
  cpu_id,           \* the arguments
  i,                \* the index of the loop main() is in
  read_value_low,
  temp_id, id_way, do_next, set_val,
  threadsid,        \* CLUSTERTHREADSID of each CPU
  partcr,           \* CLUSTERPARTCR
  input             \* what stands next in stdin

regs == <<threadsid, partcr>>
locals == <<mode, cpu_id, read_value_low, temp_id, id_way, do_next, set_val>>
vars == <<pc, i, locals, regs, input>>

Cpus == 0 .. NumCpu - 1

Ways == 0 .. WayNum - 1

(* Numbers that can be typed; ID_NUM + 1 stands for every one too large,   *)
(* negative ones included: %lu makes them large.                           *)
Numbers == 0 .. IdNum + 1

(* The end of stdin, as a number no one types. *)
End == IdNum + 2

(* Tokens are numbers: letters are put behind them. *)
Letter(c) == CASE c = "y" -> IdNum + 3 [] c = "n" -> IdNum + 4 [] OTHER -> IdNum + 5

Tokens == Numbers \cup {Letter(c) : c \in Letters} \cup (IF Closes THEN {End} ELSE {})

Init ==
  /\ pc = "args" /\ mode \in Modes /\ cpu_id \in CpuIds
  /\ i = 0
  /\ read_value_low = 0
  /\ temp_id \in {0, IdNum + 1}               \* not initialized
  /\ do_next \in {Letter("y"), Letter("x")}   \* not initialized
  /\ id_way = [w \in Ways |-> 0]
  /\ set_val = {}
  /\ threadsid = [c \in Cpus |-> 0]
  /\ partcr \in {{}, {0}}
  /\ input \in Tokens

Goto(from, to) == pc = from /\ pc' = to

(* open() may fail. *)
Start ==
  /\ \/ mode = "set" /\ Goto("args", "pin")
     \/ mode = "reset" /\ Goto("args", "clear")
     \/ mode = "calculate" /\ Goto("args", "input")
     \/ mode # "calculate" /\ Goto("args", "exit1")
  /\ UNCHANGED <<i, locals, regs, input>>

-----------------------------------------------------------------------------
(* -c *)

WriteOutcomes == {"done"} \cup (IF WriteFails THEN {"failed"} ELSE {})
                          \cup (IF WriteLost THEN {"lost"} ELSE {})

(* The result of the ioctl is not looked at. *)
ClearPartcr ==
  /\ Goto("clear", "cleared")
  /\ \E res \in WriteOutcomes : partcr' = IF res = "done" THEN {} ELSE partcr
  /\ UNCHANGED <<i, locals, threadsid, input>>

(* read_value_low and read_value_high, of the register's two halves, as    *)
(* one number that is 0 exactly if the register is.                        *)
ReadPartcr ==
  /\ Goto("cleared", "verdict")
  /\ \/ read_value_low' = (IF partcr = {} THEN 0 ELSE 1)
     \/ ReadFails /\ UNCHANGED read_value_low
  /\ UNCHANGED <<i, mode, cpu_id, temp_id, id_way, do_next, set_val, regs,
                 input>>

ResetVerdict ==
  /\ Goto("verdict", IF read_value_low = 0 THEN "exit0" ELSE "exit1")
  /\ UNCHANGED <<i, locals, regs, input>>

-----------------------------------------------------------------------------
(* The cluster ids of the CPUs *)

(* pin_cpu(): the registers of CPU i are reached from CPU i. *)
PinCpu ==
  /\ \/ i \in Cpus /\ (Goto("pin", "write") \/ Goto("pin", "exit1")) /\ UNCHANGED i
     \/ i \notin Cpus /\ Goto("pin", "input") /\ i' = 0
  /\ UNCHANGED <<locals, regs, input>>

WriteThreadSid ==
  /\ \E res \in WriteOutcomes :
       /\ Goto("write", IF res = "failed" THEN "exit1" ELSE "read")
       /\ threadsid' = IF res = "done" THEN [threadsid EXCEPT ![i] = cpu_id[i]]
                       ELSE threadsid
  /\ UNCHANGED <<i, locals, partcr, input>>

ReadThreadSid ==
  /\ Goto("read", "compare")
  /\ \/ read_value_low' = threadsid[i]
     \/ ReadFails /\ UNCHANGED read_value_low
  /\ UNCHANGED <<i, mode, cpu_id, temp_id, id_way, do_next, set_val, regs,
                 input>>

(* Mutant: what was read back is not compared. *)
IdIsSet_Any == TRUE

IdIsSet == read_value_low = cpu_id[i]

CompareId ==
  /\ Goto("compare", IF IdIsSet THEN "pin" ELSE "exit1")
  /\ i' = IF IdIsSet THEN i + 1 ELSE i
  /\ UNCHANGED <<locals, regs, input>>

-----------------------------------------------------------------------------
(* What is typed.  scanf leaves what does not fit where it is, and its     *)
(* variable as it was; the end of stdin stays.                             *)

Consume == input' \in Tokens

(* Mutant: ID_NUM is taken for the number of ids. *)
Valid_OffByOne(id) == id <= IdNum + 1

Valid(id) == id <= IdNum

(* scanf("%lu", &temp_id) and the check of it *)
ScanId ==
  /\ pc = "input" /\ i \in Ways
  /\ IF input \in Numbers
     THEN Consume /\ temp_id' = input
     ELSE UNCHANGED <<input, temp_id>>
  /\ IF Valid(temp_id')
     THEN id_way' = [id_way EXCEPT ![i] = temp_id'] /\ i' = i + 1
     ELSE UNCHANGED <<id_way, i>>
  /\ UNCHANGED <<pc, mode, cpu_id, read_value_low, do_next, set_val, regs>>

(* scanf(" %c", &do_next): any character but the end of stdin fits. *)
ScanAnswer ==
  /\ pc = "input" /\ i \notin Ways
  /\ IF input = End THEN UNCHANGED <<input, do_next>>
     ELSE Consume /\ do_next' = input
  /\ pc' = IF do_next' = Letter("y") THEN "generate"
           ELSE IF do_next' = Letter("n") THEN "exit1" ELSE "input"
  /\ UNCHANGED <<i, mode, cpu_id, read_value_low, temp_id, id_way, set_val, regs>>

-----------------------------------------------------------------------------
(* CLUSTERPARTCR *)

(* Mutant: the bits of two ids overlap. *)
Bit_Overlap(way, id) == way + 3 * id

(* (0b0001 << way) << 4 * id *)
Bit(way, id) == way + 4 * id

(* temp_id holds each bit in turn, and is not read again; left out.        *)
(* calculate_clpartcr ends here: it prints the value.                      *)
Generate ==
  /\ Goto("generate", IF mode = "set" THEN "send" ELSE "exit0")
  /\ set_val' = {Bit(w, id_way[w]) : w \in Ways}
  /\ UNCHANGED <<i, mode, cpu_id, read_value_low, temp_id, id_way, do_next, regs,
                 input>>

(* in_value has 32 bits; ret is not looked at. *)
WritePartcr ==
  /\ Goto("send", "exit0")
  /\ \E res \in WriteOutcomes :
       partcr' = IF res = "done" THEN set_val \cap (0 .. 31) ELSE partcr
  /\ UNCHANGED <<i, locals, threadsid, input>>

Terminated == pc \in {"exit0", "exit1"} /\ UNCHANGED vars

Next ==
  \/ Start
  \/ ClearPartcr \/ ReadPartcr \/ ResetVerdict
  \/ PinCpu \/ WriteThreadSid \/ ReadThreadSid \/ CompareId
  \/ ScanId \/ ScanAnswer \/ Generate \/ WritePartcr
  \/ Terminated

Spec == Init /\ [][Next]_vars

-----------------------------------------------------------------------------
(* Properties *)

(* The type invariant; no way is ever given to an id beyond ID_NUM.        *)
TypeOK ==
  /\ pc \in {"args", "clear", "cleared", "verdict", "pin", "write", "read",
             "compare", "input", "generate", "send", "exit0", "exit1"}
  /\ mode \in Modes /\ cpu_id \in CpuIds
  /\ i \in 0 .. NumCpu \/ i \in 0 .. WayNum
  /\ read_value_low \in Nat
  /\ temp_id \in Numbers /\ id_way \in [Ways -> 0 .. IdNum]
  /\ do_next \in 0 .. IdNum + 5
  /\ set_val \subseteq Nat /\ partcr \subseteq Nat
  /\ threadsid \in [Cpus -> Nat]
  /\ input \in Tokens

(* The clusters a value of the register gives a way to: four bits for each *)
(* id, one bit for each way.                                               *)
Owners(val, w) == {id \in 0 .. 7 : 4 * id + w \in val}

(* A run that set the register up gives every way to one cluster and to    *)
(* the one chosen for it: the bits of two ways never meet, none is lost in *)
(* the 32 bits of the register (the loop over id_way, the check of ID_NUM).*)
WaysHaveOneOwner ==
  pc \in {"send", "exit0"} /\ mode # "reset" =>
    \A w \in Ways : Owners(set_val, w) = {id_way[w]}

(* The register goes in one step from what it was to a value that gives   *)
(* every way an owner, and not before every CPU has its cluster id, also   *)
(* if the driver failed or lost a write (the comparison with the value     *)
(* read back, the order of main).                                          *)
PartcrIsSetLast ==
  [][mode = "set" /\ partcr' # partcr =>
       /\ threadsid = cpu_id
       /\ \A w \in Ways : Cardinality(Owners(partcr', w)) = 1]_vars
=============================================================================
