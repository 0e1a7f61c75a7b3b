--------------------------- MODULE Wayset_proofs ---------------------------
(* Proofs about Wayset, for any number of CPUs and any typed input.        *)
EXTENDS Wayset, FiniteSetTheorems, TLAPS

(* main()'s index stays within the loop it is in, and -c has a part of the *)
(* program of its own.                                                     *)
LoopInv ==
  /\ pc = "args" => i = 0
  /\ pc = "pin" => i \in 0 .. NumCpu
  /\ pc \in {"write", "read", "compare"} => i \in Cpus
  /\ pc = "input" => i \in 0 .. WayNum
  /\ pc \in {"pin", "write", "read", "compare"} => mode = "set"
  /\ pc \in {"clear", "cleared", "verdict"} => mode = "reset"
  /\ pc \in {"input", "generate", "send"} => mode # "reset"

Typed == TypeOK /\ LoopInv

LEMMA InitTyped == Init => Typed
<1> SUFFICES ASSUME Init PROVE Typed
  OBVIOUS
<1>1. temp_id \in Numbers /\ do_next \in 0 .. IdNum + 5
  BY WaysetAssumption DEF Init, Numbers, Letter
<1>2. id_way \in [Ways -> 0 .. IdNum] /\ threadsid \in [Cpus -> Nat]
  BY WaysetAssumption DEF Init
<1>3. i \in 0 .. NumCpu
  BY WaysetAssumption DEF Init
<1> QED BY <1>1, <1>2, <1>3 DEF Init, Typed, TypeOK, LoopInv

(* A token fits into do_next, which holds any character. *)
LEMMA TokenType == ASSUME NEW t \in Tokens PROVE t \in 0 .. IdNum + 5
BY WaysetAssumption DEF Tokens, Numbers, Letter, End

LEMMA TypedStep ==
  ASSUME Typed, [Next]_vars
  PROVE  Typed'
<1> USE WaysetAssumption DEF Typed, TypeOK, LoopInv, Goto, locals, regs
<1>1. CASE UNCHANGED vars
  BY <1>1 DEF vars
<1>2. CASE Terminated
  BY <1>2 DEF Terminated, vars
<1>3. CASE Start
  BY <1>3 DEF Start
<1>4. CASE ClearPartcr
  <2>1. partcr' \subseteq Nat
    BY <1>4 DEF ClearPartcr
  <2> QED BY <1>4, <2>1 DEF ClearPartcr
<1>5. CASE PinCpu
  <2>1. CASE i \in Cpus
    BY <1>5, <2>1 DEF PinCpu
  <2>2. CASE i \notin Cpus
    BY <1>5, <2>2 DEF PinCpu
  <2> QED BY <2>1, <2>2
<1>6. CASE WriteThreadSid
  <2>1. i \in Cpus /\ cpu_id[i] \in Nat
    BY <1>6 DEF WriteThreadSid, Cpus
  <2>2. threadsid' \in [Cpus -> Nat]
    BY <1>6, <2>1 DEF WriteThreadSid
  <2> QED BY <1>6, <2>1, <2>2 DEF WriteThreadSid
<1>7. CASE ReadThreadSid
  BY <1>7 DEF ReadThreadSid
<1>8. CASE CompareId
  <2>1. i \in 0 .. NumCpu - 1
    BY <1>8 DEF CompareId, Cpus
  <2>2. i + 1 \in 0 .. NumCpu
    BY <2>1
  <2>3. CASE IdIsSet
    BY <1>8, <2>2, <2>3 DEF CompareId
  <2>4. CASE ~IdIsSet
    BY <1>8, <2>4 DEF CompareId
  <2> QED BY <2>3, <2>4
<1>9. CASE ScanId
  <2>1. temp_id' \in Numbers /\ input' \in Tokens
    BY <1>9 DEF ScanId, Consume
  <2>2. id_way' \in [Ways -> 0 .. IdNum]
    BY <1>9, <2>1 DEF ScanId, Valid, Numbers
  <2>3. i' \in 0 .. WayNum
    BY <1>9 DEF ScanId, Ways
  <2> QED BY <1>9, <2>1, <2>2, <2>3 DEF ScanId
<1>10. CASE ScanAnswer
  <2>1. do_next' \in 0 .. IdNum + 5 /\ input' \in Tokens
    BY <1>10, TokenType DEF ScanAnswer, Consume
  <2> QED BY <1>10, <2>1 DEF ScanAnswer
<1>11. CASE Generate
  <2>1. set_val' \subseteq Nat
    BY <1>11 DEF Generate, Bit, Ways
  <2> QED BY <1>11, <2>1 DEF Generate
<1>12. CASE WritePartcr
  BY <1>12 DEF WritePartcr
<1>13. CASE ReadPartcr
  BY <1>13 DEF ReadPartcr
<1>14. CASE ResetVerdict
  BY <1>14 DEF ResetVerdict
<1> QED BY <1>1, <1>2, <1>3, <1>4, <1>5, <1>6, <1>7, <1>8, <1>9, <1>10, <1>11,
           <1>12, <1>13, <1>14 DEF Next

LEMMA TypedHolds == Spec => []Typed
BY InitTyped, TypedStep, PTL DEF Spec

(* Nothing that is typed, a letter, a number too large or the end of       *)
(* stdin, gives a way to an id beyond ID_NUM.                              *)
THEOREM TypeCorrect == Spec => []TypeOK
<1>1. Typed => TypeOK
  BY DEF Typed
<1> QED BY <1>1, TypedHolds, PTL

-----------------------------------------------------------------------------
(* The value of the register *)

ValueInv ==
  pc \in {"send", "exit0"} /\ mode # "reset" =>
    set_val = {Bit(w, id_way[w]) : w \in Ways}

LEMMA ValueStep ==
  ASSUME Typed, ValueInv, [Next]_vars
  PROVE  ValueInv'
<1> USE DEF ValueInv, Typed, LoopInv, Goto, locals
<1>1. CASE UNCHANGED vars \/ Terminated
  BY <1>1 DEF Terminated, vars
<1>2. CASE Start
  BY <1>2 DEF Start
<1>3. CASE ClearPartcr \/ ReadPartcr \/ ResetVerdict
  BY <1>3 DEF ClearPartcr, ReadPartcr, ResetVerdict
<1>4. CASE PinCpu \/ ReadThreadSid \/ CompareId
  BY <1>4 DEF PinCpu, ReadThreadSid, CompareId, IdIsSet
<1>5. CASE ScanId \/ ScanAnswer
  BY <1>5 DEF ScanId, ScanAnswer
<1>6. CASE Generate
  BY <1>6 DEF Generate
<1>7. CASE WritePartcr
  BY <1>7 DEF WritePartcr
<1>8. CASE WriteThreadSid
  BY <1>8 DEF WriteThreadSid
<1> QED BY <1>1, <1>2, <1>3, <1>4, <1>5, <1>6, <1>7, <1>8 DEF Next

(* Four bits for each id: the bits of two ways never meet, and a way is in *)
(* the bits of no id but its own.                                          *)
LEMMA BitsAreApart ==
  ASSUME IdNum <= 7, NEW ids \in [Ways -> 0 .. IdNum], NEW w \in Ways
  PROVE  /\ Owners({Bit(v, ids[v]) : v \in Ways}, w) = {ids[w]}
         /\ Bit(w, ids[w]) \in 0 .. 31
<1> DEFINE val == {Bit(v, ids[v]) : v \in Ways}
<1>1. \A v \in Ways : v \in 0 .. 3 /\ ids[v] \in 0 .. 7
  <2>1. \A v \in Ways : v \in 0 .. 3
    BY WaysetAssumption DEF Ways
  <2>2. \A k \in 0 .. IdNum : k \in 0 .. 7
    BY WaysetAssumption
  <2> QED BY <2>1, <2>2
<1>2. 4 * ids[w] + w \in val
  <2>1. Bit(w, ids[w]) = 4 * ids[w] + w
    BY <1>1 DEF Bit
  <2> QED BY <2>1
<1>3. ASSUME NEW id \in 0 .. 7, 4 * id + w \in val PROVE id = ids[w]
  <2>1. PICK v \in Ways : 4 * id + w = Bit(v, ids[v])
    BY <1>3
  <2>2. 4 * id + w = v + 4 * ids[v]
    BY <2>1 DEF Bit
  <2>3. v = w
    BY <1>1, <2>2
  <2> QED BY <1>1, <2>2, <2>3
<1>4. Bit(w, ids[w]) \in 0 .. 31
  BY <1>1 DEF Bit
<1> QED BY <1>1, <1>2, <1>3, <1>4 DEF Owners

(* With the ids the register has room for, every run that gets to a value, *)
(* whatever was typed, gives each way to one cluster.                      *)
THEOREM OneOwner ==
  ASSUME IdNum <= 7
  PROVE  Spec => []WaysHaveOneOwner
<1>1. Init => ValueInv
  BY DEF Init, ValueInv
<1>2. Typed /\ ValueInv => WaysHaveOneOwner
  BY BitsAreApart DEF Typed, TypeOK, ValueInv, WaysHaveOneOwner
<1> QED BY <1>1, <1>2, ValueStep, TypedHolds, PTL DEF Spec

-----------------------------------------------------------------------------
(* The order of the writes *)

(* The CPUs before the one main() is at have their cluster ids. *)
IdsInv ==
  /\ pc \in {"pin", "write", "read", "compare"} =>
       \A c \in Cpus : c < i => threadsid[c] = cpu_id[c]
  /\ pc = "compare" => read_value_low = threadsid[i]
  /\ pc \in {"input", "generate", "send"} /\ mode = "set" =>
       \A c \in Cpus : threadsid[c] = cpu_id[c]

LEMMA IdsStep ==
  ASSUME ~ReadFails, Typed, IdsInv, [Next]_vars
  PROVE  IdsInv'
<1> USE WaysetAssumption DEF IdsInv, Typed, TypeOK, LoopInv, Goto, locals, regs
<1>1. CASE UNCHANGED vars \/ Terminated
  BY <1>1 DEF Terminated, vars
<1>2. CASE Start
  BY <1>2 DEF Start, Cpus
<1>3. CASE ClearPartcr \/ ReadPartcr \/ ResetVerdict
  BY <1>3 DEF ClearPartcr, ReadPartcr, ResetVerdict
<1>4. CASE PinCpu
  BY <1>4 DEF PinCpu, Cpus
<1>5. CASE WriteThreadSid
  BY <1>5 DEF WriteThreadSid, Cpus
<1>6. CASE ReadThreadSid
  BY <1>6 DEF ReadThreadSid
<1>7. CASE CompareId
  BY <1>7 DEF CompareId, IdIsSet, Cpus
<1>8. CASE ScanId \/ ScanAnswer
  BY <1>8 DEF ScanId, ScanAnswer
<1>9. CASE Generate \/ WritePartcr
  BY <1>9 DEF Generate, WritePartcr
<1> QED BY <1>1, <1>2, <1>3, <1>4, <1>5, <1>6, <1>7, <1>8, <1>9 DEF Next

(* If the driver can be read, the register is written only when every CPU  *)
(* has its cluster id, and in one step gives each way to one cluster,      *)
(* whichever writes failed or were lost.                                   *)
THEOREM RegisterComesLast ==
  ASSUME IdNum <= 7, ~ReadFails
  PROVE  Spec => PartcrIsSetLast
<1> DEFINE Last == mode = "set" /\ partcr' # partcr =>
                     /\ threadsid = cpu_id
                     /\ \A w \in Ways : Cardinality(Owners(partcr', w)) = 1
<1>1. Init => IdsInv
  BY WaysetAssumption DEF Init, IdsInv
<1>2. Init => ValueInv
  BY DEF Init, ValueInv
<1>3. Typed /\ IdsInv /\ ValueInv /\ [Next]_vars => [Last]_vars
  <2> SUFFICES ASSUME Typed, IdsInv, ValueInv, Next, mode = "set", partcr' # partcr
               PROVE  /\ threadsid = cpu_id
                      /\ \A w \in Ways : Cardinality(Owners(partcr', w)) = 1
    OBVIOUS
  <2>1. WritePartcr
    <3>1. ~ClearPartcr
      BY DEF ClearPartcr, Goto, Typed, LoopInv
    <3>2. partcr' # partcr
      OBVIOUS
    <3> QED BY <3>1, <3>2 DEF Next, Terminated, vars, regs, Start, ReadPartcr,
              ResetVerdict, PinCpu, WriteThreadSid, ReadThreadSid, CompareId,
              ScanId, ScanAnswer, Generate
  <2>2. pc = "send" /\ partcr' = set_val \cap (0 .. 31)
    BY <2>1 DEF WritePartcr, Goto
  <2>3. threadsid = cpu_id
    <3>1. /\ threadsid \in [Cpus -> Nat] /\ cpu_id \in [Cpus -> Nat]
          /\ \A c \in Cpus : threadsid[c] = cpu_id[c]
      BY <2>2, WaysetAssumption DEF IdsInv, Typed, TypeOK, Cpus
    <3> QED BY <3>1
  <2>4. ASSUME NEW w \in Ways PROVE Cardinality(Owners(partcr', w)) = 1
    <3>1. id_way \in [Ways -> 0 .. IdNum] /\ set_val = {Bit(v, id_way[v]) : v \in Ways}
      BY <2>2 DEF Typed, TypeOK, ValueInv
    <3>2. partcr' = set_val
      BY <2>2, <3>1, BitsAreApart
    <3>3. Owners(partcr', w) = {id_way[w]}
      BY <3>1, <3>2, BitsAreApart
    <3> QED BY <3>3, FS_Singleton
  <2> QED BY <2>3, <2>4
<1>4. Spec => [][Last]_vars
  <2> HIDE DEF Last
  <2> QED BY <1>1, <1>2, <1>3, IdsStep, ValueStep, TypedHolds, PTL DEF Spec
<1> QED BY <1>4 DEF PartcrIsSetLast
=============================================================================
