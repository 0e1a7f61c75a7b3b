------------------------------- MODULE Stdio -------------------------------
(***************************************************************************)
(* The part of the C library and of the kernel that the programs write     *)
(* their log through: fopen "w", fprintf, fclose, remove and the flush     *)
(* exit() makes.  It is external code, modelled from how src/ uses it.     *)
(*                                                                         *)
(* There is one log file per run, a sequence of lines.  A stream keeps its *)
(* own file offset and the lines it has buffered and not yet written: two  *)
(* streams on the same file overwrite each other, and fopen "w" truncates  *)
(* the file under a stream that is still open.  Undefined behaviour (using *)
(* a stream that is closed or NULL) is remembered in misused.              *)
(***************************************************************************)
EXTENDS LogLines

CONSTANT FillAt   \* the numbers of lines that may fill a stream's buffer

ASSUME FillAtAssumption == FillAt \subseteq Nat

VARIABLES
  present,   \* the log file exists
  file,      \* its lines
  streams,   \* every stream fopen "w" returned so far; the k-th is FILE* k
  misused    \* undefined behaviour happened

stdioVars == <<present, file, streams, misused>>

NULL == 0

IsOpen(s) == s \in 1 .. Len(streams) /\ streams[s].open

(* The file f after b was written at offset off. *)
Overlay(f, off, b) ==
  IF b = <<>> THEN f
  ELSE [i \in 1 .. (IF Len(f) > off + Len(b) THEN Len(f) ELSE off + Len(b)) |->
          IF i > off /\ i <= off + Len(b) THEN b[i - off]
          ELSE IF i <= Len(f) THEN f[i] ELSE Hole]

(* fopen(path, "w"): truncate or create, the new stream is the last one. *)
FOpenW ==
  /\ present' = TRUE
  /\ file' = <<>>
  /\ streams' = Append(streams, [off |-> 0, buf |-> <<>>, open |-> TRUE])
  /\ UNCHANGED misused

(* The lines b buffered for s reach the file; s is left open or closed. *)
WriteOut(s, b, open) ==
  /\ file' = Overlay(file, streams[s].off, b)
  /\ streams' = [streams EXCEPT ![s] =
                   [off |-> streams[s].off + Len(b), buf |-> <<>>, open |-> open]]

Misuse == misused' = TRUE /\ UNCHANGED <<present, file, streams>>

(* fprintf(s, ...): the line is buffered, or it fills the buffer and all   *)
(* of the buffer is written.                                               *)
FPrintf(s, line) ==
  IF IsOpen(s)
  THEN /\ \/ /\ streams' = [streams EXCEPT ![s].buf = Append(@, line)]
             /\ UNCHANGED file
          \/ /\ Len(streams[s].buf) + 1 \in FillAt
             /\ WriteOut(s, Append(streams[s].buf, line), TRUE)
       /\ UNCHANGED <<present, misused>>
  ELSE Misuse

FClose(s) ==
  IF IsOpen(s)
  THEN WriteOut(s, streams[s].buf, FALSE) /\ UNCHANGED <<present, misused>>
  ELSE Misuse

(* exit() writes what stream s still buffers. *)
ExitFlush(s) ==
  /\ IF IsOpen(s) THEN WriteOut(s, streams[s].buf, TRUE)
                  ELSE UNCHANGED <<file, streams>>
  /\ UNCHANGED <<present, misused>>

(* remove(path) *)
Remove ==
  /\ present' = FALSE
  /\ file' = <<>>
  /\ UNCHANGED <<streams, misused>>

StdioTypeOK ==
  /\ present \in BOOLEAN
  /\ file \in Seq(Lines)
  /\ streams \in Seq([off : Nat, buf : Seq(Lines), open : BOOLEAN])
  /\ misused \in BOOLEAN

StdioInit(old) ==
  /\ present \in BOOLEAN
  /\ file = IF present THEN old ELSE <<>>
  /\ streams = <<>>
  /\ misused = FALSE
=============================================================================
