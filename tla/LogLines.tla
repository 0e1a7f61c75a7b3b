------------------------------ MODULE LogLines ------------------------------
(***************************************************************************)
(* The lines of the log files.  A line is told apart by its kind and, for  *)
(* a row, by the measurement it shows; the text is left out.               *)
(***************************************************************************)
EXTENDS Naturals, Sequences

Line(kind, val) == [kind |-> kind, val |-> val]

Hole == Line("hole", 0)          \* what a file holds where nothing was written
Old == Line("old", 0)            \* a line of an earlier run's log
Warn == Line("warn", 0)          \* WARN: BUFFER FULL.
BufSize == Line("bufsize", 0)    \* BufSize,..,Stride,..
Title == Line("title", 0)        \* the column titles
OverallOnly == Line("overall", 0)   \* OverallResultsOnly
Row(v) == Line("row", v)         \* measurement v; 0 is a value never stored

Lines == [kind : {"hole", "old", "warn", "bufsize", "title", "overall", "row"},
          val : Nat]

Heading(full) ==
  IF full THEN <<Warn, BufSize, Title>> ELSE <<BufSize, Title>>

(* The lines f are the first ones of the log. *)
Begins(f, log) == Len(f) <= Len(log) /\ \A i \in 1 .. Len(f) : f[i] = log[i]

(* The lines b are those of the log after its first off ones. *)
Piece(off, b, log) ==
  off + Len(b) <= Len(log) /\ \A i \in 1 .. Len(b) : b[i] = log[off + i]

Rows(n) == [i \in 1 .. n |-> Row(i)]
=============================================================================
