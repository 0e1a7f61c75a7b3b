---------------------------- MODULE Stdio_proofs ----------------------------
(***************************************************************************)
(* Lemmas about the streams and the log file, for every buffer and file.   *)
(***************************************************************************)
EXTENDS Stdio, SequenceTheorems, TLAPS

(* The longer of two lengths is where a write leaves the end of the file. *)
LEMMA OverlayProperties ==
  ASSUME NEW f \in Seq(Lines), NEW off \in Nat, NEW b \in Seq(Lines)
  PROVE  /\ Overlay(f, off, b) \in Seq(Lines)
         /\ b = <<>> => Overlay(f, off, b) = f
         /\ b # <<>> =>
              /\ Len(Overlay(f, off, b)) =
                   IF Len(f) > off + Len(b) THEN Len(f) ELSE off + Len(b)
              /\ \A i \in 1 .. Len(Overlay(f, off, b)) :
                   Overlay(f, off, b)[i] =
                     IF i > off /\ i <= off + Len(b) THEN b[i - off]
                     ELSE IF i <= Len(f) THEN f[i] ELSE Hole
<1>1. CASE b = <<>>
  BY <1>1 DEF Overlay
<1>2. CASE b # <<>>
  <2> DEFINE n == IF Len(f) > off + Len(b) THEN Len(f) ELSE off + Len(b)
             e(i) == IF i > off /\ i <= off + Len(b) THEN b[i - off]
                     ELSE IF i <= Len(f) THEN f[i] ELSE Hole
  <2>1. n \in Nat /\ Len(f) \in Nat /\ Len(b) \in Nat
    BY LenProperties
  <2>2. Overlay(f, off, b) = [i \in 1 .. n |-> e(i)]
    BY <1>2 DEF Overlay
  <2>3. ASSUME NEW i \in 1 .. n PROVE e(i) \in Lines
    <3>1. CASE i > off /\ i <= off + Len(b)
      <4>1. i - off \in 1 .. Len(b)
        BY <3>1, <2>1
      <4>2. b[i - off] \in Lines
        BY <4>1, ElementOfSeq
      <4> QED BY <3>1, <4>2
    <3>2. CASE ~(i > off /\ i <= off + Len(b)) /\ i <= Len(f)
      <4>1. i \in 1 .. Len(f)
        BY <3>2, <2>1
      <4>2. f[i] \in Lines
        BY <4>1, ElementOfSeq
      <4> QED BY <3>2, <4>2
    <3>3. CASE ~(i > off /\ i <= off + Len(b)) /\ ~(i <= Len(f))
      BY <3>3 DEF Hole, Line, Lines
    <3> QED BY <3>1, <3>2, <3>3
  <2> HIDE DEF n, e
  <2>4. [i \in 1 .. n |-> e(i)] \in [1 .. n -> Lines]
    BY <2>3
  <2>5. Overlay(f, off, b) \in Seq(Lines)
    BY <2>1, <2>2, <2>4, SeqDef
  <2>6. Len(Overlay(f, off, b)) = n
    BY <2>1, <2>2, <2>5, LenProperties
  <2>7. \A i \in 1 .. n : Overlay(f, off, b)[i] = e(i)
    BY <2>2
  <2> QED BY <1>2, <2>5, <2>6, <2>7 DEF n, e
<1> QED BY <1>1, <1>2

(* Writing the next piece of a log to the end of a file that is the log's  *)
(* beginning leaves a longer beginning.                                    *)
LEMMA OverlayExtends ==
  ASSUME NEW c \in Seq(Lines), NEW f \in Seq(Lines), NEW b \in Seq(Lines),
         Begins(f, c), Piece(Len(f), b, c)
  PROVE  /\ Begins(Overlay(f, Len(f), b), c)
         /\ Len(Overlay(f, Len(f), b)) = Len(f) + Len(b)
<1>1. Len(f) \in Nat /\ Len(b) \in Nat /\ Len(c) \in Nat
  BY LenProperties
<1>2. CASE b = <<>>
  <2>1. Overlay(f, Len(f), b) = f
    BY <1>2 DEF Overlay
  <2>2. Len(b) = 0
    BY <1>2, EmptySeq
  <2> QED BY <1>1, <2>1, <2>2
<1>3. CASE b # <<>>
  <2> DEFINE o == Overlay(f, Len(f), b)
  <2>1. Len(o) = Len(f) + Len(b)
    BY <1>1, <1>3, OverlayProperties
  <2>2. \A i \in 1 .. Len(o) : o[i] =
          IF i > Len(f) /\ i <= Len(f) + Len(b) THEN b[i - Len(f)]
          ELSE IF i <= Len(f) THEN f[i] ELSE Hole
    BY <1>1, <1>3, OverlayProperties
  <2> HIDE DEF o
  <2>3. ASSUME NEW i \in 1 .. Len(o) PROVE o[i] = c[i]
    <3>1. CASE i <= Len(f)
      <4>1. i \in 1 .. Len(f) /\ ~(i > Len(f))
        BY <3>1, <1>1, <2>1
      <4> QED BY <4>1, <3>1, <2>2 DEF Begins
    <3>2. CASE ~(i <= Len(f))
      <4>1. i - Len(f) \in 1 .. Len(b) /\ i > Len(f) /\ i <= Len(f) + Len(b)
        BY <3>2, <1>1, <2>1
      <4>2. o[i] = b[i - Len(f)]
        BY <4>1, <2>2
      <4>3. b[i - Len(f)] = c[Len(f) + (i - Len(f))]
        BY <4>1 DEF Piece
      <4>4. Len(f) + (i - Len(f)) = i
        BY <1>1, <2>1
      <4> QED BY <4>2, <4>3, <4>4
    <3> QED BY <3>1, <3>2
  <2> QED BY <2>1, <2>3, <1>1 DEF o, Begins, Piece
<1> QED BY <1>2, <1>3

(* Writing a piece of a log over the whole log changes nothing. *)
LEMMA OverlayRepeats ==
  ASSUME NEW c \in Seq(Lines), NEW off \in Nat, NEW b \in Seq(Lines),
         Piece(off, b, c)
  PROVE  Overlay(c, off, b) = c
<1>1. Len(b) \in Nat /\ Len(c) \in Nat
  BY LenProperties
<1>2. CASE b = <<>>
  BY <1>2, OverlayProperties
<1>3. CASE b # <<>>
  <2> DEFINE o == Overlay(c, off, b)
  <2>1. o \in Seq(Lines)
    BY OverlayProperties
  <2>2. Len(o) = Len(c)
    BY <1>1, <1>3, OverlayProperties DEF Piece
  <2>3. \A i \in 1 .. Len(o) : o[i] =
          IF i > off /\ i <= off + Len(b) THEN b[i - off]
          ELSE IF i <= Len(c) THEN c[i] ELSE Hole
    BY <1>3, OverlayProperties
  <2> HIDE DEF o
  <2>4. ASSUME NEW i \in 1 .. Len(o) PROVE o[i] = c[i]
    <3>1. CASE i > off /\ i <= off + Len(b)
      <4>1. i - off \in 1 .. Len(b) /\ off + (i - off) = i
        BY <3>1, <1>1, <2>2
      <4>2. b[i - off] = c[off + (i - off)]
        BY <4>1 DEF Piece
      <4> QED BY <3>1, <4>1, <4>2, <2>3
    <3>2. CASE ~(i > off /\ i <= off + Len(b))
      BY <3>2, <2>2, <2>3, <1>1
    <3> QED BY <3>1, <3>2
  <2> QED BY <2>1, <2>2, <2>4, SeqEqual DEF o
<1> QED BY <1>2, <1>3

LEMMA BeginsWhole ==
  ASSUME NEW c \in Seq(Lines), NEW f \in Seq(Lines), Begins(f, c),
         Len(f) = Len(c)
  PROVE  f = c
BY SeqEqual DEF Begins

(* The rows of a log. *)
LEMMA RowsLines ==
  ASSUME NEW n \in Nat
  PROVE  /\ Rows(n) \in Seq(Lines) /\ Len(Rows(n)) = n
         /\ \A i \in 1 .. n : Rows(n)[i] = Row(i)
<1>1. \A i \in 1 .. n : Row(i) \in Lines
  BY DEF Row, Line, Lines
<1>2. Rows(n) \in [1 .. n -> Lines]
  BY <1>1 DEF Rows
<1>3. Rows(n) \in Seq(Lines)
  BY <1>2, SeqDef
<1>4. Len(Rows(n)) = n
  BY <1>2, <1>3, LenProperties
<1> QED BY <1>3, <1>4 DEF Rows

(* A piece of a log followed by the log's next line is a piece of the log. *)
LEMMA PieceGrows ==
  ASSUME NEW c \in Seq(Lines), NEW off \in Nat, NEW b \in Seq(Lines),
         Piece(off, b, c), off + Len(b) < Len(c)
  PROVE  Piece(off, Append(b, c[off + Len(b) + 1]), c)
<1> DEFINE l == c[off + Len(b) + 1]
<1>1. Len(b) \in Nat /\ Len(c) \in Nat
  BY LenProperties
<1>2. l \in Lines
  BY <1>1, ElementOfSeq
<1> HIDE DEF l
<1>3. /\ Len(Append(b, l)) = Len(b) + 1
      /\ \A i \in 1 .. Len(b) : Append(b, l)[i] = b[i]
      /\ Append(b, l)[Len(b) + 1] = l
  BY <1>2, AppendProperties
<1>4. ASSUME NEW i \in 1 .. Len(b) + 1 PROVE Append(b, l)[i] = c[off + i]
  <2>1. CASE i \in 1 .. Len(b)
    BY <2>1, <1>3 DEF Piece
  <2>2. CASE i = Len(b) + 1
    <3>1. off + i = off + Len(b) + 1
      BY <2>2, <1>1
    <3> QED BY <2>2, <3>1, <1>3 DEF l
  <2> QED BY <2>1, <2>2, <1>1
<1> QED BY <1>1, <1>3, <1>4 DEF Piece, l

(* Every call of the library keeps the types of the file and the streams. *)
LEMMA WriteOutType ==
  ASSUME StdioTypeOK, NEW s \in 1 .. Len(streams), NEW b \in Seq(Lines),
         NEW open \in BOOLEAN, WriteOut(s, b, open),
         UNCHANGED <<present, misused>>
  PROVE  StdioTypeOK'
<1>1. streams[s] \in [off : Nat, buf : Seq(Lines), open : BOOLEAN]
  BY ElementOfSeq DEF StdioTypeOK
<1>2. file' \in Seq(Lines)
  BY <1>1, OverlayProperties DEF StdioTypeOK, WriteOut
<1>3. [off |-> streams[s].off + Len(b), buf |-> <<>>, open |-> open]
        \in [off : Nat, buf : Seq(Lines), open : BOOLEAN]
  BY <1>1, LenProperties, EmptySeq
<1>4. streams' \in Seq([off : Nat, buf : Seq(Lines), open : BOOLEAN])
  BY <1>3, ExceptSeq DEF StdioTypeOK, WriteOut
<1> QED BY <1>2, <1>4 DEF StdioTypeOK

LEMMA FOpenWType == StdioTypeOK /\ FOpenW => StdioTypeOK' /\ Len(streams') \in Nat
<1> SUFFICES ASSUME StdioTypeOK, FOpenW
             PROVE StdioTypeOK' /\ Len(streams') \in Nat
  OBVIOUS
<1>1. [off |-> 0, buf |-> <<>>, open |-> TRUE]
        \in [off : Nat, buf : Seq(Lines), open : BOOLEAN]
  BY EmptySeq
<1>2. streams' \in Seq([off : Nat, buf : Seq(Lines), open : BOOLEAN])
  BY <1>1, AppendProperties DEF StdioTypeOK, FOpenW
<1> QED BY <1>2, EmptySeq, LenProperties DEF StdioTypeOK, FOpenW

LEMMA StreamTypes ==
  ASSUME StdioTypeOK, NEW s, IsOpen(s)
  PROVE  /\ s \in 1 .. Len(streams)
         /\ streams[s] \in [off : Nat, buf : Seq(Lines), open : BOOLEAN]
BY ElementOfSeq DEF StdioTypeOK, IsOpen

LEMMA FPrintfType ==
  ASSUME StdioTypeOK, NEW s, NEW line \in Lines, FPrintf(s, line)
  PROVE  StdioTypeOK'
<1>1. CASE ~IsOpen(s)
  BY <1>1 DEF FPrintf, Misuse, StdioTypeOK
<1>2. CASE IsOpen(s)
  <2>1. /\ s \in 1 .. Len(streams)
        /\ streams[s] \in [off : Nat, buf : Seq(Lines), open : BOOLEAN]
    BY <1>2, StreamTypes
  <2>2. Append(streams[s].buf, line) \in Seq(Lines)
    BY <2>1, AppendProperties
  <2>3. CASE streams' = [streams EXCEPT ![s].buf = Append(@, line)]
             /\ UNCHANGED file
    <3> DEFINE r == [streams[s] EXCEPT !.buf = Append(streams[s].buf, line)]
    <3>1. r \in [off : Nat, buf : Seq(Lines), open : BOOLEAN]
      BY <2>1, <2>2
    <3>2. streams' = [streams EXCEPT ![s] = r]
      BY <2>3
    <3> HIDE DEF r
    <3>3. streams' \in Seq([off : Nat, buf : Seq(Lines), open : BOOLEAN])
      BY <2>1, <3>1, <3>2, ExceptSeq DEF StdioTypeOK
    <3> QED BY <1>2, <2>3, <3>3 DEF FPrintf, StdioTypeOK
  <2>4. CASE WriteOut(s, Append(streams[s].buf, line), TRUE)
    BY <1>2, <2>1, <2>2, <2>4, WriteOutType DEF FPrintf
  <2> QED BY <1>2, <2>3, <2>4 DEF FPrintf
<1> QED BY <1>1, <1>2

LEMMA FCloseType ==
  ASSUME StdioTypeOK, NEW s, FClose(s)
  PROVE  StdioTypeOK'
<1>1. CASE ~IsOpen(s)
  BY <1>1 DEF FClose, Misuse, StdioTypeOK
<1>2. CASE IsOpen(s)
  BY <1>2, StreamTypes, WriteOutType DEF FClose
<1> QED BY <1>1, <1>2

LEMMA ExitFlushType ==
  ASSUME StdioTypeOK, NEW s, ExitFlush(s)
  PROVE  StdioTypeOK'
<1>1. CASE ~IsOpen(s)
  BY <1>1 DEF ExitFlush, StdioTypeOK
<1>2. CASE IsOpen(s)
  BY <1>2, StreamTypes, WriteOutType DEF ExitFlush
<1> QED BY <1>1, <1>2

-----------------------------------------------------------------------------
(* Streams whose pending lines are pieces of one log c. *)

Pieces(ss, c) == \A k \in 1 .. Len(ss) : Piece(ss[k].off, ss[k].buf, c)

(* Replacing one stream's record. *)
LEMMA StreamUpdate ==
  ASSUME StdioTypeOK, NEW s \in 1 .. Len(streams), NEW r,
         r \in [off : Nat, buf : Seq(Lines), open : BOOLEAN],
         streams' = [streams EXCEPT ![s] = r],
         NEW c, Pieces(streams, c), Piece(r.off, r.buf, c)
  PROVE  Len(streams') = Len(streams) /\ streams'[s] = r /\ Pieces(streams', c)
<1>1. /\ Len(streams') = Len(streams)
      /\ \A k \in 1 .. Len(streams) :
           streams'[k] = IF k = s THEN r ELSE streams[k]
  BY ExceptSeq DEF StdioTypeOK
<1> QED BY <1>1 DEF Pieces

(* A write leaves the stream with nothing pending. *)
LEMMA WriteOutEffect ==
  ASSUME StdioTypeOK, NEW s \in 1 .. Len(streams), NEW b \in Seq(Lines),
         NEW open \in BOOLEAN, WriteOut(s, b, open),
         NEW c \in Seq(Lines), Pieces(streams, c), Piece(streams[s].off, b, c)
  PROVE  /\ Len(streams') = Len(streams) /\ Pieces(streams', c)
         /\ streams'[s] = [off |-> streams[s].off + Len(b), buf |-> <<>>,
                           open |-> open]
         /\ Begins(file, c) /\ Len(file) = streams[s].off =>
              Begins(file', c) /\ Len(file') = streams[s].off + Len(b)
         /\ file = c => file' = c
<1> DEFINE r == [off |-> streams[s].off + Len(b), buf |-> <<>>, open |-> open]
<1>1. streams[s] \in [off : Nat, buf : Seq(Lines), open : BOOLEAN]
  BY ElementOfSeq DEF StdioTypeOK
<1>2. Len(b) \in Nat /\ Len(c) \in Nat /\ Len(<<>>) = 0 /\ <<>> \in Seq(Lines)
  BY LenProperties, EmptySeq
<1>3. r \in [off : Nat, buf : Seq(Lines), open : BOOLEAN]
  BY <1>1, <1>2
<1>4. Piece(r.off, r.buf, c)
  BY <1>1, <1>2 DEF Piece
<1>5. streams' = [streams EXCEPT ![s] = r]
  BY DEF WriteOut
<1> HIDE DEF r
<1>6. Len(streams') = Len(streams) /\ streams'[s] = r /\ Pieces(streams', c)
  BY <1>3, <1>4, <1>5, StreamUpdate
<1>7. file' = Overlay(file, streams[s].off, b)
  BY DEF WriteOut
<1>8. ASSUME Begins(file, c), Len(file) = streams[s].off
      PROVE  Begins(file', c) /\ Len(file') = streams[s].off + Len(b)
  <2>1. Piece(Len(file), b, c) /\ file' = Overlay(file, Len(file), b)
    BY <1>7, <1>8
  <2>2. /\ Begins(Overlay(file, Len(file), b), c)
        /\ Len(Overlay(file, Len(file), b)) = Len(file) + Len(b)
    BY <1>8, <2>1, OverlayExtends DEF StdioTypeOK
  <2> QED BY <1>8, <2>1, <2>2
<1>9. file = c => file' = c
  BY <1>1, <1>7, OverlayRepeats
<1> QED BY <1>6, <1>8, <1>9 DEF r

(* fprintf of the log's next line, at the end of its beginning. *)
LEMMA FPrintfEffect ==
  ASSUME StdioTypeOK, NEW s, IsOpen(s), NEW c \in Seq(Lines),
         Pieces(streams, c), Begins(file, c), Len(file) = streams[s].off,
         Len(file) + Len(streams[s].buf) < Len(c),
         FPrintf(s, c[Len(file) + Len(streams[s].buf) + 1])
  PROVE  /\ UNCHANGED <<present, misused>>
         /\ Len(streams') = Len(streams) /\ Pieces(streams', c) /\ IsOpen(s)'
         /\ Begins(file', c) /\ Len(file') = streams'[s].off
         /\ Len(file') + Len(streams'[s].buf)
              = Len(file) + Len(streams[s].buf) + 1
<1> DEFINE line == c[streams[s].off + Len(streams[s].buf) + 1]
           b == Append(streams[s].buf, line)
<1>1. /\ s \in 1 .. Len(streams)
      /\ streams[s] \in [off : Nat, buf : Seq(Lines), open : BOOLEAN]
      /\ streams[s].open
  BY StreamTypes DEF IsOpen
<1>2. Len(streams[s].buf) \in Nat /\ Len(c) \in Nat
  BY <1>1, LenProperties
<1>3. line \in Lines
  BY <1>1, <1>2, ElementOfSeq
<1>4. Piece(streams[s].off, streams[s].buf, c)
  BY <1>1 DEF Pieces
<1>5. Piece(streams[s].off, b, c)
  BY <1>1, <1>4, PieceGrows
<1>6. FPrintf(s, line)
  OBVIOUS
<1> HIDE DEF line
<1>7. b \in Seq(Lines) /\ Len(b) = Len(streams[s].buf) + 1
  BY <1>1, <1>3, AppendProperties
<1> HIDE DEF b
<1>8. CASE streams' = [streams EXCEPT ![s].buf = Append(@, line)]
           /\ UNCHANGED file
  <2> DEFINE r == [streams[s] EXCEPT !.buf = b]
  <2>1. /\ r \in [off : Nat, buf : Seq(Lines), open : BOOLEAN]
        /\ r.off = streams[s].off /\ r.buf = b /\ r.open = streams[s].open
    BY <1>1, <1>7
  <2>2. streams' = [streams EXCEPT ![s] = r]
    BY <1>8 DEF b
  <2> HIDE DEF r
  <2>3. Len(streams') = Len(streams) /\ streams'[s] = r /\ Pieces(streams', c)
    BY <1>1, <1>5, <2>1, <2>2, StreamUpdate
  <2>4. IsOpen(s)'
    BY <1>1, <2>1, <2>3 DEF IsOpen
  <2>5. UNCHANGED <<present, misused>> /\ file' = file
    BY <1>6, <1>8 DEF FPrintf
  <2> QED BY <1>1, <1>2, <1>7, <2>1, <2>3, <2>4, <2>5
<1>9. CASE WriteOut(s, b, TRUE)
  <2>1. /\ Len(streams') = Len(streams) /\ Pieces(streams', c)
        /\ streams'[s] = [off |-> streams[s].off + Len(b), buf |-> <<>>,
                          open |-> TRUE]
        /\ Begins(file', c) /\ Len(file') = streams[s].off + Len(b)
    BY <1>1, <1>5, <1>7, <1>9, WriteOutEffect
  <2>2. Len(<<>>) = 0
    BY EmptySeq
  <2>3. UNCHANGED <<present, misused>>
    BY <1>6 DEF FPrintf
  <2> QED BY <1>1, <1>2, <1>7, <2>1, <2>2, <2>3 DEF IsOpen
<1> QED BY <1>6, <1>8, <1>9 DEF FPrintf, b

(* fclose of the stream that has printed the whole log. *)
LEMMA FCloseEffect ==
  ASSUME StdioTypeOK, NEW s, IsOpen(s), NEW c \in Seq(Lines),
         Pieces(streams, c), Begins(file, c), Len(file) = streams[s].off,
         Len(file) + Len(streams[s].buf) = Len(c), FClose(s)
  PROVE  /\ UNCHANGED <<present, misused>>
         /\ Len(streams') = Len(streams) /\ Pieces(streams', c)
         /\ file' = c
<1>1. /\ s \in 1 .. Len(streams)
      /\ streams[s] \in [off : Nat, buf : Seq(Lines), open : BOOLEAN]
  BY StreamTypes
<1>2. WriteOut(s, streams[s].buf, FALSE) /\ UNCHANGED <<present, misused>>
  BY DEF FClose
<1>3. Piece(streams[s].off, streams[s].buf, c)
  BY <1>1 DEF Pieces
<1>4. /\ Len(streams') = Len(streams) /\ Pieces(streams', c)
      /\ Begins(file', c) /\ Len(file') = streams[s].off + Len(streams[s].buf)
  BY <1>1, <1>2, <1>3, WriteOutEffect
<1>5. file' \in Seq(Lines)
  BY FCloseType DEF StdioTypeOK
<1>6. file' = c
  BY <1>4, <1>5, BeginsWhole
<1> QED BY <1>2, <1>4, <1>6

(* The flush of exit() repeats a piece of the log. *)
LEMMA ExitFlushEffect ==
  ASSUME StdioTypeOK, NEW s, NEW c \in Seq(Lines), Pieces(streams, c),
         ExitFlush(s)
  PROVE  /\ UNCHANGED <<present, misused>>
         /\ Len(streams') = Len(streams) /\ Pieces(streams', c)
         /\ file = c => file' = c
<1>1. CASE ~IsOpen(s)
  BY <1>1 DEF ExitFlush
<1>2. CASE IsOpen(s)
  <2>1. /\ s \in 1 .. Len(streams)
        /\ streams[s] \in [off : Nat, buf : Seq(Lines), open : BOOLEAN]
    BY <1>2, StreamTypes
  <2>2. WriteOut(s, streams[s].buf, TRUE) /\ UNCHANGED <<present, misused>>
    BY <1>2 DEF ExitFlush
  <2>3. Piece(streams[s].off, streams[s].buf, c)
    BY <2>1 DEF Pieces
  <2> QED BY <2>1, <2>2, <2>3, WriteOutEffect
<1> QED BY <1>1, <1>2

(* FOpenW in numbers. *)
LEMMA OpenedStream ==
  ASSUME StdioTypeOK, FOpenW
  PROVE  /\ present' /\ file' = <<>> /\ misused' = misused
         /\ Len(streams') = Len(streams) + 1 /\ Len(streams) \in Nat
         /\ \A k \in 1 .. Len(streams) : streams'[k] = streams[k]
         /\ streams'[Len(streams')] = [off |-> 0, buf |-> <<>>, open |-> TRUE]
<1> DEFINE new == [off |-> 0, buf |-> <<>>, open |-> TRUE]
<1>1. new \in [off : Nat, buf : Seq(Lines), open : BOOLEAN]
  BY EmptySeq
<1>2. streams' = Append(streams, new)
  BY DEF FOpenW
<1> HIDE DEF new
<1>3. /\ Len(Append(streams, new)) = Len(streams) + 1
      /\ \A k \in 1 .. Len(streams) : Append(streams, new)[k] = streams[k]
      /\ Append(streams, new)[Len(streams) + 1] = new
  BY <1>1, AppendProperties DEF StdioTypeOK
<1>4. Len(streams) \in Nat
  BY LenProperties DEF StdioTypeOK
<1> QED BY <1>2, <1>3, <1>4 DEF FOpenW, new

(* No stream has anything to write, nor has any written. *)
Quiet == \A k \in 1 .. Len(streams) : streams[k].off = 0 /\ streams[k].buf = <<>>
=============================================================================
