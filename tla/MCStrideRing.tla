---------------------------- MODULE MCStrideRing ----------------------------
(* Values of the constants of StrideRing. *)
EXTENDS StrideRing

(* An empty list, lists of as many CPUs as threads, one of them twice,     *)
(* fewer, and too many.                                                    *)
Lists == {<<>>, <<1, 3, 2>>, <<3, 1, 3>>, <<4, 0>>, <<1, 2, 3, 4, 5>>}
=============================================================================
