------------------------------ MODULE MCWayset ------------------------------
(* Values of the constants of Wayset. *)
EXTENDS Wayset, TLC

TwoCpus == {(0 :> 0 @@ 1 :> 1), (0 :> 3 @@ 1 :> 3)}
=============================================================================
