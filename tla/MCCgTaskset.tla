---------------------------- MODULE MCCgTaskset ----------------------------
(* Values of the constants of CgTaskset. *)
EXTENDS CgTaskset, TLC

(* Two programs of one subgroup and one with a subgroup of its own. *)
SharedGroup == ("lat" :> "sim-lat" @@ "bw" :> "sim-lat" @@ "inf" :> "inf-sim-lat")

ThreeWant == ("lat" :> {3} @@ "bw" :> {0, 1} @@ "inf" :> {2})
=============================================================================
