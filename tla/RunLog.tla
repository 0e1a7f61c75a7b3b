------------------------------- MODULE RunLog -------------------------------
(***************************************************************************)
(* What a measuring program promises about its log, with no handler,       *)
(* stream or signal in it: measurements are kept one by one, at most Limit *)
(* of them, and a run that ends well leaves, in a single step, a log of    *)
(* every one of them, with the warning only when the limit was reached     *)
(* (src/sim-lmbench/lat_mem_rd/README.md:69-72, 85).                       *)
(***************************************************************************)
EXTENDS LogLines

CONSTANT Limit   \* how many measurements may be kept, a natural number

VARIABLES
  kept,      \* how many measurements were kept
  outcome,   \* running, done or failed
  log        \* the log of a run that is done

runVars == <<kept, outcome, log>>

Init == kept = 0 /\ outcome = "running" /\ log = <<>>

Keep ==
  /\ outcome = "running"
  /\ kept < Limit
  /\ kept' = kept + 1
  /\ UNCHANGED <<outcome, log>>

Finish ==
  /\ outcome = "running"
  /\ outcome' = "done"
  /\ \E full \in {FALSE, kept = Limit} : log' = Heading(full) \o Rows(kept)
  /\ UNCHANGED kept

Fail ==
  /\ outcome = "running"
  /\ outcome' = "failed"
  /\ UNCHANGED <<kept, log>>

Next == Keep \/ Finish \/ Fail

Spec == Init /\ [][Next]_runVars
=============================================================================
