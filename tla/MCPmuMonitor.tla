---------------------------- MODULE MCPmuMonitor ----------------------------
(* Values of the constants of PmuMonitor. *)
EXTENDS PmuMonitor

Argument(interval, use_file_export, exp_all_flag, target_cpu_num, counter_num) ==
  [interval |-> interval, use_file_export |-> use_file_export,
   exp_all_flag |-> exp_all_flag, target_cpu_num |-> target_cpu_num,
   counter_num |-> counter_num]

(* With and without a log. *)
EndArguments ==
  {Argument(interval, TRUE, FALSE, 1, 1) : interval \in {"neg", "zero", "pos"}}
    \cup {Argument(interval, FALSE, FALSE, 1, 1) : interval \in {"neg", "pos"}}

FullArguments == {Argument("pos", TRUE, FALSE, 1, 1)}

(* Two events or two CPUs; a log of two CPUs is refused. *)
RowArguments ==
  {Argument(interval, TRUE, FALSE, 1, 2) : interval \in {"neg", "pos"}}
    \cup {Argument(interval, FALSE, all, 2, 1) :
            interval \in {"neg", "pos"}, all \in BOOLEAN}
    \cup {Argument("neg", FALSE, FALSE, 1, 2), Argument("pos", TRUE, TRUE, 2, 2)}
=============================================================================
