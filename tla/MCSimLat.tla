------------------------------ MODULE MCSimLat ------------------------------
(* Values of the constants of SimLat. *)
EXTENDS SimLat

MaxCpuNum == [sim |-> 2, pmu |-> 1]

Range(first, last) == [first |-> first, cpus |-> first .. last]

(* No CPU, one, a range, one that is not there, and two and three. *)
Lists ==
  {<<>>, <<Range(1, 1)>>, <<Range(1, 3)>>, <<Range(2, 2)>>,
   <<Range(3, 3), Range(1, 1)>>, <<Range(1, 1), Range(2, 2), Range(3, 3)>>}

(* Callers that leave the process where it was, and one that used taskset. *)
Callers == {{1, 3}, {3}}
=============================================================================
