---------------------------- MODULE SimLat_proofs ----------------------------
(***************************************************************************)
(* Proofs about PmuCounter, for any number of events, CPUs and descriptors *)
(* and any program that keeps to the README of the library, and about      *)
(* SimLat: pmu-sim-lat_mem_rd is such a program, so that what is proved of *)
(* the library holds of it, and what it and sim-lat_mem_rd measure.        *)
(***************************************************************************)
EXTENDS SimLat, FiniteSetTheorems, WellFoundedInduction, TLAPS

-----------------------------------------------------------------------------
(* The library *)

Calls == Functions \cup {"none", "exit", "create", "print", "print_and_clean", "clean"}

Event == [leader : Fds, cpu : Targets \cup {AnyCpu}, enabled : BOOLEAN, count : Nat]

CounterTypeOK ==
  /\ DOMAIN events \subseteq Fds /\ events \in [DOMAIN events -> Event]
  /\ target \in Targets \cup {AnyCpu}
  /\ call \in Calls /\ k \in Group
  /\ val \in [Group -> Nat] /\ ret \in [Group -> BOOLEAN]
  /\ fd \in [Group -> Fds \cup {0}] /\ cpu \in Cpus
  /\ running \in BOOLEAN /\ work \in Nat /\ slack \in Nat

(* The open descriptors are fd[n] for n in S, and no two of them are one. *)
Holds(S) ==
  /\ DOMAIN events = {fd[n] : n \in S}
  /\ \A m, n \in S : fd[m] = fd[n] => m = n

(* The calls during which the group is whole. *)
Whole == Functions \cup {"print", "print_and_clean"}

Descriptors ==
  /\ call = "none" => Holds({}) \/ Holds(Group)
  /\ call = "create" => Holds(1 .. k - 1)
  /\ call \in Whole => Holds(Group)
  /\ call = "clean" => Holds(k .. EventNum)
  /\ call = "exit" => DOMAIN events \subseteq {fd[n] : n \in Group}

(* Every member is in the group of fd0, on the target CPU. *)
Members ==
  call \notin {"clean", "exit"} =>
    \A n \in Group : fd[n] \in DOMAIN events /\ (call = "create" => n < k) =>
      events[fd[n]].leader = fd[1] /\ events[fd[n]].cpu = target

(* Between the loops a member is on just when the counters were started. *)
Switched ==
  /\ call = "create" =>
       ~running /\ work = 0 /\ \A n \in 1 .. k - 1 : ~events[fd[n]].enabled
  /\ call = "start" =>
       \A n \in Group : running \/ n < k => events[fd[n]].enabled
  /\ call = "stop" => \A n \in 1 .. k - 1 : ~events[fd[n]].enabled
  /\ call = "stop" => ~running
  /\ call \in (Whole \ {"start", "stop"}) \/ (call = "none" /\ Grouped) =>
       \A n \in Group : events[fd[n]].enabled = running

InBounds(c) == work <= c /\ c <= work + slack

(* A member holds the work; in the loop of a reset only those reset do. *)
Bounded ==
  /\ call = "create" => \A n \in 1 .. k - 1 : InBounds(events[fd[n]].count)
  /\ call \in {"reset", "reset_and_start"} =>
       work = 0 /\ \A n \in 1 .. k - 1 : InBounds(events[fd[n]].count)
  /\ call \in (Whole \ {"reset", "reset_and_start"}) \/ (call = "none" /\ Grouped) =>
       \A n \in Group : InBounds(events[fd[n]].count)

(* The values read so far, and those not yet read. *)
ReadSoFar ==
  /\ call \in {"export", "export_and_clean"} =>
       \A n \in Group :
         /\ IF n < k /\ ret[n] THEN InBounds(val[n]) ELSE val[n] = 0
         /\ n >= k => ret[n]
  /\ call \in {"print", "print_and_clean"} =>
       \A n \in Group : IF ret[n] THEN InBounds(val[n]) ELSE val[n] = 0

CounterInv ==
  CounterTypeOK /\ Descriptors /\ Members /\ Switched /\ Bounded /\ ReadSoFar

-----------------------------------------------------------------------------
(* A unit of work changes the counts of the events that are on, by one. *)
LEMMA CountedEvents ==
  ASSUME CounterTypeOK
  PROVE  /\ DOMAIN Counted = DOMAIN events
         /\ Counted \in [DOMAIN events -> Event]
         /\ \A d \in DOMAIN events :
              /\ Counted[d].leader = events[d].leader
              /\ Counted[d].cpu = events[d].cpu
              /\ Counted[d].enabled = events[d].enabled
              /\ Counts(d) => Counted[d].count = events[d].count + 1
              /\ ~Counts(d) => Counted[d].count = events[d].count
<1>1. \A d \in DOMAIN events : events[d] \in Event
  BY DEF CounterTypeOK
<1>2. \A d \in DOMAIN events :
        Counted[d] = IF Counts(d) THEN [events[d] EXCEPT !.count = @ + 1] ELSE events[d]
  BY DEF Counted
<1> QED BY <1>1, <1>2 DEF Counted, Event

(* A step of the library keeps a count in its bounds. *)
LEMMA StepInBounds ==
  ASSUME CounterTypeOK, LibraryWork, UNCHANGED work,
         NEW d \in DOMAIN events, InBounds(events[d].count),
         events[d].enabled /\ events[events[d].leader].enabled => Counting
  PROVE  work' <= Counted[d].count /\ Counted[d].count <= work' + slack'
<1>1. events[d].count \in Nat /\ work \in Nat /\ slack \in Nat
  BY DEF CounterTypeOK, Event
<1>2. /\ Counts(d) => Counted[d].count = events[d].count + 1
      /\ ~Counts(d) => Counted[d].count = events[d].count
  BY CountedEvents
<1>3. CASE Counting
  BY <1>1, <1>2, <1>3 DEF LibraryWork, InBounds
<1>4. CASE ~Counting
  BY <1>1, <1>2, <1>4 DEF LibraryWork, InBounds, Counts
<1> QED BY <1>3, <1>4

LEMMA TypeStep ==
  ASSUME CounterInv, [CounterNext]_pmuVars
  PROVE  CounterTypeOK'
<1> USE PmuCounterAssumption DEF CounterTypeOK, Group, locals, counters, history
<1>0. CounterTypeOK
  BY DEF CounterInv
<1>c. DOMAIN Counted = DOMAIN events /\ Counted \in [DOMAIN events -> Event]
  BY <1>0, CountedEvents
<1>s. LibraryWork => slack' \in Nat
  BY <1>0 DEF LibraryWork
<1>a. ASSUME NEW next \in Calls, Advance(next) PROVE call' \in Calls /\ k' \in Group
  BY <1>0, <1>a DEF Advance
<1>1. CASE UNCHANGED pmuVars
  BY <1>0, <1>1 DEF pmuVars, library
<1>2. ASSUME NEW cpu_id \in Targets, CreateSixEventGroup(cpu_id) PROVE CounterTypeOK'
  <2>1. DOMAIN events' \subseteq Fds /\ events' \in [DOMAIN events' -> Event]
    BY <1>0, <1>2 DEF CreateSixEventGroup
  <2>2. call' \in Calls /\ k' \in Group /\ target' \in Targets \cup {AnyCpu}
    BY <1>0, <1>2 DEF CreateSixEventGroup, Calls
  <2>3. UNCHANGED <<val, ret, fd, cpu>> /\ running' = FALSE /\ work' = 0 /\ slack' = 0
    BY <1>2 DEF CreateSixEventGroup
  <2> QED BY <1>0, <2>1, <2>2, <2>3
<1>3. ASSUME NEW function \in Functions, Begin(function) PROVE CounterTypeOK'
  <2>1. val' \in [Group -> Nat] /\ ret' \in [Group -> BOOLEAN]
    <3>1. CASE function \in {"export", "export_and_clean"}
      <4>1. val' = [n \in Group |-> 0] /\ ret' = [n \in Group |-> TRUE]
        BY <1>3, <3>1 DEF Begin, NoValues
      <4> QED BY <4>1
    <3>2. CASE function \notin {"export", "export_and_clean"}
      BY <1>0, <1>3, <3>2 DEF Begin
    <3> QED BY <3>1, <3>2
  <2>2. DOMAIN events' \subseteq Fds /\ events' \in [DOMAIN events' -> Event]
    BY <1>0, <1>3 DEF Begin
  <2>3. call' \in Calls /\ k' \in Group /\ UNCHANGED <<target, fd, cpu>>
    BY <1>0, <1>3 DEF Begin, Calls
  <2>4. running' \in BOOLEAN
    BY <1>0, <1>3 DEF Begin
  <2>5. work' \in Nat /\ slack' \in Nat
    BY <1>0, <1>3 DEF Begin
  <2> QED BY <1>0, <2>1, <2>2, <2>3, <2>4, <2>5
<1>4. CASE PerfEventOpen
  <2>1. CASE call' = "exit" /\ UNCHANGED <<fd, events, k>>
    BY <1>0, <1>4, <1>s, <2>1 DEF PerfEventOpen, Calls
  <2>2. CASE call' # "exit" \/ ~ UNCHANGED <<fd, events, k>>
    <3> DEFINE d == CHOOSE d \in Fds \ DOMAIN events : TRUE
               pe == [leader |-> Leader(d), cpu |-> target,
                      enabled |-> FALSE, count |-> 0]
    <3>1. d \in Fds \ DOMAIN events
      BY <1>0, <1>4, <2>2 DEF PerfEventOpen
    <3>2. Leader(d) \in Fds
      <4>1. CASE k = 1
        BY <3>1, <4>1 DEF Leader
      <4>2. CASE k # 1
        <5>1. 1 \in 1 .. k - 1 /\ fd[1] \in DOMAIN events
          BY <1>0, <1>4, <4>2 DEF PerfEventOpen, CounterInv, Descriptors, Holds
        <5> QED BY <1>0, <4>2, <5>1 DEF Leader
      <4> QED BY <4>1, <4>2
    <3>3. pe \in Event
      BY <1>0, <3>2 DEF Event
    <3>4. /\ fd' = [fd EXCEPT ![k] = d]
          /\ events' = [e \in DOMAIN events \cup {d} |-> IF e = d THEN pe ELSE Counted[e]]
          /\ Advance("none") /\ LibraryWork
          /\ UNCHANGED <<target, locals, running, work, cpu>>
      BY <1>4, <2>2 DEF PerfEventOpen
    <3> HIDE DEF d, pe
    <3>5. /\ DOMAIN events' \subseteq Fds
          /\ events' \in [DOMAIN events' -> Event]
      BY <1>0, <1>c, <3>1, <3>3, <3>4
    <3> QED BY <1>0, <1>a, <1>s, <3>1, <3>4, <3>5 DEF Calls
  <2> QED BY <2>1, <2>2
<1>6. CASE Reset
  <2>1. \A e \in Event : Zero(e) \in Event
    BY DEF Zero, Event
  <2>2. DOMAIN events' \subseteq Fds /\ events' \in [DOMAIN events' -> Event]
    BY <1>0, <1>c, <1>6, <2>1 DEF Reset, Ioctl
  <2> QED BY <1>0, <1>6, <1>a, <1>s, <2>2 DEF Reset, Calls, Functions
<1>7. CASE Start
  <2>1. \A e \in Event : On(e) \in Event
    BY DEF On, Event
  <2>2. DOMAIN events' \subseteq Fds /\ events' \in [DOMAIN events' -> Event]
    BY <1>0, <1>c, <1>7, <2>1 DEF Start, Ioctl
  <2> QED BY <1>0, <1>7, <1>a, <1>s, <2>2 DEF Start, Calls, Functions
<1>8. CASE Stop
  <2>1. \A e \in Event : Off(e) \in Event
    BY DEF Off, Event
  <2>2. DOMAIN events' \subseteq Fds /\ events' \in [DOMAIN events' -> Event]
    BY <1>0, <1>c, <1>8, <2>1 DEF Stop, Ioctl
  <2> QED BY <1>0, <1>8, <1>a, <1>s, <2>2 DEF Stop, Calls, Functions
<1>9. CASE Read
  <2>1. fd[k] \in DOMAIN events
    BY <1>0, <1>9 DEF Read, CounterInv, Descriptors, Whole, Functions, Holds
  <2>2. Counted[fd[k]].count \in Nat
    BY <1>c, <2>1 DEF Event
  <2> QED BY <1>0, <1>9, <1>c, <1>a, <1>s, <2>2 DEF Read, Calls, Functions
<1>10. CASE PrintValues
  BY <1>0, <1>10, <1>c, <1>s DEF PrintValues, Calls
<1>11. CASE Close
  <2>1. \A e \in DOMAIN events : [Counted[e] EXCEPT !.leader = IF @ = fd[k] THEN e ELSE @] \in Event
    BY <1>0, <1>c DEF Event
  <2>2. DOMAIN events' \subseteq Fds /\ events' \in [DOMAIN events' -> Event]
    BY <1>0, <1>11, <2>1 DEF Close
  <2> QED BY <1>0, <1>11, <1>a, <1>s, <2>2 DEF Close, Calls, Functions
<1>12. CASE Execute
  BY <1>0, <1>12, <1>c DEF Execute
<1>13. CASE Migrate(Cpus)
  BY <1>0, <1>13 DEF Migrate, library
<1> QED
  BY <1>1, <1>2, <1>3, <1>4, <1>6, <1>7, <1>8, <1>9, <1>10, <1>11, <1>12, <1>13
  DEF CounterNext, Library

-----------------------------------------------------------------------------
(* Steps that open or close nothing keep what the events are. *)
LEMMA Kept ==
  ASSUME CounterTypeOK, Reset \/ Start \/ Stop \/ Read \/ PrintValues \/ Execute
  PROVE  /\ DOMAIN events' = DOMAIN events /\ UNCHANGED <<fd, target>>
         /\ \A d \in DOMAIN events :
              events'[d].leader = events[d].leader /\ events'[d].cpu = events[d].cpu
<1>1. /\ DOMAIN Counted = DOMAIN events
      /\ \A d \in DOMAIN events :
           /\ Counted[d] \in Event
           /\ Counted[d].leader = events[d].leader /\ Counted[d].cpu = events[d].cpu
  BY CountedEvents
<1>2. CASE Reset
  BY <1>1, <1>2 DEF Reset, Ioctl, Zero, Event
<1>3. CASE Start
  BY <1>1, <1>3 DEF Start, Ioctl, On, Event
<1>4. CASE Stop
  BY <1>1, <1>4 DEF Stop, Ioctl, Off, Event
<1>5. CASE Read
  BY <1>1, <1>5 DEF Read
<1>6. CASE PrintValues
  BY <1>1, <1>6 DEF PrintValues
<1>7. CASE Execute
  BY <1>1, <1>7 DEF Execute
<1> QED BY <1>2, <1>3, <1>4, <1>5, <1>6, <1>7

(* perf_event_open() that succeeds: the descriptor is a new one, and only  *)
(* fdk changes.                                                            *)
LEMMA Opened ==
  ASSUME CounterTypeOK, Descriptors, PerfEventOpen, call' # "exit"
  PROVE  /\ fd'[k] \notin DOMAIN events /\ fd'[k] \in Fds
         /\ \A n \in Group \ {k} : fd'[n] = fd[n]
         /\ DOMAIN events' = DOMAIN events \cup {fd'[k]}
         /\ events'[fd'[k]] = [leader |-> fd'[1], cpu |-> target,
                               enabled |-> FALSE, count |-> 0]
         /\ \A e \in DOMAIN events : events'[e] = Counted[e]
         /\ Advance("none")
<1> DEFINE d == CHOOSE d \in Fds \ DOMAIN events : TRUE
           pe == [leader |-> Leader(d), cpu |-> target,
                  enabled |-> FALSE, count |-> 0]
<1>1. d \in Fds \ DOMAIN events
  BY DEF PerfEventOpen, CounterTypeOK
<1>2. /\ fd' = [fd EXCEPT ![k] = d]
      /\ events' = [e \in DOMAIN events \cup {d} |-> IF e = d THEN pe ELSE Counted[e]]
      /\ Advance("none")
  BY DEF PerfEventOpen
<1> HIDE DEF d
<1>3. k \in Group /\ 1 \in Group /\ fd'[k] = d
  BY <1>2, PmuCounterAssumption DEF CounterTypeOK, Group
<1>4. Leader(d) = fd'[1]
  BY <1>2, <1>3 DEF CounterTypeOK, Leader
<1> QED BY <1>1, <1>2, <1>3, <1>4 DEF CounterTypeOK

(* No action loses a descriptor. *)
LEMMA DescriptorsStep ==
  ASSUME CounterInv, [CounterNext]_pmuVars
  PROVE  Descriptors'
<1> USE PmuCounterAssumption DEF Group
<1> PICK m \in Group : m = k
  BY DEF CounterInv, CounterTypeOK
<1>0. CounterTypeOK /\ Descriptors /\ k \in Group
  BY DEF CounterInv, CounterTypeOK
<1>a. ASSUME NEW S, Holds(S), DOMAIN events' = DOMAIN events, fd' = fd PROVE Holds(S)'
  BY <1>a DEF Holds
<1>1. CASE UNCHANGED library
  BY <1>0, <1>1 DEF library, counters, Descriptors, Holds
<1>2. ASSUME NEW cpu_id \in Targets, ~Grouped, CreateSixEventGroup(cpu_id)
      PROVE  Descriptors'
  <2>1. DOMAIN events' = {} /\ call' = "create" /\ k' = 1
    BY <1>2 DEF CreateSixEventGroup, Grouped
  <2> QED BY <2>1 DEF Descriptors, Whole, Functions, Holds
<1>3. ASSUME NEW function \in Functions, Grouped, Begin(function) PROVE Descriptors'
  <2>1. Holds(Group)
    BY <1>0, <1>3 DEF Begin, Descriptors, Grouped, Holds
  <2>2. Holds(Group)' /\ call' \in Functions
    BY <1>3, <1>a, <2>1 DEF Begin, counters
  <2> QED BY <2>2 DEF Descriptors, Functions
<1>4. CASE PerfEventOpen
  <2>1. Holds(1 .. k - 1)
    BY <1>0, <1>4 DEF PerfEventOpen, Descriptors
  <2>2. CASE call' = "exit"
    <3>1. DOMAIN events' \subseteq {fd'[n] : n \in Group}
      BY <1>0, <1>4, <2>1, <2>2 DEF PerfEventOpen, Advance, Holds
    <3> QED BY <2>2, <3>1 DEF Descriptors, Whole, Functions
  <2>3. CASE call' # "exit"
    <3>1. /\ fd'[k] \notin DOMAIN events
          /\ \A n \in Group \ {k} : fd'[n] = fd[n]
          /\ DOMAIN events' = DOMAIN events \cup {fd'[k]} /\ Advance("none")
      BY <1>0, <1>4, <2>3, Opened
    <3>2. Holds(1 .. m)'
      <4>1. \A n \in 1 .. m - 1 : fd'[n] = fd[n] /\ fd[n] \in DOMAIN events
        BY <2>1, <3>1 DEF Holds
      <4>2. \A n \in 1 .. m : n = m \/ n \in 1 .. m - 1
        OBVIOUS
      <4>3. {fd'[n] : n \in 1 .. m} = {fd[n] : n \in 1 .. m - 1} \cup {fd'[m]}
        BY <4>1, <4>2
      <4> QED BY <2>1, <3>1, <4>1, <4>2, <4>3 DEF Holds
    <3>3. CASE k < EventNum
      <4>1. call' = "create" /\ k' = m + 1 /\ 1 .. k' - 1 = 1 .. m
        BY <1>0, <1>4, <3>1, <3>3 DEF Advance, PerfEventOpen
      <4> QED BY <3>2, <4>1 DEF Descriptors, Whole, Functions
    <3>4. CASE ~(k < EventNum)
      <4>1. call' = "none" /\ 1 .. m = Group
        BY <1>0, <3>1, <3>4 DEF Advance
      <4> QED BY <3>2, <4>1 DEF Descriptors, Whole, Functions
    <3> QED BY <3>3, <3>4
  <2> QED BY <2>2, <2>3
<1>5. CASE Reset \/ Start \/ Stop \/ Read
  <2>1. Holds(Group) /\ call \in Functions
    BY <1>0, <1>5 DEF Reset, Start, Stop, Read, Descriptors, Whole, Functions
  <2>2. Holds(Group)'
    BY <1>0, <1>5, <1>a, <2>1, Kept
  <2>3. call' \in Whole \cup {"none"}
    BY <1>5, <2>1 DEF Reset, Start, Stop, Read, Advance, Whole, Functions
  <2> QED BY <2>2, <2>3 DEF Descriptors, Whole, Functions
<1>6. CASE PrintValues
  <2>1. Holds(Group)
    BY <1>0, <1>6 DEF PrintValues, Descriptors, Whole
  <2>2. Holds(Group)'
    BY <1>0, <1>6, <1>a, <2>1, Kept
  <2>3. call' = "none" \/ (call' = "clean" /\ k' = 1)
    BY <1>6 DEF PrintValues
  <2> QED BY <2>2, <2>3 DEF Descriptors, Whole, Functions
<1>7. CASE Close
  <2>1. Holds(k .. EventNum) /\ UNCHANGED fd
    BY <1>0, <1>7 DEF Close, Descriptors
  <2>2. DOMAIN events' = DOMAIN events \ {fd[k]}
    BY <1>7 DEF Close
  <2>3. Holds(m + 1 .. EventNum)'
    <3>1. \A n \in m .. EventNum : n = m \/ n \in m + 1 .. EventNum
      OBVIOUS
    <3>2. \A n \in m + 1 .. EventNum : n \in m .. EventNum /\ n # m
      OBVIOUS
    <3>3. {fd[n] : n \in m .. EventNum} \ {fd[m]} = {fd[n] : n \in m + 1 .. EventNum}
      BY <2>1, <3>1, <3>2 DEF Holds
    <3> QED BY <2>1, <2>2, <3>2, <3>3 DEF Holds
  <2>4. CASE k < EventNum
    <3>1. call' = "clean" /\ k' = m + 1
      BY <1>0, <1>7, <2>4 DEF Close, Advance
    <3> QED BY <2>3, <3>1 DEF Descriptors, Whole, Functions
  <2>5. CASE ~(k < EventNum)
    <3>1. m + 1 .. EventNum = {} /\ call' = "none"
      BY <1>0, <1>7, <2>5 DEF Close, Advance
    <3> QED BY <2>3, <3>1 DEF Descriptors, Whole, Functions
  <2> QED BY <2>4, <2>5
<1>8. CASE Execute
  <2>1. call' = "none"
    BY <1>8 DEF Execute
  <2>2. Holds({})' \/ Holds(Group)'
    BY <1>0, <1>8, <1>a, Kept DEF Execute, Descriptors
  <2> QED BY <2>1, <2>2 DEF Descriptors, Whole, Functions
<1> QED
  BY <1>1, <1>2, <1>3, <1>4, <1>5, <1>6, <1>7, <1>8
  DEF CounterNext, Library, Migrate, pmuVars

-----------------------------------------------------------------------------
(* What a step of the loops makes of fdn. *)
LEMMA MemberStep ==
  ASSUME CounterTypeOK, Holds(Group),
         Reset \/ Start \/ Stop \/ Read \/ PrintValues \/ Execute, NEW n \in Group
  PROVE  /\ fd[n] \in DOMAIN events /\ events[fd[n]] \in Event
         /\ UNCHANGED <<fd, target>>
         /\ events'[fd[n]] =
              CASE n = k /\ call = "start" -> On(Counted[fd[n]])
                [] n = k /\ call = "stop" -> Off(Counted[fd[n]])
                [] n = k /\ call \in {"reset", "reset_and_start"} -> Zero(Counted[fd[n]])
                [] OTHER -> Counted[fd[n]]
<1>1. DOMAIN Counted = DOMAIN events /\ k \in Group
  BY CountedEvents DEF CounterTypeOK
<1>2. fd[n] \in DOMAIN events /\ (fd[n] = fd[k] => n = k)
  BY <1>1 DEF Holds
<1>9. events[fd[n]] \in Event /\ UNCHANGED <<fd, target>>
  BY <1>2, Kept DEF CounterTypeOK
<1>3. CASE Reset
  BY <1>1, <1>2, <1>9, <1>3 DEF Reset, Ioctl
<1>4. CASE Start
  BY <1>1, <1>2, <1>9, <1>4 DEF Start, Ioctl
<1>5. CASE Stop
  BY <1>1, <1>2, <1>9, <1>5 DEF Stop, Ioctl
<1>6. CASE Read
  BY <1>1, <1>2, <1>9, <1>6 DEF Read
<1>7. CASE PrintValues
  BY <1>1, <1>2, <1>9, <1>7 DEF PrintValues
<1>8. CASE Execute
  BY <1>1, <1>2, <1>9, <1>8 DEF Execute
<1> QED BY <1>3, <1>4, <1>5, <1>6, <1>7, <1>8

(* When the last descriptor is closed nothing is open. *)
LEMMA LastClosed ==
  ASSUME CounterTypeOK, Descriptors, Close, call' # "clean"
  PROVE  call' = "none" /\ DOMAIN events' = {}
<1> USE PmuCounterAssumption DEF Group
<1>1. call' = "none" /\ k \in Group /\ k = EventNum
  BY DEF Close, Advance, CounterTypeOK
<1>2. k .. EventNum = {k}
  BY <1>1
<1>3. DOMAIN events = {fd[k]}
  BY <1>2 DEF Close, Descriptors, Holds
<1> QED BY <1>1, <1>3 DEF Close

(* During a call that uses the group, and outside of one, it is whole. *)
LEMMA WholeGroup ==
  ASSUME CounterTypeOK, Descriptors,
         call \in Whole \/ (call = "none" /\ Grouped)
  PROVE  Holds(Group)
BY DEF Descriptors, Grouped, Holds, CounterTypeOK

LEMMA MembersStep ==
  ASSUME CounterInv, [CounterNext]_pmuVars
  PROVE  Members'
<1> USE PmuCounterAssumption DEF Group
<1>0. CounterTypeOK /\ Descriptors /\ Members /\ k \in Group
  BY DEF CounterInv, CounterTypeOK
<1>1. CASE UNCHANGED library
  BY <1>0, <1>1 DEF library, counters, Members
<1>2. ASSUME NEW cpu_id \in Targets, CreateSixEventGroup(cpu_id) PROVE Members'
  <2>1. call' = "create" /\ k' = 1
    BY <1>2 DEF CreateSixEventGroup
  <2> QED BY <2>1 DEF Members
<1>3. ASSUME NEW function \in Functions, Begin(function) PROVE Members'
  BY <1>0, <1>3 DEF Members, Begin, counters, Functions
<1>4. CASE PerfEventOpen
  <2>1. CASE call' = "exit"
    BY <2>1 DEF Members
  <2>2. CASE call' # "exit"
    <3> PICK m \in Group : m = k
      BY <1>0
    <3>1. /\ fd'[m] \notin DOMAIN events
          /\ \A n \in Group \ {m} : fd'[n] = fd[n]
          /\ DOMAIN events' = DOMAIN events \cup {fd'[m]} /\ Advance("none")
          /\ events'[fd'[m]] = [leader |-> fd'[1], cpu |-> target,
                               enabled |-> FALSE, count |-> 0]
          /\ \A e \in DOMAIN events : events'[e] = Counted[e]
      BY <1>0, <1>4, <2>2, Opened
    <3>2. call = "create" /\ target' = target /\ Holds(1 .. m - 1)
      BY <1>0, <1>4 DEF PerfEventOpen, Descriptors
    <3>3. \A n \in 1 .. m - 1 :
            events'[fd'[n]].leader = fd'[1] /\ events'[fd'[n]].cpu = target
      <4> TAKE n \in 1 .. m - 1
      <4>1. n \in Group /\ 1 \in Group \ {m} /\ n # m
        OBVIOUS
      <4>2. fd'[n] = fd[n] /\ fd'[1] = fd[1] /\ fd[n] \in DOMAIN events
        BY <3>1, <3>2, <4>1 DEF Holds
      <4>3. events[fd[n]].leader = fd[1] /\ events[fd[n]].cpu = target
        BY <1>0, <3>2, <4>1, <4>2 DEF Members
      <4> QED BY <1>0, <3>1, <4>2, <4>3, CountedEvents
    <3>4. \A n \in 1 .. m :
            events'[fd'[n]].leader = fd'[1] /\ events'[fd'[n]].cpu = target
      <4>1. \A n \in 1 .. m : n = m \/ n \in 1 .. m - 1
        OBVIOUS
      <4> QED BY <3>1, <3>3, <4>1
    <3>5. (call' = "create" /\ k' = m + 1) \/ m = EventNum
      BY <1>0, <3>1, <3>2 DEF Advance
    <3>6. CASE call' = "create" /\ k' = m + 1
      <4>1. \A n \in Group : n < m + 1 => n \in 1 .. m
        OBVIOUS
      <4> QED BY <3>2, <3>4, <3>6, <4>1 DEF Members
    <3>7. CASE m = EventNum
      BY <3>2, <3>4, <3>7 DEF Members
    <3> QED BY <3>5, <3>6, <3>7
  <2> QED BY <2>1, <2>2
<1>5. CASE Reset \/ Start \/ Stop \/ Read \/ PrintValues \/ Execute
  <2>1. call \notin {"create", "clean", "exit"}
    BY <1>5 DEF Reset, Start, Stop, Read, PrintValues, Execute
  <2>2. /\ DOMAIN events' = DOMAIN events /\ UNCHANGED <<fd, target>>
        /\ \A d \in DOMAIN events :
             events'[d].leader = events[d].leader /\ events'[d].cpu = events[d].cpu
    BY <1>0, <1>5, Kept
  <2> QED BY <1>0, <2>1, <2>2 DEF Members
<1>6. CASE Close
  BY <1>0, <1>6, LastClosed DEF Members
<1> QED
  BY <1>1, <1>2, <1>3, <1>4, <1>5, <1>6 DEF CounterNext, Library, Migrate, pmuVars

(* The members are switched on and off only in the loops that do so. *)
LEMMA SwitchedStep ==
  ASSUME CounterInv, [CounterNext]_pmuVars
  PROVE  Switched'
<1> USE PmuCounterAssumption DEF Group
<1>0. CounterTypeOK /\ Descriptors /\ Switched /\ k \in Group
  BY DEF CounterInv, CounterTypeOK
<1>1. CASE UNCHANGED library
  BY <1>0, <1>1
  DEF library, counters, history, Switched, Grouped
<1>2. ASSUME NEW cpu_id \in Targets, CreateSixEventGroup(cpu_id) PROVE Switched'
  <2>1. call' = "create" /\ k' = 1 /\ running' = FALSE /\ work' = 0
    BY <1>2 DEF CreateSixEventGroup
  <2> QED BY <2>1 DEF Switched, Whole, Functions
<1>3. ASSUME NEW function \in Functions, Grouped, Begin(function) PROVE Switched'
  <2>1. \A n \in Group : events[fd[n]].enabled = running
    BY <1>0, <1>3 DEF Begin, Switched
  <2>2. /\ call' = function /\ k' = 1 /\ running' = (running /\ function # "stop")
        /\ UNCHANGED <<events, fd>>
    BY <1>3 DEF Begin, counters
  <2>3. function # "stop" => running' = running
    BY <1>0, <2>2 DEF CounterTypeOK
  <2>4. \A n \in Group : events'[fd'[n]].enabled = running
    BY <2>1, <2>2
  <2>5. CASE function = "stop"
    <3>1. call' = "stop" /\ k' = 1 /\ ~running'
      BY <2>2, <2>5
    <3>2. 1 .. k' - 1 = {}
      BY <3>1
    <3> QED BY <3>1, <3>2 DEF Switched, Whole, Functions
  <2>6. CASE function # "stop"
    BY <2>2, <2>3, <2>4, <2>6 DEF Switched, Functions
  <2> QED BY <2>5, <2>6
<1>4. CASE PerfEventOpen
  <2>1. CASE call' = "exit"
    BY <2>1 DEF Switched, Whole, Functions
  <2>2. CASE call' # "exit"
    <3> PICK m \in Group : m = k
      BY <1>0
    <3>1. /\ \A n \in Group \ {m} : fd'[n] = fd[n]
          /\ Advance("none")
          /\ events'[fd'[m]] = [leader |-> fd'[1], cpu |-> target,
                               enabled |-> FALSE, count |-> 0]
          /\ \A e \in DOMAIN events : events'[e] = Counted[e]
      BY <1>0, <1>4, <2>2, Opened
    <3>2. call = "create" /\ Holds(1 .. m - 1) /\ UNCHANGED <<running, work>>
      BY <1>0, <1>4 DEF PerfEventOpen, Descriptors
    <3>3. ~running /\ work = 0 /\ \A n \in 1 .. m - 1 : ~events[fd[n]].enabled
      BY <1>0, <3>2 DEF Switched
    <3>6. (call' = "create" /\ k' = m + 1) \/ (m = EventNum /\ call' = "none")
      BY <1>0, <3>1, <3>2 DEF Advance
    <3>7. \A n \in 1 .. m : events'[fd'[n]].enabled = FALSE
      <4>1. \A n \in 1 .. m : n = m \/ n \in 1 .. m - 1
        OBVIOUS
      <4>2. \A n \in 1 .. m - 1 : events'[fd'[n]].enabled = FALSE
        <5> TAKE n \in 1 .. m - 1
        <5>1. n \in Group \ {m}
          OBVIOUS
        <5>2. fd'[n] = fd[n] /\ fd[n] \in DOMAIN events
          BY <3>1, <3>2, <5>1 DEF Holds
        <5>3. events[fd[n]].enabled \in BOOLEAN
          BY <1>0, <5>2 DEF CounterTypeOK, Event
        <5> QED BY <1>0, <3>1, <3>3, <5>2, <5>3, CountedEvents
      <4> QED BY <3>1, <4>1, <4>2
    <3>8. running' = FALSE /\ work' = 0
      BY <1>0, <3>2, <3>3 DEF CounterTypeOK
    <3>9. CASE call' = "create" /\ k' = m + 1
      BY <3>7, <3>8, <3>9 DEF Switched, Whole, Functions
    <3>10. CASE m = EventNum /\ call' = "none"
      BY <3>7, <3>8, <3>10 DEF Switched, Whole, Functions
    <3> QED BY <3>6, <3>9, <3>10
  <2> QED BY <2>1, <2>2
<1>5. ASSUME Reset \/ Start \/ Stop \/ Read \/ PrintValues \/ Execute,
             call \in Whole \/ (call = "none" /\ Grouped)
      PROVE  Switched'
  <2> PICK m \in Group : m = k
    BY <1>0
  <2>1. Holds(Group)
    BY <1>0, <1>5, WholeGroup
  <2>2. \A n \in Group :
          /\ fd'[n] = fd[n]
          /\ events[fd[n]].enabled \in BOOLEAN
          /\ n = m /\ call = "start" => events'[fd[n]].enabled = TRUE
          /\ n = m /\ call = "stop" => events'[fd[n]].enabled = FALSE
          /\ n # m \/ call \notin {"start", "stop"} =>
               events'[fd[n]].enabled = events[fd[n]].enabled
    <3> TAKE n \in Group
    <3>1. fd[n] \in DOMAIN events /\ events[fd[n]] \in Event /\ UNCHANGED fd
      BY <1>0, <1>5, <2>1, MemberStep
    <3>2. Counted[fd[n]] \in Event /\ Counted[fd[n]].enabled = events[fd[n]].enabled
      BY <1>0, <3>1, CountedEvents
    <3>3. events'[fd[n]] =
              CASE n = m /\ call = "start" -> On(Counted[fd[n]])
                [] n = m /\ call = "stop" -> Off(Counted[fd[n]])
                [] n = m /\ call \in {"reset", "reset_and_start"} -> Zero(Counted[fd[n]])
                [] OTHER -> Counted[fd[n]]
      BY <1>0, <1>5, <2>1, MemberStep
    <3> QED BY <3>1, <3>2, <3>3 DEF Event, On, Off, Zero
  <2>3. CASE Start
    <3>1. /\ call = "start" /\ running' = (running \/ m = EventNum)
          /\ (call' = "start" /\ k' = m + 1 /\ m < EventNum) \/ (call' = "none" /\ m = EventNum)
      BY <1>0, <2>3 DEF Start, Advance
    <3>2. \A n \in Group : running \/ n <= m => events'[fd'[n]].enabled
      BY <1>0, <2>2, <3>1 DEF Switched
    <3>3. CASE call' = "start" /\ k' = m + 1 /\ m < EventNum
      BY <1>0, <3>1, <3>2, <3>3 DEF Switched, CounterTypeOK
    <3>4. CASE call' = "none" /\ m = EventNum
      <4>1. \A n \in Group : events'[fd'[n]].enabled = TRUE
        BY <1>0, <2>2, <3>1, <3>4 DEF Switched
      <4> QED BY <3>1, <3>4, <4>1 DEF Switched, Whole, Functions
    <3> QED BY <3>1, <3>3, <3>4
  <2>4. CASE Stop
    <3>1. /\ call = "stop" /\ running = FALSE /\ running' = FALSE
          /\ (call' = "stop" /\ k' = m + 1) \/ (call' = "none" /\ m = EventNum)
      BY <1>0, <2>4 DEF Stop, Advance, Switched, CounterTypeOK
    <3>2. \A n \in Group : n <= m => events'[fd'[n]].enabled = FALSE
      BY <1>0, <2>2, <3>1 DEF Switched
    <3>3. CASE call' = "stop" /\ k' = m + 1
      BY <3>1, <3>2, <3>3 DEF Switched, Whole, Functions
    <3>4. CASE call' = "none" /\ m = EventNum
      <4>1. \A n \in Group : events'[fd'[n]].enabled = FALSE
        BY <3>2, <3>4
      <4>2. running' = FALSE
        BY <3>1
      <4>3. \A n \in Group : events'[fd'[n]].enabled = running'
        BY <4>1, <4>2, Zenon
      <4> QED BY <3>4, <4>3 DEF Switched, Whole, Functions
    <3> QED BY <3>1, <3>3, <3>4
  <2>5. CASE Reset \/ Read \/ PrintValues \/ Execute
    <3>1. running' = running /\ call \notin {"start", "stop"}
      BY <2>5 DEF Reset, Read, PrintValues, Execute
    <3>2. \A n \in Group : events'[fd'[n]].enabled = running'
      BY <1>0, <1>5, <2>2, <3>1 DEF Switched
    <3>3. call' \notin {"create", "stop"}
      BY <2>5 DEF Reset, Read, PrintValues, Execute, Advance
    <3>4. call' = "start" => k' = 1
      BY <1>0, <2>5 DEF Reset, Read, PrintValues, Execute, Advance
    <3> QED BY <3>2, <3>3, <3>4 DEF Switched
  <2> QED BY <1>5, <2>3, <2>4, <2>5
<1>6. CASE Execute /\ ~Grouped
  <2>1. call' = "none" /\ DOMAIN events' = {}
    BY <1>0, <1>6, Kept DEF Execute, Grouped
  <2> QED BY <2>1 DEF Switched, Grouped, Whole, Functions
<1>7. CASE Close
  <2>1. call' = "clean" \/ (call' = "none" /\ DOMAIN events' = {})
    BY <1>0, <1>7, LastClosed
  <2> QED BY <2>1 DEF Switched, Grouped, Whole, Functions
<1>8. Reset \/ Start \/ Stop \/ Read \/ PrintValues => call \in Whole
  BY DEF Reset, Start, Stop, Read, PrintValues, Whole, Functions
<1>9. Execute => call = "none"
  BY DEF Execute
<1> QED
  BY <1>1, <1>2, <1>3, <1>4, <1>5, <1>6, <1>7, <1>8, <1>9
  DEF CounterNext, Library, Migrate, pmuVars

-----------------------------------------------------------------------------
(* Within a call, a member that is in its bounds stays there. *)
LEMMA CallInBounds ==
  ASSUME CounterInv, Reset \/ Start \/ Stop \/ Read \/ PrintValues,
         NEW n \in Group, InBounds(events[fd[n]].count)
  PROVE  /\ UNCHANGED work
         /\ work' <= Counted[fd[n]].count /\ Counted[fd[n]].count <= work' + slack'
<1>1. LibraryWork /\ UNCHANGED work /\ call \in Whole
  BY DEF Reset, Start, Stop, Read, PrintValues, Whole, Functions
<1>2. CounterTypeOK /\ Descriptors /\ Switched
  BY DEF CounterInv
<1>3. fd[n] \in DOMAIN events
  BY <1>1, <1>2, WholeGroup DEF Holds
<1>4. events[fd[n]].enabled => Counting
  <2>1. CASE call \in {"reset", "reset_and_start", "start", "stop"}
    BY <2>1 DEF Counting
  <2>2. CASE call \notin {"reset", "reset_and_start", "start", "stop"}
    <3>1. events[fd[n]].enabled = running
      BY <1>1, <1>2, <2>2 DEF Switched
    <3> QED BY <3>1, Zenon DEF Counting
  <2> QED BY <2>1, <2>2
<1> QED BY <1>1, <1>2, <1>3, <1>4, StepInBounds

(* A unit of work outside of the library is counted by each member just    *)
(* when it is work on the target CPU and the counters were started.        *)
LEMMA WorkInBounds ==
  ASSUME CounterInv, Execute, Grouped,
         NEW n \in Group, InBounds(events[fd[n]].count)
  PROVE  InBounds(events[fd[n]].count)'
<1>1. CounterTypeOK /\ Descriptors /\ Switched /\ Members /\ Bounded
  BY DEF CounterInv
<1>2. call = "none" /\ Holds(Group) /\ 1 \in Group
  BY <1>1, WholeGroup, PmuCounterAssumption DEF Execute, Group
<1>3. /\ fd[n] \in DOMAIN events
      /\ events[fd[n]].leader = fd[1] /\ events[fd[n]].cpu = target
  BY <1>1, <1>2 DEF Members, Holds
<1>4. events[fd[n]].enabled = running /\ events[fd[1]].enabled = running
  BY <1>1, <1>2 DEF Switched, Grouped
<1>5. Counts(fd[n]) <=> running /\ OnTarget
  <2>1. target \in {cpu, AnyCpu} <=> events[fd[n]].cpu \in {cpu, AnyCpu}
    BY <1>3
  <2> QED BY <1>3, <1>4, <2>1, Zenon DEF Counts, OnTarget
<1>6. /\ fd' = fd /\ events' = Counted /\ slack' = slack
      /\ work' = IF running /\ OnTarget THEN work + 1 ELSE work
  BY DEF Execute
<1>7. /\ Counts(fd[n]) => Counted[fd[n]].count = events[fd[n]].count + 1
      /\ ~Counts(fd[n]) => Counted[fd[n]].count = events[fd[n]].count
  BY <1>1, <1>3, CountedEvents
<1>8. events[fd[n]].count \in Nat /\ work \in Nat /\ slack \in Nat
  BY <1>1, <1>3 DEF CounterTypeOK, Event
<1>9. events'[fd'[n]].count = Counted[fd[n]].count
  BY <1>6
<1>10. CASE Counts(fd[n])
  <2>1. work' = work + 1 /\ Counted[fd[n]].count = events[fd[n]].count + 1
    BY <1>5, <1>6, <1>7, <1>10
  <2> QED BY <1>6, <1>8, <1>9, <2>1 DEF InBounds
<1>11. CASE ~Counts(fd[n])
  <2>1. work' = work /\ Counted[fd[n]].count = events[fd[n]].count
    BY <1>5, <1>6, <1>7, <1>11
  <2> QED BY <1>6, <1>8, <1>9, <2>1 DEF InBounds
<1> QED BY <1>10, <1>11

(* The counts stay in their bounds. *)
LEMMA BoundedStep ==
  ASSUME CounterInv, [CounterNext]_pmuVars
  PROVE  Bounded'
<1> USE PmuCounterAssumption DEF Group
<1>0. CounterTypeOK /\ Descriptors /\ Bounded /\ k \in Group
  BY DEF CounterInv, CounterTypeOK
<1>1. CASE UNCHANGED library
  BY <1>0, <1>1 DEF library, counters, history, Bounded, Grouped, InBounds
<1>2. ASSUME NEW cpu_id \in Targets, CreateSixEventGroup(cpu_id) PROVE Bounded'
  <2>1. call' = "create" /\ 1 .. k' - 1 = {}
    BY <1>2 DEF CreateSixEventGroup
  <2> QED BY <2>1 DEF Bounded, Whole, Functions
<1>3. ASSUME NEW function \in Functions, Grouped, Begin(function) PROVE Bounded'
  <2>1. \A n \in Group : InBounds(events[fd[n]].count)
    BY <1>0, <1>3 DEF Begin, Bounded
  <2>2. /\ call' = function /\ 1 .. k' - 1 = {} /\ UNCHANGED <<events, fd>>
    BY <1>3 DEF Begin, counters
  <2>3. CASE function \in {"reset", "reset_and_start"}
    <3>1. work' = 0
      BY <1>3, <2>3 DEF Begin
    <3> QED BY <2>2, <2>3, <3>1 DEF Bounded, Whole, Functions
  <2>4. CASE function \notin {"reset", "reset_and_start"}
    <3>1. UNCHANGED <<work, slack>>
      BY <1>3, <2>4 DEF Begin
    <3>2. \A n \in Group : InBounds(events[fd[n]].count)'
      BY <2>1, <2>2, <3>1 DEF InBounds
    <3> QED BY <2>2, <2>4, <3>2 DEF Bounded, Functions
  <2> QED BY <2>3, <2>4
<1>4. CASE PerfEventOpen
  <2>1. CASE call' = "exit"
    BY <2>1 DEF Bounded, Whole, Functions
  <2>2. CASE call' # "exit"
    <3> PICK m \in Group : m = k
      BY <1>0
    <3>1. /\ \A n \in Group \ {m} : fd'[n] = fd[n]
          /\ Advance("none")
          /\ events'[fd'[m]].count = 0
          /\ \A e \in DOMAIN events : events'[e] = Counted[e]
      BY <1>0, <1>4, <2>2, Opened
    <3>2. call = "create" /\ Holds(1 .. m - 1) /\ LibraryWork /\ UNCHANGED work
      BY <1>0, <1>4 DEF PerfEventOpen, Descriptors
    <3>3. work = 0 /\ \A n \in 1 .. m - 1 : ~events[fd[n]].enabled
      BY <1>0, <3>2 DEF CounterInv, Switched
    <3>4. slack' \in Nat
      BY <1>0, <3>2 DEF LibraryWork, CounterTypeOK
    <3>5. \A n \in 1 .. m : n = m \/ n \in 1 .. m - 1
      OBVIOUS
    <3>6. ASSUME NEW n \in 1 .. m - 1
          PROVE  work' <= events'[fd'[n]].count /\ events'[fd'[n]].count <= work' + slack'
      <4>1. n \in Group \ {m}
        OBVIOUS
      <4>2. fd'[n] = fd[n] /\ fd[n] \in DOMAIN events
        BY <3>1, <3>2, <4>1 DEF Holds
      <4>3. InBounds(events[fd[n]].count)
        BY <1>0, <3>2 DEF Bounded
      <4>4. events'[fd'[n]] = Counted[fd[n]]
        BY <3>1, <4>2
      <4> QED BY <1>0, <3>2, <3>3, <4>2, <4>3, <4>4, StepInBounds
    <3>7. \A n \in 1 .. m : InBounds(events[fd[n]].count)'
      BY <3>1, <3>2, <3>3, <3>4, <3>5, <3>6 DEF InBounds
    <3>8. CASE m < EventNum
      <4>1. call' = "create" /\ 1 .. k' - 1 = 1 .. m
        BY <1>0, <3>1, <3>2, <3>8 DEF Advance
      <4> QED BY <3>7, <4>1 DEF Bounded, Whole, Functions
    <3>9. CASE ~(m < EventNum)
      <4>1. call' = "none" /\ Group = 1 .. m
        BY <3>1, <3>9 DEF Advance
      <4> QED BY <3>7, <4>1 DEF Bounded, Whole, Functions
    <3> QED BY <3>8, <3>9
  <2> QED BY <2>1, <2>2
<1>5. CASE Reset
  <2> PICK m \in Group : m = k
    BY <1>0
  <2>1. /\ call \in {"reset", "reset_and_start"} /\ LibraryWork /\ UNCHANGED work
        /\ (call' = call /\ k' = m + 1) \/ (call' \in {"none", "start"} /\ m = EventNum)
    BY <1>0, <1>5 DEF Reset, Advance
  <2>2. Holds(Group)
    BY <1>0, <2>1, WholeGroup DEF Whole, Functions
  <2>3. work = 0 /\ slack' \in Nat /\ \A n \in 1 .. m - 1 : InBounds(events[fd[n]].count)
    BY <1>0, <2>1 DEF Bounded, LibraryWork, CounterTypeOK
  <2>4. InBounds(events[fd[m]].count)'
    <3>1. fd[m] \in DOMAIN events /\ fd' = fd /\ events'[fd[m]] = Zero(Counted[fd[m]])
      BY <1>0, <1>5, <2>1, <2>2, MemberStep
    <3>2. Counted[fd[m]] \in Event
      BY <1>0, <3>1, CountedEvents
    <3>3. events'[fd'[m]].count = 0
      BY <3>1, <3>2 DEF Zero, Event
    <3>4. work' = 0 /\ slack' \in Nat
      BY <2>1, <2>3
    <3>5. work' <= events'[fd'[m]].count /\ events'[fd'[m]].count <= work' + slack'
      BY <3>3, <3>4
    <3> QED BY <3>5 DEF InBounds
  <2>5. ASSUME NEW n \in 1 .. m - 1 PROVE InBounds(events[fd[n]].count)'
    <3>1. n \in Group /\ n # m
      OBVIOUS
    <3>2. fd' = fd /\ events'[fd[n]] = Counted[fd[n]]
      BY <1>0, <1>5, <2>1, <2>2, <3>1, MemberStep
    <3> QED BY <1>5, <2>3, <3>1, <3>2, CallInBounds DEF InBounds
  <2>6. \A n \in 1 .. m : n = m \/ n \in 1 .. m - 1
    OBVIOUS
  <2>7. \A n \in 1 .. m : InBounds(events[fd[n]].count)'
    BY <2>4, <2>5, <2>6
  <2>8. CASE call' = call /\ k' = m + 1
    <3>1. 1 .. k' - 1 = 1 .. m
      BY <2>8
    <3> QED BY <2>1, <2>3, <2>7, <2>8, <3>1 DEF Bounded
  <2>9. CASE call' \in {"none", "start"} /\ m = EventNum
    BY <2>7, <2>9 DEF Bounded
  <2> QED BY <2>1, <2>8, <2>9
<1>6. CASE Start \/ Stop \/ Read \/ PrintValues
  <2>1. call \in Whole \ {"reset", "reset_and_start"}
    BY <1>6 DEF Start, Stop, Read, PrintValues, Whole, Functions
  <2>2. Holds(Group) /\ \A n \in Group : InBounds(events[fd[n]].count)
    BY <1>0, <2>1, WholeGroup DEF Bounded
  <2>3. ASSUME NEW n \in Group PROVE InBounds(events[fd[n]].count)'
    <3>1. /\ fd[n] \in DOMAIN events /\ fd' = fd
          /\ events'[fd[n]] =
              CASE n = k /\ call = "start" -> On(Counted[fd[n]])
                [] n = k /\ call = "stop" -> Off(Counted[fd[n]])
                [] n = k /\ call \in {"reset", "reset_and_start"} -> Zero(Counted[fd[n]])
                [] OTHER -> Counted[fd[n]]
      BY <1>0, <1>6, <2>2, MemberStep
    <3>2. Counted[fd[n]] \in Event
      BY <1>0, <3>1, CountedEvents
    <3>3. events'[fd'[n]].count = Counted[fd[n]].count
      BY <2>1, <3>1, <3>2 DEF On, Off, Event
    <3>4. work' <= Counted[fd[n]].count /\ Counted[fd[n]].count <= work' + slack'
      BY <1>6, <2>2, CallInBounds
    <3> QED BY <3>3, <3>4 DEF InBounds
  <2>4. call' \notin {"create", "reset", "reset_and_start"}
    BY <1>6 DEF Start, Stop, Read, PrintValues, Advance
  <2> QED BY <2>3, <2>4 DEF Bounded
<1>7. CASE Execute
  <2>1. call = "none" /\ call' = "none"
    BY <1>7 DEF Execute
  <2>2. CASE Grouped
    <3>1. \A n \in Group : InBounds(events[fd[n]].count)
      BY <1>0, <2>1, <2>2 DEF Bounded
    <3>2. \A n \in Group : InBounds(events[fd[n]].count)'
      BY <1>7, <2>2, <3>1, WorkInBounds
    <3> QED BY <2>1, <3>2 DEF Bounded, Whole, Functions
  <2>3. CASE ~Grouped
    <3>1. DOMAIN events' = {}
      BY <1>0, <1>7, <2>3, Kept DEF Grouped
    <3> QED BY <2>1, <3>1 DEF Bounded, Grouped, Whole, Functions
  <2> QED BY <2>2, <2>3
<1>8. CASE Close
  <2>1. call' = "clean" \/ (call' = "none" /\ DOMAIN events' = {})
    BY <1>0, <1>8, LastClosed
  <2> QED BY <2>1 DEF Bounded, Grouped, Whole, Functions
<1> QED
  BY <1>1, <1>2, <1>3, <1>4, <1>5, <1>6, <1>7, <1>8
  DEF CounterNext, Library, Migrate, pmuVars

(* What was read is in the bounds, and stays there until it is printed. *)
LEMMA ReadSoFarStep ==
  ASSUME CounterInv, [CounterNext]_pmuVars
  PROVE  ReadSoFar'
<1> USE PmuCounterAssumption DEF Group
<1>0. CounterTypeOK /\ Descriptors /\ ReadSoFar /\ k \in Group
  BY DEF CounterInv, CounterTypeOK
<1>1. CASE UNCHANGED library
  BY <1>0, <1>1 DEF library, locals, history, ReadSoFar, InBounds
<1>2. ASSUME NEW cpu_id \in Targets, CreateSixEventGroup(cpu_id) PROVE ReadSoFar'
  BY <1>2 DEF CreateSixEventGroup, ReadSoFar
<1>3. ASSUME NEW function \in Functions, Begin(function) PROVE ReadSoFar'
  <2>1. call' = function /\ k' = 1
    BY <1>3 DEF Begin
  <2>2. CASE function \in {"export", "export_and_clean"}
    <3>1. \A n \in Group : val'[n] = 0 /\ ret'[n] /\ ~(n < k')
      BY <1>3, <2>1, <2>2 DEF Begin, NoValues
    <3> QED BY <2>1, <2>2, <3>1 DEF ReadSoFar
  <2>3. CASE function \notin {"export", "export_and_clean"}
    BY <2>1, <2>3 DEF ReadSoFar, Functions
  <2> QED BY <2>2, <2>3
<1>4. CASE Read
  <2> PICK m \in Group : m = k
    BY <1>0
  <2>1. call \in {"export", "export_and_clean"} /\ LibraryWork
    BY <1>4 DEF Read
  <2>2. InBounds(events[fd[m]].count)
    BY <1>0, <2>1 DEF CounterInv, Bounded, Whole, Functions
  <2>3. /\ work' = work
        /\ work' <= Counted[fd[m]].count /\ Counted[fd[m]].count <= work' + slack'
    BY <1>4, <2>2, CallInBounds
  <2>4. slack' >= slack /\ slack \in Nat /\ slack' \in Nat /\ work \in Nat
    BY <1>0, <2>1 DEF LibraryWork, CounterTypeOK
  <2>5. ASSUME NEW n \in Group \ {m}
        PROVE  /\ IF n < m /\ ret'[n] THEN InBounds(val[n])' ELSE val'[n] = 0
               /\ n >= m => ret'[n]
    <3>1. val'[n] = val[n] /\ ret'[n] = ret[n] /\ val[n] \in Nat
      BY <1>0, <1>4 DEF Read, CounterTypeOK
    <3>2. /\ IF n < m /\ ret[n] THEN InBounds(val[n]) ELSE val[n] = 0
          /\ n >= m => ret[n]
      BY <1>0, <2>1 DEF ReadSoFar
    <3> QED BY <2>3, <2>4, <3>1, <3>2 DEF InBounds
  <2>6. IF ret'[m] THEN InBounds(val[m])' ELSE val'[m] = 0
    <3>1. ret[m] /\ val[m] = 0
      BY <1>0, <2>1 DEF ReadSoFar
    <3>2. CASE val' = [val EXCEPT ![k] = Counted[fd[k]].count] /\ UNCHANGED ret
      <4>1. val'[m] = Counted[fd[m]].count /\ ret'[m]
        BY <1>0, <3>1, <3>2 DEF CounterTypeOK
      <4> QED BY <2>3, <4>1 DEF InBounds
    <3>3. CASE ret' = [ret EXCEPT ![k] = FALSE] /\ UNCHANGED val
      BY <1>0, <3>1, <3>3 DEF CounterTypeOK
    <3> QED BY <1>4, <3>2, <3>3 DEF Read
  <2>7. CASE call' = call /\ k' = m + 1
    <3>1. ASSUME NEW n \in Group
          PROVE  /\ IF n < k' /\ ret'[n] THEN InBounds(val[n])' ELSE val'[n] = 0
                 /\ n >= k' => ret'[n]
      BY <2>5, <2>6, <2>7
    <3> QED BY <2>1, <2>7, <3>1 DEF ReadSoFar
  <2>8. CASE call' \in {"print", "print_and_clean"} /\ m = EventNum
    <3>1. ASSUME NEW n \in Group
          PROVE  IF ret'[n] THEN InBounds(val[n])' ELSE val'[n] = 0
      BY <2>5, <2>6, <2>8
    <3> QED BY <2>8, <3>1 DEF ReadSoFar
  <2> QED BY <1>0, <1>4, <2>7, <2>8 DEF Read, Advance
<1>5. CASE PerfEventOpen \/ Reset \/ Start \/ Stop \/ PrintValues \/ Close \/ Execute
  <2>1. call' \notin {"export", "export_and_clean", "print", "print_and_clean"}
    BY <1>5 DEF PerfEventOpen, Reset, Start, Stop, PrintValues, Close, Execute, Advance
  <2> QED BY <2>1 DEF ReadSoFar
<1> QED
  BY <1>1, <1>2, <1>3, <1>4, <1>5 DEF CounterNext, Library, Migrate, pmuVars

-----------------------------------------------------------------------------
LEMMA CounterInvInit == CounterInit => CounterInv
<1> SUFFICES ASSUME CounterInit PROVE CounterInv
  OBVIOUS
<1> USE PmuCounterAssumption DEF CounterInit, Group
<1>1. CounterTypeOK
  <2>1. DOMAIN events = {} /\ events \in [DOMAIN events -> Event]
    OBVIOUS
  <2>2. fd \in [Group -> Fds \cup {0}] /\ val \in [Group -> Nat] /\ ret \in [Group -> BOOLEAN]
    BY DEF NoValues
  <2>3. /\ target \in Targets \cup {AnyCpu} /\ call \in Calls /\ k \in Group
        /\ cpu \in Cpus /\ work \in Nat /\ slack \in Nat
    BY DEF Calls
  <2>4. running \in BOOLEAN
    OBVIOUS
  <2> HIDE DEF CounterInit
  <2> QED BY <2>1, <2>2, <2>3, <2>4 DEF CounterTypeOK
<1>2. Descriptors
  BY DEF Descriptors, Holds, Whole, Functions
<1>3. Members
  BY DEF Members
<1>4. Switched /\ Bounded /\ ReadSoFar
  BY DEF Switched, Bounded, ReadSoFar, Grouped, Whole, Functions
<1> QED BY <1>1, <1>2, <1>3, <1>4 DEF CounterInv

LEMMA CounterInvStep == CounterInv /\ [CounterNext]_pmuVars => CounterInv'
BY TypeStep, DescriptorsStep, MembersStep, SwitchedStep, BoundedStep, ReadSoFarStep
DEF CounterInv

LEMMA CounterInvAlways == CounterSpec => []CounterInv
BY CounterInvInit, CounterInvStep, PTL DEF CounterSpec

(* No program that uses the library as its README asks (README.md: create, *)
(* start, stop, reset, export, clean) loses a descriptor of a group.       *)
THEOREM NoDescriptorIsLostAlways == CounterSpec => []NoDescriptorIsLost
<1>1. CounterInv => NoDescriptorIsLost
  <2> SUFFICES ASSUME CounterInv PROVE NoDescriptorIsLost
    OBVIOUS
  <2> USE PmuCounterAssumption DEF Group
  <2>1. CounterTypeOK /\ Descriptors /\ k \in Group
    BY DEF CounterInv, CounterTypeOK
  <2>2. 1 .. k - 1 \subseteq Group /\ k .. EventNum \subseteq Group
    BY <2>1
  <2>3. DOMAIN events \subseteq {fd[n] : n \in Group}
    BY <2>1, <2>2 DEF Descriptors, Holds, CounterTypeOK, Calls, Whole
  <2>4. call = "none" /\ Grouped => Holds(Group)
    BY <2>1, WholeGroup
  <2> QED BY <2>3, <2>4 DEF NoDescriptorIsLost, Holds
<1> QED BY <1>1, CounterInvAlways, PTL

(* What is exported is the work on the target CPU, for any number of       *)
(* events, and any order of the calls the README allows.                   *)
THEOREM CountsAreOfTheWorkAlways == CounterSpec => []CountsAreOfTheWork
<1>1. CounterInv => CountsAreOfTheWork
  <2> SUFFICES ASSUME CounterInv, call \in {"print", "print_and_clean"}, NEW n \in Group
               PROVE  IF ret[n] THEN val[n] \in work .. work + slack ELSE val[n] = 0
    BY DEF CountsAreOfTheWork
  <2>1. val[n] \in Nat /\ work \in Nat /\ slack \in Nat
    BY DEF CounterInv, CounterTypeOK
  <2> QED BY <2>1 DEF CounterInv, ReadSoFar, InBounds
<1> QED BY <1>1, CounterInvAlways, PTL

-----------------------------------------------------------------------------
(* The programs *)

(* The calls that run while main() is at the next group, and in loads(). *)
MainCalls == {"none", "export_and_clean", "print_and_clean", "clean", "exit"}

LoadsCalls == {"none", "create", "reset_and_start", "start", "stop", "exit"}

WithGroup == {"loads", "start", "walk", "free", "export"}

(* A group is there from its creation to its export, and only then. *)
InTurn ==
  /\ program \in {"sim", "pmu", "user"}
  /\ program = "user" => pc = "user"
  /\ program = "sim" => call = "none" /\ ~Grouped
  /\ program = "pmu" /\ pc \in {"args", "affinity", "cgroup"} => call = "none" /\ ~Grouped
  /\ program = "pmu" /\ pc = "main" =>
       call \in MainCalls /\ (call = "none" => ~Grouped)
  /\ program = "pmu" /\ pc \in WithGroup =>
       call \in LoadsCalls /\ (call = "none" => Grouped)
  /\ program = "pmu" /\ pc \notin WithGroup \cup {"args", "affinity", "cgroup", "main"} =>
       call = "none"

Placed == allowed \subseteq Cpus /\ target_cpu \in Targets /\ list \in CpuLists

SimLatInv == InTurn /\ Placed

-----------------------------------------------------------------------------
LEMMA SimLatInit == Init => CounterInit /\ SimLatInv
<1> SUFFICES ASSUME Init PROVE CounterInit /\ SimLatInv
  OBVIOUS
<1>1. CounterInit
  BY DEF Init
<1>2. call = "none" /\ ~Grouped
  BY <1>1 DEF CounterInit, Grouped
<1>3. Placed
  BY SimLatAssumption DEF Init, Placed
<1>4. program \in {"sim", "pmu", "user"} /\ pc = (IF program = "user" THEN "user" ELSE "args")
  BY DEF Init
<1>5. InTurn
  BY <1>2, <1>4 DEF InTurn, WithGroup
<1> QED BY <1>1, <1>3, <1>5 DEF SimLatInv

(* The CPU the counters are told is one a program may name. *)
LEMMA PlacedStep ==
  ASSUME SimLatInv, [Next]_vars
  PROVE  Placed'
<1> USE DEF SimLatInv, Placed
<1>1. CASE UNCHANGED <<place, list>>
  BY <1>1 DEF place
<1>2. CASE CheckArgs
  <2>1. TargetCpus \subseteq Targets
    <3>1. list # <<>> => list[1].first \in Targets
      <4> DEFINE Operands == [first : Targets, cpus : SUBSET Targets]
      <4>1. list \in Seq(Operands)
        BY SimLatAssumption
      <4>2. \A element \in Operands : element.first \in Targets
        OBVIOUS
      <4> HIDE DEF Operands
      <4>3. list # <<>> => list[1] \in Operands
        BY <4>1
      <4> QED BY <4>2, <4>3
    <3> QED BY <3>1, SimLatAssumption DEF TargetCpus
  <2> QED BY <1>2, <2>1 DEF CheckArgs
<1>3. CASE SetAffinity
  BY <1>3 DEF SetAffinity, args
<1>4. CASE CgTaskset
  <2>1. UNCHANGED <<list, target_cpu>>
    BY <1>4 DEF CgTaskset, args
  <2>2. allowed' \subseteq Cpus
    BY <1>4 DEF CgTaskset
  <2> QED BY <2>1, <2>2
<1>5. CASE StepLoop \/ NextSize \/ OneShot \/ NextGroup \/ Export \/ LastGroup
  BY <1>1, <1>5 DEF StepLoop, NextSize, OneShot, NextGroup, Export, LastGroup, args
<1>6. CASE loads
  BY <1>1, <1>6
  DEF loads, SmallSize, StrideInitialize, WildRead, WarmUp, MeasureSample,
      StartWalk, Access, StopWalk, Free, args
<1>7. CASE LibraryStep \/ Move \/ UserProgram
  BY <1>1, <1>7 DEF LibraryStep, Move, UserProgram, args
<1>8. CASE UNCHANGED vars
  BY <1>1, <1>8 DEF vars, args
<1> QED
  BY <1>2, <1>3, <1>4, <1>5, <1>6, <1>7, <1>8 DEF Next, main, Terminated

(* Every step of the program is one the library's README allows. *)
LEMMA ProtocolStep ==
  ASSUME SimLatInv, [Next]_vars
  PROVE  [CounterNext]_pmuVars
<1>1. CASE UNCHANGED pmuVars
  BY <1>1
<1>2. CASE CheckArgs \/ StepLoop \/ NextSize \/ OneShot \/ LastGroup
  BY <1>2 DEF CheckArgs, StepLoop, NextSize, OneShot, LastGroup
<1>3. CASE SetAffinity \/ CgTaskset
  <2>1. UNCHANGED library /\ (UNCHANGED cpu \/ cpu' \in Cpus)
    BY <1>3 DEF SetAffinity, CgTaskset
  <2> QED BY <2>1 DEF CounterNext, Migrate, pmuVars
<1>4. CASE NextGroup
  <2>1. ~Grouped /\ target_cpu \in Targets
    BY <1>4 DEF NextGroup, PmuAt, At, SimLatInv, InTurn, Placed
  <2> QED BY <1>4, <2>1 DEF NextGroup, CounterNext
<1>5. CASE Export
  <2>1. Grouped
    BY <1>5 DEF Export, PmuAt, At, SimLatInv, InTurn, WithGroup
  <2> QED BY <1>5, <2>1 DEF Export, CounterNext, Functions
<1>6. CASE SmallSize \/ WildRead \/ WarmUp \/ MeasureSample
  BY <1>6 DEF SmallSize, WildRead, WarmUp, MeasureSample
<1>7. CASE StrideInitialize \/ Access \/ Free
  BY <1>7 DEF StrideInitialize, Access, Free, CounterNext
<1>8. CASE StartWalk \/ StopWalk
  <2>1. Grouped
    BY <1>8 DEF StartWalk, StopWalk, PmuAt, At, SimLatInv, InTurn, WithGroup
  <2> QED BY <1>8, <2>1 DEF StartWalk, StopWalk, CounterNext, Functions
<1>9. CASE LibraryStep
  BY <1>9 DEF LibraryStep, CounterNext
<1>10. CASE Move
  BY <1>10 DEF Move, Migrate, CounterNext, SimLatInv, Placed
<1>11. CASE UserProgram
  BY <1>11 DEF UserProgram, CounterNext
<1>12. CASE UNCHANGED vars
  BY <1>12 DEF vars
<1> QED
  BY <1>2, <1>3, <1>4, <1>5, <1>6, <1>7, <1>8, <1>9, <1>10, <1>11, <1>12
  DEF Next, main, loads, Terminated

(* A group is there when the library returns to loads(), and none when it  *)
(* returns to main().                                                      *)
LEMMA LibraryInTurn ==
  ASSUME SimLatInv, CounterInv, LibraryStep
  PROVE  InTurn'
<1> USE DEF SimLatInv
<1>0. /\ CounterTypeOK /\ Descriptors /\ k \in Group
      /\ UNCHANGED <<program, pc>> /\ call # "none"
  BY DEF CounterInv, CounterTypeOK, LibraryStep, args,
         Library, PerfEventOpen, Reset, Start, Stop, Read, PrintValues, Close
<1>1. CASE program = "user"
  BY <1>0, <1>1 DEF InTurn
<1>2. CASE program = "pmu" /\ pc = "main"
  <2>1. call \in {"export_and_clean", "print_and_clean", "clean"}
    BY <1>0, <1>2
    DEF InTurn, MainCalls, LibraryStep, Library,
        PerfEventOpen, Reset, Start, Stop, Read, PrintValues, Close
  <2>2. Read \/ PrintValues \/ Close
    BY <2>1 DEF LibraryStep, Library, PerfEventOpen, Reset, Start, Stop
  <2>3. CASE Read \/ PrintValues
    <3>1. call' \in {"export_and_clean", "print_and_clean", "clean"}
      BY <2>1, <2>3 DEF Read, PrintValues, Advance
    <3> QED BY <1>0, <1>2, <3>1 DEF InTurn, MainCalls, WithGroup
  <2>4. CASE Close
    <3>1. call' = "clean" \/ (call' = "none" /\ ~Grouped')
      BY <1>0, <2>4, LastClosed DEF Grouped
    <3> QED BY <1>0, <1>2, <3>1 DEF InTurn, MainCalls, WithGroup
  <2> QED BY <2>2, <2>3, <2>4
<1>3. CASE program = "pmu" /\ pc \in WithGroup
  <2>1. call \in {"create", "reset_and_start", "start", "stop"}
    BY <1>0, <1>3
    DEF InTurn, LoadsCalls, LibraryStep, Library,
        PerfEventOpen, Reset, Start, Stop, Read, PrintValues, Close
  <2>2. call' \in LoadsCalls
    BY <2>1
    DEF LoadsCalls, LibraryStep, Library, Advance,
        PerfEventOpen, Reset, Start, Stop, Read, PrintValues, Close
  <2>3. call' = "none" => Grouped'
    <3>1. CASE PerfEventOpen
      BY <1>0, <3>1, Opened DEF Grouped
    <3>2. CASE Reset \/ Start \/ Stop
      <4>1. Holds(Group) /\ DOMAIN events' = DOMAIN events
        BY <1>0, <3>2, Kept, WholeGroup DEF Reset, Start, Stop, Whole, Functions
      <4> QED BY <1>0, <4>1 DEF Holds, Grouped
    <3> QED
      BY <2>1, <3>1, <3>2 DEF LibraryStep, Library, Read, PrintValues, Close
  <2> QED BY <1>0, <1>3, <2>2, <2>3 DEF InTurn, WithGroup
<1> QED BY <1>0, <1>1, <1>2, <1>3 DEF InTurn

LEMMA InTurnStep ==
  ASSUME SimLatInv, CounterInv, [Next]_vars
  PROVE  InTurn'
<1> USE DEF SimLatInv
<1>1. ASSUME UNCHANGED <<program, pc, call, events>> PROVE InTurn'
  BY <1>1 DEF InTurn, Grouped
<1>2. CASE CheckArgs \/ SetAffinity \/ CgTaskset
  <2>1. /\ pc \in {"args", "affinity", "cgroup"} /\ call = "none"
        /\ pc' \in {"affinity", "cgroup", "main", "exit"}
        /\ UNCHANGED <<program, call, events>>
    BY <1>2
    DEF CheckArgs, SetAffinity, CgTaskset, At, Goto, args, pmuVars, library, counters
  <2>2. program \in {"sim", "pmu"} /\ ~Grouped
    BY <2>1 DEF InTurn
  <2> QED BY <2>1, <2>2 DEF InTurn, WithGroup, Grouped, MainCalls
<1>3. CASE StepLoop \/ NextSize \/ OneShot \/ WarmUp \/ MeasureSample
  <2>1. program = "sim" /\ UNCHANGED <<program, call, events>>
    BY <1>3
    DEF StepLoop, NextSize, OneShot, WarmUp, MeasureSample, SimAt, At, args,
        pmuVars, library, counters
  <2> QED BY <2>1 DEF InTurn, Grouped
<1>4. CASE NextGroup
  <2>1. program = "pmu" /\ UNCHANGED program /\ pc' = "loads" /\ call' = "create"
    BY <1>4 DEF NextGroup, PmuAt, At, Goto, CreateSixEventGroup, args
  <2> QED BY <2>1 DEF InTurn, WithGroup, LoadsCalls
<1>5. CASE Export
  <2>1. program = "pmu" /\ UNCHANGED program /\ pc' = "main" /\ call' = "export_and_clean"
    BY <1>5 DEF Export, PmuAt, At, Goto, Begin, args
  <2> QED BY <2>1 DEF InTurn, WithGroup, MainCalls
<1>6. CASE LastGroup
  <2>1. program = "pmu" /\ UNCHANGED <<program, call>> /\ pc' = "end" /\ call = "none"
    BY <1>6 DEF LastGroup, PmuAt, At, Goto, pmuVars, library, args
  <2> QED BY <2>1 DEF InTurn, WithGroup
<1>7. CASE SmallSize \/ WildRead
  <2>1. /\ pc \in {"loads", "warm", "walk"} /\ call = "none"
        /\ UNCHANGED <<program, call, events>>
        /\ pc' = "crash" \/ pc' = Back
    BY <1>7 DEF SmallSize, WildRead, At, Goto, args, pmuVars, library, counters
  <2>2. CASE program = "pmu"
    <3>1. pc' = "crash" \/ (pc' = "export" /\ pc = "loads")
      BY <1>7, <2>2 DEF SmallSize, WildRead, At, Goto, Back
    <3> QED BY <2>1, <2>2, <3>1 DEF InTurn, WithGroup, Grouped, LoadsCalls
  <2>3. CASE program # "pmu"
    BY <2>1, <2>3 DEF InTurn, Grouped
  <2> QED BY <2>2, <2>3
<1>8. CASE StrideInitialize \/ Access \/ Free
  <2>1. /\ pc \in {"loads", "walk", "free"} /\ call = "none" /\ call' = "none"
        /\ UNCHANGED program /\ Execute
    BY <1>8 DEF StrideInitialize, Access, Free, At, PmuAt, Execute, args
  <2>2. Grouped' = Grouped
    BY <2>1, Kept DEF CounterInv, Grouped
  <2>3. CASE program = "pmu"
    <3>1. pc' \in {"exit", "crash", "start", "walk", "export"}
      BY <1>8, <2>1, <2>3 DEF StrideInitialize, Access, Free, Goto, PmuAt, At
    <3>2. Grouped
      BY <2>1, <2>3 DEF InTurn, WithGroup
    <3> QED BY <2>1, <2>2, <2>3, <3>1, <3>2 DEF InTurn, WithGroup, LoadsCalls
  <2>4. CASE program # "pmu"
    BY <2>1, <2>2, <2>4 DEF InTurn
  <2> QED BY <2>3, <2>4
<1>9. CASE StartWalk \/ StopWalk
  <2>1. /\ program = "pmu" /\ UNCHANGED program /\ pc' \in {"walk", "free"}
        /\ call' \in {"reset_and_start", "stop"}
    BY <1>9 DEF StartWalk, StopWalk, PmuAt, At, Goto, Begin, args
  <2> QED BY <2>1 DEF InTurn, WithGroup, LoadsCalls
<1>10. CASE LibraryStep
  BY <1>10, LibraryInTurn
<1>11. CASE Move
  BY <1>1, <1>11 DEF Move, Migrate, library, counters, args
<1>12. CASE UserProgram
  BY <1>12 DEF UserProgram, InTurn, args
<1>13. CASE UNCHANGED vars
  BY <1>1, <1>13 DEF vars, args, pmuVars, library, counters
<1> QED
  BY <1>2, <1>3, <1>4, <1>5, <1>6, <1>7, <1>8, <1>9, <1>10, <1>11, <1>12, <1>13
  DEF Next, main, loads, Terminated

LEMMA SimLatInvAlways == Spec => [](SimLatInv /\ CounterInv)
<1>1. Init => SimLatInv /\ CounterInv
  BY SimLatInit, CounterInvInit
<1>2. SimLatInv /\ CounterInv /\ [Next]_vars => (SimLatInv /\ CounterInv)'
  BY PlacedStep, InTurnStep, ProtocolStep, CounterInvStep DEF SimLatInv
<1> QED BY <1>1, <1>2, PTL DEF Spec

(* pmu-sim-lat_mem_rd is a program the library's README allows, for every  *)
(* number of groups and of events, and whatever fails on its way.          *)
THEOREM ProgramsKeepTheProtocol == Spec => KeepsTheProtocol
<1>1. Init => CounterInit
  BY SimLatInit
<1>2. SimLatInv /\ [Next]_vars => [CounterNext]_pmuVars
  BY ProtocolStep
<1> QED BY <1>1, <1>2, SimLatInvAlways, PTL DEF Spec, CounterSpec, KeepsTheProtocol

(* So its 19 groups lose no descriptor, and export what the walk did. *)
THEOREM ProgramsCountTheirWork == Spec => [](NoDescriptorIsLost /\ CountsAreOfTheWork)
BY ProgramsKeepTheProtocol, NoDescriptorIsLostAlways, CountsAreOfTheWorkAlways, PTL
DEF KeepsTheProtocol

-----------------------------------------------------------------------------
(* Powers of two *)

(* A set of numbers that has 0 and the successor of each has them all. *)
LEMMA Induction ==
  ASSUME NEW T \in SUBSET Nat, 0 \in T, \A n \in T : n + 1 \in T
  PROVE  T = Nat
<1> DEFINE Left == Nat \ T
<1> SUFFICES ASSUME Left # {} PROVE FALSE
  OBVIOUS
<1>1. PICK x \in Left : \A y \in Left : ~(<<y, x>> \in OpToRel(<, Nat))
  BY NatLessThanWellFounded, WFMin
<1>2. x \in Nat \ {0} /\ x - 1 \in Nat
  OBVIOUS
<1>3. x - 1 \notin T
  BY <1>2
<1>4. <<x - 1, x>> \in OpToRel(<, Nat)
  BY <1>2 DEF OpToRel
<1> QED BY <1>1, <1>2, <1>3, <1>4

Exps == 0 .. kBufferSizePow2High

(* The equation that defines Shift has a solution. *)
LEMMA ShiftEquation ==
  Shift = [n \in Exps |-> IF n = 0 THEN 1 ELSE 2 * Shift[n - 1]]
<1> DEFINE Solves(f, m) == f = [n \in 0 .. m |-> IF n = 0 THEN 1 ELSE 2 * f[n - 1]]
           T == {m \in Nat : \E f : Solves(f, m)}
<1>1. 0 \in T
  <2> DEFINE f == [n \in 0 .. 0 |-> 1]
  <2>1. f = [n \in 0 .. 0 |-> IF n = 0 THEN 1 ELSE 2 * f[n - 1]]
    OBVIOUS
  <2> QED BY <2>1
<1>2. ASSUME NEW m \in T PROVE m + 1 \in T
  <2>1. PICK f : Solves(f, m)
    OBVIOUS
  <2> DEFINE g == [n \in 0 .. m + 1 |-> IF n = 0 THEN 1 ELSE 2 * f[n - 1]]
  <2>2. m \in Nat
    OBVIOUS
  <2>3. \A n \in 0 .. m : g[n] = f[n]
    BY <2>1, <2>2
  <2>4. \A n \in 0 .. m + 1 : n # 0 => n - 1 \in 0 .. m
    BY <2>2
  <2>5. \A n \in 0 .. m + 1 :
          (IF n = 0 THEN 1 ELSE 2 * f[n - 1]) = (IF n = 0 THEN 1 ELSE 2 * g[n - 1])
    BY <2>3, <2>4
  <2>6. Solves(g, m + 1)
    BY <2>5
  <2> HIDE DEF Solves, g
  <2>7. \E h : Solves(h, m + 1)
    BY <2>6
  <2> QED BY <2>2, <2>7
<1>3. T = Nat
  <2>1. T \in SUBSET Nat
    OBVIOUS
  <2> HIDE DEF T
  <2> QED BY <1>1, <1>2, <2>1, Induction
<1>4. kBufferSizePow2High \in T
  <2>1. kBufferSizePow2High \in Nat
    BY SimLatAssumption
  <2> HIDE DEF T
  <2> QED BY <1>3, <2>1
<1> QED BY <1>4 DEF Shift, Exps

LEMMA ShiftStep ==
  /\ Shift[0] = 1
  /\ \A n \in Exps : n # 0 => Shift[n] = 2 * Shift[n - 1]
<1>1. 0 \in Exps
  BY SimLatAssumption DEF Exps
<1> DEFINE F == Shift
<1>2. F = [n \in Exps |-> IF n = 0 THEN 1 ELSE 2 * F[n - 1]]
  BY ShiftEquation
<1> HIDE DEF F
<1>3. F[0] = 1 /\ \A n \in Exps : n # 0 => F[n] = 2 * F[n - 1]
  BY <1>1, <1>2
<1> QED BY <1>3 DEF F

LEMMA ShiftType == \A n \in Exps : Shift[n] \in Nat \ {0}
<1> DEFINE T == {n \in Nat : n \in Exps => Shift[n] \in Nat \ {0}}
<1>1. 0 \in T
  BY ShiftStep
<1>2. ASSUME NEW n \in T PROVE n + 1 \in T
  <2>1. SUFFICES ASSUME n + 1 \in Exps PROVE Shift[n + 1] \in Nat \ {0}
    OBVIOUS
  <2>2. n \in Nat /\ n \in Exps /\ n + 1 # 0 /\ (n + 1) - 1 = n
    BY <2>1, SimLatAssumption DEF Exps
  <2>3. Shift[n] \in Nat \ {0}
    BY <2>2
  <2>4. Shift[n + 1] = 2 * Shift[n]
    <3>1. Shift[n + 1] = 2 * Shift[(n + 1) - 1]
      BY <2>1, <2>2, ShiftStep
    <3> QED BY <2>2, <3>1
  <2> QED BY <2>3, <2>4
<1>3. T = Nat
  <2>1. T \in SUBSET Nat
    OBVIOUS
  <2> HIDE DEF T
  <2> QED BY <1>1, <1>2, <2>1, Induction
<1>4. Exps \subseteq Nat
  BY SimLatAssumption DEF Exps
<1> QED BY <1>3, <1>4

(* A greater exponent at least doubles. *)
LEMMA ShiftGrows ==
  ASSUME NEW m \in Exps, NEW n \in Exps, m < n
  PROVE  2 * Shift[m] <= Shift[n]
<1> DEFINE T == {x \in Nat : x \in Exps /\ m < x => 2 * Shift[m] <= Shift[x]}
<1>1. m \in Nat /\ \A x \in Exps : x \in Nat
  BY SimLatAssumption DEF Exps
<1>2. 0 \in T
  BY <1>1
<1>3. ASSUME NEW x \in T PROVE x + 1 \in T
  <2>1. SUFFICES ASSUME x + 1 \in Exps, m < x + 1 PROVE 2 * Shift[m] <= Shift[x + 1]
    OBVIOUS
  <2>2. x \in Nat /\ x \in Exps /\ x + 1 # 0 /\ (x + 1) - 1 = x
    BY <2>1, SimLatAssumption DEF Exps
  <2>3. Shift[x + 1] = 2 * Shift[x]
    <3>1. Shift[x + 1] = 2 * Shift[(x + 1) - 1]
      BY <2>1, <2>2, ShiftStep
    <3> QED BY <2>2, <3>1
  <2>4. Shift[x] \in Nat /\ Shift[m] \in Nat
    BY <2>2, ShiftType
  <2>5. m = x \/ 2 * Shift[m] <= Shift[x]
    BY <1>1, <2>1, <2>2
  <2> QED BY <2>3, <2>4, <2>5
<1>4. T = Nat
  <2>1. T \in SUBSET Nat
    OBVIOUS
  <2> HIDE DEF T
  <2> QED BY <1>2, <1>3, <2>1, Induction
<1> QED BY <1>1, <1>4

-----------------------------------------------------------------------------
(* Multiples of the stride *)

LEMMA DivMod ==
  ASSUME NEW d \in Nat \ {0}, NEW a \in Nat
  PROVE  /\ a \div d \in Nat /\ a % d \in 0 .. d - 1
         /\ a = (a \div d) * d + (a % d)
OBVIOUS

LEMMA Quotient ==
  ASSUME NEW d \in Nat \ {0}, NEW q \in Int
  PROVE  (q * d) % d = 0 /\ (q * d) \div d = q
OBVIOUS

LEMMA Product ==
  ASSUME NEW x \in Int, NEW y \in Int, NEW d \in Nat, x <= y
  PROVE  x * d <= y * d
OBVIOUS

(* A ring has a line for each whole stride, and one for what is left. *)
LEMMA Lines ==
  ASSUME NEW d \in Nat \ {0}, NEW s \in Nat
  PROVE  Cardinality({n \in 0 .. s - 1 : n % d = 0}) =
           (s \div d) + (IF s % d = 0 THEN 0 ELSE 1)
<1> DEFINE W == (s \div d) + (IF s % d = 0 THEN 0 ELSE 1)
           Ring == {n \in 0 .. s - 1 : n % d = 0}
           f == [q \in 1 .. W |-> (q - 1) * d]
<1>1. W \in Nat /\ W * d >= s /\ W * d < s + d
  <2> DEFINE v == s \div d
             r == s % d
  <2>1. v \in Nat /\ r \in 0 .. d - 1 /\ s = v * d + r
    BY DivMod
  <2>2. v * d \in Nat /\ (v + 1) * d = v * d + d
    BY <2>1
  <2>3. W = IF r = 0 THEN v ELSE v + 1
    BY <2>1
  <2> HIDE DEF W, v, r
  <2> QED BY <2>1, <2>2, <2>3
<1> HIDE DEF W
<1>2. ASSUME NEW q \in 1 .. W PROVE f[q] \in Ring
  <2>1. q * d <= W * d /\ W * d \in Nat /\ q \in Nat
    BY <1>1, Product
  <2>2. (q - 1) * d \in Nat /\ (q - 1) * d + d = q * d
    BY <2>1
  <2> DEFINE x == (q - 1) * d
  <2>3. x % d = 0
    BY <2>1, Quotient
  <2>4. f[q] = x
    BY <1>2
  <2>5. x \in 0 .. s - 1
    BY <1>1, <2>1, <2>2
  <2> HIDE DEF x, f
  <2> QED BY <2>3, <2>4, <2>5
<1>3. ASSUME NEW a \in Ring PROVE \E q \in 1 .. W : f[q] = a
  <2>1. a \in Nat /\ a % d = 0 /\ a < s
    OBVIOUS
  <2> DEFINE r == a \div d
  <2>2. r \in Nat /\ a = r * d
    BY <2>1, DivMod
  <2> HIDE DEF r
  <2>3. r < W
    <3>1. SUFFICES ASSUME W <= r PROVE FALSE
      BY <1>1, <2>2
    <3>2. W * d <= r * d /\ W * d \in Nat
      BY <1>1, <2>2, <3>1, Product
    <3> QED BY <1>1, <2>1, <2>2, <3>2
  <2>4. r + 1 \in 1 .. W /\ ((r + 1) - 1) = r
    BY <1>1, <2>2, <2>3
  <2> QED BY <2>2, <2>4
<1>4. ASSUME NEW q \in 1 .. W, NEW r \in 1 .. W, f[q] = f[r] PROVE q = r
  <2>1. q \in Nat /\ r \in Nat /\ (q - 1) * d = (r - 1) * d
    BY <1>1, <1>4
  <2>2. ((q - 1) * d) \div d = q - 1 /\ ((r - 1) * d) \div d = r - 1
    BY <2>1, Quotient
  <2> QED BY <2>1, <2>2
<1>5. f \in Bijection(1 .. W, Ring)
  <2>1. f \in [1 .. W -> Ring]
    BY <1>2
  <2> HIDE DEF f, Ring
  <2> QED BY <1>3, <1>4, <2>1 DEF Bijection, Injection, IsInjective, Surjection
<1>6. IsFiniteSet(1 .. W) /\ Cardinality(1 .. W) = W
  BY <1>1, FS_Interval
<1>7. ExistsBijection(1 .. W, Ring)
  BY <1>5 DEF ExistsBijection
<1> QED BY <1>6, <1>7, FS_Bijection DEF W

-----------------------------------------------------------------------------
(* The sizes sim-lat_mem_rd measures *)

Bad == {"exit", "crash"}

Starting == {"args", "affinity", "cgroup"}

Loading == {"loads", "warm", "walk"}

(* The arguments, once they are known to be good. *)
ArgsTyped ==
  /\ program \in {"sim", "pmu", "user"} /\ opts \in SUBSET Options
  /\ max_work_size \in Nat /\ stride \in Nat
  /\ pc \notin {"args", "exit"} => stride # 0

Steps == kBufferSizePow2Low .. kBufferSizePow2High - 1

(* What main() has tried before it comes to size SizeOf(exp, part). *)
Seen(exp, part) ==
  {s \in GridSizes : \E e \in Steps, q \in 0 .. 3 :
     s = SizeOf(e, q) /\ (e < exp \/ (e = exp /\ q > part))}

Wanted(sizes) == {s \in sizes : stride <= s /\ s <= max_work_size}

(* The sizes measured are those wanted among the ones main() has tried. *)
StepsInv ==
  /\ pc \in Starting => i = kBufferSizePow2Low /\ size = 0 /\ measured.sizes = {}
  /\ pc = "main" =>
       /\ i \in kBufferSizePow2Low .. kBufferSizePow2High /\ size \in Int
       /\ IF size <= max_work_size
          THEN measured.sizes = Wanted(Seen(i, 3)) ELSE measured.sizes = Wanted(GridSizes)
  /\ pc = "sizes" =>
       /\ i \in Steps /\ b \in -1 .. 3 /\ size \in Int /\ size <= max_work_size
       /\ measured.sizes = Wanted(Seen(i, b))
  /\ pc \in Loading =>
       /\ i \in Steps /\ b \in -1 .. 2 /\ size <= max_work_size
       /\ size = SizeOf(i, b + 1)
       /\ measured.sizes = Wanted(Seen(i, b + 1))
  /\ pc = "end" => measured.sizes = Wanted(GridSizes)

OneSizeInv ==
  /\ pc # "sizes"
  /\ pc \in Starting \cup {"main"} \cup Loading => measured.sizes = {}
  /\ pc \in Loading => size = max_work_size
  /\ pc = "end" => measured.sizes = Wanted({max_work_size})

SizesInv ==
  program = "sim" =>
    /\ pc \in Starting \cup {"main", "sizes", "end"} \cup Loading \cup Bad
    /\ pc \notin Bad => measured.ascending = TRUE
    /\ IF use_step THEN StepsInv ELSE OneSizeInv
    /\ pc \in {"warm", "walk"} => stride <= size

(* The flag belongs to the ring that was built last. *)
WarmInv ==
  program = "sim" =>
    /\ just_size_flug \in BOOLEAN
    /\ pc \in {"warm", "walk"} /\ initialized => just_size_flug = (size % stride = 0)
    /\ pc = "walk" => warmed = 10 * list_len

SizesOK == ArgsTyped /\ SizesInv /\ WarmInv

-----------------------------------------------------------------------------
(* The grid *)

(* The four sizes between two powers of two. *)
LEMMA FourSizes ==
  ASSUME NEW e \in Steps, NEW q \in 0 .. 3
  PROVE  /\ SizeOf(e, q) \in Nat /\ SizeOf(e, q) <= Shift[e] /\ Shift[e] < 2 * SizeOf(e, q)
         /\ e \in Exps /\ Shift[e] \in Nat
         /\ \A p \in 0 .. 3 : q > p => SizeOf(e, q) < SizeOf(e, p)
<1> DEFINE x == Shift[e - 3]
<1>1. /\ e \in Nat /\ e >= 3 /\ e \in Exps /\ e - 1 \in Exps /\ e - 2 \in Exps /\ e - 3 \in Exps
      /\ e - num_bt - 1 = e - 3 /\ (e - 1) - 1 = e - 2 /\ (e - 2) - 1 = e - 3
  BY SimLatAssumption DEF Steps, Exps, num_bt
<1>2. x \in Nat \ {0}
  BY <1>1, ShiftType
<1>3. Shift[e] = 2 * Shift[e - 1]
  BY <1>1, ShiftStep
<1>4. Shift[e - 1] = 2 * Shift[e - 2]
  BY <1>1, ShiftStep
<1>5. Shift[e - 2] = 2 * x
  BY <1>1, ShiftStep
<1> HIDE DEF x
<1>6. Shift[e] = 8 * x
  BY <1>2, <1>3, <1>4, <1>5
<1>7. \A p \in 0 .. 3 : SizeOf(e, p) = 8 * x - p * x
  BY <1>1, <1>6 DEF SizeOf, x
<1>8. /\ SizeOf(e, 0) = 8 * x /\ SizeOf(e, 1) = 7 * x
      /\ SizeOf(e, 2) = 6 * x /\ SizeOf(e, 3) = 5 * x
  BY <1>2, <1>7
<1>9. q \in {0, 1, 2, 3} /\ 0 .. 3 = {0, 1, 2, 3}
  OBVIOUS
<1>10. SizeOf(e, q) \in Nat /\ SizeOf(e, q) <= Shift[e] /\ Shift[e] < 2 * SizeOf(e, q)
  BY <1>2, <1>6, <1>8, <1>9
<1>11. ASSUME NEW p \in {0, 1, 2, 3}, q > p PROVE SizeOf(e, q) < SizeOf(e, p)
  BY <1>2, <1>8, <1>9, <1>11
<1>12. Shift[e] \in Nat
  BY <1>2, <1>6
<1> QED BY <1>1, <1>9, <1>10, <1>11, <1>12

(* main() goes from the smallest to the largest. *)
LEMMA SizesInOrder ==
  ASSUME NEW e \in Steps, NEW q \in 0 .. 3, NEW exp \in Steps, NEW part \in 0 .. 3,
         e < exp \/ (e = exp /\ q > part)
  PROVE  SizeOf(e, q) < SizeOf(exp, part)
<1>1. CASE e = exp /\ q > part
  BY <1>1, FourSizes
<1>2. CASE e < exp
  <2>1. /\ SizeOf(e, q) \in Nat /\ SizeOf(e, q) <= Shift[e] /\ e \in Exps /\ Shift[e] \in Nat
    BY FourSizes
  <2>2. /\ SizeOf(exp, part) \in Nat /\ Shift[exp] < 2 * SizeOf(exp, part)
        /\ exp \in Exps /\ Shift[exp] \in Nat
    BY FourSizes
  <2>3. 2 * Shift[e] <= Shift[exp]
    BY <1>2, <2>1, <2>2, ShiftGrows
  <2> QED BY <2>1, <2>2, <2>3
<1> QED BY <1>1, <1>2

LEMMA SeenFirst == Seen(kBufferSizePow2Low, 3) = {}
BY SimLatAssumption DEF Seen, Steps

LEMMA SeenLast == Seen(kBufferSizePow2High, 3) = GridSizes
BY SimLatAssumption DEF Seen, Steps, GridSizes

LEMMA SeenPower ==
  ASSUME NEW exp \in Steps
  PROVE  Seen(exp, -1) = Seen(exp + 1, 3)
BY SimLatAssumption DEF Seen, Steps

LEMMA SeenNext ==
  ASSUME NEW exp \in Steps, NEW part \in 0 .. 3
  PROVE  /\ Seen(exp, part - 1) = Seen(exp, part) \cup {SizeOf(exp, part)}
         /\ \A s \in Seen(exp, part) : s \in Nat /\ s < SizeOf(exp, part)
<1>1. SizeOf(exp, part) \in GridSizes
  BY DEF GridSizes, Steps
<1>2. exp \in Int /\ part \in Int /\ part > part - 1
  BY SimLatAssumption DEF Steps
<1>3. \A e \in Steps, q \in 0 .. 3 :
        (e < exp \/ (e = exp /\ q > part - 1)) <=>
          (e < exp \/ (e = exp /\ q > part)) \/ (e = exp /\ q = part)
  BY <1>2
<1>4. ASSUME NEW s
      PROVE s \in Seen(exp, part - 1) <=> s \in Seen(exp, part) \cup {SizeOf(exp, part)}
  <2>1. CASE s \in Seen(exp, part - 1)
    <3>1. s \in GridSizes /\ \E e \in Steps, q \in 0 .. 3 :
             s = SizeOf(e, q) /\ (e < exp \/ (e = exp /\ q > part - 1))
      BY <2>1 DEF Seen
    <3> QED BY <1>3, <3>1, <2>1 DEF Seen
  <2>2. CASE s \in Seen(exp, part)
    BY <1>3, <2>2 DEF Seen
  <2>3. CASE s = SizeOf(exp, part)
    BY <1>1, <1>2, <2>3 DEF Seen
  <2> QED BY <2>1, <2>2, <2>3
<1>5. ASSUME NEW s \in Seen(exp, part) PROVE s \in Nat /\ s < SizeOf(exp, part)
  <2>1. PICK e \in Steps, q \in 0 .. 3 :
          s = SizeOf(e, q) /\ (e < exp \/ (e = exp /\ q > part))
    BY DEF Seen
  <2> QED BY <2>1, SizesInOrder, FourSizes
<1> QED BY <1>4, <1>5

(* A size above the maximum: what main() has not tried is above it, too. *)
LEMMA SeenEnough ==
  ASSUME NEW exp \in Steps, NEW part \in 0 .. 3,
         max_work_size \in Nat, SizeOf(exp, part) > max_work_size
  PROVE  Wanted(Seen(exp, part)) = Wanted(GridSizes)
<1>1. Seen(exp, part) \subseteq GridSizes
  BY DEF Seen
<1>2. ASSUME NEW s \in GridSizes, s \notin Seen(exp, part) PROVE ~(s <= max_work_size)
  <2>1. PICK e \in Steps, q \in 0 .. 3 : s = SizeOf(e, q)
    BY DEF GridSizes, Steps
  <2>2. ~(e < exp \/ (e = exp /\ q > part))
    BY <1>2, <2>1 DEF Seen
  <2>3. e \in Int /\ exp \in Int
    BY SimLatAssumption DEF Steps
  <2>4. (exp < e \/ (exp = e /\ part > q)) \/ (e = exp /\ q = part)
    BY <2>2, <2>3
  <2>5. SizeOf(exp, part) <= s /\ s \in Nat /\ SizeOf(exp, part) \in Nat
    <3>1. CASE exp < e \/ (exp = e /\ part > q)
      <4>1. SizeOf(exp, part) < SizeOf(e, q)
        BY <3>1, SizesInOrder
      <4> QED BY <2>1, <4>1, FourSizes
    <3>2. CASE e = exp /\ q = part
      BY <2>1, <3>2, FourSizes
    <3> QED BY <2>4, <3>1, <3>2
  <2> QED BY <2>5
<1> QED BY <1>1, <1>2 DEF Wanted

-----------------------------------------------------------------------------
(* Init, and each step, keep the sizes in order *)

LEMMA SizesInit == Init => SizesOK
<1> SUFFICES ASSUME Init PROVE SizesOK
  OBVIOUS
<1> USE SimLatAssumption DEF Init
<1>1. /\ program \in {"sim", "pmu", "user"} /\ opts \in SUBSET Options
      /\ max_work_size \in Nat /\ stride \in Nat
      /\ pc \notin {"args", "exit"} => stride # 0
      /\ program = "sim" => pc = "args"
  OBVIOUS
<1>2. /\ i = kBufferSizePow2Low /\ size = 0 /\ just_size_flug = FALSE
      /\ measured.sizes = {} /\ measured.ascending = TRUE
  OBVIOUS
<1> HIDE DEF Init
<1>3. program = "sim" => StepsInv /\ OneSizeInv
  BY <1>1, <1>2 DEF StepsInv, OneSizeInv, Starting, Loading
<1>4. SizesInv
  BY <1>1, <1>2, <1>3 DEF SizesInv, Starting
<1> QED BY <1>1, <1>2, <1>4 DEF SizesOK, ArgsTyped, WarmInv

LEMMA ArgsStep ==
  ASSUME ArgsTyped, [Next]_vars
  PROVE  ArgsTyped'
<1> USE DEF ArgsTyped
<1>1. CASE CheckArgs
  BY <1>1, SimLatAssumption DEF CheckArgs, At, Goto
<1>2. CASE UNCHANGED args /\ pc \notin {"args", "exit"}
  BY <1>2 DEF args
<1>3. CASE UNCHANGED args /\ UNCHANGED pc
  BY <1>3 DEF args
<1>4. CASE SetAffinity \/ CgTaskset \/ StepLoop \/ NextSize \/ OneShot
           \/ NextGroup \/ Export \/ LastGroup \/ loads
  <2>1. UNCHANGED args /\ pc \notin {"args", "exit"}
    BY <1>4
    DEF SetAffinity, CgTaskset, StepLoop, NextSize, OneShot, NextGroup, Export, LastGroup,
        loads, SmallSize, StrideInitialize, WildRead, WarmUp, MeasureSample,
        StartWalk, Access, StopWalk, Free, SimAt, PmuAt, At
  <2> QED BY <1>2, <2>1
<1>5. CASE LibraryStep \/ Move \/ UserProgram \/ Terminated \/ UNCHANGED vars
  <2>1. UNCHANGED args /\ UNCHANGED pc
    BY <1>5 DEF LibraryStep, Move, UserProgram, Terminated, vars
  <2> QED BY <1>3, <2>1
<1> QED BY <1>1, <1>4, <1>5 DEF Next, main

(* The steps of sim-lat_mem_rd; the others leave its variables alone. *)
SimStep ==
  \/ CheckArgs \/ SetAffinity \/ CgTaskset \/ StepLoop \/ NextSize \/ OneShot
  \/ SmallSize \/ StrideInitialize \/ WildRead \/ WarmUp \/ MeasureSample

LEMMA SimSteps ==
  ASSUME [Next]_vars, program' = "sim"
  PROVE  /\ program = "sim"
         /\ SimStep \/ UNCHANGED <<pc, args, steps, ring, samples>>
<1>1. CASE SimStep
  BY <1>1
  DEF SimStep, CheckArgs, SetAffinity, CgTaskset, StepLoop, NextSize, OneShot,
      SmallSize, StrideInitialize, WildRead, WarmUp, MeasureSample, args
<1>2. CASE NextGroup \/ Export \/ LastGroup \/ StartWalk \/ Access \/ StopWalk \/ Free
  BY <1>2
  DEF NextGroup, Export, LastGroup, StartWalk, Access, StopWalk, Free, PmuAt, args
<1>3. CASE LibraryStep \/ Move \/ UserProgram \/ Terminated \/ UNCHANGED vars
  BY <1>3 DEF LibraryStep, Move, UserProgram, Terminated, vars, args
<1> QED BY <1>1, <1>2, <1>3 DEF Next, main, loads, SimStep

(* With -o: one size. *)
LEMMA OneSizeStep ==
  ASSUME ArgsTyped, program = "sim", ~use_step, SizesInv, SimStep
  PROVE  SizesInv'
<1>1. /\ OneSizeInv /\ (measured.ascending = TRUE \/ pc \in Bad)
      /\ pc \in {"warm", "walk"} => stride <= size
  BY DEF SizesInv
<1> USE DEF ArgsTyped, OneSizeInv, Loading, Starting, Bad
<1>2. CASE CheckArgs \/ SetAffinity \/ CgTaskset
  <2>1. /\ pc \in Starting /\ pc' \in {"affinity", "cgroup", "main", "exit"}
        /\ UNCHANGED <<program, opts, measured, size>>
    BY <1>2 DEF CheckArgs, SetAffinity, CgTaskset, At, Goto, args, samples, steps
  <2> QED BY <1>1, <2>1 DEF SizesInv, use_step
<1>3. CASE StepLoop \/ NextSize
  BY <1>1, <1>3 DEF StepLoop, NextSize, SimAt, At
<1>4. CASE OneShot
  <2>1. pc = "main" /\ pc' = "loads" /\ size' = max_work_size
        /\ UNCHANGED <<program, max_work_size, stride, opts, measured>>
    BY <1>4 DEF OneShot, SimAt, At, Goto, args, samples
  <2> QED BY <1>1, <2>1 DEF SizesInv, use_step
<1>5. CASE SmallSize
  <2>1. /\ pc = "loads" /\ size < stride /\ pc' = "end"
        /\ UNCHANGED <<program, max_work_size, stride, opts, measured, size>>
    BY <1>5 DEF SmallSize, At, Goto, Back, args, samples, steps
  <2>2. size = max_work_size /\ measured.sizes = {} /\ measured.ascending = TRUE
    BY <1>1, <2>1
  <2>3. Wanted({max_work_size}) = {}
    BY <2>1, <2>2 DEF Wanted
  <2> QED BY <2>1, <2>2, <2>3 DEF SizesInv, use_step, Wanted
<1>6. CASE StrideInitialize \/ WildRead \/ WarmUp
  <2>1. /\ pc \in Loading /\ pc' \in {"warm", "walk", "exit", "crash"}
        /\ UNCHANGED <<program, max_work_size, stride, opts, measured, size>>
        /\ pc = "loads" => stride <= size
    BY <1>1, <1>6 DEF StrideInitialize, WildRead, WarmUp, SimAt, At, Goto, args, samples, steps
  <2> QED BY <1>1, <2>1 DEF SizesInv, use_step
<1>7. CASE MeasureSample
  <2>1. /\ pc = "walk" /\ UNCHANGED <<program, max_work_size, stride, opts, size>>
        /\ \/ pc' = "warm" /\ UNCHANGED measured
           \/ pc' = "end" /\ measured' = Measured(size)
    BY <1>7 DEF MeasureSample, SimAt, At, Goto, Back, args, steps
  <2>2. /\ size = max_work_size /\ stride <= size
        /\ measured.sizes = {} /\ measured.ascending = TRUE
    BY <1>1, <2>1
  <2>3. CASE pc' = "warm" /\ UNCHANGED measured
    BY <2>1, <2>2, <2>3 DEF SizesInv, use_step
  <2>4. CASE pc' = "end" /\ measured' = Measured(size)
    <3>1. measured'.sizes = {size} /\ measured'.ascending = TRUE
      BY <2>2, <2>4 DEF Measured
    <3>2. Wanted({max_work_size}) = {size}
      BY <2>2 DEF Wanted
    <3>3. Wanted({max_work_size})' = Wanted({max_work_size})
      BY <2>1 DEF Wanted
    <3> QED BY <2>1, <2>4, <3>1, <3>2, <3>3 DEF SizesInv, use_step
  <2> QED BY <2>1, <2>3, <2>4
<1> QED BY <1>2, <1>3, <1>4, <1>5, <1>6, <1>7 DEF SimStep

LEMMA StepsStep ==
  ASSUME ArgsTyped, program = "sim", use_step, SizesInv, SimStep
  PROVE  SizesInv'
<1>1. /\ StepsInv /\ (measured.ascending = TRUE \/ pc \in Bad)
      /\ pc \in {"warm", "walk"} => stride <= size
  BY DEF SizesInv
<1> USE DEF ArgsTyped, Loading, Starting, Bad
<1>2. CASE CheckArgs \/ SetAffinity \/ CgTaskset
  <2>1. /\ pc \in Starting /\ pc' \in {"affinity", "cgroup", "main", "exit"}
        /\ UNCHANGED <<program, opts, measured, i, size>>
        /\ pc' = "main" => UNCHANGED <<max_work_size, stride>>
    BY <1>2 DEF CheckArgs, SetAffinity, CgTaskset, At, Goto, args, samples, steps
  <2>2. i' = kBufferSizePow2Low /\ size' = 0 /\ measured'.sizes = {}
        /\ measured'.ascending = TRUE
    BY <1>1, <2>1 DEF StepsInv
  <2>3. /\ kBufferSizePow2Low \in kBufferSizePow2Low .. kBufferSizePow2High
        /\ Seen(kBufferSizePow2Low, 3) = {}
    BY SimLatAssumption, SeenFirst
  <2>4. Wanted(Seen(i, 3))' = {}
    BY <2>2, <2>3 DEF Wanted, Seen
  <2>5. pc' = "main" => size' <= max_work_size'
    BY <2>1, <2>2
  <2>6. StepsInv'
    BY <2>1, <2>2, <2>3, <2>4, <2>5 DEF StepsInv
  <2> QED BY <2>1, <2>2, <2>6 DEF SizesInv, use_step
<1>3. CASE StepLoop
  <2>1. /\ pc = "main" /\ UNCHANGED <<program, max_work_size, stride, opts, measured, i, size>>
        /\ \/ pc' = "sizes" /\ i < kBufferSizePow2High /\ size <= max_work_size /\ b' = 3
           \/ pc' = "end" /\ ~(i < kBufferSizePow2High /\ size <= max_work_size)
    <3>1. Shift[num_bt] - 1 = 3
      <4>1. 0 \in Exps /\ 1 \in Exps /\ 2 \in Exps
        BY SimLatAssumption DEF Exps
      <4>2. Shift[2] = 2 * Shift[2 - 1] /\ Shift[1] = 2 * Shift[1 - 1] /\ Shift[0] = 1
        BY <4>1, ShiftStep
      <4> QED BY <4>2 DEF num_bt
    <3> QED BY <1>3, <3>1 DEF StepLoop, SimAt, At, Goto, args, samples
  <2>2. /\ i \in kBufferSizePow2Low .. kBufferSizePow2High /\ size \in Int
        /\ measured.ascending = TRUE
        /\ IF size <= max_work_size
           THEN measured.sizes = Wanted(Seen(i, 3)) ELSE measured.sizes = Wanted(GridSizes)
    BY <1>1, <2>1 DEF StepsInv
  <2>3. CASE pc' = "sizes" /\ i < kBufferSizePow2High /\ size <= max_work_size /\ b' = 3
    <3>1. i \in Steps
      BY <2>2, <2>3, SimLatAssumption DEF Steps
    <3>2. measured'.sizes = Wanted(Seen(i, b))'
      BY <2>1, <2>2, <2>3 DEF Wanted, Seen
    <3> QED BY <2>1, <2>2, <2>3, <3>1, <3>2 DEF SizesInv, StepsInv, use_step
  <2>4. CASE pc' = "end" /\ ~(i < kBufferSizePow2High /\ size <= max_work_size)
    <3>1. measured.sizes = Wanted(GridSizes)
      <4>1. CASE ~(size <= max_work_size)
        BY <2>2, <4>1
      <4>2. CASE ~(i < kBufferSizePow2High)
        <5>1. i = kBufferSizePow2High
          BY <2>2, <4>2, SimLatAssumption
        <5> QED BY <2>2, <5>1, SeenLast
      <4> QED BY <2>4, <4>1, <4>2
    <3>2. measured'.sizes = Wanted(GridSizes)'
      BY <2>1, <3>1 DEF Wanted
    <3> QED BY <2>1, <2>2, <2>4, <3>2 DEF SizesInv, StepsInv, use_step
  <2> QED BY <2>1, <2>3, <2>4
<1>4. CASE NextSize
  <2>1. pc = "sizes" /\ UNCHANGED <<program, max_work_size, stride, opts, measured>>
    BY <1>4 DEF NextSize, SimAt, At, args, samples
  <2>2. /\ i \in Steps /\ b \in -1 .. 3 /\ size \in Int /\ size <= max_work_size
        /\ measured.ascending = TRUE /\ measured.sizes = Wanted(Seen(i, b))
    BY <1>1, <2>1 DEF StepsInv
  <2>3. i + 1 \in kBufferSizePow2Low .. kBufferSizePow2High
    BY <2>2, SimLatAssumption DEF Steps
  <2>4. CASE b >= 0
    <3>1. b \in 0 .. 3 /\ size' = SizeOf(i, b) /\ SizeOf(i, b) \in Nat
      BY <1>4, <2>2, <2>4, FourSizes DEF NextSize
    <3>2. CASE TooLarge(size')
      <4>1. pc' = "main" /\ i' = i + 1
        BY <1>4, <2>4, <3>2 DEF NextSize, Goto, NextPower
      <4>2. ~(size' <= max_work_size')
        BY <2>1, <3>1, <3>2 DEF TooLarge
      <4>3. measured.sizes = Wanted(GridSizes)
        BY <2>2, <3>1, <3>2, SeenEnough DEF TooLarge
      <4>4. measured'.sizes = Wanted(GridSizes)'
        BY <2>1, <4>3 DEF Wanted
      <4>5. size' \in Int
        BY <3>1
      <4> QED BY <2>1, <2>2, <2>3, <4>1, <4>2, <4>4, <4>5 DEF SizesInv, StepsInv, use_step
    <3>3. CASE ~TooLarge(size')
      <4>1. pc' = "loads" /\ b' = b - 1 /\ i' = i
        BY <1>4, <2>4, <3>3 DEF NextSize, Goto
      <4>2. size' <= max_work_size'
        BY <2>1, <3>1, <3>3 DEF TooLarge
      <4>3. b' \in -1 .. 2 /\ b' + 1 = b
        BY <3>1, <4>1
      <4>4. measured'.sizes = Wanted(Seen(i, b + 1))' /\ size' = SizeOf(i, b + 1)'
        <5>1. Seen(i, b + 1)' = Seen(i, b) /\ SizeOf(i, b + 1)' = SizeOf(i, b)
          BY <4>1, <4>3 DEF Seen, SizeOf
        <5> QED BY <2>1, <2>2, <3>1, <5>1 DEF Wanted
      <4> QED BY <2>1, <2>2, <4>1, <4>2, <4>3, <4>4 DEF SizesInv, StepsInv, use_step
    <3> QED BY <3>2, <3>3
  <2>5. CASE ~(b >= 0)
    <3>1. b = -1 /\ pc' = "main" /\ i' = i + 1 /\ size' = size
      BY <1>4, <2>2, <2>5 DEF NextSize, Goto, NextPower
    <3>2. Seen(i, -1) = Seen(i + 1, 3)
      BY <2>2, SeenPower
    <3>3. measured'.sizes = Wanted(Seen(i, 3))'
      <4>1. Seen(i, 3)' = Seen(i, b)
        BY <3>1, <3>2
      <4> QED BY <2>1, <2>2, <4>1 DEF Wanted
    <3> QED BY <2>1, <2>2, <2>3, <3>1, <3>3 DEF SizesInv, StepsInv, use_step
  <2> QED BY <2>4, <2>5
<1>5. CASE OneShot
  BY <1>5 DEF OneShot
<1>6. CASE StrideInitialize \/ WildRead \/ WarmUp
  <2>1. /\ pc \in Loading /\ pc' \in {"warm", "walk", "exit", "crash"}
        /\ UNCHANGED <<program, max_work_size, stride, opts, measured, i, b, size>>
        /\ pc = "loads" => stride <= size
    <3>1. pc = "loads" /\ ~(size < stride) => stride <= size
      <4>1. pc = "loads" => i \in Steps /\ b \in -1 .. 2 /\ size = SizeOf(i, b + 1)
        BY <1>1 DEF StepsInv
      <4>2. b \in -1 .. 2 => b + 1 \in 0 .. 3
        OBVIOUS
      <4>3. pc = "loads" => size \in Nat
        BY <4>1, <4>2, FourSizes
      <4> QED BY <4>3
    <3> QED
      BY <1>1, <1>6, <3>1
      DEF StrideInitialize, WildRead, WarmUp, SimAt, At, Goto, args, samples, steps
  <2>2. /\ i \in Steps /\ b \in -1 .. 2 /\ size <= max_work_size
        /\ size = SizeOf(i, b + 1) /\ measured.sizes = Wanted(Seen(i, b + 1))
        /\ measured.ascending = TRUE
    BY <1>1, <2>1 DEF StepsInv
  <2>3. measured'.sizes = Wanted(Seen(i, b + 1))' /\ size' = SizeOf(i, b + 1)'
    BY <2>1, <2>2 DEF Wanted, Seen, SizeOf
  <2> QED BY <1>1, <2>1, <2>2, <2>3 DEF SizesInv, StepsInv, use_step
<1>7. CASE SmallSize \/ MeasureSample
  <2>1. /\ pc \in Loading
        /\ UNCHANGED <<program, max_work_size, stride, opts, i, b, size>>
        /\ \/ pc' = "sizes" /\ size < stride /\ UNCHANGED measured
           \/ pc = "walk" /\ pc' = "warm" /\ UNCHANGED measured
           \/ pc = "walk" /\ pc' = "sizes" /\ measured' = Measured(size)
    BY <1>7 DEF SmallSize, MeasureSample, SimAt, At, Goto, Back, args, samples, steps
  <2>2. /\ i \in Steps /\ b \in -1 .. 2 /\ size <= max_work_size
        /\ size = SizeOf(i, b + 1) /\ measured.sizes = Wanted(Seen(i, b + 1))
        /\ measured.ascending = TRUE
    BY <1>1, <2>1 DEF StepsInv
  <2>3. b + 1 \in 0 .. 3 /\ (b + 1) - 1 = b /\ b \in -1 .. 3
    BY <2>2
  <2>4. /\ Seen(i, b) = Seen(i, b + 1) \cup {size} /\ size \in Nat
        /\ \A s \in Seen(i, b + 1) : s \in Nat /\ s < size
    <3>1. PICK part \in 0 .. 3 : part = b + 1
      BY <2>3
    <3>2. /\ Seen(i, part - 1) = Seen(i, part) \cup {SizeOf(i, part)}
          /\ \A s \in Seen(i, part) : s \in Nat /\ s < SizeOf(i, part)
          /\ SizeOf(i, part) \in Nat
      BY <2>2, SeenNext, FourSizes
    <3>3. part - 1 = b
      BY <2>3, <3>1
    <3> QED BY <2>2, <3>1, <3>2, <3>3
  <2>5. CASE pc' = "sizes" /\ size < stride /\ UNCHANGED measured
    <3>1. Wanted(Seen(i, b)) = Wanted(Seen(i, b + 1))
      BY <2>4, <2>5 DEF Wanted
    <3>2. measured'.sizes = Wanted(Seen(i, b))'
      BY <2>1, <2>2, <2>5, <3>1 DEF Wanted, Seen
    <3> QED BY <2>1, <2>2, <2>3, <2>4, <2>5, <3>2 DEF SizesInv, StepsInv, use_step
  <2>6. CASE pc = "walk" /\ pc' = "warm" /\ UNCHANGED measured
    <3>1. measured'.sizes = Wanted(Seen(i, b + 1))' /\ size' = SizeOf(i, b + 1)'
      BY <2>1, <2>2, <2>6 DEF Wanted, Seen, SizeOf
    <3> QED BY <1>1, <2>1, <2>2, <2>6, <3>1 DEF SizesInv, StepsInv, use_step
  <2>7. CASE pc = "walk" /\ pc' = "sizes" /\ measured' = Measured(size)
    <3>1. stride <= size
      BY <1>1, <2>7
    <3>2. Wanted(Seen(i, b)) = Wanted(Seen(i, b + 1)) \cup {size}
      BY <2>2, <2>4, <3>1 DEF Wanted
    <3>3. measured'.sizes = Wanted(Seen(i, b)) /\ measured'.ascending = TRUE
      <4>1. \A s \in measured.sizes : s < size
        BY <2>2, <2>4 DEF Wanted
      <4> QED BY <2>2, <2>7, <3>2, <4>1 DEF Measured
    <3>4. measured'.sizes = Wanted(Seen(i, b))'
      BY <2>1, <3>3 DEF Wanted, Seen
    <3> QED BY <2>1, <2>2, <2>3, <2>4, <2>7, <3>3, <3>4 DEF SizesInv, StepsInv, use_step
  <2> QED BY <2>1, <2>5, <2>6, <2>7
<1> QED BY <1>2, <1>3, <1>4, <1>5, <1>6, <1>7 DEF SimStep

LEMMA SizesStep ==
  ASSUME ArgsTyped, SizesInv, [Next]_vars
  PROVE  SizesInv'
<1> SUFFICES ASSUME program' = "sim" PROVE SizesInv'
  BY DEF SizesInv
<1>1. program = "sim" /\ (SimStep \/ UNCHANGED <<pc, args, steps, ring, samples>>)
  BY SimSteps
<1>2. CASE UNCHANGED <<pc, args, steps, ring, samples>>
  BY <1>1, <1>2
  DEF SizesInv, StepsInv, OneSizeInv, use_step, Wanted, Seen, SizeOf, GridSizes,
      args, steps, samples
<1> QED BY <1>1, <1>2, OneSizeStep, StepsStep

LEMMA WarmStep ==
  ASSUME WarmInv, [Next]_vars
  PROVE  WarmInv'
<1> SUFFICES ASSUME program' = "sim" PROVE WarmInv'
  BY DEF WarmInv
<1>1. program = "sim" /\ (SimStep \/ UNCHANGED <<pc, args, steps, ring, samples>>)
  BY SimSteps
<1>2. just_size_flug \in BOOLEAN
  BY <1>1 DEF WarmInv
<1>3. CASE CheckArgs \/ SetAffinity \/ CgTaskset \/ StepLoop \/ NextSize \/ OneShot
           \/ SmallSize \/ WildRead
  <2>1. pc' \notin {"warm", "walk"} /\ UNCHANGED just_size_flug
    BY <1>3
    DEF CheckArgs, SetAffinity, CgTaskset, StepLoop, NextSize, OneShot, SmallSize, WildRead,
        Goto, Back, ring
  <2> QED BY <1>2, <2>1 DEF WarmInv
<1>4. CASE StrideInitialize
  <2>1. /\ pc' \in {"warm", "exit", "crash"} /\ UNCHANGED <<size, stride>>
        /\ \/ UNCHANGED just_size_flug /\ (initialized' = FALSE \/ pc' # "warm")
           \/ just_size_flug' = (size % stride = 0)
    BY <1>1, <1>4 DEF StrideInitialize, Goto, ring, steps, args, JustSize
  <2>2. just_size_flug' \in BOOLEAN
    BY <1>2, <2>1
  <2>3. pc' = "warm" /\ initialized' => just_size_flug' = (size' % stride' = 0)
    BY <2>1
  <2> QED BY <2>1, <2>2, <2>3 DEF WarmInv
<1>5. CASE WarmUp
  <2>1. /\ pc = "warm" /\ pc' = "walk" /\ warmed' = 10 * list_len
        /\ UNCHANGED <<size, stride, initialized, just_size_flug>>
    BY <1>5 DEF WarmUp, SimAt, At, Goto, ring, steps, args
  <2>2. list_len' = list_len
    BY <2>1 DEF list_len
  <2> QED BY <1>1, <2>1, <2>2 DEF WarmInv
<1>6. CASE MeasureSample
  <2>1. /\ pc = "walk" /\ pc' # "walk"
        /\ UNCHANGED <<size, stride, initialized, just_size_flug>>
    BY <1>6 DEF MeasureSample, SimAt, At, Goto, Back, ring, steps, args
  <2> QED BY <1>1, <2>1 DEF WarmInv
<1>7. CASE UNCHANGED <<pc, args, steps, ring, samples>>
  <2>1. UNCHANGED <<pc, size, stride, initialized, just_size_flug, warmed>>
    BY <1>7 DEF ring, steps, args, samples
  <2>2. list_len' = list_len
    BY <2>1 DEF list_len
  <2> QED BY <1>1, <2>1, <2>2 DEF WarmInv
<1> QED BY <1>1, <1>3, <1>4, <1>5, <1>6, <1>7 DEF SimStep

LEMMA SizesAlways == Spec => []SizesOK
<1>1. SizesOK /\ [Next]_vars => SizesOK'
  BY ArgsStep, SizesStep, WarmStep DEF SizesOK
<1> QED BY <1>1, SizesInit, PTL DEF Spec

(* sim-lat_mem_rd measures the sizes of the grid between the stride and    *)
(* the maximum, each once and in order, for any powers of two, any stride  *)
(* and any maximum, whatever number of samples it takes.                   *)
THEOREM EverySizeIsMeasuredAlways == Spec => []EverySizeIsMeasured
<1>1. SizesOK => EverySizeIsMeasured
  <2> SUFFICES ASSUME SizesOK, pc = "end", program = "sim"
               PROVE  /\ measured.sizes =
                          IF use_step THEN {s \in GridSizes : stride <= s /\ s <= max_work_size}
                          ELSE {s \in {max_work_size} : stride <= s}
                      /\ measured.ascending
    BY DEF EverySizeIsMeasured
  <2>1. /\ IF use_step THEN StepsInv ELSE OneSizeInv
        /\ measured.ascending = TRUE /\ max_work_size \in Nat
    BY DEF SizesOK, SizesInv, Bad, ArgsTyped
  <2>2. CASE use_step
    BY <2>1, <2>2 DEF StepsInv, Wanted
  <2>3. CASE ~use_step
    BY <2>1, <2>3 DEF OneSizeInv, Wanted
  <2> QED BY <2>2, <2>3
<1> QED BY <1>1, SizesAlways, PTL

(* What warm_up() walks, ten times the length it computes from the flag,   *)
(* is ten rounds of the ring that is there, whatever the sizes before.     *)
THEOREM RingIsWarmAlways == Spec => []RingIsWarm
<1>1. SizesOK => RingIsWarm
  <2> SUFFICES ASSUME SizesOK, pc = "walk", program = "sim", initialized
               PROVE  warmed = 10 * RingLength
    BY DEF RingIsWarm
  <2>1. /\ just_size_flug = (size % stride = 0) /\ warmed = 10 * list_len
        /\ stride \in Nat \ {0} /\ size \in Nat
    <3>1. /\ just_size_flug = (size % stride = 0) /\ warmed = 10 * list_len
          /\ stride \in Nat \ {0} /\ max_work_size \in Nat
          /\ IF use_step THEN StepsInv ELSE OneSizeInv
      BY DEF SizesOK, WarmInv, SizesInv, ArgsTyped
    <3>2. CASE use_step
      <4>1. i \in Steps /\ b \in -1 .. 2 /\ size = SizeOf(i, b + 1)
        BY <3>1, <3>2 DEF StepsInv, Loading
      <4>2. b + 1 \in 0 .. 3
        BY <4>1
      <4>3. size \in Nat
        BY <4>1, <4>2, FourSizes
      <4> QED BY <3>1, <4>3
    <3>3. CASE ~use_step
      BY <3>1, <3>3 DEF OneSizeInv, Loading
    <3> QED BY <3>2, <3>3
  <2>2. RingLength = (size \div stride) + (IF size % stride = 0 THEN 0 ELSE 1)
    BY <2>1, Lines DEF RingLength
  <2>3. list_len = RingLength
    BY <2>1, <2>2 DEF list_len
  <2> QED BY <2>1, <2>3
<1> QED BY <1>1, SizesAlways, PTL

-----------------------------------------------------------------------------
(* What pmu-sim-lat_mem_rd counts *)

After == {"main"} \cup WithGroup \cup {"end"}

(* A process that is pinned is on the CPU that is counted. *)
PinnedInv ==
  program = "pmu" =>
    /\ cpu \in allowed
    /\ pc \in Starting \cup After \cup Bad
    /\ pc \in {"args", "affinity"} => refused = FALSE
    /\ pc = "cgroup" /\ opts = {"g"} => refused = FALSE
    /\ pc \in {"affinity", "cgroup"} \cup After =>
         /\ opts \in {{}, {"t"}, {"g"}} /\ Len(list) <= 1
         /\ target_cpu \in TargetCpus
    /\ pc = "cgroup" /\ opts # {"g"} /\ Pinned => allowed = {target_cpu}
    /\ pc \in After /\ Pinned => allowed = {target_cpu}

(* The accesses of a walk. *)
Accesses == IF stride <= max_work_size THEN num_iters ELSE 0

WalkInv ==
  program = "pmu" /\ pc \in After /\ Pinned =>
    /\ pc \in WithGroup => target = target_cpu /\ size = max_work_size
    /\ pc \in {"loads", "start"} => running = FALSE /\ work = 0
    /\ pc = "loads" => call \in {"create", "none", "exit"}
    /\ pc = "start" => call = "none" /\ j = 0
    /\ pc \in {"start", "walk", "free"} => stride <= max_work_size
    /\ pc = "walk" =>
         /\ call \in {"reset_and_start", "start", "none"} /\ j \in 0 .. num_iters
         /\ IF call = "none" THEN running = TRUE /\ work = j ELSE work = 0 /\ j = 0
    /\ pc = "free" => call \in {"stop", "none"} /\ running = FALSE /\ work = num_iters
    /\ pc = "export" => call = "none" /\ running = FALSE /\ work = Accesses
    /\ pc = "main" /\ call # "none" => work = Accesses

PinnedOK == SimLatInv /\ CounterInv /\ ArgsTyped /\ PinnedInv /\ WalkInv

-----------------------------------------------------------------------------
LEMMA PinnedCases ==
  /\ opts = {} => (Pinned <=> allowed = {DefaultCpu})
  /\ opts = {"t"} => (Pinned <=> ~refused)
  /\ opts = {"g"} => (Pinned <=> ~refused /\ list[1].cpus = {list[1].first})
BY DEF Pinned

LEMMA PinnedCasesNext ==
  /\ opts' = {"t"} => (Pinned' <=> ~refused')
  /\ opts' = {"g"} => (Pinned' <=> ~refused' /\ list'[1].cpus = {list'[1].first})
BY DEF Pinned

LEMMA PinnedStays ==
  ASSUME UNCHANGED <<opts, list, allowed, refused>>
  PROVE  Pinned' <=> Pinned
BY DEF Pinned

LEMMA TargetCpusStay ==
  ASSUME UNCHANGED <<program, opts, list>>
  PROVE  TargetCpus' = TargetCpus
BY DEF TargetCpus

(* The one operand of pmu-sim-lat_mem_rd. *)
LEMMA OneOperand ==
  ASSUME Placed, Len(list) <= 1, list # <<>>, program = "pmu", opts # {},
         target_cpu \in TargetCpus
  PROVE  1 .. Len(list) = {1} /\ target_cpu = list[1].first
<1> DEFINE Operands == [first : Targets, cpus : SUBSET Targets]
<1>1. list \in Seq(Operands)
  BY SimLatAssumption DEF Placed
<1> HIDE DEF Operands
<1>2. Len(list) \in Nat /\ Len(list) # 0
  BY <1>1
<1> QED BY <1>2 DEF TargetCpus

(* The steps of pmu-sim-lat_mem_rd after the CPUs are set. *)
PmuStep ==
  \/ NextGroup \/ Export \/ LastGroup
  \/ SmallSize \/ StrideInitialize \/ WildRead
  \/ StartWalk \/ Access \/ StopWalk \/ Free

LEMMA PmuSteps ==
  ASSUME [Next]_vars, program' = "pmu"
  PROVE  /\ program = "pmu"
         /\ \/ CheckArgs \/ SetAffinity \/ CgTaskset \/ PmuStep
            \/ LibraryStep \/ Move \/ UNCHANGED vars
<1>1. CASE CheckArgs \/ SetAffinity \/ CgTaskset \/ PmuStep
  BY <1>1
  DEF PmuStep, CheckArgs, SetAffinity, CgTaskset, NextGroup, Export, LastGroup,
      SmallSize, StrideInitialize, WildRead, StartWalk, Access, StopWalk, Free, args
<1>2. CASE StepLoop \/ NextSize \/ OneShot \/ WarmUp \/ MeasureSample
  BY <1>2 DEF StepLoop, NextSize, OneShot, WarmUp, MeasureSample, SimAt, args
<1>3. CASE UserProgram
  BY <1>3 DEF UserProgram, args
<1>4. CASE LibraryStep \/ Move \/ Terminated \/ UNCHANGED vars
  BY <1>4 DEF LibraryStep, Move, Terminated, vars, args
<1> QED BY <1>1, <1>2, <1>3, <1>4 DEF Next, main, loads, PmuStep

(* None of them moves the process; each goes on, or ends it. *)
LEMMA PmuStepStays ==
  ASSUME PmuStep, program = "pmu", PinnedInv
  PROVE  /\ pc \in After /\ pc' \in After \cup Bad
         /\ UNCHANGED <<program, max_work_size, stride, opts, list, target_cpu, allowed, refused, cpu>>
<1>1. pc \in After /\ pc' \in After \cup Bad
  <2>1. CASE NextGroup \/ Export \/ LastGroup \/ StartWalk \/ Access \/ StopWalk \/ Free
    BY <2>1 DEF NextGroup, Export, LastGroup, StartWalk, Access, StopWalk, Free,
                PmuAt, At, Goto, After, WithGroup
  <2>2. CASE SmallSize \/ StrideInitialize
    BY <2>2 DEF SmallSize, StrideInitialize, At, Goto, Back, After, WithGroup, Bad
  <2>3. CASE WildRead
    <3>1. pc = "walk"
      BY <2>3 DEF WildRead, At, PinnedInv, Starting, After, WithGroup, Bad
    <3> QED BY <2>3, <3>1 DEF WildRead, Goto, After, WithGroup, Bad
  <2> QED BY <2>1, <2>2, <2>3 DEF PmuStep
<1>2. UNCHANGED args /\ UNCHANGED place
  BY DEF PmuStep, NextGroup, Export, LastGroup, SmallSize, StrideInitialize, WildRead,
         StartWalk, Access, StopWalk, Free
<1>3. UNCHANGED cpu
  BY DEF PmuStep, NextGroup, Export, LastGroup, SmallSize, StrideInitialize, WildRead,
         StartWalk, Access, StopWalk, Free, CreateSixEventGroup, Begin, Execute, pmuVars
<1> QED BY <1>1, <1>2, <1>3 DEF args, place

LEMMA PinnedStep ==
  ASSUME Placed, PinnedInv, [Next]_vars
  PROVE  PinnedInv'
<1> SUFFICES ASSUME program' = "pmu" PROVE PinnedInv'
  BY DEF PinnedInv
<1> USE DEF Starting
<1>0. /\ program = "pmu"
      /\ \/ CheckArgs \/ SetAffinity \/ CgTaskset \/ PmuStep
         \/ LibraryStep \/ Move \/ UNCHANGED vars
  BY PmuSteps
<1>1. CASE CheckArgs
  <2>1. /\ pc = "args" /\ pc' \in {"affinity", "exit"}
        /\ UNCHANGED <<program, opts, list, allowed, refused, cpu>>
        /\ pc' = "affinity" => ~WrongUse /\ ~TooManyCpus /\ target_cpu' \in TargetCpus
    BY <1>1 DEF CheckArgs, At, Goto, pmuVars
  <2>2. cpu \in allowed /\ refused = FALSE
    BY <1>0, <2>1 DEF PinnedInv
  <2>3. pc' = "affinity" =>
          opts \in {{}, {"t"}, {"g"}} /\ Len(list) <= 1 /\ target_cpu' \in TargetCpus'
    <3>1. TargetCpus' = TargetCpus
      BY <2>1, TargetCpusStay
    <3>2. Len(list) \in Nat
      BY SimLatAssumption DEF Placed
    <3>3. pc' = "affinity" => Len(list) <= 1
      BY <1>0, <2>1, <3>2, SimLatAssumption DEF TooManyCpus
    <3> QED BY <1>0, <2>1, <3>1, <3>3 DEF WrongUse
  <2> QED BY <2>1, <2>2, <2>3 DEF PinnedInv, After, WithGroup, Bad
<1>2. CASE SetAffinity
  <2>1. /\ pc = "affinity" /\ pc' = "cgroup"
        /\ UNCHANGED <<program, opts, list, target_cpu>>
        /\ IF "t" \in opts
           THEN IF CpuSet \cap Cpus # {}
                THEN allowed' = CpuSet \cap Cpus /\ cpu' \in allowed' /\ UNCHANGED refused
                ELSE refused' = TRUE /\ UNCHANGED <<allowed, cpu>>
           ELSE UNCHANGED <<allowed, refused, cpu>>
    BY <1>2 DEF SetAffinity, At, Goto, args
  <2>2. /\ cpu \in allowed /\ refused = FALSE /\ target_cpu \in TargetCpus
        /\ opts \in {{}, {"t"}, {"g"}} /\ Len(list) <= 1
    BY <1>0, <2>1 DEF PinnedInv
  <2>3. target_cpu' \in TargetCpus'
    BY <2>1, <2>2, TargetCpusStay
  <2>4. CASE opts = {"t"}
    <3>1. CASE CpuSet \cap Cpus # {}
      <4>1. list # <<>>
        BY <3>1 DEF CpuSet
      <4>2. CpuSet = {target_cpu}
        BY <1>0, <2>2, <2>4, <4>1, OneOperand DEF CpuSet
      <4>3. allowed' = {target_cpu'} /\ cpu' \in allowed'
        BY <2>1, <2>4, <3>1, <4>2
      <4> QED BY <2>1, <2>2, <2>3, <4>3 DEF PinnedInv, After, WithGroup, Bad
    <3>2. CASE ~(CpuSet \cap Cpus # {})
      <4>1. refused' = TRUE /\ UNCHANGED <<allowed, cpu>>
        BY <2>1, <2>4, <3>2
      <4>2. ~Pinned'
        BY <2>1, <2>4, <4>1, PinnedCasesNext
      <4> QED BY <2>1, <2>2, <2>3, <2>4, <4>1, <4>2 DEF PinnedInv, After, WithGroup, Bad
    <3> QED BY <3>1, <3>2
  <2>5. CASE opts = {} \/ opts = {"g"}
    <3>1. UNCHANGED <<allowed, refused, cpu>>
      BY <2>1, <2>5
    <3>2. Pinned' <=> Pinned
      BY <2>1, <3>1, PinnedStays
    <3>3. opts = {} /\ Pinned => allowed = {target_cpu}
      BY <1>0, <2>2, PinnedCases DEF TargetCpus
    <3> QED BY <2>1, <2>2, <2>3, <2>5, <3>1, <3>2, <3>3 DEF PinnedInv, After, WithGroup, Bad
  <2> QED BY <2>2, <2>4, <2>5
<1>3. CASE CgTaskset
  <2> DEFINE cpus == (UNION {list[n].cpus : n \in 1 .. Len(list)}) \cap Cpus
  <2>1. /\ pc = "cgroup" /\ pc' \in {"main", "exit"}
        /\ UNCHANGED <<program, opts, list, target_cpu>>
        /\ \/ /\ "g" \in opts /\ pc' = "main"
              /\ cpus # {} /\ allowed' = cpus /\ cpu' \in cpus
           \/ /\ "g" \in opts
              /\ pc' = "main" => refused' = TRUE
              /\ UNCHANGED <<allowed, cpu>> \/ cpu' \in allowed'
           \/ "g" \notin opts /\ UNCHANGED <<allowed, refused, cpu>>
    BY <1>3 DEF CgTaskset, At, Goto, args
  <2>2. /\ cpu \in allowed /\ target_cpu \in TargetCpus
        /\ opts \in {{}, {"t"}, {"g"}} /\ Len(list) <= 1
        /\ opts # {"g"} /\ Pinned => allowed = {target_cpu}
    BY <1>0, <2>1 DEF PinnedInv
  <2>3. target_cpu' \in TargetCpus'
    BY <2>1, <2>2, TargetCpusStay
  <2>4. cpu' \in allowed'
    BY <2>1, <2>2
  <2>5. pc' = "main" /\ Pinned' => allowed' = {target_cpu'}
    <3>1. CASE "g" \in opts /\ cpus # {} /\ allowed' = cpus
      <4>1. list # <<>> /\ opts = {"g"}
        BY <2>2, <3>1
      <4>2. cpus = list[1].cpus \cap Cpus /\ target_cpu = list[1].first
        BY <1>0, <2>2, <4>1, OneOperand
      <4>3. Pinned' => list[1].cpus = {target_cpu}
        <5>1. Pinned' => list'[1].cpus = {list'[1].first}
          BY <2>1, <4>1, PinnedCasesNext
        <5> QED BY <2>1, <4>2, <5>1
      <4> QED BY <2>1, <3>1, <4>2, <4>3
    <3>2. CASE "g" \in opts /\ pc' = "main" /\ refused' = TRUE
      <4>1. ~Pinned'
        BY <2>1, <2>2, <3>2, PinnedCasesNext
      <4> QED BY <4>1
    <3>3. CASE "g" \notin opts /\ UNCHANGED <<allowed, refused, cpu>>
      <4>1. Pinned' <=> Pinned
        BY <2>1, <3>3, PinnedStays
      <4> QED BY <2>1, <2>2, <3>3, <4>1
    <3> QED BY <2>1, <3>1, <3>2, <3>3
  <2> HIDE DEF cpus
  <2> QED BY <2>1, <2>2, <2>3, <2>4, <2>5 DEF PinnedInv, After, WithGroup, Bad
<1>4. CASE PmuStep
  <2>1. /\ pc \in After /\ pc' \in After \cup Bad
        /\ UNCHANGED <<program, opts, list, target_cpu, allowed, refused, cpu>>
    BY <1>0, <1>4, PmuStepStays
  <2>2. (Pinned' <=> Pinned) /\ TargetCpus' = TargetCpus
    BY <2>1, PinnedStays, TargetCpusStay
  <2> QED BY <1>0, <2>1, <2>2 DEF PinnedInv, After, WithGroup, Bad
<1>5. CASE LibraryStep \/ Move \/ UNCHANGED vars
  <2>1. UNCHANGED <<program, pc, opts, list, target_cpu, allowed, refused>>
    BY <1>5 DEF LibraryStep, Move, vars, args, place
  <2>2. cpu' \in allowed'
    <3>1. cpu' \in allowed \/ cpu' = cpu
      BY <1>5
      DEF LibraryStep, Move, vars, pmuVars, Migrate, Library, PerfEventOpen, Reset, Start,
          Stop, Read, PrintValues, Close
    <3> QED BY <1>0, <2>1, <3>1 DEF PinnedInv
  <2>3. (Pinned' <=> Pinned) /\ TargetCpus' = TargetCpus
    BY <2>1, PinnedStays, TargetCpusStay
  <2> QED BY <1>0, <2>1, <2>2, <2>3 DEF PinnedInv
<1> QED BY <1>0, <1>1, <1>2, <1>3, <1>4, <1>5

(* A step of a process that is pinned keeps the history of the walk. *)
LEMMA WalkStep ==
  ASSUME SimLatInv, CounterTypeOK, ArgsTyped, PinnedInv, WalkInv, [Next]_vars
  PROVE  WalkInv'
<1> SUFFICES ASSUME program' = "pmu", pc' \in After, Pinned' PROVE WalkInv'
  BY DEF WalkInv
<1> USE SimLatAssumption
<1>0. /\ program = "pmu"
      /\ \/ CheckArgs \/ SetAffinity \/ CgTaskset \/ PmuStep
         \/ LibraryStep \/ Move \/ UNCHANGED vars
  BY PmuSteps
<1>t. /\ max_work_size \in Nat /\ stride \in Nat /\ work \in Nat /\ running \in BOOLEAN
      /\ k \in Group
  BY DEF ArgsTyped, CounterTypeOK
<1>1. CASE CheckArgs \/ SetAffinity
  BY <1>1 DEF CheckArgs, SetAffinity, Goto, After, WithGroup
<1>2. CASE CgTaskset
  <2>1. pc' \in {"main", "exit"} /\ call' = "none"
    BY <1>2 DEF CgTaskset, At, Goto, library
  <2> QED BY <2>1 DEF WalkInv, After, WithGroup
<1>3. CASE PmuStep
  <2>1. /\ pc \in After /\ call = "none"
        /\ UNCHANGED <<max_work_size, stride, opts, list, target_cpu, allowed, refused>>
    <3>1. call = "none"
      BY <1>3
      DEF PmuStep, NextGroup, Export, LastGroup, SmallSize, StrideInitialize, WildRead,
          StartWalk, Access, StopWalk, Free, PmuAt, At
    <3> QED BY <1>0, <1>3, <3>1, PmuStepStays
  <2>2. Pinned /\ Accesses' = Accesses
    BY <2>1, PinnedStays DEF Accesses
  <2>3. allowed = {target_cpu} /\ cpu = target_cpu
    BY <1>0, <2>1, <2>2 DEF PinnedInv
  <2>4. /\ pc \in WithGroup => target = target_cpu /\ size = max_work_size
        /\ pc \in {"loads", "start"} => running = FALSE /\ work = 0
        /\ pc = "start" => j = 0
        /\ pc \in {"start", "walk", "free"} => stride <= max_work_size
        /\ pc = "walk" => j \in 0 .. num_iters /\ running = TRUE /\ work = j
        /\ pc = "free" => running = FALSE /\ work = num_iters
        /\ pc = "export" => running = FALSE /\ work = Accesses
    BY <1>0, <2>1, <2>2 DEF WalkInv
  <2>5. Execute =>
          /\ UNCHANGED <<target, call, running>>
          /\ pc \in WithGroup => work' = IF running THEN work + 1 ELSE work
    BY <2>3, <2>4 DEF Execute, OnTarget
  <2>6. CASE NextGroup
    <3>1. /\ pc' = "loads" /\ call' = "create" /\ size' = max_work_size'
          /\ target' = target_cpu' /\ running' = FALSE /\ work' = 0
      BY <2>1, <2>6 DEF NextGroup, Goto, CreateSixEventGroup
    <3> QED BY <3>1 DEF WalkInv, WithGroup
  <2>7. CASE Export
    <3>1. pc = "export" /\ pc' = "main" /\ work' = work
      BY <2>7 DEF Export, PmuAt, At, Goto, Begin
    <3> QED BY <2>2, <2>4, <3>1 DEF WalkInv, WithGroup
  <2>8. CASE LastGroup
    <3>1. pc' = "end"
      BY <2>8 DEF LastGroup, Goto
    <3> QED BY <3>1 DEF WalkInv, WithGroup
  <2>9. CASE SmallSize
    <3>1. /\ pc = "loads" /\ size < stride /\ pc' = "export"
          /\ UNCHANGED <<size, target, call, running, work>>
      BY <1>0, <2>9
      DEF SmallSize, At, Goto, Back, steps, pmuVars, library, counters, history
    <3>2. work = 0 /\ Accesses = 0 /\ size = max_work_size /\ target = target_cpu
          /\ running = FALSE
      BY <1>t, <2>4, <3>1 DEF Accesses, WithGroup
    <3> QED BY <2>1, <2>2, <3>1, <3>2 DEF WalkInv, WithGroup
  <2>10. CASE StrideInitialize
    <3>1. /\ pc = "loads" /\ size >= stride /\ pc' \in {"start", "exit", "crash"}
          /\ Execute /\ j' = 0 /\ UNCHANGED size
      BY <1>0, <2>10 DEF StrideInitialize, At, Goto, steps
    <3>2. work = 0 /\ size = max_work_size /\ target = target_cpu /\ running = FALSE
      BY <2>4, <3>1 DEF WithGroup
    <3>3. UNCHANGED <<target, call, running, work>>
      BY <2>5, <3>1, <3>2 DEF WithGroup
    <3> QED BY <1>t, <2>1, <3>1, <3>2, <3>3 DEF WalkInv, WithGroup, After
  <2>11. CASE WildRead
    BY <2>11 DEF WildRead, Goto, After, WithGroup
  <2>12. CASE StartWalk
    <3>1. /\ pc = "start" /\ pc' = "walk" /\ call' = "reset_and_start" /\ work' = 0
          /\ UNCHANGED <<size, target, j>>
      BY <2>12 DEF StartWalk, PmuAt, At, Goto, Begin, steps, samples, counters
    <3> QED BY <2>1, <2>4, <3>1 DEF WalkInv, WithGroup
  <2>13. CASE Access
    <3>1. /\ pc = "walk" /\ j < num_iters /\ Execute /\ j' = j + 1 /\ pc' = "walk"
          /\ UNCHANGED size
      BY <2>13 DEF Access, PmuAt, At, steps
    <3>2. work' = work + 1 /\ UNCHANGED <<target, call, running>>
      BY <2>4, <2>5, <3>1 DEF WithGroup
    <3>3. j' \in 0 .. num_iters /\ work' = j'
      BY <2>4, <3>1, <3>2
    <3> QED BY <2>1, <2>4, <3>1, <3>2, <3>3 DEF WalkInv, WithGroup
  <2>14. CASE StopWalk
    <3>1. /\ pc = "walk" /\ j = num_iters /\ pc' = "free" /\ call' = "stop"
          /\ running' = FALSE /\ UNCHANGED <<size, target, work>>
      BY <2>14 DEF StopWalk, PmuAt, At, Goto, Begin, steps, counters
    <3> QED BY <2>1, <2>4, <3>1 DEF WalkInv, WithGroup
  <2>15. CASE Free
    <3>1. pc = "free" /\ pc' = "export" /\ Execute /\ UNCHANGED size
      BY <2>15 DEF Free, PmuAt, At, Goto, steps
    <3>2. UNCHANGED <<target, call, running, work>> /\ running = FALSE
      BY <2>4, <2>5, <3>1 DEF WithGroup
    <3>3. work = Accesses
      BY <2>4, <3>1 DEF Accesses
    <3> QED BY <2>1, <2>2, <2>4, <3>1, <3>2, <3>3 DEF WalkInv, WithGroup
  <2> QED
    BY <1>3, <2>6, <2>7, <2>8, <2>9, <2>10, <2>11, <2>12, <2>13, <2>14, <2>15 DEF PmuStep
<1>4. CASE LibraryStep
  <2>1. /\ UNCHANGED <<pc, max_work_size, stride, opts, list, target_cpu, allowed, refused, size, j>>
        /\ Library
    BY <1>4 DEF LibraryStep, args, place, steps, samples
  <2>2. UNCHANGED <<target, work>> /\ call # "none"
    BY <2>1 DEF Library, PerfEventOpen, Reset, Start, Stop, Read, PrintValues, Close
  <2>3. Pinned /\ Accesses' = Accesses
    BY <2>1, PinnedStays DEF Accesses
  <2>4. pc \in After
    BY <2>1
  <2>5. /\ pc \in WithGroup => target = target_cpu /\ size = max_work_size
        /\ pc = "loads" => running = FALSE /\ work = 0 /\ call \in {"create", "exit"}
        /\ pc # "start" /\ pc # "export"
        /\ pc \in {"walk", "free"} => stride <= max_work_size
        /\ pc = "walk" =>
             call \in {"reset_and_start", "start"} /\ j \in 0 .. num_iters /\ work = 0 /\ j = 0
        /\ pc = "free" => call = "stop" /\ running = FALSE /\ work = num_iters
        /\ pc = "main" => work = Accesses
    BY <1>0, <2>2, <2>3, <2>4 DEF WalkInv
  <2>6. CASE pc = "loads"
    <3>1. call' \in {"create", "none", "exit"} /\ running' = running
      BY <2>1, <2>5, <2>6
      DEF Library, PerfEventOpen, Reset, Start, Stop, Read, PrintValues, Close, Advance
    <3> QED BY <2>1, <2>2, <2>5, <2>6, <3>1 DEF WalkInv, WithGroup
  <2>7. CASE pc = "walk"
    <3>1. /\ call' \in {"reset_and_start", "start", "none"}
          /\ call' = "none" => running' = TRUE
      <4>1. CASE Reset
        BY <2>5, <2>7, <4>1 DEF Reset, Advance
      <4>2. CASE Start
        <5>1. call' = "none" => ~(k < EventNum)
          BY <4>1, <4>2 DEF Start, Advance
        <5>2. k \in 1 .. EventNum /\ EventNum \in Nat
          BY <1>t, PmuCounterAssumption DEF Group
        <5>3. call' = "none" => k = EventNum
          BY <5>1, <5>2
        <5> QED BY <2>5, <2>7, <4>2, <5>3 DEF Start, Advance
      <4> QED
        BY <2>1, <2>5, <2>7, <4>1, <4>2
        DEF Library, PerfEventOpen, Stop, Read, PrintValues, Close
    <3> QED BY <2>1, <2>2, <2>5, <2>7, <3>1 DEF WalkInv, WithGroup
  <2>8. CASE pc = "free"
    <3>1. call' \in {"stop", "none"} /\ running' = running
      BY <2>1, <2>5, <2>8
      DEF Library, PerfEventOpen, Reset, Start, Stop, Read, PrintValues, Close, Advance
    <3> QED BY <2>1, <2>2, <2>5, <2>8, <3>1 DEF WalkInv, WithGroup
  <2>9. CASE pc \in {"main", "end"}
    BY <2>1, <2>2, <2>3, <2>5, <2>9 DEF WalkInv, WithGroup
  <2> QED BY <2>4, <2>5, <2>6, <2>7, <2>8, <2>9 DEF After, WithGroup
<1>5. CASE Move \/ UNCHANGED vars
  <2>1. /\ UNCHANGED <<pc, max_work_size, stride, opts, list, target_cpu, allowed, refused, size, j>>
        /\ UNCHANGED <<target, call, running, work>>
    BY <1>5
    DEF Move, Migrate, vars, args, place, steps, samples, pmuVars, library, counters, history
  <2>2. Pinned /\ Accesses' = Accesses
    BY <2>1, PinnedStays DEF Accesses
  <2> QED BY <1>0, <2>1, <2>2 DEF WalkInv
<1> QED BY <1>0, <1>1, <1>2, <1>3, <1>4, <1>5

LEMMA PinnedInit == Init => PinnedInv /\ WalkInv
<1> SUFFICES ASSUME Init PROVE PinnedInv /\ WalkInv
  OBVIOUS
<1>1. program = "pmu" => pc = "args"
  BY DEF Init
<1>2. cpu \in allowed /\ refused = FALSE
  BY DEF Init
<1> QED BY <1>1, <1>2 DEF PinnedInv, WalkInv, Starting, After, WithGroup

LEMMA PinnedAlways == Spec => []PinnedOK
<1>1. Init => PinnedOK
  BY SimLatInit, CounterInvInit, SizesInit, PinnedInit DEF PinnedOK, SizesOK
<1>2. PinnedOK /\ [Next]_vars => PinnedOK'
  <2> SUFFICES ASSUME PinnedOK, [Next]_vars PROVE PinnedOK'
    OBVIOUS
  <2>1. SimLatInv /\ CounterInv /\ CounterTypeOK /\ Placed
    BY DEF PinnedOK, SimLatInv, CounterInv
  <2>2. SimLatInv' /\ CounterInv'
    BY <2>1, PlacedStep, InTurnStep, ProtocolStep, CounterInvStep DEF SimLatInv
  <2>3. ArgsTyped' /\ PinnedInv' /\ WalkInv'
    BY <2>1, ArgsStep, PinnedStep, WalkStep DEF PinnedOK
  <2> QED BY <2>2, <2>3 DEF PinnedOK
<1> QED BY <1>1, <1>2, PTL DEF Spec

(* Each value a pinned pmu-sim-lat_mem_rd prints is that of one walk, for  *)
(* any number of groups, events and accesses, any CPUs, and any of the     *)
(* ways to ask for one.                                                    *)
THEOREM PinnedCountsAreWholeAlways == Spec => []PinnedCountsAreWhole
<1>1. PinnedOK => PinnedCountsAreWhole
  <2> SUFFICES ASSUME PinnedOK, program = "pmu", call = "print_and_clean", Pinned
               PROVE  \A n \in Group : ret[n] => val[n] \in Accesses .. Accesses + slack
    BY DEF PinnedCountsAreWhole, Accesses
  <2>1. pc = "main"
    BY DEF PinnedOK, SimLatInv, InTurn, MainCalls, LoadsCalls
  <2>2. work = Accesses
    BY <2>1 DEF PinnedOK, WalkInv, After
  <2>3. val \in [Group -> Nat] /\ slack \in Nat /\ work \in Nat
    BY DEF PinnedOK, CounterInv, CounterTypeOK
  <2>4. \A n \in Group : ret[n] => InBounds(val[n])
    BY DEF PinnedOK, CounterInv, ReadSoFar
  <2>5. ASSUME NEW n \in Group, ret[n] PROVE val[n] \in Accesses .. Accesses + slack
    <3>1. InBounds(val[n]) /\ val[n] \in Nat
      BY <2>3, <2>4, <2>5
    <3> QED BY <2>2, <2>3, <3>1 DEF InBounds
  <2> QED BY <2>5
<1> QED BY <1>1, PinnedAlways, PTL
=============================================================================
