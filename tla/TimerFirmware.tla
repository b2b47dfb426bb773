--------------------------- MODULE TimerFirmware ---------------------------
(***************************************************************************)
(* src/test/test_timer from main() on, and its handlers.  ih and ihbody()  *)
(* serve vector 0, ih1 and ihbody1() vector 1, to which line 0, the        *)
(* periodic timer, is dispatched; the other lines that INTR_EN enables,    *)
(* 2, 8, 9, 10 and 15, go to vector 0.  Both handlers read register INTR;  *)
(* ihbody() acknowledges every line it has read, whatever the vector, and  *)
(* counts in j; ihbody1() acknowledges line 0 and counts in k.  main()     *)
(* sleeps and writes both counters to registers after each interrupt.      *)
(*                                                                         *)
(* A handler runs with interrupts off.  Its accesses to INTR and ACK are   *)
(* actions of their own, as are main()'s two writes and its sleep.         *)
(* Hardware, modelled from how the firmware programs it: lines in level    *)
(* mode (register 0x00c: 2 and 10 to 15) are pending while their source is *)
(* up, line 2's while the FIFO has entries; the others from their edge     *)
(* until they are acknowledged; entering a handler turns ie0 and ie1 off   *)
(* until iret; interrupts end a sleep.                                     *)
(*                                                                         *)
(* Left out: boot before it calls main(), the registers that the stubs     *)
(* save (CallStack), $p2, which is set before the first sleep and by each  *)
(* stub, and register 0x28.                                                *)
(***************************************************************************)
EXTENDS Naturals

CONSTANTS
  MaxTicks,    \* bound: ticks of the timer
  MaxPushes,   \* bound: entries the host puts in the FIFO
  MaxOthers    \* bound: interrupts that the other lines of vector 0 cause

ASSUME BoundsAssumption == MaxTicks \in Nat /\ MaxPushes \in Nat /\ MaxOthers \in Nat

Timer == 0       \* line 0, vector 1
FifoLine == 2    \* vector 0
Other == 3       \* bit 0x8, which ihbody() tests; not enabled in INTR_EN
EdgeLine == 8    \* vector 0; for 8 and 9
LevelLine == 10  \* vector 0; for 10 and 15

VARIABLES
  mpc,                 \* main()
  hpc, intr,           \* the handler that runs, and its intr
  ie,                  \* ie0 and ie1
  latched, fifo,       \* edges, entries of the FIFO
  level,               \* the source of LevelLine is up
  ticks, pushes,       \* what the timer and the host have done
  others,              \* edges of EdgeLine, and interrupts for LevelLine alone
  j, k,                \* the counters
  new0, new1,          \* registers 0x800 and 0x804
  new4, new5           \* registers 0x810 and 0x814

done == <<ticks, pushes, others>>
lines == <<latched, fifo, level, done>>
counts == <<j, k, new0, new1>>
report == <<new4, new5>>
vars == <<mpc, hpc, intr, ie, lines, counts, report>>

Status ==
  latched \cup (IF fifo > 0 THEN {FifoLine} ELSE {}) \cup (IF level THEN {LevelLine} ELSE {})

-----------------------------------------------------------------------------
(* main().                                                                 *)

\* Lines 42 to 56: old edges are acknowledged, then lines and flags enabled.
Setup ==
  /\ mpc = "setup"
  /\ latched' = {}
  /\ ie' = TRUE
  /\ mpc' = "sleep"
  /\ UNCHANGED <<hpc, intr, fifo, level, done, counts, report>>

\* mmio_write(0x814, j), after a sleep that an interrupt has ended
ReportJ ==
  /\ mpc = "814" /\ hpc = "idle"
  /\ new5' = j
  /\ mpc' = "810"
  /\ UNCHANGED <<hpc, intr, ie, lines, counts, new4>>

\* mmio_write(0x810, k)
ReportK ==
  /\ mpc = "810" /\ hpc = "idle"
  /\ new4' = k
  /\ mpc' = "awake"
  /\ UNCHANGED <<hpc, intr, ie, lines, counts, new5>>

Sleep ==
  /\ mpc = "awake" /\ hpc = "idle"
  /\ mpc' = "sleep"
  /\ UNCHANGED <<hpc, intr, ie, lines, counts, report>>

Main == Setup \/ ReportJ \/ ReportK \/ Sleep

-----------------------------------------------------------------------------
(* The handlers.                                                           *)

\* The enabled lines that are dispatched to a vector
LinesOf(vector) == IF vector = 0 THEN {FifoLine, EdgeLine, LevelLine} ELSE {Timer}

\* Interrupts for LevelLine alone are bounded: its source is down in the end.
CountLevel ==
  IF Status \cap LinesOf(0) = {LevelLine}
  THEN /\ others' = others + 1
       /\ level' = IF others + 1 < MaxOthers THEN level ELSE FALSE
  ELSE UNCHANGED <<level, others>>

\* When both vectors are pending, either may go first.
TakeInterrupt(vector) ==
  /\ hpc = "idle" /\ ie
  /\ Status \cap LinesOf(vector) # {}
  /\ IF vector = 0 THEN CountLevel ELSE UNCHANGED <<level, others>>
  /\ hpc' = IF vector = 0 THEN "read0" ELSE "read1"
  /\ ie' = FALSE
  /\ UNCHANGED <<mpc, intr, latched, fifo, ticks, pushes, counts, report>>

Interrupt == TakeInterrupt(0) \/ TakeInterrupt(1)

\* ihbody(), lines 15 to 19
ReadIntr ==
  /\ hpc = "read0"
  /\ intr' = Status
  /\ new1' = IF Other \in Status THEN new1 + 1 ELSE new1
  /\ j' = j + 1
  /\ hpc' = "ack0"
  /\ UNCHANGED <<mpc, ie, lines, k, new0, report>>

\* Fault variant of AckAll: every pending line, not those that were read
AckPending ==
  /\ hpc = "ack0"
  /\ fifo' = IF fifo > 0 THEN fifo - 1 ELSE 0
  /\ latched' = {}
  /\ hpc' = "iret"
  /\ UNCHANGED <<mpc, intr, ie, level, done, counts, report>>

\* Fault variant of AckAll: the FIFO keeps its entry.
AckLinesOnly ==
  /\ hpc = "ack0"
  /\ latched' = latched \ intr
  /\ hpc' = "iret"
  /\ UNCHANGED <<mpc, intr, ie, fifo, level, done, counts, report>>

\* Lines 20 and 21: the FIFO gives up an entry, and INTR what was read.
AckAll ==
  /\ hpc = "ack0"
  /\ fifo' = IF fifo > 0 THEN fifo - 1 ELSE 0
  /\ latched' = latched \ intr
  /\ hpc' = "iret"
  /\ UNCHANGED <<mpc, intr, ie, level, done, counts, report>>

\* Fault variant of AckTimer: nothing is acknowledged.
AckNothing ==
  /\ hpc = "read1"
  /\ intr' = Status
  /\ hpc' = "count1"
  /\ UNCHANGED <<mpc, ie, lines, counts, report>>

\* ihbody1(), lines 25 to 27
AckTimer ==
  /\ hpc = "read1"
  /\ intr' = Status
  /\ latched' = latched \ {Timer}
  /\ hpc' = "count1"
  /\ UNCHANGED <<mpc, ie, fifo, level, done, counts, report>>

\* ihbody1(), lines 29 and 31
CountTimer ==
  /\ hpc = "count1"
  /\ new0' = new0 + 1
  /\ k' = k + 1
  /\ hpc' = "iret"
  /\ UNCHANGED <<mpc, intr, ie, lines, j, new1, report>>

\* Fault variant of Iret: a sleeping main() is not woken.
IretAsleep ==
  /\ hpc = "iret"
  /\ hpc' = "idle"
  /\ ie' = TRUE
  /\ UNCHANGED <<mpc, intr, lines, counts, report>>

\* iret; a sleeping main() goes on.
Iret ==
  /\ hpc = "iret"
  /\ hpc' = "idle"
  /\ ie' = TRUE
  /\ mpc' = IF mpc = "sleep" THEN "814" ELSE mpc
  /\ UNCHANGED <<intr, lines, counts, report>>

Handler == ReadIntr \/ AckAll \/ AckTimer \/ CountTimer \/ Iret

-----------------------------------------------------------------------------
(* The environment.                                                        *)

\* The timer, once main() has started it
Tick ==
  /\ ticks < MaxTicks /\ mpc # "setup"
  /\ ticks' = ticks + 1
  /\ latched' = latched \cup {Timer}
  /\ UNCHANGED <<mpc, hpc, intr, ie, fifo, level, pushes, others, counts, report>>

HostPush ==
  /\ pushes < MaxPushes
  /\ pushes' = pushes + 1
  /\ fifo' = fifo + 1
  /\ UNCHANGED <<mpc, hpc, intr, ie, latched, level, ticks, others, counts, report>>

RaiseOther ==
  /\ Other \notin latched
  /\ latched' = latched \cup {Other}
  /\ UNCHANGED <<mpc, hpc, intr, ie, fifo, level, done, counts, report>>

\* A level that is up has an interrupt of its own to come.
RaiseEdge ==
  /\ EdgeLine \notin latched /\ others + (IF level THEN 1 ELSE 0) < MaxOthers
  /\ latched' = latched \cup {EdgeLine}
  /\ others' = others + 1
  /\ UNCHANGED <<mpc, hpc, intr, ie, fifo, level, ticks, pushes, counts, report>>

RaiseLevel ==
  /\ ~level /\ others < MaxOthers
  /\ level' = TRUE
  /\ UNCHANGED <<mpc, hpc, intr, ie, latched, fifo, done, counts, report>>

LowerLevel ==
  /\ level
  /\ level' = FALSE
  /\ UNCHANGED <<mpc, hpc, intr, ie, latched, fifo, done, counts, report>>

Init ==
  /\ mpc = "setup" /\ hpc = "idle"
  /\ intr = {} /\ ie = FALSE
  /\ latched \in {{}, {Timer}} /\ fifo = 0 /\ level = FALSE
  /\ ticks = 0 /\ pushes = 0 /\ others = 0
  /\ j = 0 /\ k = 0 /\ new0 = 0 /\ new1 = 0 /\ new4 = 0 /\ new5 = 0

Next ==
  \/ Main \/ Handler
  \/ Interrupt
  \/ Tick \/ HostPush \/ RaiseOther \/ RaiseEdge \/ RaiseLevel \/ LowerLevel

(* The processor runs the next instruction of whatever runs and takes      *)
(* pending interrupts; between interrupts main() gets on; the timer that   *)
(* main() has started ticks.                                               *)
Spec ==
  /\ Init /\ [][Next]_vars
  /\ WF_vars(Main) /\ WF_vars(Handler)
  /\ WF_vars(Interrupt) /\ WF_vars(Tick)

-----------------------------------------------------------------------------
(* Every count of ihbody() has a cause of its own: an entry of the FIFO,   *)
(* an edge of line 8 or 9, or an interrupt that it was entered for while   *)
(* line 10 or 15 alone was up.                                             *)
TypeOK ==
  /\ mpc \in {"setup", "sleep", "814", "810", "awake"}
  /\ hpc \in {"idle", "read0", "ack0", "read1", "count1", "iret"}
  /\ intr \subseteq {Timer, FifoLine, Other, EdgeLine, LevelLine}
  /\ latched \subseteq {Timer, Other, EdgeLine} /\ level \in BOOLEAN
  /\ fifo \in 0..MaxPushes /\ ticks \in 0..MaxTicks
  /\ pushes \in 0..MaxPushes /\ others \in 0..MaxOthers
  /\ j \in 0..(pushes + others) /\ {k, new0, new1, new4, new5} \subseteq Nat

(* The timer's count never runs ahead: each interrupt of vector 1 takes an *)
(* edge of its own, so k and register 0x800 agree with each other, and     *)
(* with a tick that is still pending do not exceed the ticks.              *)
NoTickTwice ==
  /\ new0 = k
  /\ k + (IF hpc = "count1" THEN 1 ELSE 0) + (IF Timer \in latched /\ mpc # "setup" THEN 1 ELSE 0)
       =< ticks

(* Every tick is noticed: by ihbody1(), or by ihbody(), which takes the    *)
(* edge away when it acknowledges what it has read.  An edge that comes    *)
(* after that read is not in what it acknowledges, and leads to another    *)
(* interrupt.                                                              *)
TickNoticed ==
  \A n \in 0..(MaxTicks + MaxPushes + MaxOthers) :
    (/\ j + k = n /\ Timer \in latched /\ mpc # "setup"
     /\ hpc = "ack0" => Timer \notin intr)
      ~> j + k > n

(* The counters reach the host.  An interrupt between main()'s reports and *)
(* its sleep is counted but not reported, and main() sleeps on old values; *)
(* the next tick after that wakes it, and both are reported.               *)
CountsReported ==
  \A n \in 1..MaxTicks :
    /\ (mpc = "sleep" /\ k >= n /\ ticks < MaxTicks) ~> new4 >= n
    /\ (mpc = "sleep" /\ j >= n /\ ticks < MaxTicks) ~> new5 >= n
=============================================================================
