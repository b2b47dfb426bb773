------------------------ MODULE TimerFirmware_proofs ------------------------
(***************************************************************************)
(* The timer firmware counts no tick twice, and ihbody() no interrupt that *)
(* has no cause, for any number of ticks, commands from the host and       *)
(* interrupts of the other lines.                                          *)
(***************************************************************************)
EXTENDS TimerFirmware, TLAPS

-----------------------------------------------------------------------------
(* The inductive invariant.                                                *)

\* Interrupts are off until main() enables them and while a handler runs.
InterruptsOff ==
  /\ mpc = "setup" => hpc = "idle" /\ ~ie /\ ticks = 0 /\ k = 0 /\ j = 0
  /\ hpc # "idle" => ~ie

\* ihbody1() runs with the timer's edge still pending, until it acknowledges it.
EdgePending == hpc = "read1" => Timer \in latched

\* A level that is up may still cause an interrupt of its own.
LevelBounded == level => others < MaxOthers

\* Causes of vector 0 that are still there, and as many as ihbody() will
\* take away when it acknowledges what it has read
Edge(S) == IF EdgeLine \in S THEN 1 ELSE 0
Pending == fifo + Edge(latched)
Taken == fifo + Edge(latched \cap intr)

\* Every count of ihbody() has a cause of its own among the host's entries
\* and the interrupts of the other lines.  While it runs, the cause is one
\* that is still there to be taken, or an interrupt of the level line, which
\* was counted when the handler was entered.
CountedCauses ==
  /\ fifo =< pushes
  /\ mpc # "setup" =>
       CASE hpc = "read0" -> \/ Pending > 0 /\ j + Pending =< pushes + others
                             \/ j + 1 + Pending =< pushes + others
         [] hpc = "ack0"  -> /\ j > 0
                             /\ \/ Taken > 0 /\ j - 1 + Pending =< pushes + others
                                \/ j + Pending =< pushes + others
         [] OTHER         -> j + Pending =< pushes + others

IInv ==
  TypeOK /\ NoTickTwice /\ InterruptsOff /\ EdgePending /\ LevelBounded /\ CountedCauses

LEMMA InitInv == ASSUME Init PROVE IInv
<1> USE BoundsAssumption DEF Init
<1>1. TypeOK
  <2>1. latched \subseteq {Timer, Other, EdgeLine} OBVIOUS
  <2>2. intr \subseteq {Timer, FifoLine, Other, EdgeLine, LevelLine} OBVIOUS
  <2>3. level \in BOOLEAN BY Zenon
  <2>4. fifo \in 0..MaxPushes /\ ticks \in 0..MaxTicks OBVIOUS
  <2>5. pushes \in 0..MaxPushes /\ others \in 0..MaxOthers /\ j \in 0..(pushes + others) OBVIOUS
  <2>6. {k, new0, new1, new4, new5} \subseteq Nat OBVIOUS
  <2> QED BY <2>1, <2>2, <2>3, <2>5, <2>6, <2>4 DEF TypeOK
<1>2. NoTickTwice BY DEF NoTickTwice
<1>3. InterruptsOff /\ EdgePending /\ LevelBounded BY DEF InterruptsOff, EdgePending, LevelBounded
<1>4. CountedCauses BY DEF CountedCauses
<1> QED BY <1>1, <1>2, <1>3, <1>4 DEF IInv

LEMMA NextInv == ASSUME IInv, [Next]_vars PROVE IInv'
<1> USE BoundsAssumption
    DEF IInv, TypeOK, NoTickTwice, InterruptsOff, EdgePending, LevelBounded, CountedCauses,
        Pending, Taken, Edge, Timer, FifoLine, Other, EdgeLine, LevelLine,
        done, lines, counts, report
<1>1. CASE Setup BY <1>1 DEF Setup
<1>2. CASE ReportJ BY <1>2 DEF ReportJ
<1>3. CASE ReportK BY <1>3 DEF ReportK
<1>4. CASE Sleep BY <1>4 DEF Sleep
<1>5. CASE ReadIntr BY <1>5 DEF ReadIntr, Status
<1>6. CASE AckAll
  <2>1. /\ hpc = "ack0" /\ mpc' = mpc /\ hpc' = "iret" /\ ie' = ie /\ level' = level
        /\ latched' = latched \ intr /\ fifo' = IF fifo > 0 THEN fifo - 1 ELSE 0
        /\ pushes' = pushes /\ others' = others /\ ticks' = ticks
        /\ j' = j /\ k' = k /\ new0' = new0 /\ intr' = intr
        /\ new1' = new1 /\ new4' = new4 /\ new5' = new5
    BY <1>6 DEF AckAll
  <2>2. fifo \in Nat /\ fifo' \in Nat /\ fifo' =< fifo BY <2>1
  <2>3. /\ Taken > 0 => Pending' =< Pending - 1
        /\ Pending' =< Pending
    BY <2>1, <2>2
  <2>4. Pending \in Nat /\ Pending' \in Nat BY <2>2
  <2>5. j + Pending' =< pushes + others BY <2>1, <2>3, <2>4
  <2>6. CountedCauses' BY <2>1, <2>2, <2>5
  <2> QED BY <2>1, <2>2, <2>6
<1>7. CASE AckTimer BY <1>7 DEF AckTimer, Status
<1>8. CASE CountTimer BY <1>8 DEF CountTimer
<1>9. CASE Iret BY <1>9 DEF Iret
<1>10. CASE TakeInterrupt(0)
  <2>1. /\ hpc = "idle" /\ ie /\ mpc # "setup"
        /\ hpc' = "read0" /\ ie' = FALSE /\ mpc' = mpc /\ intr' = intr
        /\ latched' = latched /\ fifo' = fifo /\ ticks' = ticks /\ pushes' = pushes
        /\ j' = j /\ k' = k /\ new0' = new0 /\ new1' = new1 /\ new4' = new4 /\ new5' = new5
    BY <1>10 DEF TakeInterrupt
  <2>2. CASE fifo > 0 \/ EdgeLine \in latched
    <3>1. Status \cap LinesOf(0) # {LevelLine} BY <2>2 DEF Status, LinesOf
    <3>2. level' = level /\ others' = others BY <1>10, <3>1 DEF TakeInterrupt, CountLevel
    <3> QED BY <2>1, <2>2, <3>2
  <2>3. CASE ~(fifo > 0) /\ EdgeLine \notin latched
    <3>1. Status \cap LinesOf(0) \subseteq {LevelLine} BY <2>3 DEF Status, LinesOf
    <3>2. Status \cap LinesOf(0) = {LevelLine} BY <1>10, <3>1 DEF TakeInterrupt
    <3>3. level
      <4>1. LevelLine \in Status BY <3>2
      <4>2. LevelLine \notin latched /\ LevelLine # FifoLine OBVIOUS
      <4> QED BY <4>1, <4>2 DEF Status
    <3>4. others' = others + 1 /\ level' = IF others + 1 < MaxOthers THEN level ELSE FALSE
      BY <1>10, <3>2 DEF TakeInterrupt, CountLevel
    <3>5. others + 1 =< MaxOthers BY <3>3
    <3>6. (level' => others' < MaxOthers) /\ level' \in BOOLEAN BY <3>3, <3>4
    <3>7. CountedCauses' BY <2>1, <2>3, <3>4
    <3>8. TypeOK'
      <4>1. others' \in 0..MaxOthers /\ j' \in 0..(pushes' + others') BY <2>1, <3>4, <3>5
      <4> QED BY <2>1, <3>6, <4>1
    <3> QED BY <2>1, <3>6, <3>7, <3>8
  <2> QED BY <2>2, <2>3
<1>11. CASE TakeInterrupt(1) BY <1>11 DEF TakeInterrupt, LinesOf, Status
<1>12. CASE Tick BY <1>12 DEF Tick
<1>13. CASE HostPush BY <1>13 DEF HostPush
<1>14. CASE RaiseOther BY <1>14 DEF RaiseOther
<1>15. CASE RaiseEdge BY <1>15 DEF RaiseEdge
<1>16. CASE RaiseLevel BY <1>16 DEF RaiseLevel
<1>17. CASE LowerLevel BY <1>17 DEF LowerLevel
<1>18. CASE UNCHANGED vars BY <1>18 DEF vars
<1> QED
  BY <1>1, <1>2, <1>3, <1>4, <1>5, <1>6, <1>7, <1>8, <1>9, <1>10, <1>11, <1>12, <1>13, <1>14,
     <1>15, <1>16, <1>17, <1>18 DEF Next, Main, Handler, Interrupt

(* The strengthening is invariant.                                         *)
THEOREM InductiveInvariant == Spec => []IInv
BY InitInv, NextInv, PTL DEF Spec

(* Every variable keeps its type, and each count of ihbody() has a cause   *)
(* of its own, an entry of the FIFO or an interrupt of lines 8, 9, 10 and  *)
(* 15, however many of each there are.                                     *)
THEOREM TypeCorrect == Spec => []TypeOK
BY InductiveInvariant, PTL DEF IInv

(* Each interrupt of vector 1 takes an edge of its own: the counts of      *)
(* ihbody1() agree and never run ahead of the timer.                       *)
THEOREM TicksCountOnce == Spec => []NoTickTwice
BY InductiveInvariant, PTL DEF IInv
=============================================================================
