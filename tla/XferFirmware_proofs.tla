------------------------ MODULE XferFirmware_proofs ------------------------
(***************************************************************************)
(* Proofs about the command processor for every ring size, FIFO depth,     *)
(* number of event lines and set of command words: its own properties      *)
(* first, then that it implements CommandFifo.                             *)
(***************************************************************************)
EXTENDS XferRefinement, SequenceTheorems, TLAPS

-----------------------------------------------------------------------------
(* Arithmetic of the ring's indices.                                       *)

(* i & 7 and i & 8 of main.c, case by case over one turn of the counters.  *)
LEMMA SlotAndLap ==
  ASSUME NEW i \in 0..(2 * QSize)
  PROVE  /\ i < QSize => Slot(i) = i /\ Lap(i) = 0
         /\ QSize <= i /\ i < 2 * QSize => Slot(i) = i - QSize /\ Lap(i) = 1
         /\ i = 2 * QSize => Slot(i) = 0 /\ Lap(i) = 0
         /\ Slot(i) \in 0..(QSize - 1)
<1> USE SizeAssumption
<1>1. CASE i < QSize
  <2>1. i % QSize = i /\ i \div QSize = 0
    BY <1>1
  <2> QED BY <1>1, <2>1 DEF Slot, Lap
<1>2. CASE QSize <= i /\ i < 2 * QSize
  <2>1. i % QSize = i - QSize
    BY <1>2
  <2>2. i \div QSize = 1
    BY <1>2
  <2> QED BY <1>2, <2>1, <2>2 DEF Slot, Lap
<1>3. CASE i = 2 * QSize
  <2>1. i % QSize = 0
    BY <1>3
  <2>2. i \div QSize = 2
    BY <1>3
  <2> QED BY <1>3, <2>1, <2>2 DEF Slot, Lap
<1> QED BY <1>1, <1>2, <1>3

(* The test enqueue() makes says exactly that QSize commands are queued,   *)
(* also when it sees qget between ++qget and its wrap.                     *)
LEMMA FullIsCount ==
  ASSUME qget \in 0..(2 * QSize), qput \in RingIndex, Count <= QSize
  PROVE  Full <=> Count = QSize
<1>1. qput \in 0..(2 * QSize)
  BY SizeAssumption DEF RingIndex
<1> QED BY <1>1, SizeAssumption, SlotAndLap DEF Full, Count, Wrap, RingIndex

(* The entry a non-full ring writes next is not the one it reads next.     *)
LEMMA SlotsDiffer ==
  ASSUME qget \in 0..(2 * QSize), qput \in RingIndex, Count > 0, Count < QSize
  PROVE  Slot(qput) # Slot(qget)
<1>1. qput \in 0..(2 * QSize)
  BY SizeAssumption DEF RingIndex
<1> QED BY <1>1, SizeAssumption, SlotAndLap DEF Count, Wrap, RingIndex

(* The number of queued commands is a natural number.                      *)
LEMMA CountIsNat ==
  ASSUME qget \in 0..(2 * QSize), qput \in RingIndex
  PROVE  Count \in Nat
BY SizeAssumption DEF Count, Wrap, RingIndex

-----------------------------------------------------------------------------
(* The inductive invariant.                                                *)

(* Where main() is in its setup says what the registers and flags hold,    *)
(* and no handler runs before set_flags(ie0).                              *)
SetupInv ==
  /\ enabled <=> mpc # "setup"
  /\ levelMode <=> mpc \notin {"setup", "mode"}
  /\ ie0 <=> mpc \notin {"setup", "mode", "enable"}
  /\ hpc # "idle" => ie0
  /\ hpc = "lines" => hline >= 1

(* A latched FIFO edge has its command still in the FIFO, or the running   *)
(* handler has just removed it and will acknowledge the edge.              *)
FifoInv ==
  /\ FifoLine \in latched => fifo # <<>> \/ (hpc = "lines" /\ FifoLine \in intr)
  /\ hpc = "pop" => FifoLine \in intr
  /\ FifoReadHasData

IInv == TypeOK /\ SetupInv /\ FifoInv /\ RingBounded /\ JobIsOneCommand

-----------------------------------------------------------------------------
(* enqueue() keeps the ring's part of the invariant, whatever it is given. *)
LEMMA EnqueueKeepsRing ==
  ASSUME TypeOK, RingBounded, JobIsOneCommand,
         NEW w \in Word, Enqueue(w), UNCHANGED <<mpc, jobCmd, jobData>>
  PROVE  /\ queue' \in [0..(QSize - 1) -> Slots]
         /\ qput' \in RingIndex /\ qget' = qget /\ reported' \in BOOLEAN
         /\ RingBounded' /\ JobIsOneCommand'
<1> USE SizeAssumption
<1>1. qget \in 0..(2 * QSize) /\ qput \in RingIndex
  BY DEF TypeOK
<1>2. CASE Full
  <2>1. UNCHANGED <<queue, qget, qput>> /\ reported' = TRUE
    BY <1>2 DEF Enqueue, ring
  <2> QED BY <2>1 DEF TypeOK, RingBounded, Count, JobIsOneCommand, Slot
<1>3. CASE ~Full
  <2>1. /\ queue' = [queue EXCEPT ![Slot(qput)] = w]
        /\ qput' = Wrap(qput + 1)
        /\ qget' = qget /\ reported' = reported
    BY <1>3 DEF Enqueue
  <2>2. Count \in Nat /\ Count < QSize
    BY <1>1, <1>3, CountIsNat, FullIsCount DEF RingBounded
  <2>3. qput' \in RingIndex
    BY <2>1, <1>1 DEF RingIndex, Wrap
  <2>4. Count' = Count + 1
    BY <2>1, <2>2, <1>1 DEF Count, Wrap, RingIndex
  <2>5. RingBounded'
    BY <2>2, <2>4 DEF RingBounded
  <2>6. queue' \in [0..(QSize - 1) -> Slots]
    BY <2>1 DEF TypeOK, Slots
  <2>7. ASSUME mpc \in {"data", "advance"}
        PROVE  queue'[Slot(qget')] = queue[Slot(qget)]
    <3>1. Count > 0
      BY <2>7 DEF RingBounded
    <3>2. Slot(qput) # Slot(qget)
      BY <3>1, <2>2, <1>1, SlotsDiffer
    <3>3. Slot(qget) \in 0..(QSize - 1)
      BY <1>1, SlotAndLap
    <3> QED BY <2>1, <3>2, <3>3 DEF TypeOK
  <2>8. JobIsOneCommand'
    BY <2>1, <2>7 DEF JobIsOneCommand, Slot
  <2> QED BY <2>1, <2>3, <2>5, <2>6, <2>8 DEF TypeOK
<1> QED BY <1>2, <1>3

-----------------------------------------------------------------------------
(* Each step keeps the invariant.                                          *)

(* The host, the event lines and the interrupt entry leave the ring alone. *)
LEMMA EnvironmentKeepsInv ==
  ASSUME IInv, Environment \/ TakeInterrupt
  PROVE  IInv'
<1> USE SizeAssumption DEF IInv
<1>1. ASSUME NEW w \in HostWords, HostPush(w)
      PROVE  IInv'
  <2> USE <1>1 DEF HostPush, ring, setup, mainVars, handlerVars
  <2>1. fifo' \in Seq(HostWords) /\ Len(fifo') <= FifoDepth /\ fifo' # <<>>
    BY DEF TypeOK
  <2>2. TypeOK'
    BY <2>1 DEF TypeOK, Lines, FifoLine
  <2>3. SetupInv'
    BY DEF SetupInv
  <2>4. FifoInv'
    BY <2>1 DEF FifoInv, FifoReadHasData
  <2>5. RingBounded' /\ JobIsOneCommand'
    BY DEF RingBounded, Count, JobIsOneCommand, Slot
  <2> QED BY <2>2, <2>3, <2>4, <2>5
<1>2. ASSUME NEW k \in 1..NLines, RaiseLine(k)
      PROVE  IInv'
  <2> USE <1>2 DEF RaiseLine, ring, setup, mainVars, handlerVars
  <2>1. k \in Lines /\ k # FifoLine
    BY DEF Lines, FifoLine
  <2>2. TypeOK'
    BY <2>1 DEF TypeOK
  <2>3. SetupInv'
    BY DEF SetupInv
  <2>4. FifoInv'
    BY <2>1 DEF FifoInv, FifoReadHasData
  <2>5. RingBounded' /\ JobIsOneCommand'
    BY DEF RingBounded, Count, JobIsOneCommand, Slot
  <2> QED BY <2>2, <2>3, <2>4, <2>5
<1>3. ASSUME TakeInterrupt
      PROVE  IInv'
  <2> USE <1>3 DEF TakeInterrupt, ring, hardware, setup, mainVars
  <2>1. TypeOK'
    BY DEF TypeOK
  <2>2. SetupInv' /\ FifoInv'
    BY DEF SetupInv, FifoInv, FifoReadHasData
  <2>3. RingBounded' /\ JobIsOneCommand'
    BY DEF RingBounded, Count, JobIsOneCommand, Slot
  <2> QED BY <2>1, <2>2, <2>3
<1> QED BY <1>1, <1>2, <1>3 DEF Environment

(* The handler: only TakeFifo and ServeLine touch the ring.                *)
LEMMA HandlerKeepsInv ==
  ASSUME IInv, Handler
  PROVE  IInv'
<1> USE SizeAssumption DEF IInv
<1>1. ASSUME ReadIntr
      PROVE  IInv'
  <2> USE <1>1 DEF ReadIntr, ring, hardware, setup, mainVars
  <2>1. Status \subseteq Lines
    BY DEF Status, TypeOK, Lines, FifoLine
  <2>2. TypeOK'
    BY <2>1 DEF TypeOK
  <2>3. SetupInv'
    BY DEF SetupInv
  <2>4. FifoInv'
    BY DEF FifoInv, FifoReadHasData, Status
  <2>5. RingBounded' /\ JobIsOneCommand'
    BY DEF RingBounded, Count, JobIsOneCommand, Slot
  <2> QED BY <2>2, <2>3, <2>4, <2>5
<1>2. ASSUME TakeFifo
      PROVE  IInv'
  <2> USE <1>2 DEF TakeFifo, hardware, setup, mainVars
  <2>1. Head(fifo) \in Word
    BY DEF FifoInv, FifoReadHasData, TypeOK, Word
  <2>2. /\ queue' \in [0..(QSize - 1) -> Slots]
        /\ qput' \in RingIndex /\ qget' = qget /\ reported' \in BOOLEAN
        /\ RingBounded' /\ JobIsOneCommand'
    BY <2>1, EnqueueKeepsRing
  <2>3. TypeOK'
    BY <2>2 DEF TypeOK
  <2>4. SetupInv' /\ FifoInv'
    BY DEF SetupInv, FifoInv, FifoReadHasData
  <2> QED BY <2>2, <2>3, <2>4
<1>3. ASSUME PopFifo
      PROVE  IInv'
  <2> USE <1>3 DEF PopFifo, ring, setup, mainVars
  <2>1. fifo # <<>>
    BY DEF FifoInv, FifoReadHasData
  <2>2. fifo' \in Seq(HostWords) /\ Len(fifo') <= FifoDepth
    BY <2>1 DEF TypeOK
  <2>3. TypeOK'
    BY <2>2 DEF TypeOK
  <2>4. SetupInv' /\ FifoInv'
    BY DEF SetupInv, FifoInv, FifoReadHasData
  <2>5. RingBounded' /\ JobIsOneCommand'
    BY DEF RingBounded, Count, JobIsOneCommand, Slot
  <2> QED BY <2>3, <2>4, <2>5
<1>4. ASSUME SkipFifo
      PROVE  IInv'
  <2> USE <1>4 DEF SkipFifo, ring, hardware, setup, mainVars
  <2>1. TypeOK'
    BY DEF TypeOK
  <2>2. SetupInv' /\ FifoInv'
    BY DEF SetupInv, FifoInv, FifoReadHasData
  <2>3. RingBounded' /\ JobIsOneCommand'
    BY DEF RingBounded, Count, JobIsOneCommand, Slot
  <2> QED BY <2>1, <2>2, <2>3
<1>5. ASSUME ServeLine
      PROVE  IInv'
  <2> USE <1>5 DEF ServeLine, hardware, setup, mainVars
  <2>1. hline \in 1..NLines /\ LineWord[hline] \in Word
    BY DEF SetupInv, TypeOK, Word
  <2>2. /\ queue' \in [0..(QSize - 1) -> Slots]
        /\ qput' \in RingIndex /\ qget' = qget /\ reported' \in BOOLEAN
        /\ RingBounded' /\ JobIsOneCommand'
    <3>1. CASE hline \in intr
      BY <2>1, <3>1, EnqueueKeepsRing
    <3>2. CASE hline \notin intr
      BY <3>2 DEF ring, TypeOK, RingBounded, Count, JobIsOneCommand, Slot
    <3> QED BY <3>1, <3>2
  <2>3. TypeOK'
    BY <2>1, <2>2 DEF TypeOK
  <2>4. SetupInv' /\ FifoInv'
    BY <2>1 DEF SetupInv, FifoInv, FifoReadHasData
  <2> QED BY <2>2, <2>3, <2>4
<1>6. ASSUME Acknowledge
      PROVE  IInv'
  <2> USE <1>6 DEF Acknowledge, ring, setup, mainVars
  <2>1. TypeOK'
    BY DEF TypeOK
  <2>2. SetupInv' /\ FifoInv'
    BY DEF SetupInv, FifoInv, FifoReadHasData
  <2>3. RingBounded' /\ JobIsOneCommand'
    BY DEF RingBounded, Count, JobIsOneCommand, Slot
  <2> QED BY <2>1, <2>2, <2>3
<1>7. ASSUME ReturnFromInterrupt
      PROVE  IInv'
  <2> USE <1>7 DEF ReturnFromInterrupt, ring, hardware, setup
  <2>1. TypeOK'
    BY DEF TypeOK
  <2>2. SetupInv' /\ FifoInv'
    BY DEF SetupInv, FifoInv, FifoReadHasData
  <2>3. RingBounded' /\ JobIsOneCommand'
    BY DEF RingBounded, Count, JobIsOneCommand, Slot
  <2> QED BY <2>1, <2>2, <2>3
<1> QED BY <1>1, <1>2, <1>3, <1>4, <1>5, <1>6, <1>7 DEF Handler

(* main() and work(): only Advance and WrapGet touch the ring.             *)
LEMMA MainKeepsInv ==
  ASSUME IInv, Main
  PROVE  IInv'
<1> USE SizeAssumption DEF IInv, At
<1>1. ASSUME SetUp \/ SetLevelMode \/ EnableInterrupts \/ Sleep \/ Transfer
      PROVE  IInv'
  <2> USE <1>1 DEF SetUp, SetLevelMode, EnableInterrupts, Sleep, Transfer,
                   ring, hardware, setup, handlerVars
  <2>1. TypeOK'
    BY DEF TypeOK
  <2>2. SetupInv'
    BY DEF SetupInv
  <2>3. FifoInv'
    BY DEF FifoInv, FifoReadHasData
  <2>4. RingBounded' /\ JobIsOneCommand'
    BY DEF RingBounded, Count, JobIsOneCommand, Slot
  <2> QED BY <2>1, <2>2, <2>3, <2>4
<1>2. ASSUME TestEmpty
      PROVE  IInv'
  <2> USE <1>2 DEF TestEmpty, ring, hardware, setup, handlerVars
  <2>1. TypeOK'
    BY DEF TypeOK
  <2>2. SetupInv' /\ FifoInv'
    BY DEF SetupInv, FifoInv, FifoReadHasData
  <2>3. qget # qput => Count > 0
    BY DEF TypeOK, Count, Wrap, RingIndex
  <2>4. RingBounded'
    BY <2>3 DEF RingBounded, Count
  <2>5. JobIsOneCommand'
    BY DEF JobIsOneCommand
  <2> QED BY <2>1, <2>2, <2>4, <2>5
<1>3. ASSUME ReadCmd
      PROVE  IInv'
  <2> USE <1>3 DEF ReadCmd, ring, hardware, setup, handlerVars
  <2>1. Slot(qget) \in 0..(QSize - 1)
    BY SlotAndLap DEF TypeOK
  <2>2. TypeOK'
    BY <2>1 DEF TypeOK
  <2>3. SetupInv' /\ FifoInv'
    BY DEF SetupInv, FifoInv, FifoReadHasData
  <2>4. RingBounded' /\ JobIsOneCommand'
    BY DEF RingBounded, Count, JobIsOneCommand, Slot
  <2> QED BY <2>2, <2>3, <2>4
<1>4. ASSUME ReadData
      PROVE  IInv'
  <2> USE <1>4 DEF ReadData, ring, hardware, setup, handlerVars
  <2>1. Slot(qget) \in 0..(QSize - 1)
    BY SlotAndLap DEF TypeOK
  <2>2. TypeOK'
    BY <2>1 DEF TypeOK
  <2>3. SetupInv' /\ FifoInv'
    BY DEF SetupInv, FifoInv, FifoReadHasData
  <2>4. RingBounded' /\ JobIsOneCommand'
    BY DEF RingBounded, Count, JobIsOneCommand, Slot
  <2> QED BY <2>2, <2>3, <2>4
<1>5. ASSUME Advance
      PROVE  IInv'
  <2> USE <1>5 DEF Advance, hardware, setup, handlerVars
  <2>1. Slot(qget) \in 0..(QSize - 1)
    BY SlotAndLap DEF TypeOK
  <2>2. delivered' = Seen(queue[Slot(qget)])
    BY DEF JobIsOneCommand, Seen
  <2>3. qget + 1 \in 0..(2 * QSize)
    BY DEF TypeOK
  <2>4. TypeOK'
    BY <2>1, <2>2, <2>3 DEF TypeOK
  <2>5. SetupInv' /\ FifoInv'
    BY DEF SetupInv, FifoInv, FifoReadHasData
  <2>6. RingBounded' /\ JobIsOneCommand'
    BY DEF RingBounded, Count, Wrap, JobIsOneCommand, TypeOK, RingIndex
  <2> QED BY <2>4, <2>5, <2>6
<1>6. ASSUME WrapGet
      PROVE  IInv'
  <2> USE <1>6 DEF WrapGet, hardware, setup, handlerVars
  <2>1. TypeOK'
    BY DEF TypeOK, Wrap
  <2>2. SetupInv' /\ FifoInv'
    BY DEF SetupInv, FifoInv, FifoReadHasData
  <2>3. RingBounded' /\ JobIsOneCommand'
    BY DEF RingBounded, Count, Wrap, JobIsOneCommand, TypeOK
  <2> QED BY <2>1, <2>2, <2>3
<1> QED BY <1>1, <1>2, <1>3, <1>4, <1>5, <1>6 DEF Main

-----------------------------------------------------------------------------
(* The invariant holds in every reachable state: the ring, the FIFO and    *)
(* the setup of the firmware are consistent at every point an interrupt    *)
(* can fall.                                                               *)
THEOREM InductiveInvariant == Spec => []IInv
<1>1. Init => IInv
  <2> SUFFICES ASSUME Init PROVE IInv
    OBVIOUS
  <2> USE SizeAssumption DEF Init
  <2>1. TypeOK
    <3>1. EmptySlot \in Slots
      BY DEF Slots
    <3>2. queue \in [0..(QSize - 1) -> Slots]
      BY <3>1
    <3>3. jobCmd \in {w.mthd : w \in Slots} /\ jobData \in {w.data : w \in Slots}
      BY <3>1
    <3>4. delivered \in {Seen(w) : w \in Slots} \cup {NoJob}
      OBVIOUS
    <3>5. qput \in RingIndex /\ qget \in 0..(2 * QSize) /\ qget # 2 * QSize
      BY DEF RingIndex
    <3>6. fifo \in Seq(HostWords) /\ Len(fifo) <= FifoDepth
      OBVIOUS
    <3>7. levelMode \in BOOLEAN /\ enabled \in BOOLEAN /\ ie0 \in BOOLEAN /\ reported \in BOOLEAN
      OBVIOUS
    <3>8. latched \subseteq Lines /\ intr \subseteq Lines /\ hline \in 0..(NLines + 1)
      OBVIOUS
    <3>9. mpc = "setup" /\ hpc = "idle"
      OBVIOUS
    <3> HIDE DEF Init
    <3> QED BY <3>2, <3>3, <3>4, <3>5, <3>6, <3>7, <3>8, <3>9 DEF TypeOK
  <2>2. SetupInv /\ FifoInv /\ JobIsOneCommand
    BY DEF SetupInv, FifoInv, FifoReadHasData, JobIsOneCommand
  <2>3. RingBounded
    BY DEF RingBounded, Count, Wrap
  <2> QED BY <2>1, <2>2, <2>3 DEF IInv
<1>2. IInv /\ [Next]_vars => IInv'
  <2> SUFFICES ASSUME IInv, [Next]_vars PROVE IInv'
    OBVIOUS
  <2>1. CASE Environment \/ TakeInterrupt
    BY <2>1, EnvironmentKeepsInv
  <2>2. CASE Handler
    BY <2>2, HandlerKeepsInv
  <2>3. CASE Main
    BY <2>3, MainKeepsInv
  <2>4. CASE UNCHANGED vars
    BY <2>4 DEF vars, ring, hardware, setup, mainVars, handlerVars, IInv, TypeOK,
       SetupInv, FifoInv, FifoReadHasData, RingBounded, Count, JobIsOneCommand, Slot
  <2> QED BY <2>1, <2>2, <2>3, <2>4 DEF Next
<1> QED BY <1>1, <1>2, PTL DEF Spec

(* Every variable keeps its type; an interrupt never finds qput unwrapped. *)
THEOREM TypeCorrect == Spec => []TypeOK
BY InductiveInvariant, PTL DEF IInv

(* For every ring size, the handler never laps work(), and work() never    *)
(* reads from an empty ring.                                               *)
THEOREM RingIsBounded == Spec => []RingBounded
BY InductiveInvariant, PTL DEF IInv

(* work() never mixes two commands, wherever interrupts fall between its   *)
(* loads.                                                                  *)
THEOREM JobsAreWhole == Spec => []JobIsOneCommand
BY InductiveInvariant, PTL DEF IInv

(* The handler never reads or pops an empty FIFO.                          *)
THEOREM FifoReadsAreValid == Spec => []FifoReadHasData
BY InductiveInvariant, PTL DEF IInv, FifoInv

-----------------------------------------------------------------------------
(* The ring as a sequence.                                                 *)

\* i & 7, up to three turns
LEMMA SlotTurns ==
  ASSUME NEW n \in 0..(3 * QSize - 1)
  PROVE  /\ n < QSize => Slot(n) = n
         /\ QSize =< n /\ n < 2 * QSize => Slot(n) = n - QSize
         /\ 2 * QSize =< n => Slot(n) = n - 2 * QSize
         /\ Slot(n) \in 0..(QSize - 1)
<1> USE SizeAssumption
<1>1. CASE n < QSize
  <2>1. n % QSize = n BY <1>1
  <2> QED BY <1>1, <2>1 DEF Slot
<1>2. CASE QSize =< n /\ n < 2 * QSize
  <2>1. n % QSize = n - QSize BY <1>2
  <2> QED BY <1>2, <2>1 DEF Slot
<1>3. CASE 2 * QSize =< n
  <2>1. n % QSize = n - 2 * QSize BY <1>3
  <2> QED BY <1>3, <2>1 DEF Slot
<1> QED BY <1>1, <1>2, <1>3

\* The entries that are queued are others than the one written next, which
\* is the one behind them.
LEMMA QueuedSlots ==
  ASSUME qget \in 0..(2 * QSize), qput \in RingIndex, Count \in 0..QSize,
         NEW j \in 1..Count
  PROVE  /\ Slot(qget + j - 1) \in 0..(QSize - 1)
         /\ Count < QSize => Slot(qget + j - 1) # Slot(qput)
<1> USE SizeAssumption
<1>1. qget + j - 1 \in 0..(3 * QSize - 1) /\ qput \in 0..(3 * QSize - 1)
  BY DEF RingIndex
<1>2. /\ qget + j - 1 < QSize => Slot(qget + j - 1) = qget + j - 1
      /\ QSize =< qget + j - 1 /\ qget + j - 1 < 2 * QSize => Slot(qget + j - 1) = qget + j - 1 - QSize
      /\ 2 * QSize =< qget + j - 1 => Slot(qget + j - 1) = qget + j - 1 - 2 * QSize
      /\ Slot(qget + j - 1) \in 0..(QSize - 1)
  BY <1>1, SlotTurns
<1>3. /\ qput < QSize => Slot(qput) = qput
      /\ QSize =< qput => Slot(qput) = qput - QSize
  BY <1>1, SlotTurns DEF RingIndex
<1> QED BY <1>1, <1>2, <1>3 DEF Count, Wrap, RingIndex

LEMMA NextSlot ==
  ASSUME qget \in 0..(2 * QSize), qput \in RingIndex, Count \in 0..QSize, Count < QSize
  PROVE  Slot(qget + Count) = Slot(qput)
<1> USE SizeAssumption
<1>1. qget + Count \in 0..(3 * QSize - 1) /\ qput \in 0..(3 * QSize - 1)
  BY DEF RingIndex
<1>2. /\ qget + Count < QSize => Slot(qget + Count) = qget + Count
      /\ QSize =< qget + Count /\ qget + Count < 2 * QSize => Slot(qget + Count) = qget + Count - QSize
      /\ 2 * QSize =< qget + Count => Slot(qget + Count) = qget + Count - 2 * QSize
  BY <1>1, SlotTurns
<1>3. /\ qput < QSize => Slot(qput) = qput
      /\ QSize =< qput => Slot(qput) = qput - QSize
  BY <1>1, SlotTurns DEF RingIndex
<1> QED BY <1>1, <1>2, <1>3 DEF Count, Wrap, RingIndex

QueueSeq ==
  /\ Count \in 0..QSize
  /\ Queued \in Seq(Slots) /\ Len(Queued) = Count
  /\ \A j \in 1..Count : Queued[j] = queue[Slot(qget + j - 1)]

LEMMA QueuedIsSeq == IInv => QueueSeq
<1> SUFFICES ASSUME IInv PROVE QueueSeq OBVIOUS
<1>1. /\ qget \in 0..(2 * QSize) /\ qput \in RingIndex
      /\ queue \in [0..(QSize - 1) -> Slots] /\ Count =< QSize
  BY DEF IInv, TypeOK, RingBounded
<1>2. Count \in 0..QSize BY <1>1, CountIsNat, SizeAssumption
<1>3. \A j \in 1..Count : queue[Slot(qget + j - 1)] \in Slots
  BY <1>1, <1>2, QueuedSlots
<1>4. Queued \in [1..Count -> Slots] BY <1>3 DEF Queued
<1> QED BY <1>2, <1>4 DEF Queued, QueueSeq

-----------------------------------------------------------------------------
(* Steps that leave the ring alone, and enqueue().                         *)

LEMMA SameRing ==
  ASSUME UNCHANGED <<queue, qget, qput>>
  PROVE  Queued' = Queued
BY DEF Queued, Count, Slot

\* enqueue() offers its word to the queue of CommandFifo.
LEMMA EnqueueOffers ==
  ASSUME IInv, IInv', NEW w \in Word, Enqueue(w)
  PROVE  Abstract!Offer(w)
<1> USE SizeAssumption
<1>1. /\ qget \in 0..(2 * QSize) /\ qput \in RingIndex
      /\ queue \in [0..(QSize - 1) -> Slots] /\ Count \in 0..QSize /\ Len(Queued) = Count
      /\ Queued \in Seq(Slots)
  BY QueuedIsSeq DEF IInv, TypeOK, QueueSeq
<1>2. Full <=> Count = QSize BY <1>1, FullIsCount
<1>3. CASE Full
  <2>1. reported' = TRUE /\ UNCHANGED <<queue, qget, qput>> BY <1>3 DEF Enqueue, ring
  <2> QED BY <1>1, <1>2, <1>3, <2>1, SameRing DEF Abstract!Offer
<1>4. CASE ~Full
  <2>1. /\ queue' = [queue EXCEPT ![Slot(qput)] = w] /\ qput' = Wrap(qput + 1)
        /\ UNCHANGED <<qget, reported>>
    BY <1>4 DEF Enqueue
  <2>2. Count < QSize BY <1>1, <1>2, <1>4
  <2>3. Count' = Count + 1 BY <1>1, <2>1, <2>2 DEF Count, Wrap, RingIndex
  <2>4. Queued' \in Seq(Slots) /\ Len(Queued') = Count + 1
        /\ \A j \in 1..(Count + 1) : Queued'[j] = queue'[Slot(qget + j - 1)]
    <3>1. QueueSeq' BY QueuedIsSeq, PTL
    <3> QED BY <2>1, <2>3, <3>1 DEF QueueSeq, Slots
  <2>5. w \in Slots BY DEF Slots
  <2>6. ASSUME NEW j \in 1..(Count + 1) PROVE Queued'[j] = Append(Queued, w)[j]
    <3>1. CASE j = Count + 1
      <4>1. Slot(qput) \in 0..(QSize - 1) BY <1>1, SlotAndLap DEF RingIndex
      <4>2. Slot(qget + j - 1) = Slot(qput) BY <1>1, <2>2, <3>1, NextSlot
      <4> QED BY <1>1, <2>1, <2>4, <2>5, <3>1, <4>1, <4>2
    <3>2. CASE j \in 1..Count
      <4>1. Slot(qget + j - 1) # Slot(qput) /\ Slot(qget + j - 1) \in 0..(QSize - 1)
        BY <1>1, <2>2, <3>2, QueuedSlots
      <4>2. Queued'[j] = queue[Slot(qget + j - 1)] BY <1>1, <2>1, <2>4, <4>1
      <4>3. Queued[j] = queue[Slot(qget + j - 1)] BY <3>2, QueuedIsSeq DEF QueueSeq
      <4> QED BY <1>1, <2>5, <3>2, <4>2, <4>3
    <3> QED BY <1>1, <3>1, <3>2
  <2>7. Append(Queued, w) \in Seq(Slots) /\ Len(Append(Queued, w)) = Count + 1 BY <1>1, <2>5
  <2>8. Queued' = Append(Queued, w) BY <2>4, <2>6, <2>7, SeqEqual
  <2> QED BY <1>1, <2>1, <2>2, <2>8 DEF Abstract!Offer
<1> QED BY <1>3, <1>4

-----------------------------------------------------------------------------
(* Every step is one of CommandFifo or a stutter.                          *)

Step == [Abstract!AbsNext]_(Abstract!absVars)

LEMMA Stutters ==
  ASSUME NotTaken' = NotTaken, Queued' = Queued, UNCHANGED <<delivered, reported>>
  PROVE  Step
BY DEF Step, Abstract!absVars

LEMMA TailOfAppend ==
  ASSUME NEW S, NEW s \in Seq(S), s # <<>>, NEW x \in S
  PROVE  Tail(Append(s, x)) = Append(Tail(s), x)
<1>1. Len(s) \in Nat \ {0} BY EmptySeq
<1>2. /\ Tail(s) \in Seq(S) /\ Len(Tail(s)) = Len(s) - 1
      /\ \A k \in 1..(Len(s) - 1) : Tail(s)[k] = s[k + 1]
  BY HeadTailProperties
<1>3. /\ Append(s, x) \in Seq(S) /\ Append(s, x) # <<>> /\ Len(Append(s, x)) = Len(s) + 1
      /\ \A k \in 1..(Len(s) + 1) : Append(s, x)[k] = IF k = Len(s) + 1 THEN x ELSE s[k]
  BY <1>1
<1>4. /\ Tail(Append(s, x)) \in Seq(S) /\ Len(Tail(Append(s, x))) = Len(s)
      /\ \A k \in 1..Len(s) : Tail(Append(s, x))[k] = Append(s, x)[k + 1]
  <2>1. Len(s) + 1 - 1 = Len(s) BY <1>1
  <2> QED BY <1>3, <2>1, HeadTailProperties
<1>5. /\ Append(Tail(s), x) \in Seq(S) /\ Len(Append(Tail(s), x)) = Len(s)
      /\ \A k \in 1..Len(s) :
           Append(Tail(s), x)[k] = IF k = Len(s) THEN x ELSE Tail(s)[k]
  <2> DEFINE t == Tail(s)
  <2>1. t \in Seq(S) /\ Len(t) = Len(s) - 1 BY <1>2
  <2> HIDE DEF t
  <2>2. /\ Append(t, x) \in Seq(S) /\ Len(Append(t, x)) = Len(t) + 1
        /\ \A k \in 1..(Len(t) + 1) : Append(t, x)[k] = IF k = Len(t) + 1 THEN x ELSE t[k]
    BY <2>1
  <2>3. Len(t) + 1 = Len(s) BY <1>1, <2>1
  <2>4. /\ Append(t, x) \in Seq(S) /\ Len(Append(t, x)) = Len(s)
        /\ \A k \in 1..Len(s) : Append(t, x)[k] = IF k = Len(s) THEN x ELSE t[k]
    BY <2>2, <2>3
  <2> QED BY <2>4 DEF t
<1>6. ASSUME NEW k \in 1..Len(s) PROVE Tail(Append(s, x))[k] = Append(Tail(s), x)[k]
  <2>1. Tail(Append(s, x))[k] = IF k = Len(s) THEN x ELSE s[k + 1] BY <1>1, <1>3, <1>4
  <2>2. k # Len(s) => k \in 1..(Len(s) - 1) BY <1>1
  <2> QED BY <1>2, <1>5, <2>1, <2>2
<1> QED BY <1>4, <1>5, <1>6, SeqEqual

LEMMA EnvironmentSteps ==
  ASSUME IInv, Environment \/ TakeInterrupt
  PROVE  Step
<1>1. ASSUME NEW w \in HostWords, HostPush(w)
      PROVE  Step
  <2> USE <1>1 DEF HostPush, ring, mainVars, handlerVars
  <2>1. fifo \in Seq(HostWords) /\ (hpc = "pop" => fifo # <<>>)
    BY DEF IInv, TypeOK, FifoInv, FifoReadHasData
  <2>2. hpc' = hpc /\ fifo' = Append(fifo, w) OBVIOUS
  <2>3. fifo # <<>> => Tail(Append(fifo, w)) = Append(Tail(fifo), w) BY <2>1, TailOfAppend
  <2>4. NotTaken' = Append(NotTaken, w) BY <2>1, <2>2, <2>3 DEF NotTaken
  <2>5. Queued' = Queued BY SameRing
  <2>6. Abstract!Submit(w) BY <2>4, <2>5 DEF Abstract!Submit
  <2> QED BY <2>6 DEF Step, Abstract!AbsNext
<1>2. ASSUME NEW k \in 1..NLines, RaiseLine(k)
      PROVE  Step
  <2>1. UNCHANGED <<queue, qget, qput, fifo, hpc, delivered, reported>>
    BY <1>2 DEF RaiseLine, ring, mainVars, handlerVars
  <2> QED BY <2>1, SameRing, Stutters DEF NotTaken
<1>3. ASSUME TakeInterrupt
      PROVE  Step
  <2>1. /\ UNCHANGED <<queue, qget, qput, fifo, delivered, reported>>
        /\ hpc = "idle" /\ hpc' = "read"
    BY <1>3 DEF TakeInterrupt, ring, hardware, mainVars
  <2> QED BY <2>1, SameRing, Stutters DEF NotTaken
<1> QED BY <1>1, <1>2, <1>3 DEF Environment

LEMMA HandlerSteps ==
  ASSUME IInv, IInv', Handler
  PROVE  Step
<1>1. ASSUME ReadIntr \/ SkipFifo \/ Acknowledge \/ ReturnFromInterrupt
      PROVE  Step
  <2>1. /\ UNCHANGED <<queue, qget, qput, fifo, delivered, reported>>
        /\ hpc # "pop" /\ hpc' # "pop"
    BY <1>1 DEF ReadIntr, SkipFifo, Acknowledge, ReturnFromInterrupt, ring, hardware, mainVars
  <2> QED BY <2>1, SameRing, Stutters DEF NotTaken
<1>2. ASSUME TakeFifo
      PROVE  Step
  <2> USE <1>2 DEF TakeFifo, hardware, mainVars
  <2>1. fifo \in Seq(HostWords) /\ fifo # <<>>
    BY DEF IInv, TypeOK, FifoInv, FifoReadHasData
  <2>2. Head(fifo) \in Word BY <2>1 DEF Word
  <2>3. NotTaken = fifo /\ NotTaken' = Tail(fifo) BY DEF NotTaken
  <2>4. Abstract!Offer(Head(fifo)) BY <2>2, EnqueueOffers
  <2>5. Abstract!TakeSubmitted BY <2>1, <2>3, <2>4 DEF Abstract!TakeSubmitted
  <2> QED BY <2>5 DEF Step, Abstract!AbsNext
<1>3. ASSUME PopFifo
      PROVE  Step
  <2>1. /\ UNCHANGED <<queue, qget, qput, delivered, reported>>
        /\ hpc = "pop" /\ hpc' # "pop" /\ fifo' = Tail(fifo)
    BY <1>3 DEF PopFifo, ring, mainVars
  <2> QED BY <2>1, SameRing, Stutters DEF NotTaken
<1>4. ASSUME ServeLine
      PROVE  Step
  <2> USE <1>4 DEF ServeLine, hardware, mainVars
  <2>1. hline \in 1..NLines /\ LineWord[hline] \in Word
    BY SizeAssumption DEF IInv, SetupInv, TypeOK, Word
  <2>2. NotTaken' = NotTaken BY DEF NotTaken
  <2>3. CASE hline \in intr
    <3>1. Abstract!Offer(LineWord[hline]) BY <2>1, <2>3, EnqueueOffers
    <3>2. Abstract!TakeEvent(LineWord[hline]) BY <2>2, <3>1 DEF Abstract!TakeEvent
    <3>3. LineWord[hline] \in {LineWord[k] : k \in 1..NLines} BY <2>1
    <3> QED BY <3>2, <3>3 DEF Step, Abstract!AbsNext
  <2>4. CASE hline \notin intr
    BY <2>2, <2>4, SameRing, Stutters DEF ring
  <2> QED BY <2>3, <2>4
<1> QED BY <1>1, <1>2, <1>3, <1>4 DEF Handler

\* ++qget hands the oldest command to work() and frees its entry.
LEMMA AdvanceDelivers ==
  ASSUME IInv, IInv', Advance
  PROVE  Abstract!Deliver
<1> USE SizeAssumption DEF Advance, At, hardware, handlerVars
<1>1. QueueSeq /\ QueueSeq' BY QueuedIsSeq, PTL
<1>2. /\ qget \in 0..(2 * QSize) /\ qget # 2 * QSize /\ qput \in RingIndex
      /\ Count > 0 /\ qget' = qget + 1 /\ UNCHANGED <<queue, qput>>
  BY DEF IInv, TypeOK, RingBounded
<1>3. Count' = Count - 1 BY <1>2 DEF Count, Wrap, RingIndex
<1>4. Queued # <<>> /\ Head(Queued) = queue[Slot(qget)]
  <2>1. Len(Queued) > 0 /\ Queued[1] = queue[Slot(qget + 1 - 1)]
    BY <1>1, <1>2 DEF QueueSeq
  <2>2. qget + 1 - 1 = qget BY <1>2
  <2> QED BY <1>1, <2>1, <2>2 DEF QueueSeq
<1>5. delivered' = Seen(Head(Queued))
  BY <1>4 DEF IInv, JobIsOneCommand, Seen
<1>6. Queued' = Tail(Queued)
  <2>1. /\ Queued \in Seq(Slots) /\ Len(Queued) = Count
        /\ Queued' \in Seq(Slots) /\ Len(Queued') = Count - 1
        /\ Count \in Nat
    BY <1>1, <1>3 DEF QueueSeq, Slots
  <2>2. /\ Tail(Queued) \in Seq(Slots) /\ Len(Tail(Queued)) = Count - 1
        /\ \A j \in 1..(Count - 1) : Tail(Queued)[j] = Queued[j + 1]
    BY <1>4, <2>1
  <2>3. ASSUME NEW j \in 1..(Count - 1) PROVE Queued'[j] = Queued[j + 1]
    <3>1. Queued'[j] = queue[Slot(qget + 1 + j - 1)]
      BY <1>1, <1>2, <1>3 DEF QueueSeq, Slot
    <3>2. j + 1 \in 1..Count /\ qget + 1 + j - 1 = qget + (j + 1) - 1 BY <1>2, <2>1
    <3> QED BY <1>1, <3>1, <3>2 DEF QueueSeq
  <2> QED BY <2>1, <2>2, <2>3, SeqEqual
<1>7. NotTaken' = NotTaken BY DEF NotTaken
<1> QED BY <1>4, <1>5, <1>6, <1>7 DEF Abstract!Deliver

\* The wrap of qget moves no entry.
LEMMA WrapKeepsQueued ==
  ASSUME IInv, IInv', WrapGet
  PROVE  Queued' = Queued
<1> USE SizeAssumption DEF WrapGet
<1>1. QueueSeq /\ QueueSeq' BY QueuedIsSeq, PTL
<1>2. /\ qget \in 0..(2 * QSize) /\ qput \in RingIndex
      /\ qget' = Wrap(qget) /\ UNCHANGED <<queue, qput>>
  BY DEF IInv, TypeOK
<1>3. Count' = Count BY <1>2 DEF Count, Wrap
<1>4. /\ Queued \in Seq(Slots) /\ Len(Queued) = Count /\ Count \in 0..QSize
      /\ Queued' \in Seq(Slots) /\ Len(Queued') = Count
  BY <1>1, <1>3 DEF QueueSeq, Slots
<1>5. ASSUME NEW j \in 1..Count PROVE Queued'[j] = Queued[j]
  <2>1. /\ Queued'[j] = queue[Slot(qget' + j - 1)]
        /\ Queued[j] = queue[Slot(qget + j - 1)]
    BY <1>1, <1>2, <1>3 DEF QueueSeq, Slot
  <2>2. Slot(qget' + j - 1) = Slot(qget + j - 1)
    <3>1. CASE qget # 2 * QSize BY <1>2, <3>1 DEF Wrap
    <3>2. CASE qget = 2 * QSize
      <4>1. j - 1 \in 0..(QSize - 1) BY <1>4
      <4>2. qget' + j - 1 = j - 1 /\ qget + j - 1 \in (2 * QSize)..(3 * QSize - 1)
        BY <1>2, <1>4, <3>2, <4>1 DEF Wrap
      <4>3. Slot(j - 1) = j - 1 BY <4>1, SlotTurns
      <4>4. Slot(qget + j - 1) = qget + j - 1 - 2 * QSize
        <5>1. qget + j - 1 \in 0..(3 * QSize - 1) /\ 2 * QSize =< qget + j - 1 BY <4>2
        <5>2. \A n \in 0..(3 * QSize - 1) : 2 * QSize =< n => Slot(n) = n - 2 * QSize
          BY SlotTurns
        <5> DEFINE n == qget + j - 1
        <5>3. n \in 0..(3 * QSize - 1) /\ 2 * QSize =< n BY <5>1
        <5> HIDE DEF n
        <5>4. Slot(n) = n - 2 * QSize BY <5>2, <5>3
        <5>5. qget + j - 1 \in Int /\ Slot(qget + j - 1) = (qget + j - 1) - 2 * QSize
          BY <5>1, <5>4 DEF n
        <5> QED BY <1>2, <1>4, <5>5
      <4> QED BY <1>2, <3>2, <4>1, <4>2, <4>3, <4>4
    <3> QED BY <3>1, <3>2
  <2> QED BY <2>1, <2>2
<1> QED BY <1>4, <1>5, SeqEqual

LEMMA MainSteps ==
  ASSUME IInv, IInv', Main
  PROVE  Step
<1>1. ASSUME \/ SetUp \/ SetLevelMode \/ EnableInterrupts \/ Sleep
             \/ TestEmpty \/ ReadCmd \/ ReadData \/ Transfer
      PROVE  Step
  <2>1. UNCHANGED <<queue, qget, qput, fifo, hpc, delivered, reported>>
    BY <1>1 DEF SetUp, SetLevelMode, EnableInterrupts, Sleep, TestEmpty, ReadCmd, ReadData,
                Transfer, ring, hardware, handlerVars
  <2> QED BY <2>1, SameRing, Stutters DEF NotTaken
<1>2. ASSUME Advance
      PROVE  Step
  BY <1>2, AdvanceDelivers DEF Step, Abstract!AbsNext
<1>3. ASSUME WrapGet
      PROVE  Step
  <2>1. UNCHANGED <<fifo, hpc, delivered, reported>> BY <1>3 DEF WrapGet, hardware, handlerVars
  <2> QED BY <1>3, <2>1, WrapKeepsQueued, Stutters DEF NotTaken
<1> QED BY <1>1, <1>2, <1>3 DEF Main

LEMMA InitMaps == ASSUME Init PROVE Abstract!AbsInit
<1>1. Count = 0 BY SizeAssumption DEF Init, Count, Wrap
<1>2. Queued = <<>> BY <1>1 DEF Queued
<1>3. NotTaken = <<>> BY DEF Init, NotTaken
<1> QED BY <1>2, <1>3 DEF Init, Abstract!AbsInit

(* Commands reach work() in order, once each, unmixed, or are reported as  *)
(* rejected by a full ring: the firmware implements CommandFifo.           *)
THEOREM RefinesCommandFifo == Spec => ImplementsCommandFifo
<1>1. Init => Abstract!AbsInit BY InitMaps
<1>2. IInv /\ IInv' /\ [Next]_vars => Step
  <2> SUFFICES ASSUME IInv, IInv', [Next]_vars PROVE Step
    OBVIOUS
  <2>1. CASE Next BY <2>1, EnvironmentSteps, HandlerSteps, MainSteps DEF Next
  <2>2. CASE UNCHANGED vars
    <3>1. UNCHANGED <<queue, qget, qput, fifo, hpc, delivered, reported>>
      BY <2>2 DEF vars, ring, hardware, mainVars, handlerVars
    <3> QED BY <3>1, SameRing, Stutters DEF NotTaken
  <2> QED BY <2>1, <2>2
<1> QED BY <1>1, <1>2, InductiveInvariant, PTL
     DEF Spec, Step, ImplementsCommandFifo, Abstract!AbsSpec
=============================================================================
