---------------------------- MODULE XferFirmware ----------------------------
(***************************************************************************)
(* The command processor of src/test/test_xfers: main() sleeps until an    *)
(* interrupt, calls work(), and sleeps again; the interrupt handler ih /   *)
(* ihbody() fills an eight entry ring that work() empties.                 *)
(*                                                                         *)
(* main() can be interrupted between any two of its accesses to the ring,  *)
(* so each of them is an action of its own.  The handler runs with         *)
(* interrupts off and main() suspended: what it does between two accesses  *)
(* to the interrupt and FIFO registers is one action, and the host and the *)
(* event lines may act between any two of its actions.                     *)
(*                                                                         *)
(* The interrupt controller, the host FIFO and the sleep instruction are   *)
(* hardware; they are modelled from how the firmware programs them.        *)
(* q2 is left out: nothing in the source adds to it, so q2get # q2put is   *)
(* false whenever work() tests it.  Flag $p2 is left out: it is set before *)
(* the first sleep and by every iret, and never cleared.                   *)
(***************************************************************************)
EXTENDS Naturals, Sequences

CONSTANTS
  QSize,       \* entries of the ring (8 in the source)
  FifoDepth,   \* entries of the hardware FIFO
  HostWords,   \* pairs (command, data) the host can push
  NLines,      \* event lines the handler tests after the FIFO (4)
  LineWord,    \* [1..NLines -> word], what each line enqueues
  EmptySlot,   \* the zeroed entry every slot of the ring starts with
  NoJob        \* no command has been given to work() yet

(* A command word is a record: mthd is what the masked command keeps, sub  *)
(* the bits 11 to 14 that work() masks off.                                *)
Word == HostWords \cup {LineWord[k] : k \in 1..NLines}

ASSUME SizeAssumption == QSize \in Nat \ {0} /\ NLines \in Nat /\ FifoDepth \in Nat \ {0}
ASSUME LineAssumption == DOMAIN LineWord = 1..NLines

FifoLine == 0   \* bit 2 of INTR; the event lines are 1..NLines
Lines == 0..NLines

VARIABLES
  queue, qget, qput,      \* the ring of main.c
  fifo,                   \* the host's FIFO, oldest first
  latched,                \* lines whose edge is latched in INTR
  levelMode,              \* bit 2 of register 0x00c
  enabled,                \* INTR_EN holds 0x8704
  ie0,                    \* $flags.ie0
  mpc, jobCmd, jobData,   \* main(), and cmd and data of work()
  hpc, hline, intr,       \* the handler, the line it is at, its intr
  delivered,              \* in_temp_cmd and in_temp_data
  reported                \* error() has written NEWSCRATCH6 and INTR_UP_SET

ring == <<queue, qget, qput>>
hardware == <<fifo, latched>>
setup == <<levelMode, enabled, ie0>>
mainVars == <<mpc, jobCmd, jobData, delivered>>
handlerVars == <<hpc, hline, intr, reported>>
vars == <<ring, hardware, setup, mainVars, handlerVars>>

-----------------------------------------------------------------------------
(* The ring.  qget and qput count modulo twice the size; between ++qget    *)
(* and its wrap, qget is 2 * QSize, which an interrupt can see.            *)

Slot(i) == i % QSize              \* i & 7
Lap(i) == (i \div QSize) % 2      \* i & 8, as a bit

\* Fault variant of Full: enqueue() without its test
NeverFull == FALSE

Full == Slot(qget) = Slot(qput) /\ Lap(qget) # Lap(qput)

\* Fault variant of Wrap: "if (i > 0x10)"
WrapLate(i) == IF i = 2 * QSize + 1 THEN 0 ELSE i

Wrap(i) == IF i = 2 * QSize THEN 0 ELSE i

\* Fault variant of Enqueue: a full ring gives up its oldest entry.
EnqueueOverOldest(w) ==
  /\ queue' = [queue EXCEPT ![Slot(qput)] = w]
  /\ qput' = Wrap(qput + 1)
  /\ qget' = IF Full THEN Wrap(qget + 1) ELSE qget
  /\ UNCHANGED reported

\* Fault variant of Enqueue: a full ring drops the word and tells nobody.
EnqueueSilently(w) ==
  /\ queue' = IF Full THEN queue ELSE [queue EXCEPT ![Slot(qput)] = w]
  /\ qput' = IF Full THEN qput ELSE Wrap(qput + 1)
  /\ UNCHANGED <<qget, reported>>

\* enqueue(): a full ring drops the word and calls error(0x12).
Enqueue(w) ==
  IF Full
  THEN /\ reported' = TRUE
       /\ UNCHANGED ring
  ELSE /\ queue' = [queue EXCEPT ![Slot(qput)] = w]
       /\ qput' = Wrap(qput + 1)
       /\ UNCHANGED <<qget, reported>>

\* cmd & ~0x7800, next to the data of the same entry
Seen(w) == [mthd |-> w.mthd, data |-> w.data]

-----------------------------------------------------------------------------
(* The hardware around the firmware.                                       *)

\* Register INTR: latched edges, and the FIFO's level once it has that mode.
Status == latched \cup (IF levelMode /\ fifo # <<>> THEN {FifoLine} ELSE {})

\* The host pushes a word; in edge mode that latches the FIFO's line.
HostPush(w) ==
  /\ enabled
  /\ Len(fifo) < FifoDepth
  /\ fifo' = Append(fifo, w)
  /\ latched' = IF levelMode THEN latched ELSE latched \cup {FifoLine}
  /\ UNCHANGED <<ring, setup, mainVars, handlerVars>>

\* An event line rises.
RaiseLine(k) ==
  /\ latched' = latched \cup {k}
  /\ UNCHANGED <<ring, fifo, setup, mainVars, handlerVars>>

\* An enabled line interrupts main(); entry clears ie0, which iret restores.
TakeInterrupt ==
  /\ hpc = "idle" /\ ie0 /\ enabled /\ Status # {}
  /\ hpc' = "read"
  /\ UNCHANGED <<ring, hardware, setup, mainVars, hline, intr, reported>>

-----------------------------------------------------------------------------
(* The handler.                                                            *)

\* int intr = mmio_read(FUC_INTR)
ReadIntr ==
  /\ hpc = "read"
  /\ intr' = Status
  /\ hpc' = "fifo"
  /\ UNCHANGED <<ring, hardware, setup, mainVars, hline, reported>>

\* if (intr & 4): read the FIFO's head and enqueue it ...
TakeFifo ==
  /\ hpc = "fifo" /\ FifoLine \in intr
  /\ Enqueue(Head(fifo))
  /\ hpc' = "pop"
  /\ UNCHANGED <<hardware, setup, mainVars, hline, intr>>

\* ... and remove it, whether the ring took it or not.
PopFifo ==
  /\ hpc = "pop"
  /\ fifo' = Tail(fifo)
  /\ hpc' = "lines" /\ hline' = 1
  /\ UNCHANGED <<ring, latched, setup, mainVars, intr, reported>>

SkipFifo ==
  /\ hpc = "fifo" /\ FifoLine \notin intr
  /\ hpc' = "lines" /\ hline' = 1
  /\ UNCHANGED <<ring, hardware, setup, mainVars, intr, reported>>

\* The lines 0x100, 0x200, 0x400 and 0x8000, in this order.
ServeLine ==
  /\ hpc = "lines" /\ hline <= NLines
  /\ IF hline \in intr THEN Enqueue(LineWord[hline])
                       ELSE UNCHANGED <<ring, reported>>
  /\ hline' = hline + 1
  /\ UNCHANGED <<hpc, hardware, setup, mainVars, intr>>

\* Fault variant of Acknowledge: the FIFO's line is left latched.
AcknowledgeEventLines ==
  /\ hpc = "lines" /\ hline > NLines
  /\ latched' = latched \ (intr \ {FifoLine})
  /\ hpc' = "iret"
  /\ UNCHANGED <<ring, fifo, setup, mainVars, hline, intr, reported>>

\* Fault variant of Acknowledge: every pending line, not those that were read
AcknowledgePending ==
  /\ hpc = "lines" /\ hline > NLines
  /\ latched' = {}
  /\ hpc' = "iret"
  /\ UNCHANGED <<ring, fifo, setup, mainVars, hline, intr, reported>>

\* mmio_write(0x004, intr): acknowledge what was read at the start.
Acknowledge ==
  /\ hpc = "lines" /\ hline > NLines
  /\ latched' = latched \ intr
  /\ hpc' = "iret"
  /\ UNCHANGED <<ring, fifo, setup, mainVars, hline, intr, reported>>

\* iret: main() goes on where it was; a sleeping main() wakes up.
ReturnFromInterrupt ==
  /\ hpc = "iret"
  /\ hpc' = "idle"
  /\ hline' = 0 /\ intr' = {}
  /\ mpc' = IF mpc = "asleep" THEN "test" ELSE mpc
  /\ UNCHANGED <<ring, hardware, setup, jobCmd, jobData, delivered, reported>>

Handler ==
  \/ ReadIntr \/ TakeFifo \/ PopFifo \/ SkipFifo
  \/ ServeLine \/ Acknowledge \/ ReturnFromInterrupt

-----------------------------------------------------------------------------
(* main() and work().  Each action needs the handler idle.                 *)

At(pc) == hpc = "idle" /\ mpc = pc

\* ACCESS_EN, INTR_DISPATCH and INTR_EN_SET: the host may push from now on.
SetUp ==
  /\ At("setup")
  /\ enabled' = TRUE
  /\ mpc' = "mode"
  /\ UNCHANGED <<ring, hardware, levelMode, ie0, jobCmd, jobData, delivered, handlerVars>>

\* Fault variant of SetLevelMode: the FIFO's line stays in edge mode.
KeepEdgeMode ==
  /\ At("mode")
  /\ mpc' = "enable"
  /\ UNCHANGED <<ring, hardware, setup, jobCmd, jobData, delivered, handlerVars>>

\* mmio_write(0x00c, 4): the FIFO's line follows its level.
SetLevelMode ==
  /\ At("mode")
  /\ levelMode' = TRUE
  /\ mpc' = "enable"
  /\ UNCHANGED <<ring, hardware, enabled, ie0, jobCmd, jobData, delivered, handlerVars>>

\* set_flags(ie0)
EnableInterrupts ==
  /\ At("enable")
  /\ ie0' = TRUE
  /\ mpc' = "top"
  /\ UNCHANGED <<ring, hardware, levelMode, enabled, jobCmd, jobData, delivered, handlerVars>>

\* sleep($p2)
Sleep ==
  /\ At("top")
  /\ mpc' = "asleep"
  /\ UNCHANGED <<ring, hardware, setup, jobCmd, jobData, delivered, handlerVars>>

\* Fault variant of TestEmpty: the masked indices are compared.
TestEmptySlots ==
  /\ At("test")
  /\ mpc' = IF Slot(qget) # Slot(qput) THEN "cmd" ELSE "top"
  /\ UNCHANGED <<ring, hardware, setup, jobCmd, jobData, delivered, handlerVars>>

\* work(): with nothing queued it returns to the loop, which sleeps again.
TestEmpty ==
  /\ At("test")
  /\ mpc' = IF qget # qput THEN "cmd" ELSE "top"
  /\ UNCHANGED <<ring, hardware, setup, jobCmd, jobData, delivered, handlerVars>>

\* cmd = ptr->cmd & ~0x7800
ReadCmd ==
  /\ At("cmd")
  /\ jobCmd' = queue[Slot(qget)].mthd
  /\ mpc' = "data"
  /\ UNCHANGED <<ring, hardware, setup, jobData, delivered, handlerVars>>

\* data = ptr->data
ReadData ==
  /\ At("data")
  /\ jobData' = queue[Slot(qget)].data
  /\ mpc' = "advance"
  /\ UNCHANGED <<ring, hardware, setup, jobCmd, delivered, handlerVars>>

\* ++qget, and in_temp_cmd and in_temp_data, which only work() uses
Advance ==
  /\ At("advance")
  /\ qget' = qget + 1
  /\ delivered' = [mthd |-> jobCmd, data |-> jobData]
  /\ mpc' = "wrap"
  /\ UNCHANGED <<queue, qput, hardware, setup, jobCmd, jobData, handlerVars>>

\* if (qget == 0x10) qget = 0
WrapGet ==
  /\ At("wrap")
  /\ qget' = Wrap(qget)
  /\ mpc' = "transfer"
  /\ UNCHANGED <<queue, qput, hardware, setup, jobCmd, jobData, delivered, handlerVars>>

\* The rest of work(), set4160() to clear4160(), touches no variable here.
Transfer ==
  /\ At("transfer")
  /\ mpc' = "top"
  /\ UNCHANGED <<ring, hardware, setup, jobCmd, jobData, delivered, handlerVars>>

Main ==
  \/ SetUp \/ SetLevelMode \/ EnableInterrupts \/ Sleep
  \/ TestEmpty \/ ReadCmd \/ ReadData \/ Advance \/ WrapGet \/ Transfer

-----------------------------------------------------------------------------
Init ==
  /\ queue = [s \in 0..(QSize - 1) |-> EmptySlot] /\ qget = 0 /\ qput = 0
  /\ fifo = <<>> /\ latched = {}
  /\ levelMode = FALSE /\ enabled = FALSE /\ ie0 = FALSE
  /\ mpc = "setup" /\ jobCmd = EmptySlot.mthd /\ jobData = EmptySlot.data
  /\ hpc = "idle" /\ hline = 0 /\ intr = {}
  /\ delivered = NoJob /\ reported = FALSE

Environment ==
  \/ \E w \in HostWords : HostPush(w)
  \/ \E k \in 1..NLines : RaiseLine(k)

Next == Environment \/ TakeInterrupt \/ Handler \/ Main

Spec == Init /\ [][Next]_vars

(* The processor runs whatever is ready and honours a pending interrupt;   *)
(* the host and the event lines owe nothing.                               *)
FairSpec == Spec /\ WF_vars(TakeInterrupt) /\ WF_vars(Handler) /\ WF_vars(Main)

-----------------------------------------------------------------------------
(* Properties.                                                             *)

RingIndex == 0..(2 * QSize - 1)
Slots == Word \cup {EmptySlot}

(* Every variable has its type; in particular an interrupt never sees qput *)
(* unwrapped, and sees qget unwrapped only while work() is about to wrap.  *)
TypeOK ==
  /\ queue \in [0..(QSize - 1) -> Slots]
  /\ qget \in 0..(2 * QSize) /\ (qget = 2 * QSize => mpc = "wrap")
  /\ qput \in RingIndex
  /\ fifo \in Seq(HostWords) /\ Len(fifo) <= FifoDepth
  /\ latched \subseteq Lines
  /\ levelMode \in BOOLEAN /\ enabled \in BOOLEAN /\ ie0 \in BOOLEAN
  /\ mpc \in {"setup", "mode", "enable", "top", "asleep", "test",
              "cmd", "data", "advance", "wrap", "transfer"}
  /\ jobCmd \in {w.mthd : w \in Slots} /\ jobData \in {w.data : w \in Slots}
  /\ hpc \in {"idle", "read", "fifo", "pop", "lines", "iret"}
  /\ hline \in 0..(NLines + 1) /\ intr \subseteq Lines
  /\ delivered \in {Seen(w) : w \in Slots} \cup {NoJob}
  /\ reported \in BOOLEAN

\* Commands queued: qput - qget modulo twice the size.
Count == IF Wrap(qget) <= qput THEN qput - Wrap(qget)
                               ELSE qput + 2 * QSize - Wrap(qget)

(* The handler never laps work(): at most QSize commands are queued, even  *)
(* when the interrupt falls between ++qget and its wrap, and from the      *)
(* emptiness test until ++qget work() has a command to read.               *)
RingBounded ==
  /\ Count <= QSize
  /\ mpc \in {"cmd", "data", "advance"} => Count > 0

(* The two halves of a command work() reads belong to one queued command:  *)
(* no interrupt replaces the entry between the two loads and ++qget.       *)
JobIsOneCommand ==
  /\ mpc \in {"data", "advance"} => jobCmd = queue[Slot(qget)].mthd
  /\ mpc = "advance" => jobData = queue[Slot(qget)].data

(* The handler reads and removes the FIFO's head only when there is one,   *)
(* also for a command pushed before register 0x00c selects level mode.     *)
FifoReadHasData ==
  (hpc = "fifo" /\ FifoLine \in intr) \/ hpc = "pop" => fifo # <<>>

(* The host is not left waiting: when its FIFO holds a command, the        *)
(* handler gets to remove one, also when it was pushed while the handler   *)
(* was between reading INTR and acknowledging it.                          *)
FifoServed == fifo # <<>> ~> hpc = "pop"

(* A latched edge has its command offered to the ring, also one that comes *)
(* while the handler is between reading INTR and acknowledging what it     *)
(* read.  (Only one that rises on a line the running handler has read is   *)
(* acknowledged with it.)                                                  *)
LineServed ==
  \A k \in 1..NLines :
    k \in latched /\ k \notin intr ~> hpc = "lines" /\ hline = k /\ k \in intr

(* work() takes one command a wake-up, so a burst can leave commands       *)
(* queued while main() sleeps.  As long as a sleeping main() is woken      *)
(* again and again each of them is taken in the end.                       *)
WorkUnderTraffic ==
  []<>(mpc = "asleep" /\ hpc = "iret") =>
    \A i \in RingIndex : qget = i /\ qget # qput ~> qget # i
=============================================================================
