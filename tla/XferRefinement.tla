--------------------------- MODULE XferRefinement ---------------------------
(***************************************************************************)
(* The command processor implements CommandFifo: the refinement mapping.   *)
(* A host command counts as taken once enqueue() has dealt with it, before *)
(* register 0x074 removes it from the hardware; a queued command counts as *)
(* delivered at ++qget, which frees its entry.                             *)
(***************************************************************************)
EXTENDS XferFirmware

NotTaken == IF hpc = "pop" THEN Tail(fifo) ELSE fifo

Queued == [i \in 1..Count |-> queue[Slot(qget + i - 1)]]

Abstract == INSTANCE CommandFifo WITH
  Command <- HostWords,
  EventCommand <- {LineWord[k] : k \in 1..NLines},
  Capacity <- QSize,
  NoCommand <- NoJob,
  Seen <- Seen,
  submitted <- NotTaken,
  admitted <- Queued,
  delivered <- delivered,
  reported <- reported

(* Host commands reach work() in order, each once or reported as rejected, *)
(* and a command is rejected only by a ring that holds QSize of them,      *)
(* whatever interrupts main() and wherever.                                *)
ImplementsCommandFifo == Abstract!AbsSpec
=============================================================================
