---------------------------- MODULE CommandFifo ----------------------------
(***************************************************************************)
(* What the command queue of the transfer firmware promises to the host,   *)
(* without rings, indices, registers or interrupts.  Commands wait in two  *)
(* stages: the host's FIFO, and the firmware's own queue of Capacity       *)
(* commands, which also takes one command for each event line.  A command  *)
(* leaves the first stage by being admitted to the second or, only when    *)
(* the second is full, by being rejected; every rejection is reported.     *)
(* Admitted commands are handed to work() one at a time, in order, once    *)
(* each, unmixed.                                                          *)
(***************************************************************************)
EXTENDS Naturals, Sequences

CONSTANTS
  Command,      \* what the host and the event lines can ask for
  EventCommand, \* the subset of Command that event lines stand for
  Capacity,     \* how many admitted commands can wait
  NoCommand,    \* the value of delivered before the first delivery
  Seen(_)       \* what work() is given of a command

VARIABLES
  submitted,    \* host commands neither admitted nor rejected yet, in order
  admitted,     \* commands admitted and not delivered yet, in order
  delivered,    \* what work() was last given
  reported      \* an overflow has been reported to the host

absVars == <<submitted, admitted, delivered, reported>>

AbsInit ==
  /\ submitted = <<>>
  /\ admitted = <<>>
  /\ delivered = NoCommand
  /\ reported = FALSE

\* The host adds a command behind those it submitted before.
Submit(c) ==
  /\ submitted' = Append(submitted, c)
  /\ UNCHANGED <<admitted, delivered, reported>>

\* A command enters the queue, or is turned away by a full one, which is told.
Offer(c) ==
  \/ /\ Len(admitted) < Capacity
     /\ admitted' = Append(admitted, c)
     /\ UNCHANGED reported
  \/ /\ Len(admitted) = Capacity
     /\ reported' = TRUE
     /\ UNCHANGED admitted

\* The oldest submitted command is offered to the queue, and only that one.
TakeSubmitted ==
  /\ submitted # <<>>
  /\ Offer(Head(submitted))
  /\ submitted' = Tail(submitted)
  /\ UNCHANGED delivered

\* An event line's command is offered to the queue.
TakeEvent(c) ==
  /\ Offer(c)
  /\ UNCHANGED <<submitted, delivered>>

\* The oldest admitted command is handed to work() and leaves the queue.
Deliver ==
  /\ admitted # <<>>
  /\ delivered' = Seen(Head(admitted))
  /\ admitted' = Tail(admitted)
  /\ UNCHANGED <<submitted, reported>>

AbsNext ==
  \/ \E c \in Command : Submit(c)
  \/ TakeSubmitted
  \/ \E c \in EventCommand : TakeEvent(c)
  \/ Deliver

AbsSpec == AbsInit /\ [][AbsNext]_absVars
=============================================================================
