------------------------------- MODULE MCXfer -------------------------------
(* Instances of the command processor for TLC.  The two host words differ  *)
(* in both halves, so that a mixture of two commands shows.                *)
EXTENDS XferRefinement

MCHostWords == {[mthd |-> "a", sub |-> 1, data |-> 1], [mthd |-> "b", sub |-> 0, data |-> 2]}
MCLineWord == [k \in 1..NLines |-> [mthd |-> "event", sub |-> 0, data |-> k]]
MCEmptySlot == [mthd |-> "zero", sub |-> 0, data |-> 0]
=============================================================================
