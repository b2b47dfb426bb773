--------------------------- MODULE MCFrameLayout ---------------------------
(* Up to two saved registers, two objects and two calls. *)
EXTENDS FrameLayout, SequencesExt

MCObjects == BoundedSeq([size : {0, 1, 4, 6}, align : {1, 4, 8}], 2)
MCCalls == BoundedSeq({0, 4, 8}, 2)

MCFunctions == [saved : 0..2, objects : MCObjects, calls : MCCalls]
=============================================================================
