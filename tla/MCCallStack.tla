---------------------------- MODULE MCCallStack ----------------------------
(* main() has an object of variable size and never returns.  It calls      *)
(* work(), which has two stack objects and calls leaf(); both get an       *)
(* argument on the stack.  ihbody() has one object.  $r0, which any body   *)
(* may write unsaved, stands for $r12 to $r15 too.                         *)
EXTENDS CallStack, TLC

CONSTANTS main, work, leaf, ihbody, ih, r0, r1, r10, flags

MCFuncs == {main, work, leaf, ihbody}
MCRegs == {r0, r1, r10}
MCCalleeSaved == {r0, r1, r10}

MCSaved == main :> <<>> @@ work :> <<r1, r10>> @@ leaf :> <<>> @@ ihbody :> <<r1>>
           @@ ih :> <<r10, r1, r0>>
MCStackArgs == main :> 0 @@ work :> 1 @@ leaf :> 1 @@ ihbody :> 0
MCCalls == main :> {work} @@ work :> {leaf} @@ leaf :> {} @@ ihbody :> {}

MCObjects == main :> <<>>
             @@ work :> <<[size |-> 1, align |-> 1], [size |-> 4, align |-> 4]>>
             @@ leaf :> <<>>
             @@ ihbody :> <<[size |-> 4, align |-> 4]>> @@ ih :> <<>>

\* The layout that FrameLayout computes for function f
MCPlace(f) ==
  LET o[j \in 0..Len(Objects[f])] ==
        IF j = 0 THEN LocalAreaOffset + Word * Len(Saved[f])
        ELSE PlaceBelow(o[j - 1], Objects[f][j])
  IN o
MCOffset == [f \in MCFuncs |-> [j \in DOMAIN Objects[f] |-> -MCPlace(f)[j]]]
MCOut(f) == IF f = work /\ f \notin Dynamic THEN Word ELSE 0
MCAlign(f) ==
  IF \/ Calls[f] # {} \/ f \in Dynamic \/ Saved[f] # <<>>
     \/ \E j \in DOMAIN Objects[f] : Objects[f][j].align = 4
  THEN 4 ELSE 1
MCStackSize ==
  [f \in MCFuncs \cup {ih} |->
     IF f = ih THEN Word * Len(Saved[ih]) + Word
     ELSE RoundUp(MCPlace(f)[Len(Objects[f])] + MCOut(f), MCAlign(f)) - LocalAreaOffset]

\* States that differ only in bytes below $sp, which nothing reads before
\* it has written them, count as one.
MCView == <<sp, regs, stack, ie0, [b \in Larger(sp, 0)..(StackTop - 1) |-> mem[b]]>>
=============================================================================
