---------------------------- MODULE FrameLayout ----------------------------
(***************************************************************************)
(* How LLVM's prolog/epilog inserter lays out the frame of one function    *)
(* for Guc: the outgoing arguments of its calls are measured, the saved    *)
(* registers and then the stack objects are placed one below the other,    *)
(* and the frame is rounded.                                               *)
(*                                                                         *)
(* Guc has no register scavenger and no frame pointer, and stack           *)
(* protectors and local blocks are off.  Objects at fixed offsets are the  *)
(* function's own arguments on the stack: their offsets are not negative,  *)
(* so they never move the start of the locals.                             *)
(***************************************************************************)
EXTENDS FrameOps, Sequences

CONSTANTS
  Functions    \* the functions to lay out: [saved, objects, calls]

(* saved: how many callee saved registers it uses.  objects: the size and  *)
(* alignment of each stack object, the size being 0 for an object of       *)
(* variable size.  calls: the bytes of arguments on the stack, per call.   *)
Alignments == {1, 2, 4, 8}
Object == [size : Nat, align : Alignments]

ASSUME FunctionsAssumption ==
  Functions \subseteq [saved : Nat, objects : Seq(Object), calls : Seq(Nat)]

VARIABLES
  fn,          \* the function
  loop,        \* the loop that runs
  round,       \* how many rounds of it are done
  maxCall,     \* MaxCallFrameSize
  adjusts,     \* AdjustsStack
  offset,      \* Offset
  slots,       \* the offsets of the slots for saved registers
  offsets,     \* the offsets of the objects
  stackSize    \* StackSize

layoutVars == <<fn, loop, round, maxCall, adjusts, offset, slots, offsets, stackSize>>

\* MachineFrameInfo keeps the largest alignment of all objects created; the
\* slots of saved registers are among them.
ObjectAlignments(f) ==
  {1} \cup (IF f.saved > 0 THEN {Word} ELSE {}) \cup {f.objects[j].align : j \in DOMAIN f.objects}

MaxAlignment(f) ==
  CHOOSE a \in ObjectAlignments(f) : \A b \in ObjectAlignments(f) : b =< a

HasVarSizedObjects(f) == \E j \in DOMAIN f.objects : f.objects[j].size = 0

\* hasReservedCallFrame()
Reserved(f) == ~HasVarSizedObjects(f)

\* The part of the frame that is kept for outgoing arguments
Outgoing == IF adjusts /\ Reserved(fn) THEN maxCall ELSE 0

FrameAlignment ==
  Larger(IF adjusts \/ HasVarSizedObjects(fn) THEN StackAlignment ELSE TransientStackAlignment,
         MaxAlignment(fn))

-----------------------------------------------------------------------------
\* Fault variant of LayoutInit: as if the return address took no room
InitAtZero ==
  /\ fn \in Functions
  /\ loop = "calls" /\ round = 0
  /\ maxCall = 0 /\ adjusts = FALSE
  /\ offset = 0
  /\ slots = <<>> /\ offsets = <<>> /\ stackSize = 0

LayoutInit ==
  /\ fn \in Functions
  /\ loop = "calls" /\ round = 0
  /\ maxCall = 0 /\ adjusts = FALSE
  /\ offset = LocalAreaOffset
  /\ slots = <<>> /\ offsets = <<>> /\ stackSize = 0

\* Fault variant of ScanCall: the last call counts, not the largest.
ScanLastCall ==
  /\ loop = "calls" /\ round < Len(fn.calls)
  /\ round' = round + 1
  /\ maxCall' = fn.calls[round + 1]
  /\ adjusts' = TRUE
  /\ UNCHANGED <<fn, loop, offset, slots, offsets, stackSize>>

\* calculateCallsInformation(): one call
ScanCall ==
  /\ loop = "calls" /\ round < Len(fn.calls)
  /\ round' = round + 1
  /\ maxCall' = Larger(maxCall, fn.calls[round + 1])
  /\ adjusts' = TRUE
  /\ UNCHANGED <<fn, loop, offset, slots, offsets, stackSize>>

CallsDone ==
  /\ loop = "calls" /\ round = Len(fn.calls)
  /\ loop' = "slots" /\ round' = 0
  /\ UNCHANGED <<fn, maxCall, adjusts, offset, slots, offsets, stackSize>>

\* calculateFrameObjectOffsets(): the slot of one saved register
PlaceSlot ==
  /\ loop = "slots" /\ round < fn.saved
  /\ round' = round + 1
  /\ offset' = PlaceBelow(offset, [size |-> Word, align |-> Word])
  /\ slots' = Append(slots, -offset')
  /\ UNCHANGED <<fn, loop, maxCall, adjusts, offsets, stackSize>>

SlotsDone ==
  /\ loop = "slots" /\ round = fn.saved
  /\ loop' = "objects" /\ round' = 0
  /\ UNCHANGED <<fn, maxCall, adjusts, offset, slots, offsets, stackSize>>

\* calculateFrameObjectOffsets(): one of the other objects
PlaceObject ==
  /\ loop = "objects" /\ round < Len(fn.objects)
  /\ round' = round + 1
  /\ offset' = PlaceBelow(offset, fn.objects[round + 1])
  /\ offsets' = Append(offsets, -offset')
  /\ UNCHANGED <<fn, loop, maxCall, adjusts, slots, stackSize>>

\* Fault variant of Finish: no room for the outgoing arguments
FinishWithoutCalls ==
  /\ loop = "objects" /\ round = Len(fn.objects)
  /\ offset' = RoundUp(offset, FrameAlignment)
  /\ stackSize' = offset' - LocalAreaOffset
  /\ loop' = "done"
  /\ UNCHANGED <<fn, round, maxCall, adjusts, slots, offsets>>

\* calculateFrameObjectOffsets(): the call frame, the rounding, setStackSize()
Finish ==
  /\ loop = "objects" /\ round = Len(fn.objects)
  /\ offset' = RoundUp(offset + Outgoing, FrameAlignment)
  /\ stackSize' = offset' - LocalAreaOffset
  /\ loop' = "done"
  /\ UNCHANGED <<fn, round, maxCall, adjusts, slots, offsets>>

LayoutNext == ScanCall \/ CallsDone \/ PlaceSlot \/ SlotsDone \/ PlaceObject \/ Finish

LayoutSpec == LayoutInit /\ [][LayoutNext]_layoutVars

-----------------------------------------------------------------------------
LayoutTyped ==
  /\ fn \in Functions
  /\ loop \in {"calls", "slots", "objects", "done"}
  /\ round \in Nat /\ maxCall \in Nat /\ offset \in Nat /\ stackSize \in Nat
  /\ adjusts \in BOOLEAN
  /\ slots \in Seq(Int) /\ offsets \in Seq(Int)

\* Bytes of arguments that calls store at SP while the frame stands
CallBytes == {0} \cup IF Reserved(fn) THEN {fn.calls[k] : k \in DOMAIN fn.calls} ELSE {}

(* The finished frame is one that code can run in: objects are apart from  *)
(* each other, from the registers that spillCalleeSavedRegisters() pushes, *)
(* and from the arguments that LowerCCCCallTo() stores at SP for any of    *)
(* the calls.  CallStack assumes exactly this.                             *)
LayoutSound ==
  loop = "done" =>
    \A out \in CallBytes : SoundLayout(fn.saved, fn.objects, offsets, out, stackSize)

(* The slots that PrologEpilogInserter.cpp reserves are the words that the *)
(* pushes of spillCalleeSavedRegisters() write, which never look at them.  *)
SlotsAreThePushes ==
  /\ Len(slots) = (IF loop = "calls" THEN 0 ELSE IF loop = "slots" THEN round ELSE fn.saved)
  /\ \A k \in DOMAIN slots : slots[k] = -(LocalAreaOffset + Word * k)

(* An object's offset is a multiple of its alignment, and a function that  *)
(* calls or allocates keeps the stack pointer at a multiple of four.       *)
OffsetsAligned ==
  /\ \A j \in DOMAIN offsets : offsets[j] % fn.objects[j].align = 0
  /\ loop = "done" /\ (adjusts \/ HasVarSizedObjects(fn)) => stackSize % StackAlignment = 0
=============================================================================
