------------------------------ MODULE FrameOps ------------------------------
(***************************************************************************)
(* The numbers of a Guc stack frame, shared by FrameLayout (the compiler   *)
(* lays a frame out) and CallStack (the processor runs in it).             *)
(*                                                                         *)
(* An object's offset is counted, as in MachineFrameInfo, from the stack   *)
(* pointer before the call that pushed the return address: objects of the  *)
(* function have negative offsets, arguments on the stack begin at 0.      *)
(***************************************************************************)
EXTENDS Integers

Word == 4                        \* bytes of a register, and of a push
LocalAreaOffset == Word          \* the return address lies before the locals
StackAlignment == 4
TransientStackAlignment == 1     \* the default, which the target leaves

Larger(x, y) == IF x > y THEN x ELSE y

\* Fault variant of RoundUp: an aligned number moves on too.
RoundPast(n, align) == (n \div align + 1) * align

RoundUp(n, align) == ((n + align - 1) \div align) * align

\* Fault variant of PlaceBelow: rounded before the object is added
PlaceUnaligned(offset, o) == RoundUp(offset, o.align) + o.size

\* AdjustStackOffset() on a stack that grows down: how far below lies object o
PlaceBelow(offset, o) == RoundUp(offset + o.size, o.align)

\* Fault variant of FrameIndexAddr: the saved PC is not skipped.
FrameIndexOnPC(sp, offset, size) == sp + offset + size

\* eliminateFrameIndex(): where a function with a frame of this size finds
\* the object at this offset
FrameIndexAddr(sp, offset, size) == sp + offset + Word + size

(* What running code needs of a layout: every object lies below the        *)
(* registers that the prologue pushes and above the space for outgoing     *)
(* arguments, and no two objects share a byte.                             *)
SoundLayout(saved, objects, offsets, out, size) ==
  /\ size >= Word * saved + out
  /\ \A j \in DOMAIN objects :
       /\ offsets[j] + objects[j].size =< -(LocalAreaOffset + Word * saved)
       /\ -offsets[j] =< size + LocalAreaOffset - out
       /\ \A l \in DOMAIN objects \ {j} :
            \/ offsets[j] + objects[j].size =< offsets[l]
            \/ offsets[l] + objects[l].size =< offsets[j]
=============================================================================
