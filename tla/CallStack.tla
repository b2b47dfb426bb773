----------------------------- MODULE CallStack -----------------------------
(***************************************************************************)
(* Compiled functions and the interrupt stub of boot.S on one stack.       *)
(*                                                                         *)
(* boot calls main(); compiled functions push the registers they use, make *)
(* room for their objects, run, call each other with arguments in          *)
(* registers and on the stack, and undo all that before they return.  An   *)
(* interrupt comes between any two instructions; the stub saves every      *)
(* register and the flags, calls ihbody(), and returns with iret.          *)
(*                                                                         *)
(* The instructions that the compiler emits around a body are actions, one *)
(* each.  A body is what its code may do: write the registers and the      *)
(* objects it has, in any order, and call.  What an activation writes is   *)
(* marked with its depth, so a word tells who wrote it.                    *)
(*                                                                         *)
(* Left out: registers read by a body, return values, and flag $p2, which  *)
(* the stub sets and compiled code neither reads nor writes.               *)
(***************************************************************************)
EXTENDS FrameOps, Sequences

CONSTANTS
  Funcs, Main, IhBody,   \* compiled functions; two of them
  Ih,                    \* the stub of boot.S
  Regs, FP, Scratch,     \* $r0 to $r15; $r0; $r10
  Flags,                 \* $flags
  CalleeSaved,           \* getCalleeSavedRegs()
  Saved,                 \* [function -> registers, last pushed first]
  Objects,               \* [function -> size and alignment of its stack objects]
  Offset, StackSize,     \* [function -> what FrameLayout computes for it]
  StackArgs,             \* [function -> number of its arguments on the stack]
  Calls,                 \* [function -> functions it calls]
  Returning,             \* functions with a block that returns
  Dynamic,               \* functions with an object of variable size
  AllocaSize,            \* bytes of that object
  StackTop,              \* $sp at boot; below it nothing but stack
  MaxDepth               \* bound: activations at one time

Code == Funcs \cup {Ih}
Registers == Regs \cup {Flags}

\* Bytes of arguments that a call of g stores at SP
ArgBytes(g) == Word * StackArgs[g]

\* Bytes that the frame of f keeps at SP for the calls it makes
KeptFor(f) == IF f \in Dynamic THEN {0} ELSE {0} \cup {ArgBytes(g) : g \in Calls[f]}

ASSUME NamesAssumption ==
  /\ Main \in Funcs /\ IhBody \in Funcs /\ Ih \notin Funcs
  /\ FP \in Regs /\ Scratch \in Regs /\ Flags \notin Regs
  /\ CalleeSaved \subseteq Regs
  /\ Returning \subseteq Funcs /\ Dynamic \subseteq Funcs
  /\ StackTop \in Nat /\ MaxDepth \in Nat \ {0} /\ AllocaSize \in Nat

ASSUME CodeAssumption ==
  /\ Saved \in [Code -> Seq(Regs)]
  /\ \A f \in Code : \A j, l \in DOMAIN Saved[f] : Saved[f][j] = Saved[f][l] => j = l
  /\ \A f \in Funcs : \A j \in DOMAIN Saved[f] : Saved[f][j] \in CalleeSaved \ {FP}
  /\ Regs \subseteq {Saved[Ih][j] : j \in DOMAIN Saved[Ih]}
  /\ Calls \in [Funcs -> SUBSET Funcs]
  /\ StackArgs \in [Funcs -> Nat]
  /\ StackArgs[Main] = 0 /\ StackArgs[IhBody] = 0

(* The layouts are sound, as FrameLayout shows of those the compiler makes.*)
ASSUME LayoutAssumption ==
  /\ StackSize \in [Code -> Nat]
  /\ Objects \in [Code -> Seq([size : Nat \ {0}, align : Nat])]
  /\ Objects[Ih] = <<>>
  /\ StackSize[Ih] = Word * Len(Saved[Ih]) + Word
  /\ \A f \in Funcs :
       /\ Offset[f] \in [DOMAIN Objects[f] -> Int]
       /\ \A out \in KeptFor(f) :
            SoundLayout(Len(Saved[f]), Objects[f], Offset[f], out, StackSize[f])

VARIABLES
  sp, regs,    \* $sp; the other registers and $flags
  mem,         \* the bytes below StackTop
  stack,       \* the activations, innermost last
  ie0          \* interrupts are enabled

vars == <<sp, regs, mem, stack, ie0>>

Unset == 0                       \* what memory and registers hold at boot
Mixed == -1                      \* a word of bytes of different words, or outside mem
Written(d) == 3 * d              \* what the activation at depth d writes
Argument(d) == 3 * d + 1         \* what it stores for a call
ReturnTo(d) == 3 * d + 2         \* the place in it where a call returns to

(* An activation.  entry: SP at entry, where the return address is.        *)
(* at, k: the part of its code it runs, and the rounds done in it.         *)
(* to: the function it is about to call.  extra: bytes of its object of    *)
(* variable size.  saved, val, args: the registers at entry, the last      *)
(* value it wrote to each object, and the arguments stored for it.         *)
Activation(f, entry, args) ==
  [fn |-> f, entry |-> entry, at |-> "spill", k |-> Len(Saved[f]), to |-> f, extra |-> 0,
   saved |-> regs, val |-> [j \in 1..Len(Objects[f]) |-> Unset],
   args |-> args]

Depth == Len(stack)
Top == stack[Depth]

\* The innermost activation goes on as a.
Continue(a) == stack' = [stack EXCEPT ![Depth] = a]

-----------------------------------------------------------------------------
(* Memory.                                                                 *)

Store(addr, size, v) ==
  mem' = [b \in DOMAIN mem |-> IF addr =< b /\ b < addr + size THEN v ELSE mem[b]]

Holds(addr, size, v) == \A b \in 0..(size - 1) : mem[addr + b] = v

LoadWord(addr) ==
  IF addr..(addr + Word - 1) \subseteq DOMAIN mem /\ Holds(addr, Word, mem[addr])
  THEN mem[addr] ELSE Mixed

PushWord(v) == sp' = sp - Word /\ Store(sp - Word, Word, v)

\* The frame of f fits below the present stack pointer: a bound.
Room(f) == sp - Word - StackSize[f] >= 0 /\ Depth < MaxDepth

\* An activation of f begins: the return address is pushed, and the
\* activation it leaves goes on as a.
Enter(f, a, args) ==
  /\ Room(f)
  /\ PushWord(ReturnTo(Depth))
  /\ stack' = Append([stack EXCEPT ![Depth] = a], Activation(f, sp - Word, args))

-----------------------------------------------------------------------------
(* Prologue.                                                               *)

\* Fault variant of PushRegister: one register fewer than are popped
PushAllButLast ==
  /\ Depth > 0 /\ Top.at = "spill" /\ Top.k > 0
  /\ IF Top.k = 1 /\ Top.fn # Ih
     THEN sp' = sp - Word /\ UNCHANGED mem
     ELSE PushWord(regs[Saved[Top.fn][Top.k]])
  /\ Continue([Top EXCEPT !.k = @ - 1])
  /\ UNCHANGED <<regs, ie0>>

\* spillCalleeSavedRegisters(); in the stub, push $r0 to push $r15
PushRegister ==
  /\ Depth > 0 /\ Top.at = "spill" /\ Top.k > 0
  /\ PushWord(regs[Saved[Top.fn][Top.k]])
  /\ Continue([Top EXCEPT !.k = @ - 1])
  /\ UNCHANGED <<regs, ie0>>

\* NumBytes of emitPrologue() and emitEpilogue()
NumBytes(f) == StackSize[f] - Word * Len(Saved[f])

\* SUB and ADD of the stack pointer set the flags.
AdjustSP(n) ==
  /\ sp' = sp + n
  /\ regs' = IF n = 0 THEN regs ELSE [regs EXCEPT ![Flags] = Written(Depth)]

\* emitPrologue(), after the pushes
EmitPrologue ==
  /\ Depth > 0 /\ Top.at = "spill" /\ Top.k = 0 /\ Top.fn \in Funcs
  /\ AdjustSP(-NumBytes(Top.fn))
  /\ Continue([Top EXCEPT !.at = "body"])
  /\ UNCHANGED <<mem, ie0>>

-----------------------------------------------------------------------------
(* Body.                                                                   *)

\* Registers that the code of f may change: those that the compiler may use,
\* and FP, in which codegen() of llvm2envyas puts the address of each access
\* to a global object, after the prologue has been chosen.
Clobbers(f) ==
  {Flags, FP} \cup (Regs \ CalleeSaved) \cup {Saved[f][j] : j \in DOMAIN Saved[f]}

WriteRegister(r) ==
  /\ Depth > 0 /\ Top.at = "body" /\ Top.fn \in Funcs /\ r \in Clobbers(Top.fn)
  /\ regs' = [regs EXCEPT ![r] = Written(Depth)]
  /\ UNCHANGED <<sp, mem, stack, ie0>>

\* A store to a stack object, through its frame index
WriteObject(j) ==
  /\ Depth > 0 /\ Top.at = "body" /\ Top.fn \in Funcs /\ j \in DOMAIN Objects[Top.fn]
  /\ Store(FrameIndexAddr(sp, Offset[Top.fn][j], StackSize[Top.fn]),
           Objects[Top.fn][j].size, Written(Depth))
  /\ Continue([Top EXCEPT !.val[j] = Written(Depth)])
  /\ UNCHANGED <<sp, regs, ie0>>

\* An object of variable size is made below everything else.
Alloca ==
  /\ Depth > 0 /\ Top.at = "body" /\ Top.fn \in Dynamic /\ Top.extra = 0
  /\ sp >= AllocaSize
  /\ AdjustSP(-AllocaSize)
  /\ Continue([Top EXCEPT !.extra = AllocaSize])
  /\ UNCHANGED <<mem, ie0>>

\* eliminateCallFramePseudoInstr(): room for a call's arguments is part of
\* the frame, unless the frame has an object of variable size.
CallFrame(f, g) == IF f \in Dynamic THEN ArgBytes(g) ELSE 0

BeginCall(g) ==
  /\ Depth > 0 /\ Top.at = "body" /\ Top.fn \in Funcs /\ g \in Calls[Top.fn]
  /\ sp >= CallFrame(Top.fn, g)
  /\ AdjustSP(-CallFrame(Top.fn, g))
  /\ Continue([Top EXCEPT !.at = "args", !.k = 0, !.to = g])
  /\ UNCHANGED <<mem, ie0>>

\* Fault variant of StoreArgument: stored as if the return address were there
StoreArgumentHigh ==
  /\ Depth > 0 /\ Top.at = "args" /\ Top.k < StackArgs[Top.to]
  /\ Store(sp + Word * (Top.k + 1), Word, Argument(Depth))
  /\ Continue([Top EXCEPT !.k = @ + 1])
  /\ UNCHANGED <<sp, regs, ie0>>

\* LowerCCCCallTo(): one argument is stored at SP + LocMemOffset.
StoreArgument ==
  /\ Depth > 0 /\ Top.at = "args" /\ Top.k < StackArgs[Top.to]
  /\ Store(sp + Word * Top.k, Word, Argument(Depth))
  /\ Continue([Top EXCEPT !.k = @ + 1])
  /\ UNCHANGED <<sp, regs, ie0>>

\* The call instruction
Call ==
  /\ Depth > 0 /\ Top.at = "args" /\ Top.k = StackArgs[Top.to]
  /\ Enter(Top.to, [Top EXCEPT !.at = "result", !.k = 0],
           [j \in 1..StackArgs[Top.to] |-> Argument(Depth)])
  /\ UNCHANGED <<regs, ie0>>

\* CALLSEQ_END: the call frame is taken away.
EndCall ==
  /\ Depth > 0 /\ Top.at = "result"
  /\ AdjustSP(CallFrame(Top.fn, Top.to))
  /\ Continue([Top EXCEPT !.at = "body"])
  /\ UNCHANGED <<mem, ie0>>

-----------------------------------------------------------------------------
(* Epilogue.                                                               *)

\* emitEpilogue(), before the pops.  With an object of variable size SP comes
\* from FP, which no prologue has set.
EmitEpilogue ==
  /\ Depth > 0 /\ Top.at = "body" /\ Top.fn \in Returning
  /\ IF Top.fn \in Dynamic
     THEN /\ sp' = regs[FP] - Word * Len(Saved[Top.fn])
          /\ regs' = [regs EXCEPT ![Flags] = Written(Depth)]
     ELSE AdjustSP(NumBytes(Top.fn))
  /\ Continue([Top EXCEPT !.at = "restore", !.k = 0])
  /\ UNCHANGED <<mem, ie0>>

\* restoreCalleeSavedRegisters(); in the stub, pop $r15 to pop $r0
PopRegister ==
  /\ Depth > 0 /\ Top.at = "restore" /\ Top.k < Len(Saved[Top.fn])
  /\ regs' = [regs EXCEPT ![Saved[Top.fn][Top.k + 1]] = LoadWord(sp)]
  /\ sp' = sp + Word
  /\ Continue([Top EXCEPT !.k = @ + 1])
  /\ UNCHANGED <<mem, ie0>>

\* Fault variant of Return: the callee removes its arguments.
ReturnPoppingArguments ==
  /\ Depth > 0 /\ Top.at = "restore" /\ Top.k = Len(Saved[Top.fn])
  /\ sp' = sp + Word + Word * Len(Top.args)
  /\ stack' = SubSeq(stack, 1, Depth - 1)
  /\ ie0' = (ie0 \/ Top.fn = Ih)
  /\ UNCHANGED <<regs, mem>>

\* ret, and in the stub iret, which enables interrupts again
Return ==
  /\ Depth > 0 /\ Top.at = "restore" /\ Top.k = Len(Saved[Top.fn])
  /\ sp' = sp + Word
  /\ stack' = SubSeq(stack, 1, Depth - 1)
  /\ ie0' = (ie0 \/ Top.fn = Ih)
  /\ UNCHANGED <<regs, mem>>

-----------------------------------------------------------------------------
(* The stub of boot.S around its pushes and pops.                          *)

\* The processor takes an interrupt between two instructions.
TakeInterrupt ==
  /\ Depth > 0 /\ ie0
  /\ Enter(Ih, Top, <<>>)
  /\ ie0' = FALSE
  /\ UNCHANGED regs

\* Fault variant of ReadFlags: test_intr/boot.S, where the line is a comment
ReadNoFlags ==
  /\ Depth > 0 /\ Top.at = "spill" /\ Top.k = 0 /\ Top.fn = Ih
  /\ Continue([Top EXCEPT !.at = "flags"])
  /\ UNCHANGED <<sp, regs, mem, ie0>>

\* mov $r10 $flags
ReadFlags ==
  /\ Depth > 0 /\ Top.at = "spill" /\ Top.k = 0 /\ Top.fn = Ih
  /\ regs' = [regs EXCEPT ![Scratch] = regs[Flags]]
  /\ Continue([Top EXCEPT !.at = "flags"])
  /\ UNCHANGED <<sp, mem, ie0>>

\* push $r10
PushFlags ==
  /\ Depth > 0 /\ Top.at = "flags"
  /\ PushWord(regs[Scratch])
  /\ Continue([Top EXCEPT !.at = "handler"])
  /\ UNCHANGED <<regs, ie0>>

\* call #ihbody
CallBody ==
  /\ Depth > 0 /\ Top.at = "handler"
  /\ Enter(IhBody, [Top EXCEPT !.at = "handled"], <<>>)
  /\ UNCHANGED <<regs, ie0>>

\* pop $r10
PopFlags ==
  /\ Depth > 0 /\ Top.at = "handled"
  /\ regs' = [regs EXCEPT ![Scratch] = LoadWord(sp)]
  /\ sp' = sp + Word
  /\ Continue([Top EXCEPT !.at = "unflags"])
  /\ UNCHANGED <<mem, ie0>>

\* mov $flags $r10
WriteFlags ==
  /\ Depth > 0 /\ Top.at = "unflags"
  /\ regs' = [regs EXCEPT ![Flags] = regs[Scratch]]
  /\ Continue([Top EXCEPT !.at = "restore", !.k = 0])
  /\ UNCHANGED <<sp, mem, ie0>>

-----------------------------------------------------------------------------
\* boot sets $sp and calls main(), which enables interrupts at some point;
\* here they are enabled from the start.
Init ==
  /\ regs = [r \in Registers |-> Unset]
  /\ sp = StackTop - Word
  /\ mem = [b \in 0..(StackTop - 1) |-> IF b >= StackTop - Word THEN ReturnTo(0) ELSE Unset]
  /\ stack = <<Activation(Main, StackTop - Word, <<>>)>>
  /\ ie0 = TRUE
  /\ sp - StackSize[Main] >= 0

Next ==
  \/ PushRegister \/ EmitPrologue
  \/ \E r \in Registers : WriteRegister(r)
  \/ \E j \in UNION {DOMAIN Objects[f] : f \in Funcs} : WriteObject(j)
  \/ Alloca
  \/ \E g \in Funcs : BeginCall(g)
  \/ StoreArgument \/ Call \/ EndCall
  \/ EmitEpilogue \/ PopRegister \/ Return
  \/ TakeInterrupt \/ ReadFlags \/ PushFlags \/ CallBody \/ PopFlags \/ WriteFlags

Spec == Init /\ [][Next]_vars

-----------------------------------------------------------------------------
Phases == {"spill", "body", "args", "result", "restore",
           "flags", "handler", "handled", "unflags"}

Activations ==
  [fn : Code, entry : Int, at : Phases, k : Nat, to : Code, extra : Nat,
   saved : [Registers -> Int], val : Seq(Int), args : Seq(Int)]

(* The stack pointer never leaves the stack that boot gave out.            *)
TypeOK ==
  /\ sp \in 0..StackTop
  /\ regs \in [Registers -> Int]
  /\ mem \in [0..(StackTop - 1) -> Int]
  /\ stack \in Seq(Activations)
  /\ \A d \in DOMAIN stack : Len(stack[d].val) = Len(Objects[stack[d].fn])
  /\ ie0 \in BOOLEAN

\* The next instruction of activation a returns.
AtReturn(a) == a.at = "restore" /\ a.k = Len(Saved[a.fn])

(* At its return a compiled function has the stack pointer where it was at *)
(* entry, its caller's return address under it, and every callee saved     *)
(* register but FP as it found it, whatever it called and however often it *)
(* was interrupted.  FP, which getCalleeSavedRegs() lists too, is not: the *)
(* compiler reserves it, saves it nowhere, and llvm2envyas writes it.      *)
CalleeSavedRestored ==
  Depth > 0 /\ AtReturn(Top) /\ Top.fn \in Funcs =>
    /\ sp = Top.entry /\ Holds(sp, Word, ReturnTo(Depth - 1))
    /\ \A r \in CalleeSaved \ {FP} : regs[r] = Top.saved[r]

(* An interrupt is not noticed: at iret every register, $flags, the stack  *)
(* pointer and the interrupted address are as they were, wherever between  *)
(* two instructions of a prologue, body, call or epilogue it came.         *)
InterruptTransparent ==
  Depth > 0 /\ AtReturn(Top) /\ Top.fn = Ih =>
    /\ sp = Top.entry /\ Holds(sp, Word, ReturnTo(Depth - 1))
    /\ \A r \in Registers : regs[r] = Top.saved[r]

(* A function reads back from its stack objects what it last wrote there,  *)
(* through the addresses of eliminateFrameIndex(): neither the functions   *)
(* it called nor its own arguments for them nor a handler touched them.    *)
ObjectsKept ==
  Depth > 0 /\ Top.at = "body" /\ Top.fn \in Funcs =>
    \A j \in DOMAIN Top.val :
      Top.val[j] # Unset =>
        Holds(FrameIndexAddr(sp, Offset[Top.fn][j], StackSize[Top.fn]),
              Objects[Top.fn][j].size, Top.val[j])

(* A function finds its stack arguments where its caller stored them: the  *)
(* fixed objects of LowerCCCArguments() are the words that                 *)
(* LowerCCCCallTo() wrote, and stay so while the function runs.            *)
ArgumentsArrive ==
  Depth > 0 /\ Top.at = "body" /\ Top.fn \in Funcs =>
    \A j \in DOMAIN Top.args :
      Holds(FrameIndexAddr(sp, Word * (j - 1), StackSize[Top.fn]), Word, Top.args[j])
=============================================================================
