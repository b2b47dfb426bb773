---------------------------- MODULE Frame_proofs ----------------------------
(***************************************************************************)
(* The frame and the calling convention.  First the properties of          *)
(* FrameLayout, for every function: any number of saved registers, objects *)
(* of any size, any calls.  Then those of CallStack: the calling           *)
(* convention, the frames and the interrupt stub, for every set of         *)
(* functions, calls, objects, arguments and saved registers, every size of *)
(* the stack and depth of calls.                                           *)
(*                                                                         *)
(* What the first part proves of a layout that is done is what the second  *)
(* assumes of the layouts that code runs with.                             *)
(***************************************************************************)
EXTENDS FrameLayout, CallStack, SequenceTheorems, TLAPS

-----------------------------------------------------------------------------
(* Facts about the numbers.                                                *)

\* RoundUp() gives the next multiple, and for an aligned number that number.
LEMMA RoundUpFacts ==
  ASSUME NEW n \in Nat, NEW align \in Alignments
  PROVE  /\ RoundUp(n, align) \in Nat
         /\ n =< RoundUp(n, align)
         /\ RoundUp(n, align) % align = 0
         /\ (-RoundUp(n, align)) % align = 0
         /\ n % align = 0 => RoundUp(n, align) = n
<1>1. CASE align = 1 BY <1>1 DEF RoundUp
<1>2. CASE align = 2 BY <1>2 DEF RoundUp
<1>3. CASE align = 4 BY <1>3 DEF RoundUp
<1>4. CASE align = 8 BY <1>4 DEF RoundUp
<1> QED BY <1>1, <1>2, <1>3, <1>4 DEF Alignments

\* A multiple of the frame's alignment keeps the stack pointer aligned.
LEMMA RoundUpWords ==
  ASSUME NEW n \in Nat, NEW align \in {4, 8}
  PROVE  (RoundUp(n, align) - LocalAreaOffset) % StackAlignment = 0
<1>1. CASE align = 4 BY <1>1 DEF RoundUp, LocalAreaOffset, Word, StackAlignment
<1>2. CASE align = 8 BY <1>2 DEF RoundUp, LocalAreaOffset, Word, StackAlignment
<1> QED BY <1>1, <1>2

LEMMA LargerFacts ==
  ASSUME NEW x \in Int, NEW y \in Int
  PROVE  Larger(x, y) \in {x, y} /\ x =< Larger(x, y) /\ y =< Larger(x, y)
BY DEF Larger

\* The parts of a function have their types.
LEMMA FunctionFacts ==
  ASSUME NEW f \in Functions
  PROVE  /\ f.saved \in Nat
         /\ Len(f.objects) \in Nat /\ DOMAIN f.objects = 1..Len(f.objects)
         /\ \A j \in 1..Len(f.objects) :
              f.objects[j].size \in Nat /\ f.objects[j].align \in Alignments
         /\ Len(f.calls) \in Nat /\ DOMAIN f.calls = 1..Len(f.calls)
         /\ \A k \in 1..Len(f.calls) : f.calls[k] \in Nat
<1>1. /\ f.saved \in Nat
      /\ f.objects \in Seq(Object) /\ f.calls \in Seq(Nat)
  BY FunctionsAssumption
<1>2. \A j \in 1..Len(f.objects) : f.objects[j] \in Object BY <1>1
<1> QED BY <1>1, <1>2 DEF Object

\* The largest alignment of a function's objects is one of them.
LEMMA MaxAlignmentFacts ==
  ASSUME NEW f \in Functions
  PROVE  MaxAlignment(f) \in Alignments
<1> DEFINE S == ObjectAlignments(f)
<1>1. S \subseteq Alignments /\ 1 \in S
  <2>1. \A j \in DOMAIN f.objects : f.objects[j].align \in Alignments
    BY FunctionFacts
  <2> QED BY <2>1 DEF ObjectAlignments, Alignments, Word
<1>2. \E a \in S : \A b \in S : b =< a
  <2>1. CASE 8 \in S BY <1>1, <2>1 DEF Alignments
  <2>2. CASE 8 \notin S /\ 4 \in S BY <1>1, <2>2 DEF Alignments
  <2>3. CASE 8 \notin S /\ 4 \notin S /\ 2 \in S BY <1>1, <2>3 DEF Alignments
  <2>4. CASE 8 \notin S /\ 4 \notin S /\ 2 \notin S BY <1>1, <2>4 DEF Alignments
  <2> QED BY <2>1, <2>2, <2>3, <2>4
<1>3. MaxAlignment(f) \in S BY <1>2 DEF MaxAlignment
<1> QED BY <1>1, <1>3

LEMMA FrameAlignmentFacts ==
  ASSUME LayoutTyped
  PROVE  /\ FrameAlignment \in Alignments
         /\ adjusts \/ HasVarSizedObjects(fn) => FrameAlignment \in {4, 8}
<1>1. MaxAlignment(fn) \in Alignments BY MaxAlignmentFacts DEF LayoutTyped
<1> QED
  BY <1>1 DEF FrameAlignment, Alignments, Larger, StackAlignment, TransientStackAlignment

-----------------------------------------------------------------------------
(* The inductive invariant.                                                *)

\* What calculateCallsInformation() knows after n calls
Scanned(n) ==
  /\ \A k \in 1..n : fn.calls[k] =< maxCall
  /\ adjusts <=> n > 0

\* The first n objects lie one below the other, between the slots of the
\* saved registers and the bottom.
Placed(n, bottom) ==
  /\ Len(offsets) = n
  /\ \A j \in 1..n :
       /\ offsets[j] % fn.objects[j].align = 0
       /\ offsets[j] + fn.objects[j].size =< -(LocalAreaOffset + Word * fn.saved)
       /\ -offsets[j] =< bottom
       /\ \A l \in 1..(j - 1) : offsets[j] + fn.objects[j].size =< offsets[l]

Progress ==
  /\ loop = "calls" => round =< Len(fn.calls) /\ Scanned(round) /\ offset = LocalAreaOffset
  /\ loop # "calls" => Scanned(Len(fn.calls))
  /\ loop = "slots" => round =< fn.saved /\ offset = LocalAreaOffset + Word * round
  /\ loop \in {"calls", "slots"} => offsets = <<>>
  /\ loop = "objects" =>
       /\ round =< Len(fn.objects)
       /\ LocalAreaOffset + Word * fn.saved =< offset
       /\ Placed(round, offset)
  /\ loop = "done" =>
       /\ Word * fn.saved + Outgoing =< stackSize
       /\ Placed(Len(fn.objects), stackSize + LocalAreaOffset - Outgoing)
       /\ adjusts \/ HasVarSizedObjects(fn) => stackSize % StackAlignment = 0

LayoutInv == LayoutTyped /\ SlotsAreThePushes /\ Progress

-----------------------------------------------------------------------------
(* The initial states and the actions.                                     *)

LEMMA LayoutInitInv == ASSUME LayoutInit PROVE LayoutInv
<1>1. Len(fn.calls) \in Nat BY FunctionFacts DEF LayoutInit
<1>2. LayoutTyped
  <2>1. <<>> \in Seq(Int) OBVIOUS
  <2> QED BY <2>1 DEF LayoutInit, LayoutTyped, LocalAreaOffset, Word
<1>3. SlotsAreThePushes BY DEF LayoutInit, SlotsAreThePushes
<1>4. Progress BY <1>1 DEF LayoutInit, Progress, Scanned
<1> QED BY <1>2, <1>3, <1>4 DEF LayoutInv

LEMMA ScanCallInv == ASSUME LayoutInv, ScanCall PROVE LayoutInv'
<1> USE DEF ScanCall
<1>1. LayoutTyped /\ SlotsAreThePushes /\ Progress BY DEF LayoutInv
<1>2. /\ fn \in Functions /\ round \in Nat /\ maxCall \in Nat
      /\ fn.calls[round + 1] \in Nat /\ Len(fn.calls) \in Nat
  <2>1. fn \in Functions /\ round \in Nat /\ maxCall \in Nat BY <1>1 DEF LayoutTyped
  <2> QED BY <2>1, FunctionFacts
<1>3. /\ maxCall' \in {maxCall, fn.calls[round + 1]}
      /\ maxCall =< maxCall' /\ fn.calls[round + 1] =< maxCall'
  BY <1>2, LargerFacts
<1>4. LayoutTyped' BY <1>1, <1>2, <1>3 DEF LayoutTyped
<1>5. SlotsAreThePushes' BY <1>1 DEF SlotsAreThePushes
<1>6. Scanned(round)'
  <2>1. \A k \in 1..round : fn.calls[k] \in Nat /\ fn.calls[k] =< maxCall
    BY <1>1, <1>2, FunctionFacts DEF Progress, Scanned
  <2>2. \A k \in 1..(round + 1) : fn.calls[k] =< maxCall' BY <1>2, <1>3, <2>1
  <2> QED BY <1>2, <2>2 DEF Scanned
<1>7. Progress' BY <1>1, <1>2, <1>6 DEF Progress, Scanned
<1> QED BY <1>4, <1>5, <1>7 DEF LayoutInv

LEMMA CallsDoneInv == ASSUME LayoutInv, CallsDone PROVE LayoutInv'
<1> USE DEF CallsDone
<1>1. LayoutTyped /\ SlotsAreThePushes /\ Progress BY DEF LayoutInv
<1>2. fn.saved \in Nat BY <1>1, FunctionFacts DEF LayoutTyped
<1>3. LayoutTyped' BY <1>1 DEF LayoutTyped
<1>4. SlotsAreThePushes' BY <1>1 DEF SlotsAreThePushes
<1>5. Progress' BY <1>1, <1>2 DEF Progress, Scanned, Word, LocalAreaOffset
<1> QED BY <1>3, <1>4, <1>5 DEF LayoutInv

LEMMA PlaceSlotInv == ASSUME LayoutInv, PlaceSlot PROVE LayoutInv'
<1> USE DEF PlaceSlot
<1>1. LayoutTyped /\ SlotsAreThePushes /\ Progress BY DEF LayoutInv
<1>2. fn \in Functions /\ round \in Nat /\ slots \in Seq(Int) BY <1>1 DEF LayoutTyped
<1>3. fn.saved \in Nat BY <1>2, FunctionFacts
<1>4. offset = LocalAreaOffset + Word * round BY <1>1 DEF Progress
<1>5. offset' = LocalAreaOffset + Word * (round + 1)
  BY <1>2, <1>4 DEF PlaceBelow, RoundUp, LocalAreaOffset, Word
<1>6. offset' \in Nat BY <1>2, <1>5 DEF LocalAreaOffset, Word
<1>7. LayoutTyped' BY <1>1, <1>6 DEF LayoutTyped
<1>8. SlotsAreThePushes'
  <2>1. Len(slots) = round BY <1>1 DEF SlotsAreThePushes
  <2>2. /\ Len(slots') = round + 1 /\ DOMAIN slots' = 1..(round + 1)
        /\ \A k \in 1..round : slots'[k] = slots[k]
        /\ slots'[round + 1] = -offset'
    BY <1>2, <1>6, <2>1
  <2>3. \A k \in 1..(round + 1) : slots'[k] = -(LocalAreaOffset + Word * k)
    BY <1>1, <1>2, <1>5, <2>1, <2>2 DEF SlotsAreThePushes
  <2> QED BY <2>2, <2>3 DEF SlotsAreThePushes
<1>9. Progress' BY <1>1, <1>2, <1>3, <1>5 DEF Progress, Scanned
<1> QED BY <1>7, <1>8, <1>9 DEF LayoutInv

LEMMA SlotsDoneInv == ASSUME LayoutInv, SlotsDone PROVE LayoutInv'
<1> USE DEF SlotsDone
<1>1. LayoutTyped /\ SlotsAreThePushes /\ Progress BY DEF LayoutInv
<1>2. fn \in Functions /\ round \in Nat BY <1>1 DEF LayoutTyped
<1>3. fn.saved \in Nat /\ Len(fn.objects) \in Nat BY <1>2, FunctionFacts
<1>4. LayoutTyped' BY <1>1 DEF LayoutTyped
<1>5. SlotsAreThePushes' BY <1>1 DEF SlotsAreThePushes
<1>6. Placed(0, offset)' BY <1>1 DEF Placed, Progress
<1>7. Progress' BY <1>1, <1>2, <1>3, <1>6 DEF Progress, Scanned, Word, LocalAreaOffset
<1> QED BY <1>4, <1>5, <1>7 DEF LayoutInv

LEMMA PlaceObjectInv == ASSUME LayoutInv, PlaceObject PROVE LayoutInv'
<1> USE DEF PlaceObject
<1> DEFINE o == fn.objects[round + 1]
<1>1. LayoutTyped /\ SlotsAreThePushes /\ Progress BY DEF LayoutInv
<1>2. fn \in Functions /\ round \in Nat /\ offset \in Nat /\ offsets \in Seq(Int)
  BY <1>1 DEF LayoutTyped
<1>3. /\ fn.saved \in Nat /\ Len(fn.objects) \in Nat
      /\ \A j \in 1..(round + 1) : fn.objects[j].size \in Nat /\ fn.objects[j].align \in Alignments
  BY <1>2, FunctionFacts
<1>4. o.size \in Nat /\ o.align \in Alignments
  <2>1. round + 1 \in 1..(round + 1) BY <1>2
  <2> HIDE DEF PlaceObject
  <2> QED BY <1>3, <2>1
<1>5. offset' \in Nat /\ offset + o.size =< offset' /\ (-offset') % o.align = 0
  <2> HIDE DEF o
  <2>1. offset' = RoundUp(offset + o.size, o.align) BY DEF PlaceBelow, o
  <2>2. offset + o.size \in Nat BY <1>2, <1>4
  <2> QED BY <1>4, <2>1, <2>2, RoundUpFacts
<1>6. offset =< offset' /\ -offset' \in Int /\ -offset' + o.size =< -offset
  <2> HIDE DEF o, PlaceObject
  <2> QED BY <1>2, <1>4, <1>5
<1>7. Placed(round, offset) /\ LocalAreaOffset + Word * fn.saved =< offset BY <1>1 DEF Progress
<1>8. /\ Len(offsets') = round + 1 /\ DOMAIN offsets = 1..round
      /\ \A j \in 1..round : offsets'[j] = offsets[j] /\ offsets[j] \in Int
      /\ offsets'[round + 1] = -offset'
      /\ offsets' \in Seq(Int)
  BY <1>2, <1>5, <1>7 DEF Placed
<1>9. Placed(round, offset)'
  <2>1. ASSUME NEW j \in 1..round
        PROVE  /\ offsets'[j] % fn.objects[j].align = 0
               /\ offsets'[j] + fn.objects[j].size =< -(LocalAreaOffset + Word * fn.saved)
               /\ -offsets'[j] =< offset'
               /\ \A l \in 1..(j - 1) : offsets'[j] + fn.objects[j].size =< offsets'[l]
    <3>1. offsets'[j] % fn.objects[j].align = 0 BY <1>7, <1>8 DEF Placed
    <3>2. offsets'[j] + fn.objects[j].size =< -(LocalAreaOffset + Word * fn.saved)
      BY <1>7, <1>8 DEF Placed
    <3>3. -offsets'[j] =< offset' BY <1>2, <1>5, <1>6, <1>7, <1>8 DEF Placed
    <3>4. \A l \in 1..(j - 1) : l \in 1..round BY <1>2
    <3>5. \A l \in 1..(j - 1) : offsets'[j] + fn.objects[j].size =< offsets'[l]
      BY <1>7, <1>8, <3>4 DEF Placed
    <3> QED BY <3>1, <3>2, <3>3, <3>5
  <2>2. /\ offsets'[round + 1] % o.align = 0
        /\ offsets'[round + 1] + o.size =< -(LocalAreaOffset + Word * fn.saved)
        /\ -offsets'[round + 1] =< offset'
        /\ \A l \in 1..round : offsets'[round + 1] + o.size =< offsets'[l]
    <3>1. offsets'[round + 1] % o.align = 0 BY <1>5, <1>8
    <3> HIDE DEF o, PlaceObject
    <3>2. offsets'[round + 1] + o.size =< -offset BY <1>6, <1>8
    <3>3. -offset =< -(LocalAreaOffset + Word * fn.saved) BY <1>2, <1>3, <1>7 DEF LocalAreaOffset, Word
    <3>4. offsets'[round + 1] + o.size =< -(LocalAreaOffset + Word * fn.saved)
      BY <1>2, <1>3, <1>4, <1>6, <1>8, <3>2, <3>3 DEF LocalAreaOffset, Word
    <3>5. \A l \in 1..round : -offset =< offsets'[l]
      <4>1. \A l \in 1..round : -offsets[l] =< offset BY <1>7 DEF Placed
      <4>2. \A l \in 1..round : offsets[l] \in Int BY <1>8
      <4> QED BY <1>2, <1>8, <4>1, <4>2
    <3>6. \A l \in 1..round : offsets'[round + 1] + o.size =< offsets'[l]
      BY <1>2, <1>4, <1>6, <1>8, <3>2, <3>5
    <3>7. -offsets'[round + 1] =< offset'
      <4>1. \A x, y \in Int : y = -x => -y =< x OBVIOUS
      <4>2. offset' \in Int /\ offsets'[round + 1] \in Int BY <1>5, <1>6, <1>8
      <4> QED BY <1>8, <4>1, <4>2
    <3> QED BY <3>1, <3>4, <3>6, <3>7
  <2>3. \A j \in 1..(round + 1) : j \in 1..round \/ j = round + 1 BY <1>2
  <2>4. (round + 1) - 1 = round BY <1>2
  <2> QED BY <1>8, <2>1, <2>2, <2>3, <2>4 DEF Placed
<1>10. LayoutTyped' BY <1>1, <1>2, <1>5, <1>8 DEF LayoutTyped
<1>11. SlotsAreThePushes' BY <1>1 DEF SlotsAreThePushes
<1>12. Progress'
  <2>1. LocalAreaOffset + Word * fn.saved =< offset'
    <3> HIDE DEF o, PlaceObject
    <3> QED BY <1>2, <1>3, <1>5, <1>6, <1>7 DEF LocalAreaOffset, Word
  <2>2. round + 1 =< Len(fn.objects) BY <1>2, <1>3
  <2>3. Scanned(Len(fn.calls))' BY <1>1 DEF Progress, Scanned
  <2> QED BY <1>9, <2>1, <2>2, <2>3 DEF Progress
<1> QED BY <1>10, <1>11, <1>12 DEF LayoutInv

LEMMA FinishInv == ASSUME LayoutInv, Finish PROVE LayoutInv'
<1> USE DEF Finish
<1>1. LayoutTyped /\ SlotsAreThePushes /\ Progress BY DEF LayoutInv
<1>2. /\ fn \in Functions /\ round \in Nat /\ offset \in Nat /\ offsets \in Seq(Int)
      /\ maxCall \in Nat
  BY <1>1 DEF LayoutTyped
<1>3. fn.saved \in Nat /\ Len(fn.objects) \in Nat BY <1>2, FunctionFacts
<1>4. Outgoing \in Nat /\ Outgoing' = Outgoing BY <1>2 DEF Outgoing, Reserved
<1>5. FrameAlignment \in Alignments BY <1>1, FrameAlignmentFacts
<1>6. offset' \in Nat /\ offset + Outgoing =< offset' BY <1>2, <1>4, <1>5, RoundUpFacts
<1>7. LocalAreaOffset + Word * fn.saved =< offset /\ Placed(Len(fn.objects), offset)
  BY <1>1 DEF Progress
<1>8. /\ stackSize' = offset' - LocalAreaOffset
      /\ stackSize' \in Nat
      /\ Word * fn.saved + Outgoing =< stackSize'
  BY <1>2, <1>3, <1>4, <1>6, <1>7 DEF LocalAreaOffset, Word
<1>9. Placed(Len(fn.objects), stackSize + LocalAreaOffset - Outgoing)'
  <2>1. offset =< stackSize' + LocalAreaOffset - Outgoing
    BY <1>2, <1>4, <1>6, <1>8 DEF LocalAreaOffset, Word
  <2>2. \A j \in 1..Len(fn.objects) : offsets[j] \in Int BY <1>2, <1>7 DEF Placed
  <2>3. \A j \in 1..Len(fn.objects) : -offsets[j] =< stackSize' + LocalAreaOffset - Outgoing
    BY <1>2, <1>4, <1>7, <1>8, <2>1, <2>2 DEF Placed, LocalAreaOffset, Word
  <2> QED BY <1>4, <1>7, <2>3 DEF Placed
<1>10. adjusts \/ HasVarSizedObjects(fn) => stackSize' % StackAlignment = 0
  <2>1. adjusts \/ HasVarSizedObjects(fn) => FrameAlignment \in {4, 8} BY <1>1, FrameAlignmentFacts
  <2> QED BY <1>2, <1>4, <2>1, RoundUpWords
<1>11. LayoutTyped' BY <1>1, <1>6, <1>8 DEF LayoutTyped
<1>12. SlotsAreThePushes' BY <1>1 DEF SlotsAreThePushes
<1>13. Progress'
  <2>1. Scanned(Len(fn.calls))' BY <1>1 DEF Progress, Scanned
  <2> QED BY <1>4, <1>8, <1>9, <1>10, <2>1 DEF Progress
<1> QED BY <1>11, <1>12, <1>13 DEF LayoutInv

LEMMA LayoutNextInv == ASSUME LayoutInv, [LayoutNext]_layoutVars PROVE LayoutInv'
<1>1. CASE UNCHANGED layoutVars
  BY <1>1 DEF layoutVars, LayoutInv, LayoutTyped, SlotsAreThePushes, Progress, Scanned, Placed,
              Outgoing, Reserved
<1> QED
  BY <1>1, ScanCallInv, CallsDoneInv, PlaceSlotInv, SlotsDoneInv, PlaceObjectInv, FinishInv
  DEF LayoutNext

(* Whatever the compiler is given, at every point of the layout: the       *)
(* objects placed so far lie apart, below the saved registers.             *)
THEOREM LayoutInvariance == LayoutSpec => []LayoutInv
<1>1. LayoutInit => LayoutInv BY LayoutInitInv
<1>2. LayoutInv /\ [LayoutNext]_layoutVars => LayoutInv' BY LayoutNextInv
<1> QED BY <1>1, <1>2, PTL DEF LayoutSpec

-----------------------------------------------------------------------------
(* The properties.                                                         *)

(* Every variable keeps its type; no frame has a negative size.            *)
THEOREM LayoutTypeCorrect == LayoutSpec => []LayoutTyped
<1>1. LayoutInv => LayoutTyped BY DEF LayoutInv
<1> QED BY <1>1, LayoutInvariance, PTL

(* The reserved slots are the words the prologue pushes.                   *)
THEOREM SlotsArePushes == LayoutSpec => []SlotsAreThePushes
<1>1. LayoutInv => SlotsAreThePushes BY DEF LayoutInv
<1> QED BY <1>1, LayoutInvariance, PTL

(* In a finished frame no two of registers, objects and the arguments of  *)
(* any call overlap.                                                       *)
THEOREM LayoutIsSound == LayoutSpec => []LayoutSound
<1>1. ASSUME LayoutInv PROVE LayoutSound
  <2> SUFFICES ASSUME loop = "done", NEW out \in CallBytes
               PROVE  SoundLayout(fn.saved, fn.objects, offsets, out, stackSize)
    BY DEF LayoutSound
  <2> DEFINE n == Len(fn.objects)
  <2>1. /\ Word * fn.saved + Outgoing =< stackSize
        /\ Placed(n, stackSize + LocalAreaOffset - Outgoing)
        /\ Scanned(Len(fn.calls))
    BY <1>1 DEF LayoutInv, Progress
  <2>2. /\ fn \in Functions /\ stackSize \in Nat /\ maxCall \in Nat
        /\ offsets \in Seq(Int)
    BY <1>1 DEF LayoutInv, LayoutTyped
  <2>3. /\ fn.saved \in Nat /\ n \in Nat /\ DOMAIN fn.objects = 1..n
        /\ Outgoing \in Nat
    BY <2>2, FunctionFacts DEF Outgoing, Reserved
  <2>4. out \in Nat /\ out =< Outgoing
    <3>1. CASE out = 0 BY <2>3, <3>1
    <3>2. CASE Reserved(fn) /\ \E k \in DOMAIN fn.calls : out = fn.calls[k]
      <4>1. PICK k \in 1..Len(fn.calls) : out = fn.calls[k] BY <2>2, <3>2, FunctionFacts
      <4>2. Len(fn.calls) \in Nat /\ fn.calls[k] \in Nat BY <2>2, FunctionFacts
      <4>3. fn.calls[k] =< maxCall /\ adjusts BY <2>1, <4>2 DEF Scanned
      <4> QED BY <3>2, <4>1, <4>2, <4>3 DEF Outgoing
    <3> QED BY <3>1, <3>2 DEF CallBytes
  <2>5. stackSize >= Word * fn.saved + out BY <2>1, <2>2, <2>3, <2>4 DEF Word
  <2>6. \A j \in 1..n :
          /\ offsets[j] + fn.objects[j].size =< -(LocalAreaOffset + Word * fn.saved)
          /\ -offsets[j] =< stackSize + LocalAreaOffset - Outgoing
          /\ offsets[j] \in Int
    BY <2>1, <2>2 DEF Placed
  <2>7. \A j \in 1..n : -offsets[j] =< stackSize + LocalAreaOffset - out
    BY <2>2, <2>3, <2>4, <2>6 DEF LocalAreaOffset, Word
  <2>8. ASSUME NEW j \in 1..n, NEW l \in (1..n) \ {j}
        PROVE  \/ offsets[j] + fn.objects[j].size =< offsets[l]
               \/ offsets[l] + fn.objects[l].size =< offsets[j]
    <3>1. l \in 1..(j - 1) \/ j \in 1..(l - 1) BY <2>3
    <3> QED BY <2>1, <3>1 DEF Placed
  <2> QED BY <2>3, <2>5, <2>6, <2>7, <2>8 DEF SoundLayout
<1> QED BY <1>1, LayoutInvariance, PTL

(* Objects are aligned, and so is the frame of whoever calls.              *)
THEOREM OffsetsAreAligned == LayoutSpec => []OffsetsAligned
<1>1. ASSUME LayoutInv PROVE OffsetsAligned
  <2>1. /\ LayoutTyped /\ Progress /\ offsets \in Seq(Int)
        /\ loop \in {"calls", "slots", "objects", "done"}
    BY <1>1 DEF LayoutInv, LayoutTyped
  <2>2. ASSUME NEW j \in DOMAIN offsets PROVE offsets[j] % fn.objects[j].align = 0
    <3>1. loop \in {"objects", "done"} BY <2>1 DEF Progress
    <3>2. \A n, b : Placed(n, b) => offsets[j] % fn.objects[j].align = 0
      BY <2>1 DEF Placed
    <3> QED BY <2>1, <3>1, <3>2 DEF Progress
  <2>3. loop = "done" /\ (adjusts \/ HasVarSizedObjects(fn)) => stackSize % StackAlignment = 0
    BY <2>1 DEF Progress
  <2> QED BY <2>2, <2>3 DEF OffsetsAligned
<1> QED BY <1>1, LayoutInvariance, PTL

-----------------------------------------------------------------------------
(* CallStack.  The invariant is written about a stack s, memory m,         *)
(* registers r and a stack pointer p as values: its lemmas speak of the    *)
(* state after a step as they do of the state before it.                   *)

\* What the proofs need of functions with an object of variable size: they
\* neither return, nor have fixed objects, nor arguments on the stack.
DynamicStays ==
  \A f \in Dynamic : f \notin Returning /\ Objects[f] = <<>> /\ StackArgs[f] = 0

Dom == 0..(StackTop - 1)
HoldsIn(m, addr, size, v) == \A b \in 0..(size - 1) : m[addr + b] = v
NSaved(f) == Len(Saved[f])

\* Memories m and n agree from byte low on, or but for bytes stored at addr;
\* the words of args lie at addr.
Agree(m, n, low) == \A b \in Dom : b >= low => n[b] = m[b]
Elsewhere(m, n, addr, size) == \A b \in Dom : b < addr \/ b >= addr + size => n[b] = m[b]
ArgumentsAt(m, addr, args) ==
  \A j \in 1..Len(args) : HoldsIn(m, addr + Word * (j - 1), Word, args[j])

-----------------------------------------------------------------------------
(* What the assumptions say.                                               *)

LEMMA CodeFacts ==
  ASSUME NEW f \in Code
  PROVE  /\ NSaved(f) \in Nat /\ DOMAIN Saved[f] = 1..NSaved(f)
         /\ \A j \in 1..NSaved(f) : Saved[f][j] \in Regs
         /\ StackSize[f] \in Nat /\ Word * NSaved(f) =< StackSize[f]
         /\ Len(Objects[f]) \in Nat /\ DOMAIN Objects[f] = 1..Len(Objects[f])
         /\ \A j \in 1..Len(Objects[f]) : Objects[f][j].size \in Nat \ {0}
<1>1. Saved[f] \in Seq(Regs) BY CodeAssumption
<1>2. NSaved(f) \in Nat /\ DOMAIN Saved[f] = 1..NSaved(f) BY <1>1 DEF NSaved
<1>3. \A j \in 1..NSaved(f) : Saved[f][j] \in Regs BY <1>1 DEF NSaved
<1>4. StackSize[f] \in Nat BY LayoutAssumption
<1>5. Word * NSaved(f) =< StackSize[f]
  <2>1. CASE f = Ih
    <3>1. StackSize[f] = Word * NSaved(f) + Word BY <2>1, LayoutAssumption DEF NSaved
    <3> QED BY <1>2, <1>4, <3>1 DEF Word
  <2>2. CASE f \in Funcs
    <3>1. 0 \in KeptFor(f) BY DEF KeptFor
    <3>2. SoundLayout(NSaved(f), Objects[f], Offset[f], 0, StackSize[f])
      BY <2>2, <3>1, LayoutAssumption DEF NSaved
    <3>3. StackSize[f] >= Word * NSaved(f) + 0 BY <3>2 DEF SoundLayout
    <3> QED BY <1>2, <1>4, <3>3 DEF Word
  <2> QED BY <2>1, <2>2 DEF Code
<1>6. Objects[f] \in Seq([size : Nat \ {0}, align : Nat]) BY LayoutAssumption
<1>7. Len(Objects[f]) \in Nat /\ DOMAIN Objects[f] = 1..Len(Objects[f]) BY <1>6
<1>8. ASSUME NEW j \in 1..Len(Objects[f]) PROVE Objects[f][j].size \in Nat \ {0}
  <2>1. Objects[f][j] \in [size : Nat \ {0}, align : Nat] BY <1>6, ElementOfSeq
  <2> QED BY <2>1
<1> QED BY <1>2, <1>3, <1>4, <1>5, <1>7, <1>8

\* A frame of f with out bytes kept for calls: the objects lie between those
\* and the saved registers, apart from each other.
LEMMA LayoutFacts ==
  ASSUME NEW f \in Funcs, NEW out \in KeptFor(f), out \in Nat
  PROVE  /\ Word * NSaved(f) + out =< StackSize[f]
         /\ \A j \in 1..Len(Objects[f]) :
              /\ Offset[f][j] \in Int
              /\ Offset[f][j] + Objects[f][j].size =< -(Word + Word * NSaved(f))
              /\ out =< StackSize[f] + Word + Offset[f][j]
              /\ \A l \in 1..Len(Objects[f]) : l # j =>
                   \/ Offset[f][j] + Objects[f][j].size =< Offset[f][l]
                   \/ Offset[f][l] + Objects[f][l].size =< Offset[f][j]
<1>1. SoundLayout(NSaved(f), Objects[f], Offset[f], out, StackSize[f])
  BY LayoutAssumption DEF NSaved
<1>2. f \in Code BY DEF Code
<1>3. /\ NSaved(f) \in Nat /\ StackSize[f] \in Nat
      /\ DOMAIN Objects[f] = 1..Len(Objects[f])
  BY <1>2, CodeFacts
<1>4. Word * NSaved(f) + out =< StackSize[f] BY <1>1, <1>3 DEF SoundLayout, Word
<1>5. Offset[f] \in [1..Len(Objects[f]) -> Int] BY <1>3, LayoutAssumption
<1>6. ASSUME NEW j \in 1..Len(Objects[f])
      PROVE  /\ Offset[f][j] \in Int
             /\ Offset[f][j] + Objects[f][j].size =< -(Word + Word * NSaved(f))
             /\ out =< StackSize[f] + Word + Offset[f][j]
             /\ \A l \in 1..Len(Objects[f]) : l # j =>
                  \/ Offset[f][j] + Objects[f][j].size =< Offset[f][l]
                  \/ Offset[f][l] + Objects[f][l].size =< Offset[f][j]
  <2>1. Offset[f][j] \in Int BY <1>5
  <2>2. Offset[f][j] + Objects[f][j].size =< -(Word + Word * NSaved(f))
    BY <1>1, <1>3 DEF SoundLayout, LocalAreaOffset
  <2>3. -Offset[f][j] =< StackSize[f] + Word - out
    BY <1>1, <1>3 DEF SoundLayout, LocalAreaOffset
  <2>4. out =< StackSize[f] + Word + Offset[f][j] BY <1>3, <2>1, <2>3 DEF Word
  <2>5. \A l \in 1..Len(Objects[f]) : l # j =>
          \/ Offset[f][j] + Objects[f][j].size =< Offset[f][l]
          \/ Offset[f][l] + Objects[f][l].size =< Offset[f][j]
    BY <1>1, <1>3 DEF SoundLayout
  <2> QED BY <2>1, <2>2, <2>4, <2>5
<1> QED BY <1>4, <1>6

\* A call that f makes: the called function, the room it finds for its
\* arguments in f's frame, and the room made for it.
LEMMA CallFacts ==
  ASSUME NEW f \in Funcs, NEW g \in Calls[f]
  PROVE  /\ g \in Funcs /\ g \in Code /\ StackArgs[g] \in Nat
         /\ ArgBytes(g) = Word * StackArgs[g] /\ ArgBytes(g) \in Nat
         /\ f \notin Dynamic => ArgBytes(g) \in KeptFor(f) /\ CallFrame(f, g) = 0
         /\ f \in Dynamic => CallFrame(f, g) = ArgBytes(g)
         /\ CallFrame(f, g) \in Nat
<1>1. g \in Funcs /\ StackArgs[g] \in Nat BY CodeAssumption
<1> QED BY <1>1 DEF KeptFor, ArgBytes, CallFrame, Word, Code

LEMMA NoArguments == ASSUME NEW f PROVE 0 \in KeptFor(f) /\ 0 \in Nat
BY DEF KeptFor

-----------------------------------------------------------------------------
(* Memory.                                                                 *)

\* Bytes outside the ones stored keep their values, the others get the new one.
LEMMA StoreFacts ==
  ASSUME mem \in [Dom -> Int], NEW addr \in Int, NEW size \in Nat, NEW v \in Int,
         Store(addr, size, v)
  PROVE  /\ mem' \in [Dom -> Int]
         /\ Elsewhere(mem, mem', addr, size)
         /\ addr >= 0 /\ addr + size =< StackTop => HoldsIn(mem', addr, size, v)
<1>1. mem' = [b \in Dom |-> IF addr =< b /\ b < addr + size THEN v ELSE mem[b]]
  BY DEF Store
<1>2. mem' \in [Dom -> Int] BY <1>1
<1>3. \A b \in Dom : b < addr \/ b >= addr + size => mem'[b] = mem[b]
  BY <1>1 DEF Dom
<1>4. ASSUME addr >= 0, addr + size =< StackTop, NEW b \in 0..(size - 1)
      PROVE  mem'[addr + b] = v
  <2>1. addr + b \in Dom /\ addr =< addr + b /\ addr + b < addr + size
    BY <1>4, NamesAssumption DEF Dom
  <2> QED BY <1>1, <2>1
<1> QED BY <1>2, <1>3, <1>4 DEF HoldsIn, Elsewhere

\* Where two memories agree, they hold the same.
LEMMA HoldsAgree ==
  ASSUME NEW m, NEW n, NEW low \in Int, NEW addr \in Int, NEW size \in Nat, NEW v,
         Agree(m, n, low),
         addr >= low, addr >= 0, addr + size =< StackTop,
         HoldsIn(m, addr, size, v)
  PROVE  HoldsIn(n, addr, size, v)
<1> SUFFICES ASSUME NEW b \in 0..(size - 1) PROVE n[addr + b] = v BY DEF HoldsIn
<1>1. addr + b \in Dom /\ addr + b >= low BY NamesAssumption DEF Dom
<1>2. m[addr + b] = v BY DEF HoldsIn
<1> QED BY <1>1, <1>2 DEF Agree

LEMMA AgreeAbove ==
  ASSUME NEW m, NEW n, NEW low \in Int, NEW high \in Int, low =< high, Agree(m, n, low)
  PROVE  Agree(m, n, high)
BY NamesAssumption DEF Agree, Dom

LEMMA ArgumentsAgree ==
  ASSUME NEW m, NEW n, NEW low \in Int, NEW addr \in Nat, NEW args \in Seq(Int),
         Agree(m, n, low), low =< addr, addr + Word * Len(args) =< StackTop,
         ArgumentsAt(m, addr, args)
  PROVE  ArgumentsAt(n, addr, args)
<1> SUFFICES ASSUME NEW j \in 1..Len(args)
             PROVE  HoldsIn(n, addr + Word * (j - 1), Word, args[j])
  BY DEF ArgumentsAt
<1>1. HoldsIn(m, addr + Word * (j - 1), Word, args[j]) BY DEF ArgumentsAt
<1> DEFINE at == addr + Word * (j - 1)
<1>2. /\ at \in Int /\ low =< at /\ at >= 0 /\ at + Word =< StackTop /\ Word \in Nat
  BY NamesAssumption DEF Word
<1>3. HoldsIn(m, at, Word, args[j]) BY <1>1
<1> HIDE DEF at
<1>4. HoldsIn(n, at, Word, args[j]) BY <1>2, <1>3, HoldsAgree
<1> QED BY <1>4 DEF at

\* Places in a sequence of length n
LEMMA NextPlace ==
  ASSUME NEW n \in Nat, NEW d \in 1..(n - 1)
  PROVE  /\ d \in Nat /\ d \in 1..n /\ d # n /\ d < n /\ d + 1 \in 1..n
         /\ d + 1 = n \/ d + 1 \in 1..(n - 1)
OBVIOUS

LEMMA Places ==
  ASSUME NEW n \in Nat, NEW d \in 1..(n + 1)
  PROVE  d = n + 1 \/ d = n \/ d \in 1..(n - 1)
OBVIOUS

\* What is held outside the bytes stored is held afterwards.
LEMMA HoldsApart ==
  ASSUME NEW m, NEW n, NEW addr \in Int, NEW size \in Nat, NEW v,
         NEW at \in Int, NEW bytes \in Nat,
         Elsewhere(m, n, at, bytes),
         addr >= 0, addr + size =< StackTop,
         addr + size =< at \/ at + bytes =< addr,
         HoldsIn(m, addr, size, v)
  PROVE  HoldsIn(n, addr, size, v)
<1> SUFFICES ASSUME NEW b \in 0..(size - 1) PROVE n[addr + b] = v BY DEF HoldsIn
<1>1. addr + b \in Dom /\ (addr + b < at \/ addr + b >= at + bytes)
  BY NamesAssumption DEF Dom
<1>2. m[addr + b] = v BY DEF HoldsIn
<1> QED BY <1>1, <1>2 DEF Elsewhere

LEMMA ElsewhereAgree ==
  ASSUME NEW m, NEW n, NEW at \in Int, NEW bytes \in Nat, NEW low \in Int, at + bytes =< low,
         Elsewhere(m, n, at, bytes)
  PROVE  Agree(m, n, low)
BY NamesAssumption DEF Elsewhere, Agree, Dom

\* A word is loaded as it was stored.
LEMMA LoadFacts ==
  ASSUME mem \in [Dom -> Int], NEW addr \in Int, addr >= 0, addr + Word =< StackTop,
         NEW v, HoldsIn(mem, addr, Word, v)
  PROVE  LoadWord(addr) = v
<1>1. addr..(addr + Word - 1) \subseteq DOMAIN mem BY NamesAssumption DEF Dom, Word
<1>2. mem[addr + 0] = v BY DEF HoldsIn, Word
<1>3. mem[addr] = v BY <1>2
<1>4. Holds(addr, Word, mem[addr]) BY <1>3 DEF Holds, HoldsIn
<1> QED BY <1>1, <1>3, <1>4 DEF LoadWord

LEMMA LoadType ==
  ASSUME mem \in [Dom -> Int], NEW addr \in Int
  PROVE  LoadWord(addr) \in Int
<1>1. addr..(addr + Word - 1) \subseteq Dom => addr \in Dom BY DEF Word
<1> QED BY <1>1 DEF LoadWord, Mixed

-----------------------------------------------------------------------------
(* The invariant.                                                          *)

OwnPhases == {"body", "args", "result"}
StubPhases == {"flags", "handler", "handled", "unflags"}
Moving == {"spill", "restore"}

\* How far below its entry an activation has the stack pointer
Below(a) ==
  CASE a.at \in Moving -> Word * (NSaved(a.fn) - a.k)
    [] a.at \in {"flags", "unflags"} -> Word * NSaved(a.fn)
    [] a.at \in {"args", "result"} -> StackSize[a.fn] + a.extra + CallFrame(a.fn, a.to)
    [] a.at \in {"body", "handler", "handled"} -> StackSize[a.fn] + a.extra

SPAt(a) == a.entry - Below(a)

\* An activation that its function can be in, within the stack
Shape(a) ==
  /\ a \in Activations
  /\ a.at \in Moving \cup (IF a.fn \in Funcs THEN OwnPhases ELSE StubPhases)
  /\ a.at \in Moving => a.k =< NSaved(a.fn)
  /\ a.at \in {"args", "result"} => a.to \in Calls[a.fn]
  /\ a.at = "args" => a.k =< StackArgs[a.to]
  /\ a.fn \notin Dynamic \/ a.at = "spill" => a.extra = 0
  /\ a.fn \in Dynamic => a.at # "restore"
  /\ SPAt(a) >= 0 /\ StackSize[a.fn] =< a.entry
  /\ a.entry + Word + Word * Len(a.args) =< StackTop
  /\ Len(a.args) = IF a.fn \in Funcs THEN StackArgs[a.fn] ELSE 0
  /\ Len(a.val) = Len(Objects[a.fn])

\* The word of the j-th saved register
Slot(a, j) == a.entry - Word * (NSaved(a.fn) - j + 1)

\* What the memory holds for an activation a at depth d: its return address,
\* the registers it has saved, the flags, its objects, its arguments, and
\* those it has stored for a call.
SavedHeld(m, a) ==
  /\ \A j \in 1..NSaved(a.fn) :
       (a.at \in Moving => j > a.k) => HoldsIn(m, Slot(a, j), Word, a.saved[Saved[a.fn][j]])
  /\ a.at \in {"handler", "handled"} =>
       HoldsIn(m, a.entry - StackSize[a.fn], Word, a.saved[Flags])
ObjectsHeld(m, a) ==
  \A j \in 1..Len(Objects[a.fn]) :
    /\ a.at = "spill" => a.val[j] = Unset
    /\ a.at \in OwnPhases /\ a.val[j] # Unset =>
         HoldsIn(m, a.entry + Word + Offset[a.fn][j], Objects[a.fn][j].size, a.val[j])
ArgumentsHeld(m, a, d) ==
  /\ ArgumentsAt(m, a.entry + Word, a.args)
  /\ a.at = "args" =>
       \A j \in 1..a.k : HoldsIn(m, SPAt(a) + Word * (j - 1), Word, Argument(d))
Contents(m, a, d) ==
  /\ HoldsIn(m, a.entry, Word, ReturnTo(d - 1))
  /\ SavedHeld(m, a) /\ ObjectsHeld(m, a) /\ ArgumentsHeld(m, a, d)

\* A compiled function has, or has again, the callee saved registers of its
\* caller, but for FP and those that it has saved and not restored.
CleanFunction(a, r) ==
  \A x \in CalleeSaved \ {FP} :
    \/ r[x] = a.saved[x]
    \/ /\ a.at # "spill"
       /\ \E j \in 1..NSaved(a.fn) : Saved[a.fn][j] = x /\ (a.at = "restore" => j > a.k)

\* The registers that the stub relies on at each of its places
CleanStub(a, r) ==
  /\ a.at = "spill" => \A x \in Registers : r[x] = a.saved[x]
  /\ a.at \in {"flags", "unflags"} => r[Scratch] = a.saved[Flags]
  /\ a.at = "restore" =>
       /\ r[Flags] = a.saved[Flags]
       /\ \A j \in 1..a.k : r[Saved[a.fn][j]] = a.saved[Saved[a.fn][j]]

Clean(a, r) == IF a.fn \in Funcs THEN CleanFunction(a, r) ELSE CleanStub(a, r)

Sound(a, d, m, r) == Shape(a) /\ Contents(m, a, d) /\ Clean(a, r)

\* Of two activations, the inner one lies below all that the outer one uses;
\* the next one right below it.  The stub calls only at one of its places.
Nested(s) ==
  /\ \A d, e \in 1..Len(s) : d < e => s[e].entry + Word =< SPAt(s[d])
  /\ \A d \in 1..(Len(s) - 1) :
       /\ s[d + 1].entry + Word = SPAt(s[d])
       /\ s[d].fn \notin Funcs /\ s[d + 1].fn \in Funcs => s[d].at = "handled"

\* The registers that activation d goes on with: an activation that called
\* or was interrupted left them to the next one.
RegsOf(s, d, r) == IF d = Len(s) THEN r ELSE s[d + 1].saved

StackInv(s, m, r, p) ==
  /\ \A d \in 1..Len(s) : Sound(s[d], d, m, RegsOf(s, d, r))
  /\ Nested(s)
  /\ Len(s) > 0 => p = SPAt(s[Len(s)])

IInv == TypeOK /\ StackInv(stack, mem, regs, sp)

-----------------------------------------------------------------------------
(* Where an activation's words are.                                        *)

LEMMA ActivationTypes ==
  ASSUME NEW a \in Activations
  PROVE  /\ a.fn \in Code /\ a.entry \in Int /\ a.at \in Phases /\ a.k \in Nat /\ a.to \in Code
         /\ a.extra \in Nat /\ a.saved \in [Registers -> Int]
         /\ a.val \in Seq(Int) /\ Len(a.val) \in Nat
         /\ a.args \in Seq(Int) /\ Len(a.args) \in Nat
BY DEF Activations

LEMMA BelowFacts ==
  ASSUME NEW a, Shape(a)
  PROVE  /\ a.at \in Moving => Below(a) = Word * (NSaved(a.fn) - a.k)
         /\ a.at \in {"flags", "unflags"} => Below(a) = Word * NSaved(a.fn)
         /\ a.at \in {"args", "result"} =>
              /\ a.fn \in Funcs /\ CallFrame(a.fn, a.to) \in Nat
              /\ Below(a) = StackSize[a.fn] + a.extra + CallFrame(a.fn, a.to)
         /\ a.at \in {"body", "handler", "handled"} => Below(a) = StackSize[a.fn] + a.extra
         /\ Below(a) \in Nat /\ SPAt(a) \in Nat /\ SPAt(a) =< a.entry
<1> USE DEF Shape
<1>1. /\ a.fn \in Code /\ a.k \in Nat /\ a.extra \in Nat /\ a.entry \in Int
      /\ NSaved(a.fn) \in Nat /\ StackSize[a.fn] \in Nat
      /\ Word * NSaved(a.fn) =< StackSize[a.fn]
  BY ActivationTypes, CodeFacts
<1>2. a.at \in {"args", "result"} => a.fn \in Funcs /\ CallFrame(a.fn, a.to) \in Nat
  <2>1. a.at \in {"args", "result"} => a.fn \in Funcs BY DEF Moving, StubPhases
  <2>2. a.fn \in Funcs /\ a.to \in Calls[a.fn] => CallFrame(a.fn, a.to) \in Nat
    BY CallFacts
  <2> QED BY <2>1, <2>2
<1>3. a.at \in Moving => Below(a) = Word * (NSaved(a.fn) - a.k) BY DEF Below, Moving
<1>4. a.at \in {"flags", "unflags"} => Below(a) = Word * NSaved(a.fn) BY DEF Below, Moving
<1>5. a.at \in {"args", "result"} => Below(a) = StackSize[a.fn] + a.extra + CallFrame(a.fn, a.to)
  BY DEF Below, Moving
<1>6. a.at \in {"body", "handler", "handled"} => Below(a) = StackSize[a.fn] + a.extra
  BY DEF Below, Moving
<1>7. a.at \in Moving \cup {"flags", "unflags", "args", "result", "body", "handler", "handled"}
  BY DEF OwnPhases, StubPhases
<1>8. Below(a) \in Nat
  BY <1>1, <1>2, <1>3, <1>4, <1>5, <1>6, <1>7 DEF Word
<1> QED BY <1>1, <1>2, <1>3, <1>4, <1>5, <1>6, <1>8 DEF SPAt

\* The words that Contents speaks of lie between the stack pointer and the
\* end of the stack, those of the activation itself not above its entry.
LEMMA SlotPlaces ==
  ASSUME NEW a, Shape(a), NEW j \in 1..NSaved(a.fn)
  PROVE  /\ Slot(a, j) \in Int /\ Slot(a, j) >= 0 /\ Slot(a, j) + Word =< a.entry
         /\ a.entry - Word * NSaved(a.fn) =< Slot(a, j)
         /\ (a.at \in Moving => j > a.k) => SPAt(a) =< Slot(a, j)
<1>1. /\ a \in Activations /\ StackSize[a.fn] =< a.entry
      /\ a.at \in Moving \cup {"flags", "unflags", "args", "result", "body", "handler", "handled"}
  BY DEF Shape, OwnPhases, StubPhases
<1>2. /\ a.entry \in Int /\ a.k \in Nat /\ a.extra \in Nat /\ a.fn \in Code
      /\ NSaved(a.fn) \in Nat /\ StackSize[a.fn] \in Nat /\ Word * NSaved(a.fn) =< StackSize[a.fn]
  BY <1>1, ActivationTypes, CodeFacts
<1>3. Slot(a, j) = a.entry - 4 * (NSaved(a.fn) - j + 1) BY DEF Slot, Word
<1>4. /\ Slot(a, j) \in Int /\ Slot(a, j) >= 0 /\ Slot(a, j) + Word =< a.entry
      /\ a.entry - Word * NSaved(a.fn) =< Slot(a, j)
  BY <1>1, <1>2, <1>3 DEF Word
<1>5. ASSUME a.at \in Moving => j > a.k PROVE SPAt(a) =< Slot(a, j)
  <2>1. CASE a.at \in Moving
    <3>1. SPAt(a) = a.entry - 4 * (NSaved(a.fn) - a.k) BY <2>1, BelowFacts DEF SPAt, Word
    <3> QED BY <1>2, <1>3, <1>5, <2>1, <3>1
  <2>2. CASE a.at \notin Moving
    <3>1. Below(a) >= Word * NSaved(a.fn) BY <1>1, <1>2, <2>2, BelowFacts DEF Word
    <3> QED BY <1>2, <1>3, <3>1, BelowFacts DEF SPAt, Word
  <2> QED BY <2>1, <2>2
<1> QED BY <1>4, <1>5

LEMMA FlagsPlace ==
  ASSUME NEW a, Shape(a), a.fn \notin Funcs
  PROVE  /\ a.at \in {"handler", "handled"} => a.entry - StackSize[a.fn] = SPAt(a)
         /\ a.entry - StackSize[a.fn] \in Nat
         /\ a.entry - StackSize[a.fn] + Word = a.entry - Word * NSaved(a.fn)
<1>1. /\ a.entry \in Int /\ a.fn = Ih /\ StackSize[a.fn] \in Nat /\ StackSize[a.fn] =< a.entry
      /\ NSaved(a.fn) \in Nat /\ StackSize[a.fn] = Word * NSaved(a.fn) + Word /\ a.extra = 0
  BY ActivationTypes, CodeFacts, LayoutAssumption, NamesAssumption DEF Shape, Code, NSaved
<1> QED BY <1>1, BelowFacts DEF SPAt, Word

LEMMA ObjectPlaces ==
  ASSUME DynamicStays, NEW a, Shape(a), a.fn \in Funcs, NEW j \in 1..Len(Objects[a.fn])
  PROVE  LET at == a.entry + Word + Offset[a.fn][j] IN
         /\ at \in Int /\ at >= 0 /\ Objects[a.fn][j].size \in Nat
         /\ a.at \in OwnPhases => SPAt(a) =< at
         /\ a.at = "args" => SPAt(a) + Word * StackArgs[a.to] =< at
         /\ at + Objects[a.fn][j].size =< a.entry - Word * NSaved(a.fn)
<1>1. /\ a \in Activations /\ StackSize[a.fn] =< a.entry
      /\ a.fn \notin Dynamic => a.extra = 0
      /\ a.at \in {"args", "result"} => a.to \in Calls[a.fn]
  BY DEF Shape
<1>2. /\ a.entry \in Int /\ a.extra \in Nat /\ a.fn \in Code
      /\ NSaved(a.fn) \in Nat /\ StackSize[a.fn] \in Nat /\ Objects[a.fn][j].size \in Nat
  BY <1>1, ActivationTypes, CodeFacts
<1>3. a.fn \notin Dynamic /\ a.extra = 0
  <2>1. Objects[a.fn] # <<>> OBVIOUS
  <2> QED BY <1>1, <2>1 DEF DynamicStays
<1>4. \A out \in KeptFor(a.fn) : out \in Nat =>
        /\ Offset[a.fn][j] \in Int
        /\ Offset[a.fn][j] + Objects[a.fn][j].size =< -(Word + Word * NSaved(a.fn))
        /\ out =< StackSize[a.fn] + Word + Offset[a.fn][j]
  BY LayoutFacts
<1>5. /\ Offset[a.fn][j] \in Int
      /\ Offset[a.fn][j] + Objects[a.fn][j].size =< -(Word + Word * NSaved(a.fn))
      /\ 0 =< StackSize[a.fn] + Word + Offset[a.fn][j]
  BY <1>4, NoArguments
<1>6. a.at \in {"args", "result"} =>
        /\ CallFrame(a.fn, a.to) = 0
        /\ Word * StackArgs[a.to] =< StackSize[a.fn] + Word + Offset[a.fn][j]
        /\ StackArgs[a.to] \in Nat
  BY <1>1, <1>3, <1>4, CallFacts
<1>7. a.at \in OwnPhases => SPAt(a) = a.entry - StackSize[a.fn]
  BY <1>2, <1>3, <1>6, BelowFacts DEF SPAt, OwnPhases
<1> DEFINE at == a.entry + Word + Offset[a.fn][j]
<1>8. /\ at \in Int /\ a.entry - StackSize[a.fn] =< at /\ at >= 0
      /\ at + Objects[a.fn][j].size =< a.entry - Word * NSaved(a.fn)
  <2>1. ASSUME NEW e \in Int, NEW n \in Nat, NEW st \in Nat, NEW o \in Int, NEW sz \in Nat,
               st =< e, o + sz =< -(4 + 4 * n), 0 =< st + 4 + o
        PROVE  e + 4 + o \in Int /\ e - st =< e + 4 + o /\ e + 4 + o >= 0
               /\ e + 4 + o + sz =< e - 4 * n
    BY <2>1
  <2> QED BY <1>1, <1>2, <1>5, <2>1 DEF Word
<1>9. a.at \in OwnPhases => SPAt(a) =< at BY <1>7, <1>8
<1>10. a.at = "args" => SPAt(a) + Word * StackArgs[a.to] =< at
  <2> SUFFICES ASSUME a.at = "args" PROVE SPAt(a) + Word * StackArgs[a.to] =< at OBVIOUS
  <2>1. /\ SPAt(a) = a.entry - StackSize[a.fn] /\ StackArgs[a.to] \in Nat
        /\ Word * StackArgs[a.to] =< StackSize[a.fn] + Word + Offset[a.fn][j]
    BY <1>6, <1>7 DEF OwnPhases
  <2>2. ASSUME NEW e \in Int, NEW st \in Nat, NEW o \in Int, NEW x \in Nat, x =< st + 4 + o
        PROVE  e - st + x =< e + 4 + o
    BY <2>2
  <2>3. Word * StackArgs[a.to] \in Nat BY <2>1 DEF Word
  <2>4. a.entry - StackSize[a.fn] + Word * StackArgs[a.to] =< a.entry + 4 + Offset[a.fn][j]
    BY <1>2, <1>5, <2>1, <2>2, <2>3 DEF Word
  <2> QED BY <2>1, <2>4 DEF Word
<1> QED BY <1>2, <1>8, <1>9, <1>10

LEMMA EntryPlace ==
  ASSUME NEW a, Shape(a)
  PROVE  a.entry \in Nat /\ a.entry + Word =< StackTop
<1>1. /\ a.entry \in Int /\ Len(a.args) \in Nat /\ SPAt(a) \in Nat /\ SPAt(a) =< a.entry
      /\ a.entry + Word + Word * Len(a.args) =< StackTop
  BY ActivationTypes, BelowFacts DEF Shape
<1> QED BY <1>1, NamesAssumption DEF Word

\* Arguments stored for a call are the words at the stack pointer, below the
\* registers saved and the objects.
LEMMA OutgoingPlaces ==
  ASSUME DynamicStays, NEW a, Shape(a), a.at = "args", NEW j \in 1..StackArgs[a.to]
  PROVE  /\ SPAt(a) + Word * (j - 1) \in Nat /\ SPAt(a) =< SPAt(a) + Word * (j - 1)
         /\ SPAt(a) + Word * (j - 1) + Word =< a.entry - Word * NSaved(a.fn)
         /\ \A l \in 1..Len(Objects[a.fn]) :
              SPAt(a) + Word * (j - 1) + Word =< a.entry + Word + Offset[a.fn][l]
<1>1. /\ a \in Activations /\ StackSize[a.fn] =< a.entry /\ a.to \in Calls[a.fn]
      /\ a.fn \notin Dynamic => a.extra = 0
  BY DEF Shape
<1>2. /\ a.fn \in Funcs /\ CallFrame(a.fn, a.to) \in Nat
      /\ SPAt(a) = a.entry - (StackSize[a.fn] + a.extra + CallFrame(a.fn, a.to))
      /\ SPAt(a) \in Nat
  BY BelowFacts DEF SPAt
<1>3. /\ a.entry \in Int /\ a.extra \in Nat /\ a.fn \in Code
      /\ NSaved(a.fn) \in Nat /\ StackSize[a.fn] \in Nat
      /\ Word * NSaved(a.fn) =< StackSize[a.fn]
  BY <1>1, ActivationTypes, CodeFacts
<1>4. /\ StackArgs[a.to] \in Nat /\ ArgBytes(a.to) = Word * StackArgs[a.to]
      /\ ArgBytes(a.to) \in Nat
  BY <1>1, <1>2, CallFacts
<1>5. SPAt(a) + ArgBytes(a.to) =< a.entry - Word * NSaved(a.fn)
  <2>1. CASE a.fn \in Dynamic
    <3>1. CallFrame(a.fn, a.to) = ArgBytes(a.to) BY <1>1, <1>2, <2>1, CallFacts
    <3> QED BY <1>2, <1>3, <1>4, <3>1 DEF Word
  <2>2. CASE a.fn \notin Dynamic
    <3>1. ArgBytes(a.to) \in KeptFor(a.fn) /\ CallFrame(a.fn, a.to) = 0
      BY <1>1, <1>2, <2>2, CallFacts
    <3>2. Word * NSaved(a.fn) + ArgBytes(a.to) =< StackSize[a.fn]
      BY <1>2, <1>4, <3>1, LayoutFacts
    <3> QED BY <1>1, <1>2, <1>3, <1>4, <2>2, <3>1, <3>2 DEF Word
  <2> QED BY <2>1, <2>2
<1>6. \A l \in 1..Len(Objects[a.fn]) :
        /\ a.entry + Word + Offset[a.fn][l] \in Int
        /\ SPAt(a) + Word * StackArgs[a.to] =< a.entry + Word + Offset[a.fn][l]
  BY <1>2, ObjectPlaces
<1>7. /\ Word * (j - 1) \in Nat /\ Word * (j - 1) + Word =< Word * StackArgs[a.to]
      /\ Word * StackArgs[a.to] \in Nat /\ Word * NSaved(a.fn) \in Nat
  BY <1>3, <1>4 DEF Word
<1>8. SPAt(a) + Word * (j - 1) + Word =< a.entry - Word * NSaved(a.fn)
  BY <1>2, <1>3, <1>4, <1>5, <1>7 DEF Word
<1>9. ASSUME NEW l \in 1..Len(Objects[a.fn])
      PROVE  SPAt(a) + Word * (j - 1) + Word =< a.entry + Word + Offset[a.fn][l]
  <2> DEFINE x == Word * (j - 1)
             y == Word * StackArgs[a.to]
             z == a.entry + Word + Offset[a.fn][l]
  <2>1. x \in Nat /\ y \in Nat /\ z \in Int /\ x + Word =< y /\ SPAt(a) + y =< z
    BY <1>6, <1>7
  <2> HIDE DEF x, y, z
  <2>2. SPAt(a) + x + Word =< z BY <1>2, <2>1 DEF Word
  <2> QED BY <2>2 DEF x, z
<1> QED BY <1>2, <1>7, <1>8, <1>9

-----------------------------------------------------------------------------
(* What steps of inner activations leave alone.                            *)

\* An activation keeps its contents when no byte from its stack pointer on
\* changes.
LEMMA ContentsKept ==
  ASSUME DynamicStays, NEW a, Shape(a), NEW d, NEW m, NEW n, Contents(m, a, d),
         Agree(m, n, SPAt(a))
  PROVE  Contents(n, a, d)
<1>1. /\ a.fn \in Code /\ a.entry \in Nat /\ a.entry + Word =< StackTop /\ SPAt(a) \in Int
      /\ SPAt(a) =< a.entry /\ Word \in Nat /\ StackTop \in Nat
  BY ActivationTypes, EntryPlace, BelowFacts, NamesAssumption DEF Shape, Word
<1>2. ASSUME NEW addr \in Int, NEW size \in Nat, NEW v, SPAt(a) =< addr, addr >= 0,
             addr + size =< StackTop, HoldsIn(m, addr, size, v)
      PROVE  HoldsIn(n, addr, size, v)
  BY <1>1, <1>2, HoldsAgree
<1>3. HoldsIn(n, a.entry, Word, ReturnTo(d - 1))
  BY <1>1, <1>2 DEF Contents
<1>4. SavedHeld(n, a)
  <2>1. ASSUME NEW j \in 1..NSaved(a.fn), a.at \in Moving => j > a.k
        PROVE  HoldsIn(n, Slot(a, j), Word, a.saved[Saved[a.fn][j]])
    <3>1. /\ Slot(a, j) \in Int /\ Slot(a, j) >= 0 /\ SPAt(a) =< Slot(a, j)
          /\ Slot(a, j) + Word =< a.entry
      BY <2>1, SlotPlaces
    <3>2. HoldsIn(m, Slot(a, j), Word, a.saved[Saved[a.fn][j]])
      BY <2>1 DEF Contents, SavedHeld
    <3>3. Slot(a, j) + Word =< StackTop BY <1>1, <3>1 DEF Word
    <3> QED BY <1>1, <1>2, <3>1, <3>2, <3>3
  <2>2. ASSUME a.at \in {"handler", "handled"}
        PROVE  HoldsIn(n, a.entry - StackSize[a.fn], Word, a.saved[Flags])
    <3>1. a.fn \notin Funcs BY <2>2 DEF Shape, OwnPhases, Moving
    <3>2. /\ a.entry - StackSize[a.fn] = SPAt(a)
          /\ a.entry - StackSize[a.fn] \in Nat
          /\ a.entry - StackSize[a.fn] + Word =< StackTop
      BY <1>1, <2>2, <3>1, FlagsPlace, CodeFacts DEF Word
    <3> QED BY <1>1, <1>2, <2>2, <3>2 DEF Contents, SavedHeld
  <2> QED BY <2>1, <2>2 DEF SavedHeld
<1>5. ObjectsHeld(n, a)
  <2>1. ASSUME NEW j \in 1..Len(Objects[a.fn]), a.at \in OwnPhases, a.val[j] # Unset
        PROVE  HoldsIn(n, a.entry + Word + Offset[a.fn][j], Objects[a.fn][j].size, a.val[j])
    <3> DEFINE at == a.entry + Word + Offset[a.fn][j]
               size == Objects[a.fn][j].size
    <3>1. a.fn \in Funcs BY <2>1 DEF Shape, OwnPhases, StubPhases, Moving
    <3>2. /\ at \in Int /\ at >= 0 /\ size \in Nat /\ SPAt(a) =< at
          /\ at + size =< a.entry - Word * NSaved(a.fn)
      BY <2>1, <3>1, ObjectPlaces
    <3>3. at + size =< StackTop BY <1>1, <3>2, CodeFacts DEF Word
    <3>4. HoldsIn(m, at, size, a.val[j]) BY <2>1 DEF Contents, ObjectsHeld
    <3> HIDE DEF at, size
    <3>5. HoldsIn(n, at, size, a.val[j]) BY <1>2, <3>2, <3>3, <3>4
    <3> QED BY <3>5 DEF at, size
  <2> QED BY <2>1 DEF Contents, ObjectsHeld
<1>6. ArgumentsHeld(n, a, d)
  <2>1. ArgumentsAt(n, a.entry + Word, a.args)
    <3>1. /\ a.entry + Word \in Nat /\ SPAt(a) =< a.entry + Word
          /\ a.entry + Word + Word * Len(a.args) =< StackTop /\ a.args \in Seq(Int)
      BY <1>1, ActivationTypes DEF Shape, Word
    <3>2. ArgumentsAt(m, a.entry + Word, a.args) BY DEF Contents, ArgumentsHeld
    <3> QED BY <1>1, <3>1, <3>2, ArgumentsAgree
  <2>2. ASSUME a.at = "args", NEW j \in 1..a.k
        PROVE  HoldsIn(n, SPAt(a) + Word * (j - 1), Word, Argument(d))
    <3> DEFINE at == SPAt(a) + Word * (j - 1)
    <3>1. j \in 1..StackArgs[a.to]
      <4>1. a.fn \in Funcs /\ a.to \in Calls[a.fn] /\ a.k =< StackArgs[a.to] /\ a \in Activations
        BY <2>2, BelowFacts DEF Shape
      <4>2. StackArgs[a.to] \in Nat /\ a.k \in Nat BY <4>1, CallFacts, ActivationTypes
      <4> QED BY <4>1, <4>2
    <3>2. at \in Nat /\ SPAt(a) =< at /\ at + Word =< a.entry - Word * NSaved(a.fn)
      BY <2>2, <3>1, OutgoingPlaces
    <3>3. at + Word =< StackTop BY <1>1, <3>2, CodeFacts DEF Word
    <3>4. HoldsIn(m, at, Word, Argument(d)) BY <2>2 DEF Contents, ArgumentsHeld
    <3> HIDE DEF at
    <3>5. HoldsIn(n, at, Word, Argument(d)) BY <1>1, <1>2, <3>2, <3>3, <3>4
    <3> QED BY <3>5 DEF at
  <2> QED BY <2>1, <2>2 DEF ArgumentsHeld
<1> QED BY <1>3, <1>4, <1>5, <1>6 DEF Contents

-----------------------------------------------------------------------------
(* Steps of the innermost activation, calls and returns.                   *)

\* What is known of the innermost activation, and of the others.
LEMMA TopFacts ==
  ASSUME StackInv(stack, mem, regs, sp), stack \in Seq(Activations), Depth > 0
  PROVE  /\ Depth \in Nat /\ Depth \in 1..Depth /\ DOMAIN stack = 1..Depth
         /\ Top \in Activations /\ Top.entry \in Int /\ Sound(Top, Depth, mem, regs)
         /\ sp = SPAt(Top) /\ sp \in Nat /\ sp =< Top.entry
<1>1. Depth \in Nat /\ Depth \in 1..Depth /\ DOMAIN stack = 1..Depth BY DEF Depth
<1>2. Top \in Activations BY <1>1, ElementOfSeq DEF Top, Depth
<1>3. RegsOf(stack, Depth, regs) = regs BY DEF RegsOf, Depth
<1>4. Sound(Top, Depth, mem, regs) /\ sp = SPAt(Top)
  BY <1>1, <1>3 DEF StackInv, Top, Depth
<1> QED BY <1>1, <1>2, <1>4, ActivationTypes, BelowFacts DEF Sound

LEMMA OuterFacts ==
  ASSUME StackInv(stack, mem, regs, sp), stack \in Seq(Activations), Depth > 0,
         NEW d \in 1..(Depth - 1)
  PROVE  /\ Shape(stack[d]) /\ Contents(mem, stack[d], d) /\ Clean(stack[d], stack[d + 1].saved)
         /\ Top.entry + Word =< SPAt(stack[d]) /\ SPAt(stack[d]) \in Int
<1>1. Depth \in Nat /\ Depth \in 1..Depth /\ d \in 1..Depth /\ d # Depth /\ d < Depth
  BY TopFacts
<1>2. Sound(stack[d], d, mem, RegsOf(stack, d, regs)) BY <1>1 DEF StackInv, Depth
<1>3. Shape(stack[d]) /\ Contents(mem, stack[d], d) /\ Clean(stack[d], stack[d + 1].saved)
  BY <1>1, <1>2 DEF Sound, RegsOf, Depth
<1>4. Top.entry + Word =< SPAt(stack[d])
  BY <1>1 DEF StackInv, Nested, Top, Depth
<1> QED BY <1>3, <1>4, BelowFacts

LEMMA Continued ==
  ASSUME stack \in Seq(Activations), Depth > 0, NEW a \in Activations
  PROVE  LET s == [stack EXCEPT ![Depth] = a] IN
         /\ s \in Seq(Activations) /\ Len(s) = Depth /\ s[Depth] = a
         /\ \A d \in 1..(Depth - 1) : s[d] = stack[d]
<1> DEFINE s == [stack EXCEPT ![Depth] = a]
<1>1. Depth \in Nat /\ Depth \in 1..Depth /\ Depth = Len(stack) BY DEF Depth
<1>2. /\ s \in Seq(Activations) /\ Len(s) = Len(stack)
      /\ \A d \in 1..Len(stack) : s[d] = IF d = Depth THEN a ELSE stack[d]
  BY <1>1, ExceptSeq
<1>3. \A d \in 1..(Depth - 1) : d \in 1..Depth /\ d # Depth BY <1>1
<1> HIDE DEF s
<1>4. s[Depth] = a /\ \A d \in 1..(Depth - 1) : s[d] = stack[d] BY <1>1, <1>2, <1>3
<1> QED BY <1>1, <1>2, <1>4 DEF s

\* The innermost activation goes on as a, and changes no byte above its entry.
LEMMA TopStep ==
  ASSUME DynamicStays, StackInv(stack, mem, regs, sp), stack \in Seq(Activations), Depth > 0,
         NEW a, NEW m, NEW r, NEW p,
         a.fn = Top.fn, a.entry = Top.entry, a.saved = Top.saved,
         Sound(a, Depth, m, r), p = SPAt(a),
         Agree(mem, m, Top.entry + Word),
         Continue(a)
  PROVE  stack' \in Seq(Activations) /\ StackInv(stack', m, r, p) /\ Depth' = Depth /\ Top' = a
<1>1. /\ Depth \in Nat /\ Depth \in 1..Depth /\ DOMAIN stack = 1..Depth /\ Top.entry \in Int
      /\ Top \in Activations /\ a \in Activations
  BY TopFacts DEF Sound, Shape
<1>2. /\ stack' \in Seq(Activations) /\ Len(stack') = Depth /\ stack'[Depth] = a
      /\ \A d \in 1..(Depth - 1) : stack'[d] = stack[d]
  BY <1>1, Continued DEF Continue
<1>3. \A d \in 1..(Depth - 1) :
        /\ Shape(stack[d]) /\ Contents(mem, stack[d], d) /\ Clean(stack[d], stack[d + 1].saved)
        /\ Top.entry + Word =< SPAt(stack[d]) /\ SPAt(stack[d]) \in Int
  BY OuterFacts
<1>4. ASSUME NEW d \in 1..Depth PROVE Sound(stack'[d], d, m, RegsOf(stack', d, r))
  <2>1. CASE d = Depth
    BY <1>2, <2>1 DEF RegsOf
  <2>2. CASE d \in 1..(Depth - 1)
    <3>1. stack'[d + 1].saved = stack[d + 1].saved
      <4>1. CASE d + 1 = Depth BY <1>2, <4>1 DEF Top
      <4>2. CASE d + 1 \in 1..(Depth - 1) BY <1>2, <4>2
      <4> QED BY <1>1, <2>2, <4>1, <4>2
    <3>2. Agree(mem, m, SPAt(stack[d]))
      <4>1. Top.entry + Word \in Int BY <1>1 DEF Word
      <4> QED BY <1>3, <2>2, <4>1, AgreeAbove
    <3>3. Contents(m, stack[d], d) BY <1>3, <2>2, <3>2, ContentsKept
    <3>4. d # Len(stack') BY <1>1, <1>2, <2>2
    <3> QED BY <1>2, <1>3, <2>2, <3>1, <3>3, <3>4 DEF Sound, RegsOf
  <2> QED BY <1>1, <2>1, <2>2
<1>5. Nested(stack')
  <2>1. \A d \in 1..Depth : stack'[d].fn = stack[d].fn /\ stack'[d].entry = stack[d].entry
    BY <1>1, <1>2 DEF Top
  <2>2. \A d \in 1..(Depth - 1) : SPAt(stack'[d]) = SPAt(stack[d]) /\ stack'[d].at = stack[d].at
    BY <1>2
  <2>3. \A d, e \in 1..Depth : d < e => d \in 1..(Depth - 1) BY <1>1
  <2>4. \A d \in 1..(Depth - 1) : d \in 1..Depth /\ d + 1 \in 1..Depth BY <1>1
  <2>5. Nested(stack) BY DEF StackInv
  <2>6. \A d, e \in 1..Depth : d < e => stack'[e].entry + Word =< SPAt(stack'[d])
    BY <2>1, <2>2, <2>3, <2>5 DEF Nested, Depth
  <2>7. \A d \in 1..(Depth - 1) :
          /\ stack'[d + 1].entry + Word = SPAt(stack'[d])
          /\ stack'[d].fn \notin Funcs /\ stack'[d + 1].fn \in Funcs => stack'[d].at = "handled"
    BY <2>1, <2>2, <2>4, <2>5 DEF Nested, Depth
  <2> QED BY <1>2, <2>6, <2>7 DEF Nested
<1> QED BY <1>1, <1>2, <1>4, <1>5 DEF StackInv, Depth, Top

\* The innermost activation goes on as a, and b begins.
Pushed(a, b) == Append([stack EXCEPT ![Depth] = a], b)

LEMMA PushedFacts ==
  ASSUME stack \in Seq(Activations), Depth > 0, NEW a \in Activations, NEW b \in Activations
  PROVE  /\ Pushed(a, b) \in Seq(Activations) /\ Len(Pushed(a, b)) = Depth + 1
         /\ Pushed(a, b)[Depth + 1] = b /\ Pushed(a, b)[Depth] = a
         /\ \A d \in 1..(Depth - 1) : Pushed(a, b)[d] = stack[d]
<1> DEFINE s == [stack EXCEPT ![Depth] = a]
<1>1. /\ s \in Seq(Activations) /\ Len(s) = Depth /\ s[Depth] = a
      /\ \A d \in 1..(Depth - 1) : s[d] = stack[d]
  BY Continued
<1>2. Depth \in Nat /\ Depth \in 1..Depth BY DEF Depth
<1>3. Pushed(a, b) = Append(s, b) BY DEF Pushed
<1> HIDE DEF s
<1>4. /\ Append(s, b) \in Seq(Activations) /\ Len(Append(s, b)) = Depth + 1
      /\ Append(s, b)[Depth + 1] = b /\ \A d \in 1..Depth : Append(s, b)[d] = s[d]
  BY <1>1, AppendProperties
<1>5. \A d \in 1..(Depth - 1) : d \in 1..Depth BY <1>2
<1> QED BY <1>1, <1>2, <1>3, <1>4, <1>5

\* An activation that begins
LEMMA NewFields ==
  ASSUME NEW f \in Code, NEW entry \in Int, NEW args, NEW b, b = Activation(f, entry, args)
  PROVE  b.fn = f /\ b.entry = entry /\ b.saved = regs /\ SPAt(b) = entry
<1>1. /\ b.fn = f /\ b.entry = entry /\ b.saved = regs /\ b.at = "spill" /\ b.k = NSaved(f)
  BY DEF Activation, NSaved
<1>2. NSaved(f) \in Nat BY CodeFacts
<1> QED BY <1>1, <1>2 DEF SPAt, Below, Moving, Word

LEMMA NewActivation ==
  ASSUME regs \in [Registers -> Int], NEW f \in Code, NEW entry \in Nat, NEW d \in Nat, NEW m,
         NEW args \in Seq(Int), Len(args) = IF f \in Funcs THEN StackArgs[f] ELSE 0,
         StackSize[f] =< entry, entry + Word + Word * Len(args) =< StackTop,
         HoldsIn(m, entry, Word, ReturnTo(d - 1)),
         ArgumentsAt(m, entry + Word, args), NEW b, b = Activation(f, entry, args)
  PROVE  Sound(b, d, m, regs)
<1>1. /\ b.fn = f /\ b.entry = entry /\ b.at = "spill" /\ b.k = NSaved(f) /\ b.extra = 0
      /\ b.saved = regs /\ b.args = args /\ b.val = [j \in 1..Len(Objects[f]) |-> Unset]
  BY DEF Activation, NSaved
<1>2. /\ NSaved(f) \in Nat /\ Len(Objects[f]) \in Nat /\ StackSize[f] \in Nat
  BY CodeFacts
<1>3. b \in Activations
  <2>1. [j \in 1..Len(Objects[f]) |-> Unset] \in Seq(Int) BY <1>2 DEF Unset
  <2>2. Len(Saved[f]) \in Nat BY <1>2 DEF NSaved
  <2> QED BY <2>1, <2>2 DEF Activation, Activations, Phases
<1>4. Len(b.val) = Len(Objects[f]) /\ \A j \in 1..Len(Objects[f]) : b.val[j] = Unset
  BY <1>1, <1>2
<1>5. SPAt(b) = entry BY NewFields
<1>6. Shape(b)
  BY <1>1, <1>2, <1>3, <1>4, <1>5 DEF Shape, Moving
<1>7. Contents(m, b, d)
  <2>1. SavedHeld(m, b) BY <1>1, <1>2 DEF SavedHeld, Moving
  <2>2. ObjectsHeld(m, b) BY <1>1, <1>4 DEF ObjectsHeld, OwnPhases
  <2>3. ArgumentsHeld(m, b, d) BY <1>1 DEF ArgumentsHeld
  <2> QED BY <1>1, <2>1, <2>2, <2>3 DEF Contents
<1>8. Clean(b, regs) BY <1>1 DEF Clean, CleanFunction, CleanStub
<1> QED BY <1>6, <1>7, <1>8 DEF Sound

\* The innermost activation goes on as a with the same stack pointer, and b
\* begins right below it.
GoesOn(a) == a.fn = Top.fn /\ a.entry = Top.entry /\ a.saved = Top.saved
MayEnter(a, b) ==
  /\ sp = SPAt(a) /\ b.entry + Word = sp /\ SPAt(b) = b.entry /\ b.saved = regs
  /\ a.fn \notin Funcs /\ b.fn \in Funcs => a.at = "handled"

LEMMA Entered ==
  ASSUME DynamicStays, StackInv(stack, mem, regs, sp), stack \in Seq(Activations), Depth > 0,
         NEW a, NEW b, NEW m,
         Sound(a, Depth, mem, regs), GoesOn(a), MayEnter(a, b), Agree(mem, m, sp),
         Sound(b, Depth + 1, m, regs)
  PROVE  /\ Pushed(a, b) \in Seq(Activations) /\ Len(Pushed(a, b)) = Depth + 1
         /\ StackInv(Pushed(a, b), m, regs, b.entry)
<1> DEFINE s == Pushed(a, b)
<1>1. /\ sp \in Nat /\ sp \in Int /\ Depth \in Nat /\ Depth \in 1..Depth
      /\ a \in Activations /\ b \in Activations /\ b.entry \in Int
  BY TopFacts, ActivationTypes DEF Sound, Shape
<1>2. a.fn = Top.fn /\ a.entry = Top.entry /\ a.saved = Top.saved BY DEF GoesOn
<1>3. /\ sp = SPAt(a) /\ b.entry + Word = sp /\ SPAt(b) = b.entry /\ b.saved = regs
      /\ a.fn \notin Funcs /\ b.fn \in Funcs => a.at = "handled"
  BY DEF MayEnter
<1>4. /\ s \in Seq(Activations) /\ Len(s) = Depth + 1 /\ s[Depth + 1] = b
      /\ s[Depth] = a /\ \A d \in 1..(Depth - 1) : s[d] = stack[d]
  BY <1>1, PushedFacts
<1> HIDE DEF s
<1>5. \A d \in 1..(Depth - 1) :
        /\ Shape(stack[d]) /\ Contents(mem, stack[d], d) /\ Clean(stack[d], stack[d + 1].saved)
        /\ Top.entry + Word =< SPAt(stack[d]) /\ SPAt(stack[d]) \in Int
  BY OuterFacts
<1>6. /\ sp =< Top.entry /\ Top.entry \in Int /\ Shape(a) /\ Contents(mem, a, Depth)
       /\ Clean(a, regs)
  BY TopFacts DEF Sound
<1>7. ASSUME NEW d \in 1..(Depth + 1) PROVE Sound(s[d], d, m, RegsOf(s, d, regs))
  <2>1. CASE d = Depth + 1
    BY <1>4, <2>1 DEF RegsOf
  <2>2. CASE d = Depth
    <3>1. Contents(m, a, Depth) BY <1>3, <1>6, ContentsKept
    <3>2. RegsOf(s, d, regs) = regs BY <1>1, <1>3, <1>4, <2>2 DEF RegsOf
    <3> QED BY <1>4, <1>6, <2>2, <3>1, <3>2 DEF Sound
  <2>3. CASE d \in 1..(Depth - 1)
    <3>1. s[d + 1].saved = stack[d + 1].saved
      <4>1. CASE d + 1 = Depth BY <1>2, <1>4, <4>1 DEF Top
      <4>2. CASE d + 1 \in 1..(Depth - 1) BY <1>4, <4>2
      <4> QED BY <1>1, <2>3, <4>1, <4>2, NextPlace
    <3>2. Agree(mem, m, SPAt(stack[d]))
      <4>1. sp =< SPAt(stack[d]) /\ SPAt(stack[d]) \in Int
        BY <1>1, <1>5, <1>6, <2>3 DEF Word
      <4> QED BY <1>1, <4>1, AgreeAbove
    <3>3. Contents(m, stack[d], d) BY <1>5, <2>3, <3>2, ContentsKept
    <3>4. d # Len(s) BY <1>1, <1>4, <2>3
    <3> QED BY <1>4, <1>5, <2>3, <3>1, <3>3, <3>4 DEF Sound, RegsOf
  <2> QED BY <1>1, <2>1, <2>2, <2>3, Places
<1>8. Nested(s)
  <2>1. \A d \in 1..Depth : s[d].fn = stack[d].fn /\ s[d].entry = stack[d].entry
    <3>1. \A d \in 1..Depth : d = Depth \/ d \in 1..(Depth - 1) BY <1>1
    <3> QED BY <1>2, <1>4, <3>1 DEF Top
  <2>2. \A d \in 1..(Depth - 1) : SPAt(s[d]) = SPAt(stack[d]) /\ s[d].at = stack[d].at
    BY <1>4
  <2>3. Nested(stack) BY DEF StackInv
  <2>4. ASSUME NEW d \in 1..(Depth + 1), NEW e \in 1..(Depth + 1), d < e
        PROVE  s[e].entry + Word =< SPAt(s[d])
    <3>1. CASE e \in 1..Depth
      <4>1. d \in 1..(Depth - 1) /\ d \in 1..Depth BY <1>1, <2>4, <3>1
      <4> QED BY <2>1, <2>2, <2>3, <2>4, <3>1, <4>1 DEF Nested, Depth
    <3>2. CASE e = Depth + 1 /\ d = Depth BY <1>1, <1>3, <1>4, <3>2 DEF Word
    <3>3. CASE e = Depth + 1 /\ d \in 1..(Depth - 1)
      <4>1. s[e].entry + Word = sp BY <1>3, <1>4, <3>3
      <4>2. Top.entry =< SPAt(s[d]) /\ SPAt(s[d]) \in Int
        BY <1>4, <1>5, <1>6, <3>3 DEF Word
      <4> QED BY <1>1, <1>6, <4>1, <4>2
    <3> QED BY <1>1, <2>4, <3>1, <3>2, <3>3
  <2>5. ASSUME NEW d \in 1..Depth
        PROVE  /\ s[d + 1].entry + Word = SPAt(s[d])
               /\ s[d].fn \notin Funcs /\ s[d + 1].fn \in Funcs => s[d].at = "handled"
    <3>1. CASE d = Depth BY <1>1, <1>3, <1>4, <3>1 DEF Word
    <3>2. CASE d \in 1..(Depth - 1)
      <4>1. d \in 1..Depth /\ d + 1 \in 1..Depth BY <1>1, <3>2
      <4> QED BY <2>1, <2>2, <2>3, <3>2, <4>1 DEF Nested, Depth
    <3> QED BY <1>1, <3>1, <3>2, Places
  <2>6. Len(s) - 1 = Depth BY <1>1, <1>4
  <2> QED BY <1>4, <2>4, <2>5, <2>6 DEF Nested
<1>9. b.entry = SPAt(s[Len(s)]) BY <1>3, <1>4
<1>10. StackInv(s, m, regs, b.entry)
  BY <1>1, <1>4, <1>7, <1>8, <1>9 DEF StackInv
<1> QED BY <1>4, <1>10 DEF s

-----------------------------------------------------------------------------
(* The same in terms of the primed state.                                  *)

Good ==
  /\ stack \in Seq(Activations)
  /\ mem \in [Dom -> Int]
  /\ regs \in [Registers -> Int]
  /\ sp \in 0..StackTop
  /\ StackInv(stack, mem, regs, sp)

LEMMA StackPointer ==
  ASSUME NEW s \in Seq(Activations), NEW m, NEW r, NEW p, StackInv(s, m, r, p), Len(s) > 0
  PROVE  p \in 0..StackTop
<1> DEFINE t == s[Len(s)]
<1>1. Len(s) \in 1..Len(s) OBVIOUS
<1>2. Shape(t) /\ p = SPAt(t) BY <1>1 DEF StackInv, Sound
<1> HIDE DEF t
<1>3. SPAt(t) \in Nat /\ SPAt(t) =< t.entry /\ t.entry \in Nat /\ t.entry + Word =< StackTop
  BY <1>2, BelowFacts, EntryPlace
<1> QED BY <1>2, <1>3, NamesAssumption DEF Word

LEMMA GoodTop ==
  ASSUME Good, Depth > 0
  PROVE  /\ Depth \in Nat /\ Depth \in 1..Depth
         /\ Top \in Activations /\ Top.entry \in Int /\ Sound(Top, Depth, mem, regs)
         /\ Shape(Top) /\ Contents(mem, Top, Depth) /\ Clean(Top, regs)
         /\ sp = SPAt(Top) /\ sp \in Nat /\ sp =< Top.entry
         /\ Top.fn \in Code /\ Top.k \in Nat /\ Top.extra \in Nat
         /\ regs \in [Registers -> Int] /\ mem \in [Dom -> Int]
BY TopFacts, ActivationTypes DEF Good, Sound

LEMMA Stepped ==
  ASSUME DynamicStays, Good, Depth > 0, NEW a, GoesOn(a), Continue(a),
         Sound(a, Depth, mem', regs'), sp' = SPAt(a), Agree(mem, mem', Top.entry + Word),
         mem' \in [Dom -> Int], regs' \in [Registers -> Int]
  PROVE  Good'
<1>1. /\ stack \in Seq(Activations) /\ StackInv(stack, mem, regs, sp) BY DEF Good
<1>2. a.fn = Top.fn /\ a.entry = Top.entry /\ a.saved = Top.saved BY DEF GoesOn
<1>3. ASSUME NEW m, NEW r, NEW p, m = mem', r = regs', p = sp'
      PROVE  stack' \in Seq(Activations) /\ StackInv(stack', m, r, p) /\ Depth' = Depth
  <2>1. Sound(a, Depth, m, r) /\ p = SPAt(a) /\ Agree(mem, m, Top.entry + Word) BY <1>3
  <2> QED BY <1>1, <1>2, <2>1, TopStep
<1>4. stack' \in Seq(Activations) /\ StackInv(stack', mem', regs', sp') /\ Depth' = Depth
  BY <1>3
<1>5. sp' \in 0..StackTop
  <2>1. ASSUME NEW s, NEW m, NEW r, NEW p, s = stack', m = mem', r = regs', p = sp'
        PROVE  p \in 0..StackTop
    <3>1. s \in Seq(Activations) /\ StackInv(s, m, r, p) /\ Len(s) > 0
      BY <1>4, <2>1 DEF Depth
    <3> QED BY <3>1, StackPointer
  <2> QED BY <2>1
<1> QED BY <1>4, <1>5 DEF Good

\* A function begins, with its arguments ready where its frame will begin.
LEMMA Began ==
  ASSUME DynamicStays, Good, Depth > 0, NEW a, NEW f \in Code, NEW args \in Seq(Int),
         GoesOn(a), Sound(a, Depth, mem, regs), sp = SPAt(a),
         a.fn \notin Funcs /\ f \in Funcs => a.at = "handled",
         Len(args) = IF f \in Funcs THEN StackArgs[f] ELSE 0,
         sp + Word * Len(args) =< StackTop, ArgumentsAt(mem, sp, args),
         Enter(f, a, args), regs' = regs
  PROVE  Good' /\ Depth' = Depth + 1
<1>1. /\ stack \in Seq(Activations) /\ StackInv(stack, mem, regs, sp)
      /\ mem \in [Dom -> Int] /\ regs \in [Registers -> Int]
  BY DEF Good
<1>2. /\ sp \in Nat /\ Depth \in Nat /\ Len(args) \in Nat /\ StackTop \in Nat
      /\ StackSize[f] \in Nat
  BY GoodTop, CodeFacts, NamesAssumption
<1> DEFINE b == Activation(f, sp - Word, args)
           m == mem'
           entry == sp - Word
           d == Depth + 1
<1>3. /\ sp' = entry /\ entry - StackSize[f] >= 0
      /\ Store(entry, Word, ReturnTo(Depth)) /\ stack' = Pushed(a, b)
  BY DEF Enter, Room, PushWord, Pushed
<1>4. /\ entry \in Nat /\ entry \in Int /\ StackSize[f] =< entry /\ entry + Word = sp
      /\ d \in Nat /\ d - 1 = Depth
  BY <1>2, <1>3 DEF Word
<1>5. /\ m \in [Dom -> Int] /\ Agree(mem, m, sp) /\ HoldsIn(m, entry, Word, ReturnTo(Depth))
  <2>1. /\ ReturnTo(Depth) \in Int /\ Word \in Nat /\ entry >= 0 /\ entry + Word =< StackTop
    <3>1. sp =< StackTop BY <1>2 DEF Word
    <3> QED BY <1>2, <1>4, <3>1 DEF ReturnTo, Word
  <2> HIDE DEF entry
  <2>2. /\ mem' \in [Dom -> Int]
        /\ Elsewhere(mem, mem', entry, Word)
        /\ HoldsIn(mem', entry, Word, ReturnTo(Depth))
    BY <1>1, <1>3, <1>4, <2>1, StoreFacts
  <2>3. Agree(mem, m, sp)
    <3>1. m = mem' /\ sp \in Int /\ entry + Word =< sp /\ Word \in Nat BY <1>2, <1>4 DEF m, Word
    <3>2. Elsewhere(mem, m, entry, Word) BY <2>2, <3>1
    <3> HIDE DEF m
    <3> QED BY <1>4, <3>1, <3>2, ElsewhereAgree
  <2> QED BY <2>2, <2>3
<1>6. b = Activation(f, entry, args) OBVIOUS
<1> HIDE DEF b, m, entry, d
<1>7. ArgumentsAt(m, entry + Word, args)
  <2>1. sp \in Int BY <1>2
  <2>2. ArgumentsAt(m, sp, args) BY <1>2, <1>5, <2>1, ArgumentsAgree
  <2> QED BY <1>4, <2>2
<1>8. HoldsIn(m, entry, Word, ReturnTo(d - 1)) /\ entry + Word + Word * Len(args) =< StackTop
  BY <1>4, <1>5
<1>9. /\ b.fn = f /\ b.entry = entry /\ b.saved = regs
      /\ Sound(b, d, m, regs) /\ SPAt(b) = entry
  <2>1. Sound(b, d, m, regs) BY <1>1, <1>4, <1>6, <1>7, <1>8, NewActivation
  <2> QED BY <1>4, <1>6, <2>1, NewFields
<1>10. MayEnter(a, b) BY <1>4, <1>9 DEF MayEnter
<1>11. Sound(b, Depth + 1, m, regs) BY <1>9 DEF d
<1>12. /\ Pushed(a, b) \in Seq(Activations) /\ Len(Pushed(a, b)) = Depth + 1
       /\ StackInv(Pushed(a, b), m, regs, entry)
  BY <1>1, <1>5, <1>9, <1>10, <1>11, Entered
<1>13. /\ stack' \in Seq(Activations) /\ Len(stack') = Depth + 1 /\ mem' \in [Dom -> Int]
       /\ StackInv(stack', mem', regs', sp')
  BY <1>3, <1>5, <1>12 DEF m
<1>14. sp' \in 0..StackTop
  <2>1. sp =< StackTop BY DEF Good
  <2> QED BY <1>2, <1>3, <1>4, <2>1 DEF Word
<1> QED BY <1>1, <1>13, <1>14 DEF Good, Depth

-----------------------------------------------------------------------------
(* Moves from one part of an activation's code to the next.                *)

SameFrame(t, a) ==
  a.fn = t.fn /\ a.entry = t.entry /\ a.saved = t.saved /\ a.val = t.val /\ a.args = t.args

\* What an activation that has saved all its registers keeps
LEMMA ContentsMove ==
  ASSUME NEW t, NEW a, SameFrame(t, a), NEW m, NEW d, Contents(m, t, d), Shape(a),
         t.at \in Moving => t.k = 0,
         a.at \in OwnPhases => t.at \in OwnPhases \/ t.at = "spill",
         a.at # "spill", a.at = "args" => a.k = 0,
         a.at \in {"handler", "handled"} =>
           HoldsIn(m, a.entry - StackSize[a.fn], Word, a.saved[Flags])
  PROVE  Contents(m, a, d)
<1>1. /\ a.fn = t.fn /\ a.entry = t.entry /\ a.saved = t.saved /\ a.val = t.val
      /\ a.args = t.args
  BY DEF SameFrame
<1>2. HoldsIn(m, a.entry, Word, ReturnTo(d - 1)) BY <1>1 DEF Contents
<1>3. SavedHeld(m, a)
  <2>1. NSaved(a.fn) \in Nat BY ActivationTypes, CodeFacts DEF Shape
  <2>2. \A j \in 1..NSaved(a.fn) : HoldsIn(m, Slot(t, j), Word, t.saved[Saved[t.fn][j]])
    BY <1>1, <2>1 DEF Contents, SavedHeld
  <2>3. \A j \in 1..NSaved(a.fn) : Slot(t, j) = Slot(a, j) BY <1>1 DEF Slot
  <2> QED BY <1>1, <2>2, <2>3 DEF SavedHeld
<1>4. ObjectsHeld(m, a)
  <2> SUFFICES ASSUME NEW j \in 1..Len(Objects[a.fn]), a.at \in OwnPhases, a.val[j] # Unset
               PROVE  HoldsIn(m, a.entry + Word + Offset[a.fn][j], Objects[a.fn][j].size, a.val[j])
    BY DEF ObjectsHeld
  <2>1. t.at # "spill" BY <1>1 DEF Contents, ObjectsHeld
  <2> QED BY <1>1, <2>1 DEF Contents, ObjectsHeld
<1>5. ArgumentsHeld(m, a, d)
  <2>1. ArgumentsAt(m, a.entry + Word, a.args) BY <1>1 DEF Contents, ArgumentsHeld
  <2> QED BY <2>1 DEF ArgumentsHeld
<1> QED BY <1>2, <1>3, <1>4, <1>5 DEF Contents

\* A compiled function moves on: from the end of its
\* prologue or a part of its body to another one, or to its epilogue.
MovesOn(t, a) ==
  /\ t.at \in OwnPhases \/ (t.at = "spill" /\ t.k = 0)
  /\ a.at \in OwnPhases \/ a.at = "restore"
  /\ a.at \in {"args", "restore"} => a.k = 0

SameRegs(r, q) == \A x \in Regs : q[x] = r[x]
FlagsOnly == regs' \in [Registers -> Int] /\ SameRegs(regs, regs')

\* Nothing of that changes a callee saved register.
LEMMA CleanMove ==
  ASSUME NEW t, NEW a, SameFrame(t, a), t.fn \in Funcs, NEW r, NEW q, Clean(t, r),
         SameRegs(r, q), MovesOn(t, a), Shape(a)
  PROVE  Clean(a, q)
<1>1. a.fn = t.fn /\ a.saved = t.saved BY DEF SameFrame
<1>2. CalleeSaved \subseteq Regs BY NamesAssumption
<1>3. NSaved(a.fn) \in Nat BY ActivationTypes, CodeFacts DEF Shape
<1>4. t.at # "restore" /\ a.at # "spill" /\ (a.at = "restore" => a.k = 0)
  BY DEF MovesOn, OwnPhases
<1>5. ASSUME NEW x \in CalleeSaved \ {FP}
      PROVE  \/ q[x] = a.saved[x]
             \/ /\ a.at # "spill"
                /\ \E j \in 1..NSaved(a.fn) : Saved[a.fn][j] = x /\ (a.at = "restore" => j > a.k)
  <2>1. q[x] = r[x] BY <1>2 DEF SameRegs
  <2>2. \/ r[x] = t.saved[x]
        \/ \E j \in 1..NSaved(t.fn) : Saved[t.fn][j] = x
    BY DEF Clean, CleanFunction
  <2> QED BY <1>1, <1>3, <1>4, <2>1, <2>2
<1> QED BY <1>1, <1>5 DEF Clean, CleanFunction

LEMMA FunctionMoves ==
  ASSUME DynamicStays, Good, Depth > 0, Top.fn \in Funcs, NEW a, SameFrame(Top, a),
         Shape(a), Continue(a), sp' = SPAt(a), mem' = mem,
         FlagsOnly, MovesOn(Top, a)
  PROVE  Good'
<1>1. /\ Contents(mem, Top, Depth) /\ Clean(Top, regs) /\ mem \in [Dom -> Int]
  BY GoodTop
<1>2. Contents(mem, a, Depth)
  <2>1. /\ Top.at \in Moving => Top.k = 0
        /\ a.at \in OwnPhases => Top.at \in OwnPhases \/ Top.at = "spill"
        /\ a.at # "spill" /\ a.at \notin {"handler", "handled"}
        /\ a.at = "args" => a.k = 0
    BY DEF OwnPhases, Moving, MovesOn
  <2> QED BY <1>1, <2>1, ContentsMove
<1>3. Clean(a, regs')
  <2>1. ASSUME NEW q, q = regs' PROVE Clean(a, q)
    <3>1. SameRegs(regs, q) BY <2>1 DEF FlagsOnly
    <3> QED BY <1>1, <3>1, CleanMove
  <2> QED BY <2>1
<1>4. GoesOn(a) BY DEF GoesOn, SameFrame
<1>5. Agree(mem, mem', Top.entry + Word) BY DEF Agree
<1>6. Sound(a, Depth, mem', regs') BY <1>2, <1>3 DEF Sound
<1>7. mem' \in [Dom -> Int] /\ regs' \in [Registers -> Int] BY <1>1 DEF FlagsOnly
<1> QED BY <1>4, <1>5, <1>6, <1>7, Stepped

LEMMA AdjustFacts ==
  ASSUME Good, NEW n \in Int, AdjustSP(n)
  PROVE  sp' = sp + n /\ FlagsOnly
<1>1. regs \in [Registers -> Int] /\ Depth \in Nat BY DEF Good, Depth
<1>2. Flags \notin Regs /\ Regs \subseteq Registers BY NamesAssumption DEF Registers
<1>3. Written(Depth) \in Int BY <1>1 DEF Written
<1> QED BY <1>1, <1>2, <1>3 DEF AdjustSP, FlagsOnly, SameRegs

\* Below, part by part of the code
LEMMA BelowAt ==
  ASSUME NEW a
  PROVE  /\ a.at \in {"spill", "restore"} => Below(a) = Word * (NSaved(a.fn) - a.k)
         /\ a.at \in {"flags", "unflags"} => Below(a) = Word * NSaved(a.fn)
         /\ a.at \in {"args", "result"} => Below(a) = StackSize[a.fn] + a.extra + CallFrame(a.fn, a.to)
         /\ a.at \in {"body", "handler", "handled"} => Below(a) = StackSize[a.fn] + a.extra
BY DEF Below, Moving

LEMMA PrologueStep == ASSUME DynamicStays, Good, EmitPrologue PROVE Good'
<1> DEFINE a == [Top EXCEPT !.at = "body"]
<1>1. /\ Depth > 0 /\ Top.at = "spill" /\ Top.k = 0 /\ Top.fn \in Funcs
      /\ AdjustSP(-NumBytes(Top.fn)) /\ Continue(a) /\ mem' = mem
  BY DEF EmitPrologue
<1>2. /\ Top \in Activations /\ Top.entry \in Int /\ Shape(Top) /\ sp = SPAt(Top) /\ sp \in Nat
  BY <1>1, GoodTop
<1>3. /\ a \in Activations /\ SameFrame(Top, a)
      /\ a.at = "body" /\ a.k = Top.k /\ a.to = Top.to /\ a.extra = Top.extra
  BY <1>2 DEF Activations, SameFrame, Phases
<1> HIDE DEF a
<1>4. /\ NSaved(Top.fn) \in Nat /\ StackSize[Top.fn] \in Nat
      /\ NumBytes(Top.fn) = StackSize[Top.fn] - Word * NSaved(Top.fn)
      /\ NumBytes(Top.fn) \in Int
  BY <1>2, ActivationTypes, CodeFacts DEF NumBytes, NSaved, Word
<1>5. a.extra = 0 /\ StackSize[a.fn] =< a.entry BY <1>1, <1>2, <1>3 DEF Shape, SameFrame
<1>6. SPAt(a) = a.entry - StackSize[a.fn]
  BY <1>2, <1>3, <1>4, <1>5, BelowAt DEF SPAt, SameFrame
<1>7. sp' = SPAt(a) /\ FlagsOnly
  <2>1. sp = Top.entry - Word * (NSaved(Top.fn) - 0) BY <1>1, <1>2, BelowAt DEF SPAt
  <2>2. /\ sp' = sp + (-NumBytes(Top.fn)) /\ FlagsOnly
    BY <1>1, <1>4, AdjustFacts
  <2>3. sp' = Top.entry - StackSize[Top.fn] BY <1>2, <1>4, <2>1, <2>2 DEF Word
  <2> QED BY <1>3, <1>6, <2>2, <2>3 DEF SameFrame
<1>8. Shape(a)
  <2>1. SPAt(a) >= 0 BY <1>2, <1>3, <1>4, <1>5, <1>6 DEF SameFrame
  <2>2. /\ a.fn = Top.fn /\ a.entry = Top.entry /\ a.val = Top.val /\ a.args = Top.args
    BY <1>3 DEF SameFrame
  <2> QED BY <1>1, <1>2, <1>3, <1>5, <2>1, <2>2 DEF Shape, OwnPhases, Moving
<1>9. MovesOn(Top, a) BY <1>1, <1>3 DEF MovesOn, OwnPhases
<1> QED BY <1>1, <1>3, <1>7, <1>8, <1>9, FunctionMoves

LEMMA AllocaStep == ASSUME DynamicStays, Good, Alloca PROVE Good'
<1> DEFINE a == [Top EXCEPT !.extra = AllocaSize]
<1>1. /\ Depth > 0 /\ Top.at = "body" /\ Top.fn \in Dynamic /\ Top.extra = 0
      /\ sp >= AllocaSize /\ AdjustSP(-AllocaSize) /\ Continue(a) /\ mem' = mem
  BY DEF Alloca
<1>2. /\ Top \in Activations /\ Top.entry \in Int /\ Shape(Top) /\ sp = SPAt(Top) /\ sp \in Nat
      /\ AllocaSize \in Nat /\ Top.fn \in Funcs
  BY <1>1, GoodTop, NamesAssumption
<1>3. /\ a \in Activations /\ SameFrame(Top, a)
      /\ a.at = "body" /\ a.k = Top.k /\ a.to = Top.to /\ a.extra = AllocaSize
  BY <1>1, <1>2 DEF Activations, SameFrame, Phases
<1> HIDE DEF a
<1>4. StackSize[Top.fn] \in Nat BY <1>2, ActivationTypes, CodeFacts
<1>5. /\ a.fn = Top.fn /\ a.entry = Top.entry /\ a.val = Top.val /\ a.args = Top.args
  BY <1>3 DEF SameFrame
<1>6. sp = Top.entry - StackSize[Top.fn]
  BY <1>1, <1>2, <1>4, BelowAt DEF SPAt
<1>7. SPAt(a) = Top.entry - (StackSize[Top.fn] + AllocaSize) BY <1>3, <1>5, BelowAt DEF SPAt
<1>8. sp' = SPAt(a) /\ FlagsOnly
  <2>1. /\ sp' = sp + (-AllocaSize) /\ FlagsOnly
    BY <1>1, <1>2, AdjustFacts
  <2> QED BY <1>2, <1>4, <1>6, <1>7, <2>1
<1>9. Shape(a)
  <2>1. SPAt(a) >= 0 BY <1>1, <1>2, <1>4, <1>6, <1>7
  <2> QED BY <1>1, <1>2, <1>3, <1>5, <2>1 DEF Shape, OwnPhases, Moving
<1>10. MovesOn(Top, a) BY <1>1, <1>3 DEF MovesOn, OwnPhases
<1> QED BY <1>1, <1>2, <1>3, <1>8, <1>9, <1>10, FunctionMoves

LEMMA BeginCallStep ==
  ASSUME DynamicStays, Good, NEW g \in Funcs, BeginCall(g) PROVE Good'
<1> DEFINE a == [Top EXCEPT !.at = "args", !.k = 0, !.to = g]
           room == CallFrame(Top.fn, g)
<1>1. /\ Depth > 0 /\ Top.at = "body" /\ Top.fn \in Funcs /\ g \in Calls[Top.fn]
      /\ sp >= room /\ AdjustSP(-room) /\ Continue(a) /\ mem' = mem
  BY DEF BeginCall
<1>2. /\ Top \in Activations /\ Top.entry \in Int /\ Shape(Top) /\ sp = SPAt(Top) /\ sp \in Nat
      /\ Top.extra \in Nat
  BY <1>1, GoodTop
<1>3. /\ a \in Activations /\ SameFrame(Top, a)
      /\ a.at = "args" /\ a.k = 0 /\ a.to = g /\ a.extra = Top.extra
  BY <1>1, <1>2 DEF Activations, SameFrame, Phases, Code
<1> HIDE DEF a
<1>4. StackSize[Top.fn] \in Nat /\ room \in Nat /\ StackArgs[g] \in Nat
  BY <1>1, <1>2, ActivationTypes, CodeFacts, CallFacts
<1>5. /\ a.fn = Top.fn /\ a.entry = Top.entry /\ a.val = Top.val /\ a.args = Top.args
  BY <1>3 DEF SameFrame
<1>6. sp = Top.entry - (StackSize[Top.fn] + Top.extra)
  BY <1>1, <1>2, BelowAt DEF SPAt
<1>7. SPAt(a) = Top.entry - (StackSize[Top.fn] + Top.extra + room)
  BY <1>3, <1>5, BelowAt DEF SPAt
<1> HIDE DEF room
<1>8. sp' = SPAt(a) /\ FlagsOnly
  <2>1. /\ sp' = sp + (-room) /\ FlagsOnly
    BY <1>1, <1>4, AdjustFacts
  <2> QED BY <1>2, <1>4, <1>6, <1>7, <2>1
<1>9. Shape(a)
  <2>1. SPAt(a) >= 0 BY <1>1, <1>2, <1>4, <1>6, <1>7
  <2> QED BY <1>1, <1>2, <1>3, <1>4, <1>5, <2>1 DEF Shape, OwnPhases, Moving
<1>10. MovesOn(Top, a) BY <1>1, <1>3 DEF MovesOn, OwnPhases
<1> QED BY <1>1, <1>2, <1>3, <1>8, <1>9, <1>10, FunctionMoves

LEMMA EndCallStep == ASSUME DynamicStays, Good, EndCall PROVE Good'
<1> DEFINE a == [Top EXCEPT !.at = "body"]
           room == CallFrame(Top.fn, Top.to)
<1>1. /\ Depth > 0 /\ Top.at = "result" /\ AdjustSP(room) /\ Continue(a) /\ mem' = mem
  BY DEF EndCall
<1>2. /\ Top \in Activations /\ Top.entry \in Int /\ Shape(Top) /\ sp = SPAt(Top) /\ sp \in Nat
      /\ Top.extra \in Nat
  BY <1>1, GoodTop
<1>3. /\ a \in Activations /\ SameFrame(Top, a)
      /\ a.at = "body" /\ a.k = Top.k /\ a.to = Top.to /\ a.extra = Top.extra
  BY <1>1, <1>2 DEF Activations, SameFrame, Phases
<1> HIDE DEF a
<1>4. StackSize[Top.fn] \in Nat /\ room \in Nat /\ Top.fn \in Funcs
  BY <1>1, <1>2, ActivationTypes, CodeFacts, BelowFacts
<1>5. /\ a.fn = Top.fn /\ a.entry = Top.entry /\ a.val = Top.val /\ a.args = Top.args
  BY <1>3 DEF SameFrame
<1>6. sp = Top.entry - (StackSize[Top.fn] + Top.extra + room)
  BY <1>1, <1>2, BelowAt DEF SPAt
<1>7. SPAt(a) = Top.entry - (StackSize[Top.fn] + Top.extra)
  BY <1>3, <1>5, BelowAt DEF SPAt
<1> HIDE DEF room
<1>8. sp' = SPAt(a) /\ FlagsOnly
  <2>1. /\ sp' = sp + room /\ FlagsOnly
    BY <1>1, <1>4, AdjustFacts
  <2> QED BY <1>2, <1>4, <1>6, <1>7, <2>1
<1>9. Shape(a)
  <2>1. SPAt(a) >= 0 BY <1>2, <1>4, <1>6, <1>7
  <2> QED BY <1>1, <1>2, <1>3, <1>4, <1>5, <2>1 DEF Shape, OwnPhases, Moving
<1>10. MovesOn(Top, a) BY <1>1, <1>3 DEF MovesOn, OwnPhases
<1> QED BY <1>1, <1>3, <1>4, <1>8, <1>9, <1>10, FunctionMoves

LEMMA EpilogueStep == ASSUME DynamicStays, Good, EmitEpilogue PROVE Good'
<1> DEFINE a == [Top EXCEPT !.at = "restore", !.k = 0]
<1>1. /\ Depth > 0 /\ Top.at = "body" /\ Top.fn \in Funcs /\ Top.fn \notin Dynamic
      /\ AdjustSP(NumBytes(Top.fn)) /\ Continue(a) /\ mem' = mem
  BY NamesAssumption DEF EmitEpilogue, DynamicStays
<1>2. /\ Top \in Activations /\ Top.entry \in Int /\ Shape(Top) /\ sp = SPAt(Top) /\ sp \in Nat
  BY <1>1, GoodTop
<1>3. /\ a \in Activations /\ SameFrame(Top, a)
      /\ a.at = "restore" /\ a.k = 0 /\ a.to = Top.to /\ a.extra = Top.extra
  BY <1>2 DEF Activations, SameFrame, Phases
<1> HIDE DEF a
<1>4. /\ NSaved(Top.fn) \in Nat /\ StackSize[Top.fn] \in Nat
      /\ Word * NSaved(Top.fn) =< StackSize[Top.fn]
      /\ NumBytes(Top.fn) = StackSize[Top.fn] - Word * NSaved(Top.fn)
      /\ NumBytes(Top.fn) \in Int
  BY <1>2, ActivationTypes, CodeFacts DEF NumBytes, NSaved, Word
<1>5. /\ a.fn = Top.fn /\ a.entry = Top.entry /\ a.val = Top.val /\ a.args = Top.args
  BY <1>3 DEF SameFrame
<1>6. Top.extra = 0 /\ StackSize[Top.fn] =< Top.entry BY <1>1, <1>2 DEF Shape
<1>7. sp = Top.entry - StackSize[Top.fn]
  <2>1. sp = Top.entry - (StackSize[Top.fn] + 0) BY <1>1, <1>2, <1>6, BelowAt DEF SPAt
  <2> QED BY <1>2, <1>4, <2>1
<1>8. SPAt(a) = Top.entry - Word * NSaved(Top.fn)
  <2>1. SPAt(a) = Top.entry - Word * (NSaved(Top.fn) - 0) BY <1>3, <1>5, BelowAt DEF SPAt
  <2> QED BY <1>4, <2>1
<1>9. sp' = SPAt(a) /\ FlagsOnly
  <2>1. /\ sp' = sp + NumBytes(Top.fn) /\ FlagsOnly
    BY <1>1, <1>4, AdjustFacts
  <2>2. sp' = Top.entry - Word * NSaved(Top.fn) BY <1>2, <1>4, <1>7, <2>1 DEF Word
  <2> QED BY <1>8, <2>1, <2>2
<1>10. Shape(a)
  <2>1. SPAt(a) >= 0 BY <1>2, <1>4, <1>6, <1>8 DEF Word
  <2> QED BY <1>1, <1>2, <1>3, <1>4, <1>5, <2>1 DEF Shape, OwnPhases, Moving
<1>11. MovesOn(Top, a) BY <1>1, <1>3 DEF MovesOn, OwnPhases
<1> QED BY <1>1, <1>3, <1>9, <1>10, <1>11, FunctionMoves

\* So does an activation that stays as it is.
LEMMA Stays ==
  ASSUME Good, Depth > 0, stack' = stack
  PROVE  Continue(Top)
<1> DEFINE s == [stack EXCEPT ![Depth] = Top]
<1>1. stack \in Seq(Activations) /\ Depth \in 1..Len(stack) /\ Top \in Activations
  BY GoodTop DEF Good, Depth
<1>2. /\ s \in Seq(Activations) /\ Len(s) = Len(stack)
      /\ \A d \in 1..Len(stack) : s[d] = IF d = Depth THEN Top ELSE stack[d]
  BY <1>1, ExceptSeq
<1> HIDE DEF s
<1>3. \A d \in 1..Len(stack) : s[d] = stack[d] BY <1>1, <1>2 DEF Top
<1>4. s = stack BY <1>1, <1>2, <1>3, SeqEqual
<1> QED BY <1>4 DEF Continue, s

LEMMA WriteRegisterStep ==
  ASSUME DynamicStays, Good, NEW r \in Registers, WriteRegister(r) PROVE Good'
<1>1. /\ Depth > 0 /\ Top.at = "body" /\ Top.fn \in Funcs /\ r \in Clobbers(Top.fn)
      /\ regs' = [regs EXCEPT ![r] = Written(Depth)]
      /\ sp' = sp /\ mem' = mem /\ stack' = stack
  BY DEF WriteRegister
<1>2. /\ Depth \in Nat /\ Shape(Top) /\ Contents(mem, Top, Depth) /\ Clean(Top, regs)
      /\ sp = SPAt(Top) /\ regs \in [Registers -> Int] /\ mem \in [Dom -> Int] /\ Top.fn \in Code
  BY <1>1, GoodTop
<1>3. Written(Depth) \in Int BY <1>2 DEF Written
<1>4. regs' \in [Registers -> Int] BY <1>1, <1>2, <1>3
<1>5. DOMAIN Saved[Top.fn] = 1..NSaved(Top.fn) BY <1>2, CodeFacts
<1>6. Clean(Top, regs')
  <2> SUFFICES ASSUME NEW x \in CalleeSaved \ {FP}
               PROVE  \/ regs'[x] = Top.saved[x]
                      \/ \E j \in 1..NSaved(Top.fn) : Saved[Top.fn][j] = x
    BY <1>1 DEF Clean, CleanFunction
  <2>1. x \in Regs /\ x # Flags /\ x \in Registers BY NamesAssumption DEF Registers
  <2>2. CASE x = r
    BY <1>1, <1>5, <2>1, <2>2 DEF Clobbers
  <2>3. CASE x # r
    <3>1. regs'[x] = regs[x] BY <1>1, <1>2, <2>1, <2>3
    <3> QED BY <1>1, <1>2, <3>1 DEF Clean, CleanFunction
  <2> QED BY <2>2, <2>3
<1>7. Continue(Top) BY <1>1, Stays
<1>8. GoesOn(Top) BY DEF GoesOn
<1>9. Sound(Top, Depth, mem', regs') BY <1>1, <1>2, <1>6 DEF Sound
<1>10. Agree(mem, mem', Top.entry + Word) BY <1>1 DEF Agree
<1>11. mem' \in [Dom -> Int] /\ sp' = SPAt(Top) BY <1>1, <1>2
<1> QED BY <1>1, <1>4, <1>7, <1>8, <1>9, <1>10, <1>11, Stepped

\* The stub moves on without a store.
LEMMA StubMoves ==
  ASSUME DynamicStays, Good, Depth > 0, NEW a, SameFrame(Top, a), Shape(a), Continue(a),
         sp' = SPAt(a), mem' = mem, regs' \in [Registers -> Int], Clean(a, regs'),
         Top.at \in Moving => Top.k = 0, a.at \in {"flags", "unflags", "restore"}
  PROVE  Good'
<1>1. Contents(mem, Top, Depth) /\ mem \in [Dom -> Int] BY GoodTop
<1>2. Contents(mem, a, Depth)
  <2>1. a.at \notin OwnPhases /\ a.at \notin {"spill", "args", "handler", "handled"}
    BY DEF OwnPhases
  <2> QED BY <1>1, <2>1, ContentsMove
<1>3. GoesOn(a) BY DEF GoesOn, SameFrame
<1>4. Agree(mem, mem', Top.entry + Word) BY DEF Agree
<1>5. Sound(a, Depth, mem', regs') BY <1>2 DEF Sound
<1> QED BY <1>1, <1>3, <1>4, <1>5, Stepped

LEMMA StubFacts ==
  ASSUME NEW t, Shape(t), t.fn \notin Funcs
  PROVE  /\ t.fn = Ih /\ t.extra = 0 /\ NSaved(t.fn) \in Nat /\ StackSize[t.fn] \in Nat
         /\ StackSize[t.fn] = Word * NSaved(t.fn) + Word /\ t.entry \in Nat
         /\ StackSize[t.fn] =< t.entry
BY ActivationTypes, CodeFacts, LayoutAssumption, NamesAssumption, EntryPlace DEF Shape, Code, NSaved

LEMMA ReadFlagsStep == ASSUME DynamicStays, Good, ReadFlags PROVE Good'
<1> DEFINE a == [Top EXCEPT !.at = "flags"]
<1>1. /\ Depth > 0 /\ Top.at = "spill" /\ Top.k = 0 /\ Top.fn = Ih /\ Top.fn \notin Funcs
      /\ regs' = [regs EXCEPT ![Scratch] = regs[Flags]] /\ Continue(a) /\ sp' = sp /\ mem' = mem
  BY NamesAssumption DEF ReadFlags
<1>2. /\ Top \in Activations /\ Shape(Top) /\ sp = SPAt(Top) /\ Clean(Top, regs)
      /\ regs \in [Registers -> Int]
  BY <1>1, GoodTop
<1>3. /\ a \in Activations /\ SameFrame(Top, a)
      /\ a.at = "flags" /\ a.k = Top.k /\ a.to = Top.to /\ a.extra = Top.extra
  BY <1>2 DEF Activations, SameFrame, Phases
<1> HIDE DEF a
<1>4. /\ a.fn = Top.fn /\ a.entry = Top.entry /\ a.val = Top.val /\ a.args = Top.args
      /\ a.saved = Top.saved
  BY <1>3 DEF SameFrame
<1>5. /\ NSaved(Top.fn) \in Nat /\ Top.extra = 0
  BY <1>1, <1>2, StubFacts
<1>6. SPAt(a) = SPAt(Top)
  <2>1. Below(Top) = Word * (NSaved(Top.fn) - 0) BY <1>1, BelowAt
  <2>2. Below(a) = Word * NSaved(Top.fn) BY <1>3, <1>4, BelowAt
  <2> QED BY <1>4, <1>5, <2>1, <2>2 DEF SPAt
<1>7. Shape(a) BY <1>1, <1>2, <1>3, <1>4, <1>5, <1>6 DEF Shape, StubPhases, Moving
<1>8. regs' \in [Registers -> Int] /\ Clean(a, regs')
  <2>1. Flags \in Registers /\ Scratch \in Registers BY NamesAssumption DEF Registers
  <2>2. regs[Flags] = Top.saved[Flags] BY <1>1, <1>2, <2>1 DEF Clean, CleanStub
  <2>3. regs' \in [Registers -> Int] /\ regs'[Scratch] = a.saved[Flags]
    BY <1>1, <1>2, <1>4, <2>1, <2>2
  <2> QED BY <1>1, <1>3, <1>4, <2>3 DEF Clean, CleanStub
<1>9. a.at \in {"flags", "unflags", "restore"} /\ (Top.at \in Moving => Top.k = 0)
  BY <1>1, <1>3
<1> QED BY <1>1, <1>2, <1>3, <1>6, <1>7, <1>8, <1>9, StubMoves

LEMMA PopFlagsStep == ASSUME DynamicStays, Good, PopFlags PROVE Good'
<1> DEFINE a == [Top EXCEPT !.at = "unflags"]
<1>1. /\ Depth > 0 /\ Top.at = "handled"
      /\ regs' = [regs EXCEPT ![Scratch] = LoadWord(sp)] /\ Continue(a) /\ sp' = sp + Word
      /\ mem' = mem
  BY DEF PopFlags
<1>2. /\ Top \in Activations /\ Shape(Top) /\ sp = SPAt(Top) /\ sp \in Nat
      /\ Contents(mem, Top, Depth) /\ regs \in [Registers -> Int] /\ mem \in [Dom -> Int]
  BY <1>1, GoodTop
<1>3. /\ a \in Activations /\ SameFrame(Top, a)
      /\ a.at = "unflags" /\ a.k = Top.k /\ a.to = Top.to /\ a.extra = Top.extra
  BY <1>2 DEF Activations, SameFrame, Phases
<1> HIDE DEF a
<1>4. /\ a.fn = Top.fn /\ a.entry = Top.entry /\ a.val = Top.val /\ a.args = Top.args
      /\ a.saved = Top.saved
  BY <1>3 DEF SameFrame
<1>5. Top.fn \notin Funcs BY <1>1, <1>2 DEF Shape, OwnPhases, Moving
<1>6. /\ NSaved(Top.fn) \in Nat /\ Top.extra = 0 /\ StackSize[Top.fn] \in Nat
      /\ StackSize[Top.fn] = Word * NSaved(Top.fn) + Word /\ Top.entry \in Nat
      /\ StackSize[Top.fn] =< Top.entry
  BY <1>2, <1>5, StubFacts
<1>7. sp = Top.entry - StackSize[Top.fn]
  <2>1. Below(Top) = StackSize[Top.fn] + 0 BY <1>1, <1>6, BelowAt
  <2> QED BY <1>2, <1>6, <2>1 DEF SPAt
<1>8. SPAt(a) = Top.entry - Word * NSaved(Top.fn) BY <1>3, <1>4, BelowAt DEF SPAt
<1>9. SPAt(a) = sp + Word /\ SPAt(a) >= 0 BY <1>2, <1>6, <1>7, <1>8 DEF Word
<1>10. Shape(a) BY <1>1, <1>2, <1>3, <1>4, <1>5, <1>6, <1>9 DEF Shape, StubPhases, Moving
<1>11. LoadWord(sp) = Top.saved[Flags]
  <2>1. HoldsIn(mem, sp, Word, Top.saved[Flags])
    BY <1>1, <1>2, <1>7 DEF Contents, SavedHeld
  <2>2. sp + Word =< StackTop /\ sp \in Int /\ sp >= 0
    <3>1. Top.entry + Word =< StackTop /\ sp =< Top.entry BY <1>1, <1>2, EntryPlace, GoodTop
    <3> QED BY <1>2, <1>6, <3>1, NamesAssumption DEF Word
  <2> QED BY <1>2, <2>1, <2>2, LoadFacts
<1>12. regs' \in [Registers -> Int] /\ Clean(a, regs')
  <2>1. Flags \in Registers /\ Scratch \in Registers BY NamesAssumption DEF Registers
  <2>2. Top.saved[Flags] \in Int BY <1>2, <2>1, ActivationTypes
  <2>3. regs' \in [Registers -> Int] /\ regs'[Scratch] = a.saved[Flags]
    BY <1>1, <1>2, <1>4, <1>11, <2>1, <2>2
  <2> QED BY <1>3, <1>4, <1>5, <2>3 DEF Clean, CleanStub
<1>13. a.at \in {"flags", "unflags", "restore"} /\ Top.at \notin Moving
  BY <1>1, <1>3 DEF Moving
<1>14. sp' = SPAt(a) BY <1>1, <1>9
<1> QED BY <1>1, <1>3, <1>10, <1>12, <1>13, <1>14, StubMoves

LEMMA WriteFlagsStep == ASSUME DynamicStays, Good, WriteFlags PROVE Good'
<1> DEFINE a == [Top EXCEPT !.at = "restore", !.k = 0]
<1>1. /\ Depth > 0 /\ Top.at = "unflags"
      /\ regs' = [regs EXCEPT ![Flags] = regs[Scratch]] /\ Continue(a) /\ sp' = sp /\ mem' = mem
  BY DEF WriteFlags
<1>2. /\ Top \in Activations /\ Shape(Top) /\ sp = SPAt(Top) /\ Clean(Top, regs)
      /\ regs \in [Registers -> Int]
  BY <1>1, GoodTop
<1>3. /\ a \in Activations /\ SameFrame(Top, a)
      /\ a.at = "restore" /\ a.k = 0 /\ a.to = Top.to /\ a.extra = Top.extra
  BY <1>2 DEF Activations, SameFrame, Phases
<1> HIDE DEF a
<1>4. /\ a.fn = Top.fn /\ a.entry = Top.entry /\ a.val = Top.val /\ a.args = Top.args
      /\ a.saved = Top.saved
  BY <1>3 DEF SameFrame
<1>5. Top.fn \notin Funcs BY <1>1, <1>2 DEF Shape, OwnPhases, Moving
<1>6. NSaved(Top.fn) \in Nat /\ Top.extra = 0 /\ Top.fn \notin Dynamic
  BY <1>2, <1>5, StubFacts, NamesAssumption
<1>7. SPAt(a) = SPAt(Top)
  <2>1. Below(Top) = Word * NSaved(Top.fn) BY <1>1, BelowAt
  <2>2. Below(a) = Word * (NSaved(Top.fn) - 0) BY <1>3, <1>4, BelowAt
  <2> QED BY <1>4, <1>6, <2>1, <2>2 DEF SPAt
<1>8. Shape(a) BY <1>1, <1>2, <1>3, <1>4, <1>5, <1>6, <1>7 DEF Shape, StubPhases, Moving
<1>9. regs' \in [Registers -> Int] /\ Clean(a, regs')
  <2>1. Flags \in Registers /\ Scratch \in Registers BY NamesAssumption DEF Registers
  <2>2. regs[Scratch] = Top.saved[Flags] BY <1>1, <1>2, <1>5 DEF Clean, CleanStub
  <2>3. regs' \in [Registers -> Int] /\ regs'[Flags] = a.saved[Flags]
    BY <1>1, <1>2, <1>4, <2>1, <2>2
  <2>4. \A j \in 1..a.k : FALSE BY <1>3
  <2> QED BY <1>3, <1>4, <1>5, <2>3, <2>4 DEF Clean, CleanStub
<1>10. a.at \in {"flags", "unflags", "restore"} /\ Top.at \notin Moving
  BY <1>1, <1>3 DEF Moving
<1>11. sp' = SPAt(a) BY <1>1, <1>2, <1>7
<1> QED BY <1>1, <1>3, <1>8, <1>9, <1>10, <1>11, StubMoves

-----------------------------------------------------------------------------
(* Pushes and pops.                                                        *)

\* A word pushed changes nothing that the innermost activation has there.
LEMMA PushFacts ==
  ASSUME DynamicStays, Good, Depth > 0, NEW v \in Int, PushWord(v), sp - Word >= 0
  PROVE  /\ sp' = sp - Word /\ mem' \in [Dom -> Int]
         /\ Agree(mem, mem', Top.entry + Word) /\ Contents(mem', Top, Depth)
         /\ HoldsIn(mem', sp - Word, Word, v)
<1>1. /\ Depth \in Nat /\ Shape(Top) /\ Contents(mem, Top, Depth) /\ sp = SPAt(Top)
      /\ sp \in Nat /\ sp =< Top.entry /\ Top.entry \in Int /\ mem \in [Dom -> Int]
  BY GoodTop
<1>2. /\ sp - Word \in Int /\ Word \in Nat /\ sp - Word >= 0 /\ (sp - Word) + Word = sp
      /\ (sp - Word) + Word =< StackTop /\ sp \in Int
      /\ Top.entry + Word \in Int /\ sp =< Top.entry + Word
  <2>1. Top.entry + Word =< StackTop BY <1>1, EntryPlace
  <2> QED BY <1>1, <2>1, NamesAssumption DEF Word
<1>3. sp' = sp - Word /\ Store(sp - Word, Word, v) BY DEF PushWord
<1>4. /\ mem' \in [Dom -> Int] /\ Elsewhere(mem, mem', sp - Word, Word)
      /\ HoldsIn(mem', sp - Word, Word, v)
  BY <1>1, <1>2, <1>3, StoreFacts
<1>5. ASSUME NEW m, m = mem'
      PROVE  Agree(mem, m, Top.entry + Word) /\ Contents(m, Top, Depth)
  <2>1. Elsewhere(mem, m, sp - Word, Word) BY <1>4, <1>5
  <2>2. Agree(mem, m, sp)
    <3> DEFINE at == sp - Word
    <3>1. /\ at \in Int /\ Word \in Nat /\ at + Word =< sp /\ sp \in Int
          /\ Elsewhere(mem, m, at, Word)
      BY <1>2, <2>1
    <3> HIDE DEF at
    <3> QED BY <3>1, ElsewhereAgree
  <2>3. Agree(mem, m, Top.entry + Word) BY <1>2, <2>2, AgreeAbove
  <2>4. Agree(mem, m, SPAt(Top)) BY <1>1, <2>2
  <2>5. Contents(m, Top, Depth) BY <1>1, <2>4, ContentsKept
  <2> QED BY <2>3, <2>5
<1> QED BY <1>3, <1>4, <1>5

LEMMA PushRegisterStep == ASSUME DynamicStays, Good, PushRegister PROVE Good'
<1> DEFINE a == [Top EXCEPT !.k = @ - 1]
           x == Saved[Top.fn][Top.k]
<1>1. /\ Depth > 0 /\ Top.at = "spill" /\ Top.k > 0 /\ PushWord(regs[x]) /\ Continue(a)
      /\ regs' = regs
  BY DEF PushRegister
<1>2. /\ Top \in Activations /\ Shape(Top) /\ sp = SPAt(Top) /\ Clean(Top, regs) /\ Top.k \in Nat
      /\ regs \in [Registers -> Int] /\ Top.fn \in Code /\ Top.entry \in Int
  BY <1>1, GoodTop
<1>3. /\ a \in Activations /\ SameFrame(Top, a)
      /\ a.at = "spill" /\ a.k = Top.k - 1 /\ a.to = Top.to /\ a.extra = Top.extra
  <2> DEFINE k == Top.k - 1
  <2>1. k \in Nat /\ a = [Top EXCEPT !.k = k] BY <1>1, <1>2
  <2> HIDE DEF k, a
  <2>2. /\ a \in Activations /\ SameFrame(Top, a)
        /\ a.at = Top.at /\ a.k = k /\ a.to = Top.to /\ a.extra = Top.extra
    BY <1>2, <2>1 DEF Activations, SameFrame
  <2> QED BY <1>1, <2>2 DEF k
<1> HIDE DEF a
<1>4. /\ a.fn = Top.fn /\ a.entry = Top.entry /\ a.val = Top.val /\ a.args = Top.args
      /\ a.saved = Top.saved
  BY <1>3 DEF SameFrame
<1>5. /\ NSaved(Top.fn) \in Nat /\ Top.k \in 1..NSaved(Top.fn) /\ StackSize[Top.fn] \in Nat
      /\ Word * NSaved(Top.fn) =< StackSize[Top.fn] /\ StackSize[Top.fn] =< Top.entry
  <2>1. Top.k =< NSaved(Top.fn) /\ StackSize[Top.fn] =< Top.entry
    BY <1>1, <1>2 DEF Shape, Moving
  <2> QED BY <1>1, <1>2, <2>1, CodeFacts
<1>6. /\ SPAt(a) = sp - Word /\ Slot(a, Top.k) = sp - Word /\ sp - Word >= 0
  <2>1. sp = Top.entry - Word * (NSaved(Top.fn) - Top.k) BY <1>1, <1>2, BelowAt DEF SPAt
  <2>2. SPAt(a) = Top.entry - Word * (NSaved(Top.fn) - (Top.k - 1))
    BY <1>3, <1>4, BelowAt DEF SPAt
  <2>3. Slot(a, Top.k) = Top.entry - Word * (NSaved(Top.fn) - Top.k + 1) BY <1>4 DEF Slot
  <2>4. ASSUME NEW e \in Int, NEW n \in Nat, NEW k \in 1..n, 4 * n =< e
        PROVE  /\ e - 4 * (n - (k - 1)) = e - 4 * (n - k) - 4
               /\ e - 4 * (n - k + 1) = e - 4 * (n - k) - 4
               /\ e - 4 * (n - k) - 4 >= 0
    BY <2>4
  <2>5. 4 * NSaved(Top.fn) =< Top.entry BY <1>2, <1>5 DEF Word
  <2> QED BY <1>2, <1>5, <2>1, <2>2, <2>3, <2>4, <2>5 DEF Word
<1>7. x \in Regs /\ x \in Registers /\ regs[x] \in Int /\ regs[x] = Top.saved[x]
  <2>1. x \in Regs /\ x \in Registers BY <1>2, <1>5, CodeFacts DEF Registers
  <2>2. CASE Top.fn \in Funcs
    <3>1. x \in CalleeSaved \ {FP} BY <1>2, <1>5, <2>2, CodeAssumption, CodeFacts
    <3> QED BY <1>1, <1>2, <2>1, <2>2, <3>1 DEF Clean, CleanFunction
  <2>3. CASE Top.fn \notin Funcs
    BY <1>1, <1>2, <2>1, <2>3 DEF Clean, CleanStub
  <2> QED BY <1>2, <2>1, <2>2, <2>3
<1> DEFINE v == regs[x]
<1>8. v \in Int /\ PushWord(v) BY <1>1, <1>7
<1> HIDE DEF v
<1>9. /\ sp' = sp - Word /\ mem' \in [Dom -> Int]
      /\ Agree(mem, mem', Top.entry + Word) /\ Contents(mem', Top, Depth)
      /\ HoldsIn(mem', sp - Word, Word, v)
  BY <1>1, <1>6, <1>8, PushFacts
<1>10. v = a.saved[Saved[a.fn][Top.k]] BY <1>4, <1>7 DEF v
<1> HIDE DEF x
<1>11. Shape(a)
  <2>1. SPAt(a) >= 0 BY <1>6
  <2>2. a.k =< NSaved(a.fn) BY <1>3, <1>4, <1>5
  <2> QED BY <1>1, <1>2, <1>3, <1>4, <2>1, <2>2 DEF Shape, Moving
<1>12. Contents(mem', a, Depth)
  <2>1. HoldsIn(mem', a.entry, Word, ReturnTo(Depth - 1)) BY <1>4, <1>9 DEF Contents
  <2>2. SavedHeld(mem', a)
    <3>1. ASSUME NEW j \in 1..NSaved(a.fn), j > a.k
          PROVE  HoldsIn(mem', Slot(a, j), Word, a.saved[Saved[a.fn][j]])
      <4>1. CASE j = Top.k BY <1>6, <1>9, <1>10, <4>1
      <4>2. CASE j # Top.k
        <5>1. j > Top.k BY <1>3, <1>5, <3>1, <4>2
        <5>2. HoldsIn(mem', Slot(Top, j), Word, Top.saved[Saved[Top.fn][j]])
          BY <1>1, <1>4, <1>9, <5>1 DEF Contents, SavedHeld
        <5>3. Slot(Top, j) = Slot(a, j) BY <1>4 DEF Slot
        <5> QED BY <1>4, <5>2, <5>3
      <4> QED BY <4>1, <4>2
    <3> QED BY <1>3, <3>1 DEF SavedHeld, Moving
  <2>3. ObjectsHeld(mem', a)
    BY <1>1, <1>3, <1>4, <1>9 DEF Contents, ObjectsHeld, OwnPhases
  <2>4. ArgumentsHeld(mem', a, Depth)
    BY <1>3, <1>4, <1>9 DEF Contents, ArgumentsHeld
  <2> QED BY <2>1, <2>2, <2>3, <2>4 DEF Contents
<1>13. Clean(a, regs') BY <1>1, <1>2, <1>3, <1>4 DEF Clean, CleanFunction, CleanStub
<1>14. Sound(a, Depth, mem', regs') BY <1>11, <1>12, <1>13 DEF Sound
<1>15. GoesOn(a) BY <1>4 DEF GoesOn
<1>16. regs' \in [Registers -> Int] /\ sp' = SPAt(a) BY <1>1, <1>2, <1>6, <1>9
<1> QED BY <1>1, <1>9, <1>14, <1>15, <1>16, Stepped

LEMMA PushFlagsStep == ASSUME DynamicStays, Good, PushFlags PROVE Good'
<1> DEFINE a == [Top EXCEPT !.at = "handler"]
           v == regs[Scratch]
<1>1. /\ Depth > 0 /\ Top.at = "flags" /\ PushWord(v) /\ Continue(a) /\ regs' = regs
  BY DEF PushFlags
<1>2. /\ Top \in Activations /\ Shape(Top) /\ sp = SPAt(Top) /\ Clean(Top, regs)
      /\ regs \in [Registers -> Int]
  BY <1>1, GoodTop
<1>3. /\ a \in Activations /\ SameFrame(Top, a)
      /\ a.at = "handler" /\ a.k = Top.k /\ a.to = Top.to /\ a.extra = Top.extra
  BY <1>2 DEF Activations, SameFrame, Phases
<1> HIDE DEF a
<1>4. /\ a.fn = Top.fn /\ a.entry = Top.entry /\ a.val = Top.val /\ a.args = Top.args
      /\ a.saved = Top.saved
  BY <1>3 DEF SameFrame
<1>5. Top.fn \notin Funcs BY <1>1, <1>2 DEF Shape, OwnPhases, Moving
<1>6. /\ NSaved(Top.fn) \in Nat /\ Top.extra = 0 /\ StackSize[Top.fn] \in Nat
      /\ StackSize[Top.fn] = Word * NSaved(Top.fn) + Word /\ Top.entry \in Nat
      /\ StackSize[Top.fn] =< Top.entry
  BY <1>2, <1>5, StubFacts
<1>7. /\ SPAt(a) = sp - Word /\ a.entry - StackSize[a.fn] = sp - Word /\ sp - Word >= 0
  <2>1. sp = Top.entry - Word * NSaved(Top.fn) BY <1>1, <1>2, BelowAt DEF SPAt
  <2>2. SPAt(a) = Top.entry - (StackSize[Top.fn] + 0) BY <1>3, <1>4, <1>6, BelowAt DEF SPAt
  <2> QED BY <1>4, <1>6, <2>1, <2>2 DEF Word
<1>8. v \in Int /\ v = a.saved[Flags]
  <2>1. Scratch \in Registers BY NamesAssumption DEF Registers
  <2> QED BY <1>1, <1>2, <1>4, <1>5, <2>1 DEF Clean, CleanStub
<1> HIDE DEF v
<1>9. /\ sp' = sp - Word /\ mem' \in [Dom -> Int]
      /\ Agree(mem, mem', Top.entry + Word) /\ Contents(mem', Top, Depth)
      /\ HoldsIn(mem', sp - Word, Word, v)
  BY <1>1, <1>7, <1>8, PushFacts
<1>10. Shape(a)
  <2>1. SPAt(a) >= 0 BY <1>7
  <2> QED BY <1>1, <1>2, <1>3, <1>4, <1>5, <1>6, <2>1 DEF Shape, Moving, StubPhases
<1>11. Contents(mem', a, Depth)
  <2>1. HoldsIn(mem', a.entry - StackSize[a.fn], Word, a.saved[Flags]) BY <1>7, <1>8, <1>9
  <2>2. Top.at \notin Moving /\ a.at \notin OwnPhases /\ a.at \notin {"spill", "args"}
    BY <1>1, <1>3 DEF Moving, OwnPhases
  <2>3. ASSUME NEW m, m = mem' PROVE Contents(m, a, Depth)
    <3>1. /\ HoldsIn(m, a.entry - StackSize[a.fn], Word, a.saved[Flags])
          /\ Contents(m, Top, Depth)
      BY <1>9, <2>1, <2>3
    <3> QED BY <1>3, <1>10, <2>2, <3>1, ContentsMove
  <2> QED BY <2>3
<1>12. Clean(a, regs') BY <1>3, <1>4, <1>5 DEF Clean, CleanStub
<1>13. Sound(a, Depth, mem', regs') BY <1>10, <1>11, <1>12 DEF Sound
<1>14. GoesOn(a) BY <1>4 DEF GoesOn
<1>15. regs' \in [Registers -> Int] /\ sp' = SPAt(a) BY <1>1, <1>2, <1>7, <1>9
<1> QED BY <1>1, <1>9, <1>13, <1>14, <1>15, Stepped

LEMMA PopRegisterStep == ASSUME DynamicStays, Good, PopRegister PROVE Good'
<1> DEFINE a == [Top EXCEPT !.k = @ + 1]
           x == Saved[Top.fn][Top.k + 1]
<1>1. /\ Depth > 0 /\ Top.at = "restore" /\ Top.k < NSaved(Top.fn)
      /\ regs' = [regs EXCEPT ![x] = LoadWord(sp)] /\ Continue(a) /\ sp' = sp + Word
      /\ mem' = mem
  BY DEF PopRegister, NSaved
<1>2. /\ Top \in Activations /\ Shape(Top) /\ sp = SPAt(Top) /\ Clean(Top, regs) /\ Top.k \in Nat
      /\ regs \in [Registers -> Int] /\ mem \in [Dom -> Int] /\ Top.fn \in Code
      /\ Top.entry \in Int /\ Contents(mem, Top, Depth)
  BY <1>1, GoodTop
<1>3. /\ a \in Activations /\ SameFrame(Top, a)
      /\ a.at = "restore" /\ a.k = Top.k + 1 /\ a.to = Top.to /\ a.extra = Top.extra
  <2> DEFINE k == Top.k + 1
  <2>1. k \in Nat /\ a = [Top EXCEPT !.k = k] BY <1>1, <1>2
  <2> HIDE DEF k, a
  <2>2. /\ a \in Activations /\ SameFrame(Top, a)
        /\ a.at = Top.at /\ a.k = k /\ a.to = Top.to /\ a.extra = Top.extra
    BY <1>2, <2>1 DEF Activations, SameFrame
  <2> QED BY <1>1, <2>2 DEF k
<1> HIDE DEF a
<1>4. /\ a.fn = Top.fn /\ a.entry = Top.entry /\ a.val = Top.val /\ a.args = Top.args
      /\ a.saved = Top.saved
  BY <1>3 DEF SameFrame
<1>5. /\ NSaved(Top.fn) \in Nat /\ Top.k + 1 \in 1..NSaved(Top.fn)
  BY <1>1, <1>2, CodeFacts
<1>6. Slot(Top, Top.k + 1) = sp /\ SPAt(a) = sp + Word
  <2>1. sp = Top.entry - Word * (NSaved(Top.fn) - Top.k) BY <1>1, <1>2, BelowAt DEF SPAt
  <2>2. SPAt(a) = Top.entry - Word * (NSaved(Top.fn) - (Top.k + 1))
    BY <1>3, <1>4, BelowAt DEF SPAt
  <2>3. Slot(Top, Top.k + 1) = Top.entry - Word * (NSaved(Top.fn) - (Top.k + 1) + 1)
    BY DEF Slot
  <2>4. ASSUME NEW e \in Int, NEW n \in Nat, NEW k \in Nat
        PROVE  /\ e - 4 * (n - (k + 1)) = e - 4 * (n - k) + 4
               /\ e - 4 * (n - (k + 1) + 1) = e - 4 * (n - k)
    OBVIOUS
  <2> QED BY <1>2, <1>5, <2>1, <2>2, <2>3, <2>4 DEF Word
<1>7. LoadWord(sp) = Top.saved[x]
  <2>1. Top.k + 1 > Top.k BY <1>2
  <2>2. HoldsIn(mem, sp, Word, Top.saved[x])
    BY <1>2, <1>5, <1>6, <2>1 DEF Contents, SavedHeld
  <2>3. sp \in Int /\ sp >= 0 /\ sp + Word =< StackTop
    <3>1. /\ sp \in Nat /\ sp =< Top.entry /\ Top.entry + Word =< StackTop
      BY <1>1, <1>2, EntryPlace, GoodTop
    <3> QED BY <1>2, <3>1, NamesAssumption DEF Word
  <2> HIDE DEF x
  <2> QED BY <1>2, <2>2, <2>3, LoadFacts
<1>8. x \in Regs /\ x \in Registers /\ Top.saved[x] \in Int
  <2>1. x \in Regs BY <1>2, <1>5, CodeFacts
  <2> QED BY <1>2, <2>1, ActivationTypes DEF Registers
<1>9. /\ regs' \in [Registers -> Int] /\ regs'[x] = a.saved[x]
      /\ \A y \in Registers : y # x => regs'[y] = regs[y]
  BY <1>1, <1>2, <1>4, <1>7, <1>8
<1>10. Shape(a)
  <2>1. /\ SPAt(a) >= 0 /\ a.k =< NSaved(a.fn)
    <3>1. sp \in Nat BY <1>1, GoodTop
    <3> QED BY <1>3, <1>4, <1>5, <1>6, <3>1 DEF Word
  <2> QED BY <1>1, <1>2, <1>3, <1>4, <2>1 DEF Shape, Moving
<1>11. Contents(mem, a, Depth)
  <2>1. HoldsIn(mem, a.entry, Word, ReturnTo(Depth - 1)) BY <1>2, <1>4 DEF Contents
  <2>2. SavedHeld(mem, a)
    <3>1. ASSUME NEW j \in 1..NSaved(a.fn), j > a.k
          PROVE  HoldsIn(mem, Slot(a, j), Word, a.saved[Saved[a.fn][j]])
      <4>1. j > Top.k BY <1>2, <1>3, <3>1
      <4>2. HoldsIn(mem, Slot(Top, j), Word, Top.saved[Saved[Top.fn][j]])
        BY <1>2, <1>4, <4>1 DEF Contents, SavedHeld
      <4>3. Slot(Top, j) = Slot(a, j) BY <1>4 DEF Slot
      <4> QED BY <1>4, <4>2, <4>3
    <3> QED BY <1>3, <3>1 DEF SavedHeld, Moving
  <2>3. ObjectsHeld(mem, a) BY <1>3 DEF ObjectsHeld, OwnPhases
  <2>4. ArgumentsHeld(mem, a, Depth)
    BY <1>2, <1>3, <1>4 DEF Contents, ArgumentsHeld
  <2> QED BY <2>1, <2>2, <2>3, <2>4 DEF Contents
<1>12. Clean(a, regs')
  <2>1. CASE Top.fn \in Funcs
    <3> SUFFICES ASSUME NEW y \in CalleeSaved \ {FP}, regs'[y] # a.saved[y]
                 PROVE  \E j \in 1..NSaved(a.fn) : Saved[a.fn][j] = y /\ j > a.k
      BY <1>3, <1>4, <2>1 DEF Clean, CleanFunction
    <3>1. y # x /\ y \in Registers BY <1>9, NamesAssumption DEF Registers
    <3>2. regs[y] # Top.saved[y] BY <1>4, <1>9, <3>1
    <3>3. PICK j \in 1..NSaved(Top.fn) : Saved[Top.fn][j] = y /\ j > Top.k
      BY <1>1, <1>2, <2>1, <3>2 DEF Clean, CleanFunction
    <3>4. j # Top.k + 1 BY <3>1, <3>3
    <3>5. j > a.k BY <1>2, <1>3, <1>5, <3>3, <3>4
    <3> QED BY <1>4, <3>3, <3>5
  <2>2. CASE Top.fn \notin Funcs
    <3>1. /\ regs[Flags] = Top.saved[Flags]
          /\ \A j \in 1..Top.k : regs[Saved[Top.fn][j]] = Top.saved[Saved[Top.fn][j]]
      BY <1>1, <1>2, <2>2 DEF Clean, CleanStub
    <3>2. regs'[Flags] = a.saved[Flags]
      <4>1. Flags # x /\ Flags \in Registers BY <1>8, NamesAssumption DEF Registers
      <4> QED BY <1>4, <1>9, <3>1, <4>1
    <3>3. ASSUME NEW j \in 1..a.k PROVE regs'[Saved[a.fn][j]] = a.saved[Saved[a.fn][j]]
      <4>1. CASE Saved[a.fn][j] = x BY <1>9, <4>1
      <4>2. CASE Saved[a.fn][j] # x
        <5>1. j # Top.k + 1 BY <1>4, <4>2
        <5>2. j \in 1..Top.k /\ j \in 1..NSaved(Top.fn) BY <1>2, <1>3, <1>5, <5>1
        <5>3. Saved[Top.fn][j] \in Registers BY <1>2, <5>2, CodeFacts DEF Registers
        <5> QED BY <1>4, <1>9, <3>1, <4>2, <5>2, <5>3
      <4> QED BY <4>1, <4>2
    <3> QED BY <1>3, <1>4, <2>2, <3>2, <3>3 DEF Clean, CleanStub
  <2> QED BY <2>1, <2>2
<1>13. Sound(a, Depth, mem', regs') BY <1>1, <1>10, <1>11, <1>12 DEF Sound
<1>14. GoesOn(a) BY <1>4 DEF GoesOn
<1>15. Agree(mem, mem', Top.entry + Word) BY <1>1 DEF Agree
<1>16. sp' = SPAt(a) /\ mem' \in [Dom -> Int] BY <1>1, <1>2, <1>6
<1> QED BY <1>1, <1>9, <1>13, <1>14, <1>15, <1>16, Stepped

-----------------------------------------------------------------------------
(* Stores of a compiled function.                                          *)

\* A store below the registers that a function has saved leaves alone what
\* lies above.
LEMMA ContentsAbove ==
  ASSUME NEW t, Shape(t), t.at \in OwnPhases, NEW d, NEW m, NEW n, Contents(m, t, d),
         Agree(m, n, t.entry - Word * NSaved(t.fn))
  PROVE  /\ HoldsIn(n, t.entry, Word, ReturnTo(d - 1)) /\ SavedHeld(n, t)
         /\ ArgumentsAt(n, t.entry + Word, t.args)
<1> DEFINE low == t.entry - Word * NSaved(t.fn)
<1>1. /\ t \in Activations /\ t.fn \in Code /\ t.entry \in Nat /\ t.entry + Word =< StackTop
      /\ NSaved(t.fn) \in Nat /\ StackTop \in Nat /\ Word \in Nat /\ t.args \in Seq(Int)
      /\ t.entry + Word + Word * Len(t.args) =< StackTop
  BY ActivationTypes, CodeFacts, EntryPlace, NamesAssumption DEF Shape, Word
<1>2. low \in Int /\ low =< t.entry BY <1>1 DEF Word
<1>3. Agree(m, n, low) OBVIOUS
<1>4. \A j \in 1..NSaved(t.fn) : low =< Slot(t, j) BY SlotPlaces
<1> HIDE DEF low
<1>5. HoldsIn(n, t.entry, Word, ReturnTo(d - 1))
  <2> DEFINE v == ReturnTo(d - 1)
             at == t.entry
  <2>1. /\ HoldsIn(m, at, Word, v) /\ at \in Int /\ at >= low /\ at >= 0 /\ at + Word =< StackTop
    BY <1>1, <1>2 DEF Contents
  <2> HIDE DEF v, at
  <2>2. HoldsIn(n, at, Word, v) BY <1>1, <1>2, <1>3, <2>1, HoldsAgree
  <2> QED BY <2>2 DEF v, at
<1>6. SavedHeld(n, t)
  <2>1. ASSUME NEW j \in 1..NSaved(t.fn)
        PROVE  HoldsIn(n, Slot(t, j), Word, t.saved[Saved[t.fn][j]])
    <3> DEFINE v == t.saved[Saved[t.fn][j]]
               at == Slot(t, j)
    <3>1. t.at \notin Moving BY DEF OwnPhases, Moving
    <3>2. HoldsIn(m, at, Word, v) BY <3>1 DEF Contents, SavedHeld
    <3>3. /\ at \in Int /\ at >= low /\ at >= 0 /\ at + Word =< t.entry
      BY <1>4, SlotPlaces
    <3> HIDE DEF v, at
    <3>4. at + Word =< StackTop BY <1>1, <3>3 DEF Word
    <3>5. HoldsIn(n, at, Word, v) BY <1>1, <1>2, <1>3, <3>2, <3>3, <3>4, HoldsAgree
    <3> QED BY <3>5 DEF v, at
  <2>2. t.at \notin {"handler", "handled"} BY DEF OwnPhases
  <2> QED BY <2>1, <2>2 DEF SavedHeld
<1>7. ArgumentsAt(n, t.entry + Word, t.args)
  <2> DEFINE at == t.entry + Word
  <2>1. /\ at \in Nat /\ low =< at /\ at + Word * Len(t.args) =< StackTop
        /\ ArgumentsAt(m, at, t.args)
    BY <1>1, <1>2 DEF Word, Contents, ArgumentsHeld
  <2> HIDE DEF at
  <2>2. ArgumentsAt(n, at, t.args) BY <1>1, <1>2, <1>3, <2>1, ArgumentsAgree
  <2> QED BY <2>2 DEF at
<1> QED BY <1>5, <1>6, <1>7

\* eliminateFrameIndex() names the byte at an offset counted from above the
\* return address, in a frame that has no object of variable size.
LEMMA FrameAddress ==
  ASSUME Good, Depth > 0, Top.at = "body", Top.fn \in Funcs, Top.fn \notin Dynamic, NEW x \in Int
  PROVE  FrameIndexAddr(sp, x, StackSize[Top.fn]) = Top.entry + Word + x
<1>1. /\ Top.entry \in Int /\ Shape(Top) /\ sp = SPAt(Top) /\ StackSize[Top.fn] \in Nat
  BY GoodTop, CodeFacts
<1>2. Top.extra = 0 BY <1>1 DEF Shape
<1>3. sp = Top.entry - (StackSize[Top.fn] + 0) BY <1>1, <1>2, BelowAt DEF SPAt
<1>4. ASSUME NEW e \in Int, NEW n \in Nat
      PROVE  (e - (n + 0)) + x + 4 + n = e + 4 + x
  OBVIOUS
<1>5. FrameIndexAddr(sp, x, StackSize[Top.fn])
        = (Top.entry - (StackSize[Top.fn] + 0)) + x + 4 + StackSize[Top.fn]
  BY <1>3 DEF FrameIndexAddr, Word
<1> QED BY <1>1, <1>4, <1>5 DEF Word

LEMMA ObjectAddress ==
  ASSUME DynamicStays, Good, Depth > 0, Top.at = "body", Top.fn \in Funcs,
         NEW j \in 1..Len(Objects[Top.fn])
  PROVE  FrameIndexAddr(sp, Offset[Top.fn][j], StackSize[Top.fn])
           = Top.entry + Word + Offset[Top.fn][j]
<1>1. Top.fn \notin Dynamic
  <2>1. Objects[Top.fn] # <<>> OBVIOUS
  <2> QED BY <2>1 DEF DynamicStays
<1>2. Offset[Top.fn][j] \in Int BY NoArguments, LayoutFacts
<1> QED BY <1>1, <1>2, FrameAddress

LEMMA WriteObjectStep ==
  ASSUME DynamicStays, Good, NEW o, WriteObject(o) PROVE Good'
<1> DEFINE v == Written(Depth)
           a == [Top EXCEPT !.val[o] = v]
           size == Objects[Top.fn][o].size
           at == Top.entry + Word + Offset[Top.fn][o]
<1>1. /\ Depth > 0 /\ Top.at = "body" /\ Top.fn \in Funcs /\ o \in DOMAIN Objects[Top.fn]
      /\ Store(FrameIndexAddr(sp, Offset[Top.fn][o], StackSize[Top.fn]), size, v)
      /\ Continue(a) /\ sp' = sp /\ regs' = regs
  BY DEF WriteObject
<1>2. /\ Top \in Activations /\ Shape(Top) /\ sp = SPAt(Top) /\ Clean(Top, regs)
      /\ regs \in [Registers -> Int] /\ mem \in [Dom -> Int] /\ Top.fn \in Code
      /\ Top.entry \in Int /\ Contents(mem, Top, Depth) /\ Depth \in Nat
  BY <1>1, GoodTop
<1>3. /\ DOMAIN Objects[Top.fn] = 1..Len(Objects[Top.fn]) /\ Len(Objects[Top.fn]) \in Nat
      /\ o \in 1..Len(Objects[Top.fn]) /\ StackSize[Top.fn] \in Nat
      /\ NSaved(Top.fn) \in Nat
      /\ \A j \in 1..Len(Objects[Top.fn]) : Objects[Top.fn][j].size \in Nat
  BY <1>1, <1>2, CodeFacts
<1>4. v \in Int BY <1>2 DEF Written
<1>5. /\ Top.val \in Seq(Int) /\ Len(Top.val) = Len(Objects[Top.fn])
  BY <1>2, ActivationTypes DEF Shape
<1>6. /\ a \in Activations /\ a.fn = Top.fn /\ a.entry = Top.entry /\ a.args = Top.args
      /\ a.saved = Top.saved /\ a.at = Top.at /\ a.k = Top.k /\ a.to = Top.to
      /\ a.extra = Top.extra /\ Len(a.val) = Len(Objects[Top.fn])
      /\ \A j \in 1..Len(Objects[Top.fn]) : a.val[j] = IF j = o THEN v ELSE Top.val[j]
  <2> DEFINE val == [Top.val EXCEPT ![o] = v]
  <2>1. /\ val \in Seq(Int) /\ Len(val) = Len(Objects[Top.fn])
        /\ \A j \in 1..Len(Objects[Top.fn]) : val[j] = IF j = o THEN v ELSE Top.val[j]
    BY <1>3, <1>4, <1>5, ExceptSeq
  <2>2. a = [Top EXCEPT !.val = val] BY <1>2 DEF Activations
  <2> HIDE DEF val, a
  <2> QED BY <1>2, <2>1, <2>2 DEF Activations
<1> HIDE DEF a, v
<1>7. SPAt(a) = SPAt(Top) BY <1>6 DEF SPAt, Below, Slot
<1>8. Shape(a) BY <1>1, <1>2, <1>6, <1>7 DEF Shape
<1>9. \A j \in 1..Len(Objects[Top.fn]) :
        /\ Top.entry + Word + Offset[Top.fn][j] \in Int
        /\ Top.entry + Word + Offset[Top.fn][j] >= 0
        /\ Top.entry + Word + Offset[Top.fn][j] + Objects[Top.fn][j].size
             =< Top.entry - Word * NSaved(Top.fn)
  BY <1>1, <1>2, ObjectPlaces
<1>10. \A j \in 1..Len(Objects[Top.fn]) : j # o =>
         \/ Top.entry + Word + Offset[Top.fn][j] + Objects[Top.fn][j].size =< at
         \/ at + size =< Top.entry + Word + Offset[Top.fn][j]
  <2> SUFFICES ASSUME NEW j \in 1..Len(Objects[Top.fn]), j # o
               PROVE  \/ Top.entry + Word + Offset[Top.fn][j] + Objects[Top.fn][j].size =< at
                      \/ at + size =< Top.entry + Word + Offset[Top.fn][j]
    OBVIOUS
  <2>1. /\ Offset[Top.fn][j] \in Int /\ Offset[Top.fn][o] \in Int
        /\ \/ Offset[Top.fn][j] + Objects[Top.fn][j].size =< Offset[Top.fn][o]
           \/ Offset[Top.fn][o] + size =< Offset[Top.fn][j]
    BY <1>1, <1>3, NoArguments, LayoutFacts
  <2>2. ASSUME NEW e \in Int, NEW x \in Int, NEW y \in Int, NEW n \in Nat, x + n =< y
        PROVE  e + 4 + x + n =< e + 4 + y
    BY <2>2
  <2> QED BY <1>2, <1>3, <2>1, <2>2 DEF Word
<1>11. FrameIndexAddr(sp, Offset[Top.fn][o], StackSize[Top.fn]) = at
  BY <1>1, <1>3, ObjectAddress
<1>12. /\ at \in Int /\ at >= 0 /\ size \in Nat
       /\ at + size =< Top.entry - Word * NSaved(Top.fn)
  BY <1>3, <1>9
<1>13. Store(at, size, v) BY <1>1, <1>11
<1> HIDE DEF at, size
<1>14. Top.entry \in Nat /\ Top.entry + Word =< StackTop /\ StackTop \in Nat
  BY <1>2, EntryPlace, NamesAssumption
<1>15. /\ mem' \in [Dom -> Int] /\ Elsewhere(mem, mem', at, size) /\ HoldsIn(mem', at, size, v)
  <2>1. at + size =< StackTop BY <1>3, <1>12, <1>14 DEF Word
  <2> QED BY <1>2, <1>4, <1>12, <1>13, <2>1, StoreFacts
<1>16. ASSUME NEW m, m = mem'
       PROVE  Contents(m, a, Depth) /\ Agree(mem, m, Top.entry + Word)
  <2>1. Elsewhere(mem, m, at, size) /\ HoldsIn(m, at, size, v) BY <1>15, <1>16
  <2>2. Agree(mem, m, Top.entry + Word) /\ Agree(mem, m, Top.entry - Word * NSaved(Top.fn))
    <3>1. /\ Top.entry + Word \in Int /\ at + size =< Top.entry + Word
          /\ Top.entry - Word * NSaved(Top.fn) \in Int
      BY <1>3, <1>12, <1>14 DEF Word
    <3> QED BY <1>12, <2>1, <3>1, ElsewhereAgree
  <2>3. /\ HoldsIn(m, Top.entry, Word, ReturnTo(Depth - 1)) /\ SavedHeld(m, Top)
        /\ ArgumentsAt(m, Top.entry + Word, Top.args)
    <3>1. Top.at \in OwnPhases BY <1>1 DEF OwnPhases
    <3> QED BY <1>2, <2>2, <3>1, ContentsAbove
  <2>4. SavedHeld(m, a)
    <3>1. \A j : Slot(a, j) = Slot(Top, j) BY <1>6 DEF Slot
    <3> QED BY <1>6, <2>3, <3>1 DEF SavedHeld
  <2>5. ArgumentsHeld(m, a, Depth) BY <1>1, <1>6, <2>3 DEF ArgumentsHeld
  <2>6. ObjectsHeld(m, a)
    <3> SUFFICES ASSUME NEW j \in 1..Len(Objects[Top.fn]), a.val[j] # Unset
                 PROVE  HoldsIn(m, Top.entry + Word + Offset[Top.fn][j],
                                Objects[Top.fn][j].size, a.val[j])
      BY <1>1, <1>6 DEF ObjectsHeld
    <3>1. CASE j = o BY <1>6, <2>1, <3>1 DEF at, size
    <3>2. CASE j # o
      <4> DEFINE there == Top.entry + Word + Offset[Top.fn][j]
                 bytes == Objects[Top.fn][j].size
                 old == Top.val[j]
      <4>1. HoldsIn(mem, there, bytes, old) /\ a.val[j] = old
        BY <1>1, <1>2, <1>6, <3>2 DEF Contents, ObjectsHeld, OwnPhases
      <4>2. /\ there \in Int /\ there >= 0 /\ bytes \in Nat
            /\ there + bytes =< Top.entry - Word * NSaved(Top.fn)
            /\ there + bytes =< at \/ at + size =< there
        BY <1>3, <1>9, <1>10, <3>2
      <4> HIDE DEF there, bytes, old
      <4>3. there + bytes =< StackTop BY <1>3, <1>14, <4>2 DEF Word
      <4>4. HoldsIn(m, there, bytes, old) BY <1>12, <2>1, <4>1, <4>2, <4>3, HoldsApart
      <4> QED BY <4>1, <4>4 DEF there, bytes
    <3> QED BY <3>1, <3>2
  <2> QED BY <1>6, <2>2, <2>3, <2>4, <2>5, <2>6 DEF Contents
<1>17. Contents(mem', a, Depth) /\ Agree(mem, mem', Top.entry + Word) BY <1>16
<1>18. Clean(a, regs') BY <1>1, <1>2, <1>6 DEF Clean, CleanFunction
<1>19. Sound(a, Depth, mem', regs') BY <1>8, <1>17, <1>18 DEF Sound
<1>20. GoesOn(a) BY <1>6 DEF GoesOn
<1>21. regs' \in [Registers -> Int] /\ sp' = SPAt(a) BY <1>1, <1>2, <1>7
<1> QED BY <1>1, <1>15, <1>17, <1>19, <1>20, <1>21, Stepped

LEMMA StoreArgumentStep == ASSUME DynamicStays, Good, StoreArgument PROVE Good'
<1> DEFINE v == Argument(Depth)
           a == [Top EXCEPT !.k = @ + 1]
           at == sp + Word * Top.k
<1>1. /\ Depth > 0 /\ Top.at = "args" /\ Top.k < StackArgs[Top.to]
      /\ Store(at, Word, v) /\ Continue(a) /\ sp' = sp /\ regs' = regs
  BY DEF StoreArgument
<1>2. /\ Top \in Activations /\ Shape(Top) /\ sp = SPAt(Top) /\ Clean(Top, regs) /\ sp \in Nat
      /\ regs \in [Registers -> Int] /\ mem \in [Dom -> Int] /\ Top.fn \in Code
      /\ Top.entry \in Int /\ Contents(mem, Top, Depth) /\ Depth \in Nat /\ Top.k \in Nat
  BY <1>1, GoodTop
<1>3. /\ Top.fn \in Funcs /\ Top.to \in Calls[Top.fn] /\ StackArgs[Top.to] \in Nat
      /\ Len(Objects[Top.fn]) \in Nat /\ NSaved(Top.fn) \in Nat
  <2>1. Top.fn \in Funcs /\ Top.to \in Calls[Top.fn] BY <1>1, <1>2, BelowFacts DEF Shape
  <2> QED BY <1>2, <2>1, CallFacts, CodeFacts
<1>4. v \in Int BY <1>2 DEF Argument
<1>5. /\ a \in Activations /\ SameFrame(Top, a)
      /\ a.at = "args" /\ a.k = Top.k + 1 /\ a.to = Top.to /\ a.extra = Top.extra
  <2> DEFINE k == Top.k + 1
  <2>1. k \in Nat /\ a = [Top EXCEPT !.k = k] BY <1>2
  <2> HIDE DEF k, a
  <2>2. /\ a \in Activations /\ SameFrame(Top, a)
        /\ a.at = Top.at /\ a.k = k /\ a.to = Top.to /\ a.extra = Top.extra
    BY <1>2, <2>1 DEF Activations, SameFrame
  <2> QED BY <1>1, <2>2 DEF k
<1> HIDE DEF a, v
<1>6. /\ a.fn = Top.fn /\ a.entry = Top.entry /\ a.val = Top.val /\ a.args = Top.args
      /\ a.saved = Top.saved
  BY <1>5 DEF SameFrame
<1>7. SPAt(a) = SPAt(Top) BY <1>1, <1>5, <1>6, BelowAt DEF SPAt
<1>8. Shape(a)
  <2>1. a.k =< StackArgs[a.to] BY <1>1, <1>2, <1>3, <1>5
  <2> QED BY <1>1, <1>2, <1>5, <1>6, <1>7, <2>1 DEF Shape, Moving
<1>9. Top.entry \in Nat /\ Top.entry + Word =< StackTop /\ StackTop \in Nat
  BY <1>2, EntryPlace, NamesAssumption
<1>10. /\ at \in Int /\ at >= 0 /\ at = SPAt(Top) + Word * ((Top.k + 1) - 1)
       /\ at + Word =< Top.entry - Word * NSaved(Top.fn)
       /\ \A l \in 1..Len(Objects[Top.fn]) : at + Word =< Top.entry + Word + Offset[Top.fn][l]
  <2> DEFINE j == Top.k + 1
  <2>1. j \in 1..StackArgs[Top.to] BY <1>1, <1>2, <1>3
  <2>2. at = SPAt(Top) + Word * (j - 1) BY <1>2 DEF Word
  <2> HIDE DEF j, at
  <2>3. /\ at \in Nat /\ at + Word =< Top.entry - Word * NSaved(Top.fn)
        /\ \A l \in 1..Len(Objects[Top.fn]) : at + Word =< Top.entry + Word + Offset[Top.fn][l]
    BY <1>1, <1>2, <2>1, <2>2, OutgoingPlaces
  <2> QED BY <2>2, <2>3 DEF j
<1> DEFINE place(j) == SPAt(Top) + Word * (j - 1)
<1>11. \A j \in 1..Top.k :
         /\ place(j) \in Int /\ place(j) >= 0 /\ place(j) + Word =< at
         /\ place(j) + Word =< StackTop
  <2> SUFFICES ASSUME NEW j \in 1..Top.k
               PROVE  /\ place(j) \in Int /\ place(j) >= 0 /\ place(j) + Word =< at
                      /\ place(j) + Word =< StackTop
    OBVIOUS
  <2>1. ASSUME NEW p \in Nat, NEW k \in Nat, NEW i \in 1..k
        PROVE  p + 4 * (i - 1) \in Nat /\ p + 4 * (i - 1) + 4 =< p + 4 * k
    OBVIOUS
  <2>2. at + Word =< StackTop BY <1>3, <1>9, <1>10 DEF Word
  <2>3. place(j) \in Nat /\ place(j) + Word =< at BY <1>2, <2>1 DEF Word
  <2> HIDE DEF place, at
  <2> QED BY <1>9, <1>10, <2>2, <2>3 DEF Word
<1> HIDE DEF at
<1>12. /\ mem' \in [Dom -> Int] /\ Elsewhere(mem, mem', at, Word) /\ HoldsIn(mem', at, Word, v)
  <2>1. at + Word =< StackTop /\ Word \in Nat BY <1>3, <1>9, <1>10 DEF Word
  <2> QED BY <1>1, <1>2, <1>4, <1>10, <2>1, StoreFacts
<1>13. ASSUME NEW m, m = mem'
       PROVE  Contents(m, a, Depth) /\ Agree(mem, m, Top.entry + Word)
  <2>1. Elsewhere(mem, m, at, Word) /\ HoldsIn(m, at, Word, v) /\ Word \in Nat
    BY <1>12, <1>13 DEF Word
  <2>2. Agree(mem, m, Top.entry + Word) /\ Agree(mem, m, Top.entry - Word * NSaved(Top.fn))
    <3>1. /\ Top.entry + Word \in Int /\ at + Word =< Top.entry + Word
          /\ Top.entry - Word * NSaved(Top.fn) \in Int
      BY <1>3, <1>9, <1>10 DEF Word
    <3> QED BY <1>10, <2>1, <3>1, ElsewhereAgree
  <2>3. /\ HoldsIn(m, Top.entry, Word, ReturnTo(Depth - 1)) /\ SavedHeld(m, Top)
        /\ ArgumentsAt(m, Top.entry + Word, Top.args)
    <3>1. Top.at \in OwnPhases BY <1>1 DEF OwnPhases
    <3> QED BY <1>2, <2>2, <3>1, ContentsAbove
  <2>4. SavedHeld(m, a)
    <3>1. \A j : Slot(a, j) = Slot(Top, j) BY <1>6 DEF Slot
    <3> QED BY <1>1, <1>5, <1>6, <2>3, <3>1 DEF SavedHeld, Moving
  <2>5. ArgumentsHeld(m, a, Depth)
    <3>1. ASSUME NEW j \in 1..a.k PROVE HoldsIn(m, SPAt(a) + Word * (j - 1), Word, v)
      <4>1. CASE j = Top.k + 1 BY <1>7, <1>10, <2>1, <4>1
      <4>2. CASE j \in 1..Top.k
        <5>1. HoldsIn(mem, place(j), Word, v)
          BY <1>1, <1>2, <4>2 DEF Contents, ArgumentsHeld, v
        <5>2. /\ place(j) \in Int /\ place(j) >= 0 /\ place(j) + Word =< at
              /\ place(j) + Word =< StackTop
          BY <1>11, <4>2
        <5> DEFINE there == place(j)
        <5> HIDE DEF place, there
        <5>3. HoldsIn(mem, there, Word, v) /\ there \in Int /\ there >= 0
              /\ there + Word =< at /\ there + Word =< StackTop
          BY <5>1, <5>2 DEF there
        <5>4. HoldsIn(m, there, Word, v) BY <1>10, <2>1, <5>3, HoldsApart
        <5> QED BY <1>7, <5>4 DEF there, place
      <4> QED BY <1>2, <1>5, <4>1, <4>2
    <3> QED BY <1>6, <2>3, <3>1 DEF ArgumentsHeld, v
  <2>6. ObjectsHeld(m, a)
    <3> SUFFICES ASSUME NEW j \in 1..Len(Objects[Top.fn]), Top.val[j] # Unset
                 PROVE  HoldsIn(m, Top.entry + Word + Offset[Top.fn][j],
                                Objects[Top.fn][j].size, Top.val[j])
      BY <1>5, <1>6 DEF ObjectsHeld
    <3> DEFINE there == Top.entry + Word + Offset[Top.fn][j]
               bytes == Objects[Top.fn][j].size
               old == Top.val[j]
    <3>1. HoldsIn(mem, there, bytes, old)
      BY <1>1, <1>2 DEF Contents, ObjectsHeld, OwnPhases
    <3>2. /\ there \in Int /\ there >= 0 /\ bytes \in Nat
          /\ there + bytes =< Top.entry - Word * NSaved(Top.fn)
      BY <1>2, <1>3, ObjectPlaces
    <3>3. at + Word =< there BY <1>10
    <3> HIDE DEF there, bytes, old
    <3>4. there + bytes =< StackTop BY <1>3, <1>9, <3>2 DEF Word
    <3>5. HoldsIn(m, there, bytes, old) BY <1>10, <2>1, <3>1, <3>2, <3>3, <3>4, HoldsApart
    <3> QED BY <3>5 DEF there, bytes, old
  <2> QED BY <1>6, <2>2, <2>3, <2>4, <2>5, <2>6 DEF Contents
<1>14. Contents(mem', a, Depth) /\ Agree(mem, mem', Top.entry + Word) BY <1>13
<1>15. Clean(a, regs') BY <1>1, <1>2, <1>3, <1>5, <1>6 DEF Clean, CleanFunction
<1>16. Sound(a, Depth, mem', regs') BY <1>8, <1>14, <1>15 DEF Sound
<1>17. GoesOn(a) BY <1>6 DEF GoesOn
<1>18. regs' \in [Registers -> Int] /\ sp' = SPAt(a) BY <1>1, <1>2, <1>7
<1> QED BY <1>1, <1>12, <1>14, <1>16, <1>17, <1>18, Stepped

-----------------------------------------------------------------------------
(* Calls, interrupts and returns.                                          *)

LEMMA CallStep == ASSUME DynamicStays, Good, Call PROVE Good'
<1> DEFINE a == [Top EXCEPT !.at = "result", !.k = 0]
           args == [j \in 1..StackArgs[Top.to] |-> Argument(Depth)]
<1>1. /\ Depth > 0 /\ Top.at = "args" /\ Top.k = StackArgs[Top.to]
      /\ Enter(Top.to, a, args) /\ regs' = regs
  BY DEF Call
<1>2. /\ Top \in Activations /\ Shape(Top) /\ sp = SPAt(Top) /\ Clean(Top, regs) /\ sp \in Nat
      /\ regs \in [Registers -> Int] /\ mem \in [Dom -> Int] /\ sp =< Top.entry
      /\ Top.entry \in Int /\ Contents(mem, Top, Depth) /\ Depth \in Nat /\ Top.fn \in Code
  BY <1>1, GoodTop
<1>3. /\ Top.fn \in Funcs /\ Top.to \in Calls[Top.fn] /\ StackArgs[Top.to] \in Nat
      /\ Top.to \in Funcs /\ Top.to \in Code
  <2>1. Top.fn \in Funcs /\ Top.to \in Calls[Top.fn] BY <1>1, <1>2, BelowFacts DEF Shape
  <2> QED BY <1>2, <2>1, CallFacts
<1>4. /\ a \in Activations /\ SameFrame(Top, a)
      /\ a.at = "result" /\ a.k = 0 /\ a.to = Top.to /\ a.extra = Top.extra
  BY <1>2 DEF Activations, SameFrame, Phases
<1>5. /\ args \in Seq(Int) /\ Len(args) = StackArgs[Top.to]
      /\ \A j \in 1..Len(args) : args[j] = Argument(Depth)
  BY <1>2, <1>3 DEF Argument
<1> HIDE DEF a, args
<1>6. /\ a.fn = Top.fn /\ a.entry = Top.entry /\ a.val = Top.val /\ a.args = Top.args
      /\ a.saved = Top.saved
  BY <1>4 DEF SameFrame
<1>7. SPAt(a) = SPAt(Top) BY <1>1, <1>4, <1>6, BelowAt DEF SPAt
<1>8. Shape(a)
  BY <1>1, <1>2, <1>3, <1>4, <1>6, <1>7 DEF Shape, Moving, OwnPhases
<1>9. MovesOn(Top, a) BY <1>1, <1>4 DEF MovesOn, OwnPhases
<1>10. Contents(mem, a, Depth)
  <2>1. /\ Top.at \notin Moving /\ Top.at \in OwnPhases
        /\ a.at \notin {"spill", "args", "handler", "handled"}
    BY <1>1, <1>4 DEF Moving, OwnPhases
  <2> QED BY <1>2, <1>4, <1>8, <2>1, ContentsMove
<1>11. Clean(a, regs)
  <2>1. SameRegs(regs, regs) BY DEF SameRegs
  <2> QED BY <1>2, <1>3, <1>4, <1>8, <1>9, <2>1, CleanMove
<1>12. Sound(a, Depth, mem, regs) /\ GoesOn(a) /\ sp = SPAt(a)
  BY <1>2, <1>6, <1>7, <1>8, <1>10, <1>11 DEF Sound, GoesOn
<1>13. sp + Word * Len(args) =< StackTop
  <2>1. Top.entry + Word =< StackTop BY <1>2, EntryPlace
  <2>2. CASE StackArgs[Top.to] = 0
    BY <1>2, <1>5, <2>1, <2>2, NamesAssumption DEF Word
  <2>3. CASE StackArgs[Top.to] > 0
    <3> DEFINE j == StackArgs[Top.to]
    <3>1. j \in 1..StackArgs[Top.to] /\ j \in Nat BY <1>3, <2>3
    <3> HIDE DEF j
    <3>2. SPAt(Top) + Word * (j - 1) + Word =< Top.entry - Word * NSaved(Top.fn)
      BY <1>1, <1>2, <3>1, OutgoingPlaces
    <3>3. NSaved(Top.fn) \in Nat BY <1>2, CodeFacts
    <3>4. ASSUME NEW p \in Nat, NEW i \in Nat, NEW e \in Int, NEW n \in Nat, NEW top \in Nat,
                 p + 4 * (i - 1) + 4 =< e - 4 * n, e + 4 =< top
          PROVE  p + 4 * i =< top
      BY <3>4
    <3>5. sp + Word * j =< StackTop
      BY <1>2, <2>1, <3>1, <3>2, <3>3, <3>4, NamesAssumption DEF Word
    <3> QED BY <1>5, <3>5 DEF j
  <2> QED BY <1>3, <2>2, <2>3
<1>14. ArgumentsAt(mem, sp, args)
  <2> SUFFICES ASSUME NEW j \in 1..Len(args)
               PROVE  HoldsIn(mem, sp + Word * (j - 1), Word, args[j])
    BY DEF ArgumentsAt
  <2>1. j \in 1..Top.k /\ args[j] = Argument(Depth) BY <1>1, <1>5
  <2> QED BY <1>1, <1>2, <2>1 DEF Contents, ArgumentsHeld
<1>15. Len(args) = IF Top.to \in Funcs THEN StackArgs[Top.to] ELSE 0 BY <1>3, <1>5
<1> QED BY <1>1, <1>3, <1>5, <1>6, <1>12, <1>13, <1>14, <1>15, Began

LEMMA InterruptStep == ASSUME DynamicStays, Good, TakeInterrupt PROVE Good'
<1> DEFINE args == <<>>
<1>1. Depth > 0 /\ Enter(Ih, Top, args) /\ regs' = regs BY DEF TakeInterrupt
<1>2. /\ sp = SPAt(Top) /\ sp \in Nat /\ Sound(Top, Depth, mem, regs) /\ sp =< Top.entry
      /\ Top.entry \in Int /\ Top.entry + Word =< StackTop
  BY <1>1, GoodTop, EntryPlace
<1>3. Ih \in Code /\ Ih \notin Funcs BY NamesAssumption DEF Code
<1>4. /\ args \in Seq(Int) /\ Len(args) = 0 OBVIOUS
<1> HIDE DEF args
<1>5. ArgumentsAt(mem, sp, args) BY <1>4 DEF ArgumentsAt
<1>6. sp + Word * Len(args) =< StackTop BY <1>2, <1>4, NamesAssumption DEF Word
<1>7. GoesOn(Top) BY DEF GoesOn
<1>8. Len(args) = IF Ih \in Funcs THEN StackArgs[Ih] ELSE 0 BY <1>3, <1>4
<1> QED BY <1>1, <1>2, <1>3, <1>4, <1>5, <1>6, <1>7, <1>8, Began

LEMMA CallBodyStep == ASSUME DynamicStays, Good, CallBody PROVE Good'
<1> DEFINE a == [Top EXCEPT !.at = "handled"]
           args == <<>>
<1>1. Depth > 0 /\ Top.at = "handler" /\ Enter(IhBody, a, args) /\ regs' = regs
  BY DEF CallBody
<1>2. /\ Top \in Activations /\ Shape(Top) /\ sp = SPAt(Top) /\ sp \in Nat
      /\ Contents(mem, Top, Depth) /\ sp =< Top.entry /\ Top.entry \in Int
      /\ Top.entry + Word =< StackTop
  BY <1>1, GoodTop, EntryPlace
<1>3. /\ a \in Activations /\ SameFrame(Top, a)
      /\ a.at = "handled" /\ a.k = Top.k /\ a.to = Top.to /\ a.extra = Top.extra
  BY <1>2 DEF Activations, SameFrame, Phases
<1>4. /\ args \in Seq(Int) /\ Len(args) = 0 OBVIOUS
<1> HIDE DEF a, args
<1>5. /\ a.fn = Top.fn /\ a.entry = Top.entry /\ a.val = Top.val /\ a.args = Top.args
      /\ a.saved = Top.saved
  BY <1>3 DEF SameFrame
<1>6. Top.fn \notin Funcs BY <1>1, <1>2 DEF Shape, OwnPhases, Moving
<1>7. SPAt(a) = SPAt(Top) BY <1>1, <1>3, <1>5, BelowAt DEF SPAt
<1>8. Shape(a) BY <1>1, <1>2, <1>3, <1>5, <1>6, <1>7 DEF Shape, Moving, StubPhases
<1>9. Contents(mem, a, Depth)
  <2>1. /\ Top.at \notin Moving /\ a.at \notin OwnPhases /\ a.at \notin {"spill", "args"}
    BY <1>1, <1>3 DEF Moving, OwnPhases
  <2>2. HoldsIn(mem, a.entry - StackSize[a.fn], Word, a.saved[Flags])
    BY <1>1, <1>2, <1>5 DEF Contents, SavedHeld
  <2> QED BY <1>2, <1>3, <1>8, <2>1, <2>2, ContentsMove
<1>10. Clean(a, regs) BY <1>3, <1>5, <1>6 DEF Clean, CleanStub
<1>11. Sound(a, Depth, mem, regs) /\ GoesOn(a) /\ sp = SPAt(a)
  BY <1>2, <1>5, <1>7, <1>8, <1>9, <1>10 DEF Sound, GoesOn
<1>12. IhBody \in Funcs /\ IhBody \in Code /\ StackArgs[IhBody] = 0
  BY NamesAssumption, CodeAssumption DEF Code
<1>13. ArgumentsAt(mem, sp, args) BY <1>4 DEF ArgumentsAt
<1>14. sp + Word * Len(args) =< StackTop BY <1>2, <1>4, NamesAssumption DEF Word
<1>15. Len(args) = IF IhBody \in Funcs THEN StackArgs[IhBody] ELSE 0 BY <1>4, <1>12
<1> QED BY <1>1, <1>3, <1>4, <1>11, <1>12, <1>13, <1>14, <1>15, Began

\* An activation about to return has the stack pointer at its entry and the
\* registers it promised.
LEMMA Restored ==
  ASSUME Good, Depth > 0, AtReturn(Top)
  PROVE  /\ sp = Top.entry
         /\ Top.fn \in Funcs => \A x \in CalleeSaved \ {FP} : regs[x] = Top.saved[x]
         /\ Top.fn \notin Funcs => \A x \in Registers : regs[x] = Top.saved[x]
<1>1. /\ Top.at = "restore" /\ Top.k = NSaved(Top.fn) BY DEF AtReturn, NSaved
<1>2. /\ Top \in Activations /\ Top.entry \in Int /\ sp = SPAt(Top) /\ Clean(Top, regs)
      /\ Top.fn \in Code /\ Shape(Top)
  BY GoodTop
<1>3. NSaved(Top.fn) \in Nat /\ DOMAIN Saved[Top.fn] = 1..NSaved(Top.fn)
  BY <1>2, CodeFacts
<1>4. sp = Top.entry
  <2>1. sp = Top.entry - Word * (NSaved(Top.fn) - NSaved(Top.fn)) BY <1>1, <1>2, BelowAt DEF SPAt
  <2> QED BY <1>2, <1>3, <2>1 DEF Word
<1>5. ASSUME Top.fn \in Funcs, NEW x \in CalleeSaved \ {FP} PROVE regs[x] = Top.saved[x]
  <2>1. \A j \in 1..NSaved(Top.fn) : ~(j > Top.k) BY <1>1, <1>3
  <2> QED BY <1>1, <1>2, <1>5, <2>1 DEF Clean, CleanFunction
<1>6. ASSUME Top.fn \notin Funcs, NEW x \in Registers PROVE regs[x] = Top.saved[x]
  <2>1. Top.fn = Ih BY <1>2, <1>6, StubFacts
  <2>2. /\ regs[Flags] = Top.saved[Flags]
        /\ \A j \in 1..NSaved(Top.fn) : regs[Saved[Top.fn][j]] = Top.saved[Saved[Top.fn][j]]
    BY <1>1, <1>2, <1>6 DEF Clean, CleanStub
  <2>3. CASE x = Flags BY <2>2, <2>3
  <2>4. CASE x \in Regs
    <3>1. PICK j \in DOMAIN Saved[Ih] : Saved[Ih][j] = x BY <2>4, CodeAssumption
    <3> QED BY <1>3, <2>1, <2>2, <3>1
  <2> QED BY <2>3, <2>4 DEF Registers
<1> QED BY <1>4, <1>5, <1>6

\* The caller goes on where it was, and is as clean as it was.
LEMMA ReturnStep == ASSUME DynamicStays, Good, Return PROVE Good'
<1>1. /\ Depth > 0 /\ AtReturn(Top) /\ sp' = sp + Word /\ regs' = regs /\ mem' = mem
      /\ stack' = SubSeq(stack, 1, Depth - 1)
  BY DEF Return, AtReturn
<1>2. /\ Depth \in Nat /\ Depth \in 1..Depth /\ Shape(Top) /\ Top.entry \in Int
      /\ Top.fn \in Code /\ Top \in Activations /\ regs \in [Registers -> Int]
  BY <1>1, GoodTop
<1>3. /\ stack \in Seq(Activations) /\ StackInv(stack, mem, regs, sp) /\ mem \in [Dom -> Int]
  BY DEF Good
<1>4. /\ sp = Top.entry
      /\ Top.fn \in Funcs => \A x \in CalleeSaved \ {FP} : regs[x] = Top.saved[x]
      /\ Top.fn \notin Funcs => \A x \in Registers : regs[x] = Top.saved[x]
  BY <1>1, Restored
<1> DEFINE s == SubSeq(stack, 1, Depth - 1)
<1>5. /\ s \in Seq(Activations) /\ Len(s) = Depth - 1
      /\ \A d \in 1..(Depth - 1) : s[d] = stack[d]
  <2> DEFINE n == Depth - 1
  <2>1. n \in Nat /\ 1 \in Int /\ n \in Int BY <1>1, <1>2
  <2>2. \A i \in 1..n : stack[i] \in Activations
    <3>1. \A i \in 1..n : i \in 1..Len(stack) BY <1>2 DEF Depth
    <3> QED BY <1>3, <3>1, ElementOfSeq
  <2>3. s = SubSeq(stack, 1, n) OBVIOUS
  <2> HIDE DEF n, s
  <2>4. /\ s \in Seq(Activations) /\ Len(s) = IF 1 <= n THEN n - 1 + 1 ELSE 0
        /\ \A i \in 1..(n - 1 + 1) : s[i] = stack[1 + i - 1]
    BY <2>1, <2>2, <2>3, SubSeqProperties
  <2>5. Len(s) = n /\ \A i \in 1..n : s[i] = stack[i] BY <2>1, <2>4
  <2> QED BY <2>4, <2>5 DEF n
<1>6. stack' = s BY <1>1
<1> HIDE DEF s
<1>7. \A d \in 1..(Depth - 1) :
        /\ Shape(stack[d]) /\ Contents(mem, stack[d], d) /\ Clean(stack[d], stack[d + 1].saved)
  BY <1>1, <1>3, OuterFacts
<1>8. Nested(stack) BY <1>3 DEF StackInv
<1>9. ASSUME Depth > 1
      PROVE  /\ Top.entry + Word = SPAt(stack[Depth - 1])
             /\ Clean(stack[Depth - 1], regs)
  <2> DEFINE e == Depth - 1
             c == stack[e]
  <2>1. e \in 1..(Depth - 1) /\ e + 1 = Depth BY <1>2, <1>9
  <2>2. /\ stack[e + 1].entry + Word = SPAt(stack[e])
        /\ stack[e].fn \notin Funcs /\ stack[e + 1].fn \in Funcs => stack[e].at = "handled"
    BY <1>8, <2>1 DEF Nested, Depth
  <2>3. /\ Top.entry + Word = SPAt(c)
        /\ c.fn \notin Funcs /\ Top.fn \in Funcs => c.at = "handled"
    BY <2>1, <2>2 DEF Top
  <2>4. Clean(c, Top.saved) BY <1>7, <2>1 DEF Top
  <2> HIDE DEF c
  <2>5. Clean(c, regs)
    <3>1. CASE Top.fn \notin Funcs
      <4>1. Top.saved \in [Registers -> Int] BY <1>2, ActivationTypes
      <4>2. regs = Top.saved BY <1>2, <1>4, <3>1, <4>1
      <4> QED BY <2>4, <4>2
    <3>2. CASE Top.fn \in Funcs /\ c.fn \in Funcs
      BY <1>4, <2>4, <3>2 DEF Clean, CleanFunction
    <3>3. CASE Top.fn \in Funcs /\ c.fn \notin Funcs
      BY <2>3, <3>3 DEF Clean, CleanStub
    <3> QED BY <3>1, <3>2, <3>3
  <2> QED BY <2>3, <2>5 DEF c
<1>10. ASSUME NEW d \in 1..(Depth - 1) PROVE Sound(s[d], d, mem, RegsOf(s, d, regs))
  <2>1. CASE d = Depth - 1
    <3>1. RegsOf(s, d, regs) = regs BY <1>5, <2>1 DEF RegsOf
    <3>2. Depth > 1 BY <1>2, <1>10, <2>1
    <3> QED BY <1>5, <1>7, <1>9, <2>1, <3>1, <3>2 DEF Sound
  <2>2. CASE d # Depth - 1
    <3>1. d + 1 \in 1..(Depth - 1) BY <1>2, <2>2
    <3>2. RegsOf(s, d, regs) = stack[d + 1].saved BY <1>5, <2>2, <3>1 DEF RegsOf
    <3> QED BY <1>5, <1>7, <3>2 DEF Sound
  <2> QED BY <2>1, <2>2
<1>11. Nested(s)
  <2>1. ASSUME NEW d \in 1..(Depth - 1), NEW e \in 1..(Depth - 1), d < e
        PROVE  s[e].entry + Word =< SPAt(s[d])
    <3>1. d \in 1..Depth /\ e \in 1..Depth BY <1>2
    <3> QED BY <1>5, <1>8, <2>1, <3>1 DEF Nested, Depth
  <2>2. ASSUME NEW d \in 1..(Depth - 1 - 1)
        PROVE  /\ s[d + 1].entry + Word = SPAt(s[d])
               /\ s[d].fn \notin Funcs /\ s[d + 1].fn \in Funcs => s[d].at = "handled"
    <3>1. d \in 1..(Depth - 1) /\ d + 1 \in 1..(Depth - 1) BY <1>2
    <3> QED BY <1>5, <1>8, <3>1 DEF Nested, Depth
  <2> QED BY <1>5, <2>1, <2>2 DEF Nested
<1>12. Len(s) > 0 => sp' = SPAt(s[Len(s)])
  <2> SUFFICES ASSUME Len(s) > 0 PROVE sp' = SPAt(s[Len(s)]) OBVIOUS
  <2>1. Depth > 1 /\ Len(s) \in 1..(Depth - 1) /\ Len(s) = Depth - 1 BY <1>2, <1>5
  <2> QED BY <1>1, <1>4, <1>5, <1>9, <2>1
<1>13. StackInv(s, mem, regs, sp') BY <1>5, <1>10, <1>11, <1>12 DEF StackInv
<1>14. sp' \in 0..StackTop
  <2>1. Top.entry \in Nat /\ Top.entry + Word =< StackTop BY <1>2, EntryPlace
  <2> QED BY <1>1, <1>4, <2>1, NamesAssumption DEF Word
<1> QED BY <1>1, <1>2, <1>3, <1>5, <1>6, <1>13, <1>14 DEF Good

-----------------------------------------------------------------------------
(* The theorems.                                                           *)

LEMMA InitHolds == ASSUME Init PROVE Good /\ ie0 \in BOOLEAN
<1> DEFINE entry == StackTop - Word
           args == <<>>
           b == Activation(Main, entry, args)
<1>1. /\ regs = [r \in Registers |-> Unset] /\ sp = entry /\ stack = <<b>> /\ ie0 = TRUE
      /\ mem = [c \in Dom |-> IF c >= entry THEN ReturnTo(0) ELSE Unset]
      /\ entry - StackSize[Main] >= 0
  BY DEF Init, Dom
<1>2. /\ Main \in Code /\ Main \in Funcs /\ StackArgs[Main] = 0 /\ StackTop \in Nat
      /\ StackSize[Main] \in Nat
  BY NamesAssumption, CodeAssumption, CodeFacts DEF Code
<1>3. /\ regs \in [Registers -> Int] /\ mem \in [Dom -> Int]
  BY <1>1 DEF Unset, ReturnTo
<1>4. entry \in Nat /\ entry + Word = StackTop /\ StackSize[Main] =< entry
  BY <1>1, <1>2 DEF Word
<1>5. args \in Seq(Int) /\ Len(args) = 0 OBVIOUS
<1>6. b = Activation(Main, entry, args) OBVIOUS
<1> HIDE DEF entry, args, b
<1>7. HoldsIn(mem, entry, Word, ReturnTo(1 - 1))
  <2>1. ASSUME NEW c \in 0..(Word - 1) PROVE entry + c \in Dom /\ entry + c >= entry
    BY <1>2, <1>4 DEF Dom, Word
  <2> QED BY <1>1, <2>1 DEF HoldsIn
<1>8. ArgumentsAt(mem, entry + Word, args) BY <1>5 DEF ArgumentsAt
<1>9. /\ Len(args) = IF Main \in Funcs THEN StackArgs[Main] ELSE 0
      /\ entry + Word + Word * Len(args) =< StackTop
  BY <1>2, <1>4, <1>5 DEF Word
<1>10. Sound(b, 1, mem, regs) /\ SPAt(b) = entry
  <2>1. Sound(b, 1, mem, regs) BY <1>2, <1>3, <1>4, <1>5, <1>6, <1>7, <1>8, <1>9, NewActivation
  <2>2. SPAt(b) = entry BY <1>2, <1>4, <1>6, NewFields
  <2> QED BY <2>1, <2>2
<1>11. b \in Activations BY <1>10 DEF Sound, Shape
<1>12. stack \in Seq(Activations) /\ Len(stack) = 1 /\ stack[1] = b BY <1>1, <1>11
<1>13. StackInv(stack, mem, regs, sp)
  <2>1. ASSUME NEW d \in 1..Len(stack) PROVE Sound(stack[d], d, mem, RegsOf(stack, d, regs))
    <3>1. d = 1 BY <1>12
    <3> QED BY <1>10, <1>12, <3>1 DEF RegsOf
  <2>2. Nested(stack) BY <1>12 DEF Nested
  <2>3. sp = SPAt(stack[Len(stack)]) BY <1>1, <1>10, <1>12
  <2> QED BY <2>1, <2>2, <2>3 DEF StackInv
<1>14. sp \in 0..StackTop BY <1>1, <1>2, <1>4 DEF Word
<1> QED BY <1>1, <1>3, <1>12, <1>13, <1>14 DEF Good

LEMMA Preservation ==
  ASSUME DynamicStays, Good, ie0 \in BOOLEAN, [Next]_vars
  PROVE  Good' /\ ie0' \in BOOLEAN
<1>1. CASE PushRegister BY <1>1, PushRegisterStep DEF PushRegister
<1>2. CASE EmitPrologue BY <1>2, PrologueStep DEF EmitPrologue
<1>3. ASSUME NEW r \in Registers, WriteRegister(r) PROVE Good' /\ ie0' \in BOOLEAN
  BY <1>3, WriteRegisterStep DEF WriteRegister
<1>4. ASSUME NEW j \in UNION {DOMAIN Objects[f] : f \in Funcs}, WriteObject(j)
      PROVE  Good' /\ ie0' \in BOOLEAN
  BY <1>4, WriteObjectStep DEF WriteObject
<1>5. CASE Alloca BY <1>5, AllocaStep DEF Alloca
<1>6. ASSUME NEW g \in Funcs, BeginCall(g) PROVE Good' /\ ie0' \in BOOLEAN
  BY <1>6, BeginCallStep DEF BeginCall
<1>7. CASE StoreArgument BY <1>7, StoreArgumentStep DEF StoreArgument
<1>8. CASE Call BY <1>8, CallStep DEF Call
<1>9. CASE EndCall BY <1>9, EndCallStep DEF EndCall
<1>10. CASE EmitEpilogue BY <1>10, EpilogueStep DEF EmitEpilogue
<1>11. CASE PopRegister BY <1>11, PopRegisterStep DEF PopRegister
<1>12. CASE Return
  <2>1. Good' BY <1>12, ReturnStep
  <2>2. ie0' = (ie0 \/ Top.fn = Ih) BY <1>12 DEF Return
  <2> QED BY <2>1, <2>2
<1>13. CASE TakeInterrupt BY <1>13, InterruptStep DEF TakeInterrupt
<1>14. CASE ReadFlags BY <1>14, ReadFlagsStep DEF ReadFlags
<1>15. CASE PushFlags BY <1>15, PushFlagsStep DEF PushFlags
<1>16. CASE CallBody BY <1>16, CallBodyStep DEF CallBody
<1>17. CASE PopFlags BY <1>17, PopFlagsStep DEF PopFlags
<1>18. CASE WriteFlags BY <1>18, WriteFlagsStep DEF WriteFlags
<1>19. CASE UNCHANGED vars BY <1>19 DEF vars, Good
<1> QED BY <1>1, <1>2, <1>3, <1>4, <1>5, <1>6, <1>7, <1>8, <1>9, <1>10, <1>11, <1>12,
           <1>13, <1>14, <1>15, <1>16, <1>17, <1>18, <1>19 DEF Next

LEMMA Implied == (Good /\ ie0 \in BOOLEAN) <=> IInv
<1>1. ASSUME StackInv(stack, mem, regs, sp), stack \in Seq(Activations)
      PROVE  \A d \in DOMAIN stack : Len(stack[d].val) = Len(Objects[stack[d].fn])
  BY <1>1 DEF StackInv, Sound, Shape
<1> QED BY <1>1 DEF Good, IInv, TypeOK, Dom

(* Every activation on the stack is sound with the memory and with the     *)
(* registers it will go on with, and lies above those it called or that    *)
(* interrupted it: spillCalleeSavedRegisters() to iret, one instruction at *)
(* a time.                                                                 *)
THEOREM InductiveInvariant == ASSUME DynamicStays PROVE Spec => []IInv
<1>1. Init => IInv BY InitHolds, Implied
<1>2. IInv /\ [Next]_vars => IInv'
  <2> SUFFICES ASSUME IInv, [Next]_vars PROVE IInv' OBVIOUS
  <2>1. Good' /\ ie0' \in BOOLEAN BY Preservation, Implied
  <2>2. ((Good /\ ie0 \in BOOLEAN) <=> IInv)' BY Implied, PTL
  <2> QED BY <2>1, <2>2
<1> QED BY <1>1, <1>2, PTL DEF Spec

(* The stack pointer stays in the stack that boot gave out, whatever is    *)
(* called, and every word of memory and register has a value of its type.  *)
THEOREM TypeCorrect == ASSUME DynamicStays PROVE Spec => []TypeOK
<1>1. IInv => TypeOK BY DEF IInv
<1> QED BY <1>1, InductiveInvariant, PTL

\* The return address under the stack pointer of an activation that returns
LEMMA ReturnAddress ==
  ASSUME Good, Depth > 0, AtReturn(Top)
  PROVE  sp = Top.entry /\ Holds(sp, Word, ReturnTo(Depth - 1))
<1>1. sp = Top.entry BY Restored
<1>2. HoldsIn(mem, Top.entry, Word, ReturnTo(Depth - 1)) BY GoodTop DEF Contents
<1> QED BY <1>1, <1>2 DEF Holds, HoldsIn

(* restoreCalleeSavedRegisters() and emitEpilogue() give the caller back   *)
(* the callee saved registers but FP, its stack pointer and the place it   *)
(* called from.                                                            *)
THEOREM RegistersRestored == ASSUME DynamicStays PROVE Spec => []CalleeSavedRestored
<1>1. IInv => CalleeSavedRestored
  BY Implied, Restored, ReturnAddress DEF CalleeSavedRestored
<1> QED BY <1>1, InductiveInvariant, PTL

(* iret of boot.S leaves every register, the flags and the stack pointer   *)
(* as the interrupt found them.                                            *)
THEOREM InterruptsTransparent == ASSUME DynamicStays PROVE Spec => []InterruptTransparent
<1>1. IInv => InterruptTransparent
  <2> SUFFICES ASSUME IInv, Depth > 0, AtReturn(Top), Top.fn = Ih
               PROVE  /\ sp = Top.entry /\ Holds(sp, Word, ReturnTo(Depth - 1))
                      /\ \A r \in Registers : regs[r] = Top.saved[r]
    BY DEF InterruptTransparent
  <2>1. Good BY Implied
  <2>2. Top.fn \notin Funcs BY NamesAssumption
  <2> QED BY <2>1, <2>2, Restored, ReturnAddress
<1> QED BY <1>1, InductiveInvariant, PTL

(* What a function wrote to its stack objects is there for it to read      *)
(* through eliminateFrameIndex(), after any calls and interrupts.          *)
THEOREM ObjectsSafe == ASSUME DynamicStays PROVE Spec => []ObjectsKept
<1>1. IInv => ObjectsKept
  <2> SUFFICES ASSUME IInv, Depth > 0, Top.at = "body", Top.fn \in Funcs,
                      NEW j \in DOMAIN Top.val, Top.val[j] # Unset
               PROVE  Holds(FrameIndexAddr(sp, Offset[Top.fn][j], StackSize[Top.fn]),
                            Objects[Top.fn][j].size, Top.val[j])
    BY DEF ObjectsKept
  <2>1. Good BY Implied
  <2>2. /\ Shape(Top) /\ Contents(mem, Top, Depth) /\ Top \in Activations
    BY <2>1, GoodTop
  <2>3. j \in 1..Len(Objects[Top.fn])
    <3>1. Top.val \in Seq(Int) /\ Len(Top.val) = Len(Objects[Top.fn])
      BY <2>2, ActivationTypes DEF Shape
    <3> QED BY <3>1
  <2>4. HoldsIn(mem, Top.entry + Word + Offset[Top.fn][j], Objects[Top.fn][j].size, Top.val[j])
    BY <2>2, <2>3 DEF Contents, ObjectsHeld, OwnPhases
  <2>5. FrameIndexAddr(sp, Offset[Top.fn][j], StackSize[Top.fn])
          = Top.entry + Word + Offset[Top.fn][j]
    BY <2>1, <2>3, ObjectAddress
  <2> QED BY <2>4, <2>5 DEF Holds, HoldsIn
<1> QED BY <1>1, InductiveInvariant, PTL

(* The words that LowerCCCCallTo() stored are what LowerCCCArguments()     *)
(* finds, for as long as the called function runs.                         *)
THEOREM ArgumentsSafe == ASSUME DynamicStays PROVE Spec => []ArgumentsArrive
<1>1. IInv => ArgumentsArrive
  <2> SUFFICES ASSUME IInv, Depth > 0, Top.at = "body", Top.fn \in Funcs,
                      NEW j \in DOMAIN Top.args
               PROVE  Holds(FrameIndexAddr(sp, Word * (j - 1), StackSize[Top.fn]), Word, Top.args[j])
    BY DEF ArgumentsArrive
  <2>1. Good BY Implied
  <2>2. /\ Shape(Top) /\ Contents(mem, Top, Depth) /\ Top \in Activations /\ Top.entry \in Int
    BY <2>1, GoodTop
  <2>3. /\ Top.args \in Seq(Int) /\ j \in 1..Len(Top.args) /\ Len(Top.args) = StackArgs[Top.fn]
    BY <2>2, ActivationTypes DEF Shape
  <2>4. Top.fn \notin Dynamic BY <2>3 DEF DynamicStays
  <2>5. HoldsIn(mem, (Top.entry + Word) + Word * (j - 1), Word, Top.args[j])
    BY <2>2, <2>3 DEF Contents, ArgumentsHeld, ArgumentsAt
  <2>6. Word * (j - 1) \in Int BY <2>3 DEF Word
  <2>7. FrameIndexAddr(sp, Word * (j - 1), StackSize[Top.fn])
          = Top.entry + Word + Word * (j - 1)
    BY <2>1, <2>4, <2>6, FrameAddress
  <2> QED BY <2>5, <2>7 DEF Holds, HoldsIn
<1> QED BY <1>1, InductiveInvariant, PTL
=============================================================================
