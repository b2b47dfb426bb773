---------------------------- MODULE CondLowering ----------------------------
(***************************************************************************)
(* From an integer comparison of the selection DAG to Guc code: the        *)
(* combiner brings it to canonical form (SimplifySetCC), GucISelLowering   *)
(* chooses a CMP and a condition code (EmitCMP) and, for a value, a bit of *)
(* the flags register (LowerSETCC); branch folding may then reverse a      *)
(* conditional branch (ReverseBranchCondition) any number of times; the    *)
(* code runs with register values nobody knew when it was chosen.          *)
(*                                                                         *)
(* A branch starts as a BRCOND on a SETCC, which the combiner may rewrite  *)
(* or fold like any other until it makes the two one BR_CC.  A BR_CC is    *)
(* rewritten but never folded, as the graph of blocks would have to        *)
(* change: it goes to EmitCMP also when it is always or never taken.       *)
(*                                                                         *)
(* Values are words of 2 * Half, two's complement.  The flags CMP and AND  *)
(* set are the processor's.  SimplifySetCC's rules for particular left     *)
(* operands (ctlz, xor, loads) are left out.                               *)
(***************************************************************************)
EXTENDS Integers, CondCodes

CONSTANT Half   \* 2^31 in the source

ASSUME HalfAssumption == Half \in Nat \ {0, 1}

Word == 0..(2 * Half - 1)
Signed(w) == IF w < Half THEN w ELSE w - 2 * Half
Number(signed, w) == IF signed THEN Signed(w) ELSE w
\* Fault variant of Add: arithmetic that does not wrap
AddUnbounded(w, n) == w + n

Add(w, n) == (w + n) % (2 * Half)

(* An ISD::CondCode is a relation and, for the ordered ones, a signedness. *)
Relations == {"EQ", "NE", "LT", "LE", "GT", "GE"}
Equalities == {"EQ", "NE"}
CondCodes == {cc \in [rel : Relations, signed : BOOLEAN] :
                cc.rel \in Equalities => ~cc.signed}

Compare(cc, a, b) ==
  LET x == Number(cc.signed, a)
      y == Number(cc.signed, b)
  IN \/ cc.rel \in {"EQ", "LE", "GE"} /\ x = y
     \/ cc.rel \in {"NE", "LT", "LE"} /\ x < y
     \/ cc.rel \in {"NE", "GT", "GE"} /\ x > y

(* An operand: a constant, a register, or the result of an AND with no     *)
(* other use.  A node compares two operands, not both constants.           *)
Const(w) == [kind |-> "const", val |-> w]
X == [kind |-> "reg", val |-> 0]
XAnd == [kind |-> "and", val |-> 0]
Y == [kind |-> "reg", val |-> 1]
Constants == {Const(w) : w \in Word}
Operands == Constants \cup {X, XAnd, Y}
IsConst(o) == o.kind = "const"

Node(cc, l, r) == [cc |-> cc, lhs |-> l, rhs |-> r]
Nodes == {Node(cc, l, r) : cc \in CondCodes, l \in {X, XAnd}, r \in Constants \cup {Y}}
         \cup {Node(cc, l, X) : cc \in CondCodes, l \in Constants}

\* An operand's value when registers x and y hold regs[0] and regs[1]
Value(o, regs) == IF IsConst(o) THEN o.val ELSE regs[o.val]
Meaning(n, regs) == Compare(n.cc, Value(n.lhs, regs), Value(n.rhs, regs))

-----------------------------------------------------------------------------
(* TargetLowering::SimplifySetCC, one rewriting.                           *)

\* Fault variant of Mirror: the opposite relation
Negate(rel) ==
  CASE rel = "LT" -> "GE" [] rel = "GE" -> "LT"
    [] rel = "LE" -> "GT" [] rel = "GT" -> "LE"
    [] OTHER -> rel

Mirror(rel) ==
  CASE rel = "LT" -> "GT" [] rel = "GT" -> "LT"
    [] rel = "LE" -> "GE" [] rel = "GE" -> "LE"
    [] OTHER -> rel

Lowest(cc) == IF cc.signed THEN Half ELSE 0
Highest(cc) == IF cc.signed THEN Half - 1 ELSE 2 * Half - 1

\* Comparisons with the extreme the relation cannot miss or cannot reach
AlwaysTrue(n) ==
  /\ IsConst(n.rhs)
  /\ \/ n.cc.rel = "GE" /\ n.rhs.val = Lowest(n.cc)
     \/ n.cc.rel = "LE" /\ n.rhs.val = Highest(n.cc)
AlwaysFalse(n) ==
  /\ IsConst(n.rhs)
  /\ \/ n.cc.rel = "LT" /\ n.rhs.val = Lowest(n.cc)
     \/ n.cc.rel = "GT" /\ n.rhs.val = Highest(n.cc)
Decided(n) == AlwaysTrue(n) \/ AlwaysFalse(n)

Rel(n, rel, w) == Node([n.cc EXCEPT !.rel = rel], n.lhs, Const(w))
Equality(n, rel, w) == Node([rel |-> rel, signed |-> FALSE], n.lhs, Const(w))

\* Fault variant of WithConstant: GT is made GE as GE is made GT.
WithConstantBothWays(n) ==
  IF n.cc.rel = "GE" THEN Rel(n, "GT", Add(n.rhs.val, -1))
  ELSE IF n.cc.rel = "GT" THEN Rel(n, "GE", Add(n.rhs.val, 1)) ELSE n

\* The rules for an ordered comparison with constant c, the first that applies
WithConstant(n) ==
  LET rel == n.cc.rel
      c == n.rhs.val
      lowest == Lowest(n.cc)
      highest == Highest(n.cc)
  IN IF rel = "GE" THEN Rel(n, "GT", Add(c, -1))
     ELSE IF rel = "LE" THEN Rel(n, "LT", Add(c, 1))
     ELSE IF rel = "GT" /\ c = lowest THEN Equality(n, "NE", c)
     ELSE IF rel = "LT" /\ c = highest THEN Equality(n, "NE", c)
     ELSE IF rel = "LT" /\ c = Add(lowest, 1) THEN Equality(n, "EQ", lowest)
     ELSE IF rel = "GT" /\ c = Add(highest, -1) THEN Equality(n, "EQ", highest)
     ELSE IF n.cc = [rel |-> "GT", signed |-> FALSE] /\ c = Half - 1
     THEN Node([rel |-> "LT", signed |-> TRUE], n.lhs, Const(0))
     ELSE IF n.cc = [rel |-> "LT", signed |-> FALSE] /\ c = Half
     THEN Node([rel |-> "GT", signed |-> TRUE], n.lhs, Const(2 * Half - 1))
     ELSE n

Simplify(n) ==
  IF IsConst(n.lhs) THEN Node([n.cc EXCEPT !.rel = Mirror(@)], n.rhs, n.lhs)
  ELSE IF IsConst(n.rhs) /\ n.cc.rel \notin Equalities THEN WithConstant(n) ELSE n

-----------------------------------------------------------------------------
(* EmitCMP.                                                                *)

\* Fault variant of Less: LO taken for "lower"
LessByName(signed) == IF signed THEN "L" ELSE "LO"

\* Borrow and sign after CMP, each with its opposite
Less(signed) == IF signed THEN "L" ELSE "HS"
NotLess(signed) == IF signed THEN "GE" ELSE "LO"

\* LE and GT are GE and LT with the operands swapped.  A constant on the
\* left changes sides: C >= r is r < C + 1, C < r is r >= C + 1.
EmitCMP(n) ==
  LET swap == \/ n.cc.rel \in {"LE", "GT"}
              \/ n.cc.rel \in Equalities /\ IsConst(n.lhs)
      l == IF swap THEN n.rhs ELSE n.lhs
      r == IF swap THEN n.lhs ELSE n.rhs
      strict == n.cc.rel \in {"LT", "GT"}
  IN IF n.cc.rel \in Equalities
     THEN [lhs |-> l, rhs |-> r, tcc |-> IF n.cc.rel = "EQ" THEN "E" ELSE "NE"]
     ELSE IF IsConst(l)
     THEN [lhs |-> r, rhs |-> Const(Add(l.val, 1)),
           tcc |-> IF strict THEN NotLess(n.cc.signed) ELSE Less(n.cc.signed)]
     ELSE [lhs |-> l, rhs |-> r,
           tcc |-> IF strict THEN Less(n.cc.signed) ELSE NotLess(n.cc.signed)]

(* LowerSETCC: where the value of a comparison comes from.  The test on a  *)
(* left operand that is an AND looks at the node before EmitCMP swaps it.  *)
AndCC(n) == n.lhs.kind = "and" /\ n.rhs = Const(0)

FlagBit(n, tcc) ==
  CASE tcc = "HS" -> [bit |-> "c", invert |-> FALSE]
    [] tcc = "LO" -> [bit |-> "c", invert |-> TRUE]
    [] tcc = "NE" /\ AndCC(n) -> [bit |-> "c", invert |-> FALSE]
    [] tcc = "NE" /\ ~AndCC(n) -> [bit |-> "z", invert |-> TRUE]
    [] tcc = "E" -> [bit |-> "z", invert |-> FALSE]

Converts(tcc) == tcc \notin {"L", "GE"}

\* The flags the processor's CMP sets
Flags(a, b) == [c |-> a < b, z |-> a = b, l |-> Signed(a) < Signed(b)]

-----------------------------------------------------------------------------
VARIABLES
  pc,      \* where the comparison is
  op,      \* what it is part of: a SETCC, one with a BRCOND, BR_CC or SELECT_CC
  source,  \* the comparison of the program
  node,    \* what the combiner has made of it
  code,    \* the operands and the condition code EmitCMP chose
  taken,   \* the branch goes to the true block (or to the other one)
  regs,    \* the registers when the code runs
  result   \* the condition the code acted on

vars == <<pc, op, source, node, code, taken, regs, result>>

Init ==
  /\ pc = "combine"
  /\ op \in {"BRCOND", "SETCC", "SELECT_CC"}
  /\ source \in Nodes /\ node = source
  /\ code = [lhs |-> X, rhs |-> Y, tcc |-> "E"]
  /\ taken = TRUE
  /\ regs = [v \in 0..1 |-> 0] /\ result = FALSE

\* One rewriting, by visitSETCC, visitSELECT_CC or visitBR_CC
Combine ==
  /\ pc = "combine"
  /\ ~Decided(node) /\ Simplify(node) # node
  /\ node' = Simplify(node)
  /\ UNCHANGED <<pc, op, source, code, taken, regs, result>>

\* visitBRCOND: the branch takes over the operands of its SETCC.
MakeBranch ==
  /\ pc = "combine" /\ op = "BRCOND"
  /\ op' = "BR_CC"
  /\ UNCHANGED <<pc, source, node, code, taken, regs, result>>

\* visitSETCC and visitSELECT_CC: the comparison is replaced by a constant.
Fold ==
  /\ pc = "combine" /\ op # "BR_CC" /\ Decided(node)
  /\ result' = AlwaysTrue(node)
  /\ regs' \in [0..1 -> Word]
  /\ pc' = "done"
  /\ UNCHANGED <<op, source, node, code, taken>>

\* LowerBR_CC, LowerSETCC, LowerSELECT_CC, once the combiner has no more to do
Lower ==
  /\ pc = "combine" /\ op # "BRCOND"
  /\ IF Decided(node) THEN op = "BR_CC" ELSE Simplify(node) = node
  /\ code' = EmitCMP(node)
  /\ pc' = IF op = "SETCC" /\ Converts(code'.tcc) THEN "bit" ELSE "branch"
  /\ UNCHANGED <<op, source, node, taken, regs, result>>

\* Branch folding reverses the condition and exchanges the two blocks.
ReverseBranch ==
  /\ pc = "branch"
  /\ code' = [code EXCEPT !.tcc = Reverse(@)]
  /\ taken' = ~taken
  /\ UNCHANGED <<pc, op, source, node, regs, result>>

\* CMP and JCC, of a branch or of the diamond of a select
RunBranch ==
  /\ pc = "branch"
  /\ regs' \in [0..1 -> Word]
  /\ result' = (taken <=> Holds(code.tcc, Flags(Value(code.lhs, regs'), Value(code.rhs, regs'))))
  /\ pc' = "done"
  /\ UNCHANGED <<op, source, node, code, taken>>

\* CMP, XBIT and perhaps XOR
RunBit ==
  /\ pc = "bit"
  /\ regs' \in [0..1 -> Word]
  /\ LET from == FlagBit(node, code.tcc)
     IN result' = (Flags(Value(code.lhs, regs'), Value(code.rhs, regs'))[from.bit] # from.invert)
  /\ pc' = "done"
  /\ UNCHANGED <<op, source, node, code, taken>>

Next == Combine \/ MakeBranch \/ Fold \/ Lower \/ ReverseBranch \/ RunBranch \/ RunBit

Spec == Init /\ [][Next]_vars
FairSpec == Spec /\ WF_vars(Combine \/ MakeBranch \/ Fold \/ Lower)
-----------------------------------------------------------------------------
(* Properties.                                                             *)

Registers == [0..1 -> Word]

(* Every variable has its type; only the value of a comparison is read off *)
(* a flag bit, and only a code that FlagBit handles.                       *)
TypeOK ==
  /\ pc \in {"combine", "branch", "bit", "done"}
  /\ op \in {"BRCOND", "BR_CC", "SETCC", "SELECT_CC"}
  /\ source \in Nodes /\ node \in Nodes
  /\ code \in [lhs : Operands, rhs : Operands, tcc : Codes]
  /\ taken \in BOOLEAN /\ regs \in Registers /\ result \in BOOLEAN
  /\ pc = "bit" => op = "SETCC" /\ Converts(code.tcc)

(* Every rewriting of the combiner keeps the comparison's truth for all    *)
(* register values, also where C1-1 and C1+1 meet the ends of the range    *)
(* and where an unsigned comparison becomes a signed one.                  *)
CombineKeepsMeaning ==
  \A r \in Registers : Meaning(node, r) <=> Meaning(source, r)

\* A value that LowerSETCC takes from the carry because the left operand is
\* an AND, as if no CMP were generated
FromAndCarry == op = "SETCC" /\ AndCC(node) /\ code.tcc = "NE"

\* A branch on x > C or x <= C with the highest C: EmitCMP moves C to the
\* left to have it on the right again as C + 1, which wraps.
Wraps(n) == n.cc.rel \in {"GT", "LE"} /\ n.rhs = Const(Highest(n.cc))
ExtremeBranch == op = "BR_CC" /\ Wraps(node)

(* Whatever the registers hold, the code branches, selects or yields 1     *)
(* exactly when the comparison of the program is true, however often the   *)
(* branch was reversed; but for a value taken from an AND's carry and for  *)
(* a branch on the highest constant.                                       *)
ConditionKept ==
  pc = "done" /\ ~FromAndCarry /\ ~ExtremeBranch => (result <=> Meaning(source, regs))

(* The same of a branch on the highest constant: the comments of EmitCMP   *)
(* say that C >= x is turned into x < C+1.                                 *)
ExtremeBranchKept ==
  pc = "done" /\ ExtremeBranch => (result <=> Meaning(source, regs))

(* The same of a value that is taken from an AND's carry: the comment in   *)
(* LowerSETCC has it that the carry is then the complement of Z.           *)
AndCarryIsNotZero ==
  pc = "done" /\ FromAndCarry => (result <=> Meaning(source, regs))

(* The combiner's rules do not undo each other: each comparison gets to    *)
(* the lowering, or is folded to a constant.                               *)
CombinerStops == <>(pc # "combine")
=============================================================================
