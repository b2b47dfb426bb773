------------------------ MODULE CondLowering_proofs -------------------------
(***************************************************************************)
(* Proofs about CondLowering, for words of every size: the combiner and    *)
(* the lowering keep the comparison's meaning.  The steps are the lemmas   *)
(* on Add and Signed (where the ends of the range are), on one rewriting   *)
(* of SimplifySetCC, on EmitCMP of a node that no rule rewrites, and on    *)
(* ReverseBranchCondition; the invariant puts them together.               *)
(***************************************************************************)
EXTENDS CondLowering, TLAPS

(* Reversing a condition negates it, whatever the flags.                   *)
LEMMA ReverseNegates ==
  ASSUME NEW tcc \in Codes, NEW f \in [c : BOOLEAN, z : BOOLEAN, l : BOOLEAN]
  PROVE  Reverse(tcc) \in Codes /\ (Holds(Reverse(tcc), f) <=> ~Holds(tcc, f))
<1>1. /\ Reverse("E") = "NE" /\ Reverse("NE") = "E" /\ Reverse("L") = "GE"
      /\ Reverse("GE") = "L" /\ Reverse("HS") = "LO" /\ Reverse("LO") = "HS"
  BY DEF Reverse
<1>2. f.c \in BOOLEAN /\ f.z \in BOOLEAN /\ f.l \in BOOLEAN
  OBVIOUS
<1> QED
  BY <1>1, <1>2 DEF Codes, Holds

(* Adding one only wraps at the end of the unsigned range.                 *)
LEMMA AddOne ==
  \A w \in Word : Add(w, 1) = IF w = 2 * Half - 1 THEN 0 ELSE w + 1
BY HalfAssumption DEF Add, Word

(* Subtracting one only wraps at zero.                                     *)
LEMMA SubtractOne ==
  \A w \in Word : Add(w, -1) = IF w = 0 THEN 2 * Half - 1 ELSE w - 1
BY HalfAssumption DEF Add, Word

(* A node is a condition code and two operands, not both constants.        *)
LEMMA NodeParts ==
  ASSUME NEW n \in Nodes
  PROVE  /\ n = Node(n.cc, n.lhs, n.rhs)
         /\ n.cc \in CondCodes /\ n.lhs \in Operands /\ n.rhs \in Operands
         /\ \/ n.lhs \in {X, XAnd} /\ n.rhs \in Constants \cup {Y}
            \/ n.lhs \in Constants /\ n.rhs = X
BY DEF Nodes, Node, Operands

(* Only members of Constants count as constants.                           *)
LEMMA OperandKinds ==
  /\ \A o \in Constants : IsConst(o) /\ o.val \in Word /\ o = Const(o.val)
  /\ ~IsConst(X) /\ ~IsConst(XAnd) /\ ~IsConst(Y)
  /\ \A w \in Word : Const(w) \in Constants
BY DEF Constants, IsConst, X, XAnd, Y, Const

(* A value of an operand is a word.                                        *)
LEMMA ValueIsWord ==
  \A o \in Operands, r \in Registers : Value(o, r) \in Word
BY OperandKinds DEF Operands, Value, Registers, X, XAnd, Y, IsConst

-----------------------------------------------------------------------------
(* One rewriting of SimplifySetCC.                                         *)

(* Each relation, on the numbers the comparison sees.                      *)
LEMMA CompareNumbers ==
  ASSUME NEW cc \in CondCodes, NEW a \in Word, NEW b \in Word
  PROVE  LET x == Number(cc.signed, a)
             y == Number(cc.signed, b)
         IN /\ x \in Int /\ y \in Int /\ Compare(cc, a, b) \in BOOLEAN
            /\ cc.rel = "EQ" => (Compare(cc, a, b) <=> x = y)
            /\ cc.rel = "NE" => (Compare(cc, a, b) <=> x # y)
            /\ cc.rel = "LT" => (Compare(cc, a, b) <=> x < y)
            /\ cc.rel = "LE" => (Compare(cc, a, b) <=> x <= y)
            /\ cc.rel = "GT" => (Compare(cc, a, b) <=> x > y)
            /\ cc.rel = "GE" => (Compare(cc, a, b) <=> x >= y)
<1> DEFINE x == Number(cc.signed, a)
           y == Number(cc.signed, b)
<1>1. x \in Int /\ y \in Int
  BY HalfAssumption DEF Number, Signed, Word
<1>2. Compare(cc, a, b) <=>
                           \/ cc.rel \in {"EQ", "LE", "GE"} /\ x = y
                           \/ cc.rel \in {"NE", "LT", "LE"} /\ x < y
                           \/ cc.rel \in {"NE", "GT", "GE"} /\ x > y
  BY DEF Compare
<1>3. Compare(cc, a, b) \in BOOLEAN
  BY DEF Compare
<1> HIDE DEF x, y
<1> QED
  BY <1>1, <1>2, <1>3 DEF x, y

(* Exchanging the operands and mirroring the relation is the same test.    *)
LEMMA MirrorKeeps ==
  ASSUME NEW cc \in CondCodes, NEW a \in Word, NEW b \in Word
  PROVE  LET m == [cc EXCEPT !.rel = Mirror(@)]
         IN m \in CondCodes /\ (Compare(m, b, a) <=> Compare(cc, a, b))
<1> DEFINE m == [cc EXCEPT !.rel = Mirror(@)]
<1>1. cc.rel \in Relations /\ cc.signed \in BOOLEAN
  BY DEF CondCodes
<1>2. /\ Mirror("LT") = "GT" /\ Mirror("GT") = "LT" /\ Mirror("LE") = "GE"
      /\ Mirror("GE") = "LE" /\ Mirror("EQ") = "EQ" /\ Mirror("NE") = "NE"
  BY DEF Mirror
<1>3. m.rel = Mirror(cc.rel) /\ m.signed = cc.signed
  BY DEF CondCodes
<1>4. m \in CondCodes
  BY <1>1, <1>2, <1>3 DEF CondCodes, Relations, Equalities
<1> HIDE DEF m
<1>5. Compare(m, b, a) <=> Compare(cc, a, b)
  BY <1>1, <1>2, <1>3, <1>4, CompareNumbers DEF Relations
<1> QED
  BY <1>4, <1>5 DEF m

(* The numbers a comparison sees: the ends of the range, and that they     *)
(* tell the words apart.                                                   *)
LEMMA NumberRange ==
  ASSUME NEW cc \in CondCodes, NEW a \in Word, NEW b \in Word
  PROVE  /\ Lowest(cc) \in Word /\ Highest(cc) \in Word
         /\ Number(cc.signed, Lowest(cc)) <= Number(cc.signed, a)
         /\ Number(cc.signed, a) <= Number(cc.signed, Highest(cc))
         /\ Number(cc.signed, a) = Number(cc.signed, b) <=> a = b
BY HalfAssumption DEF Lowest, Highest, Number, Signed, Word

(* The word after and before one that is not at the end of the range.      *)
LEMMA NumberSteps ==
  ASSUME NEW cc \in CondCodes, NEW w \in Word
  PROVE  /\ Add(w, 1) \in Word /\ Add(w, -1) \in Word
         /\ w # Highest(cc) => Number(cc.signed, Add(w, 1)) = Number(cc.signed, w) + 1
         /\ w # Lowest(cc) => Number(cc.signed, Add(w, -1)) = Number(cc.signed, w) - 1
BY HalfAssumption, AddOne, SubtractOne DEF Lowest, Highest, Number, Signed, Word

(* The rules for an ordered comparison with a constant keep its meaning:   *)
(* c - 1 and c + 1 do not wrap when the comparison is not constant, and    *)
(* next to an end of the range the relation is an equality.                *)
LEMMA WithConstantKeeps ==
  ASSUME NEW cc \in CondCodes, cc.rel \notin Equalities,
         NEW l \in {X, XAnd}, NEW c \in Word, NEW r \in Registers,
         LET n == Node(cc, l, Const(c)) IN ~AlwaysTrue(n) /\ ~AlwaysFalse(n)
  PROVE  LET n == Node(cc, l, Const(c))
         IN WithConstant(n) \in Nodes /\ (Meaning(WithConstant(n), r) <=> Meaning(n, r))
<1> DEFINE n == Node(cc, l, Const(c))
           a == Value(l, r)
<1>1. /\ n.cc = cc /\ n.lhs = l /\ n.rhs = Const(c) /\ n.rhs.val = c
      /\ IsConst(n.rhs)
  BY DEF Node, Const, IsConst
<1>2. cc.rel \in {"LT", "LE", "GT", "GE"} /\ cc.signed \in BOOLEAN
  BY DEF CondCodes, Relations, Equalities
<1>3. a \in Word
  BY ValueIsWord DEF Operands
<1>4. \A w \in Word : Const(w) \in Constants /\ Value(Const(w), r) = w
  BY DEF Constants, Const, Value, IsConst
<1>5. ASSUME NEW d \in CondCodes, NEW w \in Word,
             WithConstant(n) = Node(d, l, Const(w)),
             Compare(d, a, w) <=> Compare(cc, a, c)
      PROVE  WithConstant(n) \in Nodes /\ (Meaning(WithConstant(n), r) <=> Meaning(n, r))
  BY <1>1, <1>4, <1>5 DEF Nodes, Node, Meaning
<1> DEFINE With(rel) == [cc EXCEPT !.rel = rel]
           Eq(rel) == [rel |-> rel, signed |-> FALSE]
<1>6. \A rel \in {"LT", "GT"} :
        With(rel) \in CondCodes /\ With(rel).rel = rel /\ With(rel).signed = cc.signed
  BY <1>2 DEF CondCodes, Relations, Equalities
<1>7. \A rel \in Equalities :
        Eq(rel) \in CondCodes /\ Eq(rel).rel = rel /\ Eq(rel).signed = FALSE
  BY DEF CondCodes, Relations, Equalities
<1>8. CASE cc.rel = "GE"
  <2>1. c # Lowest(cc)
    BY <1>1, <1>8 DEF AlwaysTrue
  <2>2. WithConstant(n) = Node(With("GT"), l, Const(Add(c, -1)))
    BY <1>1, <1>8 DEF WithConstant, Rel
  <2>3. /\ Add(c, -1) \in Word
        /\ Number(cc.signed, Add(c, -1)) = Number(cc.signed, c) - 1
    BY <2>1, NumberSteps
  <2>4. Compare(With("GT"), a, Add(c, -1)) <=> Compare(cc, a, c)
    <3> HIDE DEF With, a
    <3>1. With("GT") \in CondCodes /\ With("GT").rel = "GT" /\ With("GT").signed = cc.signed
      BY <1>6
    <3> QED
      BY <1>3, <1>8, <2>3, <3>1, CompareNumbers
  <2> QED
    BY <1>5, <1>6, <2>2, <2>3, <2>4
<1>9. CASE cc.rel = "LE"
  <2>1. c # Highest(cc)
    BY <1>1, <1>9 DEF AlwaysTrue
  <2>2. WithConstant(n) = Node(With("LT"), l, Const(Add(c, 1)))
    BY <1>1, <1>9 DEF WithConstant, Rel
  <2>3. /\ Add(c, 1) \in Word
        /\ Number(cc.signed, Add(c, 1)) = Number(cc.signed, c) + 1
    BY <2>1, NumberSteps
  <2>4. Compare(With("LT"), a, Add(c, 1)) <=> Compare(cc, a, c)
    <3> HIDE DEF With, a
    <3>1. With("LT") \in CondCodes /\ With("LT").rel = "LT" /\ With("LT").signed = cc.signed
      BY <1>6
    <3> QED
      BY <1>3, <1>9, <2>3, <3>1, CompareNumbers
  <2> QED
    BY <1>5, <1>6, <2>2, <2>3, <2>4
<1>10. \A w \in Word :
         /\ Compare(Eq("EQ"), a, w) <=> a = w
         /\ Compare(Eq("NE"), a, w) <=> a # w
  BY <1>3, <1>7, CompareNumbers, NumberRange DEF Equalities
<1>11. Lowest(cc) \in Word /\ Highest(cc) \in Word
  BY NumberRange
<1>12. /\ Number(cc.signed, Lowest(cc)) <= Number(cc.signed, a)
      /\ Number(cc.signed, a) <= Number(cc.signed, Highest(cc))
      /\ \A w \in Word :
           /\ Number(cc.signed, w) \in Int
           /\ Number(cc.signed, a) = Number(cc.signed, w) <=> a = w
  BY <1>3, NumberRange, CompareNumbers
<1>13. CASE cc.rel = "GT"
  <2>1. c # Highest(cc)
    BY <1>1, <1>13 DEF AlwaysFalse
  <2>2. Compare(cc, a, c) <=> Number(cc.signed, a) > Number(cc.signed, c)
    BY <1>3, <1>13, CompareNumbers
  <2>3. CASE c = Lowest(cc)
    <3>1. WithConstant(n) = Node(Eq("NE"), l, Const(c))
      BY <1>1, <1>13, <2>3 DEF WithConstant, Equality
    <3>2. Compare(Eq("NE"), a, c) <=> Compare(cc, a, c)
      <4>1. Compare(Eq("NE"), a, c) <=> a # c
        BY <1>10, <1>11
      <4> HIDE DEF Eq, a
      <4>2. Number(cc.signed, a) > Number(cc.signed, c) <=> a # c
        BY <1>3, <1>11, <1>12, <2>3
      <4> QED
        BY <2>2, <4>1, <4>2
    <3> QED
      BY <1>5, <1>7, <3>1, <3>2 DEF Equalities
  <2>4. CASE c # Lowest(cc) /\ c = Add(Highest(cc), -1)
    <3>1. WithConstant(n) = Node(Eq("EQ"), l, Const(Highest(cc)))
      BY <1>1, <1>13, <2>4 DEF WithConstant, Equality
    <3>2. Number(cc.signed, c) = Number(cc.signed, Highest(cc)) - 1
      BY <2>4, HalfAssumption, SubtractOne DEF Number, Signed, Highest, Word
    <3>3. Compare(Eq("EQ"), a, Highest(cc)) <=> Compare(cc, a, c)
      <4>1. Compare(Eq("EQ"), a, Highest(cc)) <=> a = Highest(cc)
        BY <1>10, <1>11
      <4> HIDE DEF Eq, a
      <4>2. Number(cc.signed, a) > Number(cc.signed, c) <=> a = Highest(cc)
        BY <1>3, <1>11, <1>12, <3>2
      <4> QED
        BY <2>2, <4>1, <4>2
    <3> QED
      BY <1>5, <1>7, <1>11, <3>1, <3>3 DEF Equalities
  <2>5. CASE /\ c # Lowest(cc) /\ c # Add(Highest(cc), -1)
             /\ cc = [rel |-> "GT", signed |-> FALSE] /\ c = Half - 1
    <3> DEFINE d == [rel |-> "LT", signed |-> TRUE]
    <3>1. WithConstant(n) = Node(d, l, Const(0))
      BY <1>1, <1>13, <2>5 DEF WithConstant
    <3>2. d \in CondCodes /\ d.rel = "LT" /\ d.signed = TRUE /\ 0 \in Word
      BY HalfAssumption DEF CondCodes, Relations, Equalities, Word
    <3>3. /\ Number(TRUE, a) < Number(TRUE, 0) <=> a >= Half
          /\ Number(FALSE, a) > Number(FALSE, c) <=> a >= Half
      BY <1>3, <2>5, HalfAssumption DEF Number, Signed, Word
    <3>4. Compare(d, a, 0) <=> Compare(cc, a, c)
      <4> HIDE DEF d, a
      <4>1. Compare(d, a, 0) <=> Number(TRUE, a) < Number(TRUE, 0)
        BY <1>3, <3>2, CompareNumbers
      <4>2. cc.signed = FALSE
        BY <2>5
      <4> QED
        BY <2>2, <3>3, <4>1, <4>2
    <3> QED
      BY <1>5, <3>1, <3>2, <3>4
  <2>6. CASE /\ c # Lowest(cc) /\ c # Add(Highest(cc), -1)
             /\ ~(cc = [rel |-> "GT", signed |-> FALSE] /\ c = Half - 1)
    <3>1. WithConstant(n) = Node(cc, l, Const(c))
      BY <1>1, <1>13, <2>6 DEF WithConstant
    <3> QED
      BY <1>5, <3>1
  <2> QED
    BY <2>3, <2>4, <2>5, <2>6
<1>14. CASE cc.rel = "LT"
  <2>1. c # Lowest(cc)
    BY <1>1, <1>14 DEF AlwaysFalse
  <2>2. Compare(cc, a, c) <=> Number(cc.signed, a) < Number(cc.signed, c)
    BY <1>3, <1>14, CompareNumbers
  <2>3. CASE c = Highest(cc)
    <3>1. WithConstant(n) = Node(Eq("NE"), l, Const(c))
      BY <1>1, <1>14, <2>3 DEF WithConstant, Equality
    <3>2. Compare(Eq("NE"), a, c) <=> Compare(cc, a, c)
      <4>1. Compare(Eq("NE"), a, c) <=> a # c
        BY <1>10, <1>11
      <4> HIDE DEF Eq, a
      <4>2. Number(cc.signed, a) < Number(cc.signed, c) <=> a # c
        BY <1>3, <1>11, <1>12, <2>3
      <4> QED
        BY <2>2, <4>1, <4>2
    <3> QED
      BY <1>5, <1>7, <3>1, <3>2 DEF Equalities
  <2>4. CASE c # Highest(cc) /\ c = Add(Lowest(cc), 1)
    <3>1. WithConstant(n) = Node(Eq("EQ"), l, Const(Lowest(cc)))
      BY <1>1, <1>14, <2>4 DEF WithConstant, Equality
    <3>2. Number(cc.signed, c) = Number(cc.signed, Lowest(cc)) + 1
      BY <2>4, HalfAssumption, AddOne DEF Number, Signed, Lowest, Word
    <3>3. Compare(Eq("EQ"), a, Lowest(cc)) <=> Compare(cc, a, c)
      <4>1. Compare(Eq("EQ"), a, Lowest(cc)) <=> a = Lowest(cc)
        BY <1>10, <1>11
      <4> HIDE DEF Eq, a
      <4>2. Number(cc.signed, a) < Number(cc.signed, c) <=> a = Lowest(cc)
        BY <1>3, <1>11, <1>12, <3>2
      <4> QED
        BY <2>2, <4>1, <4>2
    <3> QED
      BY <1>5, <1>7, <1>11, <3>1, <3>3 DEF Equalities
  <2>5. CASE /\ c # Highest(cc) /\ c # Add(Lowest(cc), 1)
             /\ cc = [rel |-> "LT", signed |-> FALSE] /\ c = Half
    <3> DEFINE d == [rel |-> "GT", signed |-> TRUE]
               w == 2 * Half - 1
    <3>1. WithConstant(n) = Node(d, l, Const(w))
      BY <1>1, <1>14, <2>5 DEF WithConstant
    <3>2. d \in CondCodes /\ d.rel = "GT" /\ d.signed = TRUE /\ w \in Word
      BY HalfAssumption DEF CondCodes, Relations, Equalities, Word
    <3>3. /\ Number(TRUE, a) > Number(TRUE, w) <=> a < Half
          /\ Number(FALSE, a) < Number(FALSE, c) <=> a < Half
      BY <1>3, <2>5, HalfAssumption DEF Number, Signed, Word
    <3>4. Compare(d, a, w) <=> Compare(cc, a, c)
      <4> HIDE DEF d, a, w
      <4>1. Compare(d, a, w) <=> Number(TRUE, a) > Number(TRUE, w)
        BY <1>3, <3>2, CompareNumbers
      <4>2. cc.signed = FALSE
        BY <2>5
      <4> QED
        BY <2>2, <3>3, <4>1, <4>2
    <3> QED
      BY <1>5, <3>1, <3>2, <3>4
  <2>6. CASE /\ c # Highest(cc) /\ c # Add(Lowest(cc), 1)
             /\ ~(cc = [rel |-> "LT", signed |-> FALSE] /\ c = Half)
    <3>1. WithConstant(n) = Node(cc, l, Const(c))
      BY <1>1, <1>14, <2>6 DEF WithConstant
    <3> QED
      BY <1>5, <3>1
  <2> QED
    BY <2>3, <2>4, <2>5, <2>6
<1> QED
  BY <1>2, <1>8, <1>9, <1>13, <1>14
(* A comparison the combiner folds has that value for all registers.       *)
LEMMA FoldedValue ==
  ASSUME NEW n \in Nodes, NEW r \in Registers
  PROVE  /\ AlwaysTrue(n) => Meaning(n, r)
         /\ AlwaysFalse(n) => ~Meaning(n, r)
<1> DEFINE a == Value(n.lhs, r)
           c == n.rhs.val
<1>1. n.cc \in CondCodes /\ a \in Word
  BY NodeParts, ValueIsWord
<1>2. ASSUME IsConst(n.rhs)
      PROVE  c \in Word /\ (Meaning(n, r) <=> Compare(n.cc, a, c))
  BY <1>2, NodeParts, OperandKinds DEF Meaning, Value
<1>3. ASSUME c \in Word
      PROVE  /\ n.cc.rel = "GE" /\ c = Lowest(n.cc) => Compare(n.cc, a, c)
             /\ n.cc.rel = "LE" /\ c = Highest(n.cc) => Compare(n.cc, a, c)
             /\ n.cc.rel = "LT" /\ c = Lowest(n.cc) => ~Compare(n.cc, a, c)
             /\ n.cc.rel = "GT" /\ c = Highest(n.cc) => ~Compare(n.cc, a, c)
  <2>1. /\ Number(n.cc.signed, a) \in Int /\ Number(n.cc.signed, c) \in Int
        /\ Number(n.cc.signed, Lowest(n.cc)) <= Number(n.cc.signed, a)
        /\ Number(n.cc.signed, a) <= Number(n.cc.signed, Highest(n.cc))
    BY <1>1, <1>3, NumberRange, CompareNumbers
  <2> HIDE DEF a, c
  <2> QED
    BY <1>1, <1>3, <2>1, CompareNumbers
<1> QED
  BY <1>2, <1>3 DEF AlwaysTrue, AlwaysFalse

(* One rewriting keeps the meaning of a comparison that is not folded.     *)
LEMMA SimplifyKeeps ==
  ASSUME NEW n \in Nodes, NEW r \in Registers, ~AlwaysTrue(n), ~AlwaysFalse(n)
  PROVE  Simplify(n) \in Nodes /\ (Meaning(Simplify(n), r) <=> Meaning(n, r))
<1>1. CASE IsConst(n.lhs)
  <2> DEFINE m == [n.cc EXCEPT !.rel = Mirror(@)]
  <2>1. n.lhs \in Constants /\ n.rhs = X
    BY <1>1, NodeParts, OperandKinds
  <2>2. Simplify(n) = Node(m, n.rhs, n.lhs)
    BY <1>1 DEF Simplify
  <2>3. /\ Value(n.lhs, r) \in Word /\ Value(n.rhs, r) \in Word
        /\ n.cc \in CondCodes
    BY NodeParts, ValueIsWord
  <2>4. /\ m \in CondCodes
        /\ Compare(m, Value(n.rhs, r), Value(n.lhs, r)) <=> Compare(n.cc, Value(n.lhs, r), Value(n.rhs, r))
    BY <2>3, MirrorKeeps
  <2> HIDE DEF m
  <2>5. Node(m, n.rhs, n.lhs) \in Nodes
    BY <2>1, <2>4 DEF Nodes
  <2> QED
    BY <2>2, <2>4, <2>5 DEF Meaning, Node
<1>2. CASE ~IsConst(n.lhs) /\ IsConst(n.rhs) /\ n.cc.rel \notin Equalities
  <2>1. n.lhs \in {X, XAnd} /\ n.rhs \in Constants
    BY <1>2, NodeParts, OperandKinds
  <2>2. PICK c \in Word : n.rhs = Const(c)
    BY <2>1 DEF Constants
  <2>3. n = Node(n.cc, n.lhs, Const(c)) /\ n.cc \in CondCodes
    BY <2>2, NodeParts
  <2>4. Simplify(n) = WithConstant(n)
    BY <1>2 DEF Simplify
  <2> QED
    BY <1>2, <2>1, <2>3, <2>4, WithConstantKeeps
<1>3. CASE ~IsConst(n.lhs) /\ ~(IsConst(n.rhs) /\ n.cc.rel \notin Equalities)
  BY <1>3 DEF Simplify
<1> QED
  BY <1>1, <1>2, <1>3

-----------------------------------------------------------------------------
(* EmitCMP and the flags.                                                  *)

(* What the codes say of the flags of CMP a b.                             *)
LEMMA FlagsMeaning ==
  ASSUME NEW a \in Word, NEW b \in Word
  PROVE  /\ Flags(a, b) \in [c : BOOLEAN, z : BOOLEAN, l : BOOLEAN]
         /\ Holds("E", Flags(a, b)) <=> a = b
         /\ Holds("NE", Flags(a, b)) <=> a # b
         /\ \A s \in BOOLEAN :
              /\ Holds(Less(s), Flags(a, b)) <=> Number(s, a) < Number(s, b)
              /\ Holds(NotLess(s), Flags(a, b)) <=> ~(Number(s, a) < Number(s, b))
<1> DEFINE f == Flags(a, b)
<1>1. /\ f.c = (a < b) /\ f.z = (a = b) /\ f.l = (Signed(a) < Signed(b))
      /\ f \in [c : BOOLEAN, z : BOOLEAN, l : BOOLEAN]
  BY DEF Flags
<1> HIDE DEF f
<1>2. /\ Holds("E", f) <=> f.z
      /\ Holds("NE", f) <=> ~f.z
      /\ Holds("HS", f) <=> f.c
      /\ Holds("LO", f) <=> ~f.c
      /\ Holds("L", f) <=> f.l
      /\ Holds("GE", f) <=> ~f.l
  BY DEF Holds
<1>3. /\ Less(TRUE) = "L" /\ NotLess(TRUE) = "GE"
      /\ Less(FALSE) = "HS" /\ NotLess(FALSE) = "LO"
      /\ Number(TRUE, a) = Signed(a) /\ Number(TRUE, b) = Signed(b)
      /\ Number(FALSE, a) = a /\ Number(FALSE, b) = b
  BY DEF Less, NotLess, Number
<1>4. /\ Holds(Less(TRUE), f) <=> Number(TRUE, a) < Number(TRUE, b)
      /\ Holds(NotLess(TRUE), f) <=> ~(Number(TRUE, a) < Number(TRUE, b))
      /\ Holds(Less(FALSE), f) <=> Number(FALSE, a) < Number(FALSE, b)
      /\ Holds(NotLess(FALSE), f) <=> ~(Number(FALSE, a) < Number(FALSE, b))
  BY <1>1, <1>2, <1>3
<1> QED
  BY <1>1, <1>2, <1>4 DEF f
\* The code tests the condition of the node, whatever the registers hold.
Tests(c, n) ==
  \A r \in Registers :
    Holds(c.tcc, Flags(Value(c.lhs, r), Value(c.rhs, r))) <=> Meaning(n, r)

(* EmitCMP is right for a node that no rule of the combiner rewrites, or   *)
(* that is decided: the only constant it moves is that of x > C or, of a   *)
(* decided node, x <= C, and C + 1 wraps only at the highest value.        *)
LEMMA EmitKeeps ==
  ASSUME NEW n \in Nodes, IF Decided(n) THEN TRUE ELSE Simplify(n) = n
  PROVE  LET c == EmitCMP(n)
         IN /\ c \in [lhs : Operands, rhs : Operands, tcc : Codes]
            /\ ~Wraps(n) => Tests(c, n)
<1> DEFINE c == EmitCMP(n)
           s == n.cc.signed
<1>1. /\ n.cc \in CondCodes /\ n.cc.rel \in Relations /\ s \in BOOLEAN
      /\ n.lhs \in Operands /\ n.rhs \in Operands
  BY NodeParts DEF CondCodes
<1>2. ~IsConst(n.lhs)
  <2> SUFFICES ASSUME IsConst(n.lhs) PROVE FALSE
    OBVIOUS
  <2>1. ~IsConst(n.rhs)
    BY NodeParts, OperandKinds
  <2>2. Simplify(n) = n
    BY <2>1 DEF Decided, AlwaysTrue, AlwaysFalse
  <2>3. Simplify(n).lhs = n.rhs
    BY DEF Simplify, Node
  <2> QED
    BY <2>1, <2>2, <2>3
<1>3. ASSUME IsConst(n.rhs), n.cc.rel = "LE" PROVE Wraps(n)
  <2>1. CASE Decided(n)
    <3>1. n.rhs \in Constants
      BY <1>3, NodeParts, OperandKinds
    <3>2. n.rhs = Const(n.rhs.val)
      BY <3>1, OperandKinds
    <3>3. n.rhs.val = Highest(n.cc)
      BY <1>3, <2>1 DEF Decided, AlwaysTrue, AlwaysFalse
    <3> QED
      BY <1>3, <3>2, <3>3 DEF Wraps
  <2>2. CASE ~Decided(n)
    <3>1. Simplify(n) = WithConstant(n)
      BY <1>2, <1>3 DEF Simplify, Equalities
    <3>2. WithConstant(n).cc.rel = "LT"
      BY <1>1, <1>3 DEF WithConstant, Rel, Node, CondCodes
    <3> QED
      BY <1>3, <2>2, <3>1, <3>2
  <2> QED
    BY <2>1, <2>2
<1>4. /\ Less(s) \in Codes /\ NotLess(s) \in Codes /\ "E" \in Codes /\ "NE" \in Codes
  BY DEF Less, NotLess, Codes
<1>5. \A r \in Registers :
        /\ Value(n.lhs, r) \in Word /\ Value(n.rhs, r) \in Word
        /\ Meaning(n, r) <=> Compare(n.cc, Value(n.lhs, r), Value(n.rhs, r))
  BY <1>1, ValueIsWord DEF Meaning
<1>6. CASE n.cc.rel \in Equalities
  <2>1. c = [lhs |-> n.lhs, rhs |-> n.rhs, tcc |-> IF n.cc.rel = "EQ" THEN "E" ELSE "NE"]
    BY <1>2, <1>6 DEF EmitCMP, Equalities
  <2>2. Tests(c, n)
    <3> SUFFICES ASSUME NEW r \in Registers
                 PROVE  Holds(c.tcc, Flags(Value(c.lhs, r), Value(c.rhs, r))) <=> Meaning(n, r)
      BY DEF Tests
    <3>1. Number(s, Value(n.lhs, r)) = Number(s, Value(n.rhs, r)) <=> Value(n.lhs, r) = Value(n.rhs, r)
      BY <1>1, <1>5, NumberRange
    <3> QED
      BY <1>1, <1>5, <1>6, <2>1, <3>1, FlagsMeaning, CompareNumbers DEF Equalities
  <2> QED
    BY <1>1, <1>4, <2>1, <2>2
<1>7. CASE n.cc.rel \in {"LT", "GE"}
  <2>1. c = [lhs |-> n.lhs, rhs |-> n.rhs,
             tcc |-> IF n.cc.rel = "LT" THEN Less(s) ELSE NotLess(s)]
    BY <1>2, <1>7 DEF EmitCMP, Equalities
  <2>2. Tests(c, n)
    <3> SUFFICES ASSUME NEW r \in Registers
                 PROVE  Holds(c.tcc, Flags(Value(c.lhs, r), Value(c.rhs, r))) <=> Meaning(n, r)
      BY DEF Tests
    <3> QED
      BY <1>1, <1>5, <1>7, <2>1, FlagsMeaning, CompareNumbers
  <2> QED
    BY <1>1, <1>4, <2>1, <2>2
<1>8. CASE n.cc.rel \in {"LE", "GT"} /\ ~IsConst(n.rhs)
  <2>1. c = [lhs |-> n.rhs, rhs |-> n.lhs,
             tcc |-> IF n.cc.rel = "GT" THEN Less(s) ELSE NotLess(s)]
    BY <1>8 DEF EmitCMP, Equalities
  <2>2. Tests(c, n)
    <3> SUFFICES ASSUME NEW r \in Registers
                 PROVE  Holds(c.tcc, Flags(Value(c.lhs, r), Value(c.rhs, r))) <=> Meaning(n, r)
      BY DEF Tests
    <3> QED
      BY <1>1, <1>5, <1>8, <2>1, FlagsMeaning, CompareNumbers
  <2> QED
    BY <1>1, <1>4, <2>1, <2>2
<1>9. CASE n.cc.rel = "GT" /\ IsConst(n.rhs)
  <2> DEFINE k == n.rhs.val
  <2>1. k \in Word /\ n.rhs = Const(k)
    BY <1>9, NodeParts, OperandKinds
  <2>2. c = [lhs |-> n.lhs, rhs |-> Const(Add(k, 1)), tcc |-> NotLess(s)]
    BY <1>9 DEF EmitCMP, Equalities
  <2>3. /\ Add(k, 1) \in Word
        /\ ~Wraps(n) => Number(s, Add(k, 1)) = Number(s, k) + 1
    BY <1>1, <1>9, <2>1, NumberSteps DEF Wraps
  <2>4. Const(Add(k, 1)) \in Operands
    BY <2>3, OperandKinds DEF Operands
  <2>5. ASSUME ~Wraps(n) PROVE Tests(c, n)
    <3> SUFFICES ASSUME NEW r \in Registers
                 PROVE  Holds(c.tcc, Flags(Value(c.lhs, r), Value(c.rhs, r))) <=> Meaning(n, r)
      BY DEF Tests
    <3> DEFINE a == Value(n.lhs, r)
    <3>1. a \in Word /\ (Meaning(n, r) <=> Compare(n.cc, a, k))
      BY <1>5, <1>9 DEF Value
    <3>2. Compare(n.cc, a, k) <=> Number(s, a) > Number(s, k)
      BY <1>1, <1>9, <2>1, <3>1, CompareNumbers
    <3>3. Value(Const(Add(k, 1)), r) = Add(k, 1)
      BY DEF Value, Const, IsConst
    <3>4. Holds(c.tcc, Flags(Value(c.lhs, r), Value(c.rhs, r)))
            <=> ~(Number(s, a) < Number(s, Add(k, 1)))
      BY <1>1, <2>2, <2>3, <3>1, <3>3, FlagsMeaning
    <3>5. Number(s, a) \in Int /\ Number(s, k) \in Int
      BY <1>1, <2>1, <3>1, CompareNumbers
    <3> QED
      BY <2>3, <2>5, <3>1, <3>2, <3>4, <3>5
  <2> QED
    BY <1>1, <1>4, <2>2, <2>4, <2>5
<1>10. CASE n.cc.rel = "LE" /\ IsConst(n.rhs)
  <2>1. c = [lhs |-> n.lhs, rhs |-> Const(Add(n.rhs.val, 1)), tcc |-> Less(s)]
    BY <1>10 DEF EmitCMP, Equalities
  <2>2. n.rhs.val \in Word
    BY <1>10, NodeParts, OperandKinds
  <2>3. Const(Add(n.rhs.val, 1)) \in Operands
    BY <1>1, <2>2, NumberSteps, OperandKinds DEF Operands
  <2> QED
    BY <1>1, <1>3, <1>4, <1>10, <2>1, <2>3
<1> QED
  BY <1>1, <1>6, <1>7, <1>8, <1>9, <1>10 DEF Relations, Equalities

(* The bit LowerSETCC reads is the condition, but for an AND's carry.      *)
LEMMA FlagBitHolds ==
  ASSUME NEW n \in Nodes, NEW tcc \in Codes, Converts(tcc), ~(AndCC(n) /\ tcc = "NE"),
         NEW a \in Word, NEW b \in Word
  PROVE  (Flags(a, b)[FlagBit(n, tcc).bit] # FlagBit(n, tcc).invert) <=> Holds(tcc, Flags(a, b))
<1> DEFINE f == Flags(a, b)
           from == FlagBit(n, tcc)
<1>1. tcc \in {"E", "NE", "HS", "LO"}
  BY DEF Codes, Converts
<1>2. f["c"] = (a < b) /\ f["z"] = (a = b)
  BY DEF Flags
<1>3. /\ Holds("E", f) <=> f["z"]
      /\ Holds("NE", f) <=> ~f["z"]
      /\ Holds("HS", f) <=> f["c"]
      /\ Holds("LO", f) <=> ~f["c"]
  BY DEF Holds
<1>4. /\ tcc = "HS" => from.bit = "c" /\ from.invert = FALSE
      /\ tcc = "LO" => from.bit = "c" /\ from.invert = TRUE
      /\ tcc = "NE" => from.bit = "z" /\ from.invert = TRUE
      /\ tcc = "E" => from.bit = "z" /\ from.invert = FALSE
  BY DEF FlagBit
<1> HIDE DEF f, from
<1>5. f["c"] \in BOOLEAN /\ f["z"] \in BOOLEAN
  BY <1>2
<1>6. (f[from.bit] # from.invert) <=> Holds(tcc, f)
  <2>1. CASE tcc = "HS"
    BY <1>3, <1>4, <1>5, <2>1, Zenon
  <2>2. CASE tcc = "LO"
    BY <1>3, <1>4, <1>5, <2>2, Zenon
  <2>3. CASE tcc = "NE"
    BY <1>3, <1>4, <1>5, <2>3, Zenon
  <2>4. CASE tcc = "E"
    BY <1>3, <1>4, <1>5, <2>4, Zenon
  <2> QED
    BY <1>1, <2>1, <2>2, <2>3, <2>4
<1> QED
  BY <1>6 DEF f, from
-----------------------------------------------------------------------------
(* The inductive invariant.                                                *)

\* The code tests the comparison of the program, unless EmitCMP has wrapped
\* the constant of a branch; a branch that has not been reversed goes to the
\* true block.
CodeTests ==
  /\ pc = "combine" => taken
  /\ ~ExtremeBranch => \A r \in Registers :
       LET holds == Holds(code.tcc, Flags(Value(code.lhs, r), Value(code.rhs, r)))
       IN /\ pc = "branch" => ((taken <=> holds) <=> Meaning(source, r))
          /\ pc = "bit" => (holds <=> Meaning(source, r))

IInv == TypeOK /\ CombineKeepsMeaning /\ CodeTests /\ ConditionKept

(* The invariant holds initially.                                          *)
LEMMA InitInv == Init => IInv
<1> SUFFICES ASSUME Init PROVE IInv
  OBVIOUS
<1>1. TypeOK
  <2>1. X \in Operands /\ Y \in Operands /\ 0 \in Word
    BY HalfAssumption DEF Operands, Word
  <2> QED
    BY <2>1 DEF Init, TypeOK, Codes, Registers
<1>2. CombineKeepsMeaning /\ CodeTests /\ ConditionKept
  BY DEF Init, CombineKeepsMeaning, CodeTests, ConditionKept
<1> QED
  BY <1>1, <1>2 DEF IInv

(* Every step keeps the invariant.                                         *)
LEMMA StepInv == IInv /\ [Next]_vars => IInv'
<1> SUFFICES ASSUME IInv, [Next]_vars PROVE IInv'
  OBVIOUS
<1> USE DEF IInv
<1>1. /\ source \in Nodes /\ node \in Nodes
      /\ \A r \in Registers : Meaning(node, r) <=> Meaning(source, r)
  BY DEF TypeOK, CombineKeepsMeaning
<1>2. CASE Combine
  <2>1. /\ node' = Simplify(node) /\ node' \in Nodes
        /\ \A r \in Registers : Meaning(node', r) <=> Meaning(node, r)
    <3>1. \E r : r \in Registers
      BY DEF TypeOK
    <3> QED
      BY <1>1, <1>2, <3>1, SimplifyKeeps DEF Combine, Decided
  <2>2. TypeOK'
    BY <1>2, <2>1 DEF Combine, TypeOK
  <2>3. CombineKeepsMeaning'
    BY <1>1, <1>2, <2>1 DEF Combine, CombineKeepsMeaning
  <2>4. CodeTests' /\ ConditionKept'
    BY <1>2 DEF Combine, CodeTests, ConditionKept
  <2> QED
    BY <2>2, <2>3, <2>4
<1>3. CASE MakeBranch
  BY <1>3 DEF MakeBranch, TypeOK, CombineKeepsMeaning, CodeTests, ConditionKept
<1>4. CASE Fold
  <2>1. TypeOK'
    <3>1. AlwaysTrue(node) \in BOOLEAN
      BY DEF AlwaysTrue
    <3> QED
      BY <1>4, <3>1 DEF Fold, TypeOK, Registers
  <2>2. CombineKeepsMeaning' /\ CodeTests'
    BY <1>4 DEF Fold, CombineKeepsMeaning, CodeTests
  <2>3. ConditionKept'
    <3>1. regs' \in Registers /\ source' = source
      BY <1>4 DEF Fold, Registers
    <3>2. result' <=> Meaning(source, regs')
      BY <1>1, <1>4, <3>1, FoldedValue DEF Fold, Decided
    <3> QED
      BY <3>1, <3>2 DEF ConditionKept
  <2> QED
    BY <2>1, <2>2, <2>3
<1>5. CASE Lower
  <2>1. /\ code' = EmitCMP(node) /\ code' \in [lhs : Operands, rhs : Operands, tcc : Codes]
        /\ ~Wraps(node) => Tests(code', node)
    BY <1>1, <1>5, EmitKeeps DEF Lower
  <2>2. /\ pc' \in {"branch", "bit"} /\ pc' = "bit" => op = "SETCC" /\ Converts(code'.tcc)
        /\ pc' # "done"
    BY <1>5 DEF Lower
  <2>3. TypeOK'
    BY <1>5, <2>1, <2>2 DEF Lower, TypeOK
  <2>4. taken
    BY <1>5 DEF Lower, CodeTests
  <2>5. Wraps(node) => op = "BR_CC"
    <3>1. Wraps(node) => Decided(node)
      BY OperandKinds, NumberRange, <1>1, NodeParts
         DEF Wraps, Decided, AlwaysTrue, AlwaysFalse, Const, IsConst
    <3> QED
      BY <1>5, <3>1 DEF Lower
  <2>6. ~ExtremeBranch' => ~Wraps(node)
    BY <1>5, <2>5 DEF Lower, ExtremeBranch
  <2>7. CodeTests'
    BY <1>1, <1>5, <2>1, <2>2, <2>4, <2>6 DEF Lower, CodeTests, Tests
  <2>8. CombineKeepsMeaning' /\ ConditionKept'
    BY <1>5, <2>2 DEF Lower, CombineKeepsMeaning, ConditionKept
  <2> QED
    BY <2>3, <2>7, <2>8
<1>6. CASE ReverseBranch
  <2>1. /\ code.tcc \in Codes /\ code'.lhs = code.lhs /\ code'.rhs = code.rhs
        /\ code'.tcc = Reverse(code.tcc) /\ Reverse(code.tcc) \in Codes
        /\ code' \in [lhs : Operands, rhs : Operands, tcc : Codes]
    BY <1>6 DEF ReverseBranch, TypeOK, Reverse, Codes
  <2>2. TypeOK'
    BY <1>6, <2>1 DEF ReverseBranch, TypeOK
  <2>3. CodeTests'
    <3> SUFFICES ASSUME ~ExtremeBranch, NEW r \in Registers
                 PROVE  (taken' <=> Holds(code'.tcc, Flags(Value(code.lhs, r), Value(code.rhs, r))))
                           <=> Meaning(source, r)
      BY <1>6, <2>1 DEF ReverseBranch, CodeTests, ExtremeBranch
    <3> DEFINE f == Flags(Value(code.lhs, r), Value(code.rhs, r))
    <3>1. f \in [c : BOOLEAN, z : BOOLEAN, l : BOOLEAN]
      BY ValueIsWord, FlagsMeaning DEF TypeOK
    <3>2. Holds(code'.tcc, f) <=> ~Holds(code.tcc, f)
      BY <2>1, <3>1, ReverseNegates
    <3>3. (taken <=> Holds(code.tcc, f)) <=> Meaning(source, r)
      BY <1>6 DEF ReverseBranch, CodeTests
    <3>4. taken' <=> ~taken
      BY <1>6 DEF ReverseBranch
    <3> QED
      BY <3>2, <3>3, <3>4
  <2>4. CombineKeepsMeaning' /\ ConditionKept'
    BY <1>6 DEF ReverseBranch, CombineKeepsMeaning, ConditionKept
  <2> QED
    BY <2>2, <2>3, <2>4
<1>7. CASE RunBranch
  <2> DEFINE holds == Holds(code.tcc, Flags(Value(code.lhs, regs'), Value(code.rhs, regs')))
  <2>1. regs' \in Registers /\ source' = source
    BY <1>7 DEF RunBranch, Registers
  <2>2. result' <=> (taken <=> holds)
    BY <1>7 DEF RunBranch
  <2>3. result' \in BOOLEAN
    BY <1>7 DEF RunBranch
  <2>4. TypeOK'
    BY <1>7, <2>1, <2>3 DEF RunBranch, TypeOK
  <2>5. ~ExtremeBranch => ((taken <=> holds) <=> Meaning(source, regs'))
    BY <1>7, <2>1 DEF RunBranch, CodeTests
  <2>6. ExtremeBranch' <=> ExtremeBranch
    BY <1>7 DEF RunBranch, ExtremeBranch
  <2>7. ConditionKept'
    BY <2>1, <2>2, <2>5, <2>6 DEF ConditionKept
  <2>8. CombineKeepsMeaning' /\ CodeTests'
    BY <1>7 DEF RunBranch, CombineKeepsMeaning, CodeTests
  <2> QED
    BY <2>4, <2>7, <2>8
<1>8. CASE RunBit
  <2> DEFINE a == Value(code.lhs, regs')
             b == Value(code.rhs, regs')
  <2>1. regs' \in Registers /\ source' = source /\ op' = op /\ node' = node /\ code' = code
    BY <1>8 DEF RunBit, Registers
  <2>2. result' = (Flags(a, b)[FlagBit(node, code.tcc).bit] # FlagBit(node, code.tcc).invert)
    BY <1>8 DEF RunBit
  <2>3. TypeOK'
    BY <1>8, <2>1, <2>2 DEF RunBit, TypeOK
  <2>4. /\ a \in Word /\ b \in Word /\ code.tcc \in Codes
        /\ Converts(code.tcc) /\ op = "SETCC"
    BY <1>8, <2>1, ValueIsWord DEF RunBit, TypeOK
  <2>5. Holds(code.tcc, Flags(a, b)) <=> Meaning(source, regs')
    BY <1>8, <2>1, <2>4 DEF RunBit, CodeTests, ExtremeBranch
  <2>6. ASSUME ~(AndCC(node) /\ code.tcc = "NE")
        PROVE  result' <=> Meaning(source, regs')
    BY <1>1, <2>2, <2>4, <2>5, <2>6, FlagBitHolds
  <2>7. ConditionKept'
    BY <2>1, <2>4, <2>6 DEF ConditionKept, FromAndCarry
  <2>8. CombineKeepsMeaning' /\ CodeTests'
    BY <1>8 DEF RunBit, CombineKeepsMeaning, CodeTests
  <2> QED
    BY <2>3, <2>7, <2>8
<1>9. CASE UNCHANGED vars
  BY <1>9 DEF vars, TypeOK, CombineKeepsMeaning, CodeTests, ConditionKept, FromAndCarry,
              ExtremeBranch
<1> QED
  BY <1>2, <1>3, <1>4, <1>5, <1>6, <1>7, <1>8, <1>9 DEF Next

(* The invariant holds in every reachable state.                           *)
THEOREM InductiveInvariant == Spec => []IInv
BY InitInv, StepInv, PTL DEF Spec

(* Every variable keeps its type, for words of every size.                 *)
THEOREM TypeCorrect == Spec => []TypeOK
<1>1. IInv => TypeOK
  BY DEF IInv
<1> QED
  BY InductiveInvariant, <1>1, PTL

(* The combiner's rewritings keep the meaning of a comparison, for words   *)
(* of every size and all register values.                                  *)
THEOREM CombinerKeepsMeaning == Spec => []CombineKeepsMeaning
<1>1. IInv => CombineKeepsMeaning
  BY DEF IInv
<1> QED
  BY InductiveInvariant, <1>1, PTL

(* The code acts on the comparison the program wrote, for words of every   *)
(* size, but where LowerSETCC takes the carry of an AND and where a branch *)
(* compares with the highest value, whose C + 1 EmitCMP wraps.             *)
THEOREM LoweringKeepsCondition == Spec => []ConditionKept
<1>1. IInv => ConditionKept
  BY DEF IInv
<1> QED
  BY InductiveInvariant, <1>1, PTL
=============================================================================
