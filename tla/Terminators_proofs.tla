-------------------------- MODULE Terminators_proofs --------------------------
(***************************************************************************)
(* Branch folding keeps the targets of a block, for every set of blocks:   *)
(* what AnalyzeBranch, RemoveBranch and InsertBranch do to the terminators *)
(* a block can have is said once, in terms of the two targets and the      *)
(* condition; the rest of the proof is about these.                        *)
(***************************************************************************)
EXTENDS Terminators, SequenceTheorems, TLAPS

Targets == Blocks \cup {NoBlock}

(* What AnalyzeBranch can answer, and the terminators it answers it for.   *)
Good(x, y, c) ==
  /\ x \in Targets /\ y \in Targets /\ c \in Codes \cup {NoCode}
  /\ x = NoBlock => y = NoBlock /\ c = NoCode
  /\ c = NoCode => y = NoBlock

Form(x, y, c) ==
  IF x = NoBlock THEN <<>>
  ELSE IF c = NoCode THEN <<JMP(x)>>
  ELSE IF y = NoBlock THEN <<JCC(x, c)>> ELSE <<JCC(x, c), JMP(y)>>

Leads(x, y, c, n, f) ==
  IF x # NoBlock /\ (c = NoCode \/ Holds(c, f)) THEN x
  ELSE IF y # NoBlock THEN y ELSE n

-----------------------------------------------------------------------------
(* Sequences of one or two terminators.                                    *)

(* Appending and concatenating give the sequences one expects.             *)
LEMMA Joined ==
  ASSUME NEW a, NEW b
  PROVE  Append(<<>>, a) = <<a>> /\ Append(<<a>>, b) = <<a, b>> /\ <<a>> \o <<b>> = <<a, b>>
<1> DEFINE S == {a, b}
<1>1. /\ <<>> \in Seq(S) /\ <<a>> \in Seq(S) /\ <<b>> \in Seq(S) /\ <<a, b>> \in Seq(S)
      /\ a \in S /\ b \in S
  OBVIOUS
<1>2. /\ Len(<<a>>) = 1 /\ Len(<<b>>) = 1 /\ Len(<<a, b>>) = 2
      /\ <<a>>[1] = a /\ <<b>>[1] = b /\ <<a, b>>[1] = a /\ <<a, b>>[2] = b
  OBVIOUS
<1> HIDE DEF S
<1>3. Append(<<>>, a) = <<a>>
  OBVIOUS
<1>4. Append(<<a>>, b) = <<a>> \o <<b>>
  BY <1>1, AppendIsConcat
<1>5. /\ <<a>> \o <<b>> \in Seq(S) /\ Len(<<a>> \o <<b>>) = 2
      /\ (<<a>> \o <<b>>)[1] = a /\ (<<a>> \o <<b>>)[2] = b
  BY <1>1, <1>2, ConcatProperties
<1>6. <<a>> \o <<b>> = <<a, b>>
  <2>1. \A i \in 1..Len(<<a>> \o <<b>>) : (<<a>> \o <<b>>)[i] = <<a, b>>[i]
    BY <1>2, <1>5
  <2>2. Len(<<a>> \o <<b>>) = Len(<<a, b>>)
    BY <1>2, <1>5
  <2> QED
    BY <1>1, <1>5, <2>1, <2>2, SeqEqual, Zenon
<1> QED
  BY <1>3, <1>4, <1>6

(* So do the prefixes AnalyzeBranch keeps.                                 *)
LEMMA Cut ==
  ASSUME NEW a, NEW b
  PROVE  /\ SubSeq(<<a>>, 1, 0) = <<>> /\ SubSeq(<<a>>, 1, 1) = <<a>>
         /\ SubSeq(<<a, b>>, 1, 1) = <<a>> /\ SubSeq(<<a, b>>, 1, 2) = <<a, b>>
<1> DEFINE S == {a, b}
           cut == SubSeq(<<a, b>>, 1, 1)
<1>1. <<a>> \in Seq(S) /\ <<a, b>> \in Seq(S)
  OBVIOUS
<1>2. /\ Len(<<a>>) = 1 /\ Len(<<a, b>>) = 2 /\ a \in S /\ b \in S
      /\ <<a>>[1] = a /\ <<a, b>>[1] = a /\ <<a, b>>[2] = b
  OBVIOUS
<1> HIDE DEF S
<1>3. SubSeq(<<a, b>>, 1, 2) = <<a, b>> /\ SubSeq(<<a>>, 1, 1) = <<a>>
  BY <1>1, <1>2, SubSeqFull
<1>4. SubSeq(<<a>>, 1, 0) = <<>>
  BY SubSeqEmpty
<1>5. cut \in Seq(S) /\ Len(cut) = 1 /\ cut[1] = <<a, b>>[1]
  <2>1. \A i \in 1..1 : <<a, b>>[i] \in S
    BY <1>2
  <2> QED
    BY <2>1, SubSeqProperties
<1>6. cut = <<a>>
  <2>1. (\A i \in 1..Len(cut) : cut[i] = <<a>>[i]) /\ Len(cut) = Len(<<a>>)
    BY <1>2, <1>5
  <2> QED
    BY <1>1, <1>5, <2>1, SeqEqual, Zenon
<1> QED
  BY <1>3, <1>4, <1>6

-----------------------------------------------------------------------------
(* The forms.                                                              *)

(* Where terminators of a form lead.                                       *)
LEMMA FormDest ==
  ASSUME NEW x, NEW y, NEW c, Good(x, y, c), NEW n, NEW f \in FlagValues
  PROVE  Dest(Form(x, y, c), n, f) = Leads(x, y, c, n, f)
<1>1. CASE x = NoBlock
  BY <1>1 DEF Form, Dest, Leads, Good
<1>2. CASE x # NoBlock /\ c = NoCode
  <2>1. Form(x, y, c) = <<JMP(x)>>
    BY <1>2 DEF Form
  <2> QED
    BY <1>2, <2>1 DEF Dest, Leads, Good, JMP
<1>3. CASE x # NoBlock /\ c # NoCode /\ y = NoBlock
  <2>1. Form(x, y, c) = <<JCC(x, c)>>
    BY <1>3 DEF Form
  <2> QED
    BY <1>3, <2>1 DEF Dest, Leads, Good, JCC
<1>4. CASE x # NoBlock /\ c # NoCode /\ y # NoBlock
  <2>1. Form(x, y, c) = <<JCC(x, c), JMP(y)>>
    BY <1>4 DEF Form
  <2> QED
    BY <1>4, <2>1 DEF Dest, Leads, Good, JCC, JMP
<1> QED
  BY <1>1, <1>2, <1>3, <1>4

(* RemoveBranch leaves no branch behind.                                   *)
LEMMA FormRemoved ==
  ASSUME NEW x, NEW y, NEW c, Good(x, y, c)
  PROVE  RemoveBranch(Form(x, y, c)) = <<>>
<1>1. CASE x = NoBlock
  BY <1>1 DEF Form, RemoveBranch
<1>2. CASE x # NoBlock /\ c = NoCode
  BY <1>2 DEF Form, RemoveBranch, JMP
<1>3. CASE x # NoBlock /\ c # NoCode /\ y = NoBlock
  BY <1>3 DEF Form, RemoveBranch, JCC
<1>4. CASE x # NoBlock /\ c # NoCode /\ y # NoBlock
  <2>1. Form(x, y, c) = <<JCC(x, c), JMP(y)>>
    BY <1>4 DEF Form
  <2> QED
    BY <2>1 DEF RemoveBranch, JCC, JMP
<1> QED
  BY <1>1, <1>2, <1>3, <1>4

(* InsertBranch makes the form it is asked for.                            *)
LEMMA FormInserted ==
  ASSUME NEW x, NEW y, NEW c, Good(x, y, c), x # NoBlock
  PROVE  InsertBranch(<<>>, x, y, c) = Form(x, y, c)
<1>1. CASE c = NoCode
  BY <1>1 DEF Form, InsertBranch
<1>2. CASE c # NoCode /\ y = NoBlock
  <2>1. Append(<<>>, JCC(x, c)) \o <<>> = <<JCC(x, c)>>
    OBVIOUS
  <2> QED
    BY <1>2, <2>1 DEF Form, InsertBranch
<1>3. CASE c # NoCode /\ y # NoBlock
  <2>1. Append(<<>>, JCC(x, c)) \o <<JMP(y)>> = <<JCC(x, c), JMP(y)>>
    BY Joined
  <2> QED
    BY <1>3, <2>1 DEF Form, InsertBranch
<1> QED
  BY <1>1, <1>2, <1>3

(* RemoveBranch, then InsertBranch: a form replaces another.               *)
LEMMA FormRebranched ==
  ASSUME NEW x, NEW y, NEW c, Good(x, y, c),
         NEW x2, NEW y2, NEW c2, Good(x2, y2, c2), x2 # NoBlock
  PROVE  Rebranch(Form(x, y, c), x2, y2, c2) = Form(x2, y2, c2)
BY FormRemoved, FormInserted DEF Rebranch

(* A jump after a block that falls through.                                *)
LEMMA FormExtended ==
  ASSUME NEW x, NEW c, Good(x, NoBlock, c), x # NoBlock => c # NoCode,
         NEW b \in Blocks
  PROVE  InsertBranch(Form(x, NoBlock, c), b, NoBlock, NoCode)
           = IF x = NoBlock THEN Form(b, NoBlock, NoCode) ELSE Form(x, b, c)
<1>1. b # NoBlock
  BY BlocksAssumption
<1>2. CASE x = NoBlock
  BY <1>1, <1>2 DEF Form, InsertBranch
<1>3. CASE x # NoBlock
  <2>1. Append(<<JCC(x, c)>>, JMP(b)) = <<JCC(x, c), JMP(b)>>
    BY Joined
  <2> QED
    BY <1>1, <1>3, <2>1 DEF Form, InsertBranch
<1> QED
  BY <1>2, <1>3

-----------------------------------------------------------------------------
(* AnalyzeBranch.                                                          *)

At(t, k, x, y, c) ==
  [term |-> t, k |-> k, found |-> TRUE, tbb |-> x, fbb |-> y, cond |-> c]
Answer(t, x, y, c) == At(t, 0, x, y, c)

\* A step of the analysis without and with leave to modify the block
Look(a, n) == Scan(a, n, FALSE)
Trim(a, n) == Scan(a, n, TRUE)

(* A step of the analysis is that for the branch it stands at.             *)
LEMMA ScanFound ==
  ASSUME NEW a, NEW n, a.k # 0, a.found
  PROVE
    /\ a.term[a.k].op = "JMP" => /\ Scan(a, n, FALSE) = ScanJump(a, n, FALSE)
                               /\ Scan(a, n, TRUE) = ScanJump(a, n, TRUE)
    /\ a.term[a.k].op = "JCC" => /\ Scan(a, n, FALSE) = ScanCond(a)
                               /\ Scan(a, n, TRUE) = ScanCond(a)
BY DEF Scan

(* At a jump: noted, or deleted if it goes to the next block.              *)
LEMMA ScanAtJump ==
  ASSUME NEW t, NEW k \in Nat \ {0}, NEW x, NEW y, NEW c, NEW n, t[k].op = "JMP"
  PROVE
    /\ Look(At(t, k, x, y, c), n) = At(t, k - 1, t[k].to, y, c)
    /\ t[k].to = n =>
         Trim(At(t, k, x, y, c), n) = At(SubSeq(t, 1, k - 1), k - 1, NoBlock, NoBlock, NoCode)
    /\ t[k].to # n =>
         Trim(At(t, k, x, y, c), n) = At(SubSeq(t, 1, k), k - 1, t[k].to, NoBlock, NoCode)
<1> DEFINE a == At(t, k, x, y, c)
<1>1. /\ ScanJump(a, n, FALSE) = At(t, k - 1, t[k].to, y, c)
      /\ t[k].to = n => ScanJump(a, n, TRUE) = At(SubSeq(t, 1, k - 1), k - 1, NoBlock, NoBlock, NoCode)
      /\ t[k].to # n => ScanJump(a, n, TRUE) = At(SubSeq(t, 1, k), k - 1, t[k].to, NoBlock, NoCode)
  BY DEF At, ScanJump
<1>2. a.k # 0 /\ a.found /\ a.term[a.k].op = "JMP"
  BY DEF At
<1>3. Look(a, n) = ScanJump(a, n, FALSE) /\ Trim(a, n) = ScanJump(a, n, TRUE)
  <2> HIDE DEF a
  <2> QED
    BY <1>2, ScanFound, Zenon DEF Look, Trim
<1> QED
  BY <1>1, <1>3, Zenon

(* At the first condition: what was the target is now the false target.    *)
LEMMA ScanAtCond ==
  ASSUME NEW t, NEW k \in Nat \ {0}, NEW x, NEW y, NEW n, t[k].op = "JCC"
  PROVE
    /\ Look(At(t, k, x, y, NoCode), n) = At(t, k - 1, t[k].to, x, t[k].cc)
    /\ Trim(At(t, k, x, y, NoCode), n) = At(t, k - 1, t[k].to, x, t[k].cc)
<1> DEFINE a == At(t, k, x, y, NoCode)
<1>1. ScanCond(a) = At(t, k - 1, t[k].to, x, t[k].cc)
  BY DEF At, ScanCond
<1>2. a.k # 0 /\ a.found /\ a.term[a.k].op = "JCC"
  BY DEF At
<1>3. Look(a, n) = ScanCond(a) /\ Trim(a, n) = ScanCond(a)
  <2> HIDE DEF a
  <2> QED
    BY <1>2, ScanFound, Zenon DEF Look, Trim
<1> QED
  BY <1>1, <1>3, Zenon

(* At the top the analysis stays as it is.                                 *)
LEMMA ScanAnswer ==
  ASSUME NEW t, NEW x, NEW y, NEW c, NEW n
  PROVE  /\ Look(Answer(t, x, y, c), n) = Answer(t, x, y, c)
         /\ Trim(Answer(t, x, y, c), n) = Answer(t, x, y, c)
BY DEF Scan, Look, Trim, Answer, At

(* Two terminators take two steps.                                         *)
LEMMA TwoSteps ==
  ASSUME NEW t, NEW n
  PROVE  /\ AnalyzeBranch(t, n, FALSE) = Look(Look(Start(t), n), n)
         /\ AnalyzeBranch(t, n, TRUE) = Trim(Trim(Start(t), n), n)
BY Zenon DEF AnalyzeBranch, Look, Trim

(* The analysis in two steps, or in one if that is enough.                 *)
LEMMA Looked ==
  ASSUME NEW t, NEW n, NEW a, NEW b, Look(Start(t), n) = a, Look(a, n) = b
  PROVE  AnalyzeBranch(t, n, FALSE) = b
BY TwoSteps

(* The same with leave to modify the block.                                *)
LEMMA Trimmed ==
  ASSUME NEW t, NEW n, NEW a, NEW b, Trim(Start(t), n) = a, Trim(a, n) = b
  PROVE  AnalyzeBranch(t, n, TRUE) = b
BY TwoSteps

(* One jump, at the bottom of one or two terminators.                      *)
LEMMA FirstJump ==
  ASSUME NEW t, NEW n, Start(t) = At(t, 1, NoBlock, NoBlock, NoCode), t[1].op = "JMP"
  PROVE  /\ Look(Start(t), n) = Answer(t, t[1].to, NoBlock, NoCode)
         /\ t[1].to = n => Trim(Start(t), n) = Answer(SubSeq(t, 1, 0), NoBlock, NoBlock, NoCode)
         /\ t[1].to # n => Trim(Start(t), n) = Answer(SubSeq(t, 1, 1), t[1].to, NoBlock, NoCode)
<1>1. 1 \in Nat \ {0} /\ 1 - 1 = 0
  OBVIOUS
<1>2. /\ Look(Start(t), n) = At(t, 1 - 1, t[1].to, NoBlock, NoCode)
      /\ t[1].to = n => Trim(Start(t), n) = At(SubSeq(t, 1, 1 - 1), 1 - 1, NoBlock, NoBlock, NoCode)
      /\ t[1].to # n => Trim(Start(t), n) = At(SubSeq(t, 1, 1), 1 - 1, t[1].to, NoBlock, NoCode)
  BY <1>1, ScanAtJump
<1> QED
  BY <1>1, <1>2 DEF Answer

(* The same at the bottom of two.                                          *)
LEMMA SecondJump ==
  ASSUME NEW t, NEW n, Start(t) = At(t, 2, NoBlock, NoBlock, NoCode), t[2].op = "JMP"
  PROVE  /\ Look(Start(t), n) = At(t, 1, t[2].to, NoBlock, NoCode)
         /\ t[2].to = n => Trim(Start(t), n) = At(SubSeq(t, 1, 1), 1, NoBlock, NoBlock, NoCode)
         /\ t[2].to # n => Trim(Start(t), n) = At(SubSeq(t, 1, 2), 1, t[2].to, NoBlock, NoCode)
<1>1. 2 \in Nat \ {0} /\ 2 - 1 = 1
  OBVIOUS
<1>2. /\ Look(Start(t), n) = At(t, 2 - 1, t[2].to, NoBlock, NoCode)
      /\ t[2].to = n => Trim(Start(t), n) = At(SubSeq(t, 1, 2 - 1), 2 - 1, NoBlock, NoBlock, NoCode)
      /\ t[2].to # n => Trim(Start(t), n) = At(SubSeq(t, 1, 2), 2 - 1, t[2].to, NoBlock, NoCode)
  BY <1>1, ScanAtJump
<1> QED
  BY <1>1, <1>2

(* A conditional branch on top ends the analysis.                          *)
LEMMA LastCond ==
  ASSUME NEW t, NEW x, NEW n, t[1].op = "JCC"
  PROVE  /\ Look(At(t, 1, x, NoBlock, NoCode), n) = Answer(t, t[1].to, x, t[1].cc)
         /\ Trim(At(t, 1, x, NoBlock, NoCode), n) = Answer(t, t[1].to, x, t[1].cc)
BY ScanAtCond DEF Answer

(* Without leave to modify it, the answer is the form.                     *)
LEMMA FormAnalyzed ==
  ASSUME NEW x, NEW y, NEW c, Good(x, y, c), NEW n
  PROVE  AnalyzeBranch(Form(x, y, c), n, FALSE) = Answer(Form(x, y, c), x, y, c)
<1> DEFINE t == Form(x, y, c)
<1>1. CASE x = NoBlock
  <2>1. t = <<>> /\ y = NoBlock /\ c = NoCode
    BY <1>1 DEF Form, Good
  <2>2. Start(t) = Answer(t, x, y, c)
    BY <1>1, <2>1 DEF Start, Answer, At
  <2>3. Look(Answer(t, x, y, c), n) = Answer(t, x, y, c)
    BY ScanAnswer
  <2> QED
    BY <2>2, <2>3, Looked
<1>2. CASE x # NoBlock /\ c = NoCode
  <2>1. t = <<JMP(x)>> /\ y = NoBlock
    BY <1>2 DEF Form, Good
  <2>2. Start(t) = At(t, 1, NoBlock, NoBlock, NoCode) /\ t[1].op = "JMP" /\ t[1].to = x
    BY <2>1 DEF Start, At, JMP, JCC
  <2> HIDE DEF t
  <2>3. Look(Start(t), n) = Answer(t, x, y, c)
    BY <1>2, <2>1, <2>2, FirstJump
  <2>4. Look(Answer(t, x, y, c), n) = Answer(t, x, y, c)
    BY ScanAnswer
  <2>5. AnalyzeBranch(t, n, FALSE) = Answer(t, x, y, c)
    BY <2>3, <2>4, Looked
  <2> QED
    BY <2>5 DEF t
<1>3. CASE x # NoBlock /\ c # NoCode /\ y = NoBlock
  <2>1. t = <<JCC(x, c)>>
    BY <1>3 DEF Form
  <2>2. /\ Start(t) = At(t, 1, NoBlock, NoBlock, NoCode)
        /\ t[1].op = "JCC" /\ t[1].to = x /\ t[1].cc = c
    BY <2>1 DEF Start, At, JMP, JCC
  <2> HIDE DEF t
  <2>3. Look(Start(t), n) = Answer(t, x, y, c)
    BY <1>3, <2>1, <2>2, LastCond
  <2>4. Look(Answer(t, x, y, c), n) = Answer(t, x, y, c)
    BY ScanAnswer
  <2>5. AnalyzeBranch(t, n, FALSE) = Answer(t, x, y, c)
    BY <2>3, <2>4, Looked
  <2> QED
    BY <2>5 DEF t
<1>4. CASE x # NoBlock /\ c # NoCode /\ y # NoBlock
  <2>1. t = <<JCC(x, c), JMP(y)>>
    BY <1>4 DEF Form
  <2>2. /\ Start(t) = At(t, 2, NoBlock, NoBlock, NoCode)
        /\ t[1].op = "JCC" /\ t[1].to = x /\ t[1].cc = c /\ t[2].op = "JMP" /\ t[2].to = y
    BY <2>1 DEF Start, At, JMP, JCC
  <2> HIDE DEF t
  <2>3. Look(Start(t), n) = At(t, 1, y, NoBlock, NoCode)
    BY <2>1, <2>2, SecondJump
  <2>4. Look(At(t, 1, y, NoBlock, NoCode), n) = Answer(t, x, y, c)
    BY <2>1, <2>2, LastCond
  <2>5. AnalyzeBranch(t, n, FALSE) = Answer(t, x, y, c)
    BY <2>3, <2>4, Looked
  <2> QED
    BY <2>5 DEF t
<1> QED
  BY <1>1, <1>2, <1>3, <1>4

(* With leave to modify it, a jump to the next block is deleted first.     *)
LEMMA FormTrimmed ==
  ASSUME NEW x, NEW y, NEW c, Good(x, y, c), NEW n \in Targets
  PROVE  LET a == AnalyzeBranch(Form(x, y, c), n, TRUE)
         IN /\ x = n /\ c = NoCode => a = Answer(<<>>, NoBlock, NoBlock, NoCode)
            /\ c # NoCode /\ y = n => a = Answer(Form(x, NoBlock, c), x, NoBlock, c)
            /\ ~(x = n /\ c = NoCode) /\ ~(c # NoCode /\ y = n) => a = Answer(Form(x, y, c), x, y, c)
<1> DEFINE t == Form(x, y, c)
           Analyzed(u, xx, yy, cc) == AnalyzeBranch(t, n, TRUE) = Answer(u, xx, yy, cc)
<1>1. CASE x = NoBlock
  <2>1. t = <<>> /\ y = NoBlock /\ c = NoCode
    BY <1>1 DEF Form, Good
  <2>2. Start(t) = Answer(t, x, y, c)
    BY <1>1, <2>1 DEF Start, Answer, At
  <2>3. Trim(Answer(t, x, y, c), n) = Answer(t, x, y, c)
    BY ScanAnswer
  <2>4. Analyzed(t, x, y, c)
    BY <2>2, <2>3, Trimmed
  <2> HIDE DEF t
  <2>5. Analyzed(<<>>, NoBlock, NoBlock, NoCode)
    BY <1>1, <2>1, <2>4
  <2> QED
    BY <2>1, <2>4, <2>5 DEF t
<1>2. CASE x # NoBlock /\ c = NoCode
  <2>1. t = <<JMP(x)>> /\ y = NoBlock
    BY <1>2 DEF Form, Good
  <2>2. SubSeq(t, 1, 0) = <<>> /\ SubSeq(t, 1, 1) = t
    BY <2>1, Cut
  <2>3. Start(t) = At(t, 1, NoBlock, NoBlock, NoCode) /\ t[1].op = "JMP" /\ t[1].to = x
    BY <2>1 DEF Start, At, JMP, JCC
  <2> HIDE DEF t
  <2>4. CASE x = n
    <3>1. Trim(Start(t), n) = Answer(<<>>, NoBlock, NoBlock, NoCode)
      BY <2>1, <2>3, <2>2, <2>4, FirstJump
    <3>2. Trim(Answer(<<>>, NoBlock, NoBlock, NoCode), n) = Answer(<<>>, NoBlock, NoBlock, NoCode)
      BY ScanAnswer
    <3>3. Analyzed(<<>>, NoBlock, NoBlock, NoCode)
      BY <3>1, <3>2, Trimmed
    <3> QED
      BY <1>2, <2>4, <3>3 DEF t
  <2>5. CASE x # n
    <3>1. Trim(Start(t), n) = Answer(t, x, y, c)
      BY <1>2, <2>1, <2>3, <2>2, <2>5, FirstJump
    <3>2. Trim(Answer(t, x, y, c), n) = Answer(t, x, y, c)
      BY ScanAnswer
    <3>3. Analyzed(t, x, y, c)
      BY <3>1, <3>2, Trimmed
    <3> QED
      BY <1>2, <2>5, <3>3 DEF t
  <2> QED
    BY <2>4, <2>5
<1>3. CASE x # NoBlock /\ c # NoCode /\ y = NoBlock
  <2>1. t = <<JCC(x, c)>>
    BY <1>3 DEF Form
  <2>2. /\ Start(t) = At(t, 1, NoBlock, NoBlock, NoCode)
        /\ t[1].op = "JCC" /\ t[1].to = x /\ t[1].cc = c
    BY <2>1 DEF Start, At, JMP, JCC
  <2> HIDE DEF t
  <2>3. Trim(Start(t), n) = Answer(t, x, y, c)
    BY <1>3, <2>1, <2>2, LastCond
  <2>4. Trim(Answer(t, x, y, c), n) = Answer(t, x, y, c)
    BY ScanAnswer
  <2>5. Analyzed(t, x, y, c)
    BY <2>3, <2>4, Trimmed
  <2>6. y = n => Analyzed(Form(x, NoBlock, c), x, NoBlock, c)
    BY <1>3, <2>5 DEF t
  <2> QED
    BY <1>3, <2>5, <2>6 DEF t
<1>4. CASE x # NoBlock /\ c # NoCode /\ y # NoBlock
  <2> DEFINE u == Form(x, NoBlock, c)
  <2>1. t = <<JCC(x, c), JMP(y)>> /\ u = <<JCC(x, c)>>
    BY <1>4 DEF Form
  <2>2. SubSeq(t, 1, 1) = u /\ SubSeq(t, 1, 2) = t
    BY <2>1, Cut
  <2>3. /\ Start(t) = At(t, 2, NoBlock, NoBlock, NoCode)
        /\ t[1].op = "JCC" /\ t[1].to = x /\ t[1].cc = c /\ t[2].op = "JMP" /\ t[2].to = y
    BY <2>1 DEF Start, At, JMP, JCC
  <2>4. u[1].op = "JCC" /\ u[1].to = x /\ u[1].cc = c
    BY <2>1 DEF Start, At, JMP, JCC
  <2> HIDE DEF t, u
  <2>5. CASE y = n
    <3>1. Trim(Start(t), n) = At(u, 1, NoBlock, NoBlock, NoCode)
      BY <2>1, <2>3, <2>2, <2>5, SecondJump
    <3>2. Trim(At(u, 1, NoBlock, NoBlock, NoCode), n) = Answer(u, x, NoBlock, c)
      BY <2>4, LastCond
    <3>3. Analyzed(u, x, NoBlock, c)
      BY <3>1, <3>2, Trimmed
    <3> QED
      BY <1>4, <2>5, <3>3 DEF t, u
  <2>6. CASE y # n
    <3>1. Trim(Start(t), n) = At(t, 1, y, NoBlock, NoCode)
      BY <2>1, <2>3, <2>2, <2>6, SecondJump
    <3>2. Trim(At(t, 1, y, NoBlock, NoCode), n) = Answer(t, x, y, c)
      BY <2>1, <2>3, LastCond
    <3>3. Analyzed(t, x, y, c)
      BY <3>1, <3>2, Trimmed
    <3> QED
      BY <1>4, <2>6, <3>3 DEF t
  <2> QED
    BY <2>5, <2>6
<1> QED
  BY <1>1, <1>2, <1>3, <1>4

-----------------------------------------------------------------------------
(* The program's targets.                                                  *)

Places == Blocks \cup {Exit}

\* Where the program wants to go from a source, with flags f
Wants(s, f) == IF Holds(s.cc, f) THEN s.yes ELSE s.no

\* A form that leads there when n is next
Fits(x, y, c, n, s) ==
  Good(x, y, c) /\ \A f \in FlagValues : Leads(x, y, c, n, f) = Wants(s, f)

\* Terminators that do
Realizes(t, n, s) == \E x, y, c : Fits(x, y, c, n, s) /\ t = Form(x, y, c)

\* What AnalyzeBranch answers about such terminators: a jump to the next block is gone.
Analysis(a, x, y, c, n, s) ==
  /\ Fits(x, y, c, n, s) /\ a = Answer(Form(x, y, c), x, y, c)
  /\ c = NoCode => x = NoBlock \/ x # n
  /\ y = NoBlock \/ y # n

(* The opposite of a code is a code, and holds when the code does not.     *)
LEMMA Turned ==
  ASSUME NEW c \in Codes
  PROVE  /\ Reverse(c) \in Codes /\ Reverse(c) # NoCode /\ c # NoCode
         /\ \A f \in FlagValues : Holds(Reverse(c), f) <=> ~Holds(c, f)
<1>1. Reverse(c) \in Codes /\ \A f \in FlagValues : Holds(Reverse(c), f) <=> ~Holds(c, f)
  <2>1. /\ Reverse("E") = "NE" /\ Reverse("NE") = "E" /\ Reverse("L") = "GE"
        /\ Reverse("GE") = "L" /\ Reverse("HS") = "LO" /\ Reverse("LO") = "HS"
    BY DEF Reverse
  <2>2. \A f \in FlagValues : f.c \in BOOLEAN /\ f.z \in BOOLEAN /\ f.l \in BOOLEAN
    BY DEF FlagValues
  <2> QED
    BY <2>1, <2>2 DEF Codes, Holds
<1>2. \A d \in Codes : d # NoCode
  BY DEF Codes, NoCode
<1> QED
  BY <1>1, <1>2

(* Some flags make a condition hold, others do not.                        *)
LEMMA Decided ==
  ASSUME NEW c \in Codes
  PROVE  /\ \E f \in FlagValues : Holds(c, f)
         /\ \E f \in FlagValues : ~Holds(c, f)
<1> DEFINE all == [c |-> TRUE, z |-> TRUE, l |-> TRUE]
           none == [c |-> FALSE, z |-> FALSE, l |-> FALSE]
<1>1. /\ all \in FlagValues /\ all.c /\ all.z /\ all.l
      /\ none \in FlagValues /\ ~none.c /\ ~none.z /\ ~none.l
  BY DEF FlagValues
<1> HIDE DEF all, none
<1>2. (Holds(c, all) /\ ~Holds(c, none)) \/ (~Holds(c, all) /\ Holds(c, none))
  <2>1. CASE c \in {"HS", "E", "L"}
    BY <1>1, <2>1 DEF Holds
  <2>2. CASE c \in {"LO", "NE", "GE"}
    BY <1>1, <2>2 DEF Holds
  <2> QED
    BY <2>1, <2>2 DEF Codes
<1>3. CASE Holds(c, all) /\ ~Holds(c, none)
  BY <1>1, <1>3, Zenon
<1>4. CASE ~Holds(c, all) /\ Holds(c, none)
  BY <1>1, <1>4, Zenon
<1> QED
  BY <1>2, <1>3, <1>4

(* No condition code stands for no condition.                              *)
LEMMA NoCodeIsNone == NoCode \notin Codes
BY DEF Codes, NoCode

(* The targets of a form are those of the program.                         *)
LEMMA FitTargets ==
  ASSUME NEW s \in [cc : Codes, yes : Places, no : Places],
         NEW x, NEW y, NEW c, NEW n, Fits(x, y, c, n, s)
  PROVE
    /\ x = NoBlock => s.yes = n /\ s.no = n
    /\ x # NoBlock /\ c = NoCode => s.yes = x /\ s.no = x
    /\ c # NoCode /\ y # NoBlock => {s.yes, s.no} = {x, y}
    /\ c # NoCode /\ y = NoBlock => {s.yes, s.no} = {x, n}
<1> USE NoCodeIsNone
<1>1. s.cc \in Codes
  OBVIOUS
<1>2. PICK f \in FlagValues : Holds(s.cc, f)
  BY <1>1, Decided
<1>3. PICK g \in FlagValues : ~Holds(s.cc, g)
  BY <1>1, Decided
<1>4. Leads(x, y, c, n, f) = s.yes /\ Leads(x, y, c, n, g) = s.no
  BY <1>2, <1>3 DEF Fits, Wants
<1>5. \A h \in FlagValues : Leads(x, y, c, n, h) \in {s.yes, s.no}
  BY DEF Fits, Wants
<1>6. CASE x = NoBlock
  BY <1>4, <1>6 DEF Fits, Good, Leads
<1>7. CASE x # NoBlock /\ c = NoCode
  BY <1>4, <1>7 DEF Leads
<1>8. CASE x # NoBlock /\ c # NoCode
  <2>1. c \in Codes
    BY <1>8 DEF Fits, Good
  <2>2. PICK h \in FlagValues : Holds(c, h)
    BY <2>1, Decided
  <2>3. PICK k \in FlagValues : ~Holds(c, k)
    BY <2>1, Decided
  <2>4. x \in {s.yes, s.no}
    BY <1>5, <1>8, <2>2 DEF Leads
  <2>5. (IF y # NoBlock THEN y ELSE n) \in {s.yes, s.no}
    BY <1>5, <1>8, <2>3 DEF Leads
  <2>6. {s.yes, s.no} \subseteq {x, IF y # NoBlock THEN y ELSE n}
    BY <1>4, <1>8 DEF Leads
  <2> QED
    BY <1>8, <2>4, <2>5, <2>6
<1> QED
  BY <1>6, <1>7, <1>8 DEF Fits, Good

(* The analysis keeps where the terminators lead.                          *)
LEMMA Analyzed ==
  ASSUME NEW s, NEW n \in Targets, NEW t, Realizes(t, n, s)
  PROVE  \E x, y, c : Analysis(AnalyzeBranch(t, n, TRUE), x, y, c, n, s)
<1>1. PICK x, y, c : Fits(x, y, c, n, s) /\ t = Form(x, y, c)
  BY DEF Realizes
<1>2. Good(x, y, c)
  BY <1>1 DEF Fits
<1> DEFINE a == AnalyzeBranch(t, n, TRUE)
<1>3. /\ x = n /\ c = NoCode => a = Answer(<<>>, NoBlock, NoBlock, NoCode)
      /\ c # NoCode /\ y = n => a = Answer(Form(x, NoBlock, c), x, NoBlock, c)
      /\ ~(x = n /\ c = NoCode) /\ ~(c # NoCode /\ y = n) => a = Answer(Form(x, y, c), x, y, c)
  BY <1>1, <1>2, FormTrimmed
<1> HIDE DEF a
<1>4. CASE x = n /\ c = NoCode
  <2>1. Form(NoBlock, NoBlock, NoCode) = <<>> /\ Good(NoBlock, NoBlock, NoCode)
    BY DEF Form, Good, Targets
  <2>2. \A f \in FlagValues : Leads(NoBlock, NoBlock, NoCode, n, f) = Leads(x, y, c, n, f)
    BY <1>4, <1>2 DEF Leads, Good
  <2>3. Fits(NoBlock, NoBlock, NoCode, n, s)
    BY <1>1, <2>1, <2>2 DEF Fits
  <2>4. Analysis(a, NoBlock, NoBlock, NoCode, n, s)
    BY <1>3, <1>4, <2>1, <2>3 DEF Analysis
  <2> QED
    BY <2>4 DEF a
<1>5. CASE c # NoCode /\ y = n
  <2>1. Good(x, NoBlock, c)
    BY <1>5, <1>2 DEF Good, Targets
  <2>2. \A f \in FlagValues : Leads(x, NoBlock, c, n, f) = Leads(x, y, c, n, f)
    BY <1>5 DEF Leads
  <2>3. Fits(x, NoBlock, c, n, s)
    BY <1>1, <2>1, <2>2 DEF Fits
  <2>4. Analysis(a, x, NoBlock, c, n, s)
    BY <1>3, <1>5, <2>3 DEF Analysis
  <2> QED
    BY <2>4 DEF a
<1>6. CASE ~(x = n /\ c = NoCode) /\ ~(c # NoCode /\ y = n)
  <2>1. c = NoCode => y = NoBlock
    BY <1>2 DEF Good
  <2>2. a = Answer(Form(x, y, c), x, y, c)
    BY <1>3, <1>6
  <2>3. Analysis(a, x, y, c, n, s)
    BY <1>1, <1>6, <2>1, <2>2 DEF Analysis
  <2> QED
    BY <2>3 DEF a
<1> QED
  BY <1>4, <1>5, <1>6

(* The fields of an answer.                                                *)
LEMMA AnswerFields ==
  ASSUME NEW t, NEW x, NEW y, NEW c
  PROVE  LET a == Answer(t, x, y, c)
         IN a.term = t /\ a.found /\ a.tbb = x /\ a.fbb = y /\ a.cond = c
BY DEF Answer, At

(* Nothing is known about a return.                                        *)
LEMMA ReturnAnalyzed ==
  ASSUME NEW n, NEW modify \in BOOLEAN
  PROVE  LET a == AnalyzeBranch(<<Return>>, n, modify)
         IN a.term = <<Return>> /\ ~a.found
<1> DEFINE a == Start(<<Return>>)
           b == [a EXCEPT !.found = FALSE]
<1>1. a.k = 1 /\ a.found /\ a.term = <<Return>> /\ a.term[1].op = "RET"
  BY DEF Start, Return
<1>2. b.term = <<Return>> /\ ~b.found
  BY DEF Start
<1>3. Scan(a, n, modify) = b
  <2> HIDE DEF b
  <2>1. Scan(a, n, modify) = [a EXCEPT !.found = FALSE]
    BY <1>1 DEF Scan
  <2> QED
    BY <2>1 DEF b
<1> HIDE DEF a, b
<1>4. Scan(b, n, modify) = b
  BY <1>2 DEF Scan
<1>5. AnalyzeBranch(<<Return>>, n, modify) = b
  BY <1>3, <1>4 DEF AnalyzeBranch, a
<1> QED
  BY <1>2, <1>5

-----------------------------------------------------------------------------
(* What the rewritings make of the terminators.                            *)

(* How a form is shown to realize a source.                                *)
LEMMA Realized ==
  ASSUME NEW s, NEW n, NEW t, NEW x, NEW y, NEW c, Good(x, y, c), t = Form(x, y, c),
         \A f \in FlagValues : Leads(x, y, c, n, f) = Wants(s, f)
  PROVE  Realizes(t, n, s)
BY Zenon DEF Realizes, Fits

(* A form that realizes the source realizes blocks, and its edges suffice. *)
LEMMA FitBlocks ==
  ASSUME NEW s \in [cc : Codes, yes : Places, no : Places], NEW n \in Targets,
         NEW x, NEW y, NEW c, Fits(x, y, c, n, s)
  PROVE  s.yes \in Blocks /\ s.no \in Blocks /\ {s.yes, s.no} \ {Exit} = {s.yes, s.no}
<1>1. x \in Targets /\ y \in Targets
  BY DEF Fits, Good
<1>2. s.yes \in {x, y, n} /\ s.no \in {x, y, n}
  BY FitTargets
<1>3. NoBlock \notin Places /\ Exit \notin Blocks
  BY BlocksAssumption DEF Places
<1> QED
  BY <1>1, <1>2, <1>3 DEF Targets, Places

(* CorrectExtraCFGEdges removes no edge that is needed.                    *)
LEMMA EdgesCorrect ==
  ASSUME NEW s \in [cc : Codes, yes : Places, no : Places], NEW n \in Targets,
         NEW a, NEW x, NEW y, NEW c, Analysis(a, x, y, c, n, s)
  PROVE  CorrectEdges(a, n, {s.yes, s.no}) = {s.yes, s.no}
<1>1. Fits(x, y, c, n, s) /\ a.tbb = x /\ a.fbb = y /\ a.cond = c
  BY AnswerFields DEF Analysis
<1>2. /\ x = NoBlock => s.yes = n /\ s.no = n
      /\ x # NoBlock /\ c = NoCode => s.yes = x /\ s.no = x
      /\ c # NoCode /\ y # NoBlock => {s.yes, s.no} = {x, y}
      /\ c # NoCode /\ y = NoBlock => {s.yes, s.no} = {x, n}
  BY <1>1, FitTargets
<1>3. Good(x, y, c)
  BY <1>1 DEF Fits
<1> QED
  BY <1>1, <1>2, <1>3 DEF CorrectEdges, Good

(* OptimizeBlock on the next block leads the branches where they led.      *)
LEMMA FoldPriorKeeps ==
  ASSUME NEW s, NEW n \in Blocks, NEW a, NEW x, NEW y, NEW c, Analysis(a, x, y, c, n, s)
  PROVE  Realizes(FoldPrior(a, n), n, s)
<1>1. /\ Good(x, y, c) /\ a.tbb = x /\ a.fbb = y /\ a.cond = c /\ a.term = Form(x, y, c)
      /\ \A f \in FlagValues : Leads(x, y, c, n, f) = Wants(s, f)
  BY AnswerFields DEF Analysis, Fits
<1>2. n # NoBlock /\ n \in Targets
  BY BlocksAssumption DEF Targets
<1>3. RemoveBranch(Form(x, y, c)) = Form(NoBlock, NoBlock, NoCode) /\ Good(NoBlock, NoBlock, NoCode)
  BY <1>1, FormRemoved DEF Form, Good, Targets
<1>4. CASE x # NoBlock /\ x = y
  <2>1. CASE x = n
    <3>1. FoldPrior(a, n) = Form(NoBlock, NoBlock, NoCode)
      BY <1>1, <1>3, <1>4, <2>1 DEF FoldPrior
    <3>2. \A f \in FlagValues : Leads(NoBlock, NoBlock, NoCode, n, f) = Wants(s, f)
      BY <1>1, <1>4, <2>1 DEF Leads
    <3> QED
      BY <1>3, <3>1, <3>2, Realized
  <2>2. CASE x # n
    <3>1. Good(x, NoBlock, NoCode)
      BY <1>1, <1>4 DEF Good, Targets
    <3>2. FoldPrior(a, n) = Form(x, NoBlock, NoCode)
      BY <1>1, <1>4, <2>2, <3>1, FormRebranched DEF FoldPrior
    <3>3. \A f \in FlagValues : Leads(x, NoBlock, NoCode, n, f) = Wants(s, f)
      BY <1>1, <1>4 DEF Leads
    <3> QED
      BY <3>1, <3>2, <3>3, Realized
  <2> QED
    BY <2>1, <2>2
<1>5. CASE x = n /\ y = NoBlock
  <2>1. FoldPrior(a, n) = Form(NoBlock, NoBlock, NoCode)
    BY <1>1, <1>2, <1>3, <1>5 DEF FoldPrior
  <2>2. \A f \in FlagValues : Leads(NoBlock, NoBlock, NoCode, n, f) = Wants(s, f)
    BY <1>1, <1>5 DEF Leads
  <2> QED
    BY <1>3, <2>1, <2>2, Realized
<1>6. CASE x # y /\ y = n
  <2>1. Good(x, NoBlock, c) /\ x # NoBlock
    BY <1>1, <1>2, <1>6 DEF Good, Targets
  <2>2. FoldPrior(a, n) = Form(x, NoBlock, c)
    BY <1>1, <1>2, <1>6, <2>1, FormRebranched DEF FoldPrior
  <2>3. \A f \in FlagValues : Leads(x, NoBlock, c, n, f) = Wants(s, f)
    BY <1>1, <1>2, <1>6 DEF Leads, Good
  <2> QED
    BY <2>1, <2>2, <2>3, Realized
<1>7. CASE x = n /\ y # NoBlock /\ y # n
  <2>1. c \in Codes
    BY <1>1, <1>7 DEF Good
  <2>2. Good(y, NoBlock, Reverse(c))
    BY <1>1, <1>7, <2>1, Turned DEF Good, Targets
  <2>3. FoldPrior(a, n) = Form(y, NoBlock, Reverse(c))
    BY <1>1, <1>2, <1>7, <2>2, FormRebranched DEF FoldPrior
  <2>4. \A f \in FlagValues : Leads(y, NoBlock, Reverse(c), n, f) = Leads(x, y, c, n, f)
    BY <1>2, <1>7, <2>1, Turned DEF Leads
  <2> QED
    BY <1>1, <2>2, <2>3, <2>4, Realized
<1>8. CASE x # n /\ y # n /\ (x = NoBlock \/ x # y)
  <2>1. FoldPrior(a, n) = Form(x, y, c)
    BY <1>1, <1>8 DEF FoldPrior
  <2> QED
    BY <1>1, <2>1, Realized
<1> QED
  BY <1>4, <1>5, <1>6, <1>7, <1>8

(* So does turning a loop of one block round.                              *)
LEMMA FoldSelfKeeps ==
  ASSUME NEW s, NEW n \in Targets, NEW a, NEW x, NEW y, NEW c, Analysis(a, x, y, c, n, s)
  PROVE  Realizes(FoldSelf(a), n, s)
<1>1. /\ Good(x, y, c) /\ a.tbb = x /\ a.fbb = y /\ a.cond = c /\ a.term = Form(x, y, c)
      /\ \A f \in FlagValues : Leads(x, y, c, n, f) = Wants(s, f)
  BY AnswerFields DEF Analysis, Fits
<1>2. CASE x # NoBlock /\ y # NoBlock /\ y = Self /\ x # Self
  <2>1. c \in Codes
    BY <1>1, <1>2 DEF Good
  <2>2. Good(y, x, Reverse(c))
    BY <1>1, <1>2, <2>1, Turned DEF Good
  <2>3. FoldSelf(a) = Form(y, x, Reverse(c))
    BY <1>1, <1>2, <2>2, FormRebranched DEF FoldSelf
  <2>4. \A f \in FlagValues : Leads(y, x, Reverse(c), n, f) = Leads(x, y, c, n, f)
    BY <1>2, <2>1, Turned DEF Leads
  <2> QED
    BY <1>1, <2>2, <2>3, <2>4, Realized
<1>3. CASE ~(x # NoBlock /\ y # NoBlock /\ y = Self /\ x # Self)
  <2>1. FoldSelf(a) = Form(x, y, c)
    BY <1>1, <1>3 DEF FoldSelf
  <2> QED
    BY <1>1, <2>1, Realized
<1> QED
  BY <1>2, <1>3

-----------------------------------------------------------------------------
(* A target that is replaced.                                              *)

\* The source after its target old became new
Retarget(s, old, new) ==
  [s EXCEPT !.yes = Renamed(@, old, new), !.no = Renamed(@, old, new)]

(* A source that was retargeted wants the replaced targets.                *)
LEMMA RetargetWants ==
  ASSUME NEW s \in [cc : Codes, yes : Places, no : Places],
         NEW old \in Blocks, NEW new \in Blocks
  PROVE
    /\ Retarget(s, old, new) \in [cc : Codes, yes : Places, no : Places]
    /\ Retarget(s, old, new).yes = Renamed(s.yes, old, new)
    /\ Retarget(s, old, new).no = Renamed(s.no, old, new)
    /\ \A f \in FlagValues : Wants(Retarget(s, old, new), f) = Renamed(Wants(s, f), old, new)
<1>1. /\ Retarget(s, old, new) \in [cc : Codes, yes : Places, no : Places]
      /\ Retarget(s, old, new).yes = Renamed(s.yes, old, new)
      /\ Retarget(s, old, new).no = Renamed(s.no, old, new)
      /\ Retarget(s, old, new).cc = s.cc
  BY DEF Retarget, Renamed, Places
<1>2. \A f \in FlagValues : Wants(Retarget(s, old, new), f) = Renamed(Wants(s, f), old, new)
  BY <1>1 DEF Wants
<1> QED
  BY <1>1, <1>2

(* ReplaceUsesOfBlockWith maps forms to forms.                             *)
LEMMA ReplaceInForm ==
  ASSUME NEW x, NEW y, NEW c, Good(x, y, c), NEW old \in Blocks, NEW new \in Blocks
  PROVE  /\ Good(Renamed(x, old, new), Renamed(y, old, new), c)
         /\ ReplaceUses(Form(x, y, c), old, new)
              = Form(Renamed(x, old, new), Renamed(y, old, new), c)
<1>1. NoBlock # old /\ NoBlock # new
  BY BlocksAssumption
<1>2. Good(Renamed(x, old, new), Renamed(y, old, new), c)
  BY <1>1 DEF Good, Renamed, Targets
<1> DEFINE xx == Renamed(x, old, new)
           yy == Renamed(y, old, new)
           change(i) == [i EXCEPT !.to = Renamed(@, old, new)]
<1>3. (xx = NoBlock <=> x = NoBlock) /\ (yy = NoBlock <=> y = NoBlock)
  BY <1>1 DEF Renamed
<1>4. change(JMP(x)) = JMP(xx) /\ change(JMP(y)) = JMP(yy) /\ change(JCC(x, c)) = JCC(xx, c)
  BY DEF JMP, JCC
<1>5. /\ ReplaceUses(<<>>, old, new) = <<>>
      /\ \A i : ReplaceUses(<<i>>, old, new) = <<change(i)>>
      /\ \A i, j : ReplaceUses(<<i, j>>, old, new) = <<change(i), change(j)>>
  <2> HIDE DEF change, xx, yy
  <2>1. \A t : ReplaceUses(t, old, new) = [k \in DOMAIN t |-> change(t[k])]
    BY DEF ReplaceUses, change
  <2>2. ReplaceUses(<<>>, old, new) = <<>>
    BY <2>1
  <2>3. ASSUME NEW i PROVE ReplaceUses(<<i>>, old, new) = <<change(i)>>
    BY <2>1
  <2>4. ASSUME NEW i, NEW j PROVE ReplaceUses(<<i, j>>, old, new) = <<change(i), change(j)>>
    <3>1. DOMAIN <<i, j>> = 1..2 /\ <<i, j>>[1] = i /\ <<i, j>>[2] = j
      OBVIOUS
    <3>2. ReplaceUses(<<i, j>>, old, new) = [k \in 1..2 |-> change(<<i, j>>[k])]
      BY <2>1, <3>1
    <3> QED
      BY <3>1, <3>2
  <2> QED
    BY <2>2, <2>3, <2>4
<1> HIDE DEF change, xx, yy
<1>6. ReplaceUses(Form(x, y, c), old, new) = Form(xx, yy, c)
  <2>1. CASE x = NoBlock
    <3>1. Form(x, y, c) = <<>> /\ Form(xx, yy, c) = <<>>
      BY <1>3, <2>1 DEF Form
    <3> QED
      BY <1>5, <3>1
  <2>2. CASE x # NoBlock /\ c = NoCode
    <3>1. Form(x, y, c) = <<JMP(x)>> /\ Form(xx, yy, c) = <<JMP(xx)>>
      BY <1>3, <2>2 DEF Form
    <3>2. ReplaceUses(<<JMP(x)>>, old, new) = <<change(JMP(x))>>
      BY <1>5
    <3> QED
      BY <1>4, <3>1, <3>2
  <2>3. CASE x # NoBlock /\ c # NoCode /\ y = NoBlock
    <3>1. Form(x, y, c) = <<JCC(x, c)>> /\ Form(xx, yy, c) = <<JCC(xx, c)>>
      BY <1>3, <2>3 DEF Form
    <3>2. ReplaceUses(<<JCC(x, c)>>, old, new) = <<change(JCC(x, c))>>
      BY <1>5
    <3> QED
      BY <1>4, <3>1, <3>2
  <2>4. CASE x # NoBlock /\ c # NoCode /\ y # NoBlock
    <3>1. /\ Form(x, y, c) = <<JCC(x, c), JMP(y)>>
          /\ Form(xx, yy, c) = <<JCC(xx, c), JMP(yy)>>
      BY <1>3, <2>4 DEF Form
    <3>2. ReplaceUses(<<JCC(x, c), JMP(y)>>, old, new) = <<change(JCC(x, c)), change(JMP(y))>>
      BY <1>5
    <3> QED
      BY <1>4, <3>1, <3>2
  <2> QED
    BY <2>1, <2>2, <2>3, <2>4
<1> QED
  BY <1>2, <1>6 DEF xx, yy

(* Replacing a block commutes with following the branches.                 *)
LEMMA LeadsRenamed ==
  ASSUME NEW x, NEW y, NEW c, NEW n, NEW f, NEW old \in Blocks, NEW new \in Blocks
  PROVE  Leads(Renamed(x, old, new), Renamed(y, old, new), c, Renamed(n, old, new), f)
           = Renamed(Leads(x, y, c, n, f), old, new)
BY BlocksAssumption DEF Leads, Renamed

(* Replaced terminators realize the retargeted source.                     *)
LEMMA ReplaceKeeps ==
  ASSUME NEW s \in [cc : Codes, yes : Places, no : Places], NEW n \in Targets,
         NEW old \in Blocks, NEW new \in Blocks,
         NEW t, Realizes(t, n, s)
  PROVE  Realizes(ReplaceUses(t, old, new), Renamed(n, old, new), Retarget(s, old, new))
<1>1. PICK x, y, c : Fits(x, y, c, n, s) /\ t = Form(x, y, c)
  BY DEF Realizes
<1>2. Good(x, y, c) /\ \A f \in FlagValues : Leads(x, y, c, n, f) = Wants(s, f)
  BY <1>1 DEF Fits
<1>3. /\ Good(Renamed(x, old, new), Renamed(y, old, new), c)
      /\ ReplaceUses(t, old, new) = Form(Renamed(x, old, new), Renamed(y, old, new), c)
  BY <1>1, <1>2, ReplaceInForm
<1>4. \A f \in FlagValues :
        Leads(Renamed(x, old, new), Renamed(y, old, new), c, Renamed(n, old, new), f)
          = Wants(Retarget(s, old, new), f)
  BY <1>2, LeadsRenamed, RetargetWants
<1> QED
  BY <1>3, <1>4, Realized

(* The replaced edges are the targets of the retargeted source.            *)
LEMMA ReplaceTargets ==
  ASSUME NEW s \in [cc : Codes, yes : Places, no : Places],
         NEW old \in Blocks, NEW new \in Blocks
  PROVE  ReplaceEdge({s.yes, s.no}, old, new)
           = {Retarget(s, old, new).yes, Retarget(s, old, new).no}
<1>1. /\ Retarget(s, old, new).yes = Renamed(s.yes, old, new)
      /\ Retarget(s, old, new).no = Renamed(s.no, old, new)
  BY RetargetWants
<1> QED
  BY <1>1 DEF ReplaceEdge

-----------------------------------------------------------------------------
(* Splitting an edge.                                                      *)

(* updateTerminator adapts a conditional branch, whose false target is y   *)
(* or, if there is none, z, to the block laid out next.                    *)
LEMMA UpdateKeeps ==
  ASSUME NEW s \in [cc : Codes, yes : Places, no : Places], s.yes # s.no,
         NEW new \in Blocks,
         NEW x, NEW y, NEW z, NEW c, Good(x, y, c), c # NoCode, z \in Blocks,
         z = y \/ y = NoBlock,
         \A f \in FlagValues : (IF Holds(c, f) THEN x ELSE z) = Wants(s, f),
         {s.yes, s.no} = {x, z}
  PROVE  Realizes(UpdateTerminator(Form(x, y, c), new, {s.yes, s.no}), new, s)
<1> DEFINE t == Form(x, y, c)
           u == UpdateTerminator(t, new, {s.yes, s.no})
<1>1. c \in Codes /\ x # NoBlock /\ x \in Targets /\ x # z /\ new # NoBlock /\ z # NoBlock
  BY BlocksAssumption, NoCodeIsNone DEF Good
<1>2. Reverse(c) \in Codes /\ \A f \in FlagValues : Holds(Reverse(c), f) <=> ~Holds(c, f)
  BY <1>1, Turned
<1>3. AnalyzeBranch(t, new, FALSE) = Answer(t, x, y, c)
  BY FormAnalyzed
<1>4. (CHOOSE b \in {s.yes, s.no} : b # x) = z
  BY <1>1
<1>5. u = IF y # NoBlock
          THEN IF x = new THEN Rebranch(t, y, NoBlock, Reverse(c))
               ELSE IF y = new THEN Rebranch(t, x, NoBlock, c) ELSE t
          ELSE IF x = new THEN Rebranch(t, z, NoBlock, Reverse(c))
               ELSE IF z # new THEN Rebranch(t, x, z, c) ELSE t
  <2> DEFINE a == AnalyzeBranch(t, new, FALSE)
             other == CHOOSE b \in {s.yes, s.no} : b # a.tbb
  <2>1. a.tbb = x /\ a.fbb = y /\ a.cond = c
    <3>1. /\ Answer(t, x, y, c).tbb = x /\ Answer(t, x, y, c).fbb = y
          /\ Answer(t, x, y, c).cond = c
      BY AnswerFields
    <3> HIDE DEF t
    <3> QED
      BY <1>3, <3>1
  <2> HIDE DEF t
  <2>2. u = IF a.fbb # NoBlock
            THEN IF a.tbb = new THEN Rebranch(t, a.fbb, NoBlock, Reverse(a.cond))
                 ELSE IF a.fbb = new THEN Rebranch(t, a.tbb, NoBlock, a.cond) ELSE t
            ELSE IF a.tbb = new THEN Rebranch(t, other, NoBlock, Reverse(a.cond))
                 ELSE IF other # new THEN Rebranch(t, a.tbb, other, a.cond) ELSE t
    BY Zenon DEF UpdateTerminator
  <2> HIDE DEF a, u
  <2>3. other = z
    BY <1>4, <2>1
  <2> HIDE DEF other
  <2> QED
    BY <2>1, <2>2, <2>3
<1>6. /\ Good(z, NoBlock, Reverse(c)) /\ Good(x, NoBlock, c) /\ Good(x, z, c)
  BY <1>1, <1>2, NoCodeIsNone DEF Good, Targets
<1>7. /\ Rebranch(t, z, NoBlock, Reverse(c)) = Form(z, NoBlock, Reverse(c))
      /\ Rebranch(t, x, NoBlock, c) = Form(x, NoBlock, c)
      /\ Rebranch(t, x, z, c) = Form(x, z, c)
  BY <1>1, <1>6, FormRebranched
<1> HIDE DEF t, u
<1>8. CASE x = new
  <2>1. u = Form(z, NoBlock, Reverse(c))
    BY <1>5, <1>7, <1>8
  <2>2. \A f \in FlagValues : Leads(z, NoBlock, Reverse(c), new, f) = Wants(s, f)
    BY <1>1, <1>2, <1>8, NoCodeIsNone DEF Leads
  <2>3. Realizes(u, new, s)
    BY <1>6, <2>1, <2>2, Realized
  <2> QED
    BY <2>3 DEF u, t
<1>9. CASE x # new /\ z = new
  <2>1. u = Form(x, NoBlock, c)
    BY <1>5, <1>7, <1>9 DEF t
  <2>2. \A f \in FlagValues : Leads(x, NoBlock, c, new, f) = Wants(s, f)
    BY <1>1, <1>9 DEF Leads
  <2>3. Realizes(u, new, s)
    BY <1>6, <2>1, <2>2, Realized
  <2> QED
    BY <2>3 DEF u, t
<1>10. CASE x # new /\ z # new
  <2>1. u = Form(x, z, c)
    BY <1>5, <1>7, <1>10 DEF t
  <2>2. \A f \in FlagValues : Leads(x, z, c, new, f) = Wants(s, f)
    BY <1>1, <1>10 DEF Leads
  <2>3. Realizes(u, new, s)
    BY <1>6, <2>1, <2>2, Realized
  <2> QED
    BY <2>3 DEF u, t
<1> QED
  BY <1>8, <1>9, <1>10

(* A split edge: the new block stands for the old one and is next.         *)
LEMMA SplitKeeps ==
  ASSUME NEW s \in [cc : Codes, yes : Places, no : Places], NEW n \in Targets,
         NEW old \in Blocks, NEW new \in Blocks, old \in {s.yes, s.no},
         {s.yes, s.no} # {old}, new \notin {s.yes, s.no},
         NEW t, Realizes(t, n, s)
  PROVE  LET r == Retarget(s, old, new)
         IN Realizes(UpdateTerminator(ReplaceUses(t, old, new), new, {r.yes, r.no}), new, r)
<1> DEFINE r == Retarget(s, old, new)
           R(b) == Renamed(b, old, new)
<1>1. PICK x, y, c : Fits(x, y, c, n, s) /\ t = Form(x, y, c)
  BY DEF Realizes
<1>2. Good(x, y, c) /\ \A f \in FlagValues : Leads(x, y, c, n, f) = Wants(s, f)
  BY <1>1 DEF Fits
<1>3. s.yes \in Blocks /\ s.no \in Blocks
  BY <1>1, FitBlocks
<1>4. c # NoCode /\ x # NoBlock
  BY <1>1, <1>2, FitTargets DEF Good
<1> DEFINE z == IF y = NoBlock THEN n ELSE y
<1>5. {s.yes, s.no} = {x, z}
  BY <1>1, <1>4, FitTargets
<1>6. \A f \in FlagValues : (IF Holds(c, f) THEN x ELSE z) = Wants(s, f)
  BY <1>2, <1>4 DEF Leads
<1>7. /\ r \in [cc : Codes, yes : Places, no : Places]
      /\ r.yes = R(s.yes) /\ r.no = R(s.no)
      /\ \A f \in FlagValues : Wants(r, f) = R(Wants(s, f))
  BY RetargetWants
<1>8. /\ Good(R(x), R(y), c)
      /\ ReplaceUses(t, old, new) = Form(R(x), R(y), c)
  BY <1>1, <1>2, ReplaceInForm
<1>9. R(z) \in Blocks /\ (R(z) = R(y) \/ R(y) = NoBlock)
  <2>1. z \in Blocks
    BY <1>3, <1>5
  <2> QED
    BY <2>1, BlocksAssumption DEF Renamed
<1>10. \A f \in FlagValues : (IF Holds(c, f) THEN R(x) ELSE R(z)) = Wants(r, f)
  BY <1>6, <1>7
<1>11. {r.yes, r.no} = {R(x), R(z)}
  <2> HIDE DEF r, z, R
  <2> QED
    BY <1>5, <1>7
<1>12. r.yes # r.no
  BY <1>7 DEF Renamed
<1> HIDE DEF r, R, z
<1>13. Realizes(UpdateTerminator(Form(R(x), R(y), c), new, {r.yes, r.no}), new, r)
  BY <1>4, <1>7, <1>8, <1>9, <1>10, <1>11, <1>12, UpdateKeeps
<1>14. Realizes(UpdateTerminator(ReplaceUses(t, old, new), new, {r.yes, r.no}), new, r)
  BY <1>8, <1>13
<1> QED
  BY <1>14 DEF r

-----------------------------------------------------------------------------
(* Tails that are compared.                                                *)

(* After FixTail the block goes on to b where its branch does not hold.    *)
LEMMA FixTailKeeps ==
  ASSUME NEW s, NEW n \in Targets, NEW b \in Blocks,
         NEW x, NEW c, Good(x, NoBlock, c), x # NoBlock => c # NoCode,
         \A f \in FlagValues : Leads(x, NoBlock, c, b, f) = Wants(s, f)
  PROVE  Realizes(FixTail(Form(x, NoBlock, c), n, b), n, s)
<1> DEFINE t == Form(x, NoBlock, c)
           joined == IF x = NoBlock THEN Form(b, NoBlock, NoCode) ELSE Form(x, b, c)
           a == AnalyzeBranch(t, n, TRUE)
<1>1. b # NoBlock /\ b \in Targets
  BY BlocksAssumption DEF Targets
<1>2. InsertBranch(t, b, NoBlock, NoCode) = joined
  BY FormExtended
<1>3. Realizes(joined, n, s)
  <2>1. CASE x = NoBlock
    <3>1. Good(b, NoBlock, NoCode)
      BY <1>1 DEF Good, Targets
    <3>2. \A f \in FlagValues : Leads(b, NoBlock, NoCode, n, f) = Wants(s, f)
      BY <1>1, <2>1 DEF Leads
    <3>3. joined = Form(b, NoBlock, NoCode)
      BY <2>1
    <3> QED
      BY <3>1, <3>2, <3>3, Realized
  <2>2. CASE x # NoBlock
    <3>1. Good(x, b, c)
      BY <1>1, <2>2 DEF Good
    <3>2. \A f \in FlagValues : Leads(x, b, c, n, f) = Wants(s, f)
      BY <1>1, <2>2 DEF Leads
    <3>3. joined = Form(x, b, c)
      BY <2>2
    <3> QED
      BY <3>1, <3>2, <3>3, Realized
  <2> QED
    BY <2>1, <2>2
<1>4. CASE n = NoBlock
  <2>1. FixTail(t, n, b) = InsertBranch(t, b, NoBlock, NoCode)
    BY <1>4, Zenon DEF FixTail
  <2> QED
    BY <1>2, <1>3, <2>1
<1>5. CASE n # NoBlock
  <2>1. a = Answer(t, x, NoBlock, c)
    <3>1. ~(x = n /\ c = NoCode) /\ ~(c # NoCode /\ NoBlock = n)
      BY <1>5
    <3> QED
      BY <3>1, FormTrimmed
  <2>2. a.found /\ a.tbb = x /\ a.cond = c /\ a.fbb = NoBlock /\ a.term = t
    <3>1. /\ Answer(t, x, NoBlock, c).found /\ Answer(t, x, NoBlock, c).tbb = x
          /\ Answer(t, x, NoBlock, c).cond = c /\ Answer(t, x, NoBlock, c).fbb = NoBlock
          /\ Answer(t, x, NoBlock, c).term = t
      BY AnswerFields
    <3> HIDE DEF a, t
    <3> QED
      BY <2>1, <3>1
  <2>3. FixTail(t, n, b) = IF a.found /\ a.tbb = n /\ a.cond # NoCode /\ a.fbb = NoBlock
                           THEN Rebranch(a.term, b, NoBlock, Reverse(a.cond))
                           ELSE InsertBranch(a.term, b, NoBlock, NoCode)
    BY <1>5, Zenon DEF FixTail
  <2> HIDE DEF a, joined
  <2>4. CASE x = n
    <3>1. c \in Codes /\ c # NoCode
      BY <1>5, <2>4 DEF Good
    <3>2. Good(b, NoBlock, Reverse(c))
      BY <1>1, <3>1, Turned DEF Good, Targets
    <3>3. FixTail(t, n, b) = Rebranch(t, b, NoBlock, Reverse(c))
      BY <2>2, <2>3, <2>4, <3>1
    <3>4. Rebranch(t, b, NoBlock, Reverse(c)) = Form(b, NoBlock, Reverse(c))
      BY <1>1, <3>2, FormRebranched
    <3>5. \A f \in FlagValues : Leads(b, NoBlock, Reverse(c), n, f) = Leads(x, NoBlock, c, b, f)
      BY <1>1, <1>5, <2>4, <3>1, Turned DEF Leads
    <3> QED
      BY <3>2, <3>3, <3>4, <3>5, Realized
  <2>5. CASE x # n
    <3>1. FixTail(t, n, b) = InsertBranch(t, b, NoBlock, NoCode)
      BY <2>2, <2>3, <2>5
    <3> QED
      BY <1>2, <1>3, <3>1
  <2> QED
    BY <2>4, <2>5
<1> QED
  BY <1>4, <1>5

(* What is left without the branch to b goes to b where it falls through.  *)
LEMMA WithoutBranch ==
  ASSUME NEW s \in [cc : Codes, yes : Places, no : Places], NEW n \in Targets,
         NEW a, NEW x, NEW y, NEW c, Analysis(a, x, y, c, n, s), NEW b \in {s.yes, s.no}
  PROVE  \/ b = n /\ Realizes(WithoutBranchTo(a, n, b), n, s)
         \/ b # n /\ \E x2, c2 :
              /\ Good(x2, NoBlock, c2) /\ (x2 # NoBlock => c2 # NoCode)
              /\ WithoutBranchTo(a, n, b) = Form(x2, NoBlock, c2)
              /\ \A f \in FlagValues : Leads(x2, NoBlock, c2, b, f) = Wants(s, f)
<1> DEFINE t == WithoutBranchTo(a, n, b)
           no == IF c # NoCode /\ x = b /\ y = NoBlock THEN n ELSE y
           Left(x2, c2) ==
             /\ Good(x2, NoBlock, c2) /\ (x2 # NoBlock => c2 # NoCode)
             /\ t = Form(x2, NoBlock, c2)
             /\ \A f \in FlagValues : Leads(x2, NoBlock, c2, b, f) = Wants(s, f)
<1>1. /\ Good(x, y, c) /\ a.tbb = x /\ a.fbb = y /\ a.cond = c /\ a.term = Form(x, y, c)
      /\ \A f \in FlagValues : Leads(x, y, c, n, f) = Wants(s, f)
      /\ (c = NoCode => x = NoBlock \/ x # n) /\ (y = NoBlock \/ y # n)
  BY AnswerFields DEF Analysis, Fits
<1>2. /\ x = NoBlock => s.yes = n /\ s.no = n
      /\ x # NoBlock /\ c = NoCode => s.yes = x /\ s.no = x
      /\ c # NoCode /\ y # NoBlock => {s.yes, s.no} = {x, y}
      /\ c # NoCode /\ y = NoBlock => {s.yes, s.no} = {x, n}
  BY FitTargets DEF Analysis
<1>3. s.yes \in Blocks /\ s.no \in Blocks /\ b \in Blocks /\ b # NoBlock
  BY FitBlocks, BlocksAssumption DEF Analysis
<1>4. RemoveBranch(Form(x, y, c)) = <<>> /\ Form(NoBlock, NoBlock, NoCode) = <<>>
  BY <1>1, FormRemoved DEF Form
<1>5. t = IF x = NoBlock \/ (c # NoCode /\ no = NoBlock) THEN Form(x, y, c)
          ELSE IF c = NoCode THEN <<>>
          ELSE IF x = b THEN InsertBranch(<<>>, no, NoBlock, Reverse(c))
          ELSE InsertBranch(<<>>, x, NoBlock, c)
  BY <1>1, <1>4 DEF WithoutBranchTo
<1> HIDE DEF t
\* If the form is left alone, the block falls through to b.
<1>6. CASE x = NoBlock \/ (c # NoCode /\ no = NoBlock)
  <2>1. t = Form(x, y, c)
    BY <1>5, <1>6
  <2>2. b = n
    <3>1. CASE x = NoBlock
      BY <1>2, <3>1
    <3>2. CASE x # NoBlock /\ c # NoCode /\ no = NoBlock
      <4>1. y = NoBlock
        BY <3>2
      <4>2. n \in {s.yes, s.no} /\ b \in {x, n}
        BY <1>2, <3>2, <4>1
      <4>3. n # NoBlock
        BY <1>3, <4>2, BlocksAssumption
      <4> QED
        BY <3>2, <4>1, <4>2, <4>3
    <3> QED
      BY <1>6, <3>1, <3>2
  <2>3. Realizes(t, n, s)
    BY <1>1, <2>1, Realized
  <2> QED
    BY <2>2, <2>3 DEF t
<1>7. CASE x # NoBlock /\ c = NoCode
  <2>1. t = Form(NoBlock, NoBlock, NoCode) /\ b = x /\ b # n
    BY <1>1, <1>2, <1>4, <1>5, <1>7
  <2>2. Good(NoBlock, NoBlock, NoCode)
    BY DEF Good, Targets
  <2>3. \A f \in FlagValues : Leads(NoBlock, NoBlock, NoCode, b, f) = Wants(s, f)
    BY <1>1, <1>7, <2>1 DEF Leads
  <2>4. Left(NoBlock, NoCode)
    BY <2>1, <2>2, <2>3
  <2> QED
    BY <2>1, <2>4 DEF t
<1>8. CASE x # NoBlock /\ c # NoCode /\ no # NoBlock /\ x = b
  <2>1. c \in Codes /\ no \in Targets
    BY <1>1, <1>8 DEF Good
  <2>2. Good(no, NoBlock, Reverse(c)) /\ Reverse(c) # NoCode
    BY <1>8, <2>1, Turned DEF Good, Targets
  <2>3. t = Form(no, NoBlock, Reverse(c))
    <3>1. t = InsertBranch(<<>>, no, NoBlock, Reverse(c))
      BY <1>5, <1>8
    <3> HIDE DEF no
    <3> QED
      BY <1>8, <2>2, <3>1, FormInserted
  <2>4. \A f \in FlagValues : Leads(no, NoBlock, Reverse(c), b, f) = Leads(x, y, c, n, f)
    BY <1>8, <2>1, Turned DEF Leads
  <2>5. CASE b = n
    <3>1. Realizes(t, n, s)
      BY <1>1, <2>2, <2>3, <2>4, <2>5, Realized
    <3> QED
      BY <2>5, <3>1 DEF t
  <2>6. CASE b # n
    <3>1. Left(no, Reverse(c))
      BY <1>1, <2>2, <2>3, <2>4
    <3> QED
      BY <2>6, <3>1 DEF t
  <2> QED
    BY <2>5, <2>6
<1>9. CASE x # NoBlock /\ c # NoCode /\ no # NoBlock /\ x # b
  <2>1. y # NoBlock /\ b = y /\ b # n
    BY <1>1, <1>2, <1>9
  <2>2. Good(x, NoBlock, c)
    BY <1>1, <1>9 DEF Good, Targets
  <2>3. t = Form(x, NoBlock, c)
    <3>1. t = InsertBranch(<<>>, x, NoBlock, c)
      BY <1>5, <1>9
    <3> QED
      BY <1>9, <2>2, <3>1, FormInserted
  <2>4. \A f \in FlagValues : Leads(x, NoBlock, c, b, f) = Leads(x, y, c, n, f)
    BY <1>9, <2>1 DEF Leads
  <2>5. Left(x, c)
    BY <1>1, <1>9, <2>2, <2>3, <2>4
  <2> QED
    BY <2>1, <2>5 DEF t
<1> QED
  BY <1>6, <1>7, <1>8, <1>9

-----------------------------------------------------------------------------
(* Blocks that are moved and jumps that are forwarded.                     *)

(* What canFallThrough answers for a form.                                 *)
LEMMA FallsThrough ==
  ASSUME NEW x, NEW y, NEW c, Good(x, y, c), NEW n, NEW edges
  PROVE  CanFallThrough(Form(x, y, c), n, edges) <=>
           /\ n # NoBlock /\ n \in edges
           /\ \/ x = NoBlock
              \/ n \in {x, y}
              \/ c # NoCode /\ y = NoBlock
<1> DEFINE t == Form(x, y, c)
           a == AnalyzeBranch(t, n, FALSE)
<1>1. a = Answer(t, x, y, c)
  BY FormAnalyzed
<1>2. /\ Answer(t, x, y, c).found /\ Answer(t, x, y, c).tbb = x
      /\ Answer(t, x, y, c).fbb = y /\ Answer(t, x, y, c).cond = c
  BY AnswerFields
<1> HIDE DEF t
<1>3. a.found /\ a.tbb = x /\ a.fbb = y /\ a.cond = c
  <2> HIDE DEF a
  <2> QED
    BY <1>1, <1>2
<1>4. CanFallThrough(t, n, edges) <=>
        /\ n # NoBlock /\ n \in edges
        /\ \/ x = NoBlock
           \/ n \in {x, y}
           \/ c # NoCode /\ y = NoBlock
  BY <1>3 DEF CanFallThrough
<1> QED
  BY <1>4 DEF t

(* A form that names all its targets does not depend on the layout.        *)
LEMMA Anywhere ==
  ASSUME NEW s, NEW n, NEW x, NEW y, NEW c, Fits(x, y, c, n, s),
         x # NoBlock, c = NoCode \/ y # NoBlock, NEW m
  PROVE  Fits(x, y, c, m, s) /\ Realizes(Form(x, y, c), m, s)
<1>1. \A f \in FlagValues : Leads(x, y, c, m, f) = Leads(x, y, c, n, f)
  BY DEF Leads
<1>2. Fits(x, y, c, m, s)
  BY <1>1 DEF Fits
<1> QED
  BY <1>2 DEF Realizes

(* What does not fall through names all its targets.                       *)
LEMMA NamesAll ==
  ASSUME NEW s \in [cc : Codes, yes : Places, no : Places], NEW n \in Targets,
         NEW x, NEW y, NEW c, Fits(x, y, c, n, s),
         ~CanFallThrough(Form(x, y, c), n, {s.yes, s.no})
  PROVE  x # NoBlock /\ (c = NoCode \/ y # NoBlock)
<1>1. Good(x, y, c) /\ s.yes \in Blocks /\ s.no \in Blocks /\ NoBlock \notin Blocks
  BY FitBlocks, BlocksAssumption DEF Fits
<1>2. /\ x = NoBlock => s.yes = n
      /\ c # NoCode /\ y = NoBlock => {s.yes, s.no} = {x, n}
  BY FitTargets
<1>3. ~(/\ n # NoBlock /\ n \in {s.yes, s.no}
        /\ \/ x = NoBlock
           \/ n \in {x, y}
           \/ c # NoCode /\ y = NoBlock)
  BY <1>1, FallsThrough
<1>4. x # NoBlock
  BY <1>1, <1>2, <1>3
<1>5. c = NoCode \/ y # NoBlock
  BY <1>1, <1>2, <1>3
<1> QED
  BY <1>4, <1>5

(* The jump Move appends makes the block independent of the layout.        *)
LEMMA MoveKeeps ==
  ASSUME NEW s \in [cc : Codes, yes : Places, no : Places], NEW n \in Targets,
         NEW a, NEW x, NEW y, NEW c, Analysis(a, x, y, c, n, s),
         CanFallThrough(a.term, n, {s.yes, s.no}) => NoBlock \in {a.tbb, a.fbb}, NEW m
  PROVE  Realizes(IF CanFallThrough(a.term, n, {s.yes, s.no})
                  THEN InsertBranch(a.term, n, NoBlock, NoCode) ELSE a.term, m, s)
<1>1. /\ Fits(x, y, c, n, s) /\ Good(x, y, c) /\ a.tbb = x /\ a.fbb = y /\ a.term = Form(x, y, c)
      /\ (c = NoCode => x = NoBlock \/ x # n) /\ (y = NoBlock \/ y # n)
  BY AnswerFields DEF Analysis, Fits
<1>2. CASE ~CanFallThrough(a.term, n, {s.yes, s.no})
  <2>1. x # NoBlock /\ (c = NoCode \/ y # NoBlock)
    BY <1>1, <1>2, NamesAll
  <2>2. Realizes(Form(x, y, c), m, s)
    BY <1>1, <2>1, Anywhere
  <2> QED
    BY <1>1, <1>2, <2>2
<1>3. CASE CanFallThrough(a.term, n, {s.yes, s.no})
  <2>1. /\ n # NoBlock
        /\ \/ x = NoBlock
           \/ n \in {x, y}
           \/ c # NoCode /\ y = NoBlock
    BY <1>1, <1>3, FallsThrough
  <2>2. y = NoBlock /\ (x # NoBlock => c # NoCode)
    BY <1>1, <1>3, <2>1 DEF Good
  <2>3. n \in Blocks
    BY <2>1 DEF Targets
  <2>4. InsertBranch(a.term, n, NoBlock, NoCode)
          = IF x = NoBlock THEN Form(n, NoBlock, NoCode) ELSE Form(x, n, c)
    BY <1>1, <2>2, <2>3, FormExtended
  <2>5. CASE x = NoBlock
    <3>1. Good(n, NoBlock, NoCode)
      BY <2>1 DEF Good, Targets
    <3>2. \A f \in FlagValues : Leads(n, NoBlock, NoCode, n, f) = Leads(x, y, c, n, f)
      BY <2>2, <2>5 DEF Leads
    <3>3. Fits(n, NoBlock, NoCode, n, s)
      BY <1>1, <3>1, <3>2 DEF Fits
    <3>4. Realizes(Form(n, NoBlock, NoCode), m, s)
      BY <2>1, <3>3, Anywhere
    <3> QED
      BY <1>3, <2>4, <2>5, <3>4
  <2>6. CASE x # NoBlock
    <3>1. Good(x, n, c)
      BY <1>1, <2>2, <2>6 DEF Good
    <3>2. \A f \in FlagValues : Leads(x, n, c, n, f) = Leads(x, y, c, n, f)
      BY <2>1, <2>2 DEF Leads
    <3>3. Fits(x, n, c, n, s)
      BY <1>1, <3>1, <3>2 DEF Fits
    <3>4. Realizes(Form(x, n, c), m, s)
      BY <2>1, <2>6, <3>3, Anywhere
    <3> QED
      BY <1>3, <2>4, <2>6, <3>4
  <2> QED
    BY <2>5, <2>6
<1> QED
  BY <1>2, <1>3

(* So does the explicit branch that ForwardJump inserts.                   *)
LEMMA ExplicitNamesAll ==
  ASSUME NEW s \in [cc : Codes, yes : Places, no : Places], NEW n \in Blocks,
         NEW a, NEW x, NEW y, NEW c, Analysis(a, x, y, c, n, s), FoldPrior(a, n) = a.term
  PROVE  \E x2, y2, c2 :
           /\ Fits(x2, y2, c2, n, s) /\ Explicit(a, n, {s.yes, s.no}) = Form(x2, y2, c2)
           /\ x2 # NoBlock /\ (c2 = NoCode \/ y2 # NoBlock)
<1> DEFINE e == Explicit(a, n, {s.yes, s.no})
           falls == CanFallThrough(a.term, n, {s.yes, s.no})
<1>1. /\ Fits(x, y, c, n, s) /\ Good(x, y, c) /\ a.tbb = x /\ a.fbb = y /\ a.cond = c
      /\ a.term = Form(x, y, c)
      /\ (c = NoCode => x = NoBlock \/ x # n) /\ (y = NoBlock \/ y # n)
  BY AnswerFields DEF Analysis, Fits
<1>2. n # NoBlock /\ n \in Targets
  BY BlocksAssumption DEF Targets
<1>3. e = IF falls /\ n \notin {x, y}
          THEN IF x = NoBlock THEN Rebranch(Form(x, y, c), n, NoBlock, NoCode)
               ELSE Rebranch(Form(x, y, c), x, n, c)
          ELSE Form(x, y, c)
  <2> HIDE DEF falls
  <2> QED
    BY <1>1 DEF Explicit, falls
<1> HIDE DEF e
<1>4. CASE ~falls
  <2>1. x # NoBlock /\ (c = NoCode \/ y # NoBlock)
    BY <1>1, <1>2, <1>4, NamesAll
  <2>2. e = Form(x, y, c)
    BY <1>3, <1>4
  <2> QED
    BY <1>1, <2>1, <2>2 DEF e
<1>5. CASE falls /\ n \in {x, y}
  <2>1. x = n /\ c # NoCode
    BY <1>1, <1>2, <1>5
  <2>2. ASSUME y = NoBlock PROVE FALSE
    <3>1. FoldPrior(a, n) = RemoveBranch(a.term)
      BY <1>1, <1>2, <2>1, <2>2 DEF FoldPrior
    <3>2. RemoveBranch(a.term) = <<>>
      BY <1>1, FormRemoved
    <3>3. a.term = <<JCC(x, c)>>
      BY <1>1, <1>2, <2>1, <2>2 DEF Form
    <3>4. <<JCC(x, c)>> # <<>>
      OBVIOUS
    <3> QED
      BY <3>1, <3>2, <3>3, <3>4
  <2>3. e = Form(x, y, c)
    BY <1>3, <1>5
  <2> QED
    BY <1>1, <1>2, <2>1, <2>2, <2>3 DEF e
<1>6. CASE falls /\ n \notin {x, y} /\ x = NoBlock
  <2>1. Good(n, NoBlock, NoCode)
    BY <1>2 DEF Good, Targets
  <2>2. e = Form(n, NoBlock, NoCode)
    BY <1>1, <1>2, <1>3, <1>6, <2>1, FormRebranched
  <2>3. \A f \in FlagValues : Leads(n, NoBlock, NoCode, n, f) = Leads(x, y, c, n, f)
    BY <1>1, <1>6 DEF Leads, Good
  <2>4. Fits(n, NoBlock, NoCode, n, s)
    BY <1>1, <2>1, <2>3 DEF Fits
  <2> QED
    BY <1>2, <2>2, <2>4 DEF e
<1>7. CASE falls /\ n \notin {x, y} /\ x # NoBlock
  <2>1. c # NoCode /\ y = NoBlock
    BY <1>1, <1>7, FallsThrough
  <2>2. Good(x, n, c)
    BY <1>1, <1>2, <1>7, <2>1 DEF Good
  <2>3. e = Form(x, n, c)
    BY <1>1, <1>3, <1>7, <2>2, FormRebranched
  <2>4. \A f \in FlagValues : Leads(x, n, c, n, f) = Leads(x, y, c, n, f)
    BY <1>2, <2>1 DEF Leads
  <2>5. Fits(x, n, c, n, s)
    BY <1>1, <2>2, <2>4 DEF Fits
  <2> QED
    BY <1>2, <1>7, <2>3, <2>5 DEF e
<1> QED
  BY <1>4, <1>5, <1>6, <1>7

(* One more analysis after the targets were replaced.                      *)
LEMMA ForwardKeeps ==
  ASSUME NEW s \in [cc : Codes, yes : Places, no : Places], NEW n \in Targets,
         NEW old \in Blocks, NEW new \in Blocks \ {old}, NEW t, Realizes(t, n, s),
         NEW m, m = n \/ n = old,
         n = old => \E x, y, c : /\ Fits(x, y, c, n, s) /\ t = Form(x, y, c)
                                 /\ x # NoBlock /\ (c = NoCode \/ y # NoBlock)
  PROVE  \E x, y, c :
           /\ AnalyzeBranch(ReplaceUses(t, old, new), n, TRUE) = Answer(Form(x, y, c), x, y, c)
           /\ Fits(x, y, c, m, Retarget(s, old, new))
<1> DEFINE r == Retarget(s, old, new)
           u == ReplaceUses(t, old, new)
<1>1. Realizes(u, Renamed(n, old, new), r)
  BY ReplaceKeeps
<1>2. CASE n # old
  <2>1. Renamed(n, old, new) = n /\ m = n
    BY <1>2 DEF Renamed
  <2>2. Realizes(u, n, r)
    BY <1>1, <2>1
  <2>3. \E x, y, c : Analysis(AnalyzeBranch(u, n, TRUE), x, y, c, n, r)
    BY <2>2, Analyzed
  <2> QED
    BY <2>1, <2>3 DEF Analysis
<1>3. CASE n = old
  <2>1. PICK x, y, c : /\ Fits(x, y, c, n, s) /\ t = Form(x, y, c)
                       /\ x # NoBlock /\ (c = NoCode \/ y # NoBlock)
    BY <1>3
  <2> DEFINE xx == Renamed(x, old, new)
             yy == Renamed(y, old, new)
  <2>2. Good(x, y, c) /\ \A f \in FlagValues : Leads(x, y, c, n, f) = Wants(s, f)
    BY <2>1 DEF Fits
  <2>3. Good(xx, yy, c) /\ u = Form(xx, yy, c)
    BY <2>1, <2>2, ReplaceInForm
  <2>4. xx # old /\ yy # old /\ xx # NoBlock /\ (c = NoCode \/ yy # NoBlock) /\ old # NoBlock
    BY <2>1, BlocksAssumption DEF Renamed
  <2>5. AnalyzeBranch(Form(xx, yy, c), n, TRUE) = Answer(Form(xx, yy, c), xx, yy, c)
    <3>1. ~(xx = n /\ c = NoCode) /\ ~(c # NoCode /\ yy = n)
      BY <1>3, <2>4
    <3> HIDE DEF xx, yy
    <3> QED
      BY <2>3, <3>1, FormTrimmed
  <2>6. \A f \in FlagValues : Leads(xx, yy, c, Renamed(n, old, new), f) = Wants(r, f)
    BY <2>2, LeadsRenamed, RetargetWants
  <2>7. Fits(xx, yy, c, Renamed(n, old, new), r)
    BY <2>3, <2>6 DEF Fits
  <2>8. Fits(xx, yy, c, m, r)
    BY <2>4, <2>7, Anywhere
  <2> QED
    BY <2>3, <2>5, <2>8
<1> QED
  BY <1>2, <1>3

-----------------------------------------------------------------------------
(* The inductive invariant: the edges are exactly those the program needs, *)
(* and the terminators are a return or a form that realizes the source.    *)

Typed ==
  /\ next \in Others \cup {NoBlock}
  /\ source \in [cc : Codes, yes : Places, no : Places]
  /\ pass \in {"split", "fold"}

EdgesExact == succ = {source.yes, source.no} \ {Exit}

Leading ==
  \/ term = <<Return>> /\ source.yes = Exit /\ source.no = Exit
  \/ Realizes(term, next, source)

IInv == Typed /\ EdgesExact /\ Leading

(* A block with successors realizes its source and has just its edges.     *)
LEMMA WithEdges ==
  ASSUME IInv, succ # {} \/ Realizes(term, next, source)
  PROVE  /\ Realizes(term, next, source) /\ succ = {source.yes, source.no}
         /\ source.yes \in Blocks /\ source.no \in Blocks /\ next \in Targets
<1>1. Realizes(term, next, source)
  BY DEF IInv, EdgesExact, Leading
<1>2. next \in Targets /\ source \in [cc : Codes, yes : Places, no : Places]
  BY DEF IInv, Typed, Others, Targets
<1>3. PICK x, y, c : Fits(x, y, c, next, source)
  BY <1>1 DEF Realizes
<1>4. source.yes \in Blocks /\ source.no \in Blocks /\ {source.yes, source.no} \ {Exit} = {source.yes, source.no}
  BY <1>2, <1>3, FitBlocks
<1> QED
  BY <1>1, <1>2, <1>4 DEF IInv, EdgesExact

(* If the analysis can tell, the block realizes its source.                *)
LEMMA FoundRealizes ==
  ASSUME IInv, AnalyzeBranch(term, next, TRUE).found
  PROVE  Realizes(term, next, source)
<1>1. term # <<Return>>
  BY ReturnAnalyzed
<1> QED
  BY <1>1 DEF IInv, Leading

(* What instruction selection emits realizes the source.                   *)
LEMMA InitInvariant == Init => IInv
<1> SUFFICES ASSUME Init PROVE IInv
  OBVIOUS
<1>1. /\ source \in [cc : Codes, yes : Places, no : Places]
      /\ Exit \in {source.yes, source.no} => source.yes = source.no
  BY DEF Init, Sources, Places
<1>2. Typed /\ EdgesExact
  BY <1>1 DEF Init, Typed, EdgesExact
<1>3. next \in Targets /\ Exit \notin Targets /\ next # Exit
  BY BlocksAssumption DEF Init, Others, Targets
<1>4. term = Emitted(source, next)
  BY DEF Init
<1> DEFINE s == source
<1>5. CASE s.yes = Exit
  <2>1. term = <<Return>>
    BY <1>1, <1>4, <1>5 DEF Emitted
  <2> QED
    BY <1>1, <1>2, <1>5, <2>1 DEF IInv, Leading
<1>6. CASE s.yes # Exit
  <2>1. s.yes \in Blocks /\ s.no \in Blocks /\ s.yes # NoBlock /\ s.no # NoBlock
    BY <1>1, <1>6, BlocksAssumption DEF Places
  <2>2. s.cc \in Codes /\ s.cc # NoCode
    BY <1>1, NoCodeIsNone
  <2>3. CASE s.yes = s.no /\ s.yes = next
    <3>1. Good(NoBlock, NoBlock, NoCode) /\ Form(NoBlock, NoBlock, NoCode) = <<>>
      BY DEF Good, Targets, Form
    <3>2. term = <<>>
      BY <1>4, <1>6, <2>3 DEF Emitted
    <3>3. \A f \in FlagValues : Leads(NoBlock, NoBlock, NoCode, next, f) = Wants(s, f)
      BY <2>3 DEF Leads, Wants
    <3> QED
      BY <1>2, <3>1, <3>2, <3>3, Realized DEF IInv, Leading
  <2>4. CASE s.yes = s.no /\ s.yes # next
    <3>1. Good(s.yes, NoBlock, NoCode) /\ Form(s.yes, NoBlock, NoCode) = <<JMP(s.yes)>>
      BY <2>1 DEF Good, Targets, Form
    <3>2. term = <<JMP(s.yes)>>
      BY <1>4, <1>6, <2>4 DEF Emitted
    <3>3. \A f \in FlagValues : Leads(s.yes, NoBlock, NoCode, next, f) = Wants(s, f)
      BY <2>1, <2>4 DEF Leads, Wants
    <3> QED
      BY <1>2, <3>1, <3>2, <3>3, Realized DEF IInv, Leading
  <2>5. CASE s.yes # s.no /\ s.yes = next
    <3>1. Good(s.no, NoBlock, Reverse(s.cc))
      BY <2>1, <2>2, Turned DEF Good, Targets
    <3>2. term = <<JCC(s.no, Reverse(s.cc))>>
      BY <1>4, <1>6, <2>5 DEF Emitted
    <3>3. Form(s.no, NoBlock, Reverse(s.cc)) = <<JCC(s.no, Reverse(s.cc))>>
      BY <2>1, <2>2, Turned DEF Form
    <3>4. \A f \in FlagValues : Leads(s.no, NoBlock, Reverse(s.cc), next, f) = Wants(s, f)
      BY <2>1, <2>2, <2>5, Turned DEF Leads, Wants
    <3> QED
      BY <1>2, <3>1, <3>2, <3>3, <3>4, Realized DEF IInv, Leading
  <2>6. CASE s.yes # s.no /\ s.yes # next /\ s.no = next
    <3>1. Good(s.yes, NoBlock, s.cc) /\ Form(s.yes, NoBlock, s.cc) = <<JCC(s.yes, s.cc)>>
      BY <2>1, <2>2 DEF Good, Targets, Form
    <3>2. term = <<JCC(s.yes, s.cc)>>
      BY <1>4, <1>6, <2>6 DEF Emitted
    <3>3. \A f \in FlagValues : Leads(s.yes, NoBlock, s.cc, next, f) = Wants(s, f)
      BY <2>1, <2>2, <2>6 DEF Leads, Wants
    <3> QED
      BY <1>2, <3>1, <3>2, <3>3, Realized DEF IInv, Leading
  <2>7. CASE s.yes # s.no /\ s.yes # next /\ s.no # next
    <3>1. Good(s.yes, s.no, s.cc) /\ Form(s.yes, s.no, s.cc) = <<JCC(s.yes, s.cc), JMP(s.no)>>
      BY <2>1, <2>2 DEF Good, Targets, Form
    <3>2. term = <<JCC(s.yes, s.cc), JMP(s.no)>>
      BY <1>4, <1>6, <2>7 DEF Emitted
    <3>3. \A f \in FlagValues : Leads(s.yes, s.no, s.cc, next, f) = Wants(s, f)
      BY <2>1, <2>2 DEF Leads, Wants
    <3> QED
      BY <1>2, <3>1, <3>2, <3>3, Realized DEF IInv, Leading
  <2> QED
    BY <2>3, <2>4, <2>5, <2>6, <2>7
<1> QED
  BY <1>5, <1>6

-----------------------------------------------------------------------------
(* The steps.                                                              *)

(* What each step has to show.                                             *)
LEMMA Kept ==
  ASSUME Typed', succ' = {source'.yes, source'.no},
         source'.yes \in Blocks, source'.no \in Blocks, Realizes(term', next', source')
  PROVE  IInv'
<1>1. Exit \notin Blocks
  BY BlocksAssumption
<1>2. EdgesExact'
  BY <1>1 DEF EdgesExact
<1> QED
  BY <1>2 DEF IInv, Leading

(* SplitCriticalEdge keeps the invariant.                                  *)
LEMMA SplitCriticalEdgeKeeps ==
  ASSUME IInv, NEW old \in Blocks, NEW new \in Blocks, SplitCriticalEdge(old, new)
  PROVE  IInv'
<1> DEFINE s == source
           r == Retarget(source, old, new)
<1>1. /\ Realizes(term, next, s) /\ succ = {s.yes, s.no} /\ next \in Targets
      /\ s.yes \in Blocks /\ s.no \in Blocks
  BY WithEdges DEF SplitCriticalEdge
<1>2. s \in [cc : Codes, yes : Places, no : Places] /\ pass \in {"split", "fold"}
  BY DEF IInv, Typed
<1>3. /\ old \in {s.yes, s.no} /\ {s.yes, s.no} # {old} /\ new \notin {s.yes, s.no}
      /\ new \in Others /\ next' = new /\ pass' = pass
  BY <1>1 DEF SplitCriticalEdge
<1>4. source' = r
  BY DEF SplitCriticalEdge, Rename, Retarget
<1>5. /\ r \in [cc : Codes, yes : Places, no : Places]
      /\ r.yes \in Blocks /\ r.no \in Blocks
  <2>1. r.yes = Renamed(s.yes, old, new) /\ r.no = Renamed(s.no, old, new)
    BY <1>2, RetargetWants
  <2> QED
    BY <1>1, <1>2, <2>1, RetargetWants DEF Renamed
<1>6. succ' = {r.yes, r.no}
  BY <1>1, <1>2, ReplaceTargets DEF SplitCriticalEdge
<1>7. term' = UpdateTerminator(ReplaceUses(term, old, new), new, succ')
  BY DEF SplitCriticalEdge
<1>8. Realizes(UpdateTerminator(ReplaceUses(term, old, new), new, {r.yes, r.no}), new, r)
  BY <1>1, <1>2, <1>3, SplitKeeps
<1> HIDE DEF r
<1>9. Typed'
  BY <1>2, <1>3, <1>4, <1>5 DEF Typed
<1>10. Realizes(term', next', source')
  BY <1>3, <1>4, <1>6, <1>7, <1>8
<1> QED
  BY <1>4, <1>5, <1>6, <1>9, <1>10, Kept

\* What the actions of branch folding share: the analysis and the edges
LEMMA AtAnalysis ==
  ASSUME IInv, Realizes(term, next, source)
  PROVE  \E x, y, c :
           LET a == AnalyzeBranch(term, next, TRUE)
           IN /\ Analysis(a, x, y, c, next, source)
              /\ a.term = Form(x, y, c) /\ a.found /\ a.tbb = x /\ a.fbb = y /\ a.cond = c
              /\ CorrectEdges(a, next, succ) = succ
              /\ Realizes(a.term, next, source)
<1>1. /\ succ = {source.yes, source.no} /\ next \in Targets
      /\ source \in [cc : Codes, yes : Places, no : Places]
  BY WithEdges DEF IInv, Typed
<1> DEFINE a == AnalyzeBranch(term, next, TRUE)
<1>2. PICK x, y, c : Analysis(a, x, y, c, next, source)
  BY <1>1, Analyzed
<1>3. a.term = Form(x, y, c) /\ a.found /\ a.tbb = x /\ a.fbb = y /\ a.cond = c
  <2> HIDE DEF a
  <2> QED
    BY <1>2, AnswerFields DEF Analysis
<1>4. CorrectEdges(a, next, succ) = succ
  BY <1>1, <1>2, EdgesCorrect
<1>5. Realizes(a.term, next, source)
  BY <1>2, <1>3 DEF Realizes, Analysis
<1> QED
  BY <1>2, <1>3, <1>4, <1>5

(* The analysis that begins branch folding keeps the invariant.            *)
LEMMA BeginFoldingKeeps ==
  ASSUME IInv, BeginFolding
  PROVE  IInv'
<1> DEFINE a == AnalyzeBranch(term, next, TRUE)
<1>1. /\ term' = a.term /\ succ' = IF a.found THEN CorrectEdges(a, next, succ) ELSE succ
      /\ next' = next /\ source' = source
  BY DEF BeginFolding
<1>2. Typed'
  BY DEF BeginFolding, IInv, Typed
<1>3. CASE Realizes(term, next, source)
  <2>1. a.found /\ CorrectEdges(a, next, succ) = succ /\ Realizes(a.term, next, source)
    BY <1>3, AtAnalysis
  <2> HIDE DEF a
  <2>2. succ' = {source.yes, source.no} /\ source.yes \in Blocks /\ source.no \in Blocks
    BY <1>1, <1>3, <2>1, WithEdges
  <2>3. Realizes(term', next', source')
    BY <1>1, <2>1
  <2> QED
    BY <1>1, <1>2, <2>2, <2>3, Kept
<1>4. CASE term = <<Return>> /\ source.yes = Exit /\ source.no = Exit
  <2>1. a.term = <<Return>> /\ ~a.found
    BY <1>4, ReturnAnalyzed
  <2> HIDE DEF a
  <2> QED
    BY <1>1, <1>2, <1>4, <2>1 DEF IInv, EdgesExact, Leading
<1> QED
  BY <1>3, <1>4 DEF IInv, Leading

(* The rewritings of OptimizeBlock keep the invariant.                     *)
LEMMA FoldingKeeps ==
  ASSUME IInv, OptimizeNext \/ OptimizeSelf \/ MoveNextToEnd
  PROVE  IInv'
<1> DEFINE a == AnalyzeBranch(term, next, TRUE)
<1>1. a.found /\ succ' = CorrectEdges(a, next, succ) /\ source' = source /\ pass' = pass
  BY DEF OptimizeNext, OptimizeSelf, MoveNextToEnd
<1>2. Realizes(term, next, source)
  BY <1>1, FoundRealizes
<1>3. PICK x, y, c :
        /\ Analysis(a, x, y, c, next, source) /\ CorrectEdges(a, next, succ) = succ
        /\ a.term = Form(x, y, c) /\ a.tbb = x /\ a.fbb = y /\ a.cond = c
  BY <1>2, AtAnalysis
<1>4. /\ succ = {source.yes, source.no} /\ source.yes \in Blocks /\ source.no \in Blocks
      /\ next \in Targets /\ Typed
  BY <1>2, WithEdges DEF IInv
<1>5. succ' = {source'.yes, source'.no} /\ source'.yes \in Blocks /\ source'.no \in Blocks
  BY <1>1, <1>3, <1>4
<1>6. CASE OptimizeNext
  <2>1. next # NoBlock /\ next' = next /\ term' = FoldPrior(a, next)
    BY <1>6 DEF OptimizeNext
  <2>2. next \in Blocks
    BY <1>4, <2>1 DEF Targets
  <2>3. Realizes(FoldPrior(a, next), next, source)
    BY <1>3, <2>2, FoldPriorKeeps
  <2>4. Typed' /\ Realizes(term', next', source')
    BY <1>1, <1>4, <2>1, <2>3 DEF Typed
  <2> QED
    BY <1>5, <2>4, Kept
<1>7. CASE OptimizeSelf
  <2>1. next' = next /\ term' = FoldSelf(a)
    BY <1>7 DEF OptimizeSelf
  <2>2. Realizes(FoldSelf(a), next, source)
    BY <1>3, <1>4, FoldSelfKeeps
  <2>3. Typed' /\ Realizes(term', next', source')
    BY <1>1, <1>4, <2>1, <2>2 DEF Typed
  <2> QED
    BY <1>5, <2>3, Kept
<1>8. CASE MoveNextToEnd
  <2>1. /\ next # NoBlock /\ a.cond # NoCode /\ a.fbb = NoBlock /\ a.tbb # Self
        /\ term' = Rebranch(a.term, next, NoBlock, Reverse(a.cond)) /\ next' = a.tbb
    BY <1>8 DEF MoveNextToEnd
  <2> HIDE DEF a
  <2>2. /\ Good(x, y, c)
        /\ \A f \in FlagValues : Leads(x, y, c, next, f) = Wants(source, f)
    BY <1>3 DEF Analysis, Fits
  <2>3. c \in Codes /\ y = NoBlock /\ x # NoBlock /\ x \in Others
    BY <1>3, <2>1, <2>2 DEF Good, Targets, Others
  <2>4. Good(next, NoBlock, Reverse(c))
    BY <1>4, <2>1, <2>3, Turned DEF Good, Targets
  <2>5. term' = Form(next, NoBlock, Reverse(c))
    <3>1. term' = Rebranch(Form(x, y, c), next, NoBlock, Reverse(c))
      BY <1>3, <2>1
    <3> QED
      BY <2>1, <2>2, <2>4, <3>1, FormRebranched
  <2>6. \A f \in FlagValues : Leads(next, NoBlock, Reverse(c), x, f) = Leads(x, y, c, next, f)
    BY <2>1, <2>3, Turned DEF Leads
  <2>7. Realizes(term', x, source)
    BY <2>2, <2>4, <2>5, <2>6, Realized
  <2>8. Typed' /\ Realizes(term', next', source')
    BY <1>1, <1>3, <1>4, <2>1, <2>3, <2>7 DEF Typed
  <2> QED
    BY <1>5, <2>8, Kept
<1> QED
  BY <1>6, <1>7, <1>8

(* A changed layout keeps the invariant.                                   *)
LEMMA MovesKeep ==
  ASSUME IInv, NEW n \in Others \cup {NoBlock}, Move(n) \/ Displace(n)
  PROVE  IInv'
<1>1. next' = n /\ source' = source /\ pass' = pass
  BY DEF Move, Displace
<1>2. Typed' /\ Typed
  BY <1>1 DEF IInv, Typed
<1>3. CASE term = <<Return>> /\ source.yes = Exit /\ source.no = Exit
  <2>1. succ = {}
    BY <1>3 DEF IInv, EdgesExact
  <2>2. term' = term /\ succ' = succ
    <3>1. CASE Displace(n)
      BY <3>1 DEF Displace
    <3>2. CASE Move(n)
      <4> DEFINE a == AnalyzeBranch(term, next, TRUE)
      <4>1. a.term = <<Return>> /\ ~a.found
        BY <1>3, ReturnAnalyzed
      <4>2. /\ succ' = IF a.found THEN CorrectEdges(a, next, succ) ELSE succ
            /\ term' = IF CanFallThrough(a.term, next, succ')
                       THEN InsertBranch(a.term, next, NoBlock, NoCode) ELSE a.term
        BY <3>2 DEF Move
      <4> HIDE DEF a
      <4>3. succ' = {}
        BY <2>1, <4>1, <4>2
      <4>4. ~CanFallThrough(a.term, next, succ')
        BY <4>3 DEF CanFallThrough
      <4> QED
        BY <1>3, <2>1, <4>1, <4>2, <4>3, <4>4
    <3> QED
      BY <3>1, <3>2
  <2> QED
    BY <1>1, <1>2, <1>3, <2>2 DEF IInv, EdgesExact, Leading
<1>4. CASE Realizes(term, next, source)
  <2>1. /\ succ = {source.yes, source.no} /\ source.yes \in Blocks /\ source.no \in Blocks
        /\ next \in Targets /\ source \in [cc : Codes, yes : Places, no : Places]
    BY <1>2, <1>4, WithEdges DEF Typed
  <2>2. succ' = {source.yes, source.no} /\ Realizes(term', n, source)
    <3>1. CASE Displace(n)
      <4>1. PICK x, y, c : Fits(x, y, c, next, source) /\ term = Form(x, y, c)
        BY <1>4 DEF Realizes
      <4>2. ~CanFallThrough(term, next, succ) /\ term' = term /\ succ' = succ
        BY <3>1 DEF Displace
      <4>3. x # NoBlock /\ (c = NoCode \/ y # NoBlock)
        BY <2>1, <4>1, <4>2, NamesAll
      <4>4. Realizes(Form(x, y, c), n, source)
        BY <4>1, <4>3, Anywhere
      <4> QED
        BY <2>1, <4>1, <4>2, <4>4
    <3>2. CASE Move(n)
      <4> DEFINE a == AnalyzeBranch(term, next, TRUE)
      <4>1. PICK x, y, c : /\ Analysis(a, x, y, c, next, source)
                           /\ CorrectEdges(a, next, succ) = succ /\ a.found
        BY <1>4, AtAnalysis
      <4>2. /\ succ' = IF a.found THEN CorrectEdges(a, next, succ) ELSE succ
            /\ CanFallThrough(a.term, next, succ') => NoBlock \in {a.tbb, a.fbb}
            /\ term' = IF CanFallThrough(a.term, next, succ')
                       THEN InsertBranch(a.term, next, NoBlock, NoCode) ELSE a.term
        BY <3>2 DEF Move
      <4> HIDE DEF a
      <4>3. succ' = {source.yes, source.no}
        BY <2>1, <4>1, <4>2
      <4>4. /\ CanFallThrough(a.term, next, {source.yes, source.no}) => NoBlock \in {a.tbb, a.fbb}
            /\ term' = IF CanFallThrough(a.term, next, {source.yes, source.no})
                       THEN InsertBranch(a.term, next, NoBlock, NoCode) ELSE a.term
        BY <4>2, <4>3
      <4>5. Realizes(IF CanFallThrough(a.term, next, {source.yes, source.no})
                     THEN InsertBranch(a.term, next, NoBlock, NoCode) ELSE a.term, n, source)
        BY <2>1, <4>1, <4>4, MoveKeeps
      <4> QED
        BY <4>3, <4>4, <4>5
    <3> QED
      BY <3>1, <3>2
  <2>3. Realizes(term', next', source')
    BY <1>1, <2>2
  <2> QED
    BY <1>1, <1>2, <2>1, <2>2, <2>3, Kept
<1> QED
  BY <1>3, <1>4 DEF IInv, Leading

(* Taking a branch away and putting it back keeps the invariant.           *)
LEMMA CompareTailsKeeps ==
  ASSUME IInv, NEW b \in Blocks, CompareTails(b)
  PROVE  IInv'
<1> DEFINE a == AnalyzeBranch(term, next, TRUE)
           t == WithoutBranchTo(a, next, b)
<1>1. /\ b \in succ /\ a.found /\ succ' = succ /\ source' = source /\ next' = next /\ pass' = pass
      /\ term' = IF next = b THEN t ELSE FixTail(t, next, b)
  BY DEF CompareTails
<1>2. Realizes(term, next, source)
  BY <1>1, FoundRealizes
<1>3. /\ succ = {source.yes, source.no} /\ source.yes \in Blocks /\ source.no \in Blocks
      /\ next \in Targets /\ Typed /\ source \in [cc : Codes, yes : Places, no : Places]
  BY <1>2, WithEdges DEF IInv, Typed
<1>4. PICK x, y, c : Analysis(a, x, y, c, next, source)
  BY <1>2, AtAnalysis
<1>5. \/ b = next /\ Realizes(t, next, source)
      \/ b # next /\ \E x2, c2 :
           /\ Good(x2, NoBlock, c2) /\ (x2 # NoBlock => c2 # NoCode)
           /\ t = Form(x2, NoBlock, c2)
           /\ \A f \in FlagValues : Leads(x2, NoBlock, c2, b, f) = Wants(source, f)
  <2>1. b \in {source.yes, source.no}
    BY <1>1, <1>3
  <2> HIDE DEF a
  <2> QED
    BY <1>3, <1>4, <2>1, WithoutBranch
<1> HIDE DEF t
<1>6. Realizes(term', next, source)
  <2>1. CASE b = next
    BY <1>1, <1>5, <2>1
  <2>2. CASE b # next
    <3>1. PICK x2, c2 :
            /\ Good(x2, NoBlock, c2) /\ (x2 # NoBlock => c2 # NoCode)
            /\ t = Form(x2, NoBlock, c2)
            /\ \A f \in FlagValues : Leads(x2, NoBlock, c2, b, f) = Wants(source, f)
      BY <1>5, <2>2
    <3>2. Realizes(FixTail(Form(x2, NoBlock, c2), next, b), next, source)
      BY <1>3, <3>1, FixTailKeeps
    <3> QED
      BY <1>1, <2>2, <3>1, <3>2
  <2> QED
    BY <2>1, <2>2
<1>7. Typed'
  BY <1>1, <1>3 DEF Typed
<1> HIDE DEF a
<1>8. Realizes(term', next', source')
  BY <1>1, <1>6
<1> QED
  BY <1>1, <1>3, <1>7, <1>8, Kept

(* The edges and the source when a target is replaced.                     *)
LEMMA Retargeted ==
  ASSUME Typed, succ = {source.yes, source.no}, source.yes \in Blocks, source.no \in Blocks,
         NEW old \in Blocks, NEW new \in Blocks, Rename(old, new)
  PROVE  /\ source' = Retarget(source, old, new)
         /\ source' \in [cc : Codes, yes : Places, no : Places]
         /\ source'.yes \in Blocks /\ source'.no \in Blocks
         /\ ReplaceEdge(succ, old, new) = {source'.yes, source'.no}
         /\ old \in succ => new \in {source'.yes, source'.no}
<1> DEFINE r == Retarget(source, old, new)
<1>1. source' = r /\ source \in [cc : Codes, yes : Places, no : Places]
  BY DEF Rename, Retarget, Typed
<1>2. /\ r \in [cc : Codes, yes : Places, no : Places]
      /\ r.yes = Renamed(source.yes, old, new) /\ r.no = Renamed(source.no, old, new)
  BY <1>1, RetargetWants
<1>3. ReplaceEdge({source.yes, source.no}, old, new) = {r.yes, r.no}
  BY <1>1, ReplaceTargets
<1> HIDE DEF r
<1>4. r.yes \in Blocks /\ r.no \in Blocks /\ (old \in succ => new \in {r.yes, r.no})
  BY <1>2 DEF Renamed
<1>5. ReplaceEdge(succ, old, new) = {r.yes, r.no}
  BY <1>3
<1> QED
  BY <1>1, <1>2, <1>4, <1>5 DEF r

(* Skipping an empty target keeps the invariant.                           *)
LEMMA ForwardEmptyKeeps ==
  ASSUME IInv, NEW old \in Blocks, NEW new \in Blocks, ForwardEmpty(old, new)
  PROVE  IInv'
<1>1. /\ old \in succ /\ IF next = old THEN new # Self /\ next' = new ELSE new # next /\ next' = next
      /\ term' = ReplaceUses(term, old, new) /\ succ' = ReplaceEdge(succ, old, new)
      /\ Rename(old, new) /\ pass' = pass
  BY DEF ForwardEmpty
<1>2. /\ Realizes(term, next, source) /\ succ = {source.yes, source.no}
      /\ source.yes \in Blocks /\ source.no \in Blocks /\ next \in Targets
      /\ Typed /\ source \in [cc : Codes, yes : Places, no : Places]
  BY <1>1, WithEdges DEF IInv, Typed
<1>3. /\ source' = Retarget(source, old, new)
      /\ source' \in [cc : Codes, yes : Places, no : Places]
      /\ source'.yes \in Blocks /\ source'.no \in Blocks
      /\ succ' = {source'.yes, source'.no}
  BY <1>1, <1>2, Retargeted
<1>4. next' = Renamed(next, old, new) /\ next' \in Others \cup {NoBlock}
  BY <1>1, <1>2 DEF Renamed, Typed, Others
<1>5. Realizes(ReplaceUses(term, old, new), Renamed(next, old, new), Retarget(source, old, new))
  BY <1>2, ReplaceKeeps
<1>6. Realizes(term', next', source')
  BY <1>1, <1>3, <1>4, <1>5
<1>7. Typed'
  BY <1>1, <1>2, <1>3, <1>4 DEF Typed
<1> QED
  BY <1>3, <1>6, <1>7, Kept

(* Skipping a target that is only a jump keeps the invariant.              *)
LEMMA ForwardJumpKeeps ==
  ASSUME IInv, NEW old \in Blocks, NEW new \in Blocks, NEW n \in Others \cup {NoBlock},
         ForwardJump(old, new, n)
  PROVE  IInv'
<1> DEFINE a == AnalyzeBranch(term, next, TRUE)
           edges == IF next = old THEN CorrectEdges(a, next, succ) ELSE succ
           explicit == IF next = old THEN Explicit(a, old, edges) ELSE term
           after == AnalyzeBranch(ReplaceUses(explicit, old, new), next, TRUE)
           one == after.tbb # NoBlock /\ after.tbb = after.fbb
<1>1. /\ old \in succ /\ new # old /\ (next = old \/ n = next)
      /\ next = old => a.found /\ FoldPrior(a, next) = a.term
      /\ Rename(old, new) /\ pass' = pass /\ next' = n
  BY DEF ForwardJump
<1>2. /\ term' = IF one THEN Rebranch(after.term, new, NoBlock, NoCode) ELSE after.term
      /\ succ' = IF one THEN {new} ELSE ReplaceEdge(edges, old, new)
  BY Zenon DEF ForwardJump
<1> HIDE DEF a, edges, explicit, after, one
<1>3. /\ Realizes(term, next, source) /\ succ = {source.yes, source.no}
      /\ source.yes \in Blocks /\ source.no \in Blocks /\ next \in Targets
      /\ Typed /\ source \in [cc : Codes, yes : Places, no : Places]
  BY <1>1, WithEdges DEF IInv, Typed
<1>4. /\ source' = Retarget(source, old, new)
      /\ source' \in [cc : Codes, yes : Places, no : Places]
      /\ source'.yes \in Blocks /\ source'.no \in Blocks
      /\ ReplaceEdge(succ, old, new) = {source'.yes, source'.no}
      /\ new \in {source'.yes, source'.no}
  BY <1>1, <1>3, Retargeted
<1>5. PICK x1, y1, c1 : /\ Analysis(a, x1, y1, c1, next, source)
                        /\ CorrectEdges(a, next, succ) = succ
  BY <1>3, AtAnalysis DEF a
<1>6. edges = succ
  BY <1>5 DEF edges
<1>7. /\ Realizes(explicit, next, source)
      /\ next = old => \E x, y, c : /\ Fits(x, y, c, next, source) /\ explicit = Form(x, y, c)
                                    /\ x # NoBlock /\ (c = NoCode \/ y # NoBlock)
  <2>1. CASE next # old
    BY <1>3, <2>1 DEF explicit
  <2>2. CASE next = old
    <3>1. explicit = Explicit(a, next, {source.yes, source.no})
      BY <1>3, <1>6, <2>2 DEF explicit
    <3>2. PICK x, y, c :
            /\ Fits(x, y, c, next, source)
            /\ Explicit(a, next, {source.yes, source.no}) = Form(x, y, c)
            /\ x # NoBlock /\ (c = NoCode \/ y # NoBlock)
      BY <1>1, <1>3, <1>5, <2>2, ExplicitNamesAll
    <3> QED
      BY <3>1, <3>2 DEF Realizes
  <2> QED
    BY <2>1, <2>2
<1>8. PICK x, y, c : /\ after = Answer(Form(x, y, c), x, y, c)
                     /\ Fits(x, y, c, n, Retarget(source, old, new))
  <2>1. new \in Blocks \ {old} /\ (n = next \/ next = old)
    BY <1>1
  <2> QED
    BY <1>3, <1>7, <2>1, ForwardKeeps DEF after
<1>9. after.tbb = x /\ after.fbb = y /\ after.term = Form(x, y, c) /\ Good(x, y, c)
  <2>1. /\ Answer(Form(x, y, c), x, y, c).tbb = x /\ Answer(Form(x, y, c), x, y, c).fbb = y
        /\ Answer(Form(x, y, c), x, y, c).term = Form(x, y, c)
    BY AnswerFields
  <2> QED
    BY <1>8, <2>1 DEF Fits
<1>10. Fits(x, y, c, n, source')
  BY <1>4, <1>8
<1>11. succ' = {source'.yes, source'.no} /\ Realizes(term', n, source')
  <2>1. CASE ~one
    <3>1. term' = Form(x, y, c) /\ succ' = ReplaceEdge(succ, old, new)
      BY <1>2, <1>6, <1>9, <2>1
    <3> QED
      BY <1>4, <1>10, <3>1 DEF Realizes
  <2>2. CASE one
    <3>1. x # NoBlock /\ x = y
      BY <1>9, <2>2 DEF one
    <3>2. c # NoCode
      BY <1>9, <3>1 DEF Good
    <3>3. {source'.yes, source'.no} = {x}
      BY <1>4, <1>10, <3>1, <3>2, FitTargets
    <3>4. x = new /\ source'.yes = new /\ source'.no = new
      BY <1>4, <3>3
    <3>5. Good(new, NoBlock, NoCode) /\ new # NoBlock
      BY BlocksAssumption DEF Good, Targets
    <3>6. term' = Form(new, NoBlock, NoCode)
      <4>1. term' = Rebranch(Form(x, y, c), new, NoBlock, NoCode)
        BY <1>2, <1>9, <2>2
      <4> QED
        BY <1>9, <3>5, <4>1, FormRebranched
    <3>7. \A f \in FlagValues : Leads(new, NoBlock, NoCode, n, f) = Wants(source', f)
      BY <3>4, <3>5 DEF Leads, Wants
    <3>8. Realizes(term', n, source')
      BY <3>5, <3>6, <3>7, Realized
    <3>9. succ' = {source'.yes, source'.no}
      BY <1>2, <2>2, <3>4
    <3> QED
      BY <3>8, <3>9
  <2> QED
    BY <2>1, <2>2
<1>12. Typed' /\ Realizes(term', next', source')
  BY <1>1, <1>3, <1>4, <1>11 DEF Typed
<1> QED
  BY <1>4, <1>11, <1>12, Kept

(* Every step keeps the invariant.                                         *)
LEMMA StepInvariant == IInv /\ [Next]_vars => IInv'
<1> SUFFICES ASSUME IInv, [Next]_vars PROVE IInv'
  OBVIOUS
<1>1. CASE \E old, new \in Blocks : SplitCriticalEdge(old, new)
  BY <1>1, SplitCriticalEdgeKeeps
<1>2. CASE BeginFolding
  BY <1>2, BeginFoldingKeeps
<1>3. CASE OptimizeNext \/ OptimizeSelf \/ MoveNextToEnd
  BY <1>3, FoldingKeeps
<1>4. CASE \E n \in Others \cup {NoBlock} : Move(n) \/ Displace(n)
  BY <1>4, MovesKeep
<1>5. CASE \E old, new \in Blocks : ForwardEmpty(old, new)
  BY <1>5, ForwardEmptyKeeps
<1>6. CASE \E old, new \in Blocks, n \in Others \cup {NoBlock} : ForwardJump(old, new, n)
  BY <1>6, ForwardJumpKeeps
<1>7. CASE \E b \in Blocks : CompareTails(b)
  BY <1>7, CompareTailsKeeps
<1>8. CASE UNCHANGED vars
  BY <1>8 DEF vars, IInv, Typed, EdgesExact, Leading, Realizes
<1> QED
  BY <1>1, <1>2, <1>3, <1>4, <1>5, <1>6, <1>7, <1>8 DEF Next

(* After any passes the block is a return or has one of the four forms,    *)
(* which leads to the program's targets, and these are its edges.          *)
THEOREM Invariance == Spec => []IInv
BY InitInvariant, StepInvariant, PTL DEF Spec

-----------------------------------------------------------------------------
(* What follows from it.                                                   *)

(* A form is at most two branches.                                         *)
LEMMA FormTyped ==
  ASSUME NEW x, NEW y, NEW c, Good(x, y, c)
  PROVE  Form(x, y, c) \in UNION {[1..k -> Instructions] : k \in 0..2}
<1>1. \A b \in Blocks : JMP(b) \in Instructions /\ \A d \in Codes : JCC(b, d) \in Instructions
  BY DEF Instructions
<1>2. \A k \in 0..2 : \A t \in [1..k -> Instructions] : t \in UNION {[1..j -> Instructions] : j \in 0..2}
  OBVIOUS
<1>3. CASE x = NoBlock
  <2>1. Form(x, y, c) = <<>> /\ <<>> \in [1..0 -> Instructions]
    BY <1>3 DEF Form
  <2> QED
    BY <1>2, <2>1
<1>4. CASE x # NoBlock /\ c = NoCode
  <2>1. Form(x, y, c) = <<JMP(x)>> /\ JMP(x) \in Instructions
    BY <1>1, <1>4 DEF Form, Good, Targets
  <2>2. <<JMP(x)>> \in [1..1 -> Instructions]
    BY <2>1
  <2> QED
    BY <1>2, <2>1, <2>2
<1>5. CASE x # NoBlock /\ c # NoCode /\ y = NoBlock
  <2>1. Form(x, y, c) = <<JCC(x, c)>> /\ JCC(x, c) \in Instructions
    BY <1>1, <1>5 DEF Form, Good, Targets
  <2>2. <<JCC(x, c)>> \in [1..1 -> Instructions]
    BY <2>1
  <2> QED
    BY <1>2, <2>1, <2>2
<1>6. CASE x # NoBlock /\ c # NoCode /\ y # NoBlock
  <2>1. /\ Form(x, y, c) = <<JCC(x, c), JMP(y)>>
        /\ JCC(x, c) \in Instructions /\ JMP(y) \in Instructions
    BY <1>1, <1>6 DEF Form, Good, Targets
  <2>2. <<JCC(x, c), JMP(y)>> \in [1..2 -> Instructions]
    BY <2>1
  <2> QED
    BY <1>2, <2>1, <2>2
<1> QED
  BY <1>3, <1>4, <1>5, <1>6

(* No block ever gets a third branch, and every variable keeps its type.   *)
THEOREM TypeCorrect == Spec => []TypeOK
<1>1. IInv => TypeOK
  <2> SUFFICES ASSUME IInv PROVE TypeOK
    OBVIOUS
  <2>1. term \in UNION {[1..k -> Instructions] : k \in 0..2}
    <3>1. CASE term = <<Return>>
      <4>1. <<Return>> \in [1..1 -> Instructions] /\ 1 \in 0..2
        BY DEF Instructions
      <4> QED
        BY <3>1, <4>1
    <3>2. CASE Realizes(term, next, source)
      BY <3>2, FormTyped DEF Realizes, Fits
    <3> QED
      BY <3>1, <3>2 DEF IInv, Leading
  <2>2. succ \subseteq Blocks
    BY DEF IInv, Typed, EdgesExact, Places
  <2> QED
    BY <2>1, <2>2 DEF IInv, Typed, TypeOK, Places
<1> QED
  BY <1>1, Invariance, PTL

(* Where the terminators lead is where the program goes.                   *)
LEMMA DestIsWanted ==
  ASSUME IInv, NEW f \in FlagValues
  PROVE  Dest(term, next, f) = Wants(source, f)
<1>1. CASE term = <<Return>> /\ source.yes = Exit /\ source.no = Exit
  <2>1. Dest(<<Return>>, next, f) = Exit
    BY DEF Dest, Return
  <2> QED
    BY <1>1, <2>1 DEF Wants
<1>2. CASE Realizes(term, next, source)
  <2>1. PICK x, y, c : Fits(x, y, c, next, source) /\ term = Form(x, y, c)
    BY <1>2 DEF Realizes
  <2>2. Dest(Form(x, y, c), next, f) = Leads(x, y, c, next, f)
    BY <2>1, FormDest DEF Fits
  <2> QED
    BY <2>1, <2>2 DEF Fits
<1> QED
  BY <1>1, <1>2 DEF IInv, Leading

(* Through every analysis, reversal, split, forwarding and move, the block *)
(* goes where the program says, whatever the flags.                        *)
THEOREM TargetsAreKept == Spec => []TargetsKept
<1>1. IInv => TargetsKept
  BY DestIsWanted DEF TargetsKept, Wants
<1> QED
  BY <1>1, Invariance, PTL

(* The control flow graph never loses an edge the block takes.             *)
THEOREM EdgesSuffice == Spec => []EdgesCoverTargets
<1>1. IInv => EdgesCoverTargets
  <2> SUFFICES ASSUME IInv, NEW f \in FlagValues
               PROVE  Dest(term, next, f) \in succ \cup {Exit}
    BY DEF EdgesCoverTargets
  <2>1. Dest(term, next, f) \in {source.yes, source.no}
    BY DestIsWanted DEF Wants
  <2> QED
    BY <2>1 DEF IInv, EdgesExact
<1> QED
  BY <1>1, Invariance, PTL

(* AnalyzeBranch can handle the branches the folding leaves.               *)
THEOREM AnalyzableStays == Spec => []StaysAnalyzable
<1>1. IInv => StaysAnalyzable
  <2> SUFFICES ASSUME IInv, term # <<Return>> PROVE StaysAnalyzable
    BY DEF StaysAnalyzable
  <2>1. PICK x, y, c : Fits(x, y, c, next, source) /\ term = Form(x, y, c)
    BY DEF IInv, Leading, Realizes
  <2> DEFINE a == AnalyzeBranch(term, next, FALSE)
  <2>2. a = Answer(Form(x, y, c), x, y, c) /\ Good(x, y, c)
    BY <2>1, FormAnalyzed DEF Fits
  <2> HIDE DEF a
  <2>3. a.found /\ a.fbb = y /\ a.cond = c
    BY <2>2, AnswerFields
  <2>4. a.found /\ (a.fbb # NoBlock => a.cond # NoCode)
    BY <2>2, <2>3 DEF Good
  <2> QED
    BY <2>4 DEF StaysAnalyzable, a
<1> QED
  BY <1>1, Invariance, PTL
-----------------------------------------------------------------------------
(* Folding in an unchanged layout.                                         *)

\* A form that neither the analysis nor OptimizeBlock on the block behind,
\* n, changes; one that OptimizeBlock on Self leaves alone too
Settled(x, y, c, n) ==
  /\ Good(x, y, c)
  /\ n # NoBlock => x # n /\ y # n /\ (x = NoBlock \/ x # y)
AtRest(x, y, c, n) ==
  /\ Settled(x, y, c, n)
  /\ NoBlock \notin {x, y} /\ y = Self => x = Self

(* The analysis leaves a settled form as it is.                            *)
LEMMA SettledAnalyzed ==
  ASSUME NEW n \in Targets, NEW x, NEW y, NEW c, Settled(x, y, c, n)
  PROVE  AnalyzeBranch(Form(x, y, c), n, TRUE) = Answer(Form(x, y, c), x, y, c)
<1> DEFINE a == AnalyzeBranch(Form(x, y, c), n, TRUE)
<1>1. Good(x, y, c)
  BY DEF Settled
<1>2. /\ x = n /\ c = NoCode => a = Answer(<<>>, NoBlock, NoBlock, NoCode)
      /\ c # NoCode /\ y = n => a = Answer(Form(x, NoBlock, c), x, NoBlock, c)
      /\ ~(x = n /\ c = NoCode) /\ ~(c # NoCode /\ y = n) => a = Answer(Form(x, y, c), x, y, c)
  BY <1>1, FormTrimmed
<1> HIDE DEF a
<1>3. CASE x = n /\ c = NoCode
  <2>1. x = NoBlock /\ y = NoBlock
    BY <1>1, <1>3 DEF Settled, Good
  <2> QED
    BY <1>2, <1>3, <2>1 DEF Form, a
<1>4. CASE c # NoCode /\ y = n
  <2>1. y = NoBlock
    BY <1>4 DEF Settled
  <2> QED
    BY <1>2, <1>4, <2>1 DEF a
<1>5. CASE ~(x = n /\ c = NoCode) /\ ~(c # NoCode /\ y = n)
  BY <1>2, <1>5 DEF a
<1> QED
  BY <1>3, <1>4, <1>5

(* Folding by the block behind settles the form the analysis found.        *)
LEMMA FoldPriorSettles ==
  ASSUME NEW n \in Blocks, NEW x, NEW y, NEW c, Good(x, y, c),
         y = NoBlock \/ y # n, NEW a, a = Answer(Form(x, y, c), x, y, c)
  PROVE  \E u, v, d : Settled(u, v, d, n) /\ FoldPrior(a, n) = Form(u, v, d)
<1>1. a.tbb = x /\ a.fbb = y /\ a.cond = c /\ a.term = Form(x, y, c)
  BY AnswerFields
<1>2. n # NoBlock
  BY BlocksAssumption
<1>3. CASE x # NoBlock /\ x = y
  <2>1. Settled(x, NoBlock, NoCode, n)
    BY <1>2, <1>3 DEF Settled, Good, Targets
  <2>2. FoldPrior(a, n) = Form(x, NoBlock, NoCode)
    BY <1>1, <1>3, <2>1, FormRebranched DEF FoldPrior, Settled
  <2> QED
    BY <2>1, <2>2
<1>4. CASE x = n /\ y = NoBlock
  <2>1. Settled(NoBlock, NoBlock, NoCode, n)
    BY <1>2 DEF Settled, Good, Targets
  <2>2. Form(NoBlock, NoBlock, NoCode) = <<>>
    BY DEF Form
  <2>3. FoldPrior(a, n) = Form(NoBlock, NoBlock, NoCode)
    BY <1>1, <1>2, <1>4, <2>2, FormRemoved DEF FoldPrior
  <2> QED
    BY <2>1, <2>3
<1>5. CASE x = n /\ x # y /\ y # NoBlock
  <2>1. c \in Codes
    BY <1>5 DEF Good
  <2>2. Settled(y, NoBlock, Reverse(c), n)
    BY <1>2, <1>5, <2>1, Turned DEF Settled, Good, Targets
  <2>3. FoldPrior(a, n) = Form(y, NoBlock, Reverse(c))
    BY <1>1, <1>2, <1>5, <2>2, FormRebranched DEF FoldPrior, Settled
  <2> QED
    BY <2>2, <2>3
<1>6. CASE x # n /\ (x = NoBlock \/ x # y)
  <2>1. y # n
    BY <1>2
  <2>2. Settled(x, y, c, n)
    BY <1>6, <2>1 DEF Settled
  <2>3. FoldPrior(a, n) = Form(x, y, c)
    BY <1>1, <1>6, <2>1 DEF FoldPrior
  <2> QED
    BY <2>2, <2>3
<1> QED
  BY <1>3, <1>4, <1>5, <1>6

(* Turning a settled form's loop round leaves nothing to turn.             *)
LEMMA FoldSelfRests ==
  ASSUME NEW n \in Others \cup {NoBlock}, NEW x, NEW y, NEW c, Settled(x, y, c, n),
         NEW a, a = Answer(Form(x, y, c), x, y, c)
  PROVE  /\ \E u, v, d : AtRest(u, v, d, n) /\ FoldSelf(a) = Form(u, v, d)
         /\ AtRest(x, y, c, n) => FoldSelf(a) = Form(x, y, c)
<1>1. a.tbb = x /\ a.fbb = y /\ a.cond = c /\ a.term = Form(x, y, c) /\ Good(x, y, c)
  BY AnswerFields DEF Settled
<1>2. CASE NoBlock \notin {x, y} /\ y = Self /\ x # Self
  <2>1. c \in Codes
    BY <1>1, <1>2 DEF Good
  <2>2. Good(y, x, Reverse(c)) /\ y # NoBlock
    BY <1>1, <1>2, <2>1, Turned DEF Good
  <2>3. FoldSelf(a) = Form(y, x, Reverse(c))
    BY <1>1, <1>2, <2>2, FormRebranched DEF FoldSelf
  <2>4. AtRest(y, x, Reverse(c), n)
    BY <1>2, <2>2 DEF AtRest, Settled
  <2>5. ~AtRest(x, y, c, n)
    BY <1>2 DEF AtRest
  <2> QED
    BY <2>3, <2>4, <2>5
<1>3. CASE ~(NoBlock \notin {x, y} /\ y = Self /\ x # Self)
  <2>1. FoldSelf(a) = Form(x, y, c)
    BY <1>1, <1>3 DEF FoldSelf
  <2>2. AtRest(x, y, c, n)
    BY <1>3 DEF AtRest
  <2> QED
    BY <2>1, <2>2
<1> QED
  BY <1>2, <1>3

(* One more round through ReoptimizeBlock brings any form to rest ...      *)
LEMMA ReoptimizedRests ==
  ASSUME next \in Others \cup {NoBlock}, NEW x, NEW y, NEW c, Good(x, y, c)
  PROVE  \E u, v, d : AtRest(u, v, d, next) /\ Reoptimize(Form(x, y, c)) = Form(u, v, d)
<1> DEFINE a == AnalyzeBranch(Form(x, y, c), next, TRUE)
           folded == IF a.found /\ next # NoBlock THEN FoldPrior(a, next) ELSE a.term
           b == AnalyzeBranch(folded, next, TRUE)
<1>1. next \in Targets
  BY DEF Targets, Others
<1>2. PICK x2, y2, c2 : /\ Good(x2, y2, c2) /\ a = Answer(Form(x2, y2, c2), x2, y2, c2)
                        /\ y2 = NoBlock \/ y2 # next
  <2>1. /\ x = next /\ c = NoCode => a = Answer(<<>>, NoBlock, NoBlock, NoCode)
        /\ c # NoCode /\ y = next => a = Answer(Form(x, NoBlock, c), x, NoBlock, c)
        /\ ~(x = next /\ c = NoCode) /\ ~(c # NoCode /\ y = next)
             => a = Answer(Form(x, y, c), x, y, c)
    BY <1>1, FormTrimmed
  <2> HIDE DEF a
  <2>2. CASE x = next /\ c = NoCode
    <3>1. Good(NoBlock, NoBlock, NoCode) /\ Form(NoBlock, NoBlock, NoCode) = <<>>
      BY DEF Good, Targets, Form
    <3> QED
      BY <2>1, <2>2, <3>1
  <2>3. CASE c # NoCode /\ y = next
    <3>1. Good(x, NoBlock, c)
      BY <2>3 DEF Good, Targets
    <3> QED
      BY <2>1, <2>3, <3>1
  <2>4. CASE ~(x = next /\ c = NoCode) /\ ~(c # NoCode /\ y = next)
    <3>1. y = NoBlock \/ y # next
      BY <2>4 DEF Good
    <3> QED
      BY <2>1, <2>4, <3>1
  <2> QED
    BY <2>2, <2>3, <2>4
<1> HIDE DEF a
<1>3. a.found /\ a.term = Form(x2, y2, c2)
  BY <1>2, AnswerFields
<1>4. PICK x3, y3, c3 : Settled(x3, y3, c3, next) /\ folded = Form(x3, y3, c3)
  <2>1. CASE next = NoBlock
    <3>1. Settled(x2, y2, c2, next)
      BY <1>2, <2>1 DEF Settled
    <3> QED
      BY <1>3, <2>1, <3>1
  <2>2. CASE next # NoBlock
    <3>1. next \in Blocks
      BY <2>2 DEF Others
    <3>2. \E u, v, d : Settled(u, v, d, next) /\ FoldPrior(a, next) = Form(u, v, d)
      BY <1>2, <3>1, FoldPriorSettles
    <3> QED
      BY <1>3, <2>2, <3>2
  <2> QED
    BY <2>1, <2>2
<1> HIDE DEF folded
<1>5. b = Answer(Form(x3, y3, c3), x3, y3, c3)
  BY <1>1, <1>4, SettledAnalyzed
<1> HIDE DEF b
<1>6. b.found
  BY <1>5, AnswerFields
<1>7. Reoptimize(Form(x, y, c)) = FoldSelf(b)
  BY <1>6 DEF Reoptimize, a, folded, b
<1>8. \E u, v, d : AtRest(u, v, d, next) /\ FoldSelf(b) = Form(u, v, d)
  BY <1>4, <1>5, FoldSelfRests
<1> QED
  BY <1>7, <1>8

(* ... and changes none that is at rest.                                   *)
LEMMA AtRestStays ==
  ASSUME next \in Others \cup {NoBlock}, NEW x, NEW y, NEW c, AtRest(x, y, c, next)
  PROVE  Reoptimize(Form(x, y, c)) = Form(x, y, c)
<1> DEFINE t == Form(x, y, c)
           a == AnalyzeBranch(t, next, TRUE)
<1>1. next \in Targets /\ Settled(x, y, c, next)
  BY DEF Targets, Others, AtRest
<1>2. a = Answer(t, x, y, c)
  BY <1>1, SettledAnalyzed
<1> HIDE DEF a, t
<1>3. a.found /\ a.term = t /\ a.tbb = x /\ a.fbb = y
  BY <1>2, AnswerFields
<1>4. next # NoBlock => FoldPrior(a, next) = t
  BY <1>1, <1>3 DEF FoldPrior, Settled
<1>5. FoldSelf(a) = t
  BY <1>1, <1>2, FoldSelfRests DEF t
<1>6. (IF a.found /\ next # NoBlock THEN FoldPrior(a, next) ELSE a.term) = t
  BY <1>3, <1>4
<1>7. Reoptimize(t) = IF a.found THEN FoldSelf(a) ELSE a.term
  BY <1>6 DEF Reoptimize, a
<1> QED
  BY <1>3, <1>5, <1>7 DEF t

(* Folding comes to rest: in an unchanged layout no rewriting of           *)
(* OptimizeBlock is ever undone by another, whatever block and code.       *)
THEOREM FoldingComesToRest == Spec => []FoldingRests
<1>1. IInv => FoldingRests
  <2> SUFFICES ASSUME IInv
               PROVE  LET t == Reoptimize(Reoptimize(term)) IN Reoptimize(t) = t
    BY DEF FoldingRests
  <2>1. next \in Others \cup {NoBlock}
    BY DEF IInv, Typed
  <2>2. CASE term = <<Return>>
    <3>1. Reoptimize(<<Return>>) = <<Return>>
      BY ReturnAnalyzed DEF Reoptimize
    <3> QED
      BY <2>2, <3>1
  <2>3. CASE Realizes(term, next, source)
    <3>1. PICK x, y, c : Good(x, y, c) /\ term = Form(x, y, c)
      BY <2>3 DEF Realizes, Fits
    <3>2. PICK u, v, d : AtRest(u, v, d, next) /\ Reoptimize(term) = Form(u, v, d)
      BY <2>1, <3>1, ReoptimizedRests
    <3>3. Reoptimize(Form(u, v, d)) = Form(u, v, d)
      BY <2>1, <3>2, AtRestStays
    <3> QED
      BY <3>2, <3>3
  <2> QED
    BY <2>2, <2>3 DEF IInv, Leading
<1> QED
  BY <1>1, Invariance, PTL
=============================================================================
