----------------------------- MODULE Terminators -----------------------------
(***************************************************************************)
(* The branches at the end of one basic block, Self, from instruction      *)
(* selection to the end of branch folding.  The target says what they are  *)
(* (AnalyzeBranch), removes and inserts them and reverses a condition      *)
(* (GucInstrInfo.cpp); the code generator uses that to split critical      *)
(* edges and, in BranchFolding, to make the block fall through to whatever *)
(* block the layout puts behind it.                                        *)
(*                                                                         *)
(* The other blocks appear as Self sees them: as targets, as successors in *)
(* the control flow graph and as the next block of the layout.  A return   *)
(* goes to Exit.  Blocks that end in a call that does not return, jump     *)
(* tables, exception handling, merged blocks and duplicated tails are left *)
(* out, and so are branches whose two targets are one from the start.      *)
(***************************************************************************)
EXTENDS CondCodes, Naturals, Sequences

CONSTANTS
  Blocks,   \* the basic blocks of the function
  Self,     \* the one whose branches are modelled
  NoBlock,  \* no block: behind the last one, or a target that is not there
  Exit      \* where a return goes

ASSUME BlocksAssumption ==
  Self \in Blocks /\ NoBlock \notin Blocks /\ Exit \notin Blocks \cup {NoBlock}

Others == Blocks \ {Self}
NoCode == "none"

JMP(b) == [op |-> "JMP", to |-> b, cc |-> NoCode]
JCC(b, cc) == [op |-> "JCC", to |-> b, cc |-> cc]
Return == [op |-> "RET", to |-> Exit, cc |-> NoCode]

FlagValues == [c : BOOLEAN, z : BOOLEAN, l : BOOLEAN]

\* Where terminators t lead with flags f when block n is laid out next
Dest(t, n, f) ==
  LET stops(k) == t[k].op # "JCC" \/ Holds(t[k].cc, f)
  IN IF Len(t) > 0 /\ stops(1) THEN t[1].to
     ELSE IF Len(t) > 1 /\ stops(2) THEN t[2].to ELSE n

-----------------------------------------------------------------------------
(* GucInstrInfo.                                                           *)

\* AnalyzeBranch's state: k is the terminator it comes to next, from the
\* bottom; found says it can be handled so far.
Start(t) == [term |-> t, k |-> Len(t), found |-> TRUE,
             tbb |-> NoBlock, fbb |-> NoBlock, cond |-> NoCode]

ScanJump(a, n, modify) ==
  LET to == a.term[a.k].to
  IN IF ~modify THEN [a EXCEPT !.tbb = to, !.k = @ - 1]
     ELSE IF to = n
     THEN [term |-> SubSeq(a.term, 1, a.k - 1), k |-> a.k - 1, found |-> TRUE,
           tbb |-> NoBlock, fbb |-> NoBlock, cond |-> NoCode]
     ELSE [term |-> SubSeq(a.term, 1, a.k), k |-> a.k - 1, found |-> TRUE,
           tbb |-> to, fbb |-> NoBlock, cond |-> NoCode]

\* Fault variant of ScanCond: the unconditional target is dropped.
ScanCondAlone(a) ==
  [a EXCEPT !.tbb = a.term[a.k].to, !.fbb = NoBlock, !.cond = a.term[a.k].cc, !.k = @ - 1]

ScanCond(a) ==
  LET branch == a.term[a.k]
  IN IF a.cond = NoCode
     THEN [a EXCEPT !.fbb = a.tbb, !.tbb = branch.to, !.cond = branch.cc, !.k = @ - 1]
     ELSE IF a.tbb = branch.to /\ a.cond = branch.cc THEN [a EXCEPT !.k = @ - 1]
     ELSE [a EXCEPT !.found = FALSE]

Scan(a, n, modify) ==
  IF a.k = 0 \/ ~a.found THEN a
  ELSE IF a.term[a.k].op = "JMP" THEN ScanJump(a, n, modify)
  ELSE IF a.term[a.k].op = "JCC" THEN ScanCond(a)
  ELSE [a EXCEPT !.found = FALSE]

AnalyzeBranch(t, n, modify) == Scan(Scan(Start(t), n, modify), n, modify)

\* Fault variant of RemoveBranch: only the last branch is removed.
RemoveLast(t) == IF t # <<>> /\ t[Len(t)].op # "RET" THEN SubSeq(t, 1, Len(t) - 1) ELSE t

RemoveBranch(t) ==
  LET below(k) == \A i \in k..Len(t) : t[i].op \in {"JMP", "JCC"}
  IN IF below(1) THEN <<>> ELSE IF below(2) THEN <<t[1]>> ELSE t

InsertBranch(t, tbb, fbb, cond) ==
  IF cond = NoCode THEN Append(t, JMP(tbb))
  ELSE Append(t, JCC(tbb, cond)) \o (IF fbb = NoBlock THEN <<>> ELSE <<JMP(fbb)>>)

Rebranch(t, tbb, fbb, cond) == InsertBranch(RemoveBranch(t), tbb, fbb, cond)

-----------------------------------------------------------------------------
(* The code generator's helpers.                                           *)

\* MachineBasicBlock::canFallThrough
CanFallThrough(t, n, succ) ==
  LET a == AnalyzeBranch(t, n, FALSE)
  IN /\ n # NoBlock /\ n \in succ
     /\ IF ~a.found THEN t = <<>> \/ t[Len(t)].op = "JCC"
        ELSE \/ a.tbb = NoBlock
             \/ n \in {a.tbb, a.fbb}
             \/ a.cond # NoCode /\ a.fbb = NoBlock

\* Fault variant of CorrectEdges: the edge of a branch that falls through is forgotten.
CorrectEdgesTaken(a, n, succ) ==
  IF a.tbb = NoBlock THEN succ \cap {n} ELSE succ \cap {a.tbb, a.fbb}

\* CorrectExtraCFGEdges
CorrectEdges(a, n, succ) ==
  IF a.tbb = NoBlock THEN succ \cap {n}
  ELSE IF a.fbb = NoBlock THEN succ \cap (IF a.cond # NoCode THEN {a.tbb, n} ELSE {a.tbb})
  ELSE succ \cap {a.tbb, a.fbb}

Renamed(b, old, new) == IF b = old THEN new ELSE b
ReplaceUses(t, old, new) == [k \in DOMAIN t |-> [t[k] EXCEPT !.to = Renamed(@, old, new)]]
ReplaceEdge(succ, old, new) == {Renamed(b, old, new) : b \in succ}

\* updateTerminator, for a block that ends in a conditional branch
UpdateTerminator(t, n, succ) ==
  LET a == AnalyzeBranch(t, n, FALSE)
      other == CHOOSE b \in succ : b # a.tbb
  IN IF a.fbb # NoBlock
     THEN IF a.tbb = n THEN Rebranch(t, a.fbb, NoBlock, Reverse(a.cond))
          ELSE IF a.fbb = n THEN Rebranch(t, a.tbb, NoBlock, a.cond) ELSE t
     ELSE IF a.tbb = n THEN Rebranch(t, other, NoBlock, Reverse(a.cond))
          ELSE IF other # n THEN Rebranch(t, a.tbb, other, a.cond) ELSE t

\* OptimizeBlock on the block behind Self; a is the analysis of Self.
FoldPrior(a, n) ==
  IF a.tbb # NoBlock /\ a.tbb = a.fbb
  THEN IF a.tbb = n THEN RemoveBranch(a.term)
       ELSE Rebranch(a.term, a.tbb, NoBlock, NoCode)
  ELSE IF a.tbb = n /\ a.fbb = NoBlock THEN RemoveBranch(a.term)
  ELSE IF a.fbb = n THEN Rebranch(a.term, a.tbb, NoBlock, a.cond)
  ELSE IF a.tbb = n THEN Rebranch(a.term, a.fbb, NoBlock, Reverse(a.cond))
  ELSE a.term

\* Fault variant of FoldSelf: any two-way branch is turned round.
FoldEitherWay(a) ==
  IF NoBlock \notin {a.tbb, a.fbb}
  THEN Rebranch(a.term, a.fbb, a.tbb, Reverse(a.cond)) ELSE a.term

\* OptimizeBlock on Self: a loop of one block branches back on the condition.
FoldSelf(a) ==
  IF NoBlock \notin {a.tbb, a.fbb} /\ a.fbb = Self /\ a.tbb # Self
  THEN Rebranch(a.term, a.fbb, a.tbb, Reverse(a.cond)) ELSE a.term

\* TailMergeBlocks takes the branch to b away while it compares tails ...
WithoutBranchTo(a, n, b) ==
  LET no == IF a.cond # NoCode /\ a.tbb = b /\ a.fbb = NoBlock THEN n ELSE a.fbb
      rest == RemoveBranch(a.term)
  IN IF a.tbb = NoBlock \/ (a.cond # NoCode /\ no = NoBlock) THEN a.term
     ELSE IF a.cond = NoCode THEN rest
     ELSE IF a.tbb = b THEN InsertBranch(rest, no, NoBlock, Reverse(a.cond))
     ELSE InsertBranch(rest, a.tbb, NoBlock, a.cond)

\* ... and FixTail puts it back, unless b is next.
FixTail(t, n, b) ==
  LET a == AnalyzeBranch(t, n, TRUE)
  IN IF n = NoBlock THEN InsertBranch(t, b, NoBlock, NoCode)
     ELSE IF a.found /\ a.tbb = n /\ a.cond # NoCode /\ a.fbb = NoBlock
     THEN Rebranch(a.term, b, NoBlock, Reverse(a.cond))
     ELSE InsertBranch(a.term, b, NoBlock, NoCode)
-----------------------------------------------------------------------------
VARIABLES
  term,    \* the terminators of Self
  next,    \* the block laid out behind Self
  succ,    \* Self's successors in the control flow graph
  source,  \* where the program says it goes: to "yes" if cc holds, or to "no"
  pass     \* "split": before branch folding, "fold": in it

vars == <<term, next, succ, source, pass>>

(* What visitBr, visitSwitchCase and EmitInstrWithCustomInserter emit: the *)
(* condition is inverted if its target is next, a jump to the next block   *)
(* is left out.                                                            *)
Emitted(s, n) ==
  IF s.yes = s.no
  THEN IF s.yes = Exit THEN <<Return>> ELSE IF s.yes = n THEN <<>> ELSE <<JMP(s.yes)>>
  ELSE IF s.yes = n THEN <<JCC(s.no, Reverse(s.cc))>>
  ELSE IF s.no = n THEN <<JCC(s.yes, s.cc)>> ELSE <<JCC(s.yes, s.cc), JMP(s.no)>>

Sources == {s \in [cc : Codes, yes : Blocks \cup {Exit}, no : Blocks \cup {Exit}] :
              Exit \in {s.yes, s.no} => s.yes = s.no}

Init ==
  /\ pass = "split"
  /\ source \in Sources
  /\ next \in Others \cup {NoBlock}
  /\ term = Emitted(source, next)
  /\ succ = {source.yes, source.no} \ {Exit}

Rename(old, new) ==
  source' = [source EXCEPT !.yes = Renamed(@, old, new), !.no = Renamed(@, old, new)]

(* SplitCriticalEdge, for the edge to old: a new block that goes to old is *)
(* laid out behind Self.                                                   *)
SplitCriticalEdge(old, new) ==
  /\ pass = "split"
  /\ old \in succ /\ succ # {old}
  /\ new \in Others \ (succ \cup {next})
  /\ AnalyzeBranch(term, next, FALSE).found
  /\ next' = new
  /\ succ' = ReplaceEdge(succ, old, new)
  /\ term' = UpdateTerminator(ReplaceUses(term, old, new), new, succ')
  /\ Rename(old, new)
  /\ UNCHANGED pass

(* Branch folding begins with the analysis of every block (OptimizeFunction). *)
BeginFolding ==
  /\ pass = "split" /\ pass' = "fold"
  /\ LET a == AnalyzeBranch(term, next, TRUE)
     IN /\ term' = a.term
        /\ succ' = IF a.found THEN CorrectEdges(a, next, succ) ELSE succ
  /\ UNCHANGED <<next, source>>

\* OptimizeBlock on the next block rewrites the branches of the one before it.
OptimizeNext ==
  /\ pass = "fold" /\ next # NoBlock
  /\ LET a == AnalyzeBranch(term, next, TRUE)
     IN /\ a.found
        /\ term' = FoldPrior(a, next)
        /\ succ' = CorrectEdges(a, next, succ)
  /\ UNCHANGED <<next, source, pass>>

\* OptimizeBlock on Self
OptimizeSelf ==
  /\ pass = "fold"
  /\ LET a == AnalyzeBranch(term, next, TRUE)
     IN /\ a.found
        /\ term' = FoldSelf(a)
        /\ succ' = CorrectEdges(a, next, succ)
  /\ UNCHANGED <<next, source, pass>>

(* The next block does not return and Self would rather fall through to    *)
(* its own branch target, which comes behind it.                           *)
MoveNextToEnd ==
  /\ pass = "fold" /\ next # NoBlock
  /\ LET a == AnalyzeBranch(term, next, TRUE)
     IN /\ a.found /\ FoldPrior(a, next) = a.term
        /\ a.cond # NoCode /\ a.fbb = NoBlock /\ a.tbb # Self
        /\ term' = Rebranch(a.term, next, NoBlock, Reverse(a.cond))
        /\ succ' = CorrectEdges(a, next, succ)
        /\ next' = a.tbb
  /\ UNCHANGED <<source, pass>>

\* Fault variant of Move: a jump is appended to a two-way branch too.
MoveAnyway(n) ==
  /\ pass = "fold"
  /\ LET a == AnalyzeBranch(term, next, TRUE)
         falls == CanFallThrough(a.term, next, succ')
     IN /\ succ' = IF a.found THEN CorrectEdges(a, next, succ) ELSE succ
        /\ term' = IF falls THEN InsertBranch(a.term, next, NoBlock, NoCode) ELSE a.term
  /\ next' = n
  /\ UNCHANGED <<source, pass>>

(* OptimizeBlock moves Self to where n is next.  If it fell through and is *)
(* not a two-way branch, a jump to the block it leaves is appended.        *)
Move(n) ==
  /\ pass = "fold"
  /\ LET a == AnalyzeBranch(term, next, TRUE)
         falls == CanFallThrough(a.term, next, succ')
     IN /\ succ' = IF a.found THEN CorrectEdges(a, next, succ) ELSE succ
        /\ falls => NoBlock \in {a.tbb, a.fbb}
        /\ term' = IF falls THEN InsertBranch(a.term, next, NoBlock, NoCode) ELSE a.term
  /\ next' = n
  /\ UNCHANGED <<source, pass>>

\* Another block is put behind Self, or the one there is moved or removed.
Displace(n) ==
  /\ pass = "fold"
  /\ ~CanFallThrough(term, next, succ)
  /\ next' = n
  /\ UNCHANGED <<term, succ, source, pass>>

(* OptimizeBlock on an empty block, old: its predecessors go to new, the   *)
(* block behind it, and it is removed.                                     *)
ForwardEmpty(old, new) ==
  /\ pass = "fold"
  /\ old \in succ \ {Self} /\ new \in Blocks \ {old}
  /\ IF next = old THEN new # Self /\ next' = new ELSE new # next /\ next' = next
  /\ term' = ReplaceUses(term, old, new)
  /\ succ' = ReplaceEdge(succ, old, new)
  /\ Rename(old, new)
  /\ UNCHANGED pass

\* Self as the block before old, made to branch to old explicitly
Explicit(a, old, edges) ==
  IF CanFallThrough(a.term, old, edges) /\ old \notin {a.tbb, a.fbb}
  THEN IF a.tbb = NoBlock THEN Rebranch(a.term, old, NoBlock, NoCode)
       ELSE Rebranch(a.term, a.tbb, old, a.cond)
  ELSE a.term

(* OptimizeBlock on old, which holds nothing but a jump to new: its        *)
(* predecessors go to new, and it is removed; then n is behind Self.       *)
ForwardJump(old, new, n) ==
  /\ pass = "fold"
  /\ old \in succ \ {Self} /\ new \in Blocks \ {old}
  /\ IF next = old THEN n # old ELSE n = next
  /\ LET a == AnalyzeBranch(term, next, TRUE)
         edges == IF next = old THEN CorrectEdges(a, next, succ) ELSE succ
         explicit == IF next = old THEN Explicit(a, old, edges) ELSE term
         replaced == ReplaceUses(explicit, old, new)
         after == AnalyzeBranch(replaced, next, TRUE)
         one == after.tbb # NoBlock /\ after.tbb = after.fbb
     IN /\ next = old => a.found /\ FoldPrior(a, next) = a.term
        /\ term' = IF one THEN Rebranch(after.term, new, NoBlock, NoCode) ELSE after.term
        /\ succ' = IF one THEN {new} ELSE ReplaceEdge(edges, old, new)
  /\ next' = n
  /\ Rename(old, new)
  /\ UNCHANGED pass

\* TailMergeBlocks finds nothing to merge among the predecessors of b.
CompareTails(b) ==
  /\ pass = "fold"
  /\ b \in succ \ {Self}
  /\ LET a == AnalyzeBranch(term, next, TRUE)
         t == WithoutBranchTo(a, next, b)
     IN a.found /\ term' = IF next = b THEN t ELSE FixTail(t, next, b)
  /\ UNCHANGED <<next, succ, source, pass>>

Next ==
  \/ \E old, new \in Blocks : SplitCriticalEdge(old, new)
  \/ BeginFolding
  \/ OptimizeNext
  \/ OptimizeSelf
  \/ MoveNextToEnd
  \/ \E n \in Others \cup {NoBlock} : Move(n)
  \/ \E n \in Others \cup {NoBlock} : Displace(n)
  \/ \E old, new \in Blocks : ForwardEmpty(old, new)
  \/ \E old, new \in Blocks, n \in Others \cup {NoBlock} : ForwardJump(old, new, n)
  \/ \E b \in Blocks : CompareTails(b)

Spec == Init /\ [][Next]_vars
-----------------------------------------------------------------------------
(* Properties.                                                             *)

Instructions == {JMP(b) : b \in Blocks} \cup {JCC(b, cc) : b \in Blocks, cc \in Codes} \cup {Return}

(* Every variable has its type; no block ever has a third branch.          *)
TypeOK ==
  /\ term \in UNION {[1..k -> Instructions] : k \in 0..2}
  /\ next \in Others \cup {NoBlock}
  /\ succ \subseteq Blocks
  /\ source \in [cc : Codes, yes : Blocks \cup {Exit}, no : Blocks \cup {Exit}]
  /\ pass \in {"split", "fold"}

(* Whatever the flags, the terminators and the layout lead to the block    *)
(* the program goes to: after any sequence of analyses that delete jumps,  *)
(* reversed conditions, split edges, forwarded targets and moved blocks.   *)
TargetsKept ==
  \A f \in FlagValues :
    Dest(term, next, f) = IF Holds(source.cc, f) THEN source.yes ELSE source.no

(* The control flow graph has every edge that Self takes:                  *)
(* canFallThrough and CorrectExtraCFGEdges go by its edges, and a block    *)
(* without predecessors is removed.                                        *)
EdgesCoverTargets ==
  \A f \in FlagValues : Dest(term, next, f) \in succ \cup {Exit}

(* The branches stay such that AnalyzeBranch can handle them, which        *)
(* updateTerminator and CorrectExtraCFGEdges assert.                       *)
StaysAnalyzable ==
  LET a == AnalyzeBranch(term, next, FALSE)
  IN term # <<Return>> => a.found /\ (a.fbb # NoBlock => a.cond # NoCode)

\* One more time through ReoptimizeBlock, for Self and for the block behind
Reoptimize(t) ==
  LET a == AnalyzeBranch(t, next, TRUE)
      folded == IF a.found /\ next # NoBlock THEN FoldPrior(a, next) ELSE a.term
      b == AnalyzeBranch(folded, next, TRUE)
  IN IF b.found THEN FoldSelf(b) ELSE b.term

(* The rewritings of OptimizeBlock do not undo each other: in an unchanged *)
(* layout, branch folding comes to rest ("goto ReoptimizeBlock").          *)
FoldingRests ==
  pass = "fold" => LET t == Reoptimize(Reoptimize(term)) IN Reoptimize(t) = t
=============================================================================
