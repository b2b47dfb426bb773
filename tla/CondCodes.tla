------------------------------ MODULE CondCodes ------------------------------
(***************************************************************************)
(* The condition codes of the Guc backend (GucCC), their opposites, and    *)
(* the conditions "bra" tests, under the names printCCOperand gives the    *)
(* codes (c, nc, e, ne, l, ge).                                            *)
(***************************************************************************)

Codes == {"E", "NE", "HS", "LO", "GE", "L"}

\* ReverseBranchCondition
Reverse(tcc) ==
  CASE tcc = "E" -> "NE" [] tcc = "NE" -> "E"
    [] tcc = "L" -> "GE" [] tcc = "GE" -> "L"
    [] tcc = "HS" -> "LO" [] tcc = "LO" -> "HS"

\* Does a branch with code tcc go, when the flags are f?
Holds(tcc, f) ==
  \/ tcc = "HS" /\ f.c
  \/ tcc = "LO" /\ ~f.c
  \/ tcc = "E" /\ f.z
  \/ tcc = "NE" /\ ~f.z
  \/ tcc = "L" /\ f.l
  \/ tcc = "GE" /\ ~f.l
=============================================================================
