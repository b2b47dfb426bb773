---------------------------- MODULE MCHostDriver ----------------------------
(* Terminals with no, one or two typed commands before the driver starts,  *)
(* or none at all.  A size request answers with any bits.                  *)
EXTENDS HostDriver, TLC

CONSTANTS ready, load, other, empty, ff, ffff, c1, d1

MCLines == {<<ffff>>, <<ff, ffff>>, <<c1, d1, ffff>>, <<c1, d1, c1, ffff>>, <<c1, d1>>, <<>>}

AnyBits == SUBSET {ready, load, other} \ {{}}

MCAnswers ==
  [c \in {"0x10", "0x16", "0x25"} |-> AnyBits]
  @@ [c \in {"0x21"} |-> {{}}] @@ [c \in {"0x3"} |-> {{load}}] @@ [c \in {"0x9"} |-> {{ready}}]
  @@ [c \in {empty, ff, ffff, c1, d1} |-> {{}, {other}}]
=============================================================================
