---------------------------- MODULE MCTrillianLog -----------------------------
(***************************************************************************)
(* Small instances of TrillianLog for TLC.                                 *)
(***************************************************************************)
EXTENDS TrillianLog

CONSTANTS s1, s2, f1, f2

\* One clock for everybody, or clocks that disagree.
CommonClock == [c \in Client |-> 0]
SkewedClock == [c \in Client |-> CASE c = s1 -> -1 [] c = s2 -> 1 [] OTHER -> 0]

===============================================================================
