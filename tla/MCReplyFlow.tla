------------------------------ MODULE MCReplyFlow ------------------------------
(* Small instances of ReplyFlow for TLC. *)
EXTENDS ReplyFlow, TLC

CONSTANTS a, b, p1, p2, c1, c2

\* Calls are interchangeable; the posts are not, one of them has a poster who banned us.
Symmetry == Permutations(Calls)
SymmetryTwo == Permutations(Calls) \union Permutations(Panes)
===============================================================================
