------------------------------ MODULE MCRouter ------------------------------
(***************************************************************************)
(* Small instances of Router for TLC.                                      *)
(***************************************************************************)
EXTENDS Router, Cooldown, Ranking, TLC

ServesAll == [c \in Conns |-> Models]

\* Direct requests; and combos of up to two models, too.
DirectWalks == [1 .. 1 -> Models]
ComboWalks == DirectWalks \cup [1 .. 2 -> Models]

\* Goroutines, and connections of the same auth type, are interchangeable.
\* Used with invariants and action properties only.
RequestSymmetry == Permutations(Requests)

=============================================================================
