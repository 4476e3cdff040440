----------------------------- MODULE MCCatalog ------------------------------
(***************************************************************************)
(* Small instances of Catalog for TLC: a direct model of the static        *)
(* catalog, one only discovery knows, and an OpenRouter model whose prices *)
(* are mirrored to both.                                                   *)
(***************************************************************************)
EXTENDS Catalog

CONSTANTS d1, d2, o1

Mirrors == [o \in Routed |-> {d1, d2}]

=============================================================================
