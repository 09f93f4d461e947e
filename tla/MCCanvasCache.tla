---- MODULE MCCanvasCache ----
(***************************************************************************)
(* Model-checking instances of CanvasCache.  Cells and colours are         *)
(* interchangeable: nothing in the code orders them.                       *)
(***************************************************************************)
EXTENDS CanvasCache, TLC

Symmetry == Permutations(Cells) \cup Permutations(Colors)
====
