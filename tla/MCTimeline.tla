---- MODULE MCTimeline ----
(***************************************************************************)
(* Model-checking instance of Timeline.  Colours can be exchanged, and     *)
(* bitmaps in the file.                                                    *)
(***************************************************************************)
EXTENDS Timeline, TLC

Symmetry == Permutations(Colors) \cup Permutations(States)
====
