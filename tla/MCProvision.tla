---- MODULE MCProvision ----
(***************************************************************************)
(* Model-checking instance of Provision.  Claims and requests are          *)
(* interchangeable; cells are not, a sweep goes through them in order.     *)
(***************************************************************************)
EXTENDS Provision, TLC

Symmetry == Permutations(Requests)
====
