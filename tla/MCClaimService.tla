---- MODULE MCClaimService ----
(***************************************************************************)
(* Model-checking instances of ClaimService.  Players, cells, claims and   *)
(* requests are interchangeable: nothing in the code orders them.          *)
(***************************************************************************)
EXTENDS ClaimService, TLC

Symmetry ==
    Permutations(Served) \cup Permutations(Pixels)
        \cup Permutations(ClaimIds) \cup Permutations(Requests)
====
