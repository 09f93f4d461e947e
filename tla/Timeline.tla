---- MODULE Timeline ----
(***************************************************************************)
(* The two halves of the server's history: the checkpoint grid in memory   *)
(* with the frames rendered from it (History), and the file its evicted    *)
(* checkpoints go to (Sidecar).  History takes from the file what Sidecar  *)
(* shows of it, that what was persisted before any damage reads back, so   *)
(* one behaviour looks at one of the two.                                  *)
(***************************************************************************)
EXTENDS History, Sidecar

VARIABLE half       \* the half this behaviour looks at

vars == <<historyVars, sidecarVars, half>>

Init ==
    /\ HistoryInit /\ SidecarInit
    /\ \/ half = "grid" /\ ~opened
       \/ half = "file" /\ role = CHOOSE r \in Roles : TRUE

Next ==
    \/ half = "grid" /\ HistoryNext /\ UNCHANGED <<sidecarVars, half>>
    \/ half = "file" /\ SidecarNext /\ UNCHANGED <<historyVars, half>>

Spec == Init /\ [][Next]_vars

TypeOK == half \in {"grid", "file"} /\ HistoryTypeOK /\ SidecarTypeOK
====
