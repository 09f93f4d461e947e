---- MODULE PixelCells ----
(***************************************************************************)
(* What the game promises of its cells, whoever claims and however         *)
(* requests fail (docs/tigerbeetle-usage.md, "Pixel cell state machine"):  *)
(* a cell is free or held by one claim; a held cell is painted by exactly  *)
(* that claim or set free; a claim that is over never holds or paints      *)
(* again; and no cell is held for ever.                                    *)
(***************************************************************************)
CONSTANTS Cells, Claims, None

VARIABLES
    holder,     \* cell -> the claim that holds it
    painter,    \* cell -> the claim whose colour it has
    over        \* claims that have painted or been given up

vars == <<holder, painter, over>>

Init ==
    /\ holder = [c \in Cells |-> None]
    /\ painter = [c \in Cells |-> None]
    /\ over = {}

Hold(c, claim) ==
    /\ holder[c] = None
    /\ claim \notin over
    /\ \A d \in Cells : holder[d] # claim
    /\ holder' = [holder EXCEPT ![c] = claim]
    /\ UNCHANGED <<painter, over>>

Paint(c) ==
    /\ holder[c] # None
    /\ painter' = [painter EXCEPT ![c] = holder[c]]
    /\ over' = over \cup {holder[c]}
    /\ holder' = [holder EXCEPT ![c] = None]

GiveUp(c) ==
    /\ holder[c] # None
    /\ over' = over \cup {holder[c]}
    /\ holder' = [holder EXCEPT ![c] = None]
    /\ UNCHANGED painter

Next == \E c \in Cells :
    \/ \E claim \in Claims : Hold(c, claim)
    \/ Paint(c)
    \/ GiveUp(c)

Spec == Init /\ [][Next]_vars

FairSpec == Spec /\ \A c \in Cells : WF_vars(Paint(c) \/ GiveUp(c))
====
