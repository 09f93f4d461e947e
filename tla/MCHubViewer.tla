---- MODULE MCHubViewer ----
(***************************************************************************)
(* Model-checking instance of HubViewer, for one cell, without the         *)
(* behaviours that differ from another one by a name only.                 *)
(***************************************************************************)
EXTENDS HubViewer

(* Colours are alike until the cell has one: it begins with at most the    *)
(* first.                                                                  *)
FirstColor == CHOOSE col \in Colors : TRUE
MCInit == Init /\ \A c \in Cells : bmp[c] \in {Empty, FirstColor}

(* A step of the delivery stays possible until it is taken or the stream   *)
(* breaks, so that Fairness implies that some of them are taken as long as *)
(* there are any; with a bound on changes and breaks that is enough.       *)
Deliver ==
    \/ \E r \in Requests : Broadcast(r)
    \/ Connect \/ SendSnapshot \/ Receive \/ Flush \/ Render

MCSpec == MCInit /\ [][Next]_vars /\ WF_vars(Deliver)

(* Requests that owe nothing are alike: when an operation begins, one of   *)
(* them stands for all.                                                    *)
Idle == {r \in Requests : outbox[r] = <<>>}
InTurn == \A r \in Idle : outbox'[r] # <<>> => r = CHOOSE q \in Idle : TRUE
====
