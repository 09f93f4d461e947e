---- MODULE Ledger ----
(***************************************************************************)
(* TigerBeetle as PixelBeetle uses it (internal/tbclient/tbclient.go).     *)
(*                                                                         *)
(* Every cell is an account flagged debits_must_not_exceed_credits and     *)
(* funded with one unit.  A claim is a pending transfer that reserves the  *)
(* unit for ClaimTimeoutSeconds; it is posted together with a re-fund in   *)
(* one linked batch, or voided, or times out.  The database itself is      *)
(* outside the repository: its part is written down from the statuses      *)
(* SubmitBatch tells apart.  A transfer's colour is not needed to tell     *)
(* states apart, so a claim stands for the colour it paints.               *)
(***************************************************************************)
EXTENDS Integers

CONSTANTS
    Players,    \* the players' ids (user_data_128 of a claim)
    Pixels,     \* the cells of the grid
    ClaimIds,   \* the UUIDv7 ids that NewClaim may mint, each at most once
    None        \* no player, no pixel, no claim

ASSUME NoneAssumption == None \notin Players \cup Pixels \cup ClaimIds

VARIABLES
    meta,       \* claim id -> the cell and the player NewClaim built it for
    status,     \* claim id -> state of the pending transfer in the database
    acct,       \* cell -> balances of its account
    standing    \* cell -> the claim posted last, what a fold of the history shows

ledgerVars == <<meta, status, acct, standing>>

NoMeta == [pixel |-> None, player |-> None]

(* "overdue": the timeout has passed, so a post or a void is answered      *)
(* "expired", but the reservation is not yet released.                     *)
Statuses == {"absent", "pending", "overdue", "posted", "voided", "expired"}
Reserving == {"pending", "overdue"}

LedgerTypeOK ==
    /\ meta \in [ClaimIds -> [pixel : Pixels, player : Players] \cup {NoMeta}]
    /\ status \in [ClaimIds -> Statuses]
    /\ acct \in [Pixels -> [pending : Nat, debits : Nat, credits : Nat]]
    /\ standing \in [Pixels -> ClaimIds \cup {None}]

(* Every account exists and holds its one unit: the state after            *)
(* EnsureAllPixels, which the server runs before it serves (-eager).       *)
LedgerInit ==
    /\ meta = [id \in ClaimIds |-> NoMeta]
    /\ status = [id \in ClaimIds |-> "absent"]
    /\ acct = [p \in Pixels |-> [pending |-> 0, debits |-> 0, credits |-> 1]]
    /\ standing = [p \in Pixels |-> None]

Fresh(id) == meta[id] = NoMeta

(* Mutated form of HasUnit: reservations are not counted.                  *)
HasUnitUnreserved(p) == acct[p].debits + 1 <= acct[p].credits

(* debits_must_not_exceed_credits, for a debit of one unit.                *)
HasUnit(p) == acct[p].pending + acct[p].debits + 1 <= acct[p].credits

(* NewClaim only builds the transfer; nothing reaches the database yet.    *)
NewClaim(id, p, pl) ==
    /\ Fresh(id)
    /\ meta' = [meta EXCEPT ![id] = [pixel |-> p, player |-> pl]]

CreatePending(id) ==
    LET p == meta[id].pixel IN
    /\ status[id] = "absent"
    /\ HasUnit(p)
    /\ status' = [status EXCEPT ![id] = "pending"]
    /\ acct' = [acct EXCEPT ![p].pending = @ + 1]
    /\ UNCHANGED <<meta, standing>>

(* Mutated forms of PostAndRefund: the refund is missing; the post takes an *)
(* expired pending.                                                        *)
PostWithoutRefund(id) ==
    LET p == meta[id].pixel IN
    /\ status[id] = "pending"
    /\ status' = [status EXCEPT ![id] = "posted"]
    /\ acct' = [acct EXCEPT ![p] = [@ EXCEPT !.pending = @ - 1, !.debits = @ + 1]]
    /\ standing' = [standing EXCEPT ![p] = id]
    /\ UNCHANGED meta

PostOfExpired(id) ==
    LET p == meta[id].pixel IN
    /\ status[id] \in {"pending", "expired"}
    /\ status' = [status EXCEPT ![id] = "posted"]
    /\ acct' = [acct EXCEPT ![p] = [pending |-> @.pending - (IF status[id] = "pending" THEN 1 ELSE 0),
                                    debits  |-> @.debits + 1,
                                    credits |-> @.credits + 1]]
    /\ standing' = [standing EXCEPT ![p] = id]
    /\ UNCHANGED meta

(* BuildConfirm: the post leg spends the unit, the linked refund restores it. *)
PostAndRefund(id) ==
    LET p == meta[id].pixel IN
    /\ status[id] = "pending"
    /\ status' = [status EXCEPT ![id] = "posted"]
    /\ acct' = [acct EXCEPT ![p] = [pending |-> @.pending - 1,
                                    debits  |-> @.debits + 1,
                                    credits |-> @.credits + 1]]
    /\ standing' = [standing EXCEPT ![p] = id]
    /\ UNCHANGED meta

(* Mutated form of VoidPending: a resolved claim is voided again.          *)
VoidAny(id) ==
    /\ status[id] # "absent"
    /\ status' = [status EXCEPT ![id] = "voided"]
    /\ acct' = [acct EXCEPT ![meta[id].pixel].pending = @ - 1]
    /\ UNCHANGED <<meta, standing>>

VoidPending(id) ==
    LET p == meta[id].pixel IN
    /\ status[id] = "pending"
    /\ status' = [status EXCEPT ![id] = "voided"]
    /\ acct' = [acct EXCEPT ![p].pending = @ - 1]
    /\ UNCHANGED <<meta, standing>>

(* Mutated form of Timeout.                                                *)
NoTimeout(id) == FALSE /\ UNCHANGED ledgerVars

Timeout(id) ==
    /\ status[id] = "pending"
    /\ status' = [status EXCEPT ![id] = "overdue"]
    /\ UNCHANGED <<meta, acct, standing>>

Release(id) ==
    LET p == meta[id].pixel IN
    /\ status[id] = "overdue"
    /\ status' = [status EXCEPT ![id] = "expired"]
    /\ acct' = [acct EXCEPT ![p].pending = @ - 1]
    /\ UNCHANGED <<meta, standing>>

(* Mutated form of ConfirmAnswer: an expired claim counts as confirmed.    *)
ConfirmAnswerLate(id) ==
    IF status[id] \in {"pending", "overdue", "expired"} THEN "ok" ELSE "error"

(***************************************************************************)
(* What SubmitBatch makes of the statuses.  The post leg of an already     *)
(* resolved claim passes the switch, but its linked refund then fails with *)
(* a status that does not, so a second confirm is an error.  A lone void   *)
(* of a resolved claim counts as a success.                                *)
(***************************************************************************)
ConfirmAnswer(id) ==
    CASE status[id] = "pending" -> "ok"
      [] status[id] \in {"overdue", "expired"} -> "expired"
      [] OTHER -> "error"

VoidAnswer(id) ==
    CASE status[id] \in {"pending", "posted", "voided"} -> "ok"
      [] status[id] \in {"overdue", "expired"} -> "expired"
      [] OTHER -> "error"

(* The void leg: a pending claim is voided, any other is left as it is.    *)
SubmitVoid(id) ==
    \/ VoidPending(id)
    \/ status[id] # "pending" /\ UNCHANGED ledgerVars

(* The confirm batch, all or nothing.                                      *)
SubmitConfirm(id) ==
    \/ PostAndRefund(id)
    \/ status[id] # "pending" /\ UNCHANGED ledgerVars

(* A direct writer builds and submits in one step.                         *)
BuildAndCreate(id, p, pl) ==
    /\ HasUnit(p)
    /\ NewClaim(id, p, pl)
    /\ status' = [status EXCEPT ![id] = "pending"]
    /\ acct' = [acct EXCEPT ![p].pending = @ + 1]
    /\ UNCHANGED standing

(* Everything that can happen to the ledger in one step.                   *)
LedgerMove ==
    \/ UNCHANGED ledgerVars
    \/ \E id \in ClaimIds, p \in Pixels, pl \in Players :
        \/ NewClaim(id, p, pl) /\ UNCHANGED <<status, acct, standing>>
        \/ BuildAndCreate(id, p, pl)
    \/ \E id \in ClaimIds :
        \/ ~Fresh(id) /\ CreatePending(id)
        \/ PostAndRefund(id)
        \/ VoidPending(id)
        \/ Timeout(id)
        \/ Release(id)

(***************************************************************************)
(* Properties of the ledger.                                               *)
(***************************************************************************)
Holds(id, p) == status[id] \in Reserving /\ meta[id].pixel = p

(* A cell's unit is reserved by at most one claim at any time: the         *)
(* exclusivity that debits_must_not_exceed_credits and the one-unit        *)
(* funding are there to give (tbclient.go NewClaim, EnsureAccounts).       *)
Exclusive ==
    \A p \in Pixels : \A a, b \in ClaimIds : Holds(a, p) /\ Holds(b, p) => a = b

(* Whatever is posted, voided or released, a cell's account is worth       *)
(* exactly one unit and its pending debits are exactly the reservation     *)
(* standing on it: no interleaving loses or doubles a unit (BuildConfirm). *)
OneUnit ==
    \A p \in Pixels :
        /\ acct[p].credits - acct[p].debits = 1
        /\ acct[p].pending = IF \E id \in ClaimIds : Holds(id, p) THEN 1 ELSE 0

====
