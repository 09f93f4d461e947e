---- MODULE ClaimService ----
(***************************************************************************)
(* The claim service of one game server (internal/game/game.go): the lock  *)
(* table, the claim registry, the standing bitmap and the events handed to *)
(* the SSE hub, under concurrent Claim, Confirm and Cancel requests, the   *)
(* reaper, restarts, and writers that go straight to TigerBeetle.          *)
(*                                                                         *)
(* A request is a goroutine.  It runs atomically only while it holds s.mu  *)
(* or inside one TigerBeetle request, so each of those sections, and each  *)
(* broadcast, is a step of its own.  Time is not modelled: a lock may pass *)
(* its expiry and a pending transfer its timeout at any moment, in either  *)
(* order, since the two clocks differ and a request may be slow.           *)
(*                                                                         *)
(* The watermark and the checkpoints Confirm also touches are the subject  *)
(* of CanvasCache; the cells are provisioned, as the server does at boot.  *)
(***************************************************************************)
EXTENDS Ledger

CONSTANTS
    Requests,       \* the goroutines that may serve a request at one time
    Direct,         \* players whose bots write to TigerBeetle themselves
    MaxErrors,      \* bound: client errors of a TigerBeetle request
    MaxRestarts     \* bound: restarts of the server

ASSUME ServiceAssumption ==
    /\ Direct \subseteq Players
    /\ MaxErrors \in Nat
    /\ MaxRestarts \in Nat

VARIABLES
    locks,      \* s.locks: cell -> the claim whose registration set the lock
    expired,    \* claims whose lock's expiry has passed
    claims,     \* s.claims: ids of the registered claims
    byPlayer,   \* s.byPlayer: player -> the claim recorded as theirs
    bmp,        \* s.bmp: cell -> the claim whose colour the byte shows
    pc,         \* request -> what it does next
    frame,      \* request -> its local variables
    reaping,    \* cells the reaper has unlocked and not yet broadcast
    granted,    \* ids that Claim has returned to a player
    boxes,      \* lock boxes on a screen that gets every event in order
    screen,     \* cell -> the claim whose colour that screen shows
    errors,     \* client errors so far
    restarts    \* restarts so far

tables == <<locks, claims, byPlayer>>
display == <<boxes, screen>>
vars == <<ledgerVars, tables, expired, bmp, pc, frame, reaping, granted, display,
          errors, restarts>>

Served == Players \ Direct

Claimed == ClaimIds \cup {None}

(* Local variables: the claim worked on, the claim it supersedes and the   *)
(* lock that one's cell had.                                               *)
NoFrame == [id |-> None, old |-> None, saved |-> None]
Frames == [id : Claimed, old : Claimed, saved : Claimed]

Places == {"idle",
           "claimSubmit", "claimFailed", "voidOld", "unlockOld", "lockCast",
           "confirmSubmit", "apply", "unlockCast", "paintCast",
           "cancelSubmit", "cancelApply", "cancelCast"}

TypeOK ==
    /\ LedgerTypeOK
    /\ locks \in [Pixels -> Claimed]
    /\ expired \subseteq ClaimIds
    /\ claims \subseteq ClaimIds
    /\ byPlayer \in [Served -> Claimed]
    /\ bmp \in [Pixels -> Claimed]
    /\ pc \in [Requests -> Places]
    /\ frame \in [Requests -> Frames]
    /\ reaping \subseteq Pixels
    /\ granted \subseteq ClaimIds
    /\ boxes \subseteq Pixels
    /\ screen \in [Pixels -> Claimed]
    /\ errors \in 0..MaxErrors
    /\ restarts \in 0..MaxRestarts

Init ==
    /\ LedgerInit
    /\ locks = [p \in Pixels |-> None]
    /\ expired = {}
    /\ claims = {}
    /\ byPlayer = [pl \in Served |-> None]
    /\ bmp = standing
    /\ pc = [r \in Requests |-> "idle"]
    /\ frame = [r \in Requests |-> NoFrame]
    /\ reaping = {}
    /\ granted = {}
    /\ boxes = {}
    /\ screen = bmp
    /\ errors = 0
    /\ restarts = 0

(***************************************************************************)
(* Steps of a request.                                                     *)
(***************************************************************************)
Goto(r, place) == pc' = [pc EXCEPT ![r] = place]
Finish(r) == Goto(r, "idle") /\ frame' = [frame EXCEPT ![r] = NoFrame]

(* A TigerBeetle request fails in the client.  It may have been carried    *)
(* out all the same.                                                       *)
ClientError == errors < MaxErrors /\ errors' = errors + 1
Answered == UNCHANGED errors

OwnerOf(id) == meta[id].player
CellOf(id) == meta[id].pixel

(* Mutated forms of ByPlayerWithout and LocksWithout.                      *)
ByPlayerKept(id) == byPlayer
LocksKept(id) == locks

(* vacate: drop a registered claim, its player's entry if it is the one    *)
(* recorded, and the lock on its cell if it is that player's.              *)
ByPlayerWithout(id) ==
    [pl \in Served |-> IF id \in claims /\ pl = OwnerOf(id) /\ byPlayer[pl] = id
                       THEN None ELSE byPlayer[pl]]
LocksWithout(id) ==
    [p \in Pixels |-> IF /\ id \in claims /\ p = CellOf(id)
                         /\ locks[p] # None /\ OwnerOf(locks[p]) = OwnerOf(id)
                      THEN None ELSE locks[p]]
Vacate(id) ==
    /\ claims' = claims \ {id}
    /\ byPlayer' = ByPlayerWithout(id)
    /\ locks' = LocksWithout(id)

(* Mutated form of Superseded.                                             *)
NothingSuperseded(pl) == None

(* The player's recorded claim, if it is registered.                       *)
Superseded(pl) == IF byPlayer[pl] \in claims THEN byPlayer[pl] ELSE None

LockedByOther(p, pl) ==
    locks[p] # None /\ locks[p] \notin expired /\ OwnerOf(locks[p]) # pl

(* Claim, first section under s.mu: the gate, the supersession and the     *)
(* registration of the new claim, before anything is submitted.            *)
ClaimBegin(r, pl, p, id) ==
    LET old == Superseded(pl) IN
    /\ pc[r] = "idle"
    /\ ~LockedByOther(p, pl)
    /\ NewClaim(id, p, pl)
    /\ claims' = (claims \ {old}) \cup {id}
    /\ byPlayer' = [byPlayer EXCEPT ![pl] = id]
    /\ locks' = [(IF old = None THEN locks ELSE LocksWithout(old))
                    EXCEPT ![p] = id]
    /\ frame' = [frame EXCEPT ![r] =
                    [id    |-> id,
                     old   |-> old,
                     saved |-> IF old = None THEN None ELSE locks[CellOf(old)]]]
    /\ Goto(r, "claimSubmit")
    /\ UNCHANGED <<status, acct, standing, expired, bmp, reaping, granted, display, errors, restarts>>

AfterClaim(r) == IF frame[r].old = None THEN "lockCast" ELSE "voidOld"

ClaimSubmit(r) ==
    /\ pc[r] = "claimSubmit"
    /\ \/ CreatePending(frame[r].id) /\ Answered /\ Goto(r, AfterClaim(r))
       \/ /\ ~HasUnit(CellOf(frame[r].id))      \* exceeds_credits
          /\ UNCHANGED ledgerVars /\ Answered /\ Goto(r, "claimFailed")
       \/ /\ ClientError
          /\ CreatePending(frame[r].id) \/ UNCHANGED ledgerVars
          /\ Goto(r, "claimFailed")
    /\ UNCHANGED <<tables, expired, bmp, frame, reaping, granted, display, restarts>>

(* The claim failed: its entries go, and those of the claim it superseded  *)
(* come back as they were saved.                                           *)
ClaimFailed(r) ==
    LET f == frame[r]
        pl == OwnerOf(f.id)
        unlocked == [locks EXCEPT ![CellOf(f.id)] = None]
    IN
    /\ pc[r] = "claimFailed"
    /\ IF f.old = None
       THEN /\ claims' = claims \ {f.id}
            /\ byPlayer' = [byPlayer EXCEPT ![pl] = None]
            /\ locks' = unlocked
       ELSE /\ claims' = (claims \ {f.id}) \cup {f.old}
            /\ byPlayer' = [byPlayer EXCEPT ![pl] = f.old]
            /\ locks' = IF f.saved = None THEN unlocked
                        ELSE [unlocked EXCEPT ![CellOf(f.old)] = f.saved]
    /\ Finish(r)
    /\ UNCHANGED <<ledgerVars, expired, bmp, reaping, granted, display, errors, restarts>>

(* The superseded transfer is voided only after the new claim succeeded.   *)
ClaimVoidOld(r) ==
    LET old == frame[r].old IN
    /\ pc[r] = "voidOld"
    /\ \/ /\ Answered
          /\ SubmitVoid(old)
          /\ Goto(r, IF VoidAnswer(old) = "error" THEN "lockCast" ELSE "unlockOld")
       \/ /\ ClientError
          /\ SubmitVoid(old) \/ UNCHANGED ledgerVars
          /\ Goto(r, "lockCast")
    /\ UNCHANGED <<tables, expired, bmp, frame, reaping, granted, display, restarts>>

ClaimUnlockOld(r) ==
    /\ pc[r] = "unlockOld"
    /\ boxes' = boxes \ {CellOf(frame[r].old)}
    /\ Goto(r, "lockCast")
    /\ UNCHANGED <<ledgerVars, tables, expired, bmp, frame, reaping, granted, screen, errors, restarts>>

(* BroadcastLock, and the id goes back to the player.                      *)
ClaimLockCast(r) ==
    /\ pc[r] = "lockCast"
    /\ boxes' = boxes \cup {CellOf(frame[r].id)}
    /\ granted' = granted \cup {frame[r].id}
    /\ Finish(r)
    /\ UNCHANGED <<ledgerVars, tables, expired, bmp, reaping, screen, errors, restarts>>

(* resolve: only a registered claim of the asking player goes on.          *)
Resolve(r, pl, id, place) ==
    /\ pc[r] = "idle"
    /\ id \in granted
    /\ id \in claims
    /\ OwnerOf(id) = pl
    /\ Goto(r, place)
    /\ frame' = [frame EXCEPT ![r] = [NoFrame EXCEPT !.id = id]]
    /\ UNCHANGED <<ledgerVars, tables, expired, bmp, reaping, granted, display, errors, restarts>>

ConfirmBegin(r, pl, id) == Resolve(r, pl, id, "confirmSubmit")
CancelBegin(r, pl, id) == Resolve(r, pl, id, "cancelSubmit")

ConfirmSubmit(r) ==
    LET id == frame[r].id IN
    /\ pc[r] = "confirmSubmit"
    /\ \/ /\ Answered
          /\ SubmitConfirm(id)
          /\ IF ConfirmAnswer(id) = "ok"
             THEN Goto(r, "apply") /\ UNCHANGED frame
             ELSE Finish(r)
       \/ /\ ClientError
          /\ SubmitConfirm(id) \/ UNCHANGED ledgerVars
          /\ Finish(r)
    /\ UNCHANGED <<tables, expired, bmp, reaping, granted, display, restarts>>

(* Confirm, second section under s.mu.                                     *)
ConfirmApply(r) ==
    LET id == frame[r].id IN
    /\ pc[r] = "apply"
    /\ bmp' = [bmp EXCEPT ![CellOf(id)] = id]
    /\ Vacate(id)
    /\ Goto(r, "unlockCast")
    /\ UNCHANGED <<ledgerVars, expired, frame, reaping, granted, display, errors, restarts>>

ConfirmUnlockCast(r) ==
    /\ pc[r] = "unlockCast"
    /\ boxes' = boxes \ {CellOf(frame[r].id)}
    /\ Goto(r, "paintCast")
    /\ UNCHANGED <<ledgerVars, tables, expired, bmp, frame, reaping, granted, screen, errors, restarts>>

ConfirmPaintCast(r) ==
    LET id == frame[r].id IN
    /\ pc[r] = "paintCast"
    /\ screen' = [screen EXCEPT ![CellOf(id)] = id]
    /\ Finish(r)
    /\ UNCHANGED <<ledgerVars, tables, expired, bmp, reaping, granted, boxes, errors, restarts>>

CancelSubmit(r) ==
    LET id == frame[r].id IN
    /\ pc[r] = "cancelSubmit"
    /\ \/ /\ Answered
          /\ SubmitVoid(id)
          /\ IF VoidAnswer(id) = "ok"
             THEN Goto(r, "cancelApply") /\ UNCHANGED frame
             ELSE Finish(r)
       \/ /\ ClientError
          /\ SubmitVoid(id) \/ UNCHANGED ledgerVars
          /\ Finish(r)
    /\ UNCHANGED <<tables, expired, bmp, reaping, granted, display, restarts>>

CancelApply(r) ==
    /\ pc[r] = "cancelApply"
    /\ Vacate(frame[r].id)
    /\ Goto(r, "cancelCast")
    /\ UNCHANGED <<ledgerVars, expired, bmp, frame, reaping, granted, display, errors, restarts>>

CancelCast(r) ==
    /\ pc[r] = "cancelCast"
    /\ boxes' = boxes \ {CellOf(frame[r].id)}
    /\ Finish(r)
    /\ UNCHANGED <<ledgerVars, tables, expired, bmp, reaping, granted, screen, errors, restarts>>

(***************************************************************************)
(* The reaper, the clocks, the other writers and the process itself.       *)
(***************************************************************************)
(* The expiry matters only while the lock is in the table or saved.        *)
LockExpires(id) ==
    /\ (\E p \in Pixels : locks[p] = id) \/ (\E r \in Requests : frame[r].saved = id)
    /\ id \notin expired
    /\ expired' = expired \cup {id}
    /\ UNCHANGED <<ledgerVars, tables, bmp, pc, frame, reaping, granted, display, errors, restarts>>

Stale == {p \in Pixels : locks[p] \in expired}

(* A claim goes with an expired lock only if it is the one recorded for    *)
(* the lock's player and is on that cell.                                  *)
Reaped == {id \in claims : \E p \in Stale :
              CellOf(id) = p /\ byPlayer[OwnerOf(locks[p])] = id}

(* Mutated form of ReapExpired: the lock is not deleted.                   *)
ReapKeepsLocks ==
    /\ Stale # {}
    /\ reaping = {}
    /\ claims' = claims \ Reaped
    /\ byPlayer' = [pl \in Served |-> IF byPlayer[pl] \in Reaped THEN None ELSE byPlayer[pl]]
    /\ reaping' = Stale
    /\ UNCHANGED <<ledgerVars, locks, expired, bmp, pc, frame, granted, display, errors, restarts>>

ReapExpired ==
    /\ Stale # {}
    /\ reaping = {}
    /\ claims' = claims \ Reaped
    /\ byPlayer' = [pl \in Served |-> IF byPlayer[pl] \in Reaped THEN None ELSE byPlayer[pl]]
    /\ locks' = [p \in Pixels |-> IF p \in Stale THEN None ELSE locks[p]]
    /\ reaping' = Stale
    /\ UNCHANGED <<ledgerVars, expired, bmp, pc, frame, granted, display, errors, restarts>>

ReapCast(p) ==
    /\ p \in reaping
    /\ reaping' = reaping \ {p}
    /\ boxes' = boxes \ {p}
    /\ UNCHANGED <<ledgerVars, tables, expired, bmp, pc, frame, granted, screen, errors, restarts>>

serverVars == <<tables, expired, bmp, pc, frame, reaping, granted, display, errors, restarts>>

PendingTimesOut(id) == Timeout(id) /\ UNCHANGED serverVars
PendingReleased(id) == Release(id) /\ UNCHANGED serverVars

(* A bot in direct mode, or a second server, writes to the ledger only.    *)
DirectClaim(pl, p, id) ==
    /\ BuildAndCreate(id, p, pl)
    /\ UNCHANGED serverVars

DirectResolve(id) ==
    /\ OwnerOf(id) \in Direct
    /\ PostAndRefund(id) \/ VoidPending(id)
    /\ UNCHANGED serverVars

(* The process dies at any moment and a new one starts: every table is     *)
(* gone, the requests with it, and WarmCache rebuilds the bitmap from the  *)
(* whole history before anything is served.  Screens reconnect and take    *)
(* the new snapshot.  Players forget what they were granted (404 from now  *)
(* on); the pending transfers live on in the database.                     *)
Restart ==
    /\ restarts < MaxRestarts
    /\ restarts' = restarts + 1
    /\ locks' = [p \in Pixels |-> None]
    /\ expired' = {}
    /\ claims' = {}
    /\ byPlayer' = [pl \in Served |-> None]
    /\ bmp' = standing
    /\ pc' = [r \in Requests |-> "idle"]
    /\ frame' = [r \in Requests |-> NoFrame]
    /\ reaping' = {}
    /\ granted' = {}
    /\ boxes' = {}
    /\ screen' = standing
    /\ UNCHANGED <<ledgerVars, errors>>

(* A request in progress goes on.                                          *)
HandlerStep(r) ==
    \/ ClaimSubmit(r) \/ ClaimFailed(r) \/ ClaimVoidOld(r)
    \/ ClaimUnlockOld(r) \/ ClaimLockCast(r)
    \/ ConfirmSubmit(r) \/ ConfirmApply(r) \/ ConfirmUnlockCast(r) \/ ConfirmPaintCast(r)
    \/ CancelSubmit(r) \/ CancelApply(r) \/ CancelCast(r)

Next ==
    \/ \E r \in Requests :
        \/ \E pl \in Served :
            \/ \E p \in Pixels, id \in ClaimIds : ClaimBegin(r, pl, p, id)
            \/ \E id \in ClaimIds : ConfirmBegin(r, pl, id) \/ CancelBegin(r, pl, id)
        \/ HandlerStep(r)
    \/ \E p \in Pixels : ReapCast(p)
    \/ ReapExpired
    \/ \E id \in ClaimIds : LockExpires(id) \/ PendingTimesOut(id) \/ PendingReleased(id) \/ DirectResolve(id)
    \/ \E pl \in Direct, p \in Pixels, id \in ClaimIds : DirectClaim(pl, p, id)
    \/ Restart

Spec == Init /\ [][Next]_vars

(***************************************************************************)
(* The abstract cells this service implements: a cell is held by the claim *)
(* whose pending reserves its unit, and shows the claim posted last.       *)
(***************************************************************************)
Holder(p) == IF \E id \in ClaimIds : Holds(id, p)
             THEN CHOOSE id \in ClaimIds : Holds(id, p) ELSE None
HolderOf == [p \in Pixels |-> Holder(p)]
Over == {id \in ClaimIds : status[id] \in {"posted", "voided", "expired"}}

Abstract == INSTANCE PixelCells WITH
    Cells <- Pixels, Claims <- ClaimIds,
    holder <- HolderOf, painter <- standing, over <- Over

(* Every behaviour of the service, its racing requests, client errors,     *)
(* restarts and outside writers included, is one of the abstract cells:    *)
(* one holder per cell, and only the holder paints (NewClaim,              *)
(* BuildConfirm, SubmitBatch).                                             *)
CellsImplemented == Abstract!Spec

(***************************************************************************)
(* Fairness.  A request goes on (Go schedules its goroutine, TigerBeetle   *)
(* answers), the reaper's ticker fires, time passes for locks, and the     *)
(* database times pendings out and releases them.  Nothing obliges a       *)
(* player, a bot or a crash to act.                                        *)
(***************************************************************************)
Fairness ==
    /\ \A r \in Requests : WF_vars(HandlerStep(r))
    /\ \A id \in ClaimIds : WF_vars(LockExpires(id))
    /\ \A id \in ClaimIds : WF_vars(PendingTimesOut(id)) /\ WF_vars(PendingReleased(id))
    /\ WF_vars(ReapExpired)
    /\ \A p \in Pixels : WF_vars(ReapCast(p))

FairSpec == Spec /\ Fairness

(***************************************************************************)
(* Safety.                                                                 *)
(***************************************************************************)
Idle == \A r \in Requests : pc[r] = "idle"

(* Whatever supersessions, failures and restores interleave, the claim     *)
(* recorded for a player is registered and is that player's own, so a      *)
(* later Claim always finds what it has to supersede (Claim's              *)
(* failure path puts both entries back together).                          *)
RecordedIsRegistered ==
    \A pl \in Served : byPlayer[pl] # None =>
        byPlayer[pl] \in claims /\ OwnerOf(byPlayer[pl]) = pl

(* The bitmap and every screen only ever show colours of claims that       *)
(* TigerBeetle posted on that very cell: an expired, cancelled, superseded *)
(* or failed claim never paints (Confirm).                                 *)
PaintsArePosted ==
    \A p \in Pixels : \A id \in {bmp[p], screen[p]} \ {None} :
        status[id] = "posted" /\ CellOf(id) = p

(* A player has at most one claim that is both registered and pending in   *)
(* TigerBeetle once no request is in progress (comment on Claim: "A player *)
(* holds at most ONE active claim").                                       *)
Active(pl) == {id \in claims : OwnerOf(id) = pl /\ status[id] = "pending"}
OneActiveClaim ==
    Idle => \A pl \in Served : \A a, b \in Active(pl) : a = b

(* Between requests the bitmap is what a fold of TigerBeetle's history     *)
(* shows, and so is a screen that missed nothing, on every cell last       *)
(* painted through this server: the cache and the ledger agree.            *)
CanvasIsLedger ==
    Idle => \A p \in Pixels :
        standing[p] \in {id \in ClaimIds : OwnerOf(id) \in Direct}
            \/ (bmp[p] = standing[p] /\ screen[p] = standing[p])

(* Between requests, an unexpired lock was set by a registered claim that  *)
(* is recorded for its player: what the gate shuts others out of is a cell *)
(* someone can still confirm or cancel.                                    *)
LockHasItsClaim ==
    Idle => \A p \in Pixels :
        locks[p] # None /\ locks[p] \notin expired =>
            locks[p] \in claims /\ byPlayer[OwnerOf(locks[p])] = locks[p]

(* A claim is refused with "pixel locked by another player" only if        *)
(* another player's claim holds the cell; a player's own earlier claim is  *)
(* superseded instead (comment on Claim; selectColor in app.js).           *)
RejectedOnlyByOthers ==
    [][\A r \in Requests :
        (ClaimSubmit(r) /\ pc'[r] = "claimFailed" /\ UNCHANGED errors) =>
            \E id \in ClaimIds : /\ Holds(id, CellOf(frame[r].id))
                                 /\ OwnerOf(id) # OwnerOf(frame[r].id)]_vars

(***************************************************************************)
(* Liveness, under FairSpec.                                               *)
(***************************************************************************)
(* No lock outlives its claim for ever: whoever walks away, fails or is    *)
(* superseded, the cell's lock is dropped, restored locks included.        *)
LocksClear == \A p \in Pixels : locks[p] # None ~> locks[p] = None

(* With the fairness above the service also keeps the abstract promise     *)
(* that a held cell is painted or set free in the end.                     *)
CellsFairlyImplemented == Abstract!FairSpec
====
