---- MODULE ClaimServiceProofs ----
(***************************************************************************)
(* The safety of the claim service for any number of players, cells,       *)
(* claims and concurrent requests, and any bound on errors and restarts.   *)
(***************************************************************************)
EXTENDS ClaimService, LedgerProofs

(* What the local variables of a request stand for: its claim was built by *)
(* NewClaim, the claim it supersedes too and for the same player, and past *)
(* the post leg the claim is posted.                                       *)
FrameBuilt(r) ==
    /\ pc[r] # "idle" => frame[r].id \in ClaimIds /\ ~Fresh(frame[r].id)
    /\ frame[r].old # None =>
          /\ ~Fresh(frame[r].old)
          /\ pc[r] # "idle"
          /\ OwnerOf(frame[r].old) = OwnerOf(frame[r].id)
    /\ pc[r] \in {"voidOld", "unlockOld"} => frame[r].old # None
    /\ pc[r] \in {"apply", "unlockCast", "paintCast"} => status[frame[r].id] = "posted"

FramesAreBuilt == \A r \in Requests : FrameBuilt(r)

RegisteredAreBuilt == \A id \in claims : ~Fresh(id)

Inv ==
    /\ LedgerInv
    /\ TypeOK
    /\ FramesAreBuilt
    /\ RegisteredAreBuilt
    /\ RecordedIsRegistered
    /\ PaintsArePosted

(* Nothing holds trivially in the first state but the fresh ledger.        *)
LEMMA InitInv == Init => Inv
<1> SUFFICES ASSUME Init PROVE Inv
  OBVIOUS
<1>1. LedgerInv
  BY LedgerInitInv DEF Init
<1>2. /\ bmp = [p \in Pixels |-> None] /\ screen = [p \in Pixels |-> None]
      /\ frame = [r \in Requests |-> NoFrame]
  BY DEF Init, LedgerInit
<1>3. TypeOK
  BY <1>1, <1>2, ServiceAssumption DEF Init, TypeOK, LedgerInv, Claimed, Frames, NoFrame, Places
<1>4. FramesAreBuilt /\ RegisteredAreBuilt /\ RecordedIsRegistered
  BY <1>2 DEF Init, FramesAreBuilt, FrameBuilt, NoFrame, RegisteredAreBuilt, RecordedIsRegistered
<1>5. PaintsArePosted
  BY <1>2 DEF PaintsArePosted
<1> QED
  BY <1>1, <1>3, <1>4, <1>5 DEF Inv

(* Requests, bots, clocks and restarts touch the ledger only through its   *)
(* operations, and a request submits only what it built.                   *)
LEMMA StepsMoveLedger == Inv /\ [Next]_vars => LedgerMove
<1> SUFFICES ASSUME Inv, [Next]_vars PROVE LedgerMove
  OBVIOUS
<1>1. CASE UNCHANGED vars
  BY <1>1 DEF vars, LedgerMove
<1>2. ASSUME NEW r \in Requests, NEW pl \in Served, NEW p \in Pixels, NEW id \in ClaimIds,
             ClaimBegin(r, pl, p, id)
      PROVE  LedgerMove
  BY <1>2 DEF ClaimBegin, LedgerMove, Served
<1>3. ASSUME NEW r \in Requests, HandlerStep(r) PROVE LedgerMove
  <2>1. pc[r] # "idle" => frame[r].id \in ClaimIds /\ ~Fresh(frame[r].id)
    BY DEF Inv, FramesAreBuilt, FrameBuilt
  <2>2. CASE ClaimSubmit(r)
    BY <2>1, <2>2 DEF ClaimSubmit, LedgerMove
  <2>3. CASE ClaimVoidOld(r)
    <3>1. frame[r].old \in ClaimIds
      BY <2>3 DEF ClaimVoidOld, Inv, FramesAreBuilt, FrameBuilt, TypeOK, Frames, Claimed
    <3> QED BY <2>3, <3>1 DEF ClaimVoidOld, SubmitVoid, LedgerMove
  <2>4. CASE ConfirmSubmit(r)
    BY <2>1, <2>4 DEF ConfirmSubmit, SubmitConfirm, LedgerMove
  <2>5. CASE CancelSubmit(r)
    BY <2>1, <2>5 DEF CancelSubmit, SubmitVoid, LedgerMove
  <2>6. CASE \/ ClaimFailed(r) \/ ClaimUnlockOld(r) \/ ClaimLockCast(r)
             \/ ConfirmApply(r) \/ ConfirmUnlockCast(r) \/ ConfirmPaintCast(r)
             \/ CancelApply(r) \/ CancelCast(r)
    <3>1. UNCHANGED ledgerVars
      BY <2>6 DEF ClaimFailed, ClaimUnlockOld, ClaimLockCast, ConfirmApply, ConfirmUnlockCast,
                  ConfirmPaintCast, CancelApply, CancelCast
    <3> QED BY <3>1 DEF LedgerMove
  <2> QED BY <1>3, <2>2, <2>3, <2>4, <2>5, <2>6 DEF HandlerStep
<1>4. ASSUME NEW r \in Requests, NEW pl \in Served, NEW id \in ClaimIds,
             ConfirmBegin(r, pl, id) \/ CancelBegin(r, pl, id)
      PROVE  LedgerMove
  BY <1>4 DEF ConfirmBegin, CancelBegin, Resolve, LedgerMove
<1>5. ASSUME NEW id \in ClaimIds,
             LockExpires(id) \/ PendingTimesOut(id) \/ PendingReleased(id) \/ DirectResolve(id)
      PROVE  LedgerMove
  BY <1>5 DEF LockExpires, PendingTimesOut, PendingReleased, DirectResolve, LedgerMove
<1>6. ASSUME NEW pl \in Direct, NEW p \in Pixels, NEW id \in ClaimIds, DirectClaim(pl, p, id)
      PROVE  LedgerMove
  BY <1>6, ServiceAssumption DEF DirectClaim, BuildAndCreate, LedgerMove
<1>7. CASE ReapExpired \/ Restart \/ \E p \in Pixels : ReapCast(p)
  BY <1>7 DEF ReapExpired, Restart, ReapCast, LedgerMove
<1> QED
  BY <1>1, <1>2, <1>3, <1>4, <1>5, <1>6, <1>7 DEF Next

(* The ledger keeps what is known of built claims through any step.        *)
LEMMA BuiltStay ==
    ASSUME Inv, [Next]_vars, NEW id \in ClaimIds
    PROVE  /\ ~Fresh(id) => meta'[id] = meta[id] /\ ~Fresh(id)'
           /\ status[id] = "posted" => status'[id] = "posted"
<1>1. LedgerInv /\ LedgerMove
  BY StepsMoveLedger DEF Inv
<1> QED BY <1>1, LedgerMonotone

(* A claim that was built has a cell and a player.                         *)
LEMMA BuiltHaveCells ==
    ASSUME Inv, NEW id \in ClaimIds, ~Fresh(id)
    PROVE  CellOf(id) \in Pixels /\ OwnerOf(id) \in Players
<1>1. meta \in [ClaimIds -> [pixel : Pixels, player : Players] \cup {NoMeta}]
  BY DEF Inv, LedgerInv, LedgerTypeOK
<1> QED BY <1>1 DEF Fresh, CellOf, OwnerOf

(* Every step keeps the types: what the requests carry is what the tables  *)
(* may hold.                                                               *)
LEMMA TypeStep == Inv /\ [Next]_vars => TypeOK'
<1> SUFFICES ASSUME Inv, [Next]_vars PROVE TypeOK'
  OBVIOUS
<1>T. TypeOK
  BY DEF Inv
<1>L. LedgerTypeOK'
  BY StepsMoveLedger, LedgerStep DEF Inv, LedgerInv
<1>F. \A r \in Requests : pc[r] # "idle" => frame[r].id \in ClaimIds /\ CellOf(frame[r].id) \in Pixels
  BY BuiltHaveCells DEF Inv, FramesAreBuilt, FrameBuilt
<1>O. \A r \in Requests : frame[r] \in Frames /\ frame[r].old \in Claimed /\ frame[r].saved \in Claimed
  BY <1>T DEF TypeOK, Frames
<1> USE DEF TypeOK
<1>1. CASE UNCHANGED vars
  BY <1>1, <1>T, <1>L DEF vars, tables, display
<1>2. ASSUME NEW r \in Requests, NEW pl \in Served, NEW p \in Pixels, NEW id \in ClaimIds,
             ClaimBegin(r, pl, p, id)
      PROVE  TypeOK'
  <2> DEFINE old == Superseded(pl)
  <2>1. old \in Claimed
    BY <1>T DEF Superseded, Claimed
  <2>2. locks' \in [Pixels -> Claimed]
    <3>1. LocksWithout(old) \in [Pixels -> Claimed]
      BY <1>T DEF LocksWithout, Claimed
    <3>2. (IF old = None THEN locks ELSE LocksWithout(old)) \in [Pixels -> Claimed]
      BY <1>T, <3>1
    <3>3. locks' = [(IF old = None THEN locks ELSE LocksWithout(old)) EXCEPT ![p] = id]
      BY <1>2 DEF ClaimBegin
    <3> HIDE DEF old
    <3> QED BY <3>2, <3>3 DEF Claimed
  <2>3. frame' \in [Requests -> Frames]
    <3>1. (IF old = None THEN None ELSE locks[CellOf(old)]) \in Claimed
      <4>1. CASE old = None
        BY <4>1 DEF Claimed
      <4>2. CASE old # None
        <5>1. old \in claims
          BY <4>2 DEF Superseded
        <5>2. CellOf(old) \in Pixels
          BY <5>1, <1>T, BuiltHaveCells DEF Inv, RegisteredAreBuilt
        <5> QED BY <4>2, <5>2, <1>T
      <4> QED BY <4>1, <4>2
    <3>2. frame' = [frame EXCEPT ![r] = [id |-> id, old |-> old,
                        saved |-> IF old = None THEN None ELSE locks[CellOf(old)]]]
      BY <1>2 DEF ClaimBegin
    <3> HIDE DEF old
    <3>3. [id |-> id, old |-> old,
           saved |-> IF old = None THEN None ELSE locks[CellOf(old)]] \in Frames
      BY <2>1, <3>1 DEF Frames, Claimed
    <3> QED BY <1>T, <3>2, <3>3
  <2>4. claims' \subseteq ClaimIds /\ byPlayer' \in [Served -> Claimed] /\ pc' \in [Requests -> Places]
    BY <1>2, <1>T DEF ClaimBegin, Claimed, Goto, Places
  <2> QED
    BY <1>2, <1>T, <1>L, <2>2, <2>3, <2>4 DEF ClaimBegin, display
<1>3. ASSUME NEW r \in Requests, HandlerStep(r) PROVE TypeOK'
  <2> DEFINE f == frame[r]
  <2>1. NoFrame \in Frames
    BY DEF NoFrame, Frames, Claimed
  <2>2. CASE ClaimSubmit(r)
    <3>1. errors' \in 0..MaxErrors
      BY <2>2, <1>T, ServiceAssumption DEF ClaimSubmit, ClientError, Answered
    <3>2. pc' \in [Requests -> Places]
      BY <2>2, <1>T DEF ClaimSubmit, Goto, AfterClaim, Places
    <3> QED BY <2>2, <1>T, <1>L, <3>1, <3>2 DEF ClaimSubmit, tables, display
  <2>3. CASE ClaimFailed(r)
    <3>1. pc' \in [Requests -> Places] /\ frame' \in [Requests -> Frames]
      BY <2>3, <1>T, <2>1 DEF ClaimFailed, Finish, Goto, Places
    <3>2. claims' \subseteq ClaimIds /\ byPlayer' \in [Served -> Claimed]
      BY <2>3, <1>T, <1>O DEF ClaimFailed, Claimed
    <3>3. locks' \in [Pixels -> Claimed]
      BY <2>3, <1>T, <1>O DEF ClaimFailed, Claimed
    <3> QED BY <2>3, <1>T, <1>L, <3>1, <3>2, <3>3 DEF ClaimFailed, display
  <2>4. CASE ClaimVoidOld(r)
    <3>1. errors' \in 0..MaxErrors
      BY <2>4, <1>T, ServiceAssumption DEF ClaimVoidOld, ClientError, Answered
    <3>2. pc' \in [Requests -> Places]
      BY <2>4, <1>T DEF ClaimVoidOld, Goto, Places
    <3> QED BY <2>4, <1>T, <1>L, <3>1, <3>2 DEF ClaimVoidOld, tables, display
  <2>5. CASE ClaimUnlockOld(r) \/ ClaimLockCast(r)
    <3>1. pc' \in [Requests -> Places] /\ frame' \in [Requests -> Frames]
      BY <2>5, <1>T, <2>1 DEF ClaimUnlockOld, ClaimLockCast, Finish, Goto, Places
    <3>2. boxes' \subseteq Pixels /\ granted' \subseteq ClaimIds
      BY <2>5, <1>T, <1>F DEF ClaimUnlockOld, ClaimLockCast
    <3> QED BY <2>5, <1>T, <1>L, <3>1, <3>2 DEF ClaimUnlockOld, ClaimLockCast, tables
  <2>6. CASE ConfirmSubmit(r) \/ CancelSubmit(r)
    <3>1. errors' \in 0..MaxErrors
      BY <2>6, <1>T, ServiceAssumption DEF ConfirmSubmit, CancelSubmit, ClientError, Answered
    <3>2. pc' \in [Requests -> Places] /\ frame' \in [Requests -> Frames]
      BY <2>6, <1>T, <2>1 DEF ConfirmSubmit, CancelSubmit, Finish, Goto, Places
    <3> QED BY <2>6, <1>T, <1>L, <3>1, <3>2 DEF ConfirmSubmit, CancelSubmit, tables, display
  <2>7. CASE ConfirmApply(r) \/ CancelApply(r)
    <3>1. pc' \in [Requests -> Places]
      BY <2>7, <1>T DEF ConfirmApply, CancelApply, Goto, Places
    <3>2. /\ claims' \subseteq ClaimIds
          /\ byPlayer' \in [Served -> Claimed]
          /\ locks' \in [Pixels -> Claimed]
      BY <2>7, <1>T DEF ConfirmApply, CancelApply, Vacate, ByPlayerWithout, LocksWithout, Claimed
    <3>3. bmp' \in [Pixels -> Claimed]
      BY <2>7, <1>T, <1>F DEF ConfirmApply, CancelApply, Claimed
    <3> QED BY <2>7, <1>T, <1>L, <3>1, <3>2, <3>3 DEF ConfirmApply, CancelApply, display
  <2>8. CASE ConfirmUnlockCast(r) \/ ConfirmPaintCast(r) \/ CancelCast(r)
    <3>1. pc' \in [Requests -> Places] /\ frame' \in [Requests -> Frames]
      BY <2>8, <1>T, <2>1 DEF ConfirmUnlockCast, ConfirmPaintCast, CancelCast, Finish, Goto, Places
    <3>2. boxes' \subseteq Pixels /\ screen' \in [Pixels -> Claimed]
      BY <2>8, <1>T, <1>F DEF ConfirmUnlockCast, ConfirmPaintCast, CancelCast, Claimed
    <3> QED BY <2>8, <1>T, <1>L, <3>1, <3>2 DEF ConfirmUnlockCast, ConfirmPaintCast, CancelCast, tables
  <2> QED BY <1>3, <2>2, <2>3, <2>4, <2>5, <2>6, <2>7, <2>8 DEF HandlerStep
<1>4. ASSUME NEW r \in Requests, NEW pl \in Served, NEW id \in ClaimIds,
             ConfirmBegin(r, pl, id) \/ CancelBegin(r, pl, id)
      PROVE  TypeOK'
  <2>1. [NoFrame EXCEPT !.id = id] \in Frames
    BY DEF NoFrame, Frames, Claimed
  <2>2. pc' \in [Requests -> Places] /\ frame' \in [Requests -> Frames]
    BY <1>4, <1>T, <2>1 DEF ConfirmBegin, CancelBegin, Resolve, Goto, Places
  <2> QED BY <1>4, <1>T, <1>L, <2>2 DEF ConfirmBegin, CancelBegin, Resolve, tables, display
<1>5. ASSUME NEW id \in ClaimIds,
             LockExpires(id) \/ PendingTimesOut(id) \/ PendingReleased(id) \/ DirectResolve(id)
      PROVE  TypeOK'
  BY <1>5, <1>T, <1>L DEF LockExpires, PendingTimesOut, PendingReleased, DirectResolve,
                          serverVars, tables, display
<1>6. ASSUME NEW pl \in Direct, NEW p \in Pixels, NEW id \in ClaimIds, DirectClaim(pl, p, id)
      PROVE  TypeOK'
  BY <1>6, <1>T, <1>L DEF DirectClaim, serverVars, tables, display
<1>7. CASE ReapExpired
  <2>1. /\ claims' \subseteq ClaimIds /\ reaping' \subseteq Pixels
        /\ byPlayer' \in [Served -> Claimed] /\ locks' \in [Pixels -> Claimed]
    BY <1>7, <1>T DEF ReapExpired, Stale, Reaped, Claimed
  <2> QED BY <1>7, <1>T, <1>L, <2>1 DEF ReapExpired, display
<1>8. ASSUME NEW p \in Pixels, ReapCast(p) PROVE TypeOK'
  BY <1>8, <1>T, <1>L DEF ReapCast, tables
<1>9. CASE Restart
  <2>1. standing \in [Pixels -> Claimed]
    BY DEF Inv, LedgerInv, LedgerTypeOK, Claimed
  <2>2. restarts' \in 0..MaxRestarts
    BY <1>9, <1>T, ServiceAssumption DEF Restart
  <2> QED BY <1>9, <1>T, <1>L, <2>1, <2>2 DEF Restart, Claimed, Frames, NoFrame, Places
<1> QED
  BY <1>1, <1>2, <1>3, <1>4, <1>5, <1>6, <1>7, <1>8, <1>9 DEF Next

(* A request that goes on, or is left alone, keeps what its variables      *)
(* stand for: the ledger forgets neither builds nor posts.                 *)
LEMMA FrameKept ==
    ASSUME Inv, [Next]_vars, NEW r \in Requests,
           frame'[r] = frame[r],
           pc'[r] = "idle" <=> pc[r] = "idle",
           pc'[r] \in {"voidOld", "unlockOld"} => frame[r].old # None,
           pc'[r] \in {"apply", "unlockCast", "paintCast"} => status'[frame[r].id] = "posted"
    PROVE  FrameBuilt(r)'
<1>1. FrameBuilt(r) /\ frame[r].old \in ClaimIds \cup {None}
  BY DEF Inv, FramesAreBuilt, TypeOK, Frames, Claimed
<1>2. pc[r] # "idle" => /\ frame[r].id \in ClaimIds
                        /\ ~Fresh(frame[r].id)'
                        /\ meta'[frame[r].id] = meta[frame[r].id]
  BY <1>1, BuiltStay DEF FrameBuilt
<1>3. frame[r].old # None => /\ ~Fresh(frame[r].old)'
                             /\ meta'[frame[r].old] = meta[frame[r].old]
  BY <1>1, BuiltStay DEF FrameBuilt
<1> QED
  BY <1>1, <1>2, <1>3 DEF FrameBuilt, OwnerOf, Fresh

(* The variables of requests keep their meaning.                           *)
LEMMA FrameStep == Inv /\ [Next]_vars => FramesAreBuilt'
<1> SUFFICES ASSUME Inv, [Next]_vars, NEW r \in Requests PROVE FrameBuilt(r)'
  BY DEF FramesAreBuilt
<1>T. TypeOK /\ FrameBuilt(r)
  BY DEF Inv, FramesAreBuilt
<1>P. pc \in [Requests -> Places] /\ frame \in [Requests -> Frames]
  BY <1>T DEF TypeOK
<1>K. CASE pc'[r] = pc[r] /\ frame'[r] = frame[r]
  <2>1. pc[r] \in {"apply", "unlockCast", "paintCast"} => status'[frame[r].id] = "posted"
    BY <1>T, BuiltStay DEF FrameBuilt
  <2> QED BY <1>K, <1>T, <2>1, FrameKept DEF FrameBuilt
<1>I. CASE pc'[r] = "idle" /\ frame'[r] = NoFrame
  BY <1>I DEF FrameBuilt, NoFrame
<1>1. CASE UNCHANGED vars
  BY <1>1, <1>K DEF vars
<1>2. ASSUME NEW s \in Requests, NEW pl \in Served, NEW p \in Pixels, NEW id \in ClaimIds,
             ClaimBegin(s, pl, p, id)
      PROVE  FrameBuilt(r)'
  <2>1. CASE s # r
    BY <1>2, <1>P, <1>K, <2>1 DEF ClaimBegin, Goto
  <2>2. CASE s = r
    <3>1. /\ pc'[r] = "claimSubmit"
          /\ frame'[r].id = id
          /\ frame'[r].old = Superseded(pl)
      BY <1>2, <1>P, <2>2 DEF ClaimBegin, Goto
    <3>2. meta'[id] = [pixel |-> p, player |-> pl]
      BY <1>2 DEF ClaimBegin, NewClaim, Inv, LedgerInv, LedgerTypeOK
    <3>3. p # None
      BY NoneAssumption
    <3>4. ~Fresh(id)' /\ OwnerOf(id)' = pl
      BY <3>2, <3>3 DEF Fresh, NoMeta, OwnerOf
    <3>o. PICK old \in Claimed : old = Superseded(pl)
      BY <1>T DEF Superseded, TypeOK, Claimed
    <3>5. old # None => old \in ClaimIds /\ ~Fresh(old) /\ OwnerOf(old) = pl
      BY <1>T, <3>o DEF Superseded, Inv, RecordedIsRegistered, RegisteredAreBuilt, TypeOK, Claimed
    <3>6. old # None => ~Fresh(old)' /\ meta'[old] = meta[old]
      BY <3>5, BuiltStay
    <3> QED BY <3>1, <3>4, <3>o, <3>5, <3>6 DEF FrameBuilt, Fresh, OwnerOf
  <2> QED BY <2>1, <2>2
<1>3. ASSUME NEW s \in Requests, HandlerStep(s) PROVE FrameBuilt(r)'
  <2>1. CASE s # r
    <3>1. pc'[r] = pc[r] /\ frame'[r] = frame[r]
      BY <1>3, <1>P, <2>1 DEF HandlerStep, ClaimSubmit, ClaimFailed, ClaimVoidOld, ClaimUnlockOld,
         ClaimLockCast, ConfirmSubmit, ConfirmApply, ConfirmUnlockCast, ConfirmPaintCast,
         CancelSubmit, CancelApply, CancelCast, Goto, Finish
    <3> QED BY <3>1, <1>K
  <2>2. CASE ClaimSubmit(r)
    <3>1. /\ pc[r] # "idle" /\ frame'[r] = frame[r]
          /\ pc'[r] \in {"lockCast", "voidOld", "claimFailed"}
          /\ pc'[r] = "voidOld" => frame[r].old # None
      BY <2>2, <1>P DEF ClaimSubmit, AfterClaim, Goto
    <3> QED BY <3>1, FrameKept
  <2>3. CASE ClaimVoidOld(r)
    <3>1. /\ pc[r] # "idle" /\ frame'[r] = frame[r] /\ frame[r].old # None
          /\ pc'[r] \in {"lockCast", "unlockOld"}
      BY <2>3, <1>P, <1>T DEF ClaimVoidOld, Goto, FrameBuilt
    <3> QED BY <3>1, FrameKept
  <2>4. CASE ClaimUnlockOld(r) \/ CancelApply(r)
    <3>1. /\ pc[r] # "idle" /\ frame'[r] = frame[r] /\ pc'[r] \in {"lockCast", "cancelCast"}
      BY <2>4, <1>P DEF ClaimUnlockOld, CancelApply, Goto
    <3> QED BY <3>1, FrameKept
  <2>5. CASE ConfirmSubmit(r)
    <3>1. CASE pc'[r] = "idle" /\ frame'[r] = NoFrame
      BY <3>1, <1>I
    <3>2. CASE Answered /\ SubmitConfirm(frame[r].id) /\ ConfirmAnswer(frame[r].id) = "ok"
               /\ Goto(r, "apply") /\ UNCHANGED frame
      <4>1. frame[r].id \in ClaimIds /\ pc[r] # "idle"
        BY <2>5, <1>T DEF FrameBuilt, ConfirmSubmit
      <4>2. status[frame[r].id] = "pending"
        BY SMTT(40), <3>2 DEF ConfirmAnswer
      <4>3. status'[frame[r].id] = "posted"
        BY <3>2, <4>1, <4>2 DEF SubmitConfirm, PostAndRefund, Inv, LedgerInv, LedgerTypeOK
      <4>4. pc'[r] = "apply" /\ frame'[r] = frame[r]
        BY <3>2, <1>P DEF Goto
      <4> QED BY <4>1, <4>3, <4>4, FrameKept
    <3> QED BY <2>5, <3>1, <3>2, <1>P DEF ConfirmSubmit, Finish, Goto
  <2>6. CASE ConfirmApply(r) \/ ConfirmUnlockCast(r)
    <3>1. /\ pc[r] \in {"apply", "unlockCast"} /\ frame'[r] = frame[r]
          /\ pc'[r] \in {"unlockCast", "paintCast"}
      BY <2>6, <1>P DEF ConfirmApply, ConfirmUnlockCast, Goto
    <3>2. frame[r].id \in ClaimIds /\ status[frame[r].id] = "posted"
      BY <3>1, <1>T DEF FrameBuilt
    <3>3. status'[frame[r].id] = "posted"
      BY <3>2, BuiltStay
    <3> QED BY <3>1, <3>3, FrameKept
  <2>7. CASE CancelSubmit(r)
    <3>1. CASE pc'[r] = "idle" /\ frame'[r] = NoFrame
      BY <3>1, <1>I
    <3>2. CASE pc'[r] = "cancelApply" /\ frame'[r] = frame[r]
      BY <2>7, <3>2, FrameKept DEF CancelSubmit
    <3> QED BY <2>7, <3>1, <3>2, <1>P DEF CancelSubmit, Finish, Goto
  <2>8. CASE ClaimFailed(r) \/ ClaimLockCast(r) \/ ConfirmPaintCast(r) \/ CancelCast(r)
    BY <2>8, <1>P, <1>I DEF ClaimFailed, ClaimLockCast, ConfirmPaintCast, CancelCast, Finish, Goto
  <2> QED BY <1>3, <2>1, <2>2, <2>3, <2>4, <2>5, <2>6, <2>7, <2>8 DEF HandlerStep
<1>4. ASSUME NEW s \in Requests, NEW pl \in Served, NEW id \in ClaimIds,
             ConfirmBegin(s, pl, id) \/ CancelBegin(s, pl, id)
      PROVE  FrameBuilt(r)'
  <2>1. CASE s # r
    BY <1>4, <1>P, <1>K, <2>1 DEF ConfirmBegin, CancelBegin, Resolve, Goto
  <2>2. CASE s = r
    <3>1. /\ pc'[r] \in {"confirmSubmit", "cancelSubmit"}
          /\ frame'[r].id = id /\ frame'[r].old = None
          /\ id \in claims
      BY <1>4, <1>P, <2>2 DEF ConfirmBegin, CancelBegin, Resolve, Goto, NoFrame
    <3>2. ~Fresh(id)'
      BY <3>1, BuiltStay DEF Inv, RegisteredAreBuilt
    <3> QED BY <3>1, <3>2 DEF FrameBuilt, Fresh
  <2> QED BY <2>1, <2>2
<1>5. ASSUME NEW id \in ClaimIds,
             LockExpires(id) \/ PendingTimesOut(id) \/ PendingReleased(id) \/ DirectResolve(id)
      PROVE  FrameBuilt(r)'
  BY <1>5, <1>K DEF LockExpires, PendingTimesOut, PendingReleased, DirectResolve, serverVars
<1>6. ASSUME NEW pl \in Direct, NEW p \in Pixels, NEW id \in ClaimIds, DirectClaim(pl, p, id)
      PROVE  FrameBuilt(r)'
  BY <1>6, <1>K DEF DirectClaim, serverVars
<1>7. CASE ReapExpired \/ \E p \in Pixels : ReapCast(p)
  BY <1>7, <1>K DEF ReapExpired, ReapCast
<1>8. CASE Restart
  BY <1>8, <1>I DEF Restart
<1> QED
  BY <1>1, <1>2, <1>3, <1>4, <1>5, <1>6, <1>7, <1>8 DEF Next

(* Registrations, supersessions, failures, vacations and the reaper keep   *)
(* the registry's entries and the record of each player together.          *)
LEMMA RegistryStep == Inv /\ [Next]_vars => RegisteredAreBuilt' /\ RecordedIsRegistered'
<1> SUFFICES ASSUME Inv, [Next]_vars PROVE RegisteredAreBuilt' /\ RecordedIsRegistered'
  OBVIOUS
<1>T. TypeOK /\ RegisteredAreBuilt /\ RecordedIsRegistered /\ FramesAreBuilt
  BY DEF Inv
<1>P. /\ claims \subseteq ClaimIds
      /\ byPlayer \in [Served -> Claimed]
      /\ \A r \in Requests : frame[r].old \in Claimed
  BY <1>T DEF TypeOK, Frames
<1>B. \A id \in claims : id \in ClaimIds /\ ~Fresh(id)' /\ OwnerOf(id)' = OwnerOf(id)
  BY <1>T, <1>P, BuiltStay DEF RegisteredAreBuilt, OwnerOf
<1>K. CASE UNCHANGED <<claims, byPlayer>>
  BY <1>K, <1>B, <1>T DEF RegisteredAreBuilt, RecordedIsRegistered, Fresh, OwnerOf
<1>S. ASSUME NEW gone \in SUBSET ClaimIds,
             claims' = claims \ gone,
             byPlayer' \in [Served -> Claimed],
             \A pl \in Served : byPlayer'[pl] \in {None, byPlayer[pl]} \ gone
      PROVE  RegisteredAreBuilt' /\ RecordedIsRegistered'
  BY <1>S, <1>B, <1>T DEF RegisteredAreBuilt, RecordedIsRegistered, Fresh, OwnerOf
<1>1. CASE UNCHANGED vars
  BY <1>1, <1>K DEF vars, tables
<1>2. ASSUME NEW r \in Requests, NEW pl \in Served, NEW p \in Pixels, NEW id \in ClaimIds,
             ClaimBegin(r, pl, p, id)
      PROVE  RegisteredAreBuilt' /\ RecordedIsRegistered'
  <2>o. PICK old \in Claimed : old = Superseded(pl)
    BY <1>P DEF Superseded, Claimed
  <2>1. /\ claims' = (claims \ {old}) \cup {id}
        /\ byPlayer' = [byPlayer EXCEPT ![pl] = id]
    BY <1>2, <2>o DEF ClaimBegin
  <2>2. ~Fresh(id)' /\ OwnerOf(id)' = pl
    <3>1. meta'[id] = [pixel |-> p, player |-> pl]
      BY <1>2 DEF ClaimBegin, NewClaim, Inv, LedgerInv, LedgerTypeOK
    <3>2. p # None
      BY NoneAssumption
    <3> QED BY <3>1, <3>2 DEF Fresh, NoMeta, OwnerOf
  <2>3. RegisteredAreBuilt'
    BY <2>1, <2>2, <1>B DEF RegisteredAreBuilt, Fresh
  <2>4. old # None => OwnerOf(old) = pl
    BY <2>o, <1>T DEF Superseded, RecordedIsRegistered
  <2>5. ASSUME NEW other \in Served \ {pl}, byPlayer'[other] # None
        PROVE  byPlayer'[other] \in claims' /\ meta'[byPlayer'[other]].player = other
    <3>1. byPlayer'[other] = byPlayer[other]
      BY <2>1, <2>5, <1>P
    <3>2. byPlayer[other] \in claims /\ OwnerOf(byPlayer[other]) = other
      BY <2>5, <3>1, <1>T DEF RecordedIsRegistered
    <3>3. byPlayer[other] # old
      BY <2>4, <2>5, <3>1, <3>2
    <3> QED BY <2>1, <3>1, <3>2, <3>3, <1>B DEF OwnerOf
  <2>6. byPlayer'[pl] = id
    BY <2>1, <1>P
  <2> QED BY <2>1, <2>2, <2>3, <2>5, <2>6 DEF RecordedIsRegistered, OwnerOf
<1>3. ASSUME NEW r \in Requests, HandlerStep(r)
      PROVE  RegisteredAreBuilt' /\ RecordedIsRegistered'
  <2>1. CASE ClaimFailed(r)
    <3> DEFINE id == frame[r].id
               pl == OwnerOf(id)
               old == frame[r].old
    <3>1. FrameBuilt(r) /\ pc[r] = "claimFailed"
      BY <2>1, <1>T DEF ClaimFailed, FramesAreBuilt
    <3>2. CASE old = None
      <4>1. claims' = claims \ {id} /\ byPlayer' = [byPlayer EXCEPT ![pl] = None]
        BY <2>1, <3>2 DEF ClaimFailed
      <4>2. id \in ClaimIds
        BY <3>1 DEF FrameBuilt
      <4>3. byPlayer' \in [Served -> Claimed]
        BY <4>1, <1>P DEF Claimed
      <4>4. ASSUME NEW other \in Served
            PROVE  byPlayer'[other] \in {None, byPlayer[other]} \ {id}
        <5>1. id # None
          BY <4>2, NoneAssumption
        <5>2. byPlayer[other] = id => other = pl
          BY <5>1, <1>T DEF RecordedIsRegistered
        <5> QED BY <4>1, <1>P, <5>1, <5>2
      <4>5. {id} \in SUBSET ClaimIds
        BY <4>2
      <4> HIDE DEF id, pl, old
      <4> QED BY <4>1, <4>3, <4>4, <4>5, <1>S
    <3>3. CASE old # None
      <4>1. claims' = (claims \ {id}) \cup {old} /\ byPlayer' = [byPlayer EXCEPT ![pl] = old]
        BY <2>1, <3>3 DEF ClaimFailed
      <4>2. old \in ClaimIds /\ ~Fresh(old) /\ OwnerOf(old) = pl /\ id \in ClaimIds
        BY <3>1, <3>3, <1>P DEF FrameBuilt, Claimed
      <4>3. PICK back \in ClaimIds : back = old
        BY <4>2
      <4>4. ~Fresh(back)' /\ OwnerOf(back)' = pl
        BY <4>2, <4>3, BuiltStay DEF OwnerOf
      <4>5. RegisteredAreBuilt'
        BY <4>1, <4>3, <4>4, <1>B DEF RegisteredAreBuilt, Fresh
      <4>6. ASSUME NEW other \in Served, byPlayer'[other] # None
            PROVE  byPlayer'[other] \in claims' /\ meta'[byPlayer'[other]].player = other
        <5>1. CASE other = pl
          BY <4>1, <4>3, <4>4, <1>P, <5>1 DEF OwnerOf
        <5>2. CASE other # pl
          <6>1. byPlayer'[other] = byPlayer[other]
            BY <4>1, <1>P, <5>2
          <6>2. byPlayer[other] \in claims /\ OwnerOf(byPlayer[other]) = other
            BY <4>6, <6>1, <1>T DEF RecordedIsRegistered
          <6>3. byPlayer[other] # id
            BY <5>2, <6>2
          <6> QED BY <4>1, <6>1, <6>2, <6>3, <1>B DEF OwnerOf
        <5> QED BY SMTT(40), <5>1, <5>2
      <4> QED BY <4>5, <4>6 DEF RecordedIsRegistered, OwnerOf
    <3> QED BY <3>2, <3>3
  <2>2. CASE ConfirmApply(r) \/ CancelApply(r)
    <3> DEFINE id == frame[r].id
    <3>1. claims' = claims \ {id} /\ byPlayer' = ByPlayerWithout(id)
      BY <2>2 DEF ConfirmApply, CancelApply, Vacate
    <3>2. id \in ClaimIds
      BY <2>2, <1>T DEF ConfirmApply, CancelApply, FramesAreBuilt, FrameBuilt
    <3>3. byPlayer' \in [Served -> Claimed]
      BY <3>1, <1>P DEF ByPlayerWithout, Claimed
    <3>4. ASSUME NEW other \in Served
          PROVE  byPlayer'[other] \in {None, byPlayer[other]} \ {id}
      <4>1. id # None
        BY <3>2, NoneAssumption
      <4>2. byPlayer[other] = id => id \in claims /\ other = OwnerOf(id)
        BY <4>1, <1>T DEF RecordedIsRegistered
      <4>3. byPlayer'[other] = IF id \in claims /\ other = OwnerOf(id) /\ byPlayer[other] = id
                               THEN None ELSE byPlayer[other]
        BY <3>1 DEF ByPlayerWithout
      <4> QED BY <4>1, <4>2, <4>3
    <3>5. {id} \in SUBSET ClaimIds
      BY <3>2
    <3> HIDE DEF id
    <3> QED BY <3>1, <3>3, <3>4, <3>5, <1>S
  <2>3. CASE \/ ClaimSubmit(r) \/ ClaimVoidOld(r) \/ ClaimUnlockOld(r) \/ ClaimLockCast(r)
             \/ ConfirmSubmit(r) \/ ConfirmUnlockCast(r) \/ ConfirmPaintCast(r)
             \/ CancelSubmit(r) \/ CancelCast(r)
    BY <2>3, <1>K DEF ClaimSubmit, ClaimVoidOld, ClaimUnlockOld, ClaimLockCast, ConfirmSubmit,
       ConfirmUnlockCast, ConfirmPaintCast, CancelSubmit, CancelCast, tables
  <2> QED BY <1>3, <2>1, <2>2, <2>3 DEF HandlerStep
<1>4. ASSUME NEW r \in Requests, NEW pl \in Served, NEW id \in ClaimIds,
             ConfirmBegin(r, pl, id) \/ CancelBegin(r, pl, id)
      PROVE  RegisteredAreBuilt' /\ RecordedIsRegistered'
  BY <1>4, <1>K DEF ConfirmBegin, CancelBegin, Resolve, tables
<1>5. ASSUME NEW id \in ClaimIds,
             LockExpires(id) \/ PendingTimesOut(id) \/ PendingReleased(id) \/ DirectResolve(id)
      PROVE  RegisteredAreBuilt' /\ RecordedIsRegistered'
  BY <1>5, <1>K DEF LockExpires, PendingTimesOut, PendingReleased, DirectResolve, serverVars, tables
<1>6. ASSUME NEW pl \in Direct, NEW p \in Pixels, NEW id \in ClaimIds, DirectClaim(pl, p, id)
      PROVE  RegisteredAreBuilt' /\ RecordedIsRegistered'
  BY <1>6, <1>K DEF DirectClaim, serverVars, tables
<1>7. CASE ReapExpired
  <2>1. /\ Reaped \in SUBSET ClaimIds
        /\ claims' = claims \ Reaped
        /\ byPlayer' = [pl \in Served |-> IF byPlayer[pl] \in Reaped THEN None ELSE byPlayer[pl]]
    BY <1>7, <1>P DEF ReapExpired, Reaped
  <2>2. None \notin Reaped
    BY <2>1, NoneAssumption
  <2> QED BY <2>1, <2>2, <1>P, <1>S DEF Claimed
<1>8. ASSUME NEW p \in Pixels, ReapCast(p)
      PROVE  RegisteredAreBuilt' /\ RecordedIsRegistered'
  BY <1>8, <1>K DEF ReapCast, tables
<1>9. CASE Restart
  BY <1>9 DEF Restart, RegisteredAreBuilt, RecordedIsRegistered
<1> QED
  BY <1>1, <1>2, <1>3, <1>4, <1>5, <1>6, <1>7, <1>8, <1>9 DEF Next

(* The bitmap and the screens change only to the claim of a request past   *)
(* its post leg, or at a restart to the fold of the history.               *)
LEMMA PaintStep == Inv /\ [Next]_vars => PaintsArePosted'
<1> SUFFICES ASSUME Inv, [Next]_vars, NEW p \in Pixels, NEW id \in {bmp'[p], screen'[p]} \ {None}
             PROVE  status'[id] = "posted" /\ CellOf(id)' = p
  BY DEF PaintsArePosted
<1>T. TypeOK /\ PaintsArePosted /\ FramesAreBuilt
  BY DEF Inv
<1>P. bmp \in [Pixels -> Claimed] /\ screen \in [Pixels -> Claimed]
  BY <1>T DEF TypeOK
<1>K. CASE id \in {bmp[p], screen[p]}
  <2>1. id \in ClaimIds /\ status[id] = "posted" /\ CellOf(id) = p
    BY <1>K, <1>P, <1>T DEF PaintsArePosted, Claimed
  <2>2. ~Fresh(id)
    BY <2>1 DEF Inv, LedgerInv, KnownIsBuilt
  <2> QED BY <2>1, <2>2, BuiltStay DEF CellOf
<1>N. ASSUME NEW r \in Requests, pc[r] \in {"apply", "paintCast"},
             id = frame[r].id, p = CellOf(frame[r].id)
      PROVE  status'[id] = "posted" /\ CellOf(id)' = p
  <2>1. id \in ClaimIds /\ ~Fresh(id) /\ status[id] = "posted"
    BY <1>N, <1>T DEF FramesAreBuilt, FrameBuilt
  <2> QED BY <1>N, <2>1, BuiltStay DEF CellOf
<1>1. CASE UNCHANGED <<bmp, screen>>
  BY <1>1, <1>K
<1>2. ASSUME NEW r \in Requests, HandlerStep(r)
      PROVE  status'[id] = "posted" /\ CellOf(id)' = p
  <2>1. CASE ConfirmApply(r)
    BY <2>1, <1>P, <1>K, <1>N DEF ConfirmApply, display
  <2>2. CASE ConfirmPaintCast(r)
    BY <2>2, <1>P, <1>K, <1>N DEF ConfirmPaintCast
  <2>3. CASE \/ ClaimSubmit(r) \/ ClaimFailed(r) \/ ClaimVoidOld(r) \/ ClaimUnlockOld(r)
             \/ ClaimLockCast(r) \/ ConfirmSubmit(r) \/ ConfirmUnlockCast(r)
             \/ CancelSubmit(r) \/ CancelApply(r) \/ CancelCast(r)
    BY <2>3, <1>1 DEF ClaimSubmit, ClaimFailed, ClaimVoidOld, ClaimUnlockOld, ClaimLockCast,
       ConfirmSubmit, ConfirmUnlockCast, CancelSubmit, CancelApply, CancelCast, display
  <2> QED BY <1>2, <2>1, <2>2, <2>3 DEF HandlerStep
<1>3. CASE Restart
  <2>1. bmp' = standing /\ screen' = standing /\ UNCHANGED ledgerVars
    BY <1>3 DEF Restart
  <2>2. status[id] = "posted" /\ CellOf(id) = p
    BY <2>1 DEF Inv, LedgerInv, StandingIsPosted, CellOf
  <2> QED BY <2>1, <2>2 DEF CellOf, ledgerVars
<1>4. CASE UNCHANGED vars
  BY <1>1, <1>4 DEF vars, display
<1>5. ASSUME NEW r \in Requests, NEW pl \in Served, NEW q \in Pixels, NEW b \in ClaimIds,
             ClaimBegin(r, pl, q, b) \/ ConfirmBegin(r, pl, b) \/ CancelBegin(r, pl, b)
      PROVE  UNCHANGED <<bmp, screen>>
  BY <1>5 DEF ClaimBegin, ConfirmBegin, CancelBegin, Resolve, display
<1>6. ASSUME NEW b \in ClaimIds,
             LockExpires(b) \/ PendingTimesOut(b) \/ PendingReleased(b) \/ DirectResolve(b)
      PROVE  UNCHANGED <<bmp, screen>>
  BY <1>6 DEF LockExpires, PendingTimesOut, PendingReleased, DirectResolve, serverVars, display
<1>7. ASSUME NEW pl \in Direct, NEW q \in Pixels, NEW b \in ClaimIds, DirectClaim(pl, q, b)
      PROVE  UNCHANGED <<bmp, screen>>
  BY <1>7 DEF DirectClaim, serverVars, display
<1>8. CASE ReapExpired \/ \E q \in Pixels : ReapCast(q)
  BY <1>8, <1>1 DEF ReapExpired, ReapCast, display
<1> QED
  BY <1>1, <1>2, <1>3, <1>4, <1>5, <1>6, <1>7, <1>8 DEF Next

(* The invariant is inductive.                                             *)
LEMMA InvStep == Inv /\ [Next]_vars => Inv'
<1> SUFFICES ASSUME Inv, [Next]_vars PROVE Inv'
  OBVIOUS
<1>1. LedgerInv'
  BY StepsMoveLedger, LedgerStep DEF Inv
<1> QED
  BY <1>1, TypeStep, FrameStep, RegistryStep, PaintStep DEF Inv

(* Every reachable state satisfies it, for any constants.                  *)
THEOREM Invariance == Spec => []Inv
<1> QED BY InitInv, InvStep, PTL DEF Spec

(* Type correctness of the ledger, the tables, the requests and the screen.*)
THEOREM TypeCorrect == Spec => []TypeOK
<1>1. Inv => TypeOK
  BY DEF Inv
<1> QED BY <1>1, Invariance, PTL

(* No interleaving of requests, reaper, client errors, restarts and direct *)
(* writers loses or doubles a cell's unit.                                 *)
THEOREM UnitsConserved == Spec => []OneUnit
<1>1. Inv => OneUnit
  BY DEF Inv, LedgerInv
<1> QED BY <1>1, Invariance, PTL

(* No two claims ever hold one cell.                                       *)
THEOREM CellsExclusive == Spec => []Exclusive
<1>1. Inv => Exclusive
  BY DEF Inv, LedgerInv
<1> QED BY <1>1, Invariance, PTL

(* The claim recorded for a player is always a registered one of theirs.   *)
THEOREM RecordedRegistered == Spec => []RecordedIsRegistered
<1>1. Inv => RecordedIsRegistered
  BY DEF Inv
<1> QED BY <1>1, Invariance, PTL

(* Only posted claims are ever visible, on the bitmap or on a screen.      *)
THEOREM OnlyPostedPaints == Spec => []PaintsArePosted
<1>1. Inv => PaintsArePosted
  BY DEF Inv
<1> QED BY <1>1, Invariance, PTL

(***************************************************************************)
(* The claim service implements the abstract cells, for any constants:     *)
(* every step of the ledger is a step of PixelCells or changes nothing of  *)
(* what PixelCells sees.                                                   *)
(***************************************************************************)
(* Who holds a cell is read off the reservations, there being at most one. *)
LEMMA HolderIs ==
    ASSUME LedgerInv, LedgerInv', NEW p \in Pixels
    PROVE  /\ \A id \in ClaimIds : Holds(id, p) => HolderOf[p] = id
           /\ (\A id \in ClaimIds : ~Holds(id, p)) => HolderOf[p] = None
           /\ \A id \in ClaimIds : Holds(id, p)' => HolderOf'[p] = id
           /\ (\A id \in ClaimIds : ~Holds(id, p)') => HolderOf'[p] = None
<1>1. HolderOf[p] = Holder(p) /\ HolderOf'[p] = Holder(p)'
  BY DEF HolderOf
<1>2. ASSUME NEW id \in ClaimIds, Holds(id, p) PROVE Holder(p) = id
  <2>1. \A b \in ClaimIds : Holds(b, p) => b = id
    BY <1>2 DEF LedgerInv, Exclusive
  <2> QED BY <1>2, <2>1 DEF Holder
<1>3. ASSUME NEW id \in ClaimIds, Holds(id, p)' PROVE Holder(p)' = id
  <2>1. \A b \in ClaimIds : Holds(b, p)' => b = id
    BY <1>3 DEF LedgerInv, Exclusive
  <2> QED BY <1>3, <2>1 DEF Holder
<1>4. /\ (\A id \in ClaimIds : ~Holds(id, p)) => Holder(p) = None
      /\ (\A id \in ClaimIds : ~Holds(id, p)') => Holder(p)' = None
  BY DEF Holder
<1> QED BY <1>1, <1>2, <1>3, <1>4

(* A step that leaves every reservation alone leaves the holders alone.    *)
LEMMA HoldersKept ==
    ASSUME LedgerInv, LedgerInv',
           \A b \in ClaimIds, q \in Pixels : Holds(b, q)' <=> Holds(b, q)
    PROVE  HolderOf' = HolderOf
<1>1. ASSUME NEW q \in Pixels PROVE HolderOf'[q] = HolderOf[q]
  <2>1. CASE \E b \in ClaimIds : Holds(b, q)
    BY <2>1, HolderIs
  <2>2. CASE \A b \in ClaimIds : ~Holds(b, q)
    BY <2>2, HolderIs
  <2> QED BY <2>1, <2>2
<1> QED BY <1>1 DEF HolderOf

(* A claim that reserves the unit of a cell nobody holds becomes its       *)
(* holder.                                                                 *)
LEMMA HolderTaken ==
    ASSUME LedgerInv, LedgerInv', NEW id \in ClaimIds, NEW p \in Pixels,
           \A b \in ClaimIds : ~Holds(b, p),
           \A b \in ClaimIds, q \in Pixels :
              Holds(b, q)' <=> Holds(b, q) \/ (b = id /\ q = p)
    PROVE  HolderOf[p] = None /\ HolderOf' = [HolderOf EXCEPT ![p] = id]
<1>1. HolderOf[p] = None
  BY HolderIs
<1>2. HolderOf'[p] = id
  BY HolderIs
<1>3. ASSUME NEW q \in Pixels \ {p} PROVE HolderOf'[q] = HolderOf[q]
  <2>1. CASE \E b \in ClaimIds : Holds(b, q)
    BY <2>1, HolderIs
  <2>2. CASE \A b \in ClaimIds : ~Holds(b, q)
    BY <2>2, HolderIs
  <2> QED BY <2>1, <2>2
<1> QED BY <1>1, <1>2, <1>3 DEF HolderOf

(* A holder whose reservation ends leaves its cell to nobody.              *)
LEMMA HolderGone ==
    ASSUME LedgerInv, LedgerInv', NEW id \in ClaimIds, NEW p \in Pixels, Holds(id, p),
           \A b \in ClaimIds, q \in Pixels : Holds(b, q)' <=> Holds(b, q) /\ b # id
    PROVE  HolderOf[p] = id /\ HolderOf' = [HolderOf EXCEPT ![p] = None]
<1>1. HolderOf[p] = id
  BY HolderIs
<1>2. \A b \in ClaimIds : Holds(b, p) => b = id
  BY DEF LedgerInv, Exclusive
<1>3. HolderOf'[p] = None
  BY <1>2, HolderIs
<1>4. ASSUME NEW q \in Pixels \ {p} PROVE HolderOf'[q] = HolderOf[q]
  <2>1. ~Holds(id, q)
    BY <1>4 DEF Holds
  <2>2. CASE \E b \in ClaimIds : Holds(b, q)
    BY <2>1, <2>2, HolderIs
  <2>3. CASE \A b \in ClaimIds : ~Holds(b, q)
    BY <2>3, HolderIs
  <2> QED BY <2>2, <2>3
<1> QED BY <1>1, <1>3, <1>4 DEF HolderOf

(* Each operation of the ledger is a step of the abstract cells or leaves  *)
(* them as they are.                                                       *)
LEMMA LedgerImplements ==
    LedgerInv /\ LedgerInv' /\ LedgerMove => [Abstract!Next]_(Abstract!vars)
<1> SUFFICES ASSUME LedgerInv, LedgerInv', LedgerMove
             PROVE  Abstract!Next \/ UNCHANGED Abstract!vars
  OBVIOUS
<1>T. /\ meta \in [ClaimIds -> [pixel : Pixels, player : Players] \cup {NoMeta}]
      /\ status \in [ClaimIds -> Statuses]
      /\ standing \in [Pixels -> ClaimIds \cup {None}]
      /\ KnownIsBuilt
  BY DEF LedgerInv, LedgerTypeOK
<1>B. \A id \in ClaimIds : ~Fresh(id) => meta[id].pixel \in Pixels /\ meta[id] # NoMeta
  BY <1>T DEF Fresh
<1>N. None \notin Pixels /\ None \notin ClaimIds
  BY NoneAssumption
<1>S. ASSUME \A b \in ClaimIds, q \in Pixels : Holds(b, q)' <=> Holds(b, q),
             standing' = standing, Over' = Over
      PROVE  UNCHANGED Abstract!vars
  BY <1>S, HoldersKept DEF Abstract!vars
<1>H. ASSUME NEW id \in ClaimIds, NEW p \in Pixels, HasUnit(p),
             status[id] = "absent", standing' = standing, Over' = Over,
             \A b \in ClaimIds, q \in Pixels :
                Holds(b, q)' <=> Holds(b, q) \/ (b = id /\ q = p)
      PROVE  Abstract!Next
  <2>1. HolderOf[p] = None /\ HolderOf' = [HolderOf EXCEPT ![p] = id]
    BY <1>H, UnitMeansFree, HolderTaken
  <2>2. id \notin Over
    BY <1>H DEF Over
  <2>3. ASSUME NEW q \in Pixels PROVE HolderOf[q] # id
    <3>1. CASE \E b \in ClaimIds : Holds(b, q)
      <4>1. PICK b \in ClaimIds : Holds(b, q)
        BY <3>1
      <4>2. HolderOf[q] = b
        BY <4>1, HolderIs
      <4>3. b # id
        BY <4>1, <1>H DEF Holds, Reserving
      <4> QED BY <4>2, <4>3
    <3>2. CASE \A b \in ClaimIds : ~Holds(b, q)
      BY <3>2, <1>N, HolderIs
    <3> QED BY <3>1, <3>2
  <2>4. Abstract!Hold(p, id)
    BY <1>H, <2>1, <2>2, <2>3 DEF Abstract!Hold
  <2> QED BY <2>4 DEF Abstract!Next
<1>E. ASSUME NEW id \in ClaimIds, NEW p \in Pixels, Holds(id, p), Over' = Over \cup {id},
             \A b \in ClaimIds, q \in Pixels : Holds(b, q)' <=> Holds(b, q) /\ b # id,
             standing' \in {standing, [standing EXCEPT ![p] = id]}
      PROVE  Abstract!Next
  <2>1. HolderOf[p] = id /\ HolderOf' = [HolderOf EXCEPT ![p] = None]
    BY <1>E, HolderGone
  <2>2. Abstract!Paint(p) \/ Abstract!GiveUp(p)
    BY <1>E, <1>N, <2>1 DEF Abstract!Paint, Abstract!GiveUp
  <2> QED BY <2>2 DEF Abstract!Next
<1>1. CASE UNCHANGED ledgerVars
  BY <1>1, <1>S DEF ledgerVars, Holds, Over
<1>2. ASSUME NEW id \in ClaimIds, NEW p \in Pixels, NEW pl \in Players, NewClaim(id, p, pl),
             UNCHANGED <<status, acct, standing>>
      PROVE  UNCHANGED Abstract!vars
  <2>1. \A b \in ClaimIds : status[b] # "absent" => meta'[b] = meta[b]
    BY <1>2, <1>T DEF NewClaim, KnownIsBuilt
  <2>2. \A b \in ClaimIds, q \in Pixels : Holds(b, q)' <=> Holds(b, q)
    BY <1>2, <2>1 DEF Holds, Reserving
  <2> QED BY <1>2, <2>2, <1>S DEF Over
<1>3. ASSUME NEW id \in ClaimIds, NEW p \in Pixels, NEW pl \in Players, BuildAndCreate(id, p, pl)
      PROVE  Abstract!Next
  <2>1. /\ status[id] = "absent" /\ status'[id] = "pending" /\ meta'[id].pixel = p
        /\ \A b \in ClaimIds \ {id} : status'[b] = status[b] /\ meta'[b] = meta[b]
        /\ HasUnit(p) /\ standing' = standing
    BY <1>3, <1>T DEF BuildAndCreate, NewClaim, KnownIsBuilt
  <2>2. \A b \in ClaimIds, q \in Pixels : Holds(b, q)' <=> Holds(b, q) \/ (b = id /\ q = p)
    BY <2>1 DEF Holds, Reserving
  <2>3. Over' = Over
    BY <2>1 DEF Over
  <2> QED BY <2>1, <2>2, <2>3, <1>H
<1>4. ASSUME NEW id \in ClaimIds, CreatePending(id), ~Fresh(id)
      PROVE  Abstract!Next
  <2>1. PICK p \in Pixels : p = meta[id].pixel
    BY <1>4, <1>B
  <2>2. /\ status[id] = "absent" /\ status'[id] = "pending"
        /\ \A b \in ClaimIds \ {id} : status'[b] = status[b]
        /\ HasUnit(p) /\ meta' = meta /\ standing' = standing
    BY <1>4, <1>T, <2>1 DEF CreatePending
  <2>3. \A b \in ClaimIds, q \in Pixels : Holds(b, q)' <=> Holds(b, q) \/ (b = id /\ q = p)
    BY <2>1, <2>2 DEF Holds, Reserving
  <2>4. Over' = Over
    BY <2>2 DEF Over
  <2> QED BY <2>2, <2>3, <2>4, <1>H
<1>5. ASSUME NEW id \in ClaimIds, PostAndRefund(id) \/ VoidPending(id) \/ Release(id)
      PROVE  Abstract!Next
  <2>1. status[id] \in Reserving /\ ~Fresh(id)
    BY <1>5, <1>T DEF PostAndRefund, VoidPending, Release, Reserving, KnownIsBuilt
  <2>2. PICK p \in Pixels : p = meta[id].pixel
    BY <2>1, <1>B
  <2>3. /\ status'[id] \in {"posted", "voided", "expired"}
        /\ \A b \in ClaimIds \ {id} : status'[b] = status[b]
        /\ meta' = meta
        /\ standing' \in {standing, [standing EXCEPT ![p] = id]}
    BY <1>5, <1>T, <2>2 DEF PostAndRefund, VoidPending, Release
  <2>4. Holds(id, p)
    BY <2>1, <2>2 DEF Holds
  <2>5. \A b \in ClaimIds, q \in Pixels : Holds(b, q)' <=> Holds(b, q) /\ b # id
    BY <2>3 DEF Holds, Reserving
  <2>6. Over' = Over \cup {id}
    BY <2>3 DEF Over
  <2> QED BY <2>3, <2>4, <2>5, <2>6, <1>E
<1>6. ASSUME NEW id \in ClaimIds, Timeout(id) PROVE UNCHANGED Abstract!vars
  <2>1. /\ status[id] = "pending" /\ status'[id] = "overdue"
        /\ \A b \in ClaimIds \ {id} : status'[b] = status[b]
        /\ UNCHANGED <<meta, standing>>
    BY <1>6, <1>T DEF Timeout
  <2>2. \A b \in ClaimIds, q \in Pixels : Holds(b, q)' <=> Holds(b, q)
    BY <2>1 DEF Holds, Reserving
  <2>3. Over' = Over
    BY <2>1 DEF Over
  <2> QED BY <2>1, <2>2, <2>3, <1>S
<1> QED
  BY <1>1, <1>2, <1>3, <1>4, <1>5, <1>6 DEF LedgerMove

(* Every behaviour of the service is a behaviour of the abstract cells: no *)
(* race, error or restart lets a cell be held twice, or painted by a claim *)
(* that does not hold it.                                                  *)
THEOREM Refinement == Spec => CellsImplemented
<1>1. Init => Abstract!Init
  <2> SUFFICES ASSUME Init PROVE Abstract!Init
    OBVIOUS
  <2>1. \A id \in ClaimIds, p \in Pixels : ~Holds(id, p)
    BY DEF Init, LedgerInit, Holds, Reserving
  <2>2. HolderOf = [p \in Pixels |-> None]
    BY <2>1 DEF HolderOf, Holder
  <2>3. Over = {} /\ standing = [p \in Pixels |-> None]
    BY DEF Init, LedgerInit, Over
  <2> QED BY <2>2, <2>3 DEF Abstract!Init
<1>2. Inv /\ Inv' /\ [Next]_vars => [Abstract!Next]_(Abstract!vars)
  BY StepsMoveLedger, LedgerImplements DEF Inv
<1> QED
  BY <1>1, <1>2, Invariance, PTL DEF Spec, CellsImplemented, Abstract!Spec

(***************************************************************************)
(* What the claim service guarantees when its requests do not overlap: one *)
(* active claim per player, locks that stand for a claim somebody can      *)
(* still confirm or cancel, and, while TigerBeetle answers, a canvas that  *)
(* is the ledger's.  Bots, timeouts, the reaper and restarts may come      *)
(* between any two steps of the request.  (Requests that do overlap break  *)
(* the first of them: the run two_active_claims.)                          *)
(***************************************************************************)
(* One request is served at a time.                                        *)
NoOverlap == \A r, s \in Requests : r = s

(* Whatever is registered is what its player's next Claim would supersede. *)
RegisteredIsRecorded ==
    \A id \in claims : OwnerOf(id) \in Served /\ byPlayer[OwnerOf(id)] = id

(* A lock is on the cell of the claim that set it, and while it counts     *)
(* that claim is registered.                                               *)
LockIsOnItsCell(id, p) == ~Fresh(id) /\ CellOf(id) = p /\ OwnerOf(id) \in Served
LocksAreOnTheirCells ==
    \A p \in Pixels : locks[p] # None => LockIsOnItsCell(locks[p], p)
LocksAreRegistered ==
    \A p \in Pixels : locks[p] # None /\ locks[p] \notin expired => locks[p] \in claims

(* A Claim that may still fail has taken its player's entry, which only    *)
(* the reaper can have cleared since, and the lock it saved is either the  *)
(* superseded claim's or still in the table.                               *)
Claiming == {"claimSubmit", "claimFailed"}
FrameIsSequential(r) ==
    LET f == frame[r] IN
    /\ pc[r] \in Claiming =>
          /\ OwnerOf(f.id) \in Served
          /\ byPlayer[OwnerOf(f.id)] \in {f.id, None}
          /\ f.old = None => f.saved = None
    /\ pc[r] \in Claiming /\ f.saved # None =>
          /\ LockIsOnItsCell(f.saved, CellOf(f.old))
          /\ f.saved # f.id
          /\ f.saved \notin expired => f.saved = f.old \/ locks[CellOf(f.old)] = f.saved

SeqInv ==
    /\ RegisteredIsRecorded
    /\ LocksAreOnTheirCells
    /\ LocksAreRegistered
    /\ \A r \in Requests : FrameIsSequential(r)

(* A cell shows what was posted last, unless a bot posted that or a        *)
(* confirmed claim is on its way to the bitmap and the screens.            *)
DirectClaims == {id \in ClaimIds : OwnerOf(id) \in Direct}
Painting == {"apply", "unlockCast", "paintCast"}
Paints(r, p) ==
    pc[r] \in Painting /\ CellOf(frame[r].id) = p /\ standing[p] = frame[r].id
CellIsTrue(p) ==
    \/ standing[p] \in DirectClaims
    \/ bmp[p] = standing[p] /\ screen[p] = standing[p]
    \/ \E r \in Requests : Paints(r, p)
PaintIsTrue(r) ==
    LET p == CellOf(frame[r].id) IN
    /\ pc[r] \in Painting => standing[p] \in DirectClaims \cup {frame[r].id}
    /\ pc[r] \in Painting \ {"apply"} => bmp[p] = frame[r].id

CanvasInv ==
    /\ \A p \in Pixels : CellIsTrue(p)
    /\ \A r \in Requests : PaintIsTrue(r)

(* What was built keeps its cell and its player.                           *)
LEMMA BuiltIsFixed ==
    ASSUME Inv, [Next]_vars, NEW id \in ClaimIds, ~Fresh(id)
    PROVE  OwnerOf(id)' = OwnerOf(id) /\ CellOf(id)' = CellOf(id) /\ ~Fresh(id)'
<1> QED BY BuiltStay DEF OwnerOf, CellOf

(* So a lock that stays, stays on the cell of its claim.                   *)
LEMMA LockStays ==
    ASSUME Inv, SeqInv, [Next]_vars, NEW p \in Pixels, locks'[p] # None, locks'[p] = locks[p]
    PROVE  LockIsOnItsCell(locks[p], p)'
<1>1. locks[p] \in ClaimIds /\ LockIsOnItsCell(locks[p], p)
  BY DEF Inv, TypeOK, Claimed, SeqInv, LocksAreOnTheirCells
<1>2. meta'[locks[p]] = meta[locks[p]] /\ meta'[locks[p]] # NoMeta
  BY <1>1, BuiltStay DEF LockIsOnItsCell, Fresh
<1> QED BY <1>1, <1>2 DEF LockIsOnItsCell, Fresh, CellOf, OwnerOf

(* All of them, when none is added.                                        *)
LEMMA LocksStay ==
    ASSUME Inv, SeqInv, [Next]_vars, \A p \in Pixels : locks'[p] \in {None, locks[p]}
    PROVE  LocksAreOnTheirCells'
<1> QED BY LockStays DEF LocksAreOnTheirCells

(* A Claim in progress, too: of the tables only the reaper takes anything. *)
LEMMA ClaimGoesOn ==
    ASSUME Inv, SeqInv, [Next]_vars, NEW r \in Requests, pc[r] \in Claiming,
           frame'[r] = frame[r], expired \subseteq expired',
           byPlayer'[OwnerOf(frame[r].id)] \in {byPlayer[OwnerOf(frame[r].id)], None},
           \A p \in Pixels : locks[p] \notin expired' => locks'[p] = locks[p]
    PROVE  FrameIsSequential(r)'
<1> DEFINE id == frame[r].id
           old == frame[r].old
           saved == frame[r].saved
<1>1. id \in ClaimIds /\ ~Fresh(id) /\ old \in Claimed /\ saved \in Claimed
  BY DEF Inv, TypeOK, FramesAreBuilt, FrameBuilt, Claiming, Frames
<1>2. /\ OwnerOf(id) \in Served /\ byPlayer[OwnerOf(id)] \in {id, None}
      /\ old = None => saved = None
  BY DEF SeqInv, FrameIsSequential
<1>3. meta'[id] = meta[id]
  BY <1>1, BuiltStay
<1>4. ASSUME saved # None
      PROVE  /\ LockIsOnItsCell(frame[r].saved, CellOf(frame[r].old))'
             /\ saved # id
             /\ saved \notin expired' => saved = old \/ locks'[CellOf(frame[r].old)'] = saved
  <2>1. /\ saved \in ClaimIds /\ old \in ClaimIds /\ ~Fresh(old)
        /\ LockIsOnItsCell(saved, CellOf(old)) /\ saved # id
        /\ saved \notin expired => saved = old \/ locks[CellOf(old)] = saved
    BY <1>1, <1>2, <1>4 DEF Claimed, Inv, FramesAreBuilt, FrameBuilt, SeqInv, FrameIsSequential
  <2>2. CellOf(old) \in Pixels
    BY <2>1, BuiltHaveCells
  <2>3. CellOf(frame[r].old)' = CellOf(old)
    BY <2>1, BuiltStay DEF CellOf
  <2>4. LockIsOnItsCell(frame[r].saved, CellOf(frame[r].old))'
    <3>1. meta'[saved] = meta[saved] /\ ~(meta'[saved] = NoMeta)
      BY <2>1, BuiltStay DEF LockIsOnItsCell, Fresh
    <3>2. CellOf(frame[r].old)' = meta[saved].pixel
      BY <2>1, <2>3 DEF LockIsOnItsCell, CellOf
    <3> QED BY <2>1, <3>1, <3>2 DEF LockIsOnItsCell, CellOf, OwnerOf, Fresh
  <2> QED BY <2>1, <2>2, <2>3, <2>4
<1>5. OwnerOf(frame[r].id)' = OwnerOf(id)
  BY <1>3 DEF OwnerOf
<1> QED BY <1>2, <1>4, <1>5 DEF FrameIsSequential

(* Most steps leave the tables alone and begin no Claim.                   *)
LEMMA SeqKept ==
    ASSUME Inv, SeqInv, [Next]_vars, UNCHANGED tables, expired \subseteq expired',
           \A r \in Requests : pc'[r] \in Claiming => pc[r] \in Claiming /\ frame'[r] = frame[r]
    PROVE  SeqInv'
<1>T. /\ claims' = claims /\ locks' = locks /\ byPlayer' = byPlayer
      /\ claims \subseteq ClaimIds /\ locks \in [Pixels -> Claimed]
      /\ frame \in [Requests -> Frames]
  BY DEF tables, Inv, TypeOK
<1>1. RegisteredIsRecorded'
  <2>1. \A id \in claims : OwnerOf(id)' = OwnerOf(id)
    BY <1>T, BuiltIsFixed DEF Inv, RegisteredAreBuilt
  <2> QED BY <1>T, <2>1 DEF SeqInv, RegisteredIsRecorded
<1>2. LocksAreOnTheirCells'
  BY <1>T, LocksStay
<1>3. LocksAreRegistered'
  BY <1>T DEF SeqInv, LocksAreRegistered
<1>4. ASSUME NEW r \in Requests PROVE FrameIsSequential(r)'
  <2>1. CASE pc'[r] \notin Claiming
    BY <2>1 DEF FrameIsSequential
  <2>2. CASE pc'[r] \in Claiming
    BY <1>T, <2>2, ClaimGoesOn
  <2> QED BY <2>1, <2>2
<1> QED BY <1>1, <1>2, <1>3, <1>4 DEF SeqInv

(* The reaper takes claims with their entries, and only expired locks.     *)
LEMMA SeqReap ==
    ASSUME Inv, SeqInv, [Next]_vars, ReapExpired
    PROVE  SeqInv'
<1>T. /\ claims \subseteq ClaimIds /\ locks \in [Pixels -> Claimed]
      /\ byPlayer \in [Served -> Claimed]
  BY DEF Inv, TypeOK
<1>D. /\ claims' = claims \ Reaped /\ expired' = expired /\ pc' = pc /\ frame' = frame
      /\ byPlayer' = [pl \in Served |-> IF byPlayer[pl] \in Reaped THEN None ELSE byPlayer[pl]]
      /\ locks' = [p \in Pixels |-> IF p \in Stale THEN None ELSE locks[p]]
  BY DEF ReapExpired
<1>1. RegisteredIsRecorded'
  <2>1. \A id \in claims : OwnerOf(id)' = OwnerOf(id)
    BY <1>T, BuiltIsFixed DEF Inv, RegisteredAreBuilt
  <2> QED BY <1>D, <2>1 DEF SeqInv, RegisteredIsRecorded
<1>2. LocksAreOnTheirCells'
  BY <1>D, LocksStay
<1>3. LocksAreRegistered'
  <2> SUFFICES ASSUME NEW p \in Pixels, locks[p] # None, locks[p] \notin expired
               PROVE  locks[p] \in claims \ Reaped
    BY <1>D DEF LocksAreRegistered
  <2>1. locks[p] \in claims /\ CellOf(locks[p]) = p
    BY DEF SeqInv, LocksAreRegistered, LocksAreOnTheirCells, LockIsOnItsCell
  <2> QED BY <2>1 DEF Reaped, Stale
<1>4. ASSUME NEW r \in Requests PROVE FrameIsSequential(r)'
  <2>1. CASE pc[r] \notin Claiming
    BY <1>D, <2>1 DEF FrameIsSequential
  <2>2. CASE pc[r] \in Claiming
    <3>1. OwnerOf(frame[r].id) \in Served
      BY <2>2 DEF SeqInv, FrameIsSequential
    <3>2. \A p \in Pixels : locks[p] \notin expired => locks'[p] = locks[p]
      BY <1>D DEF Stale
    <3> QED BY <1>D, <2>2, <3>1, <3>2, ClaimGoesOn
  <2> QED BY <2>1, <2>2
<1> QED BY <1>1, <1>2, <1>3, <1>4 DEF SeqInv

(* A new server remembers nothing.                                         *)
LEMMA SeqRestart == Restart => SeqInv'
<1> SUFFICES ASSUME Restart PROVE SeqInv'
  OBVIOUS
<1>1. claims' = {} /\ locks' = [p \in Pixels |-> None] /\ pc' = [r \in Requests |-> "idle"]
  BY DEF Restart
<1> QED
  BY <1>1 DEF SeqInv, RegisteredIsRecorded, LocksAreOnTheirCells, LocksAreRegistered,
              FrameIsSequential, Claiming

(* A confirmed or cancelled claim goes with its entry and its lock.        *)
LEMMA SeqVacate ==
    ASSUME Inv, SeqInv, [Next]_vars, NEW id \in ClaimIds, Vacate(id), UNCHANGED expired,
           \A r \in Requests : pc'[r] \notin Claiming
    PROVE  SeqInv'
<1>T. /\ claims \subseteq ClaimIds /\ locks \in [Pixels -> Claimed]
      /\ byPlayer \in [Served -> Claimed]
  BY DEF Inv, TypeOK
<1>D. claims' = claims \ {id} /\ byPlayer' = ByPlayerWithout(id) /\ locks' = LocksWithout(id)
  BY DEF Vacate
<1>O. \A b \in claims : OwnerOf(b)' = OwnerOf(b) /\ OwnerOf(b) \in Served /\ byPlayer[OwnerOf(b)] = b
  BY <1>T, BuiltIsFixed DEF Inv, RegisteredAreBuilt, SeqInv, RegisteredIsRecorded
<1>1. RegisteredIsRecorded'
  <2> SUFFICES ASSUME NEW b \in claims \ {id}
               PROVE  OwnerOf(b)' \in Served /\ byPlayer'[OwnerOf(b)'] = b
    BY <1>D DEF RegisteredIsRecorded
  <2> QED BY <1>D, <1>O DEF ByPlayerWithout
<1>2. LocksAreOnTheirCells'
  BY <1>D, LocksStay DEF LocksWithout
<1>3. LocksAreRegistered'
  <2> SUFFICES ASSUME NEW p \in Pixels, locks'[p] # None, locks'[p] \notin expired
               PROVE  locks'[p] \in claims \ {id}
    BY <1>D DEF LocksAreRegistered
  <2>1. locks'[p] = locks[p] /\ ~(id \in claims /\ p = CellOf(id) /\ OwnerOf(locks[p]) = OwnerOf(id))
    BY <1>D DEF LocksWithout
  <2>2. locks[p] \in claims /\ CellOf(locks[p]) = p
    BY <2>1 DEF SeqInv, LocksAreRegistered, LocksAreOnTheirCells, LockIsOnItsCell
  <2> QED BY <2>1, <2>2
<1>4. \A r \in Requests : FrameIsSequential(r)'
  BY DEF FrameIsSequential
<1> QED BY <1>1, <1>2, <1>3, <1>4 DEF SeqInv

(* A Claim supersedes all that its player has.                             *)
LEMMA SupersededIsAll ==
    ASSUME Inv, SeqInv, NEW pl \in Served
    PROVE  /\ Superseded(pl) # None =>
                 /\ Superseded(pl) \in claims /\ OwnerOf(Superseded(pl)) = pl
                 /\ CellOf(Superseded(pl)) \in Pixels
           /\ \A id \in claims : OwnerOf(id) = pl => id = Superseded(pl)
<1>1. claims \subseteq ClaimIds /\ None \notin claims
  BY NoneAssumption DEF Inv, TypeOK
<1>2. Superseded(pl) # None => Superseded(pl) \in claims /\ OwnerOf(Superseded(pl)) = pl
  BY <1>1 DEF Superseded, Inv, RecordedIsRegistered
<1>3. Superseded(pl) # None => CellOf(Superseded(pl)) \in Pixels
  BY <1>1, <1>2, BuiltHaveCells DEF Inv, RegisteredAreBuilt
<1>4. \A id \in claims : OwnerOf(id) = pl => id = Superseded(pl)
  BY DEF Superseded, SeqInv, RegisteredIsRecorded
<1> QED BY <1>2, <1>3, <1>4

(* A Claim registers its own.                                              *)
LEMMA SeqBegin ==
    ASSUME Inv, SeqInv, [Next]_vars, NoOverlap,
           NEW r \in Requests, NEW pl \in Served, NEW p \in Pixels, NEW id \in ClaimIds,
           ClaimBegin(r, pl, p, id)
    PROVE  SeqInv'
<1> DEFINE old == Superseded(pl)
           saved == IF old = None THEN None ELSE locks[CellOf(old)]
<1>T. /\ claims \subseteq ClaimIds /\ locks \in [Pixels -> Claimed]
      /\ byPlayer \in [Served -> Claimed] /\ pc \in [Requests -> Places]
      /\ frame \in [Requests -> Frames]
  BY DEF Inv, TypeOK
<1>O. /\ old # None => old \in claims /\ OwnerOf(old) = pl /\ CellOf(old) \in Pixels
      /\ \A b \in claims : OwnerOf(b) = pl => b = old
  BY SupersededIsAll
<1>D. /\ claims' = (claims \ {old}) \cup {id}
      /\ byPlayer' = [byPlayer EXCEPT ![pl] = id]
      /\ locks' = [(IF old = None THEN locks ELSE LocksWithout(old)) EXCEPT ![p] = id]
      /\ expired' = expired /\ pc'[r] = "claimSubmit"
      /\ frame'[r] = [id |-> id, old |-> old, saved |-> saved]
      /\ ~LockedByOther(p, pl) /\ Fresh(id)
  BY <1>T DEF ClaimBegin, Goto, NewClaim
<1> HIDE DEF old
<1>I. OwnerOf(id)' = pl /\ CellOf(id)' = p /\ ~Fresh(id)'
  <2>1. meta'[id] = [pixel |-> p, player |-> pl]
    BY DEF ClaimBegin, NewClaim, Inv, LedgerInv, LedgerTypeOK
  <2>2. p # None
    BY NoneAssumption
  <2> QED BY <2>1, <2>2 DEF OwnerOf, CellOf, Fresh, NoMeta
<1>R. ASSUME NEW b \in claims
      PROVE  /\ b # id /\ OwnerOf(b)' = OwnerOf(b)
             /\ OwnerOf(b) \in Served /\ byPlayer[OwnerOf(b)] = b
  BY <1>D, <1>T, BuiltIsFixed DEF Inv, RegisteredAreBuilt, SeqInv, RegisteredIsRecorded
<1>L. ASSUME NEW q \in Pixels, q # p
      PROVE  /\ locks'[q] \in {None, locks[q]}
             /\ locks'[q] = locks[q] \/ (old # None /\ q = CellOf(old) /\ OwnerOf(locks[q]) = pl)
             /\ old # None /\ q = CellOf(old) /\ OwnerOf(locks[q]) = pl => locks'[q] = None
  BY <1>L, <1>T, <1>D, <1>O DEF LocksWithout
<1>P. locks'[p] = id
  <2>1. DOMAIN (IF old = None THEN locks ELSE LocksWithout(old)) = Pixels
    BY <1>T DEF LocksWithout
  <2> QED BY <1>D, <2>1
<1>U. ASSUME NEW q \in Pixels, locks[q] # None, locks[q] \notin expired
      PROVE  locks[q] \in claims /\ CellOf(locks[q]) = q
  BY <1>U DEF SeqInv, LocksAreRegistered, LocksAreOnTheirCells, LockIsOnItsCell
<1>1. RegisteredIsRecorded'
  <2>1. ASSUME NEW b \in claims \ {old}
        PROVE  OwnerOf(b)' \in Served /\ byPlayer'[OwnerOf(b)'] = b
    BY <1>R, <1>O, <1>D, <1>T
  <2>2. OwnerOf(id)' \in Served /\ byPlayer'[OwnerOf(id)'] = id
    BY <1>I, <1>D, <1>T
  <2> QED BY <1>D, <2>1, <2>2 DEF RegisteredIsRecorded
<1>2. LocksAreOnTheirCells'
  <2> SUFFICES ASSUME NEW q \in Pixels, locks'[q] # None PROVE LockIsOnItsCell(locks[q], q)'
    BY DEF LocksAreOnTheirCells
  <2>1. CASE q = p
    <3>1. /\ meta'[locks'[q]] = meta'[id]
      BY <1>P, <2>1
    <3> QED BY <3>1, <1>I, <2>1 DEF LockIsOnItsCell, OwnerOf, CellOf, Fresh
  <2>2. CASE q # p
    BY <1>L, <2>2, LockStays
  <2> QED BY <2>1, <2>2
<1>3. LocksAreRegistered'
  <2> SUFFICES ASSUME NEW q \in Pixels, locks'[q] # None, locks'[q] \notin expired
               PROVE  locks'[q] \in (claims \ {old}) \cup {id}
    BY <1>D DEF LocksAreRegistered
  <2>1. CASE q = p
    BY <1>P, <2>1
  <2>2. CASE q # p
    <3>1. locks'[q] = locks[q] /\ locks[q] \in claims /\ CellOf(locks[q]) = q
      BY <1>L, <1>U, <2>2
    <3>2. locks[q] # old
      BY <1>L, <1>O, <2>2, <3>1
    <3> QED BY <3>1, <3>2
  <2> QED BY <2>1, <2>2
<1>4. FrameIsSequential(r)'
  <2>1. /\ frame'[r].id = id /\ frame'[r].old = old /\ frame'[r].saved = saved
        /\ OwnerOf(frame[r].id)' = pl /\ byPlayer'[pl] = id
    BY <1>D, <1>I, <1>T DEF OwnerOf
  <2>2. ASSUME saved # None
        PROVE  /\ LockIsOnItsCell(frame[r].saved, CellOf(frame[r].old))'
               /\ saved # id
               /\ saved \notin expired => saved = old \/ locks'[CellOf(frame[r].old)'] = saved
    <3> DEFINE q == CellOf(old)
    <3>1. /\ old # None /\ old \in ClaimIds /\ q \in Pixels
          /\ saved = locks[q] /\ saved \in ClaimIds /\ LockIsOnItsCell(saved, q)
      BY <1>T, <1>O, <2>2 DEF Claimed, SeqInv, LocksAreOnTheirCells
    <3>2. CellOf(frame[r].old)' = q
      <4>1. meta'[old] = meta[old]
        BY <3>1, <1>O, <1>T, BuiltStay DEF Inv, RegisteredAreBuilt
      <4> QED BY <2>1, <4>1 DEF CellOf
    <3>3. LockIsOnItsCell(frame[r].saved, CellOf(frame[r].old))'
      <4>1. meta'[saved] = meta[saved] /\ meta'[saved] # NoMeta
        BY <3>1, BuiltStay DEF LockIsOnItsCell, Fresh
      <4> QED BY <2>1, <3>1, <3>2, <4>1 DEF LockIsOnItsCell, CellOf, OwnerOf, Fresh
    <3>4. saved # id
      BY <3>1, <1>D DEF LockIsOnItsCell
    <3>5. ASSUME saved \notin expired, saved # old PROVE locks'[q] = saved
      <4>1. saved \in claims /\ OwnerOf(saved) # pl
        BY <3>1, <3>5, <1>O, <1>U, <2>2
      <4>2. q # p
        BY <3>1, <3>5, <4>1, <2>2, <1>D DEF LockedByOther
      <4> QED BY <3>1, <4>1, <4>2, <1>L
    <3> QED BY <3>2, <3>3, <3>4, <3>5
  <2> HIDE DEF saved
  <2>3. old = None => saved = None
    BY DEF saved
  <2> QED BY <1>D, <2>1, <2>2, <2>3 DEF FrameIsSequential
<1>5. \A s \in Requests : FrameIsSequential(s)'
  BY <1>4 DEF NoOverlap
<1> QED BY <1>1, <1>2, <1>3, <1>5 DEF SeqInv

(* A Claim that failed puts back what it took, unless it is gone.          *)
LEMMA SeqFailed ==
    ASSUME Inv, SeqInv, [Next]_vars, NoOverlap, NEW r \in Requests, ClaimFailed(r)
    PROVE  SeqInv'
<1> DEFINE id == frame[r].id
           old == frame[r].old
           saved == frame[r].saved
           pl == OwnerOf(id)
           p == CellOf(id)
           unlocked == [locks EXCEPT ![p] = None]
<1>T. /\ claims \subseteq ClaimIds /\ locks \in [Pixels -> Claimed]
      /\ byPlayer \in [Served -> Claimed] /\ pc \in [Requests -> Places]
      /\ old \in Claimed /\ saved \in Claimed
  BY DEF Inv, TypeOK, Frames
<1>D. /\ pc[r] = "claimFailed" /\ expired' = expired /\ pc'[r] = "idle"
      /\ claims' = (claims \ {id}) \cup (IF old = None THEN {} ELSE {old})
      /\ byPlayer' = [byPlayer EXCEPT ![pl] = old]
      /\ locks' = IF old = None \/ saved = None THEN unlocked
                  ELSE [unlocked EXCEPT ![CellOf(old)] = saved]
  BY <1>T DEF ClaimFailed, Finish, Goto
<1>F. /\ id \in ClaimIds /\ ~Fresh(id) /\ pl \in Served /\ p \in Pixels
      /\ byPlayer[pl] \in {id, None}
      /\ old # None => old \in ClaimIds /\ ~Fresh(old) /\ OwnerOf(old) = pl /\ CellOf(old) \in Pixels
      /\ saved # None => /\ old # None /\ saved \in ClaimIds /\ saved # id
                         /\ LockIsOnItsCell(saved, CellOf(old))
                         /\ saved \notin expired => saved = old \/ locks[CellOf(old)] = saved
  <2>1. /\ id \in ClaimIds /\ ~Fresh(id)
        /\ old # None => old \in ClaimIds /\ ~Fresh(old) /\ OwnerOf(old) = pl
    BY <1>D, <1>T DEF Inv, FramesAreBuilt, FrameBuilt, Claimed
  <2>2. p \in Pixels /\ (old # None => CellOf(old) \in Pixels)
    BY <2>1, BuiltHaveCells
  <2>3. /\ pl \in Served /\ byPlayer[pl] \in {id, None}
        /\ saved # None => /\ old # None /\ saved # id
                           /\ LockIsOnItsCell(saved, CellOf(old))
                           /\ saved \notin expired => saved = old \/ locks[CellOf(old)] = saved
    BY <1>D DEF SeqInv, FrameIsSequential, Claiming
  <2> QED BY <1>T, <2>1, <2>2, <2>3 DEF Claimed
<1>M. meta' = meta
  BY DEF ClaimFailed, ledgerVars
<1> HIDE DEF id, old, saved
<1>R. ASSUME NEW b \in claims, b # id
      PROVE  OwnerOf(b) \in Served /\ OwnerOf(b) # pl /\ byPlayer[OwnerOf(b)] = b
  BY <1>R, <1>F, <1>T, NoneAssumption DEF SeqInv, RegisteredIsRecorded
<1>1. RegisteredIsRecorded'
  <2> SUFFICES ASSUME NEW b \in claims' PROVE OwnerOf(b) \in Served /\ byPlayer'[OwnerOf(b)] = b
    BY <1>M DEF RegisteredIsRecorded, OwnerOf
  <2>1. CASE b \in claims /\ b # id
    BY <2>1, <1>R, <1>D, <1>T
  <2>2. CASE b = old /\ old # None
    BY <2>2, <1>D, <1>F, <1>T
  <2> QED BY <2>1, <2>2, <1>D
<1>L. ASSUME NEW q \in Pixels, locks'[q] # None
      PROVE  \/ q # p /\ locks'[q] = locks[q] /\ (saved # None => q # CellOf(old))
             \/ saved # None /\ q = CellOf(old) /\ locks'[q] = saved
  <2>1. CASE saved = None
    BY <2>1, <1>L, <1>D, <1>T, <1>F
  <2>2. CASE saved # None
    BY <2>2, <1>L, <1>D, <1>T, <1>F
  <2> QED BY <2>1, <2>2
<1>2. LocksAreOnTheirCells'
  <2> SUFFICES ASSUME NEW q \in Pixels, locks'[q] # None
               PROVE  ~(meta[locks'[q]] = NoMeta) /\ meta[locks'[q]].pixel = q
                      /\ meta[locks'[q]].player \in Served
    BY <1>M DEF LocksAreOnTheirCells, LockIsOnItsCell, Fresh, CellOf, OwnerOf
  <2>1. CASE locks'[q] = locks[q]
    BY <2>1 DEF SeqInv, LocksAreOnTheirCells, LockIsOnItsCell, Fresh, CellOf, OwnerOf
  <2>2. CASE saved # None /\ q = CellOf(old) /\ locks'[q] = saved
    BY <2>2, <1>F DEF LockIsOnItsCell, Fresh, CellOf, OwnerOf
  <2> QED BY <2>1, <2>2, <1>L
<1>3. LocksAreRegistered'
  <2> SUFFICES ASSUME NEW q \in Pixels, locks'[q] # None, locks'[q] \notin expired
               PROVE  locks'[q] \in claims'
    BY <1>D DEF LocksAreRegistered
  <2>1. ASSUME locks'[q] = locks[q], locks[q] # id PROVE locks'[q] \in claims'
    BY <2>1, <1>D DEF SeqInv, LocksAreRegistered
  <2>2. CASE q # p /\ locks'[q] = locks[q]
    <3>1. CellOf(locks[q]) = q
      BY <2>2 DEF SeqInv, LocksAreOnTheirCells, LockIsOnItsCell
    <3>2. locks[q] # id
      BY <2>2, <3>1
    <3> QED BY <2>1, <2>2, <3>2
  <2>3. CASE saved # None /\ q = CellOf(old) /\ locks'[q] = saved
    <3>1. CASE saved = old
      BY <2>3, <3>1, <1>D
    <3>2. CASE saved # old
      BY <2>1, <2>3, <3>2, <1>F
    <3> QED BY <3>1, <3>2
  <2> QED BY <2>2, <2>3, <1>L
<1>4. \A s \in Requests : FrameIsSequential(s)'
  BY <1>D DEF NoOverlap, FrameIsSequential, Claiming
<1> QED BY <1>1, <1>2, <1>3, <1>4 DEF SeqInv

(* Every step keeps the sequential invariant.                              *)
LEMMA SeqStep == NoOverlap /\ Inv /\ SeqInv /\ [Next]_vars => SeqInv'
<1> SUFFICES ASSUME NoOverlap, Inv, SeqInv, [Next]_vars PROVE SeqInv'
  OBVIOUS
<1>T. pc \in [Requests -> Places] /\ frame \in [Requests -> Frames]
  BY DEF Inv, TypeOK
<1>M. CASE UNCHANGED tables /\ expired' = expired /\ UNCHANGED <<pc, frame>>
  BY <1>M, SeqKept
<1>G. ASSUME NEW r \in Requests, UNCHANGED tables, expired' = expired,
             pc'[r] \in Claiming => pc[r] \in Claiming /\ frame'[r] = frame[r]
      PROVE  SeqInv'
  BY <1>G, SeqKept DEF NoOverlap
<1>1. CASE UNCHANGED vars
  BY <1>1, <1>M DEF vars
<1>2. ASSUME NEW r \in Requests, NEW pl \in Served, NEW p \in Pixels, NEW id \in ClaimIds,
             ClaimBegin(r, pl, p, id)
      PROVE  SeqInv'
  BY <1>2, SeqBegin
<1>3. ASSUME NEW r \in Requests, NEW pl \in Served, NEW id \in ClaimIds,
             ConfirmBegin(r, pl, id) \/ CancelBegin(r, pl, id)
      PROVE  SeqInv'
  BY <1>3, <1>T, <1>G DEF ConfirmBegin, CancelBegin, Resolve, Goto, Claiming
<1>4. ASSUME NEW r \in Requests, HandlerStep(r) PROVE SeqInv'
  <2>1. CASE ClaimFailed(r)
    BY <2>1, SeqFailed
  <2>2. CASE ConfirmApply(r) \/ CancelApply(r)
    <3>1. /\ Vacate(frame[r].id) /\ expired' = expired
          /\ pc[r] \in {"apply", "cancelApply"} /\ pc'[r] \in {"unlockCast", "cancelCast"}
      BY <2>2, <1>T DEF ConfirmApply, CancelApply, Goto
    <3>2. frame[r].id \in ClaimIds
      BY <3>1 DEF Inv, FramesAreBuilt, FrameBuilt
    <3>3. \A s \in Requests : pc'[s] \notin Claiming
      BY <3>1 DEF NoOverlap, Claiming
    <3> QED BY <3>1, <3>2, <3>3, SeqVacate
  <2>3. CASE ClaimSubmit(r)
    <3>1. UNCHANGED tables /\ expired' = expired /\ frame' = frame /\ pc[r] = "claimSubmit"
      BY <2>3 DEF ClaimSubmit
    <3> QED BY <3>1, <1>G DEF Claiming
  <2>4. CASE \/ ClaimVoidOld(r) \/ ClaimUnlockOld(r) \/ ClaimLockCast(r) \/ ConfirmSubmit(r)
             \/ ConfirmUnlockCast(r) \/ ConfirmPaintCast(r) \/ CancelSubmit(r) \/ CancelCast(r)
    <3>1. UNCHANGED tables /\ expired' = expired
      BY <2>4 DEF ClaimVoidOld, ClaimUnlockOld, ClaimLockCast, ConfirmSubmit, ConfirmUnlockCast,
                  ConfirmPaintCast, CancelSubmit, CancelCast
    <3>2. pc'[r] \in {"idle", "unlockOld", "lockCast", "apply", "paintCast", "cancelApply"}
      BY <2>4, <1>T DEF ClaimVoidOld, ClaimUnlockOld, ClaimLockCast, ConfirmSubmit,
                  ConfirmUnlockCast, ConfirmPaintCast, CancelSubmit, CancelCast, Finish, Goto
    <3> QED BY <3>1, <3>2, <1>G DEF Claiming
  <2> QED BY <1>4, <2>1, <2>2, <2>3, <2>4 DEF HandlerStep
<1>5. ASSUME NEW id \in ClaimIds, LockExpires(id) PROVE SeqInv'
  BY <1>5, SeqKept DEF LockExpires
<1>6. ASSUME NEW id \in ClaimIds, PendingTimesOut(id) \/ PendingReleased(id) \/ DirectResolve(id)
      PROVE  SeqInv'
  BY <1>6, <1>M DEF PendingTimesOut, PendingReleased, DirectResolve, serverVars
<1>7. ASSUME NEW pl \in Direct, NEW p \in Pixels, NEW id \in ClaimIds, DirectClaim(pl, p, id)
      PROVE  SeqInv'
  BY <1>7, <1>M DEF DirectClaim, serverVars
<1>8. CASE ReapExpired
  BY <1>8, SeqReap
<1>9. ASSUME NEW p \in Pixels, ReapCast(p) PROVE SeqInv'
  BY <1>9, <1>M DEF ReapCast
<1>10. CASE Restart
  BY <1>10, SeqRestart
<1> QED
  BY <1>1, <1>2, <1>3, <1>4, <1>5, <1>6, <1>7, <1>8, <1>9, <1>10 DEF Next

(* It holds at the start.                                                  *)
LEMMA SeqInit == Init => SeqInv
<1> SUFFICES ASSUME Init PROVE SeqInv
  OBVIOUS
<1> QED
  BY DEF Init, SeqInv, RegisteredIsRecorded, LocksAreOnTheirCells, LocksAreRegistered,
         FrameIsSequential, Claiming

(* When requests do not overlap, the sequential invariant holds in every   *)
(* reachable state, client errors and restarts included.                   *)
THEOREM SeqInvariance ==
    ASSUME NoOverlap
    PROVE  Spec => []SeqInv
<1>1. Inv /\ SeqInv /\ [Next]_vars => SeqInv'
  BY SeqStep
<1> QED BY SeqInit, Invariance, <1>1, PTL DEF Spec

(* Then a player holds at most one active claim (comment on Claim): none   *)
(* that is registered and pending but the one recorded, whatever failed.   *)
THEOREM OneActive ==
    ASSUME NoOverlap
    PROVE  Spec => []OneActiveClaim
<1>1. SeqInv => OneActiveClaim
  BY DEF SeqInv, RegisteredIsRecorded, OneActiveClaim, Active
<1> QED BY <1>1, SeqInvariance, PTL

(* And a lock that still shuts others out is that of a registered claim,   *)
(* recorded for its player (Claim, vacate, the reaper).                    *)
THEOREM LocksHaveClaims ==
    ASSUME NoOverlap
    PROVE  Spec => []LockHasItsClaim
<1>1. SeqInv => LockHasItsClaim
  BY DEF SeqInv, RegisteredIsRecorded, LocksAreRegistered, LockHasItsClaim
<1> QED BY <1>1, SeqInvariance, PTL

(***************************************************************************)
(* The canvas, when TigerBeetle answers every request.                     *)
(***************************************************************************)
(* A bot's claim stays a bot's.                                            *)
LEMMA DirectStays ==
    ASSUME Inv, [Next]_vars
    PROVE  DirectClaims \subseteq DirectClaims'
<1> SUFFICES ASSUME NEW id \in ClaimIds, OwnerOf(id) \in Direct PROVE OwnerOf(id)' \in Direct
  BY DEF DirectClaims
<1>1. ~Fresh(id)
  BY NoneAssumption, ServiceAssumption DEF Fresh, NoMeta, OwnerOf
<1> QED BY <1>1, BuiltIsFixed

(* Where nothing is posted, the bitmap and the screen are left alone and   *)
(* no paint ends, each cell stays as true as it was.                       *)
LEMMA CanvasKept ==
    ASSUME Inv, CanvasInv, [Next]_vars, UNCHANGED <<bmp, screen>>,
           \A p \in Pixels : standing'[p] = standing[p] \/ standing'[p] \in DirectClaims,
           \A r \in Requests : frame'[r] = frame[r] \/ (pc[r] \notin Painting /\ pc'[r] \notin Painting),
           \A r \in Requests : pc'[r] \in Painting <=> pc[r] \in Painting,
           \A r \in Requests : pc'[r] \in Painting \ {"apply"} => pc[r] \in Painting \ {"apply"}
    PROVE  CanvasInv'
<1>1. DirectClaims \subseteq DirectClaims'
  BY DirectStays
<1>2. ASSUME NEW r \in Requests, pc[r] \in Painting
      PROVE  /\ frame'[r] = frame[r] /\ CellOf(frame[r].id)' = CellOf(frame[r].id)
             /\ CellOf(frame[r].id) \in Pixels
  <2>1. frame'[r] = frame[r] /\ frame[r].id \in ClaimIds /\ ~Fresh(frame[r].id)
    BY <1>2 DEF Inv, FramesAreBuilt, FrameBuilt, Painting
  <2>2. meta'[frame[r].id] = meta[frame[r].id] /\ CellOf(frame[r].id) \in Pixels
    BY <2>1, BuiltStay, BuiltHaveCells
  <2> QED BY <2>1, <2>2 DEF CellOf
<1>3. ASSUME NEW p \in Pixels PROVE CellIsTrue(p)'
  <2>1. CASE standing'[p] \in DirectClaims
    BY <2>1, <1>1 DEF CellIsTrue
  <2>2. CASE standing'[p] \notin DirectClaims /\ (bmp[p] = standing[p] /\ screen[p] = standing[p])
    BY <2>2 DEF CellIsTrue
  <2>3. ASSUME standing'[p] \notin DirectClaims, NEW r \in Requests, Paints(r, p)
        PROVE  CellIsTrue(p)'
    <3>1. Paints(r, p)'
      BY <2>3, <1>2 DEF Paints
    <3> QED BY <3>1 DEF CellIsTrue
  <2> QED BY <2>1, <2>2, <2>3 DEF CanvasInv, CellIsTrue
<1>4. ASSUME NEW r \in Requests PROVE PaintIsTrue(r)'
  BY <1>1, <1>2 DEF CanvasInv, PaintIsTrue
<1> QED BY <1>3, <1>4 DEF CanvasInv

(* A confirm that is answered paints, and one that is not posted does not. *)
LEMMA CanvasConfirm ==
    ASSUME Inv, CanvasInv, [Next]_vars, NoOverlap, MaxErrors = 0,
           NEW r \in Requests, ConfirmSubmit(r)
    PROVE  CanvasInv'
<1> DEFINE id == frame[r].id
           p == CellOf(id)
<1>T. /\ pc \in [Requests -> Places] /\ errors \in 0..MaxErrors
      /\ standing \in [Pixels -> ClaimIds \cup {None}]
  BY DEF Inv, TypeOK, LedgerTypeOK
<1>1. ~ClientError
  BY <1>T DEF ClientError
<1>2. /\ pc[r] = "confirmSubmit" /\ UNCHANGED <<bmp, screen>> /\ SubmitConfirm(id)
      /\ IF ConfirmAnswer(id) = "ok" THEN Goto(r, "apply") /\ UNCHANGED frame ELSE Finish(r)
  BY <1>1 DEF ConfirmSubmit, display
<1>3. CASE status[id] # "pending"
  <2>1. standing' = standing /\ ConfirmAnswer(id) # "ok"
    BY <1>2, <1>3 DEF SubmitConfirm, PostAndRefund, ledgerVars, ConfirmAnswer
  <2>2. pc'[r] = "idle"
    BY <1>2, <1>T, <2>1 DEF Finish, Goto
  <2> QED BY SMTT(40), <1>2, <2>1, <2>2, CanvasKept DEF NoOverlap, Painting
<1>4. CASE status[id] = "pending"
  <2>1. PostAndRefund(id) /\ ConfirmAnswer(id) = "ok"
    BY <1>2, <1>4 DEF SubmitConfirm, ConfirmAnswer
  <2>2. id \in ClaimIds /\ p \in Pixels
    BY SMTT(40), <1>2, BuiltHaveCells DEF Inv, FramesAreBuilt, FrameBuilt
  <2>3. /\ pc'[r] = "apply" /\ frame'[r] = frame[r] /\ meta' = meta
        /\ standing' = [standing EXCEPT ![p] = id] /\ standing'[p] = id
    BY <1>2, <1>T, <2>1, <2>2 DEF Goto, PostAndRefund, CellOf
  <2>4. ASSUME NEW q \in Pixels PROVE CellIsTrue(q)'
    <3>1. CASE q = p
      <4>1. Paints(r, q)'
        BY <2>3, <3>1 DEF Paints, Painting, CellOf
      <4> QED BY <4>1 DEF CellIsTrue
    <3>2. CASE q # p
      <4>1. standing'[q] = standing[q] /\ DirectClaims' = DirectClaims
        BY <1>T, <2>3, <3>2 DEF DirectClaims, OwnerOf
      <4>2. \A s \in Requests : ~Paints(s, q)
        BY <1>2 DEF NoOverlap, Paints, Painting
      <4> QED BY <1>2, <4>1, <4>2 DEF CanvasInv, CellIsTrue
    <3> QED BY <3>1, <3>2
  <2>5. \A s \in Requests : PaintIsTrue(s)'
    BY <2>3 DEF NoOverlap, PaintIsTrue, CellOf, Painting
  <2> QED BY <2>4, <2>5 DEF CanvasInv
<1> QED BY <1>3, <1>4

(* The bitmap first, then the screens, take the colour of that claim.      *)
LEMMA CanvasPaint ==
    ASSUME Inv, CanvasInv, [Next]_vars, NoOverlap,
           NEW r \in Requests, ConfirmApply(r) \/ ConfirmPaintCast(r)
    PROVE  CanvasInv'
<1> DEFINE id == frame[r].id
           p == CellOf(id)
<1>T. /\ pc \in [Requests -> Places]
      /\ bmp \in [Pixels -> Claimed] /\ screen \in [Pixels -> Claimed]
  BY DEF Inv, TypeOK
<1>1. pc[r] \in Painting /\ meta' = meta /\ standing' = standing
  BY DEF ConfirmApply, ConfirmPaintCast, ledgerVars, Painting
<1>2. id \in ClaimIds /\ p \in Pixels /\ DirectClaims' = DirectClaims
  BY <1>1, BuiltHaveCells DEF Inv, FramesAreBuilt, FrameBuilt, Painting, DirectClaims, OwnerOf
<1>3. standing[p] \in DirectClaims \cup {id}
  BY <1>1 DEF CanvasInv, PaintIsTrue
<1>4. ASSUME NEW q \in Pixels, q # p PROVE CellIsTrue(q)'
  <2>1. bmp'[q] = bmp[q] /\ screen'[q] = screen[q]
    BY <1>4, <1>T DEF ConfirmApply, ConfirmPaintCast, display
  <2>2. \A s \in Requests : ~Paints(s, q)
    BY <1>4 DEF NoOverlap, Paints
  <2> QED BY <1>1, <1>2, <2>1, <2>2 DEF CanvasInv, CellIsTrue
<1>5. CASE ConfirmApply(r)
  <2>1. pc'[r] = "unlockCast" /\ frame' = frame /\ bmp'[p] = id
    BY <1>5, <1>2, <1>T DEF ConfirmApply, Goto
  <2>2. ASSUME NEW q \in Pixels, q = p PROVE CellIsTrue(q)'
    <3>1. standing[q] = id => Paints(r, q)'
      BY <1>1, <2>1, <2>2 DEF Paints, Painting, CellOf
    <3> QED BY <1>1, <1>2, <1>3, <2>2, <3>1 DEF CellIsTrue
  <2>3. \A s \in Requests : PaintIsTrue(s)'
    BY <1>1, <1>2, <1>3, <2>1 DEF NoOverlap, PaintIsTrue, CellOf
  <2> QED BY <1>4, <2>2, <2>3 DEF CanvasInv
<1>6. CASE ConfirmPaintCast(r)
  <2>1. pc'[r] = "idle" /\ bmp' = bmp /\ screen'[p] = id
    BY <1>6, <1>2, <1>T DEF ConfirmPaintCast, Finish, Goto
  <2>2. bmp[p] = id
    BY <1>6 DEF CanvasInv, PaintIsTrue, ConfirmPaintCast, Painting
  <2>3. ASSUME NEW q \in Pixels, q = p PROVE CellIsTrue(q)'
    BY <1>1, <1>2, <1>3, <2>1, <2>2, <2>3 DEF CellIsTrue
  <2>4. \A s \in Requests : PaintIsTrue(s)'
    BY <2>1 DEF NoOverlap, PaintIsTrue, Painting
  <2> QED BY <1>4, <2>3, <2>4 DEF CanvasInv
<1> QED BY <1>5, <1>6

(* Every step keeps the canvas true.                                       *)
LEMMA CanvasStep == NoOverlap /\ MaxErrors = 0 /\ Inv /\ CanvasInv /\ [Next]_vars => CanvasInv'
<1> SUFFICES ASSUME NoOverlap, MaxErrors = 0, Inv, CanvasInv, [Next]_vars PROVE CanvasInv'
  OBVIOUS
<1>T. pc \in [Requests -> Places]
  BY DEF Inv, TypeOK
<1>M. CASE /\ UNCHANGED <<bmp, screen, pc, frame>>
           /\ \A p \in Pixels : standing'[p] = standing[p] \/ standing'[p] \in DirectClaims
  BY <1>M, CanvasKept
<1>G. ASSUME NEW r \in Requests, UNCHANGED <<bmp, screen, standing>>,
             pc[r] \notin Painting, pc'[r] \notin Painting
      PROVE  CanvasInv'
  BY <1>G, CanvasKept DEF NoOverlap
<1>1. CASE UNCHANGED vars
  BY <1>1, <1>M DEF vars, display, ledgerVars
<1>2. ASSUME NEW r \in Requests, NEW pl \in Served, NEW p \in Pixels, NEW id \in ClaimIds,
             ClaimBegin(r, pl, p, id)
      PROVE  CanvasInv'
  BY <1>2, <1>T, <1>G DEF ClaimBegin, Goto, Painting, display
<1>3. ASSUME NEW r \in Requests, NEW pl \in Served, NEW id \in ClaimIds,
             ConfirmBegin(r, pl, id) \/ CancelBegin(r, pl, id)
      PROVE  CanvasInv'
  BY <1>3, <1>T, <1>G DEF ConfirmBegin, CancelBegin, Resolve, Goto, Painting, display, ledgerVars
<1>4. ASSUME NEW r \in Requests, HandlerStep(r) PROVE CanvasInv'
  <2>1. CASE ConfirmSubmit(r)
    BY <2>1, CanvasConfirm
  <2>2. CASE ConfirmApply(r) \/ ConfirmPaintCast(r)
    BY <2>2, CanvasPaint
  <2>3. CASE ConfirmUnlockCast(r)
    <3>1. /\ UNCHANGED <<bmp, screen, standing, frame>>
          /\ pc[r] = "unlockCast" /\ pc'[r] = "paintCast"
      BY <2>3, <1>T DEF ConfirmUnlockCast, Goto, ledgerVars
    <3> QED BY <3>1, CanvasKept DEF NoOverlap, Painting
  <2>4. CASE \/ ClaimSubmit(r) \/ ClaimFailed(r) \/ ClaimVoidOld(r) \/ ClaimUnlockOld(r)
             \/ ClaimLockCast(r) \/ CancelSubmit(r) \/ CancelApply(r) \/ CancelCast(r)
    <3>1. UNCHANGED <<bmp, screen, standing>>
      BY <2>4 DEF ClaimSubmit, ClaimFailed, ClaimVoidOld, ClaimUnlockOld, ClaimLockCast,
                  CancelSubmit, CancelApply, CancelCast, CreatePending, SubmitVoid, VoidPending,
                  ledgerVars, display
    <3>2. pc[r] \notin Painting
      BY <2>4 DEF ClaimSubmit, ClaimFailed, ClaimVoidOld, ClaimUnlockOld, ClaimLockCast,
                  CancelSubmit, CancelApply, CancelCast, Painting
    <3>3. pc'[r] \notin Painting
      BY <2>4, <1>T DEF ClaimSubmit, ClaimFailed, ClaimVoidOld, ClaimUnlockOld, ClaimLockCast,
                  CancelSubmit, CancelApply, CancelCast, Finish, Goto, AfterClaim, Painting
    <3> QED BY SMTT(40), <3>1, <3>2, <3>3, <1>G
  <2> QED BY <1>4, <2>1, <2>2, <2>3, <2>4 DEF HandlerStep
<1>5. ASSUME NEW id \in ClaimIds,
             LockExpires(id) \/ PendingTimesOut(id) \/ PendingReleased(id) \/ DirectResolve(id)
      PROVE  CanvasInv'
  <2>1. UNCHANGED <<bmp, screen, pc, frame>>
    BY <1>5 DEF LockExpires, PendingTimesOut, PendingReleased, DirectResolve, serverVars, display
  <2>2. \A p \in Pixels : standing'[p] = standing[p] \/ standing'[p] \in DirectClaims
    <3>1. standing \in [Pixels -> ClaimIds \cup {None}]
      BY DEF Inv, TypeOK, LedgerTypeOK
    <3> QED
      BY <1>5, <3>1 DEF LockExpires, PendingTimesOut, PendingReleased, DirectResolve, ledgerVars,
                        Timeout, Release, PostAndRefund, VoidPending, DirectClaims, OwnerOf
  <2> QED BY <2>1, <2>2, <1>M
<1>6. ASSUME NEW pl \in Direct, NEW p \in Pixels, NEW id \in ClaimIds, DirectClaim(pl, p, id)
      PROVE  CanvasInv'
  BY <1>6, <1>M DEF DirectClaim, BuildAndCreate, serverVars, display
<1>7. ASSUME NEW p \in Pixels, ReapCast(p) PROVE CanvasInv'
  BY <1>7, <1>M DEF ReapCast, display, ledgerVars
<1>8. CASE ReapExpired
  BY <1>8, <1>M DEF ReapExpired, display, ledgerVars
<1>9. CASE Restart
  <2>1. /\ standing' = standing /\ bmp' = standing /\ screen' = standing
        /\ pc' = [r \in Requests |-> "idle"]
    BY <1>9 DEF Restart, ledgerVars
  <2> QED BY <2>1 DEF CanvasInv, CellIsTrue, PaintIsTrue, Painting
<1> QED
  BY <1>1, <1>2, <1>3, <1>4, <1>5, <1>6, <1>7, <1>8, <1>9 DEF Next

(* When requests do not overlap and TigerBeetle answers, the bitmap and    *)
(* the screens that missed nothing show, between requests, what a fold of  *)
(* the ledger's history shows, but for what bots posted (Confirm,          *)
(* WarmCache).                                                             *)
THEOREM CanvasTrue ==
    ASSUME NoOverlap, MaxErrors = 0
    PROVE  Spec => []CanvasIsLedger
<1>1. Init => CanvasInv
  BY DEF Init, CanvasInv, CellIsTrue, PaintIsTrue, Painting
<1>2. Inv /\ CanvasInv /\ [Next]_vars => CanvasInv'
  BY CanvasStep
<1>3. CanvasInv => CanvasIsLedger
  <2> SUFFICES ASSUME CanvasInv, Idle, NEW p \in Pixels, standing[p] \notin DirectClaims
               PROVE  bmp[p] = standing[p] /\ screen[p] = standing[p]
    BY DEF CanvasIsLedger, DirectClaims
  <2>1. \A r \in Requests : ~Paints(r, p)
    BY DEF Idle, Paints, Painting
  <2> QED BY <2>1 DEF CanvasInv, CellIsTrue
<1> QED BY <1>1, <1>2, <1>3, Invariance, PTL DEF Spec
====
