---- MODULE LedgerProofs ----
(***************************************************************************)
(* The exclusivity of cells and the conservation of their units, for any   *)
(* number of cells, claims and players: what each ledger operation does to *)
(* the invariant.                                                          *)
(***************************************************************************)
EXTENDS Ledger, TLAPS

(* A claim the database knows was built by NewClaim.                       *)
KnownIsBuilt == \A id \in ClaimIds : status[id] # "absent" => ~Fresh(id)

(* What a cell shows was posted on that cell.                              *)
StandingIsPosted ==
    \A p \in Pixels : standing[p] # None =>
        status[standing[p]] = "posted" /\ meta[standing[p]].pixel = p

LedgerInv ==
    /\ LedgerTypeOK
    /\ KnownIsBuilt
    /\ Exclusive
    /\ OneUnit
    /\ StandingIsPosted

(* Freshly funded cells: each has its unit and nobody holds it.            *)
LEMMA LedgerInitInv == LedgerInit => LedgerInv
<1> SUFFICES ASSUME LedgerInit PROVE LedgerInv
  OBVIOUS
<1>1. LedgerTypeOK
  BY DEF LedgerInit, LedgerTypeOK, Statuses
<1>2. \A id \in ClaimIds, p \in Pixels : ~Holds(id, p)
  BY DEF LedgerInit, Holds, Reserving
<1>3. KnownIsBuilt /\ Exclusive /\ StandingIsPosted
  BY <1>2 DEF LedgerInit, KnownIsBuilt, Exclusive, StandingIsPosted
<1>4. OneUnit
  BY <1>2 DEF LedgerInit, OneUnit
<1> QED
  BY <1>1, <1>3, <1>4 DEF LedgerInv

(* A cell that has its unit is held by nobody.                             *)
LEMMA UnitMeansFree ==
    ASSUME LedgerInv, NEW p \in Pixels, HasUnit(p)
    PROVE  acct[p].pending = 0 /\ \A id \in ClaimIds : ~Holds(id, p)
<1>1. acct[p] \in [pending : Nat, debits : Nat, credits : Nat]
  BY DEF LedgerInv, LedgerTypeOK
<1>2. /\ acct[p].credits - acct[p].debits = 1
      /\ acct[p].pending = IF \E id \in ClaimIds : Holds(id, p) THEN 1 ELSE 0
  BY DEF LedgerInv, OneUnit
<1> QED
  BY <1>1, <1>2 DEF HasUnit

(* Reserving the unit of a cell that has it keeps the books.               *)
LEMMA UnitTaken ==
    ASSUME LedgerInv, NEW id \in ClaimIds, NEW p \in Pixels, HasUnit(p),
           acct' = [acct EXCEPT ![p].pending = @ + 1],
           \A b \in ClaimIds, q \in Pixels :
              Holds(b, q)' <=> Holds(b, q) \/ (b = id /\ q = p)
    PROVE  Exclusive' /\ OneUnit' /\ acct' \in [Pixels -> [pending : Nat, debits : Nat, credits : Nat]]
<1>1. acct \in [Pixels -> [pending : Nat, debits : Nat, credits : Nat]]
  BY DEF LedgerInv, LedgerTypeOK
<1>2. acct[p].pending = 0 /\ \A b \in ClaimIds : ~Holds(b, p)
  BY UnitMeansFree
<1>3. Exclusive'
  BY <1>2 DEF LedgerInv, Exclusive
<1>4. OneUnit'
  <2> SUFFICES ASSUME NEW q \in Pixels
               PROVE  /\ acct'[q].credits - acct'[q].debits = 1
                      /\ acct'[q].pending = IF \E b \in ClaimIds : Holds(b, q)' THEN 1 ELSE 0
    BY DEF OneUnit
  <2>1. /\ acct[q].credits - acct[q].debits = 1
        /\ acct[q].pending = IF \E b \in ClaimIds : Holds(b, q) THEN 1 ELSE 0
    BY DEF LedgerInv, OneUnit
  <2>2. CASE q = p
    <3>1. acct'[q] = [acct[q] EXCEPT !.pending = @ + 1]
      BY <1>1, <2>2
    <3>2. acct'[q].pending = 1 /\ acct'[q].credits = acct[q].credits
             /\ acct'[q].debits = acct[q].debits
      BY <1>1, <1>2, <2>2, <3>1
    <3> QED BY <2>1, <2>2, <3>2
  <2>3. CASE q # p
    BY <1>1, <2>1, <2>3
  <2> QED BY <2>2, <2>3
<1>5. acct' \in [Pixels -> [pending : Nat, debits : Nat, credits : Nat]]
  BY <1>1
<1> QED BY <1>3, <1>4, <1>5

(* Ending the reservation of its holder keeps them too, posted or not.     *)
LEMMA UnitGiven ==
    ASSUME LedgerInv, NEW id \in ClaimIds, NEW p \in Pixels, Holds(id, p),
           NEW spent \in {0, 1},
           acct' = [acct EXCEPT ![p] = [pending |-> @.pending - 1,
                                        debits  |-> @.debits + spent,
                                        credits |-> @.credits + spent]],
           \A b \in ClaimIds, q \in Pixels :
              Holds(b, q)' <=> Holds(b, q) /\ b # id
    PROVE  Exclusive' /\ OneUnit' /\ acct' \in [Pixels -> [pending : Nat, debits : Nat, credits : Nat]]
<1>1. acct \in [Pixels -> [pending : Nat, debits : Nat, credits : Nat]]
  BY DEF LedgerInv, LedgerTypeOK
<1>2. acct[p].pending = 1 /\ \A b \in ClaimIds : Holds(b, p) => b = id
  BY DEF LedgerInv, Exclusive, OneUnit
<1>3. Exclusive'
  BY DEF LedgerInv, Exclusive
<1>4. \A b \in ClaimIds : ~Holds(b, p)'
  BY <1>2
<1>5. /\ acct'[p].pending = 0
      /\ acct'[p].debits = acct[p].debits + spent
      /\ acct'[p].credits = acct[p].credits + spent
  BY <1>1, <1>2
<1>6. OneUnit'
  <2> SUFFICES ASSUME NEW q \in Pixels
               PROVE  /\ acct'[q].credits - acct'[q].debits = 1
                      /\ acct'[q].pending = IF \E b \in ClaimIds : Holds(b, q)' THEN 1 ELSE 0
    BY DEF OneUnit
  <2>1. /\ acct[q].credits - acct[q].debits = 1
        /\ acct[q].pending = IF \E b \in ClaimIds : Holds(b, q) THEN 1 ELSE 0
    BY DEF LedgerInv, OneUnit
  <2>2. CASE q = p
    <3>1. acct[p] \in [pending : Nat, debits : Nat, credits : Nat]
      BY <1>1
    <3>2. acct'[p].credits - acct'[p].debits = 1
      BY <1>5, <2>1, <2>2, <3>1
    <3> QED BY <1>4, <1>5, <2>2, <3>2
  <2>3. CASE q # p
    <3>1. acct'[q] = acct[q]
      BY <1>1, <2>3
    <3>2. \A b \in ClaimIds : Holds(b, q) => b # id
      BY <2>3 DEF Holds
    <3> QED BY <2>1, <3>1, <3>2
  <2> QED BY <2>2, <2>3
<1>7. acct' \in [Pixels -> [pending : Nat, debits : Nat, credits : Nat]]
  <2> SUFFICES ASSUME NEW q \in Pixels
               PROVE  acct'[q] \in [pending : Nat, debits : Nat, credits : Nat]
    BY <1>1
  <2>1. acct[q] \in [pending : Nat, debits : Nat, credits : Nat]
    BY <1>1
  <2>2. CASE q = p
    BY <1>1, <1>2, <2>1, <2>2
  <2>3. CASE q # p
    BY <1>1, <2>1, <2>3
  <2> QED BY <2>2, <2>3
<1> QED BY <1>3, <1>6, <1>7

(* NewClaim, submitted at once or not, gives a fresh id its cell and       *)
(* leaves what is known of every other claim alone.                        *)
LEMMA BuildKeeps ==
    ASSUME LedgerInv, NEW id \in ClaimIds, NEW p \in Pixels, NEW pl \in Players,
           NewClaim(id, p, pl)
    PROVE  /\ meta' \in [ClaimIds -> [pixel : Pixels, player : Players] \cup {NoMeta}]
           /\ meta'[id] = [pixel |-> p, player |-> pl]
           /\ \A b \in ClaimIds \ {id} : meta'[b] = meta[b]
           /\ status[id] = "absent"
           /\ meta'[id] # NoMeta
<1>1. meta \in [ClaimIds -> [pixel : Pixels, player : Players] \cup {NoMeta}]
  BY DEF LedgerInv, LedgerTypeOK
<1>2. [pixel |-> p, player |-> pl] # NoMeta
  BY NoneAssumption DEF NoMeta
<1>3. status[id] = "absent"
  BY DEF LedgerInv, KnownIsBuilt, NewClaim
<1> QED
  BY <1>1, <1>2, <1>3 DEF NewClaim

(* Every operation on the ledger keeps its invariant.                      *)
LEMMA LedgerStep == LedgerInv /\ LedgerMove => LedgerInv'
<1> SUFFICES ASSUME LedgerInv, LedgerMove PROVE LedgerInv'
  OBVIOUS
<1> USE DEF Statuses
<1>T. /\ meta \in [ClaimIds -> [pixel : Pixels, player : Players] \cup {NoMeta}]
      /\ status \in [ClaimIds -> Statuses]
      /\ acct \in [Pixels -> [pending : Nat, debits : Nat, credits : Nat]]
      /\ standing \in [Pixels -> ClaimIds \cup {None}]
  BY DEF LedgerInv, LedgerTypeOK
<1>K. KnownIsBuilt /\ StandingIsPosted
  BY DEF LedgerInv
<1>1. CASE UNCHANGED ledgerVars
  BY <1>1 DEF ledgerVars, LedgerInv, LedgerTypeOK, KnownIsBuilt, Exclusive, OneUnit,
              StandingIsPosted, Holds, Fresh
<1>2. ASSUME NEW id \in ClaimIds, NEW p \in Pixels, NEW pl \in Players,
             NewClaim(id, p, pl), UNCHANGED <<status, acct, standing>>
      PROVE  LedgerInv'
  <2>1. /\ meta' \in [ClaimIds -> [pixel : Pixels, player : Players] \cup {NoMeta}]
        /\ \A b \in ClaimIds \ {id} : meta'[b] = meta[b]
        /\ status[id] = "absent"
    BY <1>2, BuildKeeps
  <2>2. \A b \in ClaimIds, q \in Pixels : Holds(b, q)' <=> Holds(b, q)
    BY <1>2, <2>1 DEF Holds, Reserving
  <2>3. LedgerTypeOK'
    BY <1>2, <1>T, <2>1 DEF LedgerTypeOK
  <2>4. KnownIsBuilt'
    BY <1>2, <1>K, <2>1 DEF KnownIsBuilt, Fresh
  <2>5. Exclusive' /\ OneUnit'
    BY <1>2, <2>2 DEF LedgerInv, Exclusive, OneUnit
  <2>6. StandingIsPosted'
    BY <1>2, <1>K, <1>T, <2>1 DEF StandingIsPosted
  <2> QED BY <2>3, <2>4, <2>5, <2>6 DEF LedgerInv
<1>3. ASSUME NEW id \in ClaimIds, NEW p \in Pixels, NEW pl \in Players,
             BuildAndCreate(id, p, pl)
      PROVE  LedgerInv'
  <2>1. /\ meta' \in [ClaimIds -> [pixel : Pixels, player : Players] \cup {NoMeta}]
        /\ meta'[id] = [pixel |-> p, player |-> pl]
        /\ \A b \in ClaimIds \ {id} : meta'[b] = meta[b]
        /\ status[id] = "absent"
        /\ meta'[id] # NoMeta
    BY <1>3, BuildKeeps DEF BuildAndCreate
  <2>2. status' \in [ClaimIds -> Statuses] /\ status'[id] = "pending"
        /\ \A b \in ClaimIds \ {id} : status'[b] = status[b]
    BY <1>3, <1>T DEF BuildAndCreate
  <2>3. \A b \in ClaimIds, q \in Pixels :
            Holds(b, q)' <=> Holds(b, q) \/ (b = id /\ q = p)
    BY <2>1, <2>2 DEF Holds, Reserving
  <2>4. Exclusive' /\ OneUnit' /\ acct' \in [Pixels -> [pending : Nat, debits : Nat, credits : Nat]]
    BY <1>3, <2>3, UnitTaken DEF BuildAndCreate
  <2>5. KnownIsBuilt'
    BY <1>K, <2>1, <2>2 DEF KnownIsBuilt, Fresh
  <2>6. StandingIsPosted'
    BY <1>3, <1>K, <1>T, <2>1, <2>2 DEF StandingIsPosted, BuildAndCreate
  <2>7. LedgerTypeOK'
    BY <1>3, <1>T, <2>1, <2>2, <2>4 DEF LedgerTypeOK, BuildAndCreate
  <2> QED BY <2>4, <2>5, <2>6, <2>7 DEF LedgerInv
<1>4. ASSUME NEW id \in ClaimIds, CreatePending(id), ~Fresh(id)
      PROVE  LedgerInv'
  <2> DEFINE p == meta[id].pixel
  <2>1. p \in Pixels /\ status[id] = "absent" /\ HasUnit(p)
    BY <1>4, <1>T DEF CreatePending, Fresh
  <2>2. status' \in [ClaimIds -> Statuses] /\ status'[id] = "pending" /\ meta' = meta
        /\ \A b \in ClaimIds \ {id} : status'[b] = status[b]
    BY <1>4, <1>T DEF CreatePending
  <2>3. \A b \in ClaimIds, q \in Pixels :
            Holds(b, q)' <=> Holds(b, q) \/ (b = id /\ q = p)
    BY <2>1, <2>2 DEF Holds, Reserving
  <2>4. acct' = [acct EXCEPT ![p].pending = @ + 1] /\ standing' = standing
    BY <1>4 DEF CreatePending
  <2>5. Exclusive' /\ OneUnit' /\ acct' \in [Pixels -> [pending : Nat, debits : Nat, credits : Nat]]
    <3> HIDE DEF p
    <3> QED BY <2>1, <2>3, <2>4, UnitTaken
  <2>6. KnownIsBuilt'
    BY <1>4, <1>K, <2>2 DEF KnownIsBuilt, Fresh
  <2>7. StandingIsPosted'
    BY <1>K, <1>T, <2>1, <2>2, <2>4 DEF StandingIsPosted
  <2>8. LedgerTypeOK'
    BY <1>T, <2>2, <2>4, <2>5 DEF LedgerTypeOK
  <2> QED BY <2>5, <2>6, <2>7, <2>8 DEF LedgerInv
<1>5. ASSUME NEW id \in ClaimIds, status[id] \in Reserving,
             NEW done \in {"posted", "voided", "expired"}, NEW spent \in {0, 1},
             status' = [status EXCEPT ![id] = done],
             acct' = [acct EXCEPT ![meta[id].pixel] = [pending |-> @.pending - 1,
                                                       debits  |-> @.debits + spent,
                                                       credits |-> @.credits + spent]],
             meta' = meta,
             \/ standing' = standing
             \/ standing' = [standing EXCEPT ![meta[id].pixel] = id] /\ done = "posted"
      PROVE  LedgerInv'
  <2> DEFINE p == meta[id].pixel
  <2>1. p \in Pixels /\ Holds(id, p)
    BY <1>5, <1>T, <1>K DEF Holds, KnownIsBuilt, Fresh, Reserving
  <2>2. status' \in [ClaimIds -> Statuses] /\ status'[id] = done
        /\ \A b \in ClaimIds \ {id} : status'[b] = status[b]
    BY <1>5, <1>T
  <2>3. \A b \in ClaimIds, q \in Pixels : Holds(b, q)' <=> Holds(b, q) /\ b # id
    BY <1>5, <2>2 DEF Holds, Reserving
  <2>4. acct' = [acct EXCEPT ![p] = [pending |-> @.pending - 1,
                                     debits  |-> @.debits + spent,
                                     credits |-> @.credits + spent]]
    BY <1>5
  <2>5. Exclusive' /\ OneUnit' /\ acct' \in [Pixels -> [pending : Nat, debits : Nat, credits : Nat]]
    <3> HIDE DEF p
    <3> QED BY <2>1, <2>3, <2>4, UnitGiven
  <2>6. KnownIsBuilt'
    BY <1>5, <1>K, <2>2 DEF KnownIsBuilt, Fresh, Reserving
  <2>7. StandingIsPosted'
    BY <1>5, <1>K, <1>T, <2>2 DEF StandingIsPosted, Reserving
  <2>8. LedgerTypeOK'
    BY SMTT(40), <1>5, <1>T, <2>2, <2>5 DEF LedgerTypeOK
  <2> QED BY <2>5, <2>6, <2>7, <2>8 DEF LedgerInv
<1>6. ASSUME NEW id \in ClaimIds, PostAndRefund(id) PROVE LedgerInv'
  BY <1>5, <1>6 DEF PostAndRefund, Reserving
<1>7. ASSUME NEW id \in ClaimIds, VoidPending(id) \/ Release(id) PROVE LedgerInv'
  <2>1. status[id] \in Reserving /\ meta' = meta /\ standing' = standing
    BY <1>7 DEF VoidPending, Release, Reserving
  <2>2. acct' = [acct EXCEPT ![meta[id].pixel].pending = @ - 1]
    BY <1>7 DEF VoidPending, Release
  <2>3. PICK done \in {"voided", "expired"} : status' = [status EXCEPT ![id] = done]
    BY <1>7 DEF VoidPending, Release
  <2>4. meta[id].pixel \in Pixels
    BY <1>T, <1>K, <2>1 DEF KnownIsBuilt, Fresh, Reserving
  <2>5. acct' = [acct EXCEPT ![meta[id].pixel] = [pending |-> @.pending - 1,
                                                  debits  |-> @.debits + 0,
                                                  credits |-> @.credits + 0]]
    <3> DEFINE p == meta[id].pixel
    <3>1. acct[p] \in [pending : Nat, debits : Nat, credits : Nat]
      BY <1>T, <2>4
    <3>2. [acct[p] EXCEPT !.pending = @ - 1]
            = [pending |-> acct[p].pending - 1, debits |-> acct[p].debits + 0,
               credits |-> acct[p].credits + 0]
      BY <3>1
    <3> QED BY <1>T, <2>2, <2>4, <3>2
  <2> QED BY <1>5, <2>1, <2>3, <2>5
<1>8. ASSUME NEW id \in ClaimIds, Timeout(id) PROVE LedgerInv'
  <2>1. /\ status' \in [ClaimIds -> Statuses]
        /\ status[id] = "pending" /\ status'[id] = "overdue"
        /\ \A b \in ClaimIds \ {id} : status'[b] = status[b]
        /\ UNCHANGED <<meta, acct, standing>>
    BY <1>8, <1>T DEF Timeout
  <2>2. \A b \in ClaimIds, q \in Pixels : Holds(b, q)' <=> Holds(b, q)
    BY <2>1 DEF Holds, Reserving
  <2>3. LedgerTypeOK'
    BY <1>T, <2>1 DEF LedgerTypeOK
  <2>4. KnownIsBuilt'
    BY <1>K, <2>1 DEF KnownIsBuilt, Fresh
  <2>5. Exclusive' /\ OneUnit'
    BY <2>1, <2>2 DEF LedgerInv, Exclusive, OneUnit
  <2>6. StandingIsPosted'
    BY <1>K, <1>T, <2>1 DEF StandingIsPosted
  <2> QED BY <2>3, <2>4, <2>5, <2>6 DEF LedgerInv
<1> QED
  BY <1>1, <1>2, <1>3, <1>4, <1>6, <1>7, <1>8 DEF LedgerMove

(* What a claim is once built, posted or known it stays: a cell and a      *)
(* player, a posted transfer, an existing transfer.                        *)
LEMMA LedgerMonotone ==
    ASSUME LedgerInv, LedgerMove, NEW id \in ClaimIds
    PROVE  /\ ~Fresh(id) => meta'[id] = meta[id] /\ ~Fresh(id)'
           /\ status[id] = "posted" => status'[id] = "posted"
           /\ status[id] # "absent" => status'[id] # "absent"
<1>1. status \in [ClaimIds -> Statuses] /\ KnownIsBuilt
      /\ meta \in [ClaimIds -> [pixel : Pixels, player : Players] \cup {NoMeta}]
  BY SMTT(40) DEF LedgerInv, LedgerTypeOK
<1>2. ~Fresh(id) => meta'[id] = meta[id]
  BY <1>1 DEF LedgerMove, ledgerVars, NewClaim, BuildAndCreate, CreatePending, PostAndRefund,
              VoidPending, Timeout, Release, Fresh
<1>3. status[id] = "posted" => status'[id] = "posted"
  <2>1. ASSUME NEW b \in ClaimIds, NEW p \in Pixels, NEW pl \in Players, BuildAndCreate(b, p, pl)
        PROVE  status[b] = "absent"
    BY SMTT(40), <1>1, <2>1 DEF BuildAndCreate, NewClaim, KnownIsBuilt
  <2> QED
    BY <1>1, <2>1 DEF LedgerMove, ledgerVars, BuildAndCreate, CreatePending, PostAndRefund,
                      VoidPending, Timeout, Release
<1>4. status[id] # "absent" => status'[id] # "absent"
  BY <1>1 DEF LedgerMove, ledgerVars, BuildAndCreate, CreatePending, PostAndRefund,
              VoidPending, Timeout, Release
<1> QED
  BY <1>2, <1>3, <1>4 DEF Fresh

====
