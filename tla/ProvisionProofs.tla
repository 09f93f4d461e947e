---- MODULE ProvisionProofs ----
(***************************************************************************)
(* The provisioning of cells, for any number of cells, drawings, batches,  *)
(* requests, errors and deaths: the cells that are ready implement the     *)
(* ledger, whoever has come through its provisioning finds its cells       *)
(* funded, and a first touch costs nobody a free cell.                     *)
(***************************************************************************)
EXTENDS Provision, FiniteSetTheorems, WellFoundedInduction, TLAPS

(* The accounts as Ready sees them, and what is proved of the ledger, of   *)
(* that ledger.                                                            *)
ReadyAcct == [p \in Pixels |-> IF p \in funded THEN acct[p]
                               ELSE [pending |-> 0, debits |-> 0, credits |-> 1]]
R == INSTANCE LedgerProofs WITH acct <- ReadyAcct

(* The database: an account is of no use before its fund transfer, which   *)
(* no claim can precede, and accounts come after the pool.                 *)
UnfundedIsEmpty ==
    \A p \in Pixels \ funded : acct[p] = [pending |-> 0, debits |-> 0, credits |-> 0]
ClaimedIsFunded ==
    \A id \in ClaimIds : status[id] # "absent" => meta[id].pixel \in funded
PoolComesFirst == exists # {} => pool

DatabaseInv ==
    /\ R!LedgerInv
    /\ acct \in [Pixels -> [pending : Nat, debits : Nat, credits : Nat]]
    /\ pool \in BOOLEAN
    /\ funded \subseteq exists /\ exists \subseteq Pixels
    /\ UnfundedIsEmpty
    /\ ClaimedIsFunded
    /\ PoolComesFirst

(* How far a sweep, a drawing and a first touch are is how far the         *)
(* database is.                                                            *)
SweepIsSo(s) ==
    Sweeps(s) =>
        /\ phase[s] = "accounts" => pool /\ \A p \in Pixels : p < next[s] => p \in exists
        /\ phase[s] = "funds" => /\ pool /\ exists = Pixels
                                 /\ \A p \in Pixels : p < next[s] => p \in funded
PaintIsSo ==
    ~Sweeps("bot") /\ phase["bot"] = "funds" =>
        /\ drawing \subseteq exists
        /\ \A p \in drawing : p < next["bot"] => p \in funded
TouchIsSo(r) ==
    /\ pc[r] # "idle" => cell[r] \in Pixels
    /\ pc[r] = "fund" => cell[r] \in exists
    /\ pc[r] = "mark" => cell[r] \in funded
    /\ pc[r] = "submit" /\ r \notin failed => cell[r] \in funded

ProcessTypeOK ==
    /\ phase \in [Processes -> Phases]
    /\ next \in [Processes -> 0..Count]
    /\ drawing \in Drawings \cup {None}
    /\ sysDone \in BOOLEAN /\ allCreated \in BOOLEAN
    /\ created \subseteq Pixels
    /\ pc \in [Requests -> Places]
    /\ cell \in [Requests -> Pixels \cup {None}]
    /\ failed \subseteq Requests
    /\ errors \in 0..MaxErrors /\ deaths \in 0..MaxDeaths

Inv ==
    /\ DatabaseInv
    /\ ProcessTypeOK
    /\ \A s \in Processes : SweepIsSo(s)
    /\ PaintIsSo
    /\ \A r \in Requests : TouchIsSo(r)
    /\ ReadyIsFunded

(* The cells are numbered from 0.                                          *)
LEMMA CellsAreNumbered == Count \in Nat /\ Pixels = 0..Count - 1 /\ Pixels \subseteq Nat
<1>1. Count \in Nat /\ Pixels = 0..Count - 1
  BY ProvisionAssumption, FS_CardinalityType DEF Count
<1> HIDE DEF Count
<1> QED BY <1>1

(* Of cells there is always a first.                                       *)
LEMMA SomeCellIsFirst ==
    ASSUME NEW ps \in SUBSET Nat, ps # {}
    PROVE  \E p \in ps : \A q \in ps : p <= q
<1> DEFINE Before == {e \in Nat \X Nat : e[1] < e[2]}
<1>1. IsWellFoundedOn(Before, Nat)
  BY NatLessThanWellFounded DEF OpToRel
<1>2. \A p, q \in Nat : q < p => <<q, p>> \in Before
  OBVIOUS
<1> HIDE DEF Before
<1>3. PICK p \in ps : \A q \in ps : <<q, p>> \notin Before
  BY <1>1, WFMin
<1>4. \A q \in ps : ~(q < p)
  BY <1>2, <1>3
<1> QED BY <1>4

(* The bot's next cell to fund is one of its drawing.                      *)
LEMMA FirstIsNext ==
    ASSUME drawing \subseteq Pixels, Unfunded # {}
    PROVE  First \in Unfunded /\ \A p \in Unfunded : First <= p
<1>1. Unfunded \in SUBSET Nat
  BY CellsAreNumbered DEF Unfunded
<1> QED BY <1>1, SomeCellIsFirst DEF First

(***************************************************************************)
(* The database.                                                           *)
(***************************************************************************)
(* A transfer of a claim on a funded cell is the same transfer in the      *)
(* ledger of ready cells.                                                  *)
ClaimMove ==
    \/ \E id \in ClaimIds, p \in Pixels, pl \in Players : BuildAndCreate(id, p, pl)
    \/ \E id \in ClaimIds : PostAndRefund(id) \/ VoidPending(id) \/ Timeout(id) \/ Release(id)

DatabaseMove ==
    \/ UNCHANGED database
    \/ \E w \in BOOLEAN, ps \in SUBSET Pixels : CreateAccounts(w, ps) /\ (ps # {} => w \/ pool)
    \/ \E ps \in SUBSET exists : FundCells(ps)
    \/ ClaimMove /\ UNCHANGED <<pool, exists, funded>>

(* Every process and every request sends only those.                       *)
LEMMA StepsMoveDatabase == Inv /\ [Next]_vars => DatabaseMove
<1> SUFFICES ASSUME Inv, [Next]_vars PROVE DatabaseMove
  OBVIOUS
<1> USE DEF DatabaseMove, Unsent
<1>T. ProcessTypeOK /\ DatabaseInv /\ PaintIsSo
  BY DEF Inv
<1>1. CASE UNCHANGED vars
  BY <1>1 DEF vars
<1>2. ASSUME NEW s \in Processes, Boot(s) \/ Death(s) PROVE DatabaseMove
  BY <1>2 DEF Boot, Death
<1>3. ASSUME NEW s \in Processes, SweepPool(s) PROVE DatabaseMove
  BY <1>3 DEF SweepPool
<1>4. ASSUME NEW s \in Processes, SweepAccounts(s) PROVE DatabaseMove
  <2>1. pool /\ Batch(s) \in SUBSET Pixels
    BY <1>4 DEF SweepAccounts, Inv, SweepIsSo, Batch
  <2> QED BY <1>4, <2>1 DEF SweepAccounts
<1>5. ASSUME NEW s \in Processes, SweepFunds(s) PROVE DatabaseMove
  <2>1. Batch(s) \in SUBSET exists
    BY <1>5 DEF SweepFunds, Inv, SweepIsSo, Batch
  <2> QED BY <1>5, <2>1 DEF SweepFunds
<1>6. CASE PaintAccounts
  <2>1. drawing \in SUBSET Pixels
    BY <1>6, <1>T, ProvisionAssumption DEF PaintAccounts, Sweeps, ProcessTypeOK
  <2> QED BY <1>6, <2>1 DEF PaintAccounts
<1>7. CASE PaintFund
  <2>0. drawing \subseteq Pixels
    BY <1>7, <1>T, ProvisionAssumption DEF PaintFund, Sweeps, ProcessTypeOK
  <2>1. CASE Unfunded = {}
    BY <1>7, <2>1 DEF PaintFund
  <2>2. CASE Unfunded # {}
    <3>1. {First} \in SUBSET exists
      BY <1>7, <2>2, <2>0, FirstIsNext, <1>T DEF PaintFund, PaintIsSo, Unfunded
    <3> QED BY <1>7, <2>2, <3>1 DEF PaintFund
  <2> QED BY <2>1, <2>2
<1>8. ASSUME NEW r \in Requests, NEW p \in Pixels, ClaimArrives(r, p) PROVE DatabaseMove
  BY <1>8 DEF ClaimArrives
<1>9. ASSUME NEW r \in Requests, RequestStep(r) PROVE DatabaseMove
  <2>1. TouchIsSo(r)
    BY DEF Inv
  <2>2. CASE EnsureSystemPool(r)
    BY <2>2 DEF EnsureSystemPool
  <2>3. CASE CreateCell(r)
    <3>1. {cell[r]} \in SUBSET Pixels
      BY <2>1, <2>3 DEF CreateCell, TouchIsSo
    <3> QED BY <2>3, <3>1 DEF CreateCell
  <2>4. CASE FundCell(r)
    <3>1. {cell[r]} \in SUBSET exists
      BY <2>1, <2>4 DEF FundCell, TouchIsSo
    <3> QED BY <2>4, <3>1 DEF FundCell
  <2>5. ASSUME NEW pl \in Players, NEW id \in ClaimIds, Granted(r, pl, id)
        PROVE  DatabaseMove
    <3>1. cell[r] \in Pixels
      BY <2>1, <2>5 DEF Granted, TouchIsSo
    <3> QED BY <2>5, <3>1 DEF Granted, ClaimMove
  <2>6. CASE CheckCreated(r) \/ MarkCreated(r) \/ Refused(r) \/ Missing(r) \/ Unanswered(r)
    BY <2>6 DEF CheckCreated, MarkCreated, Refused, Missing, Unanswered
  <2> QED BY <1>9, <2>2, <2>3, <2>4, <2>5, <2>6 DEF RequestStep
<1>10. ASSUME NEW p \in Pixels, NEW pl \in Players, NEW id \in ClaimIds, BotClaims(p, pl, id)
       PROVE  DatabaseMove
  BY <1>10 DEF BotClaims, ClaimMove
<1>11. ASSUME NEW id \in ClaimIds, Resolves(id) PROVE DatabaseMove
  BY <1>11 DEF Resolves, ClaimMove
<1> QED
  BY <1>1, <1>2, <1>3, <1>4, <1>5, <1>6, <1>7, <1>8, <1>9, <1>10, <1>11 DEF Next

(* Seen through Ready, accounts and fund transfers change nothing, and a   *)
(* claim moves the ledger of ready cells.                                  *)
LEMMA ClaimsMoveReady ==
    ASSUME DatabaseInv, ClaimMove, UNCHANGED <<pool, exists, funded>>
    PROVE  /\ R!LedgerMove
           /\ UnfundedIsEmpty'
           /\ ClaimedIsFunded'
<1>A. acct \in [Pixels -> [pending : Nat, debits : Nat, credits : Nat]]
  BY DEF DatabaseInv
<1>B. UnfundedIsEmpty /\ ClaimedIsFunded /\ funded \subseteq Pixels
  BY DEF DatabaseInv
<1>T. /\ meta \in [ClaimIds -> [pixel : Pixels, player : Players] \cup {NoMeta}]
      /\ status \in [ClaimIds -> Statuses]
  BY DEF DatabaseInv, R!LedgerInv, R!LedgerTypeOK, NoMeta, R!NoMeta, Statuses, R!Statuses
<1>1. ASSUME NEW id \in ClaimIds, NEW p \in Pixels, NEW pl \in Players, BuildAndCreate(id, p, pl)
      PROVE  R!BuildAndCreate(id, p, pl) /\ p \in funded
  <2>1. p \in funded
    BY <1>1, <1>A, <1>B DEF BuildAndCreate, HasUnit, UnfundedIsEmpty
  <2>2. ReadyAcct[p] = acct[p]
    BY <2>1 DEF ReadyAcct
  <2>3. ReadyAcct' = [ReadyAcct EXCEPT ![p].pending = @ + 1]
    BY <1>1, <1>A, <2>1 DEF BuildAndCreate, ReadyAcct
  <2> QED
    BY <1>1, <2>1, <2>2, <2>3 DEF BuildAndCreate, R!BuildAndCreate, HasUnit, R!HasUnit,
                                  NewClaim, R!NewClaim, Fresh, R!Fresh, NoMeta, R!NoMeta
<1>2. ASSUME NEW id \in ClaimIds, status[id] # "absent" PROVE meta[id].pixel \in funded
  BY <1>2, <1>B DEF ClaimedIsFunded
<1>3. ASSUME NEW id \in ClaimIds, PostAndRefund(id) \/ VoidPending(id) \/ Timeout(id) \/ Release(id)
      PROVE  R!PostAndRefund(id) \/ R!VoidPending(id) \/ R!Timeout(id) \/ R!Release(id)
  <2> DEFINE p == meta[id].pixel
  <2>1. p \in funded
    BY <1>2, <1>3 DEF PostAndRefund, VoidPending, Timeout, Release
  <2>2. ReadyAcct[p] = acct[p] /\ p \in Pixels
    BY <1>B, <2>1 DEF ReadyAcct
  <2>3. ASSUME NEW v, acct' = [acct EXCEPT ![p] = v] PROVE ReadyAcct' = [ReadyAcct EXCEPT ![p] = v]
    <3> HIDE DEF p
    <3> QED BY <2>1, <2>2, <2>3, <1>A DEF ReadyAcct
  <2>4. acct' = acct => ReadyAcct' = ReadyAcct
    BY DEF ReadyAcct
  <2>5. CASE PostAndRefund(id)
    BY <2>2, <2>3, <2>5 DEF PostAndRefund, R!PostAndRefund
  <2>6. CASE VoidPending(id)
    BY <2>2, <2>3, <2>6 DEF VoidPending, R!VoidPending
  <2>7. CASE Timeout(id)
    BY <2>4, <2>7 DEF Timeout, R!Timeout
  <2>8. CASE Release(id)
    BY <2>2, <2>3, <2>8 DEF Release, R!Release
  <2> QED BY <1>3, <2>5, <2>6, <2>7, <2>8
<1>4. R!LedgerMove
  BY <1>1, <1>3 DEF ClaimMove, R!LedgerMove
<1>5. UnfundedIsEmpty' /\ ClaimedIsFunded'
  <2>1. ASSUME NEW id \in ClaimIds, NEW p \in Pixels, NEW pl \in Players, BuildAndCreate(id, p, pl)
        PROVE  UnfundedIsEmpty' /\ ClaimedIsFunded'
    <3>1. \A q \in Pixels : q # p => acct'[q] = acct[q]
      BY <2>1, <1>A DEF BuildAndCreate
    <3>2. /\ meta'[id].pixel = p
          /\ \A b \in ClaimIds : b # id => meta'[b] = meta[b] /\ status'[b] = status[b]
      BY <2>1, <1>T DEF BuildAndCreate, NewClaim
    <3>3. p \in funded
      BY <2>1, <1>1
    <3> QED BY <3>1, <3>2, <3>3, <1>B DEF UnfundedIsEmpty, ClaimedIsFunded
  <2>2. ASSUME NEW id \in ClaimIds,
               PostAndRefund(id) \/ VoidPending(id) \/ Timeout(id) \/ Release(id)
        PROVE  UnfundedIsEmpty' /\ ClaimedIsFunded'
    <3>1. meta[id].pixel \in funded
      BY <1>2, <2>2 DEF PostAndRefund, VoidPending, Timeout, Release
    <3>2. \A q \in Pixels : q # meta[id].pixel => acct'[q] = acct[q]
      BY <2>2, <1>A DEF PostAndRefund, VoidPending, Timeout, Release
    <3>3. meta' = meta /\ \A b \in ClaimIds : b # id => status'[b] = status[b]
      BY <2>2, <1>T DEF PostAndRefund, VoidPending, Timeout, Release
    <3> QED BY <3>1, <3>2, <3>3, <1>B DEF UnfundedIsEmpty, ClaimedIsFunded
  <2> QED BY <2>1, <2>2 DEF ClaimMove
<1> QED BY <1>4, <1>5

(* What LedgerProofs shows of any ledger, of that one.                     *)
LEMMA ReadyStep == R!LedgerInv /\ R!LedgerMove => R!LedgerInv'
<1> QED BY NoneAssumption, R!LedgerStep DEF R!LedgerStep

(* A fund transfer gives its unit to a cell that was taken to have it.     *)
LEMMA FundingIsNotSeen ==
    ASSUME DatabaseInv, NEW ps \in SUBSET exists, FundCells(ps)
    PROVE  /\ ReadyAcct' = ReadyAcct
           /\ acct' \in [Pixels -> [pending : Nat, debits : Nat, credits : Nat]]
           /\ \A p \in Pixels : p \notin ps \/ p \in funded => acct'[p] = acct[p]
<1>A. acct \in [Pixels -> [pending : Nat, debits : Nat, credits : Nat]]
  BY DEF DatabaseInv
<1>1. ASSUME NEW p \in ps \ funded
      PROVE  acct'[p] = [pending |-> 0, debits |-> 0, credits |-> 1]
  <2>1. acct[p] = [pending |-> 0, debits |-> 0, credits |-> 0] /\ p \in Pixels
    BY DEF DatabaseInv, UnfundedIsEmpty
  <2> QED BY <2>1 DEF FundCells
<1>2. \A p \in Pixels : p \notin ps \/ p \in funded => acct'[p] = acct[p]
  BY DEF FundCells
<1>3. acct' \in [Pixels -> [pending : Nat, debits : Nat, credits : Nat]]
  <2>1. DOMAIN acct' = Pixels /\ acct' = [p \in Pixels |-> acct'[p]]
    BY DEF FundCells
  <2>2. \A p \in Pixels : acct'[p] \in [pending : Nat, debits : Nat, credits : Nat]
    BY <1>A, <1>1, <1>2
  <2> QED BY <2>1, <2>2
<1>4. \A p \in Pixels : ReadyAcct'[p] = ReadyAcct[p]
  BY <1>1, <1>2 DEF FundCells, ReadyAcct
<1> QED BY <1>2, <1>3, <1>4 DEF ReadyAcct

(* Whatever provisioning asks for, through Ready nothing happens.          *)
LEMMA ProvisioningIsNotSeen ==
    ASSUME DatabaseInv, DatabaseMove, ~(ClaimMove /\ UNCHANGED <<pool, exists, funded>>)
    PROVE  UNCHANGED <<meta, status, standing>> /\ ReadyAcct' = ReadyAcct
<1>1. CASE UNCHANGED database
  BY <1>1 DEF database, ledgerVars, ReadyAcct
<1>2. ASSUME NEW w \in BOOLEAN, NEW ps \in SUBSET Pixels, CreateAccounts(w, ps)
      PROVE  UNCHANGED <<meta, status, standing>> /\ ReadyAcct' = ReadyAcct
  BY <1>2 DEF CreateAccounts, ledgerVars, ReadyAcct
<1>3. ASSUME NEW ps \in SUBSET exists, FundCells(ps)
      PROVE  UNCHANGED <<meta, status, standing>> /\ ReadyAcct' = ReadyAcct
  BY <1>3, FundingIsNotSeen DEF FundCells
<1> QED BY <1>1, <1>2, <1>3 DEF DatabaseMove

(* The database's part of the invariant is kept by whatever it is sent.    *)
LEMMA DatabaseStep ==
    ASSUME DatabaseInv, DatabaseMove
    PROVE  /\ DatabaseInv'
           /\ exists \subseteq exists' /\ funded \subseteq funded' /\ (pool => pool')
<1>A. acct \in [Pixels -> [pending : Nat, debits : Nat, credits : Nat]]
  BY DEF DatabaseInv
<1>B. /\ UnfundedIsEmpty /\ ClaimedIsFunded /\ PoolComesFirst
      /\ pool \in BOOLEAN /\ funded \subseteq exists /\ exists \subseteq Pixels
  BY DEF DatabaseInv
<1>R. ASSUME UNCHANGED <<meta, status, standing>>, ReadyAcct' = ReadyAcct PROVE R!LedgerInv'
  <2>1. R!LedgerMove
    BY <1>R DEF R!LedgerMove, R!ledgerVars
  <2> QED BY <2>1, ReadyStep DEF DatabaseInv
<1>1. CASE UNCHANGED database
  <2>1. R!LedgerInv'
    BY <1>1, <1>R DEF database, ledgerVars, ReadyAcct
  <2> QED
    BY <1>1, <1>A, <1>B, <2>1 DEF database, ledgerVars, DatabaseInv, UnfundedIsEmpty,
                                  ClaimedIsFunded, PoolComesFirst
<1>2. ASSUME NEW w \in BOOLEAN, NEW ps \in SUBSET Pixels, CreateAccounts(w, ps), ps # {} => w \/ pool
      PROVE  /\ DatabaseInv'
             /\ exists \subseteq exists' /\ funded \subseteq funded' /\ (pool => pool')
  <2>1. R!LedgerInv'
    BY <1>2, <1>R DEF CreateAccounts, ledgerVars, ReadyAcct
  <2> QED
    BY <1>2, <1>A, <1>B, <2>1 DEF CreateAccounts, ledgerVars, DatabaseInv, UnfundedIsEmpty,
                                  ClaimedIsFunded, PoolComesFirst
<1>3. ASSUME NEW ps \in SUBSET exists, FundCells(ps)
      PROVE  /\ DatabaseInv'
             /\ exists \subseteq exists' /\ funded \subseteq funded' /\ (pool => pool')
  <2>1. /\ ReadyAcct' = ReadyAcct
        /\ acct' \in [Pixels -> [pending : Nat, debits : Nat, credits : Nat]]
        /\ \A p \in Pixels : p \notin ps \/ p \in funded => acct'[p] = acct[p]
    BY <1>3, FundingIsNotSeen
  <2>2. R!LedgerInv'
    BY <1>3, <1>R, <2>1 DEF FundCells
  <2> QED
    BY <1>3, <1>B, <2>1, <2>2 DEF FundCells, DatabaseInv, UnfundedIsEmpty,
                                  ClaimedIsFunded, PoolComesFirst
<1>4. ASSUME ClaimMove, UNCHANGED <<pool, exists, funded>>
      PROVE  /\ DatabaseInv'
             /\ exists \subseteq exists' /\ funded \subseteq funded' /\ (pool => pool')
  <2>1. R!LedgerMove /\ UnfundedIsEmpty' /\ ClaimedIsFunded'
    BY <1>4, ClaimsMoveReady
  <2>2. R!LedgerInv'
    BY <2>1, ReadyStep DEF DatabaseInv
  <2>3. acct' \in [Pixels -> [pending : Nat, debits : Nat, credits : Nat]]
    <3>1. DOMAIN acct' = Pixels /\ acct' = [p \in Pixels |-> acct'[p]]
      BY <1>4, <1>A DEF ClaimMove, BuildAndCreate, PostAndRefund, VoidPending, Timeout, Release
    <3>2. ReadyAcct' \in [Pixels -> [pending : Nat, debits : Nat, credits : Nat]]
      BY <2>2 DEF R!LedgerInv, R!LedgerTypeOK
    <3>3. ASSUME NEW p \in Pixels PROVE acct'[p] \in [pending : Nat, debits : Nat, credits : Nat]
      <4>1. CASE p \in funded
        <5>1. acct'[p] = ReadyAcct'[p]
          BY <1>4, <4>1 DEF ReadyAcct
        <5> QED BY <3>2, <5>1
      <4>2. CASE p \notin funded
        BY <1>4, <2>1, <4>2 DEF UnfundedIsEmpty
      <4> QED BY <4>1, <4>2
    <3> QED BY SMTT(40), <3>1, <3>3
  <2> QED BY <1>4, <1>B, <2>1, <2>2, <2>3 DEF DatabaseInv, PoolComesFirst
<1> QED BY <1>1, <1>2, <1>3, <1>4 DEF DatabaseMove

(***************************************************************************)
(* Sweeps and drawings.                                                    *)
(***************************************************************************)
(* A batch ends where the next one begins, the last at the last cell.      *)
LEMMA BatchesFollow ==
    ASSUME NEW s \in Processes, next[s] \in 0..Count
    PROVE  /\ After(s) \in 0..Count
           /\ \A p \in Pixels : p < After(s) => p < next[s] \/ p \in Batch(s)
           /\ Batch(s) \subseteq Pixels
<1> HIDE DEF Count
<1>1. BatchSize \in Nat /\ Count \in Nat /\ Pixels = 0..Count - 1
  BY ProvisionAssumption, CellsAreNumbered
<1> QED BY <1>1 DEF After, Batch

(* A process that does not move stays as far as the database is, which     *)
(* only grows.                                                             *)
LEMMA StandingStill ==
    ASSUME Inv, DatabaseInv',
           exists \subseteq exists', funded \subseteq funded', pool => pool',
           NEW s \in Processes, phase'[s] = phase[s], next'[s] = next[s], drawing' = drawing
    PROVE  SweepIsSo(s)' /\ (s = "bot" => PaintIsSo')
<1>1. SweepIsSo(s)'
  BY DEF Inv, DatabaseInv, SweepIsSo, Sweeps
<1>2. s = "bot" => PaintIsSo'
  BY DEF Inv, PaintIsSo, Sweeps
<1> QED BY <1>1, <1>2

(* Sweeps, drawings and deaths keep account of what they have done.        *)
LEMMA ProgressStep ==
    ASSUME Inv, [Next]_vars
    PROVE  /\ phase' \in [Processes -> Phases]
           /\ next' \in [Processes -> 0..Count]
           /\ drawing' = drawing
           /\ \A s \in Processes : SweepIsSo(s)'
           /\ PaintIsSo'
<1> DEFINE Kept == /\ phase' \in [Processes -> Phases]
                   /\ next' \in [Processes -> 0..Count]
                   /\ drawing' = drawing
                   /\ \A s \in Processes : SweepIsSo(s)'
                   /\ PaintIsSo'
<1>T. /\ phase \in [Processes -> Phases]
      /\ next \in [Processes -> 0..Count]
      /\ "bot" \in Processes
  BY DEF Inv, ProcessTypeOK, Processes
<1>D. DatabaseInv' /\ exists \subseteq exists' /\ funded \subseteq funded' /\ (pool => pool')
  BY StepsMoveDatabase, DatabaseStep DEF Inv
<1>G. exists \subseteq Pixels /\ exists' \subseteq Pixels /\ funded' \subseteq exists'
  BY <1>D DEF Inv, DatabaseInv
<1> HIDE DEF Count
<1>K. CASE UNCHANGED progress
  BY <1>K, <1>T, <1>D, StandingStill DEF progress
<1>M. ASSUME NEW s \in Processes, NEW ph \in Phases, NEW i \in 0..Count, Enter(s, ph, i),
             SweepIsSo(s)', s = "bot" => PaintIsSo'
      PROVE  Kept
  <2>1. /\ phase' \in [Processes -> Phases] /\ next' \in [Processes -> 0..Count]
        /\ drawing' = drawing
        /\ \A o \in Processes : o # s => phase'[o] = phase[o] /\ next'[o] = next[o]
    BY <1>M, <1>T DEF Enter
  <2>2. \A o \in Processes : o # s => SweepIsSo(o)' /\ (o = "bot" => PaintIsSo')
    BY <1>D, <2>1, StandingStill
  <2> QED BY <1>M, <1>T, <2>1, <2>2
<1>Z. 0 \in 0..Count /\ "off" \in Phases /\ "pool" \in Phases /\ "ready" \in Phases
         /\ "accounts" \in Phases /\ "funds" \in Phases
  BY CellsAreNumbered DEF Phases
<1>N. \A p \in Pixels : ~(p < 0)
  BY CellsAreNumbered
<1>O. ASSUME NEW s \in Processes, NEW ph \in {"off", "pool", "ready"}, Enter(s, ph, 0)
      PROVE  Kept
  <2>1. phase'[s] = ph
    BY <1>O, <1>T DEF Enter
  <2>2. SweepIsSo(s)' /\ (s = "bot" => PaintIsSo')
    BY <1>O, <2>1 DEF SweepIsSo, PaintIsSo
  <2> QED BY <1>O, <2>2, <1>M, <1>Z
<1>1. CASE UNCHANGED vars
  BY <1>1, <1>K DEF vars
<1>2. ASSUME NEW s \in Processes, Boot(s) PROVE Kept
  <2>1. CASE Enter(s, "pool", 0) \/ Enter(s, "ready", 0)
    BY <2>1, <1>O
  <2>2. CASE ~Sweeps(s) /\ Enter(s, "accounts", 0)
    <3>1. phase'[s] = "accounts" /\ drawing' = drawing
      BY <2>2, <1>T DEF Enter
    <3>2. SweepIsSo(s)' /\ (s = "bot" => PaintIsSo')
      BY <2>2, <3>1 DEF SweepIsSo, PaintIsSo, Sweeps
    <3> QED BY <2>2, <3>2, <1>M, <1>Z
  <2> QED BY <1>2, <2>1, <2>2 DEF Boot
<1>3. ASSUME NEW s \in Processes, SweepPool(s) PROVE Kept
  <2>1. CASE CreateAccounts(TRUE, {}) /\ Enter(s, "accounts", 0)
    <3>1. pool' /\ phase'[s] = "accounts" /\ next'[s] = 0 /\ drawing' = drawing
      BY <2>1, <1>T DEF CreateAccounts, Enter
    <3>2. SweepIsSo(s)' /\ (s = "bot" => PaintIsSo')
      BY <3>1, <1>N DEF SweepIsSo, PaintIsSo
    <3> QED BY <2>1, <3>2, <1>M, <1>Z
  <2>2. CASE Dies(s)
    BY <2>2, <1>O DEF Dies
  <2> QED BY <1>3, <2>1, <2>2 DEF SweepPool
<1>B. ASSUME NEW s \in Processes
      PROVE  /\ After(s) \in 0..Count
             /\ \A p \in Pixels : p < After(s) => p < next[s] \/ p \in Batch(s)
             /\ Batch(s) \subseteq Pixels
  BY <1>T, BatchesFollow
<1>E. \A p \in Pixels : p < Count
  BY CellsAreNumbered
<1>4. ASSUME NEW s \in Processes, SweepAccounts(s) PROVE Kept
  <2>1. ASSUME CreateAccounts(FALSE, Batch(s)) PROVE pool' /\ \A p \in Pixels : p < After(s) => p \in exists'
    BY <1>4, <2>1, <1>B, <1>D DEF SweepAccounts, CreateAccounts, Inv, SweepIsSo
  <2>2. CASE CreateAccounts(FALSE, Batch(s)) /\ After(s) = Count /\ Enter(s, "funds", 0)
    <3>1. phase'[s] = "funds" /\ next'[s] = 0 /\ drawing' = drawing
      BY <2>2, <1>T DEF Enter
    <3>2. exists' = Pixels /\ pool'
      BY <2>1, <2>2, <1>E, <1>G
    <3>3. SweepIsSo(s)' /\ (s = "bot" => PaintIsSo')
      BY <1>4, <3>1, <3>2, <1>N DEF SweepIsSo, PaintIsSo, SweepAccounts, Sweeps
    <3> QED BY <2>2, <3>3, <1>M, <1>Z
  <2>3. CASE CreateAccounts(FALSE, Batch(s)) /\ Enter(s, "accounts", After(s))
    <3>1. phase'[s] = "accounts" /\ next'[s] = After(s) /\ drawing' = drawing
      BY <2>3, <1>T DEF Enter
    <3>2. SweepIsSo(s)' /\ (s = "bot" => PaintIsSo')
      BY <2>1, <2>3, <3>1 DEF SweepIsSo, PaintIsSo
    <3> QED BY <2>3, <3>2, <1>B, <1>M, <1>Z
  <2>4. CASE Dies(s)
    BY <2>4, <1>O DEF Dies
  <2> QED BY <1>4, <2>2, <2>3, <2>4 DEF SweepAccounts
<1>5. ASSUME NEW s \in Processes, SweepFunds(s) PROVE Kept
  <2>1. CASE FundCells(Batch(s)) /\ Enter(s, "funds", After(s))
    <3>1. phase'[s] = "funds" /\ next'[s] = After(s) /\ drawing' = drawing
      BY <2>1, <1>T DEF Enter
    <3>2. pool' /\ exists' = Pixels /\ \A p \in Pixels : p < After(s) => p \in funded'
      BY <1>5, <2>1, <1>B, <1>D, <1>G DEF SweepFunds, FundCells, Inv, SweepIsSo
    <3>3. SweepIsSo(s)' /\ (s = "bot" => PaintIsSo')
      BY <1>5, <3>1, <3>2 DEF SweepIsSo, PaintIsSo, SweepFunds, Sweeps
    <3> QED BY <2>1, <3>3, <1>B, <1>M, <1>Z
  <2>2. CASE Enter(s, "ready", 0) \/ Dies(s)
    BY <2>2, <1>O DEF Dies
  <2> QED BY <1>5, <2>1, <2>2 DEF SweepFunds
<1>6. CASE PaintAccounts
  <2>1. CASE CreateAccounts(TRUE, drawing) /\ Enter("bot", "funds", 0)
    <3>1. phase'["bot"] = "funds" /\ next'["bot"] = 0 /\ drawing' = drawing
      BY <2>1, <1>T DEF Enter
    <3>2. drawing \subseteq exists' /\ drawing \subseteq Pixels
      BY <2>1, <1>G DEF CreateAccounts
    <3>3. SweepIsSo("bot")' /\ PaintIsSo'
      BY <1>6, <3>1, <3>2, <1>N DEF SweepIsSo, PaintIsSo, PaintAccounts, Sweeps
    <3> QED BY <2>1, <3>3, <1>M, <1>Z, <1>T
  <2>2. CASE Dies("bot")
    BY <2>2, <1>O, <1>T DEF Dies
  <2> QED BY <1>6, <2>1, <2>2 DEF PaintAccounts
<1>7. CASE PaintFund
  <2>0. drawing \subseteq Pixels /\ drawing \subseteq exists
        /\ \A p \in drawing : p < next["bot"] => p \in funded
    BY <1>7, <1>G DEF PaintFund, Inv, PaintIsSo
  <2>1. CASE Unfunded # {} /\ FundCells({First}) /\ Enter("bot", "funds", First + 1)
    <3>1. phase'["bot"] = "funds" /\ next'["bot"] = First + 1 /\ drawing' = drawing
      BY <2>1, <1>T DEF Enter
    <3>2. First \in Unfunded /\ \A p \in Unfunded : First <= p
      BY <2>0, <2>1, FirstIsNext
    <3>3. First + 1 \in 0..Count
      BY <2>0, <3>2, CellsAreNumbered DEF Unfunded
    <3>4. ASSUME NEW p \in drawing, p < First + 1 PROVE p \in funded'
      <4>1. CASE p < next["bot"]
        BY <2>0, <4>1, <1>D
      <4>2. CASE ~(p < next["bot"])
        <5>1. p \in Nat /\ First \in Nat /\ next["bot"] \in Nat
          BY <2>0, <3>2, <1>T, CellsAreNumbered DEF Unfunded
        <5>2. p = First
          BY <3>2, <3>4, <4>2, <5>1 DEF Unfunded
        <5> QED BY <2>1, <5>2 DEF FundCells
      <4> QED BY <4>1, <4>2
    <3>5. SweepIsSo("bot")' /\ PaintIsSo'
      BY <1>7, <2>0, <3>1, <3>4, <1>D DEF SweepIsSo, PaintIsSo, PaintFund, Sweeps
    <3> HIDE DEF First
    <3> QED BY <2>1, <3>3, <3>5, <1>M, <1>Z, <1>T
  <2>2. CASE Enter("bot", "ready", 0) \/ Dies("bot")
    BY <2>2, <1>O, <1>T DEF Dies
  <2> QED BY <1>7, <2>1, <2>2 DEF PaintFund
<1>8. ASSUME NEW s \in Processes, Death(s) PROVE Kept
  BY <1>8, <1>O DEF Death, Dies
<1>9. ASSUME NEW r \in Requests, (\E p \in Pixels : ClaimArrives(r, p)) \/ RequestStep(r)
      PROVE  UNCHANGED progress
  BY <1>9 DEF ClaimArrives, RequestStep, EnsureSystemPool, CheckCreated, CreateCell, FundCell,
              MarkCreated, Granted, Refused, Missing, Unanswered
<1>10. ASSUME NEW p \in Pixels, NEW pl \in Players, NEW id \in ClaimIds, BotClaims(p, pl, id)
       PROVE  UNCHANGED progress
  BY <1>10 DEF BotClaims
<1>11. ASSUME NEW id \in ClaimIds, Resolves(id) PROVE UNCHANGED progress
  BY <1>11 DEF Resolves
<1>12. Kept
  BY <1>1, <1>2, <1>3, <1>4, <1>5, <1>6, <1>7, <1>8, <1>9, <1>10, <1>11, <1>K DEF Next
<1> QED BY <1>12

(***************************************************************************)
(* What is remembered, and the first touches.                              *)
(***************************************************************************)
(* Whoever is through has seen every one of its cells funded.              *)
LEMMA ReadyIsFundedStep ==
    ASSUME Inv, [Next]_vars
    PROVE  ReadyIsFunded'
<1>T. /\ phase \in [Processes -> Phases] /\ next \in [Processes -> 0..Count]
      /\ "bot" \in Processes /\ "server" \in Processes
      /\ ReadyIsFunded
  BY DEF Inv, ProcessTypeOK, Processes
<1>D. DatabaseInv' /\ funded \subseteq funded' /\ drawing' = drawing
  BY StepsMoveDatabase, DatabaseStep, ProgressStep DEF Inv
<1>K. ASSUME phase'["bot"] = "ready" => phase["bot"] = "ready", allCreated' => allCreated,
             created' \subseteq created
      PROVE  ReadyIsFunded'
  BY <1>K, <1>T, <1>D DEF ReadyIsFunded, Territory
<1>M. CASE UNCHANGED <<phase, allCreated, created>>
  BY <1>M, <1>K
<1>O. ASSUME NEW s \in Processes, NEW ph \in Phases \ {"ready"}, NEW i, Enter(s, ph, i)
      PROVE  phase'["bot"] = "ready" => phase["bot"] = "ready"
  BY <1>O, <1>T DEF Enter
<1>P. {"off", "pool", "accounts", "funds"} \subseteq Phases \ {"ready"}
  BY DEF Phases
<1>1. CASE UNCHANGED vars
  BY <1>1, <1>M DEF vars, progress, memory
<1>2. ASSUME NEW s \in Processes, Boot(s) PROVE ReadyIsFunded'
  <2>1. phase'["bot"] = "ready" => phase["bot"] = "ready"
    BY <1>2, <1>O, <1>P, <1>T DEF Boot, Enter
  <2> QED BY <1>2, <2>1, <1>K DEF Boot, memory
<1>3. ASSUME NEW s \in Processes, SweepPool(s) \/ SweepAccounts(s) PROVE ReadyIsFunded'
  <2>1. phase'["bot"] = "ready" => phase["bot"] = "ready"
    BY <1>3, <1>O, <1>P DEF SweepPool, SweepAccounts, Dies
  <2>2. UNCHANGED memory
    BY <1>3 DEF SweepPool, SweepAccounts
  <2>3. UNCHANGED <<allCreated, created>>
    BY <2>2 DEF memory
  <2> QED BY <2>1, <2>3, <1>K
<1>4. ASSUME NEW s \in Processes, SweepFunds(s) PROVE ReadyIsFunded'
  <2>1. CASE FundCells(Batch(s)) /\ After(s) = Count /\ Enter(s, "ready", 0)
    <3>1. \A p \in Pixels : p < next[s] => p \in funded
      BY <1>4 DEF SweepFunds, Inv, SweepIsSo
    <3>2. Pixels \subseteq funded'
      <4>1. \A p \in Pixels : p < Count
        BY CellsAreNumbered
      <4> HIDE DEF Count
      <4> QED BY <2>1, <3>1, <4>1, <1>D, <1>T, BatchesFollow DEF FundCells
    <3>3. Territory \subseteq Pixels /\ Territory' = Territory
      BY <1>D, ProvisionAssumption DEF Territory, Inv, ProcessTypeOK
    <3>4. created' \subseteq Pixels
      BY <1>4 DEF SweepFunds, Inv, ProcessTypeOK
    <3> QED BY <3>2, <3>3, <3>4 DEF ReadyIsFunded
  <2>2. CASE Enter(s, "funds", After(s)) /\ UNCHANGED allCreated
    <3>1. phase'["bot"] = "ready" => phase["bot"] = "ready"
      BY <2>2, <1>O, <1>P
    <3> QED BY <1>4, <2>2, <3>1, <1>K DEF SweepFunds
  <2>3. CASE Dies(s) /\ UNCHANGED allCreated
    <3>1. phase'["bot"] = "ready" => phase["bot"] = "ready"
      BY <2>3, <1>O, <1>P DEF Dies
    <3> QED BY <1>4, <2>3, <3>1, <1>K DEF SweepFunds
  <2> QED BY <1>4, <2>1, <2>2, <2>3 DEF SweepFunds
<1>5. CASE PaintAccounts
  <2>1. phase'["bot"] = "ready" => phase["bot"] = "ready"
    BY <1>5, <1>O, <1>P, <1>T DEF PaintAccounts, Dies
  <2> QED BY <1>5, <2>1, <1>K DEF PaintAccounts, memory
<1>6. CASE PaintFund
  <2>1. CASE Unfunded = {}
    <3>1. drawing \subseteq funded
      <4>1. drawing \subseteq Pixels /\ \A p \in drawing : p < next["bot"] => p \in funded
        BY <1>6 DEF PaintFund, Inv, PaintIsSo, DatabaseInv
      <4>2. \A p \in drawing : p < next["bot"]
        <5>1. next["bot"] \in Nat
          BY <1>T, CellsAreNumbered
        <5> QED BY <4>1, <5>1, <2>1, CellsAreNumbered DEF Unfunded
      <4> QED BY <4>1, <4>2
    <3>2. Territory' \subseteq funded
      BY <1>6, <3>1, <1>D DEF PaintFund, Sweeps, Territory
    <3> QED BY <1>6, <3>2, <1>T, <1>D DEF PaintFund, memory, ReadyIsFunded
  <2>2. CASE Unfunded # {}
    <3>1. phase'["bot"] = "ready" => phase["bot"] = "ready"
      BY <1>6, <2>2, <1>O, <1>P, <1>T DEF PaintFund, Dies
    <3> QED BY <1>6, <3>1, <1>K DEF PaintFund, memory
  <2> QED BY <2>1, <2>2
<1>7. ASSUME NEW s \in Processes, Death(s) PROVE ReadyIsFunded'
  <2>1. phase'["bot"] = "ready" => phase["bot"] = "ready"
    BY <1>7, <1>O, <1>P DEF Death, Dies
  <2>2. (allCreated' => allCreated) /\ created' \subseteq created
    BY <1>7 DEF Death, memory
  <2> QED BY <2>1, <2>2, <1>K
<1>8. ASSUME NEW r \in Requests, RequestStep(r) PROVE ReadyIsFunded'
  <2>1. CASE MarkCreated(r)
    <3>1. cell[r] \in funded
      BY <2>1 DEF MarkCreated, Inv, TouchIsSo
    <3> QED BY <2>1, <3>1, <1>T, <1>D DEF MarkCreated, ReadyIsFunded, Territory, progress
  <2>2. CASE EnsureSystemPool(r) \/ CheckCreated(r) \/ CreateCell(r) \/ FundCell(r)
             \/ (\E pl \in Players, id \in ClaimIds : Granted(r, pl, id))
             \/ Refused(r) \/ Missing(r) \/ Unanswered(r)
    BY <2>2, <1>M DEF EnsureSystemPool, CheckCreated, CreateCell, FundCell, Granted, Refused,
                      Missing, Unanswered, progress, memory
  <2> QED BY <1>8, <2>1, <2>2 DEF RequestStep
<1>9. ASSUME NEW r \in Requests, NEW p \in Pixels, ClaimArrives(r, p) PROVE ReadyIsFunded'
  BY <1>9, <1>M DEF ClaimArrives, progress, memory
<1>10. ASSUME NEW p \in Pixels, NEW pl \in Players, NEW id \in ClaimIds, BotClaims(p, pl, id)
       PROVE  ReadyIsFunded'
  BY <1>10, <1>M DEF BotClaims, progress, memory
<1>11. ASSUME NEW id \in ClaimIds, Resolves(id) PROVE ReadyIsFunded'
  BY <1>11, <1>M DEF Resolves, progress, memory
<1> QED
  BY <1>1, <1>2, <1>3, <1>4, <1>5, <1>6, <1>7, <1>8, <1>9, <1>10, <1>11 DEF Next

(* A first touch reaches its cell, or knows that it failed.                *)
LEMMA TouchStep ==
    ASSUME Inv, [Next]_vars
    PROVE  /\ \A r \in Requests : TouchIsSo(r)'
           /\ pc' \in [Requests -> Places]
           /\ cell' \in [Requests -> Pixels \cup {None}]
           /\ failed' \subseteq Requests
<1> DEFINE Typed == /\ pc' \in [Requests -> Places]
                    /\ cell' \in [Requests -> Pixels \cup {None}]
                    /\ failed' \subseteq Requests
<1>T. /\ pc \in [Requests -> Places] /\ cell \in [Requests -> Pixels \cup {None}]
      /\ failed \subseteq Requests
      /\ \A r \in Requests : TouchIsSo(r)
      /\ ReadyIsFunded
  BY DEF Inv, ProcessTypeOK
<1>D. exists \subseteq exists' /\ funded \subseteq funded' /\ exists' \subseteq Pixels
  BY StepsMoveDatabase, DatabaseStep DEF Inv, DatabaseInv
<1>K. ASSUME NEW r \in Requests, pc'[r] = pc[r], cell'[r] = cell[r],
             r \in failed <=> r \in failed'
      PROVE  TouchIsSo(r)'
  BY <1>K, <1>T, <1>D DEF TouchIsSo
<1>S. CASE UNCHANGED serving
  BY <1>S, <1>T, <1>K DEF serving
<1>M. ASSUME NEW r \in Requests, NEW place \in Places, pc' = [pc EXCEPT ![r] = place],
             cell' = [cell EXCEPT ![r] = cell'[r]], cell'[r] \in Pixels \cup {None},
             failed' \subseteq failed \cup {r}, failed \subseteq failed' \cup {r},
             TouchIsSo(r)'
      PROVE  (\A q \in Requests : TouchIsSo(q)') /\ Typed
  <2>1. \A q \in Requests : q # r =>
           pc'[q] = pc[q] /\ cell'[q] = cell[q] /\ (q \in failed <=> q \in failed')
    BY <1>M, <1>T
  <2> QED BY <1>M, <2>1, <1>K, <1>T
<1> USE DEF Places
<1>1. CASE UNCHANGED vars
  BY <1>1, <1>S DEF vars
<1>2. ASSUME NEW s \in Processes, Boot(s) \/ SweepPool(s) \/ SweepAccounts(s) \/ SweepFunds(s)
      PROVE  UNCHANGED serving
  BY <1>2 DEF Boot, SweepPool, SweepAccounts, SweepFunds
<1>3. CASE PaintAccounts \/ PaintFund
  BY <1>3, <1>S DEF PaintAccounts, PaintFund
<1>4. ASSUME NEW s \in Processes, Death(s)
      PROVE  (\A q \in Requests : TouchIsSo(q)') /\ Typed
  <2>1. CASE s = "server"
    BY <1>4, <2>1 DEF Death, TouchIsSo
  <2>2. CASE s # "server"
    BY <1>4, <2>2, <1>S DEF Death
  <2> QED BY <2>1, <2>2
<1>5. ASSUME NEW r \in Requests, NEW p \in Pixels, ClaimArrives(r, p)
      PROVE  (\A q \in Requests : TouchIsSo(q)') /\ Typed
  <2>1. /\ pc'[r] \in {"check", "pool"} /\ pc' = [pc EXCEPT ![r] = pc'[r]]
        /\ cell' = [cell EXCEPT ![r] = p] /\ cell'[r] = p /\ failed' = failed
    BY <1>5, <1>T DEF ClaimArrives, Goto
  <2>2. TouchIsSo(r)'
    BY <2>1 DEF TouchIsSo
  <2> QED BY <2>1, <2>2, <1>M
<1>6. ASSUME NEW r \in Requests, RequestStep(r)
      PROVE  (\A q \in Requests : TouchIsSo(q)') /\ Typed
  <2>1. ASSUME NEW place \in Places \ {"idle"}, Goto(r, place), pc[r] # "idle", cell' = cell,
               failed' \in {failed, failed \cup {r}},
               place = "fund" => cell[r] \in exists',
               place = "mark" => cell[r] \in funded',
               place = "submit" => r \in failed' \/ cell[r] \in funded'
        PROVE  (\A q \in Requests : TouchIsSo(q)') /\ Typed
    <3>1. pc'[r] = place /\ pc' = [pc EXCEPT ![r] = place] /\ cell[r] \in Pixels
      BY <2>1, <1>T DEF Goto, TouchIsSo
    <3>2. TouchIsSo(r)'
      BY <2>1, <3>1 DEF TouchIsSo
    <3>3. cell' = [cell EXCEPT ![r] = cell'[r]]
      BY <2>1, <1>T
    <3> QED BY <2>1, <3>1, <3>2, <3>3, <1>M
  <2>2. CASE EnsureSystemPool(r)
    BY <2>2, <2>1 DEF EnsureSystemPool
  <2>3. CASE CheckCreated(r)
    <3>1. cell[r] \in Pixels
      BY <2>3, <1>T DEF CheckCreated, TouchIsSo
    <3>2. CASE allCreated \/ cell[r] \in created
      <4>1. cell[r] \in funded
        BY <3>1, <3>2, <1>T DEF ReadyIsFunded
      <4> QED BY <2>3, <3>2, <4>1, <1>D, <2>1 DEF CheckCreated
    <3>3. CASE ~(allCreated \/ cell[r] \in created)
      BY <2>3, <3>3, <2>1 DEF CheckCreated
    <3> QED BY <3>2, <3>3
  <2>4. CASE CreateCell(r)
    <3>1. CASE CreateAccounts(TRUE, {cell[r]}) /\ Goto(r, "fund") /\ UNCHANGED failed
      BY <2>4, <3>1, <2>1 DEF CreateCell, CreateAccounts
    <3>2. CASE GiveUp(r)
      BY <2>4, <3>2, <2>1 DEF CreateCell, GiveUp
    <3> QED BY <2>4, <3>1, <3>2 DEF CreateCell
  <2>5. CASE FundCell(r)
    <3>1. CASE FundCells({cell[r]}) /\ Goto(r, "mark") /\ UNCHANGED failed
      BY <2>5, <3>1, <2>1 DEF FundCell, FundCells
    <3>2. CASE GiveUp(r)
      BY <2>5, <3>2, <2>1 DEF FundCell, GiveUp
    <3> QED BY <2>5, <3>1, <3>2 DEF FundCell
  <2>6. CASE MarkCreated(r)
    <3>1. cell[r] \in funded
      BY <2>6, <1>T DEF MarkCreated, TouchIsSo
    <3> QED BY <2>6, <3>1, <1>D, <2>1 DEF MarkCreated
  <2>7. CASE Finish(r)
    <3>1. /\ pc' = [pc EXCEPT ![r] = "idle"] /\ pc'[r] = "idle"
          /\ cell' = [cell EXCEPT ![r] = None] /\ cell'[r] = None
          /\ failed' = failed \ {r}
      BY <2>7, <1>T DEF Finish, Goto
    <3>2. TouchIsSo(r)'
      BY <3>1 DEF TouchIsSo
    <3> QED BY <3>1, <3>2, <1>M
  <2> QED
    BY <1>6, <2>2, <2>3, <2>4, <2>5, <2>6, <2>7 DEF RequestStep, Granted, Refused, Missing, Unanswered
<1>7. ASSUME NEW p \in Pixels, NEW pl \in Players, NEW id \in ClaimIds, BotClaims(p, pl, id)
      PROVE  UNCHANGED serving
  BY <1>7 DEF BotClaims
<1>8. ASSUME NEW id \in ClaimIds, Resolves(id) PROVE UNCHANGED serving
  BY <1>8 DEF Resolves
<1> QED
  BY <1>1, <1>2, <1>3, <1>4, <1>5, <1>6, <1>7, <1>8, <1>S DEF Next

(* What the server remembers, and the bounds, keep their types.            *)
LEMMA MemoryStep ==
    ASSUME Inv, [Next]_vars
    PROVE  /\ sysDone' \in BOOLEAN /\ allCreated' \in BOOLEAN
           /\ created' \subseteq Pixels
           /\ errors' \in 0..MaxErrors /\ deaths' \in 0..MaxDeaths
<1> DEFINE Remembered == sysDone' \in BOOLEAN /\ allCreated' \in BOOLEAN /\ created' \subseteq Pixels
           Bounded == errors' \in 0..MaxErrors /\ deaths' \in 0..MaxDeaths
<1>T. /\ sysDone \in BOOLEAN /\ allCreated \in BOOLEAN /\ created \subseteq Pixels
      /\ errors \in 0..MaxErrors /\ deaths \in 0..MaxDeaths
      /\ \A r \in Requests : TouchIsSo(r)
  BY DEF Inv, ProcessTypeOK
<1>M. UNCHANGED memory => Remembered
  BY <1>T DEF memory
<1>E. UNCHANGED errors \/ ClientError => errors' \in 0..MaxErrors
  BY <1>T, ProvisionAssumption DEF ClientError
<1>B. UNCHANGED deaths \/ (deaths < MaxDeaths /\ deaths' = deaths + 1) => deaths' \in 0..MaxDeaths
  BY <1>T, ProvisionAssumption
<1> SUFFICES Remembered /\ Bounded
  OBVIOUS
<1> HIDE DEF Remembered, Bounded
<1> USE DEF Answered
<1>1. CASE UNCHANGED vars
  BY <1>1, <1>M, <1>E, <1>B DEF vars, Bounded
<1>2. ASSUME NEW s \in Processes, Boot(s) \/ SweepPool(s) \/ SweepAccounts(s)
      PROVE  Remembered /\ Bounded
  BY <1>2, <1>M, <1>E, <1>B DEF Bounded, Boot, SweepPool, SweepAccounts
<1>3. ASSUME NEW s \in Processes, SweepFunds(s) PROVE Remembered /\ Bounded
  <2>1. sysDone' = sysDone /\ created' = created /\ allCreated' \in BOOLEAN
    BY <1>3, <1>T DEF SweepFunds
  <2>2. deaths' = deaths /\ (UNCHANGED errors \/ ClientError)
    BY <1>3 DEF SweepFunds
  <2> QED BY <2>1, <2>2, <1>T, <1>E, <1>B DEF Remembered, Bounded
<1>4. CASE PaintAccounts \/ PaintFund
  <2>1. UNCHANGED memory /\ deaths' = deaths /\ (UNCHANGED errors \/ ClientError)
    BY <1>4 DEF PaintAccounts, PaintFund
  <2> QED BY <2>1, <1>M, <1>E, <1>B DEF Bounded
<1>5. ASSUME NEW s \in Processes, Death(s) PROVE Remembered /\ Bounded
  <2>1. CASE s = "server"
    BY <1>5, <2>1, <1>E, <1>B DEF Death, Remembered, Bounded
  <2>2. CASE s # "server"
    BY <1>5, <2>2, <1>M, <1>E, <1>B DEF Death, Bounded
  <2> QED BY <2>1, <2>2
<1>6. ASSUME NEW r \in Requests, NEW p \in Pixels, ClaimArrives(r, p) PROVE Remembered /\ Bounded
  BY <1>6, <1>M, <1>E, <1>B DEF ClaimArrives, Bounded
<1>7. ASSUME NEW r \in Requests, RequestStep(r) PROVE Remembered /\ Bounded
  <2>1. deaths' = deaths
    BY <1>7 DEF RequestStep, EnsureSystemPool, CheckCreated, CreateCell, FundCell, MarkCreated,
                Granted, Refused, Missing, Unanswered
  <2>2. UNCHANGED errors \/ ClientError
    BY <1>7 DEF RequestStep, EnsureSystemPool, CheckCreated, CreateCell, FundCell, MarkCreated,
                Granted, Refused, Missing, Unanswered
  <2>3. Remembered
    <3>1. CASE EnsureSystemPool(r)
      BY <3>1, <1>T DEF EnsureSystemPool, Remembered
    <3>2. CASE MarkCreated(r)
      BY <3>2, <1>T DEF MarkCreated, TouchIsSo, Remembered
    <3>3. CASE ~EnsureSystemPool(r) /\ ~MarkCreated(r)
      <4>1. UNCHANGED memory
        BY <1>7, <3>3 DEF RequestStep, CheckCreated, CreateCell, FundCell, Granted, Refused,
                          Missing, Unanswered
      <4> QED BY <4>1, <1>M
    <3> QED BY <3>1, <3>2, <3>3
  <2> QED BY <2>1, <2>2, <2>3, <1>E, <1>B DEF Bounded
<1>8. ASSUME NEW p \in Pixels, NEW pl \in Players, NEW id \in ClaimIds, BotClaims(p, pl, id)
      PROVE  Remembered /\ Bounded
  BY <1>8, <1>M, <1>E, <1>B DEF BotClaims, Bounded
<1>9. ASSUME NEW id \in ClaimIds, Resolves(id) PROVE Remembered /\ Bounded
  BY <1>9, <1>M, <1>E, <1>B DEF Resolves, Bounded
<1> QED
  BY <1>1, <1>2, <1>3, <1>4, <1>5, <1>6, <1>7, <1>8, <1>9 DEF Next

(***************************************************************************)
(* The theorems.                                                           *)
(***************************************************************************)
(* An empty database is, to whoever looks through Ready, a ledger of       *)
(* cells that all have their unit.                                         *)
LEMMA ReadyInit == Init => R!LedgerInit
<1> SUFFICES ASSUME Init PROVE R!LedgerInit
  OBVIOUS
<1>1. ReadyAcct = [p \in Pixels |-> [pending |-> 0, debits |-> 0, credits |-> 1]]
  BY DEF Init, ReadyAcct
<1> QED BY <1>1 DEF Init, R!LedgerInit, NoMeta, R!NoMeta

(* It satisfies the ledger's invariant.                                    *)
LEMMA ReadyInitInv == R!LedgerInit => R!LedgerInv
<1> QED BY NoneAssumption, R!LedgerInitInv DEF R!LedgerInitInv

(* A new database and processes that are off satisfy the invariant.        *)
LEMMA InitInv == Init => Inv
<1> SUFFICES ASSUME Init PROVE Inv
  OBVIOUS
<1> USE DEF Init
<1>1. DatabaseInv
  <2>1. R!LedgerInv
    BY ReadyInit, ReadyInitInv
  <2> QED BY <2>1 DEF DatabaseInv, UnfundedIsEmpty, ClaimedIsFunded, PoolComesFirst
<1>2. ProcessTypeOK
  <2>1. 0 \in 0..Count /\ 0 \in 0..MaxErrors /\ 0 \in 0..MaxDeaths
    <3> HIDE DEF Count
    <3> QED BY CellsAreNumbered, ProvisionAssumption
  <2>2. phase \in [Processes -> Phases] /\ next \in [Processes -> 0..Count]
    <3> HIDE DEF Count
    <3> QED BY <2>1 DEF Phases
  <2>3. pc \in [Requests -> Places] /\ cell \in [Requests -> Pixels \cup {None}]
    BY DEF Places
  <2> QED BY <2>1, <2>2, <2>3 DEF ProcessTypeOK
<1>3. (\A s \in Processes : SweepIsSo(s)) /\ PaintIsSo
  BY DEF SweepIsSo, PaintIsSo, Processes
<1>4. (\A r \in Requests : TouchIsSo(r)) /\ ReadyIsFunded
  BY DEF TouchIsSo, ReadyIsFunded, Processes
<1> QED BY <1>1, <1>2, <1>3, <1>4 DEF Inv

(* Every step of every process and request keeps it.                       *)
LEMMA InvStep == Inv /\ [Next]_vars => Inv'
<1> SUFFICES ASSUME Inv, [Next]_vars PROVE Inv'
  OBVIOUS
<1>1. DatabaseInv'
  BY StepsMoveDatabase, DatabaseStep DEF Inv
<1> QED
  BY <1>1, ProgressStep, TouchStep, MemoryStep, ReadyIsFundedStep DEF Inv, ProcessTypeOK

(* The inductive invariant of provisioning holds in every reachable state. *)
THEOREM Invariance == Spec => []Inv
<1> QED BY InitInv, InvStep, PTL DEF Spec

(* Type correctness of the database, the sweeps and the first touches, for *)
(* any grid, drawings, batch size, errors and deaths.                      *)
THEOREM TypeCorrect == Spec => []TypeOK
<1>1. Inv => TypeOK
  <2> SUFFICES ASSUME Inv PROVE TypeOK
    OBVIOUS
  <2>1. LedgerTypeOK
    BY DEF Inv, DatabaseInv, R!LedgerInv, R!LedgerTypeOK, LedgerTypeOK, NoMeta, R!NoMeta,
           Statuses, R!Statuses
  <2> QED BY <2>1 DEF Inv, DatabaseInv, ProcessTypeOK, TypeOK
<1> QED BY <1>1, Invariance, PTL

(* Whoever is through its provisioning finds its cells funded, and what    *)
(* the server remembers as created is created, whatever batches were lost, *)
(* repeated or cut short by a death (InitAllPixels, ensurePixel).          *)
THEOREM ReadyFunded == Spec => []ReadyIsFunded
<1>1. Inv => ReadyIsFunded
  BY DEF Inv
<1> QED BY <1>1, Invariance, PTL

(* However provisioning goes, what the cells that are ready go through is  *)
(* what the ledger of funded cells, from which the claim service is        *)
(* proved, may go through (FundID, EnsureAccounts).                        *)
THEOREM ReadyRefinement == Spec => ReadyLedger
<1>1. Init => Ready!LedgerInit
  <2>1. R!LedgerInit => Ready!LedgerInit
    BY DEF R!LedgerInit, Ready!LedgerInit, ReadyAcct, R!NoMeta, Ready!NoMeta
  <2> QED BY <2>1, ReadyInit
<1>2. Inv /\ [Next]_vars => [Ready!LedgerMove]_(Ready!ledgerVars)
  <2> SUFFICES ASSUME Inv, [Next]_vars PROVE [Ready!LedgerMove]_(Ready!ledgerVars)
    OBVIOUS
  <2>1. DatabaseInv /\ DatabaseMove
    BY SMTT(40), StepsMoveDatabase DEF Inv
  <2>2. CASE ClaimMove /\ UNCHANGED <<pool, exists, funded>>
    <3>1. R!LedgerMove
      BY <2>1, <2>2, ClaimsMoveReady
    <3> QED
      BY <3>1 DEF R!LedgerMove, R!ledgerVars, R!NewClaim, R!BuildAndCreate, R!CreatePending,
                  R!PostAndRefund, R!VoidPending, R!Timeout, R!Release, R!Fresh, R!HasUnit,
                  R!NoMeta, Ready!LedgerMove, Ready!ledgerVars, Ready!NewClaim,
                  Ready!BuildAndCreate, Ready!CreatePending, Ready!PostAndRefund,
                  Ready!VoidPending, Ready!Timeout, Ready!Release, Ready!Fresh,
                  Ready!HasUnit, Ready!NoMeta, ReadyAcct
  <2>3. CASE ~(ClaimMove /\ UNCHANGED <<pool, exists, funded>>)
    <3>1. UNCHANGED <<meta, status, standing>> /\ ReadyAcct' = ReadyAcct
      BY <2>1, <2>3, ProvisioningIsNotSeen
    <3> QED BY <3>1 DEF Ready!ledgerVars, ReadyAcct
  <2> QED BY <2>2, <2>3
<1> QED BY <1>1, <1>2, Invariance, PTL DEF Spec, ReadyLedger

(* A funded cell without its unit is held by somebody.                     *)
LEMMA WithoutUnitIsHeld ==
    ASSUME DatabaseInv, NEW p \in funded, ~HasUnit(p)
    PROVE  \E id \in ClaimIds : Holds(id, p)
<1>1. p \in Pixels /\ ReadyAcct[p] = acct[p] /\ acct[p] \in [pending : Nat, debits : Nat, credits : Nat]
  BY DEF DatabaseInv, ReadyAcct
<1>2. /\ acct[p].credits - acct[p].debits = 1
      /\ acct[p].pending = IF \E id \in ClaimIds : R!Holds(id, p) THEN 1 ELSE 0
  BY <1>1 DEF DatabaseInv, R!LedgerInv, R!OneUnit
<1>3. \E id \in ClaimIds : R!Holds(id, p)
  BY <1>1, <1>2 DEF HasUnit
<1> QED BY <1>3 DEF Holds, R!Holds, Reserving, R!Reserving

(* A first touch that races others never costs a player a free cell: only  *)
(* a cell that somebody holds is refused, unless its provisioning failed   *)
(* in this very request (ensurePixel, submit).                             *)
THEOREM FreeCellGranted == Spec => FreeCellIsGranted
<1> DEFINE Justified == \A r \in Requests : Refused(r) \/ Missing(r) =>
                            r \in failed \/ \E id \in ClaimIds : Holds(id, cell[r])
<1>1. Inv => Justified
  <2> SUFFICES ASSUME Inv, NEW r \in Requests, Refused(r) \/ Missing(r), r \notin failed
               PROVE  \E id \in ClaimIds : Holds(id, cell[r])
    OBVIOUS
  <2>1. cell[r] \in funded
    BY DEF Inv, TouchIsSo, Refused, Missing
  <2>2. Reachable(cell[r])
    BY <2>1 DEF Inv, DatabaseInv, PoolComesFirst, Reachable
  <2>3. ~HasUnit(cell[r])
    BY <2>2 DEF Refused, Missing
  <2> QED BY <2>1, <2>3, WithoutUnitIsHeld DEF Inv
<1>2. Inv /\ [Next]_vars => [Justified]_vars
  BY <1>1
<1> HIDE DEF Justified
<1>3. Spec => [][Justified]_vars
  BY <1>2, Invariance, PTL DEF Spec
<1> QED BY <1>3 DEF FreeCellIsGranted, Justified

====
