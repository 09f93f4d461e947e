---- MODULE Provision ----
(***************************************************************************)
(* How cells come by their account and their one unit: the server's eager  *)
(* InitAllPixels, the first-touch path of Claim when -eager is off, and    *)
(* the direct-mode bots that provision for themselves, all against one     *)
(* TigerBeetle, with lost answers and processes that die half way.         *)
(*                                                                         *)
(* ClaimService and the other modules start from funded cells; Ready below *)
(* shows that what happens here is what that ledger allows.  The lock      *)
(* table that gates Claim is ClaimService's; here a claim is what          *)
(* TigerBeetle makes of it.  Cells are numbered in scanline order.         *)
(***************************************************************************)
EXTENDS Ledger, FiniteSets

CONSTANTS
    Requests,       \* goroutines that serve a claim
    Drawings,       \* the drawings the bot may be given, as sets of cells
    BatchSize,      \* batchSize, one less than an account request can hold
    MaxErrors,      \* bound: client errors
    MaxDeaths       \* bound: processes that die

Count == Cardinality(Pixels)

ASSUME ProvisionAssumption ==
    /\ IsFiniteSet(Pixels) /\ Pixels = 0..Count - 1
    /\ Drawings \subseteq SUBSET Pixels
    /\ BatchSize \in Nat \ {0}
    /\ MaxErrors \in Nat /\ MaxDeaths \in Nat

(* The game server and a bot in direct mode.                               *)
Processes == {"server", "bot"}

VARIABLES
    pool,       \* the system pool's account exists
    exists,     \* cells whose account exists
    funded,     \* cells whose fund transfer (FundID) exists
    phase,      \* process -> how far it is
    next,       \* process -> the first cell of its next batch
    drawing,    \* the bot's drawing, or None in load mode
    sysDone,    \* s.sysOnce has run
    created,    \* s.created
    allCreated, \* s.allCreated
    pc,         \* request -> what it does next
    cell,       \* request -> the cell it claims
    failed,     \* requests whose own provisioning of that cell failed
    errors,     \* client errors so far
    deaths      \* deaths so far

database == <<ledgerVars, pool, exists, funded>>
progress == <<phase, next, drawing>>
memory == <<sysDone, created, allCreated>>
serving == <<pc, cell, failed>>
vars == <<database, progress, memory, serving, errors, deaths>>

Phases == {"off", "pool", "accounts", "funds", "ready"}
Places == {"idle", "pool", "check", "create", "fund", "mark", "submit"}

TypeOK ==
    /\ LedgerTypeOK
    /\ pool \in BOOLEAN
    /\ exists \subseteq Pixels /\ funded \subseteq exists
    /\ phase \in [Processes -> Phases]
    /\ next \in [Processes -> 0..Count]
    /\ drawing \in Drawings \cup {None}
    /\ sysDone \in BOOLEAN /\ allCreated \in BOOLEAN
    /\ created \subseteq Pixels
    /\ pc \in [Requests -> Places]
    /\ cell \in [Requests -> Pixels \cup {None}]
    /\ failed \subseteq Requests
    /\ errors \in 0..MaxErrors /\ deaths \in 0..MaxDeaths

(* A new database: no account at all.                                      *)
Init ==
    /\ meta = [id \in ClaimIds |-> NoMeta]
    /\ status = [id \in ClaimIds |-> "absent"]
    /\ acct = [p \in Pixels |-> [pending |-> 0, debits |-> 0, credits |-> 0]]
    /\ standing = [p \in Pixels |-> None]
    /\ pool = FALSE /\ exists = {} /\ funded = {}
    /\ phase = [s \in Processes |-> "off"]
    /\ next = [s \in Processes |-> 0]
    /\ drawing \in Drawings \cup {None}
    /\ sysDone = FALSE /\ created = {} /\ allCreated = FALSE
    /\ pc = [r \in Requests |-> "idle"]
    /\ cell = [r \in Requests |-> None]
    /\ failed = {}
    /\ errors = 0 /\ deaths = 0

(***************************************************************************)
(* Requests to TigerBeetle.                                                *)
(***************************************************************************)
Answered == UNCHANGED errors
ClientError == errors < MaxErrors /\ errors' = errors + 1
Unsent == UNCHANGED database

(* Mutated form of CreateAccounts: only the pool is asked for.             *)
CreatePoolOnly(withPool, ps) ==
    /\ pool' = (pool \/ withPool)
    /\ UNCHANGED <<ledgerVars, exists, funded>>

(* createAccounts: existing accounts are left as they are.                 *)
CreateAccounts(withPool, ps) ==
    /\ pool' = (pool \/ withPool)
    /\ exists' = exists \cup ps
    /\ UNCHANGED <<ledgerVars, funded>>

(* Mutated form of FundCells: an id of its own for every fund transfer.    *)
FundCellsAnew(ps) ==
    /\ acct' = [p \in Pixels |-> IF p \in ps THEN [acct[p] EXCEPT !.credits = @ + 1]
                                 ELSE acct[p]]
    /\ funded' = funded \cup ps
    /\ UNCHANGED <<meta, status, standing, pool, exists>>

(* Fund transfers: a cell's FundID is accepted once.                       *)
FundCells(ps) ==
    /\ acct' = [p \in Pixels |-> IF p \in ps \ funded THEN [acct[p] EXCEPT !.credits = @ + 1]
                                 ELSE acct[p]]
    /\ funded' = funded \cup ps
    /\ UNCHANGED <<meta, status, standing, pool, exists>>

(***************************************************************************)
(* EnsureAllPixels, by the server at boot and by the load bot: the pool,   *)
(* then every account, then every fund transfer, BatchSize at a time.      *)
(***************************************************************************)
Batch(s) == {p \in Pixels : next[s] <= p /\ p < next[s] + BatchSize}
After(s) == IF next[s] + BatchSize < Count THEN next[s] + BatchSize ELSE Count

Enter(s, ph, i) ==
    /\ phase' = [phase EXCEPT ![s] = ph]
    /\ next' = [next EXCEPT ![s] = i]
    /\ UNCHANGED drawing

(* An error ends the process: the server's main exits, the bot's Run       *)
(* returns.                                                                *)
Dies(s) == Enter(s, "off", 0)

Sweeps(s) == s = "server" \/ drawing = None

(* -eager chooses the server's first phase; a bot provisions always.       *)
Boot(s) ==
    /\ phase[s] = "off"
    /\ \/ Sweeps(s) /\ Enter(s, "pool", 0)
       \/ s = "server" /\ Enter(s, "ready", 0)
       \/ ~Sweeps(s) /\ Enter(s, "accounts", 0)
    /\ UNCHANGED <<database, memory, serving, errors, deaths>>

SweepPool(s) ==
    /\ Sweeps(s) /\ phase[s] = "pool"
    /\ \/ Answered /\ CreateAccounts(TRUE, {}) /\ Enter(s, "accounts", 0)
       \/ ClientError /\ Dies(s) /\ (CreateAccounts(TRUE, {}) \/ Unsent)
    /\ UNCHANGED <<memory, serving, deaths>>

SweepAccounts(s) ==
    /\ Sweeps(s) /\ phase[s] = "accounts"
    /\ \/ /\ Answered
          /\ CreateAccounts(FALSE, Batch(s))
          /\ IF After(s) = Count THEN Enter(s, "funds", 0) ELSE Enter(s, "accounts", After(s))
       \/ ClientError /\ Dies(s) /\ (CreateAccounts(FALSE, Batch(s)) \/ Unsent)
    /\ UNCHANGED <<memory, serving, deaths>>

(* Mutated form of SweepFunds: the last, shorter batch is not sent.        *)
SweepFundsFullOnly(s) ==
    /\ Sweeps(s) /\ phase[s] = "funds"
    /\ Answered
    /\ IF next[s] + BatchSize <= Count THEN FundCells(Batch(s)) ELSE Unsent
    /\ IF After(s) = Count
       THEN Enter(s, "ready", 0) /\ allCreated' = (allCreated \/ s = "server")
       ELSE Enter(s, "funds", After(s)) /\ UNCHANGED allCreated
    /\ UNCHANGED <<sysDone, created, serving, deaths>>

(* InitAllPixels notes the end of the server's sweep; nothing is served    *)
(* before.                                                                 *)
SweepFunds(s) ==
    /\ Sweeps(s) /\ phase[s] = "funds"
    /\ \/ /\ Answered
          /\ FundCells(Batch(s))
          /\ IF After(s) = Count
             THEN Enter(s, "ready", 0) /\ allCreated' = (allCreated \/ s = "server")
             ELSE Enter(s, "funds", After(s)) /\ UNCHANGED allCreated
       \/ ClientError /\ Dies(s) /\ (FundCells(Batch(s)) \/ Unsent) /\ UNCHANGED allCreated
    /\ UNCHANGED <<sysDone, created, serving, deaths>>

(***************************************************************************)
(* The paint bot: the pool and all of the drawing's accounts in a single   *)
(* request, which fails when they are too many for one, then the fund      *)
(* transfers one by one.                                                   *)
(***************************************************************************)
TooMany == Cardinality(drawing) + 1 > BatchSize + 1

PaintAccounts ==
    /\ ~Sweeps("bot") /\ phase["bot"] = "accounts"
    /\ \/ Answered /\ TooMany /\ Dies("bot") /\ Unsent
       \/ Answered /\ ~TooMany /\ CreateAccounts(TRUE, drawing) /\ Enter("bot", "funds", 0)
       \/ ~TooMany /\ ClientError /\ Dies("bot") /\ (CreateAccounts(TRUE, drawing) \/ Unsent)
    /\ UNCHANGED <<memory, serving, deaths>>

Unfunded == {p \in drawing : next["bot"] <= p}
First == CHOOSE p \in Unfunded : \A q \in Unfunded : p <= q

PaintFund ==
    /\ ~Sweeps("bot") /\ phase["bot"] = "funds"
    /\ IF Unfunded = {}
       THEN Answered /\ Enter("bot", "ready", 0) /\ Unsent
       ELSE \/ Answered /\ FundCells({First}) /\ Enter("bot", "funds", First + 1)
            \/ ClientError /\ Dies("bot") /\ (FundCells({First}) \/ Unsent)
    /\ UNCHANGED <<memory, serving, deaths>>

(***************************************************************************)
(* A claim's first touch: ensureSystemPool, ensurePixel, submit.           *)
(***************************************************************************)
Goto(r, place) == pc' = [pc EXCEPT ![r] = place]
Finish(r) ==
    /\ Goto(r, "idle")
    /\ cell' = [cell EXCEPT ![r] = None]
    /\ failed' = failed \ {r}

ClaimArrives(r, p) ==
    /\ phase["server"] = "ready"
    /\ pc[r] = "idle"
    /\ Goto(r, IF sysDone THEN "check" ELSE "pool")
    /\ cell' = [cell EXCEPT ![r] = p]
    /\ UNCHANGED <<database, progress, memory, failed, errors, deaths>>

(* sync.Once: the first request goes to TigerBeetle, the others wait for   *)
(* it; an error is logged and the pool is not tried again here.            *)
EnsureSystemPool(r) ==
    /\ pc[r] = "pool"
    /\ sysDone' = TRUE
    /\ \/ Answered /\ (IF sysDone THEN Unsent ELSE CreateAccounts(TRUE, {}))
       \/ ~sysDone /\ ClientError /\ (CreateAccounts(TRUE, {}) \/ Unsent)
    /\ Goto(r, "check")
    /\ UNCHANGED <<progress, created, allCreated, cell, failed, deaths>>

(* Mutated form of CheckCreated: the cell is marked before it is created.  *)
CheckAndMark(r) ==
    /\ pc[r] = "check"
    /\ Goto(r, IF allCreated \/ cell[r] \in created THEN "submit" ELSE "create")
    /\ created' = created \cup {cell[r]}
    /\ UNCHANGED <<database, progress, sysDone, allCreated, cell, failed, errors, deaths>>

(* The check under s.mu; what follows runs without it.                     *)
CheckCreated(r) ==
    /\ pc[r] = "check"
    /\ Goto(r, IF allCreated \/ cell[r] \in created THEN "submit" ELSE "create")
    /\ UNCHANGED <<database, progress, memory, cell, failed, errors, deaths>>

(* An error is logged, and Claim goes on with what there is.               *)
GiveUp(r) == Goto(r, "submit") /\ failed' = failed \cup {r}

CreateCell(r) ==
    /\ pc[r] = "create"
    /\ \/ Answered /\ CreateAccounts(TRUE, {cell[r]}) /\ Goto(r, "fund") /\ UNCHANGED failed
       \/ ClientError /\ (CreateAccounts(TRUE, {cell[r]}) \/ Unsent) /\ GiveUp(r)
    /\ UNCHANGED <<progress, memory, cell, deaths>>

FundCell(r) ==
    /\ pc[r] = "fund"
    /\ \/ Answered /\ FundCells({cell[r]}) /\ Goto(r, "mark") /\ UNCHANGED failed
       \/ ClientError /\ (FundCells({cell[r]}) \/ Unsent) /\ GiveUp(r)
    /\ UNCHANGED <<progress, memory, cell, deaths>>

MarkCreated(r) ==
    /\ pc[r] = "mark"
    /\ created' = created \cup {cell[r]}
    /\ Goto(r, "submit")
    /\ UNCHANGED <<database, progress, sysDone, allCreated, cell, failed, errors, deaths>>

Reachable(p) == pool /\ p \in exists

Granted(r, pl, id) ==
    /\ pc[r] = "submit"
    /\ Reachable(cell[r])
    /\ BuildAndCreate(id, cell[r], pl)
    /\ Answered \/ ClientError
    /\ Finish(r)
    /\ UNCHANGED <<pool, exists, funded, progress, memory, deaths>>

(* exceeds_credits: the player reads "locked by another player".           *)
Refused(r) ==
    /\ pc[r] = "submit"
    /\ Reachable(cell[r]) /\ ~HasUnit(cell[r])
    /\ Finish(r)
    /\ UNCHANGED <<database, progress, memory, errors, deaths>>

(* An unknown account, or a request that did not get through.              *)
Missing(r) ==
    /\ pc[r] = "submit"
    /\ ~Reachable(cell[r])
    /\ Finish(r)
    /\ UNCHANGED <<database, progress, memory, errors, deaths>>

Unanswered(r) ==
    /\ pc[r] = "submit"
    /\ ClientError
    /\ Finish(r)
    /\ UNCHANGED <<database, progress, memory, deaths>>

(***************************************************************************)
(* The bots' own claims, what becomes of any claim, and dying processes.   *)
(***************************************************************************)
Territory == IF drawing = None THEN Pixels ELSE drawing

BotClaims(p, pl, id) ==
    /\ phase["bot"] = "ready"
    /\ p \in Territory
    /\ BuildAndCreate(id, p, pl)
    /\ UNCHANGED <<pool, exists, funded, progress, memory, serving, errors, deaths>>

Resolves(id) ==
    /\ PostAndRefund(id) \/ VoidPending(id) \/ Timeout(id) \/ Release(id)
    /\ UNCHANGED <<pool, exists, funded, progress, memory, serving, errors, deaths>>

Death(s) ==
    /\ deaths < MaxDeaths
    /\ deaths' = deaths + 1
    /\ phase[s] # "off"
    /\ Dies(s)
    /\ IF s = "server"
       THEN /\ sysDone' = FALSE /\ created' = {} /\ allCreated' = FALSE
            /\ pc' = [r \in Requests |-> "idle"]
            /\ cell' = [r \in Requests |-> None]
            /\ failed' = {}
       ELSE UNCHANGED <<memory, serving>>
    /\ UNCHANGED <<database, errors>>

RequestStep(r) ==
    \/ EnsureSystemPool(r) \/ CheckCreated(r) \/ CreateCell(r) \/ FundCell(r) \/ MarkCreated(r)
    \/ \E pl \in Players, id \in ClaimIds : Granted(r, pl, id)
    \/ Refused(r) \/ Missing(r) \/ Unanswered(r)

Next ==
    \/ \E s \in Processes : Boot(s) \/ SweepPool(s) \/ SweepAccounts(s) \/ SweepFunds(s) \/ Death(s)
    \/ PaintAccounts \/ PaintFund
    \/ \E r \in Requests : (\E p \in Pixels : ClaimArrives(r, p)) \/ RequestStep(r)
    \/ \E p \in Pixels, pl \in Players, id \in ClaimIds : BotClaims(p, pl, id)
    \/ \E id \in ClaimIds : Resolves(id)

Spec == Init /\ [][Next]_vars

(***************************************************************************)
(* Properties.                                                             *)
(***************************************************************************)
(* Seen through the cells that are funded by now, the others counted as    *)
(* still holding the unit they are to get, the database behaves as the     *)
(* ledger of ready cells that every other module starts from: no mix of    *)
(* sweeps, first touches, lost answers and restarts gives a cell a second  *)
(* unit or takes a claim on a cell that has none (ensurePixel, FundID).    *)
Ready == INSTANCE Ledger WITH
    acct <- [p \in Pixels |-> IF p \in funded THEN acct[p]
                              ELSE [pending |-> 0, debits |-> 0, credits |-> 1]]
ReadyLedger == Ready!LedgerInit /\ [][Ready!LedgerMove]_(Ready!ledgerVars)

(* Whoever has come through its provisioning finds every cell it may claim *)
(* funded, whatever failed or died meanwhile in the other; and what the    *)
(* server remembers as created is created (InitAllPixels, s.created).      *)
ReadyIsFunded ==
    /\ phase["bot"] = "ready" => Territory \subseteq funded
    /\ allCreated => Pixels \subseteq funded
    /\ created \subseteq funded

(* A player reads "locked by another player", or an error about a missing  *)
(* account, only for a cell that somebody holds, unless provisioning that  *)
(* cell failed in this very request (ensurePixel only logs its errors): a  *)
(* first touch that races others never costs a player a free cell.         *)
FreeCellIsGranted ==
    [][\A r \in Requests : Refused(r) \/ Missing(r) =>
          r \in failed \/ \E id \in ClaimIds : Holds(id, cell[r])]_vars
====
