---- MODULE LoadBot ----
(***************************************************************************)
(* The bot's load mode (internal/bot/bot.go, Run) in direct mode: a pacer  *)
(* hands tokens to agents over an unbuffered channel; an agent claims a    *)
(* cell, thinks, and walks away or confirms, straight in the ledger.  The  *)
(* agents are the ledger's players.  The context may end at any moment,    *)
(* a request may fail before or after it was carried out, and a claim may  *)
(* time out while its agent thinks.                                        *)
(***************************************************************************)
EXTENDS Ledger, FiniteSets

CONSTANTS
    Origin,         \* cell (0,0), which -hotspot cannot name: both zero is unset
    MaxMishaps      \* bound: requests that fail or whose answer is lost

ASSUME LoadAssumption ==
    /\ IsFiniteSet(ClaimIds)
    /\ Origin \in Pixels
    /\ MaxMishaps \in Nat

VARIABLES
    hotspot,
    pacer,          \* the pacer: not started, asleep, offering a token, tokens closed
    over,           \* ctx is done
    agent,          \* agent -> where in its loop it is
    started, confirmed, conflicts, errors,  \* Metrics
    abandoned, cut, \* (only observed) claims walked away from, cut short by ctx
    mishaps

metrics == <<started, confirmed, conflicts, errors, abandoned, cut>>
loadVars == <<ledgerVars, hotspot, pacer, over, agent, metrics, mishaps>>

MaxStarted == Cardinality(ClaimIds)     \* bound: an id for each claim
Counts == 0..MaxStarted

At(step) == [at |-> step]
Agents == {At("waiting"), At("gone")} \cup [at : {"claiming"}, cell : Pixels]
              \cup [at : {"thinking", "confirming"}, id : ClaimIds]

LoadTypeOK ==
    /\ LedgerTypeOK
    /\ hotspot \in Pixels
    /\ pacer \in {"off", "asleep", "offering", "closed"}
    /\ over \in BOOLEAN
    /\ agent \in [Players -> Agents]
    /\ {started, confirmed, conflicts, errors, abandoned, cut} \subseteq Counts
    /\ mishaps \in 0..MaxMishaps

LoadInit ==
    /\ LedgerInit
    /\ hotspot \in Pixels
    /\ pacer = "off" /\ over = FALSE
    /\ agent = [pl \in Players |-> At("waiting")]
    /\ started = 0 /\ confirmed = 0 /\ conflicts = 0 /\ errors = 0
    /\ abandoned = 0 /\ cut = 0 /\ mishaps = 0

(***************************************************************************)
(* The pacer.  A wake-up that the ramp thins out changes nothing.          *)
(***************************************************************************)
RunBegins ==
    /\ pacer = "off"
    /\ pacer' = "asleep"
    /\ UNCHANGED <<ledgerVars, hotspot, over, agent, metrics, mishaps>>

PacerWakes ==
    /\ pacer = "asleep"
    /\ pacer' = IF over THEN "closed" ELSE "offering"
    /\ UNCHANGED <<ledgerVars, hotspot, over, agent, metrics, mishaps>>

PacerStops ==
    /\ pacer = "offering" /\ over
    /\ pacer' = "closed"
    /\ UNCHANGED <<ledgerVars, hotspot, over, agent, metrics, mishaps>>

ContextEnds ==
    /\ ~over /\ pacer # "off"
    /\ over' = TRUE
    /\ UNCHANGED <<ledgerVars, hotspot, pacer, agent, metrics, mishaps>>

(***************************************************************************)
(* An agent.                                                               *)
(***************************************************************************)
Moves(pl, to) == agent' = [agent EXCEPT ![pl] = to]
MovesOn(pl) == Moves(pl, At("waiting"))
AgentIs(pl, step) == agent[pl].at = step

(* All cells, unless they are to fight over one.                           *)
Targets == IF hotspot = Origin THEN Pixels ELSE {hotspot}

(* The token may be handed over although the run has ended (the pacer's    *)
(* select), so the agent looks at ctx again before it counts a claim.      *)
TakeToken(pl) ==
    /\ AgentIs(pl, "waiting") /\ pacer = "offering" /\ started < MaxStarted
    /\ pacer' = "asleep"
    /\ IF over
       THEN Moves(pl, At("gone")) /\ UNCHANGED started
       ELSE /\ started' = started + 1
            /\ \E c \in Targets : Moves(pl, [at |-> "claiming", cell |-> c])
    /\ UNCHANGED <<ledgerVars, hotspot, over, confirmed, conflicts, errors, abandoned, cut, mishaps>>

TokensClosed(pl) ==
    /\ AgentIs(pl, "waiting") /\ pacer = "closed"
    /\ Moves(pl, At("gone"))
    /\ UNCHANGED <<ledgerVars, hotspot, pacer, over, metrics, mishaps>>

NewId == CHOOSE id \in ClaimIds : Fresh(id)
Mishap == mishaps < MaxMishaps /\ mishaps' = mishaps + 1

ClaimCreated(pl) ==
    /\ AgentIs(pl, "claiming")
    /\ BuildAndCreate(NewId, agent[pl].cell, pl)
    /\ Moves(pl, [at |-> "thinking", id |-> NewId])
    /\ UNCHANGED <<hotspot, pacer, over, metrics, mishaps>>

(* ErrPixelLocked, which is not an error but a conflict (recordFailure).   *)
ClaimLocked(pl) ==
    /\ AgentIs(pl, "claiming") /\ ~HasUnit(agent[pl].cell)
    /\ conflicts' = conflicts + 1
    /\ MovesOn(pl)
    /\ UNCHANGED <<ledgerVars, hotspot, pacer, over, started, confirmed, errors, abandoned, cut, mishaps>>

(* The client fails; TigerBeetle may have the claim all the same.          *)
ClaimFails(pl) ==
    /\ AgentIs(pl, "claiming") /\ Mishap
    /\ \/ BuildAndCreate(NewId, agent[pl].cell, pl)
       \/ UNCHANGED ledgerVars
    /\ errors' = errors + 1
    /\ MovesOn(pl)
    /\ UNCHANGED <<hotspot, pacer, over, started, confirmed, conflicts, abandoned, cut>>

(* The context ends the agent, not its claim.                              *)
ThinkCut(pl) ==
    /\ AgentIs(pl, "thinking") /\ over
    /\ cut' = cut + 1
    /\ Moves(pl, At("gone"))
    /\ UNCHANGED <<ledgerVars, hotspot, pacer, over, started, confirmed, conflicts, errors, abandoned, mishaps>>

(* Some claims are walked away from (-abandon).                            *)
Think(pl) ==
    /\ AgentIs(pl, "thinking")
    /\ \/ abandoned' = abandoned + 1 /\ MovesOn(pl)
       \/ Moves(pl, [at |-> "confirming", id |-> agent[pl].id]) /\ UNCHANGED abandoned
    /\ UNCHANGED <<ledgerVars, hotspot, pacer, over, started, confirmed, conflicts, errors, cut, mishaps>>

(* Mutated form of ConfirmedAs: an expired claim counts as confirmed.         *)
ConfirmedLate(id) == IF ConfirmAnswer(id) = "error" THEN "error" ELSE "ok"

ConfirmedAs(id) == ConfirmAnswer(id)

(* Post and re-fund; an answer other than ok is an error.                  *)
ConfirmAnswered(pl) ==
    LET id == agent[pl].id IN
    /\ AgentIs(pl, "confirming")
    /\ SubmitConfirm(id)
    /\ IF ConfirmedAs(id) = "ok"
       THEN confirmed' = confirmed + 1 /\ UNCHANGED errors
       ELSE errors' = errors + 1 /\ UNCHANGED confirmed
    /\ MovesOn(pl)
    /\ UNCHANGED <<hotspot, pacer, over, started, conflicts, abandoned, cut, mishaps>>

ConfirmFails(pl) ==
    /\ AgentIs(pl, "confirming") /\ Mishap
    /\ SubmitConfirm(agent[pl].id) \/ UNCHANGED ledgerVars
    /\ errors' = errors + 1
    /\ MovesOn(pl)
    /\ UNCHANGED <<hotspot, pacer, over, started, confirmed, conflicts, abandoned, cut>>

ClaimSteps(pl) == ClaimCreated(pl) \/ ClaimLocked(pl) \/ ClaimFails(pl)
ConfirmSteps(pl) == ConfirmAnswered(pl) \/ ConfirmFails(pl)
AgentSteps(pl) == TakeToken(pl) \/ TokensClosed(pl) \/ ClaimSteps(pl) \/ ThinkCut(pl) \/ Think(pl) \/ ConfirmSteps(pl)

ClaimEnds(id) == (Timeout(id) \/ Release(id)) /\ UNCHANGED <<hotspot, pacer, over, agent, metrics, mishaps>>

RunGoesOn ==
    \/ PacerWakes \/ PacerStops
    \/ \E pl \in Players : AgentSteps(pl)
    \/ \E id \in ClaimIds : ClaimEnds(id)

LoadNext == RunBegins \/ ContextEnds \/ RunGoesOn

(* The goroutines run, requests are answered or fail, thinking takes at    *)
(* most -think-max, and the database times out what is left: while         *)
(* anything can go on, something does.                                     *)
LoadFairness == WF_loadVars(RunGoesOn)

(***************************************************************************)
(* Properties.                                                             *)
(***************************************************************************)
Busy == {pl \in Players : agent[pl].at \in {"claiming", "thinking", "confirming"}}
PostedClaims == {id \in ClaimIds : status[id] = "posted"}

(* The report accounts for every claim that was started, once, and what it *)
(* calls confirmed is what the ledger has: nothing the ledger did not      *)
(* post, and all it did but for confirms whose answer was lost             *)
(* (ClaimsStarted, recordFailure, Confirmed).                              *)
LoadNumbers ==
    /\ started = confirmed + conflicts + errors + abandoned + cut + Cardinality(Busy)
    /\ Cardinality(PostedClaims) \in confirmed..confirmed + mishaps

(* When the swarm has ended nothing is left behind: whatever its agents    *)
(* walked away from or lost an answer about, the database has taken back,  *)
(* and every cell can be claimed again ("TB auto-expires the pending       *)
(* transfer").                                                             *)
LoadIsOver == (\A pl \in Players : AgentIs(pl, "gone")) /\ (\A p \in Pixels : HasUnit(p))
====
