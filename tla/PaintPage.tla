---- MODULE PaintPage ----
(***************************************************************************)
(* The paint view of one browser (internal/web/static/app.js) against the  *)
(* claim endpoints (internal/web/server.go): clicks that arm a cell, paint *)
(* it or give it up, the requests they send, answers that come back in any *)
(* order or not at all, the stream of lock events, the fallback timer, and *)
(* the identity cookie that a first request brings back.                   *)
(*                                                                         *)
(* A request is served in one step here: how requests interleave inside    *)
(* the service is ClaimService's subject, and how the hub carries its      *)
(* events, drops and joins them, HubViewer's.  The armed cell is           *)
(* CellOf(armed): pendingCell and currentClaimId are always set together.  *)
(***************************************************************************)
EXTENDS Integers, Sequences, FiniteSets

CONSTANTS
    Cells,
    MaxClaims,      \* bound: claims the server grants this browser
    MaxActs,        \* bound: clicks, colour choices and Escapes
    MaxOpen,        \* bound: requests under way at one time
    MaxFaults,      \* bound: failing requests, lost answers, broken streams
    MaxRivals,      \* bound: cells taken by another player
    NoCell

ASSUME PageAssumption ==
    /\ MaxClaims \in Nat /\ MaxActs \in Nat /\ MaxOpen \in Nat
    /\ MaxFaults \in Nat /\ MaxRivals \in Nat
    /\ NoCell \notin Cells

VARIABLES
    \* the server
    claim,      \* id -> the granted claim, ids in the order they were minted
    minted,     \* how many identities playerFromCookie has minted
    rival,      \* cells locked for another player
    rivals,     \* how often that happened
    announced,  \* cells locked, going by the lock events sent so far
    stream,     \* lock events sent and not yet processed by the page
    \* the page
    cookie,     \* its identity, 0 before the first answer
    armed,      \* currentClaimId
    boxes,      \* lockSet
    timers,     \* claims whose fallback timer runs
    net,        \* requests under way
    acts, faults,
    \* observed
    lastArmed,  \* the newest claim the page has been told of
    astray,     \* whether an answer overtook another or was lost
    late        \* boxes drawn by an answer that came after the claim's end

server == <<claim, minted, rival, rivals>>
events == <<announced, stream>>
tab == <<cookie, armed, boxes, timers>>
observed == <<lastArmed, astray, late>>
paintVars == <<server, events, tab, net, acts, faults, observed>>

OwnClaims == 1..MaxClaims
Identities == 0..MaxActs
NoClaim == [cell |-> NoCell, owner |-> 0, state |-> "absent"]

(* "overdue": the window has passed, so TigerBeetle answers a confirm with *)
(* "expired"; "ousted": overdue, and another player holds the lock.        *)
Registered == {"active", "overdue", "ousted"}
States == Registered \cup {"absent", "posted", "cancelled", "superseded", "expired"}

CellOf(id) == claim[id].cell
Is(id, sts) == claim[id].state \in sts
Granted == {id \in OwnClaims : ~Is(id, {"absent"})}
Recorded(pl) == {id \in OwnClaims : claim[id].owner = pl /\ Is(id, Registered)}
Locked == rival \cup {CellOf(id) : id \in {i \in OwnClaims : Is(i, {"active", "overdue"})}}

Messages == [n : 1..MaxActs, path : {"/claim", "/confirm", "/cancel"},
             cell : Cells \cup {NoCell}, id : 0..MaxClaims, who : Identities,
             minted : BOOLEAN, answer : {"none", "ok", "error"}]

PaintTypeOK ==
    /\ claim \in [OwnClaims -> [cell : Cells \cup {NoCell}, owner : Identities, state : States]]
    /\ minted \in Identities /\ cookie \in 0..minted
    /\ rival \subseteq Cells /\ announced \subseteq Cells /\ boxes \subseteq Cells
    /\ late \subseteq boxes
    /\ \A i \in 1..Len(stream) : stream[i] \in [op : {"add", "remove"}, cell : Cells]
    /\ armed \in 0..MaxClaims /\ (armed # 0 => armed \in Granted)
    /\ timers \subseteq Granted
    /\ net \subseteq Messages /\ Cardinality(net) <= MaxOpen
    /\ acts \in 0..MaxActs /\ faults \in 0..MaxFaults /\ rivals \in 0..MaxRivals
    /\ lastArmed \in 0..MaxClaims /\ astray \in BOOLEAN

PaintInit ==
    /\ claim = [id \in OwnClaims |-> NoClaim]
    /\ minted = 0 /\ cookie = 0
    /\ rival = {} /\ announced = {} /\ boxes = {} /\ late = {}
    /\ stream = <<>> /\ net = {}
    /\ armed = 0 /\ lastArmed = 0 /\ timers = {}
    /\ acts = 0 /\ faults = 0 /\ rivals = 0
    /\ astray = FALSE

(***************************************************************************)
(* The user.                                                               *)
(***************************************************************************)
Send(path, c, id) ==
    /\ acts < MaxActs /\ Cardinality(net) < MaxOpen
    /\ acts' = acts + 1
    /\ net' = net \cup {[n |-> acts + 1, path |-> path, cell |-> c, id |-> id,
                         who |-> cookie, minted |-> FALSE, answer |-> "none"]}
    /\ UNCHANGED <<server, events, cookie, boxes, timers, faults, observed>>

(* onCanvasClick and selectColor: any cell but the armed one, or the armed *)
(* one again in another colour.                                            *)
SendClaim(c) == Send("/claim", c, 0) /\ UNCHANGED armed

(* Mutated form of Resolve: the claim stays armed until the answer.        *)
ResolveKeepsArmed(path) ==
    /\ armed # 0
    /\ Send(path, NoCell, armed)
    /\ UNCHANGED armed

(* resolveClaim disarms before it asks.                                    *)
Resolve(path) ==
    /\ armed # 0
    /\ Send(path, NoCell, armed)
    /\ armed' = 0

ClickArmed == Resolve("/confirm")
Escape == Resolve("/cancel")

(***************************************************************************)
(* The server.                                                             *)
(***************************************************************************)
Announce(es) ==
    /\ stream' = stream \o es
    /\ announced' = {c \in Cells :
          LET of == {i \in 1..Len(es) : es[i].cell = c}
              last == CHOOSE i \in of : \A j \in of : j <= i
          IN IF of = {} THEN c \in announced ELSE es[last].op = "add"}

Add(c) == [op |-> "add", cell |-> c]
Remove(c) == [op |-> "remove", cell |-> c]

(* playerFromCookie: a request without a cookie is a new player's, and its *)
(* answer, whatever it says, sets the cookie.                              *)
Player(m) == IF m.who = 0 THEN minted + 1 ELSE m.who
Reply(m, a, id) ==
    /\ net' = (net \ {m}) \cup
               {[m EXCEPT !.answer = a, !.who = Player(m), !.minted = (m.who = 0), !.id = id]}
    /\ minted' = IF m.who = 0 THEN minted + 1 ELSE minted
Answer(m, a) == Reply(m, a, m.id)

Unserved(m, path) == m \in net /\ m.answer = "none" /\ m.path = path

(* A cell is refused while an unexpired lock of another player stands, or  *)
(* while a pending transfer, the player's own included, has its unit.      *)
Taken(c) == c \in rival \/ \E id \in OwnClaims : CellOf(id) = c /\ Is(id, {"active"})

(* Claim: the player's recorded claim is superseded, on whatever cell.     *)
GrantClaim(m) ==
    LET old == Recorded(Player(m))
        id == Cardinality(Granted) + 1
    IN
    /\ Unserved(m, "/claim")
    /\ ~Taken(m.cell) /\ id \in OwnClaims
    /\ claim' = [i \in OwnClaims |->
          IF i = id THEN [cell |-> m.cell, owner |-> Player(m), state |-> "active"]
          ELSE IF i \in old THEN [claim[i] EXCEPT !.state = "superseded"]
          ELSE IF CellOf(i) = m.cell /\ Is(i, {"overdue"}) THEN [claim[i] EXCEPT !.state = "ousted"]
          ELSE claim[i]]
    /\ Announce((IF old = {} THEN <<>> ELSE <<Remove(CellOf(CHOOSE i \in old : TRUE))>>)
                \o <<Add(m.cell)>>)
    /\ Reply(m, "ok", id)
    /\ UNCHANGED <<rival, rivals, tab, acts, faults, observed>>

(* 409: also for an overdue claim whose reservation TigerBeetle has not    *)
(* released yet.                                                           *)
RefuseClaim(m) ==
    /\ Unserved(m, "/claim")
    /\ Taken(m.cell) \/ \E id \in OwnClaims : CellOf(id) = m.cell /\ Is(id, {"overdue"})
    /\ Answer(m, "error")
    /\ UNCHANGED <<claim, rival, rivals, events, tab, acts, faults, observed>>

ServeConfirm(m) ==
    /\ Unserved(m, "/confirm")
    /\ IF m.id \in Recorded(Player(m)) /\ Is(m.id, {"active"})
       THEN /\ claim' = [claim EXCEPT ![m.id].state = "posted"]
            /\ Announce(<<Remove(CellOf(m.id))>>)
            /\ Answer(m, "ok")
       ELSE Answer(m, "error") /\ UNCHANGED <<claim, events>>
    /\ UNCHANGED <<rival, rivals, tab, acts, faults, observed>>

ServeCancel(m) ==
    /\ Unserved(m, "/cancel")
    /\ IF m.id \in Recorded(Player(m)) /\ Is(m.id, {"active"})
       THEN /\ claim' = [claim EXCEPT ![m.id].state = "cancelled"]
            /\ Announce(<<Remove(CellOf(m.id))>>)
            /\ Answer(m, "ok")
       ELSE Answer(m, "error") /\ UNCHANGED <<claim, events>>
    /\ UNCHANGED <<rival, rivals, tab, acts, faults, observed>>

(* A TigerBeetle error, answered with 500: everything is as it was.        *)
Fault == faults < MaxFaults /\ faults' = faults + 1
ServeError(m) ==
    /\ m \in net /\ m.answer = "none"
    /\ Fault
    /\ Answer(m, "error")
    /\ UNCHANGED <<claim, rival, rivals, events, tab, acts, observed>>

(* The claim's window passes; the reaper comes by later.                   *)
WindowPasses(id) ==
    /\ Is(id, {"active"})
    /\ claim' = [claim EXCEPT ![id].state = "overdue"]
    /\ UNCHANGED <<minted, rival, rivals, events, tab, net, acts, faults, observed>>

Reap(id) ==
    /\ Is(id, {"overdue"})
    /\ claim' = [claim EXCEPT ![id].state = "expired"]
    /\ Announce(<<Remove(CellOf(id))>>)
    /\ UNCHANGED <<minted, rival, rivals, tab, net, acts, faults, observed>>

(* Another player locks a cell, over an overdue lock too, and lets it go.  *)
RivalLocks(c) ==
    /\ rivals < MaxRivals
    /\ ~Taken(c)
    /\ rivals' = rivals + 1
    /\ rival' = rival \cup {c}
    /\ claim' = [i \in OwnClaims |-> IF CellOf(i) = c /\ Is(i, {"overdue"})
                                    THEN [claim[i] EXCEPT !.state = "ousted"] ELSE claim[i]]
    /\ Announce(<<Add(c)>>)
    /\ UNCHANGED <<minted, tab, net, acts, faults, observed>>

RivalLeaves(c) ==
    /\ c \in rival
    /\ rival' = rival \ {c}
    /\ Announce(<<Remove(c)>>)
    /\ UNCHANGED <<claim, minted, rivals, tab, net, acts, faults, observed>>

(***************************************************************************)
(* What reaches the page.                                                  *)
(***************************************************************************)
Answered(m, path, a) == m \in net /\ m.path = path /\ m.answer = a

(* A second first request's cookie overwrites the first's.                 *)
TakeAnswer(m) ==
    /\ net' = net \ {m}
    /\ cookie' = IF m.minted THEN m.who ELSE cookie

(* Mutated form of ClaimGranted: no timer for a claim that replaces an     *)
(* armed one.                                                              *)
ClaimGrantedQuietly(m) ==
    /\ Answered(m, "/claim", "ok")
    /\ TakeAnswer(m)
    /\ armed' = m.id
    /\ boxes' = boxes \cup {m.cell}
    /\ timers' = IF armed = 0 THEN timers \cup {m.id} ELSE timers
    /\ astray' = (astray \/ m.id < lastArmed)
    /\ lastArmed' = m.id
    /\ late' = IF m.cell \in announced THEN late ELSE late \cup {m.cell}
    /\ UNCHANGED <<server, events, acts, faults>>

(* The claim is armed and its box drawn without waiting for the event.     *)
ClaimGranted(m) ==
    /\ Answered(m, "/claim", "ok")
    /\ TakeAnswer(m)
    /\ armed' = m.id
    /\ boxes' = boxes \cup {m.cell}
    /\ timers' = timers \cup {m.id}
    /\ astray' = (astray \/ m.id < lastArmed)
    /\ lastArmed' = m.id
    /\ late' = IF m.cell \in announced THEN late ELSE late \cup {m.cell}
    /\ UNCHANGED <<server, events, acts, faults>>

(* Any other answer is only a toast.                                       *)
OtherAnswer(m) ==
    /\ m \in net /\ (m.answer = "error" \/ (m.answer = "ok" /\ m.path # "/claim"))
    /\ TakeAnswer(m)
    /\ UNCHANGED <<server, events, armed, boxes, timers, acts, faults, observed>>

(* fetch fails, before the server has seen the request or after.           *)
AnswerLost(m) ==
    /\ m \in net
    /\ Fault
    /\ net' = net \ {m}
    /\ astray' = (astray \/ m.answer = "ok")
    /\ UNCHANGED <<server, events, tab, acts, lastArmed, late>>

(* clearHud: only the claim it was called for is disarmed.                 *)
ClearHud(id) == armed' = IF armed = id THEN 0 ELSE armed

(* Mutated form of StreamDelivers: an unlock leaves the box.               *)
UnlockLeavesBox ==
    LET e == Head(stream) IN
    /\ stream # <<>>
    /\ stream' = Tail(stream)
    /\ boxes' = IF e.op = "add" THEN boxes \cup {e.cell} ELSE boxes
    /\ late' = late \ {e.cell}
    /\ IF e.op = "remove" /\ armed # 0 /\ CellOf(armed) = e.cell
       THEN ClearHud(armed) ELSE UNCHANGED armed
    /\ UNCHANGED <<server, announced, cookie, timers, net, acts, faults, lastArmed, astray>>

(* pb.render, one event at a time.  An unlock of the armed cell disarms    *)
(* it, whichever claim it was for.                                         *)
StreamDelivers ==
    LET e == Head(stream) IN
    /\ stream # <<>>
    /\ stream' = Tail(stream)
    /\ boxes' = IF e.op = "add" THEN boxes \cup {e.cell} ELSE boxes \ {e.cell}
    /\ late' = late \ {e.cell}
    /\ IF e.op = "remove" /\ armed # 0 /\ CellOf(armed) = e.cell
       THEN ClearHud(armed) ELSE UNCHANGED armed
    /\ UNCHANGED <<server, announced, cookie, timers, net, acts, faults, lastArmed, astray>>

(* The stream breaks and the snapshot's locks replace the boxes.           *)
StreamBreaks ==
    /\ Fault
    /\ stream' = <<>>
    /\ boxes' = Locked /\ announced' = Locked
    /\ late' = {}
    /\ UNCHANGED <<server, cookie, armed, timers, net, acts, lastArmed, astray>>

(* 3.2 seconds after the answer, so the claim's window has passed.         *)
TimerFires(id) ==
    /\ id \in timers /\ ~Is(id, {"active"})
    /\ timers' = timers \ {id}
    /\ ClearHud(id)
    /\ UNCHANGED <<server, events, cookie, boxes, net, acts, faults, observed>>

User == (\E c \in Cells : SendClaim(c)) \/ ClickArmed \/ Escape

Served(m) == GrantClaim(m) \/ RefuseClaim(m) \/ ServeConfirm(m) \/ ServeCancel(m) \/ ServeError(m)
Received(m) == ClaimGranted(m) \/ OtherAnswer(m)

PaintNext ==
    \/ User
    \/ \E m \in net : Served(m) \/ Received(m) \/ AnswerLost(m)
    \/ \E id \in OwnClaims : WindowPasses(id) \/ Reap(id) \/ TimerFires(id)
    \/ \E c \in Cells : RivalLocks(c) \/ RivalLeaves(c)
    \/ StreamDelivers \/ StreamBreaks

(* Requests are served and answers arrive, windows pass, timers fire and   *)
(* events are delivered: of these something happens while anything can.    *)
(* Nothing obliges the user, the reaper or the other player.               *)
PaintFairness == WF_paintVars(
    \/ \E m \in net : Served(m) \/ Received(m)
    \/ \E id \in OwnClaims : WindowPasses(id) \/ TimerFires(id)
    \/ StreamDelivers)

(***************************************************************************)
(* Properties.                                                             *)
(***************************************************************************)
(* What the page offers to paint is never a claim the server has already   *)
(* superseded, painted or given up, once its requests are answered: two    *)
(* clicks in quick succession, a new colour for the armed cell, an expiry  *)
(* in between leave the HUD on the claim granted last, and in the name of  *)
(* the identity the page then has, unless two first requests were given    *)
(* one each.  It takes an answer that overtakes a later one, or a lost     *)
(* answer, for a click to be spent on a dead claim (clearHud, claim).      *)
ArmedIsStanding ==
    net = {} /\ ~astray /\ armed # 0 =>
        /\ ~Is(armed, {"superseded", "posted", "cancelled"})
        /\ minted <= 1 => claim[armed].owner = cookie

(* When the page has caught up, its lock boxes are the locks that were     *)
(* announced, but for a box that its own claim's answer drew after the     *)
(* claim's end: nothing takes that one away until the cell is locked and   *)
(* freed again or the stream reconnects (lockSet.add in claim; the         *)
(* fallback timer leaves the box).                                         *)
BoxesAreAnnounced == stream = <<>> => boxes \ late = announced \ late /\ late \cap announced = {}

(* A claim never stays armed: it is painted, given up, or the page lets go *)
(* of it by the unlock or, when that is missed or another player has taken *)
(* the cell over, by its own timer (setTimeout in claim).                  *)
Disarms == armed # 0 ~> armed = 0
====
