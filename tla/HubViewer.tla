---- MODULE HubViewer ----
(***************************************************************************)
(* From the service to a screen: the broadcasts of the claim service, one  *)
(* subscriber of the SSE hub (internal/hub/hub.go), the event stream and   *)
(* the paint view that renders it (internal/web/static/app.js, pb.render). *)
(*                                                                         *)
(* The service changes its bitmap and locks under s.mu and broadcasts      *)
(* afterwards, so what it still has to broadcast is state of its own.  The *)
(* stream delivers in order and loses everything when it breaks; the view  *)
(* then connects again, without being loaded again.                        *)
(*                                                                         *)
(* An operation of the service is one step and the broadcasts it owes.     *)
(* Only a Claim has more to it: until its first broadcast the ledger may   *)
(* still refuse it, and the void of the claim it supersedes may fail.      *)
(* Whose lock a lock is, is left open.                                     *)
(***************************************************************************)
EXTENDS Integers, Sequences, FiniteSets

CONSTANTS
    Cells,
    Colors,
    Requests,       \* handlers and CDC deliveries that may be broadcasting
    ChanSize,       \* chanSize
    MaxChanges,     \* bound: changes of the service's state
    MaxBreaks       \* bound: broken streams

ASSUME HubAssumption ==
    /\ IsFiniteSet(Cells) /\ 0 \notin Colors
    /\ ChanSize \in Nat \ {0}
    /\ MaxChanges \in Nat /\ MaxBreaks \in Nat

VARIABLES
    bmp,        \* s.bmp
    locks,      \* cells locked in s.locks
    expired,    \* those whose lock has expired
    outbox,     \* request -> events it still has to broadcast
    undo,       \* request -> what the refusal of its Claim would restore
    changes,
    sub,        \* the subscriber: "none", "registered", "streaming"
    channel,    \* its bounded channel
    deltas, lockAdds, lockRemoves,      \* what the flusher has collected
    wire,       \* patches sent and not yet processed by the view
    breaks,
    live,       \* liveBmp
    lastBmp,    \* the snapshot string applied last
    lastLocks,  \* the lock list of the last snapshot
    lockSet,    \* cells drawn with a lock box
    missed,     \* (only observed) cells an event of which was dropped
    astray,     \* (only observed) cells whose broadcasts are not the changes
    unsaid,     \* (only observed) cells whose lock changed without a word
    crossed,    \* (only observed) cells unlocked and locked in one flush
    kept        \* (only observed) cells where the last snapshot was not applied

service == <<bmp, locks, expired, outbox, undo, changes>>
batch == <<deltas, lockAdds, lockRemoves>>
view == <<live, lastBmp, lastLocks, lockSet, kept>>
vars == <<service, sub, channel, batch, wire, breaks, view, missed, astray, unsaid, crossed>>

Empty == 0
Bytes == Colors \cup {Empty}
Bitmaps == [Cells -> Bytes]
Lock(c) == [kind |-> "lock", cell |-> c]
Unlock(c) == [kind |-> "unlock", cell |-> c]
Paint(c, col) == [kind |-> "paint", cell |-> c, color |-> col]
Events == {Lock(c) : c \in Cells} \cup {Unlock(c) : c \in Cells}
            \cup {Paint(c, col) : c \in Cells, col \in Colors}

(* Of a Claim that may still be refused: the lock it has put away, and     *)
(* whether that one had expired.                                           *)
NoUndo == [open |-> FALSE, back |-> {}, late |-> {}]
Undos == {u \in [open : BOOLEAN, back : SUBSET Cells, late : SUBSET Cells] :
            u.late \subseteq u.back}

Deltas == [cell : Cells, color : Colors]
Snapshots == [kind : {"snapshot"}, bmp : Bitmaps, locks : SUBSET Cells]
Flushes == [kind : {"flush"}, deltas : Seq(Deltas), adds : SUBSET Cells, removes : SUBSET Cells]

TypeOK ==
    /\ bmp \in Bitmaps /\ live \in Bitmaps /\ lastBmp \in Bitmaps
    /\ expired \subseteq locks
    /\ locks \subseteq Cells /\ lastLocks \subseteq Cells /\ lockSet \subseteq Cells
    /\ outbox \in [Requests -> Seq(Events)] /\ undo \in [Requests -> Undos]
    /\ changes \in 0..MaxChanges /\ breaks \in 0..MaxBreaks
    /\ sub \in {"none", "registered", "streaming"}
    /\ channel \in Seq(Events) /\ Len(channel) <= ChanSize
    /\ deltas \in Seq(Deltas)
    /\ lockAdds \subseteq Cells /\ lockRemoves \subseteq Cells
    /\ wire \in Seq(Snapshots \cup Flushes)
    /\ missed \cup astray \cup unsaid \cup crossed \cup kept \subseteq Cells

(* The page has been rendered with the bitmap of that moment, whatever it  *)
(* was; the first effect runs with the signal's empty list of locks, and   *)
(* the first snapshot's list is another one in any case.                   *)
Init ==
    /\ bmp \in Bitmaps /\ locks \in SUBSET Cells /\ expired = {}
    /\ outbox = [r \in Requests |-> <<>>] /\ undo = [r \in Requests |-> NoUndo] /\ changes = 0
    /\ sub = "none" /\ channel = <<>>
    /\ deltas = <<>> /\ lockAdds = {} /\ lockRemoves = {}
    /\ wire = <<>> /\ breaks = 0
    /\ live = bmp /\ lastBmp = bmp /\ lastLocks = Cells /\ lockSet = {}
    /\ missed = {} /\ astray = {} /\ unsaid = {} /\ crossed = {} /\ kept = {}

(***************************************************************************)
(* The service.                                                            *)
(***************************************************************************)
Said(events) == {events[i].cell : i \in 1..Len(events)}
Owed(c) == \E r \in Requests : c \in Said(outbox[r])

(* A cell goes astray when two requests owe events of it at a time, which  *)
(* may be broadcast in either order, and when it is unlocked for viewers   *)
(* while another player's lock stands.                                     *)
UnlockedAlone(events, c) ==
    \E i \in 1..Len(events) :
        events[i] = Unlock(c) /\ \A j \in i + 1..Len(events) : events[j] # Lock(c)

Owe(r, events) ==
    /\ outbox[r] = <<>>
    /\ changes < MaxChanges
    /\ changes' = changes + 1
    /\ outbox' = [outbox EXCEPT ![r] = events]
    /\ astray' = astray \cup {c \in Said(events) :
                                Owed(c) \/ (c \in locks' /\ UnlockedAlone(events, c))}
    /\ UNCHANGED <<sub, channel, batch, wire, breaks, view, missed, unsaid, crossed>>

(* Claim without a claim to supersede, on a free cell, over a lock that    *)
(* has expired or over one of the player's own.                            *)
ClaimCell(r, c) ==
    /\ locks' = locks \cup {c}
    /\ expired' = expired \ {c}
    /\ undo' = [undo EXCEPT ![r] = [NoUndo EXCEPT !.open = TRUE]]
    /\ Owe(r, <<Lock(c)>>)
    /\ UNCHANGED bmp

(* vacate removes the cell's lock unless it is another player's by now.    *)
Vacated(c) == {locks \ {c}, locks}
VacateLock(c) ==
    /\ locks' \in Vacated(c)
    /\ expired' = expired \cap locks'

(* Claim that supersedes the player's claim on d, which may be the same    *)
(* cell.  Whatever lock is found there is remembered.                      *)
SupersedeClaim(r, c, d) ==
    /\ \E left \in Vacated(d) : locks' = left \cup {c}
    /\ expired' = (expired \ {c}) \cap locks'
    /\ undo' = [undo EXCEPT ![r] =
                    [open |-> TRUE, back |-> {d} \cap locks, late |-> {d} \cap expired]]
    /\ Owe(r, <<Unlock(d), Lock(c)>>)
    /\ UNCHANGED bmp

(* A Claim that the ledger refuses, before it has broadcast anything,      *)
(* takes its lock back and puts the remembered one where it was, without a *)
(* word; a snapshot may have shown what it did.                            *)
RefusedClaim(r, c) ==
    /\ undo[r].open
    /\ outbox[r][Len(outbox[r])] = Lock(c)
    /\ outbox' = [outbox EXCEPT ![r] = <<>>] /\ undo' = [undo EXCEPT ![r] = NoUndo]
    /\ locks' = (locks \ {c}) \cup undo[r].back
    /\ expired' = (expired \ ({c} \cup undo[r].back)) \cup undo[r].late
    /\ unsaid' = unsaid \cup Said(outbox[r])
    /\ UNCHANGED <<bmp, changes, sub, channel, batch, wire, breaks, view, missed, astray, crossed>>

(* The void of the superseded claim fails for another reason than that it  *)
(* has expired: no unlock of the old cell, then the new one's lock.        *)
VoidFails(r, c, d) ==
    /\ undo[r].open
    /\ outbox[r] = <<Unlock(d), Lock(c)>>
    /\ outbox' = [outbox EXCEPT ![r] = Tail(@)] /\ undo' = [undo EXCEPT ![r] = NoUndo]
    /\ unsaid' = unsaid \cup ({d} \ {c})
    /\ UNCHANGED <<bmp, locks, expired, changes, sub, channel, batch, wire, breaks, view,
                   missed, astray, crossed>>

(* Confirm: the unlock is broadcast before the paint.                      *)
ConfirmCell(r, c, col) ==
    /\ VacateLock(c)
    /\ bmp' = [bmp EXCEPT ![c] = col]
    /\ Owe(r, <<Unlock(c), Paint(c, col)>>)
    /\ UNCHANGED undo

CancelCell(r, c) ==
    /\ VacateLock(c)
    /\ Owe(r, <<Unlock(c)>>)
    /\ UNCHANGED <<bmp, undo>>

Expire(c) ==
    /\ c \in locks \ expired
    /\ expired' = expired \cup {c}
    /\ UNCHANGED <<bmp, locks, outbox, undo, changes, sub, channel, batch, wire, breaks, view,
                   missed, astray, unsaid, crossed>>

(* ReapExpired: the locks that had expired when it looked at the clock, in *)
(* any order.                                                              *)
Orders(S) == {s \in [1..Cardinality(S) -> S] : \A c \in S : \E i \in DOMAIN s : s[i] = c}

ReapExpired(r) ==
    \E S \in SUBSET expired \ {{}} :
        /\ locks' = locks \ S
        /\ expired' = expired \ S
        /\ \E order \in Orders(S) : Owe(r, [i \in 1..Cardinality(S) |-> Unlock(order[i])])
        /\ UNCHANGED <<bmp, undo>>

(* ApplyEvent: only a new colour is painted and broadcast.                 *)
FollowPaint(r, c, col) ==
    /\ bmp[c] # col
    /\ bmp' = [bmp EXCEPT ![c] = col]
    /\ UNCHANGED <<locks, expired, undo>>
    /\ Owe(r, <<Paint(c, col)>>)

(* Mutated form of Offer: a channel without a bound.                       *)
OfferUnbounded(ev) == channel' = Append(channel, ev) /\ UNCHANGED missed

(* A full channel drops the event for this client only.                    *)
Offer(ev) ==
    IF Len(channel) < ChanSize
    THEN channel' = Append(channel, ev) /\ UNCHANGED missed
    ELSE missed' = missed \cup {ev.cell} /\ UNCHANGED channel

Broadcast(r) ==
    /\ outbox[r] # <<>>
    /\ outbox' = [outbox EXCEPT ![r] = Tail(@)] /\ undo' = [undo EXCEPT ![r] = NoUndo]
    /\ IF sub = "none" THEN UNCHANGED <<channel, missed>> ELSE Offer(Head(outbox[r]))
    /\ UNCHANGED <<bmp, locks, expired, changes, sub, batch, wire, breaks, view, astray, unsaid,
                   crossed>>

(***************************************************************************)
(* The subscriber.                                                         *)
(***************************************************************************)
(* ServeSSE registers the subscriber before run takes its snapshot.        *)
Connect ==
    /\ sub = "none"
    /\ sub' = "registered"
    /\ UNCHANGED <<service, channel, batch, wire, breaks, view, missed, astray, unsaid, crossed>>

(* SnapshotBmp leaves expired locks out.                                   *)
SnapshotPatch == [kind |-> "snapshot", bmp |-> bmp, locks |-> locks \ expired]

InChannel(c) == \E i \in 1..Len(channel) : channel[i].cell = c

SendSnapshot ==
    /\ sub = "registered"
    /\ sub' = "streaming"
    /\ wire' = Append(wire, SnapshotPatch)
    /\ crossed' = {}
    /\ astray' = {c \in astray : Owed(c) \/ InChannel(c)}
    /\ unsaid' = {c \in unsaid : Owed(c) \/ InChannel(c)}
    /\ UNCHANGED <<service, channel, batch, breaks, view, missed>>

Collect(ev) ==
    /\ deltas' = IF ev.kind = "paint"
                 THEN Append(deltas, [cell |-> ev.cell, color |-> ev.color]) ELSE deltas
    /\ lockAdds' = IF ev.kind = "lock" THEN lockAdds \cup {ev.cell} ELSE lockAdds
    /\ lockRemoves' = IF ev.kind = "unlock" THEN lockRemoves \cup {ev.cell} ELSE lockRemoves

Receive ==
    /\ sub = "streaming"
    /\ channel # <<>>
    /\ channel' = Tail(channel)
    /\ Collect(Head(channel))
    /\ crossed' = crossed \cup
                    {c \in lockRemoves : Head(channel) = Lock(c)}
    /\ UNCHANGED <<service, sub, wire, breaks, view, missed, astray, unsaid>>

FlushPatch == [kind |-> "flush", deltas |-> deltas, adds |-> lockAdds, removes |-> lockRemoves]

(* Mutated form of Flush: a batch of paints alone counts as empty.         *)
FlushOfLocks ==
    /\ sub = "streaming"
    /\ lockAdds # {} \/ lockRemoves # {}
    /\ wire' = Append(wire, FlushPatch)
    /\ deltas' = <<>> /\ lockAdds' = {} /\ lockRemoves' = {}
    /\ UNCHANGED <<service, sub, channel, breaks, view, missed, astray, unsaid, crossed>>

(* The ticker, or a metrics event: all three lists go out, then are empty. *)
Flush ==
    /\ sub = "streaming"
    /\ deltas # <<>> \/ lockAdds # {} \/ lockRemoves # {}
    /\ wire' = Append(wire, FlushPatch)
    /\ deltas' = <<>> /\ lockAdds' = {} /\ lockRemoves' = {}
    /\ UNCHANGED <<service, sub, channel, breaks, view, missed, astray, unsaid, crossed>>

(* The client is gone; the next one starts from a new snapshot.            *)
Break ==
    /\ sub # "none"
    /\ breaks < MaxBreaks
    /\ breaks' = breaks + 1
    /\ sub' = "none"
    /\ channel' = <<>> /\ wire' = <<>>
    /\ deltas' = <<>> /\ lockAdds' = {} /\ lockRemoves' = {}
    /\ missed' = {} /\ crossed' = {} /\ kept' = {}
    /\ astray' = {c \in astray : Owed(c)} /\ unsaid' = {c \in unsaid : Owed(c)}
    /\ UNCHANGED <<service, live, lastBmp, lastLocks, lockSet>>

(***************************************************************************)
(* The view.                                                               *)
(***************************************************************************)
(* The bitmap is a string, compared by value with the last one applied.  A *)
(* lock list is a new array each time, unless it is empty: Go's nil slice  *)
(* is sent as null, which takes the signal away, twice in a row without    *)
(* any change.                                                             *)
SameLocks(l) == l = {} /\ lastLocks = {}

ShowSnapshot(patch) ==
    /\ live' = IF patch.bmp # lastBmp THEN patch.bmp ELSE live
    /\ lastBmp' = patch.bmp
    /\ lockSet' = IF SameLocks(patch.locks) THEN lockSet ELSE patch.locks
    /\ lastLocks' = patch.locks
    /\ kept' = {c \in Cells : live'[c] # patch.bmp[c]
                               \/ (c \in lockSet' /\ c \notin patch.locks)}

(* A bitmap after a list of deltas was drawn on it in order: a cell has    *)
(* the colour of the last delta on it.                                     *)
LastOn(ds, c) == CHOOSE i \in 1..Len(ds) : ds[i].cell = c /\ \A j \in i + 1..Len(ds) : ds[j].cell # c
Painted(b, ds) ==
    [c \in Cells |-> IF \E i \in 1..Len(ds) : ds[i].cell = c THEN ds[LastOn(ds, c)].color ELSE b[c]]

(* Mutated form of ShowFlush: the removed locks come before the added      *)
(* ones.                                                                   *)
ShowFlushRemovesFirst(patch) ==
    /\ live' = Painted(live, patch.deltas)
    /\ lockSet' = (lockSet \ patch.removes) \cup patch.adds
    /\ UNCHANGED <<lastBmp, lastLocks, kept>>

(* Deltas in order, then the added locks, then the removed ones.           *)
ShowFlush(patch) ==
    /\ live' = Painted(live, patch.deltas)
    /\ lockSet' = (lockSet \cup patch.adds) \ patch.removes
    /\ UNCHANGED <<lastBmp, lastLocks, kept>>

Render ==
    /\ wire # <<>>
    /\ wire' = Tail(wire)
    /\ IF Head(wire).kind = "snapshot" THEN ShowSnapshot(Head(wire)) ELSE ShowFlush(Head(wire))
    /\ UNCHANGED <<service, sub, channel, batch, breaks, missed, astray, unsaid, crossed>>

Next ==
    \/ \E r \in Requests, c \in Cells :
        \/ ClaimCell(r, c) \/ RefusedClaim(r, c) \/ CancelCell(r, c)
        \/ \E d \in Cells : SupersedeClaim(r, c, d) \/ VoidFails(r, c, d)
        \/ \E col \in Colors : ConfirmCell(r, c, col) \/ FollowPaint(r, c, col)
    \/ \E c \in Cells : Expire(c)
    \/ \E r \in Requests : ReapExpired(r) \/ Broadcast(r)
    \/ Connect \/ SendSnapshot \/ Receive \/ Flush \/ Break \/ Render

Spec == Init /\ [][Next]_vars

(* Broadcasts are made, the flusher and its ticker run, the view renders   *)
(* what arrives and connects again.  Nobody has to paint.                  *)
Fairness ==
    /\ \A r \in Requests : WF_vars(Broadcast(r))
    /\ WF_vars(Connect) /\ WF_vars(SendSnapshot) /\ WF_vars(Receive) /\ WF_vars(Flush)
    /\ WF_vars(Render)

FairSpec == Spec /\ Fairness

(***************************************************************************)
(* Properties.                                                             *)
(***************************************************************************)
Quiet ==
    /\ sub = "streaming" /\ channel = <<>> /\ wire = <<>>
    /\ deltas = <<>> /\ lockAdds = {} /\ lockRemoves = {}
    /\ \A r \in Requests : outbox[r] = <<>>

(* When nothing is under way any more a connected screen shows the canvas, *)
(* although the snapshot was taken after the subscription, so that what is *)
(* in it comes again.  Excepted are cells an event of which was dropped by *)
(* a full channel, cells whose broadcasts went astray, and those that the  *)
(* last snapshot did not reach (ServeSSE, run, pb.render).                 *)
ScreenShowsCanvas ==
    Quiet => \A c \in Cells : live[c] = bmp[c] \/ c \in missed \cup astray \cup kept

(* Its boxes are the locks (expired ones, not reaped yet, may be drawn or  *)
(* not), with the same exceptions and two more: a cell unlocked and locked *)
(* again within one flush, and one whose lock changed without a word since *)
(* the last snapshot: the restore of a refused claim, and a failed void,   *)
(* although Claim says of that one that "the UI is already consistent"     *)
(* (SnapshotBmp, flush, pb.render, Claim).                                 *)
BoxIsLock(c) == c \in expired \/ (c \in lockSet <=> c \in locks)

BoxesAreLocks ==
    Quiet => \A c \in Cells :
        BoxIsLock(c) \/ c \in missed \cup astray \cup unsaid \cup crossed \cup kept

(* Both: what a screen at rest shows is what the server holds, however its *)
(* stream was opened, fed, starved and broken (ServeSSE, run, Broadcast).  *)
ScreenIsServer == ScreenShowsCanvas /\ BoxesAreLocks

(* A colour that stays on the canvas gets to the screen, with the same     *)
(* exceptions: everything on the way is sent on (broadcast, run, flush).   *)
PaintsShow ==
    \A c \in Cells, col \in Colors :
        bmp[c] = col ~> live[c] = col \/ bmp[c] # col \/ c \in missed \cup astray \cup kept
====
