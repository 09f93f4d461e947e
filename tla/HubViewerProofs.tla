---- MODULE HubViewerProofs ----
(***************************************************************************)
(* What a screen at rest shows is what the server holds, for every number  *)
(* of cells, requests, changes and broken streams.                         *)
(*                                                                         *)
(* A cell has two aspects that are broadcast apart: its paint and its lock *)
(* box.  The proof follows what is said of an aspect on its way: outbox,   *)
(* channel, batch, wire, screen.  Where no later word is under way at an   *)
(* earlier stage, the last word at a stage is what the server holds.  So   *)
(* every operation that changes the aspect must owe a word of it, and      *)
(* every stage must hand on in order what it was told last.                *)
(***************************************************************************)
EXTENDS HubViewer, FiniteSetTheorems, SequenceTheorems, WellFoundedInduction, NaturalsInduction, TLAPS

Aspects == {"paint", "box"}

(* Whether an event is about an aspect of a cell, and what it says.        *)
About(ev, a, c) == ev.cell = c /\ (a = "paint" <=> ev.kind = "paint")
Word(ev) ==
    CASE ev.kind = "paint" -> ev.color
      [] ev.kind = "lock" -> "drawn"
      [] OTHER -> "clear"
Box(S, c) == IF c \in S THEN "drawn" ELSE "clear"

(* The same of a patch: a snapshot is about everything.                    *)
PatchAbout(p, a, c) ==
    \/ p.kind = "snapshot"
    \/ a = "paint" /\ \E i \in 1..Len(p.deltas) : p.deltas[i].cell = c
    \/ a = "box" /\ c \in p.adds \cup p.removes
PatchWord(p, a, c) ==
    CASE a = "paint" /\ p.kind = "snapshot" -> p.bmp[c]
      [] a = "paint" /\ p.kind # "snapshot" -> p.deltas[LastOn(p.deltas, c)].color
      [] a # "paint" /\ p.kind = "snapshot" -> Box(p.locks, c)
      [] OTHER -> IF c \in p.removes THEN "clear" ELSE "drawn"

ScreenWord(a, c) == IF a = "paint" THEN live[c] ELSE Box(lockSet, c)

(* What the server holds; of an expired lock both is right.                *)
Holds(a, c, w) == IF a = "paint" THEN w = bmp[c] ELSE c \in expired \/ w = Box(locks, c)

(* Where words of an aspect are still under way.                           *)
InOutbox(a, c) == \E r \in Requests : \E i \in 1..Len(outbox[r]) : About(outbox[r][i], a, c)
InStream(a, c) == \E i \in 1..Len(channel) : About(channel[i], a, c)
InBatch(a, c) == PatchAbout(FlushPatch, a, c)
OnWire(a, c) == \E i \in 1..Len(wire) : PatchAbout(wire[i], a, c)

(* The exceptions of ScreenIsServer, at each stage.                        *)
Silent(a, c) == a = "box" /\ c \in unsaid
Wrong(a, c) == c \in astray \/ Silent(a, c)
Excused(a, c) == c \in missed \/ Wrong(a, c) \/ (a = "box" /\ c \in crossed)

(* The last word in a request's list.                                      *)
LastWord(s, i, a, c) == About(s[i], a, c) /\ \A j \in i + 1..Len(s) : ~About(s[j], a, c)

OutboxRight ==
    \A a \in Aspects, c \in Cells : \A r \in Requests : \A i \in 1..Len(outbox[r]) :
        ~Wrong(a, c) /\ LastWord(outbox[r], i, a, c) => Holds(a, c, Word(outbox[r][i]))
ChannelRight ==
    \A a \in Aspects, c \in Cells : c \notin missed /\ ~Wrong(a, c) /\ ~InOutbox(a, c) =>
        \A i \in 1..Len(channel) :
            About(channel[i], a, c) /\ (\A j \in i + 1..Len(channel) : ~About(channel[j], a, c))
                => Holds(a, c, Word(channel[i]))
BatchRight ==
    \A a \in Aspects, c \in Cells :
        ~Excused(a, c) /\ ~InOutbox(a, c) /\ ~InStream(a, c) /\ InBatch(a, c)
            => Holds(a, c, PatchWord(FlushPatch, a, c))
WireRight ==
    \A a \in Aspects, c \in Cells :
        ~Excused(a, c) /\ ~InOutbox(a, c) /\ ~InStream(a, c) /\ ~InBatch(a, c) =>
        \A i \in 1..Len(wire) :
            PatchAbout(wire[i], a, c) /\ (\A j \in i + 1..Len(wire) : ~PatchAbout(wire[j], a, c))
                => Holds(a, c, PatchWord(wire[i], a, c))
ScreenRight ==
    \A a \in Aspects, c \in Cells :
        /\ sub = "streaming"
        /\ ~Excused(a, c) /\ c \notin kept
        /\ ~InOutbox(a, c) /\ ~InStream(a, c) /\ ~InBatch(a, c) /\ ~OnWire(a, c)
        => Holds(a, c, ScreenWord(a, c))

(* Nothing is left of a stream that broke, and nothing is batched or sent  *)
(* before the snapshot.                                                    *)
StreamsInOrder ==
    /\ sub = "none" => channel = <<>>
    /\ sub # "streaming" => /\ wire = <<>> /\ deltas = <<>>
                            /\ lockAdds = {} /\ lockRemoves = {}

(* A Claim that may still be refused owes words of boxes only, the one it  *)
(* put away included.                                                      *)
ClaimsSpeakOfBoxes ==
    \A r \in Requests : undo[r].open =>
        /\ outbox[r] # <<>>
        /\ \A i \in 1..Len(outbox[r]) : outbox[r][i].kind # "paint"
        /\ undo[r].back \subseteq Said(outbox[r])

Inv ==
    /\ TypeOK
    /\ StreamsInOrder
    /\ ClaimsSpeakOfBoxes
    /\ OutboxRight /\ ChannelRight /\ BatchRight /\ WireRight /\ ScreenRight

(***************************************************************************)
(* The last delta on a cell.                                               *)
(***************************************************************************)
(* Where there is a delta on the cell, LastOn is one, with none after it.  *)
LEMMA LastOnIsLast ==
    ASSUME NEW ds \in Seq(Deltas), NEW c, NEW k \in 1..Len(ds), ds[k].cell = c
    PROVE  /\ LastOn(ds, c) \in 1..Len(ds) /\ ds[LastOn(ds, c)].cell = c
           /\ \A j \in LastOn(ds, c) + 1..Len(ds) : ds[j].cell # c
<1> DEFINE Before == OpToRel(<, Nat)
           T == {n \in Nat : \E i \in 1..Len(ds) : ds[i].cell = c /\ n = Len(ds) - i}
<1>1. IsWellFoundedOn(Before, Nat)
  BY NatLessThanWellFounded DEF OpToRel
<1>2. T \subseteq Nat /\ T # {}
  <2>1. Len(ds) - k \in Nat
    OBVIOUS
  <2>2. Len(ds) - k \in T
    BY <2>1
  <2> QED BY <2>2
<1>3. PICK x \in T : \A y \in T : ~(<<y, x>> \in Before)
  <2> HIDE DEF T, Before
  <2> QED BY <1>1, <1>2, WFMin, Zenon
<1>4. \A y \in T : ~(y < x)
  BY <1>2, <1>3 DEF OpToRel
<1>5. PICK i \in 1..Len(ds) : ds[i].cell = c /\ x = Len(ds) - i
  BY <1>3
<1>6. ASSUME NEW j \in i + 1..Len(ds) PROVE ds[j].cell # c
  <2>1. j \in 1..Len(ds) /\ Len(ds) - j \in Nat /\ Len(ds) - j < x
    BY <1>5
  <2> QED BY <1>4, <2>1
<1> QED BY <1>5, <1>6 DEF LastOn

(* One more delta is the last one on its cell, and leaves the others'.     *)
LEMMA LastOnAppend ==
    ASSUME NEW ds \in Seq(Deltas), NEW d \in Deltas, NEW c
    PROVE  /\ d.cell = c => LastOn(Append(ds, d), c) = Len(ds) + 1
           /\ d.cell # c /\ (\E i \in 1..Len(ds) : ds[i].cell = c)
                => LastOn(Append(ds, d), c) = LastOn(ds, c)
<1> DEFINE more == Append(ds, d)
           m == LastOn(more, c)
<1>1. /\ more \in Seq(Deltas) /\ Len(more) = Len(ds) + 1 /\ more[Len(ds) + 1] = d
      /\ \A i \in 1..Len(ds) : more[i] = ds[i]
  OBVIOUS
<1>2. ASSUME d.cell = c PROVE m = Len(ds) + 1
  <2>1. /\ m \in 1..Len(more)
        /\ \A j \in m + 1..Len(more) : more[j].cell # c
    <3> Len(ds) + 1 \in 1..Len(more)
      BY <1>1
    <3> QED BY <1>1, <1>2, LastOnIsLast, ZenonT(40)
  <2> QED BY <1>1, <1>2, <2>1
<1>3. ASSUME d.cell # c, NEW i \in 1..Len(ds), ds[i].cell = c
      PROVE  m = LastOn(ds, c)
  <2> DEFINE n == LastOn(ds, c)
  <2>1. n \in 1..Len(ds) /\ ds[n].cell = c /\ \A j \in n + 1..Len(ds) : ds[j].cell # c
    BY <1>3, LastOnIsLast
  <2>2. /\ m \in 1..Len(more) /\ more[m].cell = c
        /\ \A j \in m + 1..Len(more) : more[j].cell # c
    <3> i \in 1..Len(more) /\ more[i].cell = c
      BY <1>1, <1>3
    <3> QED BY <1>1, LastOnIsLast
  <2>3. m \in 1..Len(ds) /\ ds[m].cell = c
    BY <1>1, <1>3, <2>2
  <2>4. n \in 1..Len(more) /\ more[n].cell = c
    BY <1>1, <2>1
  <2>5. n \in Int /\ m \in Int
    BY <2>1, <2>3
  <2>6. ~(n < m)
    <3> SUFFICES ASSUME n < m PROVE m \in n + 1..Len(ds)
      BY <2>1, <2>3
    <3> HIDE DEF m, n
    <3> QED BY <2>3, <2>5
  <2>7. ~(m < n)
    <3> SUFFICES ASSUME m < n PROVE n \in m + 1..Len(more)
      BY <2>2, <2>4
    <3> HIDE DEF m, n, more
    <3> QED BY <2>4, <2>5
  <2>8. m = n
    <3> HIDE DEF m, n
    <3> QED BY <2>5, <2>6, <2>7
  <2> QED BY <2>8
<1> QED BY <1>2, <1>3

(***************************************************************************)
(* Type correctness.                                                       *)
(***************************************************************************)
(* Every bitmap a view paints is a bitmap.                                 *)
LEMMA PaintedIsBitmap ==
    ASSUME NEW b \in Bitmaps, NEW ds \in Seq(Deltas)
    PROVE  Painted(b, ds) \in Bitmaps
<1>1. ASSUME NEW c \in Cells, NEW i \in 1..Len(ds), ds[i].cell = c
      PROVE  ds[LastOn(ds, c)].color \in Bytes
  <2>1. LastOn(ds, c) \in 1..Len(ds)
    BY <1>1, LastOnIsLast
  <2>2. ds[LastOn(ds, c)] \in Deltas
    BY <2>1
  <2> QED BY <2>2 DEF Deltas, Bytes
<1>2. \A c \in Cells : b[c] \in Bytes
  BY DEF Bitmaps
<1> QED BY <1>1, <1>2 DEF Painted, Bitmaps

(* The first state has the types.                                          *)
LEMMA TypeInit == Init => TypeOK
  BY HubAssumption DEF Init, TypeOK, Bitmaps, Bytes, Events, Snapshots, Flushes, Deltas, Undos, NoUndo

(* What a request owes is a list of events.                                *)
LEMMA OweTypes ==
    ASSUME TypeOK, NEW r \in Requests, NEW events \in Seq(Events), Owe(r, events)
    PROVE  /\ outbox' \in [Requests -> Seq(Events)] /\ changes' \in 0..MaxChanges
           /\ astray' \subseteq Cells
           /\ UNCHANGED <<sub, channel, batch, wire, breaks, view, missed, unsaid, crossed>>
<1>1. Said(events) \subseteq Cells
  <2> SUFFICES ASSUME NEW i \in 1..Len(events) PROVE events[i].cell \in Cells
    BY DEF Said
  <2>1. events[i] \in Events
    OBVIOUS
  <2> QED BY <2>1 DEF Events, Lock, Unlock, Paint
<1> QED BY <1>1, HubAssumption DEF Owe, TypeOK

(* What the reaper owes is one, too.                                       *)
LEMMA ReapedEvents ==
    ASSUME NEW S \in SUBSET Cells, NEW order \in Orders(S)
    PROVE  [i \in 1..Cardinality(S) |-> Unlock(order[i])] \in Seq(Events)
<1> DEFINE n == Cardinality(S)
           events == [i \in 1..n |-> Unlock(order[i])]
<1>1. order \in [1..n -> S]
  BY DEF Orders
<1>2. n \in Nat
  BY HubAssumption, FS_Subset, FS_CardinalityType
<1>3. ASSUME NEW i \in 1..n PROVE Unlock(order[i]) \in Events
  <2>1. order[i] \in Cells
    BY <1>1, <1>3
  <2> QED BY <2>1 DEF Events
<1>4. events \in [1..n -> Events]
  BY <1>3
<1> QED BY <1>2, <1>4 DEF Seq

(* Every step keeps the types.                                             *)
LEMMA TypeStep == TypeOK /\ [Next]_vars => TypeOK'
<1> SUFFICES ASSUME TypeOK, [Next]_vars
             PROVE  TypeOK'
  OBVIOUS
<1> USE HubAssumption
<1>1. CASE UNCHANGED vars
  BY <1>1 DEF TypeOK, vars, service, batch, view
<1>2. ASSUME NEW r \in Requests, NEW c \in Cells, ClaimCell(r, c) PROVE TypeOK'
  <2>1. <<Lock(c)>> \in Seq(Events)
    BY DEF Events
  <2>2. /\ outbox' \in [Requests -> Seq(Events)] /\ changes' \in 0..MaxChanges
        /\ astray' \subseteq Cells
        /\ UNCHANGED <<sub, channel, batch, wire, breaks, view, missed, unsaid, crossed>>
    BY <1>2, <2>1, OweTypes DEF ClaimCell
  <2>3. undo' \in [Requests -> Undos]
    BY <1>2 DEF ClaimCell, TypeOK, Undos, NoUndo
  <2> QED BY <1>2, <2>2, <2>3 DEF ClaimCell, TypeOK, batch, view
<1>3. ASSUME NEW r \in Requests, NEW c \in Cells, RefusedClaim(r, c) PROVE TypeOK'
  <2>1. outbox' \in [Requests -> Seq(Events)]
    BY <1>3 DEF RefusedClaim, TypeOK
  <2>2. undo' \in [Requests -> Undos]
    BY <1>3 DEF RefusedClaim, TypeOK, Undos, NoUndo
  <2>3. undo[r] \in Undos
    BY DEF TypeOK
  <2>4. Said(outbox[r]) \subseteq Cells
    <3> SUFFICES ASSUME NEW i \in 1..Len(outbox[r]) PROVE outbox[r][i].cell \in Cells
      BY DEF Said
    <3>1. outbox[r][i] \in Events
      BY DEF TypeOK
    <3> QED BY <3>1 DEF Events, Lock, Unlock, Paint
  <2>5. unsaid' \subseteq Cells
    BY <1>3, <2>4 DEF RefusedClaim, TypeOK
  <2>6. expired' \subseteq locks' /\ locks' \subseteq Cells
    <3>1. undo[r].back \subseteq Cells /\ undo[r].late \subseteq undo[r].back
      BY <2>3 DEF Undos
    <3> QED BY <1>3, <3>1 DEF RefusedClaim, TypeOK
  <2> QED BY <1>3, <2>1, <2>2, <2>5, <2>6 DEF RefusedClaim, TypeOK, batch, view
<1>4. ASSUME NEW r \in Requests, NEW c \in Cells, CancelCell(r, c) PROVE TypeOK'
  <2>1. <<Unlock(c)>> \in Seq(Events)
    BY DEF Events
  <2>2. /\ outbox' \in [Requests -> Seq(Events)] /\ changes' \in 0..MaxChanges
        /\ astray' \subseteq Cells
        /\ UNCHANGED <<sub, channel, batch, wire, breaks, view, missed, unsaid, crossed>>
    BY <1>4, <2>1, OweTypes DEF CancelCell
  <2> QED BY <1>4, <2>2 DEF CancelCell, VacateLock, Vacated, TypeOK, batch, view
<1>5. ASSUME NEW r \in Requests, ReapExpired(r) PROVE TypeOK'
  <2>1. PICK S \in SUBSET expired \ {{}} :
            /\ locks' = locks \ S /\ expired' = expired \ S
            /\ \E order \in Orders(S) : Owe(r, [i \in 1..Cardinality(S) |-> Unlock(order[i])])
            /\ UNCHANGED <<bmp, undo>>
    BY <1>5 DEF ReapExpired
  <2>2. PICK order \in Orders(S) : Owe(r, [i \in 1..Cardinality(S) |-> Unlock(order[i])])
    BY <2>1
  <2>3. S \subseteq Cells
    BY DEF TypeOK
  <2>4. [i \in 1..Cardinality(S) |-> Unlock(order[i])] \in Seq(Events)
    BY <2>3, ReapedEvents
  <2>5. /\ outbox' \in [Requests -> Seq(Events)] /\ changes' \in 0..MaxChanges
        /\ astray' \subseteq Cells
        /\ UNCHANGED <<sub, channel, batch, wire, breaks, view, missed, unsaid, crossed>>
    BY <2>2, <2>4, OweTypes
  <2> QED BY <2>1, <2>5 DEF TypeOK, batch, view
<1>6. ASSUME NEW r \in Requests, NEW c \in Cells, NEW col \in Colors, ConfirmCell(r, c, col)
      PROVE  TypeOK'
  <2>1. <<Unlock(c), Paint(c, col)>> \in Seq(Events)
    BY DEF Events
  <2>2. /\ outbox' \in [Requests -> Seq(Events)] /\ changes' \in 0..MaxChanges
        /\ astray' \subseteq Cells
        /\ UNCHANGED <<sub, channel, batch, wire, breaks, view, missed, unsaid, crossed>>
    BY <1>6, <2>1, OweTypes DEF ConfirmCell
  <2>3. bmp' \in Bitmaps
    BY <1>6 DEF ConfirmCell, TypeOK, Bitmaps, Bytes
  <2> QED BY <1>6, <2>2, <2>3 DEF ConfirmCell, VacateLock, Vacated, TypeOK, batch, view
<1>7. ASSUME NEW r \in Requests, NEW c \in Cells, NEW col \in Colors, FollowPaint(r, c, col)
      PROVE  TypeOK'
  <2>1. <<Paint(c, col)>> \in Seq(Events)
    BY DEF Events
  <2>2. /\ outbox' \in [Requests -> Seq(Events)] /\ changes' \in 0..MaxChanges
        /\ astray' \subseteq Cells
        /\ UNCHANGED <<sub, channel, batch, wire, breaks, view, missed, unsaid, crossed>>
    BY <1>7, <2>1, OweTypes DEF FollowPaint
  <2>3. bmp' \in Bitmaps
    BY <1>7 DEF FollowPaint, TypeOK, Bitmaps, Bytes
  <2> QED BY <1>7, <2>2, <2>3 DEF FollowPaint, TypeOK, batch, view
<1>8. ASSUME NEW r \in Requests, NEW c \in Cells, NEW d \in Cells, SupersedeClaim(r, c, d)
       PROVE  TypeOK'
  <2>1. <<Unlock(d), Lock(c)>> \in Seq(Events)
    BY DEF Events
  <2>2. /\ outbox' \in [Requests -> Seq(Events)] /\ changes' \in 0..MaxChanges
        /\ astray' \subseteq Cells
        /\ UNCHANGED <<sub, channel, batch, wire, breaks, view, missed, unsaid, crossed>>
    BY <1>8, <2>1, OweTypes DEF SupersedeClaim
  <2>3. undo' \in [Requests -> Undos]
    BY <1>8 DEF SupersedeClaim, TypeOK, Undos
  <2> QED BY <1>8, <2>2, <2>3 DEF SupersedeClaim, Vacated, TypeOK, batch, view
<1>9. ASSUME NEW r \in Requests, NEW c \in Cells, NEW d \in Cells, VoidFails(r, c, d)
       PROVE  TypeOK'
  <2>1. Tail(outbox[r]) \in Seq(Events)
    <3>1. outbox[r] = <<Unlock(d), Lock(c)>>
      BY <1>9 DEF VoidFails
    <3>2. Lock(c) \in Events
      BY DEF Events
    <3> QED BY <3>1, <3>2
  <2>2. outbox' \in [Requests -> Seq(Events)]
    BY <1>9, <2>1 DEF VoidFails, TypeOK
  <2>3. undo' \in [Requests -> Undos]
    BY <1>9 DEF VoidFails, TypeOK, Undos, NoUndo
  <2>4. unsaid' \subseteq Cells
    BY <1>9 DEF VoidFails, TypeOK
  <2> QED BY <1>9, <2>2, <2>3, <2>4 DEF VoidFails, TypeOK, batch, view
<1>10. ASSUME NEW c \in Cells, Expire(c) PROVE TypeOK'
  BY <1>10 DEF Expire, TypeOK, batch, view
<1>11. ASSUME NEW r \in Requests, Broadcast(r) PROVE TypeOK'
  <2>1. outbox[r] \in Seq(Events) /\ outbox[r] # <<>>
    BY <1>11 DEF Broadcast, TypeOK
  <2>2. Head(outbox[r]) \in Events /\ Tail(outbox[r]) \in Seq(Events)
    BY <2>1
  <2>3. outbox' \in [Requests -> Seq(Events)]
    BY <1>11, <2>2 DEF Broadcast, TypeOK
  <2>4. Head(outbox[r]).cell \in Cells
    BY <2>2 DEF Events, Lock, Unlock, Paint
  <2>5. /\ channel' \in Seq(Events) /\ Len(channel') <= ChanSize
        /\ missed' \subseteq Cells
    <3>1. CASE sub = "none"
      BY <1>11, <3>1 DEF Broadcast, TypeOK
    <3>2. CASE sub # "none"
      <4>1. Offer(Head(outbox[r]))
        BY <1>11, <3>2 DEF Broadcast
      <4> DEFINE ev == Head(outbox[r])
      <4>2. ev \in Events /\ ev.cell \in Cells
        BY <2>2, <2>4
      <4> HIDE DEF ev
      <4>3. channel \in Seq(Events) /\ Len(channel) <= ChanSize /\ missed \subseteq Cells
        BY DEF TypeOK
      <4>4. \/ Len(channel) < ChanSize /\ channel' = Append(channel, ev) /\ missed' = missed
            \/ channel' = channel /\ missed' = missed \cup {ev.cell}
        BY <4>1 DEF Offer, ev
      <4>5. CASE Len(channel) < ChanSize /\ channel' = Append(channel, ev) /\ missed' = missed
        <5>1. Append(channel, ev) \in Seq(Events) /\ Len(Append(channel, ev)) = Len(channel) + 1
          BY <4>2, <4>3, AppendProperties
        <5> QED BY <4>3, <4>5, <5>1
      <4>6. CASE channel' = channel /\ missed' = missed \cup {ev.cell}
        BY <4>2, <4>3, <4>6
      <4> QED BY <4>4, <4>5, <4>6
    <3> QED BY <3>1, <3>2
  <2>6. undo' \in [Requests -> Undos]
    BY <1>11 DEF Broadcast, TypeOK, Undos, NoUndo
  <2> QED BY <1>11, <2>3, <2>5, <2>6 DEF Broadcast, TypeOK, batch, view
<1>12. CASE Connect
  BY <1>12 DEF Connect, TypeOK, service, batch, view
<1>13. CASE SendSnapshot
  <2>1. SnapshotPatch \in Snapshots
    BY DEF SnapshotPatch, Snapshots, TypeOK
  <2>2. wire' \in Seq(Snapshots \cup Flushes)
    BY <1>13, <2>1 DEF SendSnapshot, TypeOK
  <2> QED BY <1>13, <2>2 DEF SendSnapshot, TypeOK, service, batch, view
<1>14. CASE Receive
  <2>1. channel \in Seq(Events) /\ channel # <<>>
    BY <1>14 DEF Receive, TypeOK
  <2>2. /\ Head(channel) \in Events /\ Tail(channel) \in Seq(Events)
        /\ Len(Tail(channel)) = Len(channel) - 1
    BY <2>1
  <2>3. /\ Head(channel).cell \in Cells
        /\ Head(channel).kind = "paint" => Head(channel).color \in Colors
    BY <2>2 DEF Events, Lock, Unlock, Paint
  <2>4. Collect(Head(channel)) /\ deltas \in Seq(Deltas)
    BY <1>14 DEF Receive, TypeOK
  <2>5. deltas' \in Seq(Deltas)
    <3>1. CASE Head(channel).kind = "paint"
      <4>1. [cell |-> Head(channel).cell, color |-> Head(channel).color] \in Deltas
        BY <2>3, <3>1 DEF Deltas
      <4> QED BY <2>4, <3>1, <4>1, AppendProperties DEF Collect
    <3>2. CASE Head(channel).kind # "paint"
      BY <2>4, <3>2 DEF Collect
    <3> QED BY <3>1, <3>2
  <2>6. lockAdds' \subseteq Cells /\ lockRemoves' \subseteq Cells
    BY <2>3, <2>4 DEF Collect, TypeOK
  <2>7. channel' \in Seq(Events) /\ Len(channel') <= ChanSize
    BY <1>14, <2>1, <2>2 DEF Receive, TypeOK
  <2>8. crossed' \subseteq Cells
    BY <1>14 DEF Receive, TypeOK
  <2> QED BY <1>14, <2>5, <2>6, <2>7, <2>8 DEF Receive, TypeOK, service, view
<1>15. CASE Flush
  <2>1. FlushPatch \in Flushes
    BY DEF FlushPatch, Flushes, TypeOK
  <2>2. wire' \in Seq(Snapshots \cup Flushes)
    BY <1>15, <2>1 DEF Flush, TypeOK
  <2> QED BY <1>15, <2>2 DEF Flush, TypeOK, service, view
<1>16. CASE Break
  BY <1>16 DEF Break, TypeOK, service
<1>17. CASE Render
  <2>1. wire \in Seq(Snapshots \cup Flushes) /\ wire # <<>>
    BY <1>17 DEF Render, TypeOK
  <2>2. Head(wire) \in Snapshots \cup Flushes /\ wire' \in Seq(Snapshots \cup Flushes)
    BY <1>17, <2>1 DEF Render
  <2>3. CASE Head(wire).kind = "snapshot"
    <3>1. Head(wire).bmp \in Bitmaps /\ Head(wire).locks \subseteq Cells
      BY <2>2, <2>3 DEF Snapshots, Flushes
    <3>2. /\ live' \in Bitmaps /\ lastBmp' \in Bitmaps
          /\ lastLocks' \subseteq Cells /\ lockSet' \subseteq Cells /\ kept' \subseteq Cells
      BY <1>17, <2>3, <3>1 DEF Render, ShowSnapshot, TypeOK
    <3> QED BY <1>17, <2>2, <3>2 DEF Render, TypeOK, service, batch
  <2>4. CASE Head(wire).kind # "snapshot"
    <3>1. /\ Head(wire).deltas \in Seq(Deltas)
          /\ Head(wire).adds \subseteq Cells /\ Head(wire).removes \subseteq Cells
      BY <2>2, <2>4 DEF Snapshots, Flushes
    <3>2. live' \in Bitmaps
      BY <1>17, <2>4, <3>1, PaintedIsBitmap DEF Render, ShowFlush, TypeOK
    <3>3. lockSet' \subseteq Cells /\ UNCHANGED <<lastBmp, lastLocks, kept>>
      BY <1>17, <2>4, <3>1 DEF Render, ShowFlush, TypeOK
    <3> QED BY <1>17, <2>2, <3>2, <3>3 DEF Render, TypeOK, service, batch
  <2> QED BY <2>3, <2>4
<1> QED
  BY <1>1, <1>2, <1>3, <1>4, <1>5, <1>6, <1>7, <1>10, <1>11, <1>12, <1>13, <1>14, <1>15,
     <1>16, <1>17, <1>8, <1>9 DEF Next

(* TypeOK, of every variable of the stream and the screen, for all values  *)
(* of the constants.                                                       *)
THEOREM TypeCorrect == Spec => []TypeOK
<1>1. Init => TypeOK
  BY TypeInit
<1>2. TypeOK /\ [Next]_vars => TypeOK'
  BY TypeStep
<1> QED BY <1>1, <1>2, PTL DEF Spec

(***************************************************************************)
(* The service: what it changes it owes a word of.                         *)
(***************************************************************************)
(* A step that touches neither the stream nor the screen, and changes      *)
(* nothing that it does not owe a word of, leaves every stage right.       *)
LEMMA ServiceKeeps ==
    ASSUME Inv, UNCHANGED <<sub, channel, batch, wire, view, missed, crossed>>,
           astray \subseteq astray', unsaid \subseteq unsaid',
           OutboxRight', ClaimsSpeakOfBoxes', TypeOK',
           \A a \in Aspects, d \in Cells :
               \/ Wrong(a, d)' \/ InOutbox(a, d)'
               \/ ~InOutbox(a, d) /\ \A w : Holds(a, d, w) => Holds(a, d, w)'
    PROVE  Inv'
<1>1. \A a \in Aspects, d \in Cells :
          /\ InStream(a, d)' <=> InStream(a, d)
          /\ InBatch(a, d)' <=> InBatch(a, d)
          /\ OnWire(a, d)' <=> OnWire(a, d)
          /\ ScreenWord(a, d)' = ScreenWord(a, d)
          /\ Wrong(a, d) => Wrong(a, d)'
          /\ Excused(a, d) => Excused(a, d)'
  BY DEF InStream, InBatch, OnWire, ScreenWord, Excused, Wrong, Silent, FlushPatch, batch, view
<1>2. FlushPatch' = FlushPatch
  BY DEF FlushPatch, batch
<1>3. StreamsInOrder'
  BY DEF Inv, StreamsInOrder, batch
<1>4. ChannelRight'
  <2> SUFFICES ASSUME NEW a \in Aspects, NEW d \in Cells, d \notin missed', ~Wrong(a, d)',
                      ~InOutbox(a, d)', NEW i \in 1..Len(channel'), About(channel'[i], a, d),
                      \A j \in i + 1..Len(channel') : ~About(channel'[j], a, d)
               PROVE  Holds(a, d, Word(channel[i]))'
    BY DEF ChannelRight
  <2>1. ~InOutbox(a, d) /\ ~Wrong(a, d)
    BY <1>1
  <2>2. Holds(a, d, Word(channel[i]))
    BY <2>1 DEF Inv, ChannelRight
  <2>3. Holds(a, d, Word(channel[i]))'
    BY <2>2
  <2> QED BY <2>3
<1>5. BatchRight'
  <2> SUFFICES ASSUME NEW a \in Aspects, NEW d \in Cells, ~Excused(a, d)', ~InOutbox(a, d)',
                      ~InStream(a, d)', InBatch(a, d)'
               PROVE  Holds(a, d, PatchWord(FlushPatch, a, d))'
    BY DEF BatchRight
  <2>1. ~Wrong(a, d)'
    BY DEF Excused
  <2>2. Holds(a, d, PatchWord(FlushPatch, a, d))
    BY <1>1, <2>1 DEF Inv, BatchRight
  <2> QED BY <1>2, <2>1, <2>2
<1>6. WireRight'
  <2> SUFFICES ASSUME NEW a \in Aspects, NEW d \in Cells, ~Excused(a, d)', ~InOutbox(a, d)',
                      ~InStream(a, d)', ~InBatch(a, d)', NEW i \in 1..Len(wire'),
                      PatchAbout(wire'[i], a, d),
                      \A j \in i + 1..Len(wire') : ~PatchAbout(wire'[j], a, d)
               PROVE  Holds(a, d, PatchWord(wire[i], a, d))'
    BY DEF WireRight
  <2>1. ~Wrong(a, d)'
    BY DEF Excused
  <2>2. Holds(a, d, PatchWord(wire[i], a, d))
    BY <1>1, <2>1 DEF Inv, WireRight
  <2> QED BY <2>1, <2>2
<1>7. ScreenRight'
  <2> SUFFICES ASSUME NEW a \in Aspects, NEW d \in Cells, sub' = "streaming",
                      ~Excused(a, d)', d \notin kept', ~InOutbox(a, d)',
                      ~InStream(a, d)', ~InBatch(a, d)', ~OnWire(a, d)'
               PROVE  Holds(a, d, ScreenWord(a, d))'
    BY DEF ScreenRight
  <2>1. ~Wrong(a, d)'
    BY DEF Excused
  <2>2. Holds(a, d, ScreenWord(a, d))
    BY <1>1, <2>1 DEF Inv, ScreenRight, view
  <2> QED BY <1>1, <2>1, <2>2
<1> QED BY <1>3, <1>4, <1>5, <1>6, <1>7 DEF Inv

(* An operation of which the last word on every aspect is right, and which *)
(* owes one of every aspect that it changes.                               *)
LEMMA OweKeeps ==
    ASSUME Inv, TypeOK', NEW r \in Requests, NEW events \in Seq(Events), Owe(r, events),
           ClaimsSpeakOfBoxes',
           \A a \in Aspects, d \in Cells : \A i \in 1..Len(events) :
               d \notin astray' /\ LastWord(events, i, a, d) => Holds(a, d, Word(events[i]))',
           \A a \in Aspects, d \in Cells :
               \/ \E i \in 1..Len(events) : About(events[i], a, d)
               \/ \A w : Holds(a, d, w) => Holds(a, d, w)'
    PROVE  Inv'
<1>1. /\ outbox \in [Requests -> Seq(Events)]
      /\ outbox[r] = <<>>
      /\ outbox' = [outbox EXCEPT ![r] = events]
      /\ astray \subseteq astray'
      /\ UNCHANGED <<sub, channel, batch, wire, view, missed, unsaid, crossed>>
  BY DEF Owe, Inv, TypeOK
<1>2. outbox'[r] = events /\ \A q \in Requests : q # r => outbox'[q] = outbox[q]
  BY <1>1
<1>3. ASSUME NEW a \in Aspects, NEW d \in Cells
      PROVE  InOutbox(a, d)' <=> \/ InOutbox(a, d)
                                 \/ \E i \in 1..Len(events) : About(events[i], a, d)
  <2>1. ASSUME NEW q \in Requests, NEW i \in 1..Len(outbox[q]), About(outbox[q][i], a, d)
        PROVE  InOutbox(a, d)'
    <3>1. q # r
      BY <1>1, <2>1
    <3> QED BY <1>2, <2>1, <3>1 DEF InOutbox
  <2>2. ASSUME NEW q \in Requests, NEW i \in 1..Len(outbox'[q]), About(outbox'[q][i], a, d)
        PROVE  \/ InOutbox(a, d)
               \/ \E j \in 1..Len(events) : About(events[j], a, d)
    <3>1. CASE q = r
      BY <1>2, <2>2, <3>1
    <3>2. CASE q # r
      BY <1>2, <2>2, <3>2 DEF InOutbox
    <3> QED BY <3>1, <3>2
  <2>3. ASSUME NEW i \in 1..Len(events), About(events[i], a, d)
        PROVE  InOutbox(a, d)'
    BY <1>2, <2>3 DEF InOutbox
  <2>4. InOutbox(a, d) => InOutbox(a, d)'
    BY <2>1 DEF InOutbox
  <2>5. InOutbox(a, d)' => \/ InOutbox(a, d)
                           \/ \E j \in 1..Len(events) : About(events[j], a, d)
    BY <2>2 DEF InOutbox
  <2> QED BY <2>3, <2>4, <2>5
<1>4. \A d \in Said(events) : d \notin astray' => ~Owed(d)
  BY DEF Owe
<1>5. OutboxRight'
  <2> SUFFICES ASSUME NEW a \in Aspects, NEW d \in Cells, NEW q \in Requests,
                      NEW i \in 1..Len(outbox'[q]), ~Wrong(a, d)',
                      LastWord(outbox'[q], i, a, d)
               PROVE  Holds(a, d, Word(outbox[q][i]))'
    BY DEF OutboxRight
  <2>0. d \notin astray' /\ ~Wrong(a, d)
    BY <1>1 DEF Wrong, Silent
  <2>1. CASE q = r
    BY <1>2, <2>0, <2>1
  <2>2. CASE q # r
    <3>1. Holds(a, d, Word(outbox[q][i])) /\ Owed(d)
      BY <1>2, <2>0, <2>2 DEF Inv, OutboxRight, Owed, Said, LastWord, About
    <3>2. d \notin Said(events)
      BY <1>4, <2>0, <3>1
    <3>3. \A k \in 1..Len(events) : ~About(events[k], a, d)
      BY <3>2 DEF Said, About
    <3> QED BY <1>2, <2>2, <3>1, <3>3
  <2> QED BY <2>1, <2>2
<1>6. ASSUME NEW a \in Aspects, NEW d \in Cells
      PROVE  \/ Wrong(a, d)' \/ InOutbox(a, d)'
             \/ ~InOutbox(a, d) /\ \A w : Holds(a, d, w) => Holds(a, d, w)'
  BY <1>3
<1> QED BY <1>1, <1>5, <1>6, ServiceKeeps

(* An operation other than a Claim leaves those that may be refused alone. *)
LEMMA OthersKeepClaims ==
    ASSUME Inv, NEW r \in Requests, NEW events, Owe(r, events), undo' = undo
    PROVE  ClaimsSpeakOfBoxes'
<1>1. /\ outbox \in [Requests -> Seq(Events)] /\ outbox[r] = <<>>
      /\ outbox' = [outbox EXCEPT ![r] = events]
  BY DEF Owe, Inv, TypeOK
<1> SUFFICES ASSUME NEW q \in Requests, undo'[q].open
             PROVE  /\ outbox'[q] # <<>>
                    /\ \A i \in 1..Len(outbox'[q]) : outbox'[q][i].kind # "paint"
                    /\ undo'[q].back \subseteq Said(outbox'[q])
  BY DEF ClaimsSpeakOfBoxes, Said
<1>2. q # r /\ outbox'[q] = outbox[q]
  BY <1>1 DEF Inv, ClaimsSpeakOfBoxes
<1> QED BY <1>2 DEF Inv, ClaimsSpeakOfBoxes

(* A Claim speaks of its boxes.                                            *)
LEMMA ClaimSpeaks ==
    ASSUME Inv, NEW r \in Requests, NEW events, NEW u, outbox' = [outbox EXCEPT ![r] = events],
           undo' = [undo EXCEPT ![r] = u],
           u.open => /\ events # <<>> /\ \A i \in 1..Len(events) : events[i].kind # "paint"
                     /\ u.back \subseteq Said(events)
    PROVE  ClaimsSpeakOfBoxes'
<1>1. /\ outbox'[r] = events /\ undo'[r] = u
      /\ \A q \in Requests : q # r => outbox'[q] = outbox[q] /\ undo'[q] = undo[q]
  BY DEF Inv, TypeOK
<1> SUFFICES ASSUME NEW q \in Requests, undo'[q].open
             PROVE  /\ outbox'[q] # <<>>
                    /\ \A i \in 1..Len(outbox'[q]) : outbox'[q][i].kind # "paint"
                    /\ undo'[q].back \subseteq Said(outbox'[q])
  BY DEF ClaimsSpeakOfBoxes, Said
<1>2. CASE q = r
  BY <1>1, <1>2
<1>3. CASE q # r
  BY <1>1, <1>3 DEF Inv, ClaimsSpeakOfBoxes
<1> QED BY <1>2, <1>3

(* ClaimCell owes the lock.                                                *)
LEMMA ClaimKeeps ==
    ASSUME Inv, TypeOK', NEW r \in Requests, NEW c \in Cells, ClaimCell(r, c)
    PROVE  Inv'
<1> DEFINE events == <<Lock(c)>>
           u == [NoUndo EXCEPT !.open = TRUE]
<1>1. /\ Owe(r, events) /\ bmp' = bmp /\ undo' = [undo EXCEPT ![r] = u]
      /\ locks' = locks \cup {c} /\ expired' = expired \ {c}
      /\ outbox' = [outbox EXCEPT ![r] = events]
  BY DEF ClaimCell, Owe
<1>2. events \in Seq(Events) /\ Len(events) = 1 /\ events[1] = Lock(c)
  BY DEF Events
<1>3. u.back = {}
  BY DEF NoUndo
<1>4. ASSUME NEW a \in Aspects, NEW d \in Cells, NEW i \in 1..Len(events),
             LastWord(events, i, a, d)
      PROVE  Holds(a, d, Word(events[i]))'
  BY <1>1, <1>2, <1>4 DEF LastWord, About, Holds, Word, Box, Lock, Aspects
<1>5. ASSUME NEW a \in Aspects, NEW d \in Cells
      PROVE  \/ \E i \in 1..Len(events) : About(events[i], a, d)
             \/ \A w : Holds(a, d, w) => Holds(a, d, w)'
  <2>1. CASE d = c /\ a = "box"
    BY <1>2, <2>1 DEF About, Lock
  <2>2. CASE d # c \/ a # "box"
    BY <1>1, <2>2 DEF Holds, Box, Aspects
  <2> QED BY <2>1, <2>2
<1>6. events # <<>> /\ \A i \in 1..Len(events) : events[i].kind # "paint"
  BY <1>2 DEF Lock
<1> HIDE DEF events, u
<1>7. ClaimsSpeakOfBoxes'
  BY <1>1, <1>3, <1>6, ClaimSpeaks
<1> QED BY <1>1, <1>2, <1>4, <1>5, <1>7, OweKeeps

(* A superseding Claim owes the unlock of the old cell and the new one's   *)
(* lock; where they are one cell, the lock is the last word.               *)
LEMMA SupersedeKeeps ==
    ASSUME Inv, TypeOK', NEW r \in Requests, NEW c \in Cells, NEW d \in Cells,
           SupersedeClaim(r, c, d)
    PROVE  Inv'
<1> DEFINE events == <<Unlock(d), Lock(c)>>
           u == [open |-> TRUE, back |-> {d} \cap locks, late |-> {d} \cap expired]
<1>1. /\ Owe(r, events) /\ bmp' = bmp /\ undo' = [undo EXCEPT ![r] = u]
      /\ locks' \in {(locks \ {d}) \cup {c}, locks \cup {c}}
      /\ expired' = (expired \ {c}) \cap locks'
      /\ outbox' = [outbox EXCEPT ![r] = events]
  BY DEF SupersedeClaim, Vacated, Owe
<1>2. /\ events \in Seq(Events) /\ Len(events) = 2
      /\ events[1] = Unlock(d) /\ events[2] = Lock(c)
  BY DEF Events
<1>3. u.back \subseteq {d}
  OBVIOUS
<1>4. d \in locks' /\ d # c => d \in astray'
  <2> SUFFICES ASSUME d \in locks', d # c PROVE d \in astray'
    OBVIOUS
  <2>1. d \in Said(events)
    BY <1>2 DEF Said, Unlock
  <2>2. 1 \in 1..Len(events) /\ \A j \in 1 + 1..Len(events) : events[j] # Lock(d)
    BY <1>2 DEF Lock
  <2>3. UnlockedAlone(events, d)
    BY <1>2, <2>2 DEF UnlockedAlone
  <2> HIDE DEF events
  <2> QED BY <1>1, <2>1, <2>3 DEF Owe
<1>5. ASSUME NEW a \in Aspects, NEW x \in Cells, NEW i \in 1..Len(events), x \notin astray',
             LastWord(events, i, a, x)
      PROVE  Holds(a, x, Word(events[i]))'
  <2>1. CASE i = 2
    BY <1>1, <1>2, <1>5, <2>1 DEF LastWord, About, Holds, Word, Box, Lock, Aspects
  <2>2. CASE i = 1
    <3>1. About(Unlock(d), a, x) /\ ~About(Lock(c), a, x)
      BY <1>2, <1>5, <2>2 DEF LastWord
    <3>2. a = "box" /\ x = d /\ d # c
      BY <3>1 DEF About, Unlock, Lock, Aspects
    <3>3. x \notin locks'
      BY <1>4, <1>5, <3>2
    <3> QED BY <1>2, <2>2, <3>2, <3>3 DEF Holds, Word, Box, Unlock
  <2> QED BY <1>2, <2>1, <2>2
<1>6. ASSUME NEW a \in Aspects, NEW x \in Cells
      PROVE  \/ \E i \in 1..Len(events) : About(events[i], a, x)
             \/ \A w : Holds(a, x, w) => Holds(a, x, w)'
  <2>1. CASE x \in {c, d} /\ a = "box"
    BY <1>2, <2>1 DEF About, Lock, Unlock
  <2>2. CASE x \notin {c, d} \/ a # "box"
    <3>1. a = "box" => (x \in locks' <=> x \in locks) /\ (x \in expired' <=> x \in expired)
      BY <1>1, <2>2 DEF Inv, TypeOK
    <3> QED BY <1>1, <3>1 DEF Holds, Box, Aspects
  <2> QED BY <2>1, <2>2
<1>7. events # <<>> /\ \A i \in 1..Len(events) : events[i].kind # "paint"
  BY <1>2 DEF Lock, Unlock
<1>8. u.back \subseteq Said(events)
  BY <1>2, <1>3 DEF Said, Unlock
<1> HIDE DEF events, u
<1>9. ClaimsSpeakOfBoxes'
  BY <1>1, <1>7, <1>8, ClaimSpeaks
<1> QED BY <1>1, <1>2, <1>5, <1>6, <1>9, OweKeeps

(* Cancel owes the unlock; a lock that stands makes the cell go astray.    *)
LEMMA CancelKeeps ==
    ASSUME Inv, TypeOK', NEW r \in Requests, NEW c \in Cells, CancelCell(r, c)
    PROVE  Inv'
<1> DEFINE events == <<Unlock(c)>>
<1>1. /\ Owe(r, events) /\ bmp' = bmp /\ undo' = undo
      /\ locks' \in {locks \ {c}, locks} /\ expired' = expired \cap locks'
  BY DEF CancelCell, VacateLock, Vacated
<1>2. events \in Seq(Events) /\ Len(events) = 1 /\ events[1] = Unlock(c)
  BY DEF Events
<1>3. c \in locks' => c \in astray'
  <2>1. c \in Said(events) /\ UnlockedAlone(events, c)
    BY <1>2 DEF Said, UnlockedAlone, Unlock
  <2> HIDE DEF events
  <2> QED BY <1>1, <2>1 DEF Owe
<1>4. ASSUME NEW a \in Aspects, NEW d \in Cells, NEW i \in 1..Len(events), d \notin astray',
             LastWord(events, i, a, d)
      PROVE  Holds(a, d, Word(events[i]))'
  BY <1>2, <1>3, <1>4 DEF LastWord, About, Holds, Word, Box, Unlock, Aspects
<1>5. ASSUME NEW a \in Aspects, NEW d \in Cells
      PROVE  \/ \E i \in 1..Len(events) : About(events[i], a, d)
             \/ \A w : Holds(a, d, w) => Holds(a, d, w)'
  <2>1. CASE d = c /\ a = "box"
    BY <1>2, <2>1 DEF About, Unlock
  <2>2. CASE d # c \/ a # "box"
    BY <1>1, <2>2 DEF Holds, Box, Aspects, Inv, TypeOK
  <2> QED BY <2>1, <2>2
<1> HIDE DEF events
<1>6. ClaimsSpeakOfBoxes'
  BY <1>1, OthersKeepClaims
<1> QED BY <1>1, <1>2, <1>4, <1>5, <1>6, OweKeeps

(* The reaper owes the unlock of every lock it removes.                    *)
LEMMA ReapKeeps ==
    ASSUME Inv, TypeOK', NEW r \in Requests, ReapExpired(r)
    PROVE  Inv'
<1>1. PICK S \in SUBSET expired \ {{}} :
          /\ locks' = locks \ S /\ expired' = expired \ S
          /\ \E order \in Orders(S) : Owe(r, [i \in 1..Cardinality(S) |-> Unlock(order[i])])
          /\ UNCHANGED <<bmp, undo>>
  BY DEF ReapExpired
<1>2. PICK order \in Orders(S) : Owe(r, [i \in 1..Cardinality(S) |-> Unlock(order[i])])
  BY <1>1
<1> DEFINE n == Cardinality(S)
           events == [i \in 1..n |-> Unlock(order[i])]
<1>3. S \subseteq Cells /\ n \in Nat
  BY HubAssumption, FS_Subset, FS_CardinalityType DEF Inv, TypeOK
<1>4. /\ order \in [1..n -> S]
      /\ \A d \in S : \E i \in 1..n : order[i] = d
  BY DEF Orders
<1>5. events \in Seq(Events)
  BY <1>3, ReapedEvents
<1>6. Len(events) = n /\ \A i \in 1..n : events[i] = Unlock(order[i])
  BY <1>3
<1>7. Owe(r, events)
  BY <1>2
<1> HIDE DEF events
<1>8. ASSUME NEW a \in Aspects, NEW d \in Cells, NEW i \in 1..Len(events),
             LastWord(events, i, a, d)
      PROVE  Holds(a, d, Word(events[i]))'
  <2>1. events[i] = Unlock(order[i]) /\ order[i] \in S
    BY <1>4, <1>6
  <2>2. a = "box" /\ d = order[i]
    BY <1>8, <2>1 DEF LastWord, About, Unlock, Aspects
  <2>3. d \notin locks'
    BY <1>1, <2>1, <2>2
  <2> QED BY <2>1, <2>2, <2>3 DEF Holds, Word, Box, Unlock
<1>9. ASSUME NEW a \in Aspects, NEW d \in Cells
      PROVE  \/ \E i \in 1..Len(events) : About(events[i], a, d)
             \/ \A w : Holds(a, d, w) => Holds(a, d, w)'
  <2>1. CASE d \in S /\ a = "box"
    <3>1. PICK i \in 1..n : order[i] = d
      BY <1>4, <2>1
    <3>2. About(events[i], a, d)
      BY <1>6, <2>1, <3>1 DEF About, Unlock
    <3> QED BY <1>6, <3>1, <3>2
  <2>2. CASE d \notin S \/ a # "box"
    BY <1>1, <2>2 DEF Holds, Box, Aspects
  <2> QED BY <2>1, <2>2
<1>10. ClaimsSpeakOfBoxes'
  BY <1>1, <1>7, OthersKeepClaims
<1> QED BY <1>5, <1>7, <1>8, <1>9, <1>10, OweKeeps

(* Confirm owes both.                                                      *)
LEMMA ConfirmKeeps ==
    ASSUME Inv, TypeOK', NEW r \in Requests, NEW c \in Cells, NEW col \in Colors,
           ConfirmCell(r, c, col)
    PROVE  Inv'
<1> DEFINE events == <<Unlock(c), Paint(c, col)>>
<1>1. /\ Owe(r, events) /\ bmp' = [bmp EXCEPT ![c] = col] /\ undo' = undo
      /\ locks' \in {locks \ {c}, locks} /\ expired' = expired \cap locks'
  BY DEF ConfirmCell, VacateLock, Vacated
<1>2. /\ events \in Seq(Events) /\ Len(events) = 2
      /\ events[1] = Unlock(c) /\ events[2] = Paint(c, col)
  BY DEF Events
<1>3. \A i \in 1..Len(events) : events[i] \in {Unlock(c), Paint(c, col)}
  BY <1>2
<1>4. c \in locks' => c \in astray'
  <2>1. c \in Said(events)
    BY <1>2 DEF Said, Unlock
  <2>2. 1 \in 1..Len(events) /\ \A j \in 1 + 1..Len(events) : events[j] # Lock(c)
    BY <1>2 DEF Lock, Paint
  <2>3. UnlockedAlone(events, c)
    BY <1>2, <2>2 DEF UnlockedAlone
  <2> HIDE DEF events
  <2> QED BY <1>1, <2>1, <2>3 DEF Owe
<1>5. bmp'[c] = col /\ \A d \in Cells : d # c => bmp'[d] = bmp[d]
  BY <1>1 DEF Inv, TypeOK, Bitmaps
<1>6. ASSUME NEW a \in Aspects, NEW d \in Cells, NEW i \in 1..Len(events), d \notin astray',
             LastWord(events, i, a, d)
      PROVE  Holds(a, d, Word(events[i]))'
  <2>1. About(events[i], a, d)
    BY <1>6 DEF LastWord
  <2>2. CASE events[i] = Unlock(c)
    <3>1. d = c /\ a = "box" /\ c \notin locks'
      BY <1>4, <1>6, <2>1, <2>2 DEF About, Unlock, Aspects
    <3> QED BY <2>2, <3>1 DEF Holds, Word, Box, Unlock
  <2>3. CASE events[i] = Paint(c, col)
    <3>1. d = c /\ a = "paint"
      BY <2>1, <2>3 DEF About, Paint, Aspects
    <3> QED BY <1>5, <2>3, <3>1 DEF Holds, Word, Paint
  <2> QED BY <1>3, <2>2, <2>3
<1>7. ASSUME NEW a \in Aspects, NEW d \in Cells
      PROVE  \/ \E i \in 1..Len(events) : About(events[i], a, d)
             \/ \A w : Holds(a, d, w) => Holds(a, d, w)'
  <2>1. CASE d = c /\ a = "box"
    BY <1>2, <2>1 DEF About, Unlock
  <2>2. CASE d = c /\ a = "paint"
    BY <1>2, <2>2 DEF About, Paint
  <2>3. CASE d # c
    BY <1>1, <1>5, <2>3 DEF Holds, Box, Aspects, Inv, TypeOK
  <2> QED BY <2>1, <2>2, <2>3 DEF Aspects
<1> HIDE DEF events
<1>8. ClaimsSpeakOfBoxes'
  BY <1>1, OthersKeepClaims
<1> QED BY <1>1, <1>2, <1>6, <1>7, <1>8, OweKeeps

(* ApplyEvent owes the paint.                                              *)
LEMMA FollowKeeps ==
    ASSUME Inv, TypeOK', NEW r \in Requests, NEW c \in Cells, NEW col \in Colors,
           FollowPaint(r, c, col)
    PROVE  Inv'
<1> DEFINE events == <<Paint(c, col)>>
<1>1. /\ Owe(r, events) /\ bmp' = [bmp EXCEPT ![c] = col] /\ undo' = undo
      /\ locks' = locks /\ expired' = expired
  BY DEF FollowPaint
<1>2. events \in Seq(Events) /\ Len(events) = 1 /\ events[1] = Paint(c, col)
  BY DEF Events
<1>3. bmp'[c] = col /\ \A d \in Cells : d # c => bmp'[d] = bmp[d]
  BY <1>1 DEF Inv, TypeOK, Bitmaps
<1>4. ASSUME NEW a \in Aspects, NEW d \in Cells, NEW i \in 1..Len(events),
             LastWord(events, i, a, d)
      PROVE  Holds(a, d, Word(events[i]))'
  <2>1. a = "paint" /\ d = c /\ events[i] = Paint(c, col)
    BY <1>2, <1>4 DEF LastWord, About, Paint, Aspects
  <2> QED BY <1>3, <2>1 DEF Holds, Word, Paint
<1>5. ASSUME NEW a \in Aspects, NEW d \in Cells
      PROVE  \/ \E i \in 1..Len(events) : About(events[i], a, d)
             \/ \A w : Holds(a, d, w) => Holds(a, d, w)'
  <2>1. CASE d = c /\ a = "paint"
    BY <1>2, <2>1 DEF About, Paint
  <2>2. CASE d # c \/ a # "paint"
    BY <1>1, <1>3, <2>2 DEF Holds, Box, Aspects
  <2> QED BY <2>1, <2>2
<1> HIDE DEF events
<1>6. ClaimsSpeakOfBoxes'
  BY <1>1, OthersKeepClaims
<1> QED BY <1>1, <1>2, <1>4, <1>5, <1>6, OweKeeps

(* The boxes a refused Claim was to speak of are silent, and those are all *)
(* that its refusal changes.                                               *)
LEMMA RefusedKeeps ==
    ASSUME Inv, TypeOK', NEW r \in Requests, NEW c \in Cells, RefusedClaim(r, c)
    PROVE  Inv'
<1> DEFINE spoken == Said(outbox[r])
<1>1. /\ UNCHANGED <<bmp, sub, channel, batch, wire, view, missed, astray, crossed>>
      /\ locks' = (locks \ {c}) \cup undo[r].back
      /\ expired' = (expired \ ({c} \cup undo[r].back)) \cup undo[r].late
      /\ unsaid' = unsaid \cup spoken
      /\ outbox' = [outbox EXCEPT ![r] = <<>>] /\ undo' = [undo EXCEPT ![r] = NoUndo]
      /\ undo[r].open /\ outbox[r][Len(outbox[r])] = Lock(c)
      /\ outbox \in [Requests -> Seq(Events)]
  BY DEF RefusedClaim, Inv, TypeOK
<1>2. outbox'[r] = <<>> /\ \A q \in Requests : q # r => outbox'[q] = outbox[q]
  BY <1>1
<1>3. /\ undo[r].back \subseteq spoken
      /\ outbox[r] # <<>> /\ \A i \in 1..Len(outbox[r]) : outbox[r][i].kind # "paint"
  BY <1>1 DEF Inv, ClaimsSpeakOfBoxes
<1>4. c \in spoken
  <2>1. outbox[r] \in Seq(Events) /\ Len(outbox[r]) \in 1..Len(outbox[r])
    BY <1>1, <1>3
  <2>2. outbox[r][Len(outbox[r])].cell = c
    BY <1>1 DEF Lock
  <2> QED BY <2>1, <2>2 DEF Said
<1>5. undo[r].late \subseteq undo[r].back
  BY DEF Inv, TypeOK, Undos
<1> HIDE DEF spoken
<1>6. \A d \in spoken : Wrong("box", d)'
  BY <1>1 DEF Wrong, Silent
<1>7. ASSUME NEW a \in Aspects, NEW d \in Cells, ~Wrong(a, d)'
      PROVE  /\ ~Wrong(a, d)
             /\ \A w : Holds(a, d, w) => Holds(a, d, w)'
             /\ InOutbox(a, d) => InOutbox(a, d)'
  <2>1. ~Wrong(a, d)
    BY <1>1, <1>7 DEF Wrong, Silent
  <2>2. a = "paint" \/ d \notin spoken
    BY <1>6, <1>7 DEF Aspects
  <2>3. \A w : Holds(a, d, w) => Holds(a, d, w)'
    BY <1>1, <1>3, <1>4, <1>5, <2>2 DEF Holds, Box
  <2>4. \A i \in 1..Len(outbox[r]) : ~About(outbox[r][i], a, d)
    BY <1>3, <2>2 DEF About, spoken, Said
  <2>5. ASSUME NEW q \in Requests, NEW i \in 1..Len(outbox[q]), About(outbox[q][i], a, d)
        PROVE  InOutbox(a, d)'
    <3>1. q # r
      BY <2>4, <2>5
    <3> QED BY <1>2, <2>5, <3>1 DEF InOutbox
  <2>6. InOutbox(a, d) => InOutbox(a, d)'
    BY <2>5 DEF InOutbox
  <2> QED BY <2>1, <2>3, <2>6
<1>8. OutboxRight'
  <2> SUFFICES ASSUME NEW a \in Aspects, NEW d \in Cells, NEW q \in Requests,
                      NEW i \in 1..Len(outbox'[q]), ~Wrong(a, d)', LastWord(outbox'[q], i, a, d)
               PROVE  Holds(a, d, Word(outbox[q][i]))'
    BY DEF OutboxRight
  <2>1. q # r
    BY <1>2
  <2>2. Holds(a, d, Word(outbox[q][i]))
    BY <1>2, <1>7, <2>1 DEF Inv, OutboxRight
  <2> QED BY <1>2, <1>7, <2>1, <2>2
<1>9. \A a \in Aspects, d \in Cells :
          \/ Wrong(a, d)' \/ InOutbox(a, d)'
          \/ ~InOutbox(a, d) /\ \A w : Holds(a, d, w) => Holds(a, d, w)'
  BY <1>7
<1>10. ~NoUndo.open
  BY DEF NoUndo
<1>11. ClaimsSpeakOfBoxes'
  BY <1>1, <1>10, ClaimSpeaks
<1> QED BY <1>1, <1>8, <1>9, <1>11, ServiceKeeps

(* Of a failed void nothing is said, and the lock that is said next is     *)
(* the last word still.                                                    *)
LEMMA VoidFailsKeeps ==
    ASSUME Inv, TypeOK', NEW r \in Requests, NEW c \in Cells, NEW d \in Cells,
           VoidFails(r, c, d)
    PROVE  Inv'
<1>1. /\ UNCHANGED <<bmp, locks, expired, sub, channel, batch, wire, view, missed, astray, crossed>>
      /\ unsaid' = unsaid \cup ({d} \ {c})
      /\ outbox[r] = <<Unlock(d), Lock(c)>>
      /\ outbox' = [outbox EXCEPT ![r] = Tail(outbox[r])]
      /\ undo' = [undo EXCEPT ![r] = NoUndo]
      /\ outbox \in [Requests -> Seq(Events)]
  BY DEF VoidFails, Inv, TypeOK
<1>2. /\ Tail(outbox[r]) = <<Lock(c)>>
      /\ Len(outbox[r]) = 2 /\ outbox[r][1] = Unlock(d) /\ outbox[r][2] = Lock(c)
  <2> DEFINE x == Unlock(d)
             y == Lock(c)
  <2> HIDE DEF x, y
  <2>1. /\ Tail(<<x, y>>) = <<y>>
        /\ Len(<<x, y>>) = 2 /\ <<x, y>>[1] = x /\ <<x, y>>[2] = y
    OBVIOUS
  <2>2. outbox[r] = <<x, y>>
    BY <1>1 DEF x, y
  <2> QED BY <2>1, <2>2 DEF x, y
<1>3. outbox'[r] = <<Lock(c)>> /\ \A q \in Requests : q # r => outbox'[q] = outbox[q]
  BY <1>1, <1>2
<1>4. \A a \in Aspects, x \in Cells : \A w : Holds(a, x, w) => Holds(a, x, w)'
  BY <1>1 DEF Holds, Box
<1>5. \A a \in Aspects, x \in Cells : Wrong(a, x) => Wrong(a, x)'
  BY <1>1 DEF Wrong, Silent
<1>6. ASSUME NEW a \in Aspects, NEW x \in Cells, InOutbox(a, x), ~Wrong(a, x)'
      PROVE  InOutbox(a, x)'
  <2>1. PICK q \in Requests : \E i \in 1..Len(outbox[q]) : About(outbox[q][i], a, x)
    BY <1>6 DEF InOutbox
  <2>2. PICK i \in 1..Len(outbox[q]) : About(outbox[q][i], a, x)
    BY <2>1
  <2>3. CASE q # r
    BY <1>3, <2>2, <2>3 DEF InOutbox
  <2>4. CASE q = r
    <3>1. About(Unlock(d), a, x) \/ About(Lock(c), a, x)
      <4>1. i \in {1, 2}
        BY <1>2, <2>2, <2>4
      <4> QED BY <1>2, <2>2, <2>4, <4>1
    <3>2. a = "box" /\ x \in {c, d}
      BY <3>1 DEF About, Unlock, Lock, Aspects
    <3>3. x = c
      BY <1>1, <1>6, <3>2 DEF Wrong, Silent
    <3>4. About(Lock(c), a, x) /\ Len(outbox'[r]) = 1 /\ outbox'[r][1] = Lock(c)
      BY <1>3, <3>2, <3>3 DEF About, Lock
    <3> QED BY <3>4 DEF InOutbox
  <2> QED BY <2>3, <2>4
<1>7. OutboxRight'
  <2> SUFFICES ASSUME NEW a \in Aspects, NEW x \in Cells, NEW q \in Requests,
                      NEW i \in 1..Len(outbox'[q]), ~Wrong(a, x)', LastWord(outbox'[q], i, a, x)
               PROVE  Holds(a, x, Word(outbox[q][i]))'
    BY DEF OutboxRight
  <2>1. ~Wrong(a, x)
    BY <1>5
  <2>2. CASE q # r
    <3>1. Holds(a, x, Word(outbox[q][i]))
      BY <1>3, <2>1, <2>2 DEF Inv, OutboxRight
    <3> QED BY <1>3, <1>4, <2>2, <3>1
  <2>3. CASE q = r
    <3>1. outbox'[q][i] = Lock(c) /\ About(Lock(c), a, x)
      BY <1>3, <2>3 DEF LastWord
    <3>2. 2 \in 1..Len(outbox[r]) /\ outbox[r][2] = Lock(c) /\ LastWord(outbox[r], 2, a, x)
      <4>1. 2 \in 1..Len(outbox[r]) /\ 2 + 1..Len(outbox[r]) = {}
        BY <1>2
      <4> QED BY <1>2, <3>1, <4>1 DEF LastWord
    <3>3. Holds(a, x, Word(Lock(c)))
      BY <2>1, <3>2 DEF Inv, OutboxRight
    <3> QED BY <1>4, <3>1, <3>3
  <2> QED BY <2>2, <2>3
<1>8. \A a \in Aspects, x \in Cells :
          \/ Wrong(a, x)' \/ InOutbox(a, x)'
          \/ ~InOutbox(a, x) /\ \A w : Holds(a, x, w) => Holds(a, x, w)'
  BY <1>4, <1>6
<1>9. ~NoUndo.open
  BY DEF NoUndo
<1>10. ClaimsSpeakOfBoxes'
  BY <1>1, <1>9, ClaimSpeaks
<1> QED BY <1>1, <1>7, <1>8, <1>10, ServiceKeeps

(* Of a lock that expires everything is right.                             *)
LEMMA ExpireKeeps ==
    ASSUME Inv, TypeOK', NEW c \in Cells, Expire(c)
    PROVE  Inv'
<1>1. /\ UNCHANGED <<bmp, locks, outbox, undo, sub, channel, batch, wire, view, missed, astray,
                     unsaid, crossed>>
      /\ expired' = expired \cup {c}
  BY DEF Expire
<1>2. \A a \in Aspects, d \in Cells : \A w : Holds(a, d, w) => Holds(a, d, w)'
  BY <1>1 DEF Holds, Box
<1>3. \A a \in Aspects, d \in Cells : InOutbox(a, d)' <=> InOutbox(a, d)
  BY <1>1 DEF InOutbox
<1>4. OutboxRight'
  BY <1>1, <1>2 DEF OutboxRight, Wrong, Silent, Inv
<1>5. ClaimsSpeakOfBoxes'
  BY <1>1 DEF ClaimsSpeakOfBoxes, Said, Inv
<1> QED BY <1>1, <1>2, <1>3, <1>4, <1>5, ServiceKeeps

(***************************************************************************)
(* The stream: every stage hands on in order what it was told last.        *)
(***************************************************************************)
(* With the server as it was, the stages behind the channel stay right if  *)
(* nothing about them left the outbox and the channel unseen.              *)
LEMMA LaterKeeps ==
    ASSUME Inv, UNCHANGED <<bmp, locks, expired, sub, batch, wire, view, astray, unsaid, crossed>>,
           missed \subseteq missed',
           \A a \in Aspects, d \in Cells :
               d \notin missed' /\ ~InOutbox(a, d)' /\ ~InStream(a, d)'
                   => ~InOutbox(a, d) /\ ~InStream(a, d)
    PROVE  BatchRight' /\ WireRight' /\ ScreenRight'
<1>1. \A a \in Aspects, d \in Cells :
          /\ InBatch(a, d)' <=> InBatch(a, d)
          /\ OnWire(a, d)' <=> OnWire(a, d)
          /\ ScreenWord(a, d)' = ScreenWord(a, d)
          /\ ~Excused(a, d)' => ~Excused(a, d) /\ d \notin missed'
          /\ \A w : Holds(a, d, w) => Holds(a, d, w)'
  BY DEF InBatch, OnWire, ScreenWord, Excused, Wrong, Silent, FlushPatch, Holds, Box, batch, view
<1>2. FlushPatch' = FlushPatch
  BY DEF FlushPatch, batch
<1>3. BatchRight'
  <2> SUFFICES ASSUME NEW a \in Aspects, NEW d \in Cells, ~Excused(a, d)', ~InOutbox(a, d)',
                      ~InStream(a, d)', InBatch(a, d)'
               PROVE  Holds(a, d, PatchWord(FlushPatch, a, d))'
    BY DEF BatchRight
  <2>1. Holds(a, d, PatchWord(FlushPatch, a, d))
    BY <1>1 DEF Inv, BatchRight
  <2> QED BY <1>1, <1>2, <2>1
<1>4. WireRight'
  <2> SUFFICES ASSUME NEW a \in Aspects, NEW d \in Cells, ~Excused(a, d)', ~InOutbox(a, d)',
                      ~InStream(a, d)', ~InBatch(a, d)', NEW i \in 1..Len(wire'),
                      PatchAbout(wire'[i], a, d),
                      \A j \in i + 1..Len(wire') : ~PatchAbout(wire'[j], a, d)
               PROVE  Holds(a, d, PatchWord(wire[i], a, d))'
    BY DEF WireRight
  <2>1. Holds(a, d, PatchWord(wire[i], a, d))
    BY <1>1 DEF Inv, WireRight
  <2> QED BY <1>1, <2>1
<1>5. ScreenRight'
  <2> SUFFICES ASSUME NEW a \in Aspects, NEW d \in Cells, sub' = "streaming",
                      ~Excused(a, d)', d \notin kept', ~InOutbox(a, d)',
                      ~InStream(a, d)', ~InBatch(a, d)', ~OnWire(a, d)'
               PROVE  Holds(a, d, ScreenWord(a, d))'
    BY DEF ScreenRight
  <2>1. Holds(a, d, ScreenWord(a, d))
    BY <1>1 DEF Inv, ScreenRight, view
  <2> QED BY <1>1, <2>1
<1> QED BY <1>3, <1>4, <1>5

(* A broadcast takes a word from the outbox to the end of the channel; a   *)
(* full channel excuses the cell, and without a subscriber all is empty.   *)
LEMMA BroadcastKeeps ==
    ASSUME Inv, TypeOK', NEW r \in Requests, Broadcast(r)
    PROVE  Inv'
<1> DEFINE ev == Head(outbox[r])
<1>1. /\ outbox \in [Requests -> Seq(Events)] /\ outbox[r] # <<>>
      /\ outbox' = [outbox EXCEPT ![r] = Tail(outbox[r])]
      /\ undo' = [undo EXCEPT ![r] = NoUndo]
      /\ UNCHANGED <<bmp, locks, expired, sub, batch, wire, view, astray, unsaid, crossed>>
      /\ IF sub = "none" THEN UNCHANGED <<channel, missed>> ELSE Offer(ev)
      /\ channel \in Seq(Events)
  BY DEF Broadcast, Inv, TypeOK
<1>2. /\ outbox'[r] = Tail(outbox[r]) /\ \A q \in Requests : q # r => outbox'[q] = outbox[q]
      /\ outbox[r] \in Seq(Events) /\ ev \in Events
  BY <1>1
<1>3. /\ Len(outbox[r]) \in Nat /\ Len(outbox[r]) >= 1 /\ outbox[r][1] = ev
      /\ Len(outbox'[r]) = Len(outbox[r]) - 1
      /\ \A i \in 1..Len(outbox'[r]) : i + 1 \in 1..Len(outbox[r]) /\ outbox'[r][i] = outbox[r][i + 1]
  BY <1>1, <1>2, HeadTailProperties
<1>4. \A j \in 2..Len(outbox[r]) :
           j - 1 \in 1..Len(outbox'[r]) /\ outbox'[r][j - 1] = outbox[r][j]
  <2> SUFFICES ASSUME NEW j \in 2..Len(outbox[r])
               PROVE  j - 1 \in 1..Len(outbox'[r]) /\ outbox'[r][j - 1] = outbox[r][j]
    OBVIOUS
  <2>1. j - 1 \in 1..Len(outbox'[r]) /\ (j - 1) + 1 = j
    BY <1>3
  <2> QED BY <1>3, <2>1
<1>5. \A a \in Aspects, d \in Cells : \A w : Holds(a, d, w) => Holds(a, d, w)'
  BY <1>1 DEF Holds, Box
<1>6. ASSUME NEW a \in Aspects, NEW d \in Cells, ~About(ev, a, d), InOutbox(a, d)
      PROVE  InOutbox(a, d)'
  <2>1. PICK q \in Requests : \E i \in 1..Len(outbox[q]) : About(outbox[q][i], a, d)
    BY <1>6 DEF InOutbox
  <2>2. PICK i \in 1..Len(outbox[q]) : About(outbox[q][i], a, d)
    BY <2>1
  <2>3. CASE q # r
    BY <1>2, <2>2, <2>3 DEF InOutbox
  <2>4. CASE q = r
    <3>1. i # 1
      BY <1>3, <1>6, <2>2, <2>4
    <3>2. i - 1 \in 1..Len(outbox'[r]) /\ outbox'[r][i - 1] = outbox[r][i]
      <4>1. i \in Nat /\ i >= 2 /\ i <= Len(outbox[r])
        BY <1>3, <2>4, <3>1
      <4>2. i - 1 \in 1..Len(outbox'[r]) /\ (i - 1) + 1 = i
        BY <1>3, <4>1
      <4> QED BY <1>3, <4>2
    <3> QED BY <2>2, <2>4, <3>2 DEF InOutbox
  <2> QED BY <2>3, <2>4
<1>7. \A a \in Aspects, d \in Cells : Wrong(a, d)' <=> Wrong(a, d)
  BY <1>1 DEF Wrong, Silent
<1>8. OutboxRight'
  <2> SUFFICES ASSUME NEW a \in Aspects, NEW d \in Cells, NEW q \in Requests,
                      NEW i \in 1..Len(outbox'[q]), ~Wrong(a, d)', LastWord(outbox'[q], i, a, d)
               PROVE  Holds(a, d, Word(outbox[q][i]))'
    BY DEF OutboxRight
  <2>1. CASE q = r
    <3>1. LastWord(outbox[q], i + 1, a, d)
      <4> SUFFICES ASSUME NEW j \in (i + 1) + 1..Len(outbox[r]) PROVE ~About(outbox[r][j], a, d)
        BY <1>3, <2>1 DEF LastWord
      <4>1. j \in 2..Len(outbox[r]) /\ j - 1 \in i + 1..Len(outbox'[r])
        BY <1>3, <2>1
      <4>2. outbox'[r][j - 1] = outbox[r][j]
        BY <1>4, <4>1
      <4> QED BY <2>1, <4>1, <4>2 DEF LastWord
    <3>2. Holds(a, d, Word(outbox[q][i + 1]))
      BY <1>3, <1>7, <2>1, <3>1 DEF Inv, OutboxRight
    <3> QED BY <1>3, <1>5, <2>1, <3>2
  <2>2. CASE q # r
    <3>1. Holds(a, d, Word(outbox[q][i]))
      BY <1>2, <1>7, <2>2 DEF Inv, OutboxRight
    <3> QED BY <1>2, <1>5, <2>2, <3>1
  <2> QED BY <2>1, <2>2
<1>9. ASSUME NEW a \in Aspects, NEW d \in Cells, ~Wrong(a, d), ~InOutbox(a, d)', About(ev, a, d)
      PROVE  Holds(a, d, Word(ev))
  <2>1. LastWord(outbox[r], 1, a, d)
    <3> SUFFICES ASSUME NEW j \in 1 + 1..Len(outbox[r]) PROVE ~About(outbox[r][j], a, d)
      BY <1>3, <1>9 DEF LastWord
    <3>1. j \in 2..Len(outbox[r])
      OBVIOUS
    <3> QED BY <1>9, <1>4, <3>1 DEF InOutbox
  <2> QED BY <1>3, <1>9, <2>1 DEF Inv, OutboxRight
<1>10. ClaimsSpeakOfBoxes'
  BY <1>1, ClaimSpeaks DEF NoUndo
<1>11. CASE sub = "none"
  <2>1. channel' = <<>> /\ wire' = <<>> /\ deltas' = <<>> /\ lockAdds' = {} /\ lockRemoves' = {}
    BY <1>1, <1>11 DEF Inv, StreamsInOrder, batch
  <2>2. ChannelRight'
    BY <2>1 DEF ChannelRight
  <2>3. BatchRight'
    BY <2>1 DEF BatchRight, InBatch, PatchAbout, FlushPatch
  <2>4. WireRight'
    BY <2>1 DEF WireRight
  <2>5. ScreenRight' /\ StreamsInOrder'
    BY <1>1, <1>11, <2>1 DEF ScreenRight, StreamsInOrder
  <2> QED BY <1>8, <1>10, <2>2, <2>3, <2>4, <2>5 DEF Inv
<1>12. CASE sub # "none" /\ Len(channel) < ChanSize
  <2>1. channel' = Append(channel, ev) /\ missed' = missed
    BY <1>1, <1>12 DEF Offer
  <2>2. /\ Len(channel) \in Nat /\ Len(channel') = Len(channel) + 1
        /\ channel'[Len(channel) + 1] = ev
        /\ \A i \in 1..Len(channel) : channel'[i] = channel[i]
    BY <1>1, <1>2, <2>1, AppendProperties
  <2>3. \A a \in Aspects, d \in Cells : ~InStream(a, d)' => ~InStream(a, d) /\ ~About(ev, a, d)
    BY <2>2 DEF InStream
  <2>4. ChannelRight'
    <3> SUFFICES ASSUME NEW a \in Aspects, NEW d \in Cells, d \notin missed', ~Wrong(a, d)',
                        ~InOutbox(a, d)', NEW i \in 1..Len(channel'), About(channel'[i], a, d),
                        \A j \in i + 1..Len(channel') : ~About(channel'[j], a, d)
                 PROVE  Holds(a, d, Word(channel[i]))'
      BY DEF ChannelRight
    <3>1. CASE i = Len(channel) + 1
      BY <1>5, <1>9, <1>7, <2>2, <3>1
    <3>2. CASE i # Len(channel) + 1
      <4>1. i \in 1..Len(channel) /\ Len(channel) + 1 \in i + 1..Len(channel')
        BY <2>2, <3>2
      <4>2. ~About(ev, a, d)
        BY <2>2, <4>1
      <4>3. \A j \in i + 1..Len(channel) : ~About(channel[j], a, d)
        BY <2>2, <4>1
      <4>4. Holds(a, d, Word(channel[i]))
        BY <1>6, <1>7, <2>1, <2>2, <4>1, <4>2, <4>3 DEF Inv, ChannelRight
      <4> QED BY <1>5, <2>2, <4>1, <4>4
    <3> QED BY <3>1, <3>2
  <2>5. BatchRight' /\ WireRight' /\ ScreenRight'
    BY <1>1, <1>6, <2>1, <2>3, LaterKeeps
  <2>6. StreamsInOrder'
    BY <1>1, <1>12 DEF Inv, StreamsInOrder, batch
  <2> QED BY <1>8, <1>10, <2>4, <2>5, <2>6 DEF Inv
<1>13. CASE sub # "none" /\ ~(Len(channel) < ChanSize)
  <2>1. channel' = channel /\ missed' = missed \cup {ev.cell}
    BY <1>1, <1>13 DEF Offer
  <2>2. \A a \in Aspects, d \in Cells : d \notin missed' => ~About(ev, a, d)
    BY <2>1 DEF About
  <2>3. ChannelRight'
    <3> SUFFICES ASSUME NEW a \in Aspects, NEW d \in Cells, d \notin missed', ~Wrong(a, d)',
                        ~InOutbox(a, d)', NEW i \in 1..Len(channel'), About(channel'[i], a, d),
                        \A j \in i + 1..Len(channel') : ~About(channel'[j], a, d)
                 PROVE  Holds(a, d, Word(channel[i]))'
      BY DEF ChannelRight
    <3>1. Holds(a, d, Word(channel[i]))
      BY <1>6, <1>7, <2>1, <2>2 DEF Inv, ChannelRight
    <3> QED BY <1>5, <2>1, <3>1
  <2>4. \A a \in Aspects, d \in Cells : InStream(a, d)' <=> InStream(a, d)
    BY <2>1 DEF InStream
  <2>5. BatchRight' /\ WireRight' /\ ScreenRight'
    BY <1>1, <1>6, <2>1, <2>2, <2>4, LaterKeeps
  <2>6. StreamsInOrder'
    BY <1>1, <1>13, <2>1 DEF Inv, StreamsInOrder, batch
  <2> QED BY <1>8, <1>10, <2>3, <2>5, <2>6 DEF Inv
<1> QED BY <1>11, <1>12, <1>13

(* The new subscriber finds nothing of the old one's.                      *)
LEMMA ConnectKeeps ==
    ASSUME Inv, TypeOK', Connect
    PROVE  Inv'
<1>1. /\ UNCHANGED <<bmp, locks, expired, outbox, undo, channel, batch, wire, view, missed, astray,
                     unsaid, crossed>>
      /\ sub = "none" /\ sub' = "registered"
  BY DEF Connect, service
<1>2. channel' = <<>> /\ wire' = <<>> /\ deltas' = <<>> /\ lockAdds' = {} /\ lockRemoves' = {}
  BY <1>1 DEF Inv, StreamsInOrder, batch
<1>3. OutboxRight' /\ ClaimsSpeakOfBoxes'
  <2>1. OutboxRight'
    BY <1>1 DEF Inv, OutboxRight, Wrong, Silent, Holds, Box
  <2>2. ClaimsSpeakOfBoxes'
    BY <1>1 DEF Inv, ClaimsSpeakOfBoxes, Said
  <2> QED BY <2>1, <2>2
<1>4. ChannelRight' /\ WireRight'
  BY <1>2 DEF ChannelRight, WireRight
<1>5. BatchRight'
  BY <1>2 DEF BatchRight, InBatch, PatchAbout, FlushPatch
<1>6. ScreenRight' /\ StreamsInOrder'
  BY <1>1, <1>2 DEF ScreenRight, StreamsInOrder
<1> QED BY <1>3, <1>4, <1>5, <1>6 DEF Inv

(* The snapshot is the last word on everything, and nothing was sent       *)
(* before it.                                                              *)
LEMMA SnapshotKeeps ==
    ASSUME Inv, TypeOK', SendSnapshot
    PROVE  Inv'
<1>1. /\ UNCHANGED <<bmp, locks, expired, outbox, undo, channel, batch, view, missed>>
      /\ sub = "registered" /\ sub' = "streaming" /\ wire' = Append(wire, SnapshotPatch)
      /\ astray' = {c \in astray : Owed(c) \/ InChannel(c)}
      /\ unsaid' = {c \in unsaid : Owed(c) \/ InChannel(c)}
      /\ outbox \in [Requests -> Seq(Events)] /\ channel \in Seq(Events)
  BY DEF SendSnapshot, service, Inv, TypeOK
<1>2. wire' = <<SnapshotPatch>> /\ deltas' = <<>> /\ lockAdds' = {} /\ lockRemoves' = {}
  BY <1>1 DEF Inv, StreamsInOrder, batch
<1>3. ASSUME NEW a \in Aspects, NEW c \in Cells, Wrong(a, c), ~Wrong(a, c)'
      PROVE  ~InOutbox(a, c) /\ ~InStream(a, c)
  <2>1. ~Owed(c) /\ ~InChannel(c)
    BY <1>1, <1>3 DEF Wrong, Silent
  <2> QED BY <2>1 DEF Owed, Said, InChannel, InOutbox, InStream, About
<1>4. \A a \in Aspects, d \in Cells :
          /\ InOutbox(a, d)' <=> InOutbox(a, d)
          /\ InStream(a, d)' <=> InStream(a, d)
          /\ \A w : Holds(a, d, w) => Holds(a, d, w)'
  BY <1>1 DEF InOutbox, InStream, Holds, Box
<1>5. OutboxRight'
  <2> SUFFICES ASSUME NEW a \in Aspects, NEW d \in Cells, NEW q \in Requests,
                      NEW i \in 1..Len(outbox'[q]), ~Wrong(a, d)', LastWord(outbox'[q], i, a, d)
               PROVE  Holds(a, d, Word(outbox[q][i]))'
    BY DEF OutboxRight
  <2>1. ~Wrong(a, d)
    BY <1>1, <1>3 DEF InOutbox, LastWord
  <2>2. Holds(a, d, Word(outbox[q][i]))
    BY <1>1, <2>1 DEF Inv, OutboxRight
  <2> QED BY <1>1, <1>4, <2>2
<1>6. ChannelRight'
  <2> SUFFICES ASSUME NEW a \in Aspects, NEW d \in Cells, d \notin missed', ~Wrong(a, d)',
                      ~InOutbox(a, d)', NEW i \in 1..Len(channel'), About(channel'[i], a, d),
                      \A j \in i + 1..Len(channel') : ~About(channel'[j], a, d)
               PROVE  Holds(a, d, Word(channel[i]))'
    BY DEF ChannelRight
  <2>1. ~Wrong(a, d)
    BY <1>1, <1>3 DEF InStream
  <2>2. Holds(a, d, Word(channel[i]))
    BY <1>1, <1>4, <2>1 DEF Inv, ChannelRight
  <2> QED BY <1>1, <1>4, <2>2
<1>7. BatchRight'
  BY <1>2 DEF BatchRight, InBatch, PatchAbout, FlushPatch
<1>8. \A a \in Aspects, d \in Cells :
          /\ PatchAbout(SnapshotPatch, a, d)
          /\ Holds(a, d, PatchWord(SnapshotPatch, a, d))
  BY DEF PatchAbout, PatchWord, SnapshotPatch, Holds, Box, Aspects
<1>9. Len(wire') = 1 /\ wire'[1] = SnapshotPatch
  BY <1>2
<1>10. WireRight'
  <2> SUFFICES ASSUME NEW a \in Aspects, NEW d \in Cells, NEW i \in 1..Len(wire')
               PROVE  Holds(a, d, PatchWord(wire[i], a, d))'
    BY DEF WireRight
  <2>1. wire'[i] = SnapshotPatch
    BY <1>9
  <2> QED BY <1>4, <1>8, <2>1
<1>11. ScreenRight'
  <2>1. \A a \in Aspects, d \in Cells : OnWire(a, d)'
    BY <1>8, <1>9 DEF OnWire
  <2> QED BY <2>1 DEF ScreenRight
<1>12. StreamsInOrder'
  BY <1>1 DEF StreamsInOrder
<1>13. ClaimsSpeakOfBoxes'
  BY <1>1 DEF Inv, ClaimsSpeakOfBoxes, Said
<1> QED BY <1>5, <1>6, <1>7, <1>10, <1>11, <1>12, <1>13 DEF Inv

(* What the flusher collects is its last word on the event's aspect, and   *)
(* no other word of the batch changes.                                     *)
LEMMA CollectedWord ==
    ASSUME TypeOK, NEW ev \in Events, Collect(ev), NEW a \in Aspects, NEW d \in Cells
    PROVE  /\ About(ev, a, d) => /\ InBatch(a, d)'
                                 /\ \/ a = "box" /\ ev.kind = "lock" /\ d \in lockRemoves
                                    \/ PatchWord(FlushPatch, a, d)' = Word(ev)
           /\ ~About(ev, a, d) => /\ InBatch(a, d)' <=> InBatch(a, d)
                                  /\ InBatch(a, d) =>
                                        PatchWord(FlushPatch, a, d)' = PatchWord(FlushPatch, a, d)
<1>1. /\ ev.kind \in {"paint", "lock", "unlock"} /\ ev.cell \in Cells
      /\ ev.kind = "paint" => ev.color \in Colors
  BY DEF Events, Lock, Unlock, Paint
<1>2. deltas \in Seq(Deltas)
  BY DEF TypeOK
<1>3. /\ FlushPatch.kind = "flush" /\ FlushPatch.deltas = deltas
      /\ FlushPatch.adds = lockAdds /\ FlushPatch.removes = lockRemoves
      /\ FlushPatch'.kind = "flush" /\ FlushPatch'.deltas = deltas'
      /\ FlushPatch'.adds = lockAdds' /\ FlushPatch'.removes = lockRemoves'
  BY DEF FlushPatch
<1>4. CASE a = "paint"
  <2>1. /\ InBatch(a, d) <=> \E i \in 1..Len(deltas) : deltas[i].cell = d
        /\ InBatch(a, d)' <=> \E i \in 1..Len(deltas') : deltas'[i].cell = d
        /\ PatchWord(FlushPatch, a, d) = deltas[LastOn(deltas, d)].color
        /\ PatchWord(FlushPatch, a, d)' = deltas'[LastOn(deltas', d)].color
    BY <1>3, <1>4 DEF InBatch, PatchAbout, PatchWord
  <2>2. CASE ev.kind = "paint"
    <3> DEFINE e == [cell |-> ev.cell, color |-> ev.color]
    <3>1. e \in Deltas /\ e.cell = ev.cell /\ e.color = ev.color
      BY <1>1, <2>2 DEF Deltas
    <3>2. deltas' = Append(deltas, e)
      BY <2>2 DEF Collect
    <3> HIDE DEF e
    <3>3. /\ Len(deltas) \in Nat /\ Len(deltas') = Len(deltas) + 1
          /\ deltas'[Len(deltas) + 1] = e
          /\ \A i \in 1..Len(deltas) : deltas'[i] = deltas[i]
      BY <1>2, <3>1, <3>2, AppendProperties
    <3>4. CASE ev.cell = d
      <4>1. LastOn(deltas', d) = Len(deltas) + 1
        BY <1>2, <3>1, <3>2, <3>4, LastOnAppend
      <4>2. PatchWord(FlushPatch, a, d)' = Word(ev)
        BY <2>1, <2>2, <3>1, <3>3, <4>1 DEF Word
      <4>3. InBatch(a, d)' /\ About(ev, a, d)
        <5> Len(deltas) + 1 \in 1..Len(deltas')
          BY <3>3
        <5> QED BY <1>4, <2>1, <2>2, <3>1, <3>3, <3>4 DEF About
      <4> QED BY <4>2, <4>3
    <3>5. CASE ev.cell # d
      <4>1. ~About(ev, a, d)
        BY <3>5 DEF About
      <4>2. InBatch(a, d)' <=> InBatch(a, d)
        BY SMTT(40), <2>1, <3>1, <3>3, <3>5
      <4>3. ASSUME InBatch(a, d)
            PROVE  PatchWord(FlushPatch, a, d)' = PatchWord(FlushPatch, a, d)
        <5>1. LastOn(deltas', d) = LastOn(deltas, d)
          BY <1>2, <2>1, <3>1, <3>2, <3>5, <4>3, LastOnAppend
        <5>2. LastOn(deltas, d) \in 1..Len(deltas)
          BY <1>2, <2>1, <4>3, LastOnIsLast
        <5> QED BY <2>1, <3>3, <5>1, <5>2
      <4> QED BY <4>1, <4>2, <4>3
    <3> QED BY <3>4, <3>5
  <2>3. CASE ev.kind # "paint"
    <3>1. deltas' = deltas /\ ~About(ev, a, d)
      BY <1>4, <2>3 DEF Collect, About
    <3> QED BY <2>1, <3>1
  <2> QED BY <2>2, <2>3
<1>5. CASE a = "box"
  <2>1. /\ InBatch(a, d) <=> d \in lockAdds \cup lockRemoves
        /\ InBatch(a, d)' <=> d \in lockAdds' \cup lockRemoves'
        /\ PatchWord(FlushPatch, a, d) = IF d \in lockRemoves THEN "clear" ELSE "drawn"
        /\ PatchWord(FlushPatch, a, d)' = IF d \in lockRemoves' THEN "clear" ELSE "drawn"
    BY <1>3, <1>5 DEF InBatch, PatchAbout, PatchWord
  <2>2. CASE ev.kind = "paint" \/ ev.cell # d
    <3>1. ~About(ev, a, d)
      BY <1>5, <2>2 DEF About
    <3>2. (d \in lockAdds' <=> d \in lockAdds) /\ (d \in lockRemoves' <=> d \in lockRemoves)
      BY <2>2 DEF Collect
    <3> QED BY <2>1, <3>1, <3>2
  <2>3. CASE ev.kind = "lock" /\ ev.cell = d
    <3>1. d \in lockAdds' /\ lockRemoves' = lockRemoves /\ Word(ev) = "drawn"
      BY <2>3 DEF Collect, Word
    <3>2. About(ev, a, d)
      BY <1>5, <2>3 DEF About
    <3> QED BY <1>5, <2>1, <2>3, <3>1, <3>2
  <2>4. CASE ev.kind = "unlock" /\ ev.cell = d
    <3>1. d \in lockRemoves' /\ Word(ev) = "clear"
      BY <2>4 DEF Collect, Word
    <3>2. About(ev, a, d)
      BY <1>5, <2>4 DEF About
    <3> QED BY <2>1, <3>1, <3>2
  <2> QED BY <1>1, <2>2, <2>3, <2>4
<1> QED BY <1>4, <1>5 DEF Aspects

(* The flusher takes the first word of the channel into the batch; a cell  *)
(* unlocked and locked in one batch is excused.                            *)
LEMMA ReceiveKeeps ==
    ASSUME Inv, TypeOK', Receive
    PROVE  Inv'
<1> DEFINE ev == Head(channel)
<1>1. /\ UNCHANGED <<bmp, locks, expired, outbox, undo, sub, wire, view, missed, astray, unsaid>>
      /\ sub = "streaming" /\ channel # <<>> /\ channel' = Tail(channel)
      /\ Collect(ev) /\ crossed' = crossed \cup {c \in lockRemoves : ev = Lock(c)}
      /\ channel \in Seq(Events) /\ wire \in Seq(Snapshots \cup Flushes)
  BY DEF Receive, service, Inv, TypeOK
<1>2. /\ Len(channel) \in Nat /\ Len(channel) >= 1 /\ channel[1] = ev /\ ev \in Events
      /\ Len(channel') = Len(channel) - 1
      /\ \A i \in 1..Len(channel') : i + 1 \in 1..Len(channel) /\ channel'[i] = channel[i + 1]
  BY <1>1, HeadTailProperties
<1>3. \A j \in 2..Len(channel) : j - 1 \in 1..Len(channel') /\ channel'[j - 1] = channel[j]
  <2> SUFFICES ASSUME NEW j \in 2..Len(channel)
               PROVE  j - 1 \in 1..Len(channel') /\ channel'[j - 1] = channel[j]
    OBVIOUS
  <2>1. j - 1 \in 1..Len(channel') /\ (j - 1) + 1 = j
    BY <1>2
  <2> QED BY <1>2, <2>1
<1>4. \A a \in Aspects, d \in Cells :
          /\ InOutbox(a, d)' <=> InOutbox(a, d)
          /\ OnWire(a, d)' <=> OnWire(a, d)
          /\ ScreenWord(a, d)' = ScreenWord(a, d)
          /\ ~Excused(a, d)' => ~Excused(a, d)
          /\ Wrong(a, d)' <=> Wrong(a, d)
          /\ \A w : Holds(a, d, w) => Holds(a, d, w)'
  BY <1>1 DEF InOutbox, OnWire, ScreenWord, Excused, Wrong, Silent, Holds, Box, view
<1>5. \A a \in Aspects, d \in Cells :
          ~InStream(a, d)' => \A j \in 2..Len(channel) : ~About(channel[j], a, d)
  BY <1>3 DEF InStream
<1>6. \A a \in Aspects, d \in Cells : ~InStream(a, d)' /\ ~About(ev, a, d) => ~InStream(a, d)
  <2> SUFFICES ASSUME NEW a \in Aspects, NEW d \in Cells, ~InStream(a, d)', ~About(ev, a, d),
                      NEW j \in 1..Len(channel)
               PROVE  ~About(channel[j], a, d)
    BY DEF InStream
  <2>1. j = 1 \/ j \in 2..Len(channel)
    OBVIOUS
  <2> QED BY <1>2, <1>5, <2>1
<1> HIDE DEF ev
<1>7. OutboxRight'
  BY <1>1, <1>4 DEF Inv, OutboxRight
<1>8. ChannelRight'
  <2> SUFFICES ASSUME NEW a \in Aspects, NEW d \in Cells, d \notin missed', ~Wrong(a, d)',
                      ~InOutbox(a, d)', NEW i \in 1..Len(channel'), About(channel'[i], a, d),
                      \A j \in i + 1..Len(channel') : ~About(channel'[j], a, d)
               PROVE  Holds(a, d, Word(channel[i]))'
    BY DEF ChannelRight
  <2>1. i + 1 \in 1..Len(channel) /\ channel'[i] = channel[i + 1]
    BY <1>2
  <2>2. ASSUME NEW j \in (i + 1) + 1..Len(channel) PROVE ~About(channel[j], a, d)
    <3>1. j \in 2..Len(channel) /\ j - 1 \in i + 1..Len(channel')
      BY <1>2
    <3> QED BY <1>3, <3>1
  <2>3. Holds(a, d, Word(channel[i + 1]))
    BY <1>1, <1>4, <2>1, <2>2 DEF Inv, ChannelRight
  <2> QED BY <1>4, <2>1, <2>3
<1>9. TypeOK
  BY DEF Inv
<1>10. BatchRight'
  <2> SUFFICES ASSUME NEW a \in Aspects, NEW d \in Cells, ~Excused(a, d)', ~InOutbox(a, d)',
                      ~InStream(a, d)', InBatch(a, d)'
               PROVE  Holds(a, d, PatchWord(FlushPatch, a, d))'
    BY DEF BatchRight
  <2>1. CASE About(ev, a, d)
    <3>1. Holds(a, d, Word(ev))
      <4>1. d \notin missed /\ ~Wrong(a, d) /\ ~InOutbox(a, d)
        BY <1>1, <1>4 DEF Excused
      <4>2. 1 \in 1..Len(channel) /\ \A j \in 1 + 1..Len(channel) : ~About(channel[j], a, d)
        BY <1>2, <1>5
      <4> QED BY <1>2, <2>1, <4>1, <4>2 DEF Inv, ChannelRight
    <3>2. ~(a = "box" /\ ev.kind = "lock" /\ d \in lockRemoves)
      <4> SUFFICES ASSUME a = "box", ev.kind = "lock", d \in lockRemoves
                   PROVE  FALSE
        OBVIOUS
      <4>1. ev = Lock(d)
        BY <1>2, <2>1 DEF Events, Lock, Unlock, Paint, About
      <4> QED BY <1>1, <4>1 DEF Excused
    <3>3. PatchWord(FlushPatch, a, d)' = Word(ev)
      BY <1>1, <1>2, <1>9, <2>1, <3>2, CollectedWord
    <3> QED BY <1>4, <3>1, <3>3
  <2>2. CASE ~About(ev, a, d)
    <3>1. InBatch(a, d) /\ PatchWord(FlushPatch, a, d)' = PatchWord(FlushPatch, a, d)
      BY <1>1, <1>2, <1>9, <2>2, CollectedWord
    <3>2. Holds(a, d, PatchWord(FlushPatch, a, d))
      BY <1>4, <1>6, <2>2, <3>1 DEF Inv, BatchRight
    <3> QED BY <1>4, <3>1, <3>2
  <2> QED BY <2>1, <2>2
<1>11. \A a \in Aspects, d \in Cells :
           ~InStream(a, d)' /\ ~InBatch(a, d)' => ~InStream(a, d) /\ ~InBatch(a, d)
  BY <1>1, <1>2, <1>6, <1>9, CollectedWord
<1>12. WireRight'
  <2> SUFFICES ASSUME NEW a \in Aspects, NEW d \in Cells, ~Excused(a, d)', ~InOutbox(a, d)',
                      ~InStream(a, d)', ~InBatch(a, d)', NEW i \in 1..Len(wire'),
                      PatchAbout(wire'[i], a, d),
                      \A j \in i + 1..Len(wire') : ~PatchAbout(wire'[j], a, d)
               PROVE  Holds(a, d, PatchWord(wire[i], a, d))'
    BY DEF WireRight
  <2>1. Holds(a, d, PatchWord(wire[i], a, d))
    BY <1>1, <1>4, <1>11 DEF Inv, WireRight
  <2> QED BY <1>1, <1>4, <2>1
<1>13. ScreenRight'
  <2> SUFFICES ASSUME NEW a \in Aspects, NEW d \in Cells, sub' = "streaming",
                      ~Excused(a, d)', d \notin kept', ~InOutbox(a, d)',
                      ~InStream(a, d)', ~InBatch(a, d)', ~OnWire(a, d)'
               PROVE  Holds(a, d, ScreenWord(a, d))'
    BY DEF ScreenRight
  <2>1. Holds(a, d, ScreenWord(a, d))
    BY <1>1, <1>4, <1>11 DEF Inv, ScreenRight, view
  <2> QED BY <1>4, <2>1
<1>14. StreamsInOrder'
  BY <1>1 DEF StreamsInOrder
<1>15. ClaimsSpeakOfBoxes'
  BY <1>1 DEF Inv, ClaimsSpeakOfBoxes, Said
<1> QED BY <1>7, <1>8, <1>10, <1>12, <1>13, <1>14, <1>15 DEF Inv

(* A flush is the last word on the wire of everything it is about.         *)
LEMMA FlushKeeps ==
    ASSUME Inv, TypeOK', Flush
    PROVE  Inv'
<1>1. /\ UNCHANGED <<bmp, locks, expired, outbox, undo, sub, channel, view, missed, astray, unsaid,
                     crossed>>
      /\ sub = "streaming" /\ wire' = Append(wire, FlushPatch)
      /\ deltas' = <<>> /\ lockAdds' = {} /\ lockRemoves' = {}
      /\ wire \in Seq(Snapshots \cup Flushes)
  BY DEF Flush, service, Inv, TypeOK
<1>2. FlushPatch \in Snapshots \cup Flushes
  BY DEF FlushPatch, Flushes, Inv, TypeOK
<1>3. /\ Len(wire) \in Nat /\ Len(wire') = Len(wire) + 1 /\ wire'[Len(wire) + 1] = FlushPatch
      /\ \A i \in 1..Len(wire) : wire'[i] = wire[i]
  BY <1>1, <1>2, AppendProperties
<1>4. \A a \in Aspects, d \in Cells :
          /\ InOutbox(a, d)' <=> InOutbox(a, d)
          /\ InStream(a, d)' <=> InStream(a, d)
          /\ ScreenWord(a, d)' = ScreenWord(a, d)
          /\ Excused(a, d)' <=> Excused(a, d)
          /\ Wrong(a, d)' <=> Wrong(a, d)
          /\ \A w : Holds(a, d, w) => Holds(a, d, w)'
  BY <1>1 DEF InOutbox, InStream, ScreenWord, Excused, Wrong, Silent, Holds, Box, view
<1>5. OutboxRight'
  BY <1>1, <1>4 DEF Inv, OutboxRight
<1>6. ChannelRight'
  BY <1>1, <1>4 DEF Inv, ChannelRight
<1>7. BatchRight'
  BY <1>1 DEF BatchRight, InBatch, PatchAbout, FlushPatch
<1>8. WireRight'
  <2> SUFFICES ASSUME NEW a \in Aspects, NEW d \in Cells, ~Excused(a, d)', ~InOutbox(a, d)',
                      ~InStream(a, d)', NEW i \in 1..Len(wire'), PatchAbout(wire'[i], a, d),
                      \A j \in i + 1..Len(wire') : ~PatchAbout(wire'[j], a, d)
               PROVE  Holds(a, d, PatchWord(wire[i], a, d))'
    BY DEF WireRight
  <2>1. CASE i = Len(wire) + 1
    <3>1. Holds(a, d, PatchWord(FlushPatch, a, d))
      BY <1>3, <1>4, <2>1 DEF Inv, BatchRight, InBatch
    <3> QED BY <1>3, <1>4, <2>1, <3>1
  <2>2. CASE i # Len(wire) + 1
    <3>1. i \in 1..Len(wire) /\ Len(wire) + 1 \in i + 1..Len(wire')
      BY <1>3, <2>2
    <3>2. ~InBatch(a, d)
      BY <1>3, <3>1 DEF InBatch
    <3>3. \A j \in i + 1..Len(wire) : ~PatchAbout(wire[j], a, d)
      BY <1>3, <3>1
    <3>4. Holds(a, d, PatchWord(wire[i], a, d))
      BY <1>3, <1>4, <3>1, <3>2, <3>3 DEF Inv, WireRight
    <3> QED BY <1>3, <1>4, <3>1, <3>4
  <2> QED BY <2>1, <2>2
<1>9. \A a \in Aspects, d \in Cells : ~OnWire(a, d)' => ~OnWire(a, d) /\ ~InBatch(a, d)
  BY <1>3 DEF OnWire, InBatch
<1>10. ScreenRight'
  <2> SUFFICES ASSUME NEW a \in Aspects, NEW d \in Cells, sub' = "streaming",
                      ~Excused(a, d)', d \notin kept', ~InOutbox(a, d)',
                      ~InStream(a, d)', ~OnWire(a, d)'
               PROVE  Holds(a, d, ScreenWord(a, d))'
    BY DEF ScreenRight
  <2>1. Holds(a, d, ScreenWord(a, d))
    BY <1>1, <1>4, <1>9 DEF Inv, ScreenRight, view
  <2> QED BY <1>4, <2>1
<1>11. StreamsInOrder'
  BY <1>1 DEF StreamsInOrder
<1>12. ClaimsSpeakOfBoxes'
  BY <1>1 DEF Inv, ClaimsSpeakOfBoxes, Said
<1> QED BY <1>5, <1>6, <1>7, <1>8, <1>10, <1>11, <1>12 DEF Inv

(* Nothing of a broken stream is left.                                     *)
LEMMA BreakKeeps ==
    ASSUME Inv, TypeOK', Break
    PROVE  Inv'
<1>1. /\ UNCHANGED <<bmp, locks, expired, outbox, undo>>
      /\ sub' = "none" /\ channel' = <<>> /\ wire' = <<>>
      /\ deltas' = <<>> /\ lockAdds' = {} /\ lockRemoves' = {}
      /\ astray' = {c \in astray : Owed(c)} /\ unsaid' = {c \in unsaid : Owed(c)}
  BY DEF Break, service
<1>2. OutboxRight'
  <2> SUFFICES ASSUME NEW a \in Aspects, NEW d \in Cells, NEW q \in Requests,
                      NEW i \in 1..Len(outbox'[q]), ~Wrong(a, d)', LastWord(outbox'[q], i, a, d)
               PROVE  Holds(a, d, Word(outbox[q][i]))'
    BY DEF OutboxRight
  <2>1. Owed(d)
    BY <1>1 DEF Owed, Said, About, LastWord
  <2>3. ~Wrong(a, d)
    BY <1>1, <2>1 DEF Wrong, Silent
  <2>2. Holds(a, d, Word(outbox[q][i]))
    BY <1>1, <2>3 DEF Inv, OutboxRight
  <2> QED BY <1>1, <2>2 DEF Holds, Box
<1>3. ChannelRight' /\ WireRight'
  BY <1>1 DEF ChannelRight, WireRight
<1>4. BatchRight'
  BY <1>1 DEF BatchRight, InBatch, PatchAbout, FlushPatch
<1>5. ScreenRight' /\ StreamsInOrder'
  BY <1>1 DEF ScreenRight, StreamsInOrder
<1>6. ClaimsSpeakOfBoxes'
  BY <1>1 DEF Inv, ClaimsSpeakOfBoxes, Said
<1> QED BY <1>2, <1>3, <1>4, <1>5, <1>6 DEF Inv

(***************************************************************************)
(* The view.                                                               *)
(***************************************************************************)
(* A patch that is about an aspect makes the screen say what it says,      *)
(* where a snapshot was applied; one that is not leaves it alone.          *)
LEMMA ShownWord ==
    ASSUME TypeOK, NEW p \in Snapshots \cup Flushes, NEW a \in Aspects, NEW d \in Cells,
           IF p.kind = "snapshot" THEN ShowSnapshot(p) ELSE ShowFlush(p)
    PROVE  /\ PatchAbout(p, a, d) /\ d \notin kept' => ScreenWord(a, d)' = PatchWord(p, a, d)
           /\ ~PatchAbout(p, a, d) => ScreenWord(a, d)' = ScreenWord(a, d) /\ kept' = kept
<1>1. CASE p.kind = "snapshot"
  <2>1. /\ lockSet' = IF SameLocks(p.locks) THEN lockSet ELSE p.locks
        /\ kept' = {c \in Cells : live'[c] # p.bmp[c] \/ (c \in lockSet' /\ c \notin p.locks)}
    BY <1>1 DEF ShowSnapshot
  <2>2. d \in p.locks => d \in lockSet'
    BY <2>1 DEF SameLocks
  <2>3. d \notin kept' => live'[d] = p.bmp[d] /\ (d \in lockSet' <=> d \in p.locks)
    BY <2>1, <2>2
  <2>4. PatchAbout(p, a, d)
    BY <1>1 DEF PatchAbout
  <2>5. CASE a = "paint"
    BY <1>1, <2>3, <2>4, <2>5 DEF ScreenWord, PatchWord
  <2>6. CASE a = "box"
    BY <1>1, <2>3, <2>4, <2>6 DEF ScreenWord, PatchWord, Box
  <2> QED BY <2>5, <2>6 DEF Aspects
<1>2. CASE p.kind # "snapshot"
  <2>1. /\ live' = Painted(live, p.deltas)
        /\ lockSet' = (lockSet \cup p.adds) \ p.removes
        /\ kept' = kept
    BY <1>2 DEF ShowFlush
  <2>2. CASE a = "paint"
    <3>1. PatchAbout(p, a, d) <=> \E i \in 1..Len(p.deltas) : p.deltas[i].cell = d
      BY <1>2, <2>2 DEF PatchAbout
    <3>2. live'[d] = IF PatchAbout(p, a, d) THEN p.deltas[LastOn(p.deltas, d)].color ELSE live[d]
      BY <2>1, <3>1 DEF Painted
    <3>3. PatchWord(p, a, d) = p.deltas[LastOn(p.deltas, d)].color
      BY <1>2, <2>2 DEF PatchWord
    <3> QED BY <2>1, <2>2, <3>2, <3>3 DEF ScreenWord
  <2>3. CASE a = "box"
    <3>1. PatchAbout(p, a, d) <=> d \in p.adds \cup p.removes
      BY <1>2, <2>3 DEF PatchAbout
    <3>2. PatchWord(p, a, d) = IF d \in p.removes THEN "clear" ELSE "drawn"
      BY <1>2, <2>3 DEF PatchWord
    <3> QED BY <2>1, <2>3, <3>1, <3>2 DEF ScreenWord, Box
  <2> QED BY <2>2, <2>3 DEF Aspects
<1> QED BY <1>1, <1>2

(* The view shows the first patch on the wire.                             *)
LEMMA RenderKeeps ==
    ASSUME Inv, TypeOK', Render
    PROVE  Inv'
<1> DEFINE p == Head(wire)
<1>1. /\ UNCHANGED <<bmp, locks, expired, outbox, undo, sub, channel, batch, missed, astray, unsaid,
                     crossed>>
      /\ wire # <<>> /\ wire' = Tail(wire)
      /\ IF p.kind = "snapshot" THEN ShowSnapshot(p) ELSE ShowFlush(p)
      /\ wire \in Seq(Snapshots \cup Flushes)
  BY DEF Render, service, Inv, TypeOK
<1>2. /\ Len(wire) \in Nat /\ Len(wire) >= 1 /\ wire[1] = p /\ p \in Snapshots \cup Flushes
      /\ Len(wire') = Len(wire) - 1
      /\ \A i \in 1..Len(wire') : i + 1 \in 1..Len(wire) /\ wire'[i] = wire[i + 1]
  BY <1>1, HeadTailProperties
<1>3. \A j \in 2..Len(wire) : j - 1 \in 1..Len(wire') /\ wire'[j - 1] = wire[j]
  <2> SUFFICES ASSUME NEW j \in 2..Len(wire)
               PROVE  j - 1 \in 1..Len(wire') /\ wire'[j - 1] = wire[j]
    OBVIOUS
  <2>1. j - 1 \in 1..Len(wire') /\ (j - 1) + 1 = j
    BY <1>2
  <2> QED BY <1>2, <2>1
<1>4. \A a \in Aspects, d \in Cells :
          /\ InOutbox(a, d)' <=> InOutbox(a, d)
          /\ InStream(a, d)' <=> InStream(a, d)
          /\ InBatch(a, d)' <=> InBatch(a, d)
          /\ Excused(a, d)' <=> Excused(a, d)
          /\ Wrong(a, d)' <=> Wrong(a, d)
          /\ \A w : Holds(a, d, w) => Holds(a, d, w)'
  BY <1>1 DEF InOutbox, InStream, InBatch, FlushPatch, Excused, Wrong, Silent, Holds, Box, batch
<1>5. FlushPatch' = FlushPatch
  BY <1>1 DEF FlushPatch, batch
<1>6. sub = "streaming"
  BY <1>1 DEF Inv, StreamsInOrder
<1>7. TypeOK
  BY DEF Inv
<1> HIDE DEF p
<1>8. OutboxRight'
  BY <1>1, <1>4 DEF Inv, OutboxRight
<1>9. ChannelRight'
  BY <1>1, <1>4 DEF Inv, ChannelRight
<1>10. BatchRight'
  BY <1>1, <1>4, <1>5 DEF Inv, BatchRight
<1>11. WireRight'
  <2> SUFFICES ASSUME NEW a \in Aspects, NEW d \in Cells, ~Excused(a, d)', ~InOutbox(a, d)',
                      ~InStream(a, d)', ~InBatch(a, d)', NEW i \in 1..Len(wire'),
                      PatchAbout(wire'[i], a, d),
                      \A j \in i + 1..Len(wire') : ~PatchAbout(wire'[j], a, d)
               PROVE  Holds(a, d, PatchWord(wire[i], a, d))'
    BY DEF WireRight
  <2>1. i + 1 \in 1..Len(wire) /\ wire'[i] = wire[i + 1]
    BY <1>2
  <2>2. ASSUME NEW j \in (i + 1) + 1..Len(wire) PROVE ~PatchAbout(wire[j], a, d)
    <3>1. j \in 2..Len(wire) /\ j - 1 \in i + 1..Len(wire')
      BY <1>2
    <3> QED BY <1>3, <3>1
  <2>3. Holds(a, d, PatchWord(wire[i + 1], a, d))
    BY <1>4, <2>1, <2>2 DEF Inv, WireRight
  <2> QED BY <1>4, <2>1, <2>3
<1>12. ScreenRight'
  <2> SUFFICES ASSUME NEW a \in Aspects, NEW d \in Cells, sub' = "streaming",
                      ~Excused(a, d)', d \notin kept', ~InOutbox(a, d)',
                      ~InStream(a, d)', ~InBatch(a, d)', ~OnWire(a, d)'
               PROVE  Holds(a, d, ScreenWord(a, d))'
    BY DEF ScreenRight
  <2>1. \A j \in 2..Len(wire) : ~PatchAbout(wire[j], a, d)
    BY <1>3 DEF OnWire
  <2>2. CASE PatchAbout(p, a, d)
    <3>1. 1 \in 1..Len(wire) /\ \A j \in 1 + 1..Len(wire) : ~PatchAbout(wire[j], a, d)
      BY <1>2, <2>1
    <3>2. Holds(a, d, PatchWord(p, a, d))
      BY <1>2, <1>4, <2>2, <3>1 DEF Inv, WireRight
    <3>3. ScreenWord(a, d)' = PatchWord(p, a, d)
      BY <1>1, <1>2, <1>7, <2>2, ShownWord
    <3> QED BY <1>4, <3>2, <3>3
  <2>3. CASE ~PatchAbout(p, a, d)
    <3>1. ScreenWord(a, d)' = ScreenWord(a, d) /\ kept' = kept
      BY <1>1, <1>2, <1>7, <2>3, ShownWord
    <3>2. ~OnWire(a, d)
      <4> SUFFICES ASSUME NEW j \in 1..Len(wire) PROVE ~PatchAbout(wire[j], a, d)
        BY DEF OnWire
      <4>1. j = 1 \/ j \in 2..Len(wire)
        OBVIOUS
      <4> QED BY <1>2, <2>1, <2>3, <4>1
    <3>3. Holds(a, d, ScreenWord(a, d))
      BY <1>4, <1>6, <3>1, <3>2 DEF Inv, ScreenRight
    <3> QED BY <1>4, <3>1, <3>3
  <2> QED BY <2>2, <2>3
<1>13. StreamsInOrder'
  BY <1>1, <1>6 DEF StreamsInOrder
<1>14. ClaimsSpeakOfBoxes'
  BY <1>1 DEF Inv, ClaimsSpeakOfBoxes, Said
<1> QED BY <1>8, <1>9, <1>10, <1>11, <1>12, <1>13, <1>14 DEF Inv

(***************************************************************************)
(* The theorems.                                                           *)
(***************************************************************************)
(* The page was rendered with the bitmap, and nothing is under way.        *)
LEMMA InvInit == Init => Inv
<1> SUFFICES ASSUME Init PROVE Inv
  OBVIOUS
<1>1. TypeOK
  BY TypeInit
<1>2. StreamsInOrder /\ OutboxRight /\ ChannelRight /\ WireRight /\ ScreenRight
  BY DEF Init, StreamsInOrder, OutboxRight, ChannelRight, WireRight, ScreenRight
<1>4. ClaimsSpeakOfBoxes
  BY DEF Init, ClaimsSpeakOfBoxes, NoUndo
<1>3. BatchRight
  BY DEF Init, BatchRight, InBatch, PatchAbout, FlushPatch
<1> QED BY <1>1, <1>2, <1>3, <1>4 DEF Inv

(* Every step keeps every stage right.                                     *)
LEMMA InvStep == Inv /\ [Next]_vars => Inv'
<1> SUFFICES ASSUME Inv, [Next]_vars PROVE Inv'
  OBVIOUS
<1>1. TypeOK'
  BY TypeStep DEF Inv
<1>2. CASE UNCHANGED vars
  <2>1. UNCHANGED <<bmp, locks, expired, outbox, undo, sub, channel, batch, wire, view, missed,
                    astray, unsaid, crossed>>
    BY <1>2 DEF vars, service
  <2>2. \A a \in Aspects, d \in Cells :
            /\ InOutbox(a, d)' <=> InOutbox(a, d)
            /\ \A w : Holds(a, d, w) => Holds(a, d, w)'
    BY <2>1 DEF InOutbox, Holds, Box
  <2>3. OutboxRight'
    BY <2>1, <2>2 DEF Inv, OutboxRight, Wrong, Silent
  <2>4. ClaimsSpeakOfBoxes'
    BY <2>1 DEF Inv, ClaimsSpeakOfBoxes, Said
  <2> QED BY <1>1, <2>1, <2>2, <2>3, <2>4, ServiceKeeps
<1> QED
  BY <1>1, <1>2, ClaimKeeps, SupersedeKeeps, RefusedKeeps, VoidFailsKeeps, CancelKeeps,
     ReapKeeps, ConfirmKeeps, FollowKeeps, ExpireKeeps,
     BroadcastKeeps, ConnectKeeps, SnapshotKeeps, ReceiveKeeps, FlushKeeps, BreakKeeps,
     RenderKeeps DEF Next

(* Stage by stage, the last word of every cell is what the server holds.   *)
THEOREM Invariance == Spec => []Inv
<1>1. Init => Inv
  BY InvInit
<1>2. Inv /\ [Next]_vars => Inv'
  BY InvStep
<1> QED BY <1>1, <1>2, PTL DEF Spec

(* At rest a screen shows the canvas and the locks that the server holds   *)
(* (run, flush, pb.render), for all values of the constants.               *)
THEOREM ScreenTrue == Spec => []ScreenIsServer
<1>1. Inv => ScreenIsServer
  <2> SUFFICES ASSUME Inv, Quiet, NEW d \in Cells, d \notin missed \cup astray \cup kept
               PROVE  /\ live[d] = bmp[d]
                      /\ \/ d \in crossed \/ d \in unsaid
                         \/ BoxIsLock(d)
    BY DEF ScreenIsServer, ScreenShowsCanvas, BoxesAreLocks
  <2>1. \A a \in Aspects : ~InOutbox(a, d) /\ ~InStream(a, d) /\ ~InBatch(a, d) /\ ~OnWire(a, d)
    BY DEF Quiet, InOutbox, InStream, InBatch, PatchAbout, FlushPatch, OnWire
  <2>2. \A a \in Aspects : ~Excused(a, d) => Holds(a, d, ScreenWord(a, d))
    BY <2>1 DEF Inv, ScreenRight, Quiet
  <2>3. live[d] = bmp[d]
    <3>1. Holds("paint", d, ScreenWord("paint", d))
      BY <2>2 DEF Excused, Wrong, Silent, Aspects
    <3> QED BY <3>1 DEF Holds, ScreenWord
  <2>4. ASSUME d \notin crossed, d \notin unsaid
        PROVE  BoxIsLock(d)
    <3>1. Holds("box", d, ScreenWord("box", d))
      BY <2>2, <2>4 DEF Excused, Wrong, Silent, Aspects
    <3> QED BY <3>1 DEF Holds, ScreenWord, Box, BoxIsLock
  <2> QED BY <2>3, <2>4
<1> QED BY <1>1, Invariance, PTL
====
