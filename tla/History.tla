---- MODULE History ----
(***************************************************************************)
(* The time-travel history of one server: the checkpoint grid              *)
(* (internal/game/anchors.go) and FrameAt (game.go), which renders the     *)
(* canvas of an earlier moment from a checkpoint and a fold of the ledger. *)
(*                                                                         *)
(* Time is in milliseconds, of which a minute has a few here; posts of one *)
(* millisecond keep their order.  A writer posts one claim at a time and   *)
(* applies it at its wall clock, unless the client reports an error; what  *)
(* is left, and all posts of other writers, are applied by their events,   *)
(* in order, at their ledger timestamps.  That events may be lost or come  *)
(* again is the matter of CanvasCache.  A bitmap stands for its hash, and  *)
(* the sidecar gives back what was put into it.                            *)
(***************************************************************************)
EXTENDS Integers, Sequences, FiniteSets

CONSTANTS
    Cells,
    Colors,
    Roles,          \* subset of {"writer", "follower"}
    Minute,         \* anchorIntervalMs
    AnchorMax,      \* anchorMax
    PoolMax,        \* maxAnchorPoolSize, in bitmaps
    FoldMax,        \* transfers in maxFramePages pages
    MaxTime, MaxPosts, MaxRestarts      \* bounds

ASSUME HistoryAssumption ==
    /\ 0 \notin Colors
    /\ Roles \subseteq {"writer", "follower"}
    /\ {Minute, AnchorMax, PoolMax, FoldMax, MaxTime} \subseteq Nat \ {0}
    /\ Minute <= MaxTime
    /\ MaxPosts \in Nat /\ MaxRestarts \in Nat

VARIABLES
    role,
    now,
    posts,      \* the ledger's posted claims
    phase,      \* "warming", "folded" or "serving"
    applied,    \* the posts up to this one are at or below warmTs
    confirming, \* the post that a Confirm has made and not yet applied, or 0
    bmp,
    ag,         \* the anchor grid
    lastPaint,  \* lastPaintMs
    frame,      \* the seek that is folding the ledger
    reply,      \* the answer of FrameAt, until it is sent
    skipped,    \* (only observed) failed posts that a later Confirm has passed
    skewed,     \* (only observed) checkpoints, with a post before them that they lack
    restarts

canvas == <<applied, confirming, skipped, bmp, lastPaint>>
historyVars == <<role, now, posts, phase, canvas, ag, frame, reply, skewed, restarts>>

Empty == 0
Bitmaps == [Cells -> Colors \cup {Empty}]
Blank == [c \in Cells |-> Empty]
Times == 0..MaxTime
Anchor(t, b) == [t |-> t, bmp |-> b]
NoFrame == [t |-> -1]
NoReply == [kind |-> "none"]

HistoryTypeOK ==
    /\ role \in Roles
    /\ now \in Times
    /\ posts \in Seq([t : Times, cell : Cells, color : Colors]) /\ Len(posts) <= MaxPosts
    /\ phase \in {"warming", "folded", "serving"}
    /\ applied \in 0..Len(posts)
    /\ bmp \in Bitmaps
    /\ \A i \in 1..Len(ag.list) : ag.list[i] \in [t : Times, bmp : Bitmaps]
    /\ ag.pool \subseteq Bitmaps
    /\ ag.next \in 0..(MaxTime + Minute)
    /\ ag.evicted \subseteq [t : Times, bmp : Bitmaps]
    /\ lastPaint \in Times
    /\ frame = NoFrame \/ frame \in [t : Times, base : Times, start : Bitmaps]
    /\ reply.kind \in {"none", "frame", "tooBroad", "error"}
    /\ confirming \in 0..Len(posts) /\ skipped \subseteq 1..Len(posts)
    /\ skewed \subseteq Times \X (1..Len(posts))
    /\ restarts \in 0..MaxRestarts

(* What some of the posts make of a bitmap, in order: the last post on a   *)
(* cell is what it shows.                                                  *)
Latest(ns) == CHOOSE n \in ns : \A k \in ns : k <= n
On(ns, c) == {n \in ns : posts[n].cell = c}
Painted(b, ns) == [c \in Cells |-> IF On(ns, c) = {} THEN b[c] ELSE posts[Latest(On(ns, c))].color]

(***************************************************************************)
(* The grid.  "saved" tells whether onEvict can write the sidecar.         *)
(***************************************************************************)
NewGrid == [list |-> <<>>, pool |-> {}, next |-> 0, evicted |-> {}]

ToSetOfBitmaps(list) == {list[i].bmp : i \in 1..Len(list)}

(* The entry cap drops the overflow; the byte cap compares a pool that the *)
(* loop does not change, so it drops all but the newest.                   *)
Overflow(g) ==
    IF Cardinality(g.pool) > PoolMax THEN Len(g.list) - 1
    ELSE IF Len(g.list) > AnchorMax THEN Len(g.list) - AnchorMax ELSE 0

(* Mutated form of Evict: the pool loses what the dropped entries used.    *)
EvictShared(g, saved) ==
    LET n == Overflow(g)
        dropped == {g.list[i] : i \in 1..n}
        kept == SubSeq(g.list, n + 1, Len(g.list))
    IN  [g EXCEPT !.list = kept,
                  !.pool = IF n = 0 THEN @ ELSE @ \ {a.bmp : a \in dropped},
                  !.evicted = IF saved THEN @ \cup dropped ELSE @]

Evict(g, saved) ==
    LET n == Overflow(g)
        dropped == {g.list[i] : i \in 1..n}
        kept == SubSeq(g.list, n + 1, Len(g.list))
    IN  [g EXCEPT !.list = kept,
                  !.pool = IF n = 0 THEN @ ELSE ToSetOfBitmaps(kept),
                  !.evicted = IF saved THEN @ \cup dropped ELSE @]

Insert(g, t, b, saved) ==
    Evict([g EXCEPT !.list = Append(@, Anchor(t, b)), !.pool = @ \cup {b}], saved)

(* Mutated form of Boundaries: one more, in the future.                    *)
BoundariesAhead(from, t) == IF t < from THEN 0 ELSE (t - from) \div Minute + 2

(* How many boundaries there are from the grid's next one up to and with t.*)
Boundaries(from, t) == IF t < from THEN 0 ELSE (t - from) \div Minute + 1

(* The next "count" boundaries are inserted, with the bitmap as it is.     *)
Stamped(g, from, count, b, saved) ==
    LET grid[n \in 0..count] ==
            IF n = 0 THEN g ELSE Insert(grid[n - 1], from + (n - 1) * Minute, b, saved)
    IN  grid[count]

Advance(g, from, t, b, saved) ==
    LET count == Boundaries(from, t)
    IN  [Stamped(g, from, count, b, saved) EXCEPT !.next = from + count * Minute]

FirstBoundary(g, t) == IF g.next = 0 THEN (t \div Minute) * Minute ELSE g.next

SyncTo(g, t, b, saved) == Advance(g, FirstBoundary(g, t), t, b, saved)
FillTo(g, t, b, saved) == IF g.next = 0 THEN g ELSE Advance(g, g.next, t, b, saved)

(* The posts that the bitmap shows, or that a later one has covered.       *)
InBitmap == (1..applied) \ skipped

(* Checkpoints that the step from g to g2 has stamped, each with the posts *)
(* before it that are not in the bitmap.                                   *)
Skew(g, g2, t) ==
    {b \in {FirstBoundary(g, t) + k * Minute : k \in Times} : b < g2.next}
        \X ((1..Len(posts)) \ InBitmap)

Skewed(g, g2, t) == skewed \cup {x \in Skew(g, g2, t) : posts[x[2]].t < x[1]}

(***************************************************************************)
(* The server.                                                             *)
(***************************************************************************)
HistoryInit ==
    /\ role \in Roles
    /\ now = Minute
    /\ posts = <<>>
    /\ phase = "serving"
    /\ applied = 0 /\ confirming = 0 /\ skipped = {} /\ bmp = Blank /\ lastPaint = 0
    /\ ag = NewGrid
    /\ frame = NoFrame /\ reply = NoReply
    /\ skewed = {}
    /\ restarts = 0

Tick ==
    /\ now < MaxTime
    /\ now' = now + 1
    /\ UNCHANGED <<role, posts, phase, canvas, ag, frame, reply, skewed, restarts>>

(* The ledger posts a claim: the writer's own, one at a time, or another's.*)
(* The writer applies it only if the client reports no error.              *)
Post(c, col) ==
    /\ Len(posts) < MaxPosts
    /\ role = "writer" => phase = "serving" /\ confirming = 0
    /\ posts' = Append(posts, [t |-> now, cell |-> c, color |-> col])
    /\ \/ role = "writer" /\ confirming' = Len(posts) + 1
       \/ UNCHANGED confirming
    /\ UNCHANGED <<role, now, phase, applied, skipped, bmp, lastPaint, ag, frame, reply, skewed, restarts>>

Later(a, b) == IF a > b THEN a ELSE b

(* The grid advances before the paint.                                     *)
Apply(p, t, saved) ==
    /\ ag' = SyncTo(ag, t, bmp, saved)
    /\ skewed' = Skewed(ag, ag', t)
    /\ bmp' = [bmp EXCEPT ![p.cell] = p.color]

(* The second section of Confirm, at the wall clock.  The watermark passes *)
(* what the client reported as an error before.                            *)
ConfirmApply(saved) ==
    /\ confirming # 0
    /\ Apply(posts[confirming], now, saved)
    /\ lastPaint' = Later(lastPaint, now)
    /\ skipped' = skipped \cup (applied + 1..confirming - 1)
    /\ applied' = confirming
    /\ confirming' = 0
    /\ UNCHANGED <<role, now, posts, phase, frame, reply, restarts>>

(* ApplyEvent: a colour already shown leaves the timeline's bounds alone.  *)
ApplyEvent(saved) ==
    LET p == posts[applied + 1] IN
    /\ phase = "serving" /\ applied < Len(posts)
    /\ Apply(p, p.t, saved)
    /\ lastPaint' = IF bmp[p.cell] = p.color THEN lastPaint ELSE Later(lastPaint, p.t)
    /\ applied' = applied + 1
    /\ UNCHANGED <<role, now, posts, phase, confirming, skipped, frame, reply, restarts>>

(* The process dies and boots again without a snapshot.                    *)
Restart ==
    /\ restarts < MaxRestarts
    /\ restarts' = restarts + 1
    /\ phase' = "warming"
    /\ applied' = 0 /\ confirming' = 0 /\ skipped' = {} /\ bmp' = Blank /\ lastPaint' = 0
    /\ ag' = NewGrid
    /\ frame' = NoFrame /\ reply' = NoReply /\ skewed' = {}
    /\ UNCHANGED <<role, now, posts>>

(* The grid as the replay goes on, synced to each post before the post.    *)
Replayed(saved) ==
    LET grid[n \in 0..Len(posts)] ==
            IF n = 0 THEN NewGrid
            ELSE SyncTo(grid[n - 1], posts[n].t, Painted(Blank, 1..(n - 1)), saved)
    IN  grid[Len(posts)]

(* WarmCache replays the ledger.                                           *)
WarmFold(saved) ==
    /\ phase = "warming"
    /\ phase' = "folded"
    /\ bmp' = Painted(Blank, 1..Len(posts))
    /\ ag' = Replayed(saved)
    /\ applied' = Len(posts)
    /\ lastPaint' = IF posts = <<>> THEN 0 ELSE posts[Len(posts)].t
    /\ UNCHANGED <<role, now, posts, confirming, skipped, frame, reply, skewed, restarts>>

(* It then fills the grid up to the wall clock.                            *)
WarmEnd(saved) ==
    /\ phase = "folded"
    /\ phase' = "serving"
    /\ ag' = FillTo(ag, now, bmp, saved)
    /\ skewed' = Skewed(ag, ag', now)
    /\ UNCHANGED <<role, now, posts, canvas, frame, reply, restarts>>

(***************************************************************************)
(* FrameAt.                                                                *)
(***************************************************************************)
UpTo(list, t) == {i \in 1..Len(list) : list[i].t <= t}
Newest(anchors) == CHOOSE a \in anchors : \A o \in anchors : o.t <= a.t

(* checkpoint, else sidecarAt, else nothing but the whole ledger.          *)
Base(t) ==
    LET ram == {ag.list[i] : i \in UpTo(ag.list, t)}
        old == {a \in ag.evicted : a.t <= t}
    IN  CASE ram # {} /\ Newest(ram).bmp \in ag.pool -> Newest(ram)
          [] old # {} -> Newest(old)
          [] OTHER -> Anchor(0, Blank)

Reply(t, b, n, lacks) == [kind |-> "frame", t |-> t, bmp |-> b, seen |-> n, missing |-> lacks]

(* At or after the newest paint the bitmap is the answer.                  *)
FrameNow(t) ==
    /\ phase = "serving" /\ frame = NoFrame
    /\ t >= lastPaint
    /\ reply' = Reply(lastPaint, bmp, applied, skipped)
    /\ UNCHANGED <<role, now, posts, phase, canvas, ag, frame, skewed, restarts>>

FrameBegin(t) ==
    /\ phase = "serving" /\ frame = NoFrame
    /\ t < lastPaint
    /\ frame' = [t |-> t, base |-> Base(t).t, start |-> Base(t).bmp]
    /\ UNCHANGED <<role, now, posts, phase, canvas, ag, reply, skewed, restarts>>

(* The evicted checkpoint cannot be read, or the ledger does not answer.   *)
FrameFails ==
    /\ frame # NoFrame
    /\ frame' = NoFrame
    /\ reply' = [kind |-> "error"]
    /\ UNCHANGED <<role, now, posts, phase, canvas, ag, skewed, restarts>>

(* Mutated form of FromBase: the fold begins after the checkpoint's        *)
(* millisecond.                                                            *)
FromBaseLate(n) == posts[n].t > frame.base

(* QueryCanvasTransfers includes the first timestamp.                      *)
FromBase(n) == posts[n].t >= frame.base

Window == {n \in 1..Len(posts) : FromBase(n) /\ posts[n].t <= frame.t}

(* foldFrom gives up after its last page unless a transfer beyond the      *)
(* frame or a short page has ended it: posts come in the order of time.    *)
TooBroad == Cardinality(Window) >= FoldMax

(* The posts that the checkpoint of that time lacks.                       *)
Lacking(b) == {i \in 1..Len(posts) : <<b, i>> \in skewed}

FrameEnd ==
    /\ frame # NoFrame
    /\ frame' = NoFrame
    /\ reply' = IF TooBroad THEN [kind |-> "tooBroad"]
                ELSE Reply(frame.t, Painted(frame.start, Window), Len(posts), Lacking(frame.base))
    /\ UNCHANGED <<role, now, posts, phase, canvas, ag, skewed, restarts>>

(* The answer is fixed when FrameAt returns it; nothing else need happen   *)
(* while it is written out.                                                *)
ReplySent ==
    /\ reply # NoReply
    /\ reply' = NoReply
    /\ UNCHANGED <<role, now, posts, phase, canvas, ag, frame, skewed, restarts>>

Serving ==
    \/ Tick
    \/ \E c \in Cells, col \in Colors : Post(c, col)
    \/ \E saved \in BOOLEAN :
        ConfirmApply(saved) \/ ApplyEvent(saved) \/ WarmFold(saved) \/ WarmEnd(saved)
    \/ Restart
    \/ \E t \in Times : FrameNow(t) \/ FrameBegin(t)
    \/ FrameFails \/ FrameEnd

HistoryNext == ReplySent \/ (reply = NoReply /\ Serving)

HistorySpec == HistoryInit /\ [][HistoryNext]_historyVars

(***************************************************************************)
(* Properties.                                                             *)
(***************************************************************************)
(* A frame is the fold of the posts up to its time, whichever checkpoint   *)
(* it started from and whatever was posted, stamped or evicted while it    *)
(* read the ledger, but for the posts that its checkpoint lacks: those of  *)
(* before it that were not applied yet when it was stamped, and failed     *)
(* ones that a later Confirm had passed.  anchors.go 32 says that there    *)
(* are none, "exactly as it stood after every event with Timestamp <       *)
(* TsMs"; a Confirm whose post is before a minute and whose second section *)
(* is after it leaves one (FrameAt, checkpoint, syncTo, evict).            *)
FrameIsFold ==
    reply.kind = "frame" =>
        reply.bmp = Painted(Blank, {n \in 1..reply.seen : posts[n].t <= reply.t} \ reply.missing)

(* And it shows nothing from after its time: each cell looks as it         *)
(* did at some moment up to it (FrameAt, syncTo before the paint).         *)
NothingFromLater ==
    reply.kind = "frame" => \A c \in Cells :
        \/ reply.bmp[c] = Empty
        \/ \E i \in 1..Len(posts) : /\ posts[i].cell = c /\ posts[i].color = reply.bmp[c]
                                    /\ posts[i].t <= reply.t

(* Both: a frame is true to its time.                                      *)
FramesAreTrue == FrameIsFold /\ NothingFromLater

(* The grid has no gaps, keeps in the pool the bitmaps of its entries and  *)
(* no others, stays within both caps, and everything evicted is older than *)
(* what is in memory, so that the newest checkpoint is found (evict,       *)
(* insert, checkpoint; comment "dense ... so gaps never appear").          *)
GridIsWhole ==
    /\ \A i \in 1..(Len(ag.list) - 1) : ag.list[i + 1].t = ag.list[i].t + Minute
    /\ ag.list # <<>> => ag.next = ag.list[Len(ag.list)].t + Minute
    /\ ag.pool = ToSetOfBitmaps(ag.list)
    /\ Len(ag.list) <= AnchorMax /\ Cardinality(ag.pool) <= PoolMax
    /\ \A a \in ag.evicted : a.t < ag.list[1].t
====
