---- MODULE CanvasCache ----
(***************************************************************************)
(* The standing bitmap of one server and its watermark warmTs: warm-up     *)
(* from the ledger's history (warm.go), confirms of its own (game.go), the *)
(* change-data-capture stream that carries everybody's posts (replay.go),  *)
(* and the snapshot file (persist.go), with crashes between any two steps. *)
(*                                                                         *)
(* Time is the ledger's: the i-th post has timestamp i, and a clock        *)
(* reading is the number of posts already made, that is, an instant after  *)
(* that post and before the next.  The clocks of the server and of the     *)
(* database are taken to agree (game.go: "on a single-host demo TB's clock *)
(* tracks ours").  Only posted claims are in the history: the fold and     *)
(* ApplyEvent pass over every other transfer.                              *)
(***************************************************************************)
EXTENDS Integers, Sequences

CONSTANTS
    Cells,
    Colors,
    Requests,       \* goroutines of this server that may confirm at one time
    Roles,          \* who posts: only this server ("writer"), only others, a
                    \* second server or a direct bot ("follower"), or "both"
    PageSize,       \* queryPageSize
    MaxPosts,       \* bound: posts in the history
    MaxCrashes,     \* bound: crashes of the server
    MaxDrops,       \* bound: lost broker connections
    MaxRewinds      \* bound: restarts of the CDC job that publish events again

ASSUME CanvasAssumption ==
    /\ Roles \subseteq {"writer", "follower", "both"}
    /\ PageSize \in Nat \ {0}
    /\ MaxPosts \in Nat /\ MaxCrashes \in Nat /\ MaxDrops \in Nat /\ MaxRewinds \in Nat

VARIABLES
    role,       \* one of Roles, settled at the start
    history,    \* posts in order of their timestamps
    published,  \* the CDC job has published the posts up to this one
    rewinds,
    phase,      \* how far main has come
    warm,       \* the local state of WarmCache: next page's start, bitmap
    bmp,        \* s.bmp: cell -> the post whose colour the byte is, 0 if empty
    warmTs,     \* s.warmTs
    applying,   \* request -> the post it has made and not yet applied, or 0
    failed,     \* (only observed) posts of this process whose confirm the
                \* client answered with an error, until their event comes or
                \* the watermark passes them
    bound,      \* whether the consumer's queue is bound to the exchange
    queue,      \* that queue
    seen,       \* ids seen on this connection
    drops,
    disk,       \* the snapshot file: bitmap, watermark, or none
    saved,      \* "last" of the snapshot ticker
    crashes,
    lost        \* (only observed) posts that were in no queue of the server
                \* when the bitmap needed them, and failed ones that the
                \* watermark has passed

ledger == <<role, history, published, rewinds>>
stream == <<bound, queue, seen, drops>>
file == <<disk, saved, crashes>>
vars == <<ledger, phase, warm, bmp, warmTs, applying, failed, stream, file, lost>>

Phases == {"down", "warming", "installing", "saving", "marking", "up"}
Warmed == phase \in {"saving", "marking", "up"}

Posts == 1..Len(history)
Times == 0..MaxPosts
CellOf(i) == history[i].cell

(* 0 is an empty cell; equal bytes are equal colours, whoever posted them. *)
ColorOf(i) == IF i = 0 THEN 0 ELSE history[i].color

Blank == [c \in Cells |-> 0]
NoWarm == [from |-> 0, bmp |-> Blank]
Bitmaps == [Cells -> Times]
NoSnapshot == [bmp |-> Blank, wm |-> -1, lost |-> {}]

TypeOK ==
    /\ role \in Roles
    /\ history \in Seq([cell : Cells, color : Colors]) /\ Len(history) <= MaxPosts
    /\ published \in 0..Len(history)
    /\ rewinds \in 0..MaxRewinds
    /\ phase \in Phases
    /\ warm \in [from : 0..MaxPosts + 1, bmp : Bitmaps]
    /\ bmp \in Bitmaps
    /\ warmTs \in Times
    /\ applying \in [Requests -> Times]
    /\ failed \subseteq Posts
    /\ bound \in BOOLEAN
    /\ queue \in Seq(Posts)
    /\ seen \subseteq Posts
    /\ drops \in 0..MaxDrops
    /\ disk \in [bmp : Bitmaps, wm : Times \cup {-1}, lost : SUBSET Posts]
    /\ saved \in Times
    /\ crashes \in 0..MaxCrashes
    /\ lost \subseteq Posts

Init ==
    /\ role \in Roles
    /\ history = <<>> /\ published = 0 /\ rewinds = 0
    /\ phase = "down" /\ warm = NoWarm
    /\ bmp = Blank /\ warmTs = 0
    /\ applying = [r \in Requests |-> 0] /\ failed = {}
    /\ bound = FALSE /\ queue = <<>> /\ seen = {} /\ drops = 0
    /\ disk = NoSnapshot /\ saved = 0 /\ crashes = 0
    /\ lost = {}

(* The newest post of a set.                                               *)
Newest(S) == IF S = {} THEN 0 ELSE CHOOSE i \in S : \A j \in S : j <= i
Larger(a, b) == IF a > b THEN a ELSE b

(* A bitmap after the posts from..to were folded into it in order.         *)
Folded(b, from, to) ==
    [c \in Cells |-> LET on == {i \in from..to : CellOf(i) = c} IN
                     IF on = {} THEN b[c] ELSE Newest(on)]

Post(c, col) ==
    /\ Len(history) < MaxPosts
    /\ history' = Append(history, [cell |-> c, color |-> col])
    /\ UNCHANGED <<role, published, rewinds>>

(***************************************************************************)
(* Warm-up.                                                                *)
(***************************************************************************)
(* Mutated form: one transfer too late.                                    *)
ResumeLate(wm) == wm + 2

(* The query's lower bound is inclusive.                                   *)
ResumeAt(wm) == wm + 1

(* With a usable snapshot the fold starts after its watermark, with none,  *)
(* or one that does not load, from the beginning.                          *)
WarmBegin ==
    /\ phase = "down"
    /\ phase' = "warming"
    /\ \/ /\ disk # NoSnapshot
          /\ warm' = [from |-> ResumeAt(disk.wm), bmp |-> disk.bmp]
          /\ lost' = {i \in disk.lost : i <= disk.wm}
       \/ /\ warm' = [from |-> 1, bmp |-> Blank]
          /\ lost' = {}
    /\ UNCHANGED <<ledger, bmp, warmTs, applying, failed, stream, file>>

PageEnd == IF warm.from + PageSize - 1 <= Len(history)
           THEN warm.from + PageSize - 1 ELSE Len(history)
ShortPage == PageEnd - warm.from + 1 < PageSize

(* Mutated form: one transfer too late.                                    *)
NextPageLate == Larger(PageEnd + 2, warm.from)

(* The next query starts after the page's last transfer.                   *)
NextPage == Larger(PageEnd + 1, warm.from)

(* foldFrom: one page; a short one is the last.                            *)
WarmPage ==
    /\ phase = "warming"
    /\ warm' = [from |-> NextPage, bmp |-> Folded(warm.bmp, warm.from, PageEnd)]
    /\ phase' = IF ShortPage THEN "installing" ELSE "warming"
    /\ UNCHANGED <<ledger, bmp, warmTs, applying, failed, stream, file, lost>>

(* The result is installed under s.mu.                                     *)
WarmEnd ==
    /\ phase = "installing"
    /\ bmp' = warm.bmp
    /\ warmTs' = warm.from - 1
    /\ warm' = NoWarm
    /\ phase' = "saving"
    /\ UNCHANGED <<ledger, applying, failed, stream, file, lost>>

(***************************************************************************)
(* The snapshot file.                                                      *)
(***************************************************************************)
(* SaveSnapshot: one consistent copy under s.mu, renamed into place.       *)
Written == [bmp |-> bmp, wm |-> warmTs, lost |-> lost]

(* The first save may fail; the server goes on.                            *)
SaveFirst ==
    /\ phase = "saving"
    /\ disk' \in {disk, Written}
    /\ phase' = "marking"
    /\ UNCHANGED <<ledger, warm, bmp, warmTs, applying, failed, stream, saved, crashes, lost>>

MarkFirst ==
    /\ phase = "marking"
    /\ saved' = warmTs
    /\ phase' = "up"
    /\ UNCHANGED <<ledger, warm, bmp, warmTs, applying, failed, stream, disk, crashes, lost>>

(* The ticker writes only when the watermark has moved; the mark it keeps  *)
(* was read some time before the copy was made.                            *)
SaveTick ==
    /\ phase = "up"
    /\ saved' \in saved + 1..warmTs
    /\ disk' = Written
    /\ UNCHANGED <<ledger, phase, warm, bmp, warmTs, applying, failed, stream, crashes, lost>>

(***************************************************************************)
(* Confirms of this server, and everybody else's.                          *)
(***************************************************************************)
(* SubmitBatch: the ledger posts, and the client answers, or reports an    *)
(* error all the same.  After an error Confirm returns: the paint is left  *)
(* to its event.                                                           *)
ConfirmPost(r, c, col) ==
    /\ role # "follower"
    /\ phase = "up"
    /\ applying[r] = 0
    /\ Post(c, col)
    /\ \/ /\ applying' = [applying EXCEPT ![r] = Len(history) + 1]
          /\ UNCHANGED failed
       \/ /\ failed' = failed \cup {Len(history) + 1}
          /\ UNCHANGED applying
    /\ UNCHANGED <<phase, warm, bmp, warmTs, stream, file, lost>>

(* The second section of Confirm.  The watermark takes a wall clock that   *)
(* was read after the post and before s.mu was locked.  A failed post that *)
(* it passes is lost: its event will be taken for a redelivery.            *)
ConfirmApply(r) ==
    /\ applying[r] # 0
    /\ bmp' = [bmp EXCEPT ![CellOf(applying[r])] = applying[r]]
    /\ \E now \in applying[r]..Len(history) :
        /\ warmTs' = Larger(warmTs, now)
        /\ lost' = (lost \ {applying[r]}) \cup {i \in failed : i <= now}
        /\ failed' = {i \in failed : i > now}
    /\ applying' = [applying EXCEPT ![r] = 0]
    /\ UNCHANGED <<ledger, phase, warm, stream, file>>

OtherPost(c, col) ==
    /\ role # "writer"
    /\ Post(c, col)
    /\ UNCHANGED <<phase, warm, bmp, warmTs, applying, failed, stream, file, lost>>

(***************************************************************************)
(* The stream.                                                             *)
(***************************************************************************)
(* A post that neither the fold nor the stream has brought yet, nor will   *)
(* the fold under way.                                                     *)
Unread(i) == \/ Warmed /\ i > warmTs
             \/ phase = "installing" /\ i >= warm.from

(* The CDC job publishes to the fanout exchange; without a bound queue the *)
(* message is gone.                                                        *)
Publish ==
    /\ published < Len(history)
    /\ published' = published + 1
    /\ queue' = IF bound THEN Append(queue, published + 1) ELSE queue
    /\ lost' = IF ~bound /\ Unread(published + 1) THEN lost \cup {published + 1} ELSE lost
    /\ UNCHANGED <<role, history, rewinds, phase, warm, bmp, warmTs, applying, failed, bound, seen, drops, file>>

(* It resumes from an earlier position when it is restarted.               *)
Rewind ==
    /\ rewinds < MaxRewinds
    /\ rewinds' = rewinds + 1
    /\ published' \in 0..published
    /\ UNCHANGED <<role, history, phase, warm, bmp, warmTs, applying, failed, stream, file, lost>>

(* runOnce: a new exclusive queue, and an empty dedupe set.                *)
Bind ==
    /\ Warmed
    /\ ~bound
    /\ bound' = TRUE
    /\ seen' = {}
    /\ UNCHANGED <<ledger, phase, warm, bmp, warmTs, applying, failed, queue, drops, file, lost>>

QueueIds == {queue[n] : n \in 1..Len(queue)}

(* The queue is deleted with the connection.                               *)
Drop ==
    /\ bound
    /\ drops < MaxDrops
    /\ drops' = drops + 1
    /\ bound' = FALSE
    /\ queue' = <<>>
    /\ lost' = lost \cup {i \in QueueIds \ seen : i > warmTs}
    /\ UNCHANGED <<ledger, phase, warm, bmp, warmTs, applying, failed, seen, file>>

(* Mutated forms of ApplyEvent.                                            *)
ApplyAnything(i) ==
    /\ bmp' = [bmp EXCEPT ![CellOf(i)] = i]
    /\ warmTs' = Larger(warmTs, i)
ApplyWithoutMark(i) ==
    IF i <= warmTs \/ ColorOf(bmp[CellOf(i)]) = ColorOf(i)
    THEN UNCHANGED <<bmp, warmTs>>
    ELSE bmp' = [bmp EXCEPT ![CellOf(i)] = i] /\ UNCHANGED warmTs

(* ApplyEvent: nothing at or below the watermark, nothing for the same     *)
(* colour.                                                                 *)
ApplyEvent(i) ==
    IF i <= warmTs \/ ColorOf(bmp[CellOf(i)]) = ColorOf(i)
    THEN UNCHANGED <<bmp, warmTs>>
    ELSE /\ bmp' = [bmp EXCEPT ![CellOf(i)] = i]
         /\ warmTs' = i

(* processBody and the acknowledgement.                                    *)
Deliver ==
    /\ bound
    /\ queue # <<>>
    /\ queue' = Tail(queue)
    /\ seen' = seen \cup {Head(queue)}
    /\ IF Head(queue) \in seen
       THEN UNCHANGED <<bmp, warmTs>>
       ELSE ApplyEvent(Head(queue))
    /\ failed' = failed \ {Head(queue)}
    /\ UNCHANGED <<ledger, phase, warm, applying, bound, drops, file, lost>>

(***************************************************************************)
(* The process dies with everything it holds.                              *)
(***************************************************************************)
Crash ==
    /\ phase # "down"
    /\ crashes < MaxCrashes
    /\ crashes' = crashes + 1
    /\ phase' = "down"
    /\ warm' = NoWarm
    /\ bmp' = Blank /\ warmTs' = 0
    /\ applying' = [r \in Requests |-> 0] /\ failed' = {}
    /\ bound' = FALSE /\ queue' = <<>> /\ seen' = {}
    /\ saved' = 0
    /\ lost' = {}
    /\ UNCHANGED <<ledger, drops, disk>>

Next ==
    \/ WarmBegin \/ WarmPage \/ WarmEnd
    \/ SaveFirst \/ MarkFirst \/ SaveTick
    \/ \E r \in Requests :
        \/ \E c \in Cells, col \in Colors : ConfirmPost(r, c, col)
        \/ ConfirmApply(r)
    \/ \E c \in Cells, col \in Colors : OtherPost(c, col)
    \/ Publish \/ Rewind \/ Bind \/ Drop \/ Deliver
    \/ Crash

Spec == Init /\ [][Next]_vars

(* The warm-up, once begun, the consumer's reconnect loop, the CDC job and *)
(* a request that has posted all go on; nobody is obliged to post, and     *)
(* nothing in the code starts a dead process again.                        *)
Fairness ==
    /\ WF_vars(WarmPage) /\ WF_vars(WarmEnd) /\ WF_vars(SaveFirst) /\ WF_vars(MarkFirst)
    /\ \A r \in Requests : WF_vars(ConfirmApply(r))
    /\ WF_vars(Publish) /\ WF_vars(Bind) /\ WF_vars(Deliver)

FairSpec == Spec /\ Fairness

(***************************************************************************)
(* Properties.                                                             *)
(***************************************************************************)
(* The newest post on a cell up to a time.                                 *)
LastOn(c, upTo) == Newest({i \in 1..upTo : i <= Len(history) /\ CellOf(i) = c})
MissedOn(c) == \E i \in lost : CellOf(i) = c

(* What the watermark stands for (game.go: "CDC events at/below it are     *)
(* redeliveries"): the bitmap of a warmed server shows, on every cell, the *)
(* newest post at or below the watermark, unless a post on that cell was   *)
(* lost before: by the stream, or as a failed confirm that a later one's   *)
(* watermark passed, whose event is then dropped although game.go 233 says *)
(* that ApplyEvent "only drops CDC redeliveries of events the cache        *)
(* already applied".  ApplyEvent and the snapshot's delta fold both rely   *)
(* on what the watermark means.  The lost post exempts the whole cell, not *)
(* itself alone: brought late by a CDC job that publishes it again, it may *)
(* paint over a newer one (DeliveredShows).                                *)
WatermarkMeans ==
    Warmed => \A c \in Cells :
        \/ \E i \in lost : i <= warmTs /\ CellOf(i) = c
        \/ ColorOf(bmp[c]) = ColorOf(LastOn(c, warmTs))

(* The post a cell's byte stands for is never replaced by an older one     *)
(* while the server lives, however often the stream redelivers             *)
(* (ApplyEvent: "a stale redelivery with a different color could regress   *)
(* a newer paint").                                                        *)
NoRegression ==
    [][phase = phase' /\ Warmed => \A c \in Cells : bmp'[c] >= bmp[c]]_vars

(* With the stream drained and no confirm under way, a cell shows the      *)
(* newest post of all unless a post on that cell was lost.  A failed       *)
(* confirm, too, is shown once its event has come, if the server has       *)
(* applied no later confirm before.                                        *)
Drained == published = Len(history) /\ queue = <<>> /\ \A r \in Requests : applying[r] = 0
StaleOnlyWhereMissed ==
    Warmed /\ Drained => \A c \in Cells :
        MissedOn(c) \/ ColorOf(bmp[c]) = ColorOf(LastOn(c, Len(history)))

(* Both: what the bitmap of a warmed server may be taken for, by the fold  *)
(* that resumes from it and by the screens that show it.                   *)
BitmapIsTrue == WatermarkMeans /\ StaleOnlyWhereMissed

(* Warm-up ends with the fold of the whole history, cells excepted where   *)
(* a post was lost before the last snapshot: a restarted server shows the  *)
(* canvas it finds in the ledger, failed confirms included that its        *)
(* watermark had not passed (WarmCache, warmFromSnapshot).                 *)
BootRestores ==
    [][phase = "warming" /\ phase' = "installing" =>
        \A c \in Cells :
            MissedOn(c) \/ ColorOf(warm'.bmp[c]) = ColorOf(LastOn(c, Len(history)))]_vars

(* Drained, a cell whose newest post the stream did deliver shows it       *)
(* (live_test.go: "a stale redelivery with a different color cannot        *)
(* regress a newer paint").                                                *)
DeliveredShows ==
    Warmed /\ Drained => \A c \in Cells :
        LET k == LastOn(c, Len(history)) IN
        k \in seen => ColorOf(bmp[c]) = ColorOf(k)

(* Every post reaches the bitmap, or is overtaken there, unless a post on  *)
(* that cell was lost or the server is not running: a failed confirm by    *)
(* its event.                                                              *)
Shows(i) == \E j \in Posts : /\ j >= i /\ CellOf(j) = CellOf(i)
                               /\ ColorOf(bmp[CellOf(i)]) = ColorOf(j)
PostsArrive ==
    \A i \in 1..MaxPosts :
        i \in Posts /\ phase = "up" ~>
            phase = "down" \/ (i \in Posts /\ (MissedOn(CellOf(i)) \/ Shows(i)))
====
