---- MODULE CanvasCacheProofs ----
(***************************************************************************)
(* Proofs about CanvasCache.  The types hold whoever posts.  What the      *)
(* watermark stands for, what a boot restores and that no cell goes back   *)
(* are proved for a server that alone paints, one request at a time, and   *)
(* for a server that only follows the stream: when it does both, or two    *)
(* requests overlap, the watermark can pass a paint that is not in the     *)
(* bitmap (run restart_forgets).  Confirms the client answers with an      *)
(* error are in the proof; those the watermark passes are excepted, as     *)
(* they are lost.                                                          *)
(***************************************************************************)
EXTENDS CanvasCache, WellFoundedInduction, TLAPS

(***************************************************************************)
(* The inductive invariants.                                               *)
(***************************************************************************)
Folding == phase \in {"warming", "installing"}

TypeInv ==
    /\ TypeOK
    /\ Folding => warm.from \in Nat \ {0}
    /\ disk # NoSnapshot => disk.wm \in Nat

(* A byte stands for a post on its own cell, not above the mark.           *)
Sound(b, wm) ==
    /\ wm <= Len(history)
    /\ \A c \in Cells : b[c] <= wm /\ (b[c] # 0 => CellOf(b[c]) = c)

(* No post up to the mark is missing from the bitmap, unless the stream    *)
(* lost one on that cell.                                                  *)
Current(b, wm, gone) ==
    \A c \in Cells :
        \/ \E i \in gone : i <= wm /\ CellOf(i) = c
        \/ \A k \in 1..wm : CellOf(k) = c /\ k > b[c] => ColorOf(k) = ColorOf(b[c])

BitmapsAreSound ==
    /\ Sound(bmp, warmTs)
    /\ Folding => Sound(warm.bmp, warm.from - 1)
    /\ disk # NoSnapshot => Sound(disk.bmp, disk.wm)

BitmapsAreCurrent ==
    /\ Warmed => Current(bmp, warmTs, lost)
    /\ Folding => Current(warm.bmp, warm.from - 1, lost)
    /\ disk # NoSnapshot => Current(disk.bmp, disk.wm, disk.lost)

QueueIsBound ==
    /\ bound => Warmed
    /\ ~bound => queue = <<>>
    /\ ~Warmed => seen = {}

(* What the fold under way has not read, the stream has not brought: it    *)
(* was published to no queue, or is still to come.                         *)
FoldIsWhole ==
    phase = "installing" =>
        /\ \A k \in 1..published : k < warm.from \/ k \in lost
        /\ role = "writer" => warm.from = Len(history) + 1

(* The byte has a post's colour, or a post before it on the cell was lost. *)
Agrees(k) ==
    \/ ColorOf(k) = ColorOf(bmp[CellOf(k)])
    \/ \E i \in lost : i < k /\ CellOf(i) = CellOf(k)

(* The bitmap needs no more of a post, nor of those before it on its cell. *)
Settled(k) ==
    \A j \in 1..k : j > warmTs /\ j \notin lost /\ CellOf(j) = CellOf(k) => Agrees(j)
Pending(k) == k > warmTs /\ k \notin lost

(* Only a lone writer has a post to apply, and it is the last of all.  Its *)
(* other posts above the mark have failed, unless their event has come.    *)
WriterIsAlone ==
    /\ \A r \in Requests :
            applying[r] # 0 => role = "writer" /\ applying[r] = Len(history) /\ phase = "up"
    /\ role = "writer" /\ Warmed =>
            \A k \in Posts :
                Pending(k) => k \in failed \/ Settled(k) \/ \E r \in Requests : applying[r] = k

(* Posts are brought in order, whoever made them: before an event of the   *)
(* queue, and before the next the CDC job will publish, every pending post *)
(* is settled or comes earlier in the queue for the first time.            *)
StreamIsOrdered ==
    Warmed =>
        /\ \A n \in 1..Len(queue) : \A k \in 1..queue[n] - 1 :
               Pending(k) => Settled(k) \/ \E m \in 1..n - 1 : queue[m] = k /\ k \notin seen
        /\ \A k \in 1..published :
               Pending(k) => Settled(k) \/ \E m \in 1..Len(queue) : queue[m] = k /\ k \notin seen
        /\ \A k \in seen : Pending(k) => Settled(k)

Inv ==
    /\ TypeInv
    /\ BitmapsAreSound
    /\ BitmapsAreCurrent
    /\ QueueIsBound
    /\ FoldIsWhole
    /\ WriterIsAlone
    /\ StreamIsOrdered

(* Who posts: this server alone, or only others.                           *)
NeverBoth == Roles \subseteq {"writer", "follower"}

(* One request at a time.                                                  *)
NoOverlap == \A r, s \in Requests : r = s

(***************************************************************************)
(* Lemmas about the operators of the model.                                *)
(***************************************************************************)
(* The newest of a set of post numbers is in it, and above the others.     *)
LEMMA NewestIsGreatest ==
    ASSUME NEW S, NEW top \in Nat, S \subseteq 0..top, S # {}
    PROVE  Newest(S) \in S /\ \A j \in S : j <= Newest(S)
<1> DEFINE Before == OpToRel(<, Nat)
           T == {top - s : s \in S}
<1>1. IsWellFoundedOn(Before, Nat)
  BY NatLessThanWellFounded DEF OpToRel
<1>2. T \subseteq Nat /\ T # {}
  <2>1. PICK s \in S : TRUE
    OBVIOUS
  <2>2. top - s \in T
    BY <2>1
  <2>3. \A t \in S : t \in Nat /\ t <= top /\ top - t \in Nat
    OBVIOUS
  <2> QED BY <2>2, <2>3
<1>3. PICK x \in T : \A y \in T : ~(<<y, x>> \in Before)
  <2> HIDE DEF T, Before
  <2> QED BY <1>1, <1>2, WFMin, Zenon
<1>4. \A y \in T : ~(y < x)
  BY <1>2, <1>3 DEF OpToRel
<1>5. PICK i \in S : x = top - i
  BY <1>3
<1>6. ASSUME NEW j \in S PROVE j <= i
  <2>1. ~(top - j < top - i)
    BY <1>4, <1>5
  <2>2. i \in Nat /\ j \in Nat
    OBVIOUS
  <2> QED BY <2>1, <2>2
<1> QED BY <1>5, <1>6 DEF Newest

(* A longer history keeps the posts it had.                                *)
LEMMA PostKeeps ==
    ASSUME TypeOK, NEW c \in Cells, NEW col \in Colors, Post(c, col)
    PROVE  /\ history' \in Seq([cell : Cells, color : Colors])
           /\ Len(history') = Len(history) + 1 /\ Len(history) \in Nat
           /\ Len(history') <= MaxPosts
           /\ \A i \in Posts : CellOf(i)' = CellOf(i) /\ ColorOf(i)' = ColorOf(i)
           /\ \A i \in Posts : i \in Posts'
  BY CanvasAssumption DEF Post, TypeOK, Posts, CellOf, ColorOf

(* A post is on a cell of the canvas.                                      *)
LEMMA CellOfIs ==
    ASSUME TypeOK, NEW i \in Posts
    PROVE  CellOf(i) \in Cells /\ i \in Nat /\ i # 0 /\ Len(history) \in Nat
<1> DEFINE S == [cell : Cells, color : Colors]
<1>1. history \in Seq(S) /\ i \in 1..Len(history) /\ Len(history) \in Nat
  BY DEF TypeOK, Posts
<1>2. history[i] \in S
  <2> HIDE DEF S
  <2> QED BY <1>1
<1> QED BY <1>1, <1>2 DEF CellOf

(* A fold of posts leaves on each cell the last of them, or what was there.*)
LEMMA FoldedIs ==
    ASSUME NEW b \in Bitmaps, NEW from \in Nat, NEW to \in Nat, NEW c \in Cells
    PROVE  \/ /\ \A i \in from..to : CellOf(i) # c
              /\ Folded(b, from, to)[c] = b[c]
           \/ /\ Folded(b, from, to)[c] \in from..to
              /\ CellOf(Folded(b, from, to)[c]) = c
              /\ \A i \in from..to : CellOf(i) = c => i <= Folded(b, from, to)[c]
<1> DEFINE on == {i \in from..to : CellOf(i) = c}
<1>1. Folded(b, from, to)[c] = IF on = {} THEN b[c] ELSE Newest(on)
  BY DEF Folded
<1>2. CASE on = {}
  BY <1>1, <1>2
<1>3. CASE on # {}
  <2>1. on \subseteq 0..to
    OBVIOUS
  <2>2. Newest(on) \in on /\ \A j \in on : j <= Newest(on)
    <3> HIDE DEF on
    <3> QED BY <1>3, <2>1, NewestIsGreatest
  <2> QED BY <1>1, <1>3, <2>2
<1> QED BY <1>2, <1>3

(* A page ends within the history, and a short one at its end.             *)
LEMMA PageIs ==
    ASSUME TypeOK, warm.from \in Nat \ {0}
    PROVE  /\ PageEnd \in Nat /\ PageEnd <= Len(history) /\ Len(history) \in Nat
           /\ NextPage \in Nat \ {0} /\ NextPage <= MaxPosts + 1
           /\ NextPage >= warm.from
           /\ warm.from <= Len(history) + 1 => NextPage = PageEnd + 1
           /\ ShortPage => PageEnd = Len(history)
  BY SMTT(40), CanvasAssumption DEF TypeOK, PageEnd, NextPage, ShortPage, Larger

(***************************************************************************)
(* Types, whoever posts.                                                   *)
(***************************************************************************)
(* TypeInv holds at the start.                                             *)
LEMMA TypeInit == Init => TypeInv
<1> SUFFICES ASSUME Init PROVE TypeInv
  OBVIOUS
<1>1. Blank \in Bitmaps /\ NoWarm \in [from : 0..MaxPosts + 1, bmp : Bitmaps]
  BY CanvasAssumption DEF Blank, Bitmaps, Times, NoWarm
<1>2. NoSnapshot \in [bmp : Bitmaps, wm : Times \cup {-1}, lost : SUBSET Posts]
  BY <1>1 DEF NoSnapshot
<1>3. history \in Seq([cell : Cells, color : Colors]) /\ queue \in Seq(Posts) /\ Len(history) = 0
  BY DEF Init
<1>4. applying \in [Requests -> Times]
  BY CanvasAssumption DEF Init, Times
<1>5. disk \in [bmp : Bitmaps, wm : Times \cup {-1}, lost : SUBSET Posts]
  BY <1>2 DEF Init
<1>6. bound \in BOOLEAN /\ phase \in Phases
  BY DEF Init, Phases
<1>7. /\ published \in 0..Len(history) /\ rewinds \in 0..MaxRewinds /\ drops \in 0..MaxDrops
      /\ crashes \in 0..MaxCrashes /\ saved \in Times /\ warmTs \in Times
  BY <1>3, CanvasAssumption DEF Init, Times
<1>8. seen \subseteq Posts /\ lost \subseteq Posts /\ failed \subseteq Posts /\ role \in Roles /\ Len(history) <= MaxPosts
  BY <1>3, CanvasAssumption DEF Init
<1>9. bmp \in Bitmaps /\ warm \in [from : 0..MaxPosts + 1, bmp : Bitmaps]
  BY <1>1 DEF Init
<1>10. TypeOK
  BY <1>3, <1>4, <1>5, <1>6, <1>7, <1>8, <1>9 DEF TypeOK
<1> QED BY <1>10 DEF Init, TypeInv, Folding

(* Every step keeps TypeInv.                                               *)
LEMMA TypeStep == TypeInv /\ [Next]_vars => TypeInv'
<1> SUFFICES ASSUME TypeInv, [Next]_vars PROVE TypeInv'
  OBVIOUS
<1> USE CanvasAssumption DEF TypeInv, Folding
<1>0. /\ Blank \in Bitmaps /\ NoWarm \in [from : 0..MaxPosts + 1, bmp : Bitmaps]
      /\ Len(history) \in Nat /\ Len(history) <= MaxPosts
  BY DEF TypeOK, Blank, Bitmaps, Times, NoWarm
<1>1. CASE WarmBegin
  <2>1. warm' \in [from : 0..MaxPosts + 1, bmp : Bitmaps] /\ warm'.from \in Nat \ {0}
    BY SMTT(40), <1>0, <1>1 DEF WarmBegin, TypeOK, ResumeAt, Times
  <2>2. lost' \subseteq Posts
    BY <1>1 DEF WarmBegin, TypeOK
  <2> QED BY <1>1, <2>1, <2>2 DEF WarmBegin, TypeOK, Phases, Posts, ledger, stream, file
<1>2. CASE WarmPage
  <2>1. warm.from \in Nat \ {0}
    BY <1>2 DEF WarmPage
  <2> HIDE DEF TypeInv
  <2>2. TypeOK /\ NextPage \in Nat \ {0} /\ NextPage <= MaxPosts + 1 /\ PageEnd \in Nat
          /\ PageEnd <= MaxPosts
    BY <2>1, <1>0, PageIs DEF TypeInv
  <2>3. Folded(warm.bmp, warm.from, PageEnd) \in Bitmaps
    <3>1. warm.bmp \in Bitmaps
      BY <2>2 DEF TypeOK
    <3>2. ASSUME NEW c \in Cells
          PROVE  Folded(warm.bmp, warm.from, PageEnd)[c] \in Times
      BY <3>1, <3>2, <2>1, <2>2, FoldedIs DEF Bitmaps, Times
    <3> QED BY <3>2 DEF Bitmaps, Folded
  <2>4. warm' \in [from : 0..MaxPosts + 1, bmp : Bitmaps] /\ warm'.from \in Nat \ {0}
    BY <1>2, <2>2, <2>3 DEF WarmPage
  <2> QED BY <1>2, <2>2, <2>4 DEF TypeInv, WarmPage, TypeOK, Phases, Posts, ledger, stream, file
<1>3. CASE WarmEnd
  BY SMTT(40), <1>0, <1>3 DEF WarmEnd, TypeOK, Phases, Posts, Times, ledger, stream, file
<1>4. CASE SaveFirst
  <2>1. /\ disk' \in [bmp : Bitmaps, wm : Times \cup {-1}, lost : SUBSET Posts]
        /\ disk' # NoSnapshot => disk'.wm \in Nat
    BY SMTT(40), <1>4 DEF SaveFirst, TypeOK, Times, Written
  <2> QED BY <1>4, <2>1 DEF SaveFirst, TypeOK, Phases, Posts, Times, ledger, stream
<1>5. CASE MarkFirst
  BY <1>0, <1>5 DEF MarkFirst, TypeOK, Phases, Posts, Times, ledger, stream
<1>6. CASE SaveTick
  <2>1. /\ disk' \in [bmp : Bitmaps, wm : Times \cup {-1}, lost : SUBSET Posts]
        /\ disk' # NoSnapshot => disk'.wm \in Nat
    BY <1>6 DEF SaveTick, TypeOK, Times, Written
  <2> QED BY SMTT(40), <1>6, <2>1 DEF SaveTick, TypeOK, Phases, Posts, Times, ledger, stream
<1>7. ASSUME NEW r \in Requests, NEW c \in Cells, NEW col \in Colors, ConfirmPost(r, c, col)
      PROVE  TypeInv'
  <2>1. /\ history' \in Seq([cell : Cells, color : Colors])
        /\ Len(history') = Len(history) + 1 /\ Len(history') <= MaxPosts
        /\ \A i \in Posts : i \in Posts'
    BY <1>7, PostKeeps DEF ConfirmPost
  <2>2. applying' \in [Requests -> Times]
    BY <1>7, <1>0, <2>1 DEF ConfirmPost, TypeOK, Times
  <2>3. queue' \in Seq(Posts')
    BY <1>7, <2>1 DEF ConfirmPost, TypeOK, stream
  <2>4. failed' \subseteq Posts'
    <3>1. Len(history) + 1 \in Posts'
      BY <1>0, <2>1 DEF Posts
    <3>2. failed \subseteq Posts /\ failed' \subseteq failed \cup {Len(history) + 1}
      BY <1>7 DEF ConfirmPost, TypeOK
    <3> QED BY <2>1, <3>1, <3>2
  <2> QED BY SMTT(40), <1>7, <1>0, <2>1, <2>2, <2>3, <2>4 DEF ConfirmPost, Post, TypeOK, Posts, stream, file
<1>8. ASSUME NEW r \in Requests, ConfirmApply(r)
      PROVE  TypeInv'
  <2>1. applying[r] \in Times
    BY DEF TypeOK
  <2>2. bmp' \in Bitmaps
    BY <1>8, <2>1 DEF ConfirmApply, TypeOK, Bitmaps
  <2>3. warmTs' \in Times
    BY <1>8, <1>0, <2>1 DEF ConfirmApply, TypeOK, Times, Larger
  <2>4. applying' \in [Requests -> Times] /\ lost' \subseteq Posts /\ failed' \subseteq Posts
    BY SMTT(40), <1>8, <1>0 DEF ConfirmApply, TypeOK, Times
  <2> QED BY <1>8, <2>2, <2>3, <2>4 DEF ConfirmApply, TypeOK, Posts, Times, ledger, stream, file
<1>9. ASSUME NEW c \in Cells, NEW col \in Colors, OtherPost(c, col)
      PROVE  TypeInv'
  <2>1. /\ history' \in Seq([cell : Cells, color : Colors])
        /\ Len(history') = Len(history) + 1 /\ Len(history') <= MaxPosts
        /\ \A i \in Posts : i \in Posts'
    BY <1>9, PostKeeps DEF OtherPost
  <2>2. queue' \in Seq(Posts')
    BY <1>9, <2>1 DEF OtherPost, TypeOK, stream
  <2> QED BY SMTT(40), <1>9, <1>0, <2>1, <2>2 DEF OtherPost, Post, TypeOK, Posts, stream, file
<1>10. CASE Publish
  <2>1. published + 1 \in Posts /\ published' \in 0..Len(history)
    BY <1>0, <1>10 DEF Publish, TypeOK, Posts
  <2>2. queue' \in Seq(Posts)
    BY <1>10, <2>1 DEF Publish, TypeOK
  <2>3. lost' \subseteq Posts
    BY <1>10, <2>1 DEF Publish, TypeOK
  <2> QED BY <1>10, <2>1, <2>2, <2>3 DEF Publish, TypeOK, Posts, file
<1>11. CASE Rewind
  BY SMTT(40), <1>0, <1>11 DEF Rewind, TypeOK, Posts, stream, file
<1>12. CASE Bind
  BY <1>12 DEF Bind, TypeOK, Posts, ledger, file
<1>13. CASE Drop
  <2>1. QueueIds \subseteq Posts
    BY DEF QueueIds, TypeOK
  <2>2. queue' \in Seq(Posts) /\ lost' \subseteq Posts /\ drops' \in 0..MaxDrops
    BY <1>13, <2>1 DEF Drop, TypeOK
  <2> QED BY <1>13, <2>2 DEF Drop, TypeOK, Posts, ledger, file
<1>14. CASE Deliver
  <2>1. Head(queue) \in Posts /\ queue' \in Seq(Posts)
    BY <1>14 DEF Deliver, TypeOK
  <2>2. bmp' \in Bitmaps /\ warmTs' \in Times
    <3>1. Head(queue) \in Times
      BY <2>1, <1>0 DEF Posts, Times
    <3>2. CASE UNCHANGED <<bmp, warmTs>>
      BY <3>2 DEF TypeOK
    <3>3. CASE bmp' = [bmp EXCEPT ![CellOf(Head(queue))] = Head(queue)] /\ warmTs' = Head(queue)
      BY <3>1, <3>3 DEF TypeOK, Bitmaps
    <3> QED BY <1>14, <3>2, <3>3 DEF Deliver, ApplyEvent
  <2> QED BY <1>14, <2>1, <2>2 DEF Deliver, TypeOK, Posts, ledger, file
<1>15. CASE Crash
  <2>1. applying' \in [Requests -> Times] /\ queue' \in Seq(Posts) /\ bmp' \in Bitmaps
    BY <1>0, <1>15 DEF Crash, Times
  <2> HIDE DEF TypeInv, Folding
  <2>2. bound' \in BOOLEAN /\ phase' \in Phases
    BY <1>15 DEF Crash, Phases
  <2>3. /\ saved' \in Times /\ warmTs' \in Times /\ crashes' \in 0..MaxCrashes
        /\ seen' \subseteq Posts /\ lost' \subseteq Posts /\ failed' \subseteq Posts
        /\ warm' \in [from : 0..MaxPosts + 1, bmp : Bitmaps]
    BY <1>0, <1>15 DEF TypeInv, TypeOK, Crash, Times
  <2>4. UNCHANGED <<role, history, published, rewinds, drops, disk>>
    BY <1>15 DEF Crash, ledger
  <2>5. TypeOK'
    BY <2>1, <2>2, <2>3, <2>4 DEF TypeInv, TypeOK, Posts
  <2> QED BY <1>15, <2>5 DEF Crash, TypeInv, Folding
<1>16. CASE UNCHANGED vars
  BY <1>16 DEF vars, TypeOK, Posts, ledger, stream, file
<1> QED BY <1>1, <1>2, <1>3, <1>4, <1>5, <1>6, <1>7, <1>8, <1>9, <1>10, <1>11,
           <1>12, <1>13, <1>14, <1>15, <1>16 DEF Next

(* Every variable keeps to its type: the watermark never passes the        *)
(* ledger's clock, no page of the fold reads past the history, and the     *)
(* queue, the dedupe set and the lost posts are posts that were made.      *)
THEOREM TypeCorrect == Spec => []TypeOK
<1>1. TypeInv => TypeOK
  BY DEF TypeInv
<1> QED BY <1>1, TypeInit, TypeStep, PTL DEF Spec

(***************************************************************************)
(* Bitmaps and the history.                                                *)
(***************************************************************************)
(* What a step leaves of the history: all of it.                           *)
HistoryKept ==
    /\ Len(history) \in Nat /\ Len(history') \in Nat /\ Len(history) <= Len(history')
    /\ \A i \in Posts : CellOf(i)' = CellOf(i) /\ ColorOf(i)' = ColorOf(i)

(* No step takes a post away or changes one.                               *)
LEMMA HistoryIsKept == TypeOK /\ [Next]_vars => HistoryKept
<1> SUFFICES ASSUME TypeOK, [Next]_vars PROVE HistoryKept
  OBVIOUS
<1>0. Len(history) \in Nat
  BY DEF TypeOK
<1>1. CASE UNCHANGED history
  BY <1>0, <1>1 DEF HistoryKept, CellOf, ColorOf
<1>2. ASSUME NEW c \in Cells, NEW col \in Colors, Post(c, col)
      PROVE  HistoryKept
  <2>1. Len(history') = Len(history) + 1
    BY <1>2, PostKeeps
  <2>2. \A i \in Posts : CellOf(i)' = CellOf(i) /\ ColorOf(i)' = ColorOf(i)
    BY <1>2, PostKeeps
  <2> QED BY <1>0, <2>1, <2>2 DEF HistoryKept
<1> QED BY <1>1, <1>2 DEF Next, vars, ledger, WarmBegin, WarmPage, WarmEnd, SaveFirst,
           MarkFirst, SaveTick, ConfirmPost, ConfirmApply, OtherPost, Publish, Rewind,
           Bind, Drop, Deliver, Crash

(* A sound bitmap stays sound as the history grows.                        *)
LEMMA SoundKept ==
    ASSUME HistoryKept, NEW b \in Bitmaps, NEW wm \in Nat, Sound(b, wm)
    PROVE  Sound(b, wm)'
<1>1. \A c \in Cells : b[c] \in Nat
  BY CanvasAssumption DEF Bitmaps, Times
<1>2. \A c \in Cells : b[c] # 0 => b[c] \in Posts
  BY <1>1 DEF Sound, HistoryKept, Posts
<1>3. wm <= Len(history')
  BY DEF Sound, HistoryKept
<1> QED BY <1>2, <1>3 DEF Sound, HistoryKept

(* A current bitmap stays current as the history grows and as more posts   *)
(* are lost.                                                               *)
LEMMA CurrentKept ==
    ASSUME HistoryKept, NEW b \in Bitmaps, NEW wm \in Nat, Sound(b, wm),
           NEW gone \in SUBSET Posts, NEW more, gone \subseteq more, Current(b, wm, gone)
    PROVE  Current(b, wm, more)'
<1> SUFFICES ASSUME NEW c \in Cells
             PROVE  \/ \E i \in more : i <= wm /\ CellOf(i)' = c
                    \/ \A k \in 1..wm : CellOf(k)' = c /\ k > b[c] => ColorOf(k)' = ColorOf(b[c])'
  BY DEF Current
<1>1. CASE \E i \in gone : i <= wm /\ CellOf(i) = c
  BY <1>1 DEF HistoryKept
<1>2. CASE \A k \in 1..wm : CellOf(k) = c /\ k > b[c] => ColorOf(k) = ColorOf(b[c])
  <2>1. b[c] \in Nat /\ b[c] <= wm /\ wm <= Len(history)
    BY CanvasAssumption DEF Bitmaps, Times, Sound
  <2>2. \A k \in 1..wm : k \in Posts
    BY <2>1 DEF Posts, HistoryKept
  <2>3. ColorOf(b[c])' = ColorOf(b[c])
    <3>1. CASE b[c] = 0
      BY <3>1 DEF ColorOf
    <3>2. CASE b[c] # 0
      BY <3>2, <2>1 DEF HistoryKept, Posts
    <3> QED BY <3>1, <3>2
  <2> QED BY <1>2, <2>2, <2>3 DEF HistoryKept
<1> QED BY <1>1, <1>2 DEF Current

(* Every step keeps the three bitmaps sound: the server's, the fold's and  *)
(* the file's.                                                             *)
LEMMA SoundStep ==
    ASSUME TypeInv, TypeInv', BitmapsAreSound, [Next]_vars
    PROVE  BitmapsAreSound'
<1>1. TypeOK /\ HistoryKept
  BY HistoryIsKept DEF TypeInv
<1>2. /\ bmp \in Bitmaps /\ warmTs \in Nat /\ warm.bmp \in Bitmaps /\ disk.bmp \in Bitmaps
      /\ Folding => warm.from \in Nat \ {0}
      /\ disk # NoSnapshot => disk.wm \in Nat
  BY CanvasAssumption DEF TypeInv, TypeOK, Times
<1>3. /\ Sound(bmp, warmTs)
      /\ Folding => Sound(warm.bmp, warm.from - 1)
      /\ disk # NoSnapshot => Sound(disk.bmp, disk.wm)
  BY DEF BitmapsAreSound
<1>4. Len(history) \in Nat /\ MaxPosts \in Nat
  BY CanvasAssumption DEF TypeOK, TypeInv
<1>5. ASSUME UNCHANGED <<bmp, warmTs>> PROVE Sound(bmp, warmTs)'
  BY <1>1, <1>2, <1>3, <1>5, SoundKept
<1>6. ASSUME UNCHANGED <<phase, warm>> PROVE (Folding => Sound(warm.bmp, warm.from - 1))'
  <2> SUFFICES ASSUME Folding PROVE Sound(warm.bmp, warm.from - 1)'
    BY <1>6 DEF Folding
  <2> QED BY <1>1, <1>2, <1>3, <1>6, SoundKept
<1>7. ASSUME UNCHANGED disk PROVE (disk # NoSnapshot => Sound(disk.bmp, disk.wm))'
  <2> SUFFICES ASSUME disk # NoSnapshot PROVE Sound(disk.bmp, disk.wm)'
    BY <1>7
  <2> QED BY <1>1, <1>2, <1>3, <1>7, SoundKept
<1>8. CASE WarmBegin
  <2>1. UNCHANGED <<history, bmp, warmTs, disk>> /\ Folding'
    BY <1>8 DEF WarmBegin, ledger, file, Folding
  <2>2. CASE disk # NoSnapshot /\ warm' = [from |-> ResumeAt(disk.wm), bmp |-> disk.bmp]
    BY <1>2, <1>3, <1>5, <1>7, <2>1, <2>2 DEF ResumeAt, BitmapsAreSound, Sound, CellOf
  <2>3. CASE warm' = [from |-> 1, bmp |-> Blank]
    BY <1>4, <1>5, <1>7, <2>1, <2>3 DEF Blank, BitmapsAreSound, Sound
  <2> QED BY <1>8, <2>2, <2>3 DEF WarmBegin
<1>9. CASE WarmPage
  <2>1. UNCHANGED <<history, bmp, warmTs, disk>> /\ Folding
    BY <1>9 DEF WarmPage, ledger, file, Folding
  <2>2. warm.from \in Nat \ {0} /\ warm.from - 1 <= Len(history)
    BY <1>2, <1>3, <2>1 DEF Sound
  <2>3. PageEnd \in Nat /\ PageEnd <= Len(history) /\ NextPage = PageEnd + 1 /\ NextPage >= warm.from
    BY <1>1, <1>4, <2>2, PageIs
  <2>4. ASSUME NEW b, NEW end, b = Folded(warm.bmp, warm.from, PageEnd), end = PageEnd
        PROVE  Sound(b, end)'
    <3>1. \A c \in Cells : warm.bmp[c] <= warm.from - 1 /\ (warm.bmp[c] # 0 => CellOf(warm.bmp[c]) = c)
      BY <1>3, <2>1 DEF Sound
    <3>2. \A c \in Cells : b[c] <= PageEnd /\ (b[c] # 0 => CellOf(b[c]) = c)
      <4> SUFFICES ASSUME NEW c \in Cells
                   PROVE  b[c] <= PageEnd /\ (b[c] # 0 => CellOf(b[c]) = c)
        OBVIOUS
      <4>1. warm.bmp[c] \in Nat
        BY <1>2, <1>4 DEF Bitmaps, Times
      <4> QED BY SMTT(40), <1>2, <2>2, <2>3, <2>4, <3>1, <4>1, FoldedIs
    <3> QED BY <2>1, <2>3, <2>4, <3>2 DEF Sound, CellOf
  <2>5. warm'.bmp = Folded(warm.bmp, warm.from, PageEnd) /\ warm'.from - 1 = PageEnd
    BY <1>9, <2>3 DEF WarmPage
  <2> QED BY <1>5, <1>7, <2>1, <2>4, <2>5 DEF BitmapsAreSound
<1>10. CASE WarmEnd
  <2>1. UNCHANGED <<history, disk>> /\ ~Folding' /\ Folding
    BY <1>10 DEF WarmEnd, ledger, file, Folding
  <2>2. Sound(bmp, warmTs)'
    BY <1>3, <1>10, <2>1 DEF WarmEnd, Sound, CellOf
  <2> QED BY <1>7, <2>1, <2>2 DEF BitmapsAreSound
<1>11. CASE SaveFirst
  <2>1. UNCHANGED <<history, bmp, warmTs>> /\ ~Folding' /\ disk' \in {disk, Written}
    BY <1>11 DEF SaveFirst, ledger, Folding
  <2>2. CASE disk' = Written
    BY <1>3, <1>5, <2>1, <2>2 DEF BitmapsAreSound, Written, Sound, CellOf
  <2> QED BY <1>5, <1>7, <2>1, <2>2 DEF BitmapsAreSound
<1>12. CASE MarkFirst
  <2>1. UNCHANGED <<bmp, warmTs, disk>> /\ ~Folding'
    BY <1>12 DEF MarkFirst, Folding
  <2> QED BY <1>5, <1>7, <2>1 DEF BitmapsAreSound
<1>13. CASE SaveTick
  <2>1. UNCHANGED <<history, phase, warm, bmp, warmTs>> /\ disk' = Written
    BY <1>13 DEF SaveTick, ledger
  <2> QED BY <1>3, <1>5, <1>6, <2>1 DEF BitmapsAreSound, Written, Sound, CellOf
<1>14. ASSUME NEW r \in Requests, ConfirmApply(r) PROVE BitmapsAreSound'
  <2>1. UNCHANGED <<history, phase, warm, disk>>
    BY <1>14 DEF ConfirmApply, ledger, file
  <2>2. applying[r] \in Nat /\ applying[r] # 0 /\ bmp' = [bmp EXCEPT ![CellOf(applying[r])] = applying[r]]
    BY <1>1, <1>4, <1>14 DEF ConfirmApply, TypeOK, Times
  <2>3. PICK now \in applying[r]..Len(history) : warmTs' = Larger(warmTs, now)
    BY <1>14 DEF ConfirmApply
  <2>4. warmTs' \in Nat /\ warmTs' >= warmTs /\ warmTs' >= applying[r] /\ warmTs' <= Len(history)
    BY <1>2, <1>3, <1>4, <2>2, <2>3 DEF Larger, Sound
  <2>5. \A c \in Cells : bmp'[c] <= warmTs' /\ (bmp'[c] # 0 => CellOf(bmp'[c]) = c)
    BY <1>2, <1>3, <1>4, <2>2, <2>4 DEF Bitmaps, Times, Sound
  <2>6. Sound(bmp, warmTs)'
    BY <2>1, <2>4, <2>5 DEF Sound, CellOf
  <2> QED BY <1>6, <1>7, <2>1, <2>6 DEF BitmapsAreSound
<1>15. CASE Deliver
  <2>1. UNCHANGED <<history, phase, warm, disk>>
    BY <1>15 DEF Deliver, ledger, file
  <2>2. CASE UNCHANGED <<bmp, warmTs>>
    BY <1>5, <1>6, <1>7, <2>1, <2>2 DEF BitmapsAreSound
  <2>3. CASE /\ Head(queue) > warmTs
             /\ bmp' = [bmp EXCEPT ![CellOf(Head(queue))] = Head(queue)] /\ warmTs' = Head(queue)
    <3>1. Head(queue) \in Posts
      BY <1>1, <1>15 DEF Deliver, TypeOK
    <3>2. \A c \in Cells : bmp'[c] <= warmTs' /\ (bmp'[c] # 0 => CellOf(bmp'[c]) = c)
      BY <1>2, <1>3, <1>4, <2>3, <3>1 DEF Bitmaps, Times, Sound, Posts
    <3>3. Sound(bmp, warmTs)'
      BY <2>1, <2>3, <3>1, <3>2 DEF Sound, CellOf, Posts
    <3> QED BY <1>6, <1>7, <2>1, <3>3 DEF BitmapsAreSound
  <2>4. Head(queue) \in Nat
    BY SMTT(40), <1>1, <1>15, <1>4 DEF Deliver, TypeOK, Posts
  <2> QED BY <1>2, <1>15, <2>2, <2>3, <2>4 DEF Deliver, ApplyEvent
<1>16. CASE Crash
  <2>1. UNCHANGED disk /\ bmp' = Blank /\ warmTs' = 0 /\ ~Folding'
    BY <1>16 DEF Crash, Folding
  <2> QED BY <1>1, <1>7, <2>1 DEF BitmapsAreSound, Sound, Blank, HistoryKept
<1>17. CASE UNCHANGED <<phase, warm, bmp, warmTs, disk>>
  BY <1>5, <1>6, <1>7, <1>17 DEF BitmapsAreSound
<1> QED BY <1>8, <1>9, <1>10, <1>11, <1>12, <1>13, <1>14, <1>15, <1>16, <1>17
        DEF Next, vars, file, ConfirmPost, OtherPost, Publish, Rewind, Bind, Drop

(***************************************************************************)
(* The stream, the fold and the lone writer.                               *)
(***************************************************************************)
(* There is a queue only for a warmed server, and only while bound.        *)
LEMMA BoundStep ==
    ASSUME TypeInv, QueueIsBound, [Next]_vars
    PROVE  QueueIsBound'
<1> USE DEF QueueIsBound, Warmed
<1>1. CASE WarmBegin \/ WarmPage \/ WarmEnd
  BY <1>1 DEF WarmBegin, WarmPage, WarmEnd, stream
<1>2. CASE SaveFirst \/ MarkFirst \/ SaveTick
  BY <1>2 DEF SaveFirst, MarkFirst, SaveTick, stream
<1>3. ASSUME NEW r \in Requests, NEW c \in Cells, NEW col \in Colors,
             ConfirmPost(r, c, col)
      PROVE  QueueIsBound'
  BY <1>3 DEF ConfirmPost, stream
<1>4. CASE Publish \/ Rewind \/ Bind \/ Drop \/ Deliver
  BY <1>4 DEF Publish, Rewind, Bind, Drop, Deliver, stream
<1>5. CASE Crash
  BY <1>5 DEF Crash
<1>6. CASE UNCHANGED vars
  BY <1>6 DEF vars, stream
<1>7. ASSUME NEW c \in Cells, NEW col \in Colors, OtherPost(c, col)
      PROVE  QueueIsBound'
  BY <1>7 DEF OtherPost, stream
<1>8. ASSUME NEW r \in Requests, ConfirmApply(r)
      PROVE  QueueIsBound'
  BY <1>8 DEF ConfirmApply, stream
<1> QED BY <1>1, <1>2, <1>3, <1>4, <1>5, <1>6, <1>7, <1>8 DEF Next

(* Only a lone writer has a post of its own to apply: the last of all.     *)
LEMMA ApplyingIsLast ==
    ASSUME WriterIsAlone, NEW r \in Requests, applying[r] # 0
    PROVE  role = "writer" /\ phase = "up" /\ applying[r] = Len(history)
  BY DEF WriterIsAlone

(* The fold leaves behind only what the stream will bring or has lost.     *)
LEMMA FoldStep ==
    ASSUME TypeInv, BitmapsAreSound, QueueIsBound, FoldIsWhole, WriterIsAlone, [Next]_vars
    PROVE  FoldIsWhole'
<1>0. TypeOK /\ Len(history) \in Nat /\ published \in 0..Len(history)
  BY DEF TypeInv, TypeOK
<1>1. CASE phase' # "installing"
  BY <1>1 DEF FoldIsWhole
<1>2. CASE WarmPage /\ phase' = "installing"
  <2>1. warm.from \in Nat \ {0} /\ warm.from - 1 <= Len(history) /\ ShortPage
    BY <1>2, <1>0 DEF WarmPage, TypeInv, Folding, BitmapsAreSound, Sound
  <2>2. NextPage = Len(history) + 1
    BY <1>0, <2>1, PageIs
  <2>3. UNCHANGED <<history, published>> /\ warm'.from = NextPage
    BY <1>2 DEF WarmPage, ledger
  <2> QED BY <1>0, <2>2, <2>3 DEF FoldIsWhole
<1>3. CASE phase = "installing" /\ UNCHANGED <<history, published, role, phase, warm, lost>>
  BY <1>3 DEF FoldIsWhole
<1>4. ASSUME NEW c \in Cells, NEW col \in Colors, OtherPost(c, col), phase = "installing"
      PROVE  FoldIsWhole'
  BY <1>4 DEF OtherPost, Post, FoldIsWhole
<1>5. CASE Publish /\ phase = "installing"
  <2>1. ~bound /\ ~Warmed
    BY <1>5 DEF QueueIsBound, Warmed
  <2>2. /\ published' = published + 1 /\ UNCHANGED <<history, role, phase, warm>>
        /\ lost' = IF published + 1 >= warm.from THEN lost \cup {published + 1} ELSE lost
    BY <1>5, <2>1 DEF Publish, Unread
  <2>3. warm.from \in Nat
    BY <1>5 DEF TypeInv, Folding
  <2>4. ASSUME NEW k \in 1..published + 1 PROVE k < warm.from \/ k \in lost'
    BY <1>0, <1>5, <2>2, <2>3 DEF FoldIsWhole
  <2> QED BY <1>5, <2>2, <2>4 DEF FoldIsWhole
<1>6. CASE Rewind /\ phase = "installing"
  BY <1>0, <1>6 DEF Rewind, FoldIsWhole
<1>7. ASSUME NEW r \in Requests, ConfirmApply(r), phase = "installing"
      PROVE  FALSE
  BY <1>0, <1>7, ApplyingIsLast DEF ConfirmApply
<1>8. CASE Drop /\ phase = "installing"
  BY <1>8 DEF Drop, QueueIsBound, Warmed
<1>9. CASE WarmBegin \/ WarmEnd \/ SaveFirst \/ MarkFirst \/ SaveTick \/ Crash
  BY <1>1, <1>9 DEF WarmBegin, WarmEnd, SaveFirst, MarkFirst, SaveTick, Crash
<1>10. ASSUME NEW r \in Requests, NEW c \in Cells, NEW col \in Colors, ConfirmPost(r, c, col)
       PROVE  FoldIsWhole'
  BY <1>1, <1>10 DEF ConfirmPost
<1>11. CASE Bind \/ Deliver \/ UNCHANGED vars
  BY <1>1, <1>3, <1>11 DEF Bind, Deliver, vars, ledger
<1>12. (Publish \/ Rewind \/ Drop \/ WarmPage) /\ phase # "installing" => FoldIsWhole'
  BY <1>1, <1>2 DEF Publish, Rewind, Drop
<1>13. ASSUME NEW c \in Cells, NEW col \in Colors, OtherPost(c, col), phase # "installing"
       PROVE  FoldIsWhole'
  BY <1>1, <1>13 DEF OtherPost
<1>14. ASSUME NEW r \in Requests, ConfirmApply(r), phase # "installing"
       PROVE  FoldIsWhole'
  BY <1>1, <1>14 DEF ConfirmApply
<1>15. phase = "installing" => ~WarmPage
  BY DEF WarmPage
<1> QED BY <1>4, <1>5, <1>6, <1>7, <1>8, <1>9, <1>10, <1>11, <1>12, <1>13, <1>14, <1>15 DEF Next

(***************************************************************************)
(* Nothing up to a watermark is missing.                                   *)
(***************************************************************************)
(* A page folded into a current bitmap leaves it current to its end.       *)
LEMMA PageIsCurrent ==
    ASSUME NEW b \in Bitmaps, NEW from \in Nat \ {0}, NEW end \in Nat, end >= from - 1,
           NEW gone \in SUBSET Nat, Current(b, from - 1, gone)
    PROVE  Current(Folded(b, from, end), end, gone)
<1> DEFINE f == Folded(b, from, end)
<1> SUFFICES ASSUME NEW c \in Cells
             PROVE  \/ \E i \in gone : i <= end /\ CellOf(i) = c
                    \/ \A k \in 1..end : CellOf(k) = c /\ k > f[c] => ColorOf(k) = ColorOf(f[c])
  BY DEF Current
<1>1. CASE \E i \in gone : i <= from - 1 /\ CellOf(i) = c
  BY <1>1
<1>2. CASE \A k \in 1..from - 1 : CellOf(k) = c /\ k > b[c] => ColorOf(k) = ColorOf(b[c])
  <2> SUFFICES ASSUME NEW k \in 1..end, CellOf(k) = c, k > f[c]
               PROVE  ColorOf(k) = ColorOf(f[c])
    OBVIOUS
  <2>1. CASE (\A i \in from..end : CellOf(i) # c) /\ f[c] = b[c]
    <3>1. k \in 1..from - 1
      BY <2>1
    <3> HIDE DEF f
    <3> QED BY <1>2, <2>1, <3>1
  <2>2. CASE /\ f[c] \in from..end
             /\ \A i \in from..end : CellOf(i) = c => i <= f[c]
    <3> HIDE DEF f
    <3> QED BY <2>2
  <2> QED BY <2>1, <2>2, FoldedIs
<1> QED BY <1>1, <1>2 DEF Current

(* A post that ApplyEvent takes leaves the bitmap current up to it, when   *)
(* no pending post before it still needs to be brought.                    *)
LEMMA AppliedIsCurrent ==
    ASSUME TypeOK, Sound(bmp, warmTs), Current(bmp, warmTs, lost),
           NEW i \in Posts, i > warmTs,
           \A k \in 1..i - 1 : Pending(k) => Agrees(k)
    PROVE  Current([bmp EXCEPT ![CellOf(i)] = i], i, lost)
<1> DEFINE b == [bmp EXCEPT ![CellOf(i)] = i]
<1>0. /\ warmTs \in Nat /\ bmp \in [Cells -> Nat] /\ CellOf(i) \in Cells /\ i \in Nat
      /\ lost \subseteq Nat
  <2>1. bmp \in [Cells -> Nat] /\ warmTs \in Nat
    BY CanvasAssumption DEF TypeOK, Times, Bitmaps
  <2>2. lost \subseteq Nat
    BY DEF TypeOK, Posts
  <2> QED BY <2>1, <2>2, CellOfIs
<1> SUFFICES ASSUME NEW c \in Cells, ~ \E j \in lost : j <= i /\ CellOf(j) = c,
                    NEW k \in 1..i, CellOf(k) = c, k > b[c]
             PROVE  ColorOf(k) = ColorOf(b[c])
  BY DEF Current
<1>1. CASE c = CellOf(i)
  BY <1>0, <1>1
<1>2. CASE c # CellOf(i)
  <2>1. b[c] = bmp[c] /\ k # i
    BY <1>0, <1>2
  <2>2. CASE k <= warmTs
    <3>1. ~ \E j \in lost : j <= warmTs /\ CellOf(j) = c
      BY <1>0
    <3> QED BY <1>0, <2>1, <2>2, <3>1 DEF Current
  <2>3. CASE k > warmTs
    <3>1. k \in 1..i - 1 /\ k \notin lost
      BY <1>0, <2>1
    <3>2. Agrees(k)
      BY <2>3, <3>1 DEF Pending
    <3>3. ~ \E j \in lost : j < k /\ CellOf(j) = CellOf(k)
      BY <1>0
    <3> QED BY <2>1, <3>2, <3>3 DEF Agrees
  <2> QED BY <1>0, <2>2, <2>3
<1> QED BY <1>1, <1>2

(* Before the event at the head of the queue every pending post is settled.*)
LEMMA HeadIsNext ==
    ASSUME TypeOK, QueueIsBound, StreamIsOrdered, bound, queue # <<>>,
           NEW k \in 1..Head(queue) - 1, Pending(k)
    PROVE  Agrees(k) /\ Settled(k)
<1>1. /\ Head(queue) \in Posts /\ Warmed /\ Len(queue) \in Nat \ {0}
      /\ Head(queue) = queue[1] /\ warmTs \in Nat
  BY CanvasAssumption DEF TypeOK, QueueIsBound, Times
<1>2. k \in Nat /\ k >= 1
  BY <1>1 DEF Posts
<1>3. Settled(k)
  BY <1>1 DEF StreamIsOrdered
<1> QED BY <1>2, <1>3 DEF Settled, Pending

(* Every step keeps the three bitmaps current.                             *)
LEMMA CurrentStep ==
    ASSUME NoOverlap, TypeInv, BitmapsAreSound, BitmapsAreCurrent, QueueIsBound,
           WriterIsAlone, StreamIsOrdered, [Next]_vars
    PROVE  BitmapsAreCurrent'
<1>1. TypeOK /\ HistoryKept
  BY HistoryIsKept DEF TypeInv
<1>2. /\ bmp \in Bitmaps /\ warmTs \in Nat /\ warm.bmp \in Bitmaps /\ disk.bmp \in Bitmaps
      /\ Folding => warm.from \in Nat \ {0} /\ warm.from - 1 \in Nat
      /\ disk # NoSnapshot => disk.wm \in Nat
      /\ lost \in SUBSET Posts /\ disk.lost \in SUBSET Posts /\ Len(history) \in Nat
  BY SMTT(40), CanvasAssumption DEF TypeInv, TypeOK, Times
<1>3. /\ Sound(bmp, warmTs)
      /\ Folding => Sound(warm.bmp, warm.from - 1)
      /\ disk # NoSnapshot => Sound(disk.bmp, disk.wm)
  BY DEF BitmapsAreSound
<1>4. /\ Warmed => Current(bmp, warmTs, lost)
      /\ Folding => Current(warm.bmp, warm.from - 1, lost)
      /\ disk # NoSnapshot => Current(disk.bmp, disk.wm, disk.lost)
  BY DEF BitmapsAreCurrent
<1>5. ASSUME UNCHANGED <<bmp, warmTs>>, lost \subseteq lost', Warmed
      PROVE  Current(bmp, warmTs, lost)'
  BY <1>1, <1>2, <1>3, <1>4, <1>5, CurrentKept
<1>6. ASSUME UNCHANGED warm, lost \subseteq lost', Folding
      PROVE  Current(warm.bmp, warm.from - 1, lost)'
  BY <1>1, <1>2, <1>3, <1>4, <1>6, CurrentKept
<1>7. ASSUME UNCHANGED disk PROVE (disk # NoSnapshot => Current(disk.bmp, disk.wm, disk.lost))'
  <2> SUFFICES ASSUME disk # NoSnapshot PROVE Current(disk.bmp, disk.wm, disk.lost)'
    BY <1>7
  <2> QED BY <1>1, <1>2, <1>3, <1>4, <1>7, CurrentKept
<1>8. CASE WarmBegin
  <2>1. UNCHANGED <<history, disk>> /\ ~Warmed'
    BY <1>8 DEF WarmBegin, ledger, file, Warmed
  <2>2. CASE /\ disk # NoSnapshot /\ warm' = [from |-> ResumeAt(disk.wm), bmp |-> disk.bmp]
             /\ lost' = {i \in disk.lost : i <= disk.wm}
    <3>1. warm'.bmp = disk.bmp /\ warm'.from - 1 = disk.wm
      BY <1>2, <2>2 DEF ResumeAt
    <3>2. Current(disk.bmp, disk.wm, disk.lost)
      BY <1>4, <2>2
    <3> QED BY <1>7, <2>1, <2>2, <3>1, <3>2 DEF BitmapsAreCurrent, Current, CellOf, ColorOf
  <2>3. CASE warm' = [from |-> 1, bmp |-> Blank]
    BY <1>7, <2>1, <2>3 DEF BitmapsAreCurrent, Current
  <2> QED BY <1>8, <2>2, <2>3 DEF WarmBegin
<1>9. CASE WarmPage
  <2>1. UNCHANGED <<history, disk, lost>> /\ Folding /\ ~Warmed'
    BY <1>9 DEF WarmPage, ledger, file, Folding, Warmed
  <2>2. warm.from \in Nat \ {0} /\ warm.from - 1 <= Len(history)
    BY <1>2, <1>3, <2>1 DEF Sound
  <2>3. PageEnd \in Nat /\ NextPage = PageEnd + 1 /\ PageEnd >= warm.from - 1
    BY <1>1, <1>2, <2>2, PageIs
  <2>4. lost \in SUBSET Nat
    BY <1>2 DEF Posts
  <2>5. Current(Folded(warm.bmp, warm.from, PageEnd), PageEnd, lost)
    BY <1>2, <1>4, <2>1, <2>2, <2>3, <2>4, PageIsCurrent
  <2>6. warm'.bmp = Folded(warm.bmp, warm.from, PageEnd) /\ warm'.from - 1 = PageEnd
    BY <1>9, <2>3 DEF WarmPage
  <2>7. Current(warm.bmp, warm.from - 1, lost)'
    BY <2>1, <2>5, <2>6 DEF Current, CellOf, ColorOf
  <2> QED BY <1>7, <2>1, <2>7 DEF BitmapsAreCurrent
<1>10. CASE WarmEnd
  <2>1. UNCHANGED <<history, disk, lost>> /\ ~Folding' /\ Folding
    BY <1>10 DEF WarmEnd, ledger, file, Folding
  <2>2. Current(bmp, warmTs, lost)'
    BY <1>4, <1>10, <2>1 DEF WarmEnd, Current, CellOf, ColorOf
  <2> QED BY <1>7, <2>1, <2>2 DEF BitmapsAreCurrent
<1>11. CASE SaveFirst \/ SaveTick
  <2>1. UNCHANGED <<history, bmp, warmTs, lost>> /\ ~Folding' /\ Warmed /\ disk' \in {disk, Written}
    BY <1>11 DEF SaveFirst, SaveTick, ledger, Folding, Warmed
  <2>2. CASE disk' = Written
    <3>1. Current(disk.bmp, disk.wm, disk.lost)'
      BY <1>4, <2>1, <2>2 DEF Written, Current, CellOf, ColorOf
    <3> QED BY <1>5, <2>1, <3>1 DEF BitmapsAreCurrent
  <2> QED BY <1>5, <1>7, <2>1, <2>2 DEF BitmapsAreCurrent
<1>12. ASSUME NEW r \in Requests, ConfirmApply(r) PROVE BitmapsAreCurrent'
  <2>1. UNCHANGED <<history, phase, warm, disk>> /\ role = "writer" /\ phase = "up"
        /\ applying[r] = Len(history) /\ applying[r] # 0 /\ Len(history) \in Posts
    BY <1>1, <1>2, <1>12, ApplyingIsLast DEF ConfirmApply, ledger, file, Posts
  <2>2. /\ warmTs' = Len(history)
        /\ lost' = (lost \ {Len(history)}) \cup {i \in failed : i <= Len(history)}
        /\ bmp' = [bmp EXCEPT ![CellOf(Len(history))] = Len(history)]
    BY <1>2, <1>3, <1>12, <2>1 DEF ConfirmApply, Larger, Sound
  <2>3. ASSUME NEW c \in Cells, ~ \E i \in lost' : i <= Len(history) /\ CellOf(i) = c,
               NEW k \in 1..Len(history), CellOf(k) = c, k > bmp'[c]
        PROVE  ColorOf(k) = ColorOf(bmp'[c])
    <3>1. bmp[c] \in Nat /\ CellOf(Len(history)) \in Cells
      <4>1. bmp[c] \in Nat
        BY <1>2, CanvasAssumption DEF Bitmaps, Times
      <4> QED BY <1>1, <2>1, <4>1, CellOfIs
    <3>2. c # CellOf(Len(history)) /\ bmp'[c] = bmp[c] /\ k # Len(history)
      BY <1>2, <2>2, <2>3, <3>1 DEF Bitmaps
    <3>3. ~ \E i \in lost : i <= Len(history) /\ CellOf(i) = c
      BY <1>2, <2>2, <2>3, <3>2
    <3>4. CASE k <= warmTs
      <4>1. Current(bmp, warmTs, lost)
        BY <1>4, <2>1 DEF Warmed
      <4>2. ~ \E i \in lost : i <= warmTs /\ CellOf(i) = c
        BY <1>2, <1>3, <3>3 DEF Posts, Sound
      <4> QED BY <1>2, <2>3, <3>2, <3>4, <4>1, <4>2 DEF Current
    <3>5. CASE k > warmTs
      <4>1. Pending(k) /\ k \in Posts /\ k \in 1..k
        BY <2>3, <3>3, <3>5 DEF Pending, Posts
      <4>2. k \notin failed
        BY <1>2, <2>2, <2>3, <4>1
      <4>3. ~ \E s \in Requests : applying[s] = k
        BY <2>1, <3>2, <4>1 DEF WriterIsAlone
      <4>4. Settled(k)
        BY <2>1, <4>1, <4>2, <4>3 DEF WriterIsAlone, Warmed
      <4>5. Agrees(k)
        BY <4>1, <4>4 DEF Settled, Pending
      <4>6. ~ \E i \in lost : i < k /\ CellOf(i) = CellOf(k)
        BY <1>2, <2>3, <3>3 DEF Posts
      <4> QED BY <2>3, <3>2, <4>5, <4>6 DEF Agrees
    <3> QED BY <1>2, <3>4, <3>5
  <2>4. Current(bmp, warmTs, lost)'
    BY <2>1, <2>2, <2>3 DEF Current, CellOf, ColorOf
  <2> QED BY <1>7, <2>1, <2>4 DEF BitmapsAreCurrent, Folding
<1>13. CASE Deliver
  <2>1. UNCHANGED <<history, phase, warm, disk, lost>> /\ Warmed /\ ~Folding' /\ bound /\ queue # <<>>
    BY <1>13 DEF Deliver, ledger, file, QueueIsBound, Warmed, Folding
  <2>2. CASE UNCHANGED <<bmp, warmTs>>
    BY <1>5, <1>7, <2>1, <2>2 DEF BitmapsAreCurrent
  <2>3. CASE /\ Head(queue) > warmTs
             /\ bmp' = [bmp EXCEPT ![CellOf(Head(queue))] = Head(queue)] /\ warmTs' = Head(queue)
    <3>1. Head(queue) \in Posts
      BY <1>1, <2>1 DEF TypeOK
    <3>2. \A k \in 1..Head(queue) - 1 : Pending(k) => Agrees(k)
      BY <1>1, <2>1, HeadIsNext
    <3>3. Current([bmp EXCEPT ![CellOf(Head(queue))] = Head(queue)], Head(queue), lost)
      BY <1>1, <1>3, <1>4, <2>1, <2>3, <3>1, <3>2, AppliedIsCurrent
    <3>4. Current(bmp, warmTs, lost)'
      BY <2>1, <2>3, <3>3 DEF Current, CellOf, ColorOf
    <3> QED BY <1>7, <2>1, <3>4 DEF BitmapsAreCurrent
  <2>4. Head(queue) \in Nat
    BY SMTT(40), <1>1, <1>2, <2>1 DEF TypeOK, Posts
  <2> QED BY <1>2, <1>13, <2>2, <2>3, <2>4 DEF Deliver, ApplyEvent
<1>14. CASE Crash
  <2>1. UNCHANGED disk /\ ~Folding' /\ ~Warmed'
    BY <1>14 DEF Crash, Folding, Warmed
  <2> QED BY <1>7, <2>1 DEF BitmapsAreCurrent
<1>15. CASE /\ UNCHANGED <<warm, bmp, warmTs, disk>> /\ lost \subseteq lost'
            /\ Folding' => Folding
            /\ Warmed' => Warmed
  BY <1>5, <1>6, <1>7, <1>15 DEF BitmapsAreCurrent
<1>16. ASSUME NEW r \in Requests, NEW c \in Cells, NEW col \in Colors, ConfirmPost(r, c, col)
       PROVE  BitmapsAreCurrent'
  BY <1>15, <1>16 DEF ConfirmPost, file, Folding, Warmed
<1>17. ASSUME NEW c \in Cells, NEW col \in Colors, OtherPost(c, col)
       PROVE  BitmapsAreCurrent'
  BY <1>15, <1>17 DEF OtherPost, file, Folding, Warmed
<1>18. CASE MarkFirst \/ UNCHANGED vars
  BY <1>15, <1>18 DEF MarkFirst, vars, file, Folding, Warmed
<1>19. CASE Publish \/ Rewind \/ Bind \/ Drop
  <2>1. UNCHANGED <<phase, warm, bmp, warmTs, disk>> /\ lost \subseteq lost'
    BY <1>19 DEF Publish, Rewind, Bind, Drop, file
  <2> QED BY <1>15, <2>1 DEF Folding, Warmed
<1> QED BY <1>8, <1>9, <1>10, <1>11, <1>12, <1>13, <1>14, <1>16, <1>17, <1>18, <1>19 DEF Next

(***************************************************************************)
(* The order in which posts are brought, and what the writer has to apply. *)
(***************************************************************************)
(* A settled post stays settled while the bitmap stands, whatever else is  *)
(* posted or lost.                                                         *)
LEMMA SettledKept ==
    ASSUME TypeInv, HistoryKept, BitmapsAreSound, UNCHANGED <<bmp, warmTs>>, lost \subseteq lost',
           NEW k \in Posts, Settled(k)
    PROVE  Settled(k)'
<1> SUFFICES ASSUME NEW j \in 1..k, j > warmTs, j \notin lost', CellOf(j)' = CellOf(k)'
             PROVE  Agrees(j)'
  BY DEF Settled
<1>0. TypeOK
  BY DEF TypeInv
<1>1. j \in Posts /\ j \in Nat /\ k \in Nat /\ j \notin lost
  BY DEF Posts, HistoryKept
<1>2. /\ CellOf(j)' = CellOf(j) /\ CellOf(k)' = CellOf(k) /\ ColorOf(j)' = ColorOf(j)
      /\ CellOf(j) \in Cells
  BY <1>0, <1>1, CellOfIs DEF HistoryKept
<1>3. Agrees(j)
  BY <1>1, <1>2 DEF Settled
<1>4. ColorOf(bmp[CellOf(j)])' = ColorOf(bmp[CellOf(j)])
  <2> DEFINE i == bmp[CellOf(j)]
  <2>1. i \in Nat /\ (i # 0 => i <= warmTs /\ warmTs <= Len(history)) /\ bmp'[CellOf(j)'] = i
    BY <1>0, <1>2, CanvasAssumption DEF TypeOK, Bitmaps, Times, BitmapsAreSound, Sound
  <2>2. CASE i = 0
    BY <2>1, <2>2 DEF ColorOf
  <2>3. CASE i # 0
    <3>1. i \in Posts
      BY SMTT(40), <1>0, <2>1, <2>3, CanvasAssumption DEF Posts, HistoryKept, TypeOK, Times
    <3>2. ColorOf(i)' = ColorOf(i)
      <4> SUFFICES ASSUME NEW m, m = i PROVE ColorOf(m)' = ColorOf(m)
        BY <2>1 DEF ColorOf
      <4> QED BY <3>1 DEF HistoryKept
    <3> QED BY <2>1, <3>2
  <2> QED BY <2>2, <2>3
<1>5. CASE ColorOf(j) = ColorOf(bmp[CellOf(j)])
  BY <1>2, <1>4, <1>5 DEF Agrees
<1>6. CASE \E i \in lost : i < j /\ CellOf(i) = CellOf(j)
  <2>1. PICK i \in lost : i < j /\ CellOf(i) = CellOf(j)
    BY <1>6
  <2>2. i \in lost' /\ CellOf(i)' = CellOf(i)
    BY <1>0, <2>1 DEF TypeOK, HistoryKept
  <2> QED BY <1>2, <2>1, <2>2 DEF Agrees
<1> QED BY <1>3, <1>5, <1>6 DEF Agrees

(* It stays settled, too, when ApplyEvent takes an earlier post of another *)
(* colour: on that cell the stream must have lost a post before.           *)
LEMMA SettledApplied ==
    ASSUME TypeOK, NEW i \in Posts, i > warmTs, ColorOf(bmp[CellOf(i)]) # ColorOf(i),
           bmp' = [bmp EXCEPT ![CellOf(i)] = i], warmTs' = i, UNCHANGED <<history, lost>>,
           NEW k \in Posts, k > i, Settled(k)
    PROVE  Settled(k)'
<1> SUFFICES ASSUME NEW j \in 1..k, j > i, j \notin lost, CellOf(j) = CellOf(k)
             PROVE  Agrees(j)'
  BY DEF Settled, CellOf
<1>1. /\ i \in Nat /\ k \in Nat /\ j \in Nat /\ warmTs \in Nat /\ j \in Posts
      /\ CellOf(j) \in Cells /\ i # 0
  <2>1. i \in Nat /\ k \in Nat /\ warmTs \in Nat /\ i # 0
    BY CellOfIs, CanvasAssumption DEF TypeOK, Times
  <2>2. j \in Posts
    BY CellOfIs DEF Posts
  <2> QED BY <2>1, <2>2, CellOfIs
<1>2. j > warmTs /\ Agrees(j)
  BY <1>1 DEF Settled
<1>3. CASE CellOf(j) # CellOf(i)
  <2>1. bmp'[CellOf(j)] = bmp[CellOf(j)]
    BY <1>1, <1>3 DEF TypeOK, Bitmaps
  <2> QED BY <1>2, <2>1 DEF Agrees, CellOf, ColorOf
<1>4. CASE CellOf(j) = CellOf(i)
  <2>1. \E m \in lost : m < j /\ CellOf(m) = CellOf(j)
    <3>1. CASE i \in lost
      BY <1>4, <3>1
    <3>2. CASE i \notin lost
      <4>1. Agrees(i)
        BY <1>1, <1>4, <3>2 DEF Settled
      <4>2. PICK m \in lost : m < i /\ CellOf(m) = CellOf(i)
        BY <4>1 DEF Agrees
      <4>3. m \in Nat
        BY DEF TypeOK, Posts
      <4> QED BY <1>1, <1>4, <4>2, <4>3
    <3> QED BY <3>1, <3>2
  <2> QED BY <2>1 DEF Agrees, CellOf
<1> QED BY <1>3, <1>4

(* Every step keeps the order of the stream.                               *)
LEMMA StreamStep ==
    ASSUME TypeInv, TypeInv', BitmapsAreSound, QueueIsBound, FoldIsWhole, WriterIsAlone,
           StreamIsOrdered, [Next]_vars
    PROVE  StreamIsOrdered'
<1> DEFINE Brought(k) == \E m \in 1..Len(queue) : queue[m] = k /\ k \notin seen
           QueueInOrder ==
               \A n \in 1..Len(queue) : \A k \in 1..queue[n] - 1 :
                   Pending(k) => Settled(k) \/ \E m \in 1..n - 1 : queue[m] = k /\ k \notin seen
           NextInOrder == \A k \in 1..published : Pending(k) => Settled(k) \/ Brought(k)
           SeenSettled == \A k \in seen : Pending(k) => Settled(k)
<1>0. /\ TypeOK /\ HistoryKept /\ warmTs \in Nat /\ Len(history) \in Nat
      /\ published \in 0..Len(history) /\ queue \in Seq(Posts) /\ seen \subseteq Posts
      /\ lost \subseteq Posts
  <2>1. TypeOK /\ HistoryKept
    BY HistoryIsKept DEF TypeInv
  <2>2. warmTs \in Nat
    BY <2>1, CanvasAssumption DEF TypeOK, Times
  <2> QED BY <2>1, <2>2 DEF TypeOK
<1>2. Warmed => QueueInOrder /\ NextInOrder /\ SeenSettled
  BY DEF StreamIsOrdered
<1>3. ASSUME Warmed' => QueueInOrder' /\ NextInOrder' /\ SeenSettled'
      PROVE  StreamIsOrdered'
  BY <1>3 DEF StreamIsOrdered
<1>4. ASSUME UNCHANGED <<bmp, warmTs>>, lost \subseteq lost', NEW k \in Posts, Settled(k)
      PROVE  Settled(k)'
  BY <1>0, <1>4, SettledKept
<1>5. ASSUME UNCHANGED warmTs, lost \subseteq lost', NEW k, Pending(k)'
      PROVE  Pending(k)
  BY <1>5 DEF Pending
<1>6. \A n \in 1..Len(queue) : \A k \in 1..queue[n] - 1 : k \in Posts
  BY SMTT(40), <1>0 DEF Posts
<1>7. CASE UNCHANGED <<bmp, warmTs, queue, seen, lost, published>> /\ (Warmed' => Warmed)
  BY <1>0, <1>2, <1>3, <1>4, <1>5, <1>6, <1>7 DEF Posts
<1>8. CASE ~Warmed'
  BY <1>3, <1>8
<1>9. CASE WarmEnd
  <2>1. phase = "installing" /\ UNCHANGED <<queue, seen, lost, published>> /\ warmTs' = warm.from - 1
    BY <1>9 DEF WarmEnd, stream, ledger
  <2>2. ~Warmed /\ ~bound
    BY <2>1 DEF QueueIsBound, Warmed
  <2>3. queue' = <<>> /\ seen' = {}
    BY <2>1, <2>2 DEF QueueIsBound
  <2>4. warm.from \in Nat /\ \A k \in 1..published : k < warm.from \/ k \in lost
    BY <1>0, <2>1 DEF FoldIsWhole, TypeInv, Folding
  <2>5. \A k \in 1..published : ~Pending(k)'
    BY <1>0, <2>1, <2>4 DEF Pending
  <2>6. QueueInOrder' /\ SeenSettled'
    BY <2>3
  <2>7. NextInOrder'
    BY <2>1, <2>5
  <2> HIDE DEF QueueInOrder, SeenSettled, NextInOrder
  <2> QED BY <1>3, <2>1, <2>6, <2>7
<1>10. CASE Publish /\ Warmed
  <2> DEFINE p == published + 1
  <2>1. /\ published' = p /\ p \in Posts /\ UNCHANGED <<bmp, warmTs, seen, phase, history>>
        /\ lost \subseteq lost'
    BY <1>0, <1>10 DEF Publish, Posts
  <2>2. CASE bound
    <3>1. /\ queue' = Append(queue, p) /\ Len(queue') = Len(queue) + 1 /\ lost' = lost
          /\ Len(queue) \in Nat /\ queue'[Len(queue) + 1] = p
          /\ \A n \in 1..Len(queue) : queue'[n] = queue[n]
      BY <1>0, <1>10, <2>1, <2>2 DEF Publish
    <3>2. QueueInOrder'
      <4> SUFFICES ASSUME NEW n \in 1..Len(queue) + 1, NEW k \in 1..queue'[n] - 1, Pending(k)'
                   PROVE  Settled(k)' \/ \E m \in 1..n - 1 : queue'[m] = k /\ k \notin seen'
        BY <3>1
      <4>1. Pending(k)
        BY <1>5, <2>1
      <4>2. CASE n \in 1..Len(queue)
        <5>1. k \in 1..queue[n] - 1 /\ k \in Posts
          BY <1>6, <3>1, <4>2
        <5>2. Settled(k) \/ \E m \in 1..n - 1 : queue[m] = k /\ k \notin seen
          BY <1>2, <1>10, <4>1, <4>2, <5>1
        <5> QED BY <1>4, <2>1, <3>1, <4>2, <5>1, <5>2
      <4>3. CASE n = Len(queue) + 1
        <5>1. k \in 1..published /\ k \in Posts
          BY <1>0, <3>1, <4>3 DEF Posts
        <5>2. Settled(k) \/ Brought(k)
          BY <1>2, <1>10, <4>1, <5>1
        <5> QED BY <1>4, <2>1, <3>1, <4>3, <5>1, <5>2
      <4> QED BY <3>1, <4>2, <4>3
    <3>3. NextInOrder'
      <4> SUFFICES ASSUME NEW k \in 1..p, Pending(k)'
                   PROVE  Settled(k)' \/ \E m \in 1..Len(queue) + 1 : queue'[m] = k /\ k \notin seen'
        BY <2>1, <3>1
      <4>1. Pending(k) /\ k \in Posts
        BY <1>0, <1>5, <2>1 DEF Posts
      <4>2. CASE k = p
        <5>1. CASE p \in seen
          BY <1>2, <1>4, <1>10, <2>1, <4>1, <4>2, <5>1
        <5>2. CASE p \notin seen
          BY <2>1, <3>1, <4>2, <5>2
        <5> QED BY <5>1, <5>2
      <4>3. CASE k # p
        <5>1. k \in 1..published
          BY <1>0, <4>3
        <5>2. Settled(k) \/ Brought(k)
          BY <1>2, <1>10, <4>1, <5>1
        <5> QED BY <1>4, <2>1, <3>1, <4>1, <5>2
      <4> QED BY <4>2, <4>3
    <3>4. SeenSettled'
      BY <1>0, <1>2, <1>4, <1>5, <1>10, <2>1
    <3> HIDE DEF QueueInOrder, SeenSettled, NextInOrder
    <3> QED BY <1>3, <2>1, <3>2, <3>3, <3>4
  <2>3. CASE ~bound
    <3>1. queue = <<>> /\ queue' = <<>>
      BY <1>10, <2>3 DEF QueueIsBound, Publish
    <3>2. lost' = IF p > warmTs THEN lost \cup {p} ELSE lost
      BY <1>10, <2>3 DEF Publish, Unread, Warmed
    <3>3. QueueInOrder'
      BY <3>1
    <3>4. NextInOrder'
      <4> SUFFICES ASSUME NEW k \in 1..p, Pending(k)' PROVE Settled(k)'
        BY <2>1
      <4>1. k # p /\ k \in 1..published /\ k \in Posts /\ Pending(k)
        BY <1>0, <1>5, <2>1, <3>2 DEF Pending, Posts
      <4>2. Settled(k)
        BY <1>2, <1>10, <3>1, <4>1
      <4> QED BY <1>4, <2>1, <4>1, <4>2
    <3>5. SeenSettled'
      BY <1>0, <1>2, <1>4, <1>5, <1>10, <2>1
    <3> HIDE DEF QueueInOrder, SeenSettled, NextInOrder
    <3> QED BY <1>3, <2>1, <3>3, <3>4, <3>5
  <2> QED BY <2>2, <2>3
<1>11. CASE Rewind
  <2>1. /\ UNCHANGED <<bmp, warmTs, queue, seen, lost, phase>>
        /\ published' \in 0..published
    BY <1>11 DEF Rewind, stream
  <2>2. Warmed' => Warmed
    BY <2>1 DEF Warmed
  <2> QED BY <1>0, <1>2, <1>3, <1>4, <1>5, <1>6, <2>1, <2>2 DEF Posts
<1>12. CASE Bind
  <2>1. /\ UNCHANGED <<bmp, warmTs, queue, lost, phase, published>>
        /\ Warmed /\ queue = <<>> /\ seen' = {}
    BY <1>12 DEF Bind, ledger, QueueIsBound
  <2>2. QueueInOrder' /\ SeenSettled'
    BY <2>1
  <2>3. NextInOrder'
    BY <1>0, <1>2, <1>4, <1>5, <2>1 DEF Posts
  <2> HIDE DEF QueueInOrder, SeenSettled, NextInOrder
  <2> QED BY <1>3, <2>1, <2>2, <2>3
<1>13. CASE Drop
  <2>1. /\ UNCHANGED <<bmp, warmTs, seen, phase, published>> /\ Warmed /\ queue' = <<>>
        /\ lost' = lost \cup {i \in QueueIds \ seen : i > warmTs}
    BY <1>13 DEF Drop, ledger, QueueIsBound
  <2>2. QueueInOrder'
    BY <2>1
  <2>3. NextInOrder'
    <3> SUFFICES ASSUME NEW k \in 1..published, Pending(k)' PROVE Settled(k)'
      BY <2>1
    <3>1. Pending(k) /\ k \in Posts
      BY <1>0, <1>5, <2>1 DEF Posts
    <3>2. ~Brought(k)
      BY <2>1, <3>1 DEF Pending, QueueIds
    <3>3. Settled(k)
      BY <1>2, <2>1, <3>1, <3>2
    <3> QED BY <1>4, <2>1, <3>1, <3>3
  <2>4. SeenSettled'
    BY <1>0, <1>2, <1>4, <1>5, <2>1
  <2> HIDE DEF QueueInOrder, SeenSettled, NextInOrder
  <2> QED BY <1>3, <2>1, <2>2, <2>3, <2>4
<1>14. CASE Deliver
  <2>0. PICK i \in Posts : i = Head(queue)
    BY <1>0, <1>14 DEF Deliver
  <2>1. /\ UNCHANGED <<lost, phase, published, history>> /\ Warmed /\ bound /\ queue # <<>>
        /\ queue' = Tail(queue) /\ seen' = seen \cup {i}
    BY <1>14, <2>0 DEF Deliver, ledger, QueueIsBound
  <2>2. /\ i = queue[1] /\ i \in Posts /\ Len(queue) \in Nat \ {0} /\ Len(queue') = Len(queue) - 1
        /\ \A n \in 1..Len(queue) - 1 : queue'[n] = queue[n + 1]
    BY <1>0, <2>0, <2>1
  <2>3. warmTs' >= warmTs /\ warmTs' \in Nat
    BY <1>0, <1>14, <2>0, CellOfIs DEF Deliver, ApplyEvent
  <2>4. \A k \in Nat : Pending(k)' => Pending(k)
    BY <1>0, <2>1, <2>3 DEF Pending
  \* what the step must not break, post by post
  <2>5. ASSUME \A k \in Posts : Pending(k)' /\ Settled(k) => Settled(k)',
               Pending(i)' /\ i \notin seen => Settled(i)'
        PROVE  StreamIsOrdered'
    <3>1. QueueInOrder'
      <4> SUFFICES ASSUME NEW n \in 1..Len(queue) - 1, NEW k \in 1..queue'[n] - 1, Pending(k)'
                   PROVE  Settled(k)' \/ \E m \in 1..n - 1 : queue'[m] = k /\ k \notin seen'
        BY <2>2
      <4>1. n + 1 \in 1..Len(queue) /\ k \in 1..queue[n + 1] - 1 /\ k \in Posts /\ Pending(k)
        BY <1>6, <2>2, <2>4 DEF Posts
      <4>2. CASE Settled(k)
        BY <2>5, <4>1, <4>2
      <4>3. CASE \E m \in 1..n : queue[m] = k /\ k \notin seen
        <5>1. PICK m \in 1..n : queue[m] = k /\ k \notin seen
          BY <4>3
        <5>2. CASE k = i
          BY <2>5, <5>1, <5>2
        <5>3. CASE k # i
          <6>1. m - 1 \in 1..n - 1 /\ queue'[m - 1] = k
            BY SMTT(40), <2>2, <5>1, <5>3
          <6> QED BY <2>1, <5>1, <5>3, <6>1
        <5> QED BY <5>2, <5>3
      <4> QED BY <1>2, <2>1, <4>1, <4>2, <4>3
    <3>2. NextInOrder'
      <4> SUFFICES ASSUME NEW k \in 1..published, Pending(k)'
                   PROVE  Settled(k)' \/ \E m \in 1..Len(queue) - 1 : queue'[m] = k /\ k \notin seen'
        BY <2>1, <2>2
      <4>1. k \in Posts /\ Pending(k)
        BY <1>0, <2>4 DEF Posts
      <4>2. CASE Settled(k)
        BY <2>5, <4>1, <4>2
      <4>3. CASE Brought(k)
        <5>1. PICK m \in 1..Len(queue) : queue[m] = k /\ k \notin seen
          BY <4>3
        <5>2. CASE k = i
          BY <2>5, <5>1, <5>2
        <5>3. CASE k # i
          <6>1. m - 1 \in 1..Len(queue) - 1 /\ queue'[m - 1] = k
            BY <2>2, <5>1, <5>3
          <6> QED BY <2>1, <5>1, <5>3, <6>1
        <5> QED BY <5>2, <5>3
      <4> QED BY <1>2, <2>1, <4>1, <4>2, <4>3
    <3>3. SeenSettled'
      <4> SUFFICES ASSUME NEW k \in seen \cup {i}, Pending(k)' PROVE Settled(k)'
        BY <2>1
      <4>1. k \in seen => k \in Posts /\ Settled(k)
        BY <1>0, <1>2, <2>1, <2>4 DEF Posts
      <4> QED BY <2>5, <4>1
    <3> HIDE DEF QueueInOrder, SeenSettled, NextInOrder
    <3> QED BY <1>3, <2>1, <3>1, <3>2, <3>3
  <2>6. CASE UNCHANGED <<bmp, warmTs>> /\ (i \in seen \/ i <= warmTs)
    <3>1. ~(Pending(i)' /\ i \notin seen)
      BY <1>0, <2>2, <2>6, CellOfIs DEF Pending
    <3> QED BY <1>4, <2>1, <2>5, <2>6, <3>1
  <2>7. CASE UNCHANGED <<bmp, warmTs>> /\ i > warmTs /\ ColorOf(bmp[CellOf(i)]) = ColorOf(i)
    <3>1. Settled(i)
      <4> SUFFICES ASSUME NEW j \in 1..i, j > warmTs, j \notin lost, CellOf(j) = CellOf(i)
                   PROVE  Agrees(j)
        BY DEF Settled
      <4>1. CASE j = i
        BY <2>7, <4>1 DEF Agrees
      <4>2. CASE j # i
        <5>1. j \in 1..i - 1 /\ Pending(j)
          BY <1>0, <2>2, <4>2, CellOfIs DEF Pending
        <5> QED BY <1>0, <2>0, <2>1, <5>1, HeadIsNext
      <4> QED BY <4>1, <4>2
    <3> QED BY <1>4, <2>1, <2>2, <2>5, <2>7, <3>1
  <2>8. CASE /\ i > warmTs /\ ColorOf(bmp[CellOf(i)]) # ColorOf(i)
             /\ bmp' = [bmp EXCEPT ![CellOf(i)] = i] /\ warmTs' = i
    <3>1. ~Pending(i)'
      BY <1>0, <2>2, <2>8, CellOfIs DEF Pending
    <3>2. ASSUME NEW k \in Posts, Pending(k)', Settled(k) PROVE Settled(k)'
      <4>1. k > i
        BY <2>8, <3>2 DEF Pending
      <4> QED BY <1>0, <2>1, <2>2, <2>8, <3>2, <4>1, SettledApplied
    <3> QED BY <2>5, <3>1, <3>2
  <2>9. i \in Nat
    BY <1>0, <2>2, CellOfIs
  <2> QED BY <1>0, <1>14, <2>0, <2>6, <2>7, <2>8, <2>9 DEF Deliver, ApplyEvent
<1>15. CASE WarmBegin \/ WarmPage
  BY <1>8, <1>15 DEF WarmBegin, WarmPage, Warmed
<1>16. CASE Crash
  BY <1>16 DEF Crash, StreamIsOrdered, Warmed
<1>17. CASE SaveFirst \/ MarkFirst \/ SaveTick \/ UNCHANGED vars
  BY <1>7, <1>17 DEF SaveFirst, MarkFirst, SaveTick, vars, ledger, stream, Warmed
<1>18. ASSUME NEW r \in Requests, NEW c \in Cells, NEW col \in Colors, ConfirmPost(r, c, col)
       PROVE  StreamIsOrdered'
  BY <1>7, <1>18 DEF ConfirmPost, Post, stream, Warmed
<1>19. ASSUME NEW r \in Requests, ConfirmApply(r)
       PROVE  StreamIsOrdered'
  <2>1. warmTs' \in Nat /\ warmTs' >= Len(history)
    <3>1. applying[r] = Len(history)
      BY <1>19, ApplyingIsLast DEF ConfirmApply
    <3> QED BY <1>0, <1>19, <3>1 DEF ConfirmApply, Larger
  <2>2. UNCHANGED <<queue, seen, published, history>>
    BY <1>19 DEF ConfirmApply, ledger, stream
  <2>3. \A k \in Posts : ~Pending(k)'
    BY <1>0, <2>1 DEF Pending, Posts
  <2>4. QueueInOrder' /\ SeenSettled'
    BY <1>0, <1>6, <2>2, <2>3
  <2>5. NextInOrder'
    BY <1>0, <2>2, <2>3 DEF Posts
  <2> HIDE DEF QueueInOrder, SeenSettled, NextInOrder
  <2> QED BY <1>3, <2>4, <2>5
<1>20. ASSUME NEW c \in Cells, NEW col \in Colors, OtherPost(c, col)
       PROVE  StreamIsOrdered'
  BY <1>7, <1>20 DEF OtherPost, Post, stream, Warmed
<1>21. CASE Publish /\ ~Warmed
  BY <1>8, <1>21 DEF Publish, Warmed
<1> HIDE DEF QueueInOrder, SeenSettled, NextInOrder
<1> QED BY <1>9, <1>10, <1>11, <1>12, <1>13, <1>14, <1>15, <1>16, <1>17, <1>18, <1>19,
           <1>20, <1>21 DEF Next

(* Every step keeps what the lone writer has to apply.                     *)
LEMMA WriterStep ==
    ASSUME NeverBoth, NoOverlap, TypeInv, TypeInv', BitmapsAreSound, QueueIsBound, FoldIsWhole,
           WriterIsAlone, StreamIsOrdered, StreamIsOrdered', [Next]_vars
    PROVE  WriterIsAlone'
<1> DEFINE Accounted(k) ==
               Pending(k) => k \in failed \/ Settled(k) \/ \E r \in Requests : applying[r] = k
           OnlyLast ==
               \A r \in Requests :
                   applying[r] # 0 => role = "writer" /\ applying[r] = Len(history) /\ phase = "up"
<1>0. /\ TypeOK /\ HistoryKept /\ Len(history) \in Nat /\ warmTs \in Nat
      /\ applying \in [Requests -> Nat] /\ lost \subseteq Posts /\ failed \subseteq Posts
      /\ role \in {"writer", "follower"}
  <2>1. TypeOK /\ HistoryKept
    BY HistoryIsKept DEF TypeInv
  <2>2. warmTs \in Nat /\ applying \in [Requests -> Nat]
    BY <2>1, CanvasAssumption DEF TypeOK, Times
  <2> QED BY <2>1, <2>2 DEF TypeOK, NeverBoth
<1>1. OnlyLast /\ (role = "writer" /\ Warmed => \A k \in Posts : Accounted(k))
  BY DEF WriterIsAlone
<1>2. ASSUME OnlyLast', role' = "writer" /\ Warmed' => \A k \in Posts' : Accounted(k)'
      PROVE  WriterIsAlone'
  BY <1>2 DEF WriterIsAlone
<1>3. ASSUME UNCHANGED <<bmp, warmTs>>, lost \subseteq lost', NEW k \in Posts, Settled(k)
      PROVE  Settled(k)'
  BY <1>0, <1>3, SettledKept
<1>4. ASSUME UNCHANGED warmTs, lost \subseteq lost', NEW k, Pending(k)'
      PROVE  Pending(k)
  BY <1>4 DEF Pending
<1>5. CASE /\ UNCHANGED <<role, history, bmp, warmTs, applying, failed>> /\ lost \subseteq lost'
           /\ phase = "up" => phase' = "up"
           /\ Warmed' => Warmed
  <2>1. OnlyLast'
    BY <1>1, <1>5
  <2>2. ASSUME role' = "writer", Warmed', NEW k \in Posts' PROVE Accounted(k)'
    BY <1>1, <1>3, <1>4, <1>5, <2>2 DEF Posts
  <2> HIDE DEF Accounted, OnlyLast
  <2> QED BY <1>2, <2>1, <2>2
<1>6. CASE SaveFirst \/ MarkFirst \/ SaveTick \/ Publish \/ Rewind \/ Bind \/ Drop \/ UNCHANGED vars
  <2>1. UNCHANGED <<role, history, bmp, warmTs, applying, failed>> /\ lost \subseteq lost'
    BY <1>6 DEF SaveFirst, MarkFirst, SaveTick, Publish, Rewind, Bind, Drop, vars, ledger
  <2>2. (phase = "up" => phase' = "up") /\ (Warmed' => Warmed)
    BY <1>6 DEF SaveFirst, MarkFirst, SaveTick, Publish, Rewind, Bind, Drop, vars, Warmed
  <2> QED BY <1>5, <2>1, <2>2
<1>7. CASE WarmBegin \/ WarmPage
  <2>1. UNCHANGED <<role, history, applying>> /\ ~Warmed' /\ phase # "up"
    BY <1>7 DEF WarmBegin, WarmPage, Warmed, ledger
  <2> QED BY <1>1, <2>1 DEF WriterIsAlone
<1>8. CASE WarmEnd
  <2>1. phase = "installing" /\ warmTs' = warm.from - 1 /\ UNCHANGED <<role, history, applying>>
    BY <1>8 DEF WarmEnd, ledger
  <2>2. role = "writer" => warmTs' = Len(history)
    BY <1>0, <2>1 DEF FoldIsWhole
  <2>3. role = "writer" => \A k \in Posts' : ~Pending(k)'
    BY <1>0, <2>1, <2>2 DEF Pending, Posts
  <2> QED BY <1>1, <2>1, <2>3 DEF WriterIsAlone
<1>9. ASSUME NEW r \in Requests, NEW c \in Cells, NEW col \in Colors, ConfirmPost(r, c, col)
      PROVE  WriterIsAlone'
  <2>1. /\ phase = "up" /\ UNCHANGED <<role, phase, bmp, warmTs, lost>> /\ applying[r] = 0
        /\ role = "writer" /\ Len(history') = Len(history) + 1
    BY <1>0, <1>9, PostKeeps DEF ConfirmPost, Post
  <2>2. \A s \in Requests : s = r
    BY DEF NoOverlap
  <2>3. ASSUME NEW k \in Posts, Pending(k)' PROVE k \in failed \/ Settled(k)'
    <3>1. Pending(k) /\ k # 0
      BY <1>0, <1>4, <2>1, <2>3, CellOfIs
    <3>2. k \in failed \/ Settled(k)
      BY <1>1, <2>1, <2>2, <3>1 DEF Warmed
    <3> QED BY <1>3, <2>1, <3>2
  <2>4. CASE applying' = [applying EXCEPT ![r] = Len(history) + 1] /\ UNCHANGED failed
    <3>1. applying'[r] = Len(history)'
      BY <1>0, <2>1, <2>4
    <3>2. OnlyLast'
      BY <2>1, <2>2, <3>1
    <3>3. ASSUME NEW k \in Posts' PROVE Accounted(k)'
      <4>1. k \in Posts \/ k = Len(history')
        BY <1>0, <2>1 DEF Posts
      <4> QED BY <2>3, <2>4, <3>1, <4>1
    <3> HIDE DEF Accounted, OnlyLast
    <3> QED BY <1>2, <3>2, <3>3
  <2>5. CASE failed' = failed \cup {Len(history) + 1} /\ UNCHANGED applying
    <3>1. OnlyLast'
      BY <2>1, <2>2, <2>5
    <3>2. ASSUME NEW k \in Posts' PROVE Accounted(k)'
      <4>1. k \in Posts \/ k = Len(history) + 1
        BY <1>0, <2>1 DEF Posts
      <4> QED BY <2>3, <2>5, <4>1
    <3> HIDE DEF Accounted, OnlyLast
    <3> QED BY <1>2, <3>1, <3>2
  <2> QED BY <1>9, <2>4, <2>5 DEF ConfirmPost
<1>10. ASSUME NEW r \in Requests, ConfirmApply(r)
       PROVE  WriterIsAlone'
  <2>1. applying[r] = Len(history) /\ \A s \in Requests : s = r
    BY <1>1, <1>10 DEF ConfirmApply, NoOverlap
  <2>2. warmTs' \in Nat /\ warmTs' >= Len(history)
    BY <1>0, <1>10, <2>1 DEF ConfirmApply, Larger
  <2>3. UNCHANGED history /\ applying'[r] = 0
    BY <1>0, <1>10 DEF ConfirmApply, ledger
  <2>4. \A k \in Posts' : ~Pending(k)'
    BY <1>0, <2>2, <2>3 DEF Pending, Posts
  <2> QED BY <2>1, <2>3, <2>4 DEF WriterIsAlone
<1>11. ASSUME NEW c \in Cells, NEW col \in Colors, OtherPost(c, col)
       PROVE  WriterIsAlone'
  <2>1. role = "follower" /\ UNCHANGED <<role, applying>>
    BY <1>0, <1>11 DEF OtherPost, Post
  <2> QED BY <1>1, <2>1 DEF WriterIsAlone
<1>12. CASE Deliver
  <2>1. /\ UNCHANGED <<role, history, phase, applying, lost>> /\ Warmed /\ bound /\ queue # <<>>
        /\ seen' = seen \cup {Head(queue)} /\ failed' = failed \ {Head(queue)}
        /\ Head(queue) \in Posts
    BY <1>0, <1>12 DEF Deliver, ledger, QueueIsBound, TypeOK
  <2>2. \A k \in seen' : Pending(k)' => Settled(k)'
    BY <2>1 DEF StreamIsOrdered, Warmed
  <2>3. ASSUME NEW k \in Posts, Pending(k)' PROVE Pending(k) /\ (Settled(k) => Settled(k)')
    <3>1. Head(queue) \in Nat /\ k \in Nat
      BY <1>0, <2>1, CellOfIs
    <3>2. CASE UNCHANGED <<bmp, warmTs>>
      BY <1>3, <1>4, <2>1, <2>3, <3>2
    <3>3. CASE /\ Head(queue) > warmTs /\ ColorOf(bmp[CellOf(Head(queue))]) # ColorOf(Head(queue))
               /\ bmp' = [bmp EXCEPT ![CellOf(Head(queue))] = Head(queue)] /\ warmTs' = Head(queue)
      <4>1. k > Head(queue) /\ Pending(k)
        BY <1>0, <2>1, <2>3, <3>1, <3>3 DEF Pending
      <4>2. ASSUME NEW i, i = Head(queue), Settled(k) PROVE Settled(k)'
        BY <1>0, <2>1, <3>3, <4>1, <4>2, SettledApplied
      <4> QED BY <4>1, <4>2
    <3> QED BY <1>0, <1>12, <3>1, <3>2, <3>3 DEF Deliver, ApplyEvent
  <2>4. OnlyLast'
    BY <1>1, <2>1
  <2>5. ASSUME role' = "writer", NEW k \in Posts' PROVE Accounted(k)'
    <3>1. k \in Posts /\ role = "writer"
      BY <2>1, <2>5 DEF Posts
    <3> QED BY <1>1, <2>1, <2>2, <2>3, <3>1
  <2> HIDE DEF Accounted, OnlyLast
  <2> QED BY <1>2, <2>4, <2>5
<1>13. CASE Crash
  BY <1>13 DEF Crash, WriterIsAlone, Warmed, ledger
<1> QED BY <1>6, <1>7, <1>8, <1>9, <1>10, <1>11, <1>12, <1>13 DEF Next

(***************************************************************************)
(* What the invariant says of the canvas.                                  *)
(***************************************************************************)
(* LastOn is the newest post on the cell up to the time, or 0.             *)
LEMMA LastOnIs ==
    ASSUME TypeOK, NEW c \in Cells, NEW upTo \in Nat, upTo <= Len(history)
    PROVE  \/ LastOn(c, upTo) = 0 /\ \A i \in 1..upTo : CellOf(i) # c
           \/ /\ LastOn(c, upTo) \in 1..upTo /\ CellOf(LastOn(c, upTo)) = c
              /\ \A i \in 1..upTo : CellOf(i) = c => i <= LastOn(c, upTo)
<1> DEFINE on == {i \in 1..upTo : i <= Len(history) /\ CellOf(i) = c}
<1>0. Len(history) \in Nat
  BY DEF TypeOK
<1>1. CASE on = {}
  <2>1. LastOn(c, upTo) = 0
    BY <1>1 DEF LastOn, Newest
  <2> QED BY <1>0, <1>1, <2>1
<1>2. CASE on # {}
  <2>1. on \subseteq 0..upTo
    OBVIOUS
  <2>2. Newest(on) \in on /\ \A j \in on : j <= Newest(on)
    <3> HIDE DEF on
    <3> QED BY <1>2, <2>1, NewestIsGreatest
  <2>3. LastOn(c, upTo) = Newest(on)
    BY DEF LastOn
  <2>4. \A i \in 1..upTo : CellOf(i) = c => i \in on
    BY <1>0
  <2> HIDE DEF LastOn
  <2> QED BY <2>2, <2>3, <2>4
<1> QED BY <1>1, <1>2

(* A sound and current bitmap shows on every cell the newest post up to    *)
(* its mark, unless the stream lost one there.                             *)
LEMMA CurrentShows ==
    ASSUME TypeOK, NEW b \in Bitmaps, NEW wm \in Nat, NEW gone, Sound(b, wm), Current(b, wm, gone),
           NEW c \in Cells, ~ \E i \in gone : i <= wm /\ CellOf(i) = c
    PROVE  ColorOf(b[c]) = ColorOf(LastOn(c, wm))
<1>1. /\ b[c] \in Nat /\ b[c] <= wm /\ (b[c] # 0 => CellOf(b[c]) = c)
      /\ wm <= Len(history)
  BY CanvasAssumption DEF Bitmaps, Times, Sound
<1>2. \A k \in 1..wm : CellOf(k) = c /\ k > b[c] => ColorOf(k) = ColorOf(b[c])
  BY DEF Current
<1>3. b[c] # 0 => b[c] \in 1..wm
  BY <1>1
<1>4. CASE LastOn(c, wm) = 0 /\ \A i \in 1..wm : CellOf(i) # c
  BY <1>1, <1>3, <1>4
<1>5. CASE /\ LastOn(c, wm) \in 1..wm /\ CellOf(LastOn(c, wm)) = c
           /\ \A i \in 1..wm : CellOf(i) = c => i <= LastOn(c, wm)
  <2>1. LastOn(c, wm) >= b[c]
    BY <1>1, <1>3, <1>5
  <2> QED BY <1>1, <1>2, <1>5, <2>1
<1> QED BY <1>1, <1>4, <1>5, LastOnIs

(* The invariant at the start.                                             *)
LEMMA InvInit == Init => Inv
<1> SUFFICES ASSUME Init PROVE Inv
  OBVIOUS
<1>1. TypeInv
  BY TypeInit
<1>2. BitmapsAreSound
  BY DEF Init, BitmapsAreSound, Sound, Blank, Folding
<1>3. BitmapsAreCurrent /\ QueueIsBound /\ FoldIsWhole
  BY DEF Init, BitmapsAreCurrent, QueueIsBound, FoldIsWhole, Warmed, Folding
<1>4. WriterIsAlone /\ StreamIsOrdered
  BY DEF Init, WriterIsAlone, StreamIsOrdered, Warmed
<1> QED BY <1>1, <1>2, <1>3, <1>4 DEF Inv

(* Every step keeps the invariant.                                         *)
LEMMA InvStep ==
    ASSUME NeverBoth, NoOverlap, Inv, [Next]_vars
    PROVE  Inv'
<1> USE DEF Inv
<1>1. TypeInv'
  BY TypeStep
<1>2. BitmapsAreSound'
  BY <1>1, SoundStep
<1>3. BitmapsAreCurrent'
  BY CurrentStep
<1>4. QueueIsBound' /\ FoldIsWhole'
  BY BoundStep, FoldStep
<1>5. StreamIsOrdered'
  BY <1>1, StreamStep
<1>6. WriterIsAlone'
  BY <1>1, <1>5, WriterStep
<1> QED BY <1>1, <1>2, <1>3, <1>4, <1>5, <1>6

(* The invariant holds of a server that alone paints, one request at a     *)
(* time, and of one that only follows.                                     *)
THEOREM Invariance ==
    ASSUME NeverBoth, NoOverlap
    PROVE  Spec => []Inv
<1>1. Inv /\ [Next]_vars => Inv'
  BY NeverBoth, NoOverlap, InvStep
<1> QED BY <1>1, InvInit, PTL DEF Spec

(* The bitmap is what its watermark says, and once the stream is drained   *)
(* it is the ledger's canvas, on every cell where nothing was lost, by the *)
(* stream or as a failed confirm that the watermark of a later one passed: *)
(* through crashes, failed saves, dropped connections and events published *)
(* again.                                                                  *)
THEOREM BitmapTrue ==
    ASSUME NeverBoth, NoOverlap
    PROVE  Spec => []BitmapIsTrue
<1>1. ASSUME Inv PROVE WatermarkMeans
  <2> SUFFICES ASSUME Warmed, NEW c \in Cells, ~ \E i \in lost : i <= warmTs /\ CellOf(i) = c
               PROVE  ColorOf(bmp[c]) = ColorOf(LastOn(c, warmTs))
    BY DEF WatermarkMeans
  <2>1. TypeOK /\ bmp \in Bitmaps /\ warmTs \in Nat /\ Sound(bmp, warmTs) /\ Current(bmp, warmTs, lost)
    BY <1>1, CanvasAssumption DEF Inv, TypeInv, TypeOK, Times, BitmapsAreSound, BitmapsAreCurrent
  <2> QED BY <2>1, CurrentShows
<1>2. ASSUME Inv PROVE StaleOnlyWhereMissed
  <2> SUFFICES ASSUME Warmed, Drained, NEW c \in Cells, ~MissedOn(c)
               PROVE  ColorOf(bmp[c]) = ColorOf(LastOn(c, Len(history)))
    BY DEF StaleOnlyWhereMissed
  <2>1. /\ TypeOK /\ bmp \in Bitmaps /\ warmTs \in Nat /\ warmTs <= Len(history) /\ Len(history) \in Nat
        /\ Sound(bmp, warmTs) /\ Current(bmp, warmTs, lost)
    BY <1>2, CanvasAssumption
       DEF Inv, TypeInv, TypeOK, Times, BitmapsAreSound, BitmapsAreCurrent, Sound
  <2>2. \A k \in Posts : k > warmTs /\ CellOf(k) = c => ColorOf(k) = ColorOf(bmp[c])
    <3> SUFFICES ASSUME NEW k \in Posts, k > warmTs, CellOf(k) = c
                 PROVE  ColorOf(k) = ColorOf(bmp[c])
      OBVIOUS
    <3>1. k \in 1..published /\ k \in 1..k /\ Len(queue) = 0
      BY <2>1, CellOfIs DEF Drained, Posts
    <3>2. Pending(k)
      BY DEF Pending, MissedOn
    <3>3. Settled(k)
      BY <1>2, <3>1, <3>2 DEF Inv, StreamIsOrdered
    <3>4. Agrees(k)
      BY <3>1, <3>2, <3>3 DEF Settled, Pending
    <3> QED BY <3>4 DEF Agrees, MissedOn
  <2>3. /\ bmp[c] \in Nat /\ bmp[c] <= warmTs /\ (bmp[c] # 0 => CellOf(bmp[c]) = c)
    BY <2>1, CanvasAssumption DEF Bitmaps, Times, Sound
  <2>4. \A k \in 1..warmTs : CellOf(k) = c /\ k > bmp[c] => ColorOf(k) = ColorOf(bmp[c])
    BY <2>1 DEF Current, MissedOn
  <2> DEFINE last == LastOn(c, Len(history))
  <2>5. CASE last = 0 /\ \A i \in 1..Len(history) : CellOf(i) # c
    <3>1. bmp[c] = 0
      BY <2>1, <2>3, <2>5
    <3> QED BY <2>5, <3>1
  <2>6. CASE /\ last \in 1..Len(history) /\ CellOf(last) = c
             /\ \A i \in 1..Len(history) : CellOf(i) = c => i <= last
    <3>1. bmp[c] <= last
      BY <2>1, <2>3, <2>6
    <3> QED BY <2>1, <2>2, <2>3, <2>4, <2>6, <3>1 DEF Posts
  <2> QED BY <2>1, <2>5, <2>6, LastOnIs
<1>3. Inv => BitmapIsTrue
  BY <1>1, <1>2 DEF BitmapIsTrue
<1> QED BY NeverBoth, NoOverlap, Invariance, <1>3, PTL

(* While a server lives, no cell goes back to an older post.               *)
THEOREM NeverBack ==
    ASSUME NeverBoth, NoOverlap
    PROVE  Spec => NoRegression
<1>1. ASSUME Inv, [Next]_vars, phase = phase', Warmed, NEW c \in Cells
      PROVE  bmp'[c] >= bmp[c]
  <2>1. /\ TypeOK /\ bmp \in Bitmaps /\ warmTs \in Nat /\ bmp[c] \in Nat /\ bmp[c] <= warmTs
        /\ warmTs <= Len(history) /\ Len(history) \in Nat
    BY SMTT(40), <1>1, CanvasAssumption
       DEF Inv, TypeInv, TypeOK, Bitmaps, Times, BitmapsAreSound, Sound
  <2>2. CASE UNCHANGED bmp
    BY <2>1, <2>2
  <2>3. ASSUME NEW r \in Requests, ConfirmApply(r) PROVE bmp'[c] >= bmp[c]
    <3>1. applying[r] = Len(history)
      BY <1>1, <2>3, ApplyingIsLast DEF Inv, ConfirmApply
    <3> QED BY <2>1, <2>3, <3>1 DEF ConfirmApply, Bitmaps
  <2>4. CASE Deliver
    <3>1. Head(queue) \in Nat
      BY <2>1, <2>4, CellOfIs DEF Deliver, TypeOK
    <3> QED BY <2>1, <2>2, <2>4, <3>1 DEF Deliver, ApplyEvent, Bitmaps
  <2> QED BY <1>1, <2>2, <2>3, <2>4
          DEF Next, vars, Warmed, WarmBegin, WarmPage, WarmEnd, SaveFirst, MarkFirst, SaveTick,
              ConfirmPost, OtherPost, Publish, Rewind, Bind, Drop, Crash
<1>2. Inv /\ [Next]_vars => [phase = phase' /\ Warmed => \A c \in Cells : bmp'[c] >= bmp[c]]_vars
  BY <1>1
<1> QED BY NeverBoth, NoOverlap, Invariance, <1>2, PTL DEF Spec, NoRegression

(* The fold of a boot ends with the ledger's canvas, on every cell where   *)
(* nothing was lost when the snapshot was saved: a failed confirm above    *)
(* its watermark is restored, one below it is not.                         *)
THEOREM BootTrue ==
    ASSUME NeverBoth, NoOverlap
    PROVE  Spec => BootRestores
<1>1. ASSUME Inv, Inv', [Next]_vars, phase = "warming", phase' = "installing",
             NEW c \in Cells, ~MissedOn(c)
      PROVE  ColorOf(warm'.bmp[c]) = ColorOf(LastOn(c, Len(history)))
  <2>1. WarmPage
    BY <1>1 DEF Next, vars, WarmBegin, WarmEnd, SaveFirst, MarkFirst, SaveTick,
         ConfirmPost, ConfirmApply, OtherPost, Publish, Rewind, Bind, Drop, Deliver, Crash
  <2>2. /\ TypeOK /\ Len(history) \in Nat /\ warm.from \in Nat \ {0} /\ warm.from - 1 <= Len(history)
        /\ ShortPage /\ UNCHANGED <<history, lost>> /\ warm'.from = NextPage
    BY SMTT(40), <1>1, <2>1 DEF Inv, TypeInv, TypeOK, BitmapsAreSound, Sound, Folding, WarmPage, ledger
  <2>3. warm'.from - 1 = Len(history)
    BY <2>2, PageIs
  <2>4. Sound(warm.bmp, warm.from - 1)' /\ Current(warm.bmp, warm.from - 1, lost)' /\ warm'.bmp \in Bitmaps
    BY <1>1 DEF Inv, BitmapsAreSound, BitmapsAreCurrent, Folding, TypeInv, TypeOK
  <2>5. ASSUME NEW b, b = warm'.bmp PROVE ColorOf(b[c]) = ColorOf(LastOn(c, Len(history)))
    <3>1. Sound(b, Len(history)) /\ Current(b, Len(history), lost)
      BY <2>2, <2>3, <2>4, <2>5 DEF Sound, Current, CellOf, ColorOf
    <3> QED BY <1>1, <2>2, <2>4, <2>5, <3>1, CurrentShows DEF MissedOn
  <2> QED BY <2>5
<1>2. Inv /\ Inv' /\ [Next]_vars =>
        [phase = "warming" /\ phase' = "installing" =>
            \A c \in Cells :
                MissedOn(c) \/ ColorOf(warm'.bmp[c]) = ColorOf(LastOn(c, Len(history)))]_vars
  BY <1>1
<1> QED BY NeverBoth, NoOverlap, Invariance, <1>2, PTL DEF Spec, BootRestores

====
