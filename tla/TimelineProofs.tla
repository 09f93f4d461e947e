---- MODULE TimelineProofs ----
(***************************************************************************)
(* Proofs about the server's history: the grid of checkpoints and the      *)
(* frames rendered from it (History), for every number of cells, length of *)
(* the ledger, interval and cap; the anchor sidecar file (Sidecar), for    *)
(* every number of bitmaps, length of a bitmap and number of evictions,    *)
(* boots and faults; and the two together (Timeline).                      *)
(***************************************************************************)
EXTENDS Timeline, FiniteSetTheorems, SequenceTheorems, WellFoundedInduction, NaturalsInduction, TLAPS

LEMMA Bounds ==
  /\ Minute \in Nat /\ Minute > 0 /\ AnchorMax \in Nat /\ AnchorMax > 0 /\ PoolMax \in Nat /\ PoolMax > 0
  /\ FoldMax \in Nat /\ FoldMax > 0 /\ MaxTime \in Nat /\ MaxTime > 0
  /\ MaxPosts \in Nat /\ MaxRestarts \in Nat /\ Minute <= MaxTime
  BY HistoryAssumption

(* Induction over the steps of a loop, for a set of numbers.               *)
LEMMA Induction ==
  ASSUME NEW N \in Nat, NEW T, 0 \in T, \A n \in 1..N : n - 1 \in T => n \in T
  PROVE  \A n \in 0..N : n \in T
<1> DEFINE Before == OpToRel(<, Nat)
           Rest == {n \in 0..N : n \notin T}
<1>1. SUFFICES ASSUME Rest # {} PROVE FALSE
  OBVIOUS
<1>2. IsWellFoundedOn(Before, Nat)
  BY NatLessThanWellFounded DEF OpToRel
<1>3. Rest \subseteq Nat
  OBVIOUS
<1>4. PICK x \in Rest : \A y \in Rest : ~(<<y, x>> \in Before)
  <2> HIDE DEF Rest, Before
  <2> QED
    BY <1>1, <1>2, <1>3, WFMin, Zenon
<1>5. \A y \in Rest : ~(y < x)
  BY <1>3, <1>4 DEF OpToRel
<1>6. x \in 1..N
  <2>1. x \in 0..N /\ x \notin T
    OBVIOUS
  <2>2. x # 0
    BY <2>1
  <2> QED
    BY <2>1, <2>2
<1>7. x - 1 \in T
  BY <1>5, <1>6
<1> QED
  BY <1>4, <1>6, <1>7

(* A set of numbers up to N has a greatest one.                            *)
LEMMA Greatest ==
  ASSUME NEW N \in Nat, NEW T \in SUBSET (0..N), T # {}
  PROVE  \E x \in T : \A y \in T : y <= x
<1> DEFINE Right == {n \in 0..N : (\E x \in T : x <= n) => \E x \in T : x <= n /\ \A y \in T : y <= n => y <= x}
<1>1. 0 \in Right
  OBVIOUS
<1>2. ASSUME NEW n \in 1..N, n - 1 \in Right PROVE n \in Right
  <2>1. CASE n \in T
    BY <1>2, <2>1
  <2>2. CASE n \notin T
    <3>1. \A y \in T : y <= n <=> y <= n - 1
      BY <2>2
    <3> QED
      BY <1>2, <3>1
  <2> QED
    BY <2>1, <2>2
<1>3. N \in Right
  <2> HIDE DEF Right
  <2> QED
    BY <1>1, <1>2, Induction
<1>4. \A y \in T : y <= N
  OBVIOUS
<1>5. (\E x \in T : x <= N) => \E x \in T : x <= N /\ \A y \in T : y <= N => y <= x
  BY <1>3
<1> QED
  BY <1>4, <1>5

(* A loop over 1..N that goes from one member of S to another.             *)
IsLoop(f, S, a, N, G) == f \in [0..N -> S] /\ f[0] = a /\ \A n \in 1..N : f[n] = G[<<f[n - 1], n>>]

LEMMA Recursion ==
  ASSUME NEW S, NEW a \in S, NEW N \in Nat, NEW G \in [S \X (1..N) -> S]
  PROVE  \E f : IsLoop(f, S, a, N, G)
<1> DEFINE Upto(f, k) == f \in [0..k -> S] /\ f[0] = a /\ \A n \in 1..k : f[n] = G[<<f[n - 1], n>>]
           T == {k \in 0..N : \E f : Upto(f, k)}
<1>1. 0 \in T
  <2> DEFINE h == [n \in 0..0 |-> a]
  <2>1. Upto(h, 0)
    OBVIOUS
  <2> HIDE DEF Upto
  <2> QED
    BY <2>1
<1>2. ASSUME NEW k \in 1..N, k - 1 \in T PROVE k \in T
  <2>1. \E f : Upto(f, k - 1)
    BY <1>2
  <2>2. PICK f : Upto(f, k - 1)
    BY <2>1
  <2>3. /\ f \in [0..(k - 1) -> S] /\ f[0] = a
        /\ \A n \in 1..(k - 1) : f[n] = G[<<f[n - 1], n>>]
    BY <2>2
  <2> DEFINE h == [n \in 0..k |-> IF n = k THEN G[<<f[k - 1], k>>] ELSE f[n]]
  <2>4. f[k - 1] \in S
    <3>1. k - 1 \in 0..(k - 1)
      OBVIOUS
    <3> QED
      BY <2>3, <3>1
  <2>5. G[<<f[k - 1], k>>] \in S
    BY <2>4
  <2>6. \A n \in 0..k : n # k => n \in 0..(k - 1)
    OBVIOUS
  <2>7. h \in [0..k -> S]
    BY <2>3, <2>5, <2>6
  <2>8. h[0] = a
    <3>1. 0 \in 0..k /\ 0 # k
      OBVIOUS
    <3>2. h[0] = f[0]
      BY <3>1
    <3> QED
      BY <2>3, <3>2
  <2>9. ASSUME NEW n \in 1..k PROVE h[n] = G[<<h[n - 1], n>>]
    <3>1. n \in 0..k /\ n - 1 \in 0..k /\ n - 1 # k
      OBVIOUS
    <3>2. h[n - 1] = f[n - 1]
      BY <3>1
    <3>3. CASE n = k
      BY <3>1, <3>2, <3>3
    <3>4. CASE n # k
      <4>1. n \in 1..(k - 1) /\ h[n] = f[n]
        BY <3>1, <3>4
      <4> QED
        BY <2>3, <3>2, <4>1
    <3> QED
      BY <3>3, <3>4
  <2> HIDE DEF h
  <2>10. Upto(h, k)
    BY <2>7, <2>8, <2>9
  <2> HIDE DEF Upto
  <2> QED
    BY <2>10
<1> HIDE DEF Upto
<1>3. N \in T
  <2> HIDE DEF T
  <2> QED
    BY <1>1, <1>2, Induction
<1>4. PICK f : Upto(f, N)
  BY <1>3
<1> QED
  BY <1>4 DEF Upto, IsLoop

(***************************************************************************)
(* The grid.                                                               *)
(***************************************************************************)
Anchors == [t : Nat, bmp : Bitmaps]
Grids == [list : Seq(Anchors), pool : SUBSET Bitmaps, next : Nat, evicted : SUBSET Anchors]
AnchorsOf(g) == {g.list[i] : i \in 1..Len(g.list)} \cup g.evicted

(* The entries of a list are a minute apart, and older than each other.    *)
Spaced(list) ==
    /\ \A i \in 1..(Len(list) - 1) : list[i + 1].t = list[i].t + Minute
    /\ \A i, k \in 1..Len(list) : i < k => list[i].t < list[k].t

(* A grid that is whole, when "next" is the boundary it comes to next.     *)
Whole(g, next) ==
    /\ g \in Grids
    /\ Spaced(g.list)
    /\ g.list # <<>> => next = g.list[Len(g.list)].t + Minute
    /\ g.list = <<>> => g.evicted = {}
    /\ g.pool = ToSetOfBitmaps(g.list)
    /\ Len(g.list) <= AnchorMax /\ Cardinality(g.pool) <= PoolMax
    /\ \A a \in g.evicted : \A i \in 1..Len(g.list) : a.t < g.list[i].t

LEMMA AnAnchor == \A t \in Nat, b \in Bitmaps : Anchor(t, b) \in Anchors /\ Anchor(t, b).t = t /\ Anchor(t, b).bmp = b
  BY DEF Anchor, Anchors

(* What evict leaves of a list: its end, and the newest entry always.      *)
LEMMA EvictIs ==
  ASSUME NEW g \in Grids, g.list # <<>>, NEW saved \in BOOLEAN
  PROVE  LET n == Overflow(g)
             h == Evict(g, saved)
         IN  /\ n \in 0..(Len(g.list) - 1)
             /\ h \in Grids /\ h.next = g.next
             /\ h.list = SubSeq(g.list, n + 1, Len(g.list))
             /\ h.pool = IF n = 0 THEN g.pool ELSE ToSetOfBitmaps(h.list)
             /\ h.evicted = IF saved THEN g.evicted \cup {g.list[i] : i \in 1..n} ELSE g.evicted
             /\ Len(h.list) = Len(g.list) - n
             /\ \A i \in 1..Len(h.list) : i + n \in 1..Len(g.list) /\ h.list[i] = g.list[i + n]
<1> DEFINE n == Overflow(g)
           kept == SubSeq(g.list, n + 1, Len(g.list))
<1>1. g.list \in Seq(Anchors) /\ Len(g.list) \in Nat /\ Len(g.list) > 0
  BY EmptySeq DEF Grids
<1>2. n \in 0..(Len(g.list) - 1)
  BY <1>1, Bounds DEF Overflow
<1> HIDE DEF n
<1>3. /\ kept \in Seq(Anchors) /\ Len(kept) = Len(g.list) - n
      /\ \A i \in 1..Len(kept) : i + n \in 1..Len(g.list) /\ kept[i] = g.list[i + n]
  BY SMTT(40), <1>1, <1>2, SubSeqProperties
<1> HIDE DEF kept
<1>4. \A i \in 1..n : g.list[i] \in Anchors
  BY <1>1, <1>2
<1>5. ToSetOfBitmaps(kept) \subseteq Bitmaps
  <2>1. \A i \in 1..Len(kept) : kept[i] \in Anchors
    BY <1>3, ElementOfSeq
  <2> QED
    BY <2>1 DEF ToSetOfBitmaps, Anchors
<1>6. Evict(g, saved) = [g EXCEPT !.list = kept,
                                  !.pool = IF n = 0 THEN @ ELSE ToSetOfBitmaps(kept),
                                  !.evicted = IF saved THEN @ \cup {g.list[i] : i \in 1..n} ELSE @]
  BY DEF Evict, n, kept
<1>7. /\ g.pool \subseteq Bitmaps /\ g.evicted \subseteq Anchors /\ {g.list[i] : i \in 1..n} \subseteq Anchors
  BY <1>4 DEF Grids
<1>8. LET h == Evict(g, saved)
      IN  /\ h \in Grids /\ h.next = g.next /\ h.list = kept
          /\ h.pool = IF n = 0 THEN g.pool ELSE ToSetOfBitmaps(kept)
          /\ h.evicted = IF saved THEN g.evicted \cup {g.list[i] : i \in 1..n} ELSE g.evicted
  BY <1>3, <1>5, <1>6, <1>7, ZenonT(40) DEF Grids
<1> QED
  BY <1>2, <1>3, <1>8 DEF n, kept

LEMMA OfBitmaps ==
  ASSUME NEW list \in Seq(Anchors)
  PROVE  /\ ToSetOfBitmaps(list) \subseteq Bitmaps
         /\ IsFiniteSet(ToSetOfBitmaps(list))
         /\ Len(list) = 1 => Cardinality(ToSetOfBitmaps(list)) = 1
<1>1. \A i \in 1..Len(list) : list[i] \in Anchors
  BY ElementOfSeq
<1>2. ToSetOfBitmaps(list) \subseteq Bitmaps
  BY <1>1 DEF ToSetOfBitmaps, Anchors
<1>3. Len(list) \in Nat /\ IsFiniteSet(1..Len(list))
  BY FS_Interval
<1>4. IsFiniteSet(ToSetOfBitmaps(list))
  <2> DEFINE f == [i \in 1..Len(list) |-> list[i].bmp]
  <2>1. ToSetOfBitmaps(list) = {f[i] : i \in 1..Len(list)}
    BY DEF ToSetOfBitmaps
  <2>2. f \in Surjection(1..Len(list), {f[i] : i \in 1..Len(list)})
    BY DEF Surjection
  <2> HIDE DEF f
  <2> QED
    BY <1>3, <2>1, <2>2, FS_Surjection
<1>5. ASSUME Len(list) = 1 PROVE Cardinality(ToSetOfBitmaps(list)) = 1
  <2>1. ToSetOfBitmaps(list) = {list[1].bmp}
    BY <1>5 DEF ToSetOfBitmaps
  <2> QED
    BY <2>1, FS_Singleton
<1> QED
  BY <1>2, <1>4, <1>5

(* evict leaves a grid within its caps and the rest as it was.             *)
LEMMA EvictKeeps ==
  ASSUME NEW g \in Grids, NEW saved \in BOOLEAN,
         g.list # <<>>, Spaced(g.list), g.pool = ToSetOfBitmaps(g.list),
         \A a \in g.evicted : \A i \in 1..Len(g.list) : a.t < g.list[i].t
  PROVE  LET h == Evict(g, saved)
         IN  /\ h.list # <<>> /\ h.next = g.next
             /\ Whole(h, g.list[Len(g.list)].t + Minute)
             /\ AnchorsOf(h) \subseteq AnchorsOf(g)
<1> DEFINE k == Len(g.list)
<1>1. PICK n, h :
         /\ h = Evict(g, saved) /\ n = Overflow(g)
         /\ n \in 0..(Len(g.list) - 1)
         /\ h \in Grids /\ h.next = g.next
         /\ h.pool = IF n = 0 THEN g.pool ELSE ToSetOfBitmaps(h.list)
         /\ h.evicted = IF saved THEN g.evicted \cup {g.list[i] : i \in 1..n} ELSE g.evicted
         /\ Len(h.list) = Len(g.list) - n
         /\ \A i \in 1..Len(h.list) : i + n \in 1..Len(g.list) /\ h.list[i] = g.list[i + n]
  <2>1. /\ Overflow(g) \in 0..(Len(g.list) - 1)
        /\ Evict(g, saved) \in Grids /\ Evict(g, saved).next = g.next
        /\ Evict(g, saved).list = SubSeq(g.list, Overflow(g) + 1, Len(g.list))
        /\ Evict(g, saved).pool = IF Overflow(g) = 0 THEN g.pool ELSE ToSetOfBitmaps(Evict(g, saved).list)
        /\ Evict(g, saved).evicted = IF saved THEN g.evicted \cup {g.list[i] : i \in 1..Overflow(g)} ELSE g.evicted
        /\ Len(Evict(g, saved).list) = Len(g.list) - Overflow(g)
        /\ \A i \in 1..Len(Evict(g, saved).list) :
              i + Overflow(g) \in 1..Len(g.list) /\ Evict(g, saved).list[i] = g.list[i + Overflow(g)]
    BY EvictIs
  <2> QED
    BY <2>1
<1>2. /\ g.list \in Seq(Anchors) /\ h.list \in Seq(Anchors)
      /\ k \in Nat /\ k > 0 /\ Len(h.list) \in Nat
  BY <1>1, EmptySeq DEF Grids
<1>3. /\ \A i \in 1..k : g.list[i] \in Anchors /\ g.list[i].t \in Nat
      /\ \A a \in g.evicted : a \in Anchors /\ a.t \in Nat
  <2>1. ASSUME NEW i \in 1..k PROVE g.list[i] \in Anchors /\ g.list[i].t \in Nat
    <3>1. g.list[i] \in Anchors
      BY <1>2, ElementOfSeq
    <3> QED
      BY <3>1 DEF Anchors
  <2>2. \A a \in g.evicted : a \in Anchors /\ a.t \in Nat
    BY DEF Grids, Anchors
  <2> QED
    BY <2>1, <2>2
<1>4. h.list # <<>> /\ Len(h.list) \in 1..k /\ Len(h.list) + n = k
  BY SMTT(40), <1>1, <1>2, EmptySeq
<1>5. h.pool = ToSetOfBitmaps(h.list)
  <2>1. CASE n = 0
    <3>1. Len(h.list) = k /\ \A i \in 1..k : h.list[i] = g.list[i]
      BY <1>1, <1>2, <2>1
    <3>2. ToSetOfBitmaps(h.list) = ToSetOfBitmaps(g.list)
      BY <3>1 DEF ToSetOfBitmaps
    <3> QED
      BY <1>1, <2>1, <3>2
  <2> QED
    BY <1>1, <2>1
<1>6. Len(h.list) <= AnchorMax /\ Cardinality(h.pool) <= PoolMax
  <2>1. IsFiniteSet(g.pool) /\ Cardinality(g.pool) \in Nat
    BY <1>2, OfBitmaps, FS_CardinalityType
  <2>2. h.pool \subseteq g.pool
    <3>1. \A i \in 1..Len(h.list) : i + n \in 1..k /\ h.list[i].bmp = g.list[i + n].bmp
      BY <1>1
    <3> QED
      BY <1>5, <3>1 DEF ToSetOfBitmaps
  <2>3. Cardinality(h.pool) <= Cardinality(g.pool)
    BY <2>1, <2>2, FS_Subset
  <2>4. CASE Cardinality(g.pool) > PoolMax
    <3>1. n = k - 1
      BY <1>1, <2>4 DEF Overflow
    <3>2. Len(h.list) = 1
      BY <1>1, <1>2, <3>1
    <3> QED
      BY <1>2, <1>5, <3>2, OfBitmaps, Bounds
  <2>5. CASE ~(Cardinality(g.pool) > PoolMax)
    <3>1. Cardinality(h.pool) <= PoolMax
      <4>1. IsFiniteSet(h.pool) /\ Cardinality(h.pool) \in Nat
        BY <1>2, <1>5, OfBitmaps, FS_CardinalityType
      <4> QED
        BY <2>1, <2>3, <2>5, <4>1, Bounds
    <3>2. n = IF k > AnchorMax THEN k - AnchorMax ELSE 0
      <4>1. n = Overflow(g)
        BY <1>1
      <4> QED
        BY <2>5, <4>1 DEF Overflow
    <3>3. Len(h.list) <= AnchorMax
      BY <1>1, <1>2, <3>2, Bounds
    <3> QED
      BY <3>1, <3>3
  <2> QED
    BY <2>4, <2>5
<1>7. Spaced(h.list)
  <2>1. ASSUME NEW i \in 1..Len(h.list), NEW j \in 1..Len(h.list), i < j PROVE h.list[i].t < h.list[j].t
    <3>1. i + n \in 1..k /\ j + n \in 1..k /\ i + n < j + n
      BY SMTT(40), <1>1, <1>2, <2>1
    <3>2. g.list[i + n].t < g.list[j + n].t
      BY <3>1 DEF Spaced
    <3> QED
      BY <1>1, <3>2
  <2>2. ASSUME NEW i \in 1..(Len(h.list) - 1) PROVE h.list[i + 1].t = h.list[i].t + Minute
    <3>1. i \in 1..Len(h.list) /\ i + 1 \in 1..Len(h.list) /\ (i + 1) + n = (i + n) + 1 /\ i + n \in 1..(k - 1)
      <4>1. PICK m \in Nat : m = Len(h.list)
        BY <1>4
      <4>2. n \in Nat /\ k \in Nat /\ m + n = k /\ i \in 1..(m - 1)
        BY <1>1, <1>2, <1>4, <4>1
      <4>3. (i + 1) + n = (i + n) + 1 /\ i + n \in 1..(k - 1)
        BY <4>2
      <4>4. i \in 1..m /\ i + 1 \in 1..m
        BY <4>2
      <4> QED
        BY <4>1, <4>3, <4>4
    <3> QED
      BY ZenonT(60), <1>1, <3>1 DEF Spaced
  <2> QED
    BY <2>1, <2>2 DEF Spaced
<1>8. h.list[Len(h.list)] = g.list[k]
  <2>1. Len(h.list) \in 1..Len(h.list)
    BY <1>4
  <2> QED
    BY <1>1, <1>4, <2>1
<1>9. ASSUME NEW a \in h.evicted, NEW i \in 1..Len(h.list) PROVE a.t < h.list[i].t
  <2>1. h.list[i] = g.list[i + n] /\ i + n \in 1..k /\ i + n > n
    BY SMTT(40), <1>1, <1>2
  <2>2. CASE a \in g.evicted
    BY <2>1, <2>2
  <2>3. CASE \E j \in 1..n : a = g.list[j]
    <3>1. PICK j \in 1..n : a = g.list[j]
      BY <2>3
    <3>2. j \in 1..k /\ j < i + n
      BY SMTT(40), <1>1, <1>2, <2>1
    <3> QED
      BY <2>1, <3>1, <3>2 DEF Spaced
  <2> QED
    BY <1>1, <2>2, <2>3
<1>10. Whole(h, g.list[k].t + Minute)
  <2>1. h \in Grids
    BY <1>1
  <2>2. \A a \in h.evicted : \A i \in 1..Len(h.list) : a.t < h.list[i].t
    BY <1>9
  <2> QED
    BY <1>4, <1>5, <1>6, <1>7, <1>8, <2>1, <2>2 DEF Whole
<1>11. AnchorsOf(h) \subseteq AnchorsOf(g)
  <2>1. \A i \in 1..n : i \in 1..k
    BY <1>1, <1>2
  <2>2. h.evicted \subseteq AnchorsOf(g)
    BY <1>1, <2>1 DEF AnchorsOf
  <2>3. \A i \in 1..Len(h.list) : h.list[i] \in AnchorsOf(g)
    BY <1>1 DEF AnchorsOf
  <2> QED
    BY <2>2, <2>3 DEF AnchorsOf
<1> QED
  BY <1>1, <1>4, <1>10, <1>11

(* One more checkpoint leaves a whole grid whole, and no checkpoints but   *)
(* it are new.                                                             *)
LEMMA InsertKeeps ==
  ASSUME NEW at \in Nat, NEW g, Whole(g, at), NEW b \in Bitmaps, NEW saved \in BOOLEAN
  PROVE  LET h == Insert(g, at, b, saved)
         IN  /\ Whole(h, at + Minute) /\ h.list # <<>> /\ h.next = g.next
             /\ AnchorsOf(h) \subseteq AnchorsOf(g) \cup {Anchor(at, b)}
<1> DEFINE k == Len(g.list)
<1>1. PICK m : m = [g EXCEPT !.list = Append(g.list, Anchor(at, b)), !.pool = g.pool \cup {b}]
  OBVIOUS
<1>2. g \in Grids /\ Anchor(at, b) \in Anchors
  BY AnAnchor DEF Whole
<1>3. /\ Append(g.list, Anchor(at, b)) \in Seq(Anchors) /\ g.pool \cup {b} \subseteq Bitmaps
  BY <1>2 DEF Grids
<1>4. /\ m \in Grids /\ m.list = Append(g.list, Anchor(at, b)) /\ m.pool = g.pool \cup {b}
      /\ m.next = g.next /\ m.evicted = g.evicted
  BY <1>1, <1>2, <1>3 DEF Grids
<1>5. /\ g.list \in Seq(Anchors) /\ k \in Nat /\ Len(m.list) = k + 1 /\ m.list[k + 1] = Anchor(at, b)
      /\ \A i \in 1..k : m.list[i] = g.list[i] /\ g.list[i] \in Anchors /\ g.list[i].t \in Nat
      /\ m.list # <<>>
  <2>1. g.list \in Seq(Anchors)
    BY <1>2 DEF Grids
  <2>2. ASSUME NEW i \in 1..k PROVE g.list[i] \in Anchors /\ g.list[i].t \in Nat
    <3>1. g.list[i] \in Anchors
      BY <2>1, ElementOfSeq
    <3> QED
      BY <3>1 DEF Anchors
  <2> QED
    BY SMTT(40), <1>2, <1>4, <2>1, <2>2, AppendProperties
<1>6. m.list[k + 1].t = at /\ m.list[k + 1].bmp = b
  BY <1>5 DEF Anchor
<1>7. k > 0 => g.list # <<>> /\ g.list[k].t + Minute = at /\ g.list[k].t < at
  BY <1>5, Bounds, EmptySeq, SMTT(20) DEF Whole
<1>8. \A i \in 1..k : g.list[i].t < at
  <2> SUFFICES ASSUME NEW i \in 1..k PROVE g.list[i].t < at
    OBVIOUS
  <2>1. k \in 1..k
    BY <1>5
  <2>2. i < k => g.list[i].t < g.list[k].t
    BY <2>1 DEF Whole, Spaced
  <2> QED
    BY <1>5, <1>7, <2>1, <2>2, SMTT(20)
<1>9. Spaced(m.list)
  <2>1. ASSUME NEW i \in 1..(k + 1), NEW j \in 1..(k + 1), i < j PROVE m.list[i].t < m.list[j].t
    <3>1. i \in 1..k
      BY <1>5, <2>1
    <3>2. CASE j = k + 1
      BY <1>5, <1>6, <1>8, <3>1, <3>2
    <3>3. CASE j \in 1..k
      BY <1>5, <2>1, <3>1, <3>3 DEF Whole, Spaced
    <3> QED
      BY SMTT(40), <1>5, <3>2, <3>3
  <2>2. ASSUME NEW i \in 1..k PROVE m.list[i + 1].t = m.list[i].t + Minute
    <3>1. CASE i = k
      BY SMTT(40), <1>5, <1>6, <1>7, <3>1
    <3>2. CASE i # k
      <4>1. i \in 1..(k - 1) /\ i + 1 \in 1..k
        BY <1>5, <3>2
      <4> QED
        BY <1>5, <4>1 DEF Whole, Spaced
    <3> QED
      BY <3>1, <3>2
  <2>3. (k + 1) - 1 = k
    BY <1>5
  <2> QED
    BY <1>5, <2>1, <2>2, <2>3 DEF Spaced
<1>10. m.pool = ToSetOfBitmaps(m.list)
  <2>1. g.pool = {g.list[i].bmp : i \in 1..k}
    BY DEF Whole, ToSetOfBitmaps
  <2>2. ToSetOfBitmaps(m.list) = {m.list[i].bmp : i \in 1..(k + 1)}
    BY <1>5 DEF ToSetOfBitmaps
  <2>3. \A i \in 1..(k + 1) : i \in 1..k \/ i = k + 1
    BY <1>5
  <2>4. k + 1 \in 1..(k + 1) /\ \A i \in 1..k : i \in 1..(k + 1)
    BY <1>5
  <2>5. {m.list[i].bmp : i \in 1..(k + 1)} = {g.list[i].bmp : i \in 1..k} \cup {b}
    BY <1>5, <1>6, <2>3, <2>4
  <2> QED
    BY <1>4, <2>1, <2>2, <2>5
<1>11. ASSUME NEW a \in m.evicted, NEW i \in 1..Len(m.list) PROVE a.t < m.list[i].t
  <2>1. a \in g.evicted /\ a.t \in Nat /\ i \in 1..(k + 1)
    BY <1>2, <1>4, <1>5 DEF Grids, Anchors
  <2>2. k > 0 /\ k \in 1..k
    BY <1>5, <2>1, EmptySeq DEF Whole
  <2>3. \A j \in 1..k : a.t < g.list[j].t
    BY <2>1 DEF Whole
  <2>4. a.t < g.list[k].t /\ g.list[k].t \in Nat
    BY <1>5, <2>2, <2>3
  <2>5. CASE i = k + 1
    BY SMTT(40), <1>6, <1>7, <2>1, <2>2, <2>4, <2>5
  <2>6. CASE i \in 1..k
    BY <1>5, <2>3, <2>6
  <2> QED
    BY SMTT(40), <1>5, <2>1, <2>5, <2>6
<1>12. /\ Evict(m, saved).list # <<>> /\ Evict(m, saved).next = m.next
       /\ Whole(Evict(m, saved), m.list[Len(m.list)].t + Minute)
       /\ AnchorsOf(Evict(m, saved)) \subseteq AnchorsOf(m)
  BY <1>4, <1>5, <1>9, <1>10, <1>11, EvictKeeps
<1>13. Insert(g, at, b, saved) = Evict(m, saved)
  BY <1>1 DEF Insert
<1>14. AnchorsOf(m) \subseteq AnchorsOf(g) \cup {Anchor(at, b)}
  <2>1. \A i \in 1..(k + 1) : m.list[i] \in AnchorsOf(g) \cup {Anchor(at, b)}
    <3>1. \A i \in 1..k : m.list[i] \in AnchorsOf(g)
      BY <1>5 DEF AnchorsOf
    <3>2. \A i \in 1..(k + 1) : i \in 1..k \/ i = k + 1
      BY <1>5
    <3> QED
      BY <1>5, <3>1, <3>2
  <2> QED
    BY <1>4, <1>5, <2>1 DEF AnchorsOf
<1> QED
  BY <1>4, <1>5, <1>6, <1>12, <1>13, <1>14

(* insert is a step from grid to grid.                                     *)
LEMMA InsertType ==
  ASSUME NEW g \in Grids, NEW t \in Nat, NEW b \in Bitmaps, NEW saved \in BOOLEAN
  PROVE  Insert(g, t, b, saved) \in Grids
<1>1. PICK m : m = [g EXCEPT !.list = Append(g.list, Anchor(t, b)), !.pool = g.pool \cup {b}]
  OBVIOUS
<1>2. g.list \in Seq(Anchors) /\ Anchor(t, b) \in Anchors
  BY AnAnchor DEF Grids
<1>3. Append(g.list, Anchor(t, b)) \in Seq(Anchors) /\ Append(g.list, Anchor(t, b)) # <<>>
  BY <1>2, AppendProperties
<1>4. m \in Grids /\ m.list # <<>>
  BY <1>1, <1>3 DEF Grids
<1>5. Insert(g, t, b, saved) = Evict(m, saved)
  BY <1>1 DEF Insert
<1>6. Evict(m, saved) \in Grids
  BY <1>4, EvictIs
<1> QED
  BY <1>5, <1>6

(* The loop of advance, as a sequence of grids.                            *)
IsStamping(f, g, from, count, b, saved) ==
    /\ f \in [0..count -> Grids]
    /\ f[0] = g /\ f[count] = Stamped(g, from, count, b, saved)
    /\ \A n \in 1..count : f[n] = Insert(f[n - 1], from + (n - 1) * Minute, b, saved)

LEMMA StampedLoop ==
  ASSUME NEW g \in Grids, NEW from \in Nat, NEW count \in Nat, NEW b \in Bitmaps, NEW saved \in BOOLEAN
  PROVE  \E f : IsStamping(f, g, from, count, b, saved)
<1> DEFINE Step == [x \in Grids \X (1..count) |-> Insert(x[1], from + (x[2] - 1) * Minute, b, saved)]
           Unfolded(f) == [n \in 0..count |->
                          IF n = 0 THEN g ELSE Insert(f[n - 1], from + (n - 1) * Minute, b, saved)]
           F == CHOOSE f : f = Unfolded(f)
<1>1. \A n \in 1..count : from + (n - 1) * Minute \in Nat
  BY Bounds
<1>2. Step \in [Grids \X (1..count) -> Grids]
  <2>1. ASSUME NEW x \in Grids \X (1..count) PROVE Insert(x[1], from + (x[2] - 1) * Minute, b, saved) \in Grids
    BY <1>1, InsertType
  <2> QED
    BY <2>1
<1>3. PICK G \in [Grids \X (1..count) -> Grids] :
        \A h \in Grids, n \in 1..count : G[<<h, n>>] = Insert(h, from + (n - 1) * Minute, b, saved)
  <2>1. \A h \in Grids, n \in 1..count : Step[<<h, n>>] = Insert(h, from + (n - 1) * Minute, b, saved)
    OBVIOUS
  <2> HIDE DEF Step
  <2> QED
    BY <1>2, <2>1
<1>4. PICK f : f \in [0..count -> Grids] /\ f[0] = g /\ \A n \in 1..count : f[n] = G[<<f[n - 1], n>>]
  <2> HIDE DEF Unfolded, F, Step
  <2>1. \E f : IsLoop(f, Grids, g, count, G)
    BY Recursion
  <2> QED
    BY <2>1 DEF IsLoop
<1>5. f = Unfolded(f)
  <2>1. \A n \in 1..count : f[n - 1] \in Grids /\ n - 1 \in 0..count
    BY <1>4
  <2>2. \A n \in 0..count : f[n] = IF n = 0 THEN g ELSE Insert(f[n - 1], from + (n - 1) * Minute, b, saved)
    <3>1. ASSUME NEW n \in 1..count PROVE f[n] = Insert(f[n - 1], from + (n - 1) * Minute, b, saved)
      BY <1>3, <1>4, <2>1
    <3>2. \A n \in 0..count : n = 0 \/ n \in 1..count
      OBVIOUS
    <3> QED
      BY <1>4, <3>1, <3>2
  <2> QED
    BY <1>4, <2>2
<1>6. F = Unfolded(F)
  <2> HIDE DEF Unfolded
  <2> QED
    BY <1>5
<1>7. Stamped(g, from, count, b, saved) = F[count]
  BY DEF Stamped
<1> HIDE DEF F
<1> DEFINE T == {n \in 0..count : F[n] = f[n]}
<1>8. \A n \in 0..count : n \in T
  <2>1. 0 \in T
    <3>1. 0 \in 0..count
      OBVIOUS
    <3>2. F[0] = g
      BY <1>6, <3>1
    <3> QED
      BY <1>4, <3>1, <3>2
  <2>2. ASSUME NEW n \in 1..count, n - 1 \in T PROVE n \in T
    <3>1. n \in 0..count /\ F[n - 1] = f[n - 1] /\ f[n - 1] \in Grids /\ n # 0
      BY <1>4, <2>2
    <3>2. F[n] = Insert(F[n - 1], from + (n - 1) * Minute, b, saved)
      BY <1>6, <3>1
    <3>3. f[n] = Insert(f[n - 1], from + (n - 1) * Minute, b, saved)
      BY <1>5, <3>1
    <3> QED
      BY <3>1, <3>2, <3>3
  <2> HIDE DEF T
  <2> QED
    BY <2>1, <2>2, Induction
<1>9. f[count] = F[count]
  BY <1>8
<1>10. f[count] = Stamped(g, from, count, b, saved)
  BY <1>7, <1>9
<1>11. \A n \in 1..count : f[n] = Insert(f[n - 1], from + (n - 1) * Minute, b, saved)
  <2>1. \A n \in 1..count : f[n - 1] \in Grids
    BY <1>4
  <2> QED
    BY <1>3, <1>4, <2>1
<1> HIDE DEF Step, Unfolded, F, T
<1> QED
  BY <1>4, <1>10, <1>11 DEF IsStamping

(* "count" checkpoints, all of one bitmap.                                 *)
LEMMA StampedKeeps ==
  ASSUME NEW from \in Nat, NEW count \in Nat, NEW g, Whole(g, from), NEW b \in Bitmaps, NEW saved \in BOOLEAN
  PROVE  LET h == Stamped(g, from, count, b, saved)
         IN  /\ Whole(h, from + count * Minute) /\ h.next = g.next
             /\ count > 0 => h.list # <<>>
             /\ count = 0 => h = g
             /\ AnchorsOf(h) \subseteq AnchorsOf(g) \cup {Anchor(from + (n - 1) * Minute, b) : n \in 1..count}
<1> DEFINE New == {Anchor(from + (n - 1) * Minute, b) : n \in 1..count}
<1>0. g \in Grids
  BY DEF Whole
<1>1. PICK f : IsStamping(f, g, from, count, b, saved)
  BY <1>0, StampedLoop
<1>2. /\ f \in [0..count -> Grids]
      /\ f[0] = g /\ f[count] = Stamped(g, from, count, b, saved)
      /\ \A n \in 1..count : f[n] = Insert(f[n - 1], from + (n - 1) * Minute, b, saved)
  BY <1>1 DEF IsStamping
<1> DEFINE Good(n) == /\ Whole(f[n], from + n * Minute) /\ f[n].next = g.next
                      /\ n > 0 => f[n].list # <<>>
                      /\ AnchorsOf(f[n]) \subseteq AnchorsOf(g) \cup New
           T == {n \in 0..count : Good(n)}
<1>3. 0 \in T
  <2>1. from + 0 * Minute = from
    BY Bounds
  <2> QED
    BY <1>2, <2>1
<1>4. ASSUME NEW n \in 1..count, n - 1 \in T PROVE n \in T
  <2> DEFINE at == from + (n - 1) * Minute
  <2>1. at \in Nat /\ at + Minute = from + n * Minute
    BY Bounds
  <2>2. Anchor(at, b) \in New
    OBVIOUS
  <2>3. Whole(f[n - 1], at) /\ f[n - 1].next = g.next /\ AnchorsOf(f[n - 1]) \subseteq AnchorsOf(g) \cup New
    BY <1>4
  <2> HIDE DEF New, at
  <2>4. /\ Whole(Insert(f[n - 1], at, b, saved), at + Minute)
        /\ Insert(f[n - 1], at, b, saved).list # <<>>
        /\ Insert(f[n - 1], at, b, saved).next = f[n - 1].next
        /\ AnchorsOf(Insert(f[n - 1], at, b, saved)) \subseteq AnchorsOf(f[n - 1]) \cup {Anchor(at, b)}
    BY <2>1, <2>3, InsertKeeps
  <2>5. f[n] = Insert(f[n - 1], at, b, saved)
    BY <1>2 DEF at
  <2>6. Good(n)
    BY <2>1, <2>2, <2>3, <2>4, <2>5
  <2> QED
    BY <2>6
<1>5. Good(count)
  <2> HIDE DEF T
  <2>1. \A n \in 0..count : n \in T
    BY <1>3, <1>4, Induction
  <2> QED
    BY <2>1 DEF T
<1> QED
  BY <1>2, <1>5

(* What the grid comes to next is a field of its own.                      *)
LEMMA NextKeeps ==
  ASSUME NEW g, NEW at \in Nat, Whole(g, at), NEW next \in Nat
  PROVE  LET h == [g EXCEPT !.next = next]
         IN  Whole(h, at) /\ h.next = next /\ h.list = g.list /\ AnchorsOf(h) = AnchorsOf(g)
<1>1. PICK h : h = [g EXCEPT !.next = next]
  OBVIOUS
<1>2. g \in Grids
  BY DEF Whole
<1>3. h \in Grids /\ h.next = next /\ h.list = g.list /\ h.pool = g.pool /\ h.evicted = g.evicted
  BY <1>1, <1>2 DEF Grids
<1>4. Whole(h, at)
  BY <1>3 DEF Whole
<1>5. AnchorsOf(h) = AnchorsOf(g)
  BY <1>3 DEF AnchorsOf
<1> QED
  BY <1>1, <1>3, <1>4, <1>5

(* Every boundary from "from" to t, and none after t.                      *)
New(from, t, b) == {Anchor(from + k * Minute, b) : k \in {k \in 0..t : from + k * Minute <= t}}

LEMMA AdvanceKeeps ==
  ASSUME NEW from \in Nat, NEW t \in Nat, NEW g, Whole(g, from), NEW b \in Bitmaps, NEW saved \in BOOLEAN
  PROVE  LET h == Advance(g, from, t, b, saved)
         IN  /\ Whole(h, h.next)
             /\ t < h.next /\ (h.next = from \/ h.next <= t + Minute) /\ from <= h.next
             /\ h.list = <<>> => h.next = from /\ g.list = <<>>
             /\ AnchorsOf(h) \subseteq AnchorsOf(g) \cup New(from, t, b)
             /\ \A k \in Nat : from + k * Minute < h.next => from + k * Minute <= t
<1> DEFINE count == Boundaries(from, t)
           next == from + count * Minute
           h == Stamped(g, from, count, b, saved)
           Some == {Anchor(from + (n - 1) * Minute, b) : n \in 1..count}
<1>1. /\ count \in Nat
      /\ count > 0 => (count - 1) * Minute <= t - from /\ t - from < count * Minute
      /\ count = 0 => t < from
  BY Bounds DEF Boundaries
<1> HIDE DEF count
<1>2. \A n \in 1..count : (n - 1) * Minute \in Nat /\ (n - 1) * Minute <= (count - 1) * Minute /\ n - 1 <= (n - 1) * Minute
  BY <1>1, Bounds
<1>3. /\ next \in Nat /\ from <= next /\ t < next
      /\ count > 0 => next = from + (count - 1) * Minute + Minute /\ next <= t + Minute
      /\ count = 0 => next = from
  BY <1>1, Bounds
<1>4. \A n \in 1..count : n - 1 \in 0..t /\ from + (n - 1) * Minute <= t
  <2> SUFFICES ASSUME NEW n \in 1..count PROVE n - 1 \in 0..t /\ from + (n - 1) * Minute <= t
    OBVIOUS
  <2> DEFINE far == (n - 1) * Minute
             latest == (count - 1) * Minute
  <2>1. far \in Nat /\ far <= latest /\ n - 1 <= far /\ latest \in Int /\ latest <= t - from
    BY <1>1, <1>2, Bounds
  <2> HIDE DEF far, latest
  <2>2. far <= t - from /\ n - 1 <= t
    BY <1>1, <2>1
  <2> QED
    BY <1>1, <2>1, <2>2 DEF far
<1>5. Some \subseteq New(from, t, b)
  BY <1>4 DEF New
<1>6. /\ Whole(h, next) /\ (count > 0 => h.list # <<>>) /\ (count = 0 => h = g)
      /\ AnchorsOf(h) \subseteq AnchorsOf(g) \cup Some
  <2> HIDE DEF Some
  <2> QED
    BY <1>1, StampedKeeps DEF Some
<1>9. ASSUME NEW k \in Nat, from + k * Minute < next PROVE from + k * Minute <= t
  <2>1. k < count
    <3>1. ASSUME k >= count PROVE FALSE
      <4>1. k * Minute >= count * Minute
        BY <1>1, <3>1, Bounds
      <4>2. k * Minute \in Int /\ count * Minute \in Int
        BY <1>1, Bounds
      <4> QED
        BY <1>9, <4>1, <4>2
    <3> QED
      BY <1>1, <3>1
  <2>2. k + 1 \in 1..count /\ (k + 1) - 1 = k
    BY <1>1, <2>1
  <2> QED
    BY <1>4, <2>2
<1> HIDE DEF next, h, Some
<1>7. LET a == [h EXCEPT !.next = next] IN Whole(a, next) /\ a.next = next /\ a.list = h.list /\ AnchorsOf(a) = AnchorsOf(h)
  BY <1>3, <1>6, NextKeeps
<1>8. Advance(g, from, t, b, saved) = [h EXCEPT !.next = next]
  BY DEF Advance, h, next, count
<1> QED
  BY <1>1, <1>3, <1>5, <1>6, <1>7, <1>8, <1>9

(* sync and fill are steps from grid to grid.                              *)
LEMMA AdvanceType ==
  ASSUME NEW from \in Nat, NEW t \in Nat, NEW g \in Grids, NEW b \in Bitmaps, NEW saved \in BOOLEAN
  PROVE  Advance(g, from, t, b, saved) \in Grids
<1> DEFINE count == Boundaries(from, t)
           next == from + count * Minute
<1>1. count \in Nat /\ next \in Nat
  BY Bounds DEF Boundaries
<1> HIDE DEF count
<1>2. PICK f : IsStamping(f, g, from, count, b, saved)
  BY <1>1, StampedLoop
<1>3. Stamped(g, from, count, b, saved) \in Grids
  BY <1>1, <1>2 DEF IsStamping
<1>4. Advance(g, from, t, b, saved) = [Stamped(g, from, count, b, saved) EXCEPT !.next = next]
  BY DEF Advance, count
<1> HIDE DEF next
<1> QED
  BY <1>1, <1>3, <1>4 DEF Grids

LEMMA FirstIs ==
  ASSUME NEW t \in Nat, NEW g \in Grids
  PROVE  /\ FirstBoundary(g, t) \in Nat
         /\ g.next = 0 => FirstBoundary(g, t) <= t
         /\ g.next # 0 => FirstBoundary(g, t) = g.next
<1>1. (t \div Minute) * Minute \in Nat /\ (t \div Minute) * Minute <= t
  BY Bounds
<1> QED
  BY <1>1 DEF FirstBoundary, Grids

(***************************************************************************)
(* What posts make of a bitmap.  Fold is Painted of a sequence of posts.   *)
(***************************************************************************)
Posts == [t : Times, cell : Cells, color : Colors]
OnCell(ps, ns, c) == {n \in ns : ps[n].cell = c}
IsLast(ps, ns, c, n) ==
    /\ ps \in Seq(Posts) /\ ns \in SUBSET (1..Len(ps)) /\ c \in Cells
    /\ n \in ns /\ ps[n].cell = c
    /\ \A k \in ns : ps[k].cell = c => k <= n
Fold(ps, b, ns) ==
    [c \in Cells |-> IF OnCell(ps, ns, c) = {} THEN b[c] ELSE ps[Latest(OnCell(ps, ns, c))].color]

LEMMA PaintedIs == \A b, ns : Painted(b, ns) = Fold(posts, b, ns)
  BY DEF Painted, Fold, On, OnCell

(* The last post on a cell is what it shows; without one it is as before.  *)
LEMMA FoldNone ==
  ASSUME NEW ps \in Seq(Posts), NEW ns \in SUBSET (1..Len(ps)), NEW b, NEW c \in Cells,
         \A n \in ns : ps[n].cell # c
  PROVE  Fold(ps, b, ns)[c] = b[c]
<1>1. OnCell(ps, ns, c) = {}
  BY DEF OnCell
<1> QED
  BY <1>1 DEF Fold

LEMMA FoldLast ==
  ASSUME NEW ps, NEW ns, NEW c, NEW n, IsLast(ps, ns, c, n), NEW b
  PROVE  Fold(ps, b, ns)[c] = ps[n].color
<1> DEFINE T == OnCell(ps, ns, c)
<1>0. ns \in SUBSET (1..Len(ps)) /\ c \in Cells
  BY DEF IsLast
<1>1. T \subseteq ns
  BY DEF OnCell
<1>2. \A k \in T : k \in Int
  <2>1. \A k \in ns : k \in Int
    BY <1>0
  <2> HIDE DEF T
  <2> QED
    BY <1>1, <2>1
<1>3. n \in T /\ \A k \in T : k <= n
  BY DEF OnCell, IsLast
<1>4. Fold(ps, b, ns)[c] = IF T = {} THEN b[c] ELSE ps[Latest(T)].color
  BY <1>0 DEF Fold
<1> HIDE DEF T
<1>5. Latest(T) \in T /\ \A k \in T : k <= Latest(T)
  BY <1>3 DEF Latest
<1>6. Latest(T) = n
  <2>1. PICK k : k = Latest(T)
    OBVIOUS
  <2>2. k \in Int /\ n \in Int /\ k <= n /\ n <= k
    BY <1>2, <1>3, <1>5, <2>1
  <2> QED
    BY <2>1, <2>2
<1> QED
  BY <1>3, <1>4, <1>6

LEMMA FoldCases ==
  ASSUME NEW ps \in Seq(Posts), NEW ns \in SUBSET (1..Len(ps)), NEW c \in Cells
  PROVE  (\A n \in ns : ps[n].cell # c) \/ \E n \in ns : IsLast(ps, ns, c, n)
<1> DEFINE T == OnCell(ps, ns, c)
<1>1. Len(ps) \in Nat
  OBVIOUS
<1>2. T \subseteq ns
  BY DEF OnCell
<1>3. T \in SUBSET (0..Len(ps))
  <2>1. ns \subseteq 0..Len(ps)
    BY <1>1
  <2> HIDE DEF T
  <2> QED
    BY <1>2, <2>1
<1>4. T = {} => \A n \in ns : ps[n].cell # c
  BY DEF OnCell
<1>5. \A n : n \in T /\ (\A k \in T : k <= n) => IsLast(ps, ns, c, n)
  BY DEF IsLast, OnCell
<1> HIDE DEF T
<1>6. T # {} => \E x \in T : \A y \in T : y <= x
  BY <1>1, <1>3, Greatest
<1> QED
  BY <1>2, <1>4, <1>5, <1>6

LEMMA FoldType ==
  ASSUME NEW ps \in Seq(Posts), NEW ns \in SUBSET (1..Len(ps)), NEW b \in Bitmaps
  PROVE  Fold(ps, b, ns) \in Bitmaps
<1>1. ASSUME NEW c \in Cells PROVE Fold(ps, b, ns)[c] \in Colors \cup {Empty}
  <2>1. CASE \A n \in ns : ps[n].cell # c
    <3>1. Fold(ps, b, ns)[c] = b[c]
      BY <2>1, FoldNone
    <3> QED
      BY <3>1 DEF Bitmaps
  <2>2. CASE \E n \in ns : IsLast(ps, ns, c, n)
    <3>1. PICK n \in ns : IsLast(ps, ns, c, n)
      BY <2>2
    <3>2. ps[n] \in Posts
      BY ElementOfSeq
    <3>3. Fold(ps, b, ns)[c] = ps[n].color
      BY <3>1, FoldLast
    <3> QED
      BY <3>2, <3>3 DEF Posts
  <2> QED
    BY <2>1, <2>2, FoldCases
<1> QED
  BY <1>1 DEF Fold, Bitmaps

LEMMA BlankType == Blank \in Bitmaps /\ \A c \in Cells : Blank[c] = Empty
  BY DEF Blank, Bitmaps, Empty

LEMMA FoldNothing ==
  ASSUME NEW ps, NEW b \in Bitmaps
  PROVE  Fold(ps, b, {}) = b
  BY DEF Fold, OnCell, Bitmaps

(* Two folds, the second of later posts, are one.                          *)
LEMMA Joined ==
  ASSUME NEW ps \in Seq(Posts), NEW b \in Bitmaps,
         NEW early \in SUBSET (1..Len(ps)), NEW late \in SUBSET (1..Len(ps)),
         \A i \in early, k \in late : i < k
  PROVE  Fold(ps, Fold(ps, b, early), late) = Fold(ps, b, early \cup late)
<1> DEFINE m == Fold(ps, b, early)
           x == Fold(ps, m, late)
           both == early \cup late
           y == Fold(ps, b, both)
<1>1. m \in Bitmaps /\ both \in SUBSET (1..Len(ps))
  BY FoldType
<1>2. x \in Bitmaps /\ y \in Bitmaps
  <2> HIDE DEF m, both
  <2> QED
    BY <1>1, FoldType
<1>3. ASSUME NEW c \in Cells PROVE x[c] = y[c]
  <2>1. CASE \E n \in late : IsLast(ps, late, c, n)
    <3>1. PICK n \in late : IsLast(ps, late, c, n)
      BY <2>1
    <3>2. n \in both /\ IsLast(ps, both, c, n)
      BY <1>1, <3>1 DEF IsLast
    <3> HIDE DEF m, both
    <3>3. x[c] = ps[n].color /\ y[c] = ps[n].color
      <4>1. x[c] = ps[n].color
        BY <1>1, <3>1, <3>2, FoldLast
      <4>2. y[c] = ps[n].color
        BY <1>1, <3>1, <3>2, FoldLast
      <4> QED
        BY <4>1, <4>2
    <3> QED
      BY <3>3
  <2>2. CASE \A n \in late : ps[n].cell # c
    <3>1. x[c] = m[c]
      <4> HIDE DEF m
      <4> QED
        BY <2>2, FoldNone
    <3>2. CASE \E n \in early : IsLast(ps, early, c, n)
      <4>1. PICK n \in early : IsLast(ps, early, c, n)
        BY <3>2
      <4>2. n \in both /\ IsLast(ps, both, c, n)
        BY <1>1, <2>2, <4>1 DEF IsLast
      <4> HIDE DEF both
      <4>3. m[c] = ps[n].color /\ y[c] = ps[n].color
        <5>1. m[c] = ps[n].color
          BY <1>1, <4>1, <4>2, FoldLast
        <5>2. y[c] = ps[n].color
          BY <1>1, <4>1, <4>2, FoldLast
        <5> QED
          BY <5>1, <5>2
      <4> HIDE DEF x, y, m
      <4> QED
        BY <3>1, <4>3
    <3>3. CASE \A n \in early : ps[n].cell # c
      <4>1. \A n \in both : ps[n].cell # c
        BY <2>2, <3>3
      <4> HIDE DEF both
      <4>2. m[c] = b[c] /\ y[c] = b[c]
        <5>1. m[c] = b[c]
          BY <1>1, <3>3, <4>1, FoldNone
        <5>2. y[c] = b[c]
          BY <1>1, <3>3, <4>1, FoldNone
        <5> QED
          BY <5>1, <5>2
      <4> HIDE DEF x, y, m
      <4> QED
        BY <3>1, <4>2
    <3> QED
      BY <3>2, <3>3, FoldCases
  <2> QED
    BY <2>1, <2>2, FoldCases
<1> HIDE DEF x, y
<1>4. x = y
  BY <1>2, <1>3 DEF Bitmaps
<1> QED
  BY <1>4 DEF x, y

(* One more post shows on its cell and nowhere else.                       *)
LEMMA OneMore ==
  ASSUME NEW ps \in Seq(Posts), NEW b \in Bitmaps, NEW n \in 1..Len(ps), NEW ns \in SUBSET (1..(n - 1))
  PROVE  Fold(ps, b, ns \cup {n}) = [Fold(ps, b, ns) EXCEPT ![ps[n].cell] = ps[n].color]
<1> DEFINE more == ns \cup {n}
           x == Fold(ps, b, ns)
           y == Fold(ps, b, more)
<1>1. ns \in SUBSET (1..Len(ps)) /\ more \in SUBSET (1..Len(ps)) /\ Len(ps) \in Nat
  OBVIOUS
<1>2. x \in Bitmaps /\ y \in Bitmaps
  <2> HIDE DEF more
  <2> QED
    BY <1>1, FoldType
<1>3. ps[n] \in Posts /\ ps[n].cell \in Cells
  <2>1. ps[n] \in Posts
    BY ElementOfSeq
  <2> QED
    BY <2>1 DEF Posts
<1>4. y[ps[n].cell] = ps[n].color
  <2>1. n \in more /\ IsLast(ps, more, ps[n].cell, n)
    BY <1>1, <1>3 DEF IsLast
  <2>2. PICK c \in Cells : c = ps[n].cell
    BY <1>3
  <2>3. n \in more /\ IsLast(ps, more, c, n)
    BY <2>1, <2>2
  <2> HIDE DEF more
  <2>4. y[c] = ps[n].color
    BY <1>1, <2>3, FoldLast
  <2> QED
    BY <2>2, <2>4
<1>5. ASSUME NEW c \in Cells, c # ps[n].cell PROVE y[c] = x[c]
  <2>1. CASE \A k \in ns : ps[k].cell # c
    <3>1. \A k \in more : ps[k].cell # c
      BY <1>5, <2>1
    <3> HIDE DEF more
    <3>2. x[c] = b[c] /\ y[c] = b[c]
      <4>1. x[c] = b[c]
        BY <1>1, <2>1, <3>1, FoldNone
      <4>2. y[c] = b[c]
        BY <1>1, <2>1, <3>1, FoldNone
      <4> QED
        BY <4>1, <4>2
    <3> QED
      BY <3>2
  <2>2. CASE \E k \in ns : IsLast(ps, ns, c, k)
    <3>1. PICK k \in ns : IsLast(ps, ns, c, k)
      BY <2>2
    <3>2. k \in more /\ IsLast(ps, more, c, k)
      BY <1>1, <1>5, <3>1 DEF IsLast
    <3> HIDE DEF more
    <3>3. x[c] = ps[k].color /\ y[c] = ps[k].color
      <4>1. x[c] = ps[k].color
        BY <1>1, <3>1, <3>2, FoldLast
      <4>2. y[c] = ps[k].color
        BY <1>1, <3>1, <3>2, FoldLast
      <4> QED
        BY <4>1, <4>2
    <3> QED
      BY <3>3
  <2> QED
    BY <1>1, <2>1, <2>2, FoldCases
<1> HIDE DEF x, y
<1>6. y = [x EXCEPT ![ps[n].cell] = ps[n].color]
  BY <1>2, <1>3, <1>4, <1>5 DEF Bitmaps
<1> QED
  BY <1>6 DEF x, y

(* A post that is appended changes no fold of those before it.             *)
LEMMA Longer ==
  ASSUME NEW ps \in Seq(Posts), NEW p \in Posts, NEW b, NEW ns \in SUBSET (1..Len(ps))
  PROVE  Fold(Append(ps, p), b, ns) = Fold(ps, b, ns)
<1> DEFINE qs == Append(ps, p)
<1>1. \A n \in ns : qs[n] = ps[n]
  BY AppendProperties
<1>2. qs \in Seq(Posts) /\ ns \in SUBSET (1..Len(qs))
  BY AppendProperties
<1> HIDE DEF qs
<1>3. ASSUME NEW c \in Cells PROVE Fold(qs, b, ns)[c] = Fold(ps, b, ns)[c]
  <2>1. CASE \A n \in ns : ps[n].cell # c
    <3>1. \A n \in ns : qs[n].cell # c
      BY <1>1, <2>1
    <3>2. Fold(qs, b, ns)[c] = b[c] /\ Fold(ps, b, ns)[c] = b[c]
      <4>1. Fold(qs, b, ns)[c] = b[c]
        BY <1>2, <2>1, <3>1, FoldNone
      <4>2. Fold(ps, b, ns)[c] = b[c]
        BY <1>2, <2>1, <3>1, FoldNone
      <4> QED
        BY <4>1, <4>2
    <3> QED
      BY <3>2
  <2>2. CASE \E n \in ns : IsLast(ps, ns, c, n)
    <3>1. PICK n \in ns : IsLast(ps, ns, c, n)
      BY <2>2
    <3>2. IsLast(qs, ns, c, n)
      BY <1>1, <1>2, <3>1 DEF IsLast
    <3>3. Fold(qs, b, ns)[c] = qs[n].color /\ Fold(ps, b, ns)[c] = ps[n].color
      <4>1. Fold(qs, b, ns)[c] = qs[n].color
        BY <1>2, <3>1, <3>2, FoldLast
      <4>2. Fold(ps, b, ns)[c] = ps[n].color
        BY <1>2, <3>1, <3>2, FoldLast
      <4> QED
        BY <4>1, <4>2
    <3> QED
      BY <1>1, <3>3
  <2> QED
    BY <2>1, <2>2, FoldCases
<1>4. Fold(qs, b, ns) = Fold(ps, b, ns)
  BY <1>3 DEF Fold
<1> QED
  BY <1>4 DEF qs

(* What a fold shows is what was there or a post's colour.                 *)
LEMMA FoldShows ==
  ASSUME NEW ps \in Seq(Posts), NEW ns \in SUBSET (1..Len(ps)), NEW b, NEW c \in Cells
  PROVE  \/ Fold(ps, b, ns)[c] = b[c]
         \/ \E i \in ns : ps[i].cell = c /\ ps[i].color = Fold(ps, b, ns)[c]
<1>1. CASE \A n \in ns : ps[n].cell # c
  BY <1>1, FoldNone
<1>2. CASE \E n \in ns : IsLast(ps, ns, c, n)
  <2>1. PICK n \in ns : IsLast(ps, ns, c, n)
    BY <1>2
  <2>2. Fold(ps, b, ns)[c] = ps[n].color
    BY <2>1, FoldLast
  <2> QED
    BY <2>1, <2>2 DEF IsLast
<1> QED
  BY <1>1, <1>2, FoldCases

(***************************************************************************)
(* What holds of a checkpoint, and of a grid that has been synced to the   *)
(* posts ns.                                                               *)
(***************************************************************************)
Ordered(ps, moment) ==
    /\ ps \in Seq(Posts)
    /\ \A i, k \in 1..Len(ps) : i < k => ps[i].t <= ps[k].t
    /\ \A i \in 1..Len(ps) : ps[i].t <= moment

(* A checkpoint shows the posts before it, but for those it is known to    *)
(* lack; and only such as come before it are lacking.                      *)
Had(ps, sk, t) == {i \in 1..Len(ps) : ps[i].t < t /\ <<t, i>> \notin sk}
Holds(a, ps, sk, moment) == a.t <= moment /\ a.bmp = Fold(ps, Blank, Had(ps, sk, a.t))
Skews(ps, sk, next) ==
    \A x \in sk : x \in Times \X (1..Len(ps)) /\ ps[x[2]].t < x[1] /\ x[1] < next

Good(g, ps, sk, moment, ns) ==
    /\ Whole(g, g.next)
    /\ g.next <= moment + Minute
    /\ g.next = 0 => g.list = <<>>
    /\ ns \in SUBSET (1..Len(ps)) /\ \A i \in ns : ps[i].t < g.next
    /\ \A a \in AnchorsOf(g) : Holds(a, ps, sk, moment)

LEMMA HadSome ==
  ASSUME NEW ps, NEW sk, NEW t
  PROVE  Had(ps, sk, t) \in SUBSET (1..Len(ps))
  BY DEF Had

(* Later stamps do not touch a checkpoint.                                 *)
LEMMA HoldsStill ==
  ASSUME NEW a, NEW ps, NEW sk, NEW moment, Holds(a, ps, sk, moment), NEW sk2, sk \subseteq sk2,
         NEW from \in Nat, a.t \in Nat, a.t < from, \A x \in sk2 : x \in sk \/ x[1] >= from
  PROVE  Holds(a, ps, sk2, moment)
<1>1. ASSUME NEW i, <<a.t, i>> \in sk2 PROVE <<a.t, i>> \in sk
  <2>1. <<a.t, i>>[1] = a.t
    OBVIOUS
  <2> QED
    BY <1>1, <2>1
<1>2. Had(ps, sk2, a.t) = Had(ps, sk, a.t)
  BY <1>1 DEF Had
<1> QED
  BY <1>2 DEF Holds

LEMMA WholeEmpty ==
  ASSUME NEW g, NEW at, NEW to, Whole(g, at), g.list = <<>>
  PROVE  Whole(g, to)
  BY DEF Whole

LEMMA AnchorTimes ==
  ASSUME NEW g \in Grids
  PROVE  \A a \in AnchorsOf(g) : a \in Anchors /\ a.t \in Nat
<1>1. ASSUME NEW i \in 1..Len(g.list) PROVE g.list[i] \in Anchors
  <2>1. g.list \in Seq(Anchors)
    BY DEF Grids
  <2> QED
    BY <2>1, ElementOfSeq
<1>2. \A a \in AnchorsOf(g) : a \in Anchors
  BY <1>1 DEF AnchorsOf, Grids
<1> QED
  BY <1>2 DEF Anchors

(* All checkpoints come before the next boundary.                          *)
LEMMA AnchorsBefore ==
  ASSUME NEW g, NEW at \in Nat, Whole(g, at)
  PROVE  \A a \in AnchorsOf(g) : a.t \in Nat /\ a.t < at
<1>1. g \in Grids /\ g.list \in Seq(Anchors) /\ Len(g.list) \in Nat
  BY DEF Whole, Grids
<1>2. \A a \in AnchorsOf(g) : a.t \in Nat
  BY <1>1, AnchorTimes
<1>3. CASE g.list = <<>>
  <2>1. AnchorsOf(g) = {}
    <3>1. Len(g.list) = 0
      BY <1>3
    <3> QED
      BY <1>3, <3>1 DEF Whole, AnchorsOf
  <2> QED
    BY <2>1
<1>4. CASE g.list # <<>>
  <2>1. Len(g.list) \in 1..Len(g.list)
    BY <1>1, <1>4, EmptySeq
  <2>2. PICK final : final = g.list[Len(g.list)]
    OBVIOUS
  <2>3. final \in AnchorsOf(g)
    BY <2>1, <2>2 DEF AnchorsOf
  <2>4. final.t \in Nat /\ final.t < at
    <3>1. final.t \in Nat /\ at = final.t + Minute
      BY <1>2, <1>4, <2>2, <2>3 DEF Whole
    <3> QED
      BY <3>1, Bounds
  <2>5. ASSUME NEW a \in AnchorsOf(g) PROVE a.t < at
    <3>1. a.t \in Nat
      BY <1>2
    <3>2. a.t <= final.t
      <4>1. CASE a \in g.evicted
        BY <1>2, <2>1, <2>2, <2>4, <3>1, <4>1 DEF Whole
      <4>2. CASE a \notin g.evicted
        <5>1. PICK i \in 1..Len(g.list) : a = g.list[i]
          BY <4>2 DEF AnchorsOf
        <5>2. CASE i = Len(g.list)
          BY <2>2, <2>4, <5>1, <5>2
        <5>3. CASE i < Len(g.list)
          BY <2>1, <2>2, <2>4, <3>1, <5>1, <5>3 DEF Whole, Spaced
        <5> QED
          BY <1>1, <5>2, <5>3
      <4> QED
        BY <4>1, <4>2
    <3> QED
      BY <2>4, <3>1, <3>2
  <2> QED
    BY <1>2, <2>5
<1> QED
  BY <1>3, <1>4

(* The grid advances to t with the bitmap of the posts ns, which are the   *)
(* ones that its new checkpoints are to show.                              *)
LEMMA AdvanceGood ==
  ASSUME NEW ps, NEW moment \in Nat, Ordered(ps, moment), NEW ns \in SUBSET (1..Len(ps)), NEW from \in Nat,
         NEW t \in 0..moment, from <= moment + Minute, \A i \in ns : ps[i].t < from,
         NEW sk, NEW sk2, sk \subseteq sk2, \A x \in sk2 : x \in sk \/ x[1] >= from,
         \A k \in 0..t : from + k * Minute <= t => Had(ps, sk2, from + k * Minute) = ns,
         NEW g, Whole(g, from), \A a \in AnchorsOf(g) : Holds(a, ps, sk, moment), NEW saved \in BOOLEAN
  PROVE  LET h == Advance(g, from, t, Fold(ps, Blank, ns), saved)
         IN  Good(h, ps, sk2, moment, ns) /\ t < h.next
<1> DEFINE b == Fold(ps, Blank, ns)
<1>1. PICK h : h = Advance(g, from, t, b, saved)
  OBVIOUS
<1>2. b \in Bitmaps
  <2>1. ps \in Seq(Posts)
    BY DEF Ordered
  <2> QED
    BY <2>1, FoldType, BlankType
<1>3. t \in Nat
  OBVIOUS
<1>4. /\ Whole(h, h.next)
      /\ t < h.next /\ (h.next = from \/ h.next <= t + Minute) /\ from <= h.next
      /\ h.list = <<>> => h.next = from /\ g.list = <<>>
      /\ AnchorsOf(h) \subseteq AnchorsOf(g) \cup New(from, t, b)
  <2> HIDE DEF b
  <2> QED
    BY <1>1, <1>2, <1>3, AdvanceKeeps
<1>5. ASSUME NEW a \in New(from, t, b) PROVE Holds(a, ps, sk2, moment)
  <2>1. PICK k \in 0..t : from + k * Minute <= t /\ a = Anchor(from + k * Minute, b)
    BY DEF New
  <2>2. Had(ps, sk2, from + k * Minute) = ns
    BY <2>1
  <2>3. a.t = from + k * Minute /\ a.bmp = b
    BY <2>1 DEF Anchor
  <2>4. a.t <= moment
    <3>1. a.t \in Int
      BY <2>3, Bounds
    <3> QED
      BY <2>1, <2>3, <3>1
  <2> QED
    BY <2>2, <2>3, <2>4 DEF Holds
<1>6. \A a \in AnchorsOf(g) : Holds(a, ps, sk2, moment)
  BY HoldsStill, AnchorsBefore
<1> HIDE DEF b
<1>7. \A a \in AnchorsOf(h) : Holds(a, ps, sk2, moment)
  BY <1>4, <1>5, <1>6
<1>8. h.next \in Nat
  BY <1>4 DEF Whole, Grids
<1>9. h.next <= moment + Minute /\ h.next # 0
  BY <1>3, <1>4, <1>8, Bounds
<1>10. \A i \in ns : ps[i].t < h.next
  <2> SUFFICES ASSUME NEW i \in ns PROVE ps[i].t < h.next
    OBVIOUS
  <2>1. ps[i].t \in Nat
    <3>1. ps \in Seq(Posts) /\ i \in 1..Len(ps)
      BY DEF Ordered
    <3>2. ps[i] \in Posts
      BY <3>1, ElementOfSeq
    <3> QED
      BY <3>2 DEF Posts, Times
  <2> QED
    BY <1>4, <1>8, <2>1
<1>11. Good(h, ps, sk2, moment, ns)
  BY <1>4, <1>7, <1>9, <1>10 DEF Good
<1> QED
  BY <1>1, <1>4, <1>11 DEF b

(* syncTo.                                                                 *)
LEMMA SyncGood ==
  ASSUME NEW ps, NEW moment \in Nat, Ordered(ps, moment), NEW ns, NEW t \in 0..moment,
         NEW g, NEW sk, Good(g, ps, sk, moment, ns), NEW sk2, sk \subseteq sk2,
         \A x \in sk2 : x \in sk \/ x[1] >= FirstBoundary(g, t),
         \A k \in 0..t : FirstBoundary(g, t) + k * Minute <= t => Had(ps, sk2, FirstBoundary(g, t) + k * Minute) = ns,
         NEW saved \in BOOLEAN
  PROVE  LET h == SyncTo(g, t, Fold(ps, Blank, ns), saved)
         IN  Good(h, ps, sk2, moment, ns) /\ t < h.next
<1>1. g \in Grids /\ t \in Nat /\ g.next \in Nat /\ ns \in SUBSET (1..Len(ps))
  BY DEF Good, Whole, Grids
<1>2. PICK from : from = FirstBoundary(g, t)
  OBVIOUS
<1>3. from \in Nat /\ (g.next = 0 => from <= t) /\ (g.next # 0 => from = g.next)
  BY <1>1, <1>2, FirstIs
<1>4. Whole(g, from)
  <2>1. CASE g.next = 0
    BY <2>1, WholeEmpty DEF Good
  <2>2. CASE g.next # 0
    BY <1>3, <2>2 DEF Good
  <2> QED
    BY <2>1, <2>2
<1>5. from <= moment + Minute
  BY <1>1, <1>3, Bounds DEF Good
<1>6. \A i \in ns : ps[i].t < from
  <2> SUFFICES ASSUME NEW i \in ns PROVE ps[i].t < from
    OBVIOUS
  <2>1. ps \in Seq(Posts) /\ i \in 1..Len(ps)
    BY <1>1 DEF Ordered
  <2>2. ps[i] \in Posts
    BY <2>1, ElementOfSeq
  <2>3. ps[i].t \in Nat
    BY <2>2 DEF Posts, Times
  <2>4. ps[i].t < g.next
    BY DEF Good
  <2> QED
    BY <1>1, <1>3, <2>3, <2>4
<1>7. \A a \in AnchorsOf(g) : Holds(a, ps, sk, moment)
  BY DEF Good
<1>8. /\ \A x \in sk2 : x \in sk \/ x[1] >= from
      /\ \A k \in 0..t : from + k * Minute <= t => Had(ps, sk2, from + k * Minute) = ns
  BY <1>2
<1>9. LET h == Advance(g, from, t, Fold(ps, Blank, ns), saved) IN Good(h, ps, sk2, moment, ns) /\ t < h.next
  BY <1>1, <1>3, <1>4, <1>5, <1>6, <1>7, <1>8, AdvanceGood
<1> QED
  BY <1>2, <1>9 DEF SyncTo

(* One more post at the end, at the moment, disturbs nothing.              *)
LEMMA HoldsLonger ==
  ASSUME NEW ps \in Seq(Posts), NEW p \in Posts, NEW moment \in Nat, p.t = moment, NEW a, a.t \in Nat, NEW sk,
         Holds(a, ps, sk, moment)
  PROVE  Holds(a, Append(ps, p), sk, moment)
<1>1. PICK qs : qs = Append(ps, p)
  OBVIOUS
<1>2. /\ Len(qs) = Len(ps) + 1 /\ Len(ps) \in Nat /\ qs[Len(ps) + 1] = p
      /\ \A i \in 1..Len(ps) : qs[i] = ps[i]
  BY <1>1, AppendProperties
<1>3. ~(p.t < a.t)
  BY DEF Holds
<1>4. \A i \in 1..Len(qs) : i \in 1..Len(ps) \/ i = Len(ps) + 1
  BY <1>2
<1>5. Had(qs, sk, a.t) = Had(ps, sk, a.t)
  <2>1. \A i \in Had(qs, sk, a.t) : i \in Had(ps, sk, a.t)
    BY <1>2, <1>3, <1>4 DEF Had
  <2>2. \A i \in Had(ps, sk, a.t) : i \in Had(qs, sk, a.t)
    BY <1>2 DEF Had
  <2> QED
    BY <2>1, <2>2
<1>6. Fold(qs, Blank, Had(ps, sk, a.t)) = Fold(ps, Blank, Had(ps, sk, a.t))
  BY <1>1, HadSome, Longer
<1> QED
  BY <1>1, <1>5, <1>6 DEF Holds

LEMMA GoodLonger ==
  ASSUME NEW ps \in Seq(Posts), NEW p \in Posts, NEW moment \in Nat, p.t = moment,
         NEW g, NEW sk, NEW ns, Good(g, ps, sk, moment, ns)
  PROVE  Good(g, Append(ps, p), sk, moment, ns)
<1>1. g \in Grids
  BY DEF Good, Whole
<1>2. \A a \in AnchorsOf(g) : Holds(a, Append(ps, p), sk, moment)
  BY <1>1, AnchorTimes, HoldsLonger DEF Good
<1>3. /\ Len(Append(ps, p)) = Len(ps) + 1 /\ Len(ps) \in Nat
      /\ \A n \in 1..Len(ps) : Append(ps, p)[n] = ps[n]
  BY AppendProperties
<1>4. ns \in SUBSET (1..Len(Append(ps, p))) /\ \A i \in ns : Append(ps, p)[i].t < g.next
  BY <1>3 DEF Good
<1> QED
  BY <1>2, <1>4 DEF Good

LEMMA SkewsLonger ==
  ASSUME NEW ps \in Seq(Posts), NEW p \in Posts, NEW sk, NEW next, Skews(ps, sk, next)
  PROVE  Skews(Append(ps, p), sk, next)
<1>1. /\ Len(Append(ps, p)) = Len(ps) + 1 /\ Len(ps) \in Nat
      /\ \A n \in 1..Len(ps) : Append(ps, p)[n] = ps[n]
  BY AppendProperties
<1>2. ASSUME NEW x \in sk
      PROVE  /\ x \in Times \X (1..Len(Append(ps, p)))
             /\ Append(ps, p)[x[2]].t < x[1] /\ x[1] < next
  <2>1. x \in Times \X (1..Len(ps)) /\ ps[x[2]].t < x[1] /\ x[1] < next
    BY DEF Skews
  <2>2. x[2] \in 1..Len(ps)
    BY <2>1
  <2> QED
    BY <1>1, <2>1, <2>2
<1> QED
  BY <1>2 DEF Skews

LEMMA EmptyGrid ==
  /\ NewGrid \in Grids /\ NewGrid.next = 0 /\ NewGrid.list = <<>> /\ AnchorsOf(NewGrid) = {}
  /\ Whole(NewGrid, 0)
<1>1. <<>> \in Seq(Anchors) /\ Len(<<>>) = 0
  OBVIOUS
<1>2. NewGrid \in Grids /\ NewGrid.next = 0 /\ NewGrid.list = <<>> /\ NewGrid.pool = {} /\ NewGrid.evicted = {}
  BY <1>1 DEF NewGrid, Grids
<1>3. ToSetOfBitmaps(<<>>) = {}
  BY <1>1 DEF ToSetOfBitmaps
<1>4. Cardinality({}) = 0
  BY FS_EmptySet
<1>5. Whole(NewGrid, 0)
  BY <1>1, <1>2, <1>3, <1>4, Bounds DEF Whole, Spaced
<1>6. AnchorsOf(NewGrid) = {}
  BY <1>1, <1>2 DEF AnchorsOf
<1> QED
  BY <1>2, <1>5, <1>6

LEMMA NewGood ==
  ASSUME NEW ps, NEW sk, NEW moment \in Nat
  PROVE  Good(NewGrid, ps, sk, moment, {})
  BY EmptyGrid, Bounds DEF Good

LEMMA SyncType ==
  ASSUME NEW g \in Grids, NEW t \in Nat, NEW b \in Bitmaps, NEW saved \in BOOLEAN
  PROVE  SyncTo(g, t, b, saved) \in Grids
<1>1. FirstBoundary(g, t) \in Nat
  BY FirstIs
<1> QED
  BY <1>1, AdvanceType DEF SyncTo

LEMMA PostTimes ==
  ASSUME NEW ps \in Seq(Posts), NEW n \in 1..Len(ps)
  PROVE  ps[n] \in Posts /\ ps[n].t \in Times /\ ps[n].t \in Nat /\ ps[n].cell \in Cells /\ ps[n].color \in Colors
<1>1. ps[n] \in Posts
  BY ElementOfSeq
<1> QED
  BY <1>1 DEF Posts, Times

(* The replay of the warm-up, as a sequence of grids.                      *)
IsReplay(f, saved) ==
    /\ f \in [0..Len(posts) -> Grids]
    /\ f[0] = NewGrid /\ f[Len(posts)] = Replayed(saved)
    /\ \A n \in 1..Len(posts) : f[n] = SyncTo(f[n - 1], posts[n].t, Fold(posts, Blank, 1..(n - 1)), saved)

LEMMA ReplayLoop ==
  ASSUME posts \in Seq(Posts), NEW saved \in BOOLEAN
  PROVE  \E f : IsReplay(f, saved)
<1> DEFINE N == Len(posts)
           Step == [x \in Grids \X (1..N) |-> SyncTo(x[1], posts[x[2]].t, Fold(posts, Blank, 1..(x[2] - 1)), saved)]
           Unfolded(f) == [n \in 0..N |->
                          IF n = 0 THEN NewGrid
                          ELSE SyncTo(f[n - 1], posts[n].t, Painted(Blank, 1..(n - 1)), saved)]
           F == CHOOSE f : f = Unfolded(f)
<1>0. N \in Nat
  OBVIOUS
<1>1. \A n \in 1..N : posts[n].t \in Nat /\ Fold(posts, Blank, 1..(n - 1)) \in Bitmaps
  <2> SUFFICES ASSUME NEW n \in 1..N PROVE posts[n].t \in Nat /\ Fold(posts, Blank, 1..(n - 1)) \in Bitmaps
    OBVIOUS
  <2>1. 1..(n - 1) \in SUBSET (1..N)
    BY <1>0
  <2> QED
    BY <2>1, PostTimes, FoldType, BlankType
<1>2. Step \in [Grids \X (1..N) -> Grids]
  <2>1. ASSUME NEW x \in Grids \X (1..N) PROVE SyncTo(x[1], posts[x[2]].t, Fold(posts, Blank, 1..(x[2] - 1)), saved) \in Grids
    BY <1>1, SyncType
  <2> QED
    BY <2>1
<1>3. PICK G \in [Grids \X (1..N) -> Grids] :
        \A h \in Grids, n \in 1..N : G[<<h, n>>] = SyncTo(h, posts[n].t, Fold(posts, Blank, 1..(n - 1)), saved)
  <2>1. \A h \in Grids, n \in 1..N : Step[<<h, n>>] = SyncTo(h, posts[n].t, Fold(posts, Blank, 1..(n - 1)), saved)
    OBVIOUS
  <2> HIDE DEF Step
  <2> QED
    BY <1>2, <2>1
<1>4. PICK f : f \in [0..N -> Grids] /\ f[0] = NewGrid /\ \A n \in 1..N : f[n] = G[<<f[n - 1], n>>]
  <2> HIDE DEF Unfolded, F, Step
  <2>1. \E f : IsLoop(f, Grids, NewGrid, N, G)
    <3> HIDE DEF N
    <3> QED
      BY <1>0, EmptyGrid, Recursion
  <2> QED
    BY <2>1 DEF IsLoop
<1>5. \A n \in 1..N : f[n] = SyncTo(f[n - 1], posts[n].t, Fold(posts, Blank, 1..(n - 1)), saved)
  <2>1. \A n \in 1..N : f[n - 1] \in Grids
    BY SMTT(40), <1>4
  <2> HIDE DEF N
  <2> QED
    BY <1>3, <1>4, <2>1
<1>6. f = Unfolded(f)
  <2>1. \A n \in 1..N : f[n] = SyncTo(f[n - 1], posts[n].t, Painted(Blank, 1..(n - 1)), saved)
    BY <1>5, PaintedIs
  <2>2. \A n \in 0..N : n = 0 \/ n \in 1..N
    OBVIOUS
  <2>3. \A n \in 0..N : f[n] = IF n = 0 THEN NewGrid ELSE SyncTo(f[n - 1], posts[n].t, Painted(Blank, 1..(n - 1)), saved)
    BY <1>4, <2>1, <2>2
  <2> QED
    BY <1>4, <2>3
<1>7. F = Unfolded(F)
  <2> HIDE DEF Unfolded
  <2> QED
    BY <1>6
<1>8. Replayed(saved) = F[N]
  BY DEF Replayed
<1> HIDE DEF F
<1> DEFINE T == {n \in 0..N : F[n] = f[n]}
<1>9. \A n \in 0..N : n \in T
  <2>1. 0 \in T
    <3>1. 0 \in 0..N
      OBVIOUS
    <3>2. F[0] = NewGrid
      BY <1>7, <3>1
    <3> QED
      BY <1>4, <3>1, <3>2
  <2>2. ASSUME NEW n \in 1..N, n - 1 \in T PROVE n \in T
    <3>1. n \in 0..N /\ F[n - 1] = f[n - 1] /\ n # 0
      BY <2>2
    <3>2. F[n] = SyncTo(F[n - 1], posts[n].t, Painted(Blank, 1..(n - 1)), saved)
      BY <1>7, <3>1
    <3>3. f[n] = SyncTo(f[n - 1], posts[n].t, Painted(Blank, 1..(n - 1)), saved)
      BY <1>6, <3>1
    <3> QED
      BY <3>1, <3>2, <3>3
  <2> HIDE DEF T, N
  <2> QED
    BY <1>0, <2>1, <2>2, Induction
<1>10. f[N] = F[N]
  BY <1>0, <1>9
<1> QED
  BY <1>4, <1>5, <1>8, <1>10 DEF IsReplay

(* The warm-up's grid holds, and its checkpoints lack no post.             *)
LEMMA ReplayGood ==
  ASSUME NEW moment \in Nat, Ordered(posts, moment), NEW saved \in BOOLEAN
  PROVE  Good(Replayed(saved), posts, {}, moment, 1..Len(posts))
<1> DEFINE N == Len(posts)
<1>0. posts \in Seq(Posts) /\ N \in Nat
  BY DEF Ordered
<1>1. PICK f : IsReplay(f, saved)
  BY <1>0, ReplayLoop
<1>2. /\ f \in [0..N -> Grids] /\ f[0] = NewGrid /\ f[N] = Replayed(saved)
      /\ \A n \in 1..N : f[n] = SyncTo(f[n - 1], posts[n].t, Fold(posts, Blank, 1..(n - 1)), saved)
  BY <1>1 DEF IsReplay
<1> HIDE DEF N
<1> DEFINE T == {n \in 0..N : Good(f[n], posts, {}, moment, 1..n)}
<1>3. 0 \in T
  <2>1. 1..0 = {}
    OBVIOUS
  <2> QED
    BY <1>0, <1>2, <2>1, NewGood
<1>4. ASSUME NEW n \in 1..N, n - 1 \in T PROVE n \in T
  <2>1. PICK g, ns : g = f[n - 1] /\ ns = 1..(n - 1)
    OBVIOUS
  <2>2. Good(g, posts, {}, moment, ns) /\ ns \in SUBSET (1..Len(posts))
    BY <1>0, <1>4, <2>1 DEF N
  <2>3. PICK t : t = posts[n].t
    OBVIOUS
  <2>4. t \in 0..moment
    BY <1>0, <2>3, PostTimes DEF N, Ordered
  <2>5. ASSUME NEW k \in 0..t, FirstBoundary(g, t) + k * Minute <= t
        PROVE  Had(posts, {}, FirstBoundary(g, t) + k * Minute) = ns
    <3>1. PICK at : at = FirstBoundary(g, t) + k * Minute
      OBVIOUS
    <3>2. at \in Nat /\ at <= t /\ FirstBoundary(g, t) <= at /\ g.next <= FirstBoundary(g, t)
      <4>1. g \in Grids /\ t \in Nat /\ g.next \in Nat /\ k \in Nat
        BY <2>2, <2>4 DEF Good, Whole, Grids
      <4>2. FirstBoundary(g, t) \in Nat /\ (g.next # 0 => FirstBoundary(g, t) = g.next)
        BY <4>1, FirstIs
      <4>3. at \in Nat /\ at <= t /\ FirstBoundary(g, t) <= at
        BY <2>5, <3>1, <4>1, <4>2, Bounds
      <4> QED
        BY <4>1, <4>2, <4>3
    <3>3. ASSUME NEW i \in ns PROVE posts[i].t < at
      <4>1. posts[i].t < g.next /\ posts[i].t \in Nat
        BY <1>0, <2>2, PostTimes DEF Good
      <4>2. g.next \in Nat /\ FirstBoundary(g, t) \in Nat
        <5>1. g \in Grids /\ t \in Nat
          BY <2>2, <2>4 DEF Good, Whole
        <5> QED
          BY <5>1, FirstIs DEF Grids
      <4> QED
        BY SMTT(40), <3>2, <4>1, <4>2
    <3>4. ASSUME NEW i \in 1..Len(posts), i \notin ns PROVE ~(posts[i].t < at)
      <4>1. n \in 1..Len(posts) /\ (i = n \/ n < i)
        BY <1>0, <2>1, <3>4 DEF N
      <4>2. posts[i].t \in Nat /\ posts[n].t \in Nat
        BY <1>0, <4>1, PostTimes
      <4>3. posts[n].t <= posts[i].t
        BY <4>1, <4>2 DEF Ordered
      <4> QED
        BY SMTT(40), <2>3, <2>4, <3>2, <4>2, <4>3
    <3> QED
      BY <2>2, <3>1, <3>3, <3>4 DEF Had
  <2>6. LET h == SyncTo(g, t, Fold(posts, Blank, ns), saved) IN Good(h, posts, {}, moment, ns) /\ t < h.next
    <3>1. PICK sk : sk = {}
      OBVIOUS
    <3>2. sk \subseteq sk /\ \A x \in sk : x \in sk \/ x[1] >= FirstBoundary(g, t)
      OBVIOUS
    <3>3. /\ Good(g, posts, sk, moment, ns)
          /\ \A k \in 0..t : FirstBoundary(g, t) + k * Minute <= t => Had(posts, sk, FirstBoundary(g, t) + k * Minute) = ns
      BY <2>2, <2>5, <3>1
    <3>4. LET h == SyncTo(g, t, Fold(posts, Blank, ns), saved) IN Good(h, posts, sk, moment, ns) /\ t < h.next
      BY <2>4, <3>2, <3>3, SyncGood
    <3> QED
      BY <3>1, <3>4
  <2>7. f[n] = SyncTo(g, t, Fold(posts, Blank, ns), saved)
    BY <1>2, <2>1, <2>3
  <2>8. Good(f[n], posts, {}, moment, ns) /\ posts[n].t < f[n].next
    BY <2>3, <2>6, <2>7
  <2>9. ns \cup {n} = 1..n /\ 1..n \in SUBSET (1..Len(posts))
    BY <1>0, <2>1 DEF N
  <2>10. Good(f[n], posts, {}, moment, 1..n)
    BY <2>8, <2>9 DEF Good
  <2> QED
    BY <2>10
<1>5. N \in T
  <2> HIDE DEF T
  <2>1. \A n \in 0..N : n \in T
    BY <1>0, <1>3, <1>4, Induction
  <2> QED
    BY <1>0, <2>1
<1> QED
  BY <1>2, <1>5 DEF N

(***************************************************************************)
(* Frames.                                                                 *)
(***************************************************************************)
(* The newest of some checkpoints is one of them.                          *)
LEMMA NewestIs ==
  ASSUME NEW S, S # {}, NEW t \in Nat, \A a \in S : a.t \in 0..t
  PROVE  Newest(S) \in S
<1> DEFINE T == {a.t : a \in S}
<1>1. T \in SUBSET (0..t) /\ T # {}
  OBVIOUS
<1>2. \E x \in T : \A y \in T : y <= x
  <2> HIDE DEF T
  <2> QED
    BY <1>1, Greatest
<1>3. \E a \in S : \A o \in S : o.t <= a.t
  BY <1>2
<1> QED
  BY <1>3 DEF Newest

(* The checkpoint a frame starts from is not after it, and holds.          *)
LEMMA BaseHolds ==
  ASSUME NEW ps, NEW sk, NEW moment \in Nat, Ordered(ps, moment), NEW ns, Good(ag, ps, sk, moment, ns), NEW t \in Nat
  PROVE  /\ Base(t).t <= t /\ Base(t) = Anchor(Base(t).t, Base(t).bmp)
         /\ Base(t).t \in Nat /\ Base(t).t <= moment /\ Base(t).bmp \in Bitmaps
         /\ Holds(Base(t), ps, sk, moment) /\ (Base(t).t = 0 \/ Base(t).t < ag.next)
<1> DEFINE ram == {ag.list[i] : i \in UpTo(ag.list, t)}
           old == {a \in ag.evicted : a.t <= t}
           Right(a) == a \in Anchors /\ a.t <= t /\ Holds(a, ps, sk, moment) /\ (a.t = 0 \/ a.t < ag.next)
<1>1. ag \in Grids
  BY DEF Good, Whole
<1>2. ram \subseteq AnchorsOf(ag) /\ \A a \in ram : a.t <= t
  BY DEF UpTo, AnchorsOf
<1>3. old \subseteq AnchorsOf(ag) /\ \A a \in old : a.t <= t
  BY DEF AnchorsOf
<1>4. \A a \in AnchorsOf(ag) : a \in Anchors /\ a.t \in Nat /\ Holds(a, ps, sk, moment) /\ a.t < ag.next
  <2>1. ag.next \in Nat /\ Whole(ag, ag.next)
    BY <1>1 DEF Good, Grids
  <2> QED
    BY <1>1, <2>1, AnchorTimes, AnchorsBefore DEF Good
<1> HIDE DEF ram, old
<1>5. ram # {} => Right(Newest(ram))
  BY <1>2, <1>4, NewestIs
<1>6. old # {} => Right(Newest(old))
  BY <1>3, <1>4, NewestIs
<1>7. Right(Anchor(0, Blank))
  <2>1. PICK a : a = Anchor(0, Blank)
    OBVIOUS
  <2>2. a \in Anchors /\ a.t = 0 /\ a.bmp = Blank
    BY <2>1, AnAnchor, BlankType
  <2>3. ps \in Seq(Posts) /\ Len(ps) \in Nat
    BY DEF Ordered
  <2>4. Fold(ps, Blank, {}) = Blank
    BY FoldNothing, BlankType
  <2>5. Had(ps, sk, 0) = {}
    BY <2>3, PostTimes DEF Had
  <2>7. Holds(a, ps, sk, moment)
    BY <2>2, <2>4, <2>5 DEF Holds
  <2> QED
    BY <2>1, <2>2, <2>7
<1>8. Base(t) = CASE ram # {} /\ Newest(ram).bmp \in ag.pool -> Newest(ram)
                  [] old # {} -> Newest(old)
                  [] OTHER -> Anchor(0, Blank)
  BY DEF Base, ram, old
<1> HIDE DEF Right
<1>9. Right(Base(t))
  <2>1. CASE ram # {} /\ Newest(ram).bmp \in ag.pool /\ ~(old # {})
    BY <1>5, <1>8, <2>1
  <2>2. CASE ~(ram # {} /\ Newest(ram).bmp \in ag.pool) /\ old # {}
    BY <1>6, <1>8, <2>2
  <2>3. CASE ~(ram # {} /\ Newest(ram).bmp \in ag.pool) /\ ~(old # {})
    BY <1>7, <1>8, <2>3
  <2>4. CASE ram # {} /\ Newest(ram).bmp \in ag.pool /\ old # {}
    BY <1>5, <1>6, <1>8, <2>4
  <2> QED
    BY <2>1, <2>2, <2>3, <2>4
<1>10. /\ Base(t) \in Anchors /\ Base(t).t <= t /\ Holds(Base(t), ps, sk, moment)
       /\ (Base(t).t = 0 \/ Base(t).t < ag.next)
  BY <1>9 DEF Right
<1> QED
  BY <1>10 DEF Anchors, Anchor, Holds

(* The fold from a checkpoint that holds is the fold of all posts up to    *)
(* the frame but for those that it lacks, and it is never of a later one.  *)
Between(ps, from, t) == {k \in 1..Len(ps) : ps[k].t >= from /\ ps[k].t <= t}
Lacked(ps, sk, from) == {k \in 1..Len(ps) : <<from, k>> \in sk}
UntilThen(ps, t) == {k \in 1..Len(ps) : ps[k].t <= t}
OfThePast(ps, b, t) ==
    \A c \in Cells : \/ b[c] = Empty
                     \/ \E i \in 1..Len(ps) : ps[i].cell = c /\ ps[i].color = b[c] /\ ps[i].t <= t

LEMMA PastFold ==
  ASSUME NEW ps \in Seq(Posts), NEW t, NEW ns \in SUBSET (1..Len(ps)), \A i \in ns : ps[i].t <= t
  PROVE  OfThePast(ps, Fold(ps, Blank, ns), t)
<1>1. ASSUME NEW c \in Cells
      PROVE  \/ Fold(ps, Blank, ns)[c] = Empty
             \/ \E i \in ns : ps[i].cell = c /\ ps[i].color = Fold(ps, Blank, ns)[c]
  <2>1. \/ Fold(ps, Blank, ns)[c] = Blank[c]
        \/ \E i \in ns : ps[i].cell = c /\ ps[i].color = Fold(ps, Blank, ns)[c]
    BY FoldShows
  <2> QED
    BY <2>1, BlankType
<1> QED
  BY <1>1 DEF OfThePast

LEMMA FoldFrom ==
  ASSUME NEW ps, NEW moment, Ordered(ps, moment), NEW sk, NEW next, Skews(ps, sk, next),
         NEW t \in Nat, NEW a, a.t \in Nat, a.t <= t, Holds(a, ps, sk, moment)
  PROVE  /\ Fold(ps, a.bmp, Between(ps, a.t, t)) = Fold(ps, Blank, UntilThen(ps, t) \ Lacked(ps, sk, a.t))
         /\ OfThePast(ps, Fold(ps, a.bmp, Between(ps, a.t, t)), t)
<1> DEFINE E == Had(ps, sk, a.t)
           All == UntilThen(ps, t) \ Lacked(ps, sk, a.t)
           W == Between(ps, a.t, t)
<1>1. ps \in Seq(Posts) /\ Len(ps) \in Nat /\ \A k \in 1..Len(ps) : ps[k].t \in Nat
  BY PostTimes DEF Ordered
<1>2. W \in SUBSET (1..Len(ps)) /\ E \in SUBSET (1..Len(ps)) /\ All \in SUBSET (1..Len(ps))
  BY DEF Between, Had, UntilThen
<1>3. \A i \in 1..Len(ps) : i \in E <=> ps[i].t < a.t /\ <<a.t, i>> \notin sk
  BY DEF Had
<1>4. \A i \in 1..Len(ps) : i \in W <=> ps[i].t >= a.t /\ ps[i].t <= t
  BY DEF Between
<1>5. \A i \in 1..Len(ps) : i \in All <=> ps[i].t <= t /\ <<a.t, i>> \notin sk
  BY DEF UntilThen, Lacked
<1>6. ASSUME NEW i \in 1..Len(ps), <<a.t, i>> \in sk PROVE ps[i].t < a.t
  <2>1. PICK x \in sk : x = <<a.t, i>>
    BY <1>6
  <2>2. ps[x[2]].t < x[1] /\ x[1] = a.t /\ x[2] = i
    BY <2>1 DEF Skews
  <2> QED
    BY <2>2
<1> HIDE DEF E, All, W
<1>7. ASSUME NEW i \in 1..Len(ps) PROVE i \in All <=> i \in E \/ i \in W
  <2>1. PICK x \in Nat, y \in Nat : x = ps[i].t /\ y = a.t
    BY <1>1
  <2>2. x < y \/ x >= y
    OBVIOUS
  <2>3. x < y => x <= t /\ ~(x >= y)
    BY <2>1
  <2>4. x >= y => <<y, i>> \notin sk
    BY <1>6, <2>1
  <2>5. /\ i \in E <=> x < y /\ <<y, i>> \notin sk
        /\ i \in W <=> x >= y /\ x <= t
        /\ i \in All <=> x <= t /\ <<y, i>> \notin sk
    BY <1>3, <1>4, <1>5, <2>1
  <2> QED
    BY <2>2, <2>3, <2>4, <2>5
<1>8. E \cup W = All
  BY <1>2, <1>7
<1>9. ASSUME NEW i \in E, NEW k \in W PROVE i < k
  <2>1. i \in 1..Len(ps) /\ k \in 1..Len(ps)
    BY <1>2
  <2>2. ps[i].t < ps[k].t
    <3>1. ps[i].t < a.t /\ ps[k].t >= a.t
      BY <1>3, <1>4, <2>1
    <3>2. ps[i].t \in Nat /\ ps[k].t \in Nat
      BY <1>1, <2>1
    <3> QED
      BY <3>1, <3>2
  <2>3. ~(k < i) /\ k # i
    BY <1>1, <2>1, <2>2 DEF Ordered
  <2> QED
    BY <2>1, <2>3
<1>10. Fold(ps, Fold(ps, Blank, E), W) = Fold(ps, Blank, All)
  BY <1>1, <1>2, <1>8, <1>9, BlankType, Joined
<1>11. a.bmp = Fold(ps, Blank, E)
  BY DEF Holds, E
<1>12. OfThePast(ps, Fold(ps, Blank, All), t)
  BY <1>1, <1>2, <1>5, PastFold
<1> QED
  BY <1>10, <1>11, <1>12 DEF All, W

(***************************************************************************)
(* The invariant.                                                          *)
(***************************************************************************)
Scalars ==
    /\ role \in Roles
    /\ now \in Times
    /\ phase \in {"warming", "folded", "serving"}
    /\ applied \in 0..Len(posts) /\ confirming \in 0..Len(posts)
    /\ lastPaint \in Times
    /\ restarts \in 0..MaxRestarts
    /\ Len(posts) <= MaxPosts

(* What a Confirm passes is at or below the watermark, and never the post  *)
(* of the Confirm under way, which is the last one.                        *)
Overtaken ==
    /\ skipped \in SUBSET (1..applied)
    /\ phase = "warming" => applied = 0 /\ skewed = {} /\ frame = NoFrame
    /\ confirming # 0 => role = "writer" /\ phase = "serving" /\ confirming = Len(posts) /\ confirming \notin skipped

(* The bitmap is the fold of what has been applied, and also of those that *)
(* are not after the newest paint: a post left out of it showed nothing.   *)
BitmapHolds(ps, ns, b, latest) ==
    /\ b = Fold(ps, Blank, ns)
    /\ b = Fold(ps, Blank, {i \in ns : ps[i].t <= latest})

FrameHolds(f, ps, sk, moment, next) ==
    f = NoFrame \/ (/\ f \in [t : Times, base : Times, start : Bitmaps]
                    /\ f.base <= f.t
                    /\ Holds(Anchor(f.base, f.start), ps, sk, moment)
                    /\ f.base = 0 \/ f.base < next)

ReplyHolds ==
    \/ reply = NoReply
    \/ reply.kind \in {"tooBroad", "error"}
    \/ reply.kind = "frame" /\ FramesAreTrue

HistoryIInv ==
    /\ Scalars /\ Overtaken
    /\ Ordered(posts, now)
    /\ Good(ag, posts, skewed, now, InBitmap)
    /\ Skews(posts, skewed, ag.next)
    /\ BitmapHolds(posts, InBitmap, bmp, lastPaint)
    /\ FrameHolds(frame, posts, skewed, now, ag.next)
    /\ ReplyHolds

LEMMA SkewedTyped ==
  ASSUME NEW ps, NEW sk, NEW next, Skews(ps, sk, next)
  PROVE  sk \subseteq Times \X (1..Len(ps))
  BY DEF Skews

LEMMA GridTyped ==
  ASSUME HistoryIInv
  PROVE  HistoryTypeOK /\ GridIsWhole
<1>1. Whole(ag, ag.next) /\ ag \in Grids /\ ag.list \in Seq(Anchors) /\ Len(ag.list) \in Nat
  BY DEF HistoryIInv, Good, Whole, Grids
<1>2. now \in Nat /\ now <= MaxTime
  BY Bounds DEF HistoryIInv, Scalars, Times
<1>3. \A a \in AnchorsOf(ag) : a \in [t : Times, bmp : Bitmaps]
  <2> SUFFICES ASSUME NEW a \in AnchorsOf(ag) PROVE a \in [t : Times, bmp : Bitmaps]
    OBVIOUS
  <2>1. a \in Anchors /\ a.t \in Nat
    BY <1>1, AnchorTimes
  <2>2. a.t <= now
    BY DEF HistoryIInv, Good, Holds
  <2>3. a.t \in Times
    BY <1>2, <2>1, <2>2, Bounds DEF Times
  <2> QED
    BY <2>1, <2>3 DEF Anchors
<1>4. /\ \A i \in 1..Len(ag.list) : ag.list[i] \in [t : Times, bmp : Bitmaps]
      /\ ag.evicted \subseteq [t : Times, bmp : Bitmaps]
  BY <1>3 DEF AnchorsOf
<1>5. ag.next \in 0..(MaxTime + Minute)
  <2>1. ag.next \in Nat /\ ag.next <= now + Minute
    BY <1>1 DEF Grids, HistoryIInv, Good
  <2> QED
    BY <1>2, <2>1, Bounds
<1>6. ag.pool \subseteq Bitmaps
  BY <1>1 DEF Grids
<1>7. bmp \in Bitmaps
  <2>1. posts \in Seq(Posts) /\ bmp = Fold(posts, Blank, InBitmap)
    BY DEF HistoryIInv, BitmapHolds, Ordered
  <2>2. InBitmap \in SUBSET (1..Len(posts))
    BY DEF HistoryIInv, Good
  <2> QED
    BY <2>1, <2>2, FoldType, BlankType
<1>8. posts \in Seq([t : Times, cell : Cells, color : Colors])
  BY DEF HistoryIInv, Ordered, Posts
<1>9. frame = NoFrame \/ frame \in [t : Times, base : Times, start : Bitmaps]
  BY DEF HistoryIInv, FrameHolds
<1>10. reply.kind \in {"none", "frame", "tooBroad", "error"}
  BY DEF HistoryIInv, ReplyHolds, NoReply
<1>13. skipped \subseteq 1..Len(posts)
  BY DEF HistoryIInv, Overtaken, Scalars
<1>14. skewed \subseteq Times \X (1..Len(posts))
  BY SkewedTyped DEF HistoryIInv
<1>11. HistoryTypeOK
  BY <1>4, <1>5, <1>6, <1>7, <1>8, <1>9, <1>10, <1>13, <1>14 DEF HistoryTypeOK, HistoryIInv, Scalars
<1>12. GridIsWhole
  <2>1. \A a \in ag.evicted : a.t < ag.list[1].t
    <3> SUFFICES ASSUME NEW a \in ag.evicted PROVE a.t < ag.list[1].t
      OBVIOUS
    <3>1. ag.list # <<>>
      BY <1>1 DEF Whole
    <3>2. 1 \in 1..Len(ag.list)
      BY <1>1, <3>1, EmptySeq
    <3> QED
      BY <1>1, <3>2 DEF Whole
  <2> QED
    BY <1>1, <2>1 DEF Whole, Spaced, GridIsWhole
<1> QED
  BY <1>11, <1>12

LEMMA Replies ==
  ASSUME ReplyHolds PROVE FramesAreTrue
  BY DEF ReplyHolds, FramesAreTrue, FrameIsFold, NothingFromLater, NoReply

LEMMA HistoryStarts == HistoryInit => HistoryIInv
<1> SUFFICES ASSUME HistoryInit PROVE HistoryIInv
  OBVIOUS
<1> USE DEF HistoryInit
<1>1. posts \in Seq(Posts) /\ Len(posts) = 0
  OBVIOUS
<1>2. Ordered(posts, now)
  BY <1>1 DEF Ordered
<1>0. InBitmap = {} /\ 1..applied = {}
  BY DEF InBitmap
<1>3. Good(ag, posts, skewed, now, InBitmap) /\ Skews(posts, skewed, ag.next)
  <2>1. Good(NewGrid, posts, skewed, now, {})
    BY NewGood, Bounds
  <2> QED
    BY <1>0, <2>1 DEF Skews
<1>4. BitmapHolds(posts, InBitmap, bmp, lastPaint)
  <2>1. Fold(posts, Blank, {}) = Blank
    BY FoldNothing, BlankType
  <2> QED
    BY <1>0, <2>1 DEF BitmapHolds
<1>5. FrameHolds(frame, posts, skewed, now, ag.next)
  BY DEF FrameHolds
<1>6. ReplyHolds
  BY DEF ReplyHolds
<1>7. Scalars /\ Overtaken
  BY <1>1, Bounds DEF Scalars, Overtaken, Times
<1> QED
  BY <1>2, <1>3, <1>4, <1>5, <1>6, <1>7 DEF HistoryIInv

(***************************************************************************)
(* The steps.                                                              *)
(***************************************************************************)
(* Time passing, and answers, leave alone what the ledger's fold is about. *)
LEMMA TickKeeps == HistoryIInv /\ reply = NoReply /\ Tick => HistoryIInv'
<1> SUFFICES ASSUME HistoryIInv, reply = NoReply, Tick PROVE HistoryIInv'
  OBVIOUS
<1>1. now \in Nat /\ now < MaxTime /\ now' = now + 1
  BY DEF HistoryIInv, Scalars, Times, Tick
<1>2. Scalars' /\ Overtaken' /\ InBitmap' = InBitmap /\ UNCHANGED <<posts, skewed, ag, frame, bmp, lastPaint>>
  BY <1>1, Bounds DEF HistoryIInv, Scalars, Overtaken, InBitmap, Times, Tick, canvas
<1>3. Ordered(posts', now')
  <2>1. \A i \in 1..Len(posts) : posts[i].t \in Nat
    BY PostTimes DEF HistoryIInv, Ordered
  <2> QED
    BY <1>1, <2>1 DEF HistoryIInv, Ordered, Tick
<1>4. ASSUME NEW a, a.t \in Nat, Holds(a, posts, skewed, now) PROVE Holds(a, posts, skewed, now')
  BY <1>1, <1>4 DEF Holds
<1>5. Good(ag', posts', skewed', now', InBitmap')
  <2>1. \A a \in AnchorsOf(ag) : a.t \in Nat
    BY AnchorTimes DEF HistoryIInv, Good, Whole
  <2>2. \A a \in AnchorsOf(ag) : Holds(a, posts, skewed, now')
    BY <1>4, <2>1 DEF HistoryIInv, Good
  <2>3. ag.next <= now' + Minute
    <3>1. ag.next \in Nat /\ ag.next <= now + Minute
      BY DEF HistoryIInv, Good, Whole, Grids
    <3> QED
      BY <1>1, <3>1, Bounds
  <2> QED
    BY <1>2, <2>2, <2>3 DEF HistoryIInv, Good
<1>6. BitmapHolds(posts', InBitmap', bmp', lastPaint') /\ Skews(posts', skewed', ag'.next)
  BY <1>2 DEF HistoryIInv
<1>7. FrameHolds(frame', posts', skewed', now', ag'.next)
  <2>1. CASE frame = NoFrame
    BY <1>2, <2>1 DEF FrameHolds
  <2>2. CASE frame # NoFrame
    <3>1. /\ frame \in [t : Times, base : Times, start : Bitmaps] /\ frame.base <= frame.t
          /\ Holds(Anchor(frame.base, frame.start), posts, skewed, now)
          /\ frame.base = 0 \/ frame.base < ag.next
      BY <2>2 DEF HistoryIInv, FrameHolds
    <3>2. Anchor(frame.base, frame.start).t \in Nat
      BY <3>1 DEF Anchor, Times
    <3>3. Holds(Anchor(frame.base, frame.start), posts, skewed, now')
      BY <1>4, <3>1, <3>2
    <3> QED
      BY <1>2, <3>1, <3>3 DEF FrameHolds
  <2> QED
    BY <2>1, <2>2
<1>8. ReplyHolds'
  BY DEF Tick, ReplyHolds
<1> QED
  BY <1>2, <1>3, <1>5, <1>6, <1>7, <1>8 DEF HistoryIInv

LEMMA PostKeeps ==
  ASSUME NEW c \in Cells, NEW col \in Colors, HistoryIInv, reply = NoReply, Post(c, col)
  PROVE  HistoryIInv'
<1>1. PICK p : p = [t |-> now, cell |-> c, color |-> col]
  OBVIOUS
<1>2. p \in Posts /\ p.t = now /\ now \in Nat
  BY <1>1 DEF Posts, HistoryIInv, Scalars, Times
<1>3. posts' = Append(posts, p) /\ posts \in Seq(Posts) /\ Len(posts) \in Nat /\ Len(posts) < MaxPosts
  BY <1>1 DEF Post, HistoryIInv, Ordered
<1>4. /\ Len(posts') = Len(posts) + 1 /\ posts' \in Seq(Posts)
      /\ posts'[Len(posts) + 1] = p
      /\ \A i \in 1..Len(posts) : posts'[i] = posts[i]
  BY <1>2, <1>3, AppendProperties
<1>0. /\ UNCHANGED <<role, now, phase, applied, skipped, bmp, lastPaint, ag, frame, reply, skewed, restarts>>
      /\ InBitmap' = InBitmap
      /\ role = "writer" => phase = "serving" /\ confirming = 0
      /\ (role = "writer" /\ confirming' = Len(posts) + 1) \/ confirming' = confirming
  BY DEF Post, InBitmap
<1>12. confirming # 0 => role = "writer"
  BY DEF HistoryIInv, Overtaken
<1>13. confirming' # 0 => role = "writer" /\ confirming' = Len(posts) + 1
  BY <1>0, <1>12
<1>5. Scalars'
  BY <1>0, <1>3, <1>4, <1>13, Bounds DEF HistoryIInv, Scalars
<1>14. Overtaken'
  <2>1. Len(posts) + 1 \notin skipped
    BY <1>3 DEF HistoryIInv, Overtaken, Scalars
  <2> QED
    BY <1>0, <1>4, <1>13, <2>1 DEF HistoryIInv, Overtaken
<1>6. Ordered(posts', now')
  <2>1. \A i \in 1..Len(posts') : posts'[i].t <= now
    <3> SUFFICES ASSUME NEW i \in 1..Len(posts') PROVE posts'[i].t <= now
      OBVIOUS
    <3>1. CASE i = Len(posts) + 1
      BY <1>2, <1>4, <3>1
    <3>2. CASE i \in 1..Len(posts)
      BY <1>4, <3>2 DEF HistoryIInv, Ordered
    <3> QED
      BY <1>3, <1>4, <3>1, <3>2
  <2>2. ASSUME NEW i \in 1..Len(posts'), NEW k \in 1..Len(posts'), i < k PROVE posts'[i].t <= posts'[k].t
    <3>1. i \in 1..Len(posts)
      BY <1>3, <1>4, <2>2
    <3>2. CASE k = Len(posts) + 1
      BY <1>2, <1>4, <2>1, <3>2
    <3>3. CASE k \in 1..Len(posts)
      BY <1>4, <2>2, <3>1, <3>3 DEF HistoryIInv, Ordered
    <3> QED
      BY <1>3, <1>4, <3>2, <3>3
  <2> QED
    BY <1>0, <1>4, <2>1, <2>2 DEF Ordered
<1>8. Good(ag', posts', skewed', now', InBitmap') /\ Skews(posts', skewed', ag'.next)
  <2>1. Good(ag, posts, skewed, now, InBitmap) /\ Skews(posts, skewed, ag.next)
    BY DEF HistoryIInv
  <2>2. Good(ag, Append(posts, p), skewed, now, InBitmap)
    BY <1>2, <1>3, <2>1, GoodLonger
  <2>3. Skews(Append(posts, p), skewed, ag.next)
    BY <1>2, <1>3, <2>1, SkewsLonger
  <2> QED
    BY <1>0, <1>3, <2>2, <2>3
<1>9. BitmapHolds(posts', InBitmap', bmp', lastPaint')
  <2>1. BitmapHolds(posts, InBitmap, bmp, lastPaint)
    BY DEF HistoryIInv
  <2>2. PICK all : all = InBitmap
    OBVIOUS
  <2>3. PICK ns : ns = {i \in all : posts[i].t <= lastPaint}
    OBVIOUS
  <2>4. all \in SUBSET (1..Len(posts)) /\ ns \in SUBSET (1..Len(posts))
    BY <2>2, <2>3 DEF HistoryIInv, Good
  <2>5. ns = {i \in all : posts'[i].t <= lastPaint}
    BY <1>4, <2>3, <2>4
  <2>6. Fold(posts', Blank, all) = Fold(posts, Blank, all) /\ Fold(posts', Blank, ns) = Fold(posts, Blank, ns)
    BY <1>2, <1>3, <2>4, Longer
  <2>7. BitmapHolds(posts', all, bmp, lastPaint)
    BY <2>1, <2>2, <2>3, <2>5, <2>6 DEF BitmapHolds
  <2> QED
    BY <1>0, <2>2, <2>7
<1>10. FrameHolds(frame', posts', skewed', now', ag'.next)
  <2>1. CASE frame = NoFrame
    BY <1>0, <2>1 DEF FrameHolds
  <2>2. CASE frame # NoFrame
    <3>1. PICK a : a = Anchor(frame.base, frame.start)
      OBVIOUS
    <3>2. /\ frame \in [t : Times, base : Times, start : Bitmaps] /\ frame.base <= frame.t
          /\ Holds(a, posts, skewed, now) /\ (frame.base = 0 \/ frame.base < ag.next)
      BY <2>2, <3>1 DEF HistoryIInv, FrameHolds
    <3>3. a.t \in Nat
      BY <3>1, <3>2 DEF Anchor, Times
    <3>4. Holds(a, Append(posts, p), skewed, now)
      BY <1>2, <1>3, <3>2, <3>3, HoldsLonger
    <3> QED
      BY <1>0, <1>3, <3>1, <3>2, <3>4 DEF FrameHolds
  <2> QED
    BY <2>1, <2>2
<1>11. ReplyHolds'
  BY <1>0 DEF ReplyHolds
<1> QED
  BY <1>0, <1>5, <1>6, <1>8, <1>9, <1>10, <1>11, <1>14 DEF HistoryIInv

(* What a step that syncs the grid to t stamps: its checkpoints lack just  *)
(* the posts before them that are not in the bitmap.                       *)
LEMMA SkewIs ==
  ASSUME posts \in Seq(Posts), NEW from \in Nat, NEW t \in Times, FirstBoundary(ag, t) = from,
         NEW h, h.next \in Nat, t < h.next, \A k \in Nat : from + k * Minute < h.next => from + k * Minute <= t,
         Skews(posts, skewed, from), InBitmap \in SUBSET (1..Len(posts)), \A i \in InBitmap : posts[i].t < from
  PROVE  /\ \A x \in Skewed(ag, h, t) : x \in skewed \/ x[1] >= from
         /\ from <= h.next => Skews(posts, Skewed(ag, h, t), h.next)
         /\ \A k \in 0..t : from + k * Minute <= t => Had(posts, Skewed(ag, h, t), from + k * Minute) = InBitmap
<1> DEFINE sk == Skewed(ag, h, t)
<1>1. t \in Nat /\ t <= MaxTime /\ \A k \in Times : k \in Nat
  BY Bounds DEF Times
<1>2. \A k \in Nat : from + k * Minute \in Nat /\ from + k * Minute >= from
  BY Bounds
<1>3. \A i \in 1..Len(posts) : posts[i].t \in Nat
  BY PostTimes
<1>4. ASSUME NEW x \in sk, x \notin skewed
      PROVE  /\ x \in Times \X (1..Len(posts)) /\ posts[x[2]].t < x[1]
             /\ x[1] >= from /\ x[1] < h.next
  <2>1. x \in Skew(ag, h, t) /\ posts[x[2]].t < x[1]
    BY <1>4 DEF Skewed
  <2>2. PICK k \in Times, i \in (1..Len(posts)) \ InBitmap :
          x = <<from + k * Minute, i>> /\ from + k * Minute < h.next
    BY <2>1 DEF Skew
  <2>3. x[1] = from + k * Minute /\ x[2] = i /\ k \in Nat
    BY <1>1, <2>2
  <2>4. x[1] \in Nat /\ x[1] >= from /\ x[1] <= t
    BY <1>2, <2>2, <2>3
  <2>5. x[1] \in Times
    BY <1>1, <2>4, Bounds DEF Times
  <2> QED
    BY <2>1, <2>2, <2>3, <2>4, <2>5
<1>5. \A x \in sk : x \in skewed \/ x[1] >= from
  BY <1>4
<1>6. ASSUME from <= h.next PROVE Skews(posts, sk, h.next)
  <2>1. ASSUME NEW x \in sk PROVE x \in Times \X (1..Len(posts)) /\ posts[x[2]].t < x[1] /\ x[1] < h.next
    <3>1. CASE x \notin skewed
      BY <1>4, <3>1
    <3>2. CASE x \in skewed
      <4>1. x \in Times \X (1..Len(posts)) /\ posts[x[2]].t < x[1] /\ x[1] < from
        BY <3>2 DEF Skews
      <4>2. x[1] \in Nat
        BY <4>1, <1>1
      <4> QED
        BY <1>6, <4>1, <4>2
    <3> QED
      BY <3>1, <3>2
  <2> HIDE DEF sk
  <2> QED
    BY <2>1 DEF Skews
<1>7. ASSUME NEW k \in 0..t, from + k * Minute <= t PROVE Had(posts, sk, from + k * Minute) = InBitmap
  <2>1. PICK at : at = from + k * Minute
    OBVIOUS
  <2>2. at \in Nat /\ at >= from /\ at < h.next /\ k \in Times
    BY <1>1, <1>2, <1>7, <2>1, Bounds DEF Times
  <2>3. ASSUME NEW i \in InBitmap PROVE posts[i].t < at /\ <<at, i>> \notin sk
    <3>1. posts[i].t < at
      BY <1>3, <2>2
    <3>2. <<at, i>> \notin skewed
      <4>1. ASSUME NEW x \in skewed, x = <<at, i>> PROVE FALSE
        BY <2>2, <4>1 DEF Skews
      <4> QED
        BY <4>1
    <3>3. <<at, i>> \notin Skew(ag, h, t)
      BY DEF Skew
    <3> QED
      BY <3>1, <3>2, <3>3 DEF Skewed
  <2>4. ASSUME NEW i \in 1..Len(posts), i \notin InBitmap, posts[i].t < at PROVE <<at, i>> \in sk
    <3>1. at \in {b \in {FirstBoundary(ag, t) + j * Minute : j \in Times} : b < h.next}
      BY <2>1, <2>2
    <3>2. PICK x : x = <<at, i>>
      OBVIOUS
    <3>3. x \in Skew(ag, h, t)
      BY <2>4, <3>1, <3>2 DEF Skew
    <3>4. posts[x[2]].t < x[1]
      BY <2>4, <3>2
    <3> QED
      BY <3>2, <3>3, <3>4 DEF Skewed
  <2> HIDE DEF sk
  <2>5. \A i \in 1..Len(posts) : i \in Had(posts, sk, at) <=> i \in InBitmap
    BY <2>3, <2>4 DEF Had
  <2>6. Had(posts, sk, at) \in SUBSET (1..Len(posts))
    BY HadSome
  <2> QED
    BY <2>1, <2>5, <2>6
<1> QED
  BY <1>5, <1>6, <1>7

(* One more post on the bitmap, or the last one again.                     *)
LEMMA BitmapNext ==
  ASSUME NEW ps, NEW moment \in Nat, Ordered(ps, moment), NEW m \in 1..Len(ps), NEW ns \in SUBSET (1..m), NEW b,
         NEW latest \in Nat, NEW next \in Nat,
         BitmapHolds(ps, ns, b, latest),
         \/ latest <= next /\ ps[m].t <= next
         \/ next = latest /\ b[ps[m].cell] = ps[m].color
  PROVE  BitmapHolds(ps, ns \cup {m}, [b EXCEPT ![ps[m].cell] = ps[m].color], next)
<1> DEFINE b2 == [b EXCEPT ![ps[m].cell] = ps[m].color]
           upTo == {i \in ns \cup {m} : ps[i].t <= next}
           early == ns \ {m}
<1>1. /\ ps \in Seq(Posts) /\ Len(ps) \in Nat /\ early \in SUBSET (1..(m - 1)) /\ early \cup {m} = ns \cup {m}
      /\ ns \in SUBSET (1..Len(ps))
  BY DEF Ordered
<1>2. Fold(ps, Blank, early \cup {m}) = [Fold(ps, Blank, early) EXCEPT ![ps[m].cell] = ps[m].color]
  <2> HIDE DEF early
  <2> QED
    BY <1>1, OneMore, BlankType
<1>3. b \in Bitmaps /\ Fold(ps, Blank, early) \in Bitmaps
  <2>1. early \in SUBSET (1..Len(ps))
    BY <1>1
  <2> HIDE DEF early
  <2> QED
    BY <1>1, <2>1, FoldType, BlankType DEF BitmapHolds
<1>4. b2 = Fold(ps, Blank, ns \cup {m})
  <2>1. CASE m \notin ns
    <3>1. early = ns
      BY <2>1
    <3> QED
      BY <1>1, <1>2, <3>1 DEF BitmapHolds
  <2>2. CASE m \in ns
    <3>1. early \cup {m} = ns /\ ns \cup {m} = ns
      BY <2>2
    <3>2. b = Fold(ps, Blank, ns)
      BY DEF BitmapHolds
    <3> HIDE DEF early
    <3>3. b = [Fold(ps, Blank, early) EXCEPT ![ps[m].cell] = ps[m].color]
      BY <1>2, <3>1, <3>2
    <3>4. b2 = b
      BY <1>3, <3>3 DEF Bitmaps
    <3> QED
      BY <3>1, <3>2, <3>4
  <2> QED
    BY <2>1, <2>2
<1>5. b2 = Fold(ps, Blank, upTo)
  <2>1. CASE latest <= next /\ ps[m].t <= next
    <3>1. \A i \in ns \cup {m} : ps[i].t <= next
      <4> SUFFICES ASSUME NEW i \in ns \cup {m} PROVE ps[i].t <= next
        OBVIOUS
      <4>1. i \in 1..Len(ps) /\ m \in 1..Len(ps) /\ (i = m \/ i < m)
        BY <1>1
      <4>2. ps[i].t \in Nat /\ ps[m].t \in Nat
        BY <1>1, <4>1, PostTimes
      <4>3. ps[i].t <= ps[m].t
        BY SMTT(40), <4>1, <4>2 DEF Ordered
      <4> QED
        BY SMTT(40), <2>1, <4>2, <4>3
    <3>2. upTo = ns \cup {m}
      BY <3>1
    <3> QED
      BY <1>4, <3>2
  <2>2. CASE next = latest /\ b[ps[m].cell] = ps[m].color
    <3>2. b2 = b
      BY <1>3, <2>2 DEF Bitmaps
    <3>3. PICK some : some = {i \in ns : ps[i].t <= latest}
      OBVIOUS
    <3>4. b = Fold(ps, Blank, some)
      BY <3>3 DEF BitmapHolds
    <3>5. CASE ps[m].t <= next /\ m \notin ns
      <4>1. upTo = some \cup {m}
        BY <2>2, <3>3, <3>5
      <4>2. some \in SUBSET (1..(m - 1))
        BY <1>1, <3>3, <3>5
      <4> HIDE DEF upTo
      <4>3. Fold(ps, Blank, some \cup {m}) = [Fold(ps, Blank, some) EXCEPT ![ps[m].cell] = ps[m].color]
        BY <1>1, <4>2, OneMore, BlankType
      <4> QED
        BY <3>4, <4>1, <4>3
    <3>6. CASE ~(ps[m].t <= next) \/ m \in ns
      <4>1. upTo = some
        BY <2>2, <3>3, <3>6
      <4> HIDE DEF upTo, b2
      <4> QED
        BY <3>2, <3>4, <4>1
    <3> QED
      BY <3>5, <3>6
  <2> QED
    BY <2>1, <2>2
<1> HIDE DEF b2
<1>6. BitmapHolds(ps, ns \cup {m}, b2, next)
  BY <1>4, <1>5 DEF BitmapHolds
<1> QED
  BY <1>6 DEF b2

(* What a step that syncs the grid to t, with its bitmap, comes to.        *)
LEMMA SyncStep ==
  ASSUME HistoryIInv, NEW t \in Times, t <= now, NEW saved \in BOOLEAN, NEW h, h = SyncTo(ag, t, bmp, saved),
         NEW sk, sk = Skewed(ag, h, t)
  PROVE  /\ Good(h, posts, sk, now, InBitmap) /\ t < h.next
         /\ Skews(posts, sk, h.next) /\ FrameHolds(frame, posts, sk, now, h.next)
<1>1. /\ ag \in Grids /\ Whole(ag, ag.next) /\ (ag.next = 0 => ag.list = <<>>) /\ ag.next \in Nat
      /\ Good(ag, posts, skewed, now, InBitmap) /\ Skews(posts, skewed, ag.next)
      /\ Ordered(posts, now) /\ posts \in Seq(Posts)
      /\ InBitmap \in SUBSET (1..Len(posts)) /\ \A i \in InBitmap : posts[i].t < ag.next
      /\ bmp = Fold(posts, Blank, InBitmap)
  BY SMTT(40) DEF HistoryIInv, Good, Whole, Ordered, BitmapHolds, Grids
<1>2. t \in Nat /\ now \in Nat /\ t \in 0..now
  BY Bounds DEF HistoryIInv, Scalars, Times
<1>3. PICK from : from = FirstBoundary(ag, t)
  OBVIOUS
<1>4. from \in Nat /\ ag.next <= from /\ Whole(ag, from)
  <2>1. from \in Nat /\ (ag.next # 0 => from = ag.next)
    BY <1>1, <1>2, <1>3, FirstIs
  <2>2. CASE ag.next = 0
    BY <1>1, <2>1, <2>2, WholeEmpty
  <2>3. CASE ag.next # 0
    BY <1>1, <2>1, <2>3
  <2> QED
    BY <2>1, <2>2, <2>3
<1>5. bmp \in Bitmaps
  BY <1>1, FoldType, BlankType
<1>6. h = Advance(ag, from, t, bmp, saved)
  BY <1>3 DEF SyncTo
<1>7. /\ t < h.next /\ h.next \in Nat /\ from <= h.next
      /\ \A k \in Nat : from + k * Minute < h.next => from + k * Minute <= t
  <2>1. /\ t < h.next /\ Whole(h, h.next) /\ from <= h.next
        /\ \A k \in Nat : from + k * Minute < h.next => from + k * Minute <= t
    BY <1>2, <1>4, <1>5, <1>6, AdvanceKeeps
  <2> QED
    BY <2>1 DEF Whole, Grids
<1>8. Skews(posts, skewed, from) /\ \A i \in InBitmap : posts[i].t < from
  <2>1. ASSUME NEW x \in skewed PROVE x \in Times \X (1..Len(posts)) /\ posts[x[2]].t < x[1] /\ x[1] < from
    <3>1. x \in Times \X (1..Len(posts)) /\ posts[x[2]].t < x[1] /\ x[1] < ag.next
      BY <1>1 DEF Skews
    <3>2. x[1] \in Nat
      BY <3>1, Bounds DEF Times
    <3> QED
      BY <1>1, <1>4, <3>1, <3>2
  <2>2. ASSUME NEW i \in InBitmap PROVE posts[i].t < from
    <3>1. posts[i].t \in Nat /\ posts[i].t < ag.next
      BY <1>1, PostTimes
    <3> QED
      BY <1>1, <1>4, <3>1
  <2> QED
    BY <2>1, <2>2 DEF Skews
<1>9. /\ \A x \in sk : x \in skewed \/ x[1] >= from
      /\ Skews(posts, sk, h.next)
      /\ \A k \in 0..t : from + k * Minute <= t => Had(posts, sk, from + k * Minute) = InBitmap
  BY <1>1, <1>3, <1>4, <1>7, <1>8, SkewIs
<1>10. skewed \subseteq sk
  BY DEF Skewed
<1>11. Good(h, posts, sk, now, InBitmap)
  <2>1. PICK ns : ns = InBitmap
    OBVIOUS
  <2>2. Good(ag, posts, skewed, now, ns) /\ h = SyncTo(ag, t, Fold(posts, Blank, ns), saved)
    BY <1>1, <2>1
  <2>3. /\ \A x \in sk : x \in skewed \/ x[1] >= FirstBoundary(ag, t)
        /\ \A k \in 0..t : FirstBoundary(ag, t) + k * Minute <= t => Had(posts, sk, FirstBoundary(ag, t) + k * Minute) = ns
    BY <1>3, <1>9, <2>1
  <2>4. LET x == SyncTo(ag, t, Fold(posts, Blank, ns), saved)
        IN  Good(x, posts, sk, now, ns) /\ t < x.next
    BY <1>1, <1>2, <1>10, <2>2, <2>3, SyncGood
  <2> QED
    BY <2>1, <2>2, <2>4
<1>12. FrameHolds(frame, posts, sk, now, h.next)
  <2>1. CASE frame = NoFrame
    BY <2>1 DEF FrameHolds
  <2>2. CASE frame # NoFrame
    <3>1. PICK a : a = Anchor(frame.base, frame.start)
      OBVIOUS
    <3>2. /\ frame \in [t : Times, base : Times, start : Bitmaps] /\ frame.base <= frame.t
          /\ Holds(a, posts, skewed, now) /\ (frame.base = 0 \/ frame.base < ag.next)
      BY <2>2, <3>1 DEF HistoryIInv, FrameHolds
    <3>3. a.t = frame.base /\ a.t \in Nat
      BY <3>1, <3>2 DEF Anchor, Times
    <3>4. CASE a.t = 0
      <4>1. Had(posts, sk, 0) = {} /\ Had(posts, skewed, 0) = {}
        BY <1>1, PostTimes DEF Had
      <4>2. Holds(a, posts, sk, now)
        BY <3>2, <3>4, <4>1 DEF Holds
      <4> QED
        BY <3>1, <3>2, <3>3, <3>4, <4>2 DEF FrameHolds
    <3>5. CASE a.t # 0
      <4>1. a.t < from /\ a.t < h.next
        BY <1>1, <1>4, <1>7, <3>2, <3>3, <3>5
      <4>2. Holds(a, posts, sk, now)
        BY <1>4, <1>9, <1>10, <3>2, <3>3, <4>1, HoldsStill
      <4> QED
        BY <3>1, <3>2, <3>3, <4>1, <4>2 DEF FrameHolds
    <3> QED
      BY <3>4, <3>5
  <2> QED
    BY <2>1, <2>2
<1> QED
  BY <1>7, <1>9, <1>11, <1>12

(* The second half of both writers' steps.                                 *)
LEMMA ApplyKeeps ==
  ASSUME HistoryIInv, reply = NoReply, NEW saved \in BOOLEAN,
         NEW t \in Times, t <= now, NEW m \in 1..Len(posts), posts[m].t <= t, Apply(posts[m], t, saved),
         UNCHANGED <<now, posts, frame, reply>>, Scalars', Overtaken',
         InBitmap \in SUBSET (1..m), InBitmap' = InBitmap \cup {m},
         \/ lastPaint <= lastPaint' /\ posts[m].t <= lastPaint'
         \/ lastPaint' = lastPaint /\ bmp[posts[m].cell] = posts[m].color
  PROVE  HistoryIInv'
<1>1. /\ ag' = SyncTo(ag, t, bmp, saved)
      /\ skewed' = Skewed(ag, ag', t)
      /\ bmp' = [bmp EXCEPT ![posts[m].cell] = posts[m].color]
  BY DEF Apply
<1>2. PICK h, sk : h = ag' /\ sk = skewed'
  OBVIOUS
<1>3. /\ Good(h, posts, sk, now, InBitmap) /\ t < h.next
      /\ Skews(posts, sk, h.next) /\ FrameHolds(frame, posts, sk, now, h.next)
  <2>1. h = SyncTo(ag, t, bmp, saved) /\ sk = Skewed(ag, h, t)
    BY <1>1, <1>2
  <2> QED
    BY <2>1, SyncStep
<1>4. posts \in Seq(Posts) /\ Ordered(posts, now) /\ now \in Nat /\ lastPaint \in Nat /\ lastPaint' \in Nat /\ t \in Nat
  BY Bounds DEF HistoryIInv, Ordered, Scalars, Times
<1>5. Good(h, posts, sk, now, InBitmap \cup {m})
  <2>1. posts[m].t < h.next
    <3>1. h.next \in Nat
      BY <1>3 DEF Good, Whole, Grids
    <3>2. posts[m].t \in Nat
      BY <1>4, PostTimes
    <3> QED
      BY <1>3, <1>4, <3>1, <3>2
  <2> QED
    BY <1>3, <2>1 DEF Good
<1>6. BitmapHolds(posts', InBitmap', bmp', lastPaint')
  <2>1. PICK latest, ns : latest = lastPaint' /\ ns = InBitmap
    OBVIOUS
  <2>2. BitmapHolds(posts, ns, bmp, lastPaint)
    BY <2>1 DEF HistoryIInv
  <2>3. BitmapHolds(posts, ns \cup {m}, [bmp EXCEPT ![posts[m].cell] = posts[m].color], latest)
    BY <1>4, <2>1, <2>2, BitmapNext
  <2> QED
    BY <1>1, <2>1, <2>3
<1>7. ReplyHolds'
  BY DEF ReplyHolds
<1> QED
  BY <1>2, <1>3, <1>4, <1>5, <1>6, <1>7 DEF HistoryIInv

LEMMA ConfirmKeeps ==
  ASSUME HistoryIInv, reply = NoReply, NEW saved \in BOOLEAN, ConfirmApply(saved)
  PROVE  HistoryIInv'
<1>1. /\ confirming # 0 /\ Apply(posts[confirming], now, saved) /\ lastPaint' = Later(lastPaint, now)
      /\ skipped' = skipped \cup (applied + 1..confirming - 1) /\ applied' = confirming /\ confirming' = 0
      /\ UNCHANGED <<role, now, posts, phase, frame, reply, restarts>>
  BY DEF ConfirmApply
<1>2. /\ now \in Times /\ lastPaint \in Times /\ now \in Nat /\ lastPaint \in Nat /\ now <= now
      /\ confirming \in 1..Len(posts) /\ confirming = Len(posts) /\ Len(posts) \in Nat /\ confirming \notin skipped
      /\ phase = "serving" /\ applied \in 0..confirming /\ skipped \in SUBSET (1..applied)
  BY <1>1, Bounds DEF HistoryIInv, Scalars, Overtaken, Times, Ordered
<1>3. posts[confirming].t <= now /\ posts[confirming].t \in Nat
  BY <1>2, PostTimes DEF HistoryIInv, Ordered
<1>4. lastPaint' \in Times /\ lastPaint <= lastPaint' /\ posts[confirming].t <= lastPaint'
  BY <1>1, <1>2, <1>3 DEF Later
<1>5. InBitmap \in SUBSET (1..confirming) /\ InBitmap' = InBitmap \cup {confirming}
  <2>1. InBitmap \in SUBSET (1..confirming)
    BY <1>2 DEF InBitmap
  <2>2. InBitmap' = (1..confirming) \ (skipped \cup (applied + 1..confirming - 1))
    BY <1>1 DEF InBitmap
  <2>3. \A i \in 1..confirming : i \in InBitmap' <=> i \in InBitmap \cup {confirming}
    BY <1>2, <2>2 DEF InBitmap
  <2> QED
    BY <2>1, <2>2, <2>3, <1>2
<1>6. Scalars'
  BY <1>1, <1>2, <1>4 DEF HistoryIInv, Scalars
<1>7. Overtaken'
  <2>1. skipped \cup (applied + 1..confirming - 1) \in SUBSET (1..confirming)
    <3>0. confirming \in Nat /\ applied \in 0..confirming
      BY <1>2
    <3>1. PICK n \in Nat, k \in Nat : n = applied /\ k = confirming /\ n <= k
      BY <3>0
    <3>2. \A i \in 1..n : i \in 1..k
      BY <3>1
    <3>3. \A i \in (n + 1)..(k - 1) : i \in 1..k
      BY <3>1
    <3>4. skipped \in SUBSET (1..n)
      BY <1>2, <3>1
    <3> QED
      BY <3>1, <3>2, <3>3, <3>4
  <2>2. skipped' \in SUBSET (1..applied')
    BY <1>1, <2>1
  <2>3. phase' # "warming" /\ ~(confirming' # 0)
    BY <1>1, <1>2
  <2> QED
    BY <2>2, <2>3 DEF Overtaken
<1> QED
  BY <1>1, <1>2, <1>3, <1>4, <1>5, <1>6, <1>7, ApplyKeeps

LEMMA EventKeeps ==
  ASSUME HistoryIInv, reply = NoReply, NEW saved \in BOOLEAN, ApplyEvent(saved)
  PROVE  HistoryIInv'
<1>1. PICK m, p : m = applied + 1 /\ p = posts[m]
  OBVIOUS
<1>2. /\ phase = "serving" /\ applied < Len(posts) /\ Apply(p, p.t, saved) /\ applied' = m
      /\ lastPaint' = IF bmp[p.cell] = p.color THEN lastPaint ELSE Later(lastPaint, p.t)
      /\ UNCHANGED <<role, now, posts, phase, confirming, skipped, frame, reply, restarts>>
  BY <1>1 DEF ApplyEvent
<1>3. lastPaint \in Times /\ lastPaint \in Nat
  BY Bounds DEF HistoryIInv, Scalars, Times
<1>4. m \in 1..Len(posts) /\ p.t \in Times /\ p.t <= now /\ p.t \in Nat
  <2>1. m \in 1..Len(posts) /\ posts \in Seq(Posts)
    BY <1>1, <1>2 DEF HistoryIInv, Scalars, Ordered
  <2> QED
    BY <1>1, <2>1, PostTimes DEF HistoryIInv, Ordered
<1>5. /\ lastPaint' \in Times
      /\ \/ lastPaint <= lastPaint' /\ posts[m].t <= lastPaint'
         \/ lastPaint' = lastPaint /\ bmp[posts[m].cell] = posts[m].color
  <2>1. CASE bmp[p.cell] = p.color
    BY <1>1, <1>2, <1>3, <2>1
  <2>2. CASE bmp[p.cell] # p.color
    BY <1>1, <1>2, <1>3, <1>4, <2>2 DEF Later
  <2> QED
    BY <2>1, <2>2
<1>6. posts[m].t <= p.t
  BY <1>1, <1>4
<1>7. applied \in Nat /\ skipped \in SUBSET (1..applied)
  BY DEF HistoryIInv, Scalars, Overtaken
<1>8. InBitmap \in SUBSET (1..m) /\ InBitmap' = InBitmap \cup {m}
  BY <1>1, <1>2, <1>7 DEF InBitmap
<1>9. Scalars'
  BY <1>2, <1>4, <1>5 DEF HistoryIInv, Scalars
<1>10. Overtaken'
  <2>1. skipped' \in SUBSET (1..applied')
    BY <1>1, <1>2, <1>7
  <2>2. phase' # "warming"
    BY <1>2
  <2>3. confirming' # 0 => role' = "writer" /\ phase' = "serving" /\ confirming' = Len(posts)' /\ confirming' \notin skipped'
    BY <1>2 DEF HistoryIInv, Overtaken
  <2> QED
    BY <2>1, <2>2, <2>3 DEF Overtaken
<1>11. Apply(posts[m], p.t, saved)
  BY <1>1, <1>2
<1> QED
  BY <1>2, <1>4, <1>5, <1>6, <1>8, <1>9, <1>10, <1>11, ApplyKeeps

LEMMA RestartKeeps ==
  ASSUME HistoryIInv, reply = NoReply, Restart
  PROVE  HistoryIInv'
<1>1. /\ restarts < MaxRestarts /\ restarts' = restarts + 1 /\ phase' = "warming" /\ applied' = 0 /\ confirming' = 0
      /\ skipped' = {} /\ bmp' = Blank
      /\ ag' = NewGrid /\ lastPaint' = 0 /\ frame' = NoFrame /\ reply' = NoReply /\ skewed' = {}
      /\ role' = role /\ now' = now /\ posts' = posts
  BY DEF Restart
<1>2. posts \in Seq(Posts) /\ Len(posts) \in Nat /\ Ordered(posts, now) /\ now \in Nat
  BY Bounds DEF HistoryIInv, Ordered, Scalars, Times
<1>3. Scalars' /\ Overtaken'
  BY <1>1, <1>2, Bounds DEF HistoryIInv, Scalars, Overtaken, Times
<1>4. Good(NewGrid, posts, {}, now, {}) /\ Skews(posts, {}, NewGrid.next)
  BY <1>2, NewGood DEF Skews
<1>5. InBitmap' = {}
  BY <1>1 DEF InBitmap
<1>6. BitmapHolds(posts, {}, Blank, 0)
  <2>1. Fold(posts, Blank, {}) = Blank
    BY FoldNothing, BlankType
  <2> QED
    BY <2>1 DEF BitmapHolds
<1>7. FrameHolds(frame', posts', skewed', now', ag'.next) /\ ReplyHolds'
  BY <1>1 DEF FrameHolds, ReplyHolds
<1> QED
  BY <1>1, <1>2, <1>3, <1>4, <1>5, <1>6, <1>7 DEF HistoryIInv

(* The warm-up's bitmap and grid hold, as the replay has missed nothing.   *)
LEMMA WarmFoldKeeps ==
  ASSUME HistoryIInv, reply = NoReply, NEW saved \in BOOLEAN, WarmFold(saved)
  PROVE  HistoryIInv'
<1>1. /\ phase = "warming" /\ phase' = "folded"
      /\ bmp' = Painted(Blank, 1..Len(posts)) /\ ag' = Replayed(saved) /\ applied' = Len(posts)
      /\ lastPaint' = IF posts = <<>> THEN 0 ELSE posts[Len(posts)].t
      /\ UNCHANGED <<role, now, posts, confirming, skipped, frame, reply, skewed, restarts>>
  BY DEF WarmFold
<1>2. posts \in Seq(Posts) /\ Len(posts) \in Nat /\ Ordered(posts, now) /\ now \in Nat
  BY Bounds DEF HistoryIInv, Ordered, Scalars, Times
<1>3. lastPaint' \in Times /\ \A i \in 1..Len(posts) : posts[i].t <= lastPaint'
  <2>1. CASE posts = <<>>
    BY <1>1, <2>1, Bounds DEF Times
  <2>2. CASE posts # <<>>
    <3>1. Len(posts) \in 1..Len(posts)
      BY <1>2, <2>2, EmptySeq
    <3>2. lastPaint' = posts[Len(posts)].t /\ lastPaint' \in Times
      BY <1>1, <1>2, <2>2, <3>1, PostTimes
    <3>3. ASSUME NEW i \in 1..Len(posts) PROVE posts[i].t <= posts[Len(posts)].t
      <4>1. posts[i].t \in Nat
        BY <1>2, PostTimes
      <4>2. i = Len(posts) \/ i < Len(posts)
        BY <1>2
      <4> QED
        BY <1>2, <3>1, <4>1, <4>2 DEF Ordered
    <3> QED
      BY <3>2, <3>3
  <2> QED
    BY <2>1, <2>2
<1>4. skipped = {} /\ skewed = {} /\ confirming = 0
  <2>1. skipped \in SUBSET (1..applied) /\ applied = 0 /\ skewed = {} /\ ~(confirming # 0)
    BY <1>1 DEF HistoryIInv, Overtaken
  <2>2. 1..0 = {}
    OBVIOUS
  <2> QED
    BY <2>1, <2>2
<1>5. Scalars' /\ Overtaken'
  <2>1. applied' \in 0..Len(posts)
    BY <1>1, <1>2
  <2> QED
    BY <1>1, <1>2, <1>3, <1>4, <2>1 DEF HistoryIInv, Scalars, Overtaken
<1>6. InBitmap' = 1..Len(posts)
  BY <1>1, <1>4 DEF InBitmap
<1>7. Good(ag', posts', skewed', now', InBitmap') /\ Skews(posts', skewed', ag'.next)
  <2>1. Good(Replayed(saved), posts, {}, now, 1..Len(posts))
    BY <1>2, ReplayGood
  <2> QED
    BY <1>1, <1>4, <1>6, <2>1 DEF Skews
<1>8. BitmapHolds(posts', InBitmap', bmp', lastPaint')
  <2>1. PICK latest : latest = lastPaint'
    OBVIOUS
  <2>2. {i \in 1..Len(posts) : posts[i].t <= latest} = 1..Len(posts)
    BY <1>3, <2>1
  <2>3. Painted(Blank, 1..Len(posts)) = Fold(posts, Blank, 1..Len(posts))
    BY PaintedIs
  <2>4. BitmapHolds(posts, 1..Len(posts), Painted(Blank, 1..Len(posts)), latest)
    BY <2>2, <2>3 DEF BitmapHolds
  <2> QED
    BY <1>1, <1>6, <2>1, <2>4
<1>9. FrameHolds(frame', posts', skewed', now', ag'.next)
  <2>1. CASE frame = NoFrame
    BY <1>1, <2>1 DEF FrameHolds
  <2>2. CASE frame # NoFrame
    BY <1>1, <2>2 DEF HistoryIInv, Overtaken
  <2> QED
    BY <2>1, <2>2
<1>10. ReplyHolds'
  BY <1>1 DEF ReplyHolds
<1> QED
  BY <1>1, <1>2, <1>5, <1>7, <1>8, <1>9, <1>10 DEF HistoryIInv

LEMMA WarmEndKeeps ==
  ASSUME HistoryIInv, reply = NoReply, NEW saved \in BOOLEAN, WarmEnd(saved)
  PROVE  HistoryIInv'
<1>1. /\ phase = "folded" /\ phase' = "serving" /\ ag' = FillTo(ag, now, bmp, saved)
      /\ skewed' = Skewed(ag, ag', now)
      /\ UNCHANGED <<role, now, posts, applied, confirming, skipped, bmp, lastPaint, frame, reply, restarts>>
  BY DEF WarmEnd, canvas
<1>2. now \in Times /\ now <= now /\ now \in Nat
  BY Bounds DEF HistoryIInv, Scalars, Times
<1>3. /\ Good(ag', posts, skewed', now, InBitmap) /\ Skews(posts, skewed', ag'.next)
      /\ FrameHolds(frame, posts, skewed', now, ag'.next)
  <2>1. CASE ag.next = 0
    <3>1. ag' = ag
      BY <1>1, <2>1 DEF FillTo
    <3>2. Skew(ag, ag, now) = {}
      <4>1. FirstBoundary(ag, now) \in Nat
        BY <1>2, FirstIs DEF HistoryIInv, Good, Whole
      <4>2. \A k \in Times : FirstBoundary(ag, now) + k * Minute \in Nat
        BY <4>1, Bounds DEF Times
      <4>3. {b \in {FirstBoundary(ag, now) + k * Minute : k \in Times} : b < ag.next} = {}
        BY <2>1, <4>2
      <4> QED
        BY <4>3 DEF Skew
    <3>3. skewed' = skewed
      BY <1>1, <3>1, <3>2 DEF Skewed
    <3> QED
      BY <3>1, <3>3 DEF HistoryIInv
  <2>2. CASE ag.next # 0
    <3>1. ag' = SyncTo(ag, now, bmp, saved)
      BY <1>1, <2>2 DEF FillTo, SyncTo, FirstBoundary
    <3>2. PICK h, sk : h = ag' /\ sk = skewed'
      OBVIOUS
    <3>3. h = SyncTo(ag, now, bmp, saved) /\ sk = Skewed(ag, h, now)
      BY <1>1, <3>1, <3>2
    <3>4. /\ Good(h, posts, sk, now, InBitmap) /\ Skews(posts, sk, h.next)
          /\ FrameHolds(frame, posts, sk, now, h.next)
      BY <1>2, <3>3, SyncStep
    <3> QED
      BY <3>2, <3>4
  <2> QED
    BY <2>1, <2>2
<1>4. InBitmap' = InBitmap
  BY <1>1 DEF InBitmap
<1>5. Scalars' /\ Overtaken'
  BY <1>1, <1>3 DEF HistoryIInv, Scalars, Overtaken
<1>6. ReplyHolds'
  BY <1>1 DEF ReplyHolds
<1> QED
  BY <1>1, <1>3, <1>4, <1>5, <1>6 DEF HistoryIInv

(* The steps of FrameAt change the frame and the reply only.               *)
LEMMA FrameSteps ==
  ASSUME HistoryIInv, UNCHANGED <<role, now, posts, phase, canvas, ag, skewed, restarts>>,
         FrameHolds(frame', posts, skewed, now, ag.next), ReplyHolds', phase = "warming" => frame' = NoFrame
  PROVE  HistoryIInv'
<1>0. UNCHANGED <<applied, confirming, skipped, bmp, lastPaint>>
  BY DEF canvas
<1>1. Scalars' /\ Overtaken' /\ InBitmap' = InBitmap
  BY <1>0 DEF HistoryIInv, Scalars, Overtaken, InBitmap
<1> QED
  BY <1>0, <1>1 DEF HistoryIInv

LEMMA FrameNowKeeps ==
  ASSUME HistoryIInv, reply = NoReply, NEW t \in Times, FrameNow(t)
  PROVE  HistoryIInv'
<1>1. /\ reply' = Reply(lastPaint, bmp, applied, skipped)
      /\ UNCHANGED <<role, now, posts, phase, canvas, ag, frame, skewed, restarts>>
  BY DEF FrameNow
<1>2. posts \in Seq(Posts) /\ InBitmap \in SUBSET (1..Len(posts))
  BY DEF HistoryIInv, Ordered, Good
<1>3. PICK ns : ns = {n \in InBitmap : posts[n].t <= lastPaint}
  OBVIOUS
<1>4. ns \in SUBSET (1..Len(posts))
  BY <1>2, <1>3
<1>5. bmp = Fold(posts, Blank, ns)
  BY <1>3 DEF HistoryIInv, BitmapHolds
<1>6. /\ reply'.kind = "frame" /\ reply'.t = lastPaint /\ reply'.bmp = bmp /\ reply'.seen = applied
      /\ reply'.missing = skipped
  BY <1>1 DEF Reply
<1>7. FrameIsFold'
  <2>1. {n \in 1..reply'.seen : posts'[n].t <= reply'.t} \ reply'.missing = ns
    BY <1>1, <1>3, <1>6 DEF InBitmap
  <2>2. \A b, s : Painted(b, s)' = Fold(posts', b, s)
    BY DEF Painted, Fold, On, OnCell
  <2> QED
    BY <1>1, <1>5, <1>6, <2>1, <2>2 DEF FrameIsFold
<1>8. NothingFromLater'
  <2>1. OfThePast(posts, bmp, lastPaint)
    BY <1>2, <1>3, <1>4, <1>5, PastFold
  <2> QED
    BY <1>1, <1>6, <2>1 DEF NothingFromLater, OfThePast
<1>9. ReplyHolds'
  BY <1>6, <1>7, <1>8 DEF ReplyHolds, FramesAreTrue
<1>10. FrameHolds(frame', posts, skewed, now, ag.next)
  BY <1>1 DEF HistoryIInv
<1>20. phase = "warming" => frame' = NoFrame
  BY DEF FrameNow
<1> QED
  BY <1>1, <1>9, <1>10, <1>20, FrameSteps

LEMMA FrameBeginKeeps ==
  ASSUME HistoryIInv, reply = NoReply, NEW t \in Times, FrameBegin(t)
  PROVE  HistoryIInv'
<1>1. /\ frame' = [t |-> t, base |-> Base(t).t, start |-> Base(t).bmp]
      /\ UNCHANGED <<role, now, posts, phase, canvas, ag, reply, skewed, restarts>>
  BY DEF FrameBegin
<1>2. now \in Nat /\ now <= MaxTime /\ t \in Nat /\ Ordered(posts, now) /\ Good(ag, posts, skewed, now, InBitmap)
  BY Bounds DEF HistoryIInv, Scalars, Times
<1>3. /\ Base(t).t <= t /\ Base(t) = Anchor(Base(t).t, Base(t).bmp)
      /\ Base(t).t \in Nat /\ Base(t).t <= now /\ Base(t).bmp \in Bitmaps
      /\ Holds(Base(t), posts, skewed, now) /\ (Base(t).t = 0 \/ Base(t).t < ag.next)
  BY <1>2, BaseHolds
<1>4. Base(t).t \in Times
  BY <1>2, <1>3, Bounds DEF Times
<1>5. FrameHolds(frame', posts, skewed, now, ag.next)
  BY <1>1, <1>3, <1>4 DEF FrameHolds
<1>6. ReplyHolds'
  BY <1>1 DEF ReplyHolds
<1>20. phase = "warming" => frame' = NoFrame
  BY DEF FrameBegin
<1> QED
  BY <1>1, <1>5, <1>6, <1>20, FrameSteps

LEMMA FrameEndKeeps ==
  ASSUME HistoryIInv, reply = NoReply, FrameEnd
  PROVE  HistoryIInv'
<1>1. /\ frame # NoFrame /\ frame' = NoFrame
      /\ reply' = IF TooBroad THEN [kind |-> "tooBroad"]
                  ELSE Reply(frame.t, Painted(frame.start, Window), Len(posts), Lacking(frame.base))
      /\ UNCHANGED <<role, now, posts, phase, canvas, ag, skewed, restarts>>
  BY DEF FrameEnd
<1>2. FrameHolds(frame', posts, skewed, now, ag.next)
  BY <1>1 DEF FrameHolds
<1>3. ReplyHolds'
  <2>1. CASE TooBroad
    BY <1>1, <2>1 DEF ReplyHolds
  <2>2. CASE ~TooBroad
    <3>1. PICK a : a = Anchor(frame.base, frame.start)
      OBVIOUS
    <3>2. /\ frame.t \in Nat /\ frame.base \in Nat /\ frame.base <= frame.t
          /\ Holds(a, posts, skewed, now)
      BY <1>1, <3>1, Bounds DEF HistoryIInv, FrameHolds, Times
    <3>3. a.t = frame.base /\ a.bmp = frame.start
      BY <3>1 DEF Anchor
    <3>4. Ordered(posts, now) /\ Skews(posts, skewed, ag.next)
      BY DEF HistoryIInv
    <3>5. PICK t, miss : t = frame.t /\ miss = Lacked(posts, skewed, a.t)
      OBVIOUS
    <3>6. PICK b : b = Fold(posts, a.bmp, Between(posts, a.t, t))
      OBVIOUS
    <3>7. a.t \in Nat /\ t \in Nat /\ a.t <= t
      BY <3>2, <3>3, <3>5
    <3>8. /\ b = Fold(posts, Blank, UntilThen(posts, t) \ miss)
          /\ OfThePast(posts, b, t)
      BY <3>2, <3>4, <3>5, <3>6, <3>7, FoldFrom
    <3>9. Window = Between(posts, a.t, t) /\ Lacking(frame.base) = miss
      BY <3>3, <3>5 DEF Window, FromBase, Between, Lacking, Lacked
    <3>10. Painted(frame.start, Window) = b
      BY <3>3, <3>6, <3>9, PaintedIs
    <3>11. reply' = Reply(t, b, Len(posts), miss)
      BY <1>1, <2>2, <3>5, <3>9, <3>10
    <3>12. /\ reply'.kind = "frame" /\ reply'.t = t /\ reply'.bmp = b /\ reply'.seen = Len(posts)
           /\ reply'.missing = miss
      BY <3>11 DEF Reply
    <3>13. FrameIsFold'
      <4>1. \A m, s : Painted(m, s)' = Fold(posts', m, s)
        BY DEF Painted, Fold, On, OnCell
      <4>2. {k \in 1..reply'.seen : posts'[k].t <= reply'.t} = UntilThen(posts, t)
        BY <1>1, <3>12 DEF UntilThen
      <4> QED
        BY <1>1, <3>8, <3>12, <4>1, <4>2 DEF FrameIsFold
    <3>14. NothingFromLater'
      BY <1>1, <3>8, <3>12 DEF NothingFromLater, OfThePast
    <3> QED
      BY <3>12, <3>13, <3>14 DEF ReplyHolds, FramesAreTrue
  <2> QED
    BY <2>1, <2>2
<1>20. phase = "warming" => frame' = NoFrame
  BY <1>1
<1> QED
  BY <1>1, <1>2, <1>3, <1>20, FrameSteps

LEMMA FrameFailsKeeps ==
  ASSUME HistoryIInv, reply = NoReply, FrameFails
  PROVE  HistoryIInv'
<1>1. /\ frame' = NoFrame /\ reply' = [kind |-> "error"]
      /\ UNCHANGED <<role, now, posts, phase, canvas, ag, skewed, restarts>>
  BY DEF FrameFails
<1>2. FrameHolds(frame', posts, skewed, now, ag.next)
  BY <1>1 DEF FrameHolds
<1>3. ReplyHolds'
  BY <1>1 DEF ReplyHolds
<1>20. phase = "warming" => frame' = NoFrame
  BY <1>1
<1> QED
  BY <1>1, <1>2, <1>3, <1>20, FrameSteps

LEMMA SentKeeps ==
  ASSUME HistoryIInv, ReplySent
  PROVE  HistoryIInv'
<1>1. /\ reply' = NoReply
      /\ UNCHANGED <<role, now, posts, phase, canvas, ag, frame, skewed, restarts>>
  BY DEF ReplySent
<1>2. FrameHolds(frame', posts, skewed, now, ag.next)
  BY <1>1 DEF HistoryIInv
<1>3. ReplyHolds'
  BY <1>1 DEF ReplyHolds
<1>20. phase = "warming" => frame' = NoFrame
  BY <1>1 DEF HistoryIInv, Overtaken
<1> QED
  BY <1>1, <1>2, <1>3, <1>20, FrameSteps

LEMMA StutterKeeps ==
  ASSUME HistoryIInv, UNCHANGED historyVars
  PROVE  HistoryIInv'
<1>1. UNCHANGED <<role, now, posts, phase, canvas, ag, frame, reply, skewed, restarts>>
  BY DEF historyVars
<1>2. FrameHolds(frame', posts, skewed, now, ag.next)
  BY <1>1 DEF HistoryIInv
<1>3. ReplyHolds'
  <2>1. \A b, s : Painted(b, s)' = Painted(b, s)
    BY <1>1 DEF Painted, On
  <2>2. FrameIsFold' <=> FrameIsFold
    BY <1>1, <2>1 DEF FrameIsFold
  <2>3. NothingFromLater' <=> NothingFromLater
    BY <1>1 DEF NothingFromLater
  <2> QED
    BY <1>1, <2>2, <2>3 DEF HistoryIInv, ReplyHolds, FramesAreTrue
<1>20. phase = "warming" => frame' = NoFrame
  BY <1>1 DEF HistoryIInv, Overtaken
<1> QED
  BY <1>1, <1>2, <1>3, <1>20, FrameSteps

LEMMA HistorySteps == HistoryIInv /\ [HistoryNext]_historyVars => HistoryIInv'
<1> SUFFICES ASSUME HistoryIInv, [HistoryNext]_historyVars PROVE HistoryIInv'
  OBVIOUS
<1>1. CASE ReplySent
  BY <1>1, SentKeeps
<1>2. CASE reply = NoReply /\ Serving
  <2>1. CASE Tick
    BY <1>2, <2>1, TickKeeps
  <2>2. CASE \E c \in Cells, col \in Colors : Post(c, col)
    BY <1>2, <2>2, PostKeeps
  <2>3. CASE \E saved \in BOOLEAN : ConfirmApply(saved)
    BY <1>2, <2>3, ConfirmKeeps
  <2>4. CASE \E saved \in BOOLEAN : ApplyEvent(saved)
    BY <1>2, <2>4, EventKeeps
  <2>5. CASE \E saved \in BOOLEAN : WarmFold(saved)
    BY <1>2, <2>5, WarmFoldKeeps
  <2>6. CASE \E saved \in BOOLEAN : WarmEnd(saved)
    BY <1>2, <2>6, WarmEndKeeps
  <2>7. CASE Restart
    BY <1>2, <2>7, RestartKeeps
  <2>8. CASE \E t \in Times : FrameNow(t)
    BY <1>2, <2>8, FrameNowKeeps
  <2>9. CASE \E t \in Times : FrameBegin(t)
    BY <1>2, <2>9, FrameBeginKeeps
  <2>10. CASE FrameFails
    BY <1>2, <2>10, FrameFailsKeeps
  <2>11. CASE FrameEnd
    BY <1>2, <2>11, FrameEndKeeps
  <2> QED
    BY <1>2, <2>1, <2>2, <2>3, <2>4, <2>5, <2>6, <2>7, <2>8, <2>9, <2>10, <2>11 DEF Serving
<1>3. CASE UNCHANGED historyVars
  BY <1>3, StutterKeeps
<1> QED
  BY <1>1, <1>2, <1>3 DEF HistoryNext

(* Every reachable state of the time-travel history satisfies the          *)
(* inductive invariant.                                                    *)
THEOREM HistoryInvariance == HistorySpec => []HistoryIInv
<1> QED
  BY HistoryStarts, HistorySteps, PTL DEF HistorySpec

(* The grid of checkpoints has no gaps, a true pool, and keeps within its  *)
(* caps, whatever the caps are (syncTo, fillTo, insert, evict, WarmCache). *)
THEOREM GridWhole == HistorySpec => [](HistoryTypeOK /\ GridIsWhole)
<1>1. HistoryIInv => HistoryTypeOK /\ GridIsWhole
  BY GridTyped
<1> QED
  BY <1>1, HistoryInvariance, PTL

(* Every frame is true to its time, for every number of cells, length of   *)
(* the ledger, interval and cap (FrameAt, checkpoint, foldFrom).           *)
THEOREM FramesTrue == HistorySpec => []FramesAreTrue
<1>1. HistoryIInv => FramesAreTrue
  BY Replies DEF HistoryIInv
<1> QED
  BY <1>1, HistoryInvariance, PTL

(***************************************************************************)
(* The anchor sidecar file.  The scan is proved about for any file, from   *)
(* its definition as a loop.  The inductive invariant SidecarIInv says how *)
(* far the file is whole: some first part of it scans without a stop and   *)
(* gives back everything that was safe, and before any damage that part is *)
(* all of it.                                                              *)
(***************************************************************************)
Heads == [kind : {"head"}, t : 1..MaxEvictions, state : States, len : {0, Payload}]
Parts == [kind : {"body"}, state : States, part : 1..Payload]
Units == Heads \cup Parts \cup {Stub}
Spots == [off : Nat, len : {Payload}]
Refs(lens) == [t : 1..MaxEvictions, state : States, off : Nat, len : lens]
Tables == UNION {[S -> Spots] : S \in SUBSET States}

LEMMA Limits ==
  /\ Payload \in Nat /\ Payload > 0 /\ MaxEvictions \in Nat /\ MaxBoots \in Nat /\ MaxFaults \in Nat
  /\ None \notin States
  BY SidecarAssumption

LEMMA HeadUnit ==
  ASSUME NEW u \in Units
  PROVE  /\ u.kind = "head" => u \in Heads /\ u.t \in 1..MaxEvictions /\ u.state \in States /\ u.len \in {0, Payload}
         /\ u.kind = "body" => u \in Parts
         /\ u.kind \in {"head", "body", "stub"}
<1>1. CASE u \in Heads
  BY <1>1 DEF Heads
<1>2. CASE u \in Parts
  BY <1>2 DEF Parts
<1>3. CASE u = Stub
  BY <1>3 DEF Stub
<1> QED
  BY <1>1, <1>2, <1>3 DEF Units

LEMMA TableIs ==
  ASSUME NEW b \in Tables
  PROVE  DOMAIN b \subseteq States /\ \A s \in DOMAIN b : b[s] \in Spots
<1>1. PICK S \in SUBSET States : b \in [S -> Spots]
  BY DEF Tables
<1> QED
  BY <1>1

LEMMA TableOf ==
  ASSUME NEW S \in SUBSET States, NEW b \in [S -> Spots]
  PROVE  b \in Tables
  BY DEF Tables

LEMMA NoBlobsTable == NoBlobs \in Tables /\ DOMAIN NoBlobs = {}
<1>1. NoBlobs \in [{} -> Spots]
  BY DEF NoBlobs
<1> QED
  BY <1>1, TableOf

(* A blob is entered into a table.                                         *)
Entered(b, s, loc) == [x \in DOMAIN b \cup {s} |-> IF x = s THEN loc ELSE b[x]]

LEMMA EnteredIs ==
  ASSUME NEW b \in Tables, NEW s \in States, NEW loc \in Spots
  PROVE  /\ Entered(b, s, loc) \in Tables
         /\ DOMAIN Entered(b, s, loc) = DOMAIN b \cup {s}
         /\ Entered(b, s, loc)[s] = loc
         /\ \A x \in DOMAIN b : x # s => Entered(b, s, loc)[x] = b[x]
<1>1. DOMAIN b \subseteq States /\ \A x \in DOMAIN b : b[x] \in Spots
  BY TableIs
<1>2. Entered(b, s, loc) \in [DOMAIN b \cup {s} -> Spots]
  BY <1>1 DEF Entered
<1>3. DOMAIN b \cup {s} \in SUBSET States
  BY <1>1
<1>4. Entered(b, s, loc) \in Tables
  BY <1>2, <1>3, TableOf
<1> QED
  BY <1>4 DEF Entered

(***************************************************************************)
(* The scan, of any file.                                                  *)
(***************************************************************************)
Files == Seq(Units)
Accs == [pos : Nat, stop : BOOLEAN, entries : Seq(Refs({Payload})), blobs : Tables]

StepOn(f, acc, i) ==
    LET u == f[i] IN
    IF acc.stop \/ i # acc.pos THEN acc
    ELSE IF \/ u.kind # "head"
            \/ u.len = 0 /\ u.state \notin DOMAIN acc.blobs
            \/ i + u.len > Len(f)
         THEN [acc EXCEPT !.stop = TRUE]
    ELSE LET loc == IF u.len = 0 THEN acc.blobs[u.state] ELSE [off |-> i, len |-> u.len] IN
         [acc EXCEPT !.pos = i + u.len + 1,
                     !.entries = Append(@, Ref(u.t, u.state, loc)),
                     !.blobs = [x \in DOMAIN @ \cup {u.state} |-> IF x = u.state THEN loc ELSE @[x]]]

(* What a scan takes from a record: where it finds the bitmap, and whether *)
(* it goes on.                                                             *)
Spot(f, acc, i) == IF f[i].len = 0 THEN acc.blobs[f[i].state] ELSE [off |-> i, len |-> f[i].len]
Taken(f, acc, i) ==
    /\ f[i].kind = "head"
    /\ f[i].len = 0 => f[i].state \in DOMAIN acc.blobs
    /\ i + f[i].len <= Len(f)
Stopped(acc) == [acc EXCEPT !.stop = TRUE]
Passed(f, acc, i) ==
    [acc EXCEPT !.pos = i + f[i].len + 1,
                !.entries = Append(@, Ref(f[i].t, f[i].state, Spot(f, acc, i))),
                !.blobs = Entered(@, f[i].state, Spot(f, acc, i))]

LEMMA StepCases ==
  ASSUME NEW f \in Files, NEW acc \in Accs, NEW i \in 1..Len(f)
  PROVE  /\ acc.stop \/ i # acc.pos => StepOn(f, acc, i) = acc
         /\ ~acc.stop /\ i = acc.pos /\ ~Taken(f, acc, i) => StepOn(f, acc, i) = Stopped(acc)
         /\ ~acc.stop /\ i = acc.pos /\ Taken(f, acc, i) => StepOn(f, acc, i) = Passed(f, acc, i)
<1>1. f[i] \in Units
  BY DEF Files
<1>2. f[i].kind = "head" => f[i].len \in Nat
  BY <1>1, HeadUnit, Limits
<1>3. ASSUME acc.stop \/ i # acc.pos PROVE StepOn(f, acc, i) = acc
  BY <1>3 DEF StepOn
<1>4. ASSUME ~acc.stop, i = acc.pos, ~Taken(f, acc, i) PROVE StepOn(f, acc, i) = Stopped(acc)
  <2>1. f[i].kind # "head" \/ (f[i].len = 0 /\ f[i].state \notin DOMAIN acc.blobs) \/ i + f[i].len > Len(f)
    BY <1>2, <1>4 DEF Taken, Files
  <2> QED
    BY <1>4, <2>1 DEF StepOn, Stopped
<1>5. ASSUME ~acc.stop, i = acc.pos, Taken(f, acc, i) PROVE StepOn(f, acc, i) = Passed(f, acc, i)
  <2>1. ~(f[i].kind # "head" \/ (f[i].len = 0 /\ f[i].state \notin DOMAIN acc.blobs) \/ i + f[i].len > Len(f))
    BY <1>2, <1>5 DEF Taken, Files
  <2> QED
    BY <1>5, <2>1 DEF StepOn, Passed, Spot, Entered
<1> QED
  BY <1>3, <1>4, <1>5

LEMMA TakenIs ==
  ASSUME NEW f \in Files, NEW acc \in Accs, NEW i \in 1..Len(f), Taken(f, acc, i)
  PROVE  /\ f[i].t \in 1..MaxEvictions /\ f[i].state \in States /\ f[i].len \in {0, Payload}
         /\ Spot(f, acc, i) \in Spots
         /\ Ref(f[i].t, f[i].state, Spot(f, acc, i)) \in Refs({Payload})
<1>1. f[i].t \in 1..MaxEvictions /\ f[i].state \in States /\ f[i].len \in {0, Payload}
  BY HeadUnit DEF Files, Taken
<1>2. Spot(f, acc, i) \in Spots
  <2>1. CASE f[i].len = 0
    <3>1. f[i].state \in DOMAIN acc.blobs /\ acc.blobs \in Tables
      BY <2>1 DEF Taken, Accs
    <3> QED
      BY <2>1, <3>1, TableIs DEF Spot
  <2>2. CASE f[i].len # 0
    BY <1>1, <2>2 DEF Spot, Spots
  <2> QED
    BY <2>1, <2>2
<1> QED
  BY <1>1, <1>2 DEF Ref, Refs, Spots

LEMMA NextIs ==
  ASSUME NEW f \in Files, NEW acc \in Accs, NEW i \in 1..Len(f), Taken(f, acc, i)
  PROVE  /\ Passed(f, acc, i) \in Accs
         /\ Passed(f, acc, i).pos = i + f[i].len + 1
         /\ Passed(f, acc, i).stop = acc.stop
         /\ Passed(f, acc, i).entries = Append(acc.entries, Ref(f[i].t, f[i].state, Spot(f, acc, i)))
         /\ Passed(f, acc, i).blobs = Entered(acc.blobs, f[i].state, Spot(f, acc, i))
<1>1. /\ f[i].t \in 1..MaxEvictions /\ f[i].state \in States /\ f[i].len \in {0, Payload}
      /\ Spot(f, acc, i) \in Spots
      /\ Ref(f[i].t, f[i].state, Spot(f, acc, i)) \in Refs({Payload})
  BY TakenIs
<1>2. Entered(acc.blobs, f[i].state, Spot(f, acc, i)) \in Tables
  BY <1>1, EnteredIs DEF Accs
<1>3. i + f[i].len + 1 \in Nat
  BY <1>1, Limits
<1>4. Append(acc.entries, Ref(f[i].t, f[i].state, Spot(f, acc, i))) \in Seq(Refs({Payload}))
  BY <1>1 DEF Accs
<1> QED
  BY <1>2, <1>3, <1>4 DEF Passed, Accs

LEMMA StepType ==
  ASSUME NEW f \in Files, NEW acc \in Accs, NEW i \in 1..Len(f)
  PROVE  StepOn(f, acc, i) \in Accs
<1>1. CASE acc.stop \/ i # acc.pos
  BY <1>1, StepCases
<1>2. CASE ~acc.stop /\ i = acc.pos /\ ~Taken(f, acc, i)
  <2>1. Stopped(acc) \in Accs
    BY DEF Accs, Stopped
  <2> QED
    BY <1>2, <2>1, StepCases
<1>3. CASE ~acc.stop /\ i = acc.pos /\ Taken(f, acc, i)
  BY <1>3, StepCases, NextIs
<1> QED
  BY <1>1, <1>2, <1>3
(* A step leaves the index as it is, or takes a record.                    *)
LEMMA StepEither ==
  ASSUME NEW f \in Files, NEW acc \in Accs, NEW i \in 1..Len(f)
  PROVE  \/ /\ StepOn(f, acc, i).entries = acc.entries /\ StepOn(f, acc, i).blobs = acc.blobs
            /\ StepOn(f, acc, i).pos = acc.pos
         \/ /\ ~acc.stop /\ i = acc.pos /\ Taken(f, acc, i) /\ StepOn(f, acc, i) = Passed(f, acc, i)
<1>1. CASE acc.stop \/ i # acc.pos
  BY <1>1, StepCases
<1>2. CASE ~acc.stop /\ i = acc.pos /\ ~Taken(f, acc, i)
  <2>1. StepOn(f, acc, i) = Stopped(acc)
    BY <1>2, StepCases
  <2>2. Stopped(acc).entries = acc.entries /\ Stopped(acc).blobs = acc.blobs
        /\ Stopped(acc).pos = acc.pos
    BY DEF Accs, Stopped
  <2> QED
    BY <2>1, <2>2
<1>3. CASE ~acc.stop /\ i = acc.pos /\ Taken(f, acc, i)
  BY <1>3, StepCases
<1> QED
  BY <1>1, <1>2, <1>3

ScanOf(f) ==
    LET scan[i \in 0..Len(f)] == IF i = 0 THEN Unscanned ELSE StepOn(f, scan[i - 1], i)
    IN  scan

IsScan(g, f) ==
    /\ g \in [0..Len(f) -> Accs]
    /\ g[0] = Unscanned
    /\ \A n \in 1..Len(f) : g[n] = StepOn(f, g[n - 1], n)

LEMMA UnscannedType == Unscanned \in Accs
  BY NoBlobsTable, EmptySeq DEF Unscanned, Accs

LEMMA ScanIs ==
  ASSUME NEW f \in Files
  PROVE  IsScan(ScanOf(f), f)
<1> DEFINE N == Len(f)
           Step == [x \in Accs \X (1..N) |-> StepOn(f, x[1], x[2])]
           Body_(g) == [n \in 0..N |-> IF n = 0 THEN Unscanned ELSE StepOn(f, g[n - 1], n)]
           F == CHOOSE g : g = Body_(g)
<1>0. N \in Nat
  BY DEF Files
<1>1. Step \in [Accs \X (1..N) -> Accs]
  <2>1. ASSUME NEW x \in Accs \X (1..N) PROVE StepOn(f, x[1], x[2]) \in Accs
    BY StepType
  <2> QED
    BY <2>1
<1>2. PICK G \in [Accs \X (1..N) -> Accs] : \A a \in Accs, n \in 1..N : G[<<a, n>>] = StepOn(f, a, n)
  <2>1. \A a \in Accs, n \in 1..N : Step[<<a, n>>] = StepOn(f, a, n)
    OBVIOUS
  <2> HIDE DEF Step
  <2> QED
    BY <1>1, <2>1
<1>3. PICK g : g \in [0..N -> Accs] /\ g[0] = Unscanned /\ \A n \in 1..N : g[n] = G[<<g[n - 1], n>>]
  <2> HIDE DEF Body_, F, Step
  <2>1. \E g : IsLoop(g, Accs, Unscanned, N, G)
    <3> HIDE DEF N
    <3> QED
      BY <1>0, UnscannedType, Recursion
  <2> QED
    BY <2>1 DEF IsLoop
<1>4. \A n \in 1..N : g[n] = StepOn(f, g[n - 1], n)
  <2>1. \A n \in 1..N : g[n - 1] \in Accs
    BY <1>3
  <2> HIDE DEF N
  <2> QED
    BY <1>2, <1>3, <2>1
<1>5. g = Body_(g)
  <2>1. \A n \in 0..N : n = 0 \/ n \in 1..N
    OBVIOUS
  <2>2. \A n \in 0..N : g[n] = IF n = 0 THEN Unscanned ELSE StepOn(f, g[n - 1], n)
    BY <1>3, <1>4, <2>1
  <2> QED
    BY <1>3, <2>2
<1>6. F = Body_(F)
  <2> HIDE DEF Body_
  <2> QED
    BY <1>5
<1>7. ScanOf(f) = F
  BY DEF ScanOf
<1> HIDE DEF F
<1>8. F[0] = Unscanned
  <2>1. 0 \in 0..N
    BY <1>0
  <2> QED
    BY <1>6, <2>1
<1>9. ASSUME NEW n \in 1..N PROVE F[n] = StepOn(f, F[n - 1], n)
  <2>1. n \in 0..N /\ n # 0
    OBVIOUS
  <2> QED
    BY <1>6, <2>1
<1> DEFINE T == {n \in 0..N : F[n] \in Accs}
<1>10. \A n \in 0..N : n \in T
  <2>1. 0 \in T
    BY <1>0, <1>8, UnscannedType
  <2>2. ASSUME NEW n \in 1..N, n - 1 \in T PROVE n \in T
    <3>1. F[n - 1] \in Accs
      BY <2>2
    <3>2. StepOn(f, F[n - 1], n) \in Accs
      BY <3>1, StepType
    <3> QED
      BY <1>9, <3>2
  <2> HIDE DEF T, N
  <2> QED
    BY <1>0, <2>1, <2>2, Induction
<1>11. F \in [0..N -> Accs]
  <2>1. F = [n \in 0..N |-> F[n]]
    BY <1>6
  <2> HIDE DEF N
  <2> QED
    BY <1>10, <2>1
<1> QED
  BY <1>7, <1>8, <1>9, <1>11 DEF IsScan

LEMMA ScannedIs ==
  ASSUME file \in Files
  PROVE  Scanned = ScanOf(file)[Len(file)]
<1>1. \A acc, i : ScanStep(acc, i) = StepOn(file, acc, i)
  BY DEF ScanStep, StepOn
<1> QED
  BY <1>1 DEF Scanned, ScanOf

(* One record after the other; once stopped, it stays so.                  *)
LEMMA ScanStopped ==
  ASSUME NEW f \in Files, NEW n \in 0..Len(f), ~ScanOf(f)[n].stop
  PROVE  \A k \in 0..n : ~ScanOf(f)[k].stop
<1> DEFINE N == Len(f)
           g == ScanOf(f)
           T == {k \in 0..n : ~g[n - k].stop}
<1>0. n \in Nat /\ N \in Nat /\ n <= N
  BY DEF Files
<1>1. IsScan(g, f)
  BY ScanIs
<1> HIDE DEF g
<1>2. 0 \in T
  BY <1>0 DEF g
<1>3. ASSUME NEW k \in 1..n, k - 1 \in T PROVE k \in T
  <2>1. n - k \in 0..N /\ n - k + 1 \in 1..N /\ n - (k - 1) = n - k + 1 /\ (n - k + 1) - 1 = n - k
    BY <1>0
  <2>2. PICK j \in 1..N : j = n - k + 1
    BY <2>1
  <2>3. g[j - 1] \in Accs /\ g[j] = StepOn(f, g[j - 1], j) /\ ~g[j].stop
    BY <1>1, <1>3, <2>1, <2>2 DEF IsScan
  <2>4. ~g[j - 1].stop
    BY <2>3, StepCases
  <2> QED
    BY <2>1, <2>2, <2>4
<1>4. \A k \in 0..n : k \in T
  <2> HIDE DEF T
  <2> QED
    BY <1>0, <1>2, <1>3, Induction
<1>5. ASSUME NEW k \in 0..n PROVE ~g[k].stop
  <2>1. n - k \in 0..n /\ n - (n - k) = k
    BY <1>0
  <2> QED
    BY <1>4, <2>1
<1> QED
  BY <1>5 DEF g

(* The index of what is scanned only grows.                                *)
Prefix(s, t) == Len(s) <= Len(t) /\ \A k \in 1..Len(s) : t[k] = s[k]

LEMMA ScanGrows ==
  ASSUME NEW f \in Files, NEW n \in 0..Len(f)
  PROVE  \A k \in n..Len(f) : Prefix(ScanOf(f)[n].entries, ScanOf(f)[k].entries)
<1> DEFINE N == Len(f)
           g == ScanOf(f)
           T == {k \in 0..N : k >= n => Prefix(g[n].entries, g[k].entries)}
<1>0. n \in Nat /\ N \in Nat /\ n <= N
  BY DEF Files
<1>1. IsScan(g, f)
  BY ScanIs
<1> HIDE DEF g
<1>2. g[n].entries \in Seq(Refs({Payload}))
  BY <1>0, <1>1 DEF IsScan, Accs
<1>3. Prefix(g[n].entries, g[n].entries)
  BY <1>2 DEF Prefix
<1>4. 0 \in T
  BY <1>0, <1>3
<1>5. ASSUME NEW k \in 1..N, k - 1 \in T PROVE k \in T
  <2>1. CASE k > n
    <3>1. k - 1 >= n /\ k - 1 \in 0..N
      BY <1>0, <2>1
    <3>2. Prefix(g[n].entries, g[k - 1].entries)
      BY <1>5, <3>1
    <3>3. g[k - 1] \in Accs /\ g[k] = StepOn(f, g[k - 1], k)
      BY <1>1, <3>1 DEF IsScan
    <3>4. PICK acc \in Accs : acc = g[k - 1]
      BY <3>3
    <3>5. CASE g[k].entries = acc.entries
      BY <3>2, <3>4, <3>5
    <3>6. CASE Taken(f, acc, k) /\ g[k] = Passed(f, acc, k)
      <4>1. Ref(f[k].t, f[k].state, Spot(f, acc, k)) \in Refs({Payload})
        BY <3>6, TakenIs
      <4>2. PICK r \in Refs({Payload}) : r = Ref(f[k].t, f[k].state, Spot(f, acc, k))
        BY <4>1
      <4>3. g[k].entries = Append(acc.entries, r)
        BY <3>6, <4>2, NextIs
      <4>4. acc.entries \in Seq(Refs({Payload}))
        BY DEF Accs
      <4>5. /\ Len(Append(acc.entries, r)) = Len(acc.entries) + 1 /\ Len(acc.entries) \in Nat
            /\ \A i \in 1..Len(acc.entries) : Append(acc.entries, r)[i] = acc.entries[i]
        BY <4>4, AppendProperties
      <4>6. Len(g[n].entries) <= Len(acc.entries) /\ \A i \in 1..Len(g[n].entries) : acc.entries[i] = g[n].entries[i]
        BY <3>2, <3>4 DEF Prefix
      <4>7. Len(g[n].entries) \in Nat
        BY <1>2
      <4>8. Prefix(g[n].entries, g[k].entries)
        BY SMTT(40), <4>3, <4>5, <4>6, <4>7 DEF Prefix
      <4> QED
        BY <4>8
    <3> QED
      BY <3>3, <3>4, <3>5, <3>6, StepEither
  <2>2. CASE k = n
    BY <1>3, <2>2
  <2>3. CASE k < n
    BY <1>0, <2>3
  <2> QED
    BY <1>0, <2>1, <2>2, <2>3
<1>6. \A k \in 0..N : k \in T
  <2> HIDE DEF T
  <2> QED
    BY <1>0, <1>4, <1>5, Induction
<1>7. ASSUME NEW k \in n..N PROVE Prefix(g[n].entries, g[k].entries)
  BY <1>0, <1>6, <1>7
<1> QED
  BY <1>7 DEF g

(***************************************************************************)
(* What a scan finds.                                                      *)
(***************************************************************************)
Readable(f, s, loc) ==
    /\ loc.len = Payload /\ loc.off + Payload <= Len(f)
    /\ \A i \in 1..Payload : f[loc.off + i] = Body(s, i)
Stands(f, ref, w) == ref.t = w[1] /\ ref.state = w[2] /\ Readable(f, ref.state, ref)

(* The records of the first n units are whole, and give back what is safe. *)
Intact(f, n, sf) ==
    LET acc == ScanOf(f)[n] IN
    /\ acc.pos = n + 1 /\ ~acc.stop
    /\ \A s \in DOMAIN acc.blobs : Readable(f, s, acc.blobs[s])
    /\ \A w \in sf : \E k \in 1..Len(acc.entries) : Stands(f, acc.entries[k], w)

(* One file continues another.                                             *)
Continues(h, f) == Len(f) <= Len(h) /\ \A i \in 1..Len(f) : h[i] = f[i]

LEMMA ReadableStill ==
  ASSUME NEW f \in Files, NEW h \in Files, Continues(h, f), NEW s, NEW loc, loc.off \in Nat, Readable(f, s, loc)
  PROVE  Readable(h, s, loc)
<1>1. Len(f) \in Nat /\ Len(h) \in Nat
  BY DEF Files
<1>2. loc.len = Payload /\ loc.off + Payload <= Len(h)
  BY <1>1, Limits DEF Readable, Continues
<1>3. ASSUME NEW i \in 1..Payload PROVE h[loc.off + i] = Body(s, i)
  <2>1. loc.off + i \in 1..Len(f)
    BY SMTT(40), <1>1, Limits DEF Readable
  <2>2. f[loc.off + i] = Body(s, i)
    BY DEF Readable
  <2> QED
    BY <2>1, <2>2 DEF Continues
<1> QED
  BY <1>2, <1>3 DEF Readable

(* What was whole stays whole when the file goes on.                       *)
LEMMA ScanContinues ==
  ASSUME NEW f \in Files, NEW h \in Files, Continues(h, f), NEW n \in 0..Len(f), ~ScanOf(f)[n].stop
  PROVE  \A k \in 0..n : ScanOf(h)[k] = ScanOf(f)[k]
<1> DEFINE N == Len(f)
           g == ScanOf(f)
           e == ScanOf(h)
           T == {k \in 0..n : e[k] = g[k]}
<1>0. n \in Nat /\ N \in Nat /\ n <= N /\ Len(h) \in Nat /\ N <= Len(h)
  BY DEF Files, Continues
<1>1. IsScan(g, f) /\ IsScan(e, h)
  BY ScanIs
<1>2. \A k \in 0..n : ~g[k].stop
  BY ScanStopped
<1> HIDE DEF g, e
<1>3. 0 \in T
  BY <1>0, <1>1 DEF IsScan
<1>4. ASSUME NEW k \in 1..n, k - 1 \in T PROVE k \in T
  <2>1. k \in 1..N /\ k \in 1..Len(h) /\ k - 1 \in 0..n /\ k - 1 \in 0..N
    BY <1>0
  <2>2. PICK acc \in Accs : acc = g[k - 1]
    BY <1>1, <2>1 DEF IsScan
  <2>3. g[k] = StepOn(f, acc, k) /\ e[k] = StepOn(h, acc, k)
    BY <1>1, <1>4, <2>1, <2>2 DEF IsScan
  <2>4. ~acc.stop /\ ~g[k].stop
    BY <1>2, <2>1, <2>2
  <2>5. CASE k # acc.pos
    BY <2>1, <2>3, <2>5, StepCases
  <2>6. CASE k = acc.pos
    <3>1. Taken(f, acc, k)
      <4>1. SUFFICES ASSUME ~Taken(f, acc, k) PROVE FALSE
        OBVIOUS
      <4>2. g[k] = Stopped(acc)
        BY <2>1, <2>3, <2>4, <2>6, <4>1, StepCases
      <4>3. Stopped(acc).stop = TRUE
        BY DEF Accs, Stopped
      <4> QED
        BY <2>4, <4>2, <4>3
    <3>2. h[k] = f[k]
      BY <2>1 DEF Continues
    <3>3. f[k].len \in Nat
      BY <2>1, <3>1, TakenIs, Limits
    <3>4. Taken(h, acc, k) /\ Passed(h, acc, k) = Passed(f, acc, k)
      BY <1>0, <2>1, <3>1, <3>2, <3>3 DEF Taken, Passed, Spot
    <3> QED
      BY SMTT(40), <2>1, <2>3, <2>4, <2>6, <3>1, <3>4, StepCases
  <2> QED
    BY <2>5, <2>6
<1>5. \A k \in 0..n : k \in T
  <2> HIDE DEF T
  <2> QED
    BY <1>0, <1>3, <1>4, Induction
<1>6. \A k \in 0..n : e[k] = g[k]
  BY <1>5
<1> QED
  BY <1>6 DEF g, e

LEMMA EntriesTyped ==
  ASSUME NEW f \in Files, NEW n \in 0..Len(f)
  PROVE  /\ ScanOf(f)[n] \in Accs
         /\ ScanOf(f)[n].entries \in Seq(Refs({Payload}))
         /\ ScanOf(f)[n].blobs \in Tables
  BY ScanIs DEF IsScan, Accs

LEMMA IntactStill ==
  ASSUME NEW f \in Files, NEW h \in Files, Continues(h, f), NEW n \in 0..Len(f), NEW sf, Intact(f, n, sf)
  PROVE  Intact(h, n, sf)
<1>1. ScanOf(h)[n] = ScanOf(f)[n]
  BY ScanContinues DEF Intact
<1>2. PICK acc \in Accs : acc = ScanOf(f)[n]
  BY EntriesTyped
<1>3. acc.pos = n + 1 /\ ~acc.stop
  BY <1>2 DEF Intact
<1>4. ASSUME NEW s \in DOMAIN acc.blobs PROVE Readable(h, s, acc.blobs[s])
  <2>1. Readable(f, s, acc.blobs[s])
    BY <1>2 DEF Intact
  <2>2. acc.blobs[s].off \in Nat
    BY TableIs DEF Accs, Spots
  <2> QED
    BY <2>1, <2>2, ReadableStill
<1>5. ASSUME NEW w \in sf PROVE \E k \in 1..Len(acc.entries) : Stands(h, acc.entries[k], w)
  <2>1. PICK k \in 1..Len(acc.entries) : Stands(f, acc.entries[k], w)
    BY <1>2 DEF Intact
  <2>2. acc.entries[k].off \in Nat
    <3>1. acc.entries \in Seq(Refs({Payload}))
      BY DEF Accs
    <3>2. acc.entries[k] \in Refs({Payload})
      BY <3>1, ElementOfSeq
    <3> QED
      BY <3>2 DEF Refs
  <2>3. Readable(h, acc.entries[k].state, acc.entries[k])
    BY <2>1, <2>2, ReadableStill DEF Stands
  <2> QED
    BY <2>1, <2>3 DEF Stands
<1> QED
  BY <1>1, <1>2, <1>3, <1>4, <1>5 DEF Intact

(* Every entry is of a header in the file.                                 *)
Headed(f, ref) == \E j \in 1..Len(f) : f[j].kind = "head" /\ f[j].t = ref.t /\ f[j].state = ref.state

LEMMA EntriesHeaded ==
  ASSUME NEW f \in Files
  PROVE  \A n \in 0..Len(f) : \A k \in 1..Len(ScanOf(f)[n].entries) : Headed(f, ScanOf(f)[n].entries[k])
<1> DEFINE N == Len(f)
           g == ScanOf(f)
           T == {n \in 0..N : \A k \in 1..Len(g[n].entries) : Headed(f, g[n].entries[k])}
<1>0. N \in Nat
  BY DEF Files
<1>1. IsScan(g, f)
  BY ScanIs
<1> HIDE DEF g
<1>2. 0 \in T
  <2>1. g[0].entries = <<>>
    BY <1>1 DEF IsScan, Unscanned
  <2>2. Len(g[0].entries) = 0
    BY <2>1
  <2> QED
    BY <1>0, <2>2
<1>3. ASSUME NEW n \in 1..N, n - 1 \in T PROVE n \in T
  <2>1. PICK acc \in Accs : acc = g[n - 1]
    BY <1>0, <1>1 DEF IsScan
  <2>2. g[n] = StepOn(f, acc, n)
    BY <1>1, <2>1 DEF IsScan
  <2>3. \A k \in 1..Len(acc.entries) : Headed(f, acc.entries[k])
    BY <1>3, <2>1
  <2>4. CASE g[n].entries = acc.entries
    BY <2>3, <2>4
  <2>5. CASE Taken(f, acc, n) /\ g[n] = Passed(f, acc, n)
    <3>1. PICK r \in Refs({Payload}) : r = Ref(f[n].t, f[n].state, Spot(f, acc, n))
      BY <2>5, TakenIs
    <3>2. g[n].entries = Append(acc.entries, r)
      BY <2>5, <3>1, NextIs
    <3>3. Headed(f, r)
      BY <2>5, <3>1 DEF Headed, Taken, Ref
    <3>4. acc.entries \in Seq(Refs({Payload}))
      BY DEF Accs
    <3>5. \A k \in 1..Len(g[n].entries) : Headed(f, g[n].entries[k])
      <4> SUFFICES ASSUME NEW k \in 1..Len(g[n].entries) PROVE Headed(f, g[n].entries[k])
        OBVIOUS
      <4>1. g[n].entries[k] = r \/ (k \in 1..Len(acc.entries) /\ g[n].entries[k] = acc.entries[k])
        BY <3>2, <3>4, AppendProperties
      <4> QED
        BY <2>3, <3>3, <4>1
    <3> QED
      BY <3>5
  <2> QED
    BY <2>2, <2>4, <2>5, StepEither
<1>4. \A n \in 0..N : n \in T
  <2> HIDE DEF T
  <2> QED
    BY <1>0, <1>2, <1>3, Induction
<1> QED
  BY <1>4 DEF g

(* The units of a bitmap are passed over.                                  *)
LEMMA ScanSkips ==
  ASSUME NEW f \in Files, NEW n \in 0..Len(f)
  PROVE  \A k \in n..Len(f) : k < ScanOf(f)[n].pos => ScanOf(f)[k] = ScanOf(f)[n]
<1> DEFINE N == Len(f)
           g == ScanOf(f)
           T == {k \in 0..N : k >= n /\ k < g[n].pos => g[k] = g[n]}
<1>0. n \in Nat /\ N \in Nat /\ n <= N
  BY DEF Files
<1>1. IsScan(g, f)
  BY ScanIs
<1> HIDE DEF g
<1>2. PICK acc \in Accs : acc = g[n]
  BY <1>0, <1>1 DEF IsScan
<1>3. acc.pos \in Nat
  BY DEF Accs
<1>4. 0 \in T
  BY <1>0
<1>5. ASSUME NEW k \in 1..N, k - 1 \in T PROVE k \in T
  <2>1. SUFFICES ASSUME k >= n, k < acc.pos, k # n PROVE g[k] = acc
    BY <1>2
  <2>2. k - 1 >= n /\ k - 1 < acc.pos /\ k - 1 \in 0..N
    BY <1>0, <1>3, <2>1
  <2>3. g[k - 1] = acc
    BY <1>2, <1>5, <2>2
  <2>4. g[k] = StepOn(f, acc, k)
    BY <1>1, <2>3 DEF IsScan
  <2>5. k # acc.pos
    BY <1>3, <2>1
  <2> QED
    BY <2>4, <2>5, StepCases
<1>6. \A k \in 0..N : k \in T
  <2> HIDE DEF T
  <2> QED
    BY <1>0, <1>4, <1>5, Induction
<1>7. ASSUME NEW k \in n..N, k < g[n].pos PROVE g[k] = g[n]
  BY <1>0, <1>6, <1>7
<1> QED
  BY <1>7 DEF g

(* A whole record at the end of a file.                                    *)
EndsWith(h, f, t, s, len) ==
    /\ Continues(h, f)
    /\ Len(h) = Len(f) + 1 + len
    /\ h[Len(f) + 1] = HeadOf(t, s, len)
    /\ len # 0 => \A i \in 1..Payload : h[Len(f) + 1 + i] = Body(s, i)

LEMMA ScanRecord ==
  ASSUME NEW f \in Files, NEW h \in Files, NEW sf, Intact(f, Len(f), sf),
         NEW t \in 1..MaxEvictions, NEW s \in States, NEW len \in {0, Payload},
         EndsWith(h, f, t, s, len),
         len = 0 => s \in DOMAIN ScanOf(f)[Len(f)].blobs
  PROVE  /\ Intact(h, Len(h), sf \cup {<<t, s>>})
         /\ DOMAIN ScanOf(h)[Len(h)].blobs = DOMAIN ScanOf(f)[Len(f)].blobs \cup {s}
<1> DEFINE n == Len(f)
           m == Len(h)
<1>0. n \in Nat /\ m \in Nat /\ len \in Nat /\ Payload \in Nat /\ m = n + 1 + len /\ n + 1 \in 1..m /\ n \in 0..n
  BY Limits DEF Files, EndsWith
<1>1. Continues(h, f) /\ h[n + 1] = HeadOf(t, s, len)
  BY DEF EndsWith
<1> HIDE DEF n, m
<1>2. PICK acc \in Accs : acc = ScanOf(f)[n]
  BY <1>0, EntriesTyped DEF n
<1>3. acc.pos = n + 1 /\ ~acc.stop
  BY <1>2 DEF Intact, n
<1>4. ScanOf(h)[n] = acc
  BY <1>0, <1>1, <1>2, <1>3, ScanContinues DEF n
<1>5. h[n + 1].kind = "head" /\ h[n + 1].t = t /\ h[n + 1].state = s /\ h[n + 1].len = len
  BY <1>1 DEF HeadOf
<1>6. Taken(h, acc, n + 1)
  BY <1>0, <1>2, <1>5 DEF Taken, n, m
<1>7. ScanOf(h)[n + 1] = Passed(h, acc, n + 1)
  <2>1. ScanOf(h)[n + 1] = StepOn(h, acc, n + 1)
    <3>1. IsScan(ScanOf(h), h)
      BY ScanIs
    <3>2. (n + 1) - 1 = n /\ n + 1 \in 1..Len(h)
      BY <1>0 DEF m
    <3> QED
      BY <1>4, <3>1, <3>2 DEF IsScan
  <2> QED
    BY <1>0, <1>3, <1>6, <2>1, StepCases DEF m
<1> DEFINE loc == Spot(h, acc, n + 1)
<1>8. PICK end \in Accs : end = Passed(h, acc, n + 1)
  BY <1>0, <1>6, NextIs DEF m
<1>9. /\ end.pos = m + 1 /\ ~end.stop
      /\ end.entries = Append(acc.entries, Ref(t, s, loc)) /\ end.blobs = Entered(acc.blobs, s, loc)
      /\ loc \in Spots /\ Ref(t, s, loc) \in Refs({Payload})
  <2>1. end.pos = (n + 1) + len + 1 /\ end.stop = acc.stop
    BY <1>0, <1>5, <1>6, <1>8, NextIs DEF m
  <2>2. end.entries = Append(acc.entries, Ref(t, s, loc)) /\ end.blobs = Entered(acc.blobs, s, loc)
    BY SMTT(40), <1>0, <1>5, <1>6, <1>8, NextIs DEF m
  <2>3. loc \in Spots /\ Ref(t, s, loc) \in Refs({Payload})
    BY <1>0, <1>5, <1>6, TakenIs DEF m
  <2> QED
    BY <1>0, <1>3, <2>1, <2>2, <2>3
<1>10. loc = IF len = 0 THEN acc.blobs[s] ELSE [off |-> n + 1, len |-> len]
  BY <1>5 DEF Spot
<1> HIDE DEF loc
<1>11. ScanOf(h)[m] = end
  <2>1. m \in (n + 1)..Len(h) /\ n + 1 \in 0..Len(h) /\ m < end.pos
    BY <1>0, <1>9 DEF m
  <2> QED
    BY <1>7, <1>8, <2>1, ScanSkips
<1>12. acc.blobs \in Tables /\ acc.entries \in Seq(Refs({Payload}))
  BY DEF Accs
<1>13. \A x \in DOMAIN acc.blobs : Readable(h, x, acc.blobs[x])
  <2> SUFFICES ASSUME NEW x \in DOMAIN acc.blobs PROVE Readable(h, x, acc.blobs[x])
    OBVIOUS
  <2>1. Readable(f, x, acc.blobs[x])
    BY <1>2 DEF Intact, n
  <2>2. acc.blobs[x].off \in Nat
    BY <1>12, TableIs DEF Spots
  <2> QED
    BY <1>1, <2>1, <2>2, ReadableStill
<1>14. Readable(h, s, loc)
  <2>1. CASE len = 0
    BY <1>2, <1>10, <1>13, <2>1 DEF n
  <2>2. CASE len # 0
    <3>1. loc.off = n + 1 /\ loc.len = Payload /\ len = Payload
      BY <1>10, <2>2
    <3>2. \A i \in 1..Payload : h[n + 1 + i] = Body(s, i)
      BY <2>2 DEF EndsWith, n
    <3> QED
      BY <1>0, <3>1, <3>2 DEF Readable, m
  <2> QED
    BY <2>1, <2>2
<1>15. /\ DOMAIN end.blobs = DOMAIN acc.blobs \cup {s} /\ end.blobs[s] = loc
       /\ \A x \in DOMAIN acc.blobs : x # s => end.blobs[x] = acc.blobs[x]
  <2>1. PICK b \in Tables : b = acc.blobs
    BY <1>12
  <2>2. PICK l \in Spots : l = loc
    BY <1>9
  <2>3. /\ DOMAIN Entered(b, s, l) = DOMAIN b \cup {s} /\ Entered(b, s, l)[s] = l
        /\ \A x \in DOMAIN b : x # s => Entered(b, s, l)[x] = b[x]
    BY ZenonT(60), EnteredIs
  <2> QED
    BY <1>9, <2>1, <2>2, <2>3
<1>16. ASSUME NEW x \in DOMAIN end.blobs PROVE Readable(h, x, end.blobs[x])
  <2>1. CASE x = s
    BY <1>14, <1>15, <2>1
  <2>2. CASE x # s
    BY <1>13, <1>15, <2>2
  <2> QED
    BY <2>1, <2>2
<1>17. PICK r \in Refs({Payload}) : r = Ref(t, s, loc)
  BY <1>9
<1>18. /\ Len(end.entries) = Len(acc.entries) + 1 /\ Len(acc.entries) \in Nat
       /\ end.entries[Len(acc.entries) + 1] = r
       /\ \A k \in 1..Len(acc.entries) : end.entries[k] = acc.entries[k]
  BY <1>9, <1>12, <1>17, AppendProperties
<1>19. ASSUME NEW w \in sf \cup {<<t, s>>} PROVE \E k \in 1..Len(end.entries) : Stands(h, end.entries[k], w)
  <2>1. CASE w = <<t, s>>
    <3>1. r.t = t /\ r.state = s /\ r.off = loc.off /\ r.len = loc.len
      BY <1>17 DEF Ref
    <3>2. Stands(h, r, w)
      BY <1>14, <2>1, <3>1 DEF Stands, Readable
    <3>3. Len(acc.entries) + 1 \in 1..Len(end.entries)
      BY <1>18
    <3> QED
      BY <1>18, <3>2, <3>3
  <2>2. CASE w \in sf
    <3>1. PICK k \in 1..Len(acc.entries) : Stands(f, acc.entries[k], w)
      BY <1>2, <2>2 DEF Intact, n
    <3>2. acc.entries[k].off \in Nat
      <4>1. acc.entries[k] \in Refs({Payload})
        BY <1>12, ElementOfSeq
      <4> QED
        BY <4>1 DEF Refs
    <3>3. Readable(h, acc.entries[k].state, acc.entries[k])
      BY <1>1, <3>1, <3>2, ReadableStill DEF Stands
    <3>4. k \in 1..Len(end.entries) /\ end.entries[k] = acc.entries[k]
      BY <1>18, <3>1
    <3>5. Stands(h, acc.entries[k], w)
      BY <3>1, <3>3 DEF Stands
    <3> QED
      BY <3>4, <3>5
  <2> QED
    BY <2>1, <2>2
<1>20. Intact(h, m, sf \cup {<<t, s>>})
  BY <1>9, <1>11, <1>16, <1>19 DEF Intact
<1> QED
  BY <1>2, <1>11, <1>15, <1>20 DEF n, m

(***************************************************************************)
(* The invariant.                                                          *)
(***************************************************************************)
SidecarTyped ==
    /\ file \in Files
    /\ stage \in {"down", "delta", "up"}
    /\ evicted \in Seq(Refs({0, Payload}))
    /\ blobs \in Tables
    /\ last \in States \cup {None}
    /\ opened \in BOOLEAN /\ damaged \in BOOLEAN
    /\ evictions \in 0..MaxEvictions /\ boots \in 0..MaxBoots /\ faults \in 0..MaxFaults
    /\ minute \in 1..(evictions + 1)
    /\ safe \subseteq offered /\ offered \subseteq (1..MaxEvictions) \X States

(* Every header is of a checkpoint that was offered, and every entry.      *)
HeadsOffered == \A i \in 1..Len(file) : file[i].kind = "head" => <<file[i].t, file[i].state>> \in offered
IndexOffered == \A i \in 1..Len(evicted) : <<evicted[i].t, evicted[i].state>> \in offered

GoneWhenDown == stage = "down" => evicted = <<>> /\ blobs = NoBlobs /\ last = None

(* Before any damage all of the file is whole, and the memory knows no     *)
(* blob that a scan would not find; afterwards it is whole up to somewhere.*)
MemoryHolds(f, b) ==
    /\ DOMAIN b \subseteq DOMAIN ScanOf(f)[Len(f)].blobs
    /\ \A s \in DOMAIN b : Readable(f, s, b[s])
WholeFile == ~damaged => Intact(file, Len(file), safe) /\ MemoryHolds(file, blobs)
FileHolds == \E n \in 0..Len(file) : Intact(file, n, safe)
LastKnown == stage # "up" \/ ~damaged => last = None \/ last \in DOMAIN blobs
IndexHolds == stage = "up" => \A w \in safe : \E i \in 1..Len(evicted) : Stands(file, evicted[i], w)

SidecarIInv ==
    /\ SidecarTyped
    /\ HeadsOffered /\ IndexOffered
    /\ GoneWhenDown
    /\ WholeFile /\ FileHolds
    /\ LastKnown
    /\ IndexHolds

LEMMA HeadOfUnit == \A t \in 1..MaxEvictions, s \in States, len \in {0, Payload} : HeadOf(t, s, len) \in Units /\ HeadOf(t, s, len).kind = "head" /\ HeadOf(t, s, len).t = t /\ HeadOf(t, s, len).state = s
  BY DEF HeadOf, Units, Heads

LEMMA BodyUnit == \A s \in States, i \in 1..Payload : Body(s, i) \in Units /\ Body(s, i).kind # "head"
  BY DEF Body, Units, Parts

LEMMA StubUnit == Stub \in Units /\ Stub.kind # "head"
  BY DEF Stub, Units

(* A record, and the unit at each place of it.                             *)
LEMMA RecordIs ==
  ASSUME NEW t \in 1..MaxEvictions, NEW s \in States
  PROVE  /\ Record(t, s) \in Seq(Units)
         /\ Len(Record(t, s)) = IF Reuses(s) THEN 1 ELSE 1 + Payload
         /\ Record(t, s)[1] = HeadOf(t, s, IF Reuses(s) THEN 0 ELSE Payload)
         /\ ~Reuses(s) => \A i \in 1..Payload : Record(t, s)[1 + i] = Body(s, i)
         /\ \A i \in 2..Len(Record(t, s)) : Record(t, s)[i].kind # "head"
<1>1. CASE Reuses(s)
  <2>1. Record(t, s) = <<HeadOf(t, s, 0)>>
    BY <1>1 DEF Record
  <2>2. HeadOf(t, s, 0) \in Units
    BY HeadOfUnit
  <2> QED
    BY <1>1, <2>1, <2>2
<1>2. CASE ~Reuses(s)
  <2> DEFINE head == HeadOf(t, s, Payload)
  <2>1. Record(t, s) = <<head>> \o Bodies(s)
    BY <1>2 DEF Record
  <2>2. head \in Units
    BY HeadOfUnit
  <2> HIDE DEF head
  <2>3. Bodies(s) \in Seq(Units) /\ Len(Bodies(s)) = Payload /\ \A i \in 1..Payload : Bodies(s)[i] = Body(s, i)
    BY BodyUnit, Limits DEF Bodies
  <2>4. /\ <<head>> \in Seq(Units) /\ Len(<<head>>) = 1 /\ <<head>>[1] = head
    BY <2>2
  <2>5. /\ Record(t, s) \in Seq(Units) /\ Len(Record(t, s)) = 1 + Payload
        /\ \A i \in 1..(1 + Payload) : Record(t, s)[i] = IF i <= 1 THEN <<head>>[i] ELSE Bodies(s)[i - 1]
    BY <2>1, <2>3, <2>4, Limits, ConcatProperties
  <2>6. Record(t, s)[1] = head
    BY <2>4, <2>5, Limits
  <2>7. ASSUME NEW i \in 1..Payload PROVE Record(t, s)[1 + i] = Body(s, i)
    <3>1. 1 + i \in 1..(1 + Payload) /\ ~(1 + i <= 1) /\ (1 + i) - 1 = i
      BY Limits
    <3> QED
      BY <2>3, <2>5, <3>1
  <2>8. ASSUME NEW i \in 2..(1 + Payload) PROVE Record(t, s)[i].kind # "head"
    <3>1. i - 1 \in 1..Payload /\ 1 + (i - 1) = i
      BY Limits
    <3>2. Record(t, s)[i] = Body(s, i - 1)
      BY <2>7, <3>1
    <3> QED
      BY <3>1, <3>2, BodyUnit
  <2> QED
    BY <1>2, <2>5, <2>6, <2>7, <2>8 DEF head
<1> QED
  BY <1>1, <1>2

(* What is left of a record brings no other header.                        *)
HeadsOnly(part, t, s) ==
    \A i \in 1..Len(part) : part[i].kind = "head" => part[i].t = t /\ part[i].state = s

LEMMA TornIs ==
  ASSUME NEW t \in 1..MaxEvictions, NEW s \in States
  PROVE  /\ HeadsOnly(Record(t, s), t, s)
         /\ \A part \in Torn(Record(t, s)) : part \in Seq(Units) /\ HeadsOnly(part, t, s)
<1> DEFINE rec == Record(t, s)
<1>1. /\ rec \in Seq(Units) /\ Len(rec) \in Nat
      /\ rec[1].t = t /\ rec[1].state = s
      /\ \A i \in 2..Len(rec) : rec[i].kind # "head"
  BY RecordIs, HeadOfUnit
<1> HIDE DEF rec
<1>2. HeadsOnly(rec, t, s)
  <2>1. \A i \in 1..Len(rec) : i = 1 \/ i \in 2..Len(rec)
    BY <1>1
  <2> QED
    BY <1>1, <2>1 DEF HeadsOnly
<1>3. ASSUME NEW part \in Torn(rec) PROVE part \in Seq(Units) /\ HeadsOnly(part, t, s)
  <2>1. CASE part = <<>>
    BY <2>1 DEF HeadsOnly
  <2>2. CASE part = <<Stub>>
    BY <2>2, StubUnit DEF HeadsOnly
  <2>3. CASE part \in {SubSeq(rec, 1, n) : n \in 1..(Len(rec) - 1)}
    <3>1. PICK n \in 1..(Len(rec) - 1) : part = SubSeq(rec, 1, n)
      BY <2>3
    <3>2. n \in Nat /\ \A i \in 1..n : i \in 1..Len(rec)
      BY <1>1
    <3>3. \A i \in 1..n : rec[i] \in Units
      BY <1>1, <3>2
    <3>4. part \in Seq(Units) /\ Len(part) = n /\ \A i \in 1..n : part[i] = rec[i]
      BY <3>1, <3>2, <3>3, SubSeqProperties
    <3> QED
      BY <1>2, <3>2, <3>4 DEF HeadsOnly
  <2> QED
    BY <2>1, <2>2, <2>3 DEF Torn
<1> QED
  BY <1>2, <1>3 DEF rec

(* A file that something is appended to.                                   *)
LEMMA Appended ==
  ASSUME NEW f \in Files, NEW part \in Seq(Units)
  PROVE  /\ f \o part \in Files /\ Continues(f \o part, f)
         /\ Len(f \o part) = Len(f) + Len(part)
         /\ \A i \in 1..Len(part) : (f \o part)[Len(f) + i] = part[i]
         /\ \A k \in 1..Len(f \o part) : k \in 1..Len(f) \/ \E i \in 1..Len(part) : k = Len(f) + i
<1>1. /\ f \o part \in Seq(Units) /\ Len(f \o part) = Len(f) + Len(part)
      /\ \A i \in 1..(Len(f) + Len(part)) : (f \o part)[i] = IF i <= Len(f) THEN f[i] ELSE part[i - Len(f)]
  BY ConcatProperties DEF Files
<1>2. Len(f) \in Nat /\ Len(part) \in Nat
  BY DEF Files
<1>3. ASSUME NEW i \in 1..Len(f) PROVE (f \o part)[i] = f[i]
  BY <1>1, <1>2
<1>4. ASSUME NEW i \in 1..Len(part) PROVE (f \o part)[Len(f) + i] = part[i]
  BY <1>1, <1>2
<1>5. ASSUME NEW k \in 1..Len(f \o part), k \notin 1..Len(f) PROVE \E i \in 1..Len(part) : k = Len(f) + i
  <2>1. k - Len(f) \in 1..Len(part) /\ k = Len(f) + (k - Len(f))
    BY <1>1, <1>2, <1>5
  <2> QED
    BY <2>1
<1> QED
  BY <1>1, <1>2, <1>3, <1>4, <1>5 DEF Files, Continues

LEMMA StandsStill ==
  ASSUME NEW f \in Files, NEW h \in Files, Continues(h, f),
         NEW ref \in Refs({0, Payload}), NEW w, Stands(f, ref, w)
  PROVE  Stands(h, ref, w)
<1>1. ref.off \in Nat /\ Readable(f, ref.state, ref)
  BY DEF Refs, Stands
<1>2. Readable(h, ref.state, ref)
  BY <1>1, ReadableStill
<1> QED
  BY <1>2 DEF Stands

LEMMA ContinuesItself == \A f \in Files : Continues(f, f)
  BY DEF Continues, Files

LEMMA HeadsAppended ==
  ASSUME file \in Files, HeadsOffered, NEW part \in Seq(Units), NEW s, HeadsOnly(part, minute, s),
         file' = file \o part, offered' = offered \cup {<<minute, s>>}
  PROVE  HeadsOffered'
<1>1. /\ Len(file \o part) = Len(file) + Len(part)
      /\ \A i \in 1..Len(part) : (file \o part)[Len(file) + i] = part[i]
      /\ \A k \in 1..Len(file \o part) : k \in 1..Len(file) \/ \E i \in 1..Len(part) : k = Len(file) + i
      /\ Continues(file \o part, file)
  BY Appended
<1>2. ASSUME NEW k \in 1..Len(file'), file'[k].kind = "head" PROVE <<file'[k].t, file'[k].state>> \in offered'
  <2>1. CASE k \in 1..Len(file)
    <3>1. file'[k] = file[k]
      BY <1>1, <2>1 DEF Continues
    <3> QED
      BY <1>2, <2>1, <3>1 DEF HeadsOffered
  <2>2. CASE \E i \in 1..Len(part) : k = Len(file) + i
    <3>1. PICK i \in 1..Len(part) : k = Len(file) + i
      BY <2>2
    <3>2. file'[k] = part[i]
      BY <1>1, <3>1
    <3>3. file'[k].t = minute /\ file'[k].state = s
      BY <1>2, <3>2 DEF HeadsOnly
    <3> QED
      BY <3>3
  <2> QED
    BY <1>1, <2>1, <2>2
<1> QED
  BY <1>2 DEF HeadsOffered

(* A file that goes on keeps what is safe in it.                           *)
LEMMA FileGoesOn ==
  ASSUME file \in Files, FileHolds, file' \in Files, Continues(file', file), safe' = safe
  PROVE  FileHolds'
<1>1. PICK n \in 0..Len(file) : Intact(file, n, safe)
  BY DEF FileHolds
<1>2. Intact(file', n, safe)
  BY <1>1, IntactStill
<1>3. n \in 0..Len(file')
  BY DEF Files, Continues
<1> QED
  BY <1>2, <1>3 DEF FileHolds

LEMMA NewLocSpot == file \in Files => NewLoc \in Spots /\ NewLoc.off = Len(file) + 1 /\ NewLoc.len = Payload
  BY Limits DEF NewLoc, Spots, Files

LEMMA RegisteredIs ==
  ASSUME file \in Files, blobs \in Tables, NEW s \in States
  PROVE  /\ Registered(s) \in Tables
         /\ Reuses(s) => Registered(s) = blobs
         /\ ~Reuses(s) => /\ DOMAIN Registered(s) = DOMAIN blobs \cup {s} /\ Registered(s)[s] = NewLoc
                          /\ \A x \in DOMAIN blobs : x # s => Registered(s)[x] = blobs[x]
<1>1. CASE Reuses(s)
  BY <1>1 DEF Registered
<1>2. CASE ~Reuses(s)
  <2>1. Registered(s) = Entered(blobs, s, NewLoc)
    BY <1>2 DEF Registered, Entered
  <2>2. PICK loc \in Spots : loc = NewLoc
    BY NewLocSpot
  <2>3. /\ Entered(blobs, s, loc) \in Tables
        /\ DOMAIN Entered(blobs, s, loc) = DOMAIN blobs \cup {s}
        /\ Entered(blobs, s, loc)[s] = loc
        /\ \A x \in DOMAIN blobs : x # s => Entered(blobs, s, loc)[x] = blobs[x]
    BY ZenonT(60), EnteredIs
  <2> QED
    BY <1>2, <2>1, <2>2, <2>3
<1> QED
  BY <1>1, <1>2

LEMMA LocType ==
  ASSUME file \in Files, blobs \in Tables, NEW s \in States, NEW t \in 1..MaxEvictions
  PROVE  /\ Ref(t, s, LocOf(s)) \in Refs({0, Payload})
         /\ Ref(t, s, LocOf(s)).t = t /\ Ref(t, s, LocOf(s)).state = s
         /\ Ref(t, s, LocOf(s)).off = LocOf(s).off /\ Ref(t, s, LocOf(s)).len = LocOf(s).len
<1>1. LocOf(s).off \in Nat /\ LocOf(s).len \in {0, Payload}
  <2>1. CASE Known(s)
    <3>1. blobs[s] \in Spots
      BY <2>1, TableIs DEF Known
    <3> QED
      BY <2>1, <3>1 DEF LocOf, Spots
  <2>2. CASE ~Known(s) /\ Reuses(s)
    BY <2>2 DEF LocOf, NoLoc
  <2>3. CASE ~Known(s) /\ ~Reuses(s)
    BY <2>3, NewLocSpot DEF LocOf, Spots
  <2> QED
    BY <2>1, <2>2, <2>3
<1> QED
  BY <1>1 DEF Ref, Refs

LEMMA OfferIs ==
  ASSUME SidecarTyped, NEW s \in States, Offer(s)
  PROVE  /\ minute \in 1..MaxEvictions
         /\ evictions' \in 0..MaxEvictions /\ minute' \in 1..(evictions' + 1)
         /\ offered' = offered \cup {<<minute, s>>} /\ <<minute, s>> \in (1..MaxEvictions) \X States
         /\ offered' \subseteq (1..MaxEvictions) \X States
         /\ stage # "down"
  BY Limits DEF SidecarTyped, Offer

LEMMA PersistKeeps ==
  ASSUME SidecarIInv, NEW s \in States, Persist(s)
  PROVE  SidecarIInv'
<1>1. SidecarTyped /\ HeadsOffered /\ IndexOffered /\ WholeFile /\ FileHolds /\ LastKnown /\ IndexHolds
  BY DEF SidecarIInv
<1>2. /\ Offer(s) /\ file' = file \o Record(minute, s) /\ blobs' = Registered(s) /\ last' = s
      /\ evicted' = Append(evicted, Ref(minute, s, LocOf(s))) /\ opened' = TRUE
      /\ safe' = IF damaged THEN safe ELSE safe \cup {<<minute, s>>}
      /\ stage' = stage /\ boots' = boots /\ faults' = faults /\ damaged' = damaged
  BY DEF Persist
<1>3. /\ minute \in 1..MaxEvictions
      /\ evictions' \in 0..MaxEvictions /\ minute' \in 1..(evictions' + 1)
      /\ offered' = offered \cup {<<minute, s>>} /\ <<minute, s>> \in (1..MaxEvictions) \X States
      /\ offered' \subseteq (1..MaxEvictions) \X States
      /\ stage # "down"
  BY <1>1, <1>2, OfferIs
<1>4. file \in Files /\ blobs \in Tables /\ evicted \in Seq(Refs({0, Payload})) /\ damaged \in BOOLEAN
  BY <1>1 DEF SidecarTyped
<1>5. s # None
  BY Limits
<1> DEFINE len == IF Reuses(s) THEN 0 ELSE Payload
           rec == Record(minute, s)
<1>6. /\ rec \in Seq(Units) /\ Len(rec) = 1 + len /\ rec[1] = HeadOf(minute, s, len)
      /\ ~Reuses(s) => \A i \in 1..Payload : rec[1 + i] = Body(s, i)
      /\ HeadsOnly(rec, minute, s)
  BY <1>3, RecordIs, TornIs, Limits
<1>7. len \in {0, Payload} /\ len \in Nat /\ (len = 0 <=> Reuses(s))
  BY Limits
<1> HIDE DEF len, rec
<1>8. file' = file \o rec
  BY <1>2 DEF rec
<1>9. EndsWith(file', file, minute, s, len) /\ file' \in Files /\ Continues(file', file) /\ Len(file) \in Nat
  <2>1. /\ file \o rec \in Files /\ Continues(file \o rec, file)
        /\ Len(file \o rec) = Len(file) + Len(rec)
        /\ \A i \in 1..Len(rec) : (file \o rec)[Len(file) + i] = rec[i]
    BY <1>4, <1>6, Appended
  <2>2. Len(file) \in Nat
    BY <1>4 DEF Files
  <2>3. Len(file') = Len(file) + 1 + len
    BY <1>6, <1>7, <1>8, <2>1, <2>2
  <2>4. file'[Len(file) + 1] = HeadOf(minute, s, len)
    BY <1>6, <1>7, <1>8, <2>1
  <2>5. ASSUME len # 0, NEW i \in 1..Payload PROVE file'[Len(file) + 1 + i] = Body(s, i)
    <3>1. 1 + i \in 1..Len(rec) /\ Len(file) + (1 + i) = Len(file) + 1 + i
      BY <1>6, <1>7, <2>2, <2>5, Limits
    <3> QED
      BY <1>6, <1>7, <1>8, <2>1, <2>5, <3>1
  <2> QED
    BY <1>8, <2>1, <2>2, <2>3, <2>4, <2>5 DEF EndsWith
<1>10. HeadsOffered'
  BY <1>1, <1>3, <1>4, <1>6, <1>8, HeadsAppended
<1>11. PICK ref \in Refs({0, Payload}) :
         /\ ref = Ref(minute, s, LocOf(s)) /\ ref.t = minute /\ ref.state = s
         /\ ref.off = LocOf(s).off /\ ref.len = LocOf(s).len
  BY <1>3, <1>4, LocType, ZenonT(40)
<1>12. /\ evicted' \in Seq(Refs({0, Payload})) /\ Len(evicted') = Len(evicted) + 1 /\ Len(evicted) \in Nat
       /\ evicted'[Len(evicted) + 1] = ref
       /\ \A i \in 1..Len(evicted) : evicted'[i] = evicted[i] /\ evicted[i] \in Refs({0, Payload})
  <2>1. evicted' = Append(evicted, ref)
    BY <1>2, <1>11
  <2>2. Len(evicted) \in Nat /\ \A i \in 1..Len(evicted) : evicted[i] \in Refs({0, Payload})
    BY <1>4, ElementOfSeq
  <2>3. /\ Append(evicted, ref) \in Seq(Refs({0, Payload})) /\ Len(Append(evicted, ref)) = Len(evicted) + 1
        /\ \A i \in 1..Len(evicted) : Append(evicted, ref)[i] = evicted[i]
        /\ Append(evicted, ref)[Len(evicted) + 1] = ref
    BY <1>4, AppendProperties
  <2> QED
    BY <2>1, <2>2, <2>3
<1>13. IndexOffered'
  <2>1. \A i \in 1..Len(evicted') : i = Len(evicted) + 1 \/ i \in 1..Len(evicted)
    BY <1>12
  <2> QED
    BY <1>1, <1>3, <1>11, <1>12, <2>1 DEF IndexOffered
<1>14. SidecarTyped'
  <2>1. blobs' \in Tables
    BY <1>2, <1>4, RegisteredIs
  <2>2. safe' \subseteq offered'
    BY <1>1, <1>2, <1>3 DEF SidecarTyped
  <2> QED
    BY <1>1, <1>2, <1>3, <1>9, <1>12, <2>1, <2>2 DEF SidecarTyped
<1>15. GoneWhenDown'
  BY <1>2, <1>3 DEF GoneWhenDown
(* A state that is reused is known, unless a fault came between.           *)
<1>16. (stage # "up" \/ ~damaged) /\ Reuses(s) => s \in DOMAIN blobs
  BY <1>1, <1>5 DEF LastKnown, Reuses, Known
<1>17. LastKnown'
  <2>1. Reuses(s) => blobs' = blobs
    BY <1>2, <1>4, RegisteredIs
  <2>2. ~Reuses(s) => s \in DOMAIN blobs'
    BY <1>2, <1>4, RegisteredIs
  <2> QED
    BY <1>2, <1>16, <2>1, <2>2 DEF LastKnown
<1>18. ~Reuses(s) => Readable(file', s, NewLoc)
  <2>1. SUFFICES ASSUME ~Reuses(s) PROVE Readable(file', s, NewLoc)
    OBVIOUS
  <2>2. NewLoc.off = Len(file) + 1 /\ NewLoc.len = Payload /\ len = Payload
    BY <1>4, <1>7, <2>1, NewLocSpot
  <2>3. Len(file) + 1 + Payload <= Len(file') /\ \A i \in 1..Payload : file'[Len(file) + 1 + i] = Body(s, i)
    BY <1>7, <1>9, <2>1, <2>2, Limits DEF EndsWith
  <2> QED
    BY <2>2, <2>3 DEF Readable
<1>19. ~damaged => Intact(file', Len(file'), safe') /\ MemoryHolds(file', blobs')
  <2>1. SUFFICES ASSUME ~damaged PROVE Intact(file', Len(file'), safe') /\ MemoryHolds(file', blobs')
    OBVIOUS
  <2>2. Intact(file, Len(file), safe) /\ MemoryHolds(file, blobs)
    BY <1>1, <2>1 DEF WholeFile
  <2>3. safe' = safe \cup {<<minute, s>>}
    BY <1>2, <2>1
  <2>4. len = 0 => s \in DOMAIN ScanOf(file)[Len(file)].blobs
    BY <1>7, <1>16, <2>1, <2>2 DEF MemoryHolds
  <2>5. /\ Intact(file', Len(file'), safe \cup {<<minute, s>>})
        /\ DOMAIN ScanOf(file')[Len(file')].blobs = DOMAIN ScanOf(file)[Len(file)].blobs \cup {s}
    BY SMTT(40), <1>3, <1>4, <1>7, <1>9, <2>2, <2>4, ScanRecord
  <2>6. DOMAIN blobs' \subseteq DOMAIN blobs \cup {s}
    BY <1>2, <1>4, RegisteredIs
  <2>7. ASSUME NEW x \in DOMAIN blobs PROVE Readable(file', x, blobs[x])
    <3>1. Readable(file, x, blobs[x])
      BY <2>2 DEF MemoryHolds
    <3>2. blobs[x].off \in Nat
      BY <1>4, TableIs DEF Spots
    <3> QED
      BY <1>4, <1>9, <3>1, <3>2, ReadableStill
  <2>8. ASSUME NEW x \in DOMAIN blobs' PROVE Readable(file', x, blobs'[x])
    <3>1. CASE Reuses(s)
      BY <1>2, <1>4, <2>7, <2>8, <3>1, RegisteredIs
    <3>2. CASE ~Reuses(s) /\ x = s
      <4>1. blobs'[s] = NewLoc
        BY <1>2, <1>4, <3>2, RegisteredIs
      <4> QED
        BY <1>18, <3>2, <4>1
    <3>3. CASE ~Reuses(s) /\ x # s
      <4>1. x \in DOMAIN blobs /\ blobs'[x] = blobs[x]
        BY <1>2, <1>4, <2>8, <3>3, RegisteredIs
      <4> QED
        BY <2>7, <4>1
    <3> QED
      BY <3>1, <3>2, <3>3
  <2> QED
    BY <2>2, <2>3, <2>5, <2>6, <2>8 DEF MemoryHolds
<1>20. WholeFile'
  BY <1>2, <1>19 DEF WholeFile
<1>21. FileHolds'
  <2>1. CASE damaged
    BY <1>1, <1>2, <1>4, <1>9, <2>1, FileGoesOn
  <2>2. CASE ~damaged
    <3>1. Len(file') \in 0..Len(file')
      BY <1>9 DEF Files
    <3> QED
      BY <1>19, <2>2, <3>1 DEF FileHolds
  <2> QED
    BY <2>1, <2>2
<1>22. IndexHolds'
  <2>1. SUFFICES ASSUME stage = "up", NEW w \in safe'
                 PROVE  \E i \in 1..Len(evicted') : Stands(file', evicted'[i], w)
    BY <1>2 DEF IndexHolds
  <2>2. CASE w \in safe
    <3>1. PICK i \in 1..Len(evicted) : Stands(file, evicted[i], w)
      BY <1>1, <2>1, <2>2 DEF IndexHolds
    <3>2. evicted[i] \in Refs({0, Payload})
      BY <1>12
    <3>3. Stands(file', evicted[i], w)
      BY <1>4, <1>9, <3>1, <3>2, StandsStill
    <3> QED
      BY <1>12, <3>3
  <2>3. CASE ~damaged /\ w = <<minute, s>>
    <3>1. Readable(file', s, LocOf(s))
      <4>1. CASE Reuses(s)
        <5>1. s \in DOMAIN blobs /\ LocOf(s) = blobs[s]
          BY <1>16, <2>3, <4>1 DEF LocOf, Known
        <5>2. Readable(file', s, blobs'[s]) /\ blobs' = blobs
          BY <1>2, <1>4, <1>19, <2>3, <4>1, <5>1, RegisteredIs DEF MemoryHolds
        <5> QED
          BY <5>1, <5>2
      <4>2. CASE ~Reuses(s)
        BY <1>18, <4>2 DEF LocOf, Reuses
      <4> QED
        BY <4>1, <4>2
    <3>2. Stands(file', ref, w)
      BY <1>11, <2>3, <3>1 DEF Stands, Readable
    <3>3. Len(evicted) + 1 \in 1..Len(evicted')
      BY <1>12
    <3> QED
      BY <1>12, <3>2, <3>3
  <2> QED
    BY <1>2, <2>2, <2>3
<1> QED
  BY <1>10, <1>13, <1>14, <1>15, <1>17, <1>20, <1>21, <1>22 DEF SidecarIInv

(* An empty table is held by any file.                                     *)
LEMMA NothingHeld == \A f : MemoryHolds(f, NoBlobs)
  BY NoBlobsTable DEF MemoryHolds

LEMMA EmptyIntact == <<>> \in Files /\ Len(<<>>) = 0 /\ Intact(<<>>, 0, {})
<1>1. <<>> \in Files /\ Len(<<>>) = 0
  BY EmptySeq DEF Files
<1>2. PICK f \in Files : f = <<>>
  BY <1>1
<1>3. ScanOf(f)[0] = Unscanned
  BY ScanIs DEF IsScan
<1>4. Unscanned.pos = 1 /\ Unscanned.stop = FALSE /\ Unscanned.blobs = NoBlobs
  BY DEF Unscanned
<1>5. Intact(f, 0, {})
  BY <1>3, <1>4, NoBlobsTable DEF Intact
<1> QED
  BY <1>1, <1>2, <1>5

LEMMA LessSafe == \A f, n, sf : Intact(f, n, sf) => Intact(f, n, {})
  BY DEF Intact

(* What a write that fails, or that is not survived, leaves.               *)
LEMMA TornKeeps ==
  ASSUME SidecarIInv, NEW s \in States, Offer(s), Fault,
         \E part \in Torn(Record(minute, s)) : file' = file \o part, safe' = safe
  PROVE  /\ HeadsOffered' /\ FileHolds' /\ WholeFile'
         /\ file' \in Files /\ Continues(file', file)
         /\ faults' \in 0..MaxFaults /\ damaged' = TRUE
<1>1. SidecarTyped /\ HeadsOffered /\ FileHolds /\ file \in Files /\ faults \in 0..MaxFaults
  BY DEF SidecarIInv, SidecarTyped
<1>2. minute \in 1..MaxEvictions /\ offered' = offered \cup {<<minute, s>>}
  BY <1>1, OfferIs
<1>3. PICK part \in Torn(Record(minute, s)) : file' = file \o part
  OBVIOUS
<1>4. part \in Seq(Units) /\ HeadsOnly(part, minute, s)
  BY <1>2, TornIs
<1>5. file' \in Files /\ Continues(file', file)
  BY <1>1, <1>3, <1>4, Appended
<1>6. HeadsOffered'
  BY <1>1, <1>2, <1>3, <1>4, HeadsAppended
<1>7. FileHolds'
  BY <1>1, <1>5, FileGoesOn
<1>8. faults' \in 0..MaxFaults /\ damaged' = TRUE
  BY <1>1, Limits DEF Fault
<1> QED
  BY <1>5, <1>6, <1>7, <1>8 DEF WholeFile

LEMMA WriteFailsKeeps ==
  ASSUME SidecarIInv, NEW s \in States, WriteFails(s)
  PROVE  SidecarIInv'
<1>1. SidecarTyped /\ IndexOffered /\ GoneWhenDown /\ LastKnown /\ IndexHolds
  BY DEF SidecarIInv
<1>2. /\ Offer(s) /\ Fault /\ \E part \in Torn(Record(minute, s)) : file' = file \o part
      /\ blobs' = Registered(s) /\ opened' = TRUE
      /\ stage' = stage /\ evicted' = evicted /\ last' = last /\ boots' = boots /\ safe' = safe
  BY DEF WriteFails
<1>3. /\ evictions' \in 0..MaxEvictions /\ minute' \in 1..(evictions' + 1)
      /\ offered' = offered \cup {<<minute, s>>}
      /\ offered' \subseteq (1..MaxEvictions) \X States
      /\ stage # "down"
  BY <1>1, <1>2, OfferIs
<1>4. /\ HeadsOffered' /\ FileHolds' /\ WholeFile'
      /\ file' \in Files /\ Continues(file', file) /\ faults' \in 0..MaxFaults /\ damaged' = TRUE
  BY <1>2, TornKeeps
<1>5. file \in Files /\ blobs \in Tables /\ evicted \in Seq(Refs({0, Payload}))
  BY <1>1 DEF SidecarTyped
<1>6. blobs' \in Tables /\ DOMAIN blobs \subseteq DOMAIN blobs'
  BY <1>2, <1>5, RegisteredIs
<1>7. SidecarTyped'
  BY <1>1, <1>2, <1>3, <1>4, <1>6 DEF SidecarTyped
<1>8. IndexOffered'
  BY <1>1, <1>2, <1>3 DEF IndexOffered
<1>9. GoneWhenDown'
  BY <1>2, <1>3 DEF GoneWhenDown
<1>10. LastKnown'
  BY <1>1, <1>2, <1>4, <1>6 DEF LastKnown
<1>11. IndexHolds'
  <2>1. SUFFICES ASSUME stage = "up", NEW w \in safe
                 PROVE  \E i \in 1..Len(evicted) : Stands(file', evicted[i], w)
    BY <1>2 DEF IndexHolds
  <2>2. PICK i \in 1..Len(evicted) : Stands(file, evicted[i], w)
    BY <1>1, <2>1 DEF IndexHolds
  <2>3. evicted[i] \in Refs({0, Payload})
    BY <1>5, ElementOfSeq
  <2> QED
    BY <1>4, <1>5, <2>2, <2>3, StandsStill
<1> QED
  BY <1>4, <1>7, <1>8, <1>9, <1>10, <1>11 DEF SidecarIInv

LEMMA DieWritingKeeps ==
  ASSUME SidecarIInv, NEW s \in States, DieWriting(s)
  PROVE  SidecarIInv'
<1>1. SidecarTyped
  BY DEF SidecarIInv
<1>2. /\ Offer(s) /\ Fault /\ \E part \in Torn(Record(minute, s)) : file' = file \o part
      /\ stage' = "down" /\ evicted' = <<>> /\ blobs' = NoBlobs /\ last' = None /\ opened' = FALSE
      /\ boots' = boots /\ safe' = safe
  BY DEF DieWriting, Gone
<1>3. /\ evictions' \in 0..MaxEvictions /\ minute' \in 1..(evictions' + 1)
      /\ offered' = offered \cup {<<minute, s>>}
      /\ offered' \subseteq (1..MaxEvictions) \X States
  BY <1>1, <1>2, OfferIs
<1>4. /\ HeadsOffered' /\ FileHolds' /\ WholeFile'
      /\ file' \in Files /\ faults' \in 0..MaxFaults /\ damaged' = TRUE
  BY <1>2, TornKeeps
<1>5. evicted' \in Seq(Refs({0, Payload})) /\ Len(evicted') = 0
  BY <1>2, EmptySeq
<1>6. SidecarTyped'
  BY <1>1, <1>2, <1>3, <1>4, <1>5, NoBlobsTable DEF SidecarTyped
<1>7. IndexOffered'
  BY <1>5 DEF IndexOffered
<1> QED
  BY <1>2, <1>4, <1>6, <1>7 DEF SidecarIInv, GoneWhenDown, LastKnown, IndexHolds

LEMMA NotOpenedKeeps ==
  ASSUME SidecarIInv, NEW s \in States, NotOpened(s)
  PROVE  SidecarIInv'
<1>1. /\ SidecarTyped /\ HeadsOffered /\ IndexOffered /\ GoneWhenDown
      /\ WholeFile /\ FileHolds /\ LastKnown /\ IndexHolds
  BY DEF SidecarIInv
<1>2. /\ Offer(s)
      /\ file' = file /\ stage' = stage /\ evicted' = evicted /\ blobs' = blobs /\ last' = last
      /\ opened' = opened /\ boots' = boots /\ faults' = faults /\ damaged' = damaged /\ safe' = safe
  BY DEF NotOpened, memory
<1>3. /\ evictions' \in 0..MaxEvictions /\ minute' \in 1..(evictions' + 1)
      /\ offered' = offered \cup {<<minute, s>>}
      /\ offered' \subseteq (1..MaxEvictions) \X States
  BY <1>1, <1>2, OfferIs
<1>4. SidecarTyped'
  BY <1>1, <1>2, <1>3 DEF SidecarTyped
<1>5. HeadsOffered' /\ IndexOffered'
  BY <1>1, <1>2, <1>3 DEF HeadsOffered, IndexOffered
<1>6. GoneWhenDown' /\ LastKnown' /\ IndexHolds'
  BY <1>1, <1>2 DEF GoneWhenDown, LastKnown, IndexHolds
<1>7. WholeFile' /\ FileHolds'
  BY <1>1, <1>2 DEF WholeFile, FileHolds
<1> QED
  BY <1>4, <1>5, <1>6, <1>7 DEF SidecarIInv

LEMMA DieKeeps ==
  ASSUME SidecarIInv, Die
  PROVE  SidecarIInv'
<1>1. SidecarTyped /\ HeadsOffered /\ WholeFile /\ FileHolds
  BY DEF SidecarIInv
<1>2. /\ stage' = "down" /\ evicted' = <<>> /\ blobs' = NoBlobs /\ last' = None /\ opened' = FALSE
      /\ file' = file /\ minute' = minute /\ evictions' = evictions /\ boots' = boots /\ faults' = faults
      /\ damaged' = damaged /\ offered' = offered /\ safe' = safe
  BY DEF Die, Gone, counts
<1>3. evicted' \in Seq(Refs({0, Payload})) /\ Len(evicted') = 0
  BY <1>2, EmptySeq
<1>4. SidecarTyped'
  BY <1>1, <1>2, <1>3, NoBlobsTable DEF SidecarTyped
<1>5. IndexOffered' /\ HeadsOffered'
  BY <1>1, <1>2, <1>3 DEF IndexOffered, HeadsOffered
<1>6. WholeFile' /\ FileHolds'
  BY <1>1, <1>2, NothingHeld DEF WholeFile, FileHolds
<1> QED
  BY <1>2, <1>4, <1>5, <1>6 DEF SidecarIInv, GoneWhenDown, LastKnown, IndexHolds

LEMMA BootFromSnapshotKeeps ==
  ASSUME SidecarIInv, BootFromSnapshot
  PROVE  SidecarIInv'
<1>1. /\ SidecarTyped /\ HeadsOffered /\ IndexOffered /\ GoneWhenDown
      /\ WholeFile /\ FileHolds
  BY DEF SidecarIInv
<1>2. /\ stage = "down" /\ boots < MaxBoots /\ boots' = boots + 1
      /\ evictions' = evictions /\ faults' = faults /\ offered' = offered
      /\ stage' = "delta" /\ minute' \in 1..minute
      /\ file' = file /\ evicted' = evicted /\ blobs' = blobs /\ last' = last /\ opened' = opened
      /\ damaged' = damaged /\ safe' = safe
  BY DEF BootFromSnapshot, Boot, memory
<1>3. SidecarTyped'
  <2>1. minute' \in 1..(evictions' + 1) /\ boots' \in 0..MaxBoots
    BY <1>1, <1>2, Limits DEF SidecarTyped
  <2> QED
    BY <1>1, <1>2, <2>1 DEF SidecarTyped
<1>4. HeadsOffered' /\ IndexOffered'
  BY <1>1, <1>2 DEF HeadsOffered, IndexOffered
<1>5. GoneWhenDown' /\ LastKnown' /\ IndexHolds'
  BY <1>1, <1>2 DEF GoneWhenDown, LastKnown, IndexHolds
<1>6. WholeFile' /\ FileHolds'
  BY <1>1, <1>2 DEF WholeFile, FileHolds
<1> QED
  BY <1>3, <1>4, <1>5, <1>6 DEF SidecarIInv

(* The scan finds again what the file holds.                               *)
LEMMA ScanKeeps ==
  ASSUME SidecarIInv, Scan
  PROVE  SidecarIInv'
<1>1. /\ SidecarTyped /\ HeadsOffered /\ WholeFile /\ FileHolds /\ LastKnown
  BY DEF SidecarIInv
<1>2. /\ stage = "delta" /\ stage' = "up"
      /\ evicted' = Scanned.entries /\ blobs' = Scanned.blobs
      /\ file' = file /\ last' = last /\ opened' = opened /\ minute' = minute
      /\ evictions' = evictions /\ boots' = boots /\ faults' = faults
      /\ damaged' = damaged /\ offered' = offered /\ safe' = safe
  BY DEF Scan, counts
<1>3. file \in Files /\ Len(file) \in 0..Len(file)
  BY <1>1 DEF SidecarTyped, Files
<1>4. PICK acc \in Accs : acc = ScanOf(file)[Len(file)]
  BY <1>3, EntriesTyped
<1>5. evicted' = acc.entries /\ blobs' = acc.blobs
  BY <1>2, <1>3, <1>4, ScannedIs
<1>6. acc.entries \in Seq(Refs({Payload})) /\ acc.blobs \in Tables
  BY DEF Accs
<1>7. evicted' \in Seq(Refs({0, Payload}))
  <2>1. Refs({Payload}) \subseteq Refs({0, Payload})
    BY DEF Refs
  <2>2. evicted' \in Seq(Refs({Payload}))
    BY <1>5, <1>6
  <2> QED
    BY <2>1, <2>2, SeqMonotonic
<1>8. SidecarTyped'
  BY <1>1, <1>2, <1>5, <1>6, <1>7 DEF SidecarTyped
<1>9. HeadsOffered'
  BY <1>1, <1>2 DEF HeadsOffered
<1>10. IndexOffered'
  <2>1. ASSUME NEW k \in 1..Len(acc.entries) PROVE <<acc.entries[k].t, acc.entries[k].state>> \in offered
    <3>1. Headed(file, acc.entries[k])
      BY <1>3, <1>4, EntriesHeaded
    <3> QED
      BY <1>1, <3>1 DEF Headed, HeadsOffered
  <2> QED
    BY <1>2, <1>5, <2>1 DEF IndexOffered
<1>11. ~damaged => DOMAIN blobs \subseteq DOMAIN acc.blobs /\ MemoryHolds(file, acc.blobs)
  BY <1>1, <1>4 DEF WholeFile, Intact, MemoryHolds
<1>12. WholeFile' /\ FileHolds'
  BY <1>1, <1>2, <1>5, <1>11 DEF WholeFile, FileHolds
<1>13. LastKnown'
  BY <1>1, <1>2, <1>5, <1>11 DEF LastKnown
<1>14. IndexHolds'
  <2>1. SUFFICES ASSUME NEW w \in safe
                 PROVE  \E i \in 1..Len(acc.entries) : Stands(file, acc.entries[i], w)
    BY <1>2, <1>5 DEF IndexHolds
  <2>2. PICK n \in 0..Len(file) : Intact(file, n, safe)
    BY <1>1 DEF FileHolds
  <2>3. PICK part \in Accs : part = ScanOf(file)[n]
    BY <1>3, EntriesTyped
  <2>4. PICK k \in 1..Len(part.entries) : Stands(file, part.entries[k], w)
    BY <2>1, <2>2, <2>3 DEF Intact
  <2>5. Len(file) \in n..Len(file)
    BY <1>3
  <2>6. Prefix(part.entries, acc.entries)
    BY <1>3, <1>4, <2>3, <2>5, ScanGrows
  <2>7. Len(part.entries) \in Nat /\ Len(acc.entries) \in Nat
    BY DEF Accs
  <2>8. k \in 1..Len(acc.entries) /\ acc.entries[k] = part.entries[k]
    BY <2>6, <2>7 DEF Prefix
  <2> QED
    BY <2>4, <2>8
<1>15. GoneWhenDown'
  BY <1>2 DEF GoneWhenDown
<1> QED
  BY <1>8, <1>9, <1>10, <1>12, <1>13, <1>14, <1>15 DEF SidecarIInv

LEMMA ScanFailsKeeps ==
  ASSUME SidecarIInv, ScanFails
  PROVE  SidecarIInv'
<1>1. /\ SidecarTyped /\ HeadsOffered /\ IndexOffered /\ WholeFile /\ FileHolds /\ LastKnown
  BY DEF SidecarIInv
<1>2. /\ stage = "delta" /\ stage' = "up" /\ safe' = {}
      /\ file' = file /\ evicted' = evicted /\ blobs' = blobs /\ last' = last
      /\ opened' = opened /\ minute' = minute
      /\ evictions' = evictions /\ boots' = boots /\ faults' = faults
      /\ damaged' = damaged /\ offered' = offered
  BY DEF ScanFails, memory, counts
<1>3. SidecarTyped'
  BY <1>1, <1>2 DEF SidecarTyped
<1>4. HeadsOffered' /\ IndexOffered'
  BY <1>1, <1>2 DEF HeadsOffered, IndexOffered
<1>5. GoneWhenDown' /\ LastKnown' /\ IndexHolds'
  BY <1>1, <1>2 DEF GoneWhenDown, LastKnown, IndexHolds
<1>6. WholeFile' /\ FileHolds'
  BY <1>1, <1>2, LessSafe DEF WholeFile, FileHolds
<1> QED
  BY <1>3, <1>4, <1>5, <1>6 DEF SidecarIInv

(* The file is emptied, or could not be opened to be emptied.              *)
LEMMA ResetKeeps ==
  ASSUME SidecarIInv, stage # "up", stage' = "up", Reset,
         evictions' = evictions, faults' = faults, offered' = offered, boots' \in 0..MaxBoots
  PROVE  SidecarIInv'
<1>1. /\ SidecarTyped /\ HeadsOffered /\ WholeFile /\ FileHolds /\ LastKnown
  BY DEF SidecarIInv
<1>2. evicted' = <<>> /\ safe' = {} /\ minute' = 1
  BY DEF Reset
<1>3. evicted' \in Seq(Refs({0, Payload})) /\ Len(evicted') = 0
  BY <1>2, EmptySeq
<1>4. minute' \in 1..(evictions' + 1)
  BY <1>1, <1>2 DEF SidecarTyped
<1>5. IndexOffered' /\ GoneWhenDown' /\ IndexHolds'
  BY <1>2, <1>3 DEF IndexOffered, GoneWhenDown, IndexHolds
<1>6. CASE /\ file' = <<>> /\ blobs' = NoBlobs /\ last' = None
           /\ opened' = TRUE /\ damaged' = FALSE
  <2>1. SidecarTyped'
    BY <1>1, <1>2, <1>3, <1>4, <1>6, NoBlobsTable, EmptyIntact DEF SidecarTyped
  <2>2. HeadsOffered'
    BY <1>6, EmptyIntact DEF HeadsOffered
  <2>3. WholeFile' /\ FileHolds'
    BY <1>2, <1>6, EmptyIntact, NothingHeld DEF WholeFile, FileHolds
  <2> QED
    BY <1>5, <1>6, <2>1, <2>2, <2>3 DEF SidecarIInv, LastKnown
<1>7. CASE /\ file' = <<>> /\ opened' = FALSE /\ damaged' = (blobs # NoBlobs)
           /\ blobs' = blobs /\ last' = last
  <2>1. SidecarTyped'
    BY <1>1, <1>2, <1>3, <1>4, <1>7, EmptyIntact DEF SidecarTyped
  <2>2. HeadsOffered'
    BY <1>7, EmptyIntact DEF HeadsOffered
  <2>3. WholeFile' /\ FileHolds'
    <3>1. ~damaged' => blobs' = NoBlobs
      BY <1>7
    <3>2. MemoryHolds(file', NoBlobs) /\ Intact(file', 0, safe') /\ Len(file') = 0
      BY <1>2, <1>7, EmptyIntact, NothingHeld
    <3>3. WholeFile'
      BY <3>1, <3>2 DEF WholeFile
    <3>4. FileHolds'
      BY <3>2 DEF FileHolds
    <3> QED
      BY <3>3, <3>4
  <2>4. LastKnown'
    BY <1>1, <1>7 DEF LastKnown
  <2> QED
    BY <1>5, <2>1, <2>2, <2>3, <2>4 DEF SidecarIInv
<1>8. CASE opened' = FALSE /\ file' = file /\ blobs' = blobs /\ last' = last /\ damaged' = damaged
  <2>1. SidecarTyped'
    BY <1>1, <1>2, <1>3, <1>4, <1>8 DEF SidecarTyped
  <2>2. HeadsOffered'
    BY <1>1, <1>8 DEF HeadsOffered
  <2>3. WholeFile' /\ FileHolds'
    BY <1>1, <1>2, <1>8, LessSafe DEF WholeFile, FileHolds
  <2>4. LastKnown'
    BY <1>1, <1>8 DEF LastKnown
  <2> QED
    BY <1>5, <2>1, <2>2, <2>3, <2>4 DEF SidecarIInv
<1> QED
  BY <1>6, <1>7, <1>8 DEF Reset

LEMMA SidecarStarts == SidecarInit => SidecarIInv
<1> SUFFICES ASSUME SidecarInit PROVE SidecarIInv
  OBVIOUS
<1>1. evicted \in Seq(Refs({0, Payload})) /\ Len(evicted) = 0
  BY EmptySeq DEF SidecarInit
<1>2. SidecarTyped
  <2>1. file \in Files /\ blobs \in Tables
    BY NoBlobsTable, EmptyIntact DEF SidecarInit
  <2>2. minute \in 1..(evictions + 1)
    BY DEF SidecarInit
  <2>3. evictions \in 0..MaxEvictions /\ boots \in 0..MaxBoots /\ faults \in 0..MaxFaults
    BY Limits DEF SidecarInit
  <2> QED
    BY <1>1, <2>1, <2>2, <2>3 DEF SidecarInit, SidecarTyped
<1>3. HeadsOffered /\ IndexOffered /\ WholeFile /\ FileHolds
  BY <1>1, EmptyIntact, NothingHeld DEF SidecarInit, HeadsOffered, IndexOffered, WholeFile, FileHolds
<1> QED
  BY <1>2, <1>3 DEF SidecarInit, SidecarIInv, GoneWhenDown, LastKnown, IndexHolds

LEMMA SidecarSteps == SidecarIInv /\ [SidecarNext]_sidecarVars => SidecarIInv'
<1> SUFFICES ASSUME SidecarIInv, [SidecarNext]_sidecarVars PROVE SidecarIInv'
  OBVIOUS
<1>1. ASSUME NEW s \in States, Persist(s) PROVE SidecarIInv'
  BY <1>1, PersistKeeps
<1>2. ASSUME NEW s \in States, WriteFails(s) PROVE SidecarIInv'
  BY <1>2, WriteFailsKeeps
<1>3. ASSUME NEW s \in States, NotOpened(s) PROVE SidecarIInv'
  BY <1>3, NotOpenedKeeps
<1>4. ASSUME NEW s \in States, DieWriting(s) PROVE SidecarIInv'
  BY <1>4, DieWritingKeeps
<1>5. CASE Die
  BY <1>5, DieKeeps
<1>6. CASE BootFromSnapshot
  BY <1>6, BootFromSnapshotKeeps
<1>7. CASE Scan
  BY <1>7, ScanKeeps
<1>8. CASE ScanFails
  BY <1>8, ScanFailsKeeps
<1>9. CASE BootByReplay
  <2>1. boots' \in 0..MaxBoots
    BY <1>9, Limits DEF BootByReplay, Boot, SidecarIInv, SidecarTyped
  <2> QED
    BY <1>9, <2>1, ResetKeeps DEF BootByReplay, Boot
<1>10. CASE FallBack
  <2>1. boots' \in 0..MaxBoots
    BY <1>10 DEF FallBack, counts, SidecarIInv, SidecarTyped
  <2> QED
    BY <1>10, <2>1, ResetKeeps DEF FallBack, counts
<1>11. CASE UNCHANGED sidecarVars
  BY <1>11 DEF sidecarVars, memory, counts, SidecarIInv, SidecarTyped, HeadsOffered, IndexOffered,
               GoneWhenDown, WholeFile, FileHolds, LastKnown, IndexHolds
<1> QED
  BY <1>1, <1>2, <1>3, <1>4, <1>5, <1>6, <1>7, <1>8, <1>9, <1>10, <1>11 DEF SidecarNext

(* A read gives the state of the reference or an error, and the state if   *)
(* its bitmap stands there.                                                *)
LEMMA ReadIs ==
  ASSUME file \in Files, NEW ref \in Refs({0, Payload})
  PROVE  /\ ReadBlob(ref) \in {None, ref.state}
         /\ Readable(file, ref.state, ref) => ReadBlob(ref) = ref.state
<1>1. ReadBlob(ref) \in {None, ref.state}
  BY DEF ReadBlob
<1>2. ASSUME Readable(file, ref.state, ref) PROVE ReadBlob(ref) = ref.state
  <2>1. ref.len = Payload /\ ref.off \in Nat /\ ref.off + Payload <= Len(file) /\ Len(file) \in Nat
    BY <1>2 DEF Readable, Refs, Files
  <2> DEFINE sub == SubSeq(file, ref.off + 1, ref.off + Payload)
  <2>2. sub = Bodies(ref.state)
    <3>1. \A i \in 1..Payload : file[ref.off + i] = Body(ref.state, i)
      BY <1>2 DEF Readable
    <3>2. PICK m \in Nat : m = ref.off
      BY <2>1
    <3>3. m + Payload <= Len(file) /\ Payload \in Nat /\ Payload > 0 /\ Len(file) \in Nat
      BY <2>1, <3>2, Limits
    <3>4. \A i \in (m + 1)..(m + Payload) : i \in 1..Len(file)
      BY <3>3
    <3>5. \A i \in (m + 1)..(m + Payload) : file[i] \in Units
      BY <3>4 DEF Files
    <3>6. PICK lo \in Int, hi \in Int : lo = m + 1 /\ hi = m + Payload
      BY <3>3
    <3>7. lo <= hi /\ hi - lo + 1 = Payload /\ \A i \in lo..hi : file[i] \in Units
      BY <3>3, <3>5, <3>6
    <3>8. /\ SubSeq(file, lo, hi) \in Seq(Units) /\ Len(SubSeq(file, lo, hi)) = Payload
          /\ \A i \in 1..Payload : SubSeq(file, lo, hi)[i] = file[lo + i - 1]
      <4>1. /\ SubSeq(file, lo, hi) \in Seq(Units)
            /\ Len(SubSeq(file, lo, hi)) = IF lo <= hi THEN hi - lo + 1 ELSE 0
            /\ \A i \in 1..(hi - lo + 1) : SubSeq(file, lo, hi)[i] = file[lo + i - 1]
        BY <3>7, SubSeqProperties
      <4> QED
        BY <3>7, <4>1
    <3>9. sub = SubSeq(file, lo, hi) /\ \A i \in 1..Payload : lo + i - 1 = ref.off + i
      BY SMTT(40), <3>2, <3>3, <3>6
    <3> HIDE DEF sub
    <3>10. Bodies(ref.state) \in Seq(Units) /\ Len(Bodies(ref.state)) = Payload
          /\ \A i \in 1..Payload : Bodies(ref.state)[i] = Body(ref.state, i)
      BY BodyUnit, Limits DEF Bodies, Refs
    <3> QED
      BY <3>1, <3>8, <3>9, <3>10, SeqEqual
  <2> QED
    BY <2>1, <2>2, Limits DEF ReadBlob
<1> QED
  BY <1>1, <1>2

LEMMA SidecarTypes == SidecarIInv => SidecarTypeOK
<1> SUFFICES ASSUME SidecarTyped PROVE SidecarTypeOK
  BY DEF SidecarIInv
<1>1. \A i \in 1..Len(file) : file[i].kind \in {"head", "body", "stub"}
  BY HeadUnit DEF SidecarTyped, Files
<1>2. ASSUME NEW i \in 1..Len(evicted)
      PROVE  evicted[i].t \in 1..MaxEvictions /\ evicted[i].state \in States /\ evicted[i].len \in {0, Payload}
  <2>1. evicted[i] \in Refs({0, Payload})
    BY ElementOfSeq DEF SidecarTyped
  <2> QED
    BY <2>1 DEF Refs
<1>3. DOMAIN blobs \subseteq States /\ \A s \in DOMAIN blobs : blobs[s].len = Payload
  BY TableIs DEF SidecarTyped, Spots
<1>4. minute \in 1..(MaxEvictions + 1)
  BY Limits DEF SidecarTyped
<1> QED
  BY <1>1, <1>2, <1>3, <1>4 DEF SidecarTyped, SidecarTypeOK

LEMMA SidecarTrue == SidecarIInv => FileIsTrue
<1> SUFFICES ASSUME SidecarIInv PROVE FileIsTrue
  OBVIOUS
<1>1. SidecarTyped /\ IndexOffered /\ IndexHolds /\ file \in Files
  BY DEF SidecarIInv, SidecarTyped
<1>2. \A i \in 1..Len(evicted) : evicted[i] \in Refs({0, Payload})
  BY <1>1, ElementOfSeq DEF SidecarTyped
<1>3. NeverAnotherCanvas
  BY <1>1, <1>2, ReadIs DEF NeverAnotherCanvas, IndexOffered
<1>4. SafeIsRecovered
  <2>1. SUFFICES ASSUME stage = "up", NEW w \in safe
                 PROVE  \E i \in 1..Len(evicted) : <<evicted[i].t, ReadBlob(evicted[i])>> = w
    BY DEF SafeIsRecovered
  <2>2. PICK i \in 1..Len(evicted) : Stands(file, evicted[i], w)
    BY <1>1, <2>1 DEF IndexHolds
  <2>3. ReadBlob(evicted[i]) = evicted[i].state
    BY <1>1, <1>2, <2>2, ReadIs DEF Stands
  <2>4. w = <<w[1], w[2]>>
    BY <1>1, <2>1 DEF SidecarTyped
  <2> QED
    BY <2>2, <2>3, <2>4 DEF Stands
<1> QED
  BY <1>3, <1>4 DEF FileIsTrue

(* Every reachable state of the file's half satisfies the inductive        *)
(* invariant (persist.go).                                                 *)
THEOREM SidecarInvariance == SidecarSpec => []SidecarIInv
  BY SidecarStarts, SidecarSteps, PTL DEF SidecarSpec

(* The file gives back what was put in it, or an error, and what was put   *)
(* in it before any damage is never lost, however many records, faults and *)
(* boots (writeAnchorBlob, scanAnchorSidecar, readAnchorBlobLocked).       *)
THEOREM FileTrue == SidecarSpec => []FileIsTrue
<1>1. SidecarIInv => FileIsTrue
  BY SidecarTrue
<1> QED
  BY <1>1, SidecarInvariance, PTL

(***************************************************************************)
(* The composition: one half moves, the other stands still.                *)
(***************************************************************************)
TimelineIInv ==
    /\ half \in {"grid", "file"}
    /\ HistoryIInv
    /\ SidecarIInv

LEMMA TimelineStarts == Init => TimelineIInv
  BY HistoryStarts, SidecarStarts DEF Init, TimelineIInv

LEMMA TimelineSteps == TimelineIInv /\ [Next]_vars => TimelineIInv'
<1> SUFFICES ASSUME TimelineIInv, [Next]_vars PROVE TimelineIInv'
  OBVIOUS
<1>1. CASE half = "grid" /\ HistoryNext /\ UNCHANGED <<sidecarVars, half>>
  BY <1>1, HistorySteps, SidecarSteps DEF TimelineIInv
<1>2. CASE half = "file" /\ SidecarNext /\ UNCHANGED <<historyVars, half>>
  BY <1>2, HistorySteps, SidecarSteps DEF TimelineIInv
<1>3. CASE UNCHANGED vars
  BY <1>3, HistorySteps, SidecarSteps DEF vars, TimelineIInv
<1> QED
  BY <1>1, <1>2, <1>3 DEF Next

(* Every reachable state of the history, whichever half moves, satisfies   *)
(* both inductive invariants.                                              *)
THEOREM TimelineInvariance == Spec => []TimelineIInv
  BY TimelineStarts, TimelineSteps, PTL DEF Spec

(* Every variable of grid and file keeps its type (History, persist.go).   *)
THEOREM TypeCorrect == Spec => []TypeOK
<1>1. TimelineIInv => TypeOK
  BY GridTyped, SidecarTypes DEF TimelineIInv, TypeOK
<1> QED
  BY <1>1, TimelineInvariance, PTL

(* Grid and file are true together: frames show the canvas of their time,  *)
(* the grid has no gaps, and the file gives back what was put in it, or an *)
(* error (FrameAt, insert, writeAnchorBlob, scanAnchorSidecar).            *)
THEOREM HistoryTrue == Spec => [](FramesAreTrue /\ GridIsWhole /\ FileIsTrue)
<1>1. TimelineIInv => FramesAreTrue /\ GridIsWhole /\ FileIsTrue
  BY GridTyped, Replies, SidecarTrue DEF TimelineIInv, HistoryIInv
<1> QED
  BY <1>1, TimelineInvariance, PTL
====
