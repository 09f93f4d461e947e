---- MODULE ConversionProofs ----
(***************************************************************************)
(* The conversions, for any grid, any size of a word and any input of the  *)
(* stated types: what the loops of Drawing come to, proved by induction    *)
(* over their steps, then what LoadPaint, FormatTextArt and RenderPreview  *)
(* make of that, then the invariant of Conversions.                        *)
(***************************************************************************)
EXTENDS Conversions, FiniteSetTheorems, SequenceTheorems, WellFoundedInduction, NaturalsInduction, TLAPS

(***************************************************************************)
(* The codec.                                                              *)
(***************************************************************************)
(* What is assumed of the sizes.                                           *)
LEMMA CodecSizes ==
  /\ Word \in Nat /\ Word > 1 /\ ColorRange \in Nat /\ ColorRange > 15
  /\ GridW \in Nat /\ GridW > 0 /\ GridH \in Nat /\ GridH > 0 /\ GridW <= Word /\ GridH <= Word
  /\ MaxColor = 15 /\ PaletteIndices = 0..15
  BY CodecAssumption, ConversionsAssumption DEF MaxColor, PaletteIndices

(* A quotient and remainder are the only ones.                             *)
LEMMA OnlyMultiple ==
  ASSUME NEW d \in Int, NEW w \in Nat, w > 0, d * w < w, d * w > -w
  PROVE  d = 0
<1>1. CASE d >= 1
  <2>1. (d - 1) * w >= 0
    BY <1>1
  <2>2. (d - 1) * w = d * w - w
    OBVIOUS
  <2> QED
    BY <2>1, <2>2
<1>2. CASE d <= -1
  <2>1. (-1 - d) * w >= 0
    BY <1>2
  <2>2. (-1 - d) * w = -w - d * w
    OBVIOUS
  <2> QED
    BY <2>1, <2>2
<1> QED
  BY <1>1, <1>2

(* A word's quotient and remainder are what was packed.                    *)
LEMMA DivMod ==
  ASSUME NEW w \in Nat, w > 0, NEW x \in Int, NEW y \in 0..(w - 1)
  PROVE  (x * w + y) \div w = x /\ (x * w + y) % w = y
<1> DEFINE a == x * w + y
           q == a \div w
           r == a % w
<1>1. a \in Int
  OBVIOUS
<1>2. q \in Int /\ r \in 0..(w - 1) /\ a = w * q + r
  BY <1>1
<1> HIDE DEF q, r
<1>3. (x - q) * w = r - y
  BY <1>2
<1>4. x - q = 0
  BY <1>2, <1>3, OnlyMultiple
<1>5. q = x /\ r = y
  BY <1>2, <1>3, <1>4
<1> QED
  BY <1>5 DEF q, r

(* A pixel id unpacks into the coordinates it was packed from.             *)
LEMMA Unpacks ==
  ASSUME NEW x \in Uint32, NEW y \in Uint32
  PROVE  Packed(x, y) \in Nat /\ Packed(x, y) \div Word = x /\ Packed(x, y) % Word = y
<1>1. Word \in Nat /\ Word > 0 /\ x \in Nat /\ y \in 0..(Word - 1)
  BY CodecSizes DEF Uint32
<1>2. x * Word + y \in Nat
  BY <1>1
<1> QED
  BY <1>1, <1>2, DivMod DEF Packed

(* No two cells have one account, and no cell the pool's.                  *)
LEMMA PixelIDs ==
  ASSUME NEW x \in Uint32, NEW y \in Uint32
  PROVE  /\ IsPixelID(PixelID(x, y)) /\ UnpackPixelID(PixelID(x, y)) = <<x, y>>
         /\ \A u \in Uint32, v \in Uint32 : PixelID(u, v) = PixelID(x, y) => u = x /\ v = y
         /\ \A u, v : PixelID(x, y) # FundID(u, v)
         /\ PixelID(x, y) # SystemPoolID /\ ~IsPixelID(SystemPoolID)
<1>1. UnpackPixelID(PixelID(x, y)) = <<x, y>>
  BY Unpacks DEF UnpackPixelID, PixelID
<1>2. ASSUME NEW u \in Uint32, NEW v \in Uint32, PixelID(u, v) = PixelID(x, y) PROVE u = x /\ v = y
  <2>1. Packed(u, v) = Packed(x, y)
    BY <1>2 DEF PixelID
  <2> QED
    BY <2>1, Unpacks
<1> QED
  BY <1>1, <1>2 DEF IsPixelID, PixelID, FundID, SystemPoolID, PixelIDMarker, fundMarker

(* A colour's byte is the colour and one.                                  *)
LEMMA ByteIs == \A c \in 0..15 : ByteOf(c) = c + 1
  BY DEF ByteOf

(* The entries of an accepted claim.                                       *)
EntriesOf(x, y, color) ==
    LET t == ClaimTransfer(x, y, color) IN
    [e \in Entry |-> CASE e = "funded" -> FundTransfer(x, y)
                       [] e = "pending" -> t
                       [] e = "posted" -> Posted(t)
                       [] e = "refunded" -> Refund(x, y)
                       [] e = "voided" -> Voided(t)]

(* The entries, field by field.                                            *)
LEMMA EntriesAre ==
  ASSUME NEW x, NEW y, NEW color
  PROVE  LET of == EntriesOf(x, y, color)
             t == ClaimTransfer(x, y, color) IN
         /\ of["funded"] = Refund(x, y) /\ of["pending"] = t /\ of["posted"] = Posted(t)
         /\ of["refunded"] = Refund(x, y) /\ of["voided"] = Voided(t)
  BY DEF EntriesOf, Entry, FundTransfer

(* What ColoursAgree asks of the entries of an accepted claim: only the    *)
(* posted one paints, on its own cell, the colour asked for, by each of    *)
(* the three ways; and no cell shares its account.                         *)
LEMMA ColoursFollow ==
  ASSUME NEW x \in Uint32, NEW y \in Uint32, NEW color \in 0..ColorRange - 1, Accepts(x, y, color)
  PROVE  LET of == EntriesOf(x, y, color)
             posted == of["posted"]
             paints == {e \in Entry : IsPostedClaim(of[e])}
             paintsElsewhere == {e \in Entry : EventOf(of[e]).type = "two_phase_posted"}
         IN
         /\ paints = {"posted"} /\ paintsElsewhere = {"posted"}
         /\ UnpackPixelID(posted.debit) = <<x, y>> /\ EventOf(posted).cell = <<x, y>>
         /\ ByteOf(color) = color + 1
         /\ ByteOf(ColorOfCode(posted)) = color + 1
         /\ ByteOf(EventOf(posted).color) = color + 1
         /\ \A p \in Grid : PixelID(p[1], p[2]) = posted.debit => p = <<x, y>>
         /\ posted.debit # FundID(x, y) /\ posted.debit # SystemPoolID
<1> DEFINE of == EntriesOf(x, y, color)
           t == ClaimTransfer(x, y, color)
           posted == of["posted"]
<1>1. color \in 0..15 /\ x < GridW /\ y < GridH /\ Clamped(color) = color
  BY CodecSizes DEF Accepts, Clamped
<1>2. t.debit = PixelID(x, y) /\ t.credit = SystemPoolID /\ t.code = 1000 + color /\ t.flags = {"pending"}
  BY <1>1 DEF ClaimTransfer, Transfer, TransferCodeClaim
<1>3. posted = Posted(t) /\ of["funded"] = Refund(x, y) /\ of["pending"] = t /\ of["refunded"] = Refund(x, y) /\ of["voided"] = Voided(t)
  BY EntriesAre
<1>4. posted.debit = PixelID(x, y) /\ posted.code = 1000 + color /\ posted.flags = {"post", "linked"}
  BY <1>2, <1>3 DEF ClaimTransfer, Transfer, Posted
<1>5. of["voided"].flags = {"void"}
  BY <1>3 DEF ClaimTransfer, Transfer, Voided
<1>6. of["refunded"].flags = {} /\ of["funded"].flags = {}
  BY <1>3 DEF Refund, Transfer
<1> HIDE DEF of, t
<1>7. UnpackPixelID(PixelID(x, y)) = <<x, y>> /\ IsPixelID(PixelID(x, y))
  BY PixelIDs
<1>8. IsPostedClaim(posted)
  BY <1>1, <1>4, <1>7 DEF IsPostedClaim, TransferCodeClaim
<1>9. {e \in Entry : IsPostedClaim(of[e])} = {"posted"}
  BY <1>2, <1>3, <1>5, <1>6, <1>8 DEF IsPostedClaim, Entry
<1>10. EventOf(posted).type = "two_phase_posted" /\ EventOf(posted).cell = <<x, y>> /\ EventOf(posted).color = ColorOfCode(posted)
  <2>1. posted.flags \cap {"pending", "post"} # {} /\ "pending" \notin posted.flags /\ "post" \in posted.flags
    BY <1>4
  <2>2. posted.code >= TransferCodeClaim
    BY <1>1, <1>4 DEF TransferCodeClaim
  <2> QED
    BY <1>4, <1>7, <2>1, <2>2 DEF EventOf
<1>11. EventOf(t).type # "two_phase_posted"
  BY <1>2 DEF EventOf
<1>12. \A e \in {"voided", "refunded", "funded"} : EventOf(of[e]).type # "two_phase_posted"
  BY <1>5, <1>6 DEF EventOf
<1>13. {e \in Entry : EventOf(of[e]).type = "two_phase_posted"} = {"posted"}
  BY <1>3, <1>10, <1>11, <1>12 DEF Entry
<1>14. ColorOfCode(posted) = color
  BY <1>1, <1>4, CodecSizes DEF ColorOfCode, TransferCodeClaim
<1>15. ByteOf(color) = color + 1
  BY <1>1, ByteIs
<1>16. \A p \in Grid : PixelID(p[1], p[2]) = posted.debit => p = <<x, y>>
  <2> SUFFICES ASSUME NEW p \in Grid, PixelID(p[1], p[2]) = posted.debit PROVE p = <<x, y>>
    OBVIOUS
  <2>1. p = <<p[1], p[2]>> /\ p[1] \in Uint32 /\ p[2] \in Uint32
    BY CodecSizes DEF Grid, FillRect, Uint32
  <2>2. p[1] = x /\ p[2] = y
    BY <1>4, <2>1, PixelIDs
  <2> QED
    BY <2>1, <2>2
<1>17. posted.debit # FundID(x, y) /\ posted.debit # SystemPoolID
  BY <1>4, PixelIDs
<1> QED
  BY <1>4, <1>7, <1>9, <1>10, <1>13, <1>14, <1>15, <1>16, <1>17 DEF of

(***************************************************************************)
(* Loops, finite sets, their extremes and sums.                            *)
(***************************************************************************)
(* Induction over the steps of a loop, for a set of numbers.               *)
LEMMA Induction ==
  ASSUME NEW N \in Nat, NEW T, 0 \in T, \A n \in 1..N : n - 1 \in T => n \in T
  PROVE  \A n \in 0..N : n \in T
<1> DEFINE Before == OpToRel(<, Nat)
           Rest == {n \in 0..N : n \notin T}
<1>1. SUFFICES ASSUME Rest # {} PROVE FALSE
  OBVIOUS
<1>2. IsWellFoundedOn(Before, Nat)
  BY NatLessThanWellFounded DEF OpToRel
<1>3. Rest \subseteq Nat
  OBVIOUS
<1>4. PICK x \in Rest : \A y \in Rest : ~(<<y, x>> \in Before)
  <2> HIDE DEF Rest, Before
  <2> QED
    BY <1>1, <1>2, <1>3, WFMin, Zenon
<1>5. \A y \in Rest : ~(y < x)
  BY <1>3, <1>4 DEF OpToRel
<1>6. x \in 1..N
  <2>1. x \in 0..N /\ x \notin T
    OBVIOUS
  <2>2. x # 0
    BY <2>1
  <2> QED
    BY <2>1, <2>2
<1>7. x - 1 \in T
  BY <1>5, <1>6
<1> QED
  BY <1>4, <1>6, <1>7

(* A set of numbers up to N has a greatest one.                            *)
LEMMA Greatest ==
  ASSUME NEW N \in Nat, NEW T \in SUBSET (0..N), T # {}
  PROVE  \E x \in T : \A y \in T : y <= x
<1> DEFINE Right == {n \in 0..N : (\E x \in T : x <= n) => \E x \in T : x <= n /\ \A y \in T : y <= n => y <= x}
<1>1. 0 \in Right
  OBVIOUS
<1>2. ASSUME NEW n \in 1..N, n - 1 \in Right PROVE n \in Right
  <2>1. CASE n \in T
    BY <1>2, <2>1
  <2>2. CASE n \notin T
    <3>1. \A y \in T : y <= n <=> y <= n - 1
      BY <2>2
    <3> QED
      BY <1>2, <3>1
  <2> QED
    BY <2>1, <2>2
<1>3. N \in Right
  <2> HIDE DEF Right
  <2> QED
    BY <1>1, <1>2, Induction
<1>4. \A y \in T : y <= N
  OBVIOUS
<1>5. (\E x \in T : x <= N) => \E x \in T : x <= N /\ \A y \in T : y <= N => y <= x
  BY <1>3
<1> QED
  BY <1>4, <1>5

(* A loop over 1..N that goes from one member of S to another.             *)
IsLoop(f, S, a, N, G) == f \in [0..N -> S] /\ f[0] = a /\ \A n \in 1..N : f[n] = G[<<f[n - 1], n>>]

(* The recursive function of such a loop exists, and CHOOSE finds it.      *)
LEMMA Recursion ==
  ASSUME NEW S, NEW a \in S, NEW N \in Nat, NEW G \in [S \X (1..N) -> S]
  PROVE  \E f : IsLoop(f, S, a, N, G)
<1> DEFINE Upto(f, k) == f \in [0..k -> S] /\ f[0] = a /\ \A n \in 1..k : f[n] = G[<<f[n - 1], n>>]
           T == {k \in 0..N : \E f : Upto(f, k)}
<1>1. 0 \in T
  <2> DEFINE h == [n \in 0..0 |-> a]
  <2>1. Upto(h, 0)
    OBVIOUS
  <2> HIDE DEF Upto
  <2> QED
    BY <2>1
<1>2. ASSUME NEW k \in 1..N, k - 1 \in T PROVE k \in T
  <2>1. \E f : Upto(f, k - 1)
    BY <1>2
  <2>2. PICK f : Upto(f, k - 1)
    BY <2>1
  <2>3. /\ f \in [0..(k - 1) -> S] /\ f[0] = a
        /\ \A n \in 1..(k - 1) : f[n] = G[<<f[n - 1], n>>]
    BY <2>2
  <2> DEFINE h == [n \in 0..k |-> IF n = k THEN G[<<f[k - 1], k>>] ELSE f[n]]
  <2>4. f[k - 1] \in S
    <3>1. k - 1 \in 0..(k - 1)
      OBVIOUS
    <3> QED
      BY <2>3, <3>1
  <2>5. G[<<f[k - 1], k>>] \in S
    BY <2>4
  <2>6. \A n \in 0..k : n # k => n \in 0..(k - 1)
    OBVIOUS
  <2>7. h \in [0..k -> S]
    BY <2>3, <2>5, <2>6
  <2>8. h[0] = a
    <3>1. 0 \in 0..k /\ 0 # k
      OBVIOUS
    <3>2. h[0] = f[0]
      BY <3>1
    <3> QED
      BY <2>3, <3>2
  <2>9. ASSUME NEW n \in 1..k PROVE h[n] = G[<<h[n - 1], n>>]
    <3>1. n \in 0..k /\ n - 1 \in 0..k /\ n - 1 # k
      OBVIOUS
    <3>2. h[n - 1] = f[n - 1]
      BY <3>1
    <3>3. CASE n = k
      BY <3>1, <3>2, <3>3
    <3>4. CASE n # k
      <4>1. n \in 1..(k - 1) /\ h[n] = f[n]
        BY <3>1, <3>4
      <4> QED
        BY <2>3, <3>2, <4>1
    <3> QED
      BY <3>3, <3>4
  <2> HIDE DEF h
  <2>10. Upto(h, k)
    BY <2>7, <2>8, <2>9
  <2> HIDE DEF Upto
  <2> QED
    BY <2>10
<1> HIDE DEF Upto
<1>3. N \in T
  <2> HIDE DEF T
  <2> QED
    BY <1>1, <1>2, Induction
<1>4. PICK f : Upto(f, N)
  BY <1>3
<1> QED
  BY <1>4 DEF Upto, IsLoop

(* Induction over the finite sets that grow into S.                        *)
LEMMA FiniteInduction ==
  ASSUME NEW S, IsFiniteSet(S), NEW F, {} \in F,
         \A T \in F : \A x \in S \ T : T \subseteq S => T \cup {x} \in F
  PROVE  \A T \in SUBSET S : T \in F
<1> DEFINE N == Cardinality(S)
           Good == {n \in 0..N : \A T \in SUBSET S : Cardinality(T) = n => T \in F}
<1>1. N \in Nat
  BY FS_CardinalityType
<1>2. \A T \in SUBSET S : IsFiniteSet(T) /\ Cardinality(T) \in 0..N
  BY <1>1, FS_Subset, FS_CardinalityType
<1>3. 0 \in Good
  BY <1>1, <1>2, FS_EmptySet
<1>4. ASSUME NEW n \in 1..N, n - 1 \in Good PROVE n \in Good
  <2> SUFFICES ASSUME NEW T \in SUBSET S, Cardinality(T) = n PROVE T \in F
    BY <1>1
  <2>1. PICK x : x \in T
    BY <1>2, FS_EmptySet
  <2>2. Cardinality(T \ {x}) = n - 1
    BY <1>2, <2>1, FS_RemoveElement
  <2>3. T \ {x} \in F
    BY <1>4, <2>2
  <2>4. (T \ {x}) \cup {x} = T /\ x \in S \ (T \ {x}) /\ T \ {x} \subseteq S
    BY <2>1
  <2> QED
    BY <2>3, <2>4
<1>5. \A n \in 0..N : n \in Good
  <2> HIDE DEF Good, N
  <2> QED
    BY <1>1, <1>3, <1>4, Induction
<1> QED
  BY <1>2, <1>5

(* The image of a finite set is finite.                                    *)
LEMMA ImageIsFinite ==
  ASSUME NEW S, IsFiniteSet(S), NEW f
  PROVE  IsFiniteSet({f[x] : x \in S}) /\ Cardinality({f[x] : x \in S}) <= Cardinality(S)
<1> DEFINE T == {f[x] : x \in S}
           g == [x \in S |-> f[x]]
<1>1. g \in Surjection(S, T)
  BY DEF Surjection
<1> HIDE DEF g
<1> QED
  BY <1>1, FS_Surjection

(* An image that keeps its elements apart is as large.                     *)
LEMMA InjectiveImage ==
  ASSUME NEW S, IsFiniteSet(S), NEW f, \A a, b \in S : f[a] = f[b] => a = b
  PROVE  IsFiniteSet({f[x] : x \in S}) /\ Cardinality({f[x] : x \in S}) = Cardinality(S)
<1> DEFINE T == {f[x] : x \in S}
           g == [x \in S |-> f[x]]
<1>1. g \in Surjection(S, T)
  BY DEF Surjection
<1>2. g \in Injection(S, T)
  BY DEF Injection, IsInjective
<1> HIDE DEF g
<1> QED
  BY <1>1, <1>2, FS_Surjection

(* Max of a finite set of integers is its greatest element.                *)
LEMMA MaxIs ==
  ASSUME NEW S \in SUBSET Int, IsFiniteSet(S), S # {}
  PROVE  Max(S) \in S /\ \A y \in S : y <= Max(S)
<1> DEFINE F == {T \in SUBSET S : T # {} => \E x \in T : \A y \in T : x >= y}
<1>1. {} \in F
  OBVIOUS
<1>2. ASSUME NEW T \in F, NEW x \in S \ T PROVE T \cup {x} \in F
  <2>1. CASE T = {}
    BY <2>1
  <2>2. CASE T # {}
    <3>1. PICK m \in T : \A y \in T : m >= y
      BY <2>2
    <3>2. CASE x >= m
      BY <3>1, <3>2
    <3>3. CASE m >= x
      BY <3>1, <3>3
    <3> QED
      BY <3>2, <3>3
  <2> QED
    BY <2>1, <2>2
<1>3. S \in F
  <2> HIDE DEF F
  <2> QED
    BY ZenonT(60), <1>1, <1>2, FiniteInduction
<1>4. \E x \in S : \A y \in S : x >= y
  BY <1>3
<1>5. Max(S) \in S /\ \A y \in S : Max(S) >= y
  BY <1>4 DEF Max
<1> QED
  BY <1>5

(* Min of one is its least element.                                        *)
LEMMA MinIs ==
  ASSUME NEW S \in SUBSET Int, IsFiniteSet(S), S # {}
  PROVE  Min(S) \in S /\ \A y \in S : Min(S) <= y
<1> DEFINE F == {T \in SUBSET S : T # {} => \E x \in T : \A y \in T : x <= y}
<1>1. {} \in F
  OBVIOUS
<1>2. ASSUME NEW T \in F, NEW x \in S \ T PROVE T \cup {x} \in F
  <2>1. CASE T = {}
    BY <2>1
  <2>2. CASE T # {}
    <3>1. PICK m \in T : \A y \in T : m <= y
      BY <2>2
    <3>2. CASE x <= m
      BY <3>1, <3>2
    <3>3. CASE m <= x
      BY <3>1, <3>3
    <3> QED
      BY <3>2, <3>3
  <2> QED
    BY <2>1, <2>2
<1>3. S \in F
  <2> HIDE DEF F
  <2> QED
    BY ZenonT(60), <1>1, <1>2, FiniteInduction
<1>4. \E x \in S : \A y \in S : x <= y
  BY <1>3
<1>5. Min(S) \in S /\ \A y \in S : Min(S) <= y
  BY <1>4 DEF Min
<1> QED
  BY <1>5

(* Max and Min of two integers.                                            *)
LEMMA MaxOfTwo ==
  ASSUME NEW a \in Int, NEW b \in Int
  PROVE  Max({a, b}) = (IF a >= b THEN a ELSE b) /\ Min({a, b}) = (IF a >= b THEN b ELSE a)
<1>1. {a, b} \in SUBSET Int /\ {a, b} # {} /\ IsFiniteSet({a, b})
  <2>1. IsFiniteSet({a})
    BY FS_Singleton
  <2>2. IsFiniteSet({a} \cup {b})
    BY <2>1, FS_AddElement
  <2>3. {a, b} = {a} \cup {b}
    OBVIOUS
  <2>4. IsFiniteSet({a, b})
    BY <2>2, <2>3
  <2> QED
    BY <2>4
<1>2. Max({a, b}) \in {a, b} /\ a <= Max({a, b}) /\ b <= Max({a, b})
  BY <1>1, MaxIs
<1>3. Min({a, b}) \in {a, b} /\ Min({a, b}) <= a /\ Min({a, b}) <= b
  BY <1>1, MinIs
<1> QED
  BY <1>2, <1>3

(* The sums of f over the subsets of S, as the community modules fold.     *)
Any(s) == CHOOSE x \in s : TRUE
Summed(g, f, s) == IF s = {} THEN 0 ELSE f[Any(s)] + g[s \ {Any(s)}]
AreSums(g, f, S) == g \in [SUBSET S -> Int] /\ \A s \in SUBSET S : g[s] = Summed(g, f, s)

(* Finite sets grow by the element that CHOOSE takes.                      *)
LEMMA AnyInduction ==
  ASSUME NEW S, IsFiniteSet(S), NEW F, {} \in F,
         \A s \in SUBSET S : s # {} /\ s \ {Any(s)} \in F => s \in F
  PROVE  \A s \in SUBSET S : s \in F
<1> DEFINE N == Cardinality(S)
           Good == {n \in 0..N : \A s \in SUBSET S : Cardinality(s) = n => s \in F}
<1>1. N \in Nat /\ \A s \in SUBSET S : IsFiniteSet(s) /\ Cardinality(s) \in 0..N
  BY FS_CardinalityType, FS_Subset
<1>2. 0 \in Good
  BY SMTT(40), <1>1, FS_EmptySet
<1>3. ASSUME NEW n \in 1..N, n - 1 \in Good PROVE n \in Good
  <2> SUFFICES ASSUME NEW s \in SUBSET S, Cardinality(s) = n PROVE s \in F
    BY <1>1
  <2>1. s # {} /\ Any(s) \in s
    BY <1>1, FS_EmptySet DEF Any
  <2>2. Cardinality(s \ {Any(s)}) = n - 1 /\ s \ {Any(s)} \in SUBSET S
    BY <1>1, <2>1, FS_RemoveElement
  <2>3. s \ {Any(s)} \in F
    BY <1>3, <2>2
  <2> QED
    BY <2>1, <2>3
<1>4. \A n \in 0..N : n \in Good
  <2> HIDE DEF Good, N
  <2> QED
    BY <1>1, <1>2, <1>3, Induction
<1> QED
  BY <1>1, <1>4

(* The sums over the subsets of a finite set exist.                        *)
LEMMA SumsExist ==
  ASSUME NEW S, IsFiniteSet(S), NEW f \in [S -> Int]
  PROVE  \E g : AreSums(g, f, S)
<1> DEFINE N == Cardinality(S)
           Small(n) == {s \in SUBSET S : Cardinality(s) <= n}
           Upto(g, n) == g \in [Small(n) -> Int] /\ \A s \in Small(n) : g[s] = Summed(g, f, s)
           Good == {n \in 0..N : \E g : Upto(g, n)}
<1>1. N \in Nat /\ \A s \in SUBSET S : IsFiniteSet(s) /\ Cardinality(s) \in 0..N
  BY FS_CardinalityType, FS_Subset
<1>2. \A s \in SUBSET S : s # {} => Any(s) \in s /\ Any(s) \in S /\ s \ {Any(s)} \in SUBSET S /\ Cardinality(s \ {Any(s)}) = Cardinality(s) - 1
  BY <1>1, FS_RemoveElement DEF Any
<1>3. \A s \in SUBSET S : Cardinality(s) = 0 <=> s = {}
  BY <1>1, FS_EmptySet
<1>4. 0 \in Good
  <2> DEFINE g == [s \in Small(0) |-> 0]
  <2>1. \A s \in Small(0) : s = {}
    BY <1>1, <1>3
  <2>2. Upto(g, 0)
    BY <2>1 DEF Summed
  <2> HIDE DEF Upto
  <2> QED
    BY <1>1, <2>2
<1>5. ASSUME NEW n \in 1..N, n - 1 \in Good PROVE n \in Good
  <2>1. PICK g : Upto(g, n - 1)
    BY <1>5
  <2> DEFINE h == [s \in Small(n) |-> IF Cardinality(s) = n THEN f[Any(s)] + g[s \ {Any(s)}] ELSE g[s]]
  <2>2. \A s \in Small(n) : Cardinality(s) # n => s \in Small(n - 1)
    BY <1>1
  <2>3. \A s \in Small(n) : s # {} => s \ {Any(s)} \in Small(n - 1) /\ s \ {Any(s)} \in Small(n) /\ Cardinality(s \ {Any(s)}) # n
    BY <1>1, <1>2
  <2>4. \A s \in Small(n) : Cardinality(s) = n => s # {}
    BY <1>1, <1>3
  <2>5. h \in [Small(n) -> Int]
    <3> SUFFICES ASSUME NEW s \in Small(n) PROVE (IF Cardinality(s) = n THEN f[Any(s)] + g[s \ {Any(s)}] ELSE g[s]) \in Int
      OBVIOUS
    <3>1. CASE Cardinality(s) = n
      BY <1>2, <2>1, <2>3, <2>4, <3>1
    <3>2. CASE Cardinality(s) # n
      BY <2>1, <2>2, <3>2
    <3> QED
      BY <3>1, <3>2
  <2>6. ASSUME NEW s \in Small(n) PROVE h[s] = Summed(h, f, s)
    <3>1. s # {} => h[s \ {Any(s)}] = g[s \ {Any(s)}]
      BY <2>3
    <3>2. CASE Cardinality(s) = n
      BY <2>4, <3>1, <3>2 DEF Summed
    <3>3. CASE Cardinality(s) # n
      <4>1. s \in Small(n - 1) /\ h[s] = g[s]
        BY <2>2, <3>3
      <4>2. g[s] = Summed(g, f, s)
        BY <2>1, <4>1
      <4> QED
        BY <3>1, <4>1, <4>2 DEF Summed
    <3> QED
      BY <3>2, <3>3
  <2> HIDE DEF h
  <2>7. Upto(h, n)
    BY <2>5, <2>6
  <2> HIDE DEF Upto
  <2> QED
    BY <1>1, <2>7
<1>6. N \in Good
  <2> HIDE DEF Good, N
  <2> QED
    BY <1>1, <1>4, <1>5, Induction
<1>7. PICK g : Upto(g, N)
  BY <1>6
<1>8. Small(N) = SUBSET S
  BY <1>1
<1>9. AreSums(g, f, S)
  BY <1>7, <1>8 DEF AreSums
<1> QED
  BY <1>9

(* FoldFunction adds up the values of a function.                          *)
LEMMA FoldIsSum ==
  ASSUME NEW S, IsFiniteSet(S), NEW f \in [S -> Int]
  PROVE  \E g : AreSums(g, f, S) /\ FoldFunction(+, 0, f) = g[S]
<1>1. PICK h : AreSums(h, f, S)
  BY SumsExist
<1> DEFINE iter == CHOOSE g : g = [s \in SUBSET S |-> Summed(g, f, s)]
<1>2. h = [s \in SUBSET S |-> Summed(h, f, s)]
  BY <1>1 DEF AreSums
<1>3. iter = [s \in SUBSET S |-> Summed(iter, f, s)]
  BY <1>2
<1>4. FoldFunction(+, 0, f) = iter[S]
  BY DEF FoldFunction, FoldFunctionOnSet, MapThenFoldSet, Summed, Any
<1> HIDE DEF iter
<1> DEFINE F == {s \in SUBSET S : iter[s] = h[s]}
<1>5. {} \in F
  BY <1>2, <1>3 DEF Summed
<1>6. ASSUME NEW s \in SUBSET S, s # {} /\ s \ {Any(s)} \in F PROVE s \in F
  <2>1. iter[s] = f[Any(s)] + iter[s \ {Any(s)}]
    BY <1>3, <1>6 DEF Summed
  <2>2. h[s] = f[Any(s)] + h[s \ {Any(s)}]
    BY <1>1, <1>6 DEF Summed, AreSums
  <2> QED
    BY <1>6, <2>1, <2>2
<1>7. S \in F
  <2> HIDE DEF F
  <2>1. \A s \in SUBSET S : s # {} /\ s \ {Any(s)} \in F => s \in F
    BY <1>6
  <2> QED
    BY <1>5, <2>1, AnyInduction
<1> QED
  BY <1>1, <1>4, <1>7

(* A sum of natural numbers is one, and c times the number of its terms    *)
(* where each is c.                                                        *)
LEMMA SumOfNats ==
  ASSUME NEW S, IsFiniteSet(S), NEW f \in [S -> Nat]
  PROVE  FoldFunction(+, 0, f) \in Nat
<1>1. f \in [S -> Int]
  OBVIOUS
<1>2. PICK g : AreSums(g, f, S) /\ FoldFunction(+, 0, f) = g[S]
  BY <1>1, FoldIsSum
<1> DEFINE F == {s \in SUBSET S : g[s] \in Nat}
<1>3. {} \in F
  <2>1. {} \in SUBSET S /\ g[{}] = Summed(g, f, {})
    BY <1>2 DEF AreSums
  <2> QED
    BY <2>1 DEF Summed
<1>4. \A s \in SUBSET S : s # {} /\ s \ {Any(s)} \in F => s \in F
  <2> SUFFICES ASSUME NEW s \in SUBSET S, s # {}, s \ {Any(s)} \in F PROVE s \in F
    OBVIOUS
  <2>1. g[s] = f[Any(s)] + g[s \ {Any(s)}]
    BY <1>2 DEF Summed, AreSums
  <2>2. Any(s) \in S
    BY DEF Any
  <2> QED
    BY <2>1, <2>2
<1>5. S \in F
  <2> HIDE DEF F
  <2> QED
    BY <1>3, <1>4, AnyInduction
<1> QED
  BY <1>2, <1>5

(* A sum of equal terms is a product.                                      *)
LEMMA SumOfEquals ==
  ASSUME NEW S, IsFiniteSet(S), NEW c \in Int, NEW f \in [S -> Int], \A x \in S : f[x] = c
  PROVE  FoldFunction(+, 0, f) = c * Cardinality(S)
<1>1. PICK g : AreSums(g, f, S) /\ FoldFunction(+, 0, f) = g[S]
  BY FoldIsSum
<1> DEFINE F == {s \in SUBSET S : g[s] = c * Cardinality(s)}
<1>2. {} \in F
  <2>1. {} \in SUBSET S /\ g[{}] = Summed(g, f, {})
    BY <1>1 DEF AreSums
  <2>2. Cardinality({}) = 0 /\ c * 0 = 0
    BY FS_EmptySet
  <2> QED
    BY <2>1, <2>2 DEF Summed
<1>3. \A s \in SUBSET S : s # {} /\ s \ {Any(s)} \in F => s \in F
  <2> SUFFICES ASSUME NEW s \in SUBSET S, s # {}, s \ {Any(s)} \in F PROVE s \in F
    OBVIOUS
  <2>1. g[s] = f[Any(s)] + g[s \ {Any(s)}]
    BY <1>1 DEF Summed, AreSums
  <2>2. Any(s) \in S /\ Any(s) \in s
    BY DEF Any
  <2>3. IsFiniteSet(s)
    BY FS_Subset
  <2>4. Cardinality(s \ {Any(s)}) = Cardinality(s) - 1 /\ Cardinality(s) \in Nat
    BY <2>2, <2>3, FS_RemoveElement, FS_CardinalityType
  <2>5. PICK n \in Nat : n = Cardinality(s)
    BY <2>4
  <2>6. g[s] = c + c * (n - 1)
    BY <2>1, <2>2, <2>4, <2>5
  <2>7. c + c * (n - 1) = c * n
    BY <2>5
  <2> QED
    BY <2>5, <2>6, <2>7
<1>4. S \in F
  <2> HIDE DEF F
  <2> QED
    BY <1>2, <1>3, AnyInduction
<1> QED
  BY <1>1, <1>4

(* A sum of which only the terms of T count, each c.                       *)
LEMMA SumOfChosen ==
  ASSUME NEW S, IsFiniteSet(S), NEW T, NEW c \in Int, NEW f \in [S -> Int], \A x \in S : f[x] = IF x \in T THEN c ELSE 0
  PROVE  FoldFunction(+, 0, f) = c * Cardinality(S \cap T)
<1>1. PICK g : AreSums(g, f, S) /\ FoldFunction(+, 0, f) = g[S]
  BY FoldIsSum
<1> DEFINE F == {s \in SUBSET S : g[s] = c * Cardinality(s \cap T)}
<1>2. {} \in F
  <2>1. {} \in SUBSET S /\ g[{}] = Summed(g, f, {})
    BY <1>1 DEF AreSums
  <2>2. {} \cap T = {} /\ Cardinality({}) = 0 /\ c * 0 = 0
    BY FS_EmptySet
  <2> QED
    BY <2>1, <2>2 DEF Summed
<1>3. \A s \in SUBSET S : s # {} /\ s \ {Any(s)} \in F => s \in F
  <2> SUFFICES ASSUME NEW s \in SUBSET S, s # {}, s \ {Any(s)} \in F PROVE s \in F
    OBVIOUS
  <2>1. g[s] = f[Any(s)] + g[s \ {Any(s)}]
    BY <1>1 DEF Summed, AreSums
  <2>2. PICK x : x = Any(s) /\ x \in S /\ x \in s
    BY DEF Any
  <2>3. IsFiniteSet(s \cap T)
    BY FS_Subset
  <2>4. PICK n \in Nat : n = Cardinality((s \ {x}) \cap T) /\ g[s] = f[x] + c * n
    <3>1. IsFiniteSet((s \ {x}) \cap T) /\ Cardinality((s \ {x}) \cap T) \in Nat
      BY FS_Subset, FS_CardinalityType
    <3> QED
      BY <2>1, <2>2, <3>1
  <2>5. CASE x \in T
    <3>1. (s \ {x}) \cap T = (s \cap T) \ {x} /\ x \in s \cap T
      BY <2>2, <2>5
    <3>2. Cardinality((s \cap T) \ {x}) = Cardinality(s \cap T) - 1 /\ Cardinality(s \cap T) \in Nat
      BY <2>3, <3>1, FS_RemoveElement, FS_CardinalityType
    <3>3. Cardinality(s \cap T) = n + 1
      <4>1. PICK m \in Nat : m = Cardinality(s \cap T) /\ Cardinality((s \cap T) \ {x}) = m - 1
        BY <3>2
      <4>2. n = m - 1
        BY <2>4, <3>1, <4>1
      <4> QED
        BY <4>1, <4>2
    <3>4. c + c * n = c * (n + 1) /\ f[x] = c
      BY <2>2, <2>5
    <3> QED
      BY <2>4, <3>3, <3>4
  <2>6. CASE x \notin T
    <3>1. (s \ {x}) \cap T = s \cap T /\ f[x] = 0 /\ 0 + c * n = c * n
      BY <2>2, <2>6
    <3> QED
      BY <2>4, <3>1
  <2> QED
    BY <2>5, <2>6
<1>4. S \in F
  <2> HIDE DEF F
  <2> QED
    BY <1>2, <1>3, AnyInduction
<1> QED
  BY <1>1, <1>4

(***************************************************************************)
(* Lines.  d is the longer extent and e the shorter, i and j the steps     *)
(* taken along them, s the error term as seen from the longer.             *)
(***************************************************************************)
WithinHalf(d, e, i, j) == 2 * (j * d - i * e) <= d /\ -d <= 2 * (j * d - i * e)

(* Bresenham's step: the error term decides for the nearer cell.           *)
LEMMA ErrorStep ==
  ASSUME NEW d \in Nat, NEW e \in Nat, e <= d, NEW i \in Nat, NEW j \in Nat, WithinHalf(d, e, i, j),
         NEW s \in Int, s = (j + 1) * d - (i + 1) * e
  PROVE  LET k == IF 2 * s <= d THEN j + 1 ELSE j IN
         /\ 2 * s >= -e
         /\ WithinHalf(d, e, i + 1, k)
         /\ s - e + (IF 2 * s <= d THEN d ELSE 0) = (k + 1) * d - (i + 2) * e
<1>1. PICK p \in Int, q \in Int : p = j * d /\ q = i * e
  OBVIOUS
<1>2. (j + 1) * d = p + d /\ (j + 2) * d = p + 2 * d /\ (i + 1) * e = q + e /\ (i + 2) * e = q + 2 * e
  BY <1>1
<1>3. 2 * (p - q) <= d /\ -d <= 2 * (p - q)
  BY <1>1 DEF WithinHalf
<1>4. s = p + d - q - e
  BY <1>2
<1>5. 2 * s >= -e
  BY <1>3, <1>4
<1>6. CASE 2 * s <= d
  <2>2. WithinHalf(d, e, i + 1, j + 1)
    BY <1>2, <1>3, <1>4, <1>6 DEF WithinHalf
  <2>3. s - e + d = (j + 2) * d - (i + 2) * e
    BY <1>2, <1>4
  <2>4. (j + 1) + 1 = j + 2
    OBVIOUS
  <2> QED
    BY <1>5, <1>6, <2>2, <2>3, <2>4
<1>7. CASE ~(2 * s <= d)
  <2>2. WithinHalf(d, e, i + 1, j)
    BY <1>1, <1>2, <1>3, <1>4, <1>7 DEF WithinHalf
  <2>3. s - e + 0 = (j + 1) * d - (i + 2) * e
    BY <1>2, <1>4
  <2> QED
    BY <1>5, <1>7, <2>2, <2>3
<1> QED
  BY <1>6, <1>7

(* The shorter extent is not overrun, and is complete when the longer is.  *)
LEMMA HalfBounds ==
  ASSUME NEW d \in Nat, NEW e \in Nat, d > 0, NEW i \in 0..d, NEW j \in Nat, WithinHalf(d, e, i, j)
  PROVE  j <= e /\ (i = d => j = e)
<1>1. PICK p \in Int, q \in Int : p = (j - e) * d /\ q = (d - i) * e
  OBVIOUS
<1>2. q >= 0
  BY <1>1
<1>3. j * d - i * e = p + q
  <2>1. p = j * d - e * d /\ q = d * e - i * e /\ e * d = d * e
    BY <1>1
  <2> QED
    BY <2>1
<1>4. 2 * (p + q) <= d /\ -d <= 2 * (p + q)
  BY <1>1, <1>3 DEF WithinHalf
<1>5. j <= e
  <2>1. SUFFICES ASSUME j >= e + 1 PROVE FALSE
    OBVIOUS
  <2>2. p = d + (j - e - 1) * d
    BY <1>1
  <2>3. (j - e - 1) * d >= 0
    BY <2>1
  <2>4. PICK r \in Int : r = (j - e - 1) * d
    OBVIOUS
  <2> QED
    BY <1>2, <1>4, <2>2, <2>3, <2>4
<1>6. ASSUME i = d PROVE j = e
  <2>1. q = 0
    BY <1>1, <1>6
  <2>2. p < d /\ p > -d
    BY <1>4, <2>1
  <2>3. j - e = 0
    BY <1>1, <2>2, OnlyMultiple
  <2> QED
    BY <2>3
<1> QED
  BY <1>5, <1>6

LineStates == [x : Int, y : Int, e : Int]
LineNext(s, x0, y0, x1, y1) ==
    IF s.x = x1 /\ s.y = y1 THEN s
    ELSE LineStep(s, AbsInt(x1 - x0), -AbsInt(y1 - y0), IF x0 > x1 THEN -1 ELSE 1, IF y0 > y1 THEN -1 ELSE 1)
LineBegin(x0, y0, x1, y1) == [x |-> x0, y |-> y0, e |-> AbsInt(x1 - x0) + (-AbsInt(y1 - y0))]
PointsOf(f, N) == {<<f[k].x, f[k].y>> : k \in 0..N}
LineRule(f, k, x0, y0, x1, y1) ==
    IF k = 0 THEN LineBegin(x0, y0, x1, y1) ELSE LineNext(f[k - 1], x0, y0, x1, y1)
LineLoop(f, N, x0, y0, x1, y1) ==
    f \in [0..N -> LineStates] /\ f[0] = LineBegin(x0, y0, x1, y1)
    /\ \A k \in 1..N : f[k] = LineNext(f[k - 1], x0, y0, x1, y1)

(* The walk that LinePoints takes is a function on its steps.              *)
LEMMA LineLoopIs ==
  ASSUME NEW x0 \in Int, NEW y0 \in Int, NEW x1 \in Int, NEW y1 \in Int
  PROVE  \E f : /\ LineLoop(f, AbsInt(x1 - x0) + AbsInt(y1 - y0), x0, y0, x1, y1)
                /\ LinePoints(x0, y0, x1, y1) = PointsOf(f, AbsInt(x1 - x0) + AbsInt(y1 - y0))
<1> DEFINE N == AbsInt(x1 - x0) - (-AbsInt(y1 - y0))
           G == [m \in LineStates \X (1..N) |-> LineNext(m[1], x0, y0, x1, y1)]
           a == LineBegin(x0, y0, x1, y1)
<1>1. AbsInt(x1 - x0) \in Nat /\ AbsInt(y1 - y0) \in Nat
  BY DEF AbsInt
<1>2. N \in Nat /\ N = AbsInt(x1 - x0) + AbsInt(y1 - y0)
  BY <1>1
<1>3. a \in LineStates
  BY <1>1 DEF LineBegin, LineStates
<1>4. ASSUME NEW s \in LineStates PROVE LineNext(s, x0, y0, x1, y1) \in LineStates
  BY <1>1 DEF LineNext, LineStep, LineStates
<1>5. G \in [LineStates \X (1..N) -> LineStates]
  BY <1>4
<1> HIDE DEF N, G, a
<1>6. PICK f : IsLoop(f, LineStates, a, N, G)
  BY <1>2, <1>3, <1>5, Recursion
<1>7. LineLoop(f, N, x0, y0, x1, y1)
  <2>1. f \in [0..N -> LineStates] /\ f[0] = a /\ \A k \in 1..N : f[k] = G[<<f[k - 1], k>>]
    BY <1>6 DEF IsLoop
  <2>2. ASSUME NEW k \in 1..N PROVE G[<<f[k - 1], k>>] = LineNext(f[k - 1], x0, y0, x1, y1)
    <3>1. f[k - 1] \in LineStates
      BY <1>2, <2>1
    <3> QED
      BY <3>1 DEF G
  <2> QED
    BY <2>1, <2>2 DEF LineLoop, a
<1> DEFINE walk == CHOOSE g : g = [k \in 0..N |-> LineRule(g, k, x0, y0, x1, y1)]
<1>8. f = [k \in 0..N |-> LineRule(f, k, x0, y0, x1, y1)]
  <2>1. ASSUME NEW k \in 0..N PROVE f[k] = LineRule(f, k, x0, y0, x1, y1)
    BY <1>2, <1>7 DEF LineLoop, LineRule
  <2> QED
    BY <1>7, <2>1 DEF LineLoop
<1>9. walk = [k \in 0..N |-> LineRule(walk, k, x0, y0, x1, y1)]
  BY <1>8
<1>10. LinePoints(x0, y0, x1, y1) = PointsOf(walk, N)
  BY DEF LinePoints, PointsOf, N, LineRule, LineNext, LineBegin
<1> HIDE DEF walk
<1>11. walk = f
  <2> DEFINE T == {k \in 0..N : walk[k] = f[k]}
  <2>1. 0 \in T
    BY <1>2, <1>8, <1>9 DEF LineRule
  <2>2. \A k \in 1..N : k - 1 \in T => k \in T
    BY <1>2, <1>8, <1>9 DEF LineRule
  <2>3. \A k \in 0..N : k \in T
    <3> HIDE DEF T
    <3> QED
      BY <1>2, <2>1, <2>2, Induction
  <2> QED
    BY <1>8, <1>9, <2>3
<1> QED
  BY <1>2, <1>7, <1>10, <1>11

(* From u to v in d steps of sg; i steps from u.                           *)
IsRun(u, v, sg, d) == sg = (IF u > v THEN -1 ELSE 1) /\ d = AbsInt(v - u)
Along(u, sg, i) == u + sg * i

(* A run ends where it should, and goes one way.                           *)
LEMMA RunIs ==
  ASSUME NEW u \in Int, NEW v \in Int, NEW sg, NEW d, IsRun(u, v, sg, d)
  PROVE  sg \in {-1, 1} /\ d \in Nat /\ v = u + sg * d /\ Along(u, sg, d) = v /\ Along(u, sg, 0) = u
<1>1. d = AbsInt(v - u)
  BY DEF IsRun
<1>2. CASE u > v
  <2>1. sg = -1 /\ d = u - v
    BY <1>1, <1>2 DEF IsRun, AbsInt
  <2> QED
    BY <2>1, <1>2 DEF Along
<1>3. CASE ~(u > v)
  <2>1. sg = 1 /\ d = v - u
    BY <1>1, <1>3 DEF IsRun, AbsInt
  <2> QED
    BY <2>1, <1>3 DEF Along
<1> QED
  BY <1>2, <1>3

IsWalk(J, d, e) ==
    J \in [0..d -> 0..e] /\ J[0] = 0 /\ J[d] = e /\ \A i \in 0..d : WithinHalf(d, e, i, J[i])
AcrossPoints(x0, y0, sx, sy, J, d) == {<<Along(x0, sx, i), Along(y0, sy, J[i])>> : i \in 0..d}
DownPoints(x0, y0, sx, sy, J, d) == {<<Along(x0, sx, J[i]), Along(y0, sy, i)>> : i \in 0..d}

(* A walk along a line whose longer extent is across, and down: each step  *)
(* takes one cell along it, and stays within half a cell of the segment.   *)
LEMMA WalkAcross ==
  ASSUME NEW x0 \in Int, NEW y0 \in Int, NEW x1 \in Int, NEW y1 \in Int, NEW sx, NEW sy, NEW d, NEW e,
         IsRun(x0, x1, sx, d), IsRun(y0, y1, sy, e), e <= d
  PROVE  \E J : IsWalk(J, d, e) /\ LinePoints(x0, y0, x1, y1) = AcrossPoints(x0, y0, sx, sy, J, d)
<1> DEFINE N == d + e
<1>1. d \in Nat /\ e \in Nat /\ e <= d /\ N \in Nat /\ sx \in {-1, 1} /\ sy \in {-1, 1} /\ x1 = x0 + sx * d /\ y1 = y0 + sy * e
  BY RunIs
<1>2. PICK f : LineLoop(f, N, x0, y0, x1, y1) /\ LinePoints(x0, y0, x1, y1) = PointsOf(f, N)
  <2>1. \E f : /\ LineLoop(f, AbsInt(x1 - x0) + AbsInt(y1 - y0), x0, y0, x1, y1)
               /\ LinePoints(x0, y0, x1, y1) = PointsOf(f, AbsInt(x1 - x0) + AbsInt(y1 - y0))
    BY SMTT(40), LineLoopIs
  <2>2. N = AbsInt(x1 - x0) + AbsInt(y1 - y0)
    BY DEF IsRun
  <2> QED
    BY <2>1, <2>2
<1>3. ASSUME NEW s \in LineStates
      PROVE  LineNext(s, x0, y0, x1, y1) = IF s.x = x1 /\ s.y = y1 THEN s ELSE LineStep(s, d, -e, sx, sy)
  BY DEF LineNext, IsRun
<1>4. LineBegin(x0, y0, x1, y1) = [x |-> x0, y |-> y0, e |-> d - e]
  BY <1>1 DEF LineBegin, IsRun
<1> HIDE DEF N
<1> DEFINE On(s, i, j) == s.x = x0 + sx * i /\ s.y = y0 + sy * j /\ s.e = (j + 1) * d - (i + 1) * e /\ WithinHalf(d, e, i, j)
           T == {k \in 0..N : \E j \in 0..e : On(f[k], IF k <= d THEN k ELSE d, j)}
<1>5. f \in [0..N -> LineStates] /\ f[0] = [x |-> x0, y |-> y0, e |-> d - e]
      /\ \A k \in 1..N : f[k] = LineNext(f[k - 1], x0, y0, x1, y1)
  BY <1>2, <1>4 DEF LineLoop
<1>6. 0 \in T
  <2>1. WithinHalf(d, e, 0, 0)
    BY <1>1 DEF WithinHalf
  <2>2. On(f[0], 0, 0)
    BY <1>1, <1>5, <2>1
  <2> QED
    BY <1>1, <2>2
<1>7. ASSUME NEW s \in LineStates, NEW i \in 0..d, NEW j \in 0..e, On(s, i, j)
      PROVE  \E k \in 0..e : On(LineNext(s, x0, y0, x1, y1), IF i + 1 <= d THEN i + 1 ELSE d, k)
  <2>1. CASE i = d
    <3>1. j = e
      <4>1. CASE d = 0
        BY <1>1, <4>1
      <4>2. CASE d > 0
        BY <1>1, <1>7, <2>1, <4>2, HalfBounds
      <4> QED
        BY <1>1, <4>1, <4>2
    <3>2. LineNext(s, x0, y0, x1, y1) = s
      BY <1>1, <1>3, <1>7, <2>1, <3>1
    <3> QED
      BY <1>1, <1>7, <2>1, <3>2
  <2>2. CASE i < d
    <3>1. PICK err \in Int : err = s.e
      BY DEF LineStates
    <3> DEFINE down == 2 * err <= d
    <3>2. err = (j + 1) * d - (i + 1) * e /\ WithinHalf(d, e, i, j) /\ i \in Nat /\ j \in Nat
      BY <1>1, <1>7, <3>1
    <3> DEFINE k == IF down THEN j + 1 ELSE j
    <3>3. /\ 2 * err >= -e /\ WithinHalf(d, e, i + 1, k)
          /\ err - e + (IF down THEN d ELSE 0) = (k + 1) * d - (i + 2) * e
      BY <1>1, <3>1, <3>2, ErrorStep
    <3>4. k \in Nat /\ i + 1 \in 0..d /\ d > 0
      BY <1>1, <2>2
    <3>5. k \in 0..e
      BY <1>1, <3>3, <3>4, HalfBounds
    <3>6. s.x # x1
      <4>1. sx * i # sx * d
        BY <1>1, <2>2
      <4> QED
        BY <1>1, <1>7, <4>1
    <3>7. LineNext(s, x0, y0, x1, y1) = LineStep(s, d, -e, sx, sy)
      BY <1>3, <3>6
    <3>8. LineStep(s, d, -e, sx, sy) = [x |-> s.x + sx, y |-> IF down THEN s.y + sy ELSE s.y, e |-> err + (-e) + (IF down THEN d ELSE 0)]
      BY <3>1, <3>2, <3>3 DEF LineStep
    <3>9. s.x + sx = x0 + sx * (i + 1)
      <4>1. sx * (i + 1) = sx * i + sx
        BY <1>1
      <4> QED
        BY <1>1, <1>7, <4>1
    <3>10. (IF down THEN s.y + sy ELSE s.y) = y0 + sy * k
      <4>1. sy * (j + 1) = sy * j + sy
        BY <1>1
      <4> QED
        BY <1>1, <1>7, <4>1
    <3>11. err + (-e) + (IF down THEN d ELSE 0) = (k + 1) * d - ((i + 1) + 1) * e
      <4>1. (i + 1) + 1 = i + 2
        OBVIOUS
      <4>2. err + (-e) = err - e
        BY <1>1, <3>1
      <4> QED
        BY <3>3, <4>1, <4>2
    <3>12. PICK m : m = LineNext(s, x0, y0, x1, y1)
      OBVIOUS
    <3>13. m.x = x0 + sx * (i + 1) /\ m.y = y0 + sy * k /\ m.e = (k + 1) * d - ((i + 1) + 1) * e
      BY <3>7, <3>8, <3>9, <3>10, <3>11, <3>12
    <3>14. On(m, i + 1, k)
      BY <3>3, <3>13
    <3>15. (IF i + 1 <= d THEN i + 1 ELSE d) = i + 1
      BY <1>1, <2>2
    <3> HIDE DEF On, k
    <3> QED
      BY <3>5, <3>12, <3>14, <3>15
  <2> QED
    BY <1>1, <2>1, <2>2
<1> HIDE DEF On
<1>8. ASSUME NEW k \in 1..N, k - 1 \in T PROVE k \in T
  <2>1. PICK j \in 0..e : On(f[k - 1], IF k - 1 <= d THEN k - 1 ELSE d, j)
    BY <1>8
  <2>2. PICK i \in 0..d : i = IF k - 1 <= d THEN k - 1 ELSE d
    BY <1>1
  <2>3. f[k - 1] \in LineStates /\ f[k] = LineNext(f[k - 1], x0, y0, x1, y1)
    BY SMTT(40), <1>1, <1>5
  <2>4. \E m \in 0..e : On(f[k], IF i + 1 <= d THEN i + 1 ELSE d, m)
    BY <1>7, <2>1, <2>2, <2>3
  <2>5. (IF i + 1 <= d THEN i + 1 ELSE d) = (IF k <= d THEN k ELSE d)
    BY <1>1, <2>2
  <2> QED
    BY <2>4, <2>5
<1>9. \A k \in 0..N : k \in T
  <2> HIDE DEF T
  <2> QED
    BY <1>1, <1>6, <1>8, Induction
<1>10. \A k \in 0..N : \E j \in 0..e : On(f[k], IF k <= d THEN k ELSE d, j)
  BY <1>9
<1> DEFINE J == [i \in 0..d |-> CHOOSE j \in 0..e : On(f[i], i, j)]
<1>11. ASSUME NEW i \in 0..d PROVE J[i] \in 0..e /\ On(f[i], i, J[i])
  <2>1. i \in 0..N /\ i <= d
    BY <1>1 DEF N
  <2>2. \E j \in 0..e : On(f[i], i, j)
    BY <1>10, <2>1
  <2> QED
    BY <2>2
<1>12. J \in [0..d -> 0..e]
  <2>1. \A i \in 0..d : J[i] \in 0..e
    BY <1>11
  <2> HIDE DEF J
  <2>2. J = [i \in 0..d |-> J[i]]
    BY DEF J
  <2> QED
    BY <2>1, <2>2
<1> HIDE DEF J
<1>13. \A i \in 0..d : WithinHalf(d, e, i, J[i]) /\ f[i].x = x0 + sx * i /\ f[i].y = y0 + sy * J[i]
  BY <1>11 DEF On
<1>14. J[d] = e
  <2>1. d \in 0..d
    BY <1>1
  <2>2. WithinHalf(d, e, d, J[d]) /\ J[d] \in 0..e
    BY <1>11, <1>13, <2>1
  <2>3. CASE d = 0
    BY <1>1, <2>2, <2>3
  <2>4. CASE d > 0
    BY <1>1, <2>1, <2>2, <2>4, HalfBounds
  <2> QED
    BY <1>1, <2>3, <2>4
<1>15. J[0] = 0
  <2>1. 0 \in 0..d /\ f[0].y = y0
    BY <1>1, <1>5
  <2>2. y0 = y0 + sy * J[0] /\ J[0] \in Nat
    BY <1>1, <1>11, <1>13, <2>1
  <2> QED
    BY <1>1, <2>2
<1>16. ASSUME NEW k \in 0..N, k > d PROVE f[k].x = x0 + sx * d /\ f[k].y = y0 + sy * J[d]
  <2>1. PICK j \in 0..e : On(f[k], d, j)
    BY <1>1, <1>10, <1>16
  <2>2. f[k].x = x0 + sx * d /\ f[k].y = y0 + sy * j /\ WithinHalf(d, e, d, j)
    BY <2>1 DEF On
  <2>3. j = e
    <3>1. d \in 0..d
      BY <1>1
    <3>2. CASE d = 0
      BY <1>1, <3>2
    <3>3. CASE d > 0
      BY <1>1, <2>2, <3>1, <3>3, HalfBounds
    <3> QED
      BY <1>1, <3>2, <3>3
  <2> QED
    BY <1>14, <2>2, <2>3
<1>17. LinePoints(x0, y0, x1, y1) = {<<x0 + sx * i, y0 + sy * J[i]>> : i \in 0..d}
  <2>1. ASSUME NEW k \in 0..N PROVE \E i \in 0..d : f[k].x = x0 + sx * i /\ f[k].y = y0 + sy * J[i]
    <3>1. CASE k <= d
      BY <1>1, <1>13, <3>1
    <3>2. CASE k > d
      BY <1>1, <1>16, <3>2
    <3> QED
      BY <1>1, <3>1, <3>2
  <2>2. ASSUME NEW i \in 0..d PROVE i \in 0..N /\ f[i].x = x0 + sx * i /\ f[i].y = y0 + sy * J[i]
    BY <1>1, <1>13 DEF N
  <2>3. \A k \in 0..N : <<f[k].x, f[k].y>> \in {<<x0 + sx * i, y0 + sy * J[i]>> : i \in 0..d}
    BY <2>1
  <2>4. \A i \in 0..d : <<x0 + sx * i, y0 + sy * J[i]>> \in {<<f[k].x, f[k].y>> : k \in 0..N}
    BY <2>2
  <2> QED
    BY <1>2, <2>3, <2>4 DEF PointsOf
<1> QED
  BY <1>12, <1>13, <1>14, <1>15, <1>17 DEF IsWalk, AcrossPoints, Along

(* Lines do not tell across from down.                                     *)
Turned(s) == [x |-> s.y, y |-> s.x, e |-> -s.e]

(* A line turned over its diagonal is walked in the same steps.            *)
LEMMA LineTurned ==
  ASSUME NEW x0 \in Int, NEW y0 \in Int, NEW x1 \in Int, NEW y1 \in Int
  PROVE  LinePoints(x0, y0, x1, y1) = {<<p[2], p[1]>> : p \in LinePoints(y0, x0, y1, x1)}
<1> DEFINE A == AbsInt(x1 - x0)
           B == AbsInt(y1 - y0)
           N == A + B
<1>1. A \in Nat /\ B \in Nat /\ N \in Nat /\ N = B + A
  BY DEF AbsInt
<1>2. \E f : /\ LineLoop(f, AbsInt(x1 - x0) + AbsInt(y1 - y0), x0, y0, x1, y1)
             /\ LinePoints(x0, y0, x1, y1) = PointsOf(f, AbsInt(x1 - x0) + AbsInt(y1 - y0))
  BY ZenonT(60), LineLoopIs
<1>20. \E f : /\ LineLoop(f, AbsInt(y1 - y0) + AbsInt(x1 - x0), y0, x0, y1, x1)
              /\ LinePoints(y0, x0, y1, x1) = PointsOf(f, AbsInt(y1 - y0) + AbsInt(x1 - x0))
  BY ZenonT(60), LineLoopIs
<1>3. AbsInt(x1 - x0) + AbsInt(y1 - y0) = N /\ AbsInt(y1 - y0) + AbsInt(x1 - x0) = N
  BY <1>1
<1>4. PICK f : LineLoop(f, N, x0, y0, x1, y1) /\ LinePoints(x0, y0, x1, y1) = PointsOf(f, N)
  BY <1>2, <1>3
<1>5. PICK g : LineLoop(g, N, y0, x0, y1, x1) /\ LinePoints(y0, x0, y1, x1) = PointsOf(g, N)
  BY <1>20, <1>3
<1>6. ASSUME NEW s \in LineStates PROVE LineNext(Turned(s), x0, y0, x1, y1) = Turned(LineNext(s, y0, x0, y1, x1))
  <2>1. PICK x \in Int, y \in Int, e \in Int : s = [x |-> x, y |-> y, e |-> e]
    BY DEF LineStates
  <2>2. CASE x = y1 /\ y = x1
    BY <2>1, <2>2 DEF LineNext, Turned
  <2>3. CASE ~(x = y1 /\ y = x1)
    <3> DEFINE sx == IF x0 > x1 THEN -1 ELSE 1
               sy == IF y0 > y1 THEN -1 ELSE 1
    <3>1. LineNext(Turned(s), x0, y0, x1, y1) = LineStep([x |-> y, y |-> x, e |-> -e], A, -B, sx, sy)
      BY <2>1, <2>3 DEF LineNext, Turned
    <3>2. LineNext(s, y0, x0, y1, x1) = LineStep([x |-> x, y |-> y, e |-> e], B, -A, sy, sx)
      BY <2>1, <2>3 DEF LineNext
    <3>3. (2 * (-e) >= -B <=> 2 * e <= B) /\ (2 * (-e) <= A <=> 2 * e >= -A)
      BY <1>1, <2>1
    <3> HIDE DEF A, B, sx, sy
    <3>4. LineStep([x |-> y, y |-> x, e |-> -e], A, -B, sx, sy) =
              [x |-> IF 2 * e <= B THEN y + sx ELSE y, y |-> IF 2 * e >= -A THEN x + sy ELSE x,
               e |-> -e + (IF 2 * e <= B THEN -B ELSE 0) + (IF 2 * e >= -A THEN A ELSE 0)]
      BY <3>3 DEF LineStep
    <3>5. LineStep([x |-> x, y |-> y, e |-> e], B, -A, sy, sx) =
              [x |-> IF 2 * e >= -A THEN x + sy ELSE x, y |-> IF 2 * e <= B THEN y + sx ELSE y,
               e |-> e + (IF 2 * e >= -A THEN -A ELSE 0) + (IF 2 * e <= B THEN B ELSE 0)]
      BY DEF LineStep
    <3>6. -(e + (IF 2 * e >= -A THEN -A ELSE 0) + (IF 2 * e <= B THEN B ELSE 0)) = -e + (IF 2 * e <= B THEN -B ELSE 0) + (IF 2 * e >= -A THEN A ELSE 0)
      BY <1>1, <2>1
    <3> QED
      BY <3>1, <3>2, <3>4, <3>5, <3>6 DEF Turned
  <2> QED
    BY <2>2, <2>3
<1> HIDE DEF A, B, N
<1>7. \A k \in 0..N : f[k] = Turned(g[k])
  <2> DEFINE T == {k \in 0..N : f[k] = Turned(g[k])}
  <2>1. 0 \in T
    <3>1. LineBegin(x0, y0, x1, y1) = Turned(LineBegin(y0, x0, y1, x1))
      <4>1. A + (-B) = -(B + (-A))
        BY <1>1
      <4> QED
        BY <4>1 DEF LineBegin, Turned, A, B
    <3> QED
      BY <1>1, <1>4, <1>5, <3>1 DEF LineLoop
  <2>2. ASSUME NEW k \in 1..N, k - 1 \in T PROVE k \in T
    <3>1. g[k - 1] \in LineStates
      BY <1>1, <1>5 DEF LineLoop
    <3>2. f[k] = LineNext(f[k - 1], x0, y0, x1, y1) /\ g[k] = LineNext(g[k - 1], y0, x0, y1, x1)
      BY <1>4, <1>5 DEF LineLoop
    <3> QED
      BY <1>1, <1>6, <2>2, <3>1, <3>2
  <2>3. \A k \in 0..N : k \in T
    <3> HIDE DEF T
    <3> QED
      BY <1>1, <2>1, <2>2, Induction
  <2> QED
    BY <2>3
<1>8. \A k \in 0..N : f[k].x = g[k].y /\ f[k].y = g[k].x
  <2> SUFFICES ASSUME NEW k \in 0..N PROVE f[k].x = g[k].y /\ f[k].y = g[k].x
    OBVIOUS
  <2>1. f[k] = Turned(g[k])
    BY <1>7
  <2>2. Turned(g[k]).x = g[k].y /\ Turned(g[k]).y = g[k].x
    BY DEF Turned
  <2> QED
    BY <2>1, <2>2
<1>9. PointsOf(f, N) = {<<p[2], p[1]>> : p \in PointsOf(g, N)}
  <2>1. \A k \in 0..N : <<f[k].x, f[k].y>> \in {<<p[2], p[1]>> : p \in PointsOf(g, N)}
    <3> SUFFICES ASSUME NEW k \in 0..N PROVE \E p \in PointsOf(g, N) : <<f[k].x, f[k].y>> = <<p[2], p[1]>>
      OBVIOUS
    <3>1. PICK p : p = <<g[k].x, g[k].y>>
      OBVIOUS
    <3>2. p \in PointsOf(g, N) /\ p[1] = g[k].x /\ p[2] = g[k].y
      BY <3>1 DEF PointsOf
    <3> QED
      BY <1>8, <3>2
  <2>2. \A p \in PointsOf(g, N) : <<p[2], p[1]>> \in PointsOf(f, N)
    BY <1>8 DEF PointsOf
  <2> QED
    BY SMTT(40), <2>1, <2>2 DEF PointsOf
<1> QED
  BY <1>4, <1>5, <1>9

(* The same where the longer extent is down.                               *)
LEMMA WalkDown ==
  ASSUME NEW x0 \in Int, NEW y0 \in Int, NEW x1 \in Int, NEW y1 \in Int, NEW sx, NEW sy, NEW d, NEW e,
         IsRun(y0, y1, sy, d), IsRun(x0, x1, sx, e), e <= d
  PROVE  \E J : IsWalk(J, d, e) /\ LinePoints(x0, y0, x1, y1) = DownPoints(x0, y0, sx, sy, J, d)
<1>1. PICK J : IsWalk(J, d, e) /\ LinePoints(y0, x0, y1, x1) = AcrossPoints(y0, x0, sy, sx, J, d)
  BY WalkAcross
<1>2. LinePoints(x0, y0, x1, y1) = {<<p[2], p[1]>> : p \in LinePoints(y0, x0, y1, x1)}
  BY LineTurned
<1> DEFINE Across == AcrossPoints(y0, x0, sy, sx, J, d)
           Down == DownPoints(x0, y0, sx, sy, J, d)
<1>3. \A p \in Across : <<p[2], p[1]>> \in Down
  BY DEF AcrossPoints, DownPoints
<1>4. ASSUME NEW q \in Down PROVE \E p \in Across : q = <<p[2], p[1]>>
  <2>1. PICK i \in 0..d : q = <<Along(x0, sx, J[i]), Along(y0, sy, i)>>
    BY DEF DownPoints
  <2>2. PICK p : p = <<Along(y0, sy, i), Along(x0, sx, J[i])>>
    OBVIOUS
  <2>3. p \in Across
    BY <2>2 DEF AcrossPoints
  <2> QED
    BY <2>1, <2>2, <2>3
<1> HIDE DEF Across, Down
<1>5. {<<p[2], p[1]>> : p \in Across} = Down
  BY <1>3, <1>4
<1> QED
  BY <1>1, <1>2, <1>5 DEF Across, Down

Extent(u, v) == Min({u, v})..Max({u, v})

StretchesOver(u, sg, d, v) ==
    /\ \A i \in 0..d : Along(u, sg, i) \in Extent(u, v) /\ Along(u, sg, i) \in Int
    /\ \A w \in Extent(u, v) : \E i \in 0..d : w = Along(u, sg, i)
    /\ \A i \in 0..d : \A j \in 0..d : Along(u, sg, i) = Along(u, sg, j) => i = j
    /\ \A i \in 0..d : u \in Nat /\ v \in Nat => Along(u, sg, i) \in Nat

(* A run covers every coordinate between its ends once.                    *)
LEMMA Stretch ==
  ASSUME NEW u \in Int, NEW v \in Int, NEW sg, NEW d, IsRun(u, v, sg, d)
  PROVE  StretchesOver(u, sg, d, v)
<1>0. sg \in {-1, 1} /\ d \in Nat /\ v = u + sg * d
  BY RunIs
<1>1. CASE sg = 1
  <2>1. v = u + d /\ v >= u
    BY <1>0, <1>1
  <2>2. Max({v, u}) = v /\ Min({v, u}) = u /\ {u, v} = {v, u}
    BY <2>1, MaxOfTwo
  <2>3. \A i \in 0..d : Along(u, sg, i) = u + i
    BY <1>0, <1>1 DEF Along
  <2>4. Extent(u, v) = u..v
    BY <2>2 DEF Extent
  <2>5. ASSUME NEW w \in u..v PROVE \E i \in 0..d : w = Along(u, sg, i)
    <3>1. w - u \in 0..d /\ w = u + (w - u)
      BY <1>0, <2>1
    <3> QED
      BY <2>3, <3>1
  <2>6. \A i \in 0..d : u + i \in u..v /\ u + i \in Int /\ (u \in Nat => u + i \in Nat)
    BY <1>0, <2>1
  <2>7. \A i \in 0..d : \A j \in 0..d : u + i = u + j => i = j
    BY <1>0
  <2>8. \A i \in 0..d : Along(u, sg, i) \in Extent(u, v) /\ Along(u, sg, i) \in Int
    BY <2>3, <2>4, <2>6
  <2>9. \A i \in 0..d : \A j \in 0..d : Along(u, sg, i) = Along(u, sg, j) => i = j
    BY <2>3, <2>7
  <2>10. \A i \in 0..d : u \in Nat /\ v \in Nat => Along(u, sg, i) \in Nat
    BY <2>3, <2>6
  <2> QED
    BY <2>4, <2>5, <2>8, <2>9, <2>10 DEF StretchesOver
<1>2. CASE sg = -1
  <2>1. v = u - d /\ u >= v
    BY <1>0, <1>2
  <2>2. Max({u, v}) = u /\ Min({u, v}) = v
    BY <2>1, MaxOfTwo
  <2>3. \A i \in 0..d : Along(u, sg, i) = u - i
    BY <1>0, <1>2 DEF Along
  <2>4. Extent(u, v) = v..u
    BY <2>2 DEF Extent
  <2>5. ASSUME NEW w \in v..u PROVE \E i \in 0..d : w = Along(u, sg, i)
    <3>1. u - w \in 0..d /\ w = u - (u - w)
      BY <1>0, <2>1
    <3> QED
      BY <2>3, <3>1
  <2>6. \A i \in 0..d : u - i \in v..u /\ u - i \in Int /\ (v \in Nat => u - i \in Nat)
    BY <1>0, <2>1
  <2>7. \A i \in 0..d : \A j \in 0..d : u - i = u - j => i = j
    BY <1>0
  <2>8. \A i \in 0..d : Along(u, sg, i) \in Extent(u, v) /\ Along(u, sg, i) \in Int
    BY <2>3, <2>4, <2>6
  <2>9. \A i \in 0..d : \A j \in 0..d : Along(u, sg, i) = Along(u, sg, j) => i = j
    BY <2>3, <2>7
  <2>10. \A i \in 0..d : u \in Nat /\ v \in Nat => Along(u, sg, i) \in Nat
    BY <2>3, <2>6
  <2> QED
    BY <2>4, <2>5, <2>8, <2>9, <2>10 DEF StretchesOver
<1> QED
  BY <1>0, <1>1, <1>2

(* How far a point of the walk is off the segment, by its steps.           *)
LEMMA OffTheSegment ==
  ASSUME NEW sx \in {-1, 1}, NEW sy \in {-1, 1}, NEW d \in Nat, NEW e \in Nat, NEW i \in Nat, NEW j \in Nat,
         WithinHalf(d, e, i, j)
  PROVE  /\ 2 * AbsInt((sx * i) * (sy * e) - (sy * j) * (sx * d)) <= d
         /\ 2 * AbsInt((sx * j) * (sy * d) - (sy * i) * (sx * e)) <= d
<1>1. PICK p \in Int, q \in Int : p = j * d /\ q = i * e
  OBVIOUS
<1>2. 2 * (p - q) <= d /\ -d <= 2 * (p - q)
  BY <1>1 DEF WithinHalf
<1>3. PICK s \in {-1, 1} : s = sx * sy
  OBVIOUS
<1>4. (sx * i) * (sy * e) = s * q /\ (sy * j) * (sx * d) = s * p /\ (sx * j) * (sy * d) = s * p /\ (sy * i) * (sx * e) = s * q
  BY <1>1, <1>3
<1>5. 2 * AbsInt(s * q - s * p) <= d /\ 2 * AbsInt(s * p - s * q) <= d
  BY <1>2 DEF AbsInt
<1> QED
  BY <1>4, <1>5

(* What IsLine asks for, but for the order of the extents.                 *)
Columns(ps) == {p[1] : p \in ps}
Levels(ps) == {p[2] : p \in ps}
Close(ps, x0, y0, x1, y1, d) ==
    \A p \in ps : 2 * AbsInt((p[1] - x0) * (y1 - y0) - (p[2] - y0) * (x1 - x0)) <= d
Joins(ps, x0, y0, x1, y1, d) ==
    /\ <<x0, y0>> \in ps /\ <<x1, y1>> \in ps
    /\ IsFiniteSet(ps) /\ Cardinality(ps) = d + 1
    /\ Close(ps, x0, y0, x1, y1, d)
    /\ {x0, y0, x1, y1} \subseteq Nat => ps \subseteq Nat \X Nat

(* A line that is wider than high joins its ends.                          *)
LEMMA AcrossLine ==
  ASSUME NEW x0 \in Int, NEW y0 \in Int, NEW x1 \in Int, NEW y1 \in Int,
         NEW sx, NEW sy, NEW d, NEW e,
         IsRun(x0, x1, sx, d), IsRun(y0, y1, sy, e), NEW J, IsWalk(J, d, e)
  PROVE  LET ps == AcrossPoints(x0, y0, sx, sy, J, d)
         IN  Joins(ps, x0, y0, x1, y1, d) /\ Columns(ps) = Extent(x0, x1)
<1> DEFINE f == [i \in 0..d |-> <<Along(x0, sx, i), Along(y0, sy, J[i])>>]
           ps == AcrossPoints(x0, y0, sx, sy, J, d)
<1>00. /\ d \in Nat /\ e \in Nat /\ sx \in {-1, 1} /\ sy \in {-1, 1} /\ x1 = x0 + sx * d /\ y1 = y0 + sy * e
      /\ Along(x0, sx, 0) = x0 /\ Along(x0, sx, d) = x1 /\ Along(y0, sy, 0) = y0 /\ Along(y0, sy, e) = y1
  BY RunIs
<1>0. J \in [0..d -> 0..e] /\ J[0] = 0 /\ J[d] = e /\ \A i \in 0..d : WithinHalf(d, e, i, J[i])
  BY DEF IsWalk
<1>1. ps = {f[i] : i \in 0..d}
  BY DEF AcrossPoints
<1>2. \A i \in 0..d : f[i] = <<Along(x0, sx, i), Along(y0, sy, J[i])>> /\ f[i][1] = Along(x0, sx, i) /\ f[i][2] = Along(y0, sy, J[i])
  OBVIOUS
<1> HIDE DEF f, ps
<1>3. 0 \in 0..d /\ d \in 0..d
  BY <1>00
<1>40. StretchesOver(x0, sx, d, x1) /\ StretchesOver(y0, sy, e, y1)
  BY Stretch
<1>4. /\ \A i \in 0..d : Along(x0, sx, i) \in Extent(x0, x1) /\ Along(x0, sx, i) \in Int
      /\ \A w \in Extent(x0, x1) : \E i \in 0..d : w = Along(x0, sx, i)
      /\ \A i \in 0..d : \A j \in 0..d : Along(x0, sx, i) = Along(x0, sx, j) => i = j
      /\ \A i \in 0..d : x0 \in Nat /\ x1 \in Nat => Along(x0, sx, i) \in Nat
  BY <1>40 DEF StretchesOver
<1>5. \A i \in 0..e : y0 \in Nat /\ y1 \in Nat => Along(y0, sy, i) \in Nat
  BY <1>40 DEF StretchesOver
<1>6. <<x0, y0>> \in ps /\ <<x1, y1>> \in ps
  <2>1. f[0] = <<x0, y0>> /\ f[d] = <<x1, y1>>
    BY SMTT(40), <1>0, <1>00, <1>2, <1>3
  <2> QED
    BY <1>1, <1>3, <2>1
<1>7. IsFiniteSet(ps) /\ Cardinality(ps) = d + 1
  <2>1. IsFiniteSet(0..d) /\ Cardinality(0..d) = d + 1
    BY <1>00, FS_Interval
  <2>2. \A i, j \in 0..d : f[i] = f[j] => i = j
    <3> SUFFICES ASSUME NEW i \in 0..d, NEW j \in 0..d, f[i] = f[j] PROVE i = j
      OBVIOUS
    <3>1. Along(x0, sx, i) = Along(x0, sx, j)
      BY <1>2
    <3> QED
      BY <1>4, <3>1
  <2> QED
    BY ZenonT(60), <1>1, <2>1, <2>2, InjectiveImage
<1>8. Columns(ps) = Extent(x0, x1)
  <2>1. \A p \in ps : p[1] \in Extent(x0, x1)
    BY <1>1, <1>2, <1>4
  <2>2. ASSUME NEW w \in Extent(x0, x1) PROVE \E p \in ps : w = p[1]
    <3>1. PICK i \in 0..d : w = Along(x0, sx, i)
      BY <1>4
    <3> QED
      BY <1>1, <1>2, <3>1
  <2> QED
    BY <2>1, <2>2 DEF Columns
<1>9. ASSUME NEW p \in ps PROVE 2 * AbsInt((p[1] - x0) * (y1 - y0) - (p[2] - y0) * (x1 - x0)) <= d
  <2>1. PICK i \in 0..d : p[1] = Along(x0, sx, i) /\ p[2] = Along(y0, sy, J[i])
    BY <1>1, <1>2
  <2>2. PICK j \in Nat : j = J[i]
    BY SMTT(40), <1>0, <1>00
  <2>3. PICK s \in Int, t \in Int : s = sx * i /\ t = sy * j
    BY <1>00
  <2>4. p[1] - x0 = s /\ p[2] - y0 = t
    BY <2>1, <2>2, <2>3 DEF Along
  <2>5. PICK m \in Int, n \in Int : m = sx * d /\ n = sy * e
    BY <1>00
  <2>6. x1 - x0 = m /\ y1 - y0 = n
    BY <1>00, <2>5
  <2>7. WithinHalf(d, e, i, j) /\ i \in Nat
    BY <1>0, <1>00, <2>2
  <2>8. 2 * AbsInt(s * n - t * m) <= d
    BY ZenonT(60), <1>00, <2>3, <2>5, <2>7, OffTheSegment
  <2> QED
    BY <2>4, <2>6, <2>8
<1>10. ASSUME {x0, y0, x1, y1} \subseteq Nat PROVE ps \subseteq Nat \X Nat
  <2>1. ASSUME NEW i \in 0..d PROVE Along(x0, sx, i) \in Nat /\ Along(y0, sy, J[i]) \in Nat
    <3>1. {x0, y0, x1, y1} \subseteq Nat
      BY <1>10
    <3>2. J[i] \in 0..e
      BY <1>0
    <3> QED
      BY <1>4, <1>5, <3>1, <3>2
  <2>2. ASSUME NEW i \in 0..d PROVE f[i] \in Nat \X Nat
    BY <1>2, <2>1
  <2> QED
    BY <1>1, <2>2
<1> QED
  BY <1>6, <1>7, <1>8, <1>9, <1>10 DEF ps, Joins, Close

(* A line that is higher than wide joins its ends.                         *)
LEMMA DownLine ==
  ASSUME NEW x0 \in Int, NEW y0 \in Int, NEW x1 \in Int, NEW y1 \in Int,
         NEW sx, NEW sy, NEW d, NEW e,
         IsRun(y0, y1, sy, d), IsRun(x0, x1, sx, e), NEW J, IsWalk(J, d, e)
  PROVE  LET ps == DownPoints(x0, y0, sx, sy, J, d)
         IN  Joins(ps, x0, y0, x1, y1, d) /\ Levels(ps) = Extent(y0, y1)
<1> DEFINE f == [i \in 0..d |-> <<Along(x0, sx, J[i]), Along(y0, sy, i)>>]
           ps == DownPoints(x0, y0, sx, sy, J, d)
<1>00. /\ d \in Nat /\ e \in Nat /\ sx \in {-1, 1} /\ sy \in {-1, 1} /\ y1 = y0 + sy * d /\ x1 = x0 + sx * e
      /\ Along(y0, sy, 0) = y0 /\ Along(y0, sy, d) = y1 /\ Along(x0, sx, 0) = x0 /\ Along(x0, sx, e) = x1
  BY RunIs
<1>0. J \in [0..d -> 0..e] /\ J[0] = 0 /\ J[d] = e /\ \A i \in 0..d : WithinHalf(d, e, i, J[i])
  BY DEF IsWalk
<1>1. ps = {f[i] : i \in 0..d}
  BY DEF DownPoints
<1>2. \A i \in 0..d : f[i] = <<Along(x0, sx, J[i]), Along(y0, sy, i)>> /\ f[i][2] = Along(y0, sy, i) /\ f[i][1] = Along(x0, sx, J[i])
  OBVIOUS
<1> HIDE DEF f, ps
<1>3. 0 \in 0..d /\ d \in 0..d
  BY <1>00
<1>40. StretchesOver(y0, sy, d, y1) /\ StretchesOver(x0, sx, e, x1)
  BY Stretch
<1>4. /\ \A i \in 0..d : Along(y0, sy, i) \in Extent(y0, y1) /\ Along(y0, sy, i) \in Int
      /\ \A w \in Extent(y0, y1) : \E i \in 0..d : w = Along(y0, sy, i)
      /\ \A i \in 0..d : \A j \in 0..d : Along(y0, sy, i) = Along(y0, sy, j) => i = j
      /\ \A i \in 0..d : y0 \in Nat /\ y1 \in Nat => Along(y0, sy, i) \in Nat
  BY <1>40 DEF StretchesOver
<1>5. \A i \in 0..e : x0 \in Nat /\ x1 \in Nat => Along(x0, sx, i) \in Nat
  BY <1>40 DEF StretchesOver
<1>6. <<x0, y0>> \in ps /\ <<x1, y1>> \in ps
  <2>1. f[0] = <<x0, y0>> /\ f[d] = <<x1, y1>>
    BY SMTT(40), <1>0, <1>00, <1>2, <1>3
  <2> QED
    BY <1>1, <1>3, <2>1
<1>7. IsFiniteSet(ps) /\ Cardinality(ps) = d + 1
  <2>1. IsFiniteSet(0..d) /\ Cardinality(0..d) = d + 1
    BY <1>00, FS_Interval
  <2>2. \A i, j \in 0..d : f[i] = f[j] => i = j
    <3> SUFFICES ASSUME NEW i \in 0..d, NEW j \in 0..d, f[i] = f[j] PROVE i = j
      OBVIOUS
    <3>1. Along(y0, sy, i) = Along(y0, sy, j)
      BY <1>2
    <3> QED
      BY <1>4, <3>1
  <2> QED
    BY ZenonT(60), <1>1, <2>1, <2>2, InjectiveImage
<1>8. Levels(ps) = Extent(y0, y1)
  <2>1. \A p \in ps : p[2] \in Extent(y0, y1)
    BY <1>1, <1>2, <1>4
  <2>2. ASSUME NEW w \in Extent(y0, y1) PROVE \E p \in ps : w = p[2]
    <3>1. PICK i \in 0..d : w = Along(y0, sy, i)
      BY <1>4
    <3> QED
      BY <1>1, <1>2, <3>1
  <2> QED
    BY <2>1, <2>2 DEF Levels
<1>9. ASSUME NEW p \in ps PROVE 2 * AbsInt((p[1] - x0) * (y1 - y0) - (p[2] - y0) * (x1 - x0)) <= d
  <2>1. PICK i \in 0..d : p[2] = Along(y0, sy, i) /\ p[1] = Along(x0, sx, J[i])
    BY <1>1, <1>2
  <2>2. PICK j \in Nat : j = J[i]
    BY SMTT(40), <1>0, <1>00
  <2>3. PICK s \in Int, t \in Int : s = sy * i /\ t = sx * j
    BY <1>00
  <2>4. p[2] - y0 = s /\ p[1] - x0 = t
    BY <2>1, <2>2, <2>3 DEF Along
  <2>5. PICK m \in Int, n \in Int : m = sy * d /\ n = sx * e
    BY <1>00
  <2>6. y1 - y0 = m /\ x1 - x0 = n
    BY <1>00, <2>5
  <2>7. WithinHalf(d, e, i, j) /\ i \in Nat
    BY <1>0, <1>00, <2>2
  <2>8. 2 * AbsInt(t * m - s * n) <= d
    BY <1>00, <2>3, <2>5, <2>7, OffTheSegment
  <2> QED
    BY <2>4, <2>6, <2>8
<1>10. ASSUME {x0, y0, x1, y1} \subseteq Nat PROVE ps \subseteq Nat \X Nat
  <2>1. ASSUME NEW i \in 0..d PROVE Along(y0, sy, i) \in Nat /\ Along(x0, sx, J[i]) \in Nat
    <3>1. {x0, y0, x1, y1} \subseteq Nat
      BY <1>10
    <3>2. J[i] \in 0..e
      BY <1>0
    <3> QED
      BY <1>4, <1>5, <3>1, <3>2
  <2>2. ASSUME NEW i \in 0..d PROVE f[i] \in Nat \X Nat
    BY <1>2, <2>1
  <2> QED
    BY <1>1, <2>2
<1> QED
  BY <1>6, <1>7, <1>8, <1>9, <1>10 DEF ps, Joins, Close

GoesAlong(ps, x0, y0, x1, y1) ==
    IF AbsInt(x1 - x0) >= AbsInt(y1 - y0) THEN Columns(ps) = Extent(x0, x1) ELSE Levels(ps) = Extent(y0, y1)

(* A line joins its ends along its longer extent.                          *)
LEMMA LineIs ==
  ASSUME NEW x0 \in Int, NEW y0 \in Int, NEW x1 \in Int, NEW y1 \in Int
  PROVE  /\ Joins(LinePoints(x0, y0, x1, y1), x0, y0, x1, y1, Max({AbsInt(x1 - x0), AbsInt(y1 - y0)}))
         /\ GoesAlong(LinePoints(x0, y0, x1, y1), x0, y0, x1, y1)
<1>1. PICK ps : ps = LinePoints(x0, y0, x1, y1)
  OBVIOUS
<1>2. PICK A, B : A = AbsInt(x1 - x0) /\ B = AbsInt(y1 - y0)
  OBVIOUS
<1>3. PICK sx, sy : IsRun(x0, x1, sx, A) /\ IsRun(y0, y1, sy, B)
  BY <1>2 DEF IsRun
<1>4. A \in Nat /\ B \in Nat
  BY <1>3, RunIs
<1>5. Max({A, B}) = IF A >= B THEN A ELSE B
  BY <1>4, MaxOfTwo
<1>6. CASE A >= B
  <2>1. B <= A
    BY <1>4, <1>6
  <2>2. PICK J : IsWalk(J, A, B) /\ LinePoints(x0, y0, x1, y1) = AcrossPoints(x0, y0, sx, sy, J, A)
    BY <1>3, <2>1, WalkAcross
  <2>3. Joins(ps, x0, y0, x1, y1, A) /\ Columns(ps) = Extent(x0, x1)
    BY <1>1, <1>3, <2>2, AcrossLine
  <2> QED
    BY <1>1, <1>2, <1>5, <1>6, <2>3 DEF GoesAlong
<1>7. CASE ~(A >= B)
  <2>1. A <= B
    BY <1>4, <1>7
  <2>2. PICK J : IsWalk(J, B, A) /\ LinePoints(x0, y0, x1, y1) = DownPoints(x0, y0, sx, sy, J, B)
    BY <1>3, <2>1, WalkDown
  <2>3. Joins(ps, x0, y0, x1, y1, B) /\ Levels(ps) = Extent(y0, y1)
    BY <1>1, <1>3, <2>2, DownLine
  <2> QED
    BY <1>1, <1>2, <1>5, <1>7, <2>3 DEF GoesAlong
<1> QED
  BY <1>6, <1>7

(* The points between any two ends are a line: one in each column or row   *)
(* of the longer extent, none more than half a cell off (linePoints in     *)
(* shapes.go).                                                             *)
THEOREM LineIsExact ==
  ASSUME NEW a, a[1] \in Int, a[2] \in Int, a[3] \in Int, a[4] \in Int
  PROVE  IsLine(LinePoints(a[1], a[2], a[3], a[4]), a)
<1>1. PICK x0 \in Int, y0 \in Int, x1 \in Int, y1 \in Int : x0 = a[1] /\ y0 = a[2] /\ x1 = a[3] /\ y1 = a[4]
  OBVIOUS
<1>2. PICK ps : ps = LinePoints(x0, y0, x1, y1)
  OBVIOUS
<1>3. PICK A, B : A = AbsInt(x1 - x0) /\ B = AbsInt(y1 - y0)
  OBVIOUS
<1>4. Joins(ps, x0, y0, x1, y1, Max({A, B}))
  <2>1. Joins(LinePoints(x0, y0, x1, y1), x0, y0, x1, y1, Max({AbsInt(x1 - x0), AbsInt(y1 - y0)}))
    BY LineIs
  <2> QED
    BY <1>2, <1>3, <2>1
<1>7. (A >= B => Columns(ps) = Extent(x0, x1)) /\ (~(A >= B) => Levels(ps) = Extent(y0, y1))
  <2>1. GoesAlong(LinePoints(x0, y0, x1, y1), x0, y0, x1, y1)
    BY LineIs
  <2> QED
    BY <1>2, <1>3, <2>1 DEF GoesAlong
<1>5. /\ <<x0, y0>> \in ps /\ <<x1, y1>> \in ps /\ Cardinality(ps) = Max({A, B}) + 1
      /\ Close(ps, x0, y0, x1, y1, Max({A, B}))
  BY <1>4 DEF Joins
<1>6. IsLine(ps, a)
  <2>1. CASE A >= B
    <3>1. {p[1] : p \in ps} = Min({x0, x1})..Max({x0, x1})
      BY <1>7, <2>1 DEF Columns, Extent
    <3>2. 1 + 2 = 3
      OBVIOUS
    <3>3. \A p \in ps : 2 * AbsInt((p[1] - a[1]) * (a[4] - a[2]) - (p[2] - a[2]) * (a[3] - a[1])) <= Max({A, B})
      BY <1>1, <1>5 DEF Close
    <3> QED
      BY ZenonT(60), <1>1, <1>3, <1>5, <2>1, <3>1, <3>2, <3>3 DEF IsLine
  <2>2. CASE ~(A >= B)
    <3>1. {p[2] : p \in ps} = Min({y0, y1})..Max({y0, y1})
      BY <1>7, <2>2 DEF Levels, Extent
    <3>2. 2 + 2 = 4
      OBVIOUS
    <3> QED
      BY <1>1, <1>3, <1>5, <2>2, <3>1, <3>2 DEF IsLine, Close
  <2> QED
    BY <2>1, <2>2
<1> QED
  BY <1>1, <1>2, <1>6

(***************************************************************************)
(* Circles.                                                                *)
(***************************************************************************)
CircleStates == [x : Int, y : Int, err : Int]
CircleBegin(r) == [x |-> r, y |-> 0, err |-> 1 - r]
CircleRule(f, k, r) == IF k = 0 THEN CircleBegin(r) ELSE CircleStep(f[k - 1])
CircleLoop(f, r) ==
    f \in [0..r -> CircleStates] /\ f[0] = CircleBegin(r) /\ \A k \in 1..r : f[k] = CircleStep(f[k - 1])
CircleOf(f, cx, cy, r) ==
    LET octant == {f[k] : k \in {k \in 0..r : f[k].x >= f[k].y}}
        around == UNION {{<<s.x, s.y>>, <<s.y, s.x>>} : s \in octant}
    IN  Scanline({<<cx + i * p[1], cy + j * p[2]>> : p \in around, i \in {-1, 1}, j \in {-1, 1}})

(* The walk that CirclePoints takes is a function on its steps.            *)
LEMMA CircleLoopIs ==
  ASSUME NEW cx \in Int, NEW cy \in Int, NEW r \in Nat
  PROVE  \E f : CircleLoop(f, r) /\ CirclePoints(cx, cy, r) = CircleOf(f, cx, cy, r)
<1> DEFINE G == [m \in CircleStates \X (1..r) |-> CircleStep(m[1])]
           a == CircleBegin(r)
<1>1. a \in CircleStates
  BY DEF CircleBegin, CircleStates
<1>2. ASSUME NEW s \in CircleStates PROVE CircleStep(s) \in CircleStates
  BY DEF CircleStep, CircleStates
<1>3. G \in [CircleStates \X (1..r) -> CircleStates]
  BY <1>2
<1> HIDE DEF G, a
<1>4. PICK f : IsLoop(f, CircleStates, a, r, G)
  BY <1>1, <1>3, Recursion
<1>5. CircleLoop(f, r)
  <2>1. f \in [0..r -> CircleStates] /\ f[0] = a /\ \A k \in 1..r : f[k] = G[<<f[k - 1], k>>]
    BY <1>4 DEF IsLoop
  <2>2. ASSUME NEW k \in 1..r PROVE G[<<f[k - 1], k>>] = CircleStep(f[k - 1])
    <3>1. f[k - 1] \in CircleStates
      BY <2>1
    <3> QED
      BY <3>1 DEF G
  <2> QED
    BY <2>1, <2>2 DEF CircleLoop, a
<1> DEFINE walk == CHOOSE g : g = [k \in 0..r |-> CircleRule(g, k, r)]
<1>6. f = [k \in 0..r |-> CircleRule(f, k, r)]
  <2>1. ASSUME NEW k \in 0..r PROVE f[k] = CircleRule(f, k, r)
    BY <1>5 DEF CircleLoop, CircleRule
  <2> QED
    BY <1>5, <2>1 DEF CircleLoop
<1>7. walk = [k \in 0..r |-> CircleRule(walk, k, r)]
  BY <1>6
<1>8. CirclePoints(cx, cy, r) = CircleOf(walk, cx, cy, r)
  BY DEF CirclePoints, CircleOf, CircleRule, CircleBegin
<1> HIDE DEF walk
<1>9. walk = f
  <2> DEFINE T == {k \in 0..r : walk[k] = f[k]}
  <2>1. 0 \in T
    BY <1>6, <1>7 DEF CircleRule
  <2>2. \A k \in 1..r : k - 1 \in T => k \in T
    BY <1>6, <1>7 DEF CircleRule
  <2>3. \A k \in 0..r : k \in T
    <3> HIDE DEF T
    <3> QED
      BY <2>1, <2>2, Induction
  <2> QED
    BY <1>6, <1>7, <2>3
<1> QED
  BY <1>5, <1>8, <1>9

(* The points nearest to the circle of radius r about the origin.          *)
OnArc(r, x, y) == x * x - x < r * r - y * y /\ r * r - y * y <= x * x + x

(* The k-th state of the walk, and the step from it.                       *)
IsArcState(s, r, k) ==
    /\ s.y = k /\ s.x \in -1..r
    /\ s.err = (k + 1) * (k + 1) + s.x * s.x - s.x - r * r
    /\ s.x >= k => OnArc(r, s.x, k)

(* The midpoint step: the next row's point is the one on the arc.          *)
LEMMA ArcStep ==
  ASSUME NEW r \in Nat, NEW k \in Nat, NEW s \in CircleStates, IsArcState(s, r, k), s.x >= k
  PROVE  /\ IsArcState(CircleStep(s), r, k + 1)
         /\ CircleStep(s).x = IF s.err < 0 THEN s.x ELSE s.x - 1
<1>1. PICK x \in 0..r, e \in Int : s = [x |-> x, y |-> k, err |-> e]
  BY DEF CircleStates, IsArcState
<1>2. PICK xx \in Int, kk \in Int, rr \in Int : xx = x * x /\ kk = k * k /\ rr = r * r
  OBVIOUS
<1>3. (k + 1) * (k + 1) = kk + 2 * k + 1 /\ (k + 2) * (k + 2) = kk + 4 * k + 4 /\ (x - 1) * (x - 1) = xx - 2 * x + 1
  BY <1>1, <1>2
<1>4. e = kk + 2 * k + 1 + xx - x - rr /\ xx - x < rr - kk /\ rr - kk <= xx + x /\ x >= k
  BY <1>1, <1>2, <1>3 DEF IsArcState, OnArc
<1>5. CASE e < 0
  <2>1. CircleStep(s) = [x |-> x, y |-> k + 1, err |-> e + 2 * (k + 1) + 1]
    BY <1>1, <1>5 DEF CircleStep
  <2>2. e + 2 * (k + 1) + 1 = (k + 2) * (k + 2) + x * x - x - r * r
    BY <1>1, <1>2, <1>3, <1>4
  <2>3. OnArc(r, x, k + 1)
    BY <1>1, <1>2, <1>3, <1>4, <1>5 DEF OnArc
  <2>4. (k + 1) + 1 = k + 2
    OBVIOUS
  <2> QED
    BY SMTT(40), <1>1, <1>5, <2>1, <2>2, <2>3, <2>4 DEF IsArcState
<1>6. CASE ~(e < 0)
  <2>1. CircleStep(s) = [x |-> x - 1, y |-> k + 1, err |-> e + 2 * ((k + 1) - x + 1) + 1]
    BY <1>1, <1>6 DEF CircleStep
  <2>2. e + 2 * ((k + 1) - x + 1) + 1 = (k + 2) * (k + 2) + (x - 1) * (x - 1) - (x - 1) - r * r
    BY <1>1, <1>2, <1>3, <1>4
  <2>3. x - 1 >= k + 1 => OnArc(r, x - 1, k + 1)
    BY <1>1, <1>2, <1>3, <1>4, <1>6 DEF OnArc
  <2>4. (k + 1) + 1 = k + 2
    OBVIOUS
  <2> QED
    BY <1>1, <1>6, <2>1, <2>2, <2>3, <2>4 DEF IsArcState
<1> QED
  BY <1>5, <1>6

(* Every state of the walk is on the arc, in its own row.                  *)
LEMMA ArcWalk ==
  ASSUME NEW r \in Nat, r > 0, NEW f, CircleLoop(f, r)
  PROVE  \A k \in 0..r : f[k] \in CircleStates /\ f[k].y = k /\ (f[k].x >= k => IsArcState(f[k], r, k))
<1> DEFINE T == {k \in 0..r : f[k].y = k /\ (f[k].x >= k => IsArcState(f[k], r, k))}
<1>1. f \in [0..r -> CircleStates] /\ f[0] = CircleBegin(r) /\ \A k \in 1..r : f[k] = CircleStep(f[k - 1])
  BY DEF CircleLoop
<1>2. IsArcState(CircleBegin(r), r, 0)
  <2>1. PICK rr \in Int : rr = r * r
    OBVIOUS
  <2>2. OnArc(r, r, 0)
    BY <2>1 DEF OnArc
  <2>3. 1 - r = (0 + 1) * (0 + 1) + r * r - r - r * r
    BY <2>1
  <2> QED
    BY <2>2, <2>3 DEF IsArcState, CircleBegin
<1>3. 0 \in T
  BY <1>1, <1>2 DEF CircleBegin
<1>4. ASSUME NEW k \in 1..r, k - 1 \in T PROVE k \in T
  <2>1. PICK s \in CircleStates : s = f[k - 1]
    BY <1>1
  <2>2. f[k] = CircleStep(s)
    BY <1>1, <2>1
  <2>3. s.y = k - 1 /\ (s.x >= k - 1 => IsArcState(s, r, k - 1))
    BY <1>4, <2>1
  <2>4. CircleStep(s).y = k /\ CircleStep(s).x <= s.x
    BY <2>3 DEF CircleStep, CircleStates
  <2>5. CASE s.x >= k - 1
    <3>1. k - 1 \in Nat /\ (k - 1) + 1 = k
      OBVIOUS
    <3>2. IsArcState(CircleStep(s), r, k)
      BY <2>3, <2>5, <3>1, ArcStep
    <3> QED
      BY <2>2, <2>4, <3>2
  <2>6. CASE ~(s.x >= k - 1)
    <3>1. CircleStep(s).x \in Int
      BY DEF CircleStep, CircleStates
    <3>2. s.x \in Int
      BY DEF CircleStates
    <3>3. ~(CircleStep(s).x >= k)
      BY <2>4, <2>6, <3>1, <3>2
    <3> QED
      BY <2>2, <2>4, <3>3
  <2> QED
    BY <2>5, <2>6
<1>5. \A k \in 0..r : k \in T
  <2> HIDE DEF T
  <2> QED
    BY <1>3, <1>4, Induction
<1> QED
  BY <1>1, <1>5

(* A row has one point on the arc.                                         *)
LEMMA OneOnArc ==
  ASSUME NEW r \in Nat, NEW x \in Nat, NEW z \in Nat, NEW y \in Int, OnArc(r, x, y), OnArc(r, z, y)
  PROVE  x = z
<1>1. ASSUME NEW u \in Nat, NEW v \in Nat, OnArc(r, u, y), OnArc(r, v, y), u < v PROVE FALSE
  <2>1. PICK uu \in Int, vv \in Int, w \in Int : uu = u * u /\ vv = v * v /\ w = v - u
    OBVIOUS
  <2>2. v = u + w /\ w >= 1
    BY <1>1, <2>1
  <2>3. PICK uw \in Int, ww \in Int : uw = u * w /\ ww = w * w
    BY <2>1
  <2>4. vv = uu + 2 * uw + ww
    BY <2>1, <2>2, <2>3
  <2>5. uw >= u /\ ww >= w
    <3>1. u * (w - 1) >= 0 /\ w * (w - 1) >= 0
      BY <2>1, <2>2
    <3>2. u * (w - 1) = uw - u /\ w * (w - 1) = ww - w
      BY <2>1, <2>3
    <3> QED
      BY <2>1, <2>3, <3>1, <3>2
  <2>6. vv - v < uu + u
    BY <1>1, <2>1 DEF OnArc
  <2> QED
    BY <2>1, <2>2, <2>4, <2>5, <2>6
<1> QED
  BY <1>1

(* Every point of the octant on the arc is walked to.                      *)
LEMMA ArcReached ==
  ASSUME NEW r \in Nat, r > 0, NEW f, CircleLoop(f, r),
         NEW near \in Nat, NEW far \in Nat, near <= far, OnArc(r, far, near)
  PROVE  near <= r /\ f[near].x = far
<1>1. PICK nn \in Int, ff \in Int, rr \in Int : nn = near * near /\ ff = far * far /\ rr = r * r
  OBVIOUS
<1>2. ff - far < rr - nn
  BY <1>1 DEF OnArc
<1>3. ff - far >= nn - near
  <2>1. PICK w \in Nat : far = near + w
    <3>1. far - near \in Nat /\ far = near + (far - near)
      OBVIOUS
    <3> QED
      BY <3>1
  <2>2. PICK nw \in Int, ww \in Int : nw = near * w /\ ww = w * w
    OBVIOUS
  <2>3. ff = nn + 2 * nw + ww /\ nw >= 0
    BY <1>1, <2>1, <2>2
  <2>4. ww >= w
    <3>1. w * (w - 1) >= 0
      OBVIOUS
    <3>2. w * (w - 1) = ww - w
      BY <2>2
    <3> QED
      BY <2>2, <3>1, <3>2
  <2> QED
    BY <1>1, <2>1, <2>2, <2>3, <2>4
<1>4. 2 * nn - near < rr
  BY <1>1, <1>2, <1>3
<1>5. near <= r
  <2> SUFFICES ASSUME near >= r + 1 PROVE FALSE
    OBVIOUS
  <2>1. nn >= near
    <3>1. near * (near - 1) >= 0 /\ near * (near - 1) = nn - near
      BY <1>1
    <3> QED
      BY <1>1, <3>1
  <2>2. nn >= rr
    <3>1. near * near >= near * r
      OBVIOUS
    <3>2. near * r >= r * r
      OBVIOUS
    <3> QED
      BY <1>1, <3>1, <3>2
  <2> QED
    BY <1>1, <1>4, <2>1, <2>2
<1>6. \A k \in 0..r : f[k] \in CircleStates /\ f[k].y = k /\ (f[k].x >= k => IsArcState(f[k], r, k))
  BY ArcWalk
<1>7. f[0] = CircleBegin(r) /\ \A k \in 1..r : f[k] = CircleStep(f[k - 1])
  BY DEF CircleLoop
<1> DEFINE T == {k \in 0..near : f[k].x >= k}
<1>8. 0 \in T
  BY <1>7 DEF CircleBegin
<1>9. ASSUME NEW k \in 1..near, k - 1 \in T PROVE k \in T
  <2>1. k - 1 \in 0..r /\ k \in 1..r /\ (k - 1) + 1 = k
    BY <1>5
  <2>2. PICK s \in CircleStates : s = f[k - 1] /\ s.x >= k - 1 /\ IsArcState(s, r, k - 1)
    BY <1>6, <1>9, <2>1
  <2>3. f[k] = CircleStep(s)
    BY <1>7, <2>1, <2>2
  <2>4. CircleStep(s).x = IF s.err < 0 THEN s.x ELSE s.x - 1
    BY <2>1, <2>2, ArcStep
  <2>5. PICK x \in Int, e \in Int : x = s.x /\ e = s.err
    BY DEF CircleStates
  <2>6. PICK kk \in Int, xx \in Int : kk = k * k /\ xx = x * x
    BY <2>5
  <2>7. (k - 1) * (k - 1) = kk - 2 * k + 1
    BY <2>6
  <2>8. e = kk + xx - x - rr /\ rr - (kk - 2 * k + 1) <= xx + x
    BY <1>1, <2>1, <2>2, <2>5, <2>6, <2>7 DEF IsArcState, OnArc
  <2>9. 2 * kk - k < rr
    <3>1. nn - near >= kk - k /\ nn >= kk
      <4>1. PICK w \in Nat : near = k + w
        <5>1. near - k \in Nat /\ near = k + (near - k)
          OBVIOUS
        <5> QED
          BY <5>1
      <4>2. PICK kw \in Int, ww \in Int : kw = k * w /\ ww = w * w
        OBVIOUS
      <4>3. nn = kk + 2 * kw + ww /\ kw >= 0 /\ ww >= 0
        BY <1>1, <2>6, <4>1, <4>2
      <4>4. ww >= w
        <5>1. w * (w - 1) >= 0 /\ w * (w - 1) = ww - w
          BY <4>2
        <5> QED
          BY <4>2, <5>1
      <4> QED
        BY <1>1, <2>6, <4>1, <4>2, <4>3, <4>4
    <3> QED
      BY <1>1, <1>4, <2>6, <3>1
  <2>10. SUFFICES ASSUME ~(CircleStep(s).x >= k) PROVE FALSE
    BY <2>3
  <2>11. CASE x = k - 1
    <3>1. xx = kk - 2 * k + 1
      BY <2>6, <2>7, <2>11
    <3> QED
      BY <1>1, <2>6, <2>8, <2>9, <2>11, <3>1
  <2>12. CASE x # k - 1
    <3>1. x >= k
      BY <2>2, <2>5, <2>12
    <3>2. e >= 0 /\ x = k
      BY <2>4, <2>5, <2>10, <3>1
    <3>3. xx = kk
      BY <2>6, <3>2
    <3> QED
      BY <1>1, <2>6, <2>8, <2>9, <3>2, <3>3
  <2> QED
    BY <2>11, <2>12
<1>10. near \in T
  <2> HIDE DEF T
  <2> QED
    BY <1>8, <1>9, Induction
<1>11. f[near].x >= near /\ near \in 0..r
  BY <1>5, <1>10
<1>12. OnArc(r, f[near].x, near) /\ f[near].x \in Nat
  BY <1>6, <1>11 DEF IsArcState, CircleStates
<1>13. f[near].x = far
  BY <1>12, OneOnArc
<1> QED
  BY <1>5, <1>13

(* p is d off c, or -d: the way back from a distance to a coordinate.      *)
Off(c, sg, d) == c + sg * d

(* A coordinate off c by d, either way, has distance d.                    *)
LEMMA OffIs ==
  ASSUME NEW c \in Int, NEW d \in Nat, NEW sg \in {-1, 1}
  PROVE  /\ AbsInt(Off(c, sg, d) - c) = d /\ Off(c, sg, d) \in Int /\ Off(c, sg, d) <= c + d /\ Off(c, sg, d) >= c - d
<1>1. AbsInt(Off(c, sg, d) - c) = d /\ Off(c, sg, d) \in Int /\ Off(c, sg, d) <= c + d /\ Off(c, sg, d) >= c - d
  <2>1. CASE sg = 1
    BY <2>1 DEF Off, AbsInt
  <2>2. CASE sg = -1
    BY <2>2 DEF Off, AbsInt
  <2> QED
    BY <2>1, <2>2
<1> QED
  BY <1>1

(* Every coordinate is off c by its distance.                              *)
LEMMA OffOf ==
  ASSUME NEW c \in Int, NEW v \in Int
  PROVE  \E s \in {-1, 1} : v = Off(c, s, AbsInt(v - c))
<1>1. CASE v < c
  <2>1. v = Off(c, -1, AbsInt(v - c))
    BY <1>1 DEF Off, AbsInt
  <2> QED
    BY <2>1
<1>2. CASE ~(v < c)
  <2>1. v = Off(c, 1, AbsInt(v - c))
    BY <1>2 DEF Off, AbsInt
  <2> QED
    BY <2>1
<1> QED
  BY <1>1, <1>2

OnWalk(f, r, u, v) == \E k \in 0..r : f[k].x >= f[k].y /\ (<<u, v>> = <<f[k].x, f[k].y>> \/ <<u, v>> = <<f[k].y, f[k].x>>)

(* The points of a circle, by their distances from its centre.             *)
LEMMA CircleMembers ==
  ASSUME NEW f, NEW cx, NEW cy, NEW r
  PROVE  /\ \A q \in CircleOf(f, cx, cy, r) : \E i \in {-1, 1}, j \in {-1, 1} : \E u, v :
                OnWalk(f, r, u, v) /\ q = <<Off(cx, i, u), Off(cy, j, v)>> /\ Off(cy, j, v) >= 0
         /\ \A i \in {-1, 1}, j \in {-1, 1} : \A u, v :
                OnWalk(f, r, u, v) /\ Off(cy, j, v) >= 0 => <<Off(cx, i, u), Off(cy, j, v)>> \in CircleOf(f, cx, cy, r)
<1> DEFINE octant == {f[k] : k \in {k \in 0..r : f[k].x >= f[k].y}}
           around == UNION {{<<s.x, s.y>>, <<s.y, s.x>>} : s \in octant}
           all == {<<cx + i * p[1], cy + j * p[2]>> : p \in around, i \in {-1, 1}, j \in {-1, 1}}
<1>1. CircleOf(f, cx, cy, r) = {q \in all : q[2] >= 0}
  BY DEF CircleOf, Scanline
<1>2. ASSUME NEW p \in around PROVE OnWalk(f, r, p[1], p[2])
  <2>1. PICK s \in octant : p = <<s.x, s.y>> \/ p = <<s.y, s.x>>
    OBVIOUS
  <2>2. PICK k \in 0..r : f[k].x >= f[k].y /\ s = f[k]
    OBVIOUS
  <2> QED
    BY <2>1, <2>2 DEF OnWalk
<1>3. ASSUME NEW u, NEW v, OnWalk(f, r, u, v) PROVE <<u, v>> \in around
  <2>1. PICK k \in 0..r : f[k].x >= f[k].y /\ (<<u, v>> = <<f[k].x, f[k].y>> \/ <<u, v>> = <<f[k].y, f[k].x>>)
    BY <1>3 DEF OnWalk
  <2>2. f[k] \in octant
    BY <2>1
  <2> QED
    BY <2>1, <2>2
<1> HIDE DEF around
<1>4. ASSUME NEW q \in all PROVE \E i \in {-1, 1}, j \in {-1, 1} : \E u, v : OnWalk(f, r, u, v) /\ q = <<Off(cx, i, u), Off(cy, j, v)>>
  <2>1. PICK p \in around, i \in {-1, 1}, j \in {-1, 1} : q = <<cx + i * p[1], cy + j * p[2]>>
    OBVIOUS
  <2> QED
    BY <1>2, <2>1 DEF Off
<1>5. ASSUME NEW i \in {-1, 1}, NEW j \in {-1, 1}, NEW u, NEW v, OnWalk(f, r, u, v) PROVE <<Off(cx, i, u), Off(cy, j, v)>> \in all
  <2>1. PICK p : p = <<u, v>>
    OBVIOUS
  <2>2. p \in around /\ p[1] = u /\ p[2] = v
    BY <1>3, <1>5, <2>1
  <2>3. <<cx + i * p[1], cy + j * p[2]>> \in all
    BY <2>2
  <2> QED
    BY <2>2, <2>3 DEF Off
<1> HIDE DEF all
<1>6. ASSUME NEW q \in CircleOf(f, cx, cy, r)
      PROVE  \E i \in {-1, 1}, j \in {-1, 1} : \E u, v : OnWalk(f, r, u, v) /\ q = <<Off(cx, i, u), Off(cy, j, v)>> /\ Off(cy, j, v) >= 0
  <2>1. q \in all /\ q[2] >= 0
    BY <1>1
  <2>0. PICK i \in {-1, 1}, j \in {-1, 1} : \E u, v : OnWalk(f, r, u, v) /\ q = <<Off(cx, i, u), Off(cy, j, v)>>
    BY <1>4, <2>1
  <2>2. PICK u, v : OnWalk(f, r, u, v) /\ q = <<Off(cx, i, u), Off(cy, j, v)>>
    BY <2>0
  <2>3. q[2] = Off(cy, j, v)
    BY <2>2
  <2> QED
    BY <2>1, <2>2, <2>3
<1>7. ASSUME NEW i \in {-1, 1}, NEW j \in {-1, 1}, NEW u, NEW v, OnWalk(f, r, u, v), Off(cy, j, v) >= 0
      PROVE  <<Off(cx, i, u), Off(cy, j, v)>> \in CircleOf(f, cx, cy, r)
  <2>1. PICK q : q = <<Off(cx, i, u), Off(cy, j, v)>>
    OBVIOUS
  <2>2. q \in all
    BY <1>5, <1>7, <2>1
  <2>3. q[2] >= 0
    BY <1>7, <2>1
  <2> QED
    BY <1>1, <2>1, <2>2, <2>3
<1> QED
  BY <1>6, <1>7

NearArc(r, u, v) == OnArc(r, Max({u, v}), Min({u, v}))

(* The distances that are walked are those on the arc.                     *)
LEMMA WalkIsArc ==
  ASSUME NEW r \in Nat, r > 0, NEW f, CircleLoop(f, r)
  PROVE  /\ \A u, v : OnWalk(f, r, u, v) => u \in 0..r /\ v \in 0..r /\ NearArc(r, u, v)
         /\ \A u, v \in Nat : NearArc(r, u, v) => OnWalk(f, r, u, v)
<1>1. \A k \in 0..r : f[k] \in CircleStates /\ f[k].y = k /\ (f[k].x >= k => IsArcState(f[k], r, k))
  BY ArcWalk
<1>2. ASSUME NEW u, NEW v, OnWalk(f, r, u, v) PROVE u \in 0..r /\ v \in 0..r /\ NearArc(r, u, v)
  <2>1. PICK k \in 0..r : f[k].x >= f[k].y /\ (<<u, v>> = <<f[k].x, f[k].y>> \/ <<u, v>> = <<f[k].y, f[k].x>>)
    BY <1>2 DEF OnWalk
  <2>2. PICK x \in Int : x = f[k].x
    BY <1>1 DEF CircleStates
  <2>3. x >= k /\ f[k].y = k /\ IsArcState(f[k], r, k)
    BY <1>1, <2>1, <2>2
  <2>4. x \in 0..r /\ OnArc(r, x, k)
    BY <2>2, <2>3 DEF IsArcState
  <2>5. Max({x, k}) = x /\ Min({x, k}) = k
    BY <2>3, MaxOfTwo
  <2>6. {k, x} = {x, k}
    OBVIOUS
  <2>7. (u = x /\ v = k) \/ (u = k /\ v = x)
    BY <2>1, <2>2, <2>3
  <2>8. {u, v} = {x, k}
    BY <2>6, <2>7
  <2> QED
    BY <2>4, <2>5, <2>7, <2>8 DEF NearArc
<1>3. ASSUME NEW u \in Nat, NEW v \in Nat, NearArc(r, u, v) PROVE OnWalk(f, r, u, v)
  <2>1. CASE u >= v
    <3>1. Max({u, v}) = u /\ Min({u, v}) = v
      BY <2>1, MaxOfTwo
    <3>2. OnArc(r, u, v)
      BY <1>3, <3>1 DEF NearArc
    <3>3. v <= r /\ f[v].x = u
      BY <2>1, <3>2, ArcReached
    <3>4. v \in 0..r /\ f[v].y = v
      BY <1>1, <3>3
    <3> QED
      BY <2>1, <3>3, <3>4 DEF OnWalk
  <2>2. CASE ~(u >= v)
    <3>1. Max({u, v}) = v /\ Min({u, v}) = u
      BY <2>2, MaxOfTwo
    <3>2. OnArc(r, v, u) /\ u <= v
      BY <1>3, <2>2, <3>1 DEF NearArc
    <3>3. u <= r /\ f[u].x = v
      BY <3>2, ArcReached
    <3>4. u \in 0..r /\ f[u].y = u /\ v >= u
      BY <1>1, <3>2, <3>3
    <3> QED
      BY <3>3, <3>4 DEF OnWalk
  <2> QED
    BY <2>1, <2>2
<1> QED
  BY <1>2, <1>3

(* The points of any circle are those nearest to it, on the blueprint      *)
(* (circlePoints in shapes.go).                                            *)
THEOREM CircleIsExact ==
  ASSUME NEW a, a[1] \in Nat, a[2] \in Nat, a[3] \in Nat, a[3] > 0
  PROVE  LET ps == CirclePoints(a[1], a[2], a[3]) IN
         /\ IsFiniteSet(ps) /\ ps \subseteq Int \X Nat
         /\ IsCircle({p \in ps : p[1] >= 0 /\ p[2] >= 0}, a)
<1>1. PICK cx \in Nat, cy \in Nat, r \in Nat : cx = a[1] /\ cy = a[2] /\ r = a[3] /\ r > 0
  OBVIOUS
<1>2. PICK f : CircleLoop(f, r) /\ CirclePoints(cx, cy, r) = CircleOf(f, cx, cy, r)
  BY SMTT(40), CircleLoopIs
<1>3. PICK ps : ps = CircleOf(f, cx, cy, r)
  OBVIOUS
<1>4. /\ \A q \in ps : \E i \in {-1, 1}, j \in {-1, 1} : \E u, v :
            OnWalk(f, r, u, v) /\ q = <<Off(cx, i, u), Off(cy, j, v)>> /\ Off(cy, j, v) >= 0
      /\ \A i \in {-1, 1}, j \in {-1, 1} : \A u, v :
            OnWalk(f, r, u, v) /\ Off(cy, j, v) >= 0 => <<Off(cx, i, u), Off(cy, j, v)>> \in ps
  BY <1>3, CircleMembers
<1>5. /\ \A u, v : OnWalk(f, r, u, v) => u \in 0..r /\ v \in 0..r /\ NearArc(r, u, v)
      /\ \A u, v \in Nat : NearArc(r, u, v) => OnWalk(f, r, u, v)
  BY <1>1, <1>2, WalkIsArc
<1>6. ASSUME NEW q \in ps
      PROVE  /\ q = <<q[1], q[2]>> /\ q[1] \in (cx - r)..(cx + r) /\ q[2] \in 0..(cy + r)
             /\ NearArc(r, AbsInt(q[1] - cx), AbsInt(q[2] - cy))
  <2>0. PICK i \in {-1, 1}, j \in {-1, 1} : \E u, v : OnWalk(f, r, u, v) /\ q = <<Off(cx, i, u), Off(cy, j, v)>> /\ Off(cy, j, v) >= 0
    BY <1>4
  <2>1. PICK u, v : OnWalk(f, r, u, v) /\ q = <<Off(cx, i, u), Off(cy, j, v)>> /\ Off(cy, j, v) >= 0
    BY <2>0
  <2>2. u \in 0..r /\ v \in 0..r /\ NearArc(r, u, v)
    BY <1>5, <2>1
  <2>20. u \in Nat /\ v \in Nat /\ cx \in Int /\ cy \in Int
    BY <2>2
  <2>3. AbsInt(Off(cx, i, u) - cx) = u /\ Off(cx, i, u) \in Int /\ Off(cx, i, u) <= cx + u /\ Off(cx, i, u) >= cx - u
    BY ZenonT(60), <2>20, OffIs
  <2>4. AbsInt(Off(cy, j, v) - cy) = v /\ Off(cy, j, v) \in Int /\ Off(cy, j, v) <= cy + v
    BY <2>20, OffIs
  <2>5. q[1] = Off(cx, i, u) /\ q[2] = Off(cy, j, v)
    BY <2>1
  <2> QED
    BY <2>1, <2>2, <2>3, <2>4, <2>5
<1>7. ps \subseteq ((cx - r)..(cx + r)) \X (0..(cy + r))
  BY <1>6
<1>8. IsFiniteSet(ps)
  <2>0. cx - r \in Int /\ cx + r \in Int /\ cy + r \in Int /\ 0 \in Int
    OBVIOUS
  <2>1. IsFiniteSet((cx - r)..(cx + r)) /\ IsFiniteSet(0..(cy + r))
    BY <2>0, FS_Interval
  <2>2. IsFiniteSet(((cx - r)..(cx + r)) \X (0..(cy + r)))
    BY <2>1, FS_Product
  <2> QED
    BY <1>7, <2>2, FS_Subset
<1>9. ps \subseteq Int \X Nat
  BY <1>7
<1>10. {p \in ps : p[1] >= 0 /\ p[2] >= 0} = {p \in (0..(cx + r)) \X (0..(cy + r)) : NearArc(r, AbsInt(p[1] - cx), AbsInt(p[2] - cy))}
  <2>1. ASSUME NEW p \in ps, p[1] >= 0 PROVE p \in (0..(cx + r)) \X (0..(cy + r)) /\ NearArc(r, AbsInt(p[1] - cx), AbsInt(p[2] - cy))
    <3>1. p = <<p[1], p[2]>> /\ p[1] \in 0..(cx + r) /\ p[2] \in 0..(cy + r)
      BY <1>6, <2>1
    <3> QED
      BY <1>6, <3>1
  <2>2. ASSUME NEW p \in (0..(cx + r)) \X (0..(cy + r)), NearArc(r, AbsInt(p[1] - cx), AbsInt(p[2] - cy)) PROVE p \in ps /\ p[1] >= 0 /\ p[2] >= 0
    <3>1. p = <<p[1], p[2]>> /\ p[1] \in Nat /\ p[2] \in Nat
      OBVIOUS
    <3>2. PICK u \in Nat, v \in Nat : u = AbsInt(p[1] - cx) /\ v = AbsInt(p[2] - cy)
      BY <3>1 DEF AbsInt
    <3>3. OnWalk(f, r, u, v)
      BY <1>5, <2>2, <3>2
    <3>5. PICK i \in {-1, 1} : p[1] = Off(cx, i, u)
      BY <3>1, <3>2, OffOf
    <3>6. PICK j \in {-1, 1} : p[2] = Off(cy, j, v)
      BY <3>1, <3>2, OffOf
    <3>7. Off(cy, j, v) >= 0
      BY <3>1, <3>6
    <3>8. <<Off(cx, i, u), Off(cy, j, v)>> \in ps
      BY <1>4, <3>3, <3>7
    <3>9. p \in ps
      BY <3>1, <3>5, <3>6, <3>8
    <3> QED
      BY <3>1, <3>9
  <2> QED
    BY <2>1, <2>2
<1>11. IsCircle({p \in ps : p[1] >= 0 /\ p[2] >= 0}, a)
  BY <1>1, <1>10 DEF IsCircle, OnCircle, NearArc, OnArc
<1> QED
  BY <1>1, <1>2, <1>3, <1>8, <1>9, <1>11

(***************************************************************************)
(* Boxes and texts.                                                        *)
(***************************************************************************)
(* A box has finitely many points.                                         *)
LEMMA RectIsFinite ==
  ASSUME NEW x \in Int, NEW y \in Int, NEW w \in Int, NEW h \in Int
  PROVE  IsFiniteSet(FillRect(x, y, w, h))
<1>1. x + w - 1 \in Int /\ y + h - 1 \in Int
  OBVIOUS
<1>2. IsFiniteSet(x..x + w - 1) /\ IsFiniteSet(y..y + h - 1)
  BY <1>1, FS_Interval
<1> QED
  BY <1>2, FS_Product DEF FillRect

(* The points of a rectangle are those of its box with a neighbour outside *)
(* (parseShape in shapes.go).                                              *)
THEOREM RectIsExact ==
  ASSUME NEW a, a[1] \in Nat, a[2] \in Nat, a[3] \in Nat, a[4] \in Nat, a[3] > 0, a[4] > 0
  PROVE  /\ IsOutline(Rect(a[1], a[2], a[3], a[4]), a)
         /\ Rect(a[1], a[2], a[3], a[4]) \subseteq FillRect(a[1], a[2], a[3], a[4])
         /\ FillRect(a[1], a[2], a[3], a[4]) \subseteq Nat \X Nat
<1>1. PICK x \in Nat, y \in Nat, w \in Nat, h \in Nat : x = a[1] /\ y = a[2] /\ w = a[3] /\ h = a[4] /\ w > 0 /\ h > 0
  OBVIOUS
<1> DEFINE full == FillRect(x, y, w, h)
           Edge(p) == \E i \in {-1, 1} : <<p[1] + i, p[2]>> \notin full \/ <<p[1], p[2] + i>> \notin full
<1>2. \A u \in Int, v \in Int : <<u, v>> \in full <=> x <= u /\ u < x + w /\ y <= v /\ v < y + h
  BY <1>1 DEF FillRect
<1>3. ASSUME NEW p \in full PROVE p = <<p[1], p[2]>> /\ p[1] \in Nat /\ p[2] \in Nat /\ x <= p[1] /\ p[1] < x + w /\ y <= p[2] /\ p[2] < y + h
  BY <1>1 DEF FillRect
<1> HIDE DEF full
<1>4. ASSUME NEW p \in full PROVE Edge(p) <=> p[1] = x \/ p[1] = x + w - 1 \/ p[2] = y \/ p[2] = y + h - 1
  <2>1. PICK u \in Nat, v \in Nat : u = p[1] /\ v = p[2] /\ x <= u /\ u < x + w /\ y <= v /\ v < y + h
    BY <1>3
  <2>2. /\ <<u + (-1), v>> \in full <=> x <= u - 1
        /\ <<u + 1, v>> \in full <=> u + 1 < x + w
        /\ <<u, v + (-1)>> \in full <=> y <= v - 1
        /\ <<u, v + 1>> \in full <=> v + 1 < y + h
    BY SMTT(40), <1>1, <1>2, <2>1
  <2>3. Edge(p) <=> ~(x <= u - 1) \/ ~(u + 1 < x + w) \/ ~(y <= v - 1) \/ ~(v + 1 < y + h)
    BY <2>1, <2>2
  <2> HIDE DEF Edge
  <2> QED
    BY <1>1, <2>1, <2>3
<1>5. Rect(x, y, w, h) = {p \in full : p[1] = x \/ p[1] = x + w - 1 \/ p[2] = y \/ p[2] = y + h - 1}
  <2>1. ASSUME NEW p \in Rect(x, y, w, h) PROVE p \in full /\ (p[1] = x \/ p[1] = x + w - 1 \/ p[2] = y \/ p[2] = y + h - 1)
    <3>1. CASE p \in (x..x + w - 1) \X {y, y + h - 1}
      BY <1>1, <3>1 DEF full, FillRect
    <3>2. CASE p \in {x, x + w - 1} \X (y + 1..y + h - 2)
      BY <1>1, <3>2 DEF full, FillRect
    <3> QED
      BY <3>1, <3>2 DEF Rect
  <2>2. ASSUME NEW p \in full, p[1] = x \/ p[1] = x + w - 1 \/ p[2] = y \/ p[2] = y + h - 1 PROVE p \in Rect(x, y, w, h)
    <3>1. PICK u \in Nat, v \in Nat : p = <<u, v>> /\ u = p[1] /\ v = p[2] /\ x <= u /\ u < x + w /\ y <= v /\ v < y + h
      BY <1>3
    <3>2. CASE v = y \/ v = y + h - 1
      <4>1. u \in x..x + w - 1 /\ v \in {y, y + h - 1}
        BY <1>1, <3>1, <3>2
      <4> QED
        BY <3>1, <4>1 DEF Rect
    <3>3. CASE ~(v = y \/ v = y + h - 1)
      <4>1. u \in {x, x + w - 1} /\ v \in y + 1..y + h - 2
        BY <1>1, <2>2, <3>1, <3>3
      <4> QED
        BY <3>1, <4>1 DEF Rect
    <3> QED
      BY <3>2, <3>3
  <2> QED
    BY <2>1, <2>2
<1>6. Rect(x, y, w, h) = {p \in full : Edge(p)}
  <2> HIDE DEF Edge
  <2> QED
    BY <1>4, <1>5
<1>7. full \subseteq Nat \X Nat
  BY <1>3
<1> QED
  BY <1>1, <1>5, <1>6, <1>7 DEF IsOutline, full

(* The column, in bytes, at which each character of a text ends.           *)
EndRule(f, k, text) == IF k = 0 THEN 0 ELSE f[k - 1] + Bytes(text[k])
TextLoop(f, text) ==
    f \in [0..Len(text) -> Nat] /\ f[0] = 0 /\ \A k \in 1..Len(text) : f[k] = f[k - 1] + Bytes(text[k])
TextOf(f, x, y, text) ==
    UNION {{<<x + f[k - 1] * glyphAdvance + g[1], y + g[2]>> : g \in fontGlyphs(text[k])} : k \in 1..Len(text)}

(* The columns that RenderText adds up are a function on characters.       *)
LEMMA TextLoopIs ==
  ASSUME NEW x, NEW y, NEW text, Len(text) \in Nat
  PROVE  \E f : TextLoop(f, text) /\ RenderText(x, y, text) = TextOf(f, x, y, text)
<1>0. PICK n \in Nat : n = Len(text)
  OBVIOUS
<1> DEFINE G == [m \in Nat \X (1..n) |-> m[1] + Bytes(text[m[2]])]
<1>1. G \in [Nat \X (1..n) -> Nat]
  BY DEF Bytes
<1>2. ASSUME NEW f, IsLoop(f, Nat, 0, n, G), NEW k \in 1..n PROVE f[k] = f[k - 1] + Bytes(text[k])
  <2>0. k - 1 \in 0..n
    OBVIOUS
  <2>1. f[k - 1] \in Nat /\ f[k] = G[<<f[k - 1], k>>]
    BY <1>2, <2>0 DEF IsLoop
  <2> QED
    BY <2>1
<1> HIDE DEF G
<1>3. PICK f : IsLoop(f, Nat, 0, n, G)
  BY <1>1, Recursion
<1>4. TextLoop(f, text)
  BY <1>0, <1>2, <1>3 DEF TextLoop, IsLoop
<1> DEFINE end == CHOOSE g : g = [k \in 0..Len(text) |-> EndRule(g, k, text)]
<1>5. f = [k \in 0..Len(text) |-> EndRule(f, k, text)]
  <2>1. ASSUME NEW k \in 0..Len(text) PROVE f[k] = EndRule(f, k, text)
    BY <1>4 DEF TextLoop, EndRule
  <2> QED
    BY <1>4, <2>1 DEF TextLoop
<1>6. end = [k \in 0..Len(text) |-> EndRule(end, k, text)]
  BY <1>5
<1>7. RenderText(x, y, text) = TextOf(end, x, y, text)
  BY DEF RenderText, TextOf, EndRule
<1> HIDE DEF end
<1>8. end = f
  <2> DEFINE T == {k \in 0..n : end[k] = f[k]}
  <2>1. 0 \in T
    BY <1>0, <1>5, <1>6 DEF EndRule
  <2>2. \A k \in 1..n : k - 1 \in T => k \in T
    BY <1>0, <1>5, <1>6 DEF EndRule
  <2>3. \A k \in 0..n : k \in T
    <3> HIDE DEF T
    <3> QED
      BY <2>1, <2>2, Induction
  <2> QED
    BY <1>0, <1>5, <1>6, <2>3
<1> QED
  BY <1>4, <1>7, <1>8

(* No character ends before an earlier one.                                *)
LEMMA EndsAscend ==
  ASSUME NEW n \in Nat, NEW f \in [0..n -> Nat], \A k \in 1..n : f[k] >= f[k - 1] + 1,
         NEW k \in 0..n, NEW l \in 0..n, k <= l
  PROVE  f[k] <= f[l]
<1> DEFINE T == {m \in 0..n : k <= m => f[k] <= f[m]}
<1>1. 0 \in T
  <2> SUFFICES k <= 0 => f[k] <= f[0]
    OBVIOUS
  <2>1. k <= 0 => k = 0
    OBVIOUS
  <2>2. f[0] \in Nat
    OBVIOUS
  <2> QED
    BY <2>1, <2>2
<1>2. ASSUME NEW m \in 1..n, m - 1 \in T PROVE m \in T
  <2>1. f[m] \in Nat /\ f[m - 1] \in Nat /\ f[k] \in Nat /\ f[m] >= f[m - 1] + 1
    OBVIOUS
  <2>2. CASE k <= m - 1
    BY SMTT(40), <1>2, <2>1, <2>2
  <2>3. CASE k > m - 1
    <3>1. k <= m => k = m
      BY <2>3
    <3> QED
      BY <2>1, <3>1
  <2> QED
    BY <2>2, <2>3
<1>3. l \in T
  <2> HIDE DEF T
  <2> QED
    BY <1>1, <1>2, Induction
<1> QED
  BY <1>3

(* Three points for each glyph there is.                                   *)
GlyphPoints(text, known) == MapThenSumSet(LAMBDA k : Cardinality(fontGlyphs(text[k])), known)

(* As many points as three for each glyph there is.                        *)
LEMMA GlyphsSum ==
  ASSUME NEW text, NEW known, IsFiniteSet(known), \A k \in known : Cardinality(fontGlyphs(text[k])) = 3
  PROVE  GlyphPoints(text, known) = 3 * Cardinality(known)
<1> DEFINE three == [k \in known |-> 3]
           Rule(g, s) == IF s = {} THEN 0 ELSE Cardinality(fontGlyphs(text[Any(s)])) + g[s \ {Any(s)}]
           iter == CHOOSE g : g = [s \in SUBSET known |-> Rule(g, s)]
<1>0. three \in [known -> Int] /\ \A k \in known : three[k] = 3
  OBVIOUS
<1>1. PICK h : AreSums(h, three, known) /\ FoldFunction(+, 0, three) = h[known]
  <2> HIDE DEF three
  <2> QED
    BY <1>0, FoldIsSum
<1>2. FoldFunction(+, 0, three) = 3 * Cardinality(known)
  <2> HIDE DEF three
  <2>1. PICK c \in Int : c = 3
    OBVIOUS
  <2>2. FoldFunction(+, 0, three) = c * Cardinality(known)
    BY <1>0, <2>1, SumOfEquals
  <2> QED
    BY <2>1, <2>2
<1>3. \A s \in SUBSET known : s # {} => Any(s) \in known
  BY DEF Any
<1>4. \A s \in SUBSET known : h[s] = Rule(h, s)
  BY <1>1, <1>3 DEF AreSums, Summed
<1>5. h = [s \in SUBSET known |-> Rule(h, s)]
  <2> HIDE DEF Rule
  <2> QED
    BY <1>1, <1>4 DEF AreSums
<1>6. iter = [s \in SUBSET known |-> Rule(iter, s)]
  <2> HIDE DEF Rule
  <2> QED
    BY <1>5
<1>7. GlyphPoints(text, known) = iter[known]
  BY DEF GlyphPoints, MapThenSumSet, MapThenFoldSet, Any
<1> HIDE DEF iter, three
<1> DEFINE F == {s \in SUBSET known : iter[s] = h[s]}
<1>8. {} \in F
  BY <1>4, <1>6
<1>9. ASSUME NEW s \in SUBSET known, s # {}, s \ {Any(s)} \in F PROVE s \in F
  <2>1. iter[s] = Rule(iter, s)
    <3> HIDE DEF Rule
    <3> QED
      BY <1>6
  <2>2. h[s] = Rule(h, s)
    BY <1>4
  <2> QED
    BY <1>9, <2>1, <2>2
<1>10. known \in F
  <2> HIDE DEF F
  <2>1. \A s \in SUBSET known : s # {} /\ s \ {Any(s)} \in F => s \in F
    BY <1>9
  <2> QED
    BY <1>8, <2>1, AnyInduction
<1> QED
  BY <1>1, <1>2, <1>7, <1>10

(* A character has a glyph of three points, or none.                       *)
LEMMA Glyphs ==
  /\ IsFiniteSet((1..3) \X {3}) /\ Cardinality((1..3) \X {3}) = 3 /\ (1..3) \X {3} # {}
  /\ \A ch : fontGlyphs(ch) = IF ch = 1 THEN (1..3) \X {3} ELSE {}
<1>1. IsFiniteSet(1..3) /\ Cardinality(1..3) = 3
  <2>1. 1 \in Int /\ 3 \in Int
    OBVIOUS
  <2>2. PICK a \in Int, b \in Int : a = 1 /\ b = 3
    BY <2>1
  <2>3. IsFiniteSet(a..b) /\ Cardinality(a..b) = (IF a > b THEN 0 ELSE b - a + 1)
    BY FS_Interval
  <2> QED
    BY <2>2, <2>3
<1>2. IsFiniteSet({3}) /\ Cardinality({3}) = 1
  BY FS_Singleton
<1>3. IsFiniteSet((1..3) \X {3}) /\ Cardinality((1..3) \X {3}) = Cardinality(1..3) * Cardinality({3})
  BY <1>1, <1>2, FS_Product
<1>4. <<1, 3>> \in (1..3) \X {3}
  OBVIOUS
<1> QED
  BY <1>1, <1>2, <1>3, <1>4 DEF fontGlyphs, Dash

HasGlyph(text) == {k \in 1..Len(text) : fontGlyphs(text[k]) # {}}
GlyphAt(x, y, i) == <<x + i, y + 3>>
Glyph(x, y, ch) == {<<x + g[1], y + g[2]>> : g \in fontGlyphs(ch)}

(* A point of a glyph is a point of the text.                              *)
LEMMA PointOfGlyph ==
  ASSUME NEW f, NEW x \in Nat, NEW y \in Nat, NEW text, Len(text) \in Nat, TextLoop(f, text),
         NEW k \in HasGlyph(text), NEW i \in 1..3
  PROVE  GlyphAt(x + f[k - 1] * glyphAdvance, y, i) \in TextOf(f, x, y, text)
<1>1. fontGlyphs(text[k]) = (1..3) \X {3} /\ k \in 1..Len(text)
  BY Glyphs DEF HasGlyph
<1>2. <<i, 3>> \in fontGlyphs(text[k])
  BY <1>1
<1> QED
  BY SMTT(40), <1>1, <1>2 DEF TextOf, GlyphAt

(* A point of the text is one of some glyph.                               *)
LEMMA GlyphOfPoint ==
  ASSUME NEW f, NEW x \in Nat, NEW y \in Nat, NEW text, Len(text) \in Nat, TextLoop(f, text),
         NEW p \in TextOf(f, x, y, text)
  PROVE  \E k \in HasGlyph(text), i \in 1..3 : p = GlyphAt(x + f[k - 1] * glyphAdvance, y, i)
<1>1. PICK k \in 1..Len(text) : \E g \in fontGlyphs(text[k]) : p = <<x + f[k - 1] * glyphAdvance + g[1], y + g[2]>>
  BY DEF TextOf
<1>2. PICK g \in fontGlyphs(text[k]) : p = <<x + f[k - 1] * glyphAdvance + g[1], y + g[2]>>
  BY <1>1
<1>3. k \in HasGlyph(text) /\ g \in (1..3) \X {3}
  BY <1>2, Glyphs DEF HasGlyph
<1>4. g[1] \in 1..3 /\ g[2] = 3
  BY <1>3
<1> QED
  BY <1>2, <1>3, <1>4 DEF GlyphAt

(* No two glyphs meet, so each is there whole.                             *)
LEMMA TextIsWhole ==
  ASSUME NEW f, NEW x \in Nat, NEW y \in Nat, NEW text, Len(text) \in Nat, TextLoop(f, text)
  PROVE  /\ IsFiniteSet(TextOf(f, x, y, text)) /\ IsFiniteSet(HasGlyph(text))
         /\ Cardinality(TextOf(f, x, y, text)) = 3 * Cardinality(HasGlyph(text))
         /\ TextOf(f, x, y, text) \subseteq Nat \X Nat
<1>1. PICK n \in Nat : n = Len(text)
  OBVIOUS
<1>2. f \in [0..n -> Nat] /\ \A k \in 1..n : f[k] >= f[k - 1] + 1
  BY SMTT(40), <1>1 DEF TextLoop, Bytes
<1> DEFINE K == HasGlyph(text)
           m == [q \in K \X (1..3) |-> GlyphAt(x + f[q[1] - 1] * glyphAdvance, y, q[2])]
           ps == TextOf(f, x, y, text)
<1>3. IsFiniteSet(1..n) /\ K \subseteq 1..n
  BY <1>1, FS_Interval DEF HasGlyph
<1>4. IsFiniteSet(K)
  BY <1>3, FS_Subset
<1>5. IsFiniteSet(1..3) /\ Cardinality(1..3) = 3
  <2>1. PICK a \in Int, b \in Int : a = 1 /\ b = 3
    OBVIOUS
  <2>2. IsFiniteSet(a..b) /\ Cardinality(a..b) = (IF a > b THEN 0 ELSE b - a + 1)
    BY FS_Interval
  <2> QED
    BY <2>1, <2>2
<1>6. IsFiniteSet(K \X (1..3)) /\ Cardinality(K \X (1..3)) = Cardinality(K) * 3
  BY <1>4, <1>5, FS_Product
<1>7. \A k \in K : f[k - 1] \in Nat
  <2> SUFFICES ASSUME NEW k \in K PROVE f[k - 1] \in Nat
    OBVIOUS
  <2>1. k - 1 \in 0..n
    BY <1>3
  <2> QED
    BY <1>2, <2>1
<1>8. ASSUME NEW k \in K, NEW l \in K, k < l PROVE f[k - 1] + 1 <= f[l - 1]
  <2>1. k \in 1..n /\ k \in 0..n /\ l - 1 \in 0..n /\ k <= l - 1 /\ k - 1 \in 0..n
    BY <1>3, <1>8
  <2>2. f[k] <= f[l - 1]
    BY <1>2, <2>1, EndsAscend
  <2> QED
    BY SMTT(40), <1>2, <2>1, <2>2
<1>9. \A q, r \in K \X (1..3) : m[q] = m[r] => q = r
  <2> SUFFICES ASSUME NEW q \in K \X (1..3), NEW r \in K \X (1..3), m[q] = m[r] PROVE q = r
    OBVIOUS
  <2>1. PICK k \in K, i \in 1..3 : q = <<k, i>>
    OBVIOUS
  <2>2. PICK l \in K, j \in 1..3 : r = <<l, j>>
    OBVIOUS
  <2>3. PICK u \in Nat, v \in Nat : u = f[k - 1] /\ v = f[l - 1]
    BY <1>7
  <2>4. x + u * 6 + i = x + v * 6 + j
    BY <2>1, <2>2, <2>3 DEF GlyphAt, glyphAdvance
  <2>5. u = v /\ i = j
    BY <2>4
  <2>6. k \in Int /\ l \in Int
    BY <1>3
  <2>7. ~(k < l) /\ ~(l < k)
    <3>1. ASSUME k < l PROVE FALSE
      <4>1. f[k - 1] + 1 <= f[l - 1]
        BY <1>8, <3>1
      <4> QED
        BY <2>3, <2>5, <4>1
    <3>2. ASSUME l < k PROVE FALSE
      <4>1. f[l - 1] + 1 <= f[k - 1]
        BY <1>8, <3>2
      <4> QED
        BY <2>3, <2>5, <4>1
    <3> QED
      BY <3>1, <3>2
  <2>8. k = l
    BY <2>6, <2>7
  <2> QED
    BY <2>1, <2>2, <2>5, <2>8
<1>10. ps = {m[q] : q \in K \X (1..3)}
  <2>1. ASSUME NEW p \in ps PROVE p \in {m[q] : q \in K \X (1..3)}
    <3>1. PICK k \in K, i \in 1..3 : p = GlyphAt(x + f[k - 1] * glyphAdvance, y, i)
      BY SMTT(40), GlyphOfPoint
    <3>2. <<k, i>> \in K \X (1..3) /\ m[<<k, i>>] = p
      BY <3>1
    <3> QED
      BY <3>2
  <2>2. ASSUME NEW q \in K \X (1..3) PROVE m[q] \in ps
    <3>1. PICK k \in K, i \in 1..3 : q = <<k, i>>
      OBVIOUS
    <3>2. m[q] = GlyphAt(x + f[k - 1] * glyphAdvance, y, i)
      BY <3>1
    <3> QED
      BY <3>2, PointOfGlyph
  <2> QED
    BY <2>1, <2>2
<1>11. ps \subseteq Nat \X Nat
  <2> SUFFICES ASSUME NEW p \in ps PROVE p \in Nat \X Nat
    OBVIOUS
  <2>1. PICK k \in K, i \in 1..3 : p = GlyphAt(x + f[k - 1] * glyphAdvance, y, i)
    BY GlyphOfPoint
  <2> QED
    BY SMTT(40), <1>7, <2>1 DEF GlyphAt, glyphAdvance
<1> HIDE DEF m
<1>12. IsFiniteSet(ps) /\ Cardinality(ps) = Cardinality(K) * 3
  <2> DEFINE D == K \X (1..3)
  <2>1. IsFiniteSet(D) /\ Cardinality(D) = Cardinality(K) * 3
    BY <1>6
  <2>2. \A q, r \in D : m[q] = m[r] => q = r
    BY <1>9
  <2>3. ps = {m[q] : q \in D}
    BY <1>10
  <2> HIDE DEF D, ps
  <2>4. IsFiniteSet({m[q] : q \in D}) /\ Cardinality({m[q] : q \in D}) = Cardinality(D)
    BY <2>1, <2>2, InjectiveImage
  <2> QED
    BY <2>1, <2>3, <2>4
<1>13. Cardinality(K) \in Nat
  BY <1>4, FS_CardinalityType
<1> QED
  BY <1>4, <1>11, <1>12, <1>13

(* Where each character is one byte, the k-th begins k - 1 columns on.      *)
OneByte(text) == \A k \in 1..Len(text) : Bytes(text[k]) = 1
Spaced(x, y, text) == UNION {Glyph(x + (k - 1) * glyphAdvance, y, text[k]) : k \in HasGlyph(text)}

(* Where characters are of one byte, columns are characters.               *)
LEMMA OneByteText ==
  ASSUME NEW f, NEW x \in Nat, NEW y \in Nat, NEW text, Len(text) \in Nat, TextLoop(f, text), OneByte(text)
  PROVE  TextOf(f, x, y, text) = Spaced(x, y, text)
<1>1. PICK n \in Nat : n = Len(text)
  OBVIOUS
<1> DEFINE T == {k \in 0..n : f[k] = k}
<1>2. 0 \in T
  BY DEF TextLoop
<1>3. ASSUME NEW k \in 1..n, k - 1 \in T PROVE k \in T
  BY <1>1, <1>3 DEF TextLoop, OneByte
<1>4. \A k \in 0..n : k \in T
  <2> HIDE DEF T
  <2> QED
    BY <1>2, <1>3, Induction
<1>5. ASSUME NEW k \in 1..n PROVE f[k - 1] = k - 1
  BY <1>4
<1>6. ASSUME NEW k \in 1..n
      PROVE  {<<x + f[k - 1] * glyphAdvance + g[1], y + g[2]>> : g \in fontGlyphs(text[k])} = Glyph(x + (k - 1) * glyphAdvance, y, text[k])
  BY <1>5 DEF Glyph
<1>7. TextOf(f, x, y, text) = UNION {Glyph(x + (k - 1) * glyphAdvance, y, text[k]) : k \in 1..n}
  BY SMTT(40), <1>1, <1>6 DEF TextOf
<1>8. \A k \in 1..n : k \notin HasGlyph(text) => Glyph(x + (k - 1) * glyphAdvance, y, text[k]) = {}
  BY <1>1 DEF HasGlyph, Glyph
<1>9. HasGlyph(text) \subseteq 1..n
  BY <1>1 DEF HasGlyph
<1> QED
  BY ZenonT(60), <1>7, <1>8, <1>9 DEF Spaced

(* The points of any text are its glyphs, whole, and where the characters  *)
(* are of one byte each in its own columns (renderText in shapes.go).      *)
THEOREM TextIsExact ==
  ASSUME NEW a, a[1] \in Nat, a[2] \in Nat, NEW text, Len(text) \in Nat
  PROVE  LET ps == RenderText(a[1], a[2], text) IN
         IsFiniteSet(ps) /\ ps \subseteq Nat \X Nat /\ IsText(ps, a, text)
<1>1. PICK x \in Nat, y \in Nat : x = a[1] /\ y = a[2]
  OBVIOUS
<1>2. PICK f : TextLoop(f, text) /\ RenderText(x, y, text) = TextOf(f, x, y, text)
  BY TextLoopIs
<1>3. PICK ps : ps = TextOf(f, x, y, text)
  OBVIOUS
<1>4. IsFiniteSet(ps) /\ IsFiniteSet(HasGlyph(text)) /\ Cardinality(ps) = 3 * Cardinality(HasGlyph(text)) /\ ps \subseteq Nat \X Nat
  BY SMTT(40), <1>2, <1>3, TextIsWhole
<1>5. \A k \in HasGlyph(text) : Cardinality(fontGlyphs(text[k])) = 3
  BY Glyphs DEF HasGlyph
<1>6. Cardinality(ps) = GlyphPoints(text, HasGlyph(text))
  BY <1>4, <1>5, GlyphsSum
<1>7. OneByte(text) => ps = Spaced(x, y, text)
  BY <1>2, <1>3, OneByteText
<1>8. IsText(ps, a, text)
  <2>1. Cardinality(ps) = MapThenSumSet(LAMBDA k : Cardinality(fontGlyphs(text[k])), HasGlyph(text))
    BY <1>6 DEF GlyphPoints
  <2>2. (\A k \in 1..Len(text) : Bytes(text[k]) = 1) =>
           ps = UNION {{<<a[1] + (k - 1) * glyphAdvance + g[1], a[2] + g[2]>> : g \in fontGlyphs(text[k])} : k \in HasGlyph(text)}
    BY <1>1, <1>7 DEF OneByte, Spaced, Glyph
  <2> QED
    BY <2>1, <2>2 DEF IsText, HasGlyph
<1> QED
  BY <1>1, <1>2, <1>3, <1>4, <1>8

(* What a shape is, of the points it keeps.                                *)
IsShape(s, ps) ==
    CASE s.name = "line" -> IsLine(ps, s.args)
      [] s.name = "circle" -> IsCircle(ps, s.args)
      [] s.name = "rect" -> IsOutline(ps, s.args)
      [] s.name = "fillrect" -> ps = FillRect(s.args[1], s.args[2], s.args[3], s.args[4])
      [] s.name = "text" -> IsText(ps, s.args, s.text)

Kept(ps) == {p \in ps : p[1] >= 0 /\ p[2] >= 0}

(* Points at natural coordinates are kept.                                 *)
LEMMA KeptOfNats == ASSUME NEW ps \in SUBSET (Nat \X Nat) PROVE Kept(ps) = ps
  BY DEF Kept

(* A line between natural coordinates has no others.                       *)
LEMMA LineIsKept ==
  ASSUME NEW a, a[1] \in Nat, a[2] \in Nat, a[3] \in Nat, a[4] \in Nat
  PROVE  LET ps == LinePoints(a[1], a[2], a[3], a[4]) IN IsFiniteSet(ps) /\ ps \subseteq Nat \X Nat
<1>1. PICK x0 \in Nat, y0 \in Nat, x1 \in Nat, y1 \in Nat : x0 = a[1] /\ y0 = a[2] /\ x1 = a[3] /\ y1 = a[4]
  BY SMTT(40)
<1>2. x0 \in Int /\ y0 \in Int /\ x1 \in Int /\ y1 \in Int
  OBVIOUS
<1>3. Joins(LinePoints(x0, y0, x1, y1), x0, y0, x1, y1, Max({AbsInt(x1 - x0), AbsInt(y1 - y0)}))
  BY <1>2, LineIs
<1>4. IsFiniteSet(LinePoints(x0, y0, x1, y1)) /\ LinePoints(x0, y0, x1, y1) \subseteq Nat \X Nat
  BY <1>3 DEF Joins
<1> QED
  BY <1>1, <1>4

(* What parses has natural numbers.                                        *)
LEMMA ArgsAreNats ==
  ASSUME NEW s \in Shapes, Len(s.args) = Arity(s.name), ShapeOK(s)
  PROVE  /\ s.args[1] \in Nat /\ s.args[2] \in Nat /\ Len(s.text) \in Nat
         /\ s.name # "text" => s.args[3] \in Nat
         /\ s.name \notin {"text", "circle"} => s.args[4] \in Nat
         /\ s.name \in {"rect", "fillrect"} => s.args[3] > 0 /\ s.args[4] > 0
         /\ s.name = "circle" => s.args[3] > 0
         /\ s.name \in {"rect", "fillrect", "line", "circle", "text"}
<1>1. s.args \in Seq(Int) /\ s.text \in Seq(Nat) /\ s.name \in {"rect", "fillrect", "line", "circle", "text"}
  BY DEF Shapes
<1>2. Len(s.text) \in Nat
  BY <1>1, LenProperties
<1>3. PICK n : n = Len(s.args)
  OBVIOUS
<1>4. ASSUME NEW i \in 1..n PROVE s.args[i] \in Nat
  <2>1. s.args[i] \in Int
    BY <1>1, <1>3, ElementOfSeq
  <2>2. s.args[i] >= 0
    BY <1>3 DEF ShapeOK
  <2> QED
    BY <2>1, <2>2
<1>5. n = Arity(s.name)
  BY <1>3
<1>6. n \in {2, 3, 4} /\ (s.name # "text" => n >= 3) /\ (s.name \notin {"text", "circle"} => n = 4)
  BY <1>1, <1>5 DEF Arity
<1>7. 1 \in 1..n /\ 2 \in 1..n /\ (n >= 3 => 3 \in 1..n) /\ (n = 4 => 4 \in 1..n)
  BY <1>6
<1> QED
  BY <1>1, <1>2, <1>4, <1>6, <1>7 DEF ShapeOK

(* The points of a shape that parses: finitely many, none above the top,   *)
(* and those kept what the shape is called.                                *)
LEMMA ShapeIs ==
  ASSUME NEW s \in Shapes, Len(s.args) = Arity(s.name), ShapeOK(s)
  PROVE  LET ps == ShapePoints(s) IN
         IsFiniteSet(ps) /\ ps \subseteq Int \X Nat /\ IsShape(s, Kept(ps))
<1>1. PICK a : a = s.args
  OBVIOUS
<1>2. /\ a[1] \in Nat /\ a[2] \in Nat /\ Len(s.text) \in Nat
      /\ s.name # "text" => a[3] \in Nat
      /\ s.name \notin {"text", "circle"} => a[4] \in Nat
      /\ s.name \in {"rect", "fillrect"} => a[3] > 0 /\ a[4] > 0
      /\ s.name = "circle" => a[3] > 0
      /\ s.name \in {"rect", "fillrect", "line", "circle", "text"}
  BY <1>1, ArgsAreNats
<1>3. CASE s.name = "line"
  <2>1. ShapePoints(s) = LinePoints(a[1], a[2], a[3], a[4])
    BY <1>1, <1>3 DEF ShapePoints
  <2>2. PICK ps : ps = LinePoints(a[1], a[2], a[3], a[4])
    OBVIOUS
  <2>3. IsLine(ps, a)
    BY SMTT(40), <1>2, <1>3, <2>2, LineIsExact
  <2>4. IsFiniteSet(ps) /\ ps \subseteq Nat \X Nat
    BY <1>2, <1>3, <2>2, LineIsKept
  <2>5. Kept(ps) = ps
    BY <2>4, KeptOfNats
  <2>6. IsShape(s, ps)
    BY <1>1, <1>3, <2>3 DEF IsShape
  <2> QED
    BY <2>1, <2>2, <2>4, <2>5, <2>6
<1>4. CASE s.name = "circle"
  <2>1. ShapePoints(s) = CirclePoints(a[1], a[2], a[3])
    BY <1>1, <1>4 DEF ShapePoints
  <2>2. PICK ps : ps = CirclePoints(a[1], a[2], a[3])
    OBVIOUS
  <2>3. IsFiniteSet(ps) /\ ps \subseteq Int \X Nat /\ IsCircle(Kept(ps), a)
    BY <1>2, <1>4, <2>2, CircleIsExact DEF Kept
  <2>4. IsShape(s, Kept(ps))
    BY <1>1, <1>4, <2>3 DEF IsShape
  <2> QED
    BY <2>1, <2>2, <2>3, <2>4
<1>5. CASE s.name \in {"rect", "fillrect"}
  <2>1. PICK full : full = FillRect(a[1], a[2], a[3], a[4])
    OBVIOUS
  <2>2. PICK edge : edge = Rect(a[1], a[2], a[3], a[4])
    OBVIOUS
  <2>3. IsOutline(edge, a) /\ edge \subseteq full /\ full \subseteq Nat \X Nat
    BY <1>2, <1>5, <2>1, <2>2, RectIsExact
  <2>4. IsFiniteSet(full)
    BY SMTT(40), <1>2, <1>5, <2>1, RectIsFinite
  <2>5. IsFiniteSet(edge) /\ Kept(edge) = edge /\ Kept(full) = full
    BY <2>3, <2>4, FS_Subset, KeptOfNats
  <2>6. CASE s.name = "rect"
    <3>1. ShapePoints(s) = edge
      BY <1>1, <2>2, <2>6 DEF ShapePoints
    <3>2. IsShape(s, edge)
      BY <1>1, <2>3, <2>6 DEF IsShape
    <3> QED
      BY <2>3, <2>5, <3>1, <3>2
  <2>7. CASE s.name = "fillrect"
    <3>1. ShapePoints(s) = full
      BY <1>1, <2>1, <2>7 DEF ShapePoints
    <3>2. IsShape(s, full)
      BY <1>1, <2>1, <2>7 DEF IsShape
    <3> QED
      BY <2>3, <2>4, <2>5, <3>1, <3>2
  <2> QED
    BY <1>5, <2>6, <2>7
<1>6. CASE s.name = "text"
  <2>1. ShapePoints(s) = RenderText(a[1], a[2], s.text)
    BY <1>1, <1>6 DEF ShapePoints
  <2>2. PICK ps : ps = RenderText(a[1], a[2], s.text)
    OBVIOUS
  <2>3. IsFiniteSet(ps) /\ ps \subseteq Nat \X Nat /\ IsText(ps, a, s.text)
    BY <1>2, <2>2, TextIsExact
  <2>4. Kept(ps) = ps
    BY <2>3, KeptOfNats
  <2>5. IsShape(s, ps)
    BY <1>1, <1>6, <2>3 DEF IsShape
  <2> QED
    BY <2>1, <2>2, <2>3, <2>4, <2>5
<1> QED
  BY <1>2, <1>3, <1>4, <1>5, <1>6

(***************************************************************************)
(* Blueprints.                                                             *)
(***************************************************************************)
Layer(g, ps, c) == [p \in DOMAIN g \cup ps |-> IF p \in ps THEN c ELSE g[p]]

(* f lays the first n of P, coloured as C says, over cells.                *)
Layers(f, cells, P, C, n) == f[0] = cells /\ \A i \in 1..n : f[i] = Layer(f[i - 1], P[i], C[i])

InLayers(p, P, n) == \E j \in 1..n : p \in P[j]
IsTop(p, P, n, j) == j \in 1..n /\ p \in P[j] /\ \A k \in 1..n : p \in P[k] => k <= j
Laid(g, cells, P, C, n) ==
    /\ \A p : p \in DOMAIN g <=> p \in DOMAIN cells \/ InLayers(p, P, n)
    /\ \A p \in DOMAIN g : ~InLayers(p, P, n) => g[p] = cells[p]
    /\ \A p \in DOMAIN g, j \in 1..n : IsTop(p, P, n, j) => g[p] = C[j]

(* Laying one shape more over the others.                                  *)
LEMMA LaidOver ==
  ASSUME NEW g, NEW cells, NEW P, NEW C, NEW i \in Nat, i > 0, Laid(g, cells, P, C, i - 1)
  PROVE  Laid(Layer(g, P[i], C[i]), cells, P, C, i)
<1> DEFINE h == Layer(g, P[i], C[i])
<1>1. DOMAIN h = DOMAIN g \cup P[i] /\ \A p \in DOMAIN h : h[p] = IF p \in P[i] THEN C[i] ELSE g[p]
  BY DEF Layer
<1> HIDE DEF h
<1>2. \A j : j \in 1..i <=> j \in 1..(i - 1) \/ j = i
  OBVIOUS
<1>3. \A p : InLayers(p, P, i) <=> InLayers(p, P, i - 1) \/ p \in P[i]
  BY <1>2 DEF InLayers
<1>4. \A p : p \in DOMAIN h <=> p \in DOMAIN cells \/ InLayers(p, P, i)
  BY <1>1, <1>3 DEF Laid
<1>5. \A p \in DOMAIN h : ~InLayers(p, P, i) => h[p] = cells[p]
  <2> SUFFICES ASSUME NEW p \in DOMAIN h, ~InLayers(p, P, i) PROVE h[p] = cells[p]
    OBVIOUS
  <2>1. p \notin P[i] /\ ~InLayers(p, P, i - 1) /\ p \in DOMAIN g
    BY <1>1, <1>3
  <2> QED
    BY <1>1, <2>1 DEF Laid
<1>6. ASSUME NEW p \in DOMAIN h, NEW j \in 1..i, IsTop(p, P, i, j) PROVE h[p] = C[j]
  <2>1. CASE p \in P[i]
    <3>1. i \in 1..i /\ i <= j
      BY <1>6, <2>1 DEF IsTop
    <3>2. j = i
      BY <3>1
    <3> QED
      BY <1>1, <2>1, <3>2
  <2>2. CASE p \notin P[i]
    <3>1. j # i /\ j \in 1..(i - 1)
      BY <1>2, <1>6, <2>2 DEF IsTop
    <3>2. IsTop(p, P, i - 1, j)
      BY <1>2, <1>6, <3>1 DEF IsTop
    <3>3. p \in DOMAIN g
      BY <1>1, <2>2
    <3>4. g[p] = C[j]
      BY <3>1, <3>2, <3>3 DEF Laid
    <3> QED
      BY <1>1, <2>2, <3>4
  <2> QED
    BY <2>1, <2>2
<1>7. Laid(h, cells, P, C, i)
  BY <1>4, <1>5, <1>6 DEF Laid
<1> QED
  BY <1>7 DEF h

(* The topmost of the layers over a point gives its colour.                *)
LEMMA LayersAre ==
  ASSUME NEW n \in Nat, NEW f, NEW cells, NEW P, NEW C, Layers(f, cells, P, C, n)
  PROVE  \A i \in 0..n : Laid(f[i], cells, P, C, i)
<1> DEFINE T == {i \in 0..n : Laid(f[i], cells, P, C, i)}
<1>1. 0 \in T
  BY DEF Layers, Laid, InLayers, IsTop
<1>2. ASSUME NEW i \in 1..n, i - 1 \in T PROVE i \in T
  <2>1. f[i] = Layer(f[i - 1], P[i], C[i]) /\ Laid(f[i - 1], cells, P, C, i - 1) /\ i \in Nat /\ i > 0
    BY <1>2 DEF Layers
  <2>2. Laid(Layer(f[i - 1], P[i], C[i]), cells, P, C, i)
    BY <2>1, LaidOver
  <2> QED
    BY <2>1, <2>2
<1>3. \A i \in 0..n : i \in T
  <2> HIDE DEF T
  <2> QED
    BY <1>1, <1>2, Induction
<1> QED
  BY <1>3

Paints == UNION {[T -> 0..15] : T \in SUBSET (Int \X Int)}

(* What is painted, as a set of functions.                                 *)
LEMMA InPaints == \A g : g \in Paints <=> g = [p \in DOMAIN g |-> g[p]] /\ DOMAIN g \subseteq Int \X Int /\ \A p \in DOMAIN g : g[p] \in 0..15
  BY DEF Paints

(* The layers of Compose are a function on the shapes.                     *)
LEMMA LayersExist ==
  ASSUME NEW n \in Nat, NEW cells \in Paints, NEW P \in [1..n -> SUBSET (Int \X Int)], NEW C \in [1..n -> 0..15]
  PROVE  \E f : f \in [0..n -> Paints] /\ Layers(f, cells, P, C, n)
<1> DEFINE G == [m \in Paints \X (1..n) |-> Layer(m[1], P[m[2]], C[m[2]])]
<1>1. ASSUME NEW g \in Paints, NEW i \in 1..n PROVE Layer(g, P[i], C[i]) \in Paints
  <2>1. DOMAIN g \subseteq Int \X Int /\ \A p \in DOMAIN g : g[p] \in 0..15
    BY InPaints
  <2>2. P[i] \subseteq Int \X Int /\ C[i] \in 0..15
    OBVIOUS
  <2>3. Layer(g, P[i], C[i]) \in [DOMAIN g \cup P[i] -> 0..15]
    BY <2>1, <2>2 DEF Layer
  <2>4. DOMAIN g \cup P[i] \in SUBSET (Int \X Int)
    BY <2>1, <2>2
  <2> QED
    BY <2>3, <2>4 DEF Paints
<1>2. G \in [Paints \X (1..n) -> Paints]
  BY <1>1
<1> HIDE DEF G
<1>3. PICK f : IsLoop(f, Paints, cells, n, G)
  BY <1>2, Recursion
<1>4. f \in [0..n -> Paints] /\ f[0] = cells /\ \A i \in 1..n : f[i] = G[<<f[i - 1], i>>]
  BY <1>3 DEF IsLoop
<1>5. ASSUME NEW i \in 1..n PROVE f[i] = Layer(f[i - 1], P[i], C[i])
  <2>1. i - 1 \in 0..n
    OBVIOUS
  <2>2. f[i - 1] \in Paints
    BY <1>4, <2>1
  <2>3. G[<<f[i - 1], i>>] = Layer(f[i - 1], P[i], C[i])
    BY <2>2 DEF G
  <2> QED
    BY <1>4, <2>3
<1> QED
  BY <1>4, <1>5 DEF Layers

ComposeOf(all, base) ==
    [w |-> Max({base.w} \cup {p[1] + 1 : p \in DOMAIN all}),
     h |-> Max({base.h} \cup {p[2] + 1 : p \in DOMAIN all}),
     cells |-> [p \in {q \in DOMAIN all : q[1] >= 0 /\ q[2] >= 0} |-> all[p]]]

PointsOfAll(draws) == [i \in 1..Len(draws) |-> ShapePoints(draws[i])]
ColoursOfAll(draws) == [i \in 1..Len(draws) |-> draws[i].color]

(* Compose lays its shapes over the base and drops what is off it.         *)
LEMMA ComposeIs ==
  ASSUME NEW base, base.cells \in Paints, NEW draws, Len(draws) \in Nat,
         \A i \in 1..Len(draws) : ShapePoints(draws[i]) \subseteq Int \X Int /\ draws[i].color \in 0..15
  PROVE  \E all : /\ all \in Paints /\ Compose(base, draws) = ComposeOf(all, base)
                  /\ Laid(all, base.cells, PointsOfAll(draws), ColoursOfAll(draws), Len(draws))
<1>1. PICK n \in Nat : n = Len(draws)
  OBVIOUS
<1>2. PICK cells : cells = base.cells
  OBVIOUS
<1>3. PICK P : P = PointsOfAll(draws)
  OBVIOUS
<1>4. PICK C : C = ColoursOfAll(draws)
  OBVIOUS
<1>5. P \in [1..n -> SUBSET (Int \X Int)] /\ C \in [1..n -> 0..15]
  BY <1>1, <1>3, <1>4 DEF PointsOfAll, ColoursOfAll
<1>6. PICK f : f \in [0..n -> Paints] /\ Layers(f, cells, P, C, n)
  BY <1>2, <1>5, LayersExist
<1> DEFINE Rule(g, i) == IF i = 0 THEN base.cells ELSE Overlay(g[i - 1], draws[i])
           over == CHOOSE g : g = [i \in 0..Len(draws) |-> Rule(g, i)]
<1>7. ASSUME NEW g, NEW i \in 1..n PROVE Overlay(g, draws[i]) = Layer(g, P[i], C[i])
  BY <1>1, <1>3, <1>4 DEF Overlay, Layer, PointsOfAll, ColoursOfAll
<1>8. ASSUME NEW i \in 0..n PROVE f[i] = Rule(f, i)
  <2>1. CASE i = 0
    BY <1>2, <1>6, <2>1 DEF Layers
  <2>2. CASE i # 0
    <3>1. i \in 1..n
      BY <2>2
    <3>2. f[i] = Layer(f[i - 1], P[i], C[i])
      BY <1>6, <3>1 DEF Layers
    <3>3. Overlay(f[i - 1], draws[i]) = Layer(f[i - 1], P[i], C[i])
      BY <1>7, <3>1
    <3> QED
      BY <2>2, <3>2, <3>3
  <2> QED
    BY <2>1, <2>2
<1>9. f = [i \in 0..Len(draws) |-> Rule(f, i)]
  <2> HIDE DEF Rule
  <2> QED
    BY <1>1, <1>6, <1>8
<1>10. over = [i \in 0..Len(draws) |-> Rule(over, i)]
  <2> HIDE DEF Rule
  <2> QED
    BY <1>9
<1>11. Compose(base, draws) = ComposeOf(over[Len(draws)], base)
  BY DEF Compose, ComposeOf
<1> HIDE DEF over
<1>12. over[n] = f[n]
  <2> DEFINE T == {i \in 0..n : over[i] = f[i]}
  <2>1. 0 \in T
    BY <1>1, <1>8, <1>10
  <2>2. ASSUME NEW i \in 1..n, i - 1 \in T PROVE i \in T
    <3>1. over[i - 1] = f[i - 1] /\ i # 0 /\ i \in 0..n
      BY <2>2
    <3>2. over[i] = Rule(over, i) /\ f[i] = Rule(f, i)
      <4> HIDE DEF Rule
      <4> QED
        BY <1>1, <1>8, <1>10, <3>1
    <3> QED
      BY <3>1, <3>2
  <2>3. \A i \in 0..n : i \in T
    <3> HIDE DEF T
    <3> QED
      BY SMTT(40), <2>1, <2>2, Induction
  <2> QED
    BY <2>3
<1>13. Laid(f[n], cells, P, C, n)
  BY <1>6, LayersAre
<1>14. f[n] \in Paints
  BY <1>6
<1> QED
  BY <1>1, <1>2, <1>3, <1>4, <1>11, <1>12, <1>13, <1>14

Whole(w, h) == (0..w - 1) \X (0..h - 1)
IsBlueprint(bp) ==
    /\ bp = [w |-> bp.w, h |-> bp.h, cells |-> bp.cells]
    /\ bp.w \in Nat /\ bp.h \in Nat /\ (bp.h = 0 => bp.w = 0)
    /\ bp.cells \in Paints /\ IsFiniteSet(DOMAIN bp.cells) /\ DOMAIN bp.cells \subseteq Whole(bp.w, bp.h)

(* No file is a blueprint of no size.                                      *)
LEMMA BlankIsBlueprint == IsBlueprint(Blank)
<1>1. Blank.cells = [p \in {} |-> 0] /\ Blank.w = 0 /\ Blank.h = 0
  BY DEF Blank
<1>2. DOMAIN Blank.cells = {} /\ Blank.cells \in [{} -> 0..15]
  BY <1>1
<1>3. Blank.cells \in Paints
  BY SMTT(40), <1>2 DEF Paints
<1>4. Blank = [w |-> Blank.w, h |-> Blank.h, cells |-> Blank.cells]
  BY DEF Blank
<1> QED
  BY <1>1, <1>2, <1>3, <1>4, FS_EmptySet DEF IsBlueprint

(* A size grows to hold all points, and is no more than the old one where  *)
(* there is none.                                                          *)
Size(D, v, b) == Max({b} \cup {v[p] + 1 : p \in D})

(* The size holds every point.                                             *)
LEMMA GrowsTo ==
  ASSUME NEW D, IsFiniteSet(D), NEW v, \A p \in D : v[p] \in Int, NEW b \in Nat
  PROVE  LET m == Size(D, v, b) IN
         m \in Nat /\ b <= m /\ (\A p \in D : v[p] + 1 <= m) /\ (D = {} => m = b)
         /\ (m = b \/ \E p \in D : m = v[p] + 1)
<1> DEFINE u == [p \in D |-> v[p] + 1]
           S == {b} \cup {u[p] : p \in D}
<1>1. S = {b} \cup {v[p] + 1 : p \in D}
  OBVIOUS
<1>2. IsFiniteSet({u[p] : p \in D})
  <2> HIDE DEF u
  <2> QED
    BY ImageIsFinite
<1>3. IsFiniteSet(S)
  <2>1. IsFiniteSet({b})
    BY FS_Singleton
  <2> HIDE DEF u
  <2> QED
    BY <1>2, <2>1, FS_Union
<1>4. S \in SUBSET Int /\ S # {}
  OBVIOUS
<1>5. PICK m : m = Max(S)
  OBVIOUS
<1>6. m \in S /\ \A y \in S : y <= m
  <2> HIDE DEF S
  <2> QED
    BY <1>3, <1>4, <1>5, MaxIs
<1>7. b <= m /\ (\A p \in D : v[p] + 1 <= m)
  BY <1>6
<1>8. m \in Int /\ (m = b \/ \E p \in D : m = v[p] + 1)
  BY <1>6
<1>9. m \in Nat
  BY <1>7, <1>8
<1>10. m = Size(D, v, b)
  BY <1>1, <1>5 DEF Size
<1> QED
  BY <1>7, <1>8, <1>9, <1>10

(* What is drawn over a blueprint makes one, if nothing is above the top.  *)
LEMMA ComposeOfIsBlueprint ==
  ASSUME NEW base, IsBlueprint(base), NEW all \in Paints, IsFiniteSet(DOMAIN all),
         \A p \in DOMAIN all : p[2] >= 0
  PROVE  /\ IsBlueprint(ComposeOf(all, base))
         /\ ComposeOf(all, base).cells = [p \in Kept(DOMAIN all) |-> all[p]]
<1>1. base.w \in Nat /\ base.h \in Nat /\ (base.h = 0 => base.w = 0)
  BY DEF IsBlueprint
<1>2. \A p \in DOMAIN all : p = <<p[1], p[2]>> /\ p[1] \in Int /\ p[2] \in Int /\ p[2] >= 0 /\ all[p] \in 0..15
  BY InPaints
<1> DEFINE D == DOMAIN all
           v == [p \in D |-> p[1]]
           u == [p \in D |-> p[2]]
<1>3. PICK w : w = Size(D, v, base.w)
  OBVIOUS
<1>4. PICK h : h = Size(D, u, base.h)
  OBVIOUS
<1>5. w \in Nat /\ (\A p \in D : v[p] + 1 <= w) /\ (D = {} => w = base.w)
  <2>1. \A p \in D : v[p] \in Int
    BY <1>2
  <2> HIDE DEF v
  <2> QED
    BY <1>1, <1>3, <2>1, GrowsTo
<1>6. h \in Nat /\ base.h <= h /\ (\A p \in D : u[p] + 1 <= h) /\ (D = {} => h = base.h)
  <2>1. \A p \in D : u[p] \in Int
    BY <1>2
  <2> HIDE DEF u
  <2> QED
    BY <1>1, <1>4, <2>1, GrowsTo
<1>7. w = Max({base.w} \cup {p[1] + 1 : p \in D}) /\ h = Max({base.h} \cup {p[2] + 1 : p \in D})
  <2>1. {v[p] + 1 : p \in D} = {p[1] + 1 : p \in D} /\ {u[p] + 1 : p \in D} = {p[2] + 1 : p \in D}
    OBVIOUS
  <2> HIDE DEF v, u
  <2> QED
    BY <1>3, <1>4, <2>1 DEF Size
<1>8. \A p \in D : p[1] < w /\ p[2] < h
  BY <1>2, <1>5, <1>6
<1> DEFINE kept == [p \in Kept(D) |-> all[p]]
<1>9. ComposeOf(all, base) = [w |-> w, h |-> h, cells |-> kept]
  BY <1>7 DEF ComposeOf, Kept
<1>10. kept \in Paints /\ DOMAIN kept = Kept(D)
  <2>1. Kept(D) \in SUBSET (Int \X Int) /\ kept \in [Kept(D) -> 0..15]
    BY <1>2 DEF Kept
  <2> QED
    BY <2>1 DEF Paints
<1>11. Kept(D) \subseteq D
  BY DEF Kept
<1>12. IsFiniteSet(Kept(D))
  BY <1>11, FS_Subset
<1>13. Kept(D) \subseteq Whole(w, h)
  <2> SUFFICES ASSUME NEW p \in Kept(D) PROVE p \in Whole(w, h)
    OBVIOUS
  <2>1. p \in D /\ p = <<p[1], p[2]>> /\ p[1] \in 0..w - 1 /\ p[2] \in 0..h - 1
    BY <1>2, <1>5, <1>6, <1>8 DEF Kept
  <2> QED
    BY <2>1 DEF Whole
<1>14. h = 0 => w = 0
  <2> SUFFICES ASSUME h = 0 PROVE w = 0
    OBVIOUS
  <2>1. D = {}
    <3> SUFFICES ASSUME NEW p \in D PROVE FALSE
      OBVIOUS
    <3>1. p[2] \in Int /\ p[2] >= 0 /\ p[2] < 0
      BY <1>2, <1>8
    <3> QED
      BY <3>1
  <2>2. base.h = 0
    BY <1>6, <2>1
  <2> QED
    BY <1>1, <1>5, <2>1, <2>2
<1> HIDE DEF kept, D, v, u
<1>15. PICK bp : bp = [w |-> w, h |-> h, cells |-> kept]
  OBVIOUS
<1>16. bp.w = w /\ bp.h = h /\ bp.cells = kept
  BY <1>15
<1>17. IsBlueprint(bp)
  BY <1>5, <1>6, <1>10, <1>12, <1>13, <1>14, <1>15, <1>16 DEF IsBlueprint
<1> QED
  BY <1>9, <1>15, <1>16, <1>17 DEF kept, D

(* The last shape over a point, of its number the greatest.                *)
LEMMA TopIs ==
  ASSUME NEW p, NEW P, NEW n \in Nat, InLayers(p, P, n)
  PROVE  IsTop(p, P, n, Max({i \in 1..n : p \in P[i]}))
<1> DEFINE over == {i \in 1..n : p \in P[i]}
<1>1. over \subseteq 1..n /\ over # {} /\ over \in SUBSET Int
  BY DEF InLayers
<1>2. IsFiniteSet(over)
  BY <1>1, FS_Interval, FS_Subset
<1>3. PICK j : j = Max(over)
  OBVIOUS
<1>4. j \in over /\ \A k \in over : k <= j
  <2> HIDE DEF over
  <2> QED
    BY <1>1, <1>2, <1>3, MaxIs
<1>5. IsTop(p, P, n, j)
  BY <1>4 DEF IsTop
<1> QED
  BY <1>3, <1>5

(* The shapes that parse.                                                  *)
AreShapes(draws) ==
    /\ Len(draws) \in Nat
    /\ \A i \in 1..Len(draws) : draws[i] \in Shapes /\ Len(draws[i].args) = Arity(draws[i].name) /\ ShapeOK(draws[i])

LastWins(cells, base, draws) ==
    LET n == Len(draws)
        over(p) == {i \in 1..n : p \in ShapePoints(draws[i])}
        all == DOMAIN base \cup UNION {ShapePoints(draws[i]) : i \in 1..n}
    IN  /\ DOMAIN cells = {p \in all : p[1] >= 0 /\ p[2] >= 0}
        /\ \A p \in DOMAIN cells : cells[p] = IF over(p) = {} THEN base[p] ELSE draws[Max(over(p))].color

(* What Compose draws is a blueprint in which the last shape wins.         *)
LEMMA ComposeIsFaithful ==
  ASSUME NEW base, IsBlueprint(base), NEW draws, AreShapes(draws)
  PROVE  IsBlueprint(Compose(base, draws)) /\ LastWins(Compose(base, draws).cells, base.cells, draws)
<1>1. PICK n \in Nat : n = Len(draws)
  BY DEF AreShapes
<1>2. ASSUME NEW i \in 1..n
      PROVE  /\ IsFiniteSet(ShapePoints(draws[i])) /\ ShapePoints(draws[i]) \subseteq Int \X Nat
             /\ draws[i].color \in 0..15
  <2>1. draws[i] \in Shapes /\ Len(draws[i].args) = Arity(draws[i].name) /\ ShapeOK(draws[i])
    BY <1>1 DEF AreShapes
  <2>2. draws[i].color \in 0..15
    BY <2>1, CodecSizes DEF Shapes
  <2> QED
    BY <2>1, <2>2, ShapeIs
<1>3. base.cells \in Paints /\ IsFiniteSet(DOMAIN base.cells) /\ DOMAIN base.cells \subseteq Whole(base.w, base.h)
  BY DEF IsBlueprint
<1>4. PICK all : /\ all \in Paints /\ Compose(base, draws) = ComposeOf(all, base)
                 /\ Laid(all, base.cells, PointsOfAll(draws), ColoursOfAll(draws), n)
  <2>1. \A i \in 1..Len(draws) : ShapePoints(draws[i]) \subseteq Int \X Int /\ draws[i].color \in 0..15
    BY <1>1, <1>2
  <2> QED
    BY <1>1, <1>3, <2>1, ComposeIs
<1> DEFINE P == PointsOfAll(draws)
           C == ColoursOfAll(draws)
           shapes == UNION {P[i] : i \in 1..n}
<1>5. \A i \in 1..n : P[i] = ShapePoints(draws[i]) /\ C[i] = draws[i].color
  BY <1>1 DEF PointsOfAll, ColoursOfAll
<1> HIDE DEF P, C
<1>6. \A p : InLayers(p, P, n) <=> p \in shapes
  BY DEF InLayers
<1>7. DOMAIN all = DOMAIN base.cells \cup shapes
  BY <1>4, <1>6 DEF Laid, P, C
<1>8. IsFiniteSet(shapes)
  <2>1. IsFiniteSet(1..n)
    BY FS_Interval
  <2>2. IsFiniteSet({P[i] : i \in 1..n})
    BY <2>1, ImageIsFinite
  <2>3. \A ps \in {P[i] : i \in 1..n} : IsFiniteSet(ps)
    BY <1>2, <1>5
  <2> QED
    BY <2>2, <2>3, FS_UNION
<1>9. IsFiniteSet(DOMAIN all)
  <2> HIDE DEF shapes
  <2> QED
    BY <1>3, <1>7, <1>8, FS_Union
<1>10. \A p \in DOMAIN all : p[2] >= 0
  <2> SUFFICES ASSUME NEW p \in DOMAIN all PROVE p[2] >= 0
    OBVIOUS
  <2>1. CASE p \in DOMAIN base.cells
    BY <1>3, <2>1 DEF Whole
  <2>2. CASE p \in shapes
    <3>1. PICK i \in 1..n : p \in P[i]
      BY <2>2
    <3>2. p \in Int \X Nat
      BY <1>2, <1>5, <3>1
    <3> QED
      BY <3>2
  <2> QED
    BY <1>7, <2>1, <2>2
<1>11. IsBlueprint(ComposeOf(all, base)) /\ ComposeOf(all, base).cells = [p \in Kept(DOMAIN all) |-> all[p]]
  BY <1>4, <1>9, <1>10, ComposeOfIsBlueprint
<1>12. PICK cells : cells = [p \in Kept(DOMAIN all) |-> all[p]]
  OBVIOUS
<1>13. DOMAIN cells = Kept(DOMAIN all) /\ (\A p \in DOMAIN cells : p \in DOMAIN all /\ cells[p] = all[p])
  BY <1>12 DEF Kept
<1>14. DOMAIN cells = {p \in DOMAIN base.cells \cup UNION {ShapePoints(draws[i]) : i \in 1..Len(draws)} : p[1] >= 0 /\ p[2] >= 0}
  <2>1. shapes = UNION {ShapePoints(draws[i]) : i \in 1..Len(draws)}
    BY <1>1, <1>5
  <2> HIDE DEF shapes
  <2> QED
    BY <1>7, <1>13, <2>1 DEF Kept
<1>15. ASSUME NEW p \in DOMAIN cells
       PROVE  LET over == {i \in 1..n : p \in ShapePoints(draws[i])} IN
              cells[p] = IF over = {} THEN base.cells[p] ELSE draws[Max(over)].color
  <2>1. PICK over : over = {i \in 1..n : p \in P[i]}
    OBVIOUS
  <2>2. over = {i \in 1..n : p \in ShapePoints(draws[i])}
    BY <1>5, <2>1
  <2>3. CASE over = {}
    <3>1. ~InLayers(p, P, n)
      BY <2>1, <2>3 DEF InLayers
    <3>2. all[p] = base.cells[p]
      BY <1>4, <1>13, <3>1 DEF Laid, P, C
    <3> QED
      BY <1>13, <2>2, <2>3, <3>2
  <2>4. CASE over # {}
    <3>1. InLayers(p, P, n)
      BY <2>1, <2>4 DEF InLayers
    <3>2. PICK j : j = Max(over)
      OBVIOUS
    <3>3. IsTop(p, P, n, j)
      BY <2>1, <3>1, <3>2, TopIs
    <3>4. j \in 1..n
      BY <3>3 DEF IsTop
    <3>5. all[p] = C[j]
      BY <1>4, <1>13, <3>3, <3>4 DEF Laid, P, C
    <3> QED
      BY <1>5, <1>13, <2>2, <2>4, <3>2, <3>4, <3>5
  <2> QED
    BY <2>3, <2>4
<1>16. LastWins(cells, base.cells, draws)
  BY <1>1, <1>14, <1>15 DEF LastWins
<1> QED
  BY <1>4, <1>11, <1>12, <1>16

(***************************************************************************)
(* The palette.                                                            *)
(***************************************************************************)
(* The palette's colours are of three bytes.                               *)
LEMMA RGBIs ==
  \A c \in 0..15 : RGB(c)[1] \in 0..255 /\ RGB(c)[2] \in 0..255 /\ RGB(c)[3] \in 0..255
<1> SUFFICES ASSUME NEW c \in 0..15 PROVE RGB(c)[1] \in 0..255 /\ RGB(c)[2] \in 0..255 /\ RGB(c)[3] \in 0..255
  OBVIOUS
<1>1. c = 0 \/ c = 1 \/ c = 2 \/ c = 3 \/ c = 4 \/ c = 5 \/ c = 6 \/ c = 7 \/ c = 8 \/ c = 9 \/ c = 10 \/ c = 11 \/ c = 12 \/ c = 13 \/ c = 14 \/ c = 15
  OBVIOUS
<1> QED
  BY SMTT(40), <1>1 DEF RGB, palette

(* No two of its colours are the same.                                     *)
LEMMA RGBsDiffer ==
  \A c, d \in 0..15 : RGB(c)[1] = RGB(d)[1] /\ RGB(c)[2] = RGB(d)[2] /\ RGB(c)[3] = RGB(d)[3] => c = d
<1> DEFINE Packs(c) == RGB(c)[1] * 65536 + RGB(c)[2] * 256 + RGB(c)[3]
<1>1. ASSUME NEW c \in 0..15
      PROVE  \/ (c = 0 /\ Packs(c) = 16777215) \/ (c = 1 /\ Packs(c) = 15000804) \/ (c = 2 /\ Packs(c) = 8947848)
             \/ (c = 3 /\ Packs(c) = 2236962) \/ (c = 4 /\ Packs(c) = 16757872) \/ (c = 5 /\ Packs(c) = 10117924)
             \/ (c = 6 /\ Packs(c) = 8388608) \/ (c = 7 /\ Packs(c) = 12201261) \/ (c = 8 /\ Packs(c) = 16766464)
             \/ (c = 9 /\ Packs(c) = 8421376) \/ (c = 10 /\ Packs(c) = 4626832) \/ (c = 11 /\ Packs(c) = 4379892)
             \/ (c = 12 /\ Packs(c) = 4416472) \/ (c = 13 /\ Packs(c) = 117) \/ (c = 14 /\ Packs(c) = 15741670)
             \/ (c = 15 /\ Packs(c) = 16432852)
  <2>1. c = 0 \/ c = 1 \/ c = 2 \/ c = 3 \/ c = 4 \/ c = 5 \/ c = 6 \/ c = 7 \/ c = 8 \/ c = 9 \/ c = 10 \/ c = 11 \/ c = 12 \/ c = 13 \/ c = 14 \/ c = 15
    OBVIOUS
  <2> QED
    BY <2>1 DEF RGB, palette
<1>2. ASSUME NEW c \in 0..15, NEW d \in 0..15, RGB(c)[1] = RGB(d)[1] /\ RGB(c)[2] = RGB(d)[2] /\ RGB(c)[3] = RGB(d)[3]
      PROVE  c = d
  <2>1. Packs(c) = Packs(d)
    BY <1>2
  <2> HIDE DEF Packs
  <2> QED
    BY <1>1, <2>1
<1> QED
  BY <1>2

Squares(a, b, c) == 2 * (a * a) + 4 * (b * b) + 3 * (c * c)

(* The weighted distance is nothing for equal colours only.                *)
LEMMA SquaresAre ==
  ASSUME NEW a \in Int, NEW b \in Int, NEW c \in Int
  PROVE  Squares(a, b, c) \in Nat /\ (Squares(a, b, c) = 0 <=> a = 0 /\ b = 0 /\ c = 0)
<1>1. ASSUME NEW v \in Int PROVE v * v \in Nat /\ (v * v = 0 <=> v = 0)
  <2>1. CASE v = 0
    BY <2>1
  <2>2. CASE v > 0
    <3>1. v * v > 0
      BY <2>2
    <3> QED
      BY <2>2, <3>1
  <2>3. CASE v < 0
    <3>1. v * v > 0
      BY <2>3
    <3> QED
      BY <2>3, <3>1
  <2> QED
    BY <2>1, <2>2, <2>3
<1>2. PICK p \in Nat, q \in Nat, r \in Nat : p = a * a /\ q = b * b /\ r = c * c
  BY <1>1
<1>3. (p = 0 <=> a = 0) /\ (q = 0 <=> b = 0) /\ (r = 0 <=> c = 0)
  BY <1>1, <1>2
<1>4. Squares(a, b, c) = 2 * p + 4 * q + 3 * r
  BY <1>2 DEF Squares
<1> QED
  BY <1>3, <1>4

(* The same of Distance.                                                   *)
LEMMA DistanceIs ==
  ASSUME NEW u, u[1] \in Int, u[2] \in Int, u[3] \in Int, NEW c \in 0..15
  PROVE  /\ Distance(u, RGB(c)) \in Nat
         /\ Distance(u, RGB(c)) = 0 <=> u[1] = RGB(c)[1] /\ u[2] = RGB(c)[2] /\ u[3] = RGB(c)[3]
<1>1. PICK x \in Int, y \in Int, z \in Int : x = RGB(c)[1] /\ y = RGB(c)[2] /\ z = RGB(c)[3]
  <2>1. RGB(c)[1] \in 0..255 /\ RGB(c)[2] \in 0..255 /\ RGB(c)[3] \in 0..255
    BY SMTT(40), RGBIs
  <2>2. RGB(c)[1] \in Int /\ RGB(c)[2] \in Int /\ RGB(c)[3] \in Int
    BY SMTT(40), <2>1
  <2> QED
    BY ZenonT(60), <2>2
<1>2. PICK i \in Int, j \in Int, k \in Int : i = u[1] /\ j = u[2] /\ k = u[3]
  OBVIOUS
<1>3. Distance(u, RGB(c)) = Squares(i - x, j - y, k - z)
  BY <1>1, <1>2 DEF Distance, Squares
<1>4. i - x \in Int /\ j - y \in Int /\ k - z \in Int
  OBVIOUS
<1>5. Squares(i - x, j - y, k - z) \in Nat /\ (Squares(i - x, j - y, k - z) = 0 <=> i - x = 0 /\ j - y = 0 /\ k - z = 0)
  BY <1>4, SquaresAre
<1> QED
  BY <1>1, <1>2, <1>3, <1>5

(* A colour of the palette is its own nearest.                             *)
LEMMA NearestIs ==
  ASSUME NEW u, u[1] \in Int, u[2] \in Int, u[3] \in Int
  PROVE  /\ NearestColor(u) \in 0..15
         /\ \A k \in 0..15 : u[1] = RGB(k)[1] /\ u[2] = RGB(k)[2] /\ u[3] = RGB(k)[3] => NearestColor(u) = k
<1> DEFINE far == [c \in 0..15 |-> Distance(u, RGB(c))]
           fars == {far[c] : c \in 0..15}
           nearest == Min(fars)
           T == {c \in 0..15 : far[c] = nearest}
<1>1. \A c \in 0..15 : far[c] \in Nat /\ (far[c] = 0 <=> u[1] = RGB(c)[1] /\ u[2] = RGB(c)[2] /\ u[3] = RGB(c)[3])
  BY DistanceIs
<1>2. NearestColor(u) = Min(T)
  <2>1. PaletteIndices = 0..15
    BY CodecSizes
  <2>2. {Distance(u, RGB(c)) : c \in 0..15} = fars
    OBVIOUS
  <2>3. {c \in 0..15 : Distance(u, RGB(c)) = nearest} = T
    OBVIOUS
  <2> HIDE DEF T, fars, far
  <2> QED
    BY <2>1, <2>2, <2>3 DEF NearestColor
<1> HIDE DEF far
<1>3. IsFiniteSet(0..15)
  <2>1. PICK a \in Int, b \in Int : a = 0 /\ b = 15
    OBVIOUS
  <2>2. IsFiniteSet(a..b)
    BY FS_Interval
  <2> QED
    BY <2>1, <2>2
<1>4. IsFiniteSet(fars) /\ fars \in SUBSET Int /\ fars # {}
  <2>1. 0 \in 0..15
    OBVIOUS
  <2>2. fars # {} /\ fars \in SUBSET Int
    BY <1>1, <2>1
  <2> QED
    BY <1>3, <2>2, ImageIsFinite
<1>5. PICK least : least = nearest
  OBVIOUS
<1>6. least \in fars /\ \A y \in fars : least <= y
  <2> HIDE DEF fars
  <2> QED
    BY <1>4, <1>5, MinIs
<1>7. T = {c \in 0..15 : far[c] = least}
  BY <1>5
<1> HIDE DEF nearest
<1>8. T # {} /\ T \in SUBSET Int /\ T \subseteq 0..15
  BY <1>6, <1>7
<1>9. IsFiniteSet(T)
  <2> HIDE DEF T
  <2> QED
    BY <1>3, <1>8, FS_Subset
<1>10. Min(T) \in T
  <2> HIDE DEF T
  <2> QED
    BY <1>8, <1>9, MinIs
<1>11. NearestColor(u) \in 0..15
  BY <1>2, <1>8, <1>10
<1>12. ASSUME NEW k \in 0..15, u[1] = RGB(k)[1] /\ u[2] = RGB(k)[2] /\ u[3] = RGB(k)[3] PROVE NearestColor(u) = k
  <2>1. far[k] = 0 /\ far[k] \in fars
    BY <1>1, <1>12
  <2>2. least = 0
    <3>1. \A y \in fars : y \in Nat
      BY <1>1
    <3>2. least \in Nat /\ least <= far[k]
      BY <1>6, <2>1, <3>1
    <3> QED
      BY <2>1, <3>2
  <2>3. \A c \in T : far[c] = 0
    BY <1>7, <2>2
  <2>4. \A c \in T : RGB(c)[1] = RGB(k)[1] /\ RGB(c)[2] = RGB(k)[2] /\ RGB(c)[3] = RGB(k)[3]
    BY SMTT(40), <1>1, <1>8, <1>12, <2>3
  <2>5. \A c \in T : c = k
    BY <1>8, <2>4, RGBsDiffer
  <2> QED
    BY <1>2, <1>10, <2>5
<1> QED
  BY <1>11, <1>12

(***************************************************************************)
(* Images.                                                                 *)
(***************************************************************************)
(* A quotient, by its remainder.                                           *)
LEMMA DivIs ==
  ASSUME NEW a \in Int, NEW m \in Nat, m > 0
  PROVE  a \div m \in Int /\ m * (a \div m) <= a /\ a < m * (a \div m) + m
<1>1. a \div m \in Int /\ a % m \in 0..(m - 1) /\ a = m * (a \div m) + (a % m)
  OBVIOUS
<1>2. PICK p \in Int : p = m * (a \div m)
  BY <1>1
<1> QED
  BY <1>1, <1>2

(* Products grow with their factors.                                       *)
LEMMA MulAscends ==
  ASSUME NEW m \in Nat, NEW a \in Int, NEW b \in Int, a <= b
  PROVE  m * a <= m * b
<1>1. PICK d \in Nat : b = a + d
  <2>1. b - a \in Nat /\ b = a + (b - a)
    OBVIOUS
  <2> QED
    BY <2>1
<1>2. m * b = m * a + m * d /\ m * d \in Nat /\ m * a \in Int
  BY <1>1
<1> QED
  BY <1>2

(* Bounds carry over to a quotient.                                        *)
LEMMA DivBounds ==
  ASSUME NEW a \in Int, NEW m \in Nat, m > 0, NEW k \in Int
  PROVE  (m * k <= a => k <= a \div m) /\ (a < m * k => a \div m < k) /\ (a <= m * k => a \div m <= k)
<1>1. PICK q \in Int : q = a \div m /\ m * q <= a /\ a < m * q + m
  BY DivIs
<1>2. ASSUME m * k <= a PROVE k <= q
  <2> SUFFICES ASSUME q + 1 <= k PROVE FALSE
    OBVIOUS
  <2>1. m * (q + 1) <= m * k
    BY MulAscends
  <2>2. m * (q + 1) = m * q + m
    OBVIOUS
  <2> QED
    BY <1>1, <1>2, <2>1, <2>2
<1>3. ASSUME a < m * k PROVE q < k
  <2> SUFFICES ASSUME k <= q PROVE FALSE
    OBVIOUS
  <2>1. m * k <= m * q
    BY MulAscends
  <2> QED
    BY <1>1, <1>3, <2>1
<1>4. ASSUME a <= m * k PROVE q <= k
  <2> SUFFICES ASSUME k + 1 <= q PROVE FALSE
    OBVIOUS
  <2>1. m * (k + 1) <= m * q
    BY MulAscends
  <2>2. m * (k + 1) = m * k + m
    OBVIOUS
  <2> QED
    BY <1>1, <1>4, <2>1, <2>2
<1> QED
  BY <1>1, <1>2, <1>3, <1>4

(* An image is scaled into its box, to one cell at least.                  *)
LEMMA FitScaleIs ==
  ASSUME NEW w \in Nat, w > 0, NEW h \in Nat, h > 0, NEW maxW \in Nat, maxW > 0, NEW maxH \in Nat, maxH > 0
  PROVE  LET size == FitScale(w, h, maxW, maxH) IN
         /\ size = <<size[1], size[2]>>
         /\ size[1] \in 1..maxW /\ size[1] <= w
         /\ size[2] \in 1..maxH /\ size[2] <= h
<1>1. CASE w <= maxW /\ h <= maxH
  <2>1. FitScale(w, h, maxW, maxH) = <<Max({w, 1}), Max({h, 1})>>
    BY <1>1 DEF FitScale
  <2>2. Max({w, 1}) = w /\ Max({h, 1}) = h
    BY MaxOfTwo
  <2> QED
    BY <1>1, <2>1, <2>2
<1>2. CASE ~(w <= maxW /\ h <= maxH) /\ w * maxH > h * maxW
  <2>1. PICK a \in Nat, b \in Nat : a = w * maxH /\ b = h * maxW
    OBVIOUS
  <2>2. FitScale(w, h, maxW, maxH) = <<Max({maxW, 1}), Max({b \div w, 1})>>
    BY <1>2, <2>1 DEF FitScale
  <2>3. maxW <= w
    <3> SUFFICES ASSUME w < maxW PROVE FALSE
      OBVIOUS
    <3>1. maxH <= h
      BY <1>2
    <3>2. w * maxH <= w * h /\ h * w <= h * maxW
      BY <3>1, MulAscends
    <3> QED
      BY <1>2, <3>2
  <2>4. b <= w * h
    <3>1. h * maxW <= h * w
      BY <2>3, MulAscends
    <3> QED
      BY <2>1, <3>1
  <2>5. b < w * maxH
    BY <1>2, <2>1
  <2>6. PICK q \in Int : q = b \div w
    BY DivIs
  <2>7. q <= h /\ q < maxH
    BY <2>4, <2>5, <2>6, DivBounds
  <2>8. Max({maxW, 1}) = maxW /\ Max({q, 1}) = (IF q >= 1 THEN q ELSE 1)
    BY MaxOfTwo
  <2> QED
    BY <2>2, <2>3, <2>6, <2>7, <2>8
<1>3. CASE ~(w <= maxW /\ h <= maxH) /\ ~(w * maxH > h * maxW)
  <2>1. PICK a \in Nat, b \in Nat : a = w * maxH /\ b = h * maxW
    OBVIOUS
  <2>2. FitScale(w, h, maxW, maxH) = <<Max({a \div h, 1}), Max({maxH, 1})>>
    BY <1>3, <2>1 DEF FitScale
  <2>3. maxH <= h
    <3> SUFFICES ASSUME h < maxH PROVE FALSE
      OBVIOUS
    <3>1. maxW + 1 <= w /\ h <= maxH
      BY <1>3
    <3>2. h * (maxW + 1) <= h * w /\ w * h <= w * maxH
      BY <3>1, MulAscends
    <3>3. h * (maxW + 1) = b + h
      BY <2>1
    <3> QED
      BY <1>3, <2>1, <3>2, <3>3
  <2>4. a <= h * w
    <3>1. w * maxH <= w * h
      BY <2>3, MulAscends
    <3> QED
      BY <2>1, <3>1
  <2>5. a <= h * maxW
    BY <1>3, <2>1
  <2>6. PICK q \in Int : q = a \div h
    BY DivIs
  <2>7. q <= w /\ q <= maxW
    BY <2>4, <2>5, <2>6, DivBounds
  <2>8. Max({maxH, 1}) = maxH /\ Max({q, 1}) = (IF q >= 1 THEN q ELSE 1)
    BY MaxOfTwo
  <2> QED
    BY <2>2, <2>3, <2>6, <2>7, <2>8
<1> QED
  BY <1>1, <1>2, <1>3

(* The spans of 0..m - 1 cover 0..n - 1 once, and none is empty.           *)
LEMMA SpanIs ==
  ASSUME NEW n \in Nat, NEW m \in 1..n, NEW i \in 0..m - 1
  PROVE  /\ Span(i, n, m) = (i * n) \div m .. ((i + 1) * n) \div m - 1
         /\ (i * n) \div m \in 0..n - 1 /\ ((i + 1) * n) \div m \in 1..n
         /\ (i * n) \div m < ((i + 1) * n) \div m
<1>1. PICK a \in Int, b \in Int : a = i * n /\ b = (i + 1) * n
  OBVIOUS
<1>2. b = a + n
  BY <1>1
<1>3. PICK p \in Int : p = a \div m /\ m * p <= a /\ a < m * p + m
  BY DivIs
<1>4. PICK q \in Int : q = b \div m
  BY DivIs
<1>5. m * 0 <= a
  BY <1>1
<1>6. 0 <= p
  BY <1>3, <1>5, DivBounds
<1>7. m * (p + 1) <= b
  <2>1. m * (p + 1) = m * p + m
    OBVIOUS
  <2> QED
    BY <1>2, <1>3, <2>1
<1>8. p + 1 <= q
  BY <1>4, <1>7, DivBounds
<1>9. b <= m * n
  <2>1. n * (i + 1) <= n * m
    BY MulAscends
  <2> QED
    BY <1>1, <2>1
<1>10. q <= n
  BY <1>4, <1>9, DivBounds
<1> QED
  BY <1>1, <1>3, <1>4, <1>6, <1>8, <1>10 DEF Span

(* The first span starts the extent, and the last ends with it.            *)
LEMMA SpanStarts ==
  ASSUME NEW n \in Nat, NEW m \in 1..n
  PROVE  (0 * n) \div m = 0 /\ (m * n) \div m = n
<1>1. m \in Nat /\ m > 0 /\ 0 \in 0..(m - 1)
  OBVIOUS
<1>2. (0 * m + 0) \div m = 0 /\ (n * m + 0) \div m = n
  BY <1>1, DivMod
<1> QED
  BY <1>2

(* A later span starts where an earlier one has ended, or after.           *)
LEMMA SpansAscend ==
  ASSUME NEW n \in Nat, NEW m \in 1..n, NEW i \in 0..m - 1, NEW j \in 0..m - 1, i < j
  PROVE  ((i + 1) * n) \div m <= (j * n) \div m
<1>1. PICK a \in Int, b \in Int : a = (i + 1) * n /\ b = j * n
  OBVIOUS
<1>2. n * (i + 1) <= n * j
  BY MulAscends
<1>3. a <= b
  BY <1>1, <1>2
<1>4. PICK p \in Int : p = a \div m /\ m * p <= a
  BY DivIs
<1>5. p <= b \div m
  BY <1>3, <1>4, DivBounds, DivIs
<1> QED
  BY <1>1, <1>4, <1>5

(* Every row or column is in exactly one span.                             *)
LEMMA SpanOf ==
  ASSUME NEW n \in Nat, NEW m \in 1..n, NEW q \in 0..n - 1
  PROVE  /\ \E i \in 0..m - 1 : q \in Span(i, n, m)
         /\ \A i, j \in 0..m - 1 : q \in Span(i, n, m) /\ q \in Span(j, n, m) => i = j
<1> DEFINE T == {i \in 0..m - 1 : (i * n) \div m <= q}
<1>1. 0 \in T
  BY SpanStarts
<1>2. m - 1 \in Nat /\ T \in SUBSET (0..(m - 1)) /\ T # {}
  <2>1. m \in Nat /\ m >= 1
    OBVIOUS
  <2>2. m - 1 \in Nat
    BY <2>1
  <2>3. T \in SUBSET (0..(m - 1))
    OBVIOUS
  <2> QED
    BY <1>1, <2>2, <2>3
<1>3. PICK i \in T : \A j \in T : j <= i
  <2> HIDE DEF T
  <2> QED
    BY <1>2, Greatest
<1>4. i \in 0..m - 1 /\ (i * n) \div m <= q
  OBVIOUS
<1>5. q < ((i + 1) * n) \div m
  <2>1. CASE i + 1 = m
    <3>1. ((i + 1) * n) \div m = n
      BY <2>1, SpanStarts
    <3> QED
      BY <3>1
  <2>2. CASE i + 1 # m
    <3>1. i + 1 \in 0..m - 1 /\ i + 1 \notin T
      BY <1>3, <1>4, <2>2
    <3>2. ~(((i + 1) * n) \div m <= q)
      BY <3>1
    <3>3. ((i + 1) * n) \div m \in Int
      BY <1>4, SpanIs
    <3> QED
      BY <3>2, <3>3
  <2> QED
    BY <2>1, <2>2
<1>6. q \in Span(i, n, m)
  <2>1. PICK a \in Int, b \in Int : a = (i * n) \div m /\ b = ((i + 1) * n) \div m /\ Span(i, n, m) = a..b - 1
    BY <1>4, SpanIs
  <2> QED
    BY <1>4, <1>5, <2>1
<1>7. ASSUME NEW k \in 0..m - 1, NEW l \in 0..m - 1, k < l, q \in Span(k, n, m), q \in Span(l, n, m) PROVE FALSE
  <2>1. PICK a \in Int, b \in Int : a = (k * n) \div m /\ b = ((k + 1) * n) \div m /\ Span(k, n, m) = a..b - 1
    BY SpanIs
  <2>2. PICK c \in Int, d \in Int : c = (l * n) \div m /\ d = ((l + 1) * n) \div m /\ Span(l, n, m) = c..d - 1
    BY SpanIs
  <2>3. b <= c
    BY <1>7, <2>1, <2>2, SpansAscend
  <2> QED
    BY <1>7, <2>1, <2>2, <2>3
<1>8. ASSUME NEW k \in 0..m - 1, NEW l \in 0..m - 1, q \in Span(k, n, m), q \in Span(l, n, m) PROVE k = l
  <2>1. ~(k < l) /\ ~(l < k)
    BY <1>7, <1>8
  <2> QED
    BY <2>1
<1> QED
  BY <1>4, <1>6, <1>8

(* The mean of equal values is that value.                                 *)
LEMMA MeanOfEquals ==
  ASSUME NEW S, IsFiniteSet(S), S # {}, NEW c \in Int, NEW f \in [S -> Int], \A x \in S : f[x] = c
  PROVE  Mean(f) = c
<1>1. PICK n \in Nat : n = Cardinality(S) /\ n > 0
  <2>1. Cardinality(S) \in Nat /\ Cardinality(S) # 0
    BY FS_CardinalityType, FS_EmptySet
  <2> QED
    BY <2>1
<1>2. FoldFunction(+, 0, f) = c * n
  BY <1>1, SumOfEquals
<1>3. 0 \in 0..(n - 1)
  BY <1>1
<1>4. (c * n + 0) \div n = c
  BY <1>1, <1>3, DivMod
<1>5. PICK sum \in Int : sum = c * n
  OBVIOUS
<1>6. sum \div n = c
  BY <1>4, <1>5
<1>7. DOMAIN f = S
  OBVIOUS
<1>8. Mean(f) = FoldFunction(+, 0, f) \div Cardinality(S)
  BY <1>7 DEF Mean
<1> QED
  BY <1>1, <1>2, <1>5, <1>6, <1>8

(* A mean of natural numbers is one.                                       *)
LEMMA MeanIsNat ==
  ASSUME NEW S, IsFiniteSet(S), S # {}, NEW f \in [S -> Nat]
  PROVE  Mean(f) \in Nat
<1>1. PICK n \in Nat : n = Cardinality(S) /\ n > 0
  <2>1. Cardinality(S) \in Nat /\ Cardinality(S) # 0
    BY FS_CardinalityType, FS_EmptySet
  <2> QED
    BY <2>1
<1>2. PICK sum \in Nat : sum = FoldFunction(+, 0, f)
  BY SumOfNats
<1>3. sum \div n \in Int /\ (n * 0 <= sum => 0 <= sum \div n)
  BY <1>1, DivBounds, DivIs
<1>4. n * 0 <= sum
  BY <1>1
<1>5. DOMAIN f = S
  OBVIOUS
<1>6. Mean(f) = FoldFunction(+, 0, f) \div Cardinality(S)
  BY <1>5 DEF Mean
<1>7. sum \div n \in Nat
  BY SMTT(40), <1>3, <1>4
<1> QED
  BY <1>1, <1>2, <1>6, <1>7

Box(img, w, h, p) == Span(p[1], img.w, w) \X Span(p[2], img.h, h)
AlphaOf(img, w, h, p) == Mean([q \in Box(img, w, h, p) |-> Alpha(img.pixels[q])])
MeanOf(img, w, h, p, i) == Mean([q \in Box(img, w, h, p) |-> Channel(img.pixels[q], i)])
ShadeOf(img, w, h, p, i) == Blend(MeanOf(img, w, h, p, i), AlphaOf(img, w, h, p))
Inked(img, w, h) == {p \in FillRect(0, 0, w, h) : Box(img, w, h, p) # {} /\ AlphaOf(img, w, h, p) >= 26}
ColourOf(img, w, h, p) == NearestColor(<<ShadeOf(img, w, h, p, 1), ShadeOf(img, w, h, p, 2), ShadeOf(img, w, h, p, 3)>>)
Scaled(img, w, h) == [w |-> w, h |-> h, cells |-> [p \in Inked(img, w, h) |-> ColourOf(img, w, h, p)]]

(* An image's blueprint, by its size.                                      *)
LEMMA ImageIs ==
  ASSUME NEW img, img.w # 0, img.h # 0, NEW maxW, NEW maxH
  PROVE  ImageToBlueprint(img, maxW, maxH) =
            Ok(Scaled(img, FitScale(img.w, img.h, maxW, maxH)[1], FitScale(img.w, img.h, maxW, maxH)[2]))
  BY DEF ImageToBlueprint, Scaled, ColourOf, Inked, ShadeOf, MeanOf, AlphaOf, Box

(* The size an image may be scaled to.                                     *)
Fits(img, w, h) ==
    /\ img.w \in Nat /\ img.h \in Nat /\ w \in 1..img.w /\ h \in 1..img.h
    /\ img.pixels \in [FillRect(0, 0, img.w, img.h) -> -1..15]

(* The pixels that a cell stands for: not none, and of the image.          *)
LEMMA BoxIs ==
  ASSUME NEW img, NEW w, NEW h, Fits(img, w, h), NEW p \in FillRect(0, 0, w, h)
  PROVE  /\ IsFiniteSet(Box(img, w, h, p)) /\ Box(img, w, h, p) # {}
         /\ \A q \in Box(img, w, h, p) : q \in FillRect(0, 0, img.w, img.h) /\ img.pixels[q] \in -1..15
<1>1. PICK n \in Nat, m \in Nat : n = img.w /\ m = img.h
  BY DEF Fits
<1>2. w \in 1..n /\ h \in 1..m
  BY <1>1 DEF Fits
<1>3. PICK x \in 0..w - 1, y \in 0..h - 1 : p = <<x, y>>
  <2>1. w \in Int /\ h \in Int
    BY <1>2
  <2>2. p[1] \in 0..w - 1 /\ p[2] \in 0..h - 1 /\ p = <<p[1], p[2]>>
    BY <2>1 DEF FillRect
  <2> QED
    BY <2>2
<1>4. PICK a \in Int, b \in Int : Span(x, n, w) = a..b - 1 /\ a \in 0..n - 1 /\ b \in 1..n /\ a < b
  <2>1. PICK a, b : a = (x * n) \div w /\ b = ((x + 1) * n) \div w
    OBVIOUS
  <2>2. Span(x, n, w) = a..b - 1 /\ a \in 0..n - 1 /\ b \in 1..n /\ a < b
    BY <1>2, <2>1, SpanIs
  <2> QED
    BY <2>2
<1>5. PICK c \in Int, d \in Int : Span(y, m, h) = c..d - 1 /\ c \in 0..m - 1 /\ d \in 1..m /\ c < d
  <2>1. PICK c, d : c = (y * m) \div h /\ d = ((y + 1) * m) \div h
    OBVIOUS
  <2>2. Span(y, m, h) = c..d - 1 /\ c \in 0..m - 1 /\ d \in 1..m /\ c < d
    BY <1>2, <2>1, SpanIs
  <2> QED
    BY <2>2
<1>6. Box(img, w, h, p) = (a..b - 1) \X (c..d - 1)
  BY <1>1, <1>3, <1>4, <1>5 DEF Box
<1>7. IsFiniteSet(a..b - 1) /\ IsFiniteSet(c..d - 1)
  <2>1. b - 1 \in Int /\ d - 1 \in Int
    OBVIOUS
  <2> QED
    BY <2>1, FS_Interval
<1>8. IsFiniteSet(Box(img, w, h, p))
  <2>1. PICK X, Y : X = a..b - 1 /\ Y = c..d - 1
    OBVIOUS
  <2>2. IsFiniteSet(X \X Y)
    BY <1>7, <2>1, FS_Product
  <2> QED
    BY <1>6, <2>1, <2>2
<1>9. <<a, c>> \in Box(img, w, h, p)
  BY SMTT(40), <1>4, <1>5, <1>6
<1>10. ASSUME NEW q \in Box(img, w, h, p) PROVE q \in FillRect(0, 0, n, m)
  <2>1. q = <<q[1], q[2]>> /\ q[1] \in a..b - 1 /\ q[2] \in c..d - 1
    BY <1>6
  <2>2. q[1] \in 0..0 + n - 1 /\ q[2] \in 0..0 + m - 1
    BY SMTT(40), <1>4, <1>5, <2>1
  <2> QED
    BY <2>1, <2>2 DEF FillRect
<1>11. \A q \in FillRect(0, 0, n, m) : img.pixels[q] \in -1..15
  BY <1>1 DEF Fits
<1> QED
  BY <1>1, <1>8, <1>9, <1>10, <1>11

(* What a cell becomes whose pixels are none of them clear, or all of one  *)
(* colour.                                                                 *)
LEMMA ShadesAre ==
  ASSUME NEW img, NEW w, NEW h, Fits(img, w, h), NEW p \in FillRect(0, 0, w, h)
  PROVE  /\ AlphaOf(img, w, h, p) \in Nat
         /\ \A i \in 1..3 : ShadeOf(img, w, h, p, i) \in Int
         /\ (\A q \in Box(img, w, h, p) : img.pixels[q] # -1) => AlphaOf(img, w, h, p) = 255
         /\ \A c \in 0..15 : (\A q \in Box(img, w, h, p) : img.pixels[q] = c) =>
               \A i \in 1..3 : ShadeOf(img, w, h, p, i) = RGB(c)[i]
<1>1. PICK B : B = Box(img, w, h, p)
  OBVIOUS
<1>2. PICK px : px = img.pixels
  OBVIOUS
<1>3. IsFiniteSet(B) /\ B # {} /\ \A q \in B : px[q] \in -1..15
  BY <1>1, <1>2, BoxIs
<1> DEFINE A == [q \in B |-> Alpha(px[q])]
           M(i) == [q \in B |-> Channel(px[q], i)]
<1>4. AlphaOf(img, w, h, p) = Mean(A) /\ \A i : MeanOf(img, w, h, p, i) = Mean(M(i))
  BY <1>1, <1>2 DEF AlphaOf, MeanOf
<1>5. A \in [B -> Nat] /\ A \in [B -> Int]
  BY DEF Alpha
<1>6. ASSUME NEW i \in 1..3 PROVE M(i) \in [B -> Nat] /\ M(i) \in [B -> Int]
  <2> SUFFICES ASSUME NEW q \in B PROVE Channel(px[q], i) \in Nat
    OBVIOUS
  <2>1. CASE px[q] = -1
    BY <2>1 DEF Channel, ClearPixel
  <2>2. CASE px[q] # -1
    <3>1. px[q] \in 0..15
      BY <1>3, <2>2
    <3>2. RGB(px[q])[i] \in 0..255
      <4>1. i = 1 \/ i = 2 \/ i = 3
        OBVIOUS
      <4> QED
        BY SMTT(40), <3>1, <4>1, RGBIs
    <3>3. Channel(px[q], i) = RGB(px[q])[i]
      BY <2>2 DEF Channel, ClearPixel
    <3> QED
      BY SMTT(40), <3>2, <3>3
  <2> QED
    BY <2>1, <2>2
<1>7. Mean(A) \in Nat
  <2> HIDE DEF A
  <2> QED
    BY <1>3, <1>5, MeanIsNat
<1>8. ASSUME NEW i \in 1..3 PROVE Mean(M(i)) \in Nat
  <2>1. M(i) \in [B -> Nat]
    BY <1>6
  <2> HIDE DEF M
  <2> QED
    BY <1>3, <2>1, MeanIsNat
<1>9. ASSUME NEW i \in 1..3 PROVE ShadeOf(img, w, h, p, i) \in Int
  <2>1. PICK v \in Nat, a \in Nat : v = Mean(M(i)) /\ a = Mean(A)
    BY <1>7, <1>8
  <2>2. Blend(v, a) \in Int
    BY DEF Blend, emptyCanvas
  <2> HIDE DEF M, A
  <2> QED
    BY <1>4, <2>1, <2>2 DEF ShadeOf
<1>10. ASSUME \A q \in B : px[q] # -1 PROVE Mean(A) = 255
  <2>1. PICK c \in Int : c = 255
    OBVIOUS
  <2>2. \A q \in B : A[q] = c
    BY <1>10, <2>1 DEF Alpha, ClearPixel
  <2> HIDE DEF A
  <2>3. Mean(A) = c
    BY <1>3, <1>5, <2>2, MeanOfEquals
  <2> QED
    BY <2>1, <2>3
<1>11. ASSUME NEW c \in 0..15, \A q \in B : px[q] = c, NEW i \in 1..3 PROVE ShadeOf(img, w, h, p, i) = RGB(c)[i]
  <2>1. PICK v \in Int : v = RGB(c)[i]
    <3>0. RGB(c)[1] \in 0..255 /\ RGB(c)[2] \in 0..255 /\ RGB(c)[3] \in 0..255
      BY SMTT(40), RGBIs
    <3>1. RGB(c)[1] \in Int /\ RGB(c)[2] \in Int /\ RGB(c)[3] \in Int
      BY SMTT(40), <3>0
    <3>2. i = 1 \/ i = 2 \/ i = 3
      OBVIOUS
    <3>3. RGB(c)[i] \in Int
      BY <3>1, <3>2
    <3> QED
      BY SMTT(40), <3>3
  <2>2. c # -1
    OBVIOUS
  <2>3. \A q \in B : M(i)[q] = v
    BY <1>11, <2>1, <2>2 DEF Channel, ClearPixel
  <2>4. M(i) \in [B -> Int]
    BY <1>6
  <2>5. Mean(A) = 255
    BY <1>10, <1>11, <2>2
  <2> HIDE DEF M, A
  <2>6. Mean(M(i)) = v
    BY <1>3, <2>3, <2>4, MeanOfEquals
  <2> QED
    BY <1>4, <2>1, <2>5, <2>6 DEF ShadeOf, Blend
<1> HIDE DEF A, M
<1> QED
  BY <1>1, <1>2, <1>4, <1>7, <1>9, <1>10, <1>11

(* What becomes of a cell, by the pixels it stands for.                    *)
Keeps(cells, p, px, total, opaque) ==
    /\ p \in DOMAIN cells <=> 255 * opaque >= 26 * total
    /\ Cardinality(px) = 1 /\ px # {ClearPixel} => cells[p] \in px

PixelsOf(img, w, h, p) == {img.pixels[q] : q \in Box(img, w, h, p)}
OpaqueOf(img, w, h, p) == Cardinality({q \in Box(img, w, h, p) : img.pixels[q] # ClearPixel})

(* The mean alpha reaches 26 as often as enough of the pixels are opaque.  *)
LEMMA AlphaCounts ==
  ASSUME NEW img, NEW w, NEW h, Fits(img, w, h), NEW p \in FillRect(0, 0, w, h)
  PROVE  AlphaOf(img, w, h, p) >= 26 <=> 255 * OpaqueOf(img, w, h, p) >= 26 * Cardinality(Box(img, w, h, p))
<1>1. PICK B : B = Box(img, w, h, p)
  OBVIOUS
<1>2. PICK px : px = img.pixels
  OBVIOUS
<1>3. IsFiniteSet(B) /\ B # {}
  BY <1>1, BoxIs
<1>4. PICK n \in Nat : n = Cardinality(B) /\ n > 0
  <2>1. Cardinality(B) \in Nat /\ Cardinality(B) # 0
    BY <1>3, FS_CardinalityType, FS_EmptySet
  <2> QED
    BY <2>1
<1> DEFINE T == {q \in B : px[q] # ClearPixel}
           A == [q \in B |-> Alpha(px[q])]
<1>5. A \in [B -> Int] /\ \A q \in B : A[q] = IF q \in T THEN 255 ELSE 0
  BY DEF Alpha
<1>6. PICK k \in Nat : k = Cardinality(T)
  BY <1>3, FS_Subset, FS_CardinalityType
<1>7. B \cap T = T /\ DOMAIN A = B
  OBVIOUS
<1>8. OpaqueOf(img, w, h, p) = k /\ AlphaOf(img, w, h, p) = Mean(A)
  BY <1>1, <1>2, <1>6 DEF OpaqueOf, AlphaOf
<1> HIDE DEF T, A
<1>9. FoldFunction(+, 0, A) = 255 * k
  <2>1. PICK c \in Int : c = 255
    OBVIOUS
  <2>2. \A q \in B : A[q] = IF q \in T THEN c ELSE 0
    BY <1>5, <2>1
  <2>3. FoldFunction(+, 0, A) = c * Cardinality(B \cap T)
    BY <1>3, <1>5, <2>2, SumOfChosen
  <2> QED
    BY <1>6, <1>7, <2>1, <2>3
<1>10. Mean(A) = FoldFunction(+, 0, A) \div n
  BY <1>4, <1>7 DEF Mean
<1>11. PICK sum \in Int : sum = 255 * k /\ Mean(A) = sum \div n
  <2>1. 255 * k \in Int
    BY SMTT(40)
  <2>2. Mean(A) = (255 * k) \div n
    BY <1>9, <1>10, Zenon
  <2> QED
    BY <2>1, <2>2, Zenon
<1>12. /\ n * 26 <= sum => 26 <= sum \div n
       /\ sum < n * 26 => sum \div n < 26
       /\ sum \div n \in Int
  BY <1>4, DivBounds, DivIs
<1>13. sum \div n >= 26 <=> sum >= 26 * n
  BY SMTT(40), <1>12
<1> QED
  BY <1>1, <1>4, <1>8, <1>11, <1>13

(* A cell keeps the colour of its pixels, or is left out as they are.      *)
LEMMA CellKeeps ==
  ASSUME NEW img, NEW w, NEW h, Fits(img, w, h), NEW p \in FillRect(0, 0, w, h)
  PROVE  Keeps([x \in Inked(img, w, h) |-> ColourOf(img, w, h, x)], p, PixelsOf(img, w, h, p),
               Cardinality(Box(img, w, h, p)), OpaqueOf(img, w, h, p))
<1>1. PICK B : B = Box(img, w, h, p)
  OBVIOUS
<1>2. PICK f : f = img.pixels
  OBVIOUS
<1>3. IsFiniteSet(B) /\ B # {} /\ \A q \in B : f[q] \in -1..15
  BY <1>1, <1>2, BoxIs
<1>4. PICK px : px = {f[q] : q \in B}
  OBVIOUS
<1>5. px = PixelsOf(img, w, h, p)
  BY <1>1, <1>2, <1>4 DEF PixelsOf
<1>6. PICK cells : cells = [x \in Inked(img, w, h) |-> ColourOf(img, w, h, x)]
  OBVIOUS
<1>7. p \in DOMAIN cells <=> AlphaOf(img, w, h, p) >= 26
  BY <1>1, <1>3, <1>6 DEF Inked
<1>8. p \in DOMAIN cells <=> 255 * OpaqueOf(img, w, h, p) >= 26 * Cardinality(B)
  BY <1>1, <1>7, AlphaCounts
<1>9. ASSUME Cardinality(px) = 1, px # {ClearPixel} PROVE cells[p] \in px
  <2>1. IsFiniteSet(px)
    BY <1>3, <1>4, ImageIsFinite
  <2>2. PICK c : px = {c}
    BY <1>9, <2>1, FS_Singleton
  <2>3. \A q \in B : f[q] = c
    BY <1>4, <2>2
  <2>4. c \in 0..15
    <3>1. c \in -1..15 /\ c # -1
      BY <1>3, <1>9, <2>2, <2>3 DEF ClearPixel
    <3> QED
      BY <3>1
  <2>5. AlphaOf(img, w, h, p) = 255
    <3>1. \A q \in B : f[q] # -1
      BY <2>3, <2>4
    <3> QED
      BY <1>1, <1>2, <3>1, ShadesAre
  <2>6. \A i \in 1..3 : ShadeOf(img, w, h, p, i) = RGB(c)[i]
    BY <1>1, <1>2, <2>3, <2>4, ShadesAre
  <2>7. PICK u : u = <<ShadeOf(img, w, h, p, 1), ShadeOf(img, w, h, p, 2), ShadeOf(img, w, h, p, 3)>>
    OBVIOUS
  <2>8. u[1] = RGB(c)[1] /\ u[2] = RGB(c)[2] /\ u[3] = RGB(c)[3]
    BY <2>6, <2>7
  <2>9. u[1] \in Int /\ u[2] \in Int /\ u[3] \in Int
    <3>1. RGB(c)[1] \in 0..255 /\ RGB(c)[2] \in 0..255 /\ RGB(c)[3] \in 0..255
      BY SMTT(40), <2>4, RGBIs
    <3> QED
      BY SMTT(40), <2>8, <3>1
  <2>10. NearestColor(u) = c
    BY SMTT(40), <2>4, <2>8, <2>9, NearestIs
  <2>11. p \in Inked(img, w, h)
    BY <1>1, <1>3, <2>5 DEF Inked
  <2>12. cells[p] = NearestColor(u)
    BY <1>6, <2>7, <2>11 DEF ColourOf
  <2> QED
    BY <2>2, <2>10, <2>12
<1> QED
  BY <1>1, <1>5, <1>6, <1>8, <1>9 DEF Keeps

(* Each pixel counts in exactly one cell.                                  *)
LEMMA PixelCounts ==
  ASSUME NEW img, NEW w, NEW h, Fits(img, w, h), NEW q \in FillRect(0, 0, img.w, img.h)
  PROVE  Cardinality({p \in FillRect(0, 0, w, h) : q \in Box(img, w, h, p)}) = 1
<1>1. PICK n \in Nat, m \in Nat : n = img.w /\ m = img.h
  BY DEF Fits
<1>2. w \in 1..n /\ h \in 1..m /\ w \in Int /\ h \in Int
  BY <1>1 DEF Fits
<1>3. PICK x \in 0..n - 1, y \in 0..m - 1 : q = <<x, y>>
  <2>1. q[1] \in 0..n - 1 /\ q[2] \in 0..m - 1 /\ q = <<q[1], q[2]>>
    BY <1>1 DEF FillRect
  <2> QED
    BY <2>1
<1>4. PICK i \in 0..w - 1 : x \in Span(i, n, w) /\ \A k \in 0..w - 1 : x \in Span(k, n, w) => k = i
  <2>1. PICK i \in 0..w - 1 : x \in Span(i, n, w)
    BY <1>2, SpanOf
  <2>2. \A k \in 0..w - 1 : x \in Span(k, n, w) => k = i
    BY <1>2, <2>1, SpanOf
  <2> QED
    BY <2>1, <2>2
<1>5. PICK j \in 0..h - 1 : y \in Span(j, m, h) /\ \A k \in 0..h - 1 : y \in Span(k, m, h) => k = j
  <2>1. PICK j \in 0..h - 1 : y \in Span(j, m, h)
    BY <1>2, SpanOf
  <2>2. \A k \in 0..h - 1 : y \in Span(k, m, h) => k = j
    BY <1>2, <2>1, SpanOf
  <2> QED
    BY <2>1, <2>2
<1>6. \A p \in FillRect(0, 0, w, h) : p[1] \in 0..w - 1 /\ p[2] \in 0..h - 1 /\ p = <<p[1], p[2]>>
  BY <1>2 DEF FillRect
<1>7. \A p : q \in Box(img, w, h, p) <=> x \in Span(p[1], n, w) /\ y \in Span(p[2], m, h)
  BY <1>1, <1>3 DEF Box
<1>8. <<i, j>> \in FillRect(0, 0, w, h)
  BY <1>2 DEF FillRect
<1>9. {p \in FillRect(0, 0, w, h) : q \in Box(img, w, h, p)} = {<<i, j>>}
  <2>1. ASSUME NEW p \in FillRect(0, 0, w, h), q \in Box(img, w, h, p) PROVE p = <<i, j>>
    BY <1>4, <1>5, <1>6, <1>7, <2>1
  <2>2. q \in Box(img, w, h, <<i, j>>)
    BY <1>4, <1>5, <1>7
  <2> QED
    BY <1>8, <2>1, <2>2
<1> QED
  BY <1>9, FS_Singleton

WholeImage(bp, img, target) ==
    LET w == bp.w
        h == bp.h
        cells == FillRect(0, 0, w, h)
    IN  /\ w <= target[1] /\ h <= target[2]
        /\ \A q \in FillRect(0, 0, img.w, img.h) : Cardinality({p \in cells : q \in Box(img, w, h, p)}) = 1
        /\ \A p \in cells : Keeps(bp.cells, p, PixelsOf(img, w, h, p), Cardinality(Box(img, w, h, p)), OpaqueOf(img, w, h, p))

(* The blueprint of an image is what ImageIsWhole asks for.                *)
LEMMA ImageIsFaithful ==
  ASSUME NEW img, IsImage(img), img.w # 0, img.h # 0,
         NEW target, target[1] \in Nat \ {0}, target[2] \in Nat \ {0}
  PROVE  LET loaded == ImageToBlueprint(img, target[1], target[2]) IN
         loaded.ok /\ IsBlueprint(loaded.bp) /\ WholeImage(loaded.bp, img, target)
<1>1. PICK n \in Nat, m \in Nat : n = img.w /\ m = img.h /\ n > 0 /\ m > 0
  BY DEF IsImage
<1>2. PICK maxW \in Nat, maxH \in Nat : maxW = target[1] /\ maxH = target[2] /\ maxW > 0 /\ maxH > 0
  OBVIOUS
<1>3. PICK size : size = FitScale(n, m, maxW, maxH)
  OBVIOUS
<1>4. size[1] \in 1..maxW /\ size[1] <= n /\ size[2] \in 1..maxH /\ size[2] <= m
  BY <1>1, <1>2, <1>3, FitScaleIs
<1>5. PICK w \in Nat, h \in Nat : w = size[1] /\ h = size[2] /\ w \in 1..n /\ h \in 1..m /\ w <= maxW /\ h <= maxH
  BY <1>4
<1>6. PICK bp : bp = Scaled(img, w, h)
  OBVIOUS
<1>7. ImageToBlueprint(img, maxW, maxH) = Ok(bp)
  BY <1>1, <1>3, <1>5, <1>6, ImageIs
<1>8. Fits(img, w, h)
  <2>1. PaletteIndices \cup {ClearPixel} \subseteq -1..15
    BY CodecSizes DEF ClearPixel
  <2>2. \A q \in FillRect(0, 0, img.w, img.h) : img.pixels[q] \in -1..15
    BY <2>1 DEF IsImage
  <2>3. img.pixels \in [FillRect(0, 0, img.w, img.h) -> -1..15]
    BY <2>2 DEF IsImage
  <2> QED
    BY <1>1, <1>5, <2>3 DEF Fits
<1>9. PICK cells : cells = [p \in Inked(img, w, h) |-> ColourOf(img, w, h, p)]
  OBVIOUS
<1>10. bp = [w |-> w, h |-> h, cells |-> cells] /\ bp.w = w /\ bp.h = h /\ bp.cells = cells
  BY <1>6, <1>9 DEF Scaled
<1>11. DOMAIN cells \subseteq FillRect(0, 0, w, h) /\ FillRect(0, 0, w, h) = Whole(w, h)
  BY <1>9 DEF Inked, FillRect, Whole
<1>12. \A p \in DOMAIN cells : cells[p] \in 0..15
  <2> SUFFICES ASSUME NEW p \in DOMAIN cells PROVE cells[p] \in 0..15
    OBVIOUS
  <2>1. \A i \in 1..3 : ShadeOf(img, w, h, p, i) \in Int
    BY <1>8, <1>11, ShadesAre
  <2>2. PICK u : u = <<ShadeOf(img, w, h, p, 1), ShadeOf(img, w, h, p, 2), ShadeOf(img, w, h, p, 3)>>
    OBVIOUS
  <2>3. u[1] \in Int /\ u[2] \in Int /\ u[3] \in Int
    BY <2>1, <2>2
  <2>4. cells[p] = NearestColor(u)
    BY <1>9, <2>2 DEF ColourOf
  <2> QED
    BY <2>3, <2>4, NearestIs
<1>13. cells \in Paints
  <2>1. DOMAIN cells \in SUBSET (Int \X Int)
    BY <1>11 DEF Whole
  <2>2. cells \in [DOMAIN cells -> 0..15]
    BY <1>9, <1>12
  <2> QED
    BY <2>1, <2>2 DEF Paints
<1>14. IsFiniteSet(DOMAIN cells)
  <2>1. 0 \in Int /\ w \in Int /\ h \in Int
    OBVIOUS
  <2>2. IsFiniteSet(FillRect(0, 0, w, h))
    BY <2>1, RectIsFinite
  <2> QED
    BY <1>11, <2>2, FS_Subset
<1>15. IsBlueprint(bp)
  BY <1>5, <1>10, <1>11, <1>13, <1>14 DEF IsBlueprint
<1>16. WholeImage(bp, img, target)
  <2>1. \A q \in FillRect(0, 0, img.w, img.h) : Cardinality({p \in FillRect(0, 0, w, h) : q \in Box(img, w, h, p)}) = 1
    BY <1>8, PixelCounts
  <2>2. \A p \in FillRect(0, 0, w, h) : Keeps(cells, p, PixelsOf(img, w, h, p), Cardinality(Box(img, w, h, p)), OpaqueOf(img, w, h, p))
    BY <1>8, <1>9, CellKeeps
  <2>3. bp.w <= target[1] /\ bp.h <= target[2]
    BY <1>2, <1>5, <1>10
  <2> QED
    BY <1>10, <2>1, <2>2, <2>3 DEF WholeImage
<1>17. ImageToBlueprint(img, target[1], target[2]).ok /\ ImageToBlueprint(img, target[1], target[2]).bp = bp
  BY <1>2, <1>7 DEF Ok
<1> QED
  BY <1>15, <1>16, <1>17

(***************************************************************************)
(* Text art.                                                               *)
(***************************************************************************)
Width(rows) == Max({0} \cup {Len(rows[k]) : k \in 1..Len(rows)})

(* The width of a text is its longest row's.                               *)
LEMMA WidthIs ==
  ASSUME NEW rows, Len(rows) \in Nat, \A k \in 1..Len(rows) : Len(rows[k]) \in Nat
  PROVE  /\ Width(rows) \in Nat
         /\ \A k \in 1..Len(rows) : Len(rows[k]) <= Width(rows)
         /\ Width(rows) = 0 \/ \E k \in 1..Len(rows) : Width(rows) = Len(rows[k])
<1>1. PICK n \in Nat : n = Len(rows)
  OBVIOUS
<1> DEFINE f == [k \in 1..n |-> Len(rows[k])]
           S == {0} \cup {f[k] : k \in 1..n}
<1>2. S = {0} \cup {Len(rows[k]) : k \in 1..Len(rows)}
  BY <1>1
<1>3. \A k \in 1..n : f[k] \in Nat
  BY <1>1
<1>4. IsFiniteSet(S)
  <2>1. IsFiniteSet(1..n)
    BY FS_Interval
  <2>2. IsFiniteSet({0})
    BY FS_Singleton
  <2> HIDE DEF f
  <2>3. IsFiniteSet({f[k] : k \in 1..n})
    BY <2>1, ImageIsFinite
  <2> QED
    BY <2>2, <2>3, FS_Union
<1>5. S \in SUBSET Int /\ S # {}
  BY <1>3
<1>6. PICK w : w = Max(S)
  OBVIOUS
<1>7. w \in S /\ \A y \in S : y <= w
  <2> HIDE DEF S
  <2> QED
    BY <1>4, <1>5, <1>6, MaxIs
<1>8. w = Width(rows)
  BY <1>2, <1>6 DEF Width
<1>9. w \in Nat /\ \A k \in 1..n : f[k] <= w
  BY <1>3, <1>7
<1>10. w = 0 \/ \E k \in 1..n : w = f[k]
  BY <1>7
<1> QED
  BY <1>1, <1>8, <1>9, <1>10

Char(rows, p) == rows[p[2] + 1][p[1] + 1]
InkOf(rows) == {p \in ArtCells(rows) : Char(rows, p) # 0}
Reads(legend, rows) ==
    [w |-> Width(rows), h |-> Len(rows), cells |-> [p \in InkOf(rows) |-> NearestColor(legend[Char(rows, p)])]]

(* What a text art parses to.                                              *)
LEMMA TextArtIs ==
  ASSUME NEW legend, NEW rows
  PROVE  /\ (\E p \in InkOf(rows) : Char(rows, p) \notin DOMAIN legend) => ParseTextArt(legend, rows) = Error
         /\ (\A p \in InkOf(rows) : Char(rows, p) \in DOMAIN legend) => ParseTextArt(legend, rows) = Ok(Reads(legend, rows))
<1>1. ParseTextArt(legend, rows) =
        IF \E p \in InkOf(rows) : Char(rows, p) \notin DOMAIN legend THEN Error ELSE Ok(Reads(legend, rows))
  BY DEF ParseTextArt, InkOf, Char, Reads, Width
<1> QED
  BY <1>1

(* The cells of a text are its rows' characters.                           *)
LEMMA InArt ==
  ASSUME NEW rows, Len(rows) \in Nat, \A k \in 1..Len(rows) : Len(rows[k]) \in Nat, NEW p
  PROVE  p \in ArtCells(rows) <=>
            /\ p = <<p[1], p[2]>> /\ p[1] \in Nat /\ p[2] \in Nat /\ p[2] + 1 \in 1..Len(rows)
            /\ p[1] + 1 \in 1..Len(rows[p[2] + 1])
<1>1. ASSUME p \in ArtCells(rows)
      PROVE  /\ p = <<p[1], p[2]>> /\ p[1] \in Nat /\ p[2] \in Nat /\ p[2] + 1 \in 1..Len(rows)
             /\ p[1] + 1 \in 1..Len(rows[p[2] + 1])
  <2>1. PICK j \in 1..Len(rows) : p \in {<<i - 1, j - 1>> : i \in 1..Len(rows[j])}
    BY <1>1 DEF ArtCells
  <2>2. PICK i \in 1..Len(rows[j]) : p = <<i - 1, j - 1>>
    BY <2>1
  <2>3. p[1] = i - 1 /\ p[2] = j - 1 /\ p = <<p[1], p[2]>>
    BY <2>2
  <2>4. p[2] + 1 = j /\ p[1] + 1 = i /\ p[1] \in Nat /\ p[2] \in Nat
    BY <2>3
  <2> QED
    BY SMTT(40), <2>3, <2>4
<1>2. ASSUME p = <<p[1], p[2]>>, p[1] \in Nat, p[2] \in Nat, p[2] + 1 \in 1..Len(rows), p[1] + 1 \in 1..Len(rows[p[2] + 1])
      PROVE  p \in ArtCells(rows)
  <2>1. PICK i, j : i = p[1] + 1 /\ j = p[2] + 1
    OBVIOUS
  <2>2. j \in 1..Len(rows) /\ i \in 1..Len(rows[j]) /\ p = <<i - 1, j - 1>>
    BY SMTT(40), <1>2, <2>1
  <2>3. p \in {<<k - 1, j - 1>> : k \in 1..Len(rows[j])}
    BY <2>2
  <2> QED
    BY SMTT(40), <2>2, <2>3 DEF ArtCells
<1> QED
  BY <1>1, <1>2

(* A text has a length, and so has each of its rows.                       *)
LEMMA RowsAre ==
  ASSUME NEW rows \in Seq(Seq(Nat))
  PROVE  /\ Len(rows) \in Nat
         /\ \A k \in 1..Len(rows) : Len(rows[k]) \in Nat
<1>1. Len(rows) \in Nat
  BY LenProperties
<1>2. ASSUME NEW k \in 1..Len(rows) PROVE Len(rows[k]) \in Nat
  <2>1. rows[k] \in Seq(Nat)
    BY ElementOfSeq
  <2> QED
    BY <2>1, LenProperties
<1> QED
  BY <1>1, <1>2

(* A text art that parses makes a blueprint.                               *)
LEMMA TextArtIsBlueprint ==
  ASSUME NEW legend, \A ch \in DOMAIN legend : legend[ch] \in Colors24, NEW rows \in Seq(Seq(Nat)),
         ParseTextArt(legend, rows).ok
  PROVE  IsBlueprint(ParseTextArt(legend, rows).bp)
<1>1. Len(rows) \in Nat /\ \A k \in 1..Len(rows) : Len(rows[k]) \in Nat
  BY RowsAre
<1>2. PICK n \in Nat : n = Len(rows)
  BY <1>1
<1>3. ~Error.ok
  BY DEF Error
<1>4. \A p \in InkOf(rows) : Char(rows, p) \in DOMAIN legend
  BY <1>3, TextArtIs
<1>5. PICK bp : bp = Reads(legend, rows)
  OBVIOUS
<1>6. ParseTextArt(legend, rows).bp = bp
  BY <1>4, <1>5, TextArtIs DEF Ok
<1>7. PICK w \in Nat : w = Width(rows) /\ \A k \in 1..n : Len(rows[k]) <= w
  BY <1>1, <1>2, WidthIs
<1>8. PICK cells : cells = [p \in InkOf(rows) |-> NearestColor(legend[Char(rows, p)])]
  OBVIOUS
<1>9. bp = [w |-> w, h |-> n, cells |-> cells] /\ bp.w = w /\ bp.h = n /\ bp.cells = cells
  BY <1>2, <1>5, <1>7, <1>8 DEF Reads
<1>10. DOMAIN cells \subseteq Whole(w, n)
  <2> SUFFICES ASSUME NEW p \in DOMAIN cells PROVE p \in Whole(w, n)
    OBVIOUS
  <2>1. p \in ArtCells(rows)
    BY <1>8 DEF InkOf
  <2>2. p = <<p[1], p[2]>> /\ p[1] \in Nat /\ p[2] \in Nat /\ p[2] + 1 \in 1..n /\ p[1] + 1 \in 1..Len(rows[p[2] + 1])
    BY <1>1, <1>2, <2>1, InArt
  <2>3. p[1] + 1 <= w
    BY SMTT(40), <1>1, <1>2, <1>7, <2>2
  <2>4. p[1] \in 0..w - 1 /\ p[2] \in 0..n - 1
    BY SMTT(40), <2>2, <2>3
  <2> QED
    BY <2>2, <2>4 DEF Whole
<1>11. \A p \in DOMAIN cells : cells[p] \in 0..15
  <2> SUFFICES ASSUME NEW p \in DOMAIN cells PROVE cells[p] \in 0..15
    OBVIOUS
  <2>1. Char(rows, p) \in DOMAIN legend
    BY <1>4, <1>8
  <2>2. PICK u \in Colors24 : u = legend[Char(rows, p)]
    BY <2>1
  <2>3. u[1] \in 0..255 /\ u[2] \in 0..255 /\ u[3] \in 0..255
    BY DEF Colors24
  <2>6. 0..255 \subseteq Int
    OBVIOUS
  <2>5. u[1] \in Int /\ u[2] \in Int /\ u[3] \in Int
    BY <2>3, <2>6, Zenon
  <2>4. cells[p] = NearestColor(u)
    BY <1>8, <2>2
  <2> QED
    BY <2>4, <2>5, NearestIs
<1>12. cells \in Paints
  <2>1. DOMAIN cells \in SUBSET (Int \X Int)
    BY <1>10 DEF Whole
  <2>2. cells \in [DOMAIN cells -> 0..15]
    BY <1>8, <1>11
  <2> QED
    BY <2>1, <2>2 DEF Paints
<1>13. IsFiniteSet(DOMAIN cells)
  <2>1. IsFiniteSet(Whole(w, n))
    <3>1. 0 \in Int /\ w - 1 \in Int /\ n - 1 \in Int
      OBVIOUS
    <3>2. IsFiniteSet(0..w - 1) /\ IsFiniteSet(0..n - 1)
      BY <3>1, FS_Interval
    <3> QED
      BY <3>2, FS_Product DEF Whole
  <2> QED
    BY <1>10, <2>1, FS_Subset
<1>14. n = 0 => w = 0
  <2> SUFFICES ASSUME n = 0 PROVE w = 0
    OBVIOUS
  <2>1. Width(rows) = 0 \/ \E k \in 1..Len(rows) : Width(rows) = Len(rows[k])
    BY <1>1, WidthIs
  <2>2. ~ \E k \in 1..Len(rows) : TRUE
    BY <1>2
  <2> QED
    BY <1>7, <2>1, <2>2
<1>15. IsBlueprint(bp)
  BY <1>9, <1>10, <1>12, <1>13, <1>14 DEF IsBlueprint
<1> QED
  BY <1>6, <1>15

(* The characters of a text art: colours by number of uses, then index.    *)
UsesOf(bp, c) == Cardinality({p \in DOMAIN bp.cells : bp.cells[p] = c})
Ahead(n, d, c) == n[d] > n[c] \/ (n[d] = n[c] /\ d < c)
Rank(n, S, c) == 1 + Cardinality({d \in S : Ahead(n, d, c)})

(* Colours of different rank are different, and every colour has one.      *)
LEMMA RanksDiffer ==
  ASSUME NEW S, S \subseteq 0..15, IsFiniteSet(S), NEW n, \A c \in S : n[c] \in Nat
  PROVE  /\ \A c \in S : Rank(n, S, c) \in Nat /\ Rank(n, S, c) # 0
         /\ \A c, d \in S : Rank(n, S, c) = Rank(n, S, d) => c = d
<1> DEFINE T(c) == {d \in S : Ahead(n, d, c)}
<1>1. \A c : IsFiniteSet(T(c)) /\ Cardinality(T(c)) \in Nat
  BY FS_Subset, FS_CardinalityType
<1>2. ASSUME NEW c \in S, NEW d \in S, Ahead(n, c, d) PROVE Rank(n, S, c) # Rank(n, S, d)
  <2>1. T(c) \subseteq T(d)
    <3> SUFFICES ASSUME NEW e \in S, Ahead(n, e, c) PROVE Ahead(n, e, d)
      OBVIOUS
    <3>1. c \in Int /\ d \in Int /\ e \in Int
      OBVIOUS
    <3>2. n[c] \in Nat /\ n[d] \in Nat /\ n[e] \in Nat
      OBVIOUS
    <3> QED
      BY <1>2, <3>1, <3>2 DEF Ahead
  <2>2. c \in T(d)
    BY <1>2
  <2>3. c \notin T(c)
    <3>1. c \in Int /\ n[c] \in Nat
      OBVIOUS
    <3> QED
      BY <3>1 DEF Ahead
  <2> HIDE DEF T
  <2>4. T(c) # T(d)
    BY <2>2, <2>3
  <2>5. Cardinality(T(c)) # Cardinality(T(d))
    BY <1>1, <2>1, <2>4, FS_Subset
  <2>6. Cardinality(T(c)) \in Nat /\ Cardinality(T(d)) \in Nat
    BY <1>1
  <2> QED
    BY <2>5, <2>6 DEF Rank, T
<1>3. ASSUME NEW c \in S, NEW d \in S, c # d PROVE Ahead(n, c, d) \/ Ahead(n, d, c)
  <2>1. c \in Int /\ d \in Int /\ n[c] \in Nat /\ n[d] \in Nat
    OBVIOUS
  <2> QED
    BY <1>3, <2>1 DEF Ahead
<1>4. \A c, d \in S : Rank(n, S, c) = Rank(n, S, d) => c = d
  BY <1>2, <1>3
<1>5. ASSUME NEW c \in S PROVE Rank(n, S, c) \in Nat /\ Rank(n, S, c) # 0
  <2>1. PICK k \in Nat : k = Cardinality(T(c))
    BY <1>1
  <2> QED
    BY <2>1 DEF Rank
<1> QED
  BY <1>4, <1>5

Used(bp) == {bp.cells[p] : p \in DOMAIN bp.cells}
CharOf(bp, c) == 1 + Cardinality({d \in Used(bp) : UsesOf(bp, d) > UsesOf(bp, c) \/ (UsesOf(bp, d) = UsesOf(bp, c) /\ d < c)})
LegendOf(bp) == [ch \in {CharOf(bp, c) : c \in Used(bp)} |-> RGB(CHOOSE c \in Used(bp) : CharOf(bp, c) = ch)]
CellChar(bp, p) == IF p \in DOMAIN bp.cells THEN CharOf(bp, bp.cells[p]) ELSE 0
RowsOf(bp) == [y \in 1..bp.h |-> [x \in 1..bp.w |-> CellChar(bp, <<x - 1, y - 1>>)]]

(* What FormatTextArt prints.                                              *)
LEMMA FormatIs == ASSUME NEW bp PROVE FormatTextArt(bp) = [legend |-> LegendOf(bp), rows |-> RowsOf(bp)]
  BY DEF FormatTextArt, LegendOf, RowsOf, CellChar, CharOf, Used, UsesOf

(* A colour's character is its own.                                        *)
LEMMA CharsAre ==
  ASSUME NEW bp, IsBlueprint(bp)
  PROVE  /\ Used(bp) \subseteq 0..15
         /\ \A c \in Used(bp) : CharOf(bp, c) \in Nat /\ CharOf(bp, c) # 0
         /\ \A c, d \in Used(bp) : CharOf(bp, c) = CharOf(bp, d) => c = d
<1>1. IsFiniteSet(DOMAIN bp.cells) /\ \A p \in DOMAIN bp.cells : bp.cells[p] \in 0..15
  BY InPaints DEF IsBlueprint
<1>2. PICK S : S = Used(bp)
  OBVIOUS
<1>3. S \subseteq 0..15
  BY <1>1, <1>2 DEF Used
<1>4. IsFiniteSet(S)
  <2>1. PICK f, D : f = bp.cells /\ D = DOMAIN bp.cells
    OBVIOUS
  <2>2. IsFiniteSet({f[p] : p \in D})
    BY <1>1, <2>1, ImageIsFinite
  <2> QED
    BY <1>2, <2>1, <2>2 DEF Used
<1> DEFINE n == [c \in S |-> UsesOf(bp, c)]
<1>5. \A c \in S : n[c] \in Nat
  <2> SUFFICES ASSUME NEW c \in S PROVE UsesOf(bp, c) \in Nat
    OBVIOUS
  <2>1. IsFiniteSet({p \in DOMAIN bp.cells : bp.cells[p] = c})
    BY <1>1, FS_Subset
  <2> QED
    BY <2>1, FS_CardinalityType DEF UsesOf
<1>6. \A c \in S : CharOf(bp, c) = Rank(n, S, c)
  BY <1>2 DEF CharOf, Rank, Ahead
<1> HIDE DEF n
<1>7. /\ \A c \in S : Rank(n, S, c) \in Nat /\ Rank(n, S, c) # 0
      /\ \A c, d \in S : Rank(n, S, c) = Rank(n, S, d) => c = d
  BY <1>3, <1>4, <1>5, RanksDiffer
<1> QED
  BY <1>2, <1>3, <1>6, <1>7

(* The legend gives a character's colour back.                             *)
LEMMA LegendIs ==
  ASSUME NEW bp, IsBlueprint(bp), NEW c \in Used(bp)
  PROVE  CharOf(bp, c) \in DOMAIN LegendOf(bp) /\ LegendOf(bp)[CharOf(bp, c)] = RGB(c)
<1>1. \A d \in Used(bp) : CharOf(bp, d) = CharOf(bp, c) => d = c
  BY CharsAre
<1>2. (CHOOSE d \in Used(bp) : CharOf(bp, d) = CharOf(bp, c)) = c
  BY <1>1
<1>3. CharOf(bp, c) \in {CharOf(bp, d) : d \in Used(bp)}
  OBVIOUS
<1> QED
  BY <1>2, <1>3 DEF LegendOf

(* A function on 1..n is a sequence of length n.                           *)
LEMMA LenOfFunction ==
  ASSUME NEW S, NEW n \in Nat, NEW f \in [1..n -> S]
  PROVE  f \in Seq(S) /\ Len(f) = n
<1>1. f \in Seq(S)
  BY SeqDef
<1>2. DOMAIN f = 1..Len(f) /\ Len(f) \in Nat /\ DOMAIN f = 1..n
  BY <1>1, LenProperties
<1>3. PICK m \in Nat : m = Len(f) /\ 1..m = 1..n
  BY <1>2
<1>4. m = n
  <2>1. ~(m < n)
    <3> SUFFICES ASSUME m < n PROVE FALSE
      OBVIOUS
    <3>1. n \in 1..n /\ n \notin 1..m
      OBVIOUS
    <3> QED
      BY <1>3, <3>1
  <2>2. ~(n < m)
    <3> SUFFICES ASSUME n < m PROVE FALSE
      OBVIOUS
    <3>1. m \in 1..m /\ m \notin 1..n
      OBVIOUS
    <3> QED
      BY <1>3, <3>1
  <2> QED
    BY <2>1, <2>2
<1> QED
  BY <1>1, <1>3, <1>4

(* The character of a cell, and 0 where it has no placement.               *)
LEMMA CellCharIs ==
  ASSUME NEW bp, IsBlueprint(bp), NEW p
  PROVE  CellChar(bp, p) \in Nat /\ (CellChar(bp, p) # 0 <=> p \in DOMAIN bp.cells)
<1>1. p \in DOMAIN bp.cells => bp.cells[p] \in Used(bp)
  BY DEF Used
<1>2. p \in DOMAIN bp.cells => CharOf(bp, bp.cells[p]) \in Nat /\ CharOf(bp, bp.cells[p]) # 0
  BY <1>1, CharsAre
<1> QED
  BY <1>2 DEF CellChar

(* The rows have the blueprint's height and width.                         *)
LEMMA RowsOfAre ==
  ASSUME NEW bp, IsBlueprint(bp)
  PROVE  /\ RowsOf(bp) \in Seq(Seq(Nat)) /\ Len(RowsOf(bp)) = bp.h
         /\ \A y \in 1..bp.h : Len(RowsOf(bp)[y]) = bp.w
         /\ \A y \in 1..bp.h, x \in 1..bp.w : RowsOf(bp)[y][x] = CellChar(bp, <<x - 1, y - 1>>)
<1>1. PICK w \in Nat, h \in Nat : w = bp.w /\ h = bp.h
  BY DEF IsBlueprint
<1> DEFINE row == [y \in 1..h |-> [x \in 1..w |-> CellChar(bp, <<x - 1, y - 1>>)]]
<1>2. ASSUME NEW y \in 1..h
      PROVE  row[y] \in [1..w -> Nat] /\ \A x \in 1..w : row[y][x] = CellChar(bp, <<x - 1, y - 1>>)
  BY CellCharIs
<1>3. RowsOf(bp) = row
  BY <1>1 DEF RowsOf
<1>4. row = [y \in 1..h |-> row[y]]
  OBVIOUS
<1> HIDE DEF row
<1>5. ASSUME NEW y \in 1..h PROVE row[y] \in Seq(Nat) /\ Len(row[y]) = w
  BY <1>2, LenOfFunction
<1>6. row \in [1..h -> Seq(Nat)]
  BY <1>4, <1>5
<1>7. row \in Seq(Seq(Nat)) /\ Len(row) = h
  BY <1>6, LenOfFunction
<1> QED
  BY <1>1, <1>2, <1>3, <1>5, <1>7

(* The text that any blueprint is printed as reads back as the blueprint,  *)
(* colours, size and all (FormatTextArt, ParseTextArt in blueprint.go).    *)
THEOREM ReadsBack ==
  ASSUME NEW bp, IsBlueprint(bp)
  PROVE  ParseTextArt(FormatTextArt(bp).legend, FormatTextArt(bp).rows) = Ok(bp)
<1>1. PICK legend, rows : legend = LegendOf(bp) /\ rows = RowsOf(bp)
  OBVIOUS
<1>2. PICK w, h, cells : w \in Nat /\ h \in Nat /\ w = bp.w /\ h = bp.h /\ cells = bp.cells
  BY DEF IsBlueprint
<1>3. bp = [w |-> w, h |-> h, cells |-> cells] /\ (h = 0 => w = 0) /\ DOMAIN cells \subseteq Whole(w, h)
  BY <1>2 DEF IsBlueprint
<1>4. Len(rows) = h /\ \A y \in 1..h : Len(rows[y]) = w
  BY <1>1, <1>2, RowsOfAre
<1>5. Len(rows) \in Nat /\ \A k \in 1..Len(rows) : Len(rows[k]) \in Nat
  BY <1>4
<1>6. ASSUME NEW p \in Whole(w, h) PROVE p \in ArtCells(rows) /\ Char(rows, p) = CellChar(bp, p)
  <2>1. PICK x \in 1..w, y \in 1..h : p = <<x - 1, y - 1>>
    <3>1. p[1] \in 0..w - 1 /\ p[2] \in 0..h - 1 /\ p = <<p[1], p[2]>>
      BY DEF Whole
    <3>2. PICK x, y : x = p[1] + 1 /\ y = p[2] + 1
      OBVIOUS
    <3>3. x \in 1..w /\ y \in 1..h /\ p = <<x - 1, y - 1>>
      BY <1>2, <3>1, <3>2
    <3> QED
      BY <3>3
  <2>2. p[1] = x - 1 /\ p[2] = y - 1 /\ p[1] + 1 = x /\ p[2] + 1 = y
    BY <2>1
  <2>3. p[1] \in Nat /\ p[2] \in Nat /\ p = <<p[1], p[2]>>
    BY <2>1, <2>2
  <2>4. p[2] + 1 \in 1..Len(rows) /\ p[1] + 1 \in 1..Len(rows[p[2] + 1])
    BY <1>4, <2>2
  <2>5. p \in ArtCells(rows)
    BY <1>5, <2>3, <2>4, InArt
  <2>6. rows[y][x] = CellChar(bp, <<x - 1, y - 1>>)
    BY <1>1, <1>2, RowsOfAre
  <2> QED
    BY <2>1, <2>2, <2>5, <2>6 DEF Char
<1>7. ASSUME NEW p \in ArtCells(rows) PROVE p \in Whole(w, h)
  <2>1. p = <<p[1], p[2]>> /\ p[1] \in Nat /\ p[2] \in Nat /\ p[2] + 1 \in 1..h /\ p[1] + 1 \in 1..Len(rows[p[2] + 1])
    BY <1>4, <1>5, InArt
  <2>2. p[1] \in 0..w - 1 /\ p[2] \in 0..h - 1
    BY SMTT(40), <1>4, <2>1
  <2> QED
    BY <2>1, <2>2 DEF Whole
<1>8. InkOf(rows) = DOMAIN cells
  <2>1. ASSUME NEW p \in InkOf(rows) PROVE p \in DOMAIN cells
    <3>1. p \in ArtCells(rows) /\ Char(rows, p) # 0
      BY DEF InkOf
    <3>2. CellChar(bp, p) # 0
      BY <1>6, <1>7, <3>1
    <3> QED
      BY <1>2, <3>2, CellCharIs
  <2>2. ASSUME NEW p \in DOMAIN cells PROVE p \in InkOf(rows)
    <3>1. p \in ArtCells(rows) /\ Char(rows, p) = CellChar(bp, p)
      BY <1>3, <1>6
    <3>2. CellChar(bp, p) # 0
      BY <1>2, CellCharIs
    <3> QED
      BY <3>1, <3>2 DEF InkOf
  <2> QED
    BY <2>1, <2>2
<1>9. ASSUME NEW p \in DOMAIN cells
      PROVE  Char(rows, p) \in DOMAIN legend /\ NearestColor(legend[Char(rows, p)]) = cells[p]
  <2>1. Char(rows, p) = CharOf(bp, cells[p])
    BY <1>2, <1>3, <1>6 DEF CellChar
  <2>2. cells[p] \in Used(bp)
    BY <1>2 DEF Used
  <2>3. Char(rows, p) \in DOMAIN legend /\ legend[Char(rows, p)] = RGB(cells[p])
    BY <1>1, <2>1, <2>2, LegendIs
  <2>4. cells[p] \in 0..15
    BY <2>2, CharsAre
  <2>5. PICK u : u = RGB(cells[p])
    BY SMTT(40)
  <2>6. u[1] \in 0..255 /\ u[2] \in 0..255 /\ u[3] \in 0..255
    BY SMTT(40), <2>4, <2>5, RGBIs
  <2>7. 0..255 \subseteq Int
    OBVIOUS
  <2>8. u[1] \in Int /\ u[2] \in Int /\ u[3] \in Int
    BY <2>6, <2>7, Zenon
  <2>9. NearestColor(u) = cells[p]
    BY <2>4, <2>5, <2>8, NearestIs
  <2> QED
    BY <2>3, <2>5, <2>9
<1>10. Width(rows) = w
  <2>1. PICK v \in Nat : v = Width(rows)
    BY <1>5, WidthIs
  <2>2. (\A k \in 1..h : w <= v) /\ (v = 0 \/ \E k \in 1..h : v = w)
    BY <1>4, <1>5, <2>1, WidthIs
  <2>3. CASE h = 0
    BY <1>3, <2>1, <2>2, <2>3
  <2>4. CASE h # 0
    <3>1. 1 \in 1..h
      BY <1>2, <2>4
    <3> QED
      BY <1>2, <2>1, <2>2, <3>1
  <2> QED
    BY <2>3, <2>4
<1>11. cells = [p \in DOMAIN cells |-> cells[p]]
  BY <1>2, InPaints DEF IsBlueprint
<1>12. [p \in InkOf(rows) |-> NearestColor(legend[Char(rows, p)])] = cells
  BY <1>8, <1>9, <1>11
<1>13. Reads(legend, rows) = bp
  BY <1>3, <1>4, <1>10, <1>12 DEF Reads
<1>14. \A p \in InkOf(rows) : Char(rows, p) \in DOMAIN legend
  BY <1>8, <1>9
<1>15. ParseTextArt(legend, rows) = Ok(bp)
  BY <1>13, <1>14, TextArtIs
<1> QED
  BY <1>1, <1>15, FormatIs

(***************************************************************************)
(* What is loaded.                                                         *)
(***************************************************************************)
(* The box that an image is scaled into has a size.                        *)
LEMMA TargetIs ==
  ASSUME NEW d, IsDrawing(d)
  PROVE  PaintTarget(d)[1] \in Nat \ {0} /\ PaintTarget(d)[2] \in Nat \ {0}
<1>1. CASE d.size = <<>>
  <2>1. d.grid \in (Uint32 \ {0}) \X (Uint32 \ {0}) /\ PaintTarget(d) = d.grid
    BY <1>1 DEF IsDrawing, PaintTarget
  <2>2. Uint32 \subseteq Nat
    BY CodecSizes DEF Uint32
  <2> QED
    BY <2>1, <2>2
<1>2. CASE d.size # <<>>
  <2>1. d.size \in (Uint32 \ {0}) \X (Uint32 \ {0}) /\ PaintTarget(d) = d.size
    BY <1>2 DEF IsDrawing, PaintTarget
  <2>2. Uint32 \subseteq Nat
    BY CodecSizes DEF Uint32
  <2> QED
    BY <2>1, <2>2
<1> QED
  BY <1>1, <1>2

(* What a file makes is a blueprint, an image's a faithful one.            *)
LEMMA FileIs ==
  ASSUME NEW d, IsDrawing(d), LoadFile(d).ok
  PROVE  /\ IsBlueprint(LoadFile(d).bp)
         /\ d.file = "none" => LoadFile(d).bp = Blank
         /\ d.file = ".png" => WholeImage(LoadFile(d).bp, d.image, PaintTarget(d))
<1>1. CASE d.file = "none"
  <2>1. LoadFile(d).bp = Blank
    BY <1>1 DEF LoadFile, Ok
  <2> QED
    BY <1>1, <2>1, BlankIsBlueprint
<1>2. CASE d.file = ".txt"
  <2>1. LoadFile(d) = ParseTextArt(d.legend, d.rows)
    BY <1>2 DEF LoadFile
  <2>2. d.rows \in Seq(Seq(Nat)) /\ \A ch \in DOMAIN d.legend : d.legend[ch] \in Colors24
    BY DEF IsDrawing
  <2>3. ParseTextArt(d.legend, d.rows).ok
    BY <2>1
  <2>4. IsBlueprint(ParseTextArt(d.legend, d.rows).bp)
    BY <2>2, <2>3, TextArtIsBlueprint
  <2> QED
    BY <1>2, <2>1, <2>4
<1>3. CASE d.file = ".png"
  <2>1. LoadFile(d) = ImageToBlueprint(d.image, PaintTarget(d)[1], PaintTarget(d)[2])
    BY <1>3 DEF LoadFile
  <2>2. PICK img, target : img = d.image /\ target = PaintTarget(d)
    OBVIOUS
  <2>3. IsImage(img) /\ target[1] \in Nat \ {0} /\ target[2] \in Nat \ {0}
    BY <2>2, TargetIs DEF IsDrawing
  <2>4. img.w # 0 /\ img.h # 0
    <3>1. ~Error.ok
      BY SMTT(40) DEF Error
    <3>2. img.w = 0 \/ img.h = 0 => ImageToBlueprint(img, target[1], target[2]) = Error
      BY DEF ImageToBlueprint
    <3> QED
      BY <2>1, <2>2, <3>1, <3>2
  <2>5. IsBlueprint(ImageToBlueprint(img, target[1], target[2]).bp) /\ WholeImage(ImageToBlueprint(img, target[1], target[2]).bp, img, target)
    BY <2>3, <2>4, ImageIsFaithful
  <2> QED
    BY <1>3, <2>1, <2>2, <2>5
<1>4. CASE d.file \notin {"none", ".txt", ".png"}
  BY <1>4 DEF LoadFile, Error
<1> QED
  BY <1>1, <1>2, <1>3, <1>4

(* Where nothing is drawn over it the file is as it was.                   *)
LEMMA NoShapes ==
  ASSUME NEW bp, IsBlueprint(bp), NEW draws, Len(draws) = 0
  PROVE  LastWins(bp.cells, bp.cells, draws)
<1>1. PICK cells : cells = bp.cells
  OBVIOUS
<1>2. PICK w \in Nat, h \in Nat : w = bp.w /\ h = bp.h
  BY DEF IsBlueprint
<1>3. DOMAIN cells \subseteq Whole(w, h)
  BY <1>1, <1>2 DEF IsBlueprint
<1>4. \A p \in DOMAIN cells : p[1] >= 0 /\ p[2] >= 0
  BY <1>3 DEF Whole
<1>5. ~ \E i \in 1..Len(draws) : TRUE
  OBVIOUS
<1> QED
  BY <1>1, <1>4, <1>5 DEF LastWins

(* The shapes of a drawing that loads have parsed.                         *)
LEMMA ShapesOf ==
  ASSUME NEW d, IsDrawing(d), \A i \in 1..Len(d.draws) : ShapeOK(d.draws[i])
  PROVE  AreShapes(d.draws)
<1>1. PICK draws : draws = d.draws
  OBVIOUS
<1>2. draws \in Seq(Shapes) /\ \A i \in 1..Len(draws) : Len(draws[i].args) = Arity(draws[i].name)
  BY <1>1 DEF IsDrawing
<1>3. Len(draws) \in Nat
  BY <1>2, LenProperties
<1>4. \A i \in 1..Len(draws) : draws[i] \in Shapes
  BY <1>2, ElementOfSeq
<1> QED
  BY <1>1, <1>2, <1>3, <1>4 DEF AreShapes

(* What LoadPaint makes of a drawing: a blueprint, the last shape on top,  *)
(* a single shape exact, an image whole.                                   *)
LEMMA LoadIs ==
  ASSUME NEW d, IsDrawing(d), LoadPaint(d).ok
  PROVE  /\ LoadFile(d).ok /\ IsBlueprint(LoadPaint(d).bp)
         /\ LastWins(LoadPaint(d).bp.cells, LoadFile(d).bp.cells, d.draws)
         /\ d.file = ".png" /\ d.draws = <<>> => WholeImage(LoadPaint(d).bp, d.image, PaintTarget(d))
         /\ d.file = "none" /\ Len(d.draws) = 1 => IsShape(d.draws[1], DOMAIN LoadPaint(d).bp.cells)
<1>1. ~Error.ok
  BY DEF Error
<1>2. LoadFile(d).ok
  BY DEF LoadPaint
<1>3. PICK base : base = LoadFile(d).bp
  OBVIOUS
<1>4. /\ IsBlueprint(base)
      /\ d.file = "none" => base = Blank
      /\ d.file = ".png" => WholeImage(base, d.image, PaintTarget(d))
  BY <1>2, <1>3, FileIs
<1>5. CASE d.draws = <<>>
  <2>1. LoadPaint(d).bp = base
    BY <1>3, <1>5 DEF LoadPaint
  <2>2. Len(d.draws) = 0
    BY <1>5, EmptySeq
  <2>3. LastWins(base.cells, base.cells, d.draws)
    BY <1>4, <2>2, NoShapes
  <2> QED
    BY <1>2, <1>3, <1>4, <2>1, <2>2, <2>3
<1>6. CASE d.draws # <<>>
  <2>1. \A i \in 1..Len(d.draws) : ShapeOK(d.draws[i])
    BY <1>1, <1>2, <1>6 DEF LoadPaint
  <2>2. LoadPaint(d).bp = Compose(base, d.draws)
    BY <1>2, <1>3, <1>6, <2>1 DEF LoadPaint, Ok
  <2>3. PICK draws : draws = d.draws
    OBVIOUS
  <2>4. AreShapes(draws)
    BY <2>1, <2>3, ShapesOf
  <2>5. IsBlueprint(Compose(base, draws)) /\ LastWins(Compose(base, draws).cells, base.cells, draws)
    BY <1>4, <2>4, ComposeIsFaithful
  <2>6. ASSUME d.file = "none", Len(draws) = 1 PROVE IsShape(draws[1], DOMAIN Compose(base, draws).cells)
    <3>1. DOMAIN base.cells = {}
      BY <1>4, <2>6 DEF Blank
    <3>2. 1 \in 1..Len(draws) /\ \A i \in 1..Len(draws) : i = 1
      BY <2>6
    <3>3. PICK cells : cells = Compose(base, draws).cells
      OBVIOUS
    <3>4. LastWins(cells, base.cells, draws)
      BY <2>5, <3>3
    <3>5. DOMAIN cells = {p \in DOMAIN base.cells \cup UNION {ShapePoints(draws[i]) : i \in 1..Len(draws)} : p[1] >= 0 /\ p[2] >= 0}
      BY <3>4 DEF LastWins
    <3>6. DOMAIN cells = Kept(ShapePoints(draws[1]))
      BY <3>1, <3>2, <3>5 DEF Kept
    <3>7. PICK s : s = draws[1]
      OBVIOUS
    <3>8. s \in Shapes /\ Len(s.args) = Arity(s.name) /\ ShapeOK(s)
      BY <2>4, <3>2, <3>7 DEF AreShapes
    <3>9. IsShape(s, Kept(ShapePoints(s)))
      BY <3>8, ShapeIs
    <3> QED
      BY <3>3, <3>6, <3>7, <3>9
  <2> QED
    BY <1>2, <1>3, <1>6, <2>2, <2>3, <2>5, <2>6
<1> QED
  BY <1>5, <1>6

(***************************************************************************)
(* Where it goes.                                                          *)
(***************************************************************************)
(* The offset that centres a blueprint that fits.                          *)
LEMMA CenteredIs ==
  ASSUME NEW grid \in Nat, grid > 0, grid <= Word, NEW size \in Nat
  PROVE  /\ Centered(grid, size) \in Nat
         /\ size <= grid => grid - size - Centered(grid, size) - Centered(grid, size) \in {0, 1}
<1>1. Word \in Nat /\ Word > 1
  BY CodecSizes
<1>2. CASE size > grid
  <2>1. PICK q \in Int : q = (size - grid) \div 2
    OBVIOUS
  <2>2. Centered(grid, size) = (-q) % Word
    BY <1>2, <2>1 DEF Centered
  <2>3. -q \in Int
    OBVIOUS
  <2>4. (-q) % Word \in 0..(Word - 1)
    BY <1>1, <2>3
  <2> QED
    BY <1>2, <2>2, <2>4
<1>3. CASE size <= grid
  <2>1. PICK q \in Int : q = (grid - size) \div 2
    OBVIOUS
  <2>2. 2 * q <= grid - size /\ grid - size < 2 * q + 2
    BY <2>1
  <2>3. q \in Nat /\ q < Word
    BY <1>1, <1>3, <2>2
  <2>4. q \in 0..(Word - 1)
    BY <1>1, <2>3
  <2>5. (0 * Word + q) % Word = q
    BY <1>1, <2>4, DivMod
  <2>6. q % Word = q
    BY <1>1, <2>5
  <2>7. Centered(grid, size) = q
    BY <1>3, <2>1, <2>6 DEF Centered
  <2> QED
    BY <2>2, <2>3, <2>7
<1> QED
  BY <1>2, <1>3

(* A grid has a size, of uint32.                                           *)
IsGrid(grid) ==
    grid[1] \in Nat /\ grid[1] > 0 /\ grid[1] <= Word /\ grid[2] \in Nat /\ grid[2] > 0 /\ grid[2] <= Word

(* The server's and the flag's are such.                                   *)
LEMMA GridsAre == IsGrid(ServerGrid) /\ \A d : IsDrawing(d) => IsGrid(d.grid)
<1>1. IsGrid(ServerGrid)
  BY CodecSizes DEF IsGrid, ServerGrid
<1>2. ASSUME NEW d, IsDrawing(d) PROVE IsGrid(d.grid)
  <2>1. d.grid \in (Uint32 \ {0}) \X (Uint32 \ {0})
    BY <1>2 DEF IsDrawing
  <2>2. \A n \in Uint32 \ {0} : n \in Nat /\ n > 0 /\ n <= Word
    BY CodecSizes DEF Uint32
  <2> QED
    BY <2>1, <2>2 DEF IsGrid
<1> QED
  BY <1>1, <1>2

(* Centred to a cell, and on the grid.                                     *)
Rightly(d, grid, bp, off) ==
    LET right == grid[1] - bp.w - off[1]
        below == grid[2] - bp.h - off[2]
        placed == PlacementsAt(bp, off)
    IN  /\ d.offset = <<>> => right - off[1] \in {0, 1} /\ below - off[2] \in {0, 1}
        /\ DOMAIN placed \subseteq FillRect(0, 0, grid[1], grid[2])
        /\ Cardinality(DOMAIN placed) = Cardinality(DOMAIN bp.cells)

(* The offset is a pair of uint32.                                         *)
LEMMA OffsetIs ==
  ASSUME NEW d, IsDrawing(d), NEW grid, IsGrid(grid), NEW bp, IsBlueprint(bp)
  PROVE  /\ Offset(grid, d, bp)[1] \in Nat /\ Offset(grid, d, bp)[2] \in Nat
         /\ d.offset = <<>> => Offset(grid, d, bp)[1] = Centered(grid[1], bp.w) /\ Offset(grid, d, bp)[2] = Centered(grid[2], bp.h)
<1>1. CASE d.offset = <<>>
  <2>1. Centered(grid[1], bp.w) \in Nat /\ Centered(grid[2], bp.h) \in Nat
    BY CenteredIs DEF IsBlueprint, IsGrid
  <2>2. Offset(grid, d, bp) = <<Centered(grid[1], bp.w), Centered(grid[2], bp.h)>>
    BY <1>1 DEF Offset
  <2> QED
    BY <2>1, <2>2
<1>2. CASE d.offset # <<>>
  <2>1. d.offset \in Uint32 \X Uint32 /\ Offset(grid, d, bp) = d.offset
    BY <1>2 DEF IsDrawing, Offset
  <2>2. Uint32 \subseteq Nat
    BY CodecSizes DEF Uint32
  <2> QED
    BY <1>2, <2>1, <2>2
<1> QED
  BY <1>1, <1>2

Shifted(p, off) == <<p[1] + off[1], p[2] + off[2]>>
MovedBack(p, off) == <<p[1] - off[1], p[2] - off[2]>>

(* Placements are the blueprint's points moved by the offset, and as many. *)
LEMMA PlacementsAre ==
  ASSUME NEW bp, IsBlueprint(bp), NEW off, off[1] \in Nat, off[2] \in Nat
  PROVE  LET placed == PlacementsAt(bp, off) IN
         /\ DOMAIN placed = {Shifted(p, off) : p \in DOMAIN bp.cells}
         /\ IsFiniteSet(DOMAIN placed) /\ Cardinality(DOMAIN placed) = Cardinality(DOMAIN bp.cells)
         /\ \A p \in DOMAIN placed : placed[p] = bp.cells[MovedBack(p, off)]
<1>1. PICK cells : cells = bp.cells
  OBVIOUS
<1>2. IsFiniteSet(DOMAIN cells) /\ \A p \in DOMAIN cells : p = <<p[1], p[2]>> /\ p[1] \in Int /\ p[2] \in Int
  BY <1>1, InPaints DEF IsBlueprint
<1>3. PICK placed : placed = PlacementsAt(bp, off)
  OBVIOUS
<1>4. DOMAIN placed = {Shifted(p, off) : p \in DOMAIN cells} /\ \A p \in DOMAIN placed : placed[p] = cells[MovedBack(p, off)]
  BY <1>1, <1>3 DEF PlacementsAt, Shifted, MovedBack
<1> DEFINE D == DOMAIN cells
           f == [p \in D |-> Shifted(p, off)]
<1>5. \A p, q \in D : f[p] = f[q] => p = q
  <2> SUFFICES ASSUME NEW p \in D, NEW q \in D, Shifted(p, off) = Shifted(q, off) PROVE p = q
    OBVIOUS
  <2>1. p[1] + off[1] = q[1] + off[1] /\ p[2] + off[2] = q[2] + off[2]
    BY DEF Shifted
  <2>2. p[1] = q[1] /\ p[2] = q[2]
    BY SMTT(40), <1>2, <2>1
  <2> QED
    BY <1>2, <2>2
<1>6. {f[p] : p \in D} = DOMAIN placed
  BY <1>4
<1> HIDE DEF f, D
<1>7. IsFiniteSet({f[p] : p \in D}) /\ Cardinality({f[p] : p \in D}) = Cardinality(D)
  BY <1>2, <1>5, InjectiveImage DEF D
<1> QED
  BY <1>1, <1>3, <1>4, <1>6, <1>7 DEF D

(* A blueprint within bounds lands on the grid whole.                      *)
LEMMA PlacedIs ==
  ASSUME NEW d, IsDrawing(d), NEW grid, IsGrid(grid), NEW bp, IsBlueprint(bp), ValidateBounds(grid, bp, Offset(grid, d, bp))
  PROVE  Rightly(d, grid, bp, Offset(grid, d, bp))
<1>1. PICK off : off = Offset(grid, d, bp)
  OBVIOUS
<1>2. off[1] \in Nat /\ off[2] \in Nat
  BY <1>1, OffsetIs
<1>3. PICK x \in Nat, y \in Nat, w \in Nat, h \in Nat : x = off[1] /\ y = off[2] /\ w = bp.w /\ h = bp.h
  BY <1>2 DEF IsBlueprint
<1>4. PICK gw \in Nat, gh \in Nat : gw = grid[1] /\ gh = grid[2] /\ gw > 0 /\ gh > 0 /\ gw <= Word /\ gh <= Word
  BY DEF IsGrid
<1>5. w + x <= gw /\ h + y <= gh
  BY <1>1, <1>3, <1>4 DEF ValidateBounds
<1>6. ASSUME d.offset = <<>> PROVE gw - w - x - x \in {0, 1} /\ gh - h - y - y \in {0, 1}
  <2>1. x = Centered(gw, w) /\ y = Centered(gh, h)
    BY <1>1, <1>3, <1>4, <1>6, OffsetIs
  <2>2. w <= gw /\ h <= gh
    BY <1>5
  <2>3. gw - w - Centered(gw, w) - Centered(gw, w) \in {0, 1}
    BY <1>4, <2>2, CenteredIs
  <2>4. gh - h - Centered(gh, h) - Centered(gh, h) \in {0, 1}
    BY <1>4, <2>2, CenteredIs
  <2> QED
    BY <2>1, <2>3, <2>4
<1>7. PICK placed : placed = PlacementsAt(bp, off)
  OBVIOUS
<1>8. DOMAIN placed = {Shifted(p, off) : p \in DOMAIN bp.cells} /\ Cardinality(DOMAIN placed) = Cardinality(DOMAIN bp.cells)
  BY <1>2, <1>7, PlacementsAre
<1>9. DOMAIN placed \subseteq FillRect(0, 0, gw, gh)
  <2> SUFFICES ASSUME NEW q \in DOMAIN placed PROVE q \in FillRect(0, 0, gw, gh)
    OBVIOUS
  <2>1. PICK p \in DOMAIN bp.cells : q = Shifted(p, off)
    BY <1>8
  <2>2. p \in Whole(w, h)
    BY <1>3 DEF IsBlueprint
  <2>3. p[1] \in 0..w - 1 /\ p[2] \in 0..h - 1
    BY <2>2 DEF Whole
  <2>4. q = <<p[1] + x, p[2] + y>>
    BY <1>3, <2>1 DEF Shifted
  <2>5. p[1] + x \in 0..0 + gw - 1 /\ p[2] + y \in 0..0 + gh - 1
    BY <1>5, <2>3
  <2> QED
    BY <2>4, <2>5 DEF FillRect
<1> QED
  BY <1>1, <1>3, <1>4, <1>6, <1>7, <1>8, <1>9 DEF Rightly

(* The canvas after the run, as letters; X where it is painted over.       *)
ShownAs(shown, canvas, placed) ==
    LET after(p) == IF p \in DOMAIN placed THEN ByteOf(placed[p]) ELSE canvas[p] IN
    \A p \in Grid :
        shown[p] = IF p \in DOMAIN placed /\ canvas[p] # 0 THEN <<"X", 0>>
                   ELSE IF after(p) = 0 THEN <<".", 0>>
                   ELSE <<"small", after(p) - 1>>

(* The preview shows the canvas as it will be.                             *)
LEMMA PreviewIs ==
  ASSUME NEW canvas \in [Grid -> 0..16], NEW bp, IsBlueprint(bp), NEW off, off[1] \in Nat, off[2] \in Nat
  PROVE  ShownAs(RenderPreview(canvas, bp, off), canvas, PlacementsAt(bp, off))
<1>1. PICK placed : placed = PlacementsAt(bp, off)
  OBVIOUS
<1>2. PICK cells : cells = bp.cells
  OBVIOUS
<1>3. /\ DOMAIN placed = {Shifted(p, off) : p \in DOMAIN cells}
      /\ \A p \in DOMAIN placed : placed[p] = cells[MovedBack(p, off)]
  <2>1. DOMAIN PlacementsAt(bp, off) = {Shifted(p, off) : p \in DOMAIN bp.cells}
    BY PlacementsAre
  <2>2. \A p \in DOMAIN PlacementsAt(bp, off) : PlacementsAt(bp, off)[p] = bp.cells[MovedBack(p, off)]
    BY PlacementsAre
  <2> QED
    BY <1>1, <1>2, <2>1, <2>2
<1>4. \A p \in DOMAIN cells : p = <<p[1], p[2]>> /\ p[1] \in Int /\ p[2] \in Int /\ cells[p] \in 0..15
  BY <1>2, InPaints DEF IsBlueprint
<1>5. PICK shown : shown = RenderPreview(canvas, bp, off)
  OBVIOUS
<1>6. ASSUME NEW p \in Grid
      PROVE  /\ p \in DOMAIN placed /\ canvas[p] # 0 => shown[p] = <<"X", 0>>
             /\ p \in DOMAIN placed /\ canvas[p] = 0 => ByteOf(placed[p]) # 0 /\ shown[p] = <<"small", ByteOf(placed[p]) - 1>>
             /\ p \notin DOMAIN placed /\ canvas[p] = 0 => shown[p] = <<".", 0>>
             /\ p \notin DOMAIN placed /\ canvas[p] # 0 => shown[p] = <<"small", canvas[p] - 1>>
  <2>1. PICK at : at = MovedBack(p, off)
    OBVIOUS
  <2>2. p = <<p[1], p[2]>> /\ p[1] \in Int /\ p[2] \in Int
    BY CodecSizes DEF Grid, FillRect
  <2>3. p \in DOMAIN placed <=> at \in DOMAIN cells
    <3>1. ASSUME p \in DOMAIN placed PROVE at \in DOMAIN cells
      <4>1. PICK q \in DOMAIN cells : p = Shifted(q, off)
        BY <1>3, <3>1
      <4>2. p[1] = q[1] + off[1] /\ p[2] = q[2] + off[2] /\ q[1] \in Int /\ q[2] \in Int /\ q = <<q[1], q[2]>>
        BY <1>4, <4>1 DEF Shifted
      <4>3. p[1] - off[1] = q[1] /\ p[2] - off[2] = q[2]
        BY <4>2
      <4>4. at = q
        BY <2>1, <4>2, <4>3 DEF MovedBack
      <4> QED
        BY <4>4
    <3>2. ASSUME at \in DOMAIN cells PROVE p \in DOMAIN placed
      <4>1. at[1] = p[1] - off[1] /\ at[2] = p[2] - off[2]
        BY <2>1 DEF MovedBack
      <4>2. at[1] + off[1] = p[1] /\ at[2] + off[2] = p[2]
        BY <2>2, <4>1
      <4>3. Shifted(at, off) = p
        BY <2>2, <4>2 DEF Shifted
      <4> QED
        BY <1>3, <3>2, <4>3
    <3> QED
      BY <3>1, <3>2
  <2>4. shown[p] = IF at \in DOMAIN cells
                   THEN IF canvas[p] = 0 THEN <<"small", cells[at]>> ELSE <<"X", 0>>
                   ELSE IF canvas[p] = 0 THEN <<".", 0>> ELSE <<"small", (canvas[p] - 1) % 16>>
    BY <1>2, <1>5, <2>1 DEF RenderPreview, Grid, MovedBack
  <2>5. ASSUME p \in DOMAIN placed PROVE placed[p] = cells[at] /\ ByteOf(placed[p]) # 0 /\ ByteOf(placed[p]) - 1 = cells[at]
    <3>1. placed[p] = cells[at]
      BY <1>3, <2>1, <2>5
    <3>2. cells[at] \in 0..15
      BY <1>4, <2>3, <2>5
    <3>3. ByteOf(cells[at]) = cells[at] + 1
      BY <3>2, ByteIs
    <3> QED
      BY <3>1, <3>2, <3>3
  <2>6. ASSUME canvas[p] # 0 PROVE (canvas[p] - 1) % 16 = canvas[p] - 1
    <3>1. PICK c \in 1..16 : c = canvas[p]
      BY <2>6
    <3>2. (c - 1) % 16 = c - 1
      OBVIOUS
    <3> QED
      BY <3>1, <3>2
  <2> QED
    BY <2>3, <2>4, <2>5, <2>6
<1>7. ShownAs(shown, canvas, placed)
  BY <1>6 DEF ShownAs
<1> QED
  BY <1>1, <1>5, <1>7

(***************************************************************************)
(* The invariant: what was made is what its input comes to.                *)
(***************************************************************************)
EntriesFit ==
    /\ given \in Claims /\ Accepts(given.x, given.y, given.color)
    /\ made = [kind |-> "entries", byte |-> ByteOf(given.color), of |-> EntriesOf(given.x, given.y, given.color)]

IsLoaded(bp, off, fits) ==
    /\ given \in Drawings /\ LoadPaint(given).ok /\ bp = LoadPaint(given).bp
    /\ off = Offset(given.grid, given, bp) /\ fits = ValidateBounds(given.grid, bp, off)

(* What is shown is placed by the server's grid.                           *)
IsShown(bp, at, shows, shown) ==
    /\ at = Offset(ServerGrid, given, bp) /\ shows = ValidateBounds(ServerGrid, bp, at)
    /\ shows => shown = RenderPreview(given.canvas, bp, at)

ConvInv ==
    /\ given \in Inputs \cup {Nothing}
    /\ made.kind \in {"nothing", "refused", "entries", "blueprint", "display"}
    /\ made.kind = "nothing" => made = Nothing
    /\ made.kind = "entries" => EntriesFit
    /\ made.kind \in {"blueprint", "display"} => IsLoaded(made.bp, made.off, made.fits)
    /\ made.kind = "display" =>
          /\ made.art = FormatTextArt(made.bp)
          /\ IsShown(made.bp, made.at, made.shows, made.shown)

(* What is given, by its kind.                                             *)
LEMMA InputsAre ==
  /\ \A c \in Claims : c.kind = "claim" /\ c.x \in Uint32 /\ c.y \in Uint32 /\ c.color \in 0..ColorRange - 1
  /\ \A d \in Drawings : d.kind = "drawing" /\ IsDrawing(d)
<1>1. ASSUME NEW c \in Claims PROVE c.kind = "claim" /\ c.x \in Uint32 /\ c.y \in Uint32 /\ c.color \in 0..ColorRange - 1
  <2>1. c \in ClaimRequests
    BY ConversionsAssumption
  <2> QED
    BY <2>1 DEF ClaimRequests
<1>2. ASSUME NEW d \in Drawings PROVE d.kind = "drawing" /\ IsDrawing(d)
  <2>1. IsDrawing(d)
    BY ConversionsAssumption
  <2> QED
    BY <2>1 DEF IsDrawing
<1> QED
  BY <1>1, <1>2

(* Before anything is made the invariant holds.                            *)
LEMMA ConvInitInv == ASSUME given \in Inputs \cup {Nothing}, ConvInit PROVE ConvInv
  BY DEF ConvInit, ConvInv, Nothing

(* A claim makes the entries it comes to.                                  *)
LEMMA RecordInv == ASSUME ConvInv, Record PROVE ConvInv'
<1>1. given \in Claims /\ given' = given /\ made = Nothing
  <2>1. given \in Claims \cup Drawings \/ given = Nothing
    BY DEF ConvInv, Inputs
  <2>2. given.kind = "claim"
    BY DEF Record
  <2>3. given \notin Drawings /\ given # Nothing
    BY <2>2, InputsAre DEF Nothing
  <2> QED
    BY <2>1, <2>3 DEF Record
<1>2. CASE ~Accepts(given.x, given.y, given.color)
  <2>1. made' = Refused
    BY <1>2 DEF Record
  <2>2. made'.kind = "refused"
    BY <2>1 DEF Refused
  <2> QED
    BY <1>1, <2>2 DEF ConvInv, Inputs
<1>3. CASE Accepts(given.x, given.y, given.color)
  <2>1. made' = [kind |-> "entries", byte |-> ByteOf(given.color), of |-> EntriesOf(given.x, given.y, given.color)]
    BY <1>3 DEF Record, EntriesOf
  <2>2. made'.kind = "entries"
    BY <2>1
  <2>3. EntriesFit'
    BY <1>1, <1>3, <2>1 DEF EntriesFit
  <2> QED
    BY <1>1, <2>2, <2>3 DEF ConvInv, Inputs
<1> QED
  BY <1>2, <1>3

(* A drawing makes the blueprint it comes to.                              *)
LEMMA CompileInv == ASSUME ConvInv, Compile PROVE ConvInv'
<1>1. given \in Drawings /\ given' = given /\ made = Nothing
  <2>1. given \in Claims \cup Drawings \/ given = Nothing
    BY DEF ConvInv, Inputs
  <2>2. given.kind = "drawing"
    BY DEF Compile
  <2>3. given \notin Claims /\ given # Nothing
    BY <2>2, InputsAre DEF Nothing
  <2> QED
    BY <2>1, <2>3 DEF Compile
<1>2. PICK loaded, off : loaded = LoadPaint(given) /\ off = Offset(given.grid, given, loaded.bp)
  OBVIOUS
<1>3. made' = IF ~loaded.ok THEN Refused
              ELSE [kind |-> "blueprint", bp |-> loaded.bp, off |-> off, fits |-> ValidateBounds(given.grid, loaded.bp, off)]
  BY <1>2 DEF Compile
<1>4. CASE ~loaded.ok
  <2>1. made'.kind = "refused"
    BY <1>3, <1>4 DEF Refused
  <2> QED
    BY <1>1, <2>1 DEF ConvInv, Inputs
<1>5. CASE loaded.ok
  <2>1. /\ made'.kind = "blueprint" /\ made'.bp = loaded.bp /\ made'.off = off
        /\ made'.fits = ValidateBounds(given.grid, loaded.bp, off)
    BY <1>3, <1>5
  <2>2. IsLoaded(made.bp, made.off, made.fits)'
    BY <1>1, <1>2, <1>5, <2>1 DEF IsLoaded
  <2> QED
    BY <1>1, <2>1, <2>2 DEF ConvInv, Inputs
<1> QED
  BY <1>4, <1>5

(* A display has the blueprint's text and preview.                         *)
LEMMA ShowInv == ASSUME ConvInv, Show PROVE ConvInv'
<1>1. given' = given /\ made.kind = "blueprint"
  BY DEF Show
<1>2. IsLoaded(made.bp, made.off, made.fits) /\ given \in Inputs \cup {Nothing}
  BY <1>1 DEF ConvInv
<1>3. /\ made'.kind = "display" /\ made'.bp = made.bp /\ made'.off = made.off /\ made'.fits = made.fits
      /\ made'.art = FormatTextArt(made.bp)
      /\ IsShown(made.bp, made'.at, made'.shows, made'.shown)
  BY DEF Show, IsShown
<1>4. IsLoaded(made.bp, made.off, made.fits)' /\ IsShown(made.bp, made.at, made.shows, made.shown)'
  BY <1>1, <1>2, <1>3 DEF IsLoaded, IsShown
<1>5. (given \in Inputs \cup {Nothing})'
  BY <1>1, <1>2 DEF Inputs
<1> QED
  BY <1>1, <1>3, <1>4, <1>5 DEF ConvInv

(* Every conversion keeps the invariant.                                   *)
LEMMA ConvNextInv == ASSUME ConvInv, [ConvNext]_convVars PROVE ConvInv'
<1>1. CASE Record
  BY <1>1, RecordInv
<1>2. CASE Compile
  BY <1>2, CompileInv
<1>3. CASE Show
  BY <1>3, ShowInv
<1>4. CASE UNCHANGED convVars
  BY <1>4 DEF ConvInv, convVars, Inputs, EntriesFit, IsLoaded, IsShown
<1> QED
  BY <1>1, <1>2, <1>3, <1>4 DEF ConvNext

(* The invariant implies the types,                                        *)
LEMMA ConvIsTyped == ASSUME ConvInv PROVE ConvTypeOK
<1>1. made.kind = "entries" => given.kind = "claim"
  BY InputsAre DEF ConvInv, EntriesFit
<1>2. made.kind \in {"blueprint", "display"} => given.kind = "drawing"
  BY SMTT(40), InputsAre DEF ConvInv, IsLoaded
<1> QED
  BY <1>1, <1>2 DEF ConvTypeOK, ConvInv

(* that the entries of a claim agree,                                      *)
LEMMA ColoursAgreeFollows == ASSUME ConvInv PROVE ColoursAgree
<1> SUFFICES ASSUME made.kind = "entries" PROVE ColoursAgree
  BY DEF ColoursAgree
<1>1. EntriesFit
  BY DEF ConvInv
<1>2. PICK x \in Uint32, y \in Uint32, color \in 0..ColorRange - 1 : x = given.x /\ y = given.y /\ color = given.color
  BY <1>1, InputsAre DEF EntriesFit
<1>3. Accepts(x, y, color) /\ made.byte = ByteOf(color) /\ made.of = EntriesOf(x, y, color)
  BY <1>1, <1>2 DEF EntriesFit
<1>4. PICK of : of = EntriesOf(x, y, color)
  OBVIOUS
<1>5. LET posted == of["posted"]
          paints == {e \in Entry : IsPostedClaim(of[e])}
          paintsElsewhere == {e \in Entry : EventOf(of[e]).type = "two_phase_posted"}
      IN
      /\ paints = {"posted"} /\ paintsElsewhere = {"posted"}
      /\ UnpackPixelID(posted.debit) = <<x, y>> /\ EventOf(posted).cell = <<x, y>>
      /\ ByteOf(color) = color + 1
      /\ ByteOf(ColorOfCode(posted)) = color + 1
      /\ ByteOf(EventOf(posted).color) = color + 1
      /\ \A p \in Grid : PixelID(p[1], p[2]) = posted.debit => p = <<x, y>>
      /\ posted.debit # FundID(x, y) /\ posted.debit # SystemPoolID
  BY SMTT(40), <1>3, <1>4, ColoursFollow
<1> QED
  BY SMTT(40), <1>2, <1>3, <1>4, <1>5 DEF ColoursAgree

(* that a shape is what it is called,                                      *)
LEMMA ShapesFollow == ASSUME ConvInv PROVE ShapesAreExact
<1> SUFFICES ASSUME made.kind = "blueprint", given.file = "none", Len(given.draws) = 1 PROVE ShapesAreExact
  BY DEF ShapesAreExact
<1>1. IsLoaded(made.bp, made.off, made.fits)
  BY DEF ConvInv
<1>2. IsDrawing(given) /\ LoadPaint(given).ok /\ made.bp = LoadPaint(given).bp
  BY <1>1, InputsAre DEF IsLoaded
<1>3. IsShape(given.draws[1], DOMAIN LoadPaint(given).bp.cells)
  BY <1>2, LoadIs
<1> QED
  BY <1>2, <1>3 DEF IsShape, ShapesAreExact

(* that a blueprint has what its sources say,                              *)
LEMMA BlueprintFollows == ASSUME ConvInv PROVE BlueprintIsFaithful
<1>1. ASSUME made.kind \in {"blueprint", "display"}
      PROVE  /\ IsDrawing(given) /\ LoadPaint(given).ok /\ made.bp = LoadPaint(given).bp
             /\ made.off = Offset(given.grid, given, made.bp) /\ made.fits = ValidateBounds(given.grid, made.bp, made.off)
             /\ IsBlueprint(made.bp)
  <2>1. IsLoaded(made.bp, made.off, made.fits)
    BY <1>1 DEF ConvInv
  <2>2. IsDrawing(given) /\ LoadPaint(given).ok /\ made.bp = LoadPaint(given).bp
    BY <2>1, InputsAre DEF IsLoaded
  <2>3. IsBlueprint(LoadPaint(given).bp)
    BY <2>2, LoadIs
  <2> QED
    BY <2>1, <2>2, <2>3 DEF IsLoaded
<1>2. ASSUME made.kind = "blueprint" PROVE LastDrawWins
  <2>1. LastWins(LoadPaint(given).bp.cells, LoadFile(given).bp.cells, given.draws)
    BY <1>1, <1>2, LoadIs
  <2> QED
    BY <1>1, <1>2, <2>1 DEF LastWins, LastDrawWins
<1>3. ASSUME made.kind = "blueprint", given.file = ".png", given.draws = <<>> PROVE ImageIsWhole
  <2>1. WholeImage(LoadPaint(given).bp, given.image, PaintTarget(given))
    BY <1>1, <1>3, LoadIs
  <2> QED
    BY ZenonT(60), <1>1, <1>3, <2>1 DEF WholeImage, Keeps, PixelsOf, OpaqueOf, Box, ImageIsWhole
<1>4. ASSUME made.kind = "blueprint", made.fits PROVE IsPlaced(given.grid, made.off)
  <2>1. ValidateBounds(given.grid, made.bp, Offset(given.grid, given, made.bp)) /\ IsGrid(given.grid)
    BY <1>1, <1>4, GridsAre
  <2>2. Rightly(given, given.grid, made.bp, made.off)
    BY <1>1, <1>4, <2>1, PlacedIs
  <2> QED
    BY <2>2 DEF Rightly, IsPlaced
<1>5. ASSUME made.kind = "display" PROVE ParseTextArt(made.art.legend, made.art.rows) = Ok(made.bp)
  <2>1. made.art = FormatTextArt(made.bp) /\ IsBlueprint(made.bp)
    BY <1>1, <1>5 DEF ConvInv
  <2> QED
    BY <2>1, ReadsBack
<1> QED
  BY <1>2, <1>3, <1>4, <1>5 DEF BlueprintIsFaithful

(* and that a preview shows what painting does on the server's grid.       *)
LEMMA PreviewFollows == ASSUME ConvInv PROVE PreviewIsPainting
<1> SUFFICES ASSUME made.kind = "display" PROVE PreviewIsPainting
  BY DEF PreviewIsPainting
<1>1. IsLoaded(made.bp, made.off, made.fits) /\ IsShown(made.bp, made.at, made.shows, made.shown)
  BY DEF ConvInv
<1>2. IsDrawing(given) /\ LoadPaint(given).ok /\ made.bp = LoadPaint(given).bp
  BY <1>1, InputsAre DEF IsLoaded
<1>3. IsBlueprint(made.bp) /\ IsGrid(ServerGrid)
  BY <1>2, LoadIs, GridsAre
<1>4. made.at = Offset(ServerGrid, given, made.bp) /\ made.shows = ValidateBounds(ServerGrid, made.bp, made.at)
  BY <1>1 DEF IsShown
<1>5. ASSUME made.shows
      PROVE  /\ IsPlaced(ServerGrid, made.at)
             /\ ShownAs(made.shown, given.canvas, PlacementsAt(made.bp, made.at))
  <2>1. made.at[1] \in Nat /\ made.at[2] \in Nat
    BY <1>2, <1>3, <1>4, OffsetIs
  <2>2. given.canvas \in [Grid -> 0..16]
    BY <1>2 DEF IsDrawing, MaxColor
  <2>3. made.shown = RenderPreview(given.canvas, made.bp, made.at)
    BY <1>1, <1>5 DEF IsShown
  <2>4. Rightly(given, ServerGrid, made.bp, made.at)
    BY <1>2, <1>3, <1>4, <1>5, PlacedIs
  <2> QED
    BY <1>3, <2>1, <2>2, <2>3, <2>4, PreviewIs DEF Rightly, IsPlaced
<1>6. given.grid = ServerGrid => made.at = made.off /\ made.shows = made.fits
  BY <1>1, <1>4 DEF IsLoaded
<1> QED
  BY <1>5, <1>6 DEF ShownAs, PreviewIsPainting

(* What a run queues is finite.                                            *)
LEMMA ToPaintIsFinite == ASSUME ConvInv PROVE IsFiniteSet(ToPaint(made))
<1>1. CASE made.kind = "blueprint" /\ made.fits
  <2>1. IsLoaded(made.bp, made.off, made.fits)
    BY <1>1 DEF ConvInv
  <2>2. IsDrawing(given) /\ LoadPaint(given).ok /\ made.bp = LoadPaint(given).bp /\ made.off = Offset(given.grid, given, made.bp)
    BY <2>1, InputsAre DEF IsLoaded
  <2>3. IsBlueprint(made.bp)
    BY <2>2, LoadIs
  <2>4. made.off[1] \in Nat /\ made.off[2] \in Nat
    BY <2>2, <2>3, GridsAre, OffsetIs
  <2>5. IsFiniteSet(DOMAIN PlacementsAt(made.bp, made.off))
    BY <2>3, <2>4, PlacementsAre
  <2> QED
    BY <1>1, <2>5 DEF ToPaint
<1>2. CASE ~(made.kind = "blueprint" /\ made.fits)
  BY <1>2, FS_EmptySet DEF ToPaint
<1> QED
  BY <1>1, <1>2

(***************************************************************************)
(* The properties.                                                         *)
(***************************************************************************)
(* One conversion, by itself.                                              *)
ConvSpec == given \in Inputs /\ ConvInit /\ [][ConvNext]_convVars

LEMMA Converted == ConvSpec => []ConvInv
<1>1. given \in Inputs /\ ConvInit => ConvInv
  BY ConvInitInv
<1>2. ConvInv /\ [ConvNext]_convVars => ConvInv'
  BY ConvNextInv
<1> QED
  BY <1>1, <1>2, PTL DEF ConvSpec

(* For any claim that is accepted: its byte is the same by its confirm, by *)
(* a fold of the ledger and by the change stream, on its own cell, and no  *)
(* other entry it leaves paints (IsPostedClaim, ParseMessage, Confirm).    *)
THEOREM ColoursTrue == ConvSpec => []ColoursAgree
<1>1. ConvInv => ColoursAgree
  BY ColoursAgreeFollows
<1> QED
  BY <1>1, Converted, PTL

(* For any shape that parses: a line, a circle, an outline, a box or a     *)
(* text is exactly that (shapes.go).                                       *)
THEOREM ShapesTrue == ConvSpec => []ShapesAreExact
<1>1. ConvInv => ShapesAreExact
  BY ShapesFollow
<1> QED
  BY <1>1, Converted, PTL

(* For any text, image and shapes: the blueprint has what they say but at  *)
(* negative coordinates, the last shape on top and every pixel counted     *)
(* once, reads back from what -inspect prints, and is placed on the flag's *)
(* grid whole or refused (LoadPaint, imageToBlueprint, FormatTextArt,      *)
(* ValidateBounds).                                                        *)
THEOREM BlueprintTrue == ConvSpec => []BlueprintIsFaithful
<1>1. ConvInv => BlueprintIsFaithful
  BY BlueprintFollows
<1> QED
  BY <1>1, Converted, PTL

(* For any canvas, and any grid in the flag: the preview shows the         *)
(* server's cells as they will be after a run that is placed by the        *)
(* server's grid, and agrees with painting where the flag has that grid    *)
(* (Preview, RenderPreview).                                               *)
THEOREM PreviewTrue == ConvSpec => []PreviewIsPainting
<1>1. ConvInv => PreviewIsPainting
  BY PreviewFollows
<1> QED
  BY <1>1, Converted, PTL
====
