--------------------------- MODULE Render_proofs ---------------------------
(***************************************************************************)
(* Proofs about the two modules of catbus99-render, Screen and Animation,  *)
(* for every size of the panel, every set of readings and literals, every  *)
(* layout and every width of text, and for every source of frames, every   *)
(* budget and every size of a container that can hold 250 frames.          *)
(*                                                                         *)
(* Both are full of recursive functions: over the strokes of a slot, the   *)
(* slots of a layout, the terms of a sum, Euclid's pairs.  That they exist *)
(* and what they compute is proved by induction over a set of numbers,     *)
(* which rests on the well-foundedness of the order of the natural numbers.*)
(***************************************************************************)
EXTENDS Screen, Animation, TLAPS, FiniteSetTheorems

---------------------------------------------------------------------------
(* Numbers. *)

LEMMA Larger ==
  ASSUME NEW x \in Int, NEW y \in Int
  PROVE  Max({x, y}) = IF x >= y THEN x ELSE y
BY DEF Max

LEMMA Smaller ==
  ASSUME NEW x \in Int, NEW y \in Int
  PROVE  Min({x, y}) = IF x <= y THEN x ELSE y
BY DEF Min

(* A set that has zero, and each number up to n whose predecessor it has,   *)
(* has all numbers up to n.                                                 *)
LEMMA Induction ==
  ASSUME NEW n \in Nat, NEW S, 0 \in S, \A i \in 1..n : i - 1 \in S => i \in S
  PROVE  0..n \subseteq S
<1> DEFINE T == {i \in 0..n : i \notin S}
           R == OpToRel(<, Nat)
<1>1. SUFFICES ASSUME T # {} PROVE FALSE
  OBVIOUS
<1>2. T \subseteq Nat
  OBVIOUS
<1>3. \E x \in T : \A y \in T : ~ (<<y, x>> \in R)
  <2> HIDE DEF T, R
  <2>1. IsWellFoundedOn(R, Nat)
    BY NatLessThanWellFounded DEF R
  <2>2. QED
    BY <1>1, <1>2, <2>1, WFMin
<1>4. PICK x \in T : \A y \in T : ~ (<<y, x>> \in R)
  BY <1>3
<1>5. x # 0 /\ x \in 1..n /\ x - 1 \in 0..n /\ x - 1 \in Nat /\ x \in Nat
  OBVIOUS
<1>6. x - 1 \notin T
  <2>1. <<x - 1, x>> \in R
    BY <1>5 DEF OpToRel
  <2>2. QED
    BY <1>4, <2>1
<1>7. QED
  BY <1>5, <1>6

---------------------------------------------------------------------------
(* The two recursive functions exist, so what is drawn is what they say.    *)

(* h is the ink of c after each of the first k strokes ... *)
PaintsUpTo(h, strokes, c, ink, k) ==
  h = [i \in 0..k |->
         IF i = 0 THEN ink
         ELSE IF c \in strokes[i].cells THEN Over(strokes[i], h[i - 1])
         ELSE h[i - 1]]

(* ... and after each of the first k slots. *)
LayersUpTo(h, list, c, k) ==
  h = [i \in 0..k |-> IF i = 0 THEN <<>> ELSE Painted(list[i], c, h[i - 1])]

LEMMA PaintedSteps ==
  ASSUME NEW strokes, Len(strokes) \in Nat, NEW c, NEW ink
  PROVE  \E h : /\ PaintsUpTo(h, strokes, c, ink, Len(strokes))
                /\ Painted(strokes, c, ink) = h[Len(strokes)]
<1> DEFINE n == Len(strokes)
           S == {k \in 0..n : \E h : PaintsUpTo(h, strokes, c, ink, k)}
<1>1. 0 \in S
  <2>1. PaintsUpTo([i \in 0..0 |-> ink], strokes, c, ink, 0)
    BY DEF PaintsUpTo
  <2>2. QED
    BY <2>1
<1>2. ASSUME NEW k \in 1..n, k - 1 \in S PROVE k \in S
  <2>1. PICK h : PaintsUpTo(h, strokes, c, ink, k - 1)
    BY <1>2
  <2> DEFINE last == IF c \in strokes[k].cells THEN Over(strokes[k], h[k - 1]) ELSE h[k - 1]
             g == [i \in 0..k |-> IF i = k THEN last ELSE h[i]]
  <2>2. /\ \A i \in 0..(k - 1) : g[i] = h[i]
        /\ g[k] = last
        /\ DOMAIN g = 0..k
    OBVIOUS
  <2>3. \A i \in 0..k :
          g[i] = IF i = 0 THEN ink
                 ELSE IF c \in strokes[i].cells THEN Over(strokes[i], g[i - 1])
                 ELSE g[i - 1]
    <3> SUFFICES ASSUME NEW i \in 0..k
                 PROVE  g[i] = IF i = 0 THEN ink
                               ELSE IF c \in strokes[i].cells THEN Over(strokes[i], g[i - 1])
                               ELSE g[i - 1]
      OBVIOUS
    <3>1. CASE i = k
      <4>1. i # 0 /\ i - 1 \in 0..(k - 1)
        BY <3>1
      <4> HIDE DEF g
      <4>2. QED
        BY <2>2, <3>1, <4>1
    <3>2. CASE i # k
      <4>1. i \in 0..(k - 1) /\ (i # 0 => i - 1 \in 0..(k - 1))
        BY <3>2
      <4>2. h[i] = IF i = 0 THEN ink
                   ELSE IF c \in strokes[i].cells THEN Over(strokes[i], h[i - 1])
                   ELSE h[i - 1]
        BY <2>1, <4>1 DEF PaintsUpTo
      <4> HIDE DEF g
      <4>3. QED
        BY <2>2, <4>1, <4>2
    <3>3. QED
      BY <3>1, <3>2
  <2>4. PaintsUpTo(g, strokes, c, ink, k)
    <3>1. g = [i \in 0..k |-> g[i]]
      OBVIOUS
    <3> HIDE DEF g
    <3>2. QED
      BY <2>3, <3>1 DEF PaintsUpTo
  <2>5. QED
    BY <2>4
<1>3. n \in S
  <2>1. n \in Nat
    OBVIOUS
  <2> HIDE DEF S, n
  <2>2. 0..n \subseteq S
    BY <1>1, <1>2, <2>1, Induction
  <2>3. QED
    BY <2>1, <2>2
<1>4. \E h : PaintsUpTo(h, strokes, c, ink, n)
  BY <1>3
<1>5. PICK h : h = CHOOSE g : PaintsUpTo(g, strokes, c, ink, n)
  OBVIOUS
<1>6. PaintsUpTo(h, strokes, c, ink, n)
  BY <1>4, <1>5
<1>7. Painted(strokes, c, ink) = h[n]
  BY <1>5 DEF Painted, PaintsUpTo
<1>8. QED
  BY <1>6, <1>7

LEMMA LayeredSteps ==
  ASSUME NEW list, Len(list) \in Nat, NEW c
  PROVE  \E h : /\ LayersUpTo(h, list, c, Len(list))
                /\ Layered(list, c) = h[Len(list)]
<1> DEFINE n == Len(list)
           S == {k \in 0..n : \E h : LayersUpTo(h, list, c, k)}
<1>1. 0 \in S
  <2>1. LayersUpTo([i \in 0..0 |-> <<>>], list, c, 0)
    BY DEF LayersUpTo
  <2>2. QED
    BY <2>1
<1>2. ASSUME NEW k \in 1..n, k - 1 \in S PROVE k \in S
  <2>1. PICK h : LayersUpTo(h, list, c, k - 1)
    BY <1>2
  <2> DEFINE last == Painted(list[k], c, h[k - 1])
             g == [i \in 0..k |-> IF i = k THEN last ELSE h[i]]
  <2>2. /\ \A i \in 0..(k - 1) : g[i] = h[i]
        /\ g[k] = last
        /\ DOMAIN g = 0..k
    OBVIOUS
  <2>3. \A i \in 0..k : g[i] = IF i = 0 THEN <<>> ELSE Painted(list[i], c, g[i - 1])
    <3> SUFFICES ASSUME NEW i \in 0..k
                 PROVE  g[i] = IF i = 0 THEN <<>> ELSE Painted(list[i], c, g[i - 1])
      OBVIOUS
    <3>1. CASE i = k
      <4>1. i # 0 /\ i - 1 \in 0..(k - 1)
        BY <3>1
      <4> HIDE DEF g
      <4>2. QED
        BY <2>2, <3>1, <4>1
    <3>2. CASE i # k
      <4>1. i \in 0..(k - 1) /\ (i # 0 => i - 1 \in 0..(k - 1))
        BY <3>2
      <4>2. h[i] = IF i = 0 THEN <<>> ELSE Painted(list[i], c, h[i - 1])
        BY <2>1, <4>1 DEF LayersUpTo
      <4> HIDE DEF g
      <4>3. QED
        BY <2>2, <4>1, <4>2
    <3>3. QED
      BY <3>1, <3>2
  <2>4. LayersUpTo(g, list, c, k)
    <3>1. g = [i \in 0..k |-> g[i]]
      OBVIOUS
    <3> HIDE DEF g
    <3>2. QED
      BY <2>3, <3>1 DEF LayersUpTo
  <2>5. QED
    BY <2>4
<1>3. n \in S
  <2>1. n \in Nat
    OBVIOUS
  <2> HIDE DEF S, n
  <2>2. 0..n \subseteq S
    BY <1>1, <1>2, <2>1, Induction
  <2>3. QED
    BY <2>1, <2>2
<1>4. \E h : LayersUpTo(h, list, c, n)
  BY <1>3
<1>5. PICK h : h = CHOOSE g : LayersUpTo(g, list, c, n)
  OBVIOUS
<1>6. LayersUpTo(h, list, c, n)
  BY <1>4, <1>5
<1>7. Layered(list, c) = h[n]
  BY <1>5 DEF Layered, LayersUpTo
<1>8. QED
  BY <1>6, <1>7

---------------------------------------------------------------------------
(* What follows by induction. *)

(* Strokes, and the strokes that stay within a set of cells. *)
AnyStroke == [cells : SUBSET (Int \X Int), solid : BOOLEAN, ink : Ink]

Within(cells) == {s \in AnyStroke : s.cells \subseteq cells}

(* Strokes add ink to ink. *)
LEMMA PaintedType ==
  ASSUME NEW strokes \in Seq(AnyStroke), NEW c, NEW ink \in Seq(Ink)
  PROVE  Painted(strokes, c, ink) \in Seq(Ink)
<1> DEFINE n == Len(strokes)
<1>1. n \in Nat /\ \A i \in 1..n : strokes[i] \in AnyStroke
  OBVIOUS
<1>2. PICK h : PaintsUpTo(h, strokes, c, ink, n) /\ Painted(strokes, c, ink) = h[n]
  BY <1>1, PaintedSteps
<1> DEFINE S == {i \in 0..n : h[i] \in Seq(Ink)}
<1> HIDE DEF n
<1>3. 0 \in S
  BY <1>1, <1>2 DEF PaintsUpTo
<1>4. ASSUME NEW i \in 1..n, i - 1 \in S PROVE i \in S
  <2>1. h[i] = IF c \in strokes[i].cells THEN Over(strokes[i], h[i - 1]) ELSE h[i - 1]
    BY <1>1, <1>2 DEF PaintsUpTo
  <2>2. h[i - 1] \in Seq(Ink) /\ strokes[i].ink \in Ink
    BY <1>1, <1>4 DEF AnyStroke
  <2>3. Over(strokes[i], h[i - 1]) \in Seq(Ink)
    BY <2>2 DEF Over
  <2>4. QED
    BY <1>1, <2>1, <2>2, <2>3
<1>5. n \in S
  <2> HIDE DEF S
  <2>1. 0..n \subseteq S
    BY <1>1, <1>3, <1>4, Induction
  <2>2. QED
    BY <1>1, <2>1
<1>6. QED
  BY <1>2, <1>5

(* Strokes that are elsewhere leave a cell as it was. *)
LEMMA PaintedElsewhere ==
  ASSUME NEW strokes, Len(strokes) \in Nat, NEW c, NEW ink,
         \A i \in 1..Len(strokes) : c \notin strokes[i].cells
  PROVE  Painted(strokes, c, ink) = ink
<1> DEFINE n == Len(strokes)
<1>1. n \in Nat
  OBVIOUS
<1>2. PICK h : PaintsUpTo(h, strokes, c, ink, n) /\ Painted(strokes, c, ink) = h[n]
  BY <1>1, PaintedSteps
<1> DEFINE S == {i \in 0..n : h[i] = ink}
<1>3. 0 \in S
  BY <1>1, <1>2 DEF PaintsUpTo
<1>4. ASSUME NEW i \in 1..n, i - 1 \in S PROVE i \in S
  BY <1>1, <1>2, <1>4 DEF PaintsUpTo
<1> HIDE DEF n
<1>5. n \in S
  <2> HIDE DEF S
  <2>1. 0..n \subseteq S
    BY <1>1, <1>3, <1>4, Induction
  <2>2. QED
    BY <1>1, <2>1
<1>6. QED
  BY <1>2, <1>5

LEMMA LayeredType ==
  ASSUME NEW list, Len(list) \in Nat, NEW c,
         \A i \in 1..Len(list) : list[i] \in Seq(AnyStroke)
  PROVE  Layered(list, c) \in Seq(Ink)
<1> DEFINE n == Len(list)
<1>1. n \in Nat /\ \A i \in 1..n : list[i] \in Seq(AnyStroke)
  OBVIOUS
<1>2. PICK h : LayersUpTo(h, list, c, n) /\ Layered(list, c) = h[n]
  BY <1>1, LayeredSteps
<1> DEFINE S == {i \in 0..n : h[i] \in Seq(Ink)}
<1>3. 0 \in S
  BY <1>1, <1>2 DEF LayersUpTo
<1> HIDE DEF n
<1>4. ASSUME NEW i \in 1..n, i - 1 \in S PROVE i \in S
  <2>1. h[i] = Painted(list[i], c, h[i - 1])
    BY <1>1, <1>2 DEF LayersUpTo
  <2>2. h[i - 1] \in Seq(Ink)
    BY <1>4
  <2>3. h[i] \in Seq(Ink)
    BY <1>1, <2>1, <2>2, PaintedType
  <2>4. QED
    BY <1>1, <2>3
<1>5. n \in S
  <2> HIDE DEF S
  <2>1. 0..n \subseteq S
    BY <1>1, <1>3, <1>4, Induction
  <2>2. QED
    BY <1>1, <2>1
<1>6. QED
  BY <1>2, <1>5

(* If no slot but the k-th draws on a cell, it shows what the k-th draws.   *)
LEMMA LayeredAlone ==
  ASSUME NEW list, Len(list) \in Nat, NEW c, NEW k \in 1..Len(list),
         \A i \in 1..Len(list) : Len(list[i]) \in Nat,
         \A i \in 1..Len(list) : \A j \in 1..Len(list[i]) :
           i # k => c \notin list[i][j].cells
  PROVE  Layered(list, c) = Painted(list[k], c, <<>>)
<1> DEFINE n == Len(list)
           alone == Painted(list[k], c, <<>>)
<1>1. n \in Nat /\ k \in 1..n
  OBVIOUS
<1>2. PICK h : LayersUpTo(h, list, c, n) /\ Layered(list, c) = h[n]
  BY <1>1, LayeredSteps
<1>3. /\ h[0] = <<>>
      /\ \A i \in 1..n : h[i] = Painted(list[i], c, h[i - 1])
  BY <1>1, <1>2 DEF LayersUpTo
<1>4. ASSUME NEW i \in 1..n, i # k PROVE h[i] = h[i - 1]
  <2>1. /\ h[i] = Painted(list[i], c, h[i - 1]) /\ Len(list[i]) \in Nat
        /\ \A j \in 1..Len(list[i]) : c \notin list[i][j].cells
    BY <1>3, <1>4
  <2>2. QED
    BY <2>1, PaintedElsewhere
<1> DEFINE S == {i \in 0..n : h[i] = IF i < k THEN <<>> ELSE alone}
<1>5. 0 \in S
  BY <1>1, <1>3
<1>6. ASSUME NEW i \in 1..n, i - 1 \in S PROVE i \in S
  <2>1. CASE i = k
    <3>1. h[i - 1] = <<>>
      BY <1>1, <1>6, <2>1
    <3>2. QED
      BY <1>1, <1>3, <2>1, <3>1
  <2>2. CASE i # k
    <3> HIDE DEF alone, n
    <3>1. QED
      BY <1>1, <1>4, <1>6, <2>2
  <2>3. QED
    BY <2>1, <2>2
<1> HIDE DEF n
<1>7. n \in S
  <2> HIDE DEF S
  <2>1. 0..n \subseteq S
    BY <1>1, <1>5, <1>6, Induction
  <2>2. QED
    BY <1>1, <2>1
<1> HIDE DEF alone
<1>8. h[n] = alone
  BY <1>1, <1>7
<1>9. QED
  BY <1>2, <1>8 DEF alone

(* If no slot draws on a cell, it is empty. *)
LEMMA LayeredNothing ==
  ASSUME NEW list, Len(list) \in Nat, NEW c,
         \A i \in 1..Len(list) : list[i] = <<>>
  PROVE  Layered(list, c) = <<>>
<1> DEFINE n == Len(list)
<1>1. n \in Nat
  OBVIOUS
<1>2. PICK h : LayersUpTo(h, list, c, n) /\ Layered(list, c) = h[n]
  BY <1>1, LayeredSteps
<1> DEFINE S == {i \in 0..n : h[i] = <<>>}
<1>3. 0 \in S
  BY <1>1, <1>2 DEF LayersUpTo
<1>4. ASSUME NEW i \in 1..n, i - 1 \in S PROVE i \in S
  <2>1. h[i] = Painted(list[i], c, h[i - 1])
    BY <1>1, <1>2 DEF LayersUpTo
  <2>2. list[i] = <<>> /\ Len(<<>>) = 0 /\ h[i - 1] = <<>>
    BY <1>4
  <2>3. Painted(<<>>, c, <<>>) = <<>>
    BY PaintedElsewhere
  <2>4. QED
    BY <1>1, <2>1, <2>2, <2>3
<1> HIDE DEF n
<1>5. n \in S
  <2> HIDE DEF S
  <2>1. 0..n \subseteq S
    BY <1>1, <1>3, <1>4, Induction
  <2>2. QED
    BY <1>1, <2>1
<1>6. QED
  BY <1>2, <1>5

---------------------------------------------------------------------------
(* What is resolved. *)

StoreType(st) == \A p \in Point : st[p] \in Reading(p) \cup {None}

LEMMA ResolveType ==
  ASSUME NEW st, StoreType(st), NEW bind \in Bind \cup {None}
  PROVE  Resolve(bind, st) \in [value : Value, left : 0..Ahead \cup {None},
                                stale : BOOLEAN, missing : BOOLEAN]
<1>1. CASE bind \notin Point
  BY <1>1 DEF Resolve, Resolved, Bind, Value
<1>2. CASE bind \in Point /\ st[bind] = None
  BY <1>2 DEF Resolve, Resolved, Value
<1>3. CASE bind \in Point /\ st[bind] # None
  <2>1. st[bind] \in Reading(bind)
    BY <1>3 DEF StoreType
  <2>2. st[bind].value \in Value /\ st[bind].left \in 0..Ahead \cup {None}
    BY <1>3, <2>1 DEF Reading, Value
  <2>3. IsStale(st[bind]) \in BOOLEAN
    BY DEF IsStale
  <2>4. QED
    BY <1>3, <2>2, <2>3 DEF Resolve, Resolved
<1>4. QED
  BY <1>1, <1>2, <1>3

LEMMA NumberType ==
  ASSUME NEW st, StoreType(st), NEW bind \in Bind \cup {None}, NEW fallback \in Value
  PROVE  NumberOr(Resolve(bind, st), fallback) \in Value
BY ResolveType DEF NumberOr

LEMMA DegradedType ==
  ASSUME NEW st, StoreType(st), NEW bind \in Bind \cup {None}
  PROVE  Degraded(Resolve(bind, st)) \in BOOLEAN
BY DEF Degraded

(* Whole steps of what is left are no more than what is left. *)
LEMMA RemainingType ==
  ASSUME NEW left \in 0..Ahead, NEW every \in Nat
  PROVE  Remaining(left, every) \in 0..Ahead
<1> DEFINE step == Max({every, 1})
<1>1. step \in Nat /\ step > 0
  BY Larger
<1> HIDE DEF step
<1>2. left \in Nat /\ left <= Ahead /\ Ahead \in Nat
  BY ScreenAssumption
<1> DEFINE q == left \div step
<1>3. left = step * q + (left % step) /\ left % step >= 0 /\ left % step < step /\ q \in Nat
  BY <1>1, <1>2
<1>4. left % step \in Int
  BY <1>1, <1>2
<1> HIDE DEF q
<1>5. step * q \in Nat /\ q * step = step * q
  BY <1>1, <1>3
<1>6. q * step \in 0..Ahead
  BY <1>2, <1>3, <1>4, <1>5
<1>7. QED
  BY <1>6 DEF Remaining, step, q

LEMMA QuantizeType ==
  ASSUME NEW m \in 0..(Hour - 1), NEW every \in Nat
  PROVE  QuantizeTime(m, every) \in 0..(Hour - 1)
<1>1. Hour \in Nat /\ Hour > 0
  BY ScreenAssumption
<1>2. CASE every <= 1
  BY <1>2 DEF QuantizeTime
<1>3. CASE every > 1
  <2>1. m % every \in 0..m
    <3>1. m = every * (m \div every) + (m % every) /\ m % every >= 0 /\ m \div every >= 0
          /\ m % every \in Int /\ m \div every \in Int
      BY <1>3
    <3>2. every * (m \div every) >= 0
      BY <1>3, <3>1
    <3>3. QED
      BY <3>1, <3>2
  <2>2. QED
    BY <1>1, <1>3, <2>1 DEF QuantizeTime
<1>4. QED
  BY <1>2, <1>3

---------------------------------------------------------------------------
(* What is drawn. *)

LEMMA ClippedRect ==
  ASSUME NEW r \in Rect
  PROVE  /\ Clipped(r) \in Rect
         /\ Clipped(r).x + Clipped(r).w <= Width
         /\ Clipped(r).y + Clipped(r).h <= Height
         /\ r.x + r.w <= Width /\ r.y + r.h <= Height => Clipped(r) = r
<1>1. /\ r.x \in Nat /\ r.y \in Nat /\ r.w \in Nat /\ r.h \in Nat
      /\ r = [x |-> r.x, y |-> r.y, w |-> r.w, h |-> r.h]
  BY DEF Rect
<1>2. Width \in Nat /\ Height \in Nat
  BY ScreenAssumption
<1> DEFINE x == Min({r.x, Width})
           y == Min({r.y, Height})
           w == Min({r.w, Width - x})
           h == Min({r.h, Height - y})
<1>3. x = (IF r.x <= Width THEN r.x ELSE Width) /\ y = (IF r.y <= Height THEN r.y ELSE Height)
  BY <1>1, <1>2, Smaller
<1>4. Clipped(r) = [x |-> x, y |-> y, w |-> w, h |-> h]
  BY DEF Clipped
<1> HIDE DEF x, y
<1>5. x \in Int /\ y \in Int
  BY <1>1, <1>2, <1>3
<1>6. w = (IF r.w <= Width - x THEN r.w ELSE Width - x)
      /\ h = (IF r.h <= Height - y THEN r.h ELSE Height - y)
  BY <1>1, <1>2, <1>5, Smaller
<1> HIDE DEF w, h
<1>7. /\ w \in Nat /\ h \in Nat /\ x \in Nat /\ y \in Nat
      /\ x + w <= Width /\ y + h <= Height
      /\ r.x + r.w <= Width /\ r.y + r.h <= Height =>
           x = r.x /\ y = r.y /\ w = r.w /\ h = r.h
  BY <1>1, <1>2, <1>3, <1>6
<1>8. QED
  BY <1>1, <1>4, <1>7 DEF Rect

LEMMA CellsType ==
  /\ Cell \subseteq Int \X Int
  /\ \A r \in Rect : CellsOf(r) \in SUBSET (Int \X Int) /\ ArcCells(r) \in SUBSET (Int \X Int)
  /\ \A r, y, width, scale, align :
       TextCells(r, y, width, scale, align) \in SUBSET (Int \X Int)
  /\ \A r, y, h, width, preferred, align :
       Centred(r, y, h, width, preferred, align) \in SUBSET (Int \X Int)
<1>1. Cell \subseteq Int \X Int
  BY DEF Cell
<1>2. \A r \in Rect : CellsOf(r) \in SUBSET (Int \X Int)
  BY DEF CellsOf, Rect
<1>3. \A r \in Rect : ArcCells(r) \in SUBSET (Int \X Int)
  BY <1>1, <1>2 DEF ArcCells
<1>4. \A r, y, width, scale, align : TextCells(r, y, width, scale, align) \subseteq Cell
  BY DEF TextCells
<1>5. \A r, y, h, width, preferred, align :
        Centred(r, y, h, width, preferred, align) \subseteq Cell
  BY <1>4 DEF Centred
<1>6. QED
  BY <1>1, <1>2, <1>3, <1>4, <1>5

Mark == {"text", "time", "bar", "percent", "arc", "timer", "label", "image", "note", "line", "fill"}

LEMMA StrokeWithin ==
  ASSUME NEW cells, NEW area \in SUBSET (Int \X Int), area \subseteq cells,
         NEW solid \in BOOLEAN, NEW what \in Mark,
         NEW value \in Value \cup 0..(Hour - 1), NEW dim \in BOOLEAN
  PROVE  Stroke(area, solid, what, value, dim) \in Within(cells)
BY DEF Stroke, Within, AnyStroke, Ink, Mark

(* The texts of a widget, and a gauge's arc, are drawn within some cells. *)
LabelIn(w, r, st, cells) ==
  Centred(r, r.y, r.h, TextWidth[Resolve(w.bind, st).value], w.size, w.align) \subseteq cells

ClockIn(w, r, m, cells) ==
  Centred(r, r.y, r.h, w.wide[QuantizeTime(m, w.every)], w.size, w.align) \subseteq cells

PercentCells(bar, v) == Centred(bar, bar.y, bar.h, PercentWidth[v], 1, "center")

BarIn(w, r, st, cells) ==
  /\ LabelAbove(w, r) =>
       TextCells(r, r.y, TextWidth[Resolve(w.label, st).value], 1, "left") \subseteq cells
  /\ w.show /\ BarBelow(w, r).h >= LineHeight =>
       PercentCells(BarBelow(w, r), NumberOr(Resolve(w.bind, st), 0)) \subseteq cells

GaugeIn(w, r, st, cells) ==
  /\ ArcCells(r) \subseteq cells
  /\ TextCells(r, r.y + Less(r.h, LineHeight), w.wide[NumberOr(Resolve(w.bind, st), w.min)],
               1, "center") \subseteq cells

TimeY(w, r) == IF w.label = None THEN r.y ELSE r.y + LineHeight + 1

TimeWidth(w, val) ==
  IF val.left # None THEN w.wide[Remaining(val.left, w.every)] ELSE TextWidth[None]

TimeCells(w, r, val) ==
  Centred(r, TimeY(w, r), Less(r.h, TimeY(w, r) - r.y), TimeWidth(w, val), 2, "center")

TimerIn(w, r, st, cells) ==
  /\ w.label # None => TextCells(r, r.y, w.label, 1, "center") \subseteq cells
  /\ TimeCells(w, r, Resolve(w.bind, st)) \subseteq cells

NoteIn(w, r, cells) ==
  ~w.loads => Centred(r, r.y, r.h, NoteWidth, 1, "center") \subseteq cells

TextsIn(w, r, st, m, cells) ==
  /\ w.type = "label" => LabelIn(w, r, st, cells)
  /\ w.type = "clock" => ClockIn(w, r, m, cells)
  /\ w.type = "bar" => BarIn(w, r, st, cells)
  /\ w.type = "gauge" => GaugeIn(w, r, st, cells)
  /\ w.type = "timer" => TimerIn(w, r, st, cells)
  /\ w.type = "image" => NoteIn(w, r, cells)

(* A widget of a type has the fields of the type. *)
LEMMA WidgetFields ==
  ASSUME NEW w \in Widget
  PROVE  /\ w.type \in {"label", "clock", "bar", "gauge", "timer", "image", "line", "fill"}
         /\ w.type = "label" => w.bind \in Bind /\ w.size \in Size /\ w.align \in Align
         /\ w.type = "clock" => /\ w.every \in Nat /\ w.size \in Size /\ w.align \in Align
                                /\ w.wide \in [0..(Hour - 1) -> Nat]
         /\ w.type = "bar" =>
              w.bind \in Bind /\ w.label \in Bind \cup {None} /\ w.show \in BOOLEAN
         /\ w.type = "gauge" => w.bind \in Bind /\ w.min \in Value /\ w.wide \in [Value -> Nat]
         /\ w.type = "timer" => /\ w.bind \in Bind /\ w.label \in Nat \cup {None}
                                /\ w.every \in Nat /\ w.wide \in [0..Ahead -> Nat]
         /\ w.type = "image" => w.loads \in BOOLEAN
         /\ w.type = "line" => w.points \in Nat
<1>1. CASE w \in [type : {"label"}, bind : Bind, size : Size, align : Align]
  BY <1>1
<1>2. CASE w \in [type : {"clock"}, every : Nat, size : Size, align : Align,
                  wide : [0..(Hour - 1) -> Nat]]
  BY <1>2
<1>3. CASE w \in [type : {"bar"}, bind : Bind, label : Bind \cup {None}, show : BOOLEAN]
  BY <1>3
<1>4. CASE w \in [type : {"gauge"}, bind : Bind, min : Value, wide : [Value -> Nat]]
  BY <1>4
<1>5. CASE w \in [type : {"timer"}, bind : Bind, label : Nat \cup {None}, every : Nat,
                  wide : [0..Ahead -> Nat]]
  BY <1>5
<1>6. CASE w \in [type : {"image"}, loads : BOOLEAN]
  BY <1>6
<1>7. CASE w \in [type : {"line"}, points : Nat]
  BY <1>7
<1>8. CASE w = Fill
  BY <1>8 DEF Fill
<1>9. QED
  BY <1>1, <1>2, <1>3, <1>4, <1>5, <1>6, <1>7, <1>8 DEF Widget

LEMMA LabelWithin ==
  ASSUME NEW w \in Widget, w.type = "label", NEW r \in Rect, NEW st, StoreType(st),
         NEW cells, LabelIn(w, r, st, cells)
  PROVE  LabelStroke(w, r, st) \in Within(cells)
<1> DEFINE val == Resolve(w.bind, st)
           text == Centred(r, r.y, r.h, TextWidth[val.value], w.size, w.align)
<1>1. w.bind \in Bind \cup {None} /\ text \in SUBSET (Int \X Int)
  BY WidgetFields, CellsType
<1>2. val.value \in Value /\ Degraded(val) \in BOOLEAN
  BY <1>1, ResolveType, DegradedType
<1>3. text \subseteq cells
  BY DEF LabelIn
<1>4. LabelStroke(w, r, st) = Stroke(text, FALSE, "text", val.value, Degraded(val))
  BY DEF LabelStroke, TextStroke
<1> HIDE DEF text, val
<1>5. QED
  BY <1>1, <1>2, <1>3, <1>4, StrokeWithin DEF Mark

LEMMA ClockWithin ==
  ASSUME NEW w \in Widget, w.type = "clock", NEW r \in Rect, NEW m \in 0..(Hour - 1),
         NEW cells, ClockIn(w, r, m, cells)
  PROVE  TimeStroke(w, r, m) \in Within(cells)
<1> DEFINE time == QuantizeTime(m, w.every)
           text == Centred(r, r.y, r.h, w.wide[time], w.size, w.align)
<1>1. time \in 0..(Hour - 1) /\ text \in SUBSET (Int \X Int)
  BY WidgetFields, QuantizeType, CellsType
<1>2. text \subseteq cells
  BY DEF ClockIn
<1>3. TimeStroke(w, r, m) = Stroke(text, FALSE, "time", time, FALSE)
  BY DEF TimeStroke
<1> HIDE DEF text, time
<1>4. QED
  BY <1>1, <1>2, <1>3, StrokeWithin DEF Mark

(* The bar takes the slot, or what is left of it below the label. *)
LEMMA BarBelowRect ==
  ASSUME NEW w, NEW r \in Rect
  PROVE  /\ BarBelow(w, r) \in Rect /\ BarBelow(w, r).w = r.w
         /\ CellsOf(BarBelow(w, r)) \subseteq CellsOf(r)
<1>1. LineHeight \in Nat /\ r.x \in Nat /\ r.y \in Nat /\ r.w \in Nat /\ r.h \in Nat
  BY ScreenAssumption DEF Rect
<1>2. CASE LabelAbove(w, r)
  <2> DEFINE y == r.y + LineHeight + 1
             h == r.h - LineHeight - 1
             b == [[r EXCEPT !.y = y] EXCEPT !.h = h]
  <2>1. y \in Nat /\ h \in Nat /\ y >= r.y /\ y + h = r.y + r.h
    BY <1>1, <1>2 DEF LabelAbove
  <2>2. BarBelow(w, r) = b
    BY <1>2 DEF BarBelow, Rect
  <2> HIDE DEF y, h
  <2>3. b \in Rect /\ b.x = r.x /\ b.w = r.w /\ b.y = y /\ b.h = h
    BY <2>1 DEF Rect
  <2> HIDE DEF b
  <2>4. y..(y + h - 1) \subseteq r.y..(r.y + r.h - 1)
    BY <1>1, <2>1
  <2>5. CellsOf(b) \subseteq CellsOf(r)
    BY <2>3, <2>4 DEF CellsOf
  <2>6. QED
    BY <2>2, <2>3, <2>5
<1>3. CASE ~LabelAbove(w, r)
  BY <1>3 DEF BarBelow
<1>4. QED
  BY <1>2, <1>3

LEMMA BarWithin ==
  ASSUME NEW w \in Widget, w.type = "bar", NEW r \in Rect, NEW st, StoreType(st),
         NEW cells, BarIn(w, r, st, cells), CellsOf(r) \subseteq cells
  PROVE  BarStrokes(w, r, st) \in Seq(Within(cells))
<1> DEFINE val == Resolve(w.bind, st)
           v == NumberOr(val, 0)
           above == LabelAbove(w, r)
           bar == BarBelow(w, r)
           says == w.show /\ bar.h >= LineHeight
           lr == Resolve(w.label, st)
           text == TextCells(r, r.y, TextWidth[lr.value], 1, "left")
           label == Stroke(text, FALSE, "text", lr.value, Degraded(lr))
           fill == Stroke(CellsOf(bar), TRUE, "bar", v, Degraded(val))
           percent == Stroke(PercentCells(bar, v), FALSE, "percent", v, FALSE)
<1>1. w.bind \in Bind \cup {None} /\ w.label \in Bind \cup {None} /\ 0 \in Value
  BY WidgetFields DEF Value
<1>2. v \in Value /\ Degraded(val) \in BOOLEAN /\ lr.value \in Value /\ Degraded(lr) \in BOOLEAN
  BY <1>1, ResolveType, DegradedType, NumberType
<1>3. CellsOf(bar) \in SUBSET (Int \X Int) /\ CellsOf(bar) \subseteq cells
  BY BarBelowRect, CellsType
<1>4. above => label \in Within(cells)
  <2>1. text \in SUBSET (Int \X Int) /\ (above => text \subseteq cells)
    BY CellsType DEF BarIn
  <2> HIDE DEF text, lr
  <2>2. QED
    BY <1>2, <2>1, StrokeWithin DEF Mark
<1>5. says => percent \in Within(cells)
  <2> DEFINE number == PercentCells(bar, v)
  <2>1. number \in SUBSET (Int \X Int) /\ (says => number \subseteq cells)
    BY CellsType DEF BarIn, PercentCells
  <2> HIDE DEF number, v, says
  <2>2. says => Stroke(number, FALSE, "percent", v, FALSE) \in Within(cells)
    BY <1>2, <2>1, StrokeWithin DEF Mark
  <2>3. QED
    BY <2>2 DEF number
<1>6. fill \in Within(cells)
  <2> HIDE DEF bar, v, val
  <2>1. QED
    BY <1>2, <1>3, StrokeWithin DEF Mark
<1>7. BarStrokes(w, r, st) =
        (IF above THEN <<label>> ELSE <<>>) \o <<fill>> \o (IF says THEN <<percent>> ELSE <<>>)
  BY DEF BarStrokes, TextStroke, PercentCells
<1> HIDE DEF above, says, label, fill, percent
<1>8. QED
  BY <1>4, <1>5, <1>6, <1>7

LEMMA GaugeWithin ==
  ASSUME NEW w \in Widget, w.type = "gauge", NEW r \in Rect, NEW st, StoreType(st),
         NEW cells, GaugeIn(w, r, st, cells)
  PROVE  GaugeStrokes(w, r, st) \in Seq(Within(cells))
<1> DEFINE val == Resolve(w.bind, st)
           v == NumberOr(val, w.min)
           text == TextCells(r, r.y + Less(r.h, LineHeight), w.wide[v], 1, "center")
           arc == Stroke(ArcCells(r), FALSE, "arc", v, Degraded(val))
           number == Stroke(text, FALSE, "text", v, Degraded(val))
<1>1. w.bind \in Bind \cup {None} /\ w.min \in Value
  BY WidgetFields
<1>2. v \in Value /\ Degraded(val) \in BOOLEAN
  BY <1>1, DegradedType, NumberType
<1>3. text \in SUBSET (Int \X Int) /\ text \subseteq cells
  BY CellsType DEF GaugeIn
<1>4. ArcCells(r) \in SUBSET (Int \X Int) /\ ArcCells(r) \subseteq cells
  BY CellsType DEF GaugeIn
<1>5. GaugeStrokes(w, r, st) = <<arc, number>>
  BY DEF GaugeStrokes, TextStroke, Arc
<1> HIDE DEF v, val, text
<1>6. arc \in Within(cells) /\ number \in Within(cells)
  BY <1>2, <1>3, <1>4, StrokeWithin DEF Mark
<1> HIDE DEF arc, number
<1>7. QED
  BY <1>5, <1>6

LEMMA TimerWithin ==
  ASSUME NEW w \in Widget, w.type = "timer", NEW r \in Rect, NEW st, StoreType(st),
         NEW cells, TimerIn(w, r, st, cells)
  PROVE  TimerStrokes(w, r, st) \in Seq(Within(cells))
<1> DEFINE val == Resolve(w.bind, st)
           known == val.left # None
           n == IF known THEN Remaining(val.left, w.every) ELSE None
           shown == IF known THEN val.value ELSE None
           dim == ~known \/ Degraded(val)
           text == TimeCells(w, r, val)
           above == TextCells(r, r.y, w.label, 1, "center")
           label == Stroke(above, FALSE, "label", None, FALSE)
           time == Stroke(text, FALSE, "timer", shown, dim)
           left == [time EXCEPT !.ink.left = n]
<1>1. w.bind \in Bind \cup {None} /\ None \in Value /\ w.every \in Nat
  BY WidgetFields DEF Value
<1>2. val.value \in Value /\ Degraded(val) \in BOOLEAN /\ val.left \in 0..Ahead \cup {None}
  BY <1>1, ResolveType, DegradedType
<1>3. /\ text \in SUBSET (Int \X Int) /\ text \subseteq cells
      /\ above \in SUBSET (Int \X Int) /\ (w.label # None => above \subseteq cells)
  BY CellsType DEF TimerIn, TimeCells
<1>4. TimerStrokes(w, r, st) = (IF w.label = None THEN <<>> ELSE <<label>>) \o <<left>>
  BY DEF TimerStrokes, TimeCells, TimeY, TimeWidth
<1> HIDE DEF val
<1>5. n \in 0..Ahead \cup {None} /\ shown \in Value /\ dim \in BOOLEAN
  BY <1>1, <1>2, RemainingType
<1> HIDE DEF known, n, shown, dim, text, above
<1>6. (w.label # None => label \in Within(cells)) /\ time \in Within(cells)
  BY <1>1, <1>3, <1>5, StrokeWithin DEF Mark
<1> HIDE DEF time
<1>7. left \in Within(cells)
  BY <1>5, <1>6 DEF Within, AnyStroke, Ink
<1> HIDE DEF label, left
<1>8. QED
  BY <1>4, <1>6, <1>7

LEMMA ImageWithin ==
  ASSUME NEW w \in Widget, w.type = "image", NEW r \in Rect,
         NEW cells, NoteIn(w, r, cells), CellsOf(r) \subseteq cells
  PROVE  ImageStrokes(w, r) \in Seq(Within(cells))
<1> DEFINE text == Centred(r, r.y, r.h, NoteWidth, 1, "center")
           image == Stroke(CellsOf(r), w.loads, "image", None, ~w.loads)
           note == Stroke(text, FALSE, "note", None, TRUE)
<1>1. w.loads \in BOOLEAN /\ (~w.loads) \in BOOLEAN /\ None \in Value
  <2>1. w.loads \in BOOLEAN
    BY WidgetFields
  <2>2. QED
    BY <2>1 DEF Value
<1>2. text \in SUBSET (Int \X Int) /\ (~w.loads => text \subseteq cells)
  BY CellsType DEF NoteIn
<1>3. image \in Within(cells)
  BY <1>1, CellsType, StrokeWithin DEF Mark
<1>4. ImageStrokes(w, r) = <<image>> \o (IF w.loads THEN <<>> ELSE <<note>>)
  BY DEF ImageStrokes
<1> HIDE DEF text
<1>5. ~w.loads => note \in Within(cells)
  BY <1>1, <1>2, StrokeWithin DEF Mark
<1> HIDE DEF image, note
<1>6. QED
  BY <1>3, <1>4, <1>5

(* A widget draws within its rectangle, if its texts do. *)
LEMMA StrokesWithin ==
  ASSUME NEW w \in Widget, NEW r \in Rect, NEW st, StoreType(st), NEW m \in 0..(Hour - 1),
         NEW cells, TextsIn(w, r, st, m, cells), CellsOf(r) \subseteq cells
  PROVE  Strokes(w, r, st, m) \in Seq(Within(cells))
<1>1. CellsOf(r) \in SUBSET (Int \X Int) /\ None \in Value
  BY CellsType DEF Value
<1>2. CASE w.type = "label"
  BY <1>2, LabelWithin DEF Strokes, TextsIn
<1>3. CASE w.type = "bar"
  BY <1>3, BarWithin DEF Strokes, TextsIn
<1>4. CASE w.type = "gauge"
  BY <1>4, GaugeWithin DEF Strokes, TextsIn
<1>5. CASE w.type = "timer"
  BY <1>5, TimerWithin DEF Strokes, TextsIn
<1>6. CASE w.type = "fill"
  <2> DEFINE fill == Stroke(CellsOf(r), TRUE, "fill", None, FALSE)
  <2>1. fill \in Within(cells)
    BY <1>1, StrokeWithin DEF Mark
  <2>2. Strokes(w, r, st, m) = <<fill>>
    BY <1>6 DEF Strokes
  <2> HIDE DEF fill
  <2>3. QED
    BY <2>1, <2>2
<1>7. CASE w.type = "clock"
  BY <1>7, ClockWithin DEF Strokes, TextsIn
<1>8. CASE w.type = "image"
  BY <1>8, ImageWithin DEF Strokes, TextsIn
<1>9. CASE w.type = "line"
  <2> DEFINE line == Stroke(CellsOf(r), FALSE, "line", None, FALSE)
  <2>1. line \in Within(cells)
    BY <1>1, StrokeWithin DEF Mark
  <2>2. Strokes(w, r, st, m) = IF w.points < 2 THEN <<>> ELSE <<line>>
    BY <1>9 DEF Strokes, LineStrokes
  <2> HIDE DEF line
  <2>3. QED
    BY <2>1, <2>2
<1>10. QED
  BY <1>2, <1>3, <1>4, <1>5, <1>6, <1>7, <1>8, <1>9, WidgetFields

(* What a slot is drawn with is a sequence of strokes, none if it is empty  *)
(* or has no widget.                                                        *)
LEMMA SlotStrokesType ==
  ASSUME NEW slot, slot.rect \in Rect, slot.widget \in Widget \cup {None},
         NEW st, StoreType(st), NEW m \in 0..(Hour - 1)
  PROVE  /\ SlotStrokes(slot, st, m) \in Seq(AnyStroke)
         /\ slot.widget = None => SlotStrokes(slot, st, m) = <<>>
<1> DEFINE r == Clipped(slot.rect)
<1>1. r \in Rect
  BY ClippedRect
<1>2. CASE IsEmpty(r) \/ slot.widget = None
  BY <1>2 DEF SlotStrokes
<1>3. CASE ~ (IsEmpty(r) \/ slot.widget = None)
  <2>1. SlotStrokes(slot, st, m) = Strokes(slot.widget, r, st, m)
    BY <1>3 DEF SlotStrokes
  <2>2. TextsIn(slot.widget, r, st, m, Int \X Int)
    BY <1>1, CellsType DEF TextsIn, LabelIn, ClockIn, BarIn, GaugeIn, TimerIn, NoteIn,
                           PercentCells, TimeCells
  <2>3. CellsOf(r) \subseteq Int \X Int
    BY <1>1, CellsType
  <2>4. Within(Int \X Int) = AnyStroke
    BY DEF Within, AnyStroke
  <2> HIDE DEF r
  <2>5. QED
    BY <1>1, <1>3, <2>1, <2>2, <2>3, <2>4, StrokesWithin
<1>4. QED
  BY <1>2, <1>3

(* The slots of a layout, and their strokes. *)
LEMMA LayoutSlots ==
  ASSUME NEW l \in Layout
  PROVE  /\ Len(l) \in Nat /\ DOMAIN l = 1..Len(l)
         /\ \A i \in 1..Len(l) :
              /\ l[i] = Slot(l[i].id, l[i].rect, l[i].widget)
              /\ l[i].id \in Name /\ l[i].rect \in Rect /\ l[i].widget \in Widget \cup {None}
<1> DEFINE S == [id : Name, rect : Rect, widget : Widget \cup {None}]
<1>1. l \in Seq(S)
  BY DEF Layout
<1>2. \A s \in S : /\ s = Slot(s.id, s.rect, s.widget)
                    /\ s.id \in Name /\ s.rect \in Rect /\ s.widget \in Widget \cup {None}
  BY DEF Slot
<1> HIDE DEF S
<1>3. QED
  BY <1>1, <1>2

Drawing(l, st, m) == [i \in DOMAIN l |-> SlotStrokes(l[i], st, m)]

LEMMA DrawingOf ==
  ASSUME NEW l \in Layout, NEW st, StoreType(st), NEW m \in 0..(Hour - 1)
  PROVE  /\ Len(Drawing(l, st, m)) = Len(l)
         /\ \A i \in 1..Len(l) : /\ Drawing(l, st, m)[i] = SlotStrokes(l[i], st, m)
                                 /\ Drawing(l, st, m)[i] \in Seq(AnyStroke)
<1> DEFINE d == Drawing(l, st, m)
<1>1. Len(l) \in Nat /\ DOMAIN l = 1..Len(l)
  BY LayoutSlots
<1>2. ASSUME NEW i \in 1..Len(l)
      PROVE  d[i] = SlotStrokes(l[i], st, m) /\ d[i] \in Seq(AnyStroke)
  <2>1. l[i].rect \in Rect /\ l[i].widget \in Widget \cup {None}
    BY LayoutSlots
  <2>2. SlotStrokes(l[i], st, m) \in Seq(AnyStroke)
    BY <2>1, SlotStrokesType
  <2>3. QED
    BY <1>1, <2>2 DEF Drawing
<1>3. DOMAIN d = 1..Len(l) /\ d = [i \in 1..Len(l) |-> d[i]]
  BY <1>1 DEF Drawing
<1>4. d \in Seq({d[i] : i \in 1..Len(l)}) /\ Len(d) = Len(l)
  <2> HIDE DEF d
  <2>1. QED
    BY <1>1, <1>3
<1>5. QED
  BY <1>2, <1>4

(* Every image that is composed has its type. *)
LEMMA ComposeType ==
  ASSUME NEW l \in Layout, NEW st, StoreType(st), NEW m \in 0..(Hour - 1)
  PROVE  /\ Compose(l, st, m) = [c \in Cell |-> Layered(Drawing(l, st, m), c)]
         /\ Compose(l, st, m) \in [Cell -> Seq(Ink)]
<1> DEFINE d == Drawing(l, st, m)
<1>1. Compose(l, st, m) = [c \in Cell |-> Layered(d, c)]
  <2>1. d \in Seq({d[i] : i \in 1..Len(l)})
    <3>1. Len(l) \in Nat /\ DOMAIN d = 1..Len(l) /\ d = [i \in 1..Len(l) |-> d[i]]
      BY LayoutSlots DEF Drawing
    <3> HIDE DEF d
    <3>2. QED
      BY <3>1
  <2>2. d \o <<>> = d
    <3> HIDE DEF d
    <3>1. QED
      BY <2>1
  <2>3. QED
    BY <2>2 DEF Compose, Drawing
<1>2. Len(d) \in Nat /\ \A i \in 1..Len(d) : d[i] \in Seq(AnyStroke)
  BY DrawingOf, LayoutSlots
<1> HIDE DEF d
<1>3. \A c \in Cell : Layered(d, c) \in Seq(Ink)
  BY <1>2, LayeredType
<1>4. QED
  BY <1>1, <1>3 DEF d

---------------------------------------------------------------------------
(* Every variable keeps its type: what is on the panel is always an image   *)
(* that compose may make, the picture, or none of ours.                     *)

Images == {Native, Torn, Picture} \cup [Cell -> Seq(Ink)]

(* What a write does to the panel, and what it answers. *)
LEMMA OutcomeType ==
  ASSUME NEW v \in {"upload", "unchanged", "refused", "device_error"}
  PROVE  Outcome(v) \in Answer
BY DEF Outcome, Answer

LEMMA UploadType ==
  ASSUME NEW img \in Images, panel \in Images, Upload(img)
  PROVE  panel' \in Images /\ answer' \in Answer
<1> HIDE DEF Images
<1>1. CASE Refused(img)
  <2>1. PICK v \in Verdicts(img) \ {"upload"} : answer' = Outcome(v)
    BY <1>1 DEF Refused
  <2>2. v \in {"unchanged", "refused"}
    BY <2>1 DEF Verdicts
  <2>3. QED
    BY <1>1, <2>1, <2>2, OutcomeType DEF Refused
<1>2. CASE Sent(img)
  BY <1>2, OutcomeType DEF Sent
<1>3. CASE SendFails(img)
  <2>1. Torn \in Images
    BY DEF Images
  <2>2. QED
    BY <1>3, <2>1, OutcomeType DEF SendFails
<1>4. QED
  BY <1>1, <1>2, <1>3 DEF Upload

LEMMA WriteType ==
  ASSUME NEW img \in Images, panel \in Images, NEW execute \in BOOLEAN, Write(img, execute)
  PROVE  panel' \in Images /\ answer' \in Answer
<1>1. CASE execute
  BY <1>1, UploadType DEF Write
<1>2. CASE ~execute
  <2> HIDE DEF Images
  <2>1. DryRun(img)
    BY <1>2 DEF Write
  <2>2. PICK v \in Verdicts(img) : answer' = DryOutcome(v)
    BY <2>1 DEF DryRun
  <2>3. v \in {"upload", "unchanged", "refused"}
    BY <2>2 DEF Verdicts
  <2>4. DryOutcome(v) \in Answer
    BY <2>3 DEF DryOutcome, Outcome, Answer
  <2>5. QED
    BY <2>1, <2>2, <2>4 DEF DryRun
<1>3. QED
  BY <1>1, <1>2

LEMMA OlderType ==
  ASSUME NEW p \in Point, NEW r \in Reading(p)
  PROVE  OlderReading(r) \in Reading(p)
<1>1. Ttl \in Nat /\ Ahead \in Nat /\ None \notin Int
  BY ScreenAssumption
<1>2. r.age # None => Min({r.age + 1, MaxAge}) \in 0..MaxAge
  BY <1>1, Smaller DEF Reading, MaxAge
<1>3. r.left # None => Max({r.left - 1, 0}) \in 0..Ahead
  BY <1>1, Larger DEF Reading
<1> DEFINE age == IF r.age = None THEN None ELSE Min({r.age + 1, MaxAge})
           left == IF r.left = None THEN None ELSE Max({r.left - 1, 0})
<1>4. OlderReading(r) = [[r EXCEPT !.age = age] EXCEPT !.left = left]
  BY DEF OlderReading, Reading
<1>5. age \in 0..MaxAge \cup {None} /\ left \in 0..Ahead \cup {None}
  BY <1>2, <1>3
<1> HIDE DEF age, left
<1>6. QED
  BY <1>4, <1>5 DEF Reading

LEMMA AgedType ==
  ASSUME NEW st, StoreType(st)
  PROVE  StoreType(Aged(st))
BY OlderType DEF StoreType, Aged

LEMMA DataPointType ==
  ASSUME NEW p \in Point, NEW v \in Reads[p], NEW age \in 0..MaxAge \cup {None}
  PROVE  DataPoint(v, age) \in Reading(p)
BY ScreenAssumption DEF DataPoint, Reading

LEMMA InsertType ==
  ASSUME StoreType(store), NEW readings, Insert(readings),
         \A p \in Point : p \in DOMAIN readings => readings[p] \in Reading(p)
  PROVE  StoreType(store')
BY DEF StoreType, Insert

(* A slot may get any widget, and a layout may lose them all. *)
LEMMA WidgetSet ==
  ASSUME NEW l \in Layout, NEW i \in DOMAIN l, NEW w \in Widget \cup {None}
  PROVE  [l EXCEPT ![i].widget = w] \in Layout
<1> DEFINE S == [id : Name, rect : Rect, widget : Widget \cup {None}]
           s == [l[i] EXCEPT !.widget = w]
<1>1. l \in Seq(S)
  BY DEF Layout
<1>2. s \in S
  <2>1. l[i] \in S
    <3> HIDE DEF S
    <3>1. QED
      BY <1>1
  <2>2. QED
    BY <2>1
<1>3. [l EXCEPT ![i].widget = w] = [l EXCEPT ![i] = s]
  OBVIOUS
<1> HIDE DEF S, s
<1>4. [l EXCEPT ![i] = s] \in Seq(S)
  BY <1>1, <1>2
<1>5. QED
  BY <1>3, <1>4 DEF Layout, S

LEMMA BlankType ==
  ASSUME NEW l \in Layout
  PROVE  /\ Blank(l) \in Layout /\ Len(Blank(l)) = Len(l)
         /\ \A i \in DOMAIN Blank(l) : Blank(l)[i].widget = None
<1> DEFINE S == [id : Name, rect : Rect, widget : Widget \cup {None}]
           b == [i \in 1..Len(l) |-> [l[i] EXCEPT !.widget = None]]
<1>1. l \in Seq(S) /\ Len(l) \in Nat /\ DOMAIN l = 1..Len(l)
  BY DEF Layout
<1>2. \A i \in 1..Len(l) : b[i] \in S /\ b[i].widget = None
  <2> SUFFICES ASSUME NEW i \in 1..Len(l) PROVE b[i] \in S /\ b[i].widget = None
    OBVIOUS
  <2>1. l[i] \in S
    <3> HIDE DEF S
    <3>1. QED
      BY <1>1
  <2>2. b[i] = [l[i] EXCEPT !.widget = None]
    OBVIOUS
  <2>3. QED
    BY <2>1, <2>2
<1>3. Blank(l) = b /\ DOMAIN b = 1..Len(l) /\ b = [i \in 1..Len(l) |-> b[i]]
  BY <1>1 DEF Blank
<1> HIDE DEF S, b
<1>4. b \in Seq(S) /\ Len(b) = Len(l)
  BY <1>1, <1>2, <1>3
<1>5. QED
  BY <1>2, <1>3, <1>4 DEF Layout, S

ClearingType(l) ==
  l # None => l \in Layout /\ \A i \in DOMAIN l : l[i].widget = None

Typed ==
  /\ layout \in Layout
  /\ StoreType(store)
  /\ minute \in 0..(Hour - 1)
  /\ panel \in Images
  /\ loop \in {"sleep", "render"}
  /\ ClearingType(clearing)
  /\ answer = None \/ answer \in Answer

LEMMA TypedIsTypeOK == Typed <=> TypeOK
BY DEF Typed, TypeOK, StoreType, Images, ClearingType

LEMMA TypedStep ==
  ASSUME Typed, [Next]_vars
  PROVE  Typed'
<1> USE DEF Typed
<1> HIDE DEF Images
<1>1. \A l \in Layout : Compose(l, store, minute) \in Images
  BY ComposeType DEF Images
<1>2. Files \cup Layouts \subseteq Layout /\ Widgets \subseteq Widget
  BY ScreenAssumption
<1>3. 0 \in 0..MaxAge \cup {None} /\ Observed \subseteq 0..MaxAge \cup {None}
  BY ScreenAssumption DEF MaxAge
<1>4. Picture \in Images
  BY DEF Images
<1>5. ASSUME NEW l \in Layout, NEW render \in BOOLEAN, ThenRender(l, render)
      PROVE  layout' \in Layout /\ panel' \in Images /\ (answer' = None \/ answer' \in Answer)
  BY <1>1, <1>5, UploadType DEF ThenRender
<1>6. ASSUME NEW l \in Layouts, NEW render \in BOOLEAN, SetLayout(l, render)
      PROVE  Typed'
  BY <1>2, <1>5, <1>6 DEF SetLayout
<1>7. ASSUME NEW id \in Ids, NEW w \in Widgets, NEW render \in BOOLEAN, SetWidget(id, w, render)
      PROVE  Typed'
  <2>1. PICK i \in SlotNamed(layout, id) : ThenRender([layout EXCEPT ![i].widget = w], render)
    BY <1>7 DEF SetWidget
  <2>2. [layout EXCEPT ![i].widget = w] \in Layout
    BY <1>2, WidgetSet DEF SlotNamed
  <2>3. QED
    BY <1>5, <1>7, <2>1, <2>2 DEF SetWidget
<1>8. ASSUME NEW p \in Point, NEW age \in Observed, NEW v \in Reads[p], PushDataPoint(p, v, age)
      PROVE  Typed'
  <2>1. DataPoint(v, age) \in Reading(p)
    BY <1>3, DataPointType
  <2>2. StoreType(store')
    BY <1>8, <2>1, InsertType DEF PushDataPoint
  <2>3. QED
    BY <1>8, <2>2 DEF PushDataPoint
<1>9. ASSUME NEW execute \in BOOLEAN, RenderRequest(execute)
      PROVE  Typed'
  BY <1>1, <1>9, WriteType DEF RenderRequest
<1>10. ASSUME NEW execute \in BOOLEAN, ShowImage(execute)
       PROVE  Typed'
  BY <1>4, <1>10, WriteType DEF ShowImage
<1>11. CASE ClearReads
  BY <1>11, BlankType DEF ClearReads, ClearingType
<1>12. CASE ClearWrites
  BY <1>1, <1>12, UploadType DEF ClearWrites, ClearingType
<1>13. ASSUME NEW ok \in SUBSET Point, NEW printed \in SUBSET ok, RunSources(ok, printed)
       PROVE  Typed'
  <2>1. PICK v \in {f \in [printed -> Value] : \A p \in printed : f[p] \in Reads[p]} :
          Insert([p \in printed |-> DataPoint(v[p], 0)])
    BY <1>13 DEF RunSources
  <2>2. \A p \in printed : DataPoint(v[p], 0) \in Reading(p)
    BY <1>3, DataPointType
  <2>3. StoreType(store')
    BY <2>1, <2>2, InsertType
  <2>4. QED
    BY <1>13, <2>3 DEF RunSources
<1>14. CASE ScheduledRender
  BY <1>1, <1>14, UploadType DEF ScheduledRender
<1>15. CASE Tick
  <2>1. (minute + 1) % Hour \in 0..(Hour - 1)
    BY ScreenAssumption
  <2>2. QED
    BY <1>15, <2>1, AgedType DEF Tick
<1>16. CASE UNCHANGED vars
  BY <1>16 DEF vars
<1>17. QED
  BY <1>6, <1>7, <1>8, <1>9, <1>10, <1>11, <1>12, <1>13, <1>14, <1>15, <1>16 DEF Next

LEMMA AlwaysTyped == Spec => []Typed
<1>1. Init => Typed
  <2>1. Files \subseteq Layout
    BY ScreenAssumption
  <2>2. QED
    BY <2>1 DEF Init, Typed, StoreType, Images, ClearingType
<1>2. Typed /\ [Next]_vars => Typed'
  BY TypedStep
<1>3. QED
  BY <1>1, <1>2, PTL DEF Spec

(* Every variable keeps its type: whatever is set, pushed, read or ticked,  *)
(* a panel that shows an image of ours shows one that compose can make, a   *)
(* reading is one of its source's, and what a clear is about to write has   *)
(* no widgets.                                                              *)
THEOREM TypeCorrect == Spec => []TypeOK
<1>1. Typed => TypeOK
  BY TypedIsTypeOK
<1>2. QED
  BY <1>1, AlwaysTyped, PTL

---------------------------------------------------------------------------
(* Whole steps of a number of minutes. *)

LEMMA Multiplied ==
  ASSUME NEW d \in Nat, NEW a \in Int, NEW b \in Int, a <= b
  PROVE  d * a <= d * b
<1>1. b - a \in Nat
  OBVIOUS
<1>2. \A k \in Nat : d * k >= 0
  OBVIOUS
<1>3. d * (b - a) = d * b - d * a
  OBVIOUS
<1>4. d * a \in Int /\ d * b \in Int
  OBVIOUS
<1>5. QED
  BY <1>1, <1>2, <1>3, <1>4

LEMMA Quotient ==
  ASSUME NEW n \in Nat, NEW d \in Nat \ {0}
  PROVE  /\ n = d * (n \div d) + (n % d)
         /\ n \div d \in Nat /\ n % d \in 0..(d - 1)
         /\ n \div d <= n
<1> DEFINE q == n \div d
           r == n % d
<1>1. n = d * q + r /\ q \in Int /\ r \in 0..(d - 1)
  OBVIOUS
<1> HIDE DEF q, r
<1>2. q >= 0
  <2>1. CASE q <= -1
    <3>1. d * q <= d * (-1)
      BY <2>1, <1>1, Multiplied
    <3>2. d * (-1) = -d /\ d * q \in Int
      BY <1>1
    <3>3. QED
      BY <1>1, <3>1, <3>2
  <2>2. QED
    BY <1>1, <2>1
<1>3. q <= n
  <2>1. q * 1 <= q * d
    BY <1>1, <1>2, Multiplied
  <2>2. q * 1 = q /\ q * d = d * q /\ d * q \in Int
    BY <1>1
  <2>3. QED
    BY <1>1, <2>1, <2>2
<1>4. QED
  BY <1>1, <1>2, <1>3 DEF q, r

LEMMA QuotientIs ==
  ASSUME NEW n \in Nat, NEW d \in Nat \ {0}, NEW q \in Nat, NEW r \in 0..(d - 1), n = d * q + r
  PROVE  n \div d = q /\ n % d = r
<1> DEFINE p == n \div d
           s == n % d
<1>1. n = d * p + s /\ p \in Nat /\ s \in 0..(d - 1)
  BY Quotient
<1> HIDE DEF p, s
<1>2. d * p \in Int /\ d * q \in Int
  BY <1>1
<1>3. ~ (p < q)
  <2> SUFFICES ASSUME p + 1 <= q PROVE FALSE
    BY <1>1
  <2>1. d * (p + 1) <= d * q /\ d * (p + 1) = d * p + d
    BY <1>1, Multiplied
  <2>2. QED
    BY <1>1, <1>2, <2>1
<1>4. ~ (q < p)
  <2> SUFFICES ASSUME q + 1 <= p PROVE FALSE
    BY <1>1
  <2>1. d * (q + 1) <= d * p /\ d * (q + 1) = d * q + d
    BY <1>1, Multiplied
  <2>2. QED
    BY <1>1, <1>2, <2>1
<1>5. p = q
  BY <1>1, <1>3, <1>4
<1>6. QED
  BY <1>1, <1>2, <1>5 DEF p, s

(* The quotient and the remainder of the number before one that is not a    *)
(* multiple.                                                                *)
LEMMA QuotientBefore ==
  ASSUME NEW n \in Nat \ {0}, NEW d \in Nat \ {0}, n # d * (n \div d)
  PROVE  /\ (n - 1) \div d = n \div d
         /\ (n - 1) % d = (n % d) - 1
<1> DEFINE q == n \div d
           r == n % d
<1>1. n = d * q + r /\ q \in Nat /\ r \in 0..(d - 1) /\ n # d * q
  BY Quotient
<1> HIDE DEF q, r
<1>2. d * q \in Int
  BY <1>1
<1>3. r - 1 \in 0..(d - 1) /\ n - 1 = d * q + (r - 1) /\ n - 1 \in Nat
  BY <1>1, <1>2
<1>4. (n - 1) \div d = q /\ (n - 1) % d = r - 1
  BY <1>1, <1>3, QuotientIs
<1>5. QED
  BY <1>4 DEF q, r

LEMMA StepOf ==
  ASSUME NEW every \in Nat
  PROVE  /\ Max({every, 1}) \in Nat \ {0}
         /\ Max({every, 1}) = IF every <= 1 THEN 1 ELSE every
BY Larger

(* A clock shows the same until it comes to a multiple of its step. *)
LEMMA ClockStable ==
  ASSUME NEW m \in 0..(Hour - 1), NEW every \in Nat, (m + 1) % Hour # 0,
         \A k \in 0..(Hour + Ahead) : (m + 1) % Hour # k * Max({every, 1})
  PROVE  QuantizeTime((m + 1) % Hour, every) = QuantizeTime(m, every)
<1> DEFINE next == (m + 1) % Hour
<1>1. Hour \in Nat \ {0} /\ Ahead \in Nat
  BY ScreenAssumption
<1>2. next = m + 1 /\ m + 1 \in 1..(Hour - 1)
  <2>1. CASE m + 1 = Hour
    <3>1. m + 1 = Hour * 1 + 0
      BY <1>1, <2>1
    <3>2. next = 0
      BY <1>1, <3>1, QuotientIs
    <3>3. QED
      BY <3>2
  <2>2. CASE m + 1 # Hour
    <3>1. m + 1 \in 1..(Hour - 1)
      BY <1>1, <2>2
    <3>2. m + 1 = Hour * 0 + (m + 1)
      BY <1>1
    <3>3. next = m + 1
      BY <1>1, <3>1, <3>2, QuotientIs
    <3>4. QED
      BY <3>1, <3>3
  <2>3. QED
    BY <2>1, <2>2
<1> HIDE DEF next
<1>3. \A k \in 0..(Hour + Ahead) : next # k * Max({every, 1})
  BY DEF next
<1>4. CASE every <= 1
  <2>1. next \in 0..(Hour + Ahead) /\ next * 1 = next
    BY <1>1, <1>2
  <2>2. QED
    BY <1>3, <1>4, <2>1, StepOf
<1>5. CASE every > 1
  <2>1. next \in Nat \ {0} /\ every \in Nat \ {0}
    BY <1>2, <1>5
  <2> DEFINE q == next \div every
  <2>2. q \in Nat /\ q <= next
    BY <2>1, Quotient
  <2> HIDE DEF q
  <2>3. q \in 0..(Hour + Ahead) /\ q * every = every * q
    BY <1>1, <1>2, <2>2
  <2>4. next # every * q
    BY <1>3, <1>5, <2>3, StepOf
  <2>5. (next - 1) % every = (next % every) - 1
    BY <2>1, <2>4, QuotientBefore DEF q
  <2>6. next - 1 = m
    BY <1>2
  <2>7. next % every \in Int
    BY <2>1
  <2> DEFINE r == next % every
  <2> HIDE DEF r
  <2>8. next - r = m - (r - 1) /\ m % every = r - 1
    BY <1>2, <2>5, <2>6, <2>7 DEF r
  <2>9. QED
    BY <1>5, <2>8 DEF QuantizeTime, r, next
<1>6. QED
  BY <1>4, <1>5

(* So does a timer, until what is left is a whole number of its steps. *)
LEMMA TimerStable ==
  ASSUME NEW left \in 0..Ahead, NEW every \in Nat,
         \A k \in 0..(Hour + Ahead) : ~ (k > 0 /\ left = k * Max({every, 1}))
  PROVE  Remaining(Max({left - 1, 0}), every) = Remaining(left, every)
<1> DEFINE step == Max({every, 1})
<1>1. Hour \in Nat /\ Ahead \in Nat /\ step \in Nat \ {0}
  BY ScreenAssumption, StepOf
<1>2. Max({left - 1, 0}) = IF left = 0 THEN 0 ELSE left - 1
  BY <1>1, Larger
<1>3. CASE left = 0
  BY <1>2, <1>3
<1>4. CASE left # 0
  <2> DEFINE q == left \div step
  <2> HIDE DEF step
  <2>1. left \in Nat \ {0}
    BY <1>4
  <2>2. q \in Nat /\ q <= left
    BY <1>1, <2>1, Quotient
  <2>3. left # step * q
    <3> HIDE DEF q
    <3>1. CASE q = 0
      BY <1>1, <2>1, <3>1
    <3>2. CASE q > 0
      <4>1. q \in 0..(Hour + Ahead) /\ q * step = step * q
        BY <1>1, <2>2
      <4>2. QED
        BY <3>2, <4>1 DEF step
    <3>3. QED
      BY <2>2, <3>1, <3>2
  <2>4. (left - 1) \div step = q
    BY <1>1, <2>1, <2>3, QuotientBefore
  <2>5. QED
    BY <1>2, <1>4, <2>4 DEF Remaining, step
<1>5. QED
  BY <1>3, <1>4

---------------------------------------------------------------------------
(* Between steps, the image stays the same. *)

(* A reading's time to live runs out in this minute. *)
TurnsStale(st) ==
  \E p \in Point :
    /\ ~ (st[p] # None /\ st[p].age # None /\ st[p].age > Ttl)
    /\ st[p] # None /\ st[p].age # None /\ st[p].age + 1 > Ttl

(* A step of the clock or of the timer w ends in it; `at' is the new minute. *)
StepEnds(w, st, at) ==
  \E k \in 0..(Hour + Ahead) :
    \/ w.type = "clock" /\ at \in {0, k * Max({w.every, 1})}
    \/ w.type = "timer" /\ k > 0 /\ Resolve(w.bind, st).left = k * Max({w.every, 1})

(* A minute later, only what is left until a deadline is different. *)
LEMMA AgedResolves ==
  ASSUME NEW st, StoreType(st), ~TurnsStale(st), NEW bind
  PROVE  LET was == Resolve(bind, st)
             is == Resolve(bind, Aged(st))
         IN /\ is.value = was.value /\ is.stale = was.stale /\ is.missing = was.missing
            /\ is.left = IF was.left = None THEN None ELSE Max({was.left - 1, 0})
<1>1. CASE bind \notin Point
  BY <1>1 DEF Resolve, Resolved
<1>2. CASE bind \in Point /\ st[bind] = None
  BY <1>2 DEF Resolve, Resolved, Aged
<1>3. CASE bind \in Point /\ st[bind] # None
  <2> DEFINE r == st[bind]
             old == OlderReading(r)
  <2>1. r \in Reading(bind)
    BY <1>3 DEF StoreType
  <2>2. Aged(st)[bind] = old /\ old # None
    BY <1>3, <2>1, OlderType, ScreenAssumption DEF Aged
  <2>3. /\ old.value = r.value
        /\ old.left = IF r.left = None THEN None ELSE Max({r.left - 1, 0})
        /\ old.age = IF r.age = None THEN None ELSE Min({r.age + 1, MaxAge})
    <3> HIDE DEF r
    <3>1. QED
      BY <2>1 DEF OlderReading, Reading
  <2>4. IsStale(old) = IsStale(r)
    <3>1. Ttl \in Nat /\ MaxAge = Ttl + 1 /\ None \notin Int /\ r.age \in 0..MaxAge \cup {None}
      BY <2>1, ScreenAssumption DEF Reading, MaxAge
    <3>2. r.age # None => r.age > Ttl \/ r.age + 1 <= Ttl
      BY <1>3, <3>1 DEF TurnsStale
    <3> HIDE DEF r, old
    <3>3. CASE r.age = None
      BY <2>3, <3>3 DEF IsStale
    <3>4. CASE r.age # None
      <4>1. old.age = IF r.age + 1 <= MaxAge THEN r.age + 1 ELSE MaxAge
        BY <2>3, <3>1, <3>4, Smaller
      <4>2. old.age # None /\ (old.age > Ttl <=> r.age > Ttl)
        BY <3>1, <3>2, <3>4, <4>1
      <4>3. QED
        BY <3>4, <4>2 DEF IsStale
    <3>5. QED
      BY <3>3, <3>4
  <2>5. Resolve(bind, st) = Resolved(r.value, r.left, IsStale(r), FALSE)
    BY <1>3 DEF Resolve
  <2>6. Resolve(bind, Aged(st)) = Resolved(old.value, old.left, IsStale(old), FALSE)
    BY <1>3, <2>2 DEF Resolve
  <2> HIDE DEF old, r
  <2>7. QED
    BY <2>3, <2>4, <2>5, <2>6 DEF Resolved
<1>4. QED
  BY <1>1, <1>2, <1>3

(* So every widget draws what it drew, but for a clock or a timer whose     *)
(* step ends.                                                               *)
LEMMA StrokesStable ==
  ASSUME NEW st, StoreType(st), ~TurnsStale(st), NEW m \in 0..(Hour - 1),
         NEW w \in Widget, NEW r, ~StepEnds(w, st, (m + 1) % Hour)
  PROVE  Strokes(w, r, Aged(st), (m + 1) % Hour) = Strokes(w, r, st, m)
<1> DEFINE next == (m + 1) % Hour
           aged == Aged(st)
<1>1. None \notin Int
  BY ScreenAssumption
<1>2. \A bind : /\ Resolve(bind, aged).value = Resolve(bind, st).value
                /\ Degraded(Resolve(bind, aged)) = Degraded(Resolve(bind, st))
                /\ Resolve(bind, aged).left = IF Resolve(bind, st).left = None THEN None
                                              ELSE Max({Resolve(bind, st).left - 1, 0})
  BY AgedResolves DEF Degraded
<1>3. ASSUME NEW bind \in Bind, NEW fallback
      PROVE  NumberOr(Resolve(bind, aged), fallback) = NumberOr(Resolve(bind, st), fallback)
  <2> DEFINE was == Resolve(bind, st)
             is == Resolve(bind, aged)
  <2>1. /\ is.value = was.value /\ is.missing = was.missing
        /\ is.left = IF was.left = None THEN None ELSE Max({was.left - 1, 0})
    BY AgedResolves
  <2>2. was.left \in 0..Ahead \cup {None} /\ Ahead \in Nat
    BY ResolveType, ScreenAssumption
  <2> HIDE DEF was, is
  <2>3. was.left # None => is.left # None
    BY <1>1, <2>1, <2>2, Larger, SMTT(30)
  <2>4. NumberOr(is, fallback) = NumberOr(was, fallback)
    BY <2>1, <2>3 DEF NumberOr
  <2>5. QED
    BY <2>4 DEF was, is
<1> HIDE DEF next, aged
<1>4. CASE w.type = "label"
  BY <1>2, <1>4 DEF Strokes, LabelStroke
<1>5. CASE w.type = "clock"
  <2>1. Hour \in Nat \ {0} /\ Ahead \in Nat /\ w.every \in Nat
    BY <1>5, WidgetFields, ScreenAssumption
  <2>2. next # 0 /\ \A k \in 0..(Hour + Ahead) : next # k * Max({w.every, 1})
    BY <1>5, <2>1 DEF StepEnds, next
  <2>3. QuantizeTime(next, w.every) = QuantizeTime(m, w.every)
    BY <2>1, <2>2, ClockStable DEF next
  <2>4. QED
    BY <1>5, <2>3 DEF Strokes, TimeStroke, next
<1>6. CASE w.type = "bar"
  <2>1. NumberOr(Resolve(w.bind, aged), 0) = NumberOr(Resolve(w.bind, st), 0)
    BY <1>3, <1>6, WidgetFields
  <2>2. BarStrokes(w, r, aged) = BarStrokes(w, r, st)
    <3> DEFINE bar == BarBelow(w, r)
               drawn(v, dim, lv, ldim) ==
                 (IF LabelAbove(w, r)
                  THEN <<TextStroke(TextCells(r, r.y, TextWidth[lv], 1, "left"), lv, ldim)>>
                  ELSE <<>>)
                   \o <<Stroke(CellsOf(bar), TRUE, "bar", v, dim)>>
                   \o (IF w.show /\ bar.h >= LineHeight
                       THEN <<Stroke(PercentCells(bar, v), FALSE, "percent", v, FALSE)>>
                       ELSE <<>>)
    <3>1. \A s : BarStrokes(w, r, s) =
                   drawn(NumberOr(Resolve(w.bind, s), 0), Degraded(Resolve(w.bind, s)),
                         Resolve(w.label, s).value, Degraded(Resolve(w.label, s)))
      BY DEF BarStrokes, PercentCells
    <3> HIDE DEF drawn
    <3>2. QED
      BY <1>2, <2>1, <3>1
  <2>3. QED
    BY <1>6, <2>2 DEF Strokes, aged
<1>7. CASE w.type = "gauge"
  <2>1. NumberOr(Resolve(w.bind, aged), w.min) = NumberOr(Resolve(w.bind, st), w.min)
    BY <1>3, <1>7, WidgetFields
  <2>2. GaugeStrokes(w, r, aged) = GaugeStrokes(w, r, st)
    BY <1>2, <2>1 DEF GaugeStrokes
  <2>3. QED
    BY <1>7, <2>2 DEF Strokes, aged
<1>8. CASE w.type = "timer"
  <2> DEFINE was == Resolve(w.bind, st)
             is == Resolve(w.bind, aged)
  <2>1. w.every \in Nat /\ w.bind \in Bind
    BY <1>8, WidgetFields
  <2>2. was.left \in 0..Ahead \cup {None} /\ Ahead \in Nat
    BY <2>1, ResolveType, ScreenAssumption
  <2>3. \A k \in 0..(Hour + Ahead) : ~ (k > 0 /\ was.left = k * Max({w.every, 1}))
    BY <1>8 DEF StepEnds
  <2>4. /\ is.value = was.value /\ Degraded(is) = Degraded(was)
        /\ is.left = IF was.left = None THEN None ELSE Max({was.left - 1, 0})
    BY <1>2
  <2> HIDE DEF was, is
  <2>5. CASE was.left = None
    <3>1. is.left = None
      BY <2>4, <2>5
    <3>2. TimerStrokes(w, r, aged) = TimerStrokes(w, r, st)
      BY <2>4, <2>5, <3>1 DEF TimerStrokes, was, is
    <3>3. QED
      BY <1>8, <3>2 DEF Strokes, aged
  <2>6. CASE was.left # None
    <3>1. is.left # None
      BY <1>1, <2>2, <2>4, <2>6, Larger
    <3>2. Remaining(is.left, w.every) = Remaining(was.left, w.every)
      BY <2>1, <2>2, <2>3, <2>4, <2>6, TimerStable
    <3> DEFINE Timed(known, value, dim, left) ==
                 LET width == IF known THEN w.wide[left] ELSE TextWidth[None]
                     y == IF w.label = None THEN r.y ELSE r.y + LineHeight + 1
                     time == Stroke(Centred(r, y, Less(r.h, y - r.y), width, 2, "center"), FALSE,
                                    "timer", IF known THEN value ELSE None, ~known \/ dim)
                 IN (IF w.label = None THEN <<>>
                     ELSE <<Stroke(TextCells(r, r.y, w.label, 1, "center"), FALSE, "label", None, FALSE)>>)
                      \o <<[time EXCEPT !.ink.left = left]>>
    <3>3. TimerStrokes(w, r, aged) = TimerStrokes(w, r, st)
      <4>1. /\ TimerStrokes(w, r, st) =
                 Timed(TRUE, was.value, Degraded(was), Remaining(was.left, w.every))
            /\ TimerStrokes(w, r, aged) =
                 Timed(TRUE, is.value, Degraded(is), Remaining(is.left, w.every))
        BY <2>6, <3>1 DEF TimerStrokes, was, is
      <4> HIDE DEF Timed
      <4>2. QED
        BY <2>4, <3>2, <4>1
    <3>4. QED
      BY <1>8, <3>3 DEF Strokes, aged
  <2>7. QED
    BY <2>5, <2>6
<1>9. CASE w.type \in {"fill", "image", "line"}
  BY <1>9 DEF Strokes
<1>10. QED
  BY <1>4, <1>5, <1>6, <1>7, <1>8, <1>9, WidgetFields

(* Time alone changes what is composed only when a clock comes to a         *)
(* multiple of its step or to the hour, when what is left on a timer is a   *)
(* whole number of its steps, or when a reading turns stale (format_clock:  *)
(* the pixels are stable between steps, which lets the governor skip the    *)
(* upload): for every step, also of zero, and every number of readings,     *)
(* deadlines and slots.                                                     *)
THEOREM Stable == Spec => []StableBetweenSteps
<1> SUFFICES Typed => StableBetweenSteps
  BY AlwaysTyped, PTL
<1> SUFFICES ASSUME Typed PROVE StableBetweenSteps
  OBVIOUS
<1> DEFINE next == (minute + 1) % Hour
           step == \E i \in DOMAIN layout :
                     layout[i].widget # None /\ StepEnds(layout[i].widget, store, next)
<1>1. SUFFICES ASSUME ~step, ~TurnsStale(store)
               PROVE  Compose(layout, Aged(store), next) = Compose(layout, store, minute)
  BY DEF StableBetweenSteps, StepEnds, TurnsStale, IsOld
<1>2. layout \in Layout /\ StoreType(store) /\ minute \in 0..(Hour - 1)
  BY DEF Typed
<1>3. ASSUME NEW i \in DOMAIN layout
      PROVE  SlotStrokes(layout[i], Aged(store), next) = SlotStrokes(layout[i], store, minute)
  <2>1. layout[i].widget \in Widget \cup {None}
    BY <1>2, LayoutSlots
  <2>2. CASE layout[i].widget = None
    BY <2>2 DEF SlotStrokes
  <2>3. CASE layout[i].widget # None
    <3>1. ~StepEnds(layout[i].widget, store, next)
      BY <1>1, <2>3
    <3>2. \A r : Strokes(layout[i].widget, r, Aged(store), next)
                   = Strokes(layout[i].widget, r, store, minute)
      BY <1>1, <1>2, <2>1, <2>3, <3>1, StrokesStable
    <3> HIDE DEF next
    <3>3. QED
      BY <3>2 DEF SlotStrokes
  <2>4. QED
    BY <2>2, <2>3
<1> HIDE DEF next
<1>4. Drawing(layout, Aged(store), next) = Drawing(layout, store, minute)
  BY <1>3 DEF Drawing
<1>5. QED
  BY <1>4 DEF Compose, Drawing

---------------------------------------------------------------------------
(* What is answered. *)

(* After an upload the panel shows the image, if the answer says that it    *)
(* was sent or did not have to be; it does not change unless the answer     *)
(* tells of it.                                                             *)
LEMMA UploadTold ==
  ASSUME NEW img, Upload(img)
  PROVE  /\ answer'.uploaded => panel' = img
         /\ panel' # panel => answer'.uploaded \/ answer'.reason = "device_error"
         /\ answer'.reason \in {"upload", "unchanged"} => panel' = img
<1>1. CASE Refused(img)
  <2>1. PICK v \in Verdicts(img) \ {"upload"} : answer' = Outcome(v)
    BY <1>1 DEF Refused
  <2>2. v \in {"unchanged", "refused"} /\ (v = "unchanged" => panel = img)
    BY <2>1 DEF Verdicts
  <2>3. answer'.reason = v /\ ~answer'.uploaded
    BY <2>1, <2>2 DEF Outcome
  <2>4. QED
    BY <1>1, <2>2, <2>3 DEF Refused
<1>2. CASE Sent(img)
  <2>1. panel' = img /\ answer'.uploaded
    BY <1>2 DEF Sent, Outcome
  <2>2. QED
    BY <2>1
<1>3. CASE SendFails(img)
  <2>1. answer'.reason = "device_error" /\ ~answer'.uploaded
    BY <1>3 DEF SendFails, Outcome
  <2>2. QED
    BY <2>1
<1>4. QED
  BY <1>1, <1>2, <1>3 DEF Upload

LEMMA WriteTold ==
  ASSUME NEW img, NEW execute \in BOOLEAN, Write(img, execute)
  PROVE  /\ answer'.uploaded => panel' = img
         /\ panel' # panel => answer'.uploaded \/ answer'.reason = "device_error"
<1>1. CASE execute
  BY <1>1, UploadTold DEF Write
<1>2. CASE ~execute
  <2>1. DryRun(img)
    BY <1>2 DEF Write
  <2>2. PICK v \in Verdicts(img) : answer' = DryOutcome(v)
    BY <2>1 DEF DryRun
  <2>3. ~answer'.uploaded
    BY <2>2 DEF DryOutcome, Outcome
  <2>4. QED
    BY <2>1, <2>3 DEF DryRun
<1>3. QED
  BY <1>1, <1>2

(* A layout without widgets leaves no ink. *)
LEMMA ClearIsPlain ==
  ASSUME NEW l \in Layout, \A i \in DOMAIN l : l[i].widget = None,
         NEW st, StoreType(st), NEW m \in 0..(Hour - 1)
  PROVE  Compose(l, st, m) = Plain
<1> DEFINE d == Drawing(l, st, m)
<1>1. Len(l) \in Nat /\ DOMAIN l = 1..Len(l)
  BY LayoutSlots
<1>2. Len(d) = Len(l)
  BY DrawingOf
<1>3. ASSUME NEW i \in 1..Len(l) PROVE d[i] = <<>>
  <2>1. d[i] = SlotStrokes(l[i], st, m)
    BY DrawingOf
  <2>2. l[i].widget = None
    BY <1>1
  <2>3. QED
    BY <2>1, <2>2 DEF SlotStrokes
<1>4. Compose(l, st, m) = [c \in Cell |-> Layered(d, c)]
  BY ComposeType
<1> HIDE DEF d
<1>5. \A c : Layered(d, c) = <<>>
  BY <1>1, <1>2, <1>3, LayeredNothing
<1>6. QED
  BY <1>4, <1>5 DEF Plain

(* The two parts of AnswersTrue. *)
UploadedIsShown ==
  answer # None /\ answer.uploaded => panel \in {Picture, Compose(layout, store, minute)}

StepIsTold ==
  /\ panel' # panel => answer'.uploaded \/ answer'.reason = "device_error"
  /\ clearing # None /\ clearing' = None /\ answer'.reason \in {"upload", "unchanged"} =>
       panel' = Plain

LEMMA TellingStep ==
  ASSUME Typed, UploadedIsShown, [Next]_vars
  PROVE  UploadedIsShown' /\ [StepIsTold]_vars
<1>1. ASSUME NEW l, NEW render \in BOOLEAN, ThenRender(l, render), UNCHANGED <<store, minute>>
      PROVE  UploadedIsShown' /\ (panel' # panel => answer'.uploaded \/ answer'.reason = "device_error")
  BY <1>1, UploadTold DEF ThenRender, UploadedIsShown
<1>2. ASSUME NEW l \in Layouts, NEW render \in BOOLEAN, SetLayout(l, render)
      PROVE  UploadedIsShown' /\ StepIsTold
  BY <1>1, <1>2 DEF SetLayout, StepIsTold
<1>3. ASSUME NEW id \in Ids, NEW w \in Widgets, NEW render \in BOOLEAN, SetWidget(id, w, render)
      PROVE  UploadedIsShown' /\ StepIsTold
  <2>1. PICK i \in SlotNamed(layout, id) : ThenRender([layout EXCEPT ![i].widget = w], render)
    BY <1>3 DEF SetWidget
  <2>2. QED
    BY <1>1, <1>3, <2>1 DEF SetWidget, StepIsTold
<1>4. ASSUME NEW p \in Point, NEW age \in Observed, NEW v \in Reads[p], PushDataPoint(p, v, age)
      PROVE  UploadedIsShown' /\ StepIsTold
  BY <1>4 DEF PushDataPoint, UploadedIsShown, StepIsTold
<1>5. ASSUME NEW execute \in BOOLEAN, RenderRequest(execute)
      PROVE  UploadedIsShown' /\ StepIsTold
  BY <1>5, WriteTold DEF RenderRequest, UploadedIsShown, StepIsTold
<1>6. ASSUME NEW execute \in BOOLEAN, ShowImage(execute)
      PROVE  UploadedIsShown' /\ StepIsTold
  BY <1>6, WriteTold DEF ShowImage, UploadedIsShown, StepIsTold
<1>7. CASE ClearReads
  BY <1>7 DEF ClearReads, UploadedIsShown, StepIsTold
<1>8. CASE ClearWrites
  <2>1. Compose(clearing, store, minute) = Plain
    BY <1>8, ClearIsPlain DEF ClearWrites, Typed, ClearingType
  <2>2. QED
    BY <1>8, <2>1, UploadTold DEF ClearWrites, UploadedIsShown, StepIsTold
<1>9. ASSUME NEW ok \in SUBSET Point, NEW printed \in SUBSET ok, RunSources(ok, printed)
      PROVE  UploadedIsShown' /\ StepIsTold
  BY <1>9 DEF RunSources, UploadedIsShown, StepIsTold
<1>10. CASE ScheduledRender
  BY <1>10, UploadTold DEF ScheduledRender, UploadedIsShown, StepIsTold
<1>11. CASE Tick
  BY <1>11 DEF Tick, UploadedIsShown, StepIsTold
<1>12. CASE UNCHANGED vars
  BY <1>12 DEF vars, UploadedIsShown
<1>13. QED
  BY <1>2, <1>3, <1>4, <1>5, <1>6, <1>7, <1>8, <1>9, <1>10, <1>11, <1>12 DEF Next

(* docs/MCP.md: "uploaded always means bytes reached the panel".  After an  *)
(* answer that says so the panel shows what was asked for; no request       *)
(* touches it without saying so, or that the device failed; and a clear of  *)
(* the MCP server that was not refused leaves the panel empty, whatever     *)
(* came between its two requests.                                           *)
THEOREM Told == Spec => AnswersTrue
<1>1. Init => UploadedIsShown
  BY DEF Init, UploadedIsShown
<1>2. Typed /\ UploadedIsShown /\ [Next]_vars => UploadedIsShown'
  BY TellingStep
<1>3. Typed /\ UploadedIsShown /\ [Next]_vars => [StepIsTold]_vars
  BY TellingStep
<1>4. Spec => []UploadedIsShown /\ [][StepIsTold]_vars
  BY <1>1, <1>2, <1>3, AlwaysTyped, PTL DEF Spec
<1>5. QED
  BY <1>4 DEF AnswersTrue, UploadedIsShown, StepIsTold

---------------------------------------------------------------------------
(* What lint looks for. *)

(* fit_scale: what it takes is a size, and one in which the text fits if    *)
(* there is any.                                                            *)
LEMMA ScaleFits ==
  ASSUME NEW width \in Nat, NEW w \in Nat, NEW preferred \in Size
  PROVE  /\ Scale(width, w, preferred) \in 1..preferred
         /\ width <= w => Scale(width, w, preferred) * width <= w
<1> DEFINE S == {1} \cup {s \in 1..preferred : s * width <= w}
<1>1. S \subseteq {1, 2, 3} /\ S \subseteq 1..preferred /\ 1 \in S
  BY DEF Size
<1>2. \A s \in S : s = 1 \/ s * width <= w
  OBVIOUS
<1>3. Scale(width, w, preferred) = Max(S)
  BY DEF Scale
<1> HIDE DEF S
<1>4. \E s \in S : \A t \in S : s >= t
  <2>1. CASE 3 \in S
    BY <1>1, <2>1
  <2>2. CASE 3 \notin S /\ 2 \in S
    BY <1>1, <2>2
  <2>3. CASE 3 \notin S /\ 2 \notin S
    BY <1>1, <2>3
  <2>4. QED
    BY <2>1, <2>2, <2>3
<1>5. Max(S) \in S
  BY <1>4 DEF Max
<1>6. 1 * width = width
  OBVIOUS
<1>7. QED
  BY <1>1, <1>2, <1>3, <1>5, <1>6

(* A text that is neither wider nor higher than its slot is within it. *)
LEMMA TextWithin ==
  ASSUME NEW r \in Rect, NEW y \in Nat, NEW width \in Nat, NEW scale \in Nat \ {0},
         scale * width <= r.w, r.y <= y, y + scale * LineHeight <= r.y + r.h,
         NEW align \in Align
  PROVE  TextCells(r, y, width, scale, align) \subseteq CellsOf(r)
<1> DEFINE wide == scale * width
           high == scale * LineHeight
           spare == r.w - wide
           half == IF spare >= 0 THEN spare \div 2 ELSE -((-spare) \div 2)
           first == r.x + (CASE align = "left" -> 0 [] align = "center" -> half
                             [] align = "right" -> spare)
<1>1. /\ wide \in Nat /\ wide <= r.w /\ high \in Nat
      /\ y + high <= r.y + r.h
  BY ScreenAssumption
<1>2. r.x \in Nat /\ r.y \in Nat /\ r.w \in Nat /\ r.h \in Nat
  BY DEF Rect
<1>3. TextCells(r, y, width, scale, align)
        \subseteq (first..(first + wide - 1)) \X (y..(y + high - 1))
  BY DEF TextCells
<1> HIDE DEF wide, high
<1>4. first \in Int /\ r.x <= first /\ first + wide <= r.x + r.w
  <2>1. spare \in Nat /\ spare \div 2 \in Nat /\ spare \div 2 <= spare
    BY <1>1, <1>2
  <2>2. half = spare \div 2
    BY <2>1
  <2> HIDE DEF half
  <2>3. CASE align = "left"
    BY <1>1, <1>2, <2>3
  <2>4. CASE align = "center"
    BY <1>1, <1>2, <2>1, <2>2, <2>4
  <2>5. CASE align = "right"
    BY <1>1, <1>2, <2>5
  <2>6. QED
    BY <2>3, <2>4, <2>5 DEF Align
<1> HIDE DEF first
<1>5. first..(first + wide - 1) \subseteq r.x..(r.x + r.w - 1)
  BY <1>1, <1>2, <1>4
<1>6. y..(y + high - 1) \subseteq r.y..(r.y + r.h - 1)
  BY <1>1, <1>2
<1>7. QED
  BY <1>3, <1>5, <1>6 DEF CellsOf

LEMMA Lessened ==
  ASSUME NEW m \in Int, NEW n \in Int
  PROVE  Less(m, n) = IF m >= n THEN m - n ELSE 0
BY Larger DEF Less

(* So is one that has room in rows of the slot and is centred in them. *)
LEMMA CentredWithin ==
  ASSUME NEW r \in Rect, NEW y \in Nat, NEW h \in Nat, r.y <= y, y + h <= r.y + r.h,
         NEW width \in Nat, NEW preferred \in Size, Room(width, r.w, h, preferred),
         NEW align \in Align
  PROVE  Centred(r, y, h, width, preferred, align) \subseteq CellsOf(r)
<1> DEFINE scale == Scale(width, r.w, preferred)
           high == scale * LineHeight
           below == Less(h, high) \div 2
<1>1. LineHeight \in Nat /\ r.w \in Nat /\ r.y \in Nat /\ r.h \in Nat
  BY ScreenAssumption DEF Rect
<1>2. scale \in 1..preferred /\ width <= r.w /\ scale * width <= r.w
  BY <1>1, ScaleFits DEF Room
<1>3. high <= h
  BY DEF Room
<1>4. scale \in Nat \ {0}
  BY <1>2 DEF Size
<1> HIDE DEF scale
<1>5. high \in Nat
  BY <1>1, <1>4
<1>6. Centred(r, y, h, width, preferred, align)
        = TextCells(r, y + below, width, scale, align)
  BY DEF Centred, scale
<1>7. Less(h, high) = h - high
  BY <1>3, <1>5, Lessened
<1>8. below \in Nat /\ below + high <= h
  <2> HIDE DEF high
  <2>1. QED
    BY <1>3, <1>5, <1>7
<1> HIDE DEF below
<1>9. y + below \in Nat /\ r.y <= y + below /\ y + below + high <= r.y + r.h
  <2> HIDE DEF high
  <2>1. QED
    BY <1>1, <1>5, <1>8
<1>10. TextCells(r, y + below, width, scale, align) \subseteq CellsOf(r)
  BY <1>2, <1>4, <1>9, TextWithin
<1>11. QED
  BY <1>6, <1>10

(* A line in the smallest size, in any row that leaves room for it. *)
LEMMA LineWithin ==
  ASSUME NEW r \in Rect, NEW y \in Nat, r.y <= y, y + LineHeight <= r.y + r.h,
         NEW width \in Nat, width <= r.w, NEW align \in Align
  PROVE  TextCells(r, y, width, 1, align) \subseteq CellsOf(r)
<1>1. 1 * width = width /\ 1 * LineHeight = LineHeight
  BY ScreenAssumption
<1>2. QED
  BY <1>1, TextWithin

LEMMA SmallestRoom ==
  ASSUME NEW width \in Nat, NEW w \in Nat, NEW h \in Nat
  PROVE  Room(width, w, h, 1) <=> width <= w /\ LineHeight <= h
<1>1. Scale(width, w, 1) = 1
  BY ScaleFits DEF Size
<1>2. 1 * LineHeight = LineHeight
  BY ScreenAssumption
<1>3. QED
  BY <1>1, <1>2 DEF Room

LEMMA Sizes == 1 \in Size /\ 2 \in Size /\ "left" \in Align /\ "center" \in Align
BY DEF Size, Align

(* The values that a binding may have. *)
Possible(bind) == IF bind \in Point THEN Reads[bind] \cup {None} ELSE {bind}

LEMMA ResolvePossible ==
  ASSUME NEW st, StoreType(st), NEW bind
  PROVE  Resolve(bind, st).value \in Possible(bind)
BY DEF Resolve, Resolved, Possible, StoreType, Reading

LEMMA LabelFits ==
  ASSUME NEW w \in Widget, w.type = "label", NEW r \in Rect, TextFits(w, r),
         NEW st, StoreType(st)
  PROVE  LabelIn(w, r, st, CellsOf(r))
<1> DEFINE v == Resolve(w.bind, st).value
<1>1. w.bind \in Bind /\ w.size \in Size /\ w.align \in Align
  BY WidgetFields
<1>2. v \in Value /\ v \in Possible(w.bind)
  BY <1>1, ResolveType, ResolvePossible
<1> HIDE DEF v
<1>3. Room(TextWidth[v], r.w, r.h, w.size)
  BY <1>2 DEF TextFits, Possible
<1>4. TextWidth[v] \in Nat
  BY <1>2, ScreenAssumption
<1>5. r.y \in Nat /\ r.h \in Nat /\ r.y <= r.y /\ r.y + r.h <= r.y + r.h
  BY DEF Rect
<1>6. QED
  BY <1>1, <1>3, <1>4, <1>5, CentredWithin DEF LabelIn, v

LEMMA ClockFits ==
  ASSUME NEW w \in Widget, w.type = "clock", NEW r \in Rect, TextFits(w, r),
         NEW m \in 0..(Hour - 1)
  PROVE  ClockIn(w, r, m, CellsOf(r))
<1> DEFINE time == QuantizeTime(m, w.every)
<1>1. w.size \in Size /\ w.align \in Align /\ w.wide \in [0..(Hour - 1) -> Nat]
  BY WidgetFields
<1>2. time \in 0..(Hour - 1)
  BY WidgetFields, QuantizeType
<1> HIDE DEF time
<1>3. Room(w.wide[time], r.w, r.h, w.size)
  BY <1>2 DEF TextFits
<1>4. w.wide[time] \in Nat
  BY <1>1, <1>2
<1>5. r.y \in Nat /\ r.h \in Nat /\ r.y <= r.y /\ r.y + r.h <= r.y + r.h
  BY DEF Rect
<1>6. QED
  BY <1>1, <1>3, <1>4, <1>5, CentredWithin DEF ClockIn, time

LEMMA BarFits ==
  ASSUME NEW w \in Widget, w.type = "bar", NEW r \in Rect, TextFits(w, r),
         NEW st, StoreType(st)
  PROVE  BarIn(w, r, st, CellsOf(r))
<1> DEFINE lv == Resolve(w.label, st).value
           v == NumberOr(Resolve(w.bind, st), 0)
           bar == BarBelow(w, r)
<1>1. w.bind \in Bind /\ w.label \in Bind \cup {None} /\ 0 \in Value
  BY WidgetFields DEF Value
<1>2. lv \in Value /\ lv \in Possible(w.label) /\ v \in Value /\ v \in Possible(w.bind) \cup {0}
  BY <1>1, ResolveType, NumberType, ResolvePossible DEF NumberOr
<1>3. TextWidth[lv] \in Nat /\ PercentWidth[v] \in Nat
  BY <1>2, ScreenAssumption
<1>4. r.y \in Nat /\ r.h \in Nat /\ r.w \in Nat /\ LineHeight \in Nat
  BY ScreenAssumption DEF Rect
<1>5. LabelAbove(w, r) => TextCells(r, r.y, TextWidth[lv], 1, "left") \subseteq CellsOf(r)
  <2> SUFFICES ASSUME LabelAbove(w, r)
               PROVE  TextCells(r, r.y, TextWidth[lv], 1, "left") \subseteq CellsOf(r)
    OBVIOUS
  <2> HIDE DEF lv
  <2>1. TextWidth[lv] <= r.w
    BY <1>2 DEF TextFits, Possible
  <2>2. r.y <= r.y /\ r.y + LineHeight <= r.y + r.h
    BY <1>4 DEF LabelAbove
  <2>3. QED
    BY <1>3, <1>4, <2>1, <2>2, Sizes, LineWithin
<1>6. w.show /\ bar.h >= LineHeight => PercentCells(bar, v) \subseteq CellsOf(r)
  <2> SUFFICES ASSUME w.show, bar.h >= LineHeight
               PROVE  PercentCells(bar, v) \subseteq CellsOf(r)
    OBVIOUS
  <2>1. bar \in Rect /\ bar.w = r.w /\ CellsOf(bar) \subseteq CellsOf(r)
    BY BarBelowRect
  <2> HIDE DEF bar, v
  <2>2. PercentWidth[v] <= bar.w
    BY <1>2, <2>1 DEF TextFits, Possible
  <2>3. bar.y \in Nat /\ bar.h \in Nat /\ bar.y <= bar.y /\ bar.y + bar.h <= bar.y + bar.h
        /\ LineHeight <= bar.h
    BY <1>4, <2>1 DEF Rect
  <2>4. Room(PercentWidth[v], bar.w, bar.h, 1)
    BY <1>3, <1>4, <2>1, <2>2, <2>3, SmallestRoom
  <2>5. PercentCells(bar, v) \subseteq CellsOf(bar)
    BY <1>3, <2>1, <2>3, <2>4, Sizes, CentredWithin DEF PercentCells
  <2>6. QED
    BY <2>1, <2>5
<1>7. QED
  BY <1>5, <1>6 DEF BarIn

LEMMA GaugeFits ==
  ASSUME NEW w \in Widget, w.type = "gauge", NEW r \in Rect, TextFits(w, r),
         NEW st, StoreType(st)
  PROVE  GaugeIn(w, r, st, CellsOf(r))
<1> DEFINE v == NumberOr(Resolve(w.bind, st), w.min)
           y == r.y + Less(r.h, LineHeight)
<1>1. w.bind \in Bind /\ w.min \in Value /\ w.wide \in [Value -> Nat]
  BY WidgetFields
<1>2. v \in Value /\ v \in Possible(w.bind) \cup {w.min}
  BY <1>1, NumberType, ResolvePossible DEF NumberOr
<1> HIDE DEF v
<1>3. Room(w.wide[v], r.w, r.h, 1) /\ r.w >= GaugeSide /\ r.h >= GaugeSide
  BY <1>2 DEF TextFits, Possible
<1>4. w.wide[v] \in Nat
  BY <1>1, <1>2
<1>5. r.y \in Nat /\ r.h \in Nat /\ r.w \in Nat /\ LineHeight \in Nat
  BY ScreenAssumption DEF Rect
<1>6. w.wide[v] <= r.w /\ LineHeight <= r.h
  BY <1>3, <1>4, <1>5, SmallestRoom
<1>7. y \in Nat /\ r.y <= y /\ y + LineHeight <= r.y + r.h
  <2>1. Less(r.h, LineHeight) = r.h - LineHeight
    BY <1>5, <1>6, Lessened
  <2>2. QED
    BY <1>5, <1>6, <2>1
<1> HIDE DEF y
<1>8. TextCells(r, y, w.wide[v], 1, "center") \subseteq CellsOf(r)
  BY <1>4, <1>6, <1>7, Sizes, LineWithin
<1>9. ArcCells(r) = CellsOf(r)
  BY <1>3 DEF ArcCells
<1>10. QED
  BY <1>8, <1>9 DEF GaugeIn, v, y

LEMMA TimerFits ==
  ASSUME NEW w \in Widget, w.type = "timer", NEW r \in Rect, TextFits(w, r),
         NEW st, StoreType(st)
  PROVE  TimerIn(w, r, st, CellsOf(r))
<1> DEFINE val == Resolve(w.bind, st)
           n == TimeWidth(w, val)
           times == IF w.label = None THEN r.h ELSE r.h - (LineHeight + 1)
           y == TimeY(w, r)
<1>1. /\ w.bind \in Bind /\ w.label \in Nat \cup {None} /\ w.every \in Nat
      /\ w.wide \in [0..Ahead -> Nat]
  BY WidgetFields
<1>2. r.y \in Nat /\ r.h \in Nat /\ r.w \in Nat /\ LineHeight \in Nat
  BY ScreenAssumption DEF Rect
<1>3. /\ \A k \in {w.wide[m] : m \in 0..Ahead} \cup {TextWidth[None]} : Room(k, r.w, times, 2)
      /\ w.label # None => w.label <= r.w /\ LineHeight <= r.h
  BY DEF TextFits
<1>4. n \in Nat /\ n \in {w.wide[m] : m \in 0..Ahead} \cup {TextWidth[None]}
  <2>1. val.left \in 0..Ahead \cup {None} /\ None \in Value
    BY <1>1, ResolveType DEF Value
  <2> HIDE DEF val
  <2>2. CASE val.left # None
    <3>1. Remaining(val.left, w.every) \in 0..Ahead
      BY <1>1, <2>1, <2>2, RemainingType
    <3>2. QED
      BY <1>1, <2>2, <3>1 DEF TimeWidth
  <2>3. CASE val.left = None
    BY <2>1, <2>3, ScreenAssumption DEF TimeWidth
  <2>4. QED
    BY <2>2, <2>3
<1> HIDE DEF n
<1>5. Room(n, r.w, times, 2)
  BY <1>3, <1>4
<1>6. times \in Nat
  <2>1. Scale(n, r.w, 2) \in 1..2 /\ Scale(n, r.w, 2) * LineHeight <= times
    BY <1>2, <1>4, <1>5, Sizes, ScaleFits DEF Room
  <2> DEFINE s == Scale(n, r.w, 2)
  <2>2. s * LineHeight \in Nat
    BY <1>2, <2>1
  <2> HIDE DEF s
  <2>3. times \in Int
    BY <1>2
  <2>4. QED
    BY <2>1, <2>2, <2>3 DEF s
<1>7. /\ y \in Nat /\ r.y <= y /\ y + times <= r.y + r.h
      /\ Less(r.h, y - r.y) = times
  <2>1. CASE w.label = None
    <3>1. y = r.y /\ times = r.h
      BY <2>1 DEF TimeY
    <3> HIDE DEF y, times
    <3>2. y - r.y = 0 /\ r.h >= 0 /\ r.h \in Int
      BY <1>2, <3>1
    <3>3. Less(r.h, y - r.y) = r.h
      BY <3>2, Lessened
    <3>4. QED
      BY <1>2, <3>1, <3>3
  <2>2. CASE w.label # None
    <3>1. y = r.y + (LineHeight + 1) /\ times = r.h - (LineHeight + 1)
      BY <1>2, <2>2 DEF TimeY
    <3> HIDE DEF y, times
    <3>2. y - r.y = LineHeight + 1 /\ r.h >= LineHeight + 1 /\ LineHeight + 1 \in Int /\ r.h \in Int
      BY <1>2, <1>6, <3>1
    <3>3. Less(r.h, y - r.y) = times
      BY <3>1, <3>2, Lessened
    <3>4. QED
      BY <1>2, <1>6, <3>1, <3>3
  <2>3. QED
    BY <2>1, <2>2
<1> HIDE DEF y, times
<1>8. Centred(r, y, times, n, 2, "center") \subseteq CellsOf(r)
  BY <1>4, <1>5, <1>6, <1>7, Sizes, CentredWithin
<1>9. TimeCells(w, r, val) \subseteq CellsOf(r)
  BY <1>7, <1>8 DEF TimeCells, y, n
<1>10. w.label # None => TextCells(r, r.y, w.label, 1, "center") \subseteq CellsOf(r)
  <2> SUFFICES ASSUME w.label # None
               PROVE  TextCells(r, r.y, w.label, 1, "center") \subseteq CellsOf(r)
    OBVIOUS
  <2>1. w.label \in Nat /\ w.label <= r.w /\ r.y <= r.y /\ r.y + LineHeight <= r.y + r.h
    BY <1>1, <1>2, <1>3
  <2>2. QED
    BY <1>2, <2>1, Sizes, LineWithin
<1>11. QED
  BY <1>9, <1>10 DEF TimerIn

LEMMA NoteFits ==
  ASSUME NEW w \in Widget, w.type = "image", NEW r \in Rect, TextFits(w, r)
  PROVE  NoteIn(w, r, CellsOf(r))
<1> SUFFICES ASSUME ~w.loads
             PROVE  Centred(r, r.y, r.h, NoteWidth, 1, "center") \subseteq CellsOf(r)
  BY DEF NoteIn
<1>1. Room(NoteWidth, r.w, r.h, 1)
  BY DEF TextFits
<1>2. r.y \in Nat /\ r.h \in Nat /\ r.y <= r.y /\ r.y + r.h <= r.y + r.h /\ NoteWidth \in Nat
  BY ScreenAssumption DEF Rect
<1>3. QED
  BY <1>1, <1>2, Sizes, CentredWithin

(* The texts that have room in their slot are drawn within it. *)
LEMMA TextsWithin ==
  ASSUME NEW w \in Widget, NEW r \in Rect, TextFits(w, r), NEW st, StoreType(st),
         NEW m \in 0..(Hour - 1)
  PROVE  TextsIn(w, r, st, m, CellsOf(r))
BY LabelFits, ClockFits, BarFits, GaugeFits, TimerFits, NoteFits DEF TextsIn

(* A slot that is not empty nor past the panel draws within its rectangle. *)
LEMMA SlotWithin ==
  ASSUME NEW slot, slot.rect \in Rect, slot.widget \in Widget \cup {None},
         NEW st, StoreType(st), NEW m \in 0..(Hour - 1),
         slot.rect.x + slot.rect.w <= Width, slot.rect.y + slot.rect.h <= Height,
         slot.widget # None => TextFits(slot.widget, slot.rect)
  PROVE  SlotStrokes(slot, st, m) \in Seq(Within(CellsOf(slot.rect)))
<1>1. Clipped(slot.rect) = slot.rect
  BY ClippedRect
<1>2. CASE IsEmpty(slot.rect) \/ slot.widget = None
  <2>1. SlotStrokes(slot, st, m) = <<>>
    BY <1>1, <1>2 DEF SlotStrokes
  <2>2. QED
    BY <2>1
<1>3. CASE ~ (IsEmpty(slot.rect) \/ slot.widget = None)
  <2>1. SlotStrokes(slot, st, m) = Strokes(slot.widget, slot.rect, st, m)
    BY <1>1, <1>3 DEF SlotStrokes
  <2>2. TextsIn(slot.widget, slot.rect, st, m, CellsOf(slot.rect))
    BY <1>3, TextsWithin
  <2>3. QED
    BY <1>3, <2>1, <2>2, StrokesWithin
<1>4. QED
  BY <1>2, <1>3

(* Rectangles that do not overlap have no cell in common. *)
LEMMA Apart ==
  ASSUME NEW a \in Rect, NEW b \in Rect,
         ~ (a.x < b.x + b.w /\ b.x < a.x + a.w /\ a.y < b.y + b.h /\ b.y < a.y + a.h)
  PROVE  CellsOf(a) \cap CellsOf(b) = {}
<1>1. /\ a.x \in Nat /\ a.y \in Nat /\ a.w \in Nat /\ a.h \in Nat
      /\ b.x \in Nat /\ b.y \in Nat /\ b.w \in Nat /\ b.h \in Nat
  BY DEF Rect
<1>2. ASSUME NEW c \in CellsOf(a), c \in CellsOf(b) PROVE FALSE
  <2>1. /\ c[1] \in a.x..(a.x + a.w - 1) /\ c[1] \in b.x..(b.x + b.w - 1)
        /\ c[2] \in a.y..(a.y + a.h - 1) /\ c[2] \in b.y..(b.y + b.h - 1)
    BY <1>2 DEF CellsOf
  <2> DEFINE column == c[1]
             row == c[2]
  <2> HIDE DEF column, row
  <2>2. /\ column \in a.x..(a.x + a.w - 1) /\ column \in b.x..(b.x + b.w - 1)
        /\ row \in a.y..(a.y + a.h - 1) /\ row \in b.y..(b.y + b.h - 1)
    BY <2>1 DEF column, row
  <2>3. QED
    BY <1>1, <2>2
<1>3. QED
  BY <1>2

(* What a layout is like if lint has nothing to say of it. *)
LEMMA LintedSlots ==
  ASSUME NEW l \in Layout, Lint(l) = {}, NoneWraps(l)
  PROVE  /\ \A i \in 1..Len(l) : /\ l[i].rect.w > 0 /\ l[i].rect.h > 0
                                 /\ l[i].rect.x + l[i].rect.w <= Width
                                 /\ l[i].rect.y + l[i].rect.h <= Height
         /\ \A i, j \in 1..Len(l) :
              i # j => l[i].id # l[j].id /\ CellsOf(l[i].rect) \cap CellsOf(l[j].rect) = {}
<1>1. Len(l) \in Nat /\ DOMAIN l = 1..Len(l) /\ \A i \in 1..Len(l) : l[i].rect \in Rect
  BY LayoutSlots
<1>2. Wrap \in Nat \ {0} /\ Width \in Nat /\ Height \in Nat
  BY ScreenAssumption
<1>3. \A n \in Nat : n < Wrap => U32(n) = n
  <2> SUFFICES ASSUME NEW n \in Nat, n < Wrap PROVE n % Wrap = n
    BY DEF U32
  <2>1. n = Wrap * 0 + n /\ n \in 0..(Wrap - 1)
    BY <1>2
  <2>2. QED
    BY <1>2, <2>1, QuotientIs
<1>4. ASSUME NEW i \in 1..Len(l)
      PROVE  /\ l[i].rect.x \in Nat /\ l[i].rect.y \in Nat
             /\ l[i].rect.w \in Nat /\ l[i].rect.h \in Nat
             /\ U32(l[i].rect.x + l[i].rect.w) = l[i].rect.x + l[i].rect.w
             /\ U32(l[i].rect.y + l[i].rect.h) = l[i].rect.y + l[i].rect.h
  <2>1. /\ l[i].rect.x \in Nat /\ l[i].rect.y \in Nat
        /\ l[i].rect.w \in Nat /\ l[i].rect.h \in Nat
    BY <1>1 DEF Rect
  <2>2. l[i].rect.x + l[i].rect.w < Wrap /\ l[i].rect.y + l[i].rect.h < Wrap
    BY <1>1 DEF NoneWraps
  <2>3. QED
    BY <1>3, <2>1, <2>2
<1>5. ASSUME NEW i \in 1..Len(l)
      PROVE  ~IsEmpty(l[i].rect) /\ ~PastPanel(l[i].rect)
  BY <1>1 DEF Lint
<1>6. ASSUME NEW i \in 1..Len(l), NEW j \in 1..(i - 1)
      PROVE  l[j].id # l[i].id /\ ~Overlap(l[j].rect, l[i].rect)
  BY <1>1 DEF Lint
<1>7. ASSUME NEW i \in 1..Len(l), NEW j \in 1..(i - 1)
      PROVE  CellsOf(l[j].rect) \cap CellsOf(l[i].rect) = {}
  <2> DEFINE a == l[j].rect
             b == l[i].rect
  <2>1. j \in 1..Len(l)
    BY <1>1
  <2>2. a \in Rect /\ b \in Rect
    BY <1>1, <2>1
  <2>3. ~ (a.x < b.x + b.w /\ b.x < a.x + a.w /\ a.y < b.y + b.h /\ b.y < a.y + a.h)
    BY <1>4, <1>6, <2>1 DEF Overlap
  <2> HIDE DEF a, b
  <2>4. CellsOf(a) \cap CellsOf(b) = {}
    BY <2>2, <2>3, Apart
  <2>5. QED
    BY <2>4 DEF a, b
<1>8. ASSUME NEW i \in 1..Len(l), NEW j \in 1..Len(l), i # j
      PROVE  l[i].id # l[j].id /\ CellsOf(l[i].rect) \cap CellsOf(l[j].rect) = {}
  <2>1. i \in 1..(j - 1) \/ j \in 1..(i - 1)
    BY <1>1, <1>8
  <2>2. QED
    BY <1>6, <1>7, <2>1
<1>9. ASSUME NEW i \in 1..Len(l)
      PROVE  /\ l[i].rect.w > 0 /\ l[i].rect.h > 0
             /\ l[i].rect.x + l[i].rect.w <= Width
             /\ l[i].rect.y + l[i].rect.h <= Height
  <2> DEFINE r == l[i].rect
  <2>1. r.w # 0 /\ r.h # 0
    BY <1>5 DEF IsEmpty
  <2>2. ~(r.x + r.w > Width) /\ ~(r.y + r.h > Height)
    BY <1>4, <1>5, Zenon DEF PastPanel
  <2>3. r.x \in Nat /\ r.y \in Nat /\ r.w \in Nat /\ r.h \in Nat
    BY <1>4
  <2> HIDE DEF r
  <2>4. r.w > 0 /\ r.h > 0 /\ r.x + r.w <= Width /\ r.y + r.h <= Height
    BY <1>2, <2>1, <2>2, <2>3
  <2>5. QED
    BY <2>4 DEF r
<1>10. QED
  BY <1>8, <1>9

(* Layout::lint: "a silent overlap is a common cause of `my widget          *)
(* disappeared'".  Every slot of a layout that lint has nothing to say of   *)
(* can be reached by its name, lies on the panel, and shows there what it   *)
(* would show if it were the only slot: whatever the readings and the time  *)
(* are, if each text has room in its slot in the size that fit_scale takes, *)
(* each gauge for its arc, and no edge is past 2^32.                        *)
THEOREM LintedShown == Spec => []LintedIsShown
<1> SUFFICES Typed => LintedIsShown
  BY AlwaysTyped, PTL
<1> SUFFICES ASSUME Typed PROVE LintedIsShown
  OBVIOUS
<1> SUFFICES ASSUME Lint(layout) = {}, TextsFit(layout), NoneWraps(layout),
                    NEW i \in DOMAIN layout
             PROVE  LET cells == CellsOf(layout[i].rect)
                        image == Compose(layout, store, minute)
                        alone == Compose(<<layout[i]>>, store, minute)
                    IN /\ SlotNamed(layout, layout[i].id) = {i}
                       /\ cells \subseteq Cell
                       /\ Restrict(image, cells) = Restrict(alone, cells)
  BY DEF LintedIsShown
<1> DEFINE n == Len(layout)
           cells(k) == CellsOf(layout[k].rect)
           all == Drawing(layout, store, minute)
           one == Drawing(<<layout[i]>>, store, minute)
<1>1. layout \in Layout /\ StoreType(store) /\ minute \in 0..(Hour - 1)
  BY DEF Typed
<1>2. n \in Nat /\ DOMAIN layout = 1..n /\ i \in 1..n
  BY <1>1, LayoutSlots
<1>3. \A k \in 1..n : layout[k].rect \in Rect /\ layout[k].widget \in Widget \cup {None}
  BY <1>1, LayoutSlots
<1>4. \A k \in 1..n : /\ layout[k].rect.w > 0 /\ layout[k].rect.h > 0
                      /\ layout[k].rect.x + layout[k].rect.w <= Width
                      /\ layout[k].rect.y + layout[k].rect.h <= Height
  BY <1>1, LintedSlots
<1>5. \A k, j \in 1..n :
        k # j => layout[k].id # layout[j].id /\ cells(k) \cap cells(j) = {}
  BY <1>1, LintedSlots
<1>6. SlotNamed(layout, layout[i].id) = {i}
  <2>1. \A j \in 1..(i - 1) : j \in 1..n /\ j # i
    BY <1>2
  <2>2. i \in SlotNamed(layout, layout[i].id)
    BY <1>2, <1>5, <2>1 DEF SlotNamed
  <2>3. \A k \in SlotNamed(layout, layout[i].id) : k = i
    BY <1>2, <1>5 DEF SlotNamed
  <2>4. QED
    BY <2>2, <2>3
<1>7. cells(i) \subseteq Cell
  <2>1. /\ layout[i].rect.x \in Nat /\ layout[i].rect.y \in Nat
        /\ layout[i].rect.w \in Nat /\ layout[i].rect.h \in Nat
    BY <1>2, <1>3 DEF Rect
  <2>2. Width \in Nat /\ Height \in Nat
    BY ScreenAssumption
  <2>3. layout[i].rect.x + layout[i].rect.w <= Width /\ layout[i].rect.y + layout[i].rect.h <= Height
    BY <1>2, <1>4
  <2> DEFINE r == layout[i].rect
  <2> HIDE DEF r
  <2>4. r.x..(r.x + r.w - 1) \subseteq 0..(Width - 1) /\ r.y..(r.y + r.h - 1) \subseteq 0..(Height - 1)
    BY <2>1, <2>2, <2>3 DEF r
  <2>5. CellsOf(r) \subseteq Cell
    BY <2>4 DEF CellsOf, Cell
  <2>6. QED
    BY <2>5 DEF r
<1>8. ASSUME NEW k \in 1..n
      PROVE  SlotStrokes(layout[k], store, minute) \in Seq(Within(cells(k)))
  <2>1. layout[k].widget # None => TextFits(layout[k].widget, layout[k].rect)
    BY <1>2 DEF TextsFit
  <2>2. QED
    BY <1>1, <1>3, <1>4, <2>1, SlotWithin
<1>9. Len(all) = n /\ \A k \in 1..n : all[k] = SlotStrokes(layout[k], store, minute)
  BY <1>1, DrawingOf
<1>10. <<layout[i]>> \in Layout
  <2> DEFINE S == [id : Name, rect : Rect, widget : Widget \cup {None}]
  <2>1. layout \in Seq(S)
    BY <1>1 DEF Layout
  <2> HIDE DEF S
  <2>2. <<layout[i]>> \in Seq(S)
    BY <1>2, <2>1
  <2>3. QED
    BY <2>2 DEF Layout, S
<1>11. Len(one) = 1 /\ one[1] = SlotStrokes(layout[i], store, minute)
  BY <1>1, <1>10, DrawingOf
<1>12. ASSUME NEW c \in cells(i)
       PROVE  Layered(all, c) = Layered(one, c)
  <2> HIDE DEF all, one
  <2>1. ASSUME NEW k \in 1..n
        PROVE  /\ Len(all[k]) \in Nat
               /\ \A j \in 1..Len(all[k]) : k # i => c \notin all[k][j].cells
    <3> DEFINE S == Within(cells(k))
    <3>1. all[k] \in Seq(S)
      BY <1>8, <1>9
    <3>2. \A s \in S : s.cells \subseteq cells(k)
      BY DEF Within
    <3>3. k # i => c \notin cells(k)
      BY <1>2, <1>5, <1>12
    <3> HIDE DEF S, cells
    <3>4. QED
      BY <3>1, <3>2, <3>3
  <2>2. Layered(all, c) = Painted(all[i], c, <<>>)
    BY <1>2, <1>9, <2>1, LayeredAlone
  <2>3. Len(one[1]) \in Nat
    BY <1>2, <1>9, <1>11, <2>1
  <2>4. Layered(one, c) = Painted(one[1], c, <<>>)
    <3>1. 1..Len(one) = {1}
      BY <1>11
    <3>2. QED
      BY <1>11, <2>3, <3>1, LayeredAlone
  <2>5. QED
    BY <1>2, <1>9, <1>11, <2>2, <2>4
<1>13. /\ Compose(layout, store, minute) = [c \in Cell |-> Layered(all, c)]
       /\ Compose(<<layout[i]>>, store, minute) = [c \in Cell |-> Layered(one, c)]
  <2> DEFINE slot == <<layout[i]>>
  <2>1. \A l \in Layout :
          Compose(l, store, minute) = [c \in Cell |-> Layered(Drawing(l, store, minute), c)]
    BY <1>1, ComposeType
  <2>2. slot \in Layout
    BY <1>10
  <2> HIDE DEF slot
  <2>3. /\ Compose(layout, store, minute) = [c \in Cell |-> Layered(all, c)]
        /\ Compose(slot, store, minute)
             = [c \in Cell |-> Layered(Drawing(slot, store, minute), c)]
    BY <1>1, <2>1, <2>2
  <2>4. QED
    BY <2>3 DEF slot
<1> HIDE DEF all, one
<1>14. Restrict(Compose(layout, store, minute), cells(i))
         = Restrict(Compose(<<layout[i]>>, store, minute), cells(i))
  <2> HIDE DEF cells
  <2>1. QED
    BY <1>7, <1>12, <1>13 DEF Restrict
<1>15. QED
  BY <1>6, <1>7, <1>14

---------------------------------------------------------------------------
(* Sums. *)

SumsUpTo(h, s, k) == h = [i \in 0..k |-> IF i = 0 THEN 0 ELSE h[i - 1] + s[i]]

LEMMA TotalSteps ==
  ASSUME NEW s, Len(s) \in Nat
  PROVE  \E h : SumsUpTo(h, s, Len(s)) /\ Total(s) = h[Len(s)]
<1> DEFINE n == Len(s)
           S == {k \in 0..n : \E h : SumsUpTo(h, s, k)}
<1>1. 0 \in S
  <2>1. SumsUpTo([i \in 0..0 |-> 0], s, 0)
    BY DEF SumsUpTo
  <2>2. QED
    BY <2>1
<1>2. ASSUME NEW k \in 1..n, k - 1 \in S PROVE k \in S
  <2>1. PICK h : SumsUpTo(h, s, k - 1)
    BY <1>2
  <2> DEFINE g == [i \in 0..k |-> IF i = k THEN h[k - 1] + s[k] ELSE h[i]]
  <2>2. /\ \A i \in 0..(k - 1) : g[i] = h[i]
        /\ g[k] = h[k - 1] + s[k]
    OBVIOUS
  <2>3. \A i \in 0..k : g[i] = IF i = 0 THEN 0 ELSE g[i - 1] + s[i]
    <3> SUFFICES ASSUME NEW i \in 0..k PROVE g[i] = IF i = 0 THEN 0 ELSE g[i - 1] + s[i]
      OBVIOUS
    <3>1. CASE i = k
      <4>1. i # 0 /\ i - 1 \in 0..(k - 1)
        BY <3>1
      <4> HIDE DEF g
      <4>2. QED
        BY <2>2, <3>1, <4>1
    <3>2. CASE i # k
      <4>1. i \in 0..(k - 1) /\ (i # 0 => i - 1 \in 0..(k - 1))
        BY <3>2
      <4>2. h[i] = IF i = 0 THEN 0 ELSE h[i - 1] + s[i]
        BY <2>1, <4>1 DEF SumsUpTo
      <4> HIDE DEF g
      <4>3. QED
        BY <2>2, <4>1, <4>2
    <3>3. QED
      BY <3>1, <3>2
  <2>4. SumsUpTo(g, s, k)
    <3>1. g = [i \in 0..k |-> g[i]]
      OBVIOUS
    <3> HIDE DEF g
    <3>2. QED
      BY <2>3, <3>1 DEF SumsUpTo
  <2>5. QED
    BY <2>4
<1>3. n \in S
  <2>1. n \in Nat
    OBVIOUS
  <2> HIDE DEF S, n
  <2>2. 0..n \subseteq S
    BY <1>1, <1>2, <2>1, Induction
  <2>3. QED
    BY <2>1, <2>2
<1>4. \E h : SumsUpTo(h, s, n)
  BY <1>3
<1>5. PICK h : h = CHOOSE g : SumsUpTo(g, s, n)
  OBVIOUS
<1>6. SumsUpTo(h, s, n)
  BY <1>4, <1>5
<1>7. Total(s) = h[n]
  BY <1>5 DEF Total, SumsUpTo
<1>8. QED
  BY <1>6, <1>7

(* The sum, and the sums of the beginnings. *)
LEMMA TotalSums ==
  ASSUME NEW s \in Seq(Nat)
  PROVE  \E h : /\ h[0] = 0 /\ h[Len(s)] = Total(s)
                /\ \A i \in 1..Len(s) : h[i] = h[i - 1] + s[i]
                /\ \A i \in 0..Len(s) : h[i] \in Nat
<1> DEFINE n == Len(s)
<1>1. n \in Nat /\ \A i \in 1..n : s[i] \in Nat
  OBVIOUS
<1>2. PICK h : SumsUpTo(h, s, n) /\ Total(s) = h[n]
  BY <1>1, TotalSteps
<1> HIDE DEF n
<1>3. h[0] = 0 /\ \A i \in 1..n : h[i] = h[i - 1] + s[i]
  BY <1>1, <1>2 DEF SumsUpTo
<1> DEFINE S == {i \in 0..n : h[i] \in Nat}
<1>4. 0 \in S
  BY <1>1, <1>3
<1>5. ASSUME NEW i \in 1..n, i - 1 \in S PROVE i \in S
  BY <1>1, <1>3, <1>5
<1>6. 0..n \subseteq S
  <2> HIDE DEF S
  <2>1. QED
    BY <1>1, <1>4, <1>5, Induction
<1>7. QED
  BY <1>2, <1>3, <1>6 DEF n

LEMMA TotalNat ==
  ASSUME NEW s \in Seq(Nat)
  PROVE  Total(s) \in Nat
<1>1. PICK h : h[Len(s)] = Total(s) /\ \A i \in 0..Len(s) : h[i] \in Nat
  BY TotalSums
<1>2. QED
  BY <1>1

(* Sums, one of which is scaled, compare as their terms do, up to what each *)
(* term may be off.                                                         *)
LEMMA TotalScaled ==
  ASSUME NEW s \in Seq(Nat), NEW t \in Seq(Nat), Len(s) = Len(t), NEW d \in Nat, NEW e \in Nat,
         \A i \in 1..Len(s) : s[i] * d <= t[i] + e
  PROVE  Total(s) * d <= Total(t) + Len(s) * e
<1> DEFINE n == Len(s)
<1>1. n \in Nat /\ (\A i \in 1..n : s[i] \in Nat /\ t[i] \in Nat)
  OBVIOUS
<1>2. PICK h : /\ h[0] = 0 /\ h[n] = Total(s)
               /\ \A i \in 1..n : h[i] = h[i - 1] + s[i]
               /\ \A i \in 0..n : h[i] \in Nat
  BY TotalSums
<1>3. PICK g : /\ g[0] = 0 /\ g[n] = Total(t)
               /\ \A i \in 1..n : g[i] = g[i - 1] + t[i]
               /\ \A i \in 0..n : g[i] \in Nat
  BY TotalSums
<1> DEFINE S == {i \in 0..n : h[i] * d <= g[i] + i * e}
<1> HIDE DEF n
<1>4. 0 \in S
  <2>1. h[0] * d <= g[0] + 0 * e
    BY <1>2, <1>3
  <2>2. QED
    BY <1>1, <2>1
<1>5. ASSUME NEW i \in 1..n, i - 1 \in S PROVE i \in S
  <2> DEFINE a == h[i - 1]
             b == g[i - 1]
             x == s[i]
             y == t[i]
             j == i - 1
  <2>1. a \in Nat /\ b \in Nat /\ x \in Nat /\ y \in Nat /\ j \in Nat /\ j + 1 = i
    BY <1>1, <1>2, <1>3
  <2>2. h[i] = a + x /\ g[i] = b + y
    BY <1>2, <1>3
  <2>3. a * d <= b + j * e
    BY <1>5
  <2>4. x * d <= y + e
    BY DEF n
  <2> HIDE DEF a, b, x, y, j
  <2>5. (a + x) * d = a * d + x * d /\ (j + 1) * e = j * e + e
    BY <2>1
  <2>6. a * d \in Nat /\ x * d \in Nat /\ j * e \in Nat
    BY <2>1
  <2>7. (a + x) * d <= (b + y) + (j + 1) * e
    BY <2>1, <2>3, <2>4, <2>5, <2>6
  <2>8. h[i] * d <= g[i] + i * e
    BY <2>1, <2>2, <2>7
  <2>9. QED
    BY <1>1, <2>8
<1>6. 0..n \subseteq S
  <2> HIDE DEF S
  <2>1. QED
    BY <1>1, <1>4, <1>5, Induction
<1>7. h[n] * d <= g[n] + n * e
  BY <1>1, <1>6
<1>8. QED
  BY <1>2, <1>3, <1>7 DEF n

LEMMA TotalAtLeast ==
  ASSUME NEW s \in Seq(Nat), NEW t \in Seq(Nat), Len(s) = Len(t), NEW d \in Nat,
         \A i \in 1..Len(s) : t[i] <= s[i] * d
  PROVE  Total(t) <= Total(s) * d
<1> DEFINE n == Len(s)
<1>1. n \in Nat /\ n = Len(t) /\ (\A i \in 1..n : s[i] \in Nat /\ t[i] \in Nat)
  OBVIOUS
<1>2. PICK h : /\ h[0] = 0 /\ h[n] = Total(s)
               /\ \A i \in 1..n : h[i] = h[i - 1] + s[i]
               /\ \A i \in 0..n : h[i] \in Nat
  BY TotalSums
<1>3. PICK g : /\ g[0] = 0 /\ g[n] = Total(t)
               /\ \A i \in 1..n : g[i] = g[i - 1] + t[i]
               /\ \A i \in 0..n : g[i] \in Nat
  BY TotalSums
<1> DEFINE S == {i \in 0..n : g[i] <= h[i] * d}
<1> HIDE DEF n
<1>4. 0 \in S
  BY <1>1, <1>2, <1>3
<1>5. ASSUME NEW i \in 1..n, i - 1 \in S PROVE i \in S
  <2> DEFINE a == h[i - 1]
             b == g[i - 1]
             x == s[i]
             y == t[i]
  <2>1. a \in Nat /\ b \in Nat /\ x \in Nat /\ y \in Nat
    BY <1>1, <1>2, <1>3
  <2>2. h[i] = a + x /\ g[i] = b + y
    BY <1>2, <1>3
  <2>3. b <= a * d
    BY <1>5
  <2>4. y <= x * d
    BY DEF n
  <2> HIDE DEF a, b, x, y
  <2>5. (a + x) * d = a * d + x * d /\ a * d \in Nat /\ x * d \in Nat
    BY <2>1
  <2>6. b + y <= (a + x) * d
    BY <2>1, <2>3, <2>4, <2>5
  <2>7. QED
    BY <1>1, <2>1, <2>2, <2>6
<1>6. 0..n \subseteq S
  <2> HIDE DEF S
  <2>1. QED
    BY <1>1, <1>4, <1>5, Induction
<1>7. g[n] <= h[n] * d
  BY <1>1, <1>6
<1>8. QED
  BY <1>2, <1>3, <1>7 DEF n

(* The sum of ones. *)
LEMMA TotalOnes ==
  ASSUME NEW s \in Seq(Nat), \A i \in 1..Len(s) : s[i] = 1
  PROVE  Total(s) = Len(s)
<1> DEFINE n == Len(s)
<1>1. n \in Nat /\ \A i \in 1..n : s[i] = 1
  OBVIOUS
<1>2. PICK h : /\ h[0] = 0 /\ h[n] = Total(s)
               /\ \A i \in 1..n : h[i] = h[i - 1] + s[i]
               /\ \A i \in 0..n : h[i] \in Nat
  BY TotalSums
<1> HIDE DEF n
<1> DEFINE S == {i \in 0..n : h[i] = i}
<1>3. 0 \in S
  BY <1>1, <1>2
<1>4. ASSUME NEW i \in 1..n, i - 1 \in S PROVE i \in S
  BY <1>1, <1>2, <1>4, SMTT(30)
<1>5. 0..n \subseteq S
  <2> HIDE DEF S
  <2>1. QED
    BY <1>1, <1>3, <1>4, Induction
<1>6. h[n] = n
  BY <1>1, <1>5
<1>7. QED
  BY <1>2, <1>6 DEF n

(* A sum with one term. *)
LEMMA TotalSingle ==
  ASSUME NEW s \in Seq(Nat), NEW k \in 1..Len(s), \A i \in 1..Len(s) : i # k => s[i] = 0
  PROVE  Total(s) = s[k]
<1> DEFINE n == Len(s)
           term == s[k]
<1>1. n \in Nat /\ k \in 1..n /\ term \in Nat /\ \A i \in 1..n : i # k => s[i] = 0
  OBVIOUS
<1>2. PICK h : /\ h[0] = 0 /\ h[n] = Total(s)
               /\ \A i \in 1..n : h[i] = h[i - 1] + s[i]
               /\ \A i \in 0..n : h[i] \in Nat
  BY TotalSums
<1> HIDE DEF n
<1> DEFINE S == {i \in 0..n : h[i] = IF i < k THEN 0 ELSE term}
<1>3. 0 \in S
  BY <1>1, <1>2
<1>4. ASSUME NEW i \in 1..n, i - 1 \in S PROVE i \in S
  <2>1. h[i] = h[i - 1] + s[i] /\ h[i - 1] \in Nat
    BY <1>1, <1>2
  <2>2. CASE i = k
    BY <1>1, <1>4, <2>1, <2>2
  <2>3. CASE i # k
    <3>1. s[i] = 0
      BY <1>1, <2>3
    <3> HIDE DEF term
    <3>2. QED
      BY <1>1, <1>4, <2>1, <2>3, <3>1
  <2>4. QED
    BY <2>2, <2>3
<1>5. 0..n \subseteq S
  <2> HIDE DEF S
  <2>1. QED
    BY <1>1, <1>3, <1>4, Induction
<1> HIDE DEF term
<1>6. h[n] = term
  BY <1>1, <1>5
<1>7. QED
  BY <1>2, <1>6 DEF term

LEMMA TotalPositive ==
  ASSUME NEW s \in Seq(Nat \ {0})
  PROVE  Total(s) \in Nat /\ Total(s) >= Len(s)
<1> DEFINE m == Len(s)
           ones == [i \in 1..m |-> 1]
<1>1. m \in Nat /\ s \in Seq(Nat) /\ \A i \in 1..m : s[i] \in Nat /\ s[i] >= 1
  OBVIOUS
<1>2. ones \in [1..m -> Nat] /\ \A i \in 1..m : ones[i] = 1
  OBVIOUS
<1> HIDE DEF m, ones
<1>3. ones \in Seq(Nat) /\ Len(ones) = m
  BY <1>1, <1>2
<1>4. Total(ones) = m
  BY <1>2, <1>3, TotalOnes
<1>5. \A i \in 1..Len(s) : ones[i] <= s[i] * 1
  BY <1>1, <1>2 DEF m
<1>6. Total(ones) <= Total(s) * 1 /\ Total(s) \in Nat
  BY <1>1, <1>3, <1>5, TotalAtLeast, TotalNat DEF m
<1>7. QED
  BY <1>1, <1>4, <1>6 DEF m

---------------------------------------------------------------------------
(* The greatest common divisor. *)

GcdUpTo(h, k) ==
  h = [p \in Nat \X (0..k) |-> IF p[2] = 0 THEN p[1] ELSE h[<<p[2], p[1] % p[2]>>]]

LEMMA GcdUpToStep ==
  ASSUME NEW h, NEW k \in Nat, GcdUpTo(h, k), NEW a \in Nat, NEW b \in 0..k
  PROVE  h[<<a, b>>] = IF b = 0 THEN a ELSE h[<<b, a % b>>]
<1>1. <<a, b>> \in Nat \X (0..k) /\ <<a, b>>[1] = a /\ <<a, b>>[2] = b
  OBVIOUS
<1>2. QED
  BY <1>1 DEF GcdUpTo

LEMMA GcdUpToZero ==
  ASSUME NEW h, NEW k \in Nat, GcdUpTo(h, k), NEW a \in Nat
  PROVE  h[<<a, 0>>] = a
<1>1. 0 \in 0..k
  OBVIOUS
<1>2. h[<<a, 0>>] = IF 0 = 0 THEN a ELSE h[<<0, a % 0>>]
  BY <1>1, GcdUpToStep
<1>3. QED
  BY <1>2

LEMMA Modulo ==
  ASSUME NEW a \in Nat, NEW b \in Nat \ {0}
  PROVE  a % b \in 0..(b - 1)
BY Quotient

LEMMA GcdExists ==
  ASSUME NEW n \in Nat
  PROVE  \E h : GcdUpTo(h, n)
<1> DEFINE S == {k \in 0..n : \E h : GcdUpTo(h, k)}
<1>1. 0 \in S
  <2> DEFINE h == [p \in Nat \X (0..0) |-> p[1]]
  <2>1. h = [p \in Nat \X (0..0) |-> IF p[2] = 0 THEN p[1] ELSE h[<<p[2], p[1] % p[2]>>]]
    OBVIOUS
  <2>2. GcdUpTo(h, 0)
    BY <2>1 DEF GcdUpTo
  <2>3. QED
    BY <2>2
<1>2. ASSUME NEW k \in 1..n, k - 1 \in S PROVE k \in S
  <2>1. PICK h : GcdUpTo(h, k - 1)
    BY <1>2
  <2> DEFINE g == [p \in Nat \X (0..k) |-> IF p[2] = k THEN h[<<k, p[1] % k>>] ELSE h[p]]
  <2>a. ASSUME NEW a \in Nat, NEW b \in 0..k
        PROVE  g[<<a, b>>] = IF b = k THEN h[<<k, a % k>>] ELSE h[<<a, b>>]
    <3>1. <<a, b>> \in Nat \X (0..k) /\ <<a, b>>[1] = a /\ <<a, b>>[2] = b
      OBVIOUS
    <3>2. QED
      BY <3>1
  <2>b. ASSUME NEW a \in Nat, NEW b \in 0..k
        PROVE  g[<<a, b>>] = IF b = 0 THEN a ELSE g[<<b, a % b>>]
    <3> HIDE DEF g
    <3>1. CASE b = 0
      <4>1. 0 # k /\ k - 1 \in Nat /\ 0 \in 0..k
        OBVIOUS
      <4>2. h[<<a, 0>>] = a
        BY <2>1, <4>1, GcdUpToZero
      <4>3. QED
        BY <2>a, <3>1, <4>1, <4>2
    <3>2. CASE b # 0
      <4> DEFINE r == a % b
      <4>1. r \in 0..(b - 1)
        <5>1. b \in Nat \ {0}
          BY <3>2
        <5>2. QED
          BY <5>1, Modulo
      <4> HIDE DEF r
      <4>2. b \in Nat /\ r \in 0..k /\ r # k
        BY <4>1
      <4>3. g[<<b, r>>] = h[<<b, r>>]
        BY <2>a, <4>2
      <4>4. CASE b = k
        BY <2>a, <3>2, <4>3, <4>4 DEF r
      <4>5. CASE b # k
        <5>1. b \in 0..(k - 1)
          BY <4>5
        <5>2. h[<<a, b>>] = h[<<b, r>>]
          BY <2>1, <3>2, <5>1, GcdUpToStep DEF r
        <5>3. g[<<a, b>>] = h[<<a, b>>]
          BY <2>a, <4>5
        <5>4. QED
          BY <3>2, <4>3, <5>2, <5>3 DEF r
      <4>6. QED
        BY <4>4, <4>5
    <3>3. QED
      BY <3>1, <3>2
  <2>2. ASSUME NEW p \in Nat \X (0..k)
        PROVE  g[p] = IF p[2] = 0 THEN p[1] ELSE g[<<p[2], p[1] % p[2]>>]
    <3>1. p[1] \in Nat /\ p[2] \in 0..k /\ p = <<p[1], p[2]>>
      OBVIOUS
    <3> HIDE DEF g
    <3>2. QED
      BY <2>b, <3>1
  <2>3. g = [p \in Nat \X (0..k) |-> g[p]]
    OBVIOUS
  <2>4. GcdUpTo(g, k)
    <3> HIDE DEF g
    <3>1. QED
      BY <2>2, <2>3 DEF GcdUpTo
  <2>5. QED
    BY <2>4
<1>3. n \in S
  <2> HIDE DEF S
  <2>1. 0..n \subseteq S
    BY <1>1, <1>2, Induction
  <2>2. QED
    BY <2>1
<1>4. QED
  BY <1>3

(* Two such functions agree where both are defined. *)
LEMMA GcdAgrees ==
  ASSUME NEW h, NEW k \in Nat, GcdUpTo(h, k), NEW g, NEW l \in Nat, GcdUpTo(g, l),
         NEW n \in Nat, n <= k, n <= l
  PROVE  \A a \in Nat : h[<<a, n>>] = g[<<a, n>>]
<1> DEFINE Same(b) == \A a \in Nat : h[<<a, b>>] = g[<<a, b>>]
           S == {i \in 0..n : \A b \in 0..i : Same(b)}
<1>1. Same(0)
  <2>1. ASSUME NEW a \in Nat PROVE h[<<a, 0>>] = a
    BY GcdUpToZero
  <2>2. ASSUME NEW a \in Nat PROVE g[<<a, 0>>] = a
    BY GcdUpToZero
  <2>3. QED
    BY <2>1, <2>2
<1>2. 0 \in S
  <2>1. 0..0 = {0}
    OBVIOUS
  <2> HIDE DEF Same
  <2>2. QED
    BY <1>1, <2>1
<1>3. ASSUME NEW i \in 1..n, i - 1 \in S PROVE i \in S
  <2>1. Same(i)
    <3> SUFFICES ASSUME NEW a \in Nat PROVE h[<<a, i>>] = g[<<a, i>>]
      OBVIOUS
    <3>1. a % i \in 0..(i - 1)
      BY Modulo
    <3>2. Same(a % i)
      <4> HIDE DEF Same
      <4>1. QED
        BY <1>3, <3>1
    <3>3. h[<<i, a % i>>] = g[<<i, a % i>>]
      BY <3>2
    <3>4. h[<<a, i>>] = h[<<i, a % i>>] /\ g[<<a, i>>] = g[<<i, a % i>>]
      BY GcdUpToStep
    <3>5. QED
      BY <3>3, <3>4
  <2> HIDE DEF Same
  <2>2. \A b \in 0..i : b = i \/ b \in 0..(i - 1)
    OBVIOUS
  <2>3. \A b \in 0..i : Same(b)
    BY <1>3, <2>1, <2>2
  <2>4. QED
    BY <2>3
<1>4. n \in S
  <2> HIDE DEF S
  <2>1. 0..n \subseteq S
    BY <1>2, <1>3, Induction
  <2>2. QED
    BY <2>1
<1>5. Same(n)
  <2> HIDE DEF Same
  <2>1. QED
    BY <1>4
<1>6. QED
  BY <1>5

(* So Euclid's recursion defines a function. *)
LEMMA GcdStep ==
  ASSUME NEW a \in Nat, NEW b \in Nat
  PROVE  gcd[<<a, b>>] = IF b = 0 THEN a ELSE gcd[<<b, a % b>>]
<1> DEFINE Euclid(h) == h = [p \in Nat \X Nat |-> IF p[2] = 0 THEN p[1] ELSE h[<<p[2], p[1] % p[2]>>]]
           upTo(k) == CHOOSE h : GcdUpTo(h, k)
           e == [p \in Nat \X Nat |-> upTo(p[2])[p]]
<1>1. \A k \in Nat : GcdUpTo(upTo(k), k)
  BY GcdExists
<1>2. ASSUME NEW p \in Nat \X Nat
      PROVE  e[p] = IF p[2] = 0 THEN p[1] ELSE e[<<p[2], p[1] % p[2]>>]
  <2> DEFINE x == p[1]
             y == p[2]
             r == x % y
  <2>1. x \in Nat /\ y \in Nat /\ p = <<x, y>> /\ y \in 0..y
    OBVIOUS
  <2>2. e[p] = upTo(y)[p]
    OBVIOUS
  <2>3. upTo(y)[<<x, y>>] = IF y = 0 THEN x ELSE upTo(y)[<<y, r>>]
    <3> HIDE DEF x, y, upTo
    <3>1. QED
      BY <1>1, <2>1, GcdUpToStep DEF r
  <2>4. CASE y = 0
    BY <2>1, <2>2, <2>3, <2>4
  <2>5. CASE y # 0
    <3>1. r \in Nat /\ r <= y
      <4>1. r \in 0..(y - 1)
        BY <2>1, <2>5, Modulo
      <4> HIDE DEF r
      <4>2. QED
        BY <2>1, <4>1
    <3>2. e[<<y, r>>] = upTo(r)[<<y, r>>]
      <4>1. <<y, r>> \in Nat \X Nat /\ <<y, r>>[2] = r
        BY <2>1, <3>1
      <4> HIDE DEF r, y, upTo
      <4>2. QED
        BY <4>1
    <3>3. upTo(r)[<<y, r>>] = upTo(y)[<<y, r>>]
      <4> HIDE DEF r, y, x, upTo
      <4>1. QED
        BY <1>1, <2>1, <3>1, GcdAgrees
    <3> HIDE DEF e, upTo
    <3>4. QED
      BY <2>1, <2>2, <2>3, <2>5, <3>2, <3>3
  <2>6. QED
    BY <2>4, <2>5
<1>3. e = [p \in Nat \X Nat |-> e[p]]
  OBVIOUS
<1>4. Euclid(e)
  <2> HIDE DEF e
  <2>1. QED
    BY <1>2, <1>3
<1>5. gcd = CHOOSE h : Euclid(h)
  BY DEF gcd
<1>6. Euclid(gcd)
  <2>1. \E h : Euclid(h)
    BY <1>4
  <2> HIDE DEF Euclid
  <2>2. QED
    BY <1>5, <2>1
<1>7. <<a, b>> \in Nat \X Nat /\ <<a, b>>[1] = a /\ <<a, b>>[2] = b
  OBVIOUS
<1>8. QED
  BY <1>6, <1>7

(* d divides n. *)
Of(d, n) == \E q \in Nat : n = d * q

LEMMA OfItself ==
  ASSUME NEW d \in Nat
  PROVE  Of(d, d) /\ Of(d, 0)
<1>1. d = d * 1 /\ 0 = d * 0
  OBVIOUS
<1>2. QED
  BY <1>1 DEF Of

LEMMA OfTrans ==
  ASSUME NEW d \in Nat, NEW e \in Nat, NEW n \in Nat, Of(d, e), Of(e, n)
  PROVE  Of(d, n)
<1>1. PICK p \in Nat : e = d * p
  BY DEF Of
<1>2. PICK q \in Nat : n = e * q
  BY DEF Of
<1>3. n = d * (p * q) /\ p * q \in Nat
  BY <1>1, <1>2
<1>4. QED
  BY <1>3 DEF Of

(* What divides two numbers divides the sum of their multiples, ... *)
LEMMA OfSum ==
  ASSUME NEW d \in Nat, NEW m \in Nat, NEW n \in Nat, NEW k \in Nat, Of(d, m), Of(d, n)
  PROVE  Of(d, m * k + n)
<1>1. PICK p \in Nat : m = d * p
  BY DEF Of
<1>2. PICK q \in Nat : n = d * q
  BY DEF Of
<1>3. m * k + n = d * (p * k + q) /\ p * k + q \in Nat
  BY <1>1, <1>2
<1>4. QED
  BY <1>3 DEF Of

(* ... and what divides one of two numbers and their sum divides the other. *)
LEMMA OfRest ==
  ASSUME NEW d \in Nat \ {0}, NEW m \in Nat, NEW n \in Nat, NEW k \in Nat,
         Of(d, m), Of(d, m * k + n)
  PROVE  Of(d, n)
<1>1. PICK p \in Nat : m = d * p
  BY DEF Of
<1>2. PICK q \in Nat : m * k + n = d * q
  BY DEF Of
<1>3. p * k \in Nat /\ m * k = d * (p * k) /\ d * (p * k) \in Nat /\ d * q \in Nat
  BY <1>1
<1> DEFINE x == p * k
<1> HIDE DEF x
<1>4. n = d * q - d * x /\ x \in Nat /\ d * q - d * x = d * (q - x)
  BY <1>2, <1>3 DEF x
<1>5. q >= x
  <2> SUFFICES ASSUME q + 1 <= x PROVE FALSE
    BY <1>4
  <2>1. d * (q + 1) <= d * x /\ d * (q + 1) = d * q + d /\ d * q \in Int /\ d * x \in Int
    BY <1>4, Multiplied
  <2>2. QED
    BY <1>4, <2>1
<1>6. n = d * (q - x) /\ q - x \in Nat
  BY <1>4, <1>5
<1>7. QED
  BY <1>6 DEF Of

(* A divisor of a positive number is no larger. *)
LEMMA OfSmaller ==
  ASSUME NEW d \in Nat, NEW n \in Nat \ {0}, Of(d, n)
  PROVE  d > 0 /\ d <= n /\ n % d = 0 /\ d * (n \div d) = n
<1>1. PICK q \in Nat : n = d * q
  BY DEF Of
<1>2. d > 0 /\ q > 0
  BY <1>1
<1>3. d * 1 <= d * q
  BY <1>2, Multiplied
<1>4. n = d * q + 0
  BY <1>1
<1>5. n \div d = q /\ n % d = 0
  BY <1>2, <1>4, QuotientIs
<1>6. QED
  BY <1>1, <1>2, <1>3, <1>5

(* gcd divides both numbers, and whatever divides both divides it. *)
GcdOf(d, a, b) ==
  /\ d \in Nat /\ (a > 0 \/ b > 0 => d > 0)
  /\ Of(d, a) /\ Of(d, b)
  /\ \A t \in Nat \ {0} : Of(t, a) /\ Of(t, b) => Of(t, d)

LEMMA GcdIs ==
  ASSUME NEW n \in Nat
  PROVE  \A a \in Nat : GcdOf(gcd[<<a, n>>], a, n)
<1> DEFINE Right(b) == \A a \in Nat : GcdOf(gcd[<<a, b>>], a, b)
           S == {i \in 0..n : \A b \in 0..i : Right(b)}
<1>1. Right(0)
  <2> SUFFICES ASSUME NEW a \in Nat PROVE GcdOf(gcd[<<a, 0>>], a, 0)
    OBVIOUS
  <2>1. gcd[<<a, 0>>] = a
    BY GcdStep
  <2>2. QED
    BY <2>1, OfItself DEF GcdOf
<1>2. 0 \in S
  <2>1. 0..0 = {0}
    OBVIOUS
  <2> HIDE DEF Right
  <2>2. QED
    BY <1>1, <2>1
<1>3. ASSUME NEW i \in 1..n, i - 1 \in S PROVE i \in S
  <2>1. Right(i)
    <3> SUFFICES ASSUME NEW a \in Nat PROVE GcdOf(gcd[<<a, i>>], a, i)
      OBVIOUS
    <3> DEFINE r == a % i
               q == a \div i
               d == gcd[<<i, r>>]
    <3>1. a = i * q + r /\ q \in Nat /\ r \in 0..(i - 1) /\ r \in Nat
      <4>1. i \in Nat \ {0}
        OBVIOUS
      <4>2. a = i * q + r /\ q \in Nat /\ r \in 0..(i - 1)
        BY <4>1, Quotient
      <4> HIDE DEF q, r
      <4>3. QED
        BY <4>1, <4>2
    <3>2. gcd[<<a, i>>] = d
      BY GcdStep
    <3>3. Right(r)
      <4> HIDE DEF Right, r
      <4>1. QED
        BY <1>3, <3>1
    <3>4. GcdOf(d, i, r)
      <4> HIDE DEF r
      <4>1. QED
        BY <3>3
    <3> HIDE DEF r, q, d
    <3>5. d \in Nat /\ d > 0 /\ Of(d, i) /\ Of(d, r)
      BY <3>4 DEF GcdOf
    <3>6. Of(d, a)
      <4>1. Of(d, i * q + r)
        <5>1. i \in Nat
          OBVIOUS
        <5>2. QED
          BY <3>1, <3>5, <5>1, OfSum
      <4>2. QED
        BY <3>1, <4>1
    <3>7. ASSUME NEW t \in Nat \ {0}, Of(t, a), Of(t, i) PROVE Of(t, d)
      <4>1. Of(t, r)
        BY <3>1, <3>7, OfRest
      <4>2. QED
        BY <3>4, <3>7, <4>1 DEF GcdOf
    <3>8. QED
      BY <3>2, <3>5, <3>6, <3>7 DEF GcdOf
  <2> HIDE DEF Right
  <2>2. \A b \in 0..i : b = i \/ b \in 0..(i - 1)
    OBVIOUS
  <2>3. \A b \in 0..i : Right(b)
    BY <1>3, <2>1, <2>2
  <2>4. QED
    BY <2>3
<1>4. n \in S
  <2> HIDE DEF S
  <2>1. 0..n \subseteq S
    BY <1>2, <1>3, Induction
  <2>2. QED
    BY <2>1
<1>5. Right(n)
  <2> HIDE DEF Right
  <2>1. QED
    BY <1>4
<1>6. QED
  BY <1>5
---------------------------------------------------------------------------
(* The greatest common divisor of the durations. *)

Durations(s) == s \in Seq(Nat \ {0})

HeldGcdsUpTo(h, k) ==
  h = [i \in 0..k |-> IF i = 0 THEN 0 ELSE gcd[<<h[i - 1], Held[i]>>]]

LEMMA HeldGcdSteps ==
  ASSUME Len(Held) \in Nat
  PROVE  \E h : HeldGcdsUpTo(h, Len(Held)) /\ HeldGcd = h[Len(Held)]
<1> DEFINE n == Len(Held)
           S == {k \in 0..n : \E h : HeldGcdsUpTo(h, k)}
<1>1. 0 \in S
  <2>1. HeldGcdsUpTo([i \in 0..0 |-> 0], 0)
    BY DEF HeldGcdsUpTo
  <2>2. QED
    BY <2>1
<1>2. ASSUME NEW k \in 1..n, k - 1 \in S PROVE k \in S
  <2>1. PICK h : HeldGcdsUpTo(h, k - 1)
    BY <1>2
  <2> DEFINE g == [i \in 0..k |-> IF i = k THEN gcd[<<h[k - 1], Held[k]>>] ELSE h[i]]
  <2>2. /\ \A i \in 0..(k - 1) : g[i] = h[i]
        /\ g[k] = gcd[<<h[k - 1], Held[k]>>]
    OBVIOUS
  <2>3. \A i \in 0..k : g[i] = IF i = 0 THEN 0 ELSE gcd[<<g[i - 1], Held[i]>>]
    <3> SUFFICES ASSUME NEW i \in 0..k
                 PROVE  g[i] = IF i = 0 THEN 0 ELSE gcd[<<g[i - 1], Held[i]>>]
      OBVIOUS
    <3>1. CASE i = k
      <4>1. i # 0 /\ i - 1 \in 0..(k - 1)
        BY <3>1
      <4> HIDE DEF g
      <4>2. QED
        BY <2>2, <3>1, <4>1
    <3>2. CASE i # k
      <4>1. i \in 0..(k - 1) /\ (i # 0 => i - 1 \in 0..(k - 1))
        BY <3>2
      <4>2. h[i] = IF i = 0 THEN 0 ELSE gcd[<<h[i - 1], Held[i]>>]
        BY <2>1, <4>1 DEF HeldGcdsUpTo
      <4> HIDE DEF g
      <4>3. QED
        BY <2>2, <4>1, <4>2
    <3>3. QED
      BY <3>1, <3>2
  <2>4. HeldGcdsUpTo(g, k)
    <3>1. g = [i \in 0..k |-> g[i]]
      OBVIOUS
    <3> HIDE DEF g
    <3>2. QED
      BY <2>3, <3>1 DEF HeldGcdsUpTo
  <2>5. QED
    BY <2>4
<1>3. n \in S
  <2>1. n \in Nat
    OBVIOUS
  <2> HIDE DEF S, n
  <2>2. 0..n \subseteq S
    BY <1>1, <1>2, <2>1, Induction
  <2>3. QED
    BY <2>1, <2>2
<1>4. \E h : HeldGcdsUpTo(h, n)
  BY <1>3
<1>5. PICK h : h = CHOOSE g : HeldGcdsUpTo(g, n)
  OBVIOUS
<1>6. HeldGcdsUpTo(h, n)
  BY <1>4, <1>5
<1>7. HeldGcd = h[n]
  BY <1>5 DEF HeldGcd, HeldGcdsUpTo
<1>8. QED
  BY <1>6, <1>7

(* It divides each duration, and whatever divides each of them divides it. *)
LEMMA HeldGcdIs ==
  ASSUME Durations(Held), Held # <<>>
  PROVE  /\ HeldGcd \in Nat \ {0}
         /\ \A i \in 1..Len(Held) : Of(HeldGcd, Held[i])
         /\ \A t \in Nat \ {0} : (\A i \in 1..Len(Held) : Of(t, Held[i])) => Of(t, HeldGcd)
<1> DEFINE n == Len(Held)
<1>1. n \in Nat /\ n >= 1 /\ \A i \in 1..n : Held[i] \in Nat \ {0}
  BY DEF Durations
<1>2. PICK h : HeldGcdsUpTo(h, n) /\ HeldGcd = h[n]
  BY <1>1, HeldGcdSteps
<1> HIDE DEF n
<1>3. h[0] = 0 /\ \A i \in 1..n : h[i] = gcd[<<h[i - 1], Held[i]>>]
  BY <1>1, <1>2 DEF HeldGcdsUpTo
<1> DEFINE Common(t, i) == \A j \in 1..i : Of(t, Held[j])
           Good(i) == /\ h[i] \in Nat /\ (i > 0 => h[i] > 0)
                      /\ Common(h[i], i)
                      /\ \A t \in Nat \ {0} : Common(t, i) => Of(t, h[i])
           S == {i \in 0..n : Good(i)}
<1>4. 0 \in S
  <2>1. Good(0)
    BY <1>3, OfItself
  <2> HIDE DEF Good
  <2>2. QED
    BY <1>1, <2>1
<1>5. ASSUME NEW i \in 1..n, i - 1 \in S PROVE i \in S
  <2>1. Good(i - 1)
    <3> HIDE DEF Good
    <3>1. QED
      BY <1>5
  <2> DEFINE a == h[i - 1]
             b == Held[i]
             d == h[i]
  <2>2. a \in Nat /\ b \in Nat \ {0} /\ d = gcd[<<a, b>>]
    BY <1>1, <1>3, <2>1
  <2>3. GcdOf(d, a, b)
    <3> HIDE DEF a, b, d
    <3>1. QED
      BY <2>2, GcdIs
  <2>4. d \in Nat /\ d > 0 /\ Of(d, a) /\ Of(d, b)
    <3> HIDE DEF a, b, d
    <3>1. QED
      BY <2>2, <2>3 DEF GcdOf
  <2>5. Common(d, i)
    <3> SUFFICES ASSUME NEW j \in 1..i PROVE Of(d, Held[j])
      OBVIOUS
    <3>1. CASE j = i
      BY <2>4, <3>1
    <3>2. CASE j # i
      <4>1. j \in 1..(i - 1) /\ j \in 1..n
        BY <1>1, <3>2
      <4>2. Of(a, Held[j]) /\ Held[j] \in Nat
        BY <1>1, <2>1, <4>1
      <4> HIDE DEF a, d
      <4>3. QED
        BY <2>2, <2>4, <4>2, OfTrans
    <3>3. QED
      BY <3>1, <3>2
  <2>6. ASSUME NEW t \in Nat \ {0}, Common(t, i) PROVE Of(t, d)
    <3>1. Common(t, i - 1) /\ Of(t, b)
      <4>1. i \in 1..i /\ 1..(i - 1) \subseteq 1..i
        OBVIOUS
      <4>2. QED
        BY <2>6, <4>1
    <3>2. Of(t, a)
      BY <2>1, <3>1
    <3> HIDE DEF a, b, d, Common
    <3>3. QED
      BY <2>3, <3>1, <3>2 DEF GcdOf
  <2>7. Good(i)
    <3> HIDE DEF Common
    <3>1. QED
      BY <2>4, <2>5, <2>6
  <2> HIDE DEF Good
  <2>8. QED
    BY <2>7
<1>6. n \in S
  <2> HIDE DEF S
  <2>1. 0..n \subseteq S
    BY <1>1, <1>4, <1>5, Induction
  <2>2. QED
    BY <1>1, <2>1
<1>7. Good(n)
  <2> HIDE DEF Good
  <2>1. QED
    BY <1>6
<1>8. QED
  BY <1>1, <1>2, <1>7 DEF n

---------------------------------------------------------------------------
(* Sequences put end to end. *)

FlatUpTo(h, ss, k) == h = [i \in 1..k |-> IF i = 1 THEN ss[i] ELSE h[i - 1] \o ss[i]]

LEMMA FlatSteps ==
  ASSUME NEW ss, Len(ss) \in Nat \ {0}
  PROVE  \E h : FlatUpTo(h, ss, Len(ss)) /\ FlattenSeq(ss) = h[Len(ss)]
<1> DEFINE n == Len(ss)
           S == {k \in 0..n : \E h : FlatUpTo(h, ss, k)}
<1>1. 0 \in S
  <2>1. 1..0 = {}
    OBVIOUS
  <2>2. FlatUpTo([i \in 1..0 |-> ss[i]], ss, 0)
    BY <2>1 DEF FlatUpTo
  <2>3. QED
    BY <2>2
<1>2. ASSUME NEW k \in 1..n, k - 1 \in S PROVE k \in S
  <2>1. PICK h : FlatUpTo(h, ss, k - 1)
    BY <1>2
  <2> DEFINE last == IF k = 1 THEN ss[k] ELSE h[k - 1] \o ss[k]
             g == [i \in 1..k |-> IF i = k THEN last ELSE h[i]]
  <2>2. /\ \A i \in 1..(k - 1) : g[i] = h[i]
        /\ g[k] = last
    <3> HIDE DEF last
    <3>1. QED
      OBVIOUS
  <2>3. \A i \in 1..k : g[i] = IF i = 1 THEN ss[i] ELSE g[i - 1] \o ss[i]
    <3> SUFFICES ASSUME NEW i \in 1..k
                 PROVE  g[i] = IF i = 1 THEN ss[i] ELSE g[i - 1] \o ss[i]
      OBVIOUS
    <3>1. CASE i = k
      <4>1. i # 1 => i - 1 \in 1..(k - 1)
        BY <3>1
      <4> HIDE DEF g
      <4>2. i # 1 => g[i - 1] = h[i - 1]
        BY <2>2, <4>1
      <4>3. QED
        BY <2>2, <3>1, <4>2
    <3>2. CASE i # k
      <4>1. i \in 1..(k - 1) /\ (i # 1 => i - 1 \in 1..(k - 1))
        BY <3>2
      <4>2. h[i] = IF i = 1 THEN ss[i] ELSE h[i - 1] \o ss[i]
        BY <2>1, <4>1 DEF FlatUpTo
      <4> HIDE DEF g
      <4>3. g[i] = h[i] /\ (i # 1 => g[i - 1] = h[i - 1])
        BY <2>2, <4>1
      <4>4. QED
        BY <4>2, <4>3
    <3>3. QED
      BY <3>1, <3>2
  <2>4. FlatUpTo(g, ss, k)
    <3>1. g = [i \in 1..k |-> g[i]]
      <4> HIDE DEF last
      <4>1. QED
        OBVIOUS
    <3> HIDE DEF g
    <3>2. QED
      BY <2>3, <3>1 DEF FlatUpTo
  <2>5. QED
    BY <2>4
<1>3. n \in S
  <2>1. n \in Nat
    OBVIOUS
  <2> HIDE DEF S, n
  <2>2. 0..n \subseteq S
    BY <1>1, <1>2, <2>1, Induction
  <2>3. QED
    BY <2>1, <2>2
<1>4. \E h : FlatUpTo(h, ss, n)
  BY <1>3
<1>5. PICK h : h = CHOOSE g : FlatUpTo(g, ss, n)
  OBVIOUS
<1>6. FlatUpTo(h, ss, n)
  BY <1>4, <1>5
<1>7. FlattenSeq(ss) = h[n]
  BY <1>5 DEF FlattenSeq, FlatUpTo
<1>8. QED
  BY <1>6, <1>7

LEMMA Joined ==
  ASSUME NEW V, NEW a \in Seq(V), NEW b \in Seq(V)
  PROVE  a \o b \in Seq(V) /\ Len(a \o b) = Len(a) + Len(b)
OBVIOUS

(* They are together as long as their lengths add up to. *)
LEMMA FlatLength ==
  ASSUME NEW V, NEW ss, Len(ss) \in Nat \ {0}, DOMAIN ss = 1..Len(ss),
         \A i \in 1..Len(ss) : ss[i] \in Seq(V),
         NEW lens \in Seq(Nat), Len(lens) = Len(ss), \A i \in 1..Len(ss) : lens[i] = Len(ss[i])
  PROVE  FlattenSeq(ss) \in Seq(V) /\ Len(FlattenSeq(ss)) = Total(lens)
<1> DEFINE n == Len(ss)
<1>1. n \in Nat /\ n >= 1 /\ n = Len(lens) /\ \A i \in 1..n : lens[i] \in Nat
  OBVIOUS
<1>2. PICK g : FlatUpTo(g, ss, n) /\ FlattenSeq(ss) = g[n]
  BY FlatSteps
<1>3. PICK h : /\ h[0] = 0 /\ h[n] = Total(lens)
               /\ \A i \in 1..n : h[i] = h[i - 1] + lens[i]
               /\ \A i \in 0..n : h[i] \in Nat
  BY TotalSums
<1> HIDE DEF n
<1>4. \A i \in 1..n : g[i] = IF i = 1 THEN ss[i] ELSE g[i - 1] \o ss[i]
  BY <1>2 DEF FlatUpTo
<1> DEFINE Good(i) == i > 0 => g[i] \in Seq(V) /\ Len(g[i]) = h[i]
           S == {i \in 0..n : Good(i)}
<1>5. 0 \in S
  BY <1>1
<1>6. ASSUME NEW i \in 1..n, i - 1 \in S PROVE i \in S
  <2>1. Good(i - 1)
    <3> HIDE DEF Good
    <3>1. QED
      BY <1>6
  <2>2. ss[i] \in Seq(V) /\ Len(ss[i]) = lens[i]
    BY DEF n
  <2>3. h[i] = h[i - 1] + lens[i] /\ h[i - 1] \in Nat /\ lens[i] \in Nat
    BY <1>1, <1>3
  <2>4. Good(i)
    <3>1. CASE i = 1
      BY <1>3, <1>4, <2>2, <2>3, <3>1
    <3>2. CASE i # 1
      <4>1. i - 1 > 0
        BY <3>2
      <4>2. g[i - 1] \in Seq(V) /\ Len(g[i - 1]) = h[i - 1]
        BY <2>1, <4>1
      <4>3. g[i] = g[i - 1] \o ss[i]
        BY <1>4, <3>2, Zenon
      <4> DEFINE a == g[i - 1]
                 b == ss[i]
      <4>4. a \in Seq(V) /\ b \in Seq(V) /\ Len(a) = h[i - 1] /\ Len(b) = lens[i]
        BY <2>2, <4>2
      <4>5. g[i] = a \o b
        BY <4>3
      <4> HIDE DEF a, b
      <4>6. a \o b \in Seq(V) /\ Len(a \o b) = Len(a) + Len(b)
        BY <4>4, Joined
      <4>7. QED
        BY <2>3, <4>4, <4>5, <4>6
    <3>3. QED
      BY <3>1, <3>2
  <2> HIDE DEF Good
  <2>5. QED
    BY <2>4
<1>7. n \in S
  <2> HIDE DEF S
  <2>1. 0..n \subseteq S
    BY <1>1, <1>5, <1>6, Induction
  <2>2. QED
    BY <1>1, <2>1
<1>8. QED
  BY <1>1, <1>2, <1>3, <1>7

---------------------------------------------------------------------------
(* What plan_timing has planned. *)

(* Several frames, and room for more than one. *)
Several == Len(given) > 1 /\ cap > 1

PlanTypes ==
  /\ given \in Seq(Nat) /\ given # <<>>
  /\ cap \in Nat \ {0} /\ cap <= 250
  /\ phase \in {"still", "plan", "trim", "build", "done"}

(* A slot at least to each frame, in order, and no more to a shorter frame  *)
(* than to a longer one, but for one slot.                                  *)
Shared ==
  /\ slots = AsSlots(Repeats(slots))
  /\ Repeats(slots) \in Seq(Nat \ {0})
  /\ Len(slots) = Len(given)
  /\ \A i, j \in 1..Len(given) : Held[i] <= Held[j] => slots[i].n <= slots[j].n + 1

Chosen == slots = [i \in 1..cap |-> [frame |-> ((i - 1) * Len(given)) \div cap + 1, n |-> 1]]

PlannedStill == ~Several /\ slots = <<[frame |-> 1, n |-> 1]>>

PlannedDecimated ==
  /\ Several /\ Len(given) >= cap
  /\ Chosen
  /\ tick = Clamp(Total(Held) \div cap, 1, MaxTick)

PlannedExact ==
  /\ Several /\ Len(given) < cap
  /\ Total(ExactRepeats) <= cap
  /\ slots = AsSlots(ExactRepeats)
  /\ tick = GcdTick

PlannedTrimmed ==
  /\ Several /\ Len(given) < cap
  /\ Total(ExactRepeats) > cap
  /\ Shared /\ ~OverBudget
  /\ tick = Clamp(Total(Held) \div AtLeastOne(Total(Repeats(slots))), 1, MaxTick)

Planned == PlannedStill \/ PlannedDecimated \/ PlannedExact \/ PlannedTrimmed

PlanInv ==
  /\ PlanTypes
  /\ phase = "still" => ~Several
  /\ phase = "plan" => Several
  /\ phase = "trim" => Several /\ Len(given) < cap /\ Total(ExactRepeats) > cap /\ Shared
  /\ phase \in {"build", "done"} => Planned
  /\ phase = "done" => payload = BuildContainer(Expanded, Delays)

---------------------------------------------------------------------------
(* Quotients as bounds. *)

LEMMA QuotientBounds ==
  ASSUME NEW n \in Nat, NEW d \in Nat \ {0}
  PROVE  /\ n \div d \in Nat /\ n \div d <= n
         /\ d * (n \div d) \in Nat
         /\ d * (n \div d) <= n /\ n < d * (n \div d) + d
<1> DEFINE q == n \div d
           r == n % d
<1>1. n = d * q + r /\ q \in Nat /\ r \in 0..(d - 1) /\ q <= n
  BY Quotient
<1> HIDE DEF q, r
<1>2. d * q \in Nat
  BY <1>1
<1>3. QED
  BY <1>1, <1>2 DEF q

LEMMA QuotientAtLeast ==
  ASSUME NEW n \in Nat, NEW d \in Nat \ {0}, NEW k \in Nat, d * k <= n
  PROVE  k <= n \div d
<1> DEFINE q == n \div d
<1>1. q \in Nat /\ d * q \in Nat /\ n < d * q + d
  BY QuotientBounds
<1> HIDE DEF q
<1>2. SUFFICES ASSUME q + 1 <= k PROVE FALSE
  BY <1>1 DEF q
<1>3. d * (q + 1) <= d * k /\ d * (q + 1) = d * q + d /\ d * k \in Nat
  BY <1>1, <1>2, Multiplied
<1>4. QED
  BY <1>1, <1>3

LEMMA QuotientBelow ==
  ASSUME NEW n \in Nat, NEW d \in Nat \ {0}, NEW k \in Nat, n < d * k
  PROVE  n \div d < k
<1> DEFINE q == n \div d
<1>1. q \in Nat /\ d * q \in Nat /\ d * q <= n
  BY QuotientBounds
<1> HIDE DEF q
<1>2. SUFFICES ASSUME k <= q PROVE FALSE
  BY <1>1 DEF q
<1>3. d * k <= d * q /\ d * k \in Nat
  BY <1>1, <1>2, Multiplied
<1>4. QED
  BY <1>1, <1>3

LEMMA QuotientGrows ==
  ASSUME NEW m \in Nat, NEW n \in Nat, m <= n, NEW d \in Nat \ {0}
  PROVE  m \div d <= n \div d
<1> DEFINE p == m \div d
<1>1. p \in Nat /\ d * p \in Nat /\ d * p <= m
  BY QuotientBounds
<1> HIDE DEF p
<1>2. d * p <= n
  BY <1>1
<1>3. p <= n \div d
  BY <1>1, <1>2, QuotientAtLeast
<1>4. QED
  BY <1>3 DEF p

(* A function on 1..n is a sequence. *)
LEMMA SequenceOf ==
  ASSUME NEW V, NEW n \in Nat, NEW f \in [1..n -> V]
  PROVE  f \in Seq(V) /\ Len(f) = n /\ DOMAIN f = 1..n /\ \A i \in 1..n : f[i] \in V
OBVIOUS

LEMMA PlanSizes ==
  /\ MaxTick \in Nat \ {0} /\ FrameBytes \in Nat \ {0} /\ Metadata \in Nat \ {0}
  /\ Block \in Nat \ {0} /\ MaxFrames \in Nat \ {0} /\ MaxReports \in Nat \ {0}
  /\ MaxFrames < Metadata - 1 /\ 250 <= MaxFrames
BY AnimationAssumption DEF AnimationAssumption

(* The durations that are planned with. *)
LEMMA HeldType ==
  ASSUME given \in Seq(Nat)
  PROVE  /\ Held \in Seq(Nat \ {0}) /\ Held \in Seq(Nat)
         /\ Len(Held) = Len(given) /\ DOMAIN Held = 1..Len(given)
         /\ \A i \in 1..Len(given) : Held[i] \in Nat \ {0}
<1> DEFINE n == Len(given)
<1>1. n \in Nat /\ DOMAIN given = 1..n /\ \A i \in 1..n : given[i] \in Nat
  OBVIOUS
<1> HIDE DEF n
<1>2. Held = [i \in 1..n |-> AtLeastOne(given[i])]
  BY <1>1 DEF Held
<1>3. \A i \in 1..n : AtLeastOne(given[i]) \in Nat \ {0}
  BY <1>1 DEF AtLeastOne
<1>4. Held \in [1..n -> Nat \ {0}] /\ Held \in [1..n -> Nat]
  BY <1>2, <1>3
<1> HIDE DEF Held
<1>5. QED
  BY <1>1, <1>4, SequenceOf DEF n

LEMMA Clamped ==
  ASSUME NEW x \in Nat, NEW hi \in Nat \ {0}
  PROVE  /\ Clamp(x, 1, hi) \in 1..hi
         /\ x >= 1 => Clamp(x, 1, hi) = IF x > hi THEN hi ELSE x
BY DEF Clamp

(* The exact repetition counts. *)
LEMMA ExactType ==
  ASSUME PlanTypes
  PROVE  /\ HeldGcd \in Nat \ {0}
         /\ GcdTick \in 1..MaxTick /\ GcdTick = IF HeldGcd > MaxTick THEN MaxTick ELSE HeldGcd
         /\ \A i \in 1..Len(given) : Of(HeldGcd, Held[i])
         /\ \A t \in Nat \ {0} : (\A i \in 1..Len(given) : Of(t, Held[i])) => Of(t, HeldGcd)
<1>1. given \in Seq(Nat) /\ given # <<>>
  BY DEF PlanTypes
<1>2. Durations(Held) /\ Len(Held) = Len(given)
  BY <1>1, HeldType DEF Durations
<1>3. Held # <<>>
  <2>1. Len(given) # 0
    BY <1>1
  <2>2. Len(<<>>) = 0
    OBVIOUS
  <2> HIDE DEF Held
  <2>3. QED
    BY <1>2, <2>1, <2>2
<1>4. /\ HeldGcd \in Nat \ {0}
      /\ \A i \in 1..Len(given) : Of(HeldGcd, Held[i])
      /\ \A t \in Nat \ {0} : (\A i \in 1..Len(given) : Of(t, Held[i])) => Of(t, HeldGcd)
  <2> HIDE DEF Held, HeldGcd
  <2>1. QED
    BY <1>2, <1>3, HeldGcdIs
<1>5. GcdTick \in 1..MaxTick /\ GcdTick = IF HeldGcd > MaxTick THEN MaxTick ELSE HeldGcd
  <2>1. HeldGcd >= 1
    BY <1>4
  <2>2. QED
    BY <1>4, <2>1, PlanSizes, Clamped DEF GcdTick
<1>6. QED
  BY <1>4, <1>5

(* A whole number of ticks, a quotient that is rounded, and one that is not.*)
LEMMA Rounded ==
  ASSUME NEW h \in Nat \ {0}, NEW t \in Nat \ {0}
  PROVE  LET q == AtLeastOne((h + t \div 2) \div t)
         IN /\ q \in Nat \ {0}
            /\ q <= h
            /\ Of(t, h) => q * t = h /\ q = h \div t
            /\ t <= h => q * t <= h + t \div 2
<1> DEFINE half == t \div 2
           m == h + half
           p == m \div t
           q == AtLeastOne(p)
<1>1. half \in Nat /\ half + half <= t /\ half < t /\ m \in Nat
  OBVIOUS
<1>2. m = h + half
  OBVIOUS
<1> HIDE DEF half
<1> HIDE DEF m
<1>3. p \in Nat /\ t * p \in Nat /\ t * p <= m
  BY <1>1, QuotientBounds
<1>4. q \in Nat \ {0} /\ (p >= 1 => q = p) /\ (p < 1 => q = 1)
  BY <1>3 DEF AtLeastOne
<1>5. q <= h
  <2>1. CASE t = 1
    <3>1. half = 0 /\ m = h
      BY <1>1, <1>2, <2>1
    <3>2. p <= m
      BY <1>1, QuotientBounds
    <3> HIDE DEF p, q
    <3>3. QED
      BY <1>3, <1>4, <3>1, <3>2
  <2>2. CASE t # 1
    <3>1. (t - 1) * 1 <= (t - 1) * h
      BY <2>2, Multiplied
    <3>2. (t - 1) * h = t * h - h /\ (t - 1) * 1 = t - 1 /\ t * h \in Nat
      BY <2>2
    <3>3. half <= t - 1
      BY <1>1
    <3>4. m <= t * h
      BY <1>1, <1>2, <3>1, <3>2, <3>3
    <3>5. m < t * (h + 1)
      <4>1. t * (h + 1) = t * h + t
        OBVIOUS
      <4>2. QED
        BY <1>1, <3>2, <3>4, <4>1
    <3>6. p < h + 1
      BY <1>1, <3>5, QuotientBelow
    <3> HIDE DEF p, q
    <3>7. QED
      BY <1>3, <1>4, <3>6
  <2>3. QED
    BY <2>1, <2>2
<1>6. ASSUME Of(t, h) PROVE q * t = h /\ q = h \div t
  <2>1. PICK k \in Nat : h = t * k
    BY <1>6 DEF Of
  <2>2. k >= 1
    BY <2>1
  <2>3. half \in 0..(t - 1) /\ 0 \in 0..(t - 1)
    BY <1>1
  <2>4. m = t * k + half /\ h = t * k + 0
    BY <1>2, <2>1
  <2>5. p = k
    BY <1>1, <2>3, <2>4, QuotientIs
  <2>6. h \div t = k
    BY <2>3, <2>4, QuotientIs
  <2>7. q = k
    <3> HIDE DEF p, q
    <3>1. QED
      BY <1>4, <2>2, <2>5
  <2> HIDE DEF q
  <2>8. QED
    BY <2>1, <2>6, <2>7
<1>7. ASSUME t <= h PROVE q * t <= h + half
  <2>1. t * 1 <= m
    BY <1>1, <1>2, <1>7
  <2>2. 1 <= p
    BY <1>1, <2>1, QuotientAtLeast
  <2> HIDE DEF p, q
  <2>3. q = p /\ q * t = t * p
    BY <1>3, <1>4, <2>2
  <2>4. QED
    BY <1>2, <1>3, <2>3
<1>8. QED
  <2> HIDE DEF q
  <2>1. q \in Nat \ {0} /\ q <= h /\ (Of(t, h) => q * t = h /\ q = h \div t)
           /\ (t <= h => q * t <= h + half)
    BY <1>4, <1>5, <1>6, <1>7
  <2>2. QED
    BY <2>1 DEF q, p, m, half

LEMMA Halves ==
  ASSUME NEW x \in Nat, NEW y \in Nat, x <= y
  PROVE  x \div 2 \in Nat /\ x \div 2 <= (y + 1) \div 2
OBVIOUS

LEMMA ExactRepeatsType ==
  ASSUME PlanTypes
  PROVE  /\ ExactRepeats \in Seq(Nat \ {0}) /\ ExactRepeats \in Seq(Nat)
         /\ Len(ExactRepeats) = Len(given) /\ DOMAIN ExactRepeats = 1..Len(given)
         /\ \A i \in 1..Len(given) : ExactRepeats[i] \in Nat \ {0} /\ ExactRepeats[i] <= Held[i]
         /\ HeldGcd <= MaxTick =>
              \A i \in 1..Len(given) : /\ ExactRepeats[i] * GcdTick = Held[i]
                                       /\ ExactRepeats[i] = Held[i] \div GcdTick
         /\ HeldGcd > MaxTick =>
              \A i \in 1..Len(given) :
                ExactRepeats[i] * GcdTick <= Held[i] + (MaxTick + 1) \div 2
         /\ \A i, j \in 1..Len(given) :
              Held[i] <= Held[j] => ExactRepeats[i] <= ExactRepeats[j]
<1> DEFINE n == Len(given)
           t == GcdTick
           half == t \div 2
           er(i) == AtLeastOne((Held[i] + half) \div t)
<1>1. given \in Seq(Nat) /\ n \in Nat
  BY DEF PlanTypes
<1>2. DOMAIN Held = 1..n /\ \A i \in 1..n : Held[i] \in Nat \ {0}
  BY <1>1, HeldType
<1>3. t \in Nat \ {0} /\ t <= MaxTick /\ t = IF HeldGcd > MaxTick THEN MaxTick ELSE HeldGcd
  BY ExactType
<1>4. HeldGcd \in Nat \ {0} /\ \A i \in 1..n : Of(HeldGcd, Held[i])
  BY ExactType
<1>5. ExactRepeats = [i \in 1..n |-> er(i)]
  BY <1>2 DEF ExactRepeats
<1>6. half \in Nat /\ half <= (MaxTick + 1) \div 2
  <2>1. t \in Nat /\ MaxTick \in Nat /\ t <= MaxTick
    BY <1>3, PlanSizes
  <2> HIDE DEF t
  <2>2. QED
    BY <2>1, Halves
<1>7. ASSUME NEW i \in 1..n
      PROVE  /\ er(i) \in Nat \ {0} /\ er(i) <= Held[i]
             /\ Of(t, Held[i]) => er(i) * t = Held[i] /\ er(i) = Held[i] \div t
             /\ t <= Held[i] => er(i) * t <= Held[i] + half
  <2>1. Held[i] \in Nat \ {0}
    BY <1>2
  <2> HIDE DEF t
  <2>2. QED
    BY <1>3, <2>1, Rounded
<1> HIDE DEF er
<1>8. /\ ExactRepeats \in [1..n -> Nat \ {0}] /\ ExactRepeats \in [1..n -> Nat]
      /\ \A i \in 1..n : ExactRepeats[i] = er(i)
  BY <1>5, <1>7
<1>9. HeldGcd <= MaxTick => \A i \in 1..n : er(i) * t = Held[i] /\ er(i) = Held[i] \div t
  <2>1. HeldGcd <= MaxTick => t = HeldGcd
    BY <1>3, <1>4, PlanSizes
  <2> HIDE DEF t
  <2>2. QED
    BY <1>4, <1>7, <2>1
<1>10. ASSUME HeldGcd > MaxTick, NEW i \in 1..n
       PROVE  er(i) * t <= Held[i] + (MaxTick + 1) \div 2
  <2>1. HeldGcd <= Held[i]
    <3>1. Of(HeldGcd, Held[i]) /\ Held[i] \in Nat \ {0} /\ HeldGcd \in Nat
      BY <1>2, <1>4
    <3>2. QED
      BY <3>1, OfSmaller
  <2> HIDE DEF t
  <2>2. t <= Held[i] /\ Held[i] \in Nat
    BY <1>2, <1>3, <1>4, <1>10, <2>1, PlanSizes
  <2>3. er(i) * t <= Held[i] + half /\ er(i) * t \in Nat
    BY <1>3, <1>7, <2>2
  <2> HIDE DEF half
  <2>4. (MaxTick + 1) \div 2 \in Nat
    BY PlanSizes
  <2>5. QED
    BY <1>6, <2>2, <2>3, <2>4
<1>11. ASSUME NEW i \in 1..n, NEW j \in 1..n, Held[i] <= Held[j] PROVE er(i) <= er(j)
  <2>1. Held[i] \in Nat /\ Held[j] \in Nat
    BY <1>2
  <2> HIDE DEF t, half
  <2>2. Held[i] + half \in Nat /\ Held[j] + half \in Nat /\ Held[i] + half <= Held[j] + half
    BY <1>6, <1>11, <2>1
  <2>3. (Held[i] + half) \div t <= (Held[j] + half) \div t
    BY <1>3, <2>2, QuotientGrows
  <2>4. (Held[i] + half) \div t \in Nat /\ (Held[j] + half) \div t \in Nat
    BY <1>3, <2>2, QuotientBounds
  <2>5. QED
    BY <2>3, <2>4 DEF er, AtLeastOne
<1> HIDE DEF ExactRepeats, n, t
<1>12. /\ ExactRepeats \in Seq(Nat \ {0}) /\ ExactRepeats \in Seq(Nat)
       /\ Len(ExactRepeats) = n /\ DOMAIN ExactRepeats = 1..n
  BY <1>1, <1>8, SequenceOf
<1>13. \A i \in 1..n : ExactRepeats[i] \in Nat \ {0} /\ ExactRepeats[i] <= Held[i]
  BY <1>7, <1>8
<1>14. HeldGcd <= MaxTick =>
         \A i \in 1..n : ExactRepeats[i] * t = Held[i] /\ ExactRepeats[i] = Held[i] \div t
  BY <1>8, <1>9
<1>15. HeldGcd > MaxTick =>
         \A i \in 1..n : ExactRepeats[i] * t <= Held[i] + (MaxTick + 1) \div 2
  BY <1>8, <1>10
<1>16. \A i, j \in 1..n : Held[i] <= Held[j] => ExactRepeats[i] <= ExactRepeats[j]
  BY <1>8, <1>11
<1>17. QED
  BY <1>12, <1>13, <1>14, <1>15, <1>16 DEF n, t

(* Repetition counts as slots. *)
LEMMA SlotsOf ==
  ASSUME NEW repeats \in Seq(Nat \ {0})
  PROVE  /\ Len(AsSlots(repeats)) = Len(repeats) /\ DOMAIN AsSlots(repeats) = 1..Len(repeats)
         /\ \A i \in 1..Len(repeats) : /\ AsSlots(repeats)[i] = [frame |-> i, n |-> repeats[i]]
                                       /\ AsSlots(repeats)[i].frame = i
                                       /\ AsSlots(repeats)[i].n = repeats[i]
         /\ Repeats(AsSlots(repeats)) = repeats
<1> DEFINE m == Len(repeats)
           s == AsSlots(repeats)
<1>1. m \in Nat /\ DOMAIN repeats = 1..m /\ repeats = [i \in 1..m |-> repeats[i]]
  OBVIOUS
<1> HIDE DEF m
<1>2. s = [i \in 1..m |-> [frame |-> i, n |-> repeats[i]]]
  BY <1>1 DEF AsSlots
<1> HIDE DEF s
<1>3. /\ DOMAIN s = 1..m
      /\ \A i \in 1..m : s[i] = [frame |-> i, n |-> repeats[i]] /\ s[i].frame = i /\ s[i].n = repeats[i]
  BY <1>2
<1>4. s \in [1..m -> [frame : 1..m, n : {repeats[i] : i \in 1..m}]]
  BY <1>2
<1>5. Len(s) = m
  BY <1>1, <1>4, SequenceOf
<1>6. Repeats(s) = repeats
  BY <1>1, <1>3 DEF Repeats
<1>7. QED
  BY <1>3, <1>5, <1>6 DEF m, s

LEMMA SharedSlots ==
  ASSUME Shared
  PROVE  /\ Len(slots) \in Nat /\ DOMAIN slots = 1..Len(slots)
         /\ \A i \in 1..Len(slots) : /\ slots[i] = [frame |-> i, n |-> slots[i].n]
                                     /\ slots[i].frame = i /\ slots[i].n \in Nat \ {0}
                                     /\ Repeats(slots)[i] = slots[i].n
         /\ Repeats(slots) \in Seq(Nat \ {0}) /\ Repeats(slots) \in Seq(Nat)
         /\ Len(Repeats(slots)) = Len(slots)
<1> DEFINE r == Repeats(slots)
           m == Len(r)
<1>1. r \in Seq(Nat \ {0}) /\ slots = AsSlots(r)
  BY DEF Shared
<1>2. m \in Nat /\ (\A i \in 1..m : r[i] \in Nat \ {0}) /\ r \in Seq(Nat)
  BY <1>1
<1> HIDE DEF r
<1>3. /\ Len(slots) = m /\ DOMAIN slots = 1..m
      /\ \A i \in 1..m : slots[i] = [frame |-> i, n |-> r[i]] /\ slots[i].frame = i /\ slots[i].n = r[i]
  BY <1>1, SlotsOf
<1> HIDE DEF m
<1>4. QED
  BY <1>1, <1>2, <1>3 DEF r, m

(* The slot that trimming takes from. *)
LEMMA GreediestIs ==
  ASSUME Shared, Len(given) \in Nat \ {0}
  PROVE  /\ Greediest \in 1..Len(slots)
         /\ \A j \in 1..Len(slots) : slots[j].n <= slots[Greediest].n
<1> DEFINE m == Len(slots)
           Wins(i, j) == slots[j].n < slots[i].n \/ (slots[j].n = slots[i].n /\ j <= i)
           Best(k) == \E i \in 1..k : \A j \in 1..k : Wins(i, j)
           S == {k \in 0..m : k > 0 => Best(k)}
<1>1. m \in Nat /\ m >= 1 /\ DOMAIN slots = 1..m /\ \A i \in 1..m : slots[i].n \in Nat
  <2>1. m = Len(given)
    BY DEF Shared
  <2>2. DOMAIN slots = 1..m /\ \A i \in 1..m : slots[i].n \in Nat \ {0}
    BY SharedSlots
  <2> HIDE DEF m
  <2>3. QED
    BY <2>1, <2>2
<1>2. 0 \in S
  BY <1>1
<1>3. ASSUME NEW k \in 1..m, k - 1 \in S PROVE k \in S
  <2>1. k \in 1..k /\ k \in Nat /\ 1..(k - 1) \subseteq 1..k /\ 1..k = 1..(k - 1) \cup {k}
    OBVIOUS
  <2>2. CASE k = 1
    <3>1. \A j \in 1..k : Wins(k, j)
      <4>1. \A j \in 1..k : j = k
        BY <2>2
      <4>2. QED
        BY <2>1, <4>1
    <3>2. QED
      BY <2>1, <3>1
  <2>3. CASE k # 1
    <3>1. Best(k - 1)
      <4> HIDE DEF Best
      <4>1. QED
        BY <1>3, <2>3
    <3>2. PICK i \in 1..(k - 1) : \A j \in 1..(k - 1) : Wins(i, j)
      BY <3>1
    <3>3. /\ i \in 1..k /\ i < k /\ slots[i].n \in Nat /\ slots[k].n \in Nat
          /\ \A j \in 1..(k - 1) : slots[j].n \in Nat /\ j < k
      BY <1>1, <2>1, <3>2
    <3>4. CASE slots[k].n < slots[i].n
      <4>1. \A j \in 1..k : Wins(i, j)
        BY <2>1, <3>2, <3>4
      <4> HIDE DEF Wins
      <4>2. i \in 1..k
        BY <3>3
      <4>3. QED
        BY <4>1, <4>2
    <3>5. CASE ~ (slots[k].n < slots[i].n)
      <4>1. ASSUME NEW j \in 1..(k - 1) PROVE Wins(k, j)
        <5>1. Wins(i, j)
          BY <3>2
        <5>2. QED
          BY <3>3, <3>5, <5>1
      <4>2. Wins(k, k)
        BY <2>1
      <4> HIDE DEF Wins
      <4>3. \A j \in 1..k : Wins(k, j)
        BY <2>1, <4>1, <4>2
      <4>4. QED
        BY <2>1, <4>3
    <3>6. QED
      BY <3>4, <3>5
  <2>4. QED
    BY <2>2, <2>3
<1>4. m \in S
  <2> HIDE DEF S, m
  <2>1. 0..m \subseteq S
    BY <1>1, <1>2, <1>3, Induction
  <2>2. QED
    BY <1>1, <2>1
<1>5. Best(m)
  <2> HIDE DEF Best
  <2>1. QED
    BY <1>1, <1>4
<1>6. /\ Greediest \in 1..m
      /\ \A j \in 1..m : Wins(Greediest, j)
  <2> DEFINE g == CHOOSE i \in 1..m : \A j \in 1..m : Wins(i, j)
  <2>1. g = Greediest
    BY <1>1 DEF Greediest
  <2>2. g \in 1..m /\ \A j \in 1..m : Wins(g, j)
    <3> HIDE DEF Wins, m
    <3>1. QED
      BY <1>5
  <2> HIDE DEF Wins, m, g
  <2>3. QED
    BY <2>1, <2>2
<1>7. QED
  BY <1>1, <1>6

---------------------------------------------------------------------------
(* The invariant. *)

LEMMA ShareIsShared ==
  ASSUME PlanTypes, Len(given) < cap, Share
  PROVE  Shared'
<1> DEFINE n == Len(given)
           sum == Total(Held)
           part(i) == (Held[i] * cap) \div sum
           repeats == [i \in DOMAIN Held |-> AtLeastOne(part(i))]
<1>1. given \in Seq(Nat) /\ given # <<>> /\ n \in Nat \ {0} /\ cap \in Nat
  BY DEF PlanTypes
<1>2. /\ Held \in Seq(Nat) /\ Len(Held) = n /\ DOMAIN Held = 1..n
      /\ \A i \in 1..n : Held[i] \in Nat \ {0}
  BY <1>1, HeldType
<1>3. sum \in Nat \ {0}
  <2>1. sum \in Nat /\ sum >= n
    BY <1>1, <1>2, HeldType, TotalPositive
  <2> HIDE DEF sum, n
  <2>2. QED
    BY <1>1, <2>1
<1>4. ASSUME NEW i \in 1..n, NEW j \in 1..n, Held[i] <= Held[j]
      PROVE  part(i) \in Nat /\ part(j) \in Nat /\ part(i) <= part(j)
  <2>1. Held[i] \in Nat /\ Held[j] \in Nat
    BY <1>2
  <2>2. /\ Held[i] * cap = cap * Held[i] /\ Held[j] * cap = cap * Held[j]
        /\ cap * Held[i] \in Nat /\ cap * Held[j] \in Nat
    BY <1>1, <2>1, SMTT(30)
  <2>3. cap * Held[i] <= cap * Held[j]
    BY <1>1, <1>4, <2>1, Multiplied
  <2>4. Held[i] * cap \in Nat /\ Held[j] * cap \in Nat /\ Held[i] * cap <= Held[j] * cap
    BY <2>2, <2>3
  <2> HIDE DEF sum
  <2>5. QED
    BY <1>3, <2>4, QuotientGrows, QuotientBounds
<1>5. \A i \in 1..n : part(i) \in Nat
  BY <1>2, <1>4
<1> HIDE DEF part
<1>6. /\ repeats \in [1..n -> Nat \ {0}]
      /\ \A i \in 1..n : repeats[i] = AtLeastOne(part(i))
  BY <1>2, <1>5 DEF AtLeastOne
<1>7. slots' = AsSlots(repeats) /\ given' = given
  BY DEF Share, Plan, part
<1>8. \A i, j \in 1..n : Held[i] <= Held[j] => repeats[i] <= repeats[j] + 1
  BY <1>4, <1>6 DEF AtLeastOne
<1> HIDE DEF repeats
<1>9. repeats \in Seq(Nat \ {0}) /\ Len(repeats) = n
  BY <1>1, <1>6, SequenceOf
<1>10. /\ Len(slots') = n /\ Repeats(slots') = repeats
       /\ \A i \in 1..n : slots'[i].n = repeats[i]
  BY <1>7, <1>9, SlotsOf, Zenon
<1>11. Held' = Held
  BY <1>7 DEF Held
<1>12. Repeats(slots)' = Repeats(slots')
  BY DEF Repeats
<1>13. QED
  BY <1>7, <1>8, <1>9, <1>10, <1>11, <1>12 DEF Shared, n

(* Taking a slot from the frame that has most keeps the order. *)
LEMMA TrimKeeps ==
  ASSUME Shared, Len(given) \in Nat \ {0}, given \in Seq(Nat), Trim
  PROVE  Shared'
<1> DEFINE n == Len(given)
           g == Greediest
           old == Repeats(slots)
           repeats == [old EXCEPT ![g] = @ - 1]
<1>1. /\ n \in Nat /\ Len(slots) = n /\ DOMAIN slots = 1..n
      /\ \A i \in 1..n : /\ slots[i] = [frame |-> i, n |-> slots[i].n]
                         /\ slots[i].n \in Nat \ {0}
                         /\ old[i] = slots[i].n
  <2>1. Len(slots) = n
    BY DEF Shared
  <2> HIDE DEF n
  <2>2. QED
    BY <2>1, SharedSlots
<1>2. old \in Seq(Nat \ {0}) /\ Len(old) = n
  BY <1>1, SharedSlots
<1>3. g \in 1..n /\ \A i \in 1..n : slots[i].n <= slots[g].n
  BY <1>1, GreediestIs
<1>4. slots[g].n > 1 /\ slots' = [slots EXCEPT ![g].n = @ - 1] /\ given' = given
  BY DEF Trim, OverBudget, Plan
<1>5. Held' = Held
  BY <1>4 DEF Held
<1> HIDE DEF old, g, n
<1>6. DOMAIN old = 1..n /\ \A i \in 1..n : old[i] \in Nat \ {0}
  BY <1>2
<1>7. /\ repeats \in [1..n -> Nat \ {0}]
      /\ \A i \in 1..n : repeats[i] = IF i = g THEN old[g] - 1 ELSE old[i]
  <2>1. old[g] - 1 \in Nat \ {0}
    BY <1>1, <1>3, <1>4, <1>6
  <2>2. old \in [1..n -> Nat \ {0}]
    BY <1>2, <1>6
  <2>3. QED
    BY <1>3, <2>1, <2>2
<1> HIDE DEF repeats
<1>8. repeats \in Seq(Nat \ {0}) /\ Len(repeats) = n
  BY <1>1, <1>7, SequenceOf
<1>9. slots' = AsSlots(repeats)
  <2>1. DOMAIN AsSlots(repeats) = 1..n /\ \A i \in 1..n : AsSlots(repeats)[i] = [frame |-> i, n |-> repeats[i]]
    BY <1>8, SlotsOf
  <2>2. AsSlots(repeats) = [i \in 1..n |-> [frame |-> i, n |-> repeats[i]]]
    <3>1. DOMAIN repeats = 1..n
      BY <1>7
    <3>2. QED
      BY <3>1 DEF AsSlots
  <2>3. slots = [i \in 1..n |-> slots[i]]
    <3>1. slots = AsSlots(old)
      BY DEF Shared, old
    <3>2. QED
      BY <1>1, <3>1 DEF AsSlots
  <2>4. slots' = [i \in 1..n |-> IF i = g THEN [slots[g] EXCEPT !.n = @ - 1] ELSE slots[i]]
    BY <1>1, <1>3, <1>4, <2>3
  <2>5. [slots[g] EXCEPT !.n = @ - 1] = [frame |-> g, n |-> repeats[g]]
    <3>1. slots[g] = [frame |-> g, n |-> slots[g].n] /\ repeats[g] = slots[g].n - 1
      BY <1>1, <1>3, <1>7
    <3>2. QED
      BY <3>1
  <2>6. \A i \in 1..n : i # g => slots[i] = [frame |-> i, n |-> repeats[i]]
    BY <1>1, <1>7
  <2>7. QED
    BY <2>2, <2>4, <2>5, <2>6
<1>10. /\ Len(slots') = n /\ Repeats(slots') = repeats
       /\ \A i \in 1..n : slots'[i].n = repeats[i]
  BY <1>8, <1>9, SlotsOf, Zenon
<1>11. Repeats(slots)' = Repeats(slots')
  BY DEF Repeats
<1>12. \A i, j \in 1..n : Held[i] <= Held[j] => repeats[i] <= repeats[j] + 1
  <2> SUFFICES ASSUME NEW i \in 1..n, NEW j \in 1..n, Held[i] <= Held[j]
               PROVE  repeats[i] <= repeats[j] + 1
    OBVIOUS
  <2>1. old[i] <= old[j] + 1
    BY <1>1 DEF Shared, n
  <2>2. old[i] \in Nat /\ old[j] \in Nat /\ old[i] <= old[g] /\ old[g] \in Nat
    BY <1>1, <1>3
  <2>3. /\ repeats[i] = IF i = g THEN old[g] - 1 ELSE old[i]
        /\ repeats[j] = IF j = g THEN old[g] - 1 ELSE old[j]
    BY <1>7
  <2>4. CASE i = g
    BY <2>1, <2>2, <2>3, <2>4
  <2>5. CASE i # g
    BY <2>1, <2>2, <2>3, <2>5
  <2>6. QED
    BY <2>4, <2>5
<1>13. QED
  BY <1>4, <1>5, <1>8, <1>9, <1>10, <1>11, <1>12 DEF Shared, n

(* When nothing is left to trim, the budget holds. *)
LEMMA NotOverBudget ==
  ASSUME Shared, Len(given) \in Nat \ {0}, cap \in Nat, Len(given) < cap, ~OverBudget
  PROVE  Total(Repeats(slots)) <= cap
<1> DEFINE r == Repeats(slots)
           m == Len(r)
<1>1. /\ r \in Seq(Nat) /\ m = Len(given)
      /\ m = Len(slots)
      /\ \A i \in 1..m : r[i] = slots[i].n /\ slots[i].n \in Nat \ {0}
  <2>1. Len(slots) = Len(given)
    BY DEF Shared
  <2>2. QED
    BY <2>1, SharedSlots
<1>2. Greediest \in 1..m /\ \A i \in 1..m : slots[i].n <= slots[Greediest].n
  BY <1>1, GreediestIs
<1>3. Total(r) \in Nat
  BY <1>1, TotalNat
<1> HIDE DEF r, m
<1>4. CASE Total(r) > cap
  <2>1. ~ (slots[Greediest].n > 1)
    BY <1>4 DEF OverBudget, r
  <2>2. \A i \in 1..m : r[i] = 1
    BY <1>1, <1>2, <2>1, SMTT(30)
  <2>3. Total(r) = m
    BY <1>1, <2>2, TotalOnes DEF m
  <2>4. QED
    BY <1>1, <1>3, <2>3 DEF r
<1>5. QED
  BY <1>3, <1>4 DEF r

LEMMA PlanStart == PlanInit => PlanInv
<1> SUFFICES ASSUME PlanInit PROVE PlanInv
  OBVIOUS
<1>1. PICK m \in 1..MaxLen : given \in [1..m -> Duration]
  BY DEF PlanInit
<1>2. m \in Nat \ {0} /\ Duration \subseteq Nat /\ Budget \subseteq Nat
  BY <1>1, AnimationAssumption DEF AnimationAssumption
<1>3. given \in [1..m -> Nat]
  BY <1>1, <1>2
<1>4. given \in Seq(Nat) /\ Len(given) = m
  BY <1>2, <1>3, SequenceOf
<1>5. given # <<>>
  BY <1>2, <1>4
<1>6. cap \in Nat \ {0} /\ cap <= 250
  BY <1>2 DEF PlanInit, Clamp
<1>7. phase = IF Len(given) = 1 \/ cap = 1 THEN "still" ELSE "plan"
  BY DEF PlanInit
<1>8. Several <=> ~ (Len(given) = 1 \/ cap = 1)
  BY <1>2, <1>4, <1>6 DEF Several
<1>9. QED
  BY <1>4, <1>5, <1>6, <1>7, <1>8 DEF PlanInv, PlanTypes

(* What was planned stays planned. *)
LEMMA PlannedStays ==
  ASSUME Planned, UNCHANGED <<given, cap, slots, tick>>
  PROVE  Planned'
<1>1. given' = given /\ cap' = cap /\ slots' = slots /\ tick' = tick
  OBVIOUS
<1>2. Several' = Several /\ Held' = Held /\ Chosen' = Chosen
  BY <1>1 DEF Several, Held, Chosen
<1>3. HeldGcd' = HeldGcd
  BY <1>2 DEF HeldGcd
<1>4. GcdTick' = GcdTick
  BY <1>3 DEF GcdTick
<1>5. ExactRepeats' = ExactRepeats
  BY <1>2, <1>4 DEF ExactRepeats
<1>6. Repeats(slots)' = Repeats(slots) /\ Greediest' = Greediest
  BY <1>1 DEF Repeats, Greediest
<1>7. Shared' = Shared /\ OverBudget' = OverBudget
  BY <1>1, <1>2, <1>6 DEF Shared, OverBudget
<1>8. Total(Held)' = Total(Held) /\ Total(ExactRepeats)' = Total(ExactRepeats)
  BY <1>2, <1>5 DEF Total
<1>9. Total(Repeats(slots))' = Total(Repeats(slots))
  BY <1>6 DEF Total
<1>10. AsSlots(ExactRepeats)' = AsSlots(ExactRepeats)
  BY <1>5 DEF AsSlots
<1>11. QED
  BY <1>1, <1>2, <1>4, <1>7, <1>8, <1>9, <1>10
     DEF Planned, PlannedStill, PlannedDecimated, PlannedExact, PlannedTrimmed

(* The figures of the source do not change. *)
LEMMA SourceStays ==
  ASSUME UNCHANGED <<given, cap>>
  PROVE  /\ Several' = Several /\ Held' = Held /\ GcdTick' = GcdTick
         /\ ExactRepeats' = ExactRepeats
<1>1. Several' = Several /\ Held' = Held
  BY DEF Several, Held
<1>2. HeldGcd' = HeldGcd
  BY <1>1 DEF HeldGcd
<1>3. GcdTick' = GcdTick
  BY <1>2 DEF GcdTick
<1>4. ExactRepeats' = ExactRepeats
  BY <1>1, <1>3 DEF ExactRepeats
<1>5. QED
  BY <1>1, <1>3, <1>4

LEMMA PlanStep ==
  ASSUME PlanInv, [PlanNext]_planVars
  PROVE  PlanInv'
<1>1. PlanTypes /\ given \in Seq(Nat) /\ given # <<>> /\ Len(given) \in Nat \ {0} /\ cap \in Nat
  BY DEF PlanInv, PlanTypes
<1>2. CASE Still
  <2>1. /\ phase' = "build" /\ slots' = <<[frame |-> 1, n |-> 1]>>
        /\ given' = given /\ cap' = cap
    BY <1>2 DEF Still, Plan
  <2>2. ~Several
    BY <1>2 DEF Still, PlanInv
  <2>3. PlannedStill'
    BY <2>1, <2>2, SourceStays DEF PlannedStill
  <2>4. QED
    BY <1>1, <2>1, <2>3 DEF PlanInv, PlanTypes, Planned
<1>3. CASE Decimate
  <2>1. /\ phase' = "build" /\ given' = given /\ cap' = cap
        /\ slots' = [i \in 1..cap |-> [frame |-> ((i - 1) * Len(given)) \div cap + 1, n |-> 1]]
        /\ tick' = Clamp(Total(Held) \div cap, 1, MaxTick)
    BY <1>3 DEF Decimate, Plan
  <2>2. Several /\ Len(given) >= cap
    BY <1>3 DEF Decimate, PlanInv
  <2>3. Held' = Held /\ Several'
    BY <2>1, <2>2, SourceStays
  <2>4. Chosen'
    BY <2>1 DEF Chosen
  <2>5. PlannedDecimated'
    BY <2>1, <2>2, <2>3, <2>4 DEF PlannedDecimated
  <2>6. QED
    BY <1>1, <2>1, <2>5 DEF PlanInv, PlanTypes, Planned
<1>4. CASE Exact
  <2>1. /\ phase' = "build" /\ given' = given /\ cap' = cap
        /\ slots' = AsSlots(ExactRepeats) /\ tick' = GcdTick
    BY <1>4 DEF Exact, Plan
  <2>2. Several /\ Len(given) < cap /\ Total(ExactRepeats) <= cap
    BY <1>4 DEF Exact, PlanInv
  <2>3. Several' /\ GcdTick' = GcdTick /\ ExactRepeats' = ExactRepeats
    BY <2>1, <2>2, SourceStays
  <2>4. PlannedExact'
    BY <2>1, <2>2, <2>3 DEF PlannedExact
  <2>5. QED
    BY <1>1, <2>1, <2>4 DEF PlanInv, PlanTypes, Planned
<1>5. CASE Share
  <2>1. phase' = "trim" /\ given' = given /\ cap' = cap
    BY <1>5 DEF Share, Plan
  <2>2. Several /\ Len(given) < cap /\ Total(ExactRepeats) > cap
    BY <1>5 DEF Share, PlanInv
  <2>3. Several' /\ ExactRepeats' = ExactRepeats
    BY <2>1, <2>2, SourceStays
  <2>4. Shared'
    BY <1>1, <1>5, <2>2, ShareIsShared
  <2>5. QED
    BY <1>1, <2>1, <2>2, <2>3, <2>4 DEF PlanInv, PlanTypes
<1>6. CASE Trim
  <2>1. phase' = "trim" /\ given' = given /\ cap' = cap /\ phase = "trim"
    BY <1>6 DEF Trim, Plan
  <2>2. Several /\ Len(given) < cap /\ Total(ExactRepeats) > cap /\ Shared
    BY <2>1 DEF PlanInv
  <2>3. Several' /\ ExactRepeats' = ExactRepeats
    BY <2>1, <2>2, SourceStays
  <2>4. Shared'
    BY <1>1, <1>6, <2>2, TrimKeeps
  <2>5. QED
    BY <1>1, <2>1, <2>2, <2>3, <2>4 DEF PlanInv, PlanTypes
<1>7. CASE Trimmed
  <2>1. /\ phase' = "build" /\ given' = given /\ cap' = cap /\ slots' = slots
        /\ phase = "trim" /\ ~OverBudget
        /\ tick' = Clamp(Total(Held) \div AtLeastOne(Total(Repeats(slots))), 1, MaxTick)
    BY <1>7 DEF Trimmed, Plan
  <2>2. Several /\ Len(given) < cap /\ Total(ExactRepeats) > cap /\ Shared
    BY <2>1 DEF PlanInv
  <2>3. Several' /\ ExactRepeats' = ExactRepeats /\ Held' = Held
    BY <2>1, <2>2, SourceStays
  <2>4. Repeats(slots)' = Repeats(slots) /\ Greediest' = Greediest
    BY <2>1 DEF Repeats, Greediest
  <2>5. Shared' /\ (OverBudget' = OverBudget)
    BY <2>1, <2>2, <2>3, <2>4 DEF Shared, OverBudget
  <2>6. PlannedTrimmed'
    BY <2>1, <2>2, <2>3, <2>4, <2>5 DEF PlannedTrimmed
  <2>7. QED
    BY <1>1, <2>1, <2>6 DEF PlanInv, PlanTypes, Planned
<1>8. CASE Build
  <2>1. /\ phase' = "done" /\ UNCHANGED <<given, cap, slots, tick>>
        /\ payload' = BuildContainer(Expanded, Delays)
    BY <1>8 DEF Build
  <2>2. Planned
    BY <1>8 DEF Build, PlanInv
  <2>3. Planned'
    BY <2>1, <2>2, PlannedStays
  <2>4. Expanded' = Expanded
    BY <2>1 DEF Expanded
  <2>5. Delays' = Delays
    BY <2>1, <2>4 DEF Delays
  <2>6. payload' = BuildContainer(Expanded, Delays)'
    BY <2>1, <2>4, <2>5
  <2>7. QED
    BY <1>1, <2>1, <2>3, <2>6 DEF PlanInv, PlanTypes
<1>9. CASE UNCHANGED planVars
  <2>1. UNCHANGED <<given, cap, phase, tick, slots, payload>>
    BY <1>9 DEF planVars
  <2>2. Several' = Several /\ ExactRepeats' = ExactRepeats /\ Held' = Held
    BY <2>1, SourceStays
  <2>3. Shared' = Shared
    BY <2>1, <2>2 DEF Shared
  <2>4. phase \in {"build", "done"} => Planned'
    BY <2>1, PlannedStays DEF PlanInv
  <2>5. Expanded' = Expanded
    BY <2>1 DEF Expanded
  <2>6. Delays' = Delays
    BY <2>1, <2>5 DEF Delays
  <2>7. QED
    BY <1>1, <2>1, <2>2, <2>3, <2>4, <2>5, <2>6 DEF PlanInv, PlanTypes
<1>10. QED
  BY <1>2, <1>3, <1>4, <1>5, <1>6, <1>7, <1>8, <1>9 DEF PlanNext

LEMMA PlanInductive == PlanSpec => []PlanInv
BY PlanStart, PlanStep, PTL DEF PlanSpec

---------------------------------------------------------------------------
(* The container's frames. *)

LEMMA PlannedSlots ==
  ASSUME PlanTypes, Planned
  PROVE  /\ Len(slots) \in Nat \ {0} /\ DOMAIN slots = 1..Len(slots)
         /\ \A k \in 1..Len(slots) : slots[k].frame \in Nat /\ slots[k].n \in Nat \ {0}
         /\ Repeats(slots) \in Seq(Nat \ {0}) /\ Len(Repeats(slots)) = Len(slots)
         /\ \A k \in 1..Len(slots) : Repeats(slots)[k] = slots[k].n
         /\ Total(Repeats(slots)) \in 1..cap
<1> DEFINE r == Repeats(slots)
           m == Len(slots)
<1>1. given \in Seq(Nat) /\ Len(given) \in Nat \ {0} /\ cap \in Nat \ {0}
  BY DEF PlanTypes
<1>2. ASSUME NEW l \in Nat \ {0}, slots \in [1..l -> [frame : Nat, n : {1}]], l <= cap
      PROVE  /\ m = l /\ DOMAIN slots = 1..m
             /\ \A k \in 1..m : slots[k].frame \in Nat /\ slots[k].n \in Nat \ {0} /\ r[k] = slots[k].n
             /\ r \in Seq(Nat \ {0}) /\ Len(r) = m
             /\ Total(r) \in 1..cap
  <2>1. Len(slots) = l /\ DOMAIN slots = 1..l
    BY <1>2, SequenceOf
  <2>2. r \in [1..l -> Nat \ {0}] /\ \A k \in 1..l : r[k] = slots[k].n /\ r[k] = 1
    BY <1>2, <2>1 DEF Repeats
  <2> HIDE DEF r
  <2>3. r \in Seq(Nat \ {0}) /\ r \in Seq(Nat) /\ Len(r) = l
    <3>1. r \in [1..l -> Nat]
      BY <2>2
    <3>2. QED
      BY <2>2, <3>1, SequenceOf
  <2>4. Total(r) = l
    BY <2>2, <2>3, TotalOnes
  <2>5. QED
    BY <1>1, <1>2, <2>1, <2>2, <2>3, <2>4
<1>3. CASE PlannedStill
  <2>1. slots \in [1..1 -> [frame : Nat, n : {1}]]
    BY <1>3 DEF PlannedStill
  <2>2. 1 \in Nat \ {0} /\ 1 <= cap
    BY <1>1
  <2>3. QED
    BY <1>2, <2>1, <2>2
<1>4. CASE PlannedDecimated
  <2>1. \A i \in 1..cap : ((i - 1) * Len(given)) \div cap + 1 \in Nat
    <3> SUFFICES ASSUME NEW i \in 1..cap PROVE ((i - 1) * Len(given)) \div cap + 1 \in Nat
      OBVIOUS
    <3>1. (i - 1) * Len(given) \in Nat
      BY <1>1
    <3>2. ((i - 1) * Len(given)) \div cap \in Nat
      BY <1>1, <3>1, QuotientBounds
    <3>3. QED
      BY <3>2
  <2>2. slots \in [1..cap -> [frame : Nat, n : {1}]]
    BY <1>4, <2>1 DEF PlannedDecimated, Chosen
  <2>3. cap \in Nat \ {0} /\ cap <= cap
    BY <1>1
  <2>4. /\ m = cap /\ DOMAIN slots = 1..m
        /\ \A k \in 1..m : slots[k].frame \in Nat /\ slots[k].n \in Nat \ {0} /\ r[k] = slots[k].n
        /\ r \in Seq(Nat \ {0}) /\ Len(r) = m
        /\ Total(r) \in 1..cap
    BY <1>2, <2>2, <2>3
  <2>5. QED
    BY <1>1, <2>4
<1>5. ASSUME NEW s \in Seq(Nat \ {0}), slots = AsSlots(s), Len(s) \in Nat \ {0}, Total(s) <= cap
      PROVE  /\ m \in Nat \ {0} /\ DOMAIN slots = 1..m
             /\ \A k \in 1..m : slots[k].frame \in Nat /\ slots[k].n \in Nat \ {0} /\ r[k] = slots[k].n
             /\ r \in Seq(Nat \ {0}) /\ Len(r) = m
             /\ Total(r) \in 1..cap
  <2>1. m = Len(s) /\ DOMAIN slots = 1..m /\ r = s
        /\ \A k \in 1..m : slots[k].frame = k /\ slots[k].n = s[k]
    BY <1>5, SlotsOf
  <2>2. \A k \in 1..m : s[k] \in Nat \ {0}
    BY <2>1
  <2>3. Total(s) \in Nat /\ Total(s) >= Len(s)
    BY TotalPositive
  <2>4. QED
    BY <1>1, <1>5, <2>1, <2>2, <2>3
<1>6. CASE PlannedExact
  <2>1. ExactRepeats \in Seq(Nat \ {0}) /\ Len(ExactRepeats) = Len(given)
    BY ExactRepeatsType
  <2>2. slots = AsSlots(ExactRepeats) /\ Total(ExactRepeats) <= cap
    BY <1>6 DEF PlannedExact
  <2>3. QED
    BY <1>1, <1>5, <2>1, <2>2
<1>7. CASE PlannedTrimmed
  <2>1. Shared /\ Len(given) < cap /\ ~OverBudget
    BY <1>7 DEF PlannedTrimmed
  <2>2. r \in Seq(Nat \ {0}) /\ slots = AsSlots(r) /\ Len(slots) = Len(given)
    BY <2>1 DEF Shared
  <2>3. Len(r) = Len(slots)
    BY <2>1, SharedSlots
  <2>4. Total(r) <= cap
    BY <1>1, <2>1, NotOverBudget
  <2>5. QED
    BY <1>1, <1>5, <2>2, <2>3, <2>4
<1>8. QED
  BY <1>3, <1>4, <1>6, <1>7 DEF Planned

LEMMA ExpandedType ==
  ASSUME PlanTypes, Planned
  PROVE  /\ Expanded \in Seq(Nat)
         /\ Len(Expanded) = Total(Repeats(slots))
         /\ Len(Expanded) \in 1..cap
<1> DEFINE m == Len(slots)
           run(i) == [k \in 1..slots[i].n |-> slots[i].frame]
           runs == [i \in DOMAIN slots |-> run(i)]
           r == Repeats(slots)
<1>1. /\ m \in Nat \ {0} /\ DOMAIN slots = 1..m
      /\ \A k \in 1..m : slots[k].frame \in Nat /\ slots[k].n \in Nat \ {0}
      /\ r \in Seq(Nat \ {0}) /\ Len(r) = m /\ (\A k \in 1..m : r[k] = slots[k].n)
      /\ Total(r) \in 1..cap
  BY PlannedSlots
<1>2. Expanded = FlattenSeq(runs)
  BY DEF Expanded
<1>3. ASSUME NEW i \in 1..m PROVE run(i) \in Seq(Nat) /\ Len(run(i)) = slots[i].n
  <2>1. slots[i].n \in Nat /\ run(i) \in [1..slots[i].n -> Nat]
    BY <1>1
  <2>2. QED
    BY <2>1, SequenceOf
<1> HIDE DEF run
<1>4. runs \in [1..m -> Seq(Nat)] /\ \A i \in 1..m : runs[i] = run(i)
  BY <1>1, <1>3
<1> HIDE DEF runs, r, m
<1>5. Len(runs) = m /\ DOMAIN runs = 1..m
  BY <1>1, <1>4, SequenceOf
<1>6. r \in Seq(Nat)
  BY <1>1
<1>7. \A i \in 1..m : runs[i] \in Seq(Nat) /\ r[i] = Len(runs[i])
  BY <1>1, <1>3, <1>4
<1>8. FlattenSeq(runs) \in Seq(Nat) /\ Len(FlattenSeq(runs)) = Total(r)
  <2>1. Len(runs) \in Nat \ {0} /\ DOMAIN runs = 1..Len(runs) /\ Len(r) = Len(runs)
    BY <1>1, <1>5
  <2>2. \A i \in 1..Len(runs) : runs[i] \in Seq(Nat)
    BY <1>5, <1>7
  <2>3. \A i \in 1..Len(runs) : r[i] = Len(runs[i])
    BY <1>5, <1>7
  <2>4. QED
    BY <1>6, <2>1, <2>2, <2>3, FlatLength, Zenon
<1>9. QED
  BY <1>1, <1>2, <1>8 DEF r

---------------------------------------------------------------------------
(* The container and its reports. *)

LEMMA PaddedIs ==
  ASSUME NEW x \in Nat, x > Block, x <= MaxReports * Block
  PROVE  LET p == PaddedLen(x)
             count == p \div Block
         IN /\ p \in Nat /\ p >= x /\ p - x < Block /\ p # 0 /\ p % Block = 0
            /\ count \in Nat /\ count >= 2 /\ count <= MaxReports
<1> DEFINE c == (x + Block - 1) \div Block
<1>1. Block \in Nat \ {0} /\ MaxReports \in Nat /\ x + Block - 1 \in Nat
  BY PlanSizes
<1>2. /\ c \in Nat /\ Block * c \in Nat
      /\ Block * c <= x + Block - 1 /\ x + Block - 1 < Block * c + Block
  BY <1>1, QuotientBounds
<1>3. 2 <= c
  <2>1. Block * 2 <= x + Block - 1
    BY <1>1
  <2>2. QED
    BY <1>1, <2>1, QuotientAtLeast
<1>4. c < MaxReports + 1
  <2>1. Block * (MaxReports + 1) = MaxReports * Block + Block /\ MaxReports * Block \in Nat
    BY <1>1
  <2>2. x + Block - 1 < Block * (MaxReports + 1)
    BY <1>1, <2>1
  <2>3. MaxReports + 1 \in Nat
    BY <1>1
  <2>4. QED
    BY <1>1, <2>2, <2>3, QuotientBelow
<1>5. PaddedLen(x) = c * Block
  BY DEF PaddedLen
<1> HIDE DEF c
<1>6. PaddedLen(x) = Block * c /\ PaddedLen(x) = Block * c + 0
  BY <1>1, <1>2, <1>5
<1>7. PaddedLen(x) \in Nat /\ 0 \in 0..(Block - 1)
  BY <1>1, <1>2, <1>6
<1>8. PaddedLen(x) \div Block = c /\ PaddedLen(x) % Block = 0
  BY <1>1, <1>2, <1>6, <1>7, QuotientIs
<1>9. QED
  BY <1>1, <1>2, <1>3, <1>4, <1>6, <1>7, <1>8

LEMMA ContainerSize ==
  ASSUME NEW n \in Nat \ {0}, n <= 250
  PROVE  LET x == Metadata + n * FrameBytes
         IN x \in Nat /\ x > Block /\ x >= Metadata /\ x <= MaxReports * Block
<1>1. /\ FrameBytes \in Nat /\ Metadata \in Nat /\ Block < Metadata + FrameBytes
      /\ Metadata + 250 * FrameBytes <= MaxReports * Block
      /\ Block \in Nat /\ MaxReports * Block \in Nat
  BY PlanSizes, AnimationAssumption DEF AnimationAssumption
<1>2. FrameBytes * 1 <= FrameBytes * n /\ FrameBytes * n <= FrameBytes * 250
  BY <1>1, Multiplied
<1>3. n * FrameBytes = FrameBytes * n /\ FrameBytes * n \in Nat
  BY <1>1
<1>4. QED
  BY <1>1, <1>2, <1>3

(* What parse_container reads from what build_container has written. *)
LEMMA ReadBack ==
  ASSUME NEW V, NEW frames \in Seq(V), Len(frames) \in Nat \ {0}, Len(frames) <= 250,
         NEW T, NEW timings \in [1..(Len(frames) - 1) -> T]
  PROVE  LET p == BuildContainer(frames, timings)
         IN /\ p # <<>>
            /\ p.len = PaddedLen(Metadata + Len(frames) * FrameBytes)
            /\ p.meta[0] = Len(frames)
            /\ ParseContainer(p) = [timings |-> timings, frames |-> frames]
<1> DEFINE n == Len(frames)
           x == Metadata + n * FrameBytes
           byte(k) == CASE k = 0 -> n
                        [] k \in 1..(n - 1) -> timings[k]
                        [] k = n -> 0
                        [] OTHER -> 255
           meta == [k \in 0..(Metadata - 1) |-> byte(k)]
           p == [len |-> PaddedLen(x), meta |-> meta, frames |-> frames]
<1>1. n \in Nat \ {0} /\ n <= 250 /\ n \in 1..MaxFrames /\ n < Metadata - 1 /\ Metadata \in Nat
  <2>1. n \in Nat \ {0} /\ n <= 250
    OBVIOUS
  <2> HIDE DEF n
  <2>2. QED
    BY <2>1, PlanSizes
<1>2. Len(timings) = n - 1
  <2>1. n - 1 \in Nat
    BY <1>1
  <2>2. timings \in [1..(n - 1) -> T]
    OBVIOUS
  <2> HIDE DEF n
  <2>3. QED
    BY <2>1, <2>2, SequenceOf
<1>3. BuildContainer(frames, timings) = p
  <2> HIDE DEF x
  <2>1. n \in 1..MaxFrames /\ Len(timings) = n - 1
    BY <1>1, <1>2
  <2>2. QED
    BY <2>1 DEF BuildContainer, x
<1>4. x \in Nat /\ x > Block /\ x >= Metadata /\ x <= MaxReports * Block
  BY <1>1, ContainerSize
<1> HIDE DEF x
<1>5. /\ PaddedLen(x) \in Nat /\ PaddedLen(x) >= x /\ PaddedLen(x) - x < Block
      /\ PaddedLen(x) # 0 /\ PaddedLen(x) % Block = 0
  BY <1>4, PaddedIs
<1> HIDE DEF n
<1>6. /\ byte(0) = n /\ byte(n) = 0
      /\ \A k \in 1..(n - 1) : byte(k) = timings[k]
      /\ \A k \in (n + 1)..(Metadata - 1) : byte(k) = 255
  BY <1>1
<1> HIDE DEF byte
<1>7. /\ meta[0] = n /\ meta[n] = 0
      /\ \A k \in 1..(n - 1) : meta[k] = timings[k]
      /\ \A k \in (n + 1)..(Metadata - 1) : meta[k] = 255
  <2>1. \A k \in 0..(Metadata - 1) : meta[k] = byte(k)
    OBVIOUS
  <2>2. /\ 0 \in 0..(Metadata - 1) /\ n \in 0..(Metadata - 1)
        /\ 1..(n - 1) \subseteq 0..(Metadata - 1)
        /\ (n + 1)..(Metadata - 1) \subseteq 0..(Metadata - 1)
    BY <1>1
  <2> HIDE DEF meta
  <2>3. meta[0] = n /\ meta[n] = 0
    BY <1>6, <2>1, <2>2
  <2>4. ASSUME NEW k \in 1..(n - 1) PROVE meta[k] = timings[k]
    <3>1. k \in 0..(Metadata - 1)
      BY <2>2
    <3>2. QED
      BY <1>6, <2>1, <3>1
  <2>5. ASSUME NEW k \in (n + 1)..(Metadata - 1) PROVE meta[k] = 255
    <3>1. k \in 0..(Metadata - 1)
      BY <2>2
    <3>2. QED
      BY <1>6, <2>1, <3>1
  <2>6. QED
    BY <2>3, <2>4, <2>5
<1> HIDE DEF meta
<1>8. p.len = PaddedLen(x) /\ p.meta = meta /\ p.frames = frames
  OBVIOUS
<1>9. p # <<>>
  <2>1. "len" \in DOMAIN p
    OBVIOUS
  <2>2. DOMAIN <<>> = {}
    OBVIOUS
  <2> HIDE DEF p
  <2>3. QED
    BY <2>1, <2>2
<1> HIDE DEF p
<1>10. ParseContainer(p) = [timings |-> [k \in 1..(n - 1) |-> meta[k]], frames |-> frames]
  <2>1. p.meta[0] = n /\ Metadata + n * FrameBytes = x
    BY <1>7, <1>8 DEF x
  <2>2. ~ (\/ p.len = 0 \/ p.len % Block # 0 \/ p.len < Metadata
           \/ n \notin 1..MaxFrames
           \/ p.meta[n] # 0
           \/ \E k \in (n + 1)..(Metadata - 1) : p.meta[k] # 255
           \/ x > p.len
           \/ p.len - x >= Block)
    <3>1. ~ (PaddedLen(x) < Metadata) /\ ~ (x > PaddedLen(x)) /\ ~ (PaddedLen(x) - x >= Block)
      <4>1. Block \in Nat
        BY PlanSizes
      <4>2. QED
        BY <1>1, <1>4, <1>5, <4>1
    <3>2. QED
      BY <1>1, <1>5, <1>7, <1>8, <3>1
  <2>3. QED
    BY <1>8, <2>1, <2>2 DEF ParseContainer
<1>11. [k \in 1..(n - 1) |-> meta[k]] = timings
  BY <1>7 DEF n
<1>12. p.len = PaddedLen(Metadata + Len(frames) * FrameBytes) /\ p.meta[0] = Len(frames)
  BY <1>7, <1>8 DEF x, n
<1>13. QED
  BY <1>3, <1>9, <1>10, <1>11, <1>12

(* A stream whose length is not what its reports say is refused. *)
LEMMA WrongLength ==
  ASSUME NEW V, NEW s \in Seq(V), NEW count \in Nat, \A v \in V : v.count = count,
         Len(s) >= 1, Len(s) # count
  PROVE  ~ValidateReports(s)
<1>1. 1 \in DOMAIN s /\ s[1] \in V
  OBVIOUS
<1>2. QED
  BY <1>1 DEF ValidateReports

LEMMA Part ==
  ASSUME NEW V, NEW s \in Seq(V), NEW a \in 1..(Len(s) + 1), NEW b \in 0..Len(s), a <= b + 1
  PROVE  SubSeq(s, a, b) \in Seq(V) /\ Len(SubSeq(s, a, b)) = b - a + 1
OBVIOUS

LEMMA ReportsArrive ==
  ASSUME NEW p, p.len \in Nat, p.len # 0, p.len % Block = 0,
         p.len \div Block \in Nat, p.len \div Block >= 2, p.len \div Block <= MaxReports
  PROVE  LET rs == BuildReports(p)
         IN /\ PayloadFrom(rs) = [i \in 1..(p.len \div Block) |-> i]
            /\ \A i \in DOMAIN rs :
                 /\ ~ValidateReports(RemoveAt(rs, i))
                 /\ ~ValidateReports(InsertAt(rs, i, rs[i]))
                 /\ \A j \in DOMAIN rs \ {i} : ~ValidateReports(Swap(rs, i, j))
<1> DEFINE count == p.len \div Block
           rs == [i \in 1..count |-> [seq |-> i - 1, count |-> count, block |-> i]]
           V == [seq : Nat, count : {count}, block : Nat]
<1>1. count \in Nat /\ count >= 2 /\ count <= MaxReports
  OBVIOUS
<1>2. rs \in [1..count -> V] /\ \A i \in 1..count : /\ rs[i].seq = i - 1
                                                    /\ rs[i].count = count
                                                    /\ rs[i].block = i
  <2> HIDE DEF count
  <2>1. QED
    BY <1>1
<1>3. \A v \in V : v.count = count
  OBVIOUS
<1> HIDE DEF V
<1>4. rs \in Seq(V) /\ Len(rs) = count /\ DOMAIN rs = 1..count
  <2> HIDE DEF rs, count
  <2>1. QED
    BY <1>1, <1>2, SequenceOf
<1>5. ValidateReports(rs)
  <2> HIDE DEF rs, count
  <2>1. QED
    BY <1>1, <1>2, <1>4 DEF ValidateReports
<1>6. BuildReports(p) = rs
  <2>1. ~ (p.len = 0 \/ p.len % Block # 0 \/ count > MaxReports \/ ~ValidateReports(rs))
    <3> HIDE DEF rs
    <3>1. MaxReports \in Nat
      BY PlanSizes
    <3>2. QED
      BY <1>1, <1>5, <3>1
  <2>2. QED
    BY <2>1 DEF BuildReports
<1>7. PayloadFrom(rs) = [i \in 1..count |-> i]
  <2> HIDE DEF rs, count
  <2>1. PayloadFrom(rs) = [i \in 1..count |-> rs[i].block]
    BY <1>4, <1>5 DEF PayloadFrom
  <2>2. QED
    BY <1>2, <2>1
<1> HIDE DEF rs, count
<1>8. ASSUME NEW i \in 1..count
      PROVE  /\ ~ValidateReports(RemoveAt(rs, i))
             /\ ~ValidateReports(InsertAt(rs, i, rs[i]))
             /\ \A j \in 1..count \ {i} : ~ValidateReports(Swap(rs, i, j))
  <2>1. /\ i \in 1..(Len(rs) + 1) /\ i + 1 \in 1..(Len(rs) + 1) /\ 1 \in 1..(Len(rs) + 1)
        /\ i - 1 \in 0..Len(rs) /\ Len(rs) \in 0..Len(rs)
    BY <1>1, <1>4
  <2>2. /\ SubSeq(rs, 1, i - 1) \in Seq(V) /\ Len(SubSeq(rs, 1, i - 1)) = i - 1
        /\ SubSeq(rs, i + 1, Len(rs)) \in Seq(V) /\ Len(SubSeq(rs, i + 1, Len(rs))) = count - i
        /\ SubSeq(rs, i, Len(rs)) \in Seq(V) /\ Len(SubSeq(rs, i, Len(rs))) = count - i + 1
    <3>1. 1 <= (i - 1) + 1 /\ i + 1 <= Len(rs) + 1 /\ i <= Len(rs) + 1
      BY <1>1, <1>4
    <3>2. SubSeq(rs, 1, i - 1) \in Seq(V) /\ Len(SubSeq(rs, 1, i - 1)) = (i - 1) - 1 + 1
      BY <1>4, <2>1, <3>1, Part
    <3>3. /\ SubSeq(rs, i + 1, Len(rs)) \in Seq(V)
          /\ Len(SubSeq(rs, i + 1, Len(rs))) = Len(rs) - (i + 1) + 1
      BY <1>4, <2>1, <3>1, Part
    <3>4. SubSeq(rs, i, Len(rs)) \in Seq(V) /\ Len(SubSeq(rs, i, Len(rs))) = Len(rs) - i + 1
      BY <1>4, <2>1, <3>1, Part
    <3>5. QED
      BY <1>1, <1>4, <3>2, <3>3, <3>4
  <2>3. RemoveAt(rs, i) \in Seq(V) /\ Len(RemoveAt(rs, i)) = count - 1
    <3>1. RemoveAt(rs, i) = SubSeq(rs, 1, i - 1) \o SubSeq(rs, i + 1, Len(rs))
      BY DEF RemoveAt
    <3>2. /\ RemoveAt(rs, i) \in Seq(V)
          /\ Len(RemoveAt(rs, i)) = Len(SubSeq(rs, 1, i - 1)) + Len(SubSeq(rs, i + 1, Len(rs)))
      BY <2>2, <3>1, Joined
    <3>3. i \in Nat /\ (i - 1) + (count - i) = count - 1
      BY <1>1
    <3>4. QED
      BY <2>2, <3>2, <3>3
  <2>4. InsertAt(rs, i, rs[i]) \in Seq(V) /\ Len(InsertAt(rs, i, rs[i])) = count + 1
    <3> DEFINE one == <<rs[i]>>
               left == SubSeq(rs, 1, i - 1)
               right == SubSeq(rs, i, Len(rs))
    <3>1. one \in Seq(V) /\ Len(one) = 1
      BY <1>2
    <3>2. InsertAt(rs, i, rs[i]) = (left \o one) \o right
      BY DEF InsertAt
    <3>3. left \in Seq(V) /\ Len(left) = i - 1 /\ right \in Seq(V) /\ Len(right) = count - i + 1
      BY <2>2
    <3> HIDE DEF one, left, right
    <3>4. left \o one \in Seq(V) /\ Len(left \o one) = Len(left) + Len(one)
      BY <3>1, <3>3, Joined
    <3>5. /\ (left \o one) \o right \in Seq(V)
          /\ Len((left \o one) \o right) = Len(left \o one) + Len(right)
      BY <3>3, <3>4, Joined
    <3>6. QED
      BY <1>1, <3>1, <3>2, <3>3, <3>4, <3>5
  <2>5. ~ValidateReports(RemoveAt(rs, i))
    BY <1>1, <1>3, <2>3, WrongLength
  <2>6. ~ValidateReports(InsertAt(rs, i, rs[i]))
    BY <1>1, <1>3, <2>4, WrongLength
  <2>7. ASSUME NEW j \in 1..count \ {i} PROVE ~ValidateReports(Swap(rs, i, j))
    <3> DEFINE s == Swap(rs, i, j)
    <3>1. j \in DOMAIN s /\ s[j] = rs[i]
      BY <1>4 DEF Swap
    <3>2. rs[i].seq # j - 1
      BY <1>2
    <3> HIDE DEF s
    <3>3. ~ValidateReports(s)
      BY <3>1, <3>2 DEF ValidateReports
    <3>4. QED
      BY <3>3 DEF s
  <2>8. QED
    BY <2>5, <2>6, <2>7
<1>9. QED
  BY <1>4, <1>6, <1>7, <1>8 DEF count

(* The container and the reports that are built are accepted and carry what *)
(* was planned, and a stream that has lost, doubled or exchanged a report   *)
(* is refused (container.rs, report.rs).                                    *)
THEOREM Arrives == PlanSpec => []ContainerArrives
<1>1. PlanInv => ContainerArrives
  <2> SUFFICES ASSUME PlanInv, Done PROVE ContainerArrives
    BY DEF ContainerArrives
  <2>1. PlanTypes /\ Planned /\ payload = BuildContainer(Expanded, Delays)
    BY DEF PlanInv, Done
  <2> DEFINE n == Len(Expanded)
             x == Metadata + n * FrameBytes
  <2>2. Expanded \in Seq(Nat) /\ n = Total(Repeats(slots)) /\ n \in Nat \ {0} /\ n <= 250
    <3>1. Expanded \in Seq(Nat) /\ n = Total(Repeats(slots)) /\ n \in 1..cap
      BY <2>1, ExpandedType
    <3>2. cap \in Nat /\ cap <= 250
      BY <2>1 DEF PlanTypes
    <3> HIDE DEF n
    <3>3. n \in Nat \ {0} /\ n <= 250
      BY <3>1, <3>2
    <3>4. QED
      BY <3>1, <3>3
  <2>3. Delays \in [1..(n - 1) -> {tick}]
    BY DEF Delays
  <2>4. /\ payload # <<>> /\ payload.len = PaddedLen(x) /\ payload.meta[0] = n
        /\ ParseContainer(payload) = [timings |-> Delays, frames |-> Expanded]
    BY <2>1, <2>2, <2>3, ReadBack
  <2>5. x \in Nat /\ x > Block /\ x <= MaxReports * Block
    BY <2>2, ContainerSize
  <2> HIDE DEF x, n
  <2>6. /\ payload.len \in Nat /\ payload.len # 0 /\ payload.len % Block = 0
        /\ payload.len \div Block \in Nat /\ payload.len \div Block >= 2
        /\ payload.len \div Block <= MaxReports
    BY <2>4, <2>5, PaddedIs
  <2> DEFINE rs == BuildReports(payload)
  <2>7. /\ PayloadFrom(rs) = [i \in 1..(payload.len \div Block) |-> i]
        /\ \A i \in DOMAIN rs :
             /\ ~ValidateReports(RemoveAt(rs, i))
             /\ ~ValidateReports(InsertAt(rs, i, rs[i]))
             /\ \A j \in DOMAIN rs \ {i} : ~ValidateReports(Swap(rs, i, j))
    BY <2>6, ReportsArrive
  <2>8. QED
    BY <2>2, <2>4, <2>7 DEF ContainerArrives
<1> QED
  BY PlanInductive, <1>1, PTL

---------------------------------------------------------------------------
(* Which frames are shown. *)

LEMMA ShownIs ==
  ASSUME Len(slots) \in Nat, DOMAIN slots = 1..Len(slots),
         \A k \in 1..Len(slots) : slots[k].frame = k /\ slots[k].n \in Nat,
         NEW i \in 1..Len(slots)
  PROVE  Shown(i) = slots[i].n
<1> DEFINE m == Len(slots)
           s == [k \in 1..m |-> IF slots[k].frame = i THEN slots[k].n ELSE 0]
<1>1. Shown(i) = Total(s)
  BY DEF Shown
<1>2. /\ s \in [1..m -> Nat]
      /\ s[i] = slots[i].n
      /\ \A k \in 1..m : k # i => s[k] = 0
  OBVIOUS
<1> HIDE DEF s
<1>3. s \in Seq(Nat) /\ Len(s) = m
  BY <1>2, SequenceOf
<1>4. Total(s) = s[i]
  BY <1>2, <1>3, TotalSingle
<1>5. QED
  BY <1>1, <1>2, <1>4

(* So many steps of n over c frames are neither too close nor too far apart.*)
LEMMA Spread ==
  ASSUME NEW n \in Nat \ {0}, NEW c \in Nat \ {0}, c <= n, NEW a \in Nat
  PROVE  LET gap == (n + c - 1) \div c
             q == (a * n) \div c
             next == ((a + 1) * n) \div c
         IN gap \in Nat /\ q \in Nat /\ next \in Nat /\ next - q >= 1 /\ next - q <= gap
<1> DEFINE g == (n + c - 1) \div c
           q == (a * n) \div c
           p == ((a + 1) * n) \div c
<1>1. a * n \in Nat /\ (a + 1) * n = a * n + n /\ (a + 1) * n \in Nat /\ n + c - 1 \in Nat
  OBVIOUS
<1>2. g \in Nat /\ c * g \in Nat /\ n + c - 1 < c * g + c
  BY <1>1, QuotientBounds
<1>3. q \in Nat /\ c * q \in Nat /\ c * q <= a * n /\ a * n < c * q + c
  BY <1>1, QuotientBounds
<1>4. p \in Nat
  BY <1>1, QuotientBounds
<1> DEFINE x == a * n
           y == (a + 1) * n
<1>5. x \in Nat /\ y = x + n /\ y \in Nat
  BY <1>1
<1>6. q + 1 <= p
  <2> HIDE DEF q
  <2>1. c * (q + 1) = c * q + c /\ q + 1 \in Nat
    BY <1>3
  <2>2. c * (q + 1) <= y
    <3> HIDE DEF y
    <3>1. c * q <= x
      BY <1>3
    <3> HIDE DEF x
    <3>2. QED
      BY <1>3, <1>5, <2>1, <3>1
  <2> HIDE DEF x
  <2>3. QED
    BY <1>5, <2>1, <2>2, QuotientAtLeast
<1>7. p < q + 1 + g
  <2> HIDE DEF q, g
  <2>1. c * (q + 1 + g) = c * q + c + c * g /\ q + 1 + g \in Nat
    BY <1>2, <1>3
  <2>2. y < c * (q + 1 + g)
    <3>1. x < c * q + c
      BY <1>3
    <3> HIDE DEF x, y
    <3>2. QED
      BY <1>2, <1>3, <1>5, <2>1, <3>1
  <2> HIDE DEF x
  <2>3. QED
    BY <1>5, <2>1, <2>2, QuotientBelow
<1>8. QED
  <2> HIDE DEF p, q, g
  <2>1. p - q >= 1 /\ p - q <= g
    BY <1>2, <1>3, <1>4, <1>6, <1>7
  <2>2. QED
    BY <1>2, <1>3, <1>4, <2>1 DEF p, q, g

(* The last of them is not far from the end. *)
LEMMA SpreadToTheEnd ==
  ASSUME NEW n \in Nat \ {0}, NEW c \in Nat \ {0}
  PROVE  n - (((c - 1) * n) \div c + 1) < (n + c - 1) \div c
<1> DEFINE g == (n + c - 1) \div c
           x == (c - 1) * n
           q == x \div c
<1>1. n + c - 1 \in Nat /\ x \in Nat /\ x = c * n - n /\ c * n \in Nat
  OBVIOUS
<1>2. g \in Nat /\ c * g \in Nat /\ n + c - 1 < c * g + c
  BY <1>1, QuotientBounds
<1>3. q \in Nat
  BY <1>1, QuotientBounds
<1> HIDE DEF g
<1>4. CASE g > n
  <2> HIDE DEF q
  <2>1. n - (q + 1) < g
    BY <1>2, <1>3, <1>4
  <2>2. QED
    BY <2>1 DEF q, g, x
<1>5. CASE g <= n
  <2>1. n - g \in Nat /\ c * (n - g) = c * n - c * g
    BY <1>2, <1>5
  <2>2. c * (n - g) <= x
    <3> HIDE DEF x
    <3>1. QED
      BY <1>1, <1>2, <2>1
  <2> HIDE DEF x
  <2>3. n - g <= q
    BY <1>1, <2>1, <2>2, QuotientAtLeast
  <2> HIDE DEF q
  <2>4. n - (q + 1) < g
    BY <1>2, <1>3, <2>3
  <2>5. QED
    BY <2>4 DEF q, g, x
<1>6. QED
  BY <1>2, <1>4, <1>5

LEMMA OneGap ==
  ASSUME NEW n \in Nat \ {0}, NEW c \in Nat, n < c
  PROVE  (n + c - 1) \div c = 1
<1>1. n + c - 1 \in Nat /\ c \in Nat \ {0} /\ n - 1 \in 0..(c - 1) /\ n + c - 1 = c * 1 + (n - 1)
  OBVIOUS
<1>2. QED
  BY <1>1, QuotientIs

(* WholeLoopShown for a plan that has a slot at least for each frame. *)
LEMMA AllAreShown ==
  ASSUME PlanTypes, Planned, Len(given) < cap,
         Len(slots) = Len(given),
         \A k \in 1..Len(slots) : slots[k].frame = k,
         \A i, j \in 1..Len(given) : Held[i] <= Held[j] => slots[i].n <= slots[j].n + 1
  PROVE  WholeLoopShown
<1> DEFINE n == Len(given)
<1>1. given \in Seq(Nat) /\ n \in Nat \ {0} /\ cap \in Nat \ {0} /\ DOMAIN given = 1..n
  BY DEF PlanTypes
<1>2. /\ Len(slots) = n /\ DOMAIN slots = 1..n
      /\ \A k \in 1..n : slots[k].frame = k /\ slots[k].n \in Nat \ {0}
  <2> HIDE DEF n
  <2>1. Len(slots) = n
    BY DEF n
  <2>2. QED
    BY <2>1, PlannedSlots
<1>3. Len(Expanded) <= cap
  <2>1. Len(Expanded) \in 1..cap
    BY ExpandedType
  <2>2. QED
    BY <1>1, <2>1
<1>4. (n + cap - 1) \div cap = 1
  BY <1>1, OneGap
<1> HIDE DEF n
<1>5. \A i \in 1..n : Shown(i) = slots[i].n
  BY <1>1, <1>2, ShownIs
<1>6. \A i, j \in 1..n : Held[i] <= Held[j] => Shown(i) <= Shown(j) + 1
  BY <1>5 DEF n
<1>7. \A k \in 1..(n - 1) : slots[k + 1].frame - slots[k].frame \in 1..1
  <2> SUFFICES ASSUME NEW k \in 1..(n - 1) PROVE slots[k + 1].frame - slots[k].frame \in 1..1
    OBVIOUS
  <2>1. k \in 1..n /\ k + 1 \in 1..n /\ k \in Nat
    BY <1>1
  <2>2. slots[k + 1].frame = k + 1 /\ slots[k].frame = k
    BY <1>2, <2>1
  <2>3. QED
    BY <2>1, <2>2
<1>8. slots[1].frame = 1 /\ n - slots[n].frame < 1
  <2>1. 1 \in 1..n /\ n \in 1..n
    BY <1>1
  <2>2. QED
    BY <1>1, <1>2, <2>1
<1>9. \A k \in 1..n : slots[k].n >= 1
  BY <1>2
<1>10. QED
  BY <1>1, <1>2, <1>3, <1>4, <1>6, <1>7, <1>8, <1>9 DEF WholeLoopShown, n

(* "Never drop a frame from the loop while the budget can hold them all"    *)
(* (plan_timing), and of more frames than that, some that are evenly spread;*)
(* the budget holds, and a longer frame is not shown shorter than a shorter *)
(* one but for one slot.                                                    *)
THEOREM LoopShown == PlanSpec => []WholeLoopShown
<1>1. PlanInv => WholeLoopShown
  <2> SUFFICES ASSUME PlanInv, Animated PROVE WholeLoopShown
    BY DEF WholeLoopShown
  <2>1. PlanTypes /\ Planned
    BY DEF PlanInv, Animated, Done
  <2> DEFINE n == Len(given)
  <2>2. given \in Seq(Nat) /\ n \in Nat \ {0} /\ cap \in Nat \ {0} /\ DOMAIN given = 1..n
    BY <2>1 DEF PlanTypes
  <2>3. ~PlannedStill
    BY DEF PlannedStill, Several, Animated
  <2>4. CASE PlannedDecimated
    <3> DEFINE f(k) == ((k - 1) * n) \div cap
               gap == (n + cap - 1) \div cap
    <3>1. cap <= n /\ slots = [k \in 1..cap |-> [frame |-> f(k) + 1, n |-> 1]]
      BY <2>2, <2>4 DEF PlannedDecimated, Chosen
    <3>2. Len(Expanded) <= cap
      <4>1. Len(Expanded) \in 1..cap
        BY <2>1, ExpandedType
      <4>2. QED
        BY <2>2, <4>1
    <3>3. \A k \in 1..cap : slots[k].frame = f(k) + 1 /\ slots[k].n = 1
      <4> HIDE DEF f
      <4>1. QED
        BY <3>1
    <3>4. DOMAIN slots = 1..cap /\ Len(slots) = cap
      <4>1. DOMAIN slots = 1..cap
        BY <3>1
      <4>2. Len(slots) \in Nat \ {0} /\ DOMAIN slots = 1..Len(slots)
        BY <2>1, PlannedSlots
      <4>3. cap \in 1..Len(slots) /\ Len(slots) \in 1..cap
        BY <2>2, <4>1, <4>2
      <4>4. QED
        BY <2>2, <4>1, <4>2, <4>3
    <3>5. \A k \in 1..(cap - 1) : slots[k + 1].frame - slots[k].frame \in 1..gap
      <4> SUFFICES ASSUME NEW k \in 1..(cap - 1)
                   PROVE  slots[k + 1].frame - slots[k].frame \in 1..gap
        OBVIOUS
      <4>1. k \in 1..cap /\ k + 1 \in 1..cap /\ k - 1 \in Nat /\ (k - 1) + 1 = (k + 1) - 1
        BY <2>2
      <4>2. /\ gap \in Nat /\ f(k) \in Nat /\ f(k + 1) \in Nat
            /\ f(k + 1) - f(k) >= 1 /\ f(k + 1) - f(k) <= gap
        <5> HIDE DEF n
        <5>1. /\ gap \in Nat
              /\ ((k - 1) * n) \div cap \in Nat /\ (((k - 1) + 1) * n) \div cap \in Nat
              /\ (((k - 1) + 1) * n) \div cap - ((k - 1) * n) \div cap >= 1
              /\ (((k - 1) + 1) * n) \div cap - ((k - 1) * n) \div cap <= gap
          BY <2>2, <3>1, <4>1, Spread
        <5>2. QED
          BY <4>1, <5>1
      <4>3. slots[k].frame = f(k) + 1 /\ slots[k + 1].frame = f(k + 1) + 1
        BY <3>3, <4>1
      <4> HIDE DEF f, gap
      <4>4. QED
        BY <4>2, <4>3
    <3>6. slots[1].frame = 1
      <4>1. 1 \in 1..cap /\ (1 - 1) * n = 0 /\ 0 \div cap = 0
        <5>1. 0 = cap * 0 + 0 /\ 0 \in 0..(cap - 1)
          BY <2>2
        <5>2. 0 \div cap = 0
          BY <2>2, <5>1, QuotientIs
        <5>3. QED
          BY <2>2, <5>2
      <4>2. slots[1].frame = f(1) + 1
        BY <3>3, <4>1
      <4>3. f(1) = 0
        BY <4>1
      <4> HIDE DEF f
      <4>4. QED
        BY <4>2, <4>3
    <3>7. n - slots[cap].frame < gap
      <4>1. cap \in 1..cap
        BY <2>2
      <4>2. slots[cap].frame = f(cap) + 1
        BY <3>3, <4>1
      <4>3. n - (f(cap) + 1) < gap
        BY <2>2, SpreadToTheEnd
      <4> HIDE DEF f, gap
      <4>4. QED
        BY <4>2, <4>3
    <3>8. \A k \in 1..cap : slots[k].n >= 1
      BY <3>3
    <3>9. ~ (n < cap)
      BY <2>2, <3>1
    <3> HIDE DEF f
    <3>10. QED
      BY <3>2, <3>4, <3>5, <3>6, <3>7, <3>8, <3>9 DEF WholeLoopShown
  <2>5. CASE PlannedExact
    <3>1. n < cap /\ slots = AsSlots(ExactRepeats)
      BY <2>5 DEF PlannedExact
    <3>2. /\ ExactRepeats \in Seq(Nat \ {0}) /\ Len(ExactRepeats) = n
          /\ \A i \in 1..n : ExactRepeats[i] \in Nat
          /\ \A i, j \in 1..n : Held[i] <= Held[j] => ExactRepeats[i] <= ExactRepeats[j]
      BY <2>1, ExactRepeatsType
    <3>3. /\ Len(slots) = n
          /\ \A k \in 1..n : slots[k].frame = k /\ slots[k].n = ExactRepeats[k]
      <4> DEFINE e == ExactRepeats
      <4> HIDE DEF e
      <4>1. e \in Seq(Nat \ {0}) /\ Len(e) = n /\ slots = AsSlots(e)
        BY <3>1, <3>2 DEF e
      <4>2. Len(slots) = n /\ \A k \in 1..n : slots[k].frame = k /\ slots[k].n = e[k]
        BY <4>1, SlotsOf
      <4>3. QED
        BY <4>2 DEF e
    <3>4. \A i, j \in 1..n : Held[i] <= Held[j] => slots[i].n <= slots[j].n + 1
      BY <3>2, <3>3
    <3>5. QED
      BY <2>1, <3>1, <3>3, <3>4, AllAreShown
  <2>6. CASE PlannedTrimmed
    <3>1. n < cap /\ Shared
      BY <2>6 DEF PlannedTrimmed
    <3>2. Len(slots) = n /\ \A i, j \in 1..n : Held[i] <= Held[j] => slots[i].n <= slots[j].n + 1
      BY <3>1 DEF Shared
    <3>3. \A k \in 1..Len(slots) : slots[k].frame = k
      BY <3>1, SharedSlots
    <3>4. QED
      BY <2>1, <3>1, <3>2, <3>3, AllAreShown
  <2>7. QED
    BY <2>1, <2>3, <2>4, <2>5, <2>6 DEF Planned
<1> QED
  BY PlanInductive, <1>1, PTL

---------------------------------------------------------------------------
(* How long they are shown. *)

(* The tick that shares the loop out over n slots. *)
LEMMA TickShares ==
  ASSUME NEW sum \in Nat, NEW n \in Nat \ {0}, n <= sum
  PROVE  LET t == Clamp(sum \div n, 1, MaxTick)
         IN t \in Nat /\ n * t <= sum /\ (t < MaxTick => sum - n * t < n)
<1> DEFINE q == sum \div n
           t == Clamp(q, 1, MaxTick)
<1>1. q \in Nat /\ n * q \in Nat /\ n * q <= sum /\ sum < n * q + n
  BY QuotientBounds
<1>2. 1 <= q
  <2>1. n * 1 <= sum
    OBVIOUS
  <2>2. QED
    BY <2>1, QuotientAtLeast
<1> HIDE DEF q
<1>3. MaxTick \in Nat \ {0} /\ t \in 1..MaxTick /\ t = IF q > MaxTick THEN MaxTick ELSE q
  BY <1>1, <1>2, PlanSizes, Clamped
<1> HIDE DEF t
<1>4. t \in Nat /\ t <= q /\ (t < MaxTick => t = q)
  BY <1>1, <1>3
<1>5. n * t <= n * q /\ n * t \in Nat
  BY <1>1, <1>4, Multiplied
<1>6. n * t <= sum
  BY <1>1, <1>5
<1>7. t < MaxTick => sum - n * t < n
  BY <1>1, <1>4
<1>8. QED
  BY <1>4, <1>6, <1>7 DEF t, q

(* What divides all durations, and is followed by nothing that does, is     *)
(* their greatest common divisor.                                           *)
LEMMA GreatestIs ==
  ASSUME PlanTypes, NEW t \in 1..MaxTick, Divides(t),
         \A u \in (t + 1)..Held[1] : ~Divides(u)
  PROVE  t = HeldGcd
<1> DEFINE n == Len(given)
<1>1. given \in Seq(Nat) /\ n \in Nat \ {0}
  BY DEF PlanTypes
<1>2. DOMAIN Held = 1..n /\ \A i \in 1..n : Held[i] \in Nat \ {0}
  BY <1>1, HeldType
<1>3. /\ HeldGcd \in Nat \ {0}
      /\ \A i \in 1..n : Of(HeldGcd, Held[i])
      /\ \A d \in Nat \ {0} : (\A i \in 1..n : Of(d, Held[i])) => Of(d, HeldGcd)
  BY ExactType
<1>4. t \in Nat \ {0}
  BY PlanSizes
<1> HIDE DEF n
<1>5. ASSUME NEW i \in 1..n PROVE Of(t, Held[i])
  <2>1. Held[i] \in Nat /\ Held[i] % t = 0
    BY <1>2 DEF Divides
  <2>2. Held[i] = t * (Held[i] \div t) + (Held[i] % t) /\ Held[i] \div t \in Nat
    BY <1>4, <2>1, Quotient
  <2>3. Held[i] = t * (Held[i] \div t)
    <3>1. t * (Held[i] \div t) \in Nat
      BY <1>4, <2>2
    <3>2. QED
      BY <2>1, <2>2, <3>1
  <2>4. QED
    BY <2>2, <2>3 DEF Of
<1>6. t <= HeldGcd
  <2>1. Of(t, HeldGcd)
    BY <1>3, <1>4, <1>5
  <2>2. QED
    BY <1>3, <1>4, <2>1, OfSmaller
<1>7. Divides(HeldGcd)
  <2>1. \A i \in 1..n : Held[i] % HeldGcd = 0
    BY <1>2, <1>3, OfSmaller
  <2>2. QED
    BY <1>2, <2>1 DEF Divides
<1>8. HeldGcd <= Held[1] /\ Held[1] \in Nat
  <2>1. 1 \in 1..n
    BY <1>1
  <2>2. QED
    BY <1>2, <1>3, <2>1, OfSmaller
<1>9. ~ (HeldGcd \in (t + 1)..Held[1])
  BY <1>7
<1>10. QED
  BY <1>3, <1>4, <1>6, <1>8, <1>9

(* The loop is as long as the source's, but for what whole milliseconds and *)
(* the largest delay byte leave; and where the greatest common divisor of   *)
(* the durations is a delay byte and the budget holds the slots, each frame *)
(* is shown for exactly its duration (plan_timing).                         *)
THEOREM LengthKept == PlanSpec => []LoopLengthKept
<1>1. PlanInv => LoopLengthKept
  <2> SUFFICES ASSUME PlanInv, Animated PROVE LoopLengthKept
    BY DEF LoopLengthKept
  <2>1. PlanTypes /\ Planned
    BY DEF PlanInv, Animated, Done
  <2> DEFINE g == Len(given)
             n == Len(Expanded)
             sum == Total(Held)
             half == (MaxTick + 1) \div 2
             Bounded == /\ n * tick <= sum + (IF tick = MaxTick THEN n + g * half ELSE 0)
                        /\ tick < MaxTick => sum - n * tick < n
             Kept == g < cap =>
                       \A t \in 1..MaxTick :
                         Divides(t) /\ (\A u \in (t + 1)..Held[1] : ~Divides(u)) /\ Fits(t) =>
                           \A i \in DOMAIN Held : Shown(i) * tick = Held[i]
  <2>2. SUFFICES Bounded /\ Kept
    BY DEF LoopLengthKept, LengthBounded, DurationsKept
  <2>3. given \in Seq(Nat) /\ g \in Nat \ {0} /\ cap \in Nat \ {0}
    BY <2>1 DEF PlanTypes
  <2>4. /\ Held \in Seq(Nat) /\ Held \in Seq(Nat \ {0}) /\ Len(Held) = g /\ DOMAIN Held = 1..g
        /\ \A i \in 1..g : Held[i] \in Nat \ {0}
    BY <2>3, HeldType
  <2>5. sum \in Nat /\ sum >= g
    BY <2>4, TotalPositive
  <2>6. n = Total(Repeats(slots)) /\ n \in 1..cap /\ n \in Nat \ {0}
    <3>1. n = Total(Repeats(slots)) /\ n \in 1..cap
      BY <2>1, ExpandedType
    <3> HIDE DEF n
    <3>2. QED
      BY <2>3, <3>1
  <2>7. /\ MaxTick \in Nat \ {0} /\ half \in Nat
    BY PlanSizes
  <2>8. g * half \in Nat
    <3> HIDE DEF g, half
    <3>1. QED
      BY <2>3, <2>7
  <2>9. ASSUME n <= sum, tick = Clamp(sum \div n, 1, MaxTick) PROVE Bounded
    <3> HIDE DEF n, sum, half, g
    <3>1. tick \in Nat /\ n * tick <= sum /\ (tick < MaxTick => sum - n * tick < n)
      BY <2>5, <2>6, <2>9, TickShares
    <3>2. n * tick \in Nat
      BY <2>6, <3>1
    <3>3. QED
      BY <2>5, <2>6, <2>8, <3>1, <3>2
  <2>10. ~PlannedStill
    BY DEF PlannedStill, Several, Animated
  <2>11. CASE PlannedDecimated
    <3>1. cap <= g /\ Chosen /\ tick = Clamp(sum \div cap, 1, MaxTick)
      BY <2>3, <2>11 DEF PlannedDecimated
    <3>2. n = cap
      <4> DEFINE r == Repeats(slots)
      <4>1. DOMAIN slots = 1..cap /\ \A k \in 1..cap : slots[k].n = 1
        BY <3>1 DEF Chosen
      <4>2. r = [k \in 1..cap |-> slots[k].n]
        BY <4>1 DEF Repeats
      <4>3. r \in [1..cap -> Nat] /\ \A k \in 1..cap : r[k] = 1
        BY <4>1, <4>2
      <4> HIDE DEF r, n
      <4>4. r \in Seq(Nat) /\ Len(r) = cap
        BY <2>3, <4>3, SequenceOf
      <4>5. Total(r) = cap
        BY <4>3, <4>4, TotalOnes
      <4>6. QED
        BY <2>6, <4>5 DEF r
    <3>3. Bounded
      <4> HIDE DEF n, sum, g, Bounded
      <4>1. QED
        BY <2>3, <2>5, <2>9, <3>1, <3>2
    <3>4. Kept
      <4> HIDE DEF g
      <4>1. QED
        BY <2>3, <3>1
    <3>5. QED
      BY <3>3, <3>4
  <2>12. CASE PlannedExact
    <3> DEFINE er == ExactRepeats
    <3>1. g < cap /\ slots = AsSlots(er) /\ tick = GcdTick
      BY <2>12 DEF PlannedExact
    <3>2. /\ er \in Seq(Nat \ {0}) /\ er \in Seq(Nat) /\ Len(er) = g
          /\ \A i \in 1..g : er[i] \in Nat \ {0}
          /\ HeldGcd <= MaxTick => \A i \in 1..g : er[i] * GcdTick = Held[i]
          /\ HeldGcd > MaxTick => \A i \in 1..g : er[i] * GcdTick <= Held[i] + half
      BY <2>1, ExactRepeatsType
    <3>3. /\ Len(slots) = g /\ DOMAIN slots = 1..g /\ Repeats(slots) = er
          /\ \A i \in 1..g : slots[i].frame = i /\ slots[i].n = er[i]
      <4> HIDE DEF er, g
      <4>1. QED
        BY <3>1, <3>2, SlotsOf, Zenon
    <3>4. n = Total(er)
      BY <2>6, <3>3
    <3>5. HeldGcd \in Nat \ {0} /\ GcdTick = IF HeldGcd > MaxTick THEN MaxTick ELSE HeldGcd
      BY <2>1, ExactType
    <3>6. tick \in Nat \ {0}
      BY <2>7, <3>1, <3>5
    <3> HIDE DEF er, g, half, n, sum
    <3>7. CASE HeldGcd <= MaxTick
      <4>1. \A i \in 1..g : er[i] * tick = Held[i]
        BY <3>1, <3>2, <3>7
      <4>2. n * tick <= sum + g * 0
        <5>1. \A i \in 1..Len(er) : er[i] * tick <= Held[i] + 0
          BY <2>4, <3>2, <4>1
        <5>2. Total(er) * tick <= Total(Held) + Len(er) * 0
          BY <2>4, <3>2, <3>6, <5>1, TotalScaled
        <5>3. QED
          BY <3>2, <3>4, <5>2 DEF sum
      <4>3. sum <= n * tick
        <5>1. \A i \in 1..Len(er) : Held[i] <= er[i] * tick
          BY <2>4, <3>2, <4>1
        <5>2. Total(Held) <= Total(er) * tick
          BY <2>4, <3>2, <3>6, <5>1, TotalAtLeast
        <5>3. QED
          BY <3>4, <5>2 DEF sum
      <4>4. n * tick = sum
        <5>1. n * tick \in Nat /\ g * 0 = 0
          BY <2>3, <2>6, <3>6
        <5>2. QED
          BY <2>5, <4>2, <4>3, <5>1
      <4>5. Bounded
        BY <2>5, <2>6, <2>8, <4>4
      <4>6. \A i \in 1..g : Shown(i) * tick = Held[i]
        <5>1. \A i \in 1..g : Shown(i) = er[i]
          BY <2>3, <3>2, <3>3, ShownIs, Zenon
        <5>2. QED
          BY <4>1, <5>1
      <4>7. Kept
        BY <2>4, <4>6
      <4>8. QED
        BY <4>5, <4>7
    <3>8. CASE HeldGcd > MaxTick
      <4>1. tick = MaxTick /\ \A i \in 1..g : er[i] * tick <= Held[i] + half
        BY <3>1, <3>2, <3>5, <3>8
      <4>2. n * tick <= sum + g * half
        <5>1. \A i \in 1..Len(er) : er[i] * tick <= Held[i] + half
          BY <3>2, <4>1
        <5>2. Total(er) * tick <= Total(Held) + Len(er) * half
          BY <2>4, <2>7, <3>2, <3>6, <5>1, TotalScaled
        <5>3. QED
          BY <3>2, <3>4, <5>2 DEF sum
      <4>3. Bounded
        <5>1. n * tick \in Nat
          BY <2>6, <3>6
        <5>2. n * tick <= sum + (n + g * half)
          BY <2>5, <2>6, <2>8, <4>2, <5>1
        <5>3. ~ (tick < MaxTick)
          BY <2>7, <4>1
        <5>4. QED
          BY <4>1, <5>2, <5>3
      <4>4. Kept
        <5> SUFFICES ASSUME NEW t \in 1..MaxTick, Divides(t),
                            \A u \in (t + 1)..Held[1] : ~Divides(u)
                     PROVE  FALSE
          OBVIOUS
        <5>1. t = HeldGcd
          BY <2>1, GreatestIs
        <5>2. QED
          BY <2>7, <3>5, <3>8, <5>1
      <4>5. QED
        BY <4>3, <4>4
    <3>9. QED
      BY <2>7, <3>5, <3>7, <3>8
  <2>13. CASE PlannedTrimmed
    <3> DEFINE er == ExactRepeats
    <3>1. /\ g < cap /\ Total(er) > cap
          /\ tick = Clamp(sum \div AtLeastOne(Total(Repeats(slots))), 1, MaxTick)
      BY <2>13 DEF PlannedTrimmed
    <3>2. /\ er \in Seq(Nat) /\ Len(er) = g /\ DOMAIN er = 1..g
          /\ \A i \in 1..g : er[i] \in Nat /\ er[i] <= Held[i]
          /\ HeldGcd <= MaxTick => \A i \in 1..g : er[i] = Held[i] \div GcdTick
      BY <2>1, ExactRepeatsType
    <3>3. AtLeastOne(Total(Repeats(slots))) = n
      <4> HIDE DEF n
      <4>1. QED
        BY <2>6 DEF AtLeastOne
    <3> HIDE DEF er, g, half, n, sum
    <3>4. n <= sum
      <4>1. \A i \in 1..Len(Held) : er[i] <= Held[i] * 1
        BY <2>4, <3>2
      <4>2. Total(er) <= Total(Held) * 1 /\ Total(er) \in Nat
        BY <2>4, <3>2, <4>1, TotalAtLeast, TotalNat
      <4>3. QED
        BY <2>3, <2>5, <2>6, <3>1, <4>2 DEF sum
    <3>5. Bounded
      <4> HIDE DEF Bounded
      <4>1. QED
        BY <2>9, <3>1, <3>3, <3>4
    <3>6. Kept
      <4> SUFFICES ASSUME NEW t \in 1..MaxTick, Divides(t),
                          \A u \in (t + 1)..Held[1] : ~Divides(u), Fits(t)
                   PROVE  FALSE
        OBVIOUS
      <4>1. t = HeldGcd
        BY <2>1, GreatestIs
      <4>2. HeldGcd \in Nat \ {0} /\ GcdTick = IF HeldGcd > MaxTick THEN MaxTick ELSE HeldGcd
        BY <2>1, ExactType
      <4>3. HeldGcd <= MaxTick /\ GcdTick = t
        BY <2>7, <4>1, <4>2
      <4>4. er = [i \in DOMAIN Held |-> Held[i] \div t]
        <5>1. \A i \in 1..g : er[i] = Held[i] \div t
          BY <3>2, <4>3
        <5>2. er = [i \in 1..g |-> er[i]]
          <6>1. er \in [1..g -> Nat]
            BY <3>2
          <6>2. QED
            BY <6>1
        <5>3. QED
          BY <2>4, <5>1, <5>2
      <4>5. Total(er) <= cap
        BY <4>4 DEF Fits
      <4>6. Total(er) \in Nat
        BY <3>2, TotalNat
      <4>7. QED
        BY <2>3, <3>1, <4>5, <4>6
    <3>7. QED
      BY <3>5, <3>6
  <2>14. QED
    BY <2>1, <2>10, <2>11, <2>12, <2>13 DEF Planned
<1> QED
  BY PlanInductive, <1>1, PTL
============================================================================
