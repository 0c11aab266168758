---------------------------- MODULE UiAppProofs ----------------------------
(***************************************************************************)
(* The user interface, for every framebuffer of more than ten by ten       *)
(* pixels, every set of observed pixels, and every sequence of mouse and   *)
(* key events.  That the partial repaint leaves no trace is argued one     *)
(* pixel at a time: drawing two lists of rectangles one after the other is *)
(* drawing them in one (PaintConcat); what the old scene covered, the      *)
(* erasing rectangles cover as well (EraseCoversScene); so erasing a clean *)
(* screen leaves the bare desktop (EraseRestores), and the new scene is    *)
(* drawn on it as if from scratch.                                         *)
(***************************************************************************)
EXTENDS UiApp, WellFoundedInduction, TLAPS

\* The relation the library calls well-founded is the order of the naturals.
LEMMA LessThanRel ==
  ASSUME NEW k \in Nat, NEW m \in Nat, k < m
  PROVE  <<k, m>> \in OpToRel(<, Nat)
  BY Zenon DEF OpToRel

\* A set of naturals that is not empty has a least element.
LEMMA LeastNatural ==
  ASSUME NEW T \in SUBSET Nat, T # {}
  PROVE  \E m \in T : \A k \in T : m <= k
<1>1. PICK m \in T : \A k \in T : ~ (<<k, m>> \in OpToRel(<, Nat))
  BY NatLessThanWellFounded, WFMin, Zenon
<1>2. \A k \in T : ~ (k < m)
  BY <1>1, LessThanRel, Zenon
<1> QED
  BY <1>2

\* Of the rectangles that cover a pixel, one is the last.
LEMMA LastExists ==
  ASSUME NEW n \in Nat, NEW S \in SUBSET (1..n), S # {}
  PROVE  Max(S) \in S /\ \A i \in S : i <= Max(S)
<1> DEFINE T == {n - i : i \in S}
<1>1. T \subseteq Nat
  OBVIOUS
<1>2. T # {}
  BY Zenon
<1>3. PICK m \in T : \A k \in T : m <= k
  <2> HIDE DEF T
  <2> QED
    BY <1>1, <1>2, LeastNatural
<1>4. PICK j \in S : m = n - j
  OBVIOUS
<1>5. \A i \in S : j >= i
  BY <1>3, <1>4
<1> QED
  BY <1>5, Zenon DEF Max
-----------------------------------------------------------------------------
\* The numbers of the rectangles that cover a pixel.
Over(rects, p) == {i \in DOMAIN rects : Covers(rects[i], p)}

\* What a list of rectangles leaves of a pixel: nothing of it is covered, or the
\* last rectangle over it gives it its colour.
LEMMA PaintPixel ==
  ASSUME NEW s, NEW T, NEW rects \in Seq(T), NEW p \in Pixels
  PROVE  /\ Over(rects, p) = {} => Paint(s, rects)[p] = s[p]
         /\ \A i \in Over(rects, p) :
              (\A j \in Over(rects, p) : j <= i) => Paint(s, rects)[p] = rects[i].color
         /\ Over(rects, p) # {} => \E i \in Over(rects, p) : \A j \in Over(rects, p) : j <= i
<1>1. Over(rects, p) \in SUBSET (1..Len(rects)) /\ Len(rects) \in Nat
  BY DEF Over
<1>2. Paint(s, rects)[p] = IF Over(rects, p) = {} THEN s[p]
                           ELSE rects[Max(Over(rects, p))].color
  BY DEF Paint, Over
<1>3. Over(rects, p) # {} => /\ Max(Over(rects, p)) \in Over(rects, p)
                             /\ \A j \in Over(rects, p) : j <= Max(Over(rects, p))
  BY <1>1, LastExists, Zenon
<1>4. \A i \in Over(rects, p) :
        (\A j \in Over(rects, p) : j <= i) => i = Max(Over(rects, p))
  BY <1>1, <1>3
<1> HIDE DEF Over
<1> QED
  BY <1>2, <1>3, <1>4

\* Where the rectangles over a pixel are in the list made of two lists.
LEMMA OverConcat ==
  ASSUME NEW T, NEW A \in Seq(T), NEW B \in Seq(T), NEW p
  PROVE  /\ A \o B \in Seq(T) /\ Len(A \o B) = Len(A) + Len(B)
         /\ Over(A, p) \subseteq 1..Len(A) /\ Over(B, p) \subseteq 1..Len(B)
         /\ \A i \in 1..Len(A) : /\ (A \o B)[i] = A[i]
                                 /\ i \in Over(A \o B, p) <=> i \in Over(A, p)
         /\ \A i \in 1..Len(B) : /\ (A \o B)[Len(A) + i] = B[i]
                                 /\ Len(A) + i \in Over(A \o B, p) <=> i \in Over(B, p)
         /\ \A i \in Over(A \o B, p) :
              i \in 1..Len(A) \/ \E j \in 1..Len(B) : i = Len(A) + j
<1> DEFINE AB == A \o B
<1>1. /\ AB \in Seq(T) /\ Len(AB) = Len(A) + Len(B)
      /\ \A i \in 1..Len(A) : AB[i] = A[i]
      /\ \A i \in 1..Len(B) : AB[Len(A) + i] = B[i]
      /\ DOMAIN AB = 1..(Len(A) + Len(B))
      /\ DOMAIN A = 1..Len(A) /\ DOMAIN B = 1..Len(B)
      /\ Len(A) \in Nat /\ Len(B) \in Nat
  OBVIOUS
<1> HIDE DEF AB
<1>2. ASSUME NEW i \in 1..(Len(A) + Len(B)), ~ (i \in 1..Len(A))
      PROVE  \E j \in 1..Len(B) : i = Len(A) + j
  <2>1. i - Len(A) \in 1..Len(B) /\ i = Len(A) + (i - Len(A))
    BY <1>1, <1>2
  <2> QED
    BY <2>1
<1>3. \A i \in 1..Len(A) : i \in Over(AB, p) <=> i \in Over(A, p)
  BY <1>1 DEF Over
<1>4. \A i \in 1..Len(B) : Len(A) + i \in Over(AB, p) <=> i \in Over(B, p)
  BY <1>1 DEF Over
<1>5. \A i \in Over(AB, p) : i \in 1..Len(A) \/ \E j \in 1..Len(B) : i = Len(A) + j
  BY <1>1, <1>2 DEF Over
<1> QED
  BY <1>1, <1>3, <1>4, <1>5 DEF AB, Over

\* Drawing two lists of rectangles one after the other is drawing them in one.
LEMMA PaintConcat ==
  ASSUME NEW s, NEW T, NEW A \in Seq(T), NEW B \in Seq(T)
  PROVE  Paint(s, A \o B) = Paint(Paint(s, A), B)
<1> DEFINE AB == A \o B
<1>1. SUFFICES ASSUME NEW p \in Pixels
               PROVE  Paint(s, AB)[p] = Paint(Paint(s, A), B)[p]
  BY Zenon DEF Paint
<1>2. /\ AB \in Seq(T) /\ Len(A) \in Nat /\ Len(B) \in Nat
      /\ Over(A, p) \subseteq 1..Len(A) /\ Over(B, p) \subseteq 1..Len(B)
      /\ \A i \in 1..Len(A) : AB[i] = A[i]
      /\ \A i \in 1..Len(B) : AB[Len(A) + i] = B[i]
  BY OverConcat
<1>3. /\ \A i \in 1..Len(A) : i \in Over(AB, p) <=> i \in Over(A, p)
      /\ \A i \in 1..Len(B) : Len(A) + i \in Over(AB, p) <=> i \in Over(B, p)
      /\ \A i \in Over(AB, p) :
           i \in 1..Len(A) \/ \E j \in 1..Len(B) : i = Len(A) + j
  BY OverConcat
<1> HIDE DEF AB
<1>4. CASE Over(B, p) # {}
  <2>1. PICK j \in Over(B, p) : \A k \in Over(B, p) : k <= j
    BY <1>4, PaintPixel, Zenon
  <2>2. j \in 1..Len(B)
    BY <1>2 DEF Over
  <2>3. Len(A) + j \in Over(AB, p)
    BY <1>3, <2>2
  <2>4. ASSUME NEW i \in Over(AB, p) PROVE i <= Len(A) + j
    <3>1. CASE i \in 1..Len(A)
      BY <1>2, <2>2, <3>1
    <3>2. CASE \E k \in 1..Len(B) : i = Len(A) + k
      BY <1>2, <1>3, <2>1, <2>2, <3>2
    <3> QED
      BY <1>3, <3>1, <3>2
  <2>5. Paint(s, AB)[p] = AB[Len(A) + j].color
    BY <1>2, <2>3, <2>4, PaintPixel
  <2>6. Paint(Paint(s, A), B)[p] = B[j].color
    BY <2>1, PaintPixel
  <2> QED
    BY <1>2, <2>2, <2>5, <2>6
<1>5. CASE Over(B, p) = {}
  <2>1. Over(AB, p) = Over(A, p)
    BY <1>2, <1>3, <1>5, Zenon
  <2>2. Paint(Paint(s, A), B)[p] = Paint(s, A)[p]
    BY <1>5, PaintPixel
  <2>3. CASE Over(A, p) = {}
    BY <1>2, <2>1, <2>2, <2>3, PaintPixel
  <2>4. CASE Over(A, p) # {}
    <3>1. PICK j \in Over(A, p) : \A k \in Over(A, p) : k <= j
      BY <2>4, PaintPixel, Zenon
    <3>2. Paint(s, A)[p] = A[j].color
      BY <3>1, PaintPixel
    <3>3. Paint(s, AB)[p] = AB[j].color
      BY <1>2, <2>1, <3>1, PaintPixel
    <3> QED
      BY <1>2, <2>2, <3>2, <3>3 DEF Over
  <2> QED
    BY <2>3, <2>4
<1> QED
  BY <1>4, <1>5
-----------------------------------------------------------------------------
\* The screen with nothing but the desktop's colour.
Bare == [p \in Pixels |-> desktop_color]

Rectangles == [x : Int, y : Int, w : Int, h : Int, color : Int]

\* The lists of rectangles are what the lemmas about Paint take.
LEMMA SceneIsList ==
  ASSUME NEW wx \in Int, NEW wy \in Int, NEW c \in Int, NEW mx \in Int, NEW my \in Int
  PROVE  /\ Scene(wx, wy, c, mx, my) \in Seq(Rectangles)
         /\ Len(Scene(wx, wy, c, mx, my)) = 11
         /\ Erase(wx, wy, mx, my) \in Seq(Rectangles)
         /\ Len(Erase(wx, wy, mx, my)) = 2
         /\ Desktop \in Seq(Rectangles)
<1> DEFINE W == draw_window(wx, wy, win_w, win_h, c)
           K == draw_cursor(mx, my)
<1>1. W \in Seq(Rectangles) /\ K \in Seq(Rectangles)
  BY DEF draw_window, draw_cursor, Rect, Rectangles, win_w, win_h
<1>2. Len(W) = 9 /\ Len(K) = 2
  BY DEF draw_window, draw_cursor
<1>3. Erase(wx, wy, mx, my) \in Seq(Rectangles) /\ Len(Erase(wx, wy, mx, my)) = 2
  BY DEF Erase, Rect, Rectangles, win_w, win_h, desktop_color
<1>4. Desktop \in Seq(Rectangles)
  BY UiAppAssumption DEF Desktop, Rect, Rectangles, desktop_color
<1>5. Scene(wx, wy, c, mx, my) = W \o K
  BY DEF Scene
<1> HIDE DEF W, K
<1>6. W \o K \in Seq(Rectangles) /\ Len(W \o K) = Len(W) + Len(K)
  BY <1>1
<1> QED
  BY <1>1, <1>2, <1>3, <1>4, <1>5, <1>6

-----------------------------------------------------------------------------
\* Division with remainder is unique.
LEMMA RemainderUnique ==
  ASSUME NEW n \in Nat \ {0}, NEW q \in Int, NEW r \in 0..(n - 1)
  PROVE  (q * n + r) % n = r
<1> DEFINE a == q * n + r
           d == a \div n
           m == a % n
<1>1. q * n \in Int /\ a \in Int
  OBVIOUS
<1>2. d \in Int /\ m \in 0..(n - 1) /\ a = n * d + m
  <2> HIDE DEF a
  <2> QED
    BY <1>1
<1>3. a = q * n + r
  OBVIOUS
<1> HIDE DEF a, d, m
<1>4. ~ d < q
  <2> SUFFICES ASSUME d < q PROVE FALSE
    OBVIOUS
  <2> DEFINE e == q - d - 1
  <2>1. e \in Nat /\ q = d + 1 + e
    BY <1>2
  <2> HIDE DEF e
  <2>2. (d + 1 + e) * n = n * d + n + e * n /\ e * n \in Nat /\ n * d \in Int
    BY <1>2, <2>1
  <2> QED
    BY <1>1, <1>2, <1>3, <2>1, <2>2
<1>5. ~ q < d
  <2> SUFFICES ASSUME q < d PROVE FALSE
    OBVIOUS
  <2> DEFINE e == d - q - 1
  <2>1. e \in Nat /\ d = q + 1 + e
    BY <1>2
  <2> HIDE DEF e
  <2>2. n * (q + 1 + e) = q * n + n + e * n /\ e * n \in Nat /\ q * n \in Int
    BY <1>2, <2>1
  <2> QED
    BY <1>1, <1>2, <1>3, <2>1, <2>2
<1>6. d = q
  BY <1>2, <1>4, <1>5
<1>7. n * d = q * n
  BY <1>2, <1>6
<1>8. m = r
  BY <1>1, <1>2, <1>3, <1>7
<1> QED
  BY <1>8 DEF m, a

\* The conversions of draw_rect: what is small stays as it is, also when it is
\* negative and goes through a u64.
Small == Values32 \div 2
LEMMA Conversions ==
  /\ Small \in Nat /\ Values32 = 2 * Small
  /\ \A n \in 0..(Values32 - 1) : AsU64(n) = n
  /\ \A n \in 0..(Small - 1) : AsI32(AsU64(n)) = n
  /\ \A n \in 1..Small : AsI32(AsU64(0 - n)) = 0 - n
<1>1. /\ Values32 \in Nat \ {0} /\ Values64 \in Nat \ {0} /\ Values32 % 2 = 0
      /\ Values64 % Values32 = 0
  BY WidthAssumption
<1>2. Small \in Nat /\ Values32 = 2 * Small
  BY <1>1 DEF Small
<1> DEFINE k == Values64 \div Values32
<1>3. k \in Nat /\ Values64 = Values32 * k
  BY <1>1
<1> HIDE DEF k
<1>4. k - 1 \in Nat
  BY <1>1, <1>3
<1>5. Values64 = (k - 1) * Values32 + Values32 /\ (k - 1) * Values32 \in Nat
  BY <1>1, <1>3, <1>4
<1>6. \A n \in 0..(Values32 - 1) : AsU64(n) = n
  <2> TAKE n \in 0..(Values32 - 1)
  <2>1. n \in 0..(Values64 - 1) /\ 0 * Values64 + n = n
    BY <1>1, <1>5
  <2>2. (0 * Values64 + n) % Values64 = n
    BY <1>1, <2>1, RemainderUnique
  <2> QED
    BY <2>1, <2>2 DEF AsU64
<1>7. \A n \in 0..(Values32 - 1) : n % Values32 = n
  <2> TAKE n \in 0..(Values32 - 1)
  <2>1. (0 * Values32 + n) % Values32 = n
    BY <1>1, RemainderUnique
  <2>2. 0 * Values32 + n = n
    BY <1>1
  <2> QED
    BY <2>1, <2>2
<1>8. \A n \in 0..(Small - 1) : AsI32(AsU64(n)) = n
  <2> TAKE n \in 0..(Small - 1)
  <2>1. n \in 0..(Values32 - 1) /\ n < Small
    BY <1>2
  <2> QED
    BY <1>6, <1>7, <2>1 DEF AsI32, Small
<1>9. \A n \in 1..Small : AsI32(AsU64(0 - n)) = 0 - n
  <2> TAKE n \in 1..Small
  <2>1. n \in Nat /\ n <= Small /\ n > 0 /\ n <= Values32
    BY <1>2
  <2>2. Values64 - n \in 0..(Values64 - 1) /\ (0 - 1) * Values64 + (Values64 - n) = 0 - n
    BY <1>1, <1>5, <2>1
  <2>3. AsU64(0 - n) = Values64 - n
    <3>1. 0 - 1 \in Int
      OBVIOUS
    <3>2. ((0 - 1) * Values64 + (Values64 - n)) % Values64 = Values64 - n
      BY <1>1, <2>2, <3>1, RemainderUnique
    <3> QED
      BY <2>2, <3>2 DEF AsU64
  <2> DEFINE c == (k - 1) * Values32
  <2>4. /\ Values64 - n = c + (Values32 - n)
        /\ Values32 - n \in 0..(Values32 - 1) /\ k - 1 \in Int
    <3>1. c \in Nat /\ Values64 = c + Values32 /\ k - 1 \in Int
      BY <1>4, <1>5
    <3> HIDE DEF c
    <3> QED
      BY <1>1, <2>1, <3>1
  <2>5. (Values64 - n) % Values32 = Values32 - n
    <3>1. ((k - 1) * Values32 + (Values32 - n)) % Values32 = Values32 - n
      BY <1>1, <2>4, RemainderUnique
    <3> QED
      BY <2>4, <3>1
  <2>6. ~ (Values32 - n < Small) /\ (Values32 - n) - Values32 = 0 - n
    BY <1>1, <1>2, <2>1
  <2> QED
    BY <2>3, <2>5, <2>6 DEF AsI32, Small
<1> QED
  BY <1>2, <1>6, <1>8, <1>9

\* So the cut is the one meant, for everything that is near the screen.
LEMMA CutIsExact ==
  ASSUME NEW start \in Nat, NEW extent \in Nat, NEW limit \in Nat,
         start + extent < Small, limit < Small
  PROVE  Cut(start, extent, limit) = IF start + extent > limit THEN limit - start ELSE extent
<1>1. /\ Small \in Nat /\ Values32 = 2 * Small
      /\ start \in 0..(Values32 - 1) /\ extent \in 0..(Values32 - 1)
      /\ start + extent \in 0..(Values32 - 1)
  BY Conversions
<1>2. AsU64(start) = start /\ AsU64(extent) = extent /\ AsU64(start + extent) = start + extent
  BY <1>1, Conversions
<1>3. AsI32(AsU64(limit - start)) = limit - start
  <2>1. CASE start <= limit
    <3>1. limit - start \in 0..(Small - 1)
      BY <1>1, <2>1
    <3> QED
      BY <3>1, Conversions
  <2>2. CASE limit < start
    <3>1. start - limit \in 1..Small /\ 0 - (start - limit) = limit - start
      BY <1>1, <2>2
    <3>2. AsI32(AsU64(0 - (start - limit))) = 0 - (start - limit)
      BY <3>1, Conversions
    <3> QED
      BY <3>1, <3>2
  <2> QED
    BY <2>1, <2>2
<1> QED
  BY <1>2, <1>3 DEF Cut

\* A rectangle near the screen is drawn exactly where it is on the screen.
Near(r) ==
  /\ r.w \in Nat /\ r.h \in Nat
  /\ r.x + r.w < FbWidth + 1000 /\ r.y + r.h < FbHeight + 1000
LEMMA DrawIsExact ==
  ASSUME NEW r \in Rectangles, Near(r), Drawn(r)
  PROVE  /\ Cut(r.x, r.w, FbWidth) > 0 => r.x + Cut(r.x, r.w, FbWidth) <= FbWidth
         /\ Cut(r.y, r.h, FbHeight) > 0 => r.y + Cut(r.y, r.h, FbHeight) <= FbHeight
         /\ \A p \in Pixels : Covers(r, p) <=> Contains(r, p)
<1>1. r.x \in Nat /\ r.y \in Nat /\ r.w \in Nat /\ r.h \in Nat /\ FbWidth \in Nat /\ FbHeight \in Nat
  BY UiAppAssumption DEF Rectangles, Near, Drawn
<1>2. r.x + r.w < Small /\ r.y + r.h < Small /\ FbWidth < Small /\ FbHeight < Small
  BY <1>1, Conversions, WidthAssumption DEF Near, Small
<1> DEFINE w == Cut(r.x, r.w, FbWidth)
           h == Cut(r.y, r.h, FbHeight)
<1>3. w = (IF r.x + r.w > FbWidth THEN FbWidth - r.x ELSE r.w)
  BY <1>1, <1>2, CutIsExact
<1>4. h = (IF r.y + r.h > FbHeight THEN FbHeight - r.y ELSE r.h)
  BY <1>1, <1>2, CutIsExact
<1> HIDE DEF w, h
<1>5. ASSUME NEW p \in Pixels PROVE Covers(r, p) <=> Contains(r, p)
  <2>1. p[1] \in 0..FbWidth - 1 /\ p[2] \in 0..FbHeight - 1
    BY UiAppAssumption
  <2>2. Covers(r, p) <=> /\ r.x <= p[1] /\ p[1] < r.x + w
                         /\ r.y <= p[2] /\ p[2] < r.y + h
    BY DEF Covers, w, h
  <2>3. p[1] < r.x + w <=> p[1] < r.x + r.w
    BY <1>1, <1>3, <2>1
  <2>4. p[2] < r.y + h <=> p[2] < r.y + r.h
    BY <1>1, <1>4, <2>1
  <2> QED
    BY <2>2, <2>3, <2>4 DEF Contains
<1>6. (w > 0 => r.x + w <= FbWidth) /\ (h > 0 => r.y + h <= FbHeight)
  BY <1>1, <1>3, <1>4
<1> QED
  BY <1>5, <1>6 DEF w, h

\* The desktop covers every pixel.
LEMMA DesktopIsBare == Paint(Blank, Desktop) = Bare
<1> SUFFICES ASSUME NEW p \in Pixels PROVE Paint(Blank, Desktop)[p] = Bare[p]
  BY DEF Paint, Bare
<1>1. p[1] \in 0..FbWidth - 1 /\ p[2] \in 0..FbHeight - 1
  BY UiAppAssumption
<1>2. Desktop \in Seq({Desktop[1]}) /\ DOMAIN Desktop = {1} /\ Desktop[1].color = desktop_color
  BY DEF Desktop, Rect
<1>3. Covers(Desktop[1], p)
  <2>1. Desktop[1] \in Rectangles /\ Near(Desktop[1]) /\ Drawn(Desktop[1])
    BY UiAppAssumption DEF Desktop, Rect, Rectangles, Near, Drawn, desktop_color
  <2>2. Contains(Desktop[1], p)
    BY <1>1, UiAppAssumption DEF Desktop, Rect, Contains
  <2> QED
    BY <2>1, <2>2, DrawIsExact
<1>4. Over(Desktop, p) = {1}
  BY <1>2, <1>3 DEF Over
<1>5. Paint(Blank, Desktop)[p] = Desktop[1].color
  BY <1>2, <1>4, PaintPixel
<1> QED
  BY <1>2, <1>5 DEF Bare

\* How far a window can be dragged, and that nothing of it is further away.
Across(w) == w \in Int /\ w >= 0 - 400 /\ w <= FbWidth + 200
Down(w) == w \in Int /\ w >= 0 - 400 /\ w <= FbHeight + 200
LEMMA SceneIsNear ==
  ASSUME NEW wx, NEW wy, Across(wx), Down(wy), NEW c \in Int,
         NEW mx \in 0..(FbWidth - 6), NEW my \in 0..(FbHeight - 6)
  PROVE  /\ \A j \in 1..9 : LET r == draw_window(wx, wy, win_w, win_h, c)[j]
                            IN  r \in Rectangles /\ Near(r)
         /\ \A j \in 1..2 : LET r == draw_cursor(mx, my)[j] IN r \in Rectangles /\ Near(r)
         /\ \A j \in 1..2 : LET r == Erase(wx, wy, mx, my)[j] IN r \in Rectangles /\ Near(r)
<1>1. FbWidth \in Nat /\ FbHeight \in Nat /\ mx \in Nat /\ my \in Nat
  BY UiAppAssumption
<1>2. ASSUME NEW j \in 1..9
      PROVE  LET r == draw_window(wx, wy, win_w, win_h, c)[j] IN r \in Rectangles /\ Near(r)
  BY <1>1 DEF draw_window, Rect, Rectangles, Near, win_w, win_h, Across, Down
<1>3. ASSUME NEW j \in 1..2
      PROVE  LET r == draw_cursor(mx, my)[j] IN r \in Rectangles /\ Near(r)
  BY <1>1 DEF draw_cursor, Rect, Rectangles, Near
<1>4. ASSUME NEW j \in 1..2
      PROVE  LET r == Erase(wx, wy, mx, my)[j] IN r \in Rectangles /\ Near(r)
  BY <1>1 DEF Erase, Rect, Rectangles, Near, win_w, win_h, desktop_color, Across, Down
<1> QED
  BY <1>2, <1>3, <1>4

\* Whatever a pixel of a window at wx, wy or of a cursor at mx, my is covered by,
\* the two rectangles that erase them cover it too.
LEMMA EraseCoversScene ==
  ASSUME NEW wx \in Nat, NEW wy \in Nat, Across(wx), Down(wy), NEW c \in Int,
         NEW mx \in 0..(FbWidth - 6), NEW my \in 0..(FbHeight - 6),
         NEW p \in Pixels, Over(Scene(wx, wy, c, mx, my), p) # {}
  PROVE  Over(Erase(wx, wy, mx, my), p) # {}
<1>1. p[1] \in 0..FbWidth - 1 /\ p[2] \in 0..FbHeight - 1 /\ mx \in Nat /\ my \in Nat
  BY UiAppAssumption
<1> DEFINE W == draw_window(wx, wy, win_w, win_h, c)
           K == draw_cursor(mx, my)
           E == Erase(wx, wy, mx, my)
<1>2. Over(W, p) # {} \/ Over(K, p) # {}
  <2>1. W \in Seq(Rectangles) /\ K \in Seq(Rectangles)
    BY <1>1 DEF draw_window, draw_cursor, Rect, Rectangles, win_w, win_h
  <2>2. Over(W \o K, p) # {}
    BY DEF Scene
  <2> HIDE DEF W, K
  <2> QED
    BY <2>1, <2>2, OverConcat
<1>3. /\ \A j \in 1..9 : W[j] \in Rectangles /\ Near(W[j])
      /\ \A j \in 1..2 : K[j] \in Rectangles /\ Near(K[j])
      /\ \A j \in 1..2 : E[j] \in Rectangles /\ Near(E[j])
  BY SceneIsNear
<1>4. Drawn(E[1]) /\ Drawn(E[2])
  BY <1>1 DEF Erase, Rect, Drawn
<1>5. \A j \in 1..9 : Contains(W[j], p) => Contains(E[2], p)
  BY <1>1 DEF draw_window, Erase, Rect, Contains, win_w, win_h
<1>6. \A j \in 1..2 : Contains(K[j], p) => Contains(E[1], p)
  BY <1>1 DEF draw_cursor, Erase, Rect, Contains
<1>7. DOMAIN W = 1..9 /\ DOMAIN K = 1..2 /\ DOMAIN E = 1..2
  BY DEF draw_window, draw_cursor, Erase
<1> HIDE DEF W, K, E
<1>8. \A r \in Rectangles : Near(r) /\ Covers(r, p) => Contains(r, p)
  BY DrawIsExact DEF Covers
<1>9. Over(W, p) # {} => Contains(E[2], p)
  BY <1>3, <1>5, <1>7, <1>8 DEF Over
<1>10. Over(K, p) # {} => Contains(E[1], p)
  BY <1>3, <1>6, <1>7, <1>8 DEF Over
<1>11. \E j \in 1..2 : Contains(E[j], p) /\ Drawn(E[j])
  BY <1>2, <1>4, <1>9, <1>10
<1>12. \E j \in 1..2 : Covers(E[j], p)
  BY <1>3, <1>11, DrawIsExact
<1> QED
  BY <1>7, <1>12 DEF Over, E

\* Erasing the window and the cursor of a clean screen leaves the bare desktop.
LEMMA EraseRestores ==
  ASSUME NEW wx \in Nat, NEW wy \in Nat, Across(wx), Down(wy), NEW c \in Int,
         NEW mx \in 0..(FbWidth - 6), NEW my \in 0..(FbHeight - 6)
  PROVE  Paint(Paint(Bare, Scene(wx, wy, c, mx, my)), Erase(wx, wy, mx, my)) = Bare
<1> DEFINE S == Scene(wx, wy, c, mx, my)
           E == Erase(wx, wy, mx, my)
<1> SUFFICES ASSUME NEW p \in Pixels PROVE Paint(Paint(Bare, S), E)[p] = desktop_color
  BY DEF Paint, Bare
<1>1. S \in Seq(Rectangles) /\ E \in Seq(Rectangles)
  <2>1. wx \in Int /\ wy \in Int /\ mx \in Int /\ my \in Int
    BY UiAppAssumption
  <2> QED
    BY <2>1, SceneIsList
<1>2. \A i \in DOMAIN E : E[i].color = desktop_color
  BY DEF Erase, Rect
<1>3. CASE Over(E, p) # {}
  <2>1. PICK i \in Over(E, p) : \A j \in Over(E, p) : j <= i
    BY <1>1, <1>3, PaintPixel, Zenon
  <2>2. Paint(Paint(Bare, S), E)[p] = E[i].color
    BY <1>1, <2>1, PaintPixel
  <2> QED
    BY <1>2, <2>2 DEF Over
<1>4. CASE Over(E, p) = {}
  <2>1. Over(S, p) = {}
    BY <1>4, EraseCoversScene
  <2>2. Paint(Bare, S)[p] = Bare[p]
    BY <1>1, <2>1, PaintPixel
  <2>3. Paint(Paint(Bare, S), E)[p] = Paint(Bare, S)[p]
    BY <1>1, <1>4, PaintPixel
  <2> QED
    BY <2>2, <2>3 DEF Bare
<1> QED
  BY <1>3, <1>4
-----------------------------------------------------------------------------
\* Every element of a concatenation is one of the two parts'.
LEMMA ConcatElements ==
  ASSUME NEW T, NEW A \in Seq(T), NEW B \in Seq(T)
  PROVE  \A i \in DOMAIN (A \o B) : \/ \E j \in DOMAIN A : (A \o B)[i] = A[j]
                                   \/ \E j \in DOMAIN B : (A \o B)[i] = B[j]
<1> TAKE i \in DOMAIN (A \o B)
<1> DEFINE AB == A \o B
<1>1. /\ \A k \in 1..Len(A) : AB[k] = A[k]
      /\ \A k \in 1..Len(B) : AB[Len(A) + k] = B[k]
      /\ DOMAIN AB = 1..(Len(A) + Len(B))
      /\ DOMAIN A = 1..Len(A) /\ DOMAIN B = 1..Len(B)
      /\ Len(A) \in Nat /\ Len(B) \in Nat
  OBVIOUS
<1> HIDE DEF AB
<1>2. i \in 1..(Len(A) + Len(B))
  BY <1>1 DEF AB
<1>3. CASE i \in 1..Len(A)
  BY <1>1, <1>3 DEF AB
<1>4. CASE ~ (i \in 1..Len(A))
  <2>1. i - Len(A) \in 1..Len(B) /\ i = Len(A) + (i - Len(A))
    BY <1>1, <1>2, <1>4
  <2>2. AB[i] = B[i - Len(A)]
    BY <1>1, <2>1
  <2> QED
    BY <1>1, <2>1, <2>2 DEF AB
<1> QED
  BY <1>3, <1>4

\* The ranges of the state.  Clamp keeps the cursor on the screen, and the window
\* does not get further than the cursor drags it.
UiTypes ==
  /\ mouse_x \in 0..(FbWidth - 6) /\ mouse_y \in 0..(FbHeight - 6)
  /\ Across(win_x) /\ Down(win_y) /\ win_color \in Nat
  /\ is_dragging \in BOOLEAN /\ drag_offset_x \in Int /\ drag_offset_y \in Int
  /\ inside \in BOOLEAN /\ (inside => win_x >= 0 /\ win_y >= 0)

\* CleanWhileInside in the terms of the lemmas: the desktop, then the scene.
CleanOnBare ==
  inside => screen = Paint(Bare, Scene(win_x, win_y, win_color, mouse_x, mouse_y))

UiInv == UiTypes /\ DragKeepsGrip /\ CleanOnBare

\* Clamp ends within the screen less the cursor.
LEMMA ClampRange ==
  ASSUME NEW v \in Int, NEW limit \in Nat, limit > 10
  PROVE  Clamp(v, limit) \in 0..(limit - 6)
  BY DEF Clamp

\* Drawing everything from scratch is drawing the scene on the bare desktop.
LEMMA FromScratch ==
  ASSUME NEW wx \in Int, NEW wy \in Int, NEW c \in Int, NEW mx \in Int, NEW my \in Int
  PROVE  Paint(Blank, Desktop \o Scene(wx, wy, c, mx, my))
           = Paint(Bare, Scene(wx, wy, c, mx, my))
<1> DEFINE S == Scene(wx, wy, c, mx, my)
<1>1. S \in Seq(Rectangles) /\ Desktop \in Seq(Rectangles)
  BY SceneIsList
<1> HIDE DEF S
<1>2. Paint(Blank, Desktop \o S) = Paint(Paint(Blank, Desktop), S)
  BY <1>1, PaintConcat
<1> QED
  BY <1>2, DesktopIsBare DEF S

\* test_app starts with a full repaint and no drag.
LEMMA UiInit == Init => UiInv
<1> SUFFICES ASSUME Init PROVE UiInv
  OBVIOUS
<1>1. UiTypes
  <2>1. mouse_x = FbWidth \div 2 /\ mouse_y = FbHeight \div 2
    BY DEF Init
  <2>2. mouse_x \in 0..(FbWidth - 6) /\ mouse_y \in 0..(FbHeight - 6)
    BY <2>1, UiAppAssumption
  <2>3. /\ Across(win_x) /\ Down(win_y) /\ win_color \in Nat
        /\ drag_offset_x \in Int /\ drag_offset_y \in Int
    BY UiAppAssumption DEF Init, Across, Down
  <2>4. inside \in BOOLEAN /\ (inside => win_x >= 0 /\ win_y >= 0)
    BY DEF Init
  <2>5. is_dragging = FALSE
    BY DEF Init
  <2> QED
    BY <2>2, <2>3, <2>4, <2>5, Zenon DEF UiTypes
<1>2. CleanOnBare
  <2>1. screen = Paint(Blank, Desktop \o Scene(win_x, win_y, win_color, mouse_x, mouse_y))
    BY DEF Init
  <2> QED
    BY <1>1, <2>1, FromScratch, UiAppAssumption DEF UiTypes, CleanOnBare, Across, Down
<1> QED
  BY <1>1, <1>2 DEF Init, UiInv, DragKeepsGrip

\* A repaint from a clean screen leaves a clean screen, wherever the window and
\* the cursor go.
LEMMA RedrawCleans ==
  ASSUME UiInv, UiTypes', Redraw
  PROVE  CleanOnBare'
<1> SUFFICES ASSUME inside'
             PROVE  screen' = Paint(Bare, Scene(win_x', win_y', win_color', mouse_x', mouse_y'))
  BY DEF CleanOnBare
<1> DEFINE S == Scene(win_x, win_y, win_color, mouse_x, mouse_y)
           E == Erase(win_x, win_y, mouse_x, mouse_y)
           N == Scene(win_x', win_y', win_color', mouse_x', mouse_y')
<1>0. inside
  BY Zenon DEF Redraw
<1>1. win_x \in Nat /\ win_y \in Nat /\ mouse_x \in Nat /\ mouse_y \in Nat /\ win_color \in Int
  BY <1>0, UiAppAssumption DEF UiInv, UiTypes, Across, Down
<1>2. win_x' \in Int /\ win_y' \in Int /\ mouse_x' \in Int /\ mouse_y' \in Int
      /\ win_color' \in Int
  BY UiAppAssumption DEF UiTypes, Across, Down
<1>3. screen = Paint(Bare, S)
  BY <1>0 DEF UiInv, CleanOnBare
<1>4. screen' = Paint(screen, E \o N)
  BY Zenon DEF Redraw
<1>5. E \in Seq(Rectangles) /\ N \in Seq(Rectangles)
  <2>1. E \in Seq(Rectangles)
    BY <1>1, SceneIsList
  <2>2. N \in Seq(Rectangles)
    BY <1>2, SceneIsList
  <2> QED
    BY <2>1, <2>2
<1>6. Paint(Paint(Bare, S), E) = Bare
  BY <1>1, EraseRestores DEF UiInv, UiTypes
<1> HIDE DEF S, E, N
<1>7. Paint(screen, E \o N) = Paint(Paint(screen, E), N)
  BY <1>5, PaintConcat
<1> QED
  BY <1>3, <1>4, <1>6, <1>7 DEF N

\* Every mouse and keyboard event keeps the invariant.
LEMMA UiStep == UiInv /\ [Next]_vars => UiInv'
<1> SUFFICES ASSUME UiInv, [Next]_vars PROVE UiInv'
  OBVIOUS
<1>1. CASE \E left \in BOOLEAN, dx, dy \in Deltas : Mouse(left, dx, dy)
  <2>1. PICK left \in BOOLEAN, dx \in Deltas, dy \in Deltas : Mouse(left, dx, dy)
    BY <1>1
  <2>2. AsI8(dx) \in Int /\ AsI8(dy) \in Int
    BY UiAppAssumption DEF AsI8
  <2>3. mouse_x' \in 0..(FbWidth - 6) /\ mouse_y' \in 0..(FbHeight - 6)
    BY <2>1, <2>2, ClampRange, UiAppAssumption DEF Mouse, UiInv, UiTypes
  <2>4. mouse_x' \in Int /\ mouse_y' \in Int
    BY <2>3, UiAppAssumption
  <2>5. UiTypes'
    <3>1. drag_offset_x' \in Int /\ drag_offset_y' \in Int
      BY <2>1, <2>4 DEF Mouse, Button, Grab, Drag, Drop, Grip, UiInv, UiTypes, Across, Down
    <3>5. Across(win_x') /\ Down(win_y')
      <4>1. CASE left /\ is_dragging
        BY <2>1, <2>3, <2>4, <4>1, UiAppAssumption
        DEF Mouse, Button, Drag, DragKeepsGrip, UiInv, UiTypes, Across, Down, win_w
      <4>2. CASE ~ (left /\ is_dragging)
        <5>1. win_x' = win_x /\ win_y' = win_y
          BY <2>1, <4>2 DEF Mouse, Button, Grab, Drop
        <5> QED
          BY <5>1 DEF UiInv, UiTypes
      <4> QED
        BY <4>1, <4>2
    <3>2. is_dragging' \in BOOLEAN
      BY <2>1, Zenon DEF Mouse, Button, Grab, Drag, Drop, OnTitleBar, UiInv, UiTypes
    <3>3. inside' \in BOOLEAN /\ (inside' => win_x' >= 0 /\ win_y' >= 0)
      BY <2>1, Zenon DEF Mouse, Redraw
    <3>4. win_color' \in Nat
      BY <2>1 DEF Mouse, UiInv, UiTypes
    <3> QED
      BY <2>3, <3>1, <3>2, <3>3, <3>4, <3>5 DEF UiTypes
  <2>6. DragKeepsGrip'
    <3>1. CASE left /\ ~ is_dragging
      BY <2>1, <2>4, <3>1 DEF Mouse, Button, Grab, Grip, OnTitleBar, DragKeepsGrip, UiInv,
         UiTypes, Across, Down, win_w
    <3>2. CASE left /\ is_dragging
      BY <2>1, <2>4, <3>2 DEF Mouse, Button, Drag, DragKeepsGrip, UiInv, UiTypes, Across, Down, win_w
    <3>3. CASE ~ left
      BY <2>1, <3>3 DEF Mouse, Button, Drop, DragKeepsGrip
    <3> QED
      BY <3>1, <3>2, <3>3
  <2>7. CleanOnBare'
    BY <2>1, <2>5, RedrawCleans DEF Mouse
  <2> QED
    BY <2>5, <2>6, <2>7 DEF UiInv
<1>2. CASE \E c \in Scancodes : KeyDown(c)
  <2>1. UiTypes'
    BY <1>2, SMTT(20) DEF KeyDown, Redraw, UiInv, UiTypes
  <2>2. CleanOnBare'
    BY <1>2, <2>1, RedrawCleans, SMTT(20) DEF KeyDown
  <2> QED
    BY <1>2, <2>1, <2>2, SMTT(20) DEF KeyDown, UiInv, DragKeepsGrip
<1>3. CASE (\E c \in Scancodes : KeyUp(c)) \/ UNCHANGED vars
  BY <1>3 DEF KeyUp, vars, UiInv, UiTypes, DragKeepsGrip, CleanOnBare
<1> QED
  BY <1>1, <1>2, <1>3 DEF Next

\* UiInv holds of test_app at all times.
THEOREM UiInvariant == Spec => []UiInv
  BY UiInit, UiStep, PTL DEF Spec

\* For every framebuffer and every sequence of events: the drag of test_app keeps
\* hold of the point of the title bar that was grabbed.
THEOREM DragIsExact == Spec => []DragKeepsGrip
<1>1. UiInv => DragKeepsGrip
  BY DEF UiInv
<1> QED
  BY <1>1, UiInvariant, PTL

\* For every framebuffer and every sequence of events: no rectangle that test_app has
\* drawn reaches past the framebuffer, however the cut of draw_rect wraps around, and
\* all that is on the screen is drawn.
THEOREM WritesStayInFramebuffer == Spec => []WritesInFramebuffer
<1>1. ASSUME UiInv PROVE WritesInFramebuffer
  <2> DEFINE W == draw_window(win_x, win_y, win_w, win_h, win_color)
             K == draw_cursor(mouse_x, mouse_y)
             E == Erase(win_x, win_y, mouse_x, mouse_y)
  <2>1. /\ Across(win_x) /\ Down(win_y) /\ win_color \in Int
        /\ mouse_x \in 0..(FbWidth - 6) /\ mouse_y \in 0..(FbHeight - 6)
    BY <1>1 DEF UiInv, UiTypes
  <2>2. /\ \A j \in 1..9 : W[j] \in Rectangles /\ Near(W[j])
        /\ \A j \in 1..2 : K[j] \in Rectangles /\ Near(K[j])
        /\ \A j \in 1..2 : E[j] \in Rectangles /\ Near(E[j])
    BY <2>1, SceneIsNear
  <2>3. /\ Len(W) = 9 /\ DOMAIN W = 1..9 /\ Len(K) = 2 /\ DOMAIN K = 1..2
        /\ Len(E) = 2 /\ DOMAIN E = 1..2
    BY DEF draw_window, draw_cursor, Erase
  <2>4. Rects = {(E \o (W \o K))[i] : i \in DOMAIN (E \o (W \o K))}
    BY DEF Rects, Scene
  <2>5. E \in Seq(Rectangles) /\ W \in Seq(Rectangles) /\ K \in Seq(Rectangles)
    <3>1. win_x \in Int /\ win_y \in Int /\ mouse_x \in Int /\ mouse_y \in Int
      BY <2>1, UiAppAssumption DEF Across, Down
    <3> QED
      BY <2>1, <3>1
      DEF draw_window, draw_cursor, Erase, Rect, Rectangles, win_w, win_h, desktop_color
  <2> HIDE DEF W, K, E
  <2>6. \A j \in DOMAIN (W \o K) : \/ \E m \in DOMAIN W : (W \o K)[j] = W[m]
                                \/ \E m \in DOMAIN K : (W \o K)[j] = K[m]
    <3>1. W \in Seq(Rectangles) /\ K \in Seq(Rectangles)
      BY <2>5
    <3> QED
      BY <3>1, ConcatElements
  <2>7. ASSUME NEW r \in Rects PROVE r \in Rectangles /\ Near(r)
    <3>1. W \o K \in Seq(Rectangles)
      BY <2>5
    <3>2. PICK i \in DOMAIN (E \o (W \o K)) : r = (E \o (W \o K))[i]
      BY <2>4
    <3> DEFINE S == W \o K
    <3>3. (\E j \in DOMAIN E : r = E[j]) \/ (\E j \in DOMAIN S : r = S[j])
      BY <2>5, <3>1, <3>2, ConcatElements
    <3> QED
      BY <2>2, <2>3, <2>6, <3>3 DEF S
  <2> QED
    BY <2>7, DrawIsExact DEF WritesInFramebuffer
<1> QED
  BY <1>1, UiInvariant, PTL

\* For every framebuffer, every pixel and every sequence of events: while the
\* window has not left the screen at the left or at the top, the partial repaint
\* shows what a repaint from scratch would.
THEOREM RepaintIsClean == Spec => []CleanWhileInside
<1>1. ASSUME UiInv PROVE CleanWhileInside
  <2> SUFFICES ASSUME inside PROVE Clean
    BY DEF CleanWhileInside
  <2>1. screen = Paint(Bare, Scene(win_x, win_y, win_color, mouse_x, mouse_y))
    BY <1>1 DEF UiInv, CleanOnBare
  <2>2. screen = Paint(Blank, Desktop \o Scene(win_x, win_y, win_color, mouse_x, mouse_y))
    BY <1>1, <2>1, FromScratch, UiAppAssumption DEF UiInv, UiTypes, Across, Down
  <2> QED
    BY <2>2 DEF Clean
<1> QED
  BY <1>1, UiInvariant, PTL
=============================================================================
