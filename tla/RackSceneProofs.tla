------------------------- MODULE RackSceneProofs -------------------------
(***************************************************************************)
(* What RackScene promises of the picture, for every list of racks, every  *)
(* window and every scale: Safety and FaceKeepsRacks.                      *)
(*                                                                         *)
(* First the arithmetic of RackArrangement: racks of one width, filled     *)
(* row after row, take no more rows than num_rows and stay on the canvas.  *)
(* Then what becomes of the list of racks, of its pairs in the split view  *)
(* and of the scale when racks are exchanged; and last the invariant,      *)
(* with one lemma for each kind of step.                                   *)
(***************************************************************************)
EXTENDS RackScene, TLAPS, FiniteSetTheorems, WellFoundedInduction

(* Every nonempty set of numbers has a least one: the induction of what     *)
(* follows.                                                                *)
LEMMA Least ==
    ASSUME NEW T, T \subseteq Nat, T # {}
    PROVE  \E x \in T : \A y \in T : x <= y
<1>1. PICK R : IsWellFoundedOn(R, Nat) /\ \A x, y \in Nat : y < x => <<y, x>> \in R
  <2> DEFINE R == OpToRel(<, Nat)
  <2>1. IsWellFoundedOn(R, Nat)
    BY NatLessThanWellFounded
  <2>2. \A x, y \in Nat : y < x => <<y, x>> \in R
    BY DEF OpToRel
  <2> HIDE DEF R
  <2>. QED BY <2>1, <2>2
<1>2. PICK x \in T : \A y \in T : ~ (<<y, x>> \in R)
  BY <1>1, WFMin
<1>3. ASSUME NEW y \in T PROVE x <= y
  <2>1. x \in Nat /\ y \in Nat /\ ~(y < x)
    BY <1>1, <1>2
  <2>. QED BY <2>1
<1>. QED BY <1>3

(* A set of numbers that holds 0 and the next of each of its numbers below  *)
(* n holds all up to n.                                                    *)
LEMMA Climb ==
    ASSUME NEW n \in Nat, NEW T,
           0 \in T, \A k \in 1..n : k - 1 \in T => k \in T
    PROVE  0..n \subseteq T
<1>. SUFFICES ASSUME ~ (0..n \subseteq T) PROVE FALSE
  OBVIOUS
<1>. DEFINE B == (0..n) \ T
<1>1. B \subseteq Nat /\ B # {}
  OBVIOUS
<1>2. PICK k \in B : \A j \in B : k <= j
  <2>. HIDE DEF B
  <2>. QED BY <1>1, Least
<1>3. k \in 1..n /\ k - 1 \in 0..n /\ k - 1 < k
  BY <1>2
<1>4. k - 1 \in T
  BY <1>2, <1>3
<1>. QED BY <1>2, <1>3, <1>4

(***************************************************************************)
(* Racks in rows                                                           *)
(***************************************************************************)

(* n racks of one width, as the template of all racks gives them.           *)
RacksOf(n, wide) == [1..n -> [width : {wide}, height : Nat \ {0}]]

LEMMA IsSequence ==
    ASSUME NEW n \in Nat, NEW S, NEW s \in [1..n -> S]
    PROVE  s \in Seq(S) /\ Len(s) = n /\ DOMAIN s = 1..n
OBVIOUS

LEMMA RacksAre ==
    ASSUME NEW n \in Nat, NEW wide \in Nat \ {0}, NEW racks \in RacksOf(n, wide)
    PROVE  /\ Len(racks) = n /\ DOMAIN racks = 1..n
           /\ \A i \in 1..n : racks[i].width = wide /\ racks[i].height \in Nat \ {0}
<1>. DEFINE S == [width : {wide}, height : Nat \ {0}]
<1>1. racks \in [1..n -> S]
  BY DEF RacksOf
<1>2. \A r \in S : r.width = wide /\ r.height \in Nat \ {0}
  OBVIOUS
<1>. HIDE DEF S
<1>3. Len(racks) = n /\ DOMAIN racks = 1..n
  BY <1>1, IsSequence
<1>4. \A i \in 1..n : racks[i] \in S
  BY <1>1
<1>. QED BY <1>2, <1>3, <1>4

LEMMA Spaces ==
  /\ Padding \in Nat /\ HPadding \in Nat /\ HSpacing \in Nat
  /\ VSpacing \in Nat /\ LabelHeight \in Nat
BY ArrangementAssumption

(* The first racks are as wide as their number times one rack.              *)
LEMMA WidthsAre ==
    ASSUME NEW n \in Nat, NEW wide \in Nat \ {0}, NEW racks \in RacksOf(n, wide)
    PROVE  /\ \A i \in 0..n : Widths(racks)[i] = i * (wide + HSpacing)
           /\ WidthOf(racks) = n * (wide + HSpacing)
<1>. DEFINE F(f) == [i \in 0..Len(racks) |->
                       IF i = 0 THEN 0 ELSE f[i - 1] + racks[i].width + HSpacing]
<1>1. PICK one \in Nat : one = wide + HSpacing
  BY Spaces
<1>2. Len(racks) = n /\ \A i \in 1..n : racks[i].width = wide
  BY RacksAre
<1>3. \E f : f = F(f)
  <2>. DEFINE g == [i \in 0..n |-> i * one]
  <2>1. \A i \in 0..n : (IF i = 0 THEN 0 ELSE g[i - 1] + racks[i].width + HSpacing) = i * one
    <3>. TAKE i \in 0..n
    <3>1. CASE i = 0
      BY <1>1, <3>1
    <3>2. CASE i # 0
      <4>1. i - 1 \in 0..n /\ racks[i].width = wide
        BY <1>2, <3>2
      <4>2. g[i - 1] = (i - 1) * one
        BY <4>1
      <4>3. (i - 1) * one = i * one - one
        BY ONLY <3>2, one \in Nat, i \in 0..n
      <4>4. i * one \in Int
        BY ONLY one \in Nat, i \in 0..n
      <4>5. i * one - one + wide + HSpacing = i * one
        BY <1>1, <4>4, Spaces
      <4>. QED BY <3>2, <4>1, <4>2, <4>3, <4>5
    <3>. QED BY <3>1, <3>2
  <2>2. F(g) = g
    BY <1>2, <2>1
  <2>. QED BY <2>2
<1>4. Widths(racks) = F(Widths(racks))
  <2>1. Widths(racks) = CHOOSE f : f = F(f)
    BY DEF Widths
  <2>. HIDE DEF F
  <2>. QED BY <1>3, <2>1
<1>5. \A i \in 0..n : Widths(racks)[i] = i * one
  <2>. DEFINE T == {i \in 0..n : Widths(racks)[i] = i * one}
  <2>1. 0 \in T
    <3>1. Widths(racks)[0] = F(Widths(racks))[0]
      BY <1>4
    <3>2. F(Widths(racks))[0] = 0
      BY <1>2
    <3>. QED BY <1>1, <3>1, <3>2
  <2>2. ASSUME NEW k \in 1..n, k - 1 \in T PROVE k \in T
    <3>1. Widths(racks)[k] = F(Widths(racks))[k]
      BY <1>4
    <3>2. F(Widths(racks))[k] = Widths(racks)[k - 1] + wide + HSpacing
      BY <1>2
    <3>3. Widths(racks)[k - 1] = (k - 1) * one
      BY <2>2
    <3>4. (k - 1) * one + wide + HSpacing = k * one
      <4>1. (k - 1) * one = k * one - one /\ k * one \in Int
        BY ONLY one \in Nat, k \in 1..n
      <4>. QED BY <1>1, <4>1, Spaces
    <3>. HIDE DEF F
    <3>. QED BY <3>1, <3>2, <3>3, <3>4
  <2>3. 0..n \subseteq T
    <3>. HIDE DEF T
    <3>. QED BY <2>1, <2>2, Climb
  <2>. QED BY <2>3
<1>. QED BY <1>1, <1>2, <1>5 DEF WidthOf

(* The tallest rack is as high as every other and its label.                *)
LEMMA TallestIs ==
    ASSUME NEW n \in Nat, NEW wide \in Nat \ {0}, NEW racks \in RacksOf(n, wide)
    PROVE  /\ TallestRack(racks) \in Nat
           /\ \A i \in 1..n : racks[i].height <= TallestRack(racks)
           /\ n > 0 => TallestRack(racks) > 0
<1>1. DOMAIN racks = 1..n /\ \A i \in 1..n : racks[i].height \in Nat \ {0}
  BY RacksAre
<1>. DEFINE H == {r.height : r \in ToSet(racks)} \cup {0}
            U == {u \in Nat : \A h \in H : h <= u}
            T == {k \in 0..n : \E u \in Nat : \A i \in 1..k : racks[i].height <= u}
<1>2. H = {racks[i].height : i \in 1..n} \cup {0}
  BY <1>1 DEF ToSet
<1>3. H \subseteq Nat /\ 0 \in H
  <2>. HIDE DEF H
  <2>. QED BY <1>1, <1>2
<1>4. 0..n \subseteq T
  <2>1. 0 \in T
    OBVIOUS
  <2>2. ASSUME NEW k \in 1..n, k - 1 \in T PROVE k \in T
    <3>1. PICK u \in Nat : \A i \in 1..(k - 1) : racks[i].height <= u
      BY <2>2
    <3>2. racks[k].height \in Nat
      BY <1>1
    <3>3. \A i \in 1..k : racks[i].height <= u + racks[k].height
      <4>. TAKE i \in 1..k
      <4>1. racks[i].height \in Nat /\ (i = k \/ i \in 1..(k - 1))
        BY <1>1
      <4>. QED BY <3>1, <3>2, <4>1
    <3>4. u + racks[k].height \in Nat
      BY <3>2
    <3>. QED BY <3>3, <3>4
  <2>. HIDE DEF T
  <2>. QED BY <2>1, <2>2, Climb
<1>5. U # {}
  <2>1. n \in T
    <3>. HIDE DEF T
    <3>. QED BY <1>4
  <2>2. PICK u \in Nat : \A i \in 1..n : racks[i].height <= u
    BY <2>1
  <2>3. \A h \in H : h <= u
    BY <1>2, <2>2
  <2>. QED BY <2>3
<1>6. PICK m \in U : \A u \in U : m <= u
  <2>1. U \subseteq Nat
    OBVIOUS
  <2>. HIDE DEF U
  <2>. QED BY <1>5, <2>1, Least
<1>7. m \in H
  <2>1. ASSUME m \notin H PROVE FALSE
    <3>1. m \in Nat /\ m # 0 /\ \A h \in H : h \in Nat /\ h <= m /\ h # m
      <4>. HIDE DEF H
      <4>. QED BY <1>3, <1>6, <2>1
    <3>2. m - 1 \in Nat /\ \A h \in H : h <= m - 1
      <4>. HIDE DEF H
      <4>. QED BY <3>1
    <3>3. m - 1 \in U
      BY <3>2
    <3>. HIDE DEF U
    <3>. QED BY <1>6, <3>1, <3>3
  <2>. QED BY <2>1
<1>8. Max(H) \in Nat /\ \A h \in H : h <= Max(H)
  <2>1. m \in H /\ \A h \in H : m >= h
    BY <1>3, <1>6, <1>7
  <2>2. Max(H) \in H /\ \A h \in H : Max(H) >= h
    <3>. HIDE DEF H
    <3>. QED BY <2>1 DEF Max
  <2>. HIDE DEF H
  <2>. QED BY <1>3, <2>2
<1>9. TallestRack(racks) = LabelHeight + Max(H)
  BY DEF TallestRack
<1>10. \A i \in 1..n : racks[i].height \in H
  BY <1>2
<1>11. n > 0 => racks[1].height > 0 /\ racks[1].height \in Nat /\ racks[1].height \in H
  <2>. HIDE DEF H
  <2>. QED BY <1>1, <1>10
<1>. HIDE DEF H
<1>. QED BY <1>1, <1>8, <1>9, <1>10, <1>11, Spaces

LEMMA Div ==
    ASSUME NEW x \in Nat, NEW b \in Nat \ {0}
    PROVE  x \div b \in Nat /\ b * (x \div b) <= x /\ x < b * ((x \div b) + 1)
OBVIOUS

LEMMA CeilingIs ==
    ASSUME NEW a \in Nat \ {0}, NEW b \in Nat \ {0}
    PROVE  Ceiling(a, b) \in Nat \ {0}
<1>1. PICK x \in Nat : x = a + b - 1 /\ x >= b
  OBVIOUS
<1>2. PICK q \in Nat : q = x \div b /\ b * q <= x /\ x < b * (q + 1)
  BY Div
<1>3. q # 0
  BY <1>1, <1>2
<1>. QED BY <1>1, <1>2, <1>3 DEF Ceiling

LEMMA Scaled ==
    ASSUME NEW a \in Nat, NEW b \in Nat, NEW y \in Nat \ {0}
    PROVE  (a * y < b * y <=> a < b) /\ (a * y <= b * y <=> a <= b)
OBVIOUS

(* The order of fractions that are compared by their cross products.        *)
LEMMA Crossed ==
    ASSUME NEW a \in Nat, NEW b \in Nat, NEW c \in Nat,
           NEW x \in Nat \ {0}, NEW y \in Nat \ {0}, NEW z \in Nat \ {0},
           a * y <= b * x, b * z <= c * y
    PROVE  a * z <= c * x /\ (a * y < b * x \/ b * z < c * y => a * z < c * x)
<1>1. /\ (a * y) * z <= (b * x) * z /\ (a * y < b * x => (a * y) * z < (b * x) * z)
      /\ (b * z) * x <= (c * y) * x /\ (b * z < c * y => (b * z) * x < (c * y) * x)
  BY Scaled
<1>2. /\ (a * y) * z = (a * z) * y /\ (b * x) * z = (b * z) * x /\ (c * y) * x = (c * x) * y
      /\ (b * x) * z \in Int /\ (a * z) * y \in Int /\ (c * x) * y \in Int
  OBVIOUS
<1>3. (a * z) * y <= (c * x) * y /\ (a * y < b * x \/ b * z < c * y => (a * z) * y < (c * x) * y)
  BY ONLY <1>1, <1>2
<1>4. a * z \in Nat /\ c * x \in Nat
  OBVIOUS
<1>. QED BY <1>3, <1>4, Scaled

(* Among fractions there is a first that is smaller than those before it    *)
(* and not larger than those after it.                                     *)
LEMMA FirstLeast ==
    ASSUME NEW n \in Nat, NEW A \in [0..n -> Nat], NEW H \in [0..n -> Nat \ {0}]
    PROVE  \E r \in 0..n : \A q \in 0..n :
             /\ q < r => A[r] * H[q] < A[q] * H[r]
             /\ q > r => ~ (A[q] * H[r] < A[r] * H[q])
<1>. DEFINE D == [i \in 0..n |-> [j \in 0..n |-> A[i] * H[j]]]
<1>0. PICK C : C = D
  OBVIOUS
<1>. DEFINE First(r, k) == \A q \in 0..k : /\ q < r => C[r][q] < C[q][r]
                                           /\ q > r => C[r][q] <= C[q][r]
            T == {k \in 0..n : \E r \in 0..k : First(r, k)}
<1>1. /\ \A i, j \in 0..n : C[i][j] \in Nat
      /\ \A i, j \in 0..n : C[i][j] = A[i] * H[j]
  <2>1. ASSUME NEW i \in 0..n, NEW j \in 0..n PROVE A[i] * H[j] \in Nat
    <3>1. A[i] \in Nat /\ H[j] \in Nat
      OBVIOUS
    <3>. QED BY ONLY <3>1
  <2>. QED BY <1>0, <2>1
<1>. HIDE DEF D
<1>8. \A i, j \in 0..n : C[i][j] \in Nat
  BY <1>1
<1>2. ASSUME NEW p \in 0..n, NEW r \in 0..n, NEW q \in 0..n,
             C[p][r] < C[r][p], C[r][q] <= C[q][r]
      PROVE  C[p][q] < C[q][p]
  <2>1. /\ A[p] \in Nat /\ A[r] \in Nat /\ A[q] \in Nat
        /\ H[p] \in Nat \ {0} /\ H[r] \in Nat \ {0} /\ H[q] \in Nat \ {0}
    OBVIOUS
  <2>2. C[p][r] <= C[r][p]
    BY <1>8, <1>2
  <2>3. /\ A[p] * H[r] <= A[r] * H[p] /\ A[p] * H[r] < A[r] * H[p]
        /\ A[r] * H[q] <= A[q] * H[r]
    BY <1>1, <1>2, <2>2
  <2>4. A[p] * H[q] < A[q] * H[p]
    BY ONLY <2>1, <2>3, Crossed
  <2>. QED BY <1>1, <2>4
<1>3. 0 \in T
  OBVIOUS
<1>4. ASSUME NEW k \in 1..n, k - 1 \in T PROVE k \in T
  <2>1. PICK r \in 0..(k - 1) : First(r, k - 1)
    BY <1>4
  <2>2. /\ k \in 0..n /\ r \in 0..n /\ r < k
        /\ \A q \in 0..k : q \in 0..n /\ (q = k \/ q \in 0..(k - 1))
    OBVIOUS
  <2>3. CASE C[r][k] <= C[k][r]
    <3>1. First(r, k)
      BY <2>1, <2>2, <2>3
    <3>. HIDE DEF First
    <3>. QED BY <2>2, <3>1
  <2>4. CASE ~ (C[r][k] <= C[k][r])
    <3>1. C[k][r] < C[r][k]
      BY <1>8, <2>2, <2>4
    <3>2. ASSUME NEW q \in 0..k, q < k PROVE C[k][q] < C[q][k]
      <4>1. q \in 0..n /\ q \in 0..(k - 1)
        BY <2>2, <3>2
      <4>2. (q < r => C[r][q] < C[q][r]) /\ (q > r => C[r][q] <= C[q][r])
        BY <2>1, <4>1
      <4>3. C[r][q] \in Nat /\ C[q][r] \in Nat
        BY <1>8, <2>2, <4>1
      <4>4. C[r][q] <= C[q][r]
        BY <2>2, <4>1, <4>2, <4>3
      <4>. QED BY <1>2, <2>2, <3>1, <4>1, <4>4
    <3>3. First(k, k)
      BY <2>2, <3>2
    <3>. HIDE DEF First
    <3>. QED BY <2>2, <3>3
  <2>. QED BY <2>3, <2>4
<1>5. n \in T
  <2>1. 0..n \subseteq T
    <3>. HIDE DEF T
    <3>. QED BY <1>3, <1>4, Climb
  <2>. HIDE DEF T
  <2>. QED BY <2>1
<1>6. PICK r \in 0..n : First(r, n)
  BY <1>5
<1>7. ASSUME NEW q \in 0..n
      PROVE  /\ q < r => C[r][q] < C[q][r]
             /\ q > r => ~ (C[q][r] < C[r][q])
  BY <1>8, <1>6
<1>. QED BY <1>1, <1>7

(* The rows tried, by the number of racks in them.                          *)
Tries(P, racks, n, wide) ==
  /\ Tried(racks) = {P[k] : k \in 0..n}
  /\ \A k \in 0..n : /\ P[k].count = k
                     /\ P[k].width = (IF k = 0 THEN n ELSE k) * (wide + HSpacing)
                     /\ P[k].w \in Nat /\ P[k].h \in Nat \ {0}

LEMMA TriedIs ==
    ASSUME NEW n \in Nat \ {0}, NEW wide \in Nat \ {0}, NEW racks \in RacksOf(n, wide)
    PROVE  \E P : Tries(P, racks, n, wide)
<1>1. PICK one \in Nat \ {0} : one = wide + HSpacing
  BY Spaces
<1>2. PICK tall \in Nat \ {0} : tall = TallestRack(racks)
  BY TallestIs
<1>3. n \in Nat /\ DOMAIN racks = 1..n
  BY RacksAre
<1>4. \A k \in 0..n : Widths(racks)[k] = k * one
  BY <1>1, <1>3, WidthsAre
<1>5. WidthOf(racks) = n * one
  BY <1>1, <1>3, WidthsAre
<1>. DEFINE Height(rows) == (tall + VSpacing) * rows - VSpacing + 2 * Padding
            Picture(k) == [count |-> k, width |-> Widths(racks)[k], w |-> 3 * Widths(racks)[k],
                           h |-> 2 * Height(Ceiling(n * one, Widths(racks)[k]))]
            Empty == [count |-> 0, width |-> n * one, w |-> 0, h |-> 1]
            P == [k \in 0..n |-> IF k = 0 THEN Empty ELSE Picture(k)]
<1>6. Tried(racks) = {Empty} \cup {Picture(k) : k \in 1..n}
  BY <1>2, <1>3, <1>5 DEF Tried
<1>7. Tried(racks) = {P[k] : k \in 0..n}
  <2>1. P[0] = Empty /\ \A k \in 1..n : P[k] = Picture(k)
    OBVIOUS
  <2>2. 0..n = {0} \cup 1..n
    OBVIOUS
  <2>. HIDE DEF P, Empty, Picture
  <2>. QED BY <1>6, <2>1, <2>2
<1>8. ASSUME NEW k \in 1..n
      PROVE  /\ Widths(racks)[k] = k * one /\ 3 * Widths(racks)[k] \in Nat
             /\ 2 * Height(Ceiling(n * one, Widths(racks)[k])) \in Nat \ {0}
  <2>1. k * one \in Nat \ {0} /\ n * one \in Nat \ {0}
    BY ONLY n \in Nat \ {0}, one \in Nat \ {0}, k \in 1..n
  <2>2. Widths(racks)[k] = k * one
    BY <1>4
  <2>3. PICK c \in Nat \ {0} : c = Ceiling(n * one, k * one)
    BY <2>1, CeilingIs
  <2>4. Height(c) \in Nat \ {0}
    <3>1. PICK s \in Nat \ {0} : s = tall + VSpacing /\ s > VSpacing
      BY Spaces
    <3>2. s * c >= s /\ s * c \in Nat
      BY ONLY s \in Nat \ {0}, c \in Nat \ {0}
    <3>3. PICK z \in Nat : z = s * c /\ z >= s
      BY <3>2
    <3>4. z - VSpacing + 2 * Padding \in Nat \ {0}
      BY ONLY <3>1, <3>3, Spaces
    <3>. QED BY <3>1, <3>3, <3>4
  <2>5. 2 * Height(c) \in Nat \ {0}
    <3>. HIDE DEF Height
    <3>. QED BY <2>4
  <2>. HIDE DEF Height
  <2>. QED BY <2>1, <2>2, <2>3, <2>5
<1>9. ASSUME NEW k \in 0..n
      PROVE  /\ P[k].count = k
             /\ P[k].width = (IF k = 0 THEN n ELSE k) * one
             /\ P[k].w \in Nat /\ P[k].h \in Nat \ {0}
  <2>1. CASE k = 0
    BY <2>1
  <2>2. CASE k # 0
    <3>1. k \in 1..n /\ P[k] = Picture(k)
      BY <2>2
    <3>. HIDE DEF P, Height
    <3>. QED BY <1>8, <2>2, <3>1
  <2>. QED BY <2>1, <2>2
<1>. HIDE DEF P
<1>. QED BY <1>1, <1>7, <1>9 DEF Tries

(* The best row holds a number of racks.                                    *)
LEMMA BestIs ==
    ASSUME NEW n \in Nat \ {0}, NEW wide \in Nat \ {0}, NEW racks \in RacksOf(n, wide),
           NEW size \in [width : Nat, height : Nat]
    PROVE  \E c \in 1..n : BestWidth(racks, size) = c * (wide + HSpacing)
<1>0. PICK P : Tries(P, racks, n, wide)
  BY TriedIs
<1>1. /\ Tried(racks) = {P[k] : k \in 0..n}
      /\ \A k \in 0..n : /\ P[k].count = k
                         /\ P[k].width = (IF k = 0 THEN n ELSE k) * (wide + HSpacing)
                         /\ P[k].w \in Nat /\ P[k].h \in Nat \ {0}
  BY <1>0 DEF Tries
<1>. DEFINE A == [k \in 0..n |-> Away(P[k], size)]
            H == [k \in 0..n |-> P[k].h]
            Best(r) == \A q \in Tried(racks) : /\ q.count < r.count => Nearer(r, q, size)
                                               /\ q.count > r.count => ~Nearer(q, r, size)
<1>2. A \in [0..n -> Nat] /\ H \in [0..n -> Nat \ {0}]
  <2>1. ASSUME NEW k \in 0..n PROVE Away(P[k], size) \in Nat
    <3>1. PICK w \in Nat, h \in Nat : w = P[k].w /\ h = P[k].h
      BY <1>1
    <3>2. PICK a \in Nat, b \in Nat : a = w * size.height /\ b = size.width * h
      <4>1. size.height \in Nat /\ size.width \in Nat
        OBVIOUS
      <4>. QED BY <4>1
    <3>3. Distance(a, b) \in Nat
      BY DEF Distance
    <3>. QED BY <3>1, <3>2, <3>3 DEF Away
  <2>. QED BY <1>1, <2>1
<1>3. PICK r \in 0..n : \A q \in 0..n : /\ q < r => A[r] * H[q] < A[q] * H[r]
                                        /\ q > r => ~ (A[q] * H[r] < A[r] * H[q])
  <2>. HIDE DEF A, H
  <2>. QED BY <1>2, FirstLeast
<1>4. \A i, j \in 0..n : Nearer(P[i], P[j], size) <=> A[i] * H[j] < A[j] * H[i]
  BY DEF Nearer
<1>5. P[r] \in Tried(racks) /\ Best(P[r])
  <2>. HIDE DEF A, H
  <2>. QED BY <1>1, <1>3, <1>4
<1>6. BestWidth(racks, size) = (CHOOSE b \in Tried(racks) : Best(b)).width
  BY DEF BestWidth
<1>7. PICK b \in Tried(racks) : BestWidth(racks, size) = b.width
  <2>. HIDE DEF Best
  <2>. QED BY <1>5, <1>6
<1>8. PICK k \in 0..n : b = P[k]
  BY <1>1
<1>9. \E c \in 1..n : c = IF k = 0 THEN n ELSE k
  OBVIOUS
<1>. QED BY <1>1, <1>7, <1>8, <1>9

LEMMA NumRowsIs ==
    ASSUME NEW n \in Nat \ {0}, NEW wide \in Nat \ {0}, NEW racks \in RacksOf(n, wide),
           NEW size \in [width : Nat, height : Nat]
    PROVE  NumRows(racks, size) \in Nat \ {0} /\ (n = 1 => NumRows(racks, size) = 1)
<1>1. PICK one \in Nat \ {0} : one = wide + HSpacing
  BY Spaces
<1>2. PICK c \in 1..n : BestWidth(racks, size) = c * one
  BY <1>1, BestIs
<1>3. WidthOf(racks) = n * one
  BY <1>1, WidthsAre
<1>4. c * one \in Nat \ {0} /\ n * one \in Nat \ {0}
  BY ONLY n \in Nat \ {0}, one \in Nat \ {0}, c \in 1..n
<1>5. Ceiling(n * one, c * one) \in Nat \ {0}
  BY <1>4, CeilingIs
<1>6. n = 1 => ~ (n * one > c * one)
  <2>1. n = 1 => c = n
    OBVIOUS
  <2>. QED BY ONLY <1>4, <2>1
<1>. QED BY <1>2, <1>3, <1>5, <1>6 DEF NumRows

(* The first of the row of each rack: it is 1, and each rack begins a new   *)
(* row exactly when it would leave the one of the rack before it.           *)
Filled(f, n, L) ==
  /\ f \in [1..n -> Nat]
  /\ \A i \in 1..n : f[i] = IF i = 1 THEN 1 ELSE IF <<f[i - 1], i>> \in L THEN i ELSE f[i - 1]

(* The racks that would leave a row, with the first of the row.             *)
Leaving(racks, rows, n, one, wide) ==
  {p \in Nat \X Nat : ((p[2] - p[1]) * one + wide) * Unit(racks, rows) > ActualWidth(racks, rows)}

(* Such a function exists: it is made longer one rack at a time.            *)
LEMMA FilledExists ==
    ASSUME NEW n \in Nat, NEW L
    PROVE  \E f : Filled(f, n, L)
<1>. DEFINE T == {k \in 0..n : \E f : Filled(f, k, L)}
<1>1. 0 \in T
  <2>1. Filled([i \in 1..0 |-> 0], 0, L)
    BY DEF Filled
  <2>. QED BY <2>1
<1>2. ASSUME NEW k \in 1..n, k - 1 \in T PROVE k \in T
  <2>1. PICK f : Filled(f, k - 1, L)
    BY <1>2
  <2>2. /\ f \in [1..(k - 1) -> Nat]
        /\ \A i \in 1..(k - 1) :
             f[i] = IF i = 1 THEN 1 ELSE IF <<f[i - 1], i>> \in L THEN i ELSE f[i - 1]
    BY <2>1 DEF Filled
  <2>3. PICK last \in Nat : last = IF k = 1 THEN 1 ELSE IF <<f[k - 1], k>> \in L THEN k ELSE f[k - 1]
    <3>1. k # 1 => f[k - 1] \in Nat
      BY <2>2
    <3>. QED BY <3>1
  <2>. DEFINE g == [i \in 1..k |-> IF i = k THEN last ELSE f[i]]
  <2>4. g \in [1..k -> Nat]
    BY <2>2
  <2>5. ASSUME NEW i \in 1..k
        PROVE  g[i] = IF i = 1 THEN 1 ELSE IF <<g[i - 1], i>> \in L THEN i ELSE g[i - 1]
    <3>1. i # 1 => i - 1 \in 1..k /\ i - 1 # k /\ g[i - 1] = f[i - 1]
      OBVIOUS
    <3>2. CASE i = k
      <4>1. g[i] = last
        BY <3>2
      <4>. QED BY <2>3, <3>1, <3>2, <4>1
    <3>3. CASE i # k
      <4>1. g[i] = f[i] /\ i \in 1..(k - 1)
        BY <3>3
      <4>. QED BY <2>2, <3>1, <4>1
    <3>. QED BY <3>2, <3>3
  <2>6. Filled(g, k, L)
    <3>. HIDE DEF g
    <3>. QED BY <2>4, <2>5 DEF Filled
  <2>. QED BY <2>6
<1>3. n \in T
  <2>1. 0..n \subseteq T
    <3>. HIDE DEF T
    <3>. QED BY <1>1, <1>2, Climb
  <2>. HIDE DEF T
  <2>. QED BY <2>1
<1>. QED BY <1>3

LEMMA FirstIs ==
    ASSUME NEW n \in Nat \ {0}, NEW wide \in Nat \ {0}, NEW racks \in RacksOf(n, wide),
           NEW rows \in Nat \ {0}
    PROVE  Filled(FirstOfRow(racks, rows), n, Leaving(racks, rows, n, wide + HSpacing, wide))
<1>1. PICK one \in Nat \ {0} : one = wide + HSpacing
  BY Spaces
<1>2. n \in Nat /\ DOMAIN racks = 1..n /\ \A i \in 1..n : racks[i].width = wide
  BY RacksAre
<1>3. \A i \in 0..n : Widths(racks)[i] = i * one
  BY <1>1, <1>2, WidthsAre
<1>. DEFINE W == Widths(racks)
            out(from, i) == (W[i - 1] - W[from - 1] + racks[i].width) * Unit(racks, rows)
                              > ActualWidth(racks, rows)
            to(from, i) == IF out(from, i) THEN i ELSE from
            F(f) == [i \in DOMAIN racks |-> IF i = 1 THEN 1 ELSE to(f[i - 1], i)]
            L == {p \in (1..n) \X (1..n) : out(p[1], p[2])}
            M == Leaving(racks, rows, n, one, wide)
<1>4. PICK f : Filled(f, n, L)
  BY <1>2, FilledExists
<1>5. ASSUME NEW i \in 1..n PROVE f[i] \in 1..i
  <2>. DEFINE T == {k \in 0..n : k = 0 \/ f[k] \in 1..k}
  <2>1. 0 \in T
    OBVIOUS
  <2>2. ASSUME NEW k \in 1..n, k - 1 \in T PROVE k \in T
    <3>1. f[k] = IF k = 1 THEN 1 ELSE IF <<f[k - 1], k>> \in L THEN k ELSE f[k - 1]
      BY <1>4 DEF Filled
    <3>2. k # 1 => f[k - 1] \in 1..(k - 1)
      BY <2>2
    <3>3. f[k] \in 1..k
      <4>. HIDE DEF L
      <4>. QED BY <3>1, <3>2
    <3>. QED BY <3>3
  <2>3. i \in T
    <3>1. 0..n \subseteq T
      <4>. HIDE DEF T
      <4>. QED BY <1>2, <2>1, <2>2, Climb
    <3>. HIDE DEF T
    <3>. QED BY <3>1
  <2>. QED BY <2>3
<1>6. F(f) = f
  <2>1. ASSUME NEW i \in 1..n PROVE f[i] = IF i = 1 THEN 1 ELSE to(f[i - 1], i)
    <3>1. f[i] = IF i = 1 THEN 1 ELSE IF <<f[i - 1], i>> \in L THEN i ELSE f[i - 1]
      BY <1>4 DEF Filled
    <3>2. CASE i = 1
      BY <3>1, <3>2
    <3>3. CASE i # 1
      <4>1. i - 1 \in 1..n
        BY <3>3
      <4>2. PICK a \in 1..n : a = f[i - 1]
        BY <1>5, <4>1
      <4>3. <<a, i>> \in L <=> out(a, i)
        OBVIOUS
      <4>. HIDE DEF L, out
      <4>. QED BY <3>1, <3>3, <4>2, <4>3
    <3>. QED BY <3>2, <3>3
  <2>2. f = [i \in 1..n |-> f[i]]
    BY <1>4 DEF Filled
  <2>. HIDE DEF to, L
  <2>. QED BY <1>2, <2>1, <2>2
<1>7. FirstOfRow(racks, rows) = F(FirstOfRow(racks, rows))
  <2>1. FirstOfRow(racks, rows) = CHOOSE g : g = F(g)
    BY DEF FirstOfRow
  <2>. HIDE DEF F
  <2>. QED BY <1>6, <2>1
<1>8. PICK g : g = FirstOfRow(racks, rows)
  OBVIOUS
<1>9. \A i \in 1..n : g[i] = IF i = 1 THEN 1 ELSE to(g[i - 1], i)
  <2>1. g = F(g)
    <3>. HIDE DEF F
    <3>. QED BY <1>7, <1>8
  <2>. HIDE DEF to
  <2>. QED BY <1>2, <2>1
<1>10. DOMAIN g = 1..n /\ g = [i \in 1..n |-> g[i]]
  <2>1. g = F(g)
    <3>. HIDE DEF F
    <3>. QED BY <1>7, <1>8
  <2>. HIDE DEF to
  <2>. QED BY <1>2, <2>1
<1>11. ASSUME NEW i \in 1..n PROVE g[i] \in 1..i
  <2>. DEFINE T == {k \in 0..n : k = 0 \/ g[k] \in 1..k}
  <2>1. 0 \in T
    OBVIOUS
  <2>2. ASSUME NEW k \in 1..n, k - 1 \in T PROVE k \in T
    <3>1. g[k] = IF k = 1 THEN 1 ELSE IF out(g[k - 1], k) THEN k ELSE g[k - 1]
      BY <1>9
    <3>2. k # 1 => g[k - 1] \in 1..(k - 1)
      BY <2>2
    <3>3. g[k] \in 1..k
      <4>. HIDE DEF out
      <4>. QED BY <3>1, <3>2
    <3>. QED BY <3>3
  <2>3. i \in T
    <3>1. 0..n \subseteq T
      <4>. HIDE DEF T
      <4>. QED BY <1>2, <2>1, <2>2, Climb
    <3>. HIDE DEF T
    <3>. QED BY <3>1
  <2>. QED BY <2>3
<1>12. ASSUME NEW i \in 1..n, NEW a \in 1..i PROVE out(a, i) <=> <<a, i>> \in M
  <2>1. i - 1 \in 0..n /\ a - 1 \in 0..n
    OBVIOUS
  <2>2. (i - 1) * one - (a - 1) * one = (i - a) * one
    BY ONLY one \in Nat \ {0}, i \in 1..n, a \in 1..i
  <2>3. W[i - 1] - W[a - 1] + racks[i].width = (i - a) * one + wide
    BY <1>2, <1>3, <2>1, <2>2
  <2>4. <<a, i>> \in Nat \X Nat
    OBVIOUS
  <2>. HIDE DEF W
  <2>. QED BY <2>3, <2>4 DEF Leaving
<1>13. Filled(g, n, M)
  <2>1. g \in [1..n -> Nat]
    BY <1>10, <1>11
  <2>2. ASSUME NEW i \in 1..n
        PROVE  g[i] = IF i = 1 THEN 1 ELSE IF <<g[i - 1], i>> \in M THEN i ELSE g[i - 1]
    <3>1. CASE i = 1
      BY <1>9, <3>1
    <3>2. CASE i # 1
      <4>1. i - 1 \in 1..n
        BY <3>2
      <4>2. PICK a \in 1..i : a = g[i - 1]
        BY <1>11, <4>1
      <4>3. out(a, i) <=> <<a, i>> \in M
        BY <1>12
      <4>4. g[i] = IF out(a, i) THEN i ELSE a
        BY <1>9, <3>2, <4>2
      <4>. HIDE DEF out, M
      <4>. QED BY <3>2, <4>2, <4>3, <4>4
    <3>. QED BY <3>1, <3>2
  <2>. HIDE DEF M
  <2>. QED BY <2>1, <2>2 DEF Filled
<1>. QED BY <1>1, <1>8, <1>13

(* What that makes of the rows.                                             *)
InRow(f, i, L) ==
  /\ f[i] \in 1..i /\ f[f[i]] = f[i]
  /\ \A k \in f[i]..i : f[k] = f[i]
  /\ i = f[i] \/ <<f[i], i>> \notin L

LEMMA RowsAre ==
    ASSUME NEW n \in Nat \ {0}, NEW L, NEW f, Filled(f, n, L), NEW i \in 1..n
    PROVE  InRow(f, i, L)
<1>. DEFINE T == {k \in 0..n : k = 0 \/ InRow(f, k, L)}
<1>1. \A k \in 1..n : f[k] = IF k = 1 THEN 1 ELSE IF <<f[k - 1], k>> \in L THEN k ELSE f[k - 1]
  BY DEF Filled
<1>2. 0 \in T
  OBVIOUS
<1>3. ASSUME NEW k \in 1..n, k - 1 \in T PROVE k \in T
  <2>1. CASE f[k] = k
    <3>1. InRow(f, k, L)
      BY <2>1 DEF InRow
    <3>. QED BY <3>1
  <2>2. CASE f[k] # k
    <3>1. f[k] = IF k = 1 THEN 1 ELSE IF <<f[k - 1], k>> \in L THEN k ELSE f[k - 1]
      BY <1>1
    <3>2. k # 1
      BY <2>2, <3>1
    <3>3. f[k] = f[k - 1] /\ <<f[k - 1], k>> \notin L
      BY <2>2, <3>1, <3>2
    <3>4. InRow(f, k - 1, L)
      BY <1>3, <3>2
    <3>5. f[k - 1] \in 1..(k - 1)
      BY <3>4 DEF InRow
    <3>6. \A j \in f[k - 1]..k : j = k \/ j \in f[k - 1]..(k - 1)
      BY <3>5
    <3>7. InRow(f, k, L)
      BY <3>3, <3>4, <3>5, <3>6 DEF InRow
    <3>. QED BY <3>7
  <2>. QED BY <2>1, <2>2
<1>4. i \in T
  <2>1. 0..n \subseteq T
    <3>. HIDE DEF T
    <3>. QED BY <1>2, <1>3, Climb
  <2>. HIDE DEF T
  <2>. QED BY <2>1
<1>. QED BY <1>4

(* The number of a row is the number of racks that began one.               *)
LEMMA RowsCount ==
    ASSUME NEW n \in Nat \ {0}, NEW L, NEW f, Filled(f, n, L),
           NEW i \in 1..n, NEW j \in 1..n, i <= j
    PROVE  /\ RowOf(f, i) \in Nat
           /\ f[i] = f[j] => RowOf(f, i) = RowOf(f, j)
           /\ f[i] # f[j] => RowOf(f, i) < RowOf(f, j)
<1>0. InRow(f, i, L) /\ InRow(f, j, L)
  BY RowsAre
<1>. DEFINE B(k) == {a \in 2..k : f[a] = a}
<1>1. \A k \in 1..n : IsFiniteSet(B(k)) /\ Cardinality(B(k)) \in Nat
  <2>. TAKE k \in 1..n
  <2>1. IsFiniteSet(2..k)
    BY FS_Interval
  <2>2. B(k) \in SUBSET (2..k)
    OBVIOUS
  <2>. HIDE DEF B
  <2>. QED BY <2>1, <2>2, FS_Subset, FS_CardinalityType
<1>2. \A k \in 1..n : RowOf(f, k) = Cardinality(B(k))
  BY DEF RowOf
<1>3. CASE f[i] = f[j]
  <2>1. ASSUME NEW a \in 2..j, f[a] = a PROVE a \in 2..i
    <3>1. f[j] \in 1..j /\ f[i] \in 1..i /\ \A k \in f[j]..j : f[k] = f[j]
      BY <1>0 DEF InRow
    <3>. QED BY <1>3, <2>1, <3>1
  <2>2. B(i) = B(j)
    BY <2>1
  <2>. HIDE DEF B
  <2>. QED BY <1>1, <1>2, <1>3, <2>2
<1>4. CASE f[i] # f[j]
  <2>1. f[j] \in 1..j /\ f[f[j]] = f[j] /\ \A k \in f[j]..j : f[k] = f[j]
    BY <1>0 DEF InRow
  <2>2. f[j] > i
    BY <1>4, <2>1
  <2>3. f[j] \in B(j) /\ f[j] \notin B(i) /\ B(i) \cup {f[j]} \in SUBSET B(j)
    BY <2>1, <2>2
  <2>. HIDE DEF B
  <2>4. Cardinality(B(i) \cup {f[j]}) = Cardinality(B(i)) + 1
    BY <1>1, <2>3, FS_AddElement
  <2>5. Cardinality(B(i) \cup {f[j]}) <= Cardinality(B(j))
    BY <1>1, <2>3, FS_Subset
  <2>. QED BY <1>1, <1>2, <1>4, <2>4, <2>5
<1>. QED BY <1>3, <1>4

(* When no row is left before it holds c racks, the rows before a rack hold *)
(* c each.                                                                 *)
LEMMA RowsHold ==
    ASSUME NEW n \in Nat \ {0}, NEW L, NEW f, Filled(f, n, L), NEW c \in Nat \ {0},
           \A i \in 1..n : \A a \in 1..i : <<a, i>> \in L => i - a >= c,
           NEW i \in 1..n
    PROVE  RowOf(f, i) * c + 1 <= f[i]
<1>. DEFINE Row(k) == RowOf(f, k)
            T == {k \in 0..n : k = 0 \/ Row(k) * c + 1 <= f[k]}
<1>1. \A k \in 1..n : f[k] = IF k = 1 THEN 1 ELSE IF <<f[k - 1], k>> \in L THEN k ELSE f[k - 1]
  BY DEF Filled
<1>2. 0 \in T
  OBVIOUS
<1>3. Row(1) = 0
  <2>1. {a \in 2..1 : f[a] = a} = {}
    OBVIOUS
  <2>. QED BY <2>1, FS_EmptySet DEF RowOf
<1>4. ASSUME NEW k \in 1..n, k - 1 \in T PROVE k \in T
  <2>1. CASE k = 1
    <3>1. f[k] = 1
      BY <1>1, <2>1
    <3>2. 0 * c + 1 <= 1
      BY ONLY c \in Nat \ {0}
    <3>3. Row(k) = 0
      BY <1>3, <2>1
    <3>. HIDE DEF Row
    <3>. QED BY <3>1, <3>2, <3>3
  <2>2. CASE k # 1
    <3>1. k - 1 \in 1..n /\ Row(k - 1) * c + 1 <= f[k - 1]
      BY <1>4, <2>2
    <3>2. Row(k - 1) \in Nat /\ Row(k) \in Nat
      BY <3>1, RowsCount
    <3>3. f[k - 1] \in 1..(k - 1)
      BY <3>1, RowsAre DEF InRow
    <3>4. CASE <<f[k - 1], k>> \in L
      <4>1. k - f[k - 1] >= c /\ f[k] = k
        BY <1>1, <2>2, <3>3, <3>4
      <4>2. Row(k) <= Row(k - 1) + 1
        <5>. DEFINE B(m) == {a \in 2..m : f[a] = a}
        <5>1. IsFiniteSet(B(k - 1))
          <6>1. IsFiniteSet(2..(k - 1)) /\ B(k - 1) \in SUBSET (2..(k - 1))
            BY FS_Interval
          <6>. HIDE DEF B
          <6>. QED BY <6>1, FS_Subset
        <5>2. B(k) = B(k - 1) \cup {k}
          BY <2>2, <4>1
        <5>3. Cardinality(B(k)) <= Cardinality(B(k - 1)) + 1
          <6>. HIDE DEF B
          <6>1. Cardinality(B(k - 1)) \in Nat
            BY <5>1, FS_CardinalityType
          <6>2. Cardinality(B(k - 1) \cup {k}) =
                  IF k \in B(k - 1) THEN Cardinality(B(k - 1)) ELSE Cardinality(B(k - 1)) + 1
            BY <5>1, FS_AddElement
          <6>. QED BY <5>2, <6>1, <6>2
        <5>. QED BY <5>3 DEF RowOf
      <4>3. PICK r \in Nat, s \in Nat, g \in Nat : r = Row(k - 1) /\ s = Row(k) /\ g = f[k - 1]
        BY <3>2, <3>3
      <4>4. s * c <= (r + 1) * c /\ (r + 1) * c = r * c + c /\ r * c \in Nat /\ s * c \in Nat
        BY ONLY <4>2, <4>3, c \in Nat \ {0}
      <4>5. s * c + 1 <= k
        BY ONLY <3>1, <4>1, <4>3, <4>4, c \in Nat \ {0}, k \in 1..n
      <4>. HIDE DEF Row
      <4>. QED BY <4>1, <4>3, <4>5
    <3>5. CASE <<f[k - 1], k>> \notin L
      <4>1. f[k] = f[k - 1]
        BY <1>1, <2>2, <3>5
      <4>2. Row(k) = Row(k - 1)
        BY <3>1, <4>1, RowsCount
      <4>. HIDE DEF Row
      <4>. QED BY <3>1, <4>1, <4>2
    <3>. QED BY <3>4, <3>5
  <2>. QED BY <2>1, <2>2
<1>5. i \in T
  <2>1. 0..n \subseteq T
    <3>. HIDE DEF T
    <3>. QED BY <1>2, <1>4, Climb
  <2>. HIDE DEF T
  <2>. QED BY <2>1
<1>. QED BY <1>5

(* A row has room for its share of the racks.                               *)
LEMMA RoomInRow ==
    ASSUME NEW n \in Nat \ {0}, NEW wide \in Nat \ {0}, NEW racks \in RacksOf(n, wide),
           NEW rows \in Nat \ {0}
    PROVE  /\ Unit(racks, rows) \in Nat \ {0} /\ ActualWidth(racks, rows) \in Nat
           /\ RacksWidth(racks, rows) = ActualWidth(racks, rows) + 2 * HPadding * Unit(racks, rows)
           /\ \E c \in Nat \ {0} :
                /\ n <= rows * c
                /\ \A d \in Nat : d < c => (d * (wide + HSpacing) + wide) * Unit(racks, rows)
                                             <= ActualWidth(racks, rows)
<1>1. PICK one \in Nat \ {0} : one = wide + HSpacing /\ wide <= one
  BY Spaces
<1>2. Len(racks) = n /\ WidthOf(racks) = n * one
  BY <1>1, RacksAre, WidthsAre
<1>3. PICK pad \in Nat : pad = 2 * Padding
  BY Spaces
<1>4. PICK unit \in Nat \ {0} : unit = (IF rows = 1 THEN 1 ELSE rows * n)
  <2>1. rows * n \in Nat \ {0}
    BY ONLY rows \in Nat \ {0}, n \in Nat \ {0}
  <2>. QED BY <2>1
<1>5. PICK share \in Nat \ {0} : share = (IF rows = 1 THEN 1 ELSE n + rows)
  OBVIOUS
<1>6. PICK all \in Nat : all = n * one
  BY ONLY n \in Nat \ {0}, one \in Nat \ {0}
<1>7. PICK row \in Nat : row = all * share
  BY ONLY all \in Nat, share \in Nat \ {0}
<1>8. PICK extra \in Nat : extra = pad * unit
  BY ONLY pad \in Nat, unit \in Nat \ {0}
<1>9. Unit(racks, rows) = unit /\ ActualWidth(racks, rows) = row + extra
  <2>1. Unit(racks, rows) = unit
    BY <1>2, <1>4 DEF Unit
  <2>2. RowWidth(racks, rows) = row
    BY <1>2, <1>5, <1>6, <1>7 DEF RowWidth
  <2>. QED BY <1>3, <1>8, <2>1, <2>2 DEF ActualWidth
<1>10. PICK c \in Nat \ {0} : c = IF rows = 1 THEN n ELSE (n \div rows) + 1
  <2>1. n \div rows \in Nat
    BY Div
  <2>. QED BY <2>1
<1>11. /\ n <= rows * c
       /\ (rows = 1 => c = n) /\ (rows # 1 => rows * c <= n + rows)
  <2>1. CASE rows = 1
    BY ONLY <1>10, <2>1, n \in Nat \ {0}
  <2>2. CASE rows # 1
    <3>1. PICK q \in Nat : q = n \div rows /\ rows * q <= n /\ n < rows * (q + 1)
      BY Div
    <3>2. c = q + 1 /\ rows * (q + 1) = rows * q + rows /\ rows * q \in Nat
      BY ONLY <1>10, <2>2, <3>1, rows \in Nat \ {0}, q \in Nat
    <3>. QED BY ONLY <2>2, <3>1, <3>2, rows \in Nat \ {0}, n \in Nat \ {0}
  <2>. QED BY <2>1, <2>2
<1>12. ASSUME NEW d \in Nat, d < c
       PROVE  (d * one + wide) * unit <= row + extra
  <2>1. PICK z \in Nat : z = d * one + wide /\ z <= c * one
    <3>1. d * one \in Nat /\ (d + 1) * one = d * one + one /\ (d + 1) * one <= c * one /\ c * one \in Nat
      BY ONLY <1>12, c \in Nat \ {0}, d \in Nat, one \in Nat \ {0}
    <3>. QED BY ONLY <1>1, <3>1, one \in Nat \ {0}, wide \in Nat \ {0}
  <2>2. z * unit <= (c * one) * unit /\ z * unit \in Nat /\ (c * one) * unit \in Nat
    BY ONLY <2>1, c \in Nat \ {0}, one \in Nat \ {0}, unit \in Nat \ {0}, z \in Nat
  <2>3. (c * one) * unit <= row
    <3>1. CASE rows = 1
      <4>1. c = n /\ unit = 1 /\ share = 1
        BY ONLY <1>4, <1>5, <1>11, <3>1
      <4>. QED BY ONLY <1>6, <1>7, <4>1, n \in Nat \ {0}, one \in Nat \ {0}
    <3>2. CASE rows # 1
      <4>1. rows * c <= share /\ unit = rows * n
        BY ONLY <1>4, <1>5, <1>11, <3>2
      <4>2. (c * one) * unit = (n * one) * (rows * c)
        BY ONLY <4>1, rows \in Nat \ {0}, n \in Nat \ {0}, one \in Nat \ {0}, c \in Nat \ {0}
      <4>3. PICK m \in Nat : m = rows * c
        BY ONLY rows \in Nat \ {0}, c \in Nat \ {0}
      <4>4. all * m <= all * share
        BY ONLY <4>1, <4>3, all \in Nat, m \in Nat, share \in Nat \ {0}
      <4>. QED BY <1>6, <1>7, <4>2, <4>3, <4>4
    <3>. QED BY <3>1, <3>2
  <2>. QED BY ONLY <2>1, <2>2, <2>3, row \in Nat, extra \in Nat
<1>13. RacksWidth(racks, rows) = ActualWidth(racks, rows) + 2 * HPadding * Unit(racks, rows)
  BY DEF RacksWidth
<1>14. row + extra \in Nat
  OBVIOUS
<1>. QED BY <1>1, <1>9, <1>11, <1>12, <1>13, <1>14

(* Where a rack is drawn.                                                   *)
Placed(racks, rows, wide, n, i, at) ==
  /\ at.row = RowOf(FirstOfRow(racks, rows), i)
  /\ at.x = IF n = 1 THEN (RacksWidth(racks, 1) - wide) \div 2
            ELSE HPadding + Padding + (i - FirstOfRow(racks, rows)[i]) * (wide + HSpacing)
  /\ at.y = Padding * (IF rows > 1 THEN 2 ELSE 1)
              + (TallestRack(racks) + VSpacing) * at.row + TallestRack(racks) - racks[i].height

LEMMA PlaceIs ==
    ASSUME NEW n \in Nat \ {0}, NEW wide \in Nat \ {0}, NEW racks \in RacksOf(n, wide),
           NEW rows \in Nat \ {0}, NEW i \in 1..n
    PROVE  Placed(racks, rows, wide, n, i, Place(racks, rows)[i])
<1>1. Len(racks) = n /\ DOMAIN racks = 1..n /\ racks[i].width = wide
  BY RacksAre
<1>2. PICK one \in Nat \ {0} : one = wide + HSpacing
  BY Spaces
<1>3. \A k \in 0..n : Widths(racks)[k] = k * one
  BY <1>2, WidthsAre
<1>4. PICK a \in 1..i : a = FirstOfRow(racks, rows)[i]
  <2>. DEFINE L == Leaving(racks, rows, n, wide + HSpacing, wide)
  <2>1. InRow(FirstOfRow(racks, rows), i, L)
    <3>1. Filled(FirstOfRow(racks, rows), n, L)
      BY FirstIs
    <3>. HIDE DEF L
    <3>. QED BY <3>1, RowsAre
  <2>. QED BY <2>1 DEF InRow
<1>5. Widths(racks)[i - 1] - Widths(racks)[a - 1] = (i - a) * one
  <2>1. i - 1 \in 0..n /\ a - 1 \in 0..n
    OBVIOUS
  <2>2. (i - 1) * one - (a - 1) * one = (i - a) * one
    BY ONLY one \in Nat \ {0}, i \in 1..n, a \in 1..i
  <2>. QED BY <1>3, <2>1, <2>2
<1>6. HPadding + Padding + Widths(racks)[i - 1] - Widths(racks)[a - 1] = HPadding + Padding + (i - a) * one
  <2>1. i - 1 \in 0..n /\ a - 1 \in 0..n
    OBVIOUS
  <2>2. PICK u \in Nat, v \in Nat : u = Widths(racks)[i - 1] /\ v = Widths(racks)[a - 1]
    <3>1. (i - 1) * one \in Nat /\ (a - 1) * one \in Nat
      BY ONLY one \in Nat \ {0}, i \in 1..n, a \in 1..i
    <3>. QED BY <1>3, <2>1, <3>1
  <2>3. PICK z \in Int : z = (i - a) * one
    BY ONLY one \in Nat \ {0}, i \in 1..n, a \in 1..i
  <2>. QED BY ONLY <1>5, <2>2, <2>3, Spaces
<1>. QED BY <1>1, <1>2, <1>4, <1>6 DEF Place, Placed

(* The rows of n racks: the number of each, and where it begins.            *)
LEMMA NoMoreRows ==
    ASSUME NEW n \in Nat \ {0}, NEW wide \in Nat \ {0}, NEW racks \in RacksOf(n, wide),
           NEW rows \in Nat \ {0}, NEW i \in 1..n
    PROVE  /\ RowOf(FirstOfRow(racks, rows), i) \in Nat
           /\ RowOf(FirstOfRow(racks, rows), i) < rows
<1>1. PICK one \in Nat \ {0} : one = wide + HSpacing
  BY Spaces
<1>2. PICK unit \in Nat \ {0}, all \in Nat : unit = Unit(racks, rows) /\ all = ActualWidth(racks, rows)
  BY RoomInRow
<1>3. PICK c \in Nat \ {0} : /\ n <= rows * c
                             /\ \A d \in Nat : d < c => (d * one + wide) * unit <= all
  BY <1>1, <1>2, RoomInRow
<1>4. PICK f, L : /\ f = FirstOfRow(racks, rows) /\ Filled(f, n, L)
                  /\ L = Leaving(racks, rows, n, one, wide)
  BY <1>1, FirstIs
<1>5. ASSUME NEW k \in 1..n, NEW a \in 1..k, <<a, k>> \in L PROVE k - a >= c
  <2>1. ((k - a) * one + wide) * unit > all
    BY <1>2, <1>4, <1>5 DEF Leaving
  <2>2. PICK d \in Nat : d = k - a
    OBVIOUS
  <2>3. PICK z \in Nat : z = (d * one + wide) * unit
    BY ONLY d \in Nat, one \in Nat \ {0}, wide \in Nat \ {0}, unit \in Nat \ {0}
  <2>4. d < c => z <= all
    BY <1>3, <2>3
  <2>5. z > all
    BY <2>1, <2>2, <2>3
  <2>. QED BY ONLY <2>2, <2>4, <2>5, z \in Nat, all \in Nat, d \in Nat, c \in Nat \ {0}
<1>6. RowOf(f, i) * c + 1 <= f[i]
  BY <1>4, <1>5, RowsHold
<1>7. InRow(f, i, L)
  BY <1>4, RowsAre
<1>8. f[i] \in 1..i /\ RowOf(f, i) \in Nat
  BY <1>4, <1>7, RowsCount DEF InRow
<1>9. PICK r \in Nat : r = RowOf(f, i) /\ r * c + 1 <= n
  <2>1. RowOf(f, i) * c \in Nat
    BY <1>8
  <2>. QED BY <1>6, <1>8, <2>1
<1>10. r < rows
  <2>1. r >= rows => r * c >= rows * c
    BY ONLY r \in Nat, rows \in Nat \ {0}, c \in Nat \ {0}
  <2>2. r * c \in Nat /\ rows * c \in Nat
    BY ONLY r \in Nat, rows \in Nat \ {0}, c \in Nat \ {0}
  <2>. QED BY ONLY <1>3, <1>9, <2>1, <2>2, r \in Nat, rows \in Nat \ {0}, n \in Nat \ {0}
<1>. QED BY <1>4, <1>9, <1>10

(* A rack that is not the first of its row has room in it.                  *)
LEMMA FitsInRow ==
    ASSUME NEW n \in Nat \ {0}, NEW wide \in Nat \ {0}, NEW racks \in RacksOf(n, wide),
           NEW rows \in Nat \ {0}, NEW i \in 1..n
    PROVE  ((i - FirstOfRow(racks, rows)[i]) * (wide + HSpacing) + wide) * Unit(racks, rows)
             <= ActualWidth(racks, rows)
<1>1. PICK one \in Nat \ {0} : one = wide + HSpacing
  BY Spaces
<1>2. PICK unit \in Nat \ {0}, all \in Nat : unit = Unit(racks, rows) /\ all = ActualWidth(racks, rows)
  BY RoomInRow
<1>3. PICK c \in Nat \ {0} : \A d \in Nat : d < c => (d * one + wide) * unit <= all
  BY <1>1, <1>2, RoomInRow
<1>4. PICK f, L : /\ f = FirstOfRow(racks, rows) /\ Filled(f, n, L)
                  /\ L = Leaving(racks, rows, n, one, wide)
  BY <1>1, FirstIs
<1>5. InRow(f, i, L)
  BY <1>4, RowsAre
<1>6. PICK a \in 1..i : a = f[i] /\ (i = a \/ <<a, i>> \notin L)
  BY <1>5 DEF InRow
<1>7. CASE i = a
  <2>1. 0 < c /\ 0 \in Nat
    OBVIOUS
  <2>2. (0 * one + wide) * unit <= all
    BY <1>3, <2>1
  <2>3. i - a = 0
    BY <1>7
  <2>. QED BY <1>1, <1>2, <1>4, <1>6, <2>2, <2>3
<1>8. CASE i # a
  <2>1. <<a, i>> \in Nat \X Nat /\ <<a, i>> \notin L
    BY <1>6, <1>8
  <2>2. ~ (((i - a) * one + wide) * unit > all)
    BY <1>2, <1>4, <2>1 DEF Leaving
  <2>3. PICK z \in Int : z = ((i - a) * one + wide) * unit
    <3>1. PICK d \in Int : d = i - a
      OBVIOUS
    <3>2. (d * one + wide) * unit \in Int
      BY ONLY d \in Int, one \in Nat \ {0}, wide \in Nat \ {0}, unit \in Nat \ {0}
    <3>. QED BY <3>1, <3>2
  <2>4. z <= all
    BY <2>2, <2>3
  <2>. QED BY <1>1, <1>2, <1>4, <1>6, <2>3, <2>4
<1>. QED BY <1>7, <1>8

(* However n racks are spread over rows, they are drawn apart and within    *)
(* the canvas.                                                             *)
LEMMA DrawnApart ==
    ASSUME NEW n \in Nat \ {0}, NEW wide \in Nat \ {0}, NEW racks \in RacksOf(n, wide),
           NEW rows \in Nat \ {0}, n = 1 => rows = 1
    PROVE  Apart(racks, Place(racks, rows))
<1>1. DOMAIN racks = 1..n /\ \A i \in 1..n : racks[i].width = wide
  BY RacksAre
<1>2. PICK tall \in Nat : tall = TallestRack(racks)
  BY TallestIs
<1>3. PICK at : at = Place(racks, rows)
  OBVIOUS
<1>4. PICK f, L : f = FirstOfRow(racks, rows) /\ Filled(f, n, L)
  BY FirstIs
<1>5. ASSUME NEW i \in 1..n, NEW j \in 1..n, i < j
      PROVE  \/ at[i].x + racks[i].width <= at[j].x
             \/ at[i].y + racks[i].height <= at[j].y
  <2>1. Placed(racks, rows, wide, n, i, at[i]) /\ Placed(racks, rows, wide, n, j, at[j])
    BY <1>3, PlaceIs
  <2>2. PICK h \in Nat, g \in Nat : h = racks[i].height /\ g = racks[j].height /\ h <= tall /\ g <= tall
    <3>1. racks[i].height \in Nat /\ racks[j].height \in Nat
      BY RacksAre
    <3>2. racks[i].height <= tall /\ racks[j].height <= tall
      BY <1>2, TallestIs
    <3>. QED BY <3>1, <3>2
  <2>3. n # 1 /\ i <= j
    BY <1>5
  <2>4. PICK a \in 1..i, b \in 1..j : a = f[i] /\ b = f[j]
    <3>1. InRow(f, i, L) /\ InRow(f, j, L)
      BY <1>4, RowsAre
    <3>. QED BY <3>1 DEF InRow
  <2>5. CASE a = b
    <3>1. PICK one \in Nat : one = wide + HSpacing /\ wide <= one
      BY Spaces
    <3>2. (i - a) * one + wide <= (j - b) * one
      <4>1. PICK d \in Nat, e \in Nat : d = i - a /\ e = j - b /\ d + 1 <= e
        BY <1>5, <2>5
      <4>2. (d + 1) * one <= e * one /\ (d + 1) * one = d * one + one /\ d * one \in Nat /\ e * one \in Nat
        BY ONLY <4>1, d \in Nat, e \in Nat, one \in Nat
      <4>3. d * one + wide <= e * one
        BY ONLY <3>1, <4>2, one \in Nat, wide \in Nat \ {0}
      <4>. QED BY <4>1, <4>3
    <3>3. PICK u \in Int, v \in Int : u = (i - a) * one /\ v = (j - b) * one
      <4>1. (i - a) * one \in Int /\ (j - b) * one \in Int
        BY ONLY one \in Nat, a \in 1..i, b \in 1..j, i \in 1..n, j \in 1..n
      <4>. QED BY <4>1
    <3>4. at[i].x = HPadding + Padding + u /\ at[j].x = HPadding + Padding + v
      BY <1>4, <2>1, <2>3, <2>4, <3>1, <3>3 DEF Placed
    <3>5. u + wide <= v
      BY <3>2, <3>3
    <3>6. HPadding + Padding + u + wide <= HPadding + Padding + v
      BY ONLY <3>5, Spaces, u \in Int, v \in Int, wide \in Nat \ {0}
    <3>. QED BY <1>1, <3>4, <3>6
  <2>6. CASE a # b
    <3>1. PICK r \in Nat, s \in Nat : r = RowOf(f, i) /\ s = RowOf(f, j) /\ r < s
      BY <1>4, <2>3, <2>4, <2>6, RowsCount
    <3>2. PICK top \in Nat : top = Padding * (IF rows > 1 THEN 2 ELSE 1)
      BY Spaces
    <3>3. PICK step \in Nat : step = tall + VSpacing /\ tall <= step
      BY Spaces
    <3>4. PICK u \in Nat, v \in Nat : u = step * r /\ v = step * s /\ u + step <= v
      <4>1. step * r \in Nat /\ step * s \in Nat /\ step * (r + 1) = step * r + step
            /\ step * (r + 1) <= step * s
        BY ONLY <3>1, step \in Nat, r \in Nat, s \in Nat
      <4>. QED BY <4>1
    <3>5. at[i].y = top + u + tall - h /\ at[j].y = top + v + tall - g
      BY <1>2, <1>4, <2>1, <2>2, <3>1, <3>2, <3>3, <3>4 DEF Placed
    <3>6. top + u + tall - h + h <= top + v + tall - g
      BY ONLY <2>2, <3>3, <3>4, top \in Nat, u \in Nat, v \in Nat, tall \in Nat, h \in Nat,
              g \in Nat, step \in Nat
    <3>. QED BY <2>2, <3>5, <3>6
  <2>. QED BY <2>5, <2>6
<1>. QED BY <1>1, <1>3, <1>5 DEF Apart

LEMMA DrawnWithin ==
    ASSUME NEW n \in Nat \ {0}, NEW wide \in Nat \ {0}, NEW racks \in RacksOf(n, wide),
           NEW rows \in Nat \ {0}, n = 1 => rows = 1, Padding <= HPadding
    PROVE  WithinCanvas(racks, rows, Place(racks, rows))
<1>1. DOMAIN racks = 1..n /\ Len(racks) = n /\ \A i \in 1..n : racks[i].width = wide
  BY RacksAre
<1>2. PICK tall \in Nat : tall = TallestRack(racks)
  BY TallestIs
<1>3. PICK at : at = Place(racks, rows)
  OBVIOUS
<1>4. PICK unit \in Nat \ {0}, all \in Nat : unit = Unit(racks, rows) /\ all = ActualWidth(racks, rows)
  BY RoomInRow
<1>5. RacksWidth(racks, rows) = all + 2 * HPadding * unit
  BY <1>4, RoomInRow
<1>6. ASSUME NEW i \in 1..n
      PROVE  /\ at[i].row < rows
             /\ (at[i].x + racks[i].width) * unit <= RacksWidth(racks, rows)
             /\ at[i].y >= 0 /\ at[i].y + racks[i].height <= RacksHeight(racks, rows)
  <2>1. Placed(racks, rows, wide, n, i, at[i])
    BY <1>3, PlaceIs
  <2>2. PICK h \in Nat : h = racks[i].height /\ h <= tall
    BY <1>2, RacksAre, TallestIs
  <2>3. PICK r \in Nat : r = at[i].row /\ r < rows
    BY <2>1, NoMoreRows DEF Placed
  <2>4. at[i].y >= 0 /\ at[i].y + h <= RacksHeight(racks, rows)
    <3>1. PICK top \in Nat : top = Padding * (IF rows > 1 THEN 2 ELSE 1) /\ top <= 2 * Padding
      BY Spaces
    <3>2. PICK step \in Nat : step = tall + VSpacing
      BY Spaces
    <3>3. PICK u \in Nat, v \in Nat : u = step * r /\ v = step * (rows - 1) /\ u <= v
      <4>1. step * r \in Nat /\ step * (rows - 1) \in Nat /\ step * r <= step * (rows - 1)
        BY ONLY <2>3, step \in Nat, r \in Nat, rows \in Nat \ {0}
      <4>. QED BY <4>1
    <3>4. at[i].y = top + u + tall - h
      BY <1>2, <2>1, <2>2, <2>3, <3>1, <3>2, <3>3 DEF Placed
    <3>5. PICK w \in Nat, z \in Nat : w = rows * tall /\ z = (rows - 1) * VSpacing
      <4>1. rows * tall \in Nat /\ (rows - 1) * VSpacing \in Nat
        BY ONLY Spaces, rows \in Nat \ {0}, tall \in Nat
      <4>. QED BY <4>1
    <3>6. w + z = v + tall
      BY ONLY Spaces, <3>2, <3>3, <3>5, rows \in Nat \ {0}, tall \in Nat, step \in Nat
    <3>7. RacksHeight(racks, rows) = w + z + 4 * Padding
      BY <1>2, <3>5 DEF RacksHeight
    <3>8. PICK pad \in Nat : pad = Padding
      BY Spaces
    <3>9. top + u + tall - h >= 0 /\ top + u + tall - h + h <= w + z + 4 * pad
      BY ONLY <2>2, <3>1, <3>3, <3>6, <3>8, top \in Nat, u \in Nat, v \in Nat, w \in Nat, z \in Nat,
              tall \in Nat, h \in Nat, pad \in Nat
    <3>. QED BY <3>4, <3>7, <3>8, <3>9
  <2>5. CASE n = 1
    <3>1. rows = 1 /\ unit = 1
      BY <1>4, <2>5 DEF Unit
    <3>2. PICK width \in Nat : width = RacksWidth(racks, 1) /\ wide <= width
      <4>1. PICK f, L : f = FirstOfRow(racks, rows) /\ Filled(f, n, L)
        BY FirstIs
      <4>2. i = 1 /\ f[i] = 1
        BY <2>5, <4>1 DEF Filled
      <4>3. ((i - f[i]) * (wide + HSpacing) + wide) * unit <= all
        BY <1>4, <4>1, FitsInRow
      <4>4. ((1 - 1) * (wide + HSpacing) + wide) * 1 = wide
        BY Spaces
      <4>5. wide <= all
        BY <3>1, <4>2, <4>3, <4>4
      <4>. QED BY <1>5, <3>1, <4>5, Spaces
    <3>3. PICK x \in Nat : x = (width - wide) \div 2 /\ x + wide <= width
      <4>1. PICK d \in Nat : d = width - wide
        BY <3>2
      <4>2. d \div 2 \in Nat /\ 2 * (d \div 2) <= d
        BY Div
      <4>. QED BY <4>1, <4>2
    <3>4. at[i].x = x
      BY <2>1, <2>5, <3>2, <3>3 DEF Placed
    <3>5. (x + wide) * unit <= width
      BY <3>1, <3>3
    <3>. QED BY <1>1, <2>2, <2>3, <2>4, <3>1, <3>2, <3>4, <3>5
  <2>6. CASE n # 1
    <3>1. PICK z \in Int : z = (i - FirstOfRow(racks, rows)[i]) * (wide + HSpacing)
      <4>1. PICK f, L : f = FirstOfRow(racks, rows) /\ Filled(f, n, L)
        BY FirstIs
      <4>2. f[i] \in Nat
        BY <4>1 DEF Filled
      <4>3. (i - f[i]) * (wide + HSpacing) \in Int
        BY <4>2, Spaces
      <4>. QED BY <4>1, <4>3
    <3>2. (z + wide) * unit <= all
      BY <1>4, <3>1, FitsInRow
    <3>3. PICK p \in Nat, q \in Nat : p = Padding /\ q = HPadding /\ p <= q
      BY Spaces
    <3>4. at[i].x = q + p + z
      BY <2>1, <2>6, <3>1, <3>3 DEF Placed
    <3>5. (q + p + z + wide) * unit <= all + 2 * q * unit
      <4>1. (q + p + z + wide) * unit = (q + p) * unit + (z + wide) * unit
        BY ONLY p \in Nat, q \in Nat, z \in Int, wide \in Nat \ {0}, unit \in Nat \ {0}
      <4>2. (q + p) * unit <= (2 * q) * unit
        BY ONLY <3>3, p \in Nat, q \in Nat, unit \in Nat \ {0}
      <4>3. (q + p) * unit \in Int /\ (z + wide) * unit \in Int /\ (2 * q) * unit \in Int
        BY ONLY p \in Nat, q \in Nat, z \in Int, wide \in Nat \ {0}, unit \in Nat \ {0}
      <4>. QED BY ONLY <3>2, <4>1, <4>2, <4>3, all \in Nat
    <3>. QED BY <1>1, <1>5, <2>2, <2>3, <2>4, <3>3, <3>4, <3>5
  <2>. QED BY <2>5, <2>6
<1>. QED BY <1>1, <1>3, <1>4, <1>6 DEF WithinCanvas

(***************************************************************************)
(* The scale and the presets                                               *)
(***************************************************************************)

(* The space has its fields, its presets are scales, and so are its own.    *)
Whole(s) ==
  /\ DOMAIN s = {"racks", "drawn", "presets", "zoomIdx", "scale", "infoScale"}
  /\ s = [i \in DOMAIN s |-> s[i]]
Sized(s) ==
  /\ Whole(s)
  /\ s.presets \in Seq(1..MaxZoom) /\ s.presets # <<>>
  /\ s.zoomIdx \in 0..(Len(s.presets) - 1)
  /\ s.scale \in 1..MaxZoom /\ s.infoScale \in 1..MaxZoom

Most == 2 * Cardinality(AllRacks)      \* the instances there can be

LEMMA Scales ==
  /\ MaxZoom \in Nat \ {0} /\ IsFiniteSet(AllRacks)
  /\ Cardinality(AllRacks) \in Nat /\ Most \in Nat
<1>1. MaxZoom \in Nat \ {0} /\ IsFiniteSet(AllRacks)
  BY SceneAssumption, Zenon
<1>2. Cardinality(AllRacks) \in Nat
  BY <1>1, FS_CardinalityType
<1>. QED BY <1>1, <1>2 DEF Most

LEMMA FirstOf ==
    ASSUME NEW S, NEW s \in Seq(S), s # <<>>
    PROVE  s[1] \in S /\ Len(s) \in Nat \ {0}
OBVIOUS

LEMMA PresetsAre ==
    ASSUME NEW w \in Windows, NEW n \in 0..Most
    PROVE  /\ ZoomPresets(w, n) \in Seq(1..MaxZoom) /\ ZoomPresets(w, n) # <<>>
<1>1. ToRow[w] \in Nat \ {0} /\ ShowAll[w][n] \in 1..MaxZoom
  BY SceneAssumption, Zenon DEF Most
<1>2. PICK S, all, row, max : /\ S = 1..MaxZoom /\ all = ShowAll[w][n] /\ row = ToRow[w]
                              /\ max = MaxZoom
  OBVIOUS
<1>3. all \in S /\ max \in S /\ (max > row => row \in S)
  BY <1>1, <1>2, Scales
<1>4. PICK p, q : /\ p = (IF all # row /\ Rows[w][n] > 1 THEN <<all>> ELSE <<>>)
                  /\ q = (IF max > row THEN <<row>> ELSE <<>>)
  OBVIOUS
<1>5. p \in Seq(S) /\ q \in Seq(S) /\ <<max>> \in Seq(S)
  BY <1>3, <1>4
<1>6. (p \o q) \o <<max>> \in Seq(S) /\ (p \o q) \o <<max>> # <<>>
  BY ONLY <1>5
<1>7. ZoomPresets(w, n) = (p \o q) \o <<max>>
  BY <1>2, <1>4 DEF ZoomPresets
<1>. QED BY <1>2, <1>6, <1>7

(* The index of the zoom is one of the presets'.                            *)
LEMMA IdxIs ==
    ASSUME NEW s, s.presets \in Seq(1..MaxZoom), s.presets # <<>>, s.scale \in 1..MaxZoom
    PROVE  \E k \in 0..(Len(s.presets) - 1) : SynchroniseZoomIdx(s) = [s EXCEPT !.zoomIdx = k]
<1>. DEFINE reached(i) == \A j \in 1..i : s.scale >= At(s.presets, j)
            I == 0..(Len(s.presets) - 1)
            LastReached(i) == reached(i) /\ (i + 1 = Len(s.presets) \/ ~reached(i + 1))
            T == {i \in I : i + 1 = Len(s.presets) \/ ~reached(i + 1)}
<1>1. Len(s.presets) \in Nat \ {0}
  OBVIOUS
<1>2. T \subseteq Nat /\ T # {}
  <2>1. Len(s.presets) - 1 \in T
    <3>. HIDE DEF reached
    <3>. QED BY <1>1
  <2>2. T \subseteq I /\ I \subseteq Nat
    <3>. HIDE DEF reached
    <3>. QED BY <1>1
  <2>. HIDE DEF T, I
  <2>. QED BY <2>1, <2>2
<1>3. PICK k \in T : \A j \in T : k <= j
  <2>. HIDE DEF T
  <2>. QED BY <1>2, Least
<1>4. k \in I /\ (k + 1 = Len(s.presets) \/ ~reached(k + 1))
  <2>. HIDE DEF reached
  <2>. QED BY <1>3
<1>5. reached(k)
  <2>1. CASE k = 0
    BY <2>1
  <2>2. CASE k # 0
    <3>1. k - 1 \in I /\ k - 1 < k
      BY <1>4, <2>2
    <3>2. k - 1 \notin T
      <4>. HIDE DEF T
      <4>. QED BY <1>3, <1>4, <3>1
    <3>3. reached((k - 1) + 1)
      <4>. HIDE DEF reached
      <4>. QED BY <3>1, <3>2
    <3>4. (k - 1) + 1 = k
      BY <1>4
    <3>. HIDE DEF reached
    <3>. QED BY <3>3, <3>4
  <2>. QED BY <2>1, <2>2
<1>6. SynchroniseZoomIdx(s) = [s EXCEPT !.zoomIdx = CHOOSE i \in I : LastReached(i)]
  BY DEF SynchroniseZoomIdx
<1>7. (CHOOSE i \in I : LastReached(i)) \in I
  <2>1. \E i \in I : LastReached(i)
    <3>. HIDE DEF reached
    <3>. QED BY <1>4, <1>5
  <2>. HIDE DEF LastReached, I
  <2>. QED BY <2>1
<1>. HIDE DEF LastReached
<1>. QED BY <1>6, <1>7

(* What a new set of racks makes of the space.                              *)
Switched(s, defs, f, r) ==
  /\ Sized(r) /\ r.racks = defs /\ r.drawn = [i \in DOMAIN defs |-> Instance(defs[i], f)]
  /\ r.presets[1] <= r.scale /\ (s.infoScale = s.scale => r.infoScale = r.scale)

LEMMA SwitchIs ==
    ASSUME window \in Windows, NEW s, Sized(s), NEW defs, Len(defs) \in 0..Most, NEW f
    PROVE  Switched(s, defs, f, SwitchRackSet(s, defs, f))
<1>1. PICK made : made = [i \in DOMAIN defs |-> Instance(defs[i], f)]
  OBVIOUS
<1>2. PICK p : p = ZoomPresets(window, Len(defs)) /\ p \in Seq(1..MaxZoom) /\ p # <<>>
  BY PresetsAre
<1>3. MaxZoom \in Nat \ {0} /\ MaxZoom \in 1..MaxZoom
  BY Scales
<1>4. p[1] \in 1..MaxZoom /\ s.presets[1] \in 1..MaxZoom
  <2>1. s.presets \in Seq(1..MaxZoom) /\ s.presets # <<>>
    BY DEF Sized
  <2>. QED BY <1>2, <2>1, FirstOf
<1>. DEFINE built == [s EXCEPT !.racks = defs, !.drawn = made, !.presets = p]
            fitted == IF s.scale = s.presets[1] \/ s.scale < built.presets[1]
                      THEN SetScaleInLayers(built, built.presets[1])
                      ELSE IF s.scale > MaxZoom THEN SetScaleInLayers(built, MaxZoom)
                      ELSE built
<1>5. SwitchRackSet(s, defs, f) = SynchroniseZoomIdx(fitted)
  BY <1>1, <1>2 DEF SwitchRackSet
<1>6. built.racks = defs /\ built.drawn = made /\ built.presets = p /\ Whole(built)
      /\ built.scale = s.scale /\ built.infoScale = s.infoScale
  <2>1. Whole(s)
    BY DEF Sized
  <2>. QED BY ONLY <2>1 DEF Whole
<1>. HIDE DEF built
<1>7. /\ fitted.racks = defs /\ fitted.drawn = made /\ fitted.presets = p /\ Whole(fitted)
      /\ fitted.scale \in 1..MaxZoom /\ fitted.infoScale \in 1..MaxZoom
      /\ p[1] <= fitted.scale /\ (s.infoScale = s.scale => fitted.infoScale = fitted.scale)
  <2>1. s.scale \in 1..MaxZoom /\ s.infoScale \in 1..MaxZoom
    BY DEF Sized
  <2>2. CASE s.scale = s.presets[1] \/ s.scale < p[1]
    <3>1. fitted = [built EXCEPT !.scale = p[1], !.infoScale = p[1]]
      BY <1>6, <2>2 DEF SetScaleInLayers
    <3>2. /\ fitted.racks = defs /\ fitted.drawn = made /\ fitted.presets = p /\ Whole(fitted)
          /\ fitted.scale = p[1] /\ fitted.infoScale = p[1]
      <4>. HIDE DEF fitted
      <4>. QED BY ONLY <1>6, <3>1 DEF Whole
    <3>3. p[1] <= p[1]
      BY <1>4
    <3>. HIDE DEF fitted
    <3>. QED BY <1>4, <3>2, <3>3
  <2>3. CASE ~ (s.scale = s.presets[1] \/ s.scale < p[1])
    <3>1. fitted = built /\ p[1] <= s.scale
      BY <1>3, <1>4, <1>6, <2>1, <2>3
    <3>. HIDE DEF fitted
    <3>. QED BY <1>6, <2>1, <3>1
  <2>. QED BY <2>2, <2>3
<1>. HIDE DEF fitted
<1>8. PICK k \in 0..(Len(p) - 1) : SynchroniseZoomIdx(fitted) = [fitted EXCEPT !.zoomIdx = k]
  BY <1>2, <1>7, IdxIs
<1>9. PICK r : r = SwitchRackSet(s, defs, f)
  OBVIOUS
<1>10. /\ r.racks = defs /\ r.drawn = made /\ r.presets = p /\ Whole(r) /\ r.zoomIdx = k
       /\ r.scale = fitted.scale /\ r.infoScale = fitted.infoScale
  <2>1. r = [fitted EXCEPT !.zoomIdx = k]
    BY <1>5, <1>8, <1>9
  <2>. QED BY ONLY <1>7, <2>1 DEF Whole
<1>. QED BY <1>1, <1>2, <1>7, <1>9, <1>10 DEF Switched, Sized

(***************************************************************************)
(* One definition for each rack, and two in the split view                 *)
(***************************************************************************)
Sides   == {"none", "front", "rear"}
Def     == [id : AllRacks, side : Sides]
Picture == [id : AllRacks, side : Sides, shows : {"front", "rear"}]

(* No rack is there twice; in the split view each is, front before rear.    *)
Single(defs) == \A i, j \in DOMAIN defs : defs[i].id = defs[j].id => i = j
Paired(defs) == defs = Duplicated(EverySecond(defs)) /\ Single(EverySecond(defs))

LEMMA SeqIs ==
    ASSUME NEW S, NEW s \in Seq(S)
    PROVE  Len(s) \in Nat /\ DOMAIN s = 1..Len(s) /\ \A i \in 1..Len(s) : s[i] \in S
OBVIOUS

(* How many of a set of numbers there are up to each of them.               *)
Rank(F, i) == Cardinality({j \in F : j <= i})

LEMMA RanksAre ==
    ASSUME NEW n \in Nat, NEW F, F \subseteq 1..n
    PROVE  /\ IsFiniteSet(F) /\ Cardinality(F) \in Nat
           /\ \A i \in F : Rank(F, i) \in 1..Cardinality(F)
           /\ \A i, k \in F : i < k => Rank(F, i) < Rank(F, k)
<1>. DEFINE B(i) == {j \in F : j <= i}
<1>1. IsFiniteSet(F)
  <2>1. IsFiniteSet(1..n)
    BY FS_Interval
  <2>. QED BY <2>1, FS_Subset
<1>2. \A i \in F : IsFiniteSet(B(i)) /\ B(i) \in SUBSET F /\ i \in B(i)
  <2>. TAKE i \in F
  <2>1. B(i) \in SUBSET F /\ i \in B(i)
    OBVIOUS
  <2>. HIDE DEF B
  <2>. QED BY <1>1, <2>1, FS_Subset
<1>3. \A i \in F : Cardinality(B(i)) \in 1..Cardinality(F)
  <2>. TAKE i \in F
  <2>. HIDE DEF B
  <2>1. Cardinality(B(i)) \in Nat /\ Cardinality(F) \in Nat
    BY <1>1, <1>2, FS_CardinalityType
  <2>2. Cardinality(B(i)) # 0
    BY <1>2, FS_EmptySet
  <2>3. Cardinality(B(i)) <= Cardinality(F)
    BY <1>1, <1>2, FS_Subset
  <2>. QED BY <2>1, <2>2, <2>3
<1>4. ASSUME NEW i \in F, NEW k \in F, i < k PROVE Cardinality(B(i)) < Cardinality(B(k))
  <2>1. B(i) \cup {k} \in SUBSET B(k) /\ k \notin B(i)
    <3>1. i \in Int /\ k \in Int /\ \A j \in F : j \in Int
      OBVIOUS
    <3>2. ~ (k <= i) /\ k <= k /\ \A j \in F : j <= i => j <= k
      BY <1>4, <3>1
    <3>. QED BY <3>2
  <2>. HIDE DEF B
  <2>2. Cardinality(B(i) \cup {k}) = Cardinality(B(i)) + 1
    BY <1>2, <2>1, FS_AddElement
  <2>3. Cardinality(B(i) \cup {k}) <= Cardinality(B(k))
    BY <1>2, <2>1, FS_Subset
  <2>4. Cardinality(B(i)) \in Nat /\ Cardinality(B(k)) \in Nat
    BY <1>2, FS_CardinalityType
  <2>. QED BY <2>2, <2>3, <2>4
<1>5. Cardinality(F) \in Nat
  BY <1>1, FS_CardinalityType
<1>. QED BY <1>1, <1>3, <1>4, <1>5 DEF Rank

(* So there is one of every rank.                                           *)
LEMMA PlacesAre ==
    ASSUME NEW n \in Nat, NEW F, F \subseteq 1..n, NEW k \in 1..Cardinality(F)
    PROVE  \E i \in F : Rank(F, i) = k
<1>. DEFINE rank == [i \in F |-> Rank(F, i)]
            m == Cardinality(F)
<1>1. IsFiniteSet(F) /\ m \in Nat
  BY RanksAre
<1>2. rank \in [F -> 1..m]
  BY RanksAre
<1>3. \A i, j \in F : rank[i] = rank[j] => i = j
  <2>. SUFFICES ASSUME NEW i \in F, NEW j \in F, rank[i] = rank[j], i # j PROVE FALSE
    OBVIOUS
  <2>1. i \in Int /\ j \in Int /\ (i < j \/ j < i)
    OBVIOUS
  <2>2. rank[i] < rank[j] \/ rank[j] < rank[i]
    BY <2>1, RanksAre
  <2>3. rank[i] \in Nat /\ rank[j] \in Nat
    BY <1>2
  <2>. HIDE DEF rank
  <2>. QED BY <2>2, <2>3
<1>4. rank \in Injection(F, 1..m)
  <2>. HIDE DEF rank
  <2>. QED BY <1>2, <1>3 DEF Injection, IsInjective
<1>5. IsFiniteSet(1..m) /\ Cardinality(1..m) = m
  BY <1>1, FS_Interval
<1>6. rank \in Surjection(F, 1..m)
  <2>. HIDE DEF rank
  <2>. QED BY <1>4, <1>5, FS_Injection
<1>. QED BY <1>6 DEF Surjection

(* A list without a rack twice is not longer than there are racks.          *)
LEMMA SinglesAreFew ==
    ASSUME NEW defs \in Seq(Def), Single(defs)
    PROVE  Len(defs) <= Cardinality(AllRacks)
<1>. DEFINE f == [i \in 1..Len(defs) |-> defs[i].id]
<1>1. Len(defs) \in Nat /\ DOMAIN defs = 1..Len(defs) /\ \A i \in 1..Len(defs) : defs[i] \in Def
  BY SeqIs
<1>2. \A i \in 1..Len(defs) : defs[i].id \in AllRacks
  BY <1>1 DEF Def
<1>3. f \in [1..Len(defs) -> AllRacks] /\ \A i, j \in 1..Len(defs) : f[i] = f[j] => i = j
  BY <1>1, <1>2 DEF Single
<1>4. f \in Injection(1..Len(defs), AllRacks)
  <2>. HIDE DEF f
  <2>. QED BY <1>3 DEF Injection, IsInjective
<1>5. Cardinality(1..Len(defs)) <= Cardinality(AllRacks)
  <2>. HIDE DEF f
  <2>. QED BY <1>4, Scales, FS_Injection
<1>6. Cardinality(1..Len(defs)) = Len(defs)
  <2>1. Cardinality(1..Len(defs)) = IF 1 > Len(defs) THEN 0 ELSE Len(defs) - 1 + 1
    BY <1>1, FS_Interval
  <2>. QED BY <1>1, <2>1
<1>. QED BY <1>5, <1>6

(* One of each: those that are wanted, none of them twice.                  *)
LEMMA OneEachIs ==
    ASSUME NEW defs \in Seq(Def), NEW ids
    PROVE  /\ OneEach(defs, ids) \in Seq(Def) /\ Single(OneEach(defs, ids))
           /\ Len(OneEach(defs, ids)) \in 0..Cardinality(AllRacks)
<1>0. PICK n \in Nat : /\ n = Len(defs) /\ DOMAIN defs = 1..n
                       /\ \A i \in 1..n : defs[i] \in Def
  BY SeqIs
<1>1. PICK F : F = Firsts(defs, ids)
  OBVIOUS
<1>2. /\ F \subseteq 1..n
      /\ \A i, j \in F : defs[i].id = defs[j].id => i = j
  <2>1. F = {i \in 1..n : defs[i].id \in ids /\ \A j \in 1..(i - 1) : defs[j].id # defs[i].id}
    BY <1>0, <1>1 DEF Firsts
  <2>2. ASSUME NEW i \in F, NEW j \in F, defs[i].id = defs[j].id, i < j PROVE FALSE
    <3>1. i \in 1..(j - 1)
      BY <2>1, <2>2
    <3>. QED BY <2>1, <2>2, <3>1
  <2>3. \A i, j \in F : i = j \/ i < j \/ j < i
    BY <2>1
  <2>4. F \subseteq 1..n
    BY <2>1
  <2>. QED BY <2>2, <2>3, <2>4
<1>. DEFINE place(k) == CHOOSE i \in F : Rank(F, i) = k
            m == Cardinality(F)
<1>3. m \in Nat
  BY <1>2, RanksAre
<1>4. ASSUME NEW k \in 1..m
      PROVE  place(k) \in F /\ Rank(F, place(k)) = k
  <2>1. k \in 1..Cardinality(F)
    OBVIOUS
  <2>2. PICK i \in F : Rank(F, i) = k
    <3>. HIDE DEF m, place
    <3>. QED BY <1>2, <2>1, PlacesAre
  <2>. QED BY <2>2
<1>5. OneEach(defs, ids) = [k \in 1..m |-> defs[place(k)]]
  BY <1>1 DEF OneEach, Rank
<1>. HIDE DEF place, m
<1>6. PICK e : e = OneEach(defs, ids)
  OBVIOUS
<1>7. e \in [1..m -> Def]
  BY <1>0, <1>2, <1>4, <1>5, <1>6
<1>8. e \in Seq(Def) /\ Len(e) = m /\ DOMAIN e = 1..m
  <2>. HIDE DEF Def
  <2>. QED BY <1>3, <1>7, IsSequence
<1>9. Single(e)
  <2>1. ASSUME NEW i \in 1..m, NEW j \in 1..m, e[i].id = e[j].id PROVE i = j
    <3>1. place(i) = place(j)
      <4>1. e[i] = defs[place(i)] /\ e[j] = defs[place(j)] /\ place(i) \in F /\ place(j) \in F
        BY <1>4, <1>5, <1>6
      <4>. QED BY <1>2, <2>1, <4>1
    <3>. QED BY <1>4, <3>1
  <2>. QED BY <1>8, <2>1 DEF Single
<1>10. Len(e) <= Cardinality(AllRacks)
  BY <1>8, <1>9, SinglesAreFew
<1>. QED BY <1>3, <1>6, <1>8, <1>9, <1>10, Scales

(* A list in which each rack is twice.                                      *)
Twice(e, d) ==
  /\ d \in Seq(Def) /\ Len(d) = 2 * Len(e)
  /\ \A i \in 1..Len(d) : d[i].side # "none" /\ d[i].id = e[(i + 1) \div 2].id
                          /\ (i + 1) \div 2 \in 1..Len(e)
  /\ \A a \in 1..Len(e) : /\ 2 * a - 1 \in 1..Len(d) /\ 2 * a \in 1..Len(d)
                          /\ d[2 * a - 1].id = e[a].id /\ d[2 * a].id = e[a].id
  /\ Ids(d) = Ids(e)

LEMMA Halves ==
    ASSUME NEW n \in Nat, NEW i \in 1..(2 * n), NEW a \in 1..n
    PROVE  /\ (i + 1) \div 2 \in 1..n
           /\ 2 * a - 1 \in 1..(2 * n) /\ 2 * a \in 1..(2 * n)
           /\ ((2 * a - 1) + 1) \div 2 = a /\ (2 * a + 1) \div 2 = a
OBVIOUS

LEMMA TwiceIs ==
    ASSUME NEW e \in Seq(Def)
    PROVE  Twice(e, Duplicated(e))
<1>1. PICK n \in Nat : /\ n = Len(e) /\ DOMAIN e = 1..n
                       /\ \A i \in 1..n : e[i] \in Def
  BY SeqIs
<1>2. \A i \in 1..n : e[i].id \in AllRacks
  BY <1>1 DEF Def
<1>3. PICK d : d = Duplicated(e)
  OBVIOUS
<1>4. d = [i \in 1..(2 * n) |-> [id   |-> e[(i + 1) \div 2].id,
                                 side |-> IF i % 2 = 1 THEN "front" ELSE "rear"]]
  BY <1>1, <1>3 DEF Duplicated
<1>5. \A i \in 1..(2 * n) : (i + 1) \div 2 \in 1..n
  OBVIOUS
<1>6. \A i \in 1..(2 * n) : d[i] \in Def /\ d[i].side # "none" /\ d[i].id = e[(i + 1) \div 2].id
  <2>. TAKE i \in 1..(2 * n)
  <2>1. PICK side : side = (IF i % 2 = 1 THEN "front" ELSE "rear")
    OBVIOUS
  <2>2. d[i] = [id |-> e[(i + 1) \div 2].id, side |-> side]
    BY <1>4, <2>1
  <2>3. side \in Sides /\ side # "none"
    BY <2>1 DEF Sides
  <2>4. e[(i + 1) \div 2].id \in AllRacks
    BY <1>2, <1>5
  <2>. QED BY <2>2, <2>3, <2>4 DEF Def
<1>7. 2 * n \in Nat
  OBVIOUS
<1>8. d \in [1..(2 * n) -> Def]
  BY ONLY <1>4, <1>6
<1>9. d \in Seq(Def) /\ Len(d) = 2 * n /\ DOMAIN d = 1..(2 * n)
  <2>. HIDE DEF Def
  <2>. QED BY <1>7, <1>8, IsSequence
<1>10. \A a \in 1..n : /\ 2 * a - 1 \in 1..(2 * n) /\ 2 * a \in 1..(2 * n)
                       /\ d[2 * a - 1].id = e[a].id /\ d[2 * a].id = e[a].id
  <2>. TAKE a \in 1..n
  <2>1. /\ 2 * a - 1 \in 1..(2 * n) /\ 2 * a \in 1..(2 * n)
        /\ ((2 * a - 1) + 1) \div 2 = a /\ (2 * a + 1) \div 2 = a
    OBVIOUS
  <2>. QED BY <1>6, <2>1
<1>11. Ids(d) = Ids(e)
  <2>1. \A x \in Ids(d) : x \in Ids(e)
    BY <1>1, <1>5, <1>6, <1>9 DEF Ids
  <2>2. \A x \in Ids(e) : x \in Ids(d)
    BY <1>1, <1>9, <1>10 DEF Ids
  <2>. QED BY <2>1, <2>2
<1>. QED BY <1>1, <1>3, <1>5, <1>6, <1>9, <1>10, <1>11 DEF Twice

(* The first, the third and so on.                                          *)
Half(d, h) ==
  /\ h \in Seq(Def) /\ Len(h) = (Len(d) + 1) \div 2
  /\ \A a \in 1..Len(h) : 2 * a - 1 \in 1..Len(d) /\ h[a] = d[2 * a - 1]

LEMMA HalfIs ==
    ASSUME NEW d \in Seq(Def)
    PROVE  Half(d, EverySecond(d)) /\ (Single(d) => Single(EverySecond(d)))
<1>1. PICK n \in Nat : /\ n = Len(d) /\ DOMAIN d = 1..n
                       /\ \A i \in 1..n : d[i] \in Def
  BY SeqIs
<1>2. PICK m \in Nat : m = (n + 1) \div 2
  OBVIOUS
<1>3. \A a \in 1..m : 2 * a - 1 \in 1..n
  BY <1>2
<1>4. PICK h : h = EverySecond(d)
  OBVIOUS
<1>5. h = [a \in 1..m |-> d[2 * a - 1]]
  BY <1>1, <1>2, <1>4 DEF EverySecond
<1>6. h \in [1..m -> Def]
  BY <1>1, <1>3, <1>5
<1>7. h \in Seq(Def) /\ Len(h) = m /\ DOMAIN h = 1..m
  <2>. HIDE DEF Def
  <2>. QED BY <1>6, IsSequence
<1>8. ASSUME Single(d) PROVE Single(h)
  <2>1. ASSUME NEW a \in 1..m, NEW b \in 1..m, h[a].id = h[b].id PROVE a = b
    <3>1. 2 * a - 1 = 2 * b - 1
      BY <1>1, <1>3, <1>5, <1>8, <2>1 DEF Single
    <3>. QED BY <3>1
  <2>. QED BY <1>7, <2>1 DEF Single
<1>. QED BY <1>1, <1>2, <1>3, <1>4, <1>5, <1>7, <1>8 DEF Half

(* A list without a rack twice becomes one of pairs, and back.              *)
LEMMA PairsAre ==
    ASSUME NEW e \in Seq(Def), Single(e)
    PROVE  Paired(Duplicated(e)) /\ Len(Duplicated(e)) \in 0..Most
<1>1. PICK d : d = Duplicated(e) /\ Twice(e, d)
  BY TwiceIs
<1>2. PICK h : h = EverySecond(d) /\ Half(d, h)
  BY <1>1, HalfIs DEF Twice
<1>3. PICK n \in Nat : n = Len(e) /\ DOMAIN e = 1..n /\ n <= Cardinality(AllRacks)
  BY SeqIs, SinglesAreFew
<1>4. Len(d) = 2 * n /\ Len(h) = n /\ DOMAIN h = 1..n
  <2>1. Len(d) = 2 * n /\ Len(h) = (Len(d) + 1) \div 2
    BY <1>1, <1>2, <1>3 DEF Twice, Half
  <2>2. DOMAIN h = 1..Len(h)
    BY <1>2, SeqIs DEF Half
  <2>. QED BY <2>1, <2>2
<1>5. \A a \in 1..n : h[a].id = e[a].id
  BY <1>1, <1>2, <1>3, <1>4 DEF Twice, Half
<1>6. Single(h)
  BY <1>3, <1>4, <1>5 DEF Single
<1>7. Duplicated(h) = d
  <2>1. \A i \in 1..(2 * n) : (i + 1) \div 2 \in 1..n
    OBVIOUS
  <2>2. d = [i \in 1..(2 * n) |-> [id   |-> e[(i + 1) \div 2].id,
                                   side |-> IF i % 2 = 1 THEN "front" ELSE "rear"]]
    BY <1>1, <1>3 DEF Duplicated
  <2>3. Duplicated(h) = [i \in 1..(2 * n) |->
                           [id   |-> h[(i + 1) \div 2].id,
                            side |-> IF i % 2 = 1 THEN "front" ELSE "rear"]]
    BY <1>4 DEF Duplicated
  <2>4. \A i \in 1..(2 * n) : h[(i + 1) \div 2].id = e[(i + 1) \div 2].id
    BY <1>5, <2>1
  <2>. QED BY ONLY <2>2, <2>3, <2>4
<1>8. Len(d) \in 0..Most
  BY <1>3, <1>4, Scales DEF Most
<1>. QED BY <1>1, <1>2, <1>6, <1>7, <1>8 DEF Paired

LEMMA HalvesKeep ==
    ASSUME NEW d \in Seq(Def), Single(d) \/ Paired(d)
    PROVE  /\ EverySecond(d) \in Seq(Def) /\ Single(EverySecond(d))
           /\ Len(EverySecond(d)) \in 0..Most
           /\ Paired(d) => Ids(EverySecond(d)) = Ids(d)
<1>1. EverySecond(d) \in Seq(Def) /\ Single(EverySecond(d))
  BY HalfIs DEF Paired, Half
<1>2. Len(EverySecond(d)) \in 0..Most
  <2>1. Len(EverySecond(d)) \in Nat /\ Len(EverySecond(d)) <= Cardinality(AllRacks)
    BY <1>1, SeqIs, SinglesAreFew
  <2>. QED BY <2>1, Scales DEF Most
<1>3. ASSUME Paired(d) PROVE Ids(EverySecond(d)) = Ids(d)
  BY <1>1, <1>3, TwiceIs DEF Paired, Twice
<1>. QED BY <1>1, <1>2, <1>3

(* The odd numbers, and how many of them there are.                         *)
LEMMA OddsAre ==
    ASSUME NEW n \in Nat, NEW F, F = {2 * a - 1 : a \in 1..n}, NEW k \in 0..n
    PROVE  Rank(F, 2 * k - 1) = k
<1>. DEFINE G == {j \in F : j <= 2 * k - 1}
            f == [a \in 1..k |-> 2 * a - 1]
<1>1. \A a \in 1..k : 2 * a - 1 \in G
  OBVIOUS
<1>2. \A j \in G : \E a \in 1..k : 2 * a - 1 = j
  OBVIOUS
<1>3. f \in [1..k -> G] /\ \A a, b \in 1..k : f[a] = f[b] => a = b
  BY <1>1
<1>4. f \in Bijection(1..k, G)
  <2>1. \A j \in G : \E a \in 1..k : f[a] = j
    BY <1>2
  <2>. HIDE DEF G, f
  <2>. QED BY <1>3, <2>1 DEF Bijection, Injection, IsInjective, Surjection
<1>5. IsFiniteSet(1..k) /\ Cardinality(1..k) = k
  <2>1. Cardinality(1..k) = IF 1 > k THEN 0 ELSE k - 1 + 1
    BY FS_Interval
  <2>2. IsFiniteSet(1..k)
    BY FS_Interval
  <2>. QED BY <2>1, <2>2
<1>6. Cardinality(G) = Cardinality(1..k)
  <2>. HIDE DEF G, f
  <2>. QED BY <1>4, <1>5, FS_Bijection DEF ExistsBijection
<1>. QED BY <1>5, <1>6 DEF Rank

(* One of each pair is its first.                                           *)
LEMMA OneEachOfPairs ==
    ASSUME NEW d \in Seq(Def), Paired(d)
    PROVE  OneEach(d, Ids(d)) = EverySecond(d)
<1>1. PICK h : h = EverySecond(d) /\ Half(d, h) /\ Single(h) /\ d = Duplicated(h)
  BY HalfIs DEF Paired
<1>2. PICK n \in Nat : /\ n = Len(h) /\ DOMAIN h = 1..n /\ Len(d) = 2 * n
                       /\ DOMAIN d = 1..(2 * n) /\ Twice(h, d)
  <2>1. h \in Seq(Def)
    BY <1>1 DEF Half
  <2>2. Twice(h, d) /\ Len(h) \in Nat /\ DOMAIN h = 1..Len(h)
    BY <1>1, <2>1, TwiceIs, SeqIs
  <2>3. Len(d) = 2 * Len(h)
    BY <2>2 DEF Twice
  <2>4. DOMAIN d = 1..Len(d)
    BY SeqIs
  <2>. QED BY <2>2, <2>3, <2>4
<1>3. \A i \in 1..(2 * n) : d[i].id = h[(i + 1) \div 2].id /\ (i + 1) \div 2 \in 1..n
  BY <1>2 DEF Twice
<1>4. \A i, j \in 1..n : h[i].id = h[j].id => i = j
  BY <1>1, <1>2 DEF Single
<1>5. PICK F : F = Firsts(d, Ids(d))
  OBVIOUS
<1>6. F = {i \in 1..(2 * n) : d[i].id \in Ids(d) /\ \A j \in 1..(i - 1) : d[j].id # d[i].id}
  BY <1>2, <1>5 DEF Firsts
<1>7. F = {2 * a - 1 : a \in 1..n}
  <2>1. ASSUME NEW i \in F PROVE \E a \in 1..n : i = 2 * a - 1
    <3>1. i \in 1..(2 * n) /\ \A j \in 1..(i - 1) : d[j].id # d[i].id
      BY <1>6
    <3>2. PICK a \in 1..n : a = (i + 1) \div 2 /\ (i = 2 * a - 1 \/ i = 2 * a)
      <4>. QED BY ONLY <3>1, n \in Nat
    <3>3. CASE i = 2 * a
      <4>1. PICK j \in 1..(i - 1) : j = 2 * a - 1
        BY ONLY <3>1, <3>2, <3>3, n \in Nat
      <4>2. (j + 1) \div 2 = a /\ j \in 1..(2 * n)
        BY ONLY <3>1, <3>2, <3>3, <4>1, n \in Nat
      <4>3. d[j].id = d[i].id
        BY <1>3, <3>1, <3>2, <4>2
      <4>. QED BY <3>1, <4>3
    <3>. QED BY <3>2, <3>3
  <2>2. ASSUME NEW a \in 1..n PROVE 2 * a - 1 \in F
    <3>1. PICK i \in 1..(2 * n) : i = 2 * a - 1 /\ (i + 1) \div 2 = a
      OBVIOUS
    <3>2. d[i].id \in Ids(d)
      BY <1>2 DEF Ids
    <3>3. ASSUME NEW j \in 1..(i - 1) PROVE d[j].id # d[i].id
      <4>1. PICK b : b = (j + 1) \div 2 /\ b # a /\ j \in 1..(2 * n)
        BY ONLY <3>1, <3>3, n \in Nat
      <4>2. d[j].id = h[b].id /\ b \in 1..n /\ d[i].id = h[a].id
        BY <1>3, <3>1, <4>1
      <4>. QED BY <1>4, <4>1, <4>2
    <3>. QED BY <1>6, <3>1, <3>2, <3>3
  <2>. QED BY <2>1, <2>2
<1>8. \A k \in 1..n : Rank(F, 2 * k - 1) = k
  <2>. TAKE k \in 1..n
  <2>1. k \in 0..n
    OBVIOUS
  <2>. QED BY <1>7, <2>1, OddsAre
<1>9. Cardinality(F) = n
  <2>1. n \in 0..n
    OBVIOUS
  <2>2. Rank(F, 2 * n - 1) = n
    BY <1>7, <2>1, OddsAre
  <2>3. \A j \in F : j <= 2 * n - 1
    BY <1>7
  <2>4. {j \in F : j <= 2 * n - 1} = F
    BY <2>3
  <2>. QED BY <2>2, <2>4 DEF Rank
<1>. DEFINE place(k) == CHOOSE i \in F : Rank(F, i) = k
<1>10. ASSUME NEW k \in 1..n PROVE place(k) = 2 * k - 1
  <2>1. 2 * k - 1 \in F /\ Rank(F, 2 * k - 1) = k
    BY <1>7, <1>8
  <2>2. place(k) \in F /\ Rank(F, place(k)) = k
    BY <2>1
  <2>. HIDE DEF place
  <2>3. PICK a \in 1..n : place(k) = 2 * a - 1
    BY <1>7, <2>2
  <2>. QED BY <1>8, <2>2, <2>3
<1>11. OneEach(d, Ids(d)) = [k \in 1..n |-> d[place(k)]]
  BY <1>5, <1>9 DEF OneEach, Rank
<1>. HIDE DEF place
<1>12. EverySecond(d) = [k \in 1..n |-> d[2 * k - 1]]
  <2>1. (2 * n + 1) \div 2 = n
    OBVIOUS
  <2>. QED BY <1>2, <2>1 DEF EverySecond
<1>. QED BY <1>10, <1>11, <1>12

(***************************************************************************)
(* What the operations on the space make of it                             *)
(***************************************************************************)

Painted(s) == /\ s.racks \in Seq(Def) /\ s.drawn \in Seq(Picture)
              /\ Len(s.drawn) <= Most

AllShow(drawn, f) == \A i \in DOMAIN drawn : drawn[i].shows = Shows(drawn[i], f)
HaveSides(drawn)  == \A i \in DOMAIN drawn : drawn[i].side # "none"

(* A picture of each definition.                                            *)
LEMMA InstanceIs ==
    ASSUME NEW f \in Faces, NEW def, def.id \in AllRacks, def.side \in Sides,
           f = "both" => def.side # "none"
    PROVE  /\ Instance(def, f) \in Picture /\ Instance(def, f).side = def.side
           /\ Instance(def, f).shows = Shows(Instance(def, f), f)
<1>1. PICK x : x = Shows(def, f)
  OBVIOUS
<1>2. x \in {"front", "rear"}
  BY <1>1 DEF Shows, Faces, Sides
<1>3. PICK p : p = Instance(def, f)
  OBVIOUS
<1>4. p = [id |-> def.id, side |-> def.side, shows |-> x]
  BY <1>1, <1>3 DEF Instance
<1>5. p.id = def.id /\ p.side = def.side /\ p.shows = x
  BY ONLY <1>4
<1>6. Shows(p, f) = x
  BY <1>1, <1>5 DEF Shows
<1>7. p \in Picture
  BY <1>2, <1>4 DEF Picture
<1>. QED BY <1>3, <1>5, <1>6, <1>7

Depicted(defs, f, made) ==
  /\ made \in Seq(Picture) /\ Len(made) = Len(defs) /\ DOMAIN made = DOMAIN defs
  /\ AllShow(made, f) /\ \A i \in DOMAIN defs : made[i].side = defs[i].side

LEMMA InstancesAre ==
    ASSUME NEW f \in Faces, NEW n \in Nat, NEW defs, DOMAIN defs = 1..n, Len(defs) = n,
           \A i \in 1..n : defs[i].id \in AllRacks /\ defs[i].side \in Sides,
           f = "both" => HaveSides(defs)
    PROVE  Depicted(defs, f, [i \in DOMAIN defs |-> Instance(defs[i], f)])
<1>1. PICK made : made = [i \in DOMAIN defs |-> Instance(defs[i], f)]
  OBVIOUS
<1>2. \A i \in 1..n : /\ made[i] \in Picture /\ made[i].side = defs[i].side
                      /\ made[i].shows = Shows(made[i], f)
  <2>. TAKE i \in 1..n
  <2>1. /\ defs[i].id \in AllRacks /\ defs[i].side \in Sides
        /\ (f = "both" => defs[i].side # "none")
    BY DEF HaveSides
  <2>2. made[i] = Instance(defs[i], f)
    BY <1>1
  <2>. QED BY <2>1, <2>2, InstanceIs
<1>3. made \in [1..n -> Picture]
  <2>. HIDE DEF Picture
  <2>. QED BY <1>1, <1>2
<1>4. made \in Seq(Picture) /\ Len(made) = n /\ DOMAIN made = 1..n
  <2>. HIDE DEF Picture
  <2>. QED BY <1>3, IsSequence
<1>. QED BY <1>1, <1>2, <1>4 DEF AllShow, Depicted

(* New racks, drawn with the face f and at a scale that fits.               *)
Rebuilt(s, f, r) ==
  /\ Sized(r) /\ Painted(r) /\ AllShow(r.drawn, f) /\ Len(r.drawn) = Len(r.racks)
  /\ r.presets[1] <= r.scale /\ (s.infoScale = s.scale => r.infoScale = r.scale)
  /\ IF f = "both" THEN Paired(r.racks) /\ HaveSides(r.drawn) ELSE Single(r.racks)

LEMMA RebuiltIs ==
    ASSUME window \in Windows, NEW s, Sized(s), NEW f \in Faces, NEW defs \in Seq(Def),
           Len(defs) \in 0..Most,
           IF f = "both" THEN Paired(defs) /\ HaveSides(defs) ELSE Single(defs)
    PROVE  /\ Rebuilt(s, f, SwitchRackSet(s, defs, f))
           /\ SwitchRackSet(s, defs, f).racks = defs
<1>1. PICK r : r = SwitchRackSet(s, defs, f) /\ Switched(s, defs, f, r)
  BY SwitchIs
<1>2. PICK n \in Nat : /\ n = Len(defs) /\ DOMAIN defs = 1..n
                       /\ \A i \in 1..n : defs[i].id \in AllRacks /\ defs[i].side \in Sides
  <2>1. Len(defs) \in Nat /\ DOMAIN defs = 1..Len(defs) /\ \A i \in 1..Len(defs) : defs[i] \in Def
    BY SeqIs
  <2>2. \A i \in 1..Len(defs) : defs[i].id \in AllRacks /\ defs[i].side \in Sides
    BY <2>1 DEF Def
  <2>. QED BY <2>1, <2>2
<1>3. r.racks = defs /\ r.drawn = [i \in DOMAIN defs |-> Instance(defs[i], f)]
  BY <1>1 DEF Switched
<1>4. f = "both" => HaveSides(defs)
  OBVIOUS
<1>5. /\ r.drawn \in Seq(Picture) /\ Len(r.drawn) = n /\ DOMAIN r.drawn = 1..n
      /\ AllShow(r.drawn, f) /\ \A i \in 1..n : r.drawn[i].side = defs[i].side
  BY <1>2, <1>3, <1>4, InstancesAre DEF Depicted
<1>6. f = "both" => HaveSides(r.drawn)
  BY <1>2, <1>4, <1>5 DEF HaveSides
<1>7. Painted(r)
  BY <1>2, <1>3, <1>5, Scales DEF Painted
<1>8. /\ Sized(r) /\ r.presets[1] <= r.scale
      /\ (s.infoScale = s.scale => r.infoScale = r.scale)
  BY <1>1 DEF Switched
<1>9. Len(r.drawn) = Len(r.racks)
  BY <1>2, <1>3, <1>5
<1>10. IF f = "both" THEN Paired(r.racks) /\ HaveSides(r.drawn) ELSE Single(r.racks)
  BY <1>3, <1>6
<1>11. Rebuilt(s, f, r)
  BY <1>5, <1>7, <1>8, <1>9, <1>10 DEF Rebuilt
<1>. QED BY <1>1, <1>3, <1>11

LEMMA SplitIs ==
    ASSUME window \in Windows, NEW s, Sized(s), s.racks \in Seq(Def), Single(s.racks)
    PROVE  /\ Rebuilt(s, "both", ShowSplitView(s))
           /\ Ids(ShowSplitView(s).racks) = Ids(s.racks)
<1>1. PICK d : d = Duplicated(s.racks) /\ Twice(s.racks, d)
  BY TwiceIs
<1>2. d \in Seq(Def) /\ Paired(d) /\ Len(d) \in 0..Most
  BY <1>1, PairsAre DEF Twice
<1>3. HaveSides(d) /\ Ids(d) = Ids(s.racks)
  <2>1. DOMAIN d = 1..Len(d)
    BY <1>2, SeqIs
  <2>. QED BY <1>1, <2>1 DEF Twice, HaveSides
<1>4. "both" \in Faces
  BY DEF Faces
<1>5. ShowSplitView(s) = SwitchRackSet(s, d, "both")
  BY <1>1 DEF ShowSplitView
<1>6. Rebuilt(s, "both", SwitchRackSet(s, d, "both")) /\ SwitchRackSet(s, d, "both").racks = d
  BY <1>2, <1>3, <1>4, RebuiltIs
<1>. QED BY <1>3, <1>5, <1>6

LEMMA RevertIs ==
    ASSUME window \in Windows, NEW s, Sized(s), s.racks \in Seq(Def),
           Single(s.racks) \/ Paired(s.racks), NEW f \in {"front", "rear"}
    PROVE  /\ Rebuilt(s, f, RevertFromSplitView(s, f))
           /\ Paired(s.racks) => Ids(RevertFromSplitView(s, f).racks) = Ids(s.racks)
<1>1. PICK d : d = EverySecond(s.racks)
  OBVIOUS
<1>2. /\ d \in Seq(Def) /\ Single(d) /\ Len(d) \in 0..Most
      /\ Paired(s.racks) => Ids(d) = Ids(s.racks)
  BY <1>1, HalvesKeep
<1>3. f \in Faces /\ f # "both"
  BY DEF Faces
<1>4. RevertFromSplitView(s, f) = SwitchRackSet(s, d, f)
  BY <1>1 DEF RevertFromSplitView
<1>5. Rebuilt(s, f, SwitchRackSet(s, d, f)) /\ SwitchRackSet(s, d, f).racks = d
  BY <1>2, <1>3, RebuiltIs
<1>. QED BY <1>2, <1>4, <1>5

(* Removed, replaced or added racks: the split view is restored.            *)
LEMMA RefreshIs ==
    ASSUME window \in Windows, face \in Faces, NEW s, Sized(s), s.racks \in Seq(Def), NEW ids
    PROVE  Rebuilt(s, face, RefreshRacks(s, ids))
<1>1. PICK d : d = OneEach(s.racks, ids)
  OBVIOUS
<1>2. d \in Seq(Def) /\ Single(d) /\ Len(d) \in 0..Most
  BY <1>1, OneEachIs, Scales DEF Most
<1>3. PICK r : r = SwitchRackSet(s, d, face)
  OBVIOUS
<1>4. RefreshRacks(s, ids) = IF face = "both" THEN ShowSplitView(r) ELSE r
  BY <1>1, <1>3 DEF RefreshRacks
<1>5. CASE face # "both"
  BY <1>2, <1>3, <1>4, <1>5, RebuiltIs
<1>6. CASE face = "both"
  <2>1. Switched(s, d, face, r)
    BY <1>2, <1>3, SwitchIs
  <2>2. Sized(r) /\ r.racks = d /\ (s.infoScale = s.scale => r.infoScale = r.scale)
    BY <2>1 DEF Switched
  <2>3. Rebuilt(r, "both", ShowSplitView(r))
    BY <1>2, <2>2, SplitIs
  <2>. QED BY <1>4, <1>6, <2>2, <2>3 DEF Rebuilt
<1>. QED BY <1>5, <1>6

(* The racks laid out anew.                                                 *)
Laid(s, r) ==
  /\ Sized(r) /\ Painted(r) /\ r.racks = s.racks /\ Len(r.drawn) = Len(s.drawn)
  /\ r.drawn = s.drawn \/ AllShow(r.drawn, face)
  /\ HaveSides(s.drawn) => HaveSides(r.drawn)
  /\ r.presets[1] <= r.scale /\ (s.infoScale = s.scale => r.infoScale = r.scale)

LEMMA LaidIs ==
    ASSUME window \in Windows, face \in Faces, NEW s, Sized(s), Painted(s),
           face = "both" => HaveSides(s.drawn)
    PROVE  Laid(s, SetLayout(s))
<1>1. PICK n \in 0..Most : /\ n = Len(s.drawn) /\ DOMAIN s.drawn = 1..n
                           /\ \A i \in 1..n : s.drawn[i] \in Picture
  <2>1. s.drawn \in Seq(Picture) /\ Len(s.drawn) <= Most
    BY DEF Painted
  <2>2. Len(s.drawn) \in Nat /\ DOMAIN s.drawn = 1..Len(s.drawn)
        /\ \A i \in 1..Len(s.drawn) : s.drawn[i] \in Picture
    BY <2>1, SeqIs
  <2>. QED BY <2>1, <2>2, Scales
<1>2. PICK p : p = ZoomPresets(window, n) /\ p \in Seq(1..MaxZoom) /\ p # <<>>
  BY PresetsAre
<1>3. p[1] \in 1..MaxZoom /\ Len(p) \in Nat \ {0}
  BY <1>2, FirstOf
<1>4. PICK q : /\ q = [s EXCEPT !.presets = p] /\ Whole(q) /\ q.presets = p /\ q.racks = s.racks
               /\ q.drawn = s.drawn /\ q.scale = s.scale /\ q.infoScale = s.infoScale
  <2>1. Whole(s)
    BY DEF Sized
  <2>2. PICK q : q = [s EXCEPT !.presets = p]
    OBVIOUS
  <2>3. Whole(q) /\ q.presets = p /\ q.racks = s.racks
        /\ q.drawn = s.drawn /\ q.scale = s.scale /\ q.infoScale = s.infoScale
    BY ONLY <2>1, <2>2 DEF Whole
  <2>. QED BY <2>2, <2>3
<1>5. s.scale \in 1..MaxZoom /\ s.infoScale \in 1..MaxZoom
  BY DEF Sized
<1>6. PICK k \in 0..(Len(p) - 1) : SynchroniseZoomIdx(q) = [q EXCEPT !.zoomIdx = k]
  BY <1>2, <1>4, <1>5, IdxIs
<1>7. PICK laid : /\ laid = SynchroniseZoomIdx(q) /\ Whole(laid) /\ laid.presets = p
                  /\ laid.racks = s.racks /\ laid.drawn = s.drawn /\ laid.scale = s.scale
                  /\ laid.infoScale = s.infoScale /\ laid.zoomIdx = k
  <2>1. PICK laid : laid = SynchroniseZoomIdx(q)
    OBVIOUS
  <2>2. laid = [q EXCEPT !.zoomIdx = k]
    BY <1>6, <2>1
  <2>3. /\ Whole(laid) /\ laid.presets = p
        /\ laid.racks = s.racks /\ laid.drawn = s.drawn /\ laid.scale = s.scale
        /\ laid.infoScale = s.infoScale /\ laid.zoomIdx = k
    BY ONLY <1>4, <2>2 DEF Whole
  <2>. QED BY <2>1, <2>3
<1>8. PICK r : r = SetLayout(s)
  OBVIOUS
<1>9. CASE ~ (s.scale <= p[1] \/ s.scale = s.presets[1])
  <2>1. r = laid
    BY <1>1, <1>2, <1>4, <1>7, <1>8, <1>9 DEF SetLayout
  <2>2. p[1] <= s.scale
    BY <1>3, <1>5, <1>9
  <2>3. Sized(r)
    BY <1>2, <1>5, <1>6, <1>7, <2>1 DEF Sized
  <2>4. Painted(r)
    BY <1>7, <2>1 DEF Painted
  <2>. QED BY <1>7, <1>8, <2>1, <2>2, <2>3, <2>4 DEF Laid
<1>10. CASE s.scale <= p[1] \/ s.scale = s.presets[1]
  <2>1. r = Draw([SetScaleInLayers(laid, p[1]) EXCEPT !.zoomIdx = 0], face)
    BY <1>1, <1>2, <1>4, <1>7, <1>8, <1>10 DEF SetLayout
  <2>2. PICK t : t = [SetScaleInLayers(laid, p[1]) EXCEPT !.zoomIdx = 0]
    OBVIOUS
  <2>3. t = [[laid EXCEPT !.scale = p[1], !.infoScale = p[1]] EXCEPT !.zoomIdx = 0]
    BY <2>2 DEF SetScaleInLayers
  <2>4. /\ Whole(t) /\ t.presets = p /\ t.racks = s.racks /\ t.drawn = s.drawn
        /\ t.scale = p[1] /\ t.infoScale = p[1] /\ t.zoomIdx = 0
    BY ONLY <1>7, <2>3 DEF Whole
  <2>5. PICK made : made = [i \in DOMAIN s.drawn |-> Instance(s.drawn[i], face)]
    OBVIOUS
  <2>6. r = [t EXCEPT !.drawn = made]
    BY <2>1, <2>2, <2>4, <2>5 DEF Draw
  <2>7. /\ Whole(r) /\ r.presets = p /\ r.racks = s.racks /\ r.drawn = made
        /\ r.scale = p[1] /\ r.infoScale = p[1] /\ r.zoomIdx = 0
    BY ONLY <2>4, <2>6 DEF Whole
  <2>8. \A i \in 1..n : s.drawn[i].id \in AllRacks /\ s.drawn[i].side \in Sides
    BY <1>1 DEF Picture
  <2>9. /\ made \in Seq(Picture) /\ Len(made) = n /\ DOMAIN made = 1..n
        /\ AllShow(made, face) /\ \A i \in 1..n : made[i].side = s.drawn[i].side
    <3>1. n \in Nat
      BY <1>1, Scales
    <3>2. Depicted(s.drawn, face, made)
      BY <1>1, <2>5, <2>8, <3>1, InstancesAre
    <3>. QED BY <1>1, <3>2 DEF Depicted
  <2>10. HaveSides(s.drawn) => HaveSides(made)
    BY <1>1, <2>9 DEF HaveSides
  <2>11. Sized(r)
    BY <1>2, <1>3, <2>7 DEF Sized
  <2>12. Painted(r)
    <3>1. s.racks \in Seq(Def) /\ n <= Most
      BY <1>1, Scales DEF Painted
    <3>. QED BY <2>7, <2>9, <3>1 DEF Painted
  <2>13. p[1] <= p[1]
    BY <1>3
  <2>. QED BY <1>1, <1>8, <2>7, <2>9, <2>10, <2>11, <2>12, <2>13 DEF Laid
<1>. QED BY <1>9, <1>10

(* Nothing but the index of the zoom changes.                               *)
OnlyIdx(s, r) ==
  /\ Sized(r) /\ r.racks = s.racks /\ r.drawn = s.drawn /\ r.presets = s.presets
  /\ r.scale = s.scale /\ r.infoScale = s.infoScale

LEMMA OnlyIdxIs ==
    ASSUME NEW s, Sized(s), NEW k \in 0..(Len(s.presets) - 1)
    PROVE  OnlyIdx(s, [s EXCEPT !.zoomIdx = k])
<1>1. PICK r : r = [s EXCEPT !.zoomIdx = k]
  OBVIOUS
<1>2. Whole(s)
  BY DEF Sized
<1>3. /\ Whole(r) /\ r.zoomIdx = k /\ r.racks = s.racks /\ r.drawn = s.drawn
      /\ r.presets = s.presets /\ r.scale = s.scale /\ r.infoScale = s.infoScale
  BY ONLY <1>1, <1>2 DEF Whole
<1>4. Sized(r)
  BY <1>3 DEF Sized
<1>. QED BY <1>1, <1>3, <1>4 DEF OnlyIdx

(* The scale that is zoomed to, and the index that goes with it.            *)
Clamped(s, wanted) ==
  IF wanted > MaxZoom THEN [s EXCEPT !.zoomIdx = 0]
  ELSE IF wanted < s.presets[1] THEN [s EXCEPT !.zoomIdx = Len(s.presets) - 1] ELSE s
Target(s, wanted) ==
  IF wanted > MaxZoom THEN MaxZoom
  ELSE IF wanted < s.presets[1] THEN s.presets[1] ELSE wanted

LEMMA ClampedIs ==
    ASSUME NEW s, Sized(s), NEW wanted \in Int
    PROVE  /\ OnlyIdx(s, Clamped(s, wanted))
           /\ Target(s, wanted) \in 1..MaxZoom /\ s.presets[1] <= Target(s, wanted)
<1>1. /\ Len(s.presets) \in Nat \ {0} /\ s.presets[1] \in 1..MaxZoom
      /\ s.zoomIdx \in 0..(Len(s.presets) - 1)
  <2>1. s.presets \in Seq(1..MaxZoom) /\ s.presets # <<>>
    BY DEF Sized
  <2>. QED BY <2>1, FirstOf DEF Sized
<1>2. OnlyIdx(s, s)
  BY DEF OnlyIdx
<1>3. OnlyIdx(s, [s EXCEPT !.zoomIdx = 0]) /\ OnlyIdx(s, [s EXCEPT !.zoomIdx = Len(s.presets) - 1])
  <2>1. 0 \in 0..(Len(s.presets) - 1) /\ Len(s.presets) - 1 \in 0..(Len(s.presets) - 1)
    BY <1>1
  <2>. QED BY <2>1, OnlyIdxIs
<1>4. OnlyIdx(s, Clamped(s, wanted))
  BY <1>2, <1>3 DEF Clamped
<1>5. Target(s, wanted) \in 1..MaxZoom /\ s.presets[1] <= Target(s, wanted)
  BY <1>1, Scales DEF Target
<1>. QED BY <1>4, <1>5

(* A rack put into the list.                                                *)
LEMMA InsertedIs ==
    ASSUME NEW S, NEW q \in Seq(S), NEW e \in S, NEW i \in 1..(Len(q) + 1)
    PROVE  InsertAt(q, i, e) \in Seq(S)
<1>1. SubSeq(q, 1, i - 1) \in Seq(S) /\ SubSeq(q, i, Len(q)) \in Seq(S) /\ <<e>> \in Seq(S)
  OBVIOUS
<1>. QED BY <1>1 DEF InsertAt

(***************************************************************************)
(* The inductive invariant                                                 *)
(***************************************************************************)

PlainInv == /\ face \in Faces /\ icFace \in Faces /\ rsFace \in Faces /\ window \in Windows
            /\ mask \in BOOLEAN /\ mouseOn \in BOOLEAN /\ icZooming \in BOOLEAN
            /\ unbuilt \in BOOLEAN /\ layoutDue \in BOOLEAN /\ displayDue \in BOOLEAN
            /\ relaid \in BOOLEAN /\ missed \in BOOLEAN /\ broken \in BOOLEAN

(* A flip that fades the labels has turned no rack yet.                     *)
PartsInv ==
  /\ zoom \in [phase : {"none", "fading", "scaling", "showing"}, target : 1..MaxZoom]
  /\ flip \in [phase : {"none", "fading", "turning", "showing"}, waiting : SUBSET Nat,
               turning : Nat, done : Nat, count : Nat, fresh : BOOLEAN]
  /\ flip.phase = "fading" => flip.waiting = {} /\ flip.turning = 0

(* No rack is twice in the list, but in the split view, where each is front *)
(* and rear, until full data comes; what is drawn there has its sides.      *)
RacksInv ==
  /\ Sized(space) /\ Painted(space)
  /\ face = "both" <=> rsFace = "both"
  /\ rsFace # "both" => Single(space.racks)
  /\ rsFace = "both" =>
       /\ HaveSides(space.drawn)
       /\ (unbuilt /\ Single(space.racks)) \/ Paired(space.racks)
       /\ ~unbuilt => Paired(space.racks) /\ Len(space.drawn) = Len(space.racks)

(* A zoom heads for a scale that the presets allow, and takes the layers    *)
(* with it once the labels have faded.                                      *)
LayersInv ==
  ~relaid =>
     IF zoom.phase = "none"
     THEN space.infoScale = space.scale /\ space.presets[1] <= space.scale
     ELSE /\ space.presets[1] <= zoom.target
          /\ zoom.phase # "fading" => space.infoScale = zoom.target

(* The racks that a flip has turned show the face, and so do all of them    *)
(* when it is over or when they were drawn while it turned them.            *)
Turned(drawn) ==
  \A i \in DOMAIN drawn : \/ flip.fresh /\ i \in flip.waiting
                          \/ drawn[i].shows = Shows(drawn[i], face)
FaceInv ==
  ~missed =>
     /\ flip.phase = "none" => AllShow(space.drawn, face)
     /\ flip.phase \in {"turning", "showing"} => Turned(space.drawn)

SceneInv == PlainInv /\ PartsInv /\ RacksInv /\ LayersInv /\ FaceInv

(* Racks that show the face satisfy the invariant whatever the flip does.   *)
LEMMA AllTurned ==
    ASSUME AllShow(space.drawn, face)
    PROVE  FaceInv
BY DEF FaceInv, Turned, AllShow

(***************************************************************************)
(* The zoom                                                                *)
(***************************************************************************)

Starts(target) ==
  /\ zoom.phase = "none" /\ zoom' = [phase |-> "fading", target |-> target]
  /\ relaid' = FALSE /\ broken' = (flip.phase # "none")
UsersZoom ==
  /\ OnlyIdx(space, space')
  /\ \/ UNCHANGED <<zoom, relaid, broken>>
     \/ \E target \in 1..MaxZoom : space.presets[1] <= target /\ Starts(target)
  /\ mask' \in BOOLEAN /\ mouseOn' \in BOOLEAN /\ icZooming' \in BOOLEAN
  /\ UnchangedByZoom

LEMMA UsersZoomIs ==
    ASSUME SceneInv, UserZooms
    PROVE  UsersZoom
<1>1. /\ Sized(space) /\ mask \in BOOLEAN /\ mouseOn \in BOOLEAN /\ icZooming \in BOOLEAN
  BY DEF SceneInv, PlainInv, RacksInv
<1>2. /\ Len(space.presets) \in Nat \ {0} /\ space.scale \in Int
      /\ space.presets \in Seq(1..MaxZoom) /\ space.presets[1] \in 1..MaxZoom
      /\ space.zoomIdx \in 0..(Len(space.presets) - 1)
  <2>1. space.presets \in Seq(1..MaxZoom) /\ space.presets # <<>> /\ space.scale \in 1..MaxZoom
    BY <1>1 DEF Sized
  <2>2. space.scale \in Int
    BY <2>1, Scales
  <2>. QED BY <1>1, <2>1, <2>2, FirstOf DEF Sized
<1>3. OnlyIdx(space, space)
  BY <1>1 DEF OnlyIdx
<1>4. ASSUME StepZoom PROVE UsersZoom
  <2>1. PICK step \in {1, -1}, moved \in BOOLEAN :
          QuickZoom(space, space.scale + step, moved, MouseDisabled)
    BY <1>4 DEF StepZoom
  <2>2. PICK wanted \in Int : wanted = space.scale + step
    BY <1>2
  <2>3. PICK c, t : c = Clamped(space, wanted) /\ t = Target(space, wanted)
    OBVIOUS
  <2>4. OnlyIdx(space, c) /\ t \in 1..MaxZoom /\ space.presets[1] <= t
    BY <1>1, <2>3, ClampedIs
  <2>5. \/ zoom.phase # "none" /\ space' = space /\ MouseDisabled /\ UNCHANGED <<zoom, relaid, broken>>
        \/ space' = c /\ ZoomCompleteEvent /\ UNCHANGED <<zoom, relaid, broken>>
        \/ zoom.phase = "none" /\ StartZoom(c, t, MouseDisabled)
    BY <2>1, <2>2, <2>3 DEF QuickZoom, Clamped, Target
  <2>6. UnchangedByZoom
    BY <1>4 DEF StepZoom
  <2>. QED BY <1>1, <1>3, <2>4, <2>5, <2>6
           DEF UsersZoom, Starts, StartZoom, MouseDisabled, ZoomCompleteEvent
<1>5. ASSUME FocusOn PROVE UsersZoom
  <2>1. PICK scale \in 1..(MaxZoom + 1), moved \in BOOLEAN :
          QuickZoom(space, scale, moved, NoMessage)
    BY <1>5 DEF FocusOn
  <2>2. scale \in Int
    BY Scales
  <2>3. PICK c, t : c = Clamped(space, scale) /\ t = Target(space, scale)
    OBVIOUS
  <2>4. OnlyIdx(space, c) /\ t \in 1..MaxZoom /\ space.presets[1] <= t
    BY <1>1, <2>2, <2>3, ClampedIs
  <2>5. \/ zoom.phase # "none" /\ space' = space /\ NoMessage /\ UNCHANGED <<zoom, relaid, broken>>
        \/ space' = c /\ ZoomCompleteEvent /\ UNCHANGED <<zoom, relaid, broken>>
        \/ zoom.phase = "none" /\ StartZoom(c, t, NoMessage)
    BY <2>1, <2>3 DEF QuickZoom, Clamped, Target
  <2>6. UnchangedByZoom
    BY <1>5 DEF FocusOn
  <2>. QED BY <1>1, <1>3, <2>4, <2>5, <2>6
           DEF UsersZoom, Starts, StartZoom, NoMessage, ZoomCompleteEvent
<1>6. ASSUME NEW idx \in 0..(Len(space.presets) - 1), NEW wanted \in Int, NEW moved \in BOOLEAN,
             \/ QuickZoom([space EXCEPT !.zoomIdx = idx], wanted, moved, MouseDisabled)
             \/ QuickZoom([space EXCEPT !.zoomIdx = idx], wanted, moved, UpdateMessage),
             UnchangedByZoom
      PROVE  UsersZoom
  <2>1. PICK s : s = [space EXCEPT !.zoomIdx = idx] /\ OnlyIdx(space, s)
    BY <1>1, OnlyIdxIs
  <2>2. PICK c, t : c = Clamped(s, wanted) /\ t = Target(s, wanted)
    OBVIOUS
  <2>3. OnlyIdx(s, c) /\ t \in 1..MaxZoom /\ s.presets[1] <= t
    <3>1. Sized(s)
      BY <2>1 DEF OnlyIdx
    <3>. QED BY <2>2, <3>1, ClampedIs
  <2>4. OnlyIdx(space, c) /\ space.presets[1] <= t
    BY <2>1, <2>3 DEF OnlyIdx
  <2>5. \/ space' = s /\ (MouseDisabled \/ UpdateMessage) /\ UNCHANGED <<zoom, relaid, broken>>
        \/ space' = c /\ ZoomCompleteEvent /\ UNCHANGED <<zoom, relaid, broken>>
        \/ zoom.phase = "none" /\ StartZoom(c, t, MouseDisabled)
        \/ zoom.phase = "none" /\ StartZoom(c, t, UpdateMessage)
    BY <1>6, <2>1, <2>2 DEF QuickZoom, Clamped, Target
  <2>. QED BY <1>1, <1>6, <2>1, <2>3, <2>4, <2>5
           DEF UsersZoom, Starts, StartZoom, MouseDisabled, UpdateMessage, ZoomCompleteEvent
<1>7. ASSUME ZoomToPreset PROVE UsersZoom
  <2>1. PICK direction \in {1, -1}, cyclical \in BOOLEAN, moved \in BOOLEAN :
          LET next == space.zoomIdx + direction
              len  == Len(space.presets)
              idx  == (next + len) % len
          IN IF zoom.phase # "none"
             THEN MouseDisabled /\ UNCHANGED <<space, zoom, relaid, broken>>
             ELSE IF ~cyclical /\ next \notin 0..(len - 1)
             THEN ZoomCompleteEvent /\ UNCHANGED <<space, zoom, relaid, broken>>
             ELSE QuickZoom([space EXCEPT !.zoomIdx = idx], At(space.presets, idx),
                            moved, MouseDisabled)
    BY <1>7 DEF ZoomToPreset
  <2>2. UnchangedByZoom
    BY <1>7 DEF ZoomToPreset
  <2>3. PICK len \in Nat \ {0} : len = Len(space.presets)
    BY <1>2
  <2>4. PICK idx : idx = ((space.zoomIdx + direction) + len) % len
    OBVIOUS
  <2>5. idx \in 0..(len - 1)
    <3>1. PICK x \in Nat : x = (space.zoomIdx + direction) + len
      BY <1>2, <2>3
    <3>. QED BY ONLY <2>3, <2>4, <3>1
  <2>6. PICK wanted : wanted = At(space.presets, idx)
    OBVIOUS
  <2>7. wanted \in Int
    <3>1. idx + 1 \in 1..Len(space.presets)
      BY ONLY <2>3, <2>5
    <3>2. \A i \in 1..Len(space.presets) : space.presets[i] \in 1..MaxZoom
      BY <1>2, SeqIs
    <3>3. space.presets[idx + 1] \in 1..MaxZoom
      BY ONLY <3>1, <3>2
    <3>4. wanted \in 1..MaxZoom
      BY <2>6, <3>3 DEF At
    <3>. QED BY <3>4, Scales
  <2>8. \/ (MouseDisabled \/ ZoomCompleteEvent) /\ UNCHANGED <<space, zoom, relaid, broken>>
        \/ QuickZoom([space EXCEPT !.zoomIdx = idx], wanted, moved, MouseDisabled)
    BY <2>1, <2>3, <2>4, <2>6
  <2>9. CASE QuickZoom([space EXCEPT !.zoomIdx = idx], wanted, moved, MouseDisabled)
    BY <1>6, <2>2, <2>3, <2>5, <2>7, <2>9
  <2>10. CASE (MouseDisabled \/ ZoomCompleteEvent) /\ UNCHANGED <<space, zoom, relaid, broken>>
    BY <1>1, <1>3, <2>2, <2>10 DEF UsersZoom, MouseDisabled, ZoomCompleteEvent
  <2>. QED BY <2>8, <2>9, <2>10
<1>8. ASSUME ResetZoom PROVE UsersZoom
  <2>1. UnchangedByZoom
    BY <1>8 DEF ResetZoom
  <2>2. CASE space.scale = space.presets[1]
    <3>1. ZoomCompleteEvent /\ UNCHANGED <<space, zoom, relaid, broken>>
      BY <1>8, <2>2 DEF ResetZoom
    <3>. QED BY <1>3, <2>1, <3>1 DEF UsersZoom, ZoomCompleteEvent
  <2>3. CASE space.scale # space.presets[1]
    <3>1. PICK moved \in BOOLEAN :
            QuickZoom([space EXCEPT !.zoomIdx = 0], space.presets[1], moved, UpdateMessage)
      BY <1>8, <2>3 DEF ResetZoom
    <3>2. 0 \in 0..(Len(space.presets) - 1) /\ space.presets[1] \in Int
      BY <1>2, Scales
    <3>. QED BY <1>6, <2>1, <3>1, <3>2
  <2>. QED BY <2>2, <2>3
<1>. QED BY <1>4, <1>5, <1>7, <1>8 DEF UserZooms

LEMMA UsersZoomKeeps ==
    ASSUME SceneInv, UsersZoom
    PROVE  SceneInv'
<1>. USE DEF SceneInv
<1>1. /\ OnlyIdx(space, space') /\ UnchangedByZoom
      /\ mask' \in BOOLEAN /\ mouseOn' \in BOOLEAN /\ icZooming' \in BOOLEAN
  BY DEF UsersZoom
<1>2. /\ Sized(space') /\ space'.racks = space.racks /\ space'.drawn = space.drawn
      /\ space'.presets = space.presets /\ space'.scale = space.scale
      /\ space'.infoScale = space.infoScale
  BY <1>1 DEF OnlyIdx
<1>3. /\ relaid' \in BOOLEAN /\ broken' \in BOOLEAN
      /\ zoom' \in [phase : {"none", "fading", "scaling", "showing"}, target : 1..MaxZoom]
  <2>1. CASE UNCHANGED <<zoom, relaid, broken>>
    BY <2>1 DEF PlainInv, PartsInv
  <2>2. CASE \E target \in 1..MaxZoom : space.presets[1] <= target /\ Starts(target)
    <3>1. PICK target \in 1..MaxZoom : Starts(target)
      BY <2>2
    <3>2. relaid' \in BOOLEAN /\ broken' \in BOOLEAN
      BY <3>1, Zenon DEF Starts
    <3>. QED BY <3>1, <3>2 DEF Starts
  <2>. QED BY <2>1, <2>2 DEF UsersZoom
<1>4. PlainInv'
  BY <1>1, <1>3 DEF PlainInv, UnchangedByZoom
<1>5. PartsInv'
  BY <1>1, <1>3 DEF PartsInv, UnchangedByZoom
<1>6. RacksInv'
  BY <1>1, <1>2 DEF RacksInv, UnchangedByZoom, Painted
<1>7. LayersInv'
  <2>1. CASE UNCHANGED <<zoom, relaid, broken>>
    BY <1>2, <2>1 DEF LayersInv
  <2>2. CASE \E target \in 1..MaxZoom : space.presets[1] <= target /\ Starts(target)
    <3>1. PICK target \in 1..MaxZoom : space.presets[1] <= target /\ Starts(target)
      BY <2>2
    <3>2. zoom'.phase = "fading" /\ zoom'.target = target
      BY <3>1 DEF Starts
    <3>. QED BY <1>2, <3>1, <3>2 DEF LayersInv
  <2>. QED BY <2>1, <2>2 DEF UsersZoom
<1>8. FaceInv'
  BY <1>1, <1>2 DEF FaceInv, UnchangedByZoom, AllShow, Turned
<1>. QED BY <1>4, <1>5, <1>6, <1>7, <1>8

LEMMA ZoomTimerKeeps ==
    ASSUME SceneInv, ZoomTimer
    PROVE  SceneInv'
<1>. USE DEF SceneInv
<1>1. /\ UnchangedByZoom /\ UNCHANGED <<relaid, broken>>
      /\ NoMessage \/ ZoomCompleteEvent
  BY DEF ZoomTimer, EvZoomReady, EvRackZoomComplete, EvZoomComplete
<1>2. PlainInv'
  BY <1>1 DEF PlainInv, UnchangedByZoom, NoMessage, ZoomCompleteEvent
<1>3. zoom.target \in 1..MaxZoom /\ Sized(space) /\ Whole(space) /\ 1 \in 1..MaxZoom
  BY Scales DEF PartsInv, RacksInv, Sized
<1>4. /\ zoom' \in [phase : {"none", "fading", "scaling", "showing"}, target : 1..MaxZoom]
      /\ Sized(space') /\ space'.racks = space.racks /\ space'.drawn = space.drawn
      /\ space'.presets = space.presets
      /\ LayersInv'
  <2>1. CASE EvZoomReady
    <3>1. /\ zoom.phase = "fading" /\ zoom' = [zoom EXCEPT !.phase = "scaling"]
          /\ space' = [space EXCEPT !.infoScale = zoom.target]
      BY <2>1 DEF EvZoomReady
    <3>2. /\ Whole(space') /\ space'.racks = space.racks /\ space'.drawn = space.drawn
          /\ space'.presets = space.presets /\ space'.zoomIdx = space.zoomIdx
          /\ space'.scale = space.scale /\ space'.infoScale = zoom.target
      BY ONLY <1>3, <3>1 DEF Whole
    <3>3. Sized(space')
      BY <1>3, <3>2 DEF Sized
    <3>4. zoom' = [phase |-> "scaling", target |-> zoom.target]
      BY <3>1 DEF PartsInv
    <3>. QED BY <1>1, <1>3, <3>1, <3>2, <3>3, <3>4 DEF LayersInv
  <2>2. CASE EvRackZoomComplete
    <3>1. /\ zoom.phase = "scaling" /\ zoom' = [zoom EXCEPT !.phase = "showing"]
          /\ space' = space
      BY <2>2 DEF EvRackZoomComplete
    <3>2. zoom' = [phase |-> "showing", target |-> zoom.target]
      BY <3>1 DEF PartsInv
    <3>. QED BY <1>1, <1>3, <3>1, <3>2 DEF LayersInv
  <2>3. CASE EvZoomComplete
    <3>1. PICK s : s = [space EXCEPT !.scale = zoom.target]
      OBVIOUS
    <3>2. zoom.phase = "showing" /\ zoom' = Idle /\ space' = SynchroniseZoomIdx(s)
      BY <2>3, <3>1 DEF EvZoomComplete
    <3>3. /\ Whole(s) /\ s.racks = space.racks /\ s.drawn = space.drawn
          /\ s.presets = space.presets /\ s.scale = zoom.target
          /\ s.infoScale = space.infoScale
      BY ONLY <1>3, <3>1 DEF Whole
    <3>4. s.presets \in Seq(1..MaxZoom) /\ s.presets # <<>> /\ s.infoScale \in 1..MaxZoom
      BY <1>3, <3>3 DEF Sized
    <3>5. PICK k \in 0..(Len(s.presets) - 1) : space' = [s EXCEPT !.zoomIdx = k]
      BY <1>3, <3>2, <3>3, <3>4, IdxIs
    <3>6. /\ Whole(space') /\ space'.racks = s.racks /\ space'.drawn = s.drawn
          /\ space'.presets = s.presets /\ space'.zoomIdx = k
          /\ space'.scale = s.scale /\ space'.infoScale = s.infoScale
      BY ONLY <3>3, <3>5 DEF Whole
    <3>7. Sized(space')
      BY <1>3, <3>3, <3>4, <3>5, <3>6 DEF Sized
    <3>8. zoom' = [phase |-> "none", target |-> 1]
      BY <3>2 DEF Idle
    <3>. QED BY <1>1, <1>3, <3>2, <3>3, <3>6, <3>7, <3>8 DEF LayersInv
  <2>. QED BY <2>1, <2>2, <2>3 DEF ZoomTimer
<1>5. PartsInv'
  BY <1>1, <1>4 DEF PartsInv, UnchangedByZoom
<1>6. RacksInv'
  BY <1>1, <1>4 DEF RacksInv, UnchangedByZoom, Painted
<1>7. FaceInv'
  BY <1>1, <1>4 DEF FaceInv, UnchangedByZoom, AllShow, Turned
<1>. QED BY <1>2, <1>4, <1>5, <1>6, <1>7

(***************************************************************************)
(* New racks, and the flip                                                 *)
(***************************************************************************)

Rebuilds ==
  /\ Rebuilt(space, face', space') /\ RacksRebuilt
  /\ face' \in Faces /\ icFace' \in Faces /\ rsFace' \in Faces
  /\ face' = "both" <=> rsFace' = "both"
  /\ unbuilt' \in BOOLEAN /\ mask' \in BOOLEAN
  /\ UNCHANGED <<window, zoom, mouseOn, icZooming, layoutDue, displayDue, broken>>

LEMMA RebuildsKeeps ==
    ASSUME SceneInv, Rebuilds
    PROVE  SceneInv'
<1>. USE DEF SceneInv
<1>1. /\ Sized(space') /\ Painted(space') /\ AllShow(space'.drawn, face')
      /\ Len(space'.drawn) = Len(space'.racks) /\ space'.presets[1] <= space'.scale
      /\ space.infoScale = space.scale => space'.infoScale = space'.scale
      /\ face' = "both" => Paired(space'.racks) /\ HaveSides(space'.drawn)
      /\ face' # "both" => Single(space'.racks)
  BY DEF Rebuilds, Rebuilt
<1>2. /\ flip' = [flip EXCEPT !.fresh = flip.phase \notin {"turning", "showing"}]
      /\ relaid' = (relaid \/ zoom.phase # "none") /\ missed' = FALSE
  BY DEF Rebuilds, RacksRebuilt
<1>3. PlainInv'
  <2>1. relaid' \in BOOLEAN /\ missed' \in BOOLEAN
    BY <1>2, Zenon DEF PlainInv
  <2>. QED BY <2>1 DEF PlainInv, Rebuilds
<1>4. PartsInv'
  <2>1. PICK fresh \in BOOLEAN : fresh = (flip.phase \notin {"turning", "showing"})
    BY Zenon
  <2>2. flip' = [flip EXCEPT !.fresh = fresh]
    BY <1>2, <2>1
  <2>. QED BY <2>2 DEF PartsInv, Rebuilds
<1>5. RacksInv'
  BY <1>1 DEF RacksInv, Rebuilds
<1>6. LayersInv'
  <2>1. zoom' = zoom /\ (~relaid' => ~relaid /\ zoom.phase = "none")
    BY <1>2 DEF Rebuilds
  <2>. QED BY <1>1, <2>1 DEF LayersInv
<1>7. FaceInv'
  BY <1>1 DEF FaceInv, Turned, AllShow
<1>. QED BY <1>3, <1>4, <1>5, <1>6, <1>7

(* The racks of a space without its scale and presets.                      *)
LEMMA RefreshedIs ==
    ASSUME SceneInv, NEW racks \in Seq(Def), NEW ids
    PROVE  Rebuilt(space, face, RefreshRacks([space EXCEPT !.racks = racks], ids))
<1>1. PICK s : s = [space EXCEPT !.racks = racks]
  OBVIOUS
<1>2. Sized(space) /\ Whole(space) /\ window \in Windows /\ face \in Faces
  BY DEF SceneInv, RacksInv, PlainInv, Sized
<1>3. /\ Whole(s) /\ s.racks = racks /\ s.drawn = space.drawn /\ s.presets = space.presets
      /\ s.zoomIdx = space.zoomIdx /\ s.scale = space.scale /\ s.infoScale = space.infoScale
  BY ONLY <1>1, <1>2 DEF Whole
<1>4. Sized(s)
  BY <1>2, <1>3 DEF Sized
<1>5. Rebuilt(s, face, RefreshRacks(s, ids))
  BY <1>2, <1>3, <1>4, RefreshIs
<1>. QED BY <1>1, <1>3, <1>5 DEF Rebuilt

LEMMA RefreshesKeeps ==
    ASSUME SceneInv, Synchronise \/ ImagesLoaded \/ DiscardExcludedRacks
    PROVE  SceneInv'
<1>1. /\ RacksRebuilt /\ NoMessage
      /\ UNCHANGED <<face, icFace, rsFace, window, zoom, layoutDue, displayDue, broken>>
      /\ unbuilt' \in BOOLEAN
  BY DEF Synchronise, ImagesLoaded, DiscardExcludedRacks, SceneInv, PlainInv
<1>2. space.racks \in Seq(Def) /\ Sized(space) /\ window \in Windows /\ face \in Faces
  BY DEF SceneInv, RacksInv, Painted, PlainInv
<1>3. \A ids : Rebuilt(space, face, RefreshRacks(space, ids))
  BY <1>2, RefreshIs
<1>4. Rebuilt(space, face, space')
  <2>1. CASE DiscardExcludedRacks
    BY <1>3, <2>1 DEF DiscardExcludedRacks
  <2>2. CASE ImagesLoaded
    BY <1>3, <2>2 DEF ImagesLoaded, ResetRackSpace
  <2>3. CASE Synchronise
    <3>1. CASE \E r \in Ids(space.racks) : space' = RefreshRacks(space, Ids(space.racks) \ {r})
      BY <1>3, <3>1
    <3>2. CASE space' = ResetRackSpace(space)
      BY <1>3, <3>2 DEF ResetRackSpace
    <3>3. CASE \E r \in NewRacks \ Ids(space.racks) :
                 \E i \in Firsts(space.racks, Ids(space.racks)) \cup {Len(space.racks) + 1} :
                   space' = ResetRackSpace(
                     [space EXCEPT !.racks = InsertAt(@, i, [id |-> r, side |-> "none"])])
      <4>1. PICK r \in NewRacks,
                 i \in Firsts(space.racks, Ids(space.racks)) \cup {Len(space.racks) + 1} :
              space' = ResetRackSpace(
                [space EXCEPT !.racks = InsertAt(@, i, [id |-> r, side |-> "none"])])
        BY <3>3
      <4>2. PICK def : def = [id |-> r, side |-> "none"]
        OBVIOUS
      <4>3. def \in Def
        BY <4>2 DEF Def, Sides, AllRacks
      <4>4. i \in 1..(Len(space.racks) + 1)
        BY <1>2, SeqIs DEF Firsts
      <4>5. PICK racks : racks = InsertAt(space.racks, i, def)
        OBVIOUS
      <4>6. racks \in Seq(Def)
        BY <1>2, <4>3, <4>4, <4>5, InsertedIs
      <4>7. space' = ResetRackSpace([space EXCEPT !.racks = racks])
        BY <4>1, <4>2, <4>5
      <4>. QED BY <4>6, <4>7, RefreshedIs DEF ResetRackSpace
    <3>. QED BY <2>3, <3>1, <3>2, <3>3 DEF Synchronise
  <2>. QED BY <2>1, <2>2, <2>3
<1>5. Rebuilds
  BY <1>1, <1>4 DEF Rebuilds, SceneInv, PlainInv, RacksInv, NoMessage
<1>. QED BY <1>5, RebuildsKeeps

LEMMA SwitchFaceKeeps ==
    ASSUME SceneInv, SwitchFace
    PROVE  /\ SceneInv'
           /\ ~unbuilt => Ids(space'.racks) = Ids(space.racks)
<1>1. PICK f \in Faces \ {face} :
        /\ face' = f /\ CoverFlip(f)
        /\ IF f = "both"
           THEN space' = ShowSplitView(space) /\ rsFace' = f /\ RacksRebuilt
           ELSE IF rsFace = "both"
           THEN space' = RevertFromSplitView(space, f) /\ rsFace' = f /\ RacksRebuilt
           ELSE Flip(f) /\ UNCHANGED <<space, relaid>>
  BY DEF SwitchFace
<1>2. UNCHANGED <<window, unbuilt, zoom, mouseOn, icZooming, layoutDue, displayDue, broken>>
  BY DEF SwitchFace
<1>3. icFace' = f /\ mask' \in BOOLEAN
  BY <1>1, Zenon DEF CoverFlip
<1>4. space.racks \in Seq(Def) /\ Sized(space) /\ window \in Windows /\ unbuilt \in BOOLEAN
  BY DEF SceneInv, RacksInv, Painted, PlainInv
<1>5. face = "both" <=> rsFace = "both"
  BY DEF SceneInv, RacksInv
<1>6. CASE f = "both"
  <2>1. Single(space.racks)
    BY <1>1, <1>5, <1>6 DEF SceneInv, RacksInv
  <2>2. Rebuilt(space, "both", ShowSplitView(space)) /\ Ids(ShowSplitView(space).racks) = Ids(space.racks)
    BY <1>4, <2>1, SplitIs
  <2>3. Rebuilds
    BY <1>1, <1>2, <1>3, <1>4, <1>6, <2>2 DEF Rebuilds
  <2>. QED BY <1>1, <1>6, <2>2, <2>3, RebuildsKeeps
<1>7. CASE f # "both" /\ rsFace = "both"
  <2>1. Single(space.racks) \/ Paired(space.racks)
    BY <1>7 DEF SceneInv, RacksInv
  <2>2. ~unbuilt => Paired(space.racks)
    BY <1>7 DEF SceneInv, RacksInv
  <2>3. f \in {"front", "rear"}
    BY <1>7 DEF Faces
  <2>4. /\ Rebuilt(space, f, RevertFromSplitView(space, f))
        /\ Paired(space.racks) => Ids(RevertFromSplitView(space, f).racks) = Ids(space.racks)
    BY <1>4, <2>1, <2>3, RevertIs
  <2>5. Rebuilds
    BY <1>1, <1>2, <1>3, <1>4, <1>7, <2>4 DEF Rebuilds
  <2>. QED BY <1>1, <1>7, <2>2, <2>4, <2>5, RebuildsKeeps
<1>8. CASE f # "both" /\ rsFace # "both"
  <2>1. Flip(f) /\ space' = space /\ relaid' = relaid
    BY <1>1, <1>8
  <2>2. \/ /\ rsFace' = f /\ flip' = [NoFlip EXCEPT !.phase = "fading"] /\ missed' = FALSE
        \/ /\ flip' = [flip EXCEPT !.done = 0] /\ missed' = TRUE /\ rsFace' = rsFace
    BY <2>1 DEF Flip
  <2>3. rsFace' \in Faces /\ rsFace' # "both" /\ missed' \in BOOLEAN
    BY <1>8, <2>2 DEF SceneInv, PlainInv
  <2>4. PlainInv'
    BY <1>1, <1>2, <1>3, <2>1, <2>3 DEF SceneInv, PlainInv
  <2>5. PartsInv'
    <3>1. CASE flip' = [NoFlip EXCEPT !.phase = "fading"]
      <4>1. flip' = [phase |-> "fading", waiting |-> {}, turning |-> 0, done |-> 0,
                     count |-> 0, fresh |-> TRUE]
        BY <3>1 DEF NoFlip
      <4>. QED BY <1>2, <4>1 DEF SceneInv, PartsInv
    <3>2. CASE flip' = [flip EXCEPT !.done = 0]
      BY <1>2, <3>2 DEF SceneInv, PartsInv
    <3>. QED BY <2>2, <3>1, <3>2
  <2>6. RacksInv'
    BY <1>1, <1>2, <1>8, <2>1, <2>3 DEF SceneInv, RacksInv
  <2>7. LayersInv'
    BY <1>2, <2>1 DEF SceneInv, LayersInv
  <2>8. FaceInv'
    <3>1. missed' = TRUE \/ flip'.phase = "fading"
      BY <2>2 DEF NoFlip
    <3>. QED BY <3>1 DEF FaceInv
  <2>. QED BY <2>1, <2>4, <2>5, <2>6, <2>7, <2>8 DEF SceneInv
<1>. QED BY <1>6, <1>7, <1>8

LEMMA FlipTimerKeeps ==
    ASSUME SceneInv, FlipTimer
    PROVE  SceneInv'
<1>. USE DEF SceneInv
<1>1. /\ UnchangedByFlip
      /\ mask' \in BOOLEAN /\ mouseOn' \in BOOLEAN /\ icZooming' \in BOOLEAN
  BY DEF FlipTimer, EvFlipReady, EvHalfFlipped, EvFlipped, EvFlipComplete, NoMessage, PlainInv
<1>2. PlainInv'
  BY <1>1 DEF PlainInv, UnchangedByFlip
<1>3. /\ flip \in [phase : {"none", "fading", "turning", "showing"}, waiting : SUBSET Nat,
                   turning : Nat, done : Nat, count : Nat, fresh : BOOLEAN]
      /\ flip.phase = "fading" => flip.waiting = {} /\ flip.turning = 0
  BY DEF PartsInv
<1>4. PICK n \in Nat : /\ n = Len(space.drawn) /\ DOMAIN space.drawn = 1..n
                       /\ \A i \in 1..n : space.drawn[i] \in Picture
  <2>1. space.drawn \in Seq(Picture)
    BY DEF RacksInv, Painted
  <2>. HIDE DEF Picture
  <2>. QED BY <2>1, SeqIs
<1>5. \/ EvFlipReady /\ space' = space
      \/ \E i \in flip.waiting :
           /\ flip' = [flip EXCEPT !.waiting = flip.waiting \ {i}, !.turning = flip.turning + 1]
           /\ space' = IF flip.fresh THEN [space EXCEPT !.drawn[i] = Instance(@, face)] ELSE space
      \/ /\ flip.turning > 0 /\ space' = space
         /\ flip' = [flip EXCEPT !.turning = flip.turning - 1, !.done = flip.done + 1,
                      !.phase = IF flip.done + 1 = Len(space.drawn) THEN "showing" ELSE flip.phase]
      \/ EvFlipComplete /\ space' = space
  <2>1. ASSUME EvFlipped
        PROVE  /\ flip.turning > 0 /\ space' = space
               /\ flip' = [flip EXCEPT !.turning = flip.turning - 1, !.done = flip.done + 1,
                            !.phase = IF flip.done + 1 = Len(space.drawn) THEN "showing" ELSE flip.phase]
    BY <2>1 DEF EvFlipped
  <2>2. ASSUME EvHalfFlipped
        PROVE  \E i \in flip.waiting :
           /\ flip' = [flip EXCEPT !.waiting = flip.waiting \ {i}, !.turning = flip.turning + 1]
           /\ space' = IF flip.fresh THEN [space EXCEPT !.drawn[i] = Instance(@, face)] ELSE space
    BY <2>2 DEF EvHalfFlipped
  <2>3. EvFlipReady \/ EvFlipComplete => space' = space
    BY DEF EvFlipReady, EvFlipComplete
  <2>. QED BY <2>1, <2>2, <2>3 DEF FlipTimer
<1>6. CASE EvFlipReady /\ space' = space
  <2>1. flip' = [phase |-> "turning", waiting |-> DOMAIN space.drawn, turning |-> 0,
                 done |-> flip.done, count |-> Len(space.drawn), fresh |-> TRUE]
    BY <1>6 DEF EvFlipReady, NoFlip
  <2>2. DOMAIN space.drawn \in SUBSET Nat /\ Len(space.drawn) \in Nat
    BY <1>4
  <2>3. PartsInv'
    BY <1>1, <1>3, <2>1, <2>2 DEF PartsInv, UnchangedByFlip
  <2>4. FaceInv'
    BY <1>6, <2>1 DEF FaceInv, Turned
  <2>. QED BY <1>1, <1>2, <1>6, <2>3, <2>4
           DEF RacksInv, LayersInv, UnchangedByFlip
<1>7. CASE EvFlipComplete /\ space' = space
  <2>1. flip' = [phase |-> "none", waiting |-> {}, turning |-> 0, done |-> 0,
                 count |-> 0, fresh |-> TRUE]
    BY <1>7 DEF EvFlipComplete, NoFlip
  <2>2. PartsInv'
    BY <1>1, <2>1 DEF PartsInv, UnchangedByFlip
  <2>3. FaceInv'
    <3>1. flip.phase = "showing" /\ flip.waiting = {}
      BY <1>7 DEF EvFlipComplete
    <3>2. ~missed => AllShow(space.drawn, face)
      BY <3>1 DEF FaceInv, Turned, AllShow
    <3>. QED BY <1>1, <1>7, <2>1, <3>2 DEF FaceInv, UnchangedByFlip, AllShow
  <2>. QED BY <1>1, <1>2, <1>7, <2>2, <2>3 DEF RacksInv, LayersInv, UnchangedByFlip
<1>8. CASE /\ flip.turning > 0 /\ space' = space
           /\ flip' = [flip EXCEPT !.turning = flip.turning - 1, !.done = flip.done + 1,
                        !.phase = IF flip.done + 1 = Len(space.drawn) THEN "showing" ELSE flip.phase]
  <2>1. PICK phase : phase = IF flip.done + 1 = Len(space.drawn) THEN "showing" ELSE flip.phase
    OBVIOUS
  <2>2. flip' = [phase |-> phase, waiting |-> flip.waiting, turning |-> flip.turning - 1,
                 done |-> flip.done + 1, count |-> flip.count, fresh |-> flip.fresh]
    BY ONLY <1>3, <1>8, <2>1
  <2>3. /\ phase \in {"none", "fading", "turning", "showing"} /\ flip.phase # "fading"
        /\ phase = flip.phase \/ phase = "showing"
    BY <1>3, <1>8, <2>1
  <2>4. flip.turning - 1 \in Nat /\ flip.done + 1 \in Nat
    BY <1>3, <1>8
  <2>5. PartsInv'
    BY <1>1, <1>3, <2>2, <2>3, <2>4 DEF PartsInv, UnchangedByFlip
  <2>6. FaceInv'
    BY <1>1, <1>3, <1>8, <2>2, <2>3 DEF FaceInv, UnchangedByFlip, AllShow, Turned
  <2>. QED BY <1>1, <1>2, <1>8, <2>5, <2>6 DEF RacksInv, LayersInv, UnchangedByFlip
<1>9. ASSUME NEW i \in flip.waiting,
             flip' = [flip EXCEPT !.waiting = flip.waiting \ {i}, !.turning = flip.turning + 1],
             space' = IF flip.fresh THEN [space EXCEPT !.drawn[i] = Instance(@, face)] ELSE space
      PROVE  SceneInv'
  <2>1. flip' = [phase |-> flip.phase, waiting |-> flip.waiting \ {i}, turning |-> flip.turning + 1,
                 done |-> flip.done, count |-> flip.count, fresh |-> flip.fresh]
    BY ONLY <1>3, <1>9
  <2>2. flip.turning + 1 \in Nat /\ flip.waiting \ {i} \in SUBSET Nat /\ flip.phase # "fading"
    BY <1>3
  <2>3. PartsInv'
    BY <1>1, <1>3, <2>1, <2>2 DEF PartsInv, UnchangedByFlip
  <2>4. CASE ~flip.fresh
    <3>1. space' = space
      BY <1>9, <2>4
    <3>2. FaceInv'
      BY <1>1, <2>1, <2>4, <3>1 DEF FaceInv, UnchangedByFlip, AllShow, Turned
    <3>. QED BY <1>1, <1>2, <2>3, <3>1, <3>2 DEF RacksInv, LayersInv, UnchangedByFlip
  <2>5. CASE flip.fresh
    <3>1. PICK drawn : drawn = [space.drawn EXCEPT ![i] = Instance(space.drawn[i], face)]
      OBVIOUS
    <3>2. space' = [space EXCEPT !.drawn = drawn]
      BY <1>9, <2>5, <3>1
    <3>3. Whole(space) /\ Sized(space) /\ Painted(space) /\ face \in Faces
          /\ (face = "both" => HaveSides(space.drawn))
      BY DEF RacksInv, Sized, PlainInv
    <3>4. /\ Whole(space') /\ space'.racks = space.racks /\ space'.drawn = drawn
          /\ space'.presets = space.presets /\ space'.zoomIdx = space.zoomIdx
          /\ space'.scale = space.scale /\ space'.infoScale = space.infoScale
      BY ONLY <3>2, <3>3 DEF Whole
    <3>5. \A j \in 1..n : /\ drawn[j] \in Picture /\ drawn[j].side = space.drawn[j].side
                          /\ j # i => drawn[j] = space.drawn[j]
                          /\ j = i => drawn[j].shows = Shows(drawn[j], face)
      <4>. TAKE j \in 1..n
      <4>1. CASE j # i
        BY <1>4, <3>1, <4>1
      <4>2. CASE j = i
        <5>1. drawn[j] = Instance(space.drawn[j], face)
          BY <1>4, <3>1, <4>2
        <5>2. space.drawn[j].id \in AllRacks /\ space.drawn[j].side \in Sides
          BY <1>4 DEF Picture
        <5>3. face = "both" => space.drawn[j].side # "none"
          BY <1>4, <3>3 DEF HaveSides
        <5>. QED BY <3>3, <4>2, <5>1, <5>2, <5>3, InstanceIs
      <4>. QED BY <4>1, <4>2
    <3>6. drawn \in Seq(Picture) /\ Len(drawn) = n /\ DOMAIN drawn = 1..n
      <4>1. drawn \in [1..n -> Picture]
        BY ONLY <1>4, <3>1, <3>5
      <4>. HIDE DEF Picture
      <4>. QED BY <4>1, IsSequence
    <3>7. Sized(space')
      BY <3>3, <3>4 DEF Sized
    <3>8. Painted(space')
      <4>1. n <= Most /\ space.racks \in Seq(Def)
        BY <1>4, <3>3 DEF Painted
      <4>. QED BY <3>4, <3>6, <4>1 DEF Painted
    <3>9. HaveSides(space.drawn) => HaveSides(drawn)
      BY <1>4, <3>5, <3>6 DEF HaveSides
    <3>10. RacksInv'
      <4>1. Len(drawn) = Len(space.drawn)
        BY <1>4, <3>6
      <4>. QED BY <1>1, <3>4, <3>7, <3>8, <3>9, <4>1 DEF RacksInv, UnchangedByFlip
    <3>11. LayersInv'
      BY <1>1, <3>4 DEF LayersInv, UnchangedByFlip
    <3>12. FaceInv'
      <4>1. AllShow(space.drawn, face) => AllShow(drawn, face)
        BY <1>4, <3>5, <3>6 DEF AllShow
      <4>2. Turned(space.drawn) => \A j \in 1..n : \/ flip.fresh /\ j \in flip.waiting \ {i}
                                                  \/ drawn[j].shows = Shows(drawn[j], face)
        BY <1>4, <3>5 DEF Turned
      <4>3. flip'.phase = flip.phase /\ flip'.waiting = flip.waiting \ {i} /\ flip'.fresh = flip.fresh
        BY <2>1
      <4>4. AllShow(space.drawn, face) => AllShow(space'.drawn, face')
        BY <1>1, <3>4, <4>1 DEF UnchangedByFlip
      <4>5. Turned(space.drawn) => Turned(space.drawn)'
        BY <1>1, <3>4, <3>6, <4>2, <4>3 DEF UnchangedByFlip, Turned
      <4>. QED BY <1>1, <4>3, <4>4, <4>5 DEF FaceInv, UnchangedByFlip
    <3>. QED BY <1>2, <2>3, <3>10, <3>11, <3>12
  <2>. QED BY <2>4, <2>5
<1>. QED BY <1>5, <1>6, <1>7, <1>8, <1>9

(***************************************************************************)
(* What arrives, and the timers                                            *)
(***************************************************************************)

(* Definitions without sides.                                               *)
LEMMA BareIs ==
    ASSUME NEW n \in Nat, NEW defs, DOMAIN defs = 1..n, \A i \in 1..n : defs[i].id \in AllRacks,
           Single(defs), NEW bare,
           bare = [i \in DOMAIN defs |-> [id |-> defs[i].id, side |-> "none"]]
    PROVE  bare \in Seq(Def) /\ Single(bare) /\ Len(bare) = n /\ DOMAIN bare = 1..n
<1>1. \A i \in 1..n : bare[i] \in Def /\ bare[i].id = defs[i].id
  BY DEF Def, Sides
<1>2. bare \in [1..n -> Def]
  <2>. HIDE DEF Def
  <2>. QED BY <1>1
<1>3. bare \in Seq(Def) /\ Len(bare) = n /\ DOMAIN bare = 1..n
  <2>. HIDE DEF Def
  <2>. QED BY <1>2, IsSequence
<1>4. Single(bare)
  BY <1>1, <1>3 DEF Single
<1>. QED BY <1>3, <1>4

LEMMA FullDataKeeps ==
    ASSUME SceneInv, FullRackDataReceived
    PROVE  SceneInv'
<1>. USE DEF SceneInv
<1>1. PICK defs : defs = OneEach(space.racks, Ids(space.racks))
  OBVIOUS
<1>2. PICK bare : bare = [i \in DOMAIN defs |-> [id |-> defs[i].id, side |-> "none"]]
  OBVIOUS
<1>3. /\ space' = [space EXCEPT !.racks = bare] /\ unbuilt' = TRUE /\ NoMessage
      /\ UNCHANGED <<face, icFace, rsFace, window, zoom, flip, layoutDue, displayDue,
                     relaid, missed, broken>>
  BY <1>1, <1>2 DEF FullRackDataReceived
<1>4. Sized(space) /\ Whole(space) /\ Painted(space)
  BY DEF RacksInv, Sized
<1>5. defs \in Seq(Def) /\ Single(defs)
  BY <1>1, <1>4, OneEachIs DEF Painted
<1>6. bare \in Seq(Def) /\ Single(bare)
  <2>1. /\ Len(defs) \in Nat /\ DOMAIN defs = 1..Len(defs)
        /\ \A i \in 1..Len(defs) : defs[i] \in Def
    BY <1>5, SeqIs
  <2>2. \A i \in 1..Len(defs) : defs[i].id \in AllRacks
    BY <2>1 DEF Def
  <2>. QED BY <1>2, <1>5, <2>1, <2>2, BareIs
<1>7. /\ Whole(space') /\ space'.racks = bare /\ space'.drawn = space.drawn
      /\ space'.presets = space.presets /\ space'.zoomIdx = space.zoomIdx
      /\ space'.scale = space.scale /\ space'.infoScale = space.infoScale
  BY ONLY <1>3, <1>4 DEF Whole
<1>8. Sized(space') /\ Painted(space')
  BY <1>4, <1>6, <1>7 DEF Sized, Painted
<1>9. PlainInv'
  BY <1>3 DEF PlainInv, NoMessage
<1>10. PartsInv'
  BY <1>3 DEF PartsInv
<1>11. RacksInv'
  BY <1>3, <1>6, <1>7, <1>8 DEF RacksInv
<1>12. LayersInv'
  BY <1>3, <1>7 DEF LayersInv
<1>13. FaceInv'
  BY <1>3, <1>7 DEF FaceInv, AllShow, Turned
<1>. QED BY <1>9, <1>10, <1>11, <1>12, <1>13

LEMMA LayoutTimerKeeps ==
    ASSUME SceneInv, LayoutTimer
    PROVE  SceneInv'
<1>. USE DEF SceneInv
<1>1. /\ space' = SetLayout(space) /\ layoutDue' = FALSE
      /\ relaid' = (relaid \/ zoom.phase # "none")
      /\ UNCHANGED <<face, icFace, rsFace, window, unbuilt, zoom, flip, mask, mouseOn,
                     icZooming, displayDue, missed, broken>>
  BY DEF LayoutTimer
<1>2. window \in Windows /\ face \in Faces /\ Sized(space) /\ Painted(space)
      /\ (face = "both" => HaveSides(space.drawn))
  BY DEF PlainInv, RacksInv
<1>3. Laid(space, space')
  BY <1>1, <1>2, LaidIs
<1>4. PlainInv'
  <2>1. relaid' \in BOOLEAN
    BY <1>1, Zenon DEF PlainInv
  <2>. QED BY <1>1, <2>1 DEF PlainInv
<1>5. PartsInv'
  BY <1>1 DEF PartsInv
<1>6. RacksInv'
  BY <1>1, <1>3 DEF RacksInv, Laid
<1>7. LayersInv'
  <2>1. ~relaid' => ~relaid /\ zoom.phase = "none"
    BY <1>1
  <2>. QED BY <1>1, <1>3, <2>1 DEF LayersInv, Laid
<1>8. FaceInv'
  <2>1. CASE space'.drawn = space.drawn
    BY <1>1, <2>1 DEF FaceInv, AllShow, Turned
  <2>2. CASE AllShow(space'.drawn, face)
    BY <1>1, <2>2 DEF FaceInv, AllShow, Turned
  <2>. QED BY <1>3, <2>1, <2>2 DEF Laid
<1>. QED BY <1>4, <1>5, <1>6, <1>7, <1>8

(* Nothing is drawn: a mask over the page, or a timer that is to run.       *)
LEMMA OthersKeep ==
    ASSUME SceneInv, Resize \/ ReceivedMetrics \/ DisplayMetrics
    PROVE  SceneInv'
<1>1. /\ window' \in Windows /\ layoutDue' \in BOOLEAN /\ displayDue' \in BOOLEAN
      /\ mask' \in BOOLEAN
      /\ UNCHANGED <<face, icFace, rsFace, space, unbuilt, zoom, flip, mouseOn,
                     icZooming, relaid, missed, broken>>
  BY DEF Resize, ReceivedMetrics, DisplayMetrics, SceneInv, PlainInv
<1>2. PlainInv'
  BY <1>1 DEF SceneInv, PlainInv
<1>3. PartsInv' /\ RacksInv' /\ LayersInv' /\ FaceInv'
  BY <1>1 DEF SceneInv, PartsInv, RacksInv, LayersInv, FaceInv, AllShow, Turned
<1>. QED BY <1>2, <1>3 DEF SceneInv

LEMMA SceneInit ==
    ASSUME Init
    PROVE  SceneInv
<1>1. PICK n \in Nat : /\ n = Len(InitialRacks) /\ DOMAIN InitialRacks = 1..n
                       /\ \A i \in 1..n : InitialRacks[i] \in AllRacks
  <2>1. InitialRacks \in Seq(AllRacks)
    BY SceneAssumption, Zenon
  <2>. QED BY <2>1, SeqIs
<1>2. PICK defs : defs = [i \in DOMAIN InitialRacks |-> [id |-> InitialRacks[i], side |-> "none"]]
  OBVIOUS
<1>3. PICK drawn : drawn = [i \in DOMAIN defs |-> Instance(defs[i], "front")]
  OBVIOUS
<1>4. PICK presets : presets = ZoomPresets(window, Len(defs))
  OBVIOUS
<1>5. /\ face = "front" /\ icFace = "front" /\ rsFace = "front" /\ window \in Windows
      /\ zoom = Idle /\ flip = NoFlip
      /\ mask = FALSE /\ mouseOn = TRUE /\ icZooming = FALSE
      /\ unbuilt = FALSE /\ layoutDue = FALSE /\ displayDue = FALSE
      /\ relaid = FALSE /\ missed = FALSE /\ broken = FALSE
  BY DEF Init
<1>6. space = [racks |-> defs, drawn |-> drawn, presets |-> presets, zoomIdx |-> 0,
               scale |-> presets[1], infoScale |-> presets[1]]
  BY <1>2, <1>3, <1>4 DEF Init
<1>7. defs \in Seq(Def) /\ Single(defs) /\ Len(defs) = n /\ DOMAIN defs = 1..n
  <2>1. \A i, j \in 1..n : InitialRacks[i] = InitialRacks[j] => i = j
    BY <1>1, SceneAssumption, Zenon
  <2>2. \A i \in 1..n : defs[i] \in Def /\ defs[i].id = InitialRacks[i]
    BY <1>1, <1>2 DEF Def, Sides
  <2>3. defs \in [1..n -> Def]
    <3>. HIDE DEF Def
    <3>. QED BY <1>1, <1>2, <2>2
  <2>4. defs \in Seq(Def) /\ Len(defs) = n /\ DOMAIN defs = 1..n
    <3>. HIDE DEF Def
    <3>. QED BY <2>3, IsSequence
  <2>. QED BY <2>1, <2>2, <2>4 DEF Single
<1>8. n \in 0..Most
  <2>1. Len(defs) <= Cardinality(AllRacks)
    BY <1>7, SinglesAreFew
  <2>. QED BY <1>7, <2>1, Scales DEF Most
<1>9. /\ presets \in Seq(1..MaxZoom) /\ presets # <<>>
      /\ presets[1] \in 1..MaxZoom /\ Len(presets) \in Nat \ {0}
  <2>1. presets \in Seq(1..MaxZoom) /\ presets # <<>>
    BY <1>4, <1>5, <1>7, <1>8, PresetsAre
  <2>. QED BY <2>1, FirstOf
<1>10. Depicted(defs, "front", drawn)
  <2>1. "front" \in Faces
    BY DEF Faces
  <2>2. \A i \in 1..n : defs[i].id \in AllRacks /\ defs[i].side \in Sides
    <3>1. \A i \in 1..n : defs[i] \in Def
      BY <1>7, SeqIs
    <3>. QED BY <3>1 DEF Def
  <2>. QED BY <1>3, <1>7, <2>1, <2>2, InstancesAre
<1>11. drawn \in Seq(Picture) /\ Len(drawn) = n /\ AllShow(drawn, "front")
  BY <1>7, <1>10 DEF Depicted
<1>12. /\ Whole(space) /\ space.racks = defs /\ space.drawn = drawn /\ space.presets = presets
       /\ space.zoomIdx = 0 /\ space.scale = presets[1] /\ space.infoScale = presets[1]
  BY ONLY <1>6 DEF Whole
<1>13. Sized(space) /\ Painted(space)
  <2>1. 0 \in 0..(Len(presets) - 1) /\ n <= Most
    BY <1>8, <1>9, Scales
  <2>. QED BY <1>7, <1>9, <1>11, <1>12, <2>1 DEF Sized, Painted
<1>14. PlainInv
  BY <1>5 DEF PlainInv, Faces
<1>15. PartsInv
  <2>1. 1 \in 1..MaxZoom
    BY Scales
  <2>. QED BY <1>5, <2>1 DEF PartsInv, Idle, NoFlip
<1>16. RacksInv
  BY <1>5, <1>7, <1>12, <1>13 DEF RacksInv
<1>17. LayersInv
  <2>1. presets[1] <= presets[1]
    BY <1>9
  <2>. QED BY <1>5, <1>12, <2>1 DEF LayersInv, Idle
<1>18. FaceInv
  BY <1>5, <1>11, <1>12, AllTurned
<1>. QED BY <1>14, <1>15, <1>16, <1>17, <1>18 DEF SceneInv

LEMMA SceneStep ==
    ASSUME SceneInv, [Next]_vars
    PROVE  SceneInv'
<1>1. CASE UNCHANGED vars
  BY <1>1 DEF vars, SceneInv, PlainInv, PartsInv, RacksInv, LayersInv, FaceInv, AllShow, Turned
<1>2. CASE UserZooms
  BY <1>2, UsersZoomIs, UsersZoomKeeps
<1>3. CASE SwitchFace
  BY <1>3, SwitchFaceKeeps
<1>4. CASE Synchronise \/ ImagesLoaded \/ DiscardExcludedRacks
  BY <1>4, RefreshesKeeps
<1>5. CASE Resize \/ ReceivedMetrics \/ DisplayMetrics
  BY <1>5, OthersKeep
<1>6. CASE ZoomTimer
  BY <1>6, ZoomTimerKeeps
<1>7. CASE FlipTimer
  BY <1>7, FlipTimerKeeps
<1>8. CASE LayoutTimer
  BY <1>8, LayoutTimerKeeps
<1>9. CASE FullRackDataReceived
  BY <1>9, FullDataKeeps
<1>. QED BY <1>1, <1>2, <1>3, <1>4, <1>5, <1>6, <1>7, <1>8, <1>9 DEF Next, Arrives

(***************************************************************************)
(* The properties                                                          *)
(***************************************************************************)

(* However many racks are drawn: n of them, all of one width.               *)
LEMMA RacksAreApart ==
    ASSUME SceneInv
    PROVE  RacksApart
<1>1. PICK n \in Nat : /\ n = Len(space.drawn) /\ DOMAIN space.drawn = 1..n
                       /\ \A i \in 1..n : space.drawn[i].id \in AllRacks
  <2>1. space.drawn \in Seq(Picture)
    BY DEF SceneInv, RacksInv, Painted
  <2>2. /\ Len(space.drawn) \in Nat /\ DOMAIN space.drawn = 1..Len(space.drawn)
        /\ \A i \in 1..Len(space.drawn) : space.drawn[i] \in Picture
    BY <2>1, SeqIs
  <2>3. \A i \in 1..Len(space.drawn) : space.drawn[i].id \in AllRacks
    BY <2>2 DEF Picture
  <2>. QED BY <2>2, <2>3
<1>2. PICK racks : racks = [i \in DOMAIN space.drawn |-> SizeOf[space.drawn[i].id]]
  OBVIOUS
<1>3. Size[window] \in [width : Nat, height : Nat] /\ Padding <= HPadding
  <2>1. window \in Windows
    BY DEF SceneInv, PlainInv
  <2>2. \A w \in Windows : Size[w] \in [width : Nat, height : Nat]
    BY SceneAssumption, Zenon
  <2>3. Padding <= HPadding
    BY ArrangementAssumption
  <2>. QED BY <2>1, <2>2, <2>3
<1>4. PICK rows, at : rows = NumRows(racks, Size[window]) /\ at = Place(racks, rows)
  OBVIOUS
<1>5. Apart(racks, at) /\ WithinCanvas(racks, rows, at)
  <2>1. CASE n = 0
    <3>1. DOMAIN racks = {}
      BY <1>1, <1>2, <2>1
    <3>. QED BY <3>1 DEF Apart, WithinCanvas
  <2>2. CASE n # 0
    <3>1. PICK wide : wide = SizeOf[space.drawn[1].id].width
      OBVIOUS
    <3>2. \A r \in AllRacks : SizeOf[r] \in [width : Nat \ {0}, height : Nat \ {0}]
      BY SceneAssumption, Zenon
    <3>3. \A q, r \in AllRacks : SizeOf[q].width = SizeOf[r].width
      BY SceneAssumption, Zenon
    <3>4. n \in Nat \ {0} /\ 1 \in 1..n
      BY <2>2
    <3>5. wide \in Nat \ {0}
      BY <1>1, <3>1, <3>2, <3>4
    <3>6. \A i \in 1..n : racks[i] \in [width : {wide}, height : Nat \ {0}]
      BY <1>1, <1>2, <3>1, <3>2, <3>3, <3>4
    <3>7. racks \in RacksOf(n, wide)
      BY ONLY <1>1, <1>2, <3>6 DEF RacksOf
    <3>8. rows \in Nat \ {0} /\ (n = 1 => rows = 1)
      BY <1>3, <1>4, <3>4, <3>5, <3>7, NumRowsIs
    <3>9. Apart(racks, at)
      BY <1>4, <3>4, <3>5, <3>7, <3>8, DrawnApart
    <3>10. WithinCanvas(racks, rows, at)
      BY <1>3, <1>4, <3>4, <3>5, <3>7, <3>8, DrawnWithin
    <3>. QED BY <3>9, <3>10
  <2>. QED BY <2>1, <2>2
<1>. QED BY <1>2, <1>4, <1>5 DEF RacksApart

LEMMA SceneIsSafe ==
    ASSUME SceneInv
    PROVE  Safety
<1>. USE DEF SceneInv
<1>1. /\ space.scale \in 1..MaxZoom /\ space.zoomIdx \in 0..(Len(space.presets) - 1)
      /\ space.racks \in Seq(Def) /\ space.drawn \in Seq(Picture)
  BY DEF RacksInv, Sized, Painted
<1>2. TypeOK
  <2>1. \A i \in DOMAIN space.drawn : space.drawn[i].shows \in {"front", "rear"}
    <3>1. \A i \in DOMAIN space.drawn : space.drawn[i] \in Picture
      BY <1>1
    <3>. QED BY <3>1 DEF Picture
  <2>2. /\ zoom.phase \in {"none", "fading", "scaling", "showing"}
        /\ flip.phase \in {"none", "fading", "turning", "showing"}
    BY DEF PartsInv
  <2>3. {mask, mouseOn, icZooming, unbuilt, layoutDue, displayDue, relaid, missed, broken}
          \subseteq BOOLEAN
    BY Zenon DEF PlainInv
  <2>4. face \in Faces /\ icFace \in Faces /\ rsFace \in Faces /\ window \in Windows
    BY DEF PlainInv
  <2>. QED BY <1>1, <2>1, <2>2, <2>3, <2>4 DEF TypeOK
<1>3. SplitPairs
  <2>. SUFFICES ASSUME rsFace = "both", ~unbuilt
                PROVE  /\ Duplicated(OneEach(space.racks, Ids(space.racks))) = space.racks
                       /\ Len(space.drawn) = Len(space.racks)
    BY DEF SplitPairs
  <2>1. Paired(space.racks) /\ Len(space.drawn) = Len(space.racks)
    BY DEF RacksInv
  <2>2. OneEach(space.racks, Ids(space.racks)) = EverySecond(space.racks)
    BY <1>1, <2>1, OneEachOfPairs
  <2>. QED BY <2>1, <2>2 DEF Paired
<1>4. FaceShown
  BY DEF FaceInv, FaceShown, AllShow
<1>5. LayersAgree
  <2>1. space.scale <= MaxZoom
    BY <1>1, Scales
  <2>. QED BY <2>1 DEF LayersInv, LayersAgree
<1>6. RacksApart
  BY RacksAreApart
<1>. QED BY <1>2, <1>3, <1>4, <1>5, <1>6 DEF Safety

LEMMA FaceStep ==
    ASSUME SceneInv, [Next]_vars, face' # face, ~unbuilt
    PROVE  Ids(space'.racks) = Ids(space.racks)
<1>1. SwitchFace
  <2>1. CASE UNCHANGED vars
    BY <2>1 DEF vars
  <2>2. CASE UserZooms
    BY <2>2 DEF UserZooms, StepZoom, ZoomToPreset, ResetZoom, FocusOn, UnchangedByZoom
  <2>3. CASE ZoomTimer
    BY <2>3 DEF ZoomTimer, EvZoomReady, EvRackZoomComplete, EvZoomComplete, UnchangedByZoom
  <2>4. CASE FlipTimer
    BY <2>4 DEF FlipTimer, EvFlipReady, EvHalfFlipped, EvFlipped, EvFlipComplete, UnchangedByFlip
  <2>5. CASE DiscardExcludedRacks \/ Resize \/ LayoutTimer \/ DisplayMetrics \/ Arrives
    BY <2>5 DEF DiscardExcludedRacks, Resize, LayoutTimer, DisplayMetrics, Arrives,
                Synchronise, FullRackDataReceived, ImagesLoaded, ReceivedMetrics
  <2>. QED BY <2>1, <2>2, <2>3, <2>4, <2>5 DEF Next
<1>. QED BY <1>1, SwitchFaceKeeps

(* The picture of the rack view is right whatever arrives while it zooms    *)
(* and flips: every rack shows the face that the user chose, in the split   *)
(* view twice, all layers have one scale, and no rack is drawn over another *)
(* or beyond the canvas.                                                    *)
THEOREM PictureIsRight == Spec => []Safety
<1>1. Spec => []SceneInv
  BY SceneInit, SceneStep, PTL DEF Spec
<1>2. SceneInv => Safety
  BY SceneIsSafe
<1>. QED BY <1>1, <1>2, PTL

(* To look at the other face, or at both, loses no rack from the page.      *)
THEOREM FacesKeepRacks == Spec => FaceKeepsRacks
<1>1. Spec => []SceneInv
  BY SceneInit, SceneStep, PTL DEF Spec
<1>2. SceneInv /\ [Next]_vars
        => [(face' # face /\ ~unbuilt) => Ids(space'.racks) = Ids(space.racks)]_vars
  BY FaceStep
<1>. QED BY <1>1, <1>2, PTL DEF Spec, FaceKeepsRacks
=============================================================================
