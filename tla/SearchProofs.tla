---------------------------- MODULE SearchProofs ----------------------------
(***************************************************************************)
(* Proof that the two-way search of agenc-str finds exactly what it is      *)
(* asked for, for every needle, haystack and direction.                     *)
(***************************************************************************)
EXTENDS StrSearch, WellFoundedInduction, TLAPS

-----------------------------------------------------------------------------
(* Numbers                                                                  *)

LEMMA LeastNumber ==
  ASSUME NEW T, T \subseteq Nat, T # {}
  PROVE  \E x \in T : \A y \in T : x <= y
<1> DEFINE R == {ss \in Nat \X Nat : ss[1] < ss[2]}
<1>1. IsWellFoundedOn(R, Nat)
  BY NatLessThanWellFounded DEF OpToRel
<1> HIDE DEF R
<1>2. PICK x \in T : \A y \in T : ~(<<y, x>> \in R)
  BY <1>1, WFMin
<1>3. \A y \in T : ~(y < x)
  BY <1>2 DEF R
<1> QED
  BY <1>3

LEMMA MinIs ==
  ASSUME NEW T, T \subseteq Nat, T # {}
  PROVE  Min(T) \in T /\ \A y \in T : Min(T) <= y
<1>1. \E x \in T : \A y \in T : x <= y
  BY LeastNumber
<1> QED
  BY <1>1 DEF Min

LEMMA MaxIs ==
  ASSUME NEW T, NEW n \in Nat, T \subseteq 0..n, T # {}
  PROVE  Max(T) \in T /\ \A y \in T : Max(T) >= y
<1> DEFINE D == {d \in Nat : \E x \in T : d = n - x}
<1>1. D \subseteq Nat /\ D # {}
  <2>1. PICK x \in T : x \in 0..n
    OBVIOUS
  <2>2. n - x \in D
    BY <2>1
  <2> QED
    BY <2>2
<1>2. PICK z \in D : \A y \in D : z <= y
  BY <1>1, LeastNumber
<1>3. PICK x \in T : z = n - x /\ x \in 0..n
  BY <1>2
<1>4. ASSUME NEW y \in T
      PROVE  x >= y
  <2>1. y \in 0..n /\ n - y \in D
    OBVIOUS
  <2>2. z <= n - y
    BY <1>2, <2>1
  <2> QED
    BY <1>3, <2>1, <2>2
<1> HIDE DEF D
<1> QED
  BY <1>4 DEF Max

LEMMA DivMod ==
  ASSUME NEW a \in Nat, NEW p \in Nat \ {0}
  PROVE  /\ a = p * (a \div p) + (a % p) /\ a \div p \in Nat
         /\ a % p \in Nat /\ a % p < p
OBVIOUS

LEMMA DivRest ==
  ASSUME NEW a \in Nat, NEW p \in Nat \ {0}
  PROVE  \E q \in Nat, r \in Nat : a = p * q + r /\ r = a % p /\ r < p
<1>1. PICK q, r : q = a \div p /\ r = a % p
  OBVIOUS
<1>2. a = p * q + r /\ q \in Nat /\ r \in Nat /\ r < p
  BY <1>1, DivMod
<1> QED
  BY <1>1, <1>2

LEMMA ModIs ==
  ASSUME NEW q \in Nat, NEW p \in Nat \ {0}, NEW r \in Nat, r < p
  PROVE  (p * q + r) % p = r
OBVIOUS

\* Walking on inside a period.
LEMMA ModStep ==
  ASSUME NEW a \in Nat, NEW p \in Nat \ {0}, NEW t \in Nat, (a % p) + t < p
  PROVE  (a + t) % p = (a % p) + t
<1>1. PICK q \in Nat, r \in Nat : a = p * q + r /\ r = a % p /\ r + t < p
  BY DivRest
<1>2. a + t = p * q + (r + t) /\ r + t \in Nat
  BY <1>1
<1>3. (p * q + (r + t)) % p = r + t
  BY <1>1, <1>2, ModIs
<1> QED
  BY <1>1, <1>2, <1>3

LEMMA ModNext ==
  ASSUME NEW a \in Nat, NEW p \in Nat \ {0}
  PROVE  (a + p) % p = a % p
<1>1. a = p * (a \div p) + (a % p) /\ a \div p \in Nat /\ a % p \in Nat /\ a % p < p
  BY DivMod
<1>2. PICK q \in Nat : q = a \div p
  BY <1>1
<1>3. a + p = p * (q + 1) + (a % p)
  BY <1>1, <1>2
<1>4. (p * (q + 1) + (a % p)) % p = a % p
  BY <1>1, ModIs
<1> QED
  BY <1>3, <1>4

LEMMA ModSmall ==
  ASSUME NEW p \in Nat \ {0}, NEW r \in Nat, r < p
  PROVE  r % p = r
OBVIOUS

LEMMA ModZero ==
  ASSUME NEW a \in Nat, NEW p \in Nat \ {0}, a % p = 0
  PROVE  \E q \in Nat : a = p * q
<1>1. PICK q \in Nat, r \in Nat : a = p * q + r /\ r = a % p
  BY DivRest
<1> QED
  BY <1>1

\* A multiple of the period changes nothing.
LEMMA ModAdd ==
  ASSUME NEW a \in Nat, NEW p \in Nat \ {0}, NEW t \in Nat, a % p = 0
  PROVE  (a + t) % p = t % p
<1>1. PICK q \in Nat : a = p * q
  BY ModZero
<1>2. PICK s \in Nat, r \in Nat : t = p * s + r /\ r = t % p /\ r < p
  BY DivRest
<1>3. PICK u \in Nat : u = q + s
  OBVIOUS
<1>4. a + t = p * u + r
  BY <1>1, <1>2, <1>3
<1>5. (p * u + r) % p = r
  BY <1>2, ModIs
<1> QED
  BY <1>2, <1>4, <1>5

-----------------------------------------------------------------------------
(* Words: n bytes, b[0] to b[n - 1], and the orders the two walks compare    *)
(* them in.                                                                 *)

Word(b, n) == n \in Nat \ {0} /\ \A i \in 0..(n - 1) : b[i] \in Nat

LEMMA BeforeIsOrder ==
  ASSUME NEW rev \in BOOLEAN, NEW x \in Nat, NEW y \in Nat
  PROVE  /\ ~IsByteBefore(x, x, rev)
         /\ x # y => (IsByteBefore(x, y, rev) \/ IsByteBefore(y, x, rev))
         /\ IsByteBefore(x, y, rev) => ~IsByteBefore(y, x, rev) /\ x # y
         /\ \A z \in Nat : IsByteBefore(x, y, rev) /\ IsByteBefore(y, z, rev) => IsByteBefore(x, z, rev)
BY DEF IsByteBefore

\* The m bytes from s are those from c.
Agree(b, s, c, m) == \A t \in 0..(m - 1) : b[s + t] = b[c + t]

\* The suffix from s comes before the one from c at the byte behind m equal ones.
Mismatch(b, n, rev, s, c, m) ==
  m \in Nat /\ s + m < n /\ c + m < n /\ Agree(b, s, c, m) /\ IsByteBefore(b[s + m], b[c + m], rev)

Precedes(b, n, rev, s, c) == \E m : Mismatch(b, n, rev, s, c, m)

LEMMA AgreeAt ==
  ASSUME NEW b, NEW s \in Nat, NEW c \in Nat, NEW m, Agree(b, s, c, m), m \in Nat,
         NEW x \in Nat, NEW y \in Nat, s <= x, x < s + m, x + c = y + s
  PROVE  b[x] = b[y]
<1>1. PICK t \in 0..(m - 1) : x = s + t /\ y = c + t
  <2>1. x - s \in 0..(m - 1) /\ x = s + (x - s) /\ y = c + (x - s)
    OBVIOUS
  <2> QED
    BY <2>1
<1> QED
  BY <1>1 DEF Agree

LEMMA AgreeLess ==
  ASSUME NEW b, NEW s \in Nat, NEW c \in Nat, NEW m \in Nat, Agree(b, s, c, m), NEW o \in Nat, o <= m
  PROVE  Agree(b, s, c, o)
<1>1. \A t \in 0..(o - 1) : t \in 0..(m - 1)
  OBVIOUS
<1> QED
  BY <1>1 DEF Agree

LEMMA AgreeBack ==
  ASSUME NEW b, NEW s, NEW c, NEW m, Agree(b, s, c, m)
  PROVE  Agree(b, c, s, m)
BY DEF Agree

LEMMA AgreeThrough ==
  ASSUME NEW b, NEW s, NEW y, NEW c, NEW m, Agree(b, s, y, m), Agree(b, y, c, m)
  PROVE  Agree(b, s, c, m)
BY DEF Agree

LEMMA MakeMismatch ==
  ASSUME NEW b, NEW n, NEW rev, NEW s, NEW c, NEW m \in Nat, NEW x, NEW y,
         x = s + m, y = c + m, x < n, y < n, Agree(b, s, c, m), IsByteBefore(b[x], b[y], rev)
  PROVE  Mismatch(b, n, rev, s, c, m)
BY DEF Mismatch

LEMMA MismatchAt ==
  ASSUME NEW b, NEW n, NEW rev, NEW s \in Nat, NEW c \in Nat, NEW m, Mismatch(b, n, rev, s, c, m)
  PROVE  /\ m \in Nat /\ Agree(b, s, c, m)
         /\ \E x \in Nat, y \in Nat : /\ x = s + m /\ y = c + m /\ x < n /\ y < n
                                     /\ IsByteBefore(b[x], b[y], rev)
BY DEF Mismatch

\* What holds of a suffix holds of another one that begins with the same bytes.
LEMMA MismatchVia ==
  ASSUME NEW b, NEW n, NEW rev, NEW s \in Nat, NEW y \in Nat, NEW c \in Nat,
         NEW m, Mismatch(b, n, rev, y, c, m), NEW o \in Nat, Agree(b, s, y, o), m < o, s + m < n
  PROVE  Mismatch(b, n, rev, s, c, m)
<1>1. m \in Nat /\ Agree(b, y, c, m)
  BY MismatchAt
<1>2. PICK u \in Nat, v \in Nat : /\ u = y + m /\ v = c + m /\ u < n /\ v < n
                                /\ IsByteBefore(b[u], b[v], rev)
  BY MismatchAt
<1>3. PICK x \in Nat : x = s + m /\ x < n
  BY <1>1
<1>4. b[x] = b[u]
  BY <1>1, <1>2, <1>3, AgreeAt
<1>5. Agree(b, s, y, m)
  BY <1>1, AgreeLess
<1>6. Agree(b, s, c, m)
  BY <1>1, <1>5, AgreeThrough
<1> QED
  BY <1>1, <1>2, <1>3, <1>4, <1>6, MakeMismatch

LEMMA PrecedesTransitive ==
  ASSUME NEW b, NEW n, Word(b, n), NEW rev \in BOOLEAN, NEW s \in Nat, NEW c \in Nat, NEW e \in Nat,
         Precedes(b, n, rev, s, c), Precedes(b, n, rev, c, e)
  PROVE  Precedes(b, n, rev, s, e)
<1>1. PICK m : Mismatch(b, n, rev, s, c, m)
  BY DEF Precedes
<1>2. PICK o : Mismatch(b, n, rev, c, e, o)
  BY DEF Precedes
<1>3. /\ m \in Nat /\ s + m < n /\ c + m < n /\ IsByteBefore(b[s + m], b[c + m], rev)
      /\ \A t \in 0..(m - 1) : b[s + t] = b[c + t]
      /\ o \in Nat /\ c + o < n /\ e + o < n /\ IsByteBefore(b[c + o], b[e + o], rev)
      /\ \A t \in 0..(o - 1) : b[c + t] = b[e + t]
      /\ n \in Nat /\ \A i \in 0..(n - 1) : b[i] \in Nat
  BY <1>1, <1>2 DEF Mismatch, Agree, Word
<1>4. CASE m < o
  <2>1. e + m < n /\ b[c + m] = b[e + m]
    BY <1>3, <1>4
  <2>2. Agree(b, s, e, m)
    BY <1>3, <1>4 DEF Agree
  <2> QED
    BY <1>3, <2>1, <2>2 DEF Precedes, Mismatch
<1>5. CASE m = o
  <2>1. b[s + m] \in Nat /\ b[c + m] \in Nat /\ b[e + m] \in Nat
    BY <1>3, <1>5
  <2>2. IsByteBefore(b[s + m], b[e + m], rev)
    BY <1>3, <1>5, <2>1, BeforeIsOrder
  <2>3. Agree(b, s, e, m)
    BY <1>3, <1>5 DEF Agree
  <2> QED
    BY <1>3, <1>5, <2>2, <2>3 DEF Precedes, Mismatch
<1>6. CASE m > o
  <2>1. s + o < n /\ b[s + o] = b[c + o]
    BY <1>3, <1>6
  <2>2. Agree(b, s, e, o)
    BY <1>3, <1>6 DEF Agree
  <2> QED
    BY <1>3, <2>1, <2>2 DEF Precedes, Mismatch
<1> QED
  BY <1>3, <1>4, <1>5, <1>6

-----------------------------------------------------------------------------
(* The walk.                                                                *)

\* From c up to the place e, b repeats its first p bytes.
Repeats(b, c, e, p) == \A i \in c..(e - 1) : b[i] = b[c + ((i - c) % p)]

\* No rest of the block of p bytes from c is the beginning of it: it comes before
\* the block, and within it.
Unbordered(b, n, rev, c, p) ==
  \A d \in 1..(p - 1) : \E m : Mismatch(b, n, rev, c + d, c, m) /\ d + m < p

\* What the walk knows of the n bytes of b, at cut c, candidate j, offset k and period
\* p: the suffix from the cut is the maximal one of those that begin at or before the
\* candidate; what was compared repeats its first p bytes; the candidate ends a block.
Knows(b, n, rev, c, j, k, p) ==
  /\ c \in Nat /\ j \in Nat /\ k \in Nat \ {0} /\ p \in Nat \ {0}
  /\ c <= j /\ j < n /\ k <= p /\ p <= (j - c) + 1
  /\ ((j - c) + 1) % p = 0
  /\ Repeats(b, c, j + k, p)
  /\ Unbordered(b, n, rev, c, p)
  /\ \A s \in 0..(c - 1) : Precedes(b, n, rev, s, c)

WalkKnows(b, n, rev, w) == Knows(b, n, rev, w.cut, w.candidate, w.offset, w.period)

LEMMA NewWalkKnows ==
  ASSUME NEW b, NEW n, Word(b, n), NEW rev
  PROVE  WalkKnows(b, n, rev, NewWalk)
<1>1. NewWalk.cut = 0 /\ NewWalk.period = 1 /\ NewWalk.candidate = 0 /\ NewWalk.offset = 1
  BY DEF NewWalk
<1>2. Repeats(b, 0, 1, 1)
  BY ModSmall DEF Repeats
<1>3. 1 % 1 = 0
  OBVIOUS
<1> QED
  BY <1>1, <1>2, <1>3 DEF WalkKnows, Knows, Word, Unbordered

\* A place in a block of a whole number of periods has room to its end.
LEMMA WithinBlocks ==
  ASSUME NEW a \in Nat, NEW p \in Nat \ {0}, a % p = 0, NEW e \in Nat, e < a,
         NEW m \in Nat, (e % p) + m < p
  PROVE  e + m < a
<1>1. PICK u \in Nat : a = p * u
  BY ModZero
<1>2. PICK q \in Nat, r \in Nat : e = p * q + r /\ r + m < p
  <2>1. PICK q \in Nat, r \in Nat : e = p * q + r /\ r = e % p
    BY DivRest
  <2> QED
    BY <2>1
<1>3. q < u
  <2>1. CASE q >= u
    <3>1. PICK f \in Nat : q = u + f
      BY <2>1
    <3>2. p * q = p * u + p * f /\ p * f \in Nat
      BY <3>1
    <3> QED
      BY <1>1, <1>2, <3>2
  <2> QED
    BY <2>1
<1>4. PICK f \in Nat : u = q + 1 + f
  BY <1>3
<1>5. p * u = p * q + p + p * f /\ p * f \in Nat /\ p * q \in Nat
  BY <1>4
<1> QED
  BY <1>1, <1>2, <1>5

\* Places a multiple of p apart have the same byte.
LEMMA SamePlace ==
  ASSUME NEW b, NEW c \in Nat, NEW e \in Nat, NEW p \in Nat \ {0}, Repeats(b, c, e, p),
         NEW x \in Nat, NEW y \in Nat, NEW g \in Nat, g % p = 0, x = y + g, c <= y, x < e
  PROVE  b[x] = b[y]
<1>1. \A i \in c..(e - 1) : b[i] = b[c + ((i - c) % p)]
  BY DEF Repeats
<1>2. PICK t \in Nat : t = y - c
  OBVIOUS
<1>3. x \in c..(e - 1) /\ x - c = g + t /\ y \in c..(e - 1) /\ y - c = t
  BY <1>2
<1>4. b[x] = b[c + ((g + t) % p)] /\ b[y] = b[c + (t % p)]
  BY <1>1, <1>3
<1>5. (g + t) % p = t % p
  BY ModAdd
<1> QED
  BY <1>4, <1>5

LEMMA RepeatAgree ==
  ASSUME NEW b, NEW c \in Nat, NEW e \in Nat, NEW p \in Nat \ {0}, Repeats(b, c, e, p),
         NEW s \in Nat, NEW y \in Nat, NEW g \in Nat, g % p = 0, s = y + g, c <= y,
         NEW m \in Nat, s + m <= e
  PROVE  Agree(b, s, y, m)
<1>1. SUFFICES ASSUME NEW t \in 0..(m - 1)
               PROVE  b[s + t] = b[y + t]
  BY DEF Agree
<1>2. PICK x \in Nat, z \in Nat : x = s + t /\ z = y + t
  BY <1>1
<1>3. x = z + g /\ c <= z /\ x < e
  BY <1>1, <1>2
<1>4. b[x] = b[z]
  BY <1>3, SamePlace
<1> QED
  BY <1>2, <1>4

LEMMA ModSub ==
  ASSUME NEW a \in Nat, NEW d \in Nat, NEW p \in Nat \ {0}, a % p = 0, d % p = 0, d <= a
  PROVE  (a - d) % p = 0
<1>1. PICK u \in Nat, v \in Nat : a = p * u /\ d = p * v
  BY ModZero
<1>2. v <= u
  <2>1. CASE v > u
    <3>1. PICK f \in Nat : v = u + 1 + f
      BY <2>1
    <3>2. p * v = p * u + p + p * f /\ p * f \in Nat /\ p * u \in Nat
      BY <3>1
    <3> QED
      BY <1>1, <3>2
  <2> QED
    BY <2>1
<1>3. PICK f \in Nat : u = v + f
  BY <1>2
<1>4. p * u = p * v + p * f /\ p * f \in Nat /\ p * v \in Nat
  BY <1>3
<1>5. PICK z \in Nat : z < p /\ z = 0
  OBVIOUS
<1>6. (p * f + z) % p = z
  BY <1>3, <1>5, ModIs
<1>7. a - d = p * f + z
  BY <1>1, <1>4, <1>5
<1> QED
  BY <1>5, <1>6, <1>7

LEMMA ModRest ==
  ASSUME NEW a \in Nat, NEW p \in Nat \ {0}, NEW r \in Nat, a % p = r
  PROVE  r < p /\ r <= a /\ (a - r) % p = 0
<1>1. PICK q \in Nat : a = p * q + r /\ r < p
  BY DivRest
<1>2. p * q \in Nat
  BY <1>1
<1>3. PICK z \in Nat : z < p /\ z = 0
  OBVIOUS
<1>4. (p * q + z) % p = z
  BY <1>1, <1>3, ModIs
<1>5. a - r = p * q + z
  BY <1>1, <1>2, <1>3
<1> QED
  BY <1>1, <1>2, <1>3, <1>4, <1>5

\* Multiples of p are p apart.
LEMMA ModApart ==
  ASSUME NEW a \in Nat, NEW p \in Nat \ {0}, a % p = 0, a > 0
  PROVE  a >= p
<1>1. CASE a < p
  <2>1. a % p = a
    BY <1>1, ModSmall
  <2> QED
    BY <2>1
<1> QED
  BY <1>1

LEMMA SameRest ==
  ASSUME NEW u \in Nat, NEW v \in Nat, NEW p \in Nat \ {0}, NEW x \in Nat, NEW y \in Nat,
         x < p, y < p, p * u + x = p * v + y
  PROVE  x = y
<1>1. (p * u + x) % p = x /\ (p * v + y) % p = y
  BY ModIs
<1> QED
  BY <1>1

LEMMA KnowsBlock ==
  ASSUME NEW b, NEW n, NEW rev, NEW c, NEW j, NEW k, NEW p, Knows(b, n, rev, c, j, k, p),
         NEW a \in Nat, NEW e \in Nat, a = (j - c) + 1, e = j + k
  PROVE  a % p = 0 /\ c + a = j + 1 /\ Repeats(b, c, e, p)
<1>1. /\ c \in Nat /\ j \in Nat /\ c <= j /\ ((j - c) + 1) % p = 0
      /\ Repeats(b, c, j + k, p)
  BY DEF Knows
<1> QED
  BY <1>1

\* One byte more of what repeats.
LEMMA RepeatsMore ==
  ASSUME NEW b, NEW c \in Nat, NEW e \in Nat, NEW p \in Nat \ {0}, Repeats(b, c, e, p), c <= e,
         NEW r \in Nat, (e - c) % p = r, b[e] = b[c + r]
  PROVE  Repeats(b, c, e + 1, p)
<1>1. \A i \in c..(e - 1) : b[i] = b[c + ((i - c) % p)]
  BY DEF Repeats
<1>2. SUFFICES ASSUME NEW i \in c..((e + 1) - 1)
               PROVE  b[i] = b[c + ((i - c) % p)]
  BY DEF Repeats
<1>3. CASE i = e
  BY <1>3
<1>4. CASE i # e
  BY <1>1, <1>4
<1> QED
  BY <1>3, <1>4

LEMMA EqualKnows ==
  ASSUME NEW b, NEW n \in Nat, NEW rev, NEW c, NEW j, NEW k, NEW p, Knows(b, n, rev, c, j, k, p),
         j + k < n, b[j + k] = b[(c + k) - 1]
  PROVE  /\ k = p => Knows(b, n, rev, c, j + k, 1, p)
         /\ k # p => Knows(b, n, rev, c, j, k + 1, p)
<1>1. /\ c \in Nat /\ j \in Nat /\ k \in Nat \ {0} /\ p \in Nat \ {0}
      /\ c <= j /\ j < n /\ k <= p /\ p <= (j - c) + 1
      /\ Unbordered(b, n, rev, c, p)
      /\ \A s \in 0..(c - 1) : Precedes(b, n, rev, s, c)
  BY DEF Knows
<1>2. PICK a \in Nat, e \in Nat : /\ a = (j - c) + 1 /\ e = j + k /\ a % p = 0
                                  /\ c + a = j + 1 /\ Repeats(b, c, e, p)
  <2>1. PICK a \in Nat, e \in Nat : a = (j - c) + 1 /\ e = j + k
    BY <1>1
  <2> QED
    BY <2>1, KnowsBlock
<1>3. PICK r \in Nat : r = k - 1 /\ r < p
  BY <1>1
<1>4. (a + r) % p = r
  <2>1. (a + r) % p = r % p
    BY <1>2, <1>3, <1>1, ModAdd
  <2> QED
    BY <2>1, <1>1, <1>3, ModSmall
<1>5. e - c = a + r /\ c + r = (c + k) - 1 /\ c <= e
  BY <1>1, <1>2, <1>3
<1>6. b[e] = b[c + r] /\ (e - c) % p = r
  BY <1>2, <1>4, <1>5
<1>7. Repeats(b, c, e + 1, p)
  BY <1>1, <1>2, <1>3, <1>5, <1>6, RepeatsMore
<1>8. ASSUME k = p PROVE Knows(b, n, rev, c, j + k, 1, p)
  <2>1. (a + p) % p = 0
    BY <1>1, <1>2, ModNext
  <2>2. ((j + k) - c) + 1 = a + p /\ (j + k) + 1 = e + 1
    BY <1>1, <1>2, <1>8
  <2>3. (((j + k) - c) + 1) % p = 0 /\ Repeats(b, c, (j + k) + 1, p)
    BY <1>7, <2>1, <2>2
  <2> QED
    BY <1>1, <2>3 DEF Knows
<1>9. ASSUME k # p PROVE Knows(b, n, rev, c, j, k + 1, p)
  <2>1. ((j - c) + 1) % p = 0 /\ j + (k + 1) = e + 1
    BY <1>1, <1>2
  <2>2. Repeats(b, c, j + (k + 1), p)
    BY <1>7, <2>1
  <2> QED
    BY <1>1, <1>9, <2>1, <2>2 DEF Knows
<1> QED
  BY <1>8, <1>9

\* The suffix d behind the cut, as long as what was compared: it begins as the one a
\* whole number of periods before it.
LEMMA Rolled ==
  ASSUME NEW b, NEW c \in Nat, NEW e \in Nat, NEW p \in Nat \ {0}, Repeats(b, c, e, p),
         NEW d \in Nat, NEW r \in Nat, d % p = r, NEW m \in Nat, c + d + m <= e
  PROVE  r <= d /\ r < p /\ Agree(b, c + d, c + r, m)
<1>1. r < p /\ r <= d /\ (d - r) % p = 0
  BY ModRest
<1>2. PICK s \in Nat, y \in Nat, g \in Nat : s = c + d /\ y = c + r /\ g = d - r
  BY <1>1
<1>3. s = y + g /\ c <= y /\ s + m <= e /\ g % p = 0
  BY <1>1, <1>2
<1>4. Agree(b, s, y, m)
  BY <1>3, RepeatAgree
<1> QED
  BY <1>1, <1>2, <1>4

LEMMA RolledAt ==
  ASSUME NEW b, NEW c \in Nat, NEW e \in Nat, NEW p \in Nat \ {0}, Repeats(b, c, e, p),
         NEW d \in Nat, NEW r \in Nat, d % p = r, NEW m \in Nat, c + d + m <= e,
         NEW s, NEW y, s = c + d, y = c + r
  PROVE  Agree(b, s, y, m)
BY Rolled

LEMMA RolledMismatch ==
  ASSUME NEW b, NEW n \in Nat, NEW rev, NEW c \in Nat, NEW e \in Nat, NEW p \in Nat \ {0}, Repeats(b, c, e, p),
         NEW d \in Nat, NEW r \in Nat, d % p = r, NEW m \in Nat, Mismatch(b, n, rev, c + r, c, m),
         c + d + m < e, e <= n
  PROVE  Mismatch(b, n, rev, c + d, c, m)
<1>1. PICK s \in Nat, y \in Nat, o \in Nat : s = c + d /\ y = c + r /\ o = m + 1
  OBVIOUS
<1>2. Agree(b, s, y, o)
  <2>1. c + d + o <= e
    BY <1>1
  <2> QED
    BY <1>1, <2>1, Rolled
<1>3. Mismatch(b, n, rev, y, c, m) /\ m < o /\ s + m < n
  BY <1>1
<1> QED
  BY <1>1, <1>2, <1>3, MismatchVia

\* The byte of a later suffix that falls on the one in hand is the last of the block
\* compared with.
Falls(a, p, d, r, t, x, y) ==
  /\ a \in Nat /\ p \in Nat \ {0} /\ d \in Nat /\ r \in Nat /\ t \in Nat /\ x \in Nat /\ y \in Nat
  /\ a % p = 0 /\ d % p = r /\ x < p /\ d + t = a + x /\ y = r + t /\ y < p

LEMMA OnLast ==
  ASSUME NEW a, NEW p, NEW d, NEW r, NEW t, NEW x, NEW y, Falls(a, p, d, r, t, x, y)
  PROVE  y = x
<1>1. /\ a \in Nat /\ p \in Nat \ {0} /\ d \in Nat /\ r \in Nat /\ t \in Nat /\ x \in Nat /\ y \in Nat
      /\ a % p = 0 /\ d % p = r /\ x < p /\ d + t = a + x /\ y = r + t /\ y < p
  BY DEF Falls
<1>2. PICK u \in Nat : a = p * u
  BY <1>1, ModZero
<1>3. PICK q \in Nat : d = p * q + r
  BY <1>1, DivMod
<1>4. p * u \in Nat /\ p * q \in Nat
  BY <1>1
<1>5. p * q + y = p * u + x
  BY <1>1, <1>2, <1>3, <1>4
<1> QED
  BY <1>1, <1>5, SameRest

LEMMA LessUnbordered ==
  ASSUME NEW b, NEW n, Word(b, n), NEW rev \in BOOLEAN, NEW c, NEW j, NEW k, NEW p, Knows(b, n, rev, c, j, k, p),
         j + k < n, IsByteBefore(b[j + k], b[(c + k) - 1], rev),
         NEW d \in Nat \ {0}, d < ((j + k) - c) + 1
  PROVE  \E m : Mismatch(b, n, rev, c + d, c, m) /\ d + m < ((j + k) - c) + 1
<1>1. /\ c \in Nat /\ j \in Nat /\ k \in Nat \ {0} /\ p \in Nat \ {0} /\ n \in Nat
      /\ c <= j /\ j < n /\ k <= p /\ p <= (j - c) + 1
      /\ Unbordered(b, n, rev, c, p)
  BY DEF Knows, Word
<1>2. PICK a \in Nat, e \in Nat : /\ a = (j - c) + 1 /\ e = j + k /\ a % p = 0
                                  /\ c + a = j + 1 /\ Repeats(b, c, e, p)
  <2>1. PICK a \in Nat, e \in Nat : a = (j - c) + 1 /\ e = j + k
    BY <1>1
  <2> QED
    BY <2>1, KnowsBlock
<1>3. PICK z \in Nat, last \in Nat : z = (c + k) - 1 /\ last = k - 1
  BY <1>1
<1>4. IsByteBefore(b[e], b[z], rev) /\ e < n /\ z < n /\ z = c + last
  BY <1>1, <1>2, <1>3
<1>5. PICK s \in Nat, t \in Nat : s = c + d /\ s + t = e /\ d + t = (a + k) - 1
  <2>1. c + d <= e
    BY <1>1, <1>2
  <2>2. PICK s \in Nat, t \in Nat : s = c + d /\ t = e - s
    BY <1>1, <1>2, <2>1
  <2> QED
    BY <1>1, <1>2, <2>2
<1>6. PICK r \in Nat : d % p = r
  BY DivMod, <1>1
<1>7. PICK y \in Nat : y = c + t
  BY <1>1
<1>8. r <= d /\ r < p /\ Agree(b, s, c + r, t)
  <2>1. c + d + t <= e
    BY <1>1, <1>5
  <2> QED
    BY <1>1, <1>2, <1>5, <1>6, <2>1, Rolled
<1>9. \E m : Mismatch(b, n, rev, s, c, m) /\ d + m < (a + k)
  <2>1. CASE r = 0
    <3>1. Agree(b, s, c, t)
      <4>1. c + r = c
        BY <1>1, <2>1
      <4> QED
        BY <1>8, <4>1
    <3>2. d % p = 0
      BY <1>6, <2>1
    <3>3. d <= a
      <4>1. CASE d > a
        <5>1. (d - a) % p = 0
          <6>1. a \in Nat /\ d \in Nat /\ p \in Nat \ {0} /\ a % p = 0 /\ d % p = 0 /\ a <= d
            BY <1>1, <1>2, <3>2, <4>1
          <6> QED
            BY ONLY <6>1, ModSub
        <5>2. PICK f \in Nat : f = d - a /\ f > 0 /\ f % p = 0
          BY <1>2, <4>1, <5>1
        <5>3. f >= p
          BY <1>1, <5>2, ModApart
        <5> QED
          BY <1>1, <1>2, <1>5, <5>2, <5>3
      <4> QED
        BY <1>2, <4>1
    <3>4. PICK g \in Nat : g = a - d /\ g % p = 0
      <4>1. a \in Nat /\ d \in Nat /\ p \in Nat \ {0} /\ a % p = 0 /\ d % p = 0 /\ d <= a
        BY <1>1, <1>2, <3>2, <3>3
      <4>2. (a - d) % p = 0
        BY ONLY <4>1, ModSub
      <4> QED
        BY <4>1, <4>2
    <3>5. y = z + g /\ c <= z /\ y < e
      BY <1>1, <1>2, <1>3, <1>5, <1>7, <3>4
    <3>6. b[y] = b[z]
      BY <1>1, <1>2, <3>4, <3>5, SamePlace
    <3>7. Mismatch(b, n, rev, s, c, t)
      <4>1. e = s + t /\ y = c + t /\ e < n /\ y < n /\ IsByteBefore(b[e], b[y], rev)
        BY <1>1, <1>4, <1>5, <1>7, <3>5, <3>6
      <4> QED
        BY <3>1, <4>1, MakeMismatch
    <3> QED
      BY <1>1, <1>5, <3>7
  <2>2. CASE r # 0
    <3>1. PICK m : Mismatch(b, n, rev, c + r, c, m) /\ r + m < p
      BY <1>8, <1>1, <2>2 DEF Unbordered
    <3>2. PICK w \in Nat : w = c + r
      BY <1>1
    <3>3. m \in Nat /\ Agree(b, w, c, m) /\ Mismatch(b, n, rev, w, c, m)
      BY <1>1, <3>1, <3>2, MismatchAt
    <3>4. CASE m < t
      <4>1. c + d + m < e /\ e <= n
        BY <1>1, <1>4, <1>5, <3>3, <3>4
      <4>2. Mismatch(b, n, rev, c + d, c, m)
        BY <1>1, <1>2, <1>6, <3>1, <3>3, <4>1, RolledMismatch
      <4> QED
        BY <1>1, <1>5, <3>3, <3>4, <4>2
    <3>5. CASE m >= t
      <4>1. r + t = k - 1
        <5>1. r + t < p
          BY <1>1, <3>1, <3>3, <3>5
        <5>2. PICK x \in Nat, v \in Nat : x = k - 1 /\ d + t = a + x /\ v = r + t /\ v < p
          BY <1>1, <1>5, <5>1
        <5>3. Falls(a, p, d, r, t, x, v)
          BY <1>1, <1>2, <1>6, <5>2 DEF Falls
        <5>4. v = x
          BY <5>3, OnLast
        <5> QED
          BY <5>2, <5>4
      <4>2. w + t = z
        BY <1>1, <1>3, <3>2, <4>1
      <4>3. Agree(b, s, c, t)
        <5>1. Agree(b, w, c, t)
          BY <1>1, <3>2, <3>3, <3>5, AgreeLess
        <5>2. Agree(b, s, w, t)
          BY <1>8, <3>2
        <5> QED
          BY <5>1, <5>2, AgreeThrough
      <4>4. y < n /\ IsByteBefore(b[e], b[y], rev)
        <5>1. CASE m > t
          <6>1. b[z] = b[y]
            BY <1>1, <1>7, <3>2, <3>3, <4>2, <5>1, AgreeAt
          <6>2. y < e
            BY <1>1, <1>5, <1>7
          <6> QED
            BY <1>1, <1>4, <6>1, <6>2
        <5>2. CASE m = t
          <6>1. y < n /\ IsByteBefore(b[z], b[y], rev)
            BY <1>1, <1>7, <3>2, <3>3, <4>2, <5>2, MismatchAt
          <6>2. b[e] \in Nat /\ b[z] \in Nat /\ b[y] \in Nat
            BY <1>1, <1>4, <6>1 DEF Word
          <6> QED
            BY <1>4, <6>1, <6>2, BeforeIsOrder
        <5> QED
          BY <3>3, <3>5, <5>1, <5>2
      <4>5. Mismatch(b, n, rev, s, c, t)
        BY <1>4, <1>5, <1>7, <4>3, <4>4, MakeMismatch
      <4> QED
        BY <1>1, <1>5, <4>5
    <3> QED
      BY <3>3, <3>4, <3>5
  <2> QED
    BY <2>1, <2>2
<1> QED
  <2>1. a + k = ((j + k) - c) + 1
    BY <1>1, <1>2
  <2> QED
    BY <1>5, <1>9, <2>1

LEMMA LessKnows ==
  ASSUME NEW b, NEW n, Word(b, n), NEW rev \in BOOLEAN, NEW c, NEW j, NEW k, NEW p, Knows(b, n, rev, c, j, k, p),
         j + k < n, IsByteBefore(b[j + k], b[(c + k) - 1], rev)
  PROVE  Knows(b, n, rev, c, j + k, 1, ((j + k) - c) + 1)
<1>1. /\ c \in Nat /\ j \in Nat /\ k \in Nat \ {0} /\ p \in Nat \ {0} /\ n \in Nat
      /\ c <= j /\ j < n /\ k <= p
      /\ \A s \in 0..(c - 1) : Precedes(b, n, rev, s, c)
  BY DEF Knows, Word
<1>2. PICK w \in Nat \ {0} : w = ((j + k) - c) + 1
  BY <1>1
<1>3. Unbordered(b, n, rev, c, w)
  BY <1>2, LessUnbordered DEF Unbordered
<1>4. Repeats(b, c, (j + k) + 1, w)
  <2>1. SUFFICES ASSUME NEW i \in c..(((j + k) + 1) - 1)
                 PROVE  b[i] = b[c + ((i - c) % w)]
    BY DEF Repeats
  <2>2. PICK x \in Nat : x = i - c /\ x < w /\ c + x = i
    BY <1>1, <1>2
  <2>3. x % w = x
    BY <1>2, <2>2, ModSmall
  <2> QED
    BY <2>2, <2>3
<1>5. w % w = 0
  <2>1. PICK z \in Nat : z = 0 /\ z < w
    BY <1>2
  <2>2. z % w = z
    BY <1>2, <2>1, ModSmall
  <2>3. (z + w) % w = z % w
    BY <1>2, <2>1, ModNext
  <2> QED
    BY <2>1, <2>2, <2>3
<1>6. /\ c <= j + k /\ j + k \in Nat /\ 1 <= w /\ w <= ((j + k) - c) + 1
      /\ (((j + k) - c) + 1) % w = 0
  BY <1>1, <1>2, <1>5
<1> QED
  BY <1>1, <1>2, <1>3, <1>4, <1>6 DEF Knows

LEMMA MoreKnows ==
  ASSUME NEW b, NEW n, Word(b, n), NEW rev \in BOOLEAN, NEW c, NEW j, NEW k, NEW p, Knows(b, n, rev, c, j, k, p),
         j + k < n, IsByteBefore(b[(c + k) - 1], b[j + k], rev)
  PROVE  Knows(b, n, rev, j + 1, j + 1, 1, 1)
<1>1. /\ c \in Nat /\ j \in Nat /\ k \in Nat \ {0} /\ p \in Nat \ {0} /\ n \in Nat
      /\ c <= j /\ j < n /\ k <= p /\ p <= (j - c) + 1
      /\ Unbordered(b, n, rev, c, p)
      /\ \A s \in 0..(c - 1) : Precedes(b, n, rev, s, c)
  BY DEF Knows, Word
<1>2. PICK a \in Nat, e \in Nat : /\ a = (j - c) + 1 /\ e = j + k /\ a % p = 0
                                  /\ c + a = j + 1 /\ Repeats(b, c, e, p)
  <2>1. PICK a \in Nat, e \in Nat : a = (j - c) + 1 /\ e = j + k
    BY <1>1
  <2> QED
    BY <2>1, KnowsBlock
<1>3. PICK z \in Nat, last \in Nat, f \in Nat : z = (c + k) - 1 /\ last = k - 1 /\ f = j + 1
  BY <1>1
<1>4. /\ IsByteBefore(b[z], b[e], rev) /\ e < n /\ z < n /\ z = c + last /\ e = f + last
      /\ f = c + a /\ last < k
  BY <1>1, <1>2, <1>3
<1>5. Agree(b, f, c, last)
  <2>1. c <= c /\ f + last <= e
    BY <1>1, <1>4
  <2> QED
    BY <1>1, <1>2, <1>4, <2>1, RepeatAgree
<1>6. Agree(b, c, f, last)
  BY <1>5, AgreeBack
<1>7. Precedes(b, n, rev, c, f)
  BY <1>4, <1>6, MakeMismatch DEF Precedes
<1>8. ASSUME NEW s \in Nat, s < f PROVE Precedes(b, n, rev, s, f)
  <2>1. CASE s < c
    <3>1. Precedes(b, n, rev, s, c)
      BY <1>1, <2>1
    <3> QED
      BY <1>1, <1>7, <3>1, PrecedesTransitive
  <2>2. CASE s = c
    BY <1>7, <2>2
  <2>3. CASE s > c
    <3>1. PICK d \in Nat : d = s - c /\ s = c + d /\ d < a /\ d > 0
      BY <1>1, <1>4, <1>8, <2>3
    <3>2. PICK r \in Nat : d % p = r
      BY DivMod, <1>1
    <3>3. CASE r = 0
      <4>1. d % p = 0 /\ c <= c
        BY <1>1, <3>2, <3>3
      <4>2. PICK x \in Nat : x = s + last /\ x < e /\ x = z + d
        <5>1. s + last \in Nat /\ s + last < e
          BY <1>4, <1>8
        <5>2. s + last = z + d
          BY <1>1, <1>4, <3>1
        <5> QED
          BY <5>1, <5>2
      <4>3. c <= z
        BY <1>1, <1>4
      <4>4. b[x] = b[z]
        BY <1>1, <1>2, <4>1, <4>2, <4>3, SamePlace
      <4>5. Agree(b, s, c, last)
        <5>1. s + last <= e
          BY <1>1, <1>2, <4>2
        <5> QED
          BY <1>1, <1>2, <3>1, <4>1, <5>1, RepeatAgree
      <4>6. Agree(b, s, f, last)
        BY <1>6, <4>5, AgreeThrough
      <4>7. x < n /\ IsByteBefore(b[x], b[e], rev)
        BY <1>1, <1>4, <4>2, <4>4
      <4>8. Mismatch(b, n, rev, s, f, last)
        BY <1>4, <4>2, <4>6, <4>7, MakeMismatch
      <4> QED
        BY <4>8 DEF Precedes
    <3>4. CASE r # 0
      <4>1. r < p
        BY <1>1, <3>2, ModRest
      <4>2. PICK m : Mismatch(b, n, rev, c + r, c, m) /\ r + m < p
        BY <1>1, <3>4, <4>1 DEF Unbordered
      <4>3. m \in Nat
        BY <4>2 DEF Mismatch
      <4>4. d + m < a
        <5>1. (d % p) + m < p
          BY <3>2, <4>2
        <5> QED
          BY <1>1, <1>2, <3>1, <4>3, <5>1, WithinBlocks
      <4>5. c + d + m < e /\ e <= n
        BY <1>1, <1>2, <1>4, <4>3, <4>4
      <4>6. Mismatch(b, n, rev, c + d, c, m)
        BY <1>1, <1>2, <3>2, <4>2, <4>3, <4>5, RolledMismatch
      <4>7. Precedes(b, n, rev, s, c)
        BY <3>1, <4>6 DEF Precedes
      <4> QED
        BY <1>1, <1>7, <4>7, PrecedesTransitive
    <3> QED
      BY <3>3, <3>4
  <2> QED
    BY <1>1, <2>1, <2>2, <2>3
<1>9. f \in Nat /\ f < n /\ f <= f /\ (f - f) + 1 = 1
  BY <1>1, <1>4
<1>10. 1 % 1 = 0
  OBVIOUS
<1>11. Repeats(b, f, f + 1, 1)
  <2>1. SUFFICES ASSUME NEW i \in f..((f + 1) - 1)
                 PROVE  b[i] = b[f + ((i - f) % 1)]
    BY DEF Repeats
  <2>2. i = f /\ i - f = 0
    OBVIOUS
  <2>3. (i - f) % 1 = 0
    BY <2>2
  <2> QED
    BY <2>2, <2>3
<1>12. Unbordered(b, n, rev, f, 1)
  BY DEF Unbordered
<1>13. \A s \in 0..(f - 1) : Precedes(b, n, rev, s, f)
  BY <1>8
<1>14. ((f - f) + 1) % 1 = 0
  BY <1>9, <1>10
<1>15. Knows(b, n, rev, f, f, 1, 1)
  BY <1>9, <1>11, <1>12, <1>13, <1>14 DEF Knows
<1> QED
  BY <1>3, <1>15

-----------------------------------------------------------------------------
(* The walk of the model.                                                   *)

Letters(v) == [i \in 0..(Len(v) - 1) |-> ByteAt(v, i)]

LEMMA LettersWord ==
  ASSUME NEW v \in Seq(Bytes), Len(v) > 0
  PROVE  /\ Word(Letters(v), Len(v))
         /\ \A i \in 0..(Len(v) - 1) : Letters(v)[i] = v[i + 1]
<1>1. Len(v) \in Nat
  OBVIOUS
<1>2. ASSUME NEW i \in 0..(Len(v) - 1) PROVE Letters(v)[i] = v[i + 1] /\ v[i + 1] \in Nat
  <2>1. i + 1 \in 1..Len(v)
    BY <1>1
  <2>2. v[i + 1] \in Bytes
    BY <2>1
  <2> QED
    BY <2>2, StrSearchAssumption DEF Letters, ByteAt
<1> QED
  BY <1>1, <1>2 DEF Word

IsWalk(w) == w \in [cut : Nat, period : Nat \ {0}, candidate : Nat, offset : Nat \ {0}]

LEMMA WalkedKnows ==
  ASSUME needle \in Seq(Bytes), Len(needle) > 0, NEW w, IsWalk(w), NEW rev \in BOOLEAN,
         WalkKnows(Letters(needle), Len(needle), rev, w), ~(w.offset >= Len(needle) - w.candidate)
  PROVE  /\ IsWalk(Walked(w, rev))
         /\ WalkKnows(Letters(needle), Len(needle), rev, Walked(w, rev))
         /\ Walked(w, rev).cut + Walked(w, rev).candidate + Walked(w, rev).offset > w.cut + w.candidate + w.offset
<1>1. PICK b, n : b = Letters(needle) /\ n = Len(needle) /\ n \in Nat
  <2>1. Len(needle) \in Nat
    OBVIOUS
  <2> QED
    BY <2>1
<1>2. Word(b, n) /\ \A i \in 0..(n - 1) : b[i] = needle[i + 1]
  BY <1>1, LettersWord
<1>3. PICK c, j, k, p : c = w.cut /\ j = w.candidate /\ k = w.offset /\ p = w.period
  OBVIOUS
<1>4. Knows(b, n, rev, c, j, k, p)
  BY <1>1, <1>3 DEF WalkKnows
<1>5. /\ c \in Nat /\ j \in Nat /\ k \in Nat \ {0} /\ p \in Nat \ {0}
      /\ c <= j /\ j < n /\ k <= p /\ p <= (j - c) + 1
  BY <1>4 DEF Knows
<1>6. j + k < n
  BY <1>1, <1>3, <1>5
<1>7. PICK x \in Nat, y \in Nat : x = b[(c + k) - 1] /\ y = b[j + k]
  <2>1. (c + k) - 1 \in 0..(n - 1) /\ j + k \in 0..(n - 1)
    BY <1>1, <1>5, <1>6
  <2> QED
    BY <1>2, <2>1 DEF Word
<1>8. ByteAt(needle, w.cut + w.offset - 1) = x /\ ByteAt(needle, w.candidate + w.offset) = y
  <2>1. (c + k) - 1 \in 0..(n - 1) /\ j + k \in 0..(n - 1) /\ c + k - 1 = (c + k) - 1
    BY <1>1, <1>5, <1>6
  <2> QED
    BY <1>2, <1>3, <1>7, <2>1 DEF ByteAt
<1>9. w = [cut |-> c, period |-> p, candidate |-> j, offset |-> k]
  BY <1>3 DEF IsWalk
<1>10. CASE y = x /\ k = p
  <2>1. Knows(b, n, rev, c, j + k, 1, p)
    BY <1>1, <1>4, <1>6, <1>7, <1>10, EqualKnows
  <2>2. PICK c2, p2, j2, k2 : c2 = c /\ p2 = p /\ j2 = j + k /\ k2 = 1
    OBVIOUS
  <2>3. Knows(b, n, rev, c2, j2, k2, p2) /\ c2 + j2 + k2 > c + j + k
    BY <1>5, <1>10, <2>1, <2>2
  <2>4. Walked(w, rev) = [cut |-> c2, period |-> p2, candidate |-> j2, offset |-> k2]
    BY <1>5, <1>8, <1>9, <1>10, <2>2 DEF Walked
  <2>5. PICK v : v = Walked(w, rev)
    OBVIOUS
  <2>6. c2 \in Nat /\ p2 \in Nat \ {0} /\ j2 \in Nat /\ k2 \in Nat \ {0}
    BY <2>3 DEF Knows
  <2>7. v.cut = c2 /\ v.period = p2 /\ v.candidate = j2 /\ v.offset = k2 /\ IsWalk(v)
    BY <2>4, <2>5, <2>6 DEF IsWalk
  <2>8. WalkKnows(b, n, rev, v)
    BY <2>3, <2>7 DEF WalkKnows
  <2> QED
    BY <1>1, <1>3, <2>3, <2>5, <2>7, <2>8
<1>11. CASE y = x /\ k # p
  <2>1. Knows(b, n, rev, c, j, k + 1, p)
    BY <1>1, <1>4, <1>6, <1>7, <1>11, EqualKnows
  <2>2. PICK c2, p2, j2, k2 : c2 = c /\ p2 = p /\ j2 = j /\ k2 = k + 1
    OBVIOUS
  <2>3. Knows(b, n, rev, c2, j2, k2, p2) /\ c2 + j2 + k2 > c + j + k
    BY <1>5, <1>11, <2>1, <2>2
  <2>4. Walked(w, rev) = [cut |-> c2, period |-> p2, candidate |-> j2, offset |-> k2]
    BY <1>5, <1>8, <1>9, <1>11, <2>2 DEF Walked
  <2>5. PICK v : v = Walked(w, rev)
    OBVIOUS
  <2>6. c2 \in Nat /\ p2 \in Nat \ {0} /\ j2 \in Nat /\ k2 \in Nat \ {0}
    BY <2>3 DEF Knows
  <2>7. v.cut = c2 /\ v.period = p2 /\ v.candidate = j2 /\ v.offset = k2 /\ IsWalk(v)
    BY <2>4, <2>5, <2>6 DEF IsWalk
  <2>8. WalkKnows(b, n, rev, v)
    BY <2>3, <2>7 DEF WalkKnows
  <2> QED
    BY <1>1, <1>3, <2>3, <2>5, <2>7, <2>8
<1>12. CASE y # x /\ IsByteBefore(y, x, rev)
  <2>1. Knows(b, n, rev, c, j + k, 1, ((j + k) - c) + 1)
    BY <1>2, <1>1, <1>4, <1>6, <1>7, <1>12, LessKnows
  <2>2. PICK c2, p2, j2, k2 : c2 = c /\ p2 = ((j + k) - c) + 1 /\ j2 = j + k /\ k2 = 1
    OBVIOUS
  <2>3. Knows(b, n, rev, c2, j2, k2, p2) /\ c2 + j2 + k2 > c + j + k
    BY <1>5, <1>12, <2>1, <2>2
  <2>4. Walked(w, rev) = [cut |-> c2, period |-> p2, candidate |-> j2, offset |-> k2]
    BY <1>5, <1>8, <1>9, <1>12, <2>2 DEF Walked
  <2>5. PICK v : v = Walked(w, rev)
    OBVIOUS
  <2>6. c2 \in Nat /\ p2 \in Nat \ {0} /\ j2 \in Nat /\ k2 \in Nat \ {0}
    BY <2>3 DEF Knows
  <2>7. v.cut = c2 /\ v.period = p2 /\ v.candidate = j2 /\ v.offset = k2 /\ IsWalk(v)
    BY <2>4, <2>5, <2>6 DEF IsWalk
  <2>8. WalkKnows(b, n, rev, v)
    BY <2>3, <2>7 DEF WalkKnows
  <2> QED
    BY <1>1, <1>3, <2>3, <2>5, <2>7, <2>8
<1>13. CASE y # x /\ ~IsByteBefore(y, x, rev)
  <2>1. IsByteBefore(x, y, rev)
    BY <1>13, BeforeIsOrder
  <2>2. Knows(b, n, rev, j + 1, j + 1, 1, 1)
    BY <1>2, <2>1, <1>1, <1>4, <1>6, <1>7, <1>13, MoreKnows
  <2>3. PICK c2, p2, j2, k2 : c2 = j + 1 /\ p2 = 1 /\ j2 = j + 1 /\ k2 = 1
    OBVIOUS
  <2>4. Knows(b, n, rev, c2, j2, k2, p2) /\ c2 + j2 + k2 > c + j + k
    BY <1>5, <1>13, <2>2, <2>3
  <2>5. Walked(w, rev) = [cut |-> c2, period |-> p2, candidate |-> j2, offset |-> k2]
    BY <1>5, <1>8, <1>9, <1>13, <2>3 DEF Walked
  <2>6. PICK v : v = Walked(w, rev)
    OBVIOUS
  <2>7. c2 \in Nat /\ p2 \in Nat \ {0} /\ j2 \in Nat /\ k2 \in Nat \ {0}
    BY <2>4 DEF Knows
  <2>8. v.cut = c2 /\ v.period = p2 /\ v.candidate = j2 /\ v.offset = k2 /\ IsWalk(v)
    BY <2>5, <2>6, <2>7 DEF IsWalk
  <2>9. WalkKnows(b, n, rev, v)
    BY <2>4, <2>8 DEF WalkKnows
  <2> QED
    BY <1>1, <1>3, <2>4, <2>6, <2>8, <2>9
<1> QED
  BY <1>10, <1>11, <1>12, <1>13

-----------------------------------------------------------------------------
(* The factor.                                                              *)

\* The walk at its end: the suffix from c is the maximal one of the n bytes of b, its
\* period is p, and the beginning of it of that length is unbordered.
Maximal(b, n, rev, c, p) ==
  /\ Word(b, n) /\ rev \in BOOLEAN /\ c \in Nat /\ p \in Nat \ {0} /\ c + p <= n
  /\ Repeats(b, c, n, p)
  /\ Unbordered(b, n, rev, c, p)
  /\ \A s \in 0..(c - 1) : Precedes(b, n, rev, s, c)

LEMMA KnowsMaximal ==
  ASSUME NEW b, NEW n, Word(b, n), NEW rev \in BOOLEAN, NEW c, NEW j, NEW k, NEW p, Knows(b, n, rev, c, j, k, p),
         j + k >= n
  PROVE  Maximal(b, n, rev, c, p)
<1>1. /\ c \in Nat /\ j \in Nat /\ k \in Nat \ {0} /\ p \in Nat \ {0} /\ n \in Nat
      /\ c <= j /\ j < n /\ k <= p /\ p <= (j - c) + 1
      /\ Unbordered(b, n, rev, c, p)
      /\ \A s \in 0..(c - 1) : Precedes(b, n, rev, s, c)
      /\ Repeats(b, c, j + k, p)
  BY DEF Knows, Word
<1>2. Repeats(b, c, n, p)
  <2>1. \A i \in c..(n - 1) : i \in c..((j + k) - 1)
    BY <1>1
  <2> QED
    BY <1>1, <2>1 DEF Repeats
<1> QED
  BY <1>1, <1>2 DEF Maximal

LEMMA Clash ==
  ASSUME NEW b, NEW n, Word(b, n), NEW rev \in BOOLEAN, NEW s \in Nat, NEW c \in Nat,
         NEW o, Mismatch(b, n, rev, s, c, o), NEW m, Mismatch(b, n, rev, c, s, m)
  PROVE  FALSE
<1>1. o \in Nat /\ Agree(b, s, c, o) /\ m \in Nat /\ Agree(b, c, s, m)
  BY MismatchAt
<1>2. PICK x \in Nat, y \in Nat : x = s + o /\ y = c + o /\ x < n /\ y < n /\ IsByteBefore(b[x], b[y], rev)
  BY MismatchAt
<1>3. PICK u \in Nat, v \in Nat : u = c + m /\ v = s + m /\ u < n /\ v < n /\ IsByteBefore(b[u], b[v], rev)
  BY MismatchAt
<1>4. b[x] \in Nat /\ b[y] \in Nat /\ b[u] \in Nat /\ b[v] \in Nat
  BY <1>2, <1>3 DEF Word
<1>5. CASE o < m
  <2>1. b[y] = b[x]
    BY <1>1, <1>2, <1>5, AgreeAt
  <2> QED
    BY <1>2, <1>4, <2>1, BeforeIsOrder
<1>6. CASE o > m
  <2>1. b[v] = b[u]
    BY <1>1, <1>3, <1>6, AgreeAt
  <2> QED
    BY <1>3, <1>4, <2>1, BeforeIsOrder
<1>7. CASE o = m
  <2>1. x = v /\ y = u
    BY <1>2, <1>3, <1>7
  <2> QED
    BY <1>2, <1>3, <1>4, <2>1, BeforeIsOrder
<1> QED
  BY <1>1, <1>5, <1>6, <1>7

LEMMA Flip ==
  ASSUME NEW b, NEW n, NEW rev \in BOOLEAN, NEW s \in Nat, NEW c \in Nat, NEW m, Mismatch(b, n, rev, s, c, m)
  PROVE  Mismatch(b, n, ~rev, c, s, m)
<1>1. Agree(b, c, s, m) /\ m \in Nat
  BY AgreeBack DEF Mismatch
<1>2. IsByteBefore(b[c + m], b[s + m], ~rev)
  BY DEF Mismatch, IsByteBefore
<1> QED
  BY <1>1, <1>2 DEF Mismatch

\* A suffix behind the maximal one begins it, or comes before it.
LEMMA LaterSuffix ==
  ASSUME NEW b, NEW n, NEW rev, NEW c, NEW p, Maximal(b, n, rev, c, p),
         NEW s \in Nat, c < s, s < n
  PROVE  Agree(b, s, c, n - s) \/ Precedes(b, n, rev, s, c)
<1>1. /\ c \in Nat /\ p \in Nat \ {0} /\ n \in Nat /\ c + p <= n
      /\ Repeats(b, c, n, p) /\ Unbordered(b, n, rev, c, p)
  BY DEF Maximal, Word
<1>2. PICK d \in Nat, e \in Nat : d = s - c /\ s = c + d /\ e = n - s /\ s + e = n
  BY <1>1
<1>3. PICK r \in Nat : d % p = r
  BY <1>1, DivMod
<1>4. r < p /\ Agree(b, s, c + r, e)
  <2>1. c + d + e <= n
    BY <1>1, <1>2
  <2>2. PICK y \in Nat : y = c + r
    BY <1>1
  <2>3. Agree(b, s, y, e)
    BY <1>1, <1>2, <1>3, <2>1, <2>2, RolledAt
  <2>4. r < p
    BY <1>1, <1>3, ModRest
  <2> QED
    BY <2>2, <2>3, <2>4
<1>5. CASE r = 0
  <2>1. c + r = c
    BY <1>1, <1>5
  <2> QED
    BY <1>2, <1>4, <2>1
<1>6. CASE r # 0
  <2>1. PICK m : Mismatch(b, n, rev, c + r, c, m) /\ r + m < p
    BY <1>1, <1>4, <1>6 DEF Unbordered
  <2>2. PICK w \in Nat : w = c + r
    BY <1>1
  <2>3. m \in Nat /\ Agree(b, w, c, m)
    BY <1>1, <2>1, <2>2, MismatchAt
  <2>4. CASE m < e
    <3>1. c + d + m < n
      BY <1>1, <1>2, <2>3, <2>4
    <3>2. n <= n
      BY <1>1
    <3>3. Mismatch(b, n, rev, c + d, c, m)
      BY <1>1, <1>3, <2>1, <2>3, <3>1, <3>2, RolledMismatch
    <3> QED
      BY <1>2, <3>3 DEF Precedes
  <2>5. CASE m >= e
    <3>1. Agree(b, w, c, e)
      BY <1>1, <2>3, <2>5, AgreeLess
    <3>2. Agree(b, s, w, e)
      BY <1>4, <2>2
    <3>3. Agree(b, s, c, e)
      BY <3>1, <3>2, AgreeThrough
    <3> QED
      BY <1>2, <3>3
  <2> QED
    BY <2>3, <2>4, <2>5
<1> QED
  BY <1>5, <1>6

\* Nothing comes behind the maximal suffix.
LEMMA NothingBeats ==
  ASSUME NEW b, NEW n, NEW rev, NEW c, NEW p, Maximal(b, n, rev, c, p),
         NEW s \in Nat, NEW m, Mismatch(b, n, rev, c, s, m)
  PROVE  FALSE
<1>1. c \in Nat /\ n \in Nat /\ Word(b, n) /\ rev \in BOOLEAN /\ \A y \in 0..(c - 1) : Precedes(b, n, rev, y, c)
  BY DEF Maximal, Word
<1>2. m \in Nat /\ Agree(b, c, s, m)
  BY <1>1, MismatchAt
<1>3. PICK u \in Nat, v \in Nat : u = c + m /\ v = s + m /\ u < n /\ v < n /\ IsByteBefore(b[u], b[v], rev)
  BY <1>1, MismatchAt
<1>4. b[u] \in Nat /\ b[v] \in Nat
  BY <1>1, <1>3 DEF Word
<1>5. ~Precedes(b, n, rev, s, c)
  BY <1>1, Clash DEF Precedes
<1>6. CASE s < c
  BY <1>1, <1>5, <1>6
<1>7. CASE s = c
  <2>1. u = v
    BY <1>1, <1>3, <1>7
  <2> QED
    BY <1>1, <1>3, <1>4, <2>1, BeforeIsOrder
<1>8. CASE s > c
  <2>1. s < n
    BY <1>1, <1>2, <1>3
  <2>2. Agree(b, s, c, n - s)
    BY <1>1, <1>5, <1>8, <2>1, LaterSuffix
  <2>3. PICK e \in Nat : e = n - s /\ s + e = n
    BY <1>1, <2>1
  <2>4. Agree(b, s, c, e)
    BY <2>2, <2>3
  <2>5. b[v] = b[u]
    BY <1>1, <1>2, <1>3, <2>3, <2>4, AgreeAt
  <2> QED
    BY <1>1, <1>3, <1>4, <2>5, BeforeIsOrder
<1> QED
  BY <1>1, <1>6, <1>7, <1>8

-----------------------------------------------------------------------------
(* The cut is critical.                                                     *)

HasPeriod(b, n, r) == \A x, y \in Nat : x = y + r /\ x < n => b[x] = b[y]

\* r is a repetition around c.
Repetition(b, n, c, r) == \A x, y \in Nat : x = y + r /\ x < n /\ y < c /\ c <= x => b[x] = b[y]

LEMMA PeriodRepeats ==
  ASSUME NEW b, NEW n, NEW c, NEW r, HasPeriod(b, n, r)
  PROVE  Repetition(b, n, c, r)
BY DEF HasPeriod, Repetition

\* No repetition around the cut fits in front of it.
LEMMA RepetitionLong ==
  ASSUME NEW b, NEW n, NEW rev, NEW c, NEW p, Maximal(b, n, rev, c, p),
         NEW r \in Nat \ {0}, Repetition(b, n, c, r)
  PROVE  r > c
<1>1. c \in Nat /\ n \in Nat /\ Word(b, n) /\ rev \in BOOLEAN /\ \A y \in 0..(c - 1) : Precedes(b, n, rev, y, c)
  BY DEF Maximal, Word
<1>2. SUFFICES ASSUME r <= c PROVE FALSE
  BY <1>1
<1>3. PICK s \in Nat, f \in Nat : s = c - r /\ f = c + r /\ s < c
  BY <1>1, <1>2
<1>4. PICK m : Mismatch(b, n, rev, s, c, m)
  BY <1>1, <1>3 DEF Precedes
<1>5. m \in Nat /\ Agree(b, s, c, m)
  BY <1>1, <1>4, MismatchAt
<1>6. PICK y \in Nat, x \in Nat : y = s + m /\ x = c + m /\ y < n /\ x < n /\ IsByteBefore(b[y], b[x], rev)
  BY <1>1, <1>4, MismatchAt
<1>7. m >= r
  <2>1. CASE m < r
    <3>1. x = y + r /\ x < n /\ y < c /\ c <= x
      BY <1>1, <1>3, <1>5, <1>6, <2>1
    <3>2. b[x] = b[y]
      BY <3>1 DEF Repetition
    <3>3. b[x] \in Nat /\ b[y] \in Nat
      BY <1>1, <1>6 DEF Word
    <3> QED
      BY <1>1, <1>6, <3>2, <3>3, BeforeIsOrder
  <2> QED
    BY <1>5, <2>1
<1>8. PICK o \in Nat : o = m - r /\ y = c + o /\ x = f + o
  BY <1>1, <1>3, <1>5, <1>6, <1>7
<1>9. Agree(b, c, f, o)
  <2>1. SUFFICES ASSUME NEW t \in 0..(o - 1)
                 PROVE  b[c + t] = b[f + t]
    BY DEF Agree
  <2>2. PICK u \in Nat, v \in Nat : u = c + t /\ v = f + t
    BY <1>1
  <2>3. s <= u /\ u < s + m /\ u + c = v + s
    BY <1>1, <1>3, <1>5, <1>8, <2>2
  <2>4. b[u] = b[v]
    BY <1>1, <1>5, <2>3, AgreeAt
  <2> QED
    BY <2>2, <2>4
<1>10. Mismatch(b, n, rev, c, f, o)
  BY <1>6, <1>8, <1>9, MakeMismatch
<1> QED
  BY <1>10, NothingBeats

\* A repetition around the later of the cuts of both orders is a period.
LEMMA RepetitionPeriod ==
  ASSUME NEW b, NEW n, NEW rev, NEW c, NEW p, Maximal(b, n, rev, c, p),
         NEW cc, NEW pp, Maximal(b, n, ~rev, cc, pp), cc <= c,
         NEW r \in Nat \ {0}, Repetition(b, n, c, r)
  PROVE  HasPeriod(b, n, r)
<1>1. c \in Nat /\ cc \in Nat /\ n \in Nat /\ Word(b, n) /\ rev \in BOOLEAN
  BY DEF Maximal, Word
<1>2. r > c
  BY RepetitionLong
<1> DEFINE bad == {t \in Nat : (c + t) + r < n /\ b[(c + t) + r] # b[c + t]}
<1>3. CASE bad = {}
  <2>1. SUFFICES ASSUME NEW x \in Nat, NEW y \in Nat, x = y + r, x < n
                 PROVE  b[x] = b[y]
    BY DEF HasPeriod
  <2>2. CASE y < c
    <3>1. c <= x
      BY <1>1, <1>2, <2>1
    <3> QED
      BY <2>1, <2>2, <3>1 DEF Repetition
  <2>3. CASE y >= c
    <3>1. PICK t \in Nat : t = y - c /\ y = c + t /\ x = (c + t) + r
      BY <1>1, <2>1, <2>3
    <3>2. t \notin bad
      BY <1>3
    <3> QED
      BY <2>1, <3>1, <3>2
  <2> QED
    BY <1>1, <2>2, <2>3
<1>4. CASE bad # {}
  <2>1. PICK m \in bad : \A t \in bad : m <= t
    BY <1>4, LeastNumber
  <2>2. m \in Nat /\ (c + m) + r < n /\ b[(c + m) + r] # b[c + m]
    BY <2>1
  <2>3. \A t \in Nat : t < m => t \notin bad
    BY <2>1, <2>2
  <2>4. PICK y \in Nat, x \in Nat, f \in Nat, g \in Nat :
          y = c + m /\ x = (c + m) + r /\ f = c + r /\ g = cc + r
    BY <1>1, <2>2
  <2>5. x = f + m /\ x < n /\ y < n /\ b[x] # b[y] /\ b[x] \in Nat /\ b[y] \in Nat
    BY <1>1, <2>2, <2>4 DEF Word
  <2>6. Agree(b, f, c, m)
    <3>1. SUFFICES ASSUME NEW t \in 0..(m - 1)
                   PROVE  b[f + t] = b[c + t]
      BY DEF Agree
    <3>2. t \in Nat /\ t < m
      BY <2>2
    <3>3. t \notin bad
      BY <2>3, <3>2
    <3>4. f + t = (c + t) + r /\ (c + t) + r < n
      BY <1>1, <2>2, <2>4, <3>2
    <3> QED
      BY <3>2, <3>3, <3>4
  <2>7. IsByteBefore(b[x], b[y], rev)
    <3>1. CASE IsByteBefore(b[y], b[x], rev)
      <4>1. Agree(b, c, f, m)
        BY <2>6, AgreeBack
      <4>2. Mismatch(b, n, rev, c, f, m)
        BY <2>2, <2>4, <2>5, <3>1, <4>1, MakeMismatch
      <4> QED
        BY <4>2, NothingBeats
    <3> QED
      BY <1>1, <2>5, <3>1, BeforeIsOrder
  <2>8. PICK o \in Nat : o = (c - cc) + m /\ x = g + o /\ y = cc + o
    BY <1>1, <2>2, <2>4
  <2>9. Agree(b, cc, g, o)
    <3>1. SUFFICES ASSUME NEW t \in 0..(o - 1)
                   PROVE  b[cc + t] = b[g + t]
      BY DEF Agree
    <3>2. PICK u \in Nat, v \in Nat : u = cc + t /\ v = g + t /\ v = u + r /\ v < n /\ u < y
      BY <1>1, <2>4, <2>5, <2>8
    <3>3. CASE u < c
      <4>1. c <= v
        BY <1>1, <1>2, <3>2
      <4> QED
        BY <3>2, <3>3, <4>1 DEF Repetition
    <3>4. CASE u >= c
      <4>1. PICK k \in Nat : k = u - c /\ u = c + k /\ v = (c + k) + r /\ k < m
        BY <1>1, <2>2, <2>4, <3>2, <3>4
      <4>2. k \notin bad
        BY <2>3, <4>1
      <4> QED
        BY <3>2, <4>1, <4>2
    <3> QED
      BY <1>1, <3>3, <3>4
  <2>10. IsByteBefore(b[y], b[x], ~rev)
    BY <1>1, <2>5, <2>7 DEF IsByteBefore
  <2>11. Mismatch(b, n, ~rev, cc, g, o)
    BY <2>5, <2>8, <2>9, <2>10, MakeMismatch
  <2> QED
    BY <2>11, NothingBeats
<1> QED
  BY <1>3, <1>4

-----------------------------------------------------------------------------
(* The shift.                                                               *)

LEMMA ModSelf ==
  ASSUME NEW p \in Nat \ {0}
  PROVE  p % p = 0
<1>1. PICK z \in Nat : z = 0 /\ z < p
  OBVIOUS
<1>2. z % p = z
  BY <1>1, ModSmall
<1>3. (z + p) % p = z % p
  BY <1>1, ModNext
<1>4. z + p = p
  BY <1>1
<1> QED
  BY <1>1, <1>2, <1>3, <1>4

\* What comes before the cut is found again a period further on.
FactorPeriodic(b, n, c, p) == c + p <= n /\ \A x, y \in Nat : x = y + p /\ y < c => b[x] = b[y]

LEMMA FactorHasPeriod ==
  ASSUME NEW b, NEW n, NEW rev, NEW c, NEW p, Maximal(b, n, rev, c, p), FactorPeriodic(b, n, c, p)
  PROVE  HasPeriod(b, n, p)
<1>1. c \in Nat /\ n \in Nat /\ p \in Nat \ {0} /\ Repeats(b, c, n, p)
  BY DEF Maximal, Word
<1>2. SUFFICES ASSUME NEW x \in Nat, NEW y \in Nat, x = y + p, x < n
               PROVE  b[x] = b[y]
  BY DEF HasPeriod
<1>3. CASE y < c
  BY <1>2, <1>3 DEF FactorPeriodic
<1>4. CASE y >= c
  <2>1. PICK g \in Nat : g = p /\ g % p = 0 /\ x = y + g /\ c <= y
    BY <1>1, <1>2, <1>4, ModSelf
  <2> QED
    BY <1>1, <1>2, <2>1, SamePlace
<1> QED
  BY <1>1, <1>3, <1>4

LEMMA PeriodAtLeast ==
  ASSUME NEW b, NEW n, NEW rev, NEW c, NEW p, Maximal(b, n, rev, c, p),
         NEW r \in Nat \ {0}, HasPeriod(b, n, r)
  PROVE  r >= p
<1>1. /\ c \in Nat /\ n \in Nat /\ p \in Nat \ {0} /\ Word(b, n) /\ rev \in BOOLEAN
      /\ Unbordered(b, n, rev, c, p)
  BY DEF Maximal, Word
<1>2. SUFFICES ASSUME r < p PROVE FALSE
  BY <1>1
<1>3. PICK m : Mismatch(b, n, rev, c + r, c, m) /\ r + m < p
  BY <1>1, <1>2 DEF Unbordered
<1>4. PICK s \in Nat : s = c + r
  BY <1>1
<1>5. Mismatch(b, n, rev, s, c, m)
  BY <1>3, <1>4
<1>6. PICK x \in Nat, y \in Nat : x = s + m /\ y = c + m /\ x < n /\ y < n /\ IsByteBefore(b[x], b[y], rev)
  BY <1>1, <1>5, MismatchAt
<1>7. m \in Nat
  BY <1>1, <1>5, MismatchAt
<1>8. x = y + r
  BY <1>1, <1>4, <1>6, <1>7
<1>9. b[x] = b[y]
  BY <1>6, <1>8 DEF HasPeriod
<1>10. b[x] \in Nat /\ b[y] \in Nat
  BY <1>1, <1>6 DEF Word
<1> QED
  BY <1>1, <1>6, <1>9, <1>10, BeforeIsOrder

\* When what comes before the cut does not continue the repetition behind it, every
\* period reaches over the suffix.
LEMMA NonperiodicLong ==
  ASSUME NEW b, NEW n, NEW rev, NEW c, NEW p, Maximal(b, n, rev, c, p),
         NEW cc, NEW pp, Maximal(b, n, ~rev, cc, pp), cc <= c,
         NEW r \in Nat \ {0}, HasPeriod(b, n, r), ~FactorPeriodic(b, n, c, p)
  PROVE  r > n - c
<1>1. /\ c \in Nat /\ cc \in Nat /\ n \in Nat /\ p \in Nat \ {0} /\ Word(b, n) /\ rev \in BOOLEAN
      /\ c + p <= n /\ Repeats(b, c, n, p) /\ Unbordered(b, n, rev, c, p)
  BY DEF Maximal, Word
<1>2. r > c
  BY PeriodRepeats, RepetitionLong
<1>3. r >= p
  BY PeriodAtLeast
<1>4. SUFFICES ASSUME c + r <= n PROVE FALSE
  BY <1>1
<1>5. PICK d \in Nat : r % p = d
  BY <1>1, DivMod
<1>6. d < p /\ d <= r /\ (r - d) % p = 0
  BY <1>1, <1>5, ModRest
<1>7. PICK g \in Nat : g = r - d /\ g % p = 0 /\ r = g + d
  BY <1>6
<1>8. CASE d = 0
  <2>1. r % p = 0 /\ p % p = 0
    BY <1>1, <1>5, <1>8, ModSelf
  <2>2. PICK h \in Nat : h = r - p /\ h % p = 0
    <3>1. (r - p) % p = 0
      BY <1>1, <1>3, <2>1, ModSub
    <3> QED
      BY <1>1, <1>3, <3>1
  <2>3. ASSUME NEW x \in Nat, NEW y \in Nat, x = y + p, y < c PROVE b[x] = b[y]
    <3>1. PICK u \in Nat : u = y + r /\ u < n /\ c <= u
      BY <1>1, <1>2, <1>4, <2>3
    <3>2. b[u] = b[y]
      BY <3>1 DEF HasPeriod
    <3>3. u = x + h
      BY <1>1, <2>2, <2>3, <3>1
    <3>4. CASE c <= x
      <4>1. b[u] = b[x]
        BY <1>1, <2>2, <3>1, <3>3, <3>4, SamePlace
      <4> QED
        BY <3>2, <4>1
    <3>5. CASE x < c
      <4>1. PICK v \in Nat, q \in Nat : v = x + r /\ v < n /\ q = p /\ q % p = 0 /\ v = u + q
        BY <1>1, <1>4, <2>1, <2>3, <3>1, <3>5
      <4>2. b[v] = b[x]
        BY <4>1 DEF HasPeriod
      <4>3. b[v] = b[u]
        BY <1>1, <3>1, <4>1, SamePlace
      <4> QED
        BY <3>2, <4>2, <4>3
    <3> QED
      BY <1>1, <3>4, <3>5
  <2> QED
    BY <1>1, <2>3 DEF FactorPeriodic
<1>9. CASE d # 0
  <2>1. PICK m : Mismatch(b, n, rev, c + d, c, m) /\ d + m < p
    BY <1>1, <1>6, <1>9 DEF Unbordered
  <2>2. PICK w \in Nat : w = c + d
    BY <1>1
  <2>3. m \in Nat /\ Agree(b, w, c, m) /\ Mismatch(b, n, rev, w, c, m)
    BY <1>1, <2>1, <2>2, MismatchAt
  <2>4. PICK x \in Nat, y \in Nat : x = w + m /\ y = c + m /\ x < n /\ y < n /\ IsByteBefore(b[x], b[y], rev)
    BY <1>1, <2>3, MismatchAt
  <2>5. IsByteBefore(b[y], b[x], ~rev)
    BY <1>1, <2>4 DEF IsByteBefore
  <2>6. CASE d <= c
    \* The suffix d before the cut would come behind the one from it.
    <3>1. PICK s \in Nat, o \in Nat : s = c - d /\ o = d + m /\ y = s + o /\ x = c + o /\ s < c
      BY <1>1, <1>9, <2>2, <2>3, <2>4, <2>6
    <3>2. Agree(b, s, c, o)
      <4>1. SUFFICES ASSUME NEW t \in 0..(o - 1)
                     PROVE  b[s + t] = b[c + t]
        BY DEF Agree
      <4>2. PICK u \in Nat, v \in Nat : u = s + t /\ v = c + t /\ v = u + d
        BY <1>1, <3>1
      <4>3. CASE u < c
        <5>1. PICK z \in Nat : z = u + r /\ z = v + g /\ c <= v /\ z < n
          BY <1>1, <1>2, <1>4, <1>7, <3>1, <4>1, <4>2, <4>3
        <5>2. b[z] = b[u]
          BY <5>1 DEF HasPeriod
        <5>3. b[z] = b[v]
          BY <1>1, <1>7, <5>1, SamePlace
        <5> QED
          BY <4>2, <5>2, <5>3
      <4>4. CASE u >= c
        <5>1. w <= v /\ v < w + m /\ v + c = u + w
          BY <1>1, <2>2, <2>3, <3>1, <4>1, <4>2, <4>4
        <5>2. b[v] = b[u]
          BY <1>1, <2>3, <5>1, AgreeAt
        <5> QED
          BY <4>2, <5>2
      <4> QED
        BY <1>1, <4>2, <4>3, <4>4
    <3>3. Agree(b, c, s, o)
      BY <3>2, AgreeBack
    <3>4. Mismatch(b, n, rev, c, s, o)
      BY <2>4, <3>1, <3>3, MakeMismatch
    <3> QED
      BY <3>4, NothingBeats
  <2>7. CASE d > c
    \* In the other order, a suffix behind the other cut would come behind the one from it.
    <3>1. PICK s \in Nat, e \in Nat, o \in Nat :
            /\ e = c - cc /\ s + e = c + d /\ o = e + m /\ y = cc + o /\ x = s + o /\ c <= s
      <4>1. PICK e \in Nat : e = c - cc /\ e < d
        BY <1>1, <2>7
      <4>2. PICK s \in Nat : s + e = c + d /\ c <= s
        <5>1. (c + d) - e \in Nat /\ ((c + d) - e) + e = c + d /\ c <= (c + d) - e
          BY <1>1, <4>1
        <5> QED
          BY <5>1
      <4> QED
        BY <1>1, <2>2, <2>3, <2>4, <4>1, <4>2
    <3>2. Agree(b, cc, s, o)
      <4>1. SUFFICES ASSUME NEW t \in 0..(o - 1)
                     PROVE  b[cc + t] = b[s + t]
        BY DEF Agree
      <4>2. PICK u \in Nat, v \in Nat : u = cc + t /\ v = s + t /\ v = u + d
        BY <1>1, <3>1
      <4>3. CASE u < c
        <5>1. PICK z \in Nat : z = u + r /\ z = v + g /\ c <= v /\ z < n
          BY <1>1, <1>2, <1>4, <1>7, <3>1, <4>1, <4>2, <4>3
        <5>2. b[z] = b[u]
          BY <5>1 DEF HasPeriod
        <5>3. b[z] = b[v]
          BY <1>1, <1>7, <5>1, SamePlace
        <5> QED
          BY <4>2, <5>2, <5>3
      <4>4. CASE u >= c
        <5>1. w <= v /\ v < w + m /\ v + c = u + w
          BY <1>1, <2>2, <2>3, <3>1, <4>1, <4>2, <4>4
        <5>2. b[v] = b[u]
          BY <1>1, <2>3, <5>1, AgreeAt
        <5> QED
          BY <4>2, <5>2
      <4> QED
        BY <1>1, <4>2, <4>3, <4>4
    <3>3. Mismatch(b, n, ~rev, cc, s, o)
      BY <2>4, <2>5, <3>1, <3>2, MakeMismatch
    <3> QED
      BY <3>3, NothingBeats
  <2> QED
    BY <1>1, <2>6, <2>7
<1> QED
  BY <1>8, <1>9

-----------------------------------------------------------------------------
(* The search, on words b of n bytes and texts h.                           *)

\* The cut c is critical, the shift at most any period, and what is remembered after
\* a shift the rest of the word behind it.
Critical(b, n, c, shift, mem) ==
  /\ n \in Nat \ {0} /\ c \in Nat /\ c < n /\ shift \in Nat \ {0} /\ mem \in Nat /\ mem < n
  /\ \A r \in Nat \ {0} : Repetition(b, n, c, r) => HasPeriod(b, n, r)
  /\ \A r \in Nat \ {0} : HasPeriod(b, n, r) => r >= shift
  /\ mem > 0 => HasPeriod(b, n, shift) /\ mem + shift = n /\ shift > c

\* The context that the factor of the longer cut gives.
Shift(b, n, c, p) ==
  IF FactorPeriodic(b, n, c, p) THEN p ELSE IF c > (n - c) + 1 THEN c ELSE (n - c) + 1
Memory(b, n, c, p) == IF FactorPeriodic(b, n, c, p) THEN n - p ELSE 0

LEMMA FactorIsCritical ==
  ASSUME NEW b, NEW n, NEW rev, NEW c, NEW p, Maximal(b, n, rev, c, p),
         NEW cc, NEW pp, Maximal(b, n, ~rev, cc, pp), cc <= c
  PROVE  Critical(b, n, c, Shift(b, n, c, p), Memory(b, n, c, p))
<1>1. /\ c \in Nat /\ cc \in Nat /\ n \in Nat /\ p \in Nat \ {0} /\ c + p <= n
  BY DEF Maximal, Word
<1>2. \A r \in Nat \ {0} : Repetition(b, n, c, r) => HasPeriod(b, n, r)
  BY RepetitionPeriod
<1>3. \A r \in Nat \ {0} : HasPeriod(b, n, r) => r > c
  BY RepetitionLong, PeriodRepeats
<1>4. CASE FactorPeriodic(b, n, c, p)
  <2>1. Shift(b, n, c, p) = p /\ Memory(b, n, c, p) = n - p
    BY <1>4 DEF Shift, Memory
  <2>2. HasPeriod(b, n, p)
    BY <1>4, FactorHasPeriod
  <2>3. \A r \in Nat \ {0} : HasPeriod(b, n, r) => r >= p
    BY PeriodAtLeast
  <2>4. n - p \in Nat /\ n - p < n /\ (n - p) + p = n /\ p > c /\ n \in Nat \ {0} /\ c < n
    BY <1>1, <1>3, <2>2
  <2> QED
    BY <1>1, <1>2, <2>1, <2>2, <2>3, <2>4 DEF Critical
<1>5. CASE ~FactorPeriodic(b, n, c, p)
  <2>1. PICK s \in Nat \ {0} : s = Shift(b, n, c, p) /\ s = IF c > (n - c) + 1 THEN c ELSE (n - c) + 1
    <3>1. PICK s \in Nat \ {0} : s = IF c > (n - c) + 1 THEN c ELSE (n - c) + 1
      <4>1. (n - c) + 1 \in Nat \ {0}
        BY <1>1
      <4>2. c > (n - c) + 1 => c \in Nat \ {0}
        BY <1>1
      <4> QED
        BY <4>1, <4>2
    <3>2. Shift(b, n, c, p) = IF c > (n - c) + 1 THEN c ELSE (n - c) + 1
      BY <1>5 DEF Shift
    <3> QED
      BY <3>1, <3>2
  <2>2. Memory(b, n, c, p) = 0
    BY <1>5 DEF Memory
  <2>3. \A r \in Nat \ {0} : HasPeriod(b, n, r) => r > n - c
    BY <1>5, NonperiodicLong
  <2>4. \A r \in Nat \ {0} : HasPeriod(b, n, r) => r >= s
    BY <1>1, <1>3, <2>1, <2>3
  <2>5. n \in Nat \ {0} /\ c < n
    BY <1>1
  <2>6. Critical(b, n, c, s, 0)
    BY <1>1, <1>2, <2>4, <2>5 DEF Critical
  <2> QED
    BY <2>1, <2>2, <2>6
<1> QED
  BY <1>4, <1>5

OccursIn(b, n, h, i) == \A x, y \in Nat : x = i + y /\ y < n => h[x] = b[y]

\* The bytes of the word from c to k are those of the text at i.
FitsAt(b, h, i, c, k) == \A x, y \in Nat : x = i + y /\ c <= y /\ y < k => h[x] = b[y]

\* Behind a place that matches from the cut to k, and not at k, nothing occurs at less
\* than k - c + 1 places on; behind a full match, at less than the shift.
LEMMA SkipSafe ==
  ASSUME NEW b, NEW n, NEW c, NEW shift, NEW mem, Critical(b, n, c, shift, mem),
         NEW h, NEW i \in Nat, NEW k \in Nat, c <= k, k <= n, FitsAt(b, h, i, c, k),
         NEW z \in Nat, z = i + k, k = n \/ h[z] # b[k],
         NEW q \in Nat \ {0}, k = n \/ c + q <= k, NEW o \in Nat, o = i + q, OccursIn(b, n, h, o)
  PROVE  k = n /\ q >= shift
<1>1. /\ n \in Nat \ {0} /\ c \in Nat /\ c < n /\ shift \in Nat \ {0}
      /\ \A r \in Nat \ {0} : Repetition(b, n, c, r) => HasPeriod(b, n, r)
      /\ \A r \in Nat \ {0} : HasPeriod(b, n, r) => r >= shift
  BY DEF Critical
<1>2. Repetition(b, n, c, q)
  <2>1. SUFFICES ASSUME NEW x \in Nat, NEW y \in Nat, x = y + q, x < n, y < c, c <= x
                 PROVE  b[x] = b[y]
    BY DEF Repetition
  <2>2. PICK u \in Nat : u = i + x /\ u = o + y
    BY <2>1
  <2>3. y < n /\ x < k
    BY <1>1, <2>1
  <2>4. h[u] = b[y]
    BY <2>2, <2>3 DEF OccursIn
  <2>5. h[u] = b[x]
    BY <2>1, <2>2, <2>3 DEF FitsAt
  <2> QED
    BY <2>4, <2>5
<1>3. HasPeriod(b, n, q) /\ q >= shift
  BY <1>1, <1>2
<1>4. CASE k # n
  <2>1. PICK y \in Nat : k = y + q /\ y < n /\ k < n
    BY <1>1, <1>4
  <2>2. b[k] = b[y]
    BY <1>3, <2>1 DEF HasPeriod
  <2>3. z = o + y
    BY <2>1
  <2>4. h[z] = b[y]
    BY <2>1, <2>3 DEF OccursIn
  <2> QED
    BY <1>4, <2>2, <2>4
<1> QED
  BY <1>3, <1>4

\* What is remembered after a shift does match at the new place.
LEMMA MemoryFits ==
  ASSUME NEW b, NEW n, NEW c, NEW shift, NEW mem, Critical(b, n, c, shift, mem),
         NEW h, NEW i \in Nat, FitsAt(b, h, i, c, n), NEW o \in Nat, o = i + shift
  PROVE  FitsAt(b, h, o, 0, mem)
<1>1. /\ n \in Nat \ {0} /\ c \in Nat /\ c < n /\ shift \in Nat \ {0} /\ mem \in Nat
      /\ mem > 0 => HasPeriod(b, n, shift) /\ mem + shift = n /\ shift > c
  BY DEF Critical
<1>2. SUFFICES ASSUME NEW x \in Nat, NEW y \in Nat, x = o + y, 0 <= y, y < mem
               PROVE  h[x] = b[y]
  BY DEF FitsAt
<1>3. HasPeriod(b, n, shift) /\ mem + shift = n /\ shift > c
  BY <1>1, <1>2
<1>4. PICK u \in Nat : u = y + shift /\ u < n /\ c <= u /\ x = i + u
  BY <1>1, <1>2, <1>3
<1>5. b[u] = b[y]
  BY <1>3, <1>4 DEF HasPeriod
<1>6. h[x] = b[u]
  BY <1>4 DEF FitsAt
<1> QED
  BY <1>5, <1>6

-----------------------------------------------------------------------------
(* The needle and the haystack of the model.                                *)

LEMMA LetterIs ==
  ASSUME NEW v \in Seq(Bytes), NEW i \in Nat, i < Len(v)
  PROVE  Letters(v)[i] = v[i + 1] /\ ByteAt(v, i) = v[i + 1] /\ v[i + 1] \in Nat /\ v[i + 1] \in Bytes
<1>1. i \in 0..(Len(v) - 1) /\ i + 1 \in 1..Len(v)
  OBVIOUS
<1>2. v[i + 1] \in Bytes
  BY <1>1
<1> QED
  BY <1>1, <1>2, StrSearchAssumption DEF Letters, ByteAt

LEMMA SameLetters ==
  ASSUME NEW s \in Seq(Bytes), NEW t \in Seq(Bytes), Len(s) = Len(t),
         \A j \in 1..Len(s) : s[j] = t[j]
  PROVE  s = t
OBVIOUS

LEMMA OccursAtIs ==
  ASSUME needle \in Seq(Bytes), haystack \in Seq(Bytes), Len(needle) > 0, NEW i \in 0..LastIdx
  PROVE  OccursAt(i) <=> OccursIn(Letters(needle), Len(needle), Letters(haystack), i)
<1>1. PICK n \in Nat, l \in Nat : n = Len(needle) /\ l = Len(haystack) /\ n > 0 /\ i + n <= l /\ i \in Nat
  BY DEF LastIdx
<1>2. PICK s : s = SubSeq(haystack, i + 1, i + n) /\ s \in Seq(Bytes) /\ Len(s) = n
               /\ \A j \in 1..n : s[j] = haystack[i + j]
  <2>1. 1 <= i + 1 /\ i + n <= Len(haystack) /\ i + 1 <= i + n
    BY <1>1
  <2>2. SubSeq(haystack, i + 1, i + n) \in Seq(Bytes) /\ Len(SubSeq(haystack, i + 1, i + n)) = n
    BY <1>1, <2>1
  <2>3. \A j \in 1..n : SubSeq(haystack, i + 1, i + n)[j] = haystack[i + j]
    BY <1>1, <2>1
  <2> QED
    BY <2>2, <2>3
<1>3. OccursAt(i) <=> \A j \in 1..n : haystack[i + j] = needle[j]
  <2>1. OccursAt(i) <=> s = needle
    BY <1>1, <1>2 DEF OccursAt
  <2>2. s = needle <=> \A j \in 1..n : s[j] = needle[j]
    <3>1. ASSUME \A j \in 1..n : s[j] = needle[j] PROVE s = needle
      BY <1>1, <1>2, <3>1, SameLetters
    <3> QED
      BY <3>1
  <2> QED
    BY <1>2, <2>1, <2>2
<1>4. ASSUME \A j \in 1..n : haystack[i + j] = needle[j]
      PROVE  OccursIn(Letters(needle), Len(needle), Letters(haystack), i)
  <2>1. SUFFICES ASSUME NEW x \in Nat, NEW y \in Nat, x = i + y, y < n
                 PROVE  Letters(haystack)[x] = Letters(needle)[y]
    BY <1>1 DEF OccursIn
  <2>2. PICK j \in 1..n : j = y + 1 /\ i + j = x + 1
    BY <1>1, <2>1
  <2>3. Letters(haystack)[x] = haystack[x + 1] /\ Letters(needle)[y] = needle[y + 1]
    <3>1. x < Len(haystack) /\ y < Len(needle)
      BY <1>1, <2>1
    <3> QED
      BY <3>1, LetterIs
  <2> QED
    BY <1>4, <2>2, <2>3
<1>5. ASSUME OccursIn(Letters(needle), Len(needle), Letters(haystack), i), NEW j \in 1..n
      PROVE  haystack[i + j] = needle[j]
  <2>1. PICK x \in Nat, y \in Nat : x = i + y /\ y = j - 1 /\ y < n /\ x < l
    BY <1>1
  <2>2. Letters(haystack)[x] = Letters(needle)[y]
    BY <1>1, <1>5, <2>1 DEF OccursIn
  <2>3. Letters(haystack)[x] = haystack[x + 1] /\ Letters(needle)[y] = needle[y + 1]
    BY <1>1, <2>1, LetterIs
  <2>4. x + 1 = i + j /\ y + 1 = j
    BY <1>1, <2>1
  <2> QED
    BY <2>2, <2>3, <2>4
<1> QED
  BY <1>3, <1>4, <1>5

LEMMA IsPeriodIs ==
  ASSUME NEW v \in Seq(Bytes), NEW p \in 1..Len(v)
  PROVE  IsPeriod(v, p) <=> HasPeriod(Letters(v), Len(v), p)
<1>1. PICK n \in Nat : n = Len(v) /\ p \in Nat /\ p > 0
  OBVIOUS
<1>2. ASSUME IsPeriod(v, p) PROVE HasPeriod(Letters(v), Len(v), p)
  <2>1. SUFFICES ASSUME NEW x \in Nat, NEW y \in Nat, x = y + p, x < n
                 PROVE  Letters(v)[x] = Letters(v)[y]
    BY <1>1 DEF HasPeriod
  <2>2. PICK i \in 1..(n - p) : i = y + 1 /\ i + p = x + 1
    BY <1>1, <2>1
  <2>3. v[i] = v[i + p]
    BY <1>1, <1>2, <2>2 DEF IsPeriod
  <2>4. Letters(v)[x] = v[x + 1] /\ Letters(v)[y] = v[y + 1]
    <3>1. x < Len(v) /\ y < Len(v)
      BY <1>1, <2>1
    <3> QED
      BY <3>1, LetterIs
  <2> QED
    BY <2>2, <2>3, <2>4
<1>3. ASSUME HasPeriod(Letters(v), Len(v), p), NEW i \in 1..(n - p) PROVE v[i] = v[i + p]
  <2>1. PICK x \in Nat, y \in Nat : x = y + p /\ y = i - 1 /\ x < n /\ y < n /\ x + 1 = i + p /\ y + 1 = i
    BY <1>1
  <2>2. Letters(v)[x] = Letters(v)[y]
    BY <1>1, <1>3, <2>1 DEF HasPeriod
  <2>3. Letters(v)[x] = v[x + 1] /\ Letters(v)[y] = v[y + 1]
    BY <1>1, <2>1, LetterIs
  <2> QED
    BY <2>1, <2>2, <2>3
<1> QED
  BY <1>1, <1>2, <1>3 DEF IsPeriod

\* The repetitions the property names are those around the cut.
LEMMA LocalIs ==
  ASSUME NEW v \in Seq(Bytes), NEW p \in 1..Len(v), NEW c \in Nat, c < Len(v),
         \A i \in (c - p + 1)..c : i >= 1 /\ i + p <= Len(v) => v[i] = v[i + p]
  PROVE  Repetition(Letters(v), Len(v), c, p)
<1>1. PICK n \in Nat : n = Len(v) /\ p \in Nat /\ p > 0
  OBVIOUS
<1>2. SUFFICES ASSUME NEW x \in Nat, NEW y \in Nat, x = y + p, x < n, y < c, c <= x
               PROVE  Letters(v)[x] = Letters(v)[y]
  BY <1>1 DEF Repetition
<1>3. PICK i \in (c - p + 1)..c : i = y + 1 /\ i >= 1 /\ i + p = x + 1 /\ i + p <= n
  BY <1>1, <1>2
<1>4. v[i] = v[i + p]
  BY <1>1, <1>3
<1>5. Letters(v)[x] = v[x + 1] /\ Letters(v)[y] = v[y + 1]
  <2>1. x < Len(v) /\ y < Len(v)
    BY <1>1, <1>2
  <2> QED
    BY <2>1, LetterIs
<1> QED
  BY <1>3, <1>4, <1>5

ContextSound ==
  Critical(Letters(needle), Len(needle), context.factor.cut, context.full_shift, context.saved_memory)

LEMMA SoundIsCritical ==
  ASSUME needle \in Seq(Bytes), ContextSound
  PROVE  /\ LocalPeriod(needle, context.factor.cut) = Period(needle)
         /\ context.full_shift <= Period(needle)
<1> DEFINE c == context.factor.cut
           P == {p \in 1..Len(needle) : IsPeriod(needle, p)}
           L == {p \in 1..Len(needle) :
                   \A i \in (c - p + 1)..c : i >= 1 /\ i + p <= Len(needle) => needle[i] = needle[i + p]}
<1>1. PICK n \in Nat \ {0} : n = Len(needle) /\ c \in Nat /\ c < n /\ context.full_shift \in Nat
  BY DEF ContextSound, Critical
<1>2. /\ \A r \in Nat \ {0} : Repetition(Letters(needle), n, c, r) => HasPeriod(Letters(needle), n, r)
      /\ \A r \in Nat \ {0} : HasPeriod(Letters(needle), n, r) => r >= context.full_shift
  BY <1>1 DEF ContextSound, Critical
<1> HIDE DEF c
<1>3. ASSUME NEW p \in L PROVE p \in P
  <2>1. Repetition(Letters(needle), n, c, p)
    BY <1>1, LocalIs
  <2>2. HasPeriod(Letters(needle), n, p)
    BY <1>2, <2>1
  <2> QED
    BY <1>1, <2>2, IsPeriodIs
<1>4. ASSUME NEW p \in P PROVE p \in L
  <2>1. \A i \in 1..(n - p) : needle[i] = needle[i + p]
    BY <1>1 DEF IsPeriod
  <2>2. ASSUME NEW i \in (c - p + 1)..c, i >= 1, i + p <= n PROVE needle[i] = needle[i + p]
    <3>1. i \in 1..(n - p)
      BY <1>1, <2>2
    <3> QED
      BY <2>1, <3>1
  <2> QED
    BY <1>1, <2>2
<1>5. L = P
  BY <1>3, <1>4
<1>6. LocalPeriod(needle, c) = Period(needle)
  BY <1>5 DEF LocalPeriod, Period
<1>7. context.full_shift <= Period(needle)
  <2>1. n \in P
    <3>1. \A i \in 1..(n - n) : needle[i] = needle[i + n]
      BY <1>1
    <3> QED
      BY <1>1, <3>1 DEF IsPeriod
  <2>2. Min(P) \in P
    <3>1. P \subseteq Nat /\ P # {}
      BY <1>1, <2>1
    <3> QED
      BY <3>1, MinIs
  <2>3. PICK r : r = Min(P) /\ r \in P
    BY <2>2
  <2>4. r \in Nat \ {0} /\ HasPeriod(Letters(needle), n, r)
    BY <1>1, <2>3, IsPeriodIs
  <2> QED
    BY <1>2, <2>3, <2>4 DEF Period
<1> QED
  BY <1>6, <1>7 DEF c

-----------------------------------------------------------------------------
(* The context the model builds.                                            *)

SliceOf(s, v, a, m) == s \in Seq(Bytes) /\ Len(s) = m /\ \A j \in 1..m : s[j] = v[a + j]

LEMMA SliceIs ==
  ASSUME NEW v \in Seq(Bytes), NEW a \in Nat, NEW m \in Nat, a + m <= Len(v)
  PROVE  SliceOf(SubSeq(v, a + 1, a + m), v, a, m)
<1>1. CASE m = 0
  BY <1>1 DEF SliceOf
<1>2. CASE m > 0
  <2>1. 1 <= a + 1 /\ a + m <= Len(v) /\ a + 1 <= a + m
    BY <1>2
  <2>2. SubSeq(v, a + 1, a + m) \in Seq(Bytes) /\ Len(SubSeq(v, a + 1, a + m)) = m
    BY <2>1
  <2>3. \A j \in 1..m : SubSeq(v, a + 1, a + m)[j] = v[a + j]
    BY <2>1
  <2> QED
    BY <2>2, <2>3 DEF SliceOf
<1> QED
  BY <1>1, <1>2

LEMMA SlicesEqual ==
  ASSUME NEW v \in Seq(Bytes), NEW w \in Seq(Bytes), NEW a \in Nat, NEW e \in Nat, NEW m \in Nat,
         a + m <= Len(v), e + m <= Len(w)
  PROVE  SubSeq(v, a + 1, a + m) = SubSeq(w, e + 1, e + m) <=> \A j \in 1..m : v[a + j] = w[e + j]
<1>1. PICK s : s = SubSeq(v, a + 1, a + m) /\ s \in Seq(Bytes) /\ Len(s) = m /\ \A j \in 1..m : s[j] = v[a + j]
  <2>1. SliceOf(SubSeq(v, a + 1, a + m), v, a, m)
    BY SliceIs
  <2> QED
    BY <2>1 DEF SliceOf
<1>2. PICK t : t = SubSeq(w, e + 1, e + m) /\ t \in Seq(Bytes) /\ Len(t) = m /\ \A j \in 1..m : t[j] = w[e + j]
  <2>1. SliceOf(SubSeq(w, e + 1, e + m), w, e, m)
    BY SliceIs
  <2> QED
    BY <2>1 DEF SliceOf
<1>3. ASSUME \A j \in 1..m : v[a + j] = w[e + j] PROVE s = t
  <2>1. \A j \in 1..Len(s) : s[j] = t[j]
    BY <1>1, <1>2, <1>3
  <2> QED
    BY <1>1, <1>2, <2>1, SameLetters
<1>4. ASSUME s = t, NEW j \in 1..m PROVE v[a + j] = w[e + j]
  BY <1>1, <1>2, <1>4
<1> QED
  BY <1>1, <1>2, <1>3, <1>4

LEMMA FactorPeriodicIs ==
  ASSUME needle \in Seq(Bytes), NEW f, NEW c \in Nat, NEW p \in Nat \ {0}, f.cut = c, f.period = p,
         c + p <= Len(needle)
  PROVE  IsFactorPeriodic(f) <=> FactorPeriodic(Letters(needle), Len(needle), c, p)
<1>1. PICK n \in Nat : n = Len(needle)
  <2>1. Len(needle) \in Nat
    OBVIOUS
  <2> QED
    BY <2>1
<1>2. IsFactorPeriodic(f) <=> SubSeq(needle, 1, c) = SubSeq(needle, p + 1, p + c)
  BY <1>1 DEF IsFactorPeriodic
<1>3. SubSeq(needle, 1, c) = SubSeq(needle, p + 1, p + c) <=> \A j \in 1..c : needle[j] = needle[p + j]
  <2>1. PICK z \in Nat : z = 0 /\ z + c <= Len(needle) /\ p + c <= Len(needle)
    BY <1>1
  <2>2. SubSeq(needle, z + 1, z + c) = SubSeq(needle, p + 1, p + c) <=> \A j \in 1..c : needle[z + j] = needle[p + j]
    BY <2>1, SlicesEqual
  <2> QED
    BY <2>1, <2>2
<1>4. ASSUME \A j \in 1..c : needle[j] = needle[p + j]
      PROVE  FactorPeriodic(Letters(needle), n, c, p)
  <2>1. ASSUME NEW x \in Nat, NEW y \in Nat, x = y + p, y < c
        PROVE  Letters(needle)[x] = Letters(needle)[y]
    <3>1. PICK j \in 1..c : j = y + 1 /\ p + j = x + 1
      BY <2>1
    <3>2. x < Len(needle) /\ y < Len(needle)
      BY <1>1, <2>1
    <3>3. Letters(needle)[x] = needle[x + 1] /\ Letters(needle)[y] = needle[y + 1]
      BY <3>2, LetterIs
    <3> QED
      BY <1>4, <3>1, <3>3
  <2> QED
    BY <1>1, <2>1 DEF FactorPeriodic
<1>5. ASSUME FactorPeriodic(Letters(needle), n, c, p), NEW j \in 1..c
      PROVE  needle[j] = needle[p + j]
  <2>1. PICK x \in Nat, y \in Nat : x = y + p /\ y = j - 1 /\ y < c /\ x + 1 = p + j /\ y + 1 = j
    OBVIOUS
  <2>2. x < Len(needle) /\ y < Len(needle)
    BY <1>1, <2>1
  <2>3. Letters(needle)[x] = needle[x + 1] /\ Letters(needle)[y] = needle[y + 1]
    BY <2>2, LetterIs
  <2>4. Letters(needle)[x] = Letters(needle)[y]
    BY <1>5, <2>1 DEF FactorPeriodic
  <2> QED
    BY <2>1, <2>3, <2>4
<1> QED
  BY <1>1, <1>2, <1>3, <1>4, <1>5

LEMMA MaxOfTwo ==
  ASSUME NEW x \in Nat, NEW y \in Nat
  PROVE  Max({x, y}) = IF x > y THEN x ELSE y
<1>1. PICK n \in Nat : n = x + y
  OBVIOUS
<1>2. {x, y} \subseteq 0..n /\ {x, y} # {}
  BY <1>1
<1>3. Max({x, y}) \in {x, y} /\ \A z \in {x, y} : Max({x, y}) >= z
  BY <1>2, MaxIs
<1> QED
  BY <1>3

\* The factors of both orders; that of the longer cut; and what the context it gives is.
BothMaximal(rev, c, p, cc, pp) ==
  /\ Maximal(Letters(needle), Len(needle), rev, c, p)
  /\ Maximal(Letters(needle), Len(needle), ~rev, cc, pp)
FactorIs(f, c, p) == f.cut = c /\ f.period = p
GivesCritical(f, c) ==
  /\ SearchContext(f).factor = f
  /\ Critical(Letters(needle), Len(needle), c, SearchContext(f).full_shift, SearchContext(f).saved_memory)

LEMMA ContextIs ==
  ASSUME needle \in Seq(Bytes), NEW f, NEW rev, NEW c, NEW p, NEW cc, NEW pp,
         FactorIs(f, c, p), BothMaximal(rev, c, p, cc, pp), cc <= c
  PROVE  GivesCritical(f, c)
<1>1. /\ Maximal(Letters(needle), Len(needle), rev, c, p)
      /\ Maximal(Letters(needle), Len(needle), ~rev, cc, pp)
      /\ f.cut = c /\ f.period = p
  BY DEF BothMaximal, FactorIs
<1>2. PICK b, n : b = Letters(needle) /\ n = Len(needle)
  OBVIOUS
<1>3. c \in Nat /\ p \in Nat \ {0} /\ n \in Nat /\ c + p <= n
  BY <1>1, <1>2 DEF Maximal, Word
<1>4. Critical(b, n, c, Shift(b, n, c, p), Memory(b, n, c, p))
  <2>1. Maximal(b, n, rev, c, p) /\ Maximal(b, n, ~rev, cc, pp) /\ cc <= c
    BY <1>1, <1>2
  <2> QED
    BY ONLY <2>1, FactorIsCritical
<1>5. IsFactorPeriodic(f) <=> FactorPeriodic(b, n, c, p)
  BY <1>1, <1>2, <1>3, FactorPeriodicIs
<1>6. NonperiodicShift(f) = IF c > (n - c) + 1 THEN c ELSE (n - c) + 1
  <2>1. PICK x \in Nat : x = (n - c) + 1
    BY <1>3
  <2>2. NonperiodicShift(f) = Max({c, x})
    BY <1>1, <1>2, <2>1 DEF NonperiodicShift
  <2> QED
    BY <1>3, <2>1, <2>2, MaxOfTwo
<1>7. /\ SearchContext(f).factor = f
      /\ SearchContext(f).full_shift = Shift(b, n, c, p)
      /\ SearchContext(f).saved_memory = Memory(b, n, c, p)
  <2>1. CASE IsFactorPeriodic(f)
    BY <1>1, <1>2, <1>5, <2>1 DEF SearchContext, Shift, Memory
  <2>2. CASE ~IsFactorPeriodic(f)
    BY <1>1, <1>2, <1>5, <1>6, <2>2 DEF SearchContext, Shift, Memory
  <2> QED
    BY <2>1, <2>2
<1> QED
  BY <1>2, <1>4, <1>7 DEF GivesCritical

-----------------------------------------------------------------------------
(* One iteration of the search.                                             *)

\* The needle and the haystack of a two-way search.
Texts ==
  /\ needle \in Seq(Bytes) /\ haystack \in Seq(Bytes) /\ mode \in Modes
  /\ Len(needle) > 1 /\ Len(haystack) >= Len(needle)

Fits(i, c, k) == FitsAt(Letters(needle), Letters(haystack), i, c, k)

LEMMA MatchesIs ==
  ASSUME Texts, NEW i \in Nat, i < Len(needle), state.idx \in 0..LastIdx,
         NEW x \in Nat, x = state.idx + i
  PROVE  Matches(i) <=> Letters(haystack)[x] = Letters(needle)[i]
<1>1. needle \in Seq(Bytes) /\ haystack \in Seq(Bytes)  BY DEF Texts
<1>2. Len(needle) \in Nat /\ Len(haystack) \in Nat  BY <1>1
<1>3. x < Len(haystack)
  <2>1. state.idx <= Len(haystack) - Len(needle) /\ state.idx \in Nat  BY <1>2 DEF LastIdx
  <2>. QED  BY <2>1, <1>2
<1>4. Letters(needle)[i] = needle[i + 1] /\ ByteAt(needle, i) = needle[i + 1]  BY <1>1, LetterIs
<1>5. Letters(haystack)[x] = haystack[x + 1] /\ ByteAt(haystack, x) = haystack[x + 1]
  BY <1>1, <1>3, LetterIs
<1>. QED  BY <1>4, <1>5 DEF Matches

LEMMA FitsIs ==
  ASSUME Texts, state.idx \in 0..LastIdx, NEW c \in Nat, NEW k \in Nat, k <= Len(needle)
  PROVE  (\A i \in c..(k - 1) : Matches(i)) <=> Fits(state.idx, c, k)
<1>1. Len(needle) \in Nat /\ state.idx \in Nat  BY DEF Texts
<1>2. ASSUME \A i \in c..(k - 1) : Matches(i)  PROVE Fits(state.idx, c, k)
  <2>1. SUFFICES ASSUME NEW x \in Nat, NEW y \in Nat, x = state.idx + y, c <= y, y < k
                 PROVE  Letters(haystack)[x] = Letters(needle)[y]
    BY DEF Fits, FitsAt
  <2>2. y < Len(needle) /\ y \in c..(k - 1)  BY <2>1, <1>1
  <2>. QED  BY <1>2, <2>1, <2>2, MatchesIs
<1>3. ASSUME Fits(state.idx, c, k), NEW i \in c..(k - 1)  PROVE Matches(i)
  <2>1. i \in Nat /\ i < Len(needle) /\ c <= i /\ i < k  BY <1>1
  <2>2. PICK x \in Nat : x = state.idx + i  BY <1>1, <2>1
  <2>3. Letters(haystack)[x] = Letters(needle)[i]  BY <1>3, <2>1, <2>2 DEF Fits, FitsAt
  <2>. QED  BY <2>1, <2>2, <2>3, MatchesIs
<1>. QED  BY <1>2, <1>3

LEMMA FitsJoin ==
  ASSUME NEW i, NEW c \in Nat, NEW k \in Nat, NEW g \in Nat, NEW e \in Nat,
         Fits(i, c, k), Fits(i, g, e), g <= k
  PROVE  Fits(i, c, e)
<1>1. SUFFICES ASSUME NEW x \in Nat, NEW y \in Nat, x = i + y, c <= y, y < e
               PROVE  Letters(haystack)[x] = Letters(needle)[y]
  BY DEF Fits, FitsAt
<1>2. y < k \/ g <= y  OBVIOUS
<1>. QED  BY <1>1, <1>2 DEF Fits, FitsAt

LEMMA FitsLess ==
  ASSUME NEW i, NEW c \in Nat, NEW k \in Nat, NEW g \in Nat, NEW e \in Nat,
         Fits(i, c, k), c <= g, e <= k
  PROVE  Fits(i, g, e)
<1>1. SUFFICES ASSUME NEW x \in Nat, NEW y \in Nat, x = i + y, g <= y, y < e
               PROVE  Letters(haystack)[x] = Letters(needle)[y]
  BY DEF Fits, FitsAt
<1>2. c <= y /\ y < k  BY <1>1
<1>. QED  BY <1>1, <1>2 DEF Fits, FitsAt

\* What the scan from the cut finds.
LEMMA ScanIs ==
  ASSUME Texts, state.idx \in 0..LastIdx, ContextSound, state.memory \in 0..(Len(needle) - 1),
         Fits(state.idx, 0, state.memory)
  PROVE  /\ ScanRight \in Nat /\ ScanRight <= Len(needle) /\ context.factor.cut <= ScanRight
         /\ Fits(state.idx, context.factor.cut, ScanRight)
         /\ ScanRight = Len(needle) \/ ~Matches(ScanRight)
<1>1. PICK n \in Nat : n = Len(needle)  BY DEF Texts
<1>2. PICK c \in Nat : c = context.factor.cut /\ c < n  BY <1>1 DEF ContextSound, Critical
<1>3. PICK m \in Nat : m = state.memory /\ m < n  BY <1>1
<1>4. PICK g \in Nat : g = Max({context.factor.cut, state.memory}) /\ c <= g /\ m <= g /\ (g = c \/ g = m) /\ g < n
  <2>1. Max({c, m}) = IF c > m THEN c ELSE m  BY MaxOfTwo
  <2>. QED  BY <2>1, <1>2, <1>3
<1>. DEFINE T == {i \in g..(n - 1) : ~Matches(i)} \cup {n}
<1>5. ScanRight = Min(T)  BY <1>1, <1>4 DEF ScanRight
<1>6. T \subseteq Nat /\ T # {}  BY <1>1, <1>4
<1>7. ScanRight \in T /\ \A y \in T : ScanRight <= y  BY <1>5, <1>6, MinIs
<1>8. PICK k \in Nat : k = ScanRight /\ k <= n /\ g <= k  BY <1>7, <1>6, <1>4, <1>1
<1>9. k = n \/ ~Matches(k)  BY <1>7, <1>8
<1>10. \A i \in g..(k - 1) : Matches(i)
  <2>1. SUFFICES ASSUME NEW i \in g..(k - 1), ~Matches(i)  PROVE FALSE  OBVIOUS
  <2>2. i \in g..(n - 1) /\ i < k  BY <1>8, <1>4
  <2>3. i \in T  BY <2>1, <2>2
  <2>. QED  BY <2>2, <2>3, <1>7, <1>8
<1>11. Fits(state.idx, g, k)  BY <1>1, <1>8, <1>4, <1>10, FitsIs
<1>12. Fits(state.idx, c, k)
  <2>1. CASE g = c  BY <2>1, <1>11
  <2>2. CASE g = m
    <3>1. Fits(state.idx, 0, g)  BY <2>2, <1>3
    <3>2. PICK z \in Nat : z = 0 /\ z <= c  OBVIOUS
    <3>3. Fits(state.idx, z, g)  BY <3>1, <3>2
    <3>4. Fits(state.idx, c, g)  BY <3>2, <3>3, <1>2, <1>4, FitsLess
    <3>. QED  BY <3>4, <1>11, <1>4, <1>8, FitsJoin
  <2>. QED  BY <2>1, <2>2, <1>4
<1>. QED  BY <1>1, <1>2, <1>4, <1>8, <1>9, <1>12

\* The answer that SearchExact names.
Answer ==
  IF Occurrences = {} THEN STR_NPOS ELSE IF mode = "FIRST" THEN Min(Occurrences) ELSE Max(Occurrences)

\* f is the answer so far, when every place before i has been looked at.
Best(f, i) ==
  \/ f = STR_NPOS /\ \A o \in Occurrences : o >= i
  \/ mode = "LAST" /\ f \in Occurrences /\ f < i /\ \A o \in Occurrences : o < i => o <= f

\* Nothing occurs behind i, before o.
NoneBetween(i, o) == \A q \in Occurrences : q > i => q >= o

LEMMA OccurrencesAre ==
  ASSUME Texts
  PROVE  /\ LastIdx \in Nat /\ Occurrences \subseteq 0..LastIdx
         /\ \A i \in 0..LastIdx : i \in Occurrences <=> Fits(i, 0, Len(needle))
<1>1. LastIdx \in Nat  BY DEF Texts, LastIdx
<1>2. ASSUME NEW i \in 0..LastIdx  PROVE i \in Occurrences <=> Fits(i, 0, Len(needle))
  <2>1. i \in Occurrences <=> OccursAt(i)  BY <1>2 DEF Occurrences
  <2>2. OccursAt(i) <=> OccursIn(Letters(needle), Len(needle), Letters(haystack), i)
    BY <1>2, OccursAtIs DEF Texts
  <2>3. OccursIn(Letters(needle), Len(needle), Letters(haystack), i) <=> Fits(i, 0, Len(needle))
    BY DEF OccursIn, Fits, FitsAt
  <2>. QED  BY <2>1, <2>2, <2>3
<1>. QED  BY <1>1, <1>2 DEF Occurrences

LEMMA BestAtEnd ==
  ASSUME Texts, NEW f, NEW i \in Nat, i > LastIdx, Best(f, i)
  PROVE  f = Answer
<1>1. LastIdx \in Nat /\ Occurrences \subseteq 0..LastIdx  BY OccurrencesAre
<1>2. \A o \in Occurrences : o \in Nat /\ o < i  BY <1>1
<1>3. CASE f = STR_NPOS /\ \A o \in Occurrences : o >= i
  <2>1. Occurrences = {}  BY <1>2, <1>3
  <2>. QED  BY <2>1, <1>3 DEF Answer
<1>4. CASE mode = "LAST" /\ f \in Occurrences /\ f < i /\ \A o \in Occurrences : o < i => o <= f
  <2>1. Max(Occurrences) \in Occurrences /\ \A y \in Occurrences : Max(Occurrences) >= y
    BY <1>1, <1>4, MaxIs
  <2>2. f = Max(Occurrences)  BY <2>1, <1>2, <1>4
  <2>. QED  BY <2>2, <1>4 DEF Answer
<1>. QED  BY <1>3, <1>4 DEF Best

\* The first place where the needle occurs is the answer of a search for it.
LEMMA FirstIsAnswer ==
  ASSUME Texts, mode = "FIRST", NEW i \in Occurrences, \A o \in Occurrences : o >= i
  PROVE  i = Answer
<1>1. LastIdx \in Nat /\ Occurrences \subseteq 0..LastIdx  BY OccurrencesAre
<1>2. Occurrences \subseteq Nat /\ Occurrences # {}  BY <1>1
<1>3. Min(Occurrences) \in Occurrences /\ \A y \in Occurrences : Min(Occurrences) <= y
  BY <1>2, MinIs
<1>4. PICK m \in Occurrences : m = Min(Occurrences) /\ m <= i  BY <1>3
<1>5. m >= i  OBVIOUS
<1>6. i \in Nat /\ m \in Nat  BY <1>2
<1>7. i = Min(Occurrences)  BY <1>4, <1>5, <1>6
<1>. QED  BY <1>7, <1>2 DEF Answer

LEMMA BestMoves ==
  ASSUME Texts, NEW f, NEW i \in Nat, NEW o \in Nat, i < o, Best(f, i + 1), NoneBetween(i, o)
  PROVE  Best(f, o)
<1>1. \A q \in Occurrences : q \in Nat  BY OccurrencesAre
<1>2. \A q \in Occurrences : q < i + 1 \/ q >= o  BY <1>1 DEF NoneBetween
<1>3. CASE f = STR_NPOS /\ \A q \in Occurrences : q >= i + 1
  <2>1. \A q \in Occurrences : q >= o  BY <1>1, <1>2, <1>3
  <2>. QED  BY <2>1, <1>3 DEF Best
<1>4. CASE mode = "LAST" /\ f \in Occurrences /\ f < i + 1 /\ \A q \in Occurrences : q < i + 1 => q <= f
  <2>1. f \in Nat /\ f < o  BY <1>1, <1>4
  <2>2. ASSUME NEW q \in Occurrences, q < o  PROVE q <= f
    <3>1. q < i + 1  BY <2>2, <1>1, <1>2
    <3>. QED  BY <3>1, <1>4
  <2>. QED  BY <2>1, <2>2, <1>4 DEF Best
<1>. QED  BY <1>3, <1>4 DEF Best

\* After the place i was looked at.
LEMMA BestAfter ==
  ASSUME Texts, NEW f, NEW i \in 0..LastIdx, Best(f, i)
  PROVE  /\ i \notin Occurrences => Best(f, i + 1)
         /\ i \in Occurrences /\ mode = "LAST" => Best(i, i + 1)
         /\ i \in Occurrences /\ mode = "FIRST" => i = Answer
<1>1. LastIdx \in Nat /\ \A q \in Occurrences : q \in Nat  BY OccurrencesAre
<1>2. i \in Nat  BY <1>1
<1>3. ASSUME i \notin Occurrences  PROVE Best(f, i + 1)
  <2>1. \A q \in Occurrences : q # i  BY <1>3
  <2>2. CASE f = STR_NPOS /\ \A q \in Occurrences : q >= i
    <3>1. \A q \in Occurrences : q >= i + 1  BY <2>1, <2>2, <1>1, <1>2
    <3>. QED  BY <3>1, <2>2 DEF Best
  <2>3. CASE mode = "LAST" /\ f \in Occurrences /\ f < i /\ \A q \in Occurrences : q < i => q <= f
    <3>1. f < i + 1  BY <2>3, <1>1, <1>2
    <3>2. \A q \in Occurrences : q < i + 1 => q <= f  BY <2>1, <2>3, <1>1, <1>2
    <3>. QED  BY <3>1, <3>2, <2>3 DEF Best
  <2>. QED  BY <2>2, <2>3 DEF Best
<1>4. ASSUME i \in Occurrences, mode = "LAST"  PROVE Best(i, i + 1)
  <2>1. i < i + 1 /\ \A q \in Occurrences : q < i + 1 => q <= i  BY <1>1, <1>2
  <2>. QED  BY <2>1, <1>4 DEF Best
<1>5. ASSUME i \in Occurrences, mode = "FIRST"  PROVE i = Answer
  <2>1. \A q \in Occurrences : q >= i  BY <1>5 DEF Best
  <2>. QED  BY <2>1, <1>5, FirstIsAnswer
<1>. QED  BY <1>3, <1>4, <1>5

\* SkipSafe for the texts of the model.
LEMMA NoneSkipped ==
  ASSUME Texts, ContextSound, NEW i \in 0..LastIdx, NEW k \in Nat, NEW c, c = context.factor.cut,
         c <= k, k <= Len(needle), Fits(i, c, k),
         NEW z \in Nat, z = i + k, k = Len(needle) \/ Letters(haystack)[z] # Letters(needle)[k]
  PROVE  /\ k # Len(needle) => NoneBetween(i, (i + (k - c)) + 1)
         /\ k = Len(needle) => NoneBetween(i, i + context.full_shift)
<1>1. LastIdx \in Nat /\ Occurrences \subseteq 0..LastIdx  BY OccurrencesAre
<1>2. i \in Nat /\ \A q \in Occurrences : q \in Nat  BY <1>1
<1>3. PICK n, s, mem : n = Len(needle) /\ s = context.full_shift /\ mem = context.saved_memory
  OBVIOUS
<1>4. Critical(Letters(needle), n, c, s, mem)  BY <1>3 DEF ContextSound
<1>5. n \in Nat /\ c \in Nat /\ s \in Nat  BY <1>4 DEF Critical
<1>6. FitsAt(Letters(needle), Letters(haystack), i, c, k)  BY <1>3 DEF Fits
<1>7. ASSUME NEW o \in Occurrences, o > i, NEW q \in Nat \ {0}, o = i + q, k = n \/ c + q <= k
      PROVE  k = n /\ q >= s
  <2>1. OccursIn(Letters(needle), n, Letters(haystack), o)
    <3>1. o \in 0..LastIdx /\ OccursAt(o)  BY DEF Occurrences
    <3>. QED  BY <3>1, <1>3, OccursAtIs DEF Texts
  <2>2. c <= k /\ k <= n /\ (k = n \/ Letters(haystack)[z] # Letters(needle)[k])  BY <1>3
  <2>3. o \in Nat  BY <1>2
  <2>. QED  BY ONLY <2>1, <2>2, <2>3, <1>2, <1>4, <1>6, <1>7, z \in Nat, k \in Nat, z = i + k, SkipSafe
<1>8. ASSUME k # n  PROVE NoneBetween(i, (i + (k - c)) + 1)
  <2>1. SUFFICES ASSUME NEW o \in Occurrences, o > i, o < (i + (k - c)) + 1  PROVE FALSE
    BY <1>2, <1>5 DEF NoneBetween
  <2>2. PICK q \in Nat \ {0} : o = i + q  BY <1>2, <2>1
  <2>3. c + q <= k  BY <2>1, <2>2, <1>2, <1>5
  <2>. QED  BY <2>1, <2>2, <2>3, <1>7, <1>8
<1>9. ASSUME k = n  PROVE NoneBetween(i, i + s)
  <2>1. SUFFICES ASSUME NEW o \in Occurrences, o > i  PROVE o >= i + s
    BY DEF NoneBetween
  <2>2. PICK q \in Nat \ {0} : o = i + q  BY <1>2, <2>1
  <2>3. q >= s  BY <2>1, <2>2, <1>7, <1>9
  <2>. QED  BY <2>2, <2>3, <1>2, <1>5
<1>. QED  BY <1>3, <1>8, <1>9

\* What holds at the head of the loop.
Searching ==
  /\ Texts /\ ContextSound
  /\ state.idx \in 0..LastIdx /\ state.memory \in 0..(Len(needle) - 1)
  /\ steps \in Nat /\ steps <= state.idx
  /\ Fits(state.idx, 0, state.memory)
  /\ found \in Nat \cup {STR_NPOS} /\ Best(found, state.idx)

\* The loop goes on, or ends with the answer.
Searched ==
  /\ found \in Nat \cup {STR_NPOS}
  /\ \/ phase = "search" /\ Searching
     \/ phase = "done" /\ found = Answer

Unmoved == UNCHANGED <<needle, haystack, mode, walk, forward, context>>

LEMMA UnmovedKeeps ==
  ASSUME Unmoved
  PROVE  /\ Texts <=> Texts'
         /\ ContextSound <=> ContextSound'
         /\ LastIdx' = LastIdx /\ Answer' = Answer
         /\ \A i, c, k : Fits(i, c, k)' <=> Fits(i, c, k)
         /\ \A f, i : Best(f, i)' <=> Best(f, i)
<1>1. needle' = needle /\ haystack' = haystack /\ mode' = mode /\ context' = context  BY DEF Unmoved
<1>2. LastIdx' = LastIdx  BY <1>1 DEF LastIdx
<1>3. \A i : OccursAt(i)' <=> OccursAt(i)  BY <1>1 DEF OccursAt
<1>4. Occurrences' = Occurrences  BY <1>2, <1>3 DEF Occurrences
<1>. QED
  <2>1. Texts <=> Texts'  BY <1>1 DEF Texts
  <2>2. ContextSound <=> ContextSound'  BY <1>1 DEF ContextSound
  <2>3. Answer' = Answer  BY <1>1, <1>4 DEF Answer
  <2>4. \A i, c, k : Fits(i, c, k)' <=> Fits(i, c, k)  BY <1>1 DEF Fits
  <2>5. \A f, i : Best(f, i)' <=> Best(f, i)  BY <1>1, <1>4 DEF Best
  <2>. QED  BY <1>2, <2>1, <2>2, <2>3, <2>4, <2>5

\* Moving on by a shift that passes over nothing.
LEMMA MoveOn ==
  ASSUME Searching, NEW shift \in Nat \ {0}, NEW mem \in 0..(Len(needle) - 1),
         NEW f \in Nat \cup {STR_NPOS}, Best(f, state.idx + 1),
         NoneBetween(state.idx, state.idx + shift), Fits(state.idx + shift, 0, mem),
         Advance(shift, mem), found' = f, steps' = steps + 1, Unmoved
  PROVE  Searched'
<1>1. LastIdx \in Nat /\ state.idx \in Nat /\ state.idx <= LastIdx /\ steps \in Nat /\ steps <= state.idx
  BY OccurrencesAre DEF Searching
<1>2. PICK o \in Nat : o = state.idx + shift /\ state.idx < o  BY <1>1
<1>3. Best(f, o) /\ Fits(o, 0, mem)  BY <1>1, <1>2, BestMoves DEF Searching
<1>4. CASE shift > LastIdx - state.idx
  <2>1. phase' = "done"  BY <1>4 DEF Advance
  <2>2. o > LastIdx  BY <1>1, <1>2, <1>4
  <2>3. f = Answer  BY <2>2, <1>2, <1>3, BestAtEnd DEF Searching
  <2>4. found' = Answer'  BY <2>3, UnmovedKeeps
  <2>. QED  BY <2>1, <2>4 DEF Searched
<1>5. CASE ~(shift > LastIdx - state.idx)
  <2>1. steps < LastIdx /\ o <= LastIdx /\ steps + 1 <= o  BY <1>1, <1>2, <1>5
  <2>2. phase' = "search" /\ state' = [idx |-> o, memory |-> mem]  BY <2>1, <1>2, <1>5 DEF Advance
  <2>3. state'.idx = o /\ state'.memory = mem  BY <2>2
  <2>4. Texts' /\ ContextSound' /\ LastIdx' = LastIdx
    BY UnmovedKeeps DEF Searching
  <2>5. Fits(o, 0, mem)' /\ Best(f, o)'  BY <1>3, UnmovedKeeps
  <2>6. Fits(state.idx, 0, state.memory)' /\ Best(found, state.idx)'  BY <2>3, <2>5 DEF Fits, Best
  <2>7. state'.idx \in 0..LastIdx' /\ state'.memory \in 0..(Len(needle') - 1)
    BY <2>1, <2>3, <2>4, <1>1, <1>2 DEF Unmoved
  <2>8. steps' \in Nat /\ steps' <= state'.idx  BY <2>1, <2>3, <1>1
  <2>9. Searching'  BY <2>4, <2>6, <2>7, <2>8 DEF Searching
  <2>. QED  BY <2>2, <2>9 DEF Searched
<1>. QED  BY <1>4, <1>5

\* A mismatch behind the cut: nothing occurs here, nor before the byte that does not match.
LEMMA MismatchSearched ==
  ASSUME Searching, SearchOnMismatch, steps' = steps + 1, Unmoved
  PROVE  Searched'
<1>1. PICK n \in Nat : n = Len(needle) /\ n > 0  BY DEF Searching, Texts
<1>2. PICK c \in Nat : c = context.factor.cut /\ c < n  BY <1>1 DEF Searching, ContextSound, Critical
<1>3. PICK k \in Nat : k = ScanRight /\ k < n
  BY <1>1, ScanIs DEF Searching, SearchOnMismatch
<1>4. c <= k /\ Fits(state.idx, c, k) /\ ~Matches(k)
  BY <1>1, <1>2, <1>3, ScanIs DEF Searching
<1>5. PICK i \in Nat : i = state.idx /\ i \in 0..LastIdx /\ Texts  BY OccurrencesAre DEF Searching
<1>6. PICK z \in Nat : z = i + k  BY <1>5
<1>7. Letters(haystack)[z] # Letters(needle)[k]  BY <1>1, <1>3, <1>4, <1>5, <1>6, MatchesIs
<1>8. NoneBetween(i, (i + (k - c)) + 1)
  <2>1. ContextSound /\ Texts /\ c <= k /\ k <= Len(needle) /\ Fits(i, c, k) /\ k # Len(needle)
    BY <1>1, <1>3, <1>4, <1>5 DEF Searching
  <2>. QED  BY ONLY <2>1, <1>2, <1>5, <1>6, <1>7, k \in Nat, NoneSkipped
<1>9. i \notin Occurrences
  <2>1. SUFFICES ASSUME Fits(i, 0, n)  PROVE FALSE  BY <1>5, <1>1, OccurrencesAre
  <2>2. Letters(haystack)[z] = Letters(needle)[k]  BY <2>1, <1>3, <1>6 DEF Fits, FitsAt
  <2>. QED  BY <2>2, <1>7
<1>10. Best(found, i + 1)  BY <1>5, <1>9, BestAfter DEF Searching
<1>11. PICK shift \in Nat \ {0} : shift = k - c + 1  BY <1>4
<1>12. NoneBetween(i, i + shift)
  <2>1. i + shift = (i + (k - c)) + 1  BY <1>11, <1>2, <1>3, <1>5
  <2>. QED  BY <2>1, <1>8
<1>13. Fits(i + shift, 0, 0)  BY DEF Fits, FitsAt
<1>14. Advance(shift, 0) /\ found' = found
  BY <1>2, <1>3, <1>11 DEF SearchOnMismatch
<1>15. 0 \in 0..(Len(needle) - 1) /\ found \in Nat \cup {STR_NPOS}  BY <1>1 DEF Searching
<1>. QED  BY <1>5, <1>10, <1>11, <1>12, <1>13, <1>14, <1>15, MoveOn

\* A match up to the end, and the bytes in front of the cut looked at as well.
LEMMA MatchSearched ==
  ASSUME Searching, SearchAfterRightMatch, steps' = steps + 1, Unmoved
  PROVE  Searched'
<1>1. PICK n \in Nat : n = Len(needle) /\ n > 0  BY DEF Searching, Texts
<1>2. PICK c \in Nat : c = context.factor.cut /\ c < n  BY <1>1 DEF Searching, ContextSound, Critical
<1>3. ScanRight = n /\ Fits(state.idx, c, n)
  BY <1>1, <1>2, ScanIs DEF Searching, SearchAfterRightMatch
<1>4. PICK i \in Nat : i = state.idx /\ i \in 0..LastIdx /\ Texts  BY OccurrencesAre DEF Searching
<1>5. PICK s \in Nat \ {0}, mem \in Nat : s = context.full_shift /\ mem = context.saved_memory /\ mem < n
  BY <1>1 DEF Searching, ContextSound, Critical
<1>6. Critical(Letters(needle), n, c, s, mem)  BY <1>1, <1>2, <1>5 DEF Searching, ContextSound
<1>7. NoneBetween(i, i + s)
  <2>1. PICK z \in Nat : z = i + n  BY <1>4
  <2>2. ContextSound /\ Texts /\ c <= n /\ n <= Len(needle) /\ Fits(i, c, n) /\ n = Len(needle)
    BY <1>1, <1>2, <1>3, <1>4 DEF Searching
  <2>3. i \in 0..LastIdx /\ c = context.factor.cut  BY <1>2, <1>4
  <2>4. n = Len(needle) => NoneBetween(i, i + context.full_shift)
    BY ONLY <2>1, <2>2, <2>3, n \in Nat, NoneSkipped
  <2>. QED  BY <2>2, <2>4, <1>5
<1>8. PICK m \in Nat : m = state.memory /\ m < n  BY <1>1 DEF Searching
<1>9. HasCandidateLeftMatch <=> i \in Occurrences
  <2>1. HasCandidateLeftMatch <=> Fits(i, m, c)
    <3>1. HasCandidateLeftMatch <=> \A q \in m..(c - 1) : Matches(q)
      BY <1>2, <1>8 DEF HasCandidateLeftMatch
    <3>2. c <= Len(needle) /\ state.idx \in 0..LastIdx /\ Texts  BY <1>1, <1>2, <1>4
    <3>3. (\A q \in m..(c - 1) : Matches(q)) <=> Fits(state.idx, m, c)
      BY ONLY <3>2, c \in Nat, m \in Nat, FitsIs
    <3>. QED  BY <3>1, <3>3, <1>4
  <2>2. PICK l \in Nat : l = 0 /\ l <= m  BY <1>8
  <2>3. Fits(i, l, m)  BY <2>2, <1>4, <1>8 DEF Searching
  <2>4. i \in Occurrences <=> Fits(i, l, n)  BY <2>2, <1>1, <1>4, OccurrencesAre
  <2>5. ASSUME Fits(i, m, c)  PROVE Fits(i, l, n)
    <3>1. Fits(i, l, c)  BY <2>3, <2>5, <1>2, <1>8, FitsJoin
    <3>. QED  BY <3>1, <1>1, <1>2, <1>3, <1>4, FitsJoin
  <2>6. ASSUME Fits(i, l, n)  PROVE Fits(i, m, c)
    BY <2>2, <2>6, <1>1, <1>2, <1>8, FitsLess
  <2>. QED  BY <2>1, <2>4, <2>5, <2>6
<1>10. Fits(i + s, 0, mem)
  <2>1. PICK o \in Nat : o = i + s  BY <1>4, <1>5
  <2>2. FitsAt(Letters(needle), Letters(haystack), i, c, n)  BY <1>3, <1>4 DEF Fits
  <2>3. FitsAt(Letters(needle), Letters(haystack), o, 0, mem)
    BY ONLY <2>1, <2>2, <1>4, <1>6, i \in Nat, MemoryFits
  <2>. QED  BY <2>1, <2>3 DEF Fits
<1>11. mem \in 0..(Len(needle) - 1)  BY <1>1, <1>5
<1>12. found \in Nat \cup {STR_NPOS} /\ Best(found, i)  BY <1>4 DEF Searching
<1>13. CASE HasCandidateLeftMatch /\ mode = "FIRST"
  <2>1. phase' = "done" /\ found' = i  BY <1>13, <1>4 DEF SearchAfterRightMatch
  <2>2. i = Answer  BY <1>13, <1>9, <1>12, <1>4, BestAfter
  <2>3. found' = Answer'  BY <2>1, <2>2, UnmovedKeeps
  <2>. QED  BY <2>1, <2>3 DEF Searched
<1>14. CASE HasCandidateLeftMatch /\ mode # "FIRST"
  <2>1. Advance(s, mem) /\ found' = i  BY <1>14, <1>4, <1>5 DEF SearchAfterRightMatch
  <2>2. mode = "LAST"  BY <1>14, <1>4 DEF Texts, Modes
  <2>3. Best(i, i + 1)  BY <1>14, <2>2, <1>9, <1>12, <1>4, BestAfter
  <2>4. i \in Nat \cup {STR_NPOS}  OBVIOUS
  <2>. QED  BY <2>1, <2>3, <2>4, <1>4, <1>5, <1>7, <1>10, <1>11, MoveOn
<1>15. CASE ~HasCandidateLeftMatch
  <2>1. Advance(s, mem) /\ found' = found  BY <1>15, <1>5 DEF SearchAfterRightMatch
  <2>2. Best(found, i + 1)  BY <1>15, <1>9, <1>12, <1>4, BestAfter
  <2>. QED  BY <2>1, <2>2, <1>4, <1>5, <1>7, <1>10, <1>11, <1>12, MoveOn
<1>. QED  BY <1>13, <1>14, <1>15

-----------------------------------------------------------------------------
(* The other steps.                                                         *)

LEMMA ViewsAre ==
  ASSUME NEW n \in Nat, NEW v \in Views(n)
  PROVE  v \in Seq(Bytes) /\ Len(v) \in Nat /\ Len(v) <= n
<1>1. PICK k \in 0..n : v \in [1..k -> Bytes]  BY DEF Views
<1>2. v \in Seq(Bytes) /\ Len(v) = k  BY <1>1
<1>. QED  BY <1>2

\* A haystack is no longer than a size_t counts.
LEMMA HaystackFits ==
  ASSUME NEW h \in Views(MaxHaystack)
  PROVE  h \in Seq(Bytes) /\ Len(h) \in Nat /\ Len(h) <= SizeMax
<1>1. MaxHaystack \in Nat /\ SizeMax \in Nat /\ MaxHaystack <= SizeMax  BY StrSearchAssumption
<1>2. h \in Seq(Bytes) /\ Len(h) \in Nat /\ Len(h) <= MaxHaystack  BY <1>1, ViewsAre
<1>. QED  BY <1>1, <1>2

\* A walk under way: it knows what it has seen, and every iteration was worth a step.
Walking(isReverse) ==
  /\ needle \in Seq(Bytes) /\ Len(needle) > 1 /\ IsWalk(walk)
  /\ WalkKnows(Letters(needle), Len(needle), isReverse, walk)
  /\ steps \in Nat /\ steps < walk.cut + walk.candidate + walk.offset

LEMMA WalkBegins ==
  ASSUME NEW rev \in BOOLEAN, needle \in Seq(Bytes), Len(needle) > 1, walk = NewWalk, steps = 0
  PROVE  Walking(rev)
<1>1. Word(Letters(needle), Len(needle))  BY LettersWord
<1>2. WalkKnows(Letters(needle), Len(needle), rev, walk)  BY <1>1, NewWalkKnows
<1>3. IsWalk(walk)  BY DEF IsWalk, NewWalk
<1>4. steps \in Nat /\ steps < walk.cut + walk.candidate + walk.offset  BY DEF NewWalk
<1>. QED  BY <1>2, <1>3, <1>4 DEF Walking

\* The passes are enough, and what the walk ends with is the maximal suffix.
LEMMA WalkOver ==
  ASSUME NEW rev \in BOOLEAN, Walking(rev),
         WalkIsComplete \/ steps = STR_SUFFIX_WALK_PASSES * Len(needle)
  PROVE  WalkIsComplete /\ Maximal(Letters(needle), Len(needle), rev, walk.cut, walk.period)
<1>1. PICK n \in Nat \ {0} : n = Len(needle)  BY DEF Walking
<1>2. PICK c, j, k, p : c = walk.cut /\ j = walk.candidate /\ k = walk.offset /\ p = walk.period
  OBVIOUS
<1>3. Knows(Letters(needle), n, rev, c, j, k, p)  BY <1>1, <1>2 DEF Walking, WalkKnows
<1>4. c \in Nat /\ j \in Nat /\ k \in Nat /\ c <= j /\ j < n  BY <1>3 DEF Knows
<1>5. steps = 2 * n => k >= n - j
  <2>1. steps \in Nat /\ steps < c + j + k  BY <1>2 DEF Walking
  <2>. QED  BY <2>1, <1>1, <1>4
<1>6. WalkIsComplete  BY <1>1, <1>2, <1>5 DEF WalkIsComplete, STR_SUFFIX_WALK_PASSES
<1>7. j + k >= n  BY <1>1, <1>2, <1>4, <1>6 DEF WalkIsComplete
<1>8. Word(Letters(needle), n)  BY <1>1, LettersWord DEF Walking
<1>9. Maximal(Letters(needle), n, rev, c, p)  BY <1>3, <1>7, <1>8, KnowsMaximal
<1>. QED  BY <1>1, <1>2, <1>6, <1>9

LEMMA WalkGoesOn ==
  ASSUME NEW rev \in BOOLEAN, Walking(rev), ~WalkIsComplete, walk' = Walked(walk, rev),
         steps' = steps + 1, needle' = needle
  PROVE  Walking(rev)'
<1>1. Len(needle) \in Nat /\ Len(needle) > 1 /\ needle \in Seq(Bytes) /\ IsWalk(walk) /\ steps \in Nat
  BY DEF Walking
<1>2. /\ IsWalk(Walked(walk, rev))
      /\ WalkKnows(Letters(needle), Len(needle), rev, Walked(walk, rev))
      /\ Walked(walk, rev).cut + Walked(walk, rev).candidate + Walked(walk, rev).offset
           > walk.cut + walk.candidate + walk.offset
  <2>1. ~(walk.offset >= Len(needle) - walk.candidate)  BY DEF WalkIsComplete
  <2>2. WalkKnows(Letters(needle), Len(needle), rev, walk)  BY DEF Walking
  <2>3. Len(needle) > 0  BY <1>1
  <2>. QED  BY <2>1, <2>2, <2>3, <1>1, WalkedKnows
<1>3. IsWalk(walk') /\ WalkKnows(Letters(needle'), Len(needle'), rev, walk')  BY <1>2
<1>4. steps' \in Nat /\ steps' < walk'.cut + walk'.candidate + walk'.offset
  <2>1. walk.cut \in Nat /\ walk.candidate \in Nat /\ walk.offset \in Nat  BY <1>1 DEF IsWalk
  <2>2. walk'.cut \in Nat /\ walk'.candidate \in Nat /\ walk'.offset \in Nat  BY <1>3 DEF IsWalk
  <2>3. walk'.cut + walk'.candidate + walk'.offset > walk.cut + walk.candidate + walk.offset
    BY <1>2
  <2>4. steps < walk.cut + walk.candidate + walk.offset  BY DEF Walking
  <2>. QED  BY <2>1, <2>2, <2>3, <2>4, <1>1
<1>5. (needle \in Seq(Bytes) /\ Len(needle) > 1 /\ IsWalk(walk))'  BY <1>1, <1>3
<1>6. WalkKnows(Letters(needle), Len(needle), rev, walk)'  BY <1>3
<1>. QED  BY <1>4, <1>5, <1>6 DEF Walking

\* The places of a needle that is empty, too long or one byte.
LEMMA ShortIs ==
  ASSUME NEW v \in Seq(Bytes), NEW h \in Seq(Bytes), NEW T,
         T = {i \in 0..(Len(h) - Len(v)) : SubSeq(h, i + 1, i + Len(v)) = v}
  PROVE  /\ Len(v) = 0 => T = 0..Len(h)
         /\ Len(h) < Len(v) => T = {}
         /\ Len(v) = 1 => T = {i \in 0..(Len(h) - 1) : ByteAt(h, i) = ByteAt(v, 0)}
<1>1. Len(v) \in Nat /\ Len(h) \in Nat  OBVIOUS
<1>2. ASSUME Len(v) = 0  PROVE T = 0..Len(h)
  <2>1. ASSUME NEW i \in 0..Len(h)  PROVE SubSeq(h, i + 1, i + Len(v)) = v
    <3>1. SubSeq(h, i + 1, i + 0) \in Seq(Bytes) /\ Len(SubSeq(h, i + 1, i + 0)) = 0
      BY <1>1, <2>1, SliceIs DEF SliceOf
    <3>. QED  BY <3>1, <1>2, SameLetters
  <2>. QED  BY <2>1, <1>1, <1>2
<1>3. Len(h) < Len(v) => T = {}  BY <1>1
<1>4. ASSUME Len(v) = 1  PROVE T = {i \in 0..(Len(h) - 1) : ByteAt(h, i) = ByteAt(v, 0)}
  <2>1. ASSUME NEW i \in 0..(Len(h) - 1)
        PROVE  SubSeq(h, i + 1, i + Len(v)) = v <=> ByteAt(h, i) = ByteAt(v, 0)
    <3>1. PICK s : s = SubSeq(h, i + 1, i + 1)  OBVIOUS
    <3>2. SliceOf(s, h, i, 1)
      <4>1. i \in Nat /\ i + 1 <= Len(h) /\ 1 \in Nat  BY <1>1, <2>1
      <4>2. PICK m \in Nat : m = 1 /\ i + m <= Len(h)  BY <4>1
      <4>3. SliceOf(SubSeq(h, i + 1, i + m), h, i, m)  BY <4>1, <4>2, SliceIs
      <4>. QED  BY <4>2, <4>3, <3>1
    <3>3. s \in Seq(Bytes) /\ Len(s) = 1 /\ s[1] = h[i + 1]  BY <3>2 DEF SliceOf
    <3>4. s[1] = v[1] => s = v
      <4>1. \A j \in 1..Len(s) : j = 1
        <5>1. \A j \in 1..1 : j = 1  OBVIOUS
        <5>. QED  BY <5>1, <3>3
      <4>2. s[1] = v[1] => \A j \in 1..Len(s) : s[j] = v[j]  BY <4>1
      <4>. QED  BY <4>2, <3>3, <1>4, SameLetters
    <3>. QED  BY <3>1, <3>3, <3>4, <1>4 DEF ByteAt
  <2>. QED  BY <2>1, <1>4
<1>. QED  BY <1>2, <1>3, <1>4

LEMMA RangeEnds ==
  ASSUME NEW n \in Nat
  PROVE  Min(0..n) = 0 /\ Max(0..n) = n
<1>1. 0..n \subseteq Nat /\ 0..n # {}  OBVIOUS
<1>2. Min(0..n) \in 0..n /\ \A y \in 0..n : Min(0..n) <= y  BY <1>1, MinIs
<1>3. Max(0..n) \in 0..n /\ \A y \in 0..n : Max(0..n) >= y  BY <1>1, MaxIs
<1>4. 0 \in 0..n /\ n \in 0..n  OBVIOUS
<1>5. PICK l \in 0..n, r \in 0..n : l = Min(0..n) /\ r = Max(0..n)  BY <1>2, <1>3
<1>6. l <= 0 /\ r >= n  BY <1>2, <1>3, <1>4, <1>5
<1>. QED  BY <1>5, <1>6

LEMMA ShortAnswered ==
  ASSUME needle \in Seq(Bytes), NEW h \in Seq(Bytes), NEW m \in Modes, AnswerShort(h, m)
  PROVE  found' = Answer' /\ found' \in Nat \cup {STR_NPOS}
<1>1. needle' = needle /\ haystack' = h /\ mode' = m  BY DEF AnswerShort
<1>2. PICK T : T = {i \in 0..(Len(h) - Len(needle)) : SubSeq(h, i + 1, i + Len(needle)) = needle}
  OBVIOUS
<1>3. Occurrences' = T  BY <1>1, <1>2 DEF Occurrences, OccursAt, LastIdx
<1>4. Answer' = IF T = {} THEN STR_NPOS ELSE IF m = "FIRST" THEN Min(T) ELSE Max(T)
  BY <1>1, <1>3 DEF Answer
<1>5. Len(needle) \in Nat /\ Len(h) \in Nat  OBVIOUS
<1>6. /\ Len(needle) = 0 => T = 0..Len(h)
      /\ Len(h) < Len(needle) => T = {}
      /\ Len(needle) = 1 => T = {i \in 0..(Len(h) - 1) : ByteAt(h, i) = ByteAt(needle, 0)}
  BY <1>2, ShortIs
<1>7. CASE Len(needle) = 0
  <2>1. found' = IF m = "FIRST" THEN 0 ELSE Len(h)  BY <1>7 DEF AnswerShort
  <2>2. T # {} /\ Min(T) = 0 /\ Max(T) = Len(h)  BY <1>5, <1>6, <1>7, RangeEnds
  <2>. QED  BY <2>1, <2>2, <1>4, <1>5
<1>8. CASE Len(needle) > 0 /\ Len(h) < Len(needle)
  <2>1. found' = STR_NPOS  BY <1>8, <1>5 DEF AnswerShort
  <2>. QED  BY <2>1, <1>4, <1>6, <1>8
<1>9. CASE Len(needle) > 0 /\ ~(Len(h) < Len(needle))
  <2>1. Len(needle) = 1
    <3>1. Len(needle) <= 1 \/ Len(h) < Len(needle)  BY DEF AnswerShort
    <3>2. PICK a \in Nat, e \in Nat : a = Len(needle) /\ e = Len(h)  BY <1>5
    <3>3. (a <= 1 \/ e < a) /\ a > 0 /\ ~(e < a)  BY <3>1, <3>2, <1>9
    <3>. QED  BY <3>2, <3>3
  <2>2. found' = SearchViewByte(h, m)  BY <1>9, <2>1, <1>5 DEF AnswerShort
  <2>3. found' = IF T = {} THEN STR_NPOS ELSE IF m = "FIRST" THEN Min(T) ELSE Max(T)
    BY <2>1, <2>2, <1>6 DEF SearchViewByte
  <2>4. T \subseteq 0..Len(h) /\ T \subseteq Nat  BY <1>2, <1>5
  <2>5. T # {} => Min(T) \in Nat /\ Max(T) \in Nat  BY <2>4, <1>5, MinIs, MaxIs
  <2>. QED  BY <2>3, <2>5, <1>4
<1>. QED  BY <1>5, <1>7, <1>8, <1>9

LEMMA ContextBuilt ==
  ASSUME Walking(TRUE), Maximal(Letters(needle), Len(needle), TRUE, walk.cut, walk.period),
         Maximal(Letters(needle), Len(needle), FALSE, forward.cut, forward.period),
         needle' = needle, context' = SearchContext(CriticalFactor(forward, FactorOf(walk)))
  PROVE  ContextSound'
<1>1. PICK r, f : r = FactorOf(walk) /\ f = forward  OBVIOUS
<1>2. r.cut = walk.cut /\ r.period = walk.period  BY <1>1 DEF FactorOf
<1>3. needle \in Seq(Bytes)  BY DEF Walking
<1>4. BothMaximal(TRUE, r.cut, r.period, f.cut, f.period) /\ BothMaximal(FALSE, f.cut, f.period, r.cut, r.period)
  <2>1. FALSE = (~TRUE) /\ TRUE = (~FALSE)  OBVIOUS
  <2>. QED  BY <2>1, <1>1, <1>2 DEF BothMaximal
<1>5. r.cut \in Nat /\ f.cut \in Nat  BY <1>4 DEF BothMaximal, Maximal
<1>6. ASSUME NEW g, NEW c, g.cut = c, GivesCritical(g, c), context' = SearchContext(g)
      PROVE  ContextSound'
  <2>1. /\ context'.factor.cut = c
        /\ Critical(Letters(needle'), Len(needle'), c, context'.full_shift, context'.saved_memory)
    BY <1>6 DEF GivesCritical
  <2>. QED  BY <2>1 DEF ContextSound
<1>7. CASE r.cut > f.cut
  <2>1. context' = SearchContext(r) /\ f.cut <= r.cut  BY <1>1, <1>5, <1>7 DEF CriticalFactor
  <2>2. FactorIs(r, r.cut, r.period)  BY DEF FactorIs
  <2>3. GivesCritical(r, r.cut)  BY ONLY <2>1, <2>2, <1>3, <1>4, ContextIs
  <2>. QED  BY <2>1, <2>3, <1>6
<1>8. CASE ~(r.cut > f.cut)
  <2>1. context' = SearchContext(f) /\ r.cut <= f.cut  BY <1>1, <1>5, <1>8 DEF CriticalFactor
  <2>2. FactorIs(f, f.cut, f.period)  BY DEF FactorIs
  <2>3. GivesCritical(f, f.cut)  BY ONLY <2>1, <2>2, <1>3, <1>4, ContextIs
  <2>. QED  BY <2>1, <2>3, <1>6
<1>. QED  BY <1>7, <1>8
-----------------------------------------------------------------------------
(* The inductive invariant.                                                 *)

SearchInv ==
  /\ needle \in Seq(Bytes) /\ haystack \in Seq(Bytes) /\ mode \in Modes
  /\ phase \in {"start", "forward", "reverse", "search", "done", "refused"}
  /\ Len(haystack) <= SizeMax
  /\ IsWalk(walk) /\ found \in Nat \cup {STR_NPOS}
  /\ phase = "start" => walk = NewWalk /\ steps = 0
  /\ phase # "search" /\ phase # "done" => found = STR_NPOS
  /\ phase = "forward" => Walking(FALSE)
  /\ phase = "reverse" => /\ Walking(TRUE)
                          /\ Maximal(Letters(needle), Len(needle), FALSE, forward.cut, forward.period)
  /\ phase = "search" => Searching
  /\ phase = "done" => found = Answer /\ ~IsSentinel(haystack, mode)
  /\ phase = "refused" => IsSentinel(haystack, mode)

LEMMA InitSearchInv == Init => SearchInv
<1>1. ASSUME Init  PROVE SearchInv
  <2>1. needle \in Seq(Bytes)  BY <1>1, StrSearchAssumption, ViewsAre DEF Init
  <2>2. haystack \in Seq(Bytes) /\ mode \in Modes /\ Len(haystack) <= SizeMax
    BY <1>1, StrSearchAssumption DEF Init, Modes
  <2>3. IsWalk(walk) /\ walk = NewWalk  BY <1>1 DEF Init, NewWalk, IsWalk
  <2>4. phase = "start" /\ steps = 0 /\ found = STR_NPOS  BY <1>1 DEF Init
  <2>. QED  BY <2>1, <2>2, <2>3, <2>4 DEF SearchInv
<1>. QED  BY <1>1

LEMMA AnswerShortKeeps ==
  ASSUME SearchInv, NEW h \in Views(MaxHaystack), NEW m \in Modes, AnswerShort(h, m)
  PROVE  SearchInv'
<1>1. h \in Seq(Bytes) /\ Len(h) <= SizeMax  BY HaystackFits
<1>2. found' = Answer' /\ found' \in Nat \cup {STR_NPOS}  BY <1>1, ShortAnswered DEF SearchInv
<1>3. phase' = "done" /\ haystack' = h /\ mode' = m /\ needle' = needle /\ walk' = walk
  BY DEF AnswerShort
<1>4. ~IsSentinel(haystack, mode)'  BY <1>3 DEF AnswerShort, IsSentinel
<1>. QED  BY <1>1, <1>2, <1>3, <1>4 DEF SearchInv, IsWalk

LEMMA RefuseSentinelKeeps ==
  ASSUME SearchInv, NEW h \in Views(MaxHaystack), NEW m \in Modes, RefuseSentinel(h, m)
  PROVE  SearchInv'
<1>1. h \in Seq(Bytes) /\ Len(h) <= SizeMax  BY HaystackFits
<1>2. /\ phase = "start" /\ phase' = "refused" /\ haystack' = h /\ mode' = m
      /\ needle' = needle /\ walk' = walk /\ found' = found
  BY DEF RefuseSentinel
<1>3. IsSentinel(haystack, mode)'  BY <1>2 DEF RefuseSentinel, IsSentinel
<1>. QED  BY <1>1, <1>2, <1>3 DEF SearchInv, IsWalk

LEMMA BeginTwoWayKeeps ==
  ASSUME SearchInv, BeginTwoWay
  PROVE  SearchInv'
<1>1. /\ phase = "start" /\ Len(needle) > 1 /\ phase' = "forward"
      /\ needle' = needle /\ haystack' = haystack /\ mode' = mode /\ walk' = walk /\ steps' = steps
      /\ found' = found
  BY DEF BeginTwoWay
<1>2. Walking(FALSE)  BY <1>1, WalkBegins DEF SearchInv
<1>3. Walking(FALSE)'  BY <1>1, <1>2 DEF Walking, IsWalk, WalkKnows
<1>. QED  BY <1>1, <1>3 DEF SearchInv, IsWalk

LEMMA WalkStepKeeps ==
  ASSUME SearchInv, WalkStep
  PROVE  SearchInv'
<1>1. /\ phase \in {"forward", "reverse"} /\ ~WalkIsComplete /\ walk' = Walked(walk, phase = "reverse")
      /\ steps' = steps + 1 /\ phase' = phase
      /\ needle' = needle /\ haystack' = haystack /\ mode' = mode /\ forward' = forward /\ found' = found
  BY DEF WalkStep
<1>2. CASE phase = "forward"
  <2>1. (phase = "reverse") = FALSE  BY <1>2
  <2>2. walk' = Walked(walk, FALSE)  BY <2>1, <1>1
  <2>3. Walking(FALSE)'  BY <2>2, <1>1, <1>2, WalkGoesOn DEF SearchInv
  <2>4. IsWalk(walk)'  BY <2>3 DEF Walking
  <2>. QED  BY <2>3, <2>4, <1>1, <1>2 DEF SearchInv
<1>3. CASE phase = "reverse"
  <2>1. walk' = Walked(walk, TRUE)  BY <1>1, <1>3
  <2>2. Walking(TRUE)'  BY <2>1, <1>1, <1>3, WalkGoesOn DEF SearchInv
  <2>3. IsWalk(walk)'  BY <2>2 DEF Walking
  <2>4. Maximal(Letters(needle), Len(needle), FALSE, forward.cut, forward.period)'
    BY <1>1, <1>3 DEF SearchInv
  <2>. QED  BY <2>2, <2>3, <2>4, <1>1, <1>3 DEF SearchInv
<1>. QED  BY <1>1, <1>2, <1>3

LEMMA EndForwardWalkKeeps ==
  ASSUME SearchInv, EndForwardWalk
  PROVE  SearchInv'
<1>1. /\ phase = "forward" /\ forward' = FactorOf(walk) /\ phase' = "reverse" /\ walk' = NewWalk /\ steps' = 0
      /\ needle' = needle /\ haystack' = haystack /\ mode' = mode /\ found' = found
      /\ WalkIsComplete \/ steps = STR_SUFFIX_WALK_PASSES * Len(needle)
  BY DEF EndForwardWalk
<1>2. Walking(FALSE)  BY <1>1 DEF SearchInv
<1>3. Maximal(Letters(needle), Len(needle), FALSE, walk.cut, walk.period)
  BY <1>1, <1>2, WalkOver
<1>4. forward'.cut = walk.cut /\ forward'.period = walk.period  BY <1>1 DEF FactorOf
<1>5. Maximal(Letters(needle), Len(needle), FALSE, forward.cut, forward.period)'
  BY <1>1, <1>3, <1>4
<1>6. IsWalk(NewWalk)  BY DEF IsWalk, NewWalk
<1>7. Walking(TRUE)'
  <2>1. needle' \in Seq(Bytes) /\ Len(needle') > 1  BY <1>1, <1>2 DEF Walking
  <2>2. Word(Letters(needle'), Len(needle'))
    <3>1. Len(needle) > 0 /\ needle \in Seq(Bytes)  BY <1>2 DEF Walking
    <3>. QED  BY <3>1, <1>1, LettersWord
  <2>3. WalkKnows(Letters(needle'), Len(needle'), TRUE, NewWalk)  BY <2>2, NewWalkKnows
  <2>4. steps' \in Nat /\ steps' < walk'.cut + walk'.candidate + walk'.offset  BY <1>1 DEF NewWalk
  <2>5. IsWalk(walk)' /\ WalkKnows(Letters(needle), Len(needle), TRUE, walk)'  BY <2>3, <1>1, <1>6
  <2>. QED  BY <2>1, <2>4, <2>5 DEF Walking
<1>8. IsWalk(walk)'  BY <1>1, <1>6
<1>. QED  BY <1>1, <1>5, <1>7, <1>8 DEF SearchInv

LEMMA BuildSearchContextKeeps ==
  ASSUME SearchInv, NEW h \in Views(MaxHaystack), NEW m \in Modes, BuildSearchContext(h, m)
  PROVE  SearchInv'
<1>1. /\ phase = "reverse" /\ phase' = "search" /\ steps' = 0 /\ walk' = NewWalk
      /\ needle' = needle /\ haystack' = h /\ mode' = m /\ found' = found
      /\ WalkIsComplete \/ steps = STR_SUFFIX_WALK_PASSES * Len(needle)
      /\ Len(h) >= Len(needle)
      /\ context' = SearchContext(CriticalFactor(forward, FactorOf(walk)))
      /\ state' = [idx |-> 0, memory |-> 0]
  BY DEF BuildSearchContext
<1>2. h \in Seq(Bytes) /\ Len(h) <= SizeMax  BY HaystackFits
<1>3. /\ Walking(TRUE) /\ found = STR_NPOS
      /\ Maximal(Letters(needle), Len(needle), FALSE, forward.cut, forward.period)
  BY <1>1 DEF SearchInv
<1>4. Maximal(Letters(needle), Len(needle), TRUE, walk.cut, walk.period)
  BY <1>1, <1>3, WalkOver
<1>5. ContextSound'  BY <1>1, <1>3, <1>4, ContextBuilt
<1>6. needle \in Seq(Bytes) /\ Len(needle) > 1 /\ Len(needle) \in Nat /\ Len(h) \in Nat
  BY <1>2, <1>3 DEF Walking
<1>7. Texts'  BY <1>1, <1>2, <1>6 DEF Texts
<1>8. state'.idx = 0 /\ state'.memory = 0  BY <1>1
<1>9. LastIdx' = Len(h) - Len(needle)  BY <1>1 DEF LastIdx
<1>10. state'.idx \in 0..LastIdx' /\ state'.memory \in 0..(Len(needle') - 1)
  BY <1>1, <1>6, <1>8, <1>9
<1>11. Fits(state.idx, 0, state.memory)'  BY <1>8 DEF Fits, FitsAt
<1>12. Best(found, state.idx)'
  <2>1. \A o \in Occurrences' : o >= 0
    <3>1. Occurrences' \subseteq 0..LastIdx'  BY DEF Occurrences
    <3>2. LastIdx' \in Nat  BY <1>6, <1>1, <1>9
    <3>. QED  BY <3>1, <3>2
  <2>. QED  BY <2>1, <1>1, <1>3, <1>8 DEF Best
<1>13. steps' \in Nat /\ steps' <= state'.idx  BY <1>1, <1>8
<1>14. found' \in Nat \cup {STR_NPOS}  BY <1>1, <1>3
<1>15. Searching'  BY <1>5, <1>7, <1>10, <1>11, <1>12, <1>13, <1>14 DEF Searching
<1>16. IsWalk(walk)'  BY <1>1 DEF IsWalk, NewWalk
<1>17. needle' \in Seq(Bytes) /\ haystack' \in Seq(Bytes) /\ mode' \in Modes  BY <1>1, <1>2, <1>6
<1>. QED  BY <1>1, <1>2, <1>14, <1>15, <1>16, <1>17 DEF SearchInv

LEMMA SearchStepKeeps ==
  ASSUME SearchInv, SearchStep
  PROVE  SearchInv'
<1>1. /\ phase = "search" /\ steps' = steps + 1 /\ Unmoved
      /\ SearchOnMismatch \/ SearchAfterRightMatch
  BY DEF SearchStep, Unmoved
<1>2. Searching  BY <1>1 DEF SearchInv
<1>3. Searched'  BY <1>1, <1>2, MismatchSearched, MatchSearched
<1>4. needle' = needle /\ haystack' = haystack /\ mode' = mode /\ walk' = walk  BY <1>1 DEF Unmoved
<1>5. ~IsSentinel(haystack, mode)'
  <2>1. Len(needle) > 1 /\ Len(needle) \in Nat  BY <1>2 DEF Searching, Texts
  <2>. QED  BY <2>1, <1>4 DEF IsSentinel
<1>. QED  BY <1>3, <1>4, <1>5 DEF SearchInv, Searched, IsWalk

LEMMA SearchInvIsInductive == SearchInv /\ [Next]_vars => SearchInv'
<1>. SUFFICES ASSUME SearchInv, [Next]_vars  PROVE SearchInv'  OBVIOUS
<1>1. CASE \E h \in Views(MaxHaystack), m \in Modes : RefuseSentinel(h, m) \/ AnswerShort(h, m)
  BY <1>1, RefuseSentinelKeeps, AnswerShortKeeps
<1>2. CASE \E h \in Views(MaxHaystack), m \in Modes : BuildSearchContext(h, m)
  BY <1>2, BuildSearchContextKeeps
<1>3. CASE BeginTwoWay  BY <1>3, BeginTwoWayKeeps
<1>4. CASE WalkStep  BY <1>4, WalkStepKeeps
<1>5. CASE EndForwardWalk  BY <1>5, EndForwardWalkKeeps
<1>6. CASE SearchStep  BY <1>6, SearchStepKeeps
<1>7. CASE UNCHANGED vars
  <2>1. /\ needle' = needle /\ haystack' = haystack /\ mode' = mode /\ phase' = phase /\ walk' = walk
        /\ forward' = forward /\ context' = context /\ state' = state /\ steps' = steps /\ found' = found
    BY <1>7 DEF vars
  <2>2. Unmoved  BY <2>1 DEF Unmoved
  <2>3. (\A rev : Walking(rev)' <=> Walking(rev)) /\ (Searching' <=> Searching) /\ Answer' = Answer
    <3>1. \A rev : Walking(rev)' <=> Walking(rev)  BY <2>1 DEF Walking, IsWalk, WalkKnows
    <3>2. Texts' <=> Texts  BY <2>2, UnmovedKeeps
    <3>3. ContextSound' <=> ContextSound  BY <2>2, UnmovedKeeps
    <3>4. LastIdx' = LastIdx /\ Answer' = Answer  BY <2>2, UnmovedKeeps
    <3>5. Fits(state.idx, 0, state.memory)' <=> Fits(state.idx, 0, state.memory)  BY <2>1 DEF Fits
    <3>6. Occurrences' = Occurrences  BY <2>1 DEF Occurrences, OccursAt, LastIdx
    <3>7. Best(found, state.idx)' <=> Best(found, state.idx)  BY <2>1, <3>6 DEF Best
    <3>8. Searching' <=> Searching  BY <2>1, <3>2, <3>3, <3>4, <3>5, <3>7 DEF Searching
    <3>. QED  BY <3>1, <3>4, <3>8
  <2>4. IsSentinel(haystack, mode)' <=> IsSentinel(haystack, mode)  BY <2>1 DEF IsSentinel
  <2>. QED  BY <2>1, <2>3, <2>4 DEF SearchInv, IsWalk
<1>. QED  BY <1>1, <1>2, <1>3, <1>4, <1>5, <1>6, <1>7 DEF Next

LEMMA SearchInvHolds == Spec => []SearchInv
BY InitSearchInv, SearchInvIsInductive, PTL DEF Spec
-----------------------------------------------------------------------------
(* The theorems.                                                            *)

\* Every variable has its type, the candidate of a walk lies within the needle, and
\* str_search_state_t stays within the haystack and the needle, so that neither the walk
\* nor the scans ever read behind a view.
THEOREM SearchIsTyped == Spec => []TypeOK
<1>1. SearchInv => TypeOK
  <2>. SUFFICES ASSUME SearchInv  PROVE TypeOK  OBVIOUS
  <2>1. /\ needle \in Seq(Bytes) /\ haystack \in Seq(Bytes) /\ mode \in Modes
        /\ phase \in {"start", "forward", "reverse", "search", "done", "refused"}
        /\ IsWalk(walk) /\ found \in Nat \cup {STR_NPOS}
    BY DEF SearchInv
  <2>2. ASSUME NEW rev, Walking(rev)  PROVE walk.candidate < Len(needle)
    BY <2>2 DEF Walking, WalkKnows, Knows
  <2>3. phase \in {"forward", "reverse"} => walk.candidate < Len(needle)
    BY <2>2 DEF SearchInv
  <2>4. phase = "search" => state.idx \in 0..LastIdx /\ state.memory \in 0..(Len(needle) - 1)
    BY DEF SearchInv, Searching
  <2>5. found \in Nat  BY <2>1, StrSearchAssumption DEF STR_NPOS
  <2>. QED  BY <2>1, <2>3, <2>4, <2>5 DEF TypeOK, IsWalk
<1>. QED  BY <1>1, SearchInvHolds, PTL

\* str_run_suffix_walk_pass: two passes of as many comparisons as the needle has bytes
\* bring every walk to its end, so the factor is that of the whole needle.
THEOREM WalksComplete == Spec => []WalkCompletes
<1>1. SearchInv => WalkCompletes
  <2>. SUFFICES ASSUME SearchInv, phase \in {"forward", "reverse"},
                       steps = STR_SUFFIX_WALK_PASSES * Len(needle)
                PROVE  WalkIsComplete
    BY DEF WalkCompletes
  <2>1. Walking(FALSE) \/ Walking(TRUE)  BY DEF SearchInv
  <2>. QED  BY <2>1, WalkOver
<1>. QED  BY <1>1, SearchInvHolds, PTL

\* str_find_critical_factor and str_build_search_context: the later of the cuts of both
\* walks is critical, and the shift after a full match is at most the period of the needle.
THEOREM FactorsAreCritical == Spec => []FactorCritical
<1>1. SearchInv => FactorCritical
  <2>. SUFFICES ASSUME SearchInv, phase = "search"
                PROVE  /\ LocalPeriod(needle, context.factor.cut) = Period(needle)
                       /\ context.full_shift <= Period(needle)
    BY DEF FactorCritical
  <2>1. needle \in Seq(Bytes) /\ ContextSound  BY DEF SearchInv, Searching
  <2>. QED  BY <2>1, SoundIsCritical
<1>. QED  BY <1>1, SearchInvHolds, PTL

\* The prefix that str_search_state_t remembers after a shift by the period is there at
\* the new place, so the scan to the left may leave it out.
THEOREM MemoryIsSound == Spec => []MemoryMatches
<1>1. SearchInv => MemoryMatches
  <2>. SUFFICES ASSUME SearchInv, phase = "search"  PROVE \A i \in 0..(state.memory - 1) : Matches(i)
    BY DEF MemoryMatches
  <2>1. Searching  BY DEF SearchInv
  <2>2. PICK m \in Nat, z \in Nat : m = state.memory /\ z = 0 /\ m <= Len(needle)
    BY <2>1 DEF Searching, Texts
  <2>3. Fits(state.idx, z, m) /\ state.idx \in 0..LastIdx /\ Texts  BY <2>1, <2>2 DEF Searching
  <2>4. \A i \in z..(m - 1) : Matches(i)  BY <2>2, <2>3, FitsIs
  <2>. QED  BY <2>2, <2>4
<1>. QED  BY <1>1, SearchInvHolds, PTL

\* An index of an occurrence is one of the haystack, but behind the end when the needle is empty.
LEMMA AnswerIsIndex ==
  ASSUME SearchInv, Occurrences # {}
  PROVE  /\ Min(Occurrences) \in Nat /\ Max(Occurrences) \in Nat
         /\ Min(Occurrences) \in Occurrences /\ Max(Occurrences) \in Occurrences
         /\ \A o \in Occurrences : o \in Nat /\ o + Len(needle) <= Len(haystack)
         /\ Len(needle) = 0 => Min(Occurrences) = 0 /\ Max(Occurrences) = Len(haystack)
<1>1. needle \in Seq(Bytes) /\ haystack \in Seq(Bytes)  BY DEF SearchInv
<1>2. PICK a \in Nat, e \in Nat : a = Len(needle) /\ e = Len(haystack)  BY <1>1
<1>3. Occurrences \subseteq 0..(e - a)  BY <1>2 DEF Occurrences, LastIdx
<1>4. \A o \in Occurrences : o \in Nat /\ o + a <= e
  <2>. SUFFICES ASSUME NEW o \in Occurrences  PROVE o \in Nat /\ o + a <= e  OBVIOUS
  <2>1. o \in 0..(e - a)  BY <1>3
  <2>. QED  BY <2>1
<1>5. Occurrences \subseteq 0..e /\ Occurrences \subseteq Nat  BY <1>4
<1>6. Min(Occurrences) \in Occurrences /\ Max(Occurrences) \in Occurrences  BY <1>5, MinIs, MaxIs
<1>7. a = 0 => Occurrences = 0..e
  BY <1>1, <1>2, ShortIs DEF Occurrences, OccursAt, LastIdx
<1>8. a = 0 => Min(Occurrences) = 0 /\ Max(Occurrences) = e  BY <1>7, RangeEnds
<1>. QED  BY <1>2, <1>4, <1>5, <1>6, <1>8

\* str_view_find and str_view_rfind answer with the first, or the last, place at which
\* the needle occurs, and with STR_NPOS only when there is none: for every needle, every
\* haystack and both directions.  They refuse only where the place would read as STR_NPOS.
THEOREM SearchIsExact == Spec => []SearchExact
<1>1. SearchInv => SearchExact
  <2>. SUFFICES ASSUME SearchInv  PROVE SearchExact  OBVIOUS
  <2>1. PICK a \in Nat, e \in Nat : a = Len(needle) /\ e = Len(haystack) /\ e <= SizeMax
    BY DEF SearchInv
  <2>2. STR_NPOS = SizeMax /\ SizeMax \in Nat /\ SizeMax > 0  BY StrSearchAssumption DEF STR_NPOS
  <2>3. CASE phase = "done"
    <3>1. found = Answer /\ ~IsSentinel(haystack, mode) /\ mode \in Modes  BY <2>3 DEF SearchInv
    <3>2. ASSUME Occurrences # {}  PROVE found # STR_NPOS
      <4>1. found = IF mode = "FIRST" THEN Min(Occurrences) ELSE Max(Occurrences)
        BY <3>1, <3>2 DEF Answer
      <4>2. found \in Nat /\ found + a <= e  BY <2>1, <3>2, <4>1, AnswerIsIndex
      <4>3. CASE a > 0  BY <2>1, <2>2, <4>2, <4>3
      <4>4. CASE a = 0 /\ mode = "FIRST"
        <5>1. found = 0  BY <2>1, <3>2, <4>1, <4>4, AnswerIsIndex
        <5>. QED  BY <2>2, <5>1
      <4>5. CASE a = 0 /\ mode = "LAST"
        <5>1. found = e  BY <2>1, <3>2, <4>1, <4>5, AnswerIsIndex
        <5>2. e # STR_NPOS  BY <2>1, <3>1, <4>5 DEF IsSentinel
        <5>. QED  BY <5>1, <5>2
      <4>. QED  BY <3>1, <4>3, <4>4, <4>5 DEF Modes
    <3>. QED  BY <2>3, <3>1, <3>2 DEF SearchExact, Answer
  <2>4. CASE phase = "refused"
    <3>1. mode = "LAST" /\ a = 0 /\ e = STR_NPOS /\ needle \in Seq(Bytes) /\ haystack \in Seq(Bytes)
      BY <2>1, <2>4 DEF SearchInv, IsSentinel
    <3>2. Occurrences = 0..e
      BY <2>1, <3>1, ShortIs DEF Occurrences, OccursAt, LastIdx
    <3>3. Occurrences # {} /\ Max(Occurrences) = e  BY <3>2, RangeEnds
    <3>. QED  BY <2>4, <3>1, <3>3 DEF SearchExact
  <2>5. CASE phase # "done" /\ phase # "refused"  BY <2>5 DEF SearchExact
  <2>. QED  BY <2>3, <2>4, <2>5
<1>. QED  BY <1>1, SearchInvHolds, PTL

=============================================================================
