---------------------------- MODULE RankingProofs ----------------------------
(***************************************************************************)
(* Proofs about SearchRanking and SearchRefinement for any policy a policy *)
(* file may hold, any catalogues, topics and first searches.               *)
(*                                                                         *)
(* The shares of the groups (SharesFairly) are computed by rounds over     *)
(* sets, and their sums by a fold over sets: neither is an induction on a  *)
(* number.  Both are written as a descent, a function of the subsets of a  *)
(* finite set whose value at a subset follows from its value at a smaller  *)
(* one; a minimal subset on which a claim fails then contradicts the step. *)
(* The fractions come first: Euclid's algorithm gives each its lowest      *)
(* terms, so that equal fractions are the same value.                      *)
(*                                                                         *)
(* RankingSafe is not inductive: a preview on the page tells the truth     *)
(* only because the question was offered for the intent the page still     *)
(* has, and the next search is accepted only because each answer offered   *)
(* leaves an intent the service accepts.  RankInv says that.               *)
(***************************************************************************)
EXTENDS SearchRefinement, FiniteSetTheorems, NaturalsInduction, WellFoundedInduction, TLAPS

-----------------------------------------------------------------------------
(* The greatest common divisor.                                            *)

Positive == Nat \ {0}
Below == {pair \in Nat \X Nat : pair[1] < pair[2]}

\* Every set of naturals that is not empty has a least member.
LEMMA LeastOf ==
  ASSUME NEW S, S \subseteq Nat, S # {}
  PROVE  \E m \in S : \A n \in S : m <= n
<1>1. IsWellFoundedOn(Below, Nat)
  BY NatLessThanWellFounded, Zenon DEF OpToRel, Below
<1>2. PICK m \in S : \A n \in S : <<n, m>> \notin Below
  BY <1>1, WFMin, Zenon
<1>3. ASSUME NEW n \in S PROVE m <= n
  <2>1. n \in Nat /\ m \in Nat
    OBVIOUS
  <2>2. ~(n < m)
    BY <1>2, <2>1 DEF Below
  <2> QED BY <2>1, <2>2
<1> QED BY <1>3

\* What division with a remainder computes.
LEMMA Dividing ==
  ASSUME NEW m \in Nat, NEW n \in Positive
  PROVE  /\ m % n \in Nat /\ m % n < n /\ m \div n \in Nat
         /\ m = n * (m \div n) + (m % n)
BY DEF Positive

\* A number that is written as a multiple and a remainder has those.
LEMMA Divided0 ==
  ASSUME NEW n \in Positive, NEW q \in Nat, NEW r \in 0..(n - 1)
  PROVE  (n * q + r) % n = r /\ (n * q + r) \div n = q
BY DEF Positive

\* f computes the greatest common divisors of pairs whose second number is at most n
Euclid(f, n) ==
    f = [p \in Nat \X (0..n) |-> IF p[2] = 0 THEN p[1] ELSE f[<<p[2], p[1] % p[2]>>]]

\* Two functions that satisfy Euclid's equation agree where both are defined.
LEMMA EuclidAgrees ==
  ASSUME NEW m \in Nat, NEW f, Euclid(f, m), NEW n \in Nat, NEW g, Euclid(g, n), m <= n,
         NEW y \in 0..m, NEW x \in Nat
  PROVE  f[<<x, y>>] = g[<<x, y>>]
<1> DEFINE S == {b \in 0..m : \E a \in Nat : f[<<a, b>>] # g[<<a, b>>]}
<1> SUFFICES ASSUME S # {} PROVE FALSE
  OBVIOUS
<1>0. S \subseteq Nat
  OBVIOUS
<1>1. PICK b \in S : \A c \in S : b <= c
  BY <1>0, LeastOf, Zenon
<1>2. b \in 0..m /\ b \in 0..n
  OBVIOUS
<1>3. PICK a \in Nat : f[<<a, b>>] # g[<<a, b>>]
  OBVIOUS
<1>4. /\ f[<<a, b>>] = IF b = 0 THEN a ELSE f[<<b, a % b>>]
      /\ g[<<a, b>>] = IF b = 0 THEN a ELSE g[<<b, a % b>>]
  <2>1. <<a, b>> \in Nat \X (0..m) /\ <<a, b>> \in Nat \X (0..n)
    BY <1>2
  <2> QED BY <2>1 DEF Euclid
<1>5. b # 0
  BY <1>3, <1>4
<1>6. a % b \in 0..m /\ a % b \in Nat /\ a % b < b /\ b \in Nat
  <2>1. b \in Positive
    BY <1>2, <1>5 DEF Positive
  <2>2. a % b \in Nat /\ a % b < b
    BY <2>1, Dividing
  <2> QED BY <1>2, <2>2
<1>7. a % b \notin S
  <2> SUFFICES ASSUME a % b \in S PROVE FALSE
    OBVIOUS
  <2> HIDE DEF S
  <2>1. PICK r : r = a % b
    OBVIOUS
  <2>2. r \in S /\ r \in Nat /\ r < b /\ b \in Nat
    BY <1>6, <2>1
  <2>3. b <= r
    BY <1>1, <2>2
  <2> QED BY <2>2, <2>3
<1>8. f[<<b, a % b>>] = g[<<b, a % b>>]
  BY <1>6, <1>7
<1> QED BY <1>3, <1>4, <1>5, <1>8

\* Euclid's equation has a solution for every bound of the second number.
LEMMA EuclidExists ==
  ASSUME NEW n \in Nat
  PROVE  \E f : Euclid(f, n)
<1> DEFINE S == {k \in Nat : ~ \E f : Euclid(f, k)}
<1> SUFFICES ASSUME S # {} PROVE FALSE
  OBVIOUS
<1> HIDE DEF S
<1>1. PICK k \in S : \A l \in S : k <= l
  BY LeastOf DEF S
<1>2. CASE k = 0
  <2> DEFINE f == [p \in Nat \X (0..0) |-> p[1]]
  <2>1. f = [p \in Nat \X (0..0) |-> IF p[2] = 0 THEN p[1] ELSE f[<<p[2], p[1] % p[2]>>]]
    <3>1. \A p \in Nat \X (0..0) : p[2] = 0
      OBVIOUS
    <3> QED BY <3>1
  <2> HIDE DEF f
  <2>2. Euclid(f, 0)
    BY <2>1 DEF Euclid
  <2> QED BY <1>1, <1>2, <2>2 DEF S
<1>3. CASE k # 0
  <2>1. k \in Positive /\ k - 1 \in Nat /\ k - 1 \notin S
    BY <1>1, <1>3 DEF S, Positive
  <2>2. PICK f : Euclid(f, k - 1)
    BY <2>1 DEF S
  <2> DEFINE g == [p \in Nat \X (0..k) |-> IF p[2] = k THEN f[<<k, p[1] % k>>] ELSE f[p]]
  <2>3. ASSUME NEW p \in Nat \X (0..k)
        PROVE  g[p] = IF p[2] = 0 THEN p[1] ELSE g[<<p[2], p[1] % p[2]>>]
    <3> DEFINE x == p[1]
               y == p[2]
    <3>0. x \in Nat /\ y \in 0..k /\ p = <<x, y>>
      OBVIOUS
    <3>1. y # 0 => x % y \in 0..k /\ x % y < y /\ y \in Nat
      <4>1. y # 0 => y \in Positive
        BY <3>0, <2>1 DEF Positive
      <4>2. y # 0 => x % y \in Nat /\ x % y < y
        BY <3>0, <4>1, Dividing
      <4> QED BY <3>0, <4>2, <2>1 DEF Positive
    <3> HIDE DEF x, y
    <3>2. y # 0 => g[<<y, x % y>>] = f[<<y, x % y>>]
      <4>1. ASSUME y # 0 PROVE <<y, x % y>> \in Nat \X (0..k) /\ x % y # k
        BY <3>0, <3>1, <4>1
      <4> QED BY <4>1
    <3>3. CASE y = k
      <4>1. g[<<x, y>>] = f[<<k, x % k>>]
        BY <3>0, <3>3
      <4> QED BY <2>1, <3>0, <3>2, <3>3, <4>1 DEF Positive
    <3>4. CASE y # k
      <4>1. <<x, y>> \in Nat \X (0..(k - 1)) /\ g[<<x, y>>] = f[<<x, y>>]
        BY <2>1, <3>0, <3>4 DEF Positive
      <4>2. f[<<x, y>>] = IF y = 0 THEN x ELSE f[<<y, x % y>>]
        BY <2>2, <4>1 DEF Euclid
      <4> QED BY <3>0, <3>2, <4>1, <4>2
    <3> QED BY <3>3, <3>4
  <2>4. Euclid(g, k)
    <3>1. g = [p \in Nat \X (0..k) |-> g[p]]
      OBVIOUS
    <3> HIDE DEF g
    <3> QED BY <2>3, <3>1 DEF Euclid
  <2> HIDE DEF g
  <2> QED BY <1>1, <2>4 DEF S
<1> QED BY <1>2, <1>3

IsGcd(f) == f = [n \in Nat |-> [m \in Nat |-> IF n = 0 THEN m ELSE f[m % n][n]]]

\* Euclid's algorithm, as the function computes it.
LEMMA GcdStep ==
  ASSUME NEW x \in Nat, NEW y \in Nat
  PROVE  gcd[y][x] = IF y = 0 THEN x ELSE gcd[x % y][y]
<1> DEFINE F(n) == CHOOSE f : Euclid(f, n)
<1>1. \A n \in Nat : Euclid(F(n), n)
  BY EuclidExists, Zenon
<1> HIDE DEF F
<1> DEFINE g == [n \in Nat |-> [m \in Nat |-> F(n)[<<m, n>>]]]
<1>2. ASSUME NEW b \in Nat, NEW a \in Nat
      PROVE  g[b][a] = IF b = 0 THEN a ELSE g[a % b][b]
  <2>1. g[b][a] = F(b)[<<a, b>>]
    OBVIOUS
  <2>2. F(b)[<<a, b>>] = IF b = 0 THEN a ELSE F(b)[<<b, a % b>>]
    <3>1. <<a, b>> \in Nat \X (0..b) /\ Euclid(F(b), b)
      BY <1>1
    <3> QED BY <3>1 DEF Euclid
  <2>3. CASE b = 0
    BY <2>1, <2>2, <2>3
  <2>4. CASE b # 0
    <3>1. a % b \in Nat /\ a % b < b
      BY <2>4, Dividing DEF Positive
    <3>2. F(a % b)[<<b, a % b>>] = F(b)[<<b, a % b>>]
      <4>1. Euclid(F(a % b), a % b) /\ Euclid(F(b), b)
        BY <1>1, <3>1
      <4>2. a % b <= b /\ a % b \in 0..(a % b)
        BY <3>1
      <4> QED BY <3>1, <4>1, <4>2, EuclidAgrees
    <3>3. g[a % b][b] = F(a % b)[<<b, a % b>>]
      BY <3>1
    <3> QED BY <2>1, <2>2, <2>4, <3>2, <3>3
  <2> QED BY <2>3, <2>4
<1>3. IsGcd(g)
  <2>1. g = [n \in Nat |-> [m \in Nat |-> g[n][m]]]
    OBVIOUS
  <2> HIDE DEF g
  <2> QED BY <1>2, <2>1 DEF IsGcd
<1>4. gcd = CHOOSE f : IsGcd(f)
  BY DEF gcd, IsGcd
<1>5. IsGcd(gcd)
  BY <1>3, <1>4, Zenon
<1> QED BY <1>5 DEF IsGcd

\* The greatest common divisor of two numbers, the second positive or the first, is a
\* positive number that divides both.
LEMMA GcdDivides ==
  ASSUME NEW x \in Nat, NEW y \in Nat, x # 0 \/ y # 0
  PROVE  /\ gcd[y][x] \in Positive
         /\ \E k \in Nat : x = k * gcd[y][x]
         /\ \E k \in Nat : y = k * gcd[y][x]
<1> DEFINE Good(a, b) == /\ gcd[b][a] \in Positive
                         /\ \E k \in Nat : a = k * gcd[b][a]
                         /\ \E k \in Nat : b = k * gcd[b][a]
           S == {b \in Nat : \E a \in Nat : (a # 0 \/ b # 0) /\ ~Good(a, b)}
<1> SUFFICES ASSUME S # {} PROVE FALSE
  OBVIOUS
<1> HIDE DEF Good
<1>1. PICK b \in S : \A c \in S : b <= c
  <2>1. S \subseteq Nat
    OBVIOUS
  <2> HIDE DEF S
  <2> QED BY <2>1, LeastOf
<1>2. PICK a \in Nat : (a # 0 \/ b # 0) /\ ~Good(a, b)
  OBVIOUS
<1>3. CASE b = 0
  <2>1. gcd[b][a] = a
    BY <1>3, GcdStep
  <2>2. a = 1 * a /\ b = 0 * a
    BY <1>3
  <2> QED BY <1>2, <1>3, <2>1, <2>2 DEF Good, Positive
<1>4. CASE b # 0
  <2>1. b \in Positive /\ a % b \in Nat /\ a % b < b /\ a \div b \in Nat
        /\ a = b * (a \div b) + (a % b)
    BY <1>4, Dividing DEF Positive
  <2> DEFINE r == a % b
             q == a \div b
             g == gcd[r][b]
  <2>2. r \notin S
    BY <1>1, <2>1
  <2>3. Good(b, r)
    BY <1>4, <2>1, <2>2
  <2>4. g \in Positive /\ gcd[b][a] = g
    BY <1>4, <2>1, <2>3, GcdStep DEF Good
  <2>5. PICK k \in Nat : b = k * g
    BY <2>3 DEF Good
  <2>6. PICK l \in Nat : r = l * g
    BY <2>3 DEF Good
  <2>7. a = b * q + r /\ q \in Nat
    BY <2>1
  <2> HIDE DEF r, q, g
  <2>8. a = (k * q + l) * g /\ k * q + l \in Nat
    BY <2>4, <2>5, <2>6, <2>7 DEF Positive
  <2> QED BY <1>2, <2>4, <2>5, <2>8 DEF Good
<1> QED BY <1>3, <1>4

\* A common factor goes through.
LEMMA GcdScales ==
  ASSUME NEW c \in Positive, NEW x \in Nat, NEW y \in Nat
  PROVE  gcd[c * y][c * x] = c * gcd[y][x]
<1> DEFINE S == {b \in Nat : \E a \in Nat : gcd[c * b][c * a] # c * gcd[b][a]}
<1> SUFFICES ASSUME S # {} PROVE FALSE
  OBVIOUS
<1>1. PICK b \in S : \A d \in S : b <= d
  <2>1. S \subseteq Nat
    OBVIOUS
  <2> HIDE DEF S
  <2> QED BY <2>1, LeastOf
<1>2. PICK a \in Nat : gcd[c * b][c * a] # c * gcd[b][a]
  OBVIOUS
<1>3. b \in Nat /\ c * a \in Nat /\ c * b \in Nat
  BY DEF Positive
<1>4. CASE b = 0
  <2>1. c * b = 0
    BY <1>4 DEF Positive
  <2>2. gcd[c * b][c * a] = c * a /\ gcd[b][a] = a
    BY <1>3, <1>4, <2>1, GcdStep
  <2> QED BY <1>2, <2>2
<1>5. CASE b # 0
  <2>1. b \in Positive /\ a % b \in Nat /\ a % b < b /\ a \div b \in Nat
        /\ a = b * (a \div b) + (a % b)
    BY <1>5, Dividing DEF Positive
  <2> DEFINE r == a % b
             q == a \div b
  <2>2. r \notin S
    <3> HIDE DEF S
    <3> QED BY <1>1, <1>3, <2>1
  <2>3. gcd[c * r][c * b] = c * gcd[r][b]
    BY <1>3, <2>1, <2>2
  <2>4. a = b * q + r /\ q \in Nat /\ r \in Nat /\ r < b
    BY <2>1
  <2>5. gcd[b][a] = gcd[r][b]
    BY <1>5, <1>3, GcdStep
  <2> HIDE DEF r, q
  <2>6. c * a = (c * b) * q + c * r
    BY <2>4, <1>3 DEF Positive
  <2>7. c * r \in 0..(c * b - 1) /\ c * b \in Positive
    BY <2>4, <1>3, <2>1 DEF Positive
  <2>8. (c * a) % (c * b) = c * r
    BY <2>4, <2>6, <2>7, Divided0
  <2>9. gcd[c * b][c * a] = gcd[c * r][c * b]
    <3>1. PICK m : m = c * a
      OBVIOUS
    <3>2. PICK n : n = c * b
      OBVIOUS
    <3>3. m \in Nat /\ n \in Nat /\ n # 0
      BY <1>3, <2>7, <3>1, <3>2 DEF Positive
    <3>4. gcd[n][m] = gcd[m % n][n]
      BY <3>3, GcdStep
    <3>5. m % n = c * r
      BY <2>8, <3>1, <3>2
    <3> QED BY <3>1, <3>2, <3>4, <3>5
  <2> QED BY <1>2, <2>3, <2>5, <2>9
<1> QED BY <1>4, <1>5

-----------------------------------------------------------------------------
(* Fractions: a whole number over a positive one.                          *)

Fractions == {Frac(n, d) : n \in Int, d \in Positive}

\* A multiple of g divided by g is exact, for negative numbers too.
LEMMA Quotient ==
  ASSUME NEW k \in Int, NEW g \in Positive
  PROVE  (k * g) \div g = k
BY DEF Positive

\* The lowest terms of n over d.
LEMMA LowestTerms ==
  ASSUME NEW n \in Int, NEW d \in Positive
  PROVE  \E g \in Positive, k \in Int, l \in Positive :
            /\ gcd[d][Abs(n)] = g
            /\ n = k * g /\ d = l * g /\ Frac(n, d) = <<k, l>>
<1>1. Abs(n) \in Nat /\ d \in Nat /\ d # 0 /\ (n = Abs(n) \/ n = -Abs(n))
  BY DEF Abs, Positive
<1> DEFINE g == gcd[d][Abs(n)]
<1>2. /\ g \in Positive
      /\ \E k \in Nat : Abs(n) = k * g
      /\ \E k \in Nat : d = k * g
  BY <1>1, GcdDivides
<1>3. Frac(n, d) = <<n \div g, d \div g>>
  BY DEF Frac
<1> HIDE DEF g
<1>4. PICK a \in Nat : Abs(n) = a * g
  BY <1>2
<1>5. PICK l \in Nat : d = l * g
  BY <1>2
<1>6. PICK k \in Int : n = k * g
  <2>1. CASE n = Abs(n)
    BY <1>4, <2>1
  <2>2. CASE n = -Abs(n)
    <3>1. n = (-a) * g /\ -a \in Int
      BY <1>2, <1>4, <2>2 DEF Positive
    <3> QED BY <3>1
  <2> QED BY <1>1, <2>1, <2>2
<1>7. l \in Positive
  <2>1. l # 0
    BY <1>2, <1>5 DEF Positive
  <2> QED BY <2>1 DEF Positive
<1>8. n \div g = k /\ d \div g = l
  <2>1. n \div g = k
    BY <1>2, <1>6, Quotient
  <2>2. l \in Int
    OBVIOUS
  <2>3. (l * g) \div g = l
    BY <1>2, <2>2, Quotient, Zenon
  <2> QED BY <1>5, <2>1, <2>3
<1> QED BY <1>2, <1>3, <1>5, <1>6, <1>7, <1>8 DEF g

\* Numerator and denominator can be multiplied by a positive number.
LEMMA FracScales ==
  ASSUME NEW c \in Positive, NEW n \in Int, NEW d \in Positive
  PROVE  Frac(c * n, c * d) = Frac(n, d)
<1>1. PICK g \in Positive, k \in Int, l \in Positive :
            /\ gcd[d][Abs(n)] = g
            /\ n = k * g /\ d = l * g /\ Frac(n, d) = <<k, l>>
  BY LowestTerms
<1>2. Abs(n) \in Nat /\ Abs(c * n) = c * Abs(n)
  BY DEF Abs, Positive
<1>3. gcd[c * d][Abs(c * n)] = c * g
  <2>1. PICK m : m = Abs(n)
    OBVIOUS
  <2>2. m \in Nat /\ d \in Nat
    BY <1>2, <2>1 DEF Positive
  <2>3. gcd[c * d][c * m] = c * gcd[d][m]
    BY <2>2, GcdScales
  <2> QED BY <1>1, <1>2, <2>1, <2>3
<1>4. c * g \in Positive /\ c * n = k * (c * g) /\ c * d = l * (c * g)
  BY <1>1 DEF Positive
<1>5. (c * n) \div (c * g) = k /\ (c * d) \div (c * g) = l
  BY <1>4, Quotient DEF Positive
<1>6. Frac(c * n, c * d) = <<k, l>>
  BY <1>3, <1>5 DEF Frac
<1> QED BY <1>1, <1>6

\* Frac divides numerator and denominator by a common factor.
LEMMA InTerms ==
  ASSUME NEW n \in Int, NEW d \in Positive
  PROVE  \E g \in Positive, k \in Int, l \in Positive :
            n = k * g /\ d = l * g /\ Frac(n, d) = <<k, l>>
<1>1. PICK g \in Positive, k \in Int, l \in Positive :
            /\ gcd[d][Abs(n)] = g
            /\ n = k * g /\ d = l * g /\ Frac(n, d) = <<k, l>>
  BY LowestTerms
<1> QED BY <1>1

\* Two fractions are one when they are worth the same.
LEMMA SameFrac ==
  ASSUME NEW n \in Int, NEW d \in Positive, NEW m \in Int, NEW e \in Positive
  PROVE  Frac(n, d) = Frac(m, e) <=> n * e = m * d
<1>1. ASSUME n * e = m * d PROVE Frac(n, d) = Frac(m, e)
  <2>1. Frac(e * n, e * d) = Frac(n, d) /\ Frac(d * m, d * e) = Frac(m, e)
    BY FracScales
  <2>2. e * n = d * m /\ e * d = d * e
    BY <1>1 DEF Positive
  <2> QED BY <2>1, <2>2
<1>2. ASSUME Frac(n, d) = Frac(m, e) PROVE n * e = m * d
  <2>1. PICK g \in Positive, k \in Int, l \in Positive :
            n = k * g /\ d = l * g /\ Frac(n, d) = <<k, l>>
    BY InTerms
  <2>2. PICK h \in Positive, i \in Int, j \in Positive :
            m = i * h /\ e = j * h /\ Frac(m, e) = <<i, j>>
    BY InTerms
  <2>3. i = k /\ j = l
    BY <1>2, <2>1, <2>2
  <2> QED BY <2>1, <2>2, <2>3 DEF Positive
<1> QED BY <1>1, <1>2

\* A fraction is made of its own terms.
LEMMA Terms ==
  ASSUME NEW a \in Fractions
  PROVE  a[1] \in Int /\ a[2] \in Positive /\ a = Frac(a[1], a[2])
<1>1. PICK n \in Int, d \in Positive : a = Frac(n, d)
  BY DEF Fractions
<1>2. PICK g \in Positive, k \in Int, l \in Positive :
          n = k * g /\ d = l * g /\ Frac(n, d) = <<k, l>>
  BY InTerms
<1>3. k * d = n * l
  BY <1>2 DEF Positive
<1>4. Frac(k, l) = Frac(n, d)
  BY <1>3, SameFrac
<1> QED BY <1>1, <1>2, <1>4

\* Frac makes a fraction, whatever its numerator.
LEMMA FracIn ==
  ASSUME NEW n \in Int, NEW d \in Positive
  PROVE  Frac(n, d) \in Fractions
BY DEF Fractions

\* What a fraction's own terms have to do with the terms it was made of.
\* Numerator and denominator of Frac(n, d) are in the proportion of n to d.
LEMMA OwnTerms ==
  ASSUME NEW n \in Int, NEW d \in Positive
  PROVE  LET a == Frac(n, d) IN a[1] \in Int /\ a[2] \in Positive /\ a[1] * d = n * a[2]
<1>1. Frac(n, d) \in Fractions
  BY FracIn
<1>2. /\ Frac(n, d)[1] \in Int /\ Frac(n, d)[2] \in Positive
      /\ Frac(n, d) = Frac(Frac(n, d)[1], Frac(n, d)[2])
  BY <1>1, Terms
<1>3. Frac(n, d)[1] * d = n * Frac(n, d)[2]
  BY <1>2, SameFrac
<1> QED BY <1>2, <1>3

\* The operations on fractions, and their order.
LEMMA Arithmetic ==
  ASSUME NEW n \in Int, NEW d \in Positive, NEW m \in Int, NEW e \in Positive
  PROVE  /\ Frac(n, d) ++ Frac(m, e) = Frac(n * e + m * d, d * e)
         /\ Frac(n, d) -- Frac(m, e) = Frac(n * e - m * d, d * e)
         /\ Frac(n, d) ** Frac(m, e) = Frac(n * m, d * e)
         /\ m > 0 => Frac(n, d) // Frac(m, e) = Frac(n * e, d * m)
         /\ AtMost(Frac(n, d), Frac(m, e)) <=> n * e <= m * d
         /\ Less(Frac(n, d), Frac(m, e)) <=> n * e < m * d
<1> DEFINE a == Frac(n, d)
           b == Frac(m, e)
<1>1. a[1] \in Int /\ a[2] \in Positive /\ a[1] * d = n * a[2]
  BY OwnTerms
<1>2. b[1] \in Int /\ b[2] \in Positive /\ b[1] * e = m * b[2]
  BY OwnTerms
<1> HIDE DEF a, b
<1>3. PICK k \in Int : k = a[1]
  BY <1>1
<1>4. PICK p \in Positive : p = a[2]
  BY <1>1
<1>5. PICK l \in Int : l = b[1]
  BY <1>2
<1>6. PICK q \in Positive : q = b[2]
  BY <1>2
<1>7. k * d = n * p /\ l * e = m * q
  BY <1>1, <1>2, <1>3, <1>4, <1>5, <1>6
<1>8. d * e \in Positive /\ p * q \in Positive
  BY DEF Positive
<1>9. a ++ b = Frac(n * e + m * d, d * e)
  <2>1. (k * q + l * p) * (d * e) = (n * e + m * d) * (p * q)
    <3>1. (k * q + l * p) * (d * e) = (k * d) * (q * e) + (l * e) * (p * d)
      BY DEF Positive
    <3>2. (n * e + m * d) * (p * q) = (n * p) * (q * e) + (m * q) * (p * d)
      BY DEF Positive
    <3> QED BY <1>7, <3>1, <3>2
  <2>2. k * q + l * p \in Int /\ n * e + m * d \in Int
    BY DEF Positive
  <2>3. Frac(k * q + l * p, p * q) = Frac(n * e + m * d, d * e)
    BY <1>8, <2>1, <2>2, SameFrac
  <2> QED BY <1>3, <1>4, <1>5, <1>6, <2>3 DEF ++
<1>10. a -- b = Frac(n * e - m * d, d * e)
  <2>1. (k * q - l * p) * (d * e) = (n * e - m * d) * (p * q)
    <3>1. (k * q - l * p) * (d * e) = (k * d) * (q * e) - (l * e) * (p * d)
      BY DEF Positive
    <3>2. (n * e - m * d) * (p * q) = (n * p) * (q * e) - (m * q) * (p * d)
      BY DEF Positive
    <3> QED BY <1>7, <3>1, <3>2
  <2>2. k * q - l * p \in Int /\ n * e - m * d \in Int
    BY DEF Positive
  <2>3. Frac(k * q - l * p, p * q) = Frac(n * e - m * d, d * e)
    BY <1>8, <2>1, <2>2, SameFrac
  <2> QED BY <1>3, <1>4, <1>5, <1>6, <2>3 DEF --
<1>11. a ** b = Frac(n * m, d * e)
  <2>1. (k * l) * (d * e) = (n * m) * (p * q)
    <3>1. (k * l) * (d * e) = (k * d) * (l * e)
      BY DEF Positive
    <3>2. (n * m) * (p * q) = (n * p) * (m * q)
      BY DEF Positive
    <3> QED BY <1>7, <3>1, <3>2
  <2>2. k * l \in Int /\ n * m \in Int
    OBVIOUS
  <2>3. Frac(k * l, p * q) = Frac(n * m, d * e)
    BY <1>8, <2>1, <2>2, SameFrac
  <2> QED BY <1>3, <1>4, <1>5, <1>6, <2>3 DEF **
<1>12. ASSUME m > 0 PROVE a // b = Frac(n * e, d * m)
  <2>1. m * q > 0
    BY <1>12 DEF Positive
  <2>2. l > 0
    BY <1>7, <2>1 DEF Positive
  <2>3. p * l \in Positive /\ d * m \in Positive /\ k * q \in Int /\ n * e \in Int
    BY <1>12, <2>2 DEF Positive
  <2>4. (k * q) * (d * m) = (n * e) * (p * l)
    <3>1. (k * q) * (d * m) = (k * d) * (m * q)
      BY DEF Positive
    <3>2. (n * e) * (p * l) = (n * p) * (l * e)
      BY DEF Positive
    <3> QED BY <1>7, <3>1, <3>2
  <2>5. Frac(k * q, p * l) = Frac(n * e, d * m)
    BY <2>3, <2>4, SameFrac
  <2> QED BY <1>3, <1>4, <1>5, <1>6, <2>5 DEF //
<1>13. (k * q) * (d * e) = (n * e) * (p * q) /\ (l * p) * (d * e) = (m * d) * (p * q)
  <2>1. (k * q) * (d * e) = (k * d) * (q * e) /\ (n * e) * (p * q) = (n * p) * (q * e)
    BY DEF Positive
  <2>2. (l * p) * (d * e) = (l * e) * (p * d) /\ (m * d) * (p * q) = (m * q) * (p * d)
    BY DEF Positive
  <2> QED BY <1>7, <2>1, <2>2
<1>14. (k * q <= l * p <=> n * e <= m * d) /\ (k * q < l * p <=> n * e < m * d)
  <2>1. \A x, y \in Int : \A u \in Positive :
           (x <= y <=> x * u <= y * u) /\ (x < y <=> x * u < y * u)
    BY DEF Positive
  <2>2. k * q \in Int /\ l * p \in Int /\ n * e \in Int /\ m * d \in Int
    BY DEF Positive
  <2>3. /\ k * q <= l * p <=> (k * q) * (d * e) <= (l * p) * (d * e)
        /\ k * q < l * p <=> (k * q) * (d * e) < (l * p) * (d * e)
    BY <1>8, <2>1, <2>2
  <2>4. /\ n * e <= m * d <=> (n * e) * (p * q) <= (m * d) * (p * q)
        /\ n * e < m * d <=> (n * e) * (p * q) < (m * d) * (p * q)
    BY <1>8, <2>1, <2>2
  <2> QED BY <1>13, <2>3, <2>4
<1>15. (AtMost(a, b) <=> n * e <= m * d) /\ (Less(a, b) <=> n * e < m * d)
  BY <1>3, <1>4, <1>5, <1>6, <1>14 DEF AtMost, Less
<1> QED BY <1>9, <1>10, <1>11, <1>12, <1>15 DEF a, b

\* Zero and One are fractions.
LEMMA ZeroOne == Zero = Frac(0, 1) /\ One = Frac(1, 1) /\ Zero \in Fractions /\ One \in Fractions
<1>1. 0 \in Int /\ 1 \in Int /\ 1 \in Positive
  BY DEF Positive
<1>2. PICK g \in Positive, k \in Int, l \in Positive :
          0 = k * g /\ 1 = l * g /\ Frac(0, 1) = <<k, l>>
  BY <1>1, InTerms
<1>3. PICK h \in Positive, i \in Int, j \in Positive :
          1 = i * h /\ 1 = j * h /\ Frac(1, 1) = <<i, j>>
  BY <1>1, InTerms
<1>4. \A x \in Int, y \in Positive : 1 = x * y => x = 1 /\ y = 1
  BY DEF Positive
<1>5. g = 1 /\ l = 1 /\ k = 0
  BY <1>2, <1>4 DEF Positive
<1>6. h = 1 /\ i = 1 /\ j = 1
  BY <1>3, <1>4 DEF Positive
<1>7. Zero = Frac(0, 1) /\ One = Frac(1, 1)
  BY <1>2, <1>3, <1>5, <1>6 DEF Zero, One
<1> QED BY <1>1, <1>7, FracIn

\* Sums, differences, products and quotients of fractions are fractions.
LEMMA Closed ==
  ASSUME NEW a \in Fractions, NEW b \in Fractions
  PROVE  /\ a ++ b \in Fractions /\ a -- b \in Fractions /\ a ** b \in Fractions
         /\ Less(Zero, b) => a // b \in Fractions
<1>1. PICK n \in Int, d \in Positive : a = Frac(n, d)
  BY DEF Fractions
<1>2. PICK m \in Int, e \in Positive : b = Frac(m, e)
  BY DEF Fractions
<1>3. /\ n * e + m * d \in Int /\ n * e - m * d \in Int /\ n * m \in Int
      /\ d * e \in Positive /\ n * e \in Int
  BY DEF Positive
<1>4. a ++ b \in Fractions /\ a -- b \in Fractions /\ a ** b \in Fractions
  BY <1>1, <1>2, <1>3, Arithmetic, FracIn
<1>5. ASSUME Less(Zero, b) PROVE a // b \in Fractions
  <2>1. m > 0
    <3>1. 0 * e < m * 1
      BY <1>2, <1>5, ZeroOne, Arithmetic DEF Positive
    <3> QED BY <3>1 DEF Positive
  <2>2. Frac(n, d) // Frac(m, e) = Frac(n * e, d * m)
    BY <2>1, Arithmetic
  <2>3. d * m \in Positive
    BY <2>1 DEF Positive
  <2>4. Frac(n * e, d * m) \in Fractions
    BY <1>3, <2>3, FracIn
  <2> QED BY <1>1, <1>2, <2>2, <2>4
<1> QED BY <1>4, <1>5

\* Sums may be taken in any order.
LEMMA SumsAgree ==
  ASSUME NEW a \in Fractions, NEW b \in Fractions, NEW c \in Fractions
  PROVE  /\ a ++ b = b ++ a /\ a ++ Zero = a /\ Zero ++ a = a
         /\ (a ++ b) ++ c = a ++ (b ++ c)
         /\ (a -- b) ++ b = a /\ (a ++ b) -- b = a
<1>1. PICK n \in Int, d \in Positive : a = Frac(n, d)
  BY DEF Fractions
<1>2. PICK m \in Int, e \in Positive : b = Frac(m, e)
  BY DEF Fractions
<1>3. PICK k \in Int, f \in Positive : c = Frac(k, f)
  BY DEF Fractions
<1>4. /\ n * e + m * d \in Int /\ n * e - m * d \in Int /\ m * f + k * e \in Int
      /\ d * e \in Positive /\ e * f \in Positive /\ e * d \in Positive
  BY DEF Positive
<1>5. a ++ b = Frac(n * e + m * d, d * e) /\ b ++ a = Frac(m * d + n * e, e * d)
  BY <1>1, <1>2, Arithmetic
<1>6. a ++ b = b ++ a
  <2>1. n * e + m * d = m * d + n * e /\ d * e = e * d
    BY DEF Positive
  <2> QED BY <1>5, <2>1
<1>7. a ++ Zero = a /\ Zero ++ a = a
  <2>1. 1 \in Positive /\ 0 \in Int
    BY DEF Positive
  <2>2. a ++ Zero = Frac(n * 1 + 0 * d, d * 1) /\ Zero ++ a = Frac(0 * d + n * 1, 1 * d)
    BY <1>1, <2>1, ZeroOne, Arithmetic
  <2>3. n * 1 + 0 * d = n /\ 0 * d + n * 1 = n /\ d * 1 = d /\ 1 * d = d
    BY DEF Positive
  <2> QED BY <1>1, <2>2, <2>3
<1>8. (a ++ b) ++ c = a ++ (b ++ c)
  <2>1. (a ++ b) ++ c = Frac((n * e + m * d) * f + k * (d * e), (d * e) * f)
    BY <1>3, <1>4, <1>5, Arithmetic
  <2>2. b ++ c = Frac(m * f + k * e, e * f)
    BY <1>2, <1>3, Arithmetic
  <2>3. a ++ (b ++ c) = Frac(n * (e * f) + (m * f + k * e) * d, d * (e * f))
    BY <1>1, <1>4, <2>2, Arithmetic
  <2>4. /\ (n * e + m * d) * f + k * (d * e) = n * (e * f) + (m * f + k * e) * d
        /\ (d * e) * f = d * (e * f)
    BY DEF Positive
  <2> QED BY <2>1, <2>3, <2>4
<1>9. (a -- b) ++ b = a
  <2>1. a -- b = Frac(n * e - m * d, d * e)
    BY <1>1, <1>2, Arithmetic
  <2>2. (a -- b) ++ b = Frac((n * e - m * d) * e + m * (d * e), (d * e) * e)
    BY <1>2, <1>4, <2>1, Arithmetic
  <2>3. /\ (n * e - m * d) * e + m * (d * e) = (e * e) * n
        /\ (d * e) * e = (e * e) * d /\ e * e \in Positive
    BY DEF Positive
  <2>4. (a -- b) ++ b = Frac((e * e) * n, (e * e) * d)
    BY <2>2, <2>3
  <2> QED BY <1>1, <2>3, <2>4, FracScales
<1>10. (a ++ b) -- b = a
  <2>1. (a ++ b) -- b = Frac((n * e + m * d) * e - m * (d * e), (d * e) * e)
    BY <1>2, <1>4, <1>5, Arithmetic
  <2>2. /\ (n * e + m * d) * e - m * (d * e) = (e * e) * n
        /\ (d * e) * e = (e * e) * d /\ e * e \in Positive
    BY DEF Positive
  <2>3. (a ++ b) -- b = Frac((e * e) * n, (e * e) * d)
    BY <2>1, <2>2
  <2> QED BY <1>1, <2>2, <2>3, FracScales
<1> QED BY <1>6, <1>7, <1>8, <1>9, <1>10

\* Products may be taken in any order, and of each part of a sum.
LEMMA ProductsAgree ==
  ASSUME NEW a \in Fractions, NEW b \in Fractions, NEW c \in Fractions
  PROVE  /\ a ** b = b ** a /\ a ** Zero = Zero
         /\ (a ** b) ** c = a ** (b ** c)
         /\ a ** (b ++ c) = (a ** b) ++ (a ** c)
<1>1. PICK n \in Int, d \in Positive : a = Frac(n, d)
  BY DEF Fractions
<1>2. PICK m \in Int, e \in Positive : b = Frac(m, e)
  BY DEF Fractions
<1>3. PICK k \in Int, f \in Positive : c = Frac(k, f)
  BY DEF Fractions
<1>4. /\ m * f + k * e \in Int /\ n * m \in Int /\ m * k \in Int /\ n * k \in Int
      /\ d * e \in Positive /\ e * f \in Positive /\ d * f \in Positive
  BY DEF Positive
<1>5. a ** b = Frac(n * m, d * e) /\ b ** a = Frac(m * n, e * d)
  BY <1>1, <1>2, Arithmetic
<1>6. a ** b = b ** a
  <2>1. n * m = m * n /\ d * e = e * d
    BY DEF Positive
  <2> QED BY <1>5, <2>1
<1>7. a ** Zero = Zero
  <2>1. 1 \in Positive /\ 0 \in Int
    BY DEF Positive
  <2>2. a ** Zero = Frac(n * 0, d * 1)
    BY <1>1, <2>1, ZeroOne, Arithmetic
  <2>3. n * 0 = d * 0 /\ d * 1 \in Positive /\ n * 0 = 0
    BY DEF Positive
  <2>4. Frac(d * 0, d * 1) = Frac(0, 1)
    BY <2>1, FracScales
  <2> QED BY <2>2, <2>3, <2>4, ZeroOne
<1>8. (a ** b) ** c = a ** (b ** c)
  <2>1. (a ** b) ** c = Frac((n * m) * k, (d * e) * f)
    BY <1>3, <1>4, <1>5, Arithmetic
  <2>2. b ** c = Frac(m * k, e * f)
    BY <1>2, <1>3, Arithmetic
  <2>3. a ** (b ** c) = Frac(n * (m * k), d * (e * f))
    BY <1>1, <1>4, <2>2, Arithmetic
  <2>4. (n * m) * k = n * (m * k) /\ (d * e) * f = d * (e * f)
    BY DEF Positive
  <2> QED BY <2>1, <2>3, <2>4
<1>9. a ** (b ++ c) = (a ** b) ++ (a ** c)
  <2>1. b ++ c = Frac(m * f + k * e, e * f)
    BY <1>2, <1>3, Arithmetic
  <2>2. a ** (b ++ c) = Frac(n * (m * f + k * e), d * (e * f))
    BY <1>1, <1>4, <2>1, Arithmetic
  <2>3. a ** c = Frac(n * k, d * f)
    BY <1>1, <1>3, Arithmetic
  <2>4. (a ** b) ++ (a ** c) = Frac((n * m) * (d * f) + (n * k) * (d * e), (d * e) * (d * f))
    BY <1>4, <1>5, <2>3, Arithmetic
  <2>5. /\ (n * m) * (d * f) + (n * k) * (d * e) = d * (n * (m * f + k * e))
        /\ (d * e) * (d * f) = d * (d * (e * f))
        /\ n * (m * f + k * e) \in Int /\ d * (e * f) \in Positive
    BY DEF Positive
  <2> QED BY <2>2, <2>4, <2>5, FracScales
<1> QED BY <1>6, <1>7, <1>8, <1>9

\* Fractions are ordered.
LEMMA Ordering ==
  ASSUME NEW a \in Fractions, NEW b \in Fractions, NEW c \in Fractions
  PROVE  /\ AtMost(a, a) /\ (Less(a, b) <=> ~AtMost(b, a)) /\ (Less(a, b) => AtMost(a, b))
         /\ AtMost(a, b) /\ AtMost(b, a) => a = b
         /\ AtMost(a, b) /\ AtMost(b, c) => AtMost(a, c)
<1>1. PICK n \in Int, d \in Positive : a = Frac(n, d)
  BY DEF Fractions
<1>2. PICK m \in Int, e \in Positive : b = Frac(m, e)
  BY DEF Fractions
<1>3. PICK k \in Int, f \in Positive : c = Frac(k, f)
  BY DEF Fractions
<1>4. /\ AtMost(a, b) <=> n * e <= m * d
      /\ AtMost(b, a) <=> m * d <= n * e
      /\ Less(a, b) <=> n * e < m * d
      /\ AtMost(b, c) <=> m * f <= k * e
      /\ AtMost(a, c) <=> n * f <= k * d
  BY <1>1, <1>2, <1>3, Arithmetic
<1>5. n * e \in Int /\ m * d \in Int
  BY DEF Positive
<1>6. (Less(a, b) <=> ~AtMost(b, a)) /\ (Less(a, b) => AtMost(a, b))
  BY <1>4, <1>5
<1>7. ASSUME AtMost(a, b), AtMost(b, a) PROVE a = b
  <2>1. n * e = m * d
    BY <1>4, <1>5, <1>7
  <2> QED BY <1>1, <1>2, <2>1, SameFrac
<1>8. ASSUME AtMost(a, b), AtMost(b, c) PROVE AtMost(a, c)
  <2>1. n * e <= m * d /\ m * f <= k * e
    BY <1>4, <1>8
  <2>2. (n * e) * f <= (m * d) * f /\ (m * f) * d <= (k * e) * d
    BY <2>1 DEF Positive
  <2>3. (m * d) * f = (m * f) * d /\ (n * e) * f = (n * f) * e /\ (k * e) * d = (k * d) * e
    BY DEF Positive
  <2>4. (n * f) * e <= (k * d) * e
    <3>1. (n * f) * e \in Int /\ (m * f) * d \in Int /\ (k * d) * e \in Int
      BY DEF Positive
    <3> QED BY <2>2, <2>3, <3>1
  <2>5. n * f <= k * d
    BY <2>4 DEF Positive
  <2> QED BY <1>4, <2>5
<1>9. AtMost(a, a)
  BY <1>1, Arithmetic DEF Positive
<1> QED BY <1>6, <1>7, <1>8, <1>9

\* Adding the same fraction to both sides keeps the order.
LEMMA OrderAdds ==
  ASSUME NEW a \in Fractions, NEW b \in Fractions, NEW c \in Fractions
  PROVE  /\ AtMost(a, b) <=> AtMost(a ++ c, b ++ c)
         /\ Less(a, b) <=> Less(a ++ c, b ++ c)
<1>1. PICK n \in Int, d \in Positive : a = Frac(n, d)
  BY DEF Fractions
<1>2. PICK m \in Int, e \in Positive : b = Frac(m, e)
  BY DEF Fractions
<1>3. PICK k \in Int, f \in Positive : c = Frac(k, f)
  BY DEF Fractions
<1>4. /\ a ++ c = Frac(n * f + k * d, d * f)
      /\ b ++ c = Frac(m * f + k * e, e * f)
      /\ AtMost(a, b) <=> n * e <= m * d
      /\ Less(a, b) <=> n * e < m * d
  BY <1>1, <1>2, <1>3, Arithmetic
<1>5. /\ n * f + k * d \in Int /\ m * f + k * e \in Int
      /\ d * f \in Positive /\ e * f \in Positive
  BY DEF Positive
<1>6. /\ AtMost(a ++ c, b ++ c)
            <=> (n * f + k * d) * (e * f) <= (m * f + k * e) * (d * f)
      /\ Less(a ++ c, b ++ c) <=> (n * f + k * d) * (e * f) < (m * f + k * e) * (d * f)
  BY <1>4, <1>5, Arithmetic
<1>7. PICK x \in Int : x = n * e
  BY DEF Positive
<1>8. PICK y \in Int : y = m * d
  BY DEF Positive
<1>9. PICK z \in Int : z = (k * d) * (e * f)
  BY DEF Positive
<1>10. PICK u \in Positive : u = f * f
  BY DEF Positive
<1>11. /\ (n * f + k * d) * (e * f) = x * u + z
       /\ (m * f + k * e) * (d * f) = y * u + z
  <2>1. (n * f + k * d) * (e * f) = (n * e) * (f * f) + (k * d) * (e * f)
    BY DEF Positive
  <2>2. (m * f + k * e) * (d * f) = (m * d) * (f * f) + (k * d) * (e * f)
    BY DEF Positive
  <2> QED BY <1>7, <1>8, <1>9, <1>10, <2>1, <2>2
<1>12. (x * u + z <= y * u + z <=> x <= y) /\ (x * u + z < y * u + z <=> x < y)
  BY DEF Positive
<1> QED BY <1>4, <1>6, <1>7, <1>8, <1>11, <1>12

\* One sum is at most another when each of its parts is.
LEMMA SumsOrdered ==
  ASSUME NEW a \in Fractions, NEW b \in Fractions, NEW c \in Fractions, NEW d \in Fractions,
         AtMost(c, d)
  PROVE  /\ AtMost(a, b) => AtMost(a ++ c, b ++ d)
         /\ Less(a, b) => Less(a ++ c, b ++ d)
<1>1. a ++ c \in Fractions /\ b ++ c \in Fractions /\ b ++ d \in Fractions
  BY Closed
<1>2. AtMost(b ++ c, b ++ d)
  <2>1. AtMost(c ++ b, d ++ b)
    BY OrderAdds
  <2> QED BY <2>1, SumsAgree
<1>3. ASSUME AtMost(a, b) PROVE AtMost(a ++ c, b ++ d)
  <2>1. AtMost(a ++ c, b ++ c)
    BY <1>3, OrderAdds
  <2> QED BY <1>1, <1>2, <2>1, Ordering
<1>4. ASSUME Less(a, b) PROVE Less(a ++ c, b ++ d)
  <2>1. Less(a ++ c, b ++ c)
    BY <1>4, OrderAdds
  <2>2. ~AtMost(b ++ c, a ++ c)
    BY <1>1, <2>1, Ordering
  <2>3. ~AtMost(b ++ d, a ++ c)
    BY <1>1, <1>2, <2>2, Ordering
  <2> QED BY <1>1, <2>3, Ordering
<1> QED BY <1>3, <1>4

\* What is left of one sum is at least what is left of an equal one that lost less.
LEMMA OrderCancels ==
  ASSUME NEW a \in Fractions, NEW b \in Fractions, NEW c \in Fractions, NEW d \in Fractions,
         a ++ b = c ++ d, AtMost(d, b)
  PROVE  AtMost(a, c)
<1>1. a ++ b \in Fractions /\ c ++ b \in Fractions /\ c ++ d \in Fractions
  BY Closed
<1>2. AtMost(d ++ c, b ++ c)
  BY OrderAdds
<1>3. AtMost(a ++ b, c ++ b)
  BY <1>2, SumsAgree
<1> QED BY <1>3, OrderAdds

\* Products with a fraction that is not negative keep the order.
LEMMA OrderScales ==
  ASSUME NEW a \in Fractions, NEW b \in Fractions, NEW c \in Fractions
  PROVE  /\ AtMost(Zero, c) /\ AtMost(a, b) => AtMost(a ** c, b ** c)
         /\ Less(Zero, a) /\ Less(Zero, b) => Less(Zero, a ** b) /\ Less(Zero, a ++ b)
<1>1. PICK n \in Int, d \in Positive : a = Frac(n, d)
  BY DEF Fractions
<1>2. PICK m \in Int, e \in Positive : b = Frac(m, e)
  BY DEF Fractions
<1>3. PICK k \in Int, f \in Positive : c = Frac(k, f)
  BY DEF Fractions
<1>4. 1 \in Positive /\ 0 \in Int /\ Zero = Frac(0, 1)
  BY ZeroOne DEF Positive
<1>5. /\ a ** c = Frac(n * k, d * f) /\ b ** c = Frac(m * k, e * f)
      /\ a ** b = Frac(n * m, d * e) /\ a ++ b = Frac(n * e + m * d, d * e)
      /\ AtMost(a, b) <=> n * e <= m * d
      /\ AtMost(Zero, c) <=> 0 * f <= k * 1
      /\ Less(Zero, a) <=> 0 * d < n * 1
      /\ Less(Zero, b) <=> 0 * e < m * 1
  BY <1>1, <1>2, <1>3, <1>4, Arithmetic
<1>6. /\ n * k \in Int /\ m * k \in Int /\ n * m \in Int /\ n * e + m * d \in Int
      /\ d * f \in Positive /\ e * f \in Positive /\ d * e \in Positive
  BY DEF Positive
<1>7. /\ AtMost(a ** c, b ** c) <=> (n * k) * (e * f) <= (m * k) * (d * f)
      /\ Less(Zero, a ** b) <=> 0 * (d * e) < (n * m) * 1
      /\ Less(Zero, a ++ b) <=> 0 * (d * e) < (n * e + m * d) * 1
  BY <1>4, <1>5, <1>6, Arithmetic
<1>8. ASSUME AtMost(Zero, c), AtMost(a, b) PROVE AtMost(a ** c, b ** c)
  <2>1. k \in Nat /\ n * e <= m * d
    BY <1>5, <1>8 DEF Positive
  <2>2. k * f \in Nat /\ n * e \in Int /\ m * d \in Int
    BY <2>1 DEF Positive
  <2>3. (n * e) * (k * f) <= (m * d) * (k * f)
    BY <2>1, <2>2
  <2>4. (n * k) * (e * f) = (n * e) * (k * f) /\ (m * k) * (d * f) = (m * d) * (k * f)
    BY DEF Positive
  <2> QED BY <1>7, <2>3, <2>4
<1>9. ASSUME Less(Zero, a), Less(Zero, b) PROVE Less(Zero, a ** b) /\ Less(Zero, a ++ b)
  <2>1. n \in Positive /\ m \in Positive
    BY <1>5, <1>9 DEF Positive
  <2>2. n * m > 0 /\ n * e > 0 /\ m * d > 0
    BY <2>1 DEF Positive
  <2> QED BY <1>6, <1>7, <2>2 DEF Positive
<1> QED BY <1>8, <1>9

\* Quotients, by numerators and denominators.
LEMMA Division ==
  ASSUME NEW n \in Int, NEW d \in Positive, NEW m \in Int, NEW e \in Positive, m > 0
  PROVE  Frac(n, d) // Frac(m, e) = Frac(n * e, d * m)
BY Arithmetic

\* Division by a positive fraction.
LEMMA Quotients ==
  ASSUME NEW a \in Fractions, NEW b \in Fractions, NEW c \in Fractions, Less(Zero, b)
  PROVE  /\ (a ** b) // b = a
         /\ (a // b) ** c = (a ** c) // b
         /\ (a ++ c) // b = (a // b) ++ (c // b)
         /\ Zero // b = Zero
<1>1. PICK n \in Int, d \in Positive : a = Frac(n, d)
  BY DEF Fractions
<1>2. PICK m \in Int, e \in Positive : b = Frac(m, e)
  BY DEF Fractions
<1>3. PICK k \in Int, f \in Positive : c = Frac(k, f)
  BY DEF Fractions
<1>4. 1 \in Positive /\ 0 \in Int /\ Zero = Frac(0, 1)
  BY ZeroOne DEF Positive
<1>5. m > 0 /\ m \in Positive
  <2>1. 0 * e < m * 1
    BY <1>2, <1>4, Arithmetic
  <2> QED BY <2>1 DEF Positive
<1>6. /\ n * m \in Int /\ n * e \in Int /\ n * k \in Int /\ n * f + k * d \in Int
      /\ k * e \in Int /\ d * e \in Positive /\ d * m \in Positive /\ d * f \in Positive
      /\ f * m \in Positive
  BY <1>5 DEF Positive
<1>7. /\ a ** b = Frac(n * m, d * e) /\ a // b = Frac(n * e, d * m)
      /\ a ** c = Frac(n * k, d * f) /\ a ++ c = Frac(n * f + k * d, d * f)
      /\ c // b = Frac(k * e, f * m) /\ Zero // b = Frac(0 * e, 1 * m)
  <2>1. a ** b = Frac(n * m, d * e) /\ a ** c = Frac(n * k, d * f)
        /\ a ++ c = Frac(n * f + k * d, d * f)
    BY <1>1, <1>2, <1>3, Arithmetic
  <2>2. a // b = Frac(n * e, d * m)
    BY <1>1, <1>2, <1>5, Division
  <2>3. c // b = Frac(k * e, f * m)
    BY <1>2, <1>3, <1>5, Division
  <2>4. Zero // b = Frac(0 * e, 1 * m)
    BY <1>2, <1>4, <1>5, Division
  <2> QED BY <2>1, <2>2, <2>3, <2>4
<1>8. (a ** b) // b = a
  <2>1. (a ** b) // b = Frac((n * m) * e, (d * e) * m)
    BY <1>2, <1>5, <1>6, <1>7, Arithmetic
  <2>2. (n * m) * e = (m * e) * n /\ (d * e) * m = (m * e) * d /\ m * e \in Positive
    BY <1>5 DEF Positive
  <2> QED BY <1>1, <2>1, <2>2, FracScales
<1>9. (a // b) ** c = (a ** c) // b
  <2>1. (a // b) ** c = Frac((n * e) * k, (d * m) * f)
    BY <1>3, <1>6, <1>7, Arithmetic
  <2>2. (a ** c) // b = Frac((n * k) * e, (d * f) * m)
    BY <1>2, <1>5, <1>6, <1>7, Arithmetic
  <2>3. (n * e) * k = (n * k) * e /\ (d * m) * f = (d * f) * m
    BY DEF Positive
  <2> QED BY <2>1, <2>2, <2>3
<1>10. (a ++ c) // b = (a // b) ++ (c // b)
  <2>1. (a ++ c) // b = Frac((n * f + k * d) * e, (d * f) * m)
    BY <1>2, <1>5, <1>6, <1>7, Arithmetic
  <2>2. (a // b) ++ (c // b) = Frac((n * e) * (f * m) + (k * e) * (d * m), (d * m) * (f * m))
    BY <1>6, <1>7, Arithmetic
  <2>3. /\ (n * e) * (f * m) + (k * e) * (d * m) = m * ((n * f + k * d) * e)
        /\ (d * m) * (f * m) = m * ((d * f) * m)
        /\ (n * f + k * d) * e \in Int /\ (d * f) * m \in Positive
    BY <1>5 DEF Positive
  <2> QED BY <1>5, <2>1, <2>2, <2>3, FracScales
<1>11. Zero // b = Zero
  <2>1. 0 * e = m * 0 /\ 1 * m = m * 1
    BY DEF Positive
  <2>2. Frac(m * 0, m * 1) = Frac(0, 1)
    BY <1>4, <1>5, FracScales
  <2> QED BY <1>4, <1>7, <2>1, <2>2
<1> QED BY <1>8, <1>9, <1>10, <1>11

\* Two quotients compare as their products across do.
LEMMA QuotientsOrdered ==
  ASSUME NEW a \in Fractions, NEW b \in Fractions, NEW c \in Fractions, NEW d \in Fractions,
         Less(Zero, b), Less(Zero, d)
  PROVE  /\ AtMost(a // b, c // d) <=> AtMost(a ** d, c ** b)
         /\ AtMost(c, a // b) <=> AtMost(c ** b, a)
         /\ AtMost(a // b, c) <=> AtMost(a, c ** b)
<1>1. PICK n \in Int, x \in Positive : a = Frac(n, x)
  BY DEF Fractions
<1>2. PICK m \in Int, y \in Positive : b = Frac(m, y)
  BY DEF Fractions
<1>3. PICK k \in Int, z \in Positive : c = Frac(k, z)
  BY DEF Fractions
<1>4. PICK l \in Int, w \in Positive : d = Frac(l, w)
  BY DEF Fractions
<1>5. 1 \in Positive /\ 0 \in Int /\ Zero = Frac(0, 1)
  BY ZeroOne DEF Positive
<1>6. m \in Positive /\ l \in Positive /\ m > 0 /\ l > 0
  <2>1. 0 * y < m * 1 /\ 0 * w < l * 1
    BY <1>2, <1>4, <1>5, Arithmetic
  <2> QED BY <2>1 DEF Positive
<1>7. /\ n * y \in Int /\ k * w \in Int /\ n * l \in Int /\ k * m \in Int
      /\ x * m \in Positive /\ z * l \in Positive /\ x * w \in Positive /\ z * y \in Positive
  BY <1>6 DEF Positive
<1>8. /\ a // b = Frac(n * y, x * m) /\ c // d = Frac(k * w, z * l)
      /\ a ** d = Frac(n * l, x * w) /\ c ** b = Frac(k * m, z * y)
  <2>1. a ** d = Frac(n * l, x * w) /\ c ** b = Frac(k * m, z * y)
    BY <1>1, <1>2, <1>3, <1>4, Arithmetic
  <2>2. a // b = Frac(n * y, x * m)
    BY <1>1, <1>2, <1>6, Division
  <2>3. c // d = Frac(k * w, z * l)
    BY <1>3, <1>4, <1>6, Division
  <2> QED BY <2>1, <2>2, <2>3
<1>9. AtMost(a // b, c // d) <=> AtMost(a ** d, c ** b)
  <2>1. /\ AtMost(a // b, c // d) <=> (n * y) * (z * l) <= (k * w) * (x * m)
        /\ AtMost(a ** d, c ** b) <=> (n * l) * (z * y) <= (k * m) * (x * w)
    BY <1>7, <1>8, Arithmetic
  <2>2. /\ (n * y) * (z * l) = (n * l) * (z * y)
        /\ (k * w) * (x * m) = (k * m) * (x * w)
    BY DEF Positive
  <2> QED BY <2>1, <2>2
<1>10. AtMost(c, a // b) <=> AtMost(c ** b, a)
  <2>1. /\ AtMost(c, a // b) <=> k * (x * m) <= (n * y) * z
        /\ AtMost(c ** b, a) <=> (k * m) * x <= n * (z * y)
    BY <1>1, <1>3, <1>7, <1>8, Arithmetic
  <2>2. k * (x * m) = (k * m) * x /\ (n * y) * z = n * (z * y)
    BY DEF Positive
  <2> QED BY <2>1, <2>2
<1>11. AtMost(a // b, c) <=> AtMost(a, c ** b)
  <2>1. /\ AtMost(a // b, c) <=> (n * y) * z <= k * (x * m)
        /\ AtMost(a, c ** b) <=> n * (z * y) <= (k * m) * x
    BY <1>1, <1>3, <1>7, <1>8, Arithmetic
  <2>2. k * (x * m) = (k * m) * x /\ (n * y) * z = n * (z * y)
    BY DEF Positive
  <2> QED BY <2>1, <2>2
<1> QED BY <1>9, <1>10, <1>11

-----------------------------------------------------------------------------
(* Recursion down the subsets of a finite set: until one of w.ends, a set  *)
(* gives its w.part, added to or put over what the smaller set w.rest gives.*)

Joined(w, s, below) == IF w.adds = 1 THEN w.part[s] ++ below ELSE w.part[s] \oplus below
Descends(w, S, h) ==
    h = [s \in SUBSET S |-> IF s \in w.ends THEN w.base[s] ELSE Joined(w, s, h[w.rest[s]])]
Shrinks(w, S) ==
    \A s \in SUBSET S : s \notin w.ends => w.rest[s] \subseteq s /\ w.rest[s] # s

\* Of the finite sets in a family, one has no smaller one below it.
LEMMA SmallestOf ==
  ASSUME NEW S, IsFiniteSet(S), NEW B, B \subseteq SUBSET S, B # {}
  PROVE  \E A \in B : \A C \in B : C \subseteq A => C = A
<1> DEFINE N == {Cardinality(A) : A \in B}
<1>1. \A A \in B : IsFiniteSet(A) /\ Cardinality(A) \in Nat
  BY FS_Subset, FS_CardinalityType
<1>2. N \subseteq Nat /\ N # {}
  BY <1>1
<1> HIDE DEF N
<1>3. PICK n \in N : \A m \in N : n <= m
  BY <1>2, LeastOf
<1>4. PICK A \in B : Cardinality(A) = n
  BY DEF N
<1>5. ASSUME NEW C \in B, C \subseteq A, C # A PROVE FALSE
  <2>1. Cardinality(C) < Cardinality(A)
    BY <1>1, <1>5, FS_Subset
  <2>2. Cardinality(C) \in N
    BY DEF N
  <2> QED BY <1>1, <1>3, <1>4, <2>1, <2>2
<1> QED BY <1>5

\* Two functions that descend the same way agree where both are defined.
LEMMA DescentsAgree ==
  ASSUME NEW w, NEW S, IsFiniteSet(S), NEW T, NEW h, Descends(w, S, h), NEW k,
         Descends(w, T, k), Shrinks(w, S), NEW A, A \subseteq S, A \subseteq T
  PROVE  h[A] = k[A]
<1> DEFINE B == {C \in SUBSET A : h[C] # k[C]}
<1> SUFFICES ASSUME B # {} PROVE FALSE
  OBVIOUS
<1>1. IsFiniteSet(A) /\ B \subseteq SUBSET A
  BY FS_Subset
<1> HIDE DEF B
<1>2. PICK C \in B : \A D \in B : D \subseteq C => D = C
  BY <1>1, SmallestOf
<1>3. C \in SUBSET A /\ C \in SUBSET S /\ C \in SUBSET T /\ h[C] # k[C]
  BY DEF B
<1>4. /\ h[C] = IF C \in w.ends THEN w.base[C] ELSE Joined(w, C, h[w.rest[C]])
      /\ k[C] = IF C \in w.ends THEN w.base[C] ELSE Joined(w, C, k[w.rest[C]])
  BY <1>3 DEF Descends
<1>5. CASE C \in w.ends
  BY <1>3, <1>4, <1>5
<1>6. CASE C \notin w.ends
  <2>1. w.rest[C] \subseteq C /\ w.rest[C] # C
    BY <1>3, <1>6 DEF Shrinks
  <2>2. w.rest[C] \notin B
    BY <1>2, <2>1
  <2>3. h[w.rest[C]] = k[w.rest[C]]
    BY <1>3, <2>1, <2>2 DEF B
  <2> QED BY <1>3, <1>4, <1>6, <2>3
<1> QED BY <1>5, <1>6

\* A finite set has a function on its subsets that descends, when each step makes the
\* subset smaller.
LEMMA DescentsExist ==
  ASSUME NEW w, NEW S, IsFiniteSet(S), Shrinks(w, S)
  PROVE  \E h : Descends(w, S, h)
<1> DEFINE B == {A \in SUBSET S : ~ \E h : Descends(w, A, h)}
<1> SUFFICES ASSUME B # {} PROVE FALSE
  OBVIOUS
<1> HIDE DEF B
<1>1. PICK A \in B : \A C \in B : C \subseteq A => C = A
  <2>1. B \subseteq SUBSET S
    BY DEF B
  <2> QED BY <2>1, SmallestOf
<1>2. A \subseteq S /\ ~ \E h : Descends(w, A, h)
  BY DEF B
<1> DEFINE H(C) == CHOOSE h : Descends(w, C, h)
<1>3. \A C : C \subseteq A /\ C # A => Descends(w, C, H(C))
  <2> TAKE C
  <2> HAVE C \subseteq A /\ C # A
  <2>1. C \notin B
    BY <1>1
  <2>2. \E h : Descends(w, C, h)
    BY <1>2, <2>1 DEF B
  <2> QED BY <2>2, Zenon
<1> HIDE DEF H
<1>4. \A C : C \subseteq A => IsFiniteSet(C) /\ Shrinks(w, C)
  <2> TAKE C
  <2> HAVE C \subseteq A
  <2>1. IsFiniteSet(C)
    BY <1>2, FS_Subset
  <2>2. Shrinks(w, C)
    BY <1>2 DEF Shrinks
  <2> QED BY <2>1, <2>2
<1> DEFINE g == [C \in SUBSET A |-> IF C \in w.ends THEN w.base[C]
                                    ELSE Joined(w, C, H(w.rest[C])[w.rest[C]])]
<1>5. ASSUME NEW C \in SUBSET A, C \notin w.ends
      PROVE  g[w.rest[C]] = H(w.rest[C])[w.rest[C]]
  <2>1. w.rest[C] \subseteq C /\ w.rest[C] # C
    BY <1>2, <1>5 DEF Shrinks
  <2> DEFINE D == w.rest[C]
  <2>2. D \subseteq A /\ D # A /\ D \in SUBSET A /\ D \in SUBSET D
    BY <2>1
  <2>3. g[D] = IF D \in w.ends THEN w.base[D] ELSE Joined(w, D, H(w.rest[D])[w.rest[D]])
    BY <2>2
  <2> HIDE DEF D
  <2>4. Descends(w, D, H(D))
    BY <1>3, <2>2
  <2>5. H(D)[D] = IF D \in w.ends THEN w.base[D] ELSE Joined(w, D, H(D)[w.rest[D]])
    BY <2>2, <2>4 DEF Descends
  <2>6. CASE D \in w.ends
    BY <2>3, <2>5, <2>6 DEF D
  <2>7. CASE D \notin w.ends
    <3>1. w.rest[D] \subseteq D /\ w.rest[D] # D
      BY <1>2, <2>2, <2>7 DEF Shrinks
    <3>2. w.rest[D] \subseteq A /\ w.rest[D] # A
      BY <2>2, <3>1
    <3>3. Descends(w, w.rest[D], H(w.rest[D]))
      BY <1>3, <3>2
    <3>4. H(D)[w.rest[D]] = H(w.rest[D])[w.rest[D]]
      <4> DEFINE E == w.rest[D]
      <4>1. IsFiniteSet(D) /\ Shrinks(w, D) /\ E \subseteq D /\ E \subseteq E
        BY <1>4, <2>2, <3>1
      <4>2. Descends(w, D, H(D)) /\ Descends(w, E, H(E))
        BY <2>4, <3>3
      <4> HIDE DEF E
      <4>3. PICK u : u = H(D)
        OBVIOUS
      <4>4. PICK v : v = H(E)
        OBVIOUS
      <4>5. Descends(w, D, u) /\ Descends(w, E, v)
        BY <4>2, <4>3, <4>4
      <4>6. u[E] = v[E]
        BY <4>1, <4>5, DescentsAgree
      <4> QED BY <4>3, <4>4, <4>6 DEF E
    <3> QED BY <2>3, <2>5, <2>7, <3>4 DEF D
  <2> QED BY <2>6, <2>7
<1>6. \A C \in SUBSET A :
          g[C] = IF C \in w.ends THEN w.base[C] ELSE Joined(w, C, H(w.rest[C])[w.rest[C]])
  OBVIOUS
<1>7. g = [C \in SUBSET A |-> g[C]]
  OBVIOUS
<1> HIDE DEF g
<1>8. \A C \in SUBSET A :
          g[C] = IF C \in w.ends THEN w.base[C] ELSE Joined(w, C, g[w.rest[C]])
  BY <1>5, <1>6
<1>9. Descends(w, A, g)
  BY <1>7, <1>8 DEF Descends
<1> QED BY <1>2, <1>9

-----------------------------------------------------------------------------
(* The sum of the values of a function over a finite set.                  *)

AddsUp(f, S, h) ==
    h = [s \in SUBSET S |-> IF s = {} THEN Zero
                            ELSE f[CHOOSE x \in s : TRUE] ++ h[s \ {CHOOSE x \in s : TRUE}]]
OneByOne(f, S) ==
    [adds |-> 1, part |-> [s \in SUBSET S |-> f[CHOOSE x \in s : TRUE]],
     base |-> [s \in SUBSET S |-> Zero], ends |-> {{}},
     rest |-> [s \in SUBSET S |-> s \ {CHOOSE x \in s : TRUE}]]

\* Adding up one element at a time is such a descent.
LEMMA AddsDescend ==
  ASSUME NEW f, NEW S, NEW T, T \subseteq S, NEW h
  PROVE  AddsUp(f, T, h) <=> Descends(OneByOne(f, S), T, h)
<1> DEFINE w == OneByOne(f, S)
<1>1. \A s \in SUBSET T : /\ s \in w.ends <=> s = {}
                          /\ w.base[s] = Zero
                          /\ w.rest[s] = s \ {CHOOSE x \in s : TRUE}
                          /\ w.part[s] = f[CHOOSE x \in s : TRUE]
  BY DEF OneByOne
<1>2. w.adds = 1
  BY DEF OneByOne
<1> HIDE DEF w
<1>3. \A s \in SUBSET T :
        (IF s = {} THEN Zero ELSE f[CHOOSE x \in s : TRUE] ++ h[s \ {CHOOSE x \in s : TRUE}])
          = IF s \in w.ends THEN w.base[s] ELSE Joined(w, s, h[w.rest[s]])
  <2> TAKE s \in SUBSET T
  <2>1. PICK x : x = CHOOSE y \in s : TRUE
    OBVIOUS
  <2>2. CASE s = {}
    BY <1>1, <2>2
  <2>3. CASE s # {}
    <3>1. s \notin w.ends /\ w.rest[s] = s \ {x} /\ w.part[s] = f[x]
      BY <1>1, <2>1, <2>3
    <3>2. Joined(w, s, h[w.rest[s]]) = f[x] ++ h[s \ {x}]
      BY <1>2, <3>1 DEF Joined
    <3> QED BY <2>1, <2>3, <3>1, <3>2
  <2> QED BY <2>2, <2>3
<1>4. AddsUp(f, T, h) <=> Descends(w, T, h)
  BY <1>3 DEF AddsUp, Descends
<1> QED BY <1>4 DEF w

\* Adding up leaves fewer elements at each step.
LEMMA OneByOneShrinks ==
  ASSUME NEW f, NEW S
  PROVE  Shrinks(OneByOne(f, S), S)
<1> SUFFICES ASSUME NEW s \in SUBSET S, s # {}
             PROVE  s \ {CHOOSE x \in s : TRUE} \subseteq s /\ s \ {CHOOSE x \in s : TRUE} # s
  BY DEF Shrinks, OneByOne
<1>1. (CHOOSE x \in s : TRUE) \in s
  BY Zenon
<1> QED BY <1>1

\* Total adds up one element at a time.
LEMMA TotalAdds ==
  ASSUME NEW f, NEW S, IsFiniteSet(S)
  PROVE  \E h : AddsUp(f, S, h) /\ Total(f, S) = h[S]
<1>1. \E h : AddsUp(f, S, h)
  BY AddsDescend, OneByOneShrinks, DescentsExist
<1> DEFINE h == CHOOSE g : AddsUp(f, S, g)
<1>2. AddsUp(f, S, h)
  BY <1>1, Zenon
<1>3. Total(f, S) = h[S]
  BY DEF Total, MapThenFoldSet, AddsUp
<1> HIDE DEF h
<1> QED BY <1>2, <1>3

\* Total is the value of one element and the total of the others.
LEMMA TotalSteps ==
  ASSUME NEW f, NEW S, IsFiniteSet(S)
  PROVE  IF S = {} THEN Total(f, S) = Zero
         ELSE \E x \in S : Total(f, S) = f[x] ++ Total(f, S \ {x})
<1>1. PICK h : AddsUp(f, S, h) /\ Total(f, S) = h[S]
  BY TotalAdds
<1>2. h[S] = IF S = {} THEN Zero
             ELSE f[CHOOSE x \in S : TRUE] ++ h[S \ {CHOOSE x \in S : TRUE}]
  BY <1>1 DEF AddsUp
<1>3. CASE S = {}
  BY <1>1, <1>2, <1>3
<1>4. CASE S # {}
  <2>1. PICK x \in S : x = CHOOSE y \in S : TRUE
    BY <1>4, Zenon
  <2> DEFINE T == S \ {x}
  <2>2. T \subseteq S /\ IsFiniteSet(T)
    BY FS_Subset
  <2>3. h[S] = f[x] ++ h[T]
    BY <1>2, <1>4, <2>1
  <2> HIDE DEF T
  <2>4. PICK k : AddsUp(f, T, k) /\ Total(f, T) = k[T]
    BY <2>2, TotalAdds
  <2>5. PICK w : w = OneByOne(f, S)
    OBVIOUS
  <2>6. Descends(w, S, h) /\ Descends(w, T, k) /\ Shrinks(w, S)
    BY <1>1, <2>2, <2>4, <2>5, AddsDescend, OneByOneShrinks
  <2>7. h[T] = k[T]
    BY <2>2, <2>6, DescentsAgree
  <2> QED BY <1>1, <1>4, <2>3, <2>4, <2>7 DEF T
<1> QED BY <1>3, <1>4

\* Below, a function of fractions over a finite set.
Fractional(f, S) == \A x \in S : f[x] \in Fractions

\* A property of the empty set that one more element keeps is one of every
\* finite set: of the sets without it there is no smallest.
LEMMA TotalIn ==
  ASSUME NEW f, NEW S, IsFiniteSet(S), Fractional(f, S)
  PROVE  Total(f, S) \in Fractions
<1> DEFINE B == {A \in SUBSET S : Total(f, A) \notin Fractions}
<1> SUFFICES ASSUME B # {} PROVE FALSE
  OBVIOUS
<1>1. B \subseteq SUBSET S
  OBVIOUS
<1> HIDE DEF B
<1>2. PICK A \in B : \A C \in B : C \subseteq A => C = A
  BY <1>1, SmallestOf
<1>3. A \subseteq S /\ IsFiniteSet(A) /\ Total(f, A) \notin Fractions
  BY <1>2, FS_Subset DEF B
<1>4. A # {}
  <2>1. A = {} => Total(f, A) = Zero
    BY <1>3, TotalSteps
  <2> QED BY <1>3, <2>1, ZeroOne
<1>5. PICK x \in A : Total(f, A) = f[x] ++ Total(f, A \ {x})
  BY <1>3, <1>4, TotalSteps
<1>6. A \ {x} \notin B
  BY <1>2
<1>7. Total(f, A \ {x}) \in Fractions /\ f[x] \in Fractions
  BY <1>3, <1>6 DEF B, Fractional
<1> QED BY <1>3, <1>5, <1>7, Closed

\* Any element may be the one that is split off.
LEMMA TotalSplit ==
  ASSUME NEW f, NEW S, IsFiniteSet(S), Fractional(f, S), NEW x \in S
  PROVE  Total(f, S) = f[x] ++ Total(f, S \ {x})
<1> DEFINE B == {A \in SUBSET S : \E y \in A : Total(f, A) # f[y] ++ Total(f, A \ {y})}
<1> SUFFICES ASSUME B # {} PROVE FALSE
  OBVIOUS
<1>1. B \subseteq SUBSET S
  OBVIOUS
<1> HIDE DEF B
<1>2. PICK A \in B : \A C \in B : C \subseteq A => C = A
  BY <1>1, SmallestOf
<1>3. A \subseteq S /\ IsFiniteSet(A) /\ Fractional(f, A)
  BY <1>2, FS_Subset DEF B, Fractional
<1>4. PICK y \in A : Total(f, A) # f[y] ++ Total(f, A \ {y})
  BY <1>2 DEF B
<1>5. PICK z \in A : Total(f, A) = f[z] ++ Total(f, A \ {z})
  BY <1>3, <1>4, TotalSteps
<1>6. y # z
  BY <1>4, <1>5
<1> DEFINE D == (A \ {y}) \ {z}
<1>7. D = (A \ {z}) \ {y} /\ D \subseteq A
  OBVIOUS
<1>8. Total(f, A \ {z}) = f[y] ++ Total(f, D)
  <2>1. A \ {z} \notin B
    BY <1>2, <1>5
  <2>2. y \in A \ {z} /\ A \ {z} \in SUBSET S
    BY <1>3, <1>6
  <2> QED BY <1>7, <2>1, <2>2 DEF B
<1>9. Total(f, A \ {y}) = f[z] ++ Total(f, D)
  <2>1. A \ {y} \notin B
    BY <1>2, <1>4
  <2>2. z \in A \ {y} /\ A \ {y} \in SUBSET S
    BY <1>3, <1>6
  <2> QED BY <2>1, <2>2 DEF B
<1> HIDE DEF D
<1>10. PICK u \in Fractions : u = Total(f, D)
  <2>1. IsFiniteSet(D) /\ Fractional(f, D)
    BY <1>3, <1>7, FS_Subset DEF Fractional
  <2> QED BY <2>1, TotalIn
<1>11. f[y] \in Fractions /\ f[z] \in Fractions
  BY <1>3 DEF Fractional
<1>12. f[z] ++ (f[y] ++ u) = f[y] ++ (f[z] ++ u)
  <2>1. f[z] ++ (f[y] ++ u) = (f[z] ++ f[y]) ++ u
    BY <1>10, <1>11, SumsAgree
  <2>2. f[y] ++ (f[z] ++ u) = (f[y] ++ f[z]) ++ u
    BY <1>10, <1>11, SumsAgree
  <2>3. f[y] ++ f[z] = f[z] ++ f[y]
    BY <1>11, SumsAgree
  <2> QED BY <2>1, <2>2, <2>3
<1> QED BY <1>4, <1>5, <1>8, <1>9, <1>10, <1>12

\* Nothing adds up to Zero.
LEMMA TotalOfNone == \A f : Total(f, {}) = Zero
  BY TotalSteps, FS_EmptySet

\* A total depends on the values at the elements only.
LEMMA TotalSame ==
  ASSUME NEW f, NEW g, NEW S, IsFiniteSet(S), Fractional(f, S), \A x \in S : g[x] = f[x]
  PROVE  Total(g, S) = Total(f, S)
<1> DEFINE B == {A \in SUBSET S : Total(g, A) # Total(f, A)}
<1> SUFFICES ASSUME B # {} PROVE FALSE
  OBVIOUS
<1>1. B \subseteq SUBSET S
  OBVIOUS
<1> HIDE DEF B
<1>2. PICK A \in B : \A C \in B : C \subseteq A => C = A
  BY <1>1, SmallestOf
<1>3. /\ A \subseteq S /\ IsFiniteSet(A) /\ Total(g, A) # Total(f, A)
      /\ Fractional(f, A) /\ Fractional(g, A)
  BY <1>2, FS_Subset DEF B, Fractional
<1>4. PICK x \in A : TRUE
  BY <1>3, TotalOfNone
<1>5. Total(f, A \ {x}) = Total(g, A \ {x})
  BY <1>2, <1>3, <1>4 DEF B
<1>6. Total(f, A) = f[x] ++ Total(f, A \ {x}) /\ Total(g, A) = g[x] ++ Total(g, A \ {x})
  BY <1>3, <1>4, TotalSplit
<1> QED BY <1>3, <1>4, <1>5, <1>6

\* A total is that of a part and that of the rest.
LEMMA TotalJoins ==
  ASSUME NEW f, NEW S, IsFiniteSet(S), Fractional(f, S), NEW T, T \subseteq S
  PROVE  Total(f, S) = Total(f, T) ++ Total(f, S \ T)
<1> DEFINE B == {A \in SUBSET T : Total(f, A \cup (S \ T)) # Total(f, A) ++ Total(f, S \ T)}
<1> SUFFICES ASSUME B # {} PROVE FALSE
  <2>1. T \notin B => Total(f, T \cup (S \ T)) = Total(f, T) ++ Total(f, S \ T)
    OBVIOUS
  <2>2. T \cup (S \ T) = S
    OBVIOUS
  <2> QED BY <2>1, <2>2
<1>1. B \subseteq SUBSET T /\ IsFiniteSet(T)
  BY FS_Subset
<1> HIDE DEF B
<1>2. PICK A \in B : \A C \in B : C \subseteq A => C = A
  BY <1>1, SmallestOf
<1> DEFINE D == S \ T
<1>3. /\ A \subseteq T /\ A \subseteq S /\ D \subseteq S /\ A \cup D \subseteq S
      /\ Total(f, A \cup D) # Total(f, A) ++ Total(f, D)
  BY <1>2 DEF B
<1>4. /\ IsFiniteSet(A) /\ IsFiniteSet(D) /\ IsFiniteSet(A \cup D)
      /\ Fractional(f, A) /\ Fractional(f, D) /\ Fractional(f, A \cup D)
  BY <1>3, FS_Subset DEF Fractional
<1>5. Total(f, D) \in Fractions
  BY <1>4, TotalIn
<1>6. PICK x \in A : TRUE
  <2>1. A = {} => A \cup D = D /\ Total(f, A) = Zero
    BY TotalOfNone
  <2> QED BY <1>3, <1>5, <2>1, SumsAgree
<1> DEFINE E == A \ {x}
<1>7. (A \cup D) \ {x} = E \cup D /\ IsFiniteSet(E) /\ Fractional(f, E)
  BY <1>3, <1>4, <1>6, FS_Subset DEF Fractional
<1>8. Total(f, E \cup D) = Total(f, E) ++ Total(f, D)
  <2>1. E \notin B
    BY <1>2, <1>6
  <2>2. E \in SUBSET T
    BY <1>3
  <2> HIDE DEF E
  <2> QED BY <2>1, <2>2 DEF B
<1>9. Total(f, A \cup D) = f[x] ++ Total(f, E \cup D) /\ Total(f, A) = f[x] ++ Total(f, E)
  <2>1. Total(f, A \cup D) = f[x] ++ Total(f, (A \cup D) \ {x})
    BY <1>4, <1>6, TotalSplit
  <2>2. Total(f, A) = f[x] ++ Total(f, E)
    BY <1>4, <1>6, TotalSplit
  <2> QED BY <1>7, <2>1, <2>2
<1> HIDE DEF D, E
<1>10. Total(f, E) \in Fractions /\ f[x] \in Fractions
  BY <1>4, <1>6, <1>7, TotalIn DEF Fractional
<1> QED BY <1>3, <1>5, <1>8, <1>9, <1>10, SumsAgree

\* Greater values have a greater total.
LEMMA TotalOrdered ==
  ASSUME NEW f, NEW g, NEW S, IsFiniteSet(S), Fractional(f, S), Fractional(g, S),
         \A x \in S : AtMost(f[x], g[x])
  PROVE  AtMost(Total(f, S), Total(g, S))
<1> DEFINE B == {A \in SUBSET S : ~AtMost(Total(f, A), Total(g, A))}
<1> SUFFICES ASSUME B # {} PROVE FALSE
  OBVIOUS
<1>1. B \subseteq SUBSET S
  OBVIOUS
<1> HIDE DEF B
<1>2. PICK A \in B : \A C \in B : C \subseteq A => C = A
  BY <1>1, SmallestOf
<1>3. /\ A \subseteq S /\ IsFiniteSet(A) /\ ~AtMost(Total(f, A), Total(g, A))
      /\ Fractional(f, A) /\ Fractional(g, A)
  BY <1>2, FS_Subset DEF B, Fractional
<1>4. PICK x \in A : TRUE
  <2>1. A = {} => Total(f, A) = Zero /\ Total(g, A) = Zero
    BY TotalOfNone
  <2> QED BY <1>3, <2>1, ZeroOne, Ordering
<1> DEFINE E == A \ {x}
<1>5. AtMost(Total(f, E), Total(g, E)) /\ IsFiniteSet(E) /\ Fractional(f, E) /\ Fractional(g, E)
  BY <1>2, <1>3, <1>4, FS_Subset DEF B, Fractional
<1>6. Total(f, A) = f[x] ++ Total(f, E) /\ Total(g, A) = g[x] ++ Total(g, E)
  BY <1>3, <1>4, TotalSplit
<1> HIDE DEF E
<1>7. Total(f, E) \in Fractions /\ Total(g, E) \in Fractions
  BY <1>5, TotalIn
<1>8. f[x] \in Fractions /\ g[x] \in Fractions /\ AtMost(f[x], g[x])
  BY <1>3, <1>4 DEF Fractional
<1>9. AtMost(f[x] ++ Total(f, E), g[x] ++ Total(g, E))
  BY <1>5, <1>7, <1>8, SumsOrdered
<1> QED BY <1>3, <1>6, <1>9

\* Positive values have a positive total.
LEMMA TotalPositive ==
  ASSUME NEW f, NEW S, IsFiniteSet(S), Fractional(f, S), S # {},
         \A x \in S : Less(Zero, f[x])
  PROVE  Less(Zero, Total(f, S))
<1> DEFINE B == {A \in SUBSET S : A # {} /\ ~Less(Zero, Total(f, A))}
<1> SUFFICES ASSUME B # {} PROVE FALSE
  OBVIOUS
<1>1. B \subseteq SUBSET S
  OBVIOUS
<1> HIDE DEF B
<1>2. PICK A \in B : \A C \in B : C \subseteq A => C = A
  BY <1>1, SmallestOf
<1>3. /\ A \subseteq S /\ IsFiniteSet(A) /\ A # {} /\ ~Less(Zero, Total(f, A))
      /\ Fractional(f, A)
  BY <1>2, FS_Subset DEF B, Fractional
<1>4. PICK x \in A : TRUE
  BY <1>3
<1>5. Total(f, A) = f[x] ++ Total(f, A \ {x})
  BY <1>3, <1>4, TotalSplit
<1>6. f[x] \in Fractions /\ Less(Zero, f[x])
  BY <1>3, <1>4 DEF Fractional
<1>7. CASE A \ {x} = {}
  <2>1. Total(f, A) = f[x]
    BY <1>5, <1>6, <1>7, TotalOfNone, SumsAgree
  <2> QED BY <1>3, <1>6, <2>1
<1>8. CASE A \ {x} # {}
  <2>1. A \ {x} \notin B /\ A \ {x} \in SUBSET S
    BY <1>2, <1>3, <1>4
  <2>2. Less(Zero, Total(f, A \ {x}))
    BY <1>8, <2>1 DEF B
  <2>3. Total(f, A \ {x}) \in Fractions
    <3>1. IsFiniteSet(A \ {x}) /\ Fractional(f, A \ {x})
      BY <1>3, FS_Subset DEF Fractional
    <3> QED BY <3>1, TotalIn
  <2> QED BY <1>3, <1>5, <1>6, <2>2, <2>3, OrderScales
<1> QED BY <1>7, <1>8

\* A common factor and a common divisor can be taken out of a total.
LEMMA TotalScaled ==
  ASSUME NEW f, NEW g, NEW S, IsFiniteSet(S), Fractional(f, S),
         NEW c \in Fractions, NEW d \in Fractions, Less(Zero, d),
         \A x \in S : g[x] = (c ** f[x]) // d
  PROVE  Fractional(g, S) /\ Total(g, S) = (c ** Total(f, S)) // d
<1>0. Fractional(g, S)
  BY Closed DEF Fractional
<1> DEFINE B == {A \in SUBSET S : Total(g, A) # (c ** Total(f, A)) // d}
<1> SUFFICES ASSUME B # {} PROVE FALSE
  BY <1>0
<1>1. B \subseteq SUBSET S
  OBVIOUS
<1> HIDE DEF B
<1>2. PICK A \in B : \A C \in B : C \subseteq A => C = A
  BY <1>1, SmallestOf
<1>3. /\ A \subseteq S /\ IsFiniteSet(A) /\ Total(g, A) # (c ** Total(f, A)) // d
      /\ Fractional(f, A) /\ Fractional(g, A)
  BY <1>0, <1>2, FS_Subset DEF B, Fractional
<1>4. PICK x \in A : TRUE
  <2>1. A = {} => Total(f, A) = Zero /\ Total(g, A) = Zero
    BY TotalOfNone
  <2>2. (c ** Zero) // d = Zero
    BY ProductsAgree, Quotients
  <2> QED BY <1>3, <2>1, <2>2
<1> DEFINE E == A \ {x}
<1>5. Total(g, E) = (c ** Total(f, E)) // d
  <2>1. E \notin B /\ E \in SUBSET S
    BY <1>2, <1>3, <1>4
  <2> HIDE DEF E
  <2> QED BY <2>1 DEF B
<1>6. Total(f, A) = f[x] ++ Total(f, E) /\ Total(g, A) = g[x] ++ Total(g, E)
  BY <1>3, <1>4, TotalSplit
<1>7. IsFiniteSet(E) /\ Fractional(f, E)
  BY <1>3, FS_Subset DEF Fractional
<1> HIDE DEF E
<1>8. PICK t \in Fractions : t = Total(f, E)
  BY <1>7, TotalIn
<1>9. PICK y \in Fractions : y = f[x]
  BY <1>3, <1>4 DEF Fractional
<1>10. g[x] = (c ** y) // d
  BY <1>3, <1>4, <1>9
<1>11. c ** y \in Fractions /\ c ** t \in Fractions
  BY Closed
<1>12. (c ** (y ++ t)) // d = ((c ** y) // d) ++ ((c ** t) // d)
  <2>1. c ** (y ++ t) = (c ** y) ++ (c ** t)
    BY ProductsAgree
  <2> QED BY <1>11, <2>1, Quotients
<1> QED BY <1>3, <1>5, <1>6, <1>8, <1>9, <1>10, <1>12

\* A function worked out once is the same function.
LEMMA TableOf == \A f : Table(f) = f
  BY Zenon DEF Table

-----------------------------------------------------------------------------
(* The shares of the groups.  A budget is legal when it has finitely many   *)
(* groups, and the budgets and the caps of them are positive.               *)

Sound(b) == /\ IsFiniteSet(DOMAIN b)
            /\ \A g \in DOMAIN b : /\ b[g] \in Fractions /\ Less(Zero, b[g])
                                   /\ Most(g) \in Fractions /\ Less(Zero, Most(g))
Left(b, R) == One -- Total(Mosts(b), DOMAIN b \ R)

\* What the caps of the groups of a budget are.
LEMMA MostsOf ==
  ASSUME NEW b
  PROVE  DOMAIN Mosts(b) = DOMAIN b /\ \A g \in DOMAIN b : Mosts(b)[g] = Most(g)
<1>1. Mosts(b) = [g \in DOMAIN b |-> Most(g)]
  BY TableOf DEF Mosts
<1> QED BY <1>1

\* What a round proposes to the groups that remain.
LEMMA ProposedOf ==
  ASSUME NEW b, NEW R
  PROVE  /\ DOMAIN Proposed(b, R) = R
         /\ \A g \in R : Proposed(b, R)[g] = (Left(b, R) ** b[g]) // Total(b, R)
         /\ Proposed(b, R) = [g \in R |-> (Left(b, R) ** b[g]) // Total(b, R)]
<1>1. Proposed(b, R) = [g \in R |-> (Left(b, R) ** b[g]) // Total(b, R)]
  BY TableOf DEF Proposed, Left
<1> QED BY <1>1

\* What is known of a part of the groups before it is divided.
LEMMA PartOf ==
  ASSUME NEW b, Sound(b), NEW R, R \subseteq DOMAIN b
  PROVE  /\ IsFiniteSet(R) /\ IsFiniteSet(DOMAIN b \ R)
         /\ Fractional(b, R) /\ Fractional(Mosts(b), R) /\ Fractional(Mosts(b), DOMAIN b \ R)
         /\ Total(b, R) \in Fractions /\ Total(Mosts(b), R) \in Fractions
         /\ Total(Mosts(b), DOMAIN b \ R) \in Fractions
         /\ Left(b, R) \in Fractions
         /\ R # {} => Less(Zero, Total(b, R))
<1>1. /\ IsFiniteSet(R) /\ IsFiniteSet(DOMAIN b \ R)
      /\ Fractional(b, R) /\ Fractional(Mosts(b), R) /\ Fractional(Mosts(b), DOMAIN b \ R)
  BY FS_Subset, MostsOf DEF Sound, Fractional
<1>2. /\ Total(b, R) \in Fractions /\ Total(Mosts(b), R) \in Fractions
      /\ Total(Mosts(b), DOMAIN b \ R) \in Fractions
  BY <1>1, TotalIn
<1>3. Left(b, R) \in Fractions
  BY <1>2, ZeroOne, Closed DEF Left
<1>4. R # {} => Less(Zero, Total(b, R))
  <2>1. \A g \in R : Less(Zero, b[g])
    BY DEF Sound
  <2> QED BY <1>1, <2>1, TotalPositive
<1> QED BY <1>1, <1>2, <1>3, <1>4

\* The proposed shares divide all that is left.
LEMMA ProposedSum ==
  ASSUME NEW b, Sound(b), NEW R, R \subseteq DOMAIN b, R # {}
  PROVE  /\ Fractional(Proposed(b, R), R)
         /\ Total(Proposed(b, R), R) = Left(b, R)
         /\ \A S : S \subseteq R =>
              Total(Proposed(b, R), S) = (Left(b, R) ** Total(b, S)) // Total(b, R)
<1>1. PICK p : p = Proposed(b, R)
  OBVIOUS
<1>2. PICK l \in Fractions : l = Left(b, R)
  BY PartOf
<1>3. PICK a \in Fractions : a = Total(b, R) /\ Less(Zero, a)
  BY PartOf
<1>4. \A g \in R : p[g] = (l ** b[g]) // a
  BY <1>1, <1>2, <1>3, ProposedOf
<1>5. Fractional(p, R)
  <2>1. IsFiniteSet(R) /\ Fractional(b, R)
    BY PartOf
  <2> QED BY <1>3, <1>4, <2>1, TotalScaled
<1>6. ASSUME NEW S, S \subseteq R
      PROVE  Total(p, S) = (l ** Total(b, S)) // a
  <2>0. Less(Zero, a)
    BY <1>3
  <2>1. S \subseteq DOMAIN b
    BY <1>6
  <2>2. IsFiniteSet(S) /\ Fractional(b, S)
    BY <2>1, PartOf
  <2>3. \A g \in S : p[g] = (l ** b[g]) // a
    BY <1>4, <1>6
  <2>4. Fractional(p, S) /\ Total(p, S) = (l ** Total(b, S)) // a
    BY <2>0, <2>2, <2>3, TotalScaled
  <2> QED BY <2>4
<1>7. Total(p, R) = l
  <2>1. Total(p, R) = (l ** a) // a
    BY <1>3, <1>6
  <2> QED BY <1>3, <2>1, Quotients
<1> QED BY <1>1, <1>2, <1>3, <1>5, <1>6, <1>7

\* What is left for a part, when the groups T of it get their caps.
LEMMA LeftAfter ==
  ASSUME NEW b, Sound(b), NEW R, R \subseteq DOMAIN b, NEW T, T \subseteq R
  PROVE  Left(b, R) = Total(Mosts(b), T) ++ Left(b, R \ T)
<1> DEFINE M == Mosts(b)  O == DOMAIN b \ R  P == DOMAIN b \ (R \ T)
<1>1. P = O \cup T /\ P \ T = O /\ T \subseteq P /\ P \subseteq DOMAIN b
  OBVIOUS
<1>2. IsFiniteSet(P) /\ Fractional(M, P)
  BY PartOf
<1>3. Total(M, P) = Total(M, T) ++ Total(M, O)
  <2>1. Total(M, P) = Total(M, T) ++ Total(M, P \ T)
    BY <1>1, <1>2, TotalJoins
  <2> QED BY <1>1, <2>1
<1>4. PICK t \in Fractions : t = Total(M, T)
  <2>1. T \subseteq DOMAIN b
    OBVIOUS
  <2> QED BY <2>1, PartOf
<1>5. PICK o \in Fractions : o = Total(M, O)
  BY PartOf
<1>6. PICK p \in Fractions : p = Total(M, P)
  <2>1. R \ T \subseteq DOMAIN b
    OBVIOUS
  <2> QED BY <2>1, PartOf
<1>7. p = t ++ o
  BY <1>3, <1>4, <1>5, <1>6
<1>8. One -- o = t ++ (One -- p)
  <2>1. PICK c \in Fractions : c = One -- p
    BY ZeroOne, Closed
  <2>2. c ++ p = One
    BY <2>1, ZeroOne, SumsAgree
  <2>3. (t ++ c) ++ o = One
    <3>1. c ++ (t ++ o) = (c ++ t) ++ o
      BY <2>1, SumsAgree
    <3>2. c ++ t = t ++ c
      BY <2>1, SumsAgree
    <3> QED BY <1>7, <2>2, <3>1, <3>2
  <2>4. t ++ c \in Fractions
    BY <2>1, Closed
  <2>5. ((t ++ c) ++ o) -- o = t ++ c
    BY <2>4, SumsAgree
  <2> QED BY <2>1, <2>3, <2>5
<1> QED BY <1>4, <1>5, <1>6, <1>8 DEF Left

\* The order of two factors does not matter.
LEMMA ProductsSwap ==
  ASSUME NEW a \in Fractions, NEW b \in Fractions, NEW c \in Fractions
  PROVE  (a ** b) ** c = (a ** c) ** b
<1>1. (a ** b) ** c = a ** (b ** c) /\ (a ** c) ** b = a ** (c ** b)
  BY ProductsAgree
<1>2. b ** c = c ** b
  BY ProductsAgree
<1> QED BY <1>1, <1>2

\* A positive factor can be cancelled from both sides.
LEMMA ProductCancels ==
  ASSUME NEW a \in Fractions, NEW b \in Fractions, NEW c \in Fractions, Less(Zero, c),
         AtMost(a ** c, b ** c)
  PROVE  AtMost(a, b)
<1>1. a ** c \in Fractions
  BY Closed
<1>2. (a ** c) // c = a
  BY Quotients
<1>3. AtMost((a ** c) // c, b)
  <2>1. AtMost((a ** c) // c, b) <=> AtMost(a ** c, b ** c)
    BY <1>1, QuotientsOrdered
  <2> QED BY <2>1
<1> QED BY <1>2, <1>3

\* Where the groups outside a part have their caps, the part has at least what is left.
LEMMA EnoughLeft ==
  ASSUME NEW b, Sound(b), ~Less(Total(Mosts(b), DOMAIN b), One), NEW R, R \subseteq DOMAIN b
  PROVE  AtMost(Left(b, R), Total(Mosts(b), R))
<1>1. PICK u \in Fractions : u = Total(Mosts(b), R)
  BY PartOf
<1>2. PICK v \in Fractions : v = Total(Mosts(b), DOMAIN b \ R)
  BY PartOf
<1>3. IsFiniteSet(DOMAIN b) /\ Fractional(Mosts(b), DOMAIN b)
  BY PartOf
<1>4. Total(Mosts(b), DOMAIN b) = u ++ v
  BY <1>1, <1>2, <1>3, TotalJoins
<1>5. AtMost(One, u ++ v)
  <2>1. u ++ v \in Fractions
    BY Closed
  <2> QED BY <1>4, <2>1, ZeroOne, Ordering
<1>6. PICK l \in Fractions : l = One -- v
  BY ZeroOne, Closed
<1>7. l ++ v = One
  BY <1>6, ZeroOne, SumsAgree
<1>8. AtMost(l ++ v, u ++ v)
  BY <1>5, <1>7
<1>9. AtMost(l, u)
  BY <1>8, OrderAdds
<1> QED BY <1>1, <1>2, <1>6, <1>9 DEF Left

\* So not every group of a part is over its cap.
LEMMA SomeStay ==
  ASSUME NEW b, Sound(b), ~Less(Total(Mosts(b), DOMAIN b), One),
         NEW R, R \subseteq DOMAIN b, R # {}
  PROVE  Over(Proposed(b, R)) # R
<1> SUFFICES ASSUME Over(Proposed(b, R)) = R PROVE FALSE
  OBVIOUS
<1>1. PICK p : p = Proposed(b, R)
  OBVIOUS
<1>2. PICK M : M = Mosts(b)
  OBVIOUS
<1>3. IsFiniteSet(R) /\ Fractional(p, R) /\ Fractional(M, R)
  BY <1>1, <1>2, PartOf, ProposedSum
<1>4. \A g \in R : Less(M[g], p[g])
  BY <1>1, <1>2, ProposedOf, MostsOf DEF Over
<1>5. PICK x \in R : TRUE
  OBVIOUS
<1>6. IsFiniteSet(R \ {x}) /\ Fractional(p, R \ {x}) /\ Fractional(M, R \ {x})
  BY <1>3, FS_Subset DEF Fractional
<1>7. AtMost(Total(M, R \ {x}), Total(p, R \ {x}))
  <2>1. \A g \in R \ {x} : AtMost(M[g], p[g])
    BY <1>3, <1>4, Ordering DEF Fractional
  <2> QED BY <1>6, <2>1, TotalOrdered
<1>8. Less(M[x] ++ Total(M, R \ {x}), p[x] ++ Total(p, R \ {x}))
  <2>1. Total(M, R \ {x}) \in Fractions /\ Total(p, R \ {x}) \in Fractions
    BY <1>6, TotalIn
  <2>2. M[x] \in Fractions /\ p[x] \in Fractions /\ Less(M[x], p[x])
    BY <1>3, <1>4 DEF Fractional
  <2> QED BY <1>7, <2>1, <2>2, SumsOrdered
<1>9. Less(Total(M, R), Total(p, R))
  <2>1. Total(M, R) = M[x] ++ Total(M, R \ {x})
    BY <1>3, TotalSplit
  <2>2. Total(p, R) = p[x] ++ Total(p, R \ {x})
    BY <1>3, TotalSplit
  <2> QED BY <1>8, <2>1, <2>2
<1>10. AtMost(Total(p, R), Total(M, R))
  BY <1>1, <1>2, EnoughLeft, ProposedSum
<1> QED BY <1>3, <1>9, <1>10, TotalIn, Ordering

\* What the groups that stay get for a point of their budget never shrinks.
LEMMA RateGrows ==
  ASSUME NEW b, Sound(b), NEW R, R \subseteq DOMAIN b, R # {}, NEW T, T = Over(Proposed(b, R))
  PROVE  AtMost(Left(b, R) ** Total(b, R \ T), Left(b, R \ T) ** Total(b, R))
<1>1. T \subseteq R /\ T \subseteq DOMAIN b /\ R \ T \subseteq DOMAIN b
  BY ProposedOf DEF Over
<1>2. PICK l \in Fractions : l = Left(b, R)
  BY PartOf
<1>3. PICK k \in Fractions : k = Left(b, R \ T)
  BY <1>1, PartOf
<1>4. PICK a \in Fractions : a = Total(b, R)
  BY PartOf
<1>5. PICK c \in Fractions : c = Total(b, R \ T)
  BY <1>1, PartOf
<1>6. PICK d \in Fractions : d = Total(b, T)
  BY <1>1, PartOf
<1>7. PICK m \in Fractions : m = Total(Mosts(b), T)
  BY <1>1, PartOf
<1>8. l = m ++ k
  BY <1>1, <1>2, <1>3, <1>7, LeftAfter
<1>9. a = d ++ c
  <2>1. IsFiniteSet(R) /\ Fractional(b, R)
    BY PartOf
  <2> QED BY <1>1, <1>4, <1>5, <1>6, <2>1, TotalJoins
<1>10. Less(Zero, a)
  BY <1>4, PartOf
<1>11. AtMost(m ** a, l ** d)
  <2>1. PICK p : p = Proposed(b, R)
    OBVIOUS
  <2>2. Fractional(p, T) /\ Fractional(Mosts(b), T) /\ IsFiniteSet(T)
    BY <1>1, <2>1, ProposedSum, PartOf DEF Fractional
  <2>3. \A g \in T : AtMost(Mosts(b)[g], p[g])
    <3> TAKE g \in T
    <3>1. Less(Most(g), p[g])
      BY <2>1 DEF Over
    <3>2. Mosts(b)[g] = Most(g)
      BY <1>1, MostsOf
    <3> QED BY <2>2, <3>1, <3>2, Ordering DEF Fractional
  <2>4. AtMost(m, Total(p, T))
    BY <1>7, <2>2, <2>3, TotalOrdered
  <2>5. Total(p, T) = (l ** d) // a
    BY <1>1, <1>2, <1>4, <1>6, <2>1, ProposedSum
  <2>6. PICK q \in Fractions : q = l ** d
    BY Closed
  <2>7. AtMost(m, q // a)
    BY <2>4, <2>5, <2>6
  <2>8. AtMost(m, q // a) <=> AtMost(m ** a, q)
    BY <1>10, QuotientsOrdered
  <2> QED BY <2>6, <2>7, <2>8
<1>12. l ** a = (l ** c) ++ (l ** d) /\ l ** a = (k ** a) ++ (m ** a)
  <2>1. l ** (d ++ c) = (l ** d) ++ (l ** c)
    BY ProductsAgree
  <2>2. a ** (m ++ k) = (a ** m) ++ (a ** k)
    BY ProductsAgree
  <2>3. a ** l = l ** a /\ a ** m = m ** a /\ a ** k = k ** a
    BY ProductsAgree
  <2>4. l ** d \in Fractions /\ l ** c \in Fractions /\ m ** a \in Fractions /\ k ** a \in Fractions
    BY Closed
  <2>5. (l ** d) ++ (l ** c) = (l ** c) ++ (l ** d) /\ (m ** a) ++ (k ** a) = (k ** a) ++ (m ** a)
    BY <2>4, SumsAgree
  <2> QED BY <1>8, <1>9, <2>1, <2>2, <2>3, <2>5
<1>13. AtMost(l ** c, k ** a)
  <2>1. l ** d \in Fractions /\ l ** c \in Fractions /\ m ** a \in Fractions /\ k ** a \in Fractions
    BY Closed
  <2>2. (l ** c) ++ (l ** d) = (k ** a) ++ (m ** a)
    BY <1>12
  <2> QED BY <1>11, <2>1, <2>2, OrderCancels
<1> QED BY <1>2, <1>3, <1>4, <1>5, <1>13

\* What the division of a part R of the groups gives: all that is left, nobody above
\* the cap, and an equal rate for those below it that the others do not exceed.
Fair(b, R, s) ==
    /\ DOMAIN s = R /\ Fractional(s, R)
    /\ Total(s, R) = Left(b, R)
    /\ \A g \in R : AtMost(s[g], Most(g))
    /\ \A h \in R : s[h] # Most(h) => AtMost(Left(b, R) ** b[h], s[h] ** Total(b, R))
    /\ \A g, h \in R : s[h] # Most(h) =>
          /\ AtMost(s[g] ** b[h], s[h] ** b[g])
          /\ s[g] # Most(g) => s[g] ** b[h] = s[h] ** b[g]

\* A round that proposes to no group more than its cap shares fairly what is left.
LEMMA FairEnd ==
  ASSUME NEW b, Sound(b), NEW R, R \subseteq DOMAIN b, R # {}, Over(Proposed(b, R)) = {}
  PROVE  Fair(b, R, Proposed(b, R))
<1>1. PICK p : p = Proposed(b, R)
  OBVIOUS
<1>2. PICK l \in Fractions : l = Left(b, R)
  BY PartOf
<1>3. PICK a \in Fractions : a = Total(b, R) /\ Less(Zero, a)
  BY PartOf
<1>4. DOMAIN p = R /\ Fractional(p, R) /\ Total(p, R) = l
  BY <1>1, <1>2, ProposedOf, ProposedSum
<1>5. \A g \in R : p[g] = (l ** b[g]) // a
  BY <1>1, <1>2, <1>3, ProposedOf
<1>6. \A g \in R : b[g] \in Fractions /\ l ** b[g] \in Fractions
  BY Closed DEF Sound
<1>7. \A g \in R : AtMost(p[g], Most(g))
  <2> TAKE g \in R
  <2>1. ~Less(Most(g), p[g])
    BY <1>1, <1>4 DEF Over
  <2>2. Most(g) \in Fractions /\ p[g] \in Fractions
    BY <1>4 DEF Sound, Fractional
  <2> QED BY <2>1, <2>2, Ordering
<1>8. ASSUME NEW g \in R, NEW h \in R PROVE p[g] ** b[h] = p[h] ** b[g]
  <2>1. p[g] ** b[h] = ((l ** b[g]) ** b[h]) // a /\ p[h] ** b[g] = ((l ** b[h]) ** b[g]) // a
    BY <1>3, <1>5, <1>6, Quotients
  <2>2. (l ** b[g]) ** b[h] = l ** (b[g] ** b[h]) /\ (l ** b[h]) ** b[g] = l ** (b[h] ** b[g])
    BY <1>6, ProductsAgree
  <2>3. b[g] ** b[h] = b[h] ** b[g]
    BY <1>6, ProductsAgree
  <2> QED BY <2>1, <2>2, <2>3
<1>9. ASSUME NEW h \in R PROVE l ** b[h] = p[h] ** a
  <2>1. p[h] ** a = ((l ** b[h]) ** a) // a
    BY <1>3, <1>5, <1>6, Quotients
  <2> QED BY <1>3, <1>6, <2>1, Quotients
<1>10. \A g, h \in R : p[g] ** b[h] \in Fractions /\ l ** b[h] \in Fractions
  BY <1>4, <1>6, Closed DEF Fractional
<1>11. \A g, h \in R : AtMost(p[g] ** b[h], p[h] ** b[g]) /\ AtMost(l ** b[h], p[h] ** a)
  BY <1>8, <1>9, <1>10, Ordering
<1> QED BY <1>1, <1>2, <1>3, <1>4, <1>7, <1>8, <1>11 DEF Fair

\* When what is left after a round is shared fairly, so is what the round had: the groups at
\* their caps would get no less at the rate of the others, which only grows.
LEMMA FairStep ==
  ASSUME NEW b, Sound(b), NEW R, R \subseteq DOMAIN b, NEW T, T = Over(Proposed(b, R)), T # R,
         NEW d, Fair(b, R \ T, d), NEW s, s = [g \in T |-> Most(g)] \oplus d
  PROVE  Fair(b, R, s)
<1> DEFINE U == R \ T
<1>1. /\ T \subseteq R /\ U \subseteq R /\ U # {} /\ R # {} /\ U \subseteq DOMAIN b
      /\ T \subseteq DOMAIN b /\ R \ T = U
  BY ProposedOf DEF Over
<1>2. /\ DOMAIN d = U /\ Fractional(d, U)
      /\ Total(d, U) = Left(b, U)
      /\ \A g \in U : AtMost(d[g], Most(g))
      /\ \A h \in U : d[h] # Most(h) => AtMost(Left(b, U) ** b[h], d[h] ** Total(b, U))
      /\ \A g, h \in U : d[h] # Most(h) =>
            /\ AtMost(d[g] ** b[h], d[h] ** b[g])
            /\ d[g] # Most(g) => d[g] ** b[h] = d[h] ** b[g]
  BY DEF Fair
<1> HIDE DEF U
<1>3. DOMAIN s = R /\ (\A g \in T : s[g] = Most(g)) /\ \A g \in U : s[g] = d[g]
  <2>1. DOMAIN [g \in T |-> Most(g)] = T
    OBVIOUS
  <2>2. T \cup U = R /\ \A g \in U : g \notin T
    BY <1>1
  <2>3. s = [g \in T \cup U |-> IF g \in T THEN [x \in T |-> Most(x)][g] ELSE d[g]]
    BY <1>2, <2>1 DEF \oplus
  <2> QED BY <2>2, <2>3
<1>4. \A g \in R : /\ b[g] \in Fractions /\ Less(Zero, b[g]) /\ AtMost(Zero, b[g])
                   /\ Most(g) \in Fractions
  BY ZeroOne, Ordering DEF Sound
<1>5. Fractional(s, R) /\ Fractional(s, T)
  <2>1. \A g \in T : s[g] \in Fractions
    BY <1>1, <1>3, <1>4
  <2>2. \A g \in U : s[g] \in Fractions
    BY <1>2, <1>3 DEF Fractional
  <2> QED BY <1>1, <2>1, <2>2 DEF Fractional
<1>6. Total(s, R) = Left(b, R)
  <2>1. IsFiniteSet(R) /\ IsFiniteSet(T) /\ IsFiniteSet(U)
    BY <1>1, PartOf
  <2>2. Total(s, R) = Total(s, T) ++ Total(s, U)
    BY <1>1, <1>5, <2>1, TotalJoins
  <2>3. Total(s, T) = Total(Mosts(b), T)
    <3>1. \A g \in T : s[g] = Mosts(b)[g]
      BY <1>1, <1>3, MostsOf
    <3>2. Fractional(Mosts(b), T)
      BY <1>1, PartOf
    <3> QED BY <2>1, <3>1, <3>2, TotalSame
  <2>4. Total(s, U) = Total(d, U)
    BY <1>2, <1>3, <2>1, TotalSame
  <2>5. Left(b, R) = Total(Mosts(b), T) ++ Left(b, R \ T)
    BY <1>1, LeftAfter
  <2> QED BY <1>1, <1>2, <2>2, <2>3, <2>4, <2>5
<1>7. \A g \in R : AtMost(s[g], Most(g))
  <2>1. \A g \in T : AtMost(s[g], Most(g))
    BY <1>1, <1>3, <1>4, Ordering
  <2>2. \A g \in U : AtMost(s[g], Most(g))
    BY <1>2, <1>3
  <2> QED BY <1>1, <2>1, <2>2
<1>8. PICK l \in Fractions : l = Left(b, R)
  BY PartOf
<1>9. PICK k \in Fractions : k = Left(b, U)
  BY <1>1, PartOf
<1>10. PICK a \in Fractions : a = Total(b, R)
  BY PartOf
<1>11. PICK c \in Fractions : c = Total(b, U)
  BY <1>1, PartOf
<1>12. Less(Zero, a) /\ Less(Zero, c) /\ AtMost(Zero, a) /\ AtMost(Zero, c)
  <2>1. Less(Zero, a) /\ Less(Zero, c)
    BY <1>1, <1>10, <1>11, PartOf
  <2> QED BY <2>1, ZeroOne, Ordering
<1>13. AtMost(l ** c, k ** a)
  BY <1>1, <1>8, <1>9, <1>10, <1>11, RateGrows
\* the rate of the whole part is not above that of one below its cap
<1>14. ASSUME NEW h \in R, s[h] # Most(h)
       PROVE  AtMost(l ** b[h], s[h] ** a)
  <2>1. h \in U /\ s[h] = d[h]
    BY <1>1, <1>3, <1>14
  <2>2. PICK x \in Fractions : x = b[h] /\ AtMost(Zero, x)
    BY <1>4
  <2>3. PICK y \in Fractions : y = s[h]
    BY <1>5 DEF Fractional
  <2>4. AtMost(k ** x, y ** c)
    BY <1>2, <1>9, <1>11, <1>14, <2>1, <2>2, <2>3
  <2>5. /\ l ** c \in Fractions /\ k ** a \in Fractions /\ k ** x \in Fractions
        /\ y ** c \in Fractions /\ l ** x \in Fractions /\ y ** a \in Fractions
    BY Closed
  <2>6. AtMost((l ** c) ** x, (k ** a) ** x)
    BY <1>13, <2>2, <2>5, OrderScales
  <2>7. AtMost((k ** x) ** a, (y ** c) ** a)
    BY <1>12, <2>4, <2>5, OrderScales
  <2>8. (k ** a) ** x = (k ** x) ** a
    BY ProductsSwap
  <2>9. (l ** c) ** x = (l ** x) ** c /\ (y ** c) ** a = (y ** a) ** c
    BY ProductsSwap
  <2>10. (l ** c) ** x \in Fractions /\ (k ** a) ** x \in Fractions /\ (y ** c) ** a \in Fractions
    BY <2>5, Closed
  <2>11. AtMost((l ** x) ** c, (y ** a) ** c)
    BY <2>6, <2>7, <2>8, <2>9, <2>10, Ordering
  <2>12. AtMost(l ** x, y ** a)
    BY <1>12, <2>5, <2>11, ProductCancels
  <2> QED BY <2>2, <2>3, <2>12
<1>15. ASSUME NEW g \in R, NEW h \in R, s[h] # Most(h)
       PROVE  /\ AtMost(s[g] ** b[h], s[h] ** b[g])
              /\ s[g] # Most(g) => s[g] ** b[h] = s[h] ** b[g]
  <2>1. h \in U /\ s[h] = d[h]
    BY <1>1, <1>3, <1>15
  <2>2. CASE g \in U
    BY <1>2, <1>3, <1>15, <2>1, <2>2
  <2>3. CASE g \in T
    <3>1. s[g] = Most(g)
      BY <1>3, <2>3
    <3>2. PICK x \in Fractions : x = b[h] /\ AtMost(Zero, x)
      BY <1>4
    <3>3. PICK z \in Fractions : z = b[g] /\ AtMost(Zero, z)
      BY <1>4
    <3>4. PICK y \in Fractions : y = s[h]
      BY <1>5 DEF Fractional
    <3>5. PICK m \in Fractions : m = Most(g)
      BY <1>4
    <3>6. AtMost(l ** x, y ** a)
      BY <1>14, <1>15, <3>2, <3>4
    <3>7. l ** z \in Fractions /\ l ** x \in Fractions /\ y ** a \in Fractions
          /\ m ** a \in Fractions /\ m ** x \in Fractions /\ y ** z \in Fractions
      BY Closed
    <3>8. AtMost(m ** a, l ** z)
      <4>1. Less(m, (l ** z) // a)
        <5>1. Proposed(b, R)[g] = (l ** z) // a
          BY <1>8, <1>10, <3>3, ProposedOf
        <5> QED BY <2>3, <3>5, <5>1 DEF Over
      <4>2. (l ** z) // a \in Fractions
        BY <1>12, <3>7, Closed
      <4>3. AtMost(m, (l ** z) // a)
        BY <4>1, <4>2, Ordering
      <4>4. AtMost(m, (l ** z) // a) <=> AtMost(m ** a, l ** z)
        BY <1>12, <3>7, QuotientsOrdered
      <4> QED BY <4>3, <4>4
    <3>9. AtMost((m ** a) ** x, (l ** z) ** x)
      BY <3>2, <3>7, <3>8, OrderScales
    <3>10. AtMost((l ** x) ** z, (y ** a) ** z)
      BY <3>3, <3>6, <3>7, OrderScales
    <3>11. (l ** z) ** x = (l ** x) ** z
      BY ProductsSwap
    <3>12. (m ** a) ** x = (m ** x) ** a /\ (y ** a) ** z = (y ** z) ** a
      BY ProductsSwap
    <3>13. (m ** a) ** x \in Fractions /\ (l ** z) ** x \in Fractions /\ (y ** a) ** z \in Fractions
      BY <3>7, Closed
    <3>14. AtMost((m ** x) ** a, (y ** z) ** a)
      BY <3>9, <3>10, <3>11, <3>12, <3>13, Ordering
    <3>15. AtMost(m ** x, y ** z)
      BY <1>12, <3>7, <3>14, ProductCancels
    <3> QED BY <3>1, <3>2, <3>3, <3>4, <3>5, <3>15
  <2> QED BY <1>1, <2>2, <2>3
<1> QED
  <2>1. \A h \in R : s[h] # Most(h) => AtMost(Left(b, R) ** b[h], s[h] ** Total(b, R))
    BY <1>8, <1>10, <1>14
  <2> QED BY <1>3, <1>5, <1>6, <1>7, <1>15, <2>1 DEF Fair

DividesSo(b, h) ==
    h = [R \in SUBSET DOMAIN b |->
            IF Over(Proposed(b, R)) = {} THEN Proposed(b, R)
            ELSE [g \in Over(Proposed(b, R)) |-> Most(g)]
                    \oplus h[R \ Over(Proposed(b, R))]]
Splitting(b) ==
    [adds |-> 0,
     part |-> [R \in SUBSET DOMAIN b |-> [g \in Over(Proposed(b, R)) |-> Most(g)]],
     base |-> [R \in SUBSET DOMAIN b |-> Proposed(b, R)],
     ends |-> {R \in SUBSET DOMAIN b : Over(Proposed(b, R)) = {}},
     rest |-> [R \in SUBSET DOMAIN b |-> R \ Over(Proposed(b, R))]]

\* The rounds of a division are a descent.
LEMMA SplittingDescends ==
  ASSUME NEW b, NEW h
  PROVE  DividesSo(b, h) <=> Descends(Splitting(b), DOMAIN b, h)
<1> DEFINE w == Splitting(b)
<1>1. \A R \in SUBSET DOMAIN b : /\ R \in w.ends <=> Over(Proposed(b, R)) = {}
                                 /\ w.base[R] = Proposed(b, R)
                                 /\ w.rest[R] = R \ Over(Proposed(b, R))
                                 /\ w.part[R] = [g \in Over(Proposed(b, R)) |-> Most(g)]
  BY DEF Splitting
<1>2. w.adds # 1
  BY DEF Splitting
<1> HIDE DEF w
<1>3. \A R \in SUBSET DOMAIN b :
        (IF Over(Proposed(b, R)) = {} THEN Proposed(b, R)
         ELSE [g \in Over(Proposed(b, R)) |-> Most(g)] \oplus h[R \ Over(Proposed(b, R))])
          = IF R \in w.ends THEN w.base[R] ELSE Joined(w, R, h[w.rest[R]])
  <2> TAKE R \in SUBSET DOMAIN b
  <2>1. PICK T : T = Over(Proposed(b, R))
    OBVIOUS
  <2>2. CASE T = {}
    BY <1>1, <2>1, <2>2
  <2>3. CASE T # {}
    <3>1. R \notin w.ends /\ w.rest[R] = R \ T /\ w.part[R] = [g \in T |-> Most(g)]
      BY <1>1, <2>1, <2>3
    <3>2. Joined(w, R, h[w.rest[R]]) = [g \in T |-> Most(g)] \oplus h[R \ T]
      BY <1>2, <3>1 DEF Joined
    <3> QED BY <2>1, <2>3, <3>1, <3>2
  <2> QED BY <2>2, <2>3
<1>4. DividesSo(b, h) <=> Descends(w, DOMAIN b, h)
  BY <1>3 DEF DividesSo, Descends
<1> QED BY <1>4 DEF w

\* A round that is not the last leaves fewer groups.
LEMMA SplittingShrinks ==
  ASSUME NEW b
  PROVE  Shrinks(Splitting(b), DOMAIN b)
<1> SUFFICES ASSUME NEW R \in SUBSET DOMAIN b, Over(Proposed(b, R)) # {}
             PROVE  /\ R \ Over(Proposed(b, R)) \subseteq R
                    /\ R \ Over(Proposed(b, R)) # R
  BY DEF Shrinks, Splitting
<1>1. Over(Proposed(b, R)) \subseteq R
  BY ProposedOf DEF Over
<1> QED BY <1>1

\* Shares are what the rounds give to all groups, or none when the caps are too small.
LEMMA SharesDescend ==
  ASSUME NEW b, IsFiniteSet(DOMAIN b)
  PROVE  \E h : DividesSo(b, h) /\ Shares(b) = IF Less(Total(Mosts(b), DOMAIN b), One) THEN << >>
                                               ELSE h[DOMAIN b]
<1>1. \E h : DividesSo(b, h)
  BY SplittingDescends, SplittingShrinks, DescentsExist
<1> DEFINE h == CHOOSE k : DividesSo(b, k)
<1>2. DividesSo(b, h)
  BY <1>1, Zenon
<1>3. Shares(b) = IF Less(Total(Mosts(b), DOMAIN b), One) THEN << >> ELSE h[DOMAIN b]
  BY TableOf DEF Shares, DividesSo
<1> HIDE DEF h
<1> QED BY <1>2, <1>3

\* A factor is positive when its product with a positive one is.
LEMMA PositiveFactor ==
  ASSUME NEW a \in Fractions, NEW t \in Fractions, Less(Zero, t),
         NEW c \in Fractions, Less(Zero, c), AtMost(c, a ** t)
  PROVE  Less(Zero, a)
<1> SUFFICES ASSUME AtMost(a, Zero) PROVE FALSE
  BY ZeroOne, Ordering
<1>1. AtMost(a ** t, Zero ** t)
  BY ZeroOne, Ordering, OrderScales
<1>2. Zero ** t = Zero
  BY ZeroOne, ProductsAgree
<1>3. PICK p : p = a ** t
  OBVIOUS
<1>4. p \in Fractions
  BY <1>3, Closed
<1>5. AtMost(c, Zero)
  BY <1>1, <1>2, <1>3, <1>4, ZeroOne, Ordering
<1> QED BY <1>5, ZeroOne, Ordering

\* For any policy and any budgets of groups, whatever their caps: the whole score is divided
\* as capped_normalize promises whenever the caps leave room for it, and otherwise not at all.
THEOREM SharesFairly ==
  ASSUME NEW b, Sound(b)
  PROVE  DividedOrNone(b, Shares(b))
<1>1. PICK h : DividesSo(b, h) /\ Shares(b) = IF Less(Total(Mosts(b), DOMAIN b), One)
                                              THEN << >> ELSE h[DOMAIN b]
  BY SharesDescend DEF Sound
<1>2. CASE Less(Total(Mosts(b), DOMAIN b), One)
  BY <1>1, <1>2 DEF DividedOrNone
<1>3. CASE ~Less(Total(Mosts(b), DOMAIN b), One)
  <2> DEFINE B == {R \in SUBSET DOMAIN b : R # {} /\ ~Fair(b, R, h[R])}
  <2>1. B = {}
    <3> SUFFICES ASSUME B # {} PROVE FALSE
      OBVIOUS
    <3>1. B \subseteq SUBSET DOMAIN b /\ IsFiniteSet(DOMAIN b)
      BY DEF Sound
    <3> HIDE DEF B
    <3>2. PICK R \in B : \A C \in B : C \subseteq R => C = R
      BY <3>1, SmallestOf
    <3>3. R \subseteq DOMAIN b /\ R # {} /\ ~Fair(b, R, h[R])
      BY <3>2 DEF B
    <3>4. PICK T : T = Over(Proposed(b, R))
      OBVIOUS
    <3>5. h[R] = IF T = {} THEN Proposed(b, R) ELSE [g \in T |-> Most(g)] \oplus h[R \ T]
      BY <1>1, <3>3, <3>4 DEF DividesSo
    <3>6. CASE T = {}
      BY <3>3, <3>4, <3>5, <3>6, FairEnd
    <3>7. CASE T # {}
      <4>1. T \subseteq R /\ T # R
        BY <1>3, <3>3, <3>4, SomeStay, ProposedOf DEF Over
      <4>2. R \ T # R /\ R \ T \subseteq R /\ R \ T # {} /\ R \ T \in SUBSET DOMAIN b
        BY <3>3, <3>7, <4>1
      <4>3. Fair(b, R \ T, h[R \ T])
        BY <3>2, <4>2 DEF B
      <4>4. PICK d : d = h[R \ T]
        OBVIOUS
      <4>5. PICK s : s = h[R]
        OBVIOUS
      <4>6. s = [g \in T |-> Most(g)] \oplus d /\ Fair(b, R \ T, d)
        BY <3>5, <3>7, <4>3, <4>4, <4>5
      <4>7. Fair(b, R, s)
        BY <3>3, <3>4, <4>1, <4>6, FairStep
      <4> QED BY <3>3, <4>5, <4>7
    <3> QED BY <3>6, <3>7
  <2>2. DOMAIN b # {}
    <3>1. DOMAIN b = {} => Total(Mosts(b), DOMAIN b) = Zero
      BY TotalOfNone
    <3>2. Less(Zero, One)
      BY DEF Less, Zero, One
    <3> QED BY <1>3, <3>1, <3>2
  <2>3. Fair(b, DOMAIN b, h[DOMAIN b])
    BY <2>1, <2>2
  <2>4. Left(b, DOMAIN b) = One
    <3>1. DOMAIN b \ DOMAIN b = {}
      OBVIOUS
    <3>2. Left(b, DOMAIN b) = One -- Zero
      BY <3>1, TotalOfNone DEF Left
    <3>3. One ++ Zero = One /\ (One ++ Zero) -- Zero = One
      BY ZeroOne, SumsAgree
    <3> QED BY <3>2, <3>3
  <2>5. PICK s : s = h[DOMAIN b]
    OBVIOUS
  <2>6. Divided(b, s)
    <3>1. /\ DOMAIN s = DOMAIN b
          /\ Total(s, DOMAIN b) = One
          /\ \A g \in DOMAIN b : AtMost(s[g], Most(g))
          /\ \A g, o \in DOMAIN b : s[o] # Most(o) =>
                /\ AtMost(s[g] ** b[o], s[o] ** b[g])
                /\ s[g] # Most(g) => s[g] ** b[o] = s[o] ** b[g]
      BY <2>3, <2>4, <2>5 DEF Fair
    <3>2. ASSUME NEW g \in DOMAIN b PROVE Less(Zero, s[g])
      <4>1. CASE s[g] = Most(g)
        BY <4>1 DEF Sound
      <4>2. CASE s[g] # Most(g)
        <5>1. AtMost(One ** b[g], s[g] ** Total(b, DOMAIN b)) /\ s[g] \in Fractions
          BY <2>3, <2>4, <2>5, <4>2 DEF Fair, Fractional
        <5> HIDE <2>3
        <5>2. PICK a : a = s[g]
          OBVIOUS
        <5>3. PICK t : t = Total(b, DOMAIN b)
          OBVIOUS
        <5>4. t \in Fractions /\ Less(Zero, t)
          BY <2>2, <5>3, PartOf
        <5>5. PICK c : c = One ** b[g]
          OBVIOUS
        <5>6. c \in Fractions /\ Less(Zero, c)
          <6>1. b[g] \in Fractions /\ Less(Zero, b[g]) /\ Less(Zero, One)
            BY DEF Sound, Less, Zero, One
          <6> QED BY <5>5, <6>1, ZeroOne, Closed, OrderScales
        <5>7. AtMost(c, a ** t) /\ a \in Fractions
          BY <5>1, <5>2, <5>3, <5>5
        <5>8. Less(Zero, a)
          BY <5>4, <5>6, <5>7, PositiveFactor
        <5> QED BY <5>2, <5>8
      <4> QED BY <4>1, <4>2
    <3> QED BY <3>1, <3>2 DEF Divided
  <2> QED BY <1>1, <1>3, <2>5, <2>6 DEF DividedOrNone
<1> QED BY <1>2, <1>3

-----------------------------------------------------------------------------
(* The budgets of a search: of the groups that have an active factor and that *)
(* the traveller has not told the service to ignore.                          *)

\* The fractions a policy holds are fractions.
LEMMA FractionsAre == ASSUME NEW a, Fraction(a) PROVE a \in Fractions
  BY DEF Fraction, Fractions, Positive

\* The groups a legal intent leaves active have positive budgets, and positive caps.
LEMMA BudgetsSound ==
  ASSUME NEW i, LegalIntent(i), NEW A, A \subseteq Graded, \A f \in A : Ranks(f)
  PROVE  Sound(Budgets(i, A))
<1> DEFINE groups == {Policy.factors[f].group : f \in A}
           H == {h \in groups : Less(Zero, GroupBudget(i, h))}
<1>1. Budgets(i, A) = [g \in H |-> GroupBudget(i, g)]
  BY TableOf DEF Budgets
<1>2. IsFiniteSet(H)
  <2>1. IsFiniteSet(A)
    BY PolicyAssumption, FS_Subset DEF Graded
  <2>2. IsFiniteSet(groups)
    <3>1. [f \in A |-> Policy.factors[f].group] \in Surjection(A, groups)
      BY DEF Surjection
    <3> QED BY <2>1, <3>1, FS_Surjection
  <2> QED BY <2>2, FS_Subset
<1>3. \A g \in H : g \in DOMAIN Policy.groups /\ Less(Zero, GroupBudget(i, g))
  BY PolicyAssumption
<1> HIDE DEF H
<1>4. ASSUME NEW g \in H
      PROVE  /\ GroupBudget(i, g) \in Fractions /\ Less(Zero, GroupBudget(i, g))
             /\ Most(g) \in Fractions /\ Less(Zero, Most(g))
  <2>1. /\ Fraction(Policy.groups[g].budget) /\ Fraction(Most(g)) /\ Less(Zero, Most(g))
        /\ Policy.groups[g].labels \subseteq DOMAIN Policy.priorities
    BY <1>3, PolicyAssumption DEF PositiveFraction
  <2>2. Priority(i, g) \in DOMAIN Policy.priorities
    BY <2>1, PolicyAssumption DEF Priority, LegalIntent
  <2>3. Fraction(Policy.priorities[Priority(i, g)])
    BY <2>2, PolicyAssumption
  <2>4. GroupBudget(i, g) \in Fractions
    BY <2>1, <2>3, FractionsAre, Closed DEF GroupBudget
  <2> QED BY <1>3, <2>1, <2>4, FractionsAre
<1> QED BY <1>1, <1>2, <1>4 DEF Sound

\* What is divided for a candidate of a search.
LEMMA EvaluatedOf ==
  ASSUME NEW C, NEW i, NEW x \in SearchOf(C, i).eligible
  PROVE  DOMAIN SearchOf(C, i).evaluated[x] = Graded
<1> DEFINE S == AdmittedOf(C, i)
           bounds == Table([f \in Graded |-> IF Counted(f) THEN Bounding(C, f, S) ELSE {}])
           E(y) == Table([f \in Graded |-> Evaluated(C[y], f, i, bounds[f])])
           T == Table([y \in S |-> E(y)])
<1>1. SearchOf(C, i) = Ranking(T, Table([y \in DOMAIN T |-> Score(i, T[y])]))
  BY DEF SearchOf, RankAmong, RankWith, Weighted
<1> HIDE DEF bounds
<1>2. \A y : DOMAIN E(y) = Graded
  BY TableOf
<1> HIDE DEF E
<1>3. T = [y \in S |-> E(y)]
  BY TableOf
<1> HIDE DEF T
<1>4. SearchOf(C, i).eligible = DOMAIN T /\ SearchOf(C, i).evaluated = T
  BY <1>1 DEF Ranking
<1> QED BY <1>2, <1>3, <1>4

\* The shares of any search with a legal intent are fair.
LEMMA AlwaysShared ==
  ASSUME LegalIntent(wish)
  PROVE  SharesFair
<1> SUFFICES ASSUME NEW x \in SearchOf(Facts, wish).eligible,
                    NEW b, b = BudgetOf(SearchOf(Facts, wish).evaluated[x])
             PROVE  DividedOrNone(b, Shares(b))
  BY DEF SharesFair
<1> DEFINE E == SearchOf(Facts, wish).evaluated[x]
           A == {f \in DOMAIN E : Activated(wish, f, E[f])}
<1>1. DOMAIN E = Graded
  BY EvaluatedOf
<1> HIDE DEF E
<1>2. A \subseteq Graded /\ \A f \in A : Ranks(f)
  BY <1>1 DEF Activated
<1>3. b = Budgets(wish, A)
  BY DEF BudgetOf, E
<1> HIDE DEF A
<1>4. Sound(b)
  BY <1>2, <1>3, BudgetsSound
<1> QED BY <1>4, SharesFairly

-----------------------------------------------------------------------------
(* What an answer does to the intent.                                      *)

\* What an entry map keeps when entries are dropped.
LEMMA DroppedOf ==
  ASSUME NEW g, NEW S
  PROVE  /\ DOMAIN Table(Dropped(g, S)) = DOMAIN g \ S
         /\ \A x \in DOMAIN g \ S : Table(Dropped(g, S))[x] = g[x]
<1>1. Table(Dropped(g, S)) = [x \in DOMAIN g \ S |-> g[x]]
  BY TableOf DEF Dropped
<1> QED BY <1>1

Untouched(i, j) == /\ DOMAIN j = IntentFields
                   /\ j.places = i.places /\ j.window = i.window /\ j.lodging = i.lodging
                   /\ j.travel = i.travel /\ j.quality = i.quality /\ j.pass = i.pass
                   /\ j.requirements = i.requirements /\ j.priorities = i.priorities

ObjectiveTaken(i, j, t, a) ==
    /\ Untouched(i, j)
    /\ DOMAIN j.prefers = DOMAIN i.prefers \ {FactorOf(t)}
    /\ \A f \in DOMAIN i.prefers \ {FactorOf(t)} : j.prefers[f] = i.prefers[f]
    /\ j.objectives = [f \in {FactorOf(t)} |-> Patch(t, a).importance] \oplus i.objectives
    /\ j.prefers = Table(Dropped(i.prefers, {FactorOf(t)}))
    /\ DOMAIN j.objectives = {FactorOf(t)} \cup DOMAIN i.objectives

\* What an answer that sets an objective leaves of the intent.
LEMMA ObjectiveSet ==
  ASSUME NEW i, DOMAIN i = IntentFields, NEW t, NEW a, Patch(t, a).kind = "objective"
  PROVE  ObjectiveTaken(i, Applied(i, t, a), t, a)
<1> DEFINE F == FactorOf(t)
<1>1. PICK P : P = Table(Dropped(i.prefers, {F}))
  OBVIOUS
<1>2. PICK O : O = [f \in {F} |-> Patch(t, a).importance] \oplus i.objectives
  OBVIOUS
<1>3. PICK j : j = Applied(i, t, a)
  OBVIOUS
<1>4. j = [i EXCEPT !.prefers = P, !.objectives = O]
  <2>1. j = [i EXCEPT !.prefers = Table(Dropped(@, {FactorOf(t)})),
                      !.objectives = [f \in {FactorOf(t)} |-> Patch(t, a).importance] \oplus @]
    BY <1>3, Zenon DEF Applied
  <2> QED BY <1>1, <1>2, <2>1
<1>5. Untouched(i, j) /\ j.prefers = P /\ j.objectives = O
  BY <1>4 DEF Untouched, IntentFields
<1>6. DOMAIN P = DOMAIN i.prefers \ {F} /\ \A f \in DOMAIN i.prefers \ {F} : P[f] = i.prefers[f]
  BY <1>1, DroppedOf
<1>7. DOMAIN O = {F} \cup DOMAIN i.objectives
  BY <1>2 DEF \oplus
<1> QED BY <1>1, <1>2, <1>3, <1>5, <1>6, <1>7 DEF ObjectiveTaken

PreferenceTaken(i, j, t, a) ==
    /\ Untouched(i, j)
    /\ DOMAIN j.prefers = {FactorOf(t)} \cup DOMAIN i.prefers
    /\ \A f \in DOMAIN i.prefers \ {FactorOf(t)} : j.prefers[f] = i.prefers[f]
    /\ j.prefers[FactorOf(t)].mode = Patch(t, a).mode
    /\ j.prefers[FactorOf(t)].values = Patch(t, a).values
    /\ DOMAIN j.objectives = DOMAIN i.objectives \ {FactorOf(t)}

\* What an answer that sets a preference leaves of the intent.
LEMMA PreferenceSet ==
  ASSUME NEW i, DOMAIN i = IntentFields, NEW t, NEW a, Patch(t, a).kind # "objective"
  PROVE  PreferenceTaken(i, Applied(i, t, a), t, a)
<1> DEFINE F == FactorOf(t)
<1>1. PICK v : v = [mode |-> Patch(t, a).mode, values |-> Patch(t, a).values,
                    importance |-> Patch(t, a).importance]
  OBVIOUS
<1>2. PICK P : P = [f \in {F} |-> v] \oplus i.prefers
  OBVIOUS
<1>3. PICK O : O = Table(Dropped(i.objectives, {F}))
  OBVIOUS
<1>4. PICK j : j = Applied(i, t, a)
  OBVIOUS
<1>5. j = [i EXCEPT !.objectives = O, !.prefers = P]
  <2>1. j = [i EXCEPT !.objectives = Table(Dropped(@, {FactorOf(t)})),
                      !.prefers = [f \in {FactorOf(t)} |->
                                    [mode |-> Patch(t, a).mode, values |-> Patch(t, a).values,
                                     importance |-> Patch(t, a).importance]] \oplus @]
    BY <1>4, Zenon DEF Applied
  <2> QED BY <1>1, <1>2, <1>3, <2>1
<1>6. Untouched(i, j) /\ j.prefers = P /\ j.objectives = O
  BY <1>5 DEF Untouched, IntentFields
<1>7. /\ DOMAIN P = {F} \cup DOMAIN i.prefers /\ P[F] = v
      /\ \A f \in DOMAIN i.prefers \ {F} : P[f] = i.prefers[f]
  BY <1>2 DEF \oplus
<1>8. DOMAIN O = DOMAIN i.objectives \ {F}
  BY <1>3, DroppedOf
<1>9. v.mode = Patch(t, a).mode /\ v.values = Patch(t, a).values
  BY <1>1
<1> QED BY <1>4, <1>6, <1>7, <1>8, <1>9 DEF PreferenceTaken

\* An answer that widens no required preference admits no new candidate.
LEMMA NoneReadmitted ==
  ASSUME NEW i, DOMAIN i = IntentFields, NEW t, NEW a, ~Widens(i, t, a),
         NEW c, Admitted(c, Applied(i, t, a))
  PROVE  Admitted(c, i)
<1>1. PICK j : j = Applied(i, t, a)
  OBVIOUS
<1>2. PICK F : F = FactorOf(t)
  OBVIOUS
<1>3. PICK p : p = Patch(t, a)
  OBVIOUS
<1>4. /\ Untouched(i, j)
      /\ \A f \in DOMAIN i.prefers \ {F} : f \in DOMAIN j.prefers /\ j.prefers[f] = i.prefers[f]
      /\ p.kind # "objective" => /\ F \in DOMAIN j.prefers
                                 /\ j.prefers[F].mode = p.mode /\ j.prefers[F].values = p.values
  <2>1. CASE p.kind = "objective"
    <3>1. ObjectiveTaken(i, j, t, a)
      BY <1>1, <1>3, <2>1, ObjectiveSet
    <3>2. /\ Untouched(i, j) /\ DOMAIN j.prefers = DOMAIN i.prefers \ {FactorOf(t)}
          /\ \A f \in DOMAIN i.prefers \ {FactorOf(t)} : j.prefers[f] = i.prefers[f]
      BY <3>1, Zenon DEF ObjectiveTaken
    <3> QED BY <1>2, <2>1, <3>2
  <2>2. CASE p.kind # "objective"
    BY <1>1, <1>2, <1>3, <2>2, PreferenceSet DEF PreferenceTaken
  <2> QED BY <2>1, <2>2
<1>5. Admitted(c, j)
  BY <1>1
<1>6. /\ InPlace(c, i) /\ InSeason(c, i) /\ Affordable(c, i) /\ Reachable(c, i)
      /\ GoodEnough(c, i) /\ PassInBudget(c, i)
  <2>1. /\ InPlace(c, j) /\ InSeason(c, j) /\ Affordable(c, j) /\ Reachable(c, j)
        /\ GoodEnough(c, j) /\ PassInBudget(c, j)
    BY <1>5 DEF Admitted
  <2>2. InPlace(c, i) /\ InSeason(c, i) /\ Affordable(c, i)
    BY <1>4, <2>1 DEF Untouched, InPlace, InSeason, Affordable
  <2>3. Reachable(c, i) /\ GoodEnough(c, i) /\ PassInBudget(c, i)
    BY <1>4, <2>1 DEF Untouched, Reachable, GoodEnough, PassInBudget
  <2> QED BY <2>2, <2>3
<1>7. \A k : /\ DOMAIN AllRequirements(k) = DOMAIN k.requirements \cup Synthesized(k)
             /\ \A f \in DOMAIN k.requirements : AllRequirements(k)[f] = k.requirements[f]
             /\ \A f \in Synthesized(k) :
                   AllRequirements(k)[f] = [values |-> k.prefers[f].values,
                                            trust |-> "verified_with_adjustment"]
  <2> TAKE k
  <2>1. PICK R : R = k.requirements
    OBVIOUS
  <2>2. PICK S : S = Synthesized(k)
    OBVIOUS
  <2>3. PICK G : G = [f \in S |-> [values |-> k.prefers[f].values,
                                   trust |-> "verified_with_adjustment"]]
    OBVIOUS
  <2>4. DOMAIN G = S /\ \A f \in S : f \notin DOMAIN R
    BY <2>1, <2>2, <2>3 DEF Synthesized
  <2>5. AllRequirements(k) = R \oplus G
    BY <2>1, <2>2, <2>3 DEF AllRequirements
  <2>6. /\ DOMAIN (R \oplus G) = DOMAIN R \cup S
        /\ \A f \in DOMAIN R : (R \oplus G)[f] = R[f]
        /\ \A f \in S : (R \oplus G)[f] = G[f]
    BY <2>4 DEF \oplus
  <2> QED BY <2>1, <2>2, <2>3, <2>5, <2>6
<1>8. ASSUME NEW f \in DOMAIN i.requirements
      PROVE  Meets(c, f, AllRequirements(i)[f])
  <2>1. f \in DOMAIN j.requirements /\ j.requirements[f] = i.requirements[f]
    BY <1>4 DEF Untouched
  <2>2. Meets(c, f, AllRequirements(j)[f])
    BY <1>5, <1>7, <2>1 DEF Admitted
  <2> QED BY <1>7, <2>1, <2>2
<1>9. ASSUME NEW f \in Synthesized(i), f # F
      PROVE  Meets(c, f, AllRequirements(i)[f])
  <2>1. /\ f \in DOMAIN i.prefers /\ f \notin DOMAIN i.requirements
        /\ i.prefers[f].mode = "require"
    BY DEF Synthesized, Mode
  <2>2. f \in DOMAIN j.prefers /\ j.prefers[f] = i.prefers[f] /\ f \notin DOMAIN j.requirements
    BY <1>4, <1>9, <2>1 DEF Untouched
  <2>3. f \in Synthesized(j)
    BY <2>1, <2>2 DEF Synthesized, Mode
  <2>4. Meets(c, f, AllRequirements(j)[f])
    BY <1>5, <1>7, <2>3 DEF Admitted
  <2>5. AllRequirements(j)[f] = AllRequirements(i)[f]
    <3>1. AllRequirements(j)[f] = [values |-> j.prefers[f].values,
                                   trust |-> "verified_with_adjustment"]
      BY <1>7, <2>3
    <3>2. AllRequirements(i)[f] = [values |-> i.prefers[f].values,
                                   trust |-> "verified_with_adjustment"]
      BY <1>7, <1>9
    <3> QED BY <2>2, <3>1, <3>2
  <2> QED BY <2>4, <2>5
<1>10. ASSUME F \in Synthesized(i)
       PROVE  Meets(c, F, AllRequirements(i)[F])
  <2>1. PICK V : V = i.prefers[F].values
    OBVIOUS
  <2>2. /\ p.kind # "objective" /\ p.mode = "require"
        /\ V = {} \/ (p.values # {} /\ p.values \subseteq V)
    BY <1>2, <1>3, <1>10, <2>1 DEF Widens
  <2>3. F \in DOMAIN j.prefers /\ j.prefers[F].mode = "require" /\ j.prefers[F].values = p.values
    BY <1>4, <2>2
  <2>4. F \notin DOMAIN j.requirements
    BY <1>4, <1>10 DEF Untouched, Synthesized
  <2>5. F \in Synthesized(j)
    BY <2>3, <2>4 DEF Synthesized, Mode
  <2>6. Meets(c, F, [values |-> p.values, trust |-> "verified_with_adjustment"])
    <3>1. Meets(c, F, AllRequirements(j)[F])
      BY <1>5, <1>7, <2>5 DEF Admitted
    <3> QED BY <1>7, <2>3, <2>5, <3>1
  <2>7. Meets(c, F, [values |-> V, trust |-> "verified_with_adjustment"])
    BY <2>2, <2>6 DEF Meets
  <2> QED BY <1>7, <1>10, <2>1, <2>7
<1>11. \A f \in DOMAIN AllRequirements(i) : Meets(c, f, AllRequirements(i)[f])
  BY <1>7, <1>8, <1>9, <1>10
<1> QED BY <1>6, <1>11 DEF Admitted

\* So the ranking of a variant is the search of the whole catalogue for its intent.
LEMMA VariantIsSearch ==
  ASSUME NEW C, NEW i, DOMAIN i = IntentFields, NEW t, NEW a, ~Widens(i, t, a)
  PROVE  Variant(C, i, t, a) = SearchOf(C, Applied(i, t, a))
<1>1. {x \in AdmittedOf(C, i) : Admitted(C[x], Applied(i, t, a))} = AdmittedOf(C, Applied(i, t, a))
  BY NoneReadmitted DEF AdmittedOf
<1> QED BY <1>1 DEF Variant, SearchOf

\* The page applies an answer as its preview did, unless it replaces an objective.
LEMMA PageApplies ==
  ASSUME NEW i, DOMAIN i = IntentFields, NEW t, NEW a
  PROVE  LET j == AppliedByPage(i, t, a)  k == Applied(i, t, a)  F == FactorOf(t) IN
         /\ \/ Replaces(t, a) /\ (DOMAIN i.objectives \cap PassValue) \ {F} # {}
            \/ j = k
         /\ Untouched(i, j) /\ j.prefers = k.prefers
         /\ DOMAIN j.objectives \subseteq DOMAIN k.objectives
<1>1. CASE ~Replaces(t, a)
  <2>1. AppliedByPage(i, t, a) = Applied(i, t, a)
    BY <1>1 DEF AppliedByPage
  <2>2. Untouched(i, Applied(i, t, a))
    BY ObjectiveSet, PreferenceSet DEF ObjectiveTaken, PreferenceTaken
  <2> QED BY <2>1, <2>2
<1>2. CASE Replaces(t, a)
  <2>1. Patch(t, a).kind = "objective" /\ FactorOf(t) \in PassValue
    BY <1>2 DEF Replaces
  <2>2. PICK F : F = FactorOf(t)
    OBVIOUS
  <2>3. PICK O : O = i.objectives
    OBVIOUS
  <2>4. PICK D : D = Table(Dropped(O, PassValue))
    OBVIOUS
  <2>5. PICK h : h = [i EXCEPT !.objectives = D]
    OBVIOUS
  <2>6. PICK j : j = Applied(h, t, a)
    OBVIOUS
  <2>7. PICK k : k = Applied(i, t, a)
    OBVIOUS
  <2>8. j = AppliedByPage(i, t, a)
    <3>1. [i EXCEPT !.objectives = Table(Dropped(@, PassValue))] = h
      BY <2>3, <2>4, <2>5
    <3> QED BY <1>2, <2>6, <3>1 DEF AppliedByPage
  <2>9. /\ DOMAIN h = IntentFields /\ h.objectives = D /\ h.prefers = i.prefers
        /\ Untouched(i, h)
    BY <2>5 DEF IntentFields, Untouched
  <2>10. /\ DOMAIN D = DOMAIN O \ PassValue
         /\ \A f \in DOMAIN O \ PassValue : D[f] = O[f]
    BY <2>4, DroppedOf
  <2>11. PICK v : v = [f \in {F} |-> Patch(t, a).importance]
    OBVIOUS
  <2>12. /\ Untouched(h, j) /\ j.objectives = v \oplus D
         /\ j.prefers = Table(Dropped(h.prefers, {F}))
    <3>1. /\ Untouched(h, Applied(h, t, a))
          /\ Applied(h, t, a).objectives
               = [f \in {FactorOf(t)} |-> Patch(t, a).importance] \oplus h.objectives
          /\ Applied(h, t, a).prefers = Table(Dropped(h.prefers, {FactorOf(t)}))
      <4>1. ObjectiveTaken(h, Applied(h, t, a), t, a)
        BY <2>1, <2>9, ObjectiveSet
      <4> QED BY <4>1, Zenon DEF ObjectiveTaken
    <3> QED BY <2>2, <2>6, <2>9, <2>11, <3>1
  <2>13. /\ Untouched(i, k) /\ k.objectives = v \oplus O
         /\ k.prefers = Table(Dropped(i.prefers, {F}))
    <3>1. /\ Untouched(i, Applied(i, t, a))
          /\ Applied(i, t, a).objectives
               = [f \in {FactorOf(t)} |-> Patch(t, a).importance] \oplus i.objectives
          /\ Applied(i, t, a).prefers = Table(Dropped(i.prefers, {FactorOf(t)}))
      <4>1. ObjectiveTaken(i, Applied(i, t, a), t, a)
        BY <2>1, ObjectiveSet
      <4> QED BY <4>1, Zenon DEF ObjectiveTaken
    <3> QED BY <2>2, <2>3, <2>7, <2>11, <3>1
  <2>14. Untouched(i, j) /\ j.prefers = k.prefers
    BY <2>9, <2>12, <2>13 DEF Untouched
  <2>15. DOMAIN v = {F}
    BY <2>11
  <2>16. DOMAIN j.objectives \subseteq DOMAIN k.objectives
    BY <2>10, <2>12, <2>13, <2>15 DEF \oplus
  <2>17. ASSUME (DOMAIN O \cap PassValue) \ {F} = {}
         PROVE  j = k
    <3>1. v \oplus D = v \oplus O
      <4>1. DOMAIN v \cup DOMAIN D = DOMAIN v \cup DOMAIN O
        BY <2>1, <2>2, <2>10, <2>15, <2>17
      <4>2. \A f \in DOMAIN v \cup DOMAIN O :
              (IF f \in DOMAIN v THEN v[f] ELSE D[f]) = (IF f \in DOMAIN v THEN v[f] ELSE O[f])
        BY <2>10, <2>15, <2>17, <4>1
      <4> QED BY <4>1, <4>2 DEF \oplus
    <3>2. PICK A : A = v \oplus D
      OBVIOUS
    <3>3. PICK B : B = Table(Dropped(i.prefers, {F}))
      OBVIOUS
    <3>4. h = [i EXCEPT !.objectives = D] /\ h.prefers = i.prefers /\ h.objectives = D
      BY <2>5, <2>9
    <3>5. j = [h EXCEPT !.prefers = B, !.objectives = A]
      <4>1. j = [h EXCEPT !.prefers = Table(Dropped(@, {FactorOf(t)})),
                          !.objectives = [f \in {FactorOf(t)} |-> Patch(t, a).importance] \oplus @]
        BY <2>1, <2>6, Zenon DEF Applied
      <4> QED BY <2>2, <2>9, <2>11, <3>2, <3>3, <4>1
    <3>6. k = [i EXCEPT !.prefers = B, !.objectives = A]
      <4>1. k = [i EXCEPT !.prefers = Table(Dropped(@, {FactorOf(t)})),
                          !.objectives = [f \in {FactorOf(t)} |-> Patch(t, a).importance] \oplus @]
        BY <2>1, <2>7, Zenon DEF Applied
      <4> QED BY <2>2, <2>3, <2>11, <3>1, <3>2, <3>3, <4>1
    <3> QED BY <2>5, <3>5, <3>6
  <2> QED BY <1>2, <2>2, <2>3, <2>7, <2>8, <2>14, <2>16, <2>17
<1> QED BY <1>1, <1>2

-----------------------------------------------------------------------------
(* The invariant: the intent is one the service accepts, and the question on *)
(* the page was asked about the search that is still on it.                  *)

Asked(a) ==
    /\ LegalIntent(Applied(wish, offer.topic, a)) /\ ~Widens(wish, offer.topic, a)
    /\ offer.previews[a] = Previewed(Facts, SearchOf(Facts, wish),
                                     Variant(Facts, wish, offer.topic, a))
RankInv == /\ DOMAIN wish = IntentFields /\ LegalIntent(wish)
           /\ offer # NoOffer => /\ offer.changes \subseteq DOMAIN offer.previews
                                 /\ \A a \in DOMAIN offer.previews : Asked(a)

\* The page applies a legal answer to a legal intent: removing the other pass value
\* objectives leaves it legal.
LEMMA PageStaysLegal ==
  ASSUME NEW i, DOMAIN i = IntentFields, NEW t, NEW a, LegalIntent(Applied(i, t, a))
  PROVE  DOMAIN AppliedByPage(i, t, a) = IntentFields /\ LegalIntent(AppliedByPage(i, t, a))
<1>1. PICK j : j = AppliedByPage(i, t, a)
  OBVIOUS
<1>2. PICK k : k = Applied(i, t, a)
  OBVIOUS
<1>3. /\ Untouched(i, j) /\ j.prefers = k.prefers
      /\ DOMAIN j.objectives \subseteq DOMAIN k.objectives
  BY <1>1, <1>2, PageApplies
<1>4. Untouched(i, k)
  BY <1>2, ObjectiveSet, PreferenceSet, Zenon DEF ObjectiveTaken, PreferenceTaken
<1>5. /\ DOMAIN j = IntentFields /\ j.requirements = k.requirements
      /\ j.priorities = k.priorities
  BY <1>3, <1>4 DEF Untouched
<1>6. LegalIntent(k)
  BY <1>2
<1>7. \A f \in DOMAIN j.prefers : LegalPreference(j, f)
  <2>1. \A f \in DOMAIN k.prefers : LegalPreference(k, f)
    BY <1>6 DEF LegalIntent
  <2> QED BY <1>3, <2>1 DEF LegalPreference
<1>8. DOMAIN j.prefers \cap DOMAIN j.objectives = {}
  <2>1. DOMAIN k.prefers \cap DOMAIN k.objectives = {}
    BY <1>6 DEF LegalIntent
  <2> QED BY <1>3, <2>1
<1>9. \A g \in DOMAIN j.priorities : /\ g \in DOMAIN Policy.groups
                                     /\ j.priorities[g] \in Policy.groups[g].labels
  BY <1>5, <1>6 DEF LegalIntent
<1>10. \A f \in DOMAIN j.objectives : /\ f \in Graded
                                      /\ Policy.factors[f].activation = "objective_selected"
  BY <1>3, <1>6 DEF LegalIntent
<1>11. \A f \in DOMAIN j.requirements : Demanded(f, j.requirements[f].values)
  BY <1>5, <1>6 DEF LegalIntent
<1>12. LegalIntent(j)
  BY <1>7, <1>8, <1>9, <1>10, <1>11 DEF LegalIntent
<1> QED BY <1>1, <1>5, <1>12

\* The invariant says what RankingSafe says.
LEMMA RankInvImplies ==
  ASSUME RankInv
  PROVE  RankingSafe
<1>1. LegalIntent(wish) /\ DOMAIN wish = IntentFields
  BY DEF RankInv
<1>2. SharesFair
  BY <1>1, AlwaysShared
<1>3. PreviewTrue
  <2> SUFFICES ASSUME offer # NoOffer, NEW a \in offer.changes,
                      ~(/\ Replaces(offer.topic, a)
                        /\ (DOMAIN wish.objectives \cap PassValue) \ {FactorOf(offer.topic)} # {})
               PROVE  PreviewHolds(a, SearchOf(Facts, wish))
    BY DEF PreviewTrue
  <2>1. PICK t : t = offer.topic
    OBVIOUS
  <2>2. Asked(a)
    BY DEF RankInv
  <2>3. AppliedByPage(wish, t, a) = Applied(wish, t, a)
    BY <1>1, <2>1, PageApplies
  <2>4. Variant(Facts, wish, t, a) = SearchOf(Facts, Applied(wish, t, a))
    BY <1>1, <2>1, <2>2, VariantIsSearch DEF Asked
  <2>5. offer.previews[a] = Previewed(Facts, SearchOf(Facts, wish),
                                      SearchOf(Facts, AppliedByPage(wish, t, a)))
    BY <2>1, <2>2, <2>3, <2>4 DEF Asked
  <2> QED BY <2>1, <2>5 DEF PreviewHolds, Previewed
<1> QED BY <1>1, <1>2, <1>3 DEF RankingSafe

\* A question is only offered when each of its answers leaves a legal intent, and does not
\* readmit a candidate.
LEMMA OfferedKeeps ==
  ASSUME RankInv, NEW t, OfferQuestion(t)
  PROVE  RankInv'
<1>1. UNCHANGED <<cat, wish>>
  BY DEF OfferQuestion
<1>2. PICK base : base = SearchOf(Facts, wish)
  OBVIOUS
<1>3. PICK V : V = Table([a \in AnswersOf(t) |-> Variant(Facts, wish, t, a)])
  OBVIOUS
<1>4. PICK options \in SUBSET AnswersOf(t) :
         /\ Askable(wish, t, options, V)
         /\ offer' = [topic |-> t,
                      previews |-> Table([a \in options |-> Previewed(Facts, base, V[a])]),
                      changes |-> {a \in options : Applied(wish, t, a) # wish}]
  BY <1>2, <1>3 DEF OfferQuestion
<1>5. \A a \in AnswersOf(t) : V[a] = Variant(Facts, wish, t, a)
  BY <1>3, TableOf
<1>6. PICK P : P = Table([a \in options |-> Previewed(Facts, base, V[a])])
  OBVIOUS
<1>7. DOMAIN P = options /\ \A a \in options : P[a] = Previewed(Facts, base, V[a])
  <2>1. P = [a \in options |-> Previewed(Facts, base, V[a])]
    BY <1>6, TableOf
  <2> QED BY <2>1
<1>8. offer'.topic = t /\ offer'.previews = P /\ offer'.changes \subseteq options
  BY <1>4, <1>6
<1>9. \A a \in options : LegalIntent(Applied(wish, t, a)) /\ ~Widens(wish, t, a)
  BY <1>4 DEF Askable
<1>10. ASSUME NEW a \in options
       PROVE  Asked(a)'
  <2>1. Facts' = Facts /\ wish' = wish
    BY <1>1 DEF Facts
  <2>2. offer'.previews[a] = Previewed(Facts, SearchOf(Facts, wish), Variant(Facts, wish, t, a))
    BY <1>2, <1>5, <1>7, <1>8
  <2> QED BY <1>8, <1>9, <2>1, <2>2 DEF Asked
<1> QED BY <1>1, <1>7, <1>8, <1>10 DEF RankInv

\* A search that is previewed for an answer is the search that follows it (unless the page
\* replaces another pass value objective), the groups of every candidate share the whole
\* score fairly, and the page never puts together an intent that the service refuses.
THEOREM RankingIsSafe == RankedSpec => []RankingSafe
<1>1. RankedInit => RankInv
  <2> SUFFICES ASSUME RankedInit PROVE RankInv
    OBVIOUS
  <2>1. PICK start \in Starts : wish = start[2] /\ offer = NoOffer
    BY DEF RankedInit
  <2> QED BY <2>1, StartsAssumption DEF RankInv
<1>2. RankInv /\ [RankedNext]_refineVars => RankInv'
  <2> SUFFICES ASSUME RankInv, [RankedNext]_refineVars PROVE RankInv'
    OBVIOUS
  <2>1. ASSUME NEW t \in DOMAIN Registry, OfferQuestion(t) PROVE RankInv'
    BY <2>1, OfferedKeeps
  <2>2. ASSUME NEW a, ChooseOption(a) PROVE RankInv'
    <3>1. offer # NoOffer /\ a \in DOMAIN offer.previews /\ offer' = NoOffer
      BY <2>2 DEF ChooseOption
    <3>2. LegalIntent(Applied(wish, offer.topic, a))
      BY <3>1 DEF RankInv, Asked
    <3>3. wish' = AppliedByPage(wish, offer.topic, a) \/ wish' = wish
      BY <2>2 DEF ChooseOption
    <3>4. DOMAIN wish' = IntentFields /\ LegalIntent(wish')
      <4>1. DOMAIN wish = IntentFields /\ LegalIntent(wish)
        BY DEF RankInv
      <4>2. CASE wish' = wish
        BY <4>1, <4>2
      <4>3. CASE wish' = AppliedByPage(wish, offer.topic, a)
        BY <3>2, <4>1, <4>3, PageStaysLegal
      <4> QED BY <3>3, <4>2, <4>3
    <3>5. LegalIntent(wish)'
      BY <3>4 DEF LegalIntent, LegalPreference
    <3> QED BY <3>1, <3>4, <3>5 DEF RankInv, NoOffer
  <2>3. ASSUME SkipQuestion PROVE RankInv'
    <3>1. wish' = wish /\ offer' = NoOffer
      BY <2>3 DEF SkipQuestion
    <3> QED BY <3>1 DEF RankInv, NoOffer
  <2>4. ASSUME UNCHANGED refineVars PROVE RankInv'
    <3>1. wish' = wish /\ offer' = offer /\ Facts' = Facts
      BY <2>4 DEF refineVars, Facts
    <3> QED BY <3>1 DEF RankInv, Asked, NoOffer
  <2> QED BY <2>1, <2>2, <2>3, <2>4 DEF RankedNext
<1>3. RankInv => RankingSafe
  BY RankInvImplies
<1> QED BY <1>1, <1>2, <1>3, PTL DEF RankedSpec
====
