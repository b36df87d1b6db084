----------------------- MODULE PaymentDocumentProofs -----------------------
(***************************************************************************)
(* What the control digits notice, what the texts of the form keep, and    *)
(* what key and payload tell apart, for any requisites, rates, sums and    *)
(* texts.                                                                  *)
(*                                                                         *)
(* A slip changes one term of a weighted sum or exchanges two: the sum     *)
(* moves by a product that is no multiple of ten or eleven.  Sums, figures *)
(* and numbers are recursive functions; what they compute is shown by the  *)
(* least place where it would fail.  White space is collapsed character by *)
(* character, so what holds of a text is shown by adding one to it; a key  *)
(* and a payload are taken apart at their last separator.                  *)
(***************************************************************************)
EXTENDS PaymentDocument, FiniteSetTheorems, SequenceTheorems, WellFoundedInduction, TLAPS

---------------------------------------------------------------------------
(* Weighted sums *)

LEMMA LeastNat ==
  ASSUME NEW T, T \subseteq Nat, T # {}
  PROVE  \E x \in T : \A y \in T : x <= y
<1> DEFINE R == OpToRel(<, Nat)
<1>1. IsWellFoundedOn(R, Nat)
  BY NatLessThanWellFounded
<1>2. \A x, y \in Nat : x < y => <<x, y>> \in R
  BY DEF OpToRel
<1> HIDE DEF R
<1>3. PICK x \in T : \A y \in T : ~(<<y, x>> \in R)
  BY <1>1, WFMin
<1>4. ASSUME NEW y \in T PROVE x <= y
  <2>1. x \in Nat /\ y \in Nat
    OBVIOUS
  <2>2. ~(y < x)
    BY <1>2, <1>3, <2>1
  <2> QED
    BY <2>1, <2>2
<1> QED
  BY <1>4

\* What SumOf defines: the sum over the first i characters, for every i.
Partial(n, value, weights, f) ==
  f = [i \in 0..n |-> IF i = 0 THEN 0 ELSE f[i - 1] + weights[i] * value[i]]

LEMMA PartialExists ==
  ASSUME NEW n \in Nat, NEW value, NEW weights
  PROVE  \E f : Partial(n, value, weights, f)
<1> DEFINE T == {m \in Nat : ~\E f : Partial(m, value, weights, f)}
<1> SUFFICES T = {}
  OBVIOUS
<1> SUFFICES ASSUME T # {} PROVE FALSE
  OBVIOUS
<1>1. PICK m \in T : \A y \in T : m <= y
  <2> HIDE DEF T
  <2>1. T \subseteq Nat
    BY DEF T
  <2> QED
    BY <2>1, LeastNat
<1>2. m # 0
  <2>1. Partial(0, value, weights, [i \in 0..0 |-> 0])
    BY DEF Partial
  <2> QED
    BY <2>1
<1>3. m - 1 \in Nat /\ m - 1 \notin T
  BY <1>1, <1>2
<1>4. PICK f : Partial(m - 1, value, weights, f)
  BY <1>3
<1> DEFINE g == [i \in 0..m |-> IF i < m THEN f[i] ELSE f[m - 1] + weights[m] * value[m]]
<1>5. Partial(m, value, weights, g)
  <2>1. \A i \in 0..(m - 1) :
           f[i] = IF i = 0 THEN 0 ELSE f[i - 1] + weights[i] * value[i]
    BY <1>4 DEF Partial
  <2>2. ASSUME NEW i \in 0..m
        PROVE  g[i] = IF i = 0 THEN 0 ELSE g[i - 1] + weights[i] * value[i]
    <3>1. CASE i = m
      <4>1. i - 1 \in 0..m /\ i - 1 < m /\ i # 0
        BY <1>2, <1>3, <3>1
      <4> QED
        BY <3>1, <4>1
    <3>2. CASE i # m /\ i # 0
      <4>1. i - 1 \in 0..m /\ i - 1 < m /\ i < m /\ i \in 0..(m - 1)
        BY <3>2
      <4> QED
        BY <2>1, <3>2, <4>1
    <3>3. CASE i # m /\ i = 0
      <4>1. i < m /\ i \in 0..(m - 1)
        BY <1>3, <3>3
      <4> QED
        BY <2>1, <3>3, <4>1
    <3> QED
      BY <3>1, <3>2, <3>3
  <2> QED
    BY <2>2 DEF Partial
<1> QED
  BY <1>5

LEMMA SumUnfold ==
  ASSUME NEW value, NEW weights, Len(value) \in Nat
  PROVE  \E f : Partial(Len(value), value, weights, f) /\ SumOf(value, weights) = f[Len(value)]
<1> DEFINE sums == CHOOSE sum : Partial(Len(value), value, weights, sum)
<1>1. SumOf(value, weights) = sums[Len(value)]
  BY DEF SumOf, Partial
<1>2. Partial(Len(value), value, weights, sums)
  BY PartialExists
<1> QED
  BY <1>1, <1>2

Weighted(n, weights) == \A i \in 1..n : weights[i] \in Int
Numbers(n, value) == value \in [1..n -> Int]

LEMMA PartialType ==
  ASSUME NEW n \in Nat, NEW value, Numbers(n, value), NEW weights, Weighted(n, weights),
         NEW f, Partial(n, value, weights, f)
  PROVE  /\ \A i \in 0..n : f[i] \in Int
         /\ f[0] = 0
         /\ \A i \in 1..n : f[i] = f[i - 1] + weights[i] * value[i]
<1>1. \A i \in 0..n : f[i] = IF i = 0 THEN 0 ELSE f[i - 1] + weights[i] * value[i]
  BY DEF Partial
<1>2. f[0] = 0
  BY <1>1
<1>3. \A i \in 1..n : f[i] = f[i - 1] + weights[i] * value[i]
  BY <1>1
<1> DEFINE T == {m \in 0..n : f[m] \notin Int}
<1>4. ASSUME T # {} PROVE FALSE
  <2>1. PICK m \in T : \A y \in T : m <= y
    <3>1. T \subseteq Nat
      OBVIOUS
    <3> HIDE DEF T
    <3> QED
      BY <1>4, <3>1, LeastNat
  <2>2. m \in 1..n /\ m - 1 \in 0..n /\ ~(m <= m - 1)
    BY <1>2
  <2>3. f[m - 1] \in Int
    BY <2>1, <2>2
  <2>4. weights[m] \in Int /\ value[m] \in Int
    BY <2>2 DEF Weighted, Numbers
  <2>5. weights[m] * value[m] \in Int
    BY <2>4
  <2> QED
    BY <1>3, <2>2, <2>3, <2>5
<1> QED
  BY <1>2, <1>3, <1>4

LEMMA Added ==
  \A x, y, x0, y0, c, d \in Int :
    x = x0 + c /\ y = y0 + d => x - y = (x0 - y0) + (c - d)
  OBVIOUS

\* The values agree apart from one place.
Agree(n, u, v, p) == \A i \in 1..n : i # p => u[i] = v[i]

\* A sum that differs in one figure.
LEMMA OneChanged ==
  ASSUME NEW n \in Nat, NEW u, Numbers(n, u), NEW v, Numbers(n, v),
         NEW weights, Weighted(n, weights), NEW p \in 1..n,
         Agree(n, u, v, p)
  PROVE  /\ SumOf(u, weights) \in Int /\ SumOf(v, weights) \in Int
         /\ SumOf(u, weights) - SumOf(v, weights) = weights[p] * u[p] - weights[p] * v[p]
<1>1. Len(u) = n /\ Len(v) = n
  BY DEF Numbers
<1>2. PICK f : Partial(n, u, weights, f) /\ SumOf(u, weights) = f[n]
  BY <1>1, SumUnfold
<1>3. PICK g : Partial(n, v, weights, g) /\ SumOf(v, weights) = g[n]
  BY <1>1, SumUnfold
<1>4. /\ \A i \in 0..n : f[i] \in Int
      /\ f[0] = 0
      /\ \A i \in 1..n : f[i] = f[i - 1] + weights[i] * u[i]
  BY <1>2, PartialType
<1>5. /\ \A i \in 0..n : g[i] \in Int
      /\ g[0] = 0
      /\ \A i \in 1..n : g[i] = g[i - 1] + weights[i] * v[i]
  BY <1>3, PartialType
<1> DEFINE a == weights[p] * u[p]
           b == weights[p] * v[p]
           Ok(m) == f[m] - g[m] = IF m < p THEN 0 ELSE a - b
           T == {m \in 0..n : ~Ok(m)}
<1>6. a \in Int /\ b \in Int
  BY DEF Weighted, Numbers
<1>7. ASSUME T # {} PROVE FALSE
  <2>1. PICK m \in T : \A y \in T : m <= y
    <3>1. T \subseteq Nat
      OBVIOUS
    <3> HIDE DEF T
    <3> QED
      BY <1>7, <3>1, LeastNat
  <2>2. Ok(0)
    BY <1>4, <1>5
  <2>3. m \in 1..n /\ m - 1 \in 0..n /\ ~(m <= m - 1)
    <3> HIDE DEF Ok
    <3> QED
      BY <2>2
  <2>4. Ok(m - 1)
    <3> HIDE DEF Ok
    <3> QED
      BY <2>1, <2>3
  <2>5. f[m] = f[m - 1] + weights[m] * u[m] /\ g[m] = g[m - 1] + weights[m] * v[m]
    BY <1>4, <1>5, <2>3
  <2> DEFINE c == weights[m] * u[m]
             d == weights[m] * v[m]
  <2>6. c \in Int /\ d \in Int
    BY <2>3 DEF Weighted, Numbers
  <2>7. IF m = p THEN c = a /\ d = b ELSE c = d
    BY <2>3 DEF Agree
  <2>8. f[m] \in Int /\ g[m] \in Int /\ f[m - 1] \in Int /\ g[m - 1] \in Int
    BY <1>4, <1>5, <2>3
  <2>9. ~Ok(m)
    BY <2>1
  <2>10. f[m] = f[m - 1] + c /\ g[m] = g[m - 1] + d
    BY <2>5
  <2> HIDE DEF a, b, c, d
  <2>11. f[m] - g[m] = (f[m - 1] - g[m - 1]) + (c - d)
    BY <2>6, <2>8, <2>10, Added
  <2>12. CASE m < p
    <3>1. f[m - 1] - g[m - 1] = 0 /\ c - d = 0
      BY <2>3, <2>4, <2>6, <2>7, <2>12
    <3> QED
      BY <2>9, <2>11, <2>12, <3>1
  <2>13. CASE m = p
    <3>1. c = a /\ d = b /\ ~(m < p) /\ m - 1 < p
      BY <2>3, <2>7, <2>13
    <3>2. f[m - 1] - g[m - 1] = 0 /\ c - d = a - b
      BY <2>4, <3>1
    <3> QED
      BY <1>6, <2>9, <2>11, <3>1, <3>2
  <2>14. CASE ~(m < p) /\ m # p
    <3>1. f[m - 1] - g[m - 1] = a - b /\ c - d = 0
      BY <2>3, <2>4, <2>6, <2>7, <2>14
    <3> QED
      BY <1>6, <2>9, <2>11, <2>14, <3>1
  <2> QED
    BY <2>12, <2>13, <2>14
<1>8. Ok(n)
  <2> HIDE DEF Ok
  <2> QED
    BY <1>7
<1>9. ~(n < p) /\ f[n] \in Int /\ g[n] \in Int
  BY <1>4, <1>5
<1> QED
  BY <1>2, <1>3, <1>8, <1>9

\* Two neighbours change places.
Swapped(n, u, v, p) ==
  /\ u[p] = v[p + 1] /\ u[p + 1] = v[p]
  /\ \A i \in 1..n : i # p /\ i # p + 1 => u[i] = v[i]

LEMMA TwoSwapped ==
  ASSUME NEW n \in Nat, NEW u, Numbers(n, u), NEW v, Numbers(n, v),
         NEW weights, Weighted(n, weights), NEW p \in 1..n, p + 1 \in 1..n,
         Swapped(n, u, v, p)
  PROVE  /\ SumOf(u, weights) \in Int /\ SumOf(v, weights) \in Int
         /\ SumOf(u, weights) - SumOf(v, weights) =
              (weights[p] - weights[p + 1]) * (v[p + 1] - v[p])
<1> DEFINE mid == [v EXCEPT ![p] = v[p + 1]]
<1>1. /\ Numbers(n, mid) /\ mid[p] = v[p + 1] /\ mid[p + 1] = v[p + 1]
      /\ Agree(n, mid, v, p)
  BY DEF Agree, Numbers
<1>2. Agree(n, u, mid, p + 1) /\ u[p + 1] = v[p]
  BY <1>1 DEF Agree, Swapped
<1> HIDE DEF mid
<1>3. /\ SumOf(mid, weights) \in Int /\ SumOf(v, weights) \in Int
      /\ SumOf(mid, weights) - SumOf(v, weights) = weights[p] * mid[p] - weights[p] * v[p]
  BY <1>1, OneChanged
<1>4. /\ SumOf(u, weights) \in Int
      /\ SumOf(u, weights) - SumOf(mid, weights) =
           weights[p + 1] * u[p + 1] - weights[p + 1] * mid[p + 1]
  BY <1>1, <1>2, OneChanged
<1>5. \A x, y, z, a, b, c, d \in Int :
        /\ y - z = a * d - a * c
        /\ x - y = b * c - b * d
        => x - z = (a - b) * (d - c)
  OBVIOUS
<1>6. weights[p] \in Int /\ weights[p + 1] \in Int /\ v[p] \in Int /\ v[p + 1] \in Int
  BY DEF Weighted, Numbers
<1>7. SumOf(mid, weights) - SumOf(v, weights) = weights[p] * v[p + 1] - weights[p] * v[p]
  BY <1>1, <1>3
<1>8. SumOf(u, weights) - SumOf(mid, weights) =
        weights[p + 1] * v[p] - weights[p + 1] * v[p + 1]
  BY <1>1, <1>2, <1>4
<1> DEFINE x == SumOf(u, weights)
           y == SumOf(mid, weights)
           z == SumOf(v, weights)
<1>9. /\ x \in Int /\ y \in Int /\ z \in Int
      /\ y - z = weights[p] * v[p + 1] - weights[p] * v[p]
      /\ x - y = weights[p + 1] * v[p] - weights[p + 1] * v[p + 1]
  BY <1>3, <1>4, <1>7, <1>8
<1> HIDE DEF x, y, z
<1>10. x - z = (weights[p] - weights[p + 1]) * (v[p + 1] - v[p])
  BY <1>5, <1>6, <1>9
<1> QED
  BY <1>3, <1>4, <1>10 DEF x, z

LEMMA Differences ==
  /\ \A a, b \in 0..9 : a # b => a - b \in -9..9 /\ a - b # 0
  /\ \A a, b \in 1..10 : a # b => a - b \in -10..10 /\ a - b # 0
  /\ \A a, b, c \in Int : a * b - a * c = a * (b - c)
  OBVIOUS

LEMMA Tens ==
  ASSUME NEW a \in {7, 1, 3}, NEW e \in -9..9, NEW x \in Int, NEW y \in Int,
         x - y = a * e, x % 10 = 0, y % 10 = 0
  PROVE  e = 0
<1>1. CASE a = 7
  BY <1>1
<1>2. CASE a = 1
  BY <1>2
<1>3. CASE a = 3
  BY <1>3
<1> QED
  BY <1>1, <1>2, <1>3

LEMMA EvenTens ==
  ASSUME NEW a \in {6, -2, -4}, NEW e \in -9..9, NEW x \in Int, NEW y \in Int,
         x - y = a * e, x % 10 = 0, y % 10 = 0
  PROVE  e \in {0, 5, -5}
<1>1. CASE a = 6
  BY <1>1
<1>2. CASE a = -2
  BY <1>2
<1>3. CASE a = -4
  BY <1>3
<1> QED
  BY <1>1, <1>2, <1>3

LEMMA Elevens ==
  ASSUME NEW a \in -10..10, a # 0, NEW e \in -9..9, NEW x \in Int, NEW y \in Int,
         x - y = a * e, x % 11 = y % 11
  PROVE  e = 0
<1>1. \A z \in Int, k \in 1..10, f \in -9..9 : z = k * f /\ z % 11 = 0 => f = 0
  <2> SUFFICES ASSUME NEW z \in Int, NEW k \in 1..10, NEW f \in -9..9, z = k * f, z % 11 = 0
               PROVE  f = 0
    OBVIOUS
  <2>1. CASE k \in {1, 2, 3}
    BY <2>1
  <2>2. CASE k \in {4, 5, 6}
    BY <2>2
  <2>3. CASE k \in {7, 8}
    BY <2>3
  <2>4. CASE k \in {9, 10}
    BY <2>4
  <2> QED
    BY <2>1, <2>2, <2>3, <2>4
<1>2. (x - y) % 11 = 0 /\ (y - x) % 11 = 0
  OBVIOUS
<1>3. CASE a > 0
  <2>1. a \in 1..10 /\ x - y \in Int
    BY <1>3
  <2> QED
    BY <1>1, <1>2, <2>1
<1>4. CASE a < 0
  <2>1. -a \in 1..10 /\ y - x \in Int
    BY <1>4
  <2>2. y - x = (-a) * e
    OBVIOUS
  <2> QED
    BY <1>1, <1>2, <2>1, <2>2
<1> QED
  BY <1>3, <1>4

---------------------------------------------------------------------------
(* The account *)

LEMMA AccountTable ==
  /\ \A i \in 1..23 : AccountWeights[i] \in {7, 1, 3}
  /\ \A i \in 1..22 : AccountWeights[i] - AccountWeights[i + 1] \in {6, -2, -4}
  /\ Weighted(23, AccountWeights)
<1>1. \A i \in 1..23 : /\ i % 3 = 1 => AccountWeights[i] = 7
                       /\ i % 3 = 2 => AccountWeights[i] = 1
                       /\ i % 3 = 0 => AccountWeights[i] = 3
  <2> SUFFICES ASSUME NEW i \in 1..23
               PROVE  /\ i % 3 = 1 => AccountWeights[i] = 7
                      /\ i % 3 = 2 => AccountWeights[i] = 1
                      /\ i % 3 = 0 => AccountWeights[i] = 3
    OBVIOUS
  <2>1. AccountWeights[i] = <<7, 1, 3>>[((i - 1) % 3) + 1]
    BY DEF AccountWeights
  <2> QED
    BY <2>1
<1>2. \A i \in 1..23 : AccountWeights[i] \in {7, 1, 3}
  <2> SUFFICES ASSUME NEW i \in 1..23 PROVE AccountWeights[i] \in {7, 1, 3}
    OBVIOUS
  <2>1. i % 3 \in {0, 1, 2}
    OBVIOUS
  <2> QED
    BY <1>1, <2>1
<1>3. ASSUME NEW i \in 1..22
      PROVE  AccountWeights[i] - AccountWeights[i + 1] \in {6, -2, -4}
  <2>1. i \in 1..23 /\ i + 1 \in 1..23
    OBVIOUS
  <2>2. \/ i % 3 = 0 /\ (i + 1) % 3 = 1
        \/ i % 3 = 1 /\ (i + 1) % 3 = 2
        \/ i % 3 = 2 /\ (i + 1) % 3 = 0
    OBVIOUS
  <2>3. \/ AccountWeights[i] = 3 /\ AccountWeights[i + 1] = 7
        \/ AccountWeights[i] = 7 /\ AccountWeights[i + 1] = 1
        \/ AccountWeights[i] = 1 /\ AccountWeights[i + 1] = 3
    BY <1>1, <2>1, <2>2
  <2> QED
    BY <2>3
<1> QED
  BY <1>2, <1>3 DEF Weighted

\* The figures that ValidAccount adds up, and the characters they are read from.
Raw(account, bic) == Prefix(account, bic) \o account
Whole(account, bic) == Ints(Raw(account, bic))

LEMMA ValueTable ==
  ASSUME NEW c \in Char
  PROVE  Value(c) \in Int /\ (c # Odd => Value(c) \in Digits)
  BY DEF Value, Char, Digits, Foreign, Odd

LEMMA IntsTable ==
  ASSUME NEW s \in Seq(Char)
  PROVE  /\ Ints(s) \in Seq(Int) /\ Len(Ints(s)) = Len(s)
         /\ \A i \in 1..Len(s) : Ints(s)[i] = Value(s[i])
         /\ Numeric(s) => Ints(s) \in Seq(Digits)
<1>1. DOMAIN s = 1..Len(s) /\ Len(s) \in Nat /\ \A i \in 1..Len(s) : s[i] \in Char
  BY LenProperties
<1>2. /\ Ints(s) = [i \in 1..Len(s) |-> Value(s[i])]
      /\ \A i \in 1..Len(s) : Value(s[i]) \in Int
  BY <1>1, ValueTable DEF Ints
<1>3. Ints(s) \in Seq(Int) /\ Len(Ints(s)) = Len(s)
  BY <1>1, <1>2
<1>4. ASSUME Numeric(s) PROVE Ints(s) \in Seq(Digits)
  <2>1. \A i \in 1..Len(s) : Value(s[i]) \in Digits
    BY <1>1, <1>4, ValueTable DEF Numeric
  <2> QED
    BY <1>1, <1>2, <2>1
<1> QED
  BY <1>2, <1>3, <1>4

LEMMA CutChars ==
  ASSUME NEW s \in Seq(Char), NEW m \in 1..Len(s), NEW n \in m..Len(s)
  PROVE  /\ SubSeq(s, m, n) \in Seq(Char)
         /\ Len(SubSeq(s, m, n)) = n - m + 1
         /\ \A i \in 1..(n - m + 1) : SubSeq(s, m, n)[i] = s[m + i - 1]
<1>1. m \in Int /\ n \in Int /\ m <= n
  OBVIOUS
<1>2. \A i \in m..n : s[i] \in Char
  OBVIOUS
<1> HIDE DEF Char
<1> QED
  BY <1>1, <1>2, SubSeqProperties

LEMMA CutDigits ==
  ASSUME NEW s \in Seq(Digits), NEW m \in 1..Len(s), NEW n \in m..Len(s)
  PROVE  /\ SubSeq(s, m, n) \in Seq(Digits)
         /\ Len(SubSeq(s, m, n)) = n - m + 1
         /\ \A i \in 1..(n - m + 1) : SubSeq(s, m, n)[i] = s[m + i - 1]
<1>1. m \in Int /\ n \in Int /\ m <= n
  OBVIOUS
<1>2. \A i \in m..n : s[i] \in Digits
  OBVIOUS
<1> HIDE DEF Digits
<1> QED
  BY <1>1, <1>2, SubSeqProperties

LEMMA JoinChars ==
  ASSUME NEW s \in Seq(Char), NEW t \in Seq(Char)
  PROVE  /\ s \o t \in Seq(Char)
         /\ Len(s \o t) = Len(s) + Len(t)
         /\ \A i \in 1..(Len(s) + Len(t)) :
              (s \o t)[i] = IF i <= Len(s) THEN s[i] ELSE t[i - Len(s)]
  BY ConcatProperties

LEMMA RawTable ==
  ASSUME NEW account \in Seq(Char), NEW bic \in Seq(Char), Len(account) = 20, Len(bic) = 9
  PROVE  /\ Raw(account, bic) \in [1..23 -> Char]
         /\ \A i \in 4..23 : Raw(account, bic)[i] = account[i - 3]
         /\ IF IsCorrespondent(account)
            THEN /\ Raw(account, bic)[1] = 0
                 /\ Raw(account, bic)[2] = bic[5] /\ Raw(account, bic)[3] = bic[6]
            ELSE /\ Raw(account, bic)[1] = bic[7]
                 /\ Raw(account, bic)[2] = bic[8] /\ Raw(account, bic)[3] = bic[9]
<1> DEFINE pre == Prefix(account, bic)
<1>1. /\ pre \in Seq(Char) /\ Len(pre) = 3
      /\ IF IsCorrespondent(account)
         THEN pre[1] = 0 /\ pre[2] = bic[5] /\ pre[3] = bic[6]
         ELSE pre[1] = bic[7] /\ pre[2] = bic[8] /\ pre[3] = bic[9]
  <2>1. CASE IsCorrespondent(account)
    <3> DEFINE part == SubSeq(bic, 5, 6)
               zero == <<0>>
    <3>1. part \in Seq(Char) /\ Len(part) = 2 /\ part[1] = bic[5] /\ part[2] = bic[6]
      <4>1. 5 \in 1..Len(bic) /\ 6 \in 5..Len(bic)
        OBVIOUS
      <4>2. /\ part \in Seq(Char) /\ Len(part) = 6 - 5 + 1
            /\ \A i \in 1..(6 - 5 + 1) : part[i] = bic[5 + i - 1]
        BY <4>1, CutChars
      <4>3. part[1] = bic[5 + 1 - 1] /\ part[2] = bic[5 + 2 - 1]
        <5> HIDE DEF part
        <5> QED
          BY <4>2
      <4> HIDE DEF part
      <4> QED
        BY <4>2, <4>3
    <3>2. pre = zero \o part
      BY <2>1 DEF Prefix
    <3>3. zero \in Seq(Char) /\ Len(zero) = 1 /\ zero[1] = 0
      BY DEF Char, Digits
    <3> HIDE DEF part, pre, zero
    <3>4. zero \in Seq(Char) /\ part \in Seq(Char)
      BY <3>1, <3>3
    <3>5. /\ pre \in Seq(Char) /\ Len(pre) = Len(zero) + Len(part)
          /\ \A i \in 1..(Len(zero) + Len(part)) :
               pre[i] = IF i <= Len(zero) THEN zero[i] ELSE part[i - Len(zero)]
      BY <3>2, <3>4, JoinChars
    <3>6. pre[1] = zero[1] /\ pre[2] = part[1] /\ pre[3] = part[2] /\ Len(pre) = 3
      BY <3>1, <3>3, <3>5
    <3> QED
      BY <2>1, <3>1, <3>3, <3>5, <3>6
  <2>2. CASE ~IsCorrespondent(account)
    <3>1. pre = SubSeq(bic, 7, 9)
      BY <2>2 DEF Prefix
    <3>2. 7 \in 1..Len(bic) /\ 9 \in 7..Len(bic)
      OBVIOUS
    <3> HIDE DEF pre
    <3>3. /\ pre \in Seq(Char) /\ Len(pre) = 9 - 7 + 1
          /\ \A i \in 1..(9 - 7 + 1) : pre[i] = bic[7 + i - 1]
      BY <3>1, <3>2, CutChars
    <3>4. pre[1] = bic[7 + 1 - 1] /\ pre[2] = bic[7 + 2 - 1] /\ pre[3] = bic[7 + 3 - 1]
      BY <3>3
    <3> QED
      BY <2>2, <3>3, <3>4
  <2> QED
    BY <2>1, <2>2
<1> HIDE DEF pre
<1> DEFINE all == pre \o account
<1>2. Raw(account, bic) = all
  BY DEF Raw, pre
<1>3. /\ all \in Seq(Char) /\ Len(all) = 23
      /\ \A i \in 1..23 : all[i] = IF i <= 3 THEN pre[i] ELSE account[i - 3]
  <2>1. pre \in Seq(Char) /\ account \in Seq(Char)
    BY <1>1
  <2>2. /\ all \in Seq(Char) /\ Len(all) = Len(pre) + Len(account)
        /\ \A i \in 1..(Len(pre) + Len(account)) :
             all[i] = IF i <= Len(pre) THEN pre[i] ELSE account[i - Len(pre)]
    BY <2>1, JoinChars
  <2> HIDE DEF all
  <2> QED
    BY <1>1, <2>2
<1> HIDE DEF all
<1>4. /\ all \in [1..23 -> Char]
      /\ all[1] = pre[1] /\ all[2] = pre[2] /\ all[3] = pre[3]
  <2>1. all \in [1..Len(all) -> Char]
    BY <1>3, LenProperties
  <2> QED
    BY <1>3, <2>1
<1>5. ASSUME NEW i \in 4..23 PROVE all[i] = account[i - 3]
  <2>1. i \in 1..23 /\ ~(i <= 3)
    OBVIOUS
  <2> QED
    BY <1>3, <2>1
<1> QED
  BY <1>1, <1>2, <1>4, <1>5

\* By position, the figures of the BIC that are put before an account of this
\* type and those of the account itself.
LEMMA WholeTable ==
  ASSUME NEW account \in Seq(Char), NEW bic \in Seq(Char), Len(account) = 20, Len(bic) = 9
  PROVE  /\ Whole(account, bic) \in [1..23 -> Int]
         /\ \A i \in 4..23 : Whole(account, bic)[i] = Ints(account)[i - 3]
         /\ IF IsCorrespondent(account)
            THEN /\ Whole(account, bic)[1] = 0
                 /\ Whole(account, bic)[2] = Ints(bic)[5]
                 /\ Whole(account, bic)[3] = Ints(bic)[6]
            ELSE /\ Whole(account, bic)[1] = Ints(bic)[7]
                 /\ Whole(account, bic)[2] = Ints(bic)[8]
                 /\ Whole(account, bic)[3] = Ints(bic)[9]
<1> DEFINE r == Raw(account, bic)
           w == Whole(account, bic)
<1>1. /\ r \in [1..23 -> Char]
      /\ \A i \in 4..23 : r[i] = account[i - 3]
      /\ IF IsCorrespondent(account)
         THEN r[1] = 0 /\ r[2] = bic[5] /\ r[3] = bic[6]
         ELSE r[1] = bic[7] /\ r[2] = bic[8] /\ r[3] = bic[9]
  BY RawTable
<1>2. w = Ints(r)
  BY DEF Whole
<1> HIDE DEF r, w
<1>3. w = [i \in 1..23 |-> Value(r[i])]
  BY <1>1, <1>2 DEF Ints
<1>4. w \in [1..23 -> Int] /\ w[1] = Value(r[1]) /\ w[2] = Value(r[2]) /\ w[3] = Value(r[3])
  BY <1>1, <1>3, ValueTable
<1>5. /\ Ints(bic)[5] = Value(bic[5]) /\ Ints(bic)[6] = Value(bic[6])
      /\ Ints(bic)[7] = Value(bic[7]) /\ Ints(bic)[8] = Value(bic[8])
      /\ Ints(bic)[9] = Value(bic[9])
  <2>1. \A i \in 1..9 : Ints(bic)[i] = Value(bic[i])
    BY IntsTable
  <2> QED
    BY <2>1
<1>6. Value(0) = 0
  BY DEF Value, Foreign
<1>7. ASSUME NEW i \in 4..23 PROVE w[i] = Ints(account)[i - 3]
  <2>1. i \in 1..23 /\ i - 3 \in 1..Len(account)
    OBVIOUS
  <2>2. w[i] = Value(r[i]) /\ r[i] = account[i - 3]
    BY <1>1, <1>3, <2>1
  <2>3. Ints(account)[i - 3] = Value(account[i - 3])
    BY <2>1, IntsTable
  <2> QED
    BY <2>2, <2>3
<1>8. IF IsCorrespondent(account)
      THEN w[1] = 0 /\ w[2] = Ints(bic)[5] /\ w[3] = Ints(bic)[6]
      ELSE w[1] = Ints(bic)[7] /\ w[2] = Ints(bic)[8] /\ w[3] = Ints(bic)[9]
  BY <1>1, <1>4, <1>5, <1>6
<1> QED
  BY <1>4, <1>7, <1>8 DEF w

\* Accounts of one type get the same digits put before them.
LEMMA WholeSame ==
  ASSUME NEW a \in Seq(Char), NEW b \in Seq(Char), NEW bic \in Seq(Char),
         Len(a) = 20, Len(b) = 20, Len(bic) = 9, IsCorrespondent(a) <=> IsCorrespondent(b)
  PROVE  \A i \in 1..3 : Whole(a, bic)[i] = Whole(b, bic)[i]
<1>1. CASE IsCorrespondent(a)
  <2>1. /\ Whole(a, bic)[1] = 0 /\ Whole(a, bic)[2] = Ints(bic)[5] /\ Whole(a, bic)[3] = Ints(bic)[6]
    BY <1>1, WholeTable
  <2>2. /\ Whole(b, bic)[1] = 0 /\ Whole(b, bic)[2] = Ints(bic)[5] /\ Whole(b, bic)[3] = Ints(bic)[6]
    BY <1>1, WholeTable
  <2> QED
    BY <2>1, <2>2
<1>2. CASE ~IsCorrespondent(a)
  <2>1. /\ Whole(a, bic)[1] = Ints(bic)[7] /\ Whole(a, bic)[2] = Ints(bic)[8] /\ Whole(a, bic)[3] = Ints(bic)[9]
    BY <1>2, WholeTable
  <2>2. /\ Whole(b, bic)[1] = Ints(bic)[7] /\ Whole(b, bic)[2] = Ints(bic)[8] /\ Whole(b, bic)[3] = Ints(bic)[9]
    BY <1>2, WholeTable
  <2> QED
    BY <2>1, <2>2
<1> QED
  BY <1>1, <1>2

LEMMA ValidWhole ==
  ASSUME NEW account \in Seq(Char), NEW bic \in Seq(Char), ValidAccount(account, bic)
  PROVE  /\ Len(account) = 20 /\ Len(bic) = 9
         /\ Whole(account, bic) \in [1..23 -> Digits]
         /\ SumOf(Whole(account, bic), AccountWeights) % 10 = 0
<1> DEFINE r == Raw(account, bic)
<1>1. /\ Len(account) = 20 /\ Len(bic) = 9
      /\ Numeric(r)
      /\ SumOf(Whole(account, bic), AccountWeights) % 10 = 0
  BY DEF ValidAccount, LooksLike, ValidBic, Whole, Raw
<1>2. r \in [1..23 -> Char]
  BY <1>1, RawTable
<1> HIDE DEF r
<1>3. \A i \in 1..23 : Value(r[i]) \in Digits
  BY <1>1, <1>2, ValueTable DEF Numeric
<1>4. Ints(r) \in [1..23 -> Digits]
  BY <1>2, <1>3 DEF Ints
<1> QED
  BY <1>1, <1>4 DEF Whole, r

\* One wrong digit shows.
LEMMA OneWrong ==
  ASSUME NEW u \in [1..23 -> Digits], NEW v \in [1..23 -> Digits], NEW p \in 1..23,
         Agree(23, u, v, p), u[p] # v[p],
         SumOf(u, AccountWeights) % 10 = 0, SumOf(v, AccountWeights) % 10 = 0
  PROVE  FALSE
<1>1. Numbers(23, u) /\ Numbers(23, v)
  BY DEF Numbers, Digits
<1>2. 23 \in Nat /\ Weighted(23, AccountWeights)
  BY AccountTable
<1> DEFINE x == SumOf(u, AccountWeights)
           y == SumOf(v, AccountWeights)
           a == AccountWeights[p]
           e == u[p] - v[p]
<1>3. x \in Int /\ y \in Int /\ x - y = a * u[p] - a * v[p]
  BY <1>1, <1>2, OneChanged
<1>4. a \in {7, 1, 3} /\ u[p] \in 0..9 /\ v[p] \in 0..9 /\ e \in -9..9 /\ e # 0
  BY AccountTable DEF Digits
<1>5. x - y = a * e
  <2> HIDE DEF x, y, a
  <2> QED
    BY <1>3, <1>4
<1> HIDE DEF x, y, a, e
<1>6. x % 10 = 0 /\ y % 10 = 0
  BY DEF x, y
<1> QED
  BY <1>3, <1>4, <1>5, <1>6, Tens

\* Two digits that change places show unless they differ by five.
LEMMA SwapWrong ==
  ASSUME NEW u \in [1..23 -> Digits], NEW v \in [1..23 -> Digits], NEW p \in 1..22,
         Swapped(23, u, v, p),
         SumOf(u, AccountWeights) % 10 = 0, SumOf(v, AccountWeights) % 10 = 0
  PROVE  v[p + 1] - v[p] \in {0, 5, -5}
<1>1. Numbers(23, u) /\ Numbers(23, v)
  BY DEF Numbers, Digits
<1>2. 23 \in Nat /\ Weighted(23, AccountWeights) /\ p \in 1..23 /\ p + 1 \in 1..23
  BY AccountTable
<1> DEFINE x == SumOf(u, AccountWeights)
           y == SumOf(v, AccountWeights)
           a == AccountWeights[p] - AccountWeights[p + 1]
           e == v[p + 1] - v[p]
<1>3. x \in Int /\ y \in Int /\ x - y = a * e
  <2>1. /\ SumOf(u, AccountWeights) \in Int /\ SumOf(v, AccountWeights) \in Int
        /\ SumOf(u, AccountWeights) - SumOf(v, AccountWeights) =
             (AccountWeights[p] - AccountWeights[p + 1]) * (v[p + 1] - v[p])
    BY <1>1, <1>2, TwoSwapped
  <2> QED
    BY <2>1
<1>4. a \in {6, -2, -4}
  BY AccountTable
<1>5. e \in -9..9
  BY <1>2 DEF Digits
<1>6. x % 10 = 0 /\ y % 10 = 0
  OBVIOUS
<1> HIDE DEF x, y, a, e
<1>7. e \in {0, 5, -5}
  BY <1>3, <1>4, <1>5, <1>6, EvenTens
<1> QED
  BY <1>7 DEF e

---------------------------------------------------------------------------
(* Slips in accounts and in the BIC *)

\* The right value and what was typed instead.
MistypedAt(v, u, i) ==
  /\ i \in 1..Len(v) /\ Len(u) = Len(v)
  /\ u[i] # v[i]
  /\ Agree(Len(v), u, v, i)

TransposedAt(v, u, i) ==
  /\ i \in 1..Len(v) /\ i + 1 \in 1..Len(v) /\ Len(u) = Len(v)
  /\ v[i] # v[i + 1]
  /\ Swapped(Len(v), u, v, i)

LEMMA AccountMistyped ==
  ASSUME NEW old \in Seq(Char), NEW new \in Seq(Char), NEW bic \in Seq(Char),
         ValidAccount(old, bic), ValidAccount(new, bic),
         IsCorrespondent(old) <=> IsCorrespondent(new),
         NEW i, MistypedAt(Ints(old), Ints(new), i)
  PROVE  FALSE
<1> DEFINE v == Whole(old, bic)
           u == Whole(new, bic)
           a == Ints(old)
           b == Ints(new)
<1>0. /\ Len(old) = 20 /\ Len(new) = 20 /\ Len(bic) = 9
      /\ v \in [1..23 -> Digits] /\ u \in [1..23 -> Digits]
      /\ SumOf(v, AccountWeights) % 10 = 0 /\ SumOf(u, AccountWeights) % 10 = 0
  BY ValidWhole
<1>1. /\ Len(a) = 20 /\ Len(b) = 20
      /\ v \in [1..23 -> Digits] /\ u \in [1..23 -> Digits]
      /\ SumOf(v, AccountWeights) % 10 = 0 /\ SumOf(u, AccountWeights) % 10 = 0
  BY <1>0, IntsTable
<1>2. /\ \A k \in 4..23 : v[k] = a[k - 3]
      /\ \A k \in 4..23 : u[k] = b[k - 3]
      /\ \A k \in 1..3 : v[k] = u[k]
  <2>1. \A k \in 4..23 : v[k] = a[k - 3]
    BY <1>0, WholeTable
  <2>2. \A k \in 4..23 : u[k] = b[k - 3]
    BY <1>0, WholeTable
  <2>3. \A k \in 1..3 : v[k] = u[k]
    BY <1>0, WholeSame
  <2> QED
    BY <2>1, <2>2, <2>3
<1>3. i \in 1..20 /\ b[i] # a[i] /\ \A k \in 1..20 : k # i => b[k] = a[k]
  BY <1>1 DEF MistypedAt, Agree
<1> HIDE DEF u, v, a, b
<1>4. i + 3 \in 1..23 /\ u[i + 3] # v[i + 3]
  <2>1. i + 3 \in 4..23 /\ (i + 3) - 3 = i /\ i + 3 \in 1..23
    BY <1>3
  <2>2. v[i + 3] = a[(i + 3) - 3] /\ u[i + 3] = b[(i + 3) - 3]
    BY <1>2, <2>1
  <2>3. v[i + 3] = a[i] /\ u[i + 3] = b[i]
    BY <2>1, <2>2
  <2> QED
    BY <1>3, <2>1, <2>3
<1>5. ASSUME NEW k \in 1..23, k # i + 3 PROVE u[k] = v[k]
  <2>1. CASE k \in 1..3
    BY <1>2, <2>1
  <2>2. CASE k \in 4..23
    <3>1. k - 3 \in 1..20 /\ k - 3 # i
      BY <1>3, <1>5, <2>2
    <3>2. v[k] = a[k - 3] /\ u[k] = b[k - 3]
      BY <1>2, <2>2
    <3>3. b[k - 3] = a[k - 3]
      BY <1>3, <3>1
    <3> QED
      BY <3>2, <3>3
  <2> QED
    BY <2>1, <2>2
<1>6. Agree(23, u, v, i + 3)
  BY <1>5 DEF Agree
<1> QED
  BY <1>1, <1>4, <1>6, OneWrong

LEMMA AccountTransposed ==
  ASSUME NEW old \in Seq(Char), NEW new \in Seq(Char), NEW bic \in Seq(Char),
         ValidAccount(old, bic), ValidAccount(new, bic),
         IsCorrespondent(old) <=> IsCorrespondent(new),
         NEW i, TransposedAt(Ints(old), Ints(new), i)
  PROVE  /\ Ints(old)[i + 1] - Ints(old)[i] \in {0, 5, -5}
         /\ Ints(old)[i] \in Int /\ Ints(old)[i + 1] \in Int
<1> DEFINE v == Whole(old, bic)
           u == Whole(new, bic)
           a == Ints(old)
           b == Ints(new)
<1>0. /\ Len(old) = 20 /\ Len(new) = 20 /\ Len(bic) = 9
      /\ v \in [1..23 -> Digits] /\ u \in [1..23 -> Digits]
      /\ SumOf(v, AccountWeights) % 10 = 0 /\ SumOf(u, AccountWeights) % 10 = 0
  BY ValidWhole
<1>1. /\ Len(a) = 20 /\ Len(b) = 20
      /\ v \in [1..23 -> Digits] /\ u \in [1..23 -> Digits]
      /\ SumOf(v, AccountWeights) % 10 = 0 /\ SumOf(u, AccountWeights) % 10 = 0
  BY <1>0, IntsTable
<1>2. /\ \A k \in 4..23 : v[k] = a[k - 3]
      /\ \A k \in 4..23 : u[k] = b[k - 3]
      /\ \A k \in 1..3 : v[k] = u[k]
  <2>1. \A k \in 4..23 : v[k] = a[k - 3]
    BY <1>0, WholeTable
  <2>2. \A k \in 4..23 : u[k] = b[k - 3]
    BY <1>0, WholeTable
  <2>3. \A k \in 1..3 : v[k] = u[k]
    BY <1>0, WholeSame
  <2> QED
    BY <2>1, <2>2, <2>3
<1>3. /\ i \in 1..20 /\ i + 1 \in 1..20
      /\ b[i] = a[i + 1] /\ b[i + 1] = a[i]
      /\ \A k \in 1..20 : k # i /\ k # i + 1 => b[k] = a[k]
  BY <1>1 DEF TransposedAt, Swapped
<1> HIDE DEF u, v, a, b
<1>4. i + 3 \in 1..22 /\ (i + 3) + 1 \in 1..23 /\ (i + 1) + 3 = (i + 3) + 1
  <2>1. i \in 1..20 /\ i + 1 \in 1..20
    BY <1>3
  <2> QED
    BY <2>1
<1>5. /\ v[i + 3] = a[i] /\ v[(i + 3) + 1] = a[i + 1]
      /\ u[i + 3] = b[i] /\ u[(i + 3) + 1] = b[i + 1]
  <2>1. /\ i + 3 \in 4..23 /\ (i + 3) - 3 = i
        /\ (i + 3) + 1 \in 4..23 /\ ((i + 3) + 1) - 3 = i + 1
    BY <1>3
  <2>2. /\ v[i + 3] = a[(i + 3) - 3] /\ u[i + 3] = b[(i + 3) - 3]
        /\ v[(i + 3) + 1] = a[((i + 3) + 1) - 3] /\ u[(i + 3) + 1] = b[((i + 3) + 1) - 3]
    BY <1>2, <2>1
  <2> QED
    BY <2>1, <2>2
<1>6. ASSUME NEW k \in 1..23, k # i + 3, k # (i + 3) + 1 PROVE u[k] = v[k]
  <2>1. CASE k \in 1..3
    BY <1>2, <2>1
  <2>2. CASE k \in 4..23
    <3>1. k - 3 \in 1..20 /\ k - 3 # i /\ k - 3 # i + 1
      BY <1>3, <1>6, <2>2
    <3>2. v[k] = a[k - 3] /\ u[k] = b[k - 3]
      BY <1>2, <2>2
    <3>3. b[k - 3] = a[k - 3]
      BY <1>3, <3>1
    <3> QED
      BY <3>2, <3>3
  <2> QED
    BY <2>1, <2>2
<1>7. Swapped(23, u, v, i + 3)
  BY <1>3, <1>5, <1>6 DEF Swapped
<1>8. v[(i + 3) + 1] - v[i + 3] \in {0, 5, -5}
  BY <1>1, <1>4, <1>7, SwapWrong
<1>9. v[i + 3] \in Int /\ v[(i + 3) + 1] \in Int
  <2>1. i + 3 \in 1..23
    BY <1>4
  <2>2. v[i + 3] \in Digits /\ v[(i + 3) + 1] \in Digits
    BY <1>1, <1>4, <2>1
  <2> QED
    BY <2>2 DEF Digits
<1> QED
  BY <1>5, <1>8, <1>9 DEF a

\* The places of the BIC an account is checked with.
PlacesOf(account) == IF IsCorrespondent(account) THEN {5, 6} ELSE {7, 8, 9}

\* Where they stand before the account.
StandsAt(account, i) == IF IsCorrespondent(account) THEN i - 3 ELSE i - 6

LEMMA PrefixPlaces ==
  ASSUME NEW account \in Seq(Char), NEW old \in Seq(Char), NEW new \in Seq(Char),
         ValidAccount(account, old), ValidAccount(account, new)
  PROVE  /\ \A i \in PlacesOf(account) :
              /\ i \in 1..9 /\ StandsAt(account, i) \in 1..3
              /\ Whole(account, old)[StandsAt(account, i)] = Ints(old)[i]
              /\ Whole(account, new)[StandsAt(account, i)] = Ints(new)[i]
         /\ \A k \in 1..23 :
              \/ \E i \in PlacesOf(account) : k = StandsAt(account, i)
              \/ Whole(account, old)[k] = Whole(account, new)[k]
<1> DEFINE v == Whole(account, old)
           u == Whole(account, new)
           b == Ints(old)
           c == Ints(new)
<1>1. Len(account) = 20 /\ Len(old) = 9 /\ Len(new) = 9
  BY ValidWhole
<1>2. /\ \A k \in 4..23 : v[k] = Ints(account)[k - 3]
      /\ \A k \in 4..23 : u[k] = Ints(account)[k - 3]
      /\ IsCorrespondent(account) =>
           /\ v[1] = 0 /\ v[2] = b[5] /\ v[3] = b[6]
           /\ u[1] = 0 /\ u[2] = c[5] /\ u[3] = c[6]
      /\ ~IsCorrespondent(account) =>
           /\ v[1] = b[7] /\ v[2] = b[8] /\ v[3] = b[9]
           /\ u[1] = c[7] /\ u[2] = c[8] /\ u[3] = c[9]
  <2>1. /\ \A k \in 4..23 : v[k] = Ints(account)[k - 3]
        /\ IF IsCorrespondent(account)
           THEN v[1] = 0 /\ v[2] = b[5] /\ v[3] = b[6]
           ELSE v[1] = b[7] /\ v[2] = b[8] /\ v[3] = b[9]
    BY <1>1, WholeTable
  <2>2. /\ \A k \in 4..23 : u[k] = Ints(account)[k - 3]
        /\ IF IsCorrespondent(account)
           THEN u[1] = 0 /\ u[2] = c[5] /\ u[3] = c[6]
           ELSE u[1] = c[7] /\ u[2] = c[8] /\ u[3] = c[9]
    BY <1>1, WholeTable
  <2> HIDE DEF u, v, b, c
  <2> QED
    BY <2>1, <2>2
<1> HIDE DEF u, v, b, c
<1>3. \A k \in 4..23 : v[k] = u[k]
  BY <1>2
<1>4. ASSUME NEW i \in PlacesOf(account)
      PROVE  /\ i \in 1..9 /\ StandsAt(account, i) \in 1..3
             /\ v[StandsAt(account, i)] = b[i] /\ u[StandsAt(account, i)] = c[i]
  <2>1. CASE IsCorrespondent(account)
    <3>1. i \in {5, 6} /\ StandsAt(account, 5) = 2 /\ StandsAt(account, 6) = 3
      BY <2>1 DEF PlacesOf, StandsAt
    <3>2. v[2] = b[5] /\ u[2] = c[5] /\ v[3] = b[6] /\ u[3] = c[6]
      BY <1>2, <2>1
    <3>3. CASE i = 5
      BY <3>1, <3>2, <3>3
    <3>4. CASE i = 6
      BY <3>1, <3>2, <3>4
    <3> QED
      BY <3>1, <3>3, <3>4
  <2>2. CASE ~IsCorrespondent(account)
    <3>1. /\ i \in {7, 8, 9} /\ StandsAt(account, 7) = 1
          /\ StandsAt(account, 8) = 2 /\ StandsAt(account, 9) = 3
      BY <2>2 DEF PlacesOf, StandsAt
    <3>2. /\ v[1] = b[7] /\ u[1] = c[7] /\ v[2] = b[8] /\ u[2] = c[8]
          /\ v[3] = b[9] /\ u[3] = c[9]
      BY <1>2, <2>2
    <3>3. CASE i = 7
      BY <3>1, <3>2, <3>3
    <3>4. CASE i = 8
      BY <3>1, <3>2, <3>4
    <3>5. CASE i = 9
      BY <3>1, <3>2, <3>5
    <3> QED
      BY <3>1, <3>3, <3>4, <3>5
  <2> QED
    BY <2>1, <2>2
<1>5. ASSUME NEW k \in 1..23
      PROVE  \/ \E i \in PlacesOf(account) : k = StandsAt(account, i)
             \/ v[k] = u[k]
  <2>1. CASE k \in 4..23
    BY <1>3, <2>1
  <2>2. CASE k \in {1, 2, 3} /\ IsCorrespondent(account)
    <3>1. PlacesOf(account) = {5, 6} /\ StandsAt(account, 5) = 2 /\ StandsAt(account, 6) = 3
      BY <2>2 DEF PlacesOf, StandsAt
    <3> QED
      BY <1>2, <2>2, <3>1
  <2>3. CASE k \in {1, 2, 3} /\ ~IsCorrespondent(account)
    <3>1. /\ PlacesOf(account) = {7, 8, 9} /\ StandsAt(account, 7) = 1
          /\ StandsAt(account, 8) = 2 /\ StandsAt(account, 9) = 3
      BY <2>3 DEF PlacesOf, StandsAt
    <3> QED
      BY <2>3, <3>1
  <2> QED
    BY <2>1, <2>2, <2>3
<1> QED
  BY <1>4, <1>5 DEF u, v, b, c

\* One digit of the BIC that is put before the account is wrong.
LEMMA BicOne ==
  ASSUME NEW account \in Seq(Char), NEW old \in Seq(Char), NEW new \in Seq(Char),
         ValidAccount(account, old), ValidAccount(account, new),
         NEW i \in PlacesOf(account), Ints(new)[i] # Ints(old)[i],
         \A k \in PlacesOf(account) : k # i => Ints(new)[k] = Ints(old)[k]
  PROVE  FALSE
<1> DEFINE v == Whole(account, old)
           u == Whole(account, new)
           b == Ints(old)
           c == Ints(new)
           p == StandsAt(account, i)
<1>1. /\ v \in [1..23 -> Digits] /\ u \in [1..23 -> Digits]
      /\ SumOf(v, AccountWeights) % 10 = 0 /\ SumOf(u, AccountWeights) % 10 = 0
  BY ValidWhole
<1>2. \A k \in PlacesOf(account) :
        /\ StandsAt(account, k) \in 1..3
        /\ v[StandsAt(account, k)] = b[k] /\ u[StandsAt(account, k)] = c[k]
  BY PrefixPlaces
<1>3. \A k \in 1..23 : \/ \E j \in PlacesOf(account) : k = StandsAt(account, j)
                       \/ v[k] = u[k]
  BY PrefixPlaces
<1>7. \A k \in PlacesOf(account) : k # i => c[k] = b[k]
  OBVIOUS
<1> HIDE DEF u, v, b, c
<1>4. p \in 1..23 /\ u[p] # v[p]
  BY <1>2 DEF b, c
<1>5. ASSUME NEW k \in 1..23, k # p PROVE u[k] = v[k]
  <2>1. CASE v[k] = u[k]
    BY <2>1
  <2>2. CASE \E j \in PlacesOf(account) : k = StandsAt(account, j)
    <3>1. PICK j \in PlacesOf(account) : k = StandsAt(account, j)
      BY <2>2
    <3>2. c[j] = b[j]
      BY <1>5, <1>7, <3>1
    <3> QED
      BY <1>2, <3>1, <3>2
  <2> QED
    BY <1>3, <2>1, <2>2
<1> HIDE DEF p
<1>6. Agree(23, u, v, p)
  BY <1>5 DEF Agree
<1> QED
  BY <1>1, <1>4, <1>6, OneWrong

\* Two digits of the BIC that are put before the account change places.
LEMMA BicTwo ==
  ASSUME NEW account \in Seq(Char), NEW old \in Seq(Char), NEW new \in Seq(Char),
         ValidAccount(account, old), ValidAccount(account, new),
         NEW i \in PlacesOf(account), i + 1 \in PlacesOf(account),
         Ints(new)[i] = Ints(old)[i + 1], Ints(new)[i + 1] = Ints(old)[i],
         \A k \in PlacesOf(account) : k # i /\ k # i + 1 => Ints(new)[k] = Ints(old)[k]
  PROVE  /\ Ints(old)[i + 1] - Ints(old)[i] \in {0, 5, -5}
         /\ Ints(old)[i] \in Int /\ Ints(old)[i + 1] \in Int
<1> DEFINE v == Whole(account, old)
           u == Whole(account, new)
           b == Ints(old)
           c == Ints(new)
           p == StandsAt(account, i)
<1>1. /\ v \in [1..23 -> Digits] /\ u \in [1..23 -> Digits]
      /\ SumOf(v, AccountWeights) % 10 = 0 /\ SumOf(u, AccountWeights) % 10 = 0
  BY ValidWhole
<1>2. \A k \in PlacesOf(account) :
        /\ StandsAt(account, k) \in 1..3
        /\ v[StandsAt(account, k)] = b[k] /\ u[StandsAt(account, k)] = c[k]
  BY PrefixPlaces
<1>3. \A k \in 1..23 : \/ \E j \in PlacesOf(account) : k = StandsAt(account, j)
                       \/ v[k] = u[k]
  BY PrefixPlaces
<1>11. /\ c[i] = b[i + 1] /\ c[i + 1] = b[i]
       /\ \A k \in PlacesOf(account) : k # i /\ k # i + 1 => c[k] = b[k]
  OBVIOUS
<1> HIDE DEF u, v, b, c
<1>4. p \in 1..22 /\ p + 1 \in 1..23 /\ StandsAt(account, i + 1) = p + 1
  BY <1>2 DEF StandsAt, PlacesOf
<1>5. v[p] = b[i] /\ u[p] = c[i] /\ v[p + 1] = b[i + 1] /\ u[p + 1] = c[i + 1]
  <2>1. /\ v[StandsAt(account, i)] = b[i] /\ u[StandsAt(account, i)] = c[i]
        /\ v[StandsAt(account, i + 1)] = b[i + 1] /\ u[StandsAt(account, i + 1)] = c[i + 1]
    BY <1>2
  <2> QED
    BY <1>4, <2>1
<1>6. ASSUME NEW k \in 1..23, k # p, k # p + 1 PROVE u[k] = v[k]
  <2>1. CASE v[k] = u[k]
    BY <2>1
  <2>2. CASE \E j \in PlacesOf(account) : k = StandsAt(account, j)
    <3>1. PICK j \in PlacesOf(account) : k = StandsAt(account, j)
      BY <2>2
    <3>2. j # i /\ j # i + 1
      BY <1>4, <1>6, <3>1
    <3>3. c[j] = b[j]
      BY <1>11, <3>1, <3>2
    <3> QED
      BY <1>2, <3>1, <3>3
  <2> QED
    BY <1>3, <2>1, <2>2
<1> HIDE DEF p
<1>7. Swapped(23, u, v, p)
  BY <1>5, <1>6, <1>11 DEF Swapped
<1>8. v[p + 1] - v[p] \in {0, 5, -5}
  BY <1>1, <1>4, <1>7, SwapWrong
<1>9. v[p] \in Digits /\ v[p + 1] \in Digits
  <2>1. p \in 1..23
    BY <1>4
  <2> QED
    BY <1>1, <1>4, <2>1
<1>10. v[p] \in Int /\ v[p + 1] \in Int
  BY <1>9 DEF Digits
<1> QED
  BY <1>5, <1>8, <1>10 DEF b

---------------------------------------------------------------------------
(* Slips in the INN *)

\* The weights of a control digit: none is a multiple of eleven, and no two
\* neighbours are the same.
GoodWeights(weights) ==
  /\ \A i \in 1..Len(weights) : weights[i] \in 1..10
  /\ \A i \in 1..(Len(weights) - 1) : weights[i] # weights[i + 1]

PutBefore(x, s) == <<x>> \o s

LEMMA JoinInts ==
  ASSUME NEW s \in Seq(Int), NEW t \in Seq(Int)
  PROVE  /\ s \o t \in Seq(Int)
         /\ Len(s \o t) = Len(s) + Len(t)
         /\ \A i \in 1..(Len(s) + Len(t)) :
              (s \o t)[i] = IF i <= Len(s) THEN s[i] ELSE t[i - Len(s)]
  BY ConcatProperties

LEMMA MoreWeights ==
  ASSUME NEW s \in Seq(Int), Len(s) > 0, GoodWeights(s), NEW x \in 1..10, x # s[1]
  PROVE  /\ PutBefore(x, s) \in Seq(Int)
         /\ Len(PutBefore(x, s)) = Len(s) + 1
         /\ PutBefore(x, s)[1] = x
         /\ GoodWeights(PutBefore(x, s))
<1> DEFINE one == <<x>>
           r == PutBefore(x, s)
<1>1. one \in Seq(Int) /\ Len(one) = 1 /\ one[1] = x
  OBVIOUS
<1>2. r = one \o s
  BY DEF PutBefore
<1> HIDE DEF one, r
<1>3. /\ r \in Seq(Int) /\ Len(r) = Len(one) + Len(s)
      /\ \A i \in 1..(Len(one) + Len(s)) :
           r[i] = IF i <= Len(one) THEN one[i] ELSE s[i - Len(one)]
  BY <1>1, <1>2, JoinInts
<1>4. Len(s) \in Nat
  OBVIOUS
<1>5. /\ Len(r) = Len(s) + 1
      /\ \A i \in 1..(Len(s) + 1) : r[i] = IF i <= 1 THEN one[i] ELSE s[i - 1]
  BY <1>1, <1>3, <1>4
<1>6. r[1] = x
  BY <1>1, <1>4, <1>5
<1>7. ASSUME NEW i \in 1..Len(r) PROVE r[i] \in 1..10
  <2>1. CASE i = 1
    BY <1>6, <2>1
  <2>2. CASE i # 1
    <3>1. i - 1 \in 1..Len(s) /\ r[i] = s[i - 1]
      BY <1>4, <1>5, <2>2
    <3> QED
      BY <3>1 DEF GoodWeights
  <2> QED
    BY <2>1, <2>2
<1>8. ASSUME NEW i \in 1..(Len(r) - 1) PROVE r[i] # r[i + 1]
  <2>1. r[i + 1] = s[i]
    <3>1. i + 1 \in 1..(Len(s) + 1) /\ ~(i + 1 <= 1) /\ (i + 1) - 1 = i
      BY <1>4, <1>5
    <3>2. r[i + 1] = s[(i + 1) - 1]
      BY <1>5, <3>1
    <3> QED
      BY <3>1, <3>2
  <2>2. CASE i = 1
    BY <1>6, <2>1, <2>2
  <2>3. CASE i # 1
    <3>1. i - 1 \in 1..(Len(s) - 1) /\ (i - 1) + 1 = i
      BY <1>4, <1>5, <2>3
    <3>2. r[i] = s[i - 1]
      BY <1>4, <1>5, <2>3
    <3>3. s[i - 1] # s[(i - 1) + 1]
      BY <3>1 DEF GoodWeights
    <3> QED
      BY <2>1, <3>1, <3>2, <3>3
  <2> QED
    BY <2>2, <2>3
<1> QED
  BY <1>3, <1>5, <1>6, <1>7, <1>8 DEF GoodWeights, r

LEMMA InnWeights ==
  /\ GoodWeights(CompanyWeights) /\ Len(CompanyWeights) = 9
  /\ GoodWeights(PersonWeightsFirst) /\ Len(PersonWeightsFirst) = 10
  /\ GoodWeights(PersonWeightsSecond) /\ Len(PersonWeightsSecond) = 11
<1>1. /\ CompanyWeights \in Seq(Int) /\ Len(CompanyWeights) = 9 /\ CompanyWeights[1] = 2
      /\ GoodWeights(CompanyWeights)
  BY DEF GoodWeights, CompanyWeights
<1>2. /\ PersonWeightsFirst \in Seq(Int) /\ Len(PersonWeightsFirst) = 10
      /\ PersonWeightsFirst[1] = 7 /\ GoodWeights(PersonWeightsFirst)
  <2>1. PersonWeightsFirst = PutBefore(7, CompanyWeights)
    BY DEF PersonWeightsFirst, PutBefore
  <2>2. 7 \in 1..10 /\ 7 # CompanyWeights[1] /\ Len(CompanyWeights) > 0
    BY <1>1
  <2>3. CompanyWeights \in Seq(Int) /\ GoodWeights(CompanyWeights)
    BY <1>1
  <2>4. /\ PutBefore(7, CompanyWeights) \in Seq(Int)
        /\ Len(PutBefore(7, CompanyWeights)) = Len(CompanyWeights) + 1
        /\ PutBefore(7, CompanyWeights)[1] = 7
        /\ GoodWeights(PutBefore(7, CompanyWeights))
    BY <2>2, <2>3, MoreWeights
  <2> QED
    BY <1>1, <2>1, <2>4
<1>3. Len(PersonWeightsSecond) = 11 /\ GoodWeights(PersonWeightsSecond)
  <2>1. PersonWeightsSecond = PutBefore(3, PersonWeightsFirst)
    BY DEF PersonWeightsSecond, PutBefore
  <2>2. 3 \in 1..10 /\ 3 # PersonWeightsFirst[1] /\ Len(PersonWeightsFirst) > 0
    BY <1>2
  <2>3. PersonWeightsFirst \in Seq(Int) /\ GoodWeights(PersonWeightsFirst)
    BY <1>2
  <2>4. /\ PutBefore(3, PersonWeightsFirst) \in Seq(Int)
        /\ Len(PutBefore(3, PersonWeightsFirst)) = Len(PersonWeightsFirst) + 1
        /\ PutBefore(3, PersonWeightsFirst)[1] = 3
        /\ GoodWeights(PutBefore(3, PersonWeightsFirst))
    BY <2>2, <2>3, MoreWeights
  <2> QED
    BY <1>2, <2>1, <2>4
<1> QED
  BY <1>1, <1>2, <1>3

\* The digits a control digit is made of.
LEMMA Beginning ==
  ASSUME NEW v \in Seq(Digits), NEW n \in 1..Len(v)
  PROVE  /\ SubSeq(v, 1, n) \in [1..n -> Digits]
         /\ \A k \in 1..n : SubSeq(v, 1, n)[k] = v[k]
<1> DEFINE part == SubSeq(v, 1, n)
<1>1. 1 \in 1..Len(v) /\ n \in 1..Len(v)
  OBVIOUS
<1>2. /\ part \in Seq(Digits) /\ Len(part) = n - 1 + 1
      /\ \A k \in 1..(n - 1 + 1) : part[k] = v[1 + k - 1]
  BY <1>1, CutDigits
<1> HIDE DEF part
<1>3. part \in [1..Len(part) -> Digits] /\ Len(part) = n
  BY <1>2, LenProperties
<1>4. \A k \in 1..n : part[k] = v[k]
  BY <1>2
<1> QED
  BY <1>3, <1>4 DEF part

LEMMA RemainderType ==
  ASSUME NEW v \in Seq(Digits), NEW weights, NEW n \in 1..Len(v),
         Len(weights) = n, GoodWeights(weights)
  PROVE  Weighted(n, weights) /\ Numbers(n, SubSeq(v, 1, n))
<1>1. SubSeq(v, 1, n) \in [1..n -> Digits]
  BY Beginning
<1> DEFINE part == SubSeq(v, 1, n)
<1> HIDE DEF part
<1>2. part \in [1..n -> Digits]
  BY <1>1 DEF part
<1>3. Numbers(n, part)
  BY <1>2 DEF Numbers, Digits
<1> QED
  BY <1>3 DEF GoodWeights, Weighted, part

\* A wrong digit changes the remainder.
LEMMA InnMistyped ==
  ASSUME NEW v \in Seq(Digits), NEW u \in Seq(Digits),
         NEW weights, NEW n \in 1..Len(v), Len(weights) = n, GoodWeights(weights),
         NEW i \in 1..n, MistypedAt(v, u, i)
  PROVE  Remainder(u, weights) # Remainder(v, weights)
<1> DEFINE s == SubSeq(v, 1, n)
           t == SubSeq(u, 1, n)
<1>1. n \in 1..Len(u)
  BY DEF MistypedAt
<1>2. /\ s \in [1..n -> Digits] /\ \A k \in 1..n : s[k] = v[k]
      /\ t \in [1..n -> Digits] /\ \A k \in 1..n : t[k] = u[k]
  BY <1>1, Beginning
<1>3. Weighted(n, weights) /\ Numbers(n, s) /\ Numbers(n, t) /\ n \in Nat
  <2>1. Weighted(n, weights) /\ Numbers(n, s)
    BY RemainderType
  <2>2. Numbers(n, t)
    BY <1>1, RemainderType
  <2> QED
    BY <2>1, <2>2
<1>4. Remainder(v, weights) = SumOf(s, weights) % 11 /\ Remainder(u, weights) = SumOf(t, weights) % 11
  BY DEF Remainder
<1> HIDE DEF s, t
<1>5. Agree(n, t, s, i)
  <2>1. \A k \in 1..n : k \in 1..Len(v)
    OBVIOUS
  <2> QED
    BY <1>2, <2>1 DEF Agree, MistypedAt
<1> DEFINE x == SumOf(t, weights)
           y == SumOf(s, weights)
           a == weights[i]
           e == t[i] - s[i]
<1>6. x \in Int /\ y \in Int /\ x - y = a * t[i] - a * s[i]
  BY <1>3, <1>5, OneChanged
<1>7. a \in 1..10
  BY DEF GoodWeights
<1>8. t[i] \in 0..9 /\ s[i] \in 0..9 /\ t[i] # s[i]
  BY <1>2 DEF Digits, MistypedAt
<1>9. e \in -9..9 /\ e # 0
  BY <1>8, Differences
<1>10. x - y = a * e
  <2>1. a \in Int /\ t[i] \in Int /\ s[i] \in Int
    BY <1>7, <1>8
  <2>2. a * t[i] - a * s[i] = a * (t[i] - s[i])
    <3> HIDE DEF a
    <3> QED
      BY <2>1, Differences
  <2> QED
    BY <1>6, <2>2
<1> HIDE DEF x, y, a, e
<1>11. a \in -10..10 /\ a # 0
  BY <1>7
<1>12. x % 11 # y % 11
  BY <1>6, <1>9, <1>10, <1>11, Elevens
<1> QED
  BY <1>4, <1>12 DEF x, y

\* Two digits that change places do.
LEMMA InnTransposed ==
  ASSUME NEW v \in Seq(Digits), NEW u \in Seq(Digits),
         NEW weights, NEW n \in 1..Len(v), Len(weights) = n, GoodWeights(weights),
         NEW i \in 1..n, i + 1 \in 1..n, TransposedAt(v, u, i)
  PROVE  Remainder(u, weights) # Remainder(v, weights)
<1> DEFINE s == SubSeq(v, 1, n)
           t == SubSeq(u, 1, n)
<1>1. n \in 1..Len(u)
  BY DEF TransposedAt
<1>2. /\ s \in [1..n -> Digits] /\ \A k \in 1..n : s[k] = v[k]
      /\ t \in [1..n -> Digits] /\ \A k \in 1..n : t[k] = u[k]
  BY <1>1, Beginning
<1>3. Weighted(n, weights) /\ Numbers(n, s) /\ Numbers(n, t) /\ n \in Nat
  <2>1. Weighted(n, weights) /\ Numbers(n, s)
    BY RemainderType
  <2>2. Numbers(n, t)
    BY <1>1, RemainderType
  <2> QED
    BY <2>1, <2>2
<1>4. Remainder(v, weights) = SumOf(s, weights) % 11 /\ Remainder(u, weights) = SumOf(t, weights) % 11
  BY DEF Remainder
<1> HIDE DEF s, t
<1>5. Swapped(n, t, s, i)
  <2>1. \A k \in 1..n : k \in 1..Len(v)
    OBVIOUS
  <2> QED
    BY <1>2, <2>1 DEF Swapped, TransposedAt
<1> DEFINE x == SumOf(t, weights)
           y == SumOf(s, weights)
           a == weights[i] - weights[i + 1]
           e == s[i + 1] - s[i]
<1>6. x \in Int /\ y \in Int /\ x - y = a * e
  <2>1. /\ SumOf(t, weights) \in Int /\ SumOf(s, weights) \in Int
        /\ SumOf(t, weights) - SumOf(s, weights) =
             (weights[i] - weights[i + 1]) * (s[i + 1] - s[i])
    BY <1>3, <1>5, TwoSwapped
  <2> QED
    BY <2>1
<1>7. weights[i] \in 1..10 /\ weights[i + 1] \in 1..10 /\ weights[i] # weights[i + 1]
  <2>1. i \in 1..(Len(weights) - 1)
    OBVIOUS
  <2> QED
    BY <2>1 DEF GoodWeights
<1>8. s[i] \in 0..9 /\ s[i + 1] \in 0..9 /\ s[i] # s[i + 1]
  BY <1>2 DEF Digits, TransposedAt
<1>9. e \in -9..9 /\ e # 0
  BY <1>8, Differences
<1>10. a \in -10..10 /\ a # 0
  BY <1>7, Differences
<1> HIDE DEF x, y, a, e
<1>11. x % 11 # y % 11
  BY <1>6, <1>9, <1>10, Elevens
<1> QED
  BY <1>4, <1>11 DEF x, y

\* A digit further on does not.
LEMMA InnSame ==
  ASSUME NEW v \in Seq(Digits), NEW u \in Seq(Digits), Len(u) = Len(v),
         NEW weights, NEW n \in 1..Len(v), Len(weights) = n,
         \A k \in 1..n : u[k] = v[k]
  PROVE  Remainder(u, weights) = Remainder(v, weights)
<1> DEFINE s == SubSeq(v, 1, n)
           t == SubSeq(u, 1, n)
<1>1. /\ s \in [1..n -> Digits] /\ \A k \in 1..n : s[k] = v[k]
      /\ t \in [1..n -> Digits] /\ \A k \in 1..n : t[k] = u[k]
  BY Beginning
<1>2. Remainder(v, weights) = SumOf(s, weights) % 11 /\ Remainder(u, weights) = SumOf(t, weights) % 11
  BY DEF Remainder
<1> HIDE DEF s, t
<1>3. s = t
  BY <1>1
<1> QED
  BY <1>2, <1>3

LEMMA RemainderRange ==
  ASSUME NEW v \in Seq(Digits), NEW weights, NEW n \in 1..Len(v),
         Len(weights) = n, GoodWeights(weights)
  PROVE  Remainder(v, weights) \in 0..10
<1> DEFINE s == SubSeq(v, 1, n)
<1>1. Weighted(n, weights) /\ Numbers(n, s) /\ n \in Nat /\ n \in 1..n
  BY RemainderType
<1>2. Remainder(v, weights) = SumOf(s, weights) % 11
  BY DEF Remainder
<1> HIDE DEF s
<1>3. Agree(n, s, s, n)
  BY DEF Agree
<1>4. SumOf(s, weights) \in Int
  BY <1>1, <1>3, OneChanged
<1> DEFINE x == SumOf(s, weights)
<1> HIDE DEF x
<1>5. x \in Int => x % 11 \in 0..10
  OBVIOUS
<1> QED
  BY <1>2, <1>4, <1>5 DEF x

\* What a control digit tells of a slip: the digit after the weights.
LEMMA ControlTells ==
  ASSUME NEW v \in Seq(Digits), NEW u \in Seq(Digits), Len(u) = Len(v),
         NEW weights, NEW n \in 1..Len(v), Len(weights) = n, GoodWeights(weights),
         n + 1 \in 1..Len(v),
         ControlDigit(v, weights) = v[n + 1], ControlDigit(u, weights) = u[n + 1],
         NEW i
  PROVE  /\ MistypedAt(v, u, i) /\ i \in 1..n =>
              {Remainder(v, weights), Remainder(u, weights)} = {0, 10}
         /\ TransposedAt(v, u, i) /\ i \in 1..n /\ i + 1 \in 1..n =>
              {Remainder(v, weights), Remainder(u, weights)} = {0, 10}
         /\ ~(MistypedAt(v, u, i) /\ i = n + 1)
<1> DEFINE r == Remainder(v, weights)
           q == Remainder(u, weights)
<1>1. r \in 0..10 /\ q \in 0..10
  BY RemainderRange
<1>2. r % 10 = v[n + 1] /\ q % 10 = u[n + 1]
  BY DEF ControlDigit
<1>3. ASSUME r # q, v[n + 1] = u[n + 1] PROVE {r, q} = {0, 10}
  <2> HIDE DEF r, q
  <2>1. r % 10 = q % 10
    BY <1>2, <1>3
  <2>2. \/ r = 0 /\ q = 10
        \/ r = 10 /\ q = 0
    BY <1>1, <1>3, <2>1
  <2> QED
    BY <2>2
<1>4. n + 1 \in 1..Len(v) /\ n + 1 \notin 1..n
  OBVIOUS
<1>5. ASSUME MistypedAt(v, u, i), i \in 1..n PROVE {r, q} = {0, 10}
  <2>1. r # q
    BY <1>5, InnMistyped
  <2>2. v[n + 1] = u[n + 1]
    BY <1>4, <1>5 DEF MistypedAt, Agree
  <2> QED
    BY <1>3, <2>1, <2>2
<1>6. ASSUME TransposedAt(v, u, i), i \in 1..n, i + 1 \in 1..n PROVE {r, q} = {0, 10}
  <2>1. r # q
    BY <1>6, InnTransposed
  <2>2. v[n + 1] = u[n + 1]
    BY <1>4, <1>6 DEF TransposedAt, Swapped
  <2> QED
    BY <1>3, <2>1, <2>2
<1>7. ASSUME MistypedAt(v, u, i), i = n + 1 PROVE FALSE
  <2>1. \A k \in 1..n : u[k] = v[k]
    <3>1. \A k \in 1..n : k \in 1..Len(v) /\ k # i
      BY <1>7
    <3> QED
      BY <1>7, <3>1 DEF MistypedAt, Agree
  <2>2. r = q
    BY <2>1, InnSame
  <2>3. v[n + 1] = u[n + 1]
    BY <1>2, <2>2
  <2> QED
    BY <1>7, <2>3 DEF MistypedAt
<1> QED
  BY <1>5, <1>6, <1>7

LEMMA InnSlips ==
  ASSUME NEW old \in Seq(Char), ValidInn(old), NEW new \in Seq(Char), ValidInn(new),
         Len(new) = Len(old),
         NEW i, \/ MistypedAt(Ints(old), Ints(new), i)
                \/ TransposedAt(Ints(old), Ints(new), i) /\ i + 1 < 10
  PROVE  \E weights \in {CompanyWeights, PersonWeightsFirst, PersonWeightsSecond} :
           {Remainder(Ints(old), weights), Remainder(Ints(new), weights)} = {0, 10}
<1> DEFINE v == Ints(old)
           u == Ints(new)
<1>0. Len(v) = Len(old) /\ Len(u) = Len(old)
  BY IntsTable
<1>1. v \in Seq(Digits) /\ u \in Seq(Digits)
  BY IntsTable DEF ValidInn
<1>6. Len(v) = 10 \/ Len(v) = 12
  BY <1>0 DEF ValidInn, LooksLike
<1>7. Len(v) = 10 => ControlDigit(v, CompanyWeights) = v[10] /\ ControlDigit(u, CompanyWeights) = u[10]
  BY <1>0 DEF ValidInn
<1>8. Len(v) = 12 => /\ ControlDigit(v, PersonWeightsFirst) = v[11]
                     /\ ControlDigit(u, PersonWeightsFirst) = u[11]
                     /\ ControlDigit(v, PersonWeightsSecond) = v[12]
                     /\ ControlDigit(u, PersonWeightsSecond) = u[12]
  BY <1>0 DEF ValidInn
<1> HIDE DEF v, u
<1>9. MistypedAt(v, u, i) \/ (TransposedAt(v, u, i) /\ i + 1 < 10)
  BY DEF v, u
<1>2. i \in 1..Len(v) /\ Len(u) = Len(v)
  BY <1>9 DEF MistypedAt, TransposedAt
<1>3. TransposedAt(v, u, i) => i + 1 \in 1..Len(v)
  BY DEF TransposedAt
<1>4. CASE Len(v) = 10
  <2>1. /\ ControlDigit(v, CompanyWeights) = v[9 + 1] /\ ControlDigit(u, CompanyWeights) = u[9 + 1]
        /\ 9 \in 1..Len(v) /\ 9 + 1 \in 1..Len(v)
    BY <1>4, <1>7
  <2>0. GoodWeights(CompanyWeights) /\ Len(CompanyWeights) = 9
    BY InnWeights
  <2>2. /\ MistypedAt(v, u, i) /\ i \in 1..9 =>
             {Remainder(v, CompanyWeights), Remainder(u, CompanyWeights)} = {0, 10}
        /\ TransposedAt(v, u, i) /\ i \in 1..9 /\ i + 1 \in 1..9 =>
             {Remainder(v, CompanyWeights), Remainder(u, CompanyWeights)} = {0, 10}
        /\ ~(MistypedAt(v, u, i) /\ i = 9 + 1)
    <3> DEFINE weights == CompanyWeights
               n == 9
    <3>1. /\ ControlDigit(v, weights) = v[n + 1] /\ ControlDigit(u, weights) = u[n + 1]
          /\ n \in 1..Len(v) /\ n + 1 \in 1..Len(v)
          /\ GoodWeights(weights) /\ Len(weights) = n
      BY <2>0, <2>1
    <3> HIDE DEF n, weights
    <3>2. /\ MistypedAt(v, u, i) /\ i \in 1..n =>
               {Remainder(v, weights), Remainder(u, weights)} = {0, 10}
          /\ TransposedAt(v, u, i) /\ i \in 1..n /\ i + 1 \in 1..n =>
               {Remainder(v, weights), Remainder(u, weights)} = {0, 10}
          /\ ~(MistypedAt(v, u, i) /\ i = n + 1)
      BY <1>1, <1>2, <3>1, ControlTells
    <3> QED
      BY <3>2 DEF n, weights
  <2>3. i \in 1..9 \/ i = 9 + 1
    BY <1>2, <1>4
  <2>4. TransposedAt(v, u, i) /\ i + 1 < 10 => i \in 1..9 /\ i + 1 \in 1..9
    BY <1>2, <1>3, <1>4
  <2> QED
    BY <1>9, <2>2, <2>3, <2>4 DEF v, u
<1>5. CASE Len(v) = 12
  <2>1. /\ ControlDigit(v, PersonWeightsFirst) = v[10 + 1]
        /\ ControlDigit(u, PersonWeightsFirst) = u[10 + 1]
        /\ ControlDigit(v, PersonWeightsSecond) = v[11 + 1]
        /\ ControlDigit(u, PersonWeightsSecond) = u[11 + 1]
        /\ 10 \in 1..Len(v) /\ 10 + 1 \in 1..Len(v)
        /\ 11 \in 1..Len(v) /\ 11 + 1 \in 1..Len(v)
    BY <1>5, <1>8
  <2>2. /\ MistypedAt(v, u, i) /\ i \in 1..10 =>
             {Remainder(v, PersonWeightsFirst), Remainder(u, PersonWeightsFirst)} = {0, 10}
        /\ TransposedAt(v, u, i) /\ i \in 1..10 /\ i + 1 \in 1..10 =>
             {Remainder(v, PersonWeightsFirst), Remainder(u, PersonWeightsFirst)} = {0, 10}
        /\ ~(MistypedAt(v, u, i) /\ i = 10 + 1)
    BY <1>1, <1>2, <2>1, InnWeights, ControlTells
  <2>3. ~(MistypedAt(v, u, i) /\ i = 11 + 1)
    BY <1>1, <1>2, <2>1, InnWeights, ControlTells
  <2>4. i \in 1..10 \/ i = 10 + 1 \/ i = 11 + 1
    BY <1>2, <1>5
  <2>5. TransposedAt(v, u, i) /\ i + 1 < 10 => i \in 1..10 /\ i + 1 \in 1..10
    BY <1>2, <1>3, <1>5
  <2> QED
    BY <1>9, <2>2, <2>3, <2>4, <2>5 DEF v, u
<1> QED
  BY <1>4, <1>5, <1>6

---------------------------------------------------------------------------
(* The form and what was saved *)

Fields == {"bic", "personal_acc", "corresp_acc", "payee_inn", "kpp"}

LEMMA FormFields == Form = [Fields -> Seq(Char)]
  BY DEF Form, Fields

\* One slip, in one field, since the form was right.
Slipped ==
  \E field \in Fields : \E i \in Nat :
    /\ slip.field = field
    /\ \A f \in Fields : f # field => form[f] = saved[f]
    /\ \/ MistypedAt(saved[field], form[field], i) /\ slip.places = {i}
       \/ TransposedAt(saved[field], form[field], i) /\ slip.places = {i, i + 1}

DocInv ==
  /\ saved \in Form /\ form \in Form
  /\ Accepted(saved)
  /\ slip # None => Slipped

LEMMA DocInit == Init => DocInv
<1> SUFFICES ASSUME Init PROVE DocInv
  OBVIOUS
<1>1. saved \in Starts /\ form = saved /\ slip = None
  BY StartsAssumption DEF Init
<1> QED
  BY <1>1, StartsAssumption, DocumentAssumption DEF DocInv

LEMMA MistypeStep ==
  ASSUME DocInv, NEW field \in Fields, NEW i \in DOMAIN form[field], NEW c \in Char,
         Mistype(field, i, c)
  PROVE  DocInv'
<1>1. /\ saved' = saved /\ form = saved /\ form \in [Fields -> Seq(Char)]
      /\ form' = [form EXCEPT ![field][i] = c] /\ form[field][i] # c
      /\ slip' = [field |-> field, places |-> {i}]
  BY FormFields DEF DocInv, Mistype
<1> DEFINE v == form[field]
           u == [v EXCEPT ![i] = c]
<1>2. v \in Seq(Char) /\ DOMAIN v = 1..Len(v) /\ Len(v) \in Nat
  BY <1>1, LenProperties
<1>3. form' = [form EXCEPT ![field] = u]
  BY <1>1
<1>4. u \in Seq(Char) /\ Len(u) = Len(v) /\ \A k \in 1..Len(v) : u[k] = IF k = i THEN c ELSE v[k]
  <2>1. i \in 1..Len(v)
    BY <1>2
  <2> HIDE DEF v
  <2> QED
    BY <1>2, <2>1, ExceptSeq
<1> HIDE DEF u
<1>5. form' \in Form /\ form'[field] = u /\ \A f \in Fields : f # field => form'[f] = form[f]
  BY <1>1, <1>3, <1>4, FormFields
<1>6. i \in 1..Len(v) /\ i \in Nat
  BY <1>2
<1>7. MistypedAt(saved'[field], form'[field], i)
  BY <1>1, <1>4, <1>5, <1>6 DEF MistypedAt, Agree
<1>8. slip'.field = field /\ slip'.places = {i}
  BY <1>1
<1>9. \A f \in Fields : f # field => form'[f] = saved'[f]
  BY <1>1, <1>5
<1>10. Slipped'
  BY <1>6, <1>7, <1>8, <1>9 DEF Slipped
<1> QED
  BY <1>1, <1>5, <1>10 DEF DocInv

LEMMA TransposeStep ==
  ASSUME DocInv, NEW field \in Fields, NEW i \in DOMAIN form[field], Transpose(field, i)
  PROVE  DocInv'
<1>1. /\ saved' = saved /\ form = saved /\ form \in [Fields -> Seq(Char)]
      /\ form' = [form EXCEPT ![field][i] = form[field][i + 1], ![field][i + 1] = form[field][i]]
      /\ i + 1 \in DOMAIN form[field] /\ form[field][i] # form[field][i + 1]
      /\ slip' = [field |-> field, places |-> {i, i + 1}]
  BY FormFields DEF DocInv, Transpose
<1> DEFINE v == form[field]
           w == [v EXCEPT ![i] = v[i + 1]]
           u == [w EXCEPT ![i + 1] = v[i]]
<1>2. v \in Seq(Char) /\ DOMAIN v = 1..Len(v) /\ Len(v) \in Nat
  BY <1>1, LenProperties
<1>3. form' = [form EXCEPT ![field] = u]
  BY <1>1
<1>4. i \in 1..Len(v) /\ i + 1 \in 1..Len(v) /\ i \in Nat
  BY <1>1, <1>2
<1>5. v[i] \in Char /\ v[i + 1] \in Char
  BY <1>2, <1>4
<1>6. /\ w \in Seq(Char) /\ Len(w) = Len(v)
      /\ \A k \in 1..Len(v) : w[k] = IF k = i THEN v[i + 1] ELSE v[k]
  <2> HIDE DEF v
  <2> QED
    BY <1>2, <1>4, <1>5, ExceptSeq
<1>7. /\ u \in Seq(Char) /\ Len(u) = Len(v)
      /\ \A k \in 1..Len(v) : u[k] = IF k = i + 1 THEN v[i] ELSE w[k]
  <2> HIDE DEF v, w
  <2> QED
    BY <1>4, <1>5, <1>6, ExceptSeq
<1> HIDE DEF u
<1>8. form' \in Form /\ form'[field] = u /\ \A f \in Fields : f # field => form'[f] = form[f]
  BY <1>1, <1>3, <1>7, FormFields
<1> HIDE DEF w
<1>9. TransposedAt(saved'[field], form'[field], i)
  <2>1. saved'[field] = v /\ form'[field] = u
    BY <1>1, <1>8
  <2>2. v[i] # v[i + 1] /\ i # i + 1
    BY <1>1, <1>4
  <2> HIDE DEF v
  <2>3. u[i] = v[i + 1] /\ u[i + 1] = v[i]
    BY <1>4, <1>6, <1>7, <2>2
  <2>4. \A k \in 1..Len(v) : k # i /\ k # i + 1 => u[k] = v[k]
    BY <1>6, <1>7
  <2> QED
    BY <1>4, <1>7, <2>1, <2>2, <2>3, <2>4 DEF TransposedAt, Swapped
<1>10. slip'.field = field /\ slip'.places = {i, i + 1}
  BY <1>1
<1>11. \A f \in Fields : f # field => form'[f] = saved'[f]
  BY <1>1, <1>8
<1>12. Slipped'
  BY <1>4, <1>9, <1>10, <1>11 DEF Slipped
<1> QED
  BY <1>1, <1>8, <1>12 DEF DocInv

LEMMA DocStep == DocInv /\ [Next]_vars => DocInv'
<1> SUFFICES ASSUME DocInv, [Next]_vars PROVE DocInv'
  OBVIOUS
<1>0. DOMAIN form = Fields
  BY FormFields DEF DocInv
<1>1. ASSUME NEW field \in DOMAIN form, NEW i \in DOMAIN form[field],
             Transpose(field, i) \/ \E c \in Char : Mistype(field, i, c)
      PROVE  DocInv'
  BY <1>0, <1>1, MistypeStep, TransposeStep
<1>2. CASE SaveForm
  <2>1. /\ slip' = None /\ form' = saved'
        /\ \/ saved' = form /\ Accepted(form)
           \/ saved' = saved
    BY <1>2 DEF SaveForm
  <2> QED
    BY <2>1 DEF DocInv, Accepted
<1>3. ASSUME saved' = saved, form' = form, slip' = slip PROVE DocInv'
  BY <1>3 DEF DocInv, Slipped, Accepted
<1>4. ASSUME NEW field \in Edited, NEW text \in Texts \cup {None}, FillIn(field, text)
      PROVE  DocInv'
  BY <1>3, <1>4 DEF FillIn
<1>5. ASSUME NEW sum \in Sums \cup {None}, SetSum(sum) PROVE DocInv'
  BY <1>3, <1>5 DEF SetSum
<1>6. CASE Charge
  BY <1>3, <1>6 DEF Charge
<1>7. CASE UNCHANGED vars
  BY <1>3, <1>7 DEF vars
<1> QED
  BY <1>1, <1>2, <1>4, <1>5, <1>6, <1>7 DEF Next

---------------------------------------------------------------------------
(* What an accepted slip looks like *)

\* The same of the figures that are read.
MistypedShows(v, u, i) == MistypedAt(Ints(v), Ints(u), i)
TransposedShows(v, u, i) == TransposedAt(Ints(v), Ints(u), i)

LEMMA MistypedReads ==
  ASSUME NEW v \in Seq(Char), NEW u \in Seq(Char), NEW i, MistypedAt(v, u, i)
  PROVE  MistypedShows(v, u, i) \/ Value(u[i]) = Value(v[i])
<1> DEFINE x == Ints(v)
           y == Ints(u)
<1>1. /\ Len(x) = Len(v) /\ Len(y) = Len(v)
      /\ \A k \in 1..Len(v) : x[k] = Value(v[k])
      /\ \A k \in 1..Len(v) : y[k] = Value(u[k])
  BY IntsTable DEF MistypedAt
<1> HIDE DEF x, y
<1>2. Agree(Len(v), y, x, i)
  BY <1>1 DEF MistypedAt, Agree
<1>3. i \in 1..Len(v)
  BY DEF MistypedAt
<1>4. Value(u[i]) # Value(v[i]) => MistypedAt(x, y, i)
  BY <1>1, <1>2, <1>3 DEF MistypedAt
<1> QED
  BY <1>4 DEF MistypedShows, x, y

LEMMA TransposedReads ==
  ASSUME NEW v \in Seq(Char), NEW u \in Seq(Char), NEW i, TransposedAt(v, u, i)
  PROVE  \/ TransposedShows(v, u, i)
         \/ Value(u[i]) = Value(v[i]) /\ Value(u[i + 1]) = Value(v[i + 1])
<1> DEFINE x == Ints(v)
           y == Ints(u)
<1>1. /\ Len(x) = Len(v) /\ Len(y) = Len(v)
      /\ \A k \in 1..Len(v) : x[k] = Value(v[k])
      /\ \A k \in 1..Len(v) : y[k] = Value(u[k])
  BY IntsTable DEF TransposedAt
<1>2. /\ i \in 1..Len(v) /\ i + 1 \in 1..Len(v)
      /\ u[i] = v[i + 1] /\ u[i + 1] = v[i]
      /\ \A k \in 1..Len(v) : k # i /\ k # i + 1 => u[k] = v[k]
  BY DEF TransposedAt, Swapped
<1> HIDE DEF x, y
<1>3. y[i] = x[i + 1] /\ y[i + 1] = x[i]
  BY <1>1, <1>2
<1>4. \A k \in 1..Len(v) : k # i /\ k # i + 1 => y[k] = x[k]
  BY <1>1, <1>2
<1>5. Swapped(Len(v), y, x, i)
  BY <1>3, <1>4 DEF Swapped
<1>6. x[i] = Value(v[i]) /\ x[i + 1] = Value(v[i + 1])
  BY <1>1, <1>2
<1>7. Value(v[i]) # Value(v[i + 1]) => TransposedAt(x, y, i)
  BY <1>1, <1>2, <1>5, <1>6 DEF TransposedAt
<1> QED
  BY <1>2, <1>7 DEF TransposedShows, x, y

LEMMA PairOfTwo == ASSUME NEW i \in Nat PROVE Cardinality({i, i + 1}) = 2
<1> DEFINE single == {i}
           pair == single \cup {i + 1}
<1>1. IsFiniteSet(single) /\ Cardinality(single) = 1
  BY FS_Singleton
<1>2. i + 1 \notin single /\ {i, i + 1} = pair
  OBVIOUS
<1>3. Cardinality(pair) = 2
  <2> HIDE DEF single
  <2> QED
    BY <1>1, <1>2, FS_AddElement
<1> QED
  BY <1>2, <1>3

LEMMA ByFive ==
  ASSUME NEW i \in Nat, slip.places = {i, i + 1},
         NEW x \in Int, x = Value(saved[slip.field][i]),
         NEW y \in Int, y = Value(saved[slip.field][i + 1]), y - x \in {0, 5, -5}
  PROVE  FiveApart(slip)
<1>1. Cardinality({i, i + 1}) = 2
  BY PairOfTwo
<1>2. x - x \in {0, 5, -5} /\ y - y \in {0, 5, -5} /\ x - y \in {0, 5, -5}
  OBVIOUS
<1>3. \A j, k \in slip.places :
        Value(saved[slip.field][j]) - Value(saved[slip.field][k]) \in {0, 5, -5}
  BY <1>2
<1> QED
  BY <1>1, <1>3 DEF FiveApart

LEMMA AcceptedFields ==
  ASSUME NEW f, Accepted(f)
  PROVE  /\ \A field \in AccountFields : ValidAccount(f[field], f["bic"])
         /\ ValidInn(f["payee_inn"])
         /\ ValidBic(f["bic"])
  BY DEF Accepted, AccountFields

LEMMA BicSlips ==
  ASSUME DocInv, Accepted(form), NEW i \in Nat, slip.field = "bic",
         \A f \in Fields : f # "bic" => form[f] = saved[f],
         \/ MistypedShows(saved["bic"], form["bic"], i) /\ slip.places = {i}
         \/ TransposedShows(saved["bic"], form["bic"], i) /\ slip.places = {i, i + 1}
  PROVE  slip.places \cap CheckedBic = {} \/ FiveApart(slip)
<1> DEFINE old == saved["bic"]
           new == form["bic"]
           b == Ints(old)
           c == Ints(new)
<1>1. saved \in [Fields -> Seq(Char)] /\ form \in [Fields -> Seq(Char)] /\ Accepted(saved)
  BY FormFields DEF DocInv
<1>2. old \in Seq(Char) /\ new \in Seq(Char)
  BY <1>1 DEF Fields
<1> SUFFICES ASSUME slip.places \cap CheckedBic # {} PROVE FiveApart(slip)
  OBVIOUS
<1>3. PICK x \in slip.places : x \in CheckedBic
  OBVIOUS
<1>4. PICK f \in AccountFields : x \in PlacesOf(saved[f])
  BY <1>3 DEF CheckedBic, PlacesOf
<1> DEFINE account == saved[f]
<1>5. account \in Seq(Char) /\ ValidAccount(account, old) /\ ValidAccount(account, new)
  <2>1. f \in Fields /\ f # "bic"
    BY DEF AccountFields, Fields
  <2>2. form[f] = account
    BY <2>1
  <2> QED
    BY <1>1, <2>1, <2>2, AcceptedFields
<1>6. Len(b) = 9 /\ Len(c) = 9 /\ \A k \in 1..9 : b[k] = Value(old[k])
  <2>1. Len(old) = 9 /\ Len(new) = 9
    BY <1>1, AcceptedFields DEF ValidBic, LooksLike
  <2> QED
    BY <1>2, <2>1, IntsTable
<1>11. \/ MistypedAt(b, c, i) /\ slip.places = {i}
       \/ TransposedAt(b, c, i) /\ slip.places = {i, i + 1}
  BY DEF MistypedShows, TransposedShows
<1>7. \A k \in PlacesOf(account) : k \in 1..9
  BY <1>2, <1>5, PrefixPlaces
<1>8. x \in PlacesOf(account)
  BY <1>4
<1> HIDE DEF b, c, old, new, account
<1>9. CASE MistypedAt(b, c, i) /\ slip.places = {i}
  <2>1. i \in PlacesOf(account) /\ c[i] # b[i]
    BY <1>3, <1>8, <1>9 DEF MistypedAt
  <2>2. \A k \in PlacesOf(account) : k # i => c[k] = b[k]
    BY <1>6, <1>7, <1>9 DEF MistypedAt, Agree
  <2> QED
    BY <1>2, <1>5, <2>1, <2>2, BicOne DEF b, c
<1>10. CASE TransposedAt(b, c, i) /\ slip.places = {i, i + 1}
  <2>1. c[i] = b[i + 1] /\ c[i + 1] = b[i] /\ b[i] # b[i + 1] /\ i # i + 1
    BY <1>10 DEF TransposedAt, Swapped
  <2>2. \A k \in PlacesOf(account) : k # i /\ k # i + 1 => c[k] = b[k]
    BY <1>6, <1>7, <1>10 DEF TransposedAt, Swapped
  <2>3. CASE i \in PlacesOf(account) /\ i + 1 \in PlacesOf(account)
    <3>1. b[i + 1] - b[i] \in {0, 5, -5} /\ b[i] \in Int /\ b[i + 1] \in Int
      BY <1>2, <1>5, <2>1, <2>2, <2>3, BicTwo DEF b, c
    <3>2. b[i] = Value(old[i]) /\ b[i + 1] = Value(old[i + 1])
      BY <1>6, <1>7, <2>3
    <3> QED
      BY <1>10, <3>1, <3>2, ByFive DEF old
  <2>4. CASE i \in PlacesOf(account) /\ i + 1 \notin PlacesOf(account)
    <3>1. c[i] # b[i] /\ \A k \in PlacesOf(account) : k # i => c[k] = b[k]
      BY <2>1, <2>2, <2>4
    <3> QED
      BY <1>2, <1>5, <2>4, <3>1, BicOne DEF b, c
  <2>5. CASE i \notin PlacesOf(account) /\ i + 1 \in PlacesOf(account)
    <3>1. c[i + 1] # b[i + 1] /\ \A k \in PlacesOf(account) : k # i + 1 => c[k] = b[k]
      BY <2>1, <2>2, <2>5
    <3> QED
      BY <1>2, <1>5, <2>5, <3>1, BicOne DEF b, c
  <2>6. i \in PlacesOf(account) \/ i + 1 \in PlacesOf(account)
    BY <1>3, <1>8, <1>10
  <2> QED
    BY <2>3, <2>4, <2>5, <2>6
<1> QED
  BY <1>9, <1>10, <1>11

LEMMA AccountSlips ==
  ASSUME DocInv, Accepted(form), NEW i \in Nat, NEW f \in AccountFields, slip.field = f,
         \A g \in Fields : g # f => form[g] = saved[g],
         \/ MistypedShows(saved[f], form[f], i) /\ slip.places = {i}
         \/ TransposedShows(saved[f], form[f], i) /\ slip.places = {i, i + 1}
  PROVE  FiveApart(slip) \/ IsCorrespondent(form[f]) # IsCorrespondent(saved[f])
<1> DEFINE a == saved[f]
           b == form[f]
           bic == saved["bic"]
<1> SUFFICES ASSUME IsCorrespondent(b) = IsCorrespondent(a) PROVE FiveApart(slip)
  OBVIOUS
<1>1. saved \in [Fields -> Seq(Char)] /\ form \in [Fields -> Seq(Char)] /\ Accepted(saved)
  BY FormFields DEF DocInv
<1>2. f \in Fields /\ "bic" \in Fields /\ f # "bic"
  BY DEF AccountFields, Fields
<1>3. form["bic"] = bic
  BY <1>2
<1>4. /\ a \in Seq(Char) /\ b \in Seq(Char) /\ bic \in Seq(Char)
      /\ ValidAccount(a, bic) /\ ValidAccount(b, bic)
  BY <1>1, <1>2, <1>3, AcceptedFields
<1>5. IsCorrespondent(a) <=> IsCorrespondent(b)
  BY DEF IsCorrespondent
<1> HIDE DEF a, b, bic
<1>6. ~MistypedShows(a, b, i)
  BY <1>4, <1>5, AccountMistyped DEF MistypedShows
<1>7. TransposedShows(a, b, i) /\ slip.places = {i, i + 1}
  BY <1>6 DEF a, b
<1> DEFINE s == Ints(a)
<1>8. s[i + 1] - s[i] \in {0, 5, -5} /\ s[i] \in Int /\ s[i + 1] \in Int
  BY <1>4, <1>5, <1>7, AccountTransposed DEF TransposedShows
<1>9. s[i] = Value(a[i]) /\ s[i + 1] = Value(a[i + 1])
  <2>1. i \in 1..Len(a) /\ i + 1 \in 1..Len(a)
    BY <1>4, <1>7, IntsTable DEF TransposedShows, TransposedAt
  <2> QED
    BY <1>4, <2>1, IntsTable
<1> HIDE DEF s
<1> QED
  BY <1>7, <1>8, <1>9, ByFive DEF a

LEMMA InnSlipsShow ==
  ASSUME DocInv, Accepted(form), NEW i \in Nat, slip.field = "payee_inn",
         \/ MistypedShows(saved["payee_inn"], form["payee_inn"], i) /\ slip.places = {i}
         \/ /\ TransposedShows(saved["payee_inn"], form["payee_inn"], i)
            /\ slip.places = {i, i + 1}
  PROVE  \/ \E weights \in {CompanyWeights, PersonWeightsFirst, PersonWeightsSecond} :
              SameControl(weights)
         \/ Cardinality(slip.places) = 2 /\ \E k \in slip.places : k >= 10
<1> DEFINE v == saved["payee_inn"]
           u == form["payee_inn"]
<1>1. /\ v \in Seq(Char) /\ u \in Seq(Char)
      /\ ValidInn(v) /\ ValidInn(u)
  <2>1. saved \in [Fields -> Seq(Char)] /\ form \in [Fields -> Seq(Char)] /\ Accepted(saved)
    BY FormFields DEF DocInv
  <2> QED
    BY <2>1, AcceptedFields DEF Fields
<1>2. Len(u) = Len(v)
  <2>1. Len(Ints(u)) = Len(Ints(v))
    BY DEF MistypedShows, TransposedShows, MistypedAt, TransposedAt
  <2> QED
    BY <1>1, <2>1, IntsTable
<1>3. \A weights : SameControl(weights) <=>
        {Remainder(Ints(v), weights), Remainder(Ints(u), weights)} = {0, 10}
  BY DEF SameControl
<1> HIDE DEF v, u
<1>4. CASE MistypedShows(v, u, i) \/ (TransposedShows(v, u, i) /\ i + 1 < 10)
  BY <1>1, <1>2, <1>3, <1>4, InnSlips DEF MistypedShows, TransposedShows
<1>5. CASE TransposedShows(v, u, i) /\ slip.places = {i, i + 1} /\ ~(i + 1 < 10)
  <2>1. i + 1 \in slip.places /\ i + 1 >= 10
    BY <1>5
  <2>2. Cardinality({i, i + 1}) = 2
    BY PairOfTwo
  <2> QED
    BY <1>5, <2>1, <2>2
<1> QED
  BY <1>4, <1>5 DEF u, v

LEMMA SlipsFollow == DocInv => SlipsShow
<1> SUFFICES ASSUME DocInv, slip # None, Accepted(form) PROVE SlipsShow
  BY DEF SlipsShow
<1>1. PICK field \in Fields, i \in Nat :
        /\ slip.field = field
        /\ \A f \in Fields : f # field => form[f] = saved[f]
        /\ \/ MistypedAt(saved[field], form[field], i) /\ slip.places = {i}
           \/ TransposedAt(saved[field], form[field], i) /\ slip.places = {i, i + 1}
  BY DEF DocInv, Slipped
<1>6. saved[field] \in Seq(Char) /\ form[field] \in Seq(Char)
  BY FormFields DEF DocInv
<1>7. \/ SameFigures(slip)
      \/ MistypedShows(saved[field], form[field], i) /\ slip.places = {i}
      \/ TransposedShows(saved[field], form[field], i) /\ slip.places = {i, i + 1}
  <2>1. CASE MistypedAt(saved[field], form[field], i) /\ slip.places = {i}
    <3>1. CASE Value(form[field][i]) = Value(saved[field][i])
      BY <1>1, <2>1, <3>1 DEF SameFigures
    <3> QED
      BY <1>6, <2>1, <3>1, MistypedReads
  <2>2. CASE TransposedAt(saved[field], form[field], i) /\ slip.places = {i, i + 1}
    <3>1. CASE /\ Value(form[field][i]) = Value(saved[field][i])
               /\ Value(form[field][i + 1]) = Value(saved[field][i + 1])
      BY <1>1, <2>2, <3>1 DEF SameFigures
    <3> QED
      BY <1>6, <2>2, <3>1, TransposedReads
  <2> QED
    BY <1>1, <2>1, <2>2
<1>8. CASE SameFigures(slip)
  BY <1>8 DEF SlipsShow
<1>2. CASE field = "kpp"
  BY <1>1, <1>2 DEF SlipsShow
<1>3. CASE field = "bic"
  BY <1>1, <1>3, <1>7, <1>8, BicSlips DEF SlipsShow
<1>4. CASE field \in AccountFields
  BY <1>1, <1>4, <1>7, <1>8, AccountSlips DEF SlipsShow
<1>5. CASE field = "payee_inn"
  BY <1>1, <1>5, <1>7, <1>8, InnSlipsShow DEF SlipsShow
<1> QED
  BY <1>2, <1>3, <1>4, <1>5 DEF Fields, AccountFields

---------------------------------------------------------------------------
(* The theorem on slips *)

\* Whatever valid requisites a person starts from and whatever slips go
\* through one after another: a single mistyped character or two transposed
\* neighbours get past validate_bic, validate_account and validate_inn only
\* where the control digits cannot tell, and SlipsShow lists those places.
THEOREM SlipsCorrect == Spec => []SlipsShow
  BY DocInit, DocStep, SlipsFollow, PTL DEF Spec

---------------------------------------------------------------------------
(* Numbers and their figures *)

Horner(n, figures, f) ==
  f = [i \in 0..n |-> IF i = 0 THEN 0 ELSE 10 * f[i - 1] + figures[i]]

LEMMA HornerExists ==
  ASSUME NEW n \in Nat, NEW figures
  PROVE  \E f : Horner(n, figures, f)
<1> DEFINE T == {m \in Nat : ~\E f : Horner(m, figures, f)}
<1> SUFFICES ASSUME T # {} PROVE FALSE
  OBVIOUS
<1>1. PICK m \in T : \A y \in T : m <= y
  <2>1. T \subseteq Nat
    OBVIOUS
  <2> HIDE DEF T
  <2> QED
    BY <2>1, LeastNat
<1>2. m # 0
  <2>1. Horner(0, figures, [i \in 0..0 |-> 0])
    BY DEF Horner
  <2> QED
    BY <2>1
<1>3. m - 1 \in Nat /\ m - 1 \notin T
  BY <1>1, <1>2
<1>4. PICK f : Horner(m - 1, figures, f)
  BY <1>3
<1> DEFINE g == [i \in 0..m |-> IF i < m THEN f[i] ELSE 10 * f[m - 1] + figures[m]]
<1>5. Horner(m, figures, g)
  <2>1. \A i \in 0..(m - 1) : f[i] = IF i = 0 THEN 0 ELSE 10 * f[i - 1] + figures[i]
    BY <1>4 DEF Horner
  <2>2. ASSUME NEW i \in 0..m
        PROVE  g[i] = IF i = 0 THEN 0 ELSE 10 * g[i - 1] + figures[i]
    <3>1. CASE i = m
      <4>1. i - 1 \in 0..m /\ i - 1 < m /\ i # 0
        BY <1>2, <1>3, <3>1
      <4> QED
        BY <3>1, <4>1
    <3>2. CASE i # m /\ i # 0
      <4>1. i - 1 \in 0..m /\ i - 1 < m /\ i < m /\ i \in 0..(m - 1)
        BY <3>2
      <4> QED
        BY <2>1, <3>2, <4>1
    <3>3. CASE i # m /\ i = 0
      <4>1. i < m /\ i \in 0..(m - 1)
        BY <1>3, <3>3
      <4> QED
        BY <2>1, <3>3, <4>1
    <3> QED
      BY <3>1, <3>2, <3>3
  <2> QED
    BY <2>2 DEF Horner
<1> QED
  BY <1>5

LEMMA NumberUnfold ==
  ASSUME NEW figures, Len(figures) \in Nat
  PROVE  \E f : Horner(Len(figures), figures, f) /\ NumberOf(figures) = f[Len(figures)]
<1> DEFINE number == CHOOSE f : Horner(Len(figures), figures, f)
<1>1. NumberOf(figures) = number[Len(figures)]
  BY DEF NumberOf, Horner
<1>2. Horner(Len(figures), figures, number)
  BY HornerExists
<1> QED
  BY <1>1, <1>2

LEMMA HornerTable ==
  ASSUME NEW n \in Nat, NEW figures, NEW f, Horner(n, figures, f)
  PROVE  f[0] = 0 /\ \A i \in 1..n : f[i] = 10 * f[i - 1] + figures[i]
<1>1. \A i \in 0..n : f[i] = IF i = 0 THEN 0 ELSE 10 * f[i - 1] + figures[i]
  BY DEF Horner
<1> QED
  BY <1>1

\* One more figure at the end; the figures before it count as they did.
LEMMA NumberAppend ==
  ASSUME NEW s \in Seq(Int), NEW d \in Int
  PROVE  NumberOf(s) \in Int /\ NumberOf(Append(s, d)) = 10 * NumberOf(s) + d
<1> DEFINE n == Len(s)
           r == Append(s, d)
<1>1. n \in Nat /\ Len(r) = n + 1 /\ r[n + 1] = d /\ \A i \in 1..n : r[i] = s[i] /\ s[i] \in Int
  BY AppendProperties
<1> HIDE DEF r
<1>2. PICK f : Horner(n, s, f) /\ NumberOf(s) = f[n]
  BY <1>1, NumberUnfold
<1>3. PICK g : Horner(n + 1, r, g) /\ NumberOf(r) = g[n + 1]
  BY <1>1, NumberUnfold
<1> HIDE DEF n
<1>4. f[0] = 0 /\ \A i \in 1..n : f[i] = 10 * f[i - 1] + s[i]
  BY <1>1, <1>2, HornerTable
<1>5. g[0] = 0 /\ \A i \in 1..(n + 1) : g[i] = 10 * g[i - 1] + r[i]
  <2>1. n + 1 \in Nat
    BY <1>1
  <2> QED
    BY <1>3, <2>1, HornerTable
<1> DEFINE Ok(m) == f[m] \in Int /\ f[m] = g[m]
           T == {m \in 0..n : ~Ok(m)}
<1>6. ASSUME T # {} PROVE FALSE
  <2>1. PICK m \in T : \A y \in T : m <= y
    <3>1. T \subseteq Nat
      BY <1>1
    <3> HIDE DEF T
    <3> QED
      BY <1>6, <3>1, LeastNat
  <2>2. Ok(0)
    BY <1>4, <1>5
  <2>3. m \in 1..n /\ m - 1 \in 0..n /\ ~(m <= m - 1) /\ m \in 1..(n + 1)
    <3> HIDE DEF Ok
    <3> QED
      BY <1>1, <2>2
  <2>4. Ok(m - 1)
    <3> HIDE DEF Ok
    <3> QED
      BY <2>1, <2>3
  <2>5. f[m] = 10 * f[m - 1] + s[m] /\ g[m] = 10 * g[m - 1] + s[m] /\ s[m] \in Int
    BY <1>1, <1>4, <1>5, <2>3
  <2>6. ~Ok(m)
    BY <2>1
  <2> QED
    BY <2>4, <2>5, <2>6
<1>7. Ok(n)
  <2>1. n \in 0..n
    BY <1>1
  <2> HIDE DEF Ok
  <2> QED
    BY <1>6, <2>1
<1>8. g[n + 1] = 10 * g[n] + d
  <2>1. n + 1 \in 1..(n + 1) /\ (n + 1) - 1 = n
    BY <1>1
  <2>2. g[n + 1] = 10 * g[(n + 1) - 1] + r[n + 1]
    BY <1>5, <2>1
  <2> QED
    BY <1>1, <2>1, <2>2
<1> QED
  BY <1>2, <1>3, <1>7, <1>8 DEF r

FiguresUpTo(n, f) ==
  f = [m \in 0..n |-> IF m < 10 THEN <<m>> ELSE Append(f[m \div 10], m % 10)]

LEMMA FiguresExist == ASSUME NEW n \in Nat PROVE \E f : FiguresUpTo(n, f)
<1> DEFINE T == {m \in Nat : ~\E f : FiguresUpTo(m, f)}
<1> SUFFICES ASSUME T # {} PROVE FALSE
  OBVIOUS
<1>1. PICK m \in T : \A y \in T : m <= y
  <2>1. T \subseteq Nat
    OBVIOUS
  <2> HIDE DEF T
  <2> QED
    BY <2>1, LeastNat
<1>2. m # 0
  <2>1. FiguresUpTo(0, [i \in 0..0 |-> <<i>>])
    BY DEF FiguresUpTo
  <2> QED
    BY <2>1
<1>3. m - 1 \in Nat /\ m - 1 \notin T
  BY <1>1, <1>2
<1>4. PICK f : FiguresUpTo(m - 1, f)
  BY <1>3
<1> DEFINE last == IF m < 10 THEN <<m>> ELSE Append(f[m \div 10], m % 10)
           g == [i \in 0..m |-> IF i < m THEN f[i] ELSE last]
<1>5. FiguresUpTo(m, g)
  <2>1. \A i \in 0..(m - 1) : f[i] = IF i < 10 THEN <<i>> ELSE Append(f[i \div 10], i % 10)
    BY <1>4 DEF FiguresUpTo
  <2>2. ASSUME NEW i \in 0..m
        PROVE  g[i] = IF i < 10 THEN <<i>> ELSE Append(g[i \div 10], i % 10)
    <3>1. i >= 10 => i \div 10 \in 0..m /\ i \div 10 < m /\ i \div 10 < i
      OBVIOUS
    <3>2. i >= 10 => g[i \div 10] = f[i \div 10]
      BY <3>1
    <3>3. CASE i = m
      <4>1. g[i] = last
        BY <3>3
      <4> QED
        BY <3>2, <3>3, <4>1
    <3>4. CASE i # m
      <4>1. i \in 0..(m - 1) /\ g[i] = f[i]
        BY <1>3, <3>4
      <4> QED
        BY <2>1, <3>2, <4>1
    <3> QED
      BY <3>3, <3>4
  <2> QED
    BY <2>2 DEF FiguresUpTo
<1> QED
  BY <1>5

Ciphers == Seq(0..9)

LEMMA CiphersInt == ASSUME NEW s \in Ciphers PROVE s \in Seq(Int)
<1>1. 0..9 \subseteq Int
  OBVIOUS
<1> QED
  BY <1>1, SeqMonotonic DEF Ciphers

LEMMA NumberOne == ASSUME NEW d \in Int PROVE NumberOf(<<d>>) = d
<1> DEFINE one == <<d>>
<1>1. Len(one) = 1 /\ one[1] = d /\ Len(one) \in Nat
  OBVIOUS
<1> HIDE DEF one
<1>2. PICK f : Horner(Len(one), one, f) /\ NumberOf(one) = f[Len(one)]
  BY <1>1, NumberUnfold
<1>3. f[0] = 0 /\ \A i \in 1..Len(one) : f[i] = 10 * f[i - 1] + one[i]
  BY <1>1, <1>2, HornerTable
<1>4. f[1] = 10 * f[1 - 1] + one[1]
  BY <1>1, <1>3
<1>5. NumberOf(one) = d
  BY <1>1, <1>2, <1>3, <1>4
<1> QED
  BY <1>5 DEF one

\* The figures of a number are read as this number.
LEMMA FiguresRight ==
  ASSUME NEW n \in Nat
  PROVE  Figures(n) \in Ciphers /\ Len(Figures(n)) > 0 /\ NumberOf(Figures(n)) = n
<1> DEFINE figures == CHOOSE f : FiguresUpTo(n, f)
<1>1. Figures(n) = figures[n]
  BY DEF Figures, FiguresUpTo
<1>2. FiguresUpTo(n, figures)
  BY FiguresExist
<1> HIDE DEF figures
<1>3. \A m \in 0..n : figures[m] = IF m < 10 THEN <<m>> ELSE Append(figures[m \div 10], m % 10)
  BY <1>2 DEF FiguresUpTo
<1> DEFINE Ok(m) == /\ figures[m] \in Ciphers /\ Len(figures[m]) > 0
                    /\ NumberOf(figures[m]) = m
           T == {m \in 0..n : ~Ok(m)}
<1>4. ASSUME T # {} PROVE FALSE
  <2>1. PICK m \in T : \A y \in T : m <= y
    <3>1. T \subseteq Nat
      OBVIOUS
    <3> HIDE DEF T
    <3> QED
      BY <1>4, <3>1, LeastNat
  <2>2. m \in 0..n /\ ~Ok(m)
    BY <2>1
  <2>3. CASE m < 10
    <3>0. figures[m] = IF m < 10 THEN <<m>> ELSE Append(figures[m \div 10], m % 10)
      BY <1>3, <2>2
    <3>1. figures[m] = <<m>> /\ m \in 0..9
      <4>1. m \in 0..9
        BY <2>2, <2>3
      <4> QED
        BY <2>3, <3>0, <4>1
    <3>2. <<m>> \in Ciphers /\ Len(<<m>>) = 1
      BY <3>1 DEF Ciphers
    <3>3. NumberOf(<<m>>) = m
      BY <3>1, NumberOne
    <3> QED
      BY <2>2, <3>1, <3>2, <3>3
  <2>4. CASE ~(m < 10)
    <3> DEFINE rest == m \div 10
               d == m % 10
    <3>1. /\ rest \in 0..n /\ ~(m <= rest) /\ d \in 0..9 /\ m = 10 * rest + d
          /\ rest \in Int /\ d \in Int
      BY <2>2, <2>4
    <3>2. figures[m] = Append(figures[rest], d)
      BY <1>3, <2>2, <2>4
    <3> HIDE DEF rest, d
    <3>3. Ok(rest)
      <4> HIDE DEF Ok
      <4> QED
        BY <2>1, <3>1
    <3> DEFINE s == figures[rest]
    <3>4. s \in Ciphers /\ Len(s) > 0 /\ NumberOf(s) = rest
      BY <3>3
    <3> HIDE DEF s
    <3>5. Append(s, d) \in Ciphers /\ Len(Append(s, d)) > 0
      BY <3>1, <3>4, AppendProperties DEF Ciphers
    <3>6. NumberOf(Append(s, d)) = 10 * NumberOf(s) + d
      BY <3>1, <3>4, CiphersInt, NumberAppend
    <3>7. figures[m] = Append(s, d)
      BY <3>2 DEF s
    <3> QED
      BY <2>2, <3>1, <3>4, <3>5, <3>6, <3>7
  <2> QED
    BY <2>3, <2>4
<1>5. n \in 0..n
  OBVIOUS
<1>6. Ok(n)
  <2> HIDE DEF Ok
  <2> QED
    BY <1>4, <1>5
<1> QED
  BY <1>1, <1>6

---------------------------------------------------------------------------
(* Texts that are read back *)

JoinNat(s, t) == s \o t

LEMMA JoinTable ==
  ASSUME NEW s \in Seq(Int), NEW t \in Seq(Int)
  PROVE  /\ JoinNat(s, t) \in Seq(Int)
         /\ Len(JoinNat(s, t)) = Len(s) + Len(t)
         /\ \A i \in 1..Len(s) : JoinNat(s, t)[i] = s[i]
         /\ \A i \in 1..Len(t) : JoinNat(s, t)[Len(s) + i] = t[i]
<1> DEFINE r == s \o t
<1>1. /\ r \in Seq(Int) /\ Len(r) = Len(s) + Len(t)
      /\ \A i \in 1..(Len(s) + Len(t)) : r[i] = IF i <= Len(s) THEN s[i] ELSE t[i - Len(s)]
  BY JoinInts
<1> HIDE DEF r
<1>2. Len(s) \in Nat /\ Len(t) \in Nat
  OBVIOUS
<1>3. \A i \in 1..Len(s) : r[i] = s[i]
  BY <1>1, <1>2
<1>4. ASSUME NEW i \in 1..Len(t) PROVE r[Len(s) + i] = t[i]
  <2>1. /\ Len(s) + i \in 1..(Len(s) + Len(t)) /\ ~(Len(s) + i <= Len(s))
        /\ (Len(s) + i) - Len(s) = i
    BY <1>2
  <2>2. r[Len(s) + i] = t[(Len(s) + i) - Len(s)]
    BY <1>1, <2>1
  <2> QED
    BY <2>1, <2>2
<1> QED
  BY <1>1, <1>3, <1>4 DEF JoinNat, r

\* Figures, a comma or a point, and figures.
Split(text, s, p, t) ==
  /\ text \in Seq(Int) /\ Len(text) = Len(s) + 1 + Len(t)
  /\ \A i \in 1..Len(s) : text[i] = s[i]
  /\ text[Len(s) + 1] = p
  /\ \A i \in 1..Len(t) : text[Len(s) + 1 + i] = t[i]

LEMMA SplitJoined ==
  ASSUME NEW s \in Seq(Int), NEW p \in Int, NEW t \in Seq(Int)
  PROVE  /\ Split(JoinNat(s, JoinNat(<<p>>, t)), s, p, t)
         /\ Split(JoinNat(JoinNat(s, <<p>>), t), s, p, t)
<1> DEFINE one == <<p>>
           front == JoinNat(s, one)
           back == JoinNat(one, t)
<1>1. one \in Seq(Int) /\ Len(one) = 1 /\ one[1] = p /\ Len(s) \in Nat /\ Len(t) \in Nat
  OBVIOUS
<1> HIDE DEF one
<1>2. /\ front \in Seq(Int) /\ Len(front) = Len(s) + 1
      /\ \A i \in 1..Len(s) : front[i] = s[i]
      /\ front[Len(s) + 1] = p
  <2>1. /\ front \in Seq(Int) /\ Len(front) = Len(s) + Len(one)
        /\ \A i \in 1..Len(s) : front[i] = s[i]
        /\ \A i \in 1..Len(one) : front[Len(s) + i] = one[i]
    BY <1>1, JoinTable
  <2> HIDE DEF front
  <2> QED
    BY <1>1, <2>1
<1>3. /\ back \in Seq(Int) /\ Len(back) = 1 + Len(t)
      /\ back[1] = p
      /\ \A i \in 1..Len(t) : back[1 + i] = t[i]
  <2>1. /\ back \in Seq(Int) /\ Len(back) = Len(one) + Len(t)
        /\ \A i \in 1..Len(one) : back[i] = one[i]
        /\ \A i \in 1..Len(t) : back[Len(one) + i] = t[i]
    BY <1>1, JoinTable
  <2> HIDE DEF back
  <2> QED
    BY <1>1, <2>1
<1> HIDE DEF front, back
<1>4. Split(JoinNat(s, back), s, p, t)
  <2> DEFINE text == JoinNat(s, back)
  <2>1. /\ text \in Seq(Int) /\ Len(text) = Len(s) + Len(back)
        /\ \A i \in 1..Len(s) : text[i] = s[i]
        /\ \A i \in 1..Len(back) : text[Len(s) + i] = back[i]
    BY <1>3, JoinTable
  <2> HIDE DEF text
  <2>2. 1 \in 1..Len(back)
    BY <1>1, <1>3
  <2>3. text[Len(s) + 1] = p
    BY <1>3, <2>1, <2>2
  <2>4. ASSUME NEW i \in 1..Len(t) PROVE text[Len(s) + 1 + i] = t[i]
    <3>1. 1 + i \in 1..Len(back) /\ Len(s) + (1 + i) = Len(s) + 1 + i
      BY <1>1, <1>3
    <3>2. text[Len(s) + (1 + i)] = back[1 + i]
      BY <2>1, <3>1
    <3>3. back[1 + i] = t[i]
      BY <1>3
    <3> QED
      BY <3>1, <3>2, <3>3
  <2>5. Len(text) = Len(s) + 1 + Len(t)
    BY <1>1, <1>3, <2>1
  <2> QED
    BY <2>1, <2>3, <2>4, <2>5 DEF Split, text
<1>5. Split(JoinNat(front, t), s, p, t)
  <2> DEFINE text == JoinNat(front, t)
  <2>1. /\ text \in Seq(Int) /\ Len(text) = Len(front) + Len(t)
        /\ \A i \in 1..Len(front) : text[i] = front[i]
        /\ \A i \in 1..Len(t) : text[Len(front) + i] = t[i]
    BY <1>2, JoinTable
  <2> HIDE DEF text
  <2>2. \A i \in 1..Len(s) : i \in 1..Len(front)
    BY <1>1, <1>2
  <2>3. Len(s) + 1 \in 1..Len(front)
    BY <1>1, <1>2
  <2>4. \A i \in 1..Len(s) : text[i] = s[i]
    BY <1>2, <2>1, <2>2
  <2>5. text[Len(s) + 1] = p
    BY <1>2, <2>1, <2>3
  <2>6. \A i \in 1..Len(t) : text[Len(s) + 1 + i] = t[i]
    BY <1>2, <2>1
  <2> QED
    BY <1>2, <2>1, <2>4, <2>5, <2>6 DEF Split, text
<1> QED
  BY <1>4, <1>5 DEF front, back, one

LEMMA SplitRead ==
  ASSUME NEW s \in Ciphers, NEW p \in {Comma, Point}, NEW t \in Ciphers,
         NEW text, Split(text, s, p, t)
  PROVE  Units(text) = s /\ Hundredths(text) = t
<1> DEFINE at == Len(s) + 1
<1>1. /\ Len(s) \in Nat /\ Len(t) \in Nat /\ at \in Nat
      /\ \A i \in 1..Len(s) : s[i] \in 0..9
      /\ \A i \in 1..Len(t) : t[i] \in 0..9
  BY DEF Ciphers
<1>2. /\ text \in Seq(Int) /\ Len(text) = at + Len(t) /\ DOMAIN text = 1..(at + Len(t))
      /\ \A i \in 1..Len(s) : text[i] = s[i]
      /\ text[at] = p
      /\ \A i \in 1..Len(t) : text[at + i] = t[i]
  BY LenProperties DEF Split
<1> HIDE DEF at
<1>3. ASSUME NEW i \in DOMAIN text, i # at PROVE text[i] \in 0..9
  <2>1. CASE i < at
    <3>1. i \in 1..Len(s)
      BY <1>1, <1>2, <2>1 DEF at
    <3> QED
      BY <1>1, <1>2, <3>1
  <2>2. CASE ~(i < at)
    <3>0. i \in 1..(at + Len(t))
      BY <1>2
    <3>1. i - at \in 1..Len(t) /\ at + (i - at) = i
      BY <1>1, <1>3, <2>2, <3>0
    <3>2. text[at + (i - at)] = t[i - at]
      BY <1>2, <3>1
    <3> QED
      BY <1>1, <3>1, <3>2
  <2> QED
    BY <2>1, <2>2
<1>4. at \in DOMAIN text
  BY <1>1, <1>2 DEF at
<1>5. PointAt(text) = at
  <2> DEFINE points == {i \in DOMAIN text : text[i] \in {Comma, Point}}
  <2>1. points = {at}
    <3>1. \A i \in DOMAIN text : i # at => text[i] \notin {Comma, Point}
      BY <1>3 DEF Comma, Point
    <3>2. text[at] \in {Comma, Point}
      BY <1>2
    <3> QED
      BY <1>4, <3>1, <3>2
  <2>2. PointAt(text) = IF points = {} THEN Len(text) + 1 ELSE CHOOSE i \in points : TRUE
    BY DEF PointAt
  <2> HIDE DEF points
  <2> QED
    BY <2>1, <2>2
<1> DEFINE left == SubSeq(text, 1, at - 1)
           right == SubSeq(text, at + 1, Len(text))
<1>6. Units(text) = left /\ Hundredths(text) = right
  BY <1>5 DEF Units, Hundredths
<1>7. /\ left \in Seq(Int) /\ Len(left) = IF 1 <= at - 1 THEN (at - 1) - 1 + 1 ELSE 0
      /\ \A i \in 1..((at - 1) - 1 + 1) : left[i] = text[1 + i - 1]
  <2>1. 1 \in Int /\ at - 1 \in Int /\ \A i \in 1..(at - 1) : text[i] \in Int
    BY <1>1, <1>2 DEF at
  <2> QED
    BY <2>1, SubSeqProperties
<1>8. /\ right \in Seq(Int)
      /\ Len(right) = IF at + 1 <= Len(text) THEN Len(text) - (at + 1) + 1 ELSE 0
      /\ \A i \in 1..(Len(text) - (at + 1) + 1) : right[i] = text[(at + 1) + i - 1]
  <2>1. at + 1 \in Int /\ Len(text) \in Int /\ \A i \in (at + 1)..Len(text) : text[i] \in Int
    BY <1>1, <1>2
  <2> QED
    BY <2>1, SubSeqProperties
<1> HIDE DEF left, right
<1>9. left = s
  <2>1. Len(left) = Len(s)
    BY <1>1, <1>7 DEF at
  <2>2. ASSUME NEW i \in 1..Len(s) PROVE left[i] = s[i]
    <3>1. i \in 1..((at - 1) - 1 + 1) /\ 1 + i - 1 = i
      BY <1>1 DEF at
    <3>2. left[i] = text[1 + i - 1]
      BY <1>7, <3>1
    <3> QED
      BY <1>2, <3>1, <3>2
  <2> QED
    BY <1>7, <2>1, <2>2, CiphersInt, SeqEqual
<1>10. right = t
  <2>1. Len(right) = Len(t)
    BY <1>1, <1>2, <1>8
  <2>2. ASSUME NEW i \in 1..Len(t) PROVE right[i] = t[i]
    <3>1. i \in 1..(Len(text) - (at + 1) + 1) /\ (at + 1) + i - 1 = at + i
      BY <1>1, <1>2
    <3>2. right[i] = text[(at + 1) + i - 1]
      BY <1>8, <3>1
    <3> QED
      BY <1>2, <3>1, <3>2
  <2> QED
    BY <1>8, <2>1, <2>2, CiphersInt, SeqEqual
<1> QED
  BY <1>6, <1>9, <1>10

\* A text of figures only has nothing after a point.
LEMMA PlainRead ==
  ASSUME NEW s \in Ciphers
  PROVE  Units(s) = s /\ Hundredths(s) = <<>>
<1>1. s \in Seq(0..9) /\ Len(s) \in Nat /\ \A i \in DOMAIN s : s[i] \in 0..9
  BY DEF Ciphers
<1>2. PointAt(s) = Len(s) + 1
  <2>1. {i \in DOMAIN s : s[i] \in {Comma, Point}} = {}
    BY <1>1 DEF Comma, Point
  <2> QED
    BY <2>1 DEF PointAt
<1>3. (Len(s) + 1) - 1 = Len(s) /\ (Len(s) + 1) + 1 > Len(s) /\ (Len(s) + 1) + 1 \in Int
  BY <1>1
<1>4. SubSeq(s, 1, Len(s)) = s
  BY <1>1, SubSeqFull
<1>5. SubSeq(s, (Len(s) + 1) + 1, Len(s)) = <<>>
  BY <1>1, <1>3, SubSeqEmpty
<1> QED
  BY <1>2, <1>3, <1>4, <1>5 DEF Units, Hundredths

Scale(places) == <<100, 10, 1>>[places + 1]

LEMMA ScaleTable == Scale(0) = 100 /\ Scale(1) = 10 /\ Scale(2) = 1
  BY DEF Scale

LEMMA SplitHundredfold ==
  ASSUME NEW s \in Ciphers, NEW p \in {Comma, Point}, NEW t \in Ciphers,
         NEW text, Split(text, s, p, t)
  PROVE  /\ text # <<>>
         /\ Hundredfold(text) = NumberOf(JoinNat(s, t)) * Scale(Len(t))
<1>1. Units(text) = s /\ Hundredths(text) = t
  BY SplitRead
<1>2. Len(text) = Len(s) + 1 + Len(t) /\ Len(s) \in Nat /\ Len(t) \in Nat
  BY DEF Split, Ciphers
<1>3. text # <<>>
  BY <1>2
<1> QED
  BY <1>1, <1>3 DEF Hundredfold, JoinNat, Scale

LEMMA TwoMore ==
  ASSUME NEW s \in Ciphers, NEW r \in 0..99
  PROVE  /\ TwoFigures(r) \in Ciphers /\ Len(TwoFigures(r)) = 2
         /\ NumberOf(JoinNat(s, TwoFigures(r))) = 100 * NumberOf(s) + r
<1> DEFINE a == r \div 10
           b == r % 10
<1>1. a \in 0..9 /\ b \in 0..9 /\ r = 10 * a + b /\ a \in Int /\ b \in Int
  OBVIOUS
<1>2. TwoFigures(r) = <<a, b>>
  BY DEF TwoFigures
<1> HIDE DEF a, b
<1>3. <<a, b>> \in Ciphers /\ Len(<<a, b>>) = 2
  BY <1>1 DEF Ciphers
<1>4. s \in Seq(Int)
  BY CiphersInt
<1> DEFINE first == Append(s, a)
           both == Append(first, b)
<1>5. first \in Seq(Int) /\ NumberOf(s) \in Int /\ NumberOf(first) = 10 * NumberOf(s) + a
  BY <1>1, <1>4, AppendProperties, NumberAppend
<1>6. NumberOf(both) = 10 * NumberOf(first) + b
  <2> HIDE DEF first
  <2> QED
    BY <1>1, <1>5, NumberAppend
<1>7. JoinNat(s, <<a, b>>) = both
  BY <1>1, <1>4 DEF JoinNat
<1> HIDE DEF first, both
<1>8. NumberOf(both) = 100 * NumberOf(s) + r
  BY <1>1, <1>5, <1>6
<1> QED
  BY <1>2, <1>3, <1>7, <1>8

\* Roubles and kopecks make the sum again.
LEMMA Parts ==
  ASSUME NEW n \in Nat
  PROVE  /\ n \div 100 \in Nat /\ n % 100 \in 0..99
         /\ n = 100 * (n \div 100) + (n % 100)
<1>1. n \div 100 \in Nat
  OBVIOUS
<1>2. n % 100 \in 0..99
  OBVIOUS
<1>3. n = 100 * (n \div 100) + (n % 100)
  OBVIOUS
<1> QED
  BY <1>1, <1>2, <1>3

LEMMA FeeRound ==
  ASSUME NEW bps \in Nat
  PROVE  FeeText(bps) # <<>> /\ Hundredfold(FeeText(bps)) = bps
<1> DEFINE q == bps \div 100
           r == bps % 100
           s == Figures(q)
<1>1. q \in Nat /\ r \in 0..99 /\ bps = 100 * q + r
  BY Parts
<1>2. FeeText(bps) = s \o CASE r = 0 -> <<>>
                            [] r % 10 = 0 /\ r # 0 -> <<Comma, r \div 10>>
                            [] OTHER -> <<Comma>> \o TwoFigures(r)
  <2>1. bps % 10 = r % 10
    OBVIOUS
  <2> QED
    BY <2>1 DEF FeeText
<1> HIDE DEF q, r
<1>3. s \in Ciphers /\ Len(s) > 0 /\ NumberOf(s) = q
  BY <1>1, FiguresRight
<1> HIDE DEF s
<1>4. s \in Seq(Int) /\ Comma \in Int /\ Comma \in {Comma, Point}
  BY <1>3, CiphersInt DEF Comma
<1>5. CASE r = 0
  <2>1. FeeText(bps) = s
    BY <1>2, <1>3, <1>5 DEF Ciphers
  <2>2. Units(s) = s /\ Hundredths(s) = <<>>
    BY <1>3, PlainRead
  <2>3. s \o <<>> = s /\ s # <<>>
    BY <1>3 DEF Ciphers
  <2>4. Hundredfold(s) = q * 100
    BY <1>3, <2>2, <2>3 DEF Hundredfold
  <2> QED
    BY <1>1, <1>5, <2>1, <2>3, <2>4
<1>6. CASE r % 10 = 0 /\ r # 0
  <2> DEFINE d == r \div 10
             t == <<d>>
             text == JoinNat(s, JoinNat(<<Comma>>, t))
  <2>1. d \in 0..9 /\ d \in Int /\ r = 10 * d
    BY <1>1, <1>6
  <2>2. FeeText(bps) = s \o <<Comma, d>>
    BY <1>2, <1>6
  <2> HIDE DEF d
  <2>3. <<Comma>> \o t = <<Comma, d>>
    <3> DEFINE one == <<Comma>>
               both == <<Comma, d>>
               joined == one \o t
    <3>1. /\ one \in Seq(Int) /\ Len(one) = 1 /\ one[1] = Comma
          /\ t \in Seq(Int) /\ Len(t) = 1 /\ t[1] = d
          /\ both \in Seq(Int) /\ Len(both) = 2 /\ both[1] = Comma /\ both[2] = d
      BY <1>4, <2>1
    <3> HIDE DEF one, t, both
    <3>2. /\ joined \in Seq(Int) /\ Len(joined) = Len(one) + Len(t)
          /\ \A i \in 1..Len(one) : joined[i] = one[i]
          /\ \A i \in 1..Len(t) : joined[Len(one) + i] = t[i]
      BY <3>1, JoinTable DEF JoinNat
    <3> HIDE DEF joined
    <3>3. joined[1] = one[1] /\ joined[1 + 1] = t[1]
      BY <3>1, <3>2
    <3>4. \A i \in 1..2 : i = 1 \/ i = 2
      OBVIOUS
    <3>5. Len(joined) = 2 /\ \A i \in 1..2 : joined[i] = both[i]
      BY <3>1, <3>2, <3>3, <3>4
    <3>6. joined = both
      BY <3>1, <3>2, <3>5, SeqEqual
    <3> QED
      BY <3>6 DEF joined, one, both
  <2>4. FeeText(bps) = text
    BY <2>2, <2>3 DEF JoinNat
  <2>5. t \in Ciphers /\ t \in Seq(Int) /\ Len(t) = 1
    BY <2>1 DEF Ciphers
  <2>6. JoinNat(s, t) = Append(s, d)
    BY <1>4, <2>1 DEF JoinNat
  <2>7. NumberOf(Append(s, d)) = 10 * q + d
    BY <1>3, <1>4, <2>1, NumberAppend
  <2> HIDE DEF t
  <2>8. Split(text, s, Comma, t)
    BY <1>4, <2>5, SplitJoined
  <2> HIDE DEF text
  <2>9. text # <<>> /\ Hundredfold(text) = NumberOf(JoinNat(s, t)) * Scale(Len(t))
    BY <1>3, <1>4, <2>5, <2>8, SplitHundredfold
  <2>10. Hundredfold(text) = (10 * q + d) * 10
    BY <2>5, <2>6, <2>7, <2>9, ScaleTable
  <2> QED
    BY <1>1, <2>1, <2>4, <2>9, <2>10
<1>7. CASE r # 0 /\ r % 10 # 0
  <2> DEFINE t == TwoFigures(r)
             text == JoinNat(s, JoinNat(<<Comma>>, t))
  <2>1. FeeText(bps) = text
    BY <1>2, <1>7 DEF JoinNat
  <2>2. t \in Ciphers /\ Len(t) = 2 /\ NumberOf(JoinNat(s, t)) = 100 * q + r
    BY <1>1, <1>3, TwoMore
  <2> HIDE DEF t
  <2>3. t \in Seq(Int)
    BY <2>2, CiphersInt
  <2>4. Split(text, s, Comma, t)
    BY <1>4, <2>3, SplitJoined
  <2> HIDE DEF text
  <2>5. text # <<>> /\ Hundredfold(text) = NumberOf(JoinNat(s, t)) * Scale(Len(t))
    BY <1>3, <1>4, <2>2, <2>4, SplitHundredfold
  <2>6. Hundredfold(text) = (100 * q + r) * 1
    BY <2>2, <2>5, ScaleTable
  <2> QED
    BY <1>1, <2>1, <2>5, <2>6
<1> QED
  BY <1>5, <1>6, <1>7

LEMMA SumRound ==
  ASSUME NEW kopecks \in Nat, kopecks # None
  PROVE  SumText(kopecks) # <<>> /\ Hundredfold(SumText(kopecks)) = kopecks
<1> DEFINE q == kopecks \div 100
           r == kopecks % 100
           s == Figures(q)
           t == TwoFigures(r)
           text == JoinNat(JoinNat(s, <<Point>>), t)
<1>1. q \in Nat /\ r \in 0..99 /\ kopecks = 100 * q + r
  BY Parts
<1>2. SumText(kopecks) = text
  BY DEF SumText, JoinNat
<1> HIDE DEF q, r
<1>3. s \in Ciphers /\ NumberOf(s) = q
  BY <1>1, FiguresRight
<1> HIDE DEF s
<1>4. t \in Ciphers /\ Len(t) = 2 /\ NumberOf(JoinNat(s, t)) = 100 * q + r
  BY <1>1, <1>3, TwoMore
<1> HIDE DEF t
<1>5. s \in Seq(Int) /\ t \in Seq(Int) /\ Point \in Int /\ Point \in {Comma, Point}
  BY <1>3, <1>4, CiphersInt DEF Point
<1>6. Split(text, s, Point, t)
  BY <1>5, SplitJoined
<1> HIDE DEF text
<1>7. text # <<>> /\ Hundredfold(text) = NumberOf(JoinNat(s, t)) * Scale(Len(t))
  BY <1>3, <1>4, <1>5, <1>6, SplitHundredfold
<1>8. Hundredfold(text) = (100 * q + r) * 1
  BY <1>4, <1>7, ScaleTable
<1> QED
  BY <1>1, <1>2, <1>7, <1>8

---------------------------------------------------------------------------
(* The theorem on rates and average checks *)

\* A rate is within what parse_fee_percent accepts.
RateInv ==
  rate \in [acquiring_fee_bps: 0..10000, average_check_kopecks: Nat \cup {None}]

LEMMA RateInit == Init => RateInv
<1>1. \A fee \in Fees : fee \in 0..10000
  BY DocumentAssumption
<1>2. \A check \in Checks \cup {None} : check \in Nat \cup {None}
  BY DocumentAssumption
<1>3. ASSUME rate \in [acquiring_fee_bps: Fees, average_check_kopecks: Checks \cup {None}]
      PROVE  RateInv
  BY <1>1, <1>2, <1>3 DEF RateInv
<1>4. ASSUME rate = [acquiring_fee_bps |-> DefaultFee, average_check_kopecks |-> None]
      PROVE  RateInv
  BY <1>4 DEF RateInv, DefaultFee
<1> QED
  BY <1>3, <1>4 DEF Init

LEMMA RateStep == RateInv /\ [Next]_vars => RateInv' /\ rate' = rate
<1> SUFFICES ASSUME RateInv, [Next]_vars PROVE rate' = rate
  BY DEF RateInv
<1>1. CASE SaveForm
  <2> DEFINE fee == rate.acquiring_fee_bps
             check == rate.average_check_kopecks
  <2>1. /\ fee \in Nat /\ check \in Nat \cup {None}
        /\ rate = [acquiring_fee_bps |-> fee, average_check_kopecks |-> check]
    <3> DEFINE range == 0..10000
    <3>1. \A n \in range : n \in Nat
      OBVIOUS
    <3> HIDE DEF range
    <3>2. rate \in [acquiring_fee_bps: range, average_check_kopecks: Nat \cup {None}]
      BY DEF RateInv, range
    <3> QED
      BY <3>1, <3>2
  <2>2. ParsedFee(FeeText(fee), DefaultFee) = fee
    <3> HIDE DEF fee
    <3> QED
      BY <2>1, FeeRound DEF ParsedFee
  <2>3. ParsedCheck(SumText(check)) = check
    <3> HIDE DEF check
    <3>1. CASE check = None
      BY <3>1 DEF ParsedCheck, SumText
    <3>2. CASE check # None
      BY <2>1, <3>2, SumRound DEF ParsedCheck
    <3> QED
      BY <3>1, <3>2
  <2> QED
    BY <1>1, <2>1, <2>2, <2>3 DEF SaveForm
<1>2. CASE ~SaveForm
  <2>1. Next \/ UNCHANGED vars
    OBVIOUS
  <2> QED
    BY <1>2, <2>1 DEF Next, Mistype, Transpose, FillIn, SetSum, Charge, vars
<1> QED
  BY <1>1, <1>2

\* Whatever rate and average check are in the database and however often the
\* form is saved: format_fee_percent and roubles_input write texts that
\* to_requisites reads back to the same numbers.
THEOREM FieldsKept == Spec => UntouchedFieldsKept
  BY RateInit, RateStep, PTL DEF Spec, UntouchedFieldsKept

---------------------------------------------------------------------------
(* White space *)

\* What holds of the empty text and stays true when a character is added
\* holds of every text.
LEMMA AppendInduction ==
  ASSUME NEW S, NEW T, <<>> \in T,
         \A s \in Seq(S), e \in S : s \in T => Append(s, e) \in T
  PROVE  \A s \in Seq(S) : s \in T
<1> DEFINE Bad == {n \in Nat : \E s \in Seq(S) : Len(s) = n /\ s \notin T}
<1>1. ASSUME Bad # {} PROVE FALSE
  <2>1. PICK n \in Bad : \A m \in Bad : n <= m
    <3>1. Bad \subseteq Nat
      OBVIOUS
    <3> HIDE DEF Bad
    <3> QED
      BY <1>1, <3>1, LeastNat
  <2>2. PICK s \in Seq(S) : Len(s) = n /\ s \notin T
    BY <2>1
  <2>3. s # <<>>
    BY <2>2
  <2>4. PICK x \in Seq(S), e \in S : s = Append(x, e)
    BY <2>3, SequenceEmptyOrAppend
  <2>5. Len(x) \in Nat /\ n = Len(x) + 1
    BY <2>2, <2>4, AppendProperties
  <2>6. x \notin T
    BY <2>2, <2>4
  <2>7. Len(x) \in Bad
    BY <2>5, <2>6
  <2>8. n <= Len(x)
    <3> HIDE DEF Bad
    <3> QED
      BY <2>1, <2>7
  <2> QED
    BY <2>5, <2>8
<1> QED
  BY <1>1, LenProperties

Walk(n, text, space, f) ==
  f = [i \in 0..n |-> IF i = 0 THEN <<>>
                      ELSE IF text[i] \in space THEN Pad(f[i - 1])
                      ELSE Append(f[i - 1], text[i])]

LEMMA WalkExists ==
  ASSUME NEW n \in Nat, NEW text, NEW space
  PROVE  \E f : Walk(n, text, space, f)
<1> DEFINE T == {m \in Nat : ~\E f : Walk(m, text, space, f)}
<1> SUFFICES ASSUME T # {} PROVE FALSE
  OBVIOUS
<1>1. PICK m \in T : \A y \in T : m <= y
  <2>1. T \subseteq Nat
    OBVIOUS
  <2> HIDE DEF T
  <2> QED
    BY <2>1, LeastNat
<1>2. m # 0
  <2>1. Walk(0, text, space, [i \in 0..0 |-> <<>>])
    BY DEF Walk
  <2> QED
    BY <2>1
<1>3. m - 1 \in Nat /\ m - 1 \notin T
  BY <1>1, <1>2
<1>4. PICK f : Walk(m - 1, text, space, f)
  BY <1>3
<1> DEFINE last == IF text[m] \in space THEN Pad(f[m - 1]) ELSE Append(f[m - 1], text[m])
           g == [i \in 0..m |-> IF i < m THEN f[i] ELSE last]
<1>5. Walk(m, text, space, g)
  <2>1. \A i \in 0..(m - 1) : f[i] = IF i = 0 THEN <<>>
                                     ELSE IF text[i] \in space THEN Pad(f[i - 1])
                                     ELSE Append(f[i - 1], text[i])
    BY <1>4 DEF Walk
  <2>2. ASSUME NEW i \in 0..m
        PROVE  g[i] = IF i = 0 THEN <<>>
                      ELSE IF text[i] \in space THEN Pad(g[i - 1])
                      ELSE Append(g[i - 1], text[i])
    <3>1. CASE i = m
      <4>1. i - 1 \in 0..m /\ i - 1 < m /\ i # 0
        BY <1>2, <1>3, <3>1
      <4>2. g[i] = last /\ g[i - 1] = f[m - 1]
        BY <3>1, <4>1
      <4> HIDE DEF g
      <4> QED
        BY <3>1, <4>1, <4>2
    <3>2. CASE i # m /\ i # 0
      <4>1. i - 1 \in 0..m /\ i - 1 < m /\ i < m /\ i \in 0..(m - 1)
        BY <3>2
      <4>2. g[i] = f[i] /\ g[i - 1] = f[i - 1]
        BY <4>1
      <4> HIDE DEF g
      <4> QED
        BY <2>1, <3>2, <4>1, <4>2
    <3>3. CASE i # m /\ i = 0
      <4>1. i < m /\ i \in 0..(m - 1)
        BY <1>3, <3>3
      <4>2. g[i] = f[i]
        BY <4>1
      <4> HIDE DEF g
      <4> QED
        BY <2>1, <3>3, <4>1, <4>2
    <3> QED
      BY <3>1, <3>2, <3>3
  <2> QED
    BY <2>2 DEF Walk
<1> QED
  BY <1>5

LEMMA CollapsedUnfold ==
  ASSUME NEW text, Len(text) \in Nat, NEW space
  PROVE  \E f : Walk(Len(text), text, space, f) /\ Collapsed(text, space) = f[Len(text)]
<1> DEFINE collapsed == CHOOSE f : Walk(Len(text), text, space, f)
<1>1. Collapsed(text, space) = collapsed[Len(text)]
  BY DEF Collapsed, Walk
<1>2. Walk(Len(text), text, space, collapsed)
  BY WalkExists
<1> QED
  BY <1>1, <1>2

LEMMA WalkTable ==
  ASSUME NEW n \in Nat, NEW text, NEW space, NEW f, Walk(n, text, space, f)
  PROVE  /\ f[0] = <<>>
         /\ \A i \in 1..n : f[i] = IF text[i] \in space THEN Pad(f[i - 1])
                                   ELSE Append(f[i - 1], text[i])
<1>1. \A i \in 0..n : f[i] = IF i = 0 THEN <<>>
                             ELSE IF text[i] \in space THEN Pad(f[i - 1])
                             ELSE Append(f[i - 1], text[i])
  BY DEF Walk
<1> QED
  BY <1>1

\* One more character.
Turn(done, c, space) == IF c \in space THEN Pad(done) ELSE Append(done, c)

LEMMA CollapsedAppend ==
  ASSUME NEW S, NEW s \in Seq(S), NEW c \in S, NEW space
  PROVE  Collapsed(Append(s, c), space) = Turn(Collapsed(s, space), c, space)
<1> DEFINE n == Len(s)
           r == Append(s, c)
<1>1. n \in Nat /\ Len(r) = n + 1 /\ r[n + 1] = c /\ \A i \in 1..n : r[i] = s[i]
  BY AppendProperties
<1> HIDE DEF r
<1>2. PICK f : Walk(n, s, space, f) /\ Collapsed(s, space) = f[n]
  BY <1>1, CollapsedUnfold
<1>3. PICK g : Walk(n + 1, r, space, g) /\ Collapsed(r, space) = g[n + 1]
  BY <1>1, CollapsedUnfold
<1> HIDE DEF n
<1>4. f[0] = <<>> /\ \A i \in 1..n : f[i] = Turn(f[i - 1], s[i], space)
  BY <1>1, <1>2, WalkTable DEF Turn
<1>5. g[0] = <<>> /\ \A i \in 1..(n + 1) : g[i] = Turn(g[i - 1], r[i], space)
  <2>1. n + 1 \in Nat
    BY <1>1
  <2> QED
    BY <1>3, <2>1, WalkTable DEF Turn
<1> DEFINE T == {m \in 0..n : f[m] # g[m]}
<1>6. ASSUME T # {} PROVE FALSE
  <2>1. PICK m \in T : \A y \in T : m <= y
    <3>1. T \subseteq Nat
      BY <1>1
    <3> HIDE DEF T
    <3> QED
      BY <1>6, <3>1, LeastNat
  <2>2. m \in 1..n /\ m - 1 \in 0..n /\ ~(m <= m - 1) /\ m \in 1..(n + 1)
    BY <1>1, <1>4, <1>5
  <2>3. f[m - 1] = g[m - 1]
    BY <2>1, <2>2
  <2>4. f[m] = Turn(f[m - 1], s[m], space) /\ g[m] = Turn(g[m - 1], s[m], space)
    BY <1>1, <1>4, <1>5, <2>2
  <2> QED
    BY <2>3, <2>4
<1>7. f[n] = g[n]
  <2>1. n \in 0..n
    BY <1>1
  <2> QED
    BY <1>6, <2>1
<1>8. g[n + 1] = Turn(g[n], c, space)
  <2>1. n + 1 \in 1..(n + 1) /\ (n + 1) - 1 = n
    BY <1>1
  <2>2. g[n + 1] = Turn(g[(n + 1) - 1], r[n + 1], space)
    BY <1>5, <2>1
  <2> QED
    BY <1>1, <2>1, <2>2
<1> QED
  BY <1>2, <1>3, <1>7, <1>8 DEF r

LEMMA CollapsedEmpty == ASSUME NEW space PROVE Collapsed(<<>>, space) = <<>>
<1>1. Len(<<>>) = 0 /\ 0 \in Nat
  OBVIOUS
<1>2. PICK f : Walk(0, <<>>, space, f) /\ Collapsed(<<>>, space) = f[0]
  BY <1>1, CollapsedUnfold
<1> QED
  BY <1>1, <1>2, WalkTable

\* A text is empty or ends with a character; what Pad and Trimmed do then.
LEMMA Ending ==
  ASSUME NEW S, NEW x \in Seq(S), NEW e \in S
  PROVE  /\ Append(x, e) \in Seq(S) /\ Append(x, e) # <<>>
         /\ Last(Append(x, e)) = e /\ Front(Append(x, e)) = x
<1>1. Append(x, e) \in Seq(S) /\ Len(Append(x, e)) = Len(x) + 1
      /\ Append(x, e)[Len(x) + 1] = e /\ Len(x) \in Nat
  BY AppendProperties
<1>2. SubSeq(Append(x, e), 1, Len(x)) = x
  OBVIOUS
<1>3. (Len(x) + 1) - 1 = Len(x)
  BY <1>1
<1> QED
  BY <1>1, <1>2, <1>3 DEF Last, Front

LEMMA PadEnding ==
  ASSUME NEW S, NEW x \in Seq(S), NEW e \in S
  PROVE  /\ e = Blank => Pad(Append(x, e)) = Append(x, e) /\ Trimmed(Append(x, e)) = x
         /\ e # Blank => /\ Pad(Append(x, e)) = Append(Append(x, e), Blank)
                         /\ Trimmed(Append(x, e)) = Append(x, e)
BY Ending DEF Pad, Trimmed

LEMMA PadEmpty == Pad(<<>>) = <<>> /\ Trimmed(<<>>) = <<>>
BY DEF Pad, Trimmed

LEMMA PadType ==
  ASSUME NEW S, Blank \in S, NEW s \in Seq(S)
  PROVE  /\ Pad(s) \in Seq(S) /\ Trimmed(s) \in Seq(S)
         /\ Pad(Pad(s)) = Pad(s) /\ Trimmed(Pad(s)) = Trimmed(s)
<1>1. CASE s = <<>>
  BY <1>1, PadEmpty
<1>2. CASE s # <<>>
  <2>1. PICK x \in Seq(S), e \in S : s = Append(x, e)
    BY <1>2, SequenceEmptyOrAppend
  <2>2. CASE e = Blank
    <3>1. Pad(s) = s /\ Trimmed(s) = x
      BY <2>1, <2>2, PadEnding
    <3> QED
      BY <3>1
  <2>3. CASE e # Blank
    <3>1. Pad(s) = Append(s, Blank) /\ Trimmed(s) = s
      BY <2>1, <2>3, PadEnding
    <3>2. Append(s, Blank) \in Seq(S)
      BY Ending
    <3>3. Pad(Append(s, Blank)) = Append(s, Blank) /\ Trimmed(Append(s, Blank)) = s
      BY PadEnding
    <3> QED
      BY <3>1, <3>2, <3>3
  <2> QED
    BY <2>2, <2>3
<1> QED
  BY <1>1, <1>2

LEMMA CollapsedType ==
  ASSUME NEW S, NEW space, NEW A, Blank \in A, S \ space \subseteq A, NEW t \in Seq(S)
  PROVE  Collapsed(t, space) \in Seq(A)
<1> DEFINE T == {s \in Seq(S) : Collapsed(s, space) \in Seq(A)}
<1>1. <<>> \in T
  <2>1. <<>> \in Seq(S) /\ <<>> \in Seq(A)
    OBVIOUS
  <2>2. Collapsed(<<>>, space) = <<>>
    BY CollapsedEmpty
  <2> QED
    BY <2>1, <2>2
<1>2. ASSUME NEW s \in Seq(S), NEW c \in S, s \in T PROVE Append(s, c) \in T
  <2>1. Collapsed(s, space) \in Seq(A)
    BY <1>2
  <2>2. Collapsed(Append(s, c), space) = Turn(Collapsed(s, space), c, space)
    BY CollapsedAppend
  <2>3. c \in space => Pad(Collapsed(s, space)) \in Seq(A)
    BY <2>1, PadType
  <2>4. c \notin space => Append(Collapsed(s, space), c) \in Seq(A)
    BY <2>1, Ending
  <2>5. Append(s, c) \in Seq(S)
    BY Ending
  <2> QED
    BY <2>2, <2>3, <2>4, <2>5 DEF Turn
<1> HIDE DEF T
<1>3. \A s \in Seq(S) : s \in T
  BY <1>1, <1>2, AppendInduction
<1> QED
  BY <1>3 DEF T

Letters == Words \cup {Blank, Bar, Unit}
Wide(s) == Collapsed(s, {Blank, Unit, Bar})

LEMMA WideStep ==
  ASSUME NEW s \in Seq(Letters), NEW c \in Letters
  PROVE  Wide(Append(s, c)) = IF c \in {Blank, Unit, Bar} THEN Pad(Wide(s)) ELSE Append(Wide(s), c)
BY CollapsedAppend DEF Wide, Turn

LEMMA WideType == ASSUME NEW s \in Seq(Letters) PROVE Wide(s) \in Seq(Letters)
<1>1. Blank \in Letters /\ Letters \ {Blank, Unit, Bar} \subseteq Letters
  BY DEF Letters
<1> QED
  BY <1>1, CollapsedType DEF Wide

LEMMA WidePad ==
  ASSUME NEW s \in Seq(Letters)
  PROVE  Wide(Pad(s)) = Pad(Wide(s)) /\ Trimmed(Wide(s)) = Trimmed(Wide(Trimmed(s)))
<1>0. Blank \in Letters
  BY DEF Letters
<1>1. CASE s = <<>>
  BY <1>1, PadEmpty, CollapsedEmpty DEF Wide
<1>2. CASE s # <<>>
  <2>1. PICK x \in Seq(Letters), e \in Letters : s = Append(x, e)
    BY <1>2, SequenceEmptyOrAppend
  <2>2. CASE e = Blank
    <3>1. Pad(s) = s /\ Trimmed(s) = x
      BY <2>1, <2>2, PadEnding
    <3>2. Wide(s) = Pad(Wide(x))
      BY <2>1, <2>2, WideStep
    <3>3. Pad(Pad(Wide(x))) = Pad(Wide(x)) /\ Trimmed(Pad(Wide(x))) = Trimmed(Wide(x))
      BY <1>0, WideType, PadType
    <3> QED
      BY <3>1, <3>2, <3>3
  <2>3. CASE e # Blank
    <3>1. Pad(s) = Append(s, Blank) /\ Trimmed(s) = s
      BY <2>1, <2>3, PadEnding
    <3>2. Wide(Append(s, Blank)) = Pad(Wide(s))
      BY <1>0, WideStep
    <3> QED
      BY <3>1, <3>2
  <2> QED
    BY <2>2, <2>3
<1> QED
  BY <1>1, <1>2

LEMMA SymbolsApart ==
  /\ Symbols \subseteq Letters
  /\ \A w \in Words : w \notin {Blank, Unit, Bar}
  /\ Blank # Unit /\ Blank # Bar /\ Unit # Bar
BY DocumentAssumption DEF Symbols, Letters, Blank, Bar, Unit

LEMMA OneSpace ==
  ASSUME NEW t \in Seq(Symbols)
  PROVE  /\ Collapsed(t, {Unit}) \in Seq(Letters \ {Unit})
         /\ Collapsed(t, {Unit, Bar}) \in Seq(Words \cup {Blank})
<1>1. Blank \in Letters \ {Unit} /\ Symbols \ {Unit} \subseteq Letters \ {Unit}
  BY SymbolsApart DEF Letters
<1>2. Blank \in Words \cup {Blank} /\ Symbols \ {Unit, Bar} \subseteq Words \cup {Blank}
  BY DEF Symbols
<1>3. Collapsed(t, {Unit}) \in Seq(Letters \ {Unit})
  BY <1>1, CollapsedType
<1>4. Collapsed(t, {Unit, Bar}) \in Seq(Words \cup {Blank})
  BY <1>2, CollapsedType
<1> QED
  BY <1>3, <1>4

LEMMA SeqMore ==
  ASSUME NEW A, NEW B, A \subseteq B, NEW s \in Seq(A) PROVE s \in Seq(B)
OBVIOUS

\* Bars become white space now or later.
LEMMA SpaceTwice ==
  ASSUME NEW t \in Seq(Symbols)
  PROVE  Collapsed(t, {Unit, Bar}) = Wide(Collapsed(t, {Unit}))
<1> DEFINE T == {s \in Seq(Symbols) : Collapsed(s, {Unit, Bar}) = Wide(Collapsed(s, {Unit}))}
<1>1. <<>> \in T
  BY CollapsedEmpty DEF Wide
<1>2. ASSUME NEW s \in Seq(Symbols), NEW c \in Symbols, s \in T PROVE Append(s, c) \in T
  <2> DEFINE once == Collapsed(s, {Unit})
             both == Collapsed(s, {Unit, Bar})
  <2>1. once \in Seq(Letters) /\ both = Wide(once)
    <3>1. Letters \ {Unit} \subseteq Letters
      OBVIOUS
    <3> QED
      BY <1>2, <3>1, OneSpace, SeqMore
  <2>2. Collapsed(Append(s, c), {Unit}) = Turn(once, c, {Unit})
    BY CollapsedAppend
  <2>3. Collapsed(Append(s, c), {Unit, Bar}) = Turn(both, c, {Unit, Bar})
    BY CollapsedAppend
  <2>4. Append(s, c) \in Seq(Symbols)
    BY Ending
  <2> HIDE DEF once, both
  <2>5. CASE c = Unit
    <3>1. Turn(once, c, {Unit}) = Pad(once) /\ Turn(both, c, {Unit, Bar}) = Pad(both)
      BY <2>5 DEF Turn
    <3>2. Wide(Pad(once)) = Pad(Wide(once))
      BY <2>1, WidePad
    <3> QED
      BY <2>1, <2>2, <2>3, <2>4, <3>1, <3>2
  <2>6. CASE c = Bar
    <3>1. Turn(once, c, {Unit}) = Append(once, Bar) /\ Turn(both, c, {Unit, Bar}) = Pad(both)
      BY <2>6, SymbolsApart DEF Turn
    <3>2. Bar \in Letters
      BY DEF Letters
    <3>3. Wide(Append(once, Bar)) = Pad(Wide(once))
      BY <2>1, <3>2, WideStep
    <3> QED
      BY <2>1, <2>2, <2>3, <2>4, <3>1, <3>3
  <2>7. CASE c \in Words
    <3>1. c \notin {Blank, Unit, Bar} /\ c \in Letters
      BY <2>7, SymbolsApart DEF Letters
    <3>2. Turn(once, c, {Unit}) = Append(once, c) /\ Turn(both, c, {Unit, Bar}) = Append(both, c)
      BY <3>1 DEF Turn
    <3>3. Wide(Append(once, c)) = Append(Wide(once), c)
      BY <2>1, <3>1, WideStep
    <3> QED
      BY <2>1, <2>2, <2>3, <2>4, <3>2, <3>3
  <2> QED
    BY <2>5, <2>6, <2>7 DEF Symbols
<1> HIDE DEF T
<1>3. \A s \in Seq(Symbols) : s \in T
  BY <1>1, <1>2, AppendInduction
<1> QED
  BY <1>3 DEF T

\* The value in the payload follows from the value in the key.
LEMMA CleanNormalized ==
  ASSUME NEW t \in Seq(Symbols), t # None
  PROVE  Clean(t) = Trimmed(Wide(Normalize(t)))
<1> DEFINE once == Collapsed(t, {Unit})
<1>1. once \in Seq(Letters)
  <2>1. Letters \ {Unit} \subseteq Letters
    OBVIOUS
  <2> QED
    BY <2>1, OneSpace, SeqMore
<1>2. Clean(t) = Trimmed(Wide(once))
  BY SpaceTwice DEF Clean, Squeeze
<1>3. Normalize(t) = Trimmed(once)
  BY DEF Normalize, Squeeze
<1> HIDE DEF once
<1> QED
  BY <1>1, <1>2, <1>3, WidePad

\* Without a bar they are the same.
LEMMA NoBars ==
  ASSUME NEW t \in Seq(Words \cup {Unit})
  PROVE  Collapsed(t, {Unit, Bar}) = Collapsed(t, {Unit})
<1> DEFINE S == Words \cup {Unit}
           T == {s \in Seq(S) : Collapsed(s, {Unit, Bar}) = Collapsed(s, {Unit})}
<1>1. <<>> \in T
  BY CollapsedEmpty
<1>2. ASSUME NEW s \in Seq(S), NEW c \in S, s \in T PROVE Append(s, c) \in T
  <2>1. Collapsed(Append(s, c), {Unit}) = Turn(Collapsed(s, {Unit}), c, {Unit})
    BY CollapsedAppend
  <2>2. Collapsed(Append(s, c), {Unit, Bar}) = Turn(Collapsed(s, {Unit, Bar}), c, {Unit, Bar})
    BY CollapsedAppend
  <2>3. Append(s, c) \in Seq(S)
    BY Ending
  <2>4. c # Bar
    BY SymbolsApart
  <2> QED
    BY <1>2, <2>1, <2>2, <2>3, <2>4 DEF Turn
<1> HIDE DEF T
<1>3. \A s \in Seq(S) : s \in T
  BY <1>1, <1>2, AppendInduction
<1> QED
  BY <1>3 DEF T

\* A text with a word in it is not empty for the bank.
LEMMA WordsShow ==
  ASSUME NEW t \in Seq(Symbols)
  PROVE  Clean(t) # <<>> <=> \E i \in 1..Len(t) : t[i] \in Words
<1> DEFINE T == {s \in Seq(Symbols) : Clean(s) # <<>> <=> \E i \in 1..Len(s) : s[i] \in Words}
<1>1. <<>> \in T
  BY CollapsedEmpty, PadEmpty DEF Clean, Squeeze
<1>2. ASSUME NEW s \in Seq(Symbols), NEW c \in Symbols, s \in T PROVE Append(s, c) \in T
  <2> DEFINE both == Collapsed(s, {Unit, Bar})
  <2>1. both \in Seq(Letters)
    <3>1. Words \cup {Blank} \subseteq Letters
      BY DEF Letters
    <3> QED
      BY <3>1, OneSpace, SeqMore
  <2>2. Clean(Append(s, c)) = Trimmed(Turn(both, c, {Unit, Bar})) /\ Clean(s) = Trimmed(both)
    BY CollapsedAppend DEF Clean, Squeeze
  <2>3. Clean(s) # <<>> <=> \E i \in 1..Len(s) : s[i] \in Words
    BY <1>2
  <2>4. Append(s, c) \in Seq(Symbols)
    BY Ending
  <2>5. /\ Len(Append(s, c)) = Len(s) + 1 /\ Append(s, c)[Len(s) + 1] = c /\ Len(s) \in Nat
        /\ \A i \in 1..Len(s) : Append(s, c)[i] = s[i]
    BY AppendProperties
  <2> HIDE DEF both
  <2>6. (\E i \in 1..Len(Append(s, c)) : Append(s, c)[i] \in Words)
          <=> (c \in Words \/ \E i \in 1..Len(s) : s[i] \in Words)
    <3>1. ASSUME NEW i \in 1..Len(Append(s, c)), Append(s, c)[i] \in Words
          PROVE  c \in Words \/ \E j \in 1..Len(s) : s[j] \in Words
      <4>1. i = Len(s) + 1 \/ i \in 1..Len(s)
        BY <2>5
      <4> QED
        BY <2>5, <3>1, <4>1
    <3>2. ASSUME NEW i \in 1..Len(s), s[i] \in Words
          PROVE  \E j \in 1..Len(Append(s, c)) : Append(s, c)[j] \in Words
      <4>1. i \in 1..Len(Append(s, c)) /\ Append(s, c)[i] \in Words
        BY <2>5, <3>2
      <4> QED
        BY <4>1
    <3>3. ASSUME c \in Words PROVE \E j \in 1..Len(Append(s, c)) : Append(s, c)[j] \in Words
      <4>1. Len(s) + 1 \in 1..Len(Append(s, c)) /\ Append(s, c)[Len(s) + 1] \in Words
        BY <2>5, <3>3
      <4> QED
        BY <4>1
    <3> QED
      BY <3>1, <3>2, <3>3
  <2>7. CASE c \in {Unit, Bar}
    <3>1. Turn(both, c, {Unit, Bar}) = Pad(both) /\ c \notin Words
      BY <2>7, SymbolsApart DEF Turn
    <3>2. Trimmed(Pad(both)) = Trimmed(both)
      <4>1. Blank \in Letters
        BY DEF Letters
      <4> QED
        BY <2>1, <4>1, PadType
    <3>3. Clean(Append(s, c)) = Clean(s)
      BY <2>2, <3>1, <3>2
    <3> QED
      BY <2>3, <2>4, <2>6, <3>1, <3>3
  <2>8. CASE c \in Words
    <3>1. c \notin {Blank, Unit, Bar} /\ c \in Letters
      BY <2>8, SymbolsApart DEF Letters
    <3>2. Turn(both, c, {Unit, Bar}) = Append(both, c)
      BY <3>1 DEF Turn
    <3>3. Trimmed(Append(both, c)) = Append(both, c)
      BY <2>1, <3>1, PadEnding
    <3>4. Append(both, c) # <<>>
      BY <2>1, <3>1, Ending
    <3>5. Clean(Append(s, c)) # <<>>
      BY <2>2, <3>2, <3>3, <3>4
    <3> QED
      BY <2>4, <2>6, <2>8, <3>5
  <2> QED
    BY <2>7, <2>8 DEF Symbols
<1> HIDE DEF T
<1>3. \A s \in Seq(Symbols) : s \in T
  BY <1>1, <1>2, AppendInduction
<1> QED
  BY <1>3 DEF T

---------------------------------------------------------------------------
(* Key and payload *)

\* A text made of five parts one after another.
Then(s, t) == s \o t
Chain(a, parts, f) ==
  f = [i \in 0..Len(TextFields) |-> IF i = 0 THEN a ELSE Then(f[i - 1], parts[i])]

LEMMA FieldNames ==
  /\ Len(TextFields) = 5 /\ DOMAIN TextFields = 1..5
  /\ TextFields[1] = "purpose" /\ TextFields[2] = "last_name" /\ TextFields[3] = "first_name"
  /\ TextFields[4] = "middle_name" /\ TextFields[5] = "phone"
BY DEF TextFields

LEMMA FieldRange ==
  /\ \A i \in 1..5 : TextFields[i] \in Range(TextFields)
  /\ \A f \in Range(TextFields) : \E i \in 1..5 : f = TextFields[i]
  /\ \A f \in Range(TextFields) : f # "sum"
<1>1. Range(TextFields) = {TextFields[i] : i \in 1..5}
  BY FieldNames DEF Range
<1>2. \A i \in 1..5 : TextFields[i] # "sum"
  BY FieldNames
<1> QED
  BY <1>1, <1>2

LEMMA ChainExists == ASSUME NEW a, NEW parts PROVE \E f : Chain(a, parts, f)
<1> DEFINE k1 == Then(a, parts[1])
           k2 == Then(k1, parts[2])
           k3 == Then(k2, parts[3])
           k4 == Then(k3, parts[4])
           k5 == Then(k4, parts[5])
           h == [i \in 0..5 |-> IF i = 0 THEN a ELSE IF i = 1 THEN k1 ELSE IF i = 2 THEN k2
                                ELSE IF i = 3 THEN k3 ELSE IF i = 4 THEN k4 ELSE k5]
<1>1. h[0] = a /\ h[1] = k1 /\ h[2] = k2 /\ h[3] = k3 /\ h[4] = k4 /\ h[5] = k5
  <2> HIDE DEF k1, k2, k3, k4, k5
  <2> QED
    OBVIOUS
<1>2. h[1] = Then(h[0], parts[1]) /\ h[2] = Then(h[1], parts[2]) /\ h[3] = Then(h[2], parts[3])
      /\ h[4] = Then(h[3], parts[4]) /\ h[5] = Then(h[4], parts[5])
  <2> HIDE DEF h
  <2> QED
    BY <1>1
<1>3. h = [i \in 0..5 |-> h[i]]
  OBVIOUS
<1> HIDE DEF h
<1>4. \A i \in 0..5 : h[i] = IF i = 0 THEN a ELSE Then(h[i - 1], parts[i])
  <2> SUFFICES ASSUME NEW i \in 0..5
               PROVE  h[i] = IF i = 0 THEN a ELSE Then(h[i - 1], parts[i])
    OBVIOUS
  <2>1. i = 0 \/ i = 1 \/ i = 2 \/ i = 3 \/ i = 4 \/ i = 5
    OBVIOUS
  <2>2. CASE i = 0
    BY <1>1, <2>2
  <2>3. CASE i = 1
    BY <1>2, <2>3
  <2>4. CASE i = 2
    BY <1>2, <2>4
  <2>5. CASE i = 3
    BY <1>2, <2>5
  <2>6. CASE i = 4
    BY <1>2, <2>6
  <2>7. CASE i = 5
    BY <1>2, <2>7
  <2> QED
    BY <2>1, <2>2, <2>3, <2>4, <2>5, <2>6, <2>7
<1>5. Chain(a, parts, h)
  BY <1>3, <1>4, FieldNames DEF Chain
<1> QED
  BY <1>5

LEMMA ChainTable ==
  ASSUME NEW a, NEW parts, NEW f, Chain(a, parts, f)
  PROVE  f[0] = a /\ \A i \in 1..5 : f[i] = Then(f[i - 1], parts[i])
<1>1. \A i \in 0..5 : f[i] = IF i = 0 THEN a ELSE Then(f[i - 1], parts[i])
  BY FieldNames DEF Chain
<1> QED
  BY <1>1

KeySum(r) == IF r.sum_kopecks = None THEN <<>> ELSE <<r.sum_kopecks>>
KeyParts(r) == [i \in 1..5 |-> <<Unit>> \o Normalize(r.text[TextFields[i]])]

LEMMA KeyUnfold ==
  ASSUME NEW r
  PROVE  \E f : Chain(KeySum(r), KeyParts(r), f) /\ Key(r) = f[5]
<1> DEFINE Made(f) ==
             f = [i \in 0..Len(TextFields) |->
                    IF i = 0 THEN IF r.sum_kopecks = None THEN <<>> ELSE <<r.sum_kopecks>>
                    ELSE f[i - 1] \o (<<Unit>> \o Normalize(r.text[TextFields[i]]))]
           key == CHOOSE f : Made(f)
<1>1. Key(r) = key[5]
  BY FieldNames DEF Key
<1>2. \A i \in 1..5 : KeyParts(r)[i] = <<Unit>> \o Normalize(r.text[TextFields[i]])
  BY Zenon DEF KeyParts
<1>3. \A f : Made(f) <=> Chain(KeySum(r), KeyParts(r), f)
  <2> SUFFICES ASSUME NEW f PROVE Made(f) <=> Chain(KeySum(r), KeyParts(r), f)
    OBVIOUS
  <2> DEFINE u(i) ==
               IF i = 0 THEN IF r.sum_kopecks = None THEN <<>> ELSE <<r.sum_kopecks>>
               ELSE f[i - 1] \o (<<Unit>> \o Normalize(r.text[TextFields[i]]))
             v(i) == IF i = 0 THEN KeySum(r) ELSE Then(f[i - 1], KeyParts(r)[i])
  <2>1. \A i \in 0..5 : u(i) = v(i)
    <3>1. \A i \in 1..5 : Then(f[i - 1], KeyParts(r)[i])
                            = f[i - 1] \o (<<Unit>> \o Normalize(r.text[TextFields[i]]))
      <4> SUFFICES ASSUME NEW i \in 1..5
                   PROVE  Then(f[i - 1], KeyParts(r)[i])
                            = f[i - 1] \o (<<Unit>> \o Normalize(r.text[TextFields[i]]))
        OBVIOUS
      <4>1. KeyParts(r)[i] = <<Unit>> \o Normalize(r.text[TextFields[i]])
        BY <1>2
      <4> QED
        BY <4>1, ZenonT(30) DEF Then
    <3>2. \A i \in 0..5 : i # 0 => i \in 1..5
      OBVIOUS
    <3> QED
      BY <3>1, <3>2, ZenonT(30) DEF KeySum
  <2>2. Made(f) <=> f = [i \in 0..5 |-> u(i)]
    BY FieldNames
  <2>3. Chain(KeySum(r), KeyParts(r), f) <=> f = [i \in 0..5 |-> v(i)]
    BY FieldNames DEF Chain
  <2> HIDE DEF u, v, Made
  <2> QED
    BY <2>1, <2>2, <2>3
<1>4. \E f : Made(f)
  BY <1>3, ChainExists
<1> HIDE DEF Made
<1>5. Made(key)
  BY <1>4
<1> QED
  BY <1>1, <1>3, <1>5

PayloadSum(r) ==
  <<"requisites">> \o IF r.sum_kopecks = None THEN <<>> ELSE <<Bar, "sum", r.sum_kopecks>>
PayloadPart(r, f) == IF r.text[f] = None THEN <<>> ELSE <<Bar, f>> \o Clean(r.text[f])
PayloadParts(r) == [i \in 1..5 |-> PayloadPart(r, TextFields[i])]

LEMMA PayloadUnfold ==
  ASSUME NEW r
  PROVE  \E f : Chain(PayloadSum(r), PayloadParts(r), f) /\ Payload(r) = f[5]
<1> DEFINE Made(f) ==
             f = [i \in 0..Len(TextFields) |->
                    IF i = 0
                    THEN <<"requisites">> \o
                           IF r.sum_kopecks = None THEN <<>> ELSE <<Bar, "sum", r.sum_kopecks>>
                    ELSE f[i - 1] \o
                           IF r.text[TextFields[i]] = None THEN <<>>
                           ELSE <<Bar, TextFields[i]>> \o Clean(r.text[TextFields[i]])]
           payload == CHOOSE f : Made(f)
<1>1. Payload(r) = payload[5]
  BY FieldNames DEF Payload
<1>2. \A i \in 1..5 : PayloadParts(r)[i] = PayloadPart(r, TextFields[i])
  BY DEF PayloadParts
<1>3. \A f : Made(f) <=> Chain(PayloadSum(r), PayloadParts(r), f)
  <2> SUFFICES ASSUME NEW f PROVE Made(f) <=> Chain(PayloadSum(r), PayloadParts(r), f)
    OBVIOUS
  <2> DEFINE u(i) ==
               IF i = 0
               THEN <<"requisites">> \o
                      IF r.sum_kopecks = None THEN <<>> ELSE <<Bar, "sum", r.sum_kopecks>>
               ELSE f[i - 1] \o
                      IF r.text[TextFields[i]] = None THEN <<>>
                      ELSE <<Bar, TextFields[i]>> \o Clean(r.text[TextFields[i]])
             v(i) == IF i = 0 THEN PayloadSum(r) ELSE Then(f[i - 1], PayloadParts(r)[i])
  <2>1. \A i \in 0..5 : u(i) = v(i)
    <3>1. \A i \in 1..5 : Then(f[i - 1], PayloadParts(r)[i])
                            = f[i - 1] \o
                                IF r.text[TextFields[i]] = None THEN <<>>
                                ELSE <<Bar, TextFields[i]>> \o Clean(r.text[TextFields[i]])
      <4> SUFFICES ASSUME NEW i \in 1..5
                   PROVE  Then(f[i - 1], PayloadParts(r)[i])
                            = f[i - 1] \o
                                IF r.text[TextFields[i]] = None THEN <<>>
                                ELSE <<Bar, TextFields[i]>> \o Clean(r.text[TextFields[i]])
        BY Zenon
      <4>1. PayloadParts(r)[i] = PayloadPart(r, TextFields[i])
        BY <1>2
      <4> QED
        BY <4>1, ZenonT(30) DEF Then, PayloadPart
    <3>2. \A i \in 0..5 : i # 0 => i \in 1..5
      OBVIOUS
    <3> QED
      BY <3>1, <3>2, ZenonT(30) DEF PayloadSum
  <2>2. Made(f) <=> f = [i \in 0..5 |-> u(i)]
    BY FieldNames
  <2>3. Chain(PayloadSum(r), PayloadParts(r), f) <=> f = [i \in 0..5 |-> v(i)]
    BY FieldNames DEF Chain
  <2> HIDE DEF u, v, Made
  <2> QED
    BY <2>1, <2>2, <2>3
<1>4. \E f : Made(f)
  BY <1>3, ChainExists
<1> HIDE DEF Made
<1>5. Made(payload)
  BY <1>4
<1> QED
  BY <1>1, <1>3, <1>5

Joined(s, t, z) ==
  /\ Len(z) = Len(s) + Len(t)
  /\ \A i \in 1..Len(s) : z[i] = s[i]
  /\ \A i \in 1..Len(t) : z[Len(s) + i] = t[i]

LEMMA ThenTable ==
  ASSUME NEW S, NEW s \in Seq(S), NEW t \in Seq(S)
  PROVE  Then(s, t) \in Seq(S) /\ Joined(s, t, Then(s, t))
<1> DEFINE r == s \o t
<1>1. /\ r \in Seq(S) /\ Len(r) = Len(s) + Len(t)
      /\ \A i \in 1..(Len(s) + Len(t)) : r[i] = IF i <= Len(s) THEN s[i] ELSE t[i - Len(s)]
  BY ConcatProperties
<1> HIDE DEF r
<1>2. Len(s) \in Nat /\ Len(t) \in Nat
  OBVIOUS
<1>3. \A i \in 1..Len(s) : r[i] = s[i]
  BY <1>1, <1>2
<1>4. ASSUME NEW i \in 1..Len(t) PROVE r[Len(s) + i] = t[i]
  <2>1. /\ Len(s) + i \in 1..(Len(s) + Len(t)) /\ ~(Len(s) + i <= Len(s))
        /\ (Len(s) + i) - Len(s) = i
    BY <1>2
  <2>2. r[Len(s) + i] = t[(Len(s) + i) - Len(s)]
    BY <1>1, <2>1
  <2> QED
    BY <2>1, <2>2
<1> QED
  BY <1>1, <1>3, <1>4 DEF Then, r, Joined

\* A separator, and a part without it.
Marked(z, x, c, a) ==
  /\ Len(z) = Len(x) + 1 + Len(a)
  /\ \A i \in 1..Len(x) : z[i] = x[i]
  /\ z[Len(x) + 1] = c
  /\ \A i \in 1..Len(a) : z[Len(x) + 1 + i] = a[i]

LEMMA MarkedThen ==
  ASSUME NEW S, NEW c \in S, NEW x \in Seq(S), NEW a \in Seq(S)
  PROVE  /\ <<c>> \o a \in Seq(S) /\ Then(x, <<c>> \o a) \in Seq(S)
         /\ Marked(Then(x, <<c>> \o a), x, c, a)
<1> DEFINE one == <<c>>
           back == Then(one, a)
           z == Then(x, back)
<1>1. one \in Seq(S) /\ Len(one) = 1 /\ one[1] = c /\ Len(x) \in Nat /\ Len(a) \in Nat
  OBVIOUS
<1> HIDE DEF one
<1>2. /\ back \in Seq(S) /\ Len(back) = 1 + Len(a) /\ back[1] = c
      /\ \A i \in 1..Len(a) : back[1 + i] = a[i]
  <2>1. /\ back \in Seq(S) /\ Len(back) = Len(one) + Len(a)
        /\ \A i \in 1..Len(one) : back[i] = one[i]
        /\ \A i \in 1..Len(a) : back[Len(one) + i] = a[i]
    <3>1. one \in Seq(S) /\ a \in Seq(S)
      BY <1>1
    <3>2. back \in Seq(S) /\ Joined(one, a, back)
      BY <3>1, ThenTable
    <3> HIDE DEF back
    <3> QED
      BY <3>2 DEF Joined
  <2> HIDE DEF back
  <2> QED
    BY <1>1, <2>1
<1> HIDE DEF back
<1>3. /\ z \in Seq(S) /\ Len(z) = Len(x) + Len(back)
      /\ \A i \in 1..Len(x) : z[i] = x[i]
      /\ \A i \in 1..Len(back) : z[Len(x) + i] = back[i]
  <2>1. back \in Seq(S)
    BY <1>2
  <2>2. z \in Seq(S) /\ Joined(x, back, z)
    BY <2>1, ThenTable
  <2> HIDE DEF z
  <2> QED
    BY <2>2 DEF Joined
<1> HIDE DEF z
<1>4. Len(z) = Len(x) + 1 + Len(a)
  BY <1>1, <1>2, <1>3
<1>5. z[Len(x) + 1] = c
  <2>1. 1 \in 1..Len(back)
    BY <1>1, <1>2
  <2> QED
    BY <1>2, <1>3, <2>1
<1>6. ASSUME NEW i \in 1..Len(a) PROVE z[Len(x) + 1 + i] = a[i]
  <2>1. 1 + i \in 1..Len(back) /\ Len(x) + (1 + i) = Len(x) + 1 + i
    BY <1>1, <1>2
  <2>2. z[Len(x) + (1 + i)] = back[1 + i] /\ back[1 + i] = a[i]
    BY <1>2, <1>3, <2>1
  <2> QED
    BY <2>1, <2>2
<1>7. Marked(z, x, c, a)
  BY <1>3, <1>4, <1>5, <1>6 DEF Marked
<1>8. back = <<c>> \o a
  BY DEF back, one, Then
<1> QED
  BY <1>2, <1>3, <1>7, <1>8 DEF z

LEMMA MarkedLast ==
  ASSUME NEW S, NEW c \in S, NEW x \in Seq(S), NEW y \in Seq(S),
         NEW a \in Seq(S \ {c}), NEW b \in Seq(S \ {c}), NEW z,
         Marked(z, x, c, a), Marked(z, y, c, b)
  PROVE  ~(Len(x) < Len(y))
<1> SUFFICES ASSUME Len(x) < Len(y) PROVE FALSE
  OBVIOUS
<1>1. Len(x) \in Nat /\ Len(y) \in Nat /\ Len(a) \in Nat /\ Len(b) \in Nat
  OBVIOUS
<1>2. Len(z) = Len(x) + 1 + Len(a) /\ Len(z) = Len(y) + 1 + Len(b) /\ z[Len(y) + 1] = c
  BY DEF Marked
<1>3. /\ Len(y) - Len(x) \in 1..Len(a)
      /\ Len(x) + 1 + (Len(y) - Len(x)) = Len(y) + 1
  BY <1>1, <1>2
<1>4. z[Len(x) + 1 + (Len(y) - Len(x))] = a[Len(y) - Len(x)]
  BY <1>3 DEF Marked
<1>5. a[Len(y) - Len(x)] \in S \ {c}
  BY <1>3
<1> QED
  BY <1>2, <1>3, <1>4, <1>5

\* The last separator tells where the last part begins.
LEMMA LastPart ==
  ASSUME NEW S, NEW c \in S, NEW x \in Seq(S), NEW y \in Seq(S),
         NEW a \in Seq(S \ {c}), NEW b \in Seq(S \ {c}),
         Then(x, <<c>> \o a) = Then(y, <<c>> \o b)
  PROVE  x = y /\ a = b
<1> DEFINE z == Then(x, <<c>> \o a)
<1>0. S \ {c} \subseteq S
  OBVIOUS
<1>1. a \in Seq(S) /\ b \in Seq(S)
  BY <1>0, SeqMore
<1>2. Marked(z, x, c, a) /\ Marked(z, y, c, b)
  <2>1. Marked(Then(x, <<c>> \o a), x, c, a)
    BY <1>1, MarkedThen
  <2>2. Marked(Then(y, <<c>> \o b), y, c, b)
    BY <1>1, MarkedThen
  <2> QED
    BY <2>1, <2>2
<1> HIDE DEF z
<1>3. Len(x) \in Nat /\ Len(y) \in Nat /\ Len(a) \in Nat /\ Len(b) \in Nat
  BY <1>1, LenProperties
<1>4. Len(x) = Len(y)
  <2>1. ~(Len(x) < Len(y))
    BY <1>2, MarkedLast
  <2>2. ~(Len(y) < Len(x))
    BY <1>2, MarkedLast
  <2> QED
    BY <1>3, <2>1, <2>2
<1>5. Len(a) = Len(b)
  BY <1>2, <1>3, <1>4 DEF Marked
<1>6. \A i \in 1..Len(x) : x[i] = y[i]
  BY <1>2, <1>4 DEF Marked
<1>7. \A i \in 1..Len(a) : a[i] = b[i]
  BY <1>2, <1>4, <1>5 DEF Marked
<1>8. x = y
  BY <1>4, <1>6, SeqEqual
<1>9. a = b
  BY <1>1, <1>5, <1>7, SeqEqual
<1> QED
  BY <1>8, <1>9

LEMMA TextsSeq == \A t \in Texts : t \in Seq(Symbols)
<1> SUFFICES ASSUME NEW t \in Texts PROVE t \in Seq(Symbols)
  OBVIOUS
<1>1. PICK n \in 0..TextLength : t \in [1..n -> Symbols]
  BY DEF Texts
<1>2. n \in Nat
  BY DocumentAssumption
<1> QED
  BY <1>1, <1>2

LEMMA NormalizeType ==
  ASSUME NEW text \in Texts \cup {None}
  PROVE  Normalize(text) \in Seq(Letters \ {Unit})
<1>1. CASE text = None
  BY <1>1 DEF Normalize
<1>2. CASE text # None
  <2>1. text \in Seq(Symbols)
    BY <1>2, TextsSeq
  <2>2. Collapsed(text, {Unit}) \in Seq(Letters \ {Unit})
    BY <2>1, OneSpace
  <2>3. Blank \in Letters \ {Unit}
    BY SymbolsApart DEF Letters
  <2>4. Trimmed(Collapsed(text, {Unit})) \in Seq(Letters \ {Unit})
    BY <2>2, <2>3, PadType
  <2> QED
    BY <1>2, <2>4 DEF Normalize, Squeeze
<1> QED
  BY <1>1, <1>2

RequestText(r, i) == r.text[TextFields[i]]

LEMMA RequestTexts ==
  ASSUME NEW r \in Request
  PROVE  \A i \in 1..5 : RequestText(r, i) \in Texts \cup {None}
BY FieldRange DEF Request, RequestText

KeyLetters == Sums \cup Letters

LEMMA KeyPiece ==
  ASSUME NEW r \in Request, NEW i \in 1..5
  PROVE  /\ KeyParts(r)[i] = <<Unit>> \o Normalize(RequestText(r, i))
         /\ Normalize(RequestText(r, i)) \in Seq(KeyLetters \ {Unit})
         /\ KeyParts(r)[i] \in Seq(KeyLetters)
<1>1. KeyParts(r)[i] = <<Unit>> \o Normalize(RequestText(r, i))
  BY Zenon DEF KeyParts, RequestText
<1>2. Normalize(RequestText(r, i)) \in Seq(Letters \ {Unit})
  BY RequestTexts, NormalizeType
<1>3. Letters \ {Unit} \subseteq KeyLetters \ {Unit} /\ KeyLetters \ {Unit} \subseteq KeyLetters
      /\ Unit \in KeyLetters
  BY DEF KeyLetters, Letters
<1>4. Normalize(RequestText(r, i)) \in Seq(KeyLetters \ {Unit})
  BY <1>2, <1>3, SeqMore
<1>5. Normalize(RequestText(r, i)) \in Seq(KeyLetters)
  BY <1>3, <1>4, SeqMore
<1>6. <<Unit>> \o Normalize(RequestText(r, i)) \in Seq(KeyLetters)
  <2>1. <<>> \in Seq(KeyLetters)
    OBVIOUS
  <2> QED
    BY <1>3, <1>5, <2>1, MarkedThen
<1>7. KeyParts(r)[i] \in Seq(KeyLetters)
  <2> DEFINE x == KeyParts(r)[i]
             y == <<Unit>> \o Normalize(RequestText(r, i))
  <2>1. x = y /\ y \in Seq(KeyLetters)
    BY <1>1, <1>6
  <2> HIDE DEF x, y
  <2>2. x \in Seq(KeyLetters)
    BY <2>1
  <2> QED
    BY <2>2 DEF x
<1> QED
  BY <1>1, <1>4, <1>7

LEMMA KeyPieces ==
  ASSUME NEW r \in Request, NEW f, Chain(KeySum(r), KeyParts(r), f)
  PROVE  \A i \in 0..5 : f[i] \in Seq(KeyLetters)
<1>1. f[0] = KeySum(r) /\ \A i \in 1..5 : f[i] = Then(f[i - 1], KeyParts(r)[i])
  BY ChainTable
<1>2. f[0] \in Seq(KeyLetters)
  <2>1. r.sum_kopecks \in Sums \cup {None}
    BY DEF Request
  <2> QED
    <3>1. CASE r.sum_kopecks = None
      BY <1>1, <3>1 DEF KeySum
    <3>2. CASE r.sum_kopecks # None
      <4> DEFINE sum == r.sum_kopecks
      <4>1. sum \in KeyLetters
        BY <2>1, <3>2 DEF KeyLetters
      <4>2. f[0] = <<sum>>
        BY <1>1, <3>2 DEF KeySum
      <4> HIDE DEF sum
      <4> QED
        BY <4>1, <4>2
    <3> QED
      BY <3>1, <3>2
<1>3. ASSUME NEW i \in 1..5, f[i - 1] \in Seq(KeyLetters) PROVE f[i] \in Seq(KeyLetters)
  <2>1. KeyParts(r)[i] \in Seq(KeyLetters)
    BY KeyPiece
  <2>2. Then(f[i - 1], KeyParts(r)[i]) \in Seq(KeyLetters)
    BY <1>3, <2>1, ThenTable
  <2> QED
    BY <1>1, <2>2
<1>4. f[1] \in Seq(KeyLetters)
  BY <1>2, <1>3
<1>5. f[2] \in Seq(KeyLetters)
  BY <1>3, <1>4
<1>6. f[3] \in Seq(KeyLetters)
  BY <1>3, <1>5
<1>7. f[4] \in Seq(KeyLetters)
  BY <1>3, <1>6
<1>8. f[5] \in Seq(KeyLetters)
  BY <1>3, <1>7
<1>9. 0..5 = {0, 1, 2, 3, 4, 5}
  OBVIOUS
<1> QED
  BY <1>2, <1>4, <1>5, <1>6, <1>7, <1>8, <1>9, Zenon

\* The key keeps every value apart from white space, and nothing else.
SameValues(r, q) ==
  /\ KeySum(r) = KeySum(q)
  /\ \A i \in 1..5 : Normalize(RequestText(r, i)) = Normalize(RequestText(q, i))

LEMMA KeysApart ==
  ASSUME NEW r \in Request, NEW q \in Request, Key(r) = Key(q)
  PROVE  SameValues(r, q)
<1>1. PICK f : Chain(KeySum(r), KeyParts(r), f) /\ Key(r) = f[5]
  BY KeyUnfold
<1>2. PICK g : Chain(KeySum(q), KeyParts(q), g) /\ Key(q) = g[5]
  BY KeyUnfold
<1>3. f[0] = KeySum(r) /\ \A i \in 1..5 : f[i] = Then(f[i - 1], KeyParts(r)[i])
  BY <1>1, ChainTable
<1>4. g[0] = KeySum(q) /\ \A i \in 1..5 : g[i] = Then(g[i - 1], KeyParts(q)[i])
  BY <1>2, ChainTable
<1>5. ASSUME NEW i \in 1..5, f[i] = g[i]
      PROVE  f[i - 1] = g[i - 1] /\ Normalize(RequestText(r, i)) = Normalize(RequestText(q, i))
  <2> DEFINE a == Normalize(RequestText(r, i))
             b == Normalize(RequestText(q, i))
  <2>1. a \in Seq(KeyLetters \ {Unit}) /\ KeyParts(r)[i] = <<Unit>> \o a
    BY KeyPiece
  <2>2. b \in Seq(KeyLetters \ {Unit}) /\ KeyParts(q)[i] = <<Unit>> \o b
    BY KeyPiece
  <2> HIDE DEF a, b
  <2>3. i - 1 \in 0..5
    OBVIOUS
  <2>4. f[i - 1] \in Seq(KeyLetters) /\ g[i - 1] \in Seq(KeyLetters)
    BY <1>1, <1>2, <2>3, KeyPieces
  <2>5. Then(f[i - 1], <<Unit>> \o a) = Then(g[i - 1], <<Unit>> \o b)
    BY <1>3, <1>4, <1>5, <2>1, <2>2
  <2>6. Unit \in KeyLetters
    BY DEF KeyLetters, Letters
  <2>7. f[i - 1] = g[i - 1] /\ a = b
    <3> DEFINE x == f[i - 1]
               y == g[i - 1]
    <3>1. x \in Seq(KeyLetters) /\ y \in Seq(KeyLetters)
          /\ a \in Seq(KeyLetters \ {Unit}) /\ b \in Seq(KeyLetters \ {Unit})
          /\ Then(x, <<Unit>> \o a) = Then(y, <<Unit>> \o b)
      BY <2>1, <2>2, <2>4, <2>5
    <3> HIDE DEF x, y
    <3>2. x = y /\ a = b
      BY <2>6, <3>1, LastPart
    <3> QED
      BY <3>2 DEF x, y
  <2> QED
    BY <2>7 DEF a, b
<1>6. f[5] = g[5]
  BY <1>1, <1>2
<1>7. f[4] = g[4] /\ Normalize(RequestText(r, 5)) = Normalize(RequestText(q, 5))
  BY <1>5, <1>6
<1>8. f[3] = g[3] /\ Normalize(RequestText(r, 4)) = Normalize(RequestText(q, 4))
  BY <1>5, <1>7
<1>9. f[2] = g[2] /\ Normalize(RequestText(r, 3)) = Normalize(RequestText(q, 3))
  BY <1>5, <1>8
<1>10. f[1] = g[1] /\ Normalize(RequestText(r, 2)) = Normalize(RequestText(q, 2))
  BY <1>5, <1>9
<1>11. f[0] = g[0] /\ Normalize(RequestText(r, 1)) = Normalize(RequestText(q, 1))
  BY <1>5, <1>10
<1> QED
  BY <1>3, <1>4, <1>7, <1>8, <1>9, <1>10, <1>11 DEF SameValues

LEMMA KeysSame ==
  ASSUME NEW r \in Request, NEW q \in Request, SameValues(r, q)
  PROVE  Key(r) = Key(q)
<1>1. PICK f : Chain(KeySum(r), KeyParts(r), f) /\ Key(r) = f[5]
  BY KeyUnfold
<1>2. PICK g : Chain(KeySum(q), KeyParts(q), g) /\ Key(q) = g[5]
  BY KeyUnfold
<1>3. f[0] = KeySum(r) /\ \A i \in 1..5 : f[i] = Then(f[i - 1], KeyParts(r)[i])
  BY <1>1, ChainTable
<1>4. g[0] = KeySum(q) /\ \A i \in 1..5 : g[i] = Then(g[i - 1], KeyParts(q)[i])
  BY <1>2, ChainTable
<1>5. ASSUME NEW i \in 1..5, f[i - 1] = g[i - 1] PROVE f[i] = g[i]
  <2>1. KeyParts(r)[i] = KeyParts(q)[i]
    <3>1. KeyParts(r)[i] = <<Unit>> \o Normalize(RequestText(r, i))
      BY KeyPiece
    <3>2. KeyParts(q)[i] = <<Unit>> \o Normalize(RequestText(q, i))
      BY KeyPiece
    <3>3. Normalize(RequestText(r, i)) = Normalize(RequestText(q, i))
      BY DEF SameValues
    <3> QED
      BY <3>1, <3>2, <3>3
  <2> QED
    BY <1>3, <1>4, <1>5, <2>1
<1>6. f[0] = g[0]
  BY <1>3, <1>4 DEF SameValues
<1>7. f[1] = g[1]
  BY <1>5, <1>6
<1>8. f[2] = g[2]
  BY <1>5, <1>7
<1>9. f[3] = g[3]
  BY <1>5, <1>8
<1>10. f[4] = g[4]
  BY <1>5, <1>9
<1>11. f[5] = g[5]
  BY <1>5, <1>10
<1> QED
  BY <1>1, <1>2, <1>11

---------------------------------------------------------------------------
(* What the bank reads *)

Bars(s) == {i \in DOMAIN s : s[i] = Bar} \cup {Len(s) + 1}

\* A field with a value stands between two bars.
Between(s, i, j) ==
  /\ i \in Bars(s) /\ j \in Bars(s) /\ i + 2 < j
  /\ \A k \in Bars(s) : ~(i < k /\ k < j)

LEMMA ReadMember ==
  ASSUME NEW s, NEW v
  PROVE  v \in Read(s) <=> \E i, j : Between(s, i, j) /\ v = SubSeq(s, i + 1, j - 1)
<1> DEFINE bars == Bars(s)
           good(q) == q[1] + 2 < q[2] /\ \A k \in bars : ~(q[1] < k /\ k < q[2])
<1>1. Read(s) = {SubSeq(s, p[1] + 1, p[2] - 1) : p \in {q \in bars \X bars : good(q)}}
  BY DEF Read, Bars
<1>2. \A i, j \in bars : good(<<i, j>>) <=> Between(s, i, j)
  BY DEF Between
<1>3. ASSUME v \in Read(s) PROVE \E i, j : Between(s, i, j) /\ v = SubSeq(s, i + 1, j - 1)
  <2>1. PICK p \in bars \X bars : good(p) /\ v = SubSeq(s, p[1] + 1, p[2] - 1)
    <3> HIDE DEF bars, good
    <3> QED
      BY <1>1, <1>3
  <2>2. PICK i \in bars, j \in bars : p = <<i, j>>
    <3> HIDE DEF bars, good
    <3> QED
      BY <2>1
  <2>3. p[1] = i /\ p[2] = j
    BY <2>2
  <2>4. Between(s, i, j)
    <3> HIDE DEF bars, good
    <3> QED
      BY <1>2, <2>1, <2>2
  <2> QED
    BY <2>1, <2>3, <2>4
<1>4. ASSUME NEW i, NEW j, Between(s, i, j), v = SubSeq(s, i + 1, j - 1) PROVE v \in Read(s)
  <2>1. i \in bars /\ j \in bars
    BY <1>4 DEF Between
  <2> DEFINE p == <<i, j>>
  <2>2. p \in bars \X bars /\ p[1] = i /\ p[2] = j
    BY <2>1
  <2>3. good(p)
    <3> HIDE DEF bars, good
    <3> QED
      BY <1>2, <1>4, <2>1
  <2>4. v = SubSeq(s, p[1] + 1, p[2] - 1)
    BY <1>4, <2>2
  <2> HIDE DEF bars, good, p
  <2> QED
    BY <1>1, <2>2, <2>3, <2>4
<1> QED
  BY <1>3, <1>4

\* A cut of a sequence, place by place.
Cut(s, m, n, z) ==
  /\ Len(z) = n - m + 1
  /\ \A i \in 1..(n - m + 1) : z[i] = s[m + i - 1]

LEMMA CutTable ==
  ASSUME NEW S, NEW s \in Seq(S), NEW m \in Nat, NEW n \in Nat, 1 <= m, m <= n, n <= Len(s)
  PROVE  SubSeq(s, m, n) \in Seq(S) /\ Cut(s, m, n, SubSeq(s, m, n))
<1> DEFINE z == SubSeq(s, m, n)
<1>1. m \in Int /\ n \in Int /\ \A i \in m..n : s[i] \in S
  OBVIOUS
<1>2. /\ z \in Seq(S) /\ Len(z) = IF m <= n THEN n - m + 1 ELSE 0
      /\ \A i \in 1..(n - m + 1) : z[i] = s[m + i - 1]
  BY <1>1, SubSeqProperties
<1> HIDE DEF z
<1>3. Cut(s, m, n, z)
  BY <1>2 DEF Cut
<1> QED
  BY <1>2, <1>3 DEF z

\* q begins as s does.
Begins(s, q) == Len(s) <= Len(q) /\ \A i \in 1..Len(s) : q[i] = s[i]

LEMMA CutSame ==
  ASSUME NEW S, NEW s \in Seq(S), NEW q \in Seq(S), NEW m \in Nat, NEW n \in Nat,
         1 <= m, m <= n, n <= Len(s), Begins(s, q)
  PROVE  SubSeq(q, m, n) = SubSeq(s, m, n)
<1> DEFINE y == SubSeq(s, m, n)
           z == SubSeq(q, m, n)
<1>1. y \in Seq(S) /\ Cut(s, m, n, y)
  BY CutTable
<1>2. z \in Seq(S) /\ Cut(q, m, n, z)
  <2>1. n <= Len(q)
    BY LenProperties DEF Begins
  <2> QED
    BY <2>1, CutTable
<1> HIDE DEF y, z
<1>3. Len(y) = n - m + 1 /\ Len(z) = n - m + 1
  BY <1>1, <1>2 DEF Cut
<1>4. ASSUME NEW i \in 1..(n - m + 1) PROVE z[i] = y[i]
  <2>1. z[i] = q[m + i - 1] /\ y[i] = s[m + i - 1]
    BY <1>1, <1>2 DEF Cut
  <2>2. m + i - 1 \in 1..Len(s)
    BY LenProperties
  <2> QED
    BY <2>1, <2>2 DEF Begins
<1>5. z = y
  BY <1>1, <1>2, <1>3, <1>4, SeqEqual
<1> QED
  BY <1>5 DEF y, z

LEMMA BarPlaces ==
  ASSUME NEW S, NEW s \in Seq(S)
  PROVE  /\ Bars(s) \subseteq 1..(Len(s) + 1) /\ Len(s) \in Nat
         /\ \A i \in 1..Len(s) : i \in Bars(s) <=> s[i] = Bar
<1>1. DOMAIN s = 1..Len(s) /\ Len(s) \in Nat
  OBVIOUS
<1> QED
  BY <1>1 DEF Bars

\* A field put behind a bar at the end is read too, if it has a value.
Behind(a) == IF Len(a) >= 2 THEN {a} ELSE {}

LEMMA ReadMore ==
  ASSUME NEW S, Bar \in S, NEW s \in Seq(S), NEW a \in Seq(S \ {Bar})
  PROVE  Read(Then(s, <<Bar>> \o a)) = Read(s) \cup Behind(a)
<1> DEFINE z == Then(s, <<Bar>> \o a)
           n == Len(s)
           m == Len(a)
<1>0. a \in Seq(S) /\ n \in Nat /\ m \in Nat /\ \A i \in 1..m : a[i] # Bar
  <2>1. S \ {Bar} \subseteq S
    OBVIOUS
  <2>2. a \in Seq(S)
    BY <2>1, SeqMore
  <2> QED
    BY <2>2
<1>1. z \in Seq(S) /\ Marked(z, s, Bar, a)
  BY <1>0, MarkedThen
<1>2. /\ Len(z) = n + 1 + m
      /\ \A i \in 1..n : z[i] = s[i]
      /\ z[n + 1] = Bar
      /\ \A i \in 1..m : z[n + 1 + i] = a[i]
  BY <1>1 DEF Marked
<1> HIDE DEF z
<1>3. /\ Bars(s) \subseteq 1..(n + 1)
      /\ \A i \in 1..n : i \in Bars(s) <=> s[i] = Bar
  BY BarPlaces
<1>4. /\ Bars(z) \subseteq 1..(Len(z) + 1)
      /\ \A i \in 1..Len(z) : i \in Bars(z) <=> z[i] = Bar
  BY <1>1, BarPlaces
<1>5. n + 1 \in Bars(s) /\ Len(z) + 1 \in Bars(z)
  BY DEF Bars
<1> HIDE DEF n, m
<1>6. Bars(z) = Bars(s) \cup {n + m + 2}
  <2>1. ASSUME NEW i \in 1..(n + m + 2) PROVE i \in Bars(z) <=> i \in Bars(s) \cup {n + m + 2}
    <3>1. CASE i \in 1..n
      <4>1. i \in 1..Len(z) /\ i # n + m + 2
        BY <1>0, <1>2, <3>1
      <4> QED
        BY <1>2, <1>3, <1>4, <3>1, <4>1
    <3>2. CASE i = n + 1
      <4>1. i \in 1..Len(z)
        BY <1>0, <1>2, <3>2
      <4> QED
        BY <1>2, <1>4, <1>5, <3>2, <4>1
    <3>3. CASE i > n + 1 /\ i < n + m + 2
      <4>1. i \in 1..Len(z) /\ i \notin Bars(s) /\ i # n + m + 2
        BY <1>0, <1>2, <1>3, <3>3
      <4>2. i - n - 1 \in 1..m /\ n + 1 + (i - n - 1) = i
        BY <1>0, <3>3
      <4>3. z[n + 1 + (i - n - 1)] = a[i - n - 1] /\ a[i - n - 1] # Bar
        BY <1>0, <1>2, <4>2
      <4> QED
        BY <1>4, <4>1, <4>2, <4>3
    <3>4. CASE i = n + m + 2
      <4>1. i = Len(z) + 1
        BY <1>0, <1>2, <3>4
      <4> QED
        BY <1>5, <3>4, <4>1
    <3> QED
      BY <1>0, <3>1, <3>2, <3>3, <3>4
  <2>2. Bars(z) \subseteq 1..(n + m + 2)
    BY <1>0, <1>2, <1>4
  <2>3. Bars(s) \cup {n + m + 2} \subseteq 1..(n + m + 2)
    BY <1>0, <1>3
  <2> QED
    BY <2>1, <2>2, <2>3
<1>7. \A i \in Bars(s) : i \in Int /\ 1 <= i /\ i <= n + 1
  BY <1>0, <1>3
\* Fields that were read before.
<1>8. ASSUME NEW i \in Bars(s), NEW j \in Bars(s)
      PROVE  /\ Between(z, i, j) <=> Between(s, i, j)
             /\ i + 2 < j => SubSeq(z, i + 1, j - 1) = SubSeq(s, i + 1, j - 1)
  <2>1. i \in Int /\ j \in Int /\ 1 <= i /\ j <= n + 1
    BY <1>7
  <2>2. ~(n + m + 2 < j)
    BY <1>0, <2>1
  <2>3. Between(z, i, j) <=> Between(s, i, j)
    BY <1>6, <2>2 DEF Between
  <2>4. ASSUME i + 2 < j PROVE SubSeq(z, i + 1, j - 1) = SubSeq(s, i + 1, j - 1)
    <3>1. i + 1 \in Nat /\ j - 1 \in Nat /\ 1 <= i + 1 /\ i + 1 <= j - 1 /\ j - 1 <= Len(s)
          /\ Len(s) <= Len(z)
      BY <1>0, <1>2, <2>1, <2>4 DEF n
    <3>2. \A k \in 1..Len(s) : z[k] = s[k]
      BY <1>2 DEF n
    <3> QED
      <4> DEFINE first == i + 1
                 last == j - 1
      <4>1. first \in Nat /\ last \in Nat /\ 1 <= first /\ first <= last /\ last <= Len(s)
        BY <3>1
      <4> HIDE DEF first, last
      <4>2. z \in Seq(S) /\ Begins(s, z)
        BY <1>1, <3>1, <3>2 DEF Begins
      <4>3. SubSeq(z, first, last) = SubSeq(s, first, last)
        BY <4>1, <4>2, CutSame, ZenonT(30)
      <4> QED
        BY <4>3 DEF first, last
  <2> QED
    BY <2>3, <2>4
\* The field behind the new bar.
<1>9. ASSUME NEW i \in Bars(z), NEW j \in Bars(z), Between(z, i, j), ~(i \in Bars(s) /\ j \in Bars(s))
      PROVE  i = n + 1 /\ j = n + m + 2 /\ m >= 2
  <2>1. i + 2 < j /\ \A k \in Bars(z) : ~(i < k /\ k < j)
    BY <1>9 DEF Between
  <2>2. i # n + m + 2
    BY <1>0, <1>6, <1>7, <2>1
  <2>3. i \in Bars(s) /\ j = n + m + 2
    BY <1>6, <1>9, <2>2
  <2>4. i = n + 1
    <3>1. ~(i < n + 1 /\ n + 1 < j)
      BY <1>5, <1>6, <2>1
    <3> QED
      BY <1>0, <1>7, <2>3, <3>1
  <2> QED
    BY <1>0, <2>1, <2>3, <2>4
<1>10. ASSUME m >= 2 PROVE Between(z, n + 1, n + m + 2) /\ SubSeq(z, n + 2, n + m + 1) = a
  <2>1. \A k \in Bars(z) : ~(n + 1 < k /\ k < n + m + 2)
    BY <1>0, <1>6, <1>7
  <2>2. Between(z, n + 1, n + m + 2)
    BY <1>0, <1>5, <1>6, <1>10, <2>1 DEF Between
  <2> DEFINE y == SubSeq(z, n + 2, n + m + 1)
  <2>3. y \in Seq(S) /\ Cut(z, n + 2, n + m + 1, y)
    <3>1. n + 2 \in Nat /\ n + m + 1 \in Nat /\ 1 <= n + 2 /\ n + 2 <= n + m + 1
          /\ n + m + 1 <= Len(z)
      BY <1>0, <1>2, <1>10
    <3> QED
      BY <1>1, <3>1, CutTable
  <2> HIDE DEF y
  <2>4. Len(y) = m
    BY <1>0, <2>3 DEF Cut
  <2>5. ASSUME NEW i \in 1..m PROVE y[i] = a[i]
    <3>1. i \in 1..(((n + m + 1) - (n + 2)) + 1) /\ (n + 2) + (i - 1) = n + 1 + i
      BY <1>0
    <3>2. y[i] = z[(n + 2) + (i - 1)]
      BY <2>3, <3>1 DEF Cut
    <3> QED
      BY <1>2, <3>1, <3>2
  <2>6. y = a
    <3>1. Len(a) = m
      BY DEF m
    <3> QED
      BY <1>0, <2>3, <2>4, <2>5, <3>1, SeqEqual
  <2> QED
    BY <2>2, <2>6 DEF y
<1>11. ASSUME NEW v PROVE v \in Read(z) <=> v \in Read(s) \cup Behind(a)
  <2>1. ASSUME v \in Read(z) PROVE v \in Read(s) \cup Behind(a)
    <3>1. PICK i, j : Between(z, i, j) /\ v = SubSeq(z, i + 1, j - 1)
      BY <2>1, ReadMember
    <3>2. i \in Bars(z) /\ j \in Bars(z) /\ i + 2 < j
      BY <3>1 DEF Between
    <3>3. CASE i \in Bars(s) /\ j \in Bars(s)
      <4>1. Between(s, i, j) /\ v = SubSeq(s, i + 1, j - 1)
        BY <1>8, <3>1, <3>2, <3>3
      <4>2. v \in Read(s)
        BY <4>1, ReadMember
      <4> QED
        BY <4>2
    <3>4. CASE ~(i \in Bars(s) /\ j \in Bars(s))
      <4>1. i = n + 1 /\ j = n + m + 2 /\ m >= 2
        BY <1>9, <3>1, <3>2, <3>4
      <4>2. i + 1 = n + 2 /\ j - 1 = n + m + 1
        BY <1>0, <4>1
      <4>3. v = a
        BY <1>10, <3>1, <4>1, <4>2
      <4> QED
        BY <4>1, <4>3 DEF Behind, m
    <3> QED
      BY <3>3, <3>4
  <2>2. ASSUME v \in Read(s) PROVE v \in Read(z)
    <3>1. PICK i, j : Between(s, i, j) /\ v = SubSeq(s, i + 1, j - 1)
      BY <2>2, ReadMember
    <3>2. i \in Bars(s) /\ j \in Bars(s) /\ i + 2 < j
      BY <3>1 DEF Between
    <3>3. Between(z, i, j) /\ v = SubSeq(z, i + 1, j - 1)
      BY <1>8, <3>1, <3>2
    <3> QED
      BY <3>3, ReadMember
  <2>3. ASSUME v \in Behind(a) PROVE v \in Read(z)
    <3>1. v = a /\ m >= 2
      BY <2>3 DEF Behind, m
    <3>2. (n + 1) + 1 = n + 2 /\ (n + m + 2) - 1 = n + m + 1
      BY <1>0
    <3>3. Between(z, n + 1, n + m + 2) /\ v = SubSeq(z, (n + 1) + 1, (n + m + 2) - 1)
      BY <1>10, <3>1, <3>2
    <3> QED
      BY <3>3, ReadMember
  <2> QED
    BY <2>1, <2>2, <2>3
<1> QED
  BY <1>11 DEF z

Named(r, i) == IF RequestText(r, i) = None THEN <<>> ELSE Clean(RequestText(r, i))
SumField(r) == IF r.sum_kopecks = None THEN {} ELSE {<<"sum", r.sum_kopecks>>}
TextField(r, i) == IF Named(r, i) = <<>> THEN {} ELSE {<<TextFields[i]>> \o Named(r, i)}

Signs == Sums \cup Letters \cup Range(TextFields) \cup {"requisites", "sum"}

LEMMA SignsApart ==
  /\ Bar \in Signs
  /\ "requisites" \in Signs \ {Bar} /\ "sum" \in Signs \ {Bar}
  /\ Sums \subseteq Signs \ {Bar}
  /\ \A i \in 1..5 : TextFields[i] \in Signs \ {Bar}
  /\ Words \cup {Blank} \subseteq Signs \ {Bar}
<1>1. \A i \in 1..5 : TextFields[i] \in Range(TextFields) /\ TextFields[i] # Bar
  BY FieldRange, FieldNames DEF Bar
<1>2. Sums \subseteq Signs \ {Bar}
  BY DocumentAssumption DEF Signs
<1>3. Words \cup {Blank} \subseteq Signs \ {Bar}
  BY SymbolsApart DEF Signs, Letters
<1>4. Bar \in Signs /\ "requisites" \in Signs \ {Bar} /\ "sum" \in Signs \ {Bar}
  BY DEF Signs, Letters, Bar
<1> QED
  BY <1>1, <1>2, <1>3, <1>4 DEF Signs

LEMMA CleanType == ASSUME NEW t \in Seq(Symbols) PROVE Clean(t) \in Seq(Words \cup {Blank})
<1>1. Collapsed(t, {Unit, Bar}) \in Seq(Words \cup {Blank})
  BY OneSpace
<1> QED
  BY <1>1, PadType DEF Clean, Squeeze

LEMMA NamedType ==
  ASSUME NEW r \in Request, NEW i \in 1..5
  PROVE  Named(r, i) \in Seq(Signs \ {Bar}) /\ Named(r, i) \in Seq(Signs)
<1>1. Named(r, i) \in Seq(Words \cup {Blank})
  <2>1. CASE RequestText(r, i) = None
    BY <2>1 DEF Named
  <2>2. CASE RequestText(r, i) # None
    <3>1. RequestText(r, i) \in Seq(Symbols)
      BY <2>2, RequestTexts, TextsSeq
    <3> QED
      BY <2>2, <3>1, CleanType DEF Named
  <2> QED
    BY <2>1, <2>2
<1>2. Words \cup {Blank} \subseteq Signs \ {Bar} /\ Signs \ {Bar} \subseteq Signs
  BY SignsApart
<1>3. Named(r, i) \in Seq(Signs \ {Bar})
  BY <1>1, <1>2, SeqMore
<1> QED
  BY <1>2, <1>3, SeqMore

\* The sum that the payload begins with.
LEMMA ReadSum ==
  ASSUME NEW r \in Request
  PROVE  PayloadSum(r) \in Seq(Signs) /\ Read(PayloadSum(r)) = SumField(r)
<1> DEFINE head == <<"requisites">>
<1>1. head \in Seq(Signs) /\ Len(head) = 1 /\ head[1] = "requisites"
  BY SignsApart
<1>2. Read(head) = {}
  <2> SUFFICES ASSUME NEW v \in Read(head) PROVE FALSE
    OBVIOUS
  <2> HIDE DEF head
  <2>1. PICK i, j : Between(head, i, j)
    BY ReadMember
  <2>2. i \in Bars(head) /\ j \in Bars(head) /\ i + 2 < j
    BY <2>1 DEF Between
  <2>3. Bars(head) \subseteq 1..(1 + 1)
    BY <1>1, BarPlaces
  <2> QED
    BY <2>2, <2>3
<1>3. CASE r.sum_kopecks = None
  <2>1. PayloadSum(r) = head \o <<>>
    BY <1>3 DEF PayloadSum
  <2>2. head \o <<>> = head
    <3> HIDE DEF head
    <3> QED
      BY <1>1, ConcatEmptySeq
  <2> QED
    BY <1>1, <1>2, <1>3, <2>1, <2>2 DEF SumField
<1>4. CASE r.sum_kopecks # None
  <2> DEFINE sum == r.sum_kopecks
             a == <<"sum", sum>>
             back == <<Bar, "sum", sum>>
  <2>1. sum \in Sums
    BY <1>4 DEF Request
  <2> HIDE DEF sum
  <2>2. a \in Seq(Signs \ {Bar}) /\ Len(a) = 2
    BY <2>1, SignsApart
  <2>3. back = <<Bar>> \o a
    OBVIOUS
  <2>4. PayloadSum(r) = Then(head, <<Bar>> \o a)
    <3>1. PayloadSum(r) = head \o back
      BY <1>4 DEF PayloadSum, sum
    <3> HIDE DEF head, back, a
    <3> QED
      BY <2>3, <3>1 DEF Then
  <2> HIDE DEF head, a, back
  <2>5. Read(PayloadSum(r)) = Read(head) \cup Behind(a)
    BY <1>1, <2>2, <2>4, SignsApart, ReadMore
  <2>6. Behind(a) = {a}
    BY <2>2 DEF Behind
  <2>7. SumField(r) = {a}
    BY <1>4 DEF SumField, a, sum
  <2>8. PayloadSum(r) \in Seq(Signs)
    <3>1. Signs \ {Bar} \subseteq Signs
      OBVIOUS
    <3>2. a \in Seq(Signs)
      BY <2>2, <3>1, SeqMore
    <3> QED
      BY <1>1, <2>4, <3>2, SignsApart, MarkedThen
  <2> QED
    BY <1>2, <2>5, <2>6, <2>7, <2>8
<1> QED
  BY <1>3, <1>4

\* One more text.
LEMMA ReadText ==
  ASSUME NEW r \in Request, NEW i \in 1..5, NEW s \in Seq(Signs)
  PROVE  /\ Then(s, PayloadParts(r)[i]) \in Seq(Signs)
         /\ Read(Then(s, PayloadParts(r)[i])) = Read(s) \cup TextField(r, i)
<1> DEFINE f == TextFields[i]
           w == Named(r, i)
<1>1. w \in Seq(Signs \ {Bar}) /\ w \in Seq(Signs) /\ f \in Signs \ {Bar}
  BY NamedType, SignsApart
<1>2. PayloadParts(r)[i] = IF RequestText(r, i) = None THEN <<>> ELSE <<Bar, f>> \o w
  BY DEF PayloadParts, PayloadPart, RequestText, Named
<1>3. CASE RequestText(r, i) = None
  <2>1. PayloadParts(r)[i] = <<>> /\ TextField(r, i) = {}
    BY <1>2, <1>3 DEF TextField, Named
  <2>2. Then(s, <<>>) = s
    BY ConcatEmptySeq DEF Then
  <2> QED
    BY <2>1, <2>2
<1>4. CASE RequestText(r, i) # None
  <2> DEFINE a == <<f>> \o w
  <2> HIDE DEF f, w
  <2>1. a \in Seq(Signs \ {Bar}) /\ Len(a) = 1 + Len(w)
    <3> DEFINE one == <<f>>
    <3>1. one \in Seq(Signs \ {Bar}) /\ Len(one) = 1
      BY <1>1
    <3> HIDE DEF one
    <3>2. one \o w \in Seq(Signs \ {Bar}) /\ Len(one \o w) = Len(one) + Len(w)
      BY <1>1, <3>1, ConcatProperties, ZenonT(30)
    <3> QED
      BY <3>1, <3>2 DEF one
  <2>2. PayloadParts(r)[i] = <<Bar>> \o a
    <3> DEFINE one == <<f>>
               bar == <<Bar>>
    <3>1. one \in Seq(Signs) /\ bar \in Seq(Signs) /\ <<Bar, f>> = bar \o one
      BY <1>1, SignsApart
    <3> HIDE DEF one, bar
    <3>2. (bar \o one) \o w = bar \o (one \o w)
      <4>1. bar \in Seq(Signs) /\ one \in Seq(Signs) /\ w \in Seq(Signs)
        BY <1>1, <3>1
      <4> QED
        BY <4>1, ConcatAssociative, SMTT(30)
    <3> QED
      BY <1>2, <1>4, <3>1, <3>2 DEF one, bar
  <2> HIDE DEF a
  <2>3. Read(Then(s, <<Bar>> \o a)) = Read(s) \cup Behind(a)
    BY <2>1, SignsApart, ReadMore
  <2>4. Behind(a) = TextField(r, i)
    <3>1. Len(w) \in Nat /\ (Len(w) = 0 <=> w = <<>>)
      BY <1>1
    <3>2. Behind(a) = IF w = <<>> THEN {} ELSE {a}
      BY <2>1, <3>1 DEF Behind
    <3> QED
      BY <3>2 DEF TextField, a, f, w
  <2>5. Then(s, <<Bar>> \o a) \in Seq(Signs)
    <3>1. Signs \ {Bar} \subseteq Signs
      OBVIOUS
    <3>2. a \in Seq(Signs)
      BY <2>1, <3>1, SeqMore
    <3> QED
      BY <3>2, SignsApart, MarkedThen
  <2> QED
    BY <2>2, <2>3, <2>4, <2>5
<1> QED
  BY <1>3, <1>4

\* The bank reads the sum and every text that is not blank.
LEMMA ReadPayload ==
  ASSUME NEW r \in Request
  PROVE  \A v : v \in Read(Payload(r)) <=> v \in SumField(r) \/ \E i \in 1..5 : v \in TextField(r, i)
<1>1. PICK f : Chain(PayloadSum(r), PayloadParts(r), f) /\ Payload(r) = f[5]
  BY PayloadUnfold
<1>2. f[0] = PayloadSum(r) /\ \A i \in 1..5 : f[i] = Then(f[i - 1], PayloadParts(r)[i])
  BY <1>1, ChainTable
<1>3. ASSUME NEW i \in 1..5, f[i - 1] \in Seq(Signs)
      PROVE  f[i] \in Seq(Signs) /\ Read(f[i]) = Read(f[i - 1]) \cup TextField(r, i)
  <2> DEFINE s == f[i - 1]
  <2>1. s \in Seq(Signs) /\ f[i] = Then(s, PayloadParts(r)[i])
    BY <1>2, <1>3
  <2> HIDE DEF s
  <2>2. f[i] \in Seq(Signs) /\ Read(f[i]) = Read(s) \cup TextField(r, i)
    BY <2>1, ReadText
  <2> QED
    BY <2>2 DEF s
<1>4. f[0] \in Seq(Signs) /\ Read(f[0]) = SumField(r)
  BY <1>2, ReadSum
<1>5. f[1] \in Seq(Signs) /\ Read(f[1]) = Read(f[0]) \cup TextField(r, 1)
  BY <1>3, <1>4
<1>6. f[2] \in Seq(Signs) /\ Read(f[2]) = Read(f[1]) \cup TextField(r, 2)
  BY <1>3, <1>5
<1>7. f[3] \in Seq(Signs) /\ Read(f[3]) = Read(f[2]) \cup TextField(r, 3)
  BY <1>3, <1>6
<1>8. f[4] \in Seq(Signs) /\ Read(f[4]) = Read(f[3]) \cup TextField(r, 4)
  BY <1>3, <1>7
<1>9. f[5] \in Seq(Signs) /\ Read(f[5]) = Read(f[4]) \cup TextField(r, 5)
  BY <1>3, <1>8
<1>10. 1..5 = {1, 2, 3, 4, 5}
  OBVIOUS
<1> QED
  BY <1>1, <1>4, <1>5, <1>6, <1>7, <1>8, <1>9, <1>10, Zenon

\* The first character of a field is its name.
LEMMA FieldHead ==
  ASSUME NEW r \in Request
  PROVE  /\ \A v \in SumField(r) : v[1] = "sum"
         /\ \A i \in 1..5 : \A v \in TextField(r, i) : v[1] = TextFields[i]
<1>1. ASSUME NEW v \in SumField(r) PROVE v[1] = "sum"
  BY <1>1 DEF SumField
<1>2. ASSUME NEW i \in 1..5, NEW v \in TextField(r, i) PROVE v[1] = TextFields[i]
  <2> DEFINE one == <<TextFields[i]>>
             w == Named(r, i)
  <2>1. v = one \o w
    BY <1>2 DEF TextField
  <2>2. one \in Seq(Signs) /\ Len(one) = 1 /\ one[1] = TextFields[i] /\ w \in Seq(Signs)
    BY SignsApart, NamedType
  <2> HIDE DEF one, w
  <2>3. Joined(one, w, Then(one, w))
    BY <2>2, ThenTable
  <2>4. 1 \in 1..Len(one)
    BY <2>2
  <2>5. Then(one, w)[1] = one[1]
    BY <2>3, <2>4 DEF Joined
  <2> QED
    BY <2>1, <2>2, <2>5 DEF Then
<1> QED
  BY <1>1, <1>2

LEMMA NamesApart == \A i, j \in 1..5 : TextFields[i] = TextFields[j] => i = j
<1> SUFFICES ASSUME NEW i \in 1..5, NEW j \in 1..5, i # j PROVE TextFields[i] # TextFields[j]
  OBVIOUS
<1>1. i \in {1, 2, 3, 4, 5} /\ j \in {1, 2, 3, 4, 5}
  OBVIOUS
<1> QED
  BY <1>1, FieldNames

SameNamed(r, q) ==
  /\ SumField(r) = SumField(q)
  /\ \A i \in 1..5 : Named(r, i) = Named(q, i)

\* What the bank reads keeps the sum and the texts apart.
LEMMA ReadApart ==
  ASSUME NEW r \in Request, NEW q \in Request, Read(Payload(r)) \subseteq Read(Payload(q))
  PROVE  /\ SumField(r) \subseteq SumField(q)
         /\ \A i \in 1..5 : Named(r, i) # <<>> => Named(r, i) = Named(q, i)
<1>1. ASSUME NEW v \in SumField(r) PROVE v \in SumField(q)
  <2>1. v \in Read(Payload(q)) /\ v[1] = "sum"
    BY <1>1, ReadPayload, FieldHead
  <2>2. v \in SumField(q) \/ \E i \in 1..5 : v \in TextField(q, i)
    BY <2>1, ReadPayload
  <2>3. ASSUME NEW i \in 1..5, v \in TextField(q, i) PROVE FALSE
    <3>1. v[1] = TextFields[i]
      BY <2>3, FieldHead
    <3> QED
      BY <2>1, <3>1, FieldRange
  <2> QED
    BY <2>2, <2>3
<1>2. ASSUME NEW i \in 1..5, Named(r, i) # <<>> PROVE Named(r, i) = Named(q, i)
  <2> DEFINE v == <<TextFields[i]>> \o Named(r, i)
  <2>1. v \in TextField(r, i)
    BY <1>2 DEF TextField
  <2>2. v \in Read(Payload(q)) /\ v[1] = TextFields[i]
    BY <2>1, ReadPayload, FieldHead
  <2>3. v \in SumField(q) \/ \E j \in 1..5 : v \in TextField(q, j)
    BY <2>2, ReadPayload
  <2>4. v \notin SumField(q)
    BY <2>2, FieldHead, FieldRange
  <2>5. PICK j \in 1..5 : v \in TextField(q, j)
    BY <2>3, <2>4
  <2>6. j = i
    <3>1. v[1] = TextFields[j]
      BY <2>5, FieldHead
    <3> HIDE DEF v
    <3> QED
      BY <2>2, <3>1, NamesApart
  <2> DEFINE one == <<TextFields[i]>>
  <2>7. one \o Named(r, i) = one \o Named(q, i)
    BY <2>5, <2>6 DEF TextField
  <2>8. one \in Seq(Signs) /\ Named(r, i) \in Seq(Signs) /\ Named(q, i) \in Seq(Signs)
    <3>1. one \in Seq(Signs)
      <4>1. TextFields[i] \in Signs
        BY SignsApart
      <4> QED
        BY <4>1
    <3>2. Named(r, i) \in Seq(Signs) /\ Named(q, i) \in Seq(Signs)
      BY NamedType
    <3> QED
      BY <3>1, <3>2
  <2> HIDE DEF one
  <2> QED
    BY <2>7, <2>8, ConcatSimplifications
<1> QED
  BY <1>1, <1>2

LEMMA ReadTellsAll ==
  ASSUME NEW r \in Request, NEW q \in Request
  PROVE  Read(Payload(r)) = Read(Payload(q)) <=> SameNamed(r, q)
<1>1. ASSUME Read(Payload(r)) = Read(Payload(q)) PROVE SameNamed(r, q)
  <2>1. /\ SumField(r) \subseteq SumField(q)
        /\ \A i \in 1..5 : Named(r, i) # <<>> => Named(r, i) = Named(q, i)
    BY <1>1, ReadApart
  <2>2. /\ SumField(q) \subseteq SumField(r)
        /\ \A i \in 1..5 : Named(q, i) # <<>> => Named(q, i) = Named(r, i)
    BY <1>1, ReadApart
  <2> QED
    BY <2>1, <2>2 DEF SameNamed
<1>2. ASSUME SameNamed(r, q) PROVE Read(Payload(r)) = Read(Payload(q))
  <2>1. \A i \in 1..5 : TextField(r, i) = TextField(q, i)
    BY <1>2 DEF SameNamed, TextField
  <2>2. SumField(r) = SumField(q)
    BY <1>2 DEF SameNamed
  <2>3. \A v : v \in Read(Payload(r)) <=> v \in SumField(r) \/ \E i \in 1..5 : v \in TextField(r, i)
    BY ReadPayload
  <2>4. \A v : v \in Read(Payload(q)) <=> v \in SumField(q) \/ \E i \in 1..5 : v \in TextField(q, i)
    BY ReadPayload
  <2> QED
    BY <2>1, <2>2, <2>3, <2>4
<1> QED
  BY <1>1, <1>2

LEMMA SumsSame ==
  ASSUME NEW r, NEW q
  PROVE  KeySum(r) = KeySum(q) <=> SumField(r) = SumField(q)
<1> DEFINE a == r.sum_kopecks
           b == q.sum_kopecks
<1>1. KeySum(r) = (IF a = None THEN <<>> ELSE <<a>>) /\ KeySum(q) = (IF b = None THEN <<>> ELSE <<b>>)
  BY DEF KeySum
<1>2. /\ SumField(r) = (IF a = None THEN {} ELSE {<<"sum", a>>})
      /\ SumField(q) = (IF b = None THEN {} ELSE {<<"sum", b>>})
  BY DEF SumField
<1> HIDE DEF a, b
<1>3. (<<a>> = <<b>> <=> a = b) /\ <<a>> # <<>> /\ <<b>> # <<>>
  OBVIOUS
<1>4. ({<<"sum", a>>} = {<<"sum", b>>} <=> a = b) /\ {<<"sum", a>>} # {} /\ {<<"sum", b>>} # {}
  <2> DEFINE u == <<"sum", a>>
             v == <<"sum", b>>
  <2>1. u = v <=> a = b
    OBVIOUS
  <2> HIDE DEF u, v
  <2>2. ({u} = {v} <=> u = v) /\ {u} # {} /\ {v} # {}
    OBVIOUS
  <2> QED
    BY <2>1, <2>2 DEF u, v
<1> QED
  BY <1>1, <1>2, <1>3, <1>4

LEMMA NamedNormalized ==
  ASSUME NEW r \in Request, NEW i \in 1..5
  PROVE  Named(r, i) = Trimmed(Wide(Normalize(RequestText(r, i))))
<1>1. CASE RequestText(r, i) = None
  <2>1. Wide(<<>>) = <<>> /\ Trimmed(<<>>) = <<>>
    BY CollapsedEmpty, PadEmpty DEF Wide
  <2> QED
    BY <1>1, <2>1 DEF Named, Normalize
<1>2. CASE RequestText(r, i) # None
  <2>1. RequestText(r, i) \in Seq(Symbols)
    BY <1>2, RequestTexts, TextsSeq
  <2> QED
    BY <1>2, <2>1, CleanNormalized DEF Named
<1> QED
  BY <1>1, <1>2

\* One key is one document.
LEMMA KeyDocument ==
  ASSUME NEW r \in Request, NEW q \in Request, Key(r) = Key(q)
  PROVE  Read(Payload(r)) = Read(Payload(q))
<1>1. SameValues(r, q)
  BY KeysApart
<1>2. SumField(r) = SumField(q)
  BY <1>1, SumsSame DEF SameValues
<1>3. \A i \in 1..5 : Named(r, i) = Named(q, i)
  BY <1>1, NamedNormalized DEF SameValues
<1> QED
  BY <1>2, <1>3, ReadTellsAll DEF SameNamed

\* Nothing but the edited fields holds a text.
OnlyEdited(r) ==
  r \in Request /\ \A f \in Range(TextFields) : f \notin Edited => r.text[f] = None

NoBar(r) == \A f \in Edited : ~(r.text[f] # None /\ Contains(r.text[f], Bar))

LEMMA PlainNamed ==
  ASSUME NEW r, OnlyEdited(r), NoBar(r), NEW i \in 1..5
  PROVE  Named(r, i) = Normalize(RequestText(r, i))
<1> DEFINE t == RequestText(r, i)
<1>0. r \in Request
  BY DEF OnlyEdited
<1>1. CASE t = None
  BY <1>1 DEF Named, Normalize
<1>2. CASE t # None
  <2>1. t \in Seq(Symbols)
    BY <1>0, <1>2, RequestTexts, TextsSeq
  <2>2. TextFields[i] \in Edited /\ t = r.text[TextFields[i]]
    BY <1>2, FieldRange DEF OnlyEdited, RequestText
  <2>3. ~Contains(t, Bar)
    BY <1>2, <2>2 DEF NoBar
  <2>4. Named(r, i) = Clean(t) /\ Normalize(t) = Squeeze(t, {Unit})
    BY <1>2 DEF Named, Normalize
  <2> HIDE DEF t
  <2>5. t \in Seq(Words \cup {Unit})
    <3>1. \A j \in 1..Len(t) : t[j] \in Symbols /\ t[j] # Bar
      BY <2>1, <2>3 DEF Contains
    <3>2. \A j \in 1..Len(t) : t[j] \in Words \cup {Unit}
      BY <3>1 DEF Symbols
    <3> QED
      BY <2>1, <3>2
  <2> QED
    BY <2>4, <2>5, NoBars DEF Clean, Squeeze, t
<1> QED
  BY <1>1, <1>2

\* Without bars one document is one key.
LEMMA DocumentKey ==
  ASSUME NEW r, NEW q, OnlyEdited(r), OnlyEdited(q), NoBar(r), NoBar(q),
         Read(Payload(r)) = Read(Payload(q))
  PROVE  Key(r) = Key(q)
<1>1. r \in Request /\ q \in Request
  BY DEF OnlyEdited
<1>2. SumField(r) = SumField(q) /\ \A i \in 1..5 : Named(r, i) = Named(q, i)
  BY <1>1, ReadTellsAll DEF SameNamed
<1>3. \A i \in 1..5 : Normalize(RequestText(r, i)) = Normalize(RequestText(q, i))
  BY <1>2, PlainNamed
<1>4. SameValues(r, q)
  BY <1>2, <1>3, SumsSame DEF SameValues
<1> QED
  BY <1>1, <1>4, KeysSame

WordIn(text) == \E word \in Words : Contains(text, word)

LEMMA NamedWord ==
  ASSUME NEW r \in Request, NEW i \in 1..5
  PROVE  Named(r, i) # <<>> <=> RequestText(r, i) # None /\ WordIn(RequestText(r, i))
<1> DEFINE t == RequestText(r, i)
<1>1. CASE t = None
  BY <1>1 DEF Named
<1>2. CASE t # None
  <2>1. t \in Seq(Symbols) /\ Named(r, i) = Clean(t)
    BY <1>2, RequestTexts, TextsSeq DEF Named
  <2> HIDE DEF t
  <2>2. Clean(t) # <<>> <=> \E j \in 1..Len(t) : t[j] \in Words
    BY <2>1, WordsShow
  <2>3. WordIn(t) <=> \E j \in 1..Len(t) : t[j] \in Words
    BY DEF WordIn, Contains
  <2> QED
    BY <1>2, <2>1, <2>2, <2>3 DEF t
<1> QED
  BY <1>1, <1>2

\* Every text with a word in it is read.
LEMMA NamesRead ==
  ASSUME NEW r, OnlyEdited(r)
  PROVE  {field[1] : field \in Read(Payload(r)) \ {<<"sum", r.sum_kopecks>>}}
           = {f \in Edited : r.text[f] # None /\ \E word \in Words : Contains(r.text[f], word)}
<1> DEFINE names == {field[1] : field \in Read(Payload(r)) \ {<<"sum", r.sum_kopecks>>}}
           wordy == {f \in Edited : r.text[f] # None /\ \E word \in Words : Contains(r.text[f], word)}
<1>0. r \in Request
  BY DEF OnlyEdited
<1>1. ASSUME NEW f \in wordy PROVE f \in names
  <2>1. f \in Edited /\ r.text[f] # None /\ WordIn(r.text[f])
    BY <1>1 DEF WordIn
  <2>2. PICK i \in 1..5 : f = TextFields[i]
    BY <2>1, FieldRange, DocumentAssumption
  <2>3. Named(r, i) # <<>>
    BY <1>0, <2>1, <2>2, NamedWord DEF RequestText
  <2> DEFINE v == <<TextFields[i]>> \o Named(r, i)
  <2>4. v \in TextField(r, i)
    BY <2>3 DEF TextField
  <2>5. v[1] = f /\ v \in Read(Payload(r))
    BY <1>0, <2>2, <2>4, FieldHead, ReadPayload
  <2>6. v # <<"sum", r.sum_kopecks>>
    <3>1. f # "sum"
      BY <2>2, FieldRange
    <3> HIDE DEF v
    <3> QED
      BY <2>5, <3>1
  <2> HIDE DEF v
  <2> QED
    BY <2>5, <2>6
<1>2. ASSUME NEW f \in names PROVE f \in wordy
  <2>1. PICK v \in Read(Payload(r)) : v # <<"sum", r.sum_kopecks>> /\ f = v[1]
    BY <1>2
  <2>2. v \in SumField(r) \/ \E i \in 1..5 : v \in TextField(r, i)
    BY <1>0, ReadPayload
  <2>3. v \notin SumField(r)
    BY <2>1 DEF SumField
  <2>4. PICK i \in 1..5 : v \in TextField(r, i)
    BY <2>2, <2>3
  <2>5. f = TextFields[i] /\ Named(r, i) # <<>>
    BY <1>0, <2>1, <2>4, FieldHead DEF TextField
  <2>6. r.text[f] # None /\ WordIn(r.text[f])
    BY <1>0, <2>5, NamedWord DEF RequestText
  <2>7. f \in Edited
    BY <2>5, <2>6, FieldRange DEF OnlyEdited
  <2> QED
    BY <2>6, <2>7 DEF WordIn
<1> QED
  BY <1>1, <1>2

\* The requests of the templates.
SaleInv == OnlyEdited(request) /\ OnlyEdited(held)

LEMMA SaleInit == Init => SaleInv
<1> SUFFICES ASSUME Init PROVE SaleInv
  OBVIOUS
<1>1. request = NoText /\ held = NoText
  BY DEF Init
<1>2. OnlyEdited(NoText)
  BY DEF OnlyEdited, NoText, Request
<1> QED
  BY <1>1, <1>2 DEF SaleInv

LEMMA FilledIn ==
  ASSUME NEW r, OnlyEdited(r), NEW field \in Edited, NEW text \in Texts \cup {None}
  PROVE  OnlyEdited([r EXCEPT !.text[field] = text])
<1> DEFINE q == [r EXCEPT !.text[field] = text]
<1>1. r \in Request
  BY DEF OnlyEdited
<1>2. field \in Range(TextFields)
  BY DocumentAssumption
<1>3. q \in Request
  BY <1>1, <1>2 DEF Request
<1>4. ASSUME NEW f \in Range(TextFields), f \notin Edited PROVE q.text[f] = None
  <2>1. f # field
    BY <1>4
  <2>2. q.text[f] = r.text[f]
    BY <1>1, <2>1, <1>2 DEF Request
  <2> QED
    BY <1>4, <2>2 DEF OnlyEdited
<1> HIDE DEF q
<1>5. OnlyEdited(q)
  BY <1>3, <1>4 DEF OnlyEdited
<1> QED
  BY <1>5 DEF q

LEMMA SaleStep == SaleInv /\ [Next]_vars => SaleInv'
<1> SUFFICES ASSUME SaleInv, [Next]_vars PROVE SaleInv'
  OBVIOUS
<1> USE DEF SaleInv
<1>1. ASSUME NEW field \in DOMAIN form, NEW i \in DOMAIN form[field],
             Transpose(field, i) \/ \E c \in Char : Mistype(field, i, c)
      PROVE  SaleInv'
  BY <1>1 DEF Transpose, Mistype
<1>2. ASSUME SaveForm PROVE SaleInv'
  BY <1>2 DEF SaveForm
<1>3. ASSUME NEW field \in Edited, NEW text \in Texts \cup {None}, FillIn(field, text)
      PROVE  SaleInv'
  <2>1. request' = [request EXCEPT !.text[field] = text] /\ held' = held
    BY <1>3 DEF FillIn
  <2> QED
    BY <2>1, FilledIn
<1>4. ASSUME NEW sum \in Sums \cup {None}, SetSum(sum) PROVE SaleInv'
  <2>1. request' = [request EXCEPT !.sum_kopecks = sum] /\ held' = held
    BY <1>4 DEF SetSum
  <2>2. request \in Request
    BY DEF OnlyEdited
  <2>3. request' \in Request /\ request'.text = request.text
    BY <2>1, <2>2 DEF Request
  <2> QED
    BY <2>1, <2>3 DEF OnlyEdited
<1>5. ASSUME Charge PROVE SaleInv'
  BY <1>5 DEF Charge
<1>6. ASSUME UNCHANGED vars PROVE SaleInv'
  BY <1>6 DEF vars
<1> QED
  BY <1>1, <1>2, <1>3, <1>4, <1>5, <1>6 DEF Next

LEMMA PairOfOne ==
  ASSUME NEW a, NEW b
  PROVE  Cardinality({a, b}) = 1 <=> a = b
<1>1. IsFiniteSet({a, b})
  <2>1. IsFiniteSet({a} \cup {b})
    BY FS_Singleton, FS_AddElement
  <2>2. {a} \cup {b} = {a, b}
    OBVIOUS
  <2> QED
    BY <2>1, <2>2
<1>2. ASSUME a = b PROVE Cardinality({a, b}) = 1
  <2>1. {a, b} = {a}
    BY <1>2
  <2> QED
    BY <2>1, FS_Singleton
<1>3. ASSUME Cardinality({a, b}) = 1 PROVE a = b
  <2>1. PICK x : {a, b} = {x}
    BY <1>1, <1>3, FS_Singleton
  <2> QED
    BY <2>1
<1> QED
  BY <1>2, <1>3

LEMMA SaleFollows == SaleInv => KeyMeansDocument
<1> SUFFICES ASSUME SaleInv PROVE KeyMeansDocument
  OBVIOUS
<1> DEFINE keys == {Key(request), Key(held)}
           documents == {Read(Payload(request)), Read(Payload(held))}
<1>1. request \in Request /\ held \in Request /\ OnlyEdited(request) /\ OnlyEdited(held)
  BY DEF SaleInv, OnlyEdited
<1>2. Cardinality(keys) = 1 <=> Key(request) = Key(held)
  <2> DEFINE a == Key(request)
             b == Key(held)
  <2> HIDE DEF a, b
  <2>1. Cardinality({a, b}) = 1 <=> a = b
    BY PairOfOne
  <2> QED
    BY <2>1 DEF a, b
<1>3. Cardinality(documents) = 1 <=> Read(Payload(request)) = Read(Payload(held))
  <2> DEFINE a == Read(Payload(request))
             b == Read(Payload(held))
  <2> HIDE DEF a, b
  <2>1. Cardinality({a, b}) = 1 <=> a = b
    BY PairOfOne
  <2> QED
    BY <2>1 DEF a, b
<1> HIDE DEF keys, documents
<1>4. Cardinality(keys) = 1 => Cardinality(documents) = 1
  BY <1>1, <1>2, <1>3, KeyDocument
<1>5. ASSUME Cardinality(documents) = 1, Cardinality(keys) # 1
      PROVE  \E r \in {request, held}, f \in Edited : r.text[f] # None /\ Contains(r.text[f], Bar)
  <2>1. ~(NoBar(request) /\ NoBar(held))
    BY <1>1, <1>2, <1>3, <1>5, DocumentKey
  <2> QED
    BY <2>1 DEF NoBar
<1>6. {field[1] : field \in Read(Payload(request)) \ {<<"sum", request.sum_kopecks>>}}
        = {f \in Edited : request.text[f] # None /\ \E word \in Words : Contains(request.text[f], word)}
  BY <1>1, NamesRead
<1> QED
  BY <1>4, <1>5, <1>6 DEF KeyMeansDocument, keys, documents

\* Whatever the templates send: requests with one key are one document for
\* the bank; requests with different keys are different documents unless one
\* has a bar in a text; and every text with a word in it is read.
THEOREM DocumentsCorrect == Spec => []KeyMeansDocument
BY SaleInit, SaleStep, SaleFollows, PTL DEF Spec
=============================================================================
