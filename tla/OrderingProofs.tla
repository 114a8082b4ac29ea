---------------------------- MODULE OrderingProofs ----------------------------
(***************************************************************************)
(* What the proofs of several modules need of numbers, orders, iteration   *)
(* and sums.  Induction is by a least counterexample, and a recursive      *)
(* function is shown to exist by way of its initial segments.              *)
(***************************************************************************)
EXTENDS Ordering, Totals, FiniteSetTheorems, TLAPS

------------------------------------------------------------------------------
(* Numbers *)
\* A set of natural numbers has a least element, which does for a proof by
\* induction.
LEMMA LeastNatural ==
  ASSUME NEW S \in SUBSET Nat, S # {}
  PROVE  \E n \in S : \A m \in S : n <= m
<1> DEFINE R == OpToRel(<, Nat)
<1>1. IsWellFoundedOn(R, Nat)
  BY NatLessThanWellFounded
<1>2. \A m, n \in Nat : m < n => <<m, n>> \in R
  BY DEF OpToRel
<1> HIDE DEF R
<1>3. PICK n \in S : \A m \in S : ~(<<m, n>> \in R)
  BY <1>1, WFMin
<1>4. \A m \in S : ~(m < n)
  BY <1>2, <1>3
<1> QED
  BY <1>4

------------------------------------------------------------------------------
(* Orders *)
Preceding(i, items, before) == {j \in items : <<j, i>> \in before}
StrictOrder(items, before) ==
  /\ \A i \in items : <<i, i>> \notin before
  /\ \A i, j \in items : i # j => <<i, j>> \in before \/ <<j, i>> \in before
  /\ \A i, j, k \in items : <<i, j>> \in before /\ <<j, k>> \in before => <<i, k>> \in before

\* Whoever comes later has more before it.
LEMMA MoreBehind ==
  ASSUME NEW items, IsFiniteSet(items), NEW before, StrictOrder(items, before),
         NEW i \in items, NEW j \in items, <<i, j>> \in before
  PROVE  /\ Cardinality(Preceding(i, items, before)) \in Nat
         /\ Cardinality(Preceding(j, items, before)) \in Nat
         /\ Cardinality(Preceding(i, items, before)) < Cardinality(Preceding(j, items, before))
<1>1. /\ Preceding(i, items, before) \in SUBSET items
      /\ Preceding(j, items, before) \in SUBSET items
  BY DEF Preceding
<1>2. /\ IsFiniteSet(Preceding(i, items, before)) /\ IsFiniteSet(Preceding(j, items, before))
      /\ Cardinality(Preceding(i, items, before)) \in Nat
      /\ Cardinality(Preceding(j, items, before)) \in Nat
  BY <1>1, FS_Subset, FS_CardinalityType
<1>3. Preceding(i, items, before) \in SUBSET Preceding(j, items, before)
  BY DEF Preceding, StrictOrder
<1>4. i \in Preceding(j, items, before) /\ i \notin Preceding(i, items, before)
  BY DEF Preceding, StrictOrder
<1>5. /\ Cardinality(Preceding(i, items, before)) <= Cardinality(Preceding(j, items, before))
      /\ Cardinality(Preceding(i, items, before)) # Cardinality(Preceding(j, items, before))
  BY <1>2, <1>3, <1>4, FS_Subset
<1> QED
  BY <1>2, <1>5

\* In a strict order every place is taken by exactly one of the items.
LEMMA ArrangedInOrder ==
  ASSUME NEW items, IsFiniteSet(items), NEW before, StrictOrder(items, before)
  PROVE  /\ Cardinality(items) \in Nat
         /\ Arranged(items, before) \in [1 .. Cardinality(items) -> items]
         /\ \A k, l \in 1 .. Cardinality(items) :
              k < l => <<Arranged(items, before)[k], Arranged(items, before)[l]>> \in before
         /\ \A i \in items : \E k \in 1 .. Cardinality(items) : Arranged(items, before)[k] = i
<1> DEFINE n == Cardinality(items)
           behind(i) == Cardinality(Preceding(i, items, before))
           place == [i \in items |-> behind(i) + 1]
<1>1. n \in Nat /\ IsFiniteSet(1 .. n) /\ Cardinality(1 .. n) = n
  BY FS_CardinalityType, FS_Interval
<1>2. ASSUME NEW i \in items
      PROVE  behind(i) \in Nat /\ behind(i) < n
  <2>1. Preceding(i, items, before) \in SUBSET items
    BY DEF Preceding
  <2>2. i \notin Preceding(i, items, before)
    BY DEF Preceding, StrictOrder
  <2>3. IsFiniteSet(Preceding(i, items, before)) /\ behind(i) \in Nat
    BY <2>1, FS_Subset, FS_CardinalityType
  <2>4. behind(i) <= n /\ behind(i) # n
    BY <2>1, <2>2, FS_Subset
  <2> QED
    BY <2>3, <2>4, <1>1
<1>3. place \in [items -> 1 .. n]
  BY <1>1, <1>2
<1>4. ASSUME NEW i \in items, NEW j \in items, behind(i) = behind(j)
      PROVE  i = j
  <2>1. ASSUME i # j  PROVE FALSE
    <3>1. <<i, j>> \in before \/ <<j, i>> \in before
      BY <2>1 DEF StrictOrder
    <3>2. behind(i) < behind(j) \/ behind(j) < behind(i)
      BY <3>1, MoreBehind
    <3> QED
      BY <3>2, <1>4, <1>2
  <2> QED
    BY <2>1
<1>5. place \in Injection(items, 1 .. n)
  <2>1. ASSUME NEW i \in items, NEW j \in items, place[i] = place[j]
        PROVE  i = j
    <3>1. behind(i) \in Nat /\ behind(j) \in Nat
      BY <1>2
    <3>2. behind(i) = behind(j)
      BY <2>1, <3>1
    <3> QED
      BY <3>2, <1>4
  <2> QED
    BY <1>3, <2>1 DEF Injection, IsInjective
<1>6. place \in Surjection(items, 1 .. n)
  <2> HIDE DEF place
  <2> QED
    BY <1>1, <1>5, FS_Injection
<1>7. ASSUME NEW k \in 1 .. n
      PROVE  \E i \in items : behind(i) = k - 1
  <2>1. PICK i \in items : place[i] = k
    BY <1>6 DEF Surjection
  <2> QED
    BY <2>1, <1>2
<1> DEFINE row == Arranged(items, before)
<1>8. row = [k \in 1 .. n |-> CHOOSE i \in items : behind(i) = k - 1]
  BY DEF Arranged, Preceding
<1>9. ASSUME NEW k \in 1 .. n
      PROVE  row[k] \in items /\ behind(row[k]) = k - 1
  <2>1. row[k] = CHOOSE i \in items : behind(i) = k - 1
    BY <1>8
  <2> HIDE DEF row, behind
  <2> QED
    BY <2>1, <1>7
<1>10. DOMAIN row = 1 .. n /\ row = [k \in DOMAIN row |-> row[k]]
  BY <1>8
<1>11. row \in [1 .. n -> items]
  BY <1>9, <1>10
<1>12. ASSUME NEW k \in 1 .. n, NEW l \in 1 .. n, k < l
       PROVE  <<row[k], row[l]>> \in before
  <2>1. row[k] \in items /\ row[l] \in items /\ behind(row[k]) = k - 1 /\ behind(row[l]) = l - 1
    BY <1>9
  <2>2. row[k] # row[l]
    BY <2>1, <1>12
  <2>3. ASSUME <<row[l], row[k]>> \in before
        PROVE  FALSE
    <3>1. behind(row[l]) < behind(row[k])
      BY <2>1, <2>3, MoreBehind
    <3> QED
      BY <3>1, <2>1, <1>12
  <2> HIDE DEF row
  <2> QED
    BY <2>1, <2>2, <2>3 DEF StrictOrder
<1>13. ASSUME NEW i \in items
       PROVE  \E k \in 1 .. n : row[k] = i
  <2>1. behind(i) + 1 \in 1 .. n
    BY <1>1, <1>2
  <2>2. row[behind(i) + 1] \in items /\ behind(row[behind(i) + 1]) = (behind(i) + 1) - 1
    BY <2>1, <1>9
  <2>3. behind(row[behind(i) + 1]) = behind(i)
    BY <2>2, <1>2
  <2>4. row[behind(i) + 1] = i
    BY <2>2, <2>3, <1>4
  <2> QED
    BY <2>1, <2>4
<1> QED
  BY <1>1, <1>11, <1>12, <1>13

\* The sequence s has the numbers of S, the smallest first.
Enumerates(s, S) ==
  /\ s \in Seq(S)
  /\ \A k, l \in 1 .. Len(s) : k < l => s[k] < s[l]
  /\ \A n \in S : \E k \in 1 .. Len(s) : s[k] = n

LEMMA AscendingEnumerates ==
  ASSUME NEW S, IsFiniteSet(S), \A n \in S : n \in Nat
  PROVE  Enumerates(Ascending(S), S)
<1> DEFINE before == {p \in S \X S : p[1] < p[2]}
<1>1. \A m, n \in S : <<m, n>> \in before <=> m < n
  OBVIOUS
<1>2. Ascending(S) = Arranged(S, before)
  BY DEF Ascending
<1> HIDE DEF before
<1>3. StrictOrder(S, before)
  BY <1>1 DEF StrictOrder
<1> DEFINE s == Arranged(S, before)
<1>4. /\ Cardinality(S) \in Nat
      /\ s \in [1 .. Cardinality(S) -> S]
      /\ \A k, l \in 1 .. Cardinality(S) : k < l => <<s[k], s[l]>> \in before
      /\ \A n \in S : \E k \in 1 .. Cardinality(S) : s[k] = n
  BY <1>3, ArrangedInOrder
<1> HIDE DEF s
<1>5. s \in Seq(S) /\ Len(s) = Cardinality(S)
  BY <1>4
<1>6. \A k \in 1 .. Len(s) : s[k] \in S
  BY <1>5
<1>7. \A k, l \in 1 .. Len(s) : k < l => s[k] < s[l]
  BY <1>1, <1>4, <1>5, <1>6
<1>8. Enumerates(s, S)
  BY <1>4, <1>5, <1>7 DEF Enumerates
<1> QED
  BY <1>2, <1>8 DEF s

------------------------------------------------------------------------------
(* Iteration *)
\* The first n + 1 values of an iteration.
Initial(F, x, n) ==
  {h \in [0 .. n -> DOMAIN F] : h[0] = x /\ \A k \in Nat : k < n => h[k + 1] = F[h[k]]}

LEMMA InitialExists ==
  ASSUME NEW S, NEW F \in [S -> S], NEW x \in S, NEW n \in Nat
  PROVE  Initial(F, x, n) # {}
<1> DEFINE bad == {m \in Nat : Initial(F, x, m) = {}}
<1>1. ASSUME bad # {}
      PROVE  FALSE
  <2>1. PICK m \in bad : \A l \in bad : m <= l
    BY <1>1, LeastNatural
  <2>2. [i \in 0 .. 0 |-> x] \in Initial(F, x, 0)
    BY DEF Initial
  <2>3. m \in Nat /\ m # 0 /\ m - 1 \in Nat /\ m - 1 \notin bad
    BY <2>1, <2>2
  <2>4. PICK h : h \in Initial(F, x, m - 1)
    BY <2>3
  <2> DEFINE g == [k \in 0 .. m |-> IF k = m THEN F[h[m - 1]] ELSE h[k]]
  <2>5. /\ h \in [0 .. m - 1 -> S] /\ h[0] = x
        /\ \A k \in Nat : k < m - 1 => h[k + 1] = F[h[k]]
    BY <2>4 DEF Initial
  <2>6. g \in [0 .. m -> S] /\ g[0] = x
    BY <2>3, <2>5
  <2>7. ASSUME NEW k \in Nat, k < m
        PROVE  g[k + 1] = F[g[k]]
    <3>1. CASE k = m - 1
      BY <3>1, <2>3
    <3>2. CASE k # m - 1
      BY <3>2, <2>3, <2>5, <2>7
    <3> QED
      BY <3>1, <3>2
  <2>8. g \in Initial(F, x, m)
    BY <2>6, <2>7 DEF Initial
  <2> QED
    BY <2>1, <2>8
<1> QED
  BY <1>1

LEMMA InitialsAgree ==
  ASSUME NEW F, NEW x, NEW n \in Nat, NEW g \in Initial(F, x, n), NEW m \in Nat, m <= n,
         NEW h \in Initial(F, x, m)
  PROVE  g[m] = h[m]
<1> DEFINE bad == {k \in Nat : k <= m /\ g[k] # h[k]}
<1>1. ASSUME bad # {}
      PROVE  FALSE
  <2>1. PICK k \in bad : \A l \in bad : k <= l
    BY <1>1, LeastNatural
  <2>2. k # 0
    BY <2>1 DEF Initial
  <2>3. k - 1 \in Nat /\ k - 1 < m /\ k - 1 < n /\ g[k - 1] = h[k - 1]
    BY <2>1, <2>2
  <2>4. g[(k - 1) + 1] = F[g[k - 1]] /\ h[(k - 1) + 1] = F[h[k - 1]]
    BY <2>3 DEF Initial
  <2> QED
    BY <2>1, <2>3, <2>4
<1> QED
  BY <1>1

\* Whatever is iterated, there is a function of all the values.
Iterates(b, F, x) == b[0] = x /\ \A k \in Nat : b[k + 1] = F[b[k]]

LEMMA IterationExists ==
  ASSUME NEW S, NEW F \in [S -> S], NEW x \in S
  PROVE  \E b \in [Nat -> S] : Iterates(b, F, x)
<1> DEFINE h(n) == CHOOSE g : g \in Initial(F, x, n)
           b == [n \in Nat |-> h(n)[n]]
<1>1. \A n \in Nat : h(n) \in Initial(F, x, n)
  BY InitialExists
<1> HIDE DEF h
<1>2. ASSUME NEW n \in Nat
      PROVE  h(n)[n] \in S
  BY <1>1 DEF Initial
<1>3. b \in [Nat -> S]
  BY <1>2
<1>4. b[0] = x
  BY <1>1 DEF Initial
<1>5. ASSUME NEW k \in Nat
      PROVE  b[k + 1] = F[b[k]]
  <2>1. h(k + 1)[k] = h(k)[k]
    BY <1>1, InitialsAgree
  <2>2. h(k + 1)[k + 1] = F[h(k + 1)[k]]
    BY <1>1 DEF Initial
  <2> QED
    BY <2>1, <2>2
<1> HIDE DEF b
<1> QED
  BY <1>3, <1>4, <1>5 DEF Iterates

------------------------------------------------------------------------------
(* Sums.  What Total chooses: each value is the one before it and one number more. *)
Sums(sum, numbers, n) ==
  sum = [i \in 0 .. n |-> IF i = 0 THEN 0 ELSE sum[i - 1] + numbers[i]]

LEMMA SumsExist ==
  ASSUME NEW numbers, NEW n \in Nat
  PROVE  \E sum : Sums(sum, numbers, n)
<1> DEFINE bad == {m \in Nat : ~ \E sum : Sums(sum, numbers, m)}
<1>1. ASSUME bad # {}
      PROVE  FALSE
  <2>1. PICK m \in bad : \A l \in bad : m <= l
    BY <1>1, LeastNatural
  <2>2. Sums([i \in 0 .. 0 |-> 0], numbers, 0)
    BY DEF Sums
  <2>3. m \in Nat /\ m # 0 /\ m - 1 \in Nat /\ m - 1 \notin bad
    BY <2>1, <2>2
  <2>4. PICK g : Sums(g, numbers, m - 1)
    BY <2>3
  <2> DEFINE f == [i \in 0 .. m |-> IF i = 0 THEN 0 ELSE IF i = m THEN g[m - 1] + numbers[i] ELSE g[i]]
  <2>5. \A i \in 0 .. m - 1 : g[i] = IF i = 0 THEN 0 ELSE g[i - 1] + numbers[i]
    BY <2>4 DEF Sums
  <2>6. \A i \in 0 .. m - 1 : f[i] = g[i]
    BY <2>3, <2>5
  <2>7. \A i \in 0 .. m : f[i] = IF i = 0 THEN 0 ELSE f[i - 1] + numbers[i]
    <3> TAKE i \in 0 .. m
    <3>1. CASE i = 0
      BY <3>1
    <3>2. CASE i # 0 /\ i = m
      <4>1. m - 1 \in 0 .. m - 1 /\ i - 1 = m - 1
        BY <2>3, <3>2
      <4> QED
        BY <2>6, <3>2, <4>1
    <3>3. CASE i # 0 /\ i # m
      <4>1. i \in 0 .. m - 1 /\ i - 1 \in 0 .. m - 1
        BY <2>3, <3>3
      <4> QED
        BY <2>5, <2>6, <3>3, <4>1
    <3> QED
      BY <3>1, <3>2, <3>3
  <2>8. f = [i \in 0 .. m |-> f[i]]
    OBVIOUS
  <2> HIDE DEF f
  <2>9. Sums(f, numbers, m)
    BY <2>7, <2>8 DEF Sums
  <2> QED
    BY <2>1, <2>9
<1> QED
  BY <1>1

LEMMA TotalSums ==
  ASSUME NEW numbers, Len(numbers) \in Nat
  PROVE  \E sum : Total(numbers) = sum[Len(numbers)] /\ Sums(sum, numbers, Len(numbers))
<1> DEFINE Value(f, i) == IF i = 0 THEN 0 ELSE f[i - 1] + numbers[i]
           g == CHOOSE f : f = [i \in 0 .. Len(numbers) |-> Value(f, i)]
<1>1. Total(numbers) = g[Len(numbers)]
  BY DEF Total
<1>2. Sums(g, numbers, Len(numbers))
  <2>1. \E f : f = [i \in 0 .. Len(numbers) |-> Value(f, i)]
    BY SumsExist DEF Sums
  <2>2. g = [i \in 0 .. Len(numbers) |-> Value(g, i)]
    BY <2>1
  <2> QED
    BY <2>2 DEF Sums
<1> HIDE DEF g
<1> QED
  BY <1>1, <1>2

\* A sum depends on the numbers up to its place only.
LEMMA SumsAgree ==
  ASSUME NEW m \in Nat, NEW n \in Nat, m <= n, NEW a, NEW b, NEW s, NEW t,
         Sums(s, a, m), Sums(t, b, n), \A i \in 1 .. m : a[i] = b[i]
  PROVE  s[m] = t[m]
<1>1. /\ \A i \in 0 .. m : s[i] = IF i = 0 THEN 0 ELSE s[i - 1] + a[i]
      /\ \A i \in 0 .. n : t[i] = IF i = 0 THEN 0 ELSE t[i - 1] + b[i]
  BY DEF Sums
<1> DEFINE bad == {k \in Nat : k \in 0 .. m /\ s[k] # t[k]}
<1>2. ASSUME bad # {}
      PROVE  FALSE
  <2>1. PICK k \in bad : \A l \in bad : k <= l
    BY <1>2, LeastNatural
  <2>2. k \in 0 .. m /\ k \in 0 .. n /\ s[k] # t[k]
    BY <2>1
  <2>3. k # 0
    BY <1>1, <2>2
  <2>4. k - 1 \in Nat /\ k - 1 \in 0 .. m /\ ~(k <= k - 1) /\ k \in 1 .. m
    BY <2>2, <2>3
  <2>5. s[k - 1] = t[k - 1]
    BY <2>1, <2>4
  <2> QED
    BY <1>1, <2>2, <2>3, <2>4, <2>5
<1>3. m \in 0 .. m
  OBVIOUS
<1> QED
  BY <1>2, <1>3

\* Sequences of numbers, whatever they are made of.
NumberList(s, n) == n \in Nat /\ s = [i \in 1 .. n |-> s[i]] /\ \A i \in 1 .. n : s[i] \in Nat

LEMMA NumberListLength ==
  ASSUME NEW s, NEW n, NumberList(s, n)
  PROVE  Len(s) = n
BY DEF NumberList

LEMMA TotalEmpty ==
  ASSUME NEW s, NumberList(s, 0)
  PROVE  Total(s) = 0
<1>1. Len(s) = 0
  BY NumberListLength
<1>2. PICK sum : Total(s) = sum[0] /\ Sums(sum, s, 0)
  BY <1>1, TotalSums
<1> QED
  BY <1>2 DEF Sums

LEMMA TotalGrows ==
  ASSUME NEW n \in Nat, NEW s, NEW t, NumberList(s, n), NumberList(t, n + 1),
         \A i \in 1 .. n : t[i] = s[i]
  PROVE  Total(t) = Total(s) + t[n + 1]
<1>1. Len(s) = n /\ Len(t) = n + 1
  BY NumberListLength
<1>2. PICK f : Total(s) = f[n] /\ Sums(f, s, n)
  BY <1>1, TotalSums
<1>3. PICK g : Total(t) = g[n + 1] /\ Sums(g, t, n + 1)
  BY <1>1, TotalSums
<1>4. f[n] = g[n]
  BY <1>2, <1>3, SumsAgree
<1>5. g[n + 1] = g[n] + t[n + 1]
  <2>1. \A i \in 0 .. n + 1 : g[i] = IF i = 0 THEN 0 ELSE g[i - 1] + t[i]
    BY <1>3 DEF Sums
  <2>2. n + 1 \in 0 .. n + 1 /\ n + 1 # 0 /\ n + 1 - 1 = n
    OBVIOUS
  <2> QED
    BY <2>1, <2>2
<1> QED
  BY <1>2, <1>3, <1>4, <1>5

LEMMA TotalNumber ==
  ASSUME NEW n \in Nat, NEW s, NumberList(s, n)
  PROVE  Total(s) \in Nat
<1>1. PICK f : Total(s) = f[n] /\ Sums(f, s, n)
  BY NumberListLength, TotalSums
<1>2. \A i \in 0 .. n : f[i] = IF i = 0 THEN 0 ELSE f[i - 1] + s[i]
  BY <1>1 DEF Sums
<1> DEFINE bad == {k \in Nat : k \in 0 .. n /\ f[k] \notin Nat}
<1>3. ASSUME bad # {}
      PROVE  FALSE
  <2>1. PICK k \in bad : \A l \in bad : k <= l
    BY <1>3, LeastNatural
  <2>2. k \in 0 .. n /\ k # 0
    BY <1>2, <2>1
  <2>3. k - 1 \in Nat /\ k - 1 \in 0 .. n /\ ~(k <= k - 1) /\ k \in 1 .. n
    BY <2>2
  <2>4. f[k - 1] \in Nat /\ s[k] \in Nat
    BY <2>1, <2>3 DEF NumberList
  <2>5. f[k] = f[k - 1] + s[k]
    BY <1>2, <2>2
  <2> QED
    BY <2>1, <2>4, <2>5
<1>4. n \in 0 .. n
  OBVIOUS
<1> QED
  BY <1>1, <1>3, <1>4

NumbersJoined(s, m, t, n, st) ==
  /\ NumberList(s, m) /\ NumberList(t, n) /\ NumberList(st, m + n)
  /\ \A i \in 1 .. m : st[i] = s[i]
  /\ \A i \in 1 .. n : st[m + i] = t[i]

LEMMA TotalJoined ==
  ASSUME NEW m \in Nat, NEW n \in Nat, NEW s, NEW t, NEW st, NumbersJoined(s, m, t, n, st)
  PROVE  Total(st) = Total(s) + Total(t)
<1>0. /\ NumberList(s, m) /\ NumberList(t, n) /\ NumberList(st, m + n)
      /\ \A i \in 1 .. m : st[i] = s[i]
      /\ \A i \in 1 .. n : st[m + i] = t[i]
  BY DEF NumbersJoined
<1> DEFINE both == m + n
<1>a. both \in Nat /\ Len(s) = m /\ Len(t) = n /\ Len(st) = both
  BY <1>0, NumberListLength
<1>1. PICK f : Total(s) = f[m] /\ Sums(f, s, m)
  BY <1>a, TotalSums
<1>2. PICK g : Total(t) = g[n] /\ Sums(g, t, n)
  BY <1>a, TotalSums
<1>3. PICK h : Total(st) = h[m + n] /\ Sums(h, st, m + n)
  <2> HIDE DEF both
  <2>1. \E h : Total(st) = h[both] /\ Sums(h, st, both)
    BY <1>a, TotalSums
  <2> QED
    BY <2>1 DEF both
<1>4. f[m] = h[m] /\ f[m] \in Nat
  <2>1. f[m] = h[m]
    <3>1. m + n \in Nat /\ m <= m + n /\ \A i \in 1 .. m : s[i] = st[i]
      BY <1>0
    <3> QED
      BY <1>1, <1>3, <3>1, SumsAgree
  <2>2. Total(s) \in Nat
    BY <1>0, TotalNumber
  <2> QED
    BY <1>1, <2>1, <2>2
<1>5. /\ \A i \in 0 .. n : g[i] = IF i = 0 THEN 0 ELSE g[i - 1] + t[i]
      /\ \A i \in 0 .. m + n : h[i] = IF i = 0 THEN 0 ELSE h[i - 1] + st[i]
  BY <1>2, <1>3 DEF Sums
<1> DEFINE bad == {k \in Nat : k \in 0 .. n /\ ~(g[k] \in Nat /\ h[m + k] = f[m] + g[k])}
<1>6. ASSUME bad # {}
      PROVE  FALSE
  <2>1. PICK k \in bad : \A l \in bad : k <= l
    BY <1>6, LeastNatural
  <2>2. k # 0
    <3>1. ASSUME k = 0
          PROVE  FALSE
      <4>1. g[0] = 0 /\ m + 0 = m
        BY <1>5
      <4> QED
        BY <1>4, <2>1, <3>1, <4>1
    <3> QED
      BY <3>1
  <2>3. k - 1 \in Nat /\ k - 1 \in 0 .. n /\ ~(k <= k - 1) /\ k \in 1 .. n
    BY <2>1, <2>2
  <2>4. g[k - 1] \in Nat /\ h[m + (k - 1)] = f[m] + g[k - 1]
    BY <2>1, <2>3
  <2>5. g[k] = g[k - 1] + t[k] /\ t[k] \in Nat
    BY <1>0, <1>5, <2>1, <2>2, <2>3 DEF NumberList
  <2>6. h[m + k] = h[m + (k - 1)] + t[k]
    <3>1. m + k \in 0 .. m + n /\ m + k # 0 /\ m + k - 1 = m + (k - 1)
      BY <2>3
    <3> QED
      BY <1>0, <1>5, <2>3, <3>1
  <2> QED
    BY <1>4, <2>1, <2>4, <2>5, <2>6
<1>7. n \in 0 .. n
  OBVIOUS
<1> QED
  BY <1>1, <1>2, <1>3, <1>6, <1>7
==============================================================================
