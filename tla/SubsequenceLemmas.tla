--------------------------- MODULE SubsequenceLemmas ---------------------------
(***************************************************************************)
(* What Subsequences computes, for every sequence and every set.           *)
(***************************************************************************)
EXTENDS Subsequences, WellFoundedInduction, TLAPS

-----------------------------------------------------------------------------
(* Induction.                                                              *)

\* A set of naturals that is not empty has a least element.
LEMMA Least ==
  ASSUME NEW T, T \subseteq Nat, T # {}
  PROVE  \E n \in T : \A m \in T : n <= m
<1>1. PICK x \in T : \A y \in T : <<y, x>> \notin OpToRel(<, Nat)
  BY WFMin, NatLessThanWellFounded
<1>2. \A y \in T : ~(y < x)
  BY <1>1 DEF OpToRel
<1> QED
  BY <1>2

\* What holds of 0 and passes on to the next number holds as far as it does.
LEMMA UpTo ==
  ASSUME NEW n \in Nat, NEW T, 0 \in T, \A i \in 0 .. n - 1 : i \in T => i + 1 \in T
  PROVE  0 .. n \subseteq T
<1> SUFFICES ASSUME (0 .. n) \ T # {}
             PROVE  FALSE
  OBVIOUS
<1>1. PICK i \in (0 .. n) \ T : \A m \in (0 .. n) \ T : i <= m
  <2>1. (0 .. n) \ T \subseteq Nat
    OBVIOUS
  <2> QED
    BY <2>1, Least
<1>2. i # 0 /\ i - 1 \in 0 .. n - 1 /\ i - 1 \in T
  BY <1>1
<1> QED
  BY <1>1, <1>2

-----------------------------------------------------------------------------
(* Kept.                                                                   *)

\* The recursion is well founded: KeptUpTo is the function its equations say.
LEMMA KeptSteps ==
  ASSUME NEW s, NEW S, Len(s) \in Nat
  PROVE  /\ KeptUpTo(s, S)[0] = << >>
         /\ \A i \in 1 .. Len(s) :
              KeptUpTo(s, S)[i] = IF s[i] \in S THEN Append(KeptUpTo(s, S)[i - 1], s[i])
                                  ELSE KeptUpTo(s, S)[i - 1]
<1> DEFINE Next(i, last) == IF s[i] \in S THEN Append(last, s[i]) ELSE last
           Computes(n, f) == f = [i \in 0 .. n |-> IF i = 0 THEN << >> ELSE Next(i, f[i - 1])]
           T == {n \in 0 .. Len(s) : \E f : Computes(n, f)}
<1> HIDE DEF Next
<1>1. 0 \in T
  <2>1. Computes(0, [i \in 0 .. 0 |-> << >>])
    OBVIOUS
  <2>2. \E f : Computes(0, f)
    BY <2>1
  <2> HIDE DEF Computes
  <2> QED
    BY <2>2
<1>2. ASSUME NEW n \in 0 .. Len(s) - 1, n \in T
      PROVE  n + 1 \in T
  <2>1. PICK f : Computes(n, f)
    BY <1>2
  <2> DEFINE g == [i \in 0 .. n + 1 |-> IF i = n + 1 THEN Next(n + 1, f[n]) ELSE f[i]]
  <2>2. \A i \in 0 .. n : g[i] = f[i]
    OBVIOUS
  <2>3. \A i \in 1 .. n + 1 : g[i] = Next(i, g[i - 1])
    <3> TAKE i \in 1 .. n + 1
    <3>1. CASE i = n + 1
      BY <3>1, <2>2
    <3>2. CASE i # n + 1
      <4>1. i \in 0 .. n /\ i # 0 /\ i - 1 \in 0 .. n
        BY <3>2
      <4>2. f[i] = Next(i, f[i - 1])
        BY <2>1, <4>1
      <4> QED
        BY <4>1, <4>2, <2>2
    <3> QED
      BY <3>1, <3>2
  <2>4. g[0] = << >>
    BY <2>1
  <2>5. Computes(n + 1, g)
    <3>1. g = [i \in 0 .. n + 1 |-> g[i]]
      OBVIOUS
    <3> HIDE DEF g
    <3>2. \A i \in 0 .. n + 1 : i = 0 \/ i \in 1 .. n + 1
      OBVIOUS
    <3>3. \A i \in 0 .. n + 1 : g[i] = IF i = 0 THEN << >> ELSE Next(i, g[i - 1])
      BY <2>3, <2>4, <3>2
    <3> QED
      BY <3>1, <3>3
  <2>6. \E h : Computes(n + 1, h)
    BY <2>5
  <2> HIDE DEF Computes
  <2> QED
    BY <2>6
<1>3. Len(s) \in T
  <2> HIDE DEF T
  <2>1. 0 .. Len(s) \subseteq T
    BY <1>1, <1>2, UpTo
  <2> QED
    BY <2>1
<1>4. PICK f : Computes(Len(s), f)
  BY <1>3
<1>5. Computes(Len(s), KeptUpTo(s, S))
  BY <1>4 DEF KeptUpTo, Next
<1>6. \A i \in 0 .. Len(s) :
        KeptUpTo(s, S)[i] = IF i = 0 THEN << >> ELSE Next(i, KeptUpTo(s, S)[i - 1])
  BY <1>5
<1> QED
  BY <1>6 DEF Next

\* Kept are the elements of S and no others.
LEMMA KeptElements ==
  ASSUME NEW X, NEW s \in Seq(X), NEW S
  PROVE  \A n \in 0 .. Len(s) :
           /\ KeptUpTo(s, S)[n] \in Seq(X)
           /\ \A i \in 1 .. Len(KeptUpTo(s, S)[n]) :
                KeptUpTo(s, S)[n][i] \in S /\ \E j \in 1 .. n : KeptUpTo(s, S)[n][i] = s[j]
           /\ \A j \in 1 .. n : s[j] \in S =>
                \E i \in 1 .. Len(KeptUpTo(s, S)[n]) : KeptUpTo(s, S)[n][i] = s[j]
<1> DEFINE k == KeptUpTo(s, S)
           Elements(n) == {s[i] : i \in 1 .. n} \cap S
           P(n) == k[n] \in Seq(X) /\ Range(k[n]) = Elements(n)
           T == {n \in 0 .. Len(s) : P(n)}
<1>1. 0 \in T
  <2>1. k[0] = << >>
    BY KeptSteps
  <2>2. Range(<< >>) = {}
    BY DEF Range
  <2>3. Elements(0) = {}
    OBVIOUS
  <2>4. << >> \in Seq(X)
    OBVIOUS
  <2>5. P(0)
    BY <2>1, <2>2, <2>3, <2>4
  <2> HIDE DEF P
  <2> QED
    BY <2>5
<1>2. ASSUME NEW n \in 0 .. Len(s) - 1, n \in T
      PROVE  n + 1 \in T
  <2>1. k[n + 1] = IF s[n + 1] \in S THEN Append(k[n], s[n + 1]) ELSE k[n]
    <3>1. n + 1 \in 1 .. Len(s) /\ (n + 1) - 1 = n
      OBVIOUS
    <3> QED
      BY <3>1, KeptSteps
  <2>2. Elements(n + 1) = Elements(n) \cup ({s[n + 1]} \cap S)
    OBVIOUS
  <2>3. s[n + 1] \in X
    OBVIOUS
  <2>4. \A e \in X : Range(Append(k[n], e)) = Range(k[n]) \cup {e}
    <3>1. \A q \in Seq(X), e \in X : Range(Append(q, e)) = Range(q) \cup {e}
      <4> TAKE q \in Seq(X), e \in X
      <4>1. DOMAIN Append(q, e) = 1 .. Len(q) + 1 /\ DOMAIN q = 1 .. Len(q)
        OBVIOUS
      <4>2. /\ \A i \in 1 .. Len(q) : Append(q, e)[i] = q[i]
            /\ Append(q, e)[Len(q) + 1] = e
        OBVIOUS
      <4> QED
        BY <4>1, <4>2 DEF Range
    <3> QED
      BY <1>2, <3>1
  <2>5. P(n + 1)
    <3> HIDE DEF k, Elements
    <3>1. CASE s[n + 1] \in S
      <4>1. k[n + 1] = Append(k[n], s[n + 1]) /\ Elements(n + 1) = Elements(n) \cup {s[n + 1]}
        BY <2>1, <2>2, <3>1
      <4>2. k[n] \in Seq(X) /\ Range(k[n]) = Elements(n)
        BY <1>2
      <4>3. k[n + 1] \in Seq(X)
        BY <2>3, <4>1, <4>2
      <4> QED
        BY <2>3, <2>4, <4>1, <4>2, <4>3
    <3>2. CASE s[n + 1] \notin S
      BY <1>2, <2>1, <2>2, <3>2
    <3> QED
      BY <3>1, <3>2
  <2> QED
    BY <2>5
<1> HIDE DEF P
<1>3. 0 .. Len(s) \subseteq T
  <2>1. Len(s) \in Nat
    OBVIOUS
  <2> HIDE DEF T
  <2> QED
    BY <1>1, <1>2, <2>1, UpTo
<1>4. \A n \in 0 .. Len(s) : P(n)
  BY <1>3
<1>5. \A n, e : e \in Elements(n) <=> e \in S /\ \E i \in 1 .. n : e = s[i]
  OBVIOUS
<1>6. ASSUME NEW n \in 0 .. Len(s), NEW q \in Seq(X), Range(q) = Elements(n)
      PROVE  /\ \A i \in 1 .. Len(q) : q[i] \in S /\ \E j \in 1 .. n : q[i] = s[j]
             /\ \A j \in 1 .. n : s[j] \in S => \E i \in 1 .. Len(q) : q[i] = s[j]
  <2>1. \A e : e \in Range(q) <=> \E i \in 1 .. Len(q) : e = q[i]
    <3>1. DOMAIN q = 1 .. Len(q)
      OBVIOUS
    <3> QED
      BY <3>1 DEF Range
  <2>2. \A e : e \in Range(q) <=> e \in S /\ \E j \in 1 .. n : e = s[j]
    <3> HIDE DEF Elements
    <3> QED
      BY <1>5, <1>6
  <2> QED
    BY <2>1, <2>2
<1> HIDE DEF k, Elements
<1>7. \A n \in 0 .. Len(s) :
        /\ k[n] \in Seq(X)
        /\ \A i \in 1 .. Len(k[n]) : k[n][i] \in S /\ \E j \in 1 .. n : k[n][i] = s[j]
        /\ \A j \in 1 .. n : s[j] \in S => \E i \in 1 .. Len(k[n]) : k[n][i] = s[j]
  BY <1>4, <1>6 DEF P
<1> QED
  BY <1>7 DEF k

\* What is kept keeps its order.
LEMMA KeptOrder ==
  ASSUME NEW s \in Seq(Int), NEW S, Increasing(s)
  PROVE  \A n \in 0 .. Len(s) : Increasing(KeptUpTo(s, S)[n])
<1> DEFINE k == KeptUpTo(s, S)
           T == {n \in 0 .. Len(s) : Increasing(k[n])}
<1>1. 0 \in T
  BY KeptSteps DEF Increasing
<1>2. ASSUME NEW n \in 0 .. Len(s) - 1, n \in T
      PROVE  n + 1 \in T
  <2>1. k[n + 1] = IF s[n + 1] \in S THEN Append(k[n], s[n + 1]) ELSE k[n]
    <3>1. n + 1 \in 1 .. Len(s) /\ (n + 1) - 1 = n
      OBVIOUS
    <3> QED
      BY <3>1, KeptSteps
  <2>2. k[n] \in Seq(Int) /\ \A i \in 1 .. Len(k[n]) : \E j \in 1 .. n : k[n][i] = s[j]
    <3>1. n \in 0 .. Len(s)
      OBVIOUS
    <3> QED
      BY <3>1, KeptElements
  <2>3. \A i \in 1 .. Len(k[n]) : k[n][i] < s[n + 1]
    <3> TAKE i \in 1 .. Len(k[n])
    <3>1. \E j \in 1 .. n : k[n][i] = s[j]
      BY <2>2
    <3>2. \A j \in 1 .. n : s[j] < s[n + 1]
      BY DEF Increasing
    <3> QED
      BY <3>1, <3>2
  <2>4. ASSUME NEW q \in Seq(Int), NEW e \in Int, Increasing(q), \A i \in 1 .. Len(q) : q[i] < e
        PROVE  Increasing(Append(q, e))
    <3> DEFINE r == Append(q, e)
    <3>1. /\ DOMAIN q = 1 .. Len(q) /\ Len(q) \in Nat
          /\ DOMAIN r = 1 .. Len(q) + 1 /\ r[Len(q) + 1] = e
          /\ \A i \in 1 .. Len(q) : r[i] = q[i]
      OBVIOUS
    <3> HIDE DEF r
    <3>2. ASSUME NEW i \in 1 .. Len(q) + 1, NEW j \in 1 .. Len(q) + 1, i < j
          PROVE  r[i] < r[j]
      <4>1. i \in 1 .. Len(q) /\ (j = Len(q) + 1 \/ j \in 1 .. Len(q))
        BY <3>1, <3>2
      <4>2. j \in 1 .. Len(q) => q[i] < q[j]
        BY <2>4, <3>1, <3>2, <4>1 DEF Increasing
      <4> QED
        BY <2>4, <3>1, <4>1, <4>2
    <3>3. Increasing(r)
      BY <3>1, <3>2 DEF Increasing
    <3> QED
      BY <3>3 DEF r
  <2>5. s[n + 1] \in Int
    OBVIOUS
  <2>6. Increasing(k[n + 1])
    <3> HIDE DEF k
    <3> QED
      BY <1>2, <2>1, <2>2, <2>3, <2>4, <2>5
  <2> QED
    BY <2>6
<1>3. 0 .. Len(s) \subseteq T
  <2>1. Len(s) \in Nat
    OBVIOUS
  <2> HIDE DEF T
  <2> QED
    BY <1>1, <1>2, <2>1, UpTo
<1> QED
  BY <1>3

\* Where there is nothing of S, nothing is added.
LEMMA KeptNone ==
  ASSUME NEW s, NEW S, Len(s) \in Nat, NEW m \in 0 .. Len(s), NEW n \in m .. Len(s),
         \A i \in m + 1 .. n : s[i] \notin S
  PROVE  KeptUpTo(s, S)[n] = KeptUpTo(s, S)[m]
<1> DEFINE k == KeptUpTo(s, S)
           T == {d \in 0 .. n - m : k[m + d] = k[m]}
<1>1. 0 \in T
  OBVIOUS
<1>2. ASSUME NEW d \in 0 .. (n - m) - 1, d \in T
      PROVE  d + 1 \in T
  <2>1. m + (d + 1) \in 1 .. Len(s) /\ (m + (d + 1)) - 1 = m + d /\ m + (d + 1) \in m + 1 .. n
    OBVIOUS
  <2>2. k[m + (d + 1)] = k[m + d]
    BY <2>1, KeptSteps
  <2> QED
    BY <1>2, <2>2
<1>3. n - m \in T
  <2> HIDE DEF T
  <2>1. n - m \in Nat
    OBVIOUS
  <2>2. 0 .. n - m \subseteq T
    BY <1>1, <1>2, <2>1, UpTo
  <2> QED
    BY <2>1, <2>2
<1> QED
  BY <1>3

\* What is kept of the first elements is the beginning of what is kept.
LEMMA KeptPrefix ==
  ASSUME NEW X, NEW s \in Seq(X), NEW S, NEW m \in 0 .. Len(s), NEW n \in m .. Len(s)
  PROVE  /\ Len(KeptUpTo(s, S)[m]) <= Len(KeptUpTo(s, S)[n])
         /\ \A i \in 1 .. Len(KeptUpTo(s, S)[m]) : KeptUpTo(s, S)[n][i] = KeptUpTo(s, S)[m][i]
<1> DEFINE k == KeptUpTo(s, S)
           P(d) == /\ Len(k[m]) <= Len(k[m + d])
                   /\ \A i \in 1 .. Len(k[m]) : k[m + d][i] = k[m][i]
           T == {d \in 0 .. n - m : P(d)}
<1>1. \A j \in 0 .. Len(s) : k[j] \in Seq(X)
  BY KeptElements
<1>2. 0 \in T
  <2>1. k[m] \in Seq(X) /\ m + 0 = m
    BY <1>1
  <2> HIDE DEF k
  <2> QED
    BY <2>1
<1>3. ASSUME NEW d \in 0 .. (n - m) - 1, d \in T
      PROVE  d + 1 \in T
  <2>1. m + (d + 1) \in 1 .. Len(s) /\ (m + (d + 1)) - 1 = m + d /\ m + d \in 0 .. Len(s)
    OBVIOUS
  <2>2. k[m + (d + 1)] = IF s[m + (d + 1)] \in S THEN Append(k[m + d], s[m + (d + 1)])
                         ELSE k[m + d]
    BY <2>1, KeptSteps
  <2>3. k[m] \in Seq(X) /\ k[m + d] \in Seq(X) /\ s[m + (d + 1)] \in X
    BY <1>1, <2>1
  <2>4. ASSUME NEW q \in Seq(X), NEW r \in Seq(X), NEW e \in X,
               Len(q) <= Len(r), \A i \in 1 .. Len(q) : r[i] = q[i]
        PROVE  Len(q) <= Len(Append(r, e)) /\ \A i \in 1 .. Len(q) : Append(r, e)[i] = q[i]
    BY <2>4
  <2> HIDE DEF k
  <2>5. P(d + 1)
    BY <1>3, <2>2, <2>3, <2>4
  <2> HIDE DEF P
  <2> QED
    BY <2>5
<1>4. P(n - m)
  <2> HIDE DEF T
  <2>1. n - m \in Nat
    OBVIOUS
  <2>2. 0 .. n - m \subseteq T
    BY <1>2, <1>3, <2>1, UpTo
  <2>3. n - m \in T
    BY <2>1, <2>2
  <2> HIDE DEF P
  <2> QED
    BY <2>3 DEF T
<1>5. m + (n - m) = n
  OBVIOUS
<1> QED
  BY <1>4, <1>5

\* What is kept stood in the same order.
LEMMA KeptPlaces ==
  ASSUME NEW X, NEW s \in Seq(X), NEW S
  PROVE  \E at \in [1 .. Len(Kept(s, S)) -> 1 .. Len(s)] :
           /\ \A i \in 1 .. Len(Kept(s, S)) : Kept(s, S)[i] = s[at[i]]
           /\ \A i, j \in 1 .. Len(Kept(s, S)) : i < j => at[i] < at[j]
<1> DEFINE k == KeptUpTo(s, S)
           Places(q, n) == \E at \in [1 .. Len(q) -> 1 .. n] :
                             /\ \A i \in 1 .. Len(q) : q[i] = s[at[i]]
                             /\ \A i, j \in 1 .. Len(q) : i < j => at[i] < at[j]
           T == {n \in 0 .. Len(s) : Places(k[n], n)}
<1>1. 0 \in T
  <2>1. k[0] = << >>
    BY KeptSteps
  <2>2. Places(<< >>, 0)
    <3> DEFINE none == [i \in {} |-> 0]
    <3>1. none \in [1 .. Len(<< >>) -> 1 .. 0]
      OBVIOUS
    <3> QED
      BY <3>1
  <2> HIDE DEF Places
  <2> QED
    BY <2>1, <2>2
<1>2. ASSUME NEW n \in 0 .. Len(s) - 1, n \in T
      PROVE  n + 1 \in T
  <2>1. k[n + 1] = IF s[n + 1] \in S THEN Append(k[n], s[n + 1]) ELSE k[n]
    <3>1. n + 1 \in 1 .. Len(s) /\ (n + 1) - 1 = n
      OBVIOUS
    <3> QED
      BY <3>1, KeptSteps
  <2>2. k[n] \in Seq(X) /\ s[n + 1] \in X
    <3>1. n \in 0 .. Len(s) /\ n + 1 \in 1 .. Len(s)
      OBVIOUS
    <3> QED
      BY <3>1, KeptElements
  <2>3. ASSUME NEW q \in Seq(X), Places(q, n)
        PROVE  Places(q, n + 1) /\ Places(Append(q, s[n + 1]), n + 1)
    <3>1. PICK at \in [1 .. Len(q) -> 1 .. n] :
             /\ \A i \in 1 .. Len(q) : q[i] = s[at[i]]
             /\ \A i, j \in 1 .. Len(q) : i < j => at[i] < at[j]
      BY <2>3
    <3>2. Places(q, n + 1)
      <4>1. at \in [1 .. Len(q) -> 1 .. n + 1]
        OBVIOUS
      <4> QED
        BY <3>1, <4>1
    <3> DEFINE r == Append(q, s[n + 1])
               then == [i \in 1 .. Len(q) + 1 |-> IF i = Len(q) + 1 THEN n + 1 ELSE at[i]]
    <3>3. /\ Len(r) = Len(q) + 1 /\ r[Len(q) + 1] = s[n + 1]
          /\ \A i \in 1 .. Len(q) : r[i] = q[i]
      BY <2>2
    <3>4. \A i \in 1 .. Len(q) + 1 : i \in 1 .. Len(q) \/ i = Len(q) + 1
      OBVIOUS
    <3>5. \A i \in 1 .. Len(q) : then[i] = at[i] /\ at[i] \in 1 .. n
      <4> TAKE i \in 1 .. Len(q)
      <4>1. at[i] \in 1 .. n
        OBVIOUS
      <4>2. i \in 1 .. Len(q) + 1 /\ i # Len(q) + 1
        OBVIOUS
      <4>3. then[i] = at[i]
        BY <4>2
      <4> QED
        BY <4>1, <4>3
    <3>6. then[Len(q) + 1] = n + 1
      OBVIOUS
    <3>7. then \in [1 .. Len(q) + 1 -> 1 .. n + 1]
      OBVIOUS
    <3> HIDE DEF then, r
    <3>8. \A i \in 1 .. Len(q) + 1 : r[i] = s[then[i]]
      BY <3>1, <3>3, <3>4, <3>5, <3>6
    <3>9. \A i, j \in 1 .. Len(q) + 1 : i < j => then[i] < then[j]
      <4> TAKE i, j \in 1 .. Len(q) + 1
      <4> HAVE i < j
      <4>1. i \in 1 .. Len(q)
        OBVIOUS
      <4>2. CASE j \in 1 .. Len(q)
        BY <3>1, <3>5, <4>1, <4>2
      <4>3. CASE j = Len(q) + 1
        BY <3>5, <3>6, <4>1, <4>3
      <4> QED
        BY <3>4, <4>2, <4>3
    <3>10. Places(r, n + 1)
      BY <3>3, <3>7, <3>8, <3>9
    <3> HIDE DEF Places
    <3> QED
      BY <3>2, <3>10 DEF r
  <2> HIDE DEF Places, k
  <2>4. Places(k[n + 1], n + 1)
    BY <1>2, <2>1, <2>2, <2>3
  <2> QED
    BY <2>4
<1>3. 0 .. Len(s) \subseteq T
  <2>1. Len(s) \in Nat
    OBVIOUS
  <2> HIDE DEF T
  <2> QED
    BY <1>1, <1>2, <2>1, UpTo
<1>4. Places(Kept(s, S), Len(s))
  <2>1. Len(s) \in 0 .. Len(s)
    OBVIOUS
  <2> HIDE DEF T
  <2>2. Len(s) \in T
    BY <1>3, <2>1
  <2> HIDE DEF Places
  <2> QED
    BY <2>2 DEF T, Kept
<1> QED
  BY <1>4

\* Where what is kept lies within a part, it is what is kept of that part.
LEMMA KeptOfPart ==
  ASSUME NEW X, NEW s \in Seq(X), NEW S, NEW T, NEW a \in 1 .. Len(s) + 1,
         NEW b \in a - 1 .. Len(s),
         \A i \in 1 .. Len(s) : s[i] \in S <=> i \in a .. b /\ s[i] \in T
  PROVE  Kept(SubSeq(s, a, b), T) = Kept(s, S)
<1> DEFINE q == SubSeq(s, a, b)
           n == b - a + 1
           k == KeptUpTo(s, S)
           l == KeptUpTo(q, T)
           U == {d \in 0 .. n : l[d] = k[(a - 1) + d]}
<1>1. q \in Seq(X) /\ n \in Nat /\ Len(q) = n /\ \A d \in 1 .. n : q[d] = s[(a - 1) + d]
  <2>1. a \in Int /\ b \in Int /\ \A i \in a .. b : i \in 1 .. Len(s)
    OBVIOUS
  <2>2. Len(q) = n /\ \A d \in 1 .. n : q[d] = s[a + d - 1]
    BY <2>1
  <2>3. q \in Seq(X)
    BY <2>1
  <2> QED
    BY <2>2, <2>3
<1>2. /\ l[0] = << >>
      /\ \A d \in 1 .. Len(q) : l[d] = IF q[d] \in T THEN Append(l[d - 1], q[d]) ELSE l[d - 1]
  <2> HIDE DEF q
  <2>1. Len(q) \in Nat
    BY <1>1
  <2> HIDE DEF l
  <2> QED
    BY <2>1, KeptSteps DEF l
<1>3. /\ k[0] = << >>
      /\ \A i \in 1 .. Len(s) : k[i] = IF s[i] \in S THEN Append(k[i - 1], s[i]) ELSE k[i - 1]
  <2>1. Len(s) \in Nat
    OBVIOUS
  <2> HIDE DEF k
  <2> QED
    BY <2>1, KeptSteps DEF k
<1> HIDE DEF q
<1>4. 0 \in U
  <2>1. l[0] = << >> /\ k[0] = << >>
    BY <1>2, <1>3
  <2>2. k[a - 1] = k[0]
    <3>1. 0 \in 0 .. Len(s) /\ a - 1 \in 0 .. Len(s) /\ Len(s) \in Nat
      OBVIOUS
    <3>2. \A i \in 0 + 1 .. a - 1 : s[i] \notin S
      OBVIOUS
    <3> QED
      BY <3>1, <3>2, KeptNone
  <2>3. 0 \in 0 .. n /\ (a - 1) + 0 = a - 1
    BY <1>1
  <2> HIDE DEF k, l
  <2> QED
    BY <2>1, <2>2, <2>3
<1>5. ASSUME NEW d \in 0 .. n - 1, d \in U
      PROVE  d + 1 \in U
  <2> DEFINE i == (a - 1) + (d + 1)
  <2>1. i \in 1 .. Len(s) /\ i - 1 = (a - 1) + d /\ d + 1 \in 1 .. Len(q) /\ (d + 1) - 1 = d
        /\ i \in a .. b
    BY <1>1
  <2>2. l[d + 1] = IF q[d + 1] \in T THEN Append(l[d], q[d + 1]) ELSE l[d]
    <3> HIDE DEF l, k, i
    <3> QED
      BY <1>2, <2>1
  <2>3. k[i] = IF s[i] \in S THEN Append(k[i - 1], s[i]) ELSE k[i - 1]
    <3> HIDE DEF l, k, i
    <3> QED
      BY <1>3, <2>1
  <2>4. q[d + 1] = s[i] /\ (s[i] \in S <=> s[i] \in T)
    BY <1>1, <2>1
  <2>5. l[d] = k[i - 1]
    <3> HIDE DEF k, l, i
    <3>1. l[d] = k[(a - 1) + d]
      BY <1>5
    <3> QED
      BY <2>1, <3>1
  <2> HIDE DEF k, l, i
  <2>6. l[d + 1] = k[i]
    BY <2>2, <2>3, <2>4, <2>5
  <2>7. d + 1 \in 0 .. n
    BY <1>1
  <2> QED
    BY <2>6, <2>7 DEF i
<1>6. l[n] = k[(a - 1) + n]
  <2> HIDE DEF U
  <2>1. n \in Nat
    BY <1>1
  <2> HIDE DEF n
  <2>2. 0 .. n \subseteq U
    BY <2>1, <1>4, <1>5, UpTo
  <2>3. n \in U
    BY <2>1, <2>2
  <2> HIDE DEF k, l, n
  <2> QED
    BY <2>3 DEF U
<1>7. k[Len(s)] = k[b]
  <2>1. b \in 0 .. Len(s) /\ Len(s) \in b .. Len(s) /\ Len(s) \in Nat
    OBVIOUS
  <2>2. \A i \in b + 1 .. Len(s) : s[i] \notin S
    OBVIOUS
  <2> QED
    BY <2>1, <2>2, KeptNone
<1>8. (a - 1) + n = b
  OBVIOUS
<1> HIDE DEF k, l, n
<1> QED
  BY <1>1, <1>6, <1>7, <1>8 DEF k, l, q, Kept

\* Where all elements are of the set, all are kept.
LEMMA KeptAll ==
  ASSUME NEW X, NEW s \in Seq(X), NEW S, \A i \in 1 .. Len(s) : s[i] \in S
  PROVE  Kept(s, S) = s
<1> DEFINE k == KeptUpTo(s, S)
           P(n) == Len(k[n]) = n /\ \A i \in 1 .. n : k[n][i] = s[i]
           T == {n \in 0 .. Len(s) : P(n)}
<1>1. \A j \in 0 .. Len(s) : k[j] \in Seq(X)
  BY KeptElements
<1>2. /\ Len(s) \in Nat /\ k[0] = << >>
      /\ \A i \in 1 .. Len(s) : k[i] = IF s[i] \in S THEN Append(k[i - 1], s[i]) ELSE k[i - 1]
  <2>1. Len(s) \in Nat
    OBVIOUS
  <2> HIDE DEF k
  <2> QED
    BY <2>1, KeptSteps DEF k
<1>3. 0 \in T
  <2>1. P(0)
    BY <1>2
  <2> HIDE DEF P
  <2> QED
    BY <1>2, <2>1
<1>4. ASSUME NEW n \in 0 .. Len(s) - 1, n \in T
      PROVE  n + 1 \in T
  <2>1. n + 1 \in 1 .. Len(s) /\ (n + 1) - 1 = n /\ n \in 0 .. Len(s)
    OBVIOUS
  <2>2. k[n + 1] = Append(k[n], s[n + 1])
    <3> HIDE DEF k, P, T
    <3> QED
      BY <1>2, <2>1
  <2>3. k[n] \in Seq(X) /\ s[n + 1] \in X
    BY <1>1, <2>1
  <2> HIDE DEF k
  <2>4. Len(k[n]) = n /\ \A i \in 1 .. n : k[n][i] = s[i]
    BY <1>4
  <2>5. P(n + 1)
    BY <2>1, <2>2, <2>3, <2>4
  <2> HIDE DEF P
  <2> QED
    BY <2>1, <2>5
<1>5. P(Len(s))
  <2> HIDE DEF T
  <2>1. 0 .. Len(s) \subseteq T
    BY <1>2, <1>3, <1>4, UpTo
  <2>2. Len(s) \in T
    BY <1>2, <2>1
  <2> HIDE DEF P
  <2> QED
    BY <2>2 DEF T
<1>6. k[Len(s)] \in Seq(X)
  BY <1>1
<1> HIDE DEF k
<1>7. k[Len(s)] = s
  BY <1>5, <1>6
<1> QED
  BY <1>7 DEF Kept, k
==============================================================================
