---------------------------- MODULE SequenceFacts ----------------------------
(***************************************************************************)
(* Facts about the sequence operators the models use: taking an element    *)
(* out of a registry, and skipping the first elements of a list.           *)
(***************************************************************************)
EXTENDS Integers, Sequences, SequencesExt, Subsequences, SequenceTheorems,
        WellFoundedInduction, TLAPS

\* The least member of a nonempty set of numbers.
LEMMA MinIndex ==
  ASSUME NEW I \in SUBSET Nat, I # {}
  PROVE  /\ Min(I) \in I
         /\ \A i \in I : Min(I) <= i
<1> DEFINE Less == OpToRel(<, Nat)
<1>1. \E m \in I : \A i \in I : <<i, m>> \notin Less
  BY NatLessThanWellFounded, WFMin
<1>2. ASSUME NEW i \in Nat, NEW m \in Nat, i < m PROVE <<i, m>> \in Less
  <2>1. <<i, m>> \in Nat \X Nat /\ <<i, m>>[1] < <<i, m>>[2]
    BY <1>2
  <2> QED BY <2>1 DEF OpToRel
<1> HIDE DEF Less
<1>3. \E m \in I : \A i \in I : m <= i
  <2>1. PICK m \in I : \A i \in I : <<i, m>> \notin Less
    BY <1>1
  <2>2. ASSUME NEW i \in I PROVE m <= i
    <3>1. m \in Nat /\ i \in Nat /\ ~(i < m)
      BY <2>1, <1>2
    <3> QED BY <3>1
  <2> QED BY <2>2
<1> QED BY <1>3 DEF Min

\* The elements of a sequence, by position.
LEMMA RangeIs ==
  ASSUME NEW S, NEW s \in Seq(S)
  PROVE  /\ \A x : x \in Range(s) <=> \E i \in 1..Len(s) : x = s[i]
         /\ Range(s) \subseteq S
         /\ IsInjective(s) <=> \A i, j \in 1..Len(s) : s[i] = s[j] => i = j
BY DEF Range, IsInjective

LEMMA AppendRange ==
  ASSUME NEW S, NEW s \in Seq(S), NEW e \in S
  PROVE  /\ Append(s, e) \in Seq(S)
         /\ Range(Append(s, e)) = Range(s) \cup {e}
         /\ IsInjective(s) /\ e \notin Range(s) => IsInjective(Append(s, e))
<1> DEFINE r == Append(s, e)
<1>1. r \in Seq(S) /\ Len(r) = Len(s) + 1 /\ Len(s) \in Nat
  OBVIOUS
<1>2. \A i \in 1..Len(r) : r[i] = IF i = Len(s) + 1 THEN e ELSE s[i]
  OBVIOUS
<1> HIDE DEF r
<1>3. Range(r) = Range(s) \cup {e}
  BY <1>1, <1>2, RangeIs
<1>4. ASSUME IsInjective(s), e \notin Range(s) PROVE IsInjective(r)
  BY <1>1, <1>2, <1>4, RangeIs
<1> QED BY <1>1, <1>3, <1>4 DEF r

LEMMA TailRange ==
  ASSUME NEW S, NEW s \in Seq(S), s # <<>>
  PROVE  /\ Tail(s) \in Seq(S) /\ Head(s) \in S
         /\ Range(s) = {Head(s)} \cup Range(Tail(s))
<1>1. Tail(s) \in Seq(S) /\ Len(s) \in Nat \ {0} /\ Len(Tail(s)) = Len(s) - 1
  OBVIOUS
<1>2. Head(s) = s[1] /\ \A i \in 1..Len(Tail(s)) : Tail(s)[i] = s[i + 1]
  OBVIOUS
<1>3. \A i \in 1..Len(s) : i = 1 \/ (i - 1 \in 1..Len(Tail(s)) /\ s[i] = Tail(s)[i - 1])
  BY <1>1, <1>2
<1> DEFINE t == Tail(s)
<1>4. /\ \A x : x \in Range(s) <=> \E i \in 1..Len(s) : x = s[i]
      /\ \A x : x \in Range(t) <=> \E i \in 1..Len(t) : x = t[i]
  BY <1>1, RangeIs
<1>5. \A i \in 1..Len(t) : i + 1 \in 1..Len(s) /\ t[i] = s[i + 1]
  BY <1>1, <1>2
<1>6. 1 \in 1..Len(s)
  BY <1>1
<1> HIDE DEF t
<1>7. ASSUME NEW x PROVE x \in Range(s) <=> x = s[1] \/ x \in Range(t)
  <2>1. ASSUME NEW i \in 1..Len(s), x = s[i], x # s[1] PROVE x \in Range(t)
    BY <1>3, <1>4, <2>1 DEF t
  <2>2. ASSUME NEW i \in 1..Len(t), x = t[i] PROVE x \in Range(s)
    BY <1>4, <1>5, <2>2
  <2> QED BY <1>4, <1>6, <2>1, <2>2
<1>8. Range(s) = {Head(s)} \cup Range(t)
  BY <1>2, <1>7
<1> QED BY <1>1, <1>8 DEF t

\* Dropping what comes before position k keeps what stands at k or after.
LEMMA SuffixRange ==
  ASSUME NEW S, NEW s \in Seq(S), NEW k \in 1..Len(s)
  PROVE  /\ SubSeq(s, k, Len(s)) \in Seq(S)
         /\ Range(SubSeq(s, k, Len(s))) = {s[i] : i \in k..Len(s)}
<1> DEFINE r == SubSeq(s, k, Len(s))
<1>1. r \in Seq(S) /\ Len(r) = Len(s) - k + 1
  OBVIOUS
<1>2. \A i \in 1..Len(r) : r[i] = s[k + i - 1]
  OBVIOUS
<1> HIDE DEF r
<1>3. \A i \in k..Len(s) : i - k + 1 \in 1..Len(r) /\ s[i] = r[i - k + 1]
  BY <1>1, <1>2
<1>4. \A i \in 1..Len(r) : k + i - 1 \in k..Len(s) /\ r[i] = s[k + i - 1]
  BY <1>1, <1>2
<1>5. \A x : x \in Range(r) <=> \E i \in 1..Len(r) : x = r[i]
  BY <1>1, RangeIs
<1>6. ASSUME NEW x PROVE x \in Range(r) <=> \E i \in k..Len(s) : x = s[i]
  <2>1. ASSUME NEW i \in 1..Len(r), x = r[i] PROVE \E j \in k..Len(s) : x = s[j]
    BY <1>4, <2>1
  <2>2. ASSUME NEW i \in k..Len(s), x = s[i] PROVE \E j \in 1..Len(r) : x = r[j]
    BY <1>3, <2>2
  <2> QED BY <1>5, <2>1, <2>2
<1>7. Range(r) = {s[i] : i \in k..Len(s)}
  BY <1>6
<1> QED BY <1>1, <1>7 DEF r

\* Array.prototype.slice from the start.
LEMMA PrefixRange ==
  ASSUME NEW S, NEW s \in Seq(S), NEW k \in Int, k <= Len(s)
  PROVE  /\ SubSeq(s, 1, k) \in Seq(S)
         /\ Range(SubSeq(s, 1, k)) \subseteq Range(s)
         /\ Len(SubSeq(s, 1, k)) = IF k > 0 THEN k ELSE 0
<1> DEFINE r == SubSeq(s, 1, k)
<1>1. r \in Seq(S) /\ Len(r) = IF k > 0 THEN k ELSE 0
  OBVIOUS
<1>2. \A i \in 1..Len(r) : i \in 1..Len(s) /\ r[i] = s[i]
  OBVIOUS
<1> HIDE DEF r
<1>3. /\ \A x : x \in Range(r) <=> \E i \in 1..Len(r) : x = r[i]
      /\ \A x : x \in Range(s) <=> \E i \in 1..Len(s) : x = s[i]
  BY <1>1, RangeIs
<1>4. Range(r) \subseteq Range(s)
  BY <1>2, <1>3
<1> QED BY <1>1, <1>4 DEF r

\* Map.delete: the one entry is gone, the order of the others is kept.
LEMMA RemoveFirstRange ==
  ASSUME NEW S, NEW s \in Seq(S), NEW e, IsInjective(s)
  PROVE  /\ RemoveFirst(s, e) \in Seq(S)
         /\ Range(RemoveFirst(s, e)) = Range(s) \ {e}
         /\ IsInjective(RemoveFirst(s, e))
<1> DEFINE r == RemoveFirst(s, e)
<1>1. Len(s) \in Nat /\ \A i, j \in 1..Len(s) : s[i] = s[j] => i = j
  BY RangeIs
<1>2. CASE \E i \in 1..Len(s) : s[i] = e
  <2> DEFINE k == Min({i \in 1..Len(s) : s[i] = e})
  <2>1. k \in 1..Len(s) /\ s[k] = e
    <3> DEFINE I == {i \in 1..Len(s) : s[i] = e}
    <3>1. I \in SUBSET Nat /\ I # {}
      BY <1>2
    <3>2. Min(I) \in I
      BY <3>1, MinIndex
    <3> QED BY <3>2
  <2>2. r = SubSeq(s, 1, k - 1) \o SubSeq(s, k + 1, Len(s))
    BY <1>2, <2>1 DEF RemoveFirst, RemoveAt, SelectInSeq
  <2> HIDE DEF k, r
  <2> DEFINE a == SubSeq(s, 1, k - 1)
             b == SubSeq(s, k + 1, Len(s))
  <2>3. a \in Seq(S) /\ b \in Seq(S) /\ Len(a) = k - 1 /\ Len(b) = Len(s) - k
    BY <1>1, <2>1
  <2>4. /\ \A i \in 1..Len(a) : a[i] = s[i]
        /\ \A i \in 1..Len(b) : b[i] = s[k + i]
    BY <1>1, <2>1
  <2>5. r = a \o b
    BY <2>2
  <2> HIDE DEF a, b
  <2>6. /\ a \o b \in Seq(S) /\ Len(a \o b) = Len(a) + Len(b)
        /\ \A i \in 1..Len(a) + Len(b) :
             (a \o b)[i] = IF i <= Len(a) THEN a[i] ELSE b[i - Len(a)]
    BY <2>3, ConcatProperties
  <2>7. r \in Seq(S) /\ Len(r) = Len(s) - 1
    BY <1>1, <2>1, <2>3, <2>5, <2>6
  <2>8. \A i \in 1..Len(r) : r[i] = IF i < k THEN s[i] ELSE s[i + 1]
    <3> SUFFICES ASSUME NEW i \in 1..Len(r) PROVE r[i] = IF i < k THEN s[i] ELSE s[i + 1]
      OBVIOUS
    <3>1. r[i] = IF i <= k - 1 THEN a[i] ELSE b[i - (k - 1)]
      BY <1>1, <2>1, <2>7, <2>3, <2>5, <2>6
    <3>2. CASE i < k
      BY <1>1, <2>1, <2>3, <2>4, <3>1, <3>2
    <3>3. CASE ~(i < k)
      <4>1. PICK j \in 1..Len(b) : j = i - (k - 1) /\ k + j = i + 1
        BY <1>1, <2>1, <2>3, <2>7, <3>3
      <4>2. b[j] = s[k + j]
        BY <1>1, <2>1, <2>3, <2>4
      <4>3. ~(i <= k - 1)
        BY <2>1, <2>7, <3>3
      <4> QED BY <3>1, <3>3, <4>1, <4>2, <4>3
    <3> QED BY <3>2, <3>3
  <2>9. \A i \in 1..Len(s) : i # k => \E j \in 1..Len(r) : r[j] = s[i]
    <3> SUFFICES ASSUME NEW i \in 1..Len(s), i # k PROVE \E j \in 1..Len(r) : r[j] = s[i]
      OBVIOUS
    <3>1. CASE i < k
      <4>1. i \in 1..Len(r) /\ r[i] = s[i]
        BY <1>1, <2>1, <2>7, <2>8, <3>1
      <4> QED BY <4>1
    <3>2. CASE i > k
      <4>1. i - 1 \in 1..Len(r) /\ r[i - 1] = s[i]
        BY <1>1, <2>1, <2>7, <2>8, <3>2
      <4> QED BY <4>1
    <3> QED BY <1>1, <2>1, <3>1, <3>2
  <2>10. \A i \in 1..Len(r) : \E j \in 1..Len(s) : j # k /\ r[i] = s[j]
    <3> SUFFICES ASSUME NEW i \in 1..Len(r) PROVE \E j \in 1..Len(s) : j # k /\ r[i] = s[j]
      OBVIOUS
    <3>1. i \in 1..Len(s) /\ i + 1 \in 1..Len(s)
      BY <1>1, <2>7
    <3> QED BY <1>1, <2>1, <2>8, <3>1
  <2>11. Range(r) = Range(s) \ {e}
    <3> SUFFICES ASSUME NEW x PROVE x \in Range(r) <=> x \in Range(s) /\ x # e
      OBVIOUS
    <3>1. /\ x \in Range(s) <=> \E i \in 1..Len(s) : x = s[i]
          /\ x \in Range(r) <=> \E i \in 1..Len(r) : x = r[i]
      BY <2>7, RangeIs
    <3>2. \A j \in 1..Len(s) : s[j] = e <=> j = k
      BY <1>1, <2>1
    <3>3. ASSUME x \in Range(r) PROVE x \in Range(s) /\ x # e
      BY <2>10, <3>1, <3>2, <3>3
    <3>4. ASSUME x \in Range(s), x # e PROVE x \in Range(r)
      BY <2>9, <3>1, <3>2, <3>4
    <3> QED BY <3>3, <3>4
  <2>12. IsInjective(r)
    <3>1. \A i, j \in 1..Len(r) : r[i] = r[j] => i = j
      BY <1>1, <2>1, <2>7, <2>8
    <3> QED BY <2>7, <3>1, RangeIs
  <2> QED BY <2>7, <2>11, <2>12 DEF r
<1>3. CASE ~ \E i \in 1..Len(s) : s[i] = e
  <2>1. r = s
    BY <1>3 DEF RemoveFirst
  <2>2. e \notin Range(s)
    BY <1>3, RangeIs
  <2> QED BY <2>1, <2>2
<1> QED BY <1>2, <1>3

-----------------------------------------------------------------------------
(* Filtering, by induction on the length.                                  *)

\* Induction over a set of numbers.
LEMMA Induction ==
  ASSUME NEW P \in SUBSET Nat, 0 \in P, \A n \in P : n + 1 \in P
  PROVE  \A n \in Nat : n \in P
<1> DEFINE B == Nat \ P
<1>1. SUFFICES ASSUME B # {} PROVE FALSE
  OBVIOUS
<1>2. B \in SUBSET Nat
  OBVIOUS
<1>3. Min(B) \in B /\ \A i \in B : Min(B) <= i
  BY <1>1, <1>2, MinIndex
<1>4. PICK m \in B : \A i \in B : m <= i
  BY <1>3
<1>5. m \in Nat /\ m # 0 /\ m - 1 \in Nat
  BY <1>4
<1>6. m - 1 \notin B
  BY <1>4, <1>5
<1>7. (m - 1) + 1 \in P
  BY <1>5, <1>6
<1> QED BY <1>4, <1>5, <1>7

\* The prefixes of what is kept.
LEMMA KeptSteps ==
  ASSUME NEW T, NEW s \in Seq(T), NEW S
  PROVE  \E g : /\ g[0] = <<>> /\ g[Len(s)] = Kept(s, S)
                /\ \A n \in 1..Len(s) :
                     g[n] = IF s[n] \in S THEN Append(g[n - 1], s[n]) ELSE g[n - 1]
<1> DEFINE L == Len(s)
           Is(f, m) == f = [n \in 0..m |-> IF n = 0 THEN <<>>
                                           ELSE IF s[n] \in S THEN Append(f[n - 1], s[n])
                                                              ELSE f[n - 1]]
           P == {m \in Nat : \E f : Is(f, m)}
<1>1. L \in Nat
  OBVIOUS
<1>2. 0 \in P
  <2>1. Is([n \in 0..0 |-> <<>>], 0)
    OBVIOUS
  <2> QED BY <2>1
<1>3. ASSUME NEW m \in P PROVE m + 1 \in P
  <2>1. PICK g : Is(g, m)
    OBVIOUS
  <2> DEFINE f == [n \in 0..(m + 1) |->
                     IF n # m + 1 THEN g[n]
                     ELSE IF s[n] \in S THEN Append(g[m], s[n]) ELSE g[m]]
  <2>2. \A n \in 0..m : g[n] = IF n = 0 THEN <<>>
                               ELSE IF s[n] \in S THEN Append(g[n - 1], s[n]) ELSE g[n - 1]
    BY <2>1
  <2>3. m \in Nat
    OBVIOUS
  <2>4. \A n \in 0..(m + 1) : f[n] = IF n = 0 THEN <<>>
                                     ELSE IF s[n] \in S THEN Append(f[n - 1], s[n]) ELSE f[n - 1]
    <3> SUFFICES ASSUME NEW n \in 0..(m + 1)
                 PROVE  f[n] = IF n = 0 THEN <<>>
                               ELSE IF s[n] \in S THEN Append(f[n - 1], s[n]) ELSE f[n - 1]
      OBVIOUS
    <3>1. CASE n = 0
      BY <2>2, <2>3, <3>1
    <3>2. CASE n # 0
      <4>1. n - 1 \in 0..(m + 1) /\ n - 1 # m + 1 /\ f[n - 1] = g[n - 1]
        BY <2>3, <3>2
      <4>2. n # m + 1 => n \in 0..m
        BY <2>3
      <4> QED BY <2>2, <2>3, <3>2, <4>1, <4>2
    <3> QED BY <3>1, <3>2
  <2>5. Is(f, m + 1)
    BY <2>4
  <2> HIDE DEF f, Is
  <2>6. \E h : Is(h, m + 1)
    BY <2>5
  <2> QED BY <2>3, <2>6
<1> HIDE DEF Is
<1>4. P \in SUBSET Nat
  OBVIOUS
<1>5. \E f : Is(f, L)
  <2> HIDE DEF P
  <2>1. L \in P
    BY <1>1, <1>2, <1>3, <1>4, Induction
  <2> QED BY <2>1 DEF P
<1> DEFINE g == CHOOSE f : Is(f, L)
<1>6. Is(g, L)
  BY <1>5
<1>7. Kept(s, S) = g[L]
  BY DEF Kept, Is
<1> HIDE DEF g
<1>8. \A n \in 0..L : g[n] = IF n = 0 THEN <<>>
                             ELSE IF s[n] \in S THEN Append(g[n - 1], s[n]) ELSE g[n - 1]
  <2>1. g = [n \in 0..L |-> IF n = 0 THEN <<>>
                            ELSE IF s[n] \in S THEN Append(g[n - 1], s[n]) ELSE g[n - 1]]
    BY <1>6 DEF Is
  <2> HIDE DEF L
  <2> QED BY <2>1
<1>9. /\ g[0] = <<>>
      /\ \A n \in 1..L : g[n] = IF s[n] \in S THEN Append(g[n - 1], s[n]) ELSE g[n - 1]
  <2> HIDE DEF L
  <2>1. 0 \in 0..L /\ \A n \in 1..L : n \in 0..L /\ n # 0
    BY <1>1
  <2> QED BY <1>8, <2>1
<1> QED BY <1>7, <1>9

\* What is kept is in both; distinct elements stay distinct.
LEMMA KeptRange ==
  ASSUME NEW T, NEW s \in Seq(T), NEW S
  PROVE  /\ Kept(s, S) \in Seq(T)
         /\ Range(Kept(s, S)) = Range(s) \cap S
         /\ Len(Kept(s, S)) <= Len(s)
         /\ IsInjective(s) => IsInjective(Kept(s, S))
<1>1. PICK g : /\ g[0] = <<>> /\ g[Len(s)] = Kept(s, S)
               /\ \A n \in 1..Len(s) :
                    g[n] = IF s[n] \in S THEN Append(g[n - 1], s[n]) ELSE g[n - 1]
  BY KeptSteps
<1> DEFINE Q(n) == /\ g[n] \in Seq(T) /\ Len(g[n]) <= n
                   /\ \A x : x \in Range(g[n]) <=> x \in S /\ \E i \in 1..n : x = s[i]
                   /\ IsInjective(s) => IsInjective(g[n])
           P == {n \in Nat : n <= Len(s) => Q(n)}
<1>2. Len(s) \in Nat /\ \A i \in 1..Len(s) : s[i] \in T
  OBVIOUS
<1>3. 0 \in P
  <2>1. g[0] \in Seq(T) /\ Len(g[0]) = 0 /\ Range(g[0]) = {} /\ IsInjective(g[0])
    BY <1>1 DEF Range, IsInjective
  <2>2. Q(0)
    BY <2>1
  <2> QED BY <2>2
<1>4. ASSUME NEW m \in P PROVE m + 1 \in P
  <2> SUFFICES ASSUME m + 1 <= Len(s) PROVE Q(m + 1)
    OBVIOUS
  <2> DEFINE e == s[m + 1]
  <2>1. /\ m \in Nat /\ m + 1 \in 1..Len(s) /\ Q(m) /\ e \in T
        /\ g[m + 1] = IF e \in S THEN Append(g[m], e) ELSE g[m]
    BY <1>1, <1>2
  <2>2. \A x : (\E i \in 1..(m + 1) : x = s[i]) <=> x = e \/ \E i \in 1..m : x = s[i]
    BY <2>1
  <2>3. CASE e \in S
    <3>1. IsInjective(s) => e \notin Range(g[m])
      <4> SUFFICES ASSUME IsInjective(s), NEW i \in 1..m, e = s[i] PROVE FALSE
        BY <2>1
      <4>1. i \in 1..Len(s) /\ i # m + 1
        BY <1>2, <2>1
      <4> QED BY <2>1, <4>1, RangeIs
    <3>2. /\ Append(g[m], e) \in Seq(T)
          /\ Range(Append(g[m], e)) = Range(g[m]) \cup {e}
          /\ IsInjective(g[m]) /\ e \notin Range(g[m]) => IsInjective(Append(g[m], e))
      BY <2>1, AppendRange
    <3>3. Len(Append(g[m], e)) = Len(g[m]) + 1
      BY <2>1
    <3>4. g[m + 1] = Append(g[m], e)
      BY <2>1, <2>3
    <3> HIDE DEF e
    <3>5. \A x : x \in Range(g[m + 1]) <=> x \in S /\ \E i \in 1..(m + 1) : x = s[i]
      BY <2>1, <2>2, <2>3, <3>2, <3>4
    <3>6. Len(g[m + 1]) <= m + 1
      BY <2>1, <3>3, <3>4
    <3> QED BY <2>1, <3>1, <3>2, <3>4, <3>5, <3>6
  <2>4. CASE e \notin S
    <3>1. g[m + 1] = g[m]
      BY <2>1, <2>4
    <3> HIDE DEF e
    <3>2. \A x : x \in Range(g[m + 1]) <=> x \in S /\ \E i \in 1..(m + 1) : x = s[i]
      BY <2>1, <2>2, <2>4, <3>1
    <3> QED BY <2>1, <3>1, <3>2
  <2> QED BY <2>3, <2>4
<1>5. P \in SUBSET Nat
  OBVIOUS
<1> HIDE DEF Q
<1>6. Q(Len(s))
  <2> HIDE DEF P
  <2>1. Len(s) \in P
    BY <1>2, <1>3, <1>4, <1>5, Induction
  <2> QED BY <2>1 DEF P
<1>7. \A x : x \in Range(s) <=> \E i \in 1..Len(s) : x = s[i]
  BY RangeIs
<1>8. Range(Kept(s, S)) = Range(s) \cap S
  BY <1>1, <1>6, <1>7 DEF Q
<1> QED BY <1>1, <1>6, <1>8 DEF Q

\* Filtering and appending commute.
LEMMA KeptAppend ==
  ASSUME NEW T, NEW s \in Seq(T), NEW e \in T, NEW S
  PROVE  Kept(Append(s, e), S) = IF e \in S THEN Append(Kept(s, S), e) ELSE Kept(s, S)
<1> DEFINE r == Append(s, e)
           L == Len(s)
<1>1. /\ r \in Seq(T) /\ Len(r) = L + 1 /\ L \in Nat
      /\ \A n \in 1..L : r[n] = s[n]
      /\ r[L + 1] = e
  OBVIOUS
<1> HIDE DEF r
<1>2. PICK g : /\ g[0] = <<>> /\ g[Len(s)] = Kept(s, S)
               /\ \A n \in 1..Len(s) :
                    g[n] = IF s[n] \in S THEN Append(g[n - 1], s[n]) ELSE g[n - 1]
  BY KeptSteps
<1>3. PICK h : /\ h[0] = <<>> /\ h[Len(r)] = Kept(r, S)
               /\ \A n \in 1..Len(r) :
                    h[n] = IF r[n] \in S THEN Append(h[n - 1], r[n]) ELSE h[n - 1]
  BY <1>1, KeptSteps
<1> HIDE DEF L
<1> DEFINE P == {n \in Nat : n <= L => h[n] = g[n]}
<1>4. 0 \in P
  BY <1>2, <1>3
<1>5. ASSUME NEW m \in P PROVE m + 1 \in P
  <2> SUFFICES ASSUME m + 1 <= L PROVE h[m + 1] = g[m + 1]
    OBVIOUS
  <2>1. m \in Nat /\ m + 1 \in 1..L /\ m + 1 \in 1..Len(r) /\ h[m] = g[m] /\ (m + 1) - 1 = m
    BY <1>1
  <2>2. h[m + 1] = IF r[m + 1] \in S THEN Append(h[m], r[m + 1]) ELSE h[m]
    BY <1>3, <2>1
  <2>3. g[m + 1] = IF s[m + 1] \in S THEN Append(g[m], s[m + 1]) ELSE g[m]
    BY <1>2, <2>1 DEF L
  <2> QED BY <1>1, <2>1, <2>2, <2>3
<1>6. h[L] = g[L]
  <2>1. P \in SUBSET Nat
    OBVIOUS
  <2>2. L \in P
    <3> HIDE DEF P
    <3> QED BY <1>1, <1>4, <1>5, <2>1, Induction
  <2> QED BY <1>1, <2>2
<1>7. h[L + 1] = IF r[L + 1] \in S THEN Append(h[L], r[L + 1]) ELSE h[L]
  <2>1. L + 1 \in 1..Len(r) /\ (L + 1) - 1 = L
    BY <1>1
  <2> QED BY <1>3, <2>1
<1> QED BY <1>1, <1>2, <1>3, <1>6, <1>7 DEF r, L

\* Filtering twice keeps what both let through.
LEMMA KeptTwice ==
  ASSUME NEW T, NEW s \in Seq(T), NEW A, NEW B
  PROVE  Kept(Kept(s, A), B) = Kept(s, A \cap B)
<1> DEFINE L == Len(s)
<1>1. L \in Nat /\ \A n \in 1..L : s[n] \in T
  OBVIOUS
<1>2. PICK g : /\ g[0] = <<>> /\ g[L] = Kept(s, A)
               /\ \A n \in 1..L :
                    g[n] = IF s[n] \in A THEN Append(g[n - 1], s[n]) ELSE g[n - 1]
  BY KeptSteps
<1>3. PICK h : /\ h[0] = <<>> /\ h[L] = Kept(s, A \cap B)
               /\ \A n \in 1..L :
                    h[n] = IF s[n] \in A \cap B THEN Append(h[n - 1], s[n]) ELSE h[n - 1]
  BY KeptSteps
<1> HIDE DEF L
<1> DEFINE P == {n \in Nat : n <= L => g[n] \in Seq(T) /\ Kept(g[n], B) = h[n]}
<1>4. 0 \in P
  <2>1. <<>> \in Seq(T) /\ Len(<<>>) = 0
    OBVIOUS
  <2>2. Kept(<<>>, B) = <<>>
    <3>1. PICK r \in Seq(T) : r = <<>> /\ Len(r) = 0
      BY <2>1
    <3>2. \E f : /\ f[0] = <<>> /\ f[Len(r)] = Kept(r, B)
                 /\ \A n \in 1..Len(r) :
                      f[n] = IF r[n] \in B THEN Append(f[n - 1], r[n]) ELSE f[n - 1]
      BY KeptSteps
    <3> QED BY <3>1, <3>2
  <2> QED BY <1>2, <1>3, <2>1, <2>2
<1>5. ASSUME NEW m \in P PROVE m + 1 \in P
  <2> SUFFICES ASSUME m + 1 <= L PROVE g[m + 1] \in Seq(T) /\ Kept(g[m + 1], B) = h[m + 1]
    OBVIOUS
  <2>1. /\ m \in Nat /\ m + 1 \in 1..L /\ (m + 1) - 1 = m
        /\ g[m] \in Seq(T) /\ Kept(g[m], B) = h[m]
    BY <1>1
  <2>2. PICK e \in T : e = s[m + 1]
    BY <1>1, <2>1
  <2>3. g[m + 1] = IF e \in A THEN Append(g[m], e) ELSE g[m]
    BY <1>2, <2>1, <2>2
  <2>4. h[m + 1] = IF e \in A \cap B THEN Append(h[m], e) ELSE h[m]
    BY <1>3, <2>1, <2>2
  <2>5. /\ Kept(Append(g[m], e), B) = IF e \in B THEN Append(h[m], e) ELSE h[m]
        /\ Append(g[m], e) \in Seq(T)
    <3>1. PICK t \in Seq(T) : t = g[m] /\ Kept(t, B) = h[m]
      BY <2>1
    <3>2. Kept(Append(t, e), B) = IF e \in B THEN Append(Kept(t, B), e) ELSE Kept(t, B)
      BY KeptAppend
    <3>3. Append(t, e) \in Seq(T)
      OBVIOUS
    <3> QED BY <3>1, <3>2, <3>3
  <2> QED BY <2>1, <2>3, <2>4, <2>5
<1>6. P \in SUBSET Nat
  OBVIOUS
<1>7. L \in P
  <2> HIDE DEF P
  <2> QED BY <1>1, <1>4, <1>5, <1>6, Induction
<1> QED BY <1>1, <1>2, <1>3, <1>7

\* When everything from position k on is kept, so many elements are.
LEMMA KeptTail ==
  ASSUME NEW T, NEW s \in Seq(T), NEW S, NEW k \in 1..Len(s), \A i \in k..Len(s) : s[i] \in S
  PROVE  Len(Kept(s, S)) >= Len(s) - k + 1
<1> DEFINE L == Len(s)
<1>1. L \in Nat /\ \A n \in 1..L : s[n] \in T
  OBVIOUS
<1>2. PICK g : /\ g[0] = <<>> /\ g[L] = Kept(s, S)
               /\ \A n \in 1..L :
                    g[n] = IF s[n] \in S THEN Append(g[n - 1], s[n]) ELSE g[n - 1]
  BY KeptSteps
<1>3. \A i \in k..L : s[i] \in S
  OBVIOUS
<1>4. k \in 1..L
  OBVIOUS
<1> HIDE DEF L
<1> DEFINE P == {n \in Nat : n <= L => g[n] \in Seq(T) /\ Len(g[n]) >= n - k + 1}
<1>5. 0 \in P
  <2>1. g[0] \in Seq(T) /\ Len(g[0]) = 0
    BY <1>2
  <2> QED BY <1>1, <1>4, <2>1
<1>6. ASSUME NEW m \in P PROVE m + 1 \in P
  <2> SUFFICES ASSUME m + 1 <= L
               PROVE  g[m + 1] \in Seq(T) /\ Len(g[m + 1]) >= (m + 1) - k + 1
    OBVIOUS
  <2>1. /\ m \in Nat /\ m + 1 \in 1..L /\ (m + 1) - 1 = m
        /\ g[m] \in Seq(T) /\ Len(g[m]) >= m - k + 1
    BY <1>1
  <2>2. PICK e \in T : e = s[m + 1]
    BY <1>1, <2>1
  <2>3. g[m + 1] = IF e \in S THEN Append(g[m], e) ELSE g[m]
    BY <1>2, <2>1, <2>2
  <2>4. Append(g[m], e) \in Seq(T) /\ Len(Append(g[m], e)) = Len(g[m]) + 1 /\ Len(g[m]) \in Nat
    BY <2>1
  <2>5. m + 1 >= k => e \in S
    BY <1>1, <1>3, <1>4, <2>1, <2>2
  <2> QED BY <1>4, <2>1, <2>3, <2>4, <2>5
<1>7. P \in SUBSET Nat
  OBVIOUS
<1>8. L \in P
  <2> HIDE DEF P
  <2> QED BY <1>1, <1>5, <1>6, <1>7, Induction
<1>9. Len(g[L]) >= L - k + 1
  BY <1>1, <1>8
<1> QED BY <1>2, <1>9 DEF L
=============================================================================
