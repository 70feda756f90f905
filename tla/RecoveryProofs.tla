--------------------------- MODULE RecoveryProofs ---------------------------
(***************************************************************************)
(* Proofs about Recovery, for any tabs, requests, sizes of the ring, the   *)
(* queue and a drain, and any number of reconnects, restarts and expiries. *)
(*                                                                         *)
(* An event is settled for a tab once the tab has heard it or the code has *)
(* given it up for the tab (Settled).  That only grows, and every event    *)
(* that is not settled is accounted for by the stage the tab's stream is   *)
(* in: queued or never queued (QueuedOK), before the cursor (PastOK), none *)
(* left (OpenOK), found by the drain on its way (ReadingOK), held by the   *)
(* handshake (FetchedOK); and a stream has purged only what its tab has    *)
(* (AckOK).  This rests on the ring and the record ending with the newest  *)
(* event (RecordOK), on one drain per handshake (WireOK), on what a        *)
(* handshake holds continuing its cursor (StreamOK), and on an event being *)
(* queued once (FreshOK).                                                  *)
(***************************************************************************)
EXTENDS Recovery, SequenceFacts, FiniteSetTheorems

-----------------------------------------------------------------------------
(* Sequences and ranks.                                                    *)

LEMMA SeqGrows ==
  ASSUME NEW S, NEW T, S \subseteq T, NEW s \in Seq(S)
  PROVE  s \in Seq(T)
OBVIOUS

LEMMA JoinRange ==
  ASSUME NEW S, NEW a \in Seq(S), NEW b \in Seq(S)
  PROVE  /\ a \o b \in Seq(S) /\ Range(a \o b) = Range(a) \cup Range(b)
         /\ Len(a \o b) = Len(a) + Len(b)
         /\ \A k \in 1..Len(a \o b) : (a \o b)[k] = IF k <= Len(a) THEN a[k] ELSE b[k - Len(a)]
<1>1. a \o b \in Seq(S) /\ Len(a \o b) = Len(a) + Len(b) /\ Len(a) \in Nat /\ Len(b) \in Nat
  OBVIOUS
<1>2. \A k \in 1..Len(a \o b) : (a \o b)[k] = IF k <= Len(a) THEN a[k] ELSE b[k - Len(a)]
  OBVIOUS
<1> DEFINE r == a \o b
<1>3. /\ \A x : x \in Range(a) <=> \E i \in 1..Len(a) : x = a[i]
      /\ \A x : x \in Range(b) <=> \E i \in 1..Len(b) : x = b[i]
      /\ \A x : x \in Range(r) <=> \E i \in 1..Len(r) : x = r[i]
  BY <1>1, RangeIs
<1>4. /\ r \in Seq(S) /\ Len(r) = Len(a) + Len(b)
      /\ \A k \in 1..Len(r) : r[k] = IF k <= Len(a) THEN a[k] ELSE b[k - Len(a)]
  BY <1>1, <1>2
<1> HIDE DEF r
<1>5. ASSUME NEW x \in Range(a) PROVE x \in Range(r)
  <2>1. PICK i \in 1..Len(a) : x = a[i]
    BY <1>3
  <2>2. i \in 1..Len(r) /\ r[i] = a[i]
    BY <1>1, <1>4
  <2> QED BY <1>3, <2>1, <2>2
<1>6. ASSUME NEW x \in Range(b) PROVE x \in Range(r)
  <2>1. PICK i \in 1..Len(b) : x = b[i]
    BY <1>3
  <2>2. PICK k \in 1..Len(r) : k = Len(a) + i
    BY <1>1, <1>4
  <2>3. ~(k <= Len(a)) /\ k - Len(a) = i
    BY <1>1, <2>2
  <2>4. r[k] = b[i]
    BY <1>4, <2>3
  <2> QED BY <1>3, <2>1, <2>4
<1>7. ASSUME NEW x \in Range(r) PROVE x \in Range(a) \cup Range(b)
  <2>1. PICK k \in 1..Len(r) : x = r[k]
    BY <1>3
  <2>2. CASE k <= Len(a)
    <3>1. k \in 1..Len(a) /\ x = a[k]
      BY <1>1, <1>4, <2>1, <2>2
    <3> QED BY <1>3, <3>1
  <2>3. CASE ~(k <= Len(a))
    <3>1. PICK i \in 1..Len(b) : i = k - Len(a)
      BY <1>1, <1>4, <2>3
    <3>2. x = b[i]
      BY <1>4, <2>1, <2>3, <3>1
    <3> QED BY <1>3, <3>2
  <2> QED BY <2>2, <2>3
<1>8. Range(r) = Range(a) \cup Range(b)
  BY <1>5, <1>6, <1>7
<1> QED BY <1>4, <1>8 DEF r

\* Ids in the order they were handed out.
Increasing(s) == \A k, l \in 1..Len(s) : k < l => s[k] < s[l]

LEMMA KeptIncreasing ==
  ASSUME NEW T \in SUBSET Int, NEW s \in Seq(T), NEW S, Increasing(s)
  PROVE  Increasing(Kept(s, S))
<1>1. PICK g : /\ g[0] = <<>> /\ g[Len(s)] = Kept(s, S)
               /\ \A n \in 1..Len(s) :
                    g[n] = IF s[n] \in S THEN Append(g[n - 1], s[n]) ELSE g[n - 1]
  BY KeptSteps
<1> DEFINE Q(n) == /\ g[n] \in Seq(T) /\ Increasing(g[n])
                   /\ \A k \in 1..Len(g[n]) : \E i \in 1..n : g[n][k] = s[i]
           P == {n \in Nat : n <= Len(s) => Q(n)}
<1>2. Len(s) \in Nat /\ \A i \in 1..Len(s) : s[i] \in T
  OBVIOUS
<1>3. 0 \in P
  <2>1. g[0] \in Seq(T) /\ Len(g[0]) = 0
    BY <1>1
  <2>2. Q(0)
    BY <2>1 DEF Increasing
  <2> QED BY <2>2
<1>4. ASSUME NEW m \in P PROVE m + 1 \in P
  <2>0. SUFFICES ASSUME m + 1 <= Len(s) PROVE Q(m + 1)
    <3> HIDE DEF Q
    <3> QED OBVIOUS
  <2>1. PICK e : e = s[m + 1]
    OBVIOUS
  <2>2. /\ m \in Nat /\ m + 1 \in 1..Len(s) /\ Q(m) /\ e \in T
        /\ g[m + 1] = IF e \in S THEN Append(g[m], e) ELSE g[m]
    BY <1>1, <1>2, <2>0, <2>1
  <2>3. PICK h, r : h = g[m] /\ r = g[m + 1]
    OBVIOUS
  <2>4. /\ h \in Seq(T) /\ \A k, l \in 1..Len(h) : k < l => h[k] < h[l]
        /\ \A k \in 1..Len(h) : \E i \in 1..m : h[k] = s[i]
    BY <2>2, <2>3 DEF Increasing
  <2>5. \A k \in 1..Len(h) : h[k] < e
    BY <1>2, <2>1, <2>2, <2>4 DEF Increasing
  <2>6. CASE e \in S
    <3>1. r = Append(h, e)
      BY <2>2, <2>3, <2>6
    <3>2. r \in Seq(T) /\ Len(r) = Len(h) + 1
      BY <2>2, <2>4, <3>1
    <3>3. \A k \in 1..Len(r) : r[k] = IF k <= Len(h) THEN h[k] ELSE e
      BY <2>2, <2>4, <3>1
    <3>4. ASSUME NEW k \in 1..Len(r), NEW l \in 1..Len(r), k < l PROVE r[k] < r[l]
      <4>1. k \in 1..Len(h) /\ r[k] = h[k]
        BY <2>4, <3>2, <3>3, <3>4
      <4>2. CASE l <= Len(h)
        <5>1. l \in 1..Len(h) /\ r[l] = h[l]
          BY <2>4, <3>3, <4>2
        <5> QED BY <2>4, <3>4, <4>1, <5>1
      <4>3. CASE ~(l <= Len(h))
        BY <2>5, <3>3, <4>1, <4>3
      <4> QED BY <4>2, <4>3
    <3>5. \A k \in 1..Len(r) : \E i \in 1..(m + 1) : r[k] = s[i]
      <4> SUFFICES ASSUME NEW k \in 1..Len(r) PROVE \E i \in 1..(m + 1) : r[k] = s[i]
        OBVIOUS
      <4>1. CASE k <= Len(h)
        <5>1. PICK i \in 1..m : h[k] = s[i]
          BY <2>4, <3>2, <4>1
        <5> QED BY <2>2, <3>3, <4>1, <5>1
      <4>2. CASE ~(k <= Len(h))
        BY <2>1, <2>2, <3>3, <4>2
      <4> QED BY <4>1, <4>2
    <3>6. Increasing(r)
      BY <3>4 DEF Increasing
    <3>7. /\ g[m + 1] \in Seq(T) /\ Increasing(g[m + 1])
          /\ \A k \in 1..Len(g[m + 1]) : \E i \in 1..(m + 1) : g[m + 1][k] = s[i]
      BY <2>3, <3>2, <3>5, <3>6, Zenon
    <3> QED BY <3>7, Zenon
  <2>7. CASE e \notin S
    <3>1. g[m + 1] = h
      BY <2>2, <2>3, <2>7
    <3>2. \A k \in 1..Len(h) : \E i \in 1..(m + 1) : h[k] = s[i]
      BY <2>2, <2>4
    <3>3. Increasing(h)
      BY <2>2, <2>3, Zenon
    <3>4. /\ g[m + 1] \in Seq(T) /\ Increasing(g[m + 1])
          /\ \A k \in 1..Len(g[m + 1]) : \E i \in 1..(m + 1) : g[m + 1][k] = s[i]
      BY <2>4, <3>1, <3>2, <3>3, Zenon
    <3> QED BY <3>4, Zenon
  <2> QED BY <2>6, <2>7
<1>5. P \in SUBSET Nat
  OBVIOUS
<1> HIDE DEF Q
<1>6. Q(Len(s))
  <2> HIDE DEF P
  <2>1. Len(s) \in P
    BY <1>2, <1>3, <1>4, <1>5, Induction
  <2> QED BY <2>1 DEF P
<1> QED BY <1>1, <1>6 DEF Q

\* What stands before an element of an increasing sequence is what is less.
LEMMA Rank ==
  ASSUME NEW T \in SUBSET Int, NEW s \in Seq(T), Increasing(s), NEW k \in 1..Len(s)
  PROVE  Cardinality({f \in Range(s) : f < s[k]}) = k - 1
<1> DEFINE B == {f \in Range(s) : f < s[k]}
           b == [i \in 1..(k - 1) |-> s[i]]
<1>1. /\ Len(s) \in Nat /\ \A i \in 1..Len(s) : s[i] \in Int
      /\ \A x : x \in Range(s) <=> \E i \in 1..Len(s) : x = s[i]
  <2>1. Len(s) \in Nat /\ \A i \in 1..Len(s) : s[i] \in Int
    <3>1. Len(s) \in Nat /\ \A i \in 1..Len(s) : s[i] \in T
      OBVIOUS
    <3> QED BY <3>1
  <2> QED BY <2>1, RangeIs
<1>2. \A i, j \in 1..Len(s) : s[i] < s[j] <=> i < j
  BY <1>1 DEF Increasing
<1>3. b \in Bijection(1..(k - 1), B)
  <2>1. \A i \in 1..(k - 1) : i \in 1..Len(s) /\ b[i] = s[i] /\ s[i] \in B
    BY <1>1, <1>2
  <2>2. \A f \in B : \E i \in 1..(k - 1) : b[i] = f
    <3> SUFFICES ASSUME NEW f \in B PROVE \E i \in 1..(k - 1) : b[i] = f
      OBVIOUS
    <3>1. PICK i \in 1..Len(s) : f = s[i]
      BY <1>1
    <3>2. i < k
      BY <1>2, <3>1
    <3>3. i \in 1..(k - 1)
      BY <1>1, <3>2
    <3> QED BY <2>1, <3>1, <3>3
  <2>3. \A i, j \in 1..(k - 1) : b[i] = b[j] => i = j
    <3> SUFFICES ASSUME NEW i \in 1..(k - 1), NEW j \in 1..(k - 1), b[i] = b[j] PROVE i = j
      OBVIOUS
    <3>1. i \in 1..Len(s) /\ j \in 1..Len(s) /\ s[i] = s[j]
      BY <2>1
    <3> QED BY <1>1, <1>2, <3>1
  <2>4. b \in [1..(k - 1) -> B]
    BY <2>1
  <2> HIDE DEF B, b
  <2> QED BY <2>2, <2>3, <2>4 DEF Injection, Surjection, Bijection, IsInjective
<1> HIDE DEF B, b
<1>4. ExistsBijection(1..(k - 1), B) /\ k - 1 \in Nat
  BY <1>1, <1>3 DEF ExistsBijection
<1>5. Cardinality(B) = k - 1
  BY <1>4, FS_CountingElements
<1> QED BY <1>5 DEF B

\* The newest n are at most n.
LEMMA NewestBound ==
  ASSUME NEW N \in Nat, NEW S \in SUBSET (1..N), NEW n \in Nat \ {0}
  PROVE  /\ Newest(S, n) \subseteq S
         /\ IsFiniteSet(Newest(S, n)) /\ Cardinality(Newest(S, n)) \in Nat
         /\ Cardinality(Newest(S, n)) <= n
<1>1. IsFiniteSet(S)
  <2>1. IsFiniteSet(1..N)
    BY FS_Interval
  <2> QED BY <2>1, FS_Subset
<1>2. PICK M : M = Newest(S, n)
  OBVIOUS
<1>3. M \subseteq S /\ \A e \in M : Cardinality({f \in S : f > e}) < n
  BY <1>2 DEF Newest
<1>4. IsFiniteSet(M) /\ Cardinality(M) \in Nat
  BY <1>1, <1>3, FS_Subset, FS_CardinalityType
<1>5. CASE M = {}
  BY <1>2, <1>3, <1>4, <1>5, FS_EmptySet
<1>6. CASE M # {}
  <2>1. M \in SUBSET Nat
    BY <1>3
  <2>2. Min(M) \in M /\ \A i \in M : Min(M) <= i
    BY <1>6, <2>1, MinIndex
  <2>3. PICK m \in M : \A i \in M : m <= i
    BY <2>2
  <2> DEFINE A == {f \in S : f > m}
  <2>4. M \ {m} \in SUBSET A
    BY <1>3, <2>1, <2>3
  <2>5. IsFiniteSet(A) /\ Cardinality(A) < n /\ Cardinality(A) \in Nat
    BY <1>1, <1>3, FS_Subset, FS_CardinalityType
  <2>6. Cardinality(M \ {m}) <= Cardinality(A)
    BY <2>4, <2>5, FS_Subset
  <2>7. Cardinality(M \ {m}) = Cardinality(M) - 1
    BY <1>4, FS_RemoveElement
  <2> HIDE DEF A
  <2>8. Cardinality(M) <= n
    BY <1>4, <2>5, <2>6, <2>7
  <2> QED BY <1>2, <1>3, <1>4, <2>8
<1> QED BY <1>5, <1>6

-----------------------------------------------------------------------------
(* The ring, the queue and the cursor.                                     *)

\* The record, and the ring beside it: both end with the newest event.
RecordOK ==
  /\ \A k \in 1..Len(ring) : ring[k] = lastId - Len(ring) + k
  /\ Len(ring) = BufferSize \/ Len(ring) >= Len(timeline)
  /\ \A k \in 1..Len(timeline) : timeline[k].id = lastId - Len(timeline) + k
  /\ \A j \in Job : pc[j] = "idle" => seq[j] = 0
  /\ owner # None /\ ~mixed =>
       /\ Len(timeline) = seq[owner]
       /\ \A k \in 1..Len(timeline) : timeline[k].seq = k

LEMMA RingRange ==
  ASSUME lastId \in Nat, ring \in Seq(Id), RecordOK
  PROVE  /\ Range(ring) \subseteq Id
         /\ \A e \in Id : e \in Range(ring) <=> e > lastId - Len(ring)
<1>1. Len(ring) \in Nat /\ \A k \in 1..Len(ring) : ring[k] \in Id /\ ring[k] = lastId - Len(ring) + k
  BY DEF RecordOK
<1>2. \A x : x \in Range(ring) <=> \E i \in 1..Len(ring) : x = ring[i]
  BY RangeIs
<1>3. ASSUME NEW e \in Id, e > lastId - Len(ring) PROVE e \in Range(ring)
  <2>1. PICK k \in 1..Len(ring) : k = e - (lastId - Len(ring))
    <3>1. e - (lastId - Len(ring)) \in 1..Len(ring)
      BY <1>1, <1>3 DEF Id
    <3> QED BY <3>1
  <2>2. ring[k] = e
    BY <1>1, <2>1 DEF Id
  <2> QED BY <1>2, <2>2
<1>4. ASSUME NEW e \in Range(ring) PROVE e \in Id /\ e > lastId - Len(ring)
  BY <1>1, <1>2 DEF Id
<1> QED BY <1>3, <1>4

\* A cursor the ring holds is answered with all that came after it.
LEMMA SinceIs ==
  ASSUME lastId \in Nat, ring \in Seq(Id), RecordOK, NEW c
  PROVE  /\ c \notin Range(ring) => Since(c) = <<>>
         /\ c \in Range(ring) => /\ c \in Id /\ Since(c) \in Seq(Id) /\ Len(Since(c)) = lastId - c
                                 /\ \A k \in 1..Len(Since(c)) : Since(c)[k] = c + k
                                 /\ Range(Since(c)) = (c + 1)..lastId
<1>1. Len(ring) \in Nat /\ \A k \in 1..Len(ring) : ring[k] \in Id /\ ring[k] = lastId - Len(ring) + k
  BY DEF RecordOK
<1>2. \A x : x \in Range(ring) <=> \E i \in 1..Len(ring) : x = ring[i]
  BY RangeIs
<1> DEFINE I == {i \in 1..Len(ring) : ring[i] = c}
<1> DEFINE K == IF I = {} THEN 0 ELSE Min(I)
<1>3. Since(c) = IF K = 0 THEN <<>> ELSE SubSeq(ring, K + 1, Len(ring))
  BY DEF SelectInSeq, Since
<1> HIDE DEF I
<1>4. CASE c \notin Range(ring)
  <2>1. I = {}
    BY <1>2, <1>4 DEF I
  <2>2. Since(c) = <<>>
    BY <1>3, <2>1
  <2> QED BY <1>4, <2>2
<1>5. CASE c \in Range(ring)
  <2>1. I \in SUBSET Nat /\ I # {}
    BY <1>2, <1>5 DEF I
  <2>2. Min(I) \in I
    BY <2>1, MinIndex
  <2>3. PICK k \in 1..Len(ring) : k = Min(I) /\ ring[k] = c
    BY <2>2 DEF I
  <2>4. c = lastId - Len(ring) + k /\ c \in Id
    BY <1>1, <2>3
  <2>5. Since(c) = SubSeq(ring, k + 1, Len(ring))
    <3>1. k # 0
      BY <1>1
    <3>2. K = k
      BY <2>1, <2>3
    <3> QED BY <1>3, <3>1, <3>2
  <2>6. PICK s : s = Since(c)
    OBVIOUS
  <2>7. s \in Seq(Id) /\ Len(s) = Len(ring) - k
    BY <1>1, <2>5, <2>6
  <2>8. \A i \in 1..Len(s) : s[i] = ring[k + i]
    BY <1>1, <2>5, <2>6
  <2>9. Len(s) = lastId - c /\ \A i \in 1..Len(s) : s[i] = c + i
    <3>1. c \in Int /\ k \in 1..Len(ring) /\ Len(ring) \in Nat
      BY <1>1, <2>4 DEF Id
    <3>2. Len(s) = lastId - c
      BY <2>4, <2>7, <3>1
    <3>3. ASSUME NEW i \in 1..Len(s) PROVE s[i] = c + i
      <4>1. k + i \in 1..Len(ring)
        BY <2>7, <3>1
      <4>2. ring[k + i] = lastId - Len(ring) + (k + i)
        BY <1>1, <4>1
      <4> QED BY <2>4, <2>8, <3>1, <4>2
    <3> QED BY <3>2, <3>3
  <2>10. \A x : x \in Range(s) <=> \E i \in 1..Len(s) : x = s[i]
    BY <2>7, RangeIs
  <2>11. \A x \in (c + 1)..lastId : x - c \in 1..Len(s) /\ x = s[x - c]
    <3> SUFFICES ASSUME NEW x \in (c + 1)..lastId PROVE x - c \in 1..Len(s) /\ x = s[x - c]
      OBVIOUS
    <3>1. PICK i \in 1..Len(s) : i = x - c
      <4>1. x - c \in 1..Len(s)
        BY <2>4, <2>9 DEF Id
      <4> QED BY <4>1
    <3>2. s[i] = x
      <4>1. c \in Int /\ x \in Int
        BY <2>4 DEF Id
      <4>2. s[i] = c + i /\ c + i = x
        BY <2>9, <3>1, <4>1
      <4> QED BY <4>2
    <3> QED BY <3>1, <3>2
  <2>12. ASSUME NEW i \in 1..Len(s) PROVE s[i] \in (c + 1)..lastId
    <3>1. c \in Int /\ i \in Int /\ 1 <= i /\ i <= lastId - c /\ s[i] = c + i
      BY <2>4, <2>9 DEF Id
    <3> QED BY <1>1, <3>1
  <2>13. Range(s) = (c + 1)..lastId
    BY <2>10, <2>11, <2>12
  <2> QED BY <1>5, <2>4, <2>6, <2>7, <2>9, <2>13
<1> QED BY <1>4, <1>5

\* A drain takes the oldest of what is asked for, in order, up to its limit.
LEMMA OldestIs ==
  ASSUME lastId \in Nat, NEW S \in SUBSET Id, NEW limit \in Nat \ {0}
  PROVE  /\ Oldest(S, limit) \in Seq(Id) /\ Increasing(Oldest(S, limit))
         /\ Range(Oldest(S, limit)) \subseteq S
         /\ \A e \in S \ Range(Oldest(S, limit)) : Cardinality({f \in S : f < e}) >= limit
<1>1. PICK a : a = [k \in Id |-> k]
  OBVIOUS
<1>2. a \in Seq(Id) /\ Len(a) = lastId /\ \A k \in 1..Len(a) : a[k] = k
  BY <1>1 DEF Id
<1>3. \A x : x \in Range(a) <=> \E i \in 1..Len(a) : x = a[i]
  BY <1>2, RangeIs
<1>4. Range(a) = Id /\ Increasing(a) /\ Id \in SUBSET Int
  <2>1. \A x : x \in Id <=> x \in 1..Len(a)
    BY <1>2 DEF Id
  <2>2. Range(a) = Id
    <3>1. ASSUME NEW x PROVE x \in Range(a) <=> x \in Id
      BY <1>2, <1>3, <2>1
    <3> QED BY <3>1
  <2>3. Increasing(a)
    BY <1>2 DEF Increasing
  <2> QED BY <2>2, <2>3 DEF Id
<1>5. PICK s : s = Kept(a, S)
  OBVIOUS
<1>6. s \in Seq(Id) /\ Range(s) = S /\ Increasing(s)
  <2>1. s \in Seq(Id) /\ Range(s) = Range(a) \cap S
    BY <1>2, <1>5, KeptRange
  <2>2. Increasing(Kept(a, S))
    BY <1>2, <1>4, KeptIncreasing
  <2> QED BY <1>4, <1>5, <2>1, <2>2
<1>7. PICK q : q = Oldest(S, limit)
  OBVIOUS
<1>8. PICK m \in 0..Len(s) : m = IF Len(s) < limit THEN Len(s) ELSE limit
  BY <1>6
<1>9. q = SubSeq(s, 1, m)
  BY <1>1, <1>5, <1>7, <1>8 DEF Oldest
<1>10. q \in Seq(Id) /\ Len(q) = m /\ \A k \in 1..Len(q) : k \in 1..Len(s) /\ q[k] = s[k]
  BY <1>6, <1>8, <1>9
<1>11. Increasing(q)
  BY <1>6, <1>10 DEF Increasing
<1>12. /\ \A x : x \in Range(q) <=> \E i \in 1..Len(q) : x = q[i]
       /\ \A x : x \in Range(s) <=> \E i \in 1..Len(s) : x = s[i]
  BY <1>6, <1>10, RangeIs
<1>13. Range(q) \subseteq S
  BY <1>6, <1>10, <1>12
<1>14. ASSUME NEW e \in S \ Range(q) PROVE Cardinality({f \in S : f < e}) >= limit
  <2>1. PICK k \in 1..Len(s) : e = s[k]
    BY <1>6, <1>12
  <2>2. k \notin 1..Len(q)
    BY <1>10, <1>12, <2>1
  <2>3. k > limit
    BY <1>6, <1>8, <1>10, <2>2
  <2>4. Cardinality({f \in Range(s) : f < s[k]}) = k - 1
    BY <1>4, <1>6, Rank
  <2> QED BY <1>6, <2>1, <2>3, <2>4
<1> QED BY <1>7, <1>10, <1>11, <1>13, <1>14

\* What the ring did not already replay.
LEMMA DrainedIs ==
  ASSUME lastId \in Nat, fetched \in [Tab -> Seq(Id)], NEW t \in Tab
  PROVE  /\ Drained(t) \in Seq(Id)
         /\ Range(Drained(t)) = Range(fetched[t]) \ Range(replay[t])
         /\ Increasing(fetched[t]) => Increasing(Drained(t))
<1>1. PICK s : s = fetched[t]
  OBVIOUS
<1>2. PICK S : S = Id \ Range(replay[t])
  OBVIOUS
<1>3. s \in Seq(Id) /\ Id \in SUBSET Int
  BY <1>1 DEF Id
<1>4. Range(s) \subseteq Id
  BY <1>3, RangeIs
<1>5. Kept(s, S) \in Seq(Id) /\ Range(Kept(s, S)) = Range(s) \cap S
  BY <1>3, KeptRange
<1>6. Increasing(s) => Increasing(Kept(s, S))
  BY <1>3, KeptIncreasing
<1>7. Drained(t) = Kept(s, S)
  BY <1>1, <1>2 DEF Drained
<1> QED BY <1>1, <1>2, <1>4, <1>5, <1>6, <1>7

\* A cursor is the newest event its tab has heard.
LEMMA CursorIs ==
  ASSUME lastId \in Nat, got \in [Tab -> Seq(Id)], NEW t \in Tab
  PROVE  /\ Has(t) \subseteq Id
         /\ Cursor(t) # None => Cursor(t) \in 0..lastId
         /\ got[t] # <<>> => Cursor(t) = got[t][Len(got[t])] /\ Cursor(t) \in Has(t)
         /\ Increasing(got[t]) /\ Cursor(t) # None => \A e \in Has(t) : e <= Cursor(t)
<1>1. got[t] \in Seq(Id) /\ Len(got[t]) \in Nat /\ \A k \in 1..Len(got[t]) : got[t][k] \in Id
  OBVIOUS
<1>2. \A x : x \in Has(t) <=> \E i \in 1..Len(got[t]) : x = got[t][i]
  BY <1>1, RangeIs DEF Has
<1>3. got[t] # <<>> => Len(got[t]) \in 1..Len(got[t])
  BY <1>1
<1>4. got[t] # <<>> => Cursor(t) = got[t][Len(got[t])]
  BY DEF Cursor, Last
<1>5. got[t] = <<>> => Has(t) = {} /\ Cursor(t) \in {None, 0}
  <2>1. FirstCursor[t] \in {None, 0}
    BY ConstantsAssumption DEF MIN_EVENT_ID
  <2> QED BY <1>2, <2>1 DEF Cursor
<1>6. Id \subseteq 0..lastId /\ 0 \in 0..lastId
  BY DEF Id
<1>7. Has(t) \subseteq Id
  BY <1>1, <1>2
<1>8. got[t] # <<>> => Cursor(t) \in Has(t)
  BY <1>2, <1>3, <1>4
<1>9. Cursor(t) # None => Cursor(t) \in 0..lastId
  BY <1>5, <1>6, <1>7, <1>8
<1>10. ASSUME Increasing(got[t]), Cursor(t) # None, NEW e \in Has(t) PROVE e <= Cursor(t)
  <2>1. PICK k \in 1..Len(got[t]) : e = got[t][k]
    BY <1>2
  <2>2. got[t] # <<>>
    BY <2>1, <1>1
  <2>3. k = Len(got[t]) \/ got[t][k] < got[t][Len(got[t])]
    BY <1>1, <1>3, <1>10, <2>1, <2>2 DEF Increasing
  <2> QED BY <1>1, <1>3, <1>4, <2>1, <2>2, <2>3 DEF Id
<1> QED BY <1>4, <1>7, <1>8, <1>9, <1>10

-----------------------------------------------------------------------------
(* Types.                                                                  *)

Payload == [seq : Nat \ {0}, type : {"burst", "offline"}]

LEMMA InitTypes == Init => TypeOK
<1> SUFFICES ASSUME Init PROVE TypeOK
  OBVIOUS
<1>1. Id = {} /\ lastId = 0
  BY DEF Init, Id
<1>2. Cardinality(queue) <= MaxPerUser
  BY ConstantsAssumption, FS_EmptySet DEF Init
<1>3. Len(ring) <= BufferSize
  BY ConstantsAssumption DEF Init
<1>4. view \in [Job -> [emissions : Seq(Entry), retained : Seq(Entry), evicted : Seq(Entry),
                        offlineQueued : SUBSET Nat, shared : BOOLEAN]]
  BY DEF Init, NoView
<1>5. data \in [Id -> [seq : Nat \ {0}, type : {"burst", "offline"}]]
  BY <1>1 DEF Init
<1>6. /\ ring \in Seq(Id) /\ timeline \in Seq(Entry) /\ wire \in Seq(Command)
      /\ replay \in [Tab -> Seq(Id)] /\ fetched \in [Tab -> Seq(Id)] /\ got \in [Tab -> Seq(Id)]
  BY DEF Init
<1>7. /\ enabled \in BOOLEAN /\ lastId \in Nat /\ owner \in Job \cup {None} /\ mixed \in BOOLEAN
      /\ stage \in [Tab -> {"none", "reading", "fetched", "open"}] /\ connects \in [Tab -> Nat]
      /\ pc \in [Job -> {"idle", "running", "reading", "done"}] /\ seq \in [Job -> Nat]
      /\ crashes \in Nat /\ expiries \in Nat
  BY DEF Init
<1>8. /\ queue \subseteq Id /\ purging \subseteq [by : Tab \cup {None}, ids : SUBSET Id]
      /\ closing \in [Job -> SUBSET (Tab \X Nat)] /\ unqueued \subseteq Id /\ drained \subseteq Id
      /\ forgone \in [Tab -> SUBSET Id]
  BY DEF Init
<1> QED BY <1>2, <1>3, <1>4, <1>5, <1>6, <1>7, <1>8 DEF TypeOK

\* An event is a new id; it goes to the ring, and to the streams or the queue.
LEMMA EmitTypes ==
  ASSUME TypeOK, NEW p \in Payload, EmitToUser(p)
  PROVE  /\ lastId' = lastId + 1 /\ Id \subseteq Id'
         /\ ring' \in Seq(Id') /\ Len(ring') <= BufferSize
         /\ data' \in [Id' -> Payload]
         /\ got' \in [Tab -> Seq(Id')] /\ wire' \in Seq(Command')
         /\ unqueued' \subseteq Id' /\ forgone' \in [Tab -> SUBSET Id']
<1>1. /\ lastId' = lastId + 1 /\ lastId \in Nat /\ Id \subseteq Id'
      /\ lastId + 1 \in Id' /\ \A e \in Id' : e \in Id \/ e = lastId + 1
  <2>1. lastId' = lastId + 1 /\ lastId \in Nat
    BY DEF EmitToUser, TypeOK
  <2>2. Id = 1..lastId /\ Id' = 1..(lastId + 1)
    BY <2>1 DEF Id
  <2> QED BY <2>1, <2>2
<1>2. ring' \in Seq(Id') /\ Len(ring') <= BufferSize
  <2>1. ring \in Seq(Id') /\ Len(ring) <= BufferSize /\ BufferSize \in Nat \ {0}
    BY <1>1, SeqGrows, ConstantsAssumption DEF TypeOK
  <2>2. PICK r : r = Append(ring, lastId + 1)
    OBVIOUS
  <2>3. r \in Seq(Id') /\ Len(r) = Len(ring) + 1 /\ Len(ring) \in Nat
    BY <1>1, <2>1, <2>2
  <2>4. ring' = Suffix(r, BufferSize)
    BY <2>2 DEF EmitToUser
  <2>5. CASE Len(r) <= BufferSize
    BY <2>3, <2>4, <2>5 DEF Suffix
  <2>6. CASE ~(Len(r) <= BufferSize)
    <3>1. ring' = SubSeq(r, Len(r) - BufferSize + 1, Len(r))
      BY <2>4, <2>6 DEF Suffix
    <3> QED BY <2>1, <2>3, <2>6, <3>1
  <2> QED BY <2>5, <2>6
<1>3. data' \in [Id' -> Payload]
  <2>1. data \in [1..lastId -> Payload] /\ data' = Append(data, p)
    BY DEF TypeOK, EmitToUser, Id, Payload
  <2>2. data \in Seq(Payload) /\ Len(data) = lastId
    BY <1>1, <2>1
  <2>3. data' \in Seq(Payload) /\ Len(data') = lastId + 1
    BY <2>1, <2>2
  <2> QED BY <1>1, <2>3 DEF Id
<1>4. got' \in [Tab -> Seq(Id')]
  <2>1. \A t \in Tab : got[t] \in Seq(Id')
    BY <1>1, SeqGrows DEF TypeOK
  <2>2. \A t \in Tab : Append(got[t], lastId + 1) \in Seq(Id')
    BY <1>1, <2>1
  <2> QED BY <2>1, <2>2 DEF EmitToUser
<1>5. Command \subseteq Command'
  BY <1>1 DEF Command
<1>6. wire' \in Seq(Command')
  <2>1. wire \in Seq(Command')
    BY <1>5, SeqGrows DEF TypeOK
  <2>2. [op |-> "append", id |-> lastId + 1] \in Command'
    BY <1>1 DEF Command
  <2>3. Append(wire, [op |-> "append", id |-> lastId + 1]) \in Seq(Command')
    BY <2>1, <2>2
  <2> QED BY <2>1, <2>3 DEF EmitToUser, Send
<1>7. unqueued' \subseteq Id'
  BY <1>1 DEF EmitToUser, TypeOK
<1>8. forgone' \in [Tab -> SUBSET Id']
  BY <1>1 DEF EmitToUser, Forgo, TypeOK
<1> QED BY <1>1, <1>2, <1>3, <1>4, <1>6, <1>7, <1>8

LEMMA BurstTypes ==
  ASSUME TypeOK, NEW j \in Job, ReplayBurst(j) \/ OfflineEmit(j)
  PROVE  TypeOK'
<1>1. Burst(j) /\ Kind[j] \in {"burst", "offline"}
  BY DEF ReplayBurst, OfflineEmit
<1>2. PICK p, n, entry : /\ n = seq[j] + 1 /\ p = [seq |-> n, type |-> Kind[j]]
                         /\ entry = [seq |-> n, id |-> lastId + 1]
  OBVIOUS
<1>3. n \in Nat \ {0} /\ p \in Payload
  BY <1>1, <1>2 DEF TypeOK, Payload
<1>4. EmitToUser(p)
  BY <1>1, <1>2 DEF Burst
<1>5. /\ lastId' = lastId + 1 /\ Id \subseteq Id'
      /\ ring' \in Seq(Id') /\ Len(ring') <= BufferSize
      /\ data' \in [Id' -> Payload]
      /\ got' \in [Tab -> Seq(Id')] /\ wire' \in Seq(Command')
      /\ unqueued' \subseteq Id' /\ forgone' \in [Tab -> SUBSET Id']
  BY <1>3, <1>4, EmitTypes
<1>6. lastId' \in Nat /\ Entry \subseteq Entry' /\ entry \in Entry'
  BY <1>2, <1>3, <1>5 DEF TypeOK, Entry, Id
<1>7. \A s \in Seq(Entry) : s \in Seq(Entry') /\ Append(s, entry) \in Seq(Entry')
  BY <1>6
<1>8. timeline' = <<entry>> \/ timeline' = Append(timeline, entry)
  BY <1>1, <1>2 DEF Burst, Restart, Push
<1>9. timeline' \in Seq(Entry')
  <2>1. timeline \in Seq(Entry) /\ <<entry>> \in Seq(Entry')
    BY <1>6 DEF TypeOK
  <2> QED BY <1>7, <1>8, <2>1
<1> DEFINE View == [emissions : Seq(Entry), retained : Seq(Entry), evicted : Seq(Entry),
                    offlineQueued : SUBSET Nat, shared : BOOLEAN]
<1>10. view' \in [Job -> View']
  <2>1. \A v \in Job : view[v] \in View'
    BY <1>7 DEF TypeOK
  <2>2. \A v \in Job : [view[v] EXCEPT !.shared = FALSE] \in View'
    BY <2>1
  <2>3. \A v \in Job : Append(view[v].emissions, entry) \in Seq(Entry')
    BY <1>7 DEF TypeOK
  <2>4. \A v \in Job : [view[v] EXCEPT !.emissions = Append(@, entry)] \in View'
    BY <2>1, <2>3
  <2>5. \/ view' = [v \in Job |-> [view[v] EXCEPT !.shared = FALSE]]
        \/ view' = [v \in Job |-> IF view[v].shared /\ pc[v] = "reading"
                                  THEN [view[v] EXCEPT !.emissions = Append(@, entry)]
                                  ELSE view[v]]
    BY <1>1, <1>2 DEF Burst, Restart, Push
  <2> HIDE DEF View
  <2> QED BY <2>1, <2>2, <2>4, <2>5
<1>11. /\ pc' \in [Job -> {"idle", "running", "reading", "done"}] /\ seq' \in [Job -> Nat]
       /\ owner' \in Job \cup {None} /\ mixed' \in BOOLEAN
  <2>1. seq' \in [Job -> Nat] /\ pc' \in [Job -> {"idle", "running", "reading", "done"}]
    BY <1>1, <1>2, <1>3 DEF Burst, TypeOK, SetJob
  <2>2. owner' \in Job \cup {None}
    BY <1>1 DEF Burst, TypeOK
  <2>3. mixed' \in BOOLEAN
    BY <1>1 DEF Burst, TypeOK
  <2> QED BY <2>1, <2>2, <2>3
<1>12. /\ replay' \in [Tab -> Seq(Id')] /\ fetched' \in [Tab -> Seq(Id')]
       /\ queue' \subseteq Id' /\ Cardinality(queue') <= MaxPerUser /\ drained' \subseteq Id'
       /\ purging' \subseteq [by : Tab \cup {None}, ids : SUBSET Id']
  <2>1. \A q \in Seq(Id) : q \in Seq(Id')
    BY <1>5
  <2>2. replay' = replay /\ fetched' = fetched /\ queue' = queue /\ drained' = drained /\ purging' = purging
    BY <1>1 DEF Burst, burstRest, handshakeVars
  <2>3. [by : Tab \cup {None}, ids : SUBSET Id] \subseteq [by : Tab \cup {None}, ids : SUBSET Id']
    BY <1>5
  <2> QED BY <1>5, <2>1, <2>2, <2>3 DEF TypeOK
<1>13. /\ enabled' \in BOOLEAN /\ stage' \in [Tab -> {"none", "reading", "fetched", "open"}]
       /\ connects' \in [Tab -> Nat] /\ closing' \in [Job -> SUBSET (Tab \X Nat)]
       /\ crashes' \in Nat /\ expiries' \in Nat
  BY <1>1 DEF Burst, burstRest, handshakeVars, TypeOK
<1> QED BY <1>5, <1>6, <1>9, <1>10, <1>11, <1>12, <1>13 DEF TypeOK, Payload

LEMMA ConnectTypes ==
  ASSUME TypeOK, RecordOK, NEW t \in Tab, ConnectAtOnce(t) \/ Connect(t)
  PROVE  TypeOK'
<1>1. lastId' = lastId /\ Id' = Id /\ Command' = Command /\ Entry' = Entry
  BY DEF ConnectAtOnce, Connect, openRest, memoryVars, Id, Command, Entry
<1>2. lastId \in Nat /\ ring \in Seq(Id)
  BY DEF TypeOK
<1>3. Since(Cursor(t)) \in Seq(Id)
  <2>1. \A c : c \notin Range(ring) => Since(c) = <<>>
    BY <1>2, SinceIs
  <2>2. \A c : c \in Range(ring) => Since(c) \in Seq(Id)
    BY <1>2, SinceIs
  <2>3. <<>> \in Seq(Id)
    OBVIOUS
  <2>4. \A c : Since(c) \in Seq(Id)
    BY <2>1, <2>2, <2>3
  <2> QED BY <2>4
<1>4. CASE ConnectAtOnce(t)
  <2>1. got[t] \o Since(Cursor(t)) \in Seq(Id)
    BY <1>3 DEF TypeOK
  <2>2. got' \in [Tab -> Seq(Id)]
    BY <1>4, <2>1 DEF ConnectAtOnce, TypeOK
  <2>3. forgone' \in [Tab -> SUBSET Id]
    BY <1>4 DEF ConnectAtOnce, TypeOK, Forgo, Slipped, Id
  <2>4. stage' \in [Tab -> {"none", "reading", "fetched", "open"}] /\ connects' \in [Tab -> Nat]
    <3>1. stage \in [Tab -> {"none", "reading", "fetched", "open"}] /\ connects \in [Tab -> Nat]
      BY DEF TypeOK
    <3>2. /\ stage' \in [Tab -> {"none", "reading", "fetched", "open"}]
          /\ connects' = [connects EXCEPT ![t] = @ + 1]
      BY <1>4, <3>1 DEF ConnectAtOnce
    <3> QED BY <3>1, <3>2
  <2>5. UNCHANGED <<openRest, replay, fetched, wire, drained>>
    BY <1>4 DEF ConnectAtOnce
  <2> QED BY <1>1, <2>2, <2>3, <2>4, <2>5
         DEF TypeOK, openRest, memoryVars, jobVars, historyVars
<1>5. CASE Connect(t)
  <2>1. replay' \in [Tab -> Seq(Id)]
    BY <1>3, <1>5 DEF Connect, TypeOK
  <2>2. forgone' \in [Tab -> SUBSET Id]
    BY <1>5 DEF Connect, TypeOK, Forgo, Slipped
  <2>3. stage' \in [Tab -> {"none", "reading", "fetched", "open"}] /\ connects' \in [Tab -> Nat]
    <3>1. stage \in [Tab -> {"none", "reading", "fetched", "open"}] /\ connects \in [Tab -> Nat]
      BY DEF TypeOK
    <3>2. /\ stage' \in [Tab -> {"none", "reading", "fetched", "open"}]
          /\ connects' = [connects EXCEPT ![t] = @ + 1]
      BY <1>5, <3>1 DEF Connect
    <3> QED BY <3>1, <3>2
  <2>4. wire' \in Seq(Command)
    <3>1. [op |-> "retrieve", tab |-> t] \in Command
      BY DEF Command
    <3>2. wire \in Seq(Command) /\ wire' = Append(wire, [op |-> "retrieve", tab |-> t])
      BY <1>5 DEF Connect, Send, TypeOK
    <3> QED BY <3>1, <3>2
  <2>5. UNCHANGED <<openRest, fetched, got, drained>>
    BY <1>5 DEF Connect
  <2> QED BY <1>1, <2>1, <2>2, <2>3, <2>4, <2>5
         DEF TypeOK, openRest, memoryVars, jobVars, historyVars
<1> QED BY <1>4, <1>5

LEMMA OpenedTypes ==
  ASSUME TypeOK, NEW t \in Tab, Opened(t)
  PROVE  TypeOK'
<1>1. lastId' = lastId /\ Id' = Id /\ Command' = Command /\ Entry' = Entry
  BY DEF Opened, openRest, memoryVars, Id, Command, Entry
<1>2. PICK d : d = Drained(t)
  OBVIOUS
<1>3. d \in Seq(Id) /\ Range(d) \subseteq Id
  <2>1. d \in Seq(Id)
    BY <1>2, DrainedIs DEF TypeOK
  <2> QED BY <2>1, RangeIs
<1>4. got' \in [Tab -> Seq(Id)]
  <2>1. got[t] \o replay[t] \o d \in Seq(Id)
    BY <1>3 DEF TypeOK
  <2> QED BY <1>2, <2>1 DEF Opened, TypeOK
<1>5. /\ stage' \in [Tab -> {"none", "reading", "fetched", "open"}]
      /\ replay' \in [Tab -> Seq(Id)] /\ fetched' \in [Tab -> Seq(Id)]
  BY DEF Opened, TypeOK
<1>6. drained' \subseteq Id
  BY <1>2, <1>3 DEF Opened, TypeOK
<1>7. wire' \in Seq(Command)
  <2>1. CASE d # <<>>
    <3>1. Last(d) \in Id
      BY <1>3, <2>1 DEF Last
    <3>2. [op |-> "ack", by |-> t, upTo |-> Last(d)] \in Command
      BY <3>1 DEF Command
    <3>3. /\ wire \in Seq(Command)
          /\ wire' = Append(wire, [op |-> "ack", by |-> t, upTo |-> Last(d)])
      BY <1>2, <2>1 DEF Opened, Send, TypeOK
    <3> QED BY <3>2, <3>3
  <2>2. CASE d = <<>>
    BY <1>2, <2>2 DEF Opened, TypeOK
  <2> QED BY <2>1, <2>2
<1>8. UNCHANGED <<openRest, connects, forgone>>
  BY DEF Opened
<1> QED BY <1>1, <1>4, <1>5, <1>6, <1>7, <1>8
       DEF TypeOK, openRest, memoryVars, jobVars, historyVars

\* The requests that emit nothing.
LEMMA RequestTypes ==
  ASSUME TypeOK, NEW j \in Job,
         OfflineRefused(j) \/ Drop(j) \/ DropOne(j) \/ Acknowledge(j) \/ Timeline(j)
  PROVE  TypeOK'
<1>1. lastId' = lastId /\ Id' = Id /\ Command' = Command /\ Entry' = Entry
  BY DEF OfflineRefused, Drop, DropOne, Acknowledge, Timeline, dropRest, redisRest, memoryVars,
         Id, Command, Entry
<1>2. /\ pc \in [Job -> {"idle", "running", "reading", "done"}]
      /\ closing \in [Job -> SUBSET (Tab \X Nat)] /\ wire \in Seq(Command)
      /\ stage \in [Tab -> {"none", "reading", "fetched", "open"}] /\ connects \in [Tab -> Nat]
  BY DEF TypeOK
<1>3. CASE OfflineRefused(j)
  <2>1. pc' \in [Job -> {"idle", "running", "reading", "done"}]
    BY <1>2, <1>3 DEF OfflineRefused, SetJob
  <2>2. UNCHANGED <<burstRest, memoryVars, wire, seq, view, got, historyVars, forgone>>
    BY <1>3 DEF OfflineRefused
  <2> QED BY <1>1, <2>1, <2>2 DEF TypeOK, burstRest, handshakeVars, memoryVars, historyVars
<1>4. CASE Drop(j)
  <2>1. pc' \in [Job -> {"idle", "running", "reading", "done"}]
    BY <1>2, <1>4 DEF Drop, SetJob
  <2>2. closing' \in [Job -> SUBSET (Tab \X Nat)]
    BY <1>2, <1>4 DEF Drop, Live
  <2>3. UNCHANGED <<dropRest, stage>>
    BY <1>4 DEF Drop
  <2> QED BY <1>1, <2>1, <2>2, <2>3 DEF TypeOK, dropRest, memoryVars, historyVars
<1>5. CASE DropOne(j)
  <2>1. pc' \in [Job -> {"idle", "running", "reading", "done"}]
    BY <1>2, <1>5 DEF DropOne, SetJob
  <2>2. /\ closing' \in [Job -> SUBSET (Tab \X Nat)]
        /\ stage' \in [Tab -> {"none", "reading", "fetched", "open"}]
    BY <1>2, <1>5 DEF DropOne
  <2>3. UNCHANGED dropRest
    BY <1>5 DEF DropOne
  <2> QED BY <1>1, <2>1, <2>2, <2>3 DEF TypeOK, dropRest, memoryVars, historyVars
<1>6. CASE Acknowledge(j)
  <2>1. pc' \in [Job -> {"idle", "running", "reading", "done"}]
    BY <1>2, <1>6 DEF Acknowledge, SetJob
  <2>2. wire' \in Seq(Command)
    <3>1. PICK e \in Id : wire' = Append(wire, [op |-> "ack", by |-> None, upTo |-> e])
      BY <1>6 DEF Acknowledge, Send, Id
    <3>2. [op |-> "ack", by |-> None, upTo |-> e] \in Command
      BY DEF Command
    <3> QED BY <1>2, <3>1, <3>2, AppendRange, Zenon
  <2>3. UNCHANGED <<redisRest, view, stage, fetched, queue, purging, forgone>>
    BY <1>6 DEF Acknowledge
  <2> QED BY <1>1, <2>1, <2>2, <2>3 DEF TypeOK, redisRest, memoryVars, historyVars
<1>7. CASE Timeline(j)
  <2>1. pc' \in [Job -> {"idle", "running", "reading", "done"}]
    BY <1>2, <1>7 DEF Timeline, SetJob
  <2>2. wire' \in Seq(Command)
    <3>1. wire' = wire \/ wire' = Append(wire, [op |-> "peek", job |-> j])
      BY <1>7 DEF Timeline, Send
    <3>2. [op |-> "peek", job |-> j] \in Command
      BY DEF Command
    <3>3. Append(wire, [op |-> "peek", job |-> j]) \in Seq(Command)
      BY <1>2, <3>2, AppendRange, Zenon
    <3> QED BY <1>2, <3>1, <3>3, Zenon
  <2>3. UNCHANGED <<burstRest, memoryVars, seq, got, historyVars, forgone>>
    BY <1>7 DEF Timeline
  <2> DEFINE View == [emissions : Seq(Entry), retained : Seq(Entry), evicted : Seq(Entry),
                      offlineQueued : SUBSET Nat, shared : BOOLEAN]
  <2>4. view' \in [Job -> View]
    <3>1. timeline \in Seq(Entry) /\ view \in [Job -> View] /\ BufferSize \in Nat
      BY ConstantsAssumption DEF TypeOK
    <3>2. PICK cut \in 0..Len(timeline) :
                 view' = [view EXCEPT ![j] = [emissions |-> timeline, shared |-> timeline # <<>>,
                                  evicted |-> SubSeq(timeline, 1, cut),
                                  retained |-> SubSeq(timeline, cut + 1, Len(timeline)),
                                  offlineQueued |-> {}]]
      <4>1. (IF Len(timeline) > BufferSize THEN Len(timeline) - BufferSize ELSE 0) \in 0..Len(timeline)
        BY <3>1
      <4> QED BY <1>7, <4>1 DEF Timeline
    <3>3. SubSeq(timeline, 1, cut) \in Seq(Entry) /\ SubSeq(timeline, cut + 1, Len(timeline)) \in Seq(Entry)
      BY <3>1
    <3>4. [emissions |-> timeline, shared |-> timeline # <<>>, evicted |-> SubSeq(timeline, 1, cut),
           retained |-> SubSeq(timeline, cut + 1, Len(timeline)), offlineQueued |-> {}] \in View
      <4>1. (timeline # <<>>) \in BOOLEAN
        OBVIOUS
      <4> QED BY <3>1, <3>3, <4>1
    <3> HIDE DEF View
    <3> QED BY <3>1, <3>2, <3>4
  <2> QED BY <1>1, <2>1, <2>2, <2>3, <2>4
         DEF TypeOK, burstRest, handshakeVars, memoryVars, historyVars
<1> QED BY <1>3, <1>4, <1>5, <1>6, <1>7

\* What Redis runs next.
LEMMA HeadTypes ==
  ASSUME TypeOK, wire # <<>>
  PROVE  /\ Head(wire) = wire[1] /\ Head(wire) \in Command /\ Tail(wire) \in Seq(Command)
         /\ Len(Tail(wire)) = Len(wire) - 1 /\ Len(wire) \in Nat \ {0}
         /\ \A k \in 1..Len(Tail(wire)) : k + 1 \in 1..Len(wire) /\ Tail(wire)[k] = wire[k + 1]
<1>1. wire \in Seq(Command)
  BY DEF TypeOK
<1> QED BY <1>1

LEMMA CommandTypes ==
  ASSUME NEW c \in Command
  PROVE  /\ c.op = "append" => c.id \in Id
         /\ c.op = "retrieve" => c.tab \in Tab
         /\ c.op = "ack" => c.by \in Tab \cup {None} /\ c.upTo \in Id
         /\ c.op = "peek" => c.job \in Job
BY DEF Command

LEMMA RedisTypes ==
  ASSUME TypeOK, Redis
  PROVE  TypeOK'
<1>1. lastId' = lastId /\ Id' = Id /\ Command' = Command /\ Entry' = Entry
  BY DEF Redis, redisRest, memoryVars, Id, Command, Entry
<1>2. PICK c : c = Head(wire)
  OBVIOUS
<1>3. c \in Command /\ wire' \in Seq(Command)
  BY <1>2, HeadTypes DEF Redis
<1>4. UNCHANGED redisRest
  BY DEF Redis
<1>5. lastId \in Nat /\ queue \subseteq Id /\ Cardinality(queue) <= MaxPerUser
  BY DEF TypeOK
<1>6. CASE c.op = "append" /\ append(c)
  <2>1. PICK all : all = queue \cup {c.id}
    OBVIOUS
  <2>2. all \in SUBSET (1..lastId) /\ MaxPerUser \in Nat \ {0}
    BY <1>3, <1>5, <1>6, <2>1, CommandTypes, ConstantsAssumption DEF Id
  <2>3. /\ Newest(all, MaxPerUser) \subseteq all
        /\ Cardinality(Newest(all, MaxPerUser)) <= MaxPerUser
    BY <1>5, <2>2, NewestBound
  <2>4. queue' \subseteq Id /\ Cardinality(queue') <= MaxPerUser
    BY <1>6, <2>1, <2>2, <2>3 DEF append, Trim, Id
  <2>5. forgone' \in [Tab -> SUBSET Id]
    <3>1. all \subseteq Id
      BY <2>2 DEF Id
    <3> QED BY <1>6, <2>1, <3>1 DEF append, Forgo, TypeOK
  <2>6. UNCHANGED <<stage, fetched, purging, pc, view>>
    BY <1>6 DEF append
  <2> QED BY <1>1, <1>3, <1>4, <2>4, <2>5, <2>6 DEF TypeOK, redisRest, memoryVars, historyVars
<1>7. CASE c.op = "retrieve" /\ retrieve(c)
  <2>1. c.tab \in Tab
    BY <1>3, <1>7, CommandTypes
  <2>2. retrieveSince(Cursor(c.tab), RetrieveLimit) \in Seq(Id)
    <3>1. PICK S : S = {e \in queue : e > Cursor(c.tab)}
      OBVIOUS
    <3>2. S \in SUBSET Id /\ RetrieveLimit \in Nat \ {0}
      BY <1>5, <3>1, ConstantsAssumption
    <3>3. Oldest(S, RetrieveLimit) \in Seq(Id)
      BY <1>5, <3>2, OldestIs
    <3> QED BY <3>1, <3>3 DEF retrieveSince
  <2>3. fetched' \in [Tab -> Seq(Id)]
    BY <1>7, <2>2 DEF retrieve, TypeOK
  <2>4. stage' \in [Tab -> {"none", "reading", "fetched", "open"}]
    <3>1. stage \in [Tab -> {"none", "reading", "fetched", "open"}]
      BY DEF TypeOK
    <3> QED BY <1>7, <3>1 DEF retrieve
  <2>5. forgone' \in [Tab -> SUBSET Id]
    BY <1>5, <1>7 DEF retrieve, Forgo, TypeOK
  <2>6. UNCHANGED <<queue, purging, pc, view>>
    BY <1>7 DEF retrieve
  <2> QED BY <1>1, <1>3, <1>4, <2>3, <2>4, <2>5, <2>6
         DEF TypeOK, redisRest, memoryVars, historyVars
<1>8. CASE c.op = "ack" /\ acknowledge(c)
  <2>1. c.by \in Tab \cup {None}
    BY <1>3, <1>8, CommandTypes
  <2>2. purging' \subseteq [by : Tab \cup {None}, ids : SUBSET Id]
    <3>1. [by |-> c.by, ids |-> covered(c.upTo)] \in [by : Tab \cup {None}, ids : SUBSET Id]
      BY <1>5, <2>1 DEF covered
    <3>2. purging' \subseteq purging \cup {[by |-> c.by, ids |-> covered(c.upTo)]}
      BY <1>8 DEF acknowledge
    <3>3. purging \subseteq [by : Tab \cup {None}, ids : SUBSET Id]
      BY DEF TypeOK
    <3> QED BY <3>1, <3>2, <3>3
  <2>3. UNCHANGED <<queue, stage, fetched, pc, view, forgone>>
    BY <1>8 DEF acknowledge
  <2> QED BY <1>1, <1>3, <1>4, <2>2, <2>3 DEF TypeOK, redisRest, memoryVars, historyVars
<1>9. CASE c.op = "peek" /\ readQueue(c)
  <2>1. c.job \in Job
    BY <1>3, <1>9, CommandTypes
  <2> DEFINE View == [emissions : Seq(Entry), retained : Seq(Entry), evicted : Seq(Entry),
                      offlineQueued : SUBSET Nat, shared : BOOLEAN]
             read == {readSeq(e) : e \in Range(retrieveSince(MIN_EVENT_ID, PEEK_LIMIT))}
  <2>2. read \subseteq Nat
    <3>1. PICK S : S = {e \in queue : e > MIN_EVENT_ID}
      OBVIOUS
    <3>2. S \in SUBSET Id /\ PEEK_LIMIT \in Nat \ {0}
      BY <1>5, <3>1, ConstantsAssumption
    <3>3. Range(Oldest(S, PEEK_LIMIT)) \subseteq S
      BY <1>5, <3>2, OldestIs
    <3>4. \A e \in Id : readSeq(e) \in Nat
      BY DEF readSeq, TypeOK
    <3> QED BY <3>1, <3>2, <3>3, <3>4 DEF retrieveSince
  <2>3. view' = [view EXCEPT ![c.job].offlineQueued = read]
    BY <1>9 DEF readQueue
  <2> HIDE DEF read
  <2>4. view' \in [Job -> View]
    <3>1. view \in [Job -> View]
      BY DEF TypeOK
    <3>2. [view[c.job] EXCEPT !.offlineQueued = read] \in View
      BY <2>1, <2>2, <3>1
    <3> HIDE DEF View
    <3> QED BY <2>1, <2>3, <3>1, <3>2
  <2>5. pc' \in [Job -> {"idle", "running", "reading", "done"}]
    <3>1. pc \in [Job -> {"idle", "running", "reading", "done"}]
      BY DEF TypeOK
    <3> QED BY <1>9, <3>1 DEF readQueue, SetJob
  <2>6. UNCHANGED <<queue, purging, stage, fetched, forgone>>
    BY <1>9 DEF readQueue
  <2> QED BY <1>1, <1>3, <1>4, <2>4, <2>5, <2>6 DEF TypeOK, redisRest, memoryVars, historyVars
<1> QED BY <1>2, <1>6, <1>7, <1>8, <1>9 DEF Redis

\* A stream that goes, a purge, an expiry and a restart.
LEMMA LossTypes ==
  ASSUME TypeOK, (\E t \in Tab : Leave(t)) \/ Purge \/ Expire \/ Crash
  PROVE  TypeOK'
<1>1. lastId' = lastId /\ Id' = Id /\ Command' = Command /\ Entry' = Entry
  BY DEF Leave, Purge, Expire, Crash, openRest, redisRest, memoryVars, Id, Command, Entry
<1>2. /\ IsFiniteSet(queue) /\ queue \subseteq Id /\ Cardinality(queue) <= MaxPerUser
      /\ Cardinality(queue) \in Nat /\ MaxPerUser \in Nat /\ lastId \in Nat
  <2>1. lastId \in Nat /\ queue \subseteq Id /\ Cardinality(queue) <= MaxPerUser
    BY DEF TypeOK
  <2>2. IsFiniteSet(Id)
    BY <2>1, FS_Interval DEF Id
  <2>3. IsFiniteSet(queue)
    BY <2>1, <2>2, FS_Subset
  <2> QED BY <2>1, <2>3, FS_CardinalityType, ConstantsAssumption
<1>3. CASE \E t \in Tab : Leave(t)
  <2>1. stage' \in [Tab -> {"none", "reading", "fetched", "open"}]
    BY <1>3 DEF Leave, TypeOK
  <2>2. UNCHANGED <<openRest, replay, fetched, connects, wire, got, drained, forgone>>
    BY <1>3 DEF Leave
  <2> QED BY <1>1, <2>1, <2>2 DEF TypeOK, openRest, memoryVars, jobVars, historyVars
<1>4. CASE Purge
  <2>1. PICK p \in purging : /\ queue' = queue \ p.ids /\ purging' = purging \ {p}
                             /\ Forgo(LAMBDA t : IF t = p.by THEN {} ELSE p.ids)
                             /\ UNCHANGED <<redisRest, stage, fetched, wire, pc, view>>
    BY <1>4 DEF Purge
  <2>2. p.ids \subseteq Id
    BY DEF TypeOK
  <2>3. Cardinality(queue \ p.ids) <= Cardinality(queue) /\ Cardinality(queue \ p.ids) \in Nat
    BY <1>2, FS_Subset, FS_CardinalityType
  <2>4. queue' \subseteq Id /\ Cardinality(queue') <= MaxPerUser
    <3>1. Cardinality(queue') <= Cardinality(queue) /\ Cardinality(queue') \in Nat
      BY <2>1, <2>3
    <3>2. queue' \subseteq Id
      BY <1>2, <2>1
    <3> QED BY <1>2, <3>1, <3>2
  <2>5. forgone' \in [Tab -> SUBSET Id]
    BY <2>1, <2>2 DEF Forgo, TypeOK
  <2>6. purging' \subseteq purging
    BY <2>1
  <2> QED BY <1>1, <2>1, <2>4, <2>5, <2>6 DEF TypeOK, redisRest, memoryVars, historyVars
<1>5. CASE Expire
  <2>1. queue' \subseteq Id /\ Cardinality(queue') <= MaxPerUser
    BY <1>2, <1>5, FS_EmptySet DEF Expire
  <2>2. forgone' \in [Tab -> SUBSET Id] /\ expiries' \in Nat
    BY <1>2, <1>5 DEF Expire, Forgo, TypeOK
  <2>3. UNCHANGED <<enabled, memoryVars, handshakeVars, wire, purging, jobVars, got, historyVars,
                    drained, crashes>>
    BY <1>5 DEF Expire
  <2> QED BY <1>1, <2>1, <2>2, <2>3 DEF TypeOK, handshakeVars, memoryVars, jobVars, historyVars
<1>6. CASE Crash
  <2>1. /\ ring' \in Seq(Id) /\ timeline' \in Seq(Entry) /\ wire' \in Seq(Command)
        /\ replay' \in [Tab -> Seq(Id)] /\ fetched' \in [Tab -> Seq(Id)]
    BY <1>6 DEF Crash
  <2>2. Len(ring') <= BufferSize
    BY <1>6, ConstantsAssumption DEF Crash
  <2>3. /\ owner' \in Job \cup {None} /\ mixed' \in BOOLEAN
        /\ stage' \in [Tab -> {"none", "reading", "fetched", "open"}]
        /\ closing' \in [Job -> SUBSET (Tab \X Nat)] /\ drained' \subseteq Id
        /\ purging' \subseteq [by : Tab \cup {None}, ids : SUBSET Id]
    BY <1>6 DEF Crash
  <2>4. pc' \in [Job -> {"idle", "running", "reading", "done"}] /\ crashes' \in Nat
    BY <1>6 DEF Crash, TypeOK
  <2>5. view' \in [Job -> [emissions : Seq(Entry), retained : Seq(Entry), evicted : Seq(Entry),
                           offlineQueued : SUBSET Nat, shared : BOOLEAN]]
    BY <1>6 DEF Crash, NoView
  <2>6. forgone' \in [Tab -> SUBSET Id]
    <3>1. Appending \subseteq Id
      <4> SUFFICES ASSUME NEW k \in DOMAIN wire, wire[k].op = "append" PROVE wire[k].id \in Id
        BY DEF Appending
      <4>1. wire[k] \in Command
        BY DEF TypeOK
      <4> QED BY <4>1, CommandTypes
    <3> QED BY <1>6, <3>1 DEF Crash, Forgo, TypeOK
  <2>7. UNCHANGED <<enabled, lastId, data, connects, queue, seq, got, unqueued, expiries>>
    BY <1>6 DEF Crash
  <2> QED BY <1>1, <2>1, <2>2, <2>3, <2>4, <2>5, <2>6, <2>7 DEF TypeOK
<1> QED BY <1>3, <1>4, <1>5, <1>6

LEMMA TypesStep == TypeOK /\ RecordOK /\ [Next]_vars => TypeOK'
<1> SUFFICES ASSUME TypeOK, RecordOK, [Next]_vars PROVE TypeOK'
  OBVIOUS
<1>1. ASSUME NEW t \in Tab, ConnectAtOnce(t) \/ Connect(t) PROVE TypeOK'
  BY <1>1, ConnectTypes
<1>2. ASSUME NEW t \in Tab, Opened(t) PROVE TypeOK'
  BY <1>2, OpenedTypes
<1>3. ASSUME NEW j \in Job, ReplayBurst(j) \/ OfflineEmit(j) PROVE TypeOK'
  BY <1>3, BurstTypes
<1>4. ASSUME NEW j \in Job, OfflineRefused(j) \/ Drop(j) \/ DropOne(j) \/ Acknowledge(j) \/ Timeline(j)
      PROVE TypeOK'
  BY <1>4, RequestTypes
<1>5. CASE Redis
  BY <1>5, RedisTypes
<1>6. CASE (\E t \in Tab : Leave(t)) \/ Purge \/ Expire \/ Crash
  BY <1>6, LossTypes
<1>7. CASE UNCHANGED vars
  BY <1>7 DEF TypeOK, vars, memoryVars, handshakeVars, jobVars, historyVars, Id, Command, Entry
<1> QED BY <1>1, <1>2, <1>3, <1>4, <1>5, <1>6, <1>7 DEF Next

-----------------------------------------------------------------------------
(* The record and the ring.                                                *)

LEMMA RecordKept ==
  ASSUME TypeOK, RecordOK, UNCHANGED <<lastId, ring, timeline, seq, owner, mixed>>,
         \A j \in Job : pc'[j] = "idle" => pc[j] = "idle"
  PROVE  RecordOK'
BY DEF RecordOK

\* An emit is the newest event of the ring and of the record.
LEMMA RecordEmit ==
  ASSUME TypeOK, RecordOK, NEW j \in Job, Burst(j)
  PROVE  RecordOK'
<1>1. PICK n, e, entry : n = seq[j] + 1 /\ e = lastId + 1 /\ entry = [seq |-> n, id |-> e]
  OBVIOUS
<1>2. /\ lastId \in Nat /\ ring \in Seq(Id) /\ timeline \in Seq(Entry) /\ Len(ring) <= BufferSize
      /\ seq \in [Job -> Nat] /\ pc \in [Job -> {"idle", "running", "reading", "done"}]
      /\ BufferSize \in Nat \ {0} /\ owner \in Job \cup {None} /\ mixed \in BOOLEAN
  BY ConstantsAssumption DEF TypeOK
<1>3. /\ lastId' = e /\ e = lastId + 1 /\ e \in Nat
      /\ ring' = Suffix(Append(ring, e), BufferSize)
  <2>1. lastId' = lastId + 1 /\ ring' = Suffix(Append(ring, lastId + 1), BufferSize)
    BY DEF Burst, EmitToUser
  <2> QED BY <1>1, <1>2, <2>1
<1>4. /\ \A k \in 1..Len(ring') : ring'[k] = lastId' - Len(ring') + k
      /\ Len(ring') = IF Len(ring) = BufferSize THEN BufferSize ELSE Len(ring) + 1
  <2>1. PICK r : r = Append(ring, e)
    OBVIOUS
  <2>2. Len(r) = Len(ring) + 1 /\ Len(ring) \in Nat /\ r \in Seq(Nat)
    BY <1>2, <1>3, <2>1 DEF Id
  <2>3. \A k \in 1..Len(r) : r[k] = lastId' - Len(r) + k
    <3>1. \A k \in 1..Len(ring) : r[k] = ring[k]
      BY <1>2, <2>1
    <3>2. r[Len(ring) + 1] = e
      BY <1>2, <2>1
    <3>3. \A k \in 1..Len(ring) : ring[k] = lastId - Len(ring) + k
      BY DEF RecordOK
    <3>4. lastId' - Len(r) = lastId - Len(ring)
      BY <1>2, <1>3, <2>2
    <3>5. \A k \in 1..Len(r) : k \in 1..Len(ring) \/ k = Len(ring) + 1
      BY <2>2
    <3>6. e = lastId - Len(ring) + (Len(ring) + 1)
      BY <1>2, <1>3, <2>2
    <3>7. \A k \in 1..Len(ring) : r[k] = lastId' - Len(r) + k
      BY <3>1, <3>3, <3>4
    <3>8. r[Len(ring) + 1] = lastId' - Len(r) + (Len(ring) + 1)
      BY <3>2, <3>4, <3>6
    <3> QED BY <3>5, <3>7, <3>8
  <2>4. ring' = Suffix(r, BufferSize)
    BY <1>3, <2>1
  <2>5. CASE Len(r) <= BufferSize
    <3>1. ring' = r
      BY <2>4, <2>5 DEF Suffix
    <3>2. Len(ring) # BufferSize
      BY <1>2, <2>2, <2>5
    <3> QED BY <2>2, <2>3, <3>1, <3>2
  <2>6. CASE ~(Len(r) <= BufferSize)
    <3>1. ring' = SubSeq(r, Len(r) - BufferSize + 1, Len(r))
      BY <2>4, <2>6 DEF Suffix
    <3>2. Len(ring) = BufferSize /\ Len(r) = BufferSize + 1
      BY <1>2, <2>2, <2>6
    <3>3. ring' = SubSeq(r, 2, Len(r))
      BY <1>2, <3>1, <3>2
    <3>4. Len(ring') = BufferSize /\ \A k \in 1..Len(ring') : ring'[k] = r[k + 1]
      BY <1>2, <2>2, <3>2, <3>3
    <3>5. \A k \in 1..Len(ring') : k + 1 \in 1..Len(r)
      BY <1>2, <2>2, <3>2, <3>4
    <3>6. ASSUME NEW k \in 1..Len(ring') PROVE ring'[k] = lastId' - Len(ring') + k
      <4>1. ring'[k] = lastId' - Len(r) + (k + 1)
        BY <2>3, <3>4, <3>5
      <4> QED BY <1>2, <1>3, <3>2, <3>4, <4>1
    <3> QED BY <1>2, <1>3, <2>2, <3>2, <3>4, <3>6
  <2> QED BY <2>5, <2>6
<1>5. /\ seq' = [seq EXCEPT ![j] = n] /\ pc' = [pc EXCEPT ![j] = IF n = Count[j] THEN "done" ELSE "running"]
      /\ n = seq[j] + 1
  BY <1>1 DEF Burst, SetJob
<1>6. \A i \in Job : pc'[i] = "idle" => seq'[i] = 0
  BY <1>2, <1>5 DEF RecordOK
<1>7. CASE pc[j] = "idle"
  <2>1. timeline' = <<entry>> /\ owner' = j /\ mixed' = FALSE
    BY <1>1, <1>7 DEF Burst, Restart
  <2>2. Len(timeline') = 1 /\ timeline'[1] = entry
    BY <2>1
  <2>3. n = 1 /\ seq'[j] = 1
    BY <1>2, <1>5, <1>7 DEF RecordOK
  <2>4. \A k \in 1..Len(timeline') : k = 1
    BY <2>2
  <2>5. entry.id = e /\ entry.seq = n
    BY <1>1
  <2>6. Len(ring') = BufferSize \/ Len(ring') >= 1
    BY <1>2, <1>4
  <2> QED BY <1>2, <1>3, <1>4, <1>6, <2>1, <2>2, <2>3, <2>4, <2>5, <2>6 DEF RecordOK
<1>8. CASE pc[j] = "running"
  <2>1. timeline' = Append(timeline, entry) /\ owner' = owner /\ mixed' = (mixed \/ owner # j)
    BY <1>1, <1>8 DEF Burst, Push
  <2>2. Len(timeline') = Len(timeline) + 1 /\ Len(timeline) \in Nat
    BY <1>2, <2>1
  <2>3. \A k \in 1..Len(timeline') :
          timeline'[k] = IF k = Len(timeline) + 1 THEN entry ELSE timeline[k]
    BY <1>2, <2>1
  <2>4. entry.id = e /\ entry.seq = n
    BY <1>1
  <2>5. \A k \in 1..Len(timeline') : timeline'[k].id = lastId' - Len(timeline') + k
    <3>1. \A k \in 1..Len(timeline) : timeline[k].id = lastId - Len(timeline) + k
      BY DEF RecordOK
    <3>2. lastId' - Len(timeline') = lastId - Len(timeline)
      BY <1>2, <1>3, <2>2
    <3>3. \A k \in 1..Len(timeline') : k \in 1..Len(timeline) \/ k = Len(timeline) + 1
      BY <2>2
    <3>4. e = lastId - Len(timeline) + (Len(timeline) + 1)
      BY <1>2, <1>3, <2>2
    <3>5. \A k \in 1..Len(timeline) : k # Len(timeline) + 1
      BY <2>2
    <3> QED BY <2>3, <2>4, <3>1, <3>2, <3>3, <3>4, <3>5
  <2>6. Len(ring') = BufferSize \/ Len(ring') >= Len(timeline')
    BY <1>2, <1>4, <2>2 DEF RecordOK
  <2>7. ASSUME owner' # None, ~mixed'
        PROVE  /\ Len(timeline') = seq'[owner']
               /\ \A k \in 1..Len(timeline') : timeline'[k].seq = k
    <3>1. owner = j /\ ~mixed /\ owner' = j /\ owner # None
      BY <2>1, <2>7
    <3>2. Len(timeline) = seq[j] /\ \A k \in 1..Len(timeline) : timeline[k].seq = k
      BY <3>1 DEF RecordOK
    <3> QED BY <1>2, <1>5, <2>2, <2>3, <2>4, <3>1, <3>2
  <2> QED BY <1>4, <1>6, <2>5, <2>6, <2>7 DEF RecordOK
<1> QED BY <1>7, <1>8 DEF Burst

LEMMA RecordStep == TypeOK /\ RecordOK /\ [Next]_vars => RecordOK'
<1> SUFFICES ASSUME TypeOK, RecordOK, [Next]_vars PROVE RecordOK'
  OBVIOUS
<1>0. pc \in [Job -> {"idle", "running", "reading", "done"}]
  BY DEF TypeOK
<1>1. ASSUME NEW t \in Tab, ConnectAtOnce(t) \/ Connect(t) \/ Opened(t) \/ Leave(t) PROVE RecordOK'
  BY <1>1, RecordKept DEF ConnectAtOnce, Connect, Opened, Leave, openRest, memoryVars, jobVars, historyVars
<1>2. ASSUME NEW j \in Job, ReplayBurst(j) \/ OfflineEmit(j) PROVE RecordOK'
  BY <1>2, RecordEmit DEF ReplayBurst, OfflineEmit
<1>3. ASSUME NEW j \in Job, OfflineRefused(j) \/ Drop(j) \/ DropOne(j) \/ Acknowledge(j) \/ Timeline(j)
      PROVE RecordOK'
  <2>1. UNCHANGED <<lastId, ring, timeline, seq, owner, mixed>>
    BY <1>3 DEF OfflineRefused, Drop, DropOne, Acknowledge, Timeline, dropRest, redisRest,
                memoryVars, historyVars
  <2>2. PICK p : p # "idle" /\ pc' = [pc EXCEPT ![j] = p]
    BY <1>3 DEF OfflineRefused, Drop, DropOne, Acknowledge, Timeline, SetJob
  <2>3. \A i \in Job : pc'[i] = "idle" => pc[i] = "idle"
    BY <1>0, <2>2
  <2> QED BY <2>1, <2>3, RecordKept
<1>4. CASE Redis
  <2>1. UNCHANGED <<lastId, ring, timeline, seq, owner, mixed>>
    BY <1>4 DEF Redis, redisRest, memoryVars, historyVars
  <2>2. pc' = pc \/ \E i \in Job : pc' = [pc EXCEPT ![i] = "done"]
    <3>1. PICK c : c = Head(wire)
      OBVIOUS
    <3>2. c \in Command
      BY <1>4, <3>1, HeadTypes DEF Redis
    <3>3. pc' = pc \/ (c.op = "peek" /\ readQueue(c))
      BY <1>4, <3>1 DEF Redis, append, retrieve, acknowledge
    <3> QED BY <3>2, <3>3, CommandTypes DEF readQueue, SetJob
  <2>3. \A i \in Job : pc'[i] = "idle" => pc[i] = "idle"
    BY <1>0, <2>2
  <2> QED BY <2>1, <2>3, RecordKept
<1>5. CASE Purge \/ Expire
  BY <1>5, RecordKept DEF Purge, Expire, redisRest, memoryVars, jobVars, historyVars
<1>6. CASE Crash
  <2>1. /\ ring' = <<>> /\ timeline' = <<>> /\ owner' = None /\ mixed' = FALSE /\ seq' = seq
        /\ pc' = [j \in Job |-> IF pc[j] = "idle" THEN "idle" ELSE "done"]
    BY <1>6 DEF Crash
  <2>2. Len(ring') = 0 /\ Len(timeline') = 0
    BY <2>1
  <2> QED BY <2>1, <2>2 DEF RecordOK
<1>7. CASE UNCHANGED vars
  BY <1>7, RecordKept DEF vars, memoryVars, jobVars, historyVars
<1> QED BY <1>1, <1>2, <1>3, <1>4, <1>5, <1>6, <1>7 DEF Next

LEMMA RecordInit == Init => RecordOK
<1> SUFFICES ASSUME Init PROVE RecordOK
  OBVIOUS
<1>1. Len(ring) = 0 /\ Len(timeline) = 0
  BY DEF Init
<1> QED BY <1>1 DEF Init, RecordOK

\* The record of an undisturbed burst, and the part of it the ring holds.
LEMMA RecordTells ==
  ASSUME TypeOK, RecordOK
  PROVE  TimelineHonest
<1> SUFFICES ASSUME owner # None, ~mixed
             PROVE  /\ timeline = [k \in 1..seq[owner] |-> [seq |-> k, id |-> timeline[k].id]]
                    /\ \A k \in 1..Len(timeline) :
                         timeline[k].id \in Range(ring) <=> k > Len(timeline) - BufferSize
  BY DEF TimelineHonest
<1>1. /\ lastId \in Nat /\ ring \in Seq(Id) /\ timeline \in Seq(Entry) /\ Len(ring) <= BufferSize
      /\ BufferSize \in Nat \ {0}
  BY ConstantsAssumption DEF TypeOK
<1>2. Len(timeline) = seq[owner] /\ \A k \in 1..Len(timeline) : timeline[k].seq = k
  BY DEF RecordOK
<1>3. \A k \in 1..Len(timeline) : timeline[k] = [seq |-> k, id |-> timeline[k].id]
  <2>1. \A k \in 1..Len(timeline) : timeline[k] \in Entry
    BY <1>1
  <2> QED BY <1>2, <2>1 DEF Entry
<1>4. timeline = [k \in 1..seq[owner] |-> [seq |-> k, id |-> timeline[k].id]]
  <2>1. timeline = [k \in 1..Len(timeline) |-> timeline[k]]
    BY <1>1
  <2> QED BY <1>2, <1>3, <2>1
<1>5. ASSUME NEW k \in 1..Len(timeline)
      PROVE  timeline[k].id \in Range(ring) <=> k > Len(timeline) - BufferSize
  <2>1. timeline[k].id \in Id /\ timeline[k].id = lastId - Len(timeline) + k
    <3>1. timeline[k] \in Entry
      BY <1>1
    <3>2. timeline[k].id = lastId - Len(timeline) + k
      BY DEF RecordOK
    <3> QED BY <3>1, <3>2 DEF Entry
  <2>2. timeline[k].id \in Range(ring) <=> timeline[k].id > lastId - Len(ring)
    BY <1>1, <2>1, RingRange
  <2>3. Len(ring) = BufferSize \/ Len(ring) >= Len(timeline)
    BY DEF RecordOK
  <2> QED BY <1>1, <2>1, <2>2, <2>3
<1> QED BY <1>4, <1>5

-----------------------------------------------------------------------------
(* The connection to Redis.                                                *)

\* A handshake that waits has asked the queue, once.
WireOK ==
  /\ \A t \in Tab : stage[t] = "reading" <=>
       \E k \in 1..Len(wire) : wire[k].op = "retrieve" /\ wire[k].tab = t
  /\ \A k, l \in 1..Len(wire) :
       wire[k].op = "retrieve" /\ wire[l].op = "retrieve" /\ wire[k].tab = wire[l].tab => k = l

LEMMA AppendAt ==
  ASSUME NEW S, NEW s \in Seq(S), NEW c
  PROVE  /\ Len(Append(s, c)) = Len(s) + 1 /\ Len(s) \in Nat
         /\ \A k \in 1..Len(s) : k \in 1..Len(Append(s, c)) /\ Append(s, c)[k] = s[k]
         /\ Len(s) + 1 \in 1..Len(Append(s, c)) /\ Append(s, c)[Len(s) + 1] = c
         /\ \A k \in 1..Len(Append(s, c)) : k \in 1..Len(s) \/ k = Len(s) + 1
OBVIOUS

LEMMA WireSend ==
  ASSUME TypeOK, WireOK, NEW c, c.op # "retrieve", Send(c),
         \A t \in Tab : stage'[t] = "reading" <=> stage[t] = "reading"
  PROVE  WireOK'
<1>1. PICK w, n : w = wire' /\ n = Len(wire)
  OBVIOUS
<1>2. /\ Len(w) = n + 1 /\ n \in Nat
      /\ \A k \in 1..n : k \in 1..Len(w) /\ w[k] = wire[k]
      /\ w[n + 1] = c
      /\ \A k \in 1..Len(w) : k \in 1..n \/ k = n + 1
  BY <1>1, AppendAt DEF Send, TypeOK
<1>3. \A k \in 1..Len(w) : w[k].op = "retrieve" => k \in 1..n /\ w[k] = wire[k]
  BY <1>2
<1>4. \A t \in Tab : (\E k \in 1..Len(w) : w[k].op = "retrieve" /\ w[k].tab = t)
                     <=> \E k \in 1..n : wire[k].op = "retrieve" /\ wire[k].tab = t
  BY <1>2, <1>3
<1>5. \A k, l \in 1..Len(w) :
        w[k].op = "retrieve" /\ w[l].op = "retrieve" /\ w[k].tab = w[l].tab => k = l
  BY <1>1, <1>3 DEF WireOK
<1> QED BY <1>1, <1>4, <1>5 DEF WireOK

LEMMA WireKept ==
  ASSUME TypeOK, WireOK, wire' = wire,
         \A t \in Tab : stage'[t] = "reading" <=> stage[t] = "reading"
  PROVE  WireOK'
BY DEF WireOK

LEMMA WireConnect ==
  ASSUME TypeOK, WireOK, NEW t \in Tab, Connect(t)
  PROVE  WireOK'
<1>1. PICK w, n, c : w = wire' /\ n = Len(wire) /\ c = [op |-> "retrieve", tab |-> t]
  OBVIOUS
<1>2. c.op = "retrieve" /\ c.tab = t
  BY <1>1
<1>3. /\ Len(w) = n + 1 /\ n \in Nat
      /\ \A k \in 1..n : k \in 1..Len(w) /\ w[k] = wire[k]
      /\ n + 1 \in 1..Len(w) /\ w[n + 1] = c
      /\ \A k \in 1..Len(w) : k \in 1..n \/ k = n + 1
  <2>1. wire \in Seq(Command) /\ w = Append(wire, c)
    BY <1>1 DEF Connect, Send, TypeOK
  <2> QED BY <1>1, <2>1, AppendAt
<1>4. /\ stage[t] = "none" /\ stage' = [stage EXCEPT ![t] = "reading"]
      /\ stage \in [Tab -> {"none", "reading", "fetched", "open"}]
  BY DEF Connect, TypeOK
<1>5. \A k \in 1..n : ~(wire[k].op = "retrieve" /\ wire[k].tab = t)
  BY <1>1, <1>4 DEF WireOK
<1>6. ASSUME NEW u \in Tab
      PROVE  stage'[u] = "reading" <=> \E k \in 1..Len(w) : w[k].op = "retrieve" /\ w[k].tab = u
  <2>1. CASE u = t
    BY <1>2, <1>3, <1>4, <2>1
  <2>2. CASE u # t
    <3>1. stage'[u] = stage[u]
      BY <1>4, <2>2
    <3>2. stage[u] = "reading" <=> \E k \in 1..n : wire[k].op = "retrieve" /\ wire[k].tab = u
      BY <1>1 DEF WireOK
    <3> QED BY <1>2, <1>3, <2>2, <3>1, <3>2
  <2> QED BY <2>1, <2>2
<1>7. \A k, l \in 1..Len(w) :
        w[k].op = "retrieve" /\ w[l].op = "retrieve" /\ w[k].tab = w[l].tab => k = l
  <2>1. \A k, l \in 1..n :
          wire[k].op = "retrieve" /\ wire[l].op = "retrieve" /\ wire[k].tab = wire[l].tab => k = l
    BY <1>1 DEF WireOK
  <2> QED BY <1>2, <1>3, <1>5, <2>1
<1> QED BY <1>1, <1>6, <1>7 DEF WireOK

LEMMA WireRedis ==
  ASSUME TypeOK, WireOK, Redis
  PROVE  WireOK'
<1>1. PICK w, c, n : w = wire' /\ c = Head(wire) /\ n = Len(wire)
  OBVIOUS
<1>2. /\ c = wire[1] /\ c \in Command /\ Len(w) = n - 1 /\ n \in Nat \ {0}
      /\ \A k \in 1..Len(w) : k + 1 \in 1..n /\ w[k] = wire[k + 1]
  BY <1>1, HeadTypes DEF Redis
<1>3. \A k, l \in 1..Len(w) :
        w[k].op = "retrieve" /\ w[l].op = "retrieve" /\ w[k].tab = w[l].tab => k = l
  <2> SUFFICES ASSUME NEW k \in 1..Len(w), NEW l \in 1..Len(w),
                      w[k].op = "retrieve", w[l].op = "retrieve", w[k].tab = w[l].tab
               PROVE  k = l
    OBVIOUS
  <2>1. k + 1 = l + 1
    BY <1>1, <1>2 DEF WireOK
  <2> QED BY <1>2, <2>1
<1>4. \A i \in 2..n : i - 1 \in 1..Len(w) /\ w[i - 1] = wire[i]
  <2> SUFFICES ASSUME NEW i \in 2..n PROVE i - 1 \in 1..Len(w) /\ w[i - 1] = wire[i]
    OBVIOUS
  <2>1. PICK k \in 1..Len(w) : k = i - 1
    <3>1. i - 1 \in 1..Len(w)
      BY <1>2
    <3> QED BY <3>1
  <2> QED BY <1>2, <2>1
<1>5. stage \in [Tab -> {"none", "reading", "fetched", "open"}]
  BY DEF TypeOK
<1>6. ASSUME NEW u \in Tab
      PROVE  stage'[u] = "reading" <=> \E k \in 1..Len(w) : w[k].op = "retrieve" /\ w[k].tab = u
  <2>1. stage[u] = "reading" <=> \E k \in 1..n : wire[k].op = "retrieve" /\ wire[k].tab = u
    BY <1>1 DEF WireOK
  <2>2. CASE c.op = "retrieve" /\ c.tab = u
    <3>1. stage'[u] = "fetched"
      BY <1>1, <1>5, <2>2 DEF Redis, retrieve
    <3>2. \A k \in 1..Len(w) : ~(w[k].op = "retrieve" /\ w[k].tab = u)
      <4> SUFFICES ASSUME NEW k \in 1..Len(w), w[k].op = "retrieve", w[k].tab = u PROVE FALSE
        OBVIOUS
      <4>1. 1 \in 1..n /\ k + 1 \in 1..n /\ k + 1 # 1
        BY <1>2
      <4> QED BY <1>1, <1>2, <2>2, <4>1 DEF WireOK
    <3> QED BY <3>1, <3>2
  <2>3. CASE ~(c.op = "retrieve" /\ c.tab = u)
    <3>1. stage'[u] = stage[u]
      BY <1>1, <1>5, <2>3 DEF Redis, append, retrieve, acknowledge, readQueue
    <3>2. (\E k \in 1..n : wire[k].op = "retrieve" /\ wire[k].tab = u)
          <=> \E k \in 1..Len(w) : w[k].op = "retrieve" /\ w[k].tab = u
      <4>1. \A k \in 1..n : k = 1 \/ k \in 2..n
        BY <1>2
      <4> QED BY <1>2, <1>4, <2>3, <4>1
    <3> QED BY <2>1, <3>1, <3>2
  <2> QED BY <2>2, <2>3
<1> QED BY <1>1, <1>3, <1>6 DEF WireOK

LEMMA WireInit == Init => WireOK
<1> SUFFICES ASSUME Init PROVE WireOK
  OBVIOUS
<1>1. Len(wire) = 0
  BY DEF Init
<1> QED BY <1>1 DEF Init, WireOK

LEMMA WireStep == TypeOK /\ WireOK /\ [Next]_vars => WireOK'
<1> SUFFICES ASSUME TypeOK, WireOK, [Next]_vars PROVE WireOK'
  OBVIOUS
<1>0. stage \in [Tab -> {"none", "reading", "fetched", "open"}]
  BY DEF TypeOK
<1>1. ASSUME NEW t \in Tab, ConnectAtOnce(t) PROVE WireOK'
  <2>1. wire' = wire /\ stage[t] = "none" /\ stage' = [stage EXCEPT ![t] = "open"]
    BY <1>1 DEF ConnectAtOnce
  <2> QED BY <1>0, <2>1, WireKept
<1>2. ASSUME NEW t \in Tab, Connect(t) PROVE WireOK'
  BY <1>2, WireConnect
<1>3. ASSUME NEW t \in Tab, Opened(t) PROVE WireOK'
  <2>1. \A u \in Tab : stage'[u] = "reading" <=> stage[u] = "reading"
    BY <1>0, <1>3 DEF Opened
  <2>2. wire' = wire \/ Send([op |-> "ack", by |-> t, upTo |-> Last(Drained(t))])
    BY <1>3 DEF Opened
  <2>3. [op |-> "ack", by |-> t, upTo |-> Last(Drained(t))].op # "retrieve"
    OBVIOUS
  <2> QED BY <2>1, <2>2, <2>3, WireKept, WireSend
<1>4. ASSUME NEW t \in Tab, Leave(t) PROVE WireOK'
  <2>1. wire' = wire /\ stage[t] = "open" /\ stage' = [stage EXCEPT ![t] = "none"]
    BY <1>4 DEF Leave
  <2> QED BY <1>0, <2>1, WireKept
<1>5. ASSUME NEW j \in Job, ReplayBurst(j) \/ OfflineEmit(j) PROVE WireOK'
  <2>1. Burst(j)
    BY <1>5 DEF ReplayBurst, OfflineEmit
  <2>2. stage' = stage
    BY <2>1 DEF Burst, burstRest, handshakeVars
  <2>3. wire' = wire \/ Send([op |-> "append", id |-> lastId + 1])
    BY <2>1 DEF Burst, EmitToUser
  <2>4. [op |-> "append", id |-> lastId + 1].op # "retrieve"
    OBVIOUS
  <2> QED BY <2>2, <2>3, <2>4, WireKept, WireSend
<1>6. ASSUME NEW j \in Job, OfflineRefused(j) \/ Drop(j) PROVE WireOK'
  BY <1>6, WireKept DEF OfflineRefused, Drop, dropRest, burstRest, handshakeVars
<1>7. ASSUME NEW j \in Job, DropOne(j) PROVE WireOK'
  <2>1. wire' = wire
    BY <1>7 DEF DropOne, dropRest
  <2>2. \A t \in Tab : stage'[t] = "reading" <=> stage[t] = "reading"
    BY <1>0, <1>7 DEF DropOne, Live
  <2> QED BY <2>1, <2>2, WireKept
<1>8. ASSUME NEW j \in Job, Acknowledge(j) PROVE WireOK'
  <2>1. PICK e : Send([op |-> "ack", by |-> None, upTo |-> e])
    BY <1>8 DEF Acknowledge
  <2>2. [op |-> "ack", by |-> None, upTo |-> e].op # "retrieve" /\ stage' = stage
    BY <1>8 DEF Acknowledge
  <2> QED BY <2>1, <2>2, WireSend
<1>9. ASSUME NEW j \in Job, Timeline(j) PROVE WireOK'
  <2>1. wire' = wire \/ Send([op |-> "peek", job |-> j])
    BY <1>9 DEF Timeline
  <2>2. [op |-> "peek", job |-> j].op # "retrieve" /\ stage' = stage
    BY <1>9 DEF Timeline, burstRest, handshakeVars
  <2> QED BY <2>1, <2>2, WireKept, WireSend
<1>10. CASE Redis
  BY <1>10, WireRedis
<1>11. CASE Purge \/ Expire
  BY <1>11, WireKept DEF Purge, Expire, handshakeVars
<1>12. CASE Crash
  <2>1. Len(wire') = 0 /\ stage' = [t \in Tab |-> "none"]
    BY <1>12 DEF Crash
  <2> QED BY <2>1 DEF WireOK
<1>13. CASE UNCHANGED vars
  BY <1>13, WireKept DEF vars, handshakeVars
<1> QED BY <1>1, <1>2, <1>3, <1>4, <1>5, <1>6, <1>7, <1>8, <1>9, <1>10, <1>11, <1>12, <1>13 DEF Next

-----------------------------------------------------------------------------
(* One stream.                                                             *)

\* What a handshake holds continues what its tab has: the ring's replay
\* follows the cursor without a gap, the queue's drain is newer than it.
HandshakeOK(t) ==
  /\ stage[t] \in {"reading", "fetched"} =>
       /\ enabled /\ Cursor(t) # None
       /\ \A k \in 1..Len(replay[t]) : replay[t][k] = Cursor(t) + k
  /\ stage[t] = "fetched" =>
       /\ Increasing(fetched[t])
       /\ \A k \in 1..Len(fetched[t]) : fetched[t][k] > Cursor(t)

StreamOK == \A t \in Tab : Increasing(got[t]) /\ HandshakeOK(t)

LEMMA JoinIncreasing ==
  ASSUME NEW S \in SUBSET Int, NEW a \in Seq(S), NEW b \in Seq(S), Increasing(a), Increasing(b),
         \A k \in 1..Len(a), l \in 1..Len(b) : a[k] < b[l]
  PROVE  Increasing(a \o b)
<1>1. PICK r : r = a \o b
  OBVIOUS
<1>2. /\ Len(r) = Len(a) + Len(b) /\ Len(a) \in Nat /\ Len(b) \in Nat
      /\ \A k \in 1..Len(r) : r[k] = IF k <= Len(a) THEN a[k] ELSE b[k - Len(a)]
  BY <1>1, JoinRange
<1>3. /\ \A k, l \in 1..Len(a) : k < l => a[k] < a[l]
      /\ \A k, l \in 1..Len(b) : k < l => b[k] < b[l]
  BY DEF Increasing
<1>4. ASSUME NEW k \in 1..Len(r), NEW l \in 1..Len(r), k < l PROVE r[k] < r[l]
  <2>1. CASE l <= Len(a)
    <3>1. k \in 1..Len(a) /\ l \in 1..Len(a) /\ k <= Len(a)
      BY <1>2, <1>4, <2>1
    <3> QED BY <1>2, <1>3, <1>4, <2>1, <3>1
  <2>2. CASE k <= Len(a) /\ ~(l <= Len(a))
    <3>1. k \in 1..Len(a) /\ l - Len(a) \in 1..Len(b)
      BY <1>2, <2>2
    <3> QED BY <1>2, <2>2, <3>1
  <2>3. CASE ~(k <= Len(a))
    <3>1. k - Len(a) \in 1..Len(b) /\ l - Len(a) \in 1..Len(b) /\ k - Len(a) < l - Len(a)
      BY <1>2, <1>4, <2>3
    <3>2. ~(l <= Len(a))
      BY <1>2, <1>4, <2>3
    <3> QED BY <1>2, <1>3, <2>3, <3>1, <3>2
  <2> QED BY <2>1, <2>2, <2>3
<1> QED BY <1>1, <1>4 DEF Increasing

\* What the ring replays is newer than everything the tab has.
LEMMA SinceFollows ==
  ASSUME TypeOK, RecordOK, NEW t \in Tab, Increasing(got[t])
  PROVE  /\ Since(Cursor(t)) \in Seq(Id) /\ Increasing(Since(Cursor(t)))
         /\ Cursor(t) # None => \A k \in 1..Len(Since(Cursor(t))) : Since(Cursor(t))[k] = Cursor(t) + k
         /\ Increasing(got[t] \o Since(Cursor(t)))
<1>1. /\ lastId \in Nat /\ ring \in Seq(Id) /\ got \in [Tab -> Seq(Id)] /\ Id \in SUBSET Int
  BY DEF TypeOK, Id
<1>2. PICK s, c : s = Since(c) /\ c = Cursor(t)
  OBVIOUS
<1>3. /\ c \notin Range(ring) => s = <<>>
      /\ c \in Range(ring) => c \in Id /\ s \in Seq(Id) /\ \A k \in 1..Len(s) : s[k] = c + k
  BY <1>1, <1>2, SinceIs
<1>4. CASE c \notin Range(ring)
  <2>1. s = <<>>
    BY <1>3, <1>4
  <2>2. got[t] \o s = got[t]
    BY <1>1, <2>1
  <2>3. Increasing(s) /\ s \in Seq(Id) /\ Len(s) = 0
    BY <2>1 DEF Increasing
  <2>4. Increasing(got[t] \o s) /\ (c # None => \A k \in 1..Len(s) : s[k] = c + k)
    BY <2>2, <2>3
  <2> QED BY <1>2, <2>3, <2>4
<1>5. CASE c \in Range(ring)
  <2>1. c \in Int /\ s \in Seq(Id) /\ Len(s) \in Nat /\ \A k \in 1..Len(s) : s[k] = c + k
    <3>1. c \in Id /\ s \in Seq(Id) /\ \A k \in 1..Len(s) : s[k] = c + k
      BY <1>3, <1>5
    <3>2. Len(s) \in Nat /\ c \in Int
      BY <1>1, <3>1
    <3> QED BY <3>1, <3>2
  <2>2. Increasing(s)
    BY <2>1 DEF Increasing
  <2>3. c # None
    BY <1>1, <1>3, <1>5, ConstantsAssumption DEF Id
  <2>4. \A e \in Has(t) : e <= c
    BY <1>1, <1>2, <2>3, CursorIs
  <2>5. \A k \in 1..Len(got[t]) : got[t][k] \in Has(t)
    BY <1>1, RangeIs DEF Has
  <2>6. \A k \in 1..Len(got[t]), l \in 1..Len(s) : got[t][k] < s[l]
    <3> SUFFICES ASSUME NEW k \in 1..Len(got[t]), NEW l \in 1..Len(s) PROVE got[t][k] < s[l]
      OBVIOUS
    <3>1. got[t][k] \in Int /\ got[t][k] <= c
      <4>1. got[t][k] \in Id /\ got[t][k] \in Has(t)
        BY <1>1, <2>5
      <4> QED BY <1>1, <2>4, <4>1
    <3>2. s[l] = c + l
      BY <2>1
    <3> QED BY <2>1, <3>1, <3>2
  <2>7. Increasing(got[t] \o s)
    BY <1>1, <2>1, <2>2, <2>6, JoinIncreasing
  <2> QED BY <1>2, <2>1, <2>2, <2>7
<1> QED BY <1>4, <1>5

\* A handshake that another step leaves alone.
LEMMA HandshakeKept ==
  ASSUME NEW t \in Tab, HandshakeOK(t), enabled' = enabled, got'[t] = got[t],
         \/ stage'[t] = stage[t] /\ replay'[t] = replay[t] /\ fetched'[t] = fetched[t]
         \/ stage'[t] \in {"none", "open"}
  PROVE  HandshakeOK(t)'
<1>1. Cursor(t)' = Cursor(t)
  BY DEF Cursor
<1> QED BY <1>1 DEF HandshakeOK

LEMMA StreamEmit ==
  ASSUME TypeOK, StreamOK, NEW j \in Job, Burst(j)
  PROVE  StreamOK'
<1>1. PICK e : e = lastId + 1
  OBVIOUS
<1>2. /\ got' = [t \in Tab |-> IF t \in Live THEN Append(got[t], e) ELSE got[t]]
  BY <1>1 DEF Burst, EmitToUser
<1>3. UNCHANGED <<enabled, stage, replay, fetched>>
  BY DEF Burst, burstRest, handshakeVars
<1>4. lastId \in Nat /\ got \in [Tab -> Seq(Id)]
  BY DEF TypeOK
<1> SUFFICES ASSUME NEW t \in Tab PROVE Increasing(got'[t]) /\ HandshakeOK(t)'
  BY DEF StreamOK, Increasing
<1>5. Increasing(got[t]) /\ HandshakeOK(t)
  BY DEF StreamOK
<1>6. CASE t \in Live
  <2>1. PICK a, b : a = got[t] /\ b = Append(a, e)
    OBVIOUS
  <2>2. a \in Seq(Id) /\ Len(a) \in Nat /\ \A k \in 1..Len(a) : a[k] \in Nat /\ a[k] < e
    BY <1>1, <1>4, <2>1 DEF Id
  <2>3. \A k \in 1..Len(b) : b[k] = IF k <= Len(a) THEN a[k] ELSE e
    BY <2>1, <2>2
  <2>4. Len(b) = Len(a) + 1
    BY <2>1, <2>2
  <2>5. \A k, l \in 1..Len(b) : k < l => b[k] < b[l]
    BY <1>5, <2>1, <2>2, <2>3, <2>4 DEF Increasing
  <2>6. got'[t] = b
    BY <1>2, <1>6, <2>1
  <2>7. stage'[t] = "open"
    BY <1>3, <1>6 DEF Live
  <2> QED BY <2>5, <2>6, <2>7 DEF Increasing, HandshakeOK
<1>7. CASE t \notin Live
  <2>1. got'[t] = got[t]
    BY <1>2, <1>7
  <2> QED BY <1>3, <1>5, <2>1, HandshakeKept
<1> QED BY <1>6, <1>7

LEMMA StreamOpened ==
  ASSUME TypeOK, RecordOK, StreamOK, NEW t \in Tab, Opened(t)
  PROVE  Increasing(got[t] \o replay[t] \o Drained(t))
<1>1. PICK a, r, f, d, c : a = got[t] /\ r = replay[t] /\ f = fetched[t] /\ d = Drained(t) /\ c = Cursor(t)
  OBVIOUS
<1>2. /\ lastId \in Nat /\ a \in Seq(Id) /\ r \in Seq(Id) /\ f \in Seq(Id) /\ Id \in SUBSET Int
      /\ got \in [Tab -> Seq(Id)] /\ fetched \in [Tab -> Seq(Id)]
  BY <1>1 DEF TypeOK, Id
<1>3. /\ Increasing(a) /\ c # None /\ Increasing(f)
      /\ \A k \in 1..Len(r) : r[k] = c + k
      /\ \A k \in 1..Len(f) : f[k] > c
  BY <1>1 DEF StreamOK, HandshakeOK, Opened
<1>4. c \in Nat /\ \A e \in Range(a) : e <= c
  <2>1. Cursor(t) \in 0..lastId /\ \A e \in Has(t) : e <= Cursor(t)
    BY <1>1, <1>2, <1>3, CursorIs
  <2> QED BY <1>1, <1>2, <2>1 DEF Has
<1>5. d \in Seq(Id) /\ Range(d) = Range(f) \ Range(r) /\ Increasing(d)
  BY <1>1, <1>2, <1>3, DrainedIs
<1>6. /\ \A x : x \in Range(a) <=> \E i \in 1..Len(a) : x = a[i]
      /\ \A x : x \in Range(r) <=> \E i \in 1..Len(r) : x = r[i]
      /\ \A x : x \in Range(f) <=> \E i \in 1..Len(f) : x = f[i]
      /\ \A x : x \in Range(d) <=> \E i \in 1..Len(d) : x = d[i]
  BY <1>2, <1>5, RangeIs
<1>7. Len(r) \in Nat /\ Len(a) \in Nat /\ Len(d) \in Nat
  BY <1>2, <1>5
<1>8. Increasing(r)
  BY <1>3, <1>4, <1>7 DEF Increasing
<1>9. \A k \in 1..Len(a), l \in 1..Len(r) : a[k] < r[l]
  <2> SUFFICES ASSUME NEW k \in 1..Len(a), NEW l \in 1..Len(r) PROVE a[k] < r[l]
    OBVIOUS
  <2>1. a[k] \in Int /\ a[k] <= c
    <3>1. a[k] \in Id /\ a[k] \in Range(a)
      BY <1>2, <1>6
    <3> QED BY <1>2, <1>4, <3>1
  <2>2. r[l] = c + l
    BY <1>3
  <2> QED BY <1>4, <1>7, <2>1, <2>2
<1>10. PICK b : b = a \o r
  OBVIOUS
<1>11. Increasing(b)
  BY <1>2, <1>3, <1>8, <1>9, <1>10, JoinIncreasing
<1>12. /\ b \in Seq(Id) /\ Len(b) = Len(a) + Len(r)
       /\ \A k \in 1..Len(b) : b[k] = IF k <= Len(a) THEN a[k] ELSE r[k - Len(a)]
  BY <1>2, <1>10, JoinRange
<1>13. \A k \in 1..Len(b) : b[k] \in Int /\ b[k] <= c + Len(r)
  <2> SUFFICES ASSUME NEW k \in 1..Len(b) PROVE b[k] \in Int /\ b[k] <= c + Len(r)
    OBVIOUS
  <2>1. CASE k <= Len(a)
    <3>1. k \in 1..Len(a) /\ b[k] = a[k]
      BY <1>7, <1>12, <2>1
    <3>2. a[k] \in Int /\ a[k] <= c
      <4>1. a[k] \in Id /\ a[k] \in Range(a)
        BY <1>2, <1>6, <3>1
      <4> QED BY <1>2, <1>4, <4>1
    <3> QED BY <1>4, <1>7, <3>1, <3>2
  <2>2. CASE ~(k <= Len(a))
    <3>1. PICK i \in 1..Len(r) : i = k - Len(a)
      <4>1. k - Len(a) \in 1..Len(r)
        BY <1>7, <1>12, <2>2
      <4> QED BY <4>1
    <3>2. b[k] = c + i
      BY <1>3, <1>12, <2>2, <3>1
    <3> QED BY <1>4, <1>7, <3>2
  <2> QED BY <2>1, <2>2
<1>14. \A l \in 1..Len(d) : d[l] \in Int /\ d[l] > c + Len(r)
  <2> SUFFICES ASSUME NEW l \in 1..Len(d) PROVE d[l] \in Int /\ d[l] > c + Len(r)
    OBVIOUS
  <2>1. PICK x : x = d[l]
    OBVIOUS
  <2>2. x \in Range(f) /\ x \notin Range(r) /\ x \in Int
    <3>1. x \in Id /\ x \in Range(d)
      BY <1>5, <1>6, <2>1
    <3> QED BY <1>2, <1>5, <3>1
  <2>3. x > c
    BY <1>3, <1>6, <2>2
  <2>4. ~(x <= c + Len(r))
    <3> SUFFICES ASSUME x <= c + Len(r) PROVE FALSE
      OBVIOUS
    <3>1. x - c \in 1..Len(r) /\ x = c + (x - c)
      BY <1>4, <1>7, <2>2, <2>3
    <3> QED BY <1>3, <1>6, <2>2, <3>1
  <2> QED BY <1>4, <1>7, <2>1, <2>2, <2>4
<1>15. \A k \in 1..Len(b), l \in 1..Len(d) : b[k] < d[l]
  BY <1>4, <1>7, <1>13, <1>14
<1>16. Increasing(b \o d)
  BY <1>2, <1>5, <1>11, <1>12, <1>15, JoinIncreasing
<1> QED BY <1>1, <1>10, <1>16

LEMMA StreamRedis ==
  ASSUME TypeOK, WireOK, StreamOK, Redis
  PROVE  StreamOK'
<1>1. PICK c : c = Head(wire)
  OBVIOUS
<1>2. got' = got /\ enabled' = enabled /\ replay' = replay
  BY DEF Redis, redisRest
<1>3. c \in Command /\ c = wire[1] /\ 1 \in 1..Len(wire)
  BY <1>1, HeadTypes DEF Redis
<1> SUFFICES ASSUME NEW t \in Tab PROVE Increasing(got'[t]) /\ HandshakeOK(t)'
  BY DEF StreamOK, Increasing
<1>4. Increasing(got[t]) /\ HandshakeOK(t)
  BY DEF StreamOK
<1>5. stage \in [Tab -> {"none", "reading", "fetched", "open"}] /\ fetched \in [Tab -> Seq(Id)]
  BY DEF TypeOK
<1>6. CASE c.op = "retrieve" /\ c.tab = t
  <2>1. stage[t] = "reading"
    BY <1>3, <1>6 DEF WireOK
  <2>2. PICK S, q : S = {e \in queue : e > Cursor(t)} /\ q = Oldest(S, RetrieveLimit)
    OBVIOUS
  <2>3. fetched'[t] = q
    <3>1. fetched' = [fetched EXCEPT ![t] = retrieveSince(Cursor(t), RetrieveLimit)]
      BY <1>1, <1>6 DEF Redis, retrieve
    <3>2. retrieveSince(Cursor(t), RetrieveLimit) = q
      BY <2>2 DEF retrieveSince
    <3> QED BY <1>5, <3>1, <3>2
  <2>4. S \in SUBSET Id /\ RetrieveLimit \in Nat \ {0} /\ lastId \in Nat
    BY <2>2, ConstantsAssumption DEF TypeOK
  <2>5. q \in Seq(Id) /\ Increasing(q) /\ Range(q) \subseteq S
    BY <2>2, <2>4, OldestIs
  <2>6. \A k \in 1..Len(q) : q[k] \in S
    BY <2>5, RangeIs
  <2>7. Cursor(t)' = Cursor(t)
    BY <1>2 DEF Cursor
  <2>8. enabled /\ Cursor(t) # None /\ \A k \in 1..Len(replay[t]) : replay[t][k] = Cursor(t) + k
    BY <1>4, <2>1 DEF HandshakeOK
  <2>9. \A k \in 1..Len(q) : q[k] > Cursor(t)
    BY <2>2, <2>6
  <2> QED BY <1>2, <1>4, <2>3, <2>5, <2>7, <2>8, <2>9 DEF HandshakeOK, Increasing
<1>7. CASE ~(c.op = "retrieve" /\ c.tab = t)
  <2>1. stage'[t] = stage[t] /\ fetched'[t] = fetched[t]
    BY <1>1, <1>5, <1>7 DEF Redis, append, retrieve, acknowledge, readQueue
  <2> QED BY <1>2, <1>4, <2>1, HandshakeKept
<1> QED BY <1>6, <1>7

LEMMA StreamStep == TypeOK /\ RecordOK /\ WireOK /\ StreamOK /\ [Next]_vars => StreamOK'
<1> SUFFICES ASSUME TypeOK, RecordOK, WireOK, StreamOK, [Next]_vars PROVE StreamOK'
  OBVIOUS
<1>0. /\ stage \in [Tab -> {"none", "reading", "fetched", "open"}] /\ got \in [Tab -> Seq(Id)]
      /\ replay \in [Tab -> Seq(Id)] /\ fetched \in [Tab -> Seq(Id)]
      /\ \A u \in Tab : Increasing(got[u]) /\ HandshakeOK(u)
  BY DEF TypeOK, StreamOK
<1>1. ASSUME NEW t \in Tab, ConnectAtOnce(t) PROVE StreamOK'
  <2>1. /\ got' = [got EXCEPT ![t] = @ \o Since(Cursor(t))] /\ enabled' = enabled
        /\ stage' = [stage EXCEPT ![t] = "open"] /\ replay' = replay /\ fetched' = fetched
    BY <1>1 DEF ConnectAtOnce, openRest
  <2>2. Increasing(got[t] \o Since(Cursor(t)))
    BY <1>0, SinceFollows
  <2>3. got'[t] = got[t] \o Since(Cursor(t)) /\ stage'[t] = "open"
    BY <1>0, <2>1
  <2>4. \A u \in Tab \ {t} : got'[u] = got[u] /\ stage'[u] = stage[u]
    BY <1>0, <2>1
  <2>5. ASSUME NEW u \in Tab, u # t PROVE Increasing(got[u]) /\ HandshakeOK(u)'
    BY <1>0, <2>1, <2>4, <2>5, HandshakeKept
  <2>6. HandshakeOK(t)'
    BY <2>3 DEF HandshakeOK
  <2> QED BY <2>2, <2>3, <2>4, <2>5, <2>6 DEF StreamOK, Increasing
<1>2. ASSUME NEW t \in Tab, Connect(t) PROVE StreamOK'
  <2>1. /\ got' = got /\ enabled' = enabled /\ fetched' = fetched /\ enabled /\ Cursor(t) # None
        /\ stage' = [stage EXCEPT ![t] = "reading"] /\ replay' = [replay EXCEPT ![t] = Since(Cursor(t))]
    BY <1>2 DEF Connect, openRest
  <2>2. ASSUME NEW u \in Tab, u # t PROVE HandshakeOK(u)'
    BY <1>0, <2>1, <2>2, HandshakeKept
  <2>3. Cursor(t)' = Cursor(t)
    BY <2>1 DEF Cursor
  <2>4. \A k \in 1..Len(Since(Cursor(t))) : Since(Cursor(t))[k] = Cursor(t) + k
    BY <1>0, <2>1, SinceFollows
  <2>5. HandshakeOK(t)'
    BY <1>0, <2>1, <2>3, <2>4 DEF HandshakeOK
  <2> QED BY <1>0, <2>1, <2>2, <2>5 DEF StreamOK, Increasing
<1>3. ASSUME NEW t \in Tab, Opened(t) PROVE StreamOK'
  <2>1. /\ got' = [got EXCEPT ![t] = @ \o replay[t] \o Drained(t)] /\ enabled' = enabled
        /\ stage' = [stage EXCEPT ![t] = "open"]
        /\ replay' = [replay EXCEPT ![t] = <<>>] /\ fetched' = [fetched EXCEPT ![t] = <<>>]
    BY <1>3 DEF Opened, openRest
  <2>2. Increasing(got[t] \o replay[t] \o Drained(t))
    BY <1>3, StreamOpened
  <2>3. got'[t] = got[t] \o replay[t] \o Drained(t) /\ stage'[t] = "open"
    BY <1>0, <2>1
  <2>4. \A u \in Tab \ {t} : /\ got'[u] = got[u] /\ stage'[u] = stage[u]
                             /\ replay'[u] = replay[u] /\ fetched'[u] = fetched[u]
    BY <1>0, <2>1
  <2>5. ASSUME NEW u \in Tab, u # t PROVE Increasing(got[u]) /\ HandshakeOK(u)'
    BY <1>0, <2>1, <2>4, <2>5, HandshakeKept
  <2>6. HandshakeOK(t)'
    BY <2>3 DEF HandshakeOK
  <2> QED BY <2>2, <2>3, <2>4, <2>5, <2>6 DEF StreamOK, Increasing
<1>4. ASSUME UNCHANGED <<got, enabled, replay, fetched>>,
             \A u \in Tab : stage'[u] = stage[u] \/ stage'[u] = "none"
      PROVE  StreamOK'
  <2>1. \A u \in Tab : HandshakeOK(u)'
    BY <1>0, <1>4, HandshakeKept
  <2> QED BY <1>0, <1>4, <2>1 DEF StreamOK, Increasing
<1>5. ASSUME NEW t \in Tab, Leave(t) PROVE StreamOK'
  BY <1>0, <1>4, <1>5 DEF Leave, openRest
<1>6. ASSUME NEW j \in Job, ReplayBurst(j) \/ OfflineEmit(j) PROVE StreamOK'
  BY <1>6, StreamEmit DEF ReplayBurst, OfflineEmit
<1>7. ASSUME NEW j \in Job, OfflineRefused(j) \/ Drop(j) \/ DropOne(j) \/ Acknowledge(j) \/ Timeline(j)
      PROVE StreamOK'
  <2>1. UNCHANGED <<got, enabled, replay, fetched>>
    BY <1>7 DEF OfflineRefused, Drop, DropOne, Acknowledge, Timeline, burstRest, dropRest, redisRest,
                handshakeVars
  <2>2. \A u \in Tab : stage'[u] = stage[u] \/ stage'[u] = "none"
    BY <1>7 DEF OfflineRefused, Drop, DropOne, Acknowledge, Timeline, burstRest, handshakeVars
  <2> QED BY <1>4, <2>1, <2>2
<1>8. CASE Redis
  BY <1>8, StreamRedis
<1>9. CASE Purge \/ Expire
  BY <1>4, <1>9 DEF Purge, Expire, redisRest, handshakeVars
<1>10. CASE Crash
  <2>1. got' = got /\ enabled' = enabled /\ stage' = [u \in Tab |-> "none"]
    BY <1>10 DEF Crash
  <2>2. \A u \in Tab : HandshakeOK(u)'
    BY <2>1 DEF HandshakeOK
  <2> QED BY <1>0, <2>1, <2>2 DEF StreamOK, Increasing
<1>11. CASE UNCHANGED vars
  BY <1>4, <1>11 DEF vars, handshakeVars
<1> QED BY <1>1, <1>2, <1>3, <1>5, <1>6, <1>7, <1>8, <1>9, <1>10, <1>11 DEF Next

LEMMA StreamInit == Init => StreamOK
<1> SUFFICES ASSUME Init, NEW t \in Tab PROVE Increasing(got[t]) /\ HandshakeOK(t)
  BY DEF StreamOK
<1>1. Len(got[t]) = 0 /\ stage[t] = "none"
  BY DEF Init
<1> QED BY <1>1 DEF Increasing, HandshakeOK

-----------------------------------------------------------------------------
(* What was drained is purged.                                             *)

\* What the queue has ever held in this process, and somebody may purge.
Handled == queue \cup drained \cup UNION {Range(fetched[t]) : t \in Tab}

\* An event is queued once: its append is the first Redis hears of it.
FreshOK ==
  \A k \in 1..Len(wire) : wire[k].op = "append" =>
    /\ wire[k].id \notin Handled
    /\ \A l \in 1..Len(wire) : wire[l].op = "append" /\ wire[l].id = wire[k].id => l = k

LEMMA HandledIs ==
  ASSUME TypeOK
  PROVE  Handled \subseteq Id
<1>1. \A t \in Tab : fetched[t] \in Seq(Id)
  BY DEF TypeOK
<1>2. \A t \in Tab : Range(fetched[t]) \subseteq Id
  BY <1>1, RangeIs
<1> QED BY <1>2 DEF Handled, TypeOK

LEMMA FreshKept ==
  ASSUME FreshOK, wire' = wire, Handled' \subseteq Handled
  PROVE  FreshOK'
<1>1. PICK H : H = Handled'
  OBVIOUS
<1>2. \A k \in 1..Len(wire) : wire[k].op = "append" => wire[k].id \notin H
  BY <1>1 DEF FreshOK
<1>3. \A k \in 1..Len(wire) : wire[k].op = "append" =>
        \A l \in 1..Len(wire) : wire[l].op = "append" /\ wire[l].id = wire[k].id => l = k
  BY DEF FreshOK
<1> QED BY <1>1, <1>2, <1>3 DEF FreshOK

LEMMA FreshSend ==
  ASSUME TypeOK, FreshOK, NEW c, Send(c), Handled' \subseteq Handled,
         c.op = "append" => c.id \notin Id
  PROVE  FreshOK'
<1>1. PICK w, n, H : w = wire' /\ n = Len(wire) /\ H = Handled'
  OBVIOUS
<1>2. /\ Len(w) = n + 1 /\ n \in Nat
      /\ \A k \in 1..n : k \in 1..Len(w) /\ w[k] = wire[k]
      /\ w[n + 1] = c
      /\ \A k \in 1..Len(w) : k \in 1..n \/ k = n + 1
  BY <1>1, AppendAt DEF Send, TypeOK
<1>3. \A k \in 1..n : wire[k].op = "append" => wire[k].id \in Id
  <2>1. \A k \in 1..n : wire[k] \in Command
    BY <1>1 DEF TypeOK
  <2> QED BY <2>1, CommandTypes
<1>4. H \subseteq Handled /\ H \subseteq Id
  BY <1>1, HandledIs
<1>5. \A k \in 1..n : wire[k].op = "append" =>
        /\ wire[k].id \notin H
        /\ \A l \in 1..n : wire[l].op = "append" /\ wire[l].id = wire[k].id => l = k
  BY <1>1, <1>4 DEF FreshOK
<1>6. \A k \in 1..Len(w) : w[k].op = "append" =>
        /\ w[k].id \notin H
        /\ \A l \in 1..Len(w) : w[l].op = "append" /\ w[l].id = w[k].id => l = k
  <2> SUFFICES ASSUME NEW k \in 1..Len(w), w[k].op = "append"
               PROVE  /\ w[k].id \notin H
                      /\ \A l \in 1..Len(w) : w[l].op = "append" /\ w[l].id = w[k].id => l = k
    OBVIOUS
  <2>1. CASE k \in 1..n
    BY <1>2, <1>3, <1>5, <2>1
  <2>2. CASE k = n + 1
    BY <1>2, <1>3, <1>4, <2>2
  <2> QED BY <1>2, <2>1, <2>2
<1> QED BY <1>1, <1>6 DEF FreshOK

LEMMA FreshRedis ==
  ASSUME TypeOK, FreshOK, Redis
  PROVE  FreshOK'
<1>1. PICK w, c, n, H : w = wire' /\ c = Head(wire) /\ n = Len(wire) /\ H = Handled'
  OBVIOUS
<1>2. /\ c = wire[1] /\ c \in Command /\ Len(w) = n - 1 /\ n \in Nat \ {0}
      /\ \A k \in 1..Len(w) : k + 1 \in 1..n /\ w[k] = wire[k + 1]
  BY <1>1, HeadTypes DEF Redis
<1>3. drained' = drained /\ fetched \in [Tab -> Seq(Id)] /\ queue \subseteq Id /\ lastId \in Nat
  BY DEF Redis, redisRest, TypeOK
<1>4. \A x \in H : x \in Handled \/ (c.op = "append" /\ x = c.id)
  <2>1. CASE c.op = "append"
    <3>1. queue' = Newest(queue \cup {c.id}, MaxPerUser) /\ fetched' = fetched
      BY <1>1, <2>1 DEF Redis, append, Trim
    <3>2. queue' \subseteq queue \cup {c.id}
      BY <3>1 DEF Newest
    <3> QED BY <1>1, <1>3, <2>1, <3>1, <3>2 DEF Handled
  <2>2. CASE c.op = "retrieve"
    <3>1. PICK t \in Tab : t = c.tab
      BY <1>2, <2>2, CommandTypes
    <3>2. PICK S, q : S = {e \in queue : e > Cursor(t)} /\ q = Oldest(S, RetrieveLimit)
      OBVIOUS
    <3>3. fetched' = [fetched EXCEPT ![t] = q] /\ queue' = queue
      BY <1>1, <2>2, <3>1, <3>2 DEF Redis, retrieve, retrieveSince
    <3>4. S \in SUBSET Id /\ RetrieveLimit \in Nat \ {0}
      BY <1>3, <3>2, ConstantsAssumption
    <3>5. Range(q) \subseteq queue
      BY <1>3, <3>2, <3>4, OldestIs
    <3>6. \A u \in Tab : fetched'[u] = IF u = t THEN q ELSE fetched[u]
      BY <1>3, <3>3
    <3> QED BY <1>1, <1>3, <3>3, <3>5, <3>6 DEF Handled
  <2>3. CASE c.op \notin {"append", "retrieve"}
    <3>1. queue' = queue /\ fetched' = fetched
      BY <1>1, <2>3 DEF Redis, acknowledge, readQueue
    <3> QED BY <1>1, <1>3, <3>1 DEF Handled
  <2> QED BY <2>1, <2>2, <2>3
<1>5. \A k \in 1..n : wire[k].op = "append" =>
        /\ wire[k].id \notin Handled
        /\ \A l \in 1..n : wire[l].op = "append" /\ wire[l].id = wire[k].id => l = k
  BY <1>1 DEF FreshOK
<1>6. ASSUME NEW k \in 1..Len(w), w[k].op = "append"
      PROVE  /\ w[k].id \notin H
             /\ \A l \in 1..Len(w) : w[l].op = "append" /\ w[l].id = w[k].id => l = k
  <2>1. PICK i \in 1..n : i = k + 1 /\ w[k] = wire[i]
    BY <1>2
  <2>2. 1 \in 1..n /\ i # 1
    BY <1>2, <2>1
  <2>3. w[k].id \notin Handled /\ ~(c.op = "append" /\ w[k].id = c.id)
    BY <1>2, <1>5, <1>6, <2>1, <2>2
  <2>4. ASSUME NEW l \in 1..Len(w), w[l].op = "append", w[l].id = w[k].id PROVE l = k
    <3>1. l + 1 = i
      BY <1>2, <1>5, <1>6, <2>1, <2>4
    <3> QED BY <1>2, <2>1, <3>1
  <2> QED BY <1>4, <2>3, <2>4
<1> QED BY <1>1, <1>6 DEF FreshOK

LEMMA FreshInit == Init => FreshOK
<1> SUFFICES ASSUME Init PROVE FreshOK
  OBVIOUS
<1>1. Len(wire) = 0
  BY DEF Init
<1> QED BY <1>1 DEF FreshOK

\* What a stream drained was fetched for it.
LEMMA HandledOpened ==
  ASSUME TypeOK, NEW t \in Tab, Opened(t)
  PROVE  Handled' \subseteq Handled
<1>1. /\ fetched \in [Tab -> Seq(Id)] /\ lastId \in Nat
      /\ fetched' = [fetched EXCEPT ![t] = <<>>] /\ queue' = queue
      /\ drained' = drained \cup Range(Drained(t))
  BY DEF Opened, TypeOK, openRest
<1>2. Range(Drained(t)) \subseteq Range(fetched[t])
  BY <1>1, DrainedIs
<1>3. \A u \in Tab : fetched'[u] = IF u = t THEN <<>> ELSE fetched[u]
  BY <1>1
<1>4. Range(<<>>) = {}
  BY DEF Range
<1> QED BY <1>1, <1>2, <1>3, <1>4 DEF Handled

LEMMA FreshStep == TypeOK /\ FreshOK /\ [Next]_vars => FreshOK'
<1> SUFFICES ASSUME TypeOK, FreshOK, [Next]_vars PROVE FreshOK'
  OBVIOUS
<1>1. ASSUME queue' \subseteq queue, drained' = drained, fetched' = fetched PROVE Handled' \subseteq Handled
  BY <1>1 DEF Handled
<1>2. ASSUME NEW t \in Tab, ConnectAtOnce(t) \/ Leave(t) PROVE FreshOK'
  BY <1>1, <1>2, FreshKept DEF ConnectAtOnce, Leave, openRest
<1>3. ASSUME NEW t \in Tab, Connect(t) PROVE FreshOK'
  <2>1. Send([op |-> "retrieve", tab |-> t]) /\ Handled' \subseteq Handled
    BY <1>1, <1>3 DEF Connect, openRest
  <2>2. [op |-> "retrieve", tab |-> t].op # "append"
    OBVIOUS
  <2> QED BY <2>1, <2>2, FreshSend
<1>4. ASSUME NEW t \in Tab, Opened(t) PROVE FreshOK'
  <2>1. wire' = wire \/ Send([op |-> "ack", by |-> t, upTo |-> Last(Drained(t))])
    BY <1>4 DEF Opened
  <2>2. [op |-> "ack", by |-> t, upTo |-> Last(Drained(t))].op # "append"
    OBVIOUS
  <2>3. Handled' \subseteq Handled
    BY <1>4, HandledOpened
  <2> QED BY <2>1, <2>2, <2>3, FreshKept, FreshSend
<1>5. ASSUME NEW j \in Job, ReplayBurst(j) \/ OfflineEmit(j) PROVE FreshOK'
  <2>1. Burst(j)
    BY <1>5 DEF ReplayBurst, OfflineEmit
  <2>2. Handled' \subseteq Handled
    BY <1>1, <2>1 DEF Burst, burstRest, handshakeVars
  <2>3. wire' = wire \/ Send([op |-> "append", id |-> lastId + 1])
    BY <2>1 DEF Burst, EmitToUser
  <2>4. [op |-> "append", id |-> lastId + 1].id \notin Id
    BY DEF Id, TypeOK
  <2> QED BY <2>2, <2>3, <2>4, FreshKept, FreshSend
<1>6. ASSUME NEW j \in Job, OfflineRefused(j) \/ Drop(j) \/ DropOne(j) PROVE FreshOK'
  BY <1>1, <1>6, FreshKept DEF OfflineRefused, Drop, DropOne, dropRest, burstRest, handshakeVars
<1>7. ASSUME NEW j \in Job, Acknowledge(j) PROVE FreshOK'
  <2>1. PICK e : Send([op |-> "ack", by |-> None, upTo |-> e])
    BY <1>7 DEF Acknowledge
  <2>2. [op |-> "ack", by |-> None, upTo |-> e].op # "append" /\ Handled' \subseteq Handled
    BY <1>1, <1>7 DEF Acknowledge, redisRest
  <2> QED BY <2>1, <2>2, FreshSend
<1>8. ASSUME NEW j \in Job, Timeline(j) PROVE FreshOK'
  <2>1. wire' = wire \/ Send([op |-> "peek", job |-> j])
    BY <1>8 DEF Timeline
  <2>2. [op |-> "peek", job |-> j].op # "append" /\ Handled' \subseteq Handled
    BY <1>1, <1>8 DEF Timeline, burstRest, handshakeVars
  <2> QED BY <2>1, <2>2, FreshKept, FreshSend
<1>9. CASE Redis
  BY <1>9, FreshRedis
<1>10. CASE Purge \/ Expire
  BY <1>1, <1>10, FreshKept DEF Purge, Expire, redisRest, handshakeVars
<1>11. CASE Crash
  <2>1. Len(wire') = 0
    BY <1>11 DEF Crash
  <2> QED BY <2>1 DEF FreshOK
<1>12. CASE UNCHANGED vars
  BY <1>1, <1>12, FreshKept DEF vars, handshakeVars
<1> QED BY <1>2, <1>3, <1>4, <1>5, <1>6, <1>7, <1>8, <1>9, <1>10, <1>11, <1>12 DEF Next

-----------------------------------------------------------------------------
LEMMA PurgedKept ==
  ASSUME DrainedIsPurged, drained' \cap queue' \subseteq drained \cap queue,
         purging' = purging, wire' = wire
  PROVE  DrainedIsPurged'
BY DEF DrainedIsPurged

LEMMA PurgedSend ==
  ASSUME TypeOK, DrainedIsPurged, NEW c, Send(c), purging' = purging,
         \A e \in drained' \cap queue' : \/ e \in drained \cap queue
                                         \/ c.op = "ack" /\ e <= c.upTo
  PROVE  DrainedIsPurged'
<1>1. PICK w, n : w = wire' /\ n = Len(wire)
  OBVIOUS
<1>2. /\ Len(w) = n + 1 /\ n \in Nat
      /\ \A k \in 1..n : k \in 1..Len(w) /\ w[k] = wire[k]
      /\ n + 1 \in 1..Len(w) /\ w[n + 1] = c
  BY <1>1, AppendAt DEF Send, TypeOK
<1>3. DOMAIN wire = 1..n /\ DOMAIN w = 1..Len(w)
  BY <1>1 DEF TypeOK, Send
<1> SUFFICES ASSUME NEW e \in drained' \cap queue'
             PROVE  \/ \E k \in DOMAIN w : w[k].op = "ack" /\ e <= w[k].upTo
                    \/ \E p \in purging : e \in p.ids
  BY <1>1 DEF DrainedIsPurged
<1>4. CASE e \in drained \cap queue
  <2>1. \/ \E k \in DOMAIN wire : wire[k].op = "ack" /\ e <= wire[k].upTo
        \/ \E p \in purging : e \in p.ids
    BY <1>4 DEF DrainedIsPurged
  <2> QED BY <1>2, <1>3, <2>1
<1>5. CASE c.op = "ack" /\ e <= c.upTo
  BY <1>2, <1>3, <1>5
<1> QED BY <1>4, <1>5

LEMMA PurgedOpened ==
  ASSUME TypeOK, StreamOK, DrainedIsPurged, NEW t \in Tab, Opened(t)
  PROVE  DrainedIsPurged'
<1>1. PICK d : d = Drained(t)
  OBVIOUS
<1>2. /\ drained' = drained \cup Range(d) /\ queue' = queue /\ purging' = purging
      /\ stage[t] = "fetched"
      /\ IF d # <<>> THEN Send([op |-> "ack", by |-> t, upTo |-> Last(d)]) ELSE wire' = wire
  BY <1>1 DEF Opened, openRest
<1>3. Increasing(fetched[t]) /\ lastId \in Nat /\ fetched \in [Tab -> Seq(Id)]
  BY <1>2 DEF StreamOK, HandshakeOK, TypeOK
<1>4. d \in Seq(Id) /\ Increasing(d)
  BY <1>1, <1>3, DrainedIs
<1>5. CASE d = <<>>
  <2>1. Range(d) = {}
    BY <1>5 DEF Range
  <2> QED BY <1>2, <1>5, <2>1, PurgedKept
<1>6. CASE d # <<>>
  <2>1. PICK c : c = [op |-> "ack", by |-> t, upTo |-> Last(d)]
    OBVIOUS
  <2>2. ASSUME NEW e \in Range(d) PROVE e <= Last(d)
    <3>1. PICK k \in 1..Len(d) : e = d[k]
      BY <1>4, RangeIs
    <3>2. Len(d) \in 1..Len(d) /\ Last(d) = d[Len(d)] /\ Len(d) \in Nat
      BY <1>4, <3>1 DEF Last
    <3>3. k = Len(d) \/ k < Len(d)
      BY <3>2
    <3>4. d[k] \in Int /\ d[Len(d)] \in Int
      <4>1. d[k] \in Id /\ d[Len(d)] \in Id
        BY <1>4, <3>2
      <4> QED BY <4>1 DEF Id
    <3> QED BY <1>4, <3>1, <3>2, <3>3, <3>4 DEF Increasing
  <2>3. c.op = "ack" /\ c.upTo = Last(d) /\ Send(c)
    BY <1>2, <1>6, <2>1
  <2>4. \A e \in drained' \cap queue' : e \in drained \cap queue \/ (c.op = "ack" /\ e <= c.upTo)
    BY <1>2, <2>2, <2>3
  <2> QED BY <1>2, <2>3, <2>4, PurgedSend
<1> QED BY <1>5, <1>6

LEMMA PurgedRedis ==
  ASSUME TypeOK, FreshOK, DrainedIsPurged, Redis
  PROVE  DrainedIsPurged'
<1>1. PICK w, c, n : w = wire' /\ c = Head(wire) /\ n = Len(wire)
  OBVIOUS
<1>2. /\ c = wire[1] /\ c \in Command /\ Len(w) = n - 1 /\ n \in Nat \ {0} /\ w = Tail(wire)
  BY <1>1, HeadTypes DEF Redis
<1>3. DOMAIN wire = 1..n /\ DOMAIN w = 1..Len(w)
  BY <1>1, <1>2, HeadTypes DEF TypeOK, Redis
<1>4. \A i \in 2..n : i - 1 \in 1..Len(w) /\ w[i - 1] = wire[i]
  <2> SUFFICES ASSUME NEW i \in 2..n PROVE i - 1 \in 1..Len(w) /\ w[i - 1] = wire[i]
    OBVIOUS
  <2>1. PICK k \in 1..Len(w) : k = i - 1
    <3>1. i - 1 \in 1..Len(w)
      BY <1>2
    <3> QED BY <3>1
  <2>2. w[k] = wire[k + 1]
    BY <1>1, <1>2, <2>1, HeadTypes DEF Redis
  <2> QED BY <1>2, <2>1, <2>2
<1>5. drained' \cap queue' \subseteq drained \cap queue
  <2>1. drained' = drained
    BY DEF Redis, redisRest
  <2>2. CASE c.op = "append"
    <3>1. queue' = Newest(queue \cup {c.id}, MaxPerUser)
      BY <1>1, <2>2 DEF Redis, append, Trim
    <3>2. queue' \subseteq queue \cup {c.id}
      BY <3>1 DEF Newest
    <3>3. c.id \notin drained
      <4>1. 1 \in 1..Len(wire)
        BY <1>1, <1>2
      <4> QED BY <1>2, <2>2, <4>1 DEF FreshOK, Handled
    <3> QED BY <2>1, <3>2, <3>3
  <2>3. CASE c.op # "append"
    <3>1. queue' = queue
      BY <1>1, <2>3 DEF Redis, retrieve, acknowledge, readQueue
    <3> QED BY <2>1, <3>1
  <2> QED BY <2>2, <2>3
<1>6. purging \subseteq purging'
  BY DEF Redis, append, retrieve, acknowledge, readQueue
<1> SUFFICES ASSUME NEW e \in drained \cap queue
             PROVE  \/ \E k \in DOMAIN w : w[k].op = "ack" /\ e <= w[k].upTo
                    \/ \E p \in purging' : e \in p.ids
  BY <1>1, <1>5 DEF DrainedIsPurged
<1>7. \/ \E k \in 1..n : wire[k].op = "ack" /\ e <= wire[k].upTo
      \/ \E p \in purging : e \in p.ids
  BY <1>3 DEF DrainedIsPurged
<1>8. CASE \E p \in purging : e \in p.ids
  BY <1>6, <1>8
<1>9. CASE \E k \in 2..n : wire[k].op = "ack" /\ e <= wire[k].upTo
  BY <1>3, <1>4, <1>9
<1>10. CASE c.op = "ack" /\ e <= c.upTo
  <2>1. e \in covered(c.upTo)
    BY <1>10 DEF covered
  <2>2. purging' = purging \cup {[by |-> c.by, ids |-> covered(c.upTo)]}
    <3>1. acknowledge(c)
      BY <1>1, <1>10 DEF Redis
    <3>2. covered(c.upTo) # {}
      BY <2>1
    <3> QED BY <3>1, <3>2 DEF acknowledge
  <2>3. [by |-> c.by, ids |-> covered(c.upTo)].ids = covered(c.upTo)
    OBVIOUS
  <2> QED BY <2>1, <2>2, <2>3
<1>11. \A k \in 1..n : k = 1 \/ k \in 2..n
  BY <1>2
<1> QED BY <1>2, <1>7, <1>8, <1>9, <1>10, <1>11

LEMMA PurgedStep ==
  TypeOK /\ StreamOK /\ FreshOK /\ DrainedIsPurged /\ [Next]_vars => DrainedIsPurged'
<1> SUFFICES ASSUME TypeOK, StreamOK, FreshOK, DrainedIsPurged, [Next]_vars PROVE DrainedIsPurged'
  OBVIOUS
<1>1. ASSUME NEW t \in Tab, ConnectAtOnce(t) \/ Leave(t) PROVE DrainedIsPurged'
  BY <1>1, PurgedKept DEF ConnectAtOnce, Leave, openRest
<1>2. ASSUME NEW t \in Tab, Connect(t) PROVE DrainedIsPurged'
  <2>1. /\ Send([op |-> "retrieve", tab |-> t]) /\ drained' = drained /\ queue' = queue
        /\ purging' = purging
    BY <1>2 DEF Connect, openRest
  <2> QED BY <2>1, PurgedSend
<1>3. ASSUME NEW t \in Tab, Opened(t) PROVE DrainedIsPurged'
  BY <1>3, PurgedOpened
<1>4. ASSUME NEW j \in Job, ReplayBurst(j) \/ OfflineEmit(j) PROVE DrainedIsPurged'
  <2>1. Burst(j)
    BY <1>4 DEF ReplayBurst, OfflineEmit
  <2>2. drained' = drained /\ queue' = queue /\ purging' = purging
    BY <2>1 DEF Burst, burstRest
  <2>3. wire' = wire \/ Send([op |-> "append", id |-> lastId + 1])
    BY <2>1 DEF Burst, EmitToUser
  <2> QED BY <2>2, <2>3, PurgedKept, PurgedSend
<1>5. ASSUME NEW j \in Job, OfflineRefused(j) \/ Drop(j) \/ DropOne(j) PROVE DrainedIsPurged'
  BY <1>5, PurgedKept DEF OfflineRefused, Drop, DropOne, dropRest, burstRest
<1>6. ASSUME NEW j \in Job, Acknowledge(j) PROVE DrainedIsPurged'
  <2>1. PICK e : Send([op |-> "ack", by |-> None, upTo |-> e])
    BY <1>6 DEF Acknowledge
  <2>2. drained' = drained /\ queue' = queue /\ purging' = purging
    BY <1>6 DEF Acknowledge, redisRest
  <2> QED BY <2>1, <2>2, PurgedSend
<1>7. ASSUME NEW j \in Job, Timeline(j) PROVE DrainedIsPurged'
  <2>1. wire' = wire \/ Send([op |-> "peek", job |-> j])
    BY <1>7 DEF Timeline
  <2>2. drained' = drained /\ queue' = queue /\ purging' = purging
    BY <1>7 DEF Timeline, burstRest
  <2> QED BY <2>1, <2>2, PurgedKept, PurgedSend
<1>8. CASE Redis
  BY <1>8, PurgedRedis
<1>9. CASE Purge
  <2>1. PICK p \in purging : queue' = queue \ p.ids /\ purging' = purging \ {p}
    BY <1>9 DEF Purge
  <2>2. drained' = drained /\ wire' = wire
    BY <1>9 DEF Purge, redisRest
  <2> QED BY <2>1, <2>2 DEF DrainedIsPurged
<1>10. CASE Expire
  BY <1>10 DEF Expire, DrainedIsPurged
<1>11. CASE Crash
  BY <1>11 DEF Crash, DrainedIsPurged
<1>12. CASE UNCHANGED vars
  BY <1>12, PurgedKept DEF vars
<1> QED BY <1>1, <1>2, <1>3, <1>4, <1>5, <1>6, <1>7, <1>8, <1>9, <1>10, <1>11, <1>12 DEF Next

-----------------------------------------------------------------------------
(* Nothing else is lost.                                                   *)

\* What a tab has heard or was given up for it.
Settled(t) == Has(t) \cup forgone[t]

\* What was given to the queue is there, or on its way, or settled.
QueuedOK ==
  /\ \A t \in Tab : \A e \in Id \ unqueued : e \in queue \/ e \in Appending \/ e \in Settled(t)
  /\ ~enabled => Id \subseteq unqueued

\* Behind a cursor, and behind an open stream, everything is settled.
PastOK == \A t \in Tab : Cursor(t) # None => \A e \in Id : e <= Cursor(t) => e \in Settled(t)
OpenOK == \A t \in Tab : stage[t] = "open" => Id \subseteq Settled(t)

\* A drain that Redis has still to run will find the rest in the queue, by
\* the commands before it; one that has run holds the rest.
ReadingOK ==
  \A k \in 1..Len(wire) : wire[k].op = "retrieve" =>
    \A e \in Id : \/ e \in Settled(wire[k].tab) \/ e \in Range(replay[wire[k].tab]) \/ e \in queue
                  \/ \E l \in 1..(k - 1) : wire[l].op = "append" /\ wire[l].id = e
FetchedOK ==
  \A t \in Tab : stage[t] = "fetched" =>
    \A e \in Id : e \in Settled(t) \/ e \in Range(replay[t]) \/ e \in Range(fetched[t])

\* A stream acknowledges what its tab has.
AckOK ==
  /\ \A k \in 1..Len(wire) : wire[k].op = "ack" /\ wire[k].by # None =>
       \A e \in 1..wire[k].upTo : e \in Settled(wire[k].by)
  /\ \A p \in purging : p.by # None => p.ids \subseteq Settled(p.by)

\* What an action forgoes is settled.
LEMMA ForgoSettles ==
  ASSUME NEW t \in Tab, NEW X, forgone'[t] = forgone[t] \cup (X \ Has(t)), Has(t) \subseteq Has(t)'
  PROVE  Settled(t) \subseteq Settled(t)' /\ X \subseteq Settled(t)'
BY DEF Settled

\* What a tab has it keeps.
LEMMA HasGrows ==
  ASSUME TypeOK, RecordOK, [Next]_vars, NEW t \in Tab
  PROVE  Has(t) \subseteq Has(t)'
<1>0. got \in [Tab -> Seq(Id)] /\ lastId \in Nat /\ replay \in [Tab -> Seq(Id)]
      /\ fetched \in [Tab -> Seq(Id)] /\ ring \in Seq(Id)
  BY DEF TypeOK
<1>1. ASSUME got' = got PROVE Has(t) \subseteq Has(t)'
  BY <1>1 DEF Has
<1>2. ASSUME NEW u \in Tab, ConnectAtOnce(u) PROVE Has(t) \subseteq Has(t)'
  <2>1. \A c : c \notin Range(ring) => Since(c) = <<>>
    BY <1>0, SinceIs
  <2>2. \A c : c \in Range(ring) => Since(c) \in Seq(Id)
    BY <1>0, SinceIs
  <2> <<>> \in Seq(Id)
    OBVIOUS
  <2>3. \A c : Since(c) \in Seq(Id)
    BY <2>1, <2>2
  <2>4. Range(got[u] \o Since(Cursor(u))) = Range(got[u]) \cup Range(Since(Cursor(u)))
    BY <1>0, <2>3, JoinRange
  <2>5. got' = [got EXCEPT ![u] = @ \o Since(Cursor(u))]
    BY <1>2 DEF ConnectAtOnce
  <2>6. got'[t] = got[t] \/ (u = t /\ got'[t] = got[u] \o Since(Cursor(u)))
    BY <1>0, <2>5
  <2> QED BY <2>4, <2>6 DEF Has
<1>3. ASSUME NEW u \in Tab, Opened(u) PROVE Has(t) \subseteq Has(t)'
  <2>1. Drained(u) \in Seq(Id)
    BY <1>0, DrainedIs
  <2>0. PICK b : b = got[u] \o replay[u]
    OBVIOUS
  <2>2. b \in Seq(Id) /\ Range(b) = Range(got[u]) \cup Range(replay[u])
    BY <1>0, <2>0, JoinRange
  <2>3. Range(b \o Drained(u)) = Range(b) \cup Range(Drained(u))
    BY <2>1, <2>2, JoinRange
  <2>4. got' = [got EXCEPT ![u] = @ \o replay[u] \o Drained(u)]
    BY <1>3 DEF Opened
  <2>5. got'[t] = got[t] \/ (u = t /\ got'[t] = b \o Drained(u))
    BY <1>0, <2>0, <2>4
  <2> QED BY <2>2, <2>3, <2>5 DEF Has
<1>4. ASSUME NEW j \in Job, ReplayBurst(j) \/ OfflineEmit(j) PROVE Has(t) \subseteq Has(t)'
  <2>1. got' = [u \in Tab |-> IF u \in Live THEN Append(got[u], lastId + 1) ELSE got[u]]
    BY <1>4 DEF ReplayBurst, OfflineEmit, Burst, EmitToUser
  <2>2. got[t] \in Seq(Nat) /\ lastId + 1 \in Nat
    BY <1>0 DEF Id
  <2>3. Range(Append(got[t], lastId + 1)) = Range(got[t]) \cup {lastId + 1}
    BY <2>2, AppendRange
  <2>4. got'[t] = got[t] \/ got'[t] = Append(got[t], lastId + 1)
    BY <2>1
  <2> QED BY <2>3, <2>4 DEF Has
<1>5. ASSUME NEW u \in Tab, Connect(u) \/ Leave(u) PROVE Has(t) \subseteq Has(t)'
  BY <1>1, <1>5 DEF Connect, Leave
<1>6. ASSUME NEW j \in Job, OfflineRefused(j) \/ Drop(j) \/ DropOne(j) \/ Acknowledge(j) \/ Timeline(j)
      PROVE Has(t) \subseteq Has(t)'
  BY <1>1, <1>6 DEF OfflineRefused, Drop, DropOne, Acknowledge, Timeline, dropRest, redisRest
<1>7. CASE Redis \/ Purge \/ Expire \/ Crash \/ UNCHANGED vars
  BY <1>1, <1>7 DEF Redis, Purge, Expire, Crash, redisRest, vars
<1> QED BY <1>2, <1>3, <1>4, <1>5, <1>6, <1>7 DEF Next

\* What is settled stays so, and what leaves the queue is settled: for the
\* tab that had it purged, because it has it.
LEMMA SettledStep ==
  ASSUME TypeOK, RecordOK, AckOK, [Next]_vars, NEW t \in Tab
  PROVE  Settled(t) \subseteq Settled(t)' /\ queue \subseteq queue' \cup Settled(t)'
<1>0. Has(t) \subseteq Has(t)' /\ forgone \in [Tab -> SUBSET Id]
  BY HasGrows DEF TypeOK
<1>1. ASSUME forgone' = forgone, queue' = queue
      PROVE  Settled(t) \subseteq Settled(t)' /\ queue \subseteq queue' \cup Settled(t)'
  BY <1>0, <1>1 DEF Settled
<1>2. ASSUME NEW X, forgone'[t] = forgone[t] \cup (X \ Has(t)), queue \subseteq queue' \cup X
      PROVE  Settled(t) \subseteq Settled(t)' /\ queue \subseteq queue' \cup Settled(t)'
  BY <1>0, <1>2, ForgoSettles
<1>3. ASSUME NEW u \in Tab, ConnectAtOnce(u)
      PROVE  Settled(t) \subseteq Settled(t)' /\ queue \subseteq queue' \cup Settled(t)'
  <2>1. queue' = queue /\ \E X : forgone'[t] = forgone[t] \cup (X \ Has(t))
    BY <1>3 DEF ConnectAtOnce, openRest, Forgo
  <2> QED BY <1>2, <2>1
<1>4. ASSUME NEW u \in Tab, Connect(u)
      PROVE  Settled(t) \subseteq Settled(t)' /\ queue \subseteq queue' \cup Settled(t)'
  <2>1. queue' = queue /\ \E X : forgone'[t] = forgone[t] \cup (X \ Has(t))
    BY <1>4 DEF Connect, openRest, Forgo
  <2> QED BY <1>2, <2>1
<1>5. ASSUME NEW u \in Tab, Opened(u) \/ Leave(u)
      PROVE  Settled(t) \subseteq Settled(t)' /\ queue \subseteq queue' \cup Settled(t)'
  BY <1>1, <1>5 DEF Opened, Leave, openRest
<1>6. ASSUME NEW j \in Job, ReplayBurst(j) \/ OfflineEmit(j)
      PROVE  Settled(t) \subseteq Settled(t)' /\ queue \subseteq queue' \cup Settled(t)'
  <2>1. queue' = queue
    BY <1>6 DEF ReplayBurst, OfflineEmit, Burst, burstRest
  <2>2. \E X : forgone'[t] = forgone[t] \cup (X \ Has(t))
    BY <1>6 DEF ReplayBurst, OfflineEmit, Burst, EmitToUser, Forgo
  <2> QED BY <1>2, <2>1, <2>2
<1>7. ASSUME NEW j \in Job, OfflineRefused(j) \/ Drop(j) \/ DropOne(j) \/ Acknowledge(j) \/ Timeline(j)
      PROVE  Settled(t) \subseteq Settled(t)' /\ queue \subseteq queue' \cup Settled(t)'
  BY <1>1, <1>7 DEF OfflineRefused, Drop, DropOne, Acknowledge, Timeline, dropRest, burstRest
<1>8. CASE Redis
  <2>1. PICK c : c = Head(wire)
    OBVIOUS
  <2>2. CASE c.op = "append" /\ append(c)
    <3>1. PICK all : all = queue \cup {c.id}
      OBVIOUS
    <3>2. /\ queue' = Newest(all, MaxPerUser)
          /\ forgone'[t] = forgone[t] \cup ((all \ Newest(all, MaxPerUser)) \ Has(t))
      BY <2>2, <3>1 DEF append, Trim, Forgo
    <3>3. queue \subseteq queue' \cup (all \ Newest(all, MaxPerUser))
      BY <3>1, <3>2
    <3> QED BY <1>2, <3>2, <3>3
  <2>3. CASE c.op = "retrieve" /\ retrieve(c)
    <3>1. queue' = queue /\ \E X : forgone'[t] = forgone[t] \cup (X \ Has(t))
      BY <2>3 DEF retrieve, Forgo
    <3> QED BY <1>2, <3>1
  <2>4. CASE (c.op = "ack" /\ acknowledge(c)) \/ (c.op = "peek" /\ readQueue(c))
    BY <1>1, <2>4 DEF acknowledge, readQueue
  <2> QED BY <1>8, <2>1, <2>2, <2>3, <2>4 DEF Redis
<1>9. CASE Purge
  <2>1. PICK p \in purging : queue' = queue \ p.ids /\ Forgo(LAMBDA u : IF u = p.by THEN {} ELSE p.ids)
    BY <1>9 DEF Purge
  <2>2. CASE t = p.by
    <3>1. t # None
      BY ConstantsAssumption
    <3>2. p.ids \subseteq Settled(t)
      BY <2>2, <3>1 DEF AckOK
    <3>3. forgone'[t] = forgone[t]
      BY <1>0, <2>1, <2>2 DEF Forgo
    <3>4. Settled(t) \subseteq Settled(t)'
      BY <1>0, <3>3 DEF Settled
    <3> QED BY <2>1, <3>2, <3>4
  <2>3. CASE t # p.by
    <3>1. forgone'[t] = forgone[t] \cup (p.ids \ Has(t))
      BY <2>1, <2>3 DEF Forgo
    <3> QED BY <1>2, <2>1, <3>1
  <2> QED BY <2>2, <2>3
<1>10. CASE Expire
  <2>1. forgone'[t] = forgone[t] \cup (queue \ Has(t))
    BY <1>10 DEF Expire, Forgo
  <2> QED BY <1>2, <2>1
<1>11. CASE Crash
  <2>1. queue' = queue /\ \E X : forgone'[t] = forgone[t] \cup (X \ Has(t))
    BY <1>11 DEF Crash, Forgo
  <2> QED BY <1>2, <2>1
<1>12. CASE UNCHANGED vars
  BY <1>1, <1>12 DEF vars
<1> QED BY <1>3, <1>4, <1>5, <1>6, <1>7, <1>8, <1>9, <1>10, <1>11, <1>12 DEF Next

LEMMA AppendingIs ==
  ASSUME TypeOK
  PROVE  \A x : x \in Appending <=> \E k \in 1..Len(wire) : wire[k].op = "append" /\ wire[k].id = x
<1>1. DOMAIN wire = 1..Len(wire)
  BY DEF TypeOK
<1> QED BY <1>1 DEF Appending

\* An event on its way to the queue arrives there, or is given up.
LEMMA AppendingStep ==
  ASSUME TypeOK, RecordOK, [Next]_vars, NEW t \in Tab
  PROVE  Appending \subseteq Appending' \cup queue' \cup Settled(t)'
<1>1. TypeOK'
  BY TypesStep
<1>2. PICK w : w = wire'
  OBVIOUS
<1>3. /\ \A x : x \in Appending <=> \E k \in 1..Len(wire) : wire[k].op = "append" /\ wire[k].id = x
      /\ \A x : x \in Appending' <=> \E k \in 1..Len(w) : w[k].op = "append" /\ w[k].id = x
  <2>1. \A x : x \in Appending <=> \E k \in 1..Len(wire) : wire[k].op = "append" /\ wire[k].id = x
    BY AppendingIs
  <2>2. DOMAIN w = 1..Len(w)
    BY <1>1, <1>2 DEF TypeOK
  <2>3. \A x : x \in Appending' <=> \E k \in 1..Len(w) : w[k].op = "append" /\ w[k].id = x
    BY <1>2, <2>2 DEF Appending
  <2> QED BY <2>1, <2>3
<1>4. ASSUME wire' = wire PROVE Appending \subseteq Appending'
  BY <1>2, <1>3, <1>4
<1>5. ASSUME NEW c, Send(c) PROVE Appending \subseteq Appending'
  <2>1. \A k \in 1..Len(wire) : k \in 1..Len(w) /\ w[k] = wire[k]
    BY <1>2, <1>5, AppendAt DEF Send, TypeOK
  <2> QED BY <1>3, <2>1
<1>6. ASSUME NEW u \in Tab, ConnectAtOnce(u) \/ Connect(u) \/ Opened(u) \/ Leave(u)
      PROVE Appending \subseteq Appending'
  BY <1>4, <1>5, <1>6 DEF ConnectAtOnce, Connect, Opened, Leave
<1>7. ASSUME NEW j \in Job, ReplayBurst(j) \/ OfflineEmit(j) PROVE Appending \subseteq Appending'
  BY <1>4, <1>5, <1>7 DEF ReplayBurst, OfflineEmit, Burst, EmitToUser
<1>8. ASSUME NEW j \in Job, OfflineRefused(j) \/ Drop(j) \/ DropOne(j) \/ Acknowledge(j) \/ Timeline(j)
      PROVE Appending \subseteq Appending'
  BY <1>4, <1>5, <1>8 DEF OfflineRefused, Drop, DropOne, Acknowledge, Timeline, dropRest
<1>9. CASE Purge \/ Expire \/ UNCHANGED vars
  BY <1>4, <1>9 DEF Purge, Expire, vars
<1>10. CASE Crash
  <2>1. forgone'[t] = forgone[t] \cup (Appending \ Has(t))
    BY <1>10 DEF Crash, Forgo
  <2>2. Has(t) \subseteq Has(t)'
    BY HasGrows
  <2> QED BY <2>1, <2>2, ForgoSettles
<1>11. CASE Redis
  <2>1. PICK c, n : c = Head(wire) /\ n = Len(wire)
    OBVIOUS
  <2>2. /\ c = wire[1] /\ Len(w) = n - 1 /\ n \in Nat \ {0}
        /\ \A k \in 1..Len(w) : k + 1 \in 1..n /\ w[k] = wire[k + 1]
    BY <1>2, <1>11, <2>1, HeadTypes DEF Redis
  <2>3. \A i \in 2..n : i - 1 \in 1..Len(w) /\ w[i - 1] = wire[i]
    <3> SUFFICES ASSUME NEW i \in 2..n PROVE i - 1 \in 1..Len(w) /\ w[i - 1] = wire[i]
      OBVIOUS
    <3>1. PICK k \in 1..Len(w) : k = i - 1
      <4>1. i - 1 \in 1..Len(w)
        BY <2>2
      <4> QED BY <4>1
    <3> QED BY <2>2, <3>1
  <2>4. \A k \in 1..n : k = 1 \/ k \in 2..n
    BY <2>2
  <2>5. \A x \in Appending : x \in Appending' \/ (c.op = "append" /\ x = c.id)
    BY <1>3, <2>1, <2>2, <2>3, <2>4
  <2>6. ASSUME c.op = "append" PROVE c.id \in queue' \cup Settled(t)'
    <3>1. PICK all : all = queue \cup {c.id}
      OBVIOUS
    <3>2. /\ queue' = Newest(all, MaxPerUser)
          /\ forgone'[t] = forgone[t] \cup ((all \ Newest(all, MaxPerUser)) \ Has(t))
      BY <1>11, <2>1, <2>6, <3>1 DEF Redis, append, Trim, Forgo
    <3>3. all \ Newest(all, MaxPerUser) \subseteq Settled(t)'
      BY <3>2, HasGrows, ForgoSettles
    <3> QED BY <3>1, <3>2, <3>3
  <2> QED BY <2>5, <2>6
<1> QED BY <1>6, <1>7, <1>8, <1>9, <1>10, <1>11 DEF Next

\* Only an emit makes an event.
LEMMA OtherSteps ==
  ASSUME [Next]_vars, \A j \in Job : ~ReplayBurst(j) /\ ~OfflineEmit(j)
  PROVE  lastId' = lastId /\ Id' = Id /\ unqueued' = unqueued /\ enabled' = enabled
<1>1. lastId' = lastId /\ unqueued' = unqueued /\ enabled' = enabled
  <2>1. ASSUME NEW t \in Tab, ConnectAtOnce(t) \/ Connect(t) \/ Opened(t) \/ Leave(t)
        PROVE lastId' = lastId /\ unqueued' = unqueued /\ enabled' = enabled
    BY <2>1 DEF ConnectAtOnce, Connect, Opened, Leave, openRest, memoryVars, historyVars
  <2>2. ASSUME NEW j \in Job, OfflineRefused(j) \/ Drop(j) \/ DropOne(j) \/ Acknowledge(j) \/ Timeline(j)
        PROVE lastId' = lastId /\ unqueued' = unqueued /\ enabled' = enabled
    BY <2>2 DEF OfflineRefused, Drop, DropOne, Acknowledge, Timeline, dropRest, redisRest, burstRest,
                memoryVars, historyVars
  <2>3. CASE Redis \/ Purge \/ Expire \/ Crash \/ UNCHANGED vars
    BY <2>3 DEF Redis, Purge, Expire, Crash, redisRest, vars, memoryVars, historyVars
  <2> QED BY <2>1, <2>2, <2>3 DEF Next
<1> QED BY <1>1 DEF Id

\* The new event is heard, queued, or noted as never queued; a handshake
\* under way does without it.
LEMMA EmitSettles ==
  ASSUME TypeOK, RecordOK, NEW j \in Job, ReplayBurst(j) \/ OfflineEmit(j)
  PROVE  /\ Id' = Id \cup {lastId + 1} /\ lastId' = lastId + 1 /\ unqueued \subseteq unqueued'
         /\ lastId + 1 \in unqueued' \/ (enabled /\ lastId + 1 \in Appending')
         /\ UNCHANGED <<enabled, stage, replay, fetched, queue, purging>>
         /\ \A t \in Tab : /\ stage[t] \in {"open", "reading", "fetched"} => lastId + 1 \in Settled(t)'
                           /\ stage[t] # "open" => got'[t] = got[t]
<1>1. Burst(j)
  BY DEF ReplayBurst, OfflineEmit
<1>2. PICK e : e = lastId + 1
  OBVIOUS
<1>3. UNCHANGED <<enabled, stage, replay, fetched, queue, purging>>
  BY <1>1 DEF Burst, burstRest, handshakeVars
<1>4. /\ lastId' = e
      /\ got' = [t \in Tab |-> IF t \in Live THEN Append(got[t], e) ELSE got[t]]
      /\ IF Queued THEN Send([op |-> "append", id |-> e]) /\ unqueued' = unqueued
                   ELSE wire' = wire /\ unqueued' = unqueued \cup {e}
      /\ \A t \in Tab : forgone'[t] = forgone[t] \cup
           ((IF stage[t] \in {"reading", "fetched"} THEN {e} ELSE {}) \ Has(t))
  <2>1. PICK p : EmitToUser(p)
    BY <1>1 DEF Burst
  <2>2. /\ lastId' = lastId + 1
        /\ got' = [t \in Tab |-> IF t \in Live THEN Append(got[t], lastId + 1) ELSE got[t]]
        /\ IF Queued THEN Send([op |-> "append", id |-> lastId + 1]) /\ unqueued' = unqueued
                     ELSE wire' = wire /\ unqueued' = unqueued \cup {lastId + 1}
    BY <2>1 DEF EmitToUser
  <2>3. \A t \in Tab : forgone'[t] = forgone[t] \cup
           ((IF stage[t] \in {"reading", "fetched"} THEN {lastId + 1} ELSE {}) \ Has(t))
    BY <2>1 DEF EmitToUser, Forgo
  <2> QED BY <1>2, <2>2, <2>3
<1>5. Id' = Id \cup {e} /\ e \in Nat
  <2>1. Id = 1..lastId /\ Id' = 1..(lastId + 1) /\ lastId \in Nat
    BY <1>2, <1>4 DEF Id, TypeOK
  <2> QED BY <1>2, <2>1
<1>6. TypeOK'
  BY BurstTypes
<1>7. ASSUME NEW t \in Tab
      PROVE  /\ stage[t] \in {"open", "reading", "fetched"} => e \in Settled(t)'
             /\ stage[t] # "open" => got'[t] = got[t]
  <2>1. CASE stage[t] = "open"
    <3>1. got'[t] = Append(got[t], e)
      BY <1>4, <2>1 DEF Live
    <3>2. got[t] \in Seq(Nat)
      BY DEF TypeOK, Id
    <3>3. e \in Range(got'[t])
      BY <1>5, <3>1, <3>2, AppendRange
    <3> QED BY <2>1, <3>3 DEF Settled, Has
  <2>2. CASE stage[t] # "open"
    <3>1. got'[t] = got[t]
      BY <1>4, <2>2 DEF Live
    <3>2. Has(t) \subseteq Has(t)'
      BY <3>1 DEF Has
    <3>3. forgone'[t] = forgone[t] \cup ((IF stage[t] \in {"reading", "fetched"} THEN {e} ELSE {}) \ Has(t))
      BY <1>4
    <3> QED BY <2>2, <3>1, <3>2, <3>3, ForgoSettles
  <2> QED BY <2>1, <2>2
<1>8. CASE Queued
  <2>1. PICK w : w = wire'
    OBVIOUS
  <2>2. Len(wire) + 1 \in 1..Len(w) /\ w[Len(wire) + 1] = [op |-> "append", id |-> e]
    <3>1. wire \in Seq(Command) /\ w = Append(wire, [op |-> "append", id |-> e])
      BY <1>4, <1>8, <2>1 DEF Send, TypeOK
    <3> QED BY <3>1, AppendAt
  <2>3. [op |-> "append", id |-> e].op = "append" /\ [op |-> "append", id |-> e].id = e
    OBVIOUS
  <2>4. DOMAIN w = 1..Len(w)
    BY <1>6, <2>1 DEF TypeOK
  <2>5. e \in Appending'
    BY <2>1, <2>2, <2>3, <2>4 DEF Appending
  <2> QED BY <1>2, <1>3, <1>4, <1>5, <1>7, <1>8, <2>5 DEF Queued
<1>9. CASE ~Queued
  BY <1>2, <1>3, <1>4, <1>5, <1>7, <1>9
<1> QED BY <1>8, <1>9

LEMMA QueuedStep ==
  TypeOK /\ RecordOK /\ AckOK /\ QueuedOK /\ [Next]_vars => QueuedOK'
<1> SUFFICES ASSUME TypeOK, RecordOK, AckOK, QueuedOK, [Next]_vars PROVE QueuedOK'
  OBVIOUS
<1>1. \A t \in Tab : /\ Settled(t) \subseteq Settled(t)' /\ queue \subseteq queue' \cup Settled(t)'
                     /\ Appending \subseteq Appending' \cup queue' \cup Settled(t)'
  BY SettledStep, AppendingStep
<1>2. ASSUME Id' = Id, unqueued' = unqueued, enabled' = enabled PROVE QueuedOK'
  <2>1. \A t \in Tab : \A e \in Id \ unqueued : e \in queue' \/ e \in Appending' \/ e \in Settled(t)'
    BY <1>1 DEF QueuedOK
  <2>2. ~enabled => Id \subseteq unqueued
    BY DEF QueuedOK
  <2> QED BY <1>2, <2>1, <2>2 DEF QueuedOK
<1>3. ASSUME NEW j \in Job, ReplayBurst(j) \/ OfflineEmit(j) PROVE QueuedOK'
  <2>1. /\ Id' = Id \cup {lastId + 1} /\ unqueued \subseteq unqueued' /\ enabled' = enabled
        /\ lastId + 1 \in unqueued' \/ (enabled /\ lastId + 1 \in Appending')
    BY <1>3, EmitSettles
  <2>2. \A t \in Tab : \A e \in Id \ unqueued : e \in queue' \/ e \in Appending' \/ e \in Settled(t)'
    BY <1>1 DEF QueuedOK
  <2>3. ~enabled => Id \subseteq unqueued
    BY DEF QueuedOK
  <2> QED BY <2>1, <2>2, <2>3 DEF QueuedOK
<1> QED BY <1>2, <1>3, OtherSteps

LEMMA OpenStep ==
  TypeOK /\ RecordOK /\ AckOK /\ QueuedOK /\ PastOK /\ OpenOK /\ FetchedOK /\ [Next]_vars => OpenOK'
<1> SUFFICES ASSUME TypeOK, RecordOK, AckOK, QueuedOK, PastOK, OpenOK, FetchedOK, [Next]_vars
             PROVE  OpenOK'
  OBVIOUS
<1>1. \A t \in Tab : Settled(t) \subseteq Settled(t)'
  BY SettledStep
<1>2. /\ stage \in [Tab -> {"none", "reading", "fetched", "open"}] /\ got \in [Tab -> Seq(Id)]
      /\ lastId \in Nat /\ ring \in Seq(Id) /\ replay \in [Tab -> Seq(Id)] /\ fetched \in [Tab -> Seq(Id)]
  BY DEF TypeOK
<1>3. ASSUME Id' = Id, NEW t \in Tab, stage[t] = "open" PROVE Id' \subseteq Settled(t)'
  BY <1>1, <1>3 DEF OpenOK
<1>4. ASSUME Id' = Id, \A t \in Tab : stage'[t] = "open" => stage[t] = "open" PROVE OpenOK'
  BY <1>3, <1>4 DEF OpenOK
<1>5. ASSUME NEW t \in Tab, ConnectAtOnce(t) PROVE OpenOK'
  <2>1. /\ stage' = [stage EXCEPT ![t] = "open"] /\ lastId' = lastId /\ enabled' = enabled
        /\ Cursor(t) = None \/ ~enabled
        /\ got' = [got EXCEPT ![t] = @ \o Since(Cursor(t))]
    BY <1>5 DEF ConnectAtOnce, openRest, memoryVars
  <2>2. Id' = Id
    BY <2>1 DEF Id
  <2>3. PICK c : c = Cursor(t)
    OBVIOUS
  <2>4. forgone'[t] = forgone[t] \cup ((IF c = None THEN 1..lastId ELSE Slipped(t)) \ Has(t))
    BY <1>5, <2>3 DEF ConnectAtOnce, Forgo
  <2>5. (IF c = None THEN 1..lastId ELSE Slipped(t)) \subseteq Settled(t)'
    BY <2>4, HasGrows, ForgoSettles
  <2>6. Id \subseteq Settled(t)'
    <3>1. CASE c = None
      BY <2>5, <3>1 DEF Id
    <3>2. CASE c # None /\ c \in Range(ring)
      <4>1. c \in Id /\ Since(c) \in Seq(Id) /\ Range(Since(c)) = (c + 1)..lastId
        BY <1>2, <3>2, SinceIs
      <4>2. Range(got[t] \o Since(c)) = Range(got[t]) \cup Range(Since(c))
        <5>1. PICK q, h : q = Since(c) /\ h = got[t]
          OBVIOUS
        <5>2. q \in Seq(Id) /\ h \in Seq(Id)
          BY <1>2, <4>1, <5>1
        <5>3. Range(h \o q) = Range(h) \cup Range(q)
          BY <5>2, JoinRange
        <5> QED BY <5>1, <5>3
      <4>3. got'[t] = got[t] \o Since(c)
        BY <1>2, <2>1, <2>3
      <4>4. (c + 1)..lastId \subseteq Settled(t)'
        BY <4>1, <4>2, <4>3 DEF Settled, Has
      <4>5. \A e \in Id : e <= c => e \in Settled(t)'
        BY <1>1, <2>3, <3>2 DEF PastOK
      <4>6. \A e \in Id : e <= c \/ e \in (c + 1)..lastId
        BY <1>2, <4>1 DEF Id
      <4> QED BY <4>4, <4>5, <4>6
    <3>3. CASE c # None /\ c \notin Range(ring)
      <4>1. Slipped(t) = unqueued
        BY <2>3, <3>3 DEF Slipped
      <4>2. Id \subseteq unqueued
        BY <2>1, <2>3, <3>3 DEF QueuedOK
      <4> QED BY <2>5, <3>3, <4>1, <4>2
    <3> QED BY <3>1, <3>2, <3>3
  <2>7. \A u \in Tab : u # t => stage'[u] = stage[u]
    BY <1>2, <2>1
  <2> QED BY <1>3, <2>2, <2>6, <2>7 DEF OpenOK
<1>6. ASSUME NEW t \in Tab, Opened(t) PROVE OpenOK'
  <2>1. /\ stage' = [stage EXCEPT ![t] = "open"] /\ lastId' = lastId /\ stage[t] = "fetched"
        /\ got' = [got EXCEPT ![t] = @ \o replay[t] \o Drained(t)]
    BY <1>6 DEF Opened, openRest, memoryVars
  <2>2. Id' = Id
    BY <2>1 DEF Id
  <2>3. PICK d, b : d = Drained(t) /\ b = got[t] \o replay[t]
    OBVIOUS
  <2>4. d \in Seq(Id) /\ Range(d) = Range(fetched[t]) \ Range(replay[t])
    BY <1>2, <2>3, DrainedIs
  <2>5. b \in Seq(Id) /\ Range(b) = Range(got[t]) \cup Range(replay[t])
    BY <1>2, <2>3, JoinRange
  <2>6. Range(b \o d) = Range(b) \cup Range(d)
    BY <2>4, <2>5, JoinRange
  <2>7. got'[t] = b \o d
    BY <1>2, <2>1, <2>3
  <2>8. Range(replay[t]) \cup Range(fetched[t]) \subseteq Settled(t)'
    BY <2>4, <2>5, <2>6, <2>7 DEF Settled, Has
  <2>9. Id \subseteq Settled(t)'
    BY <1>1, <2>1, <2>8 DEF FetchedOK
  <2>10. \A u \in Tab : u # t => stage'[u] = stage[u]
    BY <1>2, <2>1
  <2> QED BY <1>3, <2>2, <2>9, <2>10 DEF OpenOK
<1>7. ASSUME NEW j \in Job, ReplayBurst(j) \/ OfflineEmit(j) PROVE OpenOK'
  <2>1. /\ Id' = Id \cup {lastId + 1} /\ stage' = stage
        /\ \A t \in Tab : stage[t] = "open" => lastId + 1 \in Settled(t)'
    BY <1>7, EmitSettles
  <2> QED BY <1>1, <2>1 DEF OpenOK
<1>8. ASSUME NEW t \in Tab, Connect(t) \/ Leave(t) PROVE OpenOK'
  <2>1. \A u \in Tab : stage'[u] = "open" => stage[u] = "open"
    BY <1>2, <1>8 DEF Connect, Leave
  <2>2. Id' = Id
    BY <1>8 DEF Connect, Leave, openRest, memoryVars, Id
  <2> QED BY <1>4, <2>1, <2>2
<1>9. ASSUME NEW j \in Job, OfflineRefused(j) \/ Drop(j) \/ DropOne(j) \/ Acknowledge(j) \/ Timeline(j)
      PROVE OpenOK'
  <2>1. \A u \in Tab : stage'[u] = "open" => stage[u] = "open"
    BY <1>9 DEF OfflineRefused, Drop, DropOne, Acknowledge, Timeline, burstRest, handshakeVars
  <2>2. Id' = Id
    BY <1>9 DEF OfflineRefused, Drop, DropOne, Acknowledge, Timeline, dropRest, redisRest, memoryVars, Id
  <2> QED BY <1>4, <2>1, <2>2
<1>10. CASE Redis
  <2>1. \A u \in Tab : stage'[u] = "open" => stage[u] = "open"
    BY <1>2, <1>10 DEF Redis, append, retrieve, acknowledge, readQueue
  <2>2. Id' = Id
    BY <1>10 DEF Redis, redisRest, memoryVars, Id
  <2> QED BY <1>4, <2>1, <2>2
<1>11. CASE Purge \/ Expire \/ Crash \/ UNCHANGED vars
  <2>1. \A u \in Tab : stage'[u] = "open" => stage[u] = "open"
    BY <1>11 DEF Purge, Expire, Crash, vars, handshakeVars
  <2>2. Id' = Id
    BY <1>11 DEF Purge, Expire, Crash, vars, redisRest, memoryVars, Id
  <2> QED BY <1>4, <2>1, <2>2
<1> QED BY <1>5, <1>6, <1>7, <1>8, <1>9, <1>10, <1>11 DEF Next

\* A cursor moves only while its stream is open, or by opening it.
LEMMA CursorStays ==
  ASSUME TypeOK, [Next]_vars, NEW t \in Tab, stage'[t] # "open"
  PROVE  got'[t] = got[t] \/ \E j \in Job : ReplayBurst(j) \/ OfflineEmit(j)
<1>0. stage \in [Tab -> {"none", "reading", "fetched", "open"}] /\ got \in [Tab -> Seq(Id)]
  BY DEF TypeOK
<1>1. ASSUME NEW u \in Tab, ConnectAtOnce(u) \/ Opened(u) PROVE got'[t] = got[t]
  BY <1>0, <1>1 DEF ConnectAtOnce, Opened
<1>2. ASSUME NEW u \in Tab, Connect(u) \/ Leave(u) PROVE got'[t] = got[t]
  BY <1>2 DEF Connect, Leave
<1>3. ASSUME NEW j \in Job, OfflineRefused(j) \/ Drop(j) \/ DropOne(j) \/ Acknowledge(j) \/ Timeline(j)
      PROVE got'[t] = got[t]
  BY <1>3 DEF OfflineRefused, Drop, DropOne, Acknowledge, Timeline, dropRest, redisRest
<1>4. CASE Redis \/ Purge \/ Expire \/ Crash \/ UNCHANGED vars
  BY <1>4 DEF Redis, Purge, Expire, Crash, redisRest, vars
<1> QED BY <1>1, <1>2, <1>3, <1>4 DEF Next

LEMMA PastStep ==
  TypeOK /\ RecordOK /\ AckOK /\ PastOK /\ OpenOK' /\ [Next]_vars => PastOK'
<1> SUFFICES ASSUME TypeOK, RecordOK, AckOK, PastOK, OpenOK', [Next]_vars, NEW t \in Tab,
                    Cursor(t)' # None, NEW e \in Id', e <= Cursor(t)'
             PROVE  e \in Settled(t)'
  BY DEF PastOK
<1>1. CASE stage'[t] = "open"
  BY <1>1 DEF OpenOK
<1>2. Settled(t) \subseteq Settled(t)'
  BY SettledStep
<1>3. ASSUME got'[t] = got[t], e \in Id PROVE e \in Settled(t)'
  <2>1. Cursor(t)' = Cursor(t)
    BY <1>3 DEF Cursor
  <2> QED BY <1>2, <1>3, <2>1 DEF PastOK
<1>4. ASSUME stage'[t] # "open", NEW j \in Job, ReplayBurst(j) \/ OfflineEmit(j) PROVE e \in Settled(t)'
  <2>1. Id' = Id \cup {lastId + 1} /\ stage' = stage /\ (stage[t] # "open" => got'[t] = got[t])
    BY <1>4, EmitSettles
  <2>2. got'[t] = got[t]
    BY <1>4, <2>1
  <2>3. CASE e = lastId + 1
    <3>1. Cursor(t)' = Cursor(t)
      BY <2>2 DEF Cursor
    <3>2. Cursor(t) \in 0..lastId /\ lastId \in Nat
      BY <3>1, CursorIs DEF TypeOK
    <3> QED BY <2>3, <3>1, <3>2
  <2> QED BY <1>3, <2>1, <2>2, <2>3
<1>5. ASSUME stage'[t] # "open", \A j \in Job : ~ReplayBurst(j) /\ ~OfflineEmit(j)
      PROVE  e \in Settled(t)'
  BY <1>3, <1>5, CursorStays, OtherSteps
<1> QED BY <1>1, <1>4, <1>5

\* A drain finds in the queue what it is owed, or leaves it for good.
LEMMA FetchedRedis ==
  ASSUME TypeOK, RecordOK, PastOK, ReadingOK, AckOK, StreamOK, WireOK,
         Redis, NEW t \in Tab, stage[t] # "fetched", stage'[t] = "fetched", NEW e \in Id
  PROVE  e \in Settled(t)' \/ e \in Range(replay'[t]) \/ e \in Range(fetched'[t])
<1>1. PICK c : c = Head(wire)
  OBVIOUS
<1>2. stage \in [Tab -> {"none", "reading", "fetched", "open"}] /\ fetched \in [Tab -> Seq(Id)]
      /\ lastId \in Nat /\ queue \subseteq Id
  BY DEF TypeOK
<1>3. c.op = "retrieve" /\ retrieve(c) /\ c.tab = t
  <2>1. c.op = "retrieve" /\ retrieve(c)
    BY <1>1 DEF Redis, append, acknowledge, readQueue
  <2> QED BY <1>2, <2>1 DEF retrieve
<1>4. 1 \in 1..Len(wire) /\ c = wire[1] /\ replay' = replay
  BY <1>1, HeadTypes DEF Redis, redisRest
<1>5. e \in Settled(t) \/ e \in Range(replay[t]) \/ e \in queue
  <2>1. ~ \E l \in 1..(1 - 1) : wire[l].op = "append" /\ wire[l].id = e
    OBVIOUS
  <2> QED BY <1>3, <1>4, <2>1 DEF ReadingOK
<1>6. stage[t] = "reading"
  BY <1>3, <1>4 DEF WireOK
<1>7. PICK x : x = Cursor(t)
  OBVIOUS
<1>8. x \in 0..lastId
  BY <1>2, <1>6, <1>7, CursorIs DEF StreamOK, HandshakeOK, TypeOK
<1>9. e <= x => e \in Settled(t)
  BY <1>6, <1>7 DEF PastOK, StreamOK, HandshakeOK
<1>10. Settled(t) \subseteq Settled(t)'
  <2>1. [Next]_vars
    BY DEF Next
  <2> QED BY <2>1, SettledStep
<1>11. PICK S, q : S = {f \in queue : f > x} /\ q = Oldest(S, RetrieveLimit)
  OBVIOUS
<1>12. fetched'[t] = q
  BY <1>2, <1>3, <1>7, <1>11 DEF retrieve, retrieveSince
<1>13. S \in SUBSET Id /\ RetrieveLimit \in Nat \ {0}
  BY <1>2, <1>11, ConstantsAssumption
<1>14. \A f \in S \ Range(q) : Cardinality({g \in S : g < f}) >= RetrieveLimit
  BY <1>2, <1>11, <1>13, OldestIs
<1>15. forgone'[t] = forgone[t] \cup ({f \in S : Cardinality({g \in S : g < f}) >= RetrieveLimit} \ Has(t))
  BY <1>3, <1>7, <1>11 DEF retrieve, Forgo
<1>16. {f \in S : Cardinality({g \in S : g < f}) >= RetrieveLimit} \subseteq Settled(t)'
  <2>1. Has(t) \subseteq Has(t)'
    BY DEF Redis, redisRest, Has
  <2> QED BY <1>15, <2>1, ForgoSettles
<1>17. e \in queue => e <= x \/ e \in S
  BY <1>2, <1>8, <1>11 DEF Id
<1> QED BY <1>4, <1>5, <1>9, <1>10, <1>12, <1>14, <1>16, <1>17

LEMMA FetchedStep ==
  TypeOK /\ RecordOK /\ AckOK /\ StreamOK /\ WireOK /\ PastOK /\ ReadingOK /\ FetchedOK /\ [Next]_vars
    => FetchedOK'
<1> SUFFICES ASSUME TypeOK, RecordOK, AckOK, StreamOK, WireOK, PastOK, ReadingOK, FetchedOK,
                    [Next]_vars, NEW t \in Tab, stage'[t] = "fetched", NEW e \in Id'
             PROVE  e \in Settled(t)' \/ e \in Range(replay'[t]) \/ e \in Range(fetched'[t])
  BY DEF FetchedOK
<1>1. Settled(t) \subseteq Settled(t)'
  BY SettledStep
<1>2. /\ stage \in [Tab -> {"none", "reading", "fetched", "open"}] /\ replay \in [Tab -> Seq(Id)]
      /\ fetched \in [Tab -> Seq(Id)]
  BY DEF TypeOK
<1>3. ASSUME stage[t] = "fetched", replay'[t] = replay[t], fetched'[t] = fetched[t], Id' = Id
      PROVE  e \in Settled(t)' \/ e \in Range(replay'[t]) \/ e \in Range(fetched'[t])
  BY <1>1, <1>3 DEF FetchedOK
<1>4. ASSUME NEW j \in Job, ReplayBurst(j) \/ OfflineEmit(j)
      PROVE  e \in Settled(t)' \/ e \in Range(replay'[t]) \/ e \in Range(fetched'[t])
  <2>1. /\ Id' = Id \cup {lastId + 1} /\ UNCHANGED <<stage, replay, fetched>>
        /\ (stage[t] = "fetched" => lastId + 1 \in Settled(t)')
    BY <1>4, EmitSettles
  <2> QED BY <1>1, <2>1 DEF FetchedOK
<1>5. ASSUME \A j \in Job : ~ReplayBurst(j) /\ ~OfflineEmit(j)
      PROVE  e \in Settled(t)' \/ e \in Range(replay'[t]) \/ e \in Range(fetched'[t])
  <2>1. Id' = Id
    BY <1>5, OtherSteps
  <2>2. CASE Redis
    <3>1. CASE stage[t] = "fetched"
      <4>1. replay' = replay
        BY <2>2 DEF Redis, redisRest
      <4>2. \A k \in 1..Len(wire) : ~(wire[k].op = "retrieve" /\ wire[k].tab = t)
        BY <3>1 DEF WireOK
      <4>3. Head(wire) = wire[1] /\ 1 \in 1..Len(wire)
        BY <2>2, HeadTypes DEF Redis
      <4>4. ~(Head(wire).op = "retrieve" /\ Head(wire).tab = t)
        BY <4>2, <4>3
      <4>5. fetched'[t] = fetched[t]
        BY <1>2, <2>2, <4>4 DEF Redis, append, retrieve, acknowledge, readQueue
      <4> QED BY <1>3, <2>1, <3>1, <4>1, <4>5
    <3>2. CASE stage[t] # "fetched"
      BY <2>1, <2>2, <3>2, FetchedRedis
    <3> QED BY <3>1, <3>2
  <2>3. ASSUME NEW u \in Tab, ConnectAtOnce(u) \/ Connect(u) \/ Opened(u) \/ Leave(u)
        PROVE  stage[t] = "fetched" /\ replay'[t] = replay[t] /\ fetched'[t] = fetched[t]
    BY <1>2, <2>3 DEF ConnectAtOnce, Connect, Opened, Leave
  <2>4. ASSUME NEW j \in Job, OfflineRefused(j) \/ Drop(j) \/ DropOne(j) \/ Acknowledge(j) \/ Timeline(j)
        PROVE  stage[t] = "fetched" /\ replay'[t] = replay[t] /\ fetched'[t] = fetched[t]
    BY <2>4 DEF OfflineRefused, Drop, DropOne, Acknowledge, Timeline, dropRest, redisRest, burstRest,
                handshakeVars
  <2>5. CASE Purge \/ Expire \/ UNCHANGED vars
    <3>1. stage[t] = "fetched" /\ replay'[t] = replay[t] /\ fetched'[t] = fetched[t]
      BY <2>5 DEF Purge, Expire, redisRest, vars, handshakeVars
    <3> QED BY <1>3, <2>1, <3>1
  <2>6. ~Crash
    BY DEF Crash
  <2> QED BY <1>3, <1>5, <2>1, <2>2, <2>3, <2>4, <2>5, <2>6 DEF Next
<1> QED BY <1>4, <1>5

\* While a drain waits, the commands before it only move up.
LEMMA ReadingConnect ==
  ASSUME TypeOK, RecordOK, WireOK, AckOK, QueuedOK, PastOK, ReadingOK, NEW t \in Tab, Connect(t)
  PROVE  ReadingOK'
<1>1. PICK w, n, c : w = wire' /\ n = Len(wire) /\ c = [op |-> "retrieve", tab |-> t]
  OBVIOUS
<1>2. c.op = "retrieve" /\ c.tab = t
  BY <1>1
<1>3. /\ Len(w) = n + 1 /\ n \in Nat
      /\ \A k \in 1..n : k \in 1..Len(w) /\ w[k] = wire[k]
      /\ w[n + 1] = c
      /\ \A k \in 1..Len(w) : k \in 1..n \/ k = n + 1
  <2>1. wire \in Seq(Command) /\ w = Append(wire, c)
    BY <1>1 DEF Connect, Send, TypeOK
  <2> QED BY <1>1, <2>1, AppendAt
<1>4. /\ Id' = Id /\ queue' = queue /\ stage[t] = "none" /\ got' = got
      /\ replay' = [replay EXCEPT ![t] = Since(Cursor(t))] /\ Cursor(t) # None
  BY DEF Connect, openRest, memoryVars, Id
<1>5. /\ lastId \in Nat /\ ring \in Seq(Id) /\ replay \in [Tab -> Seq(Id)] /\ got \in [Tab -> Seq(Id)]
      /\ wire \in Seq(Command)
  BY DEF TypeOK
<1>6. \A u \in Tab : Settled(u) \subseteq Settled(u)'
  <2>1. [Next]_vars
    BY DEF Next
  <2> QED BY <2>1, SettledStep
<1>7. ASSUME NEW e \in Id
      PROVE  \/ e \in Settled(t)' \/ e \in Range(replay'[t]) \/ e \in queue'
             \/ \E i \in 1..n : w[i].op = "append" /\ w[i].id = e
  <2>1. PICK x, s : x = Cursor(t) /\ s = Since(x)
    OBVIOUS
  <2>2. replay'[t] = s /\ x \in 0..lastId
    BY <1>4, <1>5, <2>1, CursorIs
  <2>3. CASE e <= x
    BY <1>4, <1>6, <2>1, <2>3 DEF PastOK
  <2>4. CASE ~(e <= x) /\ e \notin unqueued
    <3>1. e \in queue \/ e \in Appending \/ e \in Settled(t)
      BY <2>4 DEF QueuedOK
    <3>2. e \in Appending => \E i \in 1..n : w[i].op = "append" /\ w[i].id = e
      BY <1>1, <1>3, AppendingIs
    <3> QED BY <1>4, <1>6, <3>1, <3>2
  <2>5. CASE ~(e <= x) /\ e \in unqueued /\ x \in Range(ring)
    <3>1. Range(s) = (x + 1)..lastId
      BY <1>5, <2>1, <2>5, SinceIs
    <3>2. e \in (x + 1)..lastId
      BY <1>5, <2>2, <2>5 DEF Id
    <3> QED BY <2>2, <3>1, <3>2
  <2>6. CASE e \in unqueued /\ x \notin Range(ring)
    <3>1. Slipped(t) = unqueued
      BY <2>1, <2>6 DEF Slipped
    <3>2. forgone'[t] = forgone[t] \cup (Slipped(t) \ Has(t))
      BY DEF Connect, Forgo
    <3>3. Has(t) \subseteq Has(t)'
      BY <1>4 DEF Has
    <3>4. Slipped(t) \subseteq Settled(t)'
      BY <3>2, <3>3, ForgoSettles
    <3> QED BY <2>6, <3>1, <3>4
  <2> QED BY <2>3, <2>4, <2>5, <2>6
<1>8. ASSUME NEW k \in 1..n, wire[k].op = "retrieve", NEW e \in Id, NEW u \in Tab, u = wire[k].tab
      PROVE  \/ e \in Settled(u)' \/ e \in Range(replay'[u]) \/ e \in queue'
             \/ \E i \in 1..(k - 1) : w[i].op = "append" /\ w[i].id = e
  <2>3. u # t
    BY <1>1, <1>4, <1>8 DEF WireOK
  <2>4. replay'[u] = replay[u]
    BY <1>4, <1>5, <2>3
  <2>5. \/ e \in Settled(u) \/ e \in Range(replay[u]) \/ e \in queue
        \/ \E l \in 1..(k - 1) : wire[l].op = "append" /\ wire[l].id = e
    BY <1>1, <1>8 DEF ReadingOK
  <2>6. \A l \in 1..(k - 1) : l \in 1..n
    BY <1>3
  <2>7. (\E l \in 1..(k - 1) : wire[l].op = "append" /\ wire[l].id = e)
        => \E i \in 1..(k - 1) : w[i].op = "append" /\ w[i].id = e
    BY <1>3, <2>6
  <2> QED BY <1>4, <1>6, <2>4, <2>5, <2>7
<1>9. PICK R, Q : R = replay' /\ Q = queue'
  OBVIOUS
<1>10. ASSUME NEW k \in 1..Len(w), w[k].op = "retrieve", NEW e \in Id
       PROVE  \/ e \in Settled(w[k].tab)' \/ e \in Range(R[w[k].tab]) \/ e \in Q
              \/ \E i \in 1..(k - 1) : w[i].op = "append" /\ w[i].id = e
  <2>1. CASE k \in 1..n
    <3>1. w[k] = wire[k] /\ wire[k] \in Command
      BY <1>1, <1>3, <1>5, <2>1
    <3>2. PICK u \in Tab : u = w[k].tab
      BY <1>10, <3>1, CommandTypes
    <3> QED BY <1>8, <1>9, <1>10, <2>1, <3>1, <3>2
  <2>2. CASE k = n + 1
    <3>1. w[k].tab = t /\ k - 1 = n
      BY <1>2, <1>3, <2>2
    <3> QED BY <1>7, <1>9, <3>1
  <2> QED BY <1>3, <2>1, <2>2
<1> QED BY <1>1, <1>4, <1>9, <1>10 DEF ReadingOK

LEMMA ReadingSame ==
  ASSUME TypeOK, RecordOK, WireOK, AckOK, ReadingOK, [Next]_vars,
         wire' = wire \/ \E c : Send(c) /\ c.op # "retrieve",
         \A t \in Tab : stage[t] = "reading" => replay'[t] = replay[t],
         \A t \in Tab : \A e \in Id' : stage[t] = "reading" => e \in Id \/ e \in Settled(t)'
  PROVE  ReadingOK'
<1>1. PICK w, n, R, Q, I : w = wire' /\ n = Len(wire) /\ R = replay' /\ Q = queue' /\ I = Id'
  OBVIOUS
<1>2. wire \in Seq(Command) /\ n \in Nat
  BY <1>1 DEF TypeOK
<1>3. /\ \A k \in 1..n : k \in 1..Len(w) /\ w[k] = wire[k]
      /\ \A k \in 1..Len(w) : w[k].op = "retrieve" => k \in 1..n
  <2>1. CASE wire' = wire
    BY <1>1, <2>1
  <2>2. ASSUME NEW c, Send(c), c.op # "retrieve"
        PROVE  /\ \A k \in 1..n : k \in 1..Len(w) /\ w[k] = wire[k]
               /\ \A k \in 1..Len(w) : w[k].op = "retrieve" => k \in 1..n
    <3>1. w = Append(wire, c)
      BY <1>1, <2>2 DEF Send
    <3>2. /\ \A k \in 1..n : k \in 1..Len(w) /\ w[k] = wire[k]
          /\ w[n + 1] = c
          /\ \A k \in 1..Len(w) : k \in 1..n \/ k = n + 1
      BY <1>1, <1>2, <3>1, AppendAt
    <3> QED BY <2>2, <3>2
  <2> QED BY <2>1, <2>2
<1>4. ASSUME NEW k \in 1..Len(w), w[k].op = "retrieve", NEW e \in I
      PROVE  \/ e \in Settled(w[k].tab)' \/ e \in Range(R[w[k].tab]) \/ e \in Q
             \/ \E i \in 1..(k - 1) : w[i].op = "append" /\ w[i].id = e
  <2>1. k \in 1..n /\ w[k] = wire[k] /\ wire[k] \in Command
    BY <1>1, <1>2, <1>3, <1>4
  <2>2. PICK t \in Tab : t = w[k].tab
    BY <1>4, <2>1, CommandTypes
  <2>3. stage[t] = "reading"
    BY <1>1, <1>4, <2>1, <2>2 DEF WireOK
  <2>4. Settled(t) \subseteq Settled(t)' /\ queue \subseteq Q \cup Settled(t)'
    BY <1>1, SettledStep
  <2>5. \A l \in 1..(k - 1) : l \in 1..n /\ w[l] = wire[l]
    BY <1>2, <1>3, <2>1
  <2>6. \A l \in 1..(k - 1) : wire[l].op = "append" =>
            \E i \in 1..(k - 1) : w[i].op = "append" /\ w[i].id = wire[l].id
    BY <2>5
  <2>7. e \in Id \/ e \in Settled(t)'
    BY <1>1, <1>4, <2>3
  <2>8. R[t] = replay[t]
    BY <1>1, <2>3
  <2>9. CASE e \in Id
    <3>1. \/ e \in Settled(t) \/ e \in Range(replay[t]) \/ e \in queue
          \/ \E l \in 1..(k - 1) : wire[l].op = "append" /\ wire[l].id = e
      BY <1>1, <1>4, <2>1, <2>2, <2>9 DEF ReadingOK
    <3> QED BY <2>2, <2>4, <2>6, <2>8, <3>1
  <2> QED BY <2>2, <2>7, <2>9
<1> QED BY <1>1, <1>4 DEF ReadingOK

LEMMA ReadingRedis ==
  ASSUME TypeOK, RecordOK, WireOK, AckOK, ReadingOK, Redis
  PROVE  ReadingOK'
<1>1. PICK w, c, n, R, Q : w = wire' /\ c = Head(wire) /\ n = Len(wire) /\ R = replay' /\ Q = queue'
  OBVIOUS
<1>2. /\ c = wire[1] /\ Len(w) = n - 1 /\ n \in Nat \ {0}
      /\ \A k \in 1..Len(w) : k + 1 \in 1..n /\ w[k] = wire[k + 1]
  BY <1>1, HeadTypes DEF Redis
<1>3. Id' = Id /\ R = replay /\ wire \in Seq(Command) /\ [Next]_vars
  BY <1>1 DEF Redis, redisRest, memoryVars, Id, TypeOK, Next
<1>4. ASSUME c.op = "append", NEW t \in Tab PROVE c.id \in Q \cup Settled(t)'
  <2>1. PICK all : all = queue \cup {c.id}
    OBVIOUS
  <2>2. /\ Q = Newest(all, MaxPerUser)
        /\ forgone'[t] = forgone[t] \cup ((all \ Newest(all, MaxPerUser)) \ Has(t))
    BY <1>1, <1>4, <2>1 DEF Redis, append, Trim, Forgo
  <2>3. all \ Newest(all, MaxPerUser) \subseteq Settled(t)'
    BY <1>3, <2>2, HasGrows, ForgoSettles
  <2> QED BY <2>1, <2>2, <2>3
<1>5. ASSUME NEW k \in 1..Len(w), w[k].op = "retrieve", NEW e \in Id
      PROVE  \/ e \in Settled(w[k].tab)' \/ e \in Range(R[w[k].tab]) \/ e \in Q
             \/ \E i \in 1..(k - 1) : w[i].op = "append" /\ w[i].id = e
  <2>1. PICK m \in 1..n : m = k + 1 /\ w[k] = wire[m]
    BY <1>2
  <2>2. wire[m] \in Command
    BY <1>1, <1>3
  <2>3. PICK t \in Tab : t = w[k].tab
    BY <1>5, <2>1, <2>2, CommandTypes
  <2>4. \/ e \in Settled(t) \/ e \in Range(replay[t]) \/ e \in queue
        \/ \E l \in 1..(m - 1) : wire[l].op = "append" /\ wire[l].id = e
    BY <1>1, <1>5, <2>1, <2>3 DEF ReadingOK
  <2>5. Settled(t) \subseteq Settled(t)' /\ queue \subseteq Q \cup Settled(t)'
    BY <1>1, <1>3, SettledStep
  <2>6. ASSUME NEW l \in 1..(m - 1), wire[l].op = "append", wire[l].id = e
        PROVE  \/ e \in Q \cup Settled(t)'
               \/ \E i \in 1..(k - 1) : w[i].op = "append" /\ w[i].id = e
    <3>1. CASE l = 1
      BY <1>2, <1>4, <2>6, <3>1
    <3>2. CASE l # 1
      <4>1. PICK i \in 1..(k - 1) : i = l - 1
        <5>1. l - 1 \in 1..(k - 1)
          BY <1>2, <2>1, <3>2
        <5> QED BY <5>1
      <4>2. i \in 1..Len(w) /\ i + 1 = l
        BY <1>2, <2>1, <4>1
      <4> QED BY <1>2, <2>6, <4>2
    <3> QED BY <3>1, <3>2
  <2> QED BY <1>3, <2>3, <2>4, <2>5, <2>6
<1> QED BY <1>1, <1>3, <1>5 DEF ReadingOK

LEMMA ReadingStep ==
  TypeOK /\ RecordOK /\ WireOK /\ AckOK /\ QueuedOK /\ PastOK /\ ReadingOK /\ [Next]_vars => ReadingOK'
<1> SUFFICES ASSUME TypeOK, RecordOK, WireOK, AckOK, QueuedOK, PastOK, ReadingOK, [Next]_vars
             PROVE  ReadingOK'
  OBVIOUS
<1>1. ASSUME Id' = Id, wire' = wire \/ \E c : Send(c) /\ c.op # "retrieve",
             \A t \in Tab : stage[t] = "reading" => replay'[t] = replay[t]
      PROVE  ReadingOK'
  BY <1>1, ReadingSame
<1>2. replay \in [Tab -> Seq(Id)]
  BY DEF TypeOK
<1>3. ASSUME NEW t \in Tab, ConnectAtOnce(t) \/ Leave(t) PROVE ReadingOK'
  BY <1>1, <1>3 DEF ConnectAtOnce, Leave, openRest, memoryVars, Id
<1>4. ASSUME NEW t \in Tab, Connect(t) PROVE ReadingOK'
  BY <1>4, ReadingConnect
<1>5. ASSUME NEW t \in Tab, Opened(t) PROVE ReadingOK'
  <2>1. wire' = wire \/ Send([op |-> "ack", by |-> t, upTo |-> Last(Drained(t))])
    BY <1>5 DEF Opened
  <2>2. [op |-> "ack", by |-> t, upTo |-> Last(Drained(t))].op # "retrieve"
    OBVIOUS
  <2>3. Id' = Id /\ stage[t] = "fetched" /\ replay' = [replay EXCEPT ![t] = <<>>]
    BY <1>5 DEF Opened, openRest, memoryVars, Id
  <2>4. \A u \in Tab : stage[u] = "reading" => replay'[u] = replay[u]
    BY <1>2, <2>3
  <2> QED BY <1>1, <2>1, <2>2, <2>3, <2>4
<1>6. ASSUME NEW j \in Job, ReplayBurst(j) \/ OfflineEmit(j) PROVE ReadingOK'
  <2>1. /\ Id' = Id \cup {lastId + 1} /\ replay' = replay
        /\ \A t \in Tab : stage[t] = "reading" => lastId + 1 \in Settled(t)'
    BY <1>6, EmitSettles
  <2>2. wire' = wire \/ Send([op |-> "append", id |-> lastId + 1])
    BY <1>6 DEF ReplayBurst, OfflineEmit, Burst, EmitToUser
  <2>3. [op |-> "append", id |-> lastId + 1].op # "retrieve"
    OBVIOUS
  <2>4. wire' = wire \/ \E c : Send(c) /\ c.op # "retrieve"
    BY <2>2, <2>3
  <2>5. \A t \in Tab : \A e \in Id' : stage[t] = "reading" => e \in Id \/ e \in Settled(t)'
    BY <2>1
  <2> QED BY <2>1, <2>4, <2>5, ReadingSame
<1>7. ASSUME NEW j \in Job, OfflineRefused(j) \/ Drop(j) \/ DropOne(j) PROVE ReadingOK'
  BY <1>1, <1>7 DEF OfflineRefused, Drop, DropOne, dropRest, burstRest, handshakeVars, memoryVars, Id
<1>8. ASSUME NEW j \in Job, Acknowledge(j) PROVE ReadingOK'
  <2>1. PICK e : Send([op |-> "ack", by |-> None, upTo |-> e])
    BY <1>8 DEF Acknowledge
  <2>2. [op |-> "ack", by |-> None, upTo |-> e].op # "retrieve" /\ Id' = Id /\ replay' = replay
    BY <1>8 DEF Acknowledge, redisRest, memoryVars, Id
  <2> QED BY <1>1, <2>1, <2>2
<1>9. ASSUME NEW j \in Job, Timeline(j) PROVE ReadingOK'
  <2>1. wire' = wire \/ Send([op |-> "peek", job |-> j])
    BY <1>9 DEF Timeline
  <2>2. [op |-> "peek", job |-> j].op # "retrieve" /\ Id' = Id /\ replay' = replay
    BY <1>9 DEF Timeline, burstRest, handshakeVars, memoryVars, Id
  <2> QED BY <1>1, <2>1, <2>2
<1>10. CASE Redis
  BY <1>10, ReadingRedis
<1>11. CASE Purge \/ Expire \/ UNCHANGED vars
  BY <1>1, <1>11 DEF Purge, Expire, redisRest, vars, handshakeVars, memoryVars, Id
<1>12. CASE Crash
  <2>1. Len(wire') = 0
    BY <1>12 DEF Crash
  <2> QED BY <2>1 DEF ReadingOK
<1> QED BY <1>3, <1>4, <1>5, <1>6, <1>7, <1>8, <1>9, <1>10, <1>11, <1>12 DEF Next

-----------------------------------------------------------------------------
LEMMA AckSame ==
  ASSUME TypeOK, RecordOK, AckOK, [Next]_vars, purging' \subseteq purging,
         \/ wire' = wire
         \/ \E c : /\ Send(c)
                   /\ c.op = "ack" /\ c.by # None =>
                        /\ c.by \in Tab
                        /\ \A e \in 1..c.upTo : e \in Settled(c.by)'
  PROVE  AckOK'
<1>1. PICK w, n, P : w = wire' /\ n = Len(wire) /\ P = purging'
  OBVIOUS
<1>2. wire \in Seq(Command) /\ n \in Nat /\ purging \subseteq [by : Tab \cup {None}, ids : SUBSET Id]
  BY <1>1 DEF TypeOK
<1>3. \A t \in Tab : Settled(t) \subseteq Settled(t)'
  BY SettledStep
<1>4. ASSUME NEW k \in 1..n, wire[k].op = "ack", wire[k].by # None, NEW c, c = wire[k],
             NEW e \in 1..c.upTo
      PROVE  e \in Settled(c.by)'
  <2>1. wire[k] \in Command
    BY <1>1, <1>2
  <2>2. PICK t \in Tab : t = c.by
    BY <1>4, <2>1, CommandTypes
  <2>3. e \in Settled(t)
    BY <1>1, <1>4, <2>2 DEF AckOK
  <2> QED BY <1>3, <2>2, <2>3
<1>5. ASSUME NEW k \in 1..Len(w), w[k].op = "ack", w[k].by # None, NEW e \in 1..w[k].upTo
      PROVE  e \in Settled(w[k].by)'
  <2>1. CASE wire' = wire
    BY <1>1, <1>4, <1>5, <2>1
  <2>2. ASSUME NEW c, Send(c),
               c.op = "ack" /\ c.by # None => \A i \in 1..c.upTo : i \in Settled(c.by)'
        PROVE  e \in Settled(w[k].by)'
    <3>1. w = Append(wire, c)
      BY <1>1, <2>2 DEF Send
    <3>2. /\ \A i \in 1..n : w[i] = wire[i]
          /\ w[n + 1] = c
          /\ k \in 1..n \/ k = n + 1
      BY <1>1, <1>2, <3>1, AppendAt
    <3>3. CASE k \in 1..n
      BY <1>4, <1>5, <3>2, <3>3
    <3>4. CASE k = n + 1
      BY <1>5, <2>2, <3>2, <3>4
    <3> QED BY <3>2, <3>3, <3>4
  <2> QED BY <2>1, <2>2
<1>6. ASSUME NEW p \in P, p.by # None PROVE p.ids \subseteq Settled(p.by)'
  <2>1. p \in purging /\ p.by \in Tab
    BY <1>1, <1>2, <1>6
  <2>2. p.ids \subseteq Settled(p.by)
    BY <1>6, <2>1 DEF AckOK
  <2> QED BY <1>3, <2>1, <2>2
<1> QED BY <1>1, <1>5, <1>6 DEF AckOK

LEMMA AckRedis ==
  ASSUME TypeOK, RecordOK, AckOK, Redis
  PROVE  AckOK'
<1>1. PICK w, c, n, P : w = wire' /\ c = Head(wire) /\ n = Len(wire) /\ P = purging'
  OBVIOUS
<1>2. /\ c = wire[1] /\ c \in Command /\ Len(w) = n - 1 /\ n \in Nat \ {0} /\ 1 \in 1..n
      /\ \A k \in 1..Len(w) : k + 1 \in 1..n /\ w[k] = wire[k + 1]
  BY <1>1, HeadTypes DEF Redis
<1>3. /\ wire \in Seq(Command) /\ purging \subseteq [by : Tab \cup {None}, ids : SUBSET Id]
      /\ queue \subseteq Id /\ lastId \in Nat /\ [Next]_vars
  BY DEF TypeOK, Next
<1>4. \A t \in Tab : Settled(t) \subseteq Settled(t)'
  BY <1>3, SettledStep
<1>5. ASSUME NEW k \in 1..n, wire[k].op = "ack", wire[k].by # None, NEW d, d = wire[k]
      PROVE  d.by \in Tab /\ \A e \in 1..d.upTo : e \in Settled(d.by)'
  <2>1. wire[k] \in Command
    BY <1>1, <1>3
  <2>2. PICK t \in Tab : t = d.by
    BY <1>5, <2>1, CommandTypes
  <2>3. \A e \in 1..d.upTo : e \in Settled(t)
    BY <1>1, <1>5, <2>2 DEF AckOK
  <2> QED BY <1>4, <2>2, <2>3
<1>6. ASSUME NEW k \in 1..Len(w), w[k].op = "ack", w[k].by # None, NEW e \in 1..w[k].upTo
      PROVE  e \in Settled(w[k].by)'
  BY <1>2, <1>5, <1>6
<1>7. ASSUME NEW p \in P, p.by # None PROVE p.ids \subseteq Settled(p.by)'
  <2>1. CASE p \in purging
    <3>1. p.by \in Tab
      BY <1>3, <1>7, <2>1
    <3>2. p.ids \subseteq Settled(p.by)
      BY <1>7, <2>1 DEF AckOK
    <3> QED BY <1>4, <3>1, <3>2
  <2>2. CASE p \notin purging
    <3>1. c.op = "ack" /\ acknowledge(c)
      BY <1>1, <2>2 DEF Redis, append, retrieve, readQueue
    <3>2. p = [by |-> c.by, ids |-> covered(c.upTo)]
      BY <1>1, <2>2, <3>1 DEF acknowledge
    <3>3. c.upTo \in Id /\ p.by = c.by
      BY <1>2, <3>1, <3>2, CommandTypes
    <3>4. p.ids \subseteq 1..c.upTo
      <4>1. p.ids = covered(c.upTo)
        BY <3>2
      <4>2. c.upTo \in Nat /\ Id \subseteq Nat \ {0}
        BY <1>3, <3>3 DEF Id
      <4>3. ASSUME NEW e \in covered(c.upTo) PROVE e \in 1..c.upTo
        <5>1. e \in Nat \ {0} /\ e <= c.upTo
          BY <1>3, <4>2, <4>3 DEF covered
        <5> QED BY <4>2, <5>1
      <4> QED BY <4>1, <4>3
    <3> QED BY <1>2, <1>5, <1>7, <3>1, <3>3, <3>4
  <2> QED BY <2>1, <2>2
<1> QED BY <1>1, <1>6, <1>7 DEF AckOK

LEMMA AckStep == TypeOK /\ RecordOK /\ AckOK /\ OpenOK' /\ [Next]_vars => AckOK'
<1> SUFFICES ASSUME TypeOK, RecordOK, AckOK, OpenOK', [Next]_vars PROVE AckOK'
  OBVIOUS
<1>1. ASSUME purging' \subseteq purging, wire' = wire PROVE AckOK'
  BY <1>1, AckSame
<1>2. ASSUME purging' \subseteq purging, NEW c, Send(c), c.op # "ack" \/ c.by = None PROVE AckOK'
  BY <1>2, AckSame
<1>3. ASSUME NEW t \in Tab, ConnectAtOnce(t) \/ Leave(t) PROVE AckOK'
  BY <1>1, <1>3 DEF ConnectAtOnce, Leave, openRest
<1>4. ASSUME NEW t \in Tab, Connect(t) PROVE AckOK'
  <2>1. purging' = purging /\ Send([op |-> "retrieve", tab |-> t])
    BY <1>4 DEF Connect, openRest
  <2> QED BY <1>2, <2>1
<1>5. ASSUME NEW t \in Tab, Opened(t) PROVE AckOK'
  <2>1. PICK d, c : d = Drained(t) /\ c = [op |-> "ack", by |-> t, upTo |-> Last(d)]
    OBVIOUS
  <2>2. purging' = purging /\ IF d # <<>> THEN Send(c) ELSE wire' = wire
    BY <1>5, <2>1 DEF Opened, openRest
  <2>3. lastId' = lastId /\ stage'[t] = "open"
    BY <1>5 DEF Opened, openRest, memoryVars, TypeOK
  <2>4. Id \subseteq Settled(t)'
    <3>1. Id' = Id
      BY <2>3 DEF Id
    <3> QED BY <2>3, <3>1 DEF OpenOK
  <2>5. CASE d # <<>>
    <3>1. d \in Seq(Id) /\ lastId \in Nat
      BY <2>1, DrainedIs DEF TypeOK
    <3>2. Last(d) \in Id
      BY <2>5, <3>1 DEF Last
    <3>3. 1..Last(d) \subseteq Id
      BY <3>1, <3>2 DEF Id
    <3>4. c.by = t /\ c.upTo = Last(d)
      BY <2>1
    <3>5. \A e \in 1..c.upTo : e \in Settled(c.by)'
      BY <2>4, <3>3, <3>4
    <3> QED BY <2>2, <2>5, <3>4, <3>5, AckSame
  <2> QED BY <1>1, <2>2, <2>5
<1>6. ASSUME NEW j \in Job, ReplayBurst(j) \/ OfflineEmit(j) PROVE AckOK'
  <2>1. purging' = purging
    BY <1>6, EmitSettles
  <2>2. wire' = wire \/ Send([op |-> "append", id |-> lastId + 1])
    BY <1>6 DEF ReplayBurst, OfflineEmit, Burst, EmitToUser
  <2> QED BY <1>1, <1>2, <2>1, <2>2
<1>7. ASSUME NEW j \in Job, OfflineRefused(j) \/ Drop(j) \/ DropOne(j) PROVE AckOK'
  BY <1>1, <1>7 DEF OfflineRefused, Drop, DropOne, dropRest, burstRest
<1>8. ASSUME NEW j \in Job, Acknowledge(j) PROVE AckOK'
  <2>1. PICK e : Send([op |-> "ack", by |-> None, upTo |-> e])
    BY <1>8 DEF Acknowledge
  <2>2. purging' = purging
    BY <1>8 DEF Acknowledge
  <2> QED BY <1>2, <2>1, <2>2
<1>9. ASSUME NEW j \in Job, Timeline(j) PROVE AckOK'
  <2>1. wire' = wire \/ Send([op |-> "peek", job |-> j])
    BY <1>9 DEF Timeline
  <2>2. purging' = purging
    BY <1>9 DEF Timeline, burstRest
  <2> QED BY <1>1, <1>2, <2>1, <2>2
<1>10. CASE Redis
  BY <1>10, AckRedis
<1>11. CASE Purge \/ Expire \/ UNCHANGED vars
  BY <1>1, <1>11 DEF Purge, Expire, redisRest, vars, handshakeVars
<1>12. CASE Crash
  <2>1. Len(wire') = 0 /\ purging' = {}
    BY <1>12 DEF Crash
  <2> QED BY <2>1 DEF AckOK
<1> QED BY <1>3, <1>4, <1>5, <1>6, <1>7, <1>8, <1>9, <1>10, <1>11, <1>12 DEF Next

-----------------------------------------------------------------------------
(* The theorems.                                                           *)

AccountOK == QueuedOK /\ PastOK /\ OpenOK /\ ReadingOK /\ FetchedOK /\ AckOK

IInv == /\ TypeOK /\ RecordOK /\ WireOK /\ StreamOK /\ FreshOK
        /\ DrainedIsPurged /\ AccountOK

LEMMA InitAccount == Init => AccountOK
<1> SUFFICES ASSUME Init PROVE AccountOK
  OBVIOUS
<1>1. /\ lastId = 0 /\ Len(wire) = 0 /\ purging = {}
      /\ stage = [t \in Tab |-> "none"] /\ got = [t \in Tab |-> <<>>]
  BY DEF Init
<1>2. \A x : x \notin Id
  BY <1>1 DEF Id
<1>3. QueuedOK /\ PastOK
  BY <1>2 DEF QueuedOK, PastOK
<1>4. OpenOK /\ FetchedOK
  BY <1>1 DEF OpenOK, FetchedOK
<1>5. ReadingOK /\ AckOK
  BY <1>1 DEF ReadingOK, AckOK
<1> QED BY <1>3, <1>4, <1>5 DEF AccountOK

LEMMA InvInit == Init => IInv
<1> SUFFICES ASSUME Init PROVE IInv
  OBVIOUS
<1>1. DrainedIsPurged
  BY DEF Init, DrainedIsPurged
<1> QED
  BY <1>1, InitTypes, RecordInit, WireInit, StreamInit, FreshInit, InitAccount DEF IInv

LEMMA InvStep == IInv /\ [Next]_vars => IInv'
<1> SUFFICES ASSUME IInv, [Next]_vars PROVE IInv'
  OBVIOUS
<1>1. /\ TypeOK /\ RecordOK /\ WireOK /\ StreamOK /\ FreshOK /\ DrainedIsPurged
      /\ QueuedOK /\ PastOK /\ OpenOK /\ ReadingOK /\ FetchedOK /\ AckOK
  BY DEF IInv, AccountOK
<1>2. TypeOK' /\ RecordOK' /\ WireOK' /\ StreamOK' /\ FreshOK' /\ DrainedIsPurged'
  BY <1>1, TypesStep, RecordStep, WireStep, StreamStep, FreshStep, PurgedStep
<1>3. OpenOK' /\ QueuedOK'
  BY <1>1, OpenStep, QueuedStep
<1>4. PastOK' /\ AckOK' /\ ReadingOK' /\ FetchedOK'
  BY <1>1, <1>3, PastStep, AckStep, ReadingStep, FetchedStep
<1> QED BY <1>2, <1>3, <1>4 DEF IInv, AccountOK

LEMMA Invariance == Spec => []IInv
BY InvInit, InvStep, PTL DEF Spec

\* Where an event is that a tab has neither heard nor been denied.
LEMMA NothingElse ==
  ASSUME IInv
  PROVE  NothingElseLost
<1> SUFFICES ASSUME NEW t \in Tab, Cursor(t) # None, NEW e \in Id \ (Has(t) \cup forgone[t])
             PROVE  e \in Ahead(t) \/ e \in Slipped(t)
  BY DEF NothingElseLost
<1>0. /\ TypeOK /\ RecordOK /\ WireOK /\ QueuedOK /\ PastOK /\ OpenOK /\ ReadingOK /\ FetchedOK
      /\ stage \in [Tab -> {"none", "reading", "fetched", "open"}] /\ lastId \in Nat
      /\ got \in [Tab -> Seq(Id)] /\ ring \in Seq(Id)
  BY DEF IInv, AccountOK, TypeOK
<1>1. e \in Id /\ e \notin Settled(t)
  BY DEF Settled
<1>2. CASE stage[t] = "open"
  BY <1>0, <1>1, <1>2 DEF OpenOK
<1>3. CASE stage[t] = "fetched"
  <2>1. e \in Range(replay[t]) \/ e \in Range(fetched[t])
    BY <1>0, <1>1, <1>3 DEF FetchedOK
  <2> QED BY <1>3, <2>1 DEF Ahead
<1>4. CASE stage[t] = "reading"
  <2>1. PICK k \in 1..Len(wire) : wire[k].op = "retrieve" /\ wire[k].tab = t
    BY <1>0, <1>4 DEF WireOK
  <2>2. \/ e \in Range(replay[t]) \/ e \in queue
        \/ \E l \in 1..(k - 1) : wire[l].op = "append" /\ wire[l].id = e
    BY <1>0, <1>1, <2>1 DEF ReadingOK
  <2>3. \A l \in 1..(k - 1) : l \in 1..Len(wire)
    BY <2>1
  <2>4. e \in Range(replay[t]) \/ e \in queue \/ e \in Appending
    BY <1>0, <2>2, <2>3, AppendingIs
  <2> QED BY <1>4, <2>4 DEF Ahead
<1>5. CASE stage[t] = "none"
  <2>1. Cursor(t) \in Nat /\ e \in Nat
    BY <1>0, <1>1, CursorIs DEF Id
  <2>2. e > Cursor(t)
    BY <1>0, <1>1, <2>1 DEF PastOK
  <2>3. CASE Cursor(t) \in Range(ring)
    <3>1. PICK s, c : s = Since(c) /\ c = Cursor(t)
      OBVIOUS
    <3>2. /\ c \in Id /\ s \in Seq(Id) /\ Len(s) = lastId - c
          /\ \A k \in 1..Len(s) : s[k] = c + k
      BY <1>0, <2>3, <3>1, SinceIs
    <3>3. PICK k \in 1..Len(s) : k = e - c
      <4>1. e - c \in 1..Len(s)
        BY <1>0, <1>1, <2>1, <2>2, <3>1, <3>2 DEF Id
      <4> QED BY <4>1
    <3>4. s[k] = e
      BY <2>1, <3>1, <3>2, <3>3
    <3>5. e \in Range(s)
      BY <3>2, <3>4, RangeIs
    <3> QED BY <1>5, <3>1, <3>5 DEF Ahead
  <2>4. CASE Cursor(t) \notin Range(ring)
    <3>1. Slipped(t) = unqueued
      BY <2>4 DEF Slipped
    <3>2. e \in unqueued \/ e \in queue \/ e \in Appending
      BY <1>0, <1>1 DEF QueuedOK
    <3> QED BY <1>5, <2>1, <2>2, <3>1, <3>2 DEF Ahead
  <2> QED BY <2>3, <2>4
<1> QED BY <1>0, <1>2, <1>3, <1>4, <1>5

\* Every variable keeps its type: ids never run ahead of the counter, the
\* ring stays within REALTIME_REPLAY_BUFFER_SIZE and the queue within
\* OFFLINE_QUEUE_MAX_PER_USER, whatever is interleaved, trimmed or restarted
\* (RedisOfflineQueue.append's zremrangebyrank).
THEOREM TypeCorrect == Spec => []TypeOK
<1>1. IInv => TypeOK
  BY DEF IInv
<1> QED BY <1>1, Invariance, PTL

\* ReplayService.timelineFor: as long as one burst owns the record, it is
\* the burst's 1..count and what it calls retained is what the ring holds.
THEOREM TheRecordIsHonest == Spec => []TimelineHonest
<1>1. IInv => TimelineHonest
  BY RecordTells DEF IInv
<1> QED BY <1>1, Invariance, PTL

\* A tab hears each event at most once and in the order of emission, over
\* any number of reconnects: the replay of the ring, the drain of
\* RedisOfflineQueue.retrieveSince and the live events are one stream.
THEOREM ReconnectsJoin == Spec => []OneStream
<1>1. ASSUME IInv PROVE OneStream
  <2>1. got \in [Tab -> Seq(Id)] /\ \A t \in Tab : Increasing(got[t])
    BY <1>1 DEF IInv, TypeOK, StreamOK
  <2>2. \A t \in Tab : DOMAIN got[t] = 1..Len(got[t])
    BY <2>1
  <2> QED BY <2>1, <2>2 DEF OneStream, Increasing
<1> QED BY <1>1, Invariance, PTL

\* RedisOfflineQueue.acknowledge: while the process lives, what a stream has
\* drained and the queue still holds is covered by an acknowledgement on its
\* way, between its zrange and its zrem or before them.
THEOREM DrainsArePurged == Spec => []DrainedIsPurged
<1>1. IInv => DrainedIsPurged
  BY DEF IInv
<1> QED BY <1>1, Invariance, PTL

\* Whatever emits, connects, drops, acknowledges, expires or restarts: an
\* event a tab has not heard is ahead of it in the ring, in the queue or on
\* its way there, unless the code gave it up where it says so, or it was never
\* queued and the ring has dropped the tab's cursor.
THEOREM OnlyTheForgoneIsLost == Spec => []NothingElseLost
<1>1. IInv => NothingElseLost
  BY NothingElse
<1> QED BY <1>1, Invariance, PTL
=============================================================================
