--------------------------- MODULE InMemoryProofs ---------------------------
(* Proofs about what the process keeps in memory and its goroutines share:   *)
(* the task queue (MemoryQueue) for every set of ids and consumers and every *)
(* capacity, and the HTTP edge (ApiEdge) for every number of publishers,     *)
(* requests, connections and restarts and every size of the ring, the        *)
(* buffers and the cache.  The two share no state, only the lemmas about     *)
(* sequences at the start.                                                   *)
EXTENDS MemoryQueue, ApiEdge, FiniteSetTheorems, WellFoundedInduction, TLAPS

-----------------------------------------------------------------------------
(* Sequences.                                                                *)

LEMMA AppendIs ==
    ASSUME NEW S, NEW s \in Seq(S), NEW x \in S
    PROVE  LET t == Append(s, x) IN
           /\ t \in Seq(S) /\ Len(s) \in Nat /\ Len(t) = Len(s) + 1
           /\ DOMAIN s = 1..Len(s) /\ DOMAIN t = 1..(Len(s) + 1)
           /\ t[Len(s) + 1] = x /\ \A i \in DOMAIN s : t[i] = s[i]
  OBVIOUS

LEMMA TailIs ==
    ASSUME NEW S, NEW s \in Seq(S), s # <<>>
    PROVE  LET t == Tail(s) IN
           /\ Head(s) = s[1] /\ s[1] \in S /\ 1 \in DOMAIN s
           /\ t \in Seq(S) /\ Len(t) = Len(s) - 1 /\ Len(s) \in Nat \ {0}
           /\ DOMAIN t = 1..(Len(s) - 1) /\ DOMAIN s = 1..Len(s)
           /\ \A i \in DOMAIN t : t[i] = s[i + 1] /\ i + 1 \in DOMAIN s
           /\ \A i \in DOMAIN s : i # 1 => i - 1 \in DOMAIN t /\ t[i - 1] = s[i]
<1> DEFINE t == Tail(s)
<1>1. Len(s) \in Nat \ {0} /\ DOMAIN s = 1..Len(s)
  OBVIOUS
<1>2. Head(s) = s[1] /\ s[1] \in S /\ 1 \in DOMAIN s
  BY <1>1
<1>3. t \in Seq(S) /\ Len(t) = Len(s) - 1 /\ DOMAIN t = 1..(Len(s) - 1)
  BY <1>1
<1>4. \A i \in 1..(Len(s) - 1) : t[i] = s[i + 1]
  BY <1>1, <1>3
<1> HIDE DEF t
<1>5. \A i \in DOMAIN t : t[i] = s[i + 1] /\ i + 1 \in DOMAIN s
  BY <1>1, <1>3, <1>4
<1>6. ASSUME NEW i \in DOMAIN s, i # 1 PROVE i - 1 \in DOMAIN t /\ t[i - 1] = s[i]
  <2>1. i - 1 \in DOMAIN t /\ (i - 1) + 1 = i
    BY <1>1, <1>3, <1>6
  <2> QED
    BY <1>5, <2>1
<1> QED
  BY <1>1, <1>2, <1>3, <1>5, <1>6 DEF t

LEMMA LeastNatural ==
    ASSUME NEW T \in SUBSET Nat, T # {}
    PROVE  \E x \in T : \A y \in T : x <= y
<1> DEFINE Less == {ss \in Nat \X Nat : ss[1] < ss[2]}
<1>1. IsWellFoundedOn(Less, Nat)
  BY NatLessThanWellFounded DEF OpToRel
<1>2. ASSUME NEW x \in Nat, NEW y \in Nat, y < x
      PROVE  <<y, x>> \in Less
  BY <1>2
<1> HIDE DEF Less
<1>3. PICK x \in T : \A y \in T : <<y, x>> \notin Less
  BY <1>1, WFMin
<1>4. ASSUME NEW y \in T
      PROVE  x <= y
  <2>1. y \in Nat /\ x \in Nat /\ ~(y < x)
    BY <1>2, <1>3
  <2> QED
    BY <2>1
<1> QED
  BY <1>4

\* What holds of 0 and goes from each number to the next one holds up to m.
LEMMA UpTo ==
    ASSUME NEW m \in Nat, NEW G, 0 \in G, \A n \in 1..m : n - 1 \in G => n \in G
    PROVE  \A n \in 0..m : n \in G
<1> DEFINE Out == {n \in Nat : n <= m /\ n \notin G}
<1>1. SUFFICES ASSUME Out # {} PROVE FALSE
  OBVIOUS
<1>2. PICK n \in Out : \A k \in Out : n <= k
  <2>1. Out \in SUBSET Nat
    OBVIOUS
  <2> HIDE DEF Out
  <2> QED
    BY <1>1, <2>1, LeastNatural
<1>3. n # 0 /\ n - 1 \notin Out
  BY <1>2
<1> QED
  BY <1>3

-----------------------------------------------------------------------------
(* The recursive functions of Subsequences exist, so that they satisfy their *)
(* equations.                                                                *)

Picks(g, s, I, m) ==
  g = [n \in 0..m |->
        IF n = 0 THEN <<>>
        ELSE IF n \in I THEN Append(g[n - 1], s[n]) ELSE g[n - 1]]

PickOf(s, I) == CHOOSE g : Picks(g, s, I, Len(s))

LEMMA PicksExist ==
    ASSUME NEW s, NEW I, NEW m \in Nat
    PROVE  \E g : Picks(g, s, I, m)
<1> DEFINE G == {n \in Nat : \E g : Picks(g, s, I, n)}
<1>1. 0 \in G
  <2>1. Picks([n \in 0..0 |-> <<>>], s, I, 0)
    BY DEF Picks
  <2> QED
    BY <2>1
<1>2. ASSUME NEW k \in 1..m, k - 1 \in G
      PROVE  k \in G
  <2>1. PICK g : Picks(g, s, I, k - 1)
    BY <1>2
  <2> DEFINE new == IF k \in I THEN Append(g[k - 1], s[k]) ELSE g[k - 1]
             h == [n \in 0..k |-> IF n = k THEN new ELSE g[n]]
  <2>2. \A n \in 0..(k - 1) : g[n] = IF n = 0 THEN <<>>
                                     ELSE IF n \in I THEN Append(g[n - 1], s[n]) ELSE g[n - 1]
    BY <2>1 DEF Picks
  <2>3. ASSUME NEW n \in 0..k
        PROVE  h[n] = IF n = 0 THEN <<>>
                      ELSE IF n \in I THEN Append(h[n - 1], s[n]) ELSE h[n - 1]
    <3>1. CASE n = k
      <4>1. h[n] = new /\ h[n - 1] = g[k - 1] /\ n # 0
        BY <3>1
      <4> QED
        BY <3>1, <4>1
    <3>2. CASE n # k
      <4>1. n \in 0..(k - 1) /\ h[n] = g[n]
        BY <3>2
      <4>2. n # 0 => n - 1 \in 0..k /\ n - 1 # k /\ h[n - 1] = g[n - 1]
        BY <3>2
      <4> HIDE DEF h
      <4> QED
        BY <2>2, <4>1, <4>2
    <3> QED
      BY <3>1, <3>2
  <2>4. Picks(h, s, I, k)
    BY <2>3 DEF Picks
  <2> QED
    BY <2>4
<1> HIDE DEF G
<1>3. \A n \in 0..m : n \in G
  BY <1>1, <1>2, UpTo
<1> QED
  BY <1>3 DEF G

LEMMA PickIs ==
    ASSUME NEW S, NEW s \in Seq(S), NEW I
    PROVE  /\ Selected(s, I) = PickOf(s, I)[Len(s)]
           /\ PickOf(s, I)[0] = <<>>
           /\ \A n \in 1..Len(s) :
                PickOf(s, I)[n] = IF n \in I THEN Append(PickOf(s, I)[n - 1], s[n])
                                  ELSE PickOf(s, I)[n - 1]
<1>0. Len(s) \in Nat
  OBVIOUS
<1>1. Picks(PickOf(s, I), s, I, Len(s))
  BY <1>0, PicksExist DEF PickOf
<1>2. \A n \in 0..Len(s) : PickOf(s, I)[n] =
         IF n = 0 THEN <<>>
         ELSE IF n \in I THEN Append(PickOf(s, I)[n - 1], s[n]) ELSE PickOf(s, I)[n - 1]
  BY <1>1 DEF Picks
<1>3. 0 \in 0..Len(s) /\ \A n \in 1..Len(s) : n \in 0..Len(s) /\ n # 0
  BY <1>0
<1>4. Selected(s, I) = PickOf(s, I)[Len(s)]
  BY DEF Selected, PickOf, Picks
<1> QED
  BY <1>2, <1>3, <1>4

Sums(g, s, m) == g = [n \in 0..m |-> IF n = 0 THEN 0 ELSE g[n - 1] + s[n].size]

SumOf(s) == CHOOSE g : Sums(g, s, Len(s))

LEMMA SumsExist ==
    ASSUME NEW s, NEW m \in Nat
    PROVE  \E g : Sums(g, s, m)
<1> DEFINE G == {n \in Nat : \E g : Sums(g, s, n)}
<1>1. 0 \in G
  <2>1. Sums([n \in 0..0 |-> 0], s, 0)
    BY DEF Sums
  <2> QED
    BY <2>1
<1>2. ASSUME NEW k \in 1..m, k - 1 \in G
      PROVE  k \in G
  <2>1. PICK g : Sums(g, s, k - 1)
    BY <1>2
  <2> DEFINE h == [n \in 0..k |-> IF n = k THEN g[k - 1] + s[k].size ELSE g[n]]
  <2>2. \A n \in 0..(k - 1) : g[n] = IF n = 0 THEN 0 ELSE g[n - 1] + s[n].size
    BY <2>1 DEF Sums
  <2>3. ASSUME NEW n \in 0..k
        PROVE  h[n] = IF n = 0 THEN 0 ELSE h[n - 1] + s[n].size
    <3>1. CASE n = k
      BY <3>1
    <3>2. CASE n # k
      <4>1. n \in 0..(k - 1) /\ h[n] = g[n]
        BY <3>2
      <4>2. n # 0 => n - 1 \in 0..k /\ n - 1 # k /\ h[n - 1] = g[n - 1]
        BY <3>2
      <4> HIDE DEF h
      <4> QED
        BY <2>2, <4>1, <4>2
    <3> QED
      BY <3>1, <3>2
  <2>4. Sums(h, s, k)
    BY <2>3 DEF Sums
  <2> QED
    BY <2>4
<1> HIDE DEF G
<1>3. \A n \in 0..m : n \in G
  BY <1>1, <1>2, UpTo
<1> QED
  BY <1>3 DEF G

LEMMA SumIs ==
    ASSUME NEW S, NEW s \in Seq(S)
    PROVE  /\ Bytes(s) = SumOf(s)[Len(s)]
           /\ SumOf(s)[0] = 0
           /\ \A n \in 1..Len(s) : SumOf(s)[n] = SumOf(s)[n - 1] + s[n].size
<1>0. Len(s) \in Nat
  OBVIOUS
<1>1. Sums(SumOf(s), s, Len(s))
  BY <1>0, SumsExist DEF SumOf
<1>2. \A n \in 0..Len(s) : SumOf(s)[n] = IF n = 0 THEN 0 ELSE SumOf(s)[n - 1] + s[n].size
  BY <1>1 DEF Sums
<1>3. 0 \in 0..Len(s) /\ \A n \in 1..Len(s) : n \in 0..Len(s) /\ n # 0
  BY <1>0
<1>4. Bytes(s) = SumOf(s)[Len(s)]
  BY DEF Bytes, SumOf, Sums
<1> QED
  BY <1>2, <1>3, <1>4


-----------------------------------------------------------------------------
(* Sums of sizes.                                                            *)

Entries == [key : Keys, size : Nat, expired : BOOLEAN]

LEMMA SumsNat ==
    ASSUME NEW s \in Seq(Entries)
    PROVE  (\A n \in 0..Len(s) : SumOf(s)[n] \in Nat) /\ Bytes(s) \in Nat
<1>0. Len(s) \in Nat
  OBVIOUS
<1> DEFINE G == {n \in Nat : n <= Len(s) => SumOf(s)[n] \in Nat}
<1>1. 0 \in G
  BY SumIs
<1>2. ASSUME NEW n \in 1..Len(s), n - 1 \in G
      PROVE  n \in G
  <2>1. s[n] \in Entries
    OBVIOUS
  <2>2. s[n].size \in Nat
    BY <2>1 DEF Entries
  <2>3. SumOf(s)[n] = SumOf(s)[n - 1] + s[n].size
    BY SumIs
  <2>4. SumOf(s)[n - 1] \in Nat
    BY <1>2
  <2> QED
    BY <2>2, <2>3, <2>4
<1> HIDE DEF G
<1>3. \A n \in 0..Len(s) : n \in G
  BY <1>0, <1>1, <1>2, UpTo
<1>4. \A n \in 0..Len(s) : SumOf(s)[n] \in Nat
  BY <1>0, <1>3 DEF G
<1> QED
  BY <1>0, <1>4, SumIs

\* The sum up to n depends on the first n sizes only.
LEMMA SumsAgree ==
    ASSUME NEW s \in Seq(Entries), NEW t \in Seq(Entries), NEW m \in Nat, m <= Len(s), m <= Len(t),
           \A i \in 1..m : s[i].size = t[i].size
    PROVE  SumOf(s)[m] = SumOf(t)[m]
<1>0. Len(s) \in Nat /\ Len(t) \in Nat
  OBVIOUS
<1> DEFINE G == {n \in Nat : n <= m => SumOf(s)[n] = SumOf(t)[n]}
<1>1. 0 \in G
  BY SumIs
<1>2. ASSUME NEW n \in 1..m, n - 1 \in G
      PROVE  n \in G
  <2>1. SumOf(s)[n] = SumOf(s)[n - 1] + s[n].size /\ SumOf(t)[n] = SumOf(t)[n - 1] + t[n].size
    BY <1>0, SumIs
  <2>2. SumOf(s)[n - 1] = SumOf(t)[n - 1] /\ s[n].size = t[n].size
    BY <1>2
  <2> QED
    BY <2>1, <2>2
<1> HIDE DEF G
<1>3. \A n \in 0..m : n \in G
  BY <1>1, <1>2, UpTo
<1> QED
  BY <1>3 DEF G

\* Equal sizes, equal sums.
LEMMA BytesAgree ==
    ASSUME NEW s \in Seq(Entries), NEW t \in Seq(Entries), Len(s) = Len(t),
           \A i \in 1..Len(s) : s[i].size = t[i].size
    PROVE  Bytes(s) = Bytes(t)
<1>1. Len(s) \in Nat
  OBVIOUS
<1>2. SumOf(s)[Len(s)] = SumOf(t)[Len(s)]
  BY <1>1, SumsAgree
<1> QED
  BY <1>2, SumIs

LEMMA BytesEmpty == Bytes(<<>>) = 0
<1>1. <<>> \in Seq(Entries) /\ Len(<<>>) = 0
  OBVIOUS
<1> QED
  BY <1>1, SumIs

LEMMA BytesAppend ==
    ASSUME NEW s \in Seq(Entries), NEW x \in Entries
    PROVE  Bytes(Append(s, x)) = Bytes(s) + x.size
<1> DEFINE t == Append(s, x)
           m == Len(s)
<1>1. m \in Nat /\ t \in Seq(Entries) /\ Len(t) = m + 1 /\ t[m + 1] = x /\ \A i \in 1..m : t[i] = s[i]
  OBVIOUS
<1> HIDE DEF t
<1>2. SumOf(t)[m] = SumOf(s)[m]
  BY <1>1, SumsAgree
<1>3. m + 1 \in 1..Len(t) /\ (m + 1) - 1 = m
  BY <1>1
<1>4. SumOf(t)[m + 1] = SumOf(t)[m] + x.size
  <2>1. SumOf(t)[m + 1] = SumOf(t)[(m + 1) - 1] + t[m + 1].size
    BY <1>1, <1>3, SumIs
  <2> QED
    BY <1>1, <1>3, <2>1
<1>5. Bytes(t) = SumOf(t)[m + 1] /\ Bytes(s) = SumOf(s)[m]
  BY <1>1, SumIs
<1>6. Bytes(t) = Bytes(s) + x.size
  BY <1>2, <1>4, <1>5
<1> QED
  BY <1>6 DEF t

\* The bytes of the oldest n entries and of the others.
LEMMA BytesSplit ==
    ASSUME NEW s \in Seq(Entries), NEW n \in 0..Len(s)
    PROVE  /\ SubSeq(s, 1, n) \in Seq(Entries) /\ SubSeq(s, n + 1, Len(s)) \in Seq(Entries)
           /\ Bytes(SubSeq(s, 1, n)) + Bytes(SubSeq(s, n + 1, Len(s))) = Bytes(s)
<1> DEFINE a == SubSeq(s, 1, n)
           b == SubSeq(s, n + 1, Len(s))
           m == Len(s) - n
<1>0. Len(s) \in Nat /\ n \in Nat /\ m \in Nat
  OBVIOUS
<1>1. a \in Seq(Entries) /\ Len(a) = n /\ \A i \in 1..n : a[i] = s[i]
  OBVIOUS
<1>2. b \in Seq(Entries) /\ Len(b) = m /\ \A i \in 1..m : b[i] = s[n + i]
  OBVIOUS
<1> HIDE DEF a, b
<1>3. Bytes(a) = SumOf(s)[n]
  <2>1. SumOf(a)[n] = SumOf(s)[n]
    BY <1>0, <1>1, SumsAgree
  <2> QED
    BY <1>1, <2>1, SumIs
<1>4. \A k \in 0..Len(s) : SumOf(s)[k] \in Nat
  BY SumsNat
<1>5. \A k \in 0..m : SumOf(b)[k] \in Nat
  BY <1>2, SumsNat
<1> DEFINE G == {k \in Nat : k <= m => SumOf(s)[n] + SumOf(b)[k] = SumOf(s)[n + k]}
<1>6. 0 \in G
  <2>1. SumOf(b)[0] = 0 /\ SumOf(s)[n] \in Nat /\ n + 0 = n
    BY <1>0, <1>2, <1>4, SumIs
  <2> QED
    BY <2>1
<1>7. ASSUME NEW k \in 1..m, k - 1 \in G
      PROVE  k \in G
  <2>1. SumOf(s)[n] + SumOf(b)[k - 1] = SumOf(s)[n + (k - 1)]
    BY <1>0, <1>7
  <2>2. SumOf(b)[k] = SumOf(b)[k - 1] + b[k].size
    BY <1>2, SumIs
  <2>3. n + k \in 1..Len(s) /\ (n + k) - 1 = n + (k - 1)
    BY <1>0
  <2>4. SumOf(s)[n + k] = SumOf(s)[n + (k - 1)] + s[n + k].size
    <3>1. SumOf(s)[n + k] = SumOf(s)[(n + k) - 1] + s[n + k].size
      BY <2>3, SumIs
    <3> QED
      BY <2>3, <3>1
  <2>5. b[k] = s[n + k] /\ s[n + k] \in Entries
    BY <1>2, <2>3
  <2>6. s[n + k].size \in Nat
    BY <2>5 DEF Entries
  <2>7. SumOf(s)[n] \in Nat /\ SumOf(b)[k - 1] \in Nat
    BY <1>0, <1>4, <1>5
  <2> QED
    BY <2>1, <2>2, <2>4, <2>5, <2>6, <2>7
<1> HIDE DEF G
<1>8. \A k \in 0..m : k \in G
  BY <1>0, <1>6, <1>7, UpTo
<1>9. SumOf(s)[n] + SumOf(b)[m] = SumOf(s)[n + m]
  BY <1>0, <1>8 DEF G
<1>10. n + m = Len(s)
  BY <1>0
<1>11. Bytes(a) + Bytes(b) = Bytes(s)
  BY <1>2, <1>3, <1>9, <1>10, SumIs
<1> QED
  BY <1>1, <1>2, <1>11 DEF a, b


-----------------------------------------------------------------------------
(* What a selection holds.                                                   *)

\* Each selected entry is one of the places in I, and each such place is there.
LEMMA SelectedHas ==
    ASSUME NEW S, NEW s \in Seq(S), NEW I
    PROVE  /\ Selected(s, I) \in Seq(S)
           /\ \A j \in DOMAIN Selected(s, I) : \E i \in DOMAIN s \cap I : Selected(s, I)[j] = s[i]
           /\ \A i \in DOMAIN s \cap I : \E j \in DOMAIN Selected(s, I) : Selected(s, I)[j] = s[i]
<1>0. Len(s) \in Nat /\ DOMAIN s = 1..Len(s)
  OBVIOUS
<1> DEFINE P == PickOf(s, I)
           Good(n) == /\ P[n] \in Seq(S)
                      /\ \A j \in DOMAIN P[n] : \E i \in (1..n) \cap I : P[n][j] = s[i]
                      /\ \A i \in (1..n) \cap I : \E j \in DOMAIN P[n] : P[n][j] = s[i]
           G == {n \in Nat : n <= Len(s) => Good(n)}
<1>1. 0 \in G
  <2>1. P[0] = <<>>
    BY PickIs
  <2>2. <<>> \in Seq(S) /\ DOMAIN <<>> = {} /\ 1..0 = {}
    OBVIOUS
  <2> HIDE DEF P
  <2> QED
    BY <2>1, <2>2
<1>2. ASSUME NEW n \in 1..Len(s), n - 1 \in G
      PROVE  n \in G
  <2>1. Good(n - 1)
    BY <1>0, <1>2
  <2>2. P[n] = IF n \in I THEN Append(P[n - 1], s[n]) ELSE P[n - 1]
    BY PickIs
  <2>3. 1..n = (1..(n - 1)) \cup {n}
    BY <1>0
  <2>4. s[n] \in S
    BY <1>0
  <2> HIDE DEF P
  <2>0. Good(n) => n \in G
    <3> HIDE DEF Good
    <3> QED
      BY <1>0
  <2> SUFFICES Good(n)
    BY <2>0
  <2>5. CASE n \in I
    <3>1. PICK t \in Seq(S) : t = P[n - 1]
      BY <2>1
    <3> DEFINE u == Append(t, s[n])
    <3>2. /\ u \in Seq(S) /\ Len(t) \in Nat /\ DOMAIN t = 1..Len(t) /\ DOMAIN u = 1..(Len(t) + 1)
          /\ u[Len(t) + 1] = s[n] /\ \A j \in 1..Len(t) : u[j] = t[j]
      BY <2>4
    <3>3. P[n] = u
      BY <2>2, <2>5, <3>1
    <3> HIDE DEF u
    <3>4. \A j \in DOMAIN u : \E i \in (1..n) \cap I : u[j] = s[i]
      <4>1. ASSUME NEW j \in DOMAIN u PROVE \E i \in (1..n) \cap I : u[j] = s[i]
        <5>1. CASE j = Len(t) + 1
          BY <2>3, <2>5, <3>2, <5>1
        <5>2. CASE j # Len(t) + 1
          <6>1. j \in DOMAIN t /\ u[j] = t[j]
            BY <3>2, <5>2
          <6>2. PICK i \in (1..(n - 1)) \cap I : t[j] = s[i]
            BY <2>1, <3>1, <6>1
          <6> QED
            BY <2>3, <6>1, <6>2
        <5> QED
          BY <5>1, <5>2
      <4> QED
        BY <4>1
    <3>5. \A i \in (1..n) \cap I : \E j \in DOMAIN u : u[j] = s[i]
      <4>1. ASSUME NEW i \in (1..n) \cap I PROVE \E j \in DOMAIN u : u[j] = s[i]
        <5>1. CASE i = n
          BY <3>2, <5>1
        <5>2. CASE i # n
          <6>1. i \in (1..(n - 1)) \cap I
            BY <2>3, <5>2
          <6>2. PICK j \in DOMAIN t : t[j] = s[i]
            BY <2>1, <3>1, <6>1
          <6>3. j \in DOMAIN u /\ u[j] = t[j]
            BY <3>2
          <6> QED
            BY <6>2, <6>3
        <5> QED
          BY <5>1, <5>2
      <4> QED
        BY <4>1
    <3> QED
      BY <3>2, <3>3, <3>4, <3>5
  <2>6. CASE n \notin I
    <3>1. P[n] = P[n - 1] /\ (1..n) \cap I = (1..(n - 1)) \cap I
      BY <2>2, <2>3, <2>6
    <3>2. \A j \in DOMAIN P[n] : \E i \in (1..n) \cap I : P[n][j] = s[i]
      BY <2>1, <3>1
    <3>3. \A i \in (1..n) \cap I : \E j \in DOMAIN P[n] : P[n][j] = s[i]
      BY <2>1, <3>1
    <3> QED
      BY <2>1, <3>1, <3>2, <3>3
  <2> QED
    BY <2>5, <2>6
<1> HIDE DEF G
<1>3. \A n \in 0..Len(s) : n \in G
  BY <1>0, <1>1, <1>2, UpTo
<1> HIDE DEF P
<1>4. Good(Len(s))
  BY <1>0, <1>3 DEF G
<1>5. Selected(s, I) = P[Len(s)]
  BY PickIs DEF P
<1>6. (1..Len(s)) \cap I = DOMAIN s \cap I
  BY <1>0
<1> DEFINE t == P[Len(s)]
           J == (1..Len(s)) \cap I
<1>7. /\ t \in Seq(S)
      /\ \A j \in DOMAIN t : \E i \in J : t[j] = s[i]
      /\ \A i \in J : \E j \in DOMAIN t : t[j] = s[i]
  BY <1>4
<1>8. t = Selected(s, I) /\ J = DOMAIN s \cap I
  BY <1>5, <1>6
<1> HIDE DEF t, J
<1> QED
  BY <1>7, <1>8

LEMMA SelectedLen ==
    ASSUME NEW S, NEW s \in Seq(S), NEW I
    PROVE  Len(Selected(s, I)) \in 0..Len(s)
<1>0. Len(s) \in Nat /\ DOMAIN s = 1..Len(s)
  OBVIOUS
<1> DEFINE P == PickOf(s, I)
           Good(n) == P[n] \in Seq(S) /\ Len(P[n]) \in 0..n
           G == {n \in Nat : n <= Len(s) => Good(n)}
<1>1. 0 \in G
  <2>1. P[0] = <<>>
    BY PickIs
  <2>2. <<>> \in Seq(S) /\ Len(<<>>) = 0
    OBVIOUS
  <2> HIDE DEF P
  <2>3. Good(0)
    BY <2>1, <2>2
  <2> QED
    BY <2>3
<1>2. ASSUME NEW n \in 1..Len(s), n - 1 \in G
      PROVE  n \in G
  <2>1. Good(n - 1)
    BY <1>0, <1>2
  <2>2. P[n] = IF n \in I THEN Append(P[n - 1], s[n]) ELSE P[n - 1]
    BY PickIs
  <2> HIDE DEF P
  <2>3. s[n] \in S
    BY <1>0
  <2>4. PICK t \in Seq(S) : t = P[n - 1]
    BY <2>1
  <2>5. Append(t, s[n]) \in Seq(S) /\ Len(Append(t, s[n])) = Len(t) + 1
    BY <2>3
  <2>6. Good(n)
    BY <1>0, <2>1, <2>2, <2>4, <2>5
  <2> QED
    BY <2>6
<1> HIDE DEF G
<1>3. \A n \in 0..Len(s) : n \in G
  BY <1>0, <1>1, <1>2, UpTo
<1> HIDE DEF P
<1>4. Good(Len(s))
  BY <1>0, <1>3 DEF G
<1>5. Selected(s, I) = P[Len(s)]
  BY PickIs DEF P
<1> QED
  BY <1>4, <1>5

Distinct(s) == \A i, j \in DOMAIN s : s[i].key = s[j].key => i = j

\* An entry whose key is new keeps the keys distinct.
LEMMA AppendDistinct ==
    ASSUME NEW s \in Seq(Entries), Distinct(s), NEW x \in Entries, \A i \in DOMAIN s : s[i].key # x.key
    PROVE  Distinct(Append(s, x))
<1> DEFINE t == Append(s, x)
           m == Len(s)
<1>1. /\ m \in Nat /\ DOMAIN s = 1..m /\ DOMAIN t = 1..(m + 1)
      /\ t[m + 1] = x /\ \A i \in 1..m : t[i] = s[i]
  OBVIOUS
<1> HIDE DEF t, m
<1>2. ASSUME NEW i \in 1..(m + 1), NEW j \in 1..(m + 1), t[i].key = t[j].key
      PROVE  i = j
  <2>1. CASE i = m + 1 /\ j = m + 1
    BY <2>1
  <2>2. CASE i = m + 1 /\ j # m + 1
    <3>1. j \in 1..m
      BY <1>1, <2>2
    <3> QED
      BY <1>1, <1>2, <2>2, <3>1
  <2>3. CASE i # m + 1 /\ j = m + 1
    <3>1. i \in 1..m
      BY <1>1, <2>3
    <3> QED
      BY <1>1, <1>2, <2>3, <3>1
  <2>4. CASE i # m + 1 /\ j # m + 1
    <3>1. i \in 1..m /\ j \in 1..m
      BY <1>1, <2>4
    <3> QED
      BY <1>1, <1>2, <3>1 DEF Distinct
  <2> QED
    BY <2>1, <2>2, <2>3, <2>4
<1>3. Distinct(t)
  BY <1>1, <1>2 DEF Distinct
<1> QED
  BY <1>3 DEF t

LEMMA SelectedDistinct ==
    ASSUME NEW s \in Seq(Entries), Distinct(s), NEW I
    PROVE  Distinct(Selected(s, I))
<1>0. Len(s) \in Nat /\ DOMAIN s = 1..Len(s)
  OBVIOUS
<1> DEFINE P == PickOf(s, I)
           Good(n) == /\ P[n] \in Seq(Entries) /\ Distinct(P[n])
                      /\ \A j \in DOMAIN P[n] : \E i \in 1..n : P[n][j] = s[i]
           G == {n \in Nat : n <= Len(s) => Good(n)}
<1>1. 0 \in G
  <2>1. P[0] = <<>>
    BY PickIs
  <2>2. <<>> \in Seq(Entries) /\ DOMAIN <<>> = {}
    OBVIOUS
  <2> HIDE DEF P
  <2> QED
    BY <2>1, <2>2 DEF Distinct
<1>2. ASSUME NEW n \in 1..Len(s), n - 1 \in G
      PROVE  n \in G
  <2>1. Good(n - 1)
    BY <1>0, <1>2
  <2>2. P[n] = IF n \in I THEN Append(P[n - 1], s[n]) ELSE P[n - 1]
    BY PickIs
  <2>3. 1..n = (1..(n - 1)) \cup {n} /\ n \in DOMAIN s /\ \A i \in 1..(n - 1) : i \in DOMAIN s /\ i # n
    BY <1>0
  <2>4. s[n] \in Entries
    BY <1>0
  <2> HIDE DEF P
  <2>0. Good(n) => n \in G
    <3> HIDE DEF Good
    <3> QED
      BY <1>0
  <2> SUFFICES Good(n)
    BY <2>0
  <2>5. CASE n \in I
    <3>1. PICK t \in Seq(Entries) : t = P[n - 1]
      BY <2>1
    <3> DEFINE u == Append(t, s[n])
    <3>2. /\ u \in Seq(Entries) /\ Len(t) \in Nat /\ DOMAIN t = 1..Len(t) /\ DOMAIN u = 1..(Len(t) + 1)
          /\ u[Len(t) + 1] = s[n] /\ \A j \in 1..Len(t) : u[j] = t[j]
      BY <2>4
    <3>3. P[n] = u
      BY <2>2, <2>5, <3>1
    <3>4. \A j \in DOMAIN t : t[j].key # s[n].key
      <4>1. ASSUME NEW j \in DOMAIN t PROVE t[j].key # s[n].key
        <5>1. PICK i \in 1..(n - 1) : t[j] = s[i]
          BY <2>1, <3>1
        <5> QED
          BY <2>3, <5>1 DEF Distinct
      <4> QED
        BY <4>1
    <3>5. Distinct(u)
      BY <2>1, <2>4, <3>1, <3>4, AppendDistinct
    <3> HIDE DEF u
    <3>6. \A j \in DOMAIN u : \E i \in 1..n : u[j] = s[i]
      <4>1. ASSUME NEW j \in DOMAIN u PROVE \E i \in 1..n : u[j] = s[i]
        <5>1. CASE j = Len(t) + 1
          BY <2>3, <3>2, <5>1
        <5>2. CASE j # Len(t) + 1
          <6>1. j \in DOMAIN t /\ u[j] = t[j]
            BY <3>2, <5>2
          <6>2. PICK i \in 1..(n - 1) : t[j] = s[i]
            BY <2>1, <3>1, <6>1
          <6> QED
            BY <2>3, <6>1, <6>2
        <5> QED
          BY <5>1, <5>2
      <4> QED
        BY <4>1
    <3>7. P[n] \in Seq(Entries) /\ Distinct(P[n])
      BY <3>2, <3>3, <3>5
    <3>8. \A j \in DOMAIN P[n] : \E i \in 1..n : P[n][j] = s[i]
      BY <3>3, <3>6
    <3> QED
      BY <3>7, <3>8
  <2>6. CASE n \notin I
    <3>1. P[n] = P[n - 1]
      BY <2>2, <2>6
    <3>2. \A j \in DOMAIN P[n] : \E i \in 1..n : P[n][j] = s[i]
      BY <2>1, <2>3, <3>1
    <3> QED
      BY <2>1, <3>1, <3>2
  <2> QED
    BY <2>5, <2>6
<1> HIDE DEF G
<1>3. \A n \in 0..Len(s) : n \in G
  BY <1>0, <1>1, <1>2, UpTo
<1> HIDE DEF P
<1>4. Good(Len(s))
  BY <1>0, <1>3 DEF G
<1>5. Selected(s, I) = P[Len(s)]
  BY PickIs DEF P
<1> QED
  BY <1>4, <1>5

\* A selection and the one of the other places share the bytes out.
LEMMA SelectedBytes ==
    ASSUME NEW s \in Seq(Entries), NEW I
    PROVE  Bytes(Selected(s, I)) + Bytes(Selected(s, DOMAIN s \ I)) = Bytes(s)
<1> DEFINE J == DOMAIN s \ I
           P == PickOf(s, I)
           Q == PickOf(s, J)
           T == SumOf(s)
           Good(n) == /\ P[n] \in Seq(Entries) /\ Q[n] \in Seq(Entries)
                      /\ Bytes(P[n]) + Bytes(Q[n]) = T[n]
           G == {n \in Nat : n <= Len(s) => Good(n)}
<1>0. Len(s) \in Nat /\ DOMAIN s = 1..Len(s)
  OBVIOUS
<1>1. 0 \in G
  <2>1. P[0] = <<>> /\ Q[0] = <<>>
    BY PickIs
  <2>2. <<>> \in Seq(Entries) /\ Bytes(<<>>) = 0 /\ T[0] = 0
    BY BytesEmpty, SumIs
  <2> HIDE DEF P, Q, T
  <2>3. Good(0)
    BY <2>1, <2>2
  <2> QED
    BY <2>3
<1>2. ASSUME NEW n \in 1..Len(s), n - 1 \in G
      PROVE  n \in G
  <2>1. P[n - 1] \in Seq(Entries) /\ Q[n - 1] \in Seq(Entries) /\ Bytes(P[n - 1]) + Bytes(Q[n - 1]) = T[n - 1]
    BY <1>0, <1>2
  <2>2. P[n] = IF n \in I THEN Append(P[n - 1], s[n]) ELSE P[n - 1]
    BY PickIs
  <2>3. Q[n] = IF n \in J THEN Append(Q[n - 1], s[n]) ELSE Q[n - 1]
    BY PickIs
  <2>4. T[n] = T[n - 1] + s[n].size
    BY SumIs
  <2>5. n \in J <=> n \notin I
    BY <1>0
  <2> HIDE DEF P, Q, T, J
  <2>6. s[n] \in Entries
    BY <1>0
  <2>7. PICK p \in Seq(Entries) : p = P[n - 1]
    BY <2>1
  <2>8. PICK q \in Seq(Entries) : q = Q[n - 1]
    BY <2>1
  <2>9. s[n].size \in Nat /\ Bytes(p) \in Nat /\ Bytes(q) \in Nat
    BY <2>6, SumsNat DEF Entries
  <2>10. CASE n \in I
    <3>1. P[n] = Append(p, s[n]) /\ Q[n] = q
      BY <2>2, <2>3, <2>5, <2>7, <2>8, <2>10
    <3>2. Append(p, s[n]) \in Seq(Entries) /\ Bytes(Append(p, s[n])) = Bytes(p) + s[n].size
      BY <2>6, BytesAppend
    <3>3. Bytes(P[n]) + Bytes(Q[n]) = T[n]
      BY <2>1, <2>4, <2>7, <2>8, <2>9, <3>1, <3>2
    <3>4. Good(n)
      BY <3>1, <3>2, <3>3
    <3> QED
      BY <3>4
  <2>11. CASE n \notin I
    <3>1. P[n] = p /\ Q[n] = Append(q, s[n])
      BY <2>2, <2>3, <2>5, <2>7, <2>8, <2>11
    <3>2. Append(q, s[n]) \in Seq(Entries) /\ Bytes(Append(q, s[n])) = Bytes(q) + s[n].size
      BY <2>6, BytesAppend
    <3>3. Bytes(P[n]) + Bytes(Q[n]) = T[n]
      BY <2>1, <2>4, <2>7, <2>8, <2>9, <3>1, <3>2
    <3>4. Good(n)
      BY <3>1, <3>2, <3>3
    <3> QED
      BY <3>4
  <2> QED
    BY <2>10, <2>11
<1> HIDE DEF G
<1>3. \A n \in 0..Len(s) : n \in G
  BY <1>0, <1>1, <1>2, UpTo
<1> HIDE DEF P, Q, T
<1>4. Good(Len(s))
  BY <1>0, <1>3 DEF G
<1>5. Selected(s, I) = P[Len(s)] /\ Selected(s, J) = Q[Len(s)] /\ Bytes(s) = T[Len(s)]
  BY PickIs, SumIs DEF P, Q, T
<1>6. Bytes(Selected(s, I)) + Bytes(Selected(s, J)) = Bytes(s)
  BY <1>4, <1>5
<1> QED
  BY <1>6

-----------------------------------------------------------------------------
(* The queue: its two set inclusions are inductive together with the type    *)
(* invariant.  An id leaves Deliverable only in RecvDelete, and that step    *)
(* removes it from `pending` and hands it to a reload; a reload either finds *)
(* the row, and the wake is no longer owed, or drops the id.                 *)

QueueInv == TypeOK /\ PendingIsDeliverable /\ NoLostWake

\* A send buffers the id and keeps what was buffered.
LEMMA AppendBuffers ==
    ASSUME NEW s \in Seq(Ids), NEW id \in Ids
    PROVE  /\ Append(s, id) \in Seq(Ids)
           /\ Len(Append(s, id)) = Len(s) + 1
           /\ {Append(s, id)[i] : i \in DOMAIN Append(s, id)}
                = {s[i] : i \in DOMAIN s} \cup {id}
<1> DEFINE t == Append(s, id)
<1>1. t \in Seq(Ids) /\ Len(t) = Len(s) + 1
  OBVIOUS
<1>2. DOMAIN t = 1..(Len(s) + 1) /\ DOMAIN s = 1..Len(s) /\ Len(s) \in Nat
  OBVIOUS
<1>3. /\ \A i \in 1..Len(s) : t[i] = s[i]
      /\ t[Len(s) + 1] = id
  OBVIOUS
<1>4. \A x : (\E i \in DOMAIN t : x = t[i]) <=> (\E i \in DOMAIN s : x = s[i]) \/ x = id
  BY <1>2, <1>3
<1> QED
  BY <1>1, <1>4

\* A receive takes the head out and loses nothing else.
LEMMA TailKeepsRest ==
    ASSUME NEW s \in Seq(Ids), s # <<>>
    PROVE  /\ Head(s) \in Ids
           /\ Tail(s) \in Seq(Ids)
           /\ Len(Tail(s)) < Len(s)
           /\ {s[i] : i \in DOMAIN s}
                \subseteq {Head(s)} \cup {Tail(s)[i] : i \in DOMAIN Tail(s)}
<1> DEFINE t == Tail(s)
<1>1. Len(s) \in Nat \ {0} /\ DOMAIN s = 1..Len(s)
  OBVIOUS
<1>2. Head(s) = s[1] /\ s[1] \in Ids
  BY <1>1
<1>3. t \in Seq(Ids) /\ Len(t) = Len(s) - 1 /\ DOMAIN t = 1..(Len(s) - 1)
  BY <1>1
<1>4. \A i \in 1..(Len(s) - 1) : t[i] = s[i + 1]
  BY <1>1, <1>3
<1>5. \A i \in DOMAIN s : i = 1 \/ (i - 1 \in DOMAIN t /\ s[i] = t[i - 1])
  BY <1>1, <1>3, <1>4
<1> QED
  BY <1>1, <1>2, <1>3, <1>5

LEMMA QueueInitInv == Init => QueueInv
  BY CapAssumption
  DEF Init, QueueInv, TypeOK, PendingIsDeliverable, NoLostWake, Deliverable, Buffered

LEMMA NotifyQueueInv ==
    ASSUME QueueInv, NEW id \in Ids, Notify(id)
    PROVE  QueueInv'
<1> USE DEF QueueInv
<1>1. CASE Enqueue(id)
  <2>0. ch \in Seq(Ids) /\ ch' = Append(ch, id)
    BY <1>1 DEF Enqueue, TypeOK
  <2>1. ch' \in Seq(Ids) /\ Len(ch') = Len(ch) + 1 /\ Buffered' = Buffered \cup {id}
    <3>1. /\ Append(ch, id) \in Seq(Ids) /\ Len(Append(ch, id)) = Len(ch) + 1
          /\ {Append(ch, id)[i] : i \in DOMAIN Append(ch, id)} = Buffered \cup {id}
      BY <2>0, AppendBuffers DEF Buffered
    <3>2. Buffered' = {ch'[i] : i \in DOMAIN ch'}
      BY DEF Buffered
    <3> QED
      BY <2>0, <3>1, <3>2
  <2>2. InHandoff' = InHandoff
    BY DEF Notify, InHandoff
  <2>3. TypeOK'
    BY <1>1, <2>1, CapAssumption DEF TypeOK, Notify, Enqueue
  <2> QED
    BY <1>1, <2>1, <2>2, <2>3
    DEF PendingIsDeliverable, NoLostWake, Deliverable, InReload, Notify, Enqueue
<1>2. CASE AlreadyQueued(id) /\ UNCHANGED <<ch, pending>>
  <2>1. Deliverable' = Deliverable /\ TypeOK'
    BY <1>2 DEF Notify, Deliverable, Buffered, InHandoff, TypeOK
  <2> QED
    BY <1>2, <2>1 DEF AlreadyQueued, PendingIsDeliverable, NoLostWake, InReload, Notify
<1> QED
  BY <1>1, <1>2 DEF Notify, Accept

LEMMA RecvPopQueueInv ==
    ASSUME QueueInv, NEW c \in Consumers, RecvPop(c)
    PROVE  QueueInv'
<1> USE DEF QueueInv
<1>1. /\ Head(ch) \in Ids /\ ch' \in Seq(Ids) /\ Len(ch') < Len(ch)
      /\ Buffered \subseteq {Head(ch)} \cup Buffered'
  <2>1. ch \in Seq(Ids) /\ ch # <<>> /\ ch' = Tail(ch)
    BY DEF RecvPop, TypeOK
  <2>2. /\ Head(ch) \in Ids /\ Tail(ch) \in Seq(Ids) /\ Len(Tail(ch)) < Len(ch)
        /\ Buffered \subseteq {Head(ch)} \cup {Tail(ch)[i] : i \in DOMAIN Tail(ch)}
    BY <2>1, TailKeepsRest DEF Buffered
  <2> QED
    BY <2>1, <2>2 DEF Buffered
<1>2. TypeOK'
  BY <1>1, CapAssumption DEF RecvPop, histories, TypeOK
<1>3. Head(ch) \in InHandoff'
  BY <1>2 DEF RecvPop, InHandoff, TypeOK
<1>4. InHandoff \subseteq InHandoff'
  BY DEF RecvPop, InHandoff, TypeOK
<1>5. InReload' = InReload
  BY DEF RecvPop, InReload, TypeOK
<1> QED
  BY <1>1, <1>2, <1>3, <1>4, <1>5
  DEF RecvPop, histories, PendingIsDeliverable, NoLostWake, Deliverable

LEMMA RecvDeleteQueueInv ==
    ASSUME QueueInv, NEW c \in Consumers, RecvDelete(c)
    PROVE  QueueInv'
<1> USE DEF QueueInv
<1>1. TypeOK'
  BY DEF RecvDelete, histories, TypeOK
<1>2. Deliverable \ {held[c]} \subseteq Deliverable'
  BY DEF RecvDelete, Deliverable, Buffered, InHandoff, TypeOK
<1>3. InReload' = InReload \cup {held[c]}
  BY DEF RecvDelete, InReload, TypeOK
<1> QED
  BY <1>1, <1>2, <1>3 DEF RecvDelete, histories, PendingIsDeliverable, NoLostWake

\* A reload takes the id off the debt or drops it, and moves nothing else.
LEMMA ReloadQueueInv ==
    ASSUME QueueInv, NEW c \in Consumers, Reload(c) \/ ReloadFails(c)
    PROVE  QueueInv'
<1> USE DEF QueueInv
<1>1. TypeOK'
  BY DEF Reload, ReloadFails, TypeOK
<1>2. Deliverable' = Deliverable
  BY DEF Reload, ReloadFails, Deliverable, Buffered, InHandoff
<1>3. InReload \ {held[c]} \subseteq InReload'
  BY DEF Reload, ReloadFails, InReload
<1> QED
  BY <1>1, <1>2, <1>3 DEF Reload, ReloadFails, PendingIsDeliverable, NoLostWake

LEMMA AckQueueInv ==
    ASSUME QueueInv, NEW c \in Consumers, Ack(c)
    PROVE  QueueInv'
<1> USE DEF QueueInv
<1>1. TypeOK'
  BY DEF Ack, histories, TypeOK
<1>2. Deliverable' = Deliverable
  BY DEF Ack, Deliverable, Buffered, InHandoff, TypeOK
<1>3. InReload' = InReload
  BY DEF Ack, InReload, TypeOK
<1> QED
  BY <1>1, <1>2, <1>3 DEF Ack, histories, PendingIsDeliverable, NoLostWake

\* Cancelling, stopping and replacing a slot moves no id.
LEMMA LifecycleQueueInv ==
    ASSUME QueueInv, NEW c \in Consumers, RecvDone(c) \/ Spawn(c) \/ Cancel(c)
    PROVE  QueueInv'
<1> USE DEF QueueInv
<1>1. TypeOK'
  <2>1. CASE RecvDone(c)
    BY <2>1 DEF RecvDone, histories, TypeOK
  <2>2. CASE Spawn(c)
    BY <2>2 DEF Spawn, histories, TypeOK
  <2>3. CASE Cancel(c)
    BY <2>3 DEF Cancel, histories, TypeOK
  <2> QED
    BY <2>1, <2>2, <2>3
<1>2. Deliverable' = Deliverable /\ InReload' = InReload
  BY DEF RecvDone, Spawn, Cancel, Deliverable, Buffered, InHandoff, InReload, TypeOK
<1> QED
  BY <1>1, <1>2 DEF RecvDone, Spawn, Cancel, histories, PendingIsDeliverable, NoLostWake

LEMMA QueueStepInv == QueueInv /\ [Next]_vars => QueueInv'
<1> SUFFICES ASSUME QueueInv, [Next]_vars PROVE QueueInv'
  OBVIOUS
<1>1. CASE UNCHANGED vars
  BY <1>1 DEF vars, QueueInv, TypeOK, PendingIsDeliverable, NoLostWake, Deliverable,
              Buffered, InHandoff, InReload
<1>2. ASSUME NEW id \in Ids, Notify(id) PROVE QueueInv'
  BY <1>2, NotifyQueueInv
<1>3. ASSUME NEW c \in Consumers, ConsumerStep(c) \/ Cancel(c) \/ Spawn(c)
      PROVE  QueueInv'
  BY <1>3, RecvPopQueueInv, RecvDeleteQueueInv, ReloadQueueInv, AckQueueInv, LifecycleQueueInv
  DEF ConsumerStep
<1> QED
  BY <1>1, <1>2, <1>3 DEF Next

-----------------------------------------------------------------------------
(* The channel never holds more than its capacity, and a slot that is busy   *)
(* with a task always names one: tryEnqueue, Receive and AckAfterRecv keep   *)
(* the queue's state well formed.                                            *)
THEOREM QueueTypeCorrect == Spec => []TypeOK
<1>1. QueueInv => TypeOK
  BY DEF QueueInv
<1> QED
  BY <1>1, QueueInitInv, QueueStepInv, PTL DEF Spec

(* Whenever tryEnqueue answers ErrAlreadyQueued, the id is buffered or in a  *)
(* consumer's hands before its reload.                                       *)
THEOREM PendingSound == Spec => []PendingIsDeliverable
<1>1. QueueInv => PendingIsDeliverable
  BY DEF QueueInv
<1> QED
  BY <1>1, QueueInitInv, QueueStepInv, PTL DEF Spec

(* No interleaving of NotifyReadyTask, Receive's two halves, cancelled       *)
(* contexts and the late AckAfterRecv loses an accepted wake, except through *)
(* a reload that fails (reloadTask).                                         *)
THEOREM WakesAreNeverLost == Spec => []NoLostWake
<1>1. QueueInv => NoLostWake
  BY DEF QueueInv
<1> QED
  BY <1>1, QueueInitInv, QueueStepInv, PTL DEF Spec

-----------------------------------------------------------------------------
(* What enforceLimitsLocked leaves.                                          *)

LEMMA WithoutSum ==
    ASSUME NEW a \in Nat, NEW b \in Nat
    PROVE  Without(a + b, a) = b
  BY DEF Without

LEMMA SurplusIs ==
    ASSUME NEW s \in Seq(Entries)
    PROVE  LET n == Surplus(s, Bytes(s)) IN
           /\ n \in 0..Len(s)
           /\ Without(Bytes(s), Bytes(SubSeq(s, 1, n))) = Bytes(SubSeq(s, n + 1, Len(s)))
           /\ Within(Len(SubSeq(s, n + 1, Len(s))), MaxEntries)
           /\ Within(Bytes(SubSeq(s, n + 1, Len(s))), MaxBytes)
<1> DEFINE front(n) == SubSeq(s, 1, n)
           rest(n) == SubSeq(s, n + 1, Len(s))
           T == {n \in 0..Len(s) :
                  \/ n = Len(s)
                  \/ /\ Within(Len(s) - n, MaxEntries)
                     /\ Within(Without(Bytes(s), Bytes(front(n))), MaxBytes)}
<1>0. Len(s) \in Nat /\ Bytes(s) \in Nat
  BY SumsNat
<1>1. T \in SUBSET Nat /\ Len(s) \in T
  BY <1>0
<1>2. Surplus(s, Bytes(s)) = Min(T)
  BY DEF Surplus
<1> HIDE DEF T
<1>3. \E x \in T : \A y \in T : x <= y
  BY <1>1, LeastNatural
<1>4. Min(T) \in T
  BY <1>3 DEF Min
<1>5. PICK n \in 0..Len(s) : /\ n = Surplus(s, Bytes(s))
                             /\ \/ n = Len(s)
                                \/ /\ Within(Len(s) - n, MaxEntries)
                                   /\ Within(Without(Bytes(s), Bytes(front(n))), MaxBytes)
  BY <1>2, <1>4 DEF T
<1>6. /\ front(n) \in Seq(Entries) /\ rest(n) \in Seq(Entries)
      /\ Bytes(front(n)) + Bytes(rest(n)) = Bytes(s)
  BY BytesSplit
<1>7. Bytes(front(n)) \in Nat /\ Bytes(rest(n)) \in Nat
  BY <1>6, SumsNat
<1>8. Without(Bytes(s), Bytes(front(n))) = Bytes(rest(n))
  BY <1>6, <1>7, WithoutSum
<1>9. Len(rest(n)) = Len(s) - n
  BY <1>0
<1>10. CASE n = Len(s)
  <2>1. Len(rest(n)) = 0
    BY <1>0, <1>9, <1>10
  <2>2. rest(n) = <<>>
    BY <1>6, <2>1
  <2>3. Within(Len(rest(n)), MaxEntries) /\ Within(Bytes(rest(n)), MaxBytes)
    <3>1. Bytes(rest(n)) = 0
      BY <2>2, BytesEmpty
    <3>2. \A limit \in Nat : Within(0, limit)
      BY DEF Within
    <3>3. Within(0, MaxEntries) /\ Within(0, MaxBytes)
      BY <3>2, IdempotencyAssumption
    <3> HIDE DEF rest
    <3> QED
      BY <2>1, <3>1, <3>3
  <2> QED
    BY <1>5, <1>8, <2>3
<1>11. CASE n # Len(s)
  <2>1. Within(Len(rest(n)), MaxEntries) /\ Within(Bytes(rest(n)), MaxBytes)
    BY <1>5, <1>8, <1>9, <1>11
  <2> QED
    BY <1>5, <1>8, <2>1
<1> QED
  BY <1>10, <1>11

\* A queue of distinct keys has as many of them as entries.
LEMMA DistinctCounts ==
    ASSUME NEW s \in Seq(Entries), Distinct(s)
    PROVE  Cardinality(KeysOf(s)) = Len(s)
<1>1. Len(s) \in Nat /\ DOMAIN s = 1..Len(s)
  OBVIOUS
<1> DEFINE f == [i \in 1..Len(s) |-> s[i].key]
<1>2. f \in Bijection(1..Len(s), KeysOf(s))
  <2>1. f \in [1..Len(s) -> KeysOf(s)]
    BY <1>1 DEF KeysOf
  <2>2. \A i, j \in 1..Len(s) : f[i] = f[j] => i = j
    BY <1>1 DEF Distinct
  <2>3. \A k \in KeysOf(s) : \E i \in 1..Len(s) : f[i] = k
    BY <1>1 DEF KeysOf
  <2> QED
    BY <2>1, <2>2, <2>3 DEF Bijection, Injection, IsInjective, Surjection
<1>3. ExistsBijection(1..Len(s), KeysOf(s))
  BY <1>2 DEF ExistsBijection
<1> QED
  BY <1>1, <1>3, FS_CountingElements


LiveIn(s, k) == \E i \in DOMAIN s : s[i].key = k /\ ~s[i].expired

LEMMA SelectedRest ==
    ASSUME NEW s \in Seq(Entries), NEW E
    PROVE  LET o == Selected(s, DOMAIN s \ E) IN
           /\ o \in Seq(Entries)
           /\ \A j \in DOMAIN o : \E i \in DOMAIN s \ E : o[j] = s[i]
           /\ \A i \in DOMAIN s \ E : \E j \in DOMAIN o : o[j] = s[i]
<1> DEFINE J == DOMAIN s \ E
           o == Selected(s, J)
<1> HIDE DEF J
<1>1. /\ o \in Seq(Entries)
      /\ \A j \in DOMAIN o : \E i \in DOMAIN s \cap J : o[j] = s[i]
      /\ \A i \in DOMAIN s \cap J : \E j \in DOMAIN o : o[j] = s[i]
  BY SelectedHas
<1>2. DOMAIN s \cap J = J
  BY DEF J
<1> HIDE DEF o
<1>3. /\ o \in Seq(Entries)
      /\ \A j \in DOMAIN o : \E i \in J : o[j] = s[i]
      /\ \A i \in J : \E j \in DOMAIN o : o[j] = s[i]
  BY <1>1, <1>2
<1> QED
  BY <1>3 DEF o, J

\* The cache with a new response in the place of an older one of its key.
LEMMA SetKeeps ==
    ASSUME NEW s \in Seq(Entries), Distinct(s), NEW x \in Entries, NEW E,
           \A i \in DOMAIN s : i \in E <=> s[i].key = x.key
    PROVE  LET t == Append(Selected(s, DOMAIN s \ E), x) IN
           /\ t \in Seq(Entries) /\ Distinct(t)
           /\ Without(Bytes(s), Bytes(Selected(s, E))) + x.size = Bytes(t)
           /\ \A k : LiveIn(s, k) /\ k # x.key => LiveIn(t, k)
           /\ ~x.expired => LiveIn(t, x.key)
<1> DEFINE o == Selected(s, DOMAIN s \ E)
           r == Selected(s, E)
           t == Append(o, x)
<1>1. /\ o \in Seq(Entries)
      /\ \A j \in DOMAIN o : \E i \in DOMAIN s \ E : o[j] = s[i]
      /\ \A i \in DOMAIN s \ E : \E j \in DOMAIN o : o[j] = s[i]
  BY SelectedRest
<1>2. r \in Seq(Entries)
  BY SelectedHas
<1>3. Distinct(o)
  BY SelectedDistinct
<1>4. Bytes(r) + Bytes(o) = Bytes(s)
  BY SelectedBytes
<1>5. Bytes(r) \in Nat /\ Bytes(o) \in Nat
  BY <1>1, <1>2, SumsNat
<1>6. Bytes(t) = Bytes(o) + x.size
  BY <1>1, BytesAppend
<1> HIDE DEF o, r
<1>7. Distinct(t)
  BY <1>1, <1>3, AppendDistinct
<1>8. /\ t \in Seq(Entries) /\ DOMAIN t = 1..(Len(o) + 1) /\ DOMAIN o = 1..Len(o) /\ Len(o) \in Nat
      /\ t[Len(o) + 1] = x /\ \A j \in DOMAIN o : t[j] = o[j]
  BY <1>1
<1> HIDE DEF t
<1>9. Without(Bytes(s), Bytes(r)) = Bytes(o)
  BY <1>4, <1>5, WithoutSum
<1>10. ASSUME NEW k, LiveIn(s, k), k # x.key
       PROVE  LiveIn(t, k)
  <2>1. PICK i \in DOMAIN s : s[i].key = k /\ ~s[i].expired
    BY <1>10 DEF LiveIn
  <2>2. PICK j \in DOMAIN o : o[j] = s[i]
    BY <1>1, <1>10, <2>1
  <2>3. j \in DOMAIN t /\ t[j] = s[i]
    BY <1>8, <2>2
  <2> QED
    BY <2>1, <2>3 DEF LiveIn
<1>11. ~x.expired => LiveIn(t, x.key)
  <2>1. Len(o) + 1 \in DOMAIN t
    BY <1>8
  <2> QED
    BY <1>8, <2>1 DEF LiveIn
<1> QED
  BY <1>6, <1>7, <1>8, <1>9, <1>10, <1>11 DEF o, r, t

\* Pruning drops what has expired.
LEMMA PruneKeeps ==
    ASSUME NEW s \in Seq(Entries), Distinct(s)
    PROVE  LET t == Selected(s, DOMAIN s \ Expired(s)) IN
           /\ t \in Seq(Entries) /\ Distinct(t)
           /\ Without(Bytes(s), Bytes(Selected(s, Expired(s)))) = Bytes(t)
           /\ \A k : LiveIn(s, k) => LiveIn(t, k)
<1> DEFINE E == Expired(s)
           t == Selected(s, DOMAIN s \ E)
           r == Selected(s, E)
<1>1. /\ t \in Seq(Entries)
      /\ \A i \in DOMAIN s \ E : \E j \in DOMAIN t : t[j] = s[i]
  BY SelectedRest
<1>2. r \in Seq(Entries)
  BY SelectedHas
<1>3. Distinct(t)
  BY SelectedDistinct
<1>4. Bytes(r) + Bytes(t) = Bytes(s)
  BY SelectedBytes
<1>5. Bytes(r) \in Nat /\ Bytes(t) \in Nat
  BY <1>1, <1>2, SumsNat
<1> HIDE DEF t, r
<1>6. Without(Bytes(s), Bytes(r)) = Bytes(t)
  BY <1>4, <1>5, WithoutSum
<1>7. ASSUME NEW k, LiveIn(s, k)
      PROVE  LiveIn(t, k)
  <2>1. PICK i \in DOMAIN s : s[i].key = k /\ ~s[i].expired
    BY <1>7 DEF LiveIn
  <2>2. i \in DOMAIN s \ E
    BY <2>1 DEF Expired
  <2>3. PICK j \in DOMAIN t : t[j] = s[i]
    BY <1>1, <2>2
  <2> QED
    BY <2>1, <2>3 DEF LiveIn
<1> QED
  BY <1>1, <1>3, <1>6, <1>7 DEF t, r

\* What the eviction keeps, and whom it forgets.
LEMMA EvictionKeeps ==
    ASSUME NEW s \in Seq(Entries), Distinct(s), NEW n \in 0..Len(s)
    PROVE  LET front == SubSeq(s, 1, n)
               rest == SubSeq(s, n + 1, Len(s)) IN
           /\ rest \in Seq(Entries) /\ Distinct(rest)
           /\ KeysOf(front) \subseteq Keys
           /\ \A k : LiveIn(s, k) => k \in KeysOf(front) \/ LiveIn(rest, k)
<1> DEFINE front == SubSeq(s, 1, n)
           rest == SubSeq(s, n + 1, Len(s))
<1>0. Len(s) \in Nat /\ n \in Nat /\ DOMAIN s = 1..Len(s)
  OBVIOUS
<1>1. front \in Seq(Entries) /\ DOMAIN front = 1..n /\ \A i \in 1..n : front[i] = s[i]
  OBVIOUS
<1>2. rest \in Seq(Entries) /\ DOMAIN rest = 1..(Len(s) - n) /\ \A i \in 1..(Len(s) - n) : rest[i] = s[n + i]
  OBVIOUS
<1> HIDE DEF front, rest
<1>3. Distinct(rest)
  <2>1. ASSUME NEW i \in DOMAIN rest, NEW j \in DOMAIN rest, rest[i].key = rest[j].key
        PROVE  i = j
    <3>1. n + i \in DOMAIN s /\ n + j \in DOMAIN s
      BY <1>0, <1>2
    <3>2. s[n + i].key = s[n + j].key
      BY <1>2, <2>1
    <3>3. n + i = n + j
      BY <3>1, <3>2 DEF Distinct
    <3> QED
      BY <1>0, <1>2, <3>3
  <2> QED
    BY <2>1 DEF Distinct
<1>4. KeysOf(front) \subseteq Keys
  <2>1. ASSUME NEW i \in DOMAIN front PROVE front[i].key \in Keys
    <3>1. front[i] \in Entries
      BY <1>1
    <3> QED
      BY <3>1 DEF Entries
  <2> QED
    BY <2>1 DEF KeysOf
<1>5. ASSUME NEW k, LiveIn(s, k)
      PROVE  k \in KeysOf(front) \/ LiveIn(rest, k)
  <2>1. PICK i \in DOMAIN s : s[i].key = k /\ ~s[i].expired
    BY <1>5 DEF LiveIn
  <2>2. CASE i <= n
    <3>1. i \in DOMAIN front /\ front[i] = s[i]
      BY <1>0, <1>1, <2>2
    <3> QED
      BY <2>1, <3>1 DEF KeysOf
  <2>3. CASE ~(i <= n)
    <3>1. i - n \in DOMAIN rest /\ n + (i - n) = i
      BY <1>0, <1>2, <2>3
    <3>2. rest[i - n] = s[i]
      BY <1>2, <3>1
    <3> QED
      BY <2>1, <3>1, <3>2 DEF LiveIn
  <2> QED
    BY <2>2, <2>3
<1> QED
  BY <1>2, <1>3, <1>4, <1>5 DEF front, rest

-----------------------------------------------------------------------------
(* The edge: the invariant of the cache and of the flights.                  *)

ReqStates == [pc : {"new", "missed", "wait", "run", "ran", "done"}, key : Keys \cup {NoKey}]

IdempTypes ==
  /\ cache \in Seq(Entries) /\ totalBytes \in Nat
  /\ flight \in [Keys -> Requests \cup {NoKey}]
  /\ req \in [Requests -> ReqStates]
  /\ \A c \in Requests : req[c].pc # "new" => req[c].key \in Keys
  /\ ran \subseteq Keys /\ forgotten \subseteq Keys /\ gap \subseteq Requests

CacheInv ==
  /\ Distinct(cache) /\ totalBytes = Bytes(cache)
  /\ Within(Len(cache), MaxEntries) /\ Within(totalBytes, MaxBytes)

\* Who runs the handler leads the flight of its key.
FlightInv == \A c \in Requests : req[c].pc \in {"run", "ran"} => flight[req[c].key] = c

AnsweringIn(rq, k) == \E d \in Requests : rq[d].pc = "ran" /\ rq[d].key = k

\* The response of a handler that took effect is kept, forgotten or on its way to the
\* cache; a request that has missed it will be in the gap, or is about to join the flight.
RanInv ==
  /\ \A k \in ran : k \in forgotten \/ LiveIn(cache, k) \/ AnsweringIn(req, k)
  /\ \A c \in Requests : req[c].key \in ran =>
       /\ req[c].pc = "missed" => c \in gap \/ req[c].key \in forgotten \/ AnsweringIn(req, req[c].key)
       /\ req[c].pc = "run" => c \in gap \/ req[c].key \in forgotten

IdempInv == IdempTypes /\ CacheInv /\ FlightInv /\ RanInv

LEMMA IdempInitInv == IdempInit => IdempInv
<1> SUFFICES ASSUME IdempInit PROVE IdempInv
  OBVIOUS
<1> USE DEF IdempInit
<1>1. IdempTypes
  BY DEF IdempTypes, ReqStates
<1>2. CacheInv
  <2>1. cache = <<>> /\ Len(cache) = 0 /\ DOMAIN cache = {} /\ Bytes(cache) = 0 /\ totalBytes = 0
    BY BytesEmpty
  <2>2. \A limit \in Nat : Within(0, limit)
    BY DEF Within
  <2>3. Within(0, MaxEntries) /\ Within(0, MaxBytes)
    BY <2>2, IdempotencyAssumption
  <2> QED
    BY <2>1, <2>3 DEF CacheInv, Distinct
<1>3. FlightInv /\ RanInv
  BY DEF FlightInv, RanInv
<1> QED
  BY <1>1, <1>2, <1>3 DEF IdempInv

\* What one request is, without the record fields' functions.
LEMMA RequestIs ==
    ASSUME IdempTypes, NEW c \in Requests
    PROVE  /\ req[c] \in ReqStates
           /\ req[c].pc # "new" => req[c].key \in Keys
  BY DEF IdempTypes

LEMMA WithinLess ==
    ASSUME NEW a \in Nat, NEW b \in Nat, a <= b, NEW limit \in Nat, Within(b, limit)
    PROVE  Within(a, limit)
  BY DEF Within

LEMMA LookupIdempInv ==
    ASSUME IdempInv, NEW c \in Requests, NEW k \in Keys, Lookup(c, k)
    PROVE  IdempInv'
<1> USE DEF IdempInv
<1>0. IdempTypes /\ req \in [Requests -> ReqStates]
  BY DEF IdempTypes
<1>1. /\ req[c].pc = "new"
      /\ UNCHANGED <<flight, ran, forgotten, gap>>
  BY DEF Lookup
<1>2. \/ /\ req' = [req EXCEPT ![c] = [pc |-> "done", key |-> k]]
         /\ UNCHANGED <<cache, totalBytes>>
      \/ /\ req' = [req EXCEPT ![c] = [pc |-> "missed", key |-> k]]
         /\ ~LiveIn(cache, k)
         /\ cache' = Selected(cache, DOMAIN cache \ Entry(k))
         /\ totalBytes' = Without(totalBytes, Bytes(Selected(cache, Entry(k))))
  BY DEF Lookup, LiveIn, Entry
<1>3. /\ req'[c].pc \in {"done", "missed"} /\ req'[c].key = k
      /\ \A d \in Requests : d # c => req'[d] = req[d]
      /\ req' \in [Requests -> ReqStates]
  BY <1>0, <1>2 DEF ReqStates
<1>4. /\ cache' \in Seq(Entries) /\ totalBytes' \in Nat /\ CacheInv'
      /\ \A k2 : k2 # k /\ LiveIn(cache, k2) => LiveIn(cache', k2)
      /\ req'[c].pc = "done" => cache' = cache
      /\ req'[c].pc = "missed" => ~LiveIn(cache, k)
  <2>1. CASE req' = [req EXCEPT ![c] = [pc |-> "done", key |-> k]] /\ UNCHANGED <<cache, totalBytes>>
    BY <1>0, <2>1 DEF IdempTypes, CacheInv, Distinct
  <2>2. CASE /\ req' = [req EXCEPT ![c] = [pc |-> "missed", key |-> k]]
             /\ ~LiveIn(cache, k)
             /\ cache' = Selected(cache, DOMAIN cache \ Entry(k))
             /\ totalBytes' = Without(totalBytes, Bytes(Selected(cache, Entry(k))))
    <3> DEFINE o == Selected(cache, DOMAIN cache \ Entry(k))
               r == Selected(cache, Entry(k))
    <3>0. cache \in Seq(Entries) /\ Distinct(cache) /\ totalBytes = Bytes(cache)
      BY DEF IdempTypes, CacheInv
    <3>1. r \in Seq(Entries)
      BY <3>0, SelectedHas
    <3>2. /\ o \in Seq(Entries)
          /\ \A i \in DOMAIN cache \ Entry(k) : \E j \in DOMAIN o : o[j] = cache[i]
      BY <3>0, SelectedRest
    <3>3. Distinct(o)
      BY <3>0, SelectedDistinct
    <3>4. Bytes(r) + Bytes(o) = Bytes(cache)
      BY <3>0, SelectedBytes
    <3>5. Len(o) \in 0..Len(cache) /\ Len(cache) \in Nat
      BY <3>0, SelectedLen
    <3> HIDE DEF o, r
    <3>6. Bytes(r) \in Nat /\ Bytes(o) \in Nat /\ Bytes(cache) \in Nat
      BY <3>0, <3>1, <3>2, SumsNat
    <3>7. totalBytes' = Bytes(o) /\ cache' = o
      BY <2>2, <3>0, <3>4, <3>6, WithoutSum DEF o, r
    <3>8. Within(Len(o), MaxEntries) /\ Within(Bytes(o), MaxBytes)
      BY <3>0, <3>4, <3>5, <3>6, WithinLess, IdempotencyAssumption DEF CacheInv
    <3>9. CacheInv'
      BY <3>3, <3>7, <3>8 DEF CacheInv
    <3>10. ASSUME NEW k2, k2 # k, LiveIn(cache, k2)
           PROVE  LiveIn(o, k2)
      <4>1. PICK i \in DOMAIN cache : cache[i].key = k2 /\ ~cache[i].expired
        BY <3>10 DEF LiveIn
      <4>2. i \in DOMAIN cache \ Entry(k)
        BY <3>10, <4>1 DEF Entry
      <4>3. PICK j \in DOMAIN o : o[j] = cache[i]
        BY <3>2, <4>2
      <4> QED
        BY <4>1, <4>3 DEF LiveIn
    <3>11. req'[c].pc = "missed"
      BY <1>0, <2>2
    <3> QED
      BY <2>2, <3>2, <3>6, <3>7, <3>9, <3>10, <3>11
  <2> QED
    BY <1>2, <2>1, <2>2
<1>5. IdempTypes'
  BY <1>1, <1>3, <1>4 DEF IdempTypes
<1>6. FlightInv'
  BY <1>1, <1>3 DEF FlightInv
<1>7. \A k2 : AnsweringIn(req, k2) => AnsweringIn(req', k2)
  BY <1>1, <1>3 DEF AnsweringIn
<1>8. ASSUME NEW k2 \in ran', k2 \notin forgotten'
      PROVE  LiveIn(cache', k2) \/ AnsweringIn(req', k2)
  <2>1. LiveIn(cache, k2) \/ AnsweringIn(req, k2)
    BY <1>1, <1>8 DEF RanInv
  <2> QED
    BY <1>3, <1>4, <1>7, <2>1
<1>9. ASSUME NEW d \in Requests, req'[d].key \in ran'
      PROVE  /\ req'[d].pc = "missed" => d \in gap' \/ req'[d].key \in forgotten' \/ AnsweringIn(req', req'[d].key)
             /\ req'[d].pc = "run" => d \in gap' \/ req'[d].key \in forgotten'
  <2>1. CASE d = c
    <3>1. req'[c].pc = "missed" => k \in forgotten \/ AnsweringIn(req, k)
      BY <1>1, <1>3, <1>4, <1>9, <2>1 DEF RanInv
    <3> QED
      BY <1>1, <1>3, <1>7, <2>1, <3>1
  <2>2. CASE d # c
    BY <1>1, <1>3, <1>7, <1>9, <2>2 DEF RanInv
  <2> QED
    BY <2>1, <2>2
<1> QED
  BY <1>4, <1>5, <1>6, <1>8, <1>9 DEF RanInv


LEMMA DoIdempInv ==
    ASSUME IdempInv, NEW c \in Requests, Do(c)
    PROVE  IdempInv'
<1> USE DEF IdempInv
<1> DEFINE k == req[c].key
<1>0. IdempTypes /\ req \in [Requests -> ReqStates] /\ k \in Keys /\ req[c].pc = "missed"
  BY DEF IdempTypes, ReqStates, Do
<1>1. UNCHANGED <<cache, totalBytes, ran, forgotten, gap>>
  BY DEF Do
<1>2. \/ flight[k] = NoKey /\ flight' = [flight EXCEPT ![k] = c] /\ req' = [req EXCEPT ![c].pc = "run"]
      \/ req' = [req EXCEPT ![c].pc = "wait"] /\ UNCHANGED flight
  BY DEF Do
<1> HIDE DEF k
<1>3. /\ req'[c].pc \in {"run", "wait"} /\ req'[c].key = k
      /\ \A d \in Requests : d # c => req'[d] = req[d]
      /\ req' \in [Requests -> ReqStates]
  <2>1. req[c] \in ReqStates /\ req[c].key = k
    BY <1>0 DEF k
  <2>2. [req[c] EXCEPT !.pc = "run"] \in ReqStates /\ [req[c] EXCEPT !.pc = "wait"] \in ReqStates
    BY <2>1 DEF ReqStates
  <2>4. CASE req' = [req EXCEPT ![c].pc = "run"]
    <3>1. req' = [req EXCEPT ![c] = [req[c] EXCEPT !.pc = "run"]]
      BY <2>4
    <3>2. req'[c] = [req[c] EXCEPT !.pc = "run"]
      BY <1>0, <3>1
    <3> QED
      BY <1>0, <2>1, <2>2, <3>1, <3>2 DEF ReqStates
  <2>5. CASE req' = [req EXCEPT ![c].pc = "wait"]
    <3>1. req' = [req EXCEPT ![c] = [req[c] EXCEPT !.pc = "wait"]]
      BY <2>5
    <3>2. req'[c] = [req[c] EXCEPT !.pc = "wait"]
      BY <1>0, <3>1
    <3> QED
      BY <1>0, <2>1, <2>2, <3>1, <3>2 DEF ReqStates
  <2> QED
    BY <1>2, <2>4, <2>5
<1>4. req'[c].pc = "run" => flight[k] = NoKey /\ flight' = [flight EXCEPT ![k] = c]
  <2>1. CASE req' = [req EXCEPT ![c].pc = "wait"]
    <3>1. req'[c].pc = "wait"
      BY <1>0, <2>1 DEF ReqStates
    <3> QED
      BY <3>1
  <2> QED
    BY <1>2, <2>1
<1>5. (flight' = [flight EXCEPT ![k] = c] /\ flight[k] = NoKey) \/ flight' = flight
  BY <1>2
<1>6. IdempTypes'
  <2>1. flight' \in [Keys -> Requests \cup {NoKey}]
    BY <1>0, <1>5 DEF IdempTypes
  <2> QED
    BY <1>0, <1>1, <1>3, <2>1 DEF IdempTypes, ReqStates
<1>7. CacheInv'
  BY <1>1 DEF CacheInv, Distinct
<1>8. FlightInv'
  <2>1. ASSUME NEW d \in Requests, req'[d].pc \in {"run", "ran"}
        PROVE  flight'[req'[d].key] = d
    <3>1. CASE d = c
      <4>1. req'[c].pc = "run"
        BY <1>3, <2>1, <3>1
      <4> QED
        BY <1>0, <1>3, <1>4, <3>1, <4>1 DEF IdempTypes
    <3>2. CASE d # c
      <4>1. flight[req[d].key] = d /\ req'[d] = req[d] /\ d # NoKey
        BY <1>3, <2>1, <3>2, IdempotencyAssumption DEF FlightInv
      <4>2. req[d].key \in Keys /\ flight \in [Keys -> Requests \cup {NoKey}]
        BY <1>0, <2>1, <4>1 DEF IdempTypes
      <4>3. CASE req[d].key = k
        BY <1>5, <4>1, <4>2, <4>3
      <4>4. CASE req[d].key # k
        BY <1>5, <4>1, <4>2, <4>4
      <4> QED
        BY <4>3, <4>4
    <3> QED
      BY <3>1, <3>2
  <2> QED
    BY <2>1 DEF FlightInv
<1>9. \A k2 : AnsweringIn(req, k2) => AnsweringIn(req', k2)
  BY <1>0, <1>3 DEF AnsweringIn
<1>10. \A k2 \in ran' : k2 \in forgotten' \/ LiveIn(cache', k2) \/ AnsweringIn(req', k2)
  BY <1>1, <1>9 DEF RanInv
<1>11. ASSUME NEW d \in Requests, req'[d].key \in ran'
       PROVE  /\ req'[d].pc = "missed" => d \in gap' \/ req'[d].key \in forgotten' \/ AnsweringIn(req', req'[d].key)
              /\ req'[d].pc = "run" => d \in gap' \/ req'[d].key \in forgotten'
  <2>1. CASE d = c
    <3>1. ASSUME req'[c].pc = "run", AnsweringIn(req, k) PROVE FALSE
      <4>1. PICK e \in Requests : req[e].pc = "ran" /\ req[e].key = k
        BY <3>1 DEF AnsweringIn
      <4>2. flight[k] = e
        BY <4>1 DEF FlightInv
      <4> QED
        BY <1>4, <3>1, <4>2, IdempotencyAssumption
    <3>2. c \in gap \/ k \in forgotten \/ AnsweringIn(req, k)
      BY <1>0, <1>1, <1>3, <1>11, <2>1 DEF RanInv, k
    <3> QED
      BY <1>1, <1>3, <2>1, <3>1, <3>2
  <2>2. CASE d # c
    BY <1>1, <1>3, <1>9, <1>11, <2>2 DEF RanInv
  <2> QED
    BY <2>1, <2>2
<1> QED
  BY <1>6, <1>7, <1>8, <1>10, <1>11 DEF RanInv

LEMMA EffectIdempInv ==
    ASSUME IdempInv, NEW c \in Requests, Effect(c)
    PROVE  IdempInv'
<1> USE DEF IdempInv
<1> DEFINE k == req[c].key
<1>0. IdempTypes /\ req \in [Requests -> ReqStates] /\ k \in Keys /\ req[c].pc = "run"
  BY DEF IdempTypes, ReqStates, Effect
<1>1. UNCHANGED <<cache, totalBytes, flight, forgotten, gap>> /\ ran' = ran \cup {k}
  BY DEF Effect
<1> HIDE DEF k
<1>3. /\ req'[c].pc = "ran" /\ req'[c].key = k
      /\ \A d \in Requests : d # c => req'[d] = req[d]
      /\ req' \in [Requests -> ReqStates]
  <2>1. req[c] \in ReqStates /\ req[c].key = k
    BY <1>0 DEF k
  <2>2. [req[c] EXCEPT !.pc = "ran"] \in ReqStates
    BY <2>1 DEF ReqStates
  <2>3. req' = [req EXCEPT ![c] = [req[c] EXCEPT !.pc = "ran"]]
    BY DEF Effect
  <2>4. req'[c] = [req[c] EXCEPT !.pc = "ran"]
    BY <1>0, <2>3
  <2> QED
    BY <1>0, <2>1, <2>2, <2>3, <2>4 DEF ReqStates
<1>4. IdempTypes'
  BY <1>0, <1>1, <1>3 DEF IdempTypes, ReqStates
<1>5. CacheInv'
  BY <1>1 DEF CacheInv, Distinct
<1>6. FlightInv'
  BY <1>0, <1>1, <1>3 DEF FlightInv, k
<1>7. \A k2 : AnsweringIn(req, k2) => AnsweringIn(req', k2)
  BY <1>0, <1>3 DEF AnsweringIn
<1>8. AnsweringIn(req', k)
  BY <1>3 DEF AnsweringIn
<1>9. \A k2 \in ran' : k2 \in forgotten' \/ LiveIn(cache', k2) \/ AnsweringIn(req', k2)
  BY <1>1, <1>7, <1>8 DEF RanInv
<1>10. ASSUME NEW d \in Requests, req'[d].key \in ran'
       PROVE  /\ req'[d].pc = "missed" => d \in gap' \/ req'[d].key \in forgotten' \/ AnsweringIn(req', req'[d].key)
              /\ req'[d].pc = "run" => d \in gap' \/ req'[d].key \in forgotten'
  <2>1. CASE d = c
    BY <1>3, <2>1
  <2>2. CASE d # c /\ req[d].key = k
    <3>1. req'[d].pc # "run"
      BY <1>0, <1>3, <2>2 DEF FlightInv, k
    <3> QED
      BY <1>3, <1>8, <2>2, <3>1
  <2>3. CASE d # c /\ req[d].key # k
    <3>1. req'[d] = req[d] /\ req[d].key \in ran
      BY <1>1, <1>3, <1>10, <2>3
    <3> QED
      BY <1>1, <1>7, <3>1 DEF RanInv
  <2> QED
    BY <2>1, <2>2, <2>3
<1> QED
  BY <1>4, <1>5, <1>6, <1>9, <1>10 DEF RanInv

\* The end of a flight: its leader and who waited are done, who has missed the cache is
\* in the gap, and nobody else runs the handler of that key.
LEMMA EndFlightIs ==
    ASSUME IdempTypes, FlightInv, NEW c \in Requests, req[c].pc \in {"run", "ran"}, EndFlight(c)
    PROVE  /\ req[c].key \in Keys
           /\ flight' \in [Keys -> Requests \cup {NoKey}] /\ gap' \subseteq Requests /\ FlightInv'
           /\ req' \in [Requests -> ReqStates] /\ \A d \in Requests : req'[d].pc # "new" => req'[d].key \in Keys
           /\ gap \subseteq gap'
           /\ \A d \in Requests :
                /\ req'[d].key = req[d].key
                /\ req'[d] = req[d] \/ req'[d].pc = "done"
                /\ req[d].key = req[c].key => /\ req'[d].pc \notin {"run", "ran"}
                                              /\ req'[d].pc = "missed" => d \in gap'
                /\ req[d].key # req[c].key => req'[d] = req[d]
<1> DEFINE k == req[c].key
<1>0. req \in [Requests -> ReqStates] /\ k \in Keys
  BY DEF IdempTypes, ReqStates
<1>1. /\ flight' = [flight EXCEPT ![k] = NoKey]
      /\ req' = [r \in Requests |->
                   IF r = c \/ (req[r].key = k /\ req[r].pc = "wait") THEN [pc |-> "done", key |-> k]
                   ELSE req[r]]
      /\ gap' = gap \cup {r \in Requests : req[r].key = k /\ req[r].pc = "missed"}
  BY DEF EndFlight
<1>a. req[c].key = k
  OBVIOUS
<1> HIDE DEF k
<1>2. [pc |-> "done", key |-> k] \in ReqStates
  BY <1>0 DEF ReqStates
<1>3. \A d \in Requests :
        IF d = c \/ (req[d].key = k /\ req[d].pc = "wait") THEN req'[d] = [pc |-> "done", key |-> k] ELSE req'[d] = req[d]
  BY <1>1
<1>4. req' \in [Requests -> ReqStates]
  BY <1>0, <1>1, <1>2
<1>5. \A d \in Requests : d # c /\ req[d].key = k => req[d].pc \notin {"run", "ran"}
  BY <1>0, <1>a DEF FlightInv
<1>6. \A d \in Requests : req'[d].pc # "new" => req'[d].key \in Keys
  BY <1>0, <1>3 DEF IdempTypes
<1>7. \A d \in Requests :
                /\ req'[d].key = req[d].key
                /\ req'[d] = req[d] \/ req'[d].pc = "done"
                /\ req[d].key = k => /\ req'[d].pc \notin {"run", "ran"}
                                     /\ req'[d].pc = "missed" => d \in gap'
                /\ req[d].key # k => req'[d] = req[d]
  BY <1>1, <1>3, <1>5, <1>a
<1>8. flight' \in [Keys -> Requests \cup {NoKey}] /\ gap' \subseteq Requests /\ gap \subseteq gap'
  BY <1>0, <1>1 DEF IdempTypes
<1>9. FlightInv'
  <2>1. ASSUME NEW d \in Requests, req'[d].pc \in {"run", "ran"}
        PROVE  flight'[req'[d].key] = d
    <3>1. req[d].key # k /\ req'[d] = req[d]
      BY <1>7, <2>1
    <3>2. flight[req[d].key] = d /\ req[d].key \in Keys
      BY <2>1, <3>1 DEF FlightInv, IdempTypes
    <3> QED
      BY <1>1, <3>1, <3>2 DEF IdempTypes
  <2> QED
    BY <2>1 DEF FlightInv
<1> QED
  BY <1>0, <1>4, <1>6, <1>7, <1>8, <1>9 DEF k


LEMMA AnswerIdempInv ==
    ASSUME IdempInv, NEW c \in Requests, Answer(c)
    PROVE  IdempInv'
<1> USE DEF IdempInv
<1> DEFINE k == req[c].key
<1>0. /\ req[c].pc \in {"run", "ran"} /\ EndFlight(c)
      /\ forgotten' = IF req[c].pc = "ran" THEN forgotten \cup {k} ELSE forgotten
      /\ UNCHANGED <<cache, totalBytes, ran>>
  BY DEF Answer
<1>1. /\ req[c].key \in Keys
      /\ flight' \in [Keys -> Requests \cup {NoKey}] /\ gap' \subseteq Requests /\ FlightInv'
      /\ req' \in [Requests -> ReqStates] /\ \A d \in Requests : req'[d].pc # "new" => req'[d].key \in Keys
      /\ gap \subseteq gap'
      /\ \A d \in Requests :
           /\ req'[d].key = req[d].key
           /\ req'[d] = req[d] \/ req'[d].pc = "done"
           /\ req[d].key = req[c].key => /\ req'[d].pc \notin {"run", "ran"}
                                         /\ req'[d].pc = "missed" => d \in gap'
           /\ req[d].key # req[c].key => req'[d] = req[d]
  BY <1>0, EndFlightIs
<1>2. IdempTypes'
  BY <1>0, <1>1 DEF IdempTypes, ReqStates
<1>3. CacheInv'
  BY <1>0 DEF CacheInv, Distinct
<1>4. forgotten \subseteq forgotten' /\ (req[c].pc = "ran" => k \in forgotten')
  BY <1>0
<1> HIDE DEF k
<1>5. \A k2 : k2 # k /\ AnsweringIn(req, k2) => AnsweringIn(req', k2)
  BY <1>1 DEF AnsweringIn, k
<1>6. ASSUME NEW k2 \in ran'
      PROVE  k2 \in forgotten' \/ LiveIn(cache', k2) \/ AnsweringIn(req', k2)
  <2>1. CASE k2 = k /\ AnsweringIn(req, k2)
    <3>1. PICK d \in Requests : req[d].pc = "ran" /\ req[d].key = k
      BY <2>1 DEF AnsweringIn
    <3>2. d = c
      BY <1>0, <3>1 DEF FlightInv, k
    <3> QED
      BY <1>4, <2>1, <3>1, <3>2
  <2>2. CASE k2 # k \/ ~AnsweringIn(req, k2)
    BY <1>0, <1>4, <1>5, <2>2 DEF RanInv
  <2> QED
    BY <2>1, <2>2
<1>7. ASSUME NEW d \in Requests, req'[d].key \in ran'
      PROVE  /\ req'[d].pc = "missed" => d \in gap' \/ req'[d].key \in forgotten' \/ AnsweringIn(req', req'[d].key)
             /\ req'[d].pc = "run" => d \in gap' \/ req'[d].key \in forgotten'
  <2>1. CASE req[d].key = k
    BY <1>1, <2>1 DEF k
  <2>2. CASE req[d].key # k
    BY <1>0, <1>1, <1>4, <1>5, <1>7, <2>2 DEF RanInv, k
  <2> QED
    BY <2>1, <2>2
<1> QED
  BY <1>1, <1>2, <1>3, <1>6, <1>7 DEF RanInv

LEMMA SettleIdempInv ==
    ASSUME IdempInv, NEW c \in Requests, NEW size \in Sizes, NEW prune \in BOOLEAN, Settle(c, size, prune)
    PROVE  IdempInv'
<1> USE DEF IdempInv
<1> DEFINE k == req[c].key
           x == [key |-> k, size |-> size, expired |-> FALSE]
           entries == Append(Selected(cache, DOMAIN cache \ Entry(k)), x)
           kept == IF prune THEN Selected(entries, DOMAIN entries \ Expired(entries)) ELSE entries
           pruned == IF prune THEN Bytes(Selected(entries, Expired(entries))) ELSE 0
           total == Without(Without(totalBytes, Bytes(Selected(cache, Entry(k)))) + size, pruned)
           n == Surplus(kept, total)
           front == SubSeq(kept, 1, n)
           rest == SubSeq(kept, n + 1, Len(kept))
<1>0. /\ req[c].pc \in {"run", "ran"} /\ req[c].pc = "ran" /\ EndFlight(c)
      /\ cache' = rest
      /\ totalBytes' = Without(total, Bytes(front))
      /\ forgotten' = (forgotten \ {k}) \cup KeysOf(front)
      /\ UNCHANGED ran
  BY DEF Settle, Store
<1>1. /\ req[c].key \in Keys
      /\ flight' \in [Keys -> Requests \cup {NoKey}] /\ gap' \subseteq Requests /\ FlightInv'
      /\ req' \in [Requests -> ReqStates] /\ \A d \in Requests : req'[d].pc # "new" => req'[d].key \in Keys
      /\ gap \subseteq gap'
      /\ \A d \in Requests :
           /\ req'[d].key = req[d].key
           /\ req'[d] = req[d] \/ req'[d].pc = "done"
           /\ req[d].key = req[c].key => /\ req'[d].pc \notin {"run", "ran"}
                                         /\ req'[d].pc = "missed" => d \in gap'
           /\ req[d].key # req[c].key => req'[d] = req[d]
  <2>1. IdempTypes /\ FlightInv /\ req[c].pc \in {"run", "ran"} /\ EndFlight(c)
    BY <1>0
  <2> HIDE DEF k
  <2> QED
    BY <2>1, EndFlightIs
<1>2. cache \in Seq(Entries) /\ Distinct(cache) /\ totalBytes = Bytes(cache)
  BY DEF IdempTypes, CacheInv
<1>3. x \in Entries /\ x.key = k /\ x.size = size /\ ~x.expired
  BY <1>1, IdempotencyAssumption DEF Entries
<1>4. \A i \in DOMAIN cache : i \in Entry(k) <=> cache[i].key = k
  BY DEF Entry
<1>a. k = req[c].key
  OBVIOUS
<1> HIDE DEF k, x
<1>5. /\ entries \in Seq(Entries) /\ Distinct(entries)
      /\ Without(totalBytes, Bytes(Selected(cache, Entry(k)))) + size = Bytes(entries)
      /\ \A k2 : LiveIn(cache, k2) /\ k2 # k => LiveIn(entries, k2)
      /\ LiveIn(entries, k)
  <2>1. PICK E : E = Entry(k)
    OBVIOUS
  <2>2. \A i \in DOMAIN cache : i \in E <=> cache[i].key = x.key
    BY <1>3, <1>4, <2>1
  <2> DEFINE t == Append(Selected(cache, DOMAIN cache \ E), x)
  <2>3. /\ t \in Seq(Entries) /\ Distinct(t)
        /\ Without(Bytes(cache), Bytes(Selected(cache, E))) + x.size = Bytes(t)
        /\ \A k2 : LiveIn(cache, k2) /\ k2 # x.key => LiveIn(t, k2)
        /\ ~x.expired => LiveIn(t, x.key)
    BY <1>2, <1>3, <2>2, SetKeeps
  <2>4. t = entries
    BY <2>1
  <2> HIDE DEF t, entries
  <2> QED
    BY <1>2, <1>3, <2>1, <2>3, <2>4
<1> HIDE DEF entries
<1>6. /\ kept \in Seq(Entries) /\ Distinct(kept) /\ total = Bytes(kept)
      /\ \A k2 : LiveIn(entries, k2) => LiveIn(kept, k2)
  <2>1. CASE prune
    <3> DEFINE t == Selected(entries, DOMAIN entries \ Expired(entries))
    <3>1. /\ t \in Seq(Entries) /\ Distinct(t)
          /\ Without(Bytes(entries), Bytes(Selected(entries, Expired(entries)))) = Bytes(t)
          /\ \A k2 : LiveIn(entries, k2) => LiveIn(t, k2)
      BY <1>5, PruneKeeps
    <3>2. kept = t /\ total = Without(Bytes(entries), Bytes(Selected(entries, Expired(entries))))
      BY <1>5, <2>1
    <3> HIDE DEF t, kept, total
    <3> QED
      BY <3>1, <3>2
  <2>2. CASE ~prune
    <3>1. kept = entries /\ total = Without(Bytes(entries), 0)
      BY <1>5, <2>2
    <3>2. Bytes(entries) \in Nat
      BY <1>5, SumsNat
    <3>3. total = Bytes(entries)
      BY <3>1, <3>2 DEF Without
    <3> HIDE DEF kept, total
    <3> QED
      BY <1>5, <3>1, <3>3
  <2> QED
    BY <2>1, <2>2
<1> HIDE DEF kept, total
<1>7. /\ n \in 0..Len(kept)
      /\ Without(total, Bytes(front)) = Bytes(rest)
      /\ Within(Len(rest), MaxEntries) /\ Within(Bytes(rest), MaxBytes)
  BY <1>6, SurplusIs
<1> HIDE DEF n
<1>8. /\ rest \in Seq(Entries) /\ Distinct(rest)
      /\ KeysOf(front) \subseteq Keys
      /\ \A k2 : LiveIn(kept, k2) => k2 \in KeysOf(front) \/ LiveIn(rest, k2)
  BY <1>6, <1>7, EvictionKeeps
<1> HIDE DEF front, rest
<1>9. Bytes(rest) \in Nat
  BY <1>8, SumsNat
<1>10. IdempTypes'
  BY <1>0, <1>1, <1>7, <1>8, <1>9 DEF IdempTypes, ReqStates
<1>11. CacheInv'
  BY <1>0, <1>7, <1>8 DEF CacheInv
<1>12. \A k2 : k2 # k /\ AnsweringIn(req, k2) => AnsweringIn(req', k2)
  BY <1>1, <1>a DEF AnsweringIn
<1>13. ASSUME NEW k2 \in ran'
      PROVE  k2 \in forgotten' \/ LiveIn(cache', k2) \/ AnsweringIn(req', k2)
  <2>1. CASE k2 = k
    BY <1>0, <1>5, <1>6, <1>8, <2>1
  <2>2. CASE k2 # k
    <3>1. k2 \in forgotten \/ LiveIn(cache, k2) \/ AnsweringIn(req, k2)
      BY <1>0, <1>13 DEF RanInv
    <3> QED
      BY <1>0, <1>5, <1>6, <1>8, <1>12, <2>2, <3>1
  <2> QED
    BY <2>1, <2>2
<1>14. ASSUME NEW d \in Requests, req'[d].key \in ran'
      PROVE  /\ req'[d].pc = "missed" => d \in gap' \/ req'[d].key \in forgotten' \/ AnsweringIn(req', req'[d].key)
             /\ req'[d].pc = "run" => d \in gap' \/ req'[d].key \in forgotten'
  <2>1. CASE req[d].key = k
    BY <1>1, <1>a, <2>1
  <2>2. CASE req[d].key # k
    BY <1>0, <1>1, <1>a, <1>12, <1>14, <2>2 DEF RanInv
  <2> QED
    BY <2>1, <2>2
<1> QED
  BY <1>1, <1>10, <1>11, <1>13, <1>14 DEF RanInv

LEMMA ExpireIdempInv ==
    ASSUME IdempInv, Expire
    PROVE  IdempInv'
<1> USE DEF IdempInv
<1>0. PICK i \in DOMAIN cache : /\ cache' = [cache EXCEPT ![i].expired = TRUE]
                                /\ forgotten' = forgotten \cup {cache[i].key}
  BY DEF Expire
<1>1. UNCHANGED <<totalBytes, flight, req, ran, gap>>
  BY DEF Expire
<1>2. cache \in Seq(Entries) /\ cache[i] \in Entries
  BY DEF IdempTypes
<1>3. [cache[i] EXCEPT !.expired = TRUE] \in Entries
  BY <1>2 DEF Entries
<1>4. cache' = [cache EXCEPT ![i] = [cache[i] EXCEPT !.expired = TRUE]]
  BY <1>0
<1>5. cache' \in Seq(Entries) /\ DOMAIN cache' = DOMAIN cache /\ Len(cache') = Len(cache)
  BY <1>2, <1>3, <1>4
<1>6. \A j \in DOMAIN cache : j # i => cache'[j] = cache[j]
  BY <1>2, <1>4
<1>7. cache'[i].key = cache[i].key /\ cache'[i].size = cache[i].size
  <2>1. cache'[i] = [cache[i] EXCEPT !.expired = TRUE]
    BY <1>2, <1>4
  <2> QED
    BY <1>2, <2>1 DEF Entries
<1>8. \A j \in DOMAIN cache : cache'[j].key = cache[j].key /\ cache'[j].size = cache[j].size
  BY <1>6, <1>7
<1>9. Bytes(cache') = Bytes(cache)
  <2>1. \A j \in 1..Len(cache) : cache[j].size = cache'[j].size
    BY <1>2, <1>8
  <2>2. PICK t \in Seq(Entries) : t = cache'
    BY <1>5
  <2>3. Bytes(cache) = Bytes(t)
    BY <1>2, <1>5, <2>1, <2>2, BytesAgree
  <2> QED
    BY <2>2, <2>3
<1>10. Distinct(cache')
  BY <1>5, <1>8 DEF CacheInv, Distinct
<1>11. CacheInv'
  BY <1>1, <1>5, <1>9, <1>10 DEF CacheInv
<1>12. IdempTypes'
  <2>1. cache[i].key \in Keys
    BY <1>2 DEF Entries
  <2> QED
    BY <1>0, <1>1, <1>5, <2>1 DEF IdempTypes
<1>13. FlightInv'
  BY <1>1 DEF FlightInv
<1>14. ASSUME NEW k2, LiveIn(cache, k2)
       PROVE  LiveIn(cache', k2) \/ k2 \in forgotten'
  <2>1. PICK j \in DOMAIN cache : cache[j].key = k2 /\ ~cache[j].expired
    BY <1>14 DEF LiveIn
  <2> QED
    BY <1>0, <1>5, <1>6, <2>1 DEF LiveIn
<1>15. RanInv'
  <2>1. \A k2 \in ran' : k2 \in forgotten' \/ LiveIn(cache', k2) \/ AnsweringIn(req', k2)
    BY <1>0, <1>1, <1>14 DEF RanInv
  <2>2. ASSUME NEW d \in Requests, req'[d].key \in ran'
        PROVE  /\ req'[d].pc = "missed" => d \in gap' \/ req'[d].key \in forgotten' \/ AnsweringIn(req', req'[d].key)
               /\ req'[d].pc = "run" => d \in gap' \/ req'[d].key \in forgotten'
    BY <1>0, <1>1, <2>2 DEF RanInv
  <2> QED
    BY <2>1, <2>2 DEF RanInv
<1> QED
  BY <1>11, <1>12, <1>13, <1>15

LEMMA RestartIdempInv ==
    ASSUME IdempInv, RestartIdempotency
    PROVE  IdempInv'
<1> USE DEF IdempInv
<1>0. /\ cache' = <<>> /\ totalBytes' = 0
      /\ flight' = [k \in Keys |-> NoKey]
      /\ req' = [c \in Requests |-> IF req[c].pc = "new" THEN req[c] ELSE [pc |-> "done", key |-> req[c].key]]
      /\ forgotten' = ran /\ ran' = ran /\ gap' = gap
  BY DEF RestartIdempotency
<1>1. \A c \in Requests : /\ req'[c] \in ReqStates /\ req'[c].pc \in {"new", "done"}
                          /\ req'[c].pc # "new" => req'[c].key \in Keys
  <2>1. ASSUME NEW c \in Requests
        PROVE  /\ req'[c] \in ReqStates /\ req'[c].pc \in {"new", "done"}
               /\ req'[c].pc # "new" => req'[c].key \in Keys
    <3>1. req[c] \in ReqStates /\ (req[c].pc # "new" => req[c].key \in Keys)
      BY DEF IdempTypes, ReqStates
    <3>2. CASE req[c].pc = "new"
      BY <1>0, <3>1, <3>2
    <3>3. CASE req[c].pc # "new"
      <4>1. req'[c] = [pc |-> "done", key |-> req[c].key]
        BY <1>0, <3>3
      <4> QED
        BY <3>1, <3>3, <4>1 DEF ReqStates
    <3> QED
      BY <3>2, <3>3
  <2> QED
    BY <2>1
<1>2. IdempTypes'
  <2>1. req' \in [Requests -> ReqStates]
    BY <1>0, <1>1
  <2>2. <<>> \in Seq(Entries) /\ 0 \in Nat
    OBVIOUS
  <2> QED
    BY <1>0, <1>1, <2>1, <2>2 DEF IdempTypes, ReqStates
<1>3. CacheInv'
  <2>1. \A limit \in Nat : Within(0, limit)
    BY DEF Within
  <2>2. Len(<<>>) = 0 /\ DOMAIN <<>> = {} /\ Within(0, MaxEntries) /\ Within(0, MaxBytes)
    BY <2>1, IdempotencyAssumption
  <2>3. Distinct(<<>>)
    BY <2>2 DEF Distinct
  <2> QED
    BY <1>0, <2>2, <2>3, BytesEmpty DEF CacheInv
<1>4. FlightInv' /\ RanInv'
  BY <1>0, <1>1 DEF FlightInv, RanInv
<1> QED
  BY <1>2, <1>3, <1>4

LEMMA IdempUnchanged == IdempInv /\ UNCHANGED idempVars => IdempInv'
<1> SUFFICES ASSUME IdempInv, UNCHANGED idempVars PROVE IdempInv'
  OBVIOUS
<1>1. UNCHANGED <<cache, totalBytes, flight, req, ran, forgotten, gap>>
  BY DEF idempVars
<1>2. IdempTypes' /\ FlightInv'
  BY <1>1 DEF IdempInv, IdempTypes, FlightInv
<1>3. CacheInv'
  BY <1>1 DEF IdempInv, CacheInv
<1>4. RanInv'
  BY <1>1 DEF IdempInv, RanInv
<1> QED
  BY <1>2, <1>3, <1>4 DEF IdempInv

-----------------------------------------------------------------------------
(* The edge: the invariant of the stream.                                    *)

Frames == [id : Nat, change : Nat]
Subscribers == [registered : BOOLEAN, evicted : BOOLEAN, buf : Seq(Frames), todo : Seq(Frames)]

StreamTypes ==
  /\ commits \in Nat /\ nextId \in Nat /\ epoch \in Nat
  /\ ring \in Seq(Frames) /\ idOf \in [1..commits -> Nat]
  /\ window \in BOOLEAN
  /\ pub \in [Publishers -> Publishing \cup {NoPub}]
  /\ conn \in [1..MaxConns -> Subscribers]
  /\ cur \in 0..MaxConns /\ streaming \in BOOLEAN /\ (streaming => cur # 0)
  /\ cursor \in [id : Nat, epoch : Nat]
  /\ known \subseteq 1..commits /\ excused \subseteq 1..commits

\* Ids are handed out once, and a change in Publish is in one goroutine.
IdInv ==
  /\ \A c \in 1..commits : idOf[c] <= nextId
  /\ \A c, d \in 1..commits : idOf[c] = idOf[d] /\ idOf[c] # 0 => c = d
  /\ \A p \in Publishers : pub[p] # NoPub =>
       /\ pub[p].change \in 1..commits
       /\ pub[p].pc \in {"coalesce", "id"} <=> idOf[pub[p].change] = 0
  /\ \A p, q \in Publishers : pub[p] # NoPub /\ pub[q] # NoPub /\ pub[p].change = pub[q].change => p = q

\* Frames carry the id of their change; a subscriber is evicted when it is removed.
IsFrame(f, n, ids) == f.change \in 1..n /\ f.id # 0 /\ ids[f.change] = f.id
AllFrames(s, n, ids) == \A i \in DOMAIN s : IsFrame(s[i], n, ids)
ToWrite(s, n, ids) == \A i \in DOMAIN s : IsFrame(s[i], n, ids) \/ s[i] = Resync
ConnInv(sub, n, ids) ==
  AllFrames(sub.buf, n, ids) /\ ToWrite(sub.todo, n, ids) /\ (sub.registered \/ sub.evicted)
FrameInv == AllFrames(ring, commits, idOf) /\ (streaming => ConnInv(conn[cur], commits, idOf))

\* What lies behind the cursor was received, or given up on.
CursorInv ==
  /\ cursor.epoch <= epoch
  /\ cursor.epoch = epoch => cursor.id <= nextId
  /\ ~BlindCursor => \A c \in 1..commits : idOf[c] \in 1..cursor.id => c \in known \cup excused

\* A frame that has left the ring lies before the oldest that is in it.
RingInv ==
  \A c \in Appended :
    c \in excused \/ FrameIn(c, ring) \/ (ring # <<>> /\ idOf[c] < Head(ring).id)

\* While a stream is served, LossIsExcused in terms of that stream.
Sending(pb, i, c) ==
  \E p \in Publishers : pb[p] # NoPub /\ pb[p].pc = "send" /\ pb[p].change = c /\ i \in pb[p].to
OnWire(sub, pb, i, c) ==
  sub.evicted \/ FrameIn(0, sub.todo) \/ FrameIn(c, sub.todo) \/ FrameIn(c, sub.buf) \/ Sending(pb, i, c)
WireInv == streaming => \A c \in Appended : c \in known \cup excused \/ OnWire(conn[cur], pub, cur, c)

StreamInv == StreamTypes /\ IdInv /\ FrameInv /\ CursorInv /\ RingInv /\ WireInv

LEMMA StreamInitInv == StreamInit => StreamInv
<1> SUFFICES ASSUME StreamInit PROVE StreamInv
  OBVIOUS
<1>0. /\ commits = 0 /\ nextId = 0 /\ epoch = 0 /\ ring = <<>> /\ idOf = <<>> /\ window = FALSE
      /\ pub = [p \in Publishers |-> NoPub] /\ conn = [i \in 1..MaxConns |-> NewSubscriber]
      /\ cur = 0 /\ streaming = FALSE /\ cursor = [id |-> 0, epoch |-> 0] /\ known = {} /\ excused = {}
  BY DEF StreamInit
<1>1. NewSubscriber \in Subscribers
  BY DEF NewSubscriber, Subscribers
<1>2. 1..commits = {} /\ idOf \in [1..commits -> Nat] /\ ring \in Seq(Frames) /\ DOMAIN ring = {}
  BY <1>0
<1>3. conn \in [1..MaxConns -> Subscribers] /\ pub \in [Publishers -> Publishing \cup {NoPub}]
  BY <1>0, <1>1
<1>4. Appended = {}
  BY <1>2 DEF Appended
<1>5. StreamTypes
  <2>1. cur \in 0..MaxConns
    BY <1>0, SizesAssumption
  <2>4. streaming \in BOOLEAN /\ ~streaming /\ window \in BOOLEAN
    BY <1>0
  <2>2. commits \in Nat /\ nextId \in Nat /\ epoch \in Nat /\ cursor \in [id : Nat, epoch : Nat]
    BY <1>0
  <2>3. known \subseteq 1..commits /\ excused \subseteq 1..commits
    BY <1>0
  <2> QED
    BY <1>2, <1>3, <2>1, <2>2, <2>3, <2>4 DEF StreamTypes
<1>6. IdInv
  BY <1>0, <1>2 DEF IdInv
<1>7. FrameInv /\ CursorInv
  <2>1. BlindCursor /\ cursor.epoch = 0 /\ cursor.id = 0
    BY <1>0 DEF BlindCursor
  <2> QED
    BY <1>0, <1>2, <2>1 DEF FrameInv, CursorInv, AllFrames
<1>8. RingInv /\ WireInv
  BY <1>0, <1>4 DEF RingInv, WireInv
<1> QED
  BY <1>5, <1>6, <1>7, <1>8 DEF StreamInv

LEMMA PubIs ==
    ASSUME StreamTypes, NEW p \in Publishers, pub[p] # NoPub
    PROVE  /\ pub[p] \in Publishing /\ pub[p].change \in Nat /\ pub[p].pc \in {"coalesce", "id", "append", "send"}
           /\ pub[p].pc # "send" => pub[p] \in [pc : {"coalesce", "id", "append"}, change : Nat]
           /\ pub[p].pc = "send" => /\ pub[p] \in [pc : {"send"}, change : Nat, to : SUBSET (1..MaxConns)]
                                    /\ pub[p].to \subseteq 1..MaxConns
<1>1. pub[p] \in Publishing
  BY DEF StreamTypes
<1>2. CASE pub[p] \in [pc : {"coalesce", "id", "append"}, change : Nat]
  BY <1>1, <1>2
<1>3. CASE pub[p] \in [pc : {"send"}, change : Nat, to : SUBSET (1..MaxConns)]
  BY <1>1, <1>3
<1> QED
  BY <1>1, <1>2, <1>3 DEF Publishing

\* A browser that is not connected: what its cursor leaves out is behind it, shows as a
\* gap or is replayed.
LEMMA CursorCovers ==
    ASSUME StreamTypes, FrameInv, CursorInv, RingInv, ~BlindCursor, ~HasGap(cursor.id), NEW c \in Appended
    PROVE  c \in known \cup excused \/ FrameIn(c, Replay(cursor.id))
<1>0. c \in 1..commits /\ idOf[c] > 0 /\ idOf[c] \in Nat /\ cursor.id \in Nat /\ ring \in Seq(Frames)
  BY DEF Appended, StreamTypes
<1>1. CASE idOf[c] <= cursor.id
  BY <1>0, <1>1 DEF CursorInv
<1>2. CASE idOf[c] > cursor.id /\ FrameIn(c, ring)
  <2>1. PICK i \in DOMAIN ring : ring[i].change = c
    BY <1>2 DEF FrameIn
  <2>2. ring[i].id > cursor.id
    BY <1>2, <2>1 DEF FrameInv, AllFrames, IsFrame
  <2> DEFINE I == {j \in DOMAIN ring : ring[j].id > cursor.id}
  <2>3. i \in I
    BY <2>2
  <2>a. i \in DOMAIN ring \cap I
    BY <2>3
  <2> HIDE DEF I
  <2>b. ring \in Seq(Frames)
    BY <1>0
  <2>4. /\ Selected(ring, I) \in Seq(Frames)
        /\ \A j \in DOMAIN ring \cap I : \E k \in DOMAIN Selected(ring, I) : Selected(ring, I)[k] = ring[j]
    BY <2>b, SelectedHas
  <2>5. Replay(cursor.id) = Selected(ring, I)
    BY DEF Replay, I
  <2>6. PICK k \in DOMAIN Selected(ring, I) : Selected(ring, I)[k] = ring[i]
    BY <2>a, <2>4
  <2> QED
    BY <2>1, <2>5, <2>6 DEF FrameIn
<1>3. CASE idOf[c] > cursor.id /\ ring # <<>> /\ idOf[c] < Head(ring).id
  <2>1. Head(ring).id \in Nat
    <3>1. Head(ring) \in Frames
      BY <1>0, <1>3
    <3> QED
      BY <3>1 DEF Frames
  <2> QED
    BY <1>0, <1>3, <2>1 DEF HasGap
<1> QED
  BY <1>0, <1>1, <1>2, <1>3 DEF RingInv

LEMMA StreamLoss == StreamInv => LossIsExcused
<1> SUFFICES ASSUME StreamInv, NEW c \in Appended PROVE c \in known \cup excused \/ OnItsWay(c)
  BY DEF LossIsExcused
<1>1. CASE streaming
  BY <1>1 DEF StreamInv, WireInv, OnWire, Sending, OnItsWay
<1>2. CASE ~streaming
  BY <1>2, CursorCovers DEF StreamInv, OnItsWay
<1> QED
  BY <1>1, <1>2

-----------------------------------------------------------------------------
(* The actions of the publishers.                                            *)

\* Frames stay frames when changes are added and ids are given to changes without one.
LEMMA FramesStay ==
    ASSUME NEW n \in Nat, NEW m \in Nat, n <= m, NEW ids, NEW jds,
           \A c \in 1..n : ids[c] # 0 => jds[c] = ids[c]
    PROVE  /\ \A f : IsFrame(f, n, ids) => IsFrame(f, m, jds)
           /\ \A s : AllFrames(s, n, ids) => AllFrames(s, m, jds)
           /\ \A sub : ConnInv(sub, n, ids) => ConnInv(sub, m, jds)
<1>1. \A f : IsFrame(f, n, ids) => IsFrame(f, m, jds)
  BY DEF IsFrame
<1>2. \A s : AllFrames(s, n, ids) => AllFrames(s, m, jds)
  BY <1>1 DEF AllFrames
<1>3. \A s : ToWrite(s, n, ids) => ToWrite(s, m, jds)
  BY <1>1 DEF ToWrite
<1> QED
  BY <1>1, <1>2, <1>3 DEF ConnInv

\* A step of a publisher that neither appends nor sends.
LEMMA QuietStep ==
    ASSUME StreamInv, UNCHANGED <<ring, conn, cur, streaming, cursor, epoch, known>>,
           StreamTypes', IdInv',
           commits <= commits', nextId <= nextId', excused \subseteq excused',
           \A c \in 1..commits : c \in DOMAIN idOf',
           \A c \in 1..commits' : IF c \in 1..commits /\ idOf[c] # 0 THEN idOf'[c] = idOf[c]
                                  ELSE idOf'[c] = 0 \/ idOf'[c] > nextId,
           Appended' = Appended,
           \A i, c : Sending(pub, i, c) => Sending(pub', i, c)
    PROVE  StreamInv'
<1> USE DEF StreamInv
<1>0. /\ commits \in Nat /\ commits' \in Nat /\ idOf \in [1..commits -> Nat] /\ idOf' \in [1..commits' -> Nat]
      /\ nextId \in Nat /\ nextId' \in Nat /\ cursor \in [id : Nat, epoch : Nat]
  BY DEF StreamTypes
<1>1. \A c \in 1..commits : idOf[c] # 0 => idOf'[c] = idOf[c]
  BY <1>0
<1>2. AllFrames(ring, commits', idOf') /\ (streaming => ConnInv(conn[cur], commits', idOf'))
  BY <1>0, <1>1, FramesStay DEF FrameInv
<1>3. FrameInv'
  BY <1>2 DEF FrameInv
<1>4. CursorInv'
  <2>1. cursor.epoch <= epoch' /\ (cursor.epoch = epoch' => cursor.id <= nextId') /\ cursor.id \in Nat
    BY <1>0 DEF CursorInv
  <2>2. ASSUME ~BlindCursor, NEW c \in 1..commits', idOf'[c] \in 1..cursor.id
        PROVE  c \in known \cup excused
    <3>1. cursor.id <= nextId
      BY <2>2 DEF CursorInv, BlindCursor
    <3>a. idOf'[c] # 0 /\ ~(idOf'[c] > nextId)
      BY <1>0, <2>1, <2>2, <3>1
    <3>2. c \in 1..commits /\ idOf'[c] = idOf[c]
      BY <2>2, <3>a
    <3> QED
      BY <2>2, <3>2 DEF CursorInv
  <2>3. BlindCursor' <=> BlindCursor
    BY DEF BlindCursor
  <2> QED
    BY <2>1, <2>2, <2>3 DEF CursorInv
<1>5. \A c \in Appended : c \in 1..commits /\ idOf'[c] = idOf[c]
  BY <1>0, <1>1 DEF Appended
<1>6. RingInv'
  BY <1>5 DEF RingInv
<1>7. WireInv'
  <2>1. ASSUME streaming, NEW c \in Appended
        PROVE  c \in known \cup excused' \/ OnWire(conn[cur], pub', cur, c)
    BY <2>1 DEF WireInv, OnWire
  <2> QED
    BY <2>1 DEF WireInv
<1> QED
  BY <1>3, <1>4, <1>6, <1>7

LEMMA CommitStreamInv ==
    ASSUME StreamInv, NEW p \in Publishers, CommitChange(p)
    PROVE  StreamInv'
<1> DEFINE n == commits + 1
           new == [pc |-> "coalesce", change |-> n]
<1>0. /\ pub[p] = NoPub /\ commits' = n /\ idOf' = Append(idOf, 0) /\ pub' = [pub EXCEPT ![p] = new]
      /\ UNCHANGED <<nextId, ring, window, conn, cur, streaming, cursor, epoch, known, excused>>
  BY DEF CommitChange
<1>1. StreamTypes /\ IdInv
  BY DEF StreamInv
<1>2. commits \in Nat /\ idOf \in [1..commits -> Nat] /\ pub \in [Publishers -> Publishing \cup {NoPub}]
  BY <1>1 DEF StreamTypes
<1>3. idOf \in Seq(Nat) /\ Len(idOf) = commits
  BY <1>2
<1>4. idOf' \in [1..n -> Nat] /\ idOf'[n] = 0 /\ \A c \in 1..commits : idOf'[c] = idOf[c]
  <2>1. /\ Append(idOf, 0) \in Seq(Nat) /\ Len(Append(idOf, 0)) = n /\ DOMAIN Append(idOf, 0) = 1..n
        /\ Append(idOf, 0)[n] = 0 /\ \A c \in 1..commits : Append(idOf, 0)[c] = idOf[c]
    BY <1>2, <1>3
  <2>2. idOf' = Append(idOf, 0)
    BY <1>0
  <2>3. idOf' \in Seq(Nat) /\ Len(idOf') = n /\ idOf'[n] = 0 /\ \A c \in 1..commits : idOf'[c] = idOf[c]
    BY <2>1, <2>2
  <2> QED
    BY <2>3
<1>5. new \in Publishing /\ new # NoPub /\ new.change = n /\ new.pc = "coalesce"
  BY <1>2, NoPubAssumption DEF Publishing
<1>6. \A c \in 1..n : c \in 1..commits \/ c = n
  BY <1>2
<1>7. pub' \in [Publishers -> Publishing \cup {NoPub}] /\ pub'[p] = new /\ \A q \in Publishers : q # p => pub'[q] = pub[q]
  BY <1>0, <1>2, <1>5
<1> HIDE DEF new
<1>8. StreamTypes'
  <2>1. known \subseteq 1..n /\ excused \subseteq 1..n /\ n \in Nat
    BY <1>1, <1>2 DEF StreamTypes
  <2> QED
    BY <1>0, <1>1, <1>4, <1>7, <2>1 DEF StreamTypes
<1>9. n \notin 1..commits /\ \A c \in 1..commits : c \in 1..n
  BY <1>2
<1> HIDE DEF n
<1>10. IdInv'
  <2>1. \A c \in 1..n : idOf'[c] <= nextId
    BY <1>1, <1>4, <1>6 DEF IdInv, StreamTypes
  <2>2. \A c, d \in 1..n : idOf'[c] = idOf'[d] /\ idOf'[c] # 0 => c = d
    BY <1>1, <1>4, <1>6 DEF IdInv
  <2>3. ASSUME NEW q \in Publishers, pub'[q] # NoPub
        PROVE  /\ pub'[q].change \in 1..n
               /\ pub'[q].pc \in {"coalesce", "id"} <=> idOf'[pub'[q].change] = 0
    <3>1. CASE q = p
      BY <1>2, <1>4, <1>5, <1>7, <3>1 DEF n
    <3>2. CASE q # p
      BY <1>1, <1>4, <1>7, <1>9, <2>3, <3>2 DEF IdInv
    <3> QED
      BY <3>1, <3>2
  <2>4. \A q, r \in Publishers : pub'[q] # NoPub /\ pub'[r] # NoPub /\ pub'[q].change = pub'[r].change => q = r
    BY <1>1, <1>5, <1>7, <1>9 DEF IdInv
  <2> QED
    BY <1>0, <2>1, <2>2, <2>3, <2>4 DEF IdInv
<1>11. Appended' = Appended
  <2>1. \A c \in 1..n : c \in Appended' <=> c \in Appended
    <3>1. ASSUME NEW c \in 1..commits
          PROVE  (\E q \in Publishers : pub'[q] # NoPub /\ pub'[q].change = c /\ pub'[q].pc = "append")
                 <=> (\E q \in Publishers : pub[q] # NoPub /\ pub[q].change = c /\ pub[q].pc = "append")
      BY <1>0, <1>5, <1>7
    <3>2. n \notin Appended' /\ n \notin Appended
      BY <1>4, <1>9 DEF Appended
    <3>3. \A c \in 1..commits : c \in Appended' <=> c \in Appended
      BY <1>0, <1>4, <1>9, <3>1 DEF Appended
    <3> QED
      BY <1>6, <3>2, <3>3
  <2>2. Appended' \subseteq 1..n /\ Appended \subseteq 1..n
    BY <1>0, <1>9 DEF Appended
  <2> QED
    BY <2>1, <2>2
<1>12. \A i, c : Sending(pub, i, c) => Sending(pub', i, c)
  BY <1>0, <1>7 DEF Sending
<1>13. commits <= commits' /\ nextId <= nextId' /\ excused \subseteq excused'
  BY <1>0, <1>1, <1>2 DEF StreamTypes, n
<1>14. \A c \in 1..commits : c \in DOMAIN idOf'
  BY <1>4, <1>9
<1>15. \A c \in 1..commits' : IF c \in 1..commits /\ idOf[c] # 0 THEN idOf'[c] = idOf[c]
                              ELSE idOf'[c] = 0 \/ idOf'[c] > nextId
  BY <1>0, <1>4, <1>6
<1>16. UNCHANGED <<ring, conn, cur, streaming, cursor, epoch, known>>
  BY <1>0
<1> QED
  BY <1>8, <1>10, <1>11, <1>12, <1>13, <1>14, <1>15, <1>16, QuietStep

\* The goroutine moves on and the change keeps what it has.
LEMMA PubStep ==
    ASSUME StreamTypes, NEW p \in Publishers, pub[p] # NoPub, pub[p].pc # "send", NEW l \in {"id", "append"},
           pub' = [pub EXCEPT ![p].pc = l]
    PROVE  /\ pub' \in [Publishers -> Publishing \cup {NoPub}]
           /\ pub'[p] # NoPub /\ pub'[p].pc = l /\ pub'[p].change = pub[p].change
           /\ \A q \in Publishers : q # p => pub'[q] = pub[q]
<1>1. pub[p] \in [pc : {"coalesce", "id", "append"}, change : Nat] /\ pub \in [Publishers -> Publishing \cup {NoPub}]
  BY PubIs DEF StreamTypes
<1>2. /\ [pub[p] EXCEPT !.pc = l] \in [pc : {"coalesce", "id", "append"}, change : Nat]
      /\ [pub[p] EXCEPT !.pc = l].pc = l /\ [pub[p] EXCEPT !.pc = l].change = pub[p].change
  BY <1>1
<1>3. [pub[p] EXCEPT !.pc = l] \in Publishing
  BY <1>2 DEF Publishing
<1>4. pub' = [pub EXCEPT ![p] = [pub[p] EXCEPT !.pc = l]]
  OBVIOUS
<1>5. pub'[p] = [pub[p] EXCEPT !.pc = l] /\ \A q \in Publishers : q # p => pub'[q] = pub[q]
  BY <1>1, <1>4
<1>6. pub' \in [Publishers -> Publishing \cup {NoPub}]
  BY <1>1, <1>3, <1>4
<1> QED
  BY <1>2, <1>3, <1>5, <1>6, NoPubAssumption

LEMMA CoalesceStreamInv ==
    ASSUME StreamInv, NEW p \in Publishers, NEW hint \in BOOLEAN, Coalesce(p, hint)
    PROVE  StreamInv'
<1>0. /\ pub[p] # NoPub /\ pub[p].pc = "coalesce"
      /\ UNCHANGED <<commits, nextId, ring, conn, cur, streaming, cursor, epoch, known, idOf>>
  BY DEF Coalesce
<1>1. StreamTypes /\ IdInv
  BY DEF StreamInv
<1>2. \/ pub' = [pub EXCEPT ![p] = NoPub] /\ excused' = excused \cup {pub[p].change} /\ window' = window
      \/ pub' = [pub EXCEPT ![p].pc = "id"] /\ window' = (window \/ hint) /\ excused' = excused
  BY DEF Coalesce
<1>3. pub[p].change \in 1..commits /\ idOf[pub[p].change] = 0
  BY <1>0, <1>1 DEF IdInv
<1>4. /\ pub' \in [Publishers -> Publishing \cup {NoPub}]
      /\ pub'[p] # NoPub => pub'[p].pc = "id" /\ pub'[p].change = pub[p].change
      /\ \A q \in Publishers : q # p => pub'[q] = pub[q]
  <2>1. CASE pub' = [pub EXCEPT ![p] = NoPub]
    BY <1>1, <2>1 DEF StreamTypes
  <2>2. CASE pub' = [pub EXCEPT ![p].pc = "id"]
    BY <1>0, <1>1, <2>2, PubStep
  <2> QED
    BY <1>2, <2>1, <2>2
<1>5. excused \subseteq excused' /\ excused' \subseteq 1..commits
  BY <1>1, <1>2, <1>3 DEF StreamTypes
<1>6. window' \in BOOLEAN
  <2>1. window \in BOOLEAN
    BY <1>1 DEF StreamTypes
  <2> QED
    BY <1>2, <2>1
<1>7. StreamTypes'
  BY <1>0, <1>1, <1>4, <1>5, <1>6 DEF StreamTypes
<1>8. IdInv'
  <2>1. ASSUME NEW q \in Publishers, pub'[q] # NoPub
        PROVE  /\ pub[q] # NoPub /\ pub'[q].change = pub[q].change
               /\ pub'[q].pc \in {"coalesce", "id"} <=> pub[q].pc \in {"coalesce", "id"}
    BY <1>0, <1>4, <2>1
  <2> QED
    BY <1>0, <1>1, <2>1 DEF IdInv
<1>9. Appended' = Appended
  <2>1. ASSUME NEW c
        PROVE  (\E q \in Publishers : pub'[q] # NoPub /\ pub'[q].change = c /\ pub'[q].pc = "append")
               <=> (\E q \in Publishers : pub[q] # NoPub /\ pub[q].change = c /\ pub[q].pc = "append")
    BY <1>0, <1>4
  <2>2. \A c \in 1..commits : c \in Appended' <=> c \in Appended
    BY <1>0, <2>1 DEF Appended
  <2>3. Appended' \subseteq 1..commits /\ Appended \subseteq 1..commits
    BY <1>0 DEF Appended
  <2> QED
    BY <2>2, <2>3
<1>10. \A i, c : Sending(pub, i, c) => Sending(pub', i, c)
  BY <1>0, <1>4 DEF Sending
<1>11. /\ commits <= commits' /\ nextId <= nextId'
       /\ \A c \in 1..commits : c \in DOMAIN idOf'
       /\ \A c \in 1..commits' : IF c \in 1..commits /\ idOf[c] # 0 THEN idOf'[c] = idOf[c]
                                 ELSE idOf'[c] = 0 \/ idOf'[c] > nextId
  BY <1>0, <1>1 DEF StreamTypes
<1> QED
  BY <1>0, <1>5, <1>7, <1>8, <1>9, <1>10, <1>11, QuietStep

LEMMA AllocateStreamInv ==
    ASSUME StreamInv, NEW p \in Publishers, AllocateId(p)
    PROVE  StreamInv'
<1> DEFINE chg == pub[p].change
<1>0. /\ pub[p] # NoPub /\ pub[p].pc = "id" /\ nextId' = nextId + 1
      /\ idOf' = [idOf EXCEPT ![chg] = nextId + 1] /\ pub' = [pub EXCEPT ![p].pc = "append"]
      /\ UNCHANGED <<commits, ring, window, conn, cur, streaming, cursor, epoch, known, excused>>
  BY DEF AllocateId
<1>1. StreamTypes /\ IdInv
  BY DEF StreamInv
<1>2. chg \in 1..commits /\ idOf[chg] = 0
  BY <1>0, <1>1 DEF IdInv
<1>3. /\ pub' \in [Publishers -> Publishing \cup {NoPub}]
      /\ pub'[p] # NoPub /\ pub'[p].pc = "append" /\ pub'[p].change = chg
      /\ \A q \in Publishers : q # p => pub'[q] = pub[q]
  BY <1>0, <1>1, PubStep
<1>4. nextId \in Nat /\ commits \in Nat /\ idOf \in [1..commits -> Nat]
  BY <1>1 DEF StreamTypes
<1>5. /\ idOf' \in [1..commits -> Nat] /\ idOf'[chg] = nextId + 1
      /\ \A c \in 1..commits : c # chg => idOf'[c] = idOf[c]
  BY <1>0, <1>2, <1>4
<1>a. \A q \in Publishers : q # p /\ pub[q] # NoPub => pub[q].change # chg
  BY <1>0, <1>1, SMTT(20) DEF IdInv
<1> HIDE DEF chg
<1>6. StreamTypes'
  BY <1>0, <1>1, <1>3, <1>4, <1>5 DEF StreamTypes
<1>7. \A c \in 1..commits : idOf[c] <= nextId
  BY <1>1 DEF IdInv
<1>8. IdInv'
  <2>1. ASSUME NEW c \in 1..commits PROVE idOf'[c] <= nextId + 1
    <3>1. CASE c = chg
      BY <1>4, <1>5, <3>1
    <3>2. CASE c # chg
      <4>1. idOf'[c] = idOf[c] /\ idOf[c] <= nextId /\ idOf[c] \in Nat
        BY <1>4, <1>5, <1>7, <3>2
      <4> QED
        BY <1>4, <4>1
    <3> QED
      BY <3>1, <3>2
  <2>2. \A c, d \in 1..commits : idOf'[c] = idOf'[d] /\ idOf'[c] # 0 => c = d
    <3>1. ASSUME NEW c \in 1..commits, NEW d \in 1..commits, idOf'[c] = idOf'[d], idOf'[c] # 0
          PROVE  c = d
      <4>1. CASE c = chg \/ d = chg
        BY <1>4, <1>5, <1>7, <3>1, <4>1
      <4>2. CASE c # chg /\ d # chg
        BY <1>1, <1>5, <3>1, <4>2 DEF IdInv
      <4> QED
        BY <4>1, <4>2
    <3> QED
      BY <3>1
  <2>3. ASSUME NEW q \in Publishers, pub'[q] # NoPub
        PROVE  /\ pub[q] # NoPub /\ pub'[q].change = pub[q].change
               /\ pub'[q].change \in 1..commits
               /\ pub'[q].pc \in {"coalesce", "id"} <=> idOf'[pub'[q].change] = 0
    <3>1. CASE q = p
      BY <1>0, <1>2, <1>3, <1>4, <1>5, <3>1 DEF chg
    <3>2. CASE q # p
      BY <1>1, <1>3, <1>5, <1>a, <2>3, <3>2 DEF IdInv
    <3> QED
      BY <3>1, <3>2
  <2> QED
    BY <1>0, <1>1, <2>1, <2>2, <2>3 DEF IdInv
<1>9. Appended' = Appended
  <2>1. chg \notin Appended /\ chg \notin Appended'
    BY <1>0, <1>2, <1>3 DEF Appended
  <2>2. ASSUME NEW c \in 1..commits, c # chg
        PROVE  (\E q \in Publishers : pub'[q] # NoPub /\ pub'[q].change = c /\ pub'[q].pc = "append")
               <=> (\E q \in Publishers : pub[q] # NoPub /\ pub[q].change = c /\ pub[q].pc = "append")
    BY <1>0, <1>3, <2>2 DEF chg
  <2>3. \A c \in 1..commits : c # chg => (c \in Appended' <=> c \in Appended)
    BY <1>0, <1>5, <2>2 DEF Appended
  <2>4. Appended' \subseteq 1..commits /\ Appended \subseteq 1..commits
    BY <1>0 DEF Appended
  <2>5. \A c \in 1..commits : c \in Appended' <=> c \in Appended
    BY <2>1, <2>3
  <2> QED
    BY <2>4, <2>5
<1>10. \A i, c : Sending(pub, i, c) => Sending(pub', i, c)
  BY <1>0, <1>3 DEF Sending
<1>11. commits <= commits' /\ nextId <= nextId' /\ excused \subseteq excused' /\ \A c \in 1..commits : c \in DOMAIN idOf'
  BY <1>0, <1>4, <1>5
<1>12. \A c \in 1..commits' : IF c \in 1..commits /\ idOf[c] # 0 THEN idOf'[c] = idOf[c]
                              ELSE idOf'[c] = 0 \/ idOf'[c] > nextId
  <2>1. ASSUME NEW c \in 1..commits
        PROVE  IF idOf[c] # 0 THEN idOf'[c] = idOf[c] ELSE idOf'[c] = 0 \/ idOf'[c] > nextId
    <3>1. CASE c = chg
      BY <1>2, <1>4, <1>5, <3>1
    <3>2. CASE c # chg
      BY <1>5, <3>2
    <3> QED
      BY <3>1, <3>2
  <2> QED
    BY <1>0, <2>1
<1> QED
  BY <1>0, <1>6, <1>8, <1>9, <1>10, <1>11, <1>12, QuietStep

\* What appendRingLocked leaves in the ring: the new frame, and all but perhaps the oldest.
LEMMA KeptIs ==
    ASSUME NEW s \in Seq(Frames), NEW f \in Frames
    PROVE  LET full == Append(s, f)
               kept == IF Len(full) > RingSize THEN Tail(full) ELSE full IN
           /\ kept \in Seq(Frames) /\ kept # <<>> /\ FrameIn(f.change, kept)
           /\ \A i \in DOMAIN kept : kept[i] = f \/ \E j \in DOMAIN s : kept[i] = s[j]
           /\ 1 \in DOMAIN kept /\ Head(kept) = kept[1]
<1> DEFINE full == Append(s, f)
           m == Len(s)
<1>1. /\ full \in Seq(Frames) /\ m \in Nat /\ Len(full) = m + 1
      /\ DOMAIN s = 1..m /\ DOMAIN full = 1..(m + 1)
      /\ full[m + 1] = f /\ \A i \in DOMAIN s : full[i] = s[i]
  BY AppendIs
<1> HIDE DEF full, m
<1>2. full # <<>>
  BY <1>1
<1>3. \A i \in DOMAIN full : full[i] = f \/ \E j \in DOMAIN s : full[i] = s[j]
  <2>1. ASSUME NEW i \in DOMAIN full PROVE full[i] = f \/ i \in DOMAIN s
    BY <1>1
  <2> QED
    BY <1>1, <2>1
<1> DEFINE rest == Tail(full)
<1>4. /\ Head(full) = full[1] /\ 1 \in DOMAIN full
      /\ rest \in Seq(Frames) /\ Len(rest) = m /\ DOMAIN rest = 1..m
      /\ \A i \in DOMAIN rest : rest[i] = full[i + 1] /\ i + 1 \in DOMAIN full
  <2>1. /\ Head(full) = full[1] /\ full[1] \in Frames /\ 1 \in DOMAIN full
        /\ rest \in Seq(Frames) /\ Len(rest) = Len(full) - 1 /\ Len(full) \in Nat \ {0}
        /\ DOMAIN rest = 1..(Len(full) - 1)
        /\ \A i \in DOMAIN rest : rest[i] = full[i + 1] /\ i + 1 \in DOMAIN full
    BY <1>1, <1>2, TailIs
  <2> HIDE DEF rest
  <2>2. Len(full) - 1 = m
    BY <1>1
  <2> QED
    BY <2>1, <2>2
<1> HIDE DEF rest
<1>5. CASE Len(full) > RingSize
  <2>1. m \in DOMAIN rest /\ rest[m] = f /\ 1 \in DOMAIN rest
    BY <1>1, <1>4, <1>5, SizesAssumption
  <2>2. rest # <<>> /\ Head(rest) = rest[1]
    BY <1>4, <2>1
  <2>3. \A i \in DOMAIN rest : rest[i] = f \/ \E j \in DOMAIN s : rest[i] = s[j]
    BY <1>3, <1>4
  <2>4. FrameIn(f.change, rest)
    BY <2>1 DEF FrameIn
  <2> QED
    BY <1>4, <1>5, <2>1, <2>2, <2>3, <2>4 DEF rest, full
<1>6. CASE ~(Len(full) > RingSize)
  <2>1. m + 1 \in DOMAIN full
    BY <1>1
  <2>2. FrameIn(f.change, full)
    BY <1>1, <2>1 DEF FrameIn
  <2> QED
    BY <1>1, <1>2, <1>3, <1>4, <1>6, <2>2 DEF full
<1> QED
  BY <1>5, <1>6

LEMMA AppendStreamInv ==
    ASSUME StreamInv, NEW p \in Publishers, AppendRing(p)
    PROVE  StreamInv'
<1> DEFINE chg == pub[p].change
           f == [id |-> idOf[chg], change |-> chg]
           full == Append(ring, f)
           kept == IF Len(full) > RingSize THEN Tail(full) ELSE full
           to == {i \in DOMAIN conn : conn[i].registered}
           new == [pc |-> "send", change |-> chg, to |-> to]
<1>0. /\ pub[p] # NoPub /\ pub[p].pc = "append"
      /\ ring' = kept
      /\ excused' = excused \cup {c \in Appended : idOf[c] > Head(kept).id /\ ~FrameIn(c, kept)}
      /\ pub' = [pub EXCEPT ![p] = new]
      /\ UNCHANGED <<commits, nextId, window, conn, cur, streaming, cursor, epoch, known, idOf>>
  BY DEF AppendRing
<1>1. StreamTypes /\ IdInv
  BY DEF StreamInv
<1>2. /\ ring \in Seq(Frames) /\ commits \in Nat /\ idOf \in [1..commits -> Nat]
      /\ pub \in [Publishers -> Publishing \cup {NoPub}] /\ conn \in [1..MaxConns -> Subscribers]
  BY <1>1 DEF StreamTypes
<1>3. chg \in 1..commits /\ idOf[chg] # 0 /\ idOf[chg] \in Nat
  BY <1>0, <1>1, <1>2 DEF IdInv
<1>4. f \in Frames /\ f.change = chg /\ f.id = idOf[chg]
  BY <1>2, <1>3 DEF Frames
<1>5. to \subseteq 1..MaxConns /\ (\A i \in 1..MaxConns : i \in to <=> conn[i].registered)
  BY <1>2
<1>a. \A q \in Publishers : q # p /\ pub[q] # NoPub => pub[q].change # chg
  BY <1>0, <1>1, SMTT(20) DEF IdInv
<1>b. chg = pub[p].change
  OBVIOUS
<1> HIDE DEF chg, f, to
<1>6. new \in Publishing /\ new # NoPub /\ new.pc = "send" /\ new.change = chg /\ new.to = to
  <2>1. new \in Publishing
    BY <1>2, <1>3, <1>5 DEF Publishing
  <2> QED
    BY <2>1, NoPubAssumption
<1> HIDE DEF new
<1>7. /\ pub' \in [Publishers -> Publishing \cup {NoPub}] /\ pub'[p] = new
      /\ \A q \in Publishers : q # p => pub'[q] = pub[q]
  BY <1>0, <1>2, <1>6
<1>8. /\ kept \in Seq(Frames) /\ kept # <<>> /\ FrameIn(chg, kept)
      /\ \A i \in DOMAIN kept : kept[i] = f \/ \E j \in DOMAIN ring : kept[i] = ring[j]
      /\ 1 \in DOMAIN kept /\ Head(kept) = kept[1]
  BY <1>2, <1>4, KeptIs
<1> HIDE DEF kept
<1>9. AllFrames(kept, commits, idOf)
  <2>1. IsFrame(f, commits, idOf)
    BY <1>3, <1>4 DEF IsFrame
  <2>2. AllFrames(ring, commits, idOf)
    BY DEF StreamInv, FrameInv
  <2> QED
    BY <1>8, <2>1, <2>2 DEF AllFrames
<1>10. /\ excused \subseteq excused' /\ excused' \subseteq 1..commits
       /\ \A c \in Appended : idOf[c] > Head(kept).id => FrameIn(c, kept) \/ c \in excused'
  BY <1>0, <1>1 DEF StreamTypes, Appended
<1>11. StreamTypes'
  BY <1>0, <1>1, <1>7, <1>8, <1>10 DEF StreamTypes
<1>12. IdInv'
  <2>1. ASSUME NEW q \in Publishers, pub'[q] # NoPub
        PROVE  /\ pub[q] # NoPub /\ pub'[q].change = pub[q].change
               /\ pub'[q].pc \in {"coalesce", "id"} <=> pub[q].pc \in {"coalesce", "id"}
    BY <1>0, <1>6, <1>7, <1>b, <2>1
  <2> QED
    BY <1>0, <1>1, <2>1 DEF IdInv
<1>13. FrameInv'
  BY <1>0, <1>9 DEF StreamInv, FrameInv
<1>14. CursorInv'
  BY <1>0, <1>10 DEF StreamInv, CursorInv, BlindCursor
<1>15. \A c \in Appended' : c \in 1..commits /\ idOf[c] > 0 /\ (c = chg \/ c \in Appended)
  <2>1. ASSUME NEW c \in Appended', c # chg PROVE c \in Appended
    <3>1. ~ \E q \in Publishers : pub[q] # NoPub /\ pub[q].change = c /\ pub[q].pc = "append"
      BY <1>0, <1>7, <1>b, <2>1 DEF Appended
    <3> QED
      BY <1>0, <2>1, <3>1 DEF Appended
  <2> QED
    BY <1>0, <2>1 DEF Appended
<1>16. RingInv'
  <2>1. ASSUME NEW c \in Appended'
        PROVE  c \in excused' \/ FrameIn(c, kept) \/ idOf[c] < Head(kept).id
    <3>1. CASE c = chg
      BY <1>8, <3>1
    <3>2. CASE c \in Appended
      <4>1. Head(kept).id \in Nat /\ IsFrame(Head(kept), commits, idOf) /\ idOf[c] \in Nat /\ c \in 1..commits /\ idOf[c] # 0
        <5>1. kept[1] \in Frames /\ IsFrame(kept[1], commits, idOf)
          BY <1>8, <1>9 DEF AllFrames
        <5>2. c \in 1..commits /\ idOf[c] > 0
          BY <1>15
        <5> QED
          BY <1>2, <1>8, <5>1, <5>2 DEF Frames
      <4>2. CASE idOf[c] > Head(kept).id
        BY <1>10, <3>2, <4>2
      <4>3. CASE idOf[c] = Head(kept).id
        <5>1. c = Head(kept).change
          BY <1>1, <4>1, <4>3 DEF IdInv, IsFrame
        <5> QED
          BY <1>8, <5>1 DEF FrameIn
      <4> QED
        BY <4>1, <4>2, <4>3
    <3> QED
      BY <1>15, <3>1, <3>2
  <2> QED
    BY <1>0, <1>8, <2>1 DEF RingInv
<1>17. WireInv'
  <2>1. ASSUME streaming, NEW c \in Appended'
        PROVE  c \in known \cup excused' \/ OnWire(conn[cur], pub', cur, c)
    <3>0. cur \in 1..MaxConns
      BY <1>1, <2>1, SizesAssumption DEF StreamTypes
    <3>1. CASE c = chg
      <4>1. conn[cur].registered \/ conn[cur].evicted
        BY <2>1 DEF StreamInv, FrameInv, ConnInv
      <4>2. conn[cur].registered => Sending(pub', cur, c)
        BY <1>5, <1>6, <1>7, <3>0, <3>1 DEF Sending
      <4> QED
        BY <4>1, <4>2 DEF OnWire
    <3>2. CASE c \in Appended
      <4>1. Sending(pub, cur, c) => Sending(pub', cur, c)
        BY <1>0, <1>7 DEF Sending
      <4> QED
        BY <1>10, <2>1, <3>2, <4>1 DEF StreamInv, WireInv, OnWire
    <3> QED
      BY <1>15, <3>1, <3>2
  <2> QED
    BY <1>0, <2>1 DEF WireInv
<1> QED
  BY <1>11, <1>12, <1>13, <1>14, <1>16, <1>17 DEF StreamInv

\* One subscriber of the copy less: the goroutine sends to the others, or returns.
LEMMA SentIs ==
    ASSUME StreamTypes, NEW p \in Publishers, pub[p] # NoPub, pub[p].pc = "send",
           NEW to \in SUBSET (1..MaxConns), Sent(p, to)
    PROVE  /\ pub' \in [Publishers -> Publishing \cup {NoPub}]
           /\ to = {} => pub'[p] = NoPub
           /\ to # {} => /\ pub'[p] # NoPub /\ pub'[p].pc = "send" /\ pub'[p].change = pub[p].change
                         /\ pub'[p].to = to
           /\ \A q \in Publishers : q # p => pub'[q] = pub[q]
<1>1. /\ pub[p] \in [pc : {"send"}, change : Nat, to : SUBSET (1..MaxConns)]
      /\ pub \in [Publishers -> Publishing \cup {NoPub}]
  BY PubIs DEF StreamTypes
<1>2. /\ [pub[p] EXCEPT !.to = to] \in [pc : {"send"}, change : Nat, to : SUBSET (1..MaxConns)]
      /\ [pub[p] EXCEPT !.to = to].change = pub[p].change /\ [pub[p] EXCEPT !.to = to].pc = "send"
      /\ [pub[p] EXCEPT !.to = to].to = to
  BY <1>1
<1>3. [pub[p] EXCEPT !.to = to] \in Publishing
  BY <1>2 DEF Publishing
<1>4. pub' = [pub EXCEPT ![p] = IF to = {} THEN NoPub ELSE [pub[p] EXCEPT !.to = to]]
  BY DEF Sent
<1>5. /\ pub'[p] = IF to = {} THEN NoPub ELSE [pub[p] EXCEPT !.to = to]
      /\ \A q \in Publishers : q # p => pub'[q] = pub[q]
  BY <1>1, <1>4
<1>6. pub' \in [Publishers -> Publishing \cup {NoPub}]
  BY <1>1, <1>3, <1>4
<1> QED
  BY <1>2, <1>3, <1>5, <1>6, NoPubAssumption

LEMMA ServedIs ==
    ASSUME StreamTypes, streaming
    PROVE  /\ cur \in 1..MaxConns /\ conn \in [1..MaxConns -> Subscribers] /\ conn[cur] \in Subscribers
           /\ idOf \in [1..commits -> Nat] /\ commits \in Nat
<1>1. cur \in 1..MaxConns /\ conn \in [1..MaxConns -> Subscribers]
  BY SizesAssumption DEF StreamTypes
<1>2. idOf \in [1..commits -> Nat] /\ commits \in Nat
  BY DEF StreamTypes
<1> QED
  BY <1>1, <1>2

\* What becomes of the subscriber that is sent to.
LEMMA DeliveredIs ==
    ASSUME StreamTypes, FrameInv, streaming, NEW p \in Publishers, pub[p] # NoPub, pub[p].pc = "send",
           IsFrame([id |-> idOf[pub[p].change], change |-> pub[p].change], commits, idOf),
           conn' = IF Len(conn[cur].buf) < SubBuf
                   THEN [conn EXCEPT ![cur].buf = Append(@, [id |-> idOf[pub[p].change], change |-> pub[p].change])]
                   ELSE IF conn[cur].registered
                   THEN [conn EXCEPT ![cur].registered = FALSE, ![cur].evicted = TRUE]
                   ELSE conn
    PROVE  /\ conn' \in [1..MaxConns -> Subscribers] /\ ConnInv(conn'[cur], commits, idOf)
           /\ conn'[cur].evicted \/ FrameIn(pub[p].change, conn'[cur].buf)
           /\ conn[cur].evicted => conn'[cur].evicted
           /\ conn'[cur].todo = conn[cur].todo
           /\ \A c : FrameIn(c, conn[cur].buf) => FrameIn(c, conn'[cur].buf)
<1> DEFINE f == [id |-> idOf[pub[p].change], change |-> pub[p].change]
           sub == conn[cur]
<1>0. /\ cur \in 1..MaxConns /\ conn \in [1..MaxConns -> Subscribers] /\ sub \in Subscribers
      /\ idOf \in [1..commits -> Nat] /\ commits \in Nat
  BY ServedIs
<1>1. /\ sub.buf \in Seq(Frames) /\ sub.todo \in Seq(Frames)
      /\ sub.registered \in BOOLEAN /\ sub.evicted \in BOOLEAN
  BY <1>0 DEF Subscribers
<1>2. ConnInv(sub, commits, idOf)
  BY DEF FrameInv
<1>3. f \in Frames /\ IsFrame(f, commits, idOf) /\ f.change = pub[p].change
  BY <1>0 DEF IsFrame, Frames
<1>4. CASE Len(sub.buf) < SubBuf
  <2> DEFINE t == Append(sub.buf, f)
  <2>1. /\ t \in Seq(Frames) /\ Len(sub.buf) \in Nat
        /\ DOMAIN sub.buf = 1..Len(sub.buf) /\ DOMAIN t = 1..(Len(sub.buf) + 1)
        /\ t[Len(sub.buf) + 1] = f /\ \A i \in DOMAIN sub.buf : t[i] = sub.buf[i]
    <3>1. PICK u \in Seq(Frames) : u = sub.buf
      BY <1>1
    <3> QED
      BY <1>3, <3>1, AppendIs
  <2>2. conn' = [conn EXCEPT ![cur] = [sub EXCEPT !.buf = t]]
    BY <1>4
  <2> HIDE DEF t, f
  <2>3. /\ [sub EXCEPT !.buf = t] \in Subscribers /\ [sub EXCEPT !.buf = t].buf = t
        /\ [sub EXCEPT !.buf = t].todo = sub.todo /\ [sub EXCEPT !.buf = t].registered = sub.registered
        /\ [sub EXCEPT !.buf = t].evicted = sub.evicted
    BY <1>0, <2>1 DEF Subscribers
  <2>4. conn' \in [1..MaxConns -> Subscribers] /\ conn'[cur] = [sub EXCEPT !.buf = t]
    BY <1>0, <2>2, <2>3
  <2>5. \A c : FrameIn(c, sub.buf) => FrameIn(c, t)
    BY <2>1 DEF FrameIn
  <2>6. Len(sub.buf) + 1 \in DOMAIN t
    BY <2>1
  <2>7. FrameIn(pub[p].change, t)
    BY <1>3, <2>1, <2>6 DEF FrameIn
  <2>8. AllFrames(t, commits, idOf)
    <3>1. ASSUME NEW i \in DOMAIN t PROVE i \in DOMAIN sub.buf \/ t[i] = f
      BY <2>1
    <3> QED
      BY <1>2, <1>3, <2>1, <3>1 DEF ConnInv, AllFrames
  <2> HIDE DEF sub
  <2>9. ConnInv(conn'[cur], commits, idOf)
    BY <1>2, <2>3, <2>4, <2>8 DEF ConnInv
  <2> QED
    BY <2>3, <2>4, <2>5, <2>7, <2>9 DEF sub
<1>5. CASE ~(Len(sub.buf) < SubBuf) /\ sub.registered
  <2> DEFINE new == [sub EXCEPT !.registered = FALSE, !.evicted = TRUE]
  <2>1. conn' = [conn EXCEPT ![cur] = new]
    BY <1>0, <1>5
  <2>2. new \in Subscribers /\ new.buf = sub.buf /\ new.todo = sub.todo /\ new.evicted
    BY <1>0 DEF Subscribers
  <2> HIDE DEF new
  <2>3. conn' \in [1..MaxConns -> Subscribers] /\ conn'[cur] = new
    BY <1>0, <2>1, <2>2
  <2> HIDE DEF sub
  <2>4. ConnInv(conn'[cur], commits, idOf)
    BY <1>2, <2>2, <2>3 DEF ConnInv
  <2> QED
    BY <2>2, <2>3, <2>4 DEF sub
<1>6. CASE ~(Len(sub.buf) < SubBuf) /\ ~sub.registered
  BY <1>0, <1>2, <1>6 DEF ConnInv
<1> QED
  BY <1>4, <1>5, <1>6

LEMMA SendStreamInv ==
    ASSUME StreamInv, NEW p \in Publishers, Send(p)
    PROVE  StreamInv'
<1> DEFINE chg == pub[p].change
<1>0. /\ pub[p] # NoPub /\ pub[p].pc = "send"
      /\ UNCHANGED <<commits, nextId, ring, window, cur, streaming, cursor, epoch, known, idOf, excused>>
  BY DEF Send
<1>1. StreamTypes /\ IdInv /\ FrameInv /\ (streaming => cur \in 1..MaxConns)
  BY SizesAssumption DEF StreamInv, StreamTypes
<1>2. pub[p].to \subseteq 1..MaxConns
  BY <1>0, <1>1, PubIs
<1>3. IsFrame([id |-> idOf[chg], change |-> chg], commits, idOf)
  BY <1>0, <1>1 DEF IdInv, IsFrame
<1>4. /\ pub' \in [Publishers -> Publishing \cup {NoPub}]
      /\ pub'[p] # NoPub => pub'[p].pc = "send" /\ pub'[p].change = chg
      /\ \A q \in Publishers : q # p => pub'[q] = pub[q]
      /\ conn' \in [1..MaxConns -> Subscribers]
      /\ streaming => /\ ConnInv(conn'[cur], commits, idOf)
                      /\ \A c \in Appended : OnWire(conn[cur], pub, cur, c) => OnWire(conn'[cur], pub', cur, c)
  <2>1. CASE pub[p].to = {} /\ Sent(p, {}) /\ UNCHANGED conn
    <3>1. /\ pub' \in [Publishers -> Publishing \cup {NoPub}] /\ pub'[p] = NoPub
          /\ \A q \in Publishers : q # p => pub'[q] = pub[q]
      BY <1>0, <1>1, <2>1, SentIs
    <3>2. \A i, c : Sending(pub, i, c) => Sending(pub', i, c)
      BY <2>1, <3>1 DEF Sending
    <3> QED
      BY <1>1, <2>1, <3>1, <3>2 DEF OnWire, FrameInv, StreamTypes
  <2>2. ASSUME NEW i \in pub[p].to,
               conn' = IF ~Served(i) THEN conn
                       ELSE IF Len(conn[i].buf) < SubBuf
                       THEN [conn EXCEPT ![i].buf = Append(@, [id |-> idOf[pub[p].change], change |-> pub[p].change])]
                       ELSE IF conn[i].registered
                       THEN [conn EXCEPT ![i].registered = FALSE, ![i].evicted = TRUE]
                       ELSE conn,
               Sent(p, pub[p].to \ {i})
        PROVE  <1>4!1 /\ <1>4!2 /\ <1>4!3 /\ <1>4!4 /\ <1>4!5
    <3>1. PICK left \in SUBSET (1..MaxConns) : left = pub[p].to \ {i}
      BY <1>2
    <3>2. /\ pub' \in [Publishers -> Publishing \cup {NoPub}]
          /\ left = {} => pub'[p] = NoPub
          /\ left # {} => /\ pub'[p] # NoPub /\ pub'[p].pc = "send" /\ pub'[p].change = chg
                          /\ pub'[p].to = left
          /\ \A q \in Publishers : q # p => pub'[q] = pub[q]
      BY <1>0, <1>1, <2>2, <3>1, SentIs
    <3> HIDE DEF chg
    <3>3. \A j, c : Sending(pub, j, c) => Sending(pub', j, c) \/ (j = i /\ c = chg)
      <4>1. ASSUME NEW j, NEW c, NEW q \in Publishers,
                   pub[q] # NoPub, pub[q].pc = "send", pub[q].change = c, j \in pub[q].to
            PROVE  Sending(pub', j, c) \/ (j = i /\ c = chg)
        <5>1. CASE q # p
          BY <3>2, <4>1, <5>1 DEF Sending
        <5>2. CASE q = p /\ j # i
          <6>1. j \in left
            BY <3>1, <4>1, <5>2
          <6> QED
            BY <3>2, <4>1, <5>2, <6>1 DEF Sending, chg
        <5>3. CASE q = p /\ j = i
          BY <4>1, <5>3 DEF chg
        <5> QED
          BY <5>1, <5>2, <5>3
      <4> QED
        BY <4>1 DEF Sending
    <3>4. CASE ~Served(i)
      <4>1. conn' = conn /\ (streaming => i # cur)
        BY <2>2, <3>4 DEF Served
      <4> QED
        BY <1>1, <3>2, <3>3, <4>1 DEF OnWire, FrameInv, StreamTypes
    <3>5. CASE Served(i)
      <4>1. streaming /\ i = cur
        BY <3>5 DEF Served
      <4>2. /\ conn' \in [1..MaxConns -> Subscribers] /\ ConnInv(conn'[cur], commits, idOf)
            /\ conn'[cur].evicted \/ FrameIn(chg, conn'[cur].buf)
            /\ conn[cur].evicted => conn'[cur].evicted
            /\ conn'[cur].todo = conn[cur].todo
            /\ \A c : FrameIn(c, conn[cur].buf) => FrameIn(c, conn'[cur].buf)
        BY <1>0, <1>1, <1>3, <2>2, <3>5, <4>1, DeliveredIs DEF chg
      <4> QED
        BY <3>2, <3>3, <4>1, <4>2 DEF OnWire
    <3> QED
      BY <3>4, <3>5
  <2> QED
    BY <2>1, <2>2 DEF Send
<1>5. StreamTypes'
  BY <1>0, <1>1, <1>4 DEF StreamTypes
<1>6. IdInv'
  <2>1. ASSUME NEW q \in Publishers, pub'[q] # NoPub
        PROVE  /\ pub[q] # NoPub /\ pub'[q].change = pub[q].change /\ pub'[q].pc = pub[q].pc
    BY <1>0, <1>4, <2>1
  <2> QED
    BY <1>0, <1>1, <2>1 DEF IdInv
<1>7. FrameInv'
  BY <1>0, <1>1, <1>4 DEF FrameInv
<1>8. CursorInv'
  BY <1>0 DEF StreamInv, CursorInv, BlindCursor
<1>9. Appended' = Appended
  <2>1. ASSUME NEW c
        PROVE  (\E q \in Publishers : pub'[q] # NoPub /\ pub'[q].change = c /\ pub'[q].pc = "append")
               <=> (\E q \in Publishers : pub[q] # NoPub /\ pub[q].change = c /\ pub[q].pc = "append")
    BY <1>0, <1>4
  <2>2. \A c \in 1..commits : c \in Appended' <=> c \in Appended
    BY <1>0, <2>1 DEF Appended
  <2>3. Appended' \subseteq 1..commits /\ Appended \subseteq 1..commits
    BY <1>0 DEF Appended
  <2> QED
    BY <2>2, <2>3
<1>10. RingInv'
  BY <1>0, <1>9 DEF StreamInv, RingInv
<1>11. WireInv'
  BY <1>0, <1>4, <1>9 DEF StreamInv, WireInv
<1> QED
  BY <1>5, <1>6, <1>7, <1>8, <1>10, <1>11 DEF StreamInv

-----------------------------------------------------------------------------
(* The connection and the browser.                                           *)

\* What the browser does changes nothing in the hub's ring and in Publish.
LEMMA BrowserStep ==
    ASSUME StreamInv, UNCHANGED <<commits, nextId, ring, pub, idOf>>, excused \subseteq excused'
    PROVE  IdInv' /\ Appended' = Appended /\ RingInv'
<1>1. IdInv'
  BY DEF StreamInv, IdInv
<1>2. Appended' = Appended
  BY DEF Appended
<1> QED
  BY <1>1, <1>2 DEF StreamInv, RingInv

\* A frame or a resync reaches the browser.
LEMMA ReceiveIs ==
    ASSUME StreamInv, UNCHANGED <<commits, nextId, ring, pub, idOf, epoch>>, NEW g,
           Receive(g), g = Resync \/ (g \in Frames /\ IsFrame(g, commits, idOf))
    PROVE  /\ cursor' \in [id : Nat, epoch : Nat] /\ known' \subseteq 1..commits /\ excused' \subseteq 1..commits
           /\ excused \subseteq excused' /\ known \subseteq known' /\ CursorInv'
           /\ g = Resync => known' = 1..commits
           /\ g # Resync => g.change \in known'
<1>0. /\ known \subseteq 1..commits /\ excused \subseteq 1..commits /\ cursor \in [id : Nat, epoch : Nat]
      /\ idOf \in [1..commits -> Nat] /\ epoch \in Nat /\ commits \in Nat /\ nextId \in Nat
  BY DEF StreamInv, StreamTypes
<1>1. CASE g = Resync
  <2>1. known' = 1..commits /\ cursor' = cursor /\ excused' = excused
    BY <1>1 DEF Receive
  <2> QED
    BY <1>0, <1>1, <2>1 DEF StreamInv, CursorInv, BlindCursor
<1>2. CASE g # Resync
  <2>0. g \in Frames /\ g.change \in 1..commits /\ g.id # 0 /\ idOf[g.change] = g.id /\ g.id \in Nat
    BY <1>2 DEF IsFrame, Frames
  <2>1. /\ known' = known \cup {g.change} /\ cursor' = [id |-> g.id, epoch |-> epoch]
        /\ excused' = excused \cup {c \in 1..commits : idOf[c] \in 1..(g.id - 1) /\ c \notin known}
    BY <1>2 DEF Receive
  <2>2. g.id <= nextId
    BY <2>0 DEF StreamInv, IdInv
  <2>3. ASSUME NEW c \in 1..commits, idOf[c] \in 1..g.id
        PROVE  c \in known' \cup excused'
    <3>1. CASE idOf[c] = g.id
      <4>1. c = g.change
        BY <2>0, <3>1 DEF StreamInv, IdInv
      <4> QED
        BY <2>1, <4>1
    <3>2. CASE idOf[c] # g.id
      <4>1. idOf[c] \in 1..(g.id - 1)
        BY <2>0, <2>3, <3>2
      <4> QED
        BY <2>1, <4>1
    <3> QED
      BY <3>1, <3>2
  <2>4. cursor'.id = g.id /\ cursor'.epoch = epoch
    BY <2>1
  <2>5. CursorInv'
    BY <1>0, <2>2, <2>3, <2>4 DEF CursorInv
  <2> QED
    BY <1>0, <1>2, <2>0, <2>1, <2>5
<1> QED
  BY <1>1, <1>2

LEMMA SubscribeStreamInv ==
    ASSUME StreamInv, Subscribe
    PROVE  StreamInv'
<1> DEFINE todo == IF cursor.id = 0 THEN <<>> ELSE IF HasGap(cursor.id) THEN <<Resync>> ELSE Replay(cursor.id)
           new == [registered |-> TRUE, evicted |-> FALSE, buf |-> <<>>, todo |-> todo]
<1>0. /\ ~streaming /\ cur < MaxConns /\ cur' = cur + 1 /\ streaming' = TRUE
      /\ conn' = [conn EXCEPT ![cur + 1] = new]
      /\ excused' = IF BlindCursor THEN excused \cup Appended ELSE excused
      /\ UNCHANGED <<commits, nextId, ring, window, pub, cursor, epoch, known, idOf>>
  BY DEF Subscribe
<1>1. StreamTypes
  BY DEF StreamInv
<1>2. Appended \subseteq 1..commits
  BY DEF Appended
<1>3. excused \subseteq excused' /\ excused' \subseteq 1..commits
  BY <1>0, <1>1, <1>2 DEF StreamTypes
<1>4. cur + 1 \in 1..MaxConns /\ cur + 1 # 0 /\ cur + 1 \in 0..MaxConns
  BY <1>0, <1>1, SizesAssumption DEF StreamTypes
<1>5. ring \in Seq(Frames) /\ AllFrames(ring, commits, idOf)
  BY <1>1 DEF StreamInv, FrameInv, StreamTypes
<1>6. Resync \in Frames
  BY DEF Resync, Frames
<1>7. todo \in Seq(Frames) /\ ToWrite(todo, commits, idOf)
  <2>1. CASE todo = <<>>
    <3>1. DOMAIN <<>> = {} /\ <<>> \in Seq(Frames)
      OBVIOUS
    <3> QED
      BY <2>1, <3>1 DEF ToWrite
  <2>2. CASE todo = <<Resync>>
    <3>1. <<Resync>> \in Seq(Frames) /\ DOMAIN <<Resync>> = {1} /\ <<Resync>>[1] = Resync
      BY <1>6
    <3> QED
      BY <2>2, <3>1 DEF ToWrite
  <2>3. CASE todo = Replay(cursor.id)
    <3> DEFINE I == {j \in DOMAIN ring : ring[j].id > cursor.id}
    <3>1. Replay(cursor.id) = Selected(ring, I)
      BY DEF Replay
    <3> HIDE DEF I
    <3>2. /\ Selected(ring, I) \in Seq(Frames)
          /\ \A j \in DOMAIN Selected(ring, I) : \E i \in DOMAIN ring \cap I : Selected(ring, I)[j] = ring[i]
      BY <1>5, SelectedHas
    <3>3. ToWrite(Selected(ring, I), commits, idOf)
      BY <1>5, <3>2 DEF AllFrames, ToWrite
    <3> HIDE DEF todo
    <3> QED
      BY <2>3, <3>1, <3>2, <3>3
  <2>4. todo = <<>> \/ todo = <<Resync>> \/ todo = Replay(cursor.id)
    OBVIOUS
  <2> QED
    BY <2>1, <2>2, <2>3, <2>4
<1>8. \A c \in Appended : ~BlindCursor => c \in known \cup excused \/ FrameIn(0, todo) \/ FrameIn(c, todo)
  <2>1. ASSUME NEW c \in Appended, ~BlindCursor, HasGap(cursor.id) PROVE FrameIn(0, todo)
    <3>1. todo = <<Resync>>
      BY <2>1 DEF BlindCursor
    <3>2. 1 \in DOMAIN <<Resync>> /\ <<Resync>>[1] = Resync /\ Resync.change = 0
      BY DEF Resync
    <3> HIDE DEF todo
    <3> QED
      BY <3>1, <3>2 DEF FrameIn
  <2>2. ASSUME NEW c \in Appended, ~BlindCursor, ~HasGap(cursor.id)
        PROVE  c \in known \cup excused \/ FrameIn(c, todo)
    <3>1. todo = Replay(cursor.id)
      BY <2>2 DEF BlindCursor
    <3>2. c \in known \cup excused \/ FrameIn(c, Replay(cursor.id))
      BY <2>2, CursorCovers DEF StreamInv
    <3> HIDE DEF todo
    <3> QED
      BY <3>1, <3>2
  <2> QED
    BY <2>1, <2>2
<1> HIDE DEF todo
<1>9. new \in Subscribers /\ new.todo = todo /\ new.buf = <<>> /\ new.registered
  BY <1>7 DEF Subscribers
<1>10. ConnInv(new, commits, idOf)
  <2>1. DOMAIN <<>> = {}
    OBVIOUS
  <2> QED
    BY <1>7, <1>9, <2>1 DEF ConnInv, AllFrames
<1> HIDE DEF new
<1>11. conn' \in [1..MaxConns -> Subscribers] /\ conn'[cur'] = new
  BY <1>0, <1>1, <1>4, <1>9 DEF StreamTypes
<1>12. StreamTypes'
  BY <1>0, <1>1, <1>3, <1>4, <1>11 DEF StreamTypes
<1>13. IdInv' /\ Appended' = Appended /\ RingInv'
  BY <1>0, <1>3, BrowserStep
<1>14. FrameInv'
  BY <1>0, <1>5, <1>10, <1>11 DEF FrameInv
<1>15. CursorInv'
  BY <1>0, <1>3 DEF StreamInv, CursorInv, BlindCursor
<1>16. WireInv'
  <2>1. ASSUME NEW c \in Appended
        PROVE  c \in known \cup excused' \/ OnWire(new, pub', cur', c)
    BY <1>0, <1>3, <1>8, <1>9 DEF OnWire
  <2> QED
    BY <1>0, <1>11, <1>13, <2>1 DEF WireInv
<1> QED
  BY <1>12, <1>13, <1>14, <1>15, <1>16 DEF StreamInv

\* The head of what is to be written has reached the browser, the rest waits.
LEMMA WrittenIs ==
    ASSUME NEW s \in Seq(Frames), s # <<>>, NEW n, NEW ids
    PROVE  /\ Tail(s) \in Seq(Frames)
           /\ Head(s) \in Frames
           /\ AllFrames(s, n, ids) => AllFrames(Tail(s), n, ids) /\ IsFrame(Head(s), n, ids)
           /\ ToWrite(s, n, ids) => ToWrite(Tail(s), n, ids) /\ (IsFrame(Head(s), n, ids) \/ Head(s) = Resync)
           /\ \A c : FrameIn(c, s) => FrameIn(c, Tail(s)) \/ Head(s).change = c
<1> DEFINE t == Tail(s)
<1>1. /\ Head(s) = s[1] /\ s[1] \in Frames /\ 1 \in DOMAIN s
      /\ t \in Seq(Frames) /\ Len(t) = Len(s) - 1 /\ Len(s) \in Nat \ {0}
      /\ DOMAIN t = 1..(Len(s) - 1) /\ DOMAIN s = 1..Len(s)
      /\ \A i \in DOMAIN t : t[i] = s[i + 1] /\ i + 1 \in DOMAIN s
      /\ \A i \in DOMAIN s : i # 1 => i - 1 \in DOMAIN t /\ t[i - 1] = s[i]
  BY TailIs
<1> HIDE DEF t
<1>2. AllFrames(s, n, ids) => AllFrames(t, n, ids) /\ IsFrame(Head(s), n, ids)
  BY <1>1 DEF AllFrames
<1>3. ToWrite(s, n, ids) => ToWrite(t, n, ids) /\ (IsFrame(Head(s), n, ids) \/ Head(s) = Resync)
  BY <1>1 DEF ToWrite
<1>4. \A c : FrameIn(c, s) => FrameIn(c, t) \/ Head(s).change = c
  BY <1>1 DEF FrameIn
<1> QED
  BY <1>1, <1>2, <1>3, <1>4 DEF t

LEMMA WriteReplayStreamInv ==
    ASSUME StreamInv, WriteReplay
    PROVE  StreamInv'
<1> DEFINE sub == conn[cur]
           g == Head(sub.todo)
           new == [sub EXCEPT !.todo = Tail(@)]
<1>0. /\ streaming /\ sub.todo # <<>> /\ Receive(g) /\ conn' = [conn EXCEPT ![cur].todo = Tail(@)]
      /\ UNCHANGED <<commits, nextId, ring, window, pub, cur, streaming, epoch, idOf>>
  BY DEF WriteReplay
<1>1. StreamTypes /\ cur \in 1..MaxConns
  BY <1>0, SizesAssumption DEF StreamInv, StreamTypes
<1>2. sub \in Subscribers /\ conn \in [1..MaxConns -> Subscribers]
  BY <1>1 DEF StreamTypes
<1>3. sub.todo \in Seq(Frames)
  BY <1>2 DEF Subscribers
<1>4. ConnInv(sub, commits, idOf)
  BY <1>0 DEF StreamInv, FrameInv
<1> HIDE DEF sub
<1>5. /\ Tail(sub.todo) \in Seq(Frames) /\ g \in Frames /\ ToWrite(Tail(sub.todo), commits, idOf)
      /\ IsFrame(g, commits, idOf) \/ g = Resync
      /\ \A c : FrameIn(c, sub.todo) => FrameIn(c, Tail(sub.todo)) \/ g.change = c
  <2>1. PICK s \in Seq(Frames) : s = sub.todo
    BY <1>3
  <2> QED
    BY <1>0, <1>4, <2>1, WrittenIs DEF ConnInv
<1>6. /\ new \in Subscribers /\ new.todo = Tail(sub.todo) /\ new.buf = sub.buf
      /\ new.registered = sub.registered /\ new.evicted = sub.evicted
  BY <1>2, <1>5 DEF Subscribers
<1>7. conn' = [conn EXCEPT ![cur] = new]
  BY <1>0 DEF sub
<1> HIDE DEF g, new
<1>8. conn' \in [1..MaxConns -> Subscribers] /\ conn'[cur'] = new
  BY <1>0, <1>1, <1>2, <1>6, <1>7
<1>9. /\ cursor' \in [id : Nat, epoch : Nat] /\ known' \subseteq 1..commits /\ excused' \subseteq 1..commits
      /\ excused \subseteq excused' /\ known \subseteq known' /\ CursorInv'
      /\ g = Resync => known' = 1..commits
      /\ g # Resync => g.change \in known'
  BY <1>0, <1>5, ReceiveIs
<1>10. StreamTypes'
  BY <1>0, <1>1, <1>8, <1>9 DEF StreamTypes
<1>11. IdInv' /\ Appended' = Appended /\ RingInv'
  BY <1>0, <1>9, BrowserStep
<1>12. ConnInv(new, commits, idOf)
  BY <1>4, <1>5, <1>6 DEF ConnInv
<1>13. FrameInv'
  BY <1>0, <1>8, <1>12 DEF StreamInv, FrameInv
<1>14. WireInv'
  <2>1. ASSUME NEW c \in Appended
        PROVE  c \in known' \cup excused' \/ OnWire(new, pub, cur, c)
    <3>0. c \in 1..commits
      BY DEF Appended
    <3>1. CASE g = Resync
      BY <1>9, <3>0, <3>1
    <3>2. CASE g # Resync
      <4>1. g.change # 0 /\ g.change \in known'
        BY <1>5, <1>9, <3>2 DEF IsFrame
      <4>2. c \in known \cup excused \/ OnWire(sub, pub, cur, c)
        BY <1>0 DEF StreamInv, WireInv, sub
      <4> QED
        BY <1>5, <1>6, <1>9, <4>1, <4>2 DEF OnWire
    <3> QED
      BY <3>1, <3>2
  <2> QED
    BY <1>0, <1>8, <1>11, <2>1 DEF WireInv
<1> QED
  BY <1>9, <1>10, <1>11, <1>13, <1>14 DEF StreamInv

LEMMA WriteLiveStreamInv ==
    ASSUME StreamInv, WriteLive
    PROVE  StreamInv'
<1> DEFINE sub == conn[cur]
           g == Head(sub.buf)
           new == [sub EXCEPT !.buf = Tail(@)]
<1>0. /\ streaming /\ sub.buf # <<>> /\ Receive(g) /\ conn' = [conn EXCEPT ![cur].buf = Tail(@)]
      /\ UNCHANGED <<commits, nextId, ring, window, pub, cur, streaming, epoch, idOf>>
  BY DEF WriteLive
<1>1. StreamTypes /\ cur \in 1..MaxConns
  BY <1>0, SizesAssumption DEF StreamInv, StreamTypes
<1>2. sub \in Subscribers /\ conn \in [1..MaxConns -> Subscribers]
  BY <1>1 DEF StreamTypes
<1>3. sub.buf \in Seq(Frames)
  BY <1>2 DEF Subscribers
<1>4. ConnInv(sub, commits, idOf)
  BY <1>0 DEF StreamInv, FrameInv
<1> HIDE DEF sub
<1>5. /\ Tail(sub.buf) \in Seq(Frames) /\ g \in Frames /\ AllFrames(Tail(sub.buf), commits, idOf)
      /\ IsFrame(g, commits, idOf)
      /\ \A c : FrameIn(c, sub.buf) => FrameIn(c, Tail(sub.buf)) \/ g.change = c
  <2>1. PICK s \in Seq(Frames) : s = sub.buf
    BY <1>3
  <2> QED
    BY <1>0, <1>4, <2>1, WrittenIs DEF ConnInv
<1>6. /\ new \in Subscribers /\ new.buf = Tail(sub.buf) /\ new.todo = sub.todo
      /\ new.registered = sub.registered /\ new.evicted = sub.evicted
  BY <1>2, <1>5 DEF Subscribers
<1>7. conn' = [conn EXCEPT ![cur] = new]
  BY <1>0 DEF sub
<1> HIDE DEF g, new
<1>8. conn' \in [1..MaxConns -> Subscribers] /\ conn'[cur'] = new
  BY <1>0, <1>1, <1>2, <1>6, <1>7
<1>9. /\ cursor' \in [id : Nat, epoch : Nat] /\ known' \subseteq 1..commits /\ excused' \subseteq 1..commits
      /\ excused \subseteq excused' /\ known \subseteq known' /\ CursorInv'
      /\ g = Resync => known' = 1..commits
      /\ g # Resync => g.change \in known'
  BY <1>0, <1>5, ReceiveIs
<1>10. StreamTypes'
  BY <1>0, <1>1, <1>8, <1>9 DEF StreamTypes
<1>11. IdInv' /\ Appended' = Appended /\ RingInv'
  BY <1>0, <1>9, BrowserStep
<1>12. ConnInv(new, commits, idOf)
  BY <1>4, <1>5, <1>6 DEF ConnInv
<1>13. FrameInv'
  BY <1>0, <1>8, <1>12 DEF StreamInv, FrameInv
<1>14. WireInv'
  <2>1. ASSUME NEW c \in Appended
        PROVE  c \in known' \cup excused' \/ OnWire(new, pub, cur, c)
    <3>1. g # Resync
      BY <1>5 DEF IsFrame, Resync
    <3>2. c \in known \cup excused \/ OnWire(sub, pub, cur, c)
      BY <1>0 DEF StreamInv, WireInv, sub
    <3> QED
      BY <1>5, <1>6, <1>9, <3>1, <3>2 DEF OnWire
  <2> QED
    BY <1>0, <1>8, <1>11, <2>1 DEF WireInv
<1> QED
  BY <1>9, <1>10, <1>11, <1>13, <1>14 DEF StreamInv

\* The stream ends, after an eviction that was written or without it.
LEMMA EndedStreamInv ==
    ASSUME StreamInv, WriteEvicted \/ Disconnect
    PROVE  StreamInv'
<1>0. /\ streaming /\ streaming' = FALSE /\ conn' = [conn EXCEPT ![cur] = NewSubscriber]
      /\ UNCHANGED <<commits, nextId, ring, window, pub, cur, epoch, idOf>>
  BY DEF WriteEvicted, Disconnect, EndStream
<1>1. StreamTypes
  BY DEF StreamInv
<1>2. /\ cursor' \in [id : Nat, epoch : Nat] /\ known' \subseteq 1..commits /\ excused' \subseteq 1..commits
      /\ excused \subseteq excused' /\ CursorInv'
  <2>1. CASE WriteEvicted
    <3>1. Receive(Resync)
      BY <2>1 DEF WriteEvicted
    <3> QED
      BY <1>0, <3>1, ReceiveIs
  <2>2. CASE Disconnect
    BY <1>0, <1>1, <2>2 DEF Disconnect, StreamInv, CursorInv, BlindCursor, StreamTypes
  <2> QED
    BY <2>1, <2>2
<1>3. conn' \in [1..MaxConns -> Subscribers]
  <2>1. NewSubscriber \in Subscribers
    BY DEF NewSubscriber, Subscribers
  <2> QED
    BY <1>0, <1>1, <2>1 DEF StreamTypes
<1>4. StreamTypes'
  BY <1>0, <1>1, <1>2, <1>3 DEF StreamTypes
<1>5. IdInv' /\ Appended' = Appended /\ RingInv'
  BY <1>0, <1>2, BrowserStep
<1>6. FrameInv' /\ WireInv'
  BY <1>0 DEF StreamInv, FrameInv, WireInv
<1> QED
  BY <1>2, <1>4, <1>5, <1>6 DEF StreamInv

LEMMA RestartStreamInv ==
    ASSUME StreamInv, RestartHub
    PROVE  StreamInv'
<1>0. /\ epoch' = epoch + 1 /\ nextId' = 0 /\ ring' = <<>> /\ window' = FALSE
      /\ pub' = [p \in Publishers |-> NoPub] /\ conn' = [i \in 1..MaxConns |-> NewSubscriber]
      /\ streaming' = FALSE /\ idOf' = [c \in 1..commits |-> 0] /\ excused' = 1..commits
      /\ UNCHANGED <<commits, cur, cursor, known>>
  BY DEF RestartHub
<1>1. StreamTypes
  BY DEF StreamInv
<1>2. NewSubscriber \in Subscribers
  BY DEF NewSubscriber, Subscribers
<1>3. /\ conn' \in [1..MaxConns -> Subscribers] /\ pub' \in [Publishers -> Publishing \cup {NoPub}]
      /\ idOf' \in [1..commits -> Nat] /\ ring' \in Seq(Frames) /\ DOMAIN ring' = {}
  <2>1. <<>> \in Seq(Frames) /\ DOMAIN <<>> = {}
    OBVIOUS
  <2> QED
    BY <1>0, <1>2, <2>1
<1>4. StreamTypes'
  <2>1. nextId' \in Nat /\ epoch' \in Nat
    BY <1>0, <1>1 DEF StreamTypes
  <2>2. window' \in BOOLEAN /\ streaming' \in BOOLEAN /\ ~streaming'
    BY <1>0
  <2> QED
    BY <1>0, <1>1, <1>3, <2>1, <2>2 DEF StreamTypes
<1>5. \A c \in 1..commits : idOf'[c] = 0
  BY <1>0
<1>6. \A p \in Publishers : pub'[p] = NoPub
  BY <1>0
<1>7. IdInv'
  BY <1>0, <1>5, <1>6 DEF IdInv
<1>8. Appended' = {}
  BY <1>0, <1>5 DEF Appended
<1>9. BlindCursor' /\ cursor.epoch <= epoch' /\ cursor.epoch # epoch'
  <2>1. cursor.epoch \in Nat /\ epoch \in Nat /\ cursor.epoch <= epoch
    BY <1>1 DEF StreamTypes, StreamInv, CursorInv
  <2>2. cursor.epoch <= epoch' /\ cursor.epoch # epoch'
    BY <1>0, <2>1
  <2> QED
    BY <1>0, <2>2 DEF BlindCursor
<1>10. CursorInv'
  BY <1>0, <1>9 DEF CursorInv
<1>11. FrameInv'
  BY <1>0, <1>3 DEF FrameInv, AllFrames
<1>12. RingInv' /\ WireInv'
  BY <1>8 DEF RingInv, WireInv
<1> QED
  BY <1>4, <1>7, <1>10, <1>11, <1>12 DEF StreamInv

LEMMA WindowStreamInv ==
    ASSUME StreamInv, WindowPasses \/ UNCHANGED streamVars
    PROVE  StreamInv'
<1>0. UNCHANGED <<commits, nextId, ring, pub, conn, cur, streaming, cursor, epoch, known, idOf, excused>>
  BY DEF WindowPasses, streamVars
<1>1. window' \in BOOLEAN
  BY DEF WindowPasses, streamVars, StreamInv, StreamTypes
<1>2. StreamTypes'
  BY <1>0, <1>1 DEF StreamInv, StreamTypes
<1>3. IdInv' /\ Appended' = Appended /\ RingInv'
  BY <1>0, BrowserStep
<1>4. FrameInv' /\ CursorInv'
  BY <1>0 DEF StreamInv, FrameInv, CursorInv, BlindCursor
<1>5. WireInv'
  BY <1>0, <1>3 DEF StreamInv, WireInv
<1> QED
  BY <1>2, <1>3, <1>4, <1>5 DEF StreamInv

LEMMA StreamStepInv ==
    ASSUME StreamInv, StreamNext
    PROVE  StreamInv'
<1>1. CASE Subscribe
  BY <1>1, SubscribeStreamInv
<1>2. CASE WriteReplay
  BY <1>2, WriteReplayStreamInv
<1>3. CASE WriteLive
  BY <1>3, WriteLiveStreamInv
<1>4. CASE WriteEvicted \/ Disconnect
  BY <1>4, EndedStreamInv
<1>5. CASE WindowPasses
  BY <1>5, WindowStreamInv
<1>6. ASSUME NEW p \in Publishers, NEW hint \in BOOLEAN, Coalesce(p, hint) PROVE StreamInv'
  BY <1>6, CoalesceStreamInv
<1>7. ASSUME NEW p \in Publishers, AllocateId(p) PROVE StreamInv'
  BY <1>7, AllocateStreamInv
<1>8. ASSUME NEW p \in Publishers, AppendRing(p) PROVE StreamInv'
  BY <1>8, AppendStreamInv
<1>9. ASSUME NEW p \in Publishers, Send(p) PROVE StreamInv'
  BY <1>9, SendStreamInv
<1> QED
  BY <1>1, <1>2, <1>3, <1>4, <1>5, <1>6, <1>7, <1>8, <1>9 DEF StreamNext

-----------------------------------------------------------------------------
(* The edge: the two invariants side by side.                                *)

EdgeInv == StreamInv /\ IdempInv

LEMMA EdgeStepInv == EdgeInv /\ [EdgeNext]_edgeVars => EdgeInv'
<1> SUFFICES ASSUME StreamInv, IdempInv, [EdgeNext]_edgeVars PROVE StreamInv' /\ IdempInv'
  BY DEF EdgeInv
<1>1. ASSUME UNCHANGED streamVars PROVE StreamInv'
  BY <1>1, WindowStreamInv
<1>2. ASSUME UNCHANGED idempVars PROVE IdempInv'
  BY <1>2, IdempUnchanged
<1>3. ASSUME NEW c \in Requests, NEW k \in Keys, Lookup(c, k) PROVE IdempInv'
  BY <1>3, LookupIdempInv
<1>4. ASSUME NEW c \in Requests, Do(c) PROVE IdempInv'
  BY <1>4, DoIdempInv
<1>5. ASSUME NEW c \in Requests, Handle(c) PROVE StreamInv' /\ IdempInv'
  <2>1. c \in Publishers
    BY HandlersAssumption
  <2> QED
    BY <1>5, <2>1, EffectIdempInv, CommitStreamInv DEF Handle
<1>6. ASSUME NEW c \in Requests, Reply(c) PROVE StreamInv' /\ IdempInv'
  <2>1. CASE Answer(c)
    BY <1>1, <1>6, <2>1, AnswerIdempInv DEF Reply
  <2>2. ASSUME NEW size \in Sizes, NEW prune \in BOOLEAN, Settle(c, size, prune) PROVE IdempInv'
    BY <2>2, SettleIdempInv
  <2> QED
    BY <1>1, <1>6, <2>1, <2>2 DEF Reply
<1>7. CASE Expire /\ UNCHANGED streamVars
  BY <1>1, <1>7, ExpireIdempInv
<1>8. CASE StreamNext /\ UNCHANGED idempVars
  BY <1>2, <1>8, StreamStepInv
<1>9. CASE Restart
  BY <1>9, RestartStreamInv, RestartIdempInv DEF Restart
<1>10. CASE UNCHANGED edgeVars
  BY <1>1, <1>2, <1>10 DEF edgeVars
<1> QED
  BY <1>1, <1>3, <1>4, <1>5, <1>6, <1>7, <1>8, <1>9, <1>10 DEF EdgeNext

LEMMA EdgeInvHolds == EdgeSpec => []EdgeInv
<1>1. EdgeInit => EdgeInv
  BY StreamInitInv, IdempInitInv DEF EdgeInit, EdgeInv
<1> QED
  BY <1>1, EdgeStepInv, PTL DEF EdgeSpec

(* However publishers, the browser and restarts interleave, the ring, the    *)
(* buffers, the cursor, the cache and the flights stay well formed: every    *)
(* change in Publish has one goroutine and at most one id                    *)
(* (sse_hub.go, Publish; idempotency.go, ServeHTTP).                         *)
THEOREM EdgeTypes == EdgeSpec => [](StreamTypes /\ IdInv /\ IdempTypes)
<1>1. EdgeInv => StreamTypes /\ IdInv /\ IdempTypes
  BY DEF EdgeInv, StreamInv, IdempInv
<1> QED
  BY <1>1, EdgeInvHolds, PTL

(* For every size of the ring and of the buffers, any number of publishers,  *)
(* reconnections and restarts: a published change is known to the browser,   *)
(* on its way to it, or given up for one of the named reasons (Publish,      *)
(* subscribe and streamEvents).                                              *)
THEOREM LossIsAlwaysExcused == EdgeSpec => []LossIsExcused
<1>1. EdgeInv => LossIsExcused
  BY StreamLoss DEF EdgeInv
<1> QED
  BY <1>1, EdgeInvHolds, PTL

(* Through overwrites, expiry, pruning and eviction the byte count is the    *)
(* sum of the bodies held, both limits hold and each key has one entry       *)
(* (idempotencyCache.set, get and enforceLimitsLocked).                      *)
THEOREM CacheAlwaysAddsUp == EdgeSpec => []CacheAddsUp
<1>1. EdgeInv => CacheAddsUp
  <2> SUFFICES ASSUME IdempInv PROVE CacheAddsUp
    BY DEF EdgeInv
  <2>1. IdempTypes /\ CacheInv
    BY DEF IdempInv
  <2>2. cache \in Seq(Entries) /\ CacheInv
    BY <2>1 DEF IdempTypes
  <2>3. Cardinality(KeysOf(cache)) = Len(cache)
    BY <2>2, DistinctCounts DEF CacheInv
  <2> QED
    BY <2>2, <2>3 DEF CacheInv, CacheAddsUp
<1> QED
  BY <1>1, EdgeInvHolds, PTL

(* No two requests of one key are inside the handler at a time: the          *)
(* singleflight group of withIdempotency has one leader.                     *)
THEOREM OneHandlerPerKey ==
  EdgeSpec => [](\A c, d \in Requests :
                   req[c].pc \in {"run", "ran"} /\ req[d].pc \in {"run", "ran"} /\ req[c].key = req[d].key => c = d)
<1>1. EdgeInv => \A c, d \in Requests :
                   req[c].pc \in {"run", "ran"} /\ req[d].pc \in {"run", "ran"} /\ req[c].key = req[d].key => c = d
  BY DEF EdgeInv, IdempInv, FlightInv
<1> QED
  BY <1>1, EdgeInvHolds, PTL

(* A handler takes effect a second time for its key only when the response   *)
(* is not kept any more, or for a request that had missed the cache before   *)
(* an earlier flight of its key ended.                                       *)
THEOREM HandlersRunOnce == EdgeSpec => RunsOnce
<1> DEFINE A == \A c \in Requests : req[c].pc = "run" /\ req'[c].pc = "ran" /\ req[c].key \in ran =>
                  c \in gap \/ req[c].key \in forgotten
<1>1. EdgeInv => [A]_idempVars
  BY DEF EdgeInv, IdempInv, RanInv
<1>2. RunsOnce <=> [][A]_idempVars
  BY DEF RunsOnce
<1> QED
  BY <1>1, <1>2, EdgeInvHolds, PTL
=============================================================================
