--------------------------- MODULE LiveSessionProofs ---------------------------
(***************************************************************************)
(* Proofs about LiveSession, for any parameters, writes and calls: types,   *)
(* where the voltages of a restart come from, how the trace of a split run   *)
(* is put together, that every scheduled write lands once and in order, and  *)
(* that no write is taken back by a rebuild.                                 *)
(***************************************************************************)
EXTENDS LiveSession, ExtremumTheorems, SequenceTheorems, TLAPS

-----------------------------------------------------------------------------
(* Sequences.                                                                *)

\* Induction up to a bound, over a set of numbers.
LEMMA UpTo ==
  ASSUME NEW n \in Nat, NEW G, 0 \in G, \A k \in 0..n : k \in G /\ k < n => k + 1 \in G
  PROVE  \A k \in 0..n : k \in G
<1> DEFINE B == {k \in 0..n : k \notin G}
<1> SUFFICES ASSUME B # {} PROVE FALSE
  OBVIOUS
<1>1. B \in SUBSET Nat
  OBVIOUS
<1>2. PICK m \in B : \A k \in B : m <= k
  <2> HIDE DEF B
  <2> QED BY <1>1, LeastExists
<1>3. m \in 0..n /\ m \notin G /\ m # 0
  BY <1>2
<1>4. m - 1 \in 0..n /\ m - 1 < n /\ ~(m <= m - 1) /\ (m - 1) + 1 = m
  BY <1>3
<1>5. m - 1 \in G
  BY <1>2, <1>4
<1> QED BY <1>3, <1>4, <1>5

\* A listing of elements is a sequence.
LEMMA ListIsSeq ==
  ASSUME NEW T, NEW l \in Nat, NEW q \in [1..l -> T]
  PROVE  q \in Seq(T) /\ Len(q) = l
<1>1. q \in Seq(T)
  BY SeqDef
<1>2. DOMAIN q = 1..Len(q) /\ DOMAIN q = 1..l /\ Len(q) \in Nat
  BY <1>1
<1> QED BY <1>1, <1>2

\* What Among keeps of the first elements, as a function of how many they are.
Keeps(s, S, kept) ==
  \A i \in 1..Len(s) : kept[i] = IF s[i] \in S THEN Append(kept[i - 1], s[i]) ELSE kept[i - 1]

\* Among, one element after the other: it keeps a prefix and adds what is in the set.
LEMMA AmongSteps ==
  ASSUME NEW T, NEW s \in Seq(T), NEW S
  PROVE  \E kept \in [0..Len(s) -> Seq(T)] :
           kept[0] = <<>> /\ Keeps(s, S, kept) /\ Among(s, S) = kept[Len(s)]
<1>1. Len(s) \in Nat /\ s \in [1..Len(s) -> T]
  OBVIOUS
<1>2. PICK n : n = Len(s)
  OBVIOUS
<1> DEFINE Next1(k, i) == IF s[i] \in S THEN Append(k, s[i]) ELSE k
           Part(g, m) == /\ g \in [0..m -> Seq(T)] /\ g[0] = <<>>
                         /\ \A i \in 1..m : g[i] = Next1(g[i - 1], i)
           G == {m \in 0..n : \E g : Part(g, m)}
<1>3. 0 \in G
  <2>1. Part([i \in 0..0 |-> <<>>], 0)
    OBVIOUS
  <2>2. 0 \in 0..n
    BY <1>1, <1>2
  <2> QED BY <2>1, <2>2
<1>4. ASSUME NEW m \in 0..n, m \in G, m < n
      PROVE  m + 1 \in G
  <2>1. PICK g : Part(g, m)
    BY <1>4
  <2>2. m \in Nat /\ m + 1 \in 1..n /\ m + 1 \in 0..n /\ n \in Nat
    BY <1>1, <1>2, <1>4
  <2> DEFINE h == [i \in 0..(m + 1) |-> IF i = m + 1 THEN Next1(g[m], m + 1) ELSE g[i]]
  <2>3. Next1(g[m], m + 1) \in Seq(T)
    BY <1>1, <1>2, <2>1, <2>2
  <2>4. h \in [0..(m + 1) -> Seq(T)]
    <3> HIDE DEF Next1
    <3>1. ASSUME NEW i \in 0..(m + 1), i # m + 1 PROVE g[i] \in Seq(T)
      <4>1. i \in 0..m
        BY <2>2, <3>1
      <4> QED BY <2>1, <4>1
    <3> QED BY <2>3, <3>1
  <2>5. ASSUME NEW i \in 1..(m + 1)
        PROVE  h[i] = Next1(h[i - 1], i)
    <3> HIDE DEF Next1
    <3>1. CASE i = m + 1
      <4>1. i - 1 = m /\ m \in 0..(m + 1) /\ i \in 0..(m + 1) /\ m # m + 1
        BY <2>2, <3>1
      <4>2. h[i] = Next1(g[m], m + 1) /\ h[i - 1] = g[m]
        BY <3>1, <4>1
      <4> QED BY <3>1, <4>2
    <3>2. CASE i # m + 1
      <4>1. /\ i \in 1..m /\ i \in 0..(m + 1) /\ i - 1 \in 0..(m + 1) /\ i - 1 # m + 1
        BY <2>2, <3>2
      <4>2. h[i] = g[i] /\ h[i - 1] = g[i - 1]
        BY <3>2, <4>1
      <4> QED BY <2>1, <4>1, <4>2
    <3> QED BY <3>1, <3>2
  <2>6. h[0] = <<>>
    <3>1. 0 \in 0..(m + 1) /\ 0 # m + 1
      BY <2>2
    <3> QED BY <2>1, <3>1
  <2>7. Part(h, m + 1)
    <3> HIDE DEF h, Next1
    <3> QED BY <2>4, <2>5, <2>6
  <2> HIDE DEF Part
  <2> QED BY <2>2, <2>7
<1>5. PICK g : Part(g, n)
  <2> HIDE DEF Part
  <2>1. n \in Nat /\ n \in 0..n
    BY <1>1, <1>2
  <2>2. \A m \in 0..n : m \in G
    <3> HIDE DEF G
    <3> QED BY <1>3, <1>4, <2>1, UpTo
  <2> QED BY <2>1, <2>2
<1> DEFINE Rec(k) == k = [i \in 0..Len(s) |->
                             IF i = 0 THEN <<>>
                             ELSE IF s[i] \in S THEN Append(k[i - 1], s[i]) ELSE k[i - 1]]
<1>6. Rec(g)
  <2>1. ASSUME NEW i \in 0..n
        PROVE  g[i] = IF i = 0 THEN <<>> ELSE Next1(g[i - 1], i)
    <3>1. CASE i = 0
      BY <1>5, <3>1
    <3>2. CASE i # 0
      <4>1. i \in 1..n
        BY <1>1, <1>2, <3>2
      <4> QED BY <1>5, <3>2, <4>1
    <3> QED BY <3>1, <3>2
  <2>2. g \in [0..n -> Seq(T)]
    BY <1>5
  <2> QED BY <1>2, <2>1, <2>2
<1> DEFINE kept == CHOOSE k : Rec(k)
<1>7. Rec(kept)
  <2> HIDE DEF Rec
  <2> QED BY <1>6
<1>8. Among(s, S) = kept[Len(s)]
  BY Zenon DEF Among
<1> HIDE DEF kept
<1>9. /\ kept[0] = <<>>
      /\ \A i \in 1..Len(s) : kept[i] = Next1(kept[i - 1], i)
      /\ DOMAIN kept = 0..Len(s)
  <2>1. 0 \in 0..Len(s)
    BY <1>1
  <2>2. \A i \in 1..Len(s) : i \in 0..Len(s) /\ i # 0
    BY <1>1
  <2> QED BY <1>7, <2>1, <2>2
<1>10. kept \in [0..Len(s) -> Seq(T)]
  <2> DEFINE F == {i \in 0..n : kept[i] \in Seq(T)}
  <2>1. 0 \in F
    <3>1. <<>> \in Seq(T) /\ 0 \in 0..n
      BY <1>1, <1>2
    <3> HIDE DEF Next1
    <3> QED BY <1>9, <3>1
  <2>2. ASSUME NEW i \in 0..n, i \in F, i < n PROVE i + 1 \in F
    <3>1. i + 1 \in 1..n /\ (i + 1) - 1 = i /\ i + 1 \in 0..n
      BY <1>1, <1>2, <2>2
    <3>2. kept[i + 1] = Next1(kept[i], i + 1)
      <4> HIDE DEF Next1
      <4> QED BY <1>2, <1>9, <3>1
    <3>3. kept[i] \in Seq(T) /\ s[i + 1] \in T
      BY <1>1, <1>2, <2>2, <3>1
    <3>4. Next1(kept[i], i + 1) \in Seq(T)
      BY <3>3
    <3> HIDE DEF Next1
    <3> QED BY <3>1, <3>2, <3>4
  <2>3. \A i \in 0..n : i \in F
    <3> HIDE DEF F
    <3>1. n \in Nat
      BY <1>1, <1>2
    <3> QED BY <2>1, <2>2, <3>1, UpTo
  <2>4. kept = [i \in 0..Len(s) |-> kept[i]]
    BY <1>7
  <2> QED BY <1>2, <2>3, <2>4
<1> QED BY <1>8, <1>9, <1>10 DEF Keeps


\* What is kept comes from the sequence, in its order, and nothing else is left out.
Picks(s, S, out, g) ==
  /\ g \in [1..Len(out) -> 1..Len(s)]
  /\ \A k \in 1..Len(out) : out[k] = s[g[k]] /\ s[g[k]] \in S
  /\ \A j, k \in 1..Len(out) : j < k => g[j] < g[k]
  /\ \A i \in 1..Len(s) : s[i] \in S => \E k \in 1..Len(out) : g[k] = i

\* What it has kept of each prefix is a choice of indices of that prefix, in order.
LEMMA AmongPicks ==
  ASSUME NEW T, NEW s \in Seq(T), NEW S
  PROVE  Among(s, S) \in Seq(T) /\ \E g : Picks(s, S, Among(s, S), g)
<1>1. PICK kept \in [0..Len(s) -> Seq(T)] :
        kept[0] = <<>> /\ Keeps(s, S, kept) /\ Among(s, S) = kept[Len(s)]
  BY AmongSteps
<1>2. PICK n : n = Len(s)
  OBVIOUS
<1>3. n \in Nat /\ s \in [1..n -> T]
  BY <1>2
<1> DEFINE Part(m, g) == /\ g \in [1..Len(kept[m]) -> 1..m]
                         /\ \A k \in 1..Len(kept[m]) : kept[m][k] = s[g[k]] /\ s[g[k]] \in S
                         /\ \A j, k \in 1..Len(kept[m]) : j < k => g[j] < g[k]
                         /\ \A i \in 1..m : s[i] \in S => \E k \in 1..Len(kept[m]) : g[k] = i
           G == {m \in 0..n : \E g : Part(m, g)}
<1>4. 0 \in G
  <2>1. Len(kept[0]) = 0 /\ 1..0 = {}
    BY <1>1
  <2>2. Part(0, [k \in 1..0 |-> k])
    BY <2>1
  <2>3. 0 \in 0..n
    BY <1>3
  <2> HIDE DEF Part
  <2> QED BY <2>2, <2>3
<1>5. ASSUME NEW m \in 0..n, m \in G, m < n PROVE m + 1 \in G
  <2>1. PICK g : Part(m, g)
    BY <1>5
  <2>2. m \in Nat /\ m + 1 \in 1..n /\ m + 1 \in 0..n /\ (m + 1) - 1 = m
    BY <1>3, <1>5
  <2>3. kept[m] \in Seq(T) /\ kept[m + 1] = IF s[m + 1] \in S THEN Append(kept[m], s[m + 1]) ELSE kept[m]
    BY <1>1, <1>2, <2>2 DEF Keeps
  <2>4. PICK q \in Seq(T) : q = kept[m]
    BY <2>3
  <2>5. CASE s[m + 1] \notin S
    <3>1. kept[m + 1] = kept[m]
      BY <2>3, <2>5
    <3>2. Part(m + 1, g)
      <4>1. g \in [1..Len(kept[m + 1]) -> 1..(m + 1)]
        BY <2>1, <2>2, <3>1
      <4>2. \A i \in 1..(m + 1) : i \in 1..m \/ i = m + 1
        BY <2>2
      <4> QED BY <2>1, <2>5, <3>1, <4>1, <4>2
    <3> HIDE DEF Part
    <3> QED BY <2>2, <3>2
  <2>6. CASE s[m + 1] \in S
    <3>1. PICK l \in Nat : l = Len(q)
      BY <2>4
    <3>2. /\ kept[m + 1] = Append(q, s[m + 1]) /\ s[m + 1] \in T
          /\ Len(kept[m + 1]) = l + 1 /\ kept[m + 1][l + 1] = s[m + 1]
          /\ \A k \in 1..l : kept[m + 1][k] = kept[m][k]
      BY <1>3, <2>2, <2>3, <2>4, <2>6, <3>1
    <3> DEFINE h == [k \in 1..(l + 1) |-> IF k = l + 1 THEN m + 1 ELSE g[k]]
    <3>3. /\ g \in [1..l -> 1..m]
          /\ \A k \in 1..l : kept[m][k] = s[g[k]] /\ s[g[k]] \in S
          /\ \A j, k \in 1..l : j < k => g[j] < g[k]
          /\ \A i \in 1..m : s[i] \in S => \E k \in 1..l : g[k] = i
      BY <2>1, <2>4, <3>1
    <3>4. \A k \in 1..(l + 1) : k = l + 1 \/ (k \in 1..l /\ k # l + 1)
      BY <3>1
    <3>5. h \in [1..(l + 1) -> 1..(m + 1)]
      BY <2>2, <3>1, <3>3, <3>4
    <3>6. \A k \in 1..l : h[k] = g[k] /\ k \in 1..(l + 1)
      BY <3>1
    <3>7. h[l + 1] = m + 1 /\ l + 1 \in 1..(l + 1)
      BY <3>1
    <3> HIDE DEF h
    <3>8. \A k \in 1..(l + 1) : kept[m + 1][k] = s[h[k]] /\ s[h[k]] \in S
      BY <2>6, <3>2, <3>3, <3>4, <3>6, <3>7
    <3>9. ASSUME NEW j \in 1..(l + 1), NEW k \in 1..(l + 1), j < k PROVE h[j] < h[k]
      <4>1. j \in 1..l
        BY <3>1, <3>9
      <4>2. CASE k = l + 1
        <5>1. h[j] \in 1..m
          BY <3>3, <3>6, <4>1
        <5> QED BY <2>2, <3>7, <4>2, <5>1
      <4>3. CASE k \in 1..l
        BY <3>3, <3>6, <3>9, <4>1, <4>3
      <4> QED BY <3>4, <4>2, <4>3
    <3>10. ASSUME NEW i \in 1..(m + 1), s[i] \in S PROVE \E k \in 1..(l + 1) : h[k] = i
      <4>1. i \in 1..m \/ i = m + 1
        BY <2>2
      <4> QED BY <3>3, <3>6, <3>7, <3>10, <4>1
    <3>11. Part(m + 1, h)
      BY <3>2, <3>5, <3>8, <3>9, <3>10
    <3> HIDE DEF Part
    <3> QED BY <2>2, <3>11
  <2> QED BY <2>5, <2>6
<1>6. \E g : Part(n, g)
  <2>1. \A m \in 0..n : m \in G
    <3> HIDE DEF G
    <3> QED BY <1>3, <1>4, <1>5, UpTo
  <2>2. n \in 0..n
    BY <1>3
  <2> HIDE DEF Part
  <2> QED BY <2>1, <2>2
<1>7. kept[n] = Among(s, S) /\ kept[n] \in Seq(T)
  BY <1>1, <1>2, <1>3
<1>8. PICK g : Part(n, g)
  <2> HIDE DEF Part
  <2> QED BY <1>6
<1>9. Picks(s, S, kept[n], g)
  BY <1>2, <1>8 DEF Picks
<1> HIDE DEF Part
<1> QED BY <1>7, <1>9

\* So what is kept are the elements in the set,
LEMMA AmongIs ==
  ASSUME NEW T, NEW s \in Seq(T), NEW S
  PROVE  /\ Among(s, S) \in Seq(T)
         /\ \A k \in 1..Len(Among(s, S)) :
              Among(s, S)[k] \in S /\ \E i \in 1..Len(s) : Among(s, S)[k] = s[i]
         /\ \A i \in 1..Len(s) : s[i] \in S =>
              \E k \in 1..Len(Among(s, S)) : Among(s, S)[k] = s[i]
<1>1. PICK g : Picks(s, S, Among(s, S), g)
  BY AmongPicks
<1>2. Among(s, S) \in Seq(T)
  BY AmongPicks
<1>3. ASSUME NEW k \in 1..Len(Among(s, S))
      PROVE  Among(s, S)[k] \in S /\ \E i \in 1..Len(s) : Among(s, S)[k] = s[i]
  BY <1>1 DEF Picks
<1>4. ASSUME NEW i \in 1..Len(s), s[i] \in S
      PROVE  \E k \in 1..Len(Among(s, S)) : Among(s, S)[k] = s[i]
  BY <1>1, <1>4 DEF Picks
<1> QED BY <1>2, <1>3, <1>4

\* in whatever order they were.
Ordered(s, R) == \A j, k \in 1..Len(s) : j < k => <<s[j], s[k]>> \in R

\* What is picked from a sequence in some order is in that order.
LEMMA AmongOrdered ==
  ASSUME NEW T, NEW s \in Seq(T), NEW S, NEW R, Ordered(s, R)
  PROVE  Ordered(Among(s, S), R)
<1>1. PICK g : Picks(s, S, Among(s, S), g)
  BY AmongPicks
<1> SUFFICES ASSUME NEW j \in 1..Len(Among(s, S)), NEW k \in 1..Len(Among(s, S)), j < k
             PROVE  <<Among(s, S)[j], Among(s, S)[k]>> \in R
  BY DEF Ordered
<1>2. /\ Among(s, S)[j] = s[g[j]] /\ Among(s, S)[k] = s[g[k]]
      /\ g[j] \in 1..Len(s) /\ g[k] \in 1..Len(s) /\ g[j] < g[k]
  BY <1>1 DEF Picks
<1> QED BY <1>2 DEF Ordered

\* Where the elements in the set are those after the first c, these are dropped.
LEMMA AmongSuffix ==
  ASSUME NEW T, NEW s \in Seq(T), NEW S, NEW c \in 0..Len(s),
         \A i \in 1..Len(s) : s[i] \in S <=> i > c
  PROVE  Among(s, S) = [k \in 1..(Len(s) - c) |-> s[c + k]]
<1>1. PICK g : Picks(s, S, Among(s, S), g)
  BY AmongPicks
<1>2. PICK kept \in [0..Len(s) -> Seq(T)] :
        kept[0] = <<>> /\ Keeps(s, S, kept) /\ Among(s, S) = kept[Len(s)]
  BY AmongSteps
<1>3. PICK n : n = Len(s)
  OBVIOUS
<1>4. n \in Nat /\ s \in [1..n -> T] /\ c \in Nat /\ c <= n
  BY <1>3
<1> DEFINE Tail1(m) == [k \in 1..(m - c) |-> s[c + k]]
           G == {m \in 0..n : kept[m] = IF m <= c THEN <<>> ELSE Tail1(m)}
<1>5. 0 \in G
  BY <1>2, <1>4
<1>6. ASSUME NEW m \in 0..n, m \in G, m < n PROVE m + 1 \in G
  <2>1. m \in Nat /\ m + 1 \in 1..n /\ m + 1 \in 0..n /\ (m + 1) - 1 = m
    BY <1>4, <1>6
  <2>2. kept[m + 1] = IF s[m + 1] \in S THEN Append(kept[m], s[m + 1]) ELSE kept[m]
    BY <1>2, <1>3, <2>1 DEF Keeps
  <2>3. s[m + 1] \in S <=> m + 1 > c
    BY <1>3, <2>1
  <2>4. CASE m + 1 <= c
    BY <1>4, <1>6, <2>1, <2>2, <2>3, <2>4
  <2>5. CASE m + 1 > c
    <3>1. kept[m + 1] = Append(kept[m], s[m + 1])
      BY <2>2, <2>3, <2>5
    <3>2. PICK l \in Nat : l = m - c
      BY <1>4, <2>1, <2>5
    <3>3. \A k \in 1..l : c + k \in 1..n
      BY <1>4, <2>1, <3>2
    <3>4. kept[m] = [k \in 1..l |-> s[c + k]]
      <4>1. CASE m <= c
        <5>1. l = 0 /\ 1..0 = {}
          BY <1>4, <2>1, <2>5, <3>2, <4>1
        <5>2. kept[m] = <<>>
          BY <1>6, <4>1
        <5> QED BY <5>1, <5>2
      <4>2. CASE ~(m <= c)
        BY <1>6, <3>2, <4>2
      <4> QED BY <4>1, <4>2
    <3>5. s[m + 1] = s[c + (l + 1)] /\ (m + 1) - c = l + 1
      BY <1>4, <2>1, <3>2
    <3>6. PICK q : q = [k \in 1..l |-> s[c + k]]
      OBVIOUS
    <3> HIDE DEF Tail1, G
    <3>7. Append(kept[m], s[m + 1]) = [k \in 1..(l + 1) |-> s[c + k]]
      <4>1. s[m + 1] \in T
        BY <1>4, <2>1
      <4>2. q \in [1..l -> T]
        BY <1>4, <3>3, <3>6
      <4>3. q \in Seq(T) /\ Len(q) = l
        BY <3>2, <4>2, ListIsSeq
      <4>4. PICK a \in Seq(T) : a = Append(q, s[m + 1])
        BY <4>1, <4>3, AppendProperties
      <4>5. Len(a) = l + 1 /\ DOMAIN a = 1..(l + 1) /\ a[l + 1] = s[m + 1]
            /\ \A k \in 1..l : a[k] = q[k]
        BY <4>1, <4>3, <4>4
      <4>6. \A k \in 1..(l + 1) : a[k] = s[c + k]
        <5>1. \A k \in 1..(l + 1) : k = l + 1 \/ k \in 1..l
          BY <3>2
        <5> QED BY <3>5, <3>6, <4>5, <5>1
      <4>7. a = [k \in 1..(l + 1) |-> a[k]]
        BY <4>4, <4>5
      <4> QED BY <3>4, <3>6, <4>4, <4>6, <4>7
    <3>8. kept[m + 1] = Tail1(m + 1)
      BY <3>1, <3>5, <3>7 DEF Tail1
    <3>9. ~(m + 1 <= c)
      BY <1>4, <2>1, <2>5
    <3> QED BY <2>1, <3>8, <3>9 DEF G
  <2> QED BY <1>4, <2>1, <2>4, <2>5
<1>7. n \in G
  <2>1. \A m \in 0..n : m \in G
    <3> HIDE DEF G
    <3> QED BY <1>4, <1>5, <1>6, UpTo
  <2> QED BY <1>4, <2>1
<1>8. Among(s, S) = IF n <= c THEN <<>> ELSE Tail1(n)
  BY <1>2, <1>3, <1>7
<1>9. CASE n <= c
  <2>1. n - c = 0 /\ 1..0 = {}
    BY <1>4, <1>9
  <2> QED BY <1>3, <1>8, <1>9, <2>1
<1> QED BY <1>3, <1>8, <1>9

\* Where all are in the set, nothing is dropped.
LEMMA AmongAll ==
  ASSUME NEW T, NEW s \in Seq(T), NEW S, \A i \in 1..Len(s) : s[i] \in S
  PROVE  Among(s, S) = s
<1>1. Len(s) \in Nat
  OBVIOUS
<1>2. 0 \in 0..Len(s) /\ \A i \in 1..Len(s) : s[i] \in S <=> i > 0
  BY <1>1
<1>3. Among(s, S) = [k \in 1..(Len(s) - 0) |-> s[0 + k]]
  BY <1>2, AmongSuffix
<1>4. Len(s) - 0 = Len(s) /\ \A k \in 1..Len(s) : 0 + k = k
  BY <1>1
<1>5. s = [k \in 1..Len(s) |-> s[k]]
  OBVIOUS
<1> QED BY <1>3, <1>4, <1>5

-----------------------------------------------------------------------------
(* The ledger.                                                               *)

Ledger == Seq(Params \X Nat)

\* What a ledger tells of a parameter is the last entry for it, if there is one.
LastFor(ledger, p, i) ==
  /\ i \in 1..Len(ledger) /\ ledger[i][1] = p
  /\ \A j \in 1..Len(ledger) : ledger[j][1] = p => j <= i

\* It is that entry's value,
LEMMA ToldLast ==
  ASSUME NEW ledger \in Ledger, NEW p, NEW otherwise, NEW i, LastFor(ledger, p, i)
  PROVE  Told(ledger, p, otherwise) = ledger[i][2]
<1> DEFINE at == {j \in DOMAIN ledger : ledger[j][1] = p}
<1>1. DOMAIN ledger = 1..Len(ledger) /\ Len(ledger) \in Nat
  BY DEF Ledger
<1>2. i \in at /\ \A j \in at : j <= i
  BY <1>1 DEF LastFor
<1>3. \A k \in at : (\A j \in at : j <= k) => k = i
  <2> SUFFICES ASSUME NEW k \in at, \A j \in at : j <= k PROVE k = i
    OBVIOUS
  <2>1. i <= k /\ k <= i /\ i \in Nat /\ k \in Nat
    BY <1>1, <1>2
  <2> QED BY <2>1
<1>4. (CHOOSE k \in at : \A j \in at : j <= k) = i
  <2> HIDE DEF at
  <2> QED BY <1>2, <1>3
<1>5. Told(ledger, p, otherwise) =
        IF at = {} THEN otherwise ELSE ledger[CHOOSE k \in at : \A j \in at : j <= k][2]
  BY Zenon DEF Told
<1> HIDE DEF at
<1> QED BY <1>2, <1>4, <1>5

\* and what it is asked to fall back on if there is none.
LEMMA ToldNone ==
  ASSUME NEW ledger \in Ledger, NEW p, NEW otherwise,
         \A j \in 1..Len(ledger) : ledger[j][1] # p
  PROVE  Told(ledger, p, otherwise) = otherwise
<1>1. DOMAIN ledger = 1..Len(ledger)
  BY DEF Ledger
<1>2. {j \in DOMAIN ledger : ledger[j][1] = p} = {}
  BY <1>1
<1> QED BY <1>2 DEF Told

\* There is none or a last one.
LEMMA LastOrNone ==
  ASSUME NEW ledger \in Ledger, NEW p
  PROVE  \/ \A j \in 1..Len(ledger) : ledger[j][1] # p
         \/ \E i : LastFor(ledger, p, i)
<1> DEFINE at == {j \in 1..Len(ledger) : ledger[j][1] = p}
<1>1. CASE at = {}
  BY <1>1
<1>2. CASE at # {}
  <2>1. Len(ledger) \in Nat
    BY DEF Ledger
  <2>2. IsFiniteSet(1..Len(ledger)) /\ [j \in 1..Len(ledger) |-> j] \in [1..Len(ledger) -> Nat]
    BY <2>1, FS_Interval
  <2>3. PICK i \in at : \A j \in at : [k \in 1..Len(ledger) |-> k][j] <= [k \in 1..Len(ledger) |-> k][i]
    BY <1>2, <2>2, GreatestExists
  <2>4. LastFor(ledger, p, i)
    BY <2>3 DEF LastFor
  <2> QED BY <2>4
<1> QED BY <1>1, <1>2

\* Either way it is a number.
LEMMA ToldType ==
  ASSUME NEW ledger \in Ledger, NEW p, NEW otherwise \in Nat
  PROVE  Told(ledger, p, otherwise) \in Nat
<1>1. CASE \A j \in 1..Len(ledger) : ledger[j][1] # p
  BY <1>1, ToldNone
<1>2. CASE \E i : LastFor(ledger, p, i)
  <2>1. PICK i : LastFor(ledger, p, i)
    BY <1>2
  <2>2. ledger[i] \in Params \X Nat
    BY <2>1 DEF LastFor, Ledger
  <2> QED BY <2>1, <2>2, ToldLast
<1> QED BY <1>1, <1>2, LastOrNone

\* One more entry is the last for its parameter and changes nothing for the others.
LEMMA ToldAppend ==
  ASSUME NEW ledger \in Ledger, NEW p \in Params, NEW v \in Nat, NEW q, NEW otherwise
  PROVE  /\ Append(ledger, <<p, v>>) \in Ledger
         /\ Told(Append(ledger, <<p, v>>), q, otherwise) =
              IF q = p THEN v ELSE Told(ledger, q, otherwise)
<1> DEFINE more == Append(ledger, <<p, v>>)
           n == Len(ledger)
<1>1. /\ more \in Ledger /\ Len(more) = n + 1 /\ n \in Nat
      /\ more[n + 1] = <<p, v>> /\ \A i \in 1..n : more[i] = ledger[i]
  BY AppendProperties DEF Ledger
<1>2. more[n + 1][1] = p /\ more[n + 1][2] = v
  BY <1>1
<1> HIDE DEF more
<1>3. \A i \in 1..(n + 1) : i = n + 1 \/ i \in 1..n
  BY <1>1
<1>4. CASE q = p
  <2>1. LastFor(more, p, n + 1)
    BY <1>1, <1>2 DEF LastFor
  <2>2. Told(more, q, otherwise) = v
    BY <1>1, <1>2, <1>4, <2>1, ToldLast
  <2> QED BY <1>1, <1>4, <2>2 DEF more
<1>5. CASE q # p /\ \A j \in 1..n : ledger[j][1] # q
  <2>1. \A j \in 1..Len(more) : more[j][1] # q
    BY <1>1, <1>2, <1>3, <1>5
  <2>2. Told(more, q, otherwise) = otherwise /\ Told(ledger, q, otherwise) = otherwise
    BY <1>1, <1>5, <2>1, ToldNone
  <2> QED BY <1>1, <1>5, <2>2 DEF more
<1>6. CASE q # p /\ \E i : LastFor(ledger, q, i)
  <2>1. PICK i : LastFor(ledger, q, i)
    BY <1>6
  <2>2. LastFor(more, q, i)
    BY <1>1, <1>2, <1>3, <1>6, <2>1 DEF LastFor
  <2>3. more[i] = ledger[i]
    BY <1>1, <2>1 DEF LastFor
  <2>4. Told(more, q, otherwise) = Told(ledger, q, otherwise)
    BY <1>1, <2>1, <2>2, <2>3, ToldLast
  <2> QED BY <1>1, <1>6, <2>4 DEF more
<1> QED BY <1>4, <1>5, <1>6, LastOrNone

\* Of two ledgers one after the other the second goes first.
LEMMA ToldConcat ==
  ASSUME NEW one \in Ledger, NEW two \in Ledger, NEW q, NEW otherwise
  PROVE  /\ one \o two \in Ledger
         /\ Told(one \o two, q, otherwise) = Told(two, q, Told(one, q, otherwise))
<1> DEFINE both == one \o two
           n == Len(one)
           m == Len(two)
<1>1. /\ both \in Ledger /\ Len(both) = n + m /\ n \in Nat /\ m \in Nat
      /\ \A i \in 1..(n + m) : both[i] = IF i <= n THEN one[i] ELSE two[i - n]
  BY ConcatProperties DEF Ledger
<1> HIDE DEF both
<1>2. /\ \A i \in 1..n : i \in 1..(n + m) /\ both[i] = one[i]
      /\ \A i \in 1..m : i + n \in 1..(n + m) /\ both[i + n] = two[i]
      /\ \A i \in 1..(n + m) : i \in 1..n \/ (i - n \in 1..m /\ (i - n) + n = i)
  <2>1. \A i \in 1..m : i + n \in 1..(n + m) /\ ~(i + n <= n) /\ (i + n) - n = i
    BY <1>1
  <2> QED BY <1>1, <2>1
<1>3. CASE \E i : LastFor(two, q, i)
  <2>1. PICK i : LastFor(two, q, i)
    BY <1>3
  <2>2. i \in 1..m /\ both[i + n] = two[i] /\ i + n \in 1..(n + m) /\ both[i + n][1] = q
    BY <1>2, <2>1 DEF LastFor
  <2>3. ASSUME NEW j \in 1..(n + m), both[j][1] = q PROVE j <= i + n
    <3>1. CASE j \in 1..n
      BY <1>1, <2>2, <3>1
    <3>2. CASE j - n \in 1..m /\ (j - n) + n = j
      <4>1. two[j - n][1] = q
        BY <1>2, <2>3, <3>2
      <4>2. j - n <= i
        BY <2>1, <3>2, <4>1 DEF LastFor
      <4> QED BY <1>1, <2>2, <4>2
    <3> QED BY <1>2, <3>1, <3>2
  <2>4. LastFor(both, q, i + n)
    BY <1>1, <2>2, <2>3 DEF LastFor
  <2>5. Told(both, q, otherwise) = both[i + n][2]
    BY <1>1, <2>4, ToldLast
  <2>6. Told(two, q, Told(one, q, otherwise)) = two[i][2]
    BY <2>1, ToldLast
  <2> QED BY <1>1, <2>2, <2>5, <2>6 DEF both
<1>4. CASE \A j \in 1..m : two[j][1] # q
  <2>1. Told(two, q, Told(one, q, otherwise)) = Told(one, q, otherwise)
    BY <1>4, ToldNone
  <2>2. CASE \E i : LastFor(one, q, i)
    <3>1. PICK i : LastFor(one, q, i)
      BY <2>2
    <3>2. i \in 1..n /\ both[i] = one[i] /\ i \in 1..(n + m) /\ both[i][1] = q
      BY <1>2, <3>1 DEF LastFor
    <3>3. ASSUME NEW j \in 1..(n + m), both[j][1] = q PROVE j <= i
      <4>1. CASE j \in 1..n
        BY <1>2, <3>1, <3>3, <4>1 DEF LastFor
      <4>2. CASE j - n \in 1..m /\ (j - n) + n = j
        BY <1>2, <1>4, <3>3, <4>2
      <4> QED BY <1>2, <4>1, <4>2
    <3>4. LastFor(both, q, i)
      BY <1>1, <3>2, <3>3 DEF LastFor
    <3>5. Told(both, q, otherwise) = both[i][2]
      BY <1>1, <3>4, ToldLast
    <3>6. Told(one, q, otherwise) = one[i][2]
      BY <3>1, ToldLast
    <3> QED BY <1>1, <2>1, <3>2, <3>5, <3>6 DEF both
  <2>3. CASE \A j \in 1..n : one[j][1] # q
    <3>1. \A j \in 1..(n + m) : both[j][1] # q
      <4> SUFFICES ASSUME NEW j \in 1..(n + m) PROVE both[j][1] # q
        OBVIOUS
      <4>1. CASE j \in 1..n
        BY <1>2, <2>3, <4>1
      <4>2. CASE j - n \in 1..m /\ (j - n) + n = j
        <5>1. two[j - n] = both[j] /\ two[j - n][1] # q
          BY <1>2, <1>4, <4>2
        <5> QED BY <5>1
      <4> QED BY <1>2, <4>1, <4>2
    <3>2. Told(both, q, otherwise) = otherwise /\ Told(one, q, otherwise) = otherwise
      BY <1>1, <2>3, <3>1, ToldNone
    <3> QED BY <1>1, <2>1, <3>2 DEF both
  <2> QED BY <2>2, <2>3, LastOrNone
<1> QED BY <1>3, <1>4, LastOrNone

-----------------------------------------------------------------------------
(* Types.                                                                    *)

AllNets == UNION {NetsOf[S] : S \in SUBSET Optional}
Volts   == [nets : SUBSET AllNets, of : {Never, Before} \cup 0..MaxTime]
Entries == Seq(Entry)

Lives ==
  [design : Assignment, staged : Assignment, circuit : Assignment, info : Assignment,
   dirty : Ledger, carry : Volts, meant : Assignment, unsure : SUBSET Params]

Runs ==
  [pc : {"idle", "early", "segment", "solve", "split"}, result : {"none", "ok", "failed"},
   stop : 0..MaxTime, start : 0..MaxTime, scheduled : Entries, seg : Nat, at : Nat,
   split : {Never} \cup Nat, todo : Entries, points : Seq(Nat), steps : Seq(Nat),
   seeded : {Never, Before} \cup Nat, plan : Entries, landed : Entries,
   refused : BOOLEAN, splits : SUBSET Nat]

\* What the types of the state do not say: the clock of a segment is within it, and
\* its split is its end.
TInv ==
  /\ host \in {"rust", "python"} /\ calls \in 0..MaxCalls
  /\ live \in Lives /\ last \in Volts /\ run \in Runs
  /\ pending \in Entries /\ Len(pending) <= MaxPending
  /\ run.seg <= run.at /\ run.at <= run.stop
  /\ run.pc = "solve" /\ run.split # Never =>
       run.seg < run.split /\ run.at <= run.split /\ run.split <= run.stop
  /\ run.pc = "split" => run.split = run.at

\* The types of the parts that the run checks.
LEMMA TInvTypes == TInv => TypeOK
<1> SUFFICES ASSUME TInv PROVE TypeOK
  OBVIOUS
<1>1. /\ live.design \in Assignment /\ live.staged \in Assignment /\ live.circuit \in Assignment
      /\ live.info \in Assignment /\ live.meant \in Assignment
      /\ live.dirty \in Seq(Params \X Nat) /\ live.unsure \subseteq Params
      /\ last.nets \subseteq AllNets /\ live.carry.nets \subseteq AllNets
      /\ last.of \in {Never, Before} \cup 0..MaxTime
      /\ live.carry.of \in {Never, Before} \cup 0..MaxTime
  BY DEF TInv, Lives, Volts, Ledger
<1>2. /\ run.pc \in {"idle", "early", "segment", "solve", "split"}
      /\ run.result \in {"none", "ok", "failed"} /\ run.start \in 0..MaxTime
      /\ run.seg <= run.at /\ run.at <= run.stop /\ run.stop <= MaxTime
  BY SessionAssumption DEF TInv, Runs
<1> QED BY <1>1, <1>2 DEF TInv, TypeOK, AllNets, Entries

\* The nets of any circuit are among them.
LEMMA NetsType ==
  ASSUME NEW values
  PROVE  Nets(values) \subseteq AllNets
BY DEF Nets, AllNets

\* Nothing is solved, carried or under way at first.
LEMMA IdleType ==
  /\ Idle \in Runs /\ Idle.seg = 0 /\ Idle.at = 0 /\ Idle.pc = "idle" /\ Idle.stop = 0
  /\ Idle.split = Never /\ Idle.landed = <<>> /\ Idle.plan = <<>> /\ Idle.scheduled = <<>>
  /\ Idle.steps = <<>> /\ Idle.points = <<>> /\ Idle.todo = <<>> /\ Idle.splits = {}
  /\ Idle.refused = FALSE /\ Idle.result = "none" /\ Idle.start = 0
BY SessionAssumption DEF Idle, Runs, Entries, Never, Before

\* A write keeps the types of what the session holds.
LEMMA StampedType ==
  ASSUME NEW l \in Lives, NEW p \in Params, NEW v \in Nat
  PROVE  /\ Stamped(l, p, v) \in Lives
         /\ Stamped(l, p, v) = [l EXCEPT !.circuit = [@ EXCEPT ![p] = v],
                                         !.meant = [@ EXCEPT ![p] = v], !.unsure = @ \ {p}]
<1>1. Stamped(l, p, v) = [l EXCEPT !.circuit = [@ EXCEPT ![p] = v],
                                   !.meant = [@ EXCEPT ![p] = v], !.unsure = @ \ {p}]
  BY DEF Stamped
<1>2. /\ [l.circuit EXCEPT ![p] = v] \in Assignment /\ [l.meant EXCEPT ![p] = v] \in Assignment
      /\ l.unsure \ {p} \in SUBSET Params
  BY DEF Lives, Assignment
<1> QED BY <1>1, <1>2 DEF Lives

\* A write that is noted keeps the types,
LEMMA NotedType ==
  ASSUME NEW l \in Lives, NEW p \in Params, NEW v \in Nat
  PROVE  Noted(l, p, v) \in Lives
<1> DEFINE i == [l.info EXCEPT ![p] = IF p \in PomOnly THEN @ ELSE v]
           d == IF host = "python" THEN Append(l.dirty, <<p, v>>) ELSE l.dirty
<1>1. i \in Assignment /\ d \in Ledger
  BY ToldAppend DEF Lives, Assignment
<1>2. Noted(l, p, v) = [l EXCEPT !.info = i, !.dirty = d]
  BY DEF Noted
<1> HIDE DEF i, d
<1> QED BY <1>1, <1>2 DEF Lives

\* and so does a rebuild, whether the new circuit builds or not.
LEMMA RebuiltType ==
  ASSUME NEW l \in Lives, last \in Volts, NEW p \in Params, NEW v \in Nat
  PROVE  Rebuilt(l, p, v) \in Lives /\ NotRebuilt(l, p, v) \in Lives
<1> DEFINE d == [q \in Params |-> IF q = p THEN v ELSE Replayed(l, q)]
           s == [q \in Params |-> Absent]
           c == IF host = "python" THEN Carried(last, d) ELSE l.carry
           m == [l.meant EXCEPT ![p] = v]
<1>1. d \in Assignment
  <2>1. ASSUME NEW q \in Params PROVE Replayed(l, q) \in Nat
    <3>1. l.dirty \in Ledger /\ l.design[q] \in Nat /\ l.staged[q] \in Nat
      BY DEF Lives, Assignment
    <3>2. Told(l.dirty, q, l.design[q]) \in Nat
      BY <3>1, ToldType
    <3> QED BY <3>1, <3>2 DEF Replayed
  <2> QED BY <2>1 DEF Assignment
<1>2. s \in Assignment /\ m \in Assignment /\ l.unsure \ {p} \in SUBSET Params /\ <<>> \in Ledger
  BY DEF Lives, Assignment, Absent, Ledger
<1>3. c \in Volts
  <2> HIDE DEF d
  <2>1. l.carry \in Volts
    BY DEF Lives
  <2>2. Carried(last, d) \in Volts
    BY DEF Carried, Volts
  <2> QED BY <2>1, <2>2
<1>4. Rebuilt(l, p, v) = [l EXCEPT !.design = d, !.circuit = d, !.info = d, !.dirty = <<>>,
                            !.staged = s, !.carry = c, !.meant = m, !.unsure = @ \ {p}]
  BY DEF Rebuilt
<1> HIDE DEF d, s, c, m
<1>5. Rebuilt(l, p, v) \in Lives
  BY <1>1, <1>2, <1>3, <1>4 DEF Lives
<1>6. NotRebuilt(l, p, v) \in Lives
  <2>1. [l.staged EXCEPT ![p] = v] \in Assignment
    BY DEF Lives, Assignment
  <2>2. [l EXCEPT !.staged = [@ EXCEPT ![p] = v]] \in Lives
    BY <2>1 DEF Lives
  <2> QED BY <2>2 DEF NotRebuilt
<1> QED BY <1>5, <1>6

\* What a write may do: it is applied, or the circuit is rebuilt, or it is refused.
LEMMA Outcomes ==
  ASSUME NEW l, NEW p, NEW v, NEW sweep, NEW o \in SetOutcomes(l, p, v, sweep)
  PROVE  \/ o.ok = TRUE /\ o.live = Rebuilt(l, p, v)
         \/ o.ok = FALSE /\ o.live = NotRebuilt(l, p, v)
         \/ o.ok = FALSE /\ o.live = l
         \/ /\ o.ok = TRUE /\ o.live = Noted(Stamped(l, p, v), p, v)
            /\ p \notin PomOnly /\ ~Flips(l, p)
<1>1. ASSUME NEW r
      PROVE  /\ Ok(r).live = r /\ Ok(r).ok = TRUE
             /\ Refused(r).live = r /\ Refused(r).ok = FALSE
  BY DEF Ok, Refused
<1>2. \/ o \in Rebuild(l, p, v)
      \/ o = Refused(l)
      \/ o = Ok(Noted(Stamped(l, p, v), p, v)) /\ p \notin PomOnly /\ ~Flips(l, p)
  BY DEF SetOutcomes
<1>3. CASE o \in Rebuild(l, p, v)
  <2>1. o = Ok(Rebuilt(l, p, v)) \/ o = Refused(NotRebuilt(l, p, v))
    BY <1>3 DEF Rebuild
  <2> QED BY <1>1, <2>1
<1> QED BY <1>1, <1>2, <1>3

\* So a write keeps the types, whatever comes of it.
LEMMA OutcomesType ==
  ASSUME NEW l \in Lives, last \in Volts, NEW p \in Params, NEW v \in Nat, NEW sweep,
         NEW o \in SetOutcomes(l, p, v, sweep)
  PROVE  o.live \in Lives /\ o.ok \in BOOLEAN
<1>1. /\ Rebuilt(l, p, v) \in Lives /\ NotRebuilt(l, p, v) \in Lives
      /\ Noted(Stamped(l, p, v), p, v) \in Lives
  BY RebuiltType, StampedType, NotedType
<1>2. o.ok \in BOOLEAN
  BY Outcomes, Zenon
<1>3. o.live \in {Rebuilt(l, p, v), NotRebuilt(l, p, v), l, Noted(Stamped(l, p, v), p, v)}
  BY Outcomes
<1> QED BY <1>1, <1>2, <1>3

\* What a write changes, field by field.
LEMMA StampedIs ==
  ASSUME NEW l \in Lives, NEW p \in Params, NEW v \in Nat
  PROVE  /\ Stamped(l, p, v).circuit = [l.circuit EXCEPT ![p] = v]
         /\ Stamped(l, p, v).meant = [l.meant EXCEPT ![p] = v]
         /\ Stamped(l, p, v).unsure = l.unsure \ {p}
         /\ Stamped(l, p, v).design = l.design /\ Stamped(l, p, v).staged = l.staged
         /\ Stamped(l, p, v).info = l.info /\ Stamped(l, p, v).dirty = l.dirty
         /\ Stamped(l, p, v).carry = l.carry
<1> DEFINE c == [l.circuit EXCEPT ![p] = v]
           m == [l.meant EXCEPT ![p] = v]
<1>1. Stamped(l, p, v) = [l EXCEPT !.circuit = c, !.meant = m, !.unsure = @ \ {p}]
  BY StampedType
<1> HIDE DEF c, m
<1>2. /\ Stamped(l, p, v).circuit = c /\ Stamped(l, p, v).meant = m
      /\ Stamped(l, p, v).unsure = l.unsure \ {p}
      /\ Stamped(l, p, v).design = l.design /\ Stamped(l, p, v).staged = l.staged
      /\ Stamped(l, p, v).info = l.info /\ Stamped(l, p, v).dirty = l.dirty
      /\ Stamped(l, p, v).carry = l.carry
  BY <1>1 DEF Lives
<1> QED BY <1>2 DEF c, m

\* What noting a write changes.
LEMMA NotedIs ==
  ASSUME NEW l \in Lives, NEW p \in Params, NEW v \in Nat
  PROVE  /\ Noted(l, p, v).info = [l.info EXCEPT ![p] = IF p \in PomOnly THEN @ ELSE v]
         /\ Noted(l, p, v).dirty = IF host = "python" THEN Append(l.dirty, <<p, v>>) ELSE l.dirty
         /\ Noted(l, p, v).circuit = l.circuit /\ Noted(l, p, v).meant = l.meant
         /\ Noted(l, p, v).unsure = l.unsure /\ Noted(l, p, v).design = l.design
         /\ Noted(l, p, v).staged = l.staged /\ Noted(l, p, v).carry = l.carry
<1> DEFINE i == [l.info EXCEPT ![p] = IF p \in PomOnly THEN @ ELSE v]
           d == IF host = "python" THEN Append(l.dirty, <<p, v>>) ELSE l.dirty
<1>1. Noted(l, p, v) = [l EXCEPT !.info = i, !.dirty = d]
  BY DEF Noted
<1> HIDE DEF i, d
<1>2. /\ Noted(l, p, v).info = i /\ Noted(l, p, v).dirty = d
      /\ Noted(l, p, v).circuit = l.circuit /\ Noted(l, p, v).meant = l.meant
      /\ Noted(l, p, v).unsure = l.unsure /\ Noted(l, p, v).design = l.design
      /\ Noted(l, p, v).staged = l.staged /\ Noted(l, p, v).carry = l.carry
  BY <1>1 DEF Lives
<1> QED BY <1>2 DEF i, d

\* What a rebuild leaves: one assignment, of the new value and of those replayed.
Redone(l, p, v) == [q \in Params |-> IF q = p THEN v ELSE Replayed(l, q)]

\* The fields of a session rebuilt.
LEMMA RebuiltIs ==
  ASSUME NEW l \in Lives, NEW p \in Params, NEW v \in Nat
  PROVE  /\ Rebuilt(l, p, v).design = Redone(l, p, v)
         /\ Rebuilt(l, p, v).circuit = Redone(l, p, v)
         /\ Rebuilt(l, p, v).info = Redone(l, p, v)
         /\ Rebuilt(l, p, v).dirty = <<>>
         /\ Rebuilt(l, p, v).carry = IF host = "python" THEN Carried(last, Redone(l, p, v))
                                     ELSE l.carry
         /\ Rebuilt(l, p, v).meant = [l.meant EXCEPT ![p] = v]
         /\ Rebuilt(l, p, v).unsure = l.unsure \ {p}
<1> DEFINE s == [q \in Params |-> Absent]
           c == IF host = "python" THEN Carried(last, Redone(l, p, v)) ELSE l.carry
           m == [l.meant EXCEPT ![p] = v]
<1>1. Rebuilt(l, p, v) = [l EXCEPT !.design = Redone(l, p, v), !.circuit = Redone(l, p, v),
                            !.info = Redone(l, p, v), !.dirty = <<>>,
                            !.staged = s, !.carry = c, !.meant = m, !.unsure = @ \ {p}]
  BY DEF Rebuilt, Redone
<1> HIDE DEF s, c, m
<1>2. /\ Rebuilt(l, p, v).design = Redone(l, p, v) /\ Rebuilt(l, p, v).circuit = Redone(l, p, v)
      /\ Rebuilt(l, p, v).info = Redone(l, p, v) /\ Rebuilt(l, p, v).dirty = <<>>
      /\ Rebuilt(l, p, v).carry = c /\ Rebuilt(l, p, v).meant = m
      /\ Rebuilt(l, p, v).unsure = l.unsure \ {p}
  BY <1>1 DEF Lives
<1> QED BY <1>2 DEF c, m

\* A rebuild that fails changes at most what is staged.
LEMMA NotRebuiltIs ==
  ASSUME NEW l \in Lives, NEW p \in Params, NEW v \in Nat
  PROVE  /\ NotRebuilt(l, p, v).design = l.design /\ NotRebuilt(l, p, v).circuit = l.circuit
         /\ NotRebuilt(l, p, v).info = l.info /\ NotRebuilt(l, p, v).dirty = l.dirty
         /\ NotRebuilt(l, p, v).carry = l.carry /\ NotRebuilt(l, p, v).meant = l.meant
         /\ NotRebuilt(l, p, v).unsure = l.unsure
<1> DEFINE s == [l.staged EXCEPT ![p] = v]
<1>1. NotRebuilt(l, p, v) = l \/ NotRebuilt(l, p, v) = [l EXCEPT !.staged = s]
  BY DEF NotRebuilt
<1> HIDE DEF s
<1> QED BY <1>1 DEF Lives

\* A transient that gives up ends, and the session is unsure of what landed since
\* the segment began.
LEMMA GivesUpIs ==
  ASSUME NEW l \in Lives, run \in Runs, GivesUp(l)
  PROVE  \E ps \in SUBSET Params :
           /\ ps = {run.landed[i].p : i \in {j \in DOMAIN run.landed : run.landed[j].t > run.seg}}
           /\ live' = [l EXCEPT !.unsure = @ \cup ps] /\ live' \in Lives
           /\ run' = [Idle EXCEPT !.result = "failed"] /\ run' \in Runs
           /\ run'.seg = 0 /\ run'.at = 0 /\ run'.pc = "idle" /\ run'.stop = 0
<1> DEFINE ps == {run.landed[i].p : i \in {j \in DOMAIN run.landed : run.landed[j].t > run.seg}}
<1>1. ps \in SUBSET Params
  <2>1. run.landed \in Seq(Entry)
    BY DEF Runs, Entries
  <2>2. \A i \in DOMAIN run.landed : run.landed[i] \in Entry
    BY <2>1
  <2> QED BY <2>2 DEF Entry
<1>2. live' = [l EXCEPT !.unsure = @ \cup ps] /\ run' = [Idle EXCEPT !.result = "failed"]
  BY DEF GivesUp
<1> HIDE DEF ps
<1>3. live' \in Lives
  BY <1>1, <1>2 DEF Lives
<1>4. run' \in Runs /\ run'.seg = 0 /\ run'.at = 0 /\ run'.pc = "idle" /\ run'.stop = 0
  BY <1>2, IdleType DEF Runs
<1> QED BY <1>1, <1>2, <1>3, <1>4 DEF ps

\* The writes waiting are those scheduled, and each is a write.
LEMMA WaitingType ==
  ASSUME run \in Runs
  PROVE  Waiting \subseteq Entry /\ Splitters \in SUBSET Nat
<1>1. run.scheduled \in Seq(Entry)
  BY DEF Runs, Entries
<1>2. \A i \in DOMAIN run.scheduled : run.scheduled[i] \in Entry
  BY <1>1
<1> QED BY <1>2 DEF Waiting, Splitters, Entry

\* The writes a segment is given are among those scheduled.
LEMMA SegSetsType ==
  ASSUME run \in Runs, NEW split
  PROVE  SegSets(split) \in Entries
<1>1. run.scheduled \in Seq(Entry)
  BY DEF Runs, Entries
<1>2. \A S : Among(run.scheduled, S) \in Seq(Entry)
  BY <1>1, AmongIs
<1> QED BY <1>1, <1>2 DEF SegSets, Entries

\* A segment begins with a split chosen among those there may be, the earliest.
LEMMA SegmentIs ==
  ASSUME run \in Runs, Segment
  PROVE  /\ run.pc \in {"early", "segment"} /\ run.todo = <<>>
         /\ UNCHANGED <<host, pending, calls, live, last>>
         /\ \E split \in {Never} \cup Splitters :
              run' = [run EXCEPT !.pc = "solve", !.at = run.seg, !.split = split,
                        !.todo = SegSets(split),
                        !.points = IF run.start <= run.seg THEN <<run.seg>> ELSE <<>>,
                        !.seeded = live.carry.of]
<1> DEFINE split == IF Splitters = {} THEN Never
                    ELSE CHOOSE t \in Splitters : \A u \in Splitters : t <= u
<1>1. split \in {Never} \cup Splitters
  <2>1. Splitters \in SUBSET Nat
    BY WaitingType
  <2>2. CASE Splitters # {}
    <3>1. PICK t \in Splitters : \A u \in Splitters : t <= u
      BY <2>1, <2>2, LeastExists
    <3>2. (CHOOSE w \in Splitters : \A u \in Splitters : w <= u) \in Splitters
      BY <3>1, Zenon
    <3> QED BY <2>2, <3>2
  <2> QED BY <2>2
<1>2. /\ run.pc \in {"early", "segment"} /\ run.todo = <<>>
      /\ UNCHANGED <<host, pending, calls, live, last>>
      /\ run' = [run EXCEPT !.pc = "solve", !.at = run.seg, !.split = split,
                        !.todo = SegSets(split),
                        !.points = IF run.start <= run.seg THEN <<run.seg>> ELSE <<>>,
                        !.seeded = live.carry.of]
  BY DEF Segment, Running
<1> HIDE DEF split
<1> QED BY <1>1, <1>2

\* A write that lands is the first of those due. It is applied, or passed over, or
\* the run gives up.
LEMMA LandIs ==
  ASSUME run \in Runs, Land
  PROVE  /\ run.pc = "solve" /\ UNCHANGED <<host, pending, calls, last>>
         /\ \E i \in DueNow : \E e \in Entry :
              /\ e = run.todo[i] /\ \A j \in DueNow : i <= j
              /\ \/ e.p \in PomOnly /\ GivesUp(live)
                 \/ /\ e.p \notin PomOnly /\ Flips(live, e.p)
                    /\ run' = [run EXCEPT !.todo = Among(run.todo, Waiting \ {e}), !.refused = TRUE]
                    /\ UNCHANGED live
                 \/ /\ e.p \notin PomOnly /\ ~Flips(live, e.p)
                    /\ live' = Stamped(live, e.p, e.v)
                    /\ run' = [run EXCEPT !.todo = Among(run.todo, Waiting \ {e}),
                                          !.landed = Append(@, e)]
<1>1. run.todo \in Seq(Entry)
  BY DEF Runs, Entries
<1>2. DueNow \in SUBSET Nat /\ \A i \in DueNow : run.todo[i] \in Entry
  BY <1>1 DEF DueNow
<1>3. PICK i : i = CHOOSE k \in DueNow : \A j \in DueNow : k <= j
  OBVIOUS
<1>4. i \in DueNow /\ \A j \in DueNow : i <= j
  <2>1. DueNow # {}
    BY DEF Land
  <2>2. \E k \in DueNow : \A j \in DueNow : k <= j
    BY <1>2, <2>1, LeastExists
  <2> QED BY <1>3, <2>2, Zenon
<1>5. PICK e \in Entry : e = run.todo[i]
  BY <1>2, <1>4
<1>6. /\ run.pc = "solve" /\ UNCHANGED <<host, pending, calls, last>>
      /\ \/ e.p \in PomOnly /\ GivesUp(live)
         \/ /\ e.p \notin PomOnly /\ Flips(live, e.p)
            /\ run' = [run EXCEPT !.todo = Among(run.todo, Waiting \ {e}), !.refused = TRUE]
            /\ UNCHANGED live
         \/ /\ e.p \notin PomOnly /\ ~Flips(live, e.p)
            /\ live' = Stamped(live, e.p, e.v)
            /\ run' = [run EXCEPT !.todo = Among(run.todo, Waiting \ {e}), !.landed = Append(@, e)]
  BY <1>3, <1>5, Zenon DEF Land, Running
<1> QED BY <1>4, <1>5, <1>6

\* The entries of the ledger that a segment's writes leave.
ToldBy(sets) == [i \in DOMAIN sets |-> <<sets[i].p, sets[i].v>>]

\* They are entries of a ledger.
LEMMA ToldByType ==
  ASSUME NEW sets \in Entries
  PROVE  /\ ToldBy(sets) \in Ledger /\ Len(ToldBy(sets)) = Len(sets)
         /\ \A i \in 1..Len(sets) : ToldBy(sets)[i][1] = sets[i].p /\ ToldBy(sets)[i][2] = sets[i].v
<1>1. DOMAIN sets = 1..Len(sets) /\ Len(sets) \in Nat /\ \A i \in 1..Len(sets) : sets[i] \in Entry
  BY DEF Entries
<1>2. \A i \in 1..Len(sets) : <<sets[i].p, sets[i].v>> \in Params \X Nat
  BY <1>1 DEF Entry
<1>3. ToldBy(sets) \in [1..Len(sets) -> Params \X Nat]
  BY <1>1, <1>2 DEF ToldBy
<1>4. ToldBy(sets) \in Ledger /\ Len(ToldBy(sets)) = Len(sets)
  BY <1>1, <1>3, ListIsSeq DEF Ledger
<1> QED BY <1>1, <1>4 DEF ToldBy

\* The writes that cross, as a set of parameters.
LEMMA CrossedType ==
  ASSUME NEW sets \in Entries
  PROVE  Crossed(sets) \in SUBSET Params
<1>1. \A i \in DOMAIN sets : sets[i] \in Entry
  BY DEF Entries
<1> QED BY <1>1 DEF Crossed, Entry

\* What the end of a segment leaves, field by field.
LEMMA SegmentEndIs ==
  ASSUME live \in Lives, run \in Runs, last \in Volts, SegmentEnd, run.at <= run.stop
  PROVE  \E sets \in Entries :
           /\ sets = SegSets(run.split)
           /\ live' \in Lives /\ last' \in Volts
           /\ live'.info = [p \in Params |-> IF p \in PomOnly THEN live.info[p]
                                             ELSE Told(ToldBy(sets), p, live.info[p])]
           /\ live'.dirty = IF host = "python" THEN live.dirty \o ToldBy(sets) ELSE live.dirty
           /\ live'.unsure = live.unsure \cup Crossed(sets)
           /\ live'.circuit = live.circuit /\ live'.meant = live.meant
           /\ live'.design = live.design
           /\ live'.carry = IF host = "python" /\ run.points # <<>> THEN Cold ELSE live.carry
           /\ last' = IF host = "python" /\ run.points # <<>> THEN Voltages(live.circuit, run.at)
                      ELSE last
<1>1. PICK sets \in Entries : sets = SegSets(run.split)
  BY SegSetsType
<1> DEFINE i == [p \in Params |-> IF p \in PomOnly THEN live.info[p]
                                  ELSE Told(ToldBy(sets), p, live.info[p])]
           d == IF host = "python" THEN live.dirty \o ToldBy(sets) ELSE live.dirty
           u == live.unsure \cup Crossed(sets)
           recorded == host = "python" /\ run.points # <<>>
           c == IF recorded THEN Cold ELSE live.carry
<1>2. NotedAll(live, sets) = [live EXCEPT !.info = i, !.dirty = d]
  BY DEF NotedAll, ToldBy
<1>3. /\ live' = IF recorded
                 THEN [[NotedAll(live, sets) EXCEPT !.unsure = @ \cup Crossed(sets)]
                          EXCEPT !.carry = Cold]
                 ELSE [NotedAll(live, sets) EXCEPT !.unsure = @ \cup Crossed(sets)]
      /\ last' = IF recorded THEN Voltages(live.circuit, run.at) ELSE last
  BY <1>1 DEF SegmentEnd
<1>4. /\ i \in Assignment /\ d \in Ledger /\ u \in SUBSET Params /\ c \in Volts
  <2>1. ToldBy(sets) \in Ledger
    BY ToldByType
  <2>2. live.info \in Assignment /\ live.dirty \in Ledger /\ live.carry \in Volts
    BY DEF Lives
  <2>3. i \in Assignment
    <3>1. \A p \in Params : live.info[p] \in Nat
      BY <2>2 DEF Assignment
    <3>2. \A p \in Params : Told(ToldBy(sets), p, live.info[p]) \in Nat
      BY <2>1, <3>1, ToldType
    <3> QED BY <3>1, <3>2 DEF Assignment
  <2>4. d \in Ledger
    BY <2>1, <2>2, ToldConcat
  <2>5. u \in SUBSET Params
    BY CrossedType DEF Lives
  <2>6. c \in Volts
    BY <2>2 DEF Cold, Volts
  <2> QED BY <2>3, <2>4, <2>5, <2>6
<1>5. Voltages(live.circuit, run.at) \in Volts
  <2>1. run.at \in 0..MaxTime
    BY SessionAssumption DEF Runs
  <2> QED BY <2>1, NetsType DEF Voltages, Volts
<1> HIDE DEF i, d, u, c
<1>6. live' = [live EXCEPT !.info = i, !.dirty = d, !.unsure = u, !.carry = c]
  <2>1. [live EXCEPT !.carry = live.carry] = live
    BY DEF Lives
  <2> QED BY <1>2, <1>3, <2>1 DEF Lives, u, c
<1>7. /\ live' \in Lives /\ live'.info = i /\ live'.dirty = d /\ live'.unsure = u
      /\ live'.carry = c /\ live'.circuit = live.circuit /\ live'.meant = live.meant
      /\ live'.design = live.design
  BY <1>4, <1>6 DEF Lives
<1>8. last' \in Volts
  BY <1>3, <1>5
<1> QED BY <1>1, <1>3, <1>7, <1>8 DEF i, d, u, c

\* A trace goes on with the points that are after it.
LEMMA StitchedType ==
  ASSUME NEW steps \in Seq(Nat), NEW points \in Seq(Nat)
  PROVE  Stitched(steps, points) \in Seq(Nat)
<1>1. \A S : Among(points, S) \in Seq(Nat)
  BY AmongIs
<1> QED BY <1>1, ConcatProperties DEF Stitched

\* An operation between transients keeps the types.
LEMMA CallTypes ==
  ASSUME TInv, Call
  PROVE  TInv'
<1> USE SessionAssumption
<1>1. ASSUME NEW w \in Writes
      PROVE  w[1] \in Params /\ w[2] \in Nat /\ w[2] # Absent
  OBVIOUS
<1>2. ASSUME Called
      PROVE  calls' \in 0..MaxCalls /\ run.pc = "idle"
  BY <1>2 DEF Called, TInv
<1>3. ASSUME NEW w \in Writes, Set(w[1], w[2])
      PROVE  TInv'
  <2>1. /\ live' \in Lives /\ Called /\ UNCHANGED <<host, pending, last, run>>
    BY <1>1, <1>3, OutcomesType DEF Set, TInv
  <2> QED BY <1>2, <2>1 DEF TInv
<1>4. ASSUME NEW w \in Writes, DcPoint(w[1], w[2])
      PROVE  TInv'
  <2>1. /\ Noted(live, w[1], w[2]) \in Lives
        /\ Noted(Stamped(live, w[1], w[2]), w[1], w[2]) \in Lives
    BY <1>1, NotedType, StampedType DEF TInv
  <2>2. [Noted(live, w[1], w[2]) EXCEPT !.unsure = @ \cup {w[1]}] \in Lives
    BY <1>1, <2>1 DEF Lives
  <2>3. /\ live' \in Lives /\ Called /\ UNCHANGED <<host, pending, last, run>>
    BY <1>4, <2>1, <2>2 DEF DcPoint
  <2> QED BY <1>2, <2>3 DEF TInv
<1>5. ASSUME NEW p \in Params, Sens(p)
      PROVE  TInv'
  <2>1. [live EXCEPT !.circuit = [@ EXCEPT ![p] = Nudged], !.unsure = @ \cup {p}] \in Lives
    <3>1. live \in Lives
      BY DEF TInv
    <3>2. [live.circuit EXCEPT ![p] = Nudged] \in Assignment
      BY <3>1 DEF Lives, Assignment, Nudged
    <3> QED BY <3>1, <3>2 DEF Lives
  <2>2. /\ live' \in Lives /\ Called /\ UNCHANGED <<host, pending, last, run>>
    BY <1>5, <2>1 DEF Sens, TInv
  <2> QED BY <1>2, <2>2 DEF TInv
<1>6. ASSUME Op
      PROVE  TInv'
  <2>1. last' \in Volts
    BY <1>6, NetsType DEF Op, Voltages, Volts
  <2>2. [live EXCEPT !.carry = Cold] \in Lives
    BY DEF TInv, Lives, Cold, Volts
  <2>3. /\ live' \in Lives /\ Called /\ UNCHANGED <<host, pending, run>>
    BY <1>6, <2>2 DEF Op
  <2> QED BY <1>2, <2>1, <2>3 DEF TInv
<1>7. ASSUME NEW w \in Writes, NEW t \in 0..MaxTime, ScheduleSet(t, w[1], w[2])
      PROVE  TInv'
  <2>1. PICK e : e = [t |-> t, p |-> w[1], v |-> w[2], n |-> Len(pending) + 1]
    OBVIOUS
  <2>2. pending \in Seq(Entry) /\ Len(pending) \in Nat
    BY DEF TInv, Entries
  <2>3. e \in Entry
    BY <1>1, <2>1, <2>2 DEF Entry
  <2>4. pending' = Append(pending, e) /\ Len(pending) < MaxPending
    BY <1>7, <2>1 DEF ScheduleSet
  <2>5. pending' \in Entries /\ Len(pending') <= MaxPending
    BY <2>2, <2>3, <2>4, AppendProperties DEF Entries
  <2>6. Called /\ UNCHANGED <<host, live, last, run>>
    BY <1>7 DEF ScheduleSet
  <2> QED BY <1>2, <2>5, <2>6 DEF TInv
<1>8. ASSUME NEW stop \in 1..MaxTime, NEW start \in 0..MaxTime, Tran(stop, start)
      PROVE  TInv'
  <2>1. /\ run' = [Idle EXCEPT !.pc = "early", !.stop = stop, !.start = start, !.todo = pending]
        /\ pending' = <<>> /\ Called /\ UNCHANGED host
        /\ last' = Earlier(last) /\ live' = [live EXCEPT !.carry = Earlier(@)]
    BY <1>8 DEF Tran
  <2>2. /\ run' \in Runs /\ run'.seg = 0 /\ run'.at = 0 /\ run'.stop = stop /\ run'.pc = "early"
    <3>1. Idle \in Runs /\ Idle.seg = 0 /\ Idle.at = 0
      BY IdleType
    <3>2. stop \in 0..MaxTime /\ pending \in Entries
      BY DEF TInv
    <3> QED BY <2>1, <3>1, <3>2 DEF Runs
  <2>3. \A volts \in Volts : Earlier(volts) \in Volts
    BY DEF Earlier, Volts
  <2>4. last' \in Volts /\ live' \in Lives
    <3>1. Earlier(live.carry) \in Volts
      BY <2>3 DEF TInv, Lives
    <3> QED BY <2>1, <2>3, <3>1 DEF TInv, Lives
  <2>5. pending' \in Entries /\ Len(pending') <= MaxPending
    BY <2>1 DEF Entries
  <2> QED BY <1>2, <2>1, <2>2, <2>4, <2>5 DEF TInv
<1> QED BY <1>3, <1>4, <1>5, <1>6, <1>7, <1>8 DEF Call

\* A step of a transient keeps the types.
LEMMA TransientTypes ==
  ASSUME TInv,
         Early \/ Segment \/ Land \/ Advance \/ SolveFails \/ SegmentEnd \/ Split \/ Restart
  PROVE  TInv'
<1> USE SessionAssumption
<1>1. /\ live \in Lives /\ last \in Volts /\ run \in Runs /\ host \in {"rust", "python"}
      /\ run.seg <= run.at /\ run.at <= run.stop /\ calls \in 0..MaxCalls
      /\ pending \in Entries /\ Len(pending) <= MaxPending
  BY DEF TInv
<1>2. ASSUME UNCHANGED <<host, pending, calls>>, live' \in Lives, last' \in Volts, run' \in Runs,
             run'.seg <= run'.at, run'.at <= run'.stop,
             run'.pc = "solve" /\ run'.split # Never =>
               run'.seg < run'.split /\ run'.at <= run'.split /\ run'.split <= run'.stop,
             run'.pc = "split" => run'.split = run'.at
      PROVE  TInv'
  BY <1>1, <1>2 DEF TInv
<1>3. ASSUME NEW s \in Entries, s # <<>>
      PROVE  Head(s) \in Entry /\ Tail(s) \in Entries
  BY <1>3, HeadTailProperties DEF Entries
<1>4. ASSUME NEW l \in Lives, UNCHANGED <<host, pending, calls, last>>, GivesUp(l)
      PROVE  TInv'
  <2>1. /\ live' \in Lives /\ run' \in Runs /\ run'.seg = 0 /\ run'.at = 0 /\ run'.pc = "idle"
        /\ run'.stop = 0
    BY <1>1, <1>4, GivesUpIs
  <2> QED BY <1>1, <1>2, <1>4, <2>1
<1>5. ASSUME NEW l \in Lives, UNCHANGED <<host, pending, calls, last>>, live' = l,
             run' = [Idle EXCEPT !.result = "failed"]
      PROVE  TInv'
  <2>1. /\ run' \in Runs /\ run'.seg = 0 /\ run'.at = 0 /\ run'.pc = "idle" /\ run'.stop = 0
    BY <1>5, IdleType DEF Runs
  <2> QED BY <1>1, <1>2, <1>5, <2>1
<1>6. CASE Early
  <2>1. PICK e \in Entry : e = Head(run.todo)
    BY <1>1, <1>3, <1>6 DEF Early, Runs
  <2>2. Tail(run.todo) \in Entries /\ run.pc = "early" /\ UNCHANGED <<host, pending, calls, last>>
    BY <1>1, <1>3, <1>6 DEF Early, Runs, Running
  <2>3. e.p \in Params /\ e.v \in Nat
    BY DEF Entry
  <2>4. CASE e.t = 0
    <3>1. PICK o \in SetOutcomes(live, e.p, e.v, FALSE) :
            IF o.ok THEN live' = o.live /\ run' = [run EXCEPT !.todo = Tail(@)] ELSE GivesUp(o.live)
      BY <1>6, <2>1, <2>4 DEF Early
    <3>2. o.live \in Lives
      BY <1>1, <2>3, OutcomesType
    <3>3. CASE o.ok
      <4>1. live' = o.live /\ run' = [run EXCEPT !.todo = Tail(@)]
        BY <3>1, <3>3
      <4>2. /\ run' \in Runs /\ run'.seg = run.seg /\ run'.at = run.at /\ run'.pc = run.pc
            /\ run'.stop = run.stop
        BY <1>1, <2>2, <4>1 DEF Runs
      <4> QED BY <1>1, <1>2, <2>2, <3>2, <4>1, <4>2
    <3>4. CASE ~o.ok
      BY <1>4, <2>2, <3>1, <3>2, <3>4
    <3> QED BY <3>3, <3>4
  <2>5. CASE e.t # 0
    <3>1. /\ run' = [run EXCEPT !.todo = Tail(@), !.scheduled = Append(@, e), !.plan = Append(@, e)]
          /\ UNCHANGED live
      BY <1>6, <2>1, <2>5 DEF Early
    <3>2. Append(run.scheduled, e) \in Entries /\ Append(run.plan, e) \in Entries
      BY <1>1, AppendProperties DEF Runs, Entries
    <3>3. /\ run' \in Runs /\ run'.seg = run.seg /\ run'.at = run.at /\ run'.pc = run.pc
          /\ run'.stop = run.stop
      BY <1>1, <2>2, <3>1, <3>2 DEF Runs
    <3> QED BY <1>1, <1>2, <2>2, <3>1, <3>3
  <2> QED BY <2>4, <2>5
<1>7. CASE Segment
  <2>1. PICK split \in {Never} \cup Splitters :
          run' = [run EXCEPT !.pc = "solve", !.at = run.seg, !.split = split,
                    !.todo = SegSets(split),
                    !.points = IF run.start <= run.seg THEN <<run.seg>> ELSE <<>>,
                    !.seeded = live.carry.of]
    BY <1>1, <1>7, SegmentIs
  <2>2. UNCHANGED <<host, pending, calls, live, last>>
    BY <1>1, <1>7, SegmentIs
  <2>3. SegSets(split) \in Entries /\ split \in {Never} \cup Nat
    BY <1>1, SegSetsType, WaitingType
  <2>4. (IF run.start <= run.seg THEN <<run.seg>> ELSE <<>>) \in Seq(Nat)
    BY <1>1 DEF Runs
  <2>5. live.carry.of \in {Never, Before} \cup Nat
    BY <1>1 DEF Lives, Volts
  <2>6. run' \in Runs /\ run'.seg = run.seg /\ run'.at = run.seg /\ run'.split = split
        /\ run'.stop = run.stop /\ run'.pc = "solve"
    BY <1>1, <2>1, <2>3, <2>4, <2>5 DEF Runs
  <2>7. split # Never => run.seg < split /\ split <= run.stop
    BY DEF Splitters, InSegment
  <2>8. run.seg \in Nat /\ run.stop \in Nat /\ run.at \in Nat
    BY <1>1 DEF Runs
  <2>9. run'.seg <= run'.at /\ run'.at <= run'.stop
    BY <1>1, <2>6, <2>8
  <2>10. run'.split # Never =>
           run'.seg < run'.split /\ run'.at <= run'.split /\ run'.split <= run'.stop
    BY <2>3, <2>6, <2>7, <2>8
  <2>11. live' \in Lives /\ last' \in Volts
    BY <1>1, <2>2
  <2> QED BY <1>2, <2>2, <2>6, <2>9, <2>10, <2>11
<1>8. CASE Land
  <2>1. run.pc = "solve" /\ UNCHANGED <<host, pending, calls, last>>
    BY <1>1, <1>8, LandIs
  <2>2. PICK e \in Entry :
          \/ e.p \in PomOnly /\ GivesUp(live)
          \/ /\ run' = [run EXCEPT !.todo = Among(run.todo, Waiting \ {e}), !.refused = TRUE]
             /\ UNCHANGED live
          \/ /\ live' = Stamped(live, e.p, e.v)
             /\ run' = [run EXCEPT !.todo = Among(run.todo, Waiting \ {e}), !.landed = Append(@, e)]
    BY <1>1, <1>8, LandIs
  <2>3. PICK rest \in Entries : rest = Among(run.todo, Waiting \ {e})
    BY <1>1, AmongIs DEF Runs, Entries
  <2>4. CASE GivesUp(live)
    BY <1>1, <1>4, <2>1, <2>4
  <2>5. CASE run' = [run EXCEPT !.todo = rest, !.refused = TRUE] /\ UNCHANGED live
    <3>1. /\ run' \in Runs /\ run'.seg = run.seg /\ run'.at = run.at /\ run'.pc = run.pc
          /\ run'.stop = run.stop /\ run'.split = run.split
      BY <1>1, <2>5 DEF Runs
    <3> QED BY <1>1, <1>2, <2>1, <2>5, <3>1 DEF TInv
  <2>6. CASE /\ live' = Stamped(live, e.p, e.v)
             /\ run' = [run EXCEPT !.todo = rest, !.landed = Append(@, e)]
    <3>1. Append(run.landed, e) \in Entries
      BY <1>1, AppendProperties DEF Runs, Entries
    <3>2. /\ run' \in Runs /\ run'.seg = run.seg /\ run'.at = run.at /\ run'.pc = run.pc
          /\ run'.stop = run.stop /\ run'.split = run.split
      BY <1>1, <2>6, <3>1 DEF Runs
    <3>3. live' \in Lives
      <4>1. e.p \in Params /\ e.v \in Nat
        BY DEF Entry
      <4> QED BY <1>1, <2>6, <4>1, StampedType
    <3> QED BY <1>1, <1>2, <2>1, <3>2, <3>3 DEF TInv
  <2> QED BY <2>2, <2>3, <2>4, <2>5, <2>6
<1>9. CASE Advance
  <2>1. /\ run' = [run EXCEPT !.at = @ + 1,
                     !.points = IF run.start <= run.at + 1 THEN Append(@, run.at + 1) ELSE @]
        /\ run.pc = "solve" /\ run.at < SegStopAt(run.split)
        /\ UNCHANGED <<host, pending, calls, live, last>>
    BY <1>9 DEF Advance, Running
  <2>2. run.points \in Seq(Nat) /\ run.at + 1 \in Nat
    BY <1>1 DEF Runs
  <2>3. Append(run.points, run.at + 1) \in Seq(Nat)
    BY <2>2, AppendProperties
  <2>4. /\ run' \in Runs /\ run'.seg = run.seg /\ run'.at = run.at + 1 /\ run'.pc = run.pc
        /\ run'.stop = run.stop /\ run'.split = run.split
    BY <1>1, <2>1, <2>2, <2>3 DEF Runs
  <2>5. /\ run.seg \in Nat /\ run.at \in Nat /\ run.stop \in Nat
        /\ run.split \in {Never} \cup Nat
    BY <1>1 DEF Runs
  <2>6. run.at + 1 <= run.stop /\ (run.split # Never => run.at + 1 <= run.split)
    BY <2>1, <2>5 DEF SegStopAt, TInv
  <2>7. run'.seg <= run'.at /\ run'.at <= run'.stop
    BY <1>1, <2>4, <2>5, <2>6
  <2> QED BY <1>1, <1>2, <2>1, <2>4, <2>6, <2>7 DEF TInv
<1>10. CASE SolveFails
  BY <1>1, <1>4, <1>10 DEF SolveFails, Running
<1>11. CASE SegmentEnd
  <2>1. live' \in Lives /\ last' \in Volts
    BY <1>1, <1>11, SegmentEndIs
  <2>2. PICK steps \in Seq(Nat) : steps = Stitched(run.steps, run.points)
    BY <1>1, StitchedType DEF Runs
  <2>3. /\ run' = IF run.split = Never
                  THEN [Idle EXCEPT !.result = "ok", !.stop = run.stop, !.start = run.start,
                                    !.steps = steps, !.plan = run.plan, !.landed = run.landed,
                                    !.splits = run.splits]
                  ELSE [run EXCEPT !.pc = "split", !.steps = steps, !.splits = @ \cup {run.split},
                             !.todo = Among(run.scheduled, {e \in Waiting : e.t = run.split})]
        /\ UNCHANGED <<host, pending, calls>> /\ run.at = SegStopAt(run.split)
    BY <1>11, <2>2 DEF SegmentEnd, Running
  <2>4. CASE run.split = Never
    <3>1. /\ run.stop \in 0..MaxTime /\ run.start \in 0..MaxTime /\ run.plan \in Entries
          /\ run.landed \in Entries /\ run.splits \in SUBSET Nat
      BY <1>1 DEF Runs
    <3>2. /\ run' \in Runs /\ run'.seg = 0 /\ run'.at = 0 /\ run'.pc = "idle"
          /\ run'.stop = run.stop
      BY <2>3, <2>4, <3>1, IdleType DEF Runs
    <3> QED BY <1>2, <2>1, <2>3, <3>1, <3>2
  <2>5. CASE run.split # Never
    <3>1. PICK todo \in Entries : todo = Among(run.scheduled, {e \in Waiting : e.t = run.split})
      BY <1>1, AmongIs DEF Runs, Entries
    <3>2. run.split \in Nat
      BY <1>1, <2>5 DEF Runs
    <3>3. /\ run' \in Runs /\ run'.seg = run.seg /\ run'.at = run.at /\ run'.pc = "split"
          /\ run'.stop = run.stop /\ run'.split = run.split
      BY <1>1, <2>3, <2>5, <3>1, <3>2 DEF Runs
    <3> QED BY <1>1, <1>2, <2>1, <2>3, <2>5, <3>3 DEF SegStopAt
  <2> QED BY <2>4, <2>5
<1>12. CASE Split
  <2>1. PICK e \in Entry : e = Head(run.todo)
    BY <1>1, <1>3, <1>12 DEF Split, Runs
  <2>2. Tail(run.todo) \in Entries /\ run.pc = "split" /\ UNCHANGED <<host, pending, calls, last>>
    BY <1>1, <1>3, <1>12 DEF Split, Runs, Running
  <2>3. e.p \in Params /\ e.v \in Nat
    BY DEF Entry
  <2>4. CASE Structural(e)
    <3>1. PICK o \in SetOutcomes(live, e.p, e.v, FALSE) :
            IF o.ok THEN live' = o.live /\ run' = [run EXCEPT !.todo = Tail(@), !.landed = Append(@, e)]
            ELSE live' = o.live /\ run' = [Idle EXCEPT !.result = "failed"]
      BY <1>12, <2>1, <2>4 DEF Split
    <3>2. o.live \in Lives
      BY <1>1, <2>3, OutcomesType
    <3>3. CASE o.ok
      <4>1. Append(run.landed, e) \in Entries
        BY <1>1, AppendProperties DEF Runs, Entries
      <4>2. live' = o.live /\ run' = [run EXCEPT !.todo = Tail(@), !.landed = Append(@, e)]
        BY <3>1, <3>3
      <4>3. /\ run' \in Runs /\ run'.seg = run.seg /\ run'.at = run.at /\ run'.pc = run.pc
            /\ run'.stop = run.stop /\ run'.split = run.split
        BY <1>1, <2>2, <4>1, <4>2 DEF Runs
      <4> QED BY <1>1, <1>2, <2>2, <3>2, <4>3, <4>2 DEF TInv
    <3>4. CASE ~o.ok
      BY <1>5, <2>2, <3>1, <3>2, <3>4
    <3> QED BY <3>3, <3>4
  <2>5. CASE ~Structural(e)
    <3>1. run' = [run EXCEPT !.todo = Tail(@)] /\ UNCHANGED live
      BY <1>12, <2>1, <2>5 DEF Split
    <3>2. /\ run' \in Runs /\ run'.seg = run.seg /\ run'.at = run.at /\ run'.pc = run.pc
          /\ run'.stop = run.stop /\ run'.split = run.split
      BY <1>1, <2>2, <3>1 DEF Runs
    <3> QED BY <1>1, <1>2, <2>2, <3>1, <3>2 DEF TInv
  <2> QED BY <2>4, <2>5
<1>13. CASE Restart
  <2>1. PICK left \in Entries : left = Among(run.scheduled, {e \in Waiting : e.t > run.split})
    BY <1>1, AmongIs DEF Runs, Entries
  <2>2. /\ run' = [run EXCEPT !.pc = "segment", !.seg = run.split, !.scheduled = left]
        /\ run.pc = "split" /\ UNCHANGED <<host, pending, calls, live, last>>
    BY <1>13, <2>1 DEF Restart, Running
  <2>3. run.split = run.at /\ run.at \in Nat
    BY <1>1, <2>2 DEF TInv, Runs
  <2>4. /\ run' \in Runs /\ run'.seg = run.at /\ run'.at = run.at /\ run'.pc = "segment"
        /\ run'.stop = run.stop
    BY <1>1, <2>1, <2>2, <2>3 DEF Runs
  <2> QED BY <1>1, <1>2, <2>2, <2>3, <2>4
<1> QED BY <1>6, <1>7, <1>8, <1>9, <1>10, <1>11, <1>12, <1>13

\* A session begins with nothing carried and no transient under way.
LEMMA InitTypes == Init => TInv
<1> SUFFICES ASSUME Init PROVE TInv
  OBVIOUS
<1>1. live \in Lives
  <2>1. /\ InitDesign \in Assignment /\ [p \in Params |-> Absent] \in Assignment
        /\ <<>> \in Ledger /\ Cold \in Volts
    BY SessionAssumption DEF Assignment, Absent, Ledger, Cold, Volts
  <2> QED BY <2>1 DEF Init, Lives
<1>2. last \in Volts /\ pending \in Entries /\ Len(pending) <= MaxPending /\ calls \in 0..MaxCalls
  BY SessionAssumption DEF Init, Cold, Volts, Entries
<1>3. run \in Runs /\ run.seg = 0 /\ run.at = 0 /\ run.pc = "idle" /\ run.stop = 0
  BY IdleType DEF Init
<1> QED BY <1>1, <1>2, <1>3 DEF Init, TInv

\* Every step keeps the types.
LEMMA TypesKept == TInv /\ [Next]_vars => TInv'
<1> SUFFICES ASSUME TInv, [Next]_vars PROVE TInv'
  OBVIOUS
<1>1. CASE Call
  BY <1>1, CallTypes
<1>2. CASE Early \/ Segment \/ Land \/ Advance \/ SolveFails \/ SegmentEnd \/ Split \/ Restart
  BY <1>2, TransientTypes
<1>3. CASE UNCHANGED vars
  BY <1>3 DEF vars, TInv
<1> QED BY <1>1, <1>2, <1>3 DEF Next

\* The session, what it holds and its clock keep their types, and a segment of a
\* transient never runs past its end.
THEOREM TypeCorrect == Spec => [](TInv /\ TypeOK)
<1>1. Init => TInv
  BY InitTypes
<1>2. TInv /\ [Next]_vars => TInv'
  BY TypesKept
<1>3. TInv => TypeOK
  BY TInvTypes
<1> QED BY <1>1, <1>2, <1>3, PTL DEF Spec

-----------------------------------------------------------------------------
(* The trace of a run.                                                       *)

\* The instants from a to b.
Trace(a, b) == [i \in 1..(IF a > b THEN 0 ELSE b - a + 1) |-> a + i - 1]

\* It is a sequence of instants.
LEMMA TraceType ==
  ASSUME NEW a \in Nat, NEW b \in Nat
  PROVE  /\ Trace(a, b) \in Seq(Nat)
         /\ a > b => Len(Trace(a, b)) = 0
         /\ a <= b => Len(Trace(a, b)) = b - a + 1
         /\ \A i \in 1..Len(Trace(a, b)) : Trace(a, b)[i] = a + i - 1
<1> DEFINE l == IF a > b THEN 0 ELSE b - a + 1
<1>1. l \in Nat /\ (a > b => l = 0) /\ (a <= b => l = b - a + 1) /\ l <= b + 1
  OBVIOUS
<1>2. Trace(a, b) = [i \in 1..l |-> a + i - 1]
  BY Zenon DEF Trace
<1> HIDE DEF l
<1>3. \A i \in 1..l : a + i - 1 \in Nat
  BY <1>1
<1>4. Trace(a, b) \in [1..l -> Nat]
  BY <1>2, <1>3
<1>5. Trace(a, b) \in Seq(Nat) /\ Len(Trace(a, b)) = l
  BY <1>1, <1>4, ListIsSeq
<1> QED BY <1>1, <1>2, <1>5

\* As long as it is,
LEMMA TraceLong ==
  ASSUME NEW a \in Nat, NEW b \in Nat, a <= b
  PROVE  Len(Trace(a, b)) = b - a + 1
BY TraceType

\* with each instant in its place.
LEMMA TraceAt ==
  ASSUME NEW a \in Nat, NEW b \in Nat, NEW i \in 1..Len(Trace(a, b))
  PROVE  Trace(a, b)[i] = a + i - 1
BY TraceType

\* There is none after its end,
LEMMA TraceNone ==
  ASSUME NEW a \in Nat, NEW b \in Nat, a > b
  PROVE  Trace(a, b) = <<>>
<1>1. Len(Trace(a, b)) = 0 /\ Trace(a, b) \in Seq(Nat)
  BY TraceType
<1> QED BY <1>1, EmptySeq

\* one at its end,
LEMMA TraceOne ==
  ASSUME NEW a \in Nat
  PROVE  Trace(a, a) = <<a>>
<1>1. PICK q \in Seq(Nat) : q = Trace(a, a)
  BY TraceType
<1>2. Len(q) = 1
  <2>1. a <= a
    OBVIOUS
  <2>2. Len(q) = a - a + 1
    BY <1>1, <2>1, TraceLong, Zenon
  <2> QED BY <2>2
<1>3. q[1] = a
  <2>1. 1 \in 1..Len(q)
    BY <1>2
  <2>2. q[1] = a + 1 - 1
    BY <1>1, <2>1, TraceAt, Zenon
  <2> QED BY <2>2
<1>4. q = <<q[1]>>
  BY <1>2
<1> QED BY <1>1, <1>3, <1>4

\* and the next instant makes it one longer, from its start on.
LEMMA TraceNext ==
  ASSUME NEW a \in Nat, NEW b \in Nat
  PROVE  Trace(a, b + 1) = IF a <= b + 1 THEN Append(Trace(a, b), b + 1) ELSE Trace(a, b)
<1>1. CASE a > b + 1
  <2>1. Trace(a, b) = <<>> /\ Trace(a, b + 1) = <<>>
    BY <1>1, TraceNone
  <2> QED BY <1>1, <2>1
<1>2. CASE a <= b + 1
  <2>0. PICK c \in Nat : c = b + 1
    OBVIOUS
  <2>1. PICK q \in Seq(Nat) : q = Trace(a, b)
    BY TraceType
  <2>2. PICK r \in Seq(Nat) : r = Append(q, c)
    BY AppendProperties
  <2>3. PICK w \in Seq(Nat) : w = Trace(a, c)
    BY TraceType
  <2>4. Len(q) = c - a /\ Len(w) = c - a + 1 /\ Len(r) = Len(q) + 1
    <3>1. Len(q) = c - a
      <4>1. CASE a = c
        BY <2>0, <2>1, <4>1, TraceNone
      <4>2. CASE a <= b
        <5>1. Len(q) = b - a + 1
          BY <2>1, <4>2, TraceLong, Zenon
        <5> QED BY <2>0, <5>1
      <4> QED BY <1>2, <2>0, <4>1, <4>2
    <3>2. Len(w) = c - a + 1
      BY <1>2, <2>0, <2>3, TraceLong
    <3>3. Len(r) = Len(q) + 1
      BY <2>2, AppendProperties
    <3> QED BY <3>1, <3>2, <3>3
  <2>5. ASSUME NEW i \in 1..Len(w)
        PROVE  w[i] = r[i]
    <3>1. w[i] = a + i - 1
      BY <2>3, <2>5, TraceAt
    <3>2. CASE i = Len(q) + 1
      <4>1. r[i] = c
        BY <2>2, <3>2, AppendProperties
      <4> QED BY <2>4, <3>1, <3>2, <4>1
    <3>3. CASE i # Len(q) + 1
      <4>1. i \in 1..Len(q)
        BY <2>4, <3>3
      <4>2. q[i] = a + i - 1
        BY <2>1, <4>1, TraceAt
      <4>3. r[i] = q[i]
        BY <2>2, <4>1, AppendProperties
      <4> QED BY <3>1, <4>2, <4>3
    <3> QED BY <3>2, <3>3
  <2>6. w = r
    BY <2>4, <2>5
  <2> QED BY <1>2, <2>0, <2>1, <2>2, <2>3, <2>6
<1> QED BY <1>1, <1>2

\* Two traces that meet are stitched into one: the instant they share is kept once.
LEMMA TraceStitch ==
  ASSUME NEW a \in Nat, NEW m \in Nat, NEW b \in 0..MaxTime, m <= b
  PROVE  /\ a <= m => Stitched(Trace(a, m), Trace(m, b)) = Trace(a, b)
         /\ Stitched(<<>>, Trace(a, b)) = Trace(a, b)
<1>1. MaxTime \in Nat /\ b \in Nat /\ b <= MaxTime
  BY SessionAssumption
<1> DEFINE Later(steps) == {t \in 0..MaxTime : steps = <<>> \/ t > steps[Len(steps)]}
<1>2. ASSUME a <= m
      PROVE  Stitched(Trace(a, m), Trace(m, b)) = Trace(a, b)
  <2>1. PICK q \in Seq(Nat) : q = Trace(a, m)
    BY TraceType
  <2>2. PICK r \in Seq(Nat) : r = Trace(m, b)
    BY <1>1, TraceType
  <2>3. PICK w \in Seq(Nat) : w = Trace(a, b)
    BY <1>1, TraceType
  <2>4. PICK k \in Nat : k = m - a + 1
    BY <1>2
  <2>5. PICK l \in Nat : l = b - m
    BY <1>1
  <2>6. Len(q) = k /\ Len(r) = l + 1 /\ Len(w) = k + l
    <3>1. Len(q) = k
      BY <1>2, <2>1, <2>4, TraceLong
    <3>2. Len(r) = l + 1
      BY <1>1, <2>2, <2>5, TraceLong
    <3>3. Len(w) = k + l
      <4>1. a <= b
        BY <1>1, <1>2
      <4>2. Len(w) = b - a + 1
        BY <1>1, <2>3, <4>1, TraceLong, Zenon
      <4> QED BY <1>1, <2>4, <2>5, <4>2
    <3> QED BY <3>1, <3>2, <3>3
  <2>7. /\ \A i \in 1..k : q[i] = a + i - 1
        /\ \A i \in 1..(l + 1) : r[i] = m + i - 1
        /\ \A i \in 1..(k + l) : w[i] = a + i - 1
    <3>1. \A i \in 1..k : q[i] = a + i - 1
      BY <2>1, <2>6, TraceAt
    <3>2. \A i \in 1..(l + 1) : r[i] = m + i - 1
      <4>1. \A i \in 1..Len(r) : r[i] = m + i - 1
        BY <1>1, <2>2, TraceAt, Zenon
      <4> QED BY <2>6, <4>1
    <3>3. \A i \in 1..(k + l) : w[i] = a + i - 1
      <4>1. \A i \in 1..Len(w) : w[i] = a + i - 1
        BY <1>1, <2>3, TraceAt, Zenon
      <4> QED BY <2>6, <4>1
    <3> QED BY <3>1, <3>2, <3>3
  <2>8. q # <<>> /\ q[Len(q)] = m
    <3>1. k \in 1..k /\ a + k - 1 = m
      BY <1>2, <2>4
    <3>2. q[k] = a + k - 1
      BY <2>7, <3>1
    <3>3. q # <<>>
      BY <2>6, <3>1
    <3> QED BY <2>6, <3>1, <3>2, <3>3
  <2>9. Later(q) = {t \in 0..MaxTime : t > m}
    BY <2>8
  <2>10. \A i \in 1..Len(r) : r[i] \in Later(q) <=> i > 1
    <3> SUFFICES ASSUME NEW i \in 1..Len(r) PROVE r[i] \in Later(q) <=> i > 1
      OBVIOUS
    <3>1. r[i] = m + i - 1 /\ i <= l + 1 /\ i \in Nat
      BY <2>5, <2>6, <2>7
    <3>2. r[i] \in 0..MaxTime
      BY <1>1, <2>5, <3>1
    <3> HIDE DEF Later
    <3> QED BY <2>9, <3>1, <3>2
  <2>11. 1 \in 0..Len(r)
    BY <2>5, <2>6
  <2>12. Among(r, Later(q)) = [i \in 1..(Len(r) - 1) |-> r[1 + i]]
    <3> HIDE DEF Later
    <3> QED BY <2>10, <2>11, AmongSuffix
  <2>13. PICK f : f = [i \in 1..l |-> r[1 + i]]
    OBVIOUS
  <2>14. f \in Seq(Nat) /\ Len(f) = l
    <3>1. \A i \in 1..l : 1 + i \in 1..Len(r)
      BY <2>5, <2>6
    <3>2. f \in [1..l -> Nat]
      BY <2>13, <3>1
    <3> QED BY <2>5, <3>2, ListIsSeq
  <2>15. Among(r, Later(q)) = f
    <3>1. Len(r) - 1 = l
      BY <2>5, <2>6
    <3> HIDE DEF Later
    <3> QED BY <2>12, <2>13, <3>1
  <2>16. PICK z \in Seq(Nat) : z = q \o f
    BY <2>14, ConcatProperties
  <2>17. Len(z) = k + l /\ \A i \in 1..(k + l) : z[i] = IF i <= k THEN q[i] ELSE f[i - k]
    BY <2>6, <2>14, <2>16, ConcatProperties
  <2>18. ASSUME NEW i \in 1..(k + l)
         PROVE  z[i] = w[i]
    <3>1. CASE i <= k
      BY <2>4, <2>7, <2>17, <3>1
    <3>2. CASE ~(i <= k)
      <4>1. i - k \in 1..l /\ 1 + (i - k) \in 1..(l + 1)
        BY <2>4, <2>5, <3>2
      <4>2. z[i] = m + (1 + (i - k)) - 1
        BY <2>7, <2>13, <2>17, <3>2, <4>1
      <4> QED BY <2>4, <2>7, <4>2
    <3> QED BY <3>1, <3>2
  <2>19. z = w
    BY <2>6, <2>17, <2>18
  <2> QED BY <2>1, <2>2, <2>3, <2>15, <2>16, <2>19 DEF Stitched
<1>3. Stitched(<<>>, Trace(a, b)) = Trace(a, b)
  <2>1. PICK r \in Seq(Nat) : r = Trace(a, b)
    BY <1>1, TraceType
  <2>2. PICK l \in Nat : l = Len(r)
    BY <2>1
  <2>3. Later(<<>>) = 0..MaxTime
    OBVIOUS
  <2>4. \A i \in 1..Len(r) : r[i] \in 0..MaxTime
    <3> SUFFICES ASSUME NEW i \in 1..Len(r) PROVE r[i] \in 0..MaxTime
      OBVIOUS
    <3>1. r[i] = a + i - 1
      BY <1>1, <2>1, TraceType
    <3>2. (a > b => Len(r) = 0) /\ (a <= b => Len(r) = b - a + 1)
      BY <1>1, <2>1, TraceType
    <3> QED BY <1>1, <3>1, <3>2
  <2>5. Among(r, 0..MaxTime) = r
    BY <2>1, <2>4, AmongAll
  <2>8. <<>> \o r = r
    OBVIOUS
  <2> QED BY <2>1, <2>3, <2>5, <2>8 DEF Stitched
<1> QED BY <1>2, <1>3

-----------------------------------------------------------------------------
(* The steps of a transient, by what they do.                                *)

\* Before the run: the head of the writes is made or scheduled.
LEMMA EarlyIs ==
  ASSUME TInv, Early
  PROVE  /\ run.pc = "early" /\ run.todo # <<>> /\ UNCHANGED <<host, pending, calls, last>>
         /\ \E e \in Entry, left \in Entries :
              /\ e = Head(run.todo) /\ left = Tail(run.todo)
              /\ \/ \E o \in SetOutcomes(live, e.p, e.v, FALSE) :
                      /\ e.t = 0 /\ o.ok = TRUE /\ live' = o.live
                      /\ run' = [run EXCEPT !.todo = left]
                 \/ \E o \in SetOutcomes(live, e.p, e.v, FALSE) :
                      e.t = 0 /\ o.ok = FALSE /\ GivesUp(o.live)
                 \/ /\ e.t # 0 /\ UNCHANGED live
                    /\ run' = [run EXCEPT !.todo = left, !.scheduled = Append(@, e),
                                          !.plan = Append(@, e)]
<1>1. run.todo \in Seq(Entry) /\ run.todo # <<>> /\ run.pc = "early"
  BY DEF Early, TInv, Runs, Entries
<1>2. PICK e \in Entry : e = Head(run.todo)
  BY <1>1, HeadTailProperties
<1>3. PICK left \in Entries : left = Tail(run.todo)
  BY <1>1, HeadTailProperties DEF Entries
<1>4. UNCHANGED <<host, pending, calls, last>>
  BY DEF Early, Running
<1>5. CASE e.t = 0
  <2>1. PICK o \in SetOutcomes(live, e.p, e.v, FALSE) :
          IF o.ok THEN live' = o.live /\ run' = [run EXCEPT !.todo = Tail(@)] ELSE GivesUp(o.live)
    BY <1>2, <1>5 DEF Early
  <2>2. o.ok = TRUE \/ o.ok = FALSE
    BY Outcomes
  <2>3. CASE o.ok = TRUE
    BY <1>1, <1>2, <1>3, <1>4, <1>5, <2>1, <2>3
  <2>4. CASE o.ok = FALSE
    BY <1>1, <1>2, <1>3, <1>4, <1>5, <2>1, <2>4
  <2> QED BY <2>2, <2>3, <2>4
<1>6. CASE e.t # 0
  <2>1. /\ run' = [run EXCEPT !.todo = left, !.scheduled = Append(@, e), !.plan = Append(@, e)]
        /\ UNCHANGED live
    BY <1>2, <1>3, <1>6 DEF Early
  <2> QED BY <1>1, <1>2, <1>3, <1>4, <1>6, <2>1
<1> QED BY <1>5, <1>6

\* At a split: the head of its writes is made if it is structural.
LEMMA SplitIs ==
  ASSUME TInv, Split
  PROVE  /\ run.pc = "split" /\ run.todo # <<>> /\ UNCHANGED <<host, pending, calls, last>>
         /\ \E e \in Entry, left \in Entries :
              /\ e = Head(run.todo) /\ left = Tail(run.todo)
              /\ \/ \E o \in SetOutcomes(live, e.p, e.v, FALSE) :
                      /\ Structural(e) /\ o.ok = TRUE /\ live' = o.live
                      /\ run' = [run EXCEPT !.todo = left, !.landed = Append(@, e)]
                 \/ \E o \in SetOutcomes(live, e.p, e.v, FALSE) :
                      /\ Structural(e) /\ o.ok = FALSE /\ live' = o.live
                      /\ run' = [Idle EXCEPT !.result = "failed"]
                 \/ ~Structural(e) /\ UNCHANGED live /\ run' = [run EXCEPT !.todo = left]
<1>1. run.todo \in Seq(Entry) /\ run.todo # <<>> /\ run.pc = "split"
  BY DEF Split, TInv, Runs, Entries
<1>2. PICK e \in Entry : e = Head(run.todo)
  BY <1>1, HeadTailProperties
<1>3. PICK left \in Entries : left = Tail(run.todo)
  BY <1>1, HeadTailProperties DEF Entries
<1>4. UNCHANGED <<host, pending, calls, last>>
  BY DEF Split, Running
<1>5. CASE Structural(e)
  <2>1. PICK o \in SetOutcomes(live, e.p, e.v, FALSE) :
          IF o.ok THEN live' = o.live /\ run' = [run EXCEPT !.todo = Tail(@), !.landed = Append(@, e)]
          ELSE live' = o.live /\ run' = [Idle EXCEPT !.result = "failed"]
    BY <1>2, <1>5 DEF Split
  <2>2. o.ok = TRUE \/ o.ok = FALSE
    BY Outcomes
  <2>3. CASE o.ok = TRUE
    BY <1>1, <1>2, <1>3, <1>4, <1>5, <2>1, <2>3
  <2>4. CASE o.ok = FALSE
    BY <1>1, <1>2, <1>3, <1>4, <1>5, <2>1, <2>4
  <2> QED BY <2>2, <2>3, <2>4
<1>6. CASE ~Structural(e)
  <2>1. run' = [run EXCEPT !.todo = left] /\ UNCHANGED live
    BY <1>2, <1>3, <1>6 DEF Split
  <2> QED BY <1>1, <1>2, <1>3, <1>4, <1>6, <2>1
<1> QED BY <1>5, <1>6

\* The trace so far, and the points of the segment under way.
StitchInv ==
  /\ run.pc # "idle" => run.result = "none"
  /\ run.pc = "early" => run.seg = 0 /\ run.steps = <<>>
  /\ run.pc \in {"segment", "solve"} =>
       run.steps = IF run.seg = 0 THEN <<>> ELSE Trace(run.start, run.seg)
  /\ run.pc = "solve" =>
       run.points = Trace(IF run.start > run.seg THEN run.start ELSE run.seg, run.at)
  /\ run.pc = "split" => run.at > 0 /\ run.steps = Trace(run.start, run.at)

\* The trace of a run that ended.
StitchEnd == run.result = "ok" => run.steps = Trace(run.start, run.stop)

\* A step that leaves the trace alone leaves it right.
LEMMA StitchKept ==
  ASSUME TInv, StitchInv, StitchEnd, run' \in Runs, run'.pc = run.pc, run'.seg = run.seg,
         run'.at = run.at, run'.start = run.start, run'.stop = run.stop,
         run'.steps = run.steps, run'.points = run.points, run'.result = run.result
  PROVE  StitchInv' /\ StitchEnd'
BY DEF StitchInv, StitchEnd

\* A step that ends in failure leaves nothing to stitch.
LEMMA StitchDropped ==
  ASSUME run' = [Idle EXCEPT !.result = "failed"]
  PROVE  StitchInv' /\ StitchEnd'
<1>1. run'.pc = "idle" /\ run'.result = "failed"
  BY IdleType DEF Runs
<1> QED BY <1>1 DEF StitchInv, StitchEnd

\* Every step keeps the trace right.
LEMMA StitchStep ==
  ASSUME TInv, StitchInv, StitchEnd, [Next]_vars
  PROVE  StitchInv' /\ StitchEnd'
<1>1. live \in Lives /\ last \in Volts /\ run \in Runs /\ run.at <= run.stop /\ run.seg <= run.at
  BY DEF TInv
<1>2. /\ run.seg \in Nat /\ run.at \in Nat /\ run.start \in Nat /\ run.stop \in Nat
      /\ run.at \in 0..MaxTime
  BY <1>1, SessionAssumption DEF Runs
<1>3. CASE Call
  <2>1. CASE UNCHANGED run
    BY <1>1, <2>1, StitchKept
  <2>2. CASE \E stop \in 1..MaxTime, start \in 0..MaxTime : Tran(stop, start)
    <3>1. PICK stop \in 1..MaxTime, start \in 0..MaxTime : Tran(stop, start)
      BY <2>2
    <3>2. run' = [Idle EXCEPT !.pc = "early", !.stop = stop, !.start = start, !.todo = pending]
      BY <3>1 DEF Tran
    <3>3. run'.pc = "early" /\ run'.seg = 0 /\ run'.steps = <<>> /\ run'.result = "none"
      BY <3>2, IdleType DEF Runs
    <3> QED BY <3>3 DEF StitchInv, StitchEnd
  <2> QED BY <1>3, <2>1, <2>2 DEF Call, Set, DcPoint, ScheduleSet, Sens, Op
<1>4. ASSUME NEW l, GivesUp(l)
      PROVE  StitchInv' /\ StitchEnd'
  BY <1>4, StitchDropped DEF GivesUp
<1>5. CASE Early
  <2>1. PICK e \in Entry, left \in Entries :
          \/ run' = [run EXCEPT !.todo = left]
          \/ \E l : GivesUp(l)
          \/ run' = [run EXCEPT !.todo = left, !.scheduled = Append(@, e), !.plan = Append(@, e)]
    BY <1>5, EarlyIs
  <2>2. Append(run.scheduled, e) \in Entries /\ Append(run.plan, e) \in Entries
    BY <1>1, AppendProperties DEF Runs, Entries
  <2>3. CASE \/ run' = [run EXCEPT !.todo = left]
             \/ run' = [run EXCEPT !.todo = left, !.scheduled = Append(@, e), !.plan = Append(@, e)]
    <3>1. /\ run' \in Runs /\ run'.pc = run.pc /\ run'.seg = run.seg /\ run'.at = run.at
          /\ run'.start = run.start /\ run'.stop = run.stop /\ run'.steps = run.steps
          /\ run'.points = run.points /\ run'.result = run.result
      BY <1>1, <2>2, <2>3 DEF Runs
    <3> QED BY <3>1, StitchKept
  <2> QED BY <1>4, <2>1, <2>3
<1>6. CASE Segment
  <2>1. run.pc \in {"early", "segment"}
    BY <1>1, <1>6, SegmentIs
  <2>2. PICK split \in {Never} \cup Splitters :
          run' = [run EXCEPT !.pc = "solve", !.at = run.seg, !.split = split,
                    !.todo = SegSets(split),
                    !.points = IF run.start <= run.seg THEN <<run.seg>> ELSE <<>>,
                    !.seeded = live.carry.of]
    BY <1>1, <1>6, SegmentIs
  <2>3. PICK points : points = IF run.start <= run.seg THEN <<run.seg>> ELSE <<>>
    OBVIOUS
  <2>4. /\ run'.pc = "solve" /\ run'.seg = run.seg /\ run'.at = run.seg /\ run'.start = run.start
        /\ run'.steps = run.steps /\ run'.points = points /\ run'.result = run.result
        /\ run'.stop = run.stop
    BY <1>1, <2>2, <2>3 DEF Runs
  <2>5. points = Trace(IF run.start > run.seg THEN run.start ELSE run.seg, run.seg)
    <3>1. CASE run.start > run.seg
      <4>1. Trace(run.start, run.seg) = <<>>
        BY <1>2, <3>1, TraceNone
      <4>2. ~(run.start <= run.seg)
        BY <1>2, <3>1
      <4> QED BY <2>3, <3>1, <4>1, <4>2
    <3>2. CASE ~(run.start > run.seg)
      <4>1. run.start <= run.seg /\ Trace(run.seg, run.seg) = <<run.seg>>
        BY <1>2, <3>2, TraceOne
      <4> QED BY <2>3, <3>2, <4>1
    <3> QED BY <3>1, <3>2
  <2>6. run.steps = IF run.seg = 0 THEN <<>> ELSE Trace(run.start, run.seg)
    BY <2>1 DEF StitchInv
  <2> QED BY <2>1, <2>4, <2>5, <2>6 DEF StitchInv, StitchEnd
<1>7. CASE Land
  <2>1. PICK e \in Entry :
          \/ GivesUp(live)
          \/ run' = [run EXCEPT !.todo = Among(run.todo, Waiting \ {e}), !.refused = TRUE]
          \/ run' = [run EXCEPT !.todo = Among(run.todo, Waiting \ {e}), !.landed = Append(@, e)]
    BY <1>1, <1>7, LandIs
  <2>2. PICK left \in Entries : left = Among(run.todo, Waiting \ {e})
    BY <1>1, AmongIs DEF Runs, Entries
  <2>3. Append(run.landed, e) \in Entries
    BY <1>1, AppendProperties DEF Runs, Entries
  <2>4. CASE \/ run' = [run EXCEPT !.todo = left, !.refused = TRUE]
             \/ run' = [run EXCEPT !.todo = left, !.landed = Append(@, e)]
    <3>1. /\ run' \in Runs /\ run'.pc = run.pc /\ run'.seg = run.seg /\ run'.at = run.at
          /\ run'.start = run.start /\ run'.stop = run.stop /\ run'.steps = run.steps
          /\ run'.points = run.points /\ run'.result = run.result
      BY <1>1, <2>3, <2>4 DEF Runs
    <3> QED BY <3>1, StitchKept
  <2> QED BY <1>4, <2>1, <2>2, <2>4
<1>8. CASE Advance
  <2>1. /\ run' = [run EXCEPT !.at = @ + 1,
                     !.points = IF run.start <= run.at + 1 THEN Append(@, run.at + 1) ELSE @]
        /\ run.pc = "solve"
    BY <1>8 DEF Advance
  <2>2. PICK points : points = IF run.start <= run.at + 1 THEN Append(run.points, run.at + 1)
                               ELSE run.points
    OBVIOUS
  <2>3. /\ run'.pc = "solve" /\ run'.seg = run.seg /\ run'.at = run.at + 1 /\ run'.start = run.start
        /\ run'.steps = run.steps /\ run'.points = points /\ run'.result = run.result
        /\ run'.stop = run.stop
    BY <1>1, <2>1, <2>2 DEF Runs
  <2>4. PICK m \in Nat : m = IF run.start > run.seg THEN run.start ELSE run.seg
    BY <1>2
  <2>5. run.points = Trace(m, run.at) /\ (m <= run.at + 1 <=> run.start <= run.at + 1)
    BY <1>1, <1>2, <2>1, <2>4 DEF StitchInv
  <2>6. points = Trace(m, run.at + 1)
    BY <1>2, <2>2, <2>5, TraceNext
  <2>7. run.steps = IF run.seg = 0 THEN <<>> ELSE Trace(run.start, run.seg)
    BY <2>1 DEF StitchInv
  <2> QED BY <2>1, <2>3, <2>4, <2>6, <2>7 DEF StitchInv, StitchEnd
<1>9. CASE SolveFails
  BY <1>4, <1>9 DEF SolveFails
<1>10. CASE SegmentEnd
  <2>1. PICK steps \in Seq(Nat) : steps = Stitched(run.steps, run.points)
    BY <1>1, StitchedType DEF Runs
  <2>2. /\ run' = IF run.split = Never
                  THEN [Idle EXCEPT !.result = "ok", !.stop = run.stop, !.start = run.start,
                                    !.steps = steps, !.plan = run.plan, !.landed = run.landed,
                                    !.splits = run.splits]
                  ELSE [run EXCEPT !.pc = "split", !.steps = steps, !.splits = @ \cup {run.split},
                             !.todo = Among(run.scheduled, {e \in Waiting : e.t = run.split})]
        /\ run.pc = "solve" /\ run.at = SegStopAt(run.split)
    BY <1>10, <2>1 DEF SegmentEnd
  <2>3. /\ run.steps = IF run.seg = 0 THEN <<>> ELSE Trace(run.start, run.seg)
        /\ run.points = Trace(IF run.start > run.seg THEN run.start ELSE run.seg, run.at)
    BY <2>2 DEF StitchInv
  <2>4. steps = Trace(run.start, run.at)
    <3>1. CASE run.steps = <<>> /\ run.points = Trace(run.start, run.at)
      BY <1>2, <2>1, <3>1, TraceStitch
    <3>2. CASE run.start <= run.seg /\ run.seg # 0
      <4>1. run.steps = Trace(run.start, run.seg) /\ run.points = Trace(run.seg, run.at)
        BY <1>2, <2>3, <3>2
      <4> QED BY <1>1, <1>2, <2>1, <3>2, <4>1, TraceStitch
    <3>3. CASE run.seg = 0
      <4>1. run.steps = <<>> /\ run.points = Trace(run.start, run.at)
        BY <1>2, <2>3, <3>3
      <4> QED BY <3>1, <4>1
    <3>4. CASE run.start > run.seg
      <4>1. Trace(run.start, run.seg) = <<>>
        BY <1>2, <3>4, TraceNone
      <4>2. run.steps = <<>> /\ run.points = Trace(run.start, run.at)
        BY <2>3, <3>4, <4>1
      <4> QED BY <3>1, <4>2
    <3> QED BY <1>2, <3>2, <3>3, <3>4
  <2>5. CASE run.split = Never
    <3>1. run'.pc = "idle" /\ run'.start = run.start /\ run'.stop = run.stop /\ run'.steps = steps
      BY <2>2, <2>5, IdleType DEF Runs
    <3>2. run.at = run.stop
      BY <2>2, <2>5 DEF SegStopAt
    <3> QED BY <2>4, <3>1, <3>2 DEF StitchInv, StitchEnd
  <2>6. CASE run.split # Never
    <3>1. /\ run'.pc = "split" /\ run'.start = run.start /\ run'.at = run.at /\ run'.steps = steps
          /\ run'.stop = run.stop /\ run'.result = run.result
      BY <1>1, <2>2, <2>6 DEF Runs
    <3>2. run.at > 0 /\ run.result = "none"
      <4>1. run.seg < run.split /\ run.at = run.split /\ run.split \in Nat
        BY <1>1, <2>2, <2>6 DEF TInv, SegStopAt, Runs
      <4> QED BY <1>2, <2>2, <4>1 DEF StitchInv
    <3> QED BY <2>4, <3>1, <3>2 DEF StitchInv, StitchEnd
  <2> QED BY <2>5, <2>6
<1>11. CASE Split
  <2>1. PICK e \in Entry, left \in Entries :
          \/ run' = [run EXCEPT !.todo = left, !.landed = Append(@, e)]
          \/ run' = [Idle EXCEPT !.result = "failed"]
          \/ run' = [run EXCEPT !.todo = left]
    BY <1>11, SplitIs
  <2>2. Append(run.landed, e) \in Entries
    BY <1>1, AppendProperties DEF Runs, Entries
  <2>3. CASE \/ run' = [run EXCEPT !.todo = left, !.landed = Append(@, e)]
             \/ run' = [run EXCEPT !.todo = left]
    <3>1. /\ run' \in Runs /\ run'.pc = run.pc /\ run'.seg = run.seg /\ run'.at = run.at
          /\ run'.start = run.start /\ run'.stop = run.stop /\ run'.steps = run.steps
          /\ run'.points = run.points /\ run'.result = run.result
      BY <1>1, <2>2, <2>3 DEF Runs
    <3> QED BY <3>1, StitchKept
  <2> QED BY <2>1, <2>3, StitchDropped
<1>12. CASE Restart
  <2>1. PICK left \in Entries : left = Among(run.scheduled, {e \in Waiting : e.t > run.split})
    BY <1>1, AmongIs DEF Runs, Entries
  <2>2. /\ run' = [run EXCEPT !.pc = "segment", !.seg = run.split, !.scheduled = left]
        /\ run.pc = "split" /\ run.split = run.at
    BY <1>12, <2>1 DEF Restart, TInv
  <2>3. /\ run'.pc = "segment" /\ run'.seg = run.at /\ run'.start = run.start
        /\ run'.steps = run.steps /\ run'.stop = run.stop /\ run'.result = run.result
    BY <1>1, <2>2 DEF Runs
  <2>4. run.steps = Trace(run.start, run.at) /\ run.at # 0
    BY <1>2, <2>2 DEF StitchInv
  <2> QED BY <2>2, <2>3, <2>4 DEF StitchInv, StitchEnd
<1>13. CASE UNCHANGED vars
  BY <1>1, <1>13, StitchKept DEF vars
<1> QED BY <1>3, <1>5, <1>6, <1>7, <1>8, <1>9, <1>10, <1>11, <1>12, <1>13 DEF Next

\* The segments of a transient, recorded one after the other however often it was
\* split, make one trace: every instant from the start of recording to the stop,
\* once and in order.
THEOREM OneTrace == Spec => []Stitches
<1>1. Init => TInv
  BY InitTypes
<1>2. Init => StitchInv /\ StitchEnd
  <2> SUFFICES ASSUME Init PROVE StitchInv /\ StitchEnd
    OBVIOUS
  <2>1. run.pc = "idle" /\ run.result = "none"
    BY IdleType DEF Init
  <2> QED BY <2>1 DEF StitchInv, StitchEnd
<1>3. TInv /\ [Next]_vars => TInv'
  BY TypesKept
<1>4. TInv /\ StitchInv /\ StitchEnd /\ [Next]_vars => StitchInv' /\ StitchEnd'
  BY StitchStep
<1>5. StitchEnd => Stitches
  BY DEF StitchEnd, Stitches, Trace
<1> QED BY <1>1, <1>2, <1>3, <1>4, <1>5, PTL DEF Spec

-----------------------------------------------------------------------------
(* Which writes are scheduled, to do and landed.                             *)

\* The elements of a sequence.
Els(s) == {s[i] : i \in 1..Len(s)}

\* They are of its type, and none if it is empty.
LEMMA ElsType ==
  ASSUME NEW T, NEW s \in Seq(T)
  PROVE  Els(s) \subseteq T /\ Els(<<>>) = {} /\ (Els(s) = {} => s = <<>>)
<1>1. \A i \in 1..Len(s) : s[i] \in T
  OBVIOUS
<1>2. Els(<<>>) = {}
  BY DEF Els
<1>3. ASSUME Els(s) = {} PROVE s = <<>>
  <2>1. 1 \notin 1..Len(s) /\ Len(s) \in Nat
    BY <1>3 DEF Els
  <2> QED BY <2>1
<1> QED BY <1>1, <1>2, <1>3 DEF Els

\* One more element,
LEMMA ElsAppend ==
  ASSUME NEW T, NEW s \in Seq(T), NEW e \in T
  PROVE  Els(Append(s, e)) = Els(s) \cup {e}
<1>1. PICK n \in Nat : n = Len(s)
  OBVIOUS
<1>2. PICK w \in Seq(T) : w = Append(s, e)
  BY AppendProperties
<1>3. Len(w) = n + 1 /\ w[n + 1] = e /\ \A i \in 1..n : w[i] = s[i]
  BY <1>1, <1>2, AppendProperties
<1>4. \A i \in 1..(n + 1) : i \in 1..n \/ i = n + 1
  BY <1>1
<1>5. n + 1 \in 1..(n + 1) /\ \A i \in 1..n : i \in 1..(n + 1)
  BY <1>1
<1>6. {w[i] : i \in 1..(n + 1)} = {s[i] : i \in 1..n} \cup {e}
  BY <1>3, <1>4, <1>5
<1> QED BY <1>1, <1>2, <1>3, <1>6 DEF Els

\* the first one and the others,
LEMMA ElsTail ==
  ASSUME NEW T, NEW s \in Seq(T), s # <<>>
  PROVE  Els(s) = {Head(s)} \cup Els(Tail(s))
<1>1. PICK n \in Nat : n + 1 = Len(s)
  <2>1. Len(s) \in Nat /\ Len(s) # 0
    OBVIOUS
  <2>2. Len(s) - 1 \in Nat /\ (Len(s) - 1) + 1 = Len(s)
    BY <2>1
  <2> QED BY <2>2
<1>2. PICK w \in Seq(T) : w = Tail(s)
  BY HeadTailProperties
<1>3. Head(s) = s[1] /\ Len(w) = n /\ \A i \in 1..n : w[i] = s[i + 1]
  <2>1. Len(w) = Len(s) - 1 /\ \A i \in 1..(Len(s) - 1) : w[i] = s[i + 1]
    BY <1>2, HeadTailProperties
  <2>2. Len(s) - 1 = n
    BY <1>1
  <2> QED BY <2>1, <2>2
<1>4. \A i \in 1..(n + 1) : i = 1 \/ (i - 1 \in 1..n /\ (i - 1) + 1 = i)
  BY <1>1
<1>5. 1 \in 1..(n + 1) /\ \A i \in 1..n : i + 1 \in 1..(n + 1)
  BY <1>1
<1>6. {s[i] : i \in 1..(n + 1)} = {s[1]} \cup {w[i] : i \in 1..n}
  <2>1. ASSUME NEW i \in 1..(n + 1) PROVE s[i] \in {s[1]} \cup {w[k] : k \in 1..n}
    <3>1. CASE i = 1
      BY <3>1
    <3>2. CASE i - 1 \in 1..n /\ (i - 1) + 1 = i
      <4>1. w[i - 1] = s[i]
        BY <1>3, <3>2
      <4> QED BY <3>2, <4>1
    <3> QED BY <1>4, <3>1, <3>2
  <2>2. ASSUME NEW i \in 1..n PROVE w[i] \in {s[k] : k \in 1..(n + 1)}
    BY <1>3, <1>5
  <2>3. s[1] \in {s[k] : k \in 1..(n + 1)}
    BY <1>5
  <2> QED BY <2>1, <2>2, <2>3
<1> QED BY <1>1, <1>2, <1>3, <1>6 DEF Els

\* those in a set.
LEMMA ElsAmong ==
  ASSUME NEW T, NEW s \in Seq(T), NEW S
  PROVE  Els(Among(s, S)) = Els(s) \cap S
<1>1. /\ \A k \in 1..Len(Among(s, S)) :
              Among(s, S)[k] \in S /\ \E i \in 1..Len(s) : Among(s, S)[k] = s[i]
      /\ \A i \in 1..Len(s) : s[i] \in S =>
              \E k \in 1..Len(Among(s, S)) : Among(s, S)[k] = s[i]
  BY AmongIs
<1> QED BY <1>1 DEF Els

\* The order writes were scheduled in, and the order of time.
ByN    == {d \in Entry \X Entry : d[1].n < d[2].n}
ByTime == {d \in Entry \X Entry :
             d[1].t < d[2].t \/ (d[1].t = d[2].t /\ d[1].n < d[2].n)}

\* Two writes in one of these orders.
LEMMA OrdersAre ==
  ASSUME NEW e \in Entry, NEW f \in Entry
  PROVE  /\ <<e, f>> \in ByN <=> e.n < f.n
         /\ <<e, f>> \in ByTime <=> e.t < f.t \/ (e.t = f.t /\ e.n < f.n)
<1>1. PICK d \in Entry \X Entry : d = <<e, f>>
  OBVIOUS
<1>2. d[1] = e /\ d[2] = f
  BY <1>1
<1>3. d \in ByN <=> e.n < f.n
  BY <1>2 DEF ByN
<1>4. d \in ByTime <=> e.t < f.t \/ (e.t = f.t /\ e.n < f.n)
  <2>1. d \in ByTime <=> d[1].t < d[2].t \/ (d[1].t = d[2].t /\ d[1].n < d[2].n)
    BY Zenon DEF ByTime
  <2> QED BY <1>2, <2>1, Zenon
<1> QED BY <1>1, <1>3, <1>4

\* An element that comes after all others may be put last.
LEMMA OrderedAppend ==
  ASSUME NEW T, NEW s \in Seq(T), NEW R, Ordered(s, R), NEW e \in T,
         \A x \in Els(s) : <<x, e>> \in R
  PROVE  Ordered(Append(s, e), R)
<1>1. PICK n \in Nat : n = Len(s)
  OBVIOUS
<1>2. PICK w \in Seq(T) : w = Append(s, e)
  BY AppendProperties
<1>3. Len(w) = n + 1 /\ w[n + 1] = e /\ \A i \in 1..n : w[i] = s[i]
  BY <1>1, <1>2, AppendProperties
<1>4. ASSUME NEW j \in 1..(n + 1), NEW k \in 1..(n + 1), j < k
      PROVE  <<w[j], w[k]>> \in R
  <2>1. j \in 1..n
    BY <1>1, <1>4
  <2>2. CASE k \in 1..n
    BY <1>1, <1>3, <1>4, <2>1, <2>2 DEF Ordered
  <2>3. CASE k = n + 1
    <3>1. w[j] \in Els(s)
      BY <1>1, <1>3, <2>1 DEF Els
    <3> QED BY <1>3, <2>3, <3>1
  <2>4. k \in 1..n \/ k = n + 1
    BY <1>1
  <2> QED BY <2>2, <2>3, <2>4
<1> QED BY <1>2, <1>3, <1>4 DEF Ordered

\* The first comes before the others, and these are in order.
LEMMA OrderedTail ==
  ASSUME NEW T, NEW s \in Seq(T), NEW R, Ordered(s, R), s # <<>>
  PROVE  Ordered(Tail(s), R) /\ \A x \in Els(Tail(s)) : <<Head(s), x>> \in R
<1>1. PICK n \in Nat : n + 1 = Len(s)
  <2>1. Len(s) \in Nat /\ Len(s) # 0
    OBVIOUS
  <2>2. Len(s) - 1 \in Nat /\ (Len(s) - 1) + 1 = Len(s)
    BY <2>1
  <2> QED BY <2>2
<1>2. PICK w \in Seq(T) : w = Tail(s)
  BY HeadTailProperties
<1>3. Head(s) = s[1] /\ Len(w) = n /\ \A i \in 1..n : w[i] = s[i + 1]
  <2>1. Len(w) = Len(s) - 1 /\ \A i \in 1..(Len(s) - 1) : w[i] = s[i + 1]
    BY <1>2, HeadTailProperties
  <2>2. Len(s) - 1 = n
    BY <1>1
  <2> QED BY <2>1, <2>2
<1>4. \A i \in 1..n : i + 1 \in 1..Len(s) /\ 1 \in 1..Len(s) /\ 1 < i + 1
  BY <1>1
<1>5. ASSUME NEW j \in 1..n, NEW k \in 1..n, j < k
      PROVE  <<w[j], w[k]>> \in R
  <2>1. j + 1 < k + 1
    BY <1>5
  <2> QED BY <1>3, <1>4, <2>1 DEF Ordered
<1>6. ASSUME NEW i \in 1..n
      PROVE  <<s[1], w[i]>> \in R
  BY <1>3, <1>4 DEF Ordered
<1> QED BY <1>2, <1>3, <1>5, <1>6 DEF Ordered, Els

\* No two writes of one run were scheduled as the same.
LEMMA SameN ==
  ASSUME NEW s \in Entries, Ordered(s, ByN), NEW i \in 1..Len(s), NEW j \in 1..Len(s),
         s[i].n = s[j].n
  PROVE  i = j
<1>1. s[i] \in Entry /\ s[j] \in Entry
  BY DEF Entries
<1>2. s[i].n \in Nat
  BY <1>1 DEF Entry
<1>3. ~(i < j)
  <2>1. i < j => <<s[i], s[j]>> \in ByN
    BY DEF Ordered
  <2> QED BY <1>1, <1>2, <2>1, OrdersAre
<1>4. ~(j < i)
  <2>1. j < i => <<s[j], s[i]>> \in ByN
    BY DEF Ordered
  <2> QED BY <1>1, <1>2, <2>1, OrdersAre
<1> QED BY <1>3, <1>4

\* The writes a transient was given, those of this segment and those to do.
PlanInv ==
  /\ \A i \in 1..Len(pending) : pending[i].n = i /\ pending[i].v # Absent
  /\ Ordered(run.plan, ByN)
  /\ run.pc # "idle" =>
       /\ Ordered(run.scheduled, ByN) /\ Ordered(run.todo, ByN)
       /\ Els(run.scheduled) = {e \in Els(run.plan) : e.t > run.seg}
       /\ \A e \in Els(run.plan) \cup Els(run.todo) : e.v # Absent
       /\ \A e \in Els(run.plan) : e.t > 0
  /\ run.pc = "early" =>
       /\ \A e \in Els(run.plan), f \in Els(run.todo) : <<e, f>> \in ByN
       /\ run.seg = 0 /\ run.landed = <<>> /\ run.splits = {}
  /\ run.pc \in {"early", "segment"} => run.seg = run.at
  /\ run.pc \in {"solve", "split"} => Els(run.todo) \subseteq Els(run.scheduled)

\* A step that leaves the lists alone, or only makes the one to do shorter.
LEMMA PlanKept ==
  ASSUME TInv, PlanInv, pending' = pending, run' \in Runs, run'.pc = run.pc,
         run'.seg = run.seg, run'.plan = run.plan, run'.scheduled = run.scheduled,
         run'.splits = run.splits, run.pc = "early" => run'.landed = run.landed,
         run.pc \in {"early", "segment"} => run'.at = run.at,
         Ordered(run'.todo, ByN), Els(run'.todo) \subseteq Els(run.todo)
  PROVE  PlanInv'
<1>1. /\ Ordered(run.plan, ByN)' = Ordered(run.plan, ByN)
      /\ Ordered(run.scheduled, ByN)' = Ordered(run.scheduled, ByN)
      /\ Ordered(run.todo, ByN)' = Ordered(run'.todo, ByN)
      /\ Els(run.plan)' = Els(run.plan) /\ Els(run.scheduled)' = Els(run.scheduled)
      /\ Els(run.todo)' = Els(run'.todo)
  BY DEF Ordered, Els, ByN
<1>2. run'.pc # "idle" =>
       /\ Ordered(run.scheduled, ByN)' /\ Ordered(run.todo, ByN)'
       /\ Els(run.scheduled)' = {e \in Els(run.plan)' : e.t > run'.seg}
       /\ \A e \in Els(run.plan)' \cup Els(run.todo)' : e.v # Absent
       /\ \A e \in Els(run.plan)' : e.t > 0
  BY <1>1 DEF PlanInv
<1>3. run'.pc = "early" =>
       /\ \A e \in Els(run.plan)', f \in Els(run.todo)' : <<e, f>> \in ByN
       /\ run'.seg = 0 /\ run'.landed = <<>> /\ run'.splits = {}
  BY <1>1 DEF PlanInv
<1>4. /\ run'.pc \in {"early", "segment"} => run'.seg = run'.at
      /\ run'.pc \in {"solve", "split"} => Els(run.todo)' \subseteq Els(run.scheduled)'
      /\ \A i \in 1..Len(pending)' : pending'[i].n = i /\ pending'[i].v # Absent
      /\ Ordered(run.plan, ByN)'
  BY <1>1 DEF PlanInv
<1> QED BY <1>2, <1>3, <1>4 DEF PlanInv

\* Nor does a call that leaves the run alone, however it numbers what it schedules.
LEMMA PlanSame ==
  ASSUME PlanInv, run' = run,
         \A i \in 1..Len(pending') : pending'[i].n = i /\ pending'[i].v # Absent
  PROVE  PlanInv'
<1>1. /\ Ordered(run.plan, ByN)' = Ordered(run.plan, ByN)
      /\ Ordered(run.scheduled, ByN)' = Ordered(run.scheduled, ByN)
      /\ Ordered(run.todo, ByN)' = Ordered(run.todo, ByN)
      /\ Els(run.plan)' = Els(run.plan) /\ Els(run.scheduled)' = Els(run.scheduled)
      /\ Els(run.todo)' = Els(run.todo)
  BY DEF Ordered, Els, ByN
<1> QED BY <1>1 DEF PlanInv

\* A run that failed has no lists.
LEMMA PlanDropped ==
  ASSUME PlanInv, pending' = pending, run' = [Idle EXCEPT !.result = "failed"]
  PROVE  PlanInv'
<1>1. run'.pc = "idle" /\ run'.plan = <<>>
  BY IdleType DEF Runs
<1>2. Ordered(<<>>, ByN)
  BY DEF Ordered
<1> QED BY <1>1, <1>2 DEF PlanInv

\* The writes waiting are the elements scheduled.
LEMMA WaitingIs ==
  ASSUME run \in Runs
  PROVE  Waiting = Els(run.scheduled)
<1>1. run.scheduled \in Seq(Entry)
  BY DEF Runs, Entries
<1>2. DOMAIN run.scheduled = 1..Len(run.scheduled)
  BY <1>1
<1> QED BY <1>2 DEF Waiting, Els

\* The writes that a segment is given.
Given(e, split) ==
  host = "rust" \/ (InSegment(e, run.seg, SegStopAt(split)) /\ e.t # split)

\* They are those of the list that are given, in their order.
LEMMA SegSetsIs ==
  ASSUME run \in Runs, NEW split, Ordered(run.scheduled, ByN)
  PROVE  /\ Els(SegSets(split)) = {e \in Els(run.scheduled) : Given(e, split)}
         /\ Ordered(SegSets(split), ByN)
<1>1. run.scheduled \in Seq(Entry)
  BY DEF Runs, Entries
<1>2. CASE host = "rust"
  <2>1. SegSets(split) = run.scheduled
    BY <1>2 DEF SegSets
  <2> QED BY <1>2, <2>1 DEF Given
<1>3. CASE host # "rust"
  <2>1. PICK S : S = {e \in Waiting : InSegment(e, run.seg, SegStopAt(split)) /\ e.t # split}
    OBVIOUS
  <2>2. SegSets(split) = Among(run.scheduled, S)
    BY <1>3, <2>1 DEF SegSets
  <2>3. Els(SegSets(split)) = Els(run.scheduled) \cap S
    BY <1>1, <2>2, ElsAmong
  <2>4. Ordered(SegSets(split), ByN)
    BY <1>1, <2>2, AmongOrdered
  <2>5. Waiting = Els(run.scheduled)
    BY WaitingIs
  <2>6. Els(run.scheduled) \cap S = {e \in Els(run.scheduled) : Given(e, split)}
    BY <1>3, <2>1, <2>5 DEF Given
  <2> QED BY <2>3, <2>4, <2>6
<1> QED BY <1>2, <1>3

\* Every step keeps the lists right.
LEMMA PlanStep ==
  ASSUME TInv, PlanInv, [Next]_vars
  PROVE  PlanInv'
<1>1. live \in Lives /\ last \in Volts /\ run \in Runs /\ run.seg <= run.at /\ pending \in Entries
  BY DEF TInv
<1>2. /\ run.seg \in Nat /\ run.at \in Nat /\ run.todo \in Seq(Entry)
      /\ run.scheduled \in Seq(Entry) /\ run.plan \in Seq(Entry)
  BY <1>1 DEF Runs, Entries
<1>3. ASSUME NEW l, GivesUp(l), pending' = pending
      PROVE  PlanInv'
  BY <1>3, PlanDropped DEF GivesUp
<1>4. CASE Call
  <2>1. CASE UNCHANGED <<pending, run>>
    <3>1. \A i \in 1..Len(pending') : pending'[i].n = i /\ pending'[i].v # Absent
      BY <2>1 DEF PlanInv
    <3> QED BY <2>1, <3>1, PlanSame
  <2>2. CASE \E stop \in 1..MaxTime, start \in 0..MaxTime : Tran(stop, start)
    <3>1. PICK stop \in 1..MaxTime, start \in 0..MaxTime : Tran(stop, start)
      BY <2>2
    <3>2. /\ run' = [Idle EXCEPT !.pc = "early", !.stop = stop, !.start = start, !.todo = pending]
          /\ pending' = <<>>
      BY <3>1 DEF Tran
    <3>3. /\ run'.pc = "early" /\ run'.seg = 0 /\ run'.at = 0 /\ run'.todo = pending
          /\ run'.plan = <<>> /\ run'.scheduled = <<>> /\ run'.landed = <<>> /\ run'.splits = {}
      BY <3>2, IdleType DEF Runs
    <3>4. Ordered(pending, ByN) /\ \A e \in Els(pending) : e.v # Absent
      <4>1. \A e \in Els(pending) : e.v # Absent
        BY DEF PlanInv, Els
      <4>2. ASSUME NEW j \in 1..Len(pending), NEW k \in 1..Len(pending), j < k
            PROVE  <<pending[j], pending[k]>> \in ByN
        <5>1. pending[j] \in Entry /\ pending[k] \in Entry
          BY <1>1 DEF Entries
        <5>2. pending[j].n = j /\ pending[k].n = k
          BY DEF PlanInv
        <5> QED BY <4>2, <5>1, <5>2, OrdersAre
      <4> QED BY <4>1, <4>2 DEF Ordered
    <3>5. Els(<<>>) = {} /\ Ordered(<<>>, ByN)
      BY DEF Els, Ordered
    <3>6. /\ Ordered(run.plan, ByN)' /\ Ordered(run.scheduled, ByN)' /\ Ordered(run.todo, ByN)'
          /\ Els(run.plan)' = {} /\ Els(run.scheduled)' = {} /\ Els(run.todo)' = Els(pending)
      BY <3>3, <3>4, <3>5 DEF Ordered, Els, ByN
    <3> QED BY <3>2, <3>3, <3>4, <3>6 DEF PlanInv
  <2>3. CASE \E w \in Writes, t \in 0..MaxTime : ScheduleSet(t, w[1], w[2])
    <3>1. PICK w \in Writes, t \in 0..MaxTime : ScheduleSet(t, w[1], w[2])
      BY <2>3
    <3>2. PICK e : e = [t |-> t, p |-> w[1], v |-> w[2], n |-> Len(pending) + 1]
      OBVIOUS
    <3>3. pending \in Seq(Entry) /\ Len(pending) \in Nat
      BY <1>1 DEF Entries
    <3>4. e \in Entry /\ e.n = Len(pending) + 1 /\ e.v # Absent
      <4>1. w[1] \in Params /\ w[2] \in Nat /\ w[2] # Absent
        BY SessionAssumption
      <4> QED BY <3>2, <3>3, <4>1, SessionAssumption DEF Entry
    <3>5. pending' = Append(pending, e) /\ run' = run
      BY <3>1, <3>2 DEF ScheduleSet
    <3>6. PICK w2 \in Seq(Entry) : w2 = Append(pending, e)
      BY <3>3, <3>4, AppendProperties
    <3>7. Len(w2) = Len(pending) + 1 /\ w2[Len(pending) + 1] = e
          /\ \A i \in 1..Len(pending) : w2[i] = pending[i]
      BY <3>3, <3>4, <3>6, AppendProperties
    <3>8. ASSUME NEW i \in 1..Len(w2)
          PROVE  w2[i].n = i /\ w2[i].v # Absent
      <4>1. i \in 1..Len(pending) \/ i = Len(pending) + 1
        BY <3>3, <3>7
      <4> QED BY <3>4, <3>7, <4>1 DEF PlanInv
    <3>9. pending' = w2
      BY <3>5, <3>6
    <3> QED BY <3>5, <3>8, <3>9, PlanSame
  <2> QED BY <1>4, <2>1, <2>2, <2>3 DEF Call, Set, DcPoint, Sens, Op
<1>5. CASE Early
  <2>1. run.pc = "early" /\ run.todo # <<>> /\ pending' = pending
    BY <1>5, EarlyIs
  <2>2. PICK e \in Entry, left \in Entries :
          /\ e = Head(run.todo) /\ left = Tail(run.todo)
          /\ \/ run' = [run EXCEPT !.todo = left]
             \/ \E l : GivesUp(l)
             \/ /\ e.t # 0
                /\ run' = [run EXCEPT !.todo = left, !.scheduled = Append(@, e),
                                      !.plan = Append(@, e)]
    BY <1>5, EarlyIs
  <2>3. Els(run.todo) = {e} \cup Els(left) /\ Ordered(left, ByN)
        /\ \A x \in Els(left) : <<e, x>> \in ByN
    <3>1. Ordered(run.todo, ByN)
      BY <2>1 DEF PlanInv
    <3> QED BY <1>2, <2>1, <2>2, <3>1, ElsTail, OrderedTail
  <2>4. CASE run' = [run EXCEPT !.todo = left]
    <3>1. /\ run' \in Runs /\ run'.pc = run.pc /\ run'.seg = run.seg /\ run'.plan = run.plan
          /\ run'.scheduled = run.scheduled /\ run'.splits = run.splits
          /\ run'.landed = run.landed /\ run'.at = run.at /\ run'.todo = left
      BY <1>1, <2>4 DEF Runs
    <3> QED BY <2>1, <2>3, <3>1, PlanKept
  <2>5. CASE /\ e.t # 0
             /\ run' = [run EXCEPT !.todo = left, !.scheduled = Append(@, e), !.plan = Append(@, e)]
    <3>1. PICK s \in Entries : s = Append(run.scheduled, e)
      BY <1>2, AppendProperties DEF Entries
    <3>2. PICK p \in Entries : p = Append(run.plan, e)
      BY <1>2, AppendProperties DEF Entries
    <3>3. /\ run'.pc = "early" /\ run'.seg = run.seg /\ run'.plan = p /\ run'.scheduled = s
          /\ run'.splits = run.splits /\ run'.landed = run.landed /\ run'.at = run.at
          /\ run'.todo = left
      BY <1>1, <2>1, <2>5, <3>1, <3>2 DEF Runs
    <3>4. Els(s) = Els(run.scheduled) \cup {e} /\ Els(p) = Els(run.plan) \cup {e}
      BY <1>2, <3>1, <3>2, ElsAppend
    <3>5. \A x \in Els(run.plan) : <<x, e>> \in ByN
      BY <2>1, <2>3 DEF PlanInv
    <3>6. Els(run.scheduled) \subseteq Els(run.plan)
      BY <2>1 DEF PlanInv
    <3>7. Ordered(s, ByN) /\ Ordered(p, ByN)
      <4>1. Ordered(run.scheduled, ByN) /\ Ordered(run.plan, ByN)
        BY <2>1 DEF PlanInv
      <4> QED BY <1>2, <3>1, <3>2, <3>5, <3>6, <4>1, OrderedAppend
    <3>8. e.t > 0 /\ e.t > run.seg /\ e.v # Absent
      <4>1. e.t \in Nat /\ run.seg = 0
        BY <2>1 DEF Entry, PlanInv
      <4> QED BY <2>1, <2>3, <2>5, <4>1 DEF PlanInv
    <3>9. \A x \in Els(p), f \in Els(left) : <<x, f>> \in ByN
      BY <2>1, <2>3, <3>4 DEF PlanInv
    <3>10. Els(s) = {x \in Els(p) : x.t > run.seg}
      BY <2>1, <3>4, <3>8 DEF PlanInv
    <3>11. \A x \in Els(p) \cup Els(left) : x.v # Absent
      BY <2>1, <2>3, <3>4, <3>8 DEF PlanInv
    <3>12. \A x \in Els(p) : x.t > 0
      BY <2>1, <3>4, <3>8 DEF PlanInv
    <3>13. /\ Ordered(run.plan, ByN)' = Ordered(p, ByN)
           /\ Ordered(run.scheduled, ByN)' = Ordered(s, ByN)
           /\ Ordered(run.todo, ByN)' = Ordered(left, ByN)
           /\ Els(run.plan)' = Els(p) /\ Els(run.scheduled)' = Els(s) /\ Els(run.todo)' = Els(left)
      BY <3>3 DEF Ordered, Els, ByN
    <3>14. run.seg = 0 /\ run.landed = <<>> /\ run.splits = {} /\ run.seg = run.at
      BY <2>1 DEF PlanInv
    <3> QED BY <2>1, <2>3, <3>3, <3>7, <3>9, <3>10, <3>11, <3>12, <3>13, <3>14 DEF PlanInv
  <2> QED BY <1>3, <2>1, <2>2, <2>4, <2>5
<1>6. CASE Segment
  <2>1. run.pc \in {"early", "segment"} /\ pending' = pending
    BY <1>1, <1>6, SegmentIs
  <2>2. PICK split \in {Never} \cup Splitters :
          run' = [run EXCEPT !.pc = "solve", !.at = run.seg, !.split = split,
                    !.todo = SegSets(split),
                    !.points = IF run.start <= run.seg THEN <<run.seg>> ELSE <<>>,
                    !.seeded = live.carry.of]
    BY <1>1, <1>6, SegmentIs
  <2>3. PICK todo \in Entries : todo = SegSets(split)
    BY <1>1, SegSetsType
  <2>4. /\ run'.pc = "solve" /\ run'.seg = run.seg /\ run'.plan = run.plan
        /\ run'.scheduled = run.scheduled /\ run'.todo = todo
    BY <1>1, <2>2, <2>3 DEF Runs
  <2>5. Els(todo) \subseteq Els(run.scheduled) /\ Ordered(todo, ByN)
    <3>1. Ordered(run.scheduled, ByN)
      BY <2>1 DEF PlanInv
    <3> QED BY <1>1, <2>3, <3>1, SegSetsIs
  <2>6. /\ Ordered(run.plan, ByN)' = Ordered(run.plan, ByN)
        /\ Ordered(run.scheduled, ByN)' = Ordered(run.scheduled, ByN)
        /\ Ordered(run.todo, ByN)' = Ordered(todo, ByN)
        /\ Els(run.plan)' = Els(run.plan) /\ Els(run.scheduled)' = Els(run.scheduled)
        /\ Els(run.todo)' = Els(todo)
    BY <2>4 DEF Ordered, Els, ByN
  <2>7. run.pc # "idle" /\ Els(run.scheduled) \subseteq Els(run.plan)
    BY <2>1 DEF PlanInv
  <2>8. \A e \in Els(run.plan) \cup Els(todo) : e.v # Absent
    BY <2>5, <2>7 DEF PlanInv
  <2> QED BY <2>1, <2>4, <2>5, <2>6, <2>7, <2>8 DEF PlanInv
<1>7. CASE Land
  <2>1. run.pc = "solve" /\ pending' = pending
    BY <1>1, <1>7, LandIs
  <2>2. PICK e \in Entry :
          \/ GivesUp(live)
          \/ run' = [run EXCEPT !.todo = Among(run.todo, Waiting \ {e}), !.refused = TRUE]
          \/ run' = [run EXCEPT !.todo = Among(run.todo, Waiting \ {e}), !.landed = Append(@, e)]
    BY <1>1, <1>7, LandIs
  <2>3. PICK S : S = Waiting \ {e}
    OBVIOUS
  <2>4. PICK left \in Entries : left = Among(run.todo, S)
    BY <1>2, AmongIs DEF Entries
  <2>5. Ordered(left, ByN) /\ Els(left) \subseteq Els(run.todo)
    <3>1. Ordered(run.todo, ByN)
      BY <2>1 DEF PlanInv
    <3>2. Ordered(left, ByN)
      BY <1>2, <2>4, <3>1, AmongOrdered
    <3>3. Els(left) = Els(run.todo) \cap S
      BY <1>2, <2>4, ElsAmong
    <3> QED BY <3>2, <3>3
  <2>6. Append(run.landed, e) \in Entries
    BY <1>1, AppendProperties DEF Runs, Entries
  <2>7. CASE \/ run' = [run EXCEPT !.todo = left, !.refused = TRUE]
             \/ run' = [run EXCEPT !.todo = left, !.landed = Append(@, e)]
    <3>1. /\ run' \in Runs /\ run'.pc = run.pc /\ run'.seg = run.seg /\ run'.plan = run.plan
          /\ run'.scheduled = run.scheduled /\ run'.splits = run.splits
          /\ run'.at = run.at /\ run'.todo = left
      BY <1>1, <2>6, <2>7 DEF Runs
    <3> QED BY <2>1, <2>5, <3>1, PlanKept
  <2> QED BY <1>3, <2>1, <2>2, <2>3, <2>4, <2>7
<1>8. CASE Advance
  <2>1. /\ run' = [run EXCEPT !.at = @ + 1,
                     !.points = IF run.start <= run.at + 1 THEN Append(@, run.at + 1) ELSE @]
        /\ run.pc = "solve" /\ pending' = pending
    BY <1>8 DEF Advance, Running
  <2>2. PICK points \in Seq(Nat) : points = IF run.start <= run.at + 1
                                            THEN Append(run.points, run.at + 1) ELSE run.points
    <3>1. run.points \in Seq(Nat) /\ run.at + 1 \in Nat
      BY <1>1 DEF Runs
    <3>2. Append(run.points, run.at + 1) \in Seq(Nat)
      BY <3>1, AppendProperties
    <3> QED BY <3>1, <3>2
  <2>3. /\ run' \in Runs /\ run'.pc = run.pc /\ run'.seg = run.seg /\ run'.plan = run.plan
        /\ run'.scheduled = run.scheduled /\ run'.splits = run.splits
        /\ run'.todo = run.todo
    <3>1. run' = [run EXCEPT !.at = run.at + 1, !.points = points] /\ run.at + 1 \in Nat
      BY <1>2, <2>1, <2>2
    <3> QED BY <1>1, <2>2, <3>1 DEF Runs
  <2>4. Ordered(run'.todo, ByN) /\ Els(run'.todo) \subseteq Els(run.todo)
    BY <2>1, <2>3 DEF PlanInv
  <2> QED BY <2>1, <2>3, <2>4, PlanKept
<1>9. CASE SolveFails
  BY <1>3, <1>9 DEF SolveFails, Running
<1>10. CASE SegmentEnd
  <2>1. PICK steps \in Seq(Nat) : steps = Stitched(run.steps, run.points)
    BY <1>1, StitchedType DEF Runs
  <2>2. /\ run' = IF run.split = Never
                  THEN [Idle EXCEPT !.result = "ok", !.stop = run.stop, !.start = run.start,
                                    !.steps = steps, !.plan = run.plan, !.landed = run.landed,
                                    !.splits = run.splits]
                  ELSE [run EXCEPT !.pc = "split", !.steps = steps, !.splits = @ \cup {run.split},
                             !.todo = Among(run.scheduled, {e \in Waiting : e.t = run.split})]
        /\ run.pc = "solve" /\ pending' = pending
    BY <1>10, <2>1 DEF SegmentEnd, Running
  <2>3. CASE run.split = Never
    <3>1. run'.pc = "idle" /\ run'.plan = run.plan
      BY <2>2, <2>3, IdleType DEF Runs
    <3> QED BY <2>2, <3>1 DEF PlanInv, Ordered
  <2>4. CASE run.split # Never
    <3>1. PICK S : S = {e \in Waiting : e.t = run.split}
      OBVIOUS
    <3>2. PICK todo \in Entries : todo = Among(run.scheduled, S)
      BY <1>2, AmongIs DEF Entries
    <3>3. Ordered(todo, ByN) /\ Els(todo) \subseteq Els(run.scheduled)
      <4>1. Ordered(run.scheduled, ByN)
        BY <2>2 DEF PlanInv
      <4>2. Els(todo) = Els(run.scheduled) \cap S
        BY <1>2, <3>2, ElsAmong
      <4> QED BY <1>2, <3>2, <4>1, <4>2, AmongOrdered
    <3>4. /\ run'.pc = "split" /\ run'.seg = run.seg /\ run'.plan = run.plan
          /\ run'.scheduled = run.scheduled /\ run'.todo = todo
      BY <1>1, <2>1, <2>2, <2>4, <3>1, <3>2 DEF Runs
    <3>5. /\ Ordered(run.plan, ByN)' = Ordered(run.plan, ByN)
          /\ Ordered(run.scheduled, ByN)' = Ordered(run.scheduled, ByN)
          /\ Ordered(run.todo, ByN)' = Ordered(todo, ByN)
          /\ Els(run.plan)' = Els(run.plan) /\ Els(run.scheduled)' = Els(run.scheduled)
          /\ Els(run.todo)' = Els(todo)
      BY <3>4 DEF Ordered, Els, ByN
    <3>6. run.pc # "idle" /\ Els(run.scheduled) \subseteq Els(run.plan)
      BY <2>2 DEF PlanInv
    <3>7. \A e \in Els(run.plan) \cup Els(todo) : e.v # Absent
      BY <3>3, <3>6 DEF PlanInv
    <3> QED BY <2>2, <3>3, <3>4, <3>5, <3>6, <3>7 DEF PlanInv
  <2> QED BY <2>3, <2>4
<1>11. CASE Split
  <2>1. run.pc = "split" /\ run.todo # <<>> /\ pending' = pending
    BY <1>11, SplitIs
  <2>2. PICK e \in Entry, left \in Entries :
          /\ left = Tail(run.todo)
          /\ \/ run' = [run EXCEPT !.todo = left, !.landed = Append(@, e)]
             \/ run' = [Idle EXCEPT !.result = "failed"]
             \/ run' = [run EXCEPT !.todo = left]
    BY <1>11, SplitIs
  <2>3. Els(left) \subseteq Els(run.todo) /\ Ordered(left, ByN)
    <3>1. Ordered(run.todo, ByN)
      BY <2>1 DEF PlanInv
    <3> QED BY <1>2, <2>1, <2>2, <3>1, ElsTail, OrderedTail
  <2>4. Append(run.landed, e) \in Entries
    BY <1>1, AppendProperties DEF Runs, Entries
  <2>5. CASE \/ run' = [run EXCEPT !.todo = left, !.landed = Append(@, e)]
             \/ run' = [run EXCEPT !.todo = left]
    <3>1. /\ run' \in Runs /\ run'.pc = run.pc /\ run'.seg = run.seg /\ run'.plan = run.plan
          /\ run'.scheduled = run.scheduled /\ run'.splits = run.splits
          /\ run'.at = run.at /\ run'.todo = left
      BY <1>1, <2>4, <2>5 DEF Runs
    <3> QED BY <2>1, <2>3, <3>1, PlanKept
  <2> QED BY <2>1, <2>2, <2>5, PlanDropped
<1>12. CASE Restart
  <2>1. PICK S : S = {e \in Waiting : e.t > run.split}
    OBVIOUS
  <2>2. PICK left \in Entries : left = Among(run.scheduled, S)
    BY <1>2, AmongIs DEF Entries
  <2>3. /\ run' = [run EXCEPT !.pc = "segment", !.seg = run.split, !.scheduled = left]
        /\ run.pc = "split" /\ run.split = run.at /\ run.todo = <<>> /\ pending' = pending
    BY <1>12, <2>1, <2>2 DEF Restart, Running, TInv
  <2>4. /\ run'.pc = "segment" /\ run'.seg = run.at /\ run'.at = run.at /\ run'.plan = run.plan
        /\ run'.scheduled = left /\ run'.todo = run.todo
    BY <1>1, <2>3 DEF Runs
  <2>5. Ordered(left, ByN) /\ Els(left) = {e \in Els(run.scheduled) : e.t > run.at}
    <3>1. Ordered(run.scheduled, ByN)
      BY <2>3 DEF PlanInv
    <3>2. Els(left) = Els(run.scheduled) \cap S /\ Waiting = Els(run.scheduled)
      BY <1>1, <1>2, <2>2, ElsAmong, WaitingIs
    <3> QED BY <1>2, <2>1, <2>2, <2>3, <3>1, <3>2, AmongOrdered
  <2>6. Els(left) = {e \in Els(run.plan) : e.t > run.at}
    <3>1. \A e \in Els(run.plan) : e \in Entry
      BY <1>2, ElsType
    <3>2. \A e \in Els(run.plan) : e.t > run.at => e.t > run.seg
      <4>1. \A e \in Entry : e.t \in Nat
        BY DEF Entry
      <4> QED BY <1>1, <1>2, <3>1, <4>1
    <3> QED BY <2>3, <2>5, <3>2 DEF PlanInv
  <2>7. /\ Ordered(run.plan, ByN)' = Ordered(run.plan, ByN)
        /\ Ordered(run.scheduled, ByN)' = Ordered(left, ByN)
        /\ Ordered(run.todo, ByN)' = Ordered(run.todo, ByN)
        /\ Els(run.plan)' = Els(run.plan) /\ Els(run.scheduled)' = Els(left)
        /\ Els(run.todo)' = Els(run.todo)
    BY <2>4 DEF Ordered, Els, ByN
  <2> QED BY <2>3, <2>4, <2>5, <2>6, <2>7 DEF PlanInv
<1>13. CASE UNCHANGED vars
  <2>1. run' = run /\ pending' = pending
    BY <1>13 DEF vars
  <2>2. \A i \in 1..Len(pending') : pending'[i].n = i /\ pending'[i].v # Absent
    BY <2>1 DEF PlanInv
  <2> QED BY <2>1, <2>2, PlanSame
<1> QED BY <1>4, <1>5, <1>6, <1>7, <1>8, <1>9, <1>10, <1>11, <1>12, <1>13 DEF Next

\* A write of a value changes the presence of nothing.
LEMMA FlipsKept ==
  ASSUME NEW l \in Lives, NEW p \in Params, NEW v \in Nat, v # Absent, ~Flips(l, p)
  PROVE  /\ \A q : Flips(Stamped(l, p, v), q) <=> Flips(l, q)
         /\ Nets(Stamped(l, p, v).circuit) = Nets(l.circuit)
<1>1. PICK c : c = Stamped(l, p, v).circuit
  OBVIOUS
<1>2. c = [l.circuit EXCEPT ![p] = v] /\ l.circuit \in Assignment
  BY <1>1, StampedIs DEF Lives
<1>3. \A q \in Optional : c[q] = Absent <=> l.circuit[q] = Absent
  <2> SUFFICES ASSUME NEW q \in Optional PROVE c[q] = Absent <=> l.circuit[q] = Absent
    OBVIOUS
  <2>1. q \in Params
    BY SessionAssumption
  <2>2. CASE q = p
    <3>1. c[q] = v /\ l.circuit[q] # Absent
      BY <1>2, <2>1, <2>2 DEF Assignment, Flips
    <3> QED BY <3>1
  <2>3. CASE q # p
    BY <1>2, <2>1, <2>3 DEF Assignment
  <2> QED BY <2>2, <2>3
<1>4. \A q : Flips(Stamped(l, p, v), q) <=> Flips(l, q)
  BY <1>1, <1>3 DEF Flips
<1>5. {q \in Optional : c[q] # Absent} = {q \in Optional : l.circuit[q] # Absent}
  BY <1>3
<1> QED BY <1>1, <1>4, <1>5 DEF Nets

\* Up to where everything that can land has.
Done == IF run.pc = "split" THEN run.at ELSE run.seg

\* What landed was planned, and landed in order.
LandOrder == Els(run.landed) \subseteq Els(run.plan) /\ Ordered(run.landed, ByTime)

\* It is not ahead of the clock, and not behind what is done.
LandDone ==
  run.pc # "idle" =>
    /\ \A e \in Els(run.landed) : e.t <= run.at
    /\ \A e \in Els(run.plan) : e.t <= Done /\ e.t \notin run.splits => e \in Els(run.landed)
    /\ \A t \in run.splits :
         (run.pc = "split" /\ t = run.at) \/ \E e \in Els(run.landed) : e.t = t

\* What a segment is given is to do or has landed, and a split has its reason.
LandSolve ==
  run.pc = "solve" =>
    /\ \A e \in Els(run.scheduled) :
         Given(e, run.split) => run.refused \/ e \in Els(run.todo) \/ e \in Els(run.landed)
    /\ \A e \in Els(run.todo) : Given(e, run.split) /\ e.t >= run.at
    /\ \A e \in Els(run.landed) :
         e.t > run.seg => e \in Els(run.scheduled) /\ Given(e, run.split) /\ e.p \notin PomOnly
    /\ run.split # Never => \E e \in Els(run.scheduled) : e.t = run.split /\ Structural(e)

\* What is to do comes after what has landed.
LandNext ==
  run.pc \in {"solve", "split"} =>
    \A e \in Els(run.landed), f \in Els(run.todo) : <<e, f>> \in ByTime

\* At a split something has landed or will.
LandSplit ==
  run.pc = "split" =>
    /\ \A e \in Els(run.todo) : e.t = run.at
    /\ run.at \in run.splits
    /\ (\E e \in Els(run.landed) : e.t = run.at) \/ (\E e \in Els(run.todo) : Structural(e))

\* At the end everything that can has landed.
LandEnd ==
  run.result = "ok" =>
    /\ \A e \in Els(run.plan) : e.t <= run.stop /\ e.t \notin run.splits => e \in Els(run.landed)
    /\ \A t \in run.splits : \E e \in Els(run.landed) : e.t = t

LandInv == LandOrder /\ LandDone /\ LandSolve /\ LandNext /\ LandSplit /\ LandEnd

\* A call between transients leaves what landed alone, and so does a run that failed.
LEMMA LandIdle ==
  ASSUME LandInv, run.pc = "idle", run' = run
  PROVE  LandInv'
<1>1. Els(run.landed)' = Els(run.landed) /\ Els(run.plan)' = Els(run.plan)
      /\ Ordered(run.landed, ByTime)' = Ordered(run.landed, ByTime)
  BY DEF Els, Ordered, ByTime
<1>2. LandOrder' /\ LandEnd'
  BY <1>1 DEF LandInv, LandOrder, LandEnd
<1>3. LandDone' /\ LandSolve' /\ LandNext' /\ LandSplit'
  BY DEF LandDone, LandSolve, LandNext, LandSplit
<1> QED BY <1>2, <1>3 DEF LandInv

\* A run that failed has landed nothing that it answers for.
LEMMA LandDropped ==
  ASSUME run' = [Idle EXCEPT !.result = "failed"]
  PROVE  LandInv'
<1>1. run'.pc = "idle" /\ run'.landed = <<>> /\ run'.result = "failed"
  BY IdleType DEF Runs
<1>2. Els(run.landed)' = {} /\ Ordered(run.landed, ByTime)'
  BY <1>1 DEF Els, Ordered, ByTime
<1> QED BY <1>1, <1>2 DEF LandInv, LandOrder, LandDone, LandSolve, LandNext, LandSplit, LandEnd

\* Before the run nothing lands.
LEMMA LandEarly ==
  ASSUME run' \in Runs, run'.pc = "early", run'.landed = <<>>, run'.seg = 0, run'.splits = {},
         \A e \in Els(run.plan)' : e.t > 0, run'.result = "none"
  PROVE  LandInv'
<1>1. Els(run.landed)' = {} /\ Ordered(run.landed, ByTime)'
  BY DEF Els, Ordered, ByTime
<1>2. Done' = 0
  BY DEF Done
<1>3. \A e \in Els(run.plan)' : ~(e.t <= 0)
  <2>1. \A t \in Nat : t > 0 => ~(t <= 0)
    OBVIOUS
  <2>2. run'.plan \in Seq(Entry)
    BY DEF Runs, Entries
  <2>3. \A e \in Els(run.plan)' : e.t \in Nat
    <3>1. PICK plan \in Seq(Entry) : plan = run'.plan
      BY <2>2
    <3>2. Els(run.plan)' = Els(plan)
      BY <3>1 DEF Els
    <3>3. Els(plan) \subseteq Entry
      BY <3>1, ElsType
    <3> QED BY <3>2, <3>3 DEF Entry
  <2> QED BY <2>1, <2>3
<1>4. LandDone'
  BY <1>1, <1>2, <1>3 DEF LandDone
<1> QED BY <1>1, <1>4 DEF LandInv, LandOrder, LandSolve, LandNext, LandSplit, LandEnd

\* A segment begins with all it is given to do.
LEMMA LandSegment ==
  ASSUME TInv, StitchInv, PlanInv, LandInv, Segment
  PROVE  LandInv'
<1>1. run \in Runs /\ live \in Lives
  BY DEF TInv
<1>2. run.pc \in {"early", "segment"} /\ host' = host /\ live' = live
  BY <1>1, SegmentIs
<1>3. PICK split \in {Never} \cup Splitters :
        run' = [run EXCEPT !.pc = "solve", !.at = run.seg, !.split = split,
                  !.todo = SegSets(split),
                  !.points = IF run.start <= run.seg THEN <<run.seg>> ELSE <<>>,
                  !.seeded = live.carry.of]
  BY <1>1, SegmentIs
<1>4. PICK todo \in Entries : todo = SegSets(split)
  BY <1>1, SegSetsType
<1>5. /\ run'.pc = "solve" /\ run'.seg = run.seg /\ run'.at = run.seg /\ run'.plan = run.plan
      /\ run'.scheduled = run.scheduled /\ run'.todo = todo /\ run'.landed = run.landed
      /\ run'.splits = run.splits /\ run'.split = split /\ run'.stop = run.stop
      /\ run'.result = run.result
  BY <1>1, <1>3, <1>4 DEF Runs
<1>6. /\ Els(run.plan)' = Els(run.plan) /\ Els(run.scheduled)' = Els(run.scheduled)
      /\ Els(run.todo)' = Els(todo) /\ Els(run.landed)' = Els(run.landed)
      /\ Ordered(run.landed, ByTime)' = Ordered(run.landed, ByTime)
  BY <1>5 DEF Els, Ordered, ByTime
<1>7. \A e \in Entry : Given(e, run.split)' <=> Given(e, split)
  BY <1>2, <1>5 DEF Given, InSegment, SegStopAt
<1>8. Els(todo) = {e \in Els(run.scheduled) : Given(e, split)}
  <2>1. Ordered(run.scheduled, ByN)
    BY <1>2 DEF PlanInv
  <2> QED BY <1>1, <1>4, <2>1, SegSetsIs
<1>9. /\ \A e \in Els(run.scheduled) : e \in Entry /\ e.t > run.seg /\ e.t \in Nat
      /\ \A e \in Els(run.landed) : e \in Entry /\ e.t <= run.seg /\ e.t \in Nat
      /\ run.seg \in Nat
  <2>1. run.scheduled \in Seq(Entry) /\ run.landed \in Seq(Entry)
    BY <1>1 DEF Runs, Entries
  <2>2. Els(run.scheduled) \subseteq Entry /\ Els(run.landed) \subseteq Entry
    BY <2>1, ElsType
  <2>3. \A e \in Entry : e.t \in Nat
    BY DEF Entry
  <2>4. \A e \in Els(run.scheduled) : e.t > run.seg
    BY <1>2 DEF PlanInv
  <2>5. \A e \in Els(run.landed) : e.t <= run.seg
    BY <1>2 DEF PlanInv, LandInv, LandDone
  <2>6. run.seg \in Nat
    BY <1>1 DEF Runs
  <2> QED BY <2>2, <2>3, <2>4, <2>5, <2>6
<1>10. LandOrder'
  BY <1>6 DEF LandInv, LandOrder
<1>11. LandDone'
  <2>1. Done' = Done
    BY <1>2, <1>5 DEF Done
  <2>2. /\ \A e \in Els(run.plan) : e.t <= Done /\ e.t \notin run.splits => e \in Els(run.landed)
        /\ \A t \in run.splits : \E e \in Els(run.landed) : e.t = t
    BY <1>2 DEF LandInv, LandDone
  <2> QED BY <1>5, <1>6, <1>9, <2>1, <2>2 DEF LandDone
<1>12. LandSolve'
  <2>1. \A e \in Els(run.scheduled) : Given(e, run.split)' => e \in Els(todo)
    BY <1>7, <1>8, <1>9
  <2>2. \A e \in Els(todo) : Given(e, run.split)' /\ e.t >= run.seg
    BY <1>7, <1>8, <1>9
  <2>3. \A e \in Els(run.landed) : ~(e.t > run.seg)
    BY <1>9
  <2>4. ASSUME split # Never
        PROVE  \E e \in Els(run.scheduled) : e.t = split /\ Structural(e)'
    <3>1. split \in Splitters
      BY <2>4
    <3>2. PICK e \in Waiting : e.t = split /\ Structural(e)
      BY <3>1 DEF Splitters
    <3>3. Structural(e)'
      BY <1>2, <3>2 DEF Structural, Flips
    <3> QED BY <1>1, <3>2, <3>3, WaitingIs
  <2> QED BY <1>5, <1>6, <2>1, <2>2, <2>3, <2>4 DEF LandSolve
<1>13. LandNext'
  <2>1. ASSUME NEW e \in Els(run.landed), NEW f \in Els(todo) PROVE <<e, f>> \in ByTime
    <3>1. e \in Entry /\ f \in Entry /\ e.t <= run.seg /\ f.t > run.seg /\ e.t \in Nat /\ f.t \in Nat
      BY <1>8, <1>9
    <3> QED BY <1>9, <3>1, OrdersAre
  <2> QED BY <1>6, <2>1 DEF LandNext
<1>14. LandSplit' /\ LandEnd'
  BY <1>2, <1>5 DEF LandSplit, LandEnd, StitchInv
<1> QED BY <1>10, <1>11, <1>12, <1>13, <1>14 DEF LandInv

\* A write that is due lands after those that did, and before the others.
LEMMA LandLand ==
  ASSUME TInv, StitchInv, PlanInv, LandInv, Land
  PROVE  LandInv'
<1>1. run \in Runs /\ live \in Lives
  BY DEF TInv
<1>2. run.pc = "solve" /\ host' = host
  BY <1>1, LandIs
<1>3. PICK i \in DueNow, e \in Entry :
        /\ e = run.todo[i] /\ \A j \in DueNow : i <= j
        /\ \/ GivesUp(live)
           \/ /\ run' = [run EXCEPT !.todo = Among(run.todo, Waiting \ {e}), !.refused = TRUE]
              /\ UNCHANGED live
           \/ /\ e.p \notin PomOnly /\ ~Flips(live, e.p)
              /\ live' = Stamped(live, e.p, e.v)
              /\ run' = [run EXCEPT !.todo = Among(run.todo, Waiting \ {e}), !.landed = Append(@, e)]
  BY <1>1, LandIs
<1>4. /\ run.todo \in Seq(Entry) /\ run.landed \in Seq(Entry) /\ run.scheduled \in Seq(Entry)
      /\ Els(run.todo) \subseteq Entry /\ Els(run.landed) \subseteq Entry
      /\ run.at \in Nat /\ \A x \in Entry : x.t \in Nat /\ x.n \in Nat
  <2>1. run.todo \in Seq(Entry) /\ run.landed \in Seq(Entry) /\ run.scheduled \in Seq(Entry)
    BY <1>1 DEF Runs, Entries
  <2>2. \A x \in Entry : x.t \in Nat /\ x.n \in Nat
    BY DEF Entry
  <2>3. run.at \in Nat
    BY <1>1 DEF Runs
  <2> QED BY <2>1, <2>2, <2>3, ElsType
<1>5. i \in 1..Len(run.todo) /\ e \in Els(run.todo) /\ e.t = run.at
  BY <1>3, <1>4 DEF DueNow, Els
<1>6. PICK S : S = Waiting \ {e}
  OBVIOUS
<1>7. PICK left \in Entries : left = Among(run.todo, S)
  BY <1>4, AmongIs DEF Entries
<1>8. Els(left) = Els(run.todo) \ {e}
  <2>1. Els(left) = Els(run.todo) \cap S
    BY <1>4, <1>7, ElsAmong
  <2>2. Els(run.todo) \subseteq Waiting
    BY <1>1, <1>2, WaitingIs DEF PlanInv
  <2> QED BY <1>6, <2>1, <2>2
<1>9. /\ \A x \in Els(run.scheduled) :
           Given(x, run.split) => run.refused \/ x \in Els(run.todo) \/ x \in Els(run.landed)
      /\ \A x \in Els(run.todo) : Given(x, run.split) /\ x.t >= run.at
      /\ \A x \in Els(run.landed) :
           x.t > run.seg => x \in Els(run.scheduled) /\ Given(x, run.split) /\ x.p \notin PomOnly
      /\ run.split # Never => \E x \in Els(run.scheduled) : x.t = run.split /\ Structural(x)
      /\ \A x \in Els(run.landed), f \in Els(run.todo) : <<x, f>> \in ByTime
  BY <1>2 DEF LandInv, LandSolve, LandNext
<1>10. CASE run' = [run EXCEPT !.todo = left, !.refused = TRUE] /\ UNCHANGED live
  <2>1. /\ run'.pc = "solve" /\ run'.seg = run.seg /\ run'.at = run.at /\ run'.plan = run.plan
        /\ run'.scheduled = run.scheduled /\ run'.todo = left /\ run'.landed = run.landed
        /\ run'.splits = run.splits /\ run'.split = run.split /\ run'.stop = run.stop
        /\ run'.result = run.result /\ run'.refused = TRUE
    BY <1>1, <1>2, <1>10 DEF Runs
  <2>2. /\ Els(run.plan)' = Els(run.plan) /\ Els(run.scheduled)' = Els(run.scheduled)
        /\ Els(run.todo)' = Els(left) /\ Els(run.landed)' = Els(run.landed)
        /\ Ordered(run.landed, ByTime)' = Ordered(run.landed, ByTime)
    BY <2>1 DEF Els, Ordered, ByTime
  <2>3. \A x : Given(x, run.split)' <=> Given(x, run.split)
    BY <1>2, <2>1 DEF Given, InSegment, SegStopAt
  <2>4. LandOrder'
    BY <2>2 DEF LandInv, LandOrder
  <2>5. LandDone'
    BY <1>2, <2>1, <2>2 DEF LandInv, LandDone, Done
  <2>6. LandSolve'
    <3>1. \A x : Structural(x)' <=> Structural(x)
      BY <1>2, <1>10 DEF Structural, Flips
    <3> QED BY <1>8, <1>9, <2>1, <2>2, <2>3, <3>1 DEF LandSolve
  <2>7. LandNext'
    BY <1>8, <1>9, <2>2 DEF LandNext
  <2>8. LandSplit' /\ LandEnd'
    BY <1>2, <2>1 DEF LandSplit, LandEnd, StitchInv
  <2> QED BY <2>4, <2>5, <2>6, <2>7, <2>8 DEF LandInv
<1>11. CASE /\ e.p \notin PomOnly /\ ~Flips(live, e.p)
            /\ live' = Stamped(live, e.p, e.v)
            /\ run' = [run EXCEPT !.todo = left, !.landed = Append(@, e)]
  <2>1. PICK landed \in Entries : landed = Append(run.landed, e)
    BY <1>4, AppendProperties DEF Entries
  <2>2. /\ run'.pc = "solve" /\ run'.seg = run.seg /\ run'.at = run.at /\ run'.plan = run.plan
        /\ run'.scheduled = run.scheduled /\ run'.todo = left /\ run'.landed = landed
        /\ run'.splits = run.splits /\ run'.split = run.split /\ run'.stop = run.stop
        /\ run'.result = run.result /\ run'.refused = run.refused
    BY <1>1, <1>2, <1>11, <2>1 DEF Runs
  <2>3. /\ Els(run.plan)' = Els(run.plan) /\ Els(run.scheduled)' = Els(run.scheduled)
        /\ Els(run.todo)' = Els(left) /\ Els(run.landed)' = Els(landed)
        /\ Ordered(run.landed, ByTime)' = Ordered(landed, ByTime)
    BY <2>2 DEF Els, Ordered, ByTime
  <2>4. \A x : Given(x, run.split)' <=> Given(x, run.split)
    BY <1>2, <2>2 DEF Given, InSegment, SegStopAt
  <2>5. Els(landed) = Els(run.landed) \cup {e}
    BY <1>4, <2>1, ElsAppend
  <2>6. e \in Els(run.scheduled) /\ e \in Els(run.plan) /\ e.v # Absent
    BY <1>2, <1>5 DEF PlanInv
  <2>7. LandOrder'
    <3>1. \A x \in Els(run.landed) : <<x, e>> \in ByTime
      BY <1>5, <1>9
    <3>2. Ordered(landed, ByTime)
      BY <1>4, <2>1, <3>1, OrderedAppend DEF LandInv, LandOrder
    <3> QED BY <2>3, <2>5, <2>6, <3>2 DEF LandInv, LandOrder
  <2>8. LandDone'
    <3>1. e.t <= run.at
      BY <1>4, <1>5
    <3> QED BY <1>2, <2>2, <2>3, <2>5, <3>1 DEF LandInv, LandDone, Done
  <2>9. LandSolve'
    <3>1. \A x : Structural(x)' <=> Structural(x)
      <4>1. e.p \in Params /\ e.v \in Nat
        BY DEF Entry
      <4>2. \A q : Flips(live, q)' <=> Flips(live, q)
        BY <1>1, <1>11, <2>6, <4>1, FlipsKept
      <4> QED BY <1>2, <4>2 DEF Structural
    <3>2. \A x \in Els(run.scheduled) : Given(x, run.split) =>
            run.refused \/ x \in Els(left) \/ x \in Els(landed)
      BY <1>8, <1>9, <2>5
    <3>3. \A x \in Els(left) : Given(x, run.split) /\ x.t >= run.at
      BY <1>8, <1>9
    <3>4. \A x \in Els(landed) :
            x.t > run.seg => x \in Els(run.scheduled) /\ Given(x, run.split) /\ x.p \notin PomOnly
      BY <1>5, <1>9, <1>11, <2>5, <2>6
    <3> QED BY <1>9, <2>2, <2>3, <2>4, <3>1, <3>2, <3>3, <3>4 DEF LandSolve
  <2>10. LandNext'
    <3>1. ASSUME NEW f \in Els(left) PROVE <<e, f>> \in ByTime
      <4>1. f \in Els(run.todo) /\ f # e /\ f \in Entry /\ f.t >= run.at
        BY <1>4, <1>8, <1>9
      <4>2. CASE f.t = run.at
        <5>1. PICK j \in 1..Len(run.todo) : f = run.todo[j]
          BY <4>1 DEF Els
        <5>2. j \in DueNow
          BY <1>4, <4>2, <5>1 DEF DueNow
        <5>3. i < j
          <6>1. i <= j /\ i # j /\ i \in Nat /\ j \in Nat
            BY <1>3, <1>4, <1>5, <4>1, <5>1, <5>2
          <6> QED BY <6>1
        <5>4. <<e, f>> \in ByN
          BY <1>2, <1>3, <1>5, <5>1, <5>3 DEF PlanInv, Ordered
        <5> QED BY <1>5, <4>1, <4>2, <5>4, OrdersAre
      <4>3. CASE f.t # run.at
        <5>1. e.t < f.t
          BY <1>4, <1>5, <4>1, <4>3
        <5> QED BY <4>1, <5>1, OrdersAre
      <4> QED BY <4>2, <4>3
    <3> QED BY <1>8, <1>9, <2>3, <2>5, <3>1 DEF LandNext
  <2>11. LandSplit' /\ LandEnd'
    BY <1>2, <2>2 DEF LandSplit, LandEnd, StitchInv
  <2> QED BY <2>7, <2>8, <2>9, <2>10, <2>11 DEF LandInv
<1>12. CASE GivesUp(live)
  BY <1>12, LandDropped DEF GivesUp
<1> QED BY <1>3, <1>6, <1>7, <1>10, <1>11, <1>12

\* When a segment ends all it was given up to there has landed.
LEMMA LandSegmentEnd ==
  ASSUME TInv, StitchInv, PlanInv, LandInv, SegmentEnd
  PROVE  LandInv'
<1>1. run \in Runs /\ live \in Lives /\ last \in Volts /\ run.at <= run.stop
  BY DEF TInv
<1>2. /\ run.pc = "solve" /\ host' = host /\ DueNow = {} /\ ~run.refused
      /\ run.at = SegStopAt(run.split)
  BY DEF SegmentEnd, Running
<1>3. live'.circuit = live.circuit
  BY <1>1, SegmentEndIs
<1>4. PICK steps \in Seq(Nat) : steps = Stitched(run.steps, run.points)
  BY <1>1, StitchedType DEF Runs
<1>5. PICK S : S = {e \in Waiting : e.t = run.split}
  OBVIOUS
<1>6. run' = IF run.split = Never
             THEN [Idle EXCEPT !.result = "ok", !.stop = run.stop, !.start = run.start,
                               !.steps = steps, !.plan = run.plan, !.landed = run.landed,
                               !.splits = run.splits]
             ELSE [run EXCEPT !.pc = "split", !.steps = steps, !.splits = @ \cup {run.split},
                              !.todo = Among(run.scheduled, S)]
  BY <1>4, <1>5 DEF SegmentEnd
<1>7. /\ run.todo \in Seq(Entry) /\ run.landed \in Seq(Entry) /\ run.scheduled \in Seq(Entry)
      /\ run.plan \in Seq(Entry)
      /\ Els(run.todo) \subseteq Entry /\ Els(run.landed) \subseteq Entry
      /\ Els(run.scheduled) \subseteq Entry /\ Els(run.plan) \subseteq Entry
      /\ run.at \in Nat /\ run.seg \in Nat /\ run.stop \in Nat
      /\ \A x \in Entry : x.t \in Nat /\ x.n \in Nat
  <2>1. /\ run.todo \in Seq(Entry) /\ run.landed \in Seq(Entry) /\ run.scheduled \in Seq(Entry)
        /\ run.plan \in Seq(Entry)
    BY <1>1 DEF Runs, Entries
  <2>2. \A x \in Entry : x.t \in Nat /\ x.n \in Nat
    BY DEF Entry
  <2>3. run.at \in Nat /\ run.seg \in Nat /\ run.stop \in Nat
    BY <1>1 DEF Runs
  <2> QED BY <2>1, <2>2, <2>3, ElsType
<1>8. \A x \in Els(run.todo) : x.t > run.at
  <2> SUFFICES ASSUME NEW x \in Els(run.todo) PROVE x.t > run.at
    OBVIOUS
  <2>1. PICK j \in 1..Len(run.todo) : x = run.todo[j]
    BY DEF Els
  <2>2. x.t # run.at
    BY <1>2, <1>7, <2>1 DEF DueNow
  <2>3. x.t >= run.at
    BY <1>2 DEF LandInv, LandSolve
  <2>4. x.t \in Nat
    BY <1>7
  <2> QED BY <1>7, <2>2, <2>3, <2>4
<1>9. \A x \in Els(run.plan) :
        /\ x.t <= run.seg /\ x.t \notin run.splits => x \in Els(run.landed)
        /\ x.t > run.seg => x \in Els(run.scheduled)
  BY <1>2 DEF LandInv, LandDone, Done, PlanInv
<1>10. \A t \in run.splits : \E e \in Els(run.landed) : e.t = t
  BY <1>2 DEF LandInv, LandDone
<1>11. ASSUME NEW x \in Els(run.plan), x.t <= run.at, x.t # run.split, x.t \notin run.splits
       PROVE  x \in Els(run.landed)
  <2>1. x.t \in Nat /\ x \in Entry
    BY <1>7
  <2>2. CASE x.t <= run.seg
    BY <1>9, <1>11, <2>2
  <2>3. CASE x.t > run.seg
    <3>1. x \in Els(run.scheduled)
      BY <1>9, <2>3
    <3>2. Given(x, run.split)
      BY <1>2, <1>11, <2>3 DEF Given, InSegment
    <3>3. x \in Els(run.todo) \/ x \in Els(run.landed)
      BY <1>2, <3>1, <3>2 DEF LandInv, LandSolve
    <3>4. x \notin Els(run.todo)
      <4>1. ~(x.t > run.at)
        BY <1>7, <1>11, <2>1
      <4> QED BY <1>8, <4>1
    <3> QED BY <3>3, <3>4
  <2> QED BY <1>7, <2>1, <2>2, <2>3
<1>12. CASE run.split = Never
  <2>1. /\ run'.pc = "idle" /\ run'.plan = run.plan /\ run'.landed = run.landed
        /\ run'.splits = run.splits /\ run'.stop = run.stop
    <3>1. /\ run.stop \in 0..MaxTime /\ run.start \in 0..MaxTime /\ run.plan \in Entries
          /\ run.landed \in Entries /\ run.splits \in SUBSET Nat
      BY <1>1 DEF Runs
    <3> QED BY <1>6, <1>12, <3>1, IdleType DEF Runs
  <2>2. /\ Els(run.plan)' = Els(run.plan) /\ Els(run.landed)' = Els(run.landed)
        /\ Ordered(run.landed, ByTime)' = Ordered(run.landed, ByTime)
    BY <2>1 DEF Els, Ordered, ByTime
  <2>3. LandOrder'
    BY <2>2 DEF LandInv, LandOrder
  <2>4. run.at = run.stop /\ \A x \in Els(run.plan) : x.t # Never
    <3>1. \A t \in Nat : t # Never
      BY DEF Never
    <3> QED BY <1>2, <1>7, <1>12, <3>1 DEF SegStopAt
  <2>5. LandEnd'
    BY <1>10, <1>11, <1>12, <2>1, <2>2, <2>4 DEF LandEnd
  <2> QED BY <2>1, <2>3, <2>5 DEF LandInv, LandDone, LandSolve, LandNext, LandSplit
<1>13. CASE run.split # Never
  <2>1. run.at = run.split
    BY <1>2, <1>13 DEF SegStopAt
  <2>2. PICK todo \in Entries : todo = Among(run.scheduled, S)
    BY <1>7, AmongIs DEF Entries
  <2>3. Els(todo) = {x \in Els(run.scheduled) : x.t = run.at}
    <3>1. Els(todo) = Els(run.scheduled) \cap S
      BY <1>7, <2>2, ElsAmong
    <3> QED BY <1>1, <1>5, <2>1, <3>1, WaitingIs
  <2>4. /\ run'.pc = "split" /\ run'.at = run.at /\ run'.plan = run.plan
        /\ run'.todo = todo /\ run'.landed = run.landed
        /\ run'.splits = run.splits \cup {run.at} /\ run'.result = run.result
    BY <1>1, <1>6, <1>13, <2>1, <2>2 DEF Runs
  <2>5. /\ Els(run.plan)' = Els(run.plan)
        /\ Els(run.todo)' = Els(todo) /\ Els(run.landed)' = Els(run.landed)
        /\ Ordered(run.landed, ByTime)' = Ordered(run.landed, ByTime)
    BY <2>4 DEF Els, Ordered, ByTime
  <2>6. LandOrder'
    BY <2>5 DEF LandInv, LandOrder
  <2>7. LandDone'
    <3>1. Done' = run.at
      BY <2>4 DEF Done
    <3>2. \A x \in Els(run.plan) : x.t <= run.at /\ x.t \notin run.splits \cup {run.at} =>
            x \in Els(run.landed)
      BY <1>11, <2>1
    <3>3. \A t \in run.splits \cup {run.at} : t = run.at \/ \E e \in Els(run.landed) : e.t = t
      BY <1>10
    <3>4. \A x \in Els(run.landed) : x.t <= run.at
      BY <1>2 DEF LandInv, LandDone
    <3> QED BY <2>4, <2>5, <3>1, <3>2, <3>3, <3>4 DEF LandDone
  <2>8. PICK e \in Els(run.scheduled) : e.t = run.at /\ Structural(e)
    BY <1>2, <1>13, <2>1 DEF LandInv, LandSolve
  <2>9. host = "python"
    BY <2>8 DEF Structural
  <2>10. LandNext'
    <3>1. ASSUME NEW x \in Els(run.landed), NEW f \in Els(todo) PROVE <<x, f>> \in ByTime
      <4>1. x \in Entry /\ f \in Entry /\ f.t = run.at /\ x.t \in Nat
        BY <1>7, <2>3
      <4>2. x.t <= run.at
        BY <1>2 DEF LandInv, LandDone
      <4>3. x.t # run.at
        <5>1. CASE x.t > run.seg
          <6>1. Given(x, run.split)
            BY <1>2, <5>1 DEF LandInv, LandSolve
          <6> QED BY <2>1, <2>9, <6>1 DEF Given
        <5>2. CASE ~(x.t > run.seg)
          <6>1. run.seg < run.at
            BY <1>2, <1>13, <2>1 DEF TInv
          <6> QED BY <1>7, <4>1, <5>2, <6>1
        <5> QED BY <5>1, <5>2
      <4>4. x.t < f.t
        BY <1>7, <4>1, <4>2, <4>3
      <4> QED BY <4>1, <4>4, OrdersAre
    <3> QED BY <2>5, <3>1 DEF LandNext
  <2>11. LandSplit'
    <3>1. Structural(e)'
      BY <1>2, <1>3, <2>8 DEF Structural, Flips
    <3>2. e \in Els(todo)
      BY <2>3, <2>8
    <3>3. \A x \in Els(todo) : x.t = run.at
      BY <2>3
    <3> QED BY <2>4, <2>5, <3>1, <3>2, <3>3 DEF LandSplit
  <2>12. LandSolve' /\ LandEnd'
    BY <1>2, <2>4 DEF LandSolve, LandEnd, StitchInv
  <2> QED BY <2>6, <2>7, <2>10, <2>11, <2>12 DEF LandInv
<1> QED BY <1>12, <1>13

\* At a split a structural write lands after those before, and one is left to or has.
LEMMA LandSplitStep ==
  ASSUME TInv, StitchInv, PlanInv, LandInv, Split
  PROVE  LandInv'
<1>1. run \in Runs /\ run.todo \in Seq(Entry) /\ run.landed \in Seq(Entry)
  BY DEF TInv, Runs, Entries
<1>2. run.pc = "split" /\ run.todo # <<>> /\ host' = host
  BY SplitIs
<1>3. PICK e \in Entry, left \in Entries :
        /\ e = Head(run.todo) /\ left = Tail(run.todo)
        /\ \/ Structural(e) /\ run' = [run EXCEPT !.todo = left, !.landed = Append(@, e)]
           \/ run' = [Idle EXCEPT !.result = "failed"]
           \/ ~Structural(e) /\ UNCHANGED live /\ run' = [run EXCEPT !.todo = left]
  BY SplitIs
<1>4. Els(run.todo) = {e} \cup Els(left) /\ \A x \in Els(left) : <<e, x>> \in ByN
  <2>1. Ordered(run.todo, ByN)
    BY <1>2 DEF PlanInv
  <2> QED BY <1>1, <1>2, <1>3, <2>1, ElsTail, OrderedTail
<1>5. /\ \A x \in Els(run.landed) : x.t <= run.at
      /\ \A x \in Els(run.plan) : x.t <= run.at /\ x.t \notin run.splits => x \in Els(run.landed)
      /\ \A t \in run.splits : t = run.at \/ \E x \in Els(run.landed) : x.t = t
      /\ \A x \in Els(run.landed), f \in Els(run.todo) : <<x, f>> \in ByTime
      /\ \A x \in Els(run.todo) : x.t = run.at
      /\ run.at \in run.splits
      /\ (\E x \in Els(run.landed) : x.t = run.at) \/ (\E x \in Els(run.todo) : Structural(x))
  BY <1>2 DEF LandInv, LandDone, LandNext, LandSplit, Done
<1>6. CASE Structural(e) /\ run' = [run EXCEPT !.todo = left, !.landed = Append(@, e)]
  <2>1. PICK landed \in Entries : landed = Append(run.landed, e)
    BY <1>1, AppendProperties DEF Entries
  <2>2. /\ run'.pc = "split" /\ run'.at = run.at /\ run'.plan = run.plan
        /\ run'.todo = left /\ run'.landed = landed
        /\ run'.splits = run.splits /\ run'.result = run.result
    BY <1>1, <1>2, <1>6, <2>1 DEF Runs
  <2>3. /\ Els(run.plan)' = Els(run.plan)
        /\ Els(run.todo)' = Els(left) /\ Els(run.landed)' = Els(landed)
        /\ Ordered(run.landed, ByTime)' = Ordered(landed, ByTime)
    BY <2>2 DEF Els, Ordered, ByTime
  <2>4. Els(landed) = Els(run.landed) \cup {e}
    BY <1>1, <2>1, ElsAppend
  <2>5. e \in Els(run.plan) /\ e.t = run.at
    BY <1>2, <1>4, <1>5 DEF PlanInv
  <2>6. LandOrder'
    <3>1. \A x \in Els(run.landed) : <<x, e>> \in ByTime
      BY <1>4, <1>5
    <3>2. Ordered(landed, ByTime)
      BY <1>1, <2>1, <3>1, OrderedAppend DEF LandInv, LandOrder
    <3> QED BY <2>3, <2>4, <2>5, <3>2 DEF LandInv, LandOrder
  <2>7. LandDone'
    <3>1. Done' = run.at
      BY <2>2 DEF Done
    <3>2. \A x \in Els(landed) : x.t <= run.at
      <4>1. run.at <= run.at
        BY <1>1 DEF Runs
      <4> QED BY <1>5, <2>4, <2>5, <4>1
    <3>3. \A t \in run.splits : t = run.at \/ \E x \in Els(landed) : x.t = t
      BY <1>5, <2>4
    <3>4. \A x \in Els(run.plan) : x.t <= run.at /\ x.t \notin run.splits => x \in Els(landed)
      BY <1>5, <2>4
    <3> QED BY <2>2, <2>3, <3>1, <3>2, <3>3, <3>4 DEF LandDone
  <2>8. LandNext'
    <3>1. ASSUME NEW f \in Els(left) PROVE <<e, f>> \in ByTime
      <4>1. left \in Seq(Entry) /\ f \in Els(run.todo) /\ <<e, f>> \in ByN
        BY <1>4 DEF Entries
      <4>2. f \in Entry /\ e.t = f.t
        BY <1>5, <2>5, <4>1, ElsType
      <4> QED BY <4>1, <4>2, OrdersAre
    <3> QED BY <1>4, <1>5, <2>3, <2>4, <3>1 DEF LandNext
  <2>9. LandSplit'
    <3>1. \A x \in Els(left) : x.t = run.at
      BY <1>4, <1>5
    <3>2. e \in Els(landed)
      BY <2>4
    <3> QED BY <1>5, <2>2, <2>3, <2>5, <3>1, <3>2 DEF LandSplit
  <2>10. LandSolve' /\ LandEnd'
    BY <1>2, <2>2 DEF LandSolve, LandEnd, StitchInv
  <2> QED BY <2>6, <2>7, <2>8, <2>9, <2>10 DEF LandInv
<1>7. CASE ~Structural(e) /\ UNCHANGED live /\ run' = [run EXCEPT !.todo = left]
  <2>1. /\ run'.pc = "split" /\ run'.at = run.at /\ run'.plan = run.plan
        /\ run'.todo = left /\ run'.landed = run.landed
        /\ run'.splits = run.splits /\ run'.result = run.result
    BY <1>1, <1>2, <1>7 DEF Runs
  <2>2. /\ Els(run.plan)' = Els(run.plan)
        /\ Els(run.todo)' = Els(left) /\ Els(run.landed)' = Els(run.landed)
        /\ Ordered(run.landed, ByTime)' = Ordered(run.landed, ByTime)
    BY <2>1 DEF Els, Ordered, ByTime
  <2>3. \A x : Structural(x)' <=> Structural(x)
    BY <1>2, <1>7 DEF Structural, Flips
  <2>4. LandOrder'
    BY <2>2 DEF LandInv, LandOrder
  <2>5. LandDone'
    <3>1. Done' = run.at
      BY <2>1 DEF Done
    <3> QED BY <1>5, <2>1, <2>2, <3>1 DEF LandDone
  <2>6. LandNext'
    BY <1>4, <1>5, <2>2 DEF LandNext
  <2>7. LandSplit'
    <3>1. \A x \in Els(left) : x.t = run.at
      BY <1>4, <1>5
    <3>2. (\E x \in Els(run.landed) : x.t = run.at) \/ (\E x \in Els(left) : Structural(x)')
      BY <1>4, <1>5, <1>7, <2>3
    <3> QED BY <1>5, <2>1, <2>2, <3>1, <3>2 DEF LandSplit
  <2>8. LandSolve' /\ LandEnd'
    BY <1>2, <2>1 DEF LandSolve, LandEnd, StitchInv
  <2> QED BY <2>4, <2>5, <2>6, <2>7, <2>8 DEF LandInv
<1> QED BY <1>3, <1>6, <1>7, LandDropped

\* What a split was for has landed when the run goes on.
LEMMA LandRestart ==
  ASSUME TInv, StitchInv, PlanInv, LandInv, Restart
  PROVE  LandInv'
<1>1. run \in Runs
  BY DEF TInv
<1>2. PICK left \in Entries : left = Among(run.scheduled, {e \in Waiting : e.t > run.split})
  BY <1>1, AmongIs DEF Runs, Entries
<1>3. /\ run' = [run EXCEPT !.pc = "segment", !.seg = run.split, !.scheduled = left]
      /\ run.pc = "split" /\ run.split = run.at /\ run.todo = <<>>
  BY <1>2 DEF Restart, TInv
<1>4. /\ run'.pc = "segment" /\ run'.seg = run.at /\ run'.at = run.at /\ run'.plan = run.plan
      /\ run'.landed = run.landed /\ run'.splits = run.splits /\ run'.result = run.result
  BY <1>1, <1>3 DEF Runs
<1>5. /\ Els(run.plan)' = Els(run.plan) /\ Els(run.landed)' = Els(run.landed)
      /\ Ordered(run.landed, ByTime)' = Ordered(run.landed, ByTime)
  BY <1>4 DEF Els, Ordered, ByTime
<1>6. LandOrder'
  BY <1>5 DEF LandInv, LandOrder
<1>7. \E x \in Els(run.landed) : x.t = run.at
  <2>1. Els(run.todo) = {}
    BY <1>3 DEF Els
  <2> QED BY <1>3, <2>1 DEF LandInv, LandSplit
<1>8. LandDone'
  <2>1. Done' = run.at /\ Done = run.at
    BY <1>3, <1>4 DEF Done
  <2> QED BY <1>3, <1>4, <1>5, <1>7, <2>1 DEF LandInv, LandDone
<1>9. LandSolve' /\ LandNext' /\ LandSplit' /\ LandEnd'
  BY <1>3, <1>4 DEF LandSolve, LandNext, LandSplit, LandEnd, StitchInv
<1> QED BY <1>6, <1>8, <1>9 DEF LandInv

\* Every step keeps what landed right.
LEMMA LandStep ==
  ASSUME TInv, StitchInv, PlanInv, LandInv, [Next]_vars, TInv', PlanInv', StitchInv'
  PROVE  LandInv'
<1>1. run \in Runs /\ run' \in Runs
  BY DEF TInv
<1>2. ASSUME NEW l, GivesUp(l) PROVE LandInv'
  BY <1>2, LandDropped DEF GivesUp
<1>3. CASE Call
  <2>1. CASE UNCHANGED run
    <3>1. run.pc = "idle"
      BY <1>3 DEF Call, Set, DcPoint, ScheduleSet, Sens, Op, Tran, Called
    <3> QED BY <2>1, <3>1, LandIdle
  <2>2. CASE \E stop \in 1..MaxTime, start \in 0..MaxTime : Tran(stop, start)
    <3>1. PICK stop \in 1..MaxTime, start \in 0..MaxTime : Tran(stop, start)
      BY <2>2
    <3>2. run' = [Idle EXCEPT !.pc = "early", !.stop = stop, !.start = start, !.todo = pending]
      BY <3>1 DEF Tran
    <3>3. /\ run'.pc = "early" /\ run'.seg = 0 /\ run'.plan = <<>>
          /\ run'.landed = <<>> /\ run'.splits = {} /\ run'.result = "none"
      BY <3>2, IdleType DEF Runs
    <3>4. Els(run.plan)' = {}
      BY <3>3 DEF Els
    <3> QED BY <1>1, <3>3, <3>4, LandEarly
  <2> QED BY <1>3, <2>1, <2>2 DEF Call, Set, DcPoint, ScheduleSet, Sens, Op
<1>4. CASE Early
  <2>1. run.pc = "early"
    BY <1>4, EarlyIs
  <2>2. PICK e \in Entry, left \in Entries :
          \/ run' = [run EXCEPT !.todo = left]
          \/ \E l : GivesUp(l)
          \/ run' = [run EXCEPT !.todo = left, !.scheduled = Append(@, e), !.plan = Append(@, e)]
    BY <1>4, EarlyIs
  <2>3. CASE \/ run' = [run EXCEPT !.todo = left]
             \/ run' = [run EXCEPT !.todo = left, !.scheduled = Append(@, e), !.plan = Append(@, e)]
    <3>1. run'.pc = "early"
      BY <1>1, <2>1, <2>3 DEF Runs
    <3>2. /\ run'.landed = <<>> /\ run'.seg = 0 /\ run'.splits = {}
          /\ \A e2 \in Els(run.plan)' : e2.t > 0
      BY <3>1 DEF PlanInv
    <3>3. run'.result = "none"
      BY <3>1 DEF StitchInv
    <3> QED BY <1>1, <3>1, <3>2, <3>3, LandEarly
  <2> QED BY <1>2, <2>2, <2>3
<1>5. CASE Advance
  <2>1. run' = [run EXCEPT !.at = @ + 1,
                  !.points = IF run.start <= run.at + 1 THEN Append(@, run.at + 1) ELSE @]
    BY <1>5 DEF Advance
  <2>2. /\ run.pc = "solve" /\ DueNow = {} /\ host' = host /\ live' = live
    BY <1>5 DEF Advance, Running
  <2>3. PICK points : points = IF run.start <= run.at + 1
                               THEN Append(run.points, run.at + 1) ELSE run.points
    OBVIOUS
  <2>4. run' = [run EXCEPT !.at = run.at + 1, !.points = points]
    BY <2>1, <2>3
  <2>5. /\ run'.pc = "solve" /\ run'.seg = run.seg /\ run'.at = run.at + 1 /\ run'.plan = run.plan
        /\ run'.scheduled = run.scheduled /\ run'.todo = run.todo /\ run'.landed = run.landed
        /\ run'.splits = run.splits /\ run'.split = run.split /\ run'.stop = run.stop
        /\ run'.result = run.result /\ run'.refused = run.refused
    BY <1>1, <2>2, <2>4 DEF Runs
  <2>6. /\ Els(run.plan)' = Els(run.plan) /\ Els(run.scheduled)' = Els(run.scheduled)
        /\ Els(run.todo)' = Els(run.todo) /\ Els(run.landed)' = Els(run.landed)
        /\ Ordered(run.landed, ByTime)' = Ordered(run.landed, ByTime)
    BY <2>5 DEF Els, Ordered, ByTime
  <2>7. \A x : (Given(x, run.split)' <=> Given(x, run.split)) /\ (Structural(x)' <=> Structural(x))
    BY <2>2, <2>5 DEF Given, InSegment, SegStopAt, Structural, Flips
  <2>8. /\ run.at \in Nat /\ run.todo \in Seq(Entry) /\ Els(run.todo) \subseteq Entry
        /\ Els(run.landed) \subseteq Entry /\ \A x \in Entry : x.t \in Nat
    <3>1. run.at \in Nat /\ run.todo \in Seq(Entry) /\ run.landed \in Seq(Entry)
      BY <1>1 DEF Runs, Entries
    <3> QED BY <3>1, ElsType DEF Entry
  <2>9. LandOrder'
    BY <2>6 DEF LandInv, LandOrder
  <2>10. LandDone'
    <3>1. Done' = Done
      BY <2>2, <2>5 DEF Done
    <3>2. \A x \in Els(run.landed) : x.t <= run.at + 1
      <4>1. \A x \in Els(run.landed) : x.t <= run.at /\ x.t \in Nat
        BY <2>2, <2>8 DEF LandInv, LandDone
      <4> QED BY <2>8, <4>1
    <3> QED BY <2>2, <2>5, <2>6, <3>1, <3>2 DEF LandInv, LandDone
  <2>11. LandSolve'
    <3>1. ASSUME NEW x \in Els(run.todo) PROVE x.t >= run.at + 1
      <4>1. PICK j \in 1..Len(run.todo) : x = run.todo[j]
        BY DEF Els
      <4>2. x.t # run.at
        BY <2>2, <2>8, <4>1 DEF DueNow
      <4>3. x.t >= run.at /\ x.t \in Nat
        BY <2>2, <2>8 DEF LandInv, LandSolve
      <4> QED BY <2>8, <4>2, <4>3
    <3> QED BY <2>2, <2>5, <2>6, <2>7, <3>1 DEF LandInv, LandSolve
  <2>12. LandNext'
    BY <2>2, <2>5, <2>6 DEF LandInv, LandNext
  <2>13. LandSplit' /\ LandEnd'
    BY <2>2, <2>5 DEF LandSplit, LandEnd, StitchInv
  <2> QED BY <2>9, <2>10, <2>11, <2>12, <2>13 DEF LandInv
<1>6. CASE SolveFails
  BY <1>2, <1>6 DEF SolveFails
<1>7. CASE UNCHANGED vars
  <2>1. run' = run /\ host' = host /\ live' = live
    BY <1>7 DEF vars
  <2>2. \A x, s : (Given(x, s)' <=> Given(x, s)) /\ (Structural(x)' <=> Structural(x))
    BY <2>1 DEF Given, InSegment, SegStopAt, Structural, Flips
  <2>3. Done' = Done
    BY <2>1 DEF Done
  <2>4. /\ Els(run.plan)' = Els(run.plan) /\ Els(run.scheduled)' = Els(run.scheduled)
        /\ Els(run.todo)' = Els(run.todo) /\ Els(run.landed)' = Els(run.landed)
        /\ Ordered(run.landed, ByTime)' = Ordered(run.landed, ByTime)
    BY <2>1 DEF Els, Ordered, ByTime
  <2>5. \A x : Given(x, run.split)' <=> Given(x, run.split)
    BY <2>1 DEF Given, InSegment, SegStopAt
  <2> QED BY <2>1, <2>2, <2>3, <2>4, <2>5
          DEF LandInv, LandOrder, LandDone, LandSolve, LandNext, LandSplit, LandEnd
<1> QED BY <1>3, <1>4, <1>5, <1>6, <1>7, LandSegment, LandLand, LandSegmentEnd, LandSplitStep,
           LandRestart DEF Next

\* All that is known of the lists of a run.
ListInv == TInv /\ StitchInv /\ StitchEnd /\ PlanInv /\ LandInv

\* It holds of every state.
LEMMA ListsRight == Spec => []ListInv
<1>1. Init => ListInv
  <2> SUFFICES ASSUME Init PROVE ListInv
    OBVIOUS
  <2>1. /\ run.pc = "idle" /\ run.result = "none" /\ run.plan = <<>> /\ run.landed = <<>>
    BY IdleType DEF Init
  <2>2. StitchInv /\ StitchEnd
    BY <2>1 DEF StitchInv, StitchEnd
  <2>3. Els(<<>>) = {} /\ Ordered(<<>>, ByN) /\ Ordered(<<>>, ByTime) /\ Len(<<>>) = 0
    BY DEF Els, Ordered
  <2>4. PlanInv
    <3>1. pending = <<>>
      BY DEF Init
    <3> QED BY <2>1, <2>3, <3>1 DEF PlanInv
  <2>5. LandInv
    BY <2>1, <2>3 DEF LandInv, LandOrder, LandDone, LandSolve, LandNext, LandSplit, LandEnd
  <2> QED BY <2>2, <2>4, <2>5, InitTypes DEF ListInv
<1>2. ListInv /\ [Next]_vars => ListInv'
  <2> SUFFICES ASSUME ListInv, [Next]_vars PROVE ListInv'
    OBVIOUS
  <2>1. TInv' /\ StitchInv' /\ StitchEnd'
    BY TypesKept, StitchStep DEF ListInv
  <2>2. PlanInv'
    BY PlanStep DEF ListInv
  <2>3. LandInv'
    BY <2>1, <2>2, LandStep DEF ListInv
  <2> QED BY <2>1, <2>2, <2>3 DEF ListInv
<1> QED BY <1>1, <1>2, PTL DEF Spec

\* What landed in the order of time landed once.
LEMMA OnceEach ==
  ASSUME NEW s \in Entries, Ordered(s, ByTime), NEW e \in Els(s)
  PROVE  \E k \in DOMAIN s : \A j \in DOMAIN s : s[j] = e <=> j = k
<1>1. PICK k \in 1..Len(s) : s[k] = e
  BY DEF Els
<1>2. DOMAIN s = 1..Len(s) /\ e \in Entry /\ e.t \in Nat /\ e.n \in Nat
  <2>1. DOMAIN s = 1..Len(s) /\ e \in Entry
    BY <1>1 DEF Entries
  <2> QED BY <2>1 DEF Entry
<1>3. ASSUME NEW j \in 1..Len(s), s[j] = e, j # k
      PROVE  FALSE
  <2>1. j < k \/ k < j
    BY <1>3
  <2>2. <<e, e>> \in ByTime
    BY <1>1, <1>3, <2>1 DEF Ordered
  <2>3. e.t < e.t \/ e.n < e.n
    BY <1>2, <2>2, OrdersAre
  <2> QED BY <1>2, <2>3
<1> QED BY <1>1, <1>2, <1>3

\* A transient that succeeds has landed every write that was scheduled up to its
\* stop, each once and in the order of time, however often it was split and the
\* circuit rebuilt; an instant that split it has landed at least one.
THEOREM EachLandsOnce == Spec => []LandedOnce
<1>1. ListInv => LandedOnce
  <2> SUFFICES ASSUME ListInv, run.result = "ok" PROVE LandedOnce
    BY DEF LandedOnce
  <2>1. run.plan \in Entries /\ run.landed \in Entries
    BY DEF ListInv, TInv, Runs
  <2>2. DOMAIN run.plan = 1..Len(run.plan) /\ DOMAIN run.landed = 1..Len(run.landed)
        /\ \A j \in DOMAIN run.landed : run.landed[j] \in Entry
    BY <2>1 DEF Entries
  <2>3. Ordered(run.landed, ByTime) /\ LandEnd
    BY DEF ListInv, LandInv, LandOrder
  <2>4. ASSUME NEW i \in DOMAIN run.plan, run.plan[i].t <= run.stop,
               run.plan[i].t \notin run.splits
        PROVE  \E k \in DOMAIN run.landed : \A j \in DOMAIN run.landed :
                 run.landed[j] = run.plan[i] <=> j = k
    <3>1. run.plan[i] \in Els(run.plan)
      BY <2>2 DEF Els
    <3>2. run.plan[i] \in Els(run.landed)
      BY <2>3, <2>4, <3>1 DEF LandEnd
    <3> QED BY <2>1, <2>3, <3>2, OnceEach
  <2>5. ASSUME NEW j \in DOMAIN run.landed, NEW k \in DOMAIN run.landed, j < k
        PROVE  \/ run.landed[j].t < run.landed[k].t
               \/ run.landed[j].t = run.landed[k].t /\ run.landed[j].n < run.landed[k].n
    <3>1. <<run.landed[j], run.landed[k]>> \in ByTime
      BY <2>2, <2>3, <2>5 DEF Ordered
    <3> QED BY <2>2, <3>1, OrdersAre
  <2>6. \A t \in run.splits : \E j \in DOMAIN run.landed : run.landed[j].t = t
    BY <2>2, <2>3 DEF LandEnd, Els
  <2> QED BY <2>4, <2>5, <2>6 DEF LandedOnce
<1> QED BY <1>1, ListsRight, PTL

-----------------------------------------------------------------------------
(* What a restart starts from.                                               *)

\* What is carried is of nets that there are; a Rust session carries nothing.
CarryRight(l) ==
  (host = "rust" => l.carry.nets = {}) /\ l.carry.nets \subseteq Nets(l.circuit)

\* A write that is applied keeps it so,
LEMMA CarryStamped ==
  ASSUME NEW l \in Lives, NEW p \in Params, NEW v \in Nat, v # Absent, ~Flips(l, p),
         CarryRight(l)
  PROVE  CarryRight(Stamped(l, p, v)) /\ CarryRight(Noted(Stamped(l, p, v), p, v))
<1>1. PICK m \in Lives : m = Stamped(l, p, v)
  BY StampedType
<1>2. m.carry = l.carry /\ Nets(m.circuit) = Nets(l.circuit)
  BY <1>1, StampedIs, FlipsKept
<1>3. Noted(m, p, v).carry = m.carry /\ Noted(m, p, v).circuit = m.circuit
  BY NotedIs
<1> QED BY <1>1, <1>2, <1>3 DEF CarryRight

\* and so does any outcome of a write.
LEMMA CarryOutcomes ==
  ASSUME NEW l \in Lives, last \in Volts, NEW p \in Params, NEW v \in Nat, v # Absent,
         CarryRight(l), host \in {"rust", "python"}, NEW sweep,
         NEW o \in SetOutcomes(l, p, v, sweep)
  PROVE  CarryRight(o.live)
<1>1. CASE o.live = Rebuilt(l, p, v)
  <2>1. PICK d : d = Redone(l, p, v)
    OBVIOUS
  <2>2. o.live.circuit = d /\ o.live.carry = IF host = "python" THEN Carried(last, d) ELSE l.carry
    <3>1. /\ Rebuilt(l, p, v).circuit = Redone(l, p, v)
          /\ Rebuilt(l, p, v).carry = IF host = "python" THEN Carried(last, Redone(l, p, v))
                                      ELSE l.carry
      BY RebuiltIs
    <3> QED BY <1>1, <2>1, <3>1
  <2>3. Carried(last, d).nets = last.nets \cap Nets(d)
    BY DEF Carried, Volts
  <2> QED BY <2>2, <2>3 DEF CarryRight
<1>2. CASE o.live = NotRebuilt(l, p, v)
  <2>1. o.live.circuit = l.circuit /\ o.live.carry = l.carry
    BY <1>2, NotRebuiltIs
  <2> QED BY <2>1 DEF CarryRight
<1>3. CASE o.live = l
  BY <1>3
<1>4. CASE o.live = Noted(Stamped(l, p, v), p, v) /\ ~Flips(l, p)
  BY <1>4, CarryStamped
<1> QED BY <1>1, <1>2, <1>3, <1>4, Outcomes

\* The voltages a segment begins with, and those that wait at a split.
WarmInv ==
  /\ CarryRight(live)
  /\ run.pc = "solve" /\ run.seg > 0 /\ run.start <= run.seg => run.seeded = run.seg
  /\ run.pc = "segment" /\ run.start <= run.seg => live.carry.of = run.seg
  /\ run.pc = "split" /\ run.start <= run.at =>
       last.of = run.at /\ (live.carry.of = run.at \/ \E e \in Els(run.todo) : Structural(e))

\* A step that leaves no transient to restart only has to carry what there is.
LEMMA WarmElse ==
  ASSUME host' = host, CarryRight(live'), run'.pc \notin {"solve", "segment", "split"}
  PROVE  WarmInv'
BY DEF WarmInv, CarryRight

\* A run that gives up keeps what is carried.
LEMMA WarmGivesUp ==
  ASSUME NEW l \in Lives, run \in Runs, host' = host, CarryRight(l), GivesUp(l)
  PROVE  WarmInv'
<1>1. PICK ps \in SUBSET Params :
        live' = [l EXCEPT !.unsure = @ \cup ps] /\ run'.pc = "idle"
  BY GivesUpIs
<1>2. live'.carry = l.carry /\ live'.circuit = l.circuit
  BY <1>1 DEF Lives
<1> QED BY <1>1, <1>2, WarmElse DEF CarryRight

\* A call keeps what is carried.
LEMMA WarmCall ==
  ASSUME TInv, WarmInv, Call
  PROVE  WarmInv'
<1>1. live \in Lives /\ last \in Volts /\ CarryRight(live) /\ host \in {"rust", "python"}
  BY DEF TInv, WarmInv
<1>2. ASSUME NEW w \in Writes
      PROVE  w[1] \in Params /\ w[2] \in Nat /\ w[2] # Absent
  BY SessionAssumption
<1>3. run.pc = "idle" /\ host' = host
  BY DEF Call, Called, Set, DcPoint, ScheduleSet, Sens, Op, Tran
<1>4. ASSUME UNCHANGED run, CarryRight(live') PROVE WarmInv'
  BY <1>3, <1>4, WarmElse
<1>5. ASSUME NEW w \in Writes, Set(w[1], w[2])
      PROVE  WarmInv'
  <2>0. PICK sweep \in BOOLEAN : \E o \in SetOutcomes(live, w[1], w[2], sweep) : live' = o.live
    BY <1>5 DEF Set
  <2>1. PICK o \in SetOutcomes(live, w[1], w[2], sweep) : live' = o.live
    BY <2>0
  <2>2. CarryRight(o.live)
    BY <1>1, <1>2, CarryOutcomes
  <2> QED BY <1>4, <1>5, <2>1, <2>2 DEF Set
<1>6. ASSUME NEW w \in Writes, DcPoint(w[1], w[2])
      PROVE  WarmInv'
  <2>1. PICK n \in Lives : n = Noted(live, w[1], w[2])
    BY <1>1, <1>2, NotedType
  <2>2. CASE Flips(live, w[1])
    <3>1. live' = [n EXCEPT !.unsure = @ \cup {w[1]}]
      BY <1>6, <2>1, <2>2 DEF DcPoint
    <3>2. live'.carry = live.carry /\ live'.circuit = live.circuit
      <4>1. n.carry = live.carry /\ n.circuit = live.circuit
        <5>1. PICK p \in Params, v \in Nat : p = w[1] /\ v = w[2]
          BY <1>2
        <5>2. n = Noted(live, p, v)
          BY <2>1, <5>1
        <5>3. Noted(live, p, v).carry = live.carry /\ Noted(live, p, v).circuit = live.circuit
          BY <1>1, NotedIs, Zenon
        <5> QED BY <5>2, <5>3
      <4> QED BY <3>1, <4>1 DEF Lives
    <3> QED BY <1>1, <1>4, <1>6, <3>2 DEF CarryRight, DcPoint
  <2>3. CASE ~Flips(live, w[1])
    <3>1. live' = Noted(Stamped(live, w[1], w[2]), w[1], w[2])
      BY <1>6, <2>3 DEF DcPoint
    <3>2. CarryRight(live')
      BY <1>1, <1>2, <2>3, <3>1, CarryStamped
    <3> QED BY <1>4, <1>6, <3>2 DEF DcPoint
  <2> QED BY <2>2, <2>3
<1>7. ASSUME NEW p \in Params, Sens(p)
      PROVE  WarmInv'
  <2>1. CASE live' = live
    BY <1>1, <1>4, <1>7, <2>1 DEF Sens
  <2>2. CASE live' = [live EXCEPT !.circuit[p] = Nudged, !.unsure = @ \cup {p}]
    <3>1. PICK c : c = [live.circuit EXCEPT ![p] = Nudged]
      OBVIOUS
    <3>2. live' = [live EXCEPT !.circuit = c, !.unsure = @ \cup {p}]
      BY <2>2, <3>1
    <3>3. live'.circuit = c /\ live'.carry = live.carry
      BY <1>1, <3>2 DEF Lives
    <3>4. Nets(c) = Nets(live.circuit)
      <4>1. Nudged \in Nat /\ Nudged # Absent /\ ~Flips(live, p)
        BY <1>7 DEF Nudged, Absent, Sens
      <4>2. c = Stamped(live, p, Nudged).circuit
        BY <1>1, <3>1, <4>1, StampedIs
      <4> QED BY <1>1, <4>1, <4>2, FlipsKept
    <3> QED BY <1>1, <1>4, <1>7, <3>3, <3>4 DEF CarryRight, Sens
  <2> QED BY <1>7, <2>1, <2>2 DEF Sens
<1>8. ASSUME Op
      PROVE  WarmInv'
  <2>1. live' = [live EXCEPT !.carry = Cold] /\ run' = run
    BY <1>8 DEF Op
  <2>2. live'.carry.nets = {}
    BY <1>1, <2>1 DEF Lives, Cold
  <2> QED BY <1>4, <2>1, <2>2 DEF CarryRight
<1>9. ASSUME NEW stop \in 1..MaxTime, NEW start \in 0..MaxTime, Tran(stop, start)
      PROVE  WarmInv'
  <2>1. /\ run' = [Idle EXCEPT !.pc = "early", !.stop = stop, !.start = start, !.todo = pending]
        /\ live' = [live EXCEPT !.carry = Earlier(@)]
    BY <1>9 DEF Tran
  <2>2. run'.pc = "early"
    BY <2>1, IdleType DEF Runs
  <2>3. live'.circuit = live.circuit /\ live'.carry.nets = live.carry.nets
    <3>1. live'.circuit = live.circuit /\ live'.carry = Earlier(live.carry)
      BY <1>1, <2>1 DEF Lives
    <3>2. live.carry \in Volts
      BY <1>1 DEF Lives
    <3>3. Earlier(live.carry).nets = live.carry.nets
      BY <3>2 DEF Earlier, Volts
    <3> QED BY <3>1, <3>3
  <2> QED BY <1>1, <1>3, <2>2, <2>3, WarmElse DEF CarryRight
<1>10. ASSUME NEW w \in Writes, NEW t \in 0..MaxTime, ScheduleSet(t, w[1], w[2])
       PROVE  WarmInv'
  BY <1>1, <1>4, <1>10 DEF ScheduleSet
<1> QED BY <1>5, <1>6, <1>7, <1>8, <1>9, <1>10 DEF Call

\* Before the run the writes that are made keep what is carried.
LEMMA WarmEarly ==
  ASSUME TInv, PlanInv, WarmInv, Early
  PROVE  WarmInv'
<1>1. live \in Lives /\ last \in Volts /\ run \in Runs /\ CarryRight(live)
      /\ host \in {"rust", "python"}
  BY DEF TInv, WarmInv
<1>2. run.pc = "early" /\ run.todo # <<>> /\ host' = host
  BY EarlyIs
<1>3. PICK e \in Entry, left \in Entries :
        /\ e = Head(run.todo) /\ left = Tail(run.todo)
        /\ \/ \E o \in SetOutcomes(live, e.p, e.v, FALSE) :
                live' = o.live /\ run' = [run EXCEPT !.todo = left]
           \/ \E o \in SetOutcomes(live, e.p, e.v, FALSE) : GivesUp(o.live)
           \/ /\ UNCHANGED live
              /\ run' = [run EXCEPT !.todo = left, !.scheduled = Append(@, e),
                                    !.plan = Append(@, e)]
  BY EarlyIs
<1>4. e.p \in Params /\ e.v \in Nat /\ e.v # Absent
  <2>1. run.todo \in Seq(Entry)
    BY <1>1 DEF Runs, Entries
  <2>2. e \in Els(run.todo)
    BY <1>2, <1>3, <2>1, ElsTail
  <2>3. e.v # Absent
    BY <1>2, <2>2 DEF PlanInv
  <2> QED BY <2>3 DEF Entry
<1>5. ASSUME NEW o \in SetOutcomes(live, e.p, e.v, FALSE) PROVE CarryRight(o.live)
  BY <1>1, <1>4, CarryOutcomes
<1>6. ASSUME NEW o \in SetOutcomes(live, e.p, e.v, FALSE), GivesUp(o.live) PROVE WarmInv'
  <2>1. o.live \in Lives
    BY <1>1, <1>4, OutcomesType
  <2> QED BY <1>1, <1>2, <1>5, <1>6, <2>1, WarmGivesUp
<1>7. CASE \/ run' = [run EXCEPT !.todo = left]
           \/ run' = [run EXCEPT !.todo = left, !.scheduled = Append(@, e), !.plan = Append(@, e)]
  <2>1. run'.pc = "early"
    BY <1>1, <1>2, <1>7 DEF Runs
  <2>2. ASSUME CarryRight(live') PROVE WarmInv'
    BY <1>2, <2>1, <2>2, WarmElse
  <2>3. ASSUME NEW o \in SetOutcomes(live, e.p, e.v, FALSE), live' = o.live PROVE WarmInv'
    BY <1>5, <2>2, <2>3
  <2>4. ASSUME live' = live PROVE WarmInv'
    BY <1>1, <2>2, <2>4
  <2> QED BY <1>3, <1>6, <2>3, <2>4
<1> QED BY <1>3, <1>6, <1>7

\* At the end of a segment the voltages are those of its end, and the write that
\* split the run is still to be made.
LEMMA WarmSegmentEnd ==
  ASSUME TInv, StitchInv, PlanInv, LandInv, WarmInv, SegmentEnd
  PROVE  WarmInv'
<1>1. live \in Lives /\ last \in Volts /\ run \in Runs /\ run.at <= run.stop
      /\ run.seg <= run.at /\ CarryRight(live)
  BY DEF TInv, WarmInv
<1>2. run.pc = "solve" /\ run.at = SegStopAt(run.split) /\ host' = host
  BY DEF SegmentEnd, Running
<1>3. /\ live'.circuit = live.circuit
      /\ live'.carry = IF host = "python" /\ run.points # <<>> THEN Cold ELSE live.carry
      /\ last' = IF host = "python" /\ run.points # <<>> THEN Voltages(live.circuit, run.at)
                 ELSE last
  <2>1. PICK sets \in Entries :
          /\ live'.circuit = live.circuit
          /\ live'.carry = IF host = "python" /\ run.points # <<>> THEN Cold ELSE live.carry
          /\ last' = IF host = "python" /\ run.points # <<>> THEN Voltages(live.circuit, run.at)
                     ELSE last
    BY <1>1, SegmentEndIs
  <2> QED BY <2>1
<1>4. CarryRight(live')
  <2>1. Cold.nets = {}
    BY DEF Cold
  <2>2. host = "rust" => live'.carry.nets = {}
    BY <1>1, <1>3 DEF CarryRight
  <2>3. live'.carry.nets \subseteq Nets(live'.circuit)
    BY <1>1, <1>3, <2>1 DEF CarryRight
  <2> QED BY <1>2, <2>2, <2>3 DEF CarryRight
<1>5. PICK steps \in Seq(Nat) : steps = Stitched(run.steps, run.points)
  BY <1>1, StitchedType DEF Runs
<1>6. PICK todo \in Entries : todo = Among(run.scheduled, {e \in Waiting : e.t = run.split})
  BY <1>1, AmongIs DEF Runs, Entries
<1>7. run' = IF run.split = Never
             THEN [Idle EXCEPT !.result = "ok", !.stop = run.stop, !.start = run.start,
                               !.steps = steps, !.plan = run.plan, !.landed = run.landed,
                               !.splits = run.splits]
             ELSE [run EXCEPT !.pc = "split", !.steps = steps, !.splits = @ \cup {run.split},
                              !.todo = todo]
  BY <1>5, <1>6 DEF SegmentEnd
<1>8. CASE run.split = Never
  <2>1. run'.pc = "idle"
    BY <1>7, <1>8, IdleType DEF Runs
  <2> QED BY <1>2, <1>4, <2>1, WarmElse
<1>9. CASE run.split # Never
  <2>1. run'.pc = "split" /\ run'.start = run.start /\ run'.at = run.at /\ run'.todo = todo
    BY <1>1, <1>7, <1>9 DEF Runs
  <2>2. PICK e \in Els(run.scheduled) : e.t = run.split /\ Structural(e)
    BY <1>2, <1>9 DEF LandInv, LandSolve
  <2>3. host = "python" /\ Structural(e)'
    BY <1>2, <1>3, <2>2 DEF Structural, Flips
  <2>4. e \in Els(run.todo)'
    <3>1. Els(run.todo)' = Els(todo)
      BY <2>1 DEF Els
    <3>2. Els(todo) = Els(run.scheduled) \cap {x \in Waiting : x.t = run.split}
      BY <1>1, <1>6, ElsAmong DEF Runs, Entries
    <3>3. e \in Waiting
      BY <1>1, WaitingIs
    <3> QED BY <2>2, <3>1, <3>2, <3>3
  <2>5. ASSUME run.start <= run.at PROVE last'.of = run.at
    <3>1. PICK m \in Nat : m = IF run.start > run.seg THEN run.start ELSE run.seg
      BY <1>1 DEF Runs
    <3>2. m <= run.at /\ run.at \in Nat
      BY <1>1, <2>5, <3>1 DEF Runs
    <3>3. run.points = Trace(m, run.at)
      BY <1>2, <3>1 DEF StitchInv
    <3>4. Len(run.points) = run.at - m + 1
      BY <3>2, <3>3, TraceLong
    <3>5. run.points # <<>>
      BY <3>1, <3>2, <3>4
    <3> QED BY <1>3, <2>3, <3>5 DEF Voltages
  <2>6. CarryRight(live)'
    BY <1>2, <1>4 DEF CarryRight, Nets
  <2>7. run'.start <= run'.at => last'.of = run'.at /\ \E x \in Els(run.todo)' : Structural(x)'
    BY <2>1, <2>3, <2>4, <2>5
  <2> QED BY <2>1, <2>6, <2>7 DEF WarmInv
<1> QED BY <1>8, <1>9

\* A write of the split carries the voltages of the split, or asks for no rebuild
\* any more.
LEMMA WarmSplit ==
  ASSUME TInv, PlanInv, WarmInv, Split
  PROVE  WarmInv'
<1>1. live \in Lives /\ last \in Volts /\ run \in Runs /\ CarryRight(live)
      /\ host \in {"rust", "python"}
  BY DEF TInv, WarmInv
<1>2. run.pc = "split" /\ run.todo # <<>> /\ host' = host /\ last' = last
  BY SplitIs
<1>3. PICK e \in Entry, left \in Entries :
        /\ e = Head(run.todo) /\ left = Tail(run.todo)
        /\ \/ \E o \in SetOutcomes(live, e.p, e.v, FALSE) :
                /\ Structural(e) /\ o.ok = TRUE /\ live' = o.live
                /\ run' = [run EXCEPT !.todo = left, !.landed = Append(@, e)]
           \/ \E o \in SetOutcomes(live, e.p, e.v, FALSE) :
                live' = o.live /\ run' = [Idle EXCEPT !.result = "failed"]
           \/ ~Structural(e) /\ UNCHANGED live /\ run' = [run EXCEPT !.todo = left]
  BY SplitIs
<1>4. Els(run.todo) = {e} \cup Els(left) /\ e.p \in Params /\ e.v \in Nat /\ e.v # Absent
  <2>1. run.todo \in Seq(Entry)
    BY <1>1 DEF Runs, Entries
  <2>2. Els(run.todo) = {e} \cup Els(left)
    BY <1>2, <1>3, <2>1, ElsTail
  <2>3. e.v # Absent
    BY <1>2, <2>2 DEF PlanInv
  <2> QED BY <2>2, <2>3 DEF Entry
<1>5. ASSUME NEW o \in SetOutcomes(live, e.p, e.v, FALSE) PROVE CarryRight(o.live)
  BY <1>1, <1>4, CarryOutcomes
<1>6. ASSUME NEW o \in SetOutcomes(live, e.p, e.v, FALSE), Structural(e), o.ok = TRUE,
             live' = o.live, run' = [run EXCEPT !.todo = left, !.landed = Append(@, e)]
      PROVE  WarmInv'
  <2>1. run'.pc = "split" /\ run'.start = run.start /\ run'.at = run.at
    BY <1>1, <1>2, <1>6 DEF Runs
  <2>2. host = "python" /\ Flips(live, e.p)
    BY <1>6 DEF Structural
  <2>3. o.live = Rebuilt(live, e.p, e.v)
    BY <1>6, <2>2, Outcomes
  <2>4. live'.carry.of = last.of
    <3>1. Rebuilt(live, e.p, e.v).carry =
            IF host = "python" THEN Carried(last, Redone(live, e.p, e.v)) ELSE live.carry
      BY <1>1, <1>4, RebuiltIs
    <3>2. PICK d : d = Redone(live, e.p, e.v)
      OBVIOUS
    <3>3. live'.carry = Carried(last, d)
      BY <1>6, <2>2, <2>3, <3>1, <3>2
    <3>4. Carried(last, d).of = last.of
      BY <1>1 DEF Carried, Volts
    <3> QED BY <3>3, <3>4
  <2>5. run.start <= run.at => last.of = run.at
    BY <1>2 DEF WarmInv
  <2>6. CarryRight(live')
    BY <1>5, <1>6
  <2> QED BY <1>2, <2>1, <2>4, <2>5, <2>6 DEF WarmInv, CarryRight
<1>7. ASSUME NEW o \in SetOutcomes(live, e.p, e.v, FALSE), live' = o.live,
             run' = [Idle EXCEPT !.result = "failed"]
      PROVE  WarmInv'
  <2>1. run'.pc = "idle"
    BY <1>7, IdleType DEF Runs
  <2> QED BY <1>2, <1>5, <1>7, <2>1, WarmElse
<1>8. ASSUME ~Structural(e), UNCHANGED live, run' = [run EXCEPT !.todo = left]
      PROVE  WarmInv'
  <2>1. run'.pc = "split" /\ run'.start = run.start /\ run'.at = run.at /\ run'.todo = left
    BY <1>1, <1>2, <1>8 DEF Runs
  <2>2. Els(run.todo)' = Els(left)
    BY <2>1 DEF Els
  <2>3. \A x : Structural(x)' <=> Structural(x)
    BY <1>2, <1>8 DEF Structural, Flips
  <2>4. run.start <= run.at =>
          last.of = run.at /\ (live.carry.of = run.at \/ \E x \in Els(left) : Structural(x))
    BY <1>2, <1>4, <1>8 DEF WarmInv
  <2>5. CarryRight(live)'
    BY <1>1, <1>2, <1>8 DEF CarryRight, Nets
  <2>6. /\ run'.pc = "split" /\ run'.start <= run'.at =>
             last'.of = run'.at /\ (live'.carry.of = run'.at \/ \E x \in Els(run.todo)' : Structural(x)')
    BY <1>2, <1>8, <2>1, <2>2, <2>3, <2>4
  <2> QED BY <2>1, <2>5, <2>6 DEF WarmInv
<1> QED BY <1>3, <1>6, <1>7, <1>8

\* Every step leaves a restart its start.
LEMMA WarmStep ==
  ASSUME ListInv, WarmInv, [Next]_vars
  PROVE  WarmInv'
<1>1. /\ live \in Lives /\ last \in Volts /\ run \in Runs /\ CarryRight(live)
      /\ TInv /\ StitchInv /\ PlanInv /\ LandInv
  BY DEF ListInv, TInv, WarmInv
<1>2. ASSUME host' = host, CarryRight(live'), run'.pc = "solve", run.pc = "solve",
             run'.seg = run.seg, run'.start = run.start, run'.seeded = run.seeded
      PROVE  WarmInv'
  BY <1>2 DEF WarmInv, CarryRight
<1>3. CASE Segment
  <2>1. run.pc \in {"early", "segment"} /\ host' = host /\ live' = live
    BY <1>1, <1>3, SegmentIs
  <2>2. PICK split \in {Never} \cup Splitters :
          run' = [run EXCEPT !.pc = "solve", !.at = run.seg, !.split = split,
                    !.todo = SegSets(split),
                    !.points = IF run.start <= run.seg THEN <<run.seg>> ELSE <<>>,
                    !.seeded = live.carry.of]
    BY <1>1, <1>3, SegmentIs
  <2>3. run'.pc = "solve" /\ run'.seg = run.seg /\ run'.start = run.start
        /\ run'.seeded = live.carry.of
    BY <1>1, <2>2 DEF Runs
  <2>4. run.seg > 0 /\ run.start <= run.seg => live.carry.of = run.seg
    <3>1. run.pc = "early" => run.seg = 0
      BY <1>1 DEF PlanInv
    <3> QED BY <2>1, <3>1 DEF WarmInv
  <2> QED BY <1>1, <2>1, <2>3, <2>4 DEF WarmInv, CarryRight
<1>4. CASE Land
  <2>1. run.pc = "solve" /\ host' = host
    BY <1>1, <1>4, LandIs
  <2>2. PICK i \in DueNow, e \in Entry :
          /\ e = run.todo[i]
          /\ \/ GivesUp(live)
             \/ /\ run' = [run EXCEPT !.todo = Among(run.todo, Waiting \ {e}), !.refused = TRUE]
                /\ UNCHANGED live
             \/ /\ ~Flips(live, e.p)
                /\ live' = Stamped(live, e.p, e.v)
                /\ run' = [run EXCEPT !.todo = Among(run.todo, Waiting \ {e}),
                                      !.landed = Append(@, e)]
    BY <1>1, <1>4, LandIs
  <2>3. CASE GivesUp(live)
    BY <1>1, <2>1, <2>3, WarmGivesUp
  <2>4. CASE \/ run' = [run EXCEPT !.todo = Among(run.todo, Waiting \ {e}), !.refused = TRUE]
             \/ run' = [run EXCEPT !.todo = Among(run.todo, Waiting \ {e}), !.landed = Append(@, e)]
    <3>1. run'.pc = "solve" /\ run'.seg = run.seg /\ run'.start = run.start
          /\ run'.seeded = run.seeded
      BY <1>1, <2>1, <2>4 DEF Runs
    <3>2. e.p \in Params /\ e.v \in Nat /\ e.v # Absent
      <4>1. run.todo \in Seq(Entry)
        BY <1>1 DEF Runs, Entries
      <4>2. i \in 1..Len(run.todo)
        BY <4>1 DEF DueNow
      <4>3. e \in Els(run.todo)
        BY <2>2, <4>2 DEF Els
      <4>4. e.v # Absent
        BY <1>1, <2>1, <4>3 DEF PlanInv
      <4> QED BY <4>4 DEF Entry
    <3>3. ASSUME ~Flips(live, e.p), live' = Stamped(live, e.p, e.v) PROVE CarryRight(live')
      BY <1>1, <3>2, <3>3, CarryStamped
    <3>4. ASSUME live' = live PROVE CarryRight(live')
      BY <1>1, <3>4
    <3>5. CarryRight(live') \/ GivesUp(live)
      BY <2>2, <3>3, <3>4
    <3> QED BY <1>2, <2>1, <2>3, <3>1, <3>5
  <2> QED BY <2>2, <2>3, <2>4
<1>5. CASE Advance
  <2>1. PICK points : points = IF run.start <= run.at + 1 THEN Append(run.points, run.at + 1)
                               ELSE run.points
    OBVIOUS
  <2>2. /\ run' = [run EXCEPT !.at = run.at + 1, !.points = points] /\ run.pc = "solve"
        /\ host' = host /\ live' = live
    BY <1>5, <2>1 DEF Advance, Running
  <2>3. run'.pc = "solve" /\ run'.seg = run.seg /\ run'.start = run.start
        /\ run'.seeded = run.seeded
    BY <1>1, <2>2 DEF Runs
  <2> QED BY <1>1, <1>2, <2>2, <2>3
<1>6. CASE SolveFails
  BY <1>1, <1>6, WarmGivesUp DEF SolveFails, Running
<1>7. CASE Restart
  <2>1. PICK left : left = Among(run.scheduled, {e \in Waiting : e.t > run.split})
    OBVIOUS
  <2>2. /\ run' = [run EXCEPT !.pc = "segment", !.seg = run.split, !.scheduled = left]
        /\ run.pc = "split" /\ run.split = run.at /\ run.todo = <<>>
        /\ host' = host /\ live' = live
    BY <1>1, <1>7, <2>1 DEF Restart, Running, TInv
  <2>3. run'.pc = "segment" /\ run'.seg = run.at /\ run'.start = run.start
    BY <1>1, <2>2 DEF Runs
  <2>4. run.start <= run.at => live.carry.of = run.at
    <3>1. Els(run.todo) = {}
      BY <2>2 DEF Els
    <3> QED BY <2>2, <3>1 DEF WarmInv
  <2> QED BY <1>1, <2>2, <2>3, <2>4 DEF WarmInv, CarryRight
<1>8. CASE UNCHANGED vars
  <2>1. run' = run /\ host' = host /\ live' = live /\ last' = last
    BY <1>8 DEF vars
  <2>2. Els(run.todo)' = Els(run.todo) /\ (\A x : Structural(x)' <=> Structural(x))
    BY <2>1 DEF Els, Structural, Flips
  <2>3. CarryRight(live)' <=> CarryRight(live)
    BY <2>1 DEF CarryRight, Nets
  <2> QED BY <2>1, <2>2, <2>3 DEF WarmInv
<1>9. CASE Early
  BY <1>1, <1>9, WarmEarly
<1>10. CASE SegmentEnd
  BY <1>1, <1>10, WarmSegmentEnd
<1>11. CASE Split
  BY <1>1, <1>11, WarmSplit
<1>12. CASE Call
  BY <1>1, <1>12, WarmCall
<1> QED BY <1>3, <1>4, <1>5, <1>6, <1>7, <1>8, <1>9, <1>10, <1>11, <1>12 DEF Next

\* A transient that a write splits goes on from where it was, however often it is
\* split: the first solve of each segment is seeded with the voltages of the instant
\* the segment before it ended at, of nets the rebuilt circuit has.
THEOREM RestartsWarm == Spec => []WarmStart
<1>1. Init => WarmInv
  <2> SUFFICES ASSUME Init PROVE WarmInv
    OBVIOUS
  <2>1. run.pc = "idle" /\ live.carry.nets = {}
    BY IdleType DEF Init, Cold
  <2> QED BY <2>1 DEF WarmInv, CarryRight
<1>2. WarmInv /\ ListInv /\ [Next]_vars => WarmInv'
  BY WarmStep
<1>3. WarmInv => WarmStart
  BY DEF WarmInv, WarmStart, CarryRight
<1> QED BY <1>1, <1>2, <1>3, ListsRight, PTL DEF Spec

-----------------------------------------------------------------------------
(* What the session was told.                                                *)

\* The design and the ledger together are what results are read with.
LedgerRight(l) ==
  host = "python" => \A p \in Params : Told(l.dirty, p, l.design[p]) = l.info[p]

\* The circuit runs with what each parameter was last told to be.
MeantRight(l) ==
  host = "python" => \A p \in Params \ l.unsure : l.circuit[p] = l.meant[p]

\* Results are read with what the circuit runs with.
ReadRight(l) == \A p \in Params \ l.unsure : l.circuit[p] = l.info[p]

Held(l) == LedgerRight(l) /\ MeantRight(l) /\ ReadRight(l)

\* A ledger of nothing tells nothing.
LEMMA ToldEmpty ==
  ASSUME NEW p, NEW otherwise
  PROVE  Told(<<>>, p, otherwise) = otherwise
<1>1. <<>> \in Ledger /\ Len(<<>>) = 0
  BY DEF Ledger
<1> QED BY <1>1, ToldNone

\* What the session promises depends on these of its fields, and being less sure
\* promises less.
LEMMA HeldKept ==
  ASSUME NEW l, NEW m, Held(l), m.dirty = l.dirty, m.design = l.design, m.info = l.info,
         m.circuit = l.circuit, m.meant = l.meant, l.unsure \subseteq m.unsure
  PROVE  Held(m)
BY DEF Held, LedgerRight, MeantRight, ReadRight

\* A write that is noted is what its parameter is read with.
LEMMA NotedInfo ==
  ASSUME NEW l \in Lives, NEW p \in Params, p \notin PomOnly, NEW v \in Nat
  PROVE  \A q \in Params : Noted(l, p, v).info[q] = IF q = p THEN v ELSE l.info[q]
<1>1. PICK n : n = Noted(l, p, v)
  OBVIOUS
<1>2. n.info = [l.info EXCEPT ![p] = IF p \in PomOnly THEN @ ELSE v]
  BY <1>1, NotedIs
<1>3. \A q \in Params : n.info[q] = IF q = p THEN v ELSE l.info[q]
  BY <1>2 DEF Lives, Assignment
<1> QED BY <1>1, <1>3

\* A write that is applied: the ledger and the readings take it when it is noted,
LEMMA LedgerNoted ==
  ASSUME NEW l \in Lives, LedgerRight(l), NEW p \in Params, p \notin PomOnly, NEW v \in Nat
  PROVE  LedgerRight(Noted(l, p, v))
<1> SUFFICES ASSUME host = "python", NEW q \in Params
             PROVE  Told(Noted(l, p, v).dirty, q, Noted(l, p, v).design[q]) = Noted(l, p, v).info[q]
  BY DEF LedgerRight
<1>1. PICK d : d = Append(l.dirty, <<p, v>>)
  OBVIOUS
<1>2. /\ Noted(l, p, v).info = [l.info EXCEPT ![p] = IF p \in PomOnly THEN @ ELSE v]
      /\ Noted(l, p, v).dirty = d /\ Noted(l, p, v).design = l.design
  BY <1>1, NotedIs
<1>3. Noted(l, p, v).info = [l.info EXCEPT ![p] = v] /\ l.info \in Assignment /\ l.dirty \in Ledger
  BY <1>2 DEF Lives
<1>4. Noted(l, p, v).info[q] = IF q = p THEN v ELSE l.info[q]
  BY <1>3 DEF Assignment
<1>5. Told(d, q, l.design[q]) = IF q = p THEN v ELSE Told(l.dirty, q, l.design[q])
  BY <1>1, <1>3, ToldAppend
<1>6. Told(l.dirty, q, l.design[q]) = l.info[q]
  BY DEF LedgerRight
<1> QED BY <1>2, <1>4, <1>5, <1>6

\* the circuit when it is stamped.
LEMMA MeantStamped ==
  ASSUME NEW l \in Lives, NEW p \in Params, NEW v \in Nat
  PROVE  /\ LedgerRight(l) => LedgerRight(Stamped(l, p, v))
         /\ MeantRight(l) => MeantRight(Stamped(l, p, v))
         /\ \A q \in Params : Stamped(l, p, v).circuit[q] = IF q = p THEN v ELSE l.circuit[q]
<1>1. PICK m : m = Stamped(l, p, v)
  OBVIOUS
<1>2. /\ m.circuit = [l.circuit EXCEPT ![p] = v] /\ m.meant = [l.meant EXCEPT ![p] = v]
      /\ m.unsure = l.unsure \ {p} /\ m.design = l.design /\ m.info = l.info /\ m.dirty = l.dirty
  BY <1>1, StampedIs
<1>3. l.circuit \in Assignment /\ l.meant \in Assignment
  BY DEF Lives
<1>4. \A q \in Params : /\ m.circuit[q] = IF q = p THEN v ELSE l.circuit[q]
                        /\ m.meant[q] = IF q = p THEN v ELSE l.meant[q]
  BY <1>2, <1>3 DEF Assignment
<1>5. LedgerRight(l) => LedgerRight(m)
  BY <1>2 DEF LedgerRight
<1>6. MeantRight(l) => MeantRight(m)
  BY <1>2, <1>4 DEF MeantRight
<1> QED BY <1>1, <1>4, <1>5, <1>6

\* Noted and stamped it is held.
LEMMA HeldStamped ==
  ASSUME NEW l \in Lives, Held(l), NEW p \in Params, p \notin PomOnly, NEW v \in Nat
  PROVE  Held(Noted(Stamped(l, p, v), p, v))
<1>1. PICK m : m = Stamped(l, p, v)
  OBVIOUS
<1>2. LedgerRight(m) /\ MeantRight(m)
  BY <1>1, MeantStamped DEF Held
<1>3. \A q \in Params : m.circuit[q] = IF q = p THEN v ELSE l.circuit[q]
  BY <1>1, MeantStamped
<1>4. m \in Lives /\ m.unsure = l.unsure \ {p} /\ m.info = l.info
  <2>1. m \in Lives
    BY <1>1, StampedType
  <2>2. m.unsure = l.unsure \ {p} /\ m.info = l.info
    BY <1>1, StampedIs
  <2> QED BY <2>1, <2>2
<1>5. PICK n : n = Noted(m, p, v)
  OBVIOUS
<1>6. n.circuit = m.circuit /\ n.meant = m.meant /\ n.unsure = m.unsure
  <2>1. m \in Lives
    BY <1>4
  <2> QED BY <1>5, <2>1, NotedIs
<1>7. \A q \in Params : n.info[q] = IF q = p THEN v ELSE l.info[q]
  <2>1. \A q \in Params : n.info[q] = IF q = p THEN v ELSE m.info[q]
    BY <1>4, <1>5, NotedInfo
  <2> QED BY <1>4, <2>1
<1>8. LedgerRight(n)
  BY <1>2, <1>4, <1>5, LedgerNoted
<1>9. MeantRight(n)
  BY <1>2, <1>6 DEF MeantRight
<1>10. ReadRight(n)
  BY <1>3, <1>4, <1>6, <1>7 DEF ReadRight, Held
<1> QED BY <1>1, <1>5, <1>8, <1>9, <1>10 DEF Held

\* A rebuild replays the ledger over the design: what was told before it is held.
LEMMA HeldRebuilt ==
  ASSUME NEW l \in Lives, Held(l), NEW p \in Params, NEW v \in Nat
  PROVE  Held(Rebuilt(l, p, v))
<1>1. PICK d : d = Redone(l, p, v)
  OBVIOUS
<1>2. PICK m : m = Rebuilt(l, p, v)
  OBVIOUS
<1>3. /\ m.design = d /\ m.circuit = d /\ m.info = d /\ m.dirty = <<>>
      /\ m.meant = [l.meant EXCEPT ![p] = v] /\ m.unsure = l.unsure \ {p}
  BY <1>1, <1>2, RebuiltIs
<1>4. \A q \in Params : d[q] = IF q = p THEN v ELSE Replayed(l, q)
  BY <1>1 DEF Redone
<1>5. \A q \in Params : m.meant[q] = IF q = p THEN v ELSE l.meant[q]
  BY <1>3 DEF Lives, Assignment
<1>6. LedgerRight(m)
  BY <1>3, ToldEmpty DEF LedgerRight
<1>7. ReadRight(m)
  BY <1>3 DEF ReadRight
<1>8. MeantRight(m)
  <2> SUFFICES ASSUME host = "python", NEW q \in Params \ m.unsure
               PROVE  m.circuit[q] = m.meant[q]
    BY DEF MeantRight
  <2>1. CASE q = p
    BY <1>3, <1>4, <1>5, <2>1
  <2>2. CASE q # p
    <3>1. q \in Params \ l.unsure
      BY <1>3, <2>2
    <3>2. Replayed(l, q) = Told(l.dirty, q, l.design[q])
      BY DEF Replayed
    <3>3. Replayed(l, q) = l.meant[q]
      BY <3>1, <3>2 DEF Held, LedgerRight, MeantRight, ReadRight
    <3> QED BY <1>3, <1>4, <1>5, <2>2, <3>3
  <2> QED BY <2>1, <2>2
<1> QED BY <1>2, <1>6, <1>7, <1>8 DEF Held

\* So whatever comes of a write, what was told is held.
LEMMA HeldOutcomes ==
  ASSUME NEW l \in Lives, Held(l), NEW p \in Params, NEW v \in Nat, NEW sweep,
         NEW o \in SetOutcomes(l, p, v, sweep)
  PROVE  Held(o.live)
<1>1. CASE o.live = Rebuilt(l, p, v)
  BY <1>1, HeldRebuilt
<1>2. CASE o.live = NotRebuilt(l, p, v)
  <2>1. PICK m : m = NotRebuilt(l, p, v)
    OBVIOUS
  <2>2. /\ m.design = l.design /\ m.circuit = l.circuit /\ m.info = l.info
        /\ m.dirty = l.dirty /\ m.meant = l.meant /\ m.unsure = l.unsure
    BY <2>1, NotRebuiltIs
  <2>3. Held(m)
    BY <2>2, HeldKept
  <2> QED BY <1>2, <2>1, <2>3
<1>3. CASE o.live = l
  BY <1>3
<1>4. CASE o.live = Noted(Stamped(l, p, v), p, v) /\ p \notin PomOnly
  BY <1>4, HeldStamped
<1> QED BY <1>1, <1>2, <1>3, <1>4, Outcomes

\* Within a segment the circuit runs with what is read, or with the last write that
\* landed since it began.
Landing(p) ==
  \/ /\ \A e \in Els(run.landed) : e.p = p => e.t <= run.seg
     /\ live.circuit[p] = live.info[p]
  \/ \E e \in Els(run.landed) :
       /\ e.p = p /\ e.t > run.seg /\ live.circuit[p] = e.v
       /\ \A f \in Els(run.landed) : f.p = p /\ f # e => <<f, e>> \in ByTime

\* What holds of a session, in a transient too.
SureInv ==
  /\ LedgerRight(live) /\ MeantRight(live)
  /\ run.pc # "solve" => ReadRight(live)
  /\ run.pc = "solve" => \A p \in Params \ live.unsure : Landing(p)

\* Outside of a segment that is what is held.
LEMMA SureHeld ==
  ASSUME host' = host, Held(live'), run'.pc # "solve"
  PROVE  SureInv'
BY DEF SureInv, Held, LedgerRight, MeantRight, ReadRight

\* A run that gives up is unsure of what landed since the segment began.
LEMMA SureGivesUp ==
  ASSUME NEW l \in Lives, run \in Runs, host' = host, GivesUp(l),
         LedgerRight(l), MeantRight(l),
         \A p \in Params \ l.unsure :
           (\A e \in Els(run.landed) : e.p = p => ~(e.t > run.seg)) => l.circuit[p] = l.info[p]
  PROVE  SureInv'
<1>1. PICK ps \in SUBSET Params :
        /\ ps = {run.landed[i].p : i \in {j \in DOMAIN run.landed : run.landed[j].t > run.seg}}
        /\ live' = [l EXCEPT !.unsure = @ \cup ps] /\ run'.pc = "idle"
  BY GivesUpIs
<1>2. /\ live'.dirty = l.dirty /\ live'.design = l.design /\ live'.info = l.info
      /\ live'.circuit = l.circuit /\ live'.meant = l.meant /\ live'.unsure = l.unsure \cup ps
  BY <1>1 DEF Lives
<1>3. ASSUME NEW p \in Params \ live'.unsure
      PROVE  \A e \in Els(run.landed) : e.p = p => ~(e.t > run.seg)
  <2> SUFFICES ASSUME NEW e \in Els(run.landed), e.p = p, e.t > run.seg PROVE FALSE
    OBVIOUS
  <2>1. DOMAIN run.landed = 1..Len(run.landed)
    BY DEF Runs, Entries
  <2>2. PICK i \in 1..Len(run.landed) : e = run.landed[i]
    BY DEF Els
  <2>3. p \in ps
    BY <1>1, <2>1, <2>2
  <2> QED BY <1>2, <2>3
<1>4. ReadRight(live')
  <2> SUFFICES ASSUME NEW p \in Params \ live'.unsure PROVE live'.circuit[p] = live'.info[p]
    BY DEF ReadRight
  <2>1. p \in Params \ l.unsure
    BY <1>2
  <2>2. l.circuit[p] = l.info[p]
    BY <1>3, <2>1
  <2> QED BY <1>2, <2>2
<1>5. LedgerRight(live') /\ MeantRight(live')
  BY <1>2 DEF LedgerRight, MeantRight
<1> QED BY <1>1, <1>4, <1>5, SureHeld DEF Held

\* A call holds what it is told, or is unsure of it.
LEMMA SureCall ==
  ASSUME TInv, SureInv, Call
  PROVE  SureInv'
<1>1. run.pc = "idle" /\ host' = host
  BY DEF Call, Called, Set, DcPoint, ScheduleSet, Sens, Op, Tran
<1>2. live \in Lives /\ Held(live)
  BY <1>1 DEF TInv, SureInv, Held
<1>3. ASSUME NEW w \in Writes
      PROVE  w[1] \in Params /\ w[2] \in Nat
  BY SessionAssumption
<1>4. ASSUME UNCHANGED run, Held(live') PROVE SureInv'
  BY <1>1, <1>4, SureHeld
<1>5. ASSUME NEW w \in Writes, Set(w[1], w[2])
      PROVE  SureInv'
  <2>1. PICK sweep \in BOOLEAN : \E o \in SetOutcomes(live, w[1], w[2], sweep) : live' = o.live
    BY <1>5 DEF Set
  <2>2. PICK o \in SetOutcomes(live, w[1], w[2], sweep) : live' = o.live
    BY <2>1
  <2>3. Held(o.live)
    BY <1>2, <1>3, HeldOutcomes
  <2> QED BY <1>4, <1>5, <2>2, <2>3 DEF Set
<1>6. ASSUME NEW w \in Writes, DcPoint(w[1], w[2])
      PROVE  SureInv'
  <2>1. PICK p \in Params, v \in Nat : p = w[1] /\ v = w[2]
    BY <1>3
  <2>2. p \notin PomOnly /\ run' = run
    BY <1>6, <2>1 DEF DcPoint
  <2>3. CASE Flips(live, p)
    <3>1. PICK n \in Lives : n = Noted(live, p, v)
      BY <1>2, NotedType
    <3>2. live' = [n EXCEPT !.unsure = @ \cup {p}]
      BY <1>6, <2>1, <2>3, <3>1 DEF DcPoint
    <3>3. /\ live'.info = n.info /\ live'.dirty = n.dirty /\ live'.design = n.design
          /\ live'.circuit = n.circuit /\ live'.meant = n.meant
          /\ live'.unsure = n.unsure \cup {p}
      BY <3>2 DEF Lives
    <3>4. LedgerRight(n)
      BY <1>2, <2>2, <3>1, LedgerNoted DEF Held
    <3>5. /\ Noted(live, p, v).circuit = live.circuit /\ Noted(live, p, v).meant = live.meant
          /\ Noted(live, p, v).unsure = live.unsure
      BY <1>2, NotedIs, Zenon
    <3>6. \A q \in Params : q # p => n.info[q] = live.info[q]
      <4>1. \A q \in Params : Noted(live, p, v).info[q] = IF q = p THEN v ELSE live.info[q]
        BY <1>2, <2>2, NotedInfo
      <4> QED BY <3>1, <4>1
    <3>7. ReadRight(live')
      BY <1>2, <3>1, <3>3, <3>5, <3>6 DEF ReadRight, Held
    <3>8. MeantRight(live')
      BY <1>2, <3>1, <3>3, <3>5 DEF MeantRight, Held
    <3>9. LedgerRight(live')
      BY <3>3, <3>4 DEF LedgerRight
    <3> QED BY <1>4, <2>2, <3>7, <3>8, <3>9 DEF Held
  <2>4. CASE ~Flips(live, p)
    <3>1. live' = Noted(Stamped(live, p, v), p, v)
      BY <1>6, <2>1, <2>4 DEF DcPoint
    <3>2. Held(live')
      BY <1>2, <2>2, <3>1, HeldStamped
    <3> QED BY <1>4, <2>2, <3>2
  <2> QED BY <2>3, <2>4
<1>7. ASSUME NEW p \in Params, Sens(p)
      PROVE  SureInv'
  <2>1. CASE live' = live
    BY <1>2, <1>4, <1>7, <2>1 DEF Sens
  <2>2. CASE live' = [live EXCEPT !.circuit[p] = Nudged, !.unsure = @ \cup {p}]
    <3>1. PICK c : c = [live.circuit EXCEPT ![p] = Nudged]
      OBVIOUS
    <3>2. live' = [live EXCEPT !.circuit = c, !.unsure = @ \cup {p}]
      BY <2>2, <3>1
    <3>3. /\ live'.circuit = c /\ live'.info = live.info /\ live'.dirty = live.dirty
          /\ live'.design = live.design /\ live'.meant = live.meant
          /\ live'.unsure = live.unsure \cup {p}
      BY <1>2, <3>2 DEF Lives
    <3>4. \A q \in Params : q # p => c[q] = live.circuit[q]
      BY <1>2, <3>1 DEF Lives, Assignment
    <3>5. LedgerRight(live') /\ MeantRight(live') /\ ReadRight(live')
      BY <1>2, <3>3, <3>4 DEF Held, LedgerRight, MeantRight, ReadRight
    <3> QED BY <1>4, <1>7, <3>5 DEF Held, Sens
  <2> QED BY <1>7, <2>1, <2>2 DEF Sens
<1>8. ASSUME NEW c, live' = [live EXCEPT !.carry = c], run'.pc # "solve"
      PROVE  SureInv'
  <2>1. /\ live'.dirty = live.dirty /\ live'.design = live.design /\ live'.info = live.info
        /\ live'.circuit = live.circuit /\ live'.meant = live.meant /\ live'.unsure = live.unsure
    BY <1>2, <1>8 DEF Lives
  <2>2. Held(live')
    BY <1>2, <2>1 DEF Held, LedgerRight, MeantRight, ReadRight
  <2> QED BY <1>1, <1>8, <2>2, SureHeld
<1>9. CASE Op
  BY <1>1, <1>8, <1>9 DEF Op
<1>10. ASSUME NEW stop \in 1..MaxTime, NEW start \in 0..MaxTime, Tran(stop, start)
       PROVE  SureInv'
  <2>1. /\ run' = [Idle EXCEPT !.pc = "early", !.stop = stop, !.start = start, !.todo = pending]
        /\ live' = [live EXCEPT !.carry = Earlier(live.carry)]
    BY <1>10 DEF Tran
  <2>2. run'.pc = "early"
    BY <2>1, IdleType DEF Runs
  <2> QED BY <1>8, <2>1, <2>2
<1>11. ASSUME NEW w \in Writes, NEW t \in 0..MaxTime, ScheduleSet(t, w[1], w[2])
       PROVE  SureInv'
  BY <1>2, <1>4, <1>11 DEF ScheduleSet
<1> QED BY <1>5, <1>6, <1>7, <1>9, <1>10, <1>11 DEF Call

\* Before the run the writes that are made are held.
LEMMA SureEarly ==
  ASSUME TInv, SureInv, Early
  PROVE  SureInv'
<1>1. run.pc = "early" /\ run.todo # <<>> /\ host' = host
  BY EarlyIs
<1>2. live \in Lives /\ Held(live) /\ run \in Runs /\ last \in Volts
  BY <1>1 DEF TInv, SureInv, Held
<1>3. PICK e \in Entry, left \in Entries :
        \/ \E o \in SetOutcomes(live, e.p, e.v, FALSE) :
             live' = o.live /\ run' = [run EXCEPT !.todo = left]
        \/ \E o \in SetOutcomes(live, e.p, e.v, FALSE) : GivesUp(o.live)
        \/ /\ UNCHANGED live
           /\ run' = [run EXCEPT !.todo = left, !.scheduled = Append(@, e), !.plan = Append(@, e)]
  BY EarlyIs
<1>4. e.p \in Params /\ e.v \in Nat
  BY DEF Entry
<1>5. ASSUME NEW o \in SetOutcomes(live, e.p, e.v, FALSE)
      PROVE  o.live \in Lives /\ Held(o.live)
  BY <1>2, <1>4, HeldOutcomes, OutcomesType
<1>6. ASSUME NEW o \in SetOutcomes(live, e.p, e.v, FALSE), GivesUp(o.live)
      PROVE  SureInv'
  <2>1. PICK l \in Lives : l = o.live
    BY <1>5
  <2>2. Held(l) /\ GivesUp(l)
    BY <1>5, <1>6, <2>1
  <2> QED BY <1>1, <1>2, <2>2, SureGivesUp DEF Held, ReadRight
<1>7. CASE \/ run' = [run EXCEPT !.todo = left]
           \/ run' = [run EXCEPT !.todo = left, !.scheduled = Append(@, e), !.plan = Append(@, e)]
  <2>1. run'.pc = "early"
    BY <1>1, <1>2, <1>7 DEF Runs
  <2>2. ASSUME Held(live') PROVE SureInv'
    BY <1>1, <2>1, <2>2, SureHeld
  <2>3. ASSUME NEW o \in SetOutcomes(live, e.p, e.v, FALSE), live' = o.live PROVE SureInv'
    BY <1>5, <2>2, <2>3
  <2>4. ASSUME live' = live PROVE SureInv'
    BY <1>2, <2>2, <2>4
  <2> QED BY <1>3, <1>6, <2>3, <2>4
<1> QED BY <1>3, <1>6, <1>7

\* At a split they are, too.
LEMMA SureSplit ==
  ASSUME TInv, SureInv, Split
  PROVE  SureInv'
<1>1. run.pc = "split" /\ host' = host
  BY SplitIs
<1>2. live \in Lives /\ Held(live) /\ run \in Runs /\ last \in Volts
  BY <1>1 DEF TInv, SureInv, Held
<1>3. PICK e \in Entry, left \in Entries :
        /\ live' = live \/ \E o \in SetOutcomes(live, e.p, e.v, FALSE) : live' = o.live
        /\ \/ run' = [run EXCEPT !.todo = left, !.landed = Append(@, e)]
           \/ run' = [Idle EXCEPT !.result = "failed"]
           \/ run' = [run EXCEPT !.todo = left]
  BY SplitIs
<1>4. e.p \in Params /\ e.v \in Nat
  BY DEF Entry
<1>5. Held(live')
  BY <1>2, <1>3, <1>4, HeldOutcomes
<1>6. run'.pc # "solve"
  BY <1>1, <1>2, <1>3, IdleType DEF Runs
<1> QED BY <1>1, <1>5, <1>6, SureHeld

\* A segment begins with nothing landed since.
LEMMA SureSegment ==
  ASSUME TInv, PlanInv, LandInv, SureInv, Segment
  PROVE  SureInv'
<1>1. run \in Runs
  BY DEF TInv
<1>2. run.pc \in {"early", "segment"} /\ host' = host /\ live' = live
  BY <1>1, SegmentIs
<1>3. PICK split \in {Never} \cup Splitters :
        run' = [run EXCEPT !.pc = "solve", !.at = run.seg, !.split = split,
                  !.todo = SegSets(split),
                  !.points = IF run.start <= run.seg THEN <<run.seg>> ELSE <<>>,
                  !.seeded = live.carry.of]
  BY <1>1, SegmentIs
<1>4. run'.pc = "solve" /\ run'.seg = run.seg /\ run'.landed = run.landed
  BY <1>1, <1>3 DEF Runs
<1>5. Els(run.landed)' = Els(run.landed)
  BY <1>4 DEF Els
<1>6. \A e \in Els(run.landed) : e.t <= run.seg
  BY <1>2 DEF PlanInv, LandInv, LandDone
<1>7. ASSUME NEW p \in Params \ live.unsure PROVE Landing(p)'
  BY <1>2, <1>4, <1>5, <1>6 DEF Landing, SureInv, ReadRight
<1> QED BY <1>2, <1>4, <1>7 DEF SureInv, LedgerRight, MeantRight

\* A write that lands is the last that did.
LEMMA SureLand ==
  ASSUME TInv, PlanInv, LandInv, SureInv, Land
  PROVE  SureInv'
<1>1. run \in Runs /\ live \in Lives
  BY DEF TInv
<1>2. run.pc = "solve" /\ host' = host
  BY <1>1, LandIs
<1>3. PICK i \in DueNow, e \in Entry :
        /\ e = run.todo[i]
        /\ \/ GivesUp(live)
           \/ /\ run' = [run EXCEPT !.todo = Among(run.todo, Waiting \ {e}), !.refused = TRUE]
              /\ UNCHANGED live
           \/ /\ live' = Stamped(live, e.p, e.v)
              /\ run' = [run EXCEPT !.todo = Among(run.todo, Waiting \ {e}), !.landed = Append(@, e)]
  BY <1>1, LandIs
<1>4. PICK left : left = Among(run.todo, Waiting \ {e})
  OBVIOUS
<1>5. CASE GivesUp(live)
  <2>1. ASSUME NEW p \in Params \ live.unsure,
               \A f \in Els(run.landed) : f.p = p => ~(f.t > run.seg)
        PROVE  live.circuit[p] = live.info[p]
    BY <1>2, <2>1 DEF SureInv, Landing
  <2> QED BY <1>1, <1>2, <1>5, <2>1, SureGivesUp DEF SureInv
<1>6. CASE run' = [run EXCEPT !.todo = left, !.refused = TRUE] /\ live' = live
  <2>1. run'.pc = "solve" /\ run'.seg = run.seg /\ run'.landed = run.landed
    BY <1>1, <1>2, <1>6 DEF Runs
  <2>2. Els(run.landed)' = Els(run.landed)
    BY <2>1 DEF Els
  <2>3. \A p : Landing(p)' <=> Landing(p)
    BY <1>6, <2>1, <2>2 DEF Landing
  <2> QED BY <1>2, <1>6, <2>1, <2>3 DEF SureInv, LedgerRight, MeantRight
<1>7. CASE live' = Stamped(live, e.p, e.v) /\ run' = [run EXCEPT !.todo = left, !.landed = Append(@, e)]
  <2>1. run.landed \in Seq(Entry) /\ run.todo \in Seq(Entry) /\ run.seg \in Nat /\ run.at \in Nat
        /\ e.p \in Params /\ e.v \in Nat /\ e.t \in Nat
    BY <1>1 DEF Runs, Entries, Entry
  <2>2. PICK landed \in Entries : landed = Append(run.landed, e)
    BY <2>1, AppendProperties DEF Entries
  <2>3. run'.pc = "solve" /\ run'.seg = run.seg /\ run'.landed = landed
    BY <1>1, <1>2, <1>7, <2>2 DEF Runs
  <2>4. Els(run.landed)' = Els(run.landed) \cup {e}
    <3>1. Els(landed) = Els(run.landed) \cup {e}
      BY <2>1, <2>2, ElsAppend
    <3>2. Els(run.landed)' = Els(landed)
      BY <2>3 DEF Els
    <3> QED BY <3>1, <3>2
  <2>5. e \in Els(run.todo) /\ \A f \in Els(run.landed) : <<f, e>> \in ByTime
    <3>1. i \in 1..Len(run.todo)
      BY <2>1 DEF DueNow
    <3>2. e \in Els(run.todo)
      BY <1>3, <3>1 DEF Els
    <3> QED BY <1>2, <3>2 DEF LandInv, LandNext
  <2>6. e.t > run.seg
    BY <1>2, <2>5 DEF PlanInv
  <2>7. \A q \in Params : live'.circuit[q] = IF q = e.p THEN e.v ELSE live.circuit[q]
    BY <1>1, <1>7, <2>1, MeantStamped
  <2>8. live'.unsure = live.unsure \ {e.p} /\ live'.info = live.info
    <3>1. /\ Stamped(live, e.p, e.v).unsure = live.unsure \ {e.p}
          /\ Stamped(live, e.p, e.v).info = live.info
      BY <1>1, <2>1, StampedIs
    <3> QED BY <1>7, <3>1
  <2>9. ASSUME NEW p \in Params \ live'.unsure PROVE Landing(p)'
    <3>1. CASE p = e.p
      <4>1. live'.circuit[p] = e.v
        BY <2>7, <3>1
      <4>2. \A f \in Els(run.landed)' : f.p = p /\ f # e => <<f, e>> \in ByTime
        BY <2>4, <2>5
      <4>3. e \in Els(run.landed)' /\ e.t > run'.seg
        BY <2>3, <2>4, <2>6
      <4>4. \E x \in Els(run.landed)' :
              /\ x.p = p /\ x.t > run'.seg /\ live'.circuit[p] = x.v
              /\ \A f \in Els(run.landed)' : f.p = p /\ f # x => <<f, x>> \in ByTime
        BY <3>1, <4>1, <4>2, <4>3
      <4> QED BY <4>4 DEF Landing, ByTime
    <3>2. CASE p # e.p
      <4>1. Landing(p)
        BY <1>2, <2>8, <3>2 DEF SureInv
      <4>2. live'.circuit[p] = live.circuit[p] /\ live'.info[p] = live.info[p]
        BY <2>7, <2>8, <3>2
      <4>3. \A f \in Els(run.landed)' : f.p = p => f \in Els(run.landed)
        BY <2>4, <3>2
      <4>4. Els(run.landed) \subseteq Els(run.landed)'
        BY <2>4
      <4>5. CASE /\ \A x \in Els(run.landed) : x.p = p => x.t <= run.seg
                 /\ live.circuit[p] = live.info[p]
        BY <2>3, <4>2, <4>3, <4>5 DEF Landing
      <4>6. CASE \E x \in Els(run.landed) :
                   /\ x.p = p /\ x.t > run.seg /\ live.circuit[p] = x.v
                   /\ \A f \in Els(run.landed) : f.p = p /\ f # x => <<f, x>> \in ByTime
        <5>1. PICK x \in Els(run.landed) :
                /\ x.p = p /\ x.t > run.seg /\ live.circuit[p] = x.v
                /\ \A f \in Els(run.landed) : f.p = p /\ f # x => <<f, x>> \in ByTime
          BY <4>6
        <5>2. /\ x \in Els(run.landed)' /\ x.p = p /\ x.t > run'.seg /\ live'.circuit[p] = x.v
              /\ \A f \in Els(run.landed)' : f.p = p /\ f # x => <<f, x>> \in ByTime
          BY <2>3, <4>2, <4>3, <4>4, <5>1
        <5> QED BY <5>2 DEF Landing, ByTime
      <4> QED BY <4>1, <4>5, <4>6 DEF Landing
    <3> QED BY <3>1, <3>2
  <2>10. LedgerRight(live') /\ MeantRight(live')
    BY <1>1, <1>7, <2>1, MeantStamped DEF SureInv
  <2> QED BY <1>2, <2>3, <2>9, <2>10 DEF SureInv, LedgerRight, MeantRight
<1> QED BY <1>3, <1>4, <1>5, <1>6, <1>7

\* When a segment ends, each write it was given has landed, or is for after the stop
\* and so crosses.
LEMMA GivenLanded ==
  ASSUME TInv, PlanInv, LandInv, SegmentEnd,
         NEW sets \in Entries, sets = SegSets(run.split)
  PROVE  /\ \A x \in Els(sets) :
              /\ x \in Entry /\ x.t > run.seg
              /\ x \in Els(run.landed) \/ (host = "rust" /\ x.t > run.stop)
         /\ \A x \in Els(run.landed) : x.t > run.seg => x \in Els(sets) /\ x.p \notin PomOnly
         /\ Ordered(sets, ByN)
<1>1. run \in Runs /\ run.at <= run.stop /\ host \in {"rust", "python"}
  BY DEF TInv
<1>2. run.pc = "solve" /\ DueNow = {} /\ run.refused = FALSE /\ run.at = SegStopAt(run.split)
  BY <1>1 DEF SegmentEnd, Runs
<1>3. /\ Els(sets) = {e \in Els(run.scheduled) : Given(e, run.split)}
      /\ Ordered(sets, ByN)
  BY <1>1, <1>2, SegSetsIs DEF PlanInv
<1>4. /\ \A x \in Els(run.scheduled) :
           Given(x, run.split) => x \in Els(run.todo) \/ x \in Els(run.landed)
      /\ \A x \in Els(run.todo) : Given(x, run.split) /\ x.t >= run.at
      /\ \A x \in Els(run.landed) :
           x.t > run.seg => x \in Els(run.scheduled) /\ Given(x, run.split) /\ x.p \notin PomOnly
      /\ run.split # Never => \E x \in Els(run.scheduled) : x.t = run.split /\ Structural(x)
      /\ \A x \in Els(run.scheduled) : x.t > run.seg
  BY <1>2 DEF LandInv, LandSolve, PlanInv
<1>5. Els(run.scheduled) \subseteq Entry /\ run.at \in Nat /\ run.stop \in Nat
      /\ run.todo \in Seq(Entry)
  <2>1. run.scheduled \in Seq(Entry) /\ run.todo \in Seq(Entry)
    BY <1>1 DEF Runs, Entries
  <2>2. run.at \in Nat /\ run.stop \in Nat
    BY <1>1, SessionAssumption DEF Runs
  <2> QED BY <2>1, <2>2, ElsType
<1>6. ASSUME NEW x \in Els(sets), x \in Els(run.todo)
      PROVE  host = "rust" /\ x.t > run.stop
  <2>1. PICK j \in 1..Len(run.todo) : x = run.todo[j]
    BY <1>6 DEF Els
  <2>2. x.t # run.at
    BY <1>2, <1>5, <2>1 DEF DueNow
  <2>3. x.t \in Nat /\ x.t > run.at /\ Given(x, run.split)
    <3>1. x \in Entry /\ x.t >= run.at /\ Given(x, run.split)
      BY <1>3, <1>4, <1>5, <1>6
    <3>2. x.t \in Nat
      BY <3>1 DEF Entry
    <3> QED BY <1>5, <2>2, <3>1, <3>2
  <2>4. host = "rust"
    BY <1>2, <1>5, <2>3 DEF Given, InSegment
  <2>5. run.split = Never
    BY <1>4, <2>4 DEF Structural
  <2>6. run.at = run.stop
    BY <1>2, <2>5 DEF SegStopAt
  <2> QED BY <2>3, <2>4, <2>6
<1> QED BY <1>3, <1>4, <1>5, <1>6

\* What the writes of a segment tell of a parameter is what the circuit runs with,
\* unless they cross.
LEMMA SegmentTold ==
  ASSUME TInv, PlanInv, LandInv, SureInv, SegmentEnd,
         NEW sets \in Entries, sets = SegSets(run.split),
         NEW p \in Params, p \notin live.unsure, p \notin Crossed(sets)
  PROVE  live.circuit[p] = IF p \in PomOnly THEN live.info[p]
                           ELSE Told(ToldBy(sets), p, live.info[p])
<1>1. /\ \A x \in Els(sets) :
           /\ x \in Entry /\ x.t > run.seg
           /\ x \in Els(run.landed) \/ (host = "rust" /\ x.t > run.stop)
      /\ \A x \in Els(run.landed) : x.t > run.seg => x \in Els(sets) /\ x.p \notin PomOnly
      /\ Ordered(sets, ByN)
  BY GivenLanded
<1>2. PICK told \in Ledger : told = ToldBy(sets)
  BY ToldByType
<1>3. /\ Len(told) = Len(sets) /\ Len(sets) \in Nat /\ DOMAIN sets = 1..Len(sets)
      /\ \A i \in 1..Len(sets) : told[i][1] = sets[i].p /\ told[i][2] = sets[i].v
  BY <1>2, ToldByType DEF Entries
<1>4. run \in Runs /\ run.seg \in Nat /\ Els(run.landed) \subseteq Entry
      /\ \A x \in Entry : x.t \in Nat /\ x.n \in Nat
  <2>1. run \in Runs
    BY DEF TInv
  <2>2. run.landed \in Seq(Entry) /\ run.seg \in Nat
    BY <2>1 DEF Runs, Entries
  <2> QED BY <2>1, <2>2, ElsType DEF Entry
<1>5. Landing(p)
  BY DEF SureInv, SegmentEnd
<1>6. CASE \A j \in 1..Len(told) : told[j][1] # p
  <2>1. \A x \in Els(sets) : x.p # p
    BY <1>3, <1>6 DEF Els
  <2>2. \A x \in Els(run.landed) : x.p = p => ~(x.t > run.seg)
    BY <1>1, <2>1
  <2>3. live.circuit[p] = live.info[p]
    BY <1>5, <2>2 DEF Landing
  <2>4. Told(told, p, live.info[p]) = live.info[p]
    BY <1>6, ToldNone
  <2> QED BY <1>2, <2>3, <2>4
<1>7. CASE \E i : LastFor(told, p, i)
  <2>1. PICK i : LastFor(told, p, i)
    BY <1>7
  <2>2. i \in 1..Len(sets) /\ sets[i].p = p /\ \A j \in 1..Len(sets) : sets[j].p = p => j <= i
    BY <1>3, <2>1 DEF LastFor
  <2>3. PICK x \in Entry : x = sets[i] /\ x \in Els(sets)
    <3>1. sets[i] \in Els(sets)
      BY <2>2 DEF Els
    <3> QED BY <1>1, <3>1
  <2>4. x \in Els(run.landed) /\ x.t > run.seg
    <3>1. ~(x.t > run.stop)
      BY <1>3, <2>2, <2>3 DEF Crossed
    <3> QED BY <1>1, <2>3, <3>1
  <2>5. PICK y \in Els(run.landed) :
          /\ y.p = p /\ y.t > run.seg /\ live.circuit[p] = y.v
          /\ \A f \in Els(run.landed) : f.p = p /\ f # y => <<f, y>> \in ByTime
    <3>1. ~(x.t <= run.seg)
      BY <1>4, <2>4
    <3>2. ~(\A e \in Els(run.landed) : e.p = p => e.t <= run.seg)
      BY <2>2, <2>3, <2>4, <3>1
    <3> QED BY <1>5, <3>2 DEF Landing
  <2>6. y \in Els(sets) /\ p \notin PomOnly /\ y \in Entry
    BY <1>1, <1>4, <2>5
  <2>7. x = y
    <3> SUFFICES ASSUME x # y PROVE FALSE
      OBVIOUS
    <3>1. PICK k \in 1..Len(sets) : y = sets[k]
      BY <2>6 DEF Els
    <3>2. k < i
      <4>1. k <= i /\ k # i /\ k \in Nat /\ i \in Nat
        BY <1>3, <2>2, <2>3, <2>5, <3>1
      <4> QED BY <4>1
    <3>3. y.n < x.n
      <4>1. <<y, x>> \in ByN
        BY <1>1, <2>2, <2>3, <3>1, <3>2 DEF Ordered
      <4> QED BY <2>6, <4>1, OrdersAre
    <3>4. x.t < y.t
      <4>1. <<x, y>> \in ByTime
        BY <2>2, <2>3, <2>4, <2>5
      <4>2. x.t < y.t \/ (x.t = y.t /\ x.n < y.n)
        BY <2>6, <4>1, OrdersAre
      <4>3. x.n \in Nat /\ y.n \in Nat
        BY <1>4, <2>6
      <4> QED BY <3>3, <4>2, <4>3
    <3>5. k \in 1..(i - 1) /\ sets[k].t > sets[i].t /\ sets[k].p = sets[i].p
      <4>1. sets[k].t > sets[i].t
        BY <1>4, <2>3, <2>6, <3>1, <3>4
      <4>2. k \in 1..(i - 1)
        BY <1>3, <2>2, <3>2
      <4> QED BY <2>2, <2>5, <3>1, <4>1, <4>2
    <3>6. p \in Crossed(sets)
      BY <1>3, <2>2, <3>5 DEF Crossed
    <3> QED BY <3>6
  <2>8. Told(told, p, live.info[p]) = told[i][2]
    BY <2>1, ToldLast
  <2> QED BY <1>2, <1>3, <2>2, <2>3, <2>5, <2>6, <2>7, <2>8
<1> QED BY <1>6, <1>7, LastOrNone

\* So when it ends the readings take its writes, and so does the ledger.
LEMMA SureSegmentEnd ==
  ASSUME TInv, PlanInv, LandInv, SureInv, SegmentEnd
  PROVE  SureInv'
<1>1. live \in Lives /\ last \in Volts /\ run \in Runs /\ run.at <= run.stop
  BY DEF TInv
<1>2. host' = host
  BY DEF SegmentEnd, Running
<1>3. PICK sets \in Entries :
        /\ sets = SegSets(run.split)
        /\ live'.info = [p \in Params |-> IF p \in PomOnly THEN live.info[p]
                                          ELSE Told(ToldBy(sets), p, live.info[p])]
        /\ live'.dirty = IF host = "python" THEN live.dirty \o ToldBy(sets) ELSE live.dirty
        /\ live'.unsure = live.unsure \cup Crossed(sets)
        /\ live'.circuit = live.circuit /\ live'.meant = live.meant
        /\ live'.design = live.design
  BY <1>1, SegmentEndIs
<1>4. \A p \in Params : live'.info[p] = IF p \in PomOnly THEN live.info[p]
                                        ELSE Told(ToldBy(sets), p, live.info[p])
  BY <1>3
<1>5. ReadRight(live')
  <2> SUFFICES ASSUME NEW p \in Params \ live'.unsure PROVE live'.circuit[p] = live'.info[p]
    BY DEF ReadRight
  <2>1. p \notin live.unsure /\ p \notin Crossed(sets)
    BY <1>3
  <2>2. live.circuit[p] = IF p \in PomOnly THEN live.info[p]
                          ELSE Told(ToldBy(sets), p, live.info[p])
    BY <1>3, <2>1, SegmentTold
  <2> QED BY <1>3, <1>4, <2>2
<1>6. MeantRight(live')
  BY <1>3 DEF MeantRight, SureInv
<1>7. LedgerRight(live')
  <2> SUFFICES ASSUME host = "python", NEW p \in Params
               PROVE  Told(live'.dirty, p, live'.design[p]) = live'.info[p]
    BY DEF LedgerRight
  <2>1. PICK told \in Ledger : told = ToldBy(sets)
    BY ToldByType
  <2>2. live.dirty \in Ledger
    BY <1>1 DEF Lives
  <2>3. Told(live.dirty \o told, p, live.design[p]) =
          Told(told, p, Told(live.dirty, p, live.design[p]))
    BY <2>1, <2>2, ToldConcat
  <2>4. Told(live.dirty, p, live.design[p]) = live.info[p]
    BY DEF SureInv, LedgerRight
  <2>5. Told(live'.dirty, p, live'.design[p]) = Told(told, p, live.info[p])
    BY <1>3, <2>1, <2>3, <2>4
  <2>6. CASE p \in PomOnly
    <3>1. /\ \A x \in Els(sets) :
               x.t > run.seg /\ (x \in Els(run.landed) \/ host = "rust")
          /\ \A x \in Els(run.landed) : x.t > run.seg => x.p \notin PomOnly
      BY <1>3, GivenLanded
    <3>2. \A x \in Els(sets) : x.p # p
      BY <2>6, <3>1
    <3>3. /\ Len(told) = Len(sets)
          /\ \A i \in 1..Len(sets) : told[i][1] = sets[i].p
      BY <2>1, ToldByType
    <3>4. \A i \in 1..Len(told) : told[i][1] # p
      BY <3>2, <3>3 DEF Els
    <3>5. Told(told, p, live.info[p]) = live.info[p]
      BY <3>4, ToldNone
    <3> QED BY <1>4, <2>5, <2>6, <3>5
  <2>7. CASE p \notin PomOnly
    BY <1>4, <2>1, <2>5, <2>7
  <2> QED BY <2>6, <2>7
<1>8. run'.pc # "solve"
  <2>1. PICK steps \in Seq(Nat) : steps = Stitched(run.steps, run.points)
    BY <1>1, StitchedType DEF Runs
  <2>2. PICK todo : todo = Among(run.scheduled, {e \in Waiting : e.t = run.split})
    OBVIOUS
  <2>3. \/ run' = [Idle EXCEPT !.result = "ok", !.stop = run.stop, !.start = run.start,
                               !.steps = steps, !.plan = run.plan, !.landed = run.landed,
                               !.splits = run.splits]
        \/ run' = [run EXCEPT !.pc = "split", !.steps = steps, !.splits = @ \cup {run.split},
                              !.todo = todo]
    BY <2>1, <2>2 DEF SegmentEnd
  <2> QED BY <1>1, <2>3, IdleType DEF Runs
<1> QED BY <1>2, <1>5, <1>6, <1>7, <1>8, SureHeld DEF Held

\* Every step holds what the session is sure of.
LEMMA SureStep ==
  ASSUME ListInv, SureInv, [Next]_vars
  PROVE  SureInv'
<1>1. TInv /\ PlanInv /\ LandInv /\ run \in Runs /\ live \in Lives
  BY DEF ListInv, TInv
<1>2. ASSUME host' = host, live' = live, run'.pc = run.pc, run'.seg = run.seg,
             run'.landed = run.landed
      PROVE  SureInv'
  <2>1. Els(run.landed)' = Els(run.landed)
    BY <1>2 DEF Els
  <2>2. \A p : Landing(p)' <=> Landing(p)
    BY <1>2, <2>1 DEF Landing
  <2> QED BY <1>2, <2>2 DEF SureInv, LedgerRight, MeantRight, ReadRight
<1>3. CASE Advance
  <2>1. PICK points : points = IF run.start <= run.at + 1 THEN Append(run.points, run.at + 1)
                               ELSE run.points
    OBVIOUS
  <2>2. /\ run' = [run EXCEPT !.at = run.at + 1, !.points = points]
        /\ host' = host /\ live' = live
    BY <1>3, <2>1 DEF Advance, Running
  <2>3. run'.pc = run.pc /\ run'.seg = run.seg /\ run'.landed = run.landed
    BY <1>1, <2>2 DEF Runs
  <2> QED BY <1>2, <2>2, <2>3
<1>4. CASE SolveFails
  <2>1. run.pc = "solve" /\ GivesUp(live) /\ host' = host
    BY <1>4 DEF SolveFails, Running
  <2>2. ASSUME NEW p \in Params \ live.unsure,
               \A f \in Els(run.landed) : f.p = p => ~(f.t > run.seg)
        PROVE  live.circuit[p] = live.info[p]
    BY <2>1, <2>2 DEF SureInv, Landing
  <2> QED BY <1>1, <2>1, <2>2, SureGivesUp DEF SureInv
<1>5. CASE Restart
  <2>1. PICK left : left = Among(run.scheduled, {e \in Waiting : e.t > run.split})
    OBVIOUS
  <2>2. /\ run' = [run EXCEPT !.pc = "segment", !.seg = run.split, !.scheduled = left]
        /\ run.pc = "split" /\ host' = host /\ live' = live
    BY <1>5, <2>1 DEF Restart, Running
  <2>3. run'.pc = "segment"
    BY <1>1, <2>2 DEF Runs
  <2> QED BY <2>2, <2>3 DEF SureInv, LedgerRight, MeantRight, ReadRight
<1>6. CASE UNCHANGED vars
  BY <1>2, <1>6 DEF vars
<1>7. CASE Call
  BY <1>1, <1>7, SureCall
<1>8. CASE Early
  BY <1>1, <1>8, SureEarly
<1>9. CASE Segment
  BY <1>1, <1>9, SureSegment
<1>10. CASE Land
  BY <1>1, <1>10, SureLand
<1>11. CASE SegmentEnd
  BY <1>1, <1>11, SureSegmentEnd
<1>12. CASE Split
  BY <1>1, <1>12, SureSplit
<1> QED BY <1>3, <1>4, <1>5, <1>6, <1>7, <1>8, <1>9, <1>10, <1>11, <1>12 DEF Next

\* A session keeps what it is told: whatever calls are made in whatever order, and
\* whatever a transient rebuilds under way, between transients the circuit runs with
\* what each parameter was last told to be and results are read with the same,
\* unless one of the named ways was taken in which the session loses track of it.
THEOREM ToldIsKept == Spec => []WritesSurvive
<1>1. Init => SureInv
  <2> SUFFICES ASSUME Init PROVE SureInv
    OBVIOUS
  <2>1. run.pc = "idle"
    BY IdleType DEF Init
  <2>2. /\ live.design = InitDesign /\ live.circuit = InitDesign /\ live.info = InitDesign
        /\ live.meant = InitDesign /\ live.dirty = <<>>
    BY DEF Init
  <2> QED BY <2>1, <2>2, ToldEmpty DEF SureInv, LedgerRight, MeantRight, ReadRight
<1>2. SureInv /\ ListInv /\ [Next]_vars => SureInv'
  BY SureStep
<1>3. SureInv => WritesSurvive
  BY DEF SureInv, MeantRight, ReadRight, WritesSurvive
<1> QED BY <1>1, <1>2, <1>3, ListsRight, PTL DEF Spec
=================================================================================
