------------------------- MODULE DigitalTopologyProofs -------------------------
(***************************************************************************)
(* Proofs about DigitalTopology, for any circuit: every device is ranked    *)
(* once, restarts close real loops, the search ends, and where every net    *)
(* has one driver a pass misses no signal.                                  *)
(*                                                                          *)
(* The argument is the one of depth-first search.  The stack is a path of   *)
(* signals and holds the devices of color 1; rev holds those of color 2 in  *)
(* the order they were finished.  An edge that was followed leads to a      *)
(* finished device, to the next one on the stack, or is a back edge.        *)
(***************************************************************************)
EXTENDS DigitalTopology, FiniteSetTheorems, SequenceTheorems, TLAPS

Entries == [dev : 1..N, last : 0..N]

StackIsGray ==
  /\ \A v \in 1..N : color[v] = 1 <=> \E k \in 1..Len(stack) : stack[k].dev = v
  /\ \A k, l \in 1..Len(stack) : stack[k].dev = stack[l].dev => k = l

RevIsDone ==
  /\ \A v \in 1..N : color[v] = 2 <=> \E p \in 1..Len(rev) : rev[p] = v
  /\ \A p, q \in 1..Len(rev) : rev[p] = rev[q] => p = q

RootsVisited == \A v \in 1..N : v < start => color[v] # 0

\* Device u is finished before device v.
Before(u, v) == \E p, q \in 1..Len(rev) : p < q /\ rev[p] = u /\ rev[q] = v

DoneCovered ==
  \A v \in 1..N : color[v] = 2 =>
    \A u \in Adj(v) : Before(u, v) \/ <<v, u>> \in back

StackCovered ==
  \A k \in 1..Len(stack) : \A u \in Adj(stack[k].dev) :
    u <= stack[k].last =>
      \/ color[u] = 2
      \/ <<stack[k].dev, u>> \in back
      \/ k < Len(stack) /\ stack[k+1].dev = u

StackIsPath ==
  \A k, l \in 1..Len(stack) : k <= l => Reaches(stack[k].dev, stack[l].dev)

\* Device u is under device v on the stack.
Under(u, v) ==
  \E k, l \in 1..Len(stack) : k < l /\ stack[k].dev = u /\ stack[l].dev = v

BackIsLoop ==
  \A e \in back :
    /\ Reaches(e[2], e[1])
    /\ \/ Under(e[2], e[1])
       \/ color[e[1]] = 2 /\ color[e[2]] = 1
       \/ Before(e[1], e[2])

RankedIsReversed ==
  Built => /\ stack = <<>> /\ start > N
           /\ order = Reversed(rev)
           /\ backEdges = {<<Place(order, e[1]), Place(order, e[2])>> : e \in back}

IInv ==
  /\ TypeOK
  /\ StackIsGray
  /\ RevIsDone
  /\ RootsVisited
  /\ DoneCovered
  /\ StackCovered
  /\ StackIsPath
  /\ BackIsLoop
  /\ RankedIsReversed

-----------------------------------------------------------------------------
(* Lemmas about the state and the operators.                                *)

\* An edge of the adjacency list is a signal of the circuit.
LEMMA AdjFeeds ==
  ASSUME NEW v \in 1..N, NEW u \in Adj(v)
  PROVE  u \in 1..N /\ u # v /\ <<v, u>> \in Feeds
BY DEF Adj, Owns, Feeds

\* Where every net has one driver, every signal is in the adjacency lists.
LEMMA FeedsAdj ==
  ASSUME TypeOK, NEW e \in Feeds,
         \A i, j \in 1..N : Drives[i] = Drives[j] => i = j
  PROVE  e[2] \in Adj(e[1])
BY TopologyAssumption DEF Feeds, Adj, Owns, TypeOK

\* A device reaches itself.
LEMMA ReachesSelf ==
  ASSUME NEW i \in 1..N
  PROVE  Reaches(i, i)
BY DEF Reaches

\* What is fed by a device that i reaches is reached too.
LEMMA ReachesNext ==
  ASSUME NEW i \in 1..N, NEW v \in 1..N, NEW u \in 1..N,
         Reaches(i, v), <<v, u>> \in Feeds
  PROVE  Reaches(i, u)
BY DEF Reaches

\* The circuit does not change during the search, nor what signals reach.
LEMMA SameCircuit ==
  ASSUME UNCHANGED reads
  PROVE  /\ \A v : Adj(v)' = Adj(v)
         /\ \A i, j : Reaches(i, j)' = Reaches(i, j)
<1>1. Feeds' = Feeds
  BY DEF Feeds
<1>2. \A i, j : Reaches(i, j)' = Reaches(i, j)
  BY <1>1 DEF Reaches
<1>3. \A v : Adj(v)' = Adj(v)
  BY DEF Adj, Owns
<1> QED  BY <1>2, <1>3

\* The top of the stack and what is under it.
LEMMA StackTop ==
  ASSUME TypeOK, stack # <<>>
  PROVE  /\ Len(stack) \in Nat \ {0}
         /\ Top = stack[Len(stack)] /\ Top \in Entries
         /\ Top.dev \in 1..N /\ Top.last \in 0..N
         /\ Rest \in Seq(Entries) /\ Len(Rest) = Len(stack) - 1
         /\ \A k \in 1..(Len(stack) - 1) : Rest[k] = stack[k]
<1>1. stack \in Seq(Entries)
  BY DEF TypeOK, Entries
<1>2. Len(stack) \in Nat \ {0}
  BY <1>1, EmptySeq
<1>3. stack[Len(stack)] \in Entries
  BY <1>1, <1>2, ElementOfSeq
<1> DEFINE n == Len(stack) - 1
<1>4. n \in Nat /\ \A k \in 1..n : stack[k] \in Entries
  BY <1>1, <1>2, ElementOfSeq
<1> HIDE DEF n
<1>5. /\ SubSeq(stack, 1, n) \in Seq(Entries)
      /\ Len(SubSeq(stack, 1, n)) = IF 1 <= n THEN n - 1 + 1 ELSE 0
      /\ \A k \in 1..(n - 1 + 1) : SubSeq(stack, 1, n)[k] = stack[1 + k - 1]
  BY <1>4, SubSeqProperties
<1>6. Len(SubSeq(stack, 1, n)) = n
  BY <1>4, <1>5
<1>7. \A k \in 1..n : SubSeq(stack, 1, n)[k] = stack[k]
  <2> TAKE k \in 1..n
  <2>1. k \in 1..(n - 1 + 1) /\ 1 + k - 1 = k
    BY <1>4
  <2> QED  BY <1>5, <2>1
<1>8. Top \in Entries /\ Top.dev \in 1..N /\ Top.last \in 0..N
  BY <1>3 DEF Top, Entries
<1> QED  BY <1>2, <1>5, <1>6, <1>7, <1>8 DEF Top, Rest, n

-----------------------------------------------------------------------------
(* The invariant holds initially and is preserved, action by action.        *)

\* Before the search nothing is visited and every part of the invariant is vacuous.
LEMMA InitIInv == Init => IInv
<1> SUFFICES ASSUME Init PROVE IInv
  OBVIOUS
<1>1. TypeOK
  BY TopologyAssumption, EmptySeq DEF Init, TypeOK
<1>2. Len(stack) = 0 /\ Len(rev) = 0
  BY EmptySeq DEF Init
<1> QED
  BY <1>1, <1>2 DEF Init, IInv, StackIsGray, RevIsDone, RootsVisited, DoneCovered,
     StackCovered, StackIsPath, BackIsLoop, RankedIsReversed, Built

\* A new root is the only device on the stack.
LEMMA RootIInv == IInv /\ Root => IInv'
<1> SUFFICES ASSUME IInv, Root PROVE IInv'
  OBVIOUS
<1> USE TopologyAssumption
<1>a. TypeOK
  BY DEF IInv
<1>b. /\ \A v : Adj(v)' = Adj(v)
      /\ \A i, j : Reaches(i, j)' = Reaches(i, j)
  BY SameCircuit DEF Root
<1>c. start \in 1..N /\ start' = start + 1 /\ stack = <<>> /\ Len(stack) = 0
  BY <1>a, EmptySeq DEF Root, Roots, TypeOK
<1>d. ~Built /\ ~Built'
  BY <1>c DEF IInv, RankedIsReversed, Root, Built
<1>1. CASE color[start] # 0
  <2>1. UNCHANGED <<reads, stack, color, rev, back, order, backEdges>>
    BY <1>1 DEF Root, Unvisited
  <2>2. RootsVisited'
    BY <1>1, <1>a, <1>c, <2>1 DEF IInv, RootsVisited, TypeOK
  <2>3. TypeOK'
    BY <1>a, <1>c, <2>1 DEF TypeOK
  <2>4. StackIsGray' /\ RevIsDone'
    BY <2>1 DEF IInv, StackIsGray, RevIsDone
  <2>5. DoneCovered' /\ StackCovered'
    BY <1>b, <2>1 DEF IInv, DoneCovered, StackCovered, Before
  <2>6. StackIsPath' /\ BackIsLoop'
    BY <1>b, <2>1 DEF IInv, StackIsPath, BackIsLoop, Before, Under
  <2> QED
    BY <1>d, <2>2, <2>3, <2>4, <2>5, <2>6 DEF IInv, RankedIsReversed
<1>2. CASE color[start] = 0
  <2>1. /\ stack' = <<Entry(start)>> /\ color' = [color EXCEPT ![start] = 1]
        /\ UNCHANGED <<reads, rev, back, order, backEdges>>
    BY <1>2 DEF Root, Unvisited
  <2>2. Len(stack') = 1 /\ stack'[1] = Entry(start) /\ Entry(start) \in Entries
    BY <1>c, <2>1 DEF Entry, Entries
  <2>3. TypeOK'
    BY <1>a, <1>c, <2>1, <2>2 DEF TypeOK, Entries
  <2>4. \A v \in 1..N : color'[v] = IF v = start THEN 1 ELSE color[v]
    BY <1>a, <2>1 DEF TypeOK
  <2>5. \A v \in 1..N : color[v] # 1
    BY <1>c DEF IInv, StackIsGray
  <2>6. StackIsGray'
    BY <1>c, <2>2, <2>4, <2>5 DEF StackIsGray, Entry
  <2>7. RevIsDone'
    BY <1>2, <2>1, <2>4 DEF IInv, RevIsDone
  <2>8. RootsVisited'
    <3> SUFFICES ASSUME NEW v \in 1..N, v < start + 1 PROVE color'[v] # 0
      BY <1>c DEF RootsVisited
    <3>1. v < start \/ v = start
      BY <1>c
    <3> QED  BY <2>4, <3>1 DEF IInv, RootsVisited
  <2>9. DoneCovered'
    BY <1>b, <2>1, <2>4 DEF IInv, DoneCovered, Before
  <2>10. StackCovered'
    BY <1>b, <1>c, <2>2, AdjFeeds DEF StackCovered, Entry
  <2>11. StackIsPath'
    BY <1>b, <1>c, <2>2, ReachesSelf DEF StackIsPath, Entry
  <2>12. BackIsLoop'
    <3> SUFFICES ASSUME NEW e \in back
                 PROVE  /\ Reaches(e[2], e[1])
                        /\ \/ color'[e[1]] = 2 /\ color'[e[2]] = 1
                           \/ Before(e[1], e[2])
      BY <1>b, <2>1 DEF BackIsLoop, Before
    <3>1. e[1] \in 1..N /\ e[2] \in 1..N
      BY <1>a DEF TypeOK
    <3>2. ~Under(e[2], e[1])
      BY <1>c DEF Under
    <3> QED  BY <2>4, <2>5, <3>1, <3>2 DEF IInv, BackIsLoop
  <2> QED
    BY <1>d, <2>3, <2>6, <2>7, <2>8, <2>9, <2>10, <2>11, <2>12
    DEF IInv, RankedIsReversed
<1> QED  BY <1>1, <1>2

\* Following an edge pushes a white device, records a back edge, or passes by.
LEMMA FollowIInv == IInv /\ Follow => IInv'
<1> SUFFICES ASSUME IInv, Follow PROVE IInv'
  OBVIOUS
<1> USE TopologyAssumption
<1>a. TypeOK /\ stack # <<>>
  BY DEF IInv, Follow
<1>b. /\ \A v : Adj(v)' = Adj(v)
      /\ \A i, j : Reaches(i, j)' = Reaches(i, j)
  BY SameCircuit DEF Follow
<1>c. ~Built /\ ~Built'
  BY <1>a DEF IInv, RankedIsReversed, Follow, Built
<1> DEFINE L == Len(stack)
           v == Top.dev
<1>d. /\ L \in Nat \ {0} /\ Top = stack[L] /\ v \in 1..N /\ Top.last \in 0..N /\ Top \in Entries
      /\ Rest \in Seq(Entries) /\ Len(Rest) = L - 1
      /\ \A k \in 1..(L - 1) : Rest[k] = stack[k]
  BY <1>a, StackTop
<1>e. PICK u \in Ahead(Top) :
        /\ \A w \in Ahead(Top) : u <= w
        /\ stack' = IF Unvisited(color[u])
                    THEN Append(Append(Rest, Moved(Top, u)), Entry(u))
                    ELSE Append(Rest, Moved(Top, u))
        /\ color' = IF Unvisited(color[u]) THEN [color EXCEPT ![u] = 1] ELSE color
        /\ back' = IF OnStack(color[u]) THEN back \cup {<<v, u>>} ELSE back
  BY DEF Follow
<1>f. u \in Adj(v) /\ u > Top.last /\ u \in 1..N /\ u # v /\ <<v, u>> \in Feeds
  BY <1>d, AdjFeeds DEF Ahead
<1>g. \A w \in Adj(v) : w <= u => w <= Top.last \/ w = u
  BY <1>d, <1>e, <1>f, AdjFeeds DEF Ahead
<1> DEFINE moved == Append(Rest, Moved(Top, u))
<1>h. Moved(Top, u) \in Entries /\ Moved(Top, u).dev = v /\ Moved(Top, u).last = u
  BY <1>d, <1>f DEF Moved, Entries
<1>i. /\ moved \in Seq(Entries) /\ Len(moved) = L
      /\ \A k \in 1..(L - 1) : moved[k] = stack[k]
      /\ moved[L].dev = v /\ moved[L].last = u
  BY <1>d, <1>h
<1>j. \A k \in 1..L : moved[k].dev = stack[k].dev
  BY <1>d, <1>i
<1>k. /\ \A k \in 1..L : stack[k].dev \in 1..N /\ color[stack[k].dev] = 1
      /\ color[v] = 1
  <2> SUFFICES ASSUME NEW k \in 1..L
               PROVE  stack[k].dev \in 1..N /\ color[stack[k].dev] = 1
    BY <1>d
  <2>1. stack[k] \in Entries
    BY <1>a, ElementOfSeq DEF TypeOK, Entries
  <2> QED  BY <2>1 DEF Entries, IInv, StackIsGray
<1>l. UNCHANGED <<reads, start, rev, order, backEdges>>
  BY DEF Follow
<1>m. color[u] \in 0..2
  BY <1>a, <1>f DEF TypeOK
\* What was covered stays covered, and all up to u is once u is.
<1>n. ASSUME Len(stack') >= L,
             \A k \in 1..L : stack'[k] = moved[k],
             \A w \in 1..N : color[w] = 2 => color'[w] = 2,
             back \subseteq back',
             color'[u] = 2 \/ <<v, u>> \in back' \/ (L < Len(stack') /\ stack'[L+1].dev = u),
             Len(stack') \in Nat,
             NEW k \in 1..L, NEW w \in Adj(stack'[k].dev), w <= stack'[k].last
      PROVE  \/ color'[w] = 2
             \/ <<stack'[k].dev, w>> \in back'
             \/ k < Len(stack') /\ stack'[k+1].dev = w
  <2>1. stack'[k].dev = stack[k].dev /\ w \in 1..N
    BY <1>j, <1>k, <1>n, AdjFeeds
  <2>2. CASE k < L
    <3>1. stack'[k] = stack[k] /\ k \in 1..(L - 1) /\ k + 1 \in 1..L
      BY <1>d, <1>i, <1>n, <2>2
    <3>2. \/ color[w] = 2
          \/ <<stack[k].dev, w>> \in back
          \/ stack[k+1].dev = w
      BY <1>n, <3>1 DEF IInv, StackCovered
    <3>3. stack'[k+1].dev = stack[k+1].dev
      BY <1>j, <1>n, <3>1
    <3> QED  BY <1>d, <1>n, <2>1, <2>2, <3>2, <3>3
  <2>3. CASE k = L
    <3>1. stack'[k].dev = v /\ w \in Adj(v) /\ w <= u
      BY <1>d, <1>i, <1>n, <2>3
    <3>2. CASE w = u
      BY <1>n, <2>3, <3>1, <3>2
    <3>3. CASE w <= Top.last
      <4>1. color[w] = 2 \/ <<v, w>> \in back
        <5>1. L \in 1..Len(stack) /\ w \in Adj(stack[L].dev) /\ w <= stack[L].last /\ ~(L < Len(stack))
          BY <1>d, <3>1, <3>3
        <5>2. stack[L].dev = v
          BY <1>d
        <5> QED  BY <5>1, <5>2 DEF IInv, StackCovered
      <4> QED  BY <1>n, <2>1, <3>1, <4>1
    <3> QED  BY <1>g, <3>1, <3>2, <3>3
  <2> QED  BY <1>d, <2>2, <2>3
<1> HIDE DEF moved
<1>1. CASE color[u] = 0
  <2>1. /\ stack' = Append(moved, Entry(u)) /\ color' = [color EXCEPT ![u] = 1]
        /\ back' = back
    BY <1>1, <1>e DEF Unvisited, OnStack, moved
  <2>2. Entry(u) \in Entries /\ Entry(u).dev = u /\ Entry(u).last = 0
    BY <1>f DEF Entry, Entries
  <2>3. /\ Len(stack') = L + 1 /\ stack'[L+1] = Entry(u)
        /\ \A k \in 1..L : stack'[k] = moved[k]
        /\ stack' \in Seq(Entries)
    BY <1>d, <1>i, <2>1, <2>2
  <2>4. \A k \in 1..L : stack'[k].dev = stack[k].dev
    BY <1>j, <2>3
  <2>5. \A w \in 1..N : color'[w] = IF w = u THEN 1 ELSE color[w]
    BY <1>a, <1>f, <2>1 DEF TypeOK
  <2>6. TypeOK'
    BY <1>a, <1>f, <1>l, <2>1, <2>3, SMTT(30) DEF TypeOK, Entries
  <2>7. StackIsGray'
    <3>1. ASSUME NEW w \in 1..N
          PROVE  color'[w] = 1 <=> \E k \in 1..(L + 1) : stack'[k].dev = w
      <4>1. CASE w = u
        BY <1>d, <2>2, <2>3, <2>5, <4>1
      <4>2. CASE w # u
        <5>1. color'[w] = 1 <=> \E k \in 1..L : stack[k].dev = w
          BY <2>5, <4>2 DEF IInv, StackIsGray
        <5>2. (\E k \in 1..(L + 1) : stack'[k].dev = w) <=> \E k \in 1..L : stack[k].dev = w
          <6>1. ASSUME NEW k \in 1..(L + 1), stack'[k].dev = w
                PROVE  \E l \in 1..L : stack[l].dev = w
            <7>1. k # L + 1
              BY <2>2, <2>3, <4>2, <6>1
            <7>2. k \in 1..L
              BY <1>d, <7>1
            <7> QED  BY <2>4, <6>1, <7>2
          <6>2. ASSUME NEW k \in 1..L, stack[k].dev = w
                PROVE  \E l \in 1..(L + 1) : stack'[l].dev = w
            BY <1>d, <2>4, <6>2
          <6> QED  BY <6>1, <6>2
        <5> QED  BY <5>1, <5>2
      <4> QED  BY <4>1, <4>2
    <3>2. ASSUME NEW k \in 1..(L + 1), NEW l \in 1..(L + 1), stack'[k].dev = stack'[l].dev
          PROVE  k = l
      <4>1. \A i \in 1..L : stack'[i].dev # u
        BY <1>1, <1>k, <2>4
      <4>2. CASE k \in 1..L /\ l \in 1..L
        BY <2>4, <3>2, <4>2 DEF IInv, StackIsGray
      <4> QED  BY <1>d, <2>2, <2>3, <3>2, <4>1, <4>2
    <3> QED  BY <2>3, <3>1, <3>2 DEF StackIsGray
  <2>8. RevIsDone'
    BY <1>1, <1>l, <2>5 DEF IInv, RevIsDone
  <2>9. RootsVisited'
    BY <1>l, <2>5 DEF IInv, RootsVisited
  <2>10. DoneCovered'
    BY <1>b, <1>l, <2>1, <2>5 DEF IInv, DoneCovered, Before
  <2>11. StackCovered'
    <3> SUFFICES ASSUME NEW k \in 1..(L + 1), NEW w \in Adj(stack'[k].dev), w <= stack'[k].last
                 PROVE  \/ color'[w] = 2
                        \/ <<stack'[k].dev, w>> \in back'
                        \/ k < L + 1 /\ stack'[k+1].dev = w
      BY <1>b, <2>3 DEF StackCovered
    <3>1. CASE k \in 1..L
      <4>1. \A x \in 1..N : color[x] = 2 => color'[x] = 2
        BY <1>1, <2>5
      <4> QED  BY <1>d, <1>n, <2>1, <2>2, <2>3, <3>1, <4>1
    <3>2. CASE k = L + 1
      <4>1. w \in 1..N
        BY <1>f, <2>2, <2>3, <3>2, AdjFeeds
      <4> QED  BY <2>2, <2>3, <3>2, <4>1
    <3> QED  BY <1>d, <3>1, <3>2
  <2>12. StackIsPath'
    <3> SUFFICES ASSUME NEW k \in 1..(L + 1), NEW l \in 1..(L + 1), k <= l
                 PROVE  Reaches(stack'[k].dev, stack'[l].dev)
      BY <1>b, <2>3 DEF StackIsPath
    <3>1. CASE l \in 1..L
      <4>1. k \in 1..L
        BY <3>1
      <4> QED  BY <2>4, <3>1, <4>1 DEF IInv, StackIsPath
    <3>2. CASE l = L + 1 /\ k \in 1..L
      <4>1. Reaches(stack[k].dev, v)
        BY <1>d, <3>2 DEF IInv, StackIsPath
      <4> QED  BY <1>d, <1>f, <1>k, <2>2, <2>3, <2>4, <3>2, <4>1, ReachesNext
    <3>3. CASE l = L + 1 /\ k = L + 1
      BY <1>f, <2>2, <2>3, <3>3, ReachesSelf
    <3> QED  BY <1>d, <3>1, <3>2, <3>3
  <2>13. BackIsLoop'
    <3> SUFFICES ASSUME NEW e \in back
                 PROVE  /\ Reaches(e[2], e[1])
                        /\ \/ Under(e[2], e[1])'
                           \/ color'[e[1]] = 2 /\ color'[e[2]] = 1
                           \/ Before(e[1], e[2])
      BY <1>b, <1>l, <2>1 DEF BackIsLoop, Before
    <3>1. e[1] \in 1..N /\ e[2] \in 1..N
      BY <1>a DEF TypeOK
    <3>2. Under(e[2], e[1]) => Under(e[2], e[1])'
      BY <1>d, <2>3, <2>4 DEF Under
    <3>3. color[e[1]] = 2 /\ color[e[2]] = 1 => color'[e[1]] = 2 /\ color'[e[2]] = 1
      BY <1>1, <2>5, <3>1
    <3> QED  BY <3>2, <3>3 DEF IInv, BackIsLoop
  <2> QED
    BY <1>c, <2>6, <2>7, <2>8, <2>9, <2>10, <2>11, <2>12, <2>13
    DEF IInv, RankedIsReversed
<1>2. CASE color[u] # 0
  <2>1. stack' = moved /\ color' = color
    BY <1>2, <1>e DEF Unvisited, moved
  <2>2. back \subseteq back' /\ back' \subseteq back \cup {<<v, u>>}
    BY <1>e
  <2>3. <<v, u>> \in back' => <<v, u>> \in back \/ color[u] = 1
    BY <1>e DEF OnStack
  <2>4. color[u] = 2 \/ <<v, u>> \in back'
    BY <1>2, <1>e, <1>m DEF OnStack
  <2>5. TypeOK'
    <3>1. back' \subseteq (1..N) \X (1..N)
      BY <1>a, <1>d, <1>f, <2>2 DEF TypeOK
    <3> QED  BY <1>a, <1>i, <1>l, <2>1, <3>1 DEF TypeOK, Entries
  <2>6. StackIsGray'
    <3>1. Len(stack') = L /\ \A k \in 1..L : stack'[k].dev = stack[k].dev
      BY <1>i, <1>j, <2>1
    <3>2. \A w \in 1..N : color'[w] = 1 <=> \E k \in 1..L : stack'[k].dev = w
      BY <2>1, <3>1 DEF IInv, StackIsGray
    <3>3. \A k, l \in 1..L : stack'[k].dev = stack'[l].dev => k = l
      BY <3>1 DEF IInv, StackIsGray
    <3> QED  BY <3>1, <3>2, <3>3 DEF StackIsGray
  <2>7. RevIsDone' /\ RootsVisited'
    BY <1>l, <2>1 DEF IInv, RevIsDone, RootsVisited
  <2>8. DoneCovered'
    BY <1>b, <1>l, <2>1, <2>2 DEF IInv, DoneCovered, Before
  <2>9. StackCovered'
    <3> SUFFICES ASSUME NEW k \in 1..L, NEW w \in Adj(stack'[k].dev), w <= stack'[k].last
                 PROVE  \/ color'[w] = 2
                        \/ <<stack'[k].dev, w>> \in back'
                        \/ k < L /\ stack'[k+1].dev = w
      BY <1>b, <1>i, <2>1 DEF StackCovered
    <3> QED  BY <1>d, <1>i, <1>n, <2>1, <2>2, <2>4
  <2>10. StackIsPath'
    BY <1>b, <1>i, <1>j, <2>1 DEF IInv, StackIsPath
  <2>11. BackIsLoop'
    <3> SUFFICES ASSUME NEW e \in back'
                 PROVE  /\ Reaches(e[2], e[1])
                        /\ \/ Under(e[2], e[1])'
                           \/ color[e[1]] = 2 /\ color[e[2]] = 1
                           \/ Before(e[1], e[2])
      BY <1>b, <1>l, <2>1 DEF BackIsLoop, Before
    <3>1. CASE e \in back
      <4>1. Under(e[2], e[1]) => Under(e[2], e[1])'
        BY <1>d, <1>i, <1>j, <2>1 DEF Under
      <4> QED  BY <3>1, <4>1 DEF IInv, BackIsLoop
    <3>2. CASE e \notin back
      <4>1. e = <<v, u>> /\ color[u] = 1
        BY <2>2, <2>3, <3>2
      <4>2. PICK k \in 1..L : stack[k].dev = u
        BY <1>f, <4>1 DEF IInv, StackIsGray
      <4>3. k < L
        BY <1>d, <1>f, <4>2
      <4>4. Reaches(u, v)
        BY <1>d, <4>2 DEF IInv, StackIsPath
      <4>5. /\ k \in 1..Len(stack') /\ L \in 1..Len(stack') /\ k < L
            /\ stack'[k].dev = u /\ stack'[L].dev = v
        BY <1>d, <1>i, <1>j, <2>1, <4>2, <4>3
      <4>6. e[1] = v /\ e[2] = u
        BY <4>1
      <4>7. Under(e[2], e[1])'
        BY <4>5, <4>6 DEF Under
      <4> QED  BY <4>4, <4>6, <4>7
    <3> QED  BY <3>1, <3>2
  <2> QED
    BY <1>c, <2>5, <2>6, <2>7, <2>8, <2>9, <2>10, <2>11 DEF IInv, RankedIsReversed
<1> QED  BY <1>1, <1>2

\* A device is finished when each of its edges has been followed.
LEMMA FinishIInv == IInv /\ Finish => IInv'
<1> SUFFICES ASSUME IInv, Finish PROVE IInv'
  OBVIOUS
<1> USE TopologyAssumption
<1>a. TypeOK /\ stack # <<>>
  BY DEF IInv, Finish
<1>b. /\ \A v : Adj(v)' = Adj(v)
      /\ \A i, j : Reaches(i, j)' = Reaches(i, j)
  BY SameCircuit DEF Finish
<1>c. ~Built /\ ~Built'
  BY <1>a DEF IInv, RankedIsReversed, Finish, Built
<1> DEFINE L == Len(stack)
           M == Len(rev)
<1>0. PICK v \in 1..N : v = Top.dev
  BY <1>a, StackTop
<1>d. /\ L \in Nat \ {0} /\ Top = stack[L] /\ stack[L].dev = v
      /\ Top.last \in 0..N /\ stack[L].last = Top.last
  BY <1>0, <1>a, StackTop
<1>r. /\ stack' \in Seq(Entries) /\ Len(stack') = L - 1
      /\ \A k \in 1..(L - 1) : stack'[k] = stack[k]
  BY <1>a, StackTop DEF Finish
<1>e. /\ Ahead(Top) = {} /\ color' = [color EXCEPT ![v] = 2]
      /\ rev' = Append(rev, v)
      /\ UNCHANGED <<reads, start, back, order, backEdges>>
  BY <1>0 DEF Finish
<1>f. /\ M \in Nat /\ Len(rev') = M + 1 /\ rev'[M+1] = v /\ rev' \in Seq(1..N)
      /\ \A p \in 1..M : rev'[p] = rev[p]
  BY <1>a, <1>d, <1>e DEF TypeOK
<1>g. \A w \in 1..N : color'[w] = IF w = v THEN 2 ELSE color[w]
  BY <1>a, <1>d, <1>e DEF TypeOK
<1>h. color[v] = 1
  BY <1>d DEF IInv, StackIsGray
<1>i. \A k \in 1..(L - 1) : stack[k].dev \in 1..N /\ stack[k].dev # v
  <2> SUFFICES ASSUME NEW k \in 1..(L - 1) PROVE stack[k].dev \in 1..N /\ stack[k].dev # v
    OBVIOUS
  <2>1. k \in 1..L /\ L \in 1..L /\ k # L
    BY <1>d
  <2>2. stack[k] \in Entries
    BY <1>a, <2>1, ElementOfSeq DEF TypeOK, Entries
  <2> QED  BY <1>d, <2>1, <2>2 DEF IInv, StackIsGray, Entries
<1>j. \A x, y : Before(x, y) => Before(x, y)'
  BY <1>f DEF Before
<1>k. \A x \in 1..N : color[x] = 2 => Before(x, v)'
  <2> SUFFICES ASSUME NEW x \in 1..N, color[x] = 2 PROVE Before(x, v)'
    OBVIOUS
  <2>1. PICK p \in 1..M : rev[p] = x
    BY DEF IInv, RevIsDone
  <2>2. /\ p \in 1..Len(rev') /\ M + 1 \in 1..Len(rev') /\ p < M + 1
        /\ rev'[p] = x /\ rev'[M+1] = v
    BY <1>f, <2>1
  <2> QED  BY <2>2 DEF Before
<1>1. TypeOK'
  <2>1. color' \in [1..N -> 0..2]
    BY <1>a, <1>d, <1>e DEF TypeOK
  <2> QED  BY <1>a, <1>e, <1>f, <1>r, <2>1 DEF TypeOK, Entries
<1>2. StackIsGray'
  <2>1. ASSUME NEW w \in 1..N
        PROVE  color'[w] = 1 <=> \E k \in 1..(L - 1) : stack[k].dev = w
    <3>1. CASE w = v
      BY <1>g, <1>i, <3>1
    <3>2. CASE w # v
      <4>1. color'[w] = 1 <=> \E k \in 1..L : stack[k].dev = w
        BY <1>g, <3>2 DEF IInv, StackIsGray
      <4>2. ASSUME NEW k \in 1..L, stack[k].dev = w PROVE k \in 1..(L - 1)
        BY <1>d, <3>2, <4>2
      <4>3. \A k \in 1..(L - 1) : k \in 1..L
        BY <1>d
      <4> QED  BY <4>1, <4>2, <4>3
    <3> QED  BY <3>1, <3>2
  <2>2. \A k, l \in 1..(L - 1) : stack[k].dev = stack[l].dev => k = l
    BY <1>d DEF IInv, StackIsGray
  <2> QED  BY <1>r, <2>1, <2>2 DEF StackIsGray
<1>3. RevIsDone'
  <2>1. ASSUME NEW w \in 1..N
        PROVE  color'[w] = 2 <=> \E p \in 1..(M + 1) : rev'[p] = w
    <3>1. CASE w = v
      BY <1>f, <1>g, <3>1
    <3>2. CASE w # v
      <4>1. color'[w] = 2 <=> \E p \in 1..M : rev[p] = w
        BY <1>g, <3>2 DEF IInv, RevIsDone
      <4>2. ASSUME NEW p \in 1..(M + 1), rev'[p] = w PROVE p \in 1..M
        BY <1>f, <3>2, <4>2
      <4>3. \A p \in 1..M : p \in 1..(M + 1) /\ rev'[p] = rev[p]
        BY <1>f
      <4> QED  BY <4>1, <4>2, <4>3
    <3> QED  BY <3>1, <3>2
  <2>2. ASSUME NEW p \in 1..(M + 1), NEW q \in 1..(M + 1), rev'[p] = rev'[q]
        PROVE  p = q
    <3>1. ASSUME NEW r \in 1..M, rev'[r] = v PROVE FALSE
      <4>1. rev[r] = v
        BY <1>f, <3>1
      <4>2. color[v] = 2
        BY <1>0, <4>1 DEF IInv, RevIsDone
      <4> QED  BY <1>h, <4>2
    <3>2. CASE p \in 1..M /\ q \in 1..M
      BY <1>f, <2>2, <3>2 DEF IInv, RevIsDone
    <3> QED  BY <1>f, <2>2, <3>1, <3>2
  <2> QED  BY <1>f, <2>1, <2>2 DEF RevIsDone
<1>4. RootsVisited'
  BY <1>e, <1>g DEF IInv, RootsVisited
<1>5. DoneCovered'
  <2> SUFFICES ASSUME NEW w \in 1..N, color'[w] = 2, NEW u \in Adj(w)
               PROVE  Before(u, w)' \/ <<w, u>> \in back
    BY <1>b, <1>e DEF DoneCovered
  <2>1. CASE w = v
    <3>1. u \in 1..N /\ u <= Top.last
      <4>1. u \in 1..N
        BY AdjFeeds
      <4>2. ~(u > Top.last)
        BY <1>0, <1>e, <2>1 DEF Ahead
      <4> QED  BY <1>d, <4>1, <4>2
    <3>2. L \in 1..Len(stack) /\ stack[L].dev = w /\ u <= stack[L].last /\ ~(L < Len(stack))
      BY <1>d, <2>1, <3>1
    <3>3. color[u] = 2 \/ <<w, u>> \in back
      BY <3>2 DEF IInv, StackCovered
    <3> QED  BY <1>k, <2>1, <3>1, <3>3
  <2>2. CASE w # v
    BY <1>g, <1>j, <2>2 DEF IInv, DoneCovered
  <2> QED  BY <2>1, <2>2
<1>6. StackCovered'
  <2> SUFFICES ASSUME NEW k \in 1..(L - 1), NEW u \in Adj(stack[k].dev), u <= stack[k].last
               PROVE  \/ color'[u] = 2
                      \/ <<stack[k].dev, u>> \in back
                      \/ k < L - 1 /\ stack'[k+1].dev = u
    BY <1>b, <1>e, <1>r DEF StackCovered
  <2>1. u \in 1..N
    BY <1>i, AdjFeeds
  <2>2. k \in 1..L
    BY <1>d
  <2>3. \/ color[u] = 2
        \/ <<stack[k].dev, u>> \in back
        \/ k < L /\ stack[k+1].dev = u
    BY <2>2 DEF IInv, StackCovered
  <2>4. CASE k + 1 = L /\ stack[k+1].dev = u
    BY <1>d, <1>g, <2>1, <2>4
  <2>5. CASE k + 1 < L /\ stack[k+1].dev = u
    BY <1>d, <1>r, <2>5
  <2> QED  BY <1>d, <1>g, <2>1, <2>3, <2>4, <2>5
<1>7. StackIsPath'
  <2>1. \A k, l \in 1..(L - 1) : k <= l => Reaches(stack[k].dev, stack[l].dev)
    BY <1>d DEF IInv, StackIsPath
  <2> QED  BY <1>b, <1>r, <2>1 DEF StackIsPath
<1>8. BackIsLoop'
  <2> SUFFICES ASSUME NEW e \in back
               PROVE  /\ Reaches(e[2], e[1])
                      /\ \/ Under(e[2], e[1])'
                         \/ color'[e[1]] = 2 /\ color'[e[2]] = 1
                         \/ Before(e[1], e[2])'
    BY <1>b, <1>e DEF BackIsLoop
  <2>1. e[1] \in 1..N /\ e[2] \in 1..N
    BY <1>a DEF TypeOK
  <2>2. Reaches(e[2], e[1])
    BY DEF IInv, BackIsLoop
  <2>3. CASE Under(e[2], e[1])
    <3>1. PICK k, l \in 1..L : k < l /\ stack[k].dev = e[2] /\ stack[l].dev = e[1]
      BY <2>3 DEF Under
    <3>2. k \in 1..(L - 1)
      BY <1>d, <3>1
    <3>3. color[e[2]] = 1 /\ e[2] # v
      BY <1>i, <2>1, <3>1, <3>2 DEF IInv, StackIsGray
    <3>4. CASE l = L
      BY <1>d, <1>g, <2>1, <2>2, <3>1, <3>3, <3>4
    <3>5. CASE l # L
      <4>1. /\ k \in 1..Len(stack') /\ l \in 1..Len(stack') /\ k < l
            /\ stack'[k].dev = e[2] /\ stack'[l].dev = e[1]
        BY <1>d, <1>r, <3>1, <3>2, <3>5
      <4>2. Under(e[2], e[1])'
        BY <4>1 DEF Under
      <4> QED  BY <2>2, <4>2
    <3> QED  BY <3>4, <3>5
  <2>4. CASE color[e[1]] = 2 /\ color[e[2]] = 1
    <3>1. CASE e[2] = v
      BY <1>k, <2>1, <2>2, <2>4, <3>1
    <3>2. CASE e[2] # v
      BY <1>g, <2>1, <2>2, <2>4, <3>2
    <3> QED  BY <3>1, <3>2
  <2>5. CASE Before(e[1], e[2])
    BY <1>j, <2>2, <2>5
  <2> QED  BY <2>3, <2>4, <2>5 DEF IInv, BackIsLoop
<1> QED
  BY <1>c, <1>1, <1>2, <1>3, <1>4, <1>5, <1>6, <1>7, <1>8 DEF IInv, RankedIsReversed

\* What reversing a sequence does.
LEMMA ReversedProperties ==
  ASSUME NEW S, NEW s \in Seq(S)
  PROVE  /\ Reversed(s) \in Seq(S) /\ Len(Reversed(s)) = Len(s)
         /\ DOMAIN Reversed(s) = 1..Len(s)
         /\ \A p \in 1..Len(s) : Reversed(s)[p] = s[Len(s) + 1 - p]
<1>1. Len(s) \in Nat /\ \A p \in 1..Len(s) : Len(s) + 1 - p \in 1..Len(s)
  OBVIOUS
<1>2. \A p \in 1..Len(s) : s[Len(s) + 1 - p] \in S
  BY <1>1, ElementOfSeq
<1> QED  BY <1>1, <1>2 DEF Reversed

\* Reversing the finished devices gives the order.
LEMMA RankIInv == IInv /\ Rank => IInv'
<1> SUFFICES ASSUME IInv, Rank PROVE IInv'
  OBVIOUS
<1> USE TopologyAssumption
<1>1. /\ UNCHANGED <<reads, start, stack, color, rev, back>>
      /\ stack = <<>> /\ start > N /\ order' = Reversed(rev)
      /\ backEdges' = {<<Place(order', e[1]), Place(order', e[2])>> : e \in back}
  BY DEF Rank, Roots
<1>2. /\ \A v : Adj(v)' = Adj(v)
      /\ \A i, j : Reaches(i, j)' = Reaches(i, j)
  BY <1>1, SameCircuit
<1>3. TypeOK'
  BY <1>1, ReversedProperties DEF IInv, TypeOK
<1>4. StackIsGray' /\ RevIsDone' /\ RootsVisited'
  BY <1>1 DEF IInv, StackIsGray, RevIsDone, RootsVisited
<1>5. DoneCovered' /\ StackCovered'
  BY <1>1, <1>2 DEF IInv, DoneCovered, StackCovered, Before
<1>6. StackIsPath' /\ BackIsLoop'
  BY <1>1, <1>2 DEF IInv, StackIsPath, BackIsLoop, Before, Under
<1>7. RankedIsReversed'
  BY <1>1 DEF RankedIsReversed, Place
<1> QED  BY <1>3, <1>4, <1>5, <1>6, <1>7 DEF IInv

-----------------------------------------------------------------------------
(* The theorems.                                                            *)

\* The invariant holds of every state the search reaches.
THEOREM Invariance == Spec => []IInv
<1>1. IInv /\ [Next]_vars => IInv'
  <2> SUFFICES ASSUME IInv, [Next]_vars PROVE IInv'
    OBVIOUS
  <2>1. CASE UNCHANGED vars
    <3>1. UNCHANGED <<reads, start, stack, color, rev, back, order, backEdges>>
      BY <2>1 DEF vars
    <3>2. /\ \A v : Adj(v)' = Adj(v)
          /\ \A i, j : Reaches(i, j)' = Reaches(i, j)
      BY <3>1, SameCircuit
    <3>3. TypeOK' /\ StackIsGray' /\ RevIsDone' /\ RootsVisited'
      BY <3>1 DEF IInv, TypeOK, StackIsGray, RevIsDone, RootsVisited
    <3>4. DoneCovered' /\ StackCovered'
      BY <3>1, <3>2 DEF IInv, DoneCovered, StackCovered, Before
    <3>5. StackIsPath' /\ BackIsLoop'
      BY <3>1, <3>2 DEF IInv, StackIsPath, BackIsLoop, Before, Under
    <3>6. RankedIsReversed'
      BY <3>1 DEF IInv, RankedIsReversed, Built
    <3> QED  BY <3>3, <3>4, <3>5, <3>6 DEF IInv
  <2> QED
    BY <2>1, RootIInv, FollowIInv, FinishIInv, RankIInv DEF Next
<1> QED  BY <1>1, InitIInv, PTL DEF Spec

\* The state of the search is what it is declared to be.
THEOREM TypeCorrect == Spec => []TypeOK
<1>1. IInv => TypeOK
  BY DEF IInv
<1> QED  BY <1>1, Invariance, PTL

\* Where each device stands once the order is built.
LEMMA Placed ==
  ASSUME IInv, Built
  PROVE  /\ Len(rev) \in Nat /\ DOMAIN order = 1..Len(rev)
         /\ \A v \in 1..N : color[v] = 2
         /\ \A d \in 1..N : \E p \in 1..Len(rev) :
              /\ rev[p] = d /\ Place(order, d) = Len(rev) + 1 - p
              /\ Place(order, d) \in 1..Len(rev) /\ order[Place(order, d)] = d
         /\ \A p, q \in 1..Len(rev) : order[p] = order[q] => p = q
<1> USE TopologyAssumption
<1> DEFINE M == Len(rev)
<1>1. /\ TypeOK /\ stack = <<>> /\ Len(stack) = 0 /\ start > N /\ order = Reversed(rev)
  BY EmptySeq DEF IInv, RankedIsReversed
<1>2. M \in Nat /\ rev \in Seq(1..N) /\ start \in 1..(N + 1) /\ color \in [1..N -> 0..2]
  BY <1>1 DEF TypeOK
<1>3. DOMAIN order = 1..M /\ \A p \in 1..M : order[p] = rev[M + 1 - p]
  BY <1>1, <1>2, ReversedProperties
<1>4. ASSUME NEW v \in 1..N PROVE color[v] = 2
  <2>1. color[v] # 0
    BY <1>1, <1>2 DEF IInv, RootsVisited
  <2>2. color[v] # 1
    BY <1>1 DEF IInv, StackIsGray
  <2> QED  BY <1>2, <2>1, <2>2
<1>5. ASSUME NEW p \in 1..M, NEW q \in 1..M, order[p] = order[q]
      PROVE  p = q
  <2>1. /\ M + 1 - p \in 1..M /\ M + 1 - q \in 1..M
        /\ rev[M + 1 - p] = rev[M + 1 - q]
    BY <1>2, <1>3, <1>5
  <2>2. M + 1 - p = M + 1 - q
    BY <2>1 DEF IInv, RevIsDone
  <2> QED  BY <1>2, <2>2
<1>6. ASSUME NEW d \in 1..N
      PROVE  \E p \in 1..M :
               /\ rev[p] = d /\ Place(order, d) = M + 1 - p
               /\ Place(order, d) \in 1..M /\ order[Place(order, d)] = d
  <2>1. PICK p \in 1..M : rev[p] = d
    BY <1>4 DEF IInv, RevIsDone
  <2>2. M + 1 - p \in 1..M /\ M + 1 - (M + 1 - p) = p
    BY <1>2
  <2>3. order[M + 1 - p] = d
    BY <1>3, <2>1, <2>2
  <2>4. Place(order, d) \in 1..M /\ order[Place(order, d)] = d
    BY <1>3, <2>2, <2>3 DEF Place
  <2>5. Place(order, d) = M + 1 - p
    BY <1>5, <2>2, <2>3, <2>4
  <2> QED  BY <2>1, <2>4, <2>5
<1> QED  BY <1>2, <1>3, <1>4, <1>5, <1>6

\* Every device is visited in a pass, once: for any circuit, the order holds
\* each device at one place.
THEOREM EveryDeviceRankedOnce == Spec => []EveryDeviceRanked
<1>1. IInv => EveryDeviceRanked
  <2> SUFFICES ASSUME IInv, Built, NEW d \in 1..N
               PROVE  \E p \in DOMAIN order : \A q \in DOMAIN order : order[q] = d <=> q = p
    BY DEF EveryDeviceRanked
  <2>1. /\ Place(order, d) \in DOMAIN order
        /\ \A q \in DOMAIN order : order[q] = d <=> q = Place(order, d)
    BY Placed
  <2> QED  BY <2>1
<1> QED  BY <1>1, Invariance, PTL

\* A device is finished before another: it stands after it in the order.
LEMMA BeforePlaced ==
  ASSUME IInv, Built, NEW u \in 1..N, NEW v \in 1..N, Before(u, v)
  PROVE  Place(order, v) < Place(order, u)
<1> DEFINE M == Len(rev)
<1>1. PICK p, q \in 1..M : p < q /\ rev[p] = u /\ rev[q] = v
  BY DEF Before
<1>2. PICK i \in 1..M : rev[i] = u /\ Place(order, u) = M + 1 - i
  BY Placed
<1>3. PICK j \in 1..M : rev[j] = v /\ Place(order, v) = M + 1 - j
  BY Placed
<1>4. i = p /\ j = q
  BY <1>1, <1>2, <1>3 DEF IInv, RevIsDone
<1>5. M \in Nat
  BY Placed
<1> QED  BY <1>1, <1>2, <1>3, <1>4, <1>5

\* For every circuit whose nets have one driver each, a pass misses no signal:
\* a device is ranked after all that feed it, or restarts the pass for them.
THEOREM NoSignalMissedBySingleDrivers ==
  ASSUME \A i, j \in 1..N : Drives[i] = Drives[j] => i = j
  PROVE  Spec => []NoSignalMissed
<1>1. IInv => NoSignalMissed
  <2> SUFFICES ASSUME IInv, Built, NEW e \in Feeds
               PROVE  \/ Place(order, e[1]) < Place(order, e[2])
                      \/ <<Place(order, e[1]), Place(order, e[2])>> \in backEdges
    BY DEF NoSignalMissed
  <2>1. e[1] \in 1..N /\ e[2] \in 1..N /\ e = <<e[1], e[2]>>
    BY DEF Feeds
  <2>2. e[2] \in Adj(e[1])
    BY FeedsAdj DEF IInv
  <2>3. Before(e[2], e[1]) \/ <<e[1], e[2]>> \in back
    BY <2>1, <2>2, Placed DEF IInv, DoneCovered
  <2>4. CASE Before(e[2], e[1])
    BY <2>1, <2>4, BeforePlaced
  <2>5. CASE <<e[1], e[2]>> \in back
    BY <2>1, <2>5 DEF IInv, RankedIsReversed
  <2> QED  BY <2>3, <2>4, <2>5
<1> QED  BY <1>1, Invariance, PTL

\* For any circuit a restart goes back in the order, to a device whose signal
\* comes round to the one that changed.
THEOREM RestartsCloseLoops == Spec => []RestartsOnlyLoops
<1>1. IInv => RestartsOnlyLoops
  <2> SUFFICES ASSUME IInv, Built, NEW b \in backEdges
               PROVE  b[2] < b[1] /\ Reaches(order[b[2]], order[b[1]])
    BY DEF RestartsOnlyLoops
  <2>1. PICK e \in back : b = <<Place(order, e[1]), Place(order, e[2])>>
    BY DEF IInv, RankedIsReversed
  <2>2. e[1] \in 1..N /\ e[2] \in 1..N
    BY DEF IInv, TypeOK
  <2>3. order[b[1]] = e[1] /\ order[b[2]] = e[2]
    BY <2>1, <2>2, Placed
  <2>4. color[e[2]] = 2
    BY <2>2, Placed
  <2>5. ~Under(e[2], e[1])
    BY EmptySeq DEF IInv, RankedIsReversed, Under
  <2>6. Reaches(e[2], e[1]) /\ Before(e[1], e[2])
    BY <2>4, <2>5 DEF IInv, BackIsLoop
  <2>7. Place(order, e[2]) < Place(order, e[1])
    BY <2>2, <2>6, BeforePlaced
  <2> QED  BY <2>1, <2>3, <2>6, <2>7
<1> QED  BY <1>1, Invariance, PTL

-----------------------------------------------------------------------------
(* The search ends: what it has left to do runs out.                        *)

\* The roots to try, the devices to finish and the edges to follow.
ToRoot   == start..N
ToFinish == {v \in 1..N : color[v] # 2}
ToFollow == {e \in (1..N) \X (1..N) :
               /\ e[2] \in Adj(e[1])
               /\ color[e[1]] # 2
               /\ \A k \in 1..Len(stack) : stack[k].dev = e[1] => stack[k].last < e[2]}

\* A turn of a loop gives the search nothing new to do, and does some of it.
SearchGetsOn ==
  /\ ~Built
  /\ ToRoot' \subseteq ToRoot /\ ToFinish' \subseteq ToFinish /\ ToFollow' \subseteq ToFollow
  /\ \/ Built'
     \/ ToRoot' # ToRoot
     \/ ToFinish' # ToFinish
     \/ ToFollow' # ToFollow

\* A new root is one less to try; its edges were all still to follow.
LEMMA RootGetsOn == IInv /\ Root => SearchGetsOn
<1> SUFFICES ASSUME IInv, Root PROVE SearchGetsOn
  OBVIOUS
<1> USE TopologyAssumption
<1>1. \A v : Adj(v)' = Adj(v)
  BY SameCircuit DEF Root
<1>2. start \in 1..N /\ start' = start + 1 /\ stack = <<>> /\ Len(stack) = 0
  BY EmptySeq DEF IInv, TypeOK, Root, Roots
<1>3. ~Built
  BY <1>2 DEF IInv, RankedIsReversed
<1>4. ToRoot' \subseteq ToRoot /\ ToRoot' # ToRoot
  <2>1. start \in ToRoot /\ start \notin ToRoot'
    BY <1>2 DEF ToRoot
  <2> QED BY <1>2, <2>1 DEF ToRoot
<1>5. \A v \in 1..N : color'[v] = 2 <=> color[v] = 2
  BY <1>2 DEF Root, Unvisited, IInv, TypeOK
<1>6. ToFinish' \subseteq ToFinish
  BY <1>5 DEF ToFinish
<1>7. ToFollow' \subseteq ToFollow
  <2> SUFFICES ASSUME NEW e \in ToFollow' PROVE e \in ToFollow
    OBVIOUS
  <2>1. e \in (1..N) \X (1..N) /\ e[2] \in Adj(e[1]) /\ color[e[1]] # 2
    BY <1>1, <1>5 DEF ToFollow
  <2> QED BY <1>2, <2>1 DEF ToFollow
<1> QED BY <1>3, <1>4, <1>6, <1>7 DEF SearchGetsOn

\* An edge that is followed is behind the place its device has reached.
LEMMA FollowGetsOn == IInv /\ Follow => SearchGetsOn
<1> SUFFICES ASSUME IInv, Follow PROVE SearchGetsOn
  OBVIOUS
<1> USE TopologyAssumption
<1> DEFINE L == Len(stack)
           v == Top.dev
<1>1. TypeOK /\ stack # <<>>
  BY DEF IInv, Follow
<1>2. \A w : Adj(w)' = Adj(w)
  BY SameCircuit DEF Follow
<1>3. ~Built
  BY <1>1 DEF IInv, RankedIsReversed
<1>4. /\ L \in Nat \ {0} /\ Top = stack[L] /\ v \in 1..N /\ Top.last \in 0..N /\ Top \in Entries
      /\ Rest \in Seq(Entries) /\ Len(Rest) = L - 1
      /\ \A k \in 1..(L - 1) : Rest[k] = stack[k]
  BY <1>1, StackTop
<1>5. PICK u \in Ahead(Top) :
        /\ stack' = IF Unvisited(color[u])
                    THEN Append(Append(Rest, Moved(Top, u)), Entry(u))
                    ELSE Append(Rest, Moved(Top, u))
        /\ color' = IF Unvisited(color[u]) THEN [color EXCEPT ![u] = 1] ELSE color
  BY DEF Follow
<1>6. u \in Adj(v) /\ u > Top.last /\ u \in 1..N /\ u # v
  BY <1>4, AdjFeeds DEF Ahead
<1>7. Moved(Top, u) \in Entries /\ Moved(Top, u).dev = v /\ Moved(Top, u).last = u
  BY <1>4, <1>6 DEF Moved, Entries
<1> DEFINE moved == Append(Rest, Moved(Top, u))
<1>8. /\ moved \in Seq(Entries) /\ Len(moved) = L
      /\ \A k \in 1..(L - 1) : moved[k] = stack[k]
      /\ moved[L].dev = v /\ moved[L].last = u
  BY <1>4, <1>7
<1>9. Entry(u) \in Entries
  BY <1>6 DEF Entry, Entries
<1>10. L <= Len(stack') /\ Len(stack') \in Nat /\ \A k \in 1..L : stack'[k] = moved[k]
  <2>1. stack' = moved \/ stack' = Append(moved, Entry(u))
    BY <1>5
  <2> HIDE DEF moved
  <2> QED BY <1>4, <1>8, <1>9, <2>1
<1> HIDE DEF moved
<1>11. \A w \in 1..N : color'[w] = 2 <=> color[w] = 2
  BY <1>1, <1>5, <1>6 DEF Unvisited, TypeOK
<1>12. ToRoot' = ToRoot /\ ToFinish' = ToFinish
  BY <1>11 DEF Follow, ToRoot, ToFinish
<1>13. ToFollow' \subseteq ToFollow
  <2> SUFFICES ASSUME NEW e \in ToFollow', NEW k \in 1..L, stack[k].dev = e[1]
               PROVE  /\ e \in (1..N) \X (1..N) /\ e[2] \in Adj(e[1]) /\ color[e[1]] # 2
                      /\ stack[k].last < e[2]
    <3>1. \A e \in ToFollow' :
            e \in (1..N) \X (1..N) /\ e[2] \in Adj(e[1]) /\ color[e[1]] # 2
      BY <1>2, <1>11 DEF ToFollow
    <3> QED BY <3>1 DEF ToFollow
  <2>1. /\ e \in (1..N) \X (1..N) /\ e[2] \in Adj(e[1]) /\ color[e[1]] # 2
        /\ \A j \in 1..Len(stack') : stack'[j].dev = e[1] => stack'[j].last < e[2]
    BY <1>2, <1>11 DEF ToFollow
  <2>2. e[2] \in 1..N /\ k \in 1..Len(stack')
    BY <1>4, <1>10, <2>1
  <2>3. CASE k = L
    <3>1. stack'[k].dev = v /\ stack'[k].last = u /\ v = e[1]
      BY <1>4, <1>8, <1>10, <2>3
    <3> QED BY <1>4, <1>6, <2>1, <2>2, <2>3, <3>1
  <2>4. CASE k # L
    <3>1. stack'[k] = stack[k]
      BY <1>4, <1>8, <1>10, <2>4
    <3> QED BY <2>1, <2>2, <3>1
  <2> QED BY <2>1, <2>3, <2>4
<1>14. ToFollow' # ToFollow
  <2> PICK e : e = <<v, u>>
    OBVIOUS
  <2>1. e \in (1..N) \X (1..N) /\ e[1] = v /\ e[2] = u
    BY <1>4, <1>6
  <2>2. color[v] = 1
    BY <1>4 DEF IInv, StackIsGray
  <2>3. \A k \in 1..Len(stack) : stack[k].dev = v => stack[k].last < u
    <3>1. \A k \in 1..Len(stack) : stack[k].dev = v => k = L
      BY <1>4 DEF IInv, StackIsGray
    <3> QED BY <1>4, <1>6, <3>1
  <2>4. e \in ToFollow
    BY <1>6, <2>1, <2>2, <2>3 DEF ToFollow
  <2>5. L \in 1..Len(stack') /\ stack'[L].dev = v /\ stack'[L].last = u
    BY <1>4, <1>8, <1>10
  <2>6. e \notin ToFollow'
    BY <1>6, <2>1, <2>5 DEF ToFollow
  <2> QED BY <2>4, <2>6
<1> QED BY <1>3, <1>12, <1>13, <1>14 DEF SearchGetsOn

\* A finished device is one less to finish, and the others keep their place.
LEMMA FinishGetsOn == IInv /\ Finish => SearchGetsOn
<1> SUFFICES ASSUME IInv, Finish PROVE SearchGetsOn
  OBVIOUS
<1> USE TopologyAssumption
<1> DEFINE L == Len(stack)
           v == Top.dev
<1>1. TypeOK /\ stack # <<>>
  BY DEF IInv, Finish
<1>2. \A w : Adj(w)' = Adj(w)
  BY SameCircuit DEF Finish
<1>3. ~Built
  BY <1>1 DEF IInv, RankedIsReversed
<1>4. /\ L \in Nat \ {0} /\ Top = stack[L] /\ v \in 1..N
      /\ Len(Rest) = L - 1 /\ \A k \in 1..(L - 1) : Rest[k] = stack[k]
  BY <1>1, StackTop
<1>5. stack' = Rest /\ start' = start /\ \A w \in 1..N : color'[w] = IF w = v THEN 2 ELSE color[w]
  BY <1>1, <1>4 DEF Finish, TypeOK
<1>6. ToRoot' = ToRoot
  BY <1>5 DEF ToRoot
<1>7. ToFinish' \subseteq ToFinish /\ ToFinish' # ToFinish
  <2>1. color[v] = 1
    BY <1>4 DEF IInv, StackIsGray
  <2>2. v \in ToFinish /\ v \notin ToFinish'
    BY <1>4, <1>5, <2>1 DEF ToFinish
  <2> QED BY <1>5, <2>2 DEF ToFinish
<1>8. ToFollow' \subseteq ToFollow
  <2> SUFFICES ASSUME NEW e \in ToFollow' PROVE e \in ToFollow
    OBVIOUS
  <2>1. /\ e \in (1..N) \X (1..N) /\ e[2] \in Adj(e[1]) /\ color'[e[1]] # 2
        /\ \A j \in 1..Len(stack') : stack'[j].dev = e[1] => stack'[j].last < e[2]
    BY <1>2 DEF ToFollow
  <2>2. e[1] \in 1..N /\ e[1] # v /\ color[e[1]] # 2
    BY <1>5, <2>1
  <2>3. ASSUME NEW k \in 1..L, stack[k].dev = e[1] PROVE stack[k].last < e[2]
    <3>1. k # L
      BY <1>4, <2>2, <2>3
    <3>2. k \in 1..Len(stack') /\ stack'[k] = stack[k]
      BY <1>4, <1>5, <3>1
    <3> QED BY <2>1, <2>3, <3>2
  <2> QED BY <2>1, <2>2, <2>3 DEF ToFollow
<1> QED BY <1>3, <1>6, <1>7, <1>8 DEF SearchGetsOn

\* The order is not empty once there is a device, so ranking happens once.
LEMMA RankGetsOn == IInv /\ Rank => SearchGetsOn
<1> SUFFICES ASSUME IInv, Rank PROVE SearchGetsOn
  OBVIOUS
<1> USE TopologyAssumption
<1>1. /\ UNCHANGED <<reads, start, stack, color>>
      /\ stack = <<>> /\ start > N /\ N > 0 /\ order = <<>> /\ order' = Reversed(rev)
  BY DEF Rank, Roots
<1>2. Len(rev) \in Nat \ {0}
  <2>1. 1 \in 1..N /\ N \in Nat /\ start \in 1..(N + 1)
    BY <1>1 DEF IInv, TypeOK
  <2>2. color[1] # 0
    BY <1>1, <2>1 DEF IInv, RootsVisited
  <2>3. color[1] # 1
    BY <1>1, <2>1, EmptySeq DEF IInv, StackIsGray
  <2>4. color[1] = 2
    BY <2>1, <2>2, <2>3 DEF IInv, TypeOK
  <2>5. PICK p \in 1..Len(rev) : rev[p] = 1
    BY <2>1, <2>4 DEF IInv, RevIsDone
  <2> QED BY <2>5 DEF IInv, TypeOK
<1>3. Built'
  <2>1. Len(order') = Len(rev)
    BY <1>1, ReversedProperties DEF IInv, TypeOK
  <2> QED BY <1>2, <2>1, EmptySeq DEF Built
<1>4. \A v : Adj(v)' = Adj(v)
  BY <1>1, SameCircuit
<1>5. ToRoot' = ToRoot /\ ToFinish' = ToFinish /\ ToFollow' = ToFollow
  BY <1>1, <1>4 DEF ToRoot, ToFinish, ToFollow
<1> QED BY <1>1, <1>3, <1>5 DEF SearchGetsOn, Built

\* There is only so much to do.
LEMMA WorkIsFinite == TypeOK => IsFiniteSet(ToRoot) /\ IsFiniteSet(ToFinish) /\ IsFiniteSet(ToFollow)
<1> SUFFICES ASSUME TypeOK
             PROVE  IsFiniteSet(ToRoot) /\ IsFiniteSet(ToFinish) /\ IsFiniteSet(ToFollow)
  OBVIOUS
<1>1. IsFiniteSet(1..N) /\ start \in Int /\ N \in Int
  BY TopologyAssumption, FS_Interval DEF TypeOK
<1>2. IsFiniteSet(ToRoot)
  BY <1>1, FS_Interval DEF ToRoot
<1>3. IsFiniteSet((1..N) \X (1..N))
  BY <1>1, FS_Product
<1>4. ToFinish \subseteq 1..N /\ ToFollow \subseteq (1..N) \X (1..N)
  BY DEF ToFinish, ToFollow
<1> QED BY <1>1, <1>2, <1>3, <1>4, FS_Subset

\* The search cannot go on for ever, whatever the circuit: the roots to try, the
\* devices to finish and the edges to follow are finite sets to which no turn of
\* its loops adds, and every turn takes from one of them, or is the last.
THEOREM SearchRunsOut ==
  Spec => /\ [](IsFiniteSet(ToRoot) /\ IsFiniteSet(ToFinish) /\ IsFiniteSet(ToFollow))
          /\ [][SearchGetsOn]_vars
<1>1. IInv => IsFiniteSet(ToRoot) /\ IsFiniteSet(ToFinish) /\ IsFiniteSet(ToFollow)
  BY WorkIsFinite DEF IInv
<1>2. IInv /\ [Next]_vars => [SearchGetsOn]_vars
  BY RootGetsOn, FollowGetsOn, FinishGetsOn, RankGetsOn DEF Next
<1> QED BY <1>1, <1>2, Invariance, PTL DEF Spec
=============================================================================
