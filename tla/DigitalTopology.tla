---------------------------- MODULE DigitalTopology ----------------------------
(***************************************************************************)
(* DigitalTopology::build (digital/topology.rs): a depth-first search over  *)
(* the devices that yields the order the ranked evaluator visits them in    *)
(* and the back edges it restarts on.  One action per turn of its loops.    *)
(* Devices are 1..N; device i drives the net Drives[i].                     *)
(***************************************************************************)
EXTENDS Integers, Sequences, FiniteSets

CONSTANTS N, Nets, Drives

ASSUME TopologyAssumption == N \in Nat /\ Drives \in [1..N -> Nets]

VARIABLES
  reads,   \* the nets each device reads: fixed, any circuit
  start,   \* the next device to root a search at
  stack,   \* a device and the last one its edges were followed to
  color,   \* 0 unvisited, 1 on the stack, 2 done
  rev,     \* topo_rev, the finishing order
  back,    \* raw_back, back edges between devices
  order, backEdges   \* the topology: devices by position, edges by position

vars == <<reads, start, stack, color, rev, back, order, backEdges>>

\* output_to_dev: a net driven twice belongs to its last driver.
Owns(i, net) == Drives[i] = net /\ \A k \in 1..N : Drives[k] = net => k <= i

\* adj[i]: a device that reads its own net is left out.  The list is ascending,
\* so the place reached in it is the last device an edge was followed to.
Adj(i) == {j \in 1..N : j # i /\ \E net \in reads[j] : Owns(i, net)}

Unvisited(c) == c = 0

\* (mutant: an edge to a finished device counts as a back edge)
NotUnvisited(c) == c # 0

OnStack(c) == c = 1

Top      == stack[Len(stack)]
Rest     == SubSeq(stack, 1, Len(stack) - 1)
Entry(d) == [dev |-> d, last |-> 0]

\* The edges of an entry that are not followed yet.
Ahead(entry) == {u \in Adj(entry.dev) : u > entry.last}

Init ==
  /\ reads \in [1..N -> SUBSET Nets]
  /\ start = 1 /\ stack = <<>>
  /\ color = [v \in 1..N |-> 0]
  /\ rev = <<>> /\ back = {}
  /\ order = <<>> /\ backEdges = {}

\* (mutant: no search is rooted at the last device)
RootsButLast == N - 1

Roots == N

\* for start in 0..n
Root ==
  /\ stack = <<>> /\ start <= Roots
  /\ start' = start + 1
  /\ IF Unvisited(color[start])
     THEN /\ stack' = <<Entry(start)>>
          /\ color' = [color EXCEPT ![start] = 1]
     ELSE UNCHANGED <<stack, color>>
  /\ UNCHANGED <<reads, rev, back, order, backEdges>>

\* (mutant: the place reached in the list is not moved)
Unmoved(entry, u) == entry

\* (mutant: one edge too many is counted)
MovedPast(entry, u) == [entry EXCEPT !.last = u + 1]

Moved(entry, u) == [entry EXCEPT !.last = u]

\* One edge of the device on top of the stack.
Follow ==
  /\ stack # <<>>
  /\ \E u \in Ahead(Top) :
       /\ \A w \in Ahead(Top) : u <= w
       /\ LET moved == Append(Rest, Moved(Top, u))
          IN  stack' = IF Unvisited(color[u]) THEN Append(moved, Entry(u)) ELSE moved
       /\ color' = IF Unvisited(color[u]) THEN [color EXCEPT ![u] = 1] ELSE color
       /\ back' = IF OnStack(color[u]) THEN back \cup {<<Top.dev, u>>} ELSE back
  /\ UNCHANGED <<reads, start, rev, order, backEdges>>

\* Every edge of the device on top is followed.
Finish ==
  /\ stack # <<>> /\ Ahead(Top) = {}
  /\ color' = [color EXCEPT ![Top.dev] = 2]
  /\ rev' = Append(rev, Top.dev)
  /\ stack' = Rest
  /\ UNCHANGED <<reads, start, back, order, backEdges>>

\* (mutant: the finishing order is not reversed)
Finishing(s) == s

Reversed(s) == [p \in 1..Len(s) |-> s[Len(s) + 1 - p]]

Place(s, d) == CHOOSE p \in DOMAIN s : s[p] = d

\* topo_order, and the back edges as positions in it.
Rank ==
  /\ stack = <<>> /\ start > Roots /\ order = <<>> /\ N > 0
  /\ order' = Reversed(rev)
  /\ backEdges' = {<<Place(order', e[1]), Place(order', e[2])>> : e \in back}
  /\ UNCHANGED <<reads, start, stack, color, rev, back>>

Next ==
  \/ Root
  \/ Follow
  \/ Finish
  \/ Rank

Spec == Init /\ [][Next]_vars
FairSpec == Spec /\ WF_vars(Next)

-----------------------------------------------------------------------------
(* Properties.                                                              *)

Built == order # <<>>

TypeOK ==
  /\ reads \in [1..N -> SUBSET Nets] /\ start \in 1..(N + 1)
  /\ stack \in Seq([dev : 1..N, last : 0..N]) /\ color \in [1..N -> 0..2]
  /\ rev \in Seq(1..N) /\ order \in Seq(1..N)
  /\ back \subseteq (1..N) \X (1..N)

\* The signals of the circuit: a device reads a net another one drives.
Feeds == {e \in (1..N) \X (1..N) : e[1] # e[2] /\ Drives[e[1]] \in reads[e[2]]}

\* Every device is visited in a pass, once.
EveryDeviceRanked ==
  Built => \A d \in 1..N : \E p \in DOMAIN order :
             \A q \in DOMAIN order : order[q] = d <=> q = p

\* A pass misses no signal: a device is visited after every device that feeds
\* it, or the edge between them is one a change restarts the pass on.
NoSignalMissed ==
  Built => \A e \in Feeds :
             \/ Place(order, e[1]) < Place(order, e[2])
             \/ <<Place(order, e[1]), Place(order, e[2])>> \in backEdges

\* A signal of device i comes back to device j: no set of devices that holds i
\* and all that its members feed leaves j out.
Reaches(i, j) ==
  \A S \in SUBSET (1..N) :
    i \in S /\ (\A e \in Feeds : e[1] \in S => e[2] \in S) => j \in S

\* A pass is restarted only around a real loop, and to an earlier place: a
\* circuit without loops is settled by one pass.
RestartsOnlyLoops ==
  Built => \A b \in backEdges : b[2] < b[1] /\ Reaches(order[b[2]], order[b[1]])

\* The search ends.
Ends == N > 0 => <>Built
=============================================================================
