---------------------------- MODULE SchedulerProofs ----------------------------
(***************************************************************************)
(* Proofs about DigitalScheduler, for any circuit, any stimuli and either   *)
(* evaluator: its state keeps its types, a run leaves nothing due behind,   *)
(* every evaluation gets on, and only loops make one give up.  In circuits  *)
(* whose clocks no device drives, no edge is missed, registers do not race, *)
(* and outputs catch up with what drives them, with either evaluator alike. *)
(***************************************************************************)
EXTENDS DigitalScheduler, ExtremumTheorems, TLAPS

-----------------------------------------------------------------------------
(* What the operators return.                                               *)

\* The image of a finite set is finite.
LEMMA ImageIsFinite ==
  ASSUME NEW S, IsFiniteSet(S), NEW T, NEW f \in [S -> T]
  PROVE  IsFiniteSet({f[x] : x \in S})
<1> DEFINE I == {f[x] : x \in S}
<1>1. f \in Surjection(S, I)
  BY DEF Surjection
<1> HIDE DEF I
<1> QED BY <1>1, FS_Surjection DEF I

\* A device drives a logic value.
LEMMA DriveType ==
  ASSUME NEW d \in Devices, NEW n \in [Nets -> LogicValue], NEW r \in [Devices -> Reg]
  PROVE  Drive(d, n, r) \in LogicValue
<1>1. Kind[d] \in {"one", "buf", "inv", "nor", "dff"} /\ In[d] \in [1..Arity[Kind[d]] -> Nets]
  BY NetlistAssumption DEF Arity
<1>2. CASE Kind[d] = "one"
  BY <1>2 DEF Drive, LogicValue
<1>3. CASE Kind[d] = "buf"
  <2>1. In[d][1] \in Nets
    BY <1>1, <1>3 DEF Arity
  <2> QED BY <1>3, <2>1 DEF Drive
<1>4. CASE Kind[d] = "inv"
  BY <1>4 DEF Drive, Not, LogicValue
<1>5. CASE Kind[d] = "nor"
  BY <1>5 DEF Drive, Nor, LogicValue
<1>6. CASE Kind[d] = "dff"
  BY <1>6 DEF Drive, Reg
<1> QED BY <1>1, <1>2, <1>3, <1>4, <1>5, <1>6

\* A flop has a clock and data.
LEMMA FlopPorts ==
  ASSUME NEW f \in Flops
  PROVE  /\ f \in Devices /\ ClockOf(f) \in Nets /\ DataOf(f) \in Nets
         /\ DOMAIN In[f] = 1..2
<1>1. f \in Devices /\ Kind[f] = "dff" /\ In[f] \in [1..Arity[Kind[f]] -> Nets]
  BY NetlistAssumption DEF Flops
<1>2. Arity["dff"] = 2
  BY DEF Arity
<1>3. In[f] \in [1..2 -> Nets]
  BY <1>1, <1>2
<1> QED BY <1>1, <1>3 DEF ClockOf, DataOf

\* The registers after a clocked phase.
LEMMA SeqPhaseType ==
  ASSUME NEW n \in [Nets -> LogicValue], NEW r \in [Devices -> Reg], NEW changed
  PROVE  SeqPhase(n, r, changed) \in [Devices -> Reg]
<1>1. ASSUME NEW d \in Devices
      PROVE  (IF d \in Flops /\ Wakes(d, changed)
              THEN [q    |-> IF Fires(d, n, r) THEN n[DataOf(d)] ELSE r[d].q,
                    prev |-> n[ClockOf(d)]]
              ELSE r[d]) \in Reg
  <2>1. CASE d \in Flops
    <3>1. n[ClockOf(d)] \in LogicValue /\ n[DataOf(d)] \in LogicValue /\ r[d] \in Reg
      BY <2>1, FlopPorts
    <3> QED BY <3>1 DEF Reg
  <2>2. CASE d \notin Flops
    BY <2>2
  <2> QED BY <2>1, <2>2
<1> QED BY <1>1 DEF SeqPhase

\* What a device emits is an event.
LEMMA EmissionType ==
  ASSUME NEW d \in Devices, NEW n \in [Nets -> LogicValue], NEW r \in [Devices -> Reg],
         NEW s \in Nat, now \in Nat
  PROVE  /\ Emission(d, n, r, s) \in Event
         /\ Emission(d, n, r, s).net = Out[d]
<1>1. Out[d] \in Nets /\ Delay[d] \in Nat /\ Drive(d, n, r) \in LogicValue
  BY NetlistAssumption, DriveType
<1>2. now + Delay[d] \in Nat
  BY <1>1
<1> QED BY <1>1, <1>2 DEF Emission, Event

\* Of the events on a net some leave the heap last, and no other value is left.
LEMMA LastExists ==
  ASSUME NEW E \in SUBSET Event, IsFiniteSet(E), E # {}
  PROVE  /\ Last(E) # {}
         /\ \A v \in Last(E) : v \in LogicValue /\ \E e \in E : e.value = v
<1>1. [e \in E |-> e.time] \in [E -> Nat] /\ [e \in E |-> e.seq] \in [E -> Nat]
  BY DEF Event
<1>2. PICK l \in E : \A x \in E : [e \in E |-> e.time][x] <= [e \in E |-> e.time][l]
  BY <1>1, GreatestExists
<1>3. \A x \in E : x.time <= l.time
  BY <1>2
<1> DEFINE L == {x \in E : x.time = l.time}
<1>4. L \in SUBSET E /\ L # {}
  BY <1>2
<1>5. PICK m \in L : \A x \in L : [e \in E |-> e.seq][x] <= [e \in E |-> e.seq][m]
  <2> HIDE DEF L
  <2> QED BY <1>1, <1>4, GreatestExists
<1>6. \A x \in L : x.seq <= m.seq
  BY <1>4, <1>5
<1>7. \A x \in E : x.time < m.time \/ (x.time = m.time /\ x.seq <= m.seq)
  <2> SUFFICES ASSUME NEW x \in E, ~(x.time < m.time)
               PROVE  x.time = m.time /\ x.seq <= m.seq
    OBVIOUS
  <2>1. x.time \in Nat /\ m.time = l.time /\ l.time \in Nat /\ x.time <= l.time
    BY <1>2, <1>3, <1>5 DEF Event
  <2>2. x.time = m.time
    BY <2>1
  <2> QED BY <1>6, <2>1, <2>2
<1>8. m.value \in Last(E)
  BY <1>4, <1>5, <1>7 DEF Last
<1>9. ASSUME NEW v \in Last(E)
      PROVE  v \in LogicValue /\ \E e \in E : e.value = v
  BY DEF Last, Event
<1> QED BY <1>8, <1>9

\* Draining leaves every net what it held, or the value of one of its due events.
LEMMA DrainedValues ==
  ASSUME NEW n \in [Nets -> LogicValue], NEW q \in SUBSET Event, IsFiniteSet(q), NEW t,
         NEW m \in Drained(n, q, t)
  PROVE  /\ m \in [Nets -> LogicValue]
         /\ \A k \in Nets : IF On(Due(q, t), k) = {} THEN m[k] = n[k]
                            ELSE \E e \in On(Due(q, t), k) : m[k] = e.value
         /\ \A k \in Nets : k \notin Changed(n, q, t) => m[k] = n[k]
<1> DEFINE last(k) == Last(On(Due(q, t), k))
           Torn    == {k \in Moved(q, t) : Cardinality(last(k)) > 1}
<1>1. PICK w \in [Torn -> LogicValue] :
        /\ \A k \in Torn : w[k] \in last(k)
        /\ m = [k \in Nets |-> IF k \in Torn THEN w[k]
                               ELSE IF k \in Moved(q, t) THEN CHOOSE x \in last(k) : TRUE
                               ELSE n[k]]
  BY DEF Drained
<1>2. ASSUME NEW k \in Nets
      PROVE  /\ m[k] \in LogicValue
             /\ IF On(Due(q, t), k) = {} THEN m[k] = n[k]
                ELSE \E e \in On(Due(q, t), k) : m[k] = e.value
  <2>1. On(Due(q, t), k) \in SUBSET q /\ On(Due(q, t), k) \in SUBSET Event
    BY DEF On, Due
  <2>2. IsFiniteSet(On(Due(q, t), k))
    BY <2>1, FS_Subset
  <2>3. k \in Moved(q, t) <=> On(Due(q, t), k) # {}
    BY DEF Moved, On
  <2>4. CASE On(Due(q, t), k) = {}
    <3>1. k \notin Torn
      BY <2>3, <2>4
    <3>2. m[k] = n[k]
      <4> HIDE DEF Torn, last
      <4> QED BY <1>1, <2>3, <2>4, <3>1
    <3> QED BY <2>4, <3>2
  <2>5. CASE On(Due(q, t), k) # {}
    <3>1. /\ last(k) # {}
          /\ \A v \in last(k) : v \in LogicValue /\ \E e \in On(Due(q, t), k) : e.value = v
      BY <2>1, <2>2, <2>5, LastExists
    <3>2. m[k] \in last(k)
      <4> HIDE DEF Torn, last
      <4>1. CASE k \in Torn
        BY <1>1, <4>1
      <4>2. CASE k \notin Torn
        <5>1. m[k] = CHOOSE x \in last(k) : TRUE
          BY <1>1, <2>3, <2>5, <4>2
        <5> QED BY <3>1, <5>1
      <4> QED BY <4>1, <4>2
    <3> QED BY <2>5, <3>1, <3>2
  <2> QED BY <2>4, <2>5
<1>3. m \in [Nets -> LogicValue]
  <2> HIDE DEF Torn, last
  <2> QED BY <1>1, <1>2
<1>4. \A k \in Nets : k \notin Changed(n, q, t) => m[k] = n[k]
  BY <1>2 DEF Changed
<1> QED BY <1>2, <1>3, <1>4

-----------------------------------------------------------------------------
(* Types.                                                                    *)

\* An attempt is under way, or waits for its verdict.
Attempting == pc = "attempted" \/ (Evaluating /\ after = "attempted")

\* What the types of the state do not say: an attempt has its checkpoint.
TInv ==
  /\ TypeOK
  /\ IsFiniteSet(chk.queue) /\ (chk # NoCheckpoint => chk.nets \in [Nets -> LogicValue])
  /\ saved \in [regs : [Devices -> Reg], now : Nat]
  /\ edge \in [regs : [Devices -> Reg], nets : [Nets -> LogicValue]]
  /\ Attempting => chk # NoCheckpoint
  /\ run.pos > 0

\* No events are held where no checkpoint is.
LEMMA NoneHeld == IsFiniteSet(NoCheckpoint.queue)
<1>1. NoCheckpoint.queue = {}
  BY DEF NoCheckpoint
<1> QED BY <1>1, FS_EmptySet

\* The circuit before power-on is well typed.
LEMMA InitTInv == Init => TInv
<1> SUFFICES ASSUME Init PROVE TInv
  OBVIOUS
<1>1. /\ nets \in [Nets -> LogicValue] /\ regs \in [Devices -> Reg]
      /\ saved = [regs |-> regs, now |-> 0] /\ edge = [regs |-> regs, nets |-> nets]
      /\ chk = NoCheckpoint /\ run = Fresh /\ inits = 0 /\ pc = "off" /\ after = "ready"
      /\ now = 0 /\ ranked = FALSE
  BY DEF Init, LogicValue, BlankReg, Reg
<1>2. queue \in SUBSET Event /\ IsFiniteSet(queue)
  BY SchedulerAssumption DEF Init
<1>3. run \in Locals /\ run.pos > 0
  BY <1>1 DEF Fresh, Locals
<1>4. InitLimit \in Nat /\ inits \in 0..InitLimit
  BY <1>1, SchedulerAssumption
<1>5. IsFiniteSet(chk.queue)
  BY <1>1, FS_EmptySet DEF NoCheckpoint
<1>6. TypeOK
  BY <1>1, <1>2, <1>3, <1>4 DEF TypeOK
<1> QED BY <1>1, <1>3, <1>5, <1>6 DEF TInv, Attempting, Evaluating

\* A call that begins an evaluation on well-typed arguments.
LEMMA BeginTInv ==
  ASSUME TInv, NEW t \in Nat, NEW n \in [Nets -> LogicValue], NEW q \in SUBSET Event,
         IsFiniteSet(q), NEW r \in [Devices -> Reg], NEW target \in {"ready", "attempted"},
         Begin(t, n, q, r, target), inits' \in 0..InitLimit,
         saved' \in [regs : [Devices -> Reg], now : Nat],
         \/ chk' = NoCheckpoint
         \/ /\ chk'.nets \in [Nets -> LogicValue] /\ chk'.queue \subseteq Event
            /\ IsFiniteSet(chk'.queue),
         target = "attempted" => chk' # NoCheckpoint
  PROVE  TInv'
<1>1. /\ pc' \in {"drain", "delta"} /\ after' = target /\ now' = t
      /\ nets' = n /\ queue' = q /\ regs' = r /\ run' = Fresh
      /\ edge' = [regs |-> r, nets |-> n] /\ ranked' = ranked
  BY DEF Begin
<1>2. run' \in Locals /\ run'.pos > 0
  BY <1>1 DEF Fresh, Locals
<1>3. IsFiniteSet(chk'.queue)
  BY NoneHeld
<1>4. TypeOK'
  BY <1>1, <1>2 DEF TInv, TypeOK
<1> QED BY <1>1, <1>2, <1>3, <1>4 DEF TInv, Attempting

-----------------------------------------------------------------------------
(* The steps of the evaluators, in the form the proofs below use.            *)

\* The evaluation is neither over nor stuck.
GoesOn ==
  /\ pc' \in {"delta", "visit"} /\ chk' = chk
  /\ run' \in Locals /\ run'.pos > 0

\* What the registers, nets and queue are after the due events of an instant.
Clocks(n) ==
  /\ n \in Drained(nets, queue, now) /\ n \in [Nets -> LogicValue]
  /\ nets' = n
  /\ regs' = SeqPhase(n, regs, Changed(nets, queue, now))

\* Events a device emitted, on the nets they drive.
Emitted(E) ==
  /\ E \in SUBSET Event /\ IsFiniteSet(E)
  /\ \A e \in E : \E d \in Devices : e.net = Out[d]

\* A delta cycle.
LEMMA DeltaStep ==
  ASSUME TInv, DeltaCycle
  PROVE  /\ pc = "delta" /\ UNCHANGED <<after, now, ranked, saved, inits>>
         /\ \/ Due(queue, now) = {} /\ Return /\ UNCHANGED <<nets, queue, regs, edge>>
            \/ \E n, E :
                 /\ Clocks(n) /\ Emitted(E)
                 /\ queue' = (queue \ Due(queue, now)) \cup E
                 /\ edge' = IF run.count = 0 THEN [edge EXCEPT !.nets = n] ELSE edge
                 /\ \/ Fail
                    \/ Due(queue', now) = {} /\ Return
                    \/ GoesOn /\ pc' = "delta" /\ run'.count = run.count + 1
<1>1. /\ nets \in [Nets -> LogicValue] /\ regs \in [Devices -> Reg]
      /\ queue \in SUBSET Event /\ IsFiniteSet(queue) /\ now \in Nat /\ run \in Locals
      /\ run.pos > 0
  BY DEF TInv, TypeOK
<1>2. pc = "delta" /\ UNCHANGED <<after, now, ranked, saved, inits>>
  BY DEF DeltaCycle
<1>3. CASE Due(queue, now) = {}
  BY <1>2, <1>3 DEF DeltaCycle, state
<1>4. CASE Due(queue, now) # {}
  <2>1. PICK n \in Drained(nets, queue, now) :
          LET changed == Changed(nets, queue, now)
              r       == SeqPhase(n, regs, changed)
              woken   == {d \in Devices : Wakes(d, changed)}
              speak   == {d \in woken : Emits(d, n, r)}
              seqOf(d) == run.seq + Cardinality({c \in speak : c < d})
              q == (queue \ Due(queue, now))
                     \cup {Emission(d, n, r, seqOf(d)) : d \in speak}
          IN  /\ nets' = n /\ regs' = r /\ queue' = q
              /\ edge' = IF run.count = 0 THEN [edge EXCEPT !.nets = n] ELSE edge
              /\ IF run.count + 1 >= MaxDelta THEN Fail
                 ELSE IF Due(q, now) = {} THEN Return
                 ELSE /\ run' = [run EXCEPT !.count = @ + 1, !.seq = @ + Cardinality(speak)]
                      /\ UNCHANGED <<pc, chk>>
    BY <1>4 DEF DeltaCycle
  <2> DEFINE changed == Changed(nets, queue, now)
             r       == SeqPhase(n, regs, changed)
             woken   == {d \in Devices : Wakes(d, changed)}
             speak   == {d \in woken : Emits(d, n, r)}
             seqOf(d) == run.seq + Cardinality({c \in speak : c < d})
             E == {Emission(d, n, r, seqOf(d)) : d \in speak}
  <2>2. n \in [Nets -> LogicValue] /\ r \in [Devices -> Reg]
    BY <1>1, DrainedValues, SeqPhaseType
  <2>3. speak \in SUBSET Devices /\ IsFiniteSet(speak)
    BY NetlistAssumption, FS_Subset
  <2> HIDE DEF speak, r
  <2>4. ASSUME NEW S \in SUBSET speak PROVE Cardinality(S) \in Nat
    BY <2>3, FS_Subset, FS_CardinalityType
  <2>5. ASSUME NEW d \in speak
        PROVE  Emission(d, n, r, seqOf(d)) \in Event /\ Emission(d, n, r, seqOf(d)).net = Out[d]
    <3>1. Cardinality({c \in speak : c < d}) \in Nat /\ run.seq \in Nat
      BY <1>1, <2>4 DEF Locals
    <3>2. seqOf(d) \in Nat
      BY <3>1
    <3> QED BY <1>1, <2>2, <2>3, <3>2, EmissionType
  <2>6. Emitted(E)
    <3> DEFINE f == [d \in speak |-> Emission(d, n, r, seqOf(d))]
    <3>1. f \in [speak -> Event]
      BY <2>5
    <3>2. E = {f[d] : d \in speak}
      OBVIOUS
    <3>3. IsFiniteSet(E)
      <4> HIDE DEF f, E
      <4> QED BY <2>3, <3>1, <3>2, ImageIsFinite
    <3>4. E \in SUBSET Event /\ \A e \in E : \E d \in Devices : e.net = Out[d]
      BY <2>3, <2>5
    <3> HIDE DEF E
    <3> QED BY <3>3, <3>4 DEF Emitted
  <2>7. /\ Clocks(n)
        /\ queue' = (queue \ Due(queue, now)) \cup E
        /\ edge' = IF run.count = 0 THEN [edge EXCEPT !.nets = n] ELSE edge
    BY <2>1, <2>2 DEF Clocks, r, speak
  <2>8. \/ Fail
        \/ Due(queue', now) = {} /\ Return
        \/ /\ run' = [run EXCEPT !.count = @ + 1, !.seq = @ + Cardinality(speak)]
           /\ UNCHANGED <<pc, chk>>
    BY <2>1 DEF speak, r
  <2>9. ASSUME run' = [run EXCEPT !.count = @ + 1, !.seq = @ + Cardinality(speak)],
               UNCHANGED <<pc, chk>>
        PROVE  GoesOn /\ pc' = "delta" /\ run'.count = run.count + 1
    <3>1. Cardinality(speak) \in Nat
      BY <2>4
    <3>2. run' \in Locals /\ run'.pos = run.pos /\ run'.count = run.count + 1
      <4>1. run.count + 1 \in Nat /\ run.seq + Cardinality(speak) \in Nat
        BY <1>1, <3>1 DEF Locals
      <4>2. PICK c, s : c = run.count + 1 /\ s = run.seq + Cardinality(speak)
        OBVIOUS
      <4>3. run' = [run EXCEPT !.count = c, !.seq = s]
        BY <2>9, <4>2
      <4> QED BY <1>1, <4>1, <4>2, <4>3 DEF Locals
    <3> QED BY <1>1, <1>2, <2>9, <3>2 DEF GoesOn
  <2> HIDE DEF E
  <2> QED BY <1>2, <2>6, <2>7, <2>8, <2>9
<1> QED BY <1>3, <1>4

\* The head of the ranked evaluator.
LEMMA DrainStep ==
  ASSUME TInv, DagDrain
  PROVE  /\ pc = "drain" /\ UNCHANGED <<after, now, ranked, saved, inits>>
         /\ queue' = queue \ Due(queue, now)
         /\ \E n : /\ n \in Drained(nets, queue, now) /\ n \in [Nets -> LogicValue]
                   /\ nets' = n
                   /\ edge' = [edge EXCEPT !.nets = n]
                   /\ \/ Changed(nets, queue, now) = {} /\ Return /\ UNCHANGED regs
                      \/ Clocks(n) /\ GoesOn /\ pc' = "visit"
<1>1. /\ nets \in [Nets -> LogicValue] /\ queue \in SUBSET Event /\ IsFiniteSet(queue)
  BY DEF TInv, TypeOK
<1>2. PICK n \in Drained(nets, queue, now) :
        LET changed == Changed(nets, queue, now)
        IN  /\ nets' = n
            /\ queue' = queue \ Due(queue, now)
            /\ edge' = [edge EXCEPT !.nets = n]
            /\ IF changed = {} THEN Return /\ UNCHANGED regs
               ELSE /\ regs' = SeqPhase(n, regs, changed)
                    /\ pc' = "visit"
                    /\ run' = [Fresh EXCEPT !.changed = changed,
                                 !.fired = {d \in Devices : Wakes(d, changed)
                                              /\ Fires(d, n, regs)}]
                    /\ UNCHANGED chk
  BY DEF DagDrain
<1>3. n \in [Nets -> LogicValue]
  BY <1>1, DrainedValues
<1>4. CASE Changed(nets, queue, now) = {}
  BY <1>2, <1>3, <1>4 DEF DagDrain
<1>5. CASE Changed(nets, queue, now) # {}
  <2> DEFINE changed == Changed(nets, queue, now)
             fired   == {d \in Devices : Wakes(d, changed) /\ Fires(d, n, regs)}
  <2>1. changed \in SUBSET Nets /\ fired \in SUBSET Devices
    BY DEF Changed
  <2>2. /\ regs' = SeqPhase(n, regs, changed) /\ pc' = "visit" /\ UNCHANGED chk
        /\ run' = [Fresh EXCEPT !.changed = changed, !.fired = fired]
    BY <1>2, <1>5
  <2> HIDE DEF changed, fired
  <2>3. run' \in Locals /\ run'.pos > 0
    <3>1. Fresh \in Locals /\ Fresh.pos = 1
      BY DEF Fresh, Locals
    <3>2. run' \in Locals /\ run'.pos = Fresh.pos
      BY <2>1, <2>2, <3>1 DEF Locals
    <3> QED BY <3>1, <3>2
  <2>4. Clocks(n) /\ GoesOn
    BY <1>2, <1>3, <2>2, <2>3 DEF Clocks, GoesOn, changed
  <2> QED BY <1>2, <1>3, <2>2, <2>4 DEF DagDrain
<1> QED BY <1>4, <1>5

\* The order of evaluation lists devices.
LEMMA OrderLists ==
  /\ Len(Order) \in Nat
  /\ \A i \in 1..Len(Order) : Order[i] \in Devices
  /\ DOMAIN Order = 1..Len(Order)
<1>1. Cardinality(Devices) \in Nat
  BY NetlistAssumption, FS_CardinalityType
<1>2. Order \in Seq(Devices)
  BY <1>1, SchedulerAssumption
<1> QED BY <1>2

\* One device of a pass: what it emits at this instant is applied, what it emits
\* for later is queued.
LEMMA VisitStep ==
  ASSUME TInv, DagVisit
  PROVE  /\ pc = "visit" /\ UNCHANGED <<after, now, regs, ranked, saved, inits, edge>>
         /\ GoesOn /\ pc' = "visit"
         /\ nets' \in [Nets -> LogicValue]
         /\ \A k \in Nets : (\A d \in Devices : k # Out[d]) => nets'[k] = nets[k]
         /\ \/ queue' = queue
            \/ \E e \in Event : e.time > now + Epsilon /\ queue' = queue \cup {e}
<1>1. /\ nets \in [Nets -> LogicValue] /\ regs \in [Devices -> Reg]
      /\ now \in Nat /\ run \in Locals /\ run.pos > 0 /\ Epsilon \in Nat
  BY SchedulerAssumption DEF TInv, TypeOK
<1>2. PICK d : d = Order[run.pos]
  OBVIOUS
<1>3. PICK e : e = Emission(d, nets, regs, run.seq)
  OBVIOUS
<1>4. /\ pc = "visit" /\ run.pos \in 1..Len(Order)
      /\ UNCHANGED <<pc, after, now, regs, ranked, chk, saved, inits, edge>>
  BY <1>1, OrderLists DEF DagVisit, Locals
<1>5. d \in Devices /\ e \in Event /\ e.net = Out[d] /\ e.net \in Nets /\ e.value \in LogicValue
  BY <1>1, <1>2, <1>3, <1>4, OrderLists, EmissionType DEF Locals, Event
<1> DEFINE visited == [run EXCEPT !.pos = @ + 1]
           moves   == nets[e.net] # e.value
<1>6. \/ run' = visited /\ UNCHANGED <<nets, queue>>
      \/ /\ e.time <= now + Epsilon
         /\ nets' = [nets EXCEPT ![e.net] = e.value]
         /\ run' = [visited EXCEPT !.seq = NextSeq(@),
                      !.changed = IF moves THEN @ \cup {e.net} ELSE @,
                      !.touched = IF moves THEN @ \cup {run.pos} ELSE @]
         /\ UNCHANGED queue
      \/ /\ ~(e.time <= now + Epsilon)
         /\ queue' = queue \cup {e}
         /\ run' = [visited EXCEPT !.seq = NextSeq(@)]
         /\ UNCHANGED nets
  BY <1>2, <1>3 DEF DagVisit
<1>7. run.seq \in Nat /\ NextSeq(run.seq) \in Nat
  BY <1>1 DEF NextSeq, Locals
<1>8. visited \in Locals /\ visited.pos > 0 /\ visited.seq = run.seq
      /\ visited.changed = run.changed /\ visited.touched = run.touched
  BY <1>1 DEF Locals
<1> HIDE DEF visited, moves
<1>9. run' \in Locals /\ run'.pos > 0
  <2>1. CASE run' = visited
    BY <1>8, <2>1
  <2>2. CASE run' = [visited EXCEPT !.seq = NextSeq(@)]
    BY <1>7, <1>8, <2>2 DEF Locals
  <2>3. CASE run' = [visited EXCEPT !.seq = NextSeq(@),
                       !.changed = IF moves THEN @ \cup {e.net} ELSE @,
                       !.touched = IF moves THEN @ \cup {run.pos} ELSE @]
    <3>1. /\ run.changed \in SUBSET Nets /\ run.touched \in SUBSET Nat /\ run.pos \in Nat
      BY <1>1 DEF Locals
    <3> QED BY <1>5, <1>7, <1>8, <2>3, <3>1 DEF Locals
  <2> QED BY <1>6, <2>1, <2>2, <2>3
<1>10. /\ nets' \in [Nets -> LogicValue]
       /\ \A k \in Nets : (\A c \in Devices : k # Out[c]) => nets'[k] = nets[k]
  BY <1>1, <1>5, <1>6
<1>11. \/ queue' = queue
       \/ \E x \in Event : x.time > now + Epsilon /\ queue' = queue \cup {x}
  <2>1. e.time \in Nat /\ now + Epsilon \in Nat
    BY <1>1, <1>5 DEF Event
  <2>2. ~(e.time <= now + Epsilon) => e.time > now + Epsilon
    BY <2>1
  <2> QED BY <1>5, <1>6, <2>2
<1> QED BY <1>4, <1>9, <1>10, <1>11 DEF GoesOn

\* The end of a pass.
LEMMA PassEndStep ==
  ASSUME TInv, DagPassEnd
  PROVE  /\ pc = "visit"
         /\ UNCHANGED <<after, now, nets, queue, regs, ranked, saved, inits, edge>>
         /\ Return \/ Fail \/ (GoesOn /\ pc' = "visit")
<1>1. /\ pc = "visit"
      /\ UNCHANGED <<after, now, nets, queue, regs, ranked, saved, inits, edge>>
      /\ \/ Return
         \/ Fail
         \/ /\ Restarts # {}
            /\ run' = [run EXCEPT !.pos = Least(Restarts), !.touched = {},
                         !.count = IF @ < MaxDelta THEN @ + 1 ELSE @]
            /\ UNCHANGED <<pc, chk>>
  BY DEF DagPassEnd, state
<1>2. ASSUME Restarts # {},
             run' = [run EXCEPT !.pos = Least(Restarts), !.touched = {},
                       !.count = IF @ < MaxDelta THEN @ + 1 ELSE @],
             UNCHANGED <<pc, chk>>
      PROVE  GoesOn /\ pc' = "visit"
  <2>1. Restarts \in SUBSET (1..Len(Order)) /\ Len(Order) \in Nat
    BY SchedulerAssumption, OrderLists DEF Restarts
  <2>2. Restarts \in SUBSET Nat
    BY <2>1
  <2>3. Least(Restarts) \in Restarts
    <3>1. \E x \in Restarts : \A y \in Restarts : x <= y
      BY <1>2, <2>2, LeastExists
    <3> QED BY <3>1, Zenon DEF Least
  <2>4. Least(Restarts) \in Nat /\ Least(Restarts) > 0
    <3>1. PICK l : l = Len(Order)
      OBVIOUS
    <3>2. Least(Restarts) \in 1..l /\ l \in Nat
      BY <2>1, <2>3, <3>1
    <3> QED BY <3>2
  <2>5. run \in Locals
    BY DEF TInv, TypeOK
  <2>6. run' \in Locals /\ run'.pos > 0
    <3>1. run.count \in Nat
      BY <2>5 DEF Locals
    <3>2. (IF run.count < MaxDelta THEN run.count + 1 ELSE run.count) \in Nat
      BY <3>1
    <3> QED BY <1>2, <2>4, <2>5, <3>2 DEF Locals
  <2> QED BY <1>1, <1>2, <2>6 DEF GoesOn
<1> QED BY <1>1, <1>2

\* An evaluation that goes on, returns or gives up, on well-typed nets and queue.
LEMMA EvaluateTInv ==
  ASSUME TInv, Evaluating,
         nets' \in [Nets -> LogicValue], queue' \in SUBSET Event, IsFiniteSet(queue'),
         regs' \in [Devices -> Reg], edge' \in [regs : [Devices -> Reg], nets : [Nets -> LogicValue]],
         UNCHANGED <<after, now, ranked, saved, inits>>,
         \/ Return
         \/ Fail
         \/ GoesOn
  PROVE  TInv'
<1>1. run' \in Locals /\ run'.pos > 0
  BY DEF Return, Fail, GoesOn, TInv, TypeOK, Fresh, Locals
<1>2. \/ pc' = after /\ chk' = Committed
      \/ pc' \in {"failed", "delta", "visit"} /\ chk' = chk
  BY DEF Return, Fail, GoesOn
<1>3. chk' = chk \/ (chk' = NoCheckpoint /\ after = "ready" /\ pc' = "ready")
  BY <1>2 DEF Committed, TInv, TypeOK
<1>4. IsFiniteSet(chk'.queue)
  BY <1>3, NoneHeld DEF TInv
<1>5. /\ chk' = NoCheckpoint \/ (chk'.nets \in [Nets -> LogicValue] /\ chk'.queue \subseteq Event)
      /\ chk' # NoCheckpoint => chk'.nets \in [Nets -> LogicValue]
  BY <1>3 DEF TInv, TypeOK
<1>6. /\ pc' = "ready" => chk' = NoCheckpoint
      /\ pc' = "attempted" => chk' # NoCheckpoint
  BY <1>2 DEF Committed, TInv, TypeOK, Attempting
<1>7. TypeOK'
  BY <1>1, <1>2, <1>5, <1>6 DEF TInv, TypeOK
<1> QED BY <1>1, <1>3, <1>4, <1>5, <1>6, <1>7 DEF TInv, Attempting, Evaluating

\* The evaluators keep the types.
LEMMA TypeEvaluate == TInv /\ Evaluate => TInv'
<1> SUFFICES ASSUME TInv, Evaluate PROVE TInv'
  OBVIOUS
<1>1. /\ nets \in [Nets -> LogicValue] /\ regs \in [Devices -> Reg]
      /\ queue \in SUBSET Event /\ IsFiniteSet(queue)
      /\ edge \in [regs : [Devices -> Reg], nets : [Nets -> LogicValue]]
  BY DEF TInv, TypeOK
<1>2. ASSUME NEW E, Emitted(E)
      PROVE  LET q == (queue \ Due(queue, now)) \cup E IN q \in SUBSET Event /\ IsFiniteSet(q)
  <2>1. IsFiniteSet(queue \ Due(queue, now))
    BY <1>1, FS_Difference
  <2>2. E \in SUBSET Event /\ IsFiniteSet(E)
    BY <1>2 DEF Emitted
  <2> QED BY <1>1, <2>1, <2>2, FS_Union
<1>3. CASE DeltaCycle
  <2>1. CASE Due(queue, now) = {} /\ Return /\ UNCHANGED <<nets, queue, regs, edge>>
    BY <1>1, <1>3, <2>1, DeltaStep, EvaluateTInv DEF Evaluating
  <2>2. CASE \E n, E :
               /\ Clocks(n) /\ Emitted(E)
               /\ queue' = (queue \ Due(queue, now)) \cup E
               /\ edge' = IF run.count = 0 THEN [edge EXCEPT !.nets = n] ELSE edge
               /\ \/ Fail
                  \/ Due(queue', now) = {} /\ Return
                  \/ GoesOn /\ pc' = "delta" /\ run'.count = run.count + 1
    <3>1. PICK n, E :
            /\ Clocks(n) /\ Emitted(E)
            /\ queue' = (queue \ Due(queue, now)) \cup E
            /\ edge' = IF run.count = 0 THEN [edge EXCEPT !.nets = n] ELSE edge
            /\ Fail \/ Return \/ GoesOn
      BY <2>2
    <3>2. nets' \in [Nets -> LogicValue] /\ regs' \in [Devices -> Reg]
      BY <1>1, <3>1, SeqPhaseType DEF Clocks
    <3>3. edge' \in [regs : [Devices -> Reg], nets : [Nets -> LogicValue]]
      BY <1>1, <3>1 DEF Clocks
    <3>4. queue' \in SUBSET Event /\ IsFiniteSet(queue')
      BY <1>2, <3>1
    <3>5. pc = "delta" /\ UNCHANGED <<after, now, ranked, saved, inits>>
      BY <1>3, DeltaStep
    <3> QED BY <3>1, <3>2, <3>3, <3>4, <3>5, EvaluateTInv DEF Evaluating
  <2> QED BY <1>3, <2>1, <2>2, DeltaStep
<1>4. CASE DagDrain
  <2>1. /\ pc = "drain" /\ UNCHANGED <<after, now, ranked, saved, inits>>
        /\ queue' = queue \ Due(queue, now)
    BY <1>4, DrainStep
  <2>2. PICK n : /\ n \in [Nets -> LogicValue]
                 /\ nets' = n /\ edge' = [edge EXCEPT !.nets = n]
                 /\ \/ Return /\ UNCHANGED regs
                    \/ Clocks(n) /\ GoesOn
    BY <1>4, DrainStep
  <2>3. queue' \in SUBSET Event /\ IsFiniteSet(queue')
    BY <1>1, <2>1, FS_Difference
  <2>4. regs' \in [Devices -> Reg]
    BY <1>1, <2>2, SeqPhaseType DEF Clocks
  <2>5. edge' \in [regs : [Devices -> Reg], nets : [Nets -> LogicValue]]
    BY <1>1, <2>2
  <2> QED BY <2>1, <2>2, <2>3, <2>4, <2>5, EvaluateTInv DEF Evaluating
<1>5. CASE DagVisit
  <2>1. /\ pc = "visit" /\ UNCHANGED <<after, now, regs, ranked, saved, inits, edge>>
        /\ GoesOn /\ nets' \in [Nets -> LogicValue]
        /\ \/ queue' = queue
           \/ \E e \in Event : queue' = queue \cup {e}
    BY <1>5, VisitStep
  <2>2. queue' \in SUBSET Event /\ IsFiniteSet(queue')
    BY <1>1, <2>1, FS_AddElement
  <2> QED BY <1>1, <2>1, <2>2, EvaluateTInv DEF Evaluating
<1>6. CASE DagPassEnd
  <2>1. /\ pc = "visit"
        /\ UNCHANGED <<after, now, nets, queue, regs, ranked, saved, inits, edge>>
        /\ Return \/ Fail \/ GoesOn
    BY <1>6, PassEndStep
  <2> QED BY <1>1, <2>1, EvaluateTInv DEF Evaluating
<1> QED BY <1>3, <1>4, <1>5, <1>6 DEF Evaluate

\* What an accept hook seeds is at most one event of the instant.
LEMMA HookType ==
  ASSUME TInv, NEW H \in HookEvents
  PROVE  /\ H \in SUBSET Event /\ IsFiniteSet(H)
         /\ \A e \in H : e.time = now
<1>1. now \in Nat /\ HookNets \in SUBSET Nets /\ {"0", "1"} \subseteq LogicValue
  BY SchedulerAssumption DEF TInv, TypeOK, LogicValue
<1>2. CASE H = {}
  BY <1>2, FS_EmptySet
<1>3. CASE \E k \in HookNets, v \in {"0", "1"} :
             H = {[time |-> now, net |-> k, value |-> v, seq |-> 0]}
  <2>1. PICK k \in HookNets, v \in {"0", "1"} :
          H = {[time |-> now, net |-> k, value |-> v, seq |-> 0]}
    BY <1>3
  <2>2. [time |-> now, net |-> k, value |-> v, seq |-> 0] \in Event
    BY <1>1 DEF Event
  <2>3. IsFiniteSet(H)
    BY <2>1, FS_Singleton
  <2> QED BY <2>1, <2>2, <2>3
<1> QED BY <1>2, <1>3 DEF HookEvents

\* A sampler that is a flop has run its clocked phase; nothing else has.
LEMMA SampledValue ==
  ASSUME NEW n, NEW d \in Devices
  PROVE  Sampled(n)[d] =
           IF d \in Samplers /\ d \in Flops
           THEN [q    |-> IF Fires(d, n, regs) THEN n[DataOf(d)] ELSE regs[d].q,
                 prev |-> n[ClockOf(d)]]
           ELSE regs[d]
<1>1. ASSUME d \in Flops PROVE Wakes(d, Nets)
  BY <1>1, FlopPorts DEF Wakes, ClockOf
<1> QED BY <1>1 DEF Sampled, SeqPhase

\* The registers keep their types,
LEMMA SampledType ==
  ASSUME TInv, NEW n \in [Nets -> LogicValue]
  PROVE  Sampled(n) \in [Devices -> Reg]
<1>1. regs \in [Devices -> Reg] /\ SeqPhase(n, regs, Nets) \in [Devices -> Reg]
  BY SeqPhaseType DEF TInv, TypeOK
<1> QED BY <1>1 DEF Sampled

\* and what the samplers emit is an event of the instant on the net of each one
\* whose net differs from what it computes.
LEMMA SpokenType ==
  ASSUME TInv, NEW n \in [Nets -> LogicValue], NEW r \in [Devices -> Reg]
  PROVE  /\ Spoken(n, r) \in SUBSET Event /\ IsFiniteSet(Spoken(n, r))
         /\ \A e \in Spoken(n, r) : \E d \in Samplers :
              e.net = Out[d] /\ e.time = now /\ e.value = Drive(d, n, r)
         /\ \A d \in Samplers : Emits(d, n, r) => \E e \in Spoken(n, r) : e.net = Out[d]
<1> DEFINE speak == {d \in Samplers : Emits(d, n, r)}
           seqOf(d) == Cardinality({c \in speak : c < d})
           f == [d \in speak |-> Emission(d, n, r, seqOf(d))]
<1>1. now \in Nat
  BY DEF TInv, TypeOK
<1>2. /\ speak \in SUBSET Devices /\ speak \in SUBSET Samplers /\ IsFiniteSet(speak)
      /\ \A d \in speak : Delay[d] = 0
  BY NetlistAssumption, SchedulerAssumption, FS_Subset
<1>3. Spoken(n, r) = {f[d] : d \in speak}
  BY DEF Spoken
<1>4. \A d \in Samplers : Emits(d, n, r) => d \in speak
  OBVIOUS
<1> HIDE DEF speak
<1>5. ASSUME NEW d \in speak
      PROVE  /\ f[d] \in Event
             /\ f[d].net = Out[d] /\ f[d].time = now /\ f[d].value = Drive(d, n, r)
  <2>1. seqOf(d) \in Nat
    BY <1>2, FS_Subset, FS_CardinalityType
  <2> HIDE DEF seqOf
  <2>2. Emission(d, n, r, seqOf(d)) \in Event
    BY <1>1, <1>2, <2>1, EmissionType
  <2>3. now + Delay[d] = now
    BY <1>1, <1>2
  <2> QED BY <2>2, <2>3 DEF Emission
<1>6. f \in [speak -> Event]
  BY <1>5
<1> HIDE DEF f
<1>7. IsFiniteSet({f[d] : d \in speak})
  BY <1>2, <1>6, ImageIsFinite
<1> QED BY <1>2, <1>3, <1>4, <1>5, <1>6, <1>7

\* What an accepted step begins with.
LEMMA AcceptType ==
  ASSUME TInv, NEW n \in [Nets -> LogicValue], NEW q \in SUBSET Event, IsFiniteSet(q),
         AcceptAndRun(n, q)
  PROVE  \E Q \in SUBSET Event : IsFiniteSet(Q) /\ Begin(now, n, Q, Sampled(n), "ready")
<1>1. PICK H \in HookEvents :
        Begin(now, n, q \cup H \cup Spoken(n, Sampled(n)), Sampled(n), "ready")
  BY DEF AcceptAndRun
<1>2. PICK E : E = Spoken(n, Sampled(n))
  OBVIOUS
<1>3. E \in SUBSET Event /\ IsFiniteSet(E)
  BY <1>2, SampledType, SpokenType
<1>4. H \in SUBSET Event /\ IsFiniteSet(H)
  BY HookType
<1>5. q \cup H \cup E \in SUBSET Event /\ IsFiniteSet(q \cup H \cup E)
  BY <1>3, <1>4, FS_Union
<1> QED BY <1>1, <1>2, <1>5

\* Power-on schedules an event per device.
LEMMA InitEventsType == InitEvents \in SUBSET Event /\ IsFiniteSet(InitEvents)
<1> DEFINE blank == [k \in Nets |-> "X"]
           r     == [d \in Devices |-> PowerOnReg]
           f     == [d \in Devices |->
                       [time |-> 0, net |-> Out[d], value |-> Drive(d, blank, r), seq |-> d - 1]]
<1>1. blank \in [Nets -> LogicValue] /\ r \in [Devices -> Reg]
  BY DEF LogicValue, PowerOnReg, Reg
<1>2. ASSUME NEW d \in Devices PROVE f[d] \in Event
  <2>1. Out[d] \in Nets /\ d \in Nat \ {0} /\ Drive(d, blank, r) \in LogicValue
    BY <1>1, NetlistAssumption, DriveType
  <2>2. d - 1 \in Nat
    BY <2>1
  <2> HIDE DEF blank, r
  <2> QED BY <2>1, <2>2 DEF Event
<1>3. InitEvents = {f[d] : d \in Devices}
  BY DEF InitEvents
<1>4. f \in [Devices -> Event] /\ IsFiniteSet(Devices)
  BY <1>2, NetlistAssumption
<1> HIDE DEF f
<1> QED BY <1>3, <1>4, ImageIsFinite

\* So do the calls of the circuit and of the time loop.
LEMMA TypeCalls ==
  TInv /\ (InitDigital \/ RebuildTopology \/ Attempt \/ Accept \/ Reject \/ AcceptAtFloor) => TInv'
<1> SUFFICES ASSUME TInv, InitDigital \/ RebuildTopology \/ Attempt \/ Accept \/ Reject
                            \/ AcceptAtFloor
             PROVE  TInv'
  OBVIOUS
<1>1. /\ nets \in [Nets -> LogicValue] /\ regs \in [Devices -> Reg]
      /\ queue \in SUBSET Event /\ IsFiniteSet(queue) /\ now \in Nat
      /\ saved \in [regs : [Devices -> Reg], now : Nat]
      /\ inits \in 0..InitLimit /\ InitLimit \in Nat
      /\ \/ chk = NoCheckpoint
         \/ /\ chk.nets \in [Nets -> LogicValue] /\ chk.queue \subseteq Event
            /\ IsFiniteSet(chk.queue)
  BY SchedulerAssumption DEF TInv, TypeOK
<1>2. CASE InitDigital
  <2>1. [d \in Devices |-> PowerOnReg] \in [Devices -> Reg]
    BY DEF PowerOnReg, Reg, LogicValue
  <2>2. queue \cup InitEvents \in SUBSET Event /\ IsFiniteSet(queue \cup InitEvents)
    BY <1>1, InitEventsType, FS_Union
  <2>3. inits' \in 0..InitLimit
    BY <1>1, <1>2 DEF InitDigital
  <2>4. /\ Begin(0, nets, queue \cup InitEvents, [d \in Devices |-> PowerOnReg], "ready")
        /\ UNCHANGED <<chk, saved>>
    BY <1>2 DEF InitDigital
  <2> QED BY <1>1, <2>1, <2>2, <2>3, <2>4, BeginTInv
<1>3. CASE RebuildTopology
  BY <1>3 DEF RebuildTopology, state, TInv, TypeOK, Attempting, Evaluating
<1>4. CASE Attempt
  <2>1. /\ pc = "ready" /\ Pending # {}
        /\ chk' = [nets |-> nets, queue |-> queue]
        /\ saved' = [regs |-> regs, now |-> now]
        /\ Begin(Least(Pending), nets, queue, regs, "attempted")
        /\ UNCHANGED inits
    BY <1>4 DEF Attempt
  <2>2. Least(Pending) \in Nat
    <3>1. Pending \in SUBSET Nat
      BY <1>1 DEF Pending, Event
    <3>2. \E x \in Pending : \A y \in Pending : x <= y
      BY <2>1, <3>1, LeastExists
    <3>3. Least(Pending) \in Pending
      BY <3>2, Zenon DEF Least
    <3> QED BY <3>1, <3>3
  <2>3. chk' # NoCheckpoint
    <3>1. queue # {}
      BY <2>1 DEF Pending
    <3>2. chk'.queue = queue /\ NoCheckpoint.queue = {}
      BY <2>1 DEF NoCheckpoint
    <3> QED BY <3>1, <3>2
  <2>4. /\ saved' \in [regs : [Devices -> Reg], now : Nat]
        /\ chk'.nets = nets /\ chk'.queue = queue
    BY <1>1, <2>1
  <2> QED BY <1>1, <2>1, <2>2, <2>3, <2>4, BeginTInv
<1>5. CASE Accept
  <2>1. AcceptAndRun(nets, queue) /\ UNCHANGED <<chk, saved, inits>>
    BY <1>5 DEF Accept
  <2>2. PICK Q \in SUBSET Event : IsFiniteSet(Q) /\ Begin(now, nets, Q, Sampled(nets), "ready")
    BY <1>1, <2>1, AcceptType
  <2>3. Sampled(nets) \in [Devices -> Reg]
    BY <1>1, SampledType
  <2> QED BY <1>1, <2>1, <2>2, <2>3, BeginTInv
<1>6. CASE Reject
  <2>1. /\ pc = "attempted" /\ pc' = "ready" /\ nets' = chk.nets /\ queue' = chk.queue
        /\ regs' = saved.regs /\ now' = saved.now /\ chk' = NoCheckpoint
        /\ UNCHANGED <<after, ranked, run, saved, inits, edge>>
    BY <1>6 DEF Reject
  <2>2. chk # NoCheckpoint
    BY <2>1 DEF TInv, Attempting
  <2>3. TypeOK'
    BY <1>1, <2>1, <2>2 DEF TInv, TypeOK
  <2>4. IsFiniteSet(chk'.queue)
    BY <2>1, NoneHeld
  <2> QED BY <2>1, <2>3, <2>4 DEF TInv, Attempting, Evaluating
<1>7. CASE AcceptAtFloor
  <2>1. AcceptAndRun(chk.nets, chk.queue)
    BY <1>7 DEF AcceptAtFloor
  <2>2. pc = "attempted" /\ chk' = NoCheckpoint /\ UNCHANGED <<saved, inits>>
    BY <1>7 DEF AcceptAtFloor
  <2>3. chk # NoCheckpoint
    BY <2>2 DEF TInv, Attempting
  <2>4. PICK Q \in SUBSET Event :
          IsFiniteSet(Q) /\ Begin(now, chk.nets, Q, Sampled(chk.nets), "ready")
    BY <1>1, <2>1, <2>3, AcceptType
  <2>5. Sampled(chk.nets) \in [Devices -> Reg]
    BY <1>1, <2>3, SampledType
  <2> QED BY <1>1, <2>2, <2>3, <2>4, <2>5, BeginTInv
<1> QED BY <1>2, <1>3, <1>4, <1>5, <1>6, <1>7

\* Every step keeps the types.
LEMMA TInvNext == TInv /\ [Next]_vars => TInv'
<1>1. TInv /\ (Quiet \/ UNCHANGED vars) => TInv'
  BY DEF Quiet, vars, state, TInv, TypeOK, Attempting, Evaluating
<1> QED BY <1>1, TypeEvaluate, TypeCalls DEF Next

\* Nets, registers, queue and checkpoint keep their types in every circuit, and the
\* queue stays finite; a checkpoint is held exactly while an attempt is open.
THEOREM TypeCorrect == Spec => []TypeOK
<1>1. TInv => TypeOK
  BY DEF TInv
<1> QED BY <1>1, InitTInv, TInvNext, PTL DEF Spec

-----------------------------------------------------------------------------
(* Nothing due is left behind.                                               *)

Later(q, t) == \A e \in q : e.time > t + Epsilon

\* An evaluator past its first drain holds only later events, and so does the
\* checkpoint an attempt goes back to.
DInv ==
  /\ NothingDue
  /\ pc = "visit" => Later(queue, now)
  /\ Attempting => Later(chk.queue, saved.now)

\* Events that are not due come later.
LEMMA NotDue ==
  ASSUME NEW q \in SUBSET Event, NEW t \in Nat
  PROVE  /\ Due(q, t) = {} => Later(q, t)
         /\ Later(q \ Due(q, t), t)
<1>1. ASSUME NEW e \in q, ~(e.time <= t + Epsilon) PROVE e.time > t + Epsilon
  <2>1. e.time \in Nat /\ Epsilon \in Nat
    BY SchedulerAssumption DEF Event
  <2> QED BY <1>1, <2>1
<1> QED BY <1>1 DEF Due, Later

\* An evaluation whose next visit or return holds only later events.
LEMMA EvaluateDInv ==
  ASSUME TInv, DInv, Evaluating, UNCHANGED <<after, now, saved, inits>>,
         \/ Return /\ Later(queue', now)
         \/ Fail
         \/ GoesOn /\ pc' = "delta"
         \/ GoesOn /\ Later(queue', now)
  PROVE  DInv'
<1>1. \/ pc' \in {"failed", "delta"}
      \/ Later(queue', now')
  BY DEF Return, Fail, GoesOn
<1>2. Attempting' => Attempting /\ chk' = chk /\ saved' = saved
  BY DEF Attempting, Evaluating, Return, Fail, GoesOn, Committed, TInv, TypeOK
<1>3. Attempting' => Later(chk'.queue, saved'.now)
  BY <1>2 DEF DInv
<1> QED BY <1>1, <1>3 DEF DInv, NothingDue, Settled, Later

\* No step leaves what is due.
LEMMA DInvNext == TInv /\ DInv /\ [Next]_vars => DInv'
<1> SUFFICES ASSUME TInv, DInv, [Next]_vars PROVE DInv'
  OBVIOUS
<1>1. queue \in SUBSET Event /\ now \in Nat /\ nets \in [Nets -> LogicValue] /\ Epsilon \in Nat
  BY SchedulerAssumption DEF TInv, TypeOK
<1>2. CASE DeltaCycle
  <2>1. pc = "delta" /\ UNCHANGED <<after, now, saved, inits>>
    BY <1>2, DeltaStep
  <2>2. queue' \in SUBSET Event
    BY <1>2, TypeEvaluate DEF Evaluate, TInv, TypeOK
  <2>3. \/ Return /\ Due(queue, now) = {} /\ queue' = queue
        \/ Return /\ Due(queue', now) = {}
        \/ Fail
        \/ GoesOn /\ pc' = "delta"
    BY <1>2, DeltaStep
  <2> QED BY <1>1, <2>1, <2>2, <2>3, NotDue, EvaluateDInv DEF Evaluating
<1>3. CASE DagDrain
  <2>1. pc = "drain" /\ UNCHANGED <<after, now, saved, inits>> /\ queue' = queue \ Due(queue, now)
        /\ (Return \/ GoesOn)
    BY <1>3, DrainStep
  <2> QED BY <1>1, <2>1, NotDue, EvaluateDInv DEF Evaluating
<1>4. CASE DagVisit
  <2>1. /\ pc = "visit" /\ UNCHANGED <<after, now, saved, inits>> /\ GoesOn
        /\ \/ queue' = queue
           \/ \E e \in Event : e.time > now + Epsilon /\ queue' = queue \cup {e}
    BY <1>4, VisitStep
  <2>2. Later(queue', now)
    BY <2>1 DEF DInv, Later
  <2> QED BY <2>1, <2>2, EvaluateDInv DEF Evaluating
<1>5. CASE DagPassEnd
  <2>1. /\ pc = "visit" /\ UNCHANGED <<after, now, queue, saved, inits>>
        /\ Return \/ Fail \/ GoesOn
    BY <1>5, PassEndStep
  <2>2. Later(queue', now)
    BY <2>1 DEF DInv
  <2> QED BY <2>1, <2>2, EvaluateDInv DEF Evaluating
<1>6. CASE InitDigital \/ Accept \/ AcceptAtFloor
  <2>1. pc' \in {"drain", "delta"} /\ after' = "ready"
    BY <1>6 DEF InitDigital, Accept, AcceptAtFloor, AcceptAndRun, Begin
  <2> QED BY <2>1 DEF DInv, NothingDue, Settled, Attempting
<1>7. CASE RebuildTopology
  BY <1>7 DEF RebuildTopology, state, DInv, NothingDue, Settled, Attempting, Evaluating, Later
<1>8. CASE Attempt
  <2>1. /\ pc = "ready" /\ inits > 0 /\ pc' \in {"drain", "delta"}
        /\ chk' = [nets |-> nets, queue |-> queue]
        /\ saved' = [regs |-> regs, now |-> now]
    BY <1>8 DEF Attempt, Begin
  <2>2. Later(chk'.queue, saved'.now)
    BY <2>1 DEF DInv, NothingDue, Settled, Later
  <2> QED BY <2>1, <2>2 DEF DInv, NothingDue, Settled
<1>9. CASE Reject
  <2>1. /\ pc = "attempted" /\ pc' = "ready" /\ queue' = chk.queue /\ now' = saved.now
    BY <1>9 DEF Reject
  <2>2. Later(queue', now')
    BY <2>1 DEF DInv, Attempting
  <2> QED BY <2>1, <2>2 DEF DInv, NothingDue, Settled, Attempting, Evaluating, Later
<1>10. CASE Quiet \/ UNCHANGED vars
  BY <1>10 DEF Quiet, vars, state, DInv, NothingDue, Settled, Attempting, Evaluating, Later
<1> QED BY <1>2, <1>3, <1>4, <1>5, <1>6, <1>7, <1>8, <1>9, <1>10 DEF Next, Evaluate

\* A run consumes what is due: between runs no event waits for an instant the
\* circuit has reached, with either evaluator and after a rollback too.
THEOREM DueIsConsumed == Spec => []NothingDue
<1>1. Init => DInv
  BY DEF Init, DInv, NothingDue, Settled, Attempting, Evaluating
<1>2. DInv => NothingDue
  BY DEF DInv
<1> QED BY <1>1, <1>2, InitTInv, TInvNext, DInvNext, PTL DEF Spec

-----------------------------------------------------------------------------
(* No edge is missed, in circuits whose clocks come from outside and where  *)
(* power-on runs once.                                                       *)

HostClocks == \A d \in Devices, f \in Flops : Out[d] # ClockOf(f)

\* Every flop has seen its clock as it is.
Synced(r, n) == \A f \in Flops : r[f].prev = n[ClockOf(f)]

\* So has every flop whose clock is not about to change.
Caught(r, n, q, t) ==
  \A f \in Flops : ClockOf(f) \notin Changed(n, q, t) => r[f].prev = n[ClockOf(f)]

\* The evaluator has not drained yet.
First == pc = "drain" \/ (pc = "delta" /\ run.count = 0)

\* What the registers know of the clocks, at every point of a run, and what they
\* would know of the nets and events an attempt may still go back to.
CInv ==
  /\ IF pc = "off" THEN inits = 0 /\ nets = [k \in Nets |-> "X"] ELSE inits > 0
  /\ pc \in {"ready", "attempted", "visit"} => Synced(regs, nets)
  /\ First => Caught(regs, nets, queue, now)
  /\ pc = "delta" /\ ~First =>
       Synced(regs, nets) /\ \A f \in Flops : On(Due(queue, now), ClockOf(f)) = {}
  /\ Attempting =>
       /\ Synced(saved.regs, chk.nets)
       /\ Caught(regs, chk.nets, chk.queue, now)
       /\ First => nets = chk.nets /\ queue = chk.queue

\* The clocked phase shows every flop its clock.
LEMMA ClocksSync ==
  ASSUME TInv, NEW n, Clocks(n), Caught(regs, nets, queue, now)
  PROVE  /\ Synced(regs', nets')
         /\ \A f \in Flops : ClockOf(f) \notin Changed(nets, queue, now) =>
              /\ nets'[ClockOf(f)] = nets[ClockOf(f)]
              /\ regs'[f].prev = regs[f].prev
<1>1. /\ nets \in [Nets -> LogicValue] /\ regs \in [Devices -> Reg]
      /\ queue \in SUBSET Event /\ IsFiniteSet(queue)
  BY DEF TInv, TypeOK
<1>2. /\ n \in Drained(nets, queue, now) /\ nets' = n
      /\ regs' = SeqPhase(n, regs, Changed(nets, queue, now))
  BY DEF Clocks
<1>3. \A k \in Nets : k \notin Changed(nets, queue, now) => n[k] = nets[k]
  BY <1>1, <1>2, DrainedValues
<1> SUFFICES ASSUME NEW f \in Flops
             PROVE  /\ regs'[f].prev = n[ClockOf(f)]
                    /\ ClockOf(f) \notin Changed(nets, queue, now) =>
                         /\ n[ClockOf(f)] = nets[ClockOf(f)]
                         /\ regs'[f].prev = regs[f].prev
  BY <1>2 DEF Synced
<1>4. f \in Devices /\ ClockOf(f) \in Nets
  BY FlopPorts
<1>5. CASE Wakes(f, Changed(nets, queue, now))
  <2>1. regs'[f].prev = n[ClockOf(f)]
    BY <1>2, <1>4, <1>5 DEF SeqPhase
  <2> QED BY <1>3, <1>4, <2>1 DEF Caught
<1>6. CASE ~Wakes(f, Changed(nets, queue, now))
  <2>1. regs'[f] = regs[f]
    BY <1>2, <1>4, <1>6 DEF SeqPhase
  <2>2. ClockOf(f) \notin Changed(nets, queue, now)
    BY <1>6, FlopPorts DEF Wakes, ClockOf
  <2> QED BY <1>3, <1>4, <2>1, <2>2 DEF Caught
<1> QED BY <1>5, <1>6

\* Where nothing that is due touches a clock, a flop that is caught is in step.
LEMMA CaughtQuiet ==
  ASSUME NEW r, NEW n, NEW q, NEW t, Caught(r, n, q, t), Changed(n, q, t) = {}
  PROVE  Synced(r, n)
BY DEF Caught, Synced

\* Events that are not due, and events of devices, touch no clock.
LEMMA ClocksRest ==
  ASSUME HostClocks, NEW E, Emitted(E), queue' = (queue \ Due(queue, now)) \cup E, now' = now
  PROVE  \A f \in Flops : On(Due(queue, now)', ClockOf(f)) = {}
<1> SUFFICES ASSUME NEW f \in Flops, NEW e \in queue', e.time <= now + Epsilon,
                    e.net = ClockOf(f)
             PROVE  FALSE
  BY DEF On, Due
<1>1. CASE e \in E
  BY <1>1 DEF Emitted, HostClocks
<1>2. CASE e \in queue \ Due(queue, now)
  BY <1>2 DEF Due
<1> QED BY <1>1, <1>2

\* A step of an evaluator that is past its drain, with the flops in step and the
\* clocks as they were, or as the due events left them.
LEMMA EvaluateCInv ==
  ASSUME TInv, CInv, Evaluating, UNCHANGED <<after, now, saved, inits>>,
         Return \/ Fail \/ GoesOn, ~First',
         Synced(regs', nets'),
         pc' = "delta" => \A f \in Flops : On(Due(queue', now'), ClockOf(f)) = {},
         Attempting => Caught(regs', chk.nets, chk.queue, now)
  PROVE  CInv'
<1>1. pc' # "off" /\ inits' > 0
  BY DEF Evaluating, CInv, Return, Fail, GoesOn, TInv, TypeOK
<1>2. Attempting' => Attempting /\ chk' = chk /\ saved' = saved
  BY DEF Attempting, Evaluating, Return, Fail, GoesOn, Committed, TInv, TypeOK
<1>3. Attempting' => Synced(saved'.regs, chk'.nets) /\ Caught(regs', chk'.nets, chk'.queue, now')
  BY <1>2 DEF CInv
<1> QED BY <1>1, <1>3 DEF CInv

\* Before the clocked phase of any cycle every flop is caught.
LEMMA CaughtAtDelta == CInv /\ pc = "delta" => Caught(regs, nets, queue, now)
BY DEF CInv, Caught, Synced

\* The clocked phase keeps an attempt able to go back to its nets and events
\* without going back to its registers.
LEMMA CaughtKept ==
  ASSUME TInv, CInv, pc \in {"delta", "drain"}, Attempting, NEW n, Clocks(n)
  PROVE  Caught(regs', chk.nets, chk.queue, now)
<1>1. Caught(regs, nets, queue, now) /\ Caught(regs, chk.nets, chk.queue, now)
  BY CaughtAtDelta DEF CInv, First
<1>2. \A f \in Flops : ClockOf(f) \notin Changed(nets, queue, now) =>
        regs'[f].prev = regs[f].prev
  BY <1>1, ClocksSync
<1>3. CASE First
  <2>1. nets = chk.nets /\ queue = chk.queue
    BY <1>3 DEF CInv
  <2> QED BY <1>1, <1>2, <2>1 DEF Caught
<1>4. CASE ~First
  <2>1. \A f \in Flops : On(Due(queue, now), ClockOf(f)) = {}
    BY <1>4 DEF CInv, First
  <2>2. \A f \in Flops : ClockOf(f) \notin Changed(nets, queue, now)
    BY <2>1 DEF Changed
  <2> QED BY <1>1, <1>2, <2>2 DEF Caught
<1> QED BY <1>3, <1>4

\* The evaluators keep the flops in step with their clocks.
LEMMA CInvEvaluate == HostClocks /\ TInv /\ CInv /\ Evaluate => CInv'
<1> SUFFICES ASSUME HostClocks, TInv, CInv, Evaluate PROVE CInv'
  OBVIOUS
<1>1. /\ nets \in [Nets -> LogicValue] /\ queue \in SUBSET Event /\ IsFiniteSet(queue)
      /\ after \in {"ready", "attempted"} /\ run.count \in Nat
  BY DEF TInv, TypeOK, Locals
<1>2. CASE DeltaCycle
  <2>1. pc = "delta" /\ UNCHANGED <<after, now, ranked, saved, inits>>
    BY <1>2, DeltaStep
  <2>2. Caught(regs, nets, queue, now)
    BY <2>1, CaughtAtDelta
  <2>3. CASE Due(queue, now) = {} /\ Return /\ UNCHANGED <<nets, queue, regs, edge>>
    <3>1. Changed(nets, queue, now) = {}
      BY <2>3 DEF Changed, On
    <3>2. Synced(regs', nets')
      BY <2>2, <2>3, <3>1, CaughtQuiet DEF Synced
    <3>3. Attempting => Caught(regs', chk.nets, chk.queue, now)
      BY <2>3 DEF CInv, Caught
    <3>4. pc' \in {"ready", "attempted"}
      BY <1>1, <2>3 DEF Return
    <3> QED BY <2>1, <2>3, <3>2, <3>3, <3>4, EvaluateCInv DEF Evaluating, First
  <2>4. CASE \E n, E :
               /\ Clocks(n) /\ Emitted(E)
               /\ queue' = (queue \ Due(queue, now)) \cup E
               /\ edge' = IF run.count = 0 THEN [edge EXCEPT !.nets = n] ELSE edge
               /\ \/ Fail
                  \/ Due(queue', now) = {} /\ Return
                  \/ GoesOn /\ pc' = "delta" /\ run'.count = run.count + 1
    <3>1. PICK n, E :
            /\ Clocks(n) /\ Emitted(E)
            /\ queue' = (queue \ Due(queue, now)) \cup E
            /\ \/ Fail
               \/ Return
               \/ GoesOn /\ pc' = "delta" /\ run'.count = run.count + 1
      BY <2>4
    <3>2. Synced(regs', nets')
      BY <2>2, <3>1, ClocksSync
    <3>3. Attempting => Caught(regs', chk.nets, chk.queue, now)
      BY <2>1, <3>1, CaughtKept
    <3>4. \A f \in Flops : On(Due(queue', now'), ClockOf(f)) = {}
      BY <2>1, <3>1, ClocksRest
    <3>5. ~First'
      BY <1>1, <3>1 DEF First, Fail, Return
    <3>6. Return \/ Fail \/ GoesOn
      BY <3>1
    <3> QED BY <2>1, <3>2, <3>3, <3>4, <3>5, <3>6, EvaluateCInv DEF Evaluating
  <2> QED BY <1>2, <2>3, <2>4, DeltaStep
<1>3. CASE DagDrain
  <2>1. pc = "drain" /\ UNCHANGED <<after, now, ranked, saved, inits>>
    BY <1>3, DrainStep
  <2>2. Caught(regs, nets, queue, now)
    BY <2>1 DEF CInv, First
  <2>3. PICK n : /\ n \in Drained(nets, queue, now) /\ n \in [Nets -> LogicValue]
                 /\ nets' = n
                 /\ \/ Changed(nets, queue, now) = {} /\ Return /\ UNCHANGED regs
                    \/ Clocks(n) /\ GoesOn /\ pc' = "visit"
    BY <1>3, DrainStep
  <2>4. pc' \notin {"drain", "delta"}
    BY <1>1, <2>3 DEF Return
  <2>5. CASE Changed(nets, queue, now) = {} /\ Return /\ UNCHANGED regs
    <3>1. \A k \in Nets : n[k] = nets[k]
      BY <1>1, <2>3, <2>5, DrainedValues
    <3>2. Synced(regs', nets')
      BY <2>2, <2>3, <2>5, <3>1, CaughtQuiet, FlopPorts DEF Synced
    <3>3. Attempting => Caught(regs', chk.nets, chk.queue, now)
      BY <2>5 DEF CInv, Caught
    <3> QED BY <2>1, <2>4, <2>5, <3>2, <3>3, EvaluateCInv DEF Evaluating, First
  <2>6. CASE Clocks(n) /\ GoesOn
    <3>1. Synced(regs', nets')
      BY <2>2, <2>6, ClocksSync
    <3>2. Attempting => Caught(regs', chk.nets, chk.queue, now)
      BY <2>1, <2>6, CaughtKept
    <3> QED BY <2>1, <2>4, <2>6, <3>1, <3>2, EvaluateCInv DEF Evaluating, First
  <2> QED BY <2>3, <2>5, <2>6
<1>4. CASE DagVisit
  <2>1. /\ pc = "visit" /\ UNCHANGED <<after, now, regs, saved, inits>>
        /\ GoesOn /\ pc' = "visit"
        /\ \A k \in Nets : (\A d \in Devices : k # Out[d]) => nets'[k] = nets[k]
    BY <1>4, VisitStep
  <2>2. Synced(regs', nets')
    BY <2>1, FlopPorts DEF CInv, Synced, HostClocks
  <2>3. Attempting => Caught(regs', chk.nets, chk.queue, now)
    BY <2>1 DEF CInv, Caught
  <2> QED BY <2>1, <2>2, <2>3, EvaluateCInv DEF Evaluating, First
<1>5. CASE DagPassEnd
  <2>1. /\ pc = "visit" /\ UNCHANGED <<after, now, nets, queue, regs, saved, inits>>
        /\ Return \/ Fail \/ (GoesOn /\ pc' = "visit")
    BY <1>5, PassEndStep
  <2>2. Synced(regs', nets')
    BY <2>1 DEF CInv, Synced
  <2>3. Attempting => Caught(regs', chk.nets, chk.queue, now)
    BY <2>1 DEF CInv, Caught
  <2>4. pc' \notin {"drain", "delta"}
    BY <1>1, <2>1 DEF Return, Fail
  <2> QED BY <2>1, <2>2, <2>3, <2>4, EvaluateCInv DEF Evaluating, First
<1> QED BY <1>2, <1>3, <1>4, <1>5 DEF Evaluate

\* A checkpoint sees no fewer changes once a hook has added its events.
LEMMA MoreChange ==
  ASSUME NEW n, NEW q, NEW H, NEW t
  PROVE  Changed(n, q, t) \subseteq Changed(n, q \cup H, t)
BY DEF Changed, On, Due

\* The samplers run over the nets an evaluation will begin with, so that no flop
\* that is caught loses its clock.
LEMMA SampledCaught ==
  ASSUME NEW n, NEW q, NEW E, NEW t, Caught(regs, n, q, t)
  PROVE  Caught(Sampled(n), n, q \cup E, t)
<1> SUFFICES ASSUME NEW f \in Flops, ClockOf(f) \notin Changed(n, q \cup E, t)
             PROVE  Sampled(n)[f].prev = n[ClockOf(f)]
  BY DEF Caught
<1>1. f \in Devices
  BY FlopPorts
<1>2. regs[f].prev = n[ClockOf(f)]
  BY MoreChange DEF Caught
<1>3. PICK v : v = IF Fires(f, n, regs) THEN n[DataOf(f)] ELSE regs[f].q
  OBVIOUS
<1>4. Sampled(n)[f] = IF f \in Samplers THEN [q |-> v, prev |-> n[ClockOf(f)]] ELSE regs[f]
  BY <1>1, <1>3, SampledValue
<1> QED BY <1>2, <1>4

\* A call that begins an evaluation with every flop caught.
LEMMA BeginCInv ==
  ASSUME NEW t, NEW n, NEW q, NEW r, NEW target, Begin(t, n, q, r, target),
         inits' > 0, Caught(r, n, q, t),
         target = "attempted" => /\ chk' = [nets |-> n, queue |-> q]
                                 /\ Synced(saved'.regs, n)
  PROVE  CInv'
<1>1. /\ pc' \in {"drain", "delta"} /\ after' = target /\ now' = t
      /\ nets' = n /\ queue' = q /\ regs' = r /\ run' = Fresh
  BY DEF Begin
<1>2. First'
  BY <1>1 DEF First, Fresh
<1>3. Caught(regs', nets', queue', now')
  BY <1>1
<1>4. Attempting' => /\ Synced(saved'.regs, chk'.nets)
                     /\ Caught(regs', chk'.nets, chk'.queue, now')
                     /\ nets' = chk'.nets /\ queue' = chk'.queue
  BY <1>1 DEF Attempting
<1> QED BY <1>1, <1>2, <1>3, <1>4 DEF CInv

\* So do the calls of the circuit and of the time loop.
LEMMA CInvCalls ==
  /\ InitLimit = 1 /\ TInv /\ CInv
  /\ InitDigital \/ RebuildTopology \/ Attempt \/ Accept \/ Reject \/ AcceptAtFloor
  => CInv'
<1> SUFFICES ASSUME InitLimit = 1, TInv, CInv,
                    InitDigital \/ RebuildTopology \/ Attempt \/ Accept \/ Reject
                      \/ AcceptAtFloor
             PROVE  CInv'
  OBVIOUS
<1>1. inits \in Nat
  BY DEF TInv, TypeOK
<1>2. CASE InitDigital
  <2>1. /\ inits = 0 /\ inits' = 1
        /\ Begin(0, nets, queue \cup InitEvents, [d \in Devices |-> PowerOnReg], "ready")
    BY <1>1, <1>2 DEF InitDigital
  <2>2. nets = [k \in Nets |-> "X"]
    BY <2>1 DEF CInv
  <2>3. Caught([d \in Devices |-> PowerOnReg], nets, queue \cup InitEvents, 0)
    BY <2>2, FlopPorts DEF Caught, PowerOnReg
  <2> QED BY <2>1, <2>3, BeginCInv
<1>3. CASE RebuildTopology
  BY <1>3 DEF RebuildTopology, state, CInv, First, Caught, Synced, Attempting, Evaluating
<1>4. CASE Attempt
  <2>1. /\ pc = "ready"
        /\ chk' = [nets |-> nets, queue |-> queue]
        /\ saved' = [regs |-> regs, now |-> now]
        /\ Begin(Least(Pending), nets, queue, regs, "attempted")
        /\ inits' = inits
    BY <1>4 DEF Attempt
  <2>2. inits > 0 /\ Synced(regs, nets)
    BY <2>1 DEF CInv
  <2>3. Caught(regs, nets, queue, Least(Pending)) /\ Synced(saved'.regs, nets)
    BY <2>1, <2>2 DEF Caught, Synced
  <2> QED BY <2>1, <2>2, <2>3, BeginCInv
<1>5. CASE Accept
  <2>1. PICK E : Begin(now, nets, queue \cup E, Sampled(nets), "ready")
    <3>1. PICK H \in HookEvents :
            Begin(now, nets, queue \cup H \cup Spoken(nets, Sampled(nets)), Sampled(nets), "ready")
      BY <1>5 DEF Accept, AcceptAndRun
    <3>2. queue \cup H \cup Spoken(nets, Sampled(nets))
            = queue \cup (H \cup Spoken(nets, Sampled(nets)))
      OBVIOUS
    <3> QED BY <3>1, <3>2
  <2>2. inits' > 0 /\ Caught(regs, nets, queue, now)
    BY <1>5 DEF Accept, CInv, Caught, Synced
  <2>3. Caught(Sampled(nets), nets, queue \cup E, now)
    BY <2>2, SampledCaught
  <2> QED BY <2>1, <2>2, <2>3, BeginCInv
<1>6. CASE Reject
  <2>1. /\ pc = "attempted" /\ pc' = "ready" /\ nets' = chk.nets /\ regs' = saved.regs
        /\ inits' = inits
    BY <1>6 DEF Reject
  <2>2. Synced(regs', nets') /\ inits' > 0
    BY <2>1 DEF CInv, Attempting
  <2> QED BY <2>1, <2>2 DEF CInv, First, Attempting, Evaluating
<1>7. CASE AcceptAtFloor
  <2>1. PICK E : Begin(now, chk.nets, chk.queue \cup E, Sampled(chk.nets), "ready")
    <3>1. PICK H \in HookEvents :
            Begin(now, chk.nets, chk.queue \cup H \cup Spoken(chk.nets, Sampled(chk.nets)),
                  Sampled(chk.nets), "ready")
      BY <1>7 DEF AcceptAtFloor, AcceptAndRun
    <3>2. PICK S : S = Spoken(chk.nets, Sampled(chk.nets))
      OBVIOUS
    <3>3. chk.queue \cup H \cup S = chk.queue \cup (H \cup S)
      OBVIOUS
    <3> QED BY <3>1, <3>2, <3>3
  <2>2. inits' > 0 /\ Caught(regs, chk.nets, chk.queue, now)
    BY <1>7 DEF AcceptAtFloor, CInv, Attempting
  <2>3. Caught(Sampled(chk.nets), chk.nets, chk.queue \cup E, now)
    BY <2>2, SampledCaught
  <2> QED BY <2>1, <2>2, <2>3, BeginCInv
<1> QED BY <1>2, <1>3, <1>4, <1>5, <1>6, <1>7

\* No step leaves a flop behind its clock.
LEMMA CInvNext ==
  HostClocks /\ InitLimit = 1 /\ TInv /\ CInv /\ [Next]_vars => CInv'
<1>1. CInv /\ (Quiet \/ UNCHANGED vars) => CInv'
  BY DEF Quiet, vars, state, CInv, First, Caught, Synced, Attempting, Evaluating
<1> QED BY <1>1, CInvEvaluate, CInvCalls DEF Next

\* Before power-on nothing is owed.
LEMMA CInvInit == Init => CInv
BY DEF Init, CInv, First, Attempting, Evaluating

\* No clock edge is missed: between runs every flop has seen its clock as it is,
\* after a rejected step and after one accepted at the floor too. The clocks come
\* from outside and power-on runs once: without these the code misses edges.
THEOREM NoEdgeIsMissed ==
  ASSUME HostClocks, InitLimit = 1
  PROVE  Spec => []EdgesSeen
<1>1. CInv => EdgesSeen
  BY DEF CInv, EdgesSeen, Settled, Synced
<1>2. TInv /\ CInv /\ [Next]_vars => CInv'
  BY CInvNext
<1> QED BY <1>1, <1>2, CInvInit, InitTInv, TInvNext, PTL DEF Spec

-----------------------------------------------------------------------------
(* Registers do not race, in the same circuits.                              *)

\* What a flop holds once the evaluation that saw e has drained.
Latched(f, e) == IF Fires(f, e.nets, e.regs) THEN e.nets[DataOf(f)] ELSE e.regs[f].q

AllLatched(r, e) == \A f \in Flops : r[f].q = Latched(f, e)

\* Before the drain the evaluation has seen the state as it is; after it every
\* flop has taken what it saw then, and keeps it.
NInv ==
  /\ First => edge = [regs |-> regs, nets |-> nets]
  /\ Evaluating /\ ~First => AllLatched(regs, edge)

\* A flop that sees the clock it saw before does not fire.
LEMMA InStepIsStill ==
  ASSUME NEW f \in Flops, NEW n, NEW r, r[f].prev = n[ClockOf(f)]
  PROVE  ~Fires(f, n, r)
BY DEF Fires

\* The clocked phase is the latch of what it saw.
LEMMA ClocksLatch ==
  ASSUME TInv, NEW n, Clocks(n), Caught(regs, nets, queue, now), NEW f \in Flops
  PROVE  regs'[f].q = Latched(f, [regs |-> regs, nets |-> n])
<1>1. /\ nets' = n /\ regs' = SeqPhase(n, regs, Changed(nets, queue, now))
      /\ f \in Devices
  BY FlopPorts DEF Clocks
<1>2. PICK e : e = [regs |-> regs, nets |-> n]
  OBVIOUS
<1>3. e.regs = regs /\ e.nets = n
  BY <1>2
<1>4. CASE Wakes(f, Changed(nets, queue, now))
  <2>1. regs'[f].q = IF Fires(f, n, regs) THEN n[DataOf(f)] ELSE regs[f].q
    BY <1>1, <1>4 DEF SeqPhase
  <2>2. regs'[f].q = Latched(f, e)
    BY <1>3, <2>1 DEF Latched
  <2> QED BY <1>2, <2>2
<1>5. CASE ~Wakes(f, Changed(nets, queue, now))
  <2>1. regs'[f] = regs[f]
    BY <1>1, <1>5 DEF SeqPhase
  <2>2. ClockOf(f) \notin Changed(nets, queue, now)
    BY <1>5, FlopPorts DEF Wakes, ClockOf
  <2>3. regs[f].prev = n[ClockOf(f)]
    BY <1>1, <2>2, ClocksSync DEF Caught
  <2>4. ~Fires(f, n, regs)
    BY <2>3, InStepIsStill
  <2>5. regs'[f].q = Latched(f, e)
    BY <1>3, <2>1, <2>4 DEF Latched
  <2> QED BY <1>2, <2>5
<1> QED BY <1>4, <1>5

\* Every step of an evaluator leaves the flops with what the run's clock edges found.
LEMMA LatchEvaluate ==
  ASSUME HostClocks, TInv, CInv, NInv, Evaluate
  PROVE  /\ ~First' /\ AllLatched(regs', edge') /\ edge'.regs = edge.regs
<1>1. /\ nets \in [Nets -> LogicValue] /\ queue \in SUBSET Event /\ IsFiniteSet(queue)
      /\ after \in {"ready", "attempted"} /\ run.count \in Nat
      /\ edge \in [regs : [Devices -> Reg], nets : [Nets -> LogicValue]]
  BY DEF TInv, TypeOK, Locals
<1>2. ASSUME Synced(regs, nets) PROVE AllLatched(regs, [regs |-> regs, nets |-> nets])
  <2> SUFFICES ASSUME NEW f \in Flops
               PROVE  regs[f].q = Latched(f, [regs |-> regs, nets |-> nets])
    BY DEF AllLatched
  <2>1. PICK e : e = [regs |-> regs, nets |-> nets]
    OBVIOUS
  <2>2. ~Fires(f, nets, regs)
    BY <1>2, InStepIsStill DEF Synced
  <2>3. regs[f].q = Latched(f, e)
    BY <2>1, <2>2 DEF Latched
  <2> QED BY <2>1, <2>3
<1>3. CASE DeltaCycle
  <2>1. pc = "delta" /\ Evaluating
    BY <1>3, DeltaStep DEF Evaluating
  <2>2. Caught(regs, nets, queue, now)
    BY <2>1, CaughtAtDelta
  <2>3. CASE Due(queue, now) = {} /\ Return /\ UNCHANGED <<nets, queue, regs, edge>>
    <3>1. ~First'
      BY <1>1, <2>3 DEF First, Return
    <3>2. Changed(nets, queue, now) = {}
      BY <2>3 DEF Changed, On
    <3>3. Synced(regs, nets)
      BY <2>2, <3>2, CaughtQuiet
    <3>4. AllLatched(regs, edge)
      BY <1>2, <2>1, <3>3 DEF NInv
    <3> QED BY <2>3, <3>1, <3>4
  <2>4. CASE \E n, E :
               /\ Clocks(n) /\ Emitted(E)
               /\ queue' = (queue \ Due(queue, now)) \cup E
               /\ edge' = IF run.count = 0 THEN [edge EXCEPT !.nets = n] ELSE edge
               /\ \/ Fail
                  \/ Due(queue', now) = {} /\ Return
                  \/ GoesOn /\ pc' = "delta" /\ run'.count = run.count + 1
    <3>1. PICK n :
            /\ Clocks(n)
            /\ edge' = IF run.count = 0 THEN [edge EXCEPT !.nets = n] ELSE edge
            /\ \/ Fail
               \/ Return
               \/ pc' = "delta" /\ run'.count = run.count + 1
      BY <2>4
    <3>2. ~First'
      BY <1>1, <3>1 DEF First, Fail, Return
    <3>3. CASE run.count = 0
      <4>1. edge' = [regs |-> regs, nets |-> n] /\ edge'.regs = edge.regs
        BY <1>1, <2>1, <3>1, <3>3 DEF NInv, First
      <4>2. AllLatched(regs', edge')
        BY <2>2, <3>1, <4>1, ClocksLatch DEF AllLatched
      <4> QED BY <3>2, <4>1, <4>2
    <3>4. CASE run.count # 0
      <4>1. ~First
        BY <2>1, <3>4 DEF First
      <4>2. edge' = edge /\ AllLatched(regs, edge)
        BY <2>1, <3>1, <3>4, <4>1 DEF NInv
      <4>3. ASSUME NEW f \in Flops PROVE regs'[f].q = regs[f].q
        <5>1. regs[f].prev = nets[ClockOf(f)] /\ On(Due(queue, now), ClockOf(f)) = {}
          BY <2>1, <4>1 DEF CInv, Synced
        <5>2. ClockOf(f) \notin Changed(nets, queue, now)
          BY <5>1 DEF Changed
        <5>3. nets'[ClockOf(f)] = nets[ClockOf(f)]
          BY <2>2, <3>1, <5>2, ClocksSync
        <5>4. ~Fires(f, n, regs)
          BY <3>1, <5>1, <5>3, InStepIsStill DEF Clocks
        <5> QED BY <3>1, <5>4, FlopPorts DEF Clocks, SeqPhase
      <4>4. AllLatched(regs', edge')
        BY <4>2, <4>3 DEF AllLatched
      <4> QED BY <3>2, <4>2, <4>4
    <3> QED BY <3>3, <3>4
  <2> QED BY <1>3, <2>3, <2>4, DeltaStep
<1>4. CASE DagDrain
  <2>1. pc = "drain"
    BY <1>4, DrainStep
  <2>2. Caught(regs, nets, queue, now) /\ edge = [regs |-> regs, nets |-> nets]
    BY <2>1 DEF CInv, NInv, First
  <2>3. PICK n : /\ n \in Drained(nets, queue, now) /\ n \in [Nets -> LogicValue]
                 /\ nets' = n
                 /\ edge' = [edge EXCEPT !.nets = n]
                 /\ \/ Changed(nets, queue, now) = {} /\ Return /\ UNCHANGED regs
                    \/ Clocks(n) /\ GoesOn /\ pc' = "visit"
    BY <1>4, DrainStep
  <2>4. ~First'
    BY <1>1, <2>3 DEF Return, First
  <2>5. edge' = [regs |-> regs, nets |-> n] /\ edge'.regs = edge.regs
    BY <2>2, <2>3
  <2>6. CASE Changed(nets, queue, now) = {} /\ UNCHANGED regs
    <3>1. n = nets
      <4>1. \A k \in Nets : n[k] = nets[k]
        BY <1>1, <2>3, <2>6, DrainedValues
      <4> QED BY <1>1, <2>3, <4>1
    <3>2. Synced(regs, nets)
      BY <2>2, <2>6, CaughtQuiet
    <3> QED BY <1>2, <2>4, <2>5, <2>6, <3>1, <3>2
  <2>7. CASE Clocks(n)
    <3>1. AllLatched(regs', edge')
      BY <2>2, <2>5, <2>7, ClocksLatch DEF AllLatched
    <3> QED BY <2>4, <2>5, <3>1
  <2> QED BY <2>3, <2>6, <2>7
<1>5. CASE DagVisit \/ DagPassEnd
  <2>1. pc = "visit" /\ UNCHANGED <<regs, edge>>
        /\ (Return \/ Fail \/ pc' = "visit")
    BY <1>5, VisitStep, PassEndStep
  <2>2. ~First'
    BY <1>1, <2>1 DEF First, Return, Fail
  <2>3. AllLatched(regs, edge)
    BY <2>1 DEF NInv, First, Evaluating
  <2> QED BY <2>1, <2>2, <2>3
<1> QED BY <1>3, <1>4, <1>5 DEF Evaluate

\* An evaluation that begins has seen the state as it is.
LEMMA NInvNext == HostClocks /\ TInv /\ CInv /\ NInv /\ [Next]_vars => NInv'
<1> SUFFICES ASSUME HostClocks, TInv, CInv, NInv, [Next]_vars PROVE NInv'
  OBVIOUS
<1>1. CASE Evaluate
  BY <1>1, LatchEvaluate DEF NInv
<1>2. CASE InitDigital \/ Attempt \/ Accept \/ AcceptAtFloor
  <2>1. /\ pc' \in {"drain", "delta"} /\ run' = Fresh
        /\ edge' = [regs |-> regs', nets |-> nets']
    BY <1>2 DEF InitDigital, Attempt, Accept, AcceptAtFloor, AcceptAndRun, Begin
  <2> QED BY <2>1 DEF NInv, First, Fresh
<1>3. CASE RebuildTopology \/ Reject
  <2>1. pc' \in {"off", "ready"}
    BY <1>3 DEF RebuildTopology, Reject
  <2> QED BY <2>1 DEF NInv, First, Evaluating
<1>4. CASE Quiet \/ UNCHANGED vars
  BY <1>4 DEF Quiet, vars, state, NInv, First, Evaluating, AllLatched, Latched
<1> QED BY <1>1, <1>2, <1>3, <1>4 DEF Next

\* Registers are written without blocking: whatever the order of the devices, the
\* delta cycles or the passes, a flop takes the data its clock edge found before
\* any gate or flop moved, or keeps what it held.
THEOREM RegistersDoNotRace ==
  ASSUME HostClocks, InitLimit = 1
  PROVE  Spec => NonBlocking
<1>1. ASSUME TInv, CInv, NInv, Next, Evaluating, pc' \in {"ready", "attempted"}
      PROVE  \A f \in Flops :
               regs'[f].q = IF Fires(f, edge'.nets, edge.regs)
                            THEN edge'.nets[DataOf(f)] ELSE edge.regs[f].q
  <2>1. Evaluate
    BY <1>1 DEF Next, InitDigital, RebuildTopology, Attempt, Accept, Reject, AcceptAtFloor,
                Quiet, Evaluating
  <2>2. AllLatched(regs', edge') /\ edge'.regs = edge.regs
    BY <1>1, <2>1, LatchEvaluate
  <2> QED BY <2>2 DEF AllLatched, Latched
<1>2. TInv /\ CInv /\ NInv /\ [Next]_vars =>
        [Evaluating /\ pc' \in {"ready", "attempted"} =>
           \A f \in Flops :
             regs'[f].q = IF Fires(f, edge'.nets, edge.regs)
                          THEN edge'.nets[DataOf(f)] ELSE edge.regs[f].q]_vars
  BY <1>1
<1>3. TInv /\ CInv /\ NInv /\ [Next]_vars => NInv'
  BY NInvNext
<1>4. TInv /\ CInv /\ [Next]_vars => CInv'
  BY CInvNext
<1>5. Init => NInv
  BY DEF Init, NInv, First, Evaluating
<1> QED BY <1>2, <1>3, <1>4, <1>5, CInvInit, InitTInv, TInvNext, PTL DEF Spec, NonBlocking

-----------------------------------------------------------------------------
(* Outputs catch up: every gate ends a run at what it computes from the nets *)
(* the run ends with, whichever evaluator ran and through its loops too.     *)

\* Devices that emit at once, as compiled ones do.
Prompt == {d \in Devices : Delay[d] = 0}

\* No two devices drive one net, and the host drives none of theirs.
OneDriver == \A c, d \in Devices : Out[c] = Out[d] => c = d
HostNets ==
  \A d \in Devices : /\ Out[d] \notin HookNets
                     /\ \A S \in Stimuli : \A e \in S : e.net # Out[d]

\* The order lists every reader after its driver, or has a back edge for the pair
\* (DigitalTopology.NoSignalMissed), and no gate reads its own net.
Ranks ==
  /\ \A i, j \in DOMAIN Order :
       Order[i] # Order[j] /\ Wakes(Order[j], {Out[Order[i]]})
         => i < j \/ <<i, j>> \in BackEdges
  /\ \A d \in Devices \ Flops : ~Wakes(d, {Out[d]})

\* The net of d is, or is about to be, what d computes.
Shows(d, n, r)   == n[Out[d]] = Drive(d, n, r)
Says(d, n, q, r) == IF On(q, Out[d]) = {} THEN Shows(d, n, r)
                    ELSE \A e \in On(q, Out[d]) : e.value = Drive(d, n, r)

\* A pass has still to come to d.
Ahead(d) ==
  \E i \in DOMAIN Order :
    /\ Order[i] = d
    /\ i >= run.pos \/ \E b \in BackEdges : b[1] \in run.touched /\ b[2] <= i

Woken(d) == Wakes(d, run.changed) \/ d \in run.fired

\* What a prompt device owes at each point of a run.
OwesNothingLate ==
  pc # "failed" => \A d \in Prompt : On(queue \ Due(queue, now), Out[d]) = {}
OwesNothing ==
  pc \notin {"failed", "drain", "delta"} => \A d \in Prompt : On(queue, Out[d]) = {}
OwesAtRest ==
  pc \in {"ready", "attempted"} => \A d \in Prompt : Shows(d, nets, regs)
OwesAtDrain ==
  pc \in {"drain", "delta"} =>
    \A d \in Prompt : Says(d, nets, queue, regs) \/ Wakes(d, Changed(nets, queue, now))
OwesInPass ==
  pc = "visit" => \A d \in Prompt : Shows(d, nets, regs) \/ (Woken(d) /\ Ahead(d))

\* What an attempt may go back to owes nothing, and a flop that took something else
\* since will be woken again.
OwesOnReturn ==
  Attempting =>
    /\ \A d \in Prompt : On(chk.queue, Out[d]) = {} /\ Shows(d, chk.nets, saved.regs)
    /\ \A f \in Flops : \/ regs[f].q = saved.regs[f].q
                        \/ ClockOf(f) \in Changed(chk.nets, chk.queue, now)

OInv == /\ OwesNothingLate /\ OwesNothing /\ OwesAtRest /\ OwesAtDrain /\ OwesInPass
        /\ OwesOnReturn

\* A device computes the same from the same inputs and register.
LEMMA DriveSame ==
  ASSUME NEW d \in Devices, NEW m, NEW n, NEW r, NEW s,
         \A i \in DOMAIN In[d] : m[In[d][i]] = n[In[d][i]],
         d \in Flops => r[d].q = s[d].q
  PROVE  Drive(d, m, r) = Drive(d, n, s)
<1>1. Kind[d] \in {"one", "buf", "inv", "nor", "dff"} /\ In[d] \in [1..Arity[Kind[d]] -> Nets]
  BY NetlistAssumption DEF Arity
<1>2. CASE Kind[d] = "one"
  BY <1>2 DEF Drive
<1>3. CASE Kind[d] = "buf" \/ Kind[d] = "inv"
  <2>1. 1 \in DOMAIN In[d]
    BY <1>1, <1>3 DEF Arity
  <2> QED BY <1>3, <2>1 DEF Drive
<1>4. CASE Kind[d] = "nor"
  <2>1. 1 \in DOMAIN In[d] /\ 2 \in DOMAIN In[d]
    BY <1>1, <1>4 DEF Arity
  <2> QED BY <1>4, <2>1 DEF Drive
<1>5. CASE Kind[d] = "dff"
  BY <1>5 DEF Drive, Flops
<1> QED BY <1>1, <1>2, <1>3, <1>4, <1>5

\* A gate that nothing wakes shows, after the due events, what it said before.
LEMMA DrainShows ==
  ASSUME TInv, NEW n, Clocks(n), NEW d \in Prompt,
         On(queue \ Due(queue, now), Out[d]) = {},
         Says(d, nets, queue, regs), ~Wakes(d, Changed(nets, queue, now))
  PROVE  Shows(d, n, regs')
<1>1. /\ nets \in [Nets -> LogicValue] /\ queue \in SUBSET Event /\ IsFiniteSet(queue)
      /\ regs \in [Devices -> Reg] /\ d \in Devices /\ Out[d] \in Nets
  BY NetlistAssumption DEF TInv, TypeOK, Prompt
<1>2. /\ n \in Drained(nets, queue, now)
      /\ regs' = SeqPhase(n, regs, Changed(nets, queue, now))
  BY DEF Clocks
<1>3. /\ \A k \in Nets : IF On(Due(queue, now), k) = {} THEN n[k] = nets[k]
                         ELSE \E e \in On(Due(queue, now), k) : n[k] = e.value
      /\ \A k \in Nets : k \notin Changed(nets, queue, now) => n[k] = nets[k]
  BY <1>1, <1>2, DrainedValues
<1>4. \A i \in DOMAIN In[d] : n[In[d][i]] = nets[In[d][i]]
  <2>1. \A i \in DOMAIN In[d] : In[d][i] \in Nets
    BY <1>1, NetlistAssumption
  <2> QED BY <1>3, <2>1 DEF Wakes
<1>5. regs'[d] = regs[d]
  BY <1>1, <1>2 DEF SeqPhase
<1>6. Drive(d, n, regs') = Drive(d, nets, regs)
  BY <1>1, <1>4, <1>5, DriveSame
<1>7. On(Due(queue, now), Out[d]) = On(queue, Out[d])
  BY DEF On, Due
<1>8. n[Out[d]] = Drive(d, nets, regs)
  <2>1. CASE On(queue, Out[d]) = {}
    BY <1>1, <1>3, <1>7, <2>1 DEF Says, Shows
  <2>2. CASE On(queue, Out[d]) # {}
    <3>1. \E e \in On(queue, Out[d]) : n[Out[d]] = e.value
      BY <1>1, <1>3, <1>7, <2>2
    <3> QED BY <2>2, <3>1 DEF Says
  <2> QED BY <2>1, <2>2
<1> QED BY <1>6, <1>8 DEF Shows

\* A flop whose clock is not about to change keeps what it holds,
LEMMA FlopKeeps ==
  ASSUME TInv, NEW n, Clocks(n), Caught(regs, nets, queue, now), NEW f \in Flops,
         ClockOf(f) \notin Changed(nets, queue, now)
  PROVE  regs'[f].q = regs[f].q
<1>1. /\ nets' = n /\ regs' = SeqPhase(n, regs, Changed(nets, queue, now)) /\ f \in Devices
  BY FlopPorts DEF Clocks
<1>2. n[ClockOf(f)] = nets[ClockOf(f)] /\ regs[f].prev = nets[ClockOf(f)]
  BY <1>1, ClocksSync DEF Caught
<1>3. ~Fires(f, n, regs)
  BY <1>2, InStepIsStill
<1> QED BY <1>1, <1>3 DEF SeqPhase

\* so that in an attempt only those change that will be woken again.
LEMMA FlopsReturn ==
  ASSUME TInv, CInv, OInv, pc \in {"delta", "drain"}, Attempting, NEW n, Clocks(n),
         NEW f \in Flops
  PROVE  regs'[f].q = saved.regs[f].q \/ ClockOf(f) \in Changed(chk.nets, chk.queue, now)
<1>1. Caught(regs, nets, queue, now)
  BY CaughtAtDelta DEF CInv, First
<1>2. regs[f].q = saved.regs[f].q \/ ClockOf(f) \in Changed(chk.nets, chk.queue, now)
  BY DEF OInv, OwesOnReturn
<1>3. CASE ClockOf(f) \notin Changed(nets, queue, now)
  BY <1>1, <1>2, <1>3, FlopKeeps
<1>4. CASE ClockOf(f) \in Changed(nets, queue, now)
  <2>1. CASE First
    BY <1>4, <2>1 DEF CInv
  <2>2. CASE ~First
    BY <1>4, <2>2 DEF CInv, First, Changed
  <2> QED BY <2>1, <2>2
<1> QED BY <1>3, <1>4

\* What a delta cycle emits is what the devices it wakes compute.
LEMMA DeltaSays ==
  ASSUME OneDriver, TInv, OInv, DeltaCycle, Due(queue, now) # {}
  PROVE  \E n : /\ Clocks(n)
                /\ \A d \in Prompt : /\ Says(d, n, queue', regs')
                                     /\ On(queue' \ Due(queue', now), Out[d]) = {}
<1>1. PICK n \in Drained(nets, queue, now) :
        LET changed == Changed(nets, queue, now)
            r       == SeqPhase(n, regs, changed)
            woken   == {d \in Devices : Wakes(d, changed)}
            speak   == {d \in woken : Emits(d, n, r)}
            seqOf(d) == run.seq + Cardinality({c \in speak : c < d})
        IN  /\ nets' = n /\ regs' = r
            /\ queue' = (queue \ Due(queue, now))
                          \cup {Emission(d, n, r, seqOf(d)) : d \in speak}
  BY DEF DeltaCycle
<1> DEFINE changed == Changed(nets, queue, now)
           speak   == {d \in Devices : Wakes(d, changed) /\ Emits(d, n, regs')}
           seqOf(d) == run.seq + Cardinality({c \in speak : c < d})
           E       == {Emission(d, n, regs', seqOf(d)) : d \in speak}
<1>2. /\ nets \in [Nets -> LogicValue] /\ queue \in SUBSET Event /\ IsFiniteSet(queue)
      /\ pc = "delta" /\ now \in Nat /\ Epsilon \in Nat
  BY SchedulerAssumption DEF TInv, TypeOK, DeltaCycle
<1>3. n \in [Nets -> LogicValue]
  BY <1>2, DrainedValues
<1>4. Clocks(n)
  BY <1>1, <1>3 DEF Clocks
<1>5. queue' = (queue \ Due(queue, now)) \cup E
  <2>1. regs' = SeqPhase(n, regs, changed)
    BY <1>1
  <2>2. {d \in {c \in Devices : Wakes(c, changed)} : Emits(d, n, regs')} = speak
    OBVIOUS
  <2> HIDE DEF changed
  <2> QED BY <1>1, <2>1, <2>2 DEF changed
<1>6. ASSUME NEW d \in Prompt
      PROVE  /\ Says(d, n, queue', regs')
             /\ On(queue' \ Due(queue', now), Out[d]) = {}
  <2>1. d \in Devices /\ Delay[d] = 0
    BY DEF Prompt
  <2>2. On(queue \ Due(queue, now), Out[d]) = {}
    BY <1>2 DEF OInv, OwesNothingLate
  <2> HIDE DEF changed, seqOf
  <2>3. ASSUME NEW e \in On(queue', Out[d])
        PROVE  d \in speak /\ e.value = Drive(d, n, regs') /\ e.time = now
    <3>1. e \in E /\ e.net = Out[d]
      BY <1>5, <2>2 DEF On
    <3>2. PICK c \in speak : e = Emission(c, n, regs', seqOf(c))
      BY <3>1
    <3>3. e.net = Out[c] /\ e.value = Drive(c, n, regs') /\ e.time = now + Delay[c]
      BY <3>2 DEF Emission
    <3>4. c = d
      BY <2>1, <3>1, <3>2, <3>3 DEF OneDriver
    <3> QED BY <1>2, <2>1, <3>2, <3>3, <3>4
  <2>4. ASSUME d \in speak PROVE On(queue', Out[d]) # {}
    <3>1. PICK e : e = Emission(d, n, regs', seqOf(d))
      OBVIOUS
    <3>2. e \in E /\ e.net = Out[d]
      BY <2>4, <3>1 DEF Emission
    <3> QED BY <1>5, <3>2 DEF On
  <2>5. On(queue' \ Due(queue', now), Out[d]) = {}
    <3> SUFFICES ASSUME NEW e \in queue' \ Due(queue', now), e.net = Out[d] PROVE FALSE
      BY DEF On
    <3>1. e.time = now
      BY <2>3 DEF On
    <3> QED BY <1>2, <3>1 DEF Due
  <2>6. CASE d \in speak
    BY <2>3, <2>4, <2>5, <2>6 DEF Says
  <2>7. CASE d \notin speak
    <3>1. On(queue', Out[d]) = {}
      BY <2>3, <2>7
    <3>2. CASE Wakes(d, changed)
      <4>1. ~Emits(d, n, regs')
        BY <2>1, <2>7, <3>2
      <4> QED BY <2>1, <2>5, <3>1, <4>1 DEF Emits, Says, Shows
    <3>3. CASE ~Wakes(d, changed)
      <4>1. Says(d, nets, queue, regs)
        BY <1>2, <3>3 DEF OInv, OwesAtDrain, changed
      <4>2. Shows(d, n, regs')
        BY <1>4, <2>2, <3>3, <4>1, DrainShows DEF changed
      <4> QED BY <2>5, <3>1, <4>2 DEF Says
    <3> QED BY <3>2, <3>3
  <2> QED BY <2>6, <2>7
<1> QED BY <1>4, <1>6

\* A step of an evaluator leaves an attempt what it may go back to.
LEMMA OwedOnReturn ==
  ASSUME TInv, OInv, Evaluating, UNCHANGED <<after, now, saved>>, Return \/ Fail \/ GoesOn,
         Attempting => \A f \in Flops :
           regs'[f].q = saved.regs[f].q \/ ClockOf(f) \in Changed(chk.nets, chk.queue, now)
  PROVE  OwesOnReturn'
<1>1. Attempting' => Attempting /\ chk' = chk /\ saved' = saved
  BY DEF Attempting, Evaluating, Return, Fail, GoesOn, Committed, TInv, TypeOK
<1>2. Attempting => \A d \in Prompt : On(chk.queue, Out[d]) = {} /\ Shows(d, chk.nets, saved.regs)
  BY DEF OInv, OwesOnReturn
<1> QED BY <1>1, <1>2 DEF OwesOnReturn, Shows

\* An evaluation that returns with every gate showing what it computes.
LEMMA OwedAtReturn ==
  ASSUME Return, after \in {"ready", "attempted"}, OwesOnReturn',
         \A d \in Prompt : On(queue', Out[d]) = {} /\ Shows(d, nets', regs')
  PROVE  OInv'
<1>1. pc' \in {"ready", "attempted"}
  BY DEF Return
<1>2. \A d \in Prompt : On((queue \ Due(queue, now))', Out[d]) = {}
  BY DEF On
<1> QED BY <1>1, <1>2 DEF OInv, OwesNothingLate, OwesNothing, OwesAtRest, OwesAtDrain, OwesInPass

\* The delta-cycle evaluator pays what it owes.
LEMMA OwedByDelta ==
  ASSUME OneDriver, TInv, CInv, OInv, DeltaCycle
  PROVE  OInv'
<1>1. /\ pc = "delta" /\ UNCHANGED <<after, now, saved, inits>> /\ Evaluating
      /\ after \in {"ready", "attempted"}
  BY DeltaStep DEF Evaluating, TInv, TypeOK
<1>2. CASE Due(queue, now) = {}
  <2>1. Return /\ UNCHANGED <<nets, queue, regs>>
    BY <1>2 DEF DeltaCycle, state
  <2>2. OwesOnReturn'
    <3>1. Attempting => \A f \in Flops :
            regs'[f].q = saved.regs[f].q \/ ClockOf(f) \in Changed(chk.nets, chk.queue, now)
      BY <2>1 DEF OInv, OwesOnReturn
    <3> QED BY <1>1, <2>1, <3>1, OwedOnReturn
  <2>3. ASSUME NEW d \in Prompt PROVE On(queue, Out[d]) = {} /\ Shows(d, nets, regs)
    <3>1. On(queue, Out[d]) = {}
      BY <1>1, <1>2 DEF OInv, OwesNothingLate
    <3>2. ~Wakes(d, Changed(nets, queue, now))
      BY <1>2 DEF Wakes, Changed, On
    <3>3. Says(d, nets, queue, regs)
      BY <1>1, <3>2 DEF OInv, OwesAtDrain
    <3> QED BY <3>1, <3>3 DEF Says
  <2> QED BY <1>1, <2>1, <2>2, <2>3, OwedAtReturn
<1>3. CASE Due(queue, now) # {}
  <2>1. PICK n : /\ Clocks(n)
                 /\ \A d \in Prompt : /\ Says(d, n, queue', regs')
                                      /\ On(queue' \ Due(queue', now), Out[d]) = {}
    BY <1>3, DeltaSays
  <2>2. \/ Fail
        \/ Due(queue', now) = {} /\ Return
        \/ GoesOn /\ pc' = "delta"
    <3>1. ~(Due(queue, now) = {} /\ Return /\ UNCHANGED <<nets, queue, regs, edge>>)
      BY <1>3
    <3> QED BY <3>1, DeltaStep
  <2>3. OwesOnReturn'
    <3>1. Attempting => \A f \in Flops :
            regs'[f].q = saved.regs[f].q \/ ClockOf(f) \in Changed(chk.nets, chk.queue, now)
      BY <1>1, <2>1, FlopsReturn
    <3> QED BY <1>1, <2>2, <3>1, OwedOnReturn
  <2>4. nets' = n
    BY <2>1 DEF Clocks
  <2>5. CASE Fail
    BY <2>3, <2>5 DEF Fail, OInv, OwesNothingLate, OwesNothing, OwesAtRest, OwesAtDrain, OwesInPass
  <2>6. CASE Due(queue', now) = {} /\ Return
    <3>1. ASSUME NEW d \in Prompt PROVE On(queue', Out[d]) = {} /\ Shows(d, nets', regs')
      <4>1. On(queue', Out[d]) = {}
        BY <2>1, <2>6
      <4> QED BY <2>1, <2>4, <4>1 DEF Says
    <3> QED BY <1>1, <2>3, <2>6, <3>1, OwedAtReturn
  <2>7. CASE GoesOn /\ pc' = "delta"
    <3>1. ASSUME NEW d \in Prompt PROVE On((queue \ Due(queue, now))', Out[d]) = {}
      BY <1>1, <2>1
    <3>2. ASSUME NEW d \in Prompt PROVE Says(d, nets', queue', regs')
      BY <2>1, <2>4
    <3> QED BY <2>3, <2>7, <3>1, <3>2
            DEF OInv, OwesNothingLate, OwesNothing, OwesAtRest, OwesAtDrain, OwesInPass
  <2> QED BY <2>2, <2>5, <2>6, <2>7
<1> QED BY <1>2, <1>3

\* A pass starts with a debt to the gates that the due events wake.
LEMMA OwedByDrain ==
  ASSUME TInv, CInv, OInv, DagDrain
  PROVE  OInv'
<1>1. /\ pc = "drain" /\ UNCHANGED <<after, now, saved, inits>> /\ Evaluating
      /\ queue' = queue \ Due(queue, now) /\ after \in {"ready", "attempted"}
  BY DrainStep DEF Evaluating, TInv, TypeOK
<1>2. /\ nets \in [Nets -> LogicValue] /\ queue \in SUBSET Event /\ IsFiniteSet(queue)
  BY DEF TInv, TypeOK
<1>3. ASSUME NEW d \in Prompt PROVE On(queue', Out[d]) = {}
  BY <1>1 DEF OInv, OwesNothingLate
<1>4. PICK n : /\ n \in Drained(nets, queue, now) /\ n \in [Nets -> LogicValue]
               /\ nets' = n
               /\ \/ Changed(nets, queue, now) = {} /\ Return /\ UNCHANGED regs
                  \/ Clocks(n) /\ GoesOn /\ pc' = "visit"
  BY DrainStep
<1>5. CASE Changed(nets, queue, now) = {}
  <2>1. Return /\ UNCHANGED regs
    BY <1>5 DEF DagDrain
  <2>2. OwesOnReturn'
    <3>1. Attempting => \A f \in Flops :
            regs'[f].q = saved.regs[f].q \/ ClockOf(f) \in Changed(chk.nets, chk.queue, now)
      BY <2>1 DEF OInv, OwesOnReturn
    <3> QED BY <1>1, <2>1, <3>1, OwedOnReturn
  <2>3. nets' = nets
    <3>1. \A k \in Nets : n[k] = nets[k]
      BY <1>2, <1>4, <1>5, DrainedValues
    <3> QED BY <1>2, <1>4, <3>1
  <2>4. ASSUME NEW d \in Prompt PROVE Shows(d, nets, regs)
    <3>1. ~Wakes(d, Changed(nets, queue, now))
      BY <1>5 DEF Wakes
    <3>2. Says(d, nets, queue, regs)
      BY <1>1, <3>1 DEF OInv, OwesAtDrain
    <3>3. CASE On(queue, Out[d]) = {}
      BY <3>2, <3>3 DEF Says
    <3>4. CASE On(queue, Out[d]) # {}
      <4>1. PICK e \in On(queue, Out[d]) : e.value = Drive(d, nets, regs)
        BY <3>2, <3>4 DEF Says
      <4>2. e \in On(Due(queue, now), Out[d])
        BY <1>1, <1>3 DEF On
      <4>3. Out[d] \in Nets
        BY NetlistAssumption DEF Prompt
      <4>4. e.value = nets[Out[d]]
        BY <1>5, <4>2, <4>3 DEF Changed
      <4> QED BY <4>1, <4>4 DEF Shows
    <3> QED BY <3>3, <3>4
  <2> QED BY <1>1, <1>3, <2>1, <2>2, <2>3, <2>4, OwedAtReturn
<1>6. CASE Changed(nets, queue, now) # {}
  <2> DEFINE changed == Changed(nets, queue, now)
  <2>1. /\ Clocks(n) /\ GoesOn /\ pc' = "visit"
    BY <1>4, <1>6
  <2>2. run'.changed = changed /\ run'.pos = 1
    <3>1. PICK S : run' = [Fresh EXCEPT !.changed = changed, !.fired = S]
      BY <1>6 DEF DagDrain
    <3> HIDE DEF changed
    <3> QED BY <3>1 DEF Fresh
  <2>3. OwesOnReturn'
    <3>1. Attempting => \A f \in Flops :
            regs'[f].q = saved.regs[f].q \/ ClockOf(f) \in Changed(chk.nets, chk.queue, now)
      BY <1>1, <2>1, FlopsReturn
    <3> QED BY <1>1, <2>1, <3>1, OwedOnReturn
  <2>4. ASSUME NEW d \in Prompt
        PROVE  Shows(d, nets', regs') \/ (Woken(d)' /\ Ahead(d)')
    <3>1. CASE Wakes(d, changed)
      <4>1. PICK i \in DOMAIN Order : Order[i] = d
        BY SchedulerAssumption DEF Prompt
      <4>2. i >= run'.pos
        BY <2>2, OrderLists
      <4> QED BY <2>2, <3>1, <4>1, <4>2 DEF Woken, Ahead
    <3>2. CASE ~Wakes(d, changed)
      <4>1. Says(d, nets, queue, regs)
        BY <1>1, <3>2 DEF OInv, OwesAtDrain
      <4>2. On(queue \ Due(queue, now), Out[d]) = {}
        BY <1>1, <1>3
      <4>3. Shows(d, n, regs')
        BY <2>1, <3>2, <4>1, <4>2, DrainShows
      <4> QED BY <1>4, <4>3
    <3> QED BY <3>1, <3>2
  <2>5. ASSUME NEW d \in Prompt PROVE On((queue \ Due(queue, now))', Out[d]) = {}
    BY <1>3 DEF On
  <2> QED BY <1>3, <2>1, <2>3, <2>4, <2>5
          DEF OInv, OwesNothingLate, OwesNothing, OwesAtRest, OwesAtDrain, OwesInPass
<1> QED BY <1>5, <1>6

\* A flop drives what it holds.
LEMMA FlopDrive ==
  ASSUME NEW d \in Flops, NEW n, NEW r
  PROVE  Drive(d, n, r) = r[d].q
BY DEF Drive, Flops

\* What the device at run.pos does to the nets, the queue and the pass.
Moves(c) ==
  /\ nets' = [nets EXCEPT ![Out[c]] = Drive(c, nets, regs)]
  /\ queue' = queue
  /\ run'.pos = run.pos + 1 /\ run'.fired = run.fired
  /\ IF nets[Out[c]] # Drive(c, nets, regs)
     THEN run'.changed = run.changed \cup {Out[c]} /\ run'.touched = run.touched \cup {run.pos}
     ELSE run'.changed = run.changed /\ run'.touched = run.touched

Rests(c) ==
  /\ nets' = nets
  /\ run'.pos = run.pos + 1 /\ run'.fired = run.fired
  /\ run'.changed = run.changed /\ run'.touched = run.touched
  /\ \/ queue' = queue /\ (c \in Prompt => ~Woken(c) \/ Shows(c, nets, regs))
     \/ c \notin Prompt /\ \E e : e.net = Out[c] /\ queue' = queue \cup {e}

\* A visit of a device moves the net it drives, or leaves the nets as they are.
LEMMA VisitMoves ==
  ASSUME TInv, DagVisit
  PROVE  /\ run.pos \in 1..Len(Order) /\ Order[run.pos] \in Devices
         /\ Moves(Order[run.pos]) \/ Rests(Order[run.pos])
<1>1. /\ nets \in [Nets -> LogicValue] /\ now \in Nat /\ run \in Locals /\ run.pos > 0
      /\ Epsilon \in Nat
  BY SchedulerAssumption DEF TInv, TypeOK
<1>2. run.pos \in 1..Len(Order)
  BY <1>1, OrderLists DEF DagVisit, Locals
<1>3. PICK c \in Devices : c = Order[run.pos]
  BY <1>2, OrderLists
<1>4. PICK e : e = Emission(c, nets, regs, run.seq)
  OBVIOUS
<1>5. /\ e.net = Out[c] /\ e.value = Drive(c, nets, regs) /\ e.time = now + Delay[c]
  BY <1>4 DEF Emission
<1> DEFINE visited == [run EXCEPT !.pos = @ + 1]
           moves   == nets[e.net] # e.value
<1>6. \/ /\ ~(Woken(c) /\ Emits(c, nets, regs))
         /\ run' = visited /\ UNCHANGED <<nets, queue>>
      \/ /\ e.time <= now + Epsilon
         /\ nets' = [nets EXCEPT ![e.net] = e.value]
         /\ run' = [visited EXCEPT !.seq = NextSeq(@),
                      !.changed = IF moves THEN @ \cup {e.net} ELSE @,
                      !.touched = IF moves THEN @ \cup {run.pos} ELSE @]
         /\ UNCHANGED queue
      \/ /\ ~(e.time <= now + Epsilon)
         /\ queue' = queue \cup {e}
         /\ run' = [visited EXCEPT !.seq = NextSeq(@)]
         /\ UNCHANGED nets
  BY <1>3, <1>4 DEF DagVisit, Woken
<1>7. /\ visited \in Locals /\ visited.pos = run.pos + 1 /\ visited.fired = run.fired
      /\ visited.changed = run.changed /\ visited.touched = run.touched
  BY <1>1 DEF Locals
<1> HIDE DEF visited
<1>8. CASE /\ ~(Woken(c) /\ Emits(c, nets, regs))
           /\ run' = visited /\ UNCHANGED <<nets, queue>>
  <2>1. c \in Prompt => ~Woken(c) \/ Shows(c, nets, regs)
    BY <1>8 DEF Emits, Shows, Prompt
  <2>2. Rests(c)
    BY <1>7, <1>8, <2>1 DEF Rests
  <2> QED BY <1>2, <1>3, <2>2
<1>9. CASE /\ e.time <= now + Epsilon
           /\ nets' = [nets EXCEPT ![e.net] = e.value]
           /\ run' = [visited EXCEPT !.seq = NextSeq(@),
                        !.changed = IF moves THEN @ \cup {e.net} ELSE @,
                        !.touched = IF moves THEN @ \cup {run.pos} ELSE @]
           /\ UNCHANGED queue
  <2>1. /\ run'.pos = visited.pos /\ run'.fired = visited.fired
        /\ run'.changed = IF moves THEN visited.changed \cup {e.net} ELSE visited.changed
        /\ run'.touched = IF moves THEN visited.touched \cup {run.pos} ELSE visited.touched
    BY <1>7, <1>9 DEF Locals
  <2>2. Moves(c)
    BY <1>5, <1>7, <1>9, <2>1 DEF Moves
  <2> QED BY <1>2, <1>3, <2>2
<1>10. CASE /\ ~(e.time <= now + Epsilon)
            /\ queue' = queue \cup {e}
            /\ run' = [visited EXCEPT !.seq = NextSeq(@)]
            /\ UNCHANGED nets
  <2>1. /\ run'.pos = visited.pos /\ run'.fired = visited.fired
        /\ run'.changed = visited.changed /\ run'.touched = visited.touched
    BY <1>7, <1>10 DEF Locals
  <2>2. c \notin Prompt
    BY <1>1, <1>5, <1>10 DEF Prompt
  <2>3. Rests(c)
    BY <1>5, <1>7, <1>10, <2>1, <2>2 DEF Rests
  <2> QED BY <1>2, <1>3, <2>3
<1> QED BY <1>6, <1>8, <1>9, <1>10

\* A visit passes the debt of one device on to the devices it moves.
LEMMA OwedByVisit ==
  ASSUME OneDriver, Ranks, TInv, CInv, OInv, DagVisit
  PROVE  OInv'
<1>1. /\ pc = "visit" /\ pc' = "visit" /\ UNCHANGED <<after, now, regs, chk, saved, inits>>
      /\ Evaluating /\ GoesOn
  BY VisitStep DEF Evaluating, GoesOn
<1>2. /\ nets \in [Nets -> LogicValue] /\ run.pos \in Nat
  BY DEF TInv, TypeOK, Locals
<1>3. OwesOnReturn'
  <2>1. Attempting => \A f \in Flops :
          regs'[f].q = saved.regs[f].q \/ ClockOf(f) \in Changed(chk.nets, chk.queue, now)
    BY <1>1 DEF OInv, OwesOnReturn
  <2> QED BY <1>1, <2>1, OwedOnReturn
<1>4. PICK p \in 1..Len(Order) : p = run.pos
  BY VisitMoves
<1>5. PICK c \in Devices : c = Order[p]
  BY <1>4, OrderLists
<1>6. Moves(c) \/ Rests(c)
  BY <1>4, <1>5, VisitMoves
<1>7. ASSUME NEW d \in Prompt PROVE On(queue', Out[d]) = {}
  <2>1. On(queue, Out[d]) = {} /\ d \in Devices
    BY <1>1 DEF OInv, OwesNothing, Prompt
  <2>2. \/ queue' = queue
        \/ c \notin Prompt /\ \E e : e.net = Out[c] /\ queue' = queue \cup {e}
    BY <1>6 DEF Moves, Rests
  <2> QED BY <2>1, <2>2 DEF On, OneDriver
<1>8. ASSUME NEW d \in Devices, d # c, Woken(d), Ahead(d)
      PROVE  Woken(d)' /\ Ahead(d)'
  <2>1. /\ run'.pos = run.pos + 1 /\ run'.fired = run.fired
        /\ run.changed \subseteq run'.changed /\ run.touched \subseteq run'.touched
    BY <1>6 DEF Moves, Rests
  <2>2. PICK i \in DOMAIN Order :
          /\ Order[i] = d
          /\ i >= run.pos \/ \E b \in BackEdges : b[1] \in run.touched /\ b[2] <= i
    BY <1>8 DEF Ahead
  <2>3. i # p /\ i \in Nat
    BY <1>5, <1>8, <2>2, OrderLists
  <2>4. i >= run'.pos \/ \E b \in BackEdges : b[1] \in run'.touched /\ b[2] <= i
    BY <1>2, <1>4, <2>1, <2>2, <2>3
  <2> QED BY <1>8, <2>1, <2>2, <2>4 DEF Ahead, Woken, Wakes
<1>9. ASSUME NEW d \in Prompt
      PROVE  Shows(d, nets', regs') \/ (Woken(d)' /\ Ahead(d)')
  <2>1. d \in Devices /\ (Shows(d, nets, regs) \/ (Woken(d) /\ Ahead(d)))
    BY <1>1 DEF OInv, OwesInPass, Prompt
  <2>2. CASE Rests(c)
    <3>1. nets' = nets /\ (d = c => ~Woken(c) \/ Shows(c, nets, regs))
      BY <2>2 DEF Rests
    <3> QED BY <1>1, <1>8, <2>1, <3>1
  <2>3. CASE Moves(c) /\ nets[Out[c]] = Drive(c, nets, regs)
    <3>1. nets' = nets
      BY <1>2, <2>3 DEF Moves
    <3>2. d = c => Shows(d, nets, regs)
      BY <2>3 DEF Shows
    <3> QED BY <1>1, <1>8, <2>1, <3>1, <3>2
  <2>4. CASE Moves(c) /\ nets[Out[c]] # Drive(c, nets, regs)
    <3>1. /\ run'.pos = p + 1 /\ Out[c] \in run'.changed /\ p \in run'.touched
          /\ nets' = [nets EXCEPT ![Out[c]] = Drive(c, nets, regs)]
      BY <1>4, <2>4 DEF Moves
    <3>2. \A k : k # Out[c] => nets'[k] = nets[k]
      BY <1>2, <3>1
    <3>3. nets'[Out[c]] = Drive(c, nets, regs)
      BY <1>2, <3>1, NetlistAssumption
    <3>4. CASE d # c /\ Wakes(d, {Out[c]})
      <4>1. PICK i \in DOMAIN Order : Order[i] = d
        BY <2>1, SchedulerAssumption
      <4>2. p < i \/ <<p, i>> \in BackEdges
        BY <1>4, <1>5, <3>4, <4>1, OrderLists DEF Ranks
      <4>3. i >= run'.pos \/ \E b \in BackEdges : b[1] \in run'.touched /\ b[2] <= i
        <5>1. CASE p < i
          BY <1>4, <3>1, <4>1, <5>1, OrderLists
        <5>2. CASE <<p, i>> \in BackEdges
          <6>1. PICK b \in BackEdges : b = <<p, i>>
            BY <5>2
          <6>2. b[1] = p /\ b[2] = i /\ i <= i
            BY <4>1, <6>1, OrderLists
          <6> QED BY <3>1, <6>2
        <5> QED BY <4>2, <5>1, <5>2
      <4>4. Wakes(d, run'.changed)
        BY <3>1, <3>4 DEF Wakes
      <4> QED BY <4>1, <4>3, <4>4 DEF Woken, Ahead
    <3>5. CASE d # c /\ ~Wakes(d, {Out[c]})
      <4>1. Drive(d, nets', regs) = Drive(d, nets, regs)
        <5>1. \A i \in DOMAIN In[d] : nets'[In[d][i]] = nets[In[d][i]]
          BY <3>2, <3>5 DEF Wakes
        <5> QED BY <2>1, <5>1, DriveSame
      <4>2. nets'[Out[d]] = nets[Out[d]]
        BY <2>1, <3>2, <3>5 DEF OneDriver
      <4>3. Shows(d, nets, regs) => Shows(d, nets', regs)
        BY <4>1, <4>2 DEF Shows
      <4> QED BY <1>1, <1>8, <2>1, <3>5, <4>3
    <3>6. CASE d = c
      <4>1. Drive(d, nets', regs) = Drive(d, nets, regs)
        <5>1. CASE d \in Flops
          BY <5>1, FlopDrive
        <5>2. CASE d \notin Flops
          <6>1. \A i \in DOMAIN In[d] : nets'[In[d][i]] = nets[In[d][i]]
            BY <2>1, <3>2, <3>6, <5>2 DEF Ranks, Wakes
          <6> QED BY <2>1, <6>1, DriveSame
        <5> QED BY <5>1, <5>2
      <4> QED BY <1>1, <3>3, <3>6, <4>1 DEF Shows
    <3> QED BY <3>4, <3>5, <3>6
  <2> QED BY <1>6, <2>2, <2>3, <2>4
<1>10. ASSUME NEW d \in Prompt PROVE On((queue \ Due(queue, now))', Out[d]) = {}
  BY <1>7 DEF On
<1> QED BY <1>1, <1>3, <1>7, <1>9, <1>10
        DEF OInv, OwesNothingLate, OwesNothing, OwesAtRest, OwesAtDrain, OwesInPass

\* A pass ends with nothing owed, or goes back to the first device that is.
LEMMA OwedByPassEnd ==
  ASSUME TInv, CInv, OInv, DagPassEnd
  PROVE  OInv'
<1>1. /\ pc = "visit" /\ UNCHANGED <<after, now, nets, queue, regs, saved, inits>>
      /\ Evaluating /\ after \in {"ready", "attempted"}
      /\ Return \/ Fail \/ GoesOn
  BY PassEndStep DEF Evaluating, TInv, TypeOK
<1>2. OwesOnReturn'
  <2>1. Attempting => \A f \in Flops :
          regs'[f].q = saved.regs[f].q \/ ClockOf(f) \in Changed(chk.nets, chk.queue, now)
    BY <1>1 DEF OInv, OwesOnReturn
  <2> QED BY <1>1, <2>1, OwedOnReturn
<1>3. ASSUME NEW d \in Prompt PROVE On(queue, Out[d]) = {}
  BY <1>1 DEF OInv, OwesNothing
<1>4. ASSUME NEW d \in Prompt, ~Shows(d, nets, regs)
      PROVE  Woken(d) /\ \E i \in DOMAIN Order, x \in Restarts : Order[i] = d /\ x <= i
  <2>1. Woken(d) /\ Ahead(d)
    BY <1>1, <1>4 DEF OInv, OwesInPass
  <2>2. PICK i \in DOMAIN Order :
          /\ Order[i] = d
          /\ i >= run.pos \/ \E b \in BackEdges : b[1] \in run.touched /\ b[2] <= i
    BY <2>1 DEF Ahead
  <2>3. ~(i >= run.pos)
    <3>1. run.pos > Len(Order) /\ run.pos \in Nat
      BY DEF DagPassEnd, TInv, TypeOK, Locals
    <3>2. PICK l \in Nat : l = Len(Order) /\ i \in 1..l
      BY <2>2, OrderLists
    <3> QED BY <3>1, <3>2
  <2> QED BY <2>1, <2>2, <2>3 DEF Restarts
<1>5. CASE Restarts = {}
  <2>1. Return
    BY <1>5 DEF DagPassEnd
  <2> QED BY <1>1, <1>2, <1>3, <1>4, <1>5, <2>1, OwedAtReturn
<1>6. CASE Restarts # {} /\ Fail
  BY <1>2, <1>6 DEF Fail, OInv, OwesNothingLate, OwesNothing, OwesAtRest, OwesAtDrain, OwesInPass
<1>7. CASE Restarts # {} /\ ~Fail
  <2>1. /\ run' = [run EXCEPT !.pos = Least(Restarts), !.touched = {},
                     !.count = IF @ < MaxDelta THEN @ + 1 ELSE @]
        /\ pc' = "visit"
    BY <1>1, <1>7 DEF DagPassEnd
  <2>2. run'.pos = Least(Restarts) /\ run'.changed = run.changed /\ run'.fired = run.fired
    BY <2>1 DEF TInv, TypeOK, Locals
  <2>3. \A x \in Restarts : Least(Restarts) <= x /\ Least(Restarts) \in Nat /\ x \in Nat
    <3>1. Restarts \in SUBSET Nat
      BY SchedulerAssumption, OrderLists DEF Restarts
    <3>2. \E x \in Restarts : \A y \in Restarts : x <= y
      BY <1>7, <3>1, LeastExists
    <3>3. Least(Restarts) \in Restarts /\ \A y \in Restarts : Least(Restarts) <= y
      BY <3>2, Zenon DEF Least
    <3> QED BY <3>1, <3>3
  <2>4. ASSUME NEW d \in Prompt
        PROVE  Shows(d, nets', regs') \/ (Woken(d)' /\ Ahead(d)')
    <3>1. CASE Shows(d, nets, regs)
      BY <1>1, <3>1
    <3>2. CASE ~Shows(d, nets, regs)
      <4>1. PICK i \in DOMAIN Order, x \in Restarts : Order[i] = d /\ x <= i
        BY <1>4, <3>2
      <4>2. i \in Nat
        BY <4>1, OrderLists
      <4>3. i >= run'.pos
        BY <2>2, <2>3, <4>1, <4>2
      <4>4. Woken(d)
        BY <1>4, <3>2
      <4> QED BY <2>2, <4>1, <4>3, <4>4 DEF Woken, Ahead
    <3> QED BY <3>1, <3>2
  <2>5. ASSUME NEW d \in Prompt PROVE On((queue \ Due(queue, now))', Out[d]) = {}
    BY <1>1, <1>3 DEF On
  <2> QED BY <1>1, <1>2, <1>3, <2>1, <2>4, <2>5
          DEF OInv, OwesNothingLate, OwesNothing, OwesAtRest, OwesAtDrain, OwesInPass
<1> QED BY <1>5, <1>6, <1>7

\* A call that begins an evaluation where every gate says what it computes or is
\* about to be woken.
LEMMA OwedAtBegin ==
  ASSUME NEW t, NEW n, NEW q, NEW r, NEW target, Begin(t, n, q, r, target), OwesOnReturn',
         \A d \in Prompt : /\ On(q \ Due(q, t), Out[d]) = {}
                           /\ Says(d, n, q, r) \/ Wakes(d, Changed(n, q, t))
  PROVE  OInv'
<1>1. pc' \in {"drain", "delta"} /\ now' = t /\ nets' = n /\ queue' = q /\ regs' = r
  BY DEF Begin
<1> QED BY <1>1 DEF OInv, OwesNothingLate, OwesNothing, OwesAtRest, OwesAtDrain, OwesInPass

\* A hook drives no gate's net.
LEMMA HooksElsewhere ==
  ASSUME HostNets, NEW q, NEW H \in HookEvents, NEW d \in Devices
  PROVE  On(q \cup H, Out[d]) = On(q, Out[d])
<1>1. \A e \in H : e.net \in HookNets
  BY DEF HookEvents
<1> QED BY <1>1 DEF On, HostNets

\* An accepted step begins with nothing late on a prompt net: a sampler says what it
\* computes from the nets and its new register, and no other device has spoken.
LEMMA SamplersSay ==
  ASSUME OneDriver, HostNets, TInv, NEW d \in Prompt, NEW n \in [Nets -> LogicValue],
         NEW q, On(q, Out[d]) = {}, NEW H \in HookEvents, NEW r \in [Devices -> Reg],
         NEW Q, Q = q \cup H \cup Spoken(n, r)
  PROVE  /\ On(Q \ Due(Q, now), Out[d]) = {}
         /\ d \in Samplers => Says(d, n, Q, r)
         /\ d \notin Samplers => On(Q, Out[d]) = {}
<1>1. d \in Devices /\ Delay[d] = 0 /\ Samplers \subseteq Devices /\ Epsilon \in Nat /\ now \in Nat
  BY SchedulerAssumption DEF Prompt, TInv, TypeOK
<1>2. On(q \cup H, Out[d]) = {}
  BY <1>1, HooksElsewhere
<1>3. ASSUME NEW e \in On(Q, Out[d])
      PROVE  d \in Samplers /\ e.time = now /\ e.value = Drive(d, n, r)
  <2>1. e \in Spoken(n, r) /\ e.net = Out[d]
    BY <1>2, <1>3 DEF On
  <2>2. PICK c \in Samplers : e.net = Out[c] /\ e.time = now /\ e.value = Drive(c, n, r)
    BY <2>1, SpokenType
  <2>3. c = d
    BY <1>1, <2>1, <2>2 DEF OneDriver
  <2> QED BY <2>2, <2>3
<1>4. ASSUME On(Q \ Due(Q, now), Out[d]) # {} PROVE FALSE
  <2>1. PICK e \in Q : e.net = Out[d] /\ ~(e.time <= now + Epsilon)
    BY <1>4 DEF On, Due
  <2>2. e.time = now
    BY <1>3, <2>1 DEF On
  <2> QED BY <1>1, <2>1, <2>2
<1>5. ASSUME d \in Samplers, On(Q, Out[d]) = {} PROVE Shows(d, n, r)
  <2>1. ~Emits(d, n, r)
    BY <1>5, SpokenType DEF On
  <2> QED BY <1>1, <2>1 DEF Emits, Shows
<1> QED BY <1>3, <1>4, <1>5 DEF Says

\* The first power-on finds every net unknown, and every gate says what it computes
\* from that.
LEMMA OwedByPowerOn ==
  ASSUME OneDriver, InitLimit = 1, TInv, CInv, OInv, InitDigital
  PROVE  OInv'
<1>1. /\ pc \in {"off", "ready"} /\ inits = 0 /\ pc = "off"
      /\ Begin(0, nets, queue \cup InitEvents, [d \in Devices |-> PowerOnReg], "ready")
  BY DEF InitDigital, TInv, TypeOK, CInv
<1>2. nets = [k \in Nets |-> "X"]
  BY <1>1 DEF CInv
<1>3. ~Attempting'
  BY <1>1 DEF Begin, Attempting
<1> DEFINE r == [d \in Devices |-> PowerOnReg]
           q == queue \cup InitEvents
<1>4. ASSUME NEW d \in Prompt
      PROVE  On(q \ Due(q, 0), Out[d]) = {} /\ Says(d, nets, q, r)
  <2>1. d \in Devices /\ On(queue, Out[d]) = {}
    BY <1>1 DEF Prompt, OInv, OwesNothing
  <2> DEFINE e == [time |-> 0, net |-> Out[d], value |-> Drive(d, nets, r), seq |-> d - 1]
  <2>2. e \in InitEvents
    BY <1>2, <2>1 DEF InitEvents
  <2>3. ASSUME NEW x \in On(q, Out[d]) PROVE x.time = 0 /\ x.value = Drive(d, nets, r)
    <3>1. x \in InitEvents /\ x.net = Out[d]
      BY <2>1 DEF On
    <3>2. PICK c \in Devices : x = [time |-> 0, net |-> Out[c], value |-> Drive(c, nets, r),
                                    seq |-> c - 1]
      BY <1>2, <3>1 DEF InitEvents
    <3>3. c = d
      BY <2>1, <3>1, <3>2 DEF OneDriver
    <3> QED BY <3>2, <3>3
  <2>4. On(q, Out[d]) # {}
    BY <2>2 DEF On
  <2> HIDE DEF q, r
  <2>5. On(q \ Due(q, 0), Out[d]) = {}
    <3> SUFFICES ASSUME NEW x \in q \ Due(q, 0), x.net = Out[d] PROVE FALSE
      BY DEF On
    <3>1. x.time = 0 /\ Epsilon \in Nat
      BY <2>3, SchedulerAssumption DEF On
    <3> QED BY <3>1 DEF Due
  <2> QED BY <2>3, <2>4, <2>5 DEF Says
<1> HIDE DEF q, r
<1>5. OwesOnReturn'
  BY <1>3 DEF OwesOnReturn
<1>6. Begin(0, nets, q, r, "ready")
  BY <1>1 DEF q, r
<1> QED BY <1>4, <1>5, <1>6, OwedAtBegin

\* The calls of the circuit and of the time loop begin with what they found at rest;
\* at the floor a flop that took something new is woken again.
LEMMA OwedByCalls ==
  ASSUME OneDriver, HostNets, InitLimit = 1, TInv, CInv, OInv,
         InitDigital \/ RebuildTopology \/ Attempt \/ Accept \/ Reject \/ AcceptAtFloor
  PROVE  OInv'
<1>1. ASSUME NEW d \in Prompt, NEW n, NEW q, NEW r, On(q, Out[d]) = {}, Shows(d, n, r)
      PROVE  Says(d, n, q, r) /\ \A t : On(q \ Due(q, t), Out[d]) = {}
  BY <1>1 DEF Says, On
<1>2. Prompt \subseteq Devices
  BY DEF Prompt
<1>3. CASE InitDigital
  BY <1>3, OwedByPowerOn
<1>4. CASE RebuildTopology
  <2>1. /\ pc \in {"off", "ready"} /\ UNCHANGED <<pc, now, nets, queue, regs>>
    BY <1>4 DEF RebuildTopology, state
  <2>2. ~Attempting'
    BY <2>1 DEF Attempting, Evaluating
  <2> QED BY <2>1, <2>2 DEF OInv, OwesNothingLate, OwesNothing, OwesAtRest, OwesAtDrain, OwesInPass,
                            OwesOnReturn, Shows
<1>5. CASE Attempt
  <2>1. /\ pc = "ready" /\ Begin(Least(Pending), nets, queue, regs, "attempted")
        /\ chk' = [nets |-> nets, queue |-> queue]
        /\ saved' = [regs |-> regs, now |-> now]
    BY <1>5 DEF Attempt
  <2>2. \A d \in Prompt : On(queue, Out[d]) = {} /\ Shows(d, nets, regs)
    BY <2>1 DEF OInv, OwesNothing, OwesAtRest
  <2>3. chk'.nets = nets /\ chk'.queue = queue /\ saved'.regs = regs /\ regs' = regs
    BY <2>1 DEF Begin
  <2>4. OwesOnReturn'
    BY <2>2, <2>3 DEF OwesOnReturn, Shows
  <2>5. PICK t : t = Least(Pending)
    OBVIOUS
  <2>6. \A d \in Prompt : On(queue \ Due(queue, t), Out[d]) = {} /\ Says(d, nets, queue, regs)
    BY <1>1, <2>2
  <2> QED BY <2>1, <2>4, <2>5, <2>6, OwedAtBegin
<1>6. CASE Accept
  <2>0. PICK H \in HookEvents :
          Begin(now, nets, queue \cup H \cup Spoken(nets, Sampled(nets)), Sampled(nets), "ready")
    BY <1>6 DEF Accept, AcceptAndRun
  <2>1. PICK Q :
          /\ Q = queue \cup H \cup Spoken(nets, Sampled(nets))
          /\ Begin(now, nets, Q, Sampled(nets), "ready")
    BY <2>0
  <2>2. pc = "attempted" /\ nets \in [Nets -> LogicValue] /\ Synced(regs, nets)
    BY <1>6 DEF Accept, TInv, TypeOK, CInv
  <2>3. OwesOnReturn'
    BY <2>1 DEF Begin, OwesOnReturn, Attempting
  <2>4. PICK r \in [Devices -> Reg] : r = Sampled(nets)
    BY <2>2, SampledType
  <2>5. ASSUME NEW d \in Prompt
        PROVE  On(Q \ Due(Q, now), Out[d]) = {} /\ Says(d, nets, Q, r)
    <3>1. On(queue, Out[d]) = {} /\ Shows(d, nets, regs) /\ d \in Devices
      BY <1>2, <2>2 DEF OInv, OwesNothing, OwesAtRest
    <3>2. /\ On(Q \ Due(Q, now), Out[d]) = {}
          /\ d \in Samplers => Says(d, nets, Q, r)
          /\ d \notin Samplers => On(Q, Out[d]) = {}
      BY <2>1, <2>2, <2>4, <3>1, SamplersSay
    <3>3. CASE d \notin Samplers
      <4>1. r[d] = regs[d]
        BY <2>4, <3>1, <3>3, SampledValue
      <4>2. Drive(d, nets, r) = Drive(d, nets, regs)
        BY <3>1, <4>1, DriveSame
      <4> QED BY <3>1, <3>2, <3>3, <4>2 DEF Says, Shows
    <3> QED BY <3>2, <3>3
  <2> QED BY <2>1, <2>3, <2>4, <2>5, OwedAtBegin
<1>7. CASE Reject
  <2>1. /\ pc = "attempted" /\ pc' = "ready"
        /\ nets' = chk.nets /\ queue' = chk.queue /\ regs' = saved.regs
    BY <1>7 DEF Reject
  <2>2. \A d \in Prompt : On(chk.queue, Out[d]) = {} /\ Shows(d, chk.nets, saved.regs)
    BY <2>1 DEF OInv, OwesOnReturn, Attempting
  <2>3. ASSUME NEW d \in Prompt PROVE On((queue \ Due(queue, now))', Out[d]) = {}
    BY <2>1, <2>2 DEF On
  <2>4. ~Attempting'
    BY <2>1 DEF Attempting, Evaluating
  <2> QED BY <2>1, <2>2, <2>3, <2>4
          DEF OInv, OwesNothingLate, OwesNothing, OwesAtRest, OwesAtDrain, OwesInPass,
              OwesOnReturn, Shows
<1>8. CASE AcceptAtFloor
  <2>0. PICK H \in HookEvents :
          Begin(now, chk.nets, chk.queue \cup H \cup Spoken(chk.nets, Sampled(chk.nets)), Sampled(chk.nets), "ready")
    BY <1>8 DEF AcceptAtFloor, AcceptAndRun
  <2>1. PICK Q :
          /\ Q = chk.queue \cup H \cup Spoken(chk.nets, Sampled(chk.nets))
          /\ Begin(now, chk.nets, Q, Sampled(chk.nets), "ready")
    BY <2>0
  <2>2. pc = "attempted" /\ Attempting
    BY <1>8 DEF AcceptAtFloor, Attempting
  <2>3. OwesOnReturn'
    BY <2>1 DEF Begin, OwesOnReturn, Attempting
  <2>4. PICK n \in [Nets -> LogicValue] : n = chk.nets
    BY <2>2 DEF TInv, TypeOK, Attempting
  <2>5. PICK r \in [Devices -> Reg] : r = Sampled(n)
    BY <2>4, SampledType
  <2>6. ASSUME NEW d \in Prompt
        PROVE  /\ On(Q \ Due(Q, now), Out[d]) = {}
               /\ Says(d, n, Q, r) \/ Wakes(d, Changed(n, Q, now))
    <3>1. On(chk.queue, Out[d]) = {} /\ Shows(d, n, saved.regs) /\ d \in Devices
      BY <1>2, <2>2, <2>4 DEF OInv, OwesOnReturn
    <3>2. /\ On(Q \ Due(Q, now), Out[d]) = {}
          /\ d \in Samplers => Says(d, n, Q, r)
          /\ d \notin Samplers => On(Q, Out[d]) = {}
      BY <2>1, <2>4, <2>5, <3>1, SamplersSay
    <3>3. d \notin Samplers => r[d] = regs[d]
      BY <2>5, <3>1, SampledValue
    <3>4. CASE d \notin Samplers /\ (d \in Flops => regs[d].q = saved.regs[d].q)
      <4>1. Drive(d, n, r) = Drive(d, n, saved.regs)
        BY <3>1, <3>3, <3>4, DriveSame
      <4> QED BY <3>1, <3>2, <3>4, <4>1 DEF Says, Shows
    <3>5. CASE d \in Flops /\ regs[d].q # saved.regs[d].q
      <4>1. ClockOf(d) \in Changed(n, chk.queue, now)
        BY <2>2, <2>4, <3>5 DEF OInv, OwesOnReturn
      <4>2. ClockOf(d) \in Changed(n, Q, now)
        <5>1. PICK E : Q = chk.queue \cup E
          BY <2>1
        <5> QED BY <4>1, <5>1, MoreChange
      <4>3. 1 \in DOMAIN In[d]
        BY <3>5, FlopPorts
      <4> QED BY <3>2, <4>2, <4>3 DEF Wakes, ClockOf
    <3> QED BY <3>2, <3>4, <3>5
  <2> QED BY <2>1, <2>3, <2>4, <2>5, <2>6, OwedAtBegin
<1> QED BY <1>3, <1>4, <1>5, <1>6, <1>7, <1>8

\* Before power-on no gate has anything on its net, and none of its nets is promised.
LEMMA OInvInit == HostNets /\ Init => OInv
<1> SUFFICES ASSUME HostNets, Init PROVE OInv
  OBVIOUS
<1>1. pc = "off" /\ queue \in Stimuli
  BY DEF Init
<1>2. ASSUME NEW d \in Prompt PROVE On(queue, Out[d]) = {}
  BY <1>1 DEF Prompt, HostNets, On
<1>3. ASSUME NEW d \in Prompt PROVE On(queue \ Due(queue, now), Out[d]) = {}
  BY <1>2 DEF On
<1> QED BY <1>1, <1>2, <1>3
        DEF OInv, OwesNothingLate, OwesNothing, OwesAtRest, OwesAtDrain, OwesInPass,
            OwesOnReturn, Attempting, Evaluating

\* No step leaves a gate behind that nothing will wake.
LEMMA OInvNext ==
  ASSUME OneDriver, HostNets, Ranks, InitLimit = 1
  PROVE  TInv /\ CInv /\ OInv /\ [Next]_vars => OInv'
<1> SUFFICES ASSUME TInv, CInv, OInv, [Next]_vars PROVE OInv'
  OBVIOUS
<1>1. CASE Evaluate
  BY <1>1, OwedByDelta, OwedByDrain, OwedByVisit, OwedByPassEnd DEF Evaluate
<1>2. CASE InitDigital \/ RebuildTopology \/ Attempt \/ Accept \/ Reject \/ AcceptAtFloor
  BY <1>2, OwedByCalls
<1>3. CASE Quiet \/ UNCHANGED vars
  <2>1. UNCHANGED <<pc, after, now, nets, queue, regs, run, chk, saved>>
    BY <1>3 DEF Quiet, vars, state
  <2> QED BY <2>1
          DEF OInv, OwesNothingLate, OwesNothing, OwesAtRest, OwesAtDrain, OwesInPass,
              OwesOnReturn, Shows, Says, Woken, Ahead, Attempting, Evaluating
<1> QED BY <1>1, <1>2, <1>3 DEF Next

\* No gate is left unevaluated and none reads a net that moved after it: between runs
\* every gate without a delay has on its net what it computes from the nets and
\* registers as they are, and nothing else is on its way there. The order need not be
\* topological, only cover what it cannot follow by back edges.
THEOREM PromptOutputsCatchUp ==
  ASSUME HostClocks, OneDriver, HostNets, Ranks, InitLimit = 1
  PROVE  Spec => [](Settled => \A d \in Prompt : On(queue, Out[d]) = {} /\ Shows(d, nets, regs))
<1>1. OInv => (Settled => \A d \in Prompt : On(queue, Out[d]) = {} /\ Shows(d, nets, regs))
  BY DEF OInv, OwesNothing, OwesAtRest, Settled
<1>2. TInv /\ CInv /\ OInv /\ [Next]_vars => OInv'
  BY OInvNext
<1>3. TInv /\ CInv /\ [Next]_vars => CInv'
  BY CInvNext
<1>4. Init => OInv
  BY OInvInit
<1> QED BY <1>1, <1>2, <1>3, <1>4, CInvInit, InitTInv, TInvNext, PTL DEF Spec

\* So in a circuit of compiled devices, which emit at once, outputs catch up: with
\* either evaluator, through feedback, after a rejected step and after one accepted
\* at the floor.
THEOREM OutputsAreRight ==
  ASSUME HostClocks, OneDriver, HostNets, Ranks, InitLimit = 1, Prompt = Devices
  PROVE  Spec => []OutputsCatchUp
<1>1. (Settled => \A d \in Prompt : On(queue, Out[d]) = {} /\ Shows(d, nets, regs))
        => OutputsCatchUp
  BY DEF OutputsCatchUp, Shows
<1> QED BY <1>1, PromptOutputsCatchUp, PTL

\* Every gate that emits at once reads the prompt devices below it only: the part of
\* the circuit that settles at once is combinational.
Rises(r) ==
  \A c \in Prompt, d \in Prompt \ Flops : Wakes(d, {Out[c]}) => r[c] < r[d]

\* The values the nets of the prompt devices may settle on, the other nets being as
\* they are in m.
Solves(n, m, s) ==
  /\ \A k \in Nets : (\A d \in Prompt : k # Out[d]) => n[k] = m[k]
  /\ \A d \in Prompt : Shows(d, n, s)

\* Two solutions are one: they agree level by level.
LEMMA OneSolution ==
  ASSUME NEW r \in [Devices -> Nat], Rises(r),
         NEW s, NEW m \in [Nets -> LogicValue], \A d \in Prompt : Shows(d, m, s),
         NEW n \in [Nets -> LogicValue], Solves(n, m, s)
  PROVE  n = m
<1> DEFINE Differ == {d \in Prompt : n[Out[d]] # m[Out[d]]}
           Heights == {r[d] : d \in Differ}
<1>1. Differ = {}
  <2>1. SUFFICES ASSUME Differ # {}
                 PROVE  FALSE
    OBVIOUS
  <2>2. PICK x \in Heights : \A y \in Heights : x <= y
    <3>1. Heights \subseteq Nat /\ Heights # {}
      BY <2>1 DEF Prompt
    <3> HIDE DEF Heights
    <3> QED BY <3>1, LeastExists
  <2>3. PICK d \in Differ : r[d] = x
    BY <2>2
  <2>4. d \in Prompt /\ d \in Devices /\ n[Out[d]] # m[Out[d]]
    BY <2>3 DEF Prompt
  <2>5. \A c \in Differ : ~(r[c] < r[d])
    <3>1. SUFFICES ASSUME NEW c \in Differ
                   PROVE  ~(r[c] < r[d])
      OBVIOUS
    <3>2. r[c] \in Heights /\ r[c] \in Nat /\ r[d] \in Nat
      BY <2>4 DEF Prompt
    <3> HIDE DEF Heights
    <3> QED BY <2>2, <2>3, <3>2
  <2>6. d \notin Flops
    <3>1. CASE d \in Flops
      BY <2>4, <3>1 DEF Shows, Solves, Drive, Flops
    <3> QED BY <3>1
  <2>7. ASSUME NEW i \in DOMAIN In[d]
        PROVE  n[In[d][i]] = m[In[d][i]]
    <3>1. In[d][i] \in Nets
      BY <2>4, NetlistAssumption
    <3>2. CASE \A c \in Prompt : In[d][i] # Out[c]
      BY <3>1, <3>2 DEF Solves
    <3>3. CASE \E c \in Prompt : In[d][i] = Out[c]
      <4>1. PICK c \in Prompt : In[d][i] = Out[c]
        BY <3>3
      <4>2. Wakes(d, {Out[c]})
        BY <4>1 DEF Wakes
      <4>3. r[c] < r[d]
        BY <2>4, <2>6, <4>2 DEF Rises
      <4>4. c \notin Differ
        BY <2>5, <4>3
      <4> QED BY <4>1, <4>4
    <3> QED BY <3>2, <3>3
  <2>8. Drive(d, n, s) = Drive(d, m, s)
    BY <2>4, <2>7, DriveSame
  <2> QED BY <2>4, <2>8 DEF Shows, Solves
<1>2. ASSUME NEW k \in Nets
      PROVE  n[k] = m[k]
  <2>1. CASE \A d \in Prompt : k # Out[d]
    BY <2>1 DEF Solves
  <2>2. CASE \E d \in Prompt : k = Out[d]
    BY <1>1, <2>2
  <2> QED BY <2>1, <2>2
<1> QED BY <1>2

\* Either evaluator, in whatever order it takes the devices and however often it
\* restarts, leaves the one answer there is: the nets after a run are determined by
\* the registers and by the nets that no prompt device drives.
THEOREM TheAnswerIsUnique ==
  ASSUME HostClocks, OneDriver, HostNets, Ranks, InitLimit = 1,
         NEW r \in [Devices -> Nat], Rises(r)
  PROVE  Spec => [](Settled => \A n \in [Nets -> LogicValue] :
                                 Solves(n, nets, regs) => n = nets)
<1>1. TInv /\ (Settled => \A d \in Prompt : On(queue, Out[d]) = {} /\ Shows(d, nets, regs))
        => (Settled => \A n \in [Nets -> LogicValue] : Solves(n, nets, regs) => n = nets)
  BY OneSolution DEF TInv, TypeOK
<1> QED BY <1>1, PromptOutputsCatchUp, InitTInv, TInvNext, PTL DEF Spec

-----------------------------------------------------------------------------
(* How far an evaluation may go.                                             *)

\* The counters of a run never pass what the plan and the circuit allow.
Within ==
  Evaluating => run.count < MaxDelta /\ run.pos \in 1..(Len(Order) + 1)

\* A step gets on: to the next cycle or pass, or to the next device of the pass.
GetsOn ==
  \/ pc = "drain"
  \/ run'.count > run.count
  \/ run'.count = run.count /\ run'.pos > run.pos

\* What a step of an evaluation that does not end does to its counters.
LEMMA StepGetsOn ==
  ASSUME TInv, Within, Evaluate, Evaluating'
  PROVE  GetsOn /\ Within'
<1>1. /\ run \in Locals /\ run.count \in Nat /\ run.pos \in Nat /\ MaxDelta \in Nat \ {0}
      /\ Len(Order) \in Nat /\ after \in {"ready", "attempted"}
  BY SchedulerAssumption, OrderLists DEF TInv, TypeOK, Locals
<1>2. ~Return /\ ~Fail
  BY <1>1 DEF Return, Fail, Evaluating
<1>3. Evaluating => run.count < MaxDelta /\ run.pos \in 1..(Len(Order) + 1)
  BY DEF Within
<1>4. CASE DeltaCycle
  <2>1. ~(run.count + 1 >= MaxDelta) /\ pc = "delta"
    BY <1>2, <1>4 DEF DeltaCycle
  <2>2. PICK s : run' = [run EXCEPT !.count = @ + 1, !.seq = s]
    BY <1>2, <1>4 DEF DeltaCycle
  <2>3. run'.count = run.count + 1 /\ run'.pos = run.pos
    BY <1>1, <2>2 DEF Locals
  <2> QED BY <1>1, <1>3, <2>1, <2>3 DEF GetsOn, Within, Evaluating
<1>5. CASE DagDrain
  <2>1. pc = "drain"
    BY <1>5 DEF DagDrain
  <2>2. PICK C, F : run' = [Fresh EXCEPT !.changed = C, !.fired = F]
    BY <1>2, <1>5 DEF DagDrain
  <2>3. run'.count = 0 /\ run'.pos = 1
    BY <2>2 DEF Fresh
  <2> QED BY <1>1, <2>1, <2>3 DEF GetsOn, Within
<1>6. CASE DagVisit
  <2>1. pc = "visit" /\ run.pos <= Len(Order)
    BY <1>6 DEF DagVisit
  <2>2. run'.pos = run.pos + 1 /\ run'.count = run.count
    <3>1. PICK v : v = [run EXCEPT !.pos = @ + 1]
      OBVIOUS
    <3>2. v.pos = run.pos + 1 /\ v.count = run.count /\ v \in Locals
      BY <1>1, <3>1 DEF Locals
    <3> DEFINE e     == Emission(Order[run.pos], nets, regs, run.seq)
               moves == nets[e.net] # e.value
    <3>3. \/ run' = v
          \/ run' = [v EXCEPT !.seq = NextSeq(@)]
          \/ run' = [v EXCEPT !.seq = NextSeq(@),
                       !.changed = IF moves THEN @ \cup {e.net} ELSE @,
                       !.touched = IF moves THEN @ \cup {run.pos} ELSE @]
      BY <1>6, <3>1 DEF DagVisit
    <3> HIDE DEF e, moves
    <3> QED BY <3>2, <3>3 DEF Locals
  <2> QED BY <1>1, <1>3, <2>1, <2>2 DEF GetsOn, Within, Evaluating
<1>7. CASE DagPassEnd
  <2>1. Restarts # {} /\ ~Capped(run.count) /\ pc = "visit"
    BY <1>2, <1>7 DEF DagPassEnd
  <2>2. run' = [run EXCEPT !.pos = Least(Restarts), !.touched = {},
                  !.count = IF @ < MaxDelta THEN @ + 1 ELSE @]
    BY <1>2, <1>7, <2>1 DEF DagPassEnd
  <2>3. run.count + 1 < MaxDelta
    BY <1>1, <2>1 DEF Capped
  <2>4. run'.count = run.count + 1 /\ run'.pos = Least(Restarts)
    BY <1>1, <2>2, <2>3 DEF Locals
  <2>5. Least(Restarts) \in 1..Len(Order)
    <3>1. Restarts \in SUBSET (1..Len(Order))
      BY SchedulerAssumption, OrderLists DEF Restarts
    <3>2. Restarts \in SUBSET Nat
      BY <1>1, <3>1
    <3>3. \E x \in Restarts : \A y \in Restarts : x <= y
      BY <2>1, <3>2, LeastExists
    <3>4. Least(Restarts) \in Restarts
      BY <3>3, Zenon DEF Least
    <3> QED BY <3>1, <3>4
  <2> QED BY <1>1, <2>3, <2>4, <2>5 DEF GetsOn, Within
<1> QED BY <1>4, <1>5, <1>6, <1>7 DEF Evaluate

\* Every step keeps an evaluation within its caps.
LEMMA WithinNext == TInv /\ Within /\ [Next]_vars => Within'
<1> SUFFICES ASSUME TInv, Within, [Next]_vars PROVE Within'
  OBVIOUS
<1>1. CASE Evaluate
  BY <1>1, StepGetsOn DEF Within
<1>2. CASE InitDigital \/ Attempt \/ Accept \/ AcceptAtFloor
  <2>1. run' = Fresh
    BY <1>2 DEF InitDigital, Attempt, Accept, AcceptAtFloor, AcceptAndRun, Begin
  <2>2. run'.count = 0 /\ run'.pos = 1
    BY <2>1 DEF Fresh
  <2> QED BY <2>2, SchedulerAssumption, OrderLists DEF Within
<1>3. CASE RebuildTopology \/ Reject
  <2>1. pc' \in {"off", "ready"}
    BY <1>3 DEF RebuildTopology, Reject
  <2> QED BY <2>1 DEF Within, Evaluating
<1>4. CASE Quiet \/ UNCHANGED vars
  BY <1>4 DEF Quiet, vars, Within, Evaluating
<1> QED BY <1>1, <1>2, <1>3, <1>4 DEF Next

\* The caps of the plan: in an evaluation that does not end, each step moves the pair
\* of cycle (or pass) and device on, and both are bounded, so that no run can take
\* more than MaxDelta passes over the order, whatever the circuit does. It is what
\* RunsEnd rests on.
THEOREM EvaluationsGetOn ==
  Spec => []Within /\ [][Evaluating /\ Evaluating' => GetsOn]_vars
<1>1. ASSUME TInv, Within, Next, Evaluating, Evaluating' PROVE GetsOn
  <2>1. Evaluate
    BY <1>1 DEF Next, InitDigital, RebuildTopology, Attempt, Accept, Reject, AcceptAtFloor,
                Quiet, Evaluating
  <2> QED BY <1>1, <2>1, StepGetsOn
<1>2. TInv /\ Within /\ [Next]_vars => [Evaluating /\ Evaluating' => GetsOn]_vars
  BY <1>1
<1>3. Init => Within
  BY DEF Init, Within, Evaluating
<1> QED BY <1>2, <1>3, WithinNext, InitTInv, TInvNext, PTL DEF Spec

-----------------------------------------------------------------------------
(* Circuits with loops, and parts of them without.                           *)

\* T are the devices that read a loop, directly or not; r numbers the others so
\* that each comes after those it reads, which are all outside T.
Levels(T, r) ==
  /\ T \in SUBSET Devices /\ r \in [Devices -> Nat]
  /\ \A c, d \in Devices : Wakes(d, {Out[c]}) /\ d \notin T => c \notin T /\ r[c] < r[d]

\* In the k-th cycle what is due comes from T or from devices of level k - 1 and
\* above.
Deep(T, r) ==
  pc = "delta" /\ run.count > 0 =>
    \A e \in Due(queue, now) :
      \E d \in Devices : e.net = Out[d] /\ (d \in T \/ r[d] + 1 >= run.count)

\* A cycle is due only to the devices one level further.
LEMMA DeepDelta ==
  ASSUME NEW T, NEW r, Levels(T, r), TInv, Deep(T, r), DeltaCycle
  PROVE  Deep(T, r)'
<1>1. /\ run \in Locals /\ run.count \in Nat /\ now \in Nat /\ Epsilon \in Nat
      /\ after \in {"ready", "attempted"} /\ r \in [Devices -> Nat] /\ pc = "delta"
      /\ UNCHANGED now
  BY SchedulerAssumption DEF TInv, TypeOK, Locals, Levels, DeltaCycle
<1> SUFFICES ASSUME pc' = "delta", NEW e \in Due(queue', now')
             PROVE  \E d \in Devices : e.net = Out[d] /\ (d \in T \/ r[d] + 1 >= run'.count)
  BY DEF Deep
<1>2. ~Return /\ ~Fail
  BY <1>1 DEF Return, Fail
<1>3. /\ run'.count = run.count + 1
      /\ \A x \in queue' : \/ x \in queue \ Due(queue, now)
                           \/ \E d \in Devices : /\ Wakes(d, Changed(nets, queue, now))
                                                 /\ x.net = Out[d]
  <2>1. PICK n \in Drained(nets, queue, now) :
          LET changed == Changed(nets, queue, now)
              q       == SeqPhase(n, regs, changed)
              woken   == {d \in Devices : Wakes(d, changed)}
              speak   == {d \in woken : Emits(d, n, q)}
              seqOf(d) == run.seq + Cardinality({c \in speak : c < d})
          IN  /\ regs' = q
              /\ queue' = (queue \ Due(queue, now))
                            \cup {Emission(d, n, q, seqOf(d)) : d \in speak}
              /\ run' = [run EXCEPT !.count = @ + 1, !.seq = @ + Cardinality(speak)]
    BY <1>2 DEF DeltaCycle
  <2> DEFINE changed == Changed(nets, queue, now)
             speak == {c \in {d \in Devices : Wakes(d, changed)} : Emits(c, n, regs')}
             seqOf(d) == run.seq + Cardinality({c \in speak : c < d})
  <2>2. /\ queue' = (queue \ Due(queue, now)) \cup {Emission(d, n, regs', seqOf(d)) : d \in speak}
        /\ run' = [run EXCEPT !.count = @ + 1, !.seq = @ + Cardinality(speak)]
    BY <2>1
  <2>3. \A d \in speak : d \in Devices /\ Wakes(d, changed)
    OBVIOUS
  <2> HIDE DEF changed, speak, seqOf
  <2>4. run'.count = run.count + 1
    BY <1>1, <2>2 DEF Locals
  <2>5. ASSUME NEW x \in queue', x \notin queue \ Due(queue, now)
        PROVE  \E d \in Devices : Wakes(d, changed) /\ x.net = Out[d]
    <3>1. PICK d \in speak : x = Emission(d, n, regs', seqOf(d))
      BY <2>2, <2>5
    <3>2. x.net = Out[d]
      BY <3>1 DEF Emission
    <3> QED BY <2>3, <3>2
  <2> QED BY <2>4, <2>5 DEF changed
<1>4. e \notin queue \ Due(queue, now)
  BY <1>1 DEF Due
<1>5. PICK d \in Devices : Wakes(d, Changed(nets, queue, now)) /\ e.net = Out[d]
  BY <1>3, <1>4 DEF Due
<1>6. CASE run.count = 0
  <2>1. r[d] + 1 >= run'.count
    BY <1>1, <1>3, <1>6
  <2> QED BY <1>5, <2>1
<1>7. CASE run.count > 0
  <2>1. PICK i \in DOMAIN In[d] : In[d][i] \in Changed(nets, queue, now)
    BY <1>5 DEF Wakes
  <2>2. PICK x \in Due(queue, now) : x.net = In[d][i]
    BY <2>1 DEF Changed, On
  <2>3. PICK c \in Devices : x.net = Out[c] /\ (c \in T \/ r[c] + 1 >= run.count)
    BY <1>1, <1>7, <2>2 DEF Deep
  <2>4. Wakes(d, {Out[c]})
    BY <2>1, <2>2, <2>3 DEF Wakes
  <2>5. d \notin T => c \notin T /\ r[c] < r[d] /\ r[c] \in Nat /\ r[d] \in Nat
    BY <1>1, <2>4 DEF Levels
  <2>6. d \notin T => r[d] + 1 >= run'.count
    BY <1>1, <1>3, <2>3, <2>5
  <2> QED BY <1>5, <2>6
<1> QED BY <1>1, <1>6, <1>7

\* Every step keeps the levels: what a cycle drives lies one above what woke it.
LEMMA DeepNext ==
  ASSUME NEW T, NEW r, Levels(T, r)
  PROVE  TInv /\ Deep(T, r) /\ [Next]_vars => Deep(T, r)'
<1> SUFFICES ASSUME TInv, Deep(T, r), [Next]_vars PROVE Deep(T, r)'
  OBVIOUS
<1>1. CASE DeltaCycle
  BY <1>1, DeepDelta
<1>2. CASE DagDrain \/ DagVisit \/ DagPassEnd
  <2>1. pc' # "delta"
    BY <1>2 DEF DagDrain, DagVisit, DagPassEnd, Return, Fail, TInv, TypeOK
  <2> QED BY <2>1 DEF Deep
<1>3. CASE InitDigital \/ Attempt \/ Accept \/ AcceptAtFloor
  <2>1. run'.count = 0
    BY <1>3 DEF InitDigital, Attempt, Accept, AcceptAtFloor, AcceptAndRun, Begin, Fresh
  <2> QED BY <2>1 DEF Deep
<1>4. CASE RebuildTopology \/ Reject
  <2>1. pc' \in {"off", "ready"}
    BY <1>4 DEF RebuildTopology, Reject
  <2> QED BY <2>1 DEF Deep
<1>5. CASE Quiet \/ UNCHANGED vars
  BY <1>5 DEF Quiet, vars, state, Deep
<1> QED BY <1>1, <1>2, <1>3, <1>4, <1>5 DEF Next, Evaluate

\* What a loop does in the step that gives an evaluation up: all that is due in the
\* cycle comes from it, or it changed in the pass.
LoopTurns(T) ==
  \/ /\ pc = "delta" /\ Due(queue, now) # {}
     /\ \A e \in Due(queue, now) : \E d \in T : e.net = Out[d]
  \/ pc = "visit" /\ \E p \in run.touched : Order[p] \in T

\* An evaluation that gives up does so over devices of T.
LEMMA GivesUpOverLoops ==
  ASSUME NEW T, NEW r, Levels(T, r), MaxDelta > 1,
         \A d \in Devices \ T : r[d] + 2 < MaxDelta,
         \A b \in BackEdges : Order[b[1]] \in T,
         TInv, Deep(T, r), Next, pc # "failed", pc' = "failed"
  PROVE  LoopTurns(T)
<1>1. /\ run.count \in Nat /\ MaxDelta \in Nat /\ r \in [Devices -> Nat] /\ T \in SUBSET Devices
      /\ after \in {"ready", "attempted"}
  BY SchedulerAssumption DEF TInv, TypeOK, Locals, Levels
<1>2. CASE DeltaCycle
  <2>1. /\ Due(queue, now) # {} /\ run.count + 1 >= MaxDelta /\ pc = "delta"
    BY <1>1, <1>2 DEF DeltaCycle, Return
  <2>2. run.count > 0
    BY <1>1, <2>1
  <2>3. ASSUME NEW e \in Due(queue, now) PROVE \E d \in T : e.net = Out[d]
    <3>1. PICK d \in Devices : e.net = Out[d] /\ (d \in T \/ r[d] + 1 >= run.count)
      BY <2>1, <2>2 DEF Deep
    <3>2. d \notin T => r[d] \in Nat /\ r[d] + 2 < MaxDelta
      BY <1>1
    <3> QED BY <1>1, <2>1, <3>1, <3>2
  <2> QED BY <2>1, <2>3 DEF LoopTurns
<1>3. CASE DagDrain \/ DagVisit
  BY <1>1, <1>3 DEF DagDrain, DagVisit, Return
<1>4. CASE DagPassEnd
  <2>1. Restarts # {} /\ pc = "visit"
    BY <1>1, <1>4 DEF DagPassEnd, Return
  <2>2. PICK b \in BackEdges : b[1] \in run.touched
    BY <2>1 DEF Restarts
  <2> QED BY <2>1, <2>2 DEF LoopTurns
<1>5. CASE InitDigital \/ RebuildTopology \/ Attempt \/ Accept \/ Reject \/ AcceptAtFloor
  BY <1>5 DEF InitDigital, RebuildTopology, Attempt, Accept, Reject, AcceptAtFloor,
                 AcceptAndRun, Begin
<1>6. CASE Quiet
  BY <1>6 DEF Quiet, vars
<1> QED BY <1>2, <1>3, <1>4, <1>5, <1>6 DEF Next, Evaluate

\* Only loops, and what reads them, exhaust the caps: where the other devices have
\* levels, two fewer than the cycles the plan allows, and the back edges leave from
\* T, an evaluation gives up only in a cycle in which everything due is on nets that
\* T drives, or after a pass in which a device of T changed.
THEOREM LooplessPartsSettle ==
  ASSUME NEW T, NEW r, Levels(T, r), MaxDelta > 1,
         \A d \in Devices \ T : r[d] + 2 < MaxDelta,
         \A b \in BackEdges : Order[b[1]] \in T
  PROVE  Spec => [][pc # "failed" /\ pc' = "failed" => LoopTurns(T)]_vars
<1>1. TInv /\ Deep(T, r) /\ [Next]_vars => [pc # "failed" /\ pc' = "failed" => LoopTurns(T)]_vars
  BY GivesUpOverLoops
<1>2. Init => Deep(T, r)
  BY DEF Init, Deep
<1>3. TInv /\ Deep(T, r) /\ [Next]_vars => Deep(T, r)'
  BY DeepNext
<1> QED BY <1>1, <1>2, <1>3, InitTInv, TInvNext, PTL DEF Spec

\* A circuit without loops never gives up: if its devices have levels, two fewer than
\* the cycles the plan allows, and no back edges, every evaluation settles, whatever
\* events the host and the hooks bring at one instant.
THEOREM LooplessCircuitsSettle ==
  ASSUME NEW r, Levels({}, r), \A d \in Devices : r[d] + 2 < MaxDelta, MaxDelta > 1,
         BackEdges = {}
  PROVE  Spec => [](pc # "failed")
<1>1. TInv /\ Deep({}, r) /\ pc # "failed" /\ [Next]_vars => (pc # "failed")'
  <2> SUFFICES ASSUME TInv, Deep({}, r), pc # "failed", [Next]_vars, pc' = "failed" PROVE FALSE
    OBVIOUS
  <2>1. Next
    BY DEF vars
  <2>2. LoopTurns({})
    BY <2>1, GivesUpOverLoops
  <2> QED BY <2>2 DEF LoopTurns
<1>2. Init => Deep({}, r) /\ pc # "failed"
  BY DEF Init, Deep
<1>3. TInv /\ Deep({}, r) /\ [Next]_vars => Deep({}, r)'
  BY DeepNext
<1> QED BY <1>1, <1>2, <1>3, InitTInv, TInvNext, PTL DEF Spec
====
