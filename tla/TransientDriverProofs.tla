------------------------- MODULE TransientDriverProofs -------------------------
(***************************************************************************)
(* Proofs about the time loop of TransientDriver, for every set of events,  *)
(* writes and breakpoints and every step bound: its state keeps its types,  *)
(* no step reaches past anything declared, nothing due is left behind by an *)
(* accepted one, and every step brings the end of the run nearer.           *)
(***************************************************************************)
EXTENDS TransientDriver, ExtremumTheorems, TLAPS

-----------------------------------------------------------------------------
(* What the operators of Discontinuities return and bound: the net a set of   *)
(* applied events leaves, the queue a run of the digital side leaves, and the *)
(* parameters a batch of writes leaves.                                       *)

\* Latest picks an event of the set, one that no other follows.
LEMMA LatestIn ==
  ASSUME NEW A \in SUBSET DEvents, A # {}
  PROVE  Latest(A) \in A /\ \A f \in A : DTime[f] <= DTime[Latest(A)]
<1>1. \E e \in A : \A f \in A : DTime[f] <= DTime[e]
  <2>1. IsFiniteSet(DEvents) /\ DTime \in [DEvents -> Nat]
    BY EventAssumption
  <2> QED BY <2>1, GreatestExists
<1> QED BY <1>1, Zenon DEF Latest

\* A net is 0 or 1 whatever was applied to it.
LEMMA NetBit ==
  ASSUME NEW A \in SUBSET DEvents
  PROVE  Net(A) \in {0, 1}
<1>1. CASE A = {}
  BY <1>1 DEF Net
<1>2. CASE A # {}
  <2>1. Latest(A) \in DEvents
    BY <1>2, LatestIn
  <2>2. DVal \in [DEvents -> {0, 1}]
    BY EventAssumption
  <2>3. DVal[Latest(A)] \in {0, 1}
    BY <2>1, <2>2
  <2> QED BY <1>2, <2>3 DEF Net
<1> QED BY <1>1, <1>2

\* Running the digital side consumes events and queues events.
LEMMA RunDigitalType ==
  ASSUME NEW d \in Digital, NEW t \in Nat
  PROVE  RunDigital(d, t) \in Digital
<1>1. d.pending \in SUBSET DEvents /\ d.applied \in SUBSET DEvents
  BY DEF Digital
<1>2. Due(d, t) \in SUBSET DEvents
  BY <1>1 DEF Due
<1>3. UNION {Follow[e] : e \in Due(d, t)} \in SUBSET DEvents
  <2>1. Follow \in [DEvents -> SUBSET DEvents]
    BY EventAssumption
  <2> QED BY <1>2, <2>1
<1>4. /\ (d.pending \ Due(d, t)) \cup UNION {Follow[e] : e \in Due(d, t)} \in SUBSET DEvents
      /\ d.applied \cup Due(d, t) \in SUBSET DEvents
  BY <1>1, <1>2, <1>3
<1> QED BY <1>4 DEF RunDigital, Digital

\* Seeding the queue with the events of the accept hooks.
LEMMA SeedType ==
  ASSUME NEW d \in Digital, NEW t \in Nat, NEW hooks \in SUBSET HookEvents(t)
  PROVE  Seed(d, hooks) \in Digital
<1>1. hooks \in SUBSET DEvents
  BY EventAssumption DEF HookEvents
<1> QED BY <1>1 DEF Seed, Digital

\* A queue with nothing before t has nothing at or before t once it is run
\* there: what is due leaves it, and what follows comes later.
LEMMA RunLeavesLater ==
  ASSUME NEW d \in Digital, NEW t \in Nat,
         \A e \in d.pending : DTime[e] >= t
  PROVE  \A e \in RunDigital(d, t).pending : DTime[e] > t
<1> SUFFICES ASSUME NEW e \in RunDigital(d, t).pending PROVE DTime[e] > t
  OBVIOUS
<1>1. d.pending \in SUBSET DEvents
  BY DEF Digital
<1>2. e \in (d.pending \ Due(d, t)) \/ \E f \in Due(d, t) : e \in Follow[f]
  BY DEF RunDigital
<1>3. CASE e \in d.pending \ Due(d, t)
  <2>1. DTime[e] \in Nat /\ ~(DTime[e] <= t)
    BY <1>1, <1>3, EventAssumption DEF Due
  <2> QED BY <2>1
<1>4. CASE \E f \in Due(d, t) : e \in Follow[f]
  <2>1. PICK f \in Due(d, t) : e \in Follow[f]
    BY <1>4
  <2>2. f \in d.pending /\ f \in DEvents /\ DTime[f] >= t
    BY <1>1, <2>1 DEF Due
  <2>3. e \in DEvents /\ DTime[e] > DTime[f]
    BY <2>1, <2>2, EventAssumption
  <2>4. DTime[e] \in Nat /\ DTime[f] \in Nat
    BY <2>2, <2>3, EventAssumption
  <2> QED BY <2>2, <2>3, <2>4
<1> QED BY <1>2, <1>3, <1>4

\* The events of the hooks of a point at t are not before t.
LEMMA SeedNotBefore ==
  ASSUME NEW d \in Digital, NEW t \in Nat, NEW hooks \in SUBSET HookEvents(t),
         \A e \in d.pending : DTime[e] >= t
  PROVE  \A e \in Seed(d, hooks).pending : DTime[e] >= t
<1>1. Seed(d, hooks).pending = d.pending \cup hooks
  BY DEF Seed, Digital
<1>2. \A e \in hooks : DTime[e] >= t
  BY DEF HookEvents
<1> QED BY <1>1, <1>2

\* A batch of writes leaves every parameter with one of its values.
LEMMA WriteType ==
  ASSUME NEW p \in [Param -> Value], NEW I \in SUBSET SetIds
  PROVE  Write(p, I) \in [Param -> Value]
<1> SUFFICES ASSUME NEW q \in Param
             PROVE  (LET writers == {i \in I : SetParam[i] = q}
                     IN  IF writers = {} THEN p[q]
                         ELSE SetValue[CHOOSE i \in writers : \A j \in writers : j <= i])
                      \in Value
  BY Zenon DEF Write
<1> DEFINE writers == {i \in I : SetParam[i] = q}
           final == CHOOSE i \in writers : \A j \in writers : j <= i
<1>1. CASE writers = {}
  BY <1>1
<1>2. CASE writers # {}
  <2>1. writers \in SUBSET SetIds
    OBVIOUS
  <2>2. \E i \in writers : \A j \in writers : j <= i
    <3>1. IsFiniteSet(SetIds) /\ [i \in SetIds |-> i] \in [SetIds -> Nat]
      BY SetAssumption
    <3>2. \E i \in writers : \A j \in writers :
             [k \in SetIds |-> k][j] <= [k \in SetIds |-> k][i]
      <4> HIDE DEF writers
      <4> QED BY <1>2, <2>1, <3>1, GreatestExists
    <3> QED BY <2>1, <3>2
  <2>3. final \in writers
    <3> HIDE DEF writers
    <3> QED BY <2>2, Zenon
  <2>4. SetValue[final] \in Value
    <3> HIDE DEF final
    <3> QED BY <2>1, <2>3, SetAssumption
  <2> QED BY <1>2, <2>4
<1> QED BY <1>1, <1>2

\* Only writes of the batch are made.
LEMMA WrittenIn ==
  ASSUME NEW I \in SUBSET SetIds
  PROVE  Written(I) \in SUBSET SetIds
  BY DEF Written

\* What is not due at t is after t.
LEMMA DueLeavesLater ==
  ASSUME NEW S \in SUBSET SetIds, NEW t \in Nat
  PROVE  \A i \in S \ DueSets(S, t) : SetTime[i] > t
<1> SUFFICES ASSUME NEW i \in S, ~(SetTime[i] <= t) PROVE SetTime[i] > t
  BY DEF DueSets
<1>1. SetTime[i] \in Nat
  BY SetAssumption
<1> QED BY <1>1

-----------------------------------------------------------------------------
(* The inductive invariant.                                                 *)

\* A Newton verdict is a record, so that a divergence can overwrite it.
AttemptShape == attempt = [verdict |-> attempt.verdict, point |-> attempt.point]

\* A checkpoint is outstanding between an attempt and its verdict, never when
\* the next step is predicted.
CheckpointOpen ==
  /\ pc \in {"begin", "predict", "attempt", "done"} => ~held
  /\ pc = "decide" => held

\* Before the first step the clock is at the start and every event is ahead.
StartsAhead ==
  pc = "begin" => now = Start /\ \A e \in digital.pending : DTime[e] > now

\* An attempt has consumed what is due at its landing point.
AttemptSettled ==
  pc = "decide" => \A e \in digital.pending : DTime[e] > pred.t

IInv ==
  /\ TypeOK
  /\ AttemptShape
  /\ CheckpointOpen
  /\ StartsAhead
  /\ AttemptSettled
  /\ NothingInsideStep
  /\ NothingOverdue

-----------------------------------------------------------------------------
(* What the operators of the loop return.                                   *)

\* A flip-flop that is evaluated keeps a bit of edge memory and a count.
LEMMA SeqPhaseType ==
  ASSUME NEW r \in Regs, NEW cur \in {0, 1}
  PROVE  SeqPhase(r, cur) \in Regs
  BY DEF SeqPhase, Regs

\* So does one that is run over what is due.
LEMMA ClockedType ==
  ASSUME NEW r \in Regs, NEW d \in Digital, NEW t \in Nat
  PROVE  Clocked(r, d, t) \in Regs
<1>1. Net(RunDigital(d, t).applied) \in {0, 1}
  <2>1. RunDigital(d, t).applied \in SUBSET DEvents
    BY RunDigitalType DEF Digital
  <2> QED BY <2>1, NetBit
<1>2. SeqPhase(r, Net(RunDigital(d, t).applied)) \in Regs
  BY <1>1, SeqPhaseType
<1> QED BY <1>2, Zenon DEF Clocked

\* And one whose accept hook runs it on the nets.
LEMMA SampledType ==
  ASSUME NEW r \in Regs, NEW d \in Digital
  PROVE  Sampled(r, d) \in Regs
<1>1. Net(d.applied) \in {0, 1}
  BY NetBit DEF Digital
<1> QED BY <1>1, SeqPhaseType DEF Sampled

\* The analog side mirrors a count of edges.
LEMMA MirroredType ==
  ASSUME NEW m \in Nat, NEW r \in Regs, NEW d \in Digital, NEW t \in Nat
  PROVE  Mirrored(m, r, d, t) \in Nat
<1>1. Clocked(r, d, t).edges \in Nat
  BY ClockedType DEF Regs
<1> QED BY <1>1 DEF Mirrored

\* Pushing a row keeps the history four rows deep.
LEMMA PushType ==
  ASSUME NEW h \in [0..3 -> Row], NEW row \in Row
  PROVE  Push(h, row) \in [0..3 -> Row]
<1> SUFFICES ASSUME NEW k \in 0..3
             PROVE  (IF k = 0 THEN row ELSE h[k-1]) \in Row
  BY DEF Push
<1>1. CASE k = 0
  BY <1>1
<1>2. CASE k # 0
  <2>1. k - 1 \in 0..3
    BY <1>2
  <2> QED BY <1>2, <2>1
<1> QED BY <1>1, <1>2

\* A solve, converged or not, leaves a history of rows.
LEMMA SolveType ==
  ASSUME NEW h \in [0..3 -> Row], NEW from \in Nat, NEW to \in Nat
  PROVE  /\ Stepped(h, from, to) \in [0..3 -> Row]
         /\ \A g \in Broken(h, from, to) : g \in [0..3 -> Row]
<1> DEFINE row(stage) == [stage |-> stage, from |-> from, to |-> to, base |-> h[0].to]
<1>1. h[0].to \in Int
  BY DEF Row
<1>2. row("gamma") \in Row /\ row("end") \in Row /\ row("guess") \in Row
  BY <1>1 DEF Row
<1> HIDE DEF row
<1>3. Push(h, row("gamma")) \in [0..3 -> Row] /\ Push(h, row("guess")) \in [0..3 -> Row]
  BY <1>2, PushType
<1>4. /\ Push(Push(h, row("gamma")), row("end")) \in [0..3 -> Row]
      /\ Push(Push(h, row("gamma")), row("guess")) \in [0..3 -> Row]
  BY <1>2, <1>3, PushType
<1> QED BY <1>3, <1>4, Zenon DEF Stepped, Broken, row

\* A rejected step is cut, but never below the floor nor to nothing.
LEMMA RejectDtType ==
  ASSUME NEW d \in Nat
  PROVE  RejectDt(d) \in Nat \ {0}
<1>1. RejectDivisor \in Nat \ {0} /\ DtMin \in Nat \ {0}
  BY ClockAssumption
<1>2. d \div RejectDivisor \in Nat
  BY <1>1
<1> QED BY <1>1, <1>2 DEF RejectDt, Greatest

-----------------------------------------------------------------------------
(* The front of the unified queue.                                          *)

\* The first of the pending events is a candidate, and so nothing pending is
\* before every candidate.
LEMMA EventIsOffered ==
  ASSUME TypeOK, NEW e \in digital.pending
  PROVE  \E c \in DigitalCandidates : c.t <= DTime[e]
<1>1. digital.pending \in SUBSET DEvents /\ DTime \in [DEvents -> Nat]
  BY EventAssumption DEF TypeOK, Digital
<1> DEFINE T == {DTime[f] : f \in digital.pending}
<1>2. T \in SUBSET Nat /\ T # {}
  BY <1>1
<1>3. \E m \in T : \A n \in T : m <= n
  <2> HIDE DEF T
  <2> QED BY <1>2, LeastExists
<1>4. PICK d \in digital.pending : \A f \in digital.pending : DTime[d] <= DTime[f]
  BY <1>3
<1>5. [t |-> DTime[d], set |-> FALSE] \in DigitalCandidates
  BY <1>4 DEF DigitalCandidates
<1> QED BY <1>4, <1>5

\* Likewise for the writes that are ahead of the clock.
LEMMA WriteIsOffered ==
  ASSUME TypeOK, NEW i \in sets, SetTime[i] > now
  PROVE  \E c \in SetCandidates : c.t <= SetTime[i]
<1>1. sets \in SUBSET SetIds /\ SetTime \in [SetIds -> Nat]
  BY SetAssumption DEF TypeOK
<1> DEFINE T == {SetTime[k] : k \in {j \in sets : SetTime[j] > now}}
<1>2. T \in SUBSET Nat /\ T # {}
  BY <1>1
<1>3. \E m \in T : \A n \in T : m <= n
  <2> HIDE DEF T
  <2> QED BY <1>2, LeastExists
<1>4. PICK j \in sets : /\ SetTime[j] > now
                        /\ \A k \in sets : SetTime[k] > now => SetTime[j] <= SetTime[k]
  BY <1>3
<1>5. [t |-> SetTime[j], set |-> TRUE] \in SetCandidates
  BY <1>4 DEF SetCandidates
<1> QED BY <1>4, <1>5

\* Every candidate is ahead of the clock.
LEMMA CandidatesAhead ==
  ASSUME TypeOK, NothingOverdue, pc = "predict", NEW c \in Candidates
  PROVE  c.t \in Nat /\ c.t > now
<1>1. digital.pending \in SUBSET DEvents /\ DTime \in [DEvents -> Nat]
  BY EventAssumption DEF TypeOK, Digital
<1>2. \A e \in digital.pending : DTime[e] > now
  BY DEF NothingOverdue, Settled
<1>3. CASE c \in DigitalCandidates
  BY <1>1, <1>2, <1>3 DEF DigitalCandidates
<1>4. CASE c \in BreakCandidates
  <2>1. BreakTimes \in SUBSET Nat /\ now \in Nat
    BY ClockAssumption DEF TypeOK
  <2> QED BY <1>4, <2>1 DEF BreakCandidates
<1>5. CASE c \in SetCandidates
  <2>1. sets \in SUBSET SetIds /\ SetTime \in [SetIds -> Nat]
    BY SetAssumption DEF TypeOK
  <2> QED BY <1>5, <2>1 DEF SetCandidates
<1> QED BY <1>3, <1>4, <1>5 DEF Candidates

\* A front exists as soon as there is a candidate.
LEMMA FrontExists ==
  ASSUME TypeOK, NothingOverdue, pc = "predict", Fronts = {}
  PROVE  Candidates = {}
<1> SUFFICES ASSUME Candidates # {} PROVE FALSE
  OBVIOUS
<1> DEFINE T == {c.t : c \in Candidates}
<1>1. T \in SUBSET Nat /\ T # {}
  BY CandidatesAhead
<1>2. \E m \in T : \A n \in T : m <= n
  <2> HIDE DEF T
  <2> QED BY <1>1, LeastExists
<1>3. PICK c \in Candidates : \A o \in Candidates : c.t <= o.t
  BY <1>2
<1>4. c \in Fronts
  BY <1>3 DEF Fronts
<1> QED BY <1>4

\* A landing point that no candidate precedes precedes nothing declared.
LEMMA NothingBeforeFront ==
  ASSUME TypeOK, NothingOverdue, pc = "predict", NEW t \in Nat,
         \A c \in Candidates : t <= c.t
  PROVE  /\ \A e \in digital.pending : DTime[e] >= t
         /\ \A i \in sets : SetTime[i] >= t
         /\ \A b \in BreakTimes : now < b /\ b <= now + dt => b >= t
<1>1. ASSUME NEW e \in digital.pending PROVE DTime[e] >= t
  <2>1. PICK c \in DigitalCandidates : c.t <= DTime[e]
    BY EventIsOffered
  <2>2. c \in Candidates
    BY DEF Candidates
  <2>3. t <= c.t /\ c.t \in Nat
    BY <2>2, CandidatesAhead
  <2>4. DTime[e] \in Nat
    BY EventAssumption DEF TypeOK, Digital
  <2> QED BY <2>1, <2>3, <2>4
<1>2. ASSUME NEW i \in sets PROVE SetTime[i] >= t
  <2>1. SetTime[i] > now
    BY DEF NothingOverdue, Settled
  <2>2. PICK c \in SetCandidates : c.t <= SetTime[i]
    BY <2>1, WriteIsOffered
  <2>3. c \in Candidates
    BY DEF Candidates
  <2>4. t <= c.t /\ c.t \in Nat
    BY <2>3, CandidatesAhead
  <2>5. SetTime[i] \in Nat
    BY SetAssumption DEF TypeOK
  <2> QED BY <2>2, <2>4, <2>5
<1>3. ASSUME NEW b \in BreakTimes, now < b, b <= now + dt PROVE b >= t
  <2>1. [t |-> b, set |-> FALSE] \in Candidates
    BY <1>3 DEF Candidates, BreakCandidates
  <2>2. t <= b /\ b \in Nat
    BY <2>1, ClockAssumption
  <2> QED BY <2>2
<1> QED BY <1>1, <1>2, <1>3

-----------------------------------------------------------------------------
(* One lemma per action.                                                    *)

\* A run starts with every event ahead and no checkpoint.
LEMMA InitIInv == Init => IInv
<1> SUFFICES ASSUME Init PROVE IInv
  OBVIOUS
<1> USE DEF Init
<1>1. digital \in Digital /\ Start \in Nat
  BY EventAssumption DEF Digital
<1>2. regs \in Regs /\ sampler \in Regs
  BY DEF Regs
<1>3. hist \in [0..3 -> Row]
  BY <1>1 DEF Row, EmptyRow
<1>4. DtInit \in Nat \ {0}
  BY ClockAssumption
<1>5. appliedAt \in [SetIds -> Nat \cup {Never}] /\ params \in [Param -> Value]
  BY ClockAssumption
<1>6. TypeOK
  BY <1>1, <1>2, <1>3, <1>4, <1>5 DEF TypeOK
<1>7. AttemptShape
  BY DEF AttemptShape
<1>8. StartsAhead
  BY EventAssumption DEF StartsAhead
<1>9. CheckpointOpen /\ AttemptSettled /\ NothingInsideStep /\ NothingOverdue
  BY DEF CheckpointOpen, AttemptSettled, NothingInsideStep, NothingOverdue, Settled
<1> QED BY <1>6, <1>7, <1>8, <1>9 DEF IInv

\* A drained batch leaves the queue and the parameters well typed.
LEMMA DrainType ==
  ASSUME TypeOK, NEW I \in SUBSET SetIds, NEW t \in Nat, Drain(I, t)
  PROVE  /\ sets' \subseteq SetIds /\ params' \in [Param -> Value]
         /\ appliedAt' \in [SetIds -> Nat \cup {Never}]
<1>1. sets' \subseteq SetIds
  BY DEF Drain, TypeOK
<1>2. params' \in [Param -> Value]
  <2>1. Written(I) \in SUBSET SetIds
    BY WrittenIn
  <2>2. Write(params, Written(I)) \in [Param -> Value]
    BY <2>1, WriteType DEF TypeOK
  <2> QED BY <2>2 DEF Drain
<1>3. appliedAt' \in [SetIds -> Nat \cup {Never}]
  <2>1. appliedAt' = [i \in SetIds |-> IF i \in Written(I) THEN t ELSE appliedAt[i]]
    BY DEF Drain
  <2>2. appliedAt \in [SetIds -> Nat \cup {Never}]
    BY DEF TypeOK
  <2> QED BY <2>1, <2>2
<1> QED BY <1>1, <1>2, <1>3

\* begin_run drains the writes due at the start; every event is ahead anyway.
LEMMA BeginRunIInv == IInv /\ BeginRun => IInv'
<1> SUFFICES ASSUME IInv, BeginRun PROVE IInv'
  OBVIOUS
<1> USE DEF IInv
<1>1. PICK due : due = DueSets(sets, Start)
  OBVIOUS
<1>2. /\ pc = "begin"
      /\ Drain(due, Start)
      /\ pc' \in {"predict", "failed"}
      /\ hist' \in {[k \in 0..3 |-> IF k <= 1 THEN StartRow ELSE EmptyRow], hist}
      /\ UNCHANGED <<now, dt, prevH, lastAccepted, postSet, pred, attempt, held, saved,
                     digital, regs, sampler, floorHits, mirror>>
  BY <1>1 DEF BeginRun, clockVars
<1>3. due \in SUBSET SetIds /\ Start \in Nat
  BY <1>1, EventAssumption DEF DueSets, TypeOK
<1>4. hist' \in [0..3 -> Row]
  <2>1. StartRow \in Row /\ EmptyRow \in Row
    BY <1>3 DEF StartRow, EmptyRow, Row
  <2> QED BY <1>2, <2>1 DEF TypeOK
<1>5. TypeOK'
  BY <1>2, <1>3, <1>4, DrainType DEF TypeOK
<1>6. NothingOverdue'
  <2>1. now = Start /\ \A e \in digital.pending : DTime[e] > now
    BY <1>2 DEF StartsAhead
  <2>2. sets' = sets \ DueSets(sets, Start) /\ sets \in SUBSET SetIds
    BY <1>1, <1>2 DEF Drain, TypeOK
  <2>3. \A i \in sets' : SetTime[i] > Start
    BY <1>3, <2>2, DueLeavesLater
  <2> QED BY <1>2, <2>1, <2>3 DEF NothingOverdue
<1>7. AttemptShape'
  BY <1>2 DEF AttemptShape
<1>8. CheckpointOpen'
  BY <1>2 DEF CheckpointOpen
<1>9. (StartsAhead /\ AttemptSettled /\ NothingInsideStep)'
  BY <1>2 DEF StartsAhead, AttemptSettled, NothingInsideStep
<1> QED BY <1>5, <1>6, <1>7, <1>8, <1>9

\* predict_step lands on the front of the queue or short of it, so on nothing
\* declared later than it.
LEMMA PredictIInv == IInv /\ Predict => IInv'
<1> SUFFICES ASSUME IInv, Predict PROVE IInv'
  OBVIOUS
<1> USE DEF IInv
<1>1. /\ pc = "predict" /\ now < Stop /\ pc' = "attempt"
      /\ UNCHANGED <<now, dt, prevH, lastAccepted, postSet, attempt, held, saved,
                     digital, regs, sampler, floorHits, mirror, hist, sets, params, appliedAt>>
  BY DEF Predict, clockVars, deviceVars, hostVars
<1>2. now \in Nat /\ dt \in Nat \ {0} /\ Stop \in Nat
  BY ClockAssumption DEF TypeOK
<1>3. Target \in Nat /\ now < Target
  BY <1>1, <1>2 DEF Target, Least
<1>4. PICK t \in Nat, landed \in BOOLEAN :
        /\ pred' = Prediction(t, landed)
        /\ now < t
        /\ \A c \in Candidates : t <= c.t
  <2>1. CASE \E c \in Fronts : Lands(c) /\ pred' = Prediction(c.t, TRUE)
    <3>1. PICK c \in Fronts : pred' = Prediction(c.t, TRUE)
      BY <2>1
    <3>2. c \in Candidates /\ \A o \in Candidates : c.t <= o.t
      BY DEF Fronts
    <3>3. c.t \in Nat /\ now < c.t
      BY <1>1, <1>2, <3>2, CandidatesAhead
    <3> QED BY <3>1, <3>2, <3>3
  <2>2. CASE Fronts = {} /\ pred' = Prediction(Target, FALSE)
    <3>1. Candidates = {}
      BY <1>1, <2>2, FrontExists
    <3> QED BY <1>3, <2>2, <3>1
  <2>3. CASE (\E c \in Fronts : ~Lands(c)) /\ pred' = Prediction(Target, FALSE)
    <3>1. PICK c \in Fronts : ~Lands(c)
      BY <2>3
    <3>2. c \in Candidates /\ \A o \in Candidates : c.t <= o.t
      BY DEF Fronts
    <3>3. c.t \in Nat /\ now < c.t
      BY <1>1, <1>2, <3>2, CandidatesAhead
    <3>4. Target <= c.t
      <4>1. Snap \in Nat
        BY ClockAssumption
      <4> QED BY <1>3, <3>1, <3>3, <4>1 DEF Lands
    <3>5. ASSUME NEW o \in Candidates PROVE Target <= o.t
      <4>1. o.t \in Nat /\ c.t <= o.t
        BY <1>1, <3>2, CandidatesAhead
      <4> QED BY <1>3, <3>3, <3>4, <4>1
    <3> QED BY <1>3, <2>3, <3>5
  <2> QED BY <2>1, <2>2, <2>3 DEF Predict
<1>5. /\ pred'.t = t /\ pred'.landed = landed
      /\ pred'.step = t - now /\ pred'.proposed = dt
  BY <1>4 DEF Prediction
<1>6. TypeOK'
  <2>1. t - now \in Nat
    BY <1>2, <1>4
  <2> QED BY <1>1, <1>5, <2>1 DEF TypeOK
<1>7. NothingInsideStep'
  <2>1. /\ \A e \in digital.pending : DTime[e] >= t
        /\ \A i \in sets : SetTime[i] >= t
        /\ \A b \in BreakTimes : now < b /\ b <= now + dt => b >= t
    BY <1>1, <1>4, NothingBeforeFront
  <2>2. Committed' = digital
    BY <1>1 DEF Committed, CheckpointOpen
  <2> QED BY <1>1, <1>4, <1>5, <2>1, <2>2 DEF NothingInsideStep
<1>8. AttemptShape'
  BY <1>1 DEF AttemptShape
<1>9. CheckpointOpen'
  BY <1>1 DEF CheckpointOpen
<1>10. (StartsAhead /\ AttemptSettled /\ NothingOverdue)'
  BY <1>1 DEF StartsAhead, AttemptSettled, NothingOverdue, Settled
<1> QED BY <1>6, <1>7, <1>8, <1>9, <1>10

\* attempt_step takes the checkpoint, then consumes what is due where it lands.
LEMMA AttemptIInv == IInv /\ Attempt => IInv'
<1> SUFFICES ASSUME IInv, Attempt PROVE IInv'
  OBVIOUS
<1> USE DEF IInv
<1>1. PICK t : t = pred.t
  OBVIOUS
<1>2. /\ pc = "attempt" /\ held' = TRUE
      /\ saved' = [digital |-> digital, regs |-> regs, sampler |-> sampler, hist |-> hist]
      /\ digital' = RunDigital(digital, t)
      /\ regs' = Clocked(regs, digital, t)
      /\ sampler' = Clocked(sampler, digital, t)
      /\ mirror' = Mirrored(mirror, regs, digital, t)
      /\ UNCHANGED <<now, dt, prevH, lastAccepted, postSet, floorHits, pred, sets, params,
                     appliedAt>>
  BY <1>1 DEF Attempt, clockVars, hostVars
<1>3. /\ t \in Nat /\ now \in Nat /\ digital \in Digital /\ regs \in Regs
      /\ sampler \in Regs /\ mirror \in Nat /\ hist \in [0..3 -> Row]
  BY <1>1 DEF TypeOK
<1>4. /\ pc' \in {"failed", "decide"}
      /\ hist' \in [0..3 -> Row]
      /\ attempt'.verdict \in {"none", "good", "poor", "diverged"}
      /\ AttemptShape'
  <2>1. CASE pc' = "failed" /\ UNCHANGED <<hist, attempt>>
    BY <1>3, <2>1 DEF TypeOK, AttemptShape
  <2>2. CASE /\ pc' = "decide"
             /\ \E v \in {"good", "poor"} :
                  /\ hist' = Stepped(hist, now, t)
                  /\ attempt' = [verdict |-> v,
                                 point |-> Snapshot(t, digital', regs', params)]
    <3>1. hist' \in [0..3 -> Row]
      BY <1>3, <2>2, SolveType
    <3> QED BY <2>2, <3>1 DEF AttemptShape
  <2>3. CASE /\ pc' = "decide"
             /\ hist' \in Broken(hist, now, t)
             /\ attempt' = [attempt EXCEPT !.verdict = "diverged"]
    <3>1. hist' \in [0..3 -> Row]
      BY <1>3, <2>3, SolveType
    <3>2. attempt' = [verdict |-> "diverged", point |-> attempt.point]
      BY <2>3 DEF AttemptShape
    <3> QED BY <2>3, <3>1, <3>2 DEF AttemptShape
  <2> QED BY <1>1, <2>1, <2>2, <2>3 DEF Attempt
<1>5. digital' \in Digital /\ regs' \in Regs /\ sampler' \in Regs /\ mirror' \in Nat
  BY <1>2, <1>3, RunDigitalType, ClockedType, MirroredType
<1>6. TypeOK'
  BY <1>2, <1>3, <1>4, <1>5 DEF TypeOK
<1>7. /\ \A e \in digital.pending : DTime[e] >= t
      /\ now < t
      /\ \A i \in sets : SetTime[i] >= t
      /\ \A b \in BreakTimes : now < b /\ b <= now + dt => b >= t
  <2>1. Committed = digital
    BY <1>2 DEF Committed, CheckpointOpen
  <2> QED BY <1>1, <1>2, <2>1 DEF NothingInsideStep
<1>8. NothingInsideStep'
  <2>1. Committed' = digital
    BY <1>2 DEF Committed
  <2> QED BY <1>1, <1>2, <1>7, <2>1 DEF NothingInsideStep
<1>9. AttemptSettled'
  <2>1. \A e \in digital'.pending : DTime[e] > t
    BY <1>2, <1>3, <1>7, RunLeavesLater
  <2> QED BY <1>1, <1>2, <2>1 DEF AttemptSettled
<1>10. (CheckpointOpen /\ StartsAhead /\ NothingOverdue)'
  BY <1>2, <1>4 DEF CheckpointOpen, StartsAhead, NothingOverdue, Settled
<1> QED BY <1>4, <1>6, <1>8, <1>9, <1>10

\* The next step is never empty, and stays in the range of its sources.
LEMMA ProposeDtType ==
  ASSUME TypeOK, NEW due, ProposeDt(due)
  PROVE  dt' \in Nat \ {0}
<1>1. /\ DtMin \in Nat \ {0} /\ DtMax \in Nat \ {0} /\ RestartDivisor \in Nat \ {0}
      /\ DeviceHints \in SUBSET (Nat \ {0})
  BY ClockAssumption
<1>2. pred.step \in Nat /\ pred.proposed \in Nat \ {0}
  BY DEF TypeOK
<1>3. PICK base \in IF due # {} THEN {Greatest(pred.step \div RestartDivisor, DtMin)}
                    ELSE IF postSet THEN {pred.proposed}
                    ELSE DtMin..DtMax :
        \E hint \in {base} \cup (IF prevH' > 0 THEN DeviceHints ELSE {}) :
           dt' = Least(base, hint)
  BY DEF ProposeDt
<1>4. base \in Nat \ {0}
  <2>1. pred.step \div RestartDivisor \in Nat
    BY <1>1, <1>2
  <2>2. Greatest(pred.step \div RestartDivisor, DtMin) \in Nat \ {0}
    BY <1>1, <2>1 DEF Greatest
  <2>3. DtMin..DtMax \in SUBSET (Nat \ {0})
    BY <1>1
  <2>4. \/ base = Greatest(pred.step \div RestartDivisor, DtMin)
        \/ base = pred.proposed
        \/ base \in DtMin..DtMax
    BY <1>3
  <2> QED BY <1>2, <2>2, <2>3, <2>4
<1>5. PICK hint \in Nat \ {0} : dt' = Least(base, hint)
  BY <1>1, <1>3, <1>4
<1> QED BY <1>4, <1>5 DEF Least

\* An accepted step, whichever state of the digital side it settles from: the
\* settle leaves only events that are still ahead, the drain only such writes.
LEMMA AcceptIInv ==
  ASSUME IInv, pc = "decide", NEW outstanding \in BOOLEAN, NEW d \in Digital,
         \A e \in d.pending : DTime[e] >= pred.t,
         Accept(d, outstanding), floorHits' \in Nat
  PROVE  IInv'
<1> USE DEF IInv
<1>1. PICK t : t = pred.t
  OBVIOUS
<1>2. PICK due : due = DueSets(sets, t)
  OBVIOUS
<1>3. PICK hooks \in SUBSET HookEvents(t) :
        /\ digital' = RunDigital(Seed(d, hooks), t)
        /\ regs' = Clocked(regs, Seed(d, hooks), t)
        /\ sampler' = Clocked(Sampled(sampler, d), Seed(d, hooks), t)
        /\ mirror' = Mirrored(mirror, regs, Seed(d, hooks), t)
        /\ UNCHANGED <<pred, attempt, saved>>
        /\ lastAccepted' = TRUE
        /\ \/ /\ pc' = "failed"
              /\ held' = outstanding
              /\ UNCHANGED <<now, dt, prevH, postSet, hist, sets, params, appliedAt>>
           \/ /\ held' = FALSE
              /\ now' = t
              /\ ApplySets(due)
              /\ prevH' = IF pred.landed \/ due # {} THEN 0 ELSE pred.step
              /\ ProposeDt(due)
  BY <1>1, <1>2 DEF Accept, hostVars
<1>4. PICK seeded : seeded = Seed(d, hooks)
  OBVIOUS
<1>5. /\ t \in Nat /\ now \in Nat /\ regs \in Regs /\ sampler \in Regs /\ mirror \in Nat
      /\ hist \in [0..3 -> Row] /\ due \in SUBSET SetIds
  BY <1>1, <1>2 DEF TypeOK, DueSets
<1>6. seeded \in Digital /\ \A e \in seeded.pending : DTime[e] >= t
  BY <1>1, <1>4, <1>5, SeedType, SeedNotBefore
<1>7. digital' \in Digital /\ regs' \in Regs /\ sampler' \in Regs /\ mirror' \in Nat
  BY <1>3, <1>4, <1>5, <1>6, RunDigitalType, ClockedType, SampledType, MirroredType
<1>8. \A e \in digital'.pending : DTime[e] > t
  BY <1>3, <1>4, <1>5, <1>6, RunLeavesLater
<1>9. CASE /\ pc' = "failed"
           /\ held' = outstanding
           /\ UNCHANGED <<now, dt, prevH, postSet, hist, sets, params, appliedAt>>
  <2>1. TypeOK'
    BY <1>3, <1>7, <1>9 DEF TypeOK
  <2>2. AttemptShape'
    BY <1>3 DEF AttemptShape
  <2>3. (CheckpointOpen /\ StartsAhead /\ AttemptSettled /\ NothingInsideStep /\ NothingOverdue)'
    BY <1>9 DEF CheckpointOpen, StartsAhead, AttemptSettled, NothingInsideStep,
                NothingOverdue, Settled
  <2> QED BY <2>1, <2>2, <2>3
<1>10. CASE /\ held' = FALSE
            /\ now' = t
            /\ ApplySets(due)
            /\ prevH' = IF pred.landed \/ due # {} THEN 0 ELSE pred.step
            /\ ProposeDt(due)
  <2>1. /\ Drain(due, t)
        /\ postSet' \in BOOLEAN
        /\ pc' \in {"failed", "predict"}
        /\ \/ hist' = hist
           \/ hist' = Stepped(hist, now, t)
           \/ hist' \in Broken(hist, now, t)
    BY <1>1, <1>10 DEF ApplySets, Armed
  <2>2. hist' \in [0..3 -> Row]
    <3>1. /\ Stepped(hist, now, t) \in [0..3 -> Row]
          /\ \A g \in Broken(hist, now, t) : g \in [0..3 -> Row]
      BY <1>5, SolveType
    <3> QED BY <1>5, <2>1, <3>1
  <2>3. prevH' \in Nat
    <3>1. pred.step \in Nat
      BY DEF TypeOK
    <3> QED BY <1>10, <3>1
  <2>4. dt' \in Nat \ {0}
    BY <1>10, ProposeDtType
  <2>5. /\ sets' \subseteq SetIds /\ params' \in [Param -> Value]
        /\ appliedAt' \in [SetIds -> Nat \cup {Never}]
    BY <1>5, <2>1, DrainType
  <2>6. TypeOK'
    BY <1>3, <1>5, <1>7, <1>10, <2>1, <2>2, <2>3, <2>4, <2>5 DEF TypeOK
  <2>7. NothingOverdue'
    <3>1. sets' = sets \ DueSets(sets, t) /\ sets \in SUBSET SetIds
      BY <1>2, <2>1 DEF Drain, TypeOK
    <3>2. \A i \in sets' : SetTime[i] > t
      BY <1>5, <3>1, DueLeavesLater
    <3> QED BY <1>8, <1>10, <3>2 DEF NothingOverdue
  <2>8. AttemptShape'
    BY <1>3 DEF AttemptShape
  <2>9. (CheckpointOpen /\ StartsAhead /\ AttemptSettled /\ NothingInsideStep)'
    BY <1>10, <2>1 DEF CheckpointOpen, StartsAhead, AttemptSettled, NothingInsideStep
  <2> QED BY <2>6, <2>7, <2>8, <2>9
<1> QED BY <1>3, <1>9, <1>10

\* accept_step settles from the nets of the attempt, which has nothing due left.
LEMMA AcceptStepIInv == IInv /\ AcceptStep => IInv'
<1> SUFFICES ASSUME IInv, AcceptStep PROVE IInv'
  OBVIOUS
<1>1. PICK d : d = digital
  OBVIOUS
<1>2. pc = "decide" /\ Accept(d, TRUE) /\ floorHits' \in Nat
  BY <1>1 DEF AcceptStep, IInv, TypeOK
<1>3. d \in Digital /\ \A e \in d.pending : DTime[e] >= pred.t
  <2>1. digital \in Digital /\ pred.t \in Nat
    BY DEF IInv, TypeOK
  <2>2. \A e \in digital.pending : DTime[e] > pred.t /\ DTime[e] \in Nat
    BY <1>2, <2>1, EventAssumption DEF IInv, AttemptSettled, Digital
  <2> QED BY <1>1, <2>1, <2>2
<1> QED BY <1>2, <1>3, AcceptIInv

\* At the floor the queue of the checkpoint comes back, and nothing in it is
\* inside the step.
LEMMA AcceptAtFloorIInv == IInv /\ AcceptAtFloor => IInv'
<1> SUFFICES ASSUME IInv, AcceptAtFloor PROVE IInv'
  OBVIOUS
<1>1. PICK d : d = saved.digital
  OBVIOUS
<1>2. pc = "decide" /\ Accept(d, FALSE) /\ floorHits' \in Nat
  <2>1. floorHits \in Nat
    BY DEF IInv, TypeOK
  <2>2. floorHits' \in Nat
    BY <2>1 DEF AcceptAtFloor
  <2> QED BY <1>1, <2>2, Zenon DEF AcceptAtFloor
<1>3. d \in Digital /\ \A e \in d.pending : DTime[e] >= pred.t
  <2>1. Committed = saved.digital /\ saved.digital \in Digital
    BY <1>2 DEF IInv, CheckpointOpen, Committed, TypeOK
  <2> QED BY <1>1, <1>2, <2>1 DEF IInv, NothingInsideStep
<1> QED BY <1>2, <1>3, AcceptIInv

\* A rejected step goes back to the checkpoint, where everything was ahead of
\* the clock because it was not before the landing point.
LEMMA RewindIInv ==
  ASSUME IInv, pc = "decide", Rewind, pc' \in {"predict", "failed"}
  PROVE  IInv'
<1> USE DEF IInv
<1>1. /\ digital' = saved.digital /\ hist' = saved.hist
      /\ regs' = saved.regs /\ sampler' = saved.sampler
      /\ held' = FALSE /\ lastAccepted' = FALSE
      /\ dt' = RejectDt(pred.proposed)
      /\ UNCHANGED <<now, prevH, postSet, pred, attempt, saved, mirror, floorHits,
                     sets, params, appliedAt>>
  BY DEF Rewind, hostVars
<1>2. dt' \in Nat \ {0}
  BY <1>1, RejectDtType DEF TypeOK
<1>3. TypeOK'
  BY <1>1, <1>2 DEF TypeOK
<1>4. NothingOverdue'
  <2>1. Committed = saved.digital
    BY DEF CheckpointOpen, Committed
  <2>2. /\ now < pred.t
        /\ \A e \in saved.digital.pending : DTime[e] >= pred.t
        /\ \A i \in sets : SetTime[i] >= pred.t
    BY <2>1 DEF NothingInsideStep
  <2>3. now \in Nat /\ pred.t \in Nat
    BY DEF TypeOK
  <2>4. \A e \in saved.digital.pending : DTime[e] \in Nat
    BY EventAssumption DEF TypeOK, Digital
  <2>5. \A i \in sets : SetTime[i] \in Nat
    BY SetAssumption DEF TypeOK
  <2> QED BY <1>1, <2>2, <2>3, <2>4, <2>5 DEF NothingOverdue
<1>5. AttemptShape'
  BY <1>1 DEF AttemptShape
<1>6. (CheckpointOpen /\ StartsAhead /\ AttemptSettled /\ NothingInsideStep)'
  BY <1>1 DEF CheckpointOpen, StartsAhead, AttemptSettled, NothingInsideStep
<1> QED BY <1>3, <1>4, <1>5, <1>6

\* A step the error gate rejects above the floor is rewound.
LEMMA RejectLteStepIInv == IInv /\ RejectLteStep => IInv'
BY RewindIInv DEF RejectLteStep

\* So is a diverged step, also when the run then fails at the floor.
LEMMA RejectStepIInv == IInv /\ RejectStep => IInv'
BY RewindIInv DEF RejectStep

\* finish_run changes nothing but the phase.
LEMMA FinishRunIInv == IInv /\ FinishRun => IInv'
<1> SUFFICES ASSUME IInv, FinishRun PROVE IInv'
  OBVIOUS
<1>1. /\ pc = "predict" /\ pc' = "done"
      /\ UNCHANGED <<now, dt, prevH, lastAccepted, postSet, pred, attempt, held, saved,
                     digital, regs, sampler, floorHits, mirror, hist, sets, params, appliedAt>>
  BY DEF FinishRun, clockVars, deviceVars, hostVars
<1> QED BY <1>1 DEF IInv, TypeOK, AttemptShape, CheckpointOpen, StartsAhead, AttemptSettled,
                    NothingInsideStep, NothingOverdue, Settled

\* A step that changes nothing keeps the invariant.
LEMMA StutterIInv == IInv /\ UNCHANGED vars => IInv'
<1> SUFFICES ASSUME IInv, UNCHANGED vars PROVE IInv'
  OBVIOUS
<1>1. UNCHANGED <<pc, now, dt, prevH, lastAccepted, postSet, pred, attempt, held, saved,
                  digital, regs, sampler, floorHits, mirror, hist, sets, params, appliedAt>>
  BY DEF vars, clockVars, deviceVars, hostVars
<1> QED BY <1>1 DEF IInv, TypeOK, AttemptShape, CheckpointOpen, StartsAhead, AttemptSettled,
                    NothingInsideStep, NothingOverdue, Settled, Committed

-----------------------------------------------------------------------------
(* The theorems.                                                            *)

\* Every step keeps it.
LEMMA IInvNext == IInv /\ [Next]_vars => IInv'
<1> SUFFICES ASSUME IInv, [Next]_vars PROVE IInv'
  OBVIOUS
<1>1. CASE BeginRun
  BY <1>1, BeginRunIInv
<1>2. CASE Predict
  BY <1>2, PredictIInv
<1>3. CASE Attempt
  BY <1>3, AttemptIInv
<1>4. CASE AcceptStep
  BY <1>4, AcceptStepIInv
<1>5. CASE AcceptAtFloor
  BY <1>5, AcceptAtFloorIInv
<1>6. CASE RejectLteStep
  BY <1>6, RejectLteStepIInv
<1>7. CASE RejectStep
  BY <1>7, RejectStepIInv
<1>8. CASE FinishRun
  BY <1>8, FinishRunIInv
<1>9. CASE Stopped \/ UNCHANGED vars
  BY <1>9, StutterIInv DEF Stopped
<1> QED BY <1>1, <1>2, <1>3, <1>4, <1>5, <1>6, <1>7, <1>8, <1>9 DEF Next

\* The inductive invariant holds in every state of the loop, whatever verdict
\* the Newton solves and the error gate return.
THEOREM Invariance == Spec => []IInv
BY InitIInv, IInvNext, PTL DEF Spec

\* The clock, the step size, both copies of the digital side, the registers,
\* the history and the write queue keep their types; the step is never empty.
THEOREM TypeCorrect == Spec => []TypeOK
<1>1. IInv => TypeOK
  BY DEF IInv
<1> QED BY <1>1, Invariance, PTL

\* predict_step never steps past a pending event, a scheduled write or a polled
\* breakpoint, also right after a rejection or a checkpoint restored at the floor.
THEOREM StepsReachPastNothing == Spec => []NothingInsideStep
<1>1. IInv => NothingInsideStep
  BY DEF IInv
<1> QED BY <1>1, Invariance, PTL

\* accept_step consumes everything due: no event and no write is left at or
\* before the clock when the next step is predicted or the run is done.
THEOREM AcceptedStepsLeaveNothingDue == Spec => []NothingOverdue
<1>1. IInv => NothingOverdue
  BY DEF IInv
<1> QED BY <1>1, Invariance, PTL

-----------------------------------------------------------------------------
(* The run gets on: what Terminates needs besides a scheduler that runs it.  *)

\* No landing point lies past the end by more than the landing tolerance.
Horizon == Greatest(Start, Stop + Snap)

\* While a step is in hand its landing point stays within the horizon, and its
\* size is the one it was proposed with.
StepInHand ==
  /\ now <= Horizon
  /\ pc \in {"attempt", "decide"} => pred.proposed = dt /\ pred.t <= Horizon

Phase == [begin |-> 0, predict |-> 1, attempt |-> 2, decide |-> 3]

\* A step of a run that has not ended ends it, moves the clock, shortens the
\* step at the same clock, or goes to a later phase of the same step.
GetsOn ==
  /\ pc \notin {"done", "failed"}
  /\ \/ pc' \in {"done", "failed"}
     \/ now' > now
     \/ now' = now /\ dt' < dt
     \/ now' = now /\ dt' = dt /\ Phase[pc] < Phase[pc']

\* A step that is neither at the floor nor ends there is cut for good.
LEMMA RejectedIsShorter ==
  ASSUME NEW d \in Nat \ {0}, ~(RejectDt(d) <= DtMin)
  PROVE  RejectDt(d) < d
<1>1. RejectDivisor \in Nat \ {0, 1} /\ DtMin \in Nat \ {0}
  BY ClockAssumption
<1>2. d \div RejectDivisor \in Nat /\ d \div RejectDivisor < d
  <2>1. PICK r \in Nat \ {0, 1} : r = RejectDivisor
    BY <1>1
  <2>2. d = r * (d \div r) + (d % r) /\ d % r \in 0..(r-1) /\ d \div r \in Nat
    BY <2>1
  <2>3. PICK q \in Nat : q = d \div r
    BY <2>2
  <2>4. r * q >= 2 * q
    BY <2>1, <2>3
  <2>5. d >= r * q
    BY <2>2, <2>3
  <2> QED BY <2>1, <2>2, <2>3, <2>4, <2>5
<1>3. RejectDt(d) = d \div RejectDivisor
  BY <1>1, <1>2 DEF RejectDt, Greatest
<1> QED BY <1>2, <1>3

\* The landing point of a prediction: the target, or an entry of the queue that
\* is no further than the tolerance from it.
LEMMA PredictStepInHand ==
  ASSUME IInv, Predict
  PROVE  pred'.proposed = dt /\ pred'.t <= Horizon
<1>1. /\ pc = "predict" /\ now \in Nat /\ dt \in Nat
      /\ Stop \in Nat /\ Start \in Nat /\ Snap \in Nat
  BY ClockAssumption, EventAssumption DEF IInv, TypeOK, Predict
<1>2. Target \in Nat /\ Target <= Stop
  BY <1>1 DEF Target, Least
<1>3. Stop + Snap <= Horizon /\ Horizon \in Nat
  BY <1>1 DEF Horizon, Greatest
<1>4. CASE \E c \in Fronts : Lands(c) /\ pred' = Prediction(c.t, TRUE)
  <2>1. PICK c \in Fronts : Lands(c) /\ pred' = Prediction(c.t, TRUE)
    BY <1>4
  <2>2. c.t \in Nat
    <3>1. c \in Candidates
      BY DEF Fronts
    <3> QED BY <1>1, <3>1, CandidatesAhead DEF IInv
  <2>3. c.t <= Target + Snap
    BY <1>1, <1>2, <2>1, <2>2 DEF Lands
  <2>4. pred'.proposed = dt /\ pred'.t = c.t
    BY <2>1 DEF Prediction
  <2> QED BY <1>1, <1>2, <1>3, <2>2, <2>3, <2>4
<1>5. CASE pred' = Prediction(Target, FALSE)
  <2>1. pred'.proposed = dt /\ pred'.t = Target
    BY <1>5 DEF Prediction
  <2> QED BY <1>1, <1>2, <1>3, <2>1
<1> QED BY <1>4, <1>5 DEF Predict

\* An accepted step either ends the run or moves the clock to its landing point.
LEMMA AcceptMoves ==
  ASSUME NEW d, NEW outstanding, Accept(d, outstanding)
  PROVE  \/ pc' = "failed" /\ now' = now
         \/ pc' \in {"predict", "failed"} /\ now' = pred.t
<1>1. PICK hooks \in SUBSET HookEvents(pred.t) :
        \/ /\ pc' = "failed"
           /\ UNCHANGED <<now, dt, prevH, postSet, hist, hostVars>>
        \/ /\ now' = pred.t
           /\ ApplySets(DueSets(sets, pred.t))
  BY DEF Accept
<1>2. CASE pc' = "failed" /\ UNCHANGED <<now, dt, prevH, postSet, hist, hostVars>>
  BY <1>2
<1>3. CASE now' = pred.t /\ ApplySets(DueSets(sets, pred.t))
  BY <1>3 DEF ApplySets
<1> QED BY <1>1, <1>2, <1>3

\* A rejected step leaves the clock and cuts the step.
LEMMA RejectCuts ==
  ASSUME IInv, StepInHand, pc = "decide", Rewind, ~AtFloor
  PROVE  now' = now /\ dt' < dt
<1>1. dt \in Nat \ {0} /\ pred.proposed = dt
  BY DEF IInv, TypeOK, StepInHand
<1>2. now' = now /\ dt' = RejectDt(dt)
  BY <1>1 DEF Rewind
<1>3. ~(RejectDt(dt) <= DtMin)
  BY <1>1 DEF AtFloor
<1> QED BY <1>1, <1>2, <1>3, RejectedIsShorter

\* Every step of the loop stays within the horizon.
LEMMA StepInHandNext == IInv /\ StepInHand /\ [Next]_vars => StepInHand'
<1> SUFFICES ASSUME IInv, StepInHand, [Next]_vars PROVE StepInHand'
  OBVIOUS
<1>1. CASE BeginRun
  BY <1>1 DEF BeginRun, clockVars, StepInHand
<1>2. CASE Predict
  <2>1. now' = now /\ dt' = dt
    BY <1>2 DEF Predict, clockVars
  <2> QED BY <1>2, <2>1, PredictStepInHand DEF StepInHand
<1>3. CASE Attempt
  BY <1>3 DEF Attempt, clockVars, StepInHand
<1>4. CASE AcceptStep \/ AcceptAtFloor
  <2>1. pc = "decide" /\ \E d, outstanding : Accept(d, outstanding)
    BY <1>4 DEF AcceptStep, AcceptAtFloor
  <2>2. \/ pc' = "failed" /\ now' = now
        \/ pc' \in {"predict", "failed"} /\ now' = pred.t
    BY <2>1, AcceptMoves
  <2> QED BY <2>1, <2>2 DEF StepInHand
<1>5. CASE RejectLteStep \/ RejectStep
  BY <1>5 DEF RejectLteStep, RejectStep, Rewind, StepInHand
<1>6. CASE FinishRun
  BY <1>6 DEF FinishRun, clockVars, StepInHand
<1>7. CASE Stopped \/ UNCHANGED vars
  BY <1>7 DEF Stopped, vars, clockVars, StepInHand
<1> QED BY <1>1, <1>2, <1>3, <1>4, <1>5, <1>6, <1>7 DEF Next

\* Every step of a run that has not ended gets it on.
LEMMA NextGetsOn == IInv /\ StepInHand /\ [Next]_vars => [GetsOn]_vars
<1> SUFFICES ASSUME IInv, StepInHand, Next, ~UNCHANGED vars PROVE GetsOn
  OBVIOUS
<1>1. CASE BeginRun
  BY <1>1 DEF BeginRun, clockVars, GetsOn, Phase
<1>2. CASE Predict
  BY <1>2 DEF Predict, clockVars, GetsOn, Phase
<1>3. CASE Attempt
  BY <1>3 DEF Attempt, clockVars, GetsOn, Phase
<1>4. CASE AcceptStep \/ AcceptAtFloor
  <2>1. pc = "decide" /\ \E d, outstanding : Accept(d, outstanding)
    BY <1>4 DEF AcceptStep, AcceptAtFloor
  <2>2. \/ pc' = "failed"
        \/ now' = pred.t
    BY <2>1, AcceptMoves
  <2>3. now < pred.t /\ now \in Nat /\ pred.t \in Nat
    BY <2>1 DEF IInv, NothingInsideStep, TypeOK
  <2> QED BY <2>1, <2>2, <2>3 DEF GetsOn
<1>5. CASE RejectLteStep
  BY <1>5, RejectCuts DEF RejectLteStep, GetsOn
<1>6. CASE RejectStep
  BY <1>6, RejectCuts DEF RejectStep, GetsOn
<1>7. CASE FinishRun
  BY <1>7 DEF FinishRun, GetsOn
<1>8. CASE Stopped
  BY <1>8 DEF Stopped
<1> QED BY <1>1, <1>2, <1>3, <1>4, <1>5, <1>6, <1>7, <1>8 DEF Next

\* A run cannot go on for ever: the clock stays within the horizon, and every
\* step ends the run, moves the clock, cuts the step or goes to a later phase.
\* The horizon less the clock, the step and the phases left are three natural
\* numbers that fall in that order, however often steps are rejected.
THEOREM RunsGetOn == Spec => [](now <= Horizon) /\ [][GetsOn]_vars
<1>1. Init => StepInHand
  <2>1. Start \in Nat /\ Stop + Snap \in Nat
    BY ClockAssumption, EventAssumption
  <2> QED BY <2>1 DEF Init, StepInHand, Horizon, Greatest
<1>2. StepInHand => now <= Horizon
  BY DEF StepInHand
<1> QED BY <1>1, <1>2, Invariance, StepInHandNext, NextGetsOn, PTL DEF Spec
================================================================================
