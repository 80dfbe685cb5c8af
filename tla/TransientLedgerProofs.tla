------------------------- MODULE TransientLedgerProofs -------------------------
(***************************************************************************)
(* More proofs about the time loop of TransientDriver: what it keeps account *)
(* of over rejected and retried steps. Writes are made once, on time and in  *)
(* order; the Newton history is that of the accepted trajectory; registers,  *)
(* recorded points and nets agree.                                           *)
(***************************************************************************)
EXTENDS TransientDriverProofs

-----------------------------------------------------------------------------
(* What the phases do, in the form the proofs below use.                     *)

\* An accepted step, seen by the host: nothing changes when the digital side does
\* not settle, otherwise the clock moves to the landing point and what is due
\* there is drained.
LEMMA Accepted ==
  ASSUME NEW d, NEW outstanding, Accept(d, outstanding)
  PROVE  \E hooks \in SUBSET HookEvents(pred.t) :
           /\ digital' = RunDigital(Seed(d, hooks), pred.t)
           /\ regs' = Clocked(regs, Seed(d, hooks), pred.t)
           /\ sampler' = Clocked(Sampled(sampler, d), Seed(d, hooks), pred.t)
           /\ UNCHANGED <<pred, attempt, saved>>
           /\ lastAccepted' = TRUE
           /\ \/ /\ pc' = "failed"
                 /\ UNCHANGED <<now, dt, prevH, postSet, hist, sets, params, appliedAt, last>>
              \/ /\ held' = FALSE
                 /\ now' = pred.t
                 /\ ApplySets(DueSets(sets, pred.t))
                 /\ prevH' = IF pred.landed \/ DueSets(sets, pred.t) # {}
                             THEN 0 ELSE pred.step
  BY DEF Accept, hostVars

\* A step's verdict leads to an acceptance or back to the checkpoint.
Verdict ==
  \/ \E outstanding \in BOOLEAN :
       /\ attempt.verdict \in {"good", "poor"}
       /\ \/ Accept(digital, outstanding)
          \/ Accept(saved.digital, outstanding)
  \/ Rewind /\ pc' \in {"predict", "failed"}

\* After the verdict of an attempt the driver accepts or rewinds.
LEMMA Verdicts ==
  ASSUME AcceptStep \/ AcceptAtFloor \/ RejectLteStep \/ RejectStep
  PROVE  pc = "decide" /\ Verdict
<1>1. CASE AcceptStep
  BY <1>1 DEF AcceptStep, Verdict
<1>2. CASE AcceptAtFloor
  BY <1>2 DEF AcceptAtFloor, Verdict
<1>3. CASE RejectLteStep
  BY <1>3 DEF RejectLteStep, Verdict
<1>4. CASE RejectStep
  BY <1>4 DEF RejectStep, Verdict
<1> QED BY <1>1, <1>2, <1>3, <1>4

-----------------------------------------------------------------------------
(* Writes.                                                                   *)

\* A write in the queue has not been made; one that was made took effect at its
\* time, not after now; a parameter holds what was written to it last.
Made(i)   == appliedAt[i] # Never
Newest(i) == \A j \in SetIds : SetParam[j] = SetParam[i] /\ j # i =>
               \/ appliedAt[j] < appliedAt[i]
               \/ appliedAt[j] = appliedAt[i] /\ j < i
WInv ==
  /\ Start <= now
  /\ pc = "begin" => now = Start /\ (\A i \in SetIds : ~Made(i)) /\ ~postSet
  /\ \A i \in sets : ~Made(i)
  /\ \A i \in SetIds : Made(i) =>
       /\ appliedAt[i] = Greatest(SetTime[i], Start) /\ appliedAt[i] <= now
       /\ Newest(i) => params[SetParam[i]] = SetValue[i]
  /\ postSet /\ pc \in {"predict", "attempt", "decide"} =>
       \E i \in SetIds : i \notin sets /\ SetTime[i] = now

\* The batch due at t, drained there: each of its writes is due at t or before the
\* start, and everything made before was made before t.
LEMMA DrainKeeps ==
  ASSUME TypeOK, WInv, NEW t \in Nat,
         Drain(DueSets(sets, t), t),
         \A i \in DueSets(sets, t) : Greatest(SetTime[i], Start) = t,
         \A i \in SetIds : Made(i) => appliedAt[i] < t
  PROVE  /\ \A i \in sets' : appliedAt'[i] = Never
         /\ \A i \in SetIds : appliedAt'[i] # Never =>
              /\ appliedAt'[i] = Greatest(SetTime[i], Start) /\ appliedAt'[i] <= t
              /\ Newest(i)' => params'[SetParam[i]] = SetValue[i]
<1> DEFINE I == Written(DueSets(sets, t))
<1>1. /\ sets' = sets \ DueSets(sets, t)
      /\ params' = Write(params, I)
      /\ appliedAt' = [i \in SetIds |-> IF i \in I THEN t ELSE appliedAt[i]]
  BY DEF Drain
<1>2. /\ I \in SUBSET DueSets(sets, t) /\ DueSets(sets, t) \in SUBSET sets
      /\ sets \in SUBSET SetIds /\ SetIds \in SUBSET Nat
  BY SetAssumption DEF Written, DueSets, TypeOK
<1>3. appliedAt \in [SetIds -> Nat \cup {Never}] /\ params \in [Param -> Value]
  BY DEF TypeOK
<1>4. \A i \in sets' : appliedAt'[i] = Never
  BY <1>1, <1>2 DEF WInv, Made
<1> HIDE DEF I
<1>5. ASSUME NEW i \in SetIds, appliedAt'[i] # Never
      PROVE  /\ appliedAt'[i] = Greatest(SetTime[i], Start) /\ appliedAt'[i] <= t
             /\ Newest(i)' => params'[SetParam[i]] = SetValue[i]
  <2>1. appliedAt'[i] = Greatest(SetTime[i], Start) /\ appliedAt'[i] <= t
    <3>1. CASE i \in I
      BY <1>1, <1>2, <3>1
    <3>2. CASE i \notin I
      BY <1>1, <1>3, <1>5, <3>2 DEF WInv, Made
    <3> QED BY <3>1, <3>2
  <2>2. ASSUME Newest(i)' PROVE params'[SetParam[i]] = SetValue[i]
    <3> DEFINE q == SetParam[i]
               writers == {j \in I : SetParam[j] = q}
    <3>1. q \in Param
      BY SetAssumption
    <3>2. params'[q] = IF writers = {} THEN params[q]
                       ELSE SetValue[CHOOSE j \in writers : \A k \in writers : k <= j]
      BY <1>1, <3>1, Zenon DEF Write
    <3>3. CASE writers = {}
      <4>1. \A j \in SetIds : SetParam[j] = q => appliedAt'[j] = appliedAt[j]
        BY <1>1, <3>3
      <4>2. Made(i) /\ Newest(i)
        BY <1>5, <2>2, <4>1 DEF Newest, Made
      <4> QED BY <3>2, <3>3, <4>2 DEF WInv
    <3>4. CASE writers # {}
      <4>1. PICK w \in I : SetParam[w] = q
        BY <3>4
      <4>2. w \in SetIds /\ appliedAt'[w] = t
        BY <1>1, <1>2, <4>1
      <4>3. i \in I
        <5> SUFFICES ASSUME i \notin I PROVE FALSE
          OBVIOUS
        <5>1. appliedAt'[i] = appliedAt[i]
          BY <1>1
        <5>2. appliedAt'[i] < t /\ appliedAt'[i] \in Nat
          BY <1>3, <1>5, <5>1 DEF Made
        <5>3. t < appliedAt'[i] \/ t = appliedAt'[i]
          BY <2>2, <4>1, <4>2 DEF Newest
        <5> QED BY <5>2, <5>3
      <4>4. appliedAt'[i] = t
        BY <1>1, <4>3
      <4>5. \A j \in writers : j <= i
        <5> SUFFICES ASSUME NEW j \in I, SetParam[j] = q, j # i PROVE j <= i
          BY <1>2, <4>3
        <5>1. j \in SetIds /\ appliedAt'[j] = t
          BY <1>1, <1>2
        <5>2. appliedAt'[j] < appliedAt'[i] \/ (appliedAt'[j] = appliedAt'[i] /\ j < i)
          BY <2>2, <5>1 DEF Newest
        <5> QED BY <1>2, <4>4, <5>1, <5>2
      <4>6. \A j \in writers : (\A k \in writers : k <= j) => j = i
        BY <1>2, <4>3, <4>5
      <4>7. (CHOOSE j \in writers : \A k \in writers : k <= j) = i
        <5>1. i \in writers
          BY <4>3
        <5> HIDE DEF writers
        <5> QED BY <4>5, <4>6, <5>1, Zenon
      <4> QED BY <3>2, <3>4, <4>7
    <3> QED BY <3>3, <3>4
  <2> QED BY <2>1, <2>2
<1> QED BY <1>4, <1>5

\* A run starts with nothing made.
LEMMA InitWInv == Init => WInv
<1> SUFFICES ASSUME Init PROVE WInv
  OBVIOUS
<1>1. Start \in Nat /\ now = Start /\ ~postSet /\ sets \in SUBSET SetIds
      /\ \A i \in SetIds : ~Made(i)
  BY EventAssumption DEF Init, Made
<1> QED BY <1>1 DEF WInv

\* begin_run makes what is due at the start, or was due before it.
LEMMA BeginRunWInv == IInv /\ WInv /\ BeginRun => WInv'
<1> SUFFICES ASSUME IInv, WInv, BeginRun PROVE WInv'
  OBVIOUS
<1>1. /\ pc = "begin" /\ pc' \in {"predict", "failed"} /\ UNCHANGED <<now, postSet>>
      /\ Drain(DueSets(sets, Start), Start)
  BY DEF BeginRun, clockVars
<1>2. TypeOK /\ Start \in Nat /\ now = Start /\ ~postSet /\ \A i \in SetIds : ~Made(i)
  BY <1>1, EventAssumption DEF IInv, WInv
<1>3. \A i \in DueSets(sets, Start) : Greatest(SetTime[i], Start) = Start
  <2>1. \A i \in DueSets(sets, Start) : SetTime[i] <= Start /\ SetTime[i] \in Nat
    BY <1>2, SetAssumption DEF DueSets, TypeOK
  <2> QED BY <1>2, <2>1 DEF Greatest
<1>4. /\ \A i \in sets' : appliedAt'[i] = Never
      /\ \A i \in SetIds : appliedAt'[i] # Never =>
           /\ appliedAt'[i] = Greatest(SetTime[i], Start) /\ appliedAt'[i] <= Start
           /\ Newest(i)' => params'[SetParam[i]] = SetValue[i]
  BY <1>1, <1>2, <1>3, DrainKeeps
<1> QED BY <1>1, <1>2, <1>4 DEF WInv, Made

\* What is due at the landing point of a step is due exactly there.
LEMMA DueAtLanding ==
  ASSUME IInv, WInv, pc = "decide", NEW i \in DueSets(sets, pred.t)
  PROVE  SetTime[i] = pred.t /\ Greatest(SetTime[i], Start) = pred.t
<1>1. i \in sets /\ SetTime[i] <= pred.t /\ SetTime[i] >= pred.t /\ now < pred.t
  BY DEF DueSets, IInv, NothingInsideStep
<1>2. SetTime[i] \in Nat /\ pred.t \in Nat /\ now \in Nat /\ Start \in Nat /\ Start <= now
  BY <1>1, SetAssumption, EventAssumption DEF IInv, TypeOK, WInv
<1> QED BY <1>1, <1>2 DEF Greatest

\* An accepted step makes what is due where it lands; a failed one makes nothing.
LEMMA AcceptWInv ==
  ASSUME IInv, WInv, pc = "decide", NEW d, NEW outstanding, Accept(d, outstanding)
  PROVE  WInv'
<1>1. CASE pc' = "failed" /\ UNCHANGED <<now, postSet, sets, params, appliedAt>>
  BY <1>1 DEF WInv, Made, Newest
<1>2. CASE now' = pred.t /\ ApplySets(DueSets(sets, pred.t))
  <2> DEFINE t == pred.t
             due == DueSets(sets, t)
  <2>1. /\ Drain(due, t) /\ postSet' = (due # {}) /\ pc' \in {"predict", "failed"}
    BY <1>2 DEF ApplySets, Armed
  <2>2. TypeOK /\ t \in Nat /\ now < t /\ now \in Nat /\ Start \in Nat /\ Start <= now
    BY EventAssumption DEF IInv, TypeOK, NothingInsideStep, WInv
  <2>3. \A i \in due : SetTime[i] = t /\ Greatest(SetTime[i], Start) = t
    BY DueAtLanding
  <2>4. \A i \in SetIds : Made(i) => appliedAt[i] < t
    <3>1. \A i \in SetIds : Made(i) => appliedAt[i] <= now /\ appliedAt[i] \in Nat
      BY <2>2 DEF WInv, TypeOK, Made
    <3> QED BY <2>2, <3>1
  <2> HIDE DEF t
  <2>5. /\ \A i \in sets' : appliedAt'[i] = Never
        /\ \A i \in SetIds : appliedAt'[i] # Never =>
             /\ appliedAt'[i] = Greatest(SetTime[i], Start) /\ appliedAt'[i] <= t
             /\ Newest(i)' => params'[SetParam[i]] = SetValue[i]
    BY <2>1, <2>2, <2>3, <2>4, DrainKeeps
  <2>6. now' = t /\ Start <= now'
    BY <1>2, <2>2 DEF t
  <2>7. postSet' => \E i \in SetIds : i \notin sets' /\ SetTime[i] = now'
    <3> SUFFICES ASSUME NEW i \in due PROVE i \in SetIds /\ i \notin sets' /\ SetTime[i] = now'
      BY <2>1
    <3>1. sets' = sets \ due /\ due \in SUBSET SetIds
      BY <2>1, <2>2 DEF Drain, DueSets, TypeOK
    <3> QED BY <2>3, <2>6, <3>1
  <2> QED BY <2>1, <2>5, <2>6, <2>7 DEF WInv, Made
<1> QED BY <1>1, <1>2, Accepted

\* Every step keeps the account of the writes.
LEMMA WInvNext == IInv /\ WInv /\ [Next]_vars => WInv'
<1> SUFFICES ASSUME IInv, WInv, [Next]_vars PROVE WInv'
  OBVIOUS
<1>1. CASE BeginRun
  BY <1>1, BeginRunWInv
<1>2. CASE Predict \/ Attempt \/ FinishRun \/ Stopped \/ UNCHANGED vars
  <2>1. /\ UNCHANGED <<now, postSet, sets, params, appliedAt>>
        /\ pc' \in {"predict", "attempt", "decide"} => pc \in {"predict", "attempt", "decide"}
        /\ pc' = "begin" => pc = "begin"
    BY <1>2 DEF Predict, Attempt, FinishRun, Stopped, vars, clockVars, hostVars
  <2> QED BY <2>1 DEF WInv, Made, Newest
<1>3. CASE AcceptStep \/ AcceptAtFloor \/ RejectLteStep \/ RejectStep
  <2>1. pc = "decide" /\ Verdict
    BY <1>3, Verdicts
  <2>2. CASE Rewind /\ pc' \in {"predict", "failed"}
    <3>1. UNCHANGED <<now, postSet, sets, params, appliedAt>>
      BY <2>2 DEF Rewind, hostVars
    <3> QED BY <2>1, <2>2, <3>1 DEF WInv, Made, Newest
  <2> QED BY <2>1, <2>2, AcceptWInv DEF Verdict
<1> QED BY <1>1, <1>2, <1>3 DEF Next

\* set_element_param over the drained batches: every write takes effect at its own
\* time, or at the start, and a parameter holds what was written to it last,
\* whatever steps were rejected and retried on the way.
THEOREM WritesAreOnTime == Spec => []WritesOnTime
<1>1. IInv /\ WInv => WritesOnTime
  BY DEF WInv, WritesOnTime, Made, Newest
<1>2. Init => IInv /\ WInv
  BY InitIInv, InitWInv
<1>3. IInv /\ WInv /\ [Next]_vars => (IInv /\ WInv)'
  BY IInvNext, WInvNext
<1> QED BY <1>1, <1>2, <1>3, PTL DEF Spec

\* sets_just_applied: a step is exempt from the error gate as the one after a write
\* only where a write was drained.
THEOREM ExemptionsAreEarned == Spec => []ExemptionIsEarned
<1>1. WInv => ExemptionIsEarned
  BY DEF WInv, ExemptionIsEarned
<1>2. Init => IInv /\ WInv
  BY InitIInv, InitWInv
<1>3. IInv /\ WInv /\ [Next]_vars => (IInv /\ WInv)'
  BY IInvNext, WInvNext
<1> QED BY <1>1, <1>2, <1>3, PTL DEF Spec

\* A write that leaves the queue is made, asks for a rebuild, or is in a batch that
\* is refused.
LEMMA DrainLoses ==
  ASSUME TypeOK, NEW I \in SUBSET SetIds, NEW t \in Nat, Drain(I, t),
         NEW i \in sets \ sets'
  PROVE  \/ appliedAt'[i] # Never
         \/ Strength[SetParam[i]] = "rebuild" /\ Reports(I, {"rebuild"})
         \/ Reports(I, {"invalid"})
<1>1. i \in I /\ i \in SetIds
  BY DEF Drain, TypeOK
<1>2. Strength[SetParam[i]] \in {"restamp", "op", "rebuild", "invalid"}
  BY <1>1, SetAssumption
<1>3. CASE i \in Written(I)
  BY <1>1, <1>3 DEF Drain, Never
<1>4. CASE i \notin Written(I)
  BY <1>1, <1>2, <1>4 DEF Written, Reports
<1> QED BY <1>3, <1>4

\* apply_scheduled_sets and the rejections: a write leaves the queue when it is
\* made, or with the run; only begin_run drops one that asks for a rebuild.
THEOREM WritesAreNotLost == Spec => NoWriteLost
<1> DEFINE Kept(i) == appliedAt'[i] # Never \/ DroppedAtStart(i) \/ pc' = "failed"
<1>1. ASSUME IInv, [Next]_vars, NEW i \in sets \ sets' PROVE Kept(i)
  <2>1. TypeOK /\ Start \in Nat /\ pred.t \in Nat
    BY <1>1, EventAssumption DEF IInv, TypeOK
  <2>2. \A t \in Nat : DueSets(sets, t) \in SUBSET SetIds
    BY <2>1 DEF DueSets, TypeOK
  <2>3. CASE BeginRun
    <3>1. /\ pc = "begin" /\ Drain(DueSets(sets, Start), Start)
          /\ pc' = "failed" \/ ~Reports(DueSets(sets, Start), {"invalid"})
      BY <2>3 DEF BeginRun
    <3> QED BY <1>1, <2>1, <2>2, <3>1, DrainLoses DEF DroppedAtStart
  <2>4. CASE \E d, outstanding : Accept(d, outstanding)
    <3> DEFINE due == DueSets(sets, pred.t)
    <3>1. PICK d, outstanding : Accept(d, outstanding)
      BY <2>4
    <3>2. UNCHANGED sets \/ ApplySets(due)
      BY <3>1, Accepted
    <3>3. ApplySets(due) => /\ Drain(due, pred.t)
                            /\ pc' = "failed" \/ ~Reports(due, {"invalid", "rebuild"})
      BY DEF ApplySets, Reports
    <3>4. Reports(due, {"invalid"}) \/ Reports(due, {"rebuild"})
            => Reports(due, {"invalid", "rebuild"})
      BY DEF Reports
    <3> HIDE DEF due
    <3>5. due \in SUBSET SetIds
      BY <2>1, <2>2 DEF due
    <3> QED BY <1>1, <2>1, <3>2, <3>3, <3>4, <3>5, DrainLoses
  <2>5. CASE UNCHANGED sets
    BY <1>1, <2>5
  <2>6. CASE AcceptStep \/ AcceptAtFloor \/ RejectLteStep \/ RejectStep
    <3>1. Verdict
      BY <2>6, Verdicts
    <3> QED BY <2>4, <2>5, <3>1 DEF Verdict, Rewind, hostVars
  <2>7. CASE Predict \/ Attempt \/ FinishRun \/ Stopped \/ UNCHANGED vars
    <3>1. UNCHANGED sets
      BY <2>7 DEF Predict, Attempt, FinishRun, Stopped, vars, hostVars
    <3> QED BY <2>5, <3>1
  <2> QED BY <1>1, <2>3, <2>6, <2>7 DEF Next
<1>2. IInv /\ [Next]_vars => [\A i \in sets \ sets' : Kept(i)]_vars
  BY <1>1
<1> QED BY <1>2, Invariance, PTL DEF Spec, NoWriteLost

-----------------------------------------------------------------------------
(* The Newton history.                                                       *)

\* The two newest rows after a converged solve are the stages of its step, and both
\* were integrated from the newest row there was.
LEMMA SteppedRows ==
  ASSUME NEW h \in [0..3 -> Row], NEW from, NEW to
  PROVE  /\ Stepped(h, from, to)[0] =
              [stage |-> "end", from |-> from, to |-> to, base |-> h[0].to]
         /\ Stepped(h, from, to)[1] =
              [stage |-> "gamma", from |-> from, to |-> to, base |-> h[0].to]
<1>1. 0 \in 0..3 /\ 1 \in 0..3 /\ 1 # 0 /\ 1 - 1 = 0
  OBVIOUS
<1> DEFINE row(stage) == [stage |-> stage, from |-> from, to |-> to, base |-> h[0].to]
           g == Push(h, row("gamma"))
<1>2. Stepped(h, from, to) = Push(g, row("end"))
  BY DEF Stepped
<1>3. g[0] = row("gamma")
  BY <1>1 DEF Push
<1> HIDE DEF g
<1>4. Push(g, row("end"))[0] = row("end") /\ Push(g, row("end"))[1] = g[0]
  BY <1>1 DEF Push
<1> QED BY <1>2, <1>3, <1>4

\* The newest row is the point at the clock, and after an acceptance the one before
\* it is the first stage of the step that ended there.
AtPoint(h, t) == h[0].stage = "end" /\ h[0].to = t
HInv ==
  /\ pc = "begin" => ~lastAccepted
  /\ pc \in {"predict", "attempt"} =>
       /\ AtPoint(hist, now)
       /\ lastAccepted /\ prevH > 0 =>
            hist[1].stage = "gamma" /\ hist[1].to = now /\ hist[1].from = now - prevH
  /\ pc \in {"attempt", "decide"} => pred.step = pred.t - now
  /\ pc = "decide" =>
       /\ AtPoint(saved.hist, now)
       /\ attempt.verdict # "diverged" =>
            /\ AtPoint(hist, pred.t)
            /\ hist[1].stage = "gamma" /\ hist[1].to = pred.t /\ hist[1].from = now
            /\ hist[0].base = now /\ hist[1].base = now

\* begin_run leaves the operating point as the newest row.
LEMMA BeginRunHInv == IInv /\ HInv /\ BeginRun => HInv'
<1> SUFFICES ASSUME IInv, HInv, BeginRun PROVE HInv'
  OBVIOUS
<1>1. /\ pc = "begin" /\ ~lastAccepted /\ now = Start
      /\ UNCHANGED <<now, prevH, lastAccepted, pred, attempt, saved>>
      /\ \/ pc' = "predict" /\ hist' = [k \in 0..3 |-> IF k <= 1 THEN StartRow ELSE EmptyRow]
         \/ pc' = "failed"
  BY DEF BeginRun, clockVars, HInv, IInv, StartsAhead
<1>2. pc' = "predict" => hist'[0] = StartRow
  BY <1>1
<1>3. StartRow.stage = "end" /\ StartRow.to = Start
  BY DEF StartRow, EmptyRow
<1> QED BY <1>1, <1>2, <1>3 DEF HInv, AtPoint

\* An attempt is solved from the point at the clock.
LEMMA AttemptHInv == IInv /\ HInv /\ Attempt => HInv'
<1> SUFFICES ASSUME IInv, HInv, Attempt PROVE HInv'
  OBVIOUS
<1>1. /\ pc = "attempt" /\ saved'.hist = hist /\ UNCHANGED <<now, lastAccepted, pred>>
      /\ \/ pc' = "failed"
         \/ /\ pc' = "decide"
            /\ \/ hist' = Stepped(hist, now, pred.t)
               \/ attempt' = [attempt EXCEPT !.verdict = "diverged"]
  BY DEF Attempt, clockVars
<1>2. AtPoint(hist, now) /\ hist \in [0..3 -> Row] /\ pred.step = pred.t - now
  BY <1>1 DEF HInv, IInv, TypeOK
<1>3. attempt' = [attempt EXCEPT !.verdict = "diverged"] => attempt'.verdict = "diverged"
  BY DEF IInv, AttemptShape
<1>4. CASE pc' = "decide" /\ hist' = Stepped(hist, now, pred.t)
  <2>1. /\ hist'[0] = [stage |-> "end", from |-> now, to |-> pred.t, base |-> now]
        /\ hist'[1] = [stage |-> "gamma", from |-> now, to |-> pred.t, base |-> now]
    BY <1>2, <1>4, SteppedRows DEF AtPoint
  <2> QED BY <1>1, <1>2, <1>4, <2>1 DEF HInv, AtPoint
<1>5. CASE pc' = "decide" /\ attempt'.verdict = "diverged"
  BY <1>1, <1>2, <1>5 DEF HInv, AtPoint
<1>6. CASE pc' = "failed"
  BY <1>1, <1>6 DEF HInv
<1> QED BY <1>1, <1>3, <1>4, <1>5, <1>6

\* An accepted step's stages become the two newest rows; a step solved again after a
\* write counts as no step for the predictor.
LEMMA AcceptHInv ==
  ASSUME IInv, HInv, pc = "decide", attempt.verdict # "diverged",
         NEW d, NEW outstanding, Accept(d, outstanding)
  PROVE  HInv'
<1>1. CASE pc' = "failed"
  BY <1>1 DEF HInv
<1>2. CASE /\ pc' # "failed" /\ now' = pred.t
           /\ ApplySets(DueSets(sets, pred.t))
           /\ prevH' = IF pred.landed \/ DueSets(sets, pred.t) # {} THEN 0 ELSE pred.step
  <2> DEFINE due == DueSets(sets, pred.t)
  <2>1. /\ pc' = "predict"
        /\ \/ hist' = hist
           \/ due # {} /\ hist' = Stepped(hist, now, pred.t)
    BY <1>2 DEF ApplySets, Reports
  <2>2. /\ AtPoint(hist, pred.t)
        /\ hist[1].stage = "gamma" /\ hist[1].to = pred.t /\ hist[1].from = now
        /\ pred.step = pred.t - now
        /\ hist \in [0..3 -> Row] /\ now \in Nat /\ pred.t \in Nat /\ pred.step \in Nat
    BY DEF HInv, IInv, TypeOK
  <2> HIDE DEF due
  <2>3. CASE hist' = hist
    <3>1. prevH' > 0 => prevH' = pred.t - now
      BY <1>2, <2>2
    <3>2. now = pred.t - (pred.t - now)
      BY <2>2
    <3>3. prevH' > 0 => hist'[1].from = now' - prevH'
      BY <1>2, <2>2, <2>3, <3>1, <3>2
    <3> QED BY <1>2, <2>1, <2>2, <2>3, <3>3 DEF HInv, AtPoint
  <2>4. CASE due # {} /\ hist' = Stepped(hist, now, pred.t)
    <3>1. prevH' = 0
      BY <1>2, <2>4 DEF due
    <3>2. hist'[0] = [stage |-> "end", from |-> now, to |-> pred.t, base |-> hist[0].to]
      BY <2>2, <2>4, SteppedRows, Zenon
    <3>3. hist'[0].stage = "end" /\ hist'[0].to = pred.t
      BY <3>2
    <3> QED BY <1>2, <2>1, <3>1, <3>3 DEF HInv, AtPoint
  <2> QED BY <2>1, <2>3, <2>4
<1> QED BY <1>1, <1>2, Accepted

\* Every step keeps the history on the accepted trajectory.
LEMMA HInvNext == IInv /\ HInv /\ [Next]_vars => HInv'
<1> SUFFICES ASSUME IInv, HInv, [Next]_vars PROVE HInv'
  OBVIOUS
<1>1. CASE BeginRun
  BY <1>1, BeginRunHInv
<1>2. CASE Predict
  <2>1. /\ pc = "predict" /\ pc' = "attempt"
        /\ UNCHANGED <<now, prevH, lastAccepted, attempt, saved, hist>>
        /\ \E t, landed : pred' = Prediction(t, landed)
    BY <1>2 DEF Predict, clockVars, deviceVars
  <2>2. pred'.step = pred'.t - now
    BY <2>1 DEF Prediction
  <2> QED BY <2>1, <2>2 DEF HInv
<1>3. CASE Attempt
  BY <1>3, AttemptHInv
<1>4. CASE AcceptStep \/ AcceptAtFloor \/ RejectLteStep \/ RejectStep
  <2>1. pc = "decide" /\ Verdict
    BY <1>4, Verdicts
  <2>2. CASE Rewind /\ pc' \in {"predict", "failed"}
    <3>1. hist' = saved.hist /\ ~lastAccepted' /\ UNCHANGED <<now, prevH, pred>>
      BY <2>2 DEF Rewind
    <3> QED BY <2>1, <2>2, <3>1 DEF HInv, AtPoint
  <2> QED BY <2>1, <2>2, AcceptHInv DEF Verdict
<1>5. CASE FinishRun
  <2>1. pc' = "done"
    BY <1>5 DEF FinishRun
  <2> QED BY <2>1 DEF HInv
<1>6. CASE Stopped \/ UNCHANGED vars
  BY <1>6 DEF Stopped, vars, clockVars, deviceVars, HInv, AtPoint
<1> QED BY <1>1, <1>2, <1>3, <1>4, <1>5, <1>6 DEF Next

\* The ring of solutions: when a step is solved it starts from the accepted point,
\* and the rows the predictor extrapolates are the stages of the last accepted step.
THEOREM HistoryIsAligned == Spec => []HistoryAligned
<1>1. IInv /\ HInv => HistoryAligned
  BY DEF HInv, HistoryAligned, AtPoint
<1>2. Init => IInv /\ HInv
  BY InitIInv DEF Init, HInv
<1>3. IInv /\ HInv /\ [Next]_vars => (IInv /\ HInv)'
  BY IInvNext, HInvNext
<1> QED BY <1>1, <1>2, <1>3, PTL DEF Spec

-----------------------------------------------------------------------------
(* Registers, nets and recorded points.                                      *)

\* An event later than all that were applied decides the net, and is a rising edge
\* when it raises it.
LEMMA NewestDecides ==
  ASSUME NEW A \in SUBSET DEvents, NEW e \in DEvents, \A f \in A : DTime[f] < DTime[e]
  PROVE  /\ Net(A \cup {e}) = DVal[e]
         /\ Rising(A \cup {e}) = Rising(A) \cup {f \in {e} : DVal[e] = 1 /\ Net(A) # 1}
         /\ e \notin A
<1>1. DTime \in [DEvents -> Nat]
  BY EventAssumption
<1>2. e \notin A
  BY <1>1
<1> DEFINE B == A \cup {e}
<1>3. B \in SUBSET DEvents /\ B # {}
  OBVIOUS
<1>4. Net(B) = DVal[e]
  <2>1. Latest(B) \in B /\ \A f \in B : DTime[f] <= DTime[Latest(B)]
    BY <1>3, LatestIn
  <2>2. Latest(B) = e
    <3> SUFFICES ASSUME Latest(B) \in A PROVE FALSE
      BY <2>1
    <3>1. DTime[Latest(B)] < DTime[e] /\ DTime[e] <= DTime[Latest(B)]
      BY <2>1
    <3>2. DTime[Latest(B)] \in Nat /\ DTime[e] \in Nat
      BY <1>1, <1>3, <2>1
    <3> QED BY <3>1, <3>2
  <2> QED BY <1>3, <2>2 DEF Net
<1>5. ASSUME NEW x \in A
      PROVE  {f \in B : DTime[f] < DTime[x]} = {f \in A : DTime[f] < DTime[x]}
  <2>1. DTime[x] < DTime[e] /\ DTime[x] \in Nat /\ DTime[e] \in Nat
    BY <1>1
  <2> QED BY <2>1
<1>6. {f \in B : DTime[f] < DTime[e]} = A
  BY <1>1
<1>7. Rising(B) = Rising(A) \cup {f \in {e} : DVal[e] = 1 /\ Net(A) # 1}
  <2> HIDE DEF B
  <2>1. ASSUME NEW x \in A PROVE x \in Rising(B) <=> x \in Rising(A)
    BY <1>5 DEF Rising, B
  <2>2. e \in Rising(B) <=> (DVal[e] = 1 /\ Net(A) # 1)
    BY <1>6 DEF Rising, B
  <2>3. Rising(B) \subseteq B /\ Rising(A) \subseteq A
    BY DEF Rising
  <2> QED BY <1>2, <2>1, <2>2, <2>3 DEF B
<1> QED BY <1>2, <1>4, <1>7

\* Two events are never due at the same instant.
LEMMA OneIsDue ==
  ASSUME NEW d \in Digital, NEW t \in Nat, \A e \in d.pending : DTime[e] >= t,
         NEW e \in Due(d, t)
  PROVE  Due(d, t) = {e} /\ e \in DEvents /\ DTime[e] = t
<1>1. d.pending \in SUBSET DEvents /\ DTime \in [DEvents -> Nat]
  BY EventAssumption DEF Digital
<1>2. \A f \in Due(d, t) : f \in DEvents /\ DTime[f] = t
  BY <1>1 DEF Due
<1>3. \A f \in Due(d, t) : f = e
  BY <1>2, EventAssumption
<1> QED BY <1>2, <1>3

\* The registers are those the applied events make; nothing was applied after t.
Follows(r, A)  == r.prev = Net(A) /\ r.edges = Cardinality(Rising(A))
Before(d, t)   == \A e \in d.applied : DTime[e] <= t

\* A flip-flop run over what is due follows it, also when it had seen it already.
LEMMA ClockedFollows ==
  ASSUME NEW r \in Regs, NEW d \in Digital, NEW t \in Nat, Before(d, t),
         \A e \in d.pending : DTime[e] >= t,
         Follows(r, d.applied) \/ Follows(r, RunDigital(d, t).applied)
  PROVE  /\ Follows(Clocked(r, d, t), RunDigital(d, t).applied)
         /\ Before(RunDigital(d, t), t)
<1> DEFINE A == d.applied
           B == RunDigital(d, t).applied
           c == Clocked(r, d, t)
<1>1. /\ A \in SUBSET DEvents /\ d.pending \in SUBSET DEvents /\ B = A \cup Due(d, t)
      /\ DTime \in [DEvents -> Nat] /\ DVal \in [DEvents -> {0, 1}]
  BY EventAssumption DEF Digital, RunDigital
<1>2. Before(RunDigital(d, t), t)
  BY <1>1 DEF Before, Due
<1>3. r.edges \in Nat
  BY DEF Regs
<1>4. Net(A) # Net(B) =>
        c.prev = Net(B) /\ c.edges = r.edges + (IF r.prev # 1 /\ Net(B) = 1 THEN 1 ELSE 0)
  BY DEF Clocked, SeqPhase, Changes
<1>5. Net(A) = Net(B) => c = r
  BY DEF Clocked, Changes
<1> HIDE DEF B, c
<1>6. ASSUME Follows(r, B) PROVE Follows(c, B)
  <2>1. CASE Net(A) # Net(B)
    <3>1. c.edges = r.edges
      BY <1>3, <1>4, <1>6, <2>1 DEF Follows
    <3> QED BY <1>4, <1>6, <2>1, <3>1 DEF Follows
  <2> QED BY <1>5, <1>6, <2>1
<1>7. ASSUME Follows(r, A) PROVE Follows(c, B)
  <2>1. CASE A = B
    BY <1>6, <1>7, <2>1
  <2>2. CASE A # B
    <3>1. PICK e \in Due(d, t) : e \notin A
      BY <1>1, <2>2
    <3>2. B = A \cup {e} /\ e \in DEvents /\ DTime[e] = t
      BY <1>1, <3>1, OneIsDue
    <3>3. ASSUME NEW f \in A PROVE DTime[f] < DTime[e]
      <4>1. DTime[f] <= t /\ DTime[f] \in Nat /\ f # e /\ f \in DEvents
        BY <1>1, <3>1 DEF Before
      <4>2. DTime[f] # DTime[e]
        BY <3>2, <4>1, EventAssumption
      <4> QED BY <3>2, <4>1, <4>2
    <3>4. Net(B) = DVal[e] /\ Rising(B) = Rising(A) \cup {f \in {e} : DVal[e] = 1 /\ Net(A) # 1}
      BY <1>1, <3>2, <3>3, NewestDecides
    <3>5. IsFiniteSet(Rising(A)) /\ e \notin Rising(A) /\ Cardinality(Rising(A)) \in Nat
      <4>1. Rising(A) \in SUBSET DEvents /\ IsFiniteSet(DEvents)
        BY <1>1, EventAssumption DEF Rising
      <4>2. IsFiniteSet(Rising(A))
        BY <4>1, FS_Subset
      <4> QED BY <3>1, <4>2, FS_CardinalityType DEF Rising
    <3>6. CASE DVal[e] = 1 /\ Net(A) # 1
      <4>1. Rising(B) = Rising(A) \cup {e}
        BY <3>4, <3>6
      <4>2. Cardinality(Rising(B)) = Cardinality(Rising(A)) + 1
        BY <3>5, <4>1, FS_AddElement
      <4>3. c.prev = Net(B) /\ c.edges = r.edges + 1
        BY <1>4, <1>7, <3>4, <3>6 DEF Follows
      <4> QED BY <1>7, <4>2, <4>3 DEF Follows
    <3>7. CASE ~(DVal[e] = 1 /\ Net(A) # 1)
      <4>1. Rising(B) = Rising(A)
        BY <3>4, <3>7
      <4>2. c.prev = Net(B) /\ c.edges = r.edges
        <5>1. CASE Net(A) # Net(B)
          BY <1>3, <1>4, <1>7, <3>4, <3>7, <5>1 DEF Follows
        <5>2. CASE Net(A) = Net(B)
          BY <1>5, <1>7, <5>2 DEF Follows
        <5> QED BY <5>1, <5>2
      <4> QED BY <1>7, <4>1, <4>2 DEF Follows
    <3> QED BY <3>6, <3>7
  <2> QED BY <2>1, <2>2
<1> QED BY <1>2, <1>6, <1>7 DEF B, c

\* What the devices emit when a set of events is applied.
Emitted(S) == UNION {Follow[e] : e \in S}

\* A run of the digital side queues what the due events emit.
LEMMA RunEmits ==
  ASSUME NEW d, NEW t
  PROVE  RunDigital(d, t) = [pending |-> (d.pending \ Due(d, t)) \cup Emitted(Due(d, t)),
                             applied |-> d.applied \cup Due(d, t)]
  BY DEF RunDigital, Emitted

\* What the accept hooks of t add is due there, so it does not matter whether the
\* queue was run to t before they fired (an accepted attempt) or not (at the floor).
LEMMA HooksLand ==
  ASSUME NEW d \in Digital, NEW t \in Nat, \A e \in d.pending : DTime[e] >= t,
         NEW hooks \in SUBSET HookEvents(t)
  PROVE  /\ RunDigital(Seed(RunDigital(d, t), hooks), t) = RunDigital(Seed(d, hooks), t)
         /\ RunDigital(Seed(d, hooks), t).applied = RunDigital(d, t).applied \cup hooks
<1> DEFINE P == d.pending
           A == d.applied
           D == Due(d, t)
           F == Emitted(D)
           G == Emitted(D \cup hooks)
<1>1. /\ P \in SUBSET DEvents /\ A \in SUBSET DEvents /\ hooks \in SUBSET DEvents
      /\ d = [pending |-> P, applied |-> A]
      /\ DTime \in [DEvents -> Nat] /\ Follow \in [DEvents -> SUBSET DEvents]
      /\ \A e \in hooks : DTime[e] = t
  BY EventAssumption DEF Digital, HookEvents
<1>2. D = {e \in P : DTime[e] = t} /\ D \in SUBSET DEvents
  BY <1>1 DEF Due
<1>3. \A e \in D \cup hooks : \A f \in Follow[e] : DTime[f] > t /\ f \in DEvents
  <2> SUFFICES ASSUME NEW e \in D \cup hooks, NEW f \in Follow[e]
               PROVE  DTime[f] > t /\ f \in DEvents
    OBVIOUS
  <2>1. e \in DEvents /\ DTime[e] = t
    BY <1>1, <1>2
  <2> QED BY <1>1, <2>1, EventAssumption
<1>4. \A f \in F \cup G : f \in DEvents /\ DTime[f] \in Nat /\ DTime[f] > t
  BY <1>1, <1>3 DEF Emitted
<1>5. RunDigital(d, t) = [pending |-> (P \ D) \cup F, applied |-> A \cup D]
  BY RunEmits
<1>6. Seed(d, hooks) = [pending |-> P \cup hooks, applied |-> A]
  <2>1. PICK p, a : p = P /\ a = A
    OBVIOUS
  <2>2. d = [pending |-> p, applied |-> a]
    BY <1>1, <2>1
  <2>3. Seed(d, hooks) = [pending |-> p \cup hooks, applied |-> a]
    BY <2>2 DEF Seed
  <2> QED BY <2>1, <2>3
<1>7. Seed(RunDigital(d, t), hooks) = [pending |-> (P \ D) \cup F \cup hooks, applied |-> A \cup D]
  <2> HIDE DEF P, A, D, F
  <2> QED BY <1>5 DEF Seed
<1>8. Due(Seed(d, hooks), t) = D \cup hooks
  BY <1>1, <1>2, <1>6 DEF Due
<1>9. Due(Seed(RunDigital(d, t), hooks), t) = hooks
  <2>1. \A f \in (P \ D) \cup F : ~(DTime[f] <= t)
    <3>1. \A f \in P \ D : DTime[f] \in Nat /\ DTime[f] >= t /\ DTime[f] # t
      BY <1>1, <1>2
    <3>2. \A f \in F : DTime[f] \in Nat /\ DTime[f] > t
      BY <1>4
    <3> QED BY <3>1, <3>2
  <2>2. \A f \in hooks : DTime[f] <= t
    BY <1>1
  <2> HIDE DEF P, D, F
  <2> QED BY <1>7, <2>1, <2>2 DEF Due
<1>10. RunDigital(Seed(d, hooks), t)
         = [pending |-> ((P \cup hooks) \ (D \cup hooks)) \cup G,
            applied |-> A \cup D \cup hooks]
  <2>1. PICK x : x = Seed(d, hooks)
    OBVIOUS
  <2> HIDE DEF P, A, D
  <2>2. x.pending = P \cup hooks /\ x.applied = A /\ Due(x, t) = D \cup hooks
    BY <1>6, <1>8, <2>1
  <2>3. RunDigital(x, t) = [pending |-> (x.pending \ Due(x, t)) \cup Emitted(Due(x, t)),
                            applied |-> x.applied \cup Due(x, t)]
    BY RunEmits
  <2>4. A \cup (D \cup hooks) = A \cup D \cup hooks
    OBVIOUS
  <2> QED BY <2>1, <2>2, <2>3, <2>4, Zenon DEF G
<1>11. RunDigital(Seed(RunDigital(d, t), hooks), t)
         = [pending |-> (((P \ D) \cup F \cup hooks) \ hooks) \cup Emitted(hooks),
            applied |-> A \cup D \cup hooks]
  <2>1. PICK x : x = Seed(RunDigital(d, t), hooks)
    OBVIOUS
  <2> HIDE DEF P, A, D, F
  <2>2. /\ x.pending = (P \ D) \cup F \cup hooks /\ x.applied = A \cup D
        /\ Due(x, t) = hooks
    BY <1>7, <1>9, <2>1
  <2>3. RunDigital(x, t) = [pending |-> (x.pending \ Due(x, t)) \cup Emitted(Due(x, t)),
                            applied |-> x.applied \cup Due(x, t)]
    BY RunEmits
  <2> QED BY <2>1, <2>2, <2>3, Zenon
<1>12. (((P \ D) \cup F \cup hooks) \ hooks) \cup Emitted(hooks)
         = ((P \cup hooks) \ (D \cup hooks)) \cup G
  <2>1. \A f \in F : f \notin hooks
    BY <1>1, <1>4
  <2>2. G = F \cup Emitted(hooks)
    BY DEF Emitted
  <2> HIDE DEF P, D, F, G
  <2> QED BY <2>1, <2>2
<1> HIDE DEF P, A, D, F, G
<1>13. RunDigital(Seed(RunDigital(d, t), hooks), t) = RunDigital(Seed(d, hooks), t)
  BY <1>10, <1>11, <1>12
<1>14. RunDigital(Seed(d, hooks), t).applied = RunDigital(d, t).applied \cup hooks
  BY <1>5, <1>10
<1> QED BY <1>13, <1>14

\* Registers and nets agree whenever the driver is between phases, and so do those
\* of the checkpoint; an attempt is the checkpoint run to the landing point.
RInv ==
  /\ pc \in {"begin", "predict", "attempt", "done"} =>
       Follows(regs, digital.applied) /\ Before(digital, now)
  /\ pc = "decide" =>
       /\ Follows(saved.regs, saved.digital.applied) /\ Before(saved.digital, now)
       /\ Follows(regs, digital.applied)
       /\ digital = RunDigital(saved.digital, pred.t)

\* The queue of the checkpoint starts at the landing point.
LEMMA CheckpointQueue ==
  ASSUME IInv, RInv, pc = "decide"
  PROVE  /\ saved.digital \in Digital /\ digital \in Digital /\ pred.t \in Nat /\ now \in Nat
         /\ now < pred.t /\ regs \in Regs /\ saved.regs \in Regs
         /\ \A e \in saved.digital.pending : DTime[e] >= pred.t
         /\ \A e \in digital.pending : DTime[e] >= pred.t
         /\ Before(saved.digital, pred.t)
<1>1. /\ saved.digital \in Digital /\ digital \in Digital /\ pred.t \in Nat /\ now \in Nat
      /\ now < pred.t /\ regs \in Regs /\ saved.regs \in Regs
  BY DEF IInv, TypeOK, NothingInsideStep
<1>2. \A e \in saved.digital.pending : DTime[e] >= pred.t
  BY DEF IInv, CheckpointOpen, NothingInsideStep, Committed
<1>3. \A e \in digital.pending : DTime[e] >= pred.t
  <2>1. digital.pending \in SUBSET DEvents /\ DTime \in [DEvents -> Nat]
    BY <1>1, EventAssumption DEF Digital
  <2>2. \A e \in digital.pending : DTime[e] > pred.t
    BY DEF IInv, AttemptSettled
  <2> QED BY <1>1, <2>1, <2>2
<1>4. Before(saved.digital, pred.t)
  <2>1. saved.digital.applied \in SUBSET DEvents /\ DTime \in [DEvents -> Nat]
    BY <1>1, EventAssumption DEF Digital
  <2>2. \A e \in saved.digital.applied : DTime[e] <= now
    BY DEF RInv, Before
  <2> QED BY <1>1, <2>1, <2>2 DEF Before
<1> QED BY <1>1, <1>2, <1>3, <1>4

\* Accepting a step, from the nets of the attempt or at the floor from those of the
\* checkpoint, brings the nets to the same place, and the registers after them.
LEMMA AcceptFollows ==
  ASSUME IInv, RInv, pc = "decide", NEW c, c \in {digital, saved.digital},
         NEW hooks \in SUBSET HookEvents(pred.t)
  PROVE  LET end == RunDigital(Seed(c, hooks), pred.t)
         IN  /\ end = RunDigital(Seed(saved.digital, hooks), pred.t)
             /\ end.applied = digital.applied \cup hooks
             /\ Before(end, pred.t)
             /\ Follows(Clocked(regs, Seed(c, hooks), pred.t), end.applied)
<1> DEFINE d == saved.digital
           t == pred.t
           s == Seed(c, hooks)
<1>1. /\ d \in Digital /\ digital \in Digital /\ c \in Digital /\ t \in Nat /\ regs \in Regs
      /\ \A e \in d.pending : DTime[e] >= t
      /\ \A e \in c.pending : DTime[e] >= t
      /\ Before(d, t)
  BY CheckpointQueue, Zenon
<1>2. digital = RunDigital(d, t) /\ Follows(regs, digital.applied)
  BY DEF RInv
<1>3. /\ RunDigital(s, t) = RunDigital(Seed(d, hooks), t)
      /\ RunDigital(s, t).applied = digital.applied \cup hooks
  <2>1. /\ RunDigital(Seed(RunDigital(d, t), hooks), t) = RunDigital(Seed(d, hooks), t)
        /\ RunDigital(Seed(d, hooks), t).applied = RunDigital(d, t).applied \cup hooks
    BY <1>1, HooksLand
  <2> QED BY <1>2, <2>1
<1>4. s \in Digital /\ \A e \in s.pending : DTime[e] >= t
  BY <1>1, SeedType, SeedNotBefore, Zenon
<1>5. s.applied = c.applied
  BY <1>1 DEF Seed, Digital
<1>6. Before(c, t)
  <2>1. digital.applied = d.applied \cup Due(d, t)
    BY <1>2 DEF RunDigital
  <2>2. Before(digital, t)
    BY <1>1, <2>1 DEF Before, Due
  <2> QED BY <1>1, <2>2
<1>7. Before(s, t)
  BY <1>5, <1>6 DEF Before
<1>8. Follows(regs, s.applied) \/ Follows(regs, RunDigital(s, t).applied)
  <2>1. CASE c = digital
    BY <1>2, <1>5, <2>1
  <2>2. CASE c = d /\ Due(d, t) = {}
    <3>1. digital.applied = d.applied
      BY <1>2, <2>2 DEF RunDigital
    <3> QED BY <1>2, <1>5, <2>2, <3>1
  <2>3. CASE c = d /\ Due(d, t) # {}
    <3>1. PICK e \in Due(d, t) : TRUE
      BY <2>3
    <3>2. Due(d, t) = {e} /\ DTime[e] = t /\ e \in DEvents
      BY <1>1, <3>1, OneIsDue
    <3>3. hooks \subseteq {e}
      BY <3>2, EventAssumption DEF HookEvents
    <3>4. digital.applied = d.applied \cup {e}
      BY <1>2, <3>2 DEF RunDigital
    <3>5. RunDigital(s, t).applied = digital.applied
      BY <1>3, <3>3, <3>4
    <3> QED BY <1>2, <3>5
  <2> QED BY <2>1, <2>2, <2>3
<1>9. Follows(Clocked(regs, s, t), RunDigital(s, t).applied) /\ Before(RunDigital(s, t), t)
  BY <1>1, <1>4, <1>7, <1>8, ClockedFollows, Zenon
<1> QED BY <1>3, <1>9

\* They agree at power-up: nothing was applied and nothing latched.
LEMMA InitRInv == Init => RInv
<1> SUFFICES ASSUME Init PROVE RInv
  OBVIOUS
<1>1. pc = "begin" /\ regs.prev = 0 /\ regs.edges = 0 /\ digital.applied = {}
  BY DEF Init
<1>2. Net({}) = 0 /\ Rising({}) = {}
  BY DEF Net, Rising
<1>3. Cardinality(Rising({})) = 0
  BY <1>2, FS_EmptySet
<1> QED BY <1>1, <1>2, <1>3 DEF RInv, Follows, Before

\* Every step keeps registers and nets together.
LEMMA RInvNext == IInv /\ RInv /\ [Next]_vars => RInv'
<1> SUFFICES ASSUME IInv, RInv, [Next]_vars PROVE RInv'
  OBVIOUS
<1>1. CASE BeginRun \/ Predict \/ FinishRun \/ Stopped \/ UNCHANGED vars
  <2>1. /\ UNCHANGED <<digital, regs, saved, now>>
        /\ \/ pc' = "failed" \/ UNCHANGED <<pc, pred>>
           \/ /\ pc \in {"begin", "predict"}
              /\ pc' \in {"predict", "attempt", "done"}
    BY <1>1 DEF BeginRun, Predict, FinishRun, Stopped, vars, clockVars, deviceVars
  <2> QED BY <2>1 DEF RInv, Follows, Before
<1>2. CASE Attempt
  <2>1. /\ pc = "attempt" /\ pc' \in {"decide", "failed"}
        /\ saved' = [digital |-> digital, regs |-> regs, sampler |-> sampler, hist |-> hist]
        /\ digital' = RunDigital(digital, pred.t)
        /\ regs' = Clocked(regs, digital, pred.t)
        /\ UNCHANGED <<now, pred>>
    BY <1>2 DEF Attempt, clockVars
  <2>2. Follows(regs, digital.applied) /\ Before(digital, now)
    BY <2>1 DEF RInv
  <2>3. /\ digital \in Digital /\ regs \in Regs /\ pred.t \in Nat /\ now \in Nat /\ now < pred.t
        /\ \A e \in digital.pending : DTime[e] >= pred.t
    BY <2>1 DEF IInv, TypeOK, CheckpointOpen, NothingInsideStep, Committed
  <2>4. Before(digital, pred.t)
    <3>1. digital.applied \in SUBSET DEvents /\ DTime \in [DEvents -> Nat]
      BY <2>3, EventAssumption DEF Digital
    <3> QED BY <2>2, <2>3, <3>1 DEF Before
  <2>5. Follows(regs', digital'.applied)
    BY <2>1, <2>2, <2>3, <2>4, ClockedFollows, Zenon
  <2>6. /\ saved'.digital = digital /\ saved'.regs = regs
        /\ digital' = RunDigital(saved'.digital, pred'.t)
    BY <2>1
  <2> QED BY <2>1, <2>2, <2>5, <2>6 DEF RInv, Follows, Before
<1>3. CASE AcceptStep \/ AcceptAtFloor \/ RejectLteStep \/ RejectStep
  <2>1. pc = "decide" /\ Verdict
    BY <1>3, Verdicts
  <2>2. CASE Rewind /\ pc' \in {"predict", "failed"}
    <3>1. digital' = saved.digital /\ regs' = saved.regs /\ UNCHANGED now
      BY <2>2 DEF Rewind
    <3> QED BY <2>1, <2>2, <3>1 DEF RInv, Follows, Before
  <2>3. ASSUME NEW c, c \in {digital, saved.digital}, NEW outstanding, Accept(c, outstanding)
        PROVE  RInv'
    <3>1. PICK hooks \in SUBSET HookEvents(pred.t) :
            /\ digital' = RunDigital(Seed(c, hooks), pred.t)
            /\ regs' = Clocked(regs, Seed(c, hooks), pred.t)
            /\ \/ pc' = "failed"
               \/ now' = pred.t /\ ApplySets(DueSets(sets, pred.t))
      BY <2>3, Accepted
    <3>2. Follows(regs', digital'.applied) /\ Before(digital', pred.t)
      BY <2>1, <2>3, <3>1, AcceptFollows
    <3>3. pc' = "failed" \/ (pc' = "predict" /\ now' = pred.t)
      BY <3>1 DEF ApplySets
    <3> QED BY <3>2, <3>3 DEF RInv, Follows, Before
  <2> QED BY <2>1, <2>2, <2>3 DEF Verdict
<1> QED BY <1>1, <1>2, <1>3 DEF Next

\* A flip-flop that latched up to k edges too many follows the net but for those.
Less(r, x)            == [prev |-> r.prev, edges |-> r.edges - x]
FollowsWithin(r, A, k) == \E x \in 0..k : Follows(Less(r, x), A)

\* The rising edges of a set of applied events are finitely many.
LEMMA RisingCount ==
  ASSUME NEW A \in SUBSET DEvents
  PROVE  Cardinality(Rising(A)) \in Nat
<1>1. Rising(A) \in SUBSET DEvents /\ IsFiniteSet(DEvents)
  BY EventAssumption DEF Rising
<1> QED BY <1>1, FS_Subset, FS_CardinalityType

\* Edges latched too many stay so when the flip-flop is run over what is due.
LEMMA ClockedFollowsWithin ==
  ASSUME NEW r \in Regs, NEW d \in Digital, NEW t \in Nat, NEW k, Before(d, t),
         \A e \in d.pending : DTime[e] >= t,
         FollowsWithin(r, d.applied, k)
  PROVE  FollowsWithin(Clocked(r, d, t), RunDigital(d, t).applied, k)
<1>1. PICK x \in 0..k : Follows(Less(r, x), d.applied)
  BY DEF FollowsWithin
<1>2. Less(r, x) \in Regs
  <2>1. r.prev \in {0, 1} /\ r.edges - x = Cardinality(Rising(d.applied))
    BY <1>1 DEF Regs, Less, Follows
  <2>2. Cardinality(Rising(d.applied)) \in Nat
    BY RisingCount DEF Digital
  <2> QED BY <2>1, <2>2 DEF Regs, Less
<1>3. Follows(Clocked(Less(r, x), d, t), RunDigital(d, t).applied)
  BY <1>1, <1>2, ClockedFollows
<1>4. Clocked(Less(r, x), d, t) = Less(Clocked(r, d, t), x)
  <2> DEFINE cur == Net(RunDigital(d, t).applied)
             one == IF r.prev # 1 /\ cur = 1 THEN 1 ELSE 0
  <2>1. r.edges \in Nat /\ x \in Int /\ one \in Nat
    BY <1>1 DEF Regs
  <2>2. (r.edges - x) + one = (r.edges + one) - x
    BY <2>1
  <2>3. CASE Changes(d, t)
    <3>1. Clocked(r, d, t) = [prev |-> cur, edges |-> r.edges + one]
      BY <2>3 DEF Clocked, SeqPhase
    <3>2. Clocked(Less(r, x), d, t) = [prev |-> cur, edges |-> (r.edges - x) + one]
      BY <2>3 DEF Clocked, SeqPhase, Less
    <3> QED BY <2>2, <3>1, <3>2 DEF Less
  <2>4. CASE ~Changes(d, t)
    BY <2>4 DEF Clocked
  <2> QED BY <2>3, <2>4
<1> QED BY <1>1, <1>3, <1>4 DEF FollowsWithin

\* What one run over what is due adds to the rising edges.
LEMMA RisingGrows ==
  ASSUME NEW d \in Digital, NEW t \in Nat, Before(d, t), \A e \in d.pending : DTime[e] >= t,
         NEW B, B = RunDigital(d, t).applied
  PROVE  Cardinality(Rising(B)) =
           Cardinality(Rising(d.applied)) + (IF Net(d.applied) # 1 /\ Net(B) = 1 THEN 1 ELSE 0)
<1> DEFINE r == [prev |-> Net(d.applied), edges |-> Cardinality(Rising(d.applied))]
<1>1. r \in Regs
  <2>1. Net(d.applied) \in {0, 1} /\ Cardinality(Rising(d.applied)) \in Nat
    BY NetBit, RisingCount DEF Digital
  <2> QED BY <2>1 DEF Regs
<1>2. Follows(Clocked(r, d, t), B)
  <2>1. Follows(r, d.applied)
    BY DEF Follows
  <2> HIDE DEF r
  <2> QED BY <1>1, <2>1, ClockedFollows
<1>3. Clocked(r, d, t).edges =
        r.edges + (IF Net(d.applied) # 1 /\ Net(B) = 1 THEN 1 ELSE 0)
  BY <1>1 DEF Clocked, SeqPhase, Changes, Regs
<1> QED BY <1>2, <1>3 DEF Follows

\* The accept hook at the floor: a flip-flop that had seen the attempt sees the
\* clock of the checkpoint again, and has latched at most one edge more than that.
LEMMA SampledAtFloor ==
  ASSUME NEW r \in Regs, NEW d \in Digital, NEW t \in Nat, NEW k \in Nat, Before(d, t),
         \A e \in d.pending : DTime[e] >= t,
         FollowsWithin(r, RunDigital(d, t).applied, k)
  PROVE  FollowsWithin(Sampled(r, d), d.applied, k + 1)
<1>1. PICK B : B = RunDigital(d, t).applied
  OBVIOUS
<1>2. PICK x \in 0..k : Follows(Less(r, x), B)
  BY <1>1 DEF FollowsWithin
<1>3. PICK a, b, m, n : /\ a = Net(d.applied) /\ b = Net(B)
                        /\ m = Cardinality(Rising(d.applied)) /\ n = Cardinality(Rising(B))
  OBVIOUS
<1>4. a \in {0, 1} /\ b \in {0, 1} /\ m \in Nat
  <2>1. d.applied \in SUBSET DEvents /\ B \in SUBSET DEvents
    BY <1>1, RunDigitalType DEF Digital
  <2> QED BY <1>3, <2>1, NetBit, RisingCount
<1>5. n = m + (IF a # 1 /\ b = 1 THEN 1 ELSE 0)
  BY <1>1, <1>3, RisingGrows
<1>6. r.prev = b /\ r.edges - x = n /\ r.edges \in Nat
  BY <1>2, <1>3 DEF Follows, Less, Regs
<1>7. Sampled(r, d) = [prev |-> a, edges |-> r.edges + (IF b # 1 /\ a = 1 THEN 1 ELSE 0)]
  BY <1>3, <1>6 DEF Sampled, SeqPhase
<1>8. \E y \in 0..(k + 1) : (r.edges + (IF b # 1 /\ a = 1 THEN 1 ELSE 0)) - y = m
  <2>1. CASE a = b
    <3>1. x \in 0..(k + 1) /\ r.edges - x = m
      BY <1>4, <1>5, <1>6, <2>1
    <3> QED BY <1>4, <1>6, <2>1, <3>1
  <2>2. CASE a # b
    <3>1. x + 1 \in 0..(k + 1)
      OBVIOUS
    <3>2. (r.edges + (IF b # 1 /\ a = 1 THEN 1 ELSE 0)) - (x + 1) = m
      BY <1>4, <1>5, <1>6, <2>2
    <3> QED BY <3>1, <3>2
  <2> QED BY <2>1, <2>2
<1>9. PICK y \in 0..(k + 1) : (r.edges + (IF b # 1 /\ a = 1 THEN 1 ELSE 0)) - y = m
  BY <1>8
<1>10. Follows(Less(Sampled(r, d), y), d.applied)
  BY <1>3, <1>7, <1>9 DEF Follows, Less
<1> QED BY <1>10 DEF FollowsWithin

\* Of a flip-flop that has seen the nets as they are the hook changes nothing.
LEMMA SampledAgain ==
  ASSUME NEW r \in Regs, NEW d, NEW k, FollowsWithin(r, d.applied, k)
  PROVE  FollowsWithin(Sampled(r, d), d.applied, k)
<1>1. r.prev = Net(d.applied) /\ r.edges \in Nat
  BY DEF FollowsWithin, Follows, Less, Regs
<1>2. Sampled(r, d).prev = r.prev /\ Sampled(r, d).edges = r.edges
  BY <1>1 DEF Sampled, SeqPhase
<1> QED BY <1>2 DEF FollowsWithin, Less

\* The flip-flop that reads analog quantities follows the net but for one edge per
\* step accepted at the floor, and so does the one of the checkpoint.
SInv ==
  /\ pc \in {"begin", "predict", "attempt", "decide", "done"} =>
       FollowsWithin(sampler, digital.applied, floorHits)
  /\ pc = "decide" => FollowsWithin(saved.sampler, saved.digital.applied, floorHits)

\* It does at power-up.
LEMMA InitSInv == Init => SInv
<1> SUFFICES ASSUME Init PROVE SInv
  OBVIOUS
<1>1. /\ pc = "begin" /\ sampler.prev = 0 /\ sampler.edges = 0 /\ floorHits = 0
      /\ digital.applied = {}
  BY DEF Init
<1>2. Net({}) = 0 /\ Cardinality(Rising({})) = 0
  <2>1. Net({}) = 0 /\ Rising({}) = {}
    BY DEF Net, Rising
  <2> QED BY <2>1, FS_EmptySet
<1>3. Follows(Less(sampler, 0), digital.applied)
  BY <1>1, <1>2 DEF Follows, Less
<1> QED BY <1>1, <1>3 DEF SInv, FollowsWithin

\* Accepting a step from the nets c leaves it following the nets as far as the
\* hook left it following c.
LEMMA AcceptSampler ==
  ASSUME IInv, RInv, pc = "decide", NEW c, c \in {digital, saved.digital},
         NEW outstanding, Accept(c, outstanding), NEW k,
         FollowsWithin(Sampled(sampler, c), c.applied, k)
  PROVE  FollowsWithin(sampler', digital'.applied, k) /\ pc' \in {"predict", "failed"}
<1>1. PICK t : t = pred.t
  OBVIOUS
<1>2. PICK hooks \in SUBSET HookEvents(t) :
        /\ digital' = RunDigital(Seed(c, hooks), t)
        /\ sampler' = Clocked(Sampled(sampler, c), Seed(c, hooks), t)
        /\ pc' \in {"predict", "failed"}
  BY <1>1, Accepted DEF ApplySets
<1>3. PICK s : s = Seed(c, hooks)
  OBVIOUS
<1>4. /\ c \in Digital /\ t \in Nat /\ sampler \in Regs
      /\ \A e \in c.pending : DTime[e] >= t
  BY <1>1, CheckpointQueue DEF IInv, TypeOK
<1>5. s \in Digital /\ \A e \in s.pending : DTime[e] >= t
  BY <1>3, <1>4, SeedType, SeedNotBefore, Zenon
<1>6. s.applied = c.applied
  BY <1>3, <1>4 DEF Seed, Digital
<1>7. Before(s, t)
  <2>1. Before(saved.digital, t) /\ digital = RunDigital(saved.digital, t)
    BY <1>1, CheckpointQueue DEF RInv
  <2>2. Before(digital, t)
    BY <2>1 DEF RunDigital, Before, Due
  <2> QED BY <1>6, <2>1, <2>2 DEF Before
<1>8. Sampled(sampler, c) \in Regs
  BY <1>4, SampledType
<1>9. FollowsWithin(Clocked(Sampled(sampler, c), s, t), RunDigital(s, t).applied, k)
  BY <1>4, <1>5, <1>6, <1>7, <1>8, ClockedFollowsWithin
<1> QED BY <1>2, <1>3, <1>9

\* Every step keeps the flip-flop within one edge per step accepted at the floor.
LEMMA SInvNext == IInv /\ RInv /\ SInv /\ [Next]_vars => SInv'
<1> SUFFICES ASSUME IInv, RInv, SInv, [Next]_vars PROVE SInv'
  OBVIOUS
<1>1. CASE BeginRun \/ Predict \/ FinishRun \/ Stopped \/ UNCHANGED vars
  <2>1. /\ UNCHANGED <<digital, sampler, saved, floorHits>>
        /\ \/ pc' = "failed" \/ UNCHANGED pc
           \/ /\ pc \in {"begin", "predict"}
              /\ pc' \in {"predict", "attempt", "done"}
    BY <1>1 DEF BeginRun, Predict, FinishRun, Stopped, vars, clockVars, deviceVars
  <2> QED BY <2>1 DEF SInv
<1>2. CASE Attempt
  <2>1. /\ pc = "attempt" /\ pc' \in {"decide", "failed"}
        /\ saved' = [digital |-> digital, regs |-> regs, sampler |-> sampler, hist |-> hist]
        /\ digital' = RunDigital(digital, pred.t)
        /\ sampler' = Clocked(sampler, digital, pred.t)
        /\ UNCHANGED <<now, floorHits>>
    BY <1>2 DEF Attempt, clockVars
  <2>2. FollowsWithin(sampler, digital.applied, floorHits) /\ Before(digital, now)
    BY <2>1 DEF SInv, RInv
  <2>3. /\ digital \in Digital /\ sampler \in Regs /\ pred.t \in Nat /\ now \in Nat
        /\ now < pred.t
        /\ \A e \in digital.pending : DTime[e] >= pred.t
    BY <2>1 DEF IInv, TypeOK, CheckpointOpen, NothingInsideStep, Committed
  <2>4. Before(digital, pred.t)
    <3>1. digital.applied \in SUBSET DEvents /\ DTime \in [DEvents -> Nat]
      BY <2>3, EventAssumption DEF Digital
    <3> QED BY <2>2, <2>3, <3>1 DEF Before
  <2>5. FollowsWithin(sampler', digital'.applied, floorHits')
    BY <2>1, <2>2, <2>3, <2>4, ClockedFollowsWithin
  <2>6. saved'.digital = digital /\ saved'.sampler = sampler
    BY <2>1
  <2> QED BY <2>1, <2>2, <2>5, <2>6 DEF SInv
<1>3. CASE RejectLteStep \/ RejectStep
  <2>1. /\ pc = "decide" /\ pc' \in {"predict", "failed"}
        /\ digital' = saved.digital /\ sampler' = saved.sampler /\ UNCHANGED floorHits
    BY <1>3 DEF RejectLteStep, RejectStep, Rewind
  <2> QED BY <2>1 DEF SInv
<1>4. CASE AcceptStep
  <2>1. pc = "decide" /\ Accept(digital, TRUE) /\ UNCHANGED floorHits
    BY <1>4 DEF AcceptStep
  <2>2. FollowsWithin(Sampled(sampler, digital), digital.applied, floorHits)
    BY <2>1, SampledAgain DEF SInv, IInv, TypeOK
  <2>3. FollowsWithin(sampler', digital'.applied, floorHits') /\ pc' \in {"predict", "failed"}
    BY <2>1, <2>2, AcceptSampler
  <2> QED BY <2>3 DEF SInv
<1>5. CASE AcceptAtFloor
  <2>1. pc = "decide" /\ Accept(saved.digital, FALSE) /\ floorHits' = floorHits + 1
    BY <1>5 DEF AcceptAtFloor
  <2>2. FollowsWithin(Sampled(sampler, saved.digital), saved.digital.applied, floorHits + 1)
    <3>1. /\ saved.digital \in Digital /\ pred.t \in Nat /\ sampler \in Regs
          /\ floorHits \in Nat /\ Before(saved.digital, pred.t)
          /\ \A e \in saved.digital.pending : DTime[e] >= pred.t
      BY <2>1, CheckpointQueue DEF IInv, TypeOK
    <3>2. FollowsWithin(sampler, RunDigital(saved.digital, pred.t).applied, floorHits)
      BY <2>1 DEF SInv, RInv
    <3> QED BY <3>1, <3>2, SampledAtFloor
  <2>3. FollowsWithin(sampler', digital'.applied, floorHits') /\ pc' \in {"predict", "failed"}
    BY <2>1, <2>2, AcceptSampler
  <2> QED BY <2>3 DEF SInv
<1> QED BY <1>1, <1>2, <1>3, <1>4, <1>5 DEF Next

\* The registers follow the net through any sequence of rejected, retried and
\* floor-accepted attempts: a flip-flop that reads no analog quantity latches every
\* edge up to the clock once; one that does loses none, and latches at most one edge
\* too many for every step accepted at the floor.
THEOREM RegistersFollow == Spec => []RegistersFollowNet
<1>1. IInv /\ RInv /\ SInv => RegistersFollowNet
  <2> SUFFICES ASSUME IInv, RInv, SInv, Settled PROVE
        /\ regs.prev = Net(digital.applied) /\ sampler.prev = Net(digital.applied)
        /\ regs.edges = Cardinality(Rising(digital.applied))
        /\ sampler.edges \in Cardinality(Rising(digital.applied))
                               ..(Cardinality(Rising(digital.applied)) + floorHits)
    BY DEF RegistersFollowNet
  <2>1. Follows(regs, digital.applied)
    BY DEF RInv, Settled
  <2>2. PICK x \in 0..floorHits : Follows(Less(sampler, x), digital.applied)
    BY DEF SInv, Settled, FollowsWithin
  <2>3. sampler.edges \in Nat /\ floorHits \in Nat
    BY DEF IInv, TypeOK, Regs
  <2>4. Cardinality(Rising(digital.applied)) \in Nat
    BY RisingCount DEF IInv, TypeOK, Digital
  <2>5. /\ sampler.prev = Net(digital.applied)
        /\ sampler.edges - x = Cardinality(Rising(digital.applied))
    BY <2>2 DEF Follows, Less
  <2> QED BY <2>1, <2>2, <2>3, <2>4, <2>5 DEF Follows
<1>2. Init => IInv /\ RInv /\ SInv
  BY InitIInv, InitRInv, InitSInv
<1>3. IInv /\ RInv /\ SInv /\ [Next]_vars => (IInv /\ RInv /\ SInv)'
  BY IInvNext, RInvNext, SInvNext
<1> QED BY <1>1, <1>2, <1>3, PTL DEF Spec

\* A point taken of a set of applied events, and what it means that the newest
\* recorded one is of the nets d.
PointOf(p, t, A) == p.t = t /\ p.net = Net(A) /\ p.edges = Cardinality(Rising(A))
Shown(d) ==
  now >= RecordFrom =>
    \E seen \in {d.applied, d.applied \ HookEvents(now)} : PointOf(last, now, seen)

\* The newest recorded point is of the accepted nets, through every attempt, and an
\* attempt that converged carries the point of its own nets.
LInv ==
  /\ pc \in {"predict", "attempt"} => Shown(digital)
  /\ pc = "decide" =>
       /\ Shown(saved.digital)
       /\ attempt.verdict \in {"good", "poor"} => PointOf(attempt.point, pred.t, digital.applied)

\* A snapshot of registers that follow the nets is a point of them.
LEMMA SnapshotIsPoint ==
  ASSUME NEW t, NEW d, NEW r, NEW p, Follows(r, d.applied)
  PROVE  PointOf(Snapshot(t, d, r, p), t, d.applied)
  BY DEF Follows, PointOf, Snapshot

\* The first point is taken at the start.
LEMMA BeginRunLInv == IInv /\ RInv /\ LInv /\ BeginRun => LInv'
<1> SUFFICES ASSUME IInv, RInv, BeginRun PROVE LInv'
  OBVIOUS
<1>1. /\ pc = "begin" /\ UNCHANGED <<now, digital, regs>>
      /\ \/ pc' = "failed"
         \/ /\ pc' = "predict"
            /\ \E p : Record(Start, Snapshot(Start, digital, regs, p))
  BY DEF BeginRun, clockVars
<1>2. now = Start /\ Follows(regs, digital.applied)
  BY <1>1 DEF IInv, StartsAhead, RInv
<1>3. CASE pc' = "failed"
  BY <1>3 DEF LInv
<1>4. ASSUME pc' = "predict", NEW p, Record(Start, Snapshot(Start, digital, regs, p))
      PROVE  LInv'
  <2>1. PointOf(Snapshot(Start, digital, regs, p), Start, digital.applied)
    BY <1>2, SnapshotIsPoint
  <2>2. now >= RecordFrom => PointOf(last', now, digital.applied)
    BY <1>2, <1>4, <2>1 DEF Record
  <2> QED BY <1>1, <1>4, <2>2 DEF LInv, Shown, PointOf
<1> QED BY <1>1, <1>3, <1>4

\* An attempt takes its point after the digital side has settled.
LEMMA AttemptLInv == IInv /\ RInv /\ LInv /\ Attempt => LInv'
<1> SUFFICES ASSUME IInv, RInv, LInv, Attempt PROVE LInv'
  OBVIOUS
<1>1. /\ pc = "attempt" /\ UNCHANGED <<now, pred, last>>
      /\ saved'.digital = digital
      /\ \/ pc' = "failed"
         \/ /\ pc' = "decide"
            /\ \/ attempt'.verdict = "diverged"
               \/ attempt'.point = Snapshot(pred.t, digital', regs', params)
  <2>1. \/ attempt' = [attempt EXCEPT !.verdict = "diverged"]
        \/ \E v : attempt' = [verdict |-> v,
                              point |-> Snapshot(pred.t, digital', regs', params)]
        \/ pc' = "failed"
    BY DEF Attempt
  <2>2. [attempt EXCEPT !.verdict = "diverged"].verdict = "diverged"
    BY DEF IInv, AttemptShape
  <2>3. attempt'.verdict = "diverged"
        \/ attempt'.point = Snapshot(pred.t, digital', regs', params) \/ pc' = "failed"
    <3>1. ASSUME attempt' = [attempt EXCEPT !.verdict = "diverged"]
          PROVE  attempt'.verdict = "diverged"
      BY <2>2, <3>1, Zenon
    <3> QED BY <2>1, <3>1
  <2>4. /\ pc = "attempt" /\ UNCHANGED <<now, pred, last>>
        /\ saved' = [digital |-> digital, regs |-> regs, sampler |-> sampler, hist |-> hist]
        /\ pc' \in {"decide", "failed"}
    BY DEF Attempt, clockVars, hostVars
  <2> QED BY <2>3, <2>4
<1>2. CASE pc' = "failed"
  BY <1>2 DEF LInv
<1>3. CASE pc' = "decide"
  <2>1. Follows(regs', digital'.applied)
    <3>1. RInv'
      BY RInvNext DEF Next
    <3> QED BY <1>3, <3>1 DEF RInv, Follows
  <2>2. PointOf(Snapshot(pred.t, digital', regs', params), pred.t, digital'.applied)
    BY <2>1, SnapshotIsPoint
  <2>3. Shown(digital)
    BY <1>1 DEF LInv
  <2>4. Shown(saved.digital)'
    BY <1>1, <2>3 DEF Shown, PointOf
  <2> QED BY <1>1, <1>3, <2>2, <2>4 DEF LInv, PointOf
<1> QED BY <1>1, <1>2, <1>3

\* The nets of an attempt are those its hooks leave, or those without the hooks.
LEMMA BeforeHooks ==
  ASSUME IInv, pc = "decide", NEW hooks \in SUBSET HookEvents(pred.t), NEW B,
         B = digital.applied \cup hooks
  PROVE  digital.applied \in {B, B \ HookEvents(pred.t)}
<1>1. CASE hooks \subseteq digital.applied
  BY <1>1
<1>2. CASE \E h \in hooks : h \notin digital.applied
  <2>1. PICK h \in hooks : h \notin digital.applied
    BY <1>2
  <2>2. HookEvents(pred.t) = {h}
    BY EventAssumption DEF HookEvents
  <2> QED BY <2>1, <2>2
<1> QED BY <1>1, <1>2

\* An accepted step records the point of its attempt, or takes it again after a
\* write that moves the operating point.
LEMMA AcceptLInv ==
  ASSUME IInv, RInv, LInv, pc = "decide", attempt.verdict \in {"good", "poor"},
         NEW c, c \in {digital, saved.digital}, NEW outstanding, Accept(c, outstanding)
  PROVE  LInv'
<1>1. PICK hooks \in SUBSET HookEvents(pred.t) :
        /\ digital' = RunDigital(Seed(c, hooks), pred.t)
        /\ regs' = Clocked(regs, Seed(c, hooks), pred.t)
        /\ \/ pc' = "failed"
           \/ now' = pred.t /\ ApplySets(DueSets(sets, pred.t))
  BY Accepted
<1>2. Follows(regs', digital'.applied) /\ digital'.applied = digital.applied \cup hooks
  BY <1>1, AcceptFollows
<1>3. CASE pc' = "failed"
  BY <1>3 DEF LInv
<1>4. CASE now' = pred.t /\ ApplySets(DueSets(sets, pred.t))
  <2>1. pc' \in {"predict", "failed"}
        /\ \/ Record(pred.t, attempt.point)
           \/ Record(pred.t, Snapshot(pred.t, digital', regs', params'))
    BY <1>4 DEF ApplySets
  <2>2. PointOf(attempt.point, pred.t, digital.applied)
    BY DEF LInv
  <2>3. digital.applied \in {digital'.applied, digital'.applied \ HookEvents(pred.t)}
    BY <1>2, BeforeHooks
  <2>4. PointOf(Snapshot(pred.t, digital', regs', params'), pred.t, digital'.applied)
    BY <1>2, SnapshotIsPoint
  <2>5. now' >= RecordFrom =>
          \E seen \in {digital'.applied, digital'.applied \ HookEvents(now')} :
            PointOf(last', now', seen)
    BY <1>4, <2>1, <2>2, <2>3, <2>4 DEF Record
  <2>6. HookEvents(now)' = HookEvents(now')
    BY DEF HookEvents
  <2> QED BY <2>1, <2>5, <2>6 DEF LInv, Shown, PointOf
<1> QED BY <1>1, <1>3, <1>4

\* Every step keeps the newest recorded point that of the accepted nets.
LEMMA LInvNext == IInv /\ RInv /\ LInv /\ [Next]_vars => LInv'
<1> SUFFICES ASSUME IInv, RInv, LInv, [Next]_vars PROVE LInv'
  OBVIOUS
<1>1. CASE BeginRun
  BY <1>1, BeginRunLInv
<1>2. CASE Attempt
  BY <1>2, AttemptLInv
<1>3. CASE Predict
  BY <1>3 DEF Predict, clockVars, deviceVars, hostVars, LInv, Shown, PointOf
<1>4. CASE FinishRun
  BY <1>4 DEF FinishRun, LInv
<1>5. CASE Stopped \/ UNCHANGED vars
  BY <1>5 DEF Stopped, vars, clockVars, deviceVars, hostVars, LInv, Shown, PointOf
<1>6. CASE AcceptStep \/ AcceptAtFloor \/ RejectLteStep \/ RejectStep
  <2>1. pc = "decide" /\ Verdict
    BY <1>6, Verdicts
  <2>2. CASE Rewind /\ pc' \in {"predict", "failed"}
    <3>1. digital' = saved.digital /\ UNCHANGED <<now, last>>
      BY <2>2 DEF Rewind, hostVars
    <3> QED BY <2>1, <2>2, <3>1 DEF LInv, Shown, PointOf
  <2> QED BY <2>1, <2>2, AcceptLInv DEF Verdict
<1> QED BY <1>1, <1>2, <1>3, <1>4, <1>5, <1>6 DEF Next

\* The newest recorded point is the newest accepted one and carries its net and the
\* register of the flip-flop that reads no analog quantity, up to the events of its
\* own accept hooks.
THEOREM RecordedPointsAreCurrent == Spec => []RecordedPointIsCurrent
<1>1. LInv => RecordedPointIsCurrent
  BY DEF LInv, Shown, PointOf, RecordedPointIsCurrent
<1>2. Init => IInv /\ RInv /\ LInv
  <2>1. Init => LInv
    BY DEF Init, LInv
  <2> QED BY <2>1, InitIInv, InitRInv
<1>3. IInv /\ RInv /\ LInv /\ [Next]_vars => (IInv /\ RInv /\ LInv)'
  BY IInvNext, RInvNext, LInvNext
<1> QED BY <1>1, <1>2, <1>3, PTL DEF Spec

-----------------------------------------------------------------------------
(* The loop implements TransientPromise.                                     *)

\* The promise speaks of events and writes in the loop's own terms.
LEMMA SameTerms ==
  /\ \A d, t : Promise!RunDigital(d, t) = RunDigital(d, t)
  /\ \A d, h : Promise!Seed(d, h) = Seed(d, h)
  /\ \A t : Promise!HookEvents(t) = HookEvents(t)
  /\ \A S, t : Promise!DueSets(S, t) = DueSets(S, t)
  /\ \A p, I : Promise!Write(p, I) = Write(p, I)
  /\ \A I : Promise!Written(I) = Written(I)
  /\ \A A : Promise!Rising(A) = Rising(A)
  /\ \A S : Promise!Cardinality(S) = Cardinality(S)
<1>1. \A d, t : Promise!RunDigital(d, t) = RunDigital(d, t)
  BY DEF Promise!RunDigital, RunDigital, Promise!Due, Due
<1>2. \A d, h : Promise!Seed(d, h) = Seed(d, h)
  BY DEF Promise!Seed, Seed
<1>3. \A t : Promise!HookEvents(t) = HookEvents(t)
  BY DEF Promise!HookEvents, HookEvents
<1>4. \A S, t : Promise!DueSets(S, t) = DueSets(S, t)
  BY DEF Promise!DueSets, DueSets
<1>5. \A p, I : Promise!Write(p, I) = Write(p, I)
  BY DEF Promise!Write, Write
<1>6. \A I : Promise!Written(I) = Written(I)
  BY DEF Promise!Written, Written
<1>7. \A A : Promise!Rising(A) = Rising(A)
  BY DEF Promise!Rising, Rising, Promise!Net, Net, Promise!Latest, Latest
<1>8. \A S : Promise!Cardinality(S) = Cardinality(S)
  BY DEF Promise!Cardinality, Cardinality
<1> QED BY <1>1, <1>2, <1>3, <1>4, <1>5, <1>6, <1>7, <1>8

\* A run that fails, or ends, halts.
LEMMA FailingHalts ==
  ASSUME pc \in {"begin", "predict", "attempt", "decide"}, pc' \in {"done", "failed"}
  PROVE  Promise!Halt
  BY DEF Promise!Halt

\* A phase within a step is not seen by the host.
LEMMA PhaseIsInvisible ==
  ASSUME pc \in {"predict", "attempt", "decide"}, pc' \in {"predict", "attempt", "decide"},
         UNCHANGED <<now, sets, params>>,
         Committed' = Committed, CommittedRegs' = CommittedRegs
  PROVE  UNCHANGED Promise!promiseVars
  BY DEF Promise!promiseVars

\* The operating point begins the promise, or the run fails there.
LEMMA BeginRunRefines == IInv /\ BeginRun => Promise!Begin \/ Promise!Halt
<1> SUFFICES ASSUME IInv, BeginRun PROVE Promise!Begin \/ Promise!Halt
  OBVIOUS
<1>1. /\ pc = "begin" /\ pc' \in {"predict", "failed"}
      /\ Drain(DueSets(sets, Start), Start)
      /\ UNCHANGED <<now, held, saved, digital, regs>>
  BY DEF BeginRun, clockVars
<1>2. CASE pc' = "failed"
  BY <1>1, <1>2, FailingHalts
<1>3. CASE pc' = "predict"
  <2>1. Committed' = Committed /\ CommittedRegs' = CommittedRegs
    BY <1>1 DEF Committed, CommittedRegs
  <2>2. /\ sets' = sets \ DueSets(sets, Start)
        /\ params' = Write(params, Written(DueSets(sets, Start)))
    BY <1>1 DEF Drain
  <2>3. Promise!TakeWrites(Start)
    BY <2>2, SameTerms DEF Promise!TakeWrites
  <2> QED BY <1>1, <1>3, <2>1, <2>3 DEF Promise!Begin
<1> QED BY <1>1, <1>2, <1>3

\* An accepted step advances the promise to the landing point.
LEMMA AcceptRefines ==
  ASSUME IInv, RInv, pc = "decide",
         NEW c, c \in {digital, saved.digital}, NEW outstanding, Accept(c, outstanding)
  PROVE  Promise!Advance \/ Promise!Halt
<1>1. PICK hooks \in SUBSET HookEvents(pred.t) :
        /\ digital' = RunDigital(Seed(c, hooks), pred.t)
        /\ regs' = Clocked(regs, Seed(c, hooks), pred.t)
        /\ \/ pc' = "failed"
           \/ held' = FALSE /\ now' = pred.t /\ ApplySets(DueSets(sets, pred.t))
  BY Accepted
<1>2. CASE pc' = "failed"
  BY <1>2, FailingHalts
<1>3. CASE pc' # "failed" /\ held' = FALSE /\ now' = pred.t
           /\ ApplySets(DueSets(sets, pred.t))
  <2>1. /\ pc' = "predict"
        /\ sets' = sets \ DueSets(sets, pred.t)
        /\ params' = Write(params, Written(DueSets(sets, pred.t)))
    BY <1>3 DEF ApplySets, Drain
  <2>2. Committed = saved.digital /\ Committed' = digital' /\ CommittedRegs' = regs'
    BY <1>3 DEF IInv, CheckpointOpen, Committed, CommittedRegs
  <2>3. /\ digital' = RunDigital(Seed(saved.digital, hooks), pred.t)
        /\ regs'.edges = Cardinality(Rising(digital'.applied))
    BY <1>1, AcceptFollows DEF Follows
  <2>4. /\ pred.t \in Nat /\ pred.t > now
        /\ \A e \in saved.digital.pending : DTime[e] >= pred.t
        /\ \A i \in sets : SetTime[i] >= pred.t
    BY <2>2, CheckpointQueue DEF IInv, NothingInsideStep
  <2>5. [pending |-> Committed.pending, applied |-> Committed.applied] = saved.digital
    <3>1. saved.digital \in Digital
      BY CheckpointQueue
    <3> QED BY <2>2, <3>1 DEF Digital
  <2>6. \E h \in SUBSET Promise!HookEvents(now') :
          LET d == Promise!RunDigital(
                     Promise!Seed([pending |-> Committed.pending, applied |-> Committed.applied], h),
                     now')
          IN  Committed'.pending = d.pending /\ Committed'.applied = d.applied
    BY <1>3, <2>2, <2>3, <2>5, SameTerms
  <2>7. CommittedRegs'.edges = Promise!Cardinality(Promise!Rising(Committed'.applied))
    BY <2>2, <2>3, SameTerms
  <2>8. Promise!TakeWrites(now')
    BY <1>3, <2>1, SameTerms DEF Promise!TakeWrites
  <2>9. /\ now' \in Nat /\ now' > now
        /\ \A e \in Committed.pending : DTime[e] >= now'
        /\ \A i \in sets : SetTime[i] >= now'
    BY <1>3, <2>2, <2>4
  <2>10. pc' = "predict" /\ pc = "decide"
    BY <2>1
  <2> QED BY <2>6, <2>7, <2>8, <2>9, <2>10, Zenon DEF Promise!Advance
<1> QED BY <1>1, <1>2, <1>3

\* Every step of the loop is one of the promise, or is not seen by it.
LEMMA StepRefines ==
  IInv /\ RInv /\ [Next]_vars => [Promise!PromiseNext]_(Promise!promiseVars)
<1> SUFFICES ASSUME IInv, RInv, [Next]_vars
             PROVE  Promise!PromiseNext \/ UNCHANGED Promise!promiseVars
  OBVIOUS
<1>1. CASE BeginRun
  BY <1>1, BeginRunRefines DEF Promise!PromiseNext
<1>2. CASE Predict
  <2>1. /\ pc = "predict" /\ pc' = "attempt"
        /\ UNCHANGED <<now, sets, params, held, saved, digital, regs>>
    BY <1>2 DEF Predict, clockVars, deviceVars, hostVars
  <2> QED BY <2>1, PhaseIsInvisible DEF Committed, CommittedRegs
<1>3. CASE Attempt
  <2>1. /\ pc = "attempt" /\ pc' \in {"decide", "failed"}
        /\ UNCHANGED <<now, sets, params>>
        /\ held' /\ saved' = [digital |-> digital, regs |-> regs, sampler |-> sampler, hist |-> hist]
    BY <1>3 DEF Attempt, clockVars, hostVars
  <2>2. ~held
    BY <2>1 DEF IInv, CheckpointOpen
  <2>3. Committed' = Committed /\ CommittedRegs' = CommittedRegs
    BY <2>1, <2>2 DEF Committed, CommittedRegs
  <2> QED BY <2>1, <2>3, PhaseIsInvisible, FailingHalts DEF Promise!PromiseNext
<1>4. CASE AcceptStep \/ AcceptAtFloor \/ RejectLteStep \/ RejectStep
  <2>1. pc = "decide" /\ Verdict
    BY <1>4, Verdicts
  <2>2. CASE Rewind /\ pc' \in {"predict", "failed"}
    <3>1. /\ digital' = saved.digital /\ regs' = saved.regs /\ ~held'
          /\ UNCHANGED <<now, sets, params>>
      BY <2>2 DEF Rewind, hostVars
    <3>2. held
      BY <2>1 DEF IInv, CheckpointOpen
    <3>3. Committed' = Committed /\ CommittedRegs' = CommittedRegs
      BY <3>1, <3>2 DEF Committed, CommittedRegs
    <3> QED BY <2>1, <2>2, <3>1, <3>3, PhaseIsInvisible, FailingHalts DEF Promise!PromiseNext
  <2> QED BY <2>1, <2>2, AcceptRefines DEF Verdict, Promise!PromiseNext
<1>5. CASE FinishRun
  <2>1. pc = "predict" /\ pc' = "done"
    BY <1>5 DEF FinishRun
  <2> QED BY <2>1, FailingHalts DEF Promise!PromiseNext
<1>6. CASE Stopped \/ UNCHANGED vars
  BY <1>6 DEF Stopped, vars, clockVars, deviceVars, hostVars, Committed, CommittedRegs,
              Promise!promiseVars
<1> QED BY <1>1, <1>2, <1>3, <1>4, <1>5, <1>6 DEF Next

\* The loop keeps the promise: with its attempts, checkpoints and rejections hidden,
\* a run is a clock that advances past nothing, at each instant of which the events
\* and writes due there happen once, and once for a flip-flop that reads no analog
\* quantity.
THEOREM PromiseIsKept == Spec => KeepsPromise
<1>1. Init => IInv /\ RInv
  BY InitIInv, InitRInv
<1>2. Init => Promise!PromiseInit
  BY ClockAssumption DEF Init, Promise!PromiseInit, Committed, CommittedRegs
<1>3. IInv /\ RInv /\ [Next]_vars => (IInv /\ RInv)'
  BY IInvNext, RInvNext
<1>4. IInv /\ RInv /\ [Next]_vars => [Promise!PromiseNext]_(Promise!promiseVars)
  BY StepRefines
<1> QED BY <1>1, <1>2, <1>3, <1>4, PTL DEF Spec, KeepsPromise, Promise!PromiseSpec
===============================================================================
