--------------------------- MODULE TransientDriver ---------------------------
(***************************************************************************)
(* The adaptive time loop of the transient analysis, TransientSolver::solve *)
(* (analyses/transient.rs): predict a landing point, attempt the TR-BDF2    *)
(* step, assess its truncation error, accept or reject it.  One action per  *)
(* phase method.  Time is counted in ticks.                                 *)
(*                                                                          *)
(* The circuit is abstracted to what the loop can disturb:                  *)
(*  - digital  the DigitalState: event queue and nets.  One net is driven   *)
(*             by DEvents, so the nets are the set of events applied;       *)
(*  - regs     the registers of a flip-flop clocked by that net that reads  *)
(*             no analog quantity (edge memory and a count of latched       *)
(*             edges): what checkpoint_state of a compiled device saves;    *)
(*  - sampler  the same of a flip-flop whose body also reads an analog      *)
(*             quantity: its accept hook runs its phases once more;         *)
(*  - mirror   the copy of regs the analog body of its device reads (D2A);  *)
(*  - hist     the Newton history buffer, as provenance of its four rows;   *)
(*  - sets     the parameter writes the host scheduled (LIVE-06).           *)
(* A Newton solve is a nondeterministic verdict.  The unified event queue   *)
(* is rebuilt by every prediction, so it is not a variable: Candidates are  *)
(* its entries and Fronts what peek may return.                             *)
(***************************************************************************)
EXTENDS Discontinuities

CONSTANTS
  Stop, RecordFrom,            \* options.stop_time, record_from
  DtInit, DtMin, DtMax,        \* options.dt, dt_min, dt_max
  RejectDivisor,               \* StepperGains::reject_divisor (8.0)
  RestartDivisor,              \* 1 / the 1e-3 restart factor of propose_dt
  Snap,                        \* the set-landing tolerance, in ticks
  DeviceHints,                 \* steps suggest_transient_step may return
  BreakTimes,                  \* analog breakpoints (pulse edges, @timer)
  Given                        \* parameter values the run may start with

Never == -1

ASSUME ClockAssumption ==
  /\ Stop \in Nat /\ RecordFrom \in Nat /\ Snap \in Nat
  /\ DtInit \in Nat \ {0} /\ DtMin \in Nat \ {0} /\ DtMax \in Nat \ {0}
  /\ DtMin <= DtMax
  /\ RejectDivisor \in Nat \ {0, 1} /\ RestartDivisor \in Nat \ {0}
  /\ DeviceHints \subseteq Nat \ {0}
  /\ BreakTimes \subseteq Nat /\ IsFiniteSet(BreakTimes)
  /\ Given \subseteq [Param -> Value]

VARIABLES
  pc,            \* the phase of the loop the driver is about to run
  now, dt,       \* TimeLoop.current_time, TimeLoop.dt
  prevH,         \* TransientSystem.prev_h
  lastAccepted,  \* TimeLoop.last_step_accepted
  postSet,       \* TimeLoop.sets_just_applied
  floorHits,     \* TimeLoop.dt_min_floor_hits
  pred,          \* the StepPrediction
  attempt,       \* StepAttempt.outcome: verdict and snapshot
  digital,       \* DigitalState
  held, saved,   \* is a checkpoint outstanding, and what the attempt saved
  regs, mirror,  \* device registers and their analog-side copy
  sampler,       \* registers of a device that reads analog quantities
  hist,          \* NewtonRaphsonSolver.state, hist[k] = view(k)
  sets, params,  \* SetQueue and the elements' parameters
  appliedAt,     \* history: when each write took place
  last           \* steps.last(): the newest recorded point

clockVars  == <<now, dt, prevH, lastAccepted, postSet>>
deviceVars == <<digital, regs, sampler, mirror, hist>>
hostVars   == <<sets, params, appliedAt, last>>
vars == <<pc, clockVars, floorHits, pred, attempt, held, saved, deviceVars, hostVars>>

Least(a, b)    == IF a <= b THEN a ELSE b
Greatest(a, b) == IF a >= b THEN a ELSE b

-----------------------------------------------------------------------------
(* What the loop does to the devices when it runs the digital side.          *)

Regs == [prev : {0, 1}, edges : Nat]

Settles(d, t) == Due(d, t) \cap Unstable = {}

Changes(d, t) == Net(RunDigital(d, t).applied) # Net(d.applied)

\* eval_seq_phase of a flip-flop over a clock that reads cur.
SeqPhase(r, cur) ==
  [prev |-> cur, edges |-> r.edges + (IF r.prev # 1 /\ cur = 1 THEN 1 ELSE 0)]

\* A run of the digital side evaluates a flop only when its clock changed.
Clocked(r, d, t) ==
  IF Changes(d, t) THEN SeqPhase(r, Net(RunDigital(d, t).applied)) ELSE r

\* accept_timestep of a device that reads analog quantities: its phases run on
\* the nets as they are before the hooks' events, moved or not.
Sampled(r, d) == SeqPhase(r, Net(d.applied))

\* comb_phase copies the registers into the analog bank, and nothing else does.
Mirrored(m, r, d, t) == IF Changes(d, t) THEN Clocked(r, d, t).edges ELSE m

-----------------------------------------------------------------------------
(* The Newton history buffer: where each of its rows came from.             *)

Row == [stage : {"none", "guess", "gamma", "end"}, from : Int, to : Int, base : Int]

EmptyRow == [stage |-> "none", from |-> Start, to |-> Start, base |-> Start]
StartRow == [EmptyRow EXCEPT !.stage = "end"]

Push(h, row) == [k \in 0..3 |-> IF k = 0 THEN row ELSE h[k-1]]

\* A converged execute_timestep over [from, to]: the trapezoidal stage reads
\* x_n as the newest row it finds, whatever point that row belongs to.
Stepped(h, from, to) ==
  LET row(stage) == [stage |-> stage, from |-> from, to |-> to, base |-> h[0].to]
  IN  Push(Push(h, row("gamma")), row("end"))

\* A solve that fails leaves its guess behind, after the trapezoidal row when
\* it was the second stage that failed.
Broken(h, from, to) ==
  LET row(stage) == [stage |-> stage, from |-> from, to |-> to, base |-> h[0].to]
  IN  {Push(h, row("guess")), Push(Push(h, row("gamma")), row("guess"))}

-----------------------------------------------------------------------------
(* Phase 1, predict_step: the front of the unified queue decides.           *)

\* peek_next_event_time: only the earliest digital event is offered.
DigitalCandidates ==
  {[t |-> DTime[e], set |-> FALSE] :
     e \in {d \in digital.pending : \A f \in digital.pending : DTime[d] <= DTime[f]}}

BreakCandidates ==
  {[t |-> b, set |-> FALSE] : b \in {c \in BreakTimes : now < c /\ c <= now + dt}}

\* (mutant: the first write pushed, not the earliest)
SetCandidatesByPush ==
  {[t |-> SetTime[i], set |-> TRUE] :
     i \in {j \in sets : SetTime[j] > now /\
              \A k \in sets : SetTime[k] > now => j <= k}}

SetCandidates ==
  {[t |-> SetTime[i], set |-> TRUE] :
     i \in {j \in sets : SetTime[j] > now /\
              \A k \in sets : SetTime[k] > now => SetTime[j] <= SetTime[k]}}

Candidates == DigitalCandidates \cup BreakCandidates \cup SetCandidates

\* Entries of equal time and priority leave the heap in either order.
Fronts == {c \in Candidates : \A o \in Candidates : c.t <= o.t}

Target == Least(now + dt, Stop)

Lands(c) ==
  /\ c.t > now
  /\ IF c.set THEN c.t <= Target + Snap ELSE c.t < Target

Prediction(t, landed) ==
  [t |-> t, step |-> t - now, proposed |-> dt, landed |-> landed]

Predict ==
  /\ pc = "predict"
  /\ now < Stop
  /\ \/ \E c \in Fronts : Lands(c) /\ pred' = Prediction(c.t, TRUE)
     \/ /\ Fronts = {} \/ \E c \in Fronts : ~Lands(c)
        /\ pred' = Prediction(Target, FALSE)
  /\ pc' = "attempt"
  /\ UNCHANGED <<clockVars, floorHits, attempt, held, saved, deviceVars, hostVars>>

-----------------------------------------------------------------------------
(* Phase 2, attempt_step: checkpoint, settle the digital side at the landing *)
(* point, then solve the step.                                              *)

Snapshot(t, d, r, p) == [t |-> t, net |-> Net(d.applied), edges |-> r.edges, params |-> p]

Attempt ==
  /\ pc = "attempt"
  /\ held' = TRUE
  /\ saved' = [digital |-> digital, regs |-> regs, sampler |-> sampler, hist |-> hist]
  /\ digital' = RunDigital(digital, pred.t)
  /\ regs' = Clocked(regs, digital, pred.t)
  /\ sampler' = Clocked(sampler, digital, pred.t)
  /\ mirror' = Mirrored(mirror, regs, digital, pred.t)
  /\ \/ /\ ~Settles(digital, pred.t)
        /\ pc' = "failed"
        /\ UNCHANGED <<hist, attempt>>
     \/ /\ Settles(digital, pred.t)
        /\ pc' = "decide"
        /\ \/ \E v \in {"good", "poor"} :
                /\ hist' = Stepped(hist, now, pred.t)
                /\ attempt' = [verdict |-> v,
                               point |-> Snapshot(pred.t, digital', regs', params)]
           \/ /\ hist' \in Broken(hist, now, pred.t)
              /\ attempt' = [attempt EXCEPT !.verdict = "diverged"]
  /\ UNCHANGED <<clockVars, floorHits, pred, hostVars>>

-----------------------------------------------------------------------------
(* Phases 3 and 4, assess_step, accept_step and the two rejections.         *)

\* (mutants: the floor is forgotten; the step is not cut)
RejectDtNoFloor(d) == d \div RejectDivisor
RejectDtUncut(d)   == Greatest(d, DtMin)

RejectDt(d) == Greatest(d \div RejectDivisor, DtMin)

\* The Milne gate does not apply to a landing nor to the step after a write.
Exempt == pred.landed \/ postSet

AtFloor == RejectDt(pred.proposed) <= DtMin

\* (mutant: the pending part of the partition is not put back)
DrainAll(I, t) ==
  /\ sets' = {}
  /\ params' = Write(params, Written(I))
  /\ appliedAt' = [i \in SetIds |-> IF i \in Written(I) THEN t ELSE appliedAt[i]]

Drain(I, t) ==
  /\ sets' = sets \ I
  /\ params' = Write(params, Written(I))
  /\ appliedAt' = [i \in SetIds |-> IF i \in Written(I) THEN t ELSE appliedAt[i]]

\* (mutant: the window opens after its first instant)
RecordLate(t, point) == last' = IF t > RecordFrom THEN point ELSE last

Record(t, point) == last' = IF t >= RecordFrom THEN point ELSE last

\* sets_just_applied is armed by a non-empty batch and cleared by an empty one.
\* (mutant: it is never cleared)
ArmedForGood(due) == postSet \/ due # {}
Armed(due)        == due # {}

\* apply_scheduled_sets: a write that moves the operating point solves the
\* step just closed a second time, on the history as it now stands.
ApplySets(due) ==
  /\ Drain(due, pred.t)
  /\ postSet' = Armed(due)
  /\ \/ /\ Reports(due, {"invalid", "rebuild"})
        /\ pc' = "failed"
        /\ Record(pred.t, attempt.point)
        /\ UNCHANGED hist
     \/ /\ ~Reports(due, {"invalid", "rebuild", "op"})
        /\ pc' = "predict"
        /\ Record(pred.t, attempt.point)
        /\ UNCHANGED hist
     \/ /\ ~Reports(due, {"invalid", "rebuild"}) /\ Reports(due, {"op"})
        /\ \/ /\ pc' = "predict"
              /\ hist' = Stepped(hist, now, pred.t)
              /\ Record(pred.t, Snapshot(pred.t, digital', regs', params'))
           \/ /\ pc' = "failed"
              /\ hist' \in Broken(hist, now, pred.t)
              /\ Record(pred.t, attempt.point)

\* propose_dt: the PI controller answers anywhere in its clamp; a device with
\* step history may ask for less, and its wish is not clamped.
ProposeDt(due) ==
  \E base \in IF due # {} THEN {Greatest(pred.step \div RestartDivisor, DtMin)}
              ELSE IF postSet THEN {pred.proposed}
              ELSE DtMin..DtMax :
    \E hint \in {base} \cup (IF prevH' > 0 THEN DeviceHints ELSE {}) :
      dt' = Least(base, hint)

\* accept_step, settling the digital side from the state d: the accept hooks see
\* the nets of d, then their events and what is due are run. A settle that fails
\* ends the run before the checkpoint is committed.
Accept(d, outstanding) ==
  \E hooks \in SUBSET HookEvents(pred.t) :
    LET seeded == Seed(d, hooks)
        due    == DueSets(sets, pred.t)
    IN  /\ digital' = RunDigital(seeded, pred.t)
        /\ regs' = Clocked(regs, seeded, pred.t)
        /\ sampler' = Clocked(Sampled(sampler, d), seeded, pred.t)
        /\ mirror' = Mirrored(mirror, regs, seeded, pred.t)
        /\ lastAccepted' = TRUE
        /\ \/ /\ ~Settles(seeded, pred.t)
              /\ pc' = "failed"
              /\ held' = outstanding
              /\ UNCHANGED <<now, dt, prevH, postSet, hist, hostVars>>
           \/ /\ Settles(seeded, pred.t)
              /\ held' = FALSE
              /\ now' = pred.t
              /\ ApplySets(due)
              /\ prevH' = IF pred.landed \/ due # {} THEN 0 ELSE pred.step
              /\ ProposeDt(due)
        /\ UNCHANGED <<pred, attempt, saved>>

AcceptStep ==
  /\ pc = "decide"
  /\ \/ attempt.verdict = "good"
     \/ attempt.verdict = "poor" /\ Exempt
  /\ Accept(digital, TRUE)
  /\ UNCHANGED floorHits

\* reject_lte_step at the dt floor: the nets and their queue go back to the
\* checkpoint, the registers and the history stay, and the step is accepted.
AcceptAtFloor ==
  /\ pc = "decide"
  /\ attempt.verdict = "poor" /\ ~Exempt /\ AtFloor
  /\ Accept(saved.digital, FALSE)
  /\ floorHits' = floorHits + 1

\* (mutants: one of the three restores is forgotten)
RewindButRegs ==
  /\ digital' = saved.digital /\ hist' = saved.hist
  /\ held' = FALSE /\ lastAccepted' = FALSE /\ dt' = RejectDt(pred.proposed)
  /\ UNCHANGED <<now, prevH, postSet, floorHits, pred, attempt, saved, regs, sampler,
                 mirror, hostVars>>
RewindButHistory ==
  /\ digital' = saved.digital /\ regs' = saved.regs /\ sampler' = saved.sampler
  /\ held' = FALSE /\ lastAccepted' = FALSE /\ dt' = RejectDt(pred.proposed)
  /\ UNCHANGED <<now, prevH, postSet, floorHits, pred, attempt, saved, hist, mirror, hostVars>>
RewindButNets ==
  /\ regs' = saved.regs /\ sampler' = saved.sampler /\ hist' = saved.hist
  /\ held' = FALSE /\ lastAccepted' = FALSE /\ dt' = RejectDt(pred.proposed)
  /\ UNCHANGED <<now, prevH, postSet, floorHits, pred, attempt, saved, digital, mirror,
                 hostVars>>

Rewind ==
  /\ digital' = saved.digital
  /\ regs' = saved.regs
  /\ sampler' = saved.sampler
  /\ hist' = saved.hist
  /\ held' = FALSE
  /\ lastAccepted' = FALSE
  /\ dt' = RejectDt(pred.proposed)
  /\ UNCHANGED <<now, prevH, postSet, floorHits, pred, attempt, saved, mirror, hostVars>>

RejectLteStep ==
  /\ pc = "decide"
  /\ attempt.verdict = "poor" /\ ~Exempt /\ ~AtFloor
  /\ pc' = "predict"
  /\ Rewind

RejectStep ==
  /\ pc = "decide"
  /\ attempt.verdict = "diverged"
  /\ pc' = IF AtFloor THEN "failed" ELSE "predict"
  /\ Rewind

-----------------------------------------------------------------------------
(* begin_run, finish_run and the specification.                             *)

StartPoint == Snapshot(Start, digital, regs, params)

Init ==
  /\ pc = "begin"
  /\ now = Start /\ dt = DtInit /\ prevH = 0
  /\ lastAccepted = FALSE /\ postSet = FALSE
  /\ digital = [pending |-> Boot, applied |-> {}]
  /\ regs = [prev |-> 0, edges |-> 0]
  /\ sampler = regs
  /\ mirror = 0
  /\ hist = [k \in 0..3 |-> EmptyRow]
  /\ held = FALSE
  /\ saved = [digital |-> digital, regs |-> regs, sampler |-> sampler, hist |-> hist]
  /\ floorHits = 0
  /\ pred = [t |-> Start, step |-> 0, proposed |-> DtInit, landed |-> FALSE]
  /\ sets \in SUBSET SetIds
  /\ params \in Given
  /\ appliedAt = [i \in SetIds |-> Never]
  /\ attempt = [verdict |-> "none", point |-> StartPoint]
  /\ last = StartPoint

\* The writes due at the start precede the operating point; only their errors
\* are looked at, not the strength they report. The accept hooks of the operating
\* point find the nets as both flip-flops last saw them.
BeginRun ==
  /\ pc = "begin"
  /\ LET due == DueSets(sets, Start)
     IN  /\ Drain(due, Start)
         /\ \/ /\ ~Reports(due, {"invalid"})
               /\ pc' = "predict"
               /\ hist' = [k \in 0..3 |-> IF k <= 1 THEN StartRow ELSE EmptyRow]
               /\ Record(Start, Snapshot(Start, digital, regs, params'))
            \/ /\ pc' = "failed"       \* a refused write, or no operating point
               /\ UNCHANGED <<hist, last>>
  /\ UNCHANGED <<clockVars, floorHits, pred, attempt, held, saved, digital, regs, sampler,
                 mirror>>

FinishRun ==
  /\ pc = "predict"
  /\ now >= Stop
  /\ pc' = "done"
  /\ UNCHANGED <<clockVars, floorHits, pred, attempt, held, saved, deviceVars, hostVars>>

Stopped ==
  /\ pc \in {"done", "failed"}
  /\ UNCHANGED vars

Next ==
  \/ BeginRun
  \/ Predict
  \/ Attempt
  \/ AcceptStep
  \/ AcceptAtFloor
  \/ RejectLteStep
  \/ RejectStep
  \/ FinishRun
  \/ Stopped

Fairness == WF_vars(Next)

Spec == Init /\ [][Next]_vars
FairSpec == Spec /\ Fairness

-----------------------------------------------------------------------------
(* Properties.                                                              *)

\* While a checkpoint is outstanding the run is where the checkpoint is.
Committed     == IF held THEN saved.digital ELSE digital
CommittedRegs == IF held THEN saved.regs ELSE regs

Settled == pc \in {"predict", "done"}

TypeOK ==
  /\ pc \in {"begin", "predict", "attempt", "decide", "done", "failed"}
  /\ now \in Nat /\ dt \in Nat \ {0} /\ prevH \in Nat
  /\ lastAccepted \in BOOLEAN /\ postSet \in BOOLEAN /\ held \in BOOLEAN
  /\ floorHits \in Nat
  /\ pred.t \in Nat /\ pred.step \in Nat /\ pred.proposed \in Nat \ {0}
  /\ pred.landed \in BOOLEAN
  /\ attempt.verdict \in {"none", "good", "poor", "diverged"}
  /\ digital \in Digital /\ saved.digital \in Digital
  /\ regs \in Regs /\ saved.regs \in Regs /\ mirror \in Nat
  /\ sampler \in Regs /\ saved.sampler \in Regs
  /\ hist \in [0..3 -> Row] /\ saved.hist \in [0..3 -> Row]
  /\ sets \subseteq SetIds /\ params \in [Param -> Value]
  /\ appliedAt \in [SetIds -> Nat \cup {Never}]

\* A step reaches past nothing that is due: no pending event, write or polled
\* breakpoint lies strictly between the clock and the landing point, and the
\* landing point is ahead of the clock.
NothingInsideStep ==
  pc \in {"attempt", "decide"} =>
    /\ now < pred.t
    /\ \A e \in Committed.pending : DTime[e] >= pred.t
    /\ \A i \in sets : SetTime[i] >= pred.t
    /\ \A b \in BreakTimes : now < b /\ b <= now + dt => b >= pred.t

\* After a step is settled nothing due is left in either queue.
NothingOverdue ==
  Settled => /\ \A e \in digital.pending : DTime[e] > now
             /\ \A i \in sets : SetTime[i] > now

\* Both flip-flops remember the clock as it is. One that reads no analog quantity
\* latched every edge of it once, whatever attempts were rejected, retried or
\* accepted at the floor on the way. One that does lost none, and latched at most
\* one edge too many for every step accepted at the floor: there its accept hook
\* sees the rolled-back clock, and the edge that is applied again is new to it.
RegistersFollowNet ==
  Settled =>
    LET edges == Cardinality(Rising(digital.applied))
    IN  /\ regs.prev = Net(digital.applied) /\ sampler.prev = Net(digital.applied)
        /\ regs.edges = edges
        /\ sampler.edges \in edges..(edges + floorHits)

\* The Newton history is on the accepted trajectory when a step is solved: it
\* starts from the point at now, and when the predictor is used the two rows
\* it extrapolates are the two stages of the last accepted step.
HistoryAligned ==
  /\ pc = "attempt" => /\ hist[0].stage = "end" /\ hist[0].to = now
                       /\ lastAccepted /\ prevH > 0 =>
                            hist[1].stage = "gamma" /\ hist[1].to = now
                              /\ hist[1].from = now - prevH
  /\ pc = "decide" /\ attempt.verdict # "diverged" =>
       \A k \in {0, 1} : hist[k].base = now /\ hist[k].to = pred.t

\* A write takes effect at its own time, or at the start when it was due
\* before it, and a parameter holds what was written to it last.
WritesOnTime ==
  \A i \in SetIds : appliedAt[i] # Never =>
    /\ appliedAt[i] = Greatest(SetTime[i], Start)
    /\ (\A j \in SetIds : SetParam[j] = SetParam[i] /\ j # i =>
          \/ appliedAt[j] < appliedAt[i]
          \/ appliedAt[j] = appliedAt[i] /\ j < i) => params[SetParam[i]] = SetValue[i]

\* A step escapes the error gate as the one after a write only where a write
\* was drained.
ExemptionIsEarned ==
  pc = "attempt" /\ postSet => \E i \in SetIds : i \notin sets /\ SetTime[i] = now

\* No rejection throws a pending write away: a write leaves the queue when it
\* is made, or with the run. (One that asks for a rebuild at the very start is
\* dropped there: begin_run discards what the write reports.)
DroppedAtStart(i) == pc = "begin" /\ Strength[SetParam[i]] = "rebuild"
NoWriteLost ==
  [][\A i \in sets \ sets' :
       appliedAt'[i] # Never \/ DroppedAtStart(i) \/ pc' = "failed"]_vars

\* The newest recorded point is the newest accepted one, and carries its net and the
\* register of the flip-flop that reads no analog quantity: what the events up to
\* then made of them, but for those of its own accept hooks, which run after the
\* point is taken unless a write has it taken again.
RecordedPointIsCurrent ==
  pc = "predict" /\ now >= RecordFrom =>
    /\ last.t = now
    /\ \E seen \in {digital.applied, digital.applied \ HookEvents(now)} :
         last.net = Net(seen) /\ last.edges = Cardinality(Rising(seen))

\* The run ends: every rejection shortens the step until the floor is reached.
Terminates == <>(pc \in {"done", "failed"})

-----------------------------------------------------------------------------
(* The loop keeps the promise of TransientPromise.  An attempt is invisible. *)

Promise == INSTANCE TransientPromise WITH
  status  <- IF pc = "begin" THEN "starting"
             ELSE IF pc \in {"done", "failed"} THEN "stopped" ELSE "running",
  clock   <- now,
  waiting <- Committed.pending,
  fired   <- Committed.applied,
  edges   <- CommittedRegs.edges,
  todo    <- sets,
  values  <- params

\* Every step of the loop is a step of the promise or changes nothing it
\* speaks of: rejected attempts leave no trace in nets, writes or the registers of
\* the flip-flop that reads no analog quantity. (What the other one may count twice
\* at the floor is in RegistersFollowNet.)
KeepsPromise == Promise!PromiseSpec

=============================================================================
