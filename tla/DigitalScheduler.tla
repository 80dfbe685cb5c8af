--------------------------- MODULE DigitalScheduler ---------------------------
(***************************************************************************)
(* The digital side of a mixed-signal circuit: the event queue and net      *)
(* values (digital/state.rs), the two evaluators (digital/scheduler.rs) and *)
(* the calls the circuit and the time loop make on them (core/circuit.rs,   *)
(* analyses/transient.rs).  The delta-cycle evaluator takes one action per  *)
(* delta cycle, the ranked one an action per device it visits.              *)
(*                                                                          *)
(* Times are ticks; Epsilon is PlanLimits::digital_time_epsilon.            *)
(***************************************************************************)
EXTENDS DigitalNetlist

CONSTANTS
  Order, BackEdges,  \* DigitalTopology: topo_order, and back_edges by position
  MaxDelta, Epsilon, \* PlanLimits
  Horizon,           \* bound: no landing after it
  Stimuli,           \* the sets of events the host may have scheduled
  HookNets,          \* nets an accept hook (A2D) may drive
  Samplers,          \* compiled devices whose digital body reads analog quantities
  InitLimit          \* bound: calls of init_digital

Event == [time : Nat, net : Nets, value : LogicValue, seq : Nat]

ASSUME SchedulerAssumption ==
  /\ Order \in [1..Cardinality(Devices) -> Devices]
  /\ \A d \in Devices : \E i \in DOMAIN Order : Order[i] = d
  /\ BackEdges \subseteq (DOMAIN Order) \X (DOMAIN Order)
  /\ HookNets \subseteq Nets
  /\ Samplers \subseteq Devices /\ \A d \in Samplers : Delay[d] = 0
  /\ MaxDelta \in Nat \ {0} /\ Epsilon \in Nat /\ Horizon \in Nat /\ InitLimit \in Nat
  /\ Stimuli \subseteq SUBSET Event
  /\ \A S \in Stimuli : IsFiniteSet(S)

VARIABLES
  pc,           \* "off", "ready", "attempted", "failed", or an evaluator's step
  after,        \* where pc goes when the evaluation under way succeeds
  now,          \* the time of that evaluation
  nets, queue,  \* DigitalState
  regs,         \* the registers of the devices
  ranked,       \* CircuitInstance.digital_topology is built
  run,          \* the evaluator's locals
  chk, saved,   \* DigitalState.checkpoint; registers and time of the attempt
  inits,        \* history: calls of init_digital
  edge          \* history: what the flops saw when this evaluation began

state == <<nets, queue, regs>>
vars  == <<pc, after, now, state, ranked, run, chk, saved, inits, edge>>

NoCheckpoint == [nets |-> <<>>, queue |-> {}]

Least(S) == CHOOSE x \in S : \A y \in S : x <= y

-----------------------------------------------------------------------------
(* The event heap.                                                          *)

\* (mutant: an event exactly at the edge of the instant is left)
DueBefore(q, t) == {e \in q : e.time < t + Epsilon}

Due(q, t) == {e \in q : e.time <= t + Epsilon}

On(q, net) == {e \in q : e.net = net}

\* The values that may be written last: events leave the heap by (time, seq),
\* and in any order where both agree.
Last(E) ==
  {e.value : e \in {x \in E : \A y \in E :
                      y.time < x.time \/ (y.time = x.time /\ y.seq <= x.seq)}}

Moved(q, t) == {e.net : e \in Due(q, t)}

\* The net values the due events may leave: those of a net whose last events
\* tie (Torn) may differ.
Drained(n, q, t) ==
  LET last(k) == Last(On(Due(q, t), k))
      Torn    == {k \in Moved(q, t) : Cardinality(last(k)) > 1}
  IN  {[k \in Nets |-> IF k \in Torn THEN v[k]
                       ELSE IF k \in Moved(q, t) THEN CHOOSE x \in last(k) : TRUE
                       ELSE n[k]] :
         v \in {w \in [Torn -> LogicValue] : \A k \in Torn : w[k] \in last(k)}}

\* A net counts as changed when any of its events differs from what it held.
Changed(n, q, t) == {k \in Nets : \E e \in On(Due(q, t), k) : e.value # n[k]}

\* A compiled device emits what changes; one with a delay always emits.
Emits(d, n, r) == Delay[d] > 0 \/ Drive(d, n, r) # n[Out[d]]

Emission(d, n, r, s) ==
  [time |-> now + Delay[d], net |-> Out[d], value |-> Drive(d, n, r), seq |-> s]

-----------------------------------------------------------------------------
(* The evaluators.                                                          *)

Locals == [changed : SUBSET Nets, fired : SUBSET Devices, touched : SUBSET Nat,
           pos : Nat, count : Nat, seq : Nat]

Fresh == [changed |-> {}, fired |-> {}, touched |-> {}, pos |-> 1, count |-> 0, seq |-> 0]

\* run_digital_at: the ranked evaluator when there is a topology.
Begin(t, n, q, r, target) ==
  /\ pc' = IF ranked THEN "drain" ELSE "delta"
  /\ after' = target
  /\ now' = t
  /\ nets' = n /\ queue' = q /\ regs' = r
  /\ run' = Fresh
  /\ edge' = [regs |-> r, nets |-> n]
  /\ UNCHANGED ranked

\* (mutant: an accepted step leaves its checkpoint behind)
CommittedNever == chk

\* commit, on the accept path.
Committed == IF after = "ready" THEN NoCheckpoint ELSE chk

\* The evaluation returns Ok.
Return ==
  /\ pc' = after
  /\ run' = Fresh
  /\ chk' = Committed

Fail == pc' = "failed" /\ UNCHANGED <<run, chk>>

\* One turn of the loop of evaluate_until_stable: registers first, over the
\* nets the due events left, then the outputs of every woken device.
DeltaCycle ==
  /\ pc = "delta"
  /\ IF Due(queue, now) = {}
     THEN Return /\ UNCHANGED <<state, edge>>
     ELSE \E n \in Drained(nets, queue, now) :
       LET changed == Changed(nets, queue, now)
           r       == SeqPhase(n, regs, changed)
           woken   == {d \in Devices : Wakes(d, changed)}
           speak   == {d \in woken : Emits(d, n, r)}
           seqOf(d) == run.seq + Cardinality({c \in speak : c < d})
           q == (queue \ Due(queue, now))
                  \cup {Emission(d, n, r, seqOf(d)) : d \in speak}
       IN  /\ nets' = n /\ regs' = r /\ queue' = q
           /\ edge' = IF run.count = 0 THEN [edge EXCEPT !.nets = n] ELSE edge
           /\ IF run.count + 1 >= MaxDelta THEN Fail
              ELSE IF Due(q, now) = {} THEN Return
              ELSE /\ run' = [run EXCEPT !.count = @ + 1, !.seq = @ + Cardinality(speak)]
                   /\ UNCHANGED <<pc, chk>>
  /\ UNCHANGED <<after, now, ranked, saved, inits>>

\* The head of evaluate_dag_ordered: the due events, then the registers of
\* every woken device, once.
DagDrain ==
  /\ pc = "drain"
  /\ \E n \in Drained(nets, queue, now) :
       LET changed == Changed(nets, queue, now)
       IN  /\ nets' = n
           /\ queue' = queue \ Due(queue, now)
           /\ edge' = [edge EXCEPT !.nets = n]
           /\ IF changed = {} THEN Return /\ UNCHANGED regs
              ELSE /\ regs' = SeqPhase(n, regs, changed)
                   /\ pc' = "visit"
                   /\ run' = [Fresh EXCEPT !.changed = changed,
                                !.fired = {d \in Devices : Wakes(d, changed)
                                             /\ Fires(d, n, regs)}]
                   /\ UNCHANGED chk
  /\ UNCHANGED <<after, now, ranked, saved, inits>>

\* Bound: no run emits more than every device in every pass.
NextSeq(s) == IF s < MaxDelta * Len(Order) THEN s + 1 ELSE s

\* One device of a pass.  What it emits at this instant is applied at once.
DagVisit ==
  /\ pc = "visit" /\ run.pos <= Len(Order)
  /\ LET d       == Order[run.pos]
         e       == Emission(d, nets, regs, run.seq)
         moves   == nets[e.net] # e.value
         visited == [run EXCEPT !.pos = @ + 1]
     IN  \/ /\ ~((Wakes(d, run.changed) \/ d \in run.fired) /\ Emits(d, nets, regs))
            /\ run' = visited
            /\ UNCHANGED <<nets, queue>>
         \/ /\ Wakes(d, run.changed) \/ d \in run.fired
            /\ Emits(d, nets, regs)
            /\ IF e.time <= now + Epsilon
               THEN /\ nets' = [nets EXCEPT ![e.net] = e.value]
                    /\ run' = [visited EXCEPT !.seq = NextSeq(@),
                                 !.changed = IF moves THEN @ \cup {e.net} ELSE @,
                                 !.touched = IF moves THEN @ \cup {run.pos} ELSE @]
                    /\ UNCHANGED queue
               ELSE /\ queue' = queue \cup {e}
                    /\ run' = [visited EXCEPT !.seq = NextSeq(@)]
                    /\ UNCHANGED nets
  /\ UNCHANGED <<pc, after, now, regs, ranked, chk, saved, inits, edge>>

\* (mutant: back edges are not followed)
RestartsNone == {}

\* (mutant: any change restarts the pass)
RestartsAlways == IF run.changed = {} THEN {} ELSE {1}

\* Where the devices that changed must be followed by an earlier one again.
Restarts == {e[2] : e \in {b \in BackEdges : b[1] \in run.touched}}

\* (mutant: the pass cap is not looked at)
CappedNever(count) == FALSE

Capped(count) == count + 1 >= MaxDelta

\* The end of a pass: done, or restart at the earliest back-edge target.
DagPassEnd ==
  /\ pc = "visit" /\ run.pos > Len(Order)
  /\ IF Restarts = {} THEN Return
     ELSE IF Capped(run.count) THEN Fail
     ELSE /\ run' = [run EXCEPT !.pos = Least(Restarts), !.touched = {},
                       !.count = IF @ < MaxDelta THEN @ + 1 ELSE @]
          /\ UNCHANGED <<pc, chk>>
  /\ UNCHANGED <<after, now, state, ranked, saved, inits, edge>>

Evaluate ==
  \/ DeltaCycle
  \/ DagDrain
  \/ DagVisit
  \/ DagPassEnd
-----------------------------------------------------------------------------
(* The calls of the circuit and of the time loop (core/circuit.rs,          *)
(* analyses/transient.rs).                                                  *)

InitEvents ==
  LET blank == [k \in Nets |-> "X"]
      r     == [d \in Devices |-> PowerOnReg]
  IN  {[time |-> 0, net |-> Out[d], value |-> Drive(d, blank, r), seq |-> d - 1] :
         d \in Devices}

\* init_digital: power-on registers, every device's initial event, a run at 0.
\* The nets keep what they hold.
InitDigital ==
  /\ pc \in {"off", "ready"} /\ inits < InitLimit
  /\ inits' = inits + 1
  /\ Begin(0, nets, queue \cup InitEvents, [d \in Devices |-> PowerOnReg], "ready")
  /\ UNCHANGED <<chk, saved>>

RebuildTopology ==
  /\ pc \in {"off", "ready"} /\ ~ranked
  /\ ranked' = TRUE
  /\ UNCHANGED <<pc, after, now, state, run, chk, saved, inits, edge>>

Pending == {e.time : e \in queue}

\* attempt_step lands on the next event: checkpoint, then run.
Attempt ==
  /\ pc = "ready" /\ inits > 0
  /\ Pending # {} /\ Least(Pending) <= Horizon
  /\ chk' = [nets |-> nets, queue |-> queue]
  /\ saved' = [regs |-> regs, now |-> now]
  /\ Begin(Least(Pending), nets, queue, regs, "attempted")
  /\ UNCHANGED inits

\* What the accept hooks may seed: nothing, or one crossing. What they do to the
\* registers of their own devices, and what those then say, is in Sampled and Spoken.
HookEvents ==
  {{}} \cup {{[time |-> now, net |-> k, value |-> v, seq |-> 0]} :
               k \in HookNets, v \in {"0", "1"}}

\* accept_timestep of the samplers: both phases of each run on the nets as they
\* were before any hook, whether they moved or not.
Sampled(n) ==
  [d \in Devices |-> IF d \in Samplers THEN SeqPhase(n, regs, Nets)[d] ELSE regs[d]]

Spoken(n, r) ==
  LET speak == {d \in Samplers : Emits(d, n, r)}
  IN  {Emission(d, n, r, Cardinality({c \in speak : c < d})) : d \in speak}

\* accept_and_run_digital, from nets n and queue q: the hooks, then the run.
AcceptAndRun(n, q) ==
  \E H \in HookEvents :
    Begin(now, n, q \cup H \cup Spoken(n, Sampled(n)), Sampled(n), "ready")

Accept ==
  /\ pc = "attempted"
  /\ AcceptAndRun(nets, queue)
  /\ UNCHANGED <<chk, saved, inits>>

\* A rejected step: rollback, and the devices' own checkpoints.
Reject ==
  /\ pc = "attempted"
  /\ pc' = "ready"
  /\ nets' = chk.nets /\ queue' = chk.queue /\ regs' = saved.regs
  /\ now' = saved.now
  /\ chk' = NoCheckpoint
  /\ UNCHANGED <<after, ranked, run, saved, inits, edge>>

\* A step accepted at the dt floor: nets and queue go back, registers do not,
\* and the accept path runs the instant again.
AcceptAtFloor ==
  /\ pc = "attempted"
  /\ AcceptAndRun(chk.nets, chk.queue)
  /\ chk' = NoCheckpoint
  /\ UNCHANGED <<saved, inits>>

Quiet ==
  /\ \/ pc = "failed"
     \/ pc = "ready" /\ \A t \in Pending : t > Horizon
  /\ UNCHANGED vars

Init ==
  /\ pc = "off" /\ after = "ready" /\ now = 0
  /\ nets = [k \in Nets |-> "X"]
  /\ queue \in Stimuli
  /\ regs = [d \in Devices |-> BlankReg]
  /\ ranked = FALSE
  /\ run = Fresh
  /\ chk = NoCheckpoint
  /\ saved = [regs |-> regs, now |-> 0]
  /\ inits = 0
  /\ edge = [regs |-> regs, nets |-> nets]

Next ==
  \/ Evaluate
  \/ InitDigital
  \/ RebuildTopology
  \/ Attempt
  \/ Accept
  \/ Reject
  \/ AcceptAtFloor
  \/ Quiet

\* A call returns before its caller goes on: the evaluation always proceeds.
Spec == Init /\ [][Next]_vars
FairSpec == Spec /\ WF_vars(Evaluate)

-----------------------------------------------------------------------------
(* Properties.                                                              *)

Evaluating == pc \in {"delta", "drain", "visit"}
Settled    == pc \in {"ready", "attempted"} /\ inits > 0

TypeOK ==
  /\ pc \in {"off", "ready", "attempted", "failed", "delta", "drain", "visit"}
  /\ after \in {"ready", "attempted"} /\ now \in Nat
  /\ nets \in [Nets -> LogicValue] /\ regs \in [Devices -> Reg]
  /\ queue \subseteq Event /\ IsFiniteSet(queue)
  /\ chk = NoCheckpoint \/ (chk.nets \in [Nets -> LogicValue] /\ chk.queue \subseteq Event)
  /\ (pc = "ready" => chk = NoCheckpoint) /\ (pc = "attempted" => chk # NoCheckpoint)
  /\ ranked \in BOOLEAN /\ run \in Locals /\ inits \in 0..InitLimit

\* Between runs every output is on its way to what its device computes from
\* the nets as they are: its last pending event says so, or the net does.  No
\* gate was left unevaluated, and none reads a net that moved after it.
OutputsCatchUp ==
  Settled => \A d \in Devices :
    LET line == On(queue, Out[d])
    IN  (IF line = {} THEN {nets[Out[d]]} ELSE Last(line)) = {Drive(d, nets, regs)}

\* Between runs every flop has seen its clock as it is: no edge is pending.
EdgesSeen == Settled => \A f \in Flops : regs[f].prev = nets[ClockOf(f)]

\* Registers are written without blocking: in a run a flop takes the data its
\* clock edge found before any gate or flop moved, or keeps what it held.  (The
\* run of an accepted step starts after the hooks: what those latched it holds.)
NonBlocking ==
  [][Evaluating /\ pc' \in {"ready", "attempted"} =>
       \A f \in Flops :
         regs'[f].q = IF Fires(f, edge'.nets, edge.regs)
                      THEN edge'.nets[DataOf(f)] ELSE edge.regs[f].q]_vars

\* A run consumes what is due and nothing else waits for an instant gone by.
NothingDue == Settled => \A e \in queue : e.time > now + Epsilon

\* An evaluation gives up only while a loop keeps turning: some device in a loop
\* of the circuit is still not what it computes, or about to change. The shift
\* register and a latch that settles never meet the cap of either evaluator.
Feeds(c, d)  == Wakes(d, {Out[c]})
InLoop(d)    == \E S \in SUBSET Devices :
                  d \in S /\ \A e \in S : /\ \E c \in S : Feeds(c, e)
                                        /\ \E c \in S : Feeds(e, c)
Unsettled(d) == \/ nets[Out[d]] # Drive(d, nets, regs)
                \/ On(Due(queue, now), Out[d]) # {}
OnlyLoopsGiveUp == pc = "failed" => \E d \in Devices : InLoop(d) /\ Unsettled(d)

\* Every run of the digital side ends, settled or with an error.
RunsEnd == Evaluating ~> ~Evaluating

=============================================================================
