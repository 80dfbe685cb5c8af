# Piperine in TLA+

Piperine is a mixed-signal circuit simulator: a hardware description language
is parsed and elaborated to a design, compiled to machine code, and simulated
by a solver that couples an adaptive analog integrator to a digital event
scheduler; around it are sessions that hold a compiled circuit, a project
resolver with a lock file, and a language server. These modules specify the
part of it that is control rather than arithmetic: which instants a simulation
visits, what is undone when a step is rejected, in which order digital devices
are evaluated, what a session remembers of the writes it was told, what two
processes do to one lock file, and what an editor is shown.

Paths below are relative to `src/crates/piperine-<crate>/src/` and written
`crate: file`.

## The system

| Part | State it keeps | Operations | Hard behaviour | What makes it correct |
|---|---|---|---|---|
| Transient time loop (`solver: analyses/transient.rs`) | clock, step size, last verdict, exemption flag, recorded points, queue of host writes | `begin_run`, then per step `predict_step`, `attempt_step`, `assess_step`, `accept_step` / `reject_lte_step` / `reject_step`, `apply_scheduled_sets`, `finish_run` | an attempt changes nets, registers and Newton history before it is known to be kept; three owners each have to undo their share | nothing declared is stepped over; every event and write happens once, at its time; rejected attempts leave no trace; the run ends |
| Step controller (`solver: analyses/convergence.rs`) | PI error memory | `propose_dt`, `reject_dt`, convergence plan | floor and clamp | retries are finite |
| Newton solver and history (`solver: math/newton_raphson.rs`, `math/circular_array.rs`) | ring of the last four solutions | `solve_with_strategy`, push, snapshot | rows are addressed by age; who pushed them is implicit | the rows an integration formula reads are those of the step it integrates |
| Digital scheduler (`solver: digital/*.rs`) | net values, event heap, one-deep checkpoint | `evaluate_until_stable`, `evaluate_dag_ordered`, checkpoint, rollback, commit | delta cycles, two-phase registers, restarts around loops, the cap | no gate stale, no edge missed, registers do not race, ends settled or with an error |
| Digital topology (`solver: digital/topology.rs`) | order and back edges | `build` | iterative depth-first search with a cursor per device | every device ranked once, no signal missed, restarts only for real loops |
| Mixed-signal seam (`solver: core/circuit.rs`) | devices, digital state, topology | `init_digital`, `run_digital_at`, `accept_and_run_digital`, `set_element_param` | called by session, operating point and time loop | power-on happens once; a batch of writes is made in order |
| Unified event queue (`solver: analyses/events.rs`) | heap of declared instants, checkpoint | push, peek, `drain_due`, rollback by entry kind | duplicates, kinds with different rollback | an exact entry is never lost |
| Operating point (`solver: analyses/dc.rs`) | homotopy stage, bypass cache | convergence ladder, alternation with the digital side | the cap of the alternation is silent | analog and digital agree when it answers |
| Small-signal, noise, periodic analyses (`solver: analyses/{ac,noise,sp,tf,pz,disto,sens,pss}.rs`) | none beyond an operating point; shooting iterates for `pss` | `solve` | arithmetic | numerical |
| Compiled devices (`codegen: device/*.rs`) | registers, edge memory, operator state, analog copy of registers, checkpoint | `seq_phase`, `comb_phase`, `accept_timestep`, `checkpoint_state`, `restore_state`, `set_param` | which banks a checkpoint holds; state advanced only on acceptance | a rejected step is invisible to the next |
| Fusion (`codegen: device/fusion.rs`, `kernel/digital/network.rs`) | order inside a fused cone | build, evaluate | a cone replaces devices | same nets as the devices it replaces |
| Kernel compiler (`codegen: flatten, resolve, emit, kernel`) | none | translation | size | same value as the interpreter |
| Language (`lang: parse, elab, eval, pom`) | symbol tables, staged overrides | parse, elaborate, stage, re-elaborate | order of passes; conflicting stagings | deterministic design; conflicts are reported |
| Session (`api: session/*.rs`) and Python (`python: live.rs`) | held circuit, design, staged overrides or ledger, build info, scheduled writes, carried voltages | `set`, `schedule_set`, sweeps, `tran`, `dc`, `sens`, `op`, rebuild | restamp against rebuild; a rebuild in the middle of a transient; failures half way | no rebuild takes a write back; results are read with the values they were made with; a split transient is one trace |
| Plugins (`plugin: host.rs, trust.rs, registry.rs`) | loaded plugins, approvals in the lock file | load, trust, dispatch hooks | approvals share a file with the resolver; changed artifacts | nothing unapproved runs |
| Project (`project: resolver.rs, lockfile.rs, git.rs`) and command line (`cli: commands/{add,remove}.rs`) | manifest, lock file, checkouts; visited set | `resolve`, `add`, `remove`, `run` | a walk over a map in hash order; packages that need each other; two processes; death in the middle of a save | what is built is what is locked; a failed `add` leaves no trace |
| Language server (`lang-server`) | open documents, one unit per project, debounce timers, two queues | notifications, requests, analysis, diagnostics | two threads; edits and openings travel on different queues | requests find their document; the editor ends up with the diagnostics of its last text |

The session compiles a circuit, calls `init_digital`, and hands it to an
analysis. The transient analysis finds the operating point (Newton alternating
with the digital side), then loops. In every step it calls `run_digital_at`
before the analog solve (attempt) and `accept_and_run_digital` after it
(accept): accept hooks of devices turn analog crossings into digital events
(A2D), and `comb_phase` copies registers to the bank the analog body reads
(D2A). Everything in a run happens on one thread; the difficulty is not
concurrency but the number of owners of state that an attempt touches.

A session (one in the Rust API, one in the Python binding) keeps the circuit
and writes to it between analyses and, by schedule, inside a transient. A write
the compiled kernel cannot take asks for a rebuild: the design is elaborated
again with everything the session was told. `build` and `run` first resolve the
project's packages; the language server resolves them too, at every analysis,
while the command line may be at work on the same files. Its main thread
receives the editor's messages and feeds two queues to one worker.

## The modules

Time loop:

* `Discontinuities` - what happens at declared instants: digital events with a
  time, a net value and the events they cause, and host writes with a time, a
  parameter and the strength the device reports. One net clocks one flip-flop
  that counts rising edges, so the nets are the set of events applied so far.
  `HookEvents` are the net events accept hooks may add. `RunDigital` is `run_digital_at` seen from the loop, `Write` and `Written`
  are `set_element_param` over a drained batch.
* `TransientPromise` - what a run promises its host: a clock that moves from
  instant to instant, never past something declared, and takes due events and
  writes in order. It knows no attempts, checkpoints or rejections. Its
  flip-flop reads no analog quantity.
* `TransientDriver` - `TransientSolver::solve`. `pc` is the phase about to
  run; the actions are the phase methods: `BeginRun`, `Predict`, `Attempt`,
  `AcceptStep`, `AcceptAtFloor` (`reject_lte_step` at the floor followed by
  `accept_step`), `RejectLteStep`, `RejectStep`, `FinishRun`. A Newton solve is
  a free verdict (good, poor, diverged), the step proposed after acceptance is
  any step inside its clamp or a device's wish. `held`/`saved` are the
  checkpoint of nets, registers and history. Two flip-flops hang on the clock:
  `regs` of one whose body reads digital nets only, and `sampler` of one that
  also reads an analog quantity, whose `accept_timestep` runs `seq_phase` and
  `comb_phase` once more, on the nets as they were before the hooks
  (`Sampled`). `floorHits` is `dt_min_floor_hits`; `Given` are the parameter
  values a run may start with. The Newton history is kept as
  provenance: for each row, which stage of which step it is and from which
  point it was integrated. Its states refine `TransientPromise` by the mapping
  `Promise`: while an attempt is open the promise still sees the checkpoint.
* `TransientClaims`, `MCTransientDriver` - claims of the comments that the code
  does not keep, and the instances.
* `TransientDriverProofs`, `TransientLedgerProofs` - the proofs about the loop:
  what the operators of `Discontinuities` return, types and instants, then what
  the loop keeps account of and the refinement. They rest on `ExtremumTheorems`
  (least and greatest elements).

Digital side:

* `DigitalNetlist` - devices (constant, buffer, inverter, nor, flip-flop, with
  or without delay), `has_input_on`, `seq_phase` and the outputs.
* `DigitalScheduler` - the event heap with `(time, seq)` order, both
  evaluators, the calls the circuit and the loop make. `DeltaCycle` is one turn
  of `evaluate_until_stable`; `DagDrain`, `DagVisit`, `DagPassEnd` are the head,
  one device and the end of a pass of `evaluate_dag_ordered`; `Attempt`,
  `Accept`, `Reject`, `AcceptAtFloor`, `InitDigital`, `RebuildTopology` are the
  callers. `Samplers` are the devices whose body reads analog quantities:
  on acceptance their hooks latch (`Sampled`) and say what they then compute
  (`Spoken`) before the run. Events that agree in time and sequence leave the heap in either
  order.
* `MCDigitalScheduler`, `DigitalClaims` - circuits, and claims the code does
  not keep. `SchedulerProofs` holds the proofs.
* `DigitalTopology` - `DigitalTopology::build`, one action per turn of its
  loops: `Root`, `Follow` (one edge), `Finish`, `Rank`. The initial states are
  all circuits. `MCDigitalTopology` is the instance and
  `DigitalTopologyProofs` the proofs.

Around the solver:

* `LiveSession` - both sessions, told apart by `host`. `live` holds the design,
  what is staged on it, the parameters of the circuit (`circuit`), those results
  are read with (`info`), the ledger (`dirty`) and carried voltages. Calls
  between transients are `Set` (with its sweeps), `DcPoint`, `Sens`, `Op`,
  `ScheduleSet`, `Tran`; a transient runs through `Early` (writes for 0),
  `Segment`, `Land` and `Advance` per point, `SegmentEnd`, `Split`, `Restart`,
  or `SolveFails`. `meant` is what each parameter was last told to be; `unsure`
  names the parameters for which the code is known to lose track (below). A
  write that turns out to need another circuit when it lands is passed over and
  the run fails once the others of its instant are made (`refused`).
  `MCLiveSession` is the instance, `LiveSessionProofs` holds the proofs,
  `SessionClaims` what the code does not keep.
* `ProjectResolver` - processes that resolve one project: `Build`, `Add`,
  `Remove` begin a command; `Load`, `Visit` (one turn of `resolve_deps`),
  `Walked`, `Truncate` and `WriteOut` (the two halves of `fs::write`),
  `Consent`, `Revert`, `Cleanup`; `EnsureTrusted`, `Answer`, `AllLoaded` are
  `PluginHost::load` with the approvals of `trust.rs`. Git or a manifest may
  fail at any turn, a process may `Die` at any step, upstream may move
  (`Push`). A commit is a number; `content` remembers what the lock file last
  held as a whole, `disturbed` that another process has written since a
  command began. `MCProjectResolver` is the instance, `ResolverProofs` the
  proofs.
* `LanguageServer` - the editor with the main thread (`DidOpen`, `DidChange`,
  `DidSave`, `DidClose`, `SendRequest`, `DidChangeWatchedFiles`, `TimerFires`)
  and the worker (`Drained`, `TakeRequest`, `TakeUpdate`, `TakeElaborate`,
  `Elaborate`) over the request queue and the analysis queue. A text is its
  version; errors and designs are named by the text they come from.
  `MCLanguageServer` is the instance, `LanguageServerProofs` the proofs.

How they meet: `DigitalTopology` yields the `Order` and `BackEdges` that
`DigitalScheduler` takes as constants, and `NoSignalMissed` is what its visits
rely on. `Discontinuities.RunDigital` is the scheduler as the time loop sees
it: due events are applied, later ones queued. `LiveSession` sees a transient
from outside: points, and writes that land at them, which is what
`TransientPromise` promises its host. `ProjectResolver` has the language server
as one of its processes.

## What the runs check

| Run | Instance | Question |
|---|---|---|
| `driver` | clock edges at 4, 5 and 9, each caused by the one before, A2D crossings at 6 and 7, the second of which causes an event at 8; two events whose delta cycles do not settle, so that an attempt or an acceptance fails; a breakpoint at 2, five writes of every strength, any subset of them scheduled, steps of 1 to 5 ticks up to 9, a landing tolerance of one tick | Is anything skipped, lost, applied twice, overdue, or left behind by a rejected attempt; does the loop end, also by failing, and implement `TransientPromise`? |
| `scheduler` | a shift register of two flops with a gate on both and a delayed inverter, a latch, and a gated ring of three inverting stages, under either evaluator; two of the devices, a gate and a flop, read analog quantities; 128 stimuli; a crossing at any accepted instant | Is a gate left stale, an edge missed or raced, a due event left; does only a loop meet the cap, and every call end? |
| `topology` | every circuit of four devices | Is the order complete, does it respect signals, are restarts real loops, does it end? |
| `language_server` | two files of one project, one of them new, and a file outside any; one is edited, closed and opened again, with a text that does not elaborate; a request, save or watched file at any moment | Does a request find its document, is the edit an answer misses still to come, do diagnostics go back, and does the editor end up with those of its last text? |
| `project` | command line (two commands) and editor (one) on a path package, a plugin and a package that need each other, one of them with two commits | Is what is built what is locked, is the closure right in any order, is a failed `add` undone, does a save lose an entry, does every command end? |
| `session` | four calls of either session: a plain parameter, two optional ones (one takes a net away, one adds one), one that only the elaboration knows; up to three writes scheduled for one transient of three instants | Does a rebuild take a write back, does every scheduled write land once, does a split transient go on where it was and make one trace? |

The properties, by the hazard they are for:

* Rejected attempts: `RegistersFollowNet` (whatever was rejected, retried
  or accepted at the floor, a flip-flop that reads no analog quantity latched
  every edge up to now once; one that does lost none and latched at most one too
  many for each step accepted at the floor), `HistoryAligned`
  (the solve starts from the accepted point and the predictor's rows are the
  stages of the last step), `KeepsPromise` (the refinement).
* Declared instants: `NothingInsideStep`, `NothingOverdue`.
* Host writes: `WritesOnTime`, `NoWriteLost`, `ExemptionIsEarned`.
* Recording: `RecordedPointIsCurrent`. Ending: `Terminates`.
* Digital: `OutputsCatchUp`, `EdgesSeen`, `NonBlocking`, `NothingDue`,
  `OnlyLoopsGiveUp`, `RunsEnd`.
* Topology: `EveryDeviceRanked`, `NoSignalMissed`, `RestartsOnlyLoops`, `Ends`.
* Two threads and two queues: `RequestsFindDocument`, `AnswersMissNoEdit`
  (an answer may be about an older text than the one on screen, but then the edit
  still waits), `AnalysesWhatTriggered`, `NeverOlder`, `Converges`.
* Two processes, one of which may die: `BuildsWhatIsLocked`, `ResolvesClosure`,
  `FailedAddUndone`, `EntriesKept`, `CommandsEnd`.
* A circuit held, written and rebuilt: `WritesSurvive`, `LandedOnce`,
  `WarmStart`, `Stitches`.

Bounds. Time is integer ticks; the loop's own tests are comparisons of sums,
so what matters is the order of instants, and the instances have coincident
instants, adjacent ones and ones a step apart. `RejectDivisor` is 2 in the
instances (8 in the code) so that several rejections fit between `DtMax` and
`DtMin`; `RestartDivisor` is 1000 as in the code. `DtMax` exceeds the distance
between events, so steps must be cut; `Stop` is an event time and a write time.
`MaxDelta` is 6 (1000 in the code): more than the longest settling chain of the
circuits, so the cap is met by the oscillating ring only. `Epsilon` is 0 in
the run. `Horizon` bounds the landings of the scheduler, `InitLimit` the
calls of `init_digital`. In `topology` self-reading is varied for device 1
only: `adj` leaves such an edge out for every device alike.

In `language_server` three texts of one document are what it takes to open,
edit, close and open again, so that messages of two lives of a document are in
the queues at once; `MaxAsks` is 1, which with every other interleaving is
enough for a message that overtakes. `project` gives the command line two
commands because the second meets the lock file and the checkouts of the first,
and the editor one to disturb it; two commits of one package suffice for a lock
that is behind upstream. `session` has three instants and three scheduled
writes: two may coincide and the third still be before, at or after a split;
two splits of one transient fit. Four calls are enough for a write, a scheduled
write, the transient and another rebuild after it.

Assumptions on the environment, all of them constants or named in a property:

* `Patient` (language server): the editor waits for diagnostics of the text it
  opened before it edits it, and for those of its last text before it closes
  it. Without it `Converges` fails: a text that waits in the analysis queue is
  taken after the close, or before the opening that was sent first, because the
  two queues have no common order. What a close leaves behind then is the run
  `claim_ghost`, with `Patient = FALSE`.
* `disturbed` (resolver): the properties of a command are about commands during
  which no other process wrote. Nothing locks the files: a process that loaded
  the lock file before another saved it saves it without the other's entries.
* `AtRoot` (resolver): `ResolvesClosure` is about processes whose working
  directory is the project's root.
* `unsure` (session): the parameters `WritesSurvive` leaves out, with the
  conditions listed under the divergences.

Fairness. The program is one thread: the loop proceeds unless it has ended.
`TransientDriver` asks weak fairness of `Next`, `DigitalTopology` the same,
and `DigitalScheduler` of `Evaluate` only: a call returns before its caller goes
on, while nothing obliges the host to make the next call.
`LanguageServer` asks it of the worker and of each timer (threads that can run
do, and deadlines pass) and of nothing the editor does. `ProjectResolver` asks
it of the work of each process, not of users, who may leave a prompt
unanswered. `LiveSession` has no liveness property: a transient of three
instants ends by its bounds.

## Divergences between code and documentation

Runs that expect a violation:

* `claim_mirror` (`AnalogReadsCurrentRegisters`): a rejected attempt restores
  the registers but not their analog-side copy, which only `comb_phase`
  refreshes, and only when an input net changes. A retry that stops short of
  the clock edge is solved with the register values of the discarded attempt.
* `claim_resolve` (`StagesStartAtStepStart`): after a write that moves the
  operating point the closed step is solved again, with the history already at
  its end: the trapezoidal stage starts from the new point, not from the
  start of the step.
* `claim_power_on` (`PowerOnSettles`): the session and the transient analysis
  both call `init_digital`. The second call resets the devices, but its events
  change no net, so nothing downstream is woken: the inverse of a constant
  stays X.
* `claim_ripple` (`DerivedClockIsSeen`): the ranked evaluator runs clocked
  phases once, before the gates. A flip-flop clocked by another flip-flop's
  output misses the edge, which the delta-cycle evaluator takes.

* `claim_ghost` (`NoGhost`): an editor that types and closes at once. The close
  goes to the request queue and is served first; the text, on the analysis queue,
  finds no document and makes one (`server.rs:103`). `lang-server: state.rs:10`
  says that the server "holds the current state of each open document": this one
  is closed, and stays.
* `claim_read_as_run` (`ReadAsRun`): a `dc` sweep over an optional parameter that
  was never given. `set_element_param` refuses the value and asks for a rebuild;
  the sweep looks at errors only, mirrors the value into the build info (Python:
  and the ledger) and solves every point without the parameter.

Further ones met while modelling, followed by the models and checked by no run
of their own (the properties named leave them out):

* `transient.rs:857`: a step whose own target equals a declared instant is not
  marked as landed on it, though the comment at 797 exempts such steps.
* `transient.rs:1205`: the floor test is on the next step, so a step of up to
  `reject_divisor * dt_min` is accepted with its error, against the warning's
  "at dt_min".
* `transient.rs:1198`, `codegen: device/element.rs:687` (`RegistersFollowNet`): at
  the floor the nets go back and the registers stay. The accept hook of a
  flip-flop that reads an analog quantity runs its clocked phase on the nets of
  before, which sets its edge memory back, and the clock event that is then applied
  again latches the same edge a second time; in a chain of such flip-flops the
  data moves on by two. `part_vii_solver.md:1425` has accept advance
  "accept-gated state" only, "after settle", and
  `solver: tests/event_rollback.rs:11` names a "double-fire on retry" as what must
  not happen.
* `transient.rs:802`: `$bound_step` hints are said to enter the queue; no
  driver reads `bound_step_hint`.
* `transient.rs:1117`: the strength of a write at the start is ignored; one that
  needs a rebuild is dropped and the run goes on, where a later one fails it.
* `transient.rs:1290`: a point is recorded before its accept hooks run, so a
  re-entry from it lacks their events.
* `digital/scheduler.rs:32, 135`: every call numbers events from 0, so of two
  delayed emissions for one instant from two calls the older may win.
* `digital/topology.rs:40`: a gate that reads its own output has no back edge,
  is evaluated once and accepted, settled or not.
* `digital/scheduler.rs:46` and `digital/topology.rs:28`: with several drivers
  on a net the last event wins (`LogicValue::resolve` is called by tests only)
  and only the last driver has edges, so another may be ranked after a reader.
* `python: live.rs:529` (`WritesSurvive`): a transient that fails returns before
  the writes of its segment are noted; they stay in the circuit and the next
  rebuild takes them back.
* `live.rs:531`, `api: session/entry.rs:263` (`WritesSurvive`): writes are noted
  in the order they were scheduled, not in the order of time in which they
  landed, and the Rust session also notes those for after the stop.
* `live.rs:520` (`LandedOnce`): a write scheduled for the instant of a split that
  is not structural, or no longer so, belongs to neither segment and is lost;
  `part_vii_solver.md:742` says it lands, in scheduling order.
* `live.rs:535` (`WarmStart`): when recording starts after the split, nothing was
  recorded to restart from, against `part_vii_solver.md:763` ("carried node
  state as initial conditions").
* `solver: analyses/sens.rs:146` (`WritesSurvive`): an operating point that fails
  leaves the nudged value in the circuit; the "no partial writes" of line 124
  is kept for requests that can be refused up front only.
* `session/entry.rs:571`: a rebuild of the Rust session (from a sweep) starts
  from its design, which live writes never reach, so it takes them back
  (`WritesSurvive` asks the Rust session for readings only); one that fails
  leaves its override staged for the next.
* `live.rs:471`: an early write that fails drops the scheduled ones behind it.
* `project: resolver.rs:208` (`ResolvesClosure`): the path of a path dependency
  is taken below the working directory; `part_vi_plugins.md:256` says "relative
  to the project root". From elsewhere its manifest is not found and its own
  dependencies are skipped in silence.
* `resolver.rs:200`: a package met a second time is skipped before its source is
  compared, so the conflict two requirements make is never reported.
* `git.rs:121`: `latest` is looked up as a name, among local branches first and then
  on the remote. The model takes it for upstream's newest commit; no property
  depends on which commit it is.
* `git.rs:100`: a clone keeps the origin it was made from when the manifest
  names another URL.
* `plugin: trust.rs:50`: one approval per plugin, compared with each artifact: a
  plugin with a device library and a Python part can never match both.
* `lang-server: state.rs:98`: the unit of a project is built once; a file that is
  new or changed on disk is reported as it was then.
* `lang-server: server.rs:67`: a completion asked for right after an edit is
  answered from the text before it, because requests are served before the
  analysis queue. The test `tests/protocol.rs:249` does exactly this and expects
  the new text. `AnswersMissNoEdit` says what remains: that edit is still to come.
* `lang-server: dispatch.rs:80`: an unknown request is logged and gets no answer.

## What is proved

`DigitalTopologyProofs`, for every number of devices, every assignment of nets
and every circuit:

* `TypeCorrect` - `Spec => []TypeOK`;
* `EveryDeviceRankedOnce` - when the sort has built its order, every device
  stands in it once;
* `NoSignalMissedBySingleDrivers` - if no net has two drivers, every device
  that reads another's net is ranked after it, or the pair is a back edge;
* `RestartsCloseLoops` - a back edge points backwards and closes a path of
  signals: a circuit without loops is settled in one pass;
* `SearchRunsOut` - the safety half of `Ends`: the roots to try, the devices to
  finish and the edges to follow are finite sets, to which no turn of the search
  adds and from one of which every turn takes.

Assumptions: `TopologyAssumption` (N natural, one net per device), evaluated by
the run `topology`. None of the properties is inductive: they say nothing until
the order exists. The invariant `IInv` carries what the search knows on the
way: the devices on the stack are the grey ones and form a path of edges; the
finished ones are `rev`, without repetition; an edge of a finished device leads
to one finished before it, or is recorded as a back edge to a device below it
on the stack or finished later; an edge already followed from a device on the
stack leads to something that is not white; a recorded back edge closes a
path; and roots already passed are not white. Its nine conjuncts were checked
with TLC first. `Invariance` proves it; one lemma per action, one step per
conjunct.

`TransientDriverProofs`, for every set of digital events and what they cause,
every set of writes and breakpoints, every step bound and landing tolerance,
and whatever verdicts Newton and the error gate return:

* `TypeCorrect` - `Spec => []TypeOK`; the step size is never zero;
* `StepsReachPastNothing` - no pending event, write or polled breakpoint is
  inside a step that is attempted;
* `AcceptedStepsLeaveNothingDue` - when the next step is predicted, and at the
  end, every event and every write still queued is ahead of the clock.

Assumptions: `EventAssumption`, `SetAssumption`, `ClockAssumption`, evaluated by
the runs of the loop. The two properties support each other: a landing point is
ahead of the clock because nothing is overdue, and after a rejection nothing is
overdue because nothing restored was inside the step. Neither says what happens
between: `AttemptSettled` (the attempt consumed what is due at its landing
point, so acceptance, which settles again after the accept hooks, leaves only
later events), `CheckpointOpen` (the checkpoint a verdict goes back to is the
one of this attempt) and `StartsAhead` close the induction. That the earliest
candidate exists at all, and that a set of applied events has a latest one, is
proved in `ExtremumTheorems` by well-foundedness, because the library's
induction schemes cannot be used.

`RunsGetOn` is the safety half of `Terminates`: the clock stays within the horizon,
and each step of the loop moves it, cuts the step size or goes to a later phase
of the attempt (`GetsOn`), so that three natural numbers fall in lexical order
however often steps are rejected. `StepInHand` ties the landing point of an attempt
to the step size that a rejection cuts.

`TransientLedgerProofs`, from the same assumptions, proves the rest of what the
run `driver` checks, liveness excepted:

* `WritesAreOnTime`, `WritesAreNotLost`, `ExemptionsAreEarned` - from `WInv`:
  a write still queued has not been made, one that was made took effect at its
  instant and not after the clock, so that the batch drained at a landing point
  is newer than everything before it. Two batches at one instant never happen;
  within a batch `Write` lets the last one pushed win.
* `HistoryIsAligned` - from `HInv`: the two newest rows are the stages of the
  step that ended at the clock, unless the last attempt was rejected or the step
  before was a landing (`prevH = 0`), and the checkpoint holds such rows too.
* `RegistersFollow` - from `RInv`: registers and nets agree between phases and
  in the checkpoint, and an attempt is the checkpoint run to the landing point.
  The floor is the hard case: it takes the nets back and keeps the registers, so
  they are ahead of the nets when the acceptance runs them. `ClockedFollows`
  shows that a flip-flop that has already seen the edge does not count it again;
  `HooksLand` that running the queue before or after the hooks are added comes
  to the same nets. That is the flip-flop that reads no analog quantity; for the
  one that does, `SInv` keeps its count within `floorHits` of the edges
  (`FollowsWithin`): on the nets it has seen its hook changes nothing
  (`SampledAgain`), on those of the checkpoint it costs one edge, and the hit at
  the floor pays for it.
* `RecordedPointsAreCurrent` - from `LInv`, on top of `RInv`: a point is taken
  before the hooks of its own acceptance, and those are all that it can miss. The
  register it speaks of, here and in the refinement, is `regs`.
* `PromiseIsKept` - `Spec => KeepsPromise`, the refinement: `Predict`, `Attempt`
  and the rejections change nothing the promise speaks of, acceptance is
  `Advance` (with the hooks it chose, by `HooksLand`), the rest `Begin` or
  `Halt`.

That registers count each edge once leans on `EventAssumption`: no two events of
the net at one instant, and what an event causes is later and not a hook's.

`SchedulerProofs`, for every circuit, every set of events the host schedules and
both evaluators:

* `TypeCorrect`, from `TInv`, and `DueIsConsumed`, from `DInv`: an evaluator past
  its first drain holds only later events, and so does the checkpoint that an
  attempt goes back to;
* `NoEdgeIsMissed` - from `CInv`: before the drain a flip-flop is behind its
  clock only if an event is due there (`Caught`), after it none is (`Synced`).
  The floor is the hard case again: it goes back to the nets and events of the
  checkpoint and keeps the registers, so `CInv` says at every point of an attempt
  that the registers are caught up with respect to the checkpoint, too;
* `RegistersDoNotRace` - from `NInv`: after the drain every register holds what
  the run's edges found (`Latched`), and nothing that follows touches it;
* `OutputsAreRight` - from `OInv`: between runs no event of a device waits and its
  net shows what it computes (`OwesNothing`, `OwesAtRest`); during an evaluation a
  device either says the right thing already or is about to be asked: it is woken
  by what is due now (`OwesAtDrain`), or marked in a pass and ahead of its
  position (`OwesInPass`). The second is where the ranks matter, and the restart
  for a back edge. `OwesOnReturn` says the same of the checkpoint, for the floor,
  where a register that is ahead of the nets has its edge among the events due;
* `EvaluationsGetOn` - the safety half of `RunsEnd`: each step past the first
  drain raises (cycles or passes, position), and both are bounded (`Within`);
* `TheAnswerIsUnique` - if every gate reads only prompt devices of a lower level
  (`Rises`), the nets after a run are the only ones that fit the registers and the
  nets nobody drives: by `OneSolution` a lowest device on which two solutions
  differ would read the same in both. So the two evaluators, and any order or
  number of restarts, come to the same nets;
* `LooplessPartsSettle` and, for circuits without loops, `LooplessCircuitsSettle` -
  from `Deep(T, r)`: what is due in the `k`-th delta cycle was driven by a device
  of level `k - 1` at least, or by one of `T`, the devices that read a loop. A run
  gives up only where `T` keeps it going (`LoopTurns`).

The assumptions are `NetlistAssumption` and `SchedulerAssumption`, and for the
theorems on edges, registers and outputs `HostClocks`, that no device drives a
clock, and `InitLimit = 1`. Both are needed: the ranked evaluator misses the edges of a clock
that a device drives (the run `claim_ripple`), and a second `init_digital`, the one
of `claim_power_on`, forgets what the clocks were without an event to tell.

`OutputsAreRight` assumes more of the circuit. `OneDriver` and `HostNets`: a net
with several drivers shows the one that wrote last, which need not be the one that
is asked next. `Ranks`: a reader is ranked after its driver or the pair is a back
edge, which is what `NoSignalMissedBySingleDrivers` proves of the topology, and no
gate reads its own net, a loop of length one that the topology leaves out.
`Prompt = Devices`: no device has a delay, as no compiled one does;
`PromptOutputsCatchUp` is what remains of it next to devices that have one.

What accept hooks do before the run enters by `SampledCaught` (a flip-flop that ran
its phases on the nets of before is behind its clock only if an event is due there)
and `SamplersSay` (what a sampler computes it has said, or its net shows it).

`LooplessCircuitsSettle` takes the levels as a parameter `r`, and that there are no
back edges, as `RestartsOnlyLoops` of the topology gives for circuits without
loops; `LooplessPartsSettle` takes levels for the devices outside `T`, and that the
back edges leave from `T`. A circuit without loops needs a cycle for each level and two more, so `MaxDelta` has
to exceed them: 1000 in the code.

`DeltaStep`, `DrainStep`, `VisitStep` and
`PassEndStep` give the four steps of the evaluators in the form the invariants
use, so that each invariant opens no action twice.

`ResolverProofs`, for any number of processes, packages, commits and
requirements, whatever git, upstream and users do and whenever a process dies:

* `TypeCorrect`; `UndisturbedBuildsWhatIsLocked`, `UndisturbedResolvesClosure`,
  `UndisturbedAddIsUndone` and `SavesKeepEntries` - the four safety properties
  of the run `project`.

The assumption is `ResolverAssumption`. `IInv` is `TypeOK`, `Whole` (the lock
file is what was last saved or torn, and what is about to be saved is a lock)
and, for each process that no other has disturbed, `Sound`: what it has checked
out is what the lock in its hands names (`Agrees`), that lock keeps the entries
of the file (`HasEntries`), an `add` has put back what it found (`PutsBack`), and
(`Needed`) the packages visited and those ahead contain the roots and whatever a
visited one needs, and nothing that is not in every such set. The properties speak of the moment a command ends; `Sound` says what
the walk owes at each turn. The steps of others only matter when they write, and
then the process counts as disturbed; `Elsewhere` and `OthersSound` say so once.

`CommandsRunOut` is the safety half of `CommandsEnd`, for finitely many packages:
each step of a process with a command brings it nearer the end (`Nearer`), to a
later part of the command, to one plugin less to load, to a package more visited,
or to a dependency less to look at, and these sets are always finite. Packages that
need each other are visited once; answers, consent and deaths count as steps, too.

`LanguageServerProofs`, for any documents and any number of edits, requests and
saves, in every order of the two queues:

* `TypeCorrect`, from `TInv` (a message that carries a text carries one);
* `RequestsAreAnswered` - a request finds its document: from `HInv`, where
  `Held(d, i)` says what the worker will hold of `d` when it has served the first
  `i - 1` requests: the last opening or closing among them decides, or else what
  it holds now;
* `AnswersLoseNoEdit` - from `AInv`: of a request still queued, the text it was
  sent with, or a newer one, is the worker's when the request comes up, unless it
  waits in the analysis queue (`Asked`). It rests on `GInv`, where `InOrder` says that the texts of a document are used in order: what was shown
  and what the worker holds are older than what waits in the analysis queue,
  which is increasing, and nothing is newer than the editor's text. `Closing`
  says that a closed document has no text on its way and is on its own way out.
* `PatientEditorsSeeNothingOlder` - from `VInv`: of an open document either the
  opening is still queued and nothing newer exists (`Awaited`), or the worker has
  it (`Served`), and then each order to analyse finds the text it was given for,
  in the document or before it in the same queue (`Reached`);
* `DeadlinesAnalyseTheirText` - from `VInv` and `SInv`: an analysis reports the
  document's text, which is that of its version as long as saves bring no text
  along. The server does not ask for it, and a document saved with its text while
  an edit waits would go back: hence the assumption `~IncludeText`;
* `QuietMeansCurrent` and `LeftAloneItRests` - the two safety halves of
  `Converges`. From `MInv`: every open document is `Owed` diagnostics, that is its
  deadline runs, or its analysis is ordered with no text of it behind, or the worker
  is at it, or its present text was analysed and, if the project unit knows the
  file, shown.
  When nothing is on its way, only the last is left. And each step that is not the
  editor's leaves fewer deadlines, or as many and fewer messages to analyse, or as
  many and fewer requests, or brings the worker back to wait (`ComesToRest`).

The assumption is `LanguageServerAssumption`; that the editor is `Patient` is
needed by the theorems that name it, because a file opened, closed and
opened again overtakes in one queue what it left in the other.

`LiveSessionProofs`, for any parameters, values, scheduled writes and number of
calls, in both sessions, whatever fails:

* `TypeCorrect`, from `TInv`: with the types, what each phase of a transient
  implies about its instants, its split and its lists.
* `OneTrace` - from `StitchInv`: the segments already kept are the trace up to
  the segment's begin, and the points of the open segment are those from its
  begin (or the start of recording) to the present point. `StitchEnd` is the
  arithmetic of the seam, where one point is dropped.
* `EachLandsOnce` - from `LandInv`: every write of the plan has landed, waits in
  the solver of this segment, or is scheduled for later, none of them twice; what
  landed is in the order of time and not after what is left to do. The segment
  end and the split each hand over one list to another, and `LandInv` says for
  each phase which instants the lists still cover.
* `RestartsWarm` - from `WarmInv`: voltages carried are those of the split's
  instant once the split is past, and while the split's writes are being made
  either they are already or one that needs a rebuild is still to come: this is
  why a segment is split only at an instant with such a write.
* `ToldIsKept` - from `SureInv`, for every parameter that is not `unsure`: design
  and ledger together give the readings (`LedgerRight`), which are what it was
  told (`MeantRight`) and what the circuit computes with (`ReadRight`). Within a
  segment the circuit is ahead of the ledger, which learns of writes when the
  segment is solved: `Landing` says that the circuit then holds what landed last,
  and `SegmentTold` that the last one noted is the last one that landed unless
  the writes crossed.

The assumption is `SessionAssumption`.

Only model-checked: liveness (`Terminates`, `RunsEnd`, `Ends`, `Converges`,
`CommandsEnd`), which the prover cannot do. What is proved is the half that needs
no fairness, that something finite shrinks with every step: `RunsGetOn`,
`EvaluationsGetOn`, `SearchRunsOut`, `LeftAloneItRests` with `QuietMeansCurrent`, and
`CommandsRunOut`; that the next step is taken, which is the part fairness plays, and
the induction over these orders, are left to TLC. Also of `DigitalScheduler`
`OnlyLoopsGiveUp` for circuits that have a loop somewhere (a loop that settles just
before the cap leaves the cap to what hangs behind it, so that it is true of a
circuit and its `MaxDelta`, not of all), and `OutputsCatchUp` for
devices with a delay, whose events outlive the call that numbered them.

## What is not modelled

Floating point: truncation errors, tolerances and matrices appear as verdicts.
This is most of the solver by volume: the small-signal, noise, distortion and
periodic analyses are linear algebra over a solved operating point.

Translation: lexer, parser, elaborator, type checker, constant evaluator and the
kernel compiler - more than half of the repository - are sequential functions
of their input, without state that outlives a call. What could go wrong in
them is in the values they compute for each construct, and a model would repeat
them construct by construct; tests compare them with an interpreter.

The operating point (`dc.rs`): a ladder of attempts whose outcome is a verdict of
Newton, and an alternation with the digital side that stops silently at its
cap. The time loop starts from its verdict.

Of the time loop: the UIC clamps, re-entry from a recorded point, probe selection
and statistics. Of the scheduler: multi-bit payloads and net labels. Of the
event queue: what rollback leaves in it, since every prediction builds a new
one. Of analog devices: the state of the time operators. Fusion: its networks
replace devices whose kernels the models abstract already. Of the session:
hooks, results, the counter of rebuilds, bounds checking of plugin devices,
devices of a plugin. Of the language server: the answers themselves, and
shutdown. Of the resolver: releases of plugins, and the text of files.

## Plan

1. `OperatingPoint` (homotopy ladder, alternation with the digital side and its
   silent cap) and re-entry of a transient from a recorded point.
2. `AnalogOperators`: `delay`, `transition`, `slew`, `@timer` and crossing
   detectors over accepted and rejected steps, on top of `Discontinuities`.
3. An abstract digital contract (outputs follow inputs at every instant) that
   `DigitalScheduler` implements, for devices without delay, and fusion as a
   second implementation of it.
4. Proofs: `OutputsCatchUp` for devices with a delay, from an invariant about the
   last event of each net.
