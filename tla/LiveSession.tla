------------------------------ MODULE LiveSession ------------------------------
(* A compiled session: one circuit, written to and analysed again and again     *)
(* without compiling it anew. There are two, the one of the Rust API            *)
(* (session/entry.rs) and the one of the Python binding (live.rs): they share   *)
(* writes, scheduled writes and the transient that lands them; a write the      *)
(* compiled kernel cannot take is refused by the first (only its sweeps rebuild *)
(* the circuit) and makes the second rebuild it, in the middle of a transient   *)
(* if the write was scheduled.                                                  *)
EXTENDS Integers, Sequences

CONSTANTS
  Params,
  Optional,     \* parameters whose presence the kernel was compiled for
  PomOnly,      \* parameters the elaboration knows and the kernel does not
  InitDesign,   \* the values of the design: Absent, or a number above it
  Writes,       \* bound: the writes <<parameter, value>> that are tried
  NetsOf,       \* the nets of a circuit built with these optional parameters
  MaxTime,      \* bound: stop times; a transient has a point at each instant
  MaxPending,   \* bound: writes scheduled for one transient
  MaxCalls      \* bound: calls of the session

Absent == 0

ASSUME SessionAssumption ==
  /\ Optional \subseteq Params /\ PomOnly \subseteq Params \ Optional
  /\ InitDesign \in [Params -> Nat] /\ Writes \subseteq Params \X (Nat \ {Absent})
  /\ MaxTime \in Nat /\ MaxPending \in Nat /\ MaxCalls \in Nat
  /\ DOMAIN NetsOf = SUBSET Optional

VARIABLES
  host,      \* whose session this is: "rust" or "python"
  live,      \* what it holds, and what it was told
  pending,   \* pending_sets
  last,      \* last_voltages
  run,       \* the transient under way, or how the last one ended
  calls      \* calls so far

vars == <<host, live, pending, last, run, calls>>

Assignment == [Params -> Nat]
Entry == [t : Nat, p : Params, v : Nat, n : Nat]

\* Node voltages by name: those of which nets, and solved when: at an instant of
\* the transient under way, before it, or never.
Before == -1
Never  == -2
Cold   == [nets |-> {}, of |-> Never]
Nets(values) == NetsOf[{p \in Optional : values[p] # Absent}]
Voltages(values, time) == [nets |-> Nets(values), of |-> time]
Earlier(volts) == [volts EXCEPT !.of = IF @ = Never THEN @ ELSE Before]

\* The elements of s that are in S, in their order. (SelectSeq, with a set for a
\* test.)
Among(s, S) ==
  LET kept[i \in 0..Len(s)] ==
        IF i = 0 THEN <<>>
        ELSE IF s[i] \in S THEN Append(kept[i - 1], s[i]) ELSE kept[i - 1]
  IN  kept[Len(s)]
-------------------------------------------------------------------------------
(* Writes.                                                                      *)

\* set_flips_presence: the element does not apply the value but asks for a rebuild.
Flips(l, p) == p \in Optional /\ l.circuit[p] = Absent

\* set_element_param, on a parameter the kernel has and can take. meant is what
\* each parameter was last told to be; unsure is where the session loses track.
Stamped(l, p, v) ==
  [l EXCEPT !.circuit[p] = v, !.meant[p] = v, !.unsure = @ \ {p}]

\* note_applied and mirror_param: the ledger a rebuild replays, and the values
\* results are read with.
Noted(l, p, v) ==
  [l EXCEPT !.info[p] = IF p \in PomOnly THEN @ ELSE v,
            !.dirty = IF host = "python" THEN Append(@, <<p, v>>) ELSE @]

Told(ledger, p, otherwise) ==
  LET at == {i \in DOMAIN ledger : ledger[i][1] = p}
  IN  IF at = {} THEN otherwise
      ELSE ledger[CHOOSE i \in at : \A j \in at : j <= i][2]

\* (mutant: a rebuild starts from the design alone)
ReplayedNone(l, p) == l.design[p]

\* The overrides a rebuild applies to the design: the ledger (Python), what is
\* staged (Rust).
Replayed(l, p) ==
  IF host = "python" THEN Told(l.dirty, p, l.design[p])
  ELSE IF l.staged[p] # Absent THEN l.staged[p] ELSE l.design[p]

\* (mutant: also for nets the new circuit has not)
CarriedWhole(volts, values) == volts

\* The carry of a rebuild: what was solved last, for the nets there still are.
Carried(volts, values) == [volts EXCEPT !.nets = @ \cap Nets(values)]

\* auto_rebuild and Session::rebuild, when the new circuit builds.
Rebuilt(l, p, v) ==
  LET d == [q \in Params |-> IF q = p THEN v ELSE Replayed(l, q)]
  IN  [l EXCEPT !.design = d, !.circuit = d, !.info = d, !.dirty = <<>>,
                !.staged = [q \in Params |-> Absent],
                !.carry = IF host = "python" THEN Carried(last, d) ELSE @,
                !.meant[p] = v, !.unsure = @ \ {p}]

\* When it does not build: Python stages on a fork, Rust on the design it holds.
NotRebuilt(l, p, v) ==
  IF host = "python" THEN l ELSE [l EXCEPT !.staged[p] = v]

Ok(l)      == [live |-> l, ok |-> TRUE]
Refused(l) == [live |-> l, ok |-> FALSE]
Rebuild(l, p, v) == {Ok(Rebuilt(l, p, v)), Refused(NotRebuilt(l, p, v))}

\* The outcomes of `set`, and of set_or_rebuild of a sweep.
SetOutcomes(l, p, v, sweep) ==
  CASE p \in PomOnly -> IF host = "python" THEN Rebuild(l, p, v) ELSE {Refused(l)}
    [] Flips(l, p)   -> IF host = "python" \/ sweep THEN Rebuild(l, p, v) ELSE {Refused(l)}
    [] OTHER         -> {Ok(Noted(Stamped(l, p, v), p, v))}
-------------------------------------------------------------------------------
(* Calls between transients.                                                    *)

Idle == [pc |-> "idle", result |-> "none", stop |-> 0, start |-> 0,
         scheduled |-> <<>>, seg |-> 0, at |-> 0, split |-> Never, todo |-> <<>>,
         points |-> <<>>, steps |-> <<>>, seeded |-> Never, plan |-> <<>>,
         landed |-> <<>>, refused |-> FALSE, splits |-> {}]

Called == run.pc = "idle" /\ calls < MaxCalls /\ calls' = calls + 1

Set(p, v) ==
  /\ Called
  /\ \E sweep \in BOOLEAN : \E o \in SetOutcomes(live, p, v, sweep) : live' = o.live
  /\ UNCHANGED <<host, pending, last, run>>

\* A point of a dc sweep: the strength the write reports is not looked at.
DcPoint(p, v) ==
  /\ Called /\ p \notin PomOnly
  /\ live' = IF Flips(live, p)
             THEN [Noted(live, p, v) EXCEPT !.unsure = @ \cup {p}]
             ELSE Noted(Stamped(live, p, v), p, v)
  /\ UNCHANGED <<host, pending, last, run>>

\* A sensitivity to p: solved with the value nudged up, then down, then put back.
\* When an operating point fails the call returns and the nudged value stays.
Nudged == 99
Sens(p) ==
  /\ Called /\ p \notin PomOnly /\ ~Flips(live, p)
  /\ \/ UNCHANGED live
     \/ live' = [live EXCEPT !.circuit[p] = Nudged, !.unsure = @ \cup {p}]
  /\ UNCHANGED <<host, pending, last, run>>

\* op of a Python session, when it solves: what was carried has had its use.
Op ==
  /\ Called /\ host = "python"
  /\ last' = Voltages(live.circuit, Before)
  /\ live' = [live EXCEPT !.carry = Cold]
  /\ UNCHANGED <<host, pending, run>>

ScheduleSet(t, p, v) ==
  /\ Called /\ Len(pending) < MaxPending
  /\ pending' = Append(pending, [t |-> t, p |-> p, v |-> v, n |-> Len(pending) + 1])
  /\ UNCHANGED <<host, live, last, run>>
-------------------------------------------------------------------------------
(* tran.                                                                        *)

\* A call with a stop time, recording from `start`, takes the pending writes.
Tran(stop, start) ==
  /\ Called
  /\ run' = [Idle EXCEPT !.pc = "early", !.stop = stop, !.start = start, !.todo = pending]
  /\ pending' = <<>>
  /\ last' = Earlier(last) /\ live' = [live EXCEPT !.carry = Earlier(@)]
  /\ UNCHANGED host

Running == UNCHANGED <<host, pending, calls>>

\* The writes that landed since the segment began have not been noted: a
\* transient that fails leaves them in the circuit alone.
GivesUp(l) ==
  /\ live' = [l EXCEPT !.unsure =
                @ \cup {run.landed[i].p : i \in {j \in DOMAIN run.landed : run.landed[j].t > run.seg}}]
  /\ run' = [Idle EXCEPT !.result = "failed"]

\* A write for 0 is a write before the run.
Early ==
  /\ run.pc = "early" /\ run.todo # <<>>
  /\ LET e == Head(run.todo) IN
     IF e.t = 0
     THEN \E o \in SetOutcomes(live, e.p, e.v, FALSE) :
            IF o.ok THEN live' = o.live /\ run' = [run EXCEPT !.todo = Tail(@)]
            ELSE GivesUp(o.live)
     ELSE /\ run' = [run EXCEPT !.todo = Tail(@), !.scheduled = Append(@, e),
                                !.plan = Append(@, e)]
          /\ UNCHANGED live
  /\ Running /\ UNCHANGED last

\* (mutant: a write at the end of the run is left)
InSegmentHalfOpen(e, seg, stop) == e.t > seg /\ e.t < stop

\* Due after the segment's begin, up to its end.
InSegment(e, seg, stop) == e.t > seg /\ e.t <= stop

\* set_is_structural: only Python asks.
Structural(e) == host = "python" /\ Flips(live, e.p)

Waiting == {run.scheduled[i] : i \in DOMAIN run.scheduled}

\* (mutant: those beyond the stop count too)
SplittersAnywhere == {e.t : e \in {d \in Waiting : Structural(d)}}

\* The instants of this segment that need another circuit.
Splitters ==
  {e.t : e \in {d \in Waiting : InSegment(d, run.seg, run.stop) /\ Structural(d)}}
SegStopAt(split) == IF split = Never THEN run.stop ELSE split

\* The writes the solver of a segment is given: all (Rust), those of the segment
\* but for everything scheduled at the split (Python).
SegSets(split) ==
  IF host = "rust" THEN run.scheduled
  ELSE Among(run.scheduled,
             {e \in Waiting : InSegment(e, run.seg, SegStopAt(split)) /\ e.t # split})

Segment ==
  /\ run.pc \in {"early", "segment"} /\ run.todo = <<>>
  /\ LET split == IF Splitters = {} THEN Never
                  ELSE CHOOSE t \in Splitters : \A u \in Splitters : t <= u
     IN  run' = [run EXCEPT !.pc = "solve", !.at = run.seg, !.split = split,
                   !.todo = SegSets(split),
                   !.points = IF run.start <= run.seg THEN <<run.seg>> ELSE <<>>,
                   !.seeded = live.carry.of]
  /\ Running /\ UNCHANGED <<live, last>>

DueNow == {i \in DOMAIN run.todo : run.todo[i].t = run.at}

\* The writes due at an accepted point, in the order they were scheduled. One that
\* asks for a rebuild is passed over and fails the run when all have been made.
Land ==
  /\ run.pc = "solve" /\ DueNow # {}
  /\ LET e    == run.todo[CHOOSE i \in DueNow : \A j \in DueNow : i <= j]
         rest == Among(run.todo, Waiting \ {e})
     IN  IF e.p \in PomOnly THEN GivesUp(live)
         ELSE IF Flips(live, e.p)
         THEN run' = [run EXCEPT !.todo = rest, !.refused = TRUE] /\ UNCHANGED live
         ELSE /\ live' = Stamped(live, e.p, e.v)
              /\ run' = [run EXCEPT !.todo = rest, !.landed = Append(@, e)]
  /\ Running /\ UNCHANGED last

\* The next point, or none: the solver gives up.
Advance ==
  /\ run.pc = "solve" /\ DueNow = {} /\ ~run.refused /\ run.at < SegStopAt(run.split)
  /\ run' = [run EXCEPT !.at = @ + 1,
                        !.points = IF run.start <= run.at + 1 THEN Append(@, run.at + 1) ELSE @]
  /\ Running /\ UNCHANGED <<live, last>>

SolveFails ==
  /\ run.pc = "solve"
  /\ GivesUp(live)
  /\ Running /\ UNCHANGED last

\* When a segment is solved its writes are noted, as they were scheduled.
NotedAll(l, sets) ==
  LET told == [i \in DOMAIN sets |-> <<sets[i].p, sets[i].v>>]
  IN  [l EXCEPT !.info = [p \in Params |-> IF p \in PomOnly THEN @[p] ELSE Told(told, p, @[p])],
                !.dirty = IF host = "python" THEN @ \o told ELSE @]

\* Those whose last one noted is not the last one that landed: scheduled against
\* the order of time, or for after the stop.
Crossed(sets) ==
  {sets[i].p : i \in {j \in DOMAIN sets :
     \/ sets[j].t > run.stop
     \/ \E k \in 1..(j - 1) : sets[k].p = sets[j].p /\ sets[k].t > sets[j].t}}

\* (mutant: the point where the segments meet is kept twice)
StitchedAll(steps, points) == steps \o points

\* The points of a segment that are after those there are.
Stitched(steps, points) ==
  steps \o Among(points, {t \in 0..MaxTime : steps = <<>> \/ t > steps[Len(steps)]})

SegmentEnd ==
  /\ run.pc = "solve" /\ DueNow = {} /\ ~run.refused /\ run.at = SegStopAt(run.split)
  /\ LET sets     == SegSets(run.split)
         noted    == [NotedAll(live, sets) EXCEPT !.unsure = @ \cup Crossed(sets)]
         recorded == host = "python" /\ run.points # <<>>
     IN  /\ live' = IF recorded THEN [noted EXCEPT !.carry = Cold] ELSE noted
         /\ last' = IF recorded THEN Voltages(live.circuit, run.at) ELSE last
  /\ LET steps == Stitched(run.steps, run.points) IN
     run' = IF run.split = Never
            THEN [Idle EXCEPT !.result = "ok", !.stop = run.stop, !.start = run.start,
                              !.steps = steps, !.plan = run.plan, !.landed = run.landed,
                              !.splits = run.splits]
            ELSE [run EXCEPT !.pc = "split", !.steps = steps, !.splits = @ \cup {run.split},
                             !.todo = Among(run.scheduled, {e \in Waiting : e.t = run.split})]
  /\ Running

\* The writes of the split instant: those that are structural by now are set.
Split ==
  /\ run.pc = "split" /\ run.todo # <<>>
  /\ LET e == Head(run.todo) IN
     IF Structural(e)
     THEN \E o \in SetOutcomes(live, e.p, e.v, FALSE) :
            IF o.ok THEN live' = o.live /\ run' = [run EXCEPT !.todo = Tail(@),
                                                              !.landed = Append(@, e)]
            ELSE live' = o.live /\ run' = [Idle EXCEPT !.result = "failed"]
     ELSE run' = [run EXCEPT !.todo = Tail(@)] /\ UNCHANGED live
  /\ Running /\ UNCHANGED last

Restart ==
  /\ run.pc = "split" /\ run.todo = <<>>
  /\ run' = [run EXCEPT !.pc = "segment", !.seg = run.split,
                        !.scheduled = Among(@, {e \in Waiting : e.t > run.split})]
  /\ Running /\ UNCHANGED <<live, last>>

Init ==
  /\ host \in {"rust", "python"}
  /\ live = [design |-> InitDesign, staged |-> [p \in Params |-> Absent],
             circuit |-> InitDesign, info |-> InitDesign, dirty |-> <<>>, carry |-> Cold,
             meant |-> InitDesign, unsure |-> {}]
  /\ pending = <<>> /\ last = Cold /\ run = Idle /\ calls = 0

Call ==
  \/ \E w \in Writes : Set(w[1], w[2]) \/ DcPoint(w[1], w[2])
  \/ \E w \in Writes, t \in 0..MaxTime : ScheduleSet(t, w[1], w[2])
  \/ \E p \in Params : Sens(p)
  \/ Op
  \/ \E stop \in 1..MaxTime, start \in 0..MaxTime : Tran(stop, start)

Next == Call \/ Early \/ Segment \/ Land \/ Advance \/ SolveFails \/ SegmentEnd
             \/ Split \/ Restart

Spec == Init /\ [][Next]_vars
-------------------------------------------------------------------------------
(* Properties.                                                                  *)

\* The types of the session and of the transient, whose clock never passes its stop.
TypeOK ==
  /\ host \in {"rust", "python"} /\ calls \in 0..MaxCalls
  /\ \A field \in {"design", "staged", "circuit", "info", "meant"} : live[field] \in Assignment
  /\ live.dirty \in Seq(Params \X Nat) /\ live.unsure \subseteq Params
  /\ pending \in Seq(Entry) /\ Len(pending) <= MaxPending
  /\ \A volts \in {last, live.carry} :
       volts.nets \subseteq UNION {NetsOf[S] : S \in SUBSET Optional}
       /\ volts.of \in {Never, Before} \cup 0..MaxTime
  /\ run.pc \in {"idle", "early", "segment", "solve", "split"}
  /\ run.result \in {"none", "ok", "failed"} /\ run.start \in 0..MaxTime
  /\ run.seg <= run.at /\ run.at <= run.stop /\ run.stop <= MaxTime

\* A session that is told a value keeps it: between transients the circuit runs
\* with, and results are read with, what each parameter was last told to be, and
\* no rebuild, none in the middle of a transient either, takes an earlier write
\* back. Not so (unsure) after a transient that failed with writes landed, for
\* writes scheduled against the order of time or (Rust) for after the stop, for a dc
\* sweep of an optional parameter that is not there, and for a sensitivity that
\* failed half way; a Rust session promises it of the readings only.
WritesSurvive ==
  run.pc = "idle" => \A p \in Params \ live.unsure :
    /\ live.info[p] = live.circuit[p]
    /\ host = "python" => live.circuit[p] = live.meant[p]

\* A transient that succeeds lands every scheduled write once, at its instant and
\* in the order of time; of several at an instant that splits the run only the
\* structural ones are sure to.
LandedOnce ==
  run.result = "ok" =>
    /\ \A i \in DOMAIN run.plan :
         run.plan[i].t <= run.stop /\ run.plan[i].t \notin run.splits =>
           \E k \in DOMAIN run.landed : \A j \in DOMAIN run.landed :
             run.landed[j] = run.plan[i] <=> j = k
    /\ \A j, k \in DOMAIN run.landed : j < k =>
         LET a == run.landed[j]
             b == run.landed[k]
         IN  a.t < b.t \/ (a.t = b.t /\ a.n < b.n)
    /\ \A t \in run.splits : \E j \in DOMAIN run.landed : run.landed[j].t = t

\* A transient that a structural write splits goes on from the state it had
\* reached (when points were recorded there), and voltages carried to a new
\* circuit are those of nets it has.
WarmStart ==
  /\ live.carry.nets \subseteq Nets(live.circuit)
  /\ run.pc = "solve" /\ run.seg > 0 /\ run.start <= run.seg => run.seeded = run.seg

\* The recorded segments make one trace: each instant from the start of recording
\* to the stop, once and in order.
Stitches ==
  run.result = "ok" =>
    run.steps = [i \in 1..(IF run.start > run.stop THEN 0 ELSE run.stop - run.start + 1)
                   |-> run.start + i - 1]
===============================================================================
