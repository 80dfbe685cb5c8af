--------------------------- MODULE Discontinuities ---------------------------
(***************************************************************************)
(* What happens at declared instants of a transient run: the events of the  *)
(* digital scheduler and the parameter writes the host scheduled.  Shared   *)
(* by the time loop (TransientDriver) and by what it promises               *)
(* (TransientPromise).  Time is counted in ticks.                           *)
(*                                                                          *)
(* One digital net is driven by the events DEvents and clocks one flip-flop *)
(* that counts the rising edges it latches; the nets of DigitalState are    *)
(* thus the set of events applied so far.                                   *)
(***************************************************************************)
EXTENDS Integers, FiniteSets

CONSTANTS
  Start,                       \* options.start_time
  DEvents, DTime, DVal,        \* digital events: their time and net value
  Boot,                        \* events in the queue when the run starts
  Follow,                      \* events a device emits when e is applied
  Hook,                        \* events an accept hook (A2D) may emit
  Unstable,                    \* events whose delta cycles do not settle
  SetIds, SetTime, SetParam, SetValue,  \* scheduled writes, by push order
  Param, Value, Strength       \* parameters; what set_param reports

\* Digital events due by the start are consumed before the loop (begin_run);
\* an event follows the one that causes it by a positive delay.
ASSUME EventAssumption ==
  /\ Start \in Nat
  /\ IsFiniteSet(DEvents)
  /\ DTime \in [DEvents -> Nat] /\ DVal \in [DEvents -> {0, 1}]
  /\ Boot \subseteq DEvents /\ Hook \subseteq DEvents /\ Unstable \subseteq DEvents
  /\ Follow \in [DEvents -> SUBSET DEvents]
  /\ \A e \in DEvents : DTime[e] > Start
  /\ \A e, f \in DEvents : DTime[e] = DTime[f] => e = f
  /\ \A e \in DEvents : \A f \in Follow[e] : DTime[f] > DTime[e] /\ f \notin Hook
  /\ Hook \cap Boot = {}

ASSUME SetAssumption ==
  /\ SetIds \subseteq Nat /\ IsFiniteSet(SetIds)
  /\ SetTime \in [SetIds -> Nat] /\ SetParam \in [SetIds -> Param]
  /\ SetValue \in [SetIds -> Value]
  /\ Strength \in [Param -> {"restamp", "op", "rebuild", "invalid"}]

-----------------------------------------------------------------------------
(* The digital side (digital/state.rs, digital/scheduler.rs).               *)

Digital == [pending : SUBSET DEvents, applied : SUBSET DEvents]

Due(d, t) == {e \in d.pending : DTime[e] <= t}

Latest(A) == CHOOSE e \in A : \A f \in A : DTime[f] <= DTime[e]

\* The value of the net: the event applied last decides it.
Net(A) == IF A = {} THEN 0 ELSE DVal[Latest(A)]

\* run_digital_at: everything due is applied before any device runs, and what
\* the devices emit is queued.
RunDigital(d, t) ==
  [pending |-> (d.pending \ Due(d, t)) \cup UNION {Follow[e] : e \in Due(d, t)},
   applied |-> d.applied \cup Due(d, t)]

\* The rising edges of the net over a history of applied events.
Rising(A) == {e \in A : DVal[e] = 1 /\ Net({f \in A : DTime[f] < DTime[e]}) # 1}

\* What the accept hooks of a point at t may add to the queue. What a hook does to
\* the registers of its own device is Sampled in TransientDriver.
HookEvents(t) == {e \in Hook : DTime[e] = t}

Seed(d, hooks) == [d EXCEPT !.pending = @ \cup hooks]

-----------------------------------------------------------------------------
(* The write queue (SetQueue) and set_element_param over a drained batch.    *)

\* (mutant: a write due exactly now is left for the next point)
DueSetsLate(S, t) == {i \in S : SetTime[i] < t}

DueSets(S, t) == {i \in S : SetTime[i] <= t}

\* The batch is written in push order: the first error ends it, and a device
\* that answers Rebuild does not take the value.
Written(I) ==
  {i \in I : /\ Strength[SetParam[i]] \in {"restamp", "op"}
             /\ \A j \in I : j < i => Strength[SetParam[j]] # "invalid"}

\* (mutant: the first write of the batch wins)
WriteFirst(p, I) ==
  [q \in Param |->
     LET writers == {i \in I : SetParam[i] = q}
     IN  IF writers = {} THEN p[q]
         ELSE SetValue[CHOOSE i \in writers : \A j \in writers : j >= i]]

Write(p, I) ==
  [q \in Param |->
     LET writers == {i \in I : SetParam[i] = q}
     IN  IF writers = {} THEN p[q]
         ELSE SetValue[CHOOSE i \in writers : \A j \in writers : j <= i]]

\* Some write of the batch reports one of these strengths.
Reports(I, strengths) == \E i \in I : Strength[SetParam[i]] \in strengths
=============================================================================
