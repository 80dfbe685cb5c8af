---------------------------- MODULE DigitalNetlist ----------------------------
(***************************************************************************)
(* A digital circuit as the scheduler sees it: devices in the order of      *)
(* circuit.devices, each driving one net, and what a device computes.  The  *)
(* compiled devices (device/digital.rs) have no delay; devices written      *)
(* against the element contract may emit after one (digital/interface.rs).  *)
(***************************************************************************)
EXTENDS Integers, Sequences, FiniteSets

CONSTANTS
  Nets,
  Devices,     \* 1..n, the order of circuit.devices
  Kind,        \* what each device computes
  In, Out,     \* boundary(): the nets it reads, in port order; the one it drives
  Delay        \* the delay of its emissions, in ticks

LogicValue == {"0", "1", "X", "Z"}

\* The ports each kind of device has.
Arity == [one |-> 0, buf |-> 1, inv |-> 1, nor |-> 2, dff |-> 2]

ASSUME NetlistAssumption ==
  /\ IsFiniteSet(Nets)
  /\ Devices \subseteq Nat \ {0} /\ IsFiniteSet(Devices)
  /\ Kind \in [Devices -> DOMAIN Arity]
  /\ Out \in [Devices -> Nets] /\ Delay \in [Devices -> Nat]
  /\ DOMAIN In = Devices
  /\ \A d \in Devices : In[d] \in [1..Arity[Kind[d]] -> Nets]

Flops == {d \in Devices : Kind[d] = "dff"}
ClockOf(d) == In[d][1]
DataOf(d)  == In[d][2]

-----------------------------------------------------------------------------
(* What a device computes from the nets and its registers.                  *)

Reg == [q : LogicValue, prev : LogicValue]

\* DigitalInstance::new, before init.
BlankReg == [q |-> "X", prev |-> "X"]

\* init: register power-on values, edge memory seeded from unknown inputs.
PowerOnReg == [q |-> "0", prev |-> "X"]

Not(v) == IF v = "0" THEN "1" ELSE IF v = "1" THEN "0" ELSE "X"

Nor(a, b) ==
  IF "1" \in {a, b} THEN "0" ELSE IF {a, b} = {"0"} THEN "1" ELSE "X"

\* The output of device d (eval_comb_phase).
Drive(d, nets, regs) ==
  LET v(i) == nets[In[d][i]]
  IN  CASE Kind[d] = "one" -> "1"
        [] Kind[d] = "buf" -> v(1)
        [] Kind[d] = "inv" -> Not(v(1))
        [] Kind[d] = "nor" -> Nor(v(1), v(2))
        [] Kind[d] = "dff" -> regs[d].q

\* has_input_on.
Wakes(d, changed) == \E i \in DOMAIN In[d] : In[d][i] \in changed

\* The flops whose clock block fires (eval_seq_phase): anything to 1 is a rise.
Fires(d, nets, regs) ==
  d \in Flops /\ regs[d].prev # "1" /\ nets[ClockOf(d)] = "1"

\* (mutant: the edge memory is not brought up to date)
SeqPhaseLevel(nets, regs, changed) ==
  [d \in Devices |->
     IF d \in Flops /\ Wakes(d, changed) /\ Fires(d, nets, regs)
     THEN [regs[d] EXCEPT !.q = nets[DataOf(d)]] ELSE regs[d]]

\* (mutant: a flop sees what the flop before it just took)
SeqPhaseRacing(nets, regs, changed) ==
  LET early(d) == {c \in Flops \ {d} : Out[c] = DataOf(d) /\ Fires(c, nets, regs)}
      data(d)  == IF early(d) = {} THEN nets[DataOf(d)]
                  ELSE nets[DataOf(CHOOSE c \in early(d) : TRUE)]
  IN  [d \in Devices |->
         IF d \in Flops /\ Wakes(d, changed)
         THEN [q    |-> IF Fires(d, nets, regs) THEN data(d) ELSE regs[d].q,
               prev |-> nets[ClockOf(d)]]
         ELSE regs[d]]

\* seq_phase of every woken device over one snapshot of the nets.
SeqPhase(nets, regs, changed) ==
  [d \in Devices |->
     IF d \in Flops /\ Wakes(d, changed)
     THEN [q    |-> IF Fires(d, nets, regs) THEN nets[DataOf(d)] ELSE regs[d].q,
           prev |-> nets[ClockOf(d)]]
     ELSE regs[d]]
=============================================================================
