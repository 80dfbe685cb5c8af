----------------------------- MODULE DigitalClaims -----------------------------
(***************************************************************************)
(* What the documentation says of the digital scheduler and the code does   *)
(* not do, each with the smallest circuit that shows it.                    *)
(***************************************************************************)
EXTENDS MCDigitalScheduler

\* A constant and its inverse.
ConstKind    == <<"one", "inv">>
ConstIn      == << <<>>, <<"k">> >>
ConstOut     == <<"k", "y">>
ConstDelay   == <<0, 0>>
ConstOrder   == <<1, 2>>
ConstStimuli == {{}}

\* init_digital leaves every gate at its power-on value (core/circuit.rs:237),
\* however often it is called: the session calls it and the transient again.
PowerOnSettles ==
  Settled /\ now = 0 => \A d \in Devices : nets[Out[d]] = Drive(d, nets, regs)

\* A divider: a flop that toggles and a flop clocked by it.
RippleKind    == <<"dff", "inv", "dff">>
RippleIn      == << <<"clk", "qb">>, <<"q1">>, <<"q1", "d">> >>
RippleOut     == <<"q1", "qb", "q2">>
RippleDelay   == <<0, 0, 0>>
RippleOrder   == <<1, 3, 2>>
RippleBack    == {<<3, 1>>}
RippleStimuli == {{Ev(1, "clk", "0", 0), Ev(1, "d", "1", 1), Ev(2, "clk", "1", 2)}}

\* A clock made by a flop or a gate is an edge like any other: a change at the
\* same time triggers another iteration (part_vii_solver.md 4.3).
DerivedClockIsSeen == EdgesSeen
=============================================================================
