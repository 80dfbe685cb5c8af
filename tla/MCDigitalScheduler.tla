-------------------------- MODULE MCDigitalScheduler --------------------------
(* Circuits for DigitalScheduler. *)
EXTENDS DigitalScheduler

Ev(t, k, v, s) == [time |-> t, net |-> k, value |-> v, seq |-> s]

\* Three circuits in one. A two-stage shift register (3, 4), a gate on both
\* stages and a delayed inverter of it, listed against the direction of the
\* signals; a latch of two gates (5, 6); and a ring of three that oscillates
\* while its enable is 0 (7, 8, 9): back edges settle the latch and give up on
\* the ring.
MCKind  == <<"inv", "nor", "dff", "dff", "nor", "nor", "nor", "inv", "inv">>
MCIn    == << <<"y">>, <<"q2", "q1">>, <<"clk", "q1">>, <<"clk", "d">>,
              <<"r", "qb">>, <<"s", "q">>, <<"en", "y3">>, <<"y1">>, <<"y2">> >>
MCOut   == <<"z", "y", "q2", "q1", "q", "qb", "y1", "y2", "y3">>
MCDelay == [d \in 1..9 |-> IF d = 1 THEN 1 ELSE 0]
MCOrder == <<7, 8, 9, 5, 6, 4, 3, 2, 1>>
MCBack  == {<<5, 4>>, <<3, 1>>}

\* Bound: a behaviour drives the shift register, or the latch and the ring.
PipeStimuli ==
  {{Ev(1, "clk", "0", 0)} \cup S :
     S \in SUBSET {Ev(2, "clk", "1", 1), Ev(3, "clk", "0", 2), Ev(4, "clk", "1", 3),
                   Ev(1, "d", "1", 4), Ev(2, "d", "0", 5), Ev(4, "d", "1", 6)}}
LoopStimuli ==
  {{Ev(1, "en", "1", 0), Ev(1, "r", "0", 1), Ev(1, "s", "1", 2)} \cup S :
     S \in SUBSET {Ev(2, "s", "0", 3), Ev(2, "en", "0", 4), Ev(3, "r", "1", 5),
                   Ev(3, "en", "1", 6), Ev(4, "r", "0", 7), Ev(4, "s", "1", 8)}}
MCStimuli == PipeStimuli \cup LoopStimuli
=============================================================================
