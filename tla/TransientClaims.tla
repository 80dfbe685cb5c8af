-------------------------- MODULE TransientClaims --------------------------
(***************************************************************************)
(* What the comments and the specification of the transient analysis say of *)
(* its time loop and the code does not do.  Each claim is refuted by a run  *)
(* of its own; the README says what the counterexample shows.               *)
(***************************************************************************)
EXTENDS TransientDriver

\* transient.rs:743 "phase 1 reads x_n at view(1)": whatever step a Newton row
\* is a stage of, it was integrated from the point that step starts at.  The
\* second solve of a step closed by an operating-point write is not.
StagesStartAtStepStart ==
  Settled => \A k \in 0..3 :
    hist[k].stage \in {"gamma", "end"} => hist[k].base = hist[k].from

\* transient.rs:889 "so a rejected attempt restores to the last accepted state":
\* the analog body is solved with the register values of the state it is in.
\* A retry short of an edge still reads the mirror the rejected one wrote.
AnalogReadsCurrentRegisters == pc = "decide" => mirror = regs.edges
=============================================================================
