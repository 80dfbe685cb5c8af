----------------------------- MODULE SessionClaims -----------------------------
(* What the source says of a session and the code does not do. *)
EXTENDS MCLiveSession

\* A value write is mirrored into the build info (live.rs:252, session/build.rs:63):
\* results are read with the values the circuit ran with.
ReadAsRun == run.pc = "idle" => live.info = live.circuit
===============================================================================
