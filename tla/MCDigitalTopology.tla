--------------------------- MODULE MCDigitalTopology ---------------------------
(* Small circuits for DigitalTopology. *)
EXTENDS DigitalTopology

\* Every device drives a net of its own.
OwnNet == [i \in 1..N |-> i]

\* Bound: device 1 may read its own net, the others do not (adj leaves such an
\* edge out whoever has it).
MCInit == Init /\ \A j \in 2..N : j \notin reads[j]
MCSpec == MCInit /\ [][Next]_vars /\ WF_vars(Next)
=============================================================================
