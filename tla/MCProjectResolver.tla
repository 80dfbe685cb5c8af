-------------------------- MODULE MCProjectResolver --------------------------
(* Instances of ProjectResolver for TLC. *)
EXTENDS ProjectResolver

D(p, c) == [pkg |-> p, at |-> c]

\* The newer `a` needs `b`, `b` needs `a`, and a local package needs `b`.
MCNeeds == [d \in Packages \X Commits |->
              CASE d = <<"a", 2>>             -> {D("b", Latest)}
                [] d[1] = "b"                 -> {D("a", 1)}
                [] d[1] = "l"                 -> {D("b", Latest)}
                [] OTHER                      -> {}]
MCDeclared == [a |-> Absent, b |-> Absent, l |-> Latest]
MCAsked    == {D("a", Latest), D("a", 2)}
MCCommits  == [a |-> 2, b |-> 1, l |-> 1]
MCOps      == [cli |-> 2, editor |-> 1]
=============================================================================
