----------------------------- MODULE MCLiveSession -----------------------------
(* A session with a resistance, two optional parameters, one of which takes a   *)
(* node away and one adds one, and a parameter only the elaboration knows.      *)
EXTENDS LiveSession

MCInitDesign == [p \in Params |-> IF p \in Optional THEN Absent ELSE 1]
MCWrites == {<<"r", 2>>, <<"r", 3>>, <<"ns", 1>>, <<"rs", 1>>, <<"rs", 2>>, <<"m", 2>>}
MCNetsOf == [S \in SUBSET Optional |->
               {"a"} \cup (IF "ns" \in S THEN {} ELSE {"b"})
                     \cup (IF "rs" \in S THEN {"c"} ELSE {})]
===============================================================================
