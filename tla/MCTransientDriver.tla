-------------------------- MODULE MCTransientDriver --------------------------
(* Instances of TransientDriver for TLC. *)
EXTENDS TransientClaims

\* A clock that rises at 4, falls at 5 and rises at 9, each edge scheduled by
\* the one before. Accept hooks may raise it at 6 and at 7; delta cycles that the
\* first starts do not settle, nor do those of the event that follows the second.
MCEvents == {"up", "down", "kick", "cross", "burst", "again"}
MCTime   == [up |-> 4, down |-> 5, kick |-> 6, cross |-> 7, burst |-> 8, again |-> 9]
MCVal    == [up |-> 1, down |-> 0, kick |-> 1, cross |-> 1, burst |-> 0, again |-> 1]
MCFollow == [e \in MCEvents |-> CASE e = "up"    -> {"down"}
                                 [] e = "down"  -> {"again"}
                                 [] e = "cross" -> {"burst"}
                                 [] OTHER       -> {}]

\* Writes of every strength: one that needs a rebuild at the start, where it is
\* dropped, one that is refused at the last edge, two at one instant that move
\* the operating point, and one that only restamps.
MCSetTime  == <<0, 9, 3, 3, 6>>
MCSetParam == <<"w", "g", "r", "r", "s">>
MCSetValue == <<1, 1, 0, 1, 1>>
MCStrength == [r |-> "op", g |-> "invalid", w |-> "rebuild", s |-> "restamp"]
MCNoSets     == <<>>

\* The parameters no write ever changes start with one value each.
MCGiven == {p \in [{"r", "g", "w", "s"} -> {0, 1}] : p["g"] = 0 /\ p["w"] = 0}
=============================================================================
