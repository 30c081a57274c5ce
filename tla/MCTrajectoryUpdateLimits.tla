----------------------- MODULE MCTrajectoryUpdateLimits -----------------------
(* A joint at rest that is sent far away. *)
EXTENDS TrajectoryUpdate

MCCurrents == {[pos |-> <<0, 0>>, vel |-> <<0, 0>>]}
MCGoals == {<<6>>}
===============================================================================
