--------------------------- MODULE MCRobotControl ---------------------------
(* Instances of RobotControl for TLC: calls are interchangeable. *)
EXTENDS RobotControl, TLC

CallSymmetry == Permutations(Calls)
=============================================================================
