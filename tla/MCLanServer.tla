---------------------------- MODULE MCLanServer ----------------------------
(* Instances of LanServer for TLC: connections are interchangeable. *)
EXTENDS LanServer, TLC

ConnSymmetry == Permutations(Conns)
=============================================================================
