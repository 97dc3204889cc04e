-------------------------- MODULE MCCharacteristics --------------------------
(* Instances of Characteristics for TLC. *)
EXTENDS Characteristics, TLC
=============================================================================
