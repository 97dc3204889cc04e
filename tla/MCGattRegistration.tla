------------------------- MODULE MCGattRegistration -------------------------
(* Instances of GattRegistration for TLC. *)
EXTENDS GattRegistration, TLC
=============================================================================
