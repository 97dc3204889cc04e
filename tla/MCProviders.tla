----------------------------- MODULE MCProviders -----------------------------
(* Instances of Providers for TLC. *)
EXTENDS Providers, TLC
=============================================================================
