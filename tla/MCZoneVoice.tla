----------------------------- MODULE MCZoneVoice -----------------------------
(* Instances of ZoneVoice for TLC. *)
EXTENDS ZoneVoice, TLC
=============================================================================
