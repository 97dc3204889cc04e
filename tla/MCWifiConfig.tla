---------------------------- MODULE MCWifiConfig ----------------------------
(* Instances of WifiConfig for TLC. *)
EXTENDS WifiConfig, TLC
=============================================================================
