-------------------------- MODULE MCResidentDevice --------------------------
(***************************************************************************)
(* ResidentDeviceEnv for TLC; streams are interchangeable.                 *)
(***************************************************************************)
EXTENDS ResidentDeviceEnv, TLC

Symmetry == Permutations(Streams)
=============================================================================
