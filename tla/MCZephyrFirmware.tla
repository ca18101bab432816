-------------------------- MODULE MCZephyrFirmware --------------------------
(* Small instances of ZephyrFirmware for TLC. *)
EXTENDS ZephyrFirmware, TLC

Symmetry == Permutations(Macs)
=============================================================================
