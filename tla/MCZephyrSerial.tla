--------------------------- MODULE MCZephyrSerial ---------------------------
(* Small instances of ZephyrSerial for TLC. *)
EXTENDS ZephyrSerial, TLC

MCCommands == {"CONNECT", "DISCOVER"}
MCLiveCommands == {"DISCOVER", "READ", "WRITE"}

Symmetry == Permutations(Rpcs)
=============================================================================
