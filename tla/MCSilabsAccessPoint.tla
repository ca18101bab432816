------------------------ MODULE MCSilabsAccessPoint ------------------------
(* Small instances of SilabsAccessPoint for TLC. *)
EXTENDS SilabsAccessPoint, TLC

CONSTANTS m1, m2

(* The clients of the second device only connect and disconnect.           *)
MCRequests == (AllOps \X {m1}) \cup ({"CONNECT", "DISCONNECT"} \X {m2})
=============================================================================
