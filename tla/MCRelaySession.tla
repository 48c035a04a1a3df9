--------------------------- MODULE MCRelaySession ---------------------------
(* Small instances of RelaySession in which all clients or all rooms are    *)
(* alike.                                                                   *)
EXTENDS RelaySession

MCSymmetry == Permutations(Client) \cup Permutations(Room)
=============================================================================
