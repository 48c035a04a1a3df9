------------------------- MODULE MCSignalingClients -------------------------
(* Small instances of SignalingClients.                                      *)
EXTENDS SignalingClients, TLC

MCSymmetry == Permutations(Conn) \cup Permutations(Client)
=============================================================================
