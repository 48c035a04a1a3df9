--------------------------- MODULE MCRelayClients ---------------------------
(* Small instances of RelayClients.                                          *)
EXTENDS RelayClients, TLC

MCOp == {[id |-> 1, body |-> "x"], [id |-> 2, body |-> "x"]}
MCSymmetry == Permutations(Conn) \cup Permutations(Client)
=============================================================================
