--------------------------- MODULE MCReplication ---------------------------
(* Small instances of Replication.                                          *)
EXTENDS Replication

MCReplica2 == {1, 2}
MCReplica3 == {1, 2, 3}
=============================================================================
