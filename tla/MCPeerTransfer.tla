--------------------------- MODULE MCPeerTransfer ---------------------------
(***************************************************************************)
(* Two snapshots of three and two chunks.                                 *)
(***************************************************************************)
EXTENDS SnapshotChunks

MCTotal == <<3, 2>>
=============================================================================
