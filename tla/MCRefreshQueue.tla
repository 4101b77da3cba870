--------------------------- MODULE MCRefreshQueue ---------------------------
(***************************************************************************)
(* Small instances of RefreshQueue: a catalog and one member.              *)
(***************************************************************************)
EXTENDS RefreshQueue
=============================================================================
