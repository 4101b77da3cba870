------------------------ MODULE MCRefreshLifecycle ------------------------
(* Instances of RefreshLifecycle for TLC: the cfg files choose the bounds. *)
EXTENDS RefreshLifecycle
=============================================================================
