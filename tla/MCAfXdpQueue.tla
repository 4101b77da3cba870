----------------------------- MODULE MCAfXdpQueue -----------------------------
(***************************************************************************)
(* A small instance of AfXdpQueue, with interchangeable frames.            *)
(***************************************************************************)
EXTENDS AfXdpQueue, TLC

FrameSymmetry == Permutations(Frames)
=============================================================================
