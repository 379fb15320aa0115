----------------------------- MODULE MCFreeList -----------------------------
(* FreeList for TLC. *)
EXTENDS FreeList
=============================================================================
