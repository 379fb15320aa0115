---------------------------- MODULE MCOnloadRing ----------------------------
(* OnloadRing for TLC: seven buffers and batches of two, so that batches    *)
(* divide neither the ring nor the pool evenly.                             *)
EXTENDS OnloadRing
=============================================================================
