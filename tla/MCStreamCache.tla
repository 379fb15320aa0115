--------------------------- MODULE MCStreamCache ----------------------------
(* StreamCache for TLC: slices of up to MaxChunk bytes of two values, and   *)
(* a cache that starts with MaxBytesSize bytes and may grow to CapBound.    *)
EXTENDS StreamCache

CONSTANTS MaxChunk, CapBound

MCByte == {0, 1}
MCChunks == UNION {[1 .. n -> MCByte] : n \in 0 .. MaxChunk}
MCCounts == 0 .. CapBound

MCNext == StreamNext /\ stream'.cap <= CapBound

MCSpec == StreamInit /\ [][MCNext]_streamVars
=============================================================================
