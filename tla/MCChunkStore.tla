---------------------------- MODULE MCChunkStore ----------------------------
EXTENDS ChunkStore, TLC

CONSTANTS v1, r1

(* One file of three chunks, the last one short.                           *)
OneVersion == {v1}
ThreeChunks == 0..2
ShortLast == [k \in OneVersion \X ThreeChunks |-> IF k[2] = 2 THEN 1 ELSE 2]
=============================================================================
