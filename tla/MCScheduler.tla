----------------------------- MODULE MCScheduler -----------------------------
(* Instances of StreamScheduler for TLC.                                   *)
EXTENDS StreamScheduler, TLC

CONSTANTS f1, f2, h1, h2, h3, w1, w2, r1, r2

(* Every handle on one file.                                               *)
OneFile == [h \in Handles |-> f1]
(* h2 on a second file, the others on the first.                           *)
TwoFiles == [h \in Handles |-> IF h = h2 THEN f2 ELSE f1]

(* Schedules of the buffer: both chunks, chunk 1, or nothing.              *)
BothPlan == {{<<1, Near>>, <<2, Near>>}}
ChunkOnePlan == {{<<1, Near>>}}
NoPlan == {}

(* The two files of TwoFiles, each with its handle, exchanged.             *)
SwapFiles ==
  [v \in {f1, f2, h1, h2} |->
     CASE v = f1 -> f2 [] v = f2 -> f1 [] v = h1 -> h2 [] v = h2 -> h1]

SymSessions == Permutations(Workers) \cup {SwapFiles}
=============================================================================
