---------------------------- MODULE MCX402System ----------------------------
(* Instances of X402System for TLC.                                          *)
EXTENDS X402System

CONSTANTS c1, w1, w2, w3, disk, memory

\* Two workers share a FileReplayStore; one has a MemoryReplayStore, as docs/x402.md shows.
ThreeWorkers == {w1, w2, w3}
StoreOfMC == [w \in Workers |-> IF w = w3 THEN memory ELSE disk]
=============================================================================
