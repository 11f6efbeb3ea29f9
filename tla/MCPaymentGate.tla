---------------------------- MODULE MCPaymentGate ----------------------------
(* Instances of PaymentGate for TLC.                                         *)
EXTENDS PaymentGate, TLC

CONSTANTS v1, v2, s1, w1, w2, w3, w4, disk, memory

TwoVerifications == {v1, v2}

\* Two workers share a FileReplayStore, one has a MemoryReplayStore, one has none.
FourWorkers == {w1, w2, w3, w4}
StoreOfMC ==
  [w \in Workers |-> IF w \in {w1, w2} THEN disk ELSE IF w = w3 THEN memory ELSE NoStore]

=============================================================================
