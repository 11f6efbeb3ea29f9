------------------------------- MODULE Clock -------------------------------
(* The clock that the parts deciding by time share: one instant per step of  *)
(* Tick, up to a bound.                                                      *)
EXTENDS Integers

CONSTANT
  MaxTime       \* bound: the last instant

VARIABLE
  clock         \* Date.now()

ASSUME TimeAssumption == MaxTime \in Nat \ {0}

Times == 0..MaxTime

Tick ==
  /\ clock < MaxTime
  /\ clock' = clock + 1
=============================================================================
