---------------------------- MODULE MCMoneyFlows ----------------------------
(* The instance of MoneyFlows for TLC.                                       *)
EXTENDS MoneyFlows, TLC

CONSTANTS s1, k1, k2, payTo, thief

Instruction(program, op, to) == [program |-> program, op |-> op, to |-> to]

\* A payment, a payment that also hands out an approval, and one to someone else.
Transactions ==
  LET payment == Instruction("token", "transfer", payTo)
  IN {{payment}, {payment, Instruction("token", "other", payTo)}, {Instruction("system", "transfer", thief)}}

\* Enough for any send, without CIRC, and with no SOL but for a fee.
Wealth == {[circ |-> 1, sol |-> 2], [circ |-> 0, sol |-> 2], [circ |-> 1, sol |-> 1]}

AnyKind == [s \in Sends |-> Kinds]
=============================================================================
