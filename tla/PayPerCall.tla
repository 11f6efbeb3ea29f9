----------------------------- MODULE PayPerCall -----------------------------
(***************************************************************************)
(* What the x402 client promises the owner of the wallet, whatever the     *)
(* endpoint answers and however the wallet and the chain behave: each call *)
(* commits to at most one payment, a permitted one, while it is open; only *)
(* a committed payment is ever settled, at most once; and a call that      *)
(* closed commits to nothing any more, although a payment it committed to  *)
(* before may still settle.                                                *)
(***************************************************************************)
CONSTANTS
  Calls,       \* the calls made by the application
  Permitted,   \* the payments the owner's limits allow
  NoPayment    \* no payment committed

VARIABLES
  commitment,  \* the payment each call committed to
  settled,     \* the calls whose payment settled
  closed       \* the calls the application got an answer or an error for

Init ==
  /\ commitment = [c \in Calls |-> NoPayment]
  /\ settled = {}
  /\ closed = {}

Commit(c) ==
  /\ c \notin closed
  /\ commitment[c] = NoPayment
  /\ \E p \in Permitted : commitment' = [commitment EXCEPT ![c] = p]
  /\ UNCHANGED <<settled, closed>>

Settle(c) ==
  /\ commitment[c] # NoPayment
  /\ c \notin settled
  /\ settled' = settled \cup {c}
  /\ UNCHANGED <<commitment, closed>>

Close(c) ==
  /\ c \notin closed
  /\ closed' = closed \cup {c}
  /\ UNCHANGED <<commitment, settled>>

Next == \E c \in Calls : Commit(c) \/ Settle(c) \/ Close(c)

Spec == Init /\ [][Next]_<<commitment, settled, closed>>
=============================================================================
