---------------------------- MODULE PaymentWallet ----------------------------
(***************************************************************************)
(* What a caller of a wallet's send may rely on (the PaymentWallet of      *)
(* packages/x402/src/types.ts, and signAndSendTransaction): a call of it   *)
(* moves the money at most once; it resolves only for a transaction that   *)
(* is on the chain; and when it throws nothing is known, not even that a   *)
(* broadcast is not still to come.                                         *)
(***************************************************************************)
EXTENDS Naturals

CONSTANTS Sends   \* the calls of the wallet's sends

VARIABLES
  call,   \* each call: idle, running, resolved, threw, refused
  onChain,  \* its transaction: none, sent, included (as a success or a failure)
  moved   \* how often it moved the money

Init ==
  /\ call = [s \in Sends |-> "idle"]
  /\ onChain = [s \in Sends |-> "none"]
  /\ moved = [s \in Sends |-> 0]

Begin(s) ==
  /\ call[s] = "idle"
  /\ call' = [call EXCEPT ![s] = "running"]
  /\ UNCHANGED <<onChain, moved>>

Broadcast(s) ==
  /\ call[s] \in {"running", "threw"}
  /\ onChain[s] = "none"
  /\ onChain' = [onChain EXCEPT ![s] = "sent"]
  /\ UNCHANGED <<call, moved>>

Include(s) ==
  /\ onChain[s] = "sent"
  /\ onChain' = [onChain EXCEPT ![s] = "included"]
  /\ \E n \in {0, 1} : moved' = [moved EXCEPT ![s] = @ + n]
  /\ UNCHANGED call

Resolve(s) ==
  /\ call[s] = "running"
  /\ onChain[s] = "included"
  /\ call' = [call EXCEPT ![s] = "resolved"]
  /\ UNCHANGED <<onChain, moved>>

Throw(s) ==
  /\ call[s] = "running"
  /\ call' = [call EXCEPT ![s] = "threw"]
  /\ UNCHANGED <<onChain, moved>>

\* A call that is refused outright is never heard of again.
Refuse(s) ==
  /\ call[s] = "idle"
  /\ call' = [call EXCEPT ![s] = "refused"]
  /\ UNCHANGED <<onChain, moved>>

Next == \E s \in Sends : Begin(s) \/ Broadcast(s) \/ Include(s) \/ Resolve(s) \/ Throw(s) \/ Refuse(s)

Spec == Init /\ [][Next]_<<call, onChain, moved>>
=============================================================================
