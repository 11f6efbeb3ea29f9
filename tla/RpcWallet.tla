----------------------------- MODULE RpcWallet -----------------------------
(***************************************************************************)
(* The sends of a Wallet (packages/wallet/src/wallet.ts): sendCirc,        *)
(* sendToken, sendSol, swap and signAndSendTransaction, over a list of RPC *)
(* connections tried one after the other.  An attempt that timed out goes  *)
(* on in the background: its request may reach the node at any later time, *)
(* also after the send has thrown.                                         *)
(*                                                                         *)
(* The four self-made kinds broadcast and confirm within one attempt, so   *)
(* that a confirmation that times out sends the same bytes again over the  *)
(* next connection; a transaction a server built is broadcast by one round *)
(* over the connections and confirmed by another.                          *)
(***************************************************************************)
EXTENDS Naturals, FiniteSets

CONSTANTS
  Sends,          \* the calls of the wallet's sends
  N,              \* number of RPC connections
  Purses,         \* what the wallet may hold at first
  Payees,         \* the accounts a transfer can go to
  ServerBuilt     \* the sets of instructions a server may ask the wallet to sign

Assets == {"circ", "sol"}
Connections == 1..N
Kinds == {"circ", "token", "sol", "swap", "server"}

ASSUME WalletAssumption ==
  /\ N \in Nat \ {0}
  /\ Purses \subseteq [Assets -> Nat]

\* What a send of each kind takes from the wallet, the fee (in SOL) included; one
\* that is included as failed costs the fee.
Cost == [circ   |-> [circ |-> 1, sol |-> 1],
         token  |-> [circ |-> 0, sol |-> 1],
         sol    |-> [circ |-> 0, sol |-> 2],
         swap   |-> [circ |-> 1, sol |-> 1],
         server |-> [circ |-> 1, sol |-> 1]]
Fee == [circ |-> 0, sol |-> 1]

VARIABLES
  kind,      \* the kind of each send
  at,        \* where it stands
  conn,      \* the connection of its current attempt
  reaching,  \* the connections that still carry a sendRawTransaction of it
  tx,        \* its transactions, by signature, as the chain sees them
  outcome,   \* how it ended
  funds,     \* the wallet's balances
  missed     \* history: an answer about a broadcast of it was late or lost

walletVars == <<kind, at, conn, reaching, tx, outcome, funds, missed>>
chain == <<tx, funds>>

Stages == {"idle", "preparing", "sending", "confirming", "probingCirc", "probingSol", "ended"}
Outcomes == {"none", "resolved", "refused", "unconfirmed", "insufficient", "failed"}
\* A transaction the nodes never saw can go stale, one they saw can be dropped:
\* its blockhash is too old to be included any more.
OnChain == {"none", "signed", "known", "landed", "failed", "stale", "dropped"}

WalletTypeOK ==
  /\ kind \in [Sends -> Kinds]
  /\ at \in [Sends -> Stages]
  /\ conn \in [Sends -> Connections]
  /\ reaching \in [Sends -> SUBSET Connections]
  /\ tx \in [Sends -> [Connections -> OnChain]]
  /\ outcome \in [Sends -> Outcomes]
  /\ funds \in [Assets -> Nat]
  /\ missed \in [Sends -> BOOLEAN]

WalletInit ==
  /\ kind = [s \in Sends |-> "circ"]
  /\ at = [s \in Sends |-> "idle"]
  /\ conn = [s \in Sends |-> 1]
  /\ reaching = [s \in Sends |-> {}]
  /\ tx = [s \in Sends |-> [i \in Connections |-> "none"]]
  /\ outcome = [s \in Sends |-> "none"]
  /\ funds \in Purses
  /\ missed = [s \in Sends |-> FALSE]

-----------------------------------------------------------------------------
(* Signing.                                                                *)

\* Mutant of SignatureOf: each attempt fetches a blockhash and signs anew.
SignatureOfAttempt(k) == k

\* The signature of the bytes the k-th attempt sends: they are signed once, before
\* the first attempt (the remark above sendSigned).
SignatureOf(k) == 1

\* An instruction names its program, what it does and whom it pays.
Programs == {"system", "token", "ata", "computeBudget", "other"}
Instructions == [program : Programs, op : {"transfer", "other"}, to : Payees]
ASSUME ServerBuiltAssumption == ServerBuilt \subseteq SUBSET Instructions

\* assertSafePayment, for one instruction, when the recipient is pinned.
SafeInstruction(ix, payee) ==
  /\ ix.program # "other"
  /\ ix.program \in {"system", "token"} => ix.op = "transfer" /\ ix.to = payee

-----------------------------------------------------------------------------
(* Moving a send along.                                                    *)

Affordable(s) == \A a \in Assets : funds[a] >= Cost[kind[s]][a]
Less(cost) == [a \in Assets |-> funds[a] - cost[a]]
SelfMade(s) == kind[s] # "server"
Explained(s) == kind[s] \in {"circ", "sol"}

\* The transaction is signed and given to the first connection.
FirstAttempt(s) ==
  /\ at' = [at EXCEPT ![s] = "sending"]
  /\ conn' = [conn EXCEPT ![s] = 1]
  /\ reaching' = [reaching EXCEPT ![s] = {1}]
  /\ tx' = [tx EXCEPT ![s][SignatureOf(1)] = "signed"]

\* The send throws.  sendCirc and sendSol first read balances to explain it.
Throw(s) ==
  IF Explained(s)
  THEN /\ at' = [at EXCEPT ![s] = IF kind[s] = "circ" THEN "probingCirc" ELSE "probingSol"]
       /\ UNCHANGED outcome
  ELSE /\ at' = [at EXCEPT ![s] = "ended"]
       /\ outcome' = [outcome EXCEPT ![s] = "failed"]

Finish(s, result) ==
  /\ at' = [at EXCEPT ![s] = "ended"]
  /\ outcome' = [outcome EXCEPT ![s] = result]

\* withRpc after a rate limit or a timeout: the same bytes go to the next connection,
\* and after the last one the last error is thrown.  carried: what is still under way.
Advance(s, carried) ==
  IF conn[s] < N
  THEN /\ conn' = [conn EXCEPT ![s] = @ + 1]
       /\ at' = [at EXCEPT ![s] = "sending"]
       /\ reaching' = [reaching EXCEPT ![s] = carried \cup {conn[s] + 1}]
       /\ tx' = [tx EXCEPT ![s][SignatureOf(conn[s] + 1)] = IF @ = "none" THEN "signed" ELSE @]
       /\ UNCHANGED outcome
  ELSE /\ Throw(s)
       /\ reaching' = [reaching EXCEPT ![s] = carried]
       /\ UNCHANGED <<conn, tx>>

-----------------------------------------------------------------------------
(* The sends.                                                              *)

\* sendCirc, sendToken, sendSol ask for a blockhash, swap for a quote and for the
\* transaction that trades on it.
Prepare(s, k) ==
  /\ at[s] = "idle"
  /\ kind' = [kind EXCEPT ![s] = k]
  /\ at' = [at EXCEPT ![s] = "preparing"]
  /\ UNCHANGED <<conn, reaching, tx, outcome, funds, missed>>

PrepareFails(s) ==
  /\ at[s] = "preparing"
  /\ Throw(s)
  /\ UNCHANGED <<kind, conn, reaching, tx, funds, missed>>

Sign(s) ==
  /\ at[s] = "preparing"
  /\ FirstAttempt(s)
  /\ UNCHANGED <<kind, outcome, funds, missed>>

\* signAndSendTransaction of a set of instructions that should pay one payee.
Countersign(s, instructions, payee) ==
  /\ at[s] = "idle"
  /\ kind' = [kind EXCEPT ![s] = "server"]
  /\ IF \A ix \in instructions : SafeInstruction(ix, payee)
     THEN FirstAttempt(s) /\ UNCHANGED outcome
     ELSE Finish(s, "refused") /\ UNCHANGED <<conn, reaching, tx>>
  /\ UNCHANGED <<funds, missed>>

Waiting(s, k) == at[s] = "sending" /\ conn[s] = k

\* The node takes a transaction it can still include and whose simulation succeeds.
Acceptable(s, k) == tx[s][SignatureOf(k)] \in {"signed", "known"} /\ Affordable(s)

\* A request reaches its node.  Its answer counts when it comes in time for the
\* current attempt: an acceptance is followed by the confirmation, within the
\* same attempt for the self-made kinds, in a round of its own for a server's.
AcceptHeard(s, k) ==
  /\ k \in reaching[s] /\ Waiting(s, k) /\ Acceptable(s, k)
  /\ reaching' = [reaching EXCEPT ![s] = @ \ {k}]
  /\ tx' = [tx EXCEPT ![s][SignatureOf(k)] = "known"]
  /\ at' = [at EXCEPT ![s] = "confirming"]
  /\ conn' = [conn EXCEPT ![s] = IF SelfMade(s) THEN @ ELSE 1]
  /\ UNCHANGED <<kind, outcome, funds, missed>>

AcceptUnheard(s, k) ==
  /\ k \in reaching[s] /\ Acceptable(s, k)
  /\ reaching' = [reaching EXCEPT ![s] = @ \ {k}]
  /\ tx' = [tx EXCEPT ![s][SignatureOf(k)] = "known"]
  /\ missed' = [missed EXCEPT ![s] = TRUE]
  /\ UNCHANGED <<kind, at, conn, outcome, funds>>

\* It refuses one that was processed already, is too old, or cannot be paid for.
RejectHeard(s, k) ==
  /\ k \in reaching[s] /\ Waiting(s, k) /\ ~Acceptable(s, k)
  /\ reaching' = [reaching EXCEPT ![s] = @ \ {k}]
  /\ Throw(s)
  /\ UNCHANGED <<kind, conn, tx, funds, missed>>

RejectUnheard(s, k) ==
  /\ k \in reaching[s] /\ ~Acceptable(s, k)
  /\ reaching' = [reaching EXCEPT ![s] = @ \ {k}]
  /\ UNCHANGED <<kind, at, conn, tx, outcome, funds, missed>>

\* The provider turns the request away before it reaches the node.
RateLimited(s) ==
  /\ at[s] = "sending"
  /\ conn[s] \in reaching[s]
  /\ Advance(s, reaching[s] \ {conn[s]})
  /\ UNCHANGED <<kind, funds, missed>>

\* The attempt takes longer than perTryMs; the request goes on.
TimesOut(s) ==
  /\ at[s] = "sending"
  /\ missed' = [missed EXCEPT ![s] = TRUE]
  /\ Advance(s, reaching[s])
  /\ UNCHANGED <<kind, funds>>

\* Any other error of the connection is thrown at once.
Breaks(s) ==
  /\ at[s] = "sending"
  /\ missed' = [missed EXCEPT ![s] = TRUE]
  /\ Throw(s)
  /\ UNCHANGED <<kind, conn, reaching, tx, funds>>

\* The confirmation arrives; nobody looks at the error it may carry.
Confirmed(s) ==
  /\ at[s] = "confirming"
  /\ \E k \in Connections : tx[s][k] \in {"landed", "failed"}
  /\ Finish(s, "resolved")
  /\ UNCHANGED <<kind, conn, reaching, tx, funds, missed>>

\* Mutant of Unconfirmed: the error is passed on as it is.
UnconfirmedPlain(s) ==
  /\ at[s] = "confirming" /\ ~SelfMade(s)
  /\ Finish(s, "failed")
  /\ UNCHANGED <<kind, conn, reaching, tx, funds, missed>>

\* It does not.  A server's transaction is asked about on the other connections, and
\* then the error that is thrown carries the signature.
AskElsewhere(s) ==
  /\ at[s] = "confirming" /\ ~SelfMade(s)
  /\ conn[s] < N
  /\ conn' = [conn EXCEPT ![s] = @ + 1]
  /\ UNCHANGED <<kind, at, reaching, tx, outcome, funds, missed>>

Unconfirmed(s) ==
  /\ at[s] = "confirming" /\ ~SelfMade(s)
  /\ Finish(s, "unconfirmed")
  /\ UNCHANGED <<kind, conn, reaching, tx, funds, missed>>

\* A self-made one is sent again over the next connection, or given up.
ConfirmTimesOut(s) ==
  /\ at[s] = "confirming" /\ SelfMade(s)
  /\ missed' = [missed EXCEPT ![s] = TRUE]
  /\ Advance(s, reaching[s])
  /\ UNCHANGED <<kind, funds>>

ConfirmBreaks(s) ==
  /\ at[s] = "confirming" /\ SelfMade(s)
  /\ missed' = [missed EXCEPT ![s] = TRUE]
  /\ Throw(s)
  /\ UNCHANGED <<kind, conn, reaching, tx, funds>>

\* classifyFundsError: the balances as they are by now explain the error, or not; a
\* probe that fails leaves it as it was.
ProbeCirc(s) ==
  /\ at[s] = "probingCirc"
  /\ IF funds["circ"] < Cost["circ"]["circ"]
     THEN Finish(s, "insufficient")
     ELSE at' = [at EXCEPT ![s] = "probingSol"] /\ UNCHANGED outcome
  /\ UNCHANGED <<kind, conn, reaching, tx, funds, missed>>

ProbeSol(s) ==
  /\ at[s] = "probingSol"
  /\ Finish(s, IF funds["sol"] < Cost[kind[s]]["sol"] THEN "insufficient" ELSE "failed")
  /\ UNCHANGED <<kind, conn, reaching, tx, funds, missed>>

ProbeFails(s) ==
  /\ at[s] \in {"probingCirc", "probingSol"}
  /\ Finish(s, "failed")
  /\ UNCHANGED <<kind, conn, reaching, tx, funds, missed>>

-----------------------------------------------------------------------------
(* The chain.                                                              *)

Lands(s, i) ==
  /\ tx[s][i] = "known" /\ Affordable(s)
  /\ tx' = [tx EXCEPT ![s][i] = "landed"]
  /\ funds' = Less(Cost[kind[s]])
  /\ UNCHANGED <<kind, at, conn, reaching, outcome, missed>>

FailsOnChain(s, i) ==
  /\ tx[s][i] = "known" /\ funds["sol"] > 0
  /\ tx' = [tx EXCEPT ![s][i] = "failed"]
  /\ funds' = Less(Fee)
  /\ UNCHANGED <<kind, at, conn, reaching, outcome, missed>>

Expires(s, i) ==
  /\ tx[s][i] \in {"signed", "known"}
  /\ tx' = [tx EXCEPT ![s][i] = IF @ = "signed" THEN "stale" ELSE "dropped"]
  /\ UNCHANGED <<kind, at, conn, reaching, outcome, funds, missed>>

-----------------------------------------------------------------------------
\* What a running send does when the promise it awaits settles, or its timer fires.
Proceed(s) ==
  \/ PrepareFails(s) \/ Sign(s)
  \/ \E k \in Connections : AcceptHeard(s, k) \/ RejectHeard(s, k)
  \/ RateLimited(s) \/ TimesOut(s) \/ Breaks(s)
  \/ Confirmed(s) \/ AskElsewhere(s) \/ Unconfirmed(s) \/ ConfirmTimesOut(s) \/ ConfirmBreaks(s)
  \/ ProbeCirc(s) \/ ProbeSol(s) \/ ProbeFails(s)

Environment(s) ==
  \E k \in Connections :
    \/ AcceptUnheard(s, k) \/ RejectUnheard(s, k)
    \/ Lands(s, k) \/ FailsOnChain(s, k) \/ Expires(s, k)

\* A send of the application: of its own making, or one a server built for it.
Begin(s) ==
  \/ \E k \in Kinds \ {"server"} : Prepare(s, k)
  \/ \E instructions \in ServerBuilt, payee \in Payees : Countersign(s, instructions, payee)

WalletNext == \E s \in Sends : Begin(s) \/ Proceed(s) \/ Environment(s)

Spec == WalletInit /\ [][WalletNext]_walletVars

-----------------------------------------------------------------------------
(* Properties.                                                             *)

Stood(s, states) == \E i \in Connections : tx[s][i] \in states
Landings(s) == Cardinality({i \in Connections : tx[s][i] = "landed"})

\* The wallet implements PaymentWallet: over all failovers, timeouts and attempts that
\* go on in the background, a send moves the money at most once, and it resolves
\* only for a transaction that is on the chain (wallet.ts 325-363).
Promise == INSTANCE PaymentWallet WITH
  call <- [s \in Sends |->
             IF at[s] = "idle" THEN "idle"
             ELSE IF outcome[s] \in {"resolved", "refused"} THEN outcome[s]
             ELSE IF at[s] = "ended" THEN "threw" ELSE "running"],
  onChain <- [s \in Sends |->
             IF Stood(s, {"landed", "failed"}) THEN "included"
             ELSE IF Stood(s, {"known", "dropped"}) THEN "sent" ELSE "none"],
  moved <- [s \in Sends |-> Landings(s)]

MovesMoneyOnce == Promise!Spec

\* An error without a signature means that nothing went out, unless an answer was
\* late or lost on the way: a send that failed, was refused or was explained by
\* a lack of funds has no transaction that any node knows (wallet.ts 314-323, 345-384).
PlainErrorMeansUnsent ==
  \A s \in Sends :
    outcome[s] \in {"failed", "insufficient", "refused"} /\ ~missed[s] =>
      ~Stood(s, {"known", "landed", "failed", "dropped"}) /\ reaching[s] = {}
=============================================================================
