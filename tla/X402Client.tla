----------------------------- MODULE X402Client -----------------------------
(***************************************************************************)
(* One X402Client (packages/x402/src/client.ts) shared by concurrent calls *)
(* of its request() method.  A call asks the endpoint, reads a 402         *)
(* challenge, checks it against the client's limits, waits for the onPay   *)
(* hook, has the wallet transfer the quoted amount, and asks again with    *)
(* the transaction signature, once more after a transient error.           *)
(*                                                                         *)
(* JavaScript runs a call without interruption from one await to the next, *)
(* so an action is one such stretch of request(): the promise it waited    *)
(* for settles, and the code up to the next await runs.  The wallet and    *)
(* the chain take steps of their own between a send and its answer.        *)
(***************************************************************************)
EXTENDS Integers, FiniteSets

CONSTANTS
  Calls,              \* the invocations of request() on this client
  Recipients,         \* the payees a 402 can name
  Amounts,            \* the amounts (raw base units) a 402 can quote
  NoLimit,            \* an option that was not configured (undefined)
  NoOffer,            \* no payment selected
  PaysToken,          \* payToken is set and the wallet has sendToken
  MaxSpend,           \* [asset -> per-call ceiling]: maxSpendRaw, maxPayTokenRaw
  MaxTotal,           \* [asset -> cumulative ceiling]: maxTotalSpendRaw, ...
  AllowedRecipients   \* the pinned payees; all of them when none is pinned

\* The two currencies request() can pay in: CIRC, and the configured payToken.
Assets == {"circ", "token"}

Limits == Nat \cup {NoLimit}

ASSUME ClientAssumption ==
  /\ Amounts \subseteq Nat
  /\ NoLimit \notin Nat
  /\ PaysToken \in BOOLEAN
  /\ MaxSpend \in [Assets -> Limits]
  /\ MaxTotal \in [Assets -> Limits]
  /\ AllowedRecipients \subseteq Recipients
  /\ NoOffer \notin [asset : Assets, recipient : Recipients, amount : Amounts]

\* A payment the client may be asked to make (PaymentQuote).
Offers == [asset : Assets, recipient : Recipients, amount : Amounts]
OffersIn(asset) == {o \in Offers : o.asset = asset}

\* What a 402 body holds: the CIRC payment block, and the entry of
\* acceptedTokens for the configured payToken, when it lists one.
Challenges == [circ : OffersIn("circ"), token : OffersIn("token") \cup {NoOffer}]

VARIABLES
  pc,        \* where each call of request() stands
  offer,     \* the payment each call selected
  sends,     \* how often each call asked the wallet to transfer
  tx,        \* the transaction of each call's last send, as the chain sees it
  outcome,   \* how each call ended
  spent,     \* spentRaw and spentPayTokenRaw
  moved,     \* what has really left the wallet
  interleaved  \* history: some call was started while another was running

vars == <<pc, offer, sends, tx, outcome, spent, moved, interleaved>>
wallet == <<sends, tx, moved>>

Stages == {"idle", "asking", "approving", "sending", "claiming", "waiting",
           "reclaiming", "ended"}
Refusals == {"unusable", "capRequired", "spendCap", "recipient",
             "budget", "aborted"}
Outcomes == {"pending", "unpaid", "paid", "sendFailed", "requestFailed"} \cup Refusals

TypeOK ==
  /\ pc \in [Calls -> Stages]
  /\ offer \in [Calls -> Offers \cup {NoOffer}]
  /\ sends \in [Calls -> Nat]
  /\ tx \in [Calls -> {"none", "broadcast", "landed", "failed"}]
  /\ outcome \in [Calls -> Outcomes]
  /\ spent \in [Assets -> Nat]
  /\ moved \in [Assets -> Nat]
  /\ interleaved \in BOOLEAN

Init ==
  /\ pc = [c \in Calls |-> "idle"]
  /\ offer = [c \in Calls |-> NoOffer]
  /\ sends = [c \in Calls |-> 0]
  /\ tx = [c \in Calls |-> "none"]
  /\ outcome = [c \in Calls |-> "pending"]
  /\ spent = [a \in Assets |-> 0]
  /\ moved = [a \in Assets |-> 0]
  /\ interleaved = FALSE

-----------------------------------------------------------------------------
(* Moving a call along.                                                    *)

Running(c) == pc[c] \notin {"idle", "ended"}
Goto(c, from, to) == pc[c] = from /\ pc' = [pc EXCEPT ![c] = to]
End(c, from, result) ==
  /\ Goto(c, from, "ended")
  /\ outcome' = [outcome EXCEPT ![c] = result]

\* The payment a challenge leads to: the payToken entry when the client pays in
\* that token and the endpoint lists it, else the CIRC block.
Selected(challenge) ==
  IF PaysToken /\ challenge.token # NoOffer THEN challenge.token ELSE challenge.circ

Exceeds(amount, limit) == limit # NoLimit /\ amount > limit

\* The checks made before any money moves, in the order the code makes them.
\* A token payment without a per-call ceiling is refused; a CIRC one is not.
CapRequired(o) == o.asset = "token" /\ MaxSpend["token"] = NoLimit
OverCap(o) == Exceeds(o.amount, MaxSpend[o.asset])
NotPinned(o) == o.recipient \notin AllowedRecipients
\* Mutant of OverBudget: what was spent before is not counted.
OverBudgetPerCall(o) == Exceeds(o.amount, MaxTotal[o.asset])
OverBudget(o) == Exceeds(spent[o.asset] + o.amount, MaxTotal[o.asset])

\* Mutant of Screen: no payee check.
ScreenUnpinned(o) ==
  IF CapRequired(o) THEN "capRequired"
  ELSE IF OverCap(o) THEN "spendCap"
  ELSE IF OverBudget(o) THEN "budget"
  ELSE "accepted"

Screen(o) ==
  IF CapRequired(o) THEN "capRequired"
  ELSE IF OverCap(o) THEN "spendCap"
  ELSE IF NotPinned(o) THEN "recipient"
  ELSE IF OverBudget(o) THEN "budget"
  ELSE "accepted"

-----------------------------------------------------------------------------
(* The call.                                                               *)

\* request(requestFn) is invoked: the first, unpaid request goes out.  An application
\* may await each call before the next, or not.
Start(c) ==
  /\ Goto(c, "idle", "asking")
  /\ interleaved' = (interleaved \/ \E d \in Calls : Running(d))
  /\ UNCHANGED <<offer, outcome, spent, wallet>>

\* The endpoint answers anything but a 402: passed through, nothing is paid.
AnswerFree(c) ==
  /\ End(c, "asking", "unpaid")
  /\ UNCHANGED <<interleaved, offer, spent, wallet>>

\* requestFn throws (network error, per-request timeout), before or after the
\* payment; after it, the signature is lost with the stack.
RequestThrows(c) ==
  /\ \E stage \in {"asking", "claiming", "reclaiming"} : End(c, stage, "requestFailed")
  /\ UNCHANGED <<interleaved, offer, spent, wallet>>

\* A 402 whose body parse402 rejects.  (A client without a wallet gives up here, too.)
RefuseUnusable(c) ==
  /\ End(c, "asking", "unusable")
  /\ UNCHANGED <<interleaved, offer, spent, wallet>>

\* A usable 402 that fails one of the checks.
RefuseChallenge(c, challenge) ==
  /\ Screen(Selected(challenge)) # "accepted"
  /\ End(c, "asking", Screen(Selected(challenge)))
  /\ UNCHANGED <<interleaved, offer, spent, wallet>>

\* A usable 402 that passes them all: onPay is called and awaited.
AcceptChallenge(c, challenge) ==
  /\ Screen(Selected(challenge)) = "accepted"
  /\ Goto(c, "asking", "approving")
  /\ offer' = [offer EXCEPT ![c] = Selected(challenge)]
  /\ UNCHANGED <<interleaved, outcome, spent, wallet>>

\* onPay throws: the payment is called off.
Abort(c) ==
  /\ End(c, "approving", "aborted")
  /\ UNCHANGED <<interleaved, offer, spent, wallet>>

\* onPay resolves: the wallet is asked for the transfer.
Send(c) ==
  /\ Goto(c, "approving", "sending")
  /\ sends' = [sends EXCEPT ![c] = @ + 1]
  /\ tx' = [tx EXCEPT ![c] = "none"]
  /\ UNCHANGED <<interleaved, offer, outcome, spent, moved>>

\* Mutant of SendResolves: token payments are not counted.
SendResolvesCountingCirc(c) ==
  /\ tx[c] \in {"landed", "failed"}
  /\ Goto(c, "sending", "claiming")
  /\ spent' = IF offer[c].asset = "circ" THEN [spent EXCEPT !["circ"] = @ + offer[c].amount]
              ELSE spent
  /\ UNCHANGED <<interleaved, offer, outcome, wallet>>

\* sendCirc / sendToken resolves with the signature.  The wallet waits for the
\* confirmation but does not look at the error the confirmation may carry.
SendResolves(c) ==
  /\ tx[c] \in {"landed", "failed"}
  /\ Goto(c, "sending", "claiming")
  /\ spent' = [spent EXCEPT ![offer[c].asset] = @ + offer[c].amount]
  /\ UNCHANGED <<interleaved, offer, outcome, wallet>>

\* It throws, before it broadcast anything or after (a confirmation timed out).
SendThrows(c) ==
  /\ End(c, "sending", "sendFailed")
  /\ UNCHANGED <<interleaved, offer, spent, wallet>>

\* Mutants of AnswerTransient (pay again) and of Reclaim (retry for ever).
AnswerTransientRepaying(c) ==
  /\ Goto(c, "claiming", "approving")
  /\ UNCHANGED <<interleaved, offer, outcome, spent, wallet>>
ReclaimForever(c) ==
  /\ Goto(c, "waiting", "claiming")
  /\ UNCHANGED <<interleaved, offer, outcome, spent, wallet>>

\* The paid request is answered with a transient error: sleep, then ask again
\* with the same signature.
AnswerTransient(c) ==
  /\ Goto(c, "claiming", "waiting")
  /\ UNCHANGED <<interleaved, offer, outcome, spent, wallet>>
Reclaim(c) ==
  /\ Goto(c, "waiting", "reclaiming")
  /\ UNCHANGED <<interleaved, offer, outcome, spent, wallet>>

\* Any other answer to it, or any answer at all to the second one, is returned
\* with the signature as paymentTx.
AnswerPaid(c) ==
  /\ \E stage \in {"claiming", "reclaiming"} : End(c, stage, "paid")
  /\ UNCHANGED <<interleaved, offer, spent, wallet>>

-----------------------------------------------------------------------------
(* The wallet and the chain.  The signed transaction is broadcast while the *)
(* send is pending, or later, by an attempt the wallet had given up; once    *)
(* broadcast it may land at any time, or be included as failed, or never be *)
(* seen again.                                                              *)

Broadcast(c) ==
  /\ pc[c] = "sending" \/ outcome[c] = "sendFailed"
  /\ tx[c] = "none"
  /\ tx' = [tx EXCEPT ![c] = "broadcast"]
  /\ UNCHANGED <<interleaved, pc, offer, outcome, sends, spent, moved>>

Land(c) ==
  /\ tx[c] = "broadcast"
  /\ tx' = [tx EXCEPT ![c] = "landed"]
  /\ moved' = [moved EXCEPT ![offer[c].asset] = @ + offer[c].amount]
  /\ UNCHANGED <<interleaved, pc, offer, outcome, sends, spent>>

FailOnChain(c) ==
  /\ tx[c] = "broadcast"
  /\ tx' = [tx EXCEPT ![c] = "failed"]
  /\ UNCHANGED <<interleaved, pc, offer, outcome, sends, spent, moved>>

-----------------------------------------------------------------------------
\* What a running call does when the promise it awaits settles.
Resume(c) ==
  \/ AnswerFree(c) \/ RequestThrows(c) \/ RefuseUnusable(c)
  \/ \E challenge \in Challenges : RefuseChallenge(c, challenge) \/ AcceptChallenge(c, challenge)
  \/ Abort(c) \/ Send(c) \/ SendResolves(c) \/ SendThrows(c)
  \/ AnswerTransient(c) \/ Reclaim(c) \/ AnswerPaid(c)

Chain(c) == Broadcast(c) \/ Land(c) \/ FailOnChain(c)

Next == \E c \in Calls : Start(c) \/ Resume(c) \/ Chain(c)

Spec == Init /\ [][Next]_vars

\* Every await of request() settles: each HTTP attempt carries a timeout signal
\* (timeoutMs > 0), each RPC of the wallet a per-try timeout, the retry delay is
\* a timer, and the onPay hook is assumed to settle.
FairSpec == Spec /\ \A c \in Calls : WF_vars(Resume(c))

-----------------------------------------------------------------------------
(* The client implements PayPerCall: a call commits when it asks the wallet *)
(* for the transfer, and its payment settles when the transaction lands.    *)

Permitted == {o \in Offers : ~NotPinned(o) /\ ~OverCap(o) /\ ~CapRequired(o)}

Promise == INSTANCE PayPerCall WITH
  NoPayment <- NoOffer,
  commitment <- [c \in Calls |-> IF sends[c] = 0 THEN NoOffer ELSE offer[c]],
  settled <- {c \in Calls : tx[c] = "landed"},
  closed <- {c \in Calls : pc[c] = "ended"}

\* No endpoint, hook or wallet behaviour takes the client outside its promise: one
\* permitted payment per call, none after it ended, nothing settled uncommitted.
KeepsPromise == Promise!Spec

-----------------------------------------------------------------------------
(* Properties.                                                             *)

Settled(c) == tx[c] = "landed"

\* Whatever sequence of challenges, hooks and retries happened, a call has asked
\* the wallet for at most one transfer, and a transaction on the chain is always
\* one whose payee is pinned, whose amount is within the ceiling of its own
\* currency, and, for a token, one that had a ceiling (client.ts 198-206, 223-231).
\* A refusal is final and free: a call that ended with one of the typed refusals,
\* or without a 402, never sends (docs/x402.md: "the wallet is never charged").
PaymentsWithinLimits ==
  \A c \in Calls :
    /\ sends[c] <= 1
    /\ tx[c] # "none" =>
         /\ offer[c] # NoOffer
         /\ ~NotPinned(offer[c])
         /\ ~OverCap(offer[c])
         /\ ~CapRequired(offer[c])
    /\ outcome[c] \in Refusals \cup {"unpaid"} => sends[c] = 0 /\ tx[c] = "none"

\* The application that awaits each call before the next never gets past its
\* cumulative ceilings, as counted by the client (client.ts 207-212, 232-238).
SerialBudget ==
  ~interleaved => \A a \in Assets : MaxTotal[a] # NoLimit => spent[a] <= MaxTotal[a]

\* A send that came back with a signature: the call went on to claim.
Confirmed(c) ==
  \/ pc[c] \in {"claiming", "waiting", "reclaiming"}
  \/ outcome[c] = "paid"
  \/ outcome[c] = "requestFailed" /\ sends[c] > 0

\* The sum of the payments of the calls C, counted unit by unit.
Units(c) == {c} \X (1..offer[c].amount)
Total(C) == Cardinality(UNION {Units(c) : c \in C})
In(asset) == {c \in Calls : offer[c] # NoOffer /\ offer[c].asset = asset}

\* The running totals are exactly the payments whose send resolved, each counted
\* once whatever became of its requests; and all the money that left the wallet
\* without being counted belongs to a send that is still pending or that threw
\* after its broadcast (client.ts 211-212, 237-238).
Counted == \A a \in Assets : spent[a] = Total({c \in In(a) : Confirmed(c)})
Moved == \A a \in Assets : moved[a] = Total({c \in In(a) : Settled(c)})
UncountedIsUnheard ==
  \A c \in Calls : Settled(c) /\ ~Confirmed(c) => pc[c] = "sending" \/ outcome[c] = "sendFailed"
Reconciled == Counted /\ Moved /\ UncountedIsUnheard

\* The inductive invariant.  How far a call got fixes what it selected and sent:
\* a call has a permitted offer from its acceptance on, sends exactly once, after
\* it, and has a transaction only if it sent.
BeforeSend == {"idle", "asking", "approving"}
AfterSend == {"sending", "claiming", "waiting", "reclaiming"}
StageInv ==
  \A c \in Calls :
    /\ offer[c] \in Permitted \cup {NoOffer}
    /\ pc[c] \in BeforeSend => sends[c] = 0
    /\ pc[c] \in AfterSend => sends[c] = 1
    /\ pc[c] \in AfterSend \cup {"approving"} => offer[c] # NoOffer
    /\ sends[c] \in {0, 1}
    /\ sends[c] = 1 => offer[c] # NoOffer
    /\ tx[c] # "none" => sends[c] = 1
    /\ outcome[c] = "sendFailed" => sends[c] = 1
    /\ pc[c] # "ended" => outcome[c] = "pending"
    /\ outcome[c] \in Refusals \cup {"unpaid"} => sends[c] = 0
    /\ sends[c] = 1 /\ pc[c] = "ended" => outcome[c] \in {"paid", "sendFailed", "requestFailed"}

\* Only finitely many calls were started, and the accounts are right.
AccountsInv == IsFiniteSet({c \in Calls : pc[c] # "idle"}) /\ Reconciled

\* When calls do not overlap, at most one is running, and one that was accepted
\* and is not counted yet still fits its budget.
Uncounted == {"approving", "sending"}
BudgetInv ==
  ~interleaved =>
    /\ \A c, d \in Calls : Running(c) /\ Running(d) => c = d
    /\ \A a \in Assets : MaxTotal[a] # NoLimit => spent[a] <= MaxTotal[a]
    /\ \A c \in Calls : pc[c] \in Uncounted => ~OverBudget(offer[c])

\* A call that was started ends: it returns a response or throws.
CallsEnd == \A c \in Calls : (pc[c] = "asking") ~> (pc[c] = "ended")
=============================================================================
