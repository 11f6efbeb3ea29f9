------------------------------ MODULE X402System ------------------------------
(***************************************************************************)
(* The payment loop end to end: the calls of one X402Client, the wallet    *)
(* and the chain of X402Client, and a service whose handler is the one     *)
(* docs/x402.md shows around verifyPaymentTx (PaymentGate).  Steps of the  *)
(* two sides that are one event (a transaction is included, an answer      *)
(* reaches the client) are conjunctions of their actions.                  *)
(*                                                                         *)
(* The service has any number of workers, with the replay stores they      *)
(* share or keep for themselves.  Between it and the client there may be a *)
(* proxy: a request arrives late or never, whether the client still waits  *)
(* for it or not, and the proxy may answer (502, 503, 504) for a handler   *)
(* that is still verifying.                                                *)
(*                                                                         *)
(* A call makes at most two paid requests with its one signature; each     *)
(* that reaches the service is a verification of its own, so verifications *)
(* are named <<call, n>> and signatures by their call.                     *)
(***************************************************************************)
EXTENDS Integers

CONSTANTS
  Calls,      \* the calls of request() on the client
  treasury,   \* the payee of every quote
  Workers,    \* the service's processes
  Stores,     \* their replay stores
  StoreOf,    \* the store of each worker, or Absent
  Durable,    \* the stores that survive a restart
  Failing,    \* the stores whose write may fail unnoticed
  NoLimit, NoOffer, Absent,
  Prices,     \* the CIRC prices the service can be at
  MaxTotal,   \* the client's cumulative CIRC ceiling, or NoLimit
  Overlap,    \* calls may overlap
  Retries, MaxAge, MaxClock

VARIABLES
  pc, offer, sends, tx, outcome, spent, moved, interleaved,  \* the client's
  clock, chain, used, claim, phase, attempt, after, unmarked, \* the gate's
  price,     \* the price right now
  reply,     \* what the handler answered to each paid request
  wire,      \* the paid requests on their way to the service
  proxied    \* history: the calls whose first paid request the proxy answered, to be repeated

Requests == Calls \X {1, 2}
Replies == {"none", "ok", "transient", "denied"}

Client == INSTANCE X402Client WITH
  Recipients <- {treasury}, Amounts <- Prices, PaysToken <- FALSE,
  MaxSpend <- [a \in {"circ", "token"} |-> NoLimit],
  MaxTotal <- [a \in {"circ", "token"} |-> MaxTotal],
  AllowedRecipients <- {treasury}

Gate == INSTANCE PaymentGate WITH
  Verifications <- Requests, Sigs <- Calls, NoStore <- Absent, Amounts <- Prices \cup {0}

ASSUME SystemAssumption ==
  /\ Prices \subseteq Nat \ {0}
  /\ NoLimit \notin Nat
  /\ MaxTotal \in Nat \cup {NoLimit}
  /\ NoOffer \notin [asset : {"circ", "token"}, recipient : {treasury}, amount : Prices]
  /\ Retries \in Nat
  /\ MaxAge \in Nat
  /\ MaxClock \in Nat
  /\ Absent \notin Stores
  /\ StoreOf \in [Workers -> Stores \cup {Absent}]
  /\ Durable \subseteq Stores
  /\ Failing \subseteq Stores
  /\ Absent \notin [ok : BOOLEAN, blockTime : 0..MaxClock, received : Prices \cup {0}]
  /\ Absent \notin [sig : Calls, required : Prices \cup {0}, worker : Workers]

clientVars == <<pc, offer, sends, tx, outcome, spent, moved, interleaved>>
gateVars == <<clock, chain, used, claim, phase, attempt, after, unmarked>>
serviceVars == <<price, reply>>
proxyVars == <<wire, proxied>>
vars == <<clientVars, gateVars, serviceVars, proxyVars>>

TypeOK ==
  /\ Client!TypeOK
  /\ Gate!TypeOK
  /\ price \in Prices
  /\ reply \in [Requests -> Replies]
  /\ wire \in SUBSET Requests
  /\ proxied \in SUBSET Calls

Init ==
  /\ Client!Init
  /\ Gate!Init
  /\ price \in Prices
  /\ reply = [r \in Requests |-> "none"]
  /\ wire = {}
  /\ proxied = {}

\* The paid request a call is waiting on, and whether it still waits.
Current(c) == <<c, IF pc[c] = "claiming" THEN 1 ELSE 2>>
Awaited(r) == pc[r[1]] \in {"claiming", "reclaiming"} /\ r = Current(r[1])

-----------------------------------------------------------------------------
(* Steps of one side.                                                      *)

\* Unless Overlap, the application awaits one call before it makes the next.
MayStart == Overlap \/ \A c \in Calls : ~Client!Running(c)

\* The client's own: starting, the hook, the wallet's error, the broadcast, and a
\* request that times out wherever it is.
ClientStep(c) ==
  /\ \/ MayStart /\ Client!Start(c)
     \/ Client!Abort(c) \/ Client!Send(c) \/ Client!SendThrows(c) \/ Client!Broadcast(c)
     \/ Client!RequestThrows(c)
  /\ UNCHANGED <<gateVars, serviceVars, proxyVars>>

\* A paid request goes out: when the wallet answers, and again after the retry delay.
Claim(c) ==
  /\ \/ Client!SendResolves(c) /\ wire' = wire \cup {<<c, 1>>}
     \/ Client!Reclaim(c) /\ wire' = wire \cup {<<c, 2>>}
  /\ UNCHANGED <<gateVars, serviceVars, proxied>>

\* The service's own: verification goes on whether or not the client still waits.
GateStep ==
  /\ \/ Gate!Tick
     \/ \E w \in Workers : Gate!Restart(w)
     \/ \E r \in Requests : Gate!Verify(r)
  /\ UNCHANGED <<clientVars, serviceVars, proxyVars>>

PriceMoves ==
  /\ \E p \in Prices \ {price} : price' = p
  /\ UNCHANGED <<clientVars, gateVars, reply, proxyVars>>

-----------------------------------------------------------------------------
(* Steps of both.                                                          *)

\* The chain includes the payment; a failed transaction moves nothing.
Included(c) ==
  /\ \/ Client!Land(c) /\ Gate!Include(c, TRUE, offer[c].amount)
     \/ Client!FailOnChain(c) /\ Gate!Include(c, FALSE, 0)
  /\ UNCHANGED <<serviceVars, proxyVars>>

\* An unpaid request is answered with a 402 quoting the price of the moment, and
\* the client refuses or accepts the quote.
Quoted(c) ==
  LET challenge == [circ |-> [asset |-> "circ", recipient |-> treasury, amount |-> price],
                    token |-> NoOffer]
  IN
  /\ Client!RefuseChallenge(c, challenge) \/ Client!AcceptChallenge(c, challenge)
  /\ UNCHANGED <<gateVars, serviceVars, proxyVars>>

\* A paid request reaches the handler of some worker, which reads its price anew and
\* verifies the signature against it.
Arrives(r, w) ==
  /\ r \in wire
  /\ wire' = wire \ {r}
  /\ Gate!Begin(r, r[1], price, w)
  /\ UNCHANGED <<clientVars, serviceVars, proxied>>

\* The proxy answers in the handler's place, wherever the request is: not arrived yet,
\* being verified, or verified and being served.  The handler is not told.
ProxyAnswers(c) ==
  /\ \/ Client!AnswerTransient(c) /\ proxied' = proxied \cup {c}
     \/ Client!AnswerPaid(c) /\ UNCHANGED proxied
  /\ UNCHANGED <<gateVars, serviceVars, wire>>

\* The handler answers, once.
Replied(r, kind) ==
  /\ reply[r] = "none"
  /\ reply' = [reply EXCEPT ![r] = kind]
  /\ UNCHANGED <<gateVars, price, proxyVars>>

\* A transient answer makes the first paid request be repeated; to the second it
\* is returned like any other.
TransientReaches(c) ==
  \/ pc[c] = "claiming" /\ Client!AnswerTransient(c)
  \/ pc[c] = "reclaiming" /\ Client!AnswerPaid(c)

\* The verified request is served, or serving it fails with a 5xx.
Served(r) ==
  /\ phase[r] = "accepted"
  /\ \/ Replied(r, "ok") /\ Awaited(r) /\ Client!AnswerPaid(r[1])
     \/ Replied(r, "transient") /\ Awaited(r) /\ TransientReaches(r[1])
     \/ \E kind \in {"ok", "transient"} :
          Replied(r, kind) /\ ~Awaited(r) /\ UNCHANGED clientVars

\* Verification threw: 402 again, which the client returns as it is.
Denied(r) ==
  /\ phase[r] \notin {"idle", "fetching", "accepted", "lost"}
  /\ Replied(r, "denied")
  /\ \/ Awaited(r) /\ Client!AnswerPaid(r[1])
     \/ ~Awaited(r) /\ UNCHANGED clientVars

Next ==
  \/ \E c \in Calls : ClientStep(c) \/ Claim(c) \/ Included(c) \/ Quoted(c) \/ ProxyAnswers(c)
  \/ \E r \in Requests, w \in Workers : Arrives(r, w)
  \/ \E r \in Requests : Served(r) \/ Denied(r)
  \/ GateStep
  \/ PriceMoves

Spec == Init /\ [][Next]_vars

-----------------------------------------------------------------------------
(* Properties.                                                             *)

\* One payment buys one service.  At one store, both paid requests of a call are let
\* through only where the first one's mark was not written, or was lost in a restart;
\* or where the proxy had answered for the handler, and the two verifications overlapped
\* or it was the second, come in before the first, whose mark is missing.  Answered by the
\* handler alone, with a store that writes and keeps its marks, the retry never buys again.
OnePaymentOneService ==
  \A c \in Calls :
    LET first == <<c, 1>>
        second == <<c, 2>>
    IN
    Gate!Accepted(first) /\ Gate!Accepted(second) /\ Gate!SameMark(first, second) =>
      \/ <<first, second>> \in after /\ first \in unmarked
      \/ /\ c \in proxied
         /\ <<first, second>> \notin after
         /\ <<second, first>> \in after => second \in unmarked

\* What was served was paid for by that very call, at the price the service asked
\* when it verified.
ServedIsPaid ==
  \A c \in Calls, n \in {1, 2} :
    reply[<<c, n>>] = "ok" =>
      tx[c] = "landed" /\ offer[c].amount >= claim[<<c, n>>].required

\* A call whose payment landed and which is denied all the same was denied for one
\* of these reasons only: the price rose above what it was quoted and paid, the
\* payment aged out of the window, the chain could not be read, the payment had no date
\* yet where there is no store, or the signature had been consumed by the same call's
\* other request.
DenialIsExplained ==
  \A c \in Calls, n \in {1, 2} :
    reply[<<c, n>>] = "denied" /\ tx[c] = "landed" =>
      \/ claim[<<c, n>>].required > offer[c].amount
      \/ clock - chain[c].blockTime > MaxAge
      \/ phase[<<c, n>>] = "unavailable"
      \/ phase[<<c, n>>] = "undatable" /\ Gate!StoreFor(<<c, n>>) = Absent
      \/ Gate!Accepted(<<c, 3 - n>>)

=============================================================================
