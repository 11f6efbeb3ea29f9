-------------------------- MODULE X402System_proofs --------------------------
(***************************************************************************)
(* Theorems about the payment loop.  Each side of it is shown to behave as *)
(* the module that models it alone, so that what is proved of the client   *)
(* and of the gate holds in the loop; the link between the two, from which *)
(* the loop's own properties follow, is an invariant of this module.       *)
(***************************************************************************)
EXTENDS X402System, TLAPS

\* The two sides with their theorems.
ClientSide == INSTANCE X402Client_proofs WITH
  Recipients <- {treasury}, Amounts <- Prices, PaysToken <- FALSE,
  MaxSpend <- [a \in {"circ", "token"} |-> NoLimit],
  MaxTotal <- [a \in {"circ", "token"} |-> MaxTotal],
  AllowedRecipients <- {treasury}

GateSide == INSTANCE PaymentGate_proofs WITH
  Verifications <- Requests, Sigs <- Calls, NoStore <- Absent, Amounts <- Prices \cup {0}

\* The constants of the loop satisfy what each side assumes of its own.
LEMMA ClientConfigured ==
  /\ Prices \subseteq Nat
  /\ NoLimit \notin Nat
  /\ FALSE \in BOOLEAN
  /\ [a \in {"circ", "token"} |-> NoLimit] \in [ClientSide!Assets -> ClientSide!Limits]
  /\ [a \in {"circ", "token"} |-> MaxTotal] \in [ClientSide!Assets -> ClientSide!Limits]
  /\ {treasury} \subseteq {treasury}
  /\ NoOffer \notin [asset : ClientSide!Assets, recipient : {treasury}, amount : Prices]
  BY SystemAssumption DEF ClientSide!Assets, ClientSide!Limits

LEMMA GateConfigured ==
  /\ Absent \notin Stores
  /\ StoreOf \in [Workers -> Stores \cup {Absent}]
  /\ Durable \subseteq Stores
  /\ Failing \subseteq Stores
  /\ Prices \cup {0} \subseteq Nat
  /\ Retries \in Nat
  /\ MaxAge \in Nat
  /\ MaxClock \in Nat
  /\ Absent \notin GateSide!Transactions
  /\ Absent \notin GateSide!Claims
  BY SystemAssumption DEF GateSide!Transactions, GateSide!Claims, GateSide!Times

LEMMA ClientFacts == ClientSide!Spec => []ClientSide!IInv
  BY ClientSide!Inductive, ClientConfigured

LEMMA GateFacts == GateSide!Spec => []GateSide!IInv
  BY GateSide!Inductive, GateConfigured

\* The sides as X402System names them are the sides with their theorems.
LEMMA SameClient == ClientSide!Spec <=> Client!Spec
<1> USE DEF ClientSide!Goto, Client!Goto, ClientSide!End, Client!End, ClientSide!wallet,
    Client!wallet
<1>1. ClientSide!Init <=> Client!Init
  BY DEF ClientSide!Init, Client!Init, ClientSide!Assets, Client!Assets
<1>2. ASSUME NEW c \in Calls PROVE
        /\ ClientSide!Start(c) <=> Client!Start(c)
        /\ ClientSide!AnswerFree(c) <=> Client!AnswerFree(c)
        /\ ClientSide!RequestThrows(c) <=> Client!RequestThrows(c)
        /\ ClientSide!RefuseUnusable(c) <=> Client!RefuseUnusable(c)
  BY DEF ClientSide!Start, Client!Start, ClientSide!AnswerFree, Client!AnswerFree,
      ClientSide!RequestThrows, Client!RequestThrows, ClientSide!RefuseUnusable,
      Client!RefuseUnusable, ClientSide!Running, Client!Running
<1>3. ASSUME NEW c \in Calls, NEW challenge PROVE
        /\ ClientSide!RefuseChallenge(c, challenge) <=> Client!RefuseChallenge(c, challenge)
        /\ ClientSide!AcceptChallenge(c, challenge) <=> Client!AcceptChallenge(c, challenge)
  BY DEF ClientSide!RefuseChallenge, Client!RefuseChallenge, ClientSide!AcceptChallenge,
      Client!AcceptChallenge, ClientSide!Screen, Client!Screen, ClientSide!Selected,
      Client!Selected, ClientSide!CapRequired, Client!CapRequired, ClientSide!OverCap,
      Client!OverCap, ClientSide!NotPinned, Client!NotPinned, ClientSide!OverBudget,
      Client!OverBudget, ClientSide!Exceeds, Client!Exceeds
<1>4. ASSUME NEW c \in Calls PROVE
        /\ ClientSide!Abort(c) <=> Client!Abort(c)
        /\ ClientSide!Send(c) <=> Client!Send(c)
        /\ ClientSide!SendResolves(c) <=> Client!SendResolves(c)
        /\ ClientSide!SendThrows(c) <=> Client!SendThrows(c)
  BY DEF ClientSide!Abort, Client!Abort, ClientSide!Send, Client!Send,
      ClientSide!SendResolves, Client!SendResolves, ClientSide!SendThrows, Client!SendThrows
<1>5. ASSUME NEW c \in Calls PROVE
        /\ ClientSide!AnswerTransient(c) <=> Client!AnswerTransient(c)
        /\ ClientSide!Reclaim(c) <=> Client!Reclaim(c)
        /\ ClientSide!AnswerPaid(c) <=> Client!AnswerPaid(c)
        /\ ClientSide!Broadcast(c) <=> Client!Broadcast(c)
        /\ ClientSide!Land(c) <=> Client!Land(c)
        /\ ClientSide!FailOnChain(c) <=> Client!FailOnChain(c)
  BY DEF ClientSide!AnswerTransient, Client!AnswerTransient, ClientSide!Reclaim,
      Client!Reclaim, ClientSide!AnswerPaid, Client!AnswerPaid, ClientSide!Broadcast,
      Client!Broadcast, ClientSide!Land, Client!Land, ClientSide!FailOnChain,
      Client!FailOnChain
<1>6. ClientSide!Challenges = Client!Challenges
  BY DEF ClientSide!Challenges, Client!Challenges, ClientSide!OffersIn, Client!OffersIn,
      ClientSide!Offers, Client!Offers, ClientSide!Assets, Client!Assets
<1>7. ClientSide!Next <=> Client!Next
  <2> HIDE DEF ClientSide!Goto, Client!Goto, ClientSide!End, Client!End, ClientSide!wallet, Client!wallet
  <2>1. QED
    BY <1>2, <1>3, <1>4, <1>5, <1>6 DEF ClientSide!Next, Client!Next, ClientSide!Resume,
        Client!Resume, ClientSide!Chain, Client!Chain
<1>8. [ClientSide!Next]_(ClientSide!vars) <=> [Client!Next]_(Client!vars)
  BY <1>7 DEF ClientSide!vars, Client!vars
<1>9. QED
  BY <1>1, <1>8, PTL DEF ClientSide!Spec, Client!Spec

LEMMA SameGate == GateSide!Spec <=> Gate!Spec
<1>1. GateSide!Init <=> Gate!Init
  BY DEF GateSide!Init, Gate!Init
<1>2. ASSUME NEW s, NEW ok, NEW received PROVE
        /\ GateSide!Include(s, ok, received) <=> Gate!Include(s, ok, received)
  BY DEF GateSide!Include, Gate!Include
<1>3. ASSUME NEW v PROVE
        /\ GateSide!FetchMisses(v) <=> Gate!FetchMisses(v)
  BY DEF GateSide!FetchMisses, Gate!FetchMisses, GateSide!Fetching, Gate!Fetching
<1>4. ASSUME NEW v, NEW dated PROVE
        /\ GateSide!FetchFinds(v, dated) <=> Gate!FetchFinds(v, dated)
  BY DEF GateSide!FetchFinds, Gate!FetchFinds, GateSide!Fetching, Gate!Fetching,
      GateSide!Verdict, Gate!Verdict, GateSide!StoreFor, Gate!StoreFor, GateSide!Mark,
      Gate!Mark
<1>5. ASSUME NEW v, NEW s, NEW required, NEW w PROVE
        /\ GateSide!Begin(v, s, required, w) <=> Gate!Begin(v, s, required, w)
  BY DEF GateSide!Begin, Gate!Begin, GateSide!Over, Gate!Over, GateSide!IsUsed, Gate!IsUsed
<1>6. ASSUME NEW w PROVE
        /\ GateSide!Restart(w) <=> Gate!Restart(w)
  BY DEF GateSide!Restart, Gate!Restart, GateSide!Accepted, Gate!Accepted, GateSide!StoreFor,
      Gate!StoreFor
<1>7. GateSide!Tick <=> Gate!Tick
  BY DEF GateSide!Tick, Gate!Tick
<1>8. GateSide!Next <=> Gate!Next
  BY <1>2, <1>3, <1>4, <1>5, <1>6, <1>7 DEF GateSide!Next, Gate!Next, GateSide!Verify,
      Gate!Verify
<1>9. [GateSide!Next]_(GateSide!vars) <=> [Gate!Next]_(Gate!vars)
  BY <1>8 DEF GateSide!vars, Gate!vars
<1>10. QED
  BY <1>1, <1>9, PTL DEF GateSide!Spec, Gate!Spec

-----------------------------------------------------------------------------
(* Each side behaves as its own module says.                               *)

PriceInv == price \in Prices

LEMMA PriceKept == PriceInv /\ [Next]_vars => PriceInv'
  BY DEF PriceInv, Next, ClientStep, Claim, Included, Quoted, ProxyAnswers, Arrives, Served, Denied,
         Replied, GateStep, PriceMoves, serviceVars, vars

\* Whatever the service and the chain do, the client takes a step of its own, or none.
LEMMA ClientMoves == PriceInv /\ [Next]_vars => [Client!Next]_(Client!vars)
<1> SUFFICES ASSUME price \in Prices, [Next]_vars PROVE [Client!Next]_(Client!vars)
  BY DEF PriceInv
<1>1. UNCHANGED clientVars => UNCHANGED Client!vars
  BY DEF clientVars, Client!vars
<1>2. ASSUME NEW c \in Calls, ClientStep(c) \/ Claim(c) \/ Included(c) \/ ProxyAnswers(c)
      PROVE Client!Next
  BY <1>2 DEF ClientStep, Claim, Included, ProxyAnswers, Client!Next, Client!Resume, Client!Chain
<1>3. ASSUME NEW c \in Calls, Quoted(c) PROVE Client!Next
  <2> DEFINE challenge ==
        [circ |-> [asset |-> "circ", recipient |-> treasury, amount |-> price],
         token |-> NoOffer]
  <2>1. challenge \in Client!Challenges
    BY DEF Client!Challenges, Client!OffersIn, Client!Offers, Client!Assets
  <2>2. Client!RefuseChallenge(c, challenge) \/ Client!AcceptChallenge(c, challenge)
    BY <1>3 DEF Quoted
  <2> HIDE DEF challenge
  <2>3. QED
    BY <2>1, <2>2 DEF Client!Next, Client!Resume
<1>4. ASSUME NEW c \in Calls, TransientReaches(c) PROVE Client!Next
  BY <1>4 DEF TransientReaches, Client!Next, Client!Resume
<1>5. ASSUME NEW r \in Requests, NEW w \in Workers, Arrives(r, w)
      PROVE  UNCHANGED Client!vars
  BY <1>1, <1>5 DEF Arrives
<1>6. ASSUME NEW r \in Requests, Served(r) \/ Denied(r) PROVE [Client!Next]_(Client!vars)
  <2>1. r[1] \in Calls
    BY DEF Requests
  <2>2. QED
    BY <1>1, <1>4, <1>6, <2>1 DEF Served, Denied, Client!Next, Client!Resume
<1>7. CASE GateStep \/ PriceMoves \/ UNCHANGED vars
  BY <1>1, <1>7 DEF GateStep, PriceMoves, vars
<1>8. QED
  BY <1>2, <1>3, <1>5, <1>6, <1>7 DEF Next

\* In the loop, the client is the client of X402Client, with an endpoint that is this service.
THEOREM ClientBehaves == Spec => Client!Spec
<1>1. Init => Client!Init /\ PriceInv
  BY DEF Init, PriceInv
<1>2. QED
  BY <1>1, PriceKept, ClientMoves, PTL DEF Spec, Client!Spec

LEMMA ClientInv == Spec => []ClientSide!IInv
  BY ClientBehaves, SameClient, ClientFacts, PTL

\* What a broadcast transaction pays is a price the service asked.
LEMMA OfferPays ==
  ASSUME ClientSide!IInv, NEW c \in Calls, tx[c] # "none" \/ pc[c] \in ClientSide!AfterSend
  PROVE  offer[c].amount \in Prices
  BY DEF ClientSide!IInv, ClientSide!StageInv, ClientSide!Permitted, ClientSide!Offers

\* The gate in the loop takes steps of its own, too.
LEMMA GateMoves ==
  ClientSide!IInv /\ PriceInv /\ [Next]_vars => [Gate!Next]_(Gate!vars)
<1> SUFFICES ASSUME ClientSide!IInv, price \in Prices, [Next]_vars
             PROVE  [Gate!Next]_(Gate!vars)
  BY DEF PriceInv
<1>1. UNCHANGED gateVars => UNCHANGED Gate!vars
  BY DEF gateVars, Gate!vars
<1>2. ASSUME NEW c \in Calls, Included(c) PROVE Gate!Next
  <2>1. tx[c] = "broadcast"
    BY <1>2 DEF Included, Client!Land, Client!FailOnChain
  <2>2. offer[c].amount \in Prices
    BY <2>1, OfferPays
  <2>3. QED
    BY <1>2, <2>2 DEF Included, Gate!Next
<1>3. ASSUME NEW r \in Requests, NEW w \in Workers, Arrives(r, w) PROVE Gate!Next
  <2>1. r[1] \in Calls
    BY DEF Requests
  <2>2. QED
    BY <1>3, <2>1 DEF Arrives, Gate!Next
<1>4. CASE GateStep
  BY <1>4 DEF GateStep, Gate!Next
<1>5. ASSUME NEW c \in Calls, ClientStep(c) \/ Claim(c) \/ Quoted(c) \/ ProxyAnswers(c)
      PROVE  UNCHANGED Gate!vars
  BY <1>1, <1>5 DEF ClientStep, Claim, Quoted, ProxyAnswers
<1>6. ASSUME NEW r \in Requests, Served(r) \/ Denied(r) PROVE UNCHANGED Gate!vars
  BY <1>1, <1>6 DEF Served, Denied, Replied
<1>7. CASE PriceMoves \/ UNCHANGED vars
  BY <1>1, <1>7 DEF PriceMoves, vars
<1>8. QED
  BY <1>2, <1>3, <1>4, <1>5, <1>6, <1>7 DEF Next

\* In the loop, verification is that of PaymentGate, with these clients for its callers.
THEOREM GateBehaves == Spec => Gate!Spec
<1>1. Init => Gate!Init /\ PriceInv
  BY DEF Init, PriceInv
<1>2. QED
  BY <1>1, PriceKept, GateMoves, ClientInv, PTL DEF Spec, Gate!Spec

LEMMA GateInv == Spec => []GateSide!IInv
  BY GateBehaves, SameGate, GateFacts, PTL

-----------------------------------------------------------------------------
(* The link between the sides.                                             *)

\* The transaction of a call is on the chain exactly when the client's side has it
\* there, and it pays what the call was quoted, or failed.
ChainLink ==
  \A c \in Calls :
    /\ tx[c] \in {"none", "broadcast"} => chain[c] = Absent
    /\ tx[c] \in {"landed", "failed"} => chain[c] # Absent
    /\ tx[c] = "landed" => chain[c].ok /\ chain[c].received = offer[c].amount
    /\ tx[c] = "failed" => ~chain[c].ok

\* A request is verified for the signature of its own call, and answered by the handler
\* as its verification ended.
ReplyLink ==
  \A r \in Requests :
    /\ phase[r] # "idle" => claim[r] \in GateSide!Claims /\ claim[r].sig = r[1]
    /\ reply[r] \in {"ok", "transient"} => phase[r] = "accepted"
    /\ reply[r] = "denied" => phase[r] \notin {"idle", "fetching", "accepted", "lost"}

\* A call repeats its request only after a transient answer to the first: the proxy's,
\* or the handler's, and by then the first one's verification is over.
Repeating(c) == pc[c] \in {"waiting", "reclaiming"} \/ <<c, 2>> \in wire
RetryLink ==
  \A c \in Calls \ proxied :
    /\ Repeating(c) => reply[<<c, 1>>] = "transient"
    /\ phase[<<c, 2>>] # "idle" => <<<<c, 1>>, <<c, 2>>>> \in after

\* What a verdict says of the transaction stays true of it.
Other(r) == <<r[1], 3 - r[2]>>
VerdictLink ==
  \A r \in Requests :
    /\ phase[r] = "used" => phase[Other(r)] = "accepted"
    /\ phase[r] \in {"failed", "tooOld", "insufficient"} => chain[r[1]] # Absent
    /\ phase[r] = "failed" => ~chain[r[1]].ok
    /\ phase[r] = "tooOld" => clock - chain[r[1]].blockTime > MaxAge
    /\ phase[r] = "insufficient" => chain[r[1]].received < claim[r].required
    /\ phase[r] = "undatable" => GateSide!StoreFor(r) = Absent

Typed == reply \in [Requests -> Replies] /\ wire \in SUBSET Requests /\ proxied \in SUBSET Calls
Linked == Typed /\ ChainLink /\ ReplyLink /\ RetryLink /\ VerdictLink

\* The whole invariant, the sides' own included.
SystemInv == PriceInv /\ ClientSide!IInv /\ GateSide!IInv /\ Linked

LEMMA InitLinked == Init => Linked
  BY DEF Init, Client!Init, Gate!Init, Linked, Typed, ChainLink, ReplyLink, RetryLink, Repeating,
         VerdictLink, Replies, Requests

LEMMA TypedKept == SystemInv /\ [Next]_vars => Typed'
<1> SUFFICES ASSUME SystemInv, [Next]_vars PROVE Typed'
  OBVIOUS
<1> USE DEF SystemInv, Linked, Typed
<1>1. ASSUME NEW c \in Calls, Claim(c) \/ ProxyAnswers(c) PROVE Typed'
  BY <1>1 DEF Claim, ProxyAnswers, Requests, serviceVars
<1>2. ASSUME NEW c \in Calls, ClientStep(c) \/ Included(c) \/ Quoted(c) PROVE Typed'
  BY <1>2 DEF ClientStep, Included, Quoted, serviceVars, proxyVars
<1>3. ASSUME NEW r \in Requests, Served(r) \/ Denied(r) PROVE Typed'
  BY <1>3 DEF Served, Denied, Replied, Replies, proxyVars
<1>4. ASSUME NEW r \in Requests, NEW w \in Workers, Arrives(r, w) PROVE Typed'
  BY <1>4 DEF Arrives, serviceVars
<1>5. CASE GateStep \/ PriceMoves \/ UNCHANGED vars
  BY <1>5 DEF GateStep, PriceMoves, serviceVars, proxyVars, vars
<1>6. QED
  BY <1>1, <1>2, <1>3, <1>4, <1>5 DEF Next

\* Inclusion is one event of both sides; a call that selects or sends has no transaction.
LEMMA ChainLinkKept == SystemInv /\ [Next]_vars => ChainLink'
<1> SUFFICES ASSUME SystemInv, [Next]_vars PROVE ChainLink'
  OBVIOUS
<1> USE DEF SystemInv, Linked, ChainLink, Client!Goto, Client!End, Client!wallet, gateVars
<1>0. /\ tx \in [Calls -> {"none", "broadcast", "landed", "failed"}]
      /\ chain \in [Calls -> GateSide!Transactions \cup {Absent}]
      /\ offer \in [Calls -> ClientSide!Offers \cup {NoOffer}]
      /\ \A c \in Calls : pc[c] \in {"asking", "approving"} => tx[c] = "none"
  BY DEF ClientSide!IInv, ClientSide!TypeOK, ClientSide!StageInv, ClientSide!BeforeSend,
         GateSide!IInv, GateSide!TypeOK
<1>1. ASSUME tx' = tx, offer' = offer, chain' = chain PROVE ChainLink'
  BY <1>1
<1>2. ASSUME NEW c \in Calls, ClientStep(c) PROVE ChainLink'
  <2>1. CASE Client!Send(c)
    BY <1>0, <1>2, <2>1 DEF ClientStep, Client!Send
  <2>2. CASE Client!Broadcast(c)
    BY <1>0, <1>2, <2>2 DEF ClientStep, Client!Broadcast
  <2>3. CASE ~Client!Send(c) /\ ~Client!Broadcast(c)
    BY <1>1, <1>2, <2>3
    DEF ClientStep, Client!Start, Client!Abort, Client!SendThrows, Client!RequestThrows
  <2>4. QED
    BY <2>1, <2>2, <2>3
<1>3. ASSUME NEW c \in Calls, Included(c) PROVE ChainLink'
  <2>1. CASE Client!Land(c) /\ Gate!Include(c, TRUE, offer[c].amount)
    <3>1. /\ tx' = [tx EXCEPT ![c] = "landed"] /\ offer' = offer
          /\ chain' = [chain EXCEPT ![c] =
                         [ok |-> TRUE, blockTime |-> clock, received |-> offer[c].amount]]
      BY <2>1 DEF Client!Land, Gate!Include
    <3>2. chain'[c] \in GateSide!Transactions
      <4>1. offer[c].amount \in Prices
        BY <2>1, OfferPays DEF Client!Land
      <4>2. QED
        BY <1>0, <3>1, <4>1
        DEF GateSide!IInv, GateSide!TypeOK, GateSide!Transactions, GateSide!Times
    <3>3. QED
      BY <1>0, <3>1, <3>2, GateConfigured
  <2>2. CASE Client!FailOnChain(c) /\ Gate!Include(c, FALSE, 0)
    <3>1. /\ tx' = [tx EXCEPT ![c] = "failed"] /\ offer' = offer
          /\ chain' = [chain EXCEPT ![c] =
                         [ok |-> FALSE, blockTime |-> clock, received |-> 0]]
      BY <2>2 DEF Client!FailOnChain, Gate!Include
    <3>2. chain'[c] \in GateSide!Transactions
      BY <1>0, <3>1 DEF GateSide!IInv, GateSide!TypeOK, GateSide!Transactions, GateSide!Times
    <3>3. QED
      BY <1>0, <3>1, <3>2, GateConfigured
  <2>3. QED
    BY <1>3, <2>1, <2>2 DEF Included
<1>4. ASSUME NEW c \in Calls, Quoted(c) PROVE ChainLink'
  <2>1. /\ tx' = tx /\ chain' = chain
        /\ pc[c] = "asking" /\ \A d \in Calls \ {c} : offer'[d] = offer[d]
    BY <1>0, <1>4 DEF Quoted, Client!RefuseChallenge, Client!AcceptChallenge
  <2>2. QED
    BY <1>0, <2>1
<1>5. ASSUME NEW c \in Calls, TransientReaches(c) \/ Client!AnswerPaid(c)
      PROVE tx' = tx /\ offer' = offer
  BY <1>5 DEF TransientReaches, Client!AnswerTransient, Client!AnswerPaid
<1>6. ASSUME NEW c \in Calls, Claim(c) \/ ProxyAnswers(c) PROVE ChainLink'
  BY <1>1, <1>5, <1>6
  DEF Claim, ProxyAnswers, Client!SendResolves, Client!Reclaim, Client!AnswerTransient,
      Client!AnswerPaid
<1>10. ASSUME NEW r \in Requests, NEW w \in Workers, Arrives(r, w) PROVE ChainLink'
  BY <1>1, <1>10 DEF Arrives, Gate!Begin, clientVars
<1>7. ASSUME NEW r \in Requests, Served(r) \/ Denied(r) PROVE ChainLink'
  <2>1. r[1] \in Calls
    BY DEF Requests
  <2>2. QED
    BY <1>1, <1>5, <1>7, <2>1 DEF Served, Denied, Replied, clientVars
<1>8. CASE GateStep \/ PriceMoves \/ UNCHANGED vars
  BY <1>1, <1>8 DEF GateStep, PriceMoves, Gate!Tick, Gate!Restart, Gate!Verify,
                    Gate!FetchMisses, Gate!FetchFinds, clientVars, vars
<1>9. QED
  BY <1>2, <1>3, <1>4, <1>6, <1>7, <1>8, <1>10 DEF Next

\* A store of the service holds the signature of a call only if one of its requests was
\* let through.
LEMMA StoreHolds ==
  ASSUME SystemInv, NEW c \in Calls, NEW st \in Stores, c \in used[st]
  PROVE  phase[<<c, 1>>] = "accepted" \/ phase[<<c, 2>>] = "accepted"
<1>1. PICK v \in Requests : phase[v] = "accepted" /\ claim[v].sig = c
  BY DEF SystemInv, GateSide!IInv, GateSide!MarksAreAcceptances, GateSide!Accepted
<1>2. v[1] = c /\ v \in {<<c, 1>>, <<c, 2>>}
  BY <1>1 DEF SystemInv, Linked, ReplyLink, Requests
<1>3. QED
  BY <1>1, <1>2

\* What a step does to a verification.
Asked(r) ==
  /\ phase[r] = "idle" /\ r \in wire
  /\ claim'[r] \in GateSide!Claims /\ claim'[r].sig = r[1]
  /\ phase'[r] \in {"used", "fetching", "unavailable"}
  /\ phase'[r] = "used" => \E st \in Stores : r[1] \in used[st]
  /\ \A q \in Requests : GateSide!Over(q) => <<q, r>> \in after'
  /\ UNCHANGED <<reply, pc, proxied>>
  /\ \A q \in Requests \ {r} : phase'[q] = phase[q] /\ claim'[q] = claim[q]

Concluded(r) ==
  /\ phase[r] = "fetching" /\ chain[r[1]] # Absent
  /\ \/ phase'[r] = "accepted"
     \/ phase'[r] = "failed" /\ ~chain[r[1]].ok
     \/ phase'[r] = "tooOld" /\ clock - chain[r[1]].blockTime > MaxAge
     \/ phase'[r] = "undatable" /\ GateSide!StoreFor(r) = Absent
     \/ phase'[r] = "insufficient" /\ chain[r[1]].received < claim[r].required
  /\ UNCHANGED <<reply, pc, claim>>
  /\ \A q \in Requests \ {r} : phase'[q] = phase[q]

GaveUp ==
  /\ \A q \in Requests :
       \/ phase'[q] = phase[q]
       \/ phase[q] = "fetching" /\ phase'[q] \in {"unavailable", "lost"}
  /\ UNCHANGED <<reply, pc, claim>>

LEMMA GateSteps ==
  SystemInv /\ [Next]_vars =>
    /\ after \subseteq after'
    /\ \/ UNCHANGED <<phase, claim>>
       \/ \E r \in Requests : Asked(r) \/ Concluded(r)
       \/ GaveUp
<1> DEFINE Steps ==
      \/ UNCHANGED <<phase, claim>>
      \/ \E r \in Requests : Asked(r) \/ Concluded(r)
      \/ GaveUp
<1> SUFFICES ASSUME SystemInv, [Next]_vars PROVE after \subseteq after' /\ Steps
  OBVIOUS
<1>0. /\ phase \in [Requests -> GateSide!Phases]
      /\ claim \in [Requests -> GateSide!Claims \cup {Absent}]
  BY DEF SystemInv, GateSide!IInv, GateSide!TypeOK
<1>1. ASSUME NEW r \in Requests, NEW w \in Workers, Arrives(r, w)
      PROVE Asked(r) /\ after \subseteq after'
  <2>1. r[1] \in Calls /\ price \in Prices
    BY DEF Requests, SystemInv, PriceInv
  <2>2. /\ phase[r] = "idle" /\ r \in wire
        /\ claim' = [claim EXCEPT ![r] = [sig |-> r[1], required |-> price, worker |-> w]]
        /\ UNCHANGED <<reply, pc, proxied>>
    BY <1>1 DEF Arrives, Gate!Begin, clientVars, serviceVars
  <2>3. /\ phase'[r] \in {"used", "fetching", "unavailable"}
        /\ phase'[r] = "used" => \E st \in Stores : r[1] \in used[st]
        /\ \A q \in Requests \ {r} : phase'[q] = phase[q]
    BY <1>0, <1>1, SystemAssumption DEF Arrives, Gate!Begin, Gate!IsUsed
  <2>4. /\ \A q \in Requests : GateSide!Over(q) => <<q, r>> \in after'
        /\ after \subseteq after'
    BY <1>1 DEF Arrives, Gate!Begin, Gate!Over, GateSide!Over
  <2>5. claim'[r] \in GateSide!Claims /\ claim'[r].sig = r[1]
        /\ \A q \in Requests \ {r} : claim'[q] = claim[q]
    BY <1>0, <2>1, <2>2 DEF GateSide!Claims
  <2>6. QED
    BY <2>2, <2>3, <2>4, <2>5 DEF Asked
<1>2. ASSUME NEW r \in Requests, NEW dated \in BOOLEAN, Gate!FetchFinds(r, dated),
             UNCHANGED <<clientVars, serviceVars>>
      PROVE Concluded(r) /\ after' = after
  <2>1. phase[r] = "fetching" /\ claim[r] \in GateSide!Claims /\ claim[r].sig = r[1]
    BY <1>2 DEF Gate!FetchFinds, Gate!Fetching, SystemInv, Linked, ReplyLink
  <2> DEFINE verdict == Gate!Verdict(chain[r[1]], claim[r].required, dated, Gate!StoreFor(r))
  <2>2. /\ chain[r[1]] # Absent /\ claim' = claim /\ after' = after
        /\ phase' = [phase EXCEPT ![r] = verdict]
    BY <1>2, <2>1 DEF Gate!FetchFinds
  <2>3. \/ verdict = "accepted"
        \/ verdict = "failed" /\ ~chain[r[1]].ok
        \/ verdict = "tooOld" /\ clock - chain[r[1]].blockTime > MaxAge
        \/ verdict = "undatable" /\ GateSide!StoreFor(r) = Absent
        \/ verdict = "insufficient" /\ chain[r[1]].received < claim[r].required
    BY DEF Gate!Verdict, Gate!StoreFor, GateSide!StoreFor
  <2> HIDE DEF verdict
  <2>4. QED
    BY <1>0, <1>2, <2>1, <2>2, <2>3 DEF Concluded, clientVars, serviceVars
<1>3. ASSUME NEW r \in Requests, Gate!FetchMisses(r), UNCHANGED <<clientVars, serviceVars>>
      PROVE GaveUp /\ after' = after
  BY <1>0, <1>3 DEF Gate!FetchMisses, Gate!Fetching, GaveUp, clientVars, serviceVars
<1>4. ASSUME NEW w \in Workers, Gate!Restart(w), UNCHANGED <<clientVars, serviceVars>>
      PROVE GaveUp /\ after' = after
  BY <1>0, <1>4 DEF Gate!Restart, GaveUp, clientVars, serviceVars
<1>5. ASSUME GateStep PROVE after \subseteq after' /\ Steps
  <2>1. CASE Gate!Tick
    BY <2>1 DEF Gate!Tick
  <2>2. CASE \E w \in Workers : Gate!Restart(w)
    BY <1>4, <1>5, <2>2 DEF GateStep
  <2>3. CASE \E r \in Requests : Gate!Verify(r)
    BY <1>2, <1>3, <1>5, <2>3 DEF GateStep, Gate!Verify
  <2>4. QED
    BY <1>5, <2>1, <2>2, <2>3 DEF GateStep
<1>6. ASSUME NEW c \in Calls,
             ClientStep(c) \/ Claim(c) \/ Included(c) \/ Quoted(c) \/ ProxyAnswers(c)
      PROVE UNCHANGED <<phase, claim, after>>
  BY <1>6 DEF ClientStep, Claim, Included, Gate!Include, Quoted, ProxyAnswers, gateVars
<1>7. ASSUME NEW r \in Requests, Served(r) \/ Denied(r) PROVE UNCHANGED <<phase, claim, after>>
  BY <1>7 DEF Served, Denied, Replied, gateVars
<1>8. CASE PriceMoves \/ UNCHANGED vars
  BY <1>8 DEF PriceMoves, gateVars, vars
<1>9. QED
  BY <1>1, <1>5, <1>6, <1>7, <1>8 DEF Next

\* What a step does to the answers: one answer, once, in keeping with the verification.
Answered(r) ==
  /\ reply[r] = "none"
  /\ \/ reply'[r] \in {"ok", "transient"} /\ phase[r] = "accepted"
     \/ reply'[r] = "denied" /\ phase[r] \notin {"idle", "fetching", "accepted", "lost"}
  /\ UNCHANGED <<phase, claim, after, proxied>>
  /\ \A q \in Requests \ {r} : reply'[q] = reply[q]
  /\ \A c \in Calls :
       Repeating(c)' => Repeating(c) \/ (r = <<c, 1>> /\ reply'[r] = "transient")

LEMMA ReplySteps ==
  SystemInv /\ [Next]_vars =>
    \/ /\ UNCHANGED reply /\ proxied \subseteq proxied'
       /\ \A c \in Calls : Repeating(c)' => Repeating(c) \/ c \in proxied'
    \/ \E r \in Requests : Answered(r)
<1> DEFINE Silent ==
      /\ UNCHANGED reply /\ proxied \subseteq proxied'
      /\ \A c \in Calls : Repeating(c)' => Repeating(c) \/ c \in proxied'
<1> SUFFICES ASSUME SystemInv, [Next]_vars
             PROVE  Silent \/ \E r \in Requests : Answered(r)
  OBVIOUS
<1> USE DEF Repeating, Client!Goto, Client!End
<1>0. /\ reply \in [Requests -> Replies]
      /\ pc \in [Calls -> ClientSide!Stages]
  BY DEF SystemInv, Linked, Typed, ClientSide!IInv, ClientSide!TypeOK
<1>1. ASSUME NEW c \in Calls, Client!AnswerPaid(c), UNCHANGED wire, NEW d \in Calls, Repeating(d)'
      PROVE Repeating(d)
  BY <1>0, <1>1 DEF Client!AnswerPaid
<1>2. ASSUME NEW c \in Calls, TransientReaches(c), UNCHANGED wire, NEW d \in Calls, Repeating(d)'
      PROVE Repeating(d) \/ (d = c /\ pc[c] = "claiming")
  BY <1>0, <1>1, <1>2 DEF TransientReaches, Client!AnswerTransient
<1>3. ASSUME NEW c \in Calls, ClientStep(c) \/ Included(c) \/ Quoted(c) PROVE Silent
  BY <1>0, <1>3
  DEF ClientStep, Included, Quoted, serviceVars, proxyVars, Client!Start, Client!Abort,
      Client!Send, Client!SendThrows, Client!Broadcast, Client!RequestThrows, Client!Land,
      Client!FailOnChain, Client!RefuseChallenge, Client!AcceptChallenge
<1>4. ASSUME NEW c \in Calls, Claim(c) PROVE Silent
  <2>1. UNCHANGED <<reply, proxied>>
    BY <1>4 DEF Claim, serviceVars
  <2>2. CASE Client!SendResolves(c) /\ wire' = wire \cup {<<c, 1>>}
    BY <1>0, <2>1, <2>2 DEF Client!SendResolves
  <2>3. CASE Client!Reclaim(c) /\ wire' = wire \cup {<<c, 2>>}
    BY <1>0, <2>1, <2>3 DEF Client!Reclaim
  <2>4. QED
    BY <1>4, <2>2, <2>3 DEF Claim
<1>5. ASSUME NEW c \in Calls, ProxyAnswers(c) PROVE Silent
  BY <1>0, <1>1, <1>5 DEF ProxyAnswers, serviceVars, Client!AnswerTransient
<1>6. ASSUME NEW r \in Requests, Served(r) PROVE Answered(r)
  <2>1. r[1] \in Calls
    BY DEF Requests
  <2>2. Awaited(r) /\ pc[r[1]] = "claiming" => r = <<r[1], 1>>
    BY DEF Awaited, Current
  <2>3. /\ phase[r] = "accepted" /\ reply[r] = "none"
        /\ UNCHANGED <<phase, claim, after, proxied, wire>>
        /\ \A q \in Requests \ {r} : reply'[q] = reply[q]
    BY <1>0, <1>6 DEF Served, Replied, gateVars, proxyVars
  <2>4. CASE reply'[r] = "ok" /\ (Client!AnswerPaid(r[1]) \/ UNCHANGED clientVars)
    BY <1>1, <2>1, <2>3, <2>4 DEF Answered, clientVars
  <2>5. CASE reply'[r] = "transient" /\ UNCHANGED clientVars
    BY <2>3, <2>5 DEF Answered, clientVars
  <2>6. CASE reply'[r] = "transient" /\ Awaited(r) /\ TransientReaches(r[1])
    BY <1>2, <2>1, <2>2, <2>3, <2>6 DEF Answered
  <2>7. QED
    BY <1>0, <1>6, <2>4, <2>5, <2>6 DEF Served, Replied
<1>7. ASSUME NEW r \in Requests, Denied(r) PROVE Answered(r)
  <2>1. r[1] \in Calls
    BY DEF Requests
  <2>2. QED
    BY <1>0, <1>1, <1>7, <2>1 DEF Denied, Replied, Answered, gateVars, proxyVars, clientVars
<1>8. ASSUME NEW r \in Requests, NEW w \in Workers, Arrives(r, w) PROVE Silent
  BY <1>8 DEF Arrives, clientVars, serviceVars
<1>9. CASE GateStep \/ PriceMoves \/ UNCHANGED vars
  BY <1>9 DEF GateStep, PriceMoves, clientVars, serviceVars, proxyVars, vars
<1>10. QED
  BY <1>3, <1>4, <1>5, <1>6, <1>7, <1>8, <1>9 DEF Next

\* Time passes, and what is on the chain stays as it is.
LEMMA ChainSteps ==
  SystemInv /\ [Next]_vars =>
    /\ clock \in Nat /\ clock' \in Nat /\ clock' >= clock
    /\ \A c \in Calls : chain[c] # Absent =>
         chain'[c] = chain[c] /\ chain[c].blockTime \in Nat
<1> SUFFICES ASSUME SystemInv, [Next]_vars
             PROVE  /\ clock \in Nat /\ clock' \in Nat /\ clock' >= clock
                    /\ \A c \in Calls : chain[c] # Absent =>
                         chain'[c] = chain[c] /\ chain[c].blockTime \in Nat
  OBVIOUS
<1>1. /\ clock \in Nat
      /\ chain \in [Calls -> GateSide!Transactions \cup {Absent}]
      /\ \A t \in GateSide!Transactions : t.blockTime \in Nat
  BY GateConfigured
  DEF SystemInv, GateSide!IInv, GateSide!TypeOK, GateSide!Times, GateSide!Transactions
<1>2. [Gate!Next]_(Gate!vars)
  BY GateMoves DEF SystemInv
<1>3. CASE Gate!Tick
  BY <1>1, <1>3 DEF Gate!Tick
<1>4. ASSUME NEW s \in Calls, NEW ok, NEW received, Gate!Include(s, ok, received)
      PROVE /\ clock' = clock
            /\ \A c \in Calls : chain[c] # Absent => chain'[c] = chain[c]
  BY <1>1, <1>4 DEF Gate!Include
<1>5. CASE clock' = clock /\ chain' = chain
  BY <1>1, <1>5
<1>6. QED
  BY <1>1, <1>2, <1>3, <1>4, <1>5
  DEF Gate!Next, Gate!Verify, Gate!Restart, Gate!Begin, Gate!FetchMisses, Gate!FetchFinds, Gate!vars

\* Answers agree with verifications: an answered request is verified no further.
LEMMA ReplyLinkKept == SystemInv /\ [Next]_vars => ReplyLink'
<1> SUFFICES ASSUME SystemInv, [Next]_vars, NEW q \in Requests
             PROVE  /\ phase'[q] # "idle" => claim'[q] \in GateSide!Claims /\ claim'[q].sig = q[1]
                    /\ reply'[q] \in {"ok", "transient"} => phase'[q] = "accepted"
                    /\ reply'[q] = "denied" =>
                         phase'[q] \notin {"idle", "fetching", "accepted", "lost"}
  BY DEF ReplyLink
<1>0. /\ phase[q] # "idle" => claim[q] \in GateSide!Claims /\ claim[q].sig = q[1]
      /\ reply[q] \in {"ok", "transient"} => phase[q] = "accepted"
      /\ reply[q] = "denied" => phase[q] \notin {"idle", "fetching", "accepted", "lost"}
  BY DEF SystemInv, Linked, ReplyLink
<1>5. reply[q] \in Replies
  BY DEF SystemInv, Linked, Typed
<1>1. CASE UNCHANGED <<phase, claim>>
  <2>1. CASE UNCHANGED reply
    BY <1>0, <1>1, <2>1
  <2>2. ASSUME NEW r \in Requests, Answered(r) PROVE reply'[q] = reply[q] \/ q = r
    BY <2>2 DEF Answered
  <2>3. ASSUME NEW r \in Requests, Answered(r), q = r
        PROVE  \/ reply'[q] \in {"ok", "transient"} /\ phase[q] = "accepted"
               \/ /\ reply'[q] = "denied"
                  /\ phase[q] \notin {"idle", "fetching", "accepted", "lost"}
    BY <2>3 DEF Answered
  <2>4. QED
    BY <1>0, <1>1, <2>1, <2>2, <2>3, ReplySteps
<1>2. ASSUME NEW r \in Requests, Asked(r)
      PROVE  /\ reply'[q] = reply[q]
             /\ q # r => phase'[q] = phase[q] /\ claim'[q] = claim[q]
             /\ q = r => reply[q] = "none" /\ claim'[q] \in GateSide!Claims /\ claim'[q].sig = q[1]
  BY <1>0, <1>2, <1>5 DEF Asked, Replies
<1>3. ASSUME NEW r \in Requests, Concluded(r)
      PROVE  /\ reply'[q] = reply[q] /\ claim'[q] = claim[q]
             /\ q # r => phase'[q] = phase[q]
             /\ q = r => phase[q] = "fetching"
  BY <1>3 DEF Concluded
<1>4. ASSUME GaveUp
      PROVE  /\ reply'[q] = reply[q] /\ claim'[q] = claim[q]
             /\ phase'[q] = phase[q] \/ phase[q] = "fetching"
  BY <1>4 DEF GaveUp
<1>6. QED
  BY <1>0, <1>1, <1>2, <1>3, <1>4, <1>5, GateSteps DEF Replies

\* The handler's transient answer ends the first verification before the request is repeated.
LEMMA RetryLinkKept == SystemInv /\ [Next]_vars => RetryLink'
<1> SUFFICES ASSUME SystemInv, [Next]_vars, NEW c \in Calls, c \notin proxied'
             PROVE  /\ Repeating(c)' => reply'[<<c, 1>>] = "transient"
                    /\ phase'[<<c, 2>>] # "idle" => <<<<c, 1>>, <<c, 2>>>> \in after'
  BY DEF RetryLink
<1>1. <<c, 1>> \in Requests /\ <<c, 2>> \in Requests
  BY DEF Requests
<1>2. c \notin proxied
  BY ReplySteps DEF Answered
<1>3. /\ Repeating(c) => reply[<<c, 1>>] = "transient"
      /\ phase[<<c, 2>>] # "idle" => <<<<c, 1>>, <<c, 2>>>> \in after
      /\ reply[<<c, 1>>] = "transient" => phase[<<c, 1>>] = "accepted"
  BY <1>1, <1>2 DEF SystemInv, Linked, RetryLink, ReplyLink
<1>4. Repeating(c)' => reply'[<<c, 1>>] = "transient"
  BY <1>1, <1>3, ReplySteps DEF Answered
<1>5. ASSUME NEW r \in Requests, Asked(r), phase'[<<c, 2>>] # "idle"
      PROVE <<<<c, 1>>, <<c, 2>>>> \in after'
  <2>1. CASE r = <<c, 2>>
    <3>1. GateSide!Over(<<c, 1>>)
      BY <1>3, <1>5, <2>1 DEF Asked, Repeating, GateSide!Over
    <3>2. QED
      BY <1>1, <1>5, <2>1, <3>1 DEF Asked
  <2>2. CASE r # <<c, 2>>
    BY <1>1, <1>3, <1>5, <2>2, GateSteps DEF Asked
  <2>3. QED
    BY <2>1, <2>2
<1>6. ASSUME NEW r \in Requests, Concluded(r), phase'[<<c, 2>>] # "idle"
      PROVE phase[<<c, 2>>] # "idle"
  BY <1>1, <1>6 DEF Concluded
<1>7. ASSUME GaveUp, phase'[<<c, 2>>] # "idle" PROVE phase[<<c, 2>>] # "idle"
  BY <1>1, <1>7 DEF GaveUp
<1>8. QED
  BY <1>3, <1>4, <1>5, <1>6, <1>7, GateSteps

\* A verdict is about a transaction that is there to stay; the mark it may be about is
\* one the call's own other request made.
LEMMA VerdictLinkKept == SystemInv /\ [Next]_vars => VerdictLink'
<1> DEFINE Holds(q) ==
      /\ phase[q] = "used" => phase[Other(q)] = "accepted"
      /\ phase[q] \in {"failed", "tooOld", "insufficient"} => chain[q[1]] # Absent
      /\ phase[q] = "failed" => ~chain[q[1]].ok
      /\ phase[q] = "tooOld" => clock - chain[q[1]].blockTime > MaxAge
      /\ phase[q] = "insufficient" => chain[q[1]].received < claim[q].required
      /\ phase[q] = "undatable" => GateSide!StoreFor(q) = Absent
<1> SUFFICES ASSUME SystemInv, [Next]_vars, NEW q \in Requests PROVE Holds(q)'
  BY DEF VerdictLink
<1>1. Holds(q)
  BY DEF SystemInv, Linked, VerdictLink
<1>2. q[1] \in Calls /\ Other(q) \in Requests /\ {<<q[1], 1>>, <<q[1], 2>>} = {q, Other(q)}
  BY DEF Requests, Other
<1>3. /\ clock \in Nat /\ clock' \in Nat /\ clock' >= clock /\ MaxAge \in Nat
      /\ chain[q[1]] # Absent => chain'[q[1]] = chain[q[1]] /\ chain[q[1]].blockTime \in Nat
  BY <1>2, ChainSteps, SystemAssumption
<1>4. phase[Other(q)] = "accepted" => phase'[Other(q)] = "accepted"
  BY <1>2, GateSteps DEF Asked, Concluded, GaveUp
<1>5. ASSUME phase'[q] = phase[q], claim'[q] = claim[q] \/ phase[q] = "idle" PROVE Holds(q)'
  <2>1. phase[q] = "tooOld" => clock' - chain'[q[1]].blockTime > MaxAge
    BY <1>1, <1>3
  <2>2. QED
    BY <1>1, <1>3, <1>4, <1>5, <2>1 DEF GateSide!StoreFor
<1>6. CASE UNCHANGED <<phase, claim>>
  BY <1>5, <1>6
<1>7. ASSUME NEW r \in Requests, Asked(r) PROVE Holds(q)'
  <2>1. CASE r = q /\ phase'[q] = "used"
    <3>1. phase[<<q[1], 1>>] = "accepted" \/ phase[<<q[1], 2>>] = "accepted"
      BY <1>2, <1>7, <2>1, StoreHolds DEF Asked
    <3>2. phase[Other(q)] = "accepted"
      BY <1>2, <1>7, <2>1, <3>1 DEF Asked
    <3>3. QED
      BY <1>4, <2>1, <3>2
  <2>2. CASE r = q /\ phase'[q] # "used"
    BY <1>7, <2>2 DEF Asked
  <2>3. CASE r # q
    BY <1>5, <1>7, <2>3 DEF Asked
  <2>4. QED
    BY <2>1, <2>2, <2>3
<1>8. ASSUME NEW r \in Requests, Concluded(r) PROVE Holds(q)'
  <2>1. CASE r = q
    <3>1. /\ chain[q[1]] # Absent /\ claim'[q] = claim[q]
          /\ \/ phase'[q] = "accepted"
             \/ phase'[q] = "failed" /\ ~chain[q[1]].ok
             \/ phase'[q] = "tooOld" /\ clock - chain[q[1]].blockTime > MaxAge
             \/ phase'[q] = "undatable" /\ GateSide!StoreFor(q) = Absent
             \/ phase'[q] = "insufficient" /\ chain[q[1]].received < claim[q].required
      BY <1>8, <2>1 DEF Concluded
    <3>2. phase'[q] = "tooOld" => clock' - chain'[q[1]].blockTime > MaxAge
      BY <1>3, <3>1
    <3>3. QED
      BY <1>3, <3>1, <3>2 DEF GateSide!StoreFor
  <2>2. CASE r # q
    BY <1>5, <1>8, <2>2 DEF Concluded
  <2>3. QED
    BY <2>1, <2>2
<1>9. CASE GaveUp
  <2>1. CASE phase'[q] = phase[q]
    BY <1>5, <1>9, <2>1 DEF GaveUp
  <2>2. CASE phase'[q] \in {"unavailable", "lost"}
    BY <2>2
  <2>3. QED
    BY <1>9, <2>1, <2>2 DEF GaveUp
<1>10. QED
  BY <1>6, <1>7, <1>8, <1>9, GateSteps

-----------------------------------------------------------------------------
\* The link holds in every reachable state, with the invariants of the two sides.
THEOREM Inductive == Spec => []SystemInv
<1>1. Init => PriceInv /\ Linked
  BY InitLinked DEF Init, PriceInv
<1>2. SystemInv /\ [Next]_vars => Linked'
  BY TypedKept, ChainLinkKept, ReplyLinkKept, RetryLinkKept, VerdictLinkKept DEF Linked
<1>3. SystemInv <=> PriceInv /\ ClientSide!IInv /\ GateSide!IInv /\ Linked
  BY DEF SystemInv
<1>4. QED
  BY <1>1, <1>2, <1>3, PriceKept, ClientInv, GateInv, PTL DEF Spec

\* A signature buys one service, with any workers and stores, any lateness and any
\* retries, short of a mark that is missing or a proxy that answered for the handler.
THEOREM OneForOne == Spec => []OnePaymentOneService
<1>1. SystemInv => OnePaymentOneService
  <2> SUFFICES ASSUME SystemInv, NEW c \in Calls,
                      GateSide!Accepted(<<c, 1>>), GateSide!Accepted(<<c, 2>>),
                      GateSide!SameMark(<<c, 1>>, <<c, 2>>)
               PROVE  \/ <<<<c, 1>>, <<c, 2>>>> \in after /\ <<c, 1>> \in unmarked
                      \/ /\ c \in proxied
                         /\ <<<<c, 1>>, <<c, 2>>>> \notin after
                         /\ <<<<c, 2>>, <<c, 1>>>> \in after => <<c, 2>> \in unmarked
    BY DEF OnePaymentOneService, Gate!Accepted, GateSide!Accepted, Gate!SameMark,
           GateSide!SameMark, Gate!StoreFor, GateSide!StoreFor
  <2>1. <<c, 1>> \in Requests /\ <<c, 2>> \in Requests
    BY DEF Requests
  <2>2. GateSide!MarkedIsSpent
    BY DEF SystemInv, GateSide!IInv, GateSide!GateInv, GateSide!MarkedIsSpent
  <2>3. GateSide!SameMark(<<c, 2>>, <<c, 1>>)
    BY DEF GateSide!SameMark
  <2>4. /\ <<<<c, 1>>, <<c, 2>>>> \in after => <<c, 1>> \in unmarked
        /\ <<<<c, 2>>, <<c, 1>>>> \in after => <<c, 2>> \in unmarked
    BY <2>1, <2>2, <2>3 DEF GateSide!MarkedIsSpent
  <2>5. c \notin proxied => <<<<c, 1>>, <<c, 2>>>> \in after
    BY DEF SystemInv, Linked, RetryLink, GateSide!Accepted
  <2>6. QED
    BY <2>4, <2>5
<1>2. QED
  BY <1>1, Inductive, PTL

\* The service is paid for what it serves, by the call it serves.
THEOREM PaidByTheCall == Spec => []ServedIsPaid
<1>1. SystemInv => ServedIsPaid
  <2> SUFFICES ASSUME SystemInv, NEW c \in Calls, NEW n \in {1, 2}, reply[<<c, n>>] = "ok"
               PROVE  tx[c] = "landed" /\ offer[c].amount >= claim[<<c, n>>].required
    BY DEF ServedIsPaid
  <2>1. <<c, n>> \in Requests
    BY DEF Requests
  <2>2. phase[<<c, n>>] = "accepted" /\ claim[<<c, n>>].sig = c
    BY <2>1 DEF SystemInv, Linked, ReplyLink
  <2>3. chain[c] # Absent /\ chain[c].ok /\ chain[c].received >= claim[<<c, n>>].required
    BY <2>1, <2>2 DEF SystemInv, GateSide!IInv, GateSide!AcceptedIsPaid, GateSide!Accepted
  <2>4. tx[c] \in {"none", "broadcast", "landed", "failed"}
    BY DEF SystemInv, ClientSide!IInv, ClientSide!TypeOK
  <2>5. QED
    BY <2>3, <2>4 DEF SystemInv, Linked, ChainLink
<1>2. QED
  BY <1>1, Inductive, PTL

\* A payment that landed is denied only for the reasons the service has.
THEOREM DeniedForAReason == Spec => []DenialIsExplained
<1>1. SystemInv => DenialIsExplained
  <2> SUFFICES ASSUME SystemInv, NEW c \in Calls, NEW n \in {1, 2},
                      reply[<<c, n>>] = "denied", tx[c] = "landed"
               PROVE  \/ claim[<<c, n>>].required > offer[c].amount
                      \/ clock - chain[c].blockTime > MaxAge
                      \/ phase[<<c, n>>] = "unavailable"
                      \/ phase[<<c, n>>] = "undatable" /\ GateSide!StoreFor(<<c, n>>) = Absent
                      \/ phase[<<c, 3 - n>>] = "accepted"
    BY DEF DenialIsExplained, Gate!Accepted, Gate!StoreFor, GateSide!StoreFor
  <2>1. <<c, n>> \in Requests
    BY DEF Requests
  <2>2. phase[<<c, n>>] \in {"used", "unavailable", "failed", "tooOld", "undatable", "insufficient"}
    BY <2>1 DEF SystemInv, Linked, ReplyLink, VerdictLink, GateSide!IInv, GateSide!TypeOK,
                GateSide!Phases
  <2>3. chain[c].ok /\ chain[c].received = offer[c].amount
    BY DEF SystemInv, Linked, ChainLink
  <2>4. offer[c].amount \in Nat /\ claim[<<c, n>>].required \in Nat
    <3>1. offer[c].amount \in Prices
      BY OfferPays DEF SystemInv
    <3>2. claim[<<c, n>>] \in GateSide!Claims
      BY <2>1, <2>2 DEF SystemInv, Linked, ReplyLink
    <3>3. QED
      BY <3>1, <3>2, GateConfigured DEF GateSide!Claims
  <2>5. QED
    BY <2>1, <2>2, <2>3, <2>4 DEF SystemInv, Linked, VerdictLink, Other
<1>2. QED
  BY <1>1, Inductive, PTL

\* In the loop, the client still keeps its promise to the wallet's owner.
THEOREM ClientKeepsPromise == Spec => ClientSide!KeepsPromise
  BY ClientBehaves, SameClient, ClientSide!Refinement, ClientConfigured, PTL

\* Every variable of the loop keeps its type.
THEOREM TypeCorrect == Spec => []TypeOK
<1>1. SystemInv => TypeOK
  <2>1. ClientSide!IInv => Client!TypeOK
    BY DEF ClientSide!IInv, ClientSide!TypeOK, Client!TypeOK, ClientSide!Stages, Client!Stages,
           ClientSide!Offers, Client!Offers, ClientSide!Outcomes, Client!Outcomes,
           ClientSide!Refusals, Client!Refusals, ClientSide!Assets, Client!Assets
  <2>2. GateSide!IInv => Gate!TypeOK
    BY DEF GateSide!IInv, GateSide!TypeOK, Gate!TypeOK, GateSide!Times, Gate!Times,
           GateSide!Transactions, Gate!Transactions, GateSide!Claims, Gate!Claims,
           GateSide!Phases, Gate!Phases
  <2>3. QED
    BY <2>1, <2>2 DEF SystemInv, PriceInv, Linked, Typed, TypeOK
<1>2. QED
  BY <1>1, Inductive, PTL
=============================================================================
