------------------------- MODULE MoneyFlows_proofs -------------------------
(* The wallet and the flows over it, for any number of sends, connections    *)
(* and key rotations, any balances and anything a server may ask to sign: a  *)
(* send moves the money at most once, an error without a signature means     *)
(* that nothing went out, a purchase can be traced, and the key on file is   *)
(* the one that works.                                                       *)
EXTENDS MoneyFlows, FiniteSetTheorems, TLAPS

-----------------------------------------------------------------------------
(* The wallet.                                                             *)

\* All attempts of a send carry the bytes that were signed once.
OneSignature(s) == \A i \in Connections : i # 1 => tx[s][i] = "none"

\* Nothing is signed before the send leaves the preparation.
Fresh(s) ==
  at[s] \in {"idle", "preparing"} => tx[s][1] = "none" /\ reaching[s] = {} /\ ~missed[s]

\* What the outcome of a send says of its transaction.
Truthful(s) ==
  /\ at[s] = "ended" <=> outcome[s] # "none"
  /\ outcome[s] = "resolved" => tx[s][1] \in {"landed", "failed"}
  /\ outcome[s] = "refused" => tx[s][1] = "none" /\ reaching[s] = {}

\* As long as every answer was heard, at most the current attempt is under way, and
\* the nodes know of nothing when the send gives up on it.
Heard(s) ==
  ~missed[s] =>
    /\ at[s] = "sending" => reaching[s] \subseteq {conn[s]} /\ tx[s][1] \in {"signed", "stale"}
    /\ at[s] = "confirming" => reaching[s] = {}
    /\ at[s] \in {"probingCirc", "probingSol"} \/ outcome[s] \in {"failed", "insufficient"} =>
         reaching[s] = {} /\ tx[s][1] \in {"none", "signed", "stale"}

SendInv(s) == OneSignature(s) /\ Fresh(s) /\ Truthful(s) /\ Heard(s)

WalletInv == WalletTypeOK /\ \A s \in Sends : SendInv(s)

-----------------------------------------------------------------------------
(* The flows.                                                              *)

\* Where a flow stands, and what its send has come to by then.
FlowInv(s) ==
  /\ flow[s] \in {"idle", "quoting", "confirming", "building"} => at[s] = "idle"
  /\ flow[s] \in {"building", "verifying", "answering", "sleeping"} => kind[s] = "server"
  /\ flow[s] \in {"verifying", "answering", "sleeping", "named", "done"} => at[s] = "ended"
  /\ flow[s] = "answering" => s \in ledger
  /\ flow[s] = "done" /\ kind[s] = "server" => s \in ledger \/ s \in blank
  /\ flow[s] = "failed" => at[s] = "idle" \/ outcome[s] \in {"failed", "insufficient", "refused"}
  /\ s \in ledger => tx[s][1] = "landed"

\* A key is on its way while its flow or rotation waits for the answer.
Carried ==
  /\ \A s \in Sends : carries[s] # 0 => flow[s] = "answering"
  /\ \A r \in Rotations : carries[r] # 0 <=> rotation[r] = "answering"
  /\ \A x \in Sends \cup Rotations : carries[x] <= key

\* While none went astray, the valid key is on its way to one of them or on file.
Accounted ==
  ~astray =>
    /\ \A x \in Sends \cup Rotations : carries[x] # 0 =>
         carries[x] = key /\ \A y \in Sends \cup Rotations : carries[y] # 0 => y = x
    /\ (\A x \in Sends \cup Rotations : carries[x] = 0) => keyFile = key

KeyInv == Carried /\ Accounted

Inv == TypeOK /\ WalletInv /\ (\A s \in Sends : FlowInv(s)) /\ KeyInv

-----------------------------------------------------------------------------
(* The wallet's invariant.                                                 *)

\* Before a flow has begun its send, the kind of it can still change.
Choose(s) ==
  /\ at[s] = "idle"
  /\ \E k \in Kinds : kind' = [kind EXCEPT ![s] = k]
  /\ UNCHANGED <<at, conn, reaching, tx, outcome, funds, missed>>

\* A send that another one's step leaves alone.
Apart(q) ==
  /\ at'[q] = at[q] /\ conn'[q] = conn[q] /\ reaching'[q] = reaching[q]
  /\ tx'[q] = tx[q] /\ outcome'[q] = outcome[q] /\ missed'[q] = missed[q]

LEMMA ApartKeeps == ASSUME NEW q \in Sends, SendInv(q), Apart(q) PROVE SendInv(q)'
  BY DEF SendInv, Apart, OneSignature, Fresh, Truthful, Heard

LEMMA FirstConnection == 1 \in Connections
  BY WalletAssumption DEF Connections

LEMMA InitWalletInv == WalletInit => WalletInv
<1> SUFFICES ASSUME WalletInit PROVE WalletInv
  OBVIOUS
<1>1. WalletTypeOK
  BY FirstConnection, WalletAssumption DEF WalletInit, WalletTypeOK, Kinds, Stages, Outcomes, OnChain
<1>2. \A s \in Sends : SendInv(s)
  BY FirstConnection DEF WalletInit, SendInv, OneSignature, Fresh, Truthful, Heard
<1> QED BY <1>1, <1>2 DEF WalletInv

\* How a send goes on when it throws.
LEMMA ThrowFacts ==
  ASSUME WalletTypeOK, NEW s \in Sends, Throw(s), outcome[s] = "none"
  PROVE  /\ at' \in [Sends -> Stages] /\ outcome' \in [Sends -> Outcomes]
         /\ \A q \in Sends \ {s} : at'[q] = at[q] /\ outcome'[q] = outcome[q]
         /\ \/ at'[s] \in {"probingCirc", "probingSol"} /\ outcome'[s] = "none"
            \/ at'[s] = "ended" /\ outcome'[s] = "failed"
  BY DEF Throw, WalletTypeOK, Stages, Outcomes

\* What an attempt that was given up leads to.
LEMMA AdvanceFacts ==
  ASSUME WalletTypeOK, NEW s \in Sends, NEW carried \in SUBSET Connections,
         Advance(s, carried), outcome[s] = "none"
  PROVE  /\ at' \in [Sends -> Stages] /\ outcome' \in [Sends -> Outcomes]
         /\ conn' \in [Sends -> Connections] /\ reaching' \in [Sends -> SUBSET Connections]
         /\ tx' \in [Sends -> [Connections -> OnChain]]
         /\ \A q \in Sends \ {s} :
              /\ at'[q] = at[q] /\ outcome'[q] = outcome[q] /\ conn'[q] = conn[q]
              /\ reaching'[q] = reaching[q] /\ tx'[q] = tx[q]
         /\ \A i \in Connections \ {1} : tx'[s][i] = tx[s][i]
         /\ \/ /\ at'[s] = "sending" /\ outcome'[s] = "none"
               /\ reaching'[s] = carried \cup {conn'[s]}
               /\ tx'[s][1] = IF tx[s][1] = "none" THEN "signed" ELSE tx[s][1]
            \/ /\ at'[s] \in {"probingCirc", "probingSol"} /\ outcome'[s] = "none"
               /\ reaching'[s] = carried /\ tx'[s] = tx[s]
            \/ /\ at'[s] = "ended" /\ outcome'[s] = "failed"
               /\ reaching'[s] = carried /\ tx'[s] = tx[s]
<1> USE DEF Advance, SignatureOf
<1>1. CASE conn[s] < N
  <2>1. conn[s] + 1 \in Connections /\ 1 \in Connections
    BY <1>1, WalletAssumption DEF WalletTypeOK, Connections
  <2>2. tx' = [tx EXCEPT ![s] = [tx[s] EXCEPT ![1] = IF tx[s][1] = "none" THEN "signed" ELSE tx[s][1]]]
    BY <1>1
  <2>3. [tx[s] EXCEPT ![1] = IF tx[s][1] = "none" THEN "signed" ELSE tx[s][1]] \in [Connections -> OnChain]
    BY <2>1 DEF WalletTypeOK, OnChain
  <2>4. /\ tx' \in [Sends -> [Connections -> OnChain]]
        /\ \A q \in Sends \ {s} : tx'[q] = tx[q]
        /\ tx'[s] = [tx[s] EXCEPT ![1] = IF tx[s][1] = "none" THEN "signed" ELSE tx[s][1]]
    BY <2>2, <2>3 DEF WalletTypeOK
  <2>5. /\ \A i \in Connections \ {1} : tx'[s][i] = tx[s][i]
        /\ tx'[s][1] = IF tx[s][1] = "none" THEN "signed" ELSE tx[s][1]
    BY <2>1, <2>4 DEF WalletTypeOK
  <2>6. /\ at' \in [Sends -> Stages] /\ outcome' \in [Sends -> Outcomes]
        /\ conn' \in [Sends -> Connections] /\ reaching' \in [Sends -> SUBSET Connections]
        /\ \A q \in Sends \ {s} :
             at'[q] = at[q] /\ outcome'[q] = outcome[q] /\ conn'[q] = conn[q] /\ reaching'[q] = reaching[q]
        /\ at'[s] = "sending" /\ outcome'[s] = "none" /\ reaching'[s] = carried \cup {conn'[s]}
    <3>1. /\ at' = [at EXCEPT ![s] = "sending"] /\ conn' = [conn EXCEPT ![s] = @ + 1]
          /\ reaching' = [reaching EXCEPT ![s] = carried \cup {conn[s] + 1}] /\ outcome' = outcome
      BY <1>1
    <3> HIDE DEF Advance
    <3> QED BY <2>1, <3>1 DEF WalletTypeOK, Stages
  <2> QED BY <2>4, <2>5, <2>6
<1>2. CASE ~(conn[s] < N)
  BY <1>2, ThrowFacts DEF WalletTypeOK
<1> QED BY <1>1, <1>2

\* The steps before anything is sent.
LEMMA BeginKeeps == ASSUME WalletInv, NEW s \in Sends, Begin(s) \/ Choose(s) PROVE WalletInv'
<1> USE DEF WalletInv, WalletTypeOK
<1>1. CASE (\E k \in Kinds : Prepare(s, k)) \/ Choose(s)
  <2>1. WalletTypeOK'
    BY <1>1 DEF Prepare, Choose, Stages
  <2>2. \A q \in Sends \ {s} : Apart(q)
    BY <1>1 DEF Prepare, Choose, Apart
  <2>3. SendInv(s)'
    BY <1>1 DEF Prepare, Choose, SendInv, OneSignature, Fresh, Truthful, Heard
  <2> QED BY <2>1, <2>2, <2>3, ApartKeeps
<1>2. ASSUME NEW instructions, NEW payee, Countersign(s, instructions, payee) PROVE WalletInv'
  <2>1. CASE FirstAttempt(s) /\ UNCHANGED outcome
    <3> USE DEF Countersign, FirstAttempt, SignatureOf
    <3>1. WalletTypeOK'
      BY <1>2, <2>1, FirstConnection DEF Stages, Kinds, OnChain
    <3>2. \A q \in Sends \ {s} : Apart(q)
      BY <1>2, <2>1 DEF Apart
    <3>3. SendInv(s)'
      BY <1>2, <2>1, FirstConnection DEF SendInv, OneSignature, Fresh, Truthful, Heard
    <3> QED BY <3>1, <3>2, <3>3, ApartKeeps
  <2>2. CASE Finish(s, "refused") /\ UNCHANGED <<conn, reaching, tx>>
    <3> USE DEF Countersign, Finish
    <3>1. WalletTypeOK'
      BY <1>2, <2>2 DEF Stages, Kinds, Outcomes
    <3>2. \A q \in Sends \ {s} : Apart(q)
      BY <1>2, <2>2 DEF Apart
    <3>3. SendInv(s)'
      BY <1>2, <2>2 DEF SendInv, OneSignature, Fresh, Truthful, Heard
    <3> QED BY <3>1, <3>2, <3>3, ApartKeeps
  <2> QED BY <1>2, <2>1, <2>2 DEF Countersign
<1> QED BY <1>1, <1>2 DEF Begin

\* The steps of a send that throws.
LEMMA ThrowKeeps ==
  ASSUME WalletInv, NEW s \in Sends,
         \/ PrepareFails(s) \/ Breaks(s) \/ ConfirmBreaks(s)
         \/ \E k \in Connections : RejectHeard(s, k)
  PROVE  WalletInv'
<1> USE DEF WalletInv
<1>1. at[s] \in {"preparing", "sending", "confirming"} /\ outcome[s] = "none" /\ Throw(s)
  BY DEF PrepareFails, Breaks, ConfirmBreaks, RejectHeard, Waiting, SendInv, Truthful
<1>2. /\ kind' = kind /\ conn' = conn /\ tx' = tx /\ funds' = funds
      /\ missed' \in [Sends -> BOOLEAN] /\ \A q \in Sends \ {s} : missed'[q] = missed[q]
      /\ reaching' \in [Sends -> SUBSET Connections]
      /\ \A q \in Sends \ {s} : reaching'[q] = reaching[q]
  BY DEF PrepareFails, Breaks, ConfirmBreaks, RejectHeard, WalletTypeOK
<1>3. \/ missed'[s]
      \/ missed'[s] = missed[s] /\ reaching' = reaching /\ at[s] = "preparing"
      \/ \E k \in Connections : /\ missed'[s] = missed[s] /\ at[s] = "sending" /\ conn[s] = k
                                /\ reaching'[s] = reaching[s] \ {k}
  BY DEF PrepareFails, Breaks, ConfirmBreaks, RejectHeard, Waiting, WalletTypeOK
<1>4. WalletTypeOK'
  BY <1>1, <1>2, ThrowFacts DEF WalletTypeOK
<1>5. \A q \in Sends \ {s} : Apart(q)
  BY <1>1, <1>2, ThrowFacts DEF Apart
<1>6. SendInv(s)'
  <2>1. \/ at'[s] \in {"probingCirc", "probingSol"} /\ outcome'[s] = "none"
        \/ at'[s] = "ended" /\ outcome'[s] = "failed"
    BY <1>1, ThrowFacts
  <2>2. OneSignature(s)' /\ Fresh(s)' /\ Truthful(s)'
    BY <1>2, <2>1 DEF SendInv, OneSignature, Fresh, Truthful
  <2>3. Heard(s)'
    BY <1>2, <1>3, <2>1 DEF SendInv, Fresh, Heard
  <2> QED BY <2>2, <2>3 DEF SendInv
<1> QED BY <1>4, <1>5, <1>6, ApartKeeps

\* The attempts that are given up.
LEMMA AdvanceKeeps ==
  ASSUME WalletInv, NEW s \in Sends, RateLimited(s) \/ TimesOut(s) \/ ConfirmTimesOut(s)
  PROVE  WalletInv'
<1> USE DEF WalletInv
<1>1. /\ at[s] \in {"sending", "confirming"} /\ outcome[s] = "none"
      /\ kind' = kind /\ funds' = funds
      /\ missed' \in [Sends -> BOOLEAN] /\ \A q \in Sends \ {s} : missed'[q] = missed[q]
  BY DEF RateLimited, TimesOut, ConfirmTimesOut, SendInv, Truthful, WalletTypeOK
<1>2. PICK carried \in SUBSET Connections :
        /\ Advance(s, carried)
        /\ \/ missed'[s]
           \/ missed'[s] = missed[s] /\ at[s] = "sending" /\ carried = reaching[s] \ {conn[s]}
  BY DEF RateLimited, TimesOut, ConfirmTimesOut, WalletTypeOK
<1>3. WalletTypeOK'
  BY <1>1, <1>2, AdvanceFacts DEF WalletTypeOK
<1>4. \A q \in Sends \ {s} : Apart(q)
  BY <1>1, <1>2, AdvanceFacts DEF Apart
<1>5. SendInv(s)'
  <2>1. /\ \A i \in Connections \ {1} : tx'[s][i] = tx[s][i]
        /\ \/ /\ at'[s] = "sending" /\ outcome'[s] = "none"
              /\ reaching'[s] = carried \cup {conn'[s]}
              /\ tx'[s][1] = IF tx[s][1] = "none" THEN "signed" ELSE tx[s][1]
           \/ /\ at'[s] \in {"probingCirc", "probingSol"} /\ outcome'[s] = "none"
              /\ reaching'[s] = carried /\ tx'[s] = tx[s]
           \/ /\ at'[s] = "ended" /\ outcome'[s] = "failed"
              /\ reaching'[s] = carried /\ tx'[s] = tx[s]
    BY <1>1, <1>2, AdvanceFacts
  <2>2. OneSignature(s)' /\ Fresh(s)' /\ Truthful(s)'
    BY <2>1 DEF SendInv, OneSignature, Fresh, Truthful
  <2>3. Heard(s)'
    <3>1. CASE missed'[s]
      BY <3>1 DEF Heard
    <3>2. CASE ~missed'[s]
      <4>1. ~missed[s] /\ at[s] = "sending" /\ carried = {} /\ tx[s][1] \in {"signed", "stale"}
        BY <1>2, <3>2 DEF SendInv, Heard
      <4> QED BY <2>1, <4>1 DEF Heard
    <3> QED BY <3>1, <3>2
  <2> QED BY <2>2, <2>3 DEF SendInv
<1> QED BY <1>3, <1>4, <1>5, ApartKeeps

\* The steps of a send that change no transaction.
LEMMA EndKeeps ==
  ASSUME WalletInv, NEW s \in Sends,
         Confirmed(s) \/ AskElsewhere(s) \/ Unconfirmed(s) \/ ProbeCirc(s) \/ ProbeSol(s) \/ ProbeFails(s)
  PROVE  WalletInv'
<1> USE DEF WalletInv, Finish
<1>1. kind' = kind /\ reaching' = reaching /\ tx' = tx /\ funds' = funds /\ missed' = missed
  BY DEF Confirmed, AskElsewhere, Unconfirmed, ProbeCirc, ProbeSol, ProbeFails
<1>2. /\ conn' \in [Sends -> Connections] /\ \A q \in Sends \ {s} : conn'[q] = conn[q]
  BY WalletAssumption DEF Confirmed, AskElsewhere, Unconfirmed, ProbeCirc, ProbeSol, ProbeFails,
                          WalletTypeOK, Connections
<1>3. /\ at' \in [Sends -> Stages] /\ outcome' \in [Sends -> Outcomes]
      /\ \A q \in Sends \ {s} : at'[q] = at[q] /\ outcome'[q] = outcome[q]
  BY DEF Confirmed, AskElsewhere, Unconfirmed, ProbeCirc, ProbeSol, ProbeFails,
         WalletTypeOK, Stages, Outcomes
<1>4. \/ at[s] = "confirming" /\ at'[s] = "confirming" /\ outcome'[s] = outcome[s]
      \/ at[s] = "confirming" /\ at'[s] = "ended" /\ outcome'[s] = "unconfirmed"
      \/ /\ at[s] = "confirming" /\ at'[s] = "ended" /\ outcome'[s] = "resolved"
         /\ \E k \in Connections : tx[s][k] \in {"landed", "failed"}
      \/ /\ at[s] \in {"probingCirc", "probingSol"}
         /\ \/ at'[s] = "probingSol" /\ outcome'[s] = outcome[s]
            \/ at'[s] = "ended" /\ outcome'[s] \in {"failed", "insufficient"}
  BY DEF Confirmed, AskElsewhere, Unconfirmed, ProbeCirc, ProbeSol, ProbeFails, WalletTypeOK
<1>5. WalletTypeOK'
  BY <1>1, <1>2, <1>3 DEF WalletTypeOK
<1>6. \A q \in Sends \ {s} : Apart(q)
  BY <1>1, <1>2, <1>3 DEF Apart
<1>7. SendInv(s)'
  <2>1. OneSignature(s)' /\ Fresh(s)' /\ Truthful(s)'
    BY <1>1, <1>4 DEF SendInv, OneSignature, Fresh, Truthful
  <2>2. Heard(s)'
    BY <1>1, <1>4 DEF SendInv, Heard
  <2> QED BY <2>1, <2>2 DEF SendInv
<1> QED BY <1>5, <1>6, <1>7, ApartKeeps

\* The steps that change the transaction: a node takes it, the chain includes it or
\* forgets it.
LEMMA ChainKeeps ==
  ASSUME WalletInv, NEW s \in Sends, NEW k \in Connections,
         \/ AcceptHeard(s, k) \/ AcceptUnheard(s, k) \/ RejectUnheard(s, k)
         \/ Lands(s, k) \/ FailsOnChain(s, k) \/ Expires(s, k)
  PROVE  WalletInv'
<1> USE DEF WalletInv, SignatureOf
<1>1. CASE AcceptHeard(s, k) \/ AcceptUnheard(s, k)
  <2> USE DEF AcceptHeard, AcceptUnheard, Acceptable, Waiting
  <2>1. /\ tx' = [tx EXCEPT ![s] = [tx[s] EXCEPT ![1] = "known"]]
        /\ [tx[s] EXCEPT ![1] = "known"] \in [Connections -> OnChain]
    BY <1>1, FirstConnection DEF WalletTypeOK, OnChain
  <2>2. /\ tx' \in [Sends -> [Connections -> OnChain]] /\ tx'[s] = [tx[s] EXCEPT ![1] = "known"]
        /\ \A q \in Sends \ {s} : tx'[q] = tx[q]
    BY <2>1 DEF WalletTypeOK
  <2>3. tx'[s][1] = "known" /\ \A i \in Connections \ {1} : tx'[s][i] = tx[s][i]
    BY <2>2, FirstConnection DEF WalletTypeOK
  <2>4. WalletTypeOK' /\ \A q \in Sends \ {s} : Apart(q)
    <3>1. /\ kind' = kind /\ outcome' = outcome /\ funds' = funds
          /\ reaching' = [reaching EXCEPT ![s] = @ \ {k}]
          /\ conn' = conn \/ conn' = [conn EXCEPT ![s] = IF SelfMade(s) THEN @ ELSE 1]
          /\ at' = at \/ at' = [at EXCEPT ![s] = "confirming"]
          /\ missed' = missed \/ missed' = [missed EXCEPT ![s] = TRUE]
      BY <1>1
    <3> HIDE DEF AcceptHeard, AcceptUnheard
    <3>2. WalletTypeOK'
      BY <2>2, <3>1, FirstConnection DEF WalletTypeOK, Stages
    <3>3. \A q \in Sends \ {s} : Apart(q)
      BY <2>2, <3>1 DEF Apart, WalletTypeOK
    <3> QED BY <3>2, <3>3
  <2>5. SendInv(s)'
    <3>1. OneSignature(s)'
      BY <2>3 DEF SendInv, OneSignature
    <3>2. Fresh(s)' /\ Truthful(s)'
      BY <1>1, <2>3 DEF SendInv, Fresh, Truthful, WalletTypeOK
    <3>3. Heard(s)'
      BY <1>1, <2>3 DEF SendInv, Heard, Truthful, WalletTypeOK
    <3> QED BY <3>1, <3>2, <3>3 DEF SendInv
  <2> QED BY <2>4, <2>5, ApartKeeps
<1>2. CASE RejectUnheard(s, k)
  <2>1. WalletTypeOK' /\ \A q \in Sends \ {s} : Apart(q)
    BY <1>2 DEF RejectUnheard, WalletTypeOK, Apart
  <2>2. SendInv(s)'
    BY <1>2 DEF RejectUnheard, WalletTypeOK, SendInv, OneSignature, Fresh, Truthful, Heard
  <2> QED BY <2>1, <2>2, ApartKeeps
<1>3. CASE Lands(s, k) \/ FailsOnChain(s, k) \/ Expires(s, k)
  <2> USE DEF Lands, FailsOnChain, Expires
  <2>1. tx[s][k] \in {"signed", "known"} /\ k = 1
    BY <1>3 DEF SendInv, OneSignature
  <2>2. PICK v \in OnChain : /\ tx' = [tx EXCEPT ![s] = [tx[s] EXCEPT ![1] = v]]
                             /\ IF tx[s][1] = "signed" THEN v = "stale" ELSE v \in {"landed", "failed", "dropped"}
    BY <1>3, <2>1 DEF OnChain
  <2>3. tx'[s] = [tx[s] EXCEPT ![1] = v] /\ \A q \in Sends \ {s} : tx'[q] = tx[q]
    BY <2>2 DEF WalletTypeOK
  <2>4. tx'[s][1] = v /\ \A i \in Connections \ {1} : tx'[s][i] = tx[s][i]
    BY <2>3, FirstConnection DEF WalletTypeOK
  <2>5. tx' \in [Sends -> [Connections -> OnChain]]
    BY <2>2, FirstConnection DEF WalletTypeOK
  <2>6. funds' \in [Assets -> Nat]
    <3>1. CASE Lands(s, k)
      <4>1. Cost[kind[s]] \in [Assets -> Nat]
        BY DEF WalletTypeOK, Cost, Kinds, Assets
      <4>2. \A a \in Assets : funds[a] \in Nat /\ Cost[kind[s]][a] \in Nat /\ funds[a] >= Cost[kind[s]][a]
        BY <3>1, <4>1 DEF WalletTypeOK, Affordable
      <4> QED BY <3>1, <4>2 DEF Less
    <3>2. CASE FailsOnChain(s, k)
      BY <3>2 DEF WalletTypeOK, Less, Fee, Assets
    <3>3. CASE Expires(s, k)
      BY <3>3 DEF WalletTypeOK
    <3> QED BY <1>3, <3>1, <3>2, <3>3
  <2>7. /\ kind' = kind /\ at' = at /\ conn' = conn /\ reaching' = reaching
        /\ outcome' = outcome /\ missed' = missed
    BY <1>3
  <2>8. WalletTypeOK' /\ \A q \in Sends \ {s} : Apart(q)
    BY <2>3, <2>5, <2>6, <2>7 DEF WalletTypeOK, Apart
  <2>9. SendInv(s)'
    <3>1. OneSignature(s)'
      BY <2>4 DEF SendInv, OneSignature
    <3>2. Fresh(s)' /\ Truthful(s)' /\ Heard(s)'
      BY <2>1, <2>2, <2>4, <2>7 DEF SendInv, Fresh, Truthful, Heard
    <3> QED BY <3>1, <3>2 DEF SendInv
  <2> QED BY <2>8, <2>9, ApartKeeps
<1> QED BY <1>1, <1>2, <1>3

LEMMA SignKeeps == ASSUME WalletInv, NEW s \in Sends, Sign(s) PROVE WalletInv'
<1> USE DEF WalletInv, Sign, FirstAttempt, SignatureOf
<1>1. WalletTypeOK'
  BY FirstConnection DEF WalletTypeOK, Stages, OnChain
<1>2. \A q \in Sends \ {s} : Apart(q)
  BY DEF WalletTypeOK, Apart
<1>3. SendInv(s)'
  BY FirstConnection DEF WalletTypeOK, SendInv, OneSignature, Fresh, Truthful, Heard
<1> QED BY <1>1, <1>2, <1>3, ApartKeeps

\* What a wallet's state can do under any application: a send takes a step, or the
\* one behind the kind of a send not begun changes its mind.
WalletStep ==
  \/ \E s \in Sends : Begin(s) \/ Choose(s) \/ Proceed(s) \/ Environment(s)
  \/ UNCHANGED walletVars

LEMMA WalletStepKeeps == WalletInv /\ WalletStep => WalletInv'
<1> SUFFICES ASSUME WalletInv, WalletStep PROVE WalletInv'
  OBVIOUS
<1>1. CASE UNCHANGED walletVars
  BY <1>1 DEF walletVars, WalletInv, WalletTypeOK, SendInv, OneSignature, Fresh, Truthful, Heard
<1>2. ASSUME NEW s \in Sends, Proceed(s) PROVE WalletInv'
  BY <1>2, ThrowKeeps, AdvanceKeeps, EndKeeps, ChainKeeps, SignKeeps DEF Proceed
<1>3. ASSUME NEW s \in Sends, Environment(s) PROVE WalletInv'
  BY <1>3, ChainKeeps DEF Environment
<1> QED BY <1>1, <1>2, <1>3, BeginKeeps DEF WalletStep

-----------------------------------------------------------------------------
(* The wallet implements PaymentWallet.                                    *)

\* What its owner sees of a send, in the terms of PaymentWallet.
CallSeen == [s \in Sends |->
  IF at[s] = "idle" THEN "idle"
  ELSE IF outcome[s] \in {"resolved", "refused"} THEN outcome[s]
  ELSE IF at[s] = "ended" THEN "threw" ELSE "running"]
ChainSeen == [s \in Sends |->
  IF Stood(s, {"landed", "failed"}) THEN "included"
  ELSE IF Stood(s, {"known", "dropped"}) THEN "sent" ELSE "none"]
MovedSeen == [s \in Sends |-> Landings(s)]
seen == <<CallSeen, ChainSeen, MovedSeen>>

\* The same, from its stage, its outcome and the transaction it signed once.
CallAt(stage, result) ==
  IF stage = "idle" THEN "idle"
  ELSE IF result \in {"resolved", "refused"} THEN result
  ELSE IF stage = "ended" THEN "threw" ELSE "running"
ChainAt(state) ==
  IF state \in {"landed", "failed"} THEN "included"
  ELSE IF state \in {"known", "dropped"} THEN "sent" ELSE "none"
MovedAt(state) == IF state = "landed" THEN 1 ELSE 0

\* A send that signs once moves the money once at most.
LEMMA OneTransaction ==
  ASSUME NEW t \in [Connections -> OnChain], \A i \in Connections : i # 1 => t[i] = "none"
  PROVE  /\ \A states : "none" \notin states =>
              ((\E i \in Connections : t[i] \in states) <=> t[1] \in states)
         /\ Cardinality({i \in Connections : t[i] = "landed"}) = MovedAt(t[1])
<1>1. \A states : "none" \notin states => ((\E i \in Connections : t[i] \in states) <=> t[1] \in states)
  BY FirstConnection
<1>2. CASE t[1] = "landed"
  <2>1. {i \in Connections : t[i] = "landed"} = {1}
    BY <1>2, FirstConnection
  <2>2. Cardinality({1}) = 1
    BY FS_Singleton
  <2> QED BY <1>1, <1>2, <2>1, <2>2 DEF MovedAt
<1>3. CASE t[1] # "landed"
  <2>1. {i \in Connections : t[i] = "landed"} = {}
    BY <1>3, FirstConnection
  <2>2. Cardinality({}) = 0
    BY FS_EmptySet
  <2> QED BY <1>1, <1>3, <2>1, <2>2 DEF MovedAt
<1> QED BY <1>2, <1>3

Seen ==
  \A s \in Sends :
    /\ CallSeen[s] = CallAt(at[s], outcome[s])
    /\ ChainSeen[s] = ChainAt(tx[s][1])
    /\ MovedSeen[s] = MovedAt(tx[s][1])
    /\ \A states : "none" \notin states => (Stood(s, states) <=> tx[s][1] \in states)
    /\ Landings(s) = MovedAt(tx[s][1])

LEMMA SeenNow == WalletInv => Seen
<1> SUFFICES ASSUME WalletInv, NEW s \in Sends
             PROVE /\ CallSeen[s] = CallAt(at[s], outcome[s])
                   /\ ChainSeen[s] = ChainAt(tx[s][1])
                   /\ MovedSeen[s] = MovedAt(tx[s][1])
                   /\ \A states : "none" \notin states => (Stood(s, states) <=> tx[s][1] \in states)
                   /\ Landings(s) = MovedAt(tx[s][1])
  BY DEF Seen
<1>1. tx[s] \in [Connections -> OnChain] /\ \A i \in Connections : i # 1 => tx[s][i] = "none"
  BY DEF WalletInv, WalletTypeOK, SendInv, OneSignature
<1>2. \A states : "none" \notin states => (Stood(s, states) <=> tx[s][1] \in states)
  BY <1>1, OneTransaction DEF Stood
<1>3. Landings(s) = MovedAt(tx[s][1])
  BY <1>1, OneTransaction DEF Landings
<1>4. CallSeen[s] = CallAt(at[s], outcome[s])
  BY DEF CallSeen, CallAt
<1>5. ChainSeen[s] = ChainAt(tx[s][1])
  <2>1. ChainSeen[s] = IF Stood(s, {"landed", "failed"}) THEN "included"
                       ELSE IF Stood(s, {"known", "dropped"}) THEN "sent" ELSE "none"
    BY DEF ChainSeen
  <2>2. Stood(s, {"landed", "failed"}) <=> tx[s][1] \in {"landed", "failed"}
    BY <1>2
  <2>3. Stood(s, {"known", "dropped"}) <=> tx[s][1] \in {"known", "dropped"}
    BY <1>2
  <2> QED BY <2>1, <2>2, <2>3 DEF ChainAt
<1>6. MovedSeen[s] = MovedAt(tx[s][1])
  BY <1>3 DEF MovedSeen
<1> QED BY <1>2, <1>3, <1>4, <1>5, <1>6

LEMMA SeenNext == WalletInv' => Seen'
  BY SeenNow, PTL

\* A step of one send that its owner sees, if at all, as a step of PaymentWallet.
Visible(s) ==
  LET c == CallAt(at[s], outcome[s])
      cNext == CallAt(at'[s], outcome'[s])
      t == tx[s][1]
      tNext == tx'[s][1]
  IN  \/ cNext = c /\ ChainAt(tNext) = ChainAt(t) /\ MovedAt(tNext) = MovedAt(t)
      \/ /\ c = "idle" /\ cNext \in {"running", "refused"}
         /\ ChainAt(tNext) = ChainAt(t) /\ MovedAt(tNext) = MovedAt(t)
      \/ /\ c = "running" /\ (cNext = "threw" \/ (cNext = "resolved" /\ ChainAt(t) = "included"))
         /\ ChainAt(tNext) = ChainAt(t) /\ MovedAt(tNext) = MovedAt(t)
      \/ c \in {"running", "threw"} /\ cNext = c /\ ChainAt(t) = "none" /\ tNext = "known"
      \/ cNext = c /\ t = "known" /\ tNext \in {"landed", "failed"}

LEMMA VisibleIsPromised ==
  ASSUME WalletInv, WalletInv', NEW s \in Sends, Visible(s), \A q \in Sends \ {s} : Apart(q)
  PROVE  [Promise!Next]_seen
<1> DEFINE c == CallAt(at[s], outcome[s])
           cNext == CallAt(at'[s], outcome'[s])
           t == tx[s][1]
           tNext == tx'[s][1]
<1>1. /\ CallSeen[s] = c /\ ChainSeen[s] = ChainAt(t) /\ MovedSeen[s] = MovedAt(t)
      /\ CallSeen'[s] = cNext /\ ChainSeen'[s] = ChainAt(tNext) /\ MovedSeen'[s] = MovedAt(tNext)
  BY SeenNow, SeenNext DEF Seen
<1>2. \A q \in Sends \ {s} :
        CallSeen'[q] = CallSeen[q] /\ ChainSeen'[q] = ChainSeen[q] /\ MovedSeen'[q] = MovedSeen[q]
  BY SeenNow, SeenNext DEF Seen, Apart
<1>3. /\ CallSeen' = [CallSeen EXCEPT ![s] = cNext]
      /\ ChainSeen' = [ChainSeen EXCEPT ![s] = ChainAt(tNext)]
      /\ MovedSeen' = [MovedSeen EXCEPT ![s] = MovedAt(tNext)]
  <2>1. CallSeen' = [CallSeen EXCEPT ![s] = cNext]
    <3>1. CallSeen = [q \in Sends |-> CallSeen[q]] /\ CallSeen' = [q \in Sends |-> CallSeen'[q]]
      BY DEF CallSeen
    <3> HIDE DEF cNext
    <3> QED BY <1>1, <1>2, <3>1
  <2>2. ChainSeen' = [ChainSeen EXCEPT ![s] = ChainAt(tNext)]
    BY <1>1, <1>2 DEF ChainSeen
  <2>3. MovedSeen' = [MovedSeen EXCEPT ![s] = MovedAt(tNext)]
    BY <1>1, <1>2 DEF MovedSeen
  <2> QED BY <2>1, <2>2, <2>3
<1>4. /\ cNext = c => CallSeen' = CallSeen
      /\ ChainAt(tNext) = ChainAt(t) => ChainSeen' = ChainSeen
      /\ MovedAt(tNext) = MovedAt(t) => MovedSeen' = MovedSeen
  <2> HIDE DEF c, cNext, t, tNext
  <2>1. cNext = c => CallSeen' = CallSeen
    BY <1>1, <1>3 DEF CallSeen
  <2>2. ChainAt(tNext) = ChainAt(t) => ChainSeen' = ChainSeen
    BY <1>1, <1>3 DEF ChainSeen
  <2>3. MovedAt(tNext) = MovedAt(t) => MovedSeen' = MovedSeen
    BY <1>1, <1>3 DEF MovedSeen
  <2> QED BY <2>1, <2>2, <2>3
<1>5. \/ cNext = c /\ ChainAt(tNext) = ChainAt(t) /\ MovedAt(tNext) = MovedAt(t)
      \/ /\ c = "idle" /\ cNext \in {"running", "refused"}
         /\ ChainAt(tNext) = ChainAt(t) /\ MovedAt(tNext) = MovedAt(t)
      \/ /\ c = "running" /\ (cNext = "threw" \/ (cNext = "resolved" /\ ChainAt(t) = "included"))
         /\ ChainAt(tNext) = ChainAt(t) /\ MovedAt(tNext) = MovedAt(t)
      \/ c \in {"running", "threw"} /\ cNext = c /\ ChainAt(t) = "none" /\ tNext = "known"
      \/ cNext = c /\ t = "known" /\ tNext \in {"landed", "failed"}
  BY DEF Visible
<1> HIDE DEF c, cNext, t, tNext
<1> USE DEF seen
<1>6. CASE cNext = c /\ ChainAt(tNext) = ChainAt(t) /\ MovedAt(tNext) = MovedAt(t)
  BY <1>4, <1>6
<1>7. CASE /\ c = "idle" /\ cNext \in {"running", "refused"}
           /\ ChainAt(tNext) = ChainAt(t) /\ MovedAt(tNext) = MovedAt(t)
  <2>1. Promise!Begin(s) \/ Promise!Refuse(s)
    BY <1>1, <1>3, <1>4, <1>7 DEF Promise!Begin, Promise!Refuse, CallSeen, ChainSeen, MovedSeen
  <2> QED BY <2>1 DEF Promise!Next
<1>8. CASE /\ c = "running" /\ (cNext = "threw" \/ (cNext = "resolved" /\ ChainAt(t) = "included"))
           /\ ChainAt(tNext) = ChainAt(t) /\ MovedAt(tNext) = MovedAt(t)
  <2>1. Promise!Throw(s) \/ Promise!Resolve(s)
    BY <1>1, <1>3, <1>4, <1>8 DEF Promise!Throw, Promise!Resolve, CallSeen, ChainSeen, MovedSeen
  <2> QED BY <2>1 DEF Promise!Next
<1>9. CASE c \in {"running", "threw"} /\ cNext = c /\ ChainAt(t) = "none" /\ tNext = "known"
  <2>1. ChainAt(tNext) = "sent" /\ MovedAt(tNext) = MovedAt(t)
    BY <1>9 DEF ChainAt, MovedAt
  <2>2. Promise!Broadcast(s)
    BY <1>1, <1>3, <1>4, <1>9, <2>1 DEF Promise!Broadcast, CallSeen, ChainSeen, MovedSeen
  <2> QED BY <2>2 DEF Promise!Next
<1>10. CASE cNext = c /\ t = "known" /\ tNext \in {"landed", "failed"}
  <2>1. ChainAt(t) = "sent" /\ ChainAt(tNext) = "included" /\ MovedAt(t) = 0 /\ MovedAt(tNext) \in {0, 1}
    BY <1>10 DEF ChainAt, MovedAt
  <2>2. MovedSeen' = [MovedSeen EXCEPT ![s] = MovedSeen[s] + MovedAt(tNext)]
    <3>1. MovedSeen[s] + MovedAt(tNext) = MovedAt(tNext)
      BY <1>1, <2>1
    <3> QED BY <1>3, <3>1
  <2>3. Promise!Include(s)
    BY <1>1, <1>3, <1>4, <1>10, <2>1, <2>2 DEF Promise!Include, CallSeen, ChainSeen, MovedSeen
  <2> QED BY <2>3 DEF Promise!Next
<1> QED BY <1>5, <1>6, <1>7, <1>8, <1>9, <1>10

LEMMA BeginVisible ==
  ASSUME WalletInv, NEW s \in Sends, Begin(s) \/ Choose(s)
  PROVE  Visible(s) /\ \A q \in Sends \ {s} : Apart(q)
<1> USE DEF WalletInv, WalletTypeOK
<1>1. CASE (\E k \in Kinds : Prepare(s, k)) \/ Choose(s)
  <2>1. tx' = tx /\ outcome' = outcome /\ at[s] = "idle" /\ at'[s] \in {"idle", "preparing"}
    BY <1>1 DEF Prepare, Choose
  <2>2. outcome[s] = "none"
    BY <2>1 DEF SendInv, Truthful
  <2>3. Visible(s)
    BY <2>1, <2>2 DEF Visible, CallAt
  <2>4. \A q \in Sends \ {s} : Apart(q)
    BY <1>1 DEF Prepare, Choose, Apart
  <2> QED BY <2>3, <2>4
<1>2. ASSUME NEW instructions, NEW payee, Countersign(s, instructions, payee)
      PROVE Visible(s) /\ \A q \in Sends \ {s} : Apart(q)
  <2>1. at[s] = "idle" /\ outcome[s] = "none" /\ tx[s][1] = "none"
    BY <1>2 DEF Countersign, SendInv, Truthful, Fresh
  <2>2. CASE FirstAttempt(s) /\ UNCHANGED outcome
    <3>1. at'[s] = "sending" /\ outcome'[s] = "none" /\ tx'[s][1] = "signed"
      BY <2>1, <2>2, FirstConnection DEF FirstAttempt, SignatureOf
    <3>2. Visible(s)
      BY <2>1, <3>1 DEF Visible, CallAt, ChainAt, MovedAt
    <3>3. \A q \in Sends \ {s} : Apart(q)
      BY <1>2, <2>2 DEF Countersign, FirstAttempt, Apart
    <3> QED BY <3>2, <3>3
  <2>3. CASE Finish(s, "refused") /\ UNCHANGED <<conn, reaching, tx>>
    <3>1. at'[s] = "ended" /\ outcome'[s] = "refused" /\ tx' = tx
      BY <2>3 DEF Finish
    <3>2. Visible(s)
      BY <2>1, <3>1 DEF Visible, CallAt
    <3>3. \A q \in Sends \ {s} : Apart(q)
      BY <1>2, <2>3 DEF Countersign, Finish, Apart
    <3> QED BY <3>2, <3>3
  <2> QED BY <1>2, <2>2, <2>3 DEF Countersign
<1> QED BY <1>1, <1>2 DEF Begin

LEMMA ProceedVisible ==
  ASSUME WalletInv, NEW s \in Sends, Proceed(s)
  PROVE  Visible(s) /\ \A q \in Sends \ {s} : Apart(q)
<1> USE DEF WalletInv, WalletTypeOK
<1>1. CASE \/ PrepareFails(s) \/ Breaks(s) \/ ConfirmBreaks(s)
           \/ \E k \in Connections : RejectHeard(s, k)
  <2>1. at[s] \in {"preparing", "sending", "confirming"} /\ outcome[s] = "none" /\ Throw(s)
    BY <1>1 DEF PrepareFails, Breaks, ConfirmBreaks, RejectHeard, Waiting, SendInv, Truthful
  <2>2. tx' = tx /\ conn' = conn /\ \A q \in Sends \ {s} : missed'[q] = missed[q] /\ reaching'[q] = reaching[q]
    BY <1>1 DEF PrepareFails, Breaks, ConfirmBreaks, RejectHeard
  <2>3. /\ \A q \in Sends \ {s} : at'[q] = at[q] /\ outcome'[q] = outcome[q]
        /\ \/ at'[s] \in {"probingCirc", "probingSol"} /\ outcome'[s] = "none"
           \/ at'[s] = "ended" /\ outcome'[s] = "failed"
    BY <2>1, ThrowFacts
  <2>4. Visible(s)
    <3>1. CallAt(at[s], outcome[s]) = "running"
      BY <2>1 DEF CallAt
    <3>2. CallAt(at'[s], outcome'[s]) \in {"running", "threw"}
      BY <2>3 DEF CallAt
    <3> QED BY <2>2, <3>1, <3>2 DEF Visible
  <2> QED BY <2>2, <2>3, <2>4 DEF Apart
<1>2. CASE RateLimited(s) \/ TimesOut(s) \/ ConfirmTimesOut(s)
  <2>1. /\ at[s] \in {"sending", "confirming"} /\ outcome[s] = "none"
        /\ \A q \in Sends \ {s} : missed'[q] = missed[q]
    BY <1>2 DEF RateLimited, TimesOut, ConfirmTimesOut, SendInv, Truthful
  <2>2. PICK carried \in SUBSET Connections : Advance(s, carried)
    BY <1>2 DEF RateLimited, TimesOut, ConfirmTimesOut
  <2>3. /\ \A q \in Sends \ {s} :
             /\ at'[q] = at[q] /\ outcome'[q] = outcome[q] /\ conn'[q] = conn[q]
             /\ reaching'[q] = reaching[q] /\ tx'[q] = tx[q]
        /\ \/ at'[s] = "sending" /\ outcome'[s] = "none"
           \/ at'[s] \in {"probingCirc", "probingSol"} /\ outcome'[s] = "none"
           \/ at'[s] = "ended" /\ outcome'[s] = "failed"
        /\ tx'[s][1] = tx[s][1] \/ (tx[s][1] = "none" /\ tx'[s][1] = "signed")
    <3> HIDE DEF WalletTypeOK
    <3> QED BY <2>1, <2>2, AdvanceFacts
  <2>4. Visible(s)
    <3>1. ChainAt(tx'[s][1]) = ChainAt(tx[s][1]) /\ MovedAt(tx'[s][1]) = MovedAt(tx[s][1])
      BY <2>3 DEF ChainAt, MovedAt
    <3>2. CallAt(at[s], outcome[s]) = "running"
      BY <2>1 DEF CallAt
    <3>3. CallAt(at'[s], outcome'[s]) \in {"running", "threw"}
      BY <2>3 DEF CallAt
    <3> QED BY <3>1, <3>2, <3>3 DEF Visible
  <2> QED BY <2>1, <2>3, <2>4 DEF Apart
<1>3. CASE Confirmed(s) \/ AskElsewhere(s) \/ Unconfirmed(s) \/ ProbeCirc(s) \/ ProbeSol(s) \/ ProbeFails(s)
  <2> USE DEF Confirmed, AskElsewhere, Unconfirmed, ProbeCirc, ProbeSol, ProbeFails, Finish
  <2>1. tx' = tx /\ outcome[s] = "none" /\ at[s] \in {"confirming", "probingCirc", "probingSol"}
    BY <1>3 DEF SendInv, Truthful
  <2>2. \/ at'[s] \in {"confirming", "probingCirc", "probingSol"} /\ outcome'[s] = "none"
        \/ at'[s] = "ended" /\ outcome'[s] \in {"failed", "insufficient", "unconfirmed"}
        \/ at'[s] = "ended" /\ outcome'[s] = "resolved" /\ \E k \in Connections : tx[s][k] \in {"landed", "failed"}
    BY <1>3, <2>1
  <2>3. \A q \in Sends \ {s} : Apart(q)
    BY <1>3 DEF Apart
  <2>4. Visible(s)
    <3>1. CASE at'[s] = "ended" /\ outcome'[s] = "resolved"
      <4>1. tx[s][1] \in {"landed", "failed"}
        BY <2>2, <3>1 DEF SendInv, OneSignature
      <4> QED BY <2>1, <3>1, <4>1 DEF Visible, CallAt, ChainAt
    <3>2. CASE ~(at'[s] = "ended" /\ outcome'[s] = "resolved")
      <4>1. CallAt(at[s], outcome[s]) = "running"
        BY <2>1 DEF CallAt
      <4>2. CallAt(at'[s], outcome'[s]) \in {"running", "threw"}
        BY <2>2, <3>2 DEF CallAt
      <4> QED BY <2>1, <4>1, <4>2 DEF Visible
    <3> QED BY <3>1, <3>2
  <2> QED BY <2>3, <2>4
<1>4. CASE Sign(s)
  <2>1. outcome[s] = "none" /\ tx[s][1] = "none" /\ at[s] = "preparing"
    BY <1>4 DEF Sign, SendInv, Truthful, Fresh
  <2>2. at'[s] = "sending" /\ outcome'[s] = "none" /\ tx'[s][1] = "signed"
    BY <1>4, <2>1, FirstConnection DEF Sign, FirstAttempt, SignatureOf
  <2>3. Visible(s)
    BY <2>1, <2>2 DEF Visible, CallAt, ChainAt, MovedAt
  <2>4. \A q \in Sends \ {s} : Apart(q)
    BY <1>4 DEF Sign, FirstAttempt, Apart
  <2> QED BY <2>3, <2>4
<1>5. ASSUME NEW k \in Connections, AcceptHeard(s, k)
      PROVE Visible(s) /\ \A q \in Sends \ {s} : Apart(q)
  <2>1. /\ at[s] = "sending" /\ outcome'[s] = outcome[s] /\ outcome[s] = "none" /\ at'[s] = "confirming"
        /\ tx[s][1] \in {"signed", "known"}
    BY <1>5 DEF AcceptHeard, Waiting, Acceptable, SignatureOf, SendInv, Truthful
  <2>2. tx'[s][1] = "known"
    BY <1>5, FirstConnection DEF AcceptHeard, SignatureOf
  <2>3. Visible(s)
    BY <2>1, <2>2 DEF Visible, CallAt, ChainAt, MovedAt
  <2>4. \A q \in Sends \ {s} : Apart(q)
    BY <1>5 DEF AcceptHeard, Apart
  <2> QED BY <2>3, <2>4
<1> QED BY <1>1, <1>2, <1>3, <1>4, <1>5 DEF Proceed

LEMMA EnvironmentVisible ==
  ASSUME WalletInv, NEW s \in Sends, Environment(s)
  PROVE  Visible(s) /\ \A q \in Sends \ {s} : Apart(q)
<1> USE DEF WalletInv, WalletTypeOK
<1>1. PICK k \in Connections : \/ AcceptUnheard(s, k) \/ RejectUnheard(s, k)
                               \/ Lands(s, k) \/ FailsOnChain(s, k) \/ Expires(s, k)
  BY DEF Environment
<1>2. at' = at /\ outcome' = outcome /\ conn' = conn
      /\ \A q \in Sends \ {s} : reaching'[q] = reaching[q] /\ missed'[q] = missed[q] /\ tx'[q] = tx[q]
  BY <1>1 DEF AcceptUnheard, RejectUnheard, Lands, FailsOnChain, Expires
<1>3. Visible(s)
  <2>1. CASE AcceptUnheard(s, k)
    <3>1. tx[s][1] \in {"signed", "known"} /\ tx'[s][1] = "known" /\ reaching[s] # {}
      BY <2>1, FirstConnection DEF AcceptUnheard, Acceptable, SignatureOf
    <3>2. at[s] # "idle" /\ outcome[s] \notin {"resolved", "refused"}
      BY <3>1 DEF SendInv, Fresh, Truthful
    <3> QED BY <1>2, <3>1, <3>2 DEF Visible, CallAt, ChainAt, MovedAt
  <2>2. CASE RejectUnheard(s, k)
    BY <1>2, <2>2 DEF RejectUnheard, Visible
  <2>3. CASE Lands(s, k) \/ FailsOnChain(s, k) \/ Expires(s, k)
    <3>1. k = 1 /\ tx[s][1] \in {"signed", "known"}
      BY <2>3 DEF Lands, FailsOnChain, Expires, SendInv, OneSignature
    <3>2. \/ tx[s][1] = "known" /\ tx'[s][1] \in {"landed", "failed", "dropped"}
          \/ tx[s][1] = "signed" /\ tx'[s][1] = "stale"
      BY <2>3, <3>1 DEF Lands, FailsOnChain, Expires
    <3> QED BY <1>2, <3>2 DEF Visible, ChainAt, MovedAt
  <2> QED BY <1>1, <2>1, <2>2, <2>3
<1> QED BY <1>2, <1>3 DEF Apart

LEMMA WalletStepSeen == WalletInv /\ WalletStep => [Promise!Next]_seen
<1> SUFFICES ASSUME WalletInv, WalletStep PROVE [Promise!Next]_seen
  OBVIOUS
<1>1. WalletInv'
  BY WalletStepKeeps
<1>2. CASE UNCHANGED walletVars
  BY <1>2 DEF walletVars, seen, CallSeen, ChainSeen, MovedSeen, Stood, Landings
<1>3. ASSUME NEW s \in Sends, Begin(s) \/ Choose(s) \/ Proceed(s) \/ Environment(s)
      PROVE [Promise!Next]_seen
  BY <1>1, <1>3, BeginVisible, ProceedVisible, EnvironmentVisible, VisibleIsPromised
<1> QED BY <1>2, <1>3 DEF WalletStep

LEMMA InitSeen == WalletInit => Promise!Init
<1> SUFFICES ASSUME WalletInit PROVE Promise!Init
  OBVIOUS
<1>1. WalletInv
  BY InitWalletInv
<1>2. \A s \in Sends : at[s] = "idle" /\ tx[s][1] = "none"
  BY FirstConnection DEF WalletInit
<1>3. \A s \in Sends : CallSeen[s] = "idle" /\ ChainSeen[s] = "none" /\ MovedSeen[s] = 0
  BY <1>1, <1>2, SeenNow DEF Seen, CallAt, ChainAt, MovedAt
<1>4. /\ CallSeen = [s \in Sends |-> CallSeen[s]] /\ ChainSeen = [s \in Sends |-> ChainSeen[s]]
      /\ MovedSeen = [s \in Sends |-> MovedSeen[s]]
  BY DEF CallSeen, ChainSeen, MovedSeen
<1>5. /\ CallSeen = [s \in Sends |-> "idle"] /\ ChainSeen = [s \in Sends |-> "none"]
      /\ MovedSeen = [s \in Sends |-> 0]
  BY <1>3, <1>4
<1> QED BY <1>5 DEF Promise!Init, CallSeen, ChainSeen, MovedSeen

-----------------------------------------------------------------------------
(* The theorems of a wallet of its own.                                    *)

LEMMA WalletInvariant == Spec => []WalletInv
<1>1. WalletInv /\ [WalletNext]_walletVars => WalletInv'
  BY WalletStepKeeps DEF WalletNext, WalletStep
<1> QED BY InitWalletInv, <1>1, PTL DEF Spec

\* Over all failovers, timeouts and attempts that go on in the background, a send moves
\* the money at most once, and it resolves only for a transaction that is on the chain
\* (wallet.ts 325-363).
THEOREM WalletKeepsPromise == Spec => MovesMoneyOnce
<1>1. WalletInv /\ [WalletNext]_walletVars => [Promise!Next]_seen
  BY WalletStepSeen DEF WalletNext, WalletStep
<1> QED BY InitSeen, WalletInvariant, <1>1, PTL
        DEF Spec, MovesMoneyOnce, Promise!Spec, seen, CallSeen, ChainSeen, MovedSeen

LEMMA InvMeansUnsent == WalletInv => PlainErrorMeansUnsent
<1> SUFFICES ASSUME WalletInv, NEW s \in Sends,
                    outcome[s] \in {"failed", "insufficient", "refused"}, ~missed[s]
             PROVE ~Stood(s, {"known", "landed", "failed", "dropped"}) /\ reaching[s] = {}
  BY DEF PlainErrorMeansUnsent
<1>1. reaching[s] = {} /\ tx[s][1] \in {"none", "signed", "stale"}
  BY DEF WalletInv, SendInv, Truthful, Heard
<1>2. Stood(s, {"known", "landed", "failed", "dropped"})
        <=> tx[s][1] \in {"known", "landed", "failed", "dropped"}
  BY SeenNow DEF Seen
<1> QED BY <1>1, <1>2

\* An error without a signature means that nothing went out, unless an answer was late
\* or lost on the way (wallet.ts 314-323, 345-384).
THEOREM PlainErrors == Spec => []PlainErrorMeansUnsent
  BY WalletInvariant, InvMeansUnsent, PTL

-----------------------------------------------------------------------------
(* The flows.                                                              *)

LEMMA InitInv == Init => Inv
<1> SUFFICES ASSUME Init PROVE Inv
  OBVIOUS
<1>1. WalletInv /\ WalletTypeOK
  BY InitWalletInv DEF Init, WalletInv
<1>2. TypeOK
  <2>1. flow \in [Sends -> FlowStages] /\ rotation \in [Rotations -> RotationStages]
    BY DEF Init, FlowStages, RotationStages
  <2>2. late \in [Sends -> BOOLEAN] /\ astray \in BOOLEAN
    BY DEF Init
  <2>3. /\ ledger \subseteq Sends /\ key \in Nat /\ carries \in [Sends \cup Rotations -> Nat] /\ keyFile \in 0..key
        /\ blank \subseteq Sends
    BY DEF Init
  <2> QED BY <1>1, <2>1, <2>2, <2>3 DEF TypeOK
<1>3. \A s \in Sends : FlowInv(s)
  BY DEF Init, WalletInit, FlowInv
<1>4. KeyInv
  BY DEF Init, KeyInv, Carried, Accounted
<1> QED BY <1>1, <1>2, <1>3, <1>4 DEF Inv

\* To the wallet every step of a flow or of a rotation is one of its own, or none.
LEMMA NextIsWalletStep == Inv /\ [Next]_vars => WalletStep
<1> SUFFICES ASSUME Inv, [Next]_vars PROVE WalletStep
  OBVIOUS
<1>1. ASSUME NEW s \in Sends, NEW k \in Offered[s], Open(s, k) PROVE WalletStep
  <2>1. k \in Kinds /\ at[s] = "idle"
    BY <1>1, FlowAssumption DEF Inv, FlowInv, Open, Goto
  <2>2. Choose(s)
    BY <1>1, <2>1 DEF Open, Choose
  <2> QED BY <2>2 DEF WalletStep
<1>2. ASSUME NEW s \in Sends, ConfirmSend(s) PROVE WalletStep
  <2>1. kind[s] \in Kinds \ {"server"}
    BY <1>2 DEF Inv, TypeOK, WalletTypeOK, ConfirmSend
  <2>2. Begin(s)
    BY <1>2, <2>1 DEF ConfirmSend, Begin
  <2> QED BY <2>2 DEF WalletStep
<1>3. ASSUME NEW s \in Sends, Built(s) PROVE WalletStep
  BY <1>3 DEF Built, Begin, WalletStep
<1>4. ASSUME NEW s \in Sends, Proceed(s) \/ Environment(s) PROVE WalletStep
  BY <1>4 DEF WalletStep
<1>5. ASSUME NEW s \in Sends,
             \/ GoBack(s) \/ ConfirmBuy(s) \/ DeadlinePasses(s) \/ QuoteShown(s) \/ BuildFails(s)
             \/ SendEnds(s) \/ Credits(s) \/ Credited(s) \/ SaveFails(s) \/ AnsweredBlank(s)
             \/ TryAgain(s) \/ Wake(s)
      PROVE UNCHANGED walletVars
  BY <1>5 DEF GoBack, ConfirmBuy, DeadlinePasses, QuoteShown, BuildFails, SendEnds, Credits,
              Credited, SaveFails, AnsweredBlank, TryAgain, Wake
<1>6. ASSUME NEW r \in Rotations, Rotate(r) PROVE UNCHANGED walletVars
  BY <1>6 DEF Rotate, AskForKey, ReadAccount, Answer, Issue, IssueFails, KeepKey, LoseKey
<1>7. CASE UNCHANGED vars
  BY <1>7 DEF vars, WalletStep
<1> QED BY <1>1, <1>2, <1>3, <1>4, <1>5, <1>6, <1>7 DEF Next, Continue, WalletStep

\* What the wallet does to a send under way never takes back what a flow builds on.
LEMMA WalletMonotone ==
  ASSUME WalletInv, NEW s \in Sends, Proceed(s) \/ Environment(s)
  PROVE  /\ kind' = kind
         /\ \A q \in Sends :
              /\ at[q] = "idle" => at'[q] = "idle"
              /\ at[q] = "ended" => at'[q] = "ended" /\ outcome'[q] = outcome[q]
              /\ tx[q][1] = "landed" => tx'[q][1] = "landed"
<1>1. \A q \in Sends \ {s} : Apart(q)
  BY ProceedVisible, EnvironmentVisible
<1>2. kind' = kind
  BY DEF Proceed, PrepareFails, Sign, AcceptHeard, RejectHeard, RateLimited, TimesOut, Breaks,
         Confirmed, AskElsewhere, Unconfirmed, ConfirmTimesOut, ConfirmBreaks, ProbeCirc, ProbeSol,
         ProbeFails, Environment, AcceptUnheard, RejectUnheard, Lands, FailsOnChain, Expires
<1>3. Proceed(s) => at[s] \notin {"idle", "ended"}
  BY DEF Proceed, PrepareFails, Sign, AcceptHeard, RejectHeard, RateLimited, TimesOut, Breaks,
         Confirmed, AskElsewhere, Unconfirmed, ConfirmTimesOut, ConfirmBreaks, ProbeCirc, ProbeSol,
         ProbeFails, Waiting
<1>4. Environment(s) => at' = at /\ outcome' = outcome
  BY DEF Environment, AcceptUnheard, RejectUnheard, Lands, FailsOnChain, Expires
<1>5. tx[s][1] = "landed" => tx'[s][1] = "landed"
  <2>1. Visible(s)
    BY ProceedVisible, EnvironmentVisible
  <2>2. WalletInv'
    BY WalletStepKeeps DEF WalletStep
  <2>3. tx[s][1] \in OnChain /\ tx'[s][1] \in OnChain
    BY <2>2, FirstConnection DEF WalletInv, WalletTypeOK
  <2>4. MovedAt(tx'[s][1]) = 1 => tx'[s][1] = "landed"
    BY DEF MovedAt
  <2>5. tx[s][1] = "landed" => MovedAt(tx[s][1]) = 1 /\ ChainAt(tx[s][1]) = "included" /\ tx[s][1] # "known"
    BY DEF MovedAt, ChainAt
  <2> QED BY <2>1, <2>4, <2>5 DEF Visible
<1> QED BY <1>1, <1>2, <1>3, <1>4, <1>5 DEF Apart

\* The flow's own variables keep their types.
LEMMA NextTypes == Inv /\ [Next]_vars => TypeOK'
<1> SUFFICES ASSUME Inv, [Next]_vars PROVE TypeOK'
  OBVIOUS
<1>1. WalletTypeOK'
  BY NextIsWalletStep, WalletStepKeeps DEF Inv, WalletInv
<1>2. TypeOK /\ KeyInv
  BY DEF Inv
<1>3. \A x \in Sends \cup Rotations : carries[x] \in 0..key
  BY <1>2 DEF TypeOK, KeyInv, Carried
<1>4. \A a \in FlowStages : \A s \in Sends : [flow EXCEPT ![s] = a] \in [Sends -> FlowStages]
  BY <1>2 DEF TypeOK
<1>5. \A a \in RotationStages : \A r \in Rotations : [rotation EXCEPT ![r] = a] \in [Rotations -> RotationStages]
  BY <1>2 DEF TypeOK
<1>6. \A n \in Nat : \A x \in Sends \cup Rotations : [carries EXCEPT ![x] = n] \in [Sends \cup Rotations -> Nat]
  BY <1>2 DEF TypeOK
<1> USE DEF Goto, Turn, gateway
\* The flows.
<1>7. ASSUME NEW s \in Sends,
             \/ \E k \in Offered[s] : Open(s, k)
             \/ GoBack(s) \/ ConfirmSend(s) \/ ConfirmBuy(s) \/ QuoteShown(s) \/ BuildFails(s)
             \/ Built(s) \/ SendEnds(s) \/ Wake(s)
             \/ (Proceed(s) \/ Environment(s)) /\ UNCHANGED <<flow, late, rotation, gateway>>
      PROVE TypeOK'
  <2>1. \/ flow' = flow
        \/ \E a \in FlowStages : flow' = [flow EXCEPT ![s] = a]
    BY <1>7 DEF Open, GoBack, ConfirmSend, ConfirmBuy, QuoteShown, BuildFails, Built, SendEnds,
                AfterSend, Wake, FlowStages
  <2>2. UNCHANGED <<late, rotation, gateway>>
    BY <1>7 DEF Open, GoBack, ConfirmSend, ConfirmBuy, QuoteShown, BuildFails, Built, SendEnds, Wake
  <2>3. flow' \in [Sends -> FlowStages]
    BY <1>2, <1>4, <2>1 DEF TypeOK
  <2> QED BY <1>1, <1>2, <2>2, <2>3 DEF TypeOK
<1>8. ASSUME NEW s \in Sends, Credits(s) PROVE TypeOK'
  <2>1. flow' \in [Sends -> FlowStages]
    BY <1>4, <1>8 DEF Credits, FlowStages
  <2>2. /\ ledger' \subseteq Sends /\ key' \in Nat /\ key <= key'
        /\ carries' \in [Sends \cup Rotations -> Nat]
    BY <1>2, <1>6, <1>8 DEF Credits, TypeOK
  <2>3. UNCHANGED <<late, rotation, keyFile, astray, blank>>
    BY <1>8 DEF Credits
  <2>4. keyFile' \in 0..key'
    BY <1>2, <2>2, <2>3 DEF TypeOK
  <2> QED BY <1>1, <1>2, <2>1, <2>2, <2>3, <2>4 DEF TypeOK
<1>9. ASSUME NEW s \in Sends, Credited(s) PROVE TypeOK'
  <2>1. flow' \in [Sends -> FlowStages] /\ carries' \in [Sends \cup Rotations -> Nat]
    BY <1>4, <1>6, <1>9 DEF Credited, FlowStages
  <2>2. keyFile' \in 0..key' /\ UNCHANGED <<late, rotation, ledger, key, astray, blank>>
    BY <1>2, <1>3, <1>9 DEF Credited, TypeOK
  <2> QED BY <1>1, <1>2, <2>1, <2>2 DEF TypeOK
<1>10. ASSUME NEW s \in Sends, TryAgain(s) PROVE TypeOK'
  <2>1. flow' \in [Sends -> FlowStages] /\ carries' \in [Sends \cup Rotations -> Nat]
    BY <1>4, <1>6, <1>10 DEF TryAgain, FlowStages
  <2>2. UNCHANGED <<late, rotation, ledger, key, keyFile, blank>> /\ astray' \in BOOLEAN
    BY <1>2, <1>10 DEF TryAgain, TypeOK
  <2> QED BY <1>1, <1>2, <2>1, <2>2 DEF TypeOK
<1>10a. ASSUME NEW s \in Sends, SaveFails(s) \/ AnsweredBlank(s) PROVE TypeOK'
  <2>1. flow' \in [Sends -> FlowStages] /\ carries' \in [Sends \cup Rotations -> Nat]
    BY <1>4, <1>6, <1>10a DEF SaveFails, AnsweredBlank, FlowStages
  <2>2. /\ UNCHANGED <<late, rotation, ledger, key>> /\ keyFile' \in {keyFile, 0}
        /\ astray' \in BOOLEAN /\ blank' \subseteq Sends
    BY <1>2, <1>10a DEF SaveFails, AnsweredBlank, TypeOK
  <2> QED BY <1>1, <1>2, <2>1, <2>2 DEF TypeOK
<1>11. ASSUME NEW s \in Sends, DeadlinePasses(s) PROVE TypeOK'
  <2>1. late' \in [Sends -> BOOLEAN] /\ UNCHANGED <<flow, rotation, gateway>>
    BY <1>2, <1>11 DEF DeadlinePasses, TypeOK
  <2> QED BY <1>1, <1>2, <2>1 DEF TypeOK
\* The rotations.
<1>12. ASSUME NEW r \in Rotations, Rotate(r) PROVE TypeOK'
  <2>1. rotation' \in [Rotations -> RotationStages] /\ UNCHANGED <<flow, late, ledger, blank>>
    BY <1>5, <1>12 DEF Rotate, AskForKey, ReadAccount, Answer, Issue, IssueFails, KeepKey, LoseKey,
                       RotationStages
  <2>2. astray' \in BOOLEAN
    BY <1>2, <1>12 DEF Rotate, AskForKey, ReadAccount, Answer, Issue, IssueFails, KeepKey, LoseKey, TypeOK
  <2>3. key' \in Nat /\ keyFile' \in 0..key' /\ carries' \in [Sends \cup Rotations -> Nat]
    <3>1. CASE Issue(r)
      BY <1>2, <1>6, <3>1 DEF Issue, TypeOK
    <3>2. CASE KeepKey(r) \/ LoseKey(r)
      BY <1>2, <1>3, <1>6, <3>2 DEF KeepKey, LoseKey, TypeOK
    <3>3. CASE AskForKey(r) \/ ReadAccount(r) \/ Answer(r) \/ IssueFails(r)
      BY <1>2, <3>3 DEF AskForKey, ReadAccount, Answer, IssueFails, TypeOK
    <3> QED BY <1>12, <3>1, <3>2, <3>3 DEF Rotate
  <2> QED BY <1>1, <1>2, <2>1, <2>2, <2>3 DEF TypeOK
<1>13. CASE UNCHANGED vars
  BY <1>1, <1>2, <1>13 DEF vars, TypeOK
<1> QED BY <1>7, <1>8, <1>9, <1>10, <1>10a, <1>11, <1>12, <1>13 DEF Next, Continue

\* Each step keeps what the flows and their sends have come to in line.
LEMMA NextFlows == Inv /\ [Next]_vars => \A q \in Sends : FlowInv(q)'
<1> SUFFICES ASSUME Inv, [Next]_vars, NEW q \in Sends PROVE FlowInv(q)'
  OBVIOUS
<1>1. /\ TypeOK /\ WalletInv /\ SendInv(q) /\ FlowInv(q)
      /\ flow \in [Sends -> FlowStages] /\ kind \in [Sends -> Kinds]
      /\ at \in [Sends -> Stages] /\ outcome \in [Sends -> Outcomes] /\ tx \in [Sends -> [Connections -> OnChain]]
  BY DEF Inv, WalletInv, TypeOK, WalletTypeOK
<1>2. at[q] \in {"idle", "preparing"} => q \notin ledger
  BY <1>1 DEF SendInv, Fresh, FlowInv
<1> USE DEF Goto, FlowInv
<1>3. ASSUME NEW s \in Sends, Proceed(s) \/ Environment(s), UNCHANGED <<flow, late, rotation, gateway>>
      PROVE FlowInv(q)'
  <2>1. flow' = flow /\ ledger' = ledger /\ blank' = blank
    BY <1>3 DEF gateway
  <2>2. /\ kind' = kind
        /\ at[q] = "idle" => at'[q] = "idle"
        /\ at[q] = "ended" => at'[q] = "ended" /\ outcome'[q] = outcome[q]
        /\ tx[q][1] = "landed" => tx'[q][1] = "landed"
    BY <1>1, <1>3, WalletMonotone
  <2>3. outcome[q] # "none" => at[q] = "ended"
    BY <1>1 DEF SendInv, Truthful
  <2> QED BY <1>1, <2>1, <2>2, <2>3
<1>4. ASSUME NEW s \in Sends,
             \/ \E k \in Offered[s] : Open(s, k)
             \/ GoBack(s) \/ ConfirmBuy(s) \/ QuoteShown(s) \/ BuildFails(s) \/ Wake(s) \/ DeadlinePasses(s)
      PROVE FlowInv(q)'
  <2>1. CASE \E k \in Offered[s] : Open(s, k)
    BY <1>1, <2>1 DEF Open, gateway
  <2>2. CASE GoBack(s) \/ ConfirmBuy(s) \/ QuoteShown(s) \/ BuildFails(s) \/ Wake(s) \/ DeadlinePasses(s)
    BY <1>1, <2>2 DEF GoBack, ConfirmBuy, QuoteShown, BuildFails, Wake, DeadlinePasses, gateway, walletVars
  <2> QED BY <1>4, <2>1, <2>2
<1>5. ASSUME NEW s \in Sends, ConfirmSend(s) PROVE FlowInv(q)'
  BY <1>1, <1>5 DEF ConfirmSend, Prepare, gateway
<1>6. ASSUME NEW s \in Sends, Built(s) PROVE FlowInv(q)'
  <2>1. /\ flow' = [flow EXCEPT ![s] = "sending"] /\ flow[s] = "building" /\ ledger' = ledger
        /\ blank' = blank
    BY <1>6 DEF Built, gateway
  <2>2. CASE q = s
    BY <1>1, <1>2, <2>1, <2>2
  <2>3. CASE q # s
    <3>1. kind'[q] = kind[q] /\ at'[q] = at[q] /\ outcome'[q] = outcome[q] /\ tx'[q] = tx[q]
      BY <1>1, <1>6, <2>3 DEF Built, Countersign, FirstAttempt, Finish
    <3> QED BY <1>1, <2>1, <2>3, <3>1
  <2> QED BY <2>2, <2>3
<1>7. ASSUME NEW s \in Sends, SendEnds(s) PROVE FlowInv(q)'
  <2>1. CASE q = s
    <3>1. outcome[q] \in Outcomes \ {"none"}
      BY <1>1, <1>7, <2>1 DEF SendEnds, SendInv, Truthful
    <3> QED BY <1>1, <1>7, <2>1, <3>1 DEF SendEnds, AfterSend, walletVars, gateway, Outcomes
  <2>2. CASE q # s
    BY <1>1, <1>7, <2>2 DEF SendEnds, walletVars, gateway
  <2> QED BY <2>1, <2>2
<1>8. ASSUME NEW s \in Sends, Credits(s) PROVE FlowInv(q)'
  <2>1. tx[s][1] = "landed"
    BY <1>1, <1>8, SeenNow DEF Seen, Credits
  <2> QED BY <1>1, <1>8, <2>1 DEF Credits, walletVars
<1>9. ASSUME NEW s \in Sends, Credited(s) \/ TryAgain(s) PROVE FlowInv(q)'
  <2>1. CASE Credited(s)
    BY <1>1, <2>1 DEF Credited, walletVars
  <2>2. CASE TryAgain(s)
    <3>1. /\ flow[s] \in {"verifying", "answering"} /\ UNCHANGED <<kind, at, outcome, tx, ledger>>
          /\ flow' = [flow EXCEPT ![s] = IF late[s] THEN "named" ELSE "sleeping"]
          /\ blank' = blank
      BY <2>2 DEF TryAgain, walletVars
    <3> QED BY <1>1, <3>1
  <2> QED BY <1>9, <2>1, <2>2
<1>9a. ASSUME NEW s \in Sends, SaveFails(s) \/ AnsweredBlank(s) PROVE FlowInv(q)'
  <2>1. CASE SaveFails(s)
    BY <1>1, <2>1 DEF SaveFails, walletVars
  <2>2. CASE AnsweredBlank(s)
    <3>1. /\ flow[s] \in {"verifying", "answering"} /\ UNCHANGED <<kind, at, outcome, tx, ledger>>
          /\ flow' = [flow EXCEPT ![s] = "done"] /\ blank' = blank \cup {s}
      BY <2>2 DEF AnsweredBlank, walletVars
    <3> QED BY <1>1, <3>1
  <2> QED BY <1>9a, <2>1, <2>2
<1>10. ASSUME NEW r \in Rotations, Rotate(r) PROVE FlowInv(q)'
  BY <1>1, <1>10 DEF Rotate, AskForKey, ReadAccount, Answer, Issue, IssueFails, KeepKey, LoseKey,
                     walletVars, gateway
<1>11. CASE UNCHANGED vars
  BY <1>1, <1>11 DEF vars, walletVars, gateway
<1> QED BY <1>3, <1>4, <1>5, <1>6, <1>7, <1>8, <1>9, <1>9a, <1>10, <1>11 DEF Next, Continue

\* Each step keeps the keys accounted for.
LEMMA NextKeys == Inv /\ [Next]_vars => KeyInv'
<1> SUFFICES ASSUME Inv, [Next]_vars PROVE KeyInv'
  OBVIOUS
<1> DEFINE Carriers == Sends \cup Rotations
<1>1. /\ TypeOK /\ Carried /\ Accounted
      /\ flow \in [Sends -> FlowStages] /\ rotation \in [Rotations -> RotationStages]
      /\ key \in Nat /\ keyFile \in 0..key /\ carries \in [Carriers -> Nat] /\ DOMAIN carries = Carriers
  BY DEF Inv, KeyInv, TypeOK
<1>2. \A s \in Sends, r \in Rotations : s # r
  BY FlowAssumption
<1> USE DEF Goto, Turn
\* Steps that touch no key and leave no flow or rotation that waits for one.
<1>3. ASSUME UNCHANGED gateway,
             \A s \in Sends : flow[s] = "answering" => flow'[s] = "answering",
             \A r \in Rotations : rotation[r] = "answering" <=> rotation'[r] = "answering"
      PROVE KeyInv'
  BY <1>1, <1>3 DEF KeyInv, Carried, Accounted, gateway
<1>4. ASSUME NEW s \in Sends,
             \/ \E k \in Offered[s] : Open(s, k)
             \/ GoBack(s) \/ ConfirmSend(s) \/ ConfirmBuy(s) \/ QuoteShown(s) \/ BuildFails(s)
             \/ Built(s) \/ SendEnds(s) \/ Wake(s) \/ DeadlinePasses(s)
             \/ (Proceed(s) \/ Environment(s)) /\ UNCHANGED <<flow, late, rotation, gateway>>
      PROVE KeyInv'
  <2>1. UNCHANGED <<rotation, gateway>>
    BY <1>4 DEF Open, GoBack, ConfirmSend, ConfirmBuy, QuoteShown, BuildFails, Built, SendEnds, Wake,
                DeadlinePasses
  <2>2. \A q \in Sends : flow[q] = "answering" => flow'[q] = "answering"
    BY <1>1, <1>4 DEF Open, GoBack, ConfirmSend, ConfirmBuy, QuoteShown, BuildFails, Built, SendEnds, Wake,
                      DeadlinePasses
  <2> QED BY <1>3, <2>1, <2>2
<1>5. ASSUME NEW s \in Sends, Credits(s) PROVE KeyInv'
  <2>1. /\ flow' = [flow EXCEPT ![s] = "answering"] /\ flow[s] = "verifying"
        /\ UNCHANGED <<rotation, keyFile, astray>> /\ carries[s] = 0
    BY <1>1, <1>5 DEF Credits, Carried
  <2>2. CASE key = 0 /\ s \notin ledger
    <3>1. key' = 1 /\ carries' = [carries EXCEPT ![s] = 1]
      BY <1>5, <2>2 DEF Credits
    <3>2. \A x \in Carriers : carries[x] = 0
      BY <1>1, <2>2 DEF Carried
    <3>3. carries'[s] = 1 /\ \A x \in Carriers \ {s} : carries'[x] = 0
      BY <1>1, <3>1, <3>2
    <3>4. Carried'
      BY <1>1, <1>2, <2>1, <3>1, <3>3 DEF Carried
    <3>5. Accounted'
      BY <3>1, <3>3 DEF Accounted
    <3> QED BY <3>4, <3>5 DEF KeyInv
  <2>3. CASE ~(key = 0 /\ s \notin ledger)
    <3>1. UNCHANGED <<key, carries>>
      BY <1>5, <2>3 DEF Credits
    <3>2. Carried'
      BY <1>1, <2>1, <3>1 DEF Carried
    <3>3. Accounted'
      BY <1>1, <2>1, <3>1 DEF Accounted
    <3> QED BY <3>2, <3>3 DEF KeyInv
  <2> QED BY <2>2, <2>3
<1>6. ASSUME NEW s \in Sends, Credited(s) PROVE KeyInv'
  <2>1. /\ flow' = [flow EXCEPT ![s] = "done"] /\ carries' = [carries EXCEPT ![s] = 0]
        /\ keyFile' = (IF carries[s] # 0 THEN carries[s] ELSE keyFile)
        /\ UNCHANGED <<rotation, key, astray>>
    BY <1>6 DEF Credited
  <2>2. carries'[s] = 0 /\ \A x \in Carriers \ {s} : carries'[x] = carries[x]
    BY <1>1, <2>1
  <2>3. Carried'
    BY <1>1, <1>2, <2>1, <2>2 DEF Carried
  <2>4. Accounted'
    BY <1>1, <2>1, <2>2 DEF Accounted
  <2> QED BY <2>3, <2>4 DEF KeyInv
<1>7. ASSUME NEW s \in Sends, TryAgain(s) PROVE KeyInv'
  <2>1. /\ flow' = [flow EXCEPT ![s] = IF late[s] THEN "named" ELSE "sleeping"]
        /\ carries' = [carries EXCEPT ![s] = 0]
        /\ UNCHANGED <<rotation, key, keyFile>>
    BY <1>7 DEF TryAgain
  <2>2. ~astray' => ~astray /\ carries[s] = 0
    BY <1>1, <1>7 DEF TryAgain
  <2>3. carries'[s] = 0 /\ \A x \in Carriers \ {s} : carries'[x] = carries[x]
    BY <1>1, <2>1
  <2>4. Carried'
    BY <1>1, <1>2, <2>1, <2>3 DEF Carried
  <2>5. Accounted'
    BY <1>1, <2>1, <2>2, <2>3 DEF Accounted
  <2> QED BY <2>4, <2>5 DEF KeyInv
<1>7a. ASSUME NEW s \in Sends, SaveFails(s) \/ AnsweredBlank(s) PROVE KeyInv'
  <2>1. /\ \E a \in {"named", "done"} : flow' = [flow EXCEPT ![s] = a]
        /\ carries' = [carries EXCEPT ![s] = 0]
        /\ UNCHANGED <<rotation, key>>
        /\ ~astray' => ~astray /\ carries[s] = 0 /\ keyFile' = keyFile
    BY <1>1, <1>7a DEF SaveFails, AnsweredBlank
  <2>2. carries'[s] = 0 /\ \A x \in Carriers \ {s} : carries'[x] = carries[x]
    BY <1>1, <2>1
  <2>3. Carried'
    BY <1>1, <1>2, <2>1, <2>2 DEF Carried
  <2>4. Accounted'
    BY <1>1, <2>1, <2>2 DEF Accounted
  <2> QED BY <2>3, <2>4 DEF KeyInv
<1>8. ASSUME NEW r \in Rotations, AskForKey(r) \/ ReadAccount(r) \/ Answer(r) \/ IssueFails(r) PROVE KeyInv'
  <2>1. /\ UNCHANGED <<flow, gateway>>
        /\ \A q \in Rotations : rotation[q] = "answering" <=> rotation'[q] = "answering"
    BY <1>1, <1>8 DEF AskForKey, ReadAccount, Answer, IssueFails
  <2> QED BY <1>3, <2>1
<1>9. ASSUME NEW r \in Rotations, Issue(r) PROVE KeyInv'
  <2>1. /\ rotation' = [rotation EXCEPT ![r] = "answering"] /\ key' = key + 1
        /\ carries' = [carries EXCEPT ![r] = key + 1] /\ UNCHANGED <<flow, keyFile>>
    BY <1>9 DEF Issue
  <2>2. ~astray' => ~astray /\ \A x \in Carriers : carries[x] = 0
    BY <1>1, <1>9 DEF Issue
  <2>3. carries'[r] = key + 1 /\ \A x \in Carriers \ {r} : carries'[x] = carries[x]
    BY <1>1, <2>1
  <2>4. Carried'
    BY <1>1, <1>2, <2>1, <2>3 DEF Carried
  <2>5. Accounted'
    BY <1>1, <2>1, <2>2, <2>3 DEF Accounted
  <2> QED BY <2>4, <2>5 DEF KeyInv
<1>10. ASSUME NEW r \in Rotations, KeepKey(r) PROVE KeyInv'
  <2>1. /\ rotation[r] = "answering" /\ rotation' = [rotation EXCEPT ![r] = "done"]
        /\ keyFile' = carries[r] /\ carries' = [carries EXCEPT ![r] = 0]
        /\ UNCHANGED <<flow, key, astray>> /\ carries[r] # 0
    BY <1>1, <1>10 DEF KeepKey, Carried
  <2>2. carries'[r] = 0 /\ \A x \in Carriers \ {r} : carries'[x] = carries[x]
    BY <1>1, <2>1
  <2>3. Carried'
    BY <1>1, <1>2, <2>1, <2>2 DEF Carried
  <2>4. Accounted'
    BY <1>1, <2>1, <2>2 DEF Accounted
  <2> QED BY <2>3, <2>4 DEF KeyInv
<1>11. ASSUME NEW r \in Rotations, LoseKey(r) PROVE KeyInv'
  <2>1. /\ \E a \in {"done", "failed"} : rotation' = [rotation EXCEPT ![r] = a]
        /\ carries' = [carries EXCEPT ![r] = 0] /\ astray' = TRUE /\ UNCHANGED <<flow, key>>
    BY <1>11 DEF LoseKey
  <2>2. carries'[r] = 0 /\ \A x \in Carriers \ {r} : carries'[x] = carries[x]
    BY <1>1, <2>1
  <2>3. Carried'
    BY <1>1, <1>2, <2>1, <2>2 DEF Carried
  <2>4. Accounted'
    BY <2>1 DEF Accounted
  <2> QED BY <2>3, <2>4 DEF KeyInv
<1>12. CASE UNCHANGED vars
  BY <1>3, <1>12 DEF vars
<1> QED BY <1>4, <1>5, <1>6, <1>7, <1>7a, <1>8, <1>9, <1>10, <1>11, <1>12 DEF Next, Continue, Rotate

LEMMA NextInv == Inv /\ [Next]_vars => Inv'
<1> SUFFICES ASSUME Inv, [Next]_vars PROVE Inv'
  OBVIOUS
<1>1. WalletInv'
  BY NextIsWalletStep, WalletStepKeeps DEF Inv
<1>2. TypeOK' /\ (\A s \in Sends : FlowInv(s)') /\ KeyInv'
  BY NextTypes, NextFlows, NextKeys
<1> QED BY <1>1, <1>2 DEF Inv

LEMMA FlowInvariant == FlowSpec => []Inv
  BY InitInv, NextInv, PTL DEF FlowSpec

\* The state of the flows, the gateway and the wallet keeps its types.
THEOREM TypeCorrect == FlowSpec => []TypeOK
<1>1. Inv => TypeOK
  BY DEF Inv
<1> QED BY FlowInvariant, <1>1, PTL

\* The wallet keeps its promise under the command line's flows too: whatever they ask of it and
\* whatever a gateway builds, a send moves the money at most once.
THEOREM FlowsKeepPromise == FlowSpec => MovesMoneyOnce
<1>1. Init => WalletInit
  BY DEF Init
<1>2. Inv /\ [Next]_vars => [Promise!Next]_seen
  BY NextIsWalletStep, WalletStepSeen DEF Inv
<1> QED BY InitSeen, FlowInvariant, <1>1, <1>2, PTL
        DEF FlowSpec, MovesMoneyOnce, Promise!Spec, seen, CallSeen, ChainSeen, MovedSeen

\* A send of a flow that fails without a signature sent nothing, unless an answer was late
\* or lost (wallet.ts 314-323, 345-384).
THEOREM FlowErrors == FlowSpec => []PlainErrorMeansUnsent
<1>1. Inv => PlainErrorMeansUnsent
  BY InvMeansUnsent DEF Inv
<1> QED BY FlowInvariant, <1>1, PTL

\* Money that left for a purchase can be traced: a credit the ledger confirmed is in the
\* ledger and on the chain, and an error that names no signature took no money unless an
\* answer was late or lost (models.ts 237-266).
THEOREM Traceable == FlowSpec => []PurchaseIsTraceable
<1>1. Inv => PurchaseIsTraceable
  <2> SUFFICES ASSUME Inv, NEW s \in Sends, kind[s] = "server"
               PROVE /\ flow[s] = "done" /\ s \notin blank => s \in ledger /\ Landings(s) = 1
                     /\ Stood(s, {"known", "landed"}) /\ flow[s] = "failed" => missed[s]
    BY DEF PurchaseIsTraceable
  <2>1. FlowInv(s) /\ SendInv(s) /\ WalletInv /\ missed[s] \in BOOLEAN
    BY DEF Inv, WalletInv, WalletTypeOK
  <2>2. /\ Landings(s) = MovedAt(tx[s][1])
        /\ Stood(s, {"known", "landed"}) <=> tx[s][1] \in {"known", "landed"}
    BY <2>1, SeenNow DEF Seen
  <2>3. flow[s] = "done" /\ s \notin blank => s \in ledger /\ tx[s][1] = "landed"
    BY <2>1 DEF FlowInv
  <2>4. flow[s] = "failed" /\ ~missed[s] => tx[s][1] \in {"none", "signed", "stale"}
    BY <2>1 DEF FlowInv, SendInv, Fresh, Truthful, Heard
  <2> QED BY <2>2, <2>3, <2>4 DEF MovedAt
<1> QED BY FlowInvariant, <1>1, PTL

\* When nothing is under way the key on file is the one the gateway accepts, however
\* purchases and rotations were interleaved (models.js 158-162, 187-204).
THEOREM KeyOnFile == FlowSpec => []KeyOnFileWorks
<1>1. Inv => KeyOnFileWorks
  BY DEF Inv, TypeOK, KeyInv, Accounted, KeyOnFileWorks
<1> QED BY FlowInvariant, <1>1, PTL
=============================================================================
