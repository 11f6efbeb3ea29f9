----------------------------- MODULE OwnerAuth -----------------------------
(* Owner-signed requests of @circuit-llm/core (owner-auth.ts): the owner's   *)
(* terminal signs a time and a fresh nonce with each request, and the        *)
(* service checks the time, spends the nonce and checks the signature, in    *)
(* that order.  The network may delay a request, deliver it again, or damage *)
(* it; the two machines' clocks differ.  A request stands for its nonce,     *)
(* drawn at random for it.                                                   *)
EXTENDS Clock, Sequences, FiniteSets

CONSTANTS
  Requests,         \* bound: the signed requests
  RequestMaxAge,    \* maxAgeMs
  MaxSkew,          \* bound: how far the owner's clock is from the service's
  StoreLimit,       \* size above which the nonce store prunes (5000)
  MaxCopies,        \* bound: copies of one request that arrive
  NoExpiry          \* a nonce that is not in the store

ASSUME OwnerAssumption ==
  /\ RequestMaxAge \in Nat \ {0} /\ MaxSkew \in Nat /\ StoreLimit \in Nat
  /\ NoExpiry \notin Int

VARIABLES
  stamp,            \* request -> X-Circuit-Ts, NoExpiry before it is signed
  store,            \* NonceStore.m: request -> the expiry of its nonce
  arrivals          \* request -> the copies that arrived: when, and the answer

ownerVars == <<stamp, store, arrivals>>

\* What became of a copy: intact, or its path or body changed on the way, or some of
\* its headers lost.
Copies == {"intact", "damaged", "incomplete"}
Answers == {"accepted", "incomplete", "stale", "replay", "bad signature"}
Arrival == [at : Times, copy : Copies, answer : Answers]

OwnerTypeOK ==
  /\ stamp \in [Requests -> Int \cup {NoExpiry}]
  /\ store \in [Requests -> Int \cup {NoExpiry}]
  /\ arrivals \in [Requests -> Seq(Arrival)]

OwnerInit ==
  /\ stamp = [r \in Requests |-> NoExpiry]
  /\ store = [r \in Requests |-> NoExpiry]
  /\ arrivals = [r \in Requests |-> <<>>]

OwnerTick == Tick /\ UNCHANGED ownerVars

\* ownerAuthHeaders: the owner's clock, a new nonce.
SignRequest(r) ==
  /\ stamp[r] = NoExpiry
  /\ \E ts \in clock - MaxSkew .. clock + MaxSkew : stamp' = [stamp EXCEPT ![r] = ts]
  /\ UNCHANGED <<clock, store, arrivals>>

\* NonceStore.has: an expiry that has come no longer counts.  The entry it deletes then
\* is written again by the add that follows.
Has(r) == store[r] # NoExpiry /\ store[r] > clock

\* NonceStore.add: beyond the limit, the entries that expired go.  Mutant: the limit
\* is kept by letting any other entry go.
Stored(s) == {r \in Requests : s[r] # NoExpiry}
PrunedToLimit(s, r) ==
  IF Cardinality(Stored(s)) > StoreLimit
    THEN [x \in Requests |-> IF x = r THEN s[x] ELSE NoExpiry] ELSE s
Pruned(s, r) ==
  IF Cardinality(Stored(s)) > StoreLimit
    THEN [x \in Requests |-> IF s[x] # NoExpiry /\ s[x] <= clock THEN NoExpiry ELSE s[x]]
    ELSE s
Add(r) == Pruned([store EXCEPT ![r] = stamp[r] + RequestMaxAge], r)

\* verifyOwnerRequest.
InWindow(r) == clock - stamp[r] <= RequestMaxAge /\ stamp[r] - clock <= RequestMaxAge
AnswerTo(r, copy) ==
  CASE copy = "incomplete" -> "incomplete"
    [] copy # "incomplete" /\ ~InWindow(r) -> "stale"
    [] copy # "incomplete" /\ InWindow(r) /\ Has(r) -> "replay"
    [] copy = "damaged" /\ InWindow(r) /\ ~Has(r) -> "bad signature"
    [] copy = "intact" /\ InWindow(r) /\ ~Has(r) -> "accepted"

\* A nonce is spent once the time is right, before the signature is checked.
Spends(r, copy) == copy # "incomplete" /\ InWindow(r) /\ ~Has(r)

Arrive(r, copy) ==
  /\ stamp[r] # NoExpiry
  /\ Len(arrivals[r]) < MaxCopies
  /\ store' = IF Spends(r, copy) THEN Add(r) ELSE store
  /\ arrivals' = [arrivals EXCEPT ![r] =
                   Append(@, [at |-> clock, copy |-> copy, answer |-> AnswerTo(r, copy)])]
  /\ UNCHANGED <<clock, stamp>>

OwnerNext ==
  \/ OwnerTick
  \/ \E r \in Requests : SignRequest(r)
  \/ \E r \in Requests, copy \in Copies : Arrive(r, copy)

OwnerSpec == clock = 0 /\ OwnerInit /\ [][OwnerNext]_<<clock, ownerVars>>

-----------------------------------------------------------------------------
(* Properties.                                                             *)

\* A signed request is honoured once, however often it is delivered and whatever the
\* store pruned meanwhile -- but for the last instant of its window, in which the time
\* still passes (`> maxAgeMs') and the nonce no longer counts (`e > Date.now()').
AcceptedOnce ==
  \A r \in Requests : \A i, j \in DOMAIN arrivals[r] :
    /\ i < j
    /\ arrivals[r][i].answer = "accepted" /\ arrivals[r][j].answer = "accepted"
    => arrivals[r][j].at = stamp[r] + RequestMaxAge

\* An owner told of a replay has had a copy of the same request pass the time check
\* before: it was accepted, or its signature did not match, in which case the intact
\* copy is refused although nothing was done for it (owner-auth.ts 133-143).
ReplayIsExplained ==
  \A r \in Requests : \A j \in DOMAIN arrivals[r] :
    arrivals[r][j].answer = "replay" =>
      \E i \in 1..(j - 1) : arrivals[r][i].answer \in {"accepted", "bad signature"}

\* A nonce authorises one request, and is only ever refused because that request was
\* seen.
NonceIsSpentOnce == AcceptedOnce /\ ReplayIsExplained
=============================================================================
