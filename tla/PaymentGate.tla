----------------------------- MODULE PaymentGate -----------------------------
(***************************************************************************)
(* Server-side payment verification (packages/x402/src/verify.ts): the     *)
(* workers of a paid service run verifyPaymentTx concurrently, against a   *)
(* replay store they share or keep each for itself.                        *)
(*                                                                         *)
(* A verification looks its signature up in the store, fetches the         *)
(* transaction with retries, and then, in one uninterrupted stretch,       *)
(* checks error, age and amount and marks the signature used.  Other       *)
(* verifications run between the lookup and the mark, and the mark may     *)
(* fail without anyone being told.                                         *)
(***************************************************************************)
EXTENDS Integers

CONSTANTS
  Verifications,   \* the invocations of verifyPaymentTx
  Sigs,            \* transaction signatures
  Workers,         \* the processes verifications run in
  Stores,          \* the replay stores
  NoStore,         \* no replay store configured
  StoreOf,         \* the store each worker was given, or NoStore
  Durable,         \* the stores that survive a restart (FileReplayStore does)
  Failing,         \* the stores whose write may fail unnoticed (FileReplayStore's)
  Amounts,         \* what a transaction can pay the treasury, and a request cost
  Retries,         \* fetch attempts
  MaxAge,          \* maxAgeMs, in clock ticks
  MaxClock,        \* bound on the clock
  Absent           \* a transaction the chain has not included; a claim not made

Times == 0..MaxClock
Transactions == [ok : BOOLEAN, blockTime : Times, received : Amounts]
Claims == [sig : Sigs, required : Amounts, worker : Workers]

ASSUME GateAssumption ==
  /\ NoStore \notin Stores
  /\ StoreOf \in [Workers -> Stores \cup {NoStore}]
  /\ Durable \subseteq Stores
  /\ Failing \subseteq Stores
  /\ Amounts \subseteq Nat
  /\ Retries \in Nat
  /\ MaxAge \in Nat
  /\ MaxClock \in Nat
  /\ Absent \notin Transactions
  /\ Absent \notin Claims

VARIABLES
  clock,     \* the time
  chain,     \* the transaction of each signature, once included
  used,      \* the signatures each store holds
  claim,     \* what each verification was called with, and where it runs
  phase,     \* how far it is
  attempt,   \* fetches it has begun
  after,     \* history: the pairs <<u, v>> where v began when u was over
  unmarked   \* history: the acceptances whose mark was not written, or was lost since

vars == <<clock, chain, used, claim, phase, attempt, after, unmarked>>

Phases == {"idle", "fetching", "accepted", "used", "unavailable", "failed", "tooOld",
           "undatable", "insufficient", "lost"}

TypeOK ==
  /\ clock \in Times
  /\ chain \in [Sigs -> Transactions \cup {Absent}]
  /\ used \in [Stores -> SUBSET Sigs]
  /\ claim \in [Verifications -> Claims \cup {Absent}]
  /\ phase \in [Verifications -> Phases]
  /\ attempt \in [Verifications -> 0..Retries]
  /\ after \in SUBSET (Verifications \X Verifications)
  /\ unmarked \in SUBSET Verifications

Init ==
  /\ clock = 0
  /\ chain = [s \in Sigs |-> Absent]
  /\ used = [st \in Stores |-> {}]
  /\ claim = [v \in Verifications |-> Absent]
  /\ phase = [v \in Verifications |-> "idle"]
  /\ attempt = [v \in Verifications |-> 0]
  /\ after = {}
  /\ unmarked = {}

Fetching(v) == phase[v] = "fetching"
Accepted(v) == phase[v] = "accepted"
Over(v) == phase[v] \notin {"idle", "fetching"}
StoreFor(v) == StoreOf[claim[v].worker]

-----------------------------------------------------------------------------
(* The environment: time passes, transactions are included, workers crash. *)

Tick ==
  /\ clock < MaxClock
  /\ clock' = clock + 1
  /\ UNCHANGED <<chain, used, claim, phase, attempt, after, unmarked>>

Include(s, ok, received) ==
  /\ chain[s] = Absent
  /\ chain' = [chain EXCEPT ![s] = [ok |-> ok, blockTime |-> clock, received |-> received]]
  /\ UNCHANGED <<clock, used, claim, phase, attempt, after, unmarked>>

\* A worker process stops and is started again: its verifications are gone, and
\* so is what it remembered, unless the store is durable.
Restart(w) ==
  /\ phase' = [v \in Verifications |->
                 IF phase[v] = "fetching" /\ claim[v].worker = w THEN "lost" ELSE phase[v]]
  /\ used' = [st \in Stores |-> IF st = StoreOf[w] /\ st \notin Durable THEN {} ELSE used[st]]
  /\ unmarked' = unmarked \cup
       {v \in Verifications : Accepted(v) /\ StoreFor(v) = StoreOf[w] /\ StoreOf[w] \notin Durable}
  /\ UNCHANGED <<clock, chain, claim, attempt, after>>

-----------------------------------------------------------------------------
(* verifyPaymentTx.                                                        *)

IsUsed(s, w) == StoreOf[w] # NoStore /\ s \in used[StoreOf[w]]

\* The call: a signature the store holds is turned away, any other is fetched
\* (with no attempts configured, the loop is not entered and the call fails).
Begin(v, s, required, w) ==
  /\ phase[v] = "idle"
  /\ claim' = [claim EXCEPT ![v] = [sig |-> s, required |-> required, worker |-> w]]
  /\ \/ /\ IsUsed(s, w)
        /\ phase' = [phase EXCEPT ![v] = "used"]
        /\ UNCHANGED attempt
     \/ /\ ~IsUsed(s, w)
        /\ phase' = [phase EXCEPT ![v] = IF Retries = 0 THEN "unavailable" ELSE "fetching"]
        /\ attempt' = [attempt EXCEPT ![v] = IF Retries = 0 THEN 0 ELSE 1]
  /\ after' = after \cup {<<u, v>> : u \in {u \in Verifications : Over(u)}}
  /\ UNCHANGED <<clock, chain, used, unmarked>>

\* Mutant of FetchMisses: no end of attempts.
FetchMissesForever(v) ==
  /\ Fetching(v)
  /\ UNCHANGED vars

\* A fetch that does not find the transaction (it is not included, or the node has
\* not seen it yet) or fails (RPC error): the next attempt, after a delay, or none.
FetchMisses(v) ==
  /\ Fetching(v)
  /\ \/ /\ attempt[v] < Retries
        /\ attempt' = [attempt EXCEPT ![v] = @ + 1]
        /\ UNCHANGED phase
     \/ /\ attempt[v] >= Retries
        /\ phase' = [phase EXCEPT ![v] = "unavailable"]
        /\ UNCHANGED attempt
  /\ UNCHANGED <<clock, chain, used, claim, after, unmarked>>

\* Mutants of Verdict: failed transactions pass; undated ones pass without a store;
\* the amount is not compared; the exact amount is too little.
VerdictIgnoringError(t, required, dated, st) ==
  IF dated /\ clock - t.blockTime > MaxAge THEN "tooOld"
  ELSE IF t.received < required THEN "insufficient"
  ELSE "accepted"
VerdictTrustingUndated(t, required, dated, st) ==
  IF ~t.ok THEN "failed"
  ELSE IF dated /\ clock - t.blockTime > MaxAge THEN "tooOld"
  ELSE IF t.received < required THEN "insufficient"
  ELSE "accepted"
VerdictIgnoringAmount(t, required, dated, st) ==
  IF ~t.ok THEN "failed"
  ELSE IF dated /\ clock - t.blockTime > MaxAge THEN "tooOld"
  ELSE "accepted"
VerdictWantingMore(t, required, dated, st) ==
  IF ~t.ok THEN "failed"
  ELSE IF dated /\ clock - t.blockTime > MaxAge THEN "tooOld"
  ELSE IF t.received <= required THEN "insufficient"
  ELSE "accepted"

\* What the checks make of a transaction; dated is whether the node reports its
\* block time, st the replay store or NoStore.  An undated one is taken only where a store bounds its replay.
Verdict(t, required, dated, st) ==
  IF ~t.ok THEN "failed"
  ELSE IF dated /\ clock - t.blockTime > MaxAge THEN "tooOld"
  ELSE IF ~dated /\ st = NoStore THEN "undatable"
  ELSE IF t.received < required THEN "insufficient"
  ELSE "accepted"

\* Mutant of Mark: accepted signatures are not remembered.
MarkNothing(v, st, s) == UNCHANGED <<used, unmarked>>

\* The store's add, where there is a store.  It keeps the first mark and says nothing
\* about a second; a file store says nothing of a write that failed, either.
Mark(v, st, s) ==
  \/ /\ st \in Stores
     /\ used' = [used EXCEPT ![st] = @ \cup {s}]
     /\ UNCHANGED unmarked
  \/ /\ st \in Failing
     /\ s \notin used[st]
     /\ unmarked' = unmarked \cup {v}
     /\ UNCHANGED used
  \/ /\ st \notin Stores
     /\ UNCHANGED <<used, unmarked>>

\* A fetch that finds it: the checks, and the mark when they all pass.
FetchFinds(v, dated) ==
  LET t == chain[claim[v].sig]
      verdict == Verdict(t, claim[v].required, dated, StoreFor(v))
  IN
  /\ Fetching(v)
  /\ t # Absent
  /\ phase' = [phase EXCEPT ![v] = verdict]
  /\ \/ verdict = "accepted" /\ Mark(v, StoreFor(v), claim[v].sig)
     \/ verdict # "accepted" /\ UNCHANGED <<used, unmarked>>
  /\ UNCHANGED <<clock, chain, claim, attempt, after>>

-----------------------------------------------------------------------------
Verify(v) ==
  \/ FetchMisses(v)
  \/ \E dated \in BOOLEAN : FetchFinds(v, dated)

Next ==
  \/ Tick
  \/ \E s \in Sigs, ok \in BOOLEAN, received \in Amounts : Include(s, ok, received)
  \/ \E w \in Workers : Restart(w)
  \/ \E v \in Verifications, s \in Sigs, required \in Amounts, w \in Workers :
       Begin(v, s, required, w)
  \/ \E v \in Verifications : Verify(v)

Spec == Init /\ [][Next]_vars

\* A fetch answers or fails (the RPC client settles), and the retry delay is a timer.
FairSpec == Spec /\ \A v \in Verifications : WF_vars(Verify(v))

-----------------------------------------------------------------------------
(* Properties.                                                             *)

\* A request is let through only for a transaction that is on the chain, did not
\* fail, and paid the treasury at least what that request costs (verify.ts 137-153).
AcceptedIsPaid ==
  \A v \in Verifications :
    Accepted(v) =>
      /\ chain[claim[v].sig] # Absent
      /\ chain[claim[v].sig].ok
      /\ chain[claim[v].sig].received >= claim[v].required

\* A mark that was written is the end of its signature: a verification that begins after
\* another was accepted with it, at the same store, gets through only where that
\* one's mark was never written or went with the memory of a restarted process.  What
\* remains is the overlap: two that were in flight together (verify.ts 117, 155).
SameMark(u, v) ==
  claim[u].sig = claim[v].sig /\ StoreFor(u) = StoreFor(v) /\ StoreFor(u) \in Stores
MarkedIsSpent ==
  \A u, v \in Verifications :
    <<u, v>> \in after /\ Accepted(u) /\ Accepted(v) /\ SameMark(u, v) => u \in unmarked

\* What verify.ts:58-59 says of the file store: "concurrent workers on the same host
\* can't both consume the same payment".
ConsumedOnce ==
  \A u, v \in Verifications :
    /\ Accepted(u) /\ Accepted(v)
    /\ claim[u].worker # claim[v].worker
    => ~SameMark(u, v)

\* Where there is no store every acceptance is of a transaction whose age was checked and
\* is within the window, so an old payment is never honoured, whatever was lost in
\* a restart (verify.ts 142-146).
UnstoredIsRecent ==
  [][\A v \in Verifications :
       ~Accepted(v) /\ Accepted(v)' /\ StoreFor(v) = NoStore =>
         clock - chain[claim[v].sig].blockTime <= MaxAge]_vars

\* A store never turns away a payment that bought nothing: each mark is of a
\* verification that was accepted with it at that store (verify.ts 155).
MarksAreAcceptances ==
  \A st \in Stores : \A s \in used[st] :
    \E v \in Verifications : Accepted(v) /\ claim[v].sig = s /\ StoreFor(v) = st

\* The inductive invariant: a verification that began has a claim; what came after
\* another found it over; an accepted signature is marked unless it is among the unmarked;
\* and one that came after a marked acceptance is neither under way nor accepted.
GateInv ==
  /\ \A v \in Verifications : phase[v] # "idle" => claim[v] \in Claims
  /\ \A u, v \in Verifications : <<u, v>> \in after => Over(u)
  /\ \A v \in Verifications :
       Accepted(v) /\ StoreFor(v) \in Stores /\ v \notin unmarked => claim[v].sig \in used[StoreFor(v)]
  /\ \A u, v \in Verifications :
       <<u, v>> \in after /\ Accepted(u) /\ u \notin unmarked /\ SameMark(u, v)
         => ~Fetching(v) /\ ~Accepted(v)

\* Every verification that began comes to a verdict (or its process is restarted).
VerificationsEnd == \A v \in Verifications : Fetching(v) ~> ~Fetching(v)
=============================================================================
