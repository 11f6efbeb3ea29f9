-------------------------- MODULE PaymentGate_proofs --------------------------
(***************************************************************************)
(* Theorems about PaymentGate, for any number of verifications, workers    *)
(* and stores, any clock bound and any number of fetch attempts.           *)
(***************************************************************************)
EXTENDS PaymentGate, TLAPS

IInv == TypeOK /\ GateInv /\ AcceptedIsPaid /\ MarksAreAcceptances

\* The verdict is one of the phases, and "accepted" is given only to a transaction
\* that succeeded and covers the price.
LEMMA VerdictSound ==
  ASSUME NEW t, NEW required, NEW dated \in BOOLEAN, NEW st
  PROVE  /\ Verdict(t, required, dated, st) \in Phases \ {"idle", "fetching", "used"}
         /\ Verdict(t, required, dated, st) = "accepted" => t.ok /\ ~(t.received < required)
  BY DEF Verdict, Phases

LEMMA InitIInv == Init => IInv
  BY GateAssumption
  DEF Init, IInv, TypeOK, GateInv, AcceptedIsPaid, MarksAreAcceptances, Accepted, Fetching,
      Phases, Times

LEMMA TypePreserved == IInv /\ [Next]_vars => TypeOK'
<1> SUFFICES ASSUME IInv, [Next]_vars PROVE TypeOK'
  OBVIOUS
<1> USE GateAssumption DEF IInv, TypeOK, Fetching
<1>1. CASE Tick
  BY <1>1 DEF Tick, Times
<1>2. ASSUME NEW s \in Sigs, NEW ok \in BOOLEAN, NEW received \in Amounts, Include(s, ok, received)
      PROVE TypeOK'
  BY <1>2 DEF Include, Transactions
<1>3. ASSUME NEW w \in Workers, Restart(w) PROVE TypeOK'
  BY <1>3 DEF Restart, Phases
<1>4. ASSUME NEW v \in Verifications, NEW s \in Sigs, NEW required \in Amounts,
             NEW w \in Workers, Begin(v, s, required, w)
      PROVE TypeOK'
  BY <1>4 DEF Begin, Claims, Phases
<1>5. ASSUME NEW v \in Verifications, FetchMisses(v) PROVE TypeOK'
  BY <1>5 DEF FetchMisses, Phases
<1>6. ASSUME NEW v \in Verifications, NEW dated \in BOOLEAN, FetchFinds(v, dated) PROVE TypeOK'
  <2>1. claim[v] \in Claims
    BY <1>6 DEF FetchFinds, GateInv
  <2>2. used' \in [Stores -> SUBSET Sigs] /\ unmarked' \in SUBSET Verifications
    BY <1>6, <2>1 DEF FetchFinds, Mark, Claims
  <2>3. phase' \in [Verifications -> Phases]
    BY <1>6, VerdictSound DEF FetchFinds
  <2>4. QED
    BY <1>6, <2>2, <2>3 DEF FetchFinds
<1>7. CASE UNCHANGED vars
  BY <1>7 DEF vars
<1>8. QED
  BY <1>1, <1>2, <1>3, <1>4, <1>5, <1>6, <1>7 DEF Next, Verify

LEMMA AcceptedPreserved == IInv /\ TypeOK' /\ [Next]_vars => AcceptedIsPaid'
<1> SUFFICES ASSUME IInv, TypeOK', [Next]_vars PROVE AcceptedIsPaid'
  OBVIOUS
<1> USE DEF IInv, TypeOK, AcceptedIsPaid, Accepted, Fetching
<1>1. CASE Tick
  BY <1>1 DEF Tick
<1>2. ASSUME NEW s \in Sigs, NEW ok \in BOOLEAN, NEW received \in Amounts, Include(s, ok, received)
      PROVE AcceptedIsPaid'
  BY <1>2 DEF Include
<1>3. ASSUME NEW w \in Workers, Restart(w) PROVE AcceptedIsPaid'
  BY <1>3 DEF Restart
<1>4. ASSUME NEW v \in Verifications, NEW s \in Sigs, NEW required \in Amounts,
             NEW w \in Workers, Begin(v, s, required, w)
      PROVE AcceptedIsPaid'
  BY <1>4 DEF Begin
<1>5. ASSUME NEW v \in Verifications, FetchMisses(v) PROVE AcceptedIsPaid'
  BY <1>5 DEF FetchMisses
<1>6. ASSUME NEW v \in Verifications, NEW dated \in BOOLEAN, FetchFinds(v, dated)
      PROVE AcceptedIsPaid'
  <2>1. claim[v] \in Claims
    BY <1>6 DEF FetchFinds, GateInv
  <2>2. chain[claim[v].sig] \in Transactions /\ claim[v].required \in Nat
        /\ chain[claim[v].sig].received \in Nat
    BY <1>6, <2>1, GateAssumption DEF FetchFinds, Claims, Transactions
  <2>3. Accepted(v)' => /\ chain[claim[v].sig].ok
                        /\ chain[claim[v].sig].received >= claim[v].required
    <3> DEFINE verdict == Verdict(chain[claim[v].sig], claim[v].required, dated, StoreFor(v))
    <3>1. phase' = [phase EXCEPT ![v] = verdict] /\ chain' = chain /\ claim' = claim
      BY <1>6 DEF FetchFinds
    <3>2. verdict = "accepted" =>
            chain[claim[v].sig].ok /\ ~(chain[claim[v].sig].received < claim[v].required)
      BY VerdictSound
    <3> HIDE DEF verdict
    <3>3. QED
      BY <2>2, <3>1, <3>2
  <2>4. QED
    BY <1>6, <2>3 DEF FetchFinds
<1>7. CASE UNCHANGED vars
  BY <1>7 DEF vars
<1>8. QED
  BY <1>1, <1>2, <1>3, <1>4, <1>5, <1>6, <1>7 DEF Next, Verify

\* An acceptance marks its signature or is recorded as unmarked, and so is one whose mark
\* goes with the memory of a restarted worker.
LEMMA GatePreserved == IInv /\ TypeOK' /\ [Next]_vars => GateInv'
<1> SUFFICES ASSUME IInv, TypeOK', [Next]_vars PROVE GateInv'
  OBVIOUS
<1> USE DEF IInv, TypeOK, GateInv, Accepted, Fetching, Over, SameMark, StoreFor
<1>1. CASE Tick
  BY <1>1 DEF Tick
<1>2. ASSUME NEW s \in Sigs, NEW ok \in BOOLEAN, NEW received \in Amounts, Include(s, ok, received)
      PROVE GateInv'
  BY <1>2 DEF Include
<1>3. ASSUME NEW w \in Workers, Restart(w) PROVE GateInv'
  <2>1. /\ \A v \in Verifications : Accepted(v)' <=> Accepted(v)
        /\ \A v \in Verifications : Fetching(v)' => Fetching(v)
        /\ \A v \in Verifications : Over(v) => Over(v)'
        /\ \A v \in Verifications : phase'[v] # "idle" => phase[v] # "idle"
        /\ claim' = claim /\ after' = after /\ unmarked \subseteq unmarked'
    BY <1>3 DEF Restart
  <2>2. \A v \in Verifications :
          Accepted(v) /\ v \notin unmarked' /\ StoreFor(v) \in Stores
            => used'[StoreFor(v)] = used[StoreFor(v)]
    BY <1>3 DEF Restart
  <2>3. QED
    BY <2>1, <2>2
<1>4. ASSUME NEW v \in Verifications, NEW s \in Sigs, NEW required \in Amounts,
             NEW w \in Workers, Begin(v, s, required, w)
      PROVE GateInv'
  <2>1. /\ phase[v] = "idle" /\ phase'[v] \in {"used", "unavailable", "fetching"}
        /\ \A u \in Verifications \ {v} : phase'[u] = phase[u]
        /\ used' = used /\ unmarked' = unmarked
    BY <1>4 DEF Begin
  <2>2. claim'[v] \in Claims /\ claim'[v].sig = s /\ claim'[v].worker = w
        /\ \A u \in Verifications \ {v} : claim'[u] = claim[u]
    BY <1>4 DEF Begin, Claims
  <2>3. \A u, x \in Verifications :
          <<u, x>> \in after' => <<u, x>> \in after \/ (x = v /\ Over(u))
    BY <1>4 DEF Begin
  <2>4. \A u \in Verifications :
          Accepted(u) /\ u \notin unmarked /\ SameMark(u, v)' => phase'[v] = "used"
    BY <1>4, <2>1, <2>2, GateAssumption DEF Begin, IsUsed
  <2>5. \A u, x \in Verifications : <<u, x>> \in after' => Over(u)'
    BY <2>1, <2>3
  <2>6. \A u, x \in Verifications :
          <<u, x>> \in after' /\ Accepted(u)' /\ u \notin unmarked' /\ SameMark(u, x)'
            => ~Fetching(x)' /\ ~Accepted(x)'
    <3> SUFFICES ASSUME NEW u \in Verifications, NEW x \in Verifications,
                        <<u, x>> \in after', Accepted(u)', u \notin unmarked', SameMark(u, x)'
                 PROVE  ~Fetching(x)' /\ ~Accepted(x)'
      OBVIOUS
    <3>1. Accepted(u) /\ u # v
      BY <2>1
    <3>2. CASE x = v
      BY <2>1, <2>4, <3>1, <3>2
    <3>3. CASE x # v
      BY <2>1, <2>2, <2>3, <3>1, <3>3
    <3>4. QED
      BY <3>2, <3>3
  <2>7. /\ \A u \in Verifications : phase'[u] # "idle" => claim'[u] \in Claims
        /\ \A u \in Verifications :
             Accepted(u)' /\ StoreFor(u)' \in Stores /\ u \notin unmarked'
               => claim'[u].sig \in used'[StoreFor(u)']
    BY <2>1, <2>2
  <2>8. QED
    BY <2>5, <2>6, <2>7
<1>5. ASSUME NEW v \in Verifications, FetchMisses(v) PROVE GateInv'
  BY <1>5 DEF FetchMisses
<1>6. ASSUME NEW v \in Verifications, NEW dated \in BOOLEAN, FetchFinds(v, dated)
      PROVE GateInv'
  <2>1. /\ Fetching(v) /\ Over(v)'
        /\ \A u \in Verifications \ {v} : phase'[u] = phase[u]
        /\ claim' = claim /\ after' = after
    <3> DEFINE verdict == Verdict(chain[claim[v].sig], claim[v].required, dated, StoreFor(v))
    <3>1. /\ Fetching(v) /\ phase' = [phase EXCEPT ![v] = verdict]
          /\ claim' = claim /\ after' = after
      BY <1>6 DEF FetchFinds
    <3>2. verdict \notin {"idle", "fetching"}
      BY VerdictSound
    <3> HIDE DEF verdict
    <3>3. QED
      BY <3>1, <3>2
  <2>2. claim[v] \in Claims
    BY <2>1
  <2>3. /\ \A st \in Stores : used[st] \subseteq used'[st]
        /\ unmarked \subseteq unmarked'
    BY <1>6, <2>2 DEF FetchFinds, Mark
  <2>4. Accepted(v)' /\ StoreFor(v) \in Stores /\ v \notin unmarked'
          => claim[v].sig \in used'[StoreFor(v)]
    BY <1>6, <2>2, VerdictSound, GateAssumption DEF FetchFinds, Mark
  <2>5. QED
    BY <2>1, <2>2, <2>3, <2>4
<1>7. CASE UNCHANGED vars
  BY <1>7 DEF vars
<1>8. QED
  BY <1>1, <1>2, <1>3, <1>4, <1>5, <1>6, <1>7 DEF Next, Verify

LEMMA MarksPreserved == IInv /\ TypeOK' /\ [Next]_vars => MarksAreAcceptances'
<1> SUFFICES ASSUME IInv, TypeOK', [Next]_vars PROVE MarksAreAcceptances'
  OBVIOUS
<1> USE DEF IInv, TypeOK, GateInv, MarksAreAcceptances, Accepted, Fetching, StoreFor
<1>1. CASE Tick
  BY <1>1 DEF Tick
<1>2. ASSUME NEW s \in Sigs, NEW ok \in BOOLEAN, NEW received \in Amounts, Include(s, ok, received)
      PROVE MarksAreAcceptances'
  BY <1>2 DEF Include
<1>3. ASSUME NEW w \in Workers, Restart(w) PROVE MarksAreAcceptances'
  BY <1>3, GateAssumption DEF Restart
<1>4. ASSUME NEW v \in Verifications, NEW s \in Sigs, NEW required \in Amounts,
             NEW w \in Workers, Begin(v, s, required, w)
      PROVE MarksAreAcceptances'
  BY <1>4 DEF Begin
<1>5. ASSUME NEW v \in Verifications, FetchMisses(v) PROVE MarksAreAcceptances'
  BY <1>5 DEF FetchMisses
<1>6. ASSUME NEW v \in Verifications, NEW dated \in BOOLEAN, FetchFinds(v, dated)
      PROVE MarksAreAcceptances'
  BY <1>6, VerdictSound DEF FetchFinds, Mark
<1>7. CASE UNCHANGED vars
  BY <1>7 DEF vars
<1>8. QED
  BY <1>1, <1>2, <1>3, <1>4, <1>5, <1>6, <1>7 DEF Next, Verify

-----------------------------------------------------------------------------
\* The strengthened invariant holds in every reachable state.
THEOREM Inductive == Spec => []IInv
<1>1. IInv /\ [Next]_vars => IInv'
  BY TypePreserved, AcceptedPreserved, GatePreserved, MarksPreserved DEF IInv
<1>2. QED
  BY <1>1, InitIInv, PTL DEF Spec

\* Every variable keeps its type.
THEOREM TypeCorrect == Spec => []TypeOK
<1>1. IInv => TypeOK
  BY DEF IInv
<1>2. QED
  BY <1>1, Inductive, PTL

\* Nothing is let through unpaid or underpaid.
THEOREM PaidFor == Spec => []AcceptedIsPaid
<1>1. IInv => AcceptedIsPaid
  BY DEF IInv
<1>2. QED
  BY <1>1, Inductive, PTL

\* A written mark ends its signature, at any store and over any restarts: whoever begins
\* later is not let through with it, unless its store never wrote it or has lost it.
THEOREM MarkEndsSignature == Spec => []MarkedIsSpent
<1>1. IInv => MarkedIsSpent
  BY DEF IInv, GateInv, MarkedIsSpent
<1>2. QED
  BY <1>1, Inductive, PTL

\* A store never turns away a signature that bought nothing, failed writes and restarts
\* included.
THEOREM MarksAreEarned == Spec => []MarksAreAcceptances
<1>1. IInv => MarksAreAcceptances
  BY DEF IInv
<1>2. QED
  BY <1>1, Inductive, PTL

-----------------------------------------------------------------------------
(* Where there is no store.                                                *)

\* An acceptance is the end of a fetch, and without a store it needs a block time that is
\* within the window at that moment.
LEMMA UnstoredStep ==
  ASSUME IInv, [Next]_vars, NEW v \in Verifications,
         ~Accepted(v), Accepted(v)', StoreFor(v) = NoStore
  PROVE  clock - chain[claim[v].sig].blockTime <= MaxAge
<1> USE DEF IInv, TypeOK, Accepted, Fetching
<1>1. ASSUME NEW u \in Verifications, NEW dated \in BOOLEAN, FetchFinds(u, dated)
      PROVE clock - chain[claim[v].sig].blockTime <= MaxAge
  <2> DEFINE t == chain[claim[u].sig]
             verdict == Verdict(t, claim[u].required, dated, StoreFor(u))
  <2>1. Fetching(u) /\ t # Absent /\ phase' = [phase EXCEPT ![u] = verdict]
    BY <1>1 DEF FetchFinds
  <2>2. u = v /\ verdict = "accepted"
    <3> HIDE DEF verdict
    <3>1. QED
      BY <2>1
  <2>3. dated /\ ~(clock - t.blockTime > MaxAge)
    BY <2>2 DEF Verdict
  <2>4. clock \in Nat /\ t.blockTime \in Nat /\ MaxAge \in Nat
    <3>1. claim[u].sig \in Sigs
      BY <2>1 DEF GateInv, Claims
    <3>2. chain[claim[u].sig] \in Transactions
      BY <2>1, <3>1
    <3>3. QED
      BY <3>2, GateAssumption DEF Transactions, Times
  <2>5. QED
    BY <2>2, <2>3, <2>4
<1>2. CASE Tick
  BY <1>2 DEF Tick
<1>3. ASSUME NEW s \in Sigs, NEW ok \in BOOLEAN, NEW received \in Amounts, Include(s, ok, received)
      PROVE FALSE
  BY <1>3 DEF Include
<1>4. ASSUME NEW w \in Workers, Restart(w) PROVE FALSE
  BY <1>4 DEF Restart
<1>5. ASSUME NEW u \in Verifications, NEW s \in Sigs, NEW required \in Amounts,
             NEW w \in Workers, Begin(u, s, required, w)
      PROVE FALSE
  BY <1>5 DEF Begin
<1>6. ASSUME NEW u \in Verifications, FetchMisses(u) PROVE FALSE
  BY <1>6 DEF FetchMisses
<1>7. CASE UNCHANGED vars
  BY <1>7 DEF vars
<1>8. QED
  BY <1>1, <1>2, <1>3, <1>4, <1>5, <1>6, <1>7 DEF Next, Verify

\* Without a store, age is all that bounds replay, and no acceptance goes without it
\* (verify.ts 142-146).
THEOREM RecentWithoutStore == Spec => UnstoredIsRecent
<1> DEFINE Recent ==
      \A v \in Verifications :
        ~Accepted(v) /\ Accepted(v)' /\ StoreFor(v) = NoStore =>
          clock - chain[claim[v].sig].blockTime <= MaxAge
<1>1. IInv /\ [Next]_vars => [Recent]_vars
  BY UnstoredStep
<1>2. QED
  BY <1>1, Inductive, PTL DEF Spec, UnstoredIsRecent
=============================================================================
