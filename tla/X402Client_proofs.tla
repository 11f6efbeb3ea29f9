-------------------------- MODULE X402Client_proofs --------------------------
(***************************************************************************)
(* Theorems about X402Client, for every set of calls, payees and amounts,  *)
(* every configuration of the limits, and every way of using the client.   *)
(***************************************************************************)
EXTENDS X402Client, FiniteSetTheorems, TLAPS

\* What the checks let through is a permitted payment, and an offer.
LEMMA AcceptedIsPermitted ==
  ASSUME NEW challenge \in Challenges, Screen(Selected(challenge)) = "accepted"
  PROVE  /\ Selected(challenge) \in Permitted
         /\ ~OverBudget(Selected(challenge))
<1>1. Selected(challenge) \in Offers
  BY DEF Selected, Challenges, OffersIn
<1>2. QED
  BY <1>1 DEF Screen, Permitted

LEMMA PermittedIsOffer == Permitted \subseteq Offers /\ NoOffer \notin Permitted
  BY ClientAssumption DEF Permitted, Offers

\* Every refusal the checks can give is one of the typed errors.
LEMMA ScreenIsRefusal ==
  ASSUME NEW o, Screen(o) # "accepted" PROVE Screen(o) \in Refusals
  BY DEF Screen, Refusals

IInv == TypeOK /\ StageInv

LEMMA InitIInv == Init => IInv
<1>1. Init => interleaved \in BOOLEAN
  BY Zenon DEF Init
<1>2. QED
  BY <1>1 DEF Init, IInv, TypeOK, StageInv, Stages, Outcomes, BeforeSend, AfterSend, Refusals

LEMMA NextIInv == IInv /\ [Next]_vars => IInv'
<1> SUFFICES ASSUME IInv, [Next]_vars PROVE IInv'
  OBVIOUS
<1> USE PermittedIsOffer DEF IInv, TypeOK, StageInv, Stages, Outcomes, Refusals, BeforeSend,
        AfterSend, Goto, End, wallet
<1>1. ASSUME NEW c \in Calls, Start(c) PROVE IInv'
  <2>1. interleaved' = TRUE \/ interleaved' = FALSE
    <3> HIDE DEF IInv, TypeOK, StageInv
    <3>1. QED
      BY <1>1, Zenon DEF Start
  <2>2. QED
    BY <1>1, <2>1 DEF Start
<1>2. ASSUME NEW c \in Calls, AnswerFree(c) \/ RequestThrows(c) \/ RefuseUnusable(c) \/ Abort(c)
             \/ SendThrows(c) \/ AnswerPaid(c)
      PROVE IInv'
  BY <1>2 DEF AnswerFree, RequestThrows, RefuseUnusable, Abort, SendThrows, AnswerPaid
<1>3. ASSUME NEW c \in Calls, NEW challenge \in Challenges, RefuseChallenge(c, challenge)
      PROVE IInv'
  BY <1>3, ScreenIsRefusal DEF RefuseChallenge
<1>4. ASSUME NEW c \in Calls, NEW challenge \in Challenges, AcceptChallenge(c, challenge)
      PROVE IInv'
  BY <1>4, AcceptedIsPermitted DEF AcceptChallenge
<1>5. ASSUME NEW c \in Calls, Send(c) PROVE IInv'
  BY <1>5 DEF Send
<1>6. ASSUME NEW c \in Calls, SendResolves(c) PROVE IInv'
  <2>1. offer[c] \in Offers /\ offer[c].asset \in Assets /\ offer[c].amount \in Nat
    BY <1>6, ClientAssumption DEF SendResolves, Offers
  <2>2. QED
    BY <1>6, <2>1 DEF SendResolves
<1>7. ASSUME NEW c \in Calls, AnswerTransient(c) \/ Reclaim(c) PROVE IInv'
  BY <1>7 DEF AnswerTransient, Reclaim
<1>8. ASSUME NEW c \in Calls, Chain(c) PROVE IInv'
  <2>1. CASE Broadcast(c) \/ FailOnChain(c)
    BY <2>1 DEF Broadcast, FailOnChain
  <2>2. CASE Land(c)
    <3>1. offer[c] \in Offers /\ offer[c].asset \in Assets /\ offer[c].amount \in Nat
      BY <2>2, ClientAssumption DEF Land, Offers
    <3>2. QED
      BY <2>2, <3>1 DEF Land
  <2>3. QED
    BY <1>8, <2>1, <2>2 DEF Chain
<1>9. CASE UNCHANGED vars
  BY <1>9 DEF vars
<1>10. QED
  BY <1>1, <1>2, <1>3, <1>4, <1>5, <1>6, <1>7, <1>8, <1>9 DEF Next, Resume

\* Types and stages hold in every reachable state.
THEOREM Inductive == Spec => []IInv
  BY InitIInv, NextIInv, PTL DEF Spec

\* Every variable keeps its type: in particular the running totals stay natural
\* numbers, so that the budget comparisons of the code compare naturals.
THEOREM TypeCorrect == Spec => []TypeOK
<1>1. IInv => TypeOK
  BY DEF IInv
<1>2. QED
  BY <1>1, Inductive, PTL

\* A call sends at most once, and only a payment the configured limits permit; a
\* refused one sends nothing.
THEOREM WithinLimits == Spec => []PaymentsWithinLimits
<1>1. IInv => PaymentsWithinLimits
  BY DEF IInv, TypeOK, StageInv, PaymentsWithinLimits, Permitted
<1>2. QED
  BY <1>1, Inductive, PTL

-----------------------------------------------------------------------------
(* The cumulative ceiling, for an application that awaits each call.       *)

\* What fits the budget leaves the running total within it.
LEMMA CountingWithinBudget ==
  ASSUME TypeOK, NEW o \in Offers, ~OverBudget(o), MaxTotal[o.asset] # NoLimit
  PROVE  spent[o.asset] + o.amount <= MaxTotal[o.asset]
<1>1. o.asset \in Assets /\ o.amount \in Nat
  BY ClientAssumption DEF Offers
<1>2. spent[o.asset] \in Nat
  BY <1>1 DEF TypeOK
<1>3. MaxTotal[o.asset] \in Nat
  BY <1>1, ClientAssumption DEF Limits
<1>4. QED
  BY <1>1, <1>2, <1>3 DEF OverBudget, Exceeds

\* Initially no call runs and nothing is spent.
LEMMA InitBudgetInv == Init => BudgetInv
<1> SUFFICES ASSUME Init PROVE BudgetInv
  OBVIOUS
<1>1. \A a \in Assets : MaxTotal[a] # NoLimit => spent[a] <= MaxTotal[a]
  BY ClientAssumption DEF Init, Limits
<1>2. QED
  BY <1>1 DEF Init, BudgetInv, Running, Uncounted

LEMMA NextBudgetInv == IInv /\ BudgetInv /\ [Next]_vars => BudgetInv'
<1> SUFFICES ASSUME IInv, BudgetInv, ~interleaved', [Next]_vars PROVE BudgetInv'
  BY DEF BudgetInv
<1> USE DEF BudgetInv, Running, Uncounted, OverBudget, Goto, End, wallet, IInv, TypeOK, Stages
<1>1. ASSUME NEW c \in Calls, Start(c) PROVE BudgetInv'
  BY <1>1 DEF Start
<1>2. ASSUME NEW c \in Calls, AnswerFree(c) \/ RequestThrows(c) \/ RefuseUnusable(c) \/ Abort(c)
             \/ SendThrows(c) \/ AnswerPaid(c)
      PROVE BudgetInv'
  BY <1>2 DEF AnswerFree, RequestThrows, RefuseUnusable, Abort, SendThrows, AnswerPaid
<1>3. ASSUME NEW c \in Calls, NEW challenge \in Challenges, RefuseChallenge(c, challenge)
      PROVE BudgetInv'
  BY <1>3 DEF RefuseChallenge
<1>4. ASSUME NEW c \in Calls, NEW challenge \in Challenges, AcceptChallenge(c, challenge)
      PROVE BudgetInv'
  BY <1>4, AcceptedIsPermitted DEF AcceptChallenge
<1>5. ASSUME NEW c \in Calls, Send(c) PROVE BudgetInv'
  BY <1>5 DEF Send
<1>6. ASSUME NEW c \in Calls, SendResolves(c) PROVE BudgetInv'
  <2>1. offer[c] \in Offers /\ offer[c].asset \in Assets
    BY <1>6, PermittedIsOffer DEF SendResolves, StageInv, AfterSend, Offers
  <2>2. MaxTotal[offer[c].asset] # NoLimit =>
          spent[offer[c].asset] + offer[c].amount <= MaxTotal[offer[c].asset]
    BY <1>6, <2>1, CountingWithinBudget DEF SendResolves
  <2>3. \A d \in Calls : pc'[d] \notin Uncounted
    BY <1>6 DEF SendResolves
  <2>4. \A a \in Assets : MaxTotal[a] # NoLimit => spent'[a] <= MaxTotal[a]
    BY <1>6, <2>1, <2>2 DEF SendResolves
  <2>5. \A d, e \in Calls : Running(d)' /\ Running(e)' => d = e
    BY <1>6 DEF SendResolves
  <2>6. QED
    BY <2>3, <2>4, <2>5
<1>7. ASSUME NEW c \in Calls, AnswerTransient(c) \/ Reclaim(c) PROVE BudgetInv'
  BY <1>7 DEF AnswerTransient, Reclaim
<1>8. ASSUME NEW c \in Calls, Chain(c) PROVE BudgetInv'
  BY <1>8 DEF Chain, Broadcast, Land, FailOnChain
<1>9. CASE UNCHANGED vars
  BY <1>9 DEF vars
<1>10. QED
  BY <1>1, <1>2, <1>3, <1>4, <1>5, <1>6, <1>7, <1>8, <1>9 DEF Next, Resume

\* Calls made one after the other never pass the cumulative ceilings.
THEOREM WithinBudget == Spec => []SerialBudget
<1>1. BudgetInv => SerialBudget
  BY DEF BudgetInv, SerialBudget
<1>2. QED
  BY <1>1, Inductive, InitBudgetInv, NextBudgetInv, PTL DEF Spec

-----------------------------------------------------------------------------
(* The accounts.                                                           *)

\* The units of n payments: as many as the payment has, none shared with another call.
LEMMA UnitsOfOne ==
  ASSUME NEW c, offer[c].amount \in Nat
  PROVE  IsFiniteSet(Units(c)) /\ Cardinality(Units(c)) = offer[c].amount
<1> DEFINE n == offer[c].amount
<1>0. n \in Nat
  OBVIOUS
<1> HIDE DEF n
<1>1. IsFiniteSet(1..n) /\ Cardinality(1..n) = n
  <2>1. IsFiniteSet(1..n) /\ Cardinality(1..n) = IF 1 > n THEN 0 ELSE n - 1 + 1
    BY <1>0, FS_Interval
  <2>2. QED
    BY <1>0, <2>1
<1>2. IsFiniteSet({c}) /\ Cardinality({c}) = 1
  BY FS_Singleton
<1>3. IsFiniteSet({c} \X (1..n)) /\ Cardinality({c} \X (1..n)) = 1 * n
  BY <1>1, <1>2, FS_Product
<1>4. QED
  BY <1>0, <1>3 DEF Units, n

LEMMA UnitsFinite ==
  ASSUME NEW C, IsFiniteSet(C), \A d \in C : offer[d].amount \in Nat
  PROVE  IsFiniteSet(UNION {Units(d) : d \in C}) /\ Total(C) \in Nat
<1>1. IsFiniteSet({Units(d) : d \in C})
  <2> DEFINE f == [d \in C |-> Units(d)]
  <2>1. f \in Surjection(C, {Units(d) : d \in C})
    BY DEF Surjection
  <2>2. QED
    BY <2>1, FS_Surjection
<1>2. IsFiniteSet(UNION {Units(d) : d \in C})
  BY <1>1, UnitsOfOne, FS_UNION
<1>3. QED
  BY <1>2, FS_CardinalityType DEF Total

\* One more payment adds its amount.
LEMMA TotalAdd ==
  ASSUME NEW C, IsFiniteSet(C), \A d \in C : offer[d].amount \in Nat,
         NEW c, c \notin C, offer[c].amount \in Nat
  PROVE  Total(C \cup {c}) = Total(C) + offer[c].amount
<1> DEFINE U == UNION {Units(d) : d \in C}
<1>1. IsFiniteSet(U) /\ Cardinality(U) \in Nat
  BY UnitsFinite, FS_CardinalityType
<1>2. IsFiniteSet(Units(c)) /\ Cardinality(Units(c)) = offer[c].amount
  BY UnitsOfOne
<1>3. U \cap Units(c) = {}
  BY DEF Units
<1>4. UNION {Units(d) : d \in C \cup {c}} = U \cup Units(c)
  OBVIOUS
<1>5. Cardinality(U \cup Units(c)) = Cardinality(U) + Cardinality(Units(c)) - Cardinality(U \cap Units(c))
  BY <1>1, <1>2, FS_Union
<1>6. Cardinality(U \cap Units(c)) = 0
  BY <1>3, FS_EmptySet
<1>7. Total(C) = Cardinality(U) /\ Total(C \cup {c}) = Cardinality(U \cup Units(c))
  BY <1>4, Zenon DEF Total
<1> HIDE DEF U
<1>8. QED
  BY <1>1, <1>2, <1>5, <1>6, <1>7

\* Nothing of a step matters to a total but the payments it is taken over.
LEMMA TotalSame ==
  ASSUME NEW C, \A d \in C : offer'[d] = offer[d]
  PROVE  Total(C)' = Total(C)
<1>1. ASSUME NEW d \in C PROVE Units(d)' = Units(d)
  BY <1>1 DEF Units
<1>2. UNION {Units(d)' : d \in C} = UNION {Units(d) : d \in C}
  BY <1>1
<1>3. QED
  BY <1>2 DEF Total

LEMMA TotalEmpty == Total({}) = 0
<1>1. UNION {Units(d) : d \in {}} = {}
  OBVIOUS
<1>2. QED
  BY <1>1, FS_EmptySet DEF Total

Started == {c \in Calls : pc[c] # "idle"}
CountedIn(a) == {c \in In(a) : Confirmed(c)}
SettledIn(a) == {c \in In(a) : Settled(c)}

\* Only a call that was started has anything counted or settled.
LEMMA AccountsFinite ==
  ASSUME IInv, IsFiniteSet(Started), NEW a
  PROVE  /\ IsFiniteSet(CountedIn(a)) /\ IsFiniteSet(SettledIn(a))
         /\ \A c \in CountedIn(a) \cup SettledIn(a) : offer[c].amount \in Nat
<1>1. CountedIn(a) \subseteq Started /\ SettledIn(a) \subseteq Started
  BY DEF CountedIn, SettledIn, In, Started, Confirmed, Settled, IInv, TypeOK, StageInv, BeforeSend
<1>2. \A c \in In(a) : offer[c].amount \in Nat
  BY ClientAssumption DEF In, IInv, TypeOK, Offers
<1>3. QED
  BY <1>1, <1>2, FS_Subset DEF CountedIn, SettledIn

\* A step of one call starts at most that call.
LEMMA StartedGrow == IsFiniteSet(Started) /\ TypeOK /\ [Next]_vars => IsFiniteSet(Started)'
<1> SUFFICES ASSUME IsFiniteSet(Started), TypeOK, [Next]_vars PROVE IsFiniteSet(Started')
  OBVIOUS
<1>1. ASSUME NEW c \in Calls, Start(c) \/ Resume(c) \/ Chain(c) PROVE Started' \subseteq Started \cup {c}
  BY <1>1 DEF Started, TypeOK, Start, Resume, Chain, AnswerFree, RequestThrows, RefuseUnusable,
     RefuseChallenge, AcceptChallenge, Abort, Send, SendResolves, SendThrows, AnswerTransient, Reclaim,
     AnswerPaid, Broadcast, Land, FailOnChain, Goto, End
<1>2. CASE UNCHANGED vars
  BY <1>2 DEF vars, Started
<1>3. CASE Next
  <2>1. PICK c \in Calls : Start(c) \/ Resume(c) \/ Chain(c)
    BY <1>3 DEF Next
  <2>2. IsFiniteSet(Started \cup {c})
    BY FS_AddElement
  <2>3. QED
    BY <1>1, <2>1, <2>2, FS_Subset
<1>4. QED
  BY <1>2, <1>3

\* When no payment is counted or settled anew, the totals stay what they were.
LEMMA TotalsStay ==
  ASSUME NEW a,
         \A c \in Calls : Confirmed(c)' <=> Confirmed(c),
         \A c \in Calls : Confirmed(c) => offer'[c] = offer[c]
  PROVE  Total(CountedIn(a))' = Total(CountedIn(a))
<1>1. CountedIn(a)' = CountedIn(a)
  BY DEF CountedIn, In
<1>2. \A c \in CountedIn(a) : offer'[c] = offer[c]
  BY DEF CountedIn, In
<1>3. UNION {Units(c)' : c \in CountedIn(a)} = UNION {Units(c) : c \in CountedIn(a)}
  <2>1. \A c \in CountedIn(a) : Units(c)' = Units(c)
    BY <1>2 DEF Units
  <2>2. QED
    BY <2>1
<1>4. QED
  BY <1>1, <1>3 DEF Total

LEMMA SettlementsStay ==
  ASSUME NEW a,
         \A c \in Calls : Settled(c)' <=> Settled(c),
         \A c \in Calls : Settled(c) => offer'[c] = offer[c]
  PROVE  Total(SettledIn(a))' = Total(SettledIn(a))
<1>1. SettledIn(a)' = SettledIn(a)
  BY DEF SettledIn, In
<1>2. \A c \in SettledIn(a) : offer'[c] = offer[c]
  BY DEF SettledIn, In
<1>3. UNION {Units(c)' : c \in SettledIn(a)} = UNION {Units(c) : c \in SettledIn(a)}
  <2>1. \A c \in SettledIn(a) : Units(c)' = Units(c)
    BY <1>2 DEF Units
  <2>2. QED
    BY <2>1
<1>4. QED
  BY <1>1, <1>3 DEF Total

\* A send that resolves is counted in its own currency, once.
LEMMA CountedStep ==
  ASSUME IInv, IsFiniteSet(Started), Counted, NEW c \in Calls, SendResolves(c)
  PROVE  Counted'
<1> SUFFICES ASSUME NEW a \in Assets PROVE spent'[a] = Total(CountedIn(a))'
  BY DEF Counted, CountedIn
<1>1. /\ offer' = offer /\ offer[c] \in Offers /\ offer[c] # NoOffer /\ offer[c].asset \in Assets
      /\ offer[c].amount \in Nat
      /\ spent' = [spent EXCEPT ![offer[c].asset] = @ + offer[c].amount]
  BY PermittedIsOffer, ClientAssumption DEF SendResolves, Goto, IInv, StageInv, AfterSend, Offers
<1>2. /\ ~Confirmed(c) /\ Confirmed(c)'
      /\ \A d \in Calls \ {c} : Confirmed(d)' <=> Confirmed(d)
  BY DEF SendResolves, Goto, wallet, Confirmed, IInv, TypeOK, StageInv
<1>3. CASE a = offer[c].asset
  <2>1. CountedIn(a)' = CountedIn(a) \cup {c} /\ c \notin CountedIn(a)
    BY <1>1, <1>2, <1>3 DEF CountedIn, In
  <2>2. Total(CountedIn(a) \cup {c}) = Total(CountedIn(a)) + offer[c].amount
    BY <1>1, <2>1, AccountsFinite, TotalAdd
  <2>3. spent[a] = Total(CountedIn(a))
    BY DEF Counted, CountedIn
  <2>4. Total(CountedIn(a))' = Total(CountedIn(a) \cup {c})
    BY <1>1, <2>1 DEF Total, Units
  <2>5. spent'[a] = spent[a] + offer[c].amount
    BY <1>1, <1>3 DEF IInv, TypeOK
  <2>6. QED
    BY <2>2, <2>3, <2>4, <2>5
<1>4. CASE a # offer[c].asset
  <2>1. CountedIn(a)' = CountedIn(a)
    BY <1>1, <1>2, <1>4 DEF CountedIn, In
  <2>2. Total(CountedIn(a))' = Total(CountedIn(a))
    BY <1>1, <2>1 DEF Total, Units
  <2>3. spent'[a] = spent[a]
    BY <1>1, <1>4 DEF IInv, TypeOK
  <2>4. QED
    BY <2>2, <2>3 DEF Counted, CountedIn
<1>5. QED
  BY <1>3, <1>4

\* What lands leaves the wallet in the currency of its payment, once.
LEMMA MovedStep ==
  ASSUME IInv, IsFiniteSet(Started), Moved, NEW c \in Calls, Land(c)
  PROVE  Moved'
<1> SUFFICES ASSUME NEW a \in Assets PROVE moved'[a] = Total(SettledIn(a))'
  BY DEF Moved, SettledIn
<1>1. /\ offer' = offer /\ offer[c] \in Offers /\ offer[c] # NoOffer /\ offer[c].asset \in Assets
      /\ offer[c].amount \in Nat
      /\ moved' = [moved EXCEPT ![offer[c].asset] = @ + offer[c].amount]
  BY PermittedIsOffer, ClientAssumption DEF Land, IInv, StageInv, Offers
<1>2. /\ ~Settled(c) /\ Settled(c)'
      /\ \A d \in Calls \ {c} : Settled(d)' <=> Settled(d)
  BY DEF Land, Settled, IInv, TypeOK
<1>3. CASE a = offer[c].asset
  <2>1. SettledIn(a)' = SettledIn(a) \cup {c} /\ c \notin SettledIn(a)
    BY <1>1, <1>2, <1>3 DEF SettledIn, In
  <2>2. Total(SettledIn(a) \cup {c}) = Total(SettledIn(a)) + offer[c].amount
    BY <1>1, <2>1, AccountsFinite, TotalAdd
  <2>3. moved[a] = Total(SettledIn(a))
    BY DEF Moved, SettledIn
  <2>4. Total(SettledIn(a))' = Total(SettledIn(a) \cup {c})
    BY <1>1, <2>1 DEF Total, Units
  <2>5. moved'[a] = moved[a] + offer[c].amount
    BY <1>1, <1>3 DEF IInv, TypeOK
  <2>6. QED
    BY <2>2, <2>3, <2>4, <2>5
<1>4. CASE a # offer[c].asset
  <2>1. SettledIn(a)' = SettledIn(a)
    BY <1>1, <1>2, <1>4 DEF SettledIn, In
  <2>2. Total(SettledIn(a))' = Total(SettledIn(a))
    BY <1>1, <2>1 DEF Total, Units
  <2>3. moved'[a] = moved[a]
    BY <1>1, <1>4 DEF IInv, TypeOK
  <2>4. QED
    BY <2>2, <2>3 DEF Moved, SettledIn
<1>5. QED
  BY <1>3, <1>4

\* Any other step leaves the accounts alone.
LEMMA CountedStays ==
  ASSUME Counted, spent' = spent,
         \A c \in Calls : Confirmed(c)' <=> Confirmed(c),
         \A c \in Calls : Confirmed(c) => offer'[c] = offer[c]
  PROVE  Counted'
  BY TotalsStay DEF Counted, CountedIn

LEMMA MovedStays ==
  ASSUME Moved, moved' = moved,
         \A c \in Calls : Settled(c)' <=> Settled(c),
         \A c \in Calls : Settled(c) => offer'[c] = offer[c]
  PROVE  Moved'
  BY SettlementsStay DEF Moved, SettledIn

\* A settled payment nobody counted is one whose send is pending or threw.
LEMMA UnheardInv == IInv => UncountedIsUnheard
  BY DEF IInv, TypeOK, StageInv, Stages, AfterSend, BeforeSend, UncountedIsUnheard, Settled, Confirmed

LEMMA InitAccounts == Init => AccountsInv
<1> SUFFICES ASSUME Init PROVE AccountsInv
  OBVIOUS
<1>1. Started = {} /\ \A a \in Assets : CountedIn(a) = {} /\ SettledIn(a) = {}
  BY DEF Init, Started, CountedIn, SettledIn, In
<1>2. Counted /\ Moved
  BY <1>1, TotalEmpty DEF Init, Counted, CountedIn, Moved, SettledIn
<1>3. QED
  BY <1>1, <1>2, InitIInv, UnheardInv, FS_EmptySet DEF AccountsInv, Reconciled, Started

LEMMA NextAccounts == IInv /\ IInv' /\ AccountsInv /\ [Next]_vars => AccountsInv'
<1>a. IInv' => UncountedIsUnheard'
  BY DEF IInv, TypeOK, StageInv, Stages, AfterSend, BeforeSend, UncountedIsUnheard, Settled, Confirmed
<1>b. IInv /\ AccountsInv /\ [Next]_vars => IsFiniteSet(Started)'
  BY StartedGrow DEF AccountsInv, Started, IInv
<1> SUFFICES ASSUME IInv, IInv', AccountsInv, [Next]_vars PROVE Counted' /\ Moved'
  BY <1>a, <1>b DEF AccountsInv, Reconciled, Started
<1>0. TypeOK /\ StageInv /\ Counted /\ Moved /\ IsFiniteSet(Started)
  BY DEF IInv, AccountsInv, Reconciled, Started
<1>1. ASSUME NEW c \in Calls, Start(c) PROVE Counted' /\ Moved'
  <2>1. /\ spent' = spent /\ moved' = moved /\ offer' = offer
        /\ \A d \in Calls : (Confirmed(d)' <=> Confirmed(d)) /\ (Settled(d)' <=> Settled(d))
    BY <1>0, <1>1 DEF Start, Goto, wallet, TypeOK, StageInv, Confirmed, Settled
  <2>2. QED
    BY <1>0, <2>1, CountedStays, MovedStays
<1>2. ASSUME NEW c \in Calls, AnswerFree(c) \/ RequestThrows(c) \/ RefuseUnusable(c) \/ Abort(c)
             \/ SendThrows(c) \/ AnswerPaid(c) \/ AnswerTransient(c) \/ Reclaim(c)
             \/ \E challenge \in Challenges : RefuseChallenge(c, challenge)
      PROVE Counted' /\ Moved'
  <2>1. spent' = spent /\ moved' = moved /\ offer' = offer /\ sends' = sends /\ tx' = tx
    BY <1>2 DEF AnswerFree, RequestThrows, RefuseUnusable, Abort, SendThrows, AnswerPaid, AnswerTransient,
                Reclaim, RefuseChallenge, wallet
  <2>2. \A d \in Calls \ {c} : Confirmed(d)' <=> Confirmed(d)
    BY <1>0, <1>2, <2>1
    DEF AnswerFree, RequestThrows, RefuseUnusable, Abort, SendThrows, AnswerPaid, AnswerTransient, Reclaim,
        RefuseChallenge, Goto, End, TypeOK, Confirmed
  <2>3. Confirmed(c)' <=> Confirmed(c)
    BY <1>0, <1>2, <2>1, ScreenIsRefusal
    DEF AnswerFree, RequestThrows, RefuseUnusable, Abort, SendThrows, AnswerPaid, AnswerTransient, Reclaim,
        RefuseChallenge, Goto, End, TypeOK, StageInv, BeforeSend, AfterSend, Confirmed, Refusals
  <2>4. QED
    BY <1>0, <2>1, <2>2, <2>3, CountedStays, MovedStays DEF Settled
<1>3. ASSUME NEW c \in Calls, NEW challenge \in Challenges, AcceptChallenge(c, challenge)
      PROVE Counted' /\ Moved'
  <2>1. /\ spent' = spent /\ moved' = moved
        /\ \A d \in Calls : (Confirmed(d)' <=> Confirmed(d)) /\ (Settled(d)' <=> Settled(d))
        /\ \A d \in Calls : Confirmed(d) \/ Settled(d) => offer'[d] = offer[d]
    BY <1>0, <1>3 DEF AcceptChallenge, Goto, wallet, TypeOK, StageInv, BeforeSend, Confirmed, Settled
  <2>2. QED
    BY <1>0, <2>1, CountedStays, MovedStays
<1>4. ASSUME NEW c \in Calls, Send(c) PROVE Counted' /\ Moved'
  <2>1. /\ spent' = spent /\ moved' = moved /\ offer' = offer
        /\ \A d \in Calls : (Confirmed(d)' <=> Confirmed(d)) /\ (Settled(d)' <=> Settled(d))
    BY <1>0, <1>4 DEF Send, Goto, TypeOK, StageInv, BeforeSend, Confirmed, Settled
  <2>2. QED
    BY <1>0, <2>1, CountedStays, MovedStays
<1>5. ASSUME NEW c \in Calls, SendResolves(c) PROVE Counted' /\ Moved'
  <2>1. moved' = moved /\ offer' = offer /\ tx' = tx
    BY <1>5 DEF SendResolves, wallet
  <2>2. QED
    BY <1>0, <1>5, <2>1, CountedStep, MovedStays DEF Settled
<1>6. ASSUME NEW c \in Calls, Chain(c) PROVE Counted' /\ Moved'
  <2>1. spent' = spent /\ offer' = offer /\ pc' = pc /\ outcome' = outcome /\ sends' = sends
    BY <1>6 DEF Chain, Broadcast, Land, FailOnChain
  <2>2. Counted'
    BY <1>0, <2>1, CountedStays DEF Confirmed
  <2>3. ASSUME Broadcast(c) \/ FailOnChain(c) PROVE Moved'
    <3>1. moved' = moved /\ \A d \in Calls : Settled(d)' <=> Settled(d)
      BY <1>0, <2>3 DEF Broadcast, FailOnChain, TypeOK, Settled
    <3>2. QED
      BY <1>0, <2>1, <3>1, MovedStays
  <2>4. QED
    BY <1>0, <1>6, <2>2, <2>3, MovedStep DEF Chain
<1>7. CASE UNCHANGED vars
  BY <1>0, <1>7, CountedStays, MovedStays DEF vars, Confirmed, Settled
<1>8. QED
  BY <1>1, <1>2, <1>3, <1>4, <1>5, <1>6, <1>7 DEF Next, Resume

\* In each currency the client counts exactly the payments whose send resolved, and what
\* really left the wallet and is not counted belongs to a send that is pending or threw
\* (client.ts 211-212, 237-238).
THEOREM AccountsAreRight == Spec => []Reconciled
<1>1. AccountsInv => Reconciled
  BY DEF AccountsInv
<1>2. QED
  BY <1>1, Inductive, InitAccounts, NextAccounts, PTL DEF Spec

-----------------------------------------------------------------------------
(* The client implements PayPerCall.                                       *)

Commitment == [c \in Calls |-> IF sends[c] = 0 THEN NoOffer ELSE offer[c]]
SettledCalls == {c \in Calls : tx[c] = "landed"}
ClosedCalls == {c \in Calls : pc[c] = "ended"}
promised == <<Commitment, SettledCalls, ClosedCalls>>

LEMMA InitPromise == Init => Promise!Init
  BY DEF Init, Promise!Init

\* Each action of the client is one of the abstract actions, or changes nothing
\* the owner was promised anything about.
LEMMA NextPromise == IInv /\ [Next]_vars => [Promise!Next]_promised
<1> SUFFICES ASSUME IInv, [Next]_vars PROVE [Promise!Next]_promised
  OBVIOUS
<1> USE DEF IInv, TypeOK, StageInv, Stages, BeforeSend, AfterSend, Goto, End, wallet,
        promised, Commitment, SettledCalls, ClosedCalls
<1>1. ASSUME NEW c \in Calls, Start(c) PROVE UNCHANGED promised
  BY <1>1 DEF Start
<1>2. ASSUME NEW c \in Calls, AnswerFree(c) \/ RequestThrows(c) \/ RefuseUnusable(c) \/ Abort(c)
             \/ SendThrows(c) \/ AnswerPaid(c)
             \/ \E challenge \in Challenges : RefuseChallenge(c, challenge)
      PROVE Promise!Close(c)
  BY <1>2 DEF AnswerFree, RequestThrows, RefuseUnusable, Abort, SendThrows, AnswerPaid,
              RefuseChallenge, Promise!Close
<1>3. ASSUME NEW c \in Calls, NEW challenge \in Challenges, AcceptChallenge(c, challenge)
      PROVE UNCHANGED promised
  BY <1>3 DEF AcceptChallenge
<1>4. ASSUME NEW c \in Calls, Send(c) PROVE Promise!Commit(c)
  <2>1. c \notin ClosedCalls /\ Commitment[c] = NoOffer
    BY <1>4 DEF Send
  <2>2. offer[c] \in Permitted
    BY <1>4 DEF Send
  <2>3. Commitment' = [Commitment EXCEPT ![c] = offer[c]]
    <3>1. sends[c] = 0 /\ sends' = [sends EXCEPT ![c] = @ + 1] /\ offer' = offer
      BY <1>4 DEF Send
    <3>2. sends'[c] = 1
      BY <3>1
    <3>3. \A d \in Calls \ {c} : sends'[d] = sends[d]
      BY <3>1
    <3>4. \A d \in Calls :
            (IF sends'[d] = 0 THEN NoOffer ELSE offer'[d])
              = IF d = c THEN offer[c] ELSE IF sends[d] = 0 THEN NoOffer ELSE offer[d]
      BY <3>1, <3>2, <3>3
    <3> HIDE DEF IInv
    <3>5. QED
      BY <3>4 DEF Commitment
  <2>4. UNCHANGED <<SettledCalls, ClosedCalls>>
    BY <1>4 DEF Send
  <2>5. QED
    BY <2>1, <2>2, <2>3, <2>4 DEF Promise!Commit
<1>5. ASSUME NEW c \in Calls, SendResolves(c) \/ AnswerTransient(c) \/ Reclaim(c)
      PROVE UNCHANGED promised
  BY <1>5 DEF SendResolves, AnswerTransient, Reclaim
<1>6. ASSUME NEW c \in Calls, Broadcast(c) \/ FailOnChain(c) PROVE UNCHANGED promised
  BY <1>6 DEF Broadcast, FailOnChain
<1>7. ASSUME NEW c \in Calls, Land(c) PROVE Promise!Settle(c)
  BY <1>7 DEF Land, Promise!Settle
<1>8. CASE UNCHANGED vars
  BY <1>8 DEF vars
<1>9. QED
  BY <1>1, <1>2, <1>3, <1>4, <1>5, <1>6, <1>7, <1>8
  DEF Next, Resume, Chain, Promise!Next

\* No endpoint, hook or wallet takes the client outside the promise it makes to the
\* owner of the wallet.
THEOREM Refinement == Spec => KeepsPromise
  BY InitPromise, NextPromise, Inductive, PTL
  DEF Spec, KeepsPromise, Promise!Spec, promised, Commitment, SettledCalls, ClosedCalls
=============================================================================
