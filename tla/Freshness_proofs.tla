-------------------------- MODULE Freshness_proofs --------------------------
(* The parts that act on something that may have been overtaken.  On the     *)
(* clock they share, by its age: OwnerAuth for any number of requests and    *)
(* copies, any skew between the clocks, any window and any size of the nonce *)
(* store; OffBoxSigner for any rule, evidence, submissions and restarts;     *)
(* PriceOracle for any number of calls of get(), any instants and any ttls   *)
(* that satisfy its assumptions.  And VaultOwner, whose key file, retired    *)
(* keys and configuration trail the chain, for any number of terminals,      *)
(* keys, commands and funds.                                                 *)
EXTENDS OwnerAuth, OffBoxSigner, PriceOracle, VaultOwner, FiniteSetTheorems, WellFoundedInduction, TLAPS

-----------------------------------------------------------------------------
(* The owner's requests (OwnerAuth).                                         *)

ownerAll == <<clock, ownerVars>>

CopySpent(r) == \E i \in DOMAIN arrivals[r] : arrivals[r][i].answer \in {"accepted", "bad signature"}

\* Before a request is signed nothing of it arrived.
Unsigned(r) == stamp[r] = NoExpiry => store[r] = NoExpiry /\ arrivals[r] = <<>>

\* A nonce in the store expires with the window of its request, some copy of which
\* passed the time check.
Kept(r) == store[r] # NoExpiry => store[r] = stamp[r] + RequestMaxAge /\ CopySpent(r)

\* The nonce of an accepted request stays in the store until its window closes.
Guarded(r) ==
  \A i \in DOMAIN arrivals[r] :
    arrivals[r][i].answer = "accepted" =>
      store[r] # NoExpiry \/ clock >= stamp[r] + RequestMaxAge

OwnerInv ==
  /\ clock \in Times
  /\ OwnerTypeOK
  /\ \A r \in Requests : Unsigned(r) /\ Kept(r) /\ Guarded(r)
  /\ NonceIsSpentOnce

\* What a copy is answered depends on the window and on the store.
LEMMA Answered ==
  ASSUME NEW r \in Requests, NEW copy \in Copies
  PROVE  /\ AnswerTo(r, copy) \in Answers
         /\ AnswerTo(r, copy) = "accepted" => InWindow(r) /\ ~Has(r) /\ copy # "incomplete"
         /\ AnswerTo(r, copy) = "replay" => Has(r)
         /\ Spends(r, copy) => AnswerTo(r, copy) \in {"accepted", "bad signature"}
<1>1. CASE copy = "incomplete"
  BY <1>1 DEF AnswerTo, Answers, Spends
<1>2. CASE copy # "incomplete" /\ ~InWindow(r)
  BY <1>2 DEF AnswerTo, Answers, Spends
<1>3. CASE copy # "incomplete" /\ InWindow(r) /\ Has(r)
  BY <1>3 DEF AnswerTo, Answers, Spends
<1>4. CASE copy # "incomplete" /\ InWindow(r) /\ ~Has(r)
  BY <1>4 DEF AnswerTo, Answers, Spends, Copies
<1> QED BY <1>1, <1>2, <1>3, <1>4

\* add() writes one entry and drops none that has not expired.
LEMMA AddFacts ==
  ASSUME OwnerTypeOK, NEW r \in Requests, stamp[r] \in Int
  PROVE  /\ Add(r) \in [Requests -> Int \cup {NoExpiry}]
         /\ \/ Add(r)[r] = stamp[r] + RequestMaxAge
            \/ Add(r)[r] = NoExpiry /\ stamp[r] + RequestMaxAge <= clock
         /\ \A q \in Requests \ {r} :
              \/ Add(r)[q] = store[q]
              \/ Add(r)[q] = NoExpiry /\ store[q] # NoExpiry /\ store[q] <= clock
<1> DEFINE wide == [store EXCEPT ![r] = stamp[r] + RequestMaxAge]
<1>1. wide \in [Requests -> Int \cup {NoExpiry}] /\ wide[r] = stamp[r] + RequestMaxAge /\ wide[r] # NoExpiry
      /\ \A q \in Requests \ {r} : wide[q] = store[q]
  BY OwnerAssumption DEF OwnerTypeOK
<1>2. Add(r) = wide \/ Add(r) = [x \in Requests |-> IF wide[x] # NoExpiry /\ wide[x] <= clock THEN NoExpiry ELSE wide[x]]
  BY DEF Add, Pruned
<1> HIDE DEF wide
<1>3. RequestMaxAge \in Int /\ NoExpiry \notin Int /\ store \in [Requests -> Int \cup {NoExpiry}]
  BY OwnerAssumption DEF OwnerTypeOK
<1>4. CASE Add(r) = wide
  BY <1>1, <1>4
<1>5. CASE Add(r) = [x \in Requests |-> IF wide[x] # NoExpiry /\ wide[x] <= clock THEN NoExpiry ELSE wide[x]]
  <2>1. Add(r) \in [Requests -> Int \cup {NoExpiry}]
    BY <1>1, <1>5
  <2>2. \A x \in Requests : \/ Add(r)[x] = wide[x]
                            \/ Add(r)[x] = NoExpiry /\ wide[x] # NoExpiry /\ wide[x] <= clock
    BY <1>5
  <2> QED BY <1>1, <2>1, <2>2
<1> QED BY <1>2, <1>4, <1>5

\* What became of the copies is judged by the copies and the stamps alone.
LEMMA SameJudged ==
  ASSUME NonceIsSpentOnce, stamp' = stamp, arrivals' = arrivals
  PROVE  NonceIsSpentOnce'
<1>1. AcceptedOnce'
  BY DEF NonceIsSpentOnce, AcceptedOnce
<1>2. ReplayIsExplained'
  BY DEF NonceIsSpentOnce, ReplayIsExplained
<1> QED BY <1>1, <1>2 DEF NonceIsSpentOnce

LEMMA OwnerInitHolds == clock = 0 /\ OwnerInit => OwnerInv
<1> SUFFICES ASSUME clock = 0, OwnerInit PROVE OwnerInv
  OBVIOUS
<1>1. clock \in Times /\ OwnerTypeOK
  BY TimeAssumption DEF Times, OwnerInit, OwnerTypeOK
<1>2. \A r \in Requests : arrivals[r] = <<>> /\ DOMAIN arrivals[r] = {}
  BY DEF OwnerInit
<1>3. \A r \in Requests : Unsigned(r) /\ Kept(r) /\ Guarded(r)
  BY <1>2 DEF OwnerInit, Unsigned, Kept, Guarded
<1>4. NonceIsSpentOnce
  BY <1>2 DEF NonceIsSpentOnce, AcceptedOnce, ReplayIsExplained
<1> QED BY <1>1, <1>3, <1>4 DEF OwnerInv

LEMMA OwnerTickKeeps == ASSUME OwnerInv, OwnerTick PROVE OwnerInv'
<1> USE DEF OwnerInv, OwnerTick, Tick, ownerVars
<1>1. clock' \in Times /\ OwnerTypeOK' /\ clock \in Int /\ clock' = clock + 1
  BY TimeAssumption DEF Times, OwnerTypeOK
<1>2. \A r \in Requests : Unsigned(r)' /\ Kept(r)'
  BY DEF Unsigned, Kept, CopySpent
<1>3. \A r \in Requests : Guarded(r)'
  <2> SUFFICES ASSUME NEW r \in Requests, NEW i \in DOMAIN arrivals[r],
                      arrivals[r][i].answer = "accepted", store[r] = NoExpiry
               PROVE clock' >= stamp[r] + RequestMaxAge
    BY DEF Guarded
  <2>1. stamp[r] # NoExpiry
    BY DEF Unsigned
  <2>2. stamp[r] \in Int /\ RequestMaxAge \in Int
    BY <2>1, OwnerAssumption DEF OwnerTypeOK
  <2> QED BY <1>1, <2>2 DEF Guarded
<1>4. NonceIsSpentOnce'
  BY SameJudged
<1> QED BY <1>1, <1>2, <1>3, <1>4

LEMMA SignKeeps == ASSUME OwnerInv, NEW q \in Requests, SignRequest(q) PROVE OwnerInv'
<1> USE DEF OwnerInv, SignRequest
<1>1. PICK ts \in clock - MaxSkew .. clock + MaxSkew : stamp' = [stamp EXCEPT ![q] = ts]
  OBVIOUS
<1>2. ts \in Int /\ clock' \in Times
  BY TimeAssumption, OwnerAssumption DEF Times
<1>3. OwnerTypeOK'
  BY <1>1, <1>2 DEF OwnerTypeOK
<1>4. store[q] = NoExpiry /\ arrivals[q] = <<>>
  BY DEF Unsigned
<1>5. DOMAIN arrivals[q] = {} /\ \A r \in Requests \ {q} : stamp'[r] = stamp[r]
  BY <1>1, <1>4 DEF OwnerTypeOK
<1>6. ASSUME NEW r \in Requests PROVE Unsigned(r)' /\ Kept(r)' /\ Guarded(r)'
  <2>1. CASE r = q
    BY <1>1, <1>2, <1>4, <1>5, <2>1, OwnerAssumption DEF Unsigned, Kept, Guarded, OwnerTypeOK
  <2>2. CASE r # q
    BY <1>5, <2>2 DEF Unsigned, Kept, Guarded, CopySpent
  <2> QED BY <2>1, <2>2
<1>7. AcceptedOnce'
  BY <1>5 DEF NonceIsSpentOnce, AcceptedOnce
<1>8. ReplayIsExplained'
  BY DEF NonceIsSpentOnce, ReplayIsExplained
<1> QED BY <1>2, <1>3, <1>6, <1>7, <1>8 DEF NonceIsSpentOnce

\* A copy arrives.
LEMMA ArriveKeeps == ASSUME OwnerInv, NEW q \in Requests, NEW copy \in Copies, Arrive(q, copy) PROVE OwnerInv'
<1> DEFINE reply == AnswerTo(q, copy)
           new == [at |-> clock, copy |-> copy, answer |-> reply]
           n == Len(arrivals[q])
<1>1. /\ stamp[q] \in Int /\ clock \in Int /\ RequestMaxAge \in Int
      /\ clock' = clock /\ stamp' = stamp
      /\ store' = IF Spends(q, copy) THEN Add(q) ELSE store
      /\ clock \in Times /\ OwnerTypeOK
  BY TimeAssumption, OwnerAssumption DEF OwnerInv, Arrive, OwnerTypeOK, Times
<1>2. \A r \in Requests : Unsigned(r) /\ Kept(r) /\ Guarded(r)
  BY DEF OwnerInv
<1>3. AcceptedOnce /\ ReplayIsExplained
  BY DEF OwnerInv, NonceIsSpentOnce
<1>4. reply \in Answers
  BY Answered
<1>5. new \in Arrival
  <2> HIDE DEF reply
  <2> QED BY <1>1, <1>4 DEF Arrival
<1>6. new.at = clock /\ new.answer = reply
  OBVIOUS
<1>7. arrivals' = [arrivals EXCEPT ![q] = Append(arrivals[q], new)]
  BY DEF Arrive
<1> HIDE DEF new
<1>8. arrivals \in [Requests -> Seq(Arrival)]
  BY <1>1 DEF OwnerTypeOK
<1>9. /\ n \in Nat /\ DOMAIN arrivals[q] = 1..n /\ arrivals'[q] = Append(arrivals[q], new)
      /\ \A r \in Requests \ {q} : arrivals'[r] = arrivals[r]
  BY <1>7, <1>8
<1>10. /\ arrivals' \in [Requests -> Seq(Arrival)]
       /\ DOMAIN arrivals'[q] = 1..(n + 1)
       /\ arrivals'[q][n + 1] = new
       /\ \A i \in 1..n : arrivals'[q][i] = arrivals[q][i]
  BY <1>5, <1>7, <1>8, <1>9
<1>11. /\ Has(q) => store[q] # NoExpiry
       /\ reply = "accepted" => InWindow(q) /\ ~Has(q) /\ Spends(q, copy)
       /\ reply = "replay" => Has(q)
       /\ Spends(q, copy) => reply \in {"accepted", "bad signature"}
  BY Answered DEF Has, Spends
<1> HIDE DEF reply, n
<1>12. clock' \in Times /\ OwnerTypeOK'
  <2>1. store' \in [Requests -> Int \cup {NoExpiry}]
    BY <1>1, AddFacts DEF OwnerTypeOK
  <2> QED BY <1>1, <1>10, <2>1 DEF OwnerTypeOK
\* The copies that arrived before, and what they were answered, are still there.
<1>13. ASSUME NEW r \in Requests, NEW i \in DOMAIN arrivals[r]
       PROVE i \in DOMAIN arrivals'[r] /\ arrivals'[r][i] = arrivals[r][i]
  BY <1>9, <1>10
\* What is there now was there before, or is the new copy.
<1>14. ASSUME NEW r \in Requests, NEW i \in DOMAIN arrivals'[r]
       PROVE \/ i \in DOMAIN arrivals[r] /\ arrivals'[r][i] = arrivals[r][i]
             \/ r = q /\ i = n + 1 /\ arrivals'[r][i] = new
  BY <1>9, <1>10
<1>15. \A r \in Requests : Unsigned(r)'
  <2> SUFFICES ASSUME NEW r \in Requests, stamp[r] = NoExpiry
               PROVE store'[r] = NoExpiry /\ arrivals'[r] = <<>>
    BY <1>1 DEF Unsigned
  <2>1. r # q
    BY <1>1, OwnerAssumption
  <2>2. store[r] = NoExpiry /\ arrivals[r] = <<>>
    BY <1>2 DEF Unsigned
  <2> QED BY <1>1, <1>9, <2>1, <2>2, AddFacts
<1>16. \A r \in Requests : CopySpent(r) => CopySpent(r)'
  BY <1>13 DEF CopySpent
<1>17. Spends(q, copy) => CopySpent(q)'
  <2> SUFFICES ASSUME Spends(q, copy) PROVE CopySpent(q)'
    OBVIOUS
  <2>1. n + 1 \in DOMAIN arrivals'[q]
    BY <1>9, <1>10
  <2>2. arrivals'[q][n + 1].answer \in {"accepted", "bad signature"}
    BY <1>6, <1>10, <1>11
  <2> QED BY <2>1, <2>2 DEF CopySpent
<1>18. \A r \in Requests : Kept(r)'
  BY <1>1, <1>2, <1>16, <1>17, AddFacts DEF Kept
<1>19. \A r \in Requests : Guarded(r)'
  <2> SUFFICES ASSUME NEW r \in Requests, NEW i \in DOMAIN arrivals'[r],
                      arrivals'[r][i].answer = "accepted", store'[r] = NoExpiry
               PROVE clock >= stamp[r] + RequestMaxAge
    BY <1>1 DEF Guarded
  <2>1. CASE r = q /\ Spends(q, copy)
    BY <1>1, <2>1, AddFacts, OwnerAssumption
  <2>2. CASE r = q /\ ~Spends(q, copy)
    <3>1. i \in DOMAIN arrivals[q] /\ arrivals[q][i].answer = "accepted"
      BY <1>6, <1>11, <1>14, <2>2
    <3>2. store[q] = NoExpiry
      BY <1>1, <2>2
    <3> QED BY <1>2, <2>2, <3>1, <3>2 DEF Guarded
  <2>3. CASE r # q
    <3>1. i \in DOMAIN arrivals[r] /\ arrivals[r][i].answer = "accepted"
      BY <1>14, <2>3
    <3>2. store[r] = NoExpiry \/ (store[r] # NoExpiry /\ store[r] <= clock)
      BY <1>1, <2>3, AddFacts
    <3>3. store[r] = NoExpiry \/ store[r] = stamp[r] + RequestMaxAge
      BY <1>2 DEF Kept
    <3>4. store[r] = NoExpiry => clock >= stamp[r] + RequestMaxAge
      BY <1>2, <3>1 DEF Guarded
    <3>5. stamp[r] # NoExpiry
      BY <1>2, <3>1 DEF Unsigned
    <3>6. stamp[r] \in Int
      BY <1>1, <3>5 DEF OwnerTypeOK
    <3> QED BY <1>1, <3>2, <3>3, <3>4, <3>6
  <2> QED BY <2>1, <2>2, <2>3
<1>20. AcceptedOnce'
  <2> SUFFICES ASSUME NEW r \in Requests, NEW i \in DOMAIN arrivals'[r], NEW j \in DOMAIN arrivals'[r],
                      i < j, arrivals'[r][i].answer = "accepted", arrivals'[r][j].answer = "accepted"
               PROVE arrivals'[r][j].at = stamp[r] + RequestMaxAge
    BY <1>1 DEF AcceptedOnce
  <2>1. CASE r # q \/ j # n + 1
    <3>1. j \in DOMAIN arrivals[r] /\ arrivals'[r][j] = arrivals[r][j]
      BY <1>14, <2>1
    <3>2. i \in DOMAIN arrivals[r] /\ arrivals'[r][i] = arrivals[r][i]
      BY <1>9, <1>10, <1>14, <2>1, <3>1
    <3> QED BY <1>3, <3>1, <3>2 DEF AcceptedOnce
  <2>2. CASE r = q /\ j = n + 1
    <3>1. i \in DOMAIN arrivals[q] /\ arrivals[q][i].answer = "accepted"
      BY <1>9, <1>10, <1>14, <2>2
    <3>2. InWindow(q) /\ ~Has(q) /\ arrivals'[q][j].at = clock
      BY <1>6, <1>10, <1>11, <2>2
    <3>3. store[q] # NoExpiry \/ clock >= stamp[q] + RequestMaxAge
      BY <1>2, <3>1 DEF Guarded
    <3>4. store[q] # NoExpiry => store[q] = stamp[q] + RequestMaxAge /\ ~(store[q] > clock)
      BY <1>2, <3>2 DEF Has, Kept
    <3>5. clock - stamp[q] <= RequestMaxAge
      BY <3>2 DEF InWindow
    <3>6. clock = stamp[q] + RequestMaxAge
      BY <1>1, <3>3, <3>4, <3>5
    <3> QED BY <2>2, <3>2, <3>6
  <2> QED BY <2>1, <2>2
<1>21. ReplayIsExplained'
  <2> SUFFICES ASSUME NEW r \in Requests, NEW j \in DOMAIN arrivals'[r], arrivals'[r][j].answer = "replay"
               PROVE \E i \in 1..(j - 1) : arrivals'[r][i].answer \in {"accepted", "bad signature"}
    BY DEF ReplayIsExplained
  <2>1. CASE r # q \/ j # n + 1
    <3>1. j \in DOMAIN arrivals[r] /\ arrivals'[r][j] = arrivals[r][j]
      BY <1>14, <2>1
    <3>2. PICK i \in 1..(j - 1) : arrivals[r][i].answer \in {"accepted", "bad signature"}
      BY <1>3, <3>1 DEF ReplayIsExplained
    <3>3. DOMAIN arrivals[r] = 1..Len(arrivals[r]) /\ Len(arrivals[r]) \in Nat
      BY <1>8
    <3>4. i \in DOMAIN arrivals[r]
      <4>1. j \in 1..Len(arrivals[r]) /\ j \in Int
        BY <3>1, <3>3
      <4>2. i \in Int /\ 1 <= i /\ i <= j
        BY <4>1
      <4> QED BY <3>3, <4>1, <4>2
    <3>5. arrivals'[r][i] = arrivals[r][i]
      BY <1>13, <3>4
    <3> QED BY <3>2, <3>5
  <2>2. CASE r = q /\ j = n + 1
    <3>1. store[q] # NoExpiry
      BY <1>6, <1>10, <1>11, <2>2
    <3>2. PICK i \in DOMAIN arrivals[q] : arrivals[q][i].answer \in {"accepted", "bad signature"}
      BY <1>2, <3>1 DEF Kept, CopySpent
    <3>3. arrivals'[q][i] = arrivals[q][i]
      BY <1>13, <3>2
    <3>4. i \in 1..(j - 1)
      <4>1. i \in 1..n
        BY <1>9
      <4>2. j - 1 = n
        BY <1>9, <2>2
      <4> QED BY <4>1, <4>2
    <3> QED BY <2>2, <3>2, <3>3, <3>4
  <2> QED BY <2>1, <2>2
<1> QED BY <1>12, <1>15, <1>18, <1>19, <1>20, <1>21 DEF OwnerInv, NonceIsSpentOnce

LEMMA OwnerStutterKeeps == ASSUME OwnerInv, UNCHANGED ownerAll PROVE OwnerInv'
<1>1. clock' = clock /\ stamp' = stamp /\ store' = store /\ arrivals' = arrivals
  BY DEF ownerAll, ownerVars
<1>2. NonceIsSpentOnce'
  BY <1>1, SameJudged DEF OwnerInv
<1> QED BY <1>1, <1>2 DEF OwnerInv, OwnerTypeOK, Unsigned, Kept, Guarded, CopySpent

LEMMA OwnerInvariant == OwnerSpec => []OwnerInv
<1>1. OwnerInv /\ [OwnerNext]_ownerAll => OwnerInv'
  BY OwnerTickKeeps, SignKeeps, ArriveKeeps, OwnerStutterKeeps DEF OwnerNext
<1> QED BY OwnerInitHolds, <1>1, PTL DEF OwnerSpec, ownerAll

\* A request is honoured once, but for the last instant of its window, and called a
\* replay only after a copy of it passed the time check, whatever the store pruned
\* (owner-auth.ts 115-142, 160-185).
THEOREM SpentOnce == OwnerSpec => []NonceIsSpentOnce
<1>1. OwnerInv => NonceIsSpentOnce
  BY DEF OwnerInv
<1> QED BY OwnerInvariant, <1>1, PTL

\* The service's state keeps its types.
THEOREM OwnerTypeCorrect == OwnerSpec => []OwnerTypeOK
<1>1. OwnerInv => OwnerTypeOK
  BY DEF OwnerInv
<1> QED BY OwnerInvariant, <1>1, PTL

-----------------------------------------------------------------------------
(* The evidence and the off-box signer (OffBoxSigner).                       *)

signerAll == <<clock, signerVars>>

\* A set of numbers that is not empty has a least one.
LEMMA LeastExists ==
  ASSUME NEW S, S \subseteq Nat, S # {}
  PROVE  Min(S) \in S /\ \A n \in S : Min(S) <= n
<1>1. PICK m \in S : \A n \in S : ~(<<n, m>> \in OpToRel(<, Nat))
  BY NatLessThanWellFounded, WFMin
<1>2. \A n \in S : m <= n
  <2>1. ASSUME NEW n \in S PROVE ~(n < m)
    <3>1. <<n, m>> \notin OpToRel(<, Nat)
      BY <1>1
    <3>2. <<n, m>> \in Nat \X Nat /\ <<n, m>>[1] = n /\ <<n, m>>[2] = m
      OBVIOUS
    <3>3. OpToRel(<, Nat) = {ss \in Nat \X Nat : ss[1] < ss[2]}
      BY DEF OpToRel
    <3> QED BY <3>1, <3>2, <3>3
  <2> QED BY <2>1
<1> QED BY <1>2 DEF Min

-----------------------------------------------------------------------------
(* The gate.                                                               *)

\* A piece that is not turned away is trusted, recent and not spent.
LEMMA CodeFacts ==
  ASSUME clock \in Times, dated \in [Pieces -> Int], NEW e \in Pieces, NEW used
  PROVE  /\ PieceCode(e, used) \in GateCodes \cup {"ok"}
         /\ PieceCode(e, used) = "ok" =>
              /\ e \in Accepted \cap Authentic
              /\ clock - dated[e] <= EvidenceMaxAge
              /\ e \notin used
<1>1. clock - dated[e] \in Int /\ EvidenceMaxAge \in Int
  BY SignerAssumption, TimeAssumption DEF Times
<1>2. CASE e \notin Accepted
  BY <1>2 DEF PieceCode, GateCodes
<1>3. CASE e \in Accepted /\ e \notin Authentic
  BY <1>3 DEF PieceCode, GateCodes
<1>4. CASE e \in Accepted \cap Authentic /\ clock - dated[e] > EvidenceMaxAge
  <2>1. ~(clock - dated[e] <= EvidenceMaxAge)
    BY <1>1, <1>4
  <2> QED BY <1>4, <2>1 DEF PieceCode, GateCodes
<1>5. CASE e \in Accepted \cap Authentic /\ clock - dated[e] <= EvidenceMaxAge
  <2>1. ~(clock - dated[e] > EvidenceMaxAge)
    BY <1>1, <1>5
  <2> QED BY <1>5, <2>1 DEF PieceCode, GateCodes
<1> QED BY <1>1, <1>2, <1>3, <1>4, <1>5

\* What the gate lets pass is bound to evidence it has not seen before, and justified.
LEMMA GateFacts ==
  ASSUME clock \in Times, dated \in [Pieces -> Int], NEW vi \in Submissions
  PROVE  /\ Gate(vi) \in GateCodes \cup {"verified"}
         /\ Gate(vi) = "verified" =>
              /\ Bound(vi)
              /\ Justifies(Rule, vi.inputs, vi.intent)
              /\ \A i \in DOMAIN vi.evidence :
                   /\ vi.evidence[i] \in Accepted \cap Authentic
                   /\ clock - dated[vi.evidence[i]] <= EvidenceMaxAge
                   /\ vi.evidence[i] \notin seen
                   /\ vi.evidence[i] \in SpentBy(vi)
<1> DEFINE s == vi.evidence
<1>1. s \in Seq(Pieces) /\ DOMAIN s \subseteq Nat /\ \A i \in DOMAIN s : s[i] \in Pieces
  BY SignerAssumption
<1>2. \A i \in DOMAIN s : Code(s, i) \in GateCodes \cup {"ok"}
  BY <1>1, CodeFacts DEF Code
<1>3. Failing(s) \subseteq DOMAIN s /\ \A i \in Failing(s) : Code(s, i) # "ok"
  BY DEF Failing
<1>4. CASE vi.rule # Rule.id
  BY <1>4 DEF Gate, GateCodes
<1>5. CASE vi.rule = Rule.id /\ Failing(s) # {}
  <2>1. Min(Failing(s)) \in Failing(s)
    <3> HIDE DEF s
    <3> QED BY <1>1, <1>3, <1>5, LeastExists
  <2>2. Code(s, Min(Failing(s))) \in GateCodes
    <3> HIDE DEF s
    <3> QED BY <1>2, <1>3, <2>1
  <2>3. Gate(vi) = Code(s, Min(Failing(s)))
    BY <1>5 DEF Gate
  <2> QED BY <2>2, <2>3 DEF GateCodes
<1>6. CASE vi.rule = Rule.id /\ Failing(s) = {} /\ ~Bound(vi)
  BY <1>6 DEF Gate, GateCodes
<1>7. CASE vi.rule = Rule.id /\ Failing(s) = {} /\ Bound(vi) /\ ~Justifies(Rule, vi.inputs, vi.intent)
  BY <1>7 DEF Gate, GateCodes
<1>8. CASE vi.rule = Rule.id /\ Failing(s) = {} /\ Bound(vi) /\ Justifies(Rule, vi.inputs, vi.intent)
  <2>1. \A i \in DOMAIN s : PieceCode(s[i], seen \cup Before(s, i)) = "ok"
    BY <1>8 DEF Failing, Code
  <2>2. ASSUME NEW i \in DOMAIN s
        PROVE  /\ s[i] \in Accepted \cap Authentic
               /\ clock - dated[s[i]] <= EvidenceMaxAge
               /\ s[i] \notin seen
    <3>1. s[i] \in Pieces
      BY <1>1
    <3>2. PieceCode(s[i], seen \cup Before(s, i)) = "ok"
      BY <2>1
    <3> HIDE DEF s
    <3> QED BY <3>1, <3>2, CodeFacts
  <2>3. \A i \in DOMAIN s : s[i] \in SpentBy(vi)
    BY <1>8 DEF SpentBy
  <2>4. Gate(vi) = "verified"
    BY <1>8 DEF Gate
  <2> QED BY <1>8, <2>2, <2>3, <2>4
<1> QED BY <1>4, <1>5, <1>6, <1>7, <1>8

-----------------------------------------------------------------------------
(* The invariant.                                                          *)

\* The parts of the inductive invariant that the properties do not state: pieces are dated
\* at most Ahead late, what was submitted was made, and decisions, signatures, answers
\* and the replay store agree.
EvidenceDated == \A e \in Pieces : madeAt[e] # NotMade => dated[e] <= madeAt[e] + Ahead
SubmittedIsMade == \A a \in Attempts : submitted[a] \in Submissions => Made(submitted[a])
DecidedIsSubmitted == \A a \in Attempts : verdict[a] # "none" => submitted[a] # NoSubmission
SignedIsVerified == \A a \in Attempts : verdict[a] = "verified" <=> Signed(a)
LivesPassed == \A a \in Attempts : signed[a].life <= life
SignedIsSpent ==
  \A a \in Attempts :
    Signed(a) /\ submitted[a] # Bare /\ signed[a].life = life =>
      \A i \in DOMAIN submitted[a].evidence : submitted[a].evidence[i] \in seen
ToldIsVerdict ==
  \A a \in Attempts : IF a \in blank THEN told[a] = "verified"
                     ELSE told[a] \in Verdicts => verdict[a] = told[a]

SignerInv ==
  /\ clock \in Times /\ SignerTypeOK
  /\ EvidenceDated /\ SubmittedIsMade /\ DecidedIsSubmitted
  /\ SignedIsVerified /\ LivesPassed /\ SignedIsSpent /\ ToldIsVerdict
  /\ SignedIsJustified /\ EvidenceSpentOnce

LEMMA SignerInitHolds == ASSUME clock = 0, SignerInit PROVE SignerInv
<1> USE SignerAssumption, TimeAssumption
<1>1. clock \in Times /\ SignerTypeOK
  BY DEF SignerInit, SignerTypeOK, Times, NotMade, NotSigned
<1>2. \A a \in Attempts : ~Signed(a)
  BY DEF SignerInit, Signed
<1>3. SignedIsJustified /\ EvidenceSpentOnce /\ SignedIsSpent
  BY <1>2 DEF SignedIsJustified, EvidenceSpentOnce, SignedIsSpent
<1>4. EvidenceDated
  BY DEF SignerInit, EvidenceDated
<1>5. SubmittedIsMade
  BY DEF SignerInit, SubmittedIsMade
<1>6. DecidedIsSubmitted /\ LivesPassed
  BY DEF SignerInit, DecidedIsSubmitted, LivesPassed, NotSigned
<1>7. ToldIsVerdict
  BY DEF SignerInit, ToldIsVerdict, Verdicts, GateCodes
<1>8. SignedIsVerified
  BY <1>2 DEF SignerInit, SignedIsVerified
<1> QED BY <1>1, <1>3, <1>4, <1>5, <1>6, <1>7, <1>8 DEF SignerInv

\* A step that signs nothing on evidence.
SignsNothingNew ==
  \A b \in Attempts :
    signed'[b] # NotSigned /\ submitted'[b] # Bare =>
      signed'[b] = signed[b] /\ submitted'[b] = submitted[b]
MadeStaysMade == \A e \in Pieces : madeAt[e] # NotMade => madeAt'[e] = madeAt[e]

\* Such a step keeps what is said of the trades signed so far.
LEMMA SignedKept ==
  ASSUME SignerInv, SignsNothingNew, MadeStaysMade
  PROVE  SignedIsJustified' /\ EvidenceSpentOnce'
<1>1. ASSUME NEW b \in Attempts, Signed(b)', submitted'[b] # Bare
      PROVE  Signed(b) /\ signed'[b] = signed[b] /\ submitted'[b] = submitted[b]
  BY <1>1 DEF Signed, SignsNothingNew
<1>2. SignedIsJustified'
  <2> SUFFICES ASSUME NEW b \in Attempts, Signed(b)', submitted'[b] # Bare
               PROVE  /\ Justifies(Rule, submitted'[b].inputs, submitted'[b].intent)
                      /\ \A input \in Rule.requires : Grounds(b, input)' # {}
    BY DEF SignedIsJustified
  <2>1. /\ Justifies(Rule, submitted[b].inputs, submitted[b].intent)
        /\ \A input \in Rule.requires : Grounds(b, input) # {}
    BY <1>1 DEF SignerInv, SignedIsJustified
  <2>2. ASSUME NEW input \in Rule.requires PROVE Grounds(b, input) \subseteq Grounds(b, input)'
    BY <1>1 DEF Grounds, MadeStaysMade
  <2> QED BY <1>1, <2>1, <2>2
<1>3. EvidenceSpentOnce'
  BY <1>1 DEF SignerInv, EvidenceSpentOnce, SharesEvidence
<1> QED BY <1>2, <1>3

\* And, while the replay store is kept, what it holds for them.
LEMMA SpentKept ==
  ASSUME SignerInv, SignsNothingNew, seen \subseteq seen', life' = life
  PROVE  SignedIsSpent'
  BY DEF SignerInv, SignsNothingNew, SignedIsSpent, Signed

LEMMA ClockKeeps == ASSUME SignerInv, SignerTick PROVE SignerInv'
<1> USE DEF SignerTick, Tick, signerVars
<1>1. clock' \in Times /\ SignerTypeOK'
  BY TimeAssumption DEF SignerInv, SignerTypeOK, Times
<1>2. SignsNothingNew /\ MadeStaysMade
  BY DEF SignsNothingNew, MadeStaysMade
<1>3. SignedIsJustified' /\ EvidenceSpentOnce' /\ SignedIsSpent'
  BY <1>2, SignedKept, SpentKept
<1>4. EvidenceDated' /\ SubmittedIsMade' /\ DecidedIsSubmitted'
  BY DEF SignerInv, EvidenceDated, SubmittedIsMade, Made, DecidedIsSubmitted
<1>5. SignedIsVerified' /\ LivesPassed' /\ ToldIsVerdict'
  BY DEF SignerInv, SignedIsVerified, Signed, LivesPassed, ToldIsVerdict
<1> QED BY <1>1, <1>3, <1>4, <1>5 DEF SignerInv

LEMMA ProduceKeeps == ASSUME SignerInv, NEW e \in Pieces, Produce(e) PROVE SignerInv'
<1>1. PICK d \in 0..Ahead : dated' = [dated EXCEPT ![e] = clock + d]
  BY DEF Produce
<1>2. madeAt' = [madeAt EXCEPT ![e] = clock] /\ madeAt[e] = NotMade
  BY DEF Produce
<1>3. UNCHANGED <<clock, seen, life, submitted, verdict, signed, told, blank>>
  BY DEF Produce
<1>4. clock \in Times /\ clock \in Int /\ d \in Int /\ d <= Ahead
  BY SignerAssumption, TimeAssumption DEF SignerInv, Times
<1>5. SignerTypeOK'
  BY <1>1, <1>2, <1>3, <1>4 DEF SignerInv, SignerTypeOK
<1>6. EvidenceDated'
  <2> SUFFICES ASSUME NEW x \in Pieces, madeAt'[x] # NotMade PROVE dated'[x] <= madeAt'[x] + Ahead
    BY DEF EvidenceDated
  <2>1. madeAt \in [Pieces -> Times \cup {NotMade}] /\ dated \in [Pieces -> Int]
    BY DEF SignerInv, SignerTypeOK
  <2>2. CASE x = e
    BY <1>1, <1>2, <1>4, <2>1, <2>2, SignerAssumption
  <2>3. CASE x # e
    BY <1>1, <1>2, <2>1, <2>3 DEF SignerInv, EvidenceDated
  <2> QED BY <2>2, <2>3
<1>7. SubmittedIsMade'
  <2> SUFFICES ASSUME NEW a \in Attempts, submitted[a] \in Submissions,
                      NEW i \in DOMAIN submitted[a].evidence
               PROVE  madeAt'[submitted[a].evidence[i]] # NotMade
    BY <1>3 DEF SubmittedIsMade, Made
  <2>1. madeAt[submitted[a].evidence[i]] # NotMade /\ submitted[a].evidence[i] \in Pieces
    BY SignerAssumption DEF SignerInv, SubmittedIsMade, Made
  <2> QED BY <1>2, <2>1 DEF SignerInv, SignerTypeOK
<1>8. SignsNothingNew /\ MadeStaysMade
  BY <1>2, <1>3 DEF SignsNothingNew, MadeStaysMade, SignerInv, SignerTypeOK
<1>9. SignedIsJustified' /\ EvidenceSpentOnce' /\ SignedIsSpent'
  BY <1>3, <1>8, SignedKept, SpentKept
<1>10. DecidedIsSubmitted' /\ SignedIsVerified' /\ LivesPassed' /\ ToldIsVerdict'
  BY <1>3 DEF SignerInv, DecidedIsSubmitted, SignedIsVerified, Signed, LivesPassed, ToldIsVerdict
<1> QED BY <1>3, <1>4, <1>5, <1>6, <1>7, <1>9, <1>10 DEF SignerInv

LEMMA SubmitKeeps ==
  ASSUME SignerInv, NEW a \in Attempts, NEW vi \in Submissions \cup {Bare}, Submit(a, vi)
  PROVE  SignerInv'
<1>1. submitted' = [submitted EXCEPT ![a] = vi] /\ submitted[a] = NoSubmission /\ (vi # Bare => Made(vi))
  BY DEF Submit
<1>2. UNCHANGED <<clock, madeAt, dated, seen, life, verdict, signed, told, blank>>
  BY DEF Submit
<1>3. ~Signed(a) /\ verdict[a] = "none"
  BY <1>1 DEF SignerInv, DecidedIsSubmitted, SignedIsVerified
<1>4. submitted \in [Attempts -> Submissions \cup {Bare, NoSubmission}]
  BY DEF SignerInv, SignerTypeOK
<1>5. clock' \in Times /\ SignerTypeOK'
  BY <1>1, <1>2, <1>4 DEF SignerInv, SignerTypeOK
<1>6. SubmittedIsMade'
  BY <1>1, <1>2, <1>4, SignerAssumption DEF SignerInv, SubmittedIsMade, Made
<1>7. DecidedIsSubmitted'
  BY <1>1, <1>2, <1>4, SignerAssumption DEF SignerInv, DecidedIsSubmitted
<1>8. SignsNothingNew /\ MadeStaysMade
  BY <1>1, <1>2, <1>3, <1>4 DEF SignsNothingNew, MadeStaysMade, Signed
<1>9. SignedIsJustified' /\ EvidenceSpentOnce' /\ SignedIsSpent'
  BY <1>2, <1>8, SignedKept, SpentKept
<1>10. EvidenceDated' /\ SignedIsVerified' /\ LivesPassed' /\ ToldIsVerdict'
  BY <1>2 DEF SignerInv, EvidenceDated, SignedIsVerified, Signed, LivesPassed, ToldIsVerdict
<1> QED BY <1>5, <1>6, <1>7, <1>9, <1>10 DEF SignerInv

LEMMA RestartKeeps == ASSUME SignerInv, RestartSigner PROVE SignerInv'
<1> USE DEF RestartSigner
<1>1. life \in 1..MaxLives /\ life \in Int /\ MaxLives \in Nat
  BY SignerAssumption DEF SignerInv, SignerTypeOK
<1>2. clock' \in Times /\ SignerTypeOK'
  BY <1>1 DEF SignerInv, SignerTypeOK
<1>3. \A a \in Attempts : signed[a].life \in Int
  BY SignerAssumption DEF SignerInv, SignerTypeOK
<1>4. LivesPassed'
  BY <1>1, <1>3 DEF SignerInv, LivesPassed
<1>5. \A a \in Attempts : signed'[a].life # life'
  BY <1>1, <1>3 DEF SignerInv, LivesPassed
<1>6. SignedIsSpent'
  BY <1>5 DEF SignedIsSpent
<1>7. SignsNothingNew /\ MadeStaysMade
  BY DEF SignsNothingNew, MadeStaysMade
<1>8. SignedIsJustified' /\ EvidenceSpentOnce'
  BY <1>7, SignedKept
<1>9. EvidenceDated' /\ SubmittedIsMade' /\ DecidedIsSubmitted' /\ SignedIsVerified' /\ ToldIsVerdict'
  BY DEF SignerInv, EvidenceDated, SubmittedIsMade, Made, DecidedIsSubmitted, SignedIsVerified, Signed, ToldIsVerdict
<1> QED BY <1>2, <1>4, <1>6, <1>8, <1>9 DEF SignerInv

LEMMA LearnKeeps ==
  ASSUME SignerInv, NEW a \in Attempts, NEW code \in Verdicts \cup {"http", "signer-unreachable"},
         NEW blanks, blanks \subseteq {a}, Asking(a), Learn(a, code, blanks),
         IF blanks = {a} THEN code = "verified" ELSE code \in Verdicts => verdict[a] = code
  PROVE  SignerInv'
<1>1. told' = [told EXCEPT ![a] = code] /\ blank' = blank \cup blanks
  BY DEF Learn
<1>2. UNCHANGED <<clock, madeAt, dated, seen, life, submitted, verdict, signed>>
  BY DEF Learn
<1>3. told \in [Attempts -> Verdicts \cup {"none", "http", "signer-unreachable"}]
  BY DEF SignerInv, SignerTypeOK
<1>4. clock' \in Times /\ SignerTypeOK'
  BY <1>1, <1>2, <1>3 DEF SignerInv, SignerTypeOK
<1>5. ToldIsVerdict'
  <2> SUFFICES ASSUME NEW b \in Attempts
               PROVE  IF b \in blank' THEN told'[b] = "verified"
                      ELSE told'[b] \in Verdicts => verdict[b] = told'[b]
    BY <1>2 DEF ToldIsVerdict
  <2>1. IF b \in blank THEN told[b] = "verified" ELSE told[b] \in Verdicts => verdict[b] = told[b]
    BY DEF SignerInv, ToldIsVerdict
  <2>2. a \notin blank
    BY DEF SignerInv, ToldIsVerdict, Asking
  <2>3. CASE b # a
    BY <1>1, <1>3, <2>1, <2>3
  <2>4. CASE b = a
    <3>1. told'[b] = code /\ blanks \in {{}, {a}}
      BY <1>1, <1>3, <2>4
    <3> QED BY <1>1, <2>2, <2>4, <3>1
  <2> QED BY <2>3, <2>4
<1>6. SignsNothingNew /\ MadeStaysMade
  BY <1>2 DEF SignsNothingNew, MadeStaysMade
<1>7. SignedIsJustified' /\ EvidenceSpentOnce' /\ SignedIsSpent'
  BY <1>2, <1>6, SignedKept, SpentKept
<1>8. EvidenceDated' /\ SubmittedIsMade' /\ DecidedIsSubmitted' /\ SignedIsVerified' /\ LivesPassed'
  BY <1>2 DEF SignerInv, EvidenceDated, SubmittedIsMade, Made, DecidedIsSubmitted, SignedIsVerified, Signed, LivesPassed
<1> QED BY <1>4, <1>5, <1>7, <1>8 DEF SignerInv

\* Whatever is decided, the bookkeeping stays in agreement.
LEMMA ConcludeKeepsBooks ==
  ASSUME SignerInv, NEW a \in Attempts, NEW code \in Verdicts, Reached(a), Conclude(a, code),
         UNCHANGED <<clock, madeAt, dated, life, submitted, told, blank>>, seen' \subseteq Pieces
  PROVE  /\ clock' \in Times /\ SignerTypeOK'
         /\ EvidenceDated' /\ SubmittedIsMade' /\ DecidedIsSubmitted'
         /\ SignedIsVerified' /\ LivesPassed' /\ ToldIsVerdict'
<1>1. verdict' = [verdict EXCEPT ![a] = code] /\ verdict[a] = "none" /\ submitted[a] # NoSubmission
  BY DEF Conclude, Reached
<1>2. signed' = IF code = "verified" THEN [signed EXCEPT ![a] = [at |-> clock, life |-> life]] ELSE signed
  BY DEF Conclude
<1>3. /\ clock \in Times /\ clock \in Nat /\ life \in 1..MaxLives /\ life \in 0..MaxLives
      /\ life \in Int
  BY SignerAssumption, TimeAssumption DEF SignerInv, SignerTypeOK, Times
<1>4. /\ verdict \in [Attempts -> Verdicts \cup {"none"}]
      /\ signed \in [Attempts -> [at : Times \cup {-1}, life : 0..MaxLives]]
      /\ told \in [Attempts -> Verdicts \cup {"none", "http", "signer-unreachable"}]
  BY DEF SignerInv, SignerTypeOK
<1>5. verdict' \in [Attempts -> Verdicts \cup {"none"}]
  BY <1>1, <1>4
<1>6. signed' \in [Attempts -> [at : Times \cup {-1}, life : 0..MaxLives]]
  BY <1>2, <1>3, <1>4
<1>7. SignerTypeOK'
  BY <1>5, <1>6 DEF SignerInv, SignerTypeOK
<1>8. EvidenceDated' /\ SubmittedIsMade'
  BY DEF SignerInv, EvidenceDated, SubmittedIsMade, Made
<1>9. DecidedIsSubmitted'
  BY <1>1, <1>4 DEF SignerInv, DecidedIsSubmitted
<1>10. SignedIsVerified'
  <2> SUFFICES ASSUME NEW b \in Attempts PROVE (verdict'[b] = "verified") <=> Signed(b)'
    BY DEF SignedIsVerified
  <2>1. (verdict[b] = "verified") <=> Signed(b)
    BY DEF SignerInv, SignedIsVerified
  <2>2. CASE b # a
    BY <1>1, <1>2, <1>4, <2>1, <2>2 DEF Signed
  <2>3. CASE b = a /\ code = "verified"
    <3>1. verdict'[b] = "verified" /\ signed'[b] = [at |-> clock, life |-> life]
      BY <1>1, <1>2, <1>4, <2>3
    <3>2. [at |-> clock, life |-> life] # NotSigned
      BY <1>3 DEF NotSigned
    <3> QED BY <3>1, <3>2 DEF Signed
  <2>4. CASE b = a /\ code # "verified"
    BY <1>1, <1>2, <1>4, <2>1, <2>4 DEF Signed
  <2> QED BY <2>2, <2>3, <2>4
<1>11. LivesPassed'
  <2> SUFFICES ASSUME NEW b \in Attempts PROVE signed'[b].life <= life
    BY DEF LivesPassed
  <2>1. signed[b].life <= life
    BY DEF SignerInv, LivesPassed
  <2> QED BY <1>2, <1>3, <1>4, <2>1
<1>12. ToldIsVerdict'
  <2> SUFFICES ASSUME NEW b \in Attempts, b \notin blank, told[b] \in Verdicts
               PROVE  verdict'[b] = told[b]
    BY DEF SignerInv, ToldIsVerdict
  <2>1. verdict[b] = told[b]
    BY DEF SignerInv, ToldIsVerdict
  <2>2. "none" \notin Verdicts
    BY DEF Verdicts, GateCodes
  <2> QED BY <1>1, <1>4, <2>1, <2>2
<1> QED BY <1>3, <1>7, <1>8, <1>9, <1>10, <1>11, <1>12

LEMMA DecideBareKeeps == ASSUME SignerInv, NEW a \in Attempts, DecideBare(a) PROVE SignerInv'
<1>1. Reached(a) /\ submitted[a] = Bare
  BY DEF DecideBare
<1>2. UNCHANGED <<clock, madeAt, dated, seen, life, submitted, told, blank>>
  BY DEF DecideBare
<1>3. PICK code \in {"verified", "refused"} : Conclude(a, code)
  BY DEF DecideBare
<1>4. code \in Verdicts /\ seen' \subseteq Pieces
  BY <1>2 DEF Verdicts, SignerInv, SignerTypeOK
<1>5. signed \in [Attempts -> [at : Times \cup {-1}, life : 0..MaxLives]]
  BY DEF SignerInv, SignerTypeOK
<1>6. SignsNothingNew /\ MadeStaysMade
  BY <1>1, <1>2, <1>3, <1>5 DEF SignsNothingNew, MadeStaysMade, Conclude
<1>7. SignedIsJustified' /\ EvidenceSpentOnce' /\ SignedIsSpent'
  BY <1>2, <1>6, SignedKept, SpentKept
<1> QED BY <1>1, <1>2, <1>3, <1>4, <1>7, ConcludeKeepsBooks DEF SignerInv

LEMMA DecideVerifiedKeeps == ASSUME SignerInv, NEW a \in Attempts, DecideVerified(a) PROVE SignerInv'
<1> DEFINE vi == submitted[a]
<1>1. Reached(a) /\ vi # Bare /\ vi # NoSubmission
  BY DEF DecideVerified, Reached
<1>2. UNCHANGED <<clock, madeAt, dated, life, submitted, told, blank>>
  BY DEF DecideVerified
<1>3. Conclude(a, Gate(vi)) /\ seen' = seen \cup SpentBy(vi)
  BY DEF DecideVerified
<1>4. vi \in Submissions
  BY <1>1 DEF SignerInv, SignerTypeOK
<1>5. clock \in Times /\ dated \in [Pieces -> Int]
  BY DEF SignerInv, SignerTypeOK
<1>6. vi.evidence \in Seq(Pieces) /\ \A i \in DOMAIN vi.evidence : vi.evidence[i] \in Pieces
  BY <1>4, SignerAssumption
<1>7. SpentBy(vi) \subseteq Pieces
  BY <1>6 DEF SpentBy
<1>8. seen' \subseteq Pieces
  BY <1>3, <1>7 DEF SignerInv, SignerTypeOK
<1>9. Gate(vi) \in GateCodes \cup {"verified"}
  BY <1>4, <1>5, GateFacts
<1>10. Gate(vi) \in Verdicts
  BY <1>9 DEF Verdicts
<1>11. /\ clock' \in Times /\ SignerTypeOK'
       /\ EvidenceDated' /\ SubmittedIsMade' /\ DecidedIsSubmitted'
       /\ SignedIsVerified' /\ LivesPassed' /\ ToldIsVerdict'
  <2> HIDE DEF vi
  <2> QED BY <1>1, <1>2, <1>3, <1>8, <1>10, ConcludeKeepsBooks
<1>12. CASE Gate(vi) # "verified"
  <2>1. SignsNothingNew /\ MadeStaysMade
    BY <1>2, <1>3, <1>12 DEF SignsNothingNew, MadeStaysMade, Conclude
  <2>2. SignedIsJustified' /\ EvidenceSpentOnce' /\ SignedIsSpent'
    BY <1>2, <1>3, <2>1, SignedKept, SpentKept
  <2> QED BY <1>11, <2>2 DEF SignerInv
<1>13. CASE Gate(vi) = "verified"
  <2>1. /\ Bound(vi) /\ Justifies(Rule, vi.inputs, vi.intent)
        /\ \A i \in DOMAIN vi.evidence :
             /\ vi.evidence[i] \in Accepted \cap Authentic
             /\ clock - dated[vi.evidence[i]] <= EvidenceMaxAge
             /\ vi.evidence[i] \notin seen
             /\ vi.evidence[i] \in SpentBy(vi)
    BY <1>4, <1>5, <1>13, GateFacts
  <2>2. signed' = [signed EXCEPT ![a] = [at |-> clock, life |-> life]]
    BY <1>3, <1>13 DEF Conclude
  <2>3. signed \in [Attempts -> [at : Times \cup {-1}, life : 0..MaxLives]]
    BY DEF SignerInv, SignerTypeOK
  <2>4. signed'[a] = [at |-> clock, life |-> life]
    BY <2>2, <2>3
  <2>5. ASSUME NEW b \in Attempts, b # a PROVE signed'[b] = signed[b]
    BY <2>2, <2>3, <2>5
  <2>6. SignedIsJustified'
    <3> SUFFICES ASSUME NEW b \in Attempts, Signed(b)', submitted[b] # Bare
                 PROVE  /\ Justifies(Rule, submitted[b].inputs, submitted[b].intent)
                        /\ \A input \in Rule.requires : Grounds(b, input)' # {}
      BY <1>2 DEF SignedIsJustified
    <3>1. CASE b # a
      <4>1. signed'[b] = signed[b] /\ Signed(b)
        BY <2>5, <3>1 DEF Signed
      <4>2. \A input \in Rule.requires : Grounds(b, input)' = Grounds(b, input)
        BY <1>2, <4>1 DEF Grounds
      <4> QED BY <4>1, <4>2 DEF SignerInv, SignedIsJustified
    <3>2. CASE b = a
      <4> SUFFICES ASSUME NEW input \in Rule.requires PROVE Grounds(a, input)' # {}
        BY <2>1, <3>2
      <4>1. PICK i \in DOMAIN vi.evidence :
              input \in DOMAIN vi.inputs /\ Backs(vi.evidence[i], input, vi.inputs[input])
        BY <2>1 DEF Bound
      <4> DEFINE e == vi.evidence[i]
      <4>2. e \in Pieces /\ e \in Accepted \cap Authentic /\ clock - dated[e] <= EvidenceMaxAge
        BY <1>6, <2>1
      <4>3. madeAt[e] # NotMade
        BY <1>4 DEF SignerInv, SubmittedIsMade, Made
      <4>4. clock - madeAt[e] <= EvidenceMaxAge + Ahead
        <5> HIDE DEF e
        <5>1. dated[e] <= madeAt[e] + Ahead
          BY <4>2, <4>3 DEF SignerInv, EvidenceDated
        <5>2. madeAt[e] \in Int /\ dated[e] \in Int /\ clock \in Int
          BY <1>5, <4>2, TimeAssumption DEF SignerInv, SignerTypeOK, Times, NotMade
        <5> QED BY <4>2, <5>1, <5>2, SignerAssumption
      <4>5. signed'[a].at = clock
        BY <2>4
      <4>6. e \in Grounds(a, input)'
        BY <1>2, <4>1, <4>2, <4>3, <4>4, <4>5 DEF Grounds, Backs
      <4> QED BY <4>6
    <3> QED BY <3>1, <3>2
  <2>7. ASSUME NEW b \in Attempts, b # a, Signed(b), submitted[b] # Bare, signed[b].life = life
        PROVE  ~SharesEvidence(a, b) /\ ~SharesEvidence(b, a)
    <3>1. \A j \in DOMAIN submitted[b].evidence : submitted[b].evidence[j] \in seen
      BY <2>7 DEF SignerInv, SignedIsSpent
    <3> QED BY <2>1, <3>1 DEF SharesEvidence
  <2>8. EvidenceSpentOnce'
    <3> SUFFICES ASSUME NEW b \in Attempts, NEW c \in Attempts, b # c, Signed(b)', Signed(c)',
                        signed'[b].life = signed'[c].life,
                        submitted[b] # Bare, submitted[c] # Bare
                 PROVE  ~SharesEvidence(b, c)
      BY <1>2 DEF EvidenceSpentOnce, SharesEvidence
    <3>1. CASE b # a /\ c # a
      BY <2>5, <3>1 DEF SignerInv, EvidenceSpentOnce, Signed
    <3>2. CASE b = a
      BY <2>4, <2>5, <2>7, <3>2 DEF Signed
    <3>3. CASE c = a
      BY <2>4, <2>5, <2>7, <3>3 DEF Signed
    <3> QED BY <3>1, <3>2, <3>3
  <2>9. SignedIsSpent'
    <3> SUFFICES ASSUME NEW b \in Attempts, Signed(b)', submitted[b] # Bare, signed'[b].life = life,
                        NEW i \in DOMAIN submitted[b].evidence
                 PROVE  submitted[b].evidence[i] \in seen'
      BY <1>2 DEF SignedIsSpent
    <3>1. CASE b = a
      BY <1>3, <2>1, <3>1
    <3>2. CASE b # a
      BY <1>3, <2>5, <3>2 DEF SignerInv, SignedIsSpent, Signed
    <3> QED BY <3>1, <3>2
  <2> QED BY <1>11, <2>6, <2>8, <2>9 DEF SignerInv
<1> QED BY <1>12, <1>13

LEMMA SignerNextKeeps == ASSUME SignerInv, [SignerNext]_signerAll PROVE SignerInv'
<1>1. CASE SignerTick
  BY <1>1, ClockKeeps
<1>2. CASE RestartSigner
  BY <1>2, RestartKeeps
<1>3. ASSUME NEW e \in Pieces, Produce(e) PROVE SignerInv'
  BY <1>3, ProduceKeeps
<1>4. ASSUME NEW a \in Attempts, NEW vi \in Submissions \cup {Bare}, Submit(a, vi) PROVE SignerInv'
  BY <1>4, SubmitKeeps
<1>5. ASSUME NEW a \in Attempts, DecideVerified(a) PROVE SignerInv'
  BY <1>5, DecideVerifiedKeeps
<1>6. ASSUME NEW a \in Attempts, DecideBare(a) PROVE SignerInv'
  BY <1>6, DecideBareKeeps
<1>7. ASSUME NEW a \in Attempts, HearVerdict(a) PROVE SignerInv'
  <2>1. verdict[a] \in Verdicts
    BY <1>7 DEF HearVerdict, SignerInv, SignerTypeOK
  <2>2. Asking(a) /\ Learn(a, verdict[a], {})
    BY <1>7 DEF HearVerdict
  <2> QED BY <2>1, <2>2, LearnKeeps
<1>8. "http" \notin Verdicts /\ "signer-unreachable" \notin Verdicts
  BY DEF Verdicts, GateCodes
<1>9. ASSUME NEW a \in Attempts, HearStatus(a) PROVE SignerInv'
  <2>1. Asking(a) /\ Learn(a, "http", {})
    BY <1>9 DEF HearStatus
  <2> QED BY <1>8, <2>1, LearnKeeps
<1>10. ASSUME NEW a \in Attempts, HearNothing(a) PROVE SignerInv'
  <2>1. Asking(a) /\ Learn(a, "signer-unreachable", {})
    BY <1>10 DEF HearNothing, Unheard
  <2> QED BY <1>8, <2>1, LearnKeeps
<1>12. ASSUME NEW a \in Attempts, HearBlank(a) PROVE SignerInv'
  <2>1. Asking(a) /\ Learn(a, "verified", {a})
    BY <1>12 DEF HearBlank
  <2>2. "verified" \in Verdicts
    BY DEF Verdicts
  <2> QED BY <2>1, <2>2, LearnKeeps
<1>11. CASE UNCHANGED signerAll
  <2>1. UNCHANGED <<clock, madeAt, dated, seen, life, submitted, verdict, signed, told, blank>>
    BY <1>11 DEF signerAll, signerVars
  <2>2. SignsNothingNew /\ MadeStaysMade
    BY <2>1 DEF SignsNothingNew, MadeStaysMade
  <2>3. SignedIsJustified' /\ EvidenceSpentOnce' /\ SignedIsSpent'
    BY <2>1, <2>2, SignedKept, SpentKept
  <2> QED BY <2>1, <2>3 DEF SignerInv, SignerTypeOK, EvidenceDated, SubmittedIsMade, Made, DecidedIsSubmitted,
                            SignedIsVerified, Signed, LivesPassed, ToldIsVerdict
<1> QED BY <1>1, <1>2, <1>3, <1>4, <1>5, <1>6, <1>7, <1>9, <1>10, <1>11, <1>12 DEF SignerNext

LEMMA SignerInvariant == SignerSpec => []SignerInv
<1>1. clock = 0 /\ SignerInit => SignerInv
  BY SignerInitHolds
<1>2. SignerInv /\ [SignerNext]_signerAll => SignerInv'
  BY SignerNextKeeps
<1> QED BY <1>1, <1>2, PTL DEF SignerSpec, signerAll

\* Whatever agents submit and whenever it is decided, a trade signed on evidence has the
\* kind, token and size that the committed rule makes of its inputs, and trusted, recent
\* evidence vouches for those the rule requires (gate.ts).  The amount and the slippage
\* are anyone's: ExactlyThatTrade is refuted.
THEOREM Justified == SignerSpec => []SignedIsJustified
<1>1. SignerInv => SignedIsJustified
  BY DEF SignerInv
<1> QED BY SignerInvariant, <1>1, PTL

\* No piece of evidence justifies two trades in one life of the signer; a refusal with the
\* signer's reason is the truth, and so is an ok unless it was a 2xx that was not the
\* signer's (custody.ts, evidence.ts), of which there may be any number.
THEOREM OnceAsTold == SignerSpec => []TradesOnceAsTold
<1>1. SignerInv => TradesOnceAsTold
  <2> SUFFICES ASSUME SignerInv PROVE AnswersAreTrue
    BY DEF SignerInv, TradesOnceAsTold
  <2> SUFFICES ASSUME NEW a \in Attempts
               PROVE  /\ told[a] = "verified" => Signed(a) \/ a \in blank
                      /\ told[a] \in GateCodes \cup {"refused"} => ~Signed(a)
    BY DEF AnswersAreTrue
  <2>1. IF a \in blank THEN told[a] = "verified" ELSE told[a] \in Verdicts => verdict[a] = told[a]
    BY DEF SignerInv, ToldIsVerdict
  <2>2. (verdict[a] = "verified") <=> Signed(a)
    BY DEF SignerInv, SignedIsVerified
  <2> QED BY <2>1, <2>2 DEF Verdicts, GateCodes
<1> QED BY SignerInvariant, <1>1, PTL

-----------------------------------------------------------------------------
(* The prices (PriceOracle).                                                 *)

oracleAll == <<clock, oracleVars>>

\* A price that is kept was quoted after it was asked for, and both have passed.
PriceDated(p) == p.price # NoPrice => p.at <= p.price /\ p.price <= clock

\* A request that runs has not passed its timeout, and its price, if it was read, was
\* read since.
Pending(g) ==
  asking[g] = "fetching" =>
    /\ asked[g] <= clock /\ clock <= asked[g] + FetchTimeout
    /\ quoted[g] # NoPrice => asked[g] <= quoted[g] /\ quoted[g] <= clock

\* The longer memory is at most one timeout behind the best it was told.
KeptUp ==
  bestAsked # NoPrice =>
    /\ lastKnown.price # NoPrice
    /\ bestAsked <= clock
    /\ bestAsked - lastKnown.at <= FetchTimeout

OracleInv ==
  /\ clock \in Times
  /\ PriceTypeOK
  /\ PriceDated(cached) /\ PriceDated(lastKnown)
  /\ \A g \in Gets : Pending(g) /\ (asking[g] = "idle" => quoted[g] = NoPrice)
  /\ KeptUp
  /\ PriceIsRecent

\* OracleInv holds at the start.
LEMMA OracleInitHolds == clock = 0 /\ OracleInit => OracleInv
<1> SUFFICES ASSUME clock = 0, OracleInit PROVE OracleInv
  OBVIOUS
<1> USE TtlAssumption, NoPriceAssumption, TimeAssumption
<1>1. clock \in Times /\ PriceTypeOK
  BY DEF OracleInit, PriceTypeOK, Nothing, Prices, Times
<1>2. PriceDated(cached) /\ PriceDated(lastKnown)
  BY DEF OracleInit, PriceDated, Nothing
<1>3. \A g \in Gets : Pending(g) /\ (asking[g] = "idle" => quoted[g] = NoPrice)
  BY DEF OracleInit, Pending
<1>4. KeptUp /\ PriceIsRecent
  BY DEF OracleInit, KeptUp, PriceIsRecent, Nothing
<1> QED BY <1>1, <1>2, <1>3, <1>4 DEF OracleInv

\* An instant passes.
LEMMA OracleTickKeeps == ASSUME OracleInv, OracleTick PROVE OracleInv'
<1> USE TtlAssumption, NoPriceAssumption, TimeAssumption DEF OracleInv, OracleTick, Tick, oracleVars
<1>0. clock \in Int /\ clock' = clock + 1
  BY DEF Times
<1>1. clock' \in Times /\ PriceTypeOK'
  BY DEF PriceTypeOK, Prices, Times
<1>2. PriceDated(cached)' /\ PriceDated(lastKnown)'
  BY <1>0 DEF PriceDated, PriceTypeOK, Prices, Times
<1>3. \A g \in Gets : Pending(g)' /\ (asking[g] = "idle" => quoted[g] = NoPrice)'
  BY <1>0 DEF Pending, PriceTypeOK, Prices, Times
<1>4. KeptUp'
  BY <1>0 DEF KeptUp, PriceTypeOK, Prices, Times
<1>5. PriceIsRecent'
  BY DEF PriceIsRecent
<1> QED BY <1>1, <1>2, <1>3, <1>4, <1>5

\* A call that is answered from the cache.
LEMMA CachedKeeps == ASSUME OracleInv, NEW g \in Gets, GetCached(g) PROVE OracleInv'
<1> USE TtlAssumption, NoPriceAssumption, TimeAssumption DEF OracleInv, GetCached, Resolve, Held
<1>0. clock \in Int /\ cached.price \in Int /\ cached.at \in Int
  BY DEF PriceTypeOK, Prices, Times
<1>1. clock' \in Times /\ PriceTypeOK'
  BY DEF PriceTypeOK, Prices, Times
<1>2. PriceDated(cached)' /\ PriceDated(lastKnown)'
  BY DEF PriceDated
<1>3. \A h \in Gets : Pending(h)' /\ (asking[h] = "idle" => quoted[h] = NoPrice)'
  BY DEF Pending, PriceTypeOK
<1>4. KeptUp'
  BY DEF KeptUp
<1>5. clock - cached.price < LastKnownTtl
  BY <1>0 DEF PriceDated
<1>6. PriceIsRecent'
  BY <1>5 DEF PriceIsRecent, PriceTypeOK
<1> QED BY <1>1, <1>2, <1>3, <1>4, <1>6

\* A call that sends a request.
LEMMA FetchesKeeps == ASSUME OracleInv, NEW g \in Gets, GetFetches(g) PROVE OracleInv'
<1> USE TtlAssumption, NoPriceAssumption, TimeAssumption DEF OracleInv, GetFetches
<1>1. clock' \in Times /\ PriceTypeOK'
  BY DEF PriceTypeOK, Prices, Times
<1>2. PriceDated(cached)' /\ PriceDated(lastKnown)'
  BY DEF PriceDated
<1>3. \A h \in Gets : Pending(h)' /\ (asking[h] = "idle" => quoted[h] = NoPrice)'
  BY DEF Pending, PriceTypeOK, Times
<1>4. KeptUp' /\ PriceIsRecent'
  BY DEF KeptUp, PriceIsRecent
<1> QED BY <1>1, <1>2, <1>3, <1>4

\* The service reads its price.
LEMMA QuoteKeeps == ASSUME OracleInv, NEW g \in Gets, Quote(g) PROVE OracleInv'
<1> USE TtlAssumption, NoPriceAssumption, TimeAssumption DEF OracleInv, Quote
<1>1. clock' \in Times /\ PriceTypeOK'
  BY DEF PriceTypeOK, Prices, Times
<1>2. PriceDated(cached)' /\ PriceDated(lastKnown)'
  BY DEF PriceDated
<1>3. \A h \in Gets : Pending(h)' /\ (asking[h] = "idle" => quoted[h] = NoPrice)'
  BY DEF Pending, PriceTypeOK, Times
<1>4. KeptUp' /\ PriceIsRecent'
  BY DEF KeptUp, PriceIsRecent
<1> QED BY <1>1, <1>2, <1>3, <1>4

\* A price arrives, newer or older than the one it replaces.
LEMMA ArrivesKeeps == ASSUME OracleInv, NEW g \in Gets, PriceArrives(g) PROVE OracleInv'
<1> USE TtlAssumption, NoPriceAssumption, TimeAssumption
        DEF OracleInv, PriceArrives, Remember, Resolve, StampOf, LaterOf
<1>0. /\ clock \in Int /\ quoted[g] \in Int /\ asked[g] \in Int
      /\ asked[g] <= quoted[g] /\ quoted[g] <= clock /\ clock <= asked[g] + FetchTimeout
  BY DEF PriceTypeOK, Prices, Times, Pending
<1>1. clock' \in Times /\ PriceTypeOK'
  BY DEF PriceTypeOK, Prices, Times
<1>2. PriceDated(cached)' /\ PriceDated(lastKnown)'
  BY <1>0 DEF PriceDated
<1>3. \A h \in Gets : Pending(h)' /\ (asking[h] = "idle" => quoted[h] = NoPrice)'
  BY DEF Pending, PriceTypeOK
<1>4. KeptUp'
  BY <1>0 DEF KeptUp, PriceTypeOK, Prices, Times
<1>5. clock - quoted[g] < LastKnownTtl
  BY <1>0
<1>6. PriceIsRecent'
  BY <1>5 DEF PriceIsRecent, PriceTypeOK
<1> QED BY <1>1, <1>2, <1>3, <1>4, <1>6

\* No price arrives.
LEMMA FailsKeeps == ASSUME OracleInv, NEW g \in Gets, PriceFails(g) PROVE OracleInv'
<1> USE TtlAssumption, NoPriceAssumption, TimeAssumption DEF OracleInv, PriceFails, Resolve, Held
<1>1. clock' \in Times /\ PriceTypeOK'
  BY DEF PriceTypeOK, Prices, Times
<1>2. PriceDated(cached)' /\ PriceDated(lastKnown)'
  BY DEF PriceDated
<1>3. \A h \in Gets : Pending(h)' /\ (asking[h] = "idle" => quoted[h] = NoPrice)'
  BY DEF Pending, PriceTypeOK
<1>4. KeptUp'
  BY DEF KeptUp
<1>5. lastKnown.price # NoPrice /\ clock - lastKnown.at < LastKnownTtl =>
        clock - lastKnown.price < LastKnownTtl
  BY DEF PriceDated, PriceTypeOK, Prices, Times
<1>6. PriceIsRecent'
  BY <1>5 DEF PriceIsRecent, PriceTypeOK
<1> QED BY <1>1, <1>2, <1>3, <1>4, <1>6

\* A step that changes nothing.
LEMMA OracleStutterKeeps == ASSUME OracleInv, UNCHANGED oracleAll PROVE OracleInv'
BY DEF OracleInv, oracleAll, oracleVars, PriceTypeOK, PriceDated, Pending, KeptUp, PriceIsRecent

\* The inductive invariant.
LEMMA OracleInvariant == OracleSpec => []OracleInv
<1>1. OracleInv /\ [OracleNext]_oracleAll => OracleInv'
  BY OracleTickKeeps, CachedKeeps, FetchesKeeps, QuoteKeeps, ArrivesKeeps, FailsKeeps, OracleStutterKeeps
     DEF OracleNext
<1> QED BY OracleInitHolds, <1>1, PTL DEF OracleSpec, oracleAll

\* Every price get() gives was the market's less than lastKnownTtlMs before, in whatever
\* order answers arrive (quote.ts 143-155).
THEOREM RecentPrices == OracleSpec => []PriceIsRecent
<1>1. OracleInv => PriceIsRecent
  BY DEF OracleInv
<1> QED BY OracleInvariant, <1>1, PTL

\* The oracle's state keeps its types.
THEOREM OracleTypeCorrect == OracleSpec => []PriceTypeOK
<1>1. OracleInv => PriceTypeOK
  BY DEF OracleInv
<1> QED BY OracleInvariant, <1>1, PTL

\* A null comes only after an outage of nearly lastKnownTtlMs (quote.ts 110-111,
\* 156-160).
THEOREM OutageBehindNull == OracleSpec => NullMeansOutage
<1> DEFINE Explained(g) ==
      asking[g] = "fetching" /\ asking'[g] = "done" /\ given'[g].price = NoPrice =>
        bestAsked = NoPrice \/ clock - bestAsked >= LastKnownTtl - FetchTimeout
<1>1. ASSUME OracleInv, [OracleNext]_oracleAll, NEW g \in Gets PROVE Explained(g)
  <2> USE TtlAssumption, NoPriceAssumption
  <2> SUFFICES ASSUME asking[g] = "fetching", asking'[g] = "done", given'[g].price = NoPrice
               PROVE bestAsked = NoPrice \/ clock - bestAsked >= LastKnownTtl - FetchTimeout
    OBVIOUS
  <2>1. asking \in [Gets -> {"idle", "fetching", "done"}] /\ given \in [Gets -> [price : Prices, at : Times]]
    BY <1>1 DEF OracleInv, PriceTypeOK
  <2>2. PriceArrives(g) \/ PriceFails(g)
    BY <1>1, <2>1 DEF OracleNext, OracleTick, GetCached, GetFetches, Quote, PriceArrives,
                      PriceFails, Resolve, oracleAll, oracleVars
  <2>3. ~PriceArrives(g)
    BY <2>1 DEF PriceArrives, Resolve
  <2>4. lastKnown.price = NoPrice \/ clock - lastKnown.at >= LastKnownTtl
    BY <1>1, <2>1, <2>2, <2>3 DEF PriceFails, Resolve, Held, OracleInv, PriceTypeOK, Times
  <2> QED BY <1>1, <2>4 DEF OracleInv, KeptUp, PriceTypeOK, Prices, Times
<1>2. OracleInv /\ [OracleNext]_oracleAll => [\A g \in Gets : Explained(g)]_oracleVars
  BY <1>1
<1>3. [][OracleNext]_oracleAll /\ []OracleInv => [][\A g \in Gets : Explained(g)]_oracleVars
  BY <1>2, PTL
<1> QED BY OracleInvariant, <1>3, PTL DEF OracleSpec, NullMeansOutage, oracleAll

-----------------------------------------------------------------------------
(* Reading bytes (VaultIdl).                                               *)

BytesBefore(layout, i) == UNION {Bytes(layout, j) : j \in 1..(i - 1)}

LEMMA BytesOfOne ==
  ASSUME NEW L, NEW j, L[j].width \in Nat
  PROVE  IsFiniteSet(Bytes(L, j)) /\ Cardinality(Bytes(L, j)) = L[j].width
<1> DEFINE n == L[j].width
<1>0. n \in Nat
  OBVIOUS
<1> HIDE DEF n
<1>1. IsFiniteSet(1..n) /\ Cardinality(1..n) = n
  <2>1. IsFiniteSet(1..n) /\ Cardinality(1..n) = IF 1 > n THEN 0 ELSE n - 1 + 1
    <3>1. 1 \in Int /\ n \in Int
      BY <1>0
    <3>2. \A a, b \in Int : /\ IsFiniteSet(a..b)
                            /\ Cardinality(a..b) = IF a > b THEN 0 ELSE b - a + 1
      BY FS_Interval
    <3> QED BY <3>1, <3>2, Zenon
  <2>2. QED
    BY <1>0, <2>1
<1>2. IsFiniteSet({j}) /\ Cardinality({j}) = 1
  BY FS_Singleton
<1>3. IsFiniteSet({j} \X (1..n)) /\ Cardinality({j} \X (1..n)) = 1 * n
  BY <1>1, <1>2, FS_Product
<1>4. QED
  BY <1>0, <1>3 DEF Bytes, n

LEMMA BytesFinite ==
  ASSUME NEW L, NEW i \in Nat \ {0}, \A j \in 1..(i - 1) : L[j].width \in Nat
  PROVE  IsFiniteSet(BytesBefore(L, i)) /\ Offset(L, i) \in Nat
<1> DEFINE I == 1..(i - 1)
           f == [j \in I |-> Bytes(L, j)]
<1>1. IsFiniteSet(I)
  BY FS_Interval
<1>2. f \in Surjection(I, {Bytes(L, j) : j \in I})
  BY DEF Surjection
<1>3. IsFiniteSet({Bytes(L, j) : j \in I})
  BY <1>1, <1>2, FS_Surjection
<1>4. \A j \in I : IsFiniteSet(Bytes(L, j))
  BY BytesOfOne
<1>5. IsFiniteSet(BytesBefore(L, i))
  BY <1>3, <1>4, FS_UNION DEF BytesBefore
<1>6. QED
  BY <1>5, FS_CardinalityType DEF Offset, BytesBefore

\* A field ends where the next begins.
LEMMA OffsetStep ==
  ASSUME NEW L, NEW i \in Nat \ {0}, \A j \in 1..i : L[j].width \in Nat
  PROVE  Offset(L, i + 1) = Offset(L, i) + L[i].width
<1> DEFINE B == BytesBefore(L, i)
           V == Bytes(L, i)
<1>1. IsFiniteSet(B) /\ Cardinality(B) \in Nat
  BY BytesFinite, FS_CardinalityType
<1>2. i \in 1..i /\ IsFiniteSet(V) /\ Cardinality(V) = L[i].width
  BY BytesOfOne
<1>3. B \cap V = {}
  BY DEF BytesBefore, Bytes
<1>4. BytesBefore(L, i + 1) = B \cup V
  <2>1. 1..(i + 1 - 1) = (1..(i - 1)) \cup {i}
    OBVIOUS
  <2>2. QED
    BY <2>1 DEF BytesBefore
<1>5. Cardinality(B \cap V) = 0
  BY <1>3, FS_EmptySet
<1>6. Offset(L, i) = Cardinality(B) /\ Offset(L, i + 1) = Cardinality(B \cup V)
  BY <1>4 DEF Offset, BytesBefore
<1> HIDE DEF B, V
<1>7. Cardinality(B \cup V) = Cardinality(B) + Cardinality(V) - Cardinality(B \cap V)
  BY <1>1, <1>2, FS_Union
<1>8. QED
  BY <1>1, <1>2, <1>5, <1>6, <1>7

\* Fields follow each other in order.
LEMMA OffsetsInOrder ==
  ASSUME NEW L, NEW i \in Nat \ {0}, NEW j \in Nat, i < j, \A k \in 1..(j - 1) : L[k].width \in Nat
  PROVE  Offset(L, i) + L[i].width <= Offset(L, j)
<1>1. Offset(L, i + 1) = Offset(L, i) + L[i].width
  BY OffsetStep
<1>2. BytesBefore(L, i + 1) \subseteq BytesBefore(L, j)
  BY DEF BytesBefore
<1>3. IsFiniteSet(BytesBefore(L, j))
  BY BytesFinite
<1>4. Cardinality(BytesBefore(L, i + 1)) <= Cardinality(BytesBefore(L, j))
  BY <1>2, <1>3, FS_Subset
<1>5. QED
  BY <1>1, <1>4 DEF Offset, BytesBefore

\* An offset depends only on the fields before it.
LEMMA OffsetOfPrefix ==
  ASSUME NEW R, NEW W, NEW i \in Nat, \A j \in 1..(i - 1) : R[j] = W[j]
  PROVE  Offset(R, i) = Offset(W, i)
<1>1. \A j \in 1..(i - 1) : Bytes(R, j) = Bytes(W, j)
  BY DEF Bytes
<1>2. UNION {Bytes(R, j) : j \in 1..(i - 1)} = UNION {Bytes(W, j) : j \in 1..(i - 1)}
  BY <1>1
<1>3. QED
  BY <1>2 DEF Offset

\* A layout: fields with different names, and bytes.
Layout(L) ==
  /\ \E n \in Nat : DOMAIN L = 1..n
  /\ \A j \in DOMAIN L : L[j].width \in Nat \ {0}
  /\ \A p, q \in DOMAIN L : L[p].name = L[q].name => p = q

StartAlike(R, W, k) ==
  /\ Layout(R) /\ Layout(W)
  /\ 1..k \subseteq DOMAIN R /\ 1..k \subseteq DOMAIN W
  /\ \A j \in 1..k : R[j] = W[j]

\* The fields two layouts begin with are read as they were written.
LEMMA PrefixAligned ==
  ASSUME NEW R, NEW W, NEW k \in Nat, StartAlike(R, W, k), NEW i \in 1..k
  PROVE  Alignment(R, W)[R[i].name] = [fields |-> {R[i].name}, exact |-> TRUE]
<1> DEFINE name == R[i].name
           touched(h) == {j \in DOMAIN W : /\ Offset(W, j) < Offset(R, h) + R[h].width
                                       /\ Offset(R, h) < Offset(W, j) + W[j].width}
<1>0. PICK n \in Nat, m \in Nat : DOMAIN R = 1..n /\ DOMAIN W = 1..m
  BY DEF StartAlike, Layout
<1>a. /\ \A j \in 1..k : R[j] = W[j] /\ j \in DOMAIN R /\ j \in DOMAIN W
      /\ \A j \in DOMAIN W : W[j].width \in Nat \ {0} /\ j \in Nat
      /\ \A p, q \in DOMAIN R : R[p].name = R[q].name => p = q
  BY <1>0 DEF StartAlike, Layout
<1>1. (CHOOSE h \in DOMAIN R : R[h].name = name) = i
  <2>1. i \in DOMAIN R /\ \A h \in DOMAIN R : R[h].name = name => h = i
    BY <1>a
  <2>2. QED
    BY <2>1
<1>2. Offset(R, i) = Offset(W, i) /\ R[i] = W[i] /\ W[i].width \in Nat \ {0}
  BY <1>a, OffsetOfPrefix
<1>3. \A j \in DOMAIN W : Offset(W, j) \in Nat
  BY <1>0, <1>a, BytesFinite
<1>4. i \in DOMAIN W /\ i \in touched(i)
  BY <1>2, <1>3, <1>a
<1>5. ASSUME NEW j \in DOMAIN W, j # i PROVE j \notin touched(i)
  <2>1. CASE j < i
    <3>0. j \in Nat \ {0} /\ i \in Nat /\ \A h \in 1..(i - 1) : W[h].width \in Nat
      BY <1>0, <1>4, <1>a
    <3>1. Offset(W, j) + W[j].width <= Offset(W, i)
      BY <2>1, <3>0, OffsetsInOrder
    <3>2. QED
      BY <3>1, <1>2, <1>3, <1>4, <1>a
  <2>2. CASE j > i
    <3>0. i \in Nat \ {0} /\ j \in Nat /\ \A h \in 1..(j - 1) : W[h].width \in Nat
      BY <1>0, <1>4, <1>a
    <3>1. Offset(W, i) + W[i].width <= Offset(W, j)
      BY <2>2, <3>0, OffsetsInOrder
    <3>2. QED
      BY <3>1, <1>2, <1>3, <1>4, <1>a
  <2>3. QED
    BY <2>1, <2>2, <1>0, <1>4, <1>5
<1>6. touched(i) = {i}
  BY <1>4, <1>5
<1>7. name \in {R[h].name : h \in DOMAIN R}
  BY <1>a
<1>8. Alignment(R, W)[name]
        = [fields |-> {W[j].name : j \in touched(i)},
           exact |-> \E j \in touched(i) : Offset(W, j) = Offset(R, i) /\ W[j].width = R[i].width]
  BY <1>1, <1>7, Zenon DEF Alignment
<1>9. {W[j].name : j \in {i}} = {name}
  BY <1>2
<1>10. (\E j \in {i} : Offset(W, j) = Offset(R, i) /\ W[j].width = R[i].width) = TRUE
  BY <1>2
<1> HIDE DEF touched
<1>11. QED
  BY <1>6, <1>8, <1>9, <1>10

\* So the reader gets what was written in them.
LEMMA DecodePrefix ==
  ASSUME NEW R, NEW W, NEW k \in Nat, StartAlike(R, W, k), NEW i \in 1..k, NEW value
  PROVE  Decode(Alignment(R, W), value)[R[i].name] = value[R[i].name]
<1> DEFINE A == Alignment(R, W)
           name == R[i].name
<1>1. A[name] = [fields |-> {name}, exact |-> TRUE]
  BY PrefixAligned
<1>2. name \in DOMAIN A
  BY DEF Alignment, StartAlike
<1>3. (CHOOSE f \in {name} : TRUE) = name
  OBVIOUS
<1> HIDE DEF A, name
<1>4. A[name].exact = TRUE /\ A[name].fields = {name}
  BY <1>1
<1>5. Decode(A, value)[name] = value[name]
  BY <1>2, <1>3, <1>4 DEF Decode
<1>6. QED
  BY <1>5 DEF A, name

\* Reader and writer with one layout understand each other.
LEMMA DecodeOwn ==
  ASSUME NEW L, Layout(L), NEW value, DOMAIN value = {L[i].name : i \in DOMAIN L},
         value = [name \in DOMAIN value |-> value[name]]
  PROVE  Decode(Alignment(L, L), value) = value
<1> DEFINE A == Alignment(L, L)
<1>0. PICK n \in Nat : DOMAIN L = 1..n
  BY DEF Layout
<1>1. DOMAIN A = DOMAIN value
  BY DEF Alignment
<1>2. StartAlike(L, L, n)
  BY <1>0 DEF StartAlike
<1>3. \A i \in 1..n : Decode(A, value)[L[i].name] = value[L[i].name]
  BY <1>2, DecodePrefix
<1>4. \A name \in DOMAIN value : Decode(A, value)[name] = value[name]
  BY <1>0, <1>3
<1>5. Decode(A, value) = [name \in DOMAIN A |-> Decode(A, value)[name]]
  BY DEF Decode
<1> HIDE DEF A
<1>6. QED
  BY <1>1, <1>4, <1>5 DEF A

\* The terminal writes the arguments the program reads.
LEMMA SameLayouts == IdlArgs = CliArgs
BY DEF IdlArgs, CliArgs, InitVaultIx, DepositIx, WithdrawIx, UpdateConfigIx, SetDelegateIx,
       SetRoutesIx, SetRuleIx, CloseVaultIx, Instruction, U8, Bool

LEMMA ArgumentsArrive ==
  ASSUME NEW ix \in DOMAIN CliArgs, NEW args \in Asks(ix)
  PROVE  Decode(ArgViews[ix], args) = args
<1> DEFINE L == CliArgs[ix]
<1>1. ArgViews[ix] = Alignment(L, L)
  BY SameLayouts DEF ArgViews
<1>2. Layout(L) /\ DOMAIN args = {L[i].name : i \in DOMAIN L}
                /\ args = [name \in DOMAIN args |-> args[name]]
  <2>1. CASE ix = "init_vault"
    BY <2>1 DEF CliArgs, Asks, Layout, Bytes32, Pubkey, U64, Field
  <2>2. CASE ix = "set_delegate"
    BY <2>2 DEF CliArgs, Asks, Layout, Pubkey, Field
  <2>3. CASE ix = "deposit"
    BY <2>3 DEF CliArgs, Asks, Layout, U64, Field
  <2>a. CASE ix = "withdraw"
    BY <2>a DEF CliArgs, Asks, Layout, U64, Field
  <2>4. CASE ix = "set_routes"
    BY <2>4 DEF CliArgs, Asks, Layout, Pubkey, Field
  <2>5. CASE ix = "set_rule"
    BY <2>5 DEF CliArgs, Asks, Layout, Bytes32, Pubkey, U8, I64, U16, Field
  <2>6. CASE ix = "update_config"
    BY <2>6 DEF CliArgs, Asks, Layout, U64, U8, Field
  <2>7. CASE ix = "close_vault"
    BY <2>7 DEF CliArgs, Asks, Layout
  <2>8. QED
    BY <2>1, <2>2, <2>3, <2>a, <2>4, <2>5, <2>6, <2>7 DEF CliArgs
<1>3. QED
  BY <1>1, <1>2, DecodeOwn

\* The terminal finds the caps where the program keeps them.
LEMMA CapsRead ==
  ASSUME vault \in Vaults
  PROVE  Fetched.maxTrade = vault.caps /\ Fetched.dailyLimit = vault.caps
<1>1. StartAlike(CliStruct, VaultStruct, 5)
  <2>1. Layout(CliStruct)
    BY DEF Layout, CliStruct, Pubkey, Bytes32, U64, I64, U16, U8, Bool, Field
  <2>2. Layout(VaultStruct)
    BY DEF Layout, VaultStruct, Pubkey, Bytes32, U64, I64, U16, U8, Bool, Field
  <2>3. QED
    BY <2>1, <2>2 DEF StartAlike, CliStruct, VaultStruct
<1>2. CliStruct[4].name = "maxTrade" /\ CliStruct[5].name = "dailyLimit"
  BY DEF CliStruct, U64, Field
<1>3. /\ Decode(CliView, Contents(vault))["maxTrade"] = Contents(vault)["maxTrade"]
      /\ Decode(CliView, Contents(vault))["dailyLimit"] = Contents(vault)["dailyLimit"]
  BY <1>1, <1>2, DecodePrefix DEF CliView
<1>4. Contents(vault).maxTrade = vault.caps /\ Contents(vault).dailyLimit = vault.caps
  BY DEF Contents
<1>5. QED
  BY <1>3, <1>4 DEF Fetched

-----------------------------------------------------------------------------
(* What a transaction does to the chain.                                   *)

\* The vault keeps its key and its caps.
Untouched ==
  /\ vault'.exists = vault.exists
  /\ vault.exists => vault'.delegate = vault.delegate /\ vault'.caps = vault.caps

Effect(tx) ==
  /\ tx.ix = "init_vault" =>
       ~vault.exists /\ vault'.exists /\ vault'.delegate = TxKey(tx) /\ vault'.sol = 0
  /\ tx.ix = "set_delegate" =>
       vault.exists /\ vault'.exists /\ vault'.delegate = TxKey(tx)
       /\ vault'.caps = vault.caps /\ vault'.sol = vault.sol
  /\ tx.ix = "update_config" =>
       vault.exists /\ vault'.exists /\ vault'.delegate = vault.delegate /\ vault'.caps = tx.arg.maxTrade
  /\ tx.ix = "close_vault" => ~vault'.exists
  /\ tx.ix \notin {"init_vault", "set_delegate", "update_config", "close_vault"} => Untouched
  /\ tx.ix = "trade" => vault.exists /\ tx.signer = vault.delegate /\ vault' = vault

LEMMA VaultIsThere ==
  ASSUME ChainTypeOK
  PROVE  vault.exists \in BOOLEAN /\ (vault.exists => vault \in Vaults)
<1>1. CASE vault = NoVault
  <2>1. vault.exists = FALSE
    BY <1>1 DEF NoVault
  <2>2. QED
    BY <2>1
<1>2. CASE vault \in Vaults
  <2>1. vault.exists = TRUE
    BY <1>2 DEF Vaults
  <2>2. QED
    BY <1>2, <2>1
<1>3. QED
  BY <1>1, <1>2 DEF ChainTypeOK

LEMMA Effects ==
  ASSUME ChainTypeOK, NetInOrder, NEW tx \in net, Runs(tx)
  PROVE  ChainTypeOK' /\ Effect(tx)
<1> USE ChainAssumption, OwnerSideAssumption
<1>1. FromTerminal(tx) \/ FromScript(tx) \/ FromHost(tx)
  BY DEF NetInOrder
<1>2. vault.exists \in BOOLEAN /\ (vault.exists => vault \in Vaults)
  BY VaultIsThere
<1>3. CASE tx.ix = "init_vault" /\ InitVault(tx.signer, tx.arg)
  <2>1. tx.arg \in Asks("init_vault")
    BY <1>1, <1>3 DEF FromTerminal, FromScript, FromHost
  <2>2. tx.arg.delegate \in 1..MaxKeys /\ tx.arg.maxTrade \in Caps
    BY <2>1 DEF Asks
  <2>3. QED
    BY <1>3, <2>2 DEF InitVault, ChainTypeOK, Vaults, Effect, TxKey, Brought
<1>4. CASE tx.ix = "deposit" /\ Deposit(tx.signer, tx.arg)
  <2>1. tx.arg \in [amount : {1}]
    BY <1>1, <1>4 DEF FromTerminal, FromScript, FromHost, Asks
  <2>2. vault \in Vaults /\ vault' = [vault EXCEPT !.sol = @ + 1] /\ vault.sol + 1 <= MaxCash /\ cash' = cash
    BY <1>2, <1>4, <2>1 DEF Deposit, Authorised
  <2>a. vault.sol \in 0..MaxCash /\ vault.sol + 1 \in 0..MaxCash
    BY <2>2 DEF Vaults
  <2>3. vault' \in Vaults
    BY <2>2, <2>a DEF Vaults
  <2>4. QED
    BY <1>4, <2>2, <2>3 DEF ChainTypeOK, Vaults, Effect, Untouched
<1>5. CASE tx.ix = "withdraw" /\ Withdraw(tx.signer, tx.arg)
  <2>1. tx.arg \in [amount : {1}]
    BY <1>1, <1>5 DEF FromTerminal, FromScript, FromHost, Asks
  <2>2. vault \in Vaults /\ vault' = [vault EXCEPT !.sol = @ - 1] /\ 1 <= vault.sol /\ cash' = cash
    BY <1>2, <1>5, <2>1 DEF Withdraw, Authorised
  <2>a. vault.sol \in 0..MaxCash /\ vault.sol - 1 \in 0..MaxCash
    BY <2>2 DEF Vaults
  <2>3. vault' \in Vaults
    BY <2>2, <2>a DEF Vaults
  <2>4. QED
    BY <1>5, <2>2, <2>3 DEF ChainTypeOK, Vaults, Effect, Untouched
<1>6. CASE tx.ix = "set_delegate" /\ SetDelegate(tx.signer, tx.arg)
  <2>1. tx.arg \in [newDelegate : 1..MaxKeys]
    BY <1>1, <1>6 DEF FromTerminal, FromScript, FromHost, Asks
  <2>2. QED
    BY <1>2, <1>6, <2>1 DEF SetDelegate, Authorised, ChainTypeOK, Vaults, Effect, TxKey, Brought
<1>7. CASE tx.ix = "update_config" /\ UpdateConfig(tx.signer, tx.arg)
  <2>1. tx.arg \in Asks("update_config")
    BY <1>1, <1>7 DEF FromTerminal, FromScript, FromHost
  <2>2. tx.arg.maxTrade \in Caps /\ tx.arg.paused \in 0..1
    BY <2>1 DEF Asks
  <2>3. QED
    BY <1>2, <1>7, <2>2 DEF UpdateConfig, Authorised, ChainTypeOK, Vaults, Effect
<1>8. CASE tx.ix = "set_routes" /\ SetRoutes(tx.signer, tx.arg)
  <2>1. tx.arg \in [length : 0..1, program : 0..1]
    BY <1>1, <1>8 DEF FromTerminal, FromScript, FromHost, Asks
  <2>2. QED
    BY <1>2, <1>8, <2>1 DEF SetRoutes, Authorised, ChainTypeOK, Vaults, Effect, Untouched
<1>9. CASE tx.ix = "set_rule" /\ SetRule(tx.signer, tx.arg)
  <2>1. tx.arg \in Asks("set_rule")
    BY <1>1, <1>9 DEF FromTerminal, FromScript, FromHost
  <2>2. tx.arg.op \in 0..1 /\ tx.arg.maxSlippageBps \in 0..1
    BY <2>1 DEF Asks
  <2>3. QED
    BY <1>2, <1>9, <2>2 DEF SetRule, Authorised, ChainTypeOK, Vaults, Effect, Untouched
<1>10. CASE tx.ix = "close_vault" /\ CloseVault(tx.signer)
  BY <1>10 DEF CloseVault, ChainTypeOK, NoVault, Effect
<1>11. CASE tx.ix = "wrap_sol" /\ WrapSol(tx.signer, tx.arg)
  <2>1. tx.arg \in [amount : {1}]
    BY <1>1, <1>11 DEF FromTerminal, FromScript, FromHost, CliArgs
  <2>2. QED
    BY <1>2, <1>11, <2>1 DEF WrapSol, ChainTypeOK, Effect, Untouched
<1>12. CASE tx.ix = "unwrap_sol" /\ UnwrapSol(tx.signer)
  <2>1. /\ vault \in Vaults /\ vault.sol + cash.wsol <= MaxCash
        /\ vault' = [vault EXCEPT !.sol = @ + cash.wsol] /\ cash' = [cash EXCEPT !.wsol = 0]
    BY <1>2, <1>12 DEF UnwrapSol, Authorised
  <2>2. cash.wsol \in 0..MaxCash /\ cash' \in [{"wsol", "token"} -> 0..MaxCash]
    BY <2>1 DEF ChainTypeOK
  <2>3. vault.sol \in 0..MaxCash /\ vault.sol + cash.wsol \in 0..MaxCash
    BY <2>1, <2>2 DEF Vaults
  <2>4. vault' \in Vaults
    BY <2>1, <2>3 DEF Vaults
  <2>5. QED
    BY <1>12, <2>1, <2>2, <2>4 DEF ChainTypeOK, Vaults, Effect, Untouched
<1>13. CASE tx.ix = "trade" /\ Trade(tx.signer, tx.arg)
  <2>1. tx.arg.from \in {"wsol", "token"} /\ tx.arg.to \in {"wsol", "token"} /\ tx.arg.amountIn \in 1..2 /\ tx.arg.minOut = 1
    BY <1>1, <1>13 DEF FromTerminal, FromScript, FromHost, CliArgs
  <2>2. PICK spent \in 1..tx.arg.amountIn, received \in tx.arg.minOut..MaxCash :
          /\ spent <= cash[tx.arg.from]
          /\ cash[tx.arg.to] + received <= MaxCash
          /\ cash' = [cash EXCEPT ![tx.arg.from] = @ - spent, ![tx.arg.to] = @ + received]
    BY <1>13 DEF Trade
  <2>3. cash' \in [{"wsol", "token"} -> 0..MaxCash]
    BY <2>1, <2>2 DEF ChainTypeOK
  <2>4. vault' = vault /\ vault.exists /\ tx.signer = vault.delegate
    BY <1>13 DEF Trade, Authorised, TradeIx, Instruction
  <2>5. QED
    BY <1>13, <2>3, <2>4 DEF ChainTypeOK, Effect, Untouched
<1>14. QED
  BY <1>3, <1>4, <1>5, <1>6, <1>7, <1>8, <1>9, <1>10, <1>11, <1>12, <1>13 DEF Runs

-----------------------------------------------------------------------------
(* The invariant of the vault's owner, action by action.                   *)

LEMMA VaultInit ==
  ASSUME Init
  PROVE  VaultInv
<1> USE ChainAssumption, OwnerSideAssumption DEF Init
<1>1. TypeOK
  <2>1. IdleJob \in [ix : DOMAIN CliArgs \cup {"none"}, asked : Asked, id : 0..MaxCommands, held : 0..MaxKeys]
    <3>1. <<>> \in Asked
      BY DEF Asked, Asks, CliArgs
    <3>2. QED
      BY <3>1 DEF IdleJob
  <2>2. ChainTypeOK
    BY DEF ChainInit, ChainTypeOK
  <2>3. job \in [Terminals -> [ix : DOMAIN CliArgs \cup {"none"}, asked : Asked, id : 0..MaxCommands, held : 0..MaxKeys]]
    BY <2>1
  <2>4. at \in [Terminals -> {"idle", "reading", "sending", "waiting", "recording"}]
        /\ answer \in [Terminals -> {"none", "landed", "failed"}]
        /\ host \in [key : 0..MaxKeys, waiting : BOOLEAN]
    OBVIOUS
  <2>5. onFile \in 0..MaxKeys /\ made \in 0..MaxKeys /\ commands \in 0..MaxCommands
    OBVIOUS
  <2>6. crossed \in BOOLEAN /\ astray \in BOOLEAN /\ net = {} /\ outdated = {} /\ retired = {}
        /\ torn \in BOOLEAN
    BY Zenon
  <2>7. QED
    BY <2>2, <2>3, <2>4, <2>5, <2>6, Zenon DEF TypeOK
<1>2. ~vault.exists
  BY DEF ChainInit, NoVault
<1>3. \A t \in Terminals : at[t] = "idle" /\ job[t].id = 0 /\ job[t].held = 0
  BY DEF IdleJob
<1>4. JobsInOrder /\ NetInOrder
  BY <1>3 DEF JobsInOrder, NetInOrder
<1>5. KeysAreNew /\ KeysAreMade
  BY <1>2, <1>3 DEF KeysAreNew, KeysAreMade, Brings
<1>6. RetiredIsGone /\ ReadIsCurrent
  BY <1>2, <1>3 DEF RetiredIsGone, ReadIsCurrent
<1>7. QED
  BY <1>1, <1>4, <1>5, <1>6 DEF VaultInv

\* What a command is when it begins: complete, unless it has to read the vault first, and with
\* a new key when it brings one.
Sound(ix, args, stage) ==
  /\ \/ stage = "reading" /\ ix = "update_config" /\ args \in [paused : 0..1]
     \/ stage = "sending" /\ ix \in DOMAIN CliArgs \ {"update_config"} /\ args \in Asks(ix)
  /\ IF ix \in KeyCommands
     THEN made' = made + 1 /\ made' <= MaxKeys /\ Brought(ix, args) = made'
     ELSE made' = made
  /\ ix = "set_delegate" => onFile # 0

LEMMA BeginKeeps ==
  ASSUME VaultInv, NEW t \in Terminals, NEW ix, NEW args, NEW stage,
         Begin(t, ix, args, stage), Sound(ix, args, stage)
  PROVE  VaultInv'
<1> USE ChainAssumption, OwnerSideAssumption
<1>0. TypeOK /\ JobsInOrder /\ NetInOrder /\ KeysAreNew /\ KeysAreMade /\ RetiredIsGone /\ ReadIsCurrent
  BY DEF VaultInv
<1>1. /\ job'[t] = [ix |-> ix, asked |-> args, id |-> commands + 1, held |-> onFile]
      /\ at[t] = "idle" /\ at'[t] = stage /\ answer'[t] = "none"
      /\ \A u \in Terminals : u # t => job'[u] = job[u] /\ at'[u] = at[u] /\ answer'[u] = answer[u]
  BY <1>0 DEF TypeOK, Begin, Goto
<1>2. /\ commands' = commands + 1 /\ commands' <= MaxCommands /\ commands \in Nat
      /\ UNCHANGED <<vault, cash, onFile, net, host, outdated, astray, retired, torn>>
  BY <1>0 DEF Begin, TypeOK, ChainStays, chainVars, history
<1>3. stage \in {"reading", "sending"} /\ ix \in DOMAIN CliArgs /\ args \in Asked
  <2>1. CASE stage = "reading" /\ ix = "update_config" /\ args \in [paused : 0..1]
    <3>1. "update_config" \in DOMAIN CliArgs
      BY DEF CliArgs
    <3>2. QED
      BY <2>1, <3>1 DEF Asked
  <2>2. CASE stage = "sending" /\ ix \in DOMAIN CliArgs /\ args \in Asks(ix)
    BY <2>2 DEF Asked
  <2>3. QED
    BY <2>1, <2>2 DEF Sound
<1>4. made' \in 0..MaxKeys /\ made <= made' /\ made \in Nat
  BY <1>0 DEF Sound, TypeOK
<1>5. TypeOK'
  <2>1. job' \in [Terminals -> [ix : DOMAIN CliArgs \cup {"none"}, asked : Asked, id : 0..MaxCommands, held : 0..MaxKeys]]
    <3>1. job'[t] \in [ix : DOMAIN CliArgs \cup {"none"}, asked : Asked, id : 0..MaxCommands, held : 0..MaxKeys]
      BY <1>0, <1>1, <1>2, <1>3 DEF TypeOK
    <3>2. QED
      BY <1>0, <1>1, <3>1 DEF TypeOK, Begin
  <2>2. at' \in [Terminals -> {"idle", "reading", "sending", "waiting", "recording"}]
        /\ answer' \in [Terminals -> {"none", "landed", "failed"}] /\ crossed' \in BOOLEAN
    BY <1>0, <1>3 DEF TypeOK, Begin, Goto, OwnerBusy
  <2>3. QED
    BY <1>0, <1>2, <1>4, <2>1, <2>2 DEF TypeOK, ChainTypeOK
<1>6. JobsInOrder'
  <2>1. \A u \in Terminals : job[u].id \in Nat
    BY <1>0 DEF TypeOK
  <2>2. QED
    BY <1>0, <1>1, <1>2, <1>3, <2>1 DEF JobsInOrder, Sound
<1>7. \A tx \in net, u \in Terminals : IsOf(tx, u)' <=> u # t /\ IsOf(tx, u)
  <2>1. \A tx \in net : tx.from = t => tx.id \in 1..commands
    BY <1>0 DEF NetInOrder, FromTerminal, FromScript, FromHost
  <2>2. QED
    BY <1>1, <1>2, <2>1 DEF IsOf
<1>8. NetInOrder'
  <2>1. \A tx \in net : FromTerminal(tx) => FromTerminal(tx)'
    BY <1>2 DEF FromTerminal
  <2>2. \A tx \in net : (FromScript(tx) => FromScript(tx)') /\ (FromHost(tx) => FromHost(tx)')
    BY DEF FromScript, FromHost
  <2>3. QED
    BY <1>0, <1>1, <1>2, <1>7, <2>1, <2>2 DEF NetInOrder
<1>9. ix \in KeyCommands => JobKey(t)' = made' /\ made' = made + 1
  BY <1>1 DEF JobKey, Sound
<1>10. \A u \in Terminals : u # t => JobKey(u)' = JobKey(u) /\ (Brings(u)' <=> Brings(u))
  BY <1>1 DEF JobKey, Brings
<1>11. KeysAreMade'
  BY <1>0, <1>1, <1>2, <1>4, <1>9, <1>10 DEF KeysAreMade, TypeOK
<1>12. \A key : Unused(key) /\ key # onFile => Unused(key)'
  BY <1>1, <1>2, <1>10 DEF Unused
<1>13. ix \in KeyCommands => \A key : key = made' => Unused(key)'
  BY <1>0, <1>1, <1>2, <1>4, <1>9, <1>10 DEF Unused, KeysAreMade, TypeOK
<1>14. KeysAreNew'
  <2>1. \A u \in Terminals : Brings(u) => JobKey(u) \in 1..made /\ JobKey(u) # onFile
    BY <1>0 DEF KeysAreNew, KeysAreMade, Unused, Brings
  <2>2. \A tx \in net : tx.ix \in KeyCommands => TxKey(tx) \in 1..made /\ TxKey(tx) # onFile
    BY <1>0 DEF KeysAreNew, KeysAreMade, Unused
  <2>3. \A u \in Terminals : Brings(u)' => Unused(JobKey(u))' /\ (Brings(u) \/ (u = t /\ JobKey(u)' = made + 1))
    BY <1>0, <1>1, <1>9, <1>10, <1>12, <1>13, <2>1 DEF KeysAreNew, Brings
  <2>4. \A tx \in net : tx.ix \in KeyCommands => Unused(TxKey(tx))'
    BY <1>0, <1>12, <2>2 DEF KeysAreNew
  <2>5. ~Brings(t)
    BY <1>1 DEF Brings
  <2>6. QED
    BY <1>0, <1>2, <1>4, <1>10, <2>1, <2>2, <2>3, <2>4, <2>5 DEF KeysAreNew
<1>15. RetiredIsGone' /\ ReadIsCurrent'
  BY <1>0, <1>1, <1>2, <1>7 DEF RetiredIsGone, ReadIsCurrent, Sound
<1>16. QED
  BY <1>5, <1>6, <1>8, <1>11, <1>14, <1>15 DEF VaultInv

LEMMA CommandsBegin ==
  ASSUME VaultInv, NEW t \in Terminals, BeginCreate(t) \/ BeginRotate(t) \/ BeginOther(t)
  PROVE  VaultInv'
<1> USE ChainAssumption, OwnerSideAssumption
<1>0. made \in 0..MaxKeys
  BY DEF VaultInv, TypeOK
<1>1. CASE BeginCreate(t)
  <2>1. PICK caps \in Caps :
          Begin(t, "init_vault",
                [agentSeed |-> Filled, delegate |-> made', maxTrade |-> caps, dailyLimit |-> caps], "sending")
    BY <1>1 DEF BeginCreate
  <2>2. made' = made + 1 /\ made' \in 1..MaxKeys
    BY <1>0, <1>1 DEF BeginCreate
  <2> DEFINE args == [agentSeed |-> Filled, delegate |-> made', maxTrade |-> caps, dailyLimit |-> caps]
  <2>3. args \in Asks("init_vault")
    BY <2>2 DEF Asks
  <2>4. Brought("init_vault", args) = made'
    BY DEF Brought
  <2> HIDE DEF args
  <2>5. Sound("init_vault", args, "sending")
    BY <2>2, <2>3, <2>4 DEF Sound, KeyCommands, CliArgs
  <2>6. Begin(t, "init_vault", args, "sending")
    BY <2>1 DEF args
  <2>7. QED
    BY <2>5, <2>6, BeginKeeps
<1>2. CASE BeginRotate(t)
  <2>1. Begin(t, "set_delegate", [newDelegate |-> made'], "sending") /\ onFile # 0
    BY <1>2 DEF BeginRotate
  <2>2. made' = made + 1 /\ made' \in 1..MaxKeys
    BY <1>0, <1>2 DEF BeginRotate
  <2> DEFINE args == [newDelegate |-> made']
  <2>3. args \in Asks("set_delegate")
    BY <2>2 DEF Asks
  <2>4. Brought("set_delegate", args) = made'
    BY DEF Brought
  <2> HIDE DEF args
  <2>5. Sound("set_delegate", args, "sending")
    BY <2>1, <2>2, <2>3, <2>4 DEF Sound, KeyCommands, CliArgs
  <2>6. Begin(t, "set_delegate", args, "sending")
    BY <2>1 DEF args
  <2>7. QED
    BY <2>5, <2>6, BeginKeeps
<1>3. CASE BeginOther(t)
  <2>0. made' = made
    BY <1>3 DEF BeginOther
  <2>1. ASSUME NEW ix \in DOMAIN CliArgs \ {"init_vault", "set_delegate", "update_config"}, NEW args \in Asks(ix),
               Begin(t, ix, args, "sending")
        PROVE  VaultInv'
    <3>1. Sound(ix, args, "sending")
      BY <2>0 DEF Sound, KeyCommands
    <3>2. QED
      BY <2>1, <3>1, BeginKeeps
  <2>2. ASSUME NEW paused \in 0..1, Begin(t, "update_config", [paused |-> paused], "reading")
        PROVE  VaultInv'
    <3>1. Sound("update_config", [paused |-> paused], "reading")
      BY <2>0 DEF Sound, KeyCommands
    <3>2. QED
      BY <2>2, <3>1, BeginKeeps
  <2>3. {"deposit", "withdraw", "set_routes", "set_rule", "close_vault"}
          \subseteq DOMAIN CliArgs \ {"init_vault", "set_delegate", "update_config"}
    BY DEF CliArgs
  <2>4. CASE Begin(t, "deposit", [amount |-> 1], "sending")
    <3>1. [amount |-> 1] \in Asks("deposit")
      BY DEF Asks
    <3>2. QED
      BY <2>1, <2>3, <2>4, <3>1
  <2>5. CASE Begin(t, "withdraw", [amount |-> 1], "sending")
    <3>1. [amount |-> 1] \in Asks("withdraw")
      BY DEF Asks
    <3>2. QED
      BY <2>1, <2>3, <2>5, <3>1
  <2>6. ASSUME NEW n \in 0..1, Begin(t, "set_routes", [length |-> n, program |-> n], "sending")
        PROVE  VaultInv'
    <3>1. [length |-> n, program |-> n] \in Asks("set_routes")
      BY DEF Asks
    <3>2. QED
      BY <2>1, <2>3, <2>6, <3>1
  <2>7. ASSUME NEW on \in 0..1, NEW floor \in 0..1,
               Begin(t, "set_rule",
                     [oracle |-> on, feed |-> on, op |-> on, threshold |-> on, maxAge |-> on,
                      inMint |-> on, outMint |-> on, maxSlippageBps |-> floor], "sending")
        PROVE  VaultInv'
    <3> DEFINE args == [oracle |-> on, feed |-> on, op |-> on, threshold |-> on, maxAge |-> on,
                         inMint |-> on, outMint |-> on, maxSlippageBps |-> floor]
    <3>1. args \in Asks("set_rule")
      BY DEF Asks
    <3> HIDE DEF args
    <3>2. Begin(t, "set_rule", args, "sending")
      BY <2>7 DEF args
    <3>3. QED
      BY <2>1, <2>3, <3>1, <3>2
  <2>8. CASE Begin(t, "close_vault", <<>>, "sending")
    <3>1. <<>> \in Asks("close_vault")
      BY DEF Asks
    <3>2. QED
      BY <2>1, <2>3, <2>8, <3>1
  <2>9. QED
    BY <1>3, <2>2, <2>4, <2>5, <2>6, <2>7, <2>8, Zenon DEF BeginOther
<1>4. QED
  BY <1>1, <1>2, <1>3

\* A command that only goes on, or stops.
LEMMA StageKeeps ==
  ASSUME VaultInv, NEW t \in Terminals, NEW from \in {"reading", "waiting", "recording"}, NEW to,
         Goto(t, from, to),
         \/ to = "idle"
         \/ to = "recording" /\ from = "waiting" /\ answer[t] = "landed" /\ job[t].ix \in FileCommands,
         UNCHANGED <<vault, cash, onFile, job, answer, net, host, made, commands, outdated, retired>>,
         crossed' \in BOOLEAN, astray' \in BOOLEAN, torn' \in BOOLEAN
  PROVE  VaultInv'
<1> USE ChainAssumption, OwnerSideAssumption
<1>0. TypeOK /\ JobsInOrder /\ NetInOrder /\ KeysAreNew /\ KeysAreMade /\ RetiredIsGone /\ ReadIsCurrent
  BY DEF VaultInv
<1>1. /\ at[t] = from /\ at'[t] = to
      /\ \A u \in Terminals : u # t => at'[u] = at[u]
      /\ at' \in [Terminals -> {"idle", "reading", "sending", "waiting", "recording"}]
  BY <1>0 DEF TypeOK, Goto
<1>2. TypeOK'
  BY <1>0, <1>1 DEF TypeOK, ChainTypeOK
<1>3. JobsInOrder'
  BY <1>0, <1>1 DEF JobsInOrder
<1>4. NetInOrder'
  <2>1. \A tx \in net : (FromTerminal(tx) <=> FromTerminal(tx)') /\ (FromScript(tx) <=> FromScript(tx)')
                        /\ (FromHost(tx) <=> FromHost(tx)')
    BY DEF FromTerminal, FromScript, FromHost
  <2>2. \A tx \in net, u \in Terminals : IsOf(tx, u)' <=> IsOf(tx, u)
    BY DEF IsOf
  <2>3. QED
    BY <1>0, <1>1, <2>1, <2>2 DEF NetInOrder
<1>5. \A u \in Terminals : JobKey(u)' = JobKey(u) /\ (Brings(u)' <=> Brings(u))
  BY <1>1 DEF JobKey, Brings
<1>6. \A u \in Terminals : at'[u] # "idle" => at[u] # "idle"
  BY <1>1
<1>7. \A key : Unused(key) => Unused(key)'
  BY <1>5, <1>6 DEF Unused
<1>8. KeysAreNew'
  BY <1>0, <1>5, <1>7 DEF KeysAreNew
<1>9. KeysAreMade' /\ RetiredIsGone'
  BY <1>0, <1>5, <1>6 DEF KeysAreMade, RetiredIsGone
<1>10. ReadIsCurrent'
  BY <1>0, <1>1 DEF ReadIsCurrent, IsOf
<1>11. QED
  BY <1>2, <1>3, <1>4, <1>8, <1>9, <1>10 DEF VaultInv

LEMMA StagesKeep ==
  ASSUME VaultInv, NEW t \in Terminals, ReadNothing(t) \/ Hear(t) \/ Abandon(t)
  PROVE  VaultInv'
<1>0. TypeOK
  BY DEF VaultInv
<1>1. CASE ReadNothing(t)
  BY <1>0, <1>1, StageKeeps DEF ReadNothing, ChainStays, chainVars, history, TypeOK
<1>2. CASE Hear(t)
  BY <1>0, <1>2, StageKeeps DEF Hear, ChainStays, chainVars, history, TypeOK
<1>3. CASE Abandon(t)
  <2>1. astray' \in BOOLEAN /\ torn' \in BOOLEAN
    BY <1>0, <1>3 DEF TypeOK, Abandon
  <2>2. QED
    BY <1>0, <1>3, <2>1, StageKeeps DEF Abandon, ChainStays, chainVars, TypeOK
<1>4. QED
  BY <1>1, <1>2, <1>3

LEMMA ReadKeeps ==
  ASSUME VaultInv, NEW t \in Terminals, ReadVault(t)
  PROVE  VaultInv'
<1> USE ChainAssumption, OwnerSideAssumption
<1>0. TypeOK /\ JobsInOrder /\ NetInOrder /\ KeysAreNew /\ KeysAreMade /\ RetiredIsGone /\ ReadIsCurrent
  BY DEF VaultInv
<1> DEFINE args == [maxTrade |-> Preserved.maxTrade, dailyLimit |-> Preserved.dailyLimit, paused |-> job[t].asked.paused]
<1>1. /\ at[t] = "reading" /\ at'[t] = "sending"
      /\ job'[t] = [ix |-> job[t].ix, asked |-> args, id |-> job[t].id, held |-> job[t].held]
      /\ \A u \in Terminals : u # t => at'[u] = at[u] /\ job'[u] = job[u]
      /\ at' \in [Terminals -> {"idle", "reading", "sending", "waiting", "recording"}]
      /\ job' = [job EXCEPT ![t] = job'[t]]
  BY <1>0 DEF TypeOK, ReadVault, Goto
<1>2. vault \in Vaults /\ vault.exists
  BY <1>0, VaultIsThere DEF ReadVault, TypeOK
<1>3. /\ args.maxTrade = vault.caps /\ args \in Asks("update_config")
  <2>1. Preserved.maxTrade = vault.caps /\ Preserved.dailyLimit = Fetched.dailyLimit
    BY <1>2, CapsRead DEF Preserved
  <2>2. Fetched.dailyLimit = vault.caps
    BY <1>2, CapsRead
  <2>3. job[t].asked.paused \in 0..1
    BY <1>0, <1>1 DEF JobsInOrder
  <2>4. vault.caps \in Caps
    BY <1>2 DEF Vaults
  <2>5. QED
    BY <2>1, <2>2, <2>3, <2>4 DEF Asks
<1> HIDE DEF args
<1>4. job[t].ix = "update_config" /\ answer[t] = "none"
  BY <1>0, <1>1 DEF JobsInOrder
<1>5. /\ UNCHANGED <<vault, cash, onFile, answer, net, host, made, commands, crossed, astray, retired, torn>>
      /\ outdated' = outdated \ {t}
  BY DEF ReadVault, ChainStays, chainVars, history
<1>6. "update_config" \in DOMAIN CliArgs
  BY DEF CliArgs
<1>7. job'[t] \in [ix : DOMAIN CliArgs \cup {"none"}, asked : Asked, id : 0..MaxCommands, held : 0..MaxKeys]
  <2>1. args \in Asked
    BY <1>3, <1>6 DEF Asked
  <2>2. QED
    BY <1>0, <1>1, <2>1 DEF TypeOK
<1>8. TypeOK'
  BY <1>0, <1>1, <1>5, <1>7 DEF TypeOK, ChainTypeOK
<1>9. JobsInOrder'
  BY <1>0, <1>1, <1>3, <1>4, <1>5, <1>6 DEF JobsInOrder
<1>10. \A tx \in net, u \in Terminals : (IsOf(tx, u)' <=> IsOf(tx, u)) /\ ~IsOf(tx, t)
  BY <1>0, <1>1 DEF IsOf, NetInOrder
<1>11. NetInOrder'
  <2>1. \A tx \in net : (FromTerminal(tx) <=> FromTerminal(tx)') /\ (FromScript(tx) <=> FromScript(tx)')
                        /\ (FromHost(tx) <=> FromHost(tx)')
    BY <1>5 DEF FromTerminal, FromScript, FromHost
  <2>2. QED
    BY <1>0, <1>1, <1>5, <1>10, <2>1 DEF NetInOrder
<1>12. \A u \in Terminals : /\ job[u].ix \in KeyCommands => JobKey(u)' = JobKey(u)
                            /\ job'[u].ix = job[u].ix /\ job'[u].held = job[u].held
                            /\ (Brings(u)' <=> Brings(u))
  BY <1>1, <1>4 DEF JobKey, Brings, KeyCommands
<1>13. \A u \in Terminals : at'[u] # "idle" => at[u] # "idle"
  BY <1>1
<1>14. \A key : Unused(key) => Unused(key)'
  BY <1>5, <1>12, <1>13 DEF Unused
<1>15. KeysAreNew'
  <2>1. \A u \in Terminals : Brings(u) => job[u].ix \in KeyCommands
    BY DEF Brings
  <2>2. QED
    BY <1>0, <1>5, <1>12, <1>14, <2>1 DEF KeysAreNew
<1>16. KeysAreMade' /\ RetiredIsGone'
  BY <1>0, <1>5, <1>12, <1>13 DEF KeysAreMade, RetiredIsGone
<1>17. ReadIsCurrent'
  BY <1>0, <1>1, <1>3, <1>5, <1>10 DEF ReadIsCurrent
<1>18. QED
  BY <1>8, <1>9, <1>11, <1>15, <1>16, <1>17 DEF VaultInv

\* A transaction more, which is of nobody's command and brings no key.
LEMMA NetGrows ==
  ASSUME VaultInv, NEW tx, net' = net \cup {tx}, FromScript(tx) \/ FromHost(tx),
         UNCHANGED <<vault, cash, onFile, at, job, answer, made, outdated, astray, retired, torn>>,
         host' \in [key : 0..MaxKeys, waiting : BOOLEAN], crossed' \in BOOLEAN,
         commands' \in 0..MaxCommands, commands <= commands'
  PROVE  VaultInv'
<1> USE ChainAssumption, OwnerSideAssumption
<1>0. TypeOK /\ JobsInOrder /\ NetInOrder /\ KeysAreNew /\ KeysAreMade /\ RetiredIsGone /\ ReadIsCurrent
  BY DEF VaultInv
<1>1. tx.from \notin Terminals /\ tx.ix \notin KeyCommands
  BY DEF FromScript, FromHost, KeyCommands
<1>2. \A ux \in net, u \in Terminals : IsOf(ux, u)' <=> IsOf(ux, u)
  BY DEF IsOf
<1>3. \A u \in Terminals : ~IsOf(tx, u)'
  BY <1>1 DEF IsOf
<1>4. TypeOK'
  <2>1. tx.from \in Owners \cup {"host"} /\ tx.signer \in 1..MaxKeys + 1
    BY DEF FromScript, FromHost, Owners, OwnerKey
  <2>2. QED
    BY <1>0, <2>1 DEF TypeOK, ChainTypeOK
<1>5. JobsInOrder'
  BY <1>0 DEF JobsInOrder, TypeOK
<1>6. NetInOrder'
  <2>1. \A ux \in net' : /\ FromTerminal(ux) => FromTerminal(ux)'
                         /\ FromScript(ux) => FromScript(ux)'
                         /\ FromHost(ux) => FromHost(ux)'
    BY <1>0 DEF FromTerminal, FromScript, FromHost, TypeOK
  <2>2. QED
    BY <1>0, <1>2, <1>3, <2>1 DEF NetInOrder
<1>7. \A key : Unused(key) => Unused(key)'
  BY DEF Unused, JobKey
<1>8. KeysAreNew'
  BY <1>0, <1>1, <1>7 DEF KeysAreNew, Brings, JobKey
<1>9. KeysAreMade' /\ RetiredIsGone'
  BY <1>0, <1>1 DEF KeysAreMade, RetiredIsGone, JobKey
<1>10. ReadIsCurrent'
  BY <1>0, <1>2, <1>3 DEF ReadIsCurrent
<1>11. QED
  BY <1>4, <1>5, <1>6, <1>8, <1>9, <1>10 DEF VaultInv

LEMMA SendKeeps ==
  ASSUME VaultInv, NEW t \in Terminals, Send(t)
  PROVE  VaultInv'
<1> USE ChainAssumption, OwnerSideAssumption
<1>0. TypeOK /\ JobsInOrder /\ NetInOrder /\ KeysAreNew /\ KeysAreMade /\ RetiredIsGone /\ ReadIsCurrent
  BY DEF VaultInv
<1>1. /\ at[t] = "sending" /\ at'[t] = "waiting"
      /\ \A u \in Terminals : u # t => at'[u] = at[u]
      /\ at' \in [Terminals -> {"idle", "reading", "sending", "waiting", "recording"}]
  BY <1>0 DEF TypeOK, Send, Goto
<1>2. job[t].ix \in DOMAIN CliArgs /\ job[t].asked \in Asks(job[t].ix) /\ answer[t] = "none"
  BY <1>0, <1>1 DEF JobsInOrder
<1>3. PICK tx :
        /\ tx = [from |-> t, id |-> job[t].id, ix |-> job[t].ix, signer |-> OwnerKey, arg |-> job[t].asked]
        /\ net' = net \cup {tx}
  BY <1>2, ArgumentsArrive DEF Send
<1>4. tx.from = t /\ tx.id = job[t].id /\ tx.ix = job[t].ix /\ tx.signer = OwnerKey /\ tx.arg = job[t].asked
  BY <1>3
<1>5. UNCHANGED <<vault, cash, onFile, job, answer, host, made, commands, crossed, outdated, astray, retired, torn>>
  BY DEF Send, ChainStays, chainVars, history
<1>6. job[t].id \in 1..commands
  BY <1>0, <1>1 DEF JobsInOrder, TypeOK
<1>7. FromTerminal(tx)
  BY <1>2, <1>4, <1>6 DEF FromTerminal
<1>8. TypeOK'
  <2>1. tx.from \in Owners \cup {"host"} /\ tx.signer \in 1..MaxKeys + 1
    BY <1>4 DEF Owners, OwnerKey
  <2>2. QED
    BY <1>0, <1>1, <1>3, <1>5, <2>1 DEF TypeOK, ChainTypeOK
<1>9. JobsInOrder'
  BY <1>0, <1>1, <1>2, <1>5 DEF JobsInOrder
<1>10. \A ux \in net, u \in Terminals : (IsOf(ux, u)' <=> IsOf(ux, u)) /\ ~IsOf(ux, t)
  BY <1>0, <1>1, <1>5 DEF IsOf, NetInOrder
<1>11. NetInOrder'
  <2>1. \A ux \in net' : /\ FromTerminal(ux) => FromTerminal(ux)'
                         /\ FromScript(ux) => FromScript(ux)'
                         /\ FromHost(ux) => FromHost(ux)'
    BY <1>5 DEF FromTerminal, FromScript, FromHost
  <2>2. \A u \in Terminals : IsOf(tx, u)' => u = t
    BY <1>4 DEF IsOf
  <2>3. QED
    BY <1>0, <1>1, <1>2, <1>3, <1>4, <1>5, <1>7, <1>10, <2>1, <2>2 DEF NetInOrder
<1>12. TxKey(tx) = JobKey(t) /\ (tx.ix \in KeyCommands <=> Brings(t)) /\ ~Brings(t)'
  BY <1>1, <1>4 DEF TxKey, JobKey, Brings
<1>13. \A u \in Terminals : JobKey(u)' = JobKey(u) /\ (u # t => (Brings(u)' <=> Brings(u)))
  BY <1>1, <1>5 DEF JobKey, Brings
<1>14. \A key : Unused(key) => Unused(key)'
  BY <1>1, <1>2, <1>5, <1>13 DEF Unused
<1>15. KeysAreNew'
  BY <1>0, <1>3, <1>5, <1>12, <1>13, <1>14 DEF KeysAreNew
<1>16. KeysAreMade' /\ RetiredIsGone'
  BY <1>0, <1>1, <1>2, <1>3, <1>4, <1>5, <1>12, <1>13 DEF KeysAreMade, RetiredIsGone
<1>17. ReadIsCurrent'
  BY <1>0, <1>1, <1>3, <1>4, <1>5, <1>10 DEF ReadIsCurrent, IsOf
<1>18. QED
  BY <1>8, <1>9, <1>11, <1>15, <1>16, <1>17 DEF VaultInv

\* A command that writes the file, whole or not.
LEMMA RecordKeeps ==
  ASSUME VaultInv, NEW t \in Terminals, Record(t) \/ RecordTorn(t)
  PROVE  VaultInv'
<1> USE ChainAssumption, OwnerSideAssumption
<1>0. TypeOK /\ JobsInOrder /\ NetInOrder /\ KeysAreNew /\ KeysAreMade /\ RetiredIsGone /\ ReadIsCurrent
  BY DEF VaultInv
<1>1. /\ at[t] = "recording" /\ at'[t] = "idle"
      /\ \A u \in Terminals : u # t => at'[u] = at[u]
      /\ at' \in [Terminals -> {"idle", "reading", "sending", "waiting", "recording"}]
  BY <1>0 DEF TypeOK, Record, RecordTorn, Goto
<1>2. job[t].ix \in FileCommands /\ answer[t] = "landed" /\ job[t].asked \in Asks(job[t].ix)
  BY <1>0, <1>1 DEF JobsInOrder
<1>3. onFile' \in {0, IF job[t].ix \in KeyCommands THEN JobKey(t) ELSE 0}
  BY <1>2 DEF Record, RecordTorn, FileCommands, KeyCommands, JobKey, Brought
<1>4. retired' \in {retired, IF job[t].ix = "set_delegate" THEN retired \cup {job[t].held} ELSE retired}
  BY DEF Record, RecordTorn
<1>5. UNCHANGED <<vault, cash, job, answer, net, host, made, commands, crossed, outdated>>
      /\ astray' \in BOOLEAN /\ torn' \in BOOLEAN
  BY DEF Record, RecordTorn, ChainStays, chainVars
<1>6. onFile' \in 0..made /\ made \in 0..MaxKeys
  BY <1>0, <1>1, <1>3 DEF KeysAreMade, TypeOK
<1>7. job[t].ix = "set_delegate" => job[t].held \in 1..made
  BY <1>0, <1>1 DEF KeysAreMade, JobsInOrder
<1>8. retired' \subseteq 1..made
  BY <1>0, <1>4, <1>7 DEF KeysAreMade
<1>9. TypeOK'
  <2>1. onFile' \in 0..MaxKeys /\ retired' \subseteq 1..MaxKeys
    BY <1>6, <1>8
  <2>2. QED
    BY <1>0, <1>1, <1>5, <2>1 DEF TypeOK, ChainTypeOK
<1>10. JobsInOrder'
  BY <1>0, <1>1, <1>5 DEF JobsInOrder
<1>11. NetInOrder'
  <2>1. \A ux \in net : /\ FromTerminal(ux) => FromTerminal(ux)'
                        /\ FromScript(ux) => FromScript(ux)'
                        /\ FromHost(ux) => FromHost(ux)'
    BY <1>5 DEF FromTerminal, FromScript, FromHost
  <2>2. \A ux \in net, u \in Terminals : IsOf(ux, u)' <=> IsOf(ux, u)
    BY <1>5 DEF IsOf
  <2>3. QED
    BY <1>0, <1>1, <1>5, <2>1, <2>2 DEF NetInOrder
<1>12. \A u \in Terminals : JobKey(u)' = JobKey(u) /\ (Brings(u)' <=> Brings(u))
  BY <1>1, <1>5 DEF JobKey, Brings
<1>13. \A u \in Terminals : at'[u] # "idle" => at[u] # "idle"
  BY <1>1
<1>14. \A key : Unused(key) /\ key # 0 => Unused(key)'
  BY <1>1, <1>2, <1>3, <1>4, <1>5, <1>12, <1>13 DEF Unused
<1>15. KeysAreNew'
  <2>1. \A u \in Terminals : Brings(u) => JobKey(u) # 0
    BY <1>0 DEF KeysAreMade, Brings
  <2>2. \A tx \in net : tx.ix \in KeyCommands => TxKey(tx) # 0
    BY <1>0 DEF KeysAreMade
  <2>3. QED
    BY <1>0, <1>5, <1>12, <1>14, <2>1, <2>2 DEF KeysAreNew
<1>16. KeysAreMade'
  BY <1>0, <1>5, <1>6, <1>8, <1>12, <1>13 DEF KeysAreMade
<1>17. RetiredIsGone'
  BY <1>0, <1>1, <1>2, <1>4, <1>5, <1>13 DEF RetiredIsGone
<1>18. ReadIsCurrent'
  BY <1>0, <1>1, <1>5 DEF ReadIsCurrent, IsOf
<1>19. QED
  BY <1>9, <1>10, <1>11, <1>15, <1>16, <1>17, <1>18 DEF VaultInv

LEMMA OthersSend ==
  ASSUME VaultInv, ScriptSends \/ Execute
  PROVE  VaultInv'
<1> USE ChainAssumption, OwnerSideAssumption
<1>0. TypeOK
  BY DEF VaultInv
<1>1. CASE ScriptSends
  <2>1. PICK tx \in [ix : {"update_config"}, arg : [maxTrade : Caps, dailyLimit : Caps, paused : 0..1]]
                    \cup [ix : {"wrap_sol"}, arg : [amount : {1}]]
                    \cup [ix : {"unwrap_sol"}, arg : {<<>>}] :
          net' = net \cup {[from |-> "script", id |-> commands', ix |-> tx.ix, signer |-> OwnerKey, arg |-> tx.arg]}
    BY <1>1 DEF ScriptSends
  <2>2. \/ tx.ix = "update_config" /\ tx.arg \in Asks("update_config")
        \/ tx.ix = "wrap_sol" /\ tx.arg \in [amount : {1}]
        \/ tx.ix = "unwrap_sol"
    BY DEF Asks
  <2>3. PICK ux : /\ ux = [from |-> "script", id |-> commands', ix |-> tx.ix, signer |-> OwnerKey, arg |-> tx.arg]
                  /\ net' = net \cup {ux}
    BY <2>1
  <2>4. ux.from = "script" /\ ux.signer = OwnerKey /\ ux.ix = tx.ix /\ ux.arg = tx.arg
    BY <2>3
  <2>5. FromScript(ux)
    BY <2>2, <2>4 DEF FromScript
  <2>6. commands' \in 0..MaxCommands /\ commands <= commands' /\ crossed' \in BOOLEAN
    BY <1>0, <1>1 DEF ScriptSends, TypeOK, OwnerBusy
  <2>7. UNCHANGED <<vault, cash, onFile, at, job, answer, made, outdated, astray, retired, torn, host>>
    BY <1>1 DEF ScriptSends, ChainStays, chainVars, history
  <2>8. host' \in [key : 0..MaxKeys, waiting : BOOLEAN]
    BY <1>0, <2>7 DEF TypeOK
  <2>9. QED
    BY <2>3, <2>5, <2>6, <2>7, <2>8, NetGrows
<1>2. CASE Execute
  <2>1. PICK buy \in BOOLEAN, attested \in BOOLEAN, program \in 0..1, inAmount \in 1..2 :
          net' = net \cup {[from |-> "host", id |-> 0, ix |-> "trade", signer |-> host.key,
                            arg |-> [from |-> IF buy THEN "wsol" ELSE "token",
                                     to |-> IF buy THEN "token" ELSE "wsol",
                                     amountIn |-> inAmount, minOut |-> 1,
                                     swapData |-> program, attested |-> attested]]}
    BY <1>2 DEF Execute
  <2> DEFINE arg == [from |-> IF buy THEN "wsol" ELSE "token",
                     to |-> IF buy THEN "token" ELSE "wsol",
                     amountIn |-> inAmount, minOut |-> 1,
                     swapData |-> program, attested |-> attested]
  <2>2. arg \in [from : {"wsol", "token"}, to : {"wsol", "token"}, amountIn : 1..2, minOut : {1},
                 swapData : 0..1, attested : BOOLEAN]
    OBVIOUS
  <2> HIDE DEF arg
  <2>3. PICK tx : tx = [from |-> "host", id |-> 0, ix |-> "trade", signer |-> host.key, arg |-> arg]
                  /\ net' = net \cup {tx}
    BY <2>1 DEF arg
  <2>4. tx.from = "host" /\ tx.ix = "trade" /\ tx.signer = host.key /\ tx.arg = arg
    BY <2>3
  <2>5. host.key \in 1..MaxKeys
    BY <1>0, <1>2 DEF Execute, TypeOK
  <2>6. FromHost(tx)
    BY <2>2, <2>4, <2>5 DEF FromHost
  <2>7. UNCHANGED <<vault, cash, onFile, at, job, answer, made, outdated, astray, retired, torn, commands, crossed>>
    BY <1>2 DEF Execute, ChainStays, chainVars, terminal, history
  <2>8. host' \in [key : 0..MaxKeys, waiting : BOOLEAN]
    BY <1>0, <1>2 DEF TypeOK, Execute
  <2>9. commands' \in 0..MaxCommands /\ commands <= commands' /\ crossed' \in BOOLEAN
    BY <1>0, <2>7 DEF TypeOK
  <2>10. QED
    BY <2>3, <2>6, <2>7, <2>8, <2>9, NetGrows
<1>3. QED
  BY <1>1, <1>2

LEMMA HostKeeps ==
  ASSUME VaultInv, HostStarts \/ HostGoesOn
  PROVE  VaultInv'
<1>0. TypeOK /\ JobsInOrder /\ NetInOrder /\ KeysAreNew /\ KeysAreMade /\ RetiredIsGone /\ ReadIsCurrent
  BY DEF VaultInv
<1>1. UNCHANGED <<vault, cash, onFile, at, job, answer, commands, crossed, outdated, net, made, astray, retired, torn>>
  BY DEF HostStarts, HostGoesOn, ChainStays, chainVars, terminal, history
<1>2. host' \in [key : 0..MaxKeys, waiting : BOOLEAN]
  BY <1>0 DEF TypeOK, HostStarts, HostGoesOn
<1>3. TypeOK'
  BY <1>0, <1>1, <1>2 DEF TypeOK, ChainTypeOK
<1>4. JobsInOrder' /\ NetInOrder'
  BY <1>0, <1>1 DEF JobsInOrder, NetInOrder, FromTerminal, FromScript, FromHost, IsOf
<1>5. KeysAreNew' /\ KeysAreMade' /\ RetiredIsGone' /\ ReadIsCurrent'
  BY <1>0, <1>1 DEF KeysAreNew, KeysAreMade, RetiredIsGone, ReadIsCurrent, Unused, Brings, JobKey, IsOf
<1>6. QED
  BY <1>3, <1>4, <1>5 DEF VaultInv

\* A transaction leaves the network; what follows for what it did to the chain is said by the
\* two lemmas below.
LEMMA NetShrinks ==
  ASSUME VaultInv, NEW tx \in net, NEW how \in {"landed", "failed"}, Decided(tx, how), ChainTypeOK',
         outdated' \in {outdated, Terminals}
  PROVE  /\ TypeOK' /\ JobsInOrder' /\ NetInOrder'
         /\ net' = net \ {tx}
         /\ UNCHANGED <<onFile, at, job, host, made, commands, crossed, astray, retired, torn>>
         /\ \A t \in Terminals :
              IF IsOf(tx, t) THEN answer[t] = "none" /\ answer'[t] = how ELSE answer'[t] = answer[t]
         /\ \A t \in Terminals : JobKey(t)' = JobKey(t) /\ (Brings(t)' <=> Brings(t))
<1>0. TypeOK /\ JobsInOrder /\ NetInOrder
  BY DEF VaultInv
<1>1. /\ net' = net \ {tx}
      /\ UNCHANGED <<onFile, at, job, host, made, commands, crossed, astray, retired, torn>>
  BY DEF Decided, history
<1>2. \A t \in Terminals :
        IF IsOf(tx, t) THEN answer[t] = "none" /\ answer'[t] = how ELSE answer'[t] = answer[t]
  BY <1>0 DEF Decided, IsOf, TypeOK, NetInOrder
<1>3. answer' \in [Terminals -> {"none", "landed", "failed"}]
  BY <1>0 DEF Decided, TypeOK
<1>4. TypeOK'
  BY <1>0, <1>1, <1>3 DEF TypeOK
<1>5. \A t \in Terminals : IsOf(tx, t) => at[t] \in {"idle", "waiting"}
  BY <1>0 DEF NetInOrder
<1>6. JobsInOrder'
  BY <1>0, <1>1, <1>2, <1>5 DEF JobsInOrder
<1>7. \A ux \in net' : \A t \in Terminals : IsOf(ux, t)' => IsOf(ux, t) /\ ux \in net
  BY <1>1 DEF IsOf
<1>8. \A ux \in net', t \in Terminals : IsOf(ux, t) => ~IsOf(tx, t)
  BY <1>0, <1>1 DEF NetInOrder
<1>9. NetInOrder'
  BY <1>0, <1>1, <1>2, <1>7, <1>8 DEF NetInOrder, FromTerminal, FromScript, FromHost
<1>10. \A t \in Terminals : JobKey(t)' = JobKey(t) /\ (Brings(t)' <=> Brings(t))
  BY <1>1 DEF JobKey, Brings
<1>11. QED
  BY <1>1, <1>2, <1>4, <1>6, <1>9, <1>10

LEMMA LapseKeeps ==
  ASSUME VaultInv, NEW tx \in net, Lapse(tx)
  PROVE  VaultInv'
<1>0. TypeOK /\ JobsInOrder /\ NetInOrder /\ KeysAreNew /\ KeysAreMade /\ RetiredIsGone /\ ReadIsCurrent
  BY DEF VaultInv
<1>1. UNCHANGED <<vault, cash, outdated>> /\ Decided(tx, "failed")
  BY DEF Lapse, ChainStays, chainVars
<1>2. ChainTypeOK'
  BY <1>0, <1>1 DEF TypeOK, ChainTypeOK
<1>3. /\ TypeOK' /\ JobsInOrder' /\ NetInOrder'
      /\ net' = net \ {tx}
      /\ UNCHANGED <<onFile, at, job, host, made, commands, crossed, astray, retired, torn>>
      /\ \A t \in Terminals :
           IF IsOf(tx, t) THEN answer[t] = "none" /\ answer'[t] = "failed" ELSE answer'[t] = answer[t]
      /\ \A t \in Terminals : JobKey(t)' = JobKey(t) /\ (Brings(t)' <=> Brings(t))
  BY <1>1, <1>2, NetShrinks
<1>4. \A t \in Terminals : answer'[t] = "landed" => answer[t] = "landed"
  BY <1>3
<1>5. \A key : Unused(key) => Unused(key)'
  BY <1>1, <1>3, <1>4 DEF Unused
<1>6. KeysAreNew'
  BY <1>0, <1>3, <1>5 DEF KeysAreNew
<1>7. KeysAreMade' /\ RetiredIsGone'
  BY <1>0, <1>1, <1>3, <1>4 DEF KeysAreMade, RetiredIsGone
<1>8. ReadIsCurrent'
  BY <1>0, <1>1, <1>3 DEF ReadIsCurrent, IsOf
<1>9. QED
  BY <1>3, <1>6, <1>7, <1>8 DEF VaultInv

LEMMA LandKeeps ==
  ASSUME VaultInv, NEW tx \in net, Land(tx)
  PROVE  VaultInv'
<1>0. TypeOK /\ JobsInOrder /\ NetInOrder /\ KeysAreNew /\ KeysAreMade /\ RetiredIsGone /\ ReadIsCurrent
  BY DEF VaultInv
<1>1. Runs(tx) /\ Decided(tx, "landed")
      /\ outdated' = IF tx.ix \in {"init_vault", "update_config", "close_vault"} THEN Terminals ELSE outdated
  BY DEF Land
<1>2. ChainTypeOK' /\ Effect(tx)
  BY <1>0, <1>1, Effects DEF TypeOK
<1>3. /\ TypeOK' /\ JobsInOrder' /\ NetInOrder'
      /\ net' = net \ {tx}
      /\ UNCHANGED <<onFile, at, job, host, made, commands, crossed, astray, retired, torn>>
      /\ \A t \in Terminals :
           IF IsOf(tx, t) THEN answer[t] = "none" /\ answer'[t] = "landed" ELSE answer'[t] = answer[t]
      /\ \A t \in Terminals : JobKey(t)' = JobKey(t) /\ (Brings(t)' <=> Brings(t))
  BY <1>1, <1>2, NetShrinks
\* The key the chain trusts afterwards.
<1>4. vault'.exists =>
        \/ tx.ix \in KeyCommands /\ vault'.delegate = TxKey(tx)
        \/ tx.ix \notin KeyCommands /\ vault.exists /\ vault'.delegate = vault.delegate
  BY <1>2 DEF Effect, Untouched, KeyCommands
\* Whose command it was hears of its key.
<1>5. \A t \in Terminals : IsOf(tx, t) => tx.ix = job[t].ix /\ JobKey(t) = TxKey(tx)
  BY <1>0 DEF NetInOrder, JobKey, TxKey
<1>6. \A key : Unused(key) /\ (tx.ix \in KeyCommands => key # TxKey(tx)) => Unused(key)'
  BY <1>3, <1>4, <1>5 DEF Unused
<1>7. KeysAreNew'
  BY <1>0, <1>3, <1>6 DEF KeysAreNew
<1>8. KeysAreMade'
  BY <1>0, <1>3, <1>4 DEF KeysAreMade
<1>9. RetiredIsGone'
  <2>1. CASE tx.ix \in KeyCommands
    BY <1>0, <1>3, <1>4, <2>1 DEF RetiredIsGone, KeysAreNew, Unused
  <2>2. CASE tx.ix \notin KeyCommands
    BY <1>0, <1>3, <1>4, <1>5, <2>2 DEF RetiredIsGone, KeyCommands
  <2>3. QED
    BY <2>1, <2>2
<1>10. ReadIsCurrent'
  <2>1. CASE tx.ix \in {"init_vault", "update_config", "close_vault"}
    BY <1>1, <2>1 DEF ReadIsCurrent
  <2>2. CASE tx.ix \notin {"init_vault", "update_config", "close_vault"}
    <3>1. outdated' = outdated /\ vault'.exists => vault.exists /\ vault'.caps = vault.caps
      BY <1>1, <1>2, <2>2 DEF Effect, Untouched
    <3>2. outdated' = outdated
      BY <1>1, <2>2
    <3>3. QED
      BY <1>0, <1>3, <3>1, <3>2 DEF ReadIsCurrent, IsOf
  <2>3. QED
    BY <2>1, <2>2
<1>11. QED
  BY <1>3, <1>7, <1>8, <1>9, <1>10 DEF VaultInv

-----------------------------------------------------------------------------
(* The theorems.                                                           *)

LEMMA VaultStep ==
  ASSUME VaultInv, [Next]_vars
  PROVE  VaultInv'
<1>1. CASE Next
  <2>1. ASSUME NEW t \in Terminals,
               BeginCreate(t) \/ BeginRotate(t) \/ BeginOther(t) \/ ReadVault(t) \/ ReadNothing(t)
               \/ Send(t) \/ Hear(t) \/ Record(t) \/ RecordTorn(t) \/ Abandon(t)
        PROVE  VaultInv'
    BY <2>1, CommandsBegin, ReadKeeps, StagesKeep, SendKeeps, RecordKeeps
  <2>2. QED
    BY <1>1, <2>1, OthersSend, HostKeeps, LandKeeps, LapseKeeps DEF Next
<1>2. CASE UNCHANGED vars
  BY <1>2 DEF vars, chainVars, terminal, history, VaultInv, TypeOK, ChainTypeOK, JobsInOrder, NetInOrder,
              FromTerminal, FromScript, FromHost, IsOf, KeysAreNew, KeysAreMade, RetiredIsGone, ReadIsCurrent,
              Unused, Brings, JobKey
<1>3. QED
  BY <1>1, <1>2

LEMMA VaultInvariant == Spec => []VaultInv
BY VaultInit, VaultStep, PTL DEF Spec

\* The vault's state keeps its types, whatever the owner, the host and the chain do.
THEOREM VaultTypeCorrect == Spec => []TypeOK
<1>1. VaultInv => TypeOK
  BY DEF VaultInv
<1>2. QED
  BY <1>1, VaultInvariant, PTL

\* A transaction asks the program for what its command was told.
THEOREM AskedLands == Spec => []LandsAsAsked
<1>1. VaultInv => LandsAsAsked
  BY DEF VaultInv, NetInOrder, IsOf, LandsAsAsked
<1>2. QED
  BY <1>1, VaultInvariant, PTL

\* What leaves the network landed, or changed nothing.
LEMMA OnlyLandingActs ==
  ASSUME VaultInv, [Next]_vars, NEW tx \in net \ net'
  PROVE  Land(tx) \/ (Lapse(tx) /\ UNCHANGED <<vault, cash>>)
<1>1. CASE UNCHANGED vars
  BY <1>1 DEF vars
<1>2. CASE \E t \in Terminals :
       \/ BeginCreate(t) \/ BeginRotate(t) \/ BeginOther(t) \/ ReadVault(t) \/ ReadNothing(t)
       \/ Send(t) \/ Hear(t) \/ Record(t) \/ RecordTorn(t) \/ Abandon(t)
  <2>1. net \subseteq net'
    BY <1>2 DEF BeginCreate, BeginRotate, BeginOther, Begin, ReadVault, ReadNothing, Send, Hear, Record,
              RecordTorn, Abandon
  <2>2. QED
    BY <2>1
<1>3. CASE ScriptSends \/ HostStarts \/ Execute \/ HostGoesOn
  <2>1. net \subseteq net'
    BY <1>3 DEF ScriptSends, HostStarts, Execute, HostGoesOn
  <2>2. QED
    BY <2>1
<1>4. ASSUME NEW ux \in net, Land(ux) \/ Lapse(ux)
      PROVE  Land(tx) \/ (Lapse(tx) /\ UNCHANGED <<vault, cash>>)
  <2>1. net' = net \ {ux}
    BY <1>4 DEF Land, Lapse, Decided
  <2>2. ux = tx
    BY <2>1
  <2>3. QED
    BY <1>4, <2>2 DEF Lapse, ChainStays, chainVars
<1>5. QED
  BY <1>1, <1>2, <1>3, <1>4 DEF Next

\* A key that a rotation reported to have replaced never trades again.
THEOREM RetiredKeysAreOut == Spec => RetiredKeyIsOut
<1> DEFINE Step == \A tx \in net \ net' : tx.ix = "trade" /\ cash' # cash => tx.signer \notin retired
<1>1. ASSUME VaultInv, [Next]_vars PROVE Step
  <2>1. SUFFICES ASSUME NEW tx \in net \ net', tx.ix = "trade", cash' # cash
                 PROVE  tx.signer \notin retired
    OBVIOUS
  <2>2. Land(tx)
    BY <1>1, <2>1, OnlyLandingActs
  <2>3. vault.exists /\ tx.signer = vault.delegate
    BY <1>1, <2>1, <2>2, Effects DEF VaultInv, TypeOK, Land, Effect
  <2>4. QED
    BY <1>1, <2>3 DEF VaultInv, RetiredIsGone
<1>2. QED
  BY <1>1, VaultInvariant, PTL DEF Spec, RetiredKeyIsOut

\* Pausing and resuming change nothing else of the configuration that the terminal read.
THEOREM CapsArePreserved == Spec => PauseKeepsCaps
<1> DEFINE Step == \A tx \in net \ net' :
                     (/\ tx.ix = "update_config"
                      /\ tx.from \in Terminals \ outdated
                      /\ job[tx.from].id = tx.id
                      /\ vault.exists) => vault'.caps = vault.caps
<1>1. ASSUME VaultInv, [Next]_vars PROVE Step
  <2>1. SUFFICES ASSUME NEW tx \in net \ net', tx.ix = "update_config", tx.from \in Terminals \ outdated,
                        job[tx.from].id = tx.id, vault.exists
                 PROVE  vault'.caps = vault.caps
    OBVIOUS
  <2>2. Land(tx) \/ UNCHANGED <<vault, cash>>
    BY <1>1, <2>1, OnlyLandingActs
  <2>3. CASE Land(tx)
    <3>1. vault'.caps = tx.arg.maxTrade
      BY <1>1, <2>1, <2>3, Effects DEF VaultInv, TypeOK, Land, Effect
    <3>2. IsOf(tx, tx.from) /\ tx.arg = job[tx.from].asked /\ job[tx.from].ix = "update_config"
      BY <1>1, <2>1 DEF VaultInv, NetInOrder, IsOf
    <3>3. QED
      BY <1>1, <2>1, <3>1, <3>2 DEF VaultInv, ReadIsCurrent
  <2>4. QED
    BY <2>2, <2>3
<1>2. QED
  BY <1>1, VaultInvariant, PTL DEF Spec, PauseKeepsCaps

-----------------------------------------------------------------------------
(* The owner who does one thing at a time.                                 *)

Settled == OneActivity /\ FileFollows /\ NoFileNoFunds

LEMMA OneInit ==
  ASSUME Init
  PROVE  Settled
<1>1. ~vault.exists /\ onFile = 0 /\ net = {} /\ \A t \in Terminals : at[t] = "idle"
  BY DEF Init, ChainInit, NoVault
<1>2. QED
  BY <1>1 DEF Settled, OneActivity, FileFollows, NoFileNoFunds, Trusted

\* When a transaction of the owner's begins and none overlaps, nothing else of his is under way.
LEMMA OneBegins ==
  ASSUME TypeOK, Settled, NEW t \in Terminals, NEW ix, NEW args, NEW stage, Begin(t, ix, args, stage),
         stage # "idle", onFile = 0 => ix = "init_vault", ~crossed'
  PROVE  Settled'
<1>1. ~OwnerBusy /\ UNCHANGED <<vault, onFile, net, astray, torn>>
  BY DEF Begin, ChainStays, chainVars, history
<1>2. \A u \in Terminals : at[u] = "idle"
  BY <1>1 DEF OwnerBusy
<1>3. \A tx \in net : tx.from \notin Owners /\ tx.from \notin Terminals
  BY <1>1 DEF OwnerBusy, Owners
<1>4. /\ at'[t] = stage /\ answer'[t] = "none" /\ job'[t].ix = ix
      /\ \A u \in Terminals : u # t => at'[u] = "idle"
  BY <1>2 DEF Begin, Goto, TypeOK
<1>5. OneActivity'
  BY <1>1, <1>3, <1>4 DEF OneActivity, Owners
<1>6. FileFollows'
  BY <1>1, <1>2, <1>4 DEF Settled, FileFollows, Trusted
<1>7. NoFileNoFunds'
  BY <1>1, <1>3, <1>4 DEF Settled, NoFileNoFunds
<1>8. QED
  BY <1>5, <1>6, <1>7 DEF Settled

LEMMA OneCommandBegins ==
  ASSUME TypeOK, Settled, NEW t \in Terminals, BeginCreate(t) \/ BeginRotate(t) \/ BeginOther(t), ~crossed'
  PROVE  Settled'
<1>1. CASE BeginCreate(t)
  BY <1>1, OneBegins DEF BeginCreate
<1>2. CASE BeginRotate(t)
  BY <1>2, OneBegins DEF BeginRotate
<1>3. CASE BeginOther(t)
  BY <1>3, OneBegins DEF BeginOther
<1>4. QED
  BY <1>1, <1>2, <1>3

LEMMA OneScriptSends ==
  ASSUME Settled, ScriptSends, ~crossed'
  PROVE  Settled'
<1>1. ~OwnerBusy /\ onFile # 0 /\ UNCHANGED <<vault, onFile, at, job, answer, astray, torn>>
  BY DEF ScriptSends, ChainStays, chainVars, history
<1>2. \A u \in Terminals : at[u] = "idle"
  BY <1>1 DEF OwnerBusy
<1>3. \A tx \in net : tx.from \notin Owners /\ tx.from \notin Terminals
  BY <1>1 DEF OwnerBusy, Owners
<1>4. PICK ux : net' = net \cup {ux} /\ ux.from = "script"
  <2>1. PICK ix, arg :
          net' = net \cup {[from |-> "script", id |-> commands', ix |-> ix, signer |-> OwnerKey, arg |-> arg]}
    BY DEF ScriptSends
  <2>2. [from |-> "script", id |-> commands', ix |-> ix, signer |-> OwnerKey, arg |-> arg].from = "script"
    OBVIOUS
  <2>3. QED
    BY <2>1, <2>2
<1>5. OneActivity'
  BY <1>1, <1>2, <1>3, <1>4, OwnerSideAssumption DEF OneActivity
<1>6. FileFollows'
  BY <1>1, <1>2 DEF Settled, FileFollows, Trusted
<1>7. NoFileNoFunds'
  BY <1>1 DEF NoFileNoFunds
<1>8. QED
  BY <1>5, <1>6, <1>7 DEF Settled

LEMMA OneReads ==
  ASSUME VaultInv, Settled, NEW t \in Terminals, ReadVault(t)
  PROVE  Settled'
<1>0. TypeOK /\ JobsInOrder
  BY DEF VaultInv
<1>1. /\ UNCHANGED <<vault, onFile, net, answer, astray, torn>>
      /\ at[t] = "reading" /\ job[t].ix = "update_config"
      /\ \A u \in Terminals : at'[u] # "idle" <=> at[u] # "idle"
      /\ \A u \in Terminals : job'[u].ix = job[u].ix /\ job'[u].id = job[u].id
      /\ \A u \in Terminals : u # t => job'[u] = job[u]
  BY <1>0 DEF ReadVault, Goto, TypeOK, ChainStays, chainVars, history, JobsInOrder
<1>2. \A tx \in net, u \in Terminals : IsOf(tx, u)' <=> IsOf(tx, u)
  BY <1>1 DEF IsOf
<1>3. OneActivity'
  BY <1>1, <1>2 DEF Settled, OneActivity
<1>4. \A u \in Terminals : job[u].ix \in FileCommands => Target(u)' = Target(u)
  BY <1>1 DEF Target, JobKey, FileCommands
<1>5. FileFollows'
  BY <1>1, <1>4 DEF Settled, FileFollows, Trusted
<1>6. NoFileNoFunds'
  BY <1>1 DEF Settled, NoFileNoFunds
<1>7. QED
  BY <1>3, <1>5, <1>6 DEF Settled

LEMMA OneStops ==
  ASSUME VaultInv, Settled, NEW t \in Terminals, ReadNothing(t) \/ Hear(t) \/ Abandon(t)
  PROVE  Settled'
<1>0. TypeOK /\ JobsInOrder /\ NetInOrder
  BY DEF VaultInv
<1>1. /\ UNCHANGED <<vault, onFile, net, answer, job, torn>>
      /\ at[t] # "idle"
      /\ \A u \in Terminals : u # t => at'[u] = at[u]
  BY <1>0 DEF ReadNothing, Hear, Abandon, Goto, TypeOK, ChainStays, chainVars, history
<1>2. /\ \A tx \in net : tx.from \notin Terminals \ {t}
      /\ \A u \in Terminals : u # t => at[u] = "idle"
  <2>1. \A u \in Terminals : u # t => at[u] = "idle"
    BY <1>1 DEF Settled, OneActivity
  <2>2. \A tx \in net : tx.from \in Owners => tx.from = t
    BY <1>1 DEF Settled, OneActivity, IsOf
  <2>3. QED
    BY <2>1, <2>2 DEF Owners
<1>3. \A tx \in net, u \in Terminals : IsOf(tx, u)' <=> IsOf(tx, u)
  BY <1>1 DEF IsOf
<1>4. \A u \in Terminals : Target(u)' = Target(u)
  BY <1>1 DEF Target, JobKey
<1>5. astray => astray'
  BY DEF ReadNothing, Hear, Abandon, history
<1>6. \A tx \in net : tx.from \in Terminals => IsOf(tx, tx.from) /\ tx.from = t
  BY <1>2 DEF Settled, OneActivity
<1>7. \A tx \in net : IsOf(tx, t) /\ at'[t] = "idle" /\ tx.ix \in FileCommands => astray'
  <2>1. SUFFICES ASSUME NEW tx \in net, IsOf(tx, t), at'[t] = "idle", tx.ix \in FileCommands
                 PROVE  astray'
    OBVIOUS
  <2>2. at[t] = "waiting" /\ answer[t] = "none" /\ job[t].ix \in FileCommands
    BY <1>0, <1>1, <2>1 DEF NetInOrder
  <2>3. Abandon(t)
    BY <2>2 DEF ReadNothing, Hear, Goto
  <2>4. QED
    BY <2>2, <2>3 DEF Abandon
<1>8. OneActivity'
  BY <1>1, <1>2, <1>3, <1>6, <1>7 DEF Settled, OneActivity
<1>9. FileFollows'
  <2>1. CASE job[t].ix \in FileCommands /\ answer[t] = "landed"
    <3>1. at'[t] # "idle" \/ astray'
      BY <1>0, <1>1, <2>1 DEF ReadNothing, Hear, Abandon, Goto, TypeOK, JobsInOrder
    <3>2. QED
      BY <1>1, <1>2, <1>4, <2>1, <3>1 DEF Settled, FileFollows, Trusted
  <2>2. CASE ~(job[t].ix \in FileCommands /\ answer[t] = "landed")
    BY <1>1, <1>2, <1>4, <1>5, <2>2 DEF Settled, FileFollows, Trusted
  <2>3. QED
    BY <2>1, <2>2
<1>10. NoFileNoFunds'
  BY <1>1, <1>2 DEF Settled, NoFileNoFunds
<1>11. QED
  BY <1>8, <1>9, <1>10 DEF Settled

LEMMA OneSends ==
  ASSUME VaultInv, Settled, NEW t \in Terminals, Send(t)
  PROVE  Settled'
<1>0. TypeOK /\ JobsInOrder /\ NetInOrder
  BY DEF VaultInv
<1>1. /\ UNCHANGED <<vault, onFile, answer, job, astray, torn>>
      /\ at[t] = "sending" /\ at'[t] = "waiting"
      /\ \A u \in Terminals : u # t => at'[u] = at[u]
  BY <1>0 DEF Send, Goto, TypeOK, ChainStays, chainVars, history
<1>2. PICK tx : net' = net \cup {tx} /\ tx.from = t /\ tx.id = job[t].id /\ tx.ix = job[t].ix
  <2> DEFINE new(arg) == [from |-> t, id |-> job[t].id, ix |-> job[t].ix, signer |-> OwnerKey, arg |-> arg]
  <2>1. PICK arg : net' = net \cup {new(arg)}
    BY DEF Send
  <2>2. new(arg).from = t /\ new(arg).id = job[t].id /\ new(arg).ix = job[t].ix
    OBVIOUS
  <2>3. QED
    BY <2>1, <2>2
<1>3. \A ux \in net : ux.from \notin Owners
  BY <1>0, <1>1 DEF Settled, OneActivity, NetInOrder
<1>4. \A u \in Terminals : u # t => at[u] = "idle"
  BY <1>1 DEF Settled, OneActivity
<1>5. IsOf(tx, t)'
  BY <1>1, <1>2 DEF IsOf
<1>6. OneActivity'
  BY <1>1, <1>2, <1>3, <1>4, <1>5 DEF OneActivity, Owners
<1>7. \A u \in Terminals : Target(u)' = Target(u) /\ (at'[u] # "idle" <=> at[u] # "idle")
  BY <1>1 DEF Target, JobKey
<1>8. FileFollows'
  BY <1>1, <1>7 DEF Settled, FileFollows, Trusted
<1>9. NoFileNoFunds'
  BY <1>1, <1>2, <1>3, <1>7 DEF Settled, NoFileNoFunds
<1>10. QED
  BY <1>6, <1>8, <1>9 DEF Settled

LEMMA OneRecords ==
  ASSUME VaultInv, Settled, NEW t \in Terminals, Record(t)
  PROVE  Settled'
<1>0. TypeOK /\ JobsInOrder /\ NetInOrder /\ KeysAreMade
  BY DEF VaultInv
<1>1. /\ UNCHANGED <<vault, net, answer, job>> /\ astray' = FALSE
      /\ at[t] = "recording" /\ at'[t] = "idle"
      /\ \A u \in Terminals : u # t => at'[u] = at[u]
  BY <1>0 DEF Record, Goto, TypeOK, ChainStays, chainVars
<1>2. \A u \in Terminals : at'[u] = "idle"
  BY <1>1 DEF Settled, OneActivity
<1>3. \A tx \in net : tx.from \notin Owners /\ tx.from \notin Terminals
  BY <1>0, <1>1 DEF Settled, OneActivity, NetInOrder, Owners
<1>4. job[t].ix \in FileCommands /\ answer[t] = "landed"
  BY <1>0, <1>1 DEF JobsInOrder
<1>5. onFile' = Target(t) /\ Trusted = Target(t)
  BY <1>1, <1>4 DEF Record, FileCommands, KeyCommands, JobKey, Brought, Target, Settled, FileFollows
<1>6. Trusted' = Trusted
  BY <1>1 DEF Trusted
<1>7. OneActivity' /\ FileFollows'
  BY <1>1, <1>2, <1>3, <1>5, <1>6 DEF OneActivity, FileFollows
<1>8. onFile' = 0 => ~vault'.exists
  BY <1>0, <1>1, <1>5 DEF Trusted, KeysAreMade
<1>9. NoFileNoFunds'
  BY <1>1, <1>2, <1>3, <1>8 DEF NoFileNoFunds
<1>10. QED
  BY <1>7, <1>9 DEF Settled

\* A write that is cut short leaves no file, and a new creation of the vault is all the
\* owner can begin.
LEMMA OneTears ==
  ASSUME VaultInv, Settled, NEW t \in Terminals, RecordTorn(t)
  PROVE  Settled'
<1>0. TypeOK /\ NetInOrder
  BY DEF VaultInv
<1>1. /\ UNCHANGED <<vault, net, answer, job>> /\ astray' /\ torn' /\ onFile' = 0
      /\ at[t] = "recording" /\ at'[t] = "idle"
      /\ \A u \in Terminals : u # t => at'[u] = at[u]
  BY <1>0 DEF RecordTorn, Goto, TypeOK, ChainStays, chainVars
<1>2. \A u \in Terminals : at'[u] = "idle"
  BY <1>1 DEF Settled, OneActivity
<1>3. \A tx \in net : tx.from \notin Owners /\ tx.from \notin Terminals
  BY <1>0, <1>1 DEF Settled, OneActivity, NetInOrder, Owners
<1>4. OneActivity' /\ FileFollows'
  BY <1>1, <1>2, <1>3 DEF OneActivity, FileFollows
<1>5. NoFileNoFunds'
  BY <1>1, <1>2, <1>3 DEF NoFileNoFunds
<1>6. QED
  BY <1>4, <1>5 DEF Settled

\* A transaction that is decided is the last of what was under way.
LEMMA OneIsDecided ==
  ASSUME VaultInv, Settled, NEW tx \in net, NEW how \in {"landed", "failed"}, Decided(tx, how), ChainTypeOK',
         outdated' \in {outdated, Terminals}
  PROVE  /\ OneActivity'
         /\ tx.from \in Owners =>
              \A u \in Terminals : at[u] # "idle" =>
                 IsOf(tx, u) /\ answer[u] = "none" /\ tx.ix = job[u].ix /\ TxKey(tx) = JobKey(u)
         /\ tx.from \in Owners /\ onFile = 0 => tx.ix = "init_vault"
<1>1. /\ net' = net \ {tx}
      /\ UNCHANGED <<onFile, at, job, astray, torn>>
  BY DEF Decided, history
<1>2. \A ux \in net, u \in Terminals : IsOf(ux, u)' <=> IsOf(ux, u)
  BY <1>1 DEF IsOf
<1>3. OneActivity'
  BY <1>1, <1>2 DEF Settled, OneActivity
<1>4. tx.from \in Owners =>
        \A u \in Terminals : at[u] # "idle" =>
           IsOf(tx, u) /\ answer[u] = "none" /\ tx.ix = job[u].ix /\ TxKey(tx) = JobKey(u)
  BY DEF Settled, OneActivity, VaultInv, NetInOrder, TxKey, JobKey
<1>5. QED
  BY <1>3, <1>4 DEF Settled, NoFileNoFunds

LEMMA OneLapses ==
  ASSUME VaultInv, Settled, NEW tx \in net, Lapse(tx)
  PROVE  Settled'
<1>1. UNCHANGED <<vault, cash, outdated, at, job, onFile, astray, torn>> /\ Decided(tx, "failed") /\ net' \subseteq net
  BY DEF Lapse, ChainStays, chainVars, Decided, history
<1>2. ChainTypeOK'
  BY <1>1 DEF VaultInv, TypeOK, ChainTypeOK
<1>3. OneActivity'
  BY <1>1, <1>2, OneIsDecided
<1>4. \A u \in Terminals : answer'[u] = "landed" <=> answer[u] = "landed"
  <2>1. \A u \in Terminals :
          IF IsOf(tx, u) THEN answer[u] = "none" /\ answer'[u] = "failed" ELSE answer'[u] = answer[u]
    BY <1>1, <1>2, NetShrinks
  <2>2. QED
    BY <2>1
<1>5. \A u \in Terminals : Target(u)' = Target(u)
  BY <1>1 DEF Target, JobKey
<1>6. FileFollows'
  BY <1>1, <1>4, <1>5 DEF Settled, FileFollows, Trusted
<1>7. NoFileNoFunds'
  BY <1>1 DEF Settled, NoFileNoFunds
<1>8. QED
  BY <1>3, <1>6, <1>7 DEF Settled

LEMMA OneLands ==
  ASSUME VaultInv, Settled, NEW tx \in net, Land(tx)
  PROVE  Settled'
<1>0. TypeOK /\ NetInOrder
  BY DEF VaultInv
<1>1. UNCHANGED <<at, job, onFile, astray, torn>> /\ Decided(tx, "landed") /\ net' \subseteq net
      /\ Runs(tx) /\ outdated' \in {outdated, Terminals}
  BY DEF Land, Decided, history
<1>2. ChainTypeOK' /\ Effect(tx)
  BY <1>0, <1>1, Effects DEF TypeOK
<1>3. /\ OneActivity'
      /\ tx.from \in Owners =>
           \A u \in Terminals : at[u] # "idle" =>
              IsOf(tx, u) /\ answer[u] = "none" /\ tx.ix = job[u].ix /\ TxKey(tx) = JobKey(u)
      /\ tx.from \in Owners /\ onFile = 0 => tx.ix = "init_vault"
  BY <1>1, <1>2, OneIsDecided
<1>4. \A u \in Terminals : IF IsOf(tx, u) THEN answer'[u] = "landed" ELSE answer'[u] = answer[u]
  BY <1>1, <1>2, NetShrinks
<1>5. \A u \in Terminals : Target(u)' = Target(u)
  BY <1>1 DEF Target, JobKey
<1>6. CASE tx.from = "host"
  <2>1. vault' = vault /\ tx.ix = "trade"
    BY <1>0, <1>2, <1>6, OwnerSideAssumption DEF Effect, NetInOrder, FromTerminal, FromScript, FromHost
  <2>2. \A u \in Terminals : answer'[u] = answer[u]
    BY <1>4, <1>6, OwnerSideAssumption DEF IsOf
  <2>3. FileFollows' /\ NoFileNoFunds'
    BY <1>1, <1>5, <2>1, <2>2 DEF Settled, FileFollows, NoFileNoFunds, Trusted
  <2>4. QED
    BY <1>3, <2>3 DEF Settled
<1>7. CASE tx.from \in Owners
  <2>1. Trusted' = IF tx.ix \in KeyCommands THEN TxKey(tx) ELSE IF tx.ix = "close_vault" THEN 0 ELSE Trusted
    BY <1>2 DEF Effect, Untouched, Trusted, KeyCommands
  <2>2. NoFileNoFunds'
    BY <1>1, <1>2, <1>3, <1>7 DEF Settled, NoFileNoFunds, Effect
  <2>3. CASE tx.ix \in FileCommands
    <3>1. \A u \in Terminals : at[u] # "idle" => Trusted' = Target(u)
      BY <1>3, <1>7, <2>1, <2>3 DEF Target, FileCommands, KeyCommands
    <3>2. astray \/ \E u \in Terminals : at[u] # "idle" /\ job[u].ix \in FileCommands /\ answer'[u] = "landed"
      <4>1. tx.from \in Terminals
        BY <1>0, <1>7, <2>3 DEF NetInOrder, FromScript, FromHost, FromTerminal, FileCommands
      <4>2. IsOf(tx, tx.from) /\ (at[tx.from] = "idle" => astray)
        BY <2>3, <4>1 DEF Settled, OneActivity
      <4>3. QED
        BY <1>0, <1>4, <2>3, <4>1, <4>2 DEF NetInOrder
    <3>3. FileFollows'
      BY <1>1, <1>5, <3>1, <3>2 DEF FileFollows
    <3>4. QED
      BY <1>3, <2>2, <3>3 DEF Settled
  <2>4. CASE tx.ix \notin FileCommands
    <3>1. Trusted' = Trusted
      BY <2>1, <2>4 DEF FileCommands, KeyCommands
    <3>2. \A u \in Terminals : job[u].ix \in FileCommands /\ at[u] # "idle" => answer'[u] = answer[u]
      BY <1>3, <1>4, <1>7, <2>4
    <3>3. FileFollows'
      BY <1>1, <1>5, <3>1, <3>2 DEF Settled, FileFollows
    <3>4. QED
      BY <1>3, <2>2, <3>3 DEF Settled
  <2>5. QED
    BY <2>3, <2>4
<1>8. QED
  BY <1>0, <1>6, <1>7 DEF TypeOK

LEMMA OneStep ==
  ASSUME VaultInv, OneAtATime, [Next]_vars
  PROVE  OneAtATime'
<1>0. SUFFICES ASSUME ~crossed' PROVE Settled'
  BY DEF OneAtATime, Settled
<1>1. ~crossed
  BY <1>0 DEF Next, vars, terminal, BeginCreate, BeginRotate, BeginOther, Begin, ReadVault, ReadNothing, Send, Hear,
              Record, RecordTorn, Abandon, ScriptSends, HostStarts, Execute, HostGoesOn, Land, Lapse, Decided
<1>2. Settled /\ TypeOK
  BY <1>1 DEF OneAtATime, Settled, VaultInv
<1>3. ASSUME NEW t \in Terminals,
             BeginCreate(t) \/ BeginRotate(t) \/ BeginOther(t) \/ ReadVault(t) \/ ReadNothing(t)
             \/ Send(t) \/ Hear(t) \/ Record(t) \/ RecordTorn(t) \/ Abandon(t)
      PROVE  Settled'
  BY <1>0, <1>2, <1>3, OneCommandBegins, OneReads, OneStops, OneSends, OneRecords,
     OneTears
<1>4. CASE HostStarts \/ HostGoesOn
  <2>1. UNCHANGED <<vault, onFile, at, job, answer, net, astray, torn>>
    BY <1>4 DEF HostStarts, HostGoesOn, ChainStays, chainVars, terminal, history
  <2>2. QED
    BY <1>2, <2>1 DEF Settled, OneActivity, FileFollows, NoFileNoFunds, Trusted, Target, JobKey, IsOf
<1>5. CASE Execute
  <2>1. UNCHANGED <<vault, onFile, at, job, answer, astray, torn>>
    BY <1>5 DEF Execute, ChainStays, chainVars, terminal, history
  <2>2. PICK ux : net' = net \cup {ux} /\ ux.from = "host"
    <3>1. PICK arg : net' = net \cup {[from |-> "host", id |-> 0, ix |-> "trade", signer |-> host.key, arg |-> arg]}
      BY <1>5 DEF Execute
    <3>2. [from |-> "host", id |-> 0, ix |-> "trade", signer |-> host.key, arg |-> arg].from = "host"
      OBVIOUS
    <3>3. QED
      BY <3>1, <3>2
  <2>3. ux.from \notin Owners /\ ux.from \notin Terminals
    BY <2>2, OwnerSideAssumption DEF Owners
  <2>4. QED
    BY <1>2, <2>1, <2>2, <2>3 DEF Settled, OneActivity, FileFollows, NoFileNoFunds, Trusted, Target, JobKey, IsOf
<1>6. CASE UNCHANGED vars
  <2>1. UNCHANGED <<vault, onFile, at, job, answer, net, astray, torn>>
    BY <1>6 DEF vars, chainVars, terminal, history
  <2>2. QED
    BY <1>2, <2>1 DEF Settled, OneActivity, FileFollows, NoFileNoFunds, Trusted, Target, JobKey, IsOf
<1>7. QED
  BY <1>0, <1>2, <1>3, <1>4, <1>5, <1>6, OneScriptSends, OneLands, OneLapses DEF Next

LEMMA OneInvariant == Spec => [](VaultInv /\ OneAtATime)
<1>1. Init => OneAtATime
  BY OneInit DEF OneAtATime, Settled
<1>2. QED
  BY <1>1, OneStep, VaultInvariant, PTL DEF Spec

\* The file holds the key the chain trusts, and names a vault that exists, whenever no command
\* is under way, no two overlapped, and the last change of key was written down.
THEOREM FileFollowsChain == Spec => []KeyOnFileTrades
<1>1. VaultInv /\ OneAtATime => KeyOnFileTrades
  BY DEF OneAtATime, FileFollows, KeyOnFileTrades, OwnerBusy, Trusted
<1>2. QED
  BY <1>1, OneInvariant, PTL

\* Whatever command dies and whatever answer is lost, SOL in the vault can be withdrawn from
\* the terminal, unless a write of its file was cut short.
THEOREM NoFundsStranded == Spec => []FundsReachable
<1>1. OneAtATime => FundsReachable
  BY DEF OneAtATime, NoFileNoFunds, FundsReachable
<1>2. QED
  BY <1>1, OneInvariant, PTL
=============================================================================
