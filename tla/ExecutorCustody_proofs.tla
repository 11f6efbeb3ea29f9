------------------------ MODULE ExecutorCustody_proofs ------------------------
(***************************************************************************)
(* Theorems about ExecutorCustody, for any trades, sizes, limits, day      *)
(* length and clock bound.                                                 *)
(***************************************************************************)
EXTENDS ExecutorCustody, FiniteSetTheorems, TLAPS

IInv == TypeOK /\ CustodyInv

LEMMA Numbers ==
  /\ DailyCap \in Nat /\ MaxDaily \in Nat /\ MaxNotional \in Nat /\ Cooldown \in Nat
  /\ 0 <= DailyCap
  BY CustodyAssumption DEF DailyCap

LEMMA TodayType == TypeOK => Today \in Nat
<1> SUFFICES ASSUME TypeOK PROVE Today \in Nat
  OBVIOUS
<1>1. clock \in Nat /\ DayLength \in Nat /\ DayLength > 0
  BY CustodyAssumption DEF TypeOK, Times
<1>2. QED
  BY <1>1 DEF Today

\* The day's spend as admission sees it is within the cap.
LEMMA SpentTodayFits == IInv => SpentToday \in Nat /\ SpentToday <= DailyCap
  BY Numbers DEF IInv, TypeOK, CustodyInv, WithinDailyCap, SpentToday

\* An intent that no check refuses has a size, and the day has room for it.
LEMMA AdmissionFits ==
  ASSUME IInv, NEW x \in Intents, LateRefusal(x) = "none"
  PROVE  x.size \in Nat /\ SpentToday + x.size \in Nat /\ SpentToday + x.size <= DailyCap
<1>1. x.size \in Nat
  BY CustodyAssumption DEF Intents
<1>2. SpentToday \in Nat /\ DailyCap \in Nat
  BY SpentTodayFits, Numbers
<1>3. ~(SpentToday + x.size > DailyCap)
  BY DEF LateRefusal
<1>4. QED
  BY <1>1, <1>2, <1>3

LEMMA RefusalTypes ==
  ASSUME NEW x
  PROVE  /\ EarlyRefusal(x) # "none" => EarlyRefusal(x) \in Refusals
         /\ LateRefusal(x) # "none" => LateRefusal(x) \in Refusals
  BY DEF EarlyRefusal, LateRefusal, Refusals

LEMMA InitIInv == Init => IInv
<1> SUFFICES ASSUME Init PROVE IInv
  OBVIOUS
<1>1. TypeOK
  <2>1. interleaved \in BOOLEAN
    BY DEF Init
  <2>2. QED
    BY <2>1, CustodyAssumption DEF Init, TypeOK, Times, Phases
<1>2. CustodyInv
  BY Numbers
  DEF Init, CustodyInv, WithinDailyCap, Kept, KeptStamped, CooldownKept, NoFalseCooldown, Executing,
      OneExecutes, StampsBehind, Restorable
<1>3. QED
  BY <1>1, <1>2 DEF IInv

\* A submission only writes down the intent.
LEMMA SubmitFacts ==
  ASSUME TypeOK, NEW i \in Trades, NEW x \in Intents, Submit(i, x)
  PROVE  /\ intent' \in [Trades -> Intents \cup {NoIntent}]
         /\ intent' = [intent EXCEPT ![i] = x]
         /\ clock' = clock /\ fate' = fate
         /\ phase[i] = "idle"
         /\ interleaved' \in BOOLEAN
         /\ ~interleaved' => ~interleaved /\ \A j \in Trades : ~Executing(j)
<1>1. interleaved' \in BOOLEAN
  <2>1. interleaved' = (interleaved \/ \E j \in Trades : phase[j] = "executing")
    BY DEF Submit
  <2>2. QED
    BY <2>1
<1>2. ~interleaved' => ~interleaved /\ \A j \in Trades : ~Executing(j)
  BY Zenon DEF Submit, Executing
<1>3. QED
  BY <1>1, <1>2 DEF Submit, TypeOK

LEMMA TypePreserved == IInv /\ [Next]_vars => TypeOK'
<1> SUFFICES ASSUME IInv, [Next]_vars PROVE TypeOK'
  OBVIOUS
<1>0. TypeOK
  BY DEF IInv
<1>1. CASE Tick
  BY <1>0, <1>1, CustodyAssumption DEF Tick, TypeOK, Times, engine
<1>2. ASSUME NEW i \in Trades, NEW x \in Intents, RefuseEarly(i, x) PROVE TypeOK'
  BY <1>0, <1>2, SubmitFacts, RefusalTypes DEF RefuseEarly, TypeOK, engine, Phases
<1>3. ASSUME NEW i \in Trades, NEW x \in Intents, RefuseLate(i, x) PROVE TypeOK'
  BY <1>0, <1>3, SubmitFacts, RefusalTypes, TodayType, SpentTodayFits
  DEF RefuseLate, TypeOK, Phases
<1>4. ASSUME NEW i \in Trades, NEW x \in Intents, Admit(i, x) PROVE TypeOK'
  <2>1. Admitted \in Phases
    BY DEF Admitted, Phases
  <2>2. daySpent' \in Nat /\ day' \in Nat /\ clock \in Times
    BY <1>0, <1>4, AdmissionFits, TodayType DEF Admit, TypeOK
  <2>3. QED
    BY <1>0, <1>4, <2>1, <2>2, SubmitFacts DEF Admit, TypeOK
<1>5. ASSUME NEW i \in Trades, SendTrade(i) PROVE TypeOK'
  BY <1>0, <1>5 DEF SendTrade, TypeOK, engine
<1>6. ASSUME NEW i \in Trades, SettleTrade(i) PROVE TypeOK'
  BY <1>0, <1>6 DEF SettleTrade, TypeOK, engine
<1>7. ASSUME NEW i \in Trades, ExecuteResolves(i) PROVE TypeOK'
  BY <1>0, <1>7 DEF ExecuteResolves, TypeOK, engine, Phases
<1>8. ASSUME NEW i \in Trades, ExecuteThrows(i) PROVE TypeOK'
  <2>1. intent[i] \in Intents
    BY <1>8 DEF ExecuteThrows, IInv, CustodyInv, Kept, KeptStamped
  <2>2. intent[i].size \in Nat /\ daySpent \in Nat
    BY <1>0, <2>1, CustodyAssumption DEF Intents, TypeOK
  <2>3. daySpent' \in Nat
    BY <1>8, <2>2 DEF ExecuteThrows, Revert
  <2>4. QED
    BY <1>0, <1>8, <2>3 DEF ExecuteThrows, Revert, TypeOK, Phases
<1>9. CASE UNCHANGED vars
  BY <1>0, <1>9 DEF vars, TypeOK
<1>10. QED
  BY <1>1, <1>2, <1>3, <1>4, <1>5, <1>6, <1>7, <1>8, <1>9 DEF Next, Execution

\* A step that admits and reverses nothing keeps what is known of the trades that stand.
LEMMA QuietStep ==
  ASSUME IInv, TypeOK',
         \A i \in Trades : Kept(i)' => Kept(i) /\ at[i]' = at[i] /\ intent[i]' = intent[i],
         \A i \in Trades : Kept(i) => Kept(i)',
         \A i \in Trades : Executing(i)' => Executing(i) /\ prev[i]' = prev[i],
         lastTrade' = lastTrade, at' = at,
         clock <= clock', WithinDailyCap', ~interleaved' => ~interleaved
  PROVE  CustodyInv'
<1>0. TypeOK /\ CustodyInv /\ Times \subseteq Int /\ clock \in Int /\ clock' \in Int
  BY CustodyAssumption DEF IInv, TypeOK, Times
<1>1. KeptStamped'
  BY <1>0 DEF KeptStamped, CustodyInv, Times, Intents, Kinds
<1>2. CooldownKept'
  BY <1>0 DEF CooldownKept, CustodyInv
<1>3. NoFalseCooldown'
  BY <1>0 DEF NoFalseCooldown, CustodyInv
<1>4. ASSUME ~interleaved' PROVE OneExecutes' /\ StampsBehind' /\ Restorable'
  <2>0. OneExecutes /\ StampsBehind /\ Restorable
    BY <1>0, <1>4 DEF CustodyInv
  <2>1. OneExecutes' /\ StampsBehind'
    BY <2>0 DEF OneExecutes, StampsBehind
  <2>2. Restorable'
    BY <2>0 DEF Restorable, OthersBehind, StampOfOther
  <2>3. QED
    BY <2>1, <2>2
<1>5. QED
  BY <1>1, <1>2, <1>3, <1>4 DEF CustodyInv

\* An admission: the new trade is the last, and the cooldown has passed since the others.
LEMMA AdmitStep ==
  ASSUME IInv, TypeOK', NEW i \in Trades, NEW x \in Intents, Admit(i, x)
  PROVE  CustodyInv'
<1>0. TypeOK /\ CustodyInv
  BY DEF IInv
<1>1. /\ clock' = clock /\ clock \in Times /\ clock \in Int /\ lastTrade' = clock
      /\ at' = [at EXCEPT ![i] = clock] /\ prev' = [prev EXCEPT ![i] = lastTrade]
      /\ phase' = [phase EXCEPT ![i] = Admitted] /\ phase[i] = "idle"
      /\ intent' = [intent EXCEPT ![i] = x]
  BY <1>0, SubmitFacts, CustodyAssumption DEF Admit, TypeOK, Times
<1>2. ~interleaved' => ~interleaved /\ \A j \in Trades : ~Executing(j)
  BY <1>0, SubmitFacts DEF Admit
<1>3. /\ ~Kept(i) /\ Kept(i)' /\ at'[i] = clock /\ intent'[i] = x /\ prev'[i] = lastTrade
  BY <1>0, <1>1 DEF TypeOK, Kept, Admitted
<1>4. ASSUME NEW j \in Trades, j # i
      PROVE  /\ Kept(j)' <=> Kept(j)
             /\ Executing(j)' <=> Executing(j)
             /\ at'[j] = at[j] /\ intent'[j] = intent[j] /\ prev'[j] = prev[j]
  BY <1>0, <1>1, <1>4 DEF TypeOK, Kept, Executing
<1>5. ASSUME NEW j \in Trades, Kept(j) PROVE at[j] \in Times /\ at[j] \in Int /\ at[j] <= clock
  BY <1>0, <1>5, CustodyAssumption DEF CustodyInv, KeptStamped, Times
<1>6. WithinDailyCap'
  BY AdmissionFits DEF Admit, WithinDailyCap, DailyCap
<1>7. KeptStamped'
  BY <1>1, <1>3, <1>4, <1>0 DEF KeptStamped, CustodyInv, Times, Intents, Kinds
<1>8. ASSUME ~interleaved, NEW j \in Trades, Kept(j)
      PROVE  /\ lastTrade # Never /\ at[j] <= lastTrade /\ clock - lastTrade >= Cooldown
             /\ lastTrade \in Int /\ clock - at[j] >= Cooldown
  <2>1. lastTrade # Never /\ at[j] <= lastTrade
    BY <1>0, <1>8 DEF CustodyInv, StampsBehind
  <2>2. lastTrade \in Int
    BY <1>0, <2>1, CustodyAssumption DEF TypeOK, Times
  <2>3. ~Cooling
    BY DEF Admit, EarlyRefusal
  <2>4. clock - lastTrade >= Cooldown
    BY <1>1, <2>1, <2>2, <2>3, Numbers DEF Cooling
  <2>5. QED
    BY <1>1, <1>5, <1>8, <2>1, <2>2, <2>4, Numbers
<1>9. CooldownKept'
  <2> SUFFICES ASSUME ~interleaved', NEW j \in Trades, NEW k \in Trades,
                      Kept(j)', Kept(k)', j # k, at'[j] <= at'[k]
               PROVE  at'[k] - at'[j] >= Cooldown
    BY DEF CooldownKept
  <2>0. ~interleaved
    BY <1>2
  <2>1. CASE k = i
    BY <2>0, <2>1, <1>1, <1>3, <1>4, <1>8
  <2>2. CASE j = i
    <3>1. Kept(k) /\ at'[k] = at[k] /\ at'[j] = clock
      BY <2>2, <1>3, <1>4
    <3>2. at[k] <= clock /\ clock - at[k] >= Cooldown /\ at[k] \in Int
      BY <2>0, <3>1, <1>5, <1>8
    <3>3. QED
      BY <3>1, <3>2, <1>1, Numbers
  <2>3. CASE j # i /\ k # i
    BY <2>0, <2>3, <1>0, <1>4 DEF CustodyInv, CooldownKept
  <2>4. QED
    BY <2>1, <2>2, <2>3
<1>10. NoFalseCooldown'
  BY <1>1, <1>3 DEF NoFalseCooldown
<1>11. ASSUME ~interleaved' PROVE OneExecutes' /\ StampsBehind' /\ Restorable'
  <2>0. ~interleaved /\ \A j \in Trades : ~Executing(j)
    BY <1>2, <1>11
  <2>1. OneExecutes'
    BY <2>0, <1>4 DEF OneExecutes
  <2>2. StampsBehind'
    <3> SUFFICES ASSUME NEW j \in Trades, Kept(j)' PROVE clock # Never /\ at'[j] <= clock
      BY <1>1 DEF StampsBehind
    <3>1. QED
      BY <1>1, <1>3, <1>4, <1>5, CustodyAssumption
  <2>3. Restorable'
    <3> SUFFICES ASSUME NEW j \in Trades, Executing(j)'
                 PROVE  OthersBehind(j, prev[j])' /\ StampOfOther(j, prev[j])'
      BY DEF Restorable
    <3>1. j = i
      BY <2>0, <1>4
    <3>2. \A k \in Trades \ {i} : Kept(k)' => lastTrade # Never /\ at'[k] <= lastTrade
      BY <2>0, <1>4, <1>8
    <3>3. lastTrade # Never => \E k \in Trades \ {i} : Kept(k)' /\ at'[k] = lastTrade
      <4> SUFFICES ASSUME lastTrade # Never
                   PROVE \E k \in Trades \ {i} : Kept(k)' /\ at'[k] = lastTrade
        OBVIOUS
      <4>1. PICK k \in Trades : Kept(k) /\ at[k] = lastTrade
        BY <2>0, <1>0 DEF CustodyInv, NoFalseCooldown
      <4>2. QED
        BY <4>1, <1>3, <1>4
    <3>4. QED
      BY <3>1, <3>2, <3>3, <1>3 DEF OthersBehind, StampOfOther
  <2>4. QED
    BY <2>1, <2>2, <2>3
<1>12. QED
  BY <1>6, <1>7, <1>9, <1>10, <1>11 DEF CustodyInv

\* A reversal: the trades that are left stand as they did before the admission.
LEMMA ThrowStep ==
  ASSUME IInv, TypeOK', NEW i \in Trades, ExecuteThrows(i)
  PROVE  CustodyInv'
<1>0. TypeOK /\ CustodyInv
  BY DEF IInv
<1>1. /\ phase' = [phase EXCEPT ![i] = "reverted"] /\ Executing(i) /\ Kept(i)
      /\ lastTrade' = prev[i] /\ clock' = clock /\ intent' = intent /\ at' = at /\ prev' = prev
  BY DEF ExecuteThrows, Revert, Executing, Kept
<1>2. interleaved' = interleaved
  BY DEF ExecuteThrows
<1>3. ~Kept(i)' /\ ~Executing(i)'
  BY <1>0, <1>1 DEF TypeOK, Kept, Executing
<1>4. ASSUME NEW j \in Trades, j # i
      PROVE  (Kept(j)' <=> Kept(j)) /\ (Executing(j)' <=> Executing(j))
  BY <1>0, <1>1, <1>4 DEF TypeOK, Kept, Executing
<1>5. WithinDailyCap'
  <2>1. intent[i] \in Intents
    BY <1>0, <1>1 DEF CustodyInv, KeptStamped
  <2>2. intent[i].size \in Nat /\ daySpent \in Nat
    BY <1>0, <2>1, CustodyAssumption DEF Intents, TypeOK
  <2>3. daySpent' <= DailyCap
    BY <1>0, <2>2, Numbers DEF ExecuteThrows, Revert, CustodyInv, WithinDailyCap
  <2>4. QED
    BY <2>3 DEF WithinDailyCap, DailyCap
<1>6. KeptStamped'
  BY <1>0, <1>1, <1>3, <1>4 DEF CustodyInv, KeptStamped, Times, Intents, Kinds
<1>7. CooldownKept'
  <2> SUFFICES ASSUME ~interleaved', NEW j \in Trades, NEW k \in Trades,
                      Kept(j)', Kept(k)', j # k, at'[j] <= at'[k]
               PROVE  at'[k] - at'[j] >= Cooldown
    BY DEF CooldownKept
  <2>1. j # i /\ k # i /\ ~interleaved
    BY <1>2, <1>3
  <2>2. QED
    BY <2>1, <1>0, <1>1, <1>4 DEF CustodyInv, CooldownKept
<1>8. ASSUME ~interleaved'
      PROVE  NoFalseCooldown' /\ OneExecutes' /\ StampsBehind' /\ Restorable'
  <2>0. ~interleaved /\ OneExecutes /\ OthersBehind(i, prev[i]) /\ StampOfOther(i, prev[i])
    BY <1>0, <1>1, <1>2, <1>8 DEF CustodyInv, Restorable
  <2>1. \A j \in Trades : ~Executing(j)'
    BY <2>0, <1>1, <1>3, <1>4 DEF OneExecutes
  <2>2. NoFalseCooldown'
    BY <2>0, <1>1, <1>4 DEF NoFalseCooldown, StampOfOther
  <2>3. StampsBehind'
    BY <2>0, <1>1, <1>3, <1>4 DEF StampsBehind, OthersBehind
  <2>4. QED
    BY <2>1, <2>2, <2>3 DEF OneExecutes, Restorable
<1>9. NoFalseCooldown'
  BY <1>8 DEF NoFalseCooldown
<1>10. QED
  BY <1>5, <1>6, <1>7, <1>8, <1>9 DEF CustodyInv

LEMMA CustodyInvStep == IInv /\ TypeOK' /\ [Next]_vars => CustodyInv'
<1> SUFFICES ASSUME IInv, TypeOK', [Next]_vars PROVE CustodyInv'
  OBVIOUS
<1>0. TypeOK /\ CustodyInv /\ WithinDailyCap /\ clock \in Int
  BY CustodyAssumption DEF IInv, TypeOK, CustodyInv, Times
<1>1. CASE Tick
  <2>1. clock <= clock' /\ WithinDailyCap'
    BY <1>0, <1>1 DEF Tick, engine, WithinDailyCap, DailyCap
  <2>2. interleaved' = interleaved /\ phase' = phase /\ at' = at /\ prev' = prev
        /\ lastTrade' = lastTrade /\ intent' = intent
    BY <1>1 DEF Tick, engine
  <2>3. QED
    BY <2>1, <2>2, QuietStep DEF Kept, Executing
<1>2. ASSUME NEW i \in Trades, NEW x \in Intents, RefuseEarly(i, x) \/ RefuseLate(i, x)
      PROVE  CustodyInv'
  <2>1. PICK r \in Refusals : phase' = [phase EXCEPT ![i] = r]
    BY <1>2, RefusalTypes DEF RefuseEarly, RefuseLate
  <2>2. /\ at' = at /\ prev' = prev /\ lastTrade' = lastTrade /\ clock' = clock /\ phase[i] = "idle"
        /\ intent' = [intent EXCEPT ![i] = x]
        /\ ~interleaved' => ~interleaved
    BY <1>0, <1>2, SubmitFacts DEF RefuseEarly, RefuseLate, engine
  <2>3. WithinDailyCap'
    BY <1>0, <1>2, SpentTodayFits DEF RefuseEarly, RefuseLate, engine, WithinDailyCap, DailyCap
  <2>4. ASSUME NEW j \in Trades
        PROVE  /\ Kept(j)' <=> Kept(j)
               /\ Executing(j)' <=> Executing(j)
               /\ Kept(j) => intent'[j] = intent[j]
    BY <1>0, <2>1, <2>2 DEF TypeOK, Kept, Executing, Refusals
  <2>5. QED
    BY <1>0, <2>2, <2>3, <2>4, QuietStep
<1>3. ASSUME NEW i \in Trades, NEW x \in Intents, Admit(i, x) PROVE CustodyInv'
  BY <1>3, AdmitStep
<1>4. ASSUME NEW i \in Trades, SendTrade(i) \/ SettleTrade(i) PROVE CustodyInv'
  <2>1. interleaved' = interleaved /\ phase' = phase /\ at' = at /\ prev' = prev
        /\ lastTrade' = lastTrade /\ intent' = intent /\ clock' = clock /\ daySpent' = daySpent
    BY <1>4 DEF SendTrade, SettleTrade, engine
  <2>2. QED
    BY <1>0, <2>1, QuietStep DEF Kept, Executing, WithinDailyCap, DailyCap
<1>5. ASSUME NEW i \in Trades, ExecuteResolves(i) PROVE CustodyInv'
  <2>1. interleaved' = interleaved /\ at' = at /\ prev' = prev
        /\ lastTrade' = lastTrade /\ intent' = intent /\ clock' = clock /\ daySpent' = daySpent
    BY <1>5 DEF ExecuteResolves, engine
  <2>2. ASSUME NEW j \in Trades
        PROVE (Kept(j)' <=> Kept(j)) /\ (Executing(j)' => Executing(j))
    BY <1>0, <1>5 DEF ExecuteResolves, TypeOK, Kept, Executing
  <2>3. QED
    BY <1>0, <2>1, <2>2, QuietStep DEF WithinDailyCap, DailyCap
<1>6. ASSUME NEW i \in Trades, ExecuteThrows(i) PROVE CustodyInv'
  BY <1>6, ThrowStep
<1>7. CASE UNCHANGED vars
  BY <1>0, <1>7, QuietStep DEF vars, Kept, Executing, WithinDailyCap, DailyCap
<1>8. QED
  BY <1>1, <1>2, <1>3, <1>4, <1>5, <1>6, <1>7 DEF Next, Execution

\* The type invariant and what is known of the trades that stand hold together.
THEOREM Inductive == Spec => []IInv
<1>1. IInv /\ [Next]_vars => IInv'
  BY TypePreserved, CustodyInvStep DEF IInv
<1>2. QED
  BY InitIInv, <1>1, PTL DEF Spec

\* Every variable keeps its type; the day's spend is never negative.
THEOREM TypeCorrect == Spec => []TypeOK
<1>1. IInv => TypeOK
  BY DEF IInv
<1>2. QED
  BY Inductive, <1>1, PTL

\* The day's spend never passes the normalized daily limit, whatever overlaps (custody.ts
\* 171-186, 192).
THEOREM CapKept == Spec => []WithinDailyCap
<1>1. IInv => WithinDailyCap
  BY DEF IInv, CustodyInv
<1>2. QED
  BY Inductive, <1>1, PTL

\* For a strategy that awaits its trades, those that stand are a cooldown apart, through
\* every failure, reversal and midnight, and a cooldown is always due to a trade that
\* stands (custody.ts 167-169, 184, 189-193).
THEOREM CooldownHeld == Spec => []CooldownIsTrue
<1>1. IInv => CooldownIsTrue
  BY DEF IInv, CustodyInv, CooldownIsTrue
<1>2. QED
  BY Inductive, <1>1, PTL
-----------------------------------------------------------------------------
(* The sum of a day.                                                       *)

\* Time divides into days in order.
LEMMA DaysInOrder ==
  ASSUME NEW a \in Nat, NEW b \in Nat, NEW n \in Nat \ {0}, a <= b
  PROVE  a \div n <= b \div n
<1> DEFINE p == a \div n q == b \div n
<1>1. p \in Nat /\ q \in Nat /\ n * p <= a /\ b < n * q + n
  OBVIOUS
<1> HIDE DEF p, q
<1>2. ASSUME p > q PROVE FALSE
  <2>1. PICK k \in Nat : p = q + 1 + k
    <3>1. p - q - 1 \in Nat /\ p = q + 1 + (p - q - 1)
      BY <1>1, <1>2
    <3>2. QED
      BY <3>1
  <2>2. n * p = n * q + n + n * k
    BY <1>1, <2>1
  <2>3. n * k \in Nat /\ n * q \in Nat
    BY <1>1
  <2>4. QED
    BY <1>1, <2>2, <2>3
<1>3. QED
  BY <1>1, <1>2 DEF p, q

\* A trade of size n has n units.
LEMMA UnitsOfOne ==
  ASSUME NEW i, NEW n \in Nat
  PROVE  IsFiniteSet({i} \X (1..n)) /\ Cardinality({i} \X (1..n)) = n
<1>1. IsFiniteSet(1..n) /\ Cardinality(1..n) = n
  <2>1. IsFiniteSet(1..n) /\ Cardinality(1..n) = IF 1 > n THEN 0 ELSE n - 1 + 1
    BY FS_Interval
  <2>2. QED
    BY <2>1
<1>2. IsFiniteSet({i}) /\ Cardinality({i}) = 1
  BY FS_Singleton
<1>3. IsFiniteSet({i} \X (1..n)) /\ Cardinality({i} \X (1..n)) = 1 * n
  BY <1>1, <1>2, FS_Product
<1>4. QED
  BY <1>3

\* Units that are not counted yet add up.
LEMMA AddUnits ==
  ASSUME NEW U, IsFiniteSet(U), NEW i, NEW n \in Nat, U \cap ({i} \X (1..n)) = {}
  PROVE  Cardinality(U \cup ({i} \X (1..n))) = Cardinality(U) + n
<1> DEFINE V == {i} \X (1..n)
<1>1. IsFiniteSet(V) /\ Cardinality(V) = n /\ Cardinality(U) \in Nat
  BY UnitsOfOne, FS_CardinalityType
<1>2. Cardinality(U \cap V) = 0
  BY FS_EmptySet
<1> HIDE DEF V
<1>3. Cardinality(U \cup V) = Cardinality(U) + Cardinality(V) - Cardinality(U \cap V)
  BY <1>1, FS_Union
<1>4. QED
  BY <1>1, <1>2, <1>3 DEF V

\* The sum of the sizes of the trades I.
SumOf(I) == Cardinality(UNION {Units(i) : i \in I})

LEMMA SumFinite ==
  ASSUME NEW I, IsFiniteSet(I), \A i \in I : intent[i].size \in Nat
  PROVE  IsFiniteSet(UNION {Units(i) : i \in I}) /\ SumOf(I) \in Nat
<1>1. IsFiniteSet({Units(i) : i \in I})
  <2> DEFINE f == [i \in I |-> Units(i)]
  <2>1. f \in Surjection(I, {Units(i) : i \in I})
    BY DEF Surjection
  <2>2. QED
    BY <2>1, FS_Surjection
<1>2. IsFiniteSet(UNION {Units(i) : i \in I})
  <2>1. \A i \in I : IsFiniteSet(Units(i))
    BY UnitsOfOne DEF Units
  <2>2. QED
    BY <1>1, <2>1, FS_UNION
<1>3. QED
  BY <1>2, FS_CardinalityType DEF SumOf

\* One more trade adds its size.
LEMMA SumAdd ==
  ASSUME NEW I, IsFiniteSet(I), \A j \in I : intent[j].size \in Nat,
         NEW i, i \notin I, intent[i].size \in Nat
  PROVE  SumOf(I \cup {i}) = SumOf(I) + intent[i].size
<1> DEFINE U == UNION {Units(j) : j \in I}
           n == intent[i].size
           V == {i} \X (1..n)
<1>1. IsFiniteSet(U)
  BY SumFinite
<1>2. U \cap V = {} /\ UNION {Units(j) : j \in I \cup {i}} = U \cup V
  BY DEF Units
<1>3. SumOf(I \cup {i}) = Cardinality(U \cup V)
  BY <1>2 DEF SumOf
<1> HIDE DEF U, n
<1>4. Cardinality(U \cup V) = Cardinality(U) + n
  BY <1>1, <1>2, AddUnits DEF n
<1>5. QED
  BY <1>3, <1>4 DEF SumOf, U, n

\* So does one whose intent is written down as it is added.
LEMMA SumGrows ==
  ASSUME NEW I, IsFiniteSet(I), \A j \in I : intent[j].size \in Nat /\ intent'[j] = intent[j],
         NEW i, i \notin I, intent'[i].size \in Nat
  PROVE  SumOf(I \cup {i})' = SumOf(I) + intent'[i].size
<1> DEFINE U == UNION {Units(j) : j \in I}
           n == intent'[i].size
           V == {i} \X (1..n)
<1>1. IsFiniteSet(U)
  BY SumFinite
<1>2. UNION {Units(j)' : j \in I \cup {i}} = U \cup V
  <2>1. \A j \in I : Units(j)' = Units(j)
    BY DEF Units
  <2>2. Units(i)' = V
    BY DEF Units
  <2> HIDE DEF V
  <2>3. QED
    BY <2>1, <2>2
<1>3. U \cap V = {}
  BY DEF Units
<1>4. SumOf(I \cup {i})' = Cardinality(U \cup V)
  BY <1>2 DEF SumOf
<1> HIDE DEF U, n
<1>5. Cardinality(U \cup V) = Cardinality(U) + n
  BY <1>1, <1>3, AddUnits DEF n
<1>6. QED
  BY <1>4, <1>5 DEF SumOf, U, n

LEMMA SumEmpty == SumOf({}) = 0
<1>1. UNION {Units(i) : i \in {}} = {}
  OBVIOUS
<1>2. QED
  BY <1>1, FS_EmptySet DEF SumOf

\* A step that keeps the intents of I keeps its sum.
LEMMA SumSame ==
  ASSUME NEW I, \A i \in I : intent'[i] = intent[i]
  PROVE  SumOf(I)' = SumOf(I)
<1>1. \A i \in I : Units(i)' = Units(i)
  BY DEF Units
<1>2. UNION {Units(i)' : i \in I} = UNION {Units(i) : i \in I}
  BY <1>1
<1>3. QED
  BY <1>2 DEF SumOf

Submitted == {i \in Trades : phase[i] # "idle"}

\* What stands on a day is a finite set of trades, with sizes.
LEMMA StandingFinite ==
  ASSUME IInv, IsFiniteSet(Submitted), NEW d
  PROVE  /\ IsFiniteSet(StandingOn(d)) /\ KeptOn(d) = SumOf(StandingOn(d)) /\ KeptOn(d) \in Nat
         /\ \A i \in StandingOn(d) : intent[i].size \in Nat
<1>1. StandingOn(d) \subseteq Submitted
  BY DEF StandingOn, Submitted, Kept
<1>2. \A i \in StandingOn(d) : intent[i].size \in Nat
  BY CustodyAssumption DEF StandingOn, IInv, CustodyInv, KeptStamped, Intents
<1>3. KeptOn(d) = SumOf(StandingOn(d))
  BY DEF KeptOn, SumOf
<1>4. QED
  BY <1>1, <1>2, <1>3, FS_Subset, SumFinite

LEMMA SubmittedGrow == TypeOK /\ IsFiniteSet(Submitted) /\ [Next]_vars => IsFiniteSet(Submitted)'
<1> SUFFICES ASSUME TypeOK, IsFiniteSet(Submitted), [Next]_vars PROVE IsFiniteSet(Submitted')
  OBVIOUS
<1>1. ASSUME Tick \/ UNCHANGED vars PROVE Submitted' = Submitted
  BY <1>1 DEF Tick, vars, Submitted
<1>2. ASSUME NEW i \in Trades, NEW x \in Intents, RefuseEarly(i, x) \/ RefuseLate(i, x) \/ Admit(i, x)
      PROVE  Submitted' \subseteq Submitted \cup {i}
  BY <1>2 DEF RefuseEarly, RefuseLate, Admit, Submitted, TypeOK
<1>3. ASSUME NEW i \in Trades, Execution(i) PROVE Submitted' \subseteq Submitted \cup {i}
  BY <1>3 DEF Execution, SendTrade, SettleTrade, ExecuteResolves, ExecuteThrows, Submitted, TypeOK
<1>4. \E i : Submitted' \subseteq Submitted \cup {i}
  BY <1>1, <1>2, <1>3 DEF Next
<1>5. \A i : IsFiniteSet(Submitted \cup {i})
  BY FS_AddElement
<1>6. QED
  BY <1>4, <1>5, FS_Subset

\* What stands on a day stays what it was when no trade begins or ceases to stand.
LEMMA KeptStays ==
  ASSUME \A i \in Trades : Kept(i)' <=> Kept(i),
         \A i \in Trades : Kept(i) => at'[i] = at[i] /\ intent'[i] = intent[i], NEW d
  PROVE  KeptOn(d)' = KeptOn(d)
<1>1. StandingOn(d)' = StandingOn(d)
  BY DEF StandingOn, DayOf
<1>2. \A i \in StandingOn(d) : Units(i)' = Units(i)
  BY DEF StandingOn, Units
<1>3. UNION {Units(i)' : i \in StandingOn(d)} = UNION {Units(i) : i \in StandingOn(d)}
  BY <1>2
<1>4. QED
  BY <1>1, <1>3 DEF KeptOn

\* The day of a trade that stands is a number.
LEMMA DayOfKept ==
  ASSUME IInv, NEW i \in Trades, Kept(i)
  PROVE  DayOf(i) \in Nat /\ at[i] \in Nat
<1>1. at[i] \in Nat /\ DayLength \in Nat /\ DayLength > 0
  BY CustodyAssumption DEF IInv, CustodyInv, KeptStamped, Times
<1>2. QED
  BY <1>1 DEF DayOf

\* A step that begins, ends and counts nothing.
LEMMA SpendQuiet ==
  ASSUME IInv, IInv', SpendInv, IsFiniteSet(Submitted)',
         \A i \in Trades : Kept(i)' <=> Kept(i),
         \A i \in Trades : Kept(i) => at'[i] = at[i] /\ intent'[i] = intent[i],
         \A i \in Trades : Executing(i)' => Executing(i),
         day' = day, daySpent' = daySpent, clock <= clock', ~interleaved' => ~interleaved
  PROVE  SpendInv'
<1>1. \A d : KeptOn(d)' = KeptOn(d)
  BY KeptStays
<1>2. Today <= Today'
  <2>1. clock \in Nat /\ clock' \in Nat /\ DayLength \in Nat \ {0}
    BY CustodyAssumption DEF IInv, TypeOK, Times
  <2>2. QED
    BY <2>1, DaysInOrder DEF Today
<1>3. day \in Int /\ Today \in Int /\ Today' \in Int
  <2>1. IInv' => Today' \in Nat
    <3>1. IInv' => clock' \in Nat /\ DayLength \in Nat /\ DayLength > 0
      BY CustodyAssumption DEF IInv, TypeOK, Times
    <3>2. QED
      BY <3>1 DEF Today
  <2>2. QED
    BY <2>1, TodayType DEF IInv, TypeOK
<1>4. DayIsLast'
  BY <1>2, <1>3 DEF SpendInv, DayIsLast, DayOf
<1>5. ExecutesToday'
  BY DEF SpendInv, ExecutesToday, DayOf, Kept, Executing
<1>6. SpendIsExact'
  BY <1>1 DEF SpendInv, SpendIsExact, NothingInvented, SpendIsSum, DaysWithinCap, DailyCap
<1>7. QED
  BY <1>4, <1>5, <1>6 DEF SpendInv, Submitted

\* On a day the engine has not seen, nothing stands yet.
LEMMA NewDayIsEmpty ==
  ASSUME IInv, SpendInv, day # Today
  PROVE  StandingOn(Today) = {} /\ KeptOn(Today) = 0
<1>1. day \in Int /\ Today \in Int
  BY TodayType DEF IInv, TypeOK
<1>2. ASSUME NEW i \in StandingOn(Today) PROVE FALSE
  BY <1>1, <1>2, DayOfKept DEF StandingOn, SpendInv, DayIsLast
<1>3. StandingOn(Today) = {}
  BY <1>2
<1>4. QED
  BY <1>3, StandingFinite, SumEmpty DEF SpendInv, Submitted

\* The spend the checks see is what stands today.
LEMMA SpentTodayIsKept ==
  ASSUME IInv, SpendInv
  PROVE  /\ SpentToday \in Nat /\ KeptOn(Today) \in Nat
         /\ SpentToday <= KeptOn(Today)
         /\ ~interleaved => SpentToday = KeptOn(Today)
<1>1. SpentToday \in Nat /\ KeptOn(Today) \in Nat /\ Today \in Nat
  BY SpentTodayFits, StandingFinite, TodayType DEF IInv, SpendInv, Submitted
<1>2. CASE day = Today
  BY <1>1, <1>2 DEF SpentToday, SpendInv, SpendIsExact, NothingInvented, SpendIsSum
<1>3. CASE day # Today
  BY <1>1, <1>3, NewDayIsEmpty DEF SpentToday
<1>4. QED
  BY <1>1, <1>2, <1>3

\* A refusal after the roll-over: the day is today's, and its spend is what it was.
LEMMA RefuseLateSpend ==
  ASSUME IInv, SpendInv, IsFiniteSet(Submitted)', NEW i \in Trades, NEW x \in Intents, RefuseLate(i, x)
  PROVE  SpendInv'
<1>0. TypeOK
  BY DEF IInv
<1>1. /\ day' = Today /\ daySpent' = SpentToday /\ at' = at /\ clock' = clock /\ phase[i] = "idle"
      /\ intent' = [intent EXCEPT ![i] = x]
      /\ ~interleaved' => ~interleaved /\ \A j \in Trades : ~Executing(j)
  BY <1>0, SubmitFacts DEF RefuseLate
<1>2. PICK r \in Refusals : phase' = [phase EXCEPT ![i] = r]
  BY RefusalTypes DEF RefuseLate
<1>3. ASSUME NEW j \in Trades
      PROVE  /\ Kept(j)' <=> Kept(j)
             /\ Executing(j)' <=> Executing(j)
             /\ Kept(j) => at'[j] = at[j] /\ intent'[j] = intent[j]
  BY <1>0, <1>1, <1>2 DEF TypeOK, Kept, Executing, Refusals
<1>4. \A d : KeptOn(d)' = KeptOn(d)
  BY <1>3, KeptStays
<1>5. day \in Int /\ Today \in Int /\ Today' = Today /\ Today # -1
  BY <1>0, <1>1, TodayType DEF TypeOK, Today
<1>6. DayIsLast'
  <2>1. \A j \in Trades : Kept(j) => DayOf(j) \in Int /\ DayOf(j) <= day
    BY DayOfKept DEF SpendInv, DayIsLast
  <2>2. QED
    BY <1>1, <1>3, <1>5, <2>1 DEF SpendInv, DayIsLast, DayOf
<1>7. ExecutesToday'
  BY <1>1, <1>3 DEF ExecutesToday
<1>8. SpendIsExact'
  BY <1>1, <1>4, <1>5, SpentTodayIsKept
  DEF SpendInv, SpendIsExact, NothingInvented, SpendIsSum, DaysWithinCap, DailyCap
<1>9. QED
  BY <1>6, <1>7, <1>8 DEF SpendInv, Submitted

\* An admission: today's sum and today's spend grow by the same size, within the limit.
LEMMA AdmitSpend ==
  ASSUME IInv, SpendInv, IsFiniteSet(Submitted)', NEW i \in Trades, NEW x \in Intents, Admit(i, x)
  PROVE  SpendInv'
<1>0. TypeOK
  BY DEF IInv
<1>1. /\ day' = Today /\ daySpent' = SpentToday + x.size /\ clock' = clock /\ phase[i] = "idle"
      /\ at' = [at EXCEPT ![i] = clock] /\ phase' = [phase EXCEPT ![i] = Admitted]
      /\ intent' = [intent EXCEPT ![i] = x]
      /\ ~interleaved' => ~interleaved /\ \A j \in Trades : ~Executing(j)
  BY <1>0, SubmitFacts DEF Admit
<1>2. ~Kept(i) /\ Kept(i)' /\ DayOf(i)' = Today /\ intent'[i] = x
  BY <1>0, <1>1 DEF TypeOK, Kept, Admitted, DayOf, Today
<1>3. ASSUME NEW j \in Trades, j # i
      PROVE  /\ Kept(j)' <=> Kept(j)
             /\ Executing(j)' <=> Executing(j)
             /\ DayOf(j)' = DayOf(j) /\ intent'[j] = intent[j]
  BY <1>0, <1>1, <1>3 DEF TypeOK, Kept, Executing, DayOf
<1>4. day \in Int /\ Today \in Int /\ Today' = Today /\ Today # -1
  BY <1>0, <1>1, TodayType DEF TypeOK, Today
<1>5. x.size \in Nat /\ SpentToday + x.size <= DailyCap
  BY AdmissionFits DEF Admit
<1>6. KeptOn(Today)' = KeptOn(Today) + x.size
  <2>1. StandingOn(Today)' = StandingOn(Today) \cup {i} /\ i \notin StandingOn(Today)
    <3>1. StandingOn(Today)' = {j \in Trades : Kept(j)' /\ DayOf(j)' = Today}
      BY <1>4 DEF StandingOn
    <3>2. QED
      BY <1>2, <1>3, <3>1 DEF StandingOn
  <2>2. KeptOn(Today)' = SumOf(StandingOn(Today) \cup {i})'
    BY <2>1, <1>4 DEF KeptOn, SumOf
  <2>3. /\ IsFiniteSet(StandingOn(Today)) /\ KeptOn(Today) = SumOf(StandingOn(Today))
        /\ \A j \in StandingOn(Today) : intent[j].size \in Nat
    BY StandingFinite DEF SpendInv, Submitted
  <2>4. \A j \in StandingOn(Today) : intent'[j] = intent[j]
    BY <1>3, <2>1 DEF StandingOn
  <2>5. SumOf(StandingOn(Today) \cup {i})' = SumOf(StandingOn(Today)) + intent'[i].size
    BY <1>2, <1>5, <2>1, <2>3, <2>4, SumGrows
  <2>6. QED
    BY <1>2, <2>2, <2>3, <2>5
<1>7. ASSUME NEW d, d # Today PROVE KeptOn(d)' = KeptOn(d)
  <2>1. StandingOn(d)' = StandingOn(d) /\ \A j \in StandingOn(d) : j # i
    BY <1>2, <1>3, <1>7 DEF StandingOn
  <2>2. \A j \in StandingOn(d) : intent'[j] = intent[j]
    BY <1>3, <2>1 DEF StandingOn
  <2>3. SumOf(StandingOn(d))' = SumOf(StandingOn(d))
    <3>1. \A j \in StandingOn(d) : Units(j)' = Units(j)
      BY <2>2 DEF Units
    <3>2. UNION {Units(j)' : j \in StandingOn(d)} = UNION {Units(j) : j \in StandingOn(d)}
      BY <3>1
    <3>3. QED
      BY <2>1, <3>2 DEF SumOf
  <2>4. QED
    BY <2>3 DEF KeptOn, SumOf
<1>8. DayIsLast'
  <2>1. \A j \in Trades : Kept(j) => DayOf(j) \in Int /\ DayOf(j) <= day
    BY DayOfKept DEF SpendInv, DayIsLast
  <2>2. \A j \in Trades : Kept(j)' => DayOf(j)' <= Today
    BY <1>2, <1>3, <1>4, <2>1 DEF SpendInv, DayIsLast
  <2>3. QED
    BY <1>1, <1>4, <2>2 DEF DayIsLast
<1>9. ExecutesToday'
  BY <1>1, <1>2, <1>3 DEF ExecutesToday
<1>10. SpendIsExact'
  <2>1. SpentToday \in Nat /\ KeptOn(Today) \in Nat /\ DailyCap \in Nat
        /\ SpentToday <= KeptOn(Today)
        /\ (~interleaved => SpentToday = KeptOn(Today))
    BY SpentTodayIsKept, Numbers
  <2>2. NothingInvented' /\ SpendIsSum'
    <3>1. KeptOn(day)' = KeptOn(Today) + x.size
      BY <1>1, <1>4, <1>6 DEF KeptOn, StandingOn
    <3>2. QED
      BY <1>1, <1>5, <2>1, <3>1 DEF NothingInvented, SpendIsSum
  <2>3. DaysWithinCap'
    <3> SUFFICES ASSUME ~interleaved', NEW d \in Days PROVE KeptOn(d)' <= DailyCap
      BY DEF DaysWithinCap, DailyCap, Days
    <3>1. CASE d = Today
      BY <1>1, <1>4, <1>5, <1>6, <2>1, <3>1 DEF KeptOn, StandingOn
    <3>2. CASE d # Today
      BY <1>1, <1>7, <3>2 DEF SpendInv, SpendIsExact, DaysWithinCap
    <3>3. QED
      BY <3>1, <3>2
  <2>4. QED
    BY <2>2, <2>3 DEF SpendIsExact
<1>11. QED
  BY <1>8, <1>9, <1>10 DEF SpendInv, Submitted

\* A reversal takes the trade from the sum of its day, and its size from the spend.
LEMMA ThrowSpend ==
  ASSUME IInv, SpendInv, IsFiniteSet(Submitted)', NEW i \in Trades, ExecuteThrows(i)
  PROVE  SpendInv'
<1>0. TypeOK
  BY DEF IInv
<1>1. /\ phase' = [phase EXCEPT ![i] = "reverted"] /\ Executing(i) /\ Kept(i)
      /\ clock' = clock /\ intent' = intent /\ at' = at /\ day' = day /\ interleaved' = interleaved
      /\ daySpent' = IF daySpent < intent[i].size THEN 0 ELSE daySpent - intent[i].size
  BY DEF ExecuteThrows, Revert, Executing, Kept
<1>2. ~Kept(i)' /\ ~Executing(i)'
  BY <1>0, <1>1 DEF TypeOK, Kept, Executing
<1>3. \A j \in Trades \ {i} : (Kept(j)' <=> Kept(j)) /\ (Executing(j)' <=> Executing(j))
  BY <1>0, <1>1 DEF TypeOK, Kept, Executing
<1>4. \A d : StandingOn(d)' = StandingOn(d) \ {i}
  BY <1>1, <1>2, <1>3 DEF StandingOn, DayOf
<1>5. \A d : KeptOn(d)' = SumOf(StandingOn(d) \ {i})
  BY <1>1, <1>4 DEF KeptOn, SumOf, Units
<1>6. intent[i].size \in Nat /\ daySpent \in Nat /\ day \in Int
  <2>1. intent[i] \in Intents
    BY <1>1 DEF IInv, CustodyInv, KeptStamped
  <2>2. intent[i].size \in Nat
    BY <2>1, CustodyAssumption DEF Intents
  <2>3. daySpent \in Nat /\ day \in Int
    BY <1>0 DEF TypeOK
  <2>4. QED
    BY <2>2, <2>3
<1>7. ASSUME NEW d
      PROVE  /\ KeptOn(d) \in Nat /\ KeptOn(d)' \in Nat
             /\ DayOf(i) = d => KeptOn(d) = KeptOn(d)' + intent[i].size
             /\ DayOf(i) # d => KeptOn(d)' = KeptOn(d)
  <2> DEFINE I == StandingOn(d) \ {i}
  <2>1. /\ IsFiniteSet(StandingOn(d)) /\ KeptOn(d) = SumOf(StandingOn(d)) /\ KeptOn(d) \in Nat
        /\ \A j \in StandingOn(d) : intent[j].size \in Nat
    BY StandingFinite DEF SpendInv, Submitted
  <2>2. IsFiniteSet(I) /\ i \notin I /\ \A j \in I : intent[j].size \in Nat
    BY <2>1, FS_Subset
  <2>3. SumOf(I) \in Nat /\ SumOf(I \cup {i}) = SumOf(I) + intent[i].size
    <3> HIDE DEF I
    <3>1. QED
      BY <1>6, <2>2, SumFinite, SumAdd
  <2>4. DayOf(i) = d => StandingOn(d) = I \cup {i}
    BY <1>1 DEF StandingOn
  <2>5. DayOf(i) # d => StandingOn(d) = I
    BY DEF StandingOn
  <2>6. QED
    BY <1>5, <2>1, <2>3, <2>4, <2>5
<1>8. DayIsLast'
  BY <1>1, <1>2, <1>3 DEF SpendInv, DayIsLast, DayOf, Today
<1>9. ExecutesToday'
  BY <1>1, <1>2, <1>3 DEF SpendInv, ExecutesToday, DayOf
<1>10. \A d : KeptOn(d)' <= KeptOn(d)
  BY <1>6, <1>7
<1>11. KeptOn(day)' \in Nat /\ KeptOn(day) \in Nat
       /\ (DayOf(i) = day => KeptOn(day) = KeptOn(day)' + intent[i].size)
       /\ (DayOf(i) # day => KeptOn(day)' = KeptOn(day))
  <2>1. \A d : d = day => KeptOn(d)' = KeptOn(day)'
    BY <1>1 DEF KeptOn, StandingOn
  <2>2. QED
    BY <1>7, <2>1
<1>12. NothingInvented'
  BY <1>1, <1>6, <1>11 DEF SpendInv, SpendIsExact, NothingInvented
<1>13. SpendIsSum'
  <2> SUFFICES ASSUME ~interleaved', day' # -1 PROVE daySpent' = KeptOn(day)'
    BY DEF SpendIsSum
  <2>1. daySpent = KeptOn(day) /\ DayOf(i) = day
    BY <1>1 DEF SpendInv, SpendIsExact, SpendIsSum, ExecutesToday
  <2>2. QED
    BY <1>1, <1>6, <1>11, <2>1
<1>14. DaysWithinCap'
  <2> SUFFICES ASSUME ~interleaved', NEW d \in Days PROVE KeptOn(d)' <= DailyCap
    BY DEF DaysWithinCap, DailyCap, Days
  <2>1. KeptOn(d) <= DailyCap
    BY <1>1 DEF SpendInv, SpendIsExact, DaysWithinCap
  <2>2. QED
    BY <1>7, <1>10, <2>1, Numbers
<1>15. QED
  BY <1>8, <1>9, <1>12, <1>13, <1>14 DEF SpendInv, SpendIsExact, Submitted

LEMMA InitSpend == Init => SpendInv
<1> SUFFICES ASSUME Init PROVE SpendInv
  OBVIOUS
<1>1. Submitted = {} /\ \A d : StandingOn(d) = {}
  BY DEF Init, Submitted, StandingOn, Kept
<1>2. \A d : KeptOn(d) = 0
  <2>1. \A d : KeptOn(d) = SumOf(StandingOn(d))
    BY DEF KeptOn, SumOf
  <2>2. QED
    BY <1>1, <2>1, SumEmpty
<1>3. Today \in Nat
  BY InitIInv, TodayType DEF IInv
<1>4. DayIsLast /\ ExecutesToday
  BY <1>3 DEF Init, DayIsLast, ExecutesToday, Kept, Executing
<1>5. SpendIsExact
  BY <1>2, Numbers DEF Init, SpendIsExact, NothingInvented, SpendIsSum, DaysWithinCap
<1>6. QED
  BY <1>1, <1>4, <1>5, FS_EmptySet DEF SpendInv, Submitted

LEMMA NextSpend == IInv /\ IInv' /\ SpendInv /\ [Next]_vars => SpendInv'
<1>0. IInv /\ SpendInv /\ [Next]_vars => IsFiniteSet(Submitted)'
  BY SubmittedGrow DEF IInv, SpendInv, Submitted
<1> SUFFICES ASSUME IInv, IInv', SpendInv, [Next]_vars PROVE SpendInv'
  OBVIOUS
<1>1. IsFiniteSet(Submitted)' /\ TypeOK /\ clock \in Int
  BY <1>0, CustodyAssumption DEF IInv, TypeOK, Times
<1>2. CASE Tick
  <2>1. /\ clock <= clock' /\ day' = day /\ daySpent' = daySpent /\ interleaved' = interleaved
        /\ phase' = phase /\ at' = at /\ intent' = intent
    BY <1>1, <1>2 DEF Tick, engine
  <2>2. QED
    BY <1>1, <2>1, SpendQuiet DEF Kept, Executing
<1>3. ASSUME NEW i \in Trades, NEW x \in Intents, RefuseEarly(i, x) PROVE SpendInv'
  <2>1. PICK r \in Refusals : phase' = [phase EXCEPT ![i] = r]
    BY <1>3, RefusalTypes DEF RefuseEarly
  <2>2. /\ at' = at /\ day' = day /\ daySpent' = daySpent /\ clock <= clock' /\ phase[i] = "idle"
        /\ intent' = [intent EXCEPT ![i] = x]
        /\ ~interleaved' => ~interleaved
    BY <1>1, <1>3, SubmitFacts DEF RefuseEarly, engine
  <2>3. ASSUME NEW j \in Trades
        PROVE  /\ Kept(j)' <=> Kept(j)
               /\ Executing(j)' <=> Executing(j)
               /\ Kept(j) => intent'[j] = intent[j]
    BY <1>1, <2>1, <2>2 DEF TypeOK, Kept, Executing, Refusals
  <2>4. QED
    BY <1>1, <2>2, <2>3, SpendQuiet
<1>4. ASSUME NEW i \in Trades, NEW x \in Intents, RefuseLate(i, x) PROVE SpendInv'
  BY <1>1, <1>4, RefuseLateSpend
<1>5. ASSUME NEW i \in Trades, NEW x \in Intents, Admit(i, x) PROVE SpendInv'
  BY <1>1, <1>5, AdmitSpend
<1>6. ASSUME NEW i \in Trades, SendTrade(i) \/ SettleTrade(i) \/ ExecuteResolves(i) PROVE SpendInv'
  <2>1. /\ clock' = clock /\ day' = day /\ daySpent' = daySpent /\ interleaved' = interleaved
        /\ at' = at /\ intent' = intent
    BY <1>6 DEF SendTrade, SettleTrade, ExecuteResolves, engine
  <2>2. \A j \in Trades : (Kept(j)' <=> Kept(j)) /\ (Executing(j)' => Executing(j))
    BY <1>1, <1>6 DEF SendTrade, SettleTrade, ExecuteResolves, TypeOK, Kept, Executing
  <2>3. QED
    BY <1>1, <2>1, <2>2, SpendQuiet
<1>7. ASSUME NEW i \in Trades, ExecuteThrows(i) PROVE SpendInv'
  BY <1>1, <1>7, ThrowSpend
<1>8. CASE UNCHANGED vars
  <2>1. /\ clock' = clock /\ day' = day /\ daySpent' = daySpent /\ interleaved' = interleaved
        /\ phase' = phase /\ at' = at /\ intent' = intent
    BY <1>8 DEF vars
  <2>2. QED
    BY <1>1, <2>1, SpendQuiet DEF Kept, Executing
<1>9. QED
  BY <1>2, <1>3, <1>4, <1>5, <1>6, <1>7, <1>8 DEF Next, Execution

\* The engine never counts more for its day than what stands; for a strategy that awaits its
\* trades it counts exactly that, and no day's sum passes the daily limit, through every
\* failure, reversal and midnight (custody.ts 171-194).
THEOREM SpendCounted == Spec => []SpendIsExact
<1>1. SpendInv => SpendIsExact
  BY DEF SpendInv
<1>2. QED
  BY <1>1, Inductive, InitSpend, NextSpend, PTL DEF Spec

=============================================================================
