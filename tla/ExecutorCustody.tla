---------------------------- MODULE ExecutorCustody ----------------------------
(***************************************************************************)
(* Executor-backed custody and its PolicyEngine                            *)
(* (packages/agent/src/custody.ts): a trade intent is admitted against the *)
(* owner's policy, which advances the cooldown and the daily spend; then   *)
(* it is executed, and the admission is reverted when execution throws.    *)
(* Paper custody (MockCustody too) answers right after the admission.      *)
(*                                                                         *)
(* Admission is one synchronous stretch; execution is awaited, so with     *)
(* overlapping intents other admissions and reversals fall inside it.      *)
(***************************************************************************)
EXTENDS Integers, FiniteSets

CONSTANTS
  Trades,        \* the invocations of run()
  Sizes,         \* sizes (sizeSol) an intent can have; 0 for none
  Tokens, Denied, Listed,  \* denyTokens, and allowTokens (all of Tokens when null); an
                           \* intent that names no token passes both lists
  Allow,         \* the kinds of trade the policy allows
  MaxNotional, MaxDaily, Cooldown,  \* the policy's limits
  Mode,          \* "paper", "live", or live without an executor: "unequipped"
  DayLength,     \* clock ticks in a UTC day
  MaxClock,      \* bound on the clock
  Never,         \* lastTradeTs = -Infinity: no trade yet
  NoIntent       \* a trade not submitted

Kinds == {"buy", "sell"}
Intents == [kind : Kinds, token : Tokens, size : Sizes]
Times == 0..MaxClock

ASSUME CustodyAssumption ==
  /\ Sizes \subseteq Nat
  /\ Denied \subseteq Tokens /\ Listed \subseteq Tokens
  /\ Allow \subseteq Kinds
  /\ MaxNotional \in Nat /\ MaxDaily \in Nat /\ Cooldown \in Nat
  /\ Mode \in {"paper", "live", "unequipped"}
  /\ DayLength \in Nat \ {0} /\ MaxClock \in Nat
  /\ Never \notin Int
  /\ NoIntent \notin Intents

VARIABLES
  clock,      \* the time
  day,        \* the engine's day; -1 for the initial ''
  daySpent,   \* daySpentSol
  lastTrade,  \* lastTradeTs
  intent,     \* what each trade asked for
  phase,      \* how far each trade is
  at,         \* when each trade was admitted
  prev,       \* the cooldown stamp its admission replaced (prevTradeTs)
  fate,       \* what became of its transaction
  interleaved \* history: an intent was submitted while another was executing

engine == <<day, daySpent, lastTrade>>
vars == <<clock, day, daySpent, lastTrade, intent, phase, at, prev, fate, interleaved>>

Refusals == {"notAllowed", "denied", "unlisted", "cooldown", "badSize", "overTrade", "overDaily"}
Phases == {"idle", "executing", "done", "reverted", "unexecuted"} \cup Refusals

TypeOK ==
  /\ clock \in Times
  /\ day \in Nat \cup {-1}
  /\ daySpent \in Nat
  /\ lastTrade \in Times \cup {Never}
  /\ intent \in [Trades -> Intents \cup {NoIntent}]
  /\ phase \in [Trades -> Phases]
  /\ at \in [Trades -> Times \cup {Never}]
  /\ prev \in [Trades -> Times \cup {Never}]
  /\ fate \in [Trades -> {"none", "sent", "landed", "failed"}]
  /\ interleaved \in BOOLEAN

Init ==
  /\ clock = 0
  /\ day = -1
  /\ daySpent = 0
  /\ lastTrade = Never
  /\ intent = [i \in Trades |-> NoIntent]
  /\ phase = [i \in Trades |-> "idle"]
  /\ at = [i \in Trades |-> Never]
  /\ prev = [i \in Trades |-> Never]
  /\ fate = [i \in Trades |-> "none"]
  /\ interleaved = FALSE

-----------------------------------------------------------------------------
(* The policy.                                                             *)

\* normalizePolicy raises a daily limit below the per-trade one to it.
DailyCap == IF MaxDaily < MaxNotional THEN MaxNotional ELSE MaxDaily

Today == clock \div DayLength

\* The day's spend as admission sees it: nothing yet on a new UTC day.
SpentToday == IF day = Today THEN daySpent ELSE 0

\* Mutant of Cooling: the cooldown, too, starts over at midnight.
CoolingToday ==
  /\ lastTrade # Never
  /\ lastTrade \div DayLength = Today
  /\ clock - lastTrade < Cooldown

Cooling == lastTrade # Never /\ clock - lastTrade < Cooldown

\* The checks that come before the day rolls over, and those that come after it.
EarlyRefusal(x) ==
  IF x.kind \notin Allow THEN "notAllowed"
  ELSE IF x.token \in Denied THEN "denied"
  ELSE IF x.token \notin Listed THEN "unlisted"
  ELSE IF Cooling THEN "cooldown"
  ELSE "none"
LateRefusal(x) ==
  IF x.size = 0 THEN "badSize"
  ELSE IF x.size > MaxNotional THEN "overTrade"
  ELSE IF SpentToday + x.size > DailyCap THEN "overDaily"
  ELSE "none"

-----------------------------------------------------------------------------
Tick ==
  /\ clock < MaxClock
  /\ clock' = clock + 1
  /\ UNCHANGED <<engine, intent, phase, at, prev, fate, interleaved>>

\* A submission; a strategy may await each before it makes the next, or not.
Submit(i, x) ==
  /\ phase[i] = "idle"
  /\ interleaved' = (interleaved \/ \E j \in Trades : phase[j] = "executing")
  /\ intent' = [intent EXCEPT ![i] = x]
  /\ UNCHANGED <<clock, fate>>

\* Refused before the day rolled over: the engine is untouched.
RefuseEarly(i, x) ==
  /\ Submit(i, x)
  /\ EarlyRefusal(x) # "none"
  /\ phase' = [phase EXCEPT ![i] = EarlyRefusal(x)]
  /\ UNCHANGED <<engine, at, prev>>

\* Refused after it: the roll-over stays.
RefuseLate(i, x) ==
  /\ Submit(i, x)
  /\ EarlyRefusal(x) = "none"
  /\ LateRefusal(x) # "none"
  /\ phase' = [phase EXCEPT ![i] = LateRefusal(x)]
  /\ day' = Today
  /\ daySpent' = SpentToday
  /\ UNCHANGED <<lastTrade, at, prev>>

\* Admitted: the spend and the cooldown advance.  Paper custody is done; a live one
\* without an executor gives up, keeping the admission; else the trade executes.
Admitted ==
  IF Mode = "paper" THEN "done" ELSE IF Mode = "live" THEN "executing" ELSE "unexecuted"
Admit(i, x) ==
  /\ Submit(i, x)
  /\ EarlyRefusal(x) = "none"
  /\ LateRefusal(x) = "none"
  /\ phase' = [phase EXCEPT ![i] = Admitted]
  /\ day' = Today
  /\ daySpent' = SpentToday + x.size
  /\ lastTrade' = clock
  /\ at' = [at EXCEPT ![i] = clock]
  /\ prev' = [prev EXCEPT ![i] = lastTrade]

\* The executor signs and sends; the transaction lands or fails while it waits for
\* the confirmation, or after it gave up waiting.
SendTrade(i) ==
  /\ phase[i] = "executing"
  /\ fate[i] = "none"
  /\ fate' = [fate EXCEPT ![i] = "sent"]
  /\ UNCHANGED <<clock, engine, intent, phase, at, prev, interleaved>>
SettleTrade(i) ==
  /\ fate[i] = "sent"
  /\ \E f \in {"landed", "failed"} : fate' = [fate EXCEPT ![i] = f]
  /\ UNCHANGED <<clock, engine, intent, phase, at, prev, interleaved>>

\* execute() resolves, on a confirmation of either kind.
ExecuteResolves(i) ==
  /\ phase[i] = "executing"
  /\ fate[i] \in {"landed", "failed"}
  /\ phase' = [phase EXCEPT ![i] = "done"]
  /\ UNCHANGED <<clock, engine, intent, at, prev, fate, interleaved>>

\* Mutant of Revert: the spend stays.
RevertKeepingSpend(i) == lastTrade' = prev[i] /\ UNCHANGED <<day, daySpent>>

\* It throws: the admission is reverted, whatever the engine went through since.
Revert(i) ==
  /\ daySpent' = IF daySpent < intent[i].size THEN 0 ELSE daySpent - intent[i].size
  /\ lastTrade' = prev[i]
  /\ UNCHANGED day
ExecuteThrows(i) ==
  /\ phase[i] = "executing"
  /\ phase' = [phase EXCEPT ![i] = "reverted"]
  /\ Revert(i)
  /\ UNCHANGED <<clock, intent, at, prev, fate, interleaved>>

Execution(i) == SendTrade(i) \/ SettleTrade(i) \/ ExecuteResolves(i) \/ ExecuteThrows(i)

Next ==
  \/ Tick
  \/ \E i \in Trades, x \in Intents : RefuseEarly(i, x) \/ RefuseLate(i, x) \/ Admit(i, x)
  \/ \E i \in Trades : Execution(i)

Spec == Init /\ [][Next]_vars

-----------------------------------------------------------------------------
(* Properties.                                                             *)

\* The trades whose admission stands.
Kept(i) == phase[i] \in {"executing", "done", "unexecuted"}
DayOf(i) == at[i] \div DayLength

\* The engine never counts more than the day's limit, so it never compares an
\* intent with a spend the policy could not have produced (custody.ts 171-186).
WithinDailyCap == daySpent <= DailyCap

\* For a strategy that awaits its trades: trades that stand are spaced by the
\* cooldown, across failures, reversals and days (custody.ts 167-169, 184, 193).
CooldownKept ==
  ~interleaved =>
    \A i, j \in Trades :
      Kept(i) /\ Kept(j) /\ i # j /\ at[i] <= at[j] => at[j] - at[i] >= Cooldown

\* A cooldown is only ever due to a trade that stands: a failed one does not "impose
\* a false cooldown" (custody.ts 189-190).
NoFalseCooldown ==
  ~interleaved /\ lastTrade # Never => \E i \in Trades : Kept(i) /\ at[i] = lastTrade

\* The cooldown binds exactly the trades that stand.
CooldownIsTrue == CooldownKept /\ NoFalseCooldown

\* What the trades of a day that stand come to, counted unit by unit.
Units(i) == {i} \X (1..intent[i].size)
StandingOn(d) == {i \in Trades : Kept(i) /\ DayOf(i) = d}
KeptOn(d) == Cardinality(UNION {Units(i) : i \in StandingOn(d)})
Days == 0..(MaxClock \div DayLength)

\* However trades overlap, the engine never counts more for its day than what stands, so
\* it refuses no trade for a budget nobody used; and for a strategy that awaits its
\* trades its spend is exactly the sum of the admissions of the day that stand, and no
\* day's sum passes the daily limit, whatever failed and was reverted, before or after
\* midnight (custody.ts 171-194).
NothingInvented == day # -1 => daySpent <= KeptOn(day)
SpendIsSum == ~interleaved /\ day # -1 => daySpent = KeptOn(day)
DaysWithinCap == ~interleaved => \A d \in Days : KeptOn(d) <= DailyCap
SpendIsExact == NothingInvented /\ SpendIsSum /\ DaysWithinCap

\* The inductive invariant.  For a strategy that awaits its trades: at most one executes,
\* and the stamps that stand are never ahead of the engine's; the engine's stamp is
\* that of a trade that stands, and so is the stamp a reversal would restore.
Executing(i) == phase[i] = "executing"
OthersBehind(j, t) == \A i \in Trades \ {j} : Kept(i) => t # Never /\ at[i] <= t
StampOfOther(j, t) == t # Never => \E i \in Trades \ {j} : Kept(i) /\ at[i] = t
OneExecutes == \A i, j \in Trades : Executing(i) /\ Executing(j) => i = j
StampsBehind == \A i \in Trades : Kept(i) => lastTrade # Never /\ at[i] <= lastTrade
Restorable == \A j \in Trades : Executing(j) => OthersBehind(j, prev[j]) /\ StampOfOther(j, prev[j])
KeptStamped ==
  \A i \in Trades : Kept(i) => at[i] \in Times /\ at[i] <= clock /\ intent[i] \in Intents
CustodyInv ==
  /\ WithinDailyCap
  /\ KeptStamped
  /\ CooldownKept /\ NoFalseCooldown
  /\ ~interleaved => OneExecutes /\ StampsBehind /\ Restorable

\* The engine's day is the last on which a trade was admitted, or later; a trade that
\* executes alone was admitted on it.
DayIsLast == (\A i \in Trades : Kept(i) => day # -1 /\ DayOf(i) <= day) /\ day <= Today
ExecutesToday == ~interleaved => \A i \in Trades : Executing(i) => DayOf(i) = day
SpendInv ==
  /\ IsFiniteSet({i \in Trades : phase[i] # "idle"})
  /\ DayIsLast /\ ExecutesToday
  /\ SpendIsExact

=============================================================================
