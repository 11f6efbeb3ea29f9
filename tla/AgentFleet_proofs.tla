------------------------- MODULE AgentFleet_proofs -------------------------
(* AgentFleet for any number of terminals, process ids, signals and          *)
(* commands: ticks never overlap, and awaited commands keep one process and  *)
(* the right cloud agent.                                                    *)
EXTENDS AgentFleet, FiniteSetTheorems, TLAPS

-----------------------------------------------------------------------------
(* Processes.                                                              *)

Hooks == {"draining", "checkpointing"}

LifeTypes ==
  /\ proc \in [Pids -> {"unborn", "setup", "up", "exited", "foreign"}]
  /\ running \in [Pids -> BOOLEAN] /\ busy \in [Pids -> BOOLEAN]
  /\ draining \in [Pids -> Nat] /\ trading \in [Pids -> Nat] /\ lateTicks \in [Pids -> Nat]
  /\ stops \in [Pids -> Seq(Hooks)]

\* One tick at a time holds because the flag covers the whole tick; one late tick at most,
\* because no tick begins once the agent stops.
Orderly(p) ==
  /\ draining[p] + trading[p] <= 1
  /\ busy[p] = FALSE => draining[p] = 0 /\ trading[p] = 0
  /\ running[p] = TRUE => stops[p] = <<>> /\ lateTicks[p] = 0 /\ proc[p] = "up"
  /\ proc[p] \in {"unborn", "setup"} => stops[p] = <<>> /\ lateTicks[p] = 0
  /\ lateTicks[p] <= 1
  /\ lateTicks[p] = 1 => draining[p] = 0

LifeInv == LifeTypes /\ \A p \in Pids : Orderly(p)

lifeVars == <<proc, running, busy, draining, trading, stops, lateTicks>>

\* A process that trades: started, and not told to stop.
Live(p) == proc[p] \in {"setup", "up"} /\ ~Stopping(p)

LEMMA LifeInit == ProcInit => LifeInv
<1> SUFFICES ASSUME ProcInit PROVE LifeInv
  OBVIOUS
<1>1. LifeTypes
  BY DEF ProcInit, LifeTypes
<1>2. \A p \in Pids : Orderly(p)
  BY DEF ProcInit, Orderly
<1> QED BY <1>1, <1>2 DEF LifeInv

\* A process that ends is orderly.
LEMMA GoneKeeps ==
  ASSUME LifeInv, NEW p \in Pids, Gone(p), lateTicks' = lateTicks
  PROVE  LifeInv'
<1> USE DEF LifeInv, Gone
<1>1. LifeTypes'
  BY DEF LifeTypes
<1>2. ASSUME NEW q \in Pids PROVE Orderly(q)'
  <2>1. CASE q = p
    <3>1. /\ proc'[q] = "exited" /\ running'[q] = FALSE /\ busy'[q] = FALSE
          /\ draining'[q] = 0 /\ trading'[q] = 0 /\ stops'[q] = <<>>
      BY <2>1 DEF LifeTypes
    <3>2. lateTicks'[q] <= 1
      BY DEF Orderly
    <3> QED BY <3>1, <3>2 DEF Orderly
  <2>2. CASE q # p
    BY <2>2 DEF LifeTypes, Orderly
  <2> QED BY <2>1, <2>2
<1> QED BY <1>1, <1>2

LEMMA BootKeeps == ASSUME LifeInv, NEW p \in Pids, Boot(p) PROVE LifeInv'
<1> USE DEF LifeInv, Boot
<1>1. LifeTypes'
  BY DEF LifeTypes
<1>2. ASSUME NEW q \in Pids PROVE Orderly(q)'
  <2>1. CASE q = p
    BY <2>1 DEF LifeTypes, Orderly
  <2>2. CASE q # p
    BY <2>2 DEF LifeTypes, Orderly
  <2> QED BY <2>1, <2>2
<1> QED BY <1>1, <1>2

LEMMA SetupEndsKeeps == ASSUME LifeInv, NEW p \in Pids, SetupEnds(p) PROVE LifeInv'
<1> USE DEF LifeInv, SetupEnds
<1>1. LifeTypes'
  BY DEF LifeTypes
<1>2. ASSUME NEW q \in Pids PROVE Orderly(q)'
  <2>1. CASE q = p
    BY <2>1 DEF LifeTypes, Orderly
  <2>2. CASE q # p
    BY <2>2 DEF LifeTypes, Orderly
  <2> QED BY <2>1, <2>2
<1> QED BY <1>1, <1>2

LEMMA TickBeginsKeeps == ASSUME LifeInv, NEW p \in Pids, TickBegins(p) PROVE LifeInv'
<1> USE DEF LifeInv, TickBegins
<1>1. LifeTypes'
  BY DEF LifeTypes
<1>2. running[p] = TRUE /\ busy[p] = FALSE
  BY DEF LifeTypes
<1>3. ASSUME NEW q \in Pids PROVE Orderly(q)'
  <2>1. CASE q = p
    <3>1. /\ draining[q] = 0 /\ trading[q] = 0
          /\ stops[q] = <<>> /\ lateTicks[q] = 0 /\ proc[q] = "up"
      BY <1>2, <2>1 DEF Orderly
    <3>2. /\ draining'[q] = 1 /\ trading'[q] = 0 /\ busy'[q] = TRUE
          /\ stops'[q] = <<>> /\ lateTicks'[q] = 0 /\ proc'[q] = "up"
      BY <2>1, <3>1 DEF LifeTypes
    <3> QED BY <3>2 DEF Orderly
  <2>2. CASE q # p
    BY <2>2 DEF LifeTypes, Orderly
  <2> QED BY <2>1, <2>2
<1> QED BY <1>1, <1>3

LEMMA StrategyBeginsKeeps == ASSUME LifeInv, NEW p \in Pids, StrategyBegins(p) PROVE LifeInv'
<1> USE DEF LifeInv, StrategyBegins
<1>1. LifeTypes'
  BY DEF LifeTypes
<1>2. ASSUME NEW q \in Pids PROVE Orderly(q)'
  <2>1. CASE q = p
    <3>1. draining[q] = 1 /\ trading[q] = 0 /\ lateTicks[q] = 0
      BY <2>1 DEF LifeTypes, Orderly
    <3>2. draining'[q] = 0 /\ trading'[q] = 1 /\ busy'[q] = TRUE
      BY <2>1, <3>1 DEF LifeTypes
    <3>3. lateTicks'[q] = IF Stopping(q) THEN 1 ELSE 0
      BY <2>1, <3>1 DEF LifeTypes
    <3>4. running[q] = TRUE => ~Stopping(q)
      BY DEF Orderly, Stopping
    <3>5. proc[q] \in {"unborn", "setup"} => ~Stopping(q)
      BY DEF Orderly, Stopping
    <3> QED BY <3>2, <3>3, <3>4, <3>5 DEF Orderly
  <2>2. CASE q # p
    BY <2>2 DEF LifeTypes, Orderly
  <2> QED BY <2>1, <2>2
<1> QED BY <1>1, <1>2

LEMMA TickEndsKeeps ==
  ASSUME LifeInv, NEW p \in Pids, TickEnds(p) \/ TickThrows(p) PROVE LifeInv'
<1> USE DEF LifeInv, TickEnds, TickThrows
<1>0. draining[p] \in Nat /\ trading[p] \in Nat
  BY DEF LifeTypes
<1>1. LifeTypes'
  <2>1. CASE TickEnds(p)
    BY <1>0, <2>1 DEF LifeTypes
  <2>2. CASE TickThrows(p)
    <3>1. draining[p] > 0 => draining[p] - 1 \in Nat
      BY <1>0
    <3>2. trading[p] > 0 => trading[p] - 1 \in Nat
      BY <1>0
    <3>3. draining' \in [Pids -> Nat] /\ trading' \in [Pids -> Nat]
      BY <2>2, <3>1, <3>2 DEF LifeTypes
    <3>4. busy' \in [Pids -> BOOLEAN]
      BY <2>2 DEF LifeTypes
    <3>5. proc' = proc /\ running' = running /\ stops' = stops /\ lateTicks' = lateTicks
      BY <2>2
    <3> QED BY <3>3, <3>4, <3>5 DEF LifeTypes
  <2> QED BY <2>1, <2>2
<1>2. ASSUME NEW q \in Pids PROVE Orderly(q)'
  <2>1. CASE q = p
    <3>1. draining'[q] = 0 /\ trading'[q] = 0 /\ busy'[q] = FALSE
      BY <2>1 DEF LifeTypes, Orderly
    <3>2. /\ running' = running /\ stops' = stops /\ lateTicks' = lateTicks /\ proc' = proc
      OBVIOUS
    <3> QED BY <3>1, <3>2 DEF Orderly
  <2>2. CASE q # p
    <3>1. /\ draining'[q] = draining[q] /\ trading'[q] = trading[q] /\ busy'[q] = busy[q]
          /\ running' = running /\ stops' = stops /\ lateTicks' = lateTicks /\ proc' = proc
      BY <2>2 DEF LifeTypes
    <3> QED BY <3>1 DEF Orderly
  <2> QED BY <2>1, <2>2
<1> QED BY <1>1, <1>2

LEMMA SignalKeeps == ASSUME LifeInv, NEW p \in Pids, Signal(p) PROVE LifeInv'
<1>1. CASE proc[p] = "up"
  <2> USE <1>1 DEF LifeInv, Signal, Signalled
  <2>1. stops'[p] = Append(stops[p], "draining") /\ Append(stops[p], "draining") \in Seq(Hooks)
    BY DEF LifeTypes, Hooks
  <2>2. LifeTypes'
    BY <2>1 DEF LifeTypes
  <2>3. ASSUME NEW q \in Pids PROVE Orderly(q)'
    <3>1. CASE q = p
      BY <3>1 DEF LifeTypes, Orderly
    <3>2. CASE q # p
      BY <3>2 DEF LifeTypes, Orderly
    <3> QED BY <3>1, <3>2
  <2> QED BY <2>2, <2>3
<1>2. CASE proc[p] # "up"
  BY <1>2, GoneKeeps DEF Signal, Signalled
<1> QED BY <1>1, <1>2

LEMMA RecycleKeeps == ASSUME LifeInv, NEW p \in Pids, Recycle(p) PROVE LifeInv'
<1> USE DEF LifeInv, Recycle
<1>1. LifeTypes'
  BY DEF LifeTypes
<1>2. ASSUME NEW q \in Pids PROVE Orderly(q)'
  <2>1. CASE q = p
    BY <2>1 DEF LifeTypes, Orderly
  <2>2. CASE q # p
    BY <2>2 DEF LifeTypes, Orderly
  <2> QED BY <2>1, <2>2
<1> QED BY <1>1, <1>2

\* A hook of stop() that ends leaves the stop under way.
LEMMA DrainHookFacts ==
  ASSUME LifeInv, NEW p \in Pids, NEW i \in DOMAIN stops[p], DrainHookEnds(p, i)
  PROVE  /\ stops' \in [Pids -> Seq(Hooks)]
         /\ stops[p] # <<>> /\ stops'[p] # <<>>
         /\ \A q \in Pids \ {p} : stops'[q] = stops[q]
<1>1. stops \in [Pids -> Seq(Hooks)] /\ "checkpointing" \in Hooks
  BY DEF LifeInv, LifeTypes, Hooks
<1>2. stops[p] \in Seq(Hooks) /\ i \in 1..Len(stops[p])
  BY <1>1
<1>3. [stops[p] EXCEPT ![i] = "checkpointing"] \in Seq(Hooks)
  BY <1>1, <1>2
<1>4. stops' = [stops EXCEPT ![p] = [stops[p] EXCEPT ![i] = "checkpointing"]]
  BY DEF DrainHookEnds
<1>5. Len([stops[p] EXCEPT ![i] = "checkpointing"]) = Len(stops[p])
  BY <1>1, <1>2
<1> QED BY <1>1, <1>2, <1>3, <1>4, <1>5

LEMMA DrainHookKeeps ==
  ASSUME LifeInv, NEW p \in Pids, NEW i \in DOMAIN stops[p], DrainHookEnds(p, i)
  PROVE  LifeInv'
<1>1. /\ stops' \in [Pids -> Seq(Hooks)]
      /\ stops[p] # <<>> /\ stops'[p] # <<>>
      /\ \A q \in Pids \ {p} : stops'[q] = stops[q]
  BY DrainHookFacts
<1>2. /\ proc' = proc /\ running' = running /\ busy' = busy /\ draining' = draining
      /\ trading' = trading /\ lateTicks' = lateTicks
  BY DEF DrainHookEnds
<1>3. LifeTypes'
  BY <1>1, <1>2 DEF LifeInv, LifeTypes
<1>4. ASSUME NEW q \in Pids PROVE Orderly(q)'
  <2>1. Orderly(q)
    BY DEF LifeInv
  <2>2. CASE q = p
    BY <1>1, <1>2, <2>1, <2>2 DEF Orderly
  <2>3. CASE q # p
    BY <1>1, <1>2, <2>1, <2>3 DEF Orderly
  <2> QED BY <2>2, <2>3
<1> QED BY <1>3, <1>4 DEF LifeInv

\* Whatever a process does, it stays orderly.
LEMMA LivesKeeps == ASSUME LifeInv, NEW p \in Pids, Lives(p) PROVE LifeInv'
<1>1. CASE \E i \in DOMAIN stops[p] : StopEnds(p, i)
  BY <1>1, GoneKeeps DEF StopEnds
<1>2. CASE Dies(p)
  BY <1>2, GoneKeeps DEF Dies
<1>3. CASE Stop(p)
  BY <1>1, <1>3, DrainHookKeeps DEF Stop
<1> QED BY <1>2, <1>3, SetupEndsKeeps, TickBeginsKeeps, StrategyBeginsKeeps, TickEndsKeeps, RecycleKeeps
        DEF Lives

LEMMA LifeStays == ASSUME LifeInv, UNCHANGED lifeVars PROVE LifeInv'
BY DEF LifeInv, lifeVars, LifeTypes, Orderly

-----------------------------------------------------------------------------
(* The types of the terminals' state.                                      *)

FleetTypes ==
  /\ meta \in [driver : Drivers, id : Nat] \cup {NoMeta}
  /\ meta.driver = "local" => meta.id = 0
  /\ pidFile \in Pids \cup {0}
  /\ at \in [Terminals -> Stages]
  /\ saw = [t \in Terminals |-> saw[t]]
  /\ \A t \in Terminals : at[t] = "recording" => saw[t] \in Pids
  /\ \A t \in Terminals : at[t] = "posted" => saw[t] \in Nat \ {0}
  /\ cloud \subseteq Nat \ {0} /\ lastId \in Nat
  /\ crossed \in BOOLEAN /\ unheard \in BOOLEAN /\ dir \in BOOLEAN

LEMMA GotoFacts ==
  ASSUME FleetTypes, NEW t \in Terminals, NEW from, NEW to \in Stages, Goto(t, from, to)
  PROVE  /\ at' \in [Terminals -> Stages] /\ at[t] = from /\ at'[t] = to
         /\ \A u \in Terminals \ {t} : at'[u] = at[u]
BY DEF FleetTypes, Goto

LEMMA RememberFacts ==
  ASSUME FleetTypes, NEW t \in Terminals, NEW x, Remember(t, x)
  PROVE  /\ saw' = [u \in Terminals |-> saw'[u]] /\ saw'[t] = x
         /\ \A u \in Terminals \ {t} : saw'[u] = saw[u]
BY DEF FleetTypes, Remember

LEMMA TypesInit == Init => FleetTypes
<1> SUFFICES ASSUME Init PROVE FleetTypes
  OBVIOUS
<1>1. "idle" \in Stages /\ NoMeta.driver = "none"
  BY DEF Stages, NoMeta
<1>2. at \in [Terminals -> Stages] /\ \A t \in Terminals : at[t] = "idle"
  BY <1>1 DEF Init
<1>3. meta = NoMeta /\ pidFile = 0 /\ cloud = {} /\ lastId = 0
      /\ crossed = FALSE /\ unheard = FALSE /\ dir = FALSE
  BY DEF Init, ProcInit
<1>4. saw = [t \in Terminals |-> saw[t]]
  BY DEF Init
<1> QED BY <1>1, <1>2, <1>3, <1>4 DEF FleetTypes

LEMMA BeginTypes ==
  ASSUME FleetTypes, NEW t \in Terminals, NEW stage \in Stages \ {"recording", "posted"}, Begin(t, stage)
  PROVE  FleetTypes'
<1>1. /\ at' \in [Terminals -> Stages] /\ at'[t] = stage
      /\ \A u \in Terminals \ {t} : at'[u] = at[u]
  BY GotoFacts DEF Begin
<1>2. crossed' \in BOOLEAN
  BY DEF Begin, FleetTypes
<1>3. /\ meta' = meta /\ pidFile' = pidFile /\ saw' = saw /\ cloud' = cloud /\ lastId' = lastId
      /\ unheard' = unheard /\ dir' = dir
  BY DEF Begin, processVars, files, controlPlane
<1> QED BY <1>1, <1>2, <1>3 DEF FleetTypes

\* Each command that a terminal begins, and each further step of it, keeps the types.
LEMMA CommandTypes == ASSUME FleetTypes, NEW t \in Terminals, Command(t) PROVE FleetTypes'
<1> USE DEF Step, ProcessesStay, DirStays, processVars, files, controlPlane
<1>1. CASE BeginCreate(t) \/ BeginStart(t) \/ BeginStop(t) \/ BeginDestroy(t) \/ BeginSend(t)
  <2>1. \E stage \in Stages \ {"recording", "posted"} : Begin(t, stage)
    BY <1>1 DEF BeginCreate, BeginStart, BeginStop, BeginDestroy, BeginSend, Stages
  <2> QED BY <2>1, BeginTypes
<1>2. CASE WriteMeta(t)
  <2>1. PICK to \in {"idle", "posting"}, from \in Stages : Goto(t, from, to)
    BY <1>2 DEF WriteMeta, Stages
  <2>2. meta' \in [driver : Drivers, id : Nat] /\ meta'.id = 0
    <3>1. "local" \in Drivers /\ "cloud" \in Drivers
      BY DEF Drivers
    <3>2. PICK d \in Drivers : meta' = [driver |-> d, id |-> 0]
      BY <1>2, <3>1 DEF WriteMeta
    <3> QED BY <3>2
  <2>3. to \in Stages
    BY <2>1 DEF Stages
  <2> QED BY <1>2, <2>1, <2>2, <2>3, GotoFacts DEF WriteMeta, FleetTypes
<1>3. CASE Register(t)
  <2>1. "posted" \in Stages
    BY DEF Stages
  <2> QED BY <1>3, <2>1, GotoFacts, RememberFacts DEF Register, FleetTypes
<1>4. CASE Registered(t)
  <2>1. "idle" \in Stages /\ "cloud" \in Drivers
    BY DEF Stages, Drivers
  <2>2. at[t] = "posted" /\ meta' = [driver |-> "cloud", id |-> saw[t]]
    BY <1>4, <2>1, GotoFacts DEF Registered
  <2>3. meta' \in [driver : Drivers, id : Nat] /\ meta'.driver = "cloud"
    BY <2>1, <2>2 DEF FleetTypes
  <2> QED BY <1>4, <2>1, <2>3, GotoFacts DEF Registered, FleetTypes
<1>5. CASE CreateFails(t) \/ RemoveAgent(t) \/ Deleted(t)
  <2>1. "idle" \in Stages
    BY DEF Stages
  <2>2. PICK from : Goto(t, from, "idle")
    BY <1>5 DEF CreateFails, RemoveAgent, Deleted
  <2>3. meta' = NoMeta /\ pidFile' = 0 /\ dir' = FALSE /\ unheard' \in BOOLEAN
        /\ saw' = saw /\ cloud' = cloud /\ lastId' = lastId /\ crossed' = crossed
    BY <1>5 DEF CreateFails, RemoveAgent, Deleted, RemoveDir, FleetTypes
  <2>4. NoMeta.driver = "none"
    BY DEF NoMeta
  <2>5. \A u \in Terminals : at'[u] = at[u] \/ at'[u] = "idle"
    BY <2>1, <2>2, GotoFacts
  <2>6. at' \in [Terminals -> Stages]
    BY <2>1, <2>2, GotoFacts
  <2> QED BY <2>3, <2>4, <2>5, <2>6 DEF FleetTypes
<1>6. CASE StartReads(t)
  <2>1. \E to \in {"idle", "spawning"} : Goto(t, "starting", to)
    BY <1>6 DEF StartReads
  <2>2. {"idle", "spawning"} \subseteq Stages
    BY DEF Stages
  <2> QED BY <1>6, <2>1, <2>2, GotoFacts DEF StartReads, FleetTypes
<1>7. CASE Spawn(t)
  <2>1. PICK p \in Pids : Boot(p) /\ Remember(t, p)
    BY <1>7 DEF Spawn
  <2>2. "recording" \in Stages
    BY DEF Stages
  <2> QED BY <1>7, <2>1, <2>2, GotoFacts, RememberFacts DEF Spawn, Boot, FleetTypes
<1>8. CASE Record(t)
  <2>1. "idle" \in Stages
    BY DEF Stages
  <2>2. at[t] = "recording"
    BY <1>8, <2>1, GotoFacts DEF Record
  <2>3. pidFile' \in Pids \cup {0}
    BY <1>8, <2>2 DEF Record, FleetTypes
  <2> QED BY <1>8, <2>1, <2>3, GotoFacts DEF Record, FleetTypes
<1>9. CASE Terminate(t)
  <2>1. {"idle", "removing"} \subseteq Stages
    BY DEF Stages
  <2>2. \E from \in Stages, to \in {"idle", "removing"} : Goto(t, from, to)
    BY <1>9 DEF Terminate, Stages
  <2>3. dir' = dir
    BY <1>9 DEF Terminate, Signal, Signalled, Gone
  <2> QED BY <1>9, <2>1, <2>2, <2>3, GotoFacts DEF Terminate, FleetTypes
<1>10. CASE Delete(t) \/ DeleteFails(t) \/ Enqueue(t) \/ SendFails(t)
  <2>1. {"idle", "deleted"} \subseteq Stages
    BY DEF Stages
  <2>2. \E from \in Stages, to \in {"idle", "deleted"} : Goto(t, from, to)
    BY <1>10 DEF Delete, DeleteFails, Enqueue, SendFails, Stages
  <2>3. cloud' \subseteq Nat \ {0} /\ unheard' \in BOOLEAN
    BY <1>10 DEF Delete, DeleteFails, Enqueue, SendFails, FleetTypes
  <2>4. /\ meta' = meta /\ pidFile' = pidFile /\ saw' = saw /\ lastId' = lastId
        /\ dir' = dir /\ crossed' = crossed
    BY <1>10 DEF Delete, DeleteFails, Enqueue, SendFails
  <2> QED BY <2>1, <2>2, <2>3, <2>4, GotoFacts DEF FleetTypes
<1>11. CASE ReadStatus(t)
  <2>1. "sending" \in Stages
    BY DEF Stages
  <2>2. PICK x : Remember(t, x)
    BY <1>11 DEF ReadStatus
  <2>3. /\ meta' = meta /\ pidFile' = pidFile /\ cloud' = cloud /\ lastId' = lastId
        /\ dir' = dir /\ crossed' = crossed /\ unheard' \in BOOLEAN
    BY <1>11 DEF ReadStatus, FleetTypes
  <2> QED BY <1>11, <2>1, <2>2, <2>3, GotoFacts, RememberFacts DEF ReadStatus, FleetTypes
<1> QED BY <1>1, <1>2, <1>3, <1>4, <1>5, <1>6, <1>7, <1>8, <1>9, <1>10, <1>11 DEF Command

\* A process leaves the directory itself alone.
LEMMA LivesKeepsDir == ASSUME NEW p \in Pids, Lives(p) PROVE dir' = dir
BY DEF Lives, SetupEnds, Dies, Gone, TickBegins, StrategyBegins, TickEnds, TickThrows, Stop,
       DrainHookEnds, StopEnds, Recycle

LEMMA TypesKept == FleetTypes /\ [Next]_vars => FleetTypes'
<1> SUFFICES ASSUME FleetTypes, [Next]_vars PROVE FleetTypes'
  OBVIOUS
<1>1. CASE \E t \in Terminals : Command(t)
  BY <1>1, CommandTypes
<1>2. CASE \E p \in Pids : Lives(p) /\ UNCHANGED <<files, controlPlane, terminal>>
  <2>1. dir' = dir /\ UNCHANGED <<meta, pidFile, cloud, lastId, at, saw, crossed, unheard>>
    BY <1>2, LivesKeepsDir DEF files, controlPlane, terminal
  <2> QED BY <2>1 DEF FleetTypes
<1>3. CASE Acknowledge \/ UNCHANGED vars
  <2>1. UNCHANGED <<dir, meta, pidFile, cloud, lastId, at, saw, crossed, unheard>>
    BY <1>3 DEF Acknowledge, vars, processVars, files, controlPlane, terminal
  <2> QED BY <2>1 DEF FleetTypes
<1> QED BY <1>1, <1>2, <1>3 DEF Next

\* What a step of the fleet does to processes.
LEMMA ProcessSteps ==
  ASSUME FleetTypes, [Next]_vars
  PROVE  \/ \E p \in Pids : Boot(p) \/ Lives(p)
         \/ pidFile \in Pids /\ Signal(pidFile)
         \/ UNCHANGED lifeVars
<1>1. CASE UNCHANGED vars
  BY <1>1 DEF vars, processVars, lifeVars
<1>2. CASE \E p \in Pids : Lives(p)
  BY <1>2
<1>3. CASE Acknowledge
  BY <1>3 DEF Acknowledge, processVars, lifeVars
<1>4. ASSUME NEW t \in Terminals, Command(t)
      PROVE \/ \E p \in Pids : Boot(p)
            \/ pidFile \in Pids /\ Signal(pidFile)
            \/ UNCHANGED lifeVars
  <2>1. CASE BeginCreate(t) \/ BeginStart(t) \/ BeginStop(t) \/ BeginDestroy(t) \/ BeginSend(t)
    BY <2>1 DEF BeginCreate, BeginStart, BeginStop, BeginDestroy, BeginSend, Begin, processVars, lifeVars
  <2>2. CASE WriteMeta(t) \/ Registered(t) \/ CreateFails(t) \/ StartReads(t) \/ RemoveAgent(t) \/ Deleted(t)
    BY <2>2 DEF WriteMeta, Registered, CreateFails, StartReads, RemoveAgent, Deleted, ProcessesStay, lifeVars
  <2>3. CASE Register(t) \/ Delete(t) \/ DeleteFails(t) \/ ReadStatus(t) \/ Enqueue(t) \/ SendFails(t)
    BY <2>3 DEF Register, Delete, DeleteFails, ReadStatus, Enqueue, SendFails, DirStays, processVars, lifeVars
  <2>4. CASE Spawn(t)
    BY <2>4 DEF Spawn
  <2>5. CASE Record(t)
    BY <2>5 DEF Record, processVars, lifeVars
  <2>6. CASE Terminate(t)
    BY <2>6 DEF Terminate, FleetTypes, processVars, lifeVars
  <2> QED BY <1>4, <2>1, <2>2, <2>3, <2>4, <2>5, <2>6 DEF Command
<1> QED BY <1>1, <1>2, <1>3, <1>4 DEF Next

LEMMA LifeInvariant == Spec => [](FleetTypes /\ LifeInv)
<1>1. Init => FleetTypes /\ LifeInv
  BY LifeInit, TypesInit DEF Init
<1>2. FleetTypes /\ LifeInv /\ [Next]_vars => (FleetTypes /\ LifeInv)'
  BY ProcessSteps, BootKeeps, LivesKeeps, SignalKeeps, LifeStays, TypesKept
<1> QED BY <1>1, <1>2, PTL DEF Spec

\* However long its commands, its strategy and its hooks take, and whatever its owner's
\* terminals do, an agent never has two ticks under way, and begins at most one after it
\* was told to stop (agent.ts 436-464).
THEOREM TicksAlone == Spec => []OneTickAtATime
<1>1. LifeInv => OneTickAtATime
  BY DEF LifeInv, LifeTypes, Orderly, OneTickAtATime
<1> QED BY LifeInvariant, <1>1, PTL
-----------------------------------------------------------------------------
(* Commands that are awaited.                                              *)

Only(t) == \A u \in Terminals \ {t} : at[u] = "idle"
NoneLive == \A p \in Pids : ~Live(p)

\* What the stage of the only command under way says of the record.
OfRecord(t) ==
  /\ at[t] \in {"createLocal", "createCloud"} => meta = NoMeta
  /\ at[t] \in {"posting", "posted"} => meta = [driver |-> "cloud", id |-> 0]
  /\ at[t] \in {"starting", "spawning", "recording", "stopping", "destroying", "removing"} =>
       meta.driver = "local"
  /\ at[t] \in {"deleting", "deleted"} => meta.driver = "cloud"
  /\ at[t] \in {"spawning", "recording"} => dir = TRUE

\* Of the processes: the pid file names the one that trades, once it is written.
OfProcesses(t) ==
  /\ meta.driver # "local" => NoneLive
  /\ at[t] \in {"spawning", "removing"} => NoneLive
  /\ at[t] = "recording" => \A p \in Pids : Live(p) => p = saw[t]
  /\ at[t] # "recording" => \A p \in Pids : Live(p) => p = pidFile

\* Of the control plane: meta.json names the agent it keeps, once the answer was heard.
OfCloud(t) ==
  unheard = FALSE =>
    /\ at[t] = "posted" => cloud = {saw[t]}
    /\ at[t] = "deleted" => cloud = {}
    /\ at[t] \notin {"posted", "deleted"} => cloud = {meta.id} \ {0}

FleetInv ==
  crossed = FALSE => \E t \in Terminals : Only(t) /\ OfRecord(t) /\ OfProcesses(t) /\ OfCloud(t)

LEMMA FleetInit == Init => FleetInv
<1> SUFFICES ASSUME Init PROVE FleetInv
  OBVIOUS
<1>1. PICK t \in Terminals : TRUE
  BY FleetAssumption
<1>2. Only(t) /\ at[t] = "idle"
  BY DEF Init, Only
<1>3. \A p \in Pids : ~Live(p)
  BY DEF Init, ProcInit, Live
<1>4. meta.id = 0 /\ cloud = {}
  BY DEF Init, NoMeta
<1>5. OfRecord(t) /\ OfProcesses(t) /\ OfCloud(t)
  BY <1>2, <1>3, <1>4 DEF OfRecord, OfProcesses, OfCloud, NoneLive
<1> QED BY <1>2, <1>5 DEF FleetInv

\* Only the terminal whose command is under way moves.
LEMMA Moving ==
  ASSUME FleetTypes, FleetInv, crossed = FALSE, NEW t \in Terminals,
         NEW from \in Stages \ {"idle"}, NEW to \in Stages, Goto(t, from, to)
  PROVE  /\ Only(t)' /\ at[t] = from /\ at'[t] = to
         /\ OfRecord(t) /\ OfProcesses(t) /\ OfCloud(t)
<1>1. at[t] = from /\ at'[t] = to /\ \A u \in Terminals \ {t} : at'[u] = at[u]
  BY GotoFacts
<1>2. PICK s \in Terminals : Only(s) /\ OfRecord(s) /\ OfProcesses(s) /\ OfCloud(s)
  BY DEF FleetInv
<1>3. s = t
  BY <1>1, <1>2 DEF Only
<1> QED BY <1>1, <1>2, <1>3 DEF Only

\* A command begins when no other is under way.
LEMMA Beginning ==
  ASSUME FleetTypes, FleetInv, crossed' = FALSE, NEW t \in Terminals,
         NEW stage \in Stages, Begin(t, stage)
  PROVE  /\ crossed = FALSE /\ Only(t)' /\ at[t] = "idle" /\ at'[t] = stage
         /\ OfRecord(t) /\ OfProcesses(t) /\ OfCloud(t)
<1>1. at[t] = "idle" /\ at'[t] = stage /\ \A u \in Terminals \ {t} : at'[u] = at[u]
  BY GotoFacts DEF Begin
<1>2. crossed = FALSE /\ \A u \in Terminals : at[u] = "idle"
  BY DEF Begin, FleetTypes
<1>3. PICK s \in Terminals : Only(s) /\ OfRecord(s) /\ OfProcesses(s) /\ OfCloud(s)
  BY <1>2 DEF FleetInv
<1>4. at[s] = "idle" /\ at[t] = "idle"
  BY <1>2
<1>5. OfRecord(t) /\ OfProcesses(t) /\ OfCloud(t)
  BY <1>3, <1>4 DEF OfRecord, OfProcesses, OfCloud
<1> QED BY <1>1, <1>2, <1>5 DEF Only

\* A process that boots is the only new one that trades; a signal makes one stop; nothing
\* else a process does makes another trade.
LEMMA BootAddsOne ==
  ASSUME LifeTypes, NEW p \in Pids, Boot(p)
  PROVE  \A q \in Pids : Live(q)' => Live(q) \/ q = p
BY DEF Boot, LifeTypes, Live, Stopping

LEMMA SignalStops ==
  ASSUME LifeTypes, NEW p \in Pids, Signal(p)
  PROVE  \A q \in Pids : Live(q)' => Live(q) /\ q # p
<1>1. CASE proc[p] = "up"
  <2>1. proc' = proc /\ stops' = [stops EXCEPT ![p] = Append(stops[p], "draining")]
    BY <1>1 DEF Signal, Signalled
  <2>2. stops[p] \in Seq(Hooks)
    BY DEF LifeTypes
  <2>3. stops'[p] # <<>>
    BY <2>1, <2>2 DEF LifeTypes
  <2> QED BY <2>1, <2>3 DEF LifeTypes, Live, Stopping
<1>2. CASE proc[p] # "up"
  BY <1>2 DEF Signal, Signalled, Gone, LifeTypes, Live, Stopping
<1> QED BY <1>1, <1>2

LEMMA LivesAddsNone ==
  ASSUME LifeInv, NEW p \in Pids, Lives(p)
  PROVE  \A q \in Pids : Live(q)' => Live(q)
<1> USE DEF LifeInv
<1>1. CASE Dies(p) \/ \E i \in DOMAIN stops[p] : StopEnds(p, i)
  BY <1>1 DEF Dies, StopEnds, Gone, LifeTypes, Live, Stopping
<1>2. CASE SetupEnds(p)
  BY <1>2 DEF SetupEnds, LifeTypes, Live, Stopping
<1>3. CASE TickBegins(p) \/ StrategyBegins(p) \/ TickEnds(p) \/ TickThrows(p)
  BY <1>3 DEF TickBegins, StrategyBegins, TickEnds, TickThrows, Live, Stopping
<1>4. CASE Recycle(p)
  BY <1>4 DEF Recycle, LifeTypes, Live, Stopping
<1>5. ASSUME NEW i \in DOMAIN stops[p], DrainHookEnds(p, i) PROVE \A q \in Pids : Live(q)' => Live(q)
  <2>1. proc' = proc
    BY <1>5 DEF DrainHookEnds
  <2>2. stops'[p] # <<>> /\ \A q \in Pids \ {p} : stops'[q] = stops[q]
    BY <1>5, DrainHookFacts
  <2> QED BY <2>1, <2>2 DEF Live, Stopping
<1> QED BY <1>1, <1>2, <1>3, <1>4, <1>5 DEF Lives, Stop
\* What a process holds stays while a terminal writes files or talks to the control plane.
LEMMA LiveStays ==
  ASSUME proc' = proc, stops' = stops
  PROVE  \A q \in Pids : Live(q)' <=> Live(q)
BY DEF Live, Stopping

Opening == {"createLocal", "createCloud", "starting", "stopping", "destroying", "deleting", "reading"}

LEMMA BeginKeeps ==
  ASSUME FleetTypes, FleetInv, NEW t \in Terminals, NEW stage \in Opening, Begin(t, stage),
         stage \in {"createLocal", "createCloud"} => meta = NoMeta,
         stage \in {"starting", "stopping", "destroying"} => meta.driver = "local",
         stage = "deleting" => meta.driver = "cloud"
  PROVE  FleetInv'
<1> SUFFICES ASSUME crossed' = FALSE PROVE Only(t)' /\ OfRecord(t)' /\ OfProcesses(t)' /\ OfCloud(t)'
  BY DEF FleetInv
<1>1. stage \in Stages
  BY DEF Opening, Stages
<1>2. /\ Only(t)' /\ at[t] = "idle" /\ at'[t] = stage
      /\ OfRecord(t) /\ OfProcesses(t) /\ OfCloud(t)
  BY <1>1, Beginning
<1>3. /\ UNCHANGED <<proc, stops, dir, meta, pidFile, cloud, saw, unheard>>
  BY DEF Begin, processVars, files, controlPlane
<1>4. OfRecord(t)'
  BY <1>2, <1>3 DEF OfRecord, Opening
<1>5. OfProcesses(t)'
  BY <1>2, <1>3, LiveStays DEF OfProcesses, NoneLive, Opening
<1>6. OfCloud(t)'
  BY <1>2, <1>3 DEF OfCloud, Opening
<1> QED BY <1>2, <1>4, <1>5, <1>6

\* The commands that create an agent.
LEMMA CreateKeeps ==
  ASSUME FleetTypes, FleetInv, NEW t \in Terminals,
         WriteMeta(t) \/ Register(t) \/ Registered(t) \/ CreateFails(t)
  PROVE  FleetInv'
<1> SUFFICES ASSUME crossed' = FALSE PROVE Only(t)' /\ OfRecord(t)' /\ OfProcesses(t)' /\ OfCloud(t)'
  BY DEF FleetInv
<1>1. crossed = FALSE /\ proc' = proc /\ stops' = stops
  BY DEF WriteMeta, Register, Registered, CreateFails, Step, ProcessesStay, DirStays, processVars
<1>2. \A q \in Pids : Live(q)' <=> Live(q)
  BY <1>1, LiveStays
<1>3. {"createLocal", "createCloud", "posting", "posted"} \subseteq Stages \ {"idle"}
      /\ {"idle", "posting", "posted"} \subseteq Stages
  BY DEF Stages
<1>4. NoMeta.driver = "none" /\ NoMeta.id = 0
  BY DEF NoMeta
<1>5. CASE WriteMeta(t)
  <2>1. PICK from \in {"createLocal", "createCloud"}, to \in {"idle", "posting"} :
          /\ Goto(t, from, to)
          /\ from = "createLocal" => to = "idle" /\ meta' = [driver |-> "local", id |-> 0]
          /\ from = "createCloud" => to = "posting" /\ meta' = [driver |-> "cloud", id |-> 0]
    BY <1>5 DEF WriteMeta
  <2>2. /\ Only(t)' /\ at[t] = from /\ at'[t] = to
        /\ OfRecord(t) /\ OfProcesses(t) /\ OfCloud(t)
    BY <1>1, <1>3, <2>1, Moving
  <2>3. dir' = TRUE /\ pidFile' = pidFile /\ cloud' = cloud /\ saw' = saw /\ unheard' = unheard
    BY <1>5 DEF WriteMeta, controlPlane
  <2>4. meta = NoMeta /\ NoneLive
    BY <1>4, <2>2 DEF OfRecord, OfProcesses
  <2>5. meta'.id = 0 /\ OfRecord(t)'
    BY <2>1, <2>2 DEF OfRecord
  <2>6. OfProcesses(t)'
    BY <1>2, <2>2, <2>4 DEF OfProcesses, NoneLive
  <2>7. OfCloud(t)'
    BY <1>4, <2>2, <2>3, <2>4, <2>5 DEF OfCloud
  <2> QED BY <2>2, <2>5, <2>6, <2>7
<1>6. CASE Register(t)
  <2>1. /\ Only(t)' /\ at[t] = "posting" /\ at'[t] = "posted"
        /\ OfRecord(t) /\ OfProcesses(t) /\ OfCloud(t)
    BY <1>1, <1>3, <1>6, Moving DEF Register
  <2>2. /\ meta' = meta /\ pidFile' = pidFile /\ dir' = dir /\ unheard' = unheard
        /\ cloud' = cloud \cup {lastId'} /\ saw'[t] = lastId'
    BY <1>6, RememberFacts DEF Register, DirStays, processVars, files
  <2>3. OfRecord(t)' /\ OfProcesses(t)'
    BY <1>2, <2>1, <2>2 DEF OfRecord, OfProcesses, NoneLive
  <2>4. meta = [driver |-> "cloud", id |-> 0]
    BY <2>1 DEF OfRecord
  <2>5. OfCloud(t)'
    BY <2>1, <2>2, <2>4 DEF OfCloud
  <2> QED BY <2>1, <2>3, <2>5
<1>7. CASE Registered(t)
  <2>1. /\ Only(t)' /\ at[t] = "posted" /\ at'[t] = "idle"
        /\ OfRecord(t) /\ OfProcesses(t) /\ OfCloud(t)
    BY <1>1, <1>3, <1>7, Moving DEF Registered
  <2>2. /\ meta' = [driver |-> "cloud", id |-> saw[t]] /\ pidFile' = pidFile
        /\ unheard' = unheard /\ cloud' = cloud
    BY <1>7 DEF Registered, controlPlane
  <2>3. NoneLive /\ saw[t] # 0
    BY <2>1 DEF OfRecord, OfProcesses, FleetTypes
  <2>4. OfRecord(t)' /\ OfProcesses(t)'
    BY <1>2, <2>1, <2>2, <2>3 DEF OfRecord, OfProcesses, NoneLive
  <2>5. OfCloud(t)'
    BY <2>1, <2>2, <2>3 DEF OfCloud
  <2> QED BY <2>1, <2>4, <2>5
<1>8. CASE CreateFails(t)
  <2>1. PICK from \in {"posting", "posted"} : Goto(t, from, "idle")
    BY <1>8 DEF CreateFails
  <2>2. /\ Only(t)' /\ at[t] = from /\ at'[t] = "idle"
        /\ OfRecord(t) /\ OfProcesses(t) /\ OfCloud(t)
    BY <1>1, <1>3, <2>1, Moving
  <2>3. /\ meta' = NoMeta /\ pidFile' = 0 /\ cloud' = cloud
        /\ unheard' = (unheard \/ at[t] = "posted")
    BY <1>8 DEF CreateFails, RemoveDir, controlPlane
  <2>4. NoneLive /\ meta.id = 0
    BY <2>2 DEF OfRecord, OfProcesses
  <2>5. OfRecord(t)' /\ OfProcesses(t)'
    BY <1>2, <1>4, <2>2, <2>3, <2>4 DEF OfRecord, OfProcesses, NoneLive
  <2>6. OfCloud(t)'
    <3>1. CASE from = "posted"
      <4>1. unheard' = TRUE
        BY <2>2, <2>3, <3>1
      <4> QED BY <4>1 DEF OfCloud
    <3>2. CASE from = "posting"
      <4>1. unheard' = unheard
        BY <2>2, <2>3, <3>2 DEF FleetTypes
      <4> QED BY <1>4, <2>2, <2>3, <2>4, <3>2, <4>1 DEF OfCloud
    <3> QED BY <3>1, <3>2
  <2> QED BY <2>2, <2>5, <2>6
<1> QED BY <1>5, <1>6, <1>7, <1>8
\* The commands that start and stop a local agent.
LEMMA RunKeeps ==
  ASSUME FleetTypes, LifeInv, FleetInv, NEW t \in Terminals,
         StartReads(t) \/ Spawn(t) \/ Record(t) \/ Terminate(t)
  PROVE  FleetInv'
<1> SUFFICES ASSUME crossed' = FALSE PROVE Only(t)' /\ OfRecord(t)' /\ OfProcesses(t)' /\ OfCloud(t)'
  BY DEF FleetInv
<1>1. crossed = FALSE /\ meta' = meta /\ cloud' = cloud /\ unheard' = unheard
  BY DEF StartReads, Spawn, Record, Terminate, Step, files, controlPlane
<1>2. {"starting", "spawning", "recording", "stopping", "destroying"} \subseteq Stages \ {"idle"}
      /\ {"idle", "spawning", "recording", "removing"} \subseteq Stages
  BY DEF Stages
<1>3. \A p \in Pids : p # 0 /\ (Live(p) => Alive(p))
  BY LifecycleAssumption DEF Live, Alive
<1>4. CASE StartReads(t)
  <2>1. PICK to \in {"idle", "spawning"} :
          /\ Goto(t, "starting", to)
          /\ to = "spawning" => ~(pidFile # 0 /\ Alive(pidFile))
    BY <1>4 DEF StartReads
  <2>2. /\ Only(t)' /\ at[t] = "starting" /\ at'[t] = to
        /\ OfRecord(t) /\ OfProcesses(t) /\ OfCloud(t)
    BY <1>1, <1>2, <2>1, Moving
  <2>3. pidFile' = pidFile /\ dir' = TRUE /\ \A q \in Pids : Live(q)' <=> Live(q)
    BY <1>4, LiveStays DEF StartReads, ProcessesStay, files
  <2>4. meta.driver = "local" /\ \A p \in Pids : Live(p) => p = pidFile
    BY <2>2 DEF OfRecord, OfProcesses
  <2>5. to = "spawning" => NoneLive
    BY <1>3, <2>1, <2>4 DEF NoneLive
  <2>6. OfRecord(t)' /\ OfCloud(t)'
    BY <1>1, <2>2, <2>3, <2>4 DEF OfRecord, OfCloud
  <2>7. OfProcesses(t)'
    BY <1>1, <2>2, <2>3, <2>4, <2>5 DEF OfProcesses, NoneLive
  <2> QED BY <2>2, <2>6, <2>7
<1>5. CASE Spawn(t)
  <2>1. /\ Only(t)' /\ at[t] = "spawning" /\ at'[t] = "recording"
        /\ OfRecord(t) /\ OfProcesses(t) /\ OfCloud(t)
    BY <1>1, <1>2, <1>5, Moving DEF Spawn
  <2>2. PICK p \in Pids : Boot(p) /\ Remember(t, p)
    BY <1>5 DEF Spawn
  <2>3. saw'[t] = p /\ dir' = TRUE
    BY <2>2, RememberFacts DEF Boot
  <2>4. \A q \in Pids : Live(q)' => q = p
    BY <2>1, <2>2, BootAddsOne DEF LifeInv, OfProcesses, NoneLive
  <2>5. OfRecord(t)' /\ OfCloud(t)'
    BY <1>1, <2>1, <2>3 DEF OfRecord, OfCloud
  <2>6. OfProcesses(t)'
    BY <1>1, <2>1, <2>3, <2>4 DEF OfRecord, OfProcesses, NoneLive
  <2> QED BY <2>1, <2>5, <2>6
<1>6. CASE Record(t)
  <2>1. /\ Only(t)' /\ at[t] = "recording" /\ at'[t] = "idle"
        /\ OfRecord(t) /\ OfProcesses(t) /\ OfCloud(t)
    BY <1>1, <1>2, <1>6, Moving DEF Record
  <2>2. pidFile' = saw[t] /\ \A q \in Pids : Live(q)' <=> Live(q)
    BY <1>6, <2>1, LiveStays DEF Record, processVars, OfRecord
  <2>3. OfRecord(t)' /\ OfCloud(t)'
    BY <1>1, <2>1 DEF OfRecord, OfCloud
  <2>4. OfProcesses(t)'
    BY <1>1, <2>1, <2>2 DEF OfRecord, OfProcesses, NoneLive
  <2> QED BY <2>1, <2>3, <2>4
<1>7. CASE Terminate(t)
  <2>1. PICK from \in {"stopping", "destroying"}, to \in {"idle", "removing"} : Goto(t, from, to)
    BY <1>7 DEF Terminate
  <2>2. /\ Only(t)' /\ at[t] = from /\ at'[t] = to
        /\ OfRecord(t) /\ OfProcesses(t) /\ OfCloud(t)
    BY <1>1, <1>2, <2>1, Moving
  <2>3. meta.driver = "local" /\ \A p \in Pids : Live(p) => p = pidFile
    BY <2>2 DEF OfRecord, OfProcesses
  <2>4. NoneLive'
    <3>1. CASE pidFile # 0 /\ Alive(pidFile)
      <4>1. pidFile \in Pids /\ Signal(pidFile)
        BY <1>7, <3>1 DEF Terminate, FleetTypes
      <4>2. \A q \in Pids : Live(q)' => Live(q) /\ q # pidFile
        BY <4>1, SignalStops DEF LifeInv
      <4> QED BY <2>3, <4>2 DEF NoneLive
    <3>2. CASE ~(pidFile # 0 /\ Alive(pidFile))
      <4>1. proc' = proc /\ stops' = stops
        BY <1>7, <3>2 DEF Terminate, processVars
      <4> QED BY <1>3, <2>3, <3>2, <4>1, LiveStays DEF NoneLive
    <3> QED BY <3>1, <3>2
  <2>5. OfRecord(t)' /\ OfCloud(t)'
    BY <1>1, <2>2, <2>3 DEF OfRecord, OfCloud
  <2>6. OfProcesses(t)'
    BY <2>2, <2>4 DEF OfProcesses, NoneLive
  <2> QED BY <2>2, <2>5, <2>6
<1> QED BY <1>4, <1>5, <1>6, <1>7

\* The commands that remove an agent, and those sent to one in the cloud.
LEMMA RestKeeps ==
  ASSUME FleetTypes, FleetInv, NEW t \in Terminals,
         \/ RemoveAgent(t) \/ Delete(t) \/ Deleted(t) \/ DeleteFails(t)
         \/ ReadStatus(t) \/ Enqueue(t) \/ SendFails(t)
  PROVE  FleetInv'
<1> SUFFICES ASSUME crossed' = FALSE PROVE Only(t)' /\ OfRecord(t)' /\ OfProcesses(t)' /\ OfCloud(t)'
  BY DEF FleetInv
<1>1. crossed = FALSE /\ proc' = proc /\ stops' = stops
  BY DEF RemoveAgent, Delete, Deleted, DeleteFails, ReadStatus, Enqueue, SendFails,
         Step, ProcessesStay, DirStays, processVars
<1>2. \A q \in Pids : Live(q)' <=> Live(q)
  BY <1>1, LiveStays
<1>3. {"removing", "deleting", "deleted", "reading", "sending"} \subseteq Stages \ {"idle"}
      /\ {"idle", "deleted", "sending"} \subseteq Stages
  BY DEF Stages
<1>4. NoMeta.driver = "none" /\ NoMeta.id = 0
  BY DEF NoMeta
<1>5. CASE RemoveAgent(t) \/ Deleted(t)
  <2>1. PICK from \in {"removing", "deleted"} : Goto(t, from, "idle")
    BY <1>5 DEF RemoveAgent, Deleted
  <2>2. /\ Only(t)' /\ at[t] = from /\ at'[t] = "idle"
        /\ OfRecord(t) /\ OfProcesses(t) /\ OfCloud(t)
    BY <1>1, <1>3, <2>1, Moving
  <2>3. /\ meta' = NoMeta /\ pidFile' = 0 /\ cloud' = cloud /\ unheard' = unheard
    BY <1>5 DEF RemoveAgent, Deleted, RemoveDir, controlPlane
  <2>4. NoneLive
    BY <2>2 DEF OfRecord, OfProcesses
  <2>5. unheard = FALSE => cloud = {}
    BY <2>2 DEF OfRecord, OfCloud, FleetTypes
  <2>6. OfRecord(t)' /\ OfProcesses(t)'
    BY <1>2, <2>2, <2>4 DEF OfRecord, OfProcesses, NoneLive
  <2>7. OfCloud(t)'
    BY <1>4, <2>2, <2>3, <2>5 DEF OfCloud
  <2> QED BY <2>2, <2>6, <2>7
<1>6. CASE Delete(t)
  <2>1. /\ Only(t)' /\ at[t] = "deleting" /\ at'[t] = "deleted"
        /\ OfRecord(t) /\ OfProcesses(t) /\ OfCloud(t)
    BY <1>1, <1>3, <1>6, Moving DEF Delete
  <2>2. /\ meta' = meta /\ pidFile' = pidFile /\ unheard' = unheard
        /\ cloud' = cloud \ {meta.id}
    BY <1>6 DEF Delete, DirStays, files
  <2>3. OfRecord(t)' /\ OfProcesses(t)'
    BY <1>2, <2>1, <2>2 DEF OfRecord, OfProcesses, NoneLive
  <2>4. OfCloud(t)'
    BY <2>1, <2>2 DEF OfCloud
  <2> QED BY <2>1, <2>3, <2>4
<1>7. CASE DeleteFails(t)
  <2>1. PICK from \in {"deleting", "deleted"} : Goto(t, from, "idle")
    BY <1>7 DEF DeleteFails
  <2>2. /\ Only(t)' /\ at[t] = from /\ at'[t] = "idle"
        /\ OfRecord(t) /\ OfProcesses(t) /\ OfCloud(t)
    BY <1>1, <1>3, <2>1, Moving
  <2>3. /\ meta' = meta /\ pidFile' = pidFile /\ cloud' = cloud
        /\ unheard' = (unheard \/ at[t] = "deleted")
    BY <1>7 DEF DeleteFails, DirStays, files, controlPlane
  <2>4. OfRecord(t)' /\ OfProcesses(t)'
    BY <1>2, <2>2, <2>3 DEF OfRecord, OfProcesses, NoneLive
  <2>5. OfCloud(t)'
    <3>1. CASE from = "deleted"
      <4>1. unheard' = TRUE
        BY <2>2, <2>3, <3>1
      <4> QED BY <4>1 DEF OfCloud
    <3>2. CASE from = "deleting"
      <4>1. unheard' = unheard
        BY <2>2, <2>3, <3>2 DEF FleetTypes
      <4> QED BY <2>2, <2>3, <3>2, <4>1 DEF OfCloud
    <3> QED BY <3>1, <3>2
  <2> QED BY <2>2, <2>4, <2>5
<1>8. CASE ReadStatus(t) \/ Enqueue(t) \/ SendFails(t)
  <2>1. PICK from \in {"reading", "sending"}, to \in {"sending", "idle"} : Goto(t, from, to)
    BY <1>8 DEF ReadStatus, Enqueue, SendFails
  <2>2. /\ Only(t)' /\ at[t] = from /\ at'[t] = to
        /\ OfRecord(t) /\ OfProcesses(t) /\ OfCloud(t)
    BY <1>1, <1>3, <2>1, Moving
  <2>3. meta' = meta /\ pidFile' = pidFile /\ cloud' = cloud
    BY <1>8 DEF ReadStatus, Enqueue, SendFails, DirStays, files, controlPlane
  <2>4. unheard' = unheard \/ unheard' = TRUE
    BY <1>8 DEF ReadStatus, Enqueue, SendFails
  <2>5. OfRecord(t)' /\ OfProcesses(t)'
    BY <1>2, <2>2, <2>3 DEF OfRecord, OfProcesses, NoneLive
  <2>6. OfCloud(t)'
    BY <2>2, <2>3, <2>4 DEF OfCloud
  <2> QED BY <2>2, <2>5, <2>6
<1> QED BY <1>5, <1>6, <1>7, <1>8

\* Agents and the control plane leave the terminals where they are.
LEMMA FleetStays ==
  ASSUME FleetInv, dir' = dir, UNCHANGED <<at, saw, meta, pidFile, cloud, crossed, unheard>>,
         \A p \in Pids : Live(p)' => Live(p)
  PROVE  FleetInv'
<1> SUFFICES ASSUME crossed' = FALSE
             PROVE \E t \in Terminals : Only(t)' /\ OfRecord(t)' /\ OfProcesses(t)' /\ OfCloud(t)'
  BY DEF FleetInv
<1>1. PICK t \in Terminals : Only(t) /\ OfRecord(t) /\ OfProcesses(t) /\ OfCloud(t)
  BY DEF FleetInv
<1>2. Only(t)' /\ OfRecord(t)' /\ OfCloud(t)'
  BY <1>1 DEF Only, OfRecord, OfCloud
<1>3. OfProcesses(t)'
  BY <1>1 DEF OfProcesses, NoneLive
<1> QED BY <1>2, <1>3

LEMMA FleetKept == FleetTypes /\ LifeInv /\ FleetInv /\ [Next]_vars => FleetInv'
<1> SUFFICES ASSUME FleetTypes, LifeInv, FleetInv, [Next]_vars PROVE FleetInv'
  OBVIOUS
<1>1. ASSUME NEW t \in Terminals, BeginCreate(t) \/ BeginStart(t) \/ BeginStop(t) \/ BeginDestroy(t) \/ BeginSend(t)
      PROVE FleetInv'
  <2>1. \E stage \in Opening :
          /\ Begin(t, stage)
          /\ stage \in {"createLocal", "createCloud"} => meta = NoMeta
          /\ stage \in {"starting", "stopping", "destroying"} => meta.driver = "local"
          /\ stage = "deleting" => meta.driver = "cloud"
    BY <1>1 DEF BeginCreate, BeginStart, BeginStop, BeginDestroy, BeginSend, Opening, FleetTypes, Drivers
  <2> QED BY <2>1, BeginKeeps
<1>2. CASE \E t \in Terminals : Command(t)
  BY <1>1, <1>2, CreateKeeps, RunKeeps, RestKeeps DEF Command
<1>3. CASE \E p \in Pids : Lives(p) /\ UNCHANGED <<files, controlPlane, terminal>>
  <2>1. dir' = dir /\ \A p \in Pids : Live(p)' => Live(p)
    BY <1>3, LivesKeepsDir, LivesAddsNone
  <2> QED BY <1>3, <2>1, FleetStays DEF files, controlPlane, terminal
<1>4. CASE Acknowledge \/ UNCHANGED vars
  <2>1. dir' = dir /\ proc' = proc /\ stops' = stops
        /\ UNCHANGED <<at, saw, meta, pidFile, cloud, crossed, unheard>>
    BY <1>4 DEF Acknowledge, vars, processVars, files, controlPlane, terminal
  <2>2. \A p \in Pids : Live(p)' => Live(p)
    BY <2>1, LiveStays
  <2> QED BY <2>1, <2>2, FleetStays
<1> QED BY <1>2, <1>3, <1>4 DEF Next

LEMMA FleetInvariant == Spec => []FleetInv
<1>1. FleetTypes /\ LifeInv /\ FleetInv /\ [Next]_vars => FleetInv'
  BY FleetKept
<1> QED BY FleetInit, LifeInvariant, <1>1, PTL DEF Spec

\* Whoever awaits each command has at most one process that was not told to stop: starts,
\* stops, deaths and recycled process ids included (local.js 18-40, agents.js 126-134).
THEOREM OneProcess == Spec => []OneAgentProcess
<1>1. ASSUME FleetTypes, FleetInv PROVE OneAgentProcess
  <2> SUFFICES ASSUME crossed = FALSE
               PROVE Cardinality({p \in Pids : proc[p] \in {"setup", "up"} /\ ~Stopping(p)}) <= 1
    BY <1>1 DEF OneAgentProcess, FleetTypes
  <2> DEFINE S == {p \in Pids : proc[p] \in {"setup", "up"} /\ ~Stopping(p)}
  <2>1. \E x : S \subseteq {x}
    BY <1>1 DEF FleetInv, OfProcesses, Live
  <2>2. PICK x : S \subseteq {x}
    BY <2>1
  <2> HIDE DEF S
  <2>3. IsFiniteSet({x}) /\ Cardinality({x}) = 1
    BY FS_Singleton
  <2>4. Cardinality(S) <= 1
    BY <2>2, <2>3, FS_Subset
  <2> QED BY <2>4 DEF S
<1> QED BY FleetInvariant, LifeInvariant, <1>1, PTL

\* A cloud agent is never lost sight of by awaited commands whose answers were heard
\* (agents.js 90-107, 126-134).
THEOREM RecordKept == Spec => []RecordMatchesCloud
<1>1. ASSUME FleetTypes, FleetInv PROVE RecordMatchesCloud
  <2> SUFFICES ASSUME crossed = FALSE, unheard = FALSE, Quiet PROVE cloud = {meta.id} \ {0}
    BY <1>1 DEF RecordMatchesCloud, FleetTypes
  <2>1. PICK t \in Terminals : OfCloud(t)
    BY <1>1 DEF FleetInv
  <2> QED BY <2>1 DEF OfCloud, Quiet
<1> QED BY FleetInvariant, LifeInvariant, <1>1, PTL

-----------------------------------------------------------------------------
(* The heartbeat.                                                          *)

\* A process that is not up has no tick under way that could still write; what ended
\* through stop() is gone; and what a directory that is not there says is nothing.
HeartInv ==
  /\ graceful \in [Pids -> BOOLEAN]
  /\ dir = FALSE => heartbeat = "none"
  /\ \A p \in Pids : proc[p] # "up" => draining[p] = 0 /\ trading[p] = 0
  /\ \A p \in Pids : graceful[p] = TRUE => proc[p] \in {"exited", "foreign"}
  /\ \A p \in Pids :
       graceful[p] = TRUE /\ (\A q \in Pids \ {p} : proc[q] = "unborn") => heartbeat # "running"

LEMMA HeartInit == Init => HeartInv
BY DEF Init, ProcInit, HeartInv

\* What stays true as long as nobody writes the heartbeat, and no process becomes graceful.
LEMMA HeartStays ==
  ASSUME HeartInv, LifeInv, graceful' = graceful, heartbeat' = heartbeat, dir' = FALSE => dir = FALSE,
         \A p \in Pids : proc'[p] # "up" => draining'[p] = 0 /\ trading'[p] = 0,
         \A p \in Pids : proc[p] \in {"exited", "foreign"} => proc'[p] \in {"exited", "foreign"},
         \A p \in Pids : proc'[p] = "unborn" => proc[p] = "unborn"
  PROVE  HeartInv'
BY DEF HeartInv

LEMMA LivesHeart == ASSUME HeartInv, LifeInv, NEW p \in Pids, Lives(p) PROVE HeartInv'
<1>0. /\ proc \in [Pids -> {"unborn", "setup", "up", "exited", "foreign"}]
      /\ draining \in [Pids -> Nat] /\ trading \in [Pids -> Nat]
      /\ running[p] = TRUE => proc[p] = "up"
  BY DEF LifeInv, LifeTypes, Orderly
<1>1. CASE SetupEnds(p)
  <2>1. /\ proc[p] = "setup" /\ proc' = [proc EXCEPT ![p] = "up"]
        /\ graceful' = graceful /\ dir' = dir /\ draining' = draining /\ trading' = trading
        /\ heartbeat' = IF dir THEN "running" ELSE heartbeat
    BY <1>1 DEF SetupEnds, Says
  <2>2. \A q \in Pids : graceful[q] = TRUE => q # p
    BY <2>1 DEF HeartInv
  <2> QED BY <1>0, <2>1, <2>2 DEF HeartInv
<1>2. CASE Dies(p)
  BY <1>0, <1>2, HeartStays DEF Dies, Gone, HeartInv
<1>3. CASE TickBegins(p)
  <2>1. proc[p] = "up"
    BY <1>0, <1>3 DEF TickBegins, LifeInv, LifeTypes
  <2> QED BY <1>0, <1>3, <2>1, HeartStays DEF TickBegins, HeartInv
<1>4. CASE StrategyBegins(p) \/ TickThrows(p)
  <2>1. proc[p] = "up"
    BY <1>0, <1>4 DEF StrategyBegins, TickThrows, HeartInv
  <2> QED BY <1>0, <1>4, <2>1, HeartStays DEF StrategyBegins, TickThrows, HeartInv
<1>5. CASE TickEnds(p)
  <2>1. /\ trading[p] > 0 /\ proc' = proc /\ graceful' = graceful /\ dir' = dir
        /\ draining' = draining /\ trading' = [trading EXCEPT ![p] = @ - 1]
        /\ heartbeat' = IF dir THEN "running" ELSE heartbeat
    BY <1>5 DEF TickEnds, Says
  <2>2. proc[p] = "up"
    BY <1>0, <2>1 DEF HeartInv
  <2>3. \A q \in Pids : graceful[q] = TRUE => q # p
    BY <2>2 DEF HeartInv
  <2> QED BY <1>0, <2>1, <2>2, <2>3 DEF HeartInv
<1>6. ASSUME NEW i \in DOMAIN stops[p], DrainHookEnds(p, i) PROVE HeartInv'
  BY <1>6, HeartStays DEF DrainHookEnds, HeartInv
<1>7. ASSUME NEW i \in DOMAIN stops[p], StopEnds(p, i) PROVE HeartInv'
  <2>1. /\ proc' = [proc EXCEPT ![p] = "exited"] /\ graceful' = [graceful EXCEPT ![p] = TRUE]
        /\ dir' = dir /\ draining' = [draining EXCEPT ![p] = 0] /\ trading' = [trading EXCEPT ![p] = 0]
        /\ heartbeat' = IF dir THEN "stopped" ELSE heartbeat
    BY <1>7 DEF StopEnds, Gone, Says
  <2>2. heartbeat' # "running"
    BY <2>1 DEF HeartInv
  <2> QED BY <1>0, <2>1, <2>2 DEF HeartInv
<1>8. CASE Recycle(p)
  BY <1>0, <1>8, HeartStays DEF Recycle, HeartInv
<1> QED BY <1>1, <1>2, <1>3, <1>4, <1>5, <1>6, <1>7, <1>8 DEF Lives, Stop

\* A terminal that starts or signals a process, or writes or removes the directory.
LEMMA CommandHeart ==
  ASSUME HeartInv, LifeInv, FleetTypes, NEW t \in Terminals, Command(t)
  PROVE  HeartInv'
<1>0. /\ proc \in [Pids -> {"unborn", "setup", "up", "exited", "foreign"}]
      /\ draining \in [Pids -> Nat] /\ trading \in [Pids -> Nat]
  BY DEF LifeInv, LifeTypes
<1>1. ASSUME UNCHANGED <<proc, draining, trading, graceful, heartbeat>>, dir' = dir \/ dir' = TRUE
      PROVE HeartInv'
  BY <1>1, HeartStays DEF HeartInv
<1>2. ASSUME UNCHANGED <<proc, draining, trading, graceful>>, heartbeat' = "none"
      PROVE HeartInv'
  BY <1>2 DEF HeartInv
<1>3. CASE BeginCreate(t) \/ BeginStart(t) \/ BeginStop(t) \/ BeginDestroy(t) \/ BeginSend(t)
  BY <1>1, <1>3 DEF BeginCreate, BeginStart, BeginStop, BeginDestroy, BeginSend, Begin, processVars
<1>4. CASE WriteMeta(t) \/ Registered(t) \/ StartReads(t)
  BY <1>1, <1>4 DEF WriteMeta, Registered, StartReads, ProcessesStay
<1>5. CASE CreateFails(t) \/ RemoveAgent(t) \/ Deleted(t)
  BY <1>2, <1>5 DEF CreateFails, RemoveAgent, Deleted, RemoveDir, ProcessesStay
<1>6. CASE Register(t) \/ Delete(t) \/ DeleteFails(t) \/ ReadStatus(t) \/ Enqueue(t) \/ SendFails(t)
  BY <1>1, <1>6 DEF Register, Delete, DeleteFails, ReadStatus, Enqueue, SendFails, DirStays, processVars
<1>7. CASE Record(t)
  BY <1>1, <1>7 DEF Record, processVars
<1>8. CASE Spawn(t)
  <2>1. PICK p \in Pids : Boot(p)
    BY <1>8 DEF Spawn
  <2> QED BY <1>0, <2>1, HeartStays DEF Boot, HeartInv
<1>9. CASE Terminate(t)
  <2>1. CASE UNCHANGED processVars
    BY <1>1, <2>1 DEF processVars
  <2>2. CASE pidFile # 0 /\ Signal(pidFile)
    <3>1. pidFile \in Pids /\ Alive(pidFile)
      BY <2>2 DEF FleetTypes, Signal
    <3> QED BY <1>0, <2>2, <3>1, HeartStays DEF Signal, Signalled, Gone, Alive, HeartInv
  <2> QED BY <1>9, <2>1, <2>2 DEF Terminate
<1> QED BY <1>3, <1>4, <1>5, <1>6, <1>7, <1>8, <1>9 DEF Command

LEMMA HeartKept == FleetTypes /\ LifeInv /\ HeartInv /\ [Next]_vars => HeartInv'
<1> SUFFICES ASSUME FleetTypes, LifeInv, HeartInv, [Next]_vars PROVE HeartInv'
  OBVIOUS
<1>1. CASE Acknowledge \/ UNCHANGED vars
  BY <1>1 DEF Acknowledge, vars, processVars, HeartInv
<1> QED BY <1>1, CommandHeart, LivesHeart DEF Next

\* What stop() says stays said until another process of the agent speaks, although a tick
\* may end while it is stopping (agent.ts 451-464).
THEOREM LastWord == Spec => []StoppedIsTheLastWord
<1>1. HeartInv => StoppedIsTheLastWord
  BY DEF HeartInv, StoppedIsTheLastWord
<1>2. FleetTypes /\ LifeInv /\ HeartInv /\ [Next]_vars => HeartInv'
  BY HeartKept
<1> QED BY HeartInit, LifeInvariant, <1>1, <1>2, PTL DEF Spec

-----------------------------------------------------------------------------
(* Sequence numbers.                                                       *)

Increasing(q) == q \in Seq(Nat) /\ \A i, j \in DOMAIN q : i < j => q[i] < q[j]
Above(n, q) == n \in Nat /\ \A i \in DOMAIN q : q[i] < n

\* Awaited commands whose status was read: what is queued increases, and the number a
\* command is about to send is above it all.
SeqInv ==
  crossed = FALSE /\ unheard = FALSE =>
    Increasing(queue) /\ \A t \in Terminals : at[t] = "sending" => Above(saw[t], queue)

\* nextSeq is above every number in the queue.  (The greatest one is the last.)
LEMMA NextSeqAbove == ASSUME Increasing(queue) PROVE Above(NextSeq, queue)
<1> DEFINE S == {0} \cup ToSet(queue)
<1>1. \A i \in DOMAIN queue : queue[i] \in S
  BY DEF ToSet
<1>2. S \subseteq Nat
  BY DEF ToSet, Increasing
<1>3. \E m \in S : \A y \in S : m >= y
  <2>1. CASE queue = <<>>
    BY <2>1 DEF ToSet
  <2>2. CASE queue # <<>>
    <3>1. Len(queue) \in DOMAIN queue /\ DOMAIN queue = 1..Len(queue)
      BY <2>2 DEF Increasing
    <3>2. \A i \in DOMAIN queue : queue[i] <= queue[Len(queue)]
      BY <3>1 DEF Increasing
    <3>3. \A y \in S : queue[Len(queue)] >= y
      BY <1>2, <3>1, <3>2 DEF ToSet, Increasing
    <3> QED BY <1>1, <3>1, <3>3
  <2> QED BY <2>1, <2>2
<1>4. Max(S) \in S /\ \A y \in S : Max(S) >= y
  <2> HIDE DEF S
  <2> QED BY <1>3 DEF Max
<1>5. NextSeq = 1 + Max(S)
  BY DEF NextSeq
<1> HIDE DEF S
<1>6. PICK m \in Nat : m = Max(S)
  BY <1>2, <1>4
<1>7. \A i \in DOMAIN queue : queue[i] \in Nat /\ m >= queue[i]
  BY <1>1, <1>2, <1>4, <1>6
<1>8. NextSeq = 1 + m
  BY <1>5, <1>6
<1>9. \A i \in DOMAIN queue : queue[i] < 1 + m
  BY <1>7
<1> QED BY <1>8, <1>9 DEF Above

LEMMA AppendIncreases ==
  ASSUME NEW q, Increasing(q), NEW n, Above(n, q) PROVE Increasing(Append(q, n))
<1>1. Append(q, n) \in Seq(Nat) /\ DOMAIN Append(q, n) = 1..(Len(q) + 1)
  BY DEF Increasing, Above
<1>2. \A i \in 1..Len(q) : Append(q, n)[i] = q[i] /\ q[i] < n
  BY DEF Increasing, Above
<1>3. Append(q, n)[Len(q) + 1] = n
  BY DEF Increasing
<1>4. ASSUME NEW i \in 1..(Len(q) + 1), NEW j \in 1..(Len(q) + 1), i < j
      PROVE Append(q, n)[i] < Append(q, n)[j]
  <2>1. Len(q) \in Nat /\ i \in 1..Len(q)
    BY <1>4 DEF Increasing
  <2>2. CASE j = Len(q) + 1
    BY <1>2, <1>3, <2>1, <2>2
  <2>3. CASE j # Len(q) + 1
    BY <1>2, <1>4, <2>1, <2>3 DEF Increasing
  <2> QED BY <2>2, <2>3
<1> QED BY <1>1, <1>4 DEF Increasing

LEMMA SeqInit == Init => SeqInv
BY DEF Init, SeqInv, Increasing

\* The histories are never taken back, and a terminal is sending only after it read.
LEMMA SeqCommand ==
  ASSUME FleetTypes, FleetInv, SeqInv, NEW t \in Terminals, Command(t)
  PROVE  SeqInv'
<1> SUFFICES ASSUME crossed' = FALSE, unheard' = FALSE
             PROVE  Increasing(queue)' /\ \A u \in Terminals : at'[u] = "sending" => Above(saw[u], queue)'
  BY DEF SeqInv
<1> USE DEF Step, DirStays, ProcessesStay, files, controlPlane
<1>1. CASE BeginCreate(t) \/ BeginStart(t) \/ BeginStop(t) \/ BeginDestroy(t) \/ BeginSend(t)
  <2>1. PICK stage \in Stages \ {"sending"} : Begin(t, stage)
    BY <1>1 DEF BeginCreate, BeginStart, BeginStop, BeginDestroy, BeginSend, Stages
  <2>2. crossed = FALSE /\ unheard = FALSE /\ queue' = queue /\ saw' = saw
    BY <2>1 DEF Begin, FleetTypes
  <2>3. at'[t] = stage /\ \A u \in Terminals \ {t} : at'[u] = at[u]
    BY <2>1, GotoFacts DEF Begin
  <2> QED BY <2>1, <2>2, <2>3 DEF SeqInv
<1>2. CASE ~(BeginCreate(t) \/ BeginStart(t) \/ BeginStop(t) \/ BeginDestroy(t) \/ BeginSend(t))
  <2>1. crossed = FALSE /\ unheard = FALSE
    BY <1>2 DEF Command, FleetTypes, WriteMeta, Register, Registered, CreateFails, StartReads, Spawn,
                Record, Terminate, RemoveAgent, Delete, Deleted, DeleteFails, ReadStatus, Enqueue,
                SendFails
  <2>2. Increasing(queue) /\ \A u \in Terminals : at[u] = "sending" => Above(saw[u], queue)
    BY <2>1 DEF SeqInv
  <2>3. CASE ReadStatus(t)
    <3>1. Remember(t, NextSeq) /\ queue' = queue /\ Goto(t, "reading", "sending")
      BY <2>3 DEF ReadStatus
    <3>2. saw'[t] = NextSeq /\ \A u \in Terminals \ {t} : saw'[u] = saw[u] /\ at'[u] = at[u]
      BY <3>1, RememberFacts, GotoFacts DEF Stages
    <3> QED BY <2>2, <3>1, <3>2, NextSeqAbove
  <2>4. CASE Enqueue(t)
    <3>1. Goto(t, "sending", "idle") /\ queue' = Append(queue, saw[t]) /\ saw' = saw
      BY <2>4 DEF Enqueue
    <3>2. at[t] = "sending" /\ at'[t] = "idle" /\ Only(t)'
      BY <2>1, <3>1, Moving DEF Stages
    <3>3. Increasing(queue)'
      BY <2>2, <3>1, <3>2, AppendIncreases
    <3>4. \A u \in Terminals : at'[u] = "idle"
      BY <3>2 DEF Only
    <3> QED BY <3>3, <3>4
  <2>5. CASE SendFails(t) \/ Record(t) \/ Terminate(t) \/ RemoveAgent(t) \/ Delete(t) \/ Deleted(t)
             \/ DeleteFails(t) \/ WriteMeta(t) \/ Registered(t) \/ CreateFails(t) \/ StartReads(t)
    <3>1. queue' = queue /\ saw' = saw
      BY <2>5 DEF SendFails, Record, Terminate, RemoveAgent, Delete, Deleted, DeleteFails, WriteMeta,
                  Registered, CreateFails, StartReads
    <3>2. \E from, to \in Stages \ {"sending"} : Goto(t, from, to) \/ Goto(t, "sending", to)
      BY <2>5 DEF SendFails, Record, Terminate, RemoveAgent, Delete, Deleted, DeleteFails, WriteMeta,
                  Registered, CreateFails, StartReads, Stages
    <3>3. \A u \in Terminals : at'[u] = "sending" => at[u] = "sending"
      BY <3>2, GotoFacts
    <3> QED BY <2>2, <3>1, <3>3
  <2>6. CASE Register(t) \/ Spawn(t)
    <3>1. queue' = queue /\ \E x : Remember(t, x)
      BY <2>6 DEF Register, Spawn
    <3>2. \E from, to \in Stages \ {"sending"} : Goto(t, from, to)
      BY <2>6 DEF Register, Spawn, Stages
    <3>3. \A u \in Terminals : at'[u] = "sending" => at[u] = "sending" /\ u # t
      BY <3>2, GotoFacts
    <3>4. \A u \in Terminals \ {t} : saw'[u] = saw[u]
      BY <3>1, RememberFacts
    <3> QED BY <2>2, <3>1, <3>3, <3>4
  <2> QED BY <1>2, <2>3, <2>4, <2>5, <2>6 DEF Command
<1> QED BY <1>1, <1>2

LEMMA SeqKept == FleetTypes /\ FleetInv /\ SeqInv /\ [Next]_vars => SeqInv'
<1> SUFFICES ASSUME FleetTypes, FleetInv, SeqInv, [Next]_vars PROVE SeqInv'
  OBVIOUS
<1>1. CASE \E p \in Pids : Lives(p) /\ UNCHANGED <<files, controlPlane, terminal>>
  BY <1>1 DEF SeqInv, Increasing, Above, controlPlane, terminal
<1>2. CASE Acknowledge \/ UNCHANGED vars
  BY <1>2 DEF Acknowledge, vars, SeqInv, Increasing, Above, controlPlane, terminal
<1> QED BY <1>1, <1>2, SeqCommand DEF Next

\* Awaited commands get increasing numbers, for any number of them, as long as the status
\* could be read (agent-commands.js 35-44).
THEOREM Increase == Spec => []SeqsIncrease
<1>1. FleetTypes /\ SeqInv => SeqsIncrease
  BY DEF FleetTypes, SeqInv, SeqsIncrease, Increasing
<1>2. FleetTypes /\ FleetInv /\ SeqInv /\ [Next]_vars => SeqInv'
  BY SeqKept
<1> QED BY SeqInit, LifeInvariant, FleetInvariant, <1>1, <1>2, PTL DEF Spec
=============================================================================
