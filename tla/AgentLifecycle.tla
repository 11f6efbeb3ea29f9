--------------------------- MODULE AgentLifecycle ---------------------------
(***************************************************************************)
(* The life of agent processes (packages/agent/src/agent.ts): start() with *)
(* its setup, the timer that calls runTick, the signals that call stop,    *)
(* and the heartbeat file they all write.  A tick is awaited twice, in     *)
(* drainCommands and in the strategy's tick(); stop() in onDrain and in    *)
(* checkpoint().  Nothing makes the two wait for each other.               *)
(***************************************************************************)
EXTENDS Naturals, FiniteSets, Sequences

CONSTANTS
  Pids,        \* the process ids an agent may get
  MaxSignals   \* bound on the signals one process is sent

ASSUME LifecycleAssumption == MaxSignals \in Nat /\ Pids \subseteq Nat \ {0}

VARIABLES
  proc,       \* each process: unborn, in setup, up, exited, or its id reused by another program
  running,    \* this.running
  ticking,    \* the timer is set
  busy,       \* this.busy
  draining,   \* how many runTick calls await drainCommands
  trading,    \* how many await tick()
  stops,      \* where each call of stop() stands, in the order of the signals
  heartbeat,  \* what heartbeat.json says
  dir,        \* the data directory exists
  graceful,   \* history: the process ended through stop()
  lateTicks   \* history: how many strategy ticks began after the first signal

processVars == <<proc, running, ticking, busy, draining, trading, stops, heartbeat, dir, graceful, lateTicks>>

ProcTypeOK ==
  /\ proc \in [Pids -> {"unborn", "setup", "up", "exited", "foreign"}]
  /\ \A flag \in {running, ticking, busy, graceful} : flag \in [Pids -> BOOLEAN]
  /\ \A count \in {draining, trading, lateTicks} : count \in [Pids -> Nat]
  /\ stops \in [Pids -> UNION {[1..n -> {"draining", "checkpointing"}] : n \in 0..MaxSignals}]
  /\ heartbeat \in {"none", "running", "stopped"}
  /\ dir \in BOOLEAN

ProcInit ==
  /\ proc = [p \in Pids |-> "unborn"]
  /\ running = [p \in Pids |-> FALSE]
  /\ ticking = [p \in Pids |-> FALSE]
  /\ busy = [p \in Pids |-> FALSE]
  /\ draining = [p \in Pids |-> 0]
  /\ trading = [p \in Pids |-> 0]
  /\ stops = [p \in Pids |-> <<>>]
  /\ heartbeat = "none"
  /\ dir = FALSE
  /\ graceful = [p \in Pids |-> FALSE]
  /\ lateTicks = [p \in Pids |-> 0]

\* heartbeat(state): a write that fails is swallowed.
Says(state) == heartbeat' = IF dir THEN state ELSE heartbeat

Alive(p) == proc[p] \in {"setup", "up", "foreign"}
Stopping(p) == stops[p] # <<>>

\* The process ends: every promise it awaited is gone.
Gone(p) ==
  /\ proc' = [proc EXCEPT ![p] = "exited"]
  /\ running' = [running EXCEPT ![p] = FALSE]
  /\ ticking' = [ticking EXCEPT ![p] = FALSE]
  /\ busy' = [busy EXCEPT ![p] = FALSE]
  /\ draining' = [draining EXCEPT ![p] = 0]
  /\ trading' = [trading EXCEPT ![p] = 0]
  /\ stops' = [stops EXCEPT ![p] = <<>>]

-----------------------------------------------------------------------------
(* start() and run().                                                      *)

Boot(p) ==
  /\ proc[p] = "unborn"
  /\ proc' = [proc EXCEPT ![p] = "setup"]
  /\ dir' = TRUE
  /\ UNCHANGED <<running, ticking, busy, draining, trading, stops, heartbeat, graceful, lateTicks>>

\* setup() resolves: the agent is running, says so, sets its timer and listens to signals.
SetupEnds(p) ==
  /\ proc[p] = "setup"
  /\ proc' = [proc EXCEPT ![p] = "up"]
  /\ running' = [running EXCEPT ![p] = TRUE]
  /\ ticking' = [ticking EXCEPT ![p] = TRUE]
  /\ Says("running")
  /\ UNCHANGED <<busy, draining, trading, stops, dir, graceful, lateTicks>>

\* setup() throws, or the process dies of something else.
Dies(p) ==
  /\ proc[p] \in {"setup", "up"}
  /\ Gone(p)
  /\ UNCHANGED <<heartbeat, dir, graceful, lateTicks>>

-----------------------------------------------------------------------------
(* runTick().                                                              *)

\* Mutant of TickBegins: the flag is set when the commands are drained.
TickBeginsUnmarked(p) ==
  /\ ticking[p] /\ running[p] /\ ~busy[p]
  /\ draining[p] < 2
  /\ draining' = [draining EXCEPT ![p] = @ + 1]
  /\ UNCHANGED <<proc, running, ticking, busy, trading, stops, heartbeat, dir, graceful, lateTicks>>

\* The timer fires.  A tick that finds the agent stopped or busy returns at once.
TickBegins(p) ==
  /\ ticking[p] /\ running[p] /\ ~busy[p]
  /\ busy' = [busy EXCEPT ![p] = TRUE]
  /\ draining' = [draining EXCEPT ![p] = @ + 1]
  /\ UNCHANGED <<proc, running, ticking, trading, stops, heartbeat, dir, graceful, lateTicks>>

\* The commands are drained and the strategy's tick begins; running is not read again.
StrategyBegins(p) ==
  /\ draining[p] > 0
  /\ draining' = [draining EXCEPT ![p] = @ - 1]
  /\ trading' = [trading EXCEPT ![p] = @ + 1]
  /\ busy' = [busy EXCEPT ![p] = TRUE]
  /\ lateTicks' = IF Stopping(p) THEN [lateTicks EXCEPT ![p] = @ + 1] ELSE lateTicks
  /\ UNCHANGED <<proc, running, ticking, stops, heartbeat, dir, graceful>>

\* The tick ends, well or with an error that is logged; the flag is released either way.
TickEnds(p) ==
  /\ trading[p] > 0
  /\ trading' = [trading EXCEPT ![p] = @ - 1]
  /\ busy' = [busy EXCEPT ![p] = FALSE]
  /\ Says("running")
  /\ UNCHANGED <<proc, running, ticking, draining, stops, dir, graceful, lateTicks>>

TickThrows(p) ==
  /\ \/ draining[p] > 0 /\ draining' = [draining EXCEPT ![p] = @ - 1] /\ UNCHANGED trading
     \/ trading[p] > 0 /\ trading' = [trading EXCEPT ![p] = @ - 1] /\ UNCHANGED draining
  /\ busy' = [busy EXCEPT ![p] = FALSE]
  /\ UNCHANGED <<proc, running, ticking, stops, heartbeat, dir, graceful, lateTicks>>

-----------------------------------------------------------------------------
(* stop().                                                                 *)

\* A signal before run() has installed its handlers ends the process on the spot;
\* after that each signal calls stop() anew, whether or not one is under way.
Signalled(p) ==
  IF proc[p] = "up"
  THEN /\ stops' = [stops EXCEPT ![p] = Append(@, "draining")]
       /\ running' = [running EXCEPT ![p] = FALSE]
       /\ ticking' = [ticking EXCEPT ![p] = FALSE]
       /\ UNCHANGED <<proc, busy, draining, trading, heartbeat, dir, graceful, lateTicks>>
  ELSE /\ Gone(p)
       /\ UNCHANGED <<heartbeat, dir, graceful, lateTicks>>

Signal(p) ==
  /\ Alive(p)
  /\ Len(stops[p]) < MaxSignals
  /\ Signalled(p)

\* onDrain() resolves and checkpoint() is awaited.
DrainHookEnds(p, i) ==
  /\ stops[p][i] = "draining"
  /\ stops' = [stops EXCEPT ![p][i] = "checkpointing"]
  /\ UNCHANGED <<proc, running, ticking, busy, draining, trading, heartbeat, dir, graceful, lateTicks>>

\* Mutant of StopEnds: the last heartbeat was written before the hooks were awaited.
StopEndsSilently(p, i) ==
  /\ stops[p][i] \in {"draining", "checkpointing"}
  /\ Gone(p)
  /\ graceful' = [graceful EXCEPT ![p] = TRUE]
  /\ UNCHANGED <<heartbeat, dir, lateTicks>>

\* Mutant of StopEnds: it waits for the tick that is under way.
StopEndsAfterTick(p, i) ==
  /\ stops[p][i] \in {"draining", "checkpointing"}
  /\ draining[p] + trading[p] = 0
  /\ Says("stopped")
  /\ Gone(p)
  /\ graceful' = [graceful EXCEPT ![p] = TRUE]
  /\ UNCHANGED <<dir, lateTicks>>

\* checkpoint() resolved, or one of the two threw: the last heartbeat, and exit.
StopEnds(p, i) ==
  /\ stops[p][i] \in {"draining", "checkpointing"}
  /\ Says("stopped")
  /\ Gone(p)
  /\ graceful' = [graceful EXCEPT ![p] = TRUE]
  /\ UNCHANGED <<dir, lateTicks>>

\* The system gives the id of a process that ended to some other program.
Recycle(p) ==
  /\ proc[p] = "exited"
  /\ proc' = [proc EXCEPT ![p] = "foreign"]
  /\ UNCHANGED <<running, ticking, busy, draining, trading, stops, heartbeat, dir, graceful, lateTicks>>

-----------------------------------------------------------------------------
Stop(p) == \E i \in DOMAIN stops[p] : DrainHookEnds(p, i) \/ StopEnds(p, i)

Lives(p) ==
  \/ SetupEnds(p) \/ Dies(p)
  \/ TickBegins(p) \/ StrategyBegins(p) \/ TickEnds(p) \/ TickThrows(p)
  \/ Stop(p)
  \/ Recycle(p)

LifeNext == \E p \in Pids : Boot(p) \/ Signal(p) \/ Lives(p)

LifeSpec == ProcInit /\ [][LifeNext]_processVars

-----------------------------------------------------------------------------
(* Properties.                                                             *)

\* Ticks of one agent never overlap, however long its commands and its strategy take
\* (agent.ts 436-448), and once it was told to stop at most one more begins: the one
\* whose commands were being drained.
OneTickAtATime ==
  \A p \in Pids : draining[p] + trading[p] <= 1 /\ lateTicks[p] <= 1

\* A process that ended through stop() has the last word: the heartbeat does not say
\* running, although a tick may have ended while it was stopping (agent.ts 451-464),
\* until another process of the agent writes it.
StoppedIsTheLastWord ==
  \A p \in Pids :
    graceful[p] /\ (\A q \in Pids \ {p} : proc[q] = "unborn") => heartbeat # "running"

\* A stop that began ends the process, as long as the hooks settle: a strategy that
\* never returns cannot keep it.
SignalledExits == \A p \in Pids : Stopping(p) ~> ~Stopping(p)
=============================================================================
