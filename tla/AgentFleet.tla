----------------------------- MODULE AgentFleet -----------------------------
(***************************************************************************)
(* One agent as its owner's terminals manage it (apps/cli/src/services/    *)
(* agents.js with drivers/local.js, drivers/cloud.js, agent-commands.js):  *)
(* its directory with meta.json and agent.pid, the processes a local agent *)
(* runs in (AgentLifecycle), or the agent the control plane keeps for a    *)
(* cloud one and the commands queued for it.                               *)
(*                                                                         *)
(* Each command of a terminal is a process of its own: between its reads   *)
(* of the files or answers from the control plane and its writes, other    *)
(* terminals and the agents themselves move.  The control plane is not in  *)
(* the repository.                                                         *)
(***************************************************************************)
EXTENDS AgentLifecycle, SequencesExt

CONSTANTS
  Terminals,    \* the owner's terminals
  MaxCommands   \* bound on the commands they run in all

ASSUME FleetAssumption == Terminals # {} /\ MaxCommands \in Nat

VARIABLES
  meta,      \* meta.json: the driver and the control plane's id, or NoMeta
  pidFile,   \* agent.pid, 0 when there is none
  at,        \* where each terminal's command stands
  saw,       \* what it read or was told and will use
  cloud,     \* control plane: the ids of the agents it keeps under this name
  lastId,    \* control plane: the last id it gave
  queue,     \* control plane: the sequence numbers of the commands sent
  acked,     \* control plane: how many of them the agent has answered
  commands,  \* how many commands were run
  crossed,   \* history: a command was begun while another was under way
  unheard    \* history: an answer of the control plane that mattered was lost

files == <<meta, pidFile>>
controlPlane == <<cloud, lastId, queue, acked>>
terminal == <<at, saw, commands, crossed, unheard>>
vars == <<processVars, files, controlPlane, terminal>>

Drivers == {"local", "cloud"}
NoMeta == [driver |-> "none", id |-> 0]
Stages == {"idle", "createLocal", "createCloud", "posting", "posted", "starting", "spawning",
           "recording", "stopping", "destroying", "removing", "deleting", "deleted", "reading", "sending"}

TypeOK ==
  /\ ProcTypeOK
  /\ meta \in [driver : Drivers, id : Nat] \cup {NoMeta}
  /\ pidFile \in Pids \cup {0}
  /\ at \in [Terminals -> Stages]
  /\ saw \in [Terminals -> Nat]
  /\ cloud \subseteq 1..lastId
  /\ lastId \in Nat
  /\ queue \in Seq(Nat \ {0})
  /\ acked \in 0..Len(queue)
  /\ commands \in 0..MaxCommands
  /\ crossed \in BOOLEAN
  /\ unheard \in BOOLEAN

Init ==
  /\ ProcInit
  /\ meta = NoMeta
  /\ pidFile = 0
  /\ at = [t \in Terminals |-> "idle"]
  /\ saw = [t \in Terminals |-> 0]
  /\ cloud = {}
  /\ lastId = 0
  /\ queue = <<>>
  /\ acked = 0
  /\ commands = 0
  /\ crossed = FALSE
  /\ unheard = FALSE

Goto(t, from, to) == at[t] = from /\ at' = [at EXCEPT ![t] = to]
Remember(t, what) == saw' = [saw EXCEPT ![t] = what]

\* rmSync of the agent's directory, with everything in it.
RemoveDir ==
  /\ meta' = NoMeta
  /\ pidFile' = 0
  /\ dir' = FALSE
  /\ heartbeat' = "none"

\* What the directory holds stays, or goes with it.
ProcessesStay == UNCHANGED <<proc, running, ticking, busy, draining, trading, stops, graceful, lateTicks>>
DirStays == UNCHANGED <<processVars, files>>

\* A command begins.  All but create first read meta.json, and end there without it.
Begin(t, stage) ==
  /\ commands < MaxCommands
  /\ Goto(t, "idle", stage)
  /\ commands' = commands + 1
  /\ crossed' = (crossed \/ \E u \in Terminals : at[u] # "idle")
  /\ UNCHANGED <<processVars, files, controlPlane, saw, unheard>>

\* The steps a command makes after its first.
Step == UNCHANGED <<commands, crossed>>

-----------------------------------------------------------------------------
(* create.                                                                 *)

BeginCreate(t) ==
  /\ meta = NoMeta
  /\ \E d \in Drivers : Begin(t, IF d = "local" THEN "createLocal" ELSE "createCloud")

WriteMeta(t) ==
  /\ \/ Goto(t, "createLocal", "idle") /\ meta' = [driver |-> "local", id |-> 0]
     \/ Goto(t, "createCloud", "posting") /\ meta' = [driver |-> "cloud", id |-> 0]
  /\ dir' = TRUE
  /\ ProcessesStay /\ UNCHANGED <<heartbeat, pidFile, controlPlane, saw, unheard>> /\ Step

\* The control plane makes the agent, and its answer is on its way.
Register(t) ==
  /\ Goto(t, "posting", "posted")
  /\ lastId' = lastId + 1
  /\ cloud' = cloud \cup {lastId'}
  /\ Remember(t, lastId')
  /\ DirStays /\ UNCHANGED <<queue, acked, unheard>> /\ Step

Registered(t) ==
  /\ Goto(t, "posted", "idle")
  /\ meta' = [driver |-> "cloud", id |-> saw[t]]
  /\ dir' = TRUE
  /\ ProcessesStay /\ UNCHANGED <<heartbeat, pidFile, controlPlane, saw, unheard>> /\ Step

\* The upload of the bundle or the request fails, or the answer is lost: the directory
\* is removed again.
CreateFails(t) ==
  /\ \E stage \in {"posting", "posted"} : Goto(t, stage, "idle")
  /\ RemoveDir
  /\ unheard' = (unheard \/ at[t] = "posted")
  /\ ProcessesStay /\ UNCHANGED <<controlPlane, saw>> /\ Step

-----------------------------------------------------------------------------
(* start, stop and destroy of a local agent.                               *)

BeginStart(t) == meta.driver = "local" /\ Begin(t, "starting")

\* Mutant of StartReads: the pid file is taken at its word only when it is missing.
StartReadsNothing(t) ==
  /\ Goto(t, "starting", "spawning")
  /\ dir' = TRUE
  /\ ProcessesStay /\ UNCHANGED <<heartbeat, files, controlPlane, saw, unheard>> /\ Step

\* A process that answers to the recorded id is taken for the agent.
StartReads(t) ==
  /\ Goto(t, "starting", IF pidFile # 0 /\ Alive(pidFile) THEN "idle" ELSE "spawning")
  /\ dir' = TRUE
  /\ ProcessesStay /\ UNCHANGED <<heartbeat, files, controlPlane, saw, unheard>> /\ Step

Spawn(t) ==
  /\ Goto(t, "spawning", "recording")
  /\ \E p \in Pids : Boot(p) /\ Remember(t, p)
  /\ UNCHANGED <<files, controlPlane, unheard>> /\ Step

\* The write fails when the directory is gone.
Record(t) ==
  /\ Goto(t, "recording", "idle")
  /\ pidFile' = IF dir THEN saw[t] ELSE pidFile
  /\ UNCHANGED <<processVars, meta, controlPlane, saw, unheard>> /\ Step

BeginStop(t) == meta.driver = "local" /\ Begin(t, "stopping")
BeginDestroy(t) ==
  /\ meta # NoMeta
  /\ Begin(t, IF meta.driver = "local" THEN "destroying" ELSE "deleting")

\* SIGTERM to whatever runs under the recorded id; nobody waits for it to end.
Terminate(t) ==
  /\ \/ Goto(t, "stopping", "idle")
     \/ Goto(t, "destroying", "removing")
  /\ IF pidFile # 0 /\ Alive(pidFile) THEN Signal(pidFile) ELSE UNCHANGED processVars
  /\ UNCHANGED <<files, controlPlane, saw, unheard>> /\ Step

RemoveAgent(t) ==
  /\ Goto(t, "removing", "idle")
  /\ RemoveDir
  /\ ProcessesStay /\ UNCHANGED <<controlPlane, saw, unheard>> /\ Step

-----------------------------------------------------------------------------
(* destroy of a cloud agent.                                               *)

Delete(t) ==
  /\ meta.id \in cloud
  /\ Goto(t, "deleting", "deleted")
  /\ cloud' = cloud \ {meta.id}
  /\ DirStays /\ UNCHANGED <<lastId, queue, acked, saw, unheard>> /\ Step

Deleted(t) ==
  /\ Goto(t, "deleted", "idle")
  /\ RemoveDir
  /\ ProcessesStay /\ UNCHANGED <<controlPlane, saw, unheard>> /\ Step

\* Mutant of DeleteFails: the record goes whatever the control plane said.
DeleteFailsRemoving(t) ==
  /\ Goto(t, "deleting", "idle")
  /\ RemoveDir
  /\ ProcessesStay /\ UNCHANGED <<controlPlane, saw, unheard>> /\ Step

\* The control plane refuses (the wallet still holds funds, the agent is unknown), the
\* request fails, or the answer is lost: the local record stays.
DeleteFails(t) ==
  /\ \E stage \in {"deleting", "deleted"} : Goto(t, stage, "idle")
  /\ unheard' = (unheard \/ at[t] = "deleted")
  /\ DirStays /\ UNCHANGED <<controlPlane, saw>> /\ Step

-----------------------------------------------------------------------------
(* Commands to a cloud agent.                                              *)

\* Mutant of NextSeq: what the agent has not answered yet is overlooked.
NextSeqAcked == IF acked = 0 THEN 1 ELSE queue[acked] + 1

\* nextSeq: strictly above anything the control plane has seen, in whatever state.
NextSeq == 1 + Max({0} \cup ToSet(queue))

BeginSend(t) == meta.driver = "cloud" /\ meta.id \in cloud /\ Begin(t, "reading")

\* The status is read; one that cannot be read counts as an empty one.
ReadStatus(t) ==
  /\ Goto(t, "reading", "sending")
  /\ \/ Remember(t, NextSeq) /\ UNCHANGED unheard
     \/ Remember(t, 1) /\ unheard' = TRUE
  /\ DirStays /\ UNCHANGED controlPlane /\ Step

Enqueue(t) ==
  /\ Goto(t, "sending", "idle")
  /\ queue' = Append(queue, saw[t])
  /\ DirStays /\ UNCHANGED <<cloud, lastId, acked, saw, unheard>> /\ Step

SendFails(t) ==
  /\ Goto(t, "sending", "idle")
  /\ DirStays /\ UNCHANGED <<controlPlane, saw, unheard>> /\ Step

\* The agent answers the next command.
Acknowledge ==
  /\ acked < Len(queue)
  /\ acked' = acked + 1
  /\ UNCHANGED <<processVars, files, cloud, lastId, queue, terminal>>

-----------------------------------------------------------------------------
Command(t) ==
  \/ BeginCreate(t) \/ WriteMeta(t) \/ Register(t) \/ Registered(t) \/ CreateFails(t)
  \/ BeginStart(t) \/ StartReads(t) \/ Spawn(t) \/ Record(t)
  \/ BeginStop(t) \/ BeginDestroy(t) \/ Terminate(t) \/ RemoveAgent(t)
  \/ Delete(t) \/ Deleted(t) \/ DeleteFails(t)
  \/ BeginSend(t) \/ ReadStatus(t) \/ Enqueue(t) \/ SendFails(t)

Next ==
  \/ \E t \in Terminals : Command(t)
  \/ \E p \in Pids : Lives(p) /\ UNCHANGED <<files, controlPlane, terminal>>
  \/ Acknowledge

Spec == Init /\ [][Next]_vars

\* The hooks of stop() settle (the contract of onDrain and checkpoint); nothing is assumed of
\* strategies, terminals or the control plane.
FairSpec == Spec /\ \A p \in Pids : WF_vars(Stop(p) /\ UNCHANGED <<files, controlPlane, terminal>>)

-----------------------------------------------------------------------------
(* Properties.                                                             *)

Quiet == \A t \in Terminals : at[t] = "idle"

\* Whoever awaits each command before the next never has two processes trading for one
\* agent: starts, stops, deaths, recycled process ids and agents made anew leave at most
\* one that was not told to stop (local.js 16-44, agents.js 122-129).
OneAgentProcess ==
  ~crossed => Cardinality({p \in Pids : proc[p] \in {"setup", "up"} /\ ~Stopping(p)}) <= 1

\* A cloud agent, and the funds in its wallet, is never lost sight of: between commands the
\* record on disk names exactly the agents the control plane keeps, unless commands overlapped
\* or an answer was lost (agents.js 90-100, 122-129).
RecordMatchesCloud ==
  ~crossed /\ ~unheard /\ Quiet => cloud = {meta.id} \ {0}

\* Commands that are awaited one by one get increasing sequence numbers, so none is refused by
\* the agent as stale, as long as the status could be read (agent-commands.js 35-44).
SeqsIncrease ==
  ~crossed /\ ~unheard => \A i, j \in DOMAIN queue : i < j => queue[i] < queue[j]
=============================================================================
