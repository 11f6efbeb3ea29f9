----------------------------- MODULE CommandInbox -----------------------------
(***************************************************************************)
(* The agent's command inbox (packages/agent/src/agent.ts and              *)
(* commands.ts): each tick drains the owner's signed commands that the     *)
(* node-host left in a file.  A config patch is applied and acknowledged   *)
(* when the drain ends; an action is acknowledged as attempted, the replay *)
(* fence is persisted, and only then does the action run.                  *)
(*                                                                         *)
(* The process can be killed between any two steps and started again from  *)
(* its three files: config.json, command-state.json (fence and acks) and   *)
(* command-acks.json (the acks the node-host relays).                      *)
(***************************************************************************)
EXTENDS Integers, Sequences

CONSTANTS
  Commands,      \* what the owner signed (or somebody else, outside Authentic)
  SeqOf, TypeOf, Expiry, KeysOf,  \* their seq, type, expiresAt and patched keys
  Authentic,     \* the commands whose owner signature verifies
  Allowed,       \* the actions commandActions() lists
  Keys,          \* configuration keys
  Provisioned,   \* the value the owner provisioned a key with
  Missing,       \* a key the configuration does not have
  NoCommand,
  AckCap,        \* the number of acks and ids persisted, 200 in the code
  FaultSets,     \* what can go wrong, by case: sets of FaultKinds
  MaxClock, MaxStarts  \* bounds on the clock and on the lives of the process

\* "crash": the process is killed; "torn": a write stops half way (a kill, a full disk)
\* and leaves a file that does not parse; "unwritten": a write fails before it starts.
FaultKinds == {"crash", "torn", "unwritten"}
Types == {"config-patch", "action", "unknown"}
Patches == {c \in Commands : TypeOf[c] = "config-patch"}
Actions == {c \in Commands : TypeOf[c] = "action"}

ASSUME InboxAssumption ==
  /\ SeqOf \in [Commands -> Nat \ {0}]
  /\ TypeOf \in [Commands -> Types]
  /\ Expiry \in [Commands -> Nat]
  /\ KeysOf \in [Commands -> SUBSET Keys]
  /\ Authentic \subseteq Commands /\ Allowed \subseteq Commands
  /\ NoCommand \notin Commands
  /\ Provisioned \notin Commands /\ Missing \notin Commands
  /\ AckCap \in Nat \ {0}
  /\ FaultSets \subseteq SUBSET FaultKinds
  /\ MaxClock \in Nat /\ MaxStarts \in Nat

VARIABLES
  faults,   \* what can go wrong in this history
  clock,    \* the time
  starts,   \* how often the process was started
  pc,       \* what the process is doing
  inbox,    \* the commands the drain read
  todo,     \* those it has not dealt with
  acting,   \* the action onCommand is running
  changed,  \* the drain has something to persist
  unsaved,  \* a write of this drain failed
  mem,      \* cmdFence and cmdAcks
  config,   \* the configuration: for each key the command that set it
  saved,    \* what command-state.json loads as
  savedConfig,  \* what config.json loads as
  relay,    \* what command-acks.json tells the node-host
  runs,     \* how often each action was run
  forgot    \* history: an ack was dropped for the cap

process == <<pc, inbox, todo, acting, changed, unsaved>>
disk == <<saved, savedConfig, relay>>
vars == <<faults, clock, starts, process, mem, config, disk, runs, forgot>>

Results == {"applied", "rejected", "attempted", "failed"}
Acks == Seq([cmd : Commands, result : Results])
Fence == [lastSeq : Nat, seen : Seq(Commands), acks : Acks]
Configs == [Keys -> Patches \cup {Provisioned, Missing}]

\* The state of an agent without (readable) files.
Fresh == [lastSeq |-> 0, seen |-> <<>>, acks |-> <<>>]
NoConfig == [k \in Keys |-> Missing]

TypeOK ==
  /\ faults \in FaultSets
  /\ clock \in 0..MaxClock
  /\ starts \in 0..MaxStarts
  /\ pc \in {"down", "idle", "draining", "acting"}
  /\ inbox \subseteq Commands /\ todo \subseteq inbox
  /\ acting \in Actions \cup {NoCommand}
  /\ changed \in BOOLEAN /\ unsaved \in BOOLEAN
  /\ mem \in Fence /\ saved \in Fence
  /\ config \in Configs /\ savedConfig \in Configs
  /\ relay \in Acks
  /\ Len(saved.seen) <= AckCap /\ Len(saved.acks) <= AckCap /\ Len(relay) <= AckCap
  /\ runs \in [Commands -> Nat]
  /\ forgot \in BOOLEAN

Init ==
  /\ faults \in FaultSets
  /\ clock = 0
  /\ starts = 0
  /\ pc = "down"
  /\ inbox = {} /\ todo = {}
  /\ acting = NoCommand
  /\ changed = FALSE /\ unsaved = FALSE
  /\ mem = Fresh /\ saved = Fresh
  /\ config = NoConfig
  /\ savedConfig = [k \in Keys |-> Provisioned]
  /\ relay = <<>>
  /\ runs = [c \in Commands |-> 0]
  /\ forgot = FALSE

-----------------------------------------------------------------------------
(* Acks, kept in the order in which commands were first acknowledged.      *)

IsAcked(acks, c) == \E n \in DOMAIN acks : acks[n].cmd = c
AckedAs(acks, c, result) == \E n \in DOMAIN acks : acks[n] = [cmd |-> c, result |-> result]

WithAck(acks, c, result) ==
  LET ack == [cmd |-> c, result |-> result]
  IN IF IsAcked(acks, c)
     THEN [n \in DOMAIN acks |-> IF acks[n].cmd = c THEN ack ELSE acks[n]]
     ELSE Append(acks, ack)

Newest(s) == IF Len(s) > AckCap THEN SubSeq(s, Len(s) - AckCap + 1, Len(s)) ELSE s

-----------------------------------------------------------------------------
(* The accept decisions.  The schema is the keys the configuration has.    *)

\* Mutant of Fresher: only ids are compared.
FresherById(c) ==
  /\ c \in Authentic
  /\ clock < Expiry[c]
  /\ \A n \in DOMAIN mem.seen : mem.seen[n] # c

Fresher(c) ==
  /\ c \in Authentic
  /\ clock < Expiry[c]
  /\ SeqOf[c] > mem.lastSeq
  /\ \A n \in DOMAIN mem.seen : mem.seen[n] # c
acceptConfigPatch(c) == c \in Patches /\ Fresher(c) /\ \A k \in KeysOf[c] : config[k] # Missing
acceptAction(c) == c \in Actions /\ Fresher(c) /\ c \in Allowed

Ack(c, result) == [mem EXCEPT !.acks = WithAck(@, c, result)]
Commit(c, result) ==
  [mem EXCEPT !.lastSeq = IF SeqOf[c] > @ THEN SeqOf[c] ELSE @,
              !.seen = Append(@, c),
              !.acks = WithAck(@, c, result)]

-----------------------------------------------------------------------------
(* Processes and files.                                                    *)

Tick ==
  /\ clock < MaxClock
  /\ clock' = clock + 1
  /\ UNCHANGED <<faults, forgot, starts, process, mem, config, disk, runs>>

\* start(): a file that does not parse leaves the constructor's value.
Start ==
  /\ pc = "down"
  /\ starts < MaxStarts
  /\ starts' = starts + 1
  /\ pc' = "idle"
  /\ mem' = saved
  /\ config' = savedConfig
  /\ UNCHANGED <<faults, forgot, clock, inbox, todo, acting, changed, unsaved, disk, runs>>

\* What a killed process leaves of itself.
Gone ==
  /\ pc' = "down"
  /\ inbox' = {} /\ todo' = {}
  /\ acting' = NoCommand
  /\ changed' = FALSE /\ unsaved' = FALSE
  /\ mem' = Fresh
  /\ config' = NoConfig

Crash ==
  /\ "crash" \in faults
  /\ pc # "down"
  /\ Gone
  /\ UNCHANGED <<faults, forgot, clock, starts, disk, runs>>

\* persistCommandState() with m in memory, whose acks it caps first: two files, the
\* second written only if the first was; every failure is swallowed.
Capped(m) == [m EXCEPT !.acks = Newest(@)]
OnFile(m) == [Capped(m) EXCEPT !.seen = Newest(@)]
Written(m) == saved' = OnFile(m) /\ relay' = Capped(m).acks /\ unsaved' = unsaved
PartlyWritten(m) ==
  /\ unsaved' = TRUE
  /\ \/ "unwritten" \in faults /\ saved' \in {saved, OnFile(m)} /\ relay' = relay
     \/ "torn" \in faults /\ saved' = Fresh /\ relay' = relay
     \/ "torn" \in faults /\ saved' = OnFile(m) /\ relay' = <<>>
persistCommandState(m) ==
  /\ Written(m) \/ PartlyWritten(m)
  /\ mem' = Capped(m)
  /\ forgot' = (forgot \/ Len(m.acks) > AckCap)
  /\ UNCHANGED savedConfig

\* ... and killed between or after the two writes, or in one of them.
KilledWhilePersisting(m) ==
  /\ "crash" \in faults
  /\ \/ saved' = OnFile(m) /\ relay' \in {relay, Capped(m).acks}
     \/ "torn" \in faults /\ saved' = Fresh /\ relay' = relay
     \/ "torn" \in faults /\ saved' = OnFile(m) /\ relay' = <<>>
  /\ forgot' = (forgot \/ Len(m.acks) > AckCap)
  /\ UNCHANGED savedConfig
  /\ Gone

-----------------------------------------------------------------------------
(* A drain.                                                                *)

\* The tick reads whatever the node-host delivered (without the owner's public key in
\* the file, nothing happens).
BeginDrain(S) ==
  /\ pc = "idle"
  /\ S # {}
  /\ pc' = "draining"
  /\ inbox' = S /\ todo' = S
  /\ changed' = FALSE /\ unsaved' = FALSE
  /\ UNCHANGED <<faults, forgot, clock, starts, acting, mem, config, disk, runs>>

\* Commands are dealt with in the order of their seq.
Turn(c) ==
  /\ pc = "draining"
  /\ c \in todo
  /\ \A d \in todo : SeqOf[c] <= SeqOf[d]

\* Mutant of Skip: the loop does not go on to the next command.
SkipForever(c) ==
  /\ Turn(c)
  /\ IsAcked(mem.acks, c)
  /\ UNCHANGED vars

Skip(c) ==
  /\ Turn(c)
  /\ IsAcked(mem.acks, c)
  /\ todo' = todo \ {c}
  /\ UNCHANGED <<faults, forgot, clock, starts, pc, inbox, acting, changed, unsaved, mem, config, disk, runs>>

\* Mutant of Reject: a rejection is not worth persisting.
RejectQuietly(c) ==
  /\ Turn(c)
  /\ ~IsAcked(mem.acks, c)
  /\ ~acceptConfigPatch(c) /\ ~acceptAction(c)
  /\ mem' = Ack(c, "rejected")
  /\ todo' = todo \ {c}
  /\ UNCHANGED <<faults, forgot, clock, starts, pc, inbox, acting, changed, unsaved, config, disk, runs>>

\* A rejection: not accepted, or of an unknown type.
Reject(c) ==
  /\ Turn(c)
  /\ ~IsAcked(mem.acks, c)
  /\ ~acceptConfigPatch(c) /\ ~acceptAction(c)
  /\ mem' = Ack(c, "rejected")
  /\ todo' = todo \ {c}
  /\ changed' = TRUE
  /\ UNCHANGED <<faults, forgot, clock, starts, pc, inbox, acting, unsaved, config, disk, runs>>

\* The whole configuration is rewritten, best-effort, before the fence moves.
Patched(c) == [k \in Keys |-> IF k \in KeysOf[c] THEN c ELSE config[k]]
\* Mutant of Apply: the patched configuration stays in memory.
ApplyInMemory(c) ==
  /\ Turn(c)
  /\ ~IsAcked(mem.acks, c)
  /\ acceptConfigPatch(c)
  /\ config' = Patched(c)
  /\ mem' = Commit(c, "applied")
  /\ todo' = todo \ {c}
  /\ changed' = TRUE
  /\ UNCHANGED <<faults, forgot, clock, starts, pc, inbox, acting, unsaved, disk, runs>>

Apply(c) ==
  /\ Turn(c)
  /\ ~IsAcked(mem.acks, c)
  /\ acceptConfigPatch(c)
  /\ config' = Patched(c)
  /\ \/ savedConfig' = Patched(c) /\ unsaved' = unsaved
     \/ "unwritten" \in faults /\ savedConfig' = savedConfig /\ unsaved' = TRUE
     \/ "torn" \in faults /\ savedConfig' = NoConfig /\ unsaved' = TRUE
  /\ mem' = Commit(c, "applied")
  /\ todo' = todo \ {c}
  /\ changed' = TRUE
  /\ UNCHANGED <<faults, forgot, clock, starts, pc, inbox, acting, saved, relay, runs>>

\* Mutant of Attempt: the action runs before anything is persisted.
AttemptUnpersisted(c) ==
  /\ Turn(c)
  /\ ~IsAcked(mem.acks, c)
  /\ acceptAction(c)
  /\ mem' = Commit(c, "attempted")
  /\ pc' = "acting"
  /\ acting' = c
  /\ runs' = [runs EXCEPT ![c] = @ + 1]
  /\ UNCHANGED <<faults, forgot, clock, starts, inbox, todo, changed, unsaved, config, disk>>

\* The fence and the ack are persisted, then onCommand is called.
Attempt(c) ==
  /\ Turn(c)
  /\ ~IsAcked(mem.acks, c)
  /\ acceptAction(c)
  /\ \/ /\ persistCommandState(Commit(c, "attempted"))
        /\ pc' = "acting"
        /\ acting' = c
        /\ runs' = [runs EXCEPT ![c] = @ + 1]
        /\ UNCHANGED <<inbox, todo, changed, config>>
     \/ /\ KilledWhilePersisting(Commit(c, "attempted"))
        /\ UNCHANGED runs
  /\ UNCHANGED <<faults, clock, starts>>

\* onCommand reports an outcome, or throws.
Finish ==
  /\ pc = "acting"
  /\ \E result \in {"applied", "failed"} : mem' = Ack(acting, result)
  /\ pc' = "draining"
  /\ todo' = todo \ {acting}
  /\ acting' = NoCommand
  /\ changed' = TRUE
  /\ UNCHANGED <<faults, forgot, clock, starts, inbox, unsaved, config, disk, runs>>

EndDrain ==
  /\ pc = "draining"
  /\ todo = {}
  /\ \/ /\ changed
        /\ persistCommandState(mem)
        /\ pc' = "idle"
        /\ UNCHANGED <<inbox, todo, acting, changed, config>>
     \/ changed /\ KilledWhilePersisting(mem)
     \/ /\ ~changed
        /\ pc' = "idle"
        /\ UNCHANGED <<inbox, todo, acting, changed, unsaved, mem, config, disk, forgot>>
  /\ UNCHANGED <<faults, clock, starts, runs>>

Handle(c) == Skip(c) \/ Reject(c) \/ Apply(c) \/ Attempt(c)
Step == (\E c \in Commands : Handle(c)) \/ Finish \/ EndDrain

Next ==
  \/ Tick
  \/ Start
  \/ Crash
  \/ \E S \in SUBSET Commands : BeginDrain(S)
  \/ Step

Spec == Init /\ [][Next]_vars

\* The process runs on, and what the strategy does in onCommand settles.
FairSpec == Spec /\ WF_vars(Step)

-----------------------------------------------------------------------------
(* Properties.                                                             *)

\* When writes are whole or do not happen at all because the process died, an action
\* is run at most once, however often the process dies and whatever it is delivered
\* again ("Called at most once per command", agent.ts 207-209).
ActionsAtMostOnce == faults \subseteq {"crash"} => \A c \in Commands : runs[c] <= 1

\* Whatever happens to the files, one life of the process runs an action at most once.
OncePerLife == \A c \in Commands : runs[c] <= starts

\* Under the same condition actions run in the order of their seq, across restarts.
ActionsInOrder ==
  [][faults \subseteq {"crash"} =>
       \A c, d \in Commands : runs'[c] > runs[c] /\ runs[d] > 0 => SeqOf[d] < SeqOf[c]]_vars

\* The age of a key's value: the seq of the patch that set it.
Age(value) == IF value \in Patches THEN SeqOf[value] ELSE 0

\* Under the same condition a patch the owner was told is applied is in the
\* configuration the next life starts from, unless a later one replaced it.
AppliedIsDurable ==
  faults \subseteq {"crash"} =>
    \A c \in Patches, k \in Keys :
      AckedAs(relay, c, "applied") /\ k \in KeysOf[c] => Age(savedConfig[k]) >= SeqOf[c]

\* No life of the process depends on a file that an earlier one failed to write.
Steady == faults \subseteq {"crash"} \/ "crash" \notin faults

\* The owner is never told that an action was applied that did not run, whatever
\* happens to the files; nor that an action was rejected that did, while no ack was
\* dropped for the cap and no process was both robbed of its fence by a write that
\* failed and restarted; and while nothing goes wrong, every command a drain read has
\* its ack on the relay surface when the drain ends (agent.ts 229-251, 287-331).
AcksAreTrue ==
  /\ \A c \in Actions : AckedAs(relay, c, "applied") => runs[c] > 0
  /\ Steady /\ ~forgot => \A c \in Actions : AckedAs(relay, c, "rejected") => runs[c] = 0
  /\ faults = {} /\ pc = "idle" /\ ~unsaved /\ ~forgot => \A c \in inbox : IsAcked(relay, c)

\* The inductive invariants.  An action under way is one of the commands; whatever
\* became of the files, a command above the fence has not been run in this life.
LifeInv ==
  /\ pc = "acting" => acting \in Commands
  /\ \A c \in Commands :
       /\ runs[c] <= starts
       /\ pc # "down" /\ mem.lastSeq < SeqOf[c] => runs[c] < starts

\* While writes are whole, the fence on file covers every action that was run, and
\* the one in memory is never behind it.
WholeInv ==
  faults \subseteq {"crash"} =>
    /\ pc # "down" => saved.lastSeq <= mem.lastSeq
    /\ \A c \in Commands : runs[c] \in {0, 1} /\ (runs[c] = 1 => SeqOf[c] <= saved.lastSeq)

\* Every drain ends, once onCommand settles, unless the process is killed.
DrainsEnd == pc \in {"draining", "acting"} ~> pc \in {"idle", "down"}
=============================================================================
