-------------------------- MODULE CommandInbox_proofs --------------------------
(***************************************************************************)
(* Theorems about CommandInbox, for any set of commands, any faults of the *)
(* files, any ack cap, and any number of ticks, drains and restarts.       *)
(***************************************************************************)
EXTENDS CommandInbox, SequenceTheorems, TLAPS

AckRecords == [cmd : Commands, result : Results]

-----------------------------------------------------------------------------
(* What the operators on fences return.                                    *)

\* An acknowledged list of acks is a list of acks.
LEMMA WithAckType ==
  ASSUME NEW acks \in Acks, NEW c \in Commands, NEW result \in Results
  PROVE  WithAck(acks, c, result) \in Acks
<1> DEFINE ack == [cmd |-> c, result |-> result]
<1>1. ack \in AckRecords
  BY DEF AckRecords
<1>2. CASE IsAcked(acks, c)
  <2> DEFINE new == [n \in DOMAIN acks |-> IF acks[n].cmd = c THEN ack ELSE acks[n]]
  <2>1. acks \in Seq(AckRecords)
    BY DEF Acks, AckRecords
  <2>2. DOMAIN acks = 1..Len(acks) /\ Len(acks) \in Nat
    BY <2>1
  <2>3. \A n \in 1..Len(acks) : acks[n] \in AckRecords
    BY <2>1, ElementOfSeq
  <2> HIDE DEF ack
  <2>4. new \in [1..Len(acks) -> AckRecords]
    BY <1>1, <2>2, <2>3
  <2>5. new \in Seq(AckRecords)
    BY <2>2, <2>4
  <2>6. QED
    BY <1>2, <2>5 DEF WithAck, Acks, AckRecords, ack
<1>3. CASE ~IsAcked(acks, c)
  BY <1>1, <1>3, AppendProperties DEF WithAck, Acks, AckRecords
<1>4. QED
  BY <1>2, <1>3

\* The newest elements of a sequence are at most AckCap of them.
LEMMA NewestType ==
  ASSUME NEW S, NEW s \in Seq(S)
  PROVE  Newest(s) \in Seq(S) /\ Len(Newest(s)) <= AckCap
<1>1. AckCap \in Nat \ {0} /\ Len(s) \in Nat
  BY InboxAssumption
<1>2. CASE Len(s) > AckCap
  <2>1. \A n \in (Len(s) - AckCap + 1) .. Len(s) : s[n] \in S
    BY <1>1, <1>2, ElementOfSeq
  <2>2. /\ SubSeq(s, Len(s) - AckCap + 1, Len(s)) \in Seq(S)
        /\ Len(SubSeq(s, Len(s) - AckCap + 1, Len(s))) = AckCap
    BY <1>1, <1>2, <2>1, SubSeqProperties
  <2>3. QED
    BY <1>1, <1>2, <2>2 DEF Newest
<1>3. CASE ~(Len(s) > AckCap)
  BY <1>1, <1>3 DEF Newest
<1>4. QED
  BY <1>2, <1>3

\* Acknowledging leaves the fence where it is; committing moves it to the command.
LEMMA AckFacts ==
  ASSUME mem \in Fence, NEW c \in Commands, NEW result \in Results
  PROVE  Ack(c, result) \in Fence /\ Ack(c, result).lastSeq = mem.lastSeq
  BY WithAckType DEF Ack, Fence

LEMMA CommitFacts ==
  ASSUME mem \in Fence, NEW c \in Commands, NEW result \in Results
  PROVE  /\ Commit(c, result) \in Fence
         /\ Commit(c, result).lastSeq = IF SeqOf[c] > mem.lastSeq THEN SeqOf[c] ELSE mem.lastSeq
<1>1. SeqOf[c] \in Nat
  BY InboxAssumption
<1>2. WithAck(mem.acks, c, result) \in Acks
  BY WithAckType DEF Fence
<1>3. Append(mem.seen, c) \in Seq(Commands)
  BY DEF Fence
<1>4. QED
  BY <1>1, <1>2, <1>3 DEF Commit, Fence

\* Persisting caps the lists and nothing else.
LEMMA CappedFacts ==
  ASSUME NEW m \in Fence
  PROVE  /\ Capped(m) \in Fence /\ OnFile(m) \in Fence
         /\ Capped(m).lastSeq = m.lastSeq /\ OnFile(m).lastSeq = m.lastSeq
         /\ Capped(m).acks \in Acks
         /\ Len(Capped(m).acks) <= AckCap
         /\ Len(OnFile(m).acks) <= AckCap /\ Len(OnFile(m).seen) <= AckCap
<1>1. Newest(m.acks) \in Acks /\ Len(Newest(m.acks)) <= AckCap
  BY NewestType DEF Fence, Acks
<1>2. Capped(m) \in Fence /\ Capped(m).lastSeq = m.lastSeq /\ Capped(m).acks = Newest(m.acks)
      /\ Capped(m).seen = m.seen
  BY <1>1 DEF Capped, Fence
<1>3. Newest(m.seen) \in Seq(Commands) /\ Len(Newest(m.seen)) <= AckCap
  BY NewestType DEF Fence
<1>4. /\ OnFile(m) \in Fence /\ OnFile(m).lastSeq = m.lastSeq
      /\ OnFile(m).acks = Newest(m.acks) /\ OnFile(m).seen = Newest(m.seen)
  BY <1>2, <1>3 DEF OnFile, Fence
<1>5. QED
  BY <1>1, <1>2, <1>3, <1>4

\* An agent without files is well typed.
LEMMA FreshFacts ==
  /\ Fresh \in Fence /\ Fresh.lastSeq = 0
  /\ Len(Fresh.seen) <= AckCap /\ Len(Fresh.acks) <= AckCap
  /\ <<>> \in Acks /\ Len(<<>>) <= AckCap
<1>1. AckCap \in Nat
  BY InboxAssumption
<1>2. <<>> \in Seq(Commands) /\ <<>> \in Acks /\ Len(<<>>) = 0
  BY DEF Acks
<1>3. Fresh \in Fence /\ Fresh.lastSeq = 0 /\ Fresh.seen = <<>> /\ Fresh.acks = <<>>
  BY <1>2 DEF Fresh, Fence
<1>4. QED
  BY <1>1, <1>2, <1>3

LEMMA ConfigFacts == NoConfig \in Configs /\ [k \in Keys |-> Provisioned] \in Configs
  BY DEF NoConfig, Configs

-----------------------------------------------------------------------------
(* What a step does to memory and to the files.                            *)

Disk ==
  /\ saved \in Fence /\ relay \in Acks
  /\ Len(saved.seen) <= AckCap /\ Len(saved.acks) <= AckCap /\ Len(relay) <= AckCap

\* However a write of the state ends, the files hold fences and acks; and when the
\* process can only be killed, the fence that was written.
LEMMA PersistFacts ==
  ASSUME TypeOK, NEW m \in Fence, persistCommandState(m)
  PROVE  /\ mem' \in Fence /\ mem'.lastSeq = m.lastSeq
         /\ Disk' /\ savedConfig' = savedConfig
         /\ unsaved' \in BOOLEAN /\ forgot' \in BOOLEAN
         /\ faults \subseteq {"crash"} => saved'.lastSeq = m.lastSeq
<1>1. mem' \in Fence /\ mem'.lastSeq = m.lastSeq /\ savedConfig' = savedConfig
  BY CappedFacts DEF persistCommandState
<1>2. forgot' \in BOOLEAN
  <2>1. forgot' = (forgot \/ Len(m.acks) > AckCap)
    BY DEF persistCommandState
  <2>2. QED
    BY <2>1
<1>3. CASE Written(m)
  <2>1. Disk' /\ saved'.lastSeq = m.lastSeq
    BY <1>3, CappedFacts DEF Written, Disk
  <2>2. unsaved' \in BOOLEAN
    BY <1>3 DEF Written, TypeOK
  <2>3. QED
    BY <1>1, <1>2, <2>1, <2>2
<1>4. CASE PartlyWritten(m)
  <2>1. Disk'
    BY <1>4, CappedFacts, FreshFacts DEF PartlyWritten, Disk, TypeOK
  <2>2. unsaved' \in BOOLEAN
    <3>1. unsaved' = TRUE
      BY <1>4 DEF PartlyWritten
    <3>2. QED
      BY <3>1
  <2>3. ~(faults \subseteq {"crash"})
    BY <1>4 DEF PartlyWritten
  <2>4. QED
    BY <1>1, <1>2, <2>1, <2>2, <2>3
<1>5. QED
  BY <1>3, <1>4 DEF persistCommandState

\* The same of a process that is killed while it writes.
LEMMA KilledFacts ==
  ASSUME TypeOK, NEW m \in Fence, KilledWhilePersisting(m)
  PROVE  /\ Gone
         /\ Disk' /\ savedConfig' = savedConfig
         /\ forgot' \in BOOLEAN
         /\ faults \subseteq {"crash"} => saved'.lastSeq = m.lastSeq
<1>1. Gone /\ savedConfig' = savedConfig
  BY DEF KilledWhilePersisting
<1>2. forgot' \in BOOLEAN
  <2>1. forgot' = (forgot \/ Len(m.acks) > AckCap)
    BY DEF KilledWhilePersisting
  <2>2. QED
    BY <2>1
<1>3. Disk'
  BY CappedFacts, FreshFacts DEF KilledWhilePersisting, Disk, TypeOK
<1>4. faults \subseteq {"crash"} => saved'.lastSeq = m.lastSeq
  BY CappedFacts DEF KilledWhilePersisting
<1>5. QED
  BY <1>1, <1>2, <1>3, <1>4

\* What is left of a killed process is well typed.
LEMMA GoneFacts ==
  ASSUME Gone
  PROVE  /\ pc' = "down" /\ inbox' = {} /\ todo' = {} /\ acting' = NoCommand
         /\ changed' \in BOOLEAN /\ unsaved' \in BOOLEAN
         /\ mem' \in Fence /\ config' \in Configs
<1>1. mem' \in Fence /\ config' \in Configs
  BY FreshFacts, ConfigFacts DEF Gone
<1>2. changed' = FALSE /\ unsaved' = FALSE
  BY DEF Gone
<1>3. QED
  BY <1>1, <1>2 DEF Gone

-----------------------------------------------------------------------------
IInv == TypeOK /\ LifeInv /\ WholeInv

LEMMA InitIInv == Init => IInv
<1> SUFFICES ASSUME Init PROVE IInv
  OBVIOUS
<1>1. TypeOK
  <2>1. changed \in BOOLEAN /\ unsaved \in BOOLEAN /\ forgot \in BOOLEAN
    BY DEF Init
  <2>2. QED
    BY <2>1, FreshFacts, ConfigFacts, InboxAssumption DEF Init, TypeOK
<1>2. LifeInv /\ WholeInv
  BY InboxAssumption DEF Init, LifeInv, WholeInv
<1>3. QED
  BY <1>1, <1>2 DEF IInv

\* A patched configuration is a configuration.
LEMMA PatchedType ==
  ASSUME TypeOK, NEW c \in Patches
  PROVE  Patched(c) \in Configs
  BY DEF Patched, Configs, TypeOK

LEMMA TypePreserved == IInv /\ [Next]_vars => TypeOK'
<1> SUFFICES ASSUME IInv, [Next]_vars PROVE TypeOK'
  OBVIOUS
<1> USE DEF IInv
<1>1. CASE Tick
  BY <1>1, InboxAssumption DEF Tick, TypeOK, process, disk
<1>2. CASE Start
  BY <1>2, InboxAssumption DEF Start, TypeOK, process, disk
<1>3. CASE Crash
  BY <1>3, GoneFacts DEF Crash, TypeOK, disk
<1>4. ASSUME NEW S \in SUBSET Commands, BeginDrain(S) PROVE TypeOK'
  <2>1. changed' = FALSE /\ unsaved' = FALSE
    BY <1>4 DEF BeginDrain
  <2>2. changed' \in BOOLEAN /\ unsaved' \in BOOLEAN
    BY <2>1
  <2>3. QED
    BY <1>4, <2>2 DEF BeginDrain, TypeOK, process, disk
<1>5. ASSUME NEW c \in Commands, Skip(c) PROVE TypeOK'
  BY <1>5 DEF Skip, TypeOK, process, disk
<1>6. ASSUME NEW c \in Commands, Reject(c) PROVE TypeOK'
  <2>1. mem' \in Fence
    BY <1>6, AckFacts DEF Reject, TypeOK, Results
  <2>2. changed' \in BOOLEAN
    <3>1. changed' = TRUE
      BY <1>6 DEF Reject
    <3>2. QED
      BY <3>1
  <2>3. QED
    BY <1>6, <2>1, <2>2 DEF Reject, TypeOK, process, disk
<1>7. ASSUME NEW c \in Commands, Apply(c) PROVE TypeOK'
  <2>1. mem' \in Fence
    BY <1>7, CommitFacts DEF Apply, TypeOK, Results
  <2>2. changed' \in BOOLEAN
    <3>1. changed' = TRUE
      BY <1>7 DEF Apply
    <3>2. QED
      BY <3>1
  <2>3. config' \in Configs /\ savedConfig' \in Configs
    <3>1. Patched(c) \in Configs
      BY <1>7, PatchedType DEF Apply, acceptConfigPatch
    <3>2. QED
      BY <1>7, <3>1, ConfigFacts DEF Apply, TypeOK
  <2>4. unsaved' \in BOOLEAN
    <3>1. unsaved' = unsaved \/ unsaved' = TRUE
      BY <1>7 DEF Apply
    <3>2. unsaved \in BOOLEAN
      BY DEF TypeOK
    <3>3. QED
      BY <3>1, <3>2
  <2>5. QED
    BY <1>7, <2>1, <2>2, <2>3, <2>4 DEF Apply, TypeOK, process, disk
<1>8. ASSUME NEW c \in Commands, Attempt(c) PROVE TypeOK'
  <2> DEFINE m == Commit(c, "attempted")
  <2>1. m \in Fence
    BY CommitFacts DEF TypeOK, Results
  <2>2. c \in Actions
    BY <1>8 DEF Attempt, acceptAction
  <2> HIDE DEF m
  <2>3. CASE /\ persistCommandState(m)
             /\ pc' = "acting"
             /\ acting' = c
             /\ runs' = [runs EXCEPT ![c] = @ + 1]
             /\ UNCHANGED <<inbox, todo, changed, config>>
    BY <1>8, <2>1, <2>2, <2>3, PersistFacts DEF Attempt, TypeOK, Disk
  <2>4. CASE KilledWhilePersisting(m) /\ UNCHANGED runs
    BY <1>8, <2>1, <2>4, KilledFacts, GoneFacts DEF Attempt, TypeOK, Disk
  <2>5. QED
    BY <1>8, <2>3, <2>4 DEF Attempt, m
<1>9. CASE Finish
  <2>1. acting \in Commands
    BY <1>9 DEF Finish, LifeInv
  <2>2. mem' \in Fence
    BY <1>9, <2>1, AckFacts DEF Finish, TypeOK, Results
  <2>3. changed' \in BOOLEAN
    <3>1. changed' = TRUE
      BY <1>9 DEF Finish
    <3>2. QED
      BY <3>1
  <2>4. QED
    BY <1>9, <2>2, <2>3 DEF Finish, TypeOK, process, disk
<1>10. CASE EndDrain
  <2>1. mem \in Fence
    BY DEF TypeOK
  <2>2. CASE /\ persistCommandState(mem)
             /\ pc' = "idle"
             /\ UNCHANGED <<inbox, todo, acting, changed, config>>
    BY <1>10, <2>1, <2>2, PersistFacts DEF EndDrain, TypeOK, Disk
  <2>3. CASE KilledWhilePersisting(mem)
    BY <1>10, <2>1, <2>3, KilledFacts, GoneFacts DEF EndDrain, TypeOK, Disk
  <2>4. CASE /\ pc' = "idle"
             /\ UNCHANGED <<inbox, todo, acting, changed, unsaved, mem, config, disk, forgot>>
    BY <1>10, <2>4 DEF EndDrain, TypeOK, disk
  <2>5. QED
    BY <1>10, <2>2, <2>3, <2>4 DEF EndDrain
<1>11. CASE UNCHANGED vars
  BY <1>11 DEF vars, TypeOK, process, disk
<1>12. QED
  BY <1>1, <1>2, <1>3, <1>4, <1>5, <1>6, <1>7, <1>8, <1>9, <1>10, <1>11
  DEF Next, Step, Handle

\* The fence a step leaves in memory: start-up aside it never falls, and an action
\* that is run is one that was above it and is not any more.
LEMMA LifePreserved == IInv /\ [Next]_vars => LifeInv'
<1> SUFFICES ASSUME IInv, [Next]_vars PROVE LifeInv'
  OBVIOUS
<1>0. /\ runs \in [Commands -> Nat] /\ starts \in Nat /\ mem \in Fence
      /\ mem.lastSeq \in Nat /\ SeqOf \in [Commands -> Nat]
  BY InboxAssumption DEF IInv, TypeOK, Fence
<1>1. CASE Tick
  BY <1>1 DEF Tick, IInv, LifeInv, process
<1>2. CASE Start
  BY <1>0, <1>2 DEF Start, IInv, LifeInv
<1>3. CASE Crash
  BY <1>3, GoneFacts DEF Crash, IInv, LifeInv
<1>4. ASSUME NEW S \in SUBSET Commands, BeginDrain(S) PROVE LifeInv'
  BY <1>4 DEF BeginDrain, IInv, LifeInv
<1>5. ASSUME NEW c \in Commands, Skip(c) PROVE LifeInv'
  BY <1>5 DEF Skip, IInv, LifeInv
<1>6. ASSUME NEW c \in Commands, Reject(c) PROVE LifeInv'
  <2>1. mem'.lastSeq = mem.lastSeq
    BY <1>0, <1>6, AckFacts DEF Reject, Results
  <2>2. QED
    BY <1>6, <2>1 DEF Reject, Turn, IInv, LifeInv
<1>7. ASSUME NEW c \in Commands, Apply(c) PROVE LifeInv'
  <2>1. mem'.lastSeq \in Nat /\ mem'.lastSeq >= mem.lastSeq
    BY <1>0, <1>7, CommitFacts DEF Apply, Results
  <2>2. QED
    BY <1>0, <1>7, <2>1 DEF Apply, Turn, IInv, LifeInv
<1>8. ASSUME NEW c \in Commands, Attempt(c) PROVE LifeInv'
  <2> DEFINE m == Commit(c, "attempted")
  <2>1. m \in Fence /\ m.lastSeq = SeqOf[c] /\ SeqOf[c] > mem.lastSeq
    BY <1>0, <1>8, CommitFacts DEF Attempt, acceptAction, Fresher, Results
  <2> HIDE DEF m
  <2>2. CASE /\ persistCommandState(m)
             /\ pc' = "acting"
             /\ acting' = c
             /\ runs' = [runs EXCEPT ![c] = @ + 1]
    <3>1. mem'.lastSeq = SeqOf[c] /\ starts' = starts
      BY <1>8, <2>1, <2>2, PersistFacts DEF Attempt, IInv
    <3>2. runs[c] < starts /\ pc # "down"
      BY <1>8, <2>1 DEF Attempt, Turn, IInv, LifeInv
    <3>3. QED
      BY <1>0, <2>1, <2>2, <3>1, <3>2 DEF IInv, LifeInv
  <2>3. CASE KilledWhilePersisting(m) /\ UNCHANGED runs
    BY <1>8, <2>1, <2>3, KilledFacts, GoneFacts DEF Attempt, IInv, LifeInv
  <2>4. QED
    BY <1>8, <2>2, <2>3 DEF Attempt, m
<1>9. CASE Finish
  <2>1. acting \in Commands
    BY <1>9 DEF Finish, IInv, LifeInv
  <2>2. mem'.lastSeq = mem.lastSeq
    BY <1>0, <1>9, <2>1, AckFacts DEF Finish, Results
  <2>3. QED
    BY <1>9, <2>2 DEF Finish, IInv, LifeInv
<1>10. CASE EndDrain
  <2>1. CASE persistCommandState(mem) /\ pc' = "idle"
    <3>1. mem'.lastSeq = mem.lastSeq
      BY <1>0, <2>1, PersistFacts DEF IInv
    <3>2. QED
      BY <1>10, <2>1, <3>1 DEF EndDrain, IInv, LifeInv
  <2>2. CASE KilledWhilePersisting(mem)
    BY <1>0, <1>10, <2>2, KilledFacts, GoneFacts DEF EndDrain, IInv, LifeInv
  <2>3. CASE pc' = "idle" /\ UNCHANGED mem
    BY <1>10, <2>3 DEF EndDrain, IInv, LifeInv
  <2>4. QED
    BY <1>10, <2>1, <2>2, <2>3 DEF EndDrain
<1>11. CASE UNCHANGED vars
  BY <1>11 DEF vars, IInv, LifeInv, process
<1>12. QED
  BY <1>1, <1>2, <1>3, <1>4, <1>5, <1>6, <1>7, <1>8, <1>9, <1>10, <1>11
  DEF Next, Step, Handle

\* While writes are whole, a file is only ever replaced by one with the fence in
\* memory, which is not behind it.
LEMMA WholePreserved == IInv /\ [Next]_vars => WholeInv'
<1> SUFFICES ASSUME IInv, [Next]_vars, (faults \subseteq {"crash"})' PROVE WholeInv'
  BY DEF WholeInv
<1>0. /\ runs \in [Commands -> Nat] /\ mem \in Fence /\ saved \in Fence
      /\ mem.lastSeq \in Nat /\ saved.lastSeq \in Nat /\ SeqOf \in [Commands -> Nat]
  BY InboxAssumption DEF IInv, TypeOK, Fence
<1>a. faults' = faults
  BY DEF Next, Step, Handle, Tick, Start, Crash, BeginDrain, Skip, Reject, Apply, Attempt,
         Finish, EndDrain, vars
<1>b. /\ pc # "down" => saved.lastSeq <= mem.lastSeq
      /\ \A c \in Commands : runs[c] \in {0, 1} /\ (runs[c] = 1 => SeqOf[c] <= saved.lastSeq)
  BY <1>a DEF IInv, WholeInv
<1>1. CASE Tick
  BY <1>1, <1>b DEF Tick, WholeInv, process, disk
<1>2. CASE Start
  BY <1>0, <1>2, <1>b DEF Start, WholeInv, disk
<1>3. CASE Crash
  BY <1>3, <1>b, GoneFacts DEF Crash, WholeInv, disk
<1>4. ASSUME NEW S \in SUBSET Commands, BeginDrain(S) PROVE WholeInv'
  BY <1>4, <1>b DEF BeginDrain, WholeInv, disk
<1>5. ASSUME NEW c \in Commands, Skip(c) PROVE WholeInv'
  BY <1>5, <1>b DEF Skip, WholeInv, disk
<1>6. ASSUME NEW c \in Commands, Reject(c) PROVE WholeInv'
  <2>1. mem'.lastSeq = mem.lastSeq
    BY <1>0, <1>6, AckFacts DEF Reject, Results
  <2>2. QED
    BY <1>6, <1>b, <2>1 DEF Reject, WholeInv, disk
<1>7. ASSUME NEW c \in Commands, Apply(c) PROVE WholeInv'
  <2>1. mem'.lastSeq \in Nat /\ mem'.lastSeq >= mem.lastSeq
    BY <1>0, <1>7, CommitFacts DEF Apply, Results
  <2>2. saved' = saved /\ runs' = runs /\ pc' = pc
    BY <1>7 DEF Apply
  <2>3. QED
    BY <1>0, <1>b, <2>1, <2>2 DEF WholeInv
<1>8. ASSUME NEW c \in Commands, Attempt(c) PROVE WholeInv'
  <2> DEFINE m == Commit(c, "attempted")
  <2>1. m \in Fence /\ m.lastSeq = SeqOf[c] /\ SeqOf[c] > mem.lastSeq /\ pc # "down"
    BY <1>0, <1>8, CommitFacts DEF Attempt, acceptAction, Fresher, Turn, Results
  <2> HIDE DEF m
  <2>2. SeqOf[c] > saved.lastSeq
    BY <1>0, <1>b, <2>1
  <2>3. runs[c] = 0
    BY <1>0, <1>b, <2>2
  <2>4. CASE persistCommandState(m) /\ runs' = [runs EXCEPT ![c] = @ + 1]
    <3>1. mem'.lastSeq = SeqOf[c] /\ saved'.lastSeq = SeqOf[c]
      BY <1>a, <2>1, <2>4, PersistFacts DEF IInv
    <3>2. QED
      BY <1>0, <1>b, <2>2, <2>3, <2>4, <3>1 DEF WholeInv
  <2>5. CASE KilledWhilePersisting(m) /\ UNCHANGED runs
    <3>1. saved'.lastSeq = SeqOf[c] /\ pc' = "down"
      BY <1>a, <2>1, <2>5, KilledFacts, GoneFacts DEF IInv
    <3>2. QED
      BY <1>0, <1>b, <2>2, <2>5, <3>1 DEF WholeInv
  <2>6. QED
    BY <1>8, <2>4, <2>5 DEF Attempt, m
<1>9. CASE Finish
  <2>1. acting \in Commands
    BY <1>9 DEF Finish, IInv, LifeInv
  <2>2. mem'.lastSeq = mem.lastSeq
    BY <1>0, <1>9, <2>1, AckFacts DEF Finish, Results
  <2>3. QED
    BY <1>9, <1>b, <2>2 DEF Finish, WholeInv, disk
<1>10. CASE EndDrain
  <2>0. pc # "down"
    BY <1>10 DEF EndDrain
  <2>1. CASE persistCommandState(mem)
    <3>1. mem'.lastSeq = mem.lastSeq /\ saved'.lastSeq = mem.lastSeq
      BY <1>0, <1>a, <2>1, PersistFacts DEF IInv
    <3>2. QED
      BY <1>0, <1>10, <1>b, <2>0, <3>1 DEF EndDrain, WholeInv
  <2>2. CASE KilledWhilePersisting(mem)
    <3>1. saved'.lastSeq = mem.lastSeq /\ pc' = "down"
      BY <1>0, <1>a, <2>2, KilledFacts, GoneFacts DEF IInv
    <3>2. QED
      BY <1>0, <1>10, <1>b, <2>0, <3>1 DEF EndDrain, WholeInv
  <2>3. CASE UNCHANGED mem /\ UNCHANGED disk
    BY <1>10, <1>b, <2>0, <2>3 DEF EndDrain, WholeInv, disk
  <2>4. QED
    BY <1>10, <2>1, <2>2, <2>3 DEF EndDrain
<1>11. CASE UNCHANGED vars
  BY <1>11, <1>b DEF vars, WholeInv, process, disk
<1>12. QED
  BY <1>1, <1>2, <1>3, <1>4, <1>5, <1>6, <1>7, <1>8, <1>9, <1>10, <1>11
  DEF Next, Step, Handle

-----------------------------------------------------------------------------
\* The inductive invariant holds in every reachable state.
THEOREM Inductive == Spec => []IInv
<1>1. IInv /\ [Next]_vars => IInv'
  BY TypePreserved, LifePreserved, WholePreserved DEF IInv
<1>2. QED
  BY <1>1, InitIInv, PTL DEF Spec

\* Memory and files keep their types: the loop, the fences, the capped lists of acks
\* (agent.ts 215-251).
THEOREM TypeCorrect == Spec => []TypeOK
<1>1. IInv => TypeOK
  BY DEF IInv
<1>2. QED
  BY <1>1, Inductive, PTL

\* Whatever becomes of the files, one life of the process runs an action at most once
\* (agent.ts 309-315).
THEOREM EachLifeRunsOnce == Spec => []OncePerLife
<1>1. IInv => OncePerLife
  BY DEF IInv, LifeInv, OncePerLife
<1>2. QED
  BY <1>1, Inductive, PTL

\* While writes are whole, an action is run at most once, however often the process is
\* killed and whatever it is delivered again (agent.ts 207-209).
THEOREM AtMostOnceWhole == Spec => []ActionsAtMostOnce
<1>1. ASSUME IInv, faults \subseteq {"crash"}, NEW c \in Commands PROVE runs[c] <= 1
  <2>1. runs[c] \in {0, 1}
    BY <1>1 DEF IInv, WholeInv
  <2>2. QED
    BY <2>1
<1>2. IInv => ActionsAtMostOnce
  BY <1>1 DEF ActionsAtMostOnce
<1>3. QED
  BY <1>2, Inductive, PTL

\* Under the same condition actions run in the order of their seq (agent.ts 264, 301).
THEOREM InOrder == Spec => ActionsInOrder
<1> DEFINE Ordered ==
      faults \subseteq {"crash"} =>
        \A c, d \in Commands : runs'[c] > runs[c] /\ runs[d] > 0 => SeqOf[d] < SeqOf[c]
<1>1. IInv /\ [Next]_vars => [Ordered]_vars
  <2> SUFFICES ASSUME IInv, [Next]_vars, faults \subseteq {"crash"},
                      NEW c \in Commands, NEW d \in Commands, runs'[c] > runs[c], runs[d] > 0
               PROVE  SeqOf[d] < SeqOf[c]
    OBVIOUS
  <2>1. /\ runs \in [Commands -> Nat] /\ mem \in Fence /\ saved \in Fence
        /\ mem.lastSeq \in Nat /\ saved.lastSeq \in Nat /\ SeqOf \in [Commands -> Nat]
    BY InboxAssumption DEF IInv, TypeOK, Fence
  <2>2. PICK e \in Commands : Attempt(e) /\ runs' = [runs EXCEPT ![e] = @ + 1]
    <3>1. runs' # runs
      BY <2>1
    <3>2. \E e \in Commands : Attempt(e)
      BY <3>1 DEF Next, Step, Handle, Tick, Start, Crash, BeginDrain, Skip, Reject, Apply,
                  Finish, EndDrain, vars
    <3>3. QED
      BY <3>1, <3>2 DEF Attempt
  <2>3. e = c
    BY <2>1, <2>2
  <2>4. SeqOf[c] > mem.lastSeq /\ pc # "down"
    BY <2>2, <2>3 DEF Attempt, acceptAction, Fresher, Turn
  <2>5. runs[d] = 1
    BY <2>1 DEF IInv, WholeInv
  <2>6. SeqOf[d] <= saved.lastSeq /\ saved.lastSeq <= mem.lastSeq
    BY <2>4, <2>5 DEF IInv, WholeInv
  <2>7. QED
    BY <2>1, <2>4, <2>6
<1>2. QED
  BY <1>1, Inductive, PTL DEF Spec, ActionsInOrder
-----------------------------------------------------------------------------
(* What acks say.                                                          *)

\* An acknowledgement says what it says of its command, and nothing new of another.
LEMMA WithAckSays ==
  ASSUME NEW acks \in Acks, NEW c \in Commands, NEW result \in Results,
         NEW d \in Commands, NEW other \in Results
  PROVE  /\ AckedAs(WithAck(acks, c, result), d, other) =>
              (d = c /\ other = result) \/ AckedAs(acks, d, other)
         /\ IsAcked(WithAck(acks, c, result), d) <=> d = c \/ IsAcked(acks, d)
<1> DEFINE ack == [cmd |-> c, result |-> result]
<1>0. /\ acks \in Seq(AckRecords) /\ ack \in AckRecords /\ Len(acks) \in Nat
      /\ DOMAIN acks = 1..Len(acks) /\ \A n \in 1..Len(acks) : acks[n] \in AckRecords
      /\ ack.cmd = c
  <2>1. acks \in Seq(AckRecords) /\ ack \in AckRecords /\ ack.cmd = c
    BY DEF Acks, AckRecords
  <2>2. Len(acks) \in Nat /\ DOMAIN acks = 1..Len(acks)
    BY <2>1
  <2> HIDE DEF ack
  <2>3. QED
    BY <2>1, <2>2, ElementOfSeq
<1> DEFINE that == [cmd |-> d, result |-> other]
<1>s. that = ack => d = c /\ other = result
  <2>1. that.cmd = d /\ that.result = other /\ ack.cmd = c /\ ack.result = result
    OBVIOUS
  <2> HIDE DEF that, ack
  <2>2. QED
    BY <2>1
<1>1. CASE IsAcked(acks, c)
  <2> DEFINE new == [n \in DOMAIN acks |-> IF acks[n].cmd = c THEN ack ELSE acks[n]]
  <2>1. WithAck(acks, c, result) = new
    BY <1>1 DEF WithAck
  <2>2. DOMAIN new = DOMAIN acks
    OBVIOUS
  <2>3. \A n \in DOMAIN acks : new[n] = IF acks[n].cmd = c THEN ack ELSE acks[n]
    OBVIOUS
  <2> HIDE DEF ack, new, that
  <2>4. AckedAs(new, d, other) => (d = c /\ other = result) \/ AckedAs(acks, d, other)
    <3> SUFFICES ASSUME NEW n \in DOMAIN acks, new[n] = that
                 PROVE  (d = c /\ other = result) \/ AckedAs(acks, d, other)
      BY <2>2 DEF AckedAs, that
    <3>1. CASE new[n] = ack
      BY <1>s, <3>1
    <3>2. CASE new[n] = acks[n]
      BY <3>2 DEF AckedAs, that
    <3>3. QED
      BY <2>3, <3>1, <3>2
  <2>5. IsAcked(new, d) <=> d = c \/ IsAcked(acks, d)
    BY <1>0, <1>1, <2>2, <2>3 DEF IsAcked
  <2>6. QED
    BY <2>1, <2>4, <2>5
<1>2. CASE ~IsAcked(acks, c)
  <2> DEFINE new == Append(acks, ack)
  <2>1. WithAck(acks, c, result) = new
    BY <1>2 DEF WithAck
  <2> HIDE DEF ack
  <2>2. /\ DOMAIN new = 1..(Len(acks) + 1)
        /\ \A n \in 1..Len(acks) : new[n] = acks[n]
        /\ new[Len(acks) + 1] = ack
    <3>1. new \in Seq(AckRecords) /\ Len(new) = Len(acks) + 1
      BY <1>0, AppendProperties
    <3>2. (\A n \in 1..Len(acks) : new[n] = acks[n]) /\ new[Len(acks) + 1] = ack
      BY <1>0, AppendProperties
    <3>3. QED
      BY <3>1, <3>2
  <2> HIDE DEF new, that
  <2>3. \A n : n \in DOMAIN new <=> n \in DOMAIN acks \/ n = Len(acks) + 1
    BY <1>0, <2>2
  <2>4. AckedAs(new, d, other) => (d = c /\ other = result) \/ AckedAs(acks, d, other)
    <3> SUFFICES ASSUME NEW n \in DOMAIN new, new[n] = that
                 PROVE  (d = c /\ other = result) \/ AckedAs(acks, d, other)
      BY DEF AckedAs, that
    <3>1. CASE n = Len(acks) + 1
      BY <1>s, <2>2, <3>1
    <3>2. CASE n \in DOMAIN acks
      BY <1>0, <2>2, <3>2 DEF AckedAs, that
    <3>3. QED
      BY <2>3, <3>1, <3>2
  <2>5. IsAcked(new, d) <=> d = c \/ IsAcked(acks, d)
    BY <1>0, <2>2, <2>3 DEF IsAcked
  <2>6. QED
    BY <2>1, <2>4, <2>5
<1>3. QED
  BY <1>1, <1>2

\* The cap drops acks and changes none; below the cap it drops none.
LEMMA NewestSays ==
  ASSUME NEW acks \in Acks
  PROVE  /\ \A d \in Commands, other \in Results :
              AckedAs(Newest(acks), d, other) => AckedAs(acks, d, other)
         /\ ~(Len(acks) > AckCap) => Newest(acks) = acks
<1>1. AckCap \in Nat \ {0} /\ Len(acks) \in Nat /\ DOMAIN acks = 1..Len(acks)
      /\ acks \in Seq(AckRecords)
  BY InboxAssumption DEF Acks, AckRecords
<1>2. CASE Len(acks) > AckCap
  <2> DEFINE new == SubSeq(acks, Len(acks) - AckCap + 1, Len(acks))
  <2>1. \A n \in (Len(acks) - AckCap + 1) .. Len(acks) : acks[n] \in AckRecords
    BY <1>1, <1>2, ElementOfSeq
  <2>2. /\ DOMAIN new = 1..AckCap
        /\ \A n \in 1..AckCap : new[n] = acks[Len(acks) - AckCap + n]
    <3>1. new \in Seq(AckRecords) /\ Len(new) = AckCap
      BY <1>1, <1>2, <2>1, SubSeqProperties
    <3>2. \A n \in 1..Len(new) : new[n] = acks[(Len(acks) - AckCap + 1) + n - 1]
      BY <1>1, <1>2, <2>1, SubSeqProperties
    <3>3. \A n \in 1..AckCap : (Len(acks) - AckCap + 1) + n - 1 = Len(acks) - AckCap + n
      BY <1>1
    <3>4. QED
      BY <3>1, <3>2, <3>3
  <2>3. Newest(acks) = new
    BY <1>2 DEF Newest
  <2>4. \A n \in 1..AckCap : Len(acks) - AckCap + n \in DOMAIN acks
    BY <1>1, <1>2
  <2> HIDE DEF new
  <2>5. QED
    BY <1>2, <2>2, <2>3, <2>4 DEF AckedAs
<1>3. CASE ~(Len(acks) > AckCap)
  BY <1>3 DEF Newest
<1>4. QED
  BY <1>2, <1>3

\* What memory says after an acknowledgement, and what persisting it leaves.
LEMMA AckSays ==
  ASSUME mem \in Fence, NEW c \in Commands, NEW result \in Results
  PROVE  /\ Ack(c, result).acks = WithAck(mem.acks, c, result)
         /\ Commit(c, result).acks = WithAck(mem.acks, c, result)
         /\ mem.acks \in Acks /\ WithAck(mem.acks, c, result) \in Acks
  BY WithAckType DEF Ack, Commit, Fence

LEMMA FreshSays ==
  /\ Fresh.acks = <<>>
  /\ \A d \in Commands, other \in Results : ~AckedAs(<<>>, d, other)
  /\ \A d \in Commands : ~IsAcked(<<>>, d)
  BY DEF Fresh, AckedAs, IsAcked

LEMMA CappedSays ==
  ASSUME NEW m \in Fence
  PROVE  Capped(m).acks = Newest(m.acks) /\ OnFile(m).acks = Newest(m.acks) /\ m.acks \in Acks
<1>1. Capped(m).acks = Newest(m.acks) /\ m.acks \in Acks
  BY DEF Capped, Fence
<1>2. OnFile(m).acks = Capped(m).acks
  BY DEF OnFile, Capped, Fence
<1>3. QED
  BY <1>1, <1>2

\* A file ends up as it was, as memory has it, or as nothing; while writes are whole,
\* as memory has it, or as it was when the process was killed before it came to that.
LEMMA PersistSays ==
  ASSUME NEW m \in Fence, persistCommandState(m)
  PROVE  /\ mem'.acks = Newest(m.acks)
         /\ saved'.acks \in {saved.acks, Newest(m.acks), <<>>}
         /\ relay' \in {relay, Newest(m.acks), <<>>}
         /\ faults \subseteq {"crash"} =>
              saved'.acks = Newest(m.acks) /\ relay' = Newest(m.acks)
         /\ ~forgot' => ~forgot /\ Newest(m.acks) = m.acks
<1>1. mem'.acks = Newest(m.acks)
  BY CappedSays DEF persistCommandState
<1>2. ~forgot' => ~forgot /\ Newest(m.acks) = m.acks
  <2>1. forgot' = (forgot \/ Len(m.acks) > AckCap) /\ m.acks \in Acks
    BY CappedSays DEF persistCommandState
  <2>2. ~forgot' => ~forgot /\ ~(Len(m.acks) > AckCap)
    BY <2>1
  <2>3. QED
    BY <2>1, <2>2, NewestSays
<1>3. CASE Written(m)
  BY <1>1, <1>2, <1>3, CappedSays DEF Written
<1>4. CASE PartlyWritten(m)
  <2>1. ~(faults \subseteq {"crash"})
    BY <1>4 DEF PartlyWritten
  <2>2. /\ saved'.acks \in {saved.acks, Newest(m.acks), <<>>}
        /\ relay' \in {relay, <<>>}
    BY <1>4, CappedSays, FreshSays DEF PartlyWritten
  <2>3. QED
    BY <1>1, <1>2, <2>1, <2>2
<1>5. QED
  BY <1>3, <1>4 DEF persistCommandState

LEMMA KilledSays ==
  ASSUME NEW m \in Fence, KilledWhilePersisting(m)
  PROVE  /\ "crash" \in faults /\ mem' = Fresh
         /\ saved'.acks \in {Newest(m.acks), <<>>}
         /\ relay' \in {relay, Newest(m.acks), <<>>}
         /\ faults \subseteq {"crash"} =>
              saved'.acks = Newest(m.acks) /\ relay' \in {relay, Newest(m.acks)}
         /\ ~forgot' => ~forgot /\ Newest(m.acks) = m.acks
<1>1. "crash" \in faults /\ mem' = Fresh
  BY DEF KilledWhilePersisting, Gone
<1>2. ~forgot' => ~forgot /\ Newest(m.acks) = m.acks
  <2>1. forgot' = (forgot \/ Len(m.acks) > AckCap) /\ m.acks \in Acks
    BY CappedSays DEF KilledWhilePersisting
  <2>2. ~forgot' => ~forgot /\ ~(Len(m.acks) > AckCap)
    BY <2>1
  <2>3. QED
    BY <2>1, <2>2, NewestSays
<1>3. QED
  BY <1>1, <1>2, CappedSays, FreshSays DEF KilledWhilePersisting

-----------------------------------------------------------------------------
(* A patch that is acknowledged as applied stays applied.                  *)

\* What acks tell the owner of patches that are applied is backed by the configuration
\* and by a fence: their keys have their value, or that of a later patch.
Backed(acks, seq, values) ==
  \A c \in Patches : AckedAs(acks, c, "applied") =>
    SeqOf[c] <= seq /\ \A k \in KeysOf[c] : Age(values[k]) >= SeqOf[c]

\* While writes are whole, the configuration in memory is the one on file, and backs
\* what memory and each file say, up to their fence.
DurInv ==
  faults \subseteq {"crash"} =>
    /\ pc # "down" => config = savedConfig /\ Backed(mem.acks, mem.lastSeq, savedConfig)
    /\ Backed(saved.acks, saved.lastSeq, savedConfig)
    /\ Backed(relay, saved.lastSeq, savedConfig)

LEMMA FaultsStay == [Next]_vars => faults' = faults
  BY DEF Next, Step, Handle, Tick, Start, Crash, BeginDrain, Skip, Reject, Apply, Attempt,
         Finish, EndDrain, vars

LEMMA SeqFacts ==
  /\ \A c \in Commands : SeqOf[c] \in Nat /\ SeqOf[c] > 0 /\ KeysOf[c] \subseteq Keys
  /\ Patches \subseteq Commands /\ Actions \subseteq Commands
  /\ Patches \cap Actions = {}
  /\ \A value : Age(value) \in Nat
<1>1. \A c \in Commands : SeqOf[c] \in Nat /\ SeqOf[c] > 0 /\ KeysOf[c] \subseteq Keys
  BY InboxAssumption
<1>2. Patches \subseteq Commands /\ Actions \subseteq Commands /\ Patches \cap Actions = {}
  BY DEF Patches, Actions
<1>3. \A value : Age(value) \in Nat
  BY <1>1, <1>2 DEF Age
<1>4. QED
  BY <1>1, <1>2, <1>3

\* Nothing is lost by an ack that says nothing of a patch being applied, by a later
\* fence, or by the cap.
LEMMA BackedStays ==
  ASSUME NEW acks \in Acks, NEW seq \in Nat, NEW values, Backed(acks, seq, values),
         NEW later \in Nat, seq <= later
  PROVE  /\ Backed(acks, later, values)
         /\ Backed(Newest(acks), later, values)
         /\ \A c \in Commands, result \in Results :
              c \notin Patches \/ result # "applied" =>
                Backed(WithAck(acks, c, result), later, values)
<1>1. "applied" \in Results
  BY DEF Results
<1>2. \A d \in Patches : AckedAs(acks, d, "applied") =>
        SeqOf[d] <= later /\ \A k \in KeysOf[d] : Age(values[k]) >= SeqOf[d]
  BY SeqFacts DEF Backed
<1>3. Backed(acks, later, values)
  BY <1>2 DEF Backed
<1>4. Backed(Newest(acks), later, values)
  BY <1>1, <1>2, NewestSays, SeqFacts DEF Backed
<1>5. ASSUME NEW c \in Commands, NEW result \in Results, c \notin Patches \/ result # "applied"
      PROVE  Backed(WithAck(acks, c, result), later, values)
  <2>1. \A d \in Patches :
          AckedAs(WithAck(acks, c, result), d, "applied") => AckedAs(acks, d, "applied")
    BY <1>1, <1>5, WithAckSays, SeqFacts
  <2>2. QED
    BY <1>2, <2>1 DEF Backed
<1>6. QED
  BY <1>3, <1>4, <1>5

\* A patch above the fence replaces the values of patches below it only.
LEMMA BackedMoves ==
  ASSUME NEW acks \in Acks, NEW seq \in Nat, NEW values \in Configs,
         Backed(acks, seq, values), NEW c \in Patches, seq < SeqOf[c]
  PROVE  LET new == [k \in Keys |-> IF k \in KeysOf[c] THEN c ELSE values[k]]
         IN  /\ Backed(acks, seq, new)
             /\ Backed(WithAck(acks, c, "applied"), SeqOf[c], new)
<1> DEFINE new == [k \in Keys |-> IF k \in KeysOf[c] THEN c ELSE values[k]]
<1>1. /\ \A k \in KeysOf[c] : new[k] = c
      /\ \A k \in Keys : k \notin KeysOf[c] => new[k] = values[k]
      /\ c \in Commands
  BY SeqFacts
<1> HIDE DEF new
<1>2. Age(c) = SeqOf[c]
  BY DEF Age
<1>3. ASSUME NEW d \in Patches, AckedAs(acks, d, "applied")
      PROVE  SeqOf[d] <= seq /\ \A k \in KeysOf[d] : Age(new[k]) >= SeqOf[d]
  <2>1. SeqOf[d] <= seq /\ \A k \in KeysOf[d] : Age(values[k]) >= SeqOf[d]
    BY <1>3 DEF Backed
  <2>2. ASSUME NEW k \in KeysOf[d] PROVE Age(new[k]) >= SeqOf[d]
    <3>1. k \in Keys
      BY SeqFacts
    <3>2. CASE k \in KeysOf[c]
      <4>1. Age(new[k]) = SeqOf[c]
        BY <1>1, <1>2, <3>2
      <4>2. QED
        BY <2>1, <4>1, SeqFacts
    <3>3. CASE k \notin KeysOf[c]
      BY <1>1, <2>1, <3>1, <3>3
    <3>4. QED
      BY <3>2, <3>3
  <2>3. QED
    BY <2>1, <2>2
<1>4. Backed(acks, seq, new)
  BY <1>3 DEF Backed
<1>5. ASSUME NEW d \in Patches, AckedAs(WithAck(acks, c, "applied"), d, "applied")
      PROVE  SeqOf[d] <= SeqOf[c] /\ \A k \in KeysOf[d] : Age(new[k]) >= SeqOf[d]
  <2>1. d = c \/ AckedAs(acks, d, "applied")
    BY <1>1, <1>5, WithAckSays, SeqFacts DEF Results
  <2>2. CASE d = c
    BY <1>1, <1>2, <2>2, SeqFacts
  <2>3. CASE AckedAs(acks, d, "applied")
    BY <1>3, <2>3, SeqFacts
  <2>4. QED
    BY <2>1, <2>2, <2>3
<1>6. Backed(WithAck(acks, c, "applied"), SeqOf[c], new)
  BY <1>5 DEF Backed
<1>7. QED
  BY <1>4, <1>6 DEF new

LEMMA InitDur == Init => DurInv
<1> SUFFICES ASSUME Init PROVE DurInv
  OBVIOUS
<1>1. pc = "down" /\ saved.acks = <<>> /\ relay = <<>>
  BY FreshSays DEF Init
<1>2. \A c \in Patches : ~AckedAs(<<>>, c, "applied")
  BY FreshSays, SeqFacts DEF Results
<1>3. QED
  BY <1>1, <1>2 DEF DurInv, Backed

LEMMA DurPreserved == IInv /\ DurInv /\ [Next]_vars => DurInv'
<1> SUFFICES ASSUME IInv, DurInv, [Next]_vars, faults' \subseteq {"crash"} PROVE DurInv'
  BY DEF DurInv
<1>0. /\ mem \in Fence /\ saved \in Fence /\ mem.lastSeq \in Nat /\ saved.lastSeq \in Nat
      /\ mem.acks \in Acks /\ saved.acks \in Acks /\ relay \in Acks
      /\ config \in Configs /\ savedConfig \in Configs
  BY DEF IInv, TypeOK, Fence
<1>a. faults' = faults /\ faults \subseteq {"crash"}
  BY FaultsStay
<1>b. /\ pc # "down" => /\ config = savedConfig /\ saved.lastSeq <= mem.lastSeq
                        /\ Backed(mem.acks, mem.lastSeq, savedConfig)
      /\ Backed(saved.acks, saved.lastSeq, savedConfig)
      /\ Backed(relay, saved.lastSeq, savedConfig)
  BY <1>a DEF IInv, WholeInv, DurInv
<1>c. "applied" \in Results /\ "rejected" \in Results /\ "attempted" \in Results
      /\ "failed" \in Results
  BY DEF Results
<1>1. CASE Tick
  BY <1>1, <1>b DEF Tick, DurInv, process, disk
<1>2. CASE Start
  BY <1>2, <1>b DEF Start, DurInv, disk
<1>3. CASE Crash
  BY <1>3, <1>b, GoneFacts DEF Crash, DurInv, disk
<1>4. ASSUME NEW S \in SUBSET Commands, BeginDrain(S) PROVE DurInv'
  BY <1>4, <1>b DEF BeginDrain, DurInv, disk
<1>5. ASSUME NEW c \in Commands, Skip(c) PROVE DurInv'
  BY <1>5, <1>b DEF Skip, DurInv, disk
<1>6. ASSUME NEW c \in Commands, Reject(c) PROVE DurInv'
  <2>1. /\ mem' = Ack(c, "rejected") /\ pc' = pc /\ pc # "down" /\ config' = config
        /\ saved' = saved /\ savedConfig' = savedConfig /\ relay' = relay
    BY <1>6 DEF Reject, Turn, disk
  <2>2. mem'.lastSeq = mem.lastSeq /\ mem'.acks = WithAck(mem.acks, c, "rejected")
    BY <1>0, <1>c, <2>1, AckFacts, AckSays
  <2>3. Backed(mem'.acks, mem'.lastSeq, savedConfig)
    BY <1>0, <1>b, <1>c, <2>1, <2>2, BackedStays
  <2>4. QED
    BY <1>b, <2>1, <2>3 DEF DurInv
<1>7. ASSUME NEW c \in Commands, Apply(c) PROVE DurInv'
  <2>1. /\ mem' = Commit(c, "applied") /\ pc' = pc /\ pc # "down" /\ config' = Patched(c)
        /\ saved' = saved /\ savedConfig' = Patched(c) /\ relay' = relay
        /\ c \in Patches /\ mem.lastSeq < SeqOf[c]
    BY <1>7, <1>a, SeqFacts, <1>0 DEF Apply, Turn, acceptConfigPatch, Fresher
  <2>2. mem'.lastSeq = SeqOf[c] /\ mem'.acks = WithAck(mem.acks, c, "applied")
    BY <1>0, <1>c, <2>1, CommitFacts, AckSays
  <2>3. Patched(c) = [k \in Keys |-> IF k \in KeysOf[c] THEN c ELSE savedConfig[k]]
    BY <1>b, <2>1 DEF Patched
  <2>4. saved.lastSeq < SeqOf[c]
    BY <1>0, <1>b, <2>1, SeqFacts
  <2>5. Backed(mem'.acks, mem'.lastSeq, Patched(c))
    BY <1>0, <1>b, <2>1, <2>2, <2>3, BackedMoves
  <2>6. Backed(saved.acks, saved.lastSeq, Patched(c)) /\ Backed(relay, saved.lastSeq, Patched(c))
    BY <1>0, <1>b, <2>1, <2>3, <2>4, BackedMoves
  <2>7. QED
    BY <2>1, <2>5, <2>6 DEF DurInv
<1>8. ASSUME NEW c \in Commands, Attempt(c) PROVE DurInv'
  <2> DEFINE m == Commit(c, "attempted")
  <2>1. /\ m \in Fence /\ m.lastSeq = SeqOf[c] /\ SeqOf[c] > mem.lastSeq /\ pc # "down"
        /\ m.acks = WithAck(mem.acks, c, "attempted") /\ m.acks \in Acks /\ m.lastSeq \in Nat
    BY <1>0, <1>c, <1>8, CommitFacts, AckSays, SeqFacts
    DEF Attempt, acceptAction, Fresher, Turn
  <2> HIDE DEF m
  <2>2. Backed(m.acks, m.lastSeq, savedConfig)
    BY <1>0, <1>b, <1>c, <2>1, BackedStays
  <2>3. Backed(Newest(m.acks), m.lastSeq, savedConfig) /\ Backed(relay, m.lastSeq, savedConfig)
    BY <1>0, <1>b, <2>1, <2>2, BackedStays
  <2>4. CASE persistCommandState(m) /\ UNCHANGED config
    <3>1. /\ mem'.lastSeq = m.lastSeq /\ saved'.lastSeq = m.lastSeq /\ savedConfig' = savedConfig
          /\ mem'.acks = Newest(m.acks) /\ saved'.acks = Newest(m.acks) /\ relay' = Newest(m.acks)
      BY <1>a, <2>1, <2>4, PersistFacts, PersistSays DEF IInv
    <3>2. QED
      BY <1>b, <2>1, <2>3, <2>4, <3>1 DEF DurInv
  <2>5. CASE KilledWhilePersisting(m)
    <3>1. /\ saved'.lastSeq = m.lastSeq /\ savedConfig' = savedConfig /\ pc' = "down"
          /\ saved'.acks = Newest(m.acks) /\ relay' \in {relay, Newest(m.acks)}
      BY <1>a, <2>1, <2>5, KilledFacts, GoneFacts, KilledSays DEF IInv
    <3>2. QED
      BY <2>3, <3>1 DEF DurInv
  <2>6. QED
    BY <1>8, <2>4, <2>5 DEF Attempt, m
<1>9. CASE Finish
  <2>1. acting \in Commands /\ acting \notin Patches
    BY <1>9, InboxAssumption, SeqFacts DEF Finish, IInv, LifeInv, TypeOK
  <2>2. /\ pc # "down" /\ config' = config
        /\ saved' = saved /\ savedConfig' = savedConfig /\ relay' = relay
    BY <1>9 DEF Finish, disk
  <2>3. PICK result \in {"applied", "failed"} : mem' = Ack(acting, result)
    BY <1>9 DEF Finish
  <2>4. mem'.lastSeq = mem.lastSeq /\ mem'.acks = WithAck(mem.acks, acting, result)
    BY <1>0, <1>c, <2>1, <2>3, AckFacts, AckSays
  <2>5. Backed(mem'.acks, mem'.lastSeq, savedConfig)
    BY <1>0, <1>b, <1>c, <2>1, <2>2, <2>4, BackedStays
  <2>6. QED
    BY <1>b, <2>2, <2>5 DEF DurInv
<1>10. CASE EndDrain
  <2>0. pc # "down" /\ Backed(Newest(mem.acks), mem.lastSeq, savedConfig)
        /\ Backed(relay, mem.lastSeq, savedConfig)
    <3>1. pc # "down"
      BY <1>10 DEF EndDrain
    <3>2. QED
      BY <1>0, <1>b, <3>1, BackedStays
  <2>1. CASE persistCommandState(mem) /\ UNCHANGED config
    <3>1. /\ mem'.lastSeq = mem.lastSeq /\ saved'.lastSeq = mem.lastSeq
          /\ savedConfig' = savedConfig /\ mem'.acks = Newest(mem.acks)
          /\ saved'.acks = Newest(mem.acks) /\ relay' = Newest(mem.acks)
      BY <1>0, <1>a, <2>1, PersistFacts, PersistSays DEF IInv
    <3>2. QED
      BY <1>b, <2>0, <2>1, <3>1 DEF DurInv
  <2>2. CASE KilledWhilePersisting(mem)
    <3>1. /\ saved'.lastSeq = mem.lastSeq /\ savedConfig' = savedConfig /\ pc' = "down"
          /\ saved'.acks = Newest(mem.acks) /\ relay' \in {relay, Newest(mem.acks)}
      BY <1>0, <1>a, <2>2, KilledFacts, GoneFacts, KilledSays DEF IInv
    <3>2. QED
      BY <2>0, <3>1 DEF DurInv
  <2>3. CASE UNCHANGED <<mem, config, disk>>
    BY <1>b, <2>0, <2>3 DEF DurInv, disk
  <2>4. QED
    BY <1>10, <2>1, <2>2, <2>3 DEF EndDrain
<1>11. CASE UNCHANGED vars
  BY <1>11, <1>b DEF vars, DurInv, process, disk
<1>12. QED
  BY <1>1, <1>2, <1>3, <1>4, <1>5, <1>6, <1>7, <1>8, <1>9, <1>10, <1>11
  DEF Next, Step, Handle

\* While writes are whole, a patch the owner was told is applied is in the configuration
\* the next life starts from, or a later one is (agent.ts 287-302).
THEOREM Durable == Spec => []AppliedIsDurable
<1>1. IInv /\ DurInv => AppliedIsDurable
  BY DEF DurInv, Backed, AppliedIsDurable
<1>2. QED
  BY <1>1, Inductive, InitDur, DurPreserved, PTL DEF Spec

-----------------------------------------------------------------------------
(* What the owner is told of actions is true.                              *)

\* What acks say of the actions that were run so often, and what they do not leave out.
Ran(acks, count) == \A c \in Actions : AckedAs(acks, c, "applied") => count[c] > 0
DidNotRun(acks, count) == \A c \in Actions : AckedAs(acks, c, "rejected") => count[c] = 0
Complete(acks, count) == \A c \in Actions : count[c] > 0 => IsAcked(acks, c)
Behind(acks, others) == \A c \in Commands : IsAcked(acks, c) => IsAcked(others, c)

\* Whatever happens to the files, "applied" means that the action ran.
RanInv ==
  /\ pc = "acting" => runs[acting] > 0
  /\ Ran(mem.acks, runs) /\ Ran(saved.acks, runs) /\ Ran(relay, runs)

\* "rejected" means that the action did not run, and never will: memory knows the actions
\* that ran and the commands the files know, and so do the files that a later life of the
\* process may start from.
TruthInv ==
  Steady /\ ~forgot =>
    /\ DidNotRun(saved.acks, runs) /\ DidNotRun(relay, runs)
    /\ pc # "down" =>
         /\ DidNotRun(mem.acks, runs) /\ Complete(mem.acks, runs)
         /\ Behind(saved.acks, mem.acks) /\ Behind(relay, mem.acks)
    /\ faults \subseteq {"crash"} => Complete(saved.acks, runs) /\ Behind(relay, saved.acks)
    /\ "crash" \notin faults /\ pc = "down" =>
         saved = Fresh /\ relay = <<>> /\ \A c \in Commands : runs[c] = 0

\* While nothing goes wrong, a command the drain is done with has its ack in memory, and
\* what memory knows is on the relay surface once there is nothing to persist.
ReportInv ==
  faults = {} /\ ~forgot =>
    /\ pc = "down" => inbox = {}
    /\ pc # "down" => \A c \in inbox \ todo : IsAcked(mem.acks, c)
    /\ pc = "idle" => todo = {}
    /\ pc # "down" /\ (pc = "idle" \/ ~changed) => Behind(mem.acks, relay)

TellInv == RanInv /\ TruthInv /\ ReportInv

LEMMA ResultFacts ==
  "applied" \in Results /\ "rejected" \in Results /\ "attempted" \in Results /\ "failed" \in Results
  BY DEF Results

\* An ack of a command is an ack that says something of it.
LEMMA AckedIsAcked ==
  ASSUME NEW acks, NEW c \in Commands, NEW result \in Results, AckedAs(acks, c, result)
  PROVE  IsAcked(acks, c)
<1>1. PICK n \in DOMAIN acks : acks[n] = [cmd |-> c, result |-> result]
  BY DEF AckedAs
<1>2. acks[n].cmd = c
  BY <1>1
<1>3. QED
  BY <1>2 DEF IsAcked

\* Runs are only added, and forgetting is for good.
LEMMA RunsGrow ==
  ASSUME IInv, [Next]_vars
  PROVE  /\ runs \in [Commands -> Nat] /\ runs' \in [Commands -> Nat]
         /\ \A c \in Commands : runs'[c] >= runs[c]
<1>1. runs \in [Commands -> Nat]
  BY DEF IInv, TypeOK
<1>2. runs' = runs \/ \E c \in Commands : runs' = [runs EXCEPT ![c] = @ + 1]
  BY DEF Next, Step, Handle, Tick, Start, Crash, BeginDrain, Skip, Reject, Apply, Attempt,
         Finish, EndDrain, vars
<1>3. QED
  BY <1>1, <1>2

LEMMA ForgotStays ==
  ASSUME IInv, [Next]_vars, ~forgot'
  PROVE  ~forgot
<1>1. CASE forgot' = forgot
  BY <1>1
<1>2. ASSUME NEW m, forgot' = (forgot \/ Len(m.acks) > AckCap) PROVE ~forgot
  BY <1>2
<1>3. forgot' = forgot \/ \E m \in Fence : forgot' = (forgot \/ Len(m.acks) > AckCap)
  <2>1. ASSUME NEW c \in Commands, Attempt(c)
        PROVE  \E m \in Fence : forgot' = (forgot \/ Len(m.acks) > AckCap)
    <3>1. Commit(c, "attempted") \in Fence
      BY CommitFacts, ResultFacts DEF IInv, TypeOK
    <3> DEFINE m == Commit(c, "attempted")
    <3> HIDE DEF m
    <3>2. persistCommandState(m) \/ KilledWhilePersisting(m)
      BY <2>1 DEF Attempt, m
    <3>3. forgot' = (forgot \/ Len(m.acks) > AckCap)
      BY <3>2 DEF persistCommandState, KilledWhilePersisting
    <3>4. QED
      BY <3>1, <3>3 DEF m
  <2>2. CASE EndDrain
    <3>1. mem \in Fence
      BY DEF IInv, TypeOK
    <3>2. persistCommandState(mem) \/ KilledWhilePersisting(mem) \/ forgot' = forgot
      BY <2>2 DEF EndDrain
    <3>3. forgot' = (forgot \/ Len(mem.acks) > AckCap) \/ forgot' = forgot
      BY <3>2 DEF persistCommandState, KilledWhilePersisting
    <3>4. QED
      BY <3>1, <3>3
  <2>3. QED
    BY <2>1, <2>2 DEF Next, Step, Handle, Tick, Start, Crash, BeginDrain, Skip, Reject, Apply,
                      Finish, vars
<1>4. QED
  BY <1>1, <1>2, <1>3

-----------------------------------------------------------------------------
(* "applied" means that the action ran.                                    *)

LEMMA RanStays ==
  ASSUME NEW acks \in Acks, NEW count \in [Commands -> Nat], Ran(acks, count),
         NEW more \in [Commands -> Nat], \A c \in Commands : more[c] >= count[c]
  PROVE  /\ Ran(acks, more) /\ Ran(Newest(acks), more) /\ Ran(<<>>, more)
         /\ \A c \in Commands, result \in Results :
              result # "applied" \/ c \notin Actions \/ more[c] > 0 =>
                Ran(WithAck(acks, c, result), more) /\ Ran(Newest(WithAck(acks, c, result)), more)
<1>1. \A d \in Actions : AckedAs(acks, d, "applied") => more[d] > 0
  <2>1. ASSUME NEW d \in Actions, count[d] > 0 PROVE more[d] > 0
    <3>1. d \in Commands /\ more[d] \in Nat /\ count[d] \in Nat
      BY SeqFacts
    <3>2. QED
      BY <2>1, <3>1
  <2>2. QED
    BY <2>1 DEF Ran
<1>2. Ran(acks, more) /\ Ran(Newest(acks), more) /\ Ran(<<>>, more)
  BY <1>1, ResultFacts, NewestSays, FreshSays, SeqFacts DEF Ran
<1>3. ASSUME NEW c \in Commands, NEW result \in Results,
             result # "applied" \/ c \notin Actions \/ more[c] > 0
      PROVE  Ran(WithAck(acks, c, result), more) /\ Ran(Newest(WithAck(acks, c, result)), more)
  <2>1. WithAck(acks, c, result) \in Acks
    BY WithAckType
  <2>2. \A d \in Actions : AckedAs(WithAck(acks, c, result), d, "applied") =>
          (d = c /\ result = "applied") \/ AckedAs(acks, d, "applied")
    BY WithAckSays, ResultFacts, SeqFacts
  <2>3. \A d \in Actions : AckedAs(WithAck(acks, c, result), d, "applied") => more[d] > 0
    BY <1>1, <1>3, <2>2
  <2>4. QED
    BY <2>1, <2>3, ResultFacts, NewestSays, SeqFacts DEF Ran
<1>4. QED
  BY <1>2, <1>3

LEMMA RanPreserved == IInv /\ RanInv /\ [Next]_vars => RanInv'
<1> SUFFICES ASSUME IInv, RanInv, [Next]_vars PROVE RanInv'
  OBVIOUS
<1>0. /\ mem \in Fence /\ saved \in Fence
      /\ mem.acks \in Acks /\ saved.acks \in Acks /\ relay \in Acks
      /\ runs \in [Commands -> Nat] /\ runs' \in [Commands -> Nat]
      /\ \A c \in Commands : runs'[c] >= runs[c]
  BY RunsGrow DEF IInv, TypeOK, Fence
<1>b. /\ pc = "acting" => runs[acting] > 0
      /\ Ran(mem.acks, runs) /\ Ran(saved.acks, runs) /\ Ran(relay, runs)
  BY DEF RanInv
<1>c. /\ Ran(mem.acks, runs') /\ Ran(saved.acks, runs') /\ Ran(relay, runs') /\ Ran(<<>>, runs')
      /\ Ran(Newest(mem.acks), runs')
  BY <1>0, <1>b, RanStays
<1>1. CASE Tick
  BY <1>1, <1>b DEF Tick, RanInv, process, disk
<1>2. CASE Start
  BY <1>2, <1>b DEF Start, RanInv, disk
<1>3. CASE Crash
  <2>1. pc' = "down" /\ mem'.acks = <<>> /\ saved' = saved /\ relay' = relay
    BY <1>3, FreshSays DEF Crash, Gone, disk
  <2>2. QED
    BY <1>c, <2>1 DEF RanInv
<1>4. ASSUME NEW S \in SUBSET Commands, BeginDrain(S) PROVE RanInv'
  BY <1>4, <1>b DEF BeginDrain, RanInv, disk
<1>5. ASSUME NEW c \in Commands, Skip(c) PROVE RanInv'
  BY <1>5, <1>b DEF Skip, RanInv, disk
<1>6. ASSUME NEW c \in Commands, Reject(c) PROVE RanInv'
  <2>1. /\ mem'.acks = WithAck(mem.acks, c, "rejected") /\ pc' # "acting"
        /\ saved' = saved /\ relay' = relay
    BY <1>0, <1>6, ResultFacts, AckSays DEF Reject, Turn, disk
  <2>2. QED
    BY <1>0, <1>b, <1>c, <2>1, RanStays, ResultFacts DEF RanInv
<1>7. ASSUME NEW c \in Commands, Apply(c) PROVE RanInv'
  <2>1. /\ mem'.acks = WithAck(mem.acks, c, "applied") /\ pc' # "acting"
        /\ saved' = saved /\ relay' = relay /\ c \notin Actions
    BY <1>0, <1>7, ResultFacts, AckSays, SeqFacts DEF Apply, Turn, acceptConfigPatch
  <2>2. QED
    BY <1>0, <1>b, <1>c, <2>1, RanStays, ResultFacts DEF RanInv
<1>8. ASSUME NEW c \in Commands, Attempt(c) PROVE RanInv'
  <2> DEFINE m == Commit(c, "attempted")
  <2>1. m \in Fence /\ m.acks = WithAck(mem.acks, c, "attempted")
    BY <1>0, ResultFacts, CommitFacts, AckSays
  <2> HIDE DEF m
  <2>2. Ran(m.acks, runs') /\ Ran(Newest(m.acks), runs')
    BY <1>0, <1>b, <2>1, RanStays, ResultFacts
  <2>3. CASE /\ persistCommandState(m)
             /\ acting' = c
             /\ runs' = [runs EXCEPT ![c] = @ + 1]
    <3>1. /\ mem'.acks = Newest(m.acks) /\ saved'.acks \in {saved.acks, Newest(m.acks), <<>>}
          /\ relay' \in {relay, Newest(m.acks), <<>>}
      BY <2>1, <2>3, PersistSays
    <3>2. runs'[acting'] > 0
      BY <1>0, <2>3
    <3>3. QED
      BY <1>c, <2>2, <3>1, <3>2 DEF RanInv
  <2>4. CASE KilledWhilePersisting(m)
    <3>1. /\ mem'.acks = <<>> /\ saved'.acks \in {Newest(m.acks), <<>>}
          /\ relay' \in {relay, Newest(m.acks), <<>>} /\ pc' = "down"
      BY <2>1, <2>4, KilledSays, FreshSays DEF KilledWhilePersisting, Gone
    <3>2. QED
      BY <1>c, <2>2, <3>1 DEF RanInv
  <2>5. QED
    BY <1>8, <2>3, <2>4 DEF Attempt, m
<1>9. CASE Finish
  <2>1. acting \in Commands /\ runs' = runs /\ runs[acting] > 0
    BY <1>9, <1>b DEF Finish, IInv, LifeInv
  <2>2. PICK result \in {"applied", "failed"} : mem' = Ack(acting, result)
    BY <1>9 DEF Finish
  <2>3. /\ mem'.acks = WithAck(mem.acks, acting, result) /\ pc' # "acting" /\ result \in Results
        /\ saved' = saved /\ relay' = relay
    BY <1>0, <1>9, <2>1, <2>2, ResultFacts, AckSays DEF Finish, disk
  <2>4. QED
    BY <1>0, <1>b, <1>c, <2>1, <2>3, RanStays DEF RanInv
<1>10. CASE EndDrain
  <2>1. CASE persistCommandState(mem) /\ pc' = "idle"
    <3>1. /\ mem'.acks = Newest(mem.acks)
          /\ saved'.acks \in {saved.acks, Newest(mem.acks), <<>>}
          /\ relay' \in {relay, Newest(mem.acks), <<>>}
      BY <1>0, <2>1, PersistSays
    <3>2. QED
      BY <1>c, <2>1, <3>1 DEF RanInv
  <2>2. CASE KilledWhilePersisting(mem)
    <3>1. /\ mem'.acks = <<>> /\ saved'.acks \in {Newest(mem.acks), <<>>}
          /\ relay' \in {relay, Newest(mem.acks), <<>>} /\ pc' = "down"
      BY <1>0, <2>2, KilledSays, FreshSays DEF KilledWhilePersisting, Gone
    <3>2. QED
      BY <1>c, <3>1 DEF RanInv
  <2>3. CASE pc' = "idle" /\ UNCHANGED <<mem, disk>>
    BY <1>c, <2>3 DEF RanInv, disk
  <2>4. QED
    BY <1>10, <2>1, <2>2, <2>3 DEF EndDrain
<1>11. CASE UNCHANGED vars
  BY <1>11, <1>b DEF vars, RanInv, process, disk
<1>12. QED
  BY <1>1, <1>2, <1>3, <1>4, <1>5, <1>6, <1>7, <1>8, <1>9, <1>10, <1>11
  DEF Next, Step, Handle

-----------------------------------------------------------------------------
(* "rejected" means that the action did not run.                           *)

\* What memory holds before it is persisted, with the runs there will be then.
Known(acks, count) ==
  /\ DidNotRun(acks, count) /\ Complete(acks, count)
  /\ DidNotRun(saved.acks, count) /\ DidNotRun(relay, count)
  /\ Behind(saved.acks, acks) /\ Behind(relay, acks)

LEMMA NothingTold ==
  ASSUME NEW acks, NEW count
  PROVE  DidNotRun(<<>>, count) /\ Behind(<<>>, acks) /\ Behind(acks, acks)
  BY FreshSays, ResultFacts, SeqFacts DEF DidNotRun, Behind

\* Acknowledging a command that has no ack yet, and did not run if it is rejected.
LEMMA KnownMore ==
  ASSUME NEW acks \in Acks, NEW count \in [Commands -> Nat], Known(acks, count),
         NEW c \in Commands, NEW result \in Results,
         result = "rejected" => ~IsAcked(acks, c)
  PROVE  Known(WithAck(acks, c, result), count)
<1> DEFINE new == WithAck(acks, c, result)
<1>1. /\ \A d \in Actions : AckedAs(new, d, "rejected") =>
           (d = c /\ result = "rejected") \/ AckedAs(acks, d, "rejected")
      /\ \A d \in Commands : IsAcked(acks, d) => IsAcked(new, d)
  BY WithAckSays, ResultFacts, SeqFacts
<1> HIDE DEF new
<1>2. DidNotRun(new, count)
  <2> SUFFICES ASSUME NEW d \in Actions, AckedAs(new, d, "rejected") PROVE count[d] = 0
    BY DEF DidNotRun
  <2>1. CASE AckedAs(acks, d, "rejected")
    BY <2>1 DEF Known, DidNotRun
  <2>2. CASE d = c /\ result = "rejected"
    <3>1. ~(count[d] > 0)
      BY <2>2 DEF Known, Complete
    <3>2. QED
      BY <3>1, SeqFacts
  <2>3. QED
    BY <1>1, <2>1, <2>2
<1>3. Complete(new, count) /\ Behind(saved.acks, new) /\ Behind(relay, new)
  BY <1>1, SeqFacts DEF Known, Complete, Behind
<1>4. QED
  BY <1>2, <1>3 DEF Known, new

\* An action that runs for the first time once it is acknowledged as attempted.
LEMMA KnownRuns ==
  ASSUME NEW acks \in Acks, NEW count \in [Commands -> Nat], Known(acks, count),
         NEW c \in Commands, ~IsAcked(acks, c)
  PROVE  Known(WithAck(acks, c, "attempted"), [count EXCEPT ![c] = @ + 1])
<1> DEFINE new == WithAck(acks, c, "attempted")
           more == [count EXCEPT ![c] = @ + 1]
<1>1. /\ \A d \in Actions : AckedAs(new, d, "rejected") => AckedAs(acks, d, "rejected")
      /\ \A d \in Commands : IsAcked(new, d) <=> d = c \/ IsAcked(acks, d)
  BY WithAckSays, ResultFacts, SeqFacts
<1>2. \A d \in Commands : d # c => more[d] = count[d]
  OBVIOUS
<1> HIDE DEF new, more
<1>3. \A d \in Actions : /\ AckedAs(acks, d, "rejected") => d # c
                         /\ AckedAs(saved.acks, d, "rejected") => d # c
                         /\ AckedAs(relay, d, "rejected") => d # c
  <2>1. \A d \in Commands : IsAcked(acks, d) \/ IsAcked(saved.acks, d) \/ IsAcked(relay, d) => d # c
    BY DEF Known, Behind
  <2>2. QED
    BY <2>1, AckedIsAcked, ResultFacts, SeqFacts
<1>4. DidNotRun(new, more) /\ DidNotRun(saved.acks, more) /\ DidNotRun(relay, more)
  BY <1>1, <1>2, <1>3, SeqFacts DEF Known, DidNotRun
<1>5. Complete(new, more)
  BY <1>1, <1>2, SeqFacts DEF Known, Complete
<1>6. Behind(saved.acks, new) /\ Behind(relay, new)
  BY <1>1 DEF Known, Behind
<1>7. QED
  BY <1>4, <1>5, <1>6 DEF Known, new, more

\* Persisting what memory holds, to the end or killed on the way.
LEMMA TruthPersisted ==
  ASSUME NEW m \in Fence, persistCommandState(m), pc' # "down", faults' = faults,
         ~forgot' => Known(m.acks, runs')
  PROVE  TruthInv'
<1> SUFFICES ASSUME Steady, ~forgot' PROVE TruthInv'
  BY DEF TruthInv, Steady
<1>1. /\ mem'.acks = m.acks /\ saved'.acks \in {saved.acks, m.acks, <<>>}
      /\ relay' \in {relay, m.acks, <<>>}
      /\ faults \subseteq {"crash"} => saved'.acks = m.acks /\ relay' = m.acks
  BY PersistSays
<1>2. Known(m.acks, runs')
  OBVIOUS
<1>3. /\ DidNotRun(m.acks, runs') /\ Complete(m.acks, runs')
      /\ DidNotRun(saved.acks, runs') /\ DidNotRun(relay, runs') /\ DidNotRun(<<>>, runs')
      /\ Behind(saved.acks, m.acks) /\ Behind(relay, m.acks) /\ Behind(<<>>, m.acks)
      /\ Behind(m.acks, m.acks)
  BY <1>2, NothingTold DEF Known
<1>4. /\ DidNotRun(saved'.acks, runs') /\ DidNotRun(relay', runs')
      /\ DidNotRun(mem'.acks, runs') /\ Complete(mem'.acks, runs')
      /\ Behind(saved'.acks, mem'.acks) /\ Behind(relay', mem'.acks)
  BY <1>1, <1>3
<1>5. faults \subseteq {"crash"} => Complete(saved'.acks, runs') /\ Behind(relay', saved'.acks)
  BY <1>1, <1>3
<1>6. QED
  BY <1>4, <1>5 DEF TruthInv

LEMMA TruthKilled ==
  ASSUME NEW m \in Fence, KilledWhilePersisting(m), faults' = faults,
         ~forgot' => Known(m.acks, runs')
  PROVE  TruthInv'
<1> SUFFICES ASSUME Steady, ~forgot' PROVE TruthInv'
  BY DEF TruthInv, Steady
<1>1. /\ "crash" \in faults /\ saved'.acks \in {m.acks, <<>>}
      /\ relay' \in {relay, m.acks, <<>>}
      /\ faults \subseteq {"crash"} => saved'.acks = m.acks /\ relay' \in {relay, m.acks}
  BY KilledSays
<1>2. pc' = "down"
  BY DEF KilledWhilePersisting, Gone
<1>3. faults \subseteq {"crash"}
  BY <1>1 DEF Steady
<1>4. Known(m.acks, runs')
  OBVIOUS
<1>5. /\ DidNotRun(m.acks, runs') /\ Complete(m.acks, runs') /\ DidNotRun(relay, runs')
      /\ Behind(relay, m.acks) /\ Behind(m.acks, m.acks)
  BY <1>4, NothingTold DEF Known
<1>6. /\ DidNotRun(saved'.acks, runs') /\ DidNotRun(relay', runs')
      /\ Complete(saved'.acks, runs') /\ Behind(relay', saved'.acks)
  BY <1>1, <1>3, <1>5
<1>7. QED
  BY <1>1, <1>2, <1>6 DEF TruthInv

LEMMA InitTruth == Init => TruthInv
<1> SUFFICES ASSUME Init PROVE TruthInv
  OBVIOUS
<1>1. pc = "down" /\ saved = Fresh /\ saved.acks = <<>> /\ relay = <<>>
      /\ \A c \in Commands : runs[c] = 0
  BY FreshSays DEF Init
<1>2. Complete(<<>>, runs)
  BY <1>1, SeqFacts DEF Complete
<1>3. QED
  BY <1>1, <1>2, NothingTold DEF TruthInv

LEMMA TruthPreserved == IInv /\ TruthInv /\ [Next]_vars => TruthInv'
<1> SUFFICES ASSUME IInv, TruthInv, [Next]_vars PROVE TruthInv'
  OBVIOUS
<1>0. /\ mem \in Fence /\ saved \in Fence /\ runs \in [Commands -> Nat]
      /\ mem.acks \in Acks /\ saved.acks \in Acks /\ relay \in Acks
      /\ faults' = faults /\ (~forgot' => ~forgot)
  BY FaultsStay, ForgotStays DEF IInv, TypeOK, Fence
<1>b. ASSUME Steady', ~forgot'
      PROVE  /\ DidNotRun(saved.acks, runs) /\ DidNotRun(relay, runs)
             /\ pc # "down" => Known(mem.acks, runs)
             /\ faults \subseteq {"crash"} => Complete(saved.acks, runs) /\ Behind(relay, saved.acks)
             /\ "crash" \notin faults /\ pc = "down" =>
                  saved = Fresh /\ relay = <<>> /\ \A c \in Commands : runs[c] = 0
  <2>1. Steady /\ ~forgot
    BY <1>0, <1>b DEF Steady
  <2>2. QED
    BY <2>1 DEF TruthInv, Known
<1>s. ASSUME pc # "down", pc' # "down", mem' = mem, UNCHANGED <<saved, relay, runs>>
      PROVE  TruthInv'
  BY <1>0, <1>b, <1>s DEF TruthInv, Known
<1>1. CASE Tick
  BY <1>0, <1>1, <1>b DEF Tick, TruthInv, Known, process, disk
<1>2. CASE Start
  <2> SUFFICES ASSUME Steady', ~forgot' PROVE TruthInv'
    BY DEF TruthInv
  <2>1. /\ pc = "down" /\ pc' # "down" /\ mem' = saved /\ saved' = saved /\ relay' = relay
        /\ runs' = runs
    BY <1>2 DEF Start, disk
  <2>2. Complete(saved.acks, runs) /\ Behind(relay, saved.acks)
    <3>1. CASE faults \subseteq {"crash"}
      BY <1>b, <3>1
    <3>2. CASE "crash" \notin faults
      <4>1. relay = <<>> /\ \A c \in Commands : runs[c] = 0
        BY <1>b, <2>1, <3>2
      <4>2. QED
        BY <4>1, NothingTold, SeqFacts DEF Complete
    <3>3. QED
      BY <1>0, <3>1, <3>2 DEF Steady
  <2>3. Behind(saved.acks, saved.acks)
    BY NothingTold
  <2>4. QED
    BY <1>0, <1>b, <2>1, <2>2, <2>3 DEF TruthInv
<1>3. CASE Crash
  <2> SUFFICES ASSUME Steady', ~forgot' PROVE TruthInv'
    BY DEF TruthInv
  <2>1. "crash" \in faults /\ pc' = "down" /\ saved' = saved /\ relay' = relay /\ runs' = runs
    BY <1>3 DEF Crash, Gone, disk
  <2>2. QED
    BY <1>0, <1>b, <2>1 DEF TruthInv
<1>4. ASSUME NEW S \in SUBSET Commands, BeginDrain(S) PROVE TruthInv'
  BY <1>4, <1>s DEF BeginDrain, disk
<1>5. ASSUME NEW c \in Commands, Skip(c) PROVE TruthInv'
  BY <1>5, <1>s DEF Skip, Turn, disk
<1>a. ASSUME NEW c \in Commands, NEW result \in Results, pc # "down", pc' # "down",
             result = "rejected" => ~IsAcked(mem.acks, c),
             mem'.acks = WithAck(mem.acks, c, result), UNCHANGED <<saved, relay, runs>>
      PROVE  TruthInv'
  <2> SUFFICES ASSUME Steady', ~forgot' PROVE TruthInv'
    BY DEF TruthInv
  <2>1. Known(mem.acks, runs)
    BY <1>a, <1>b
  <2>2. Known(mem'.acks, runs)
    BY <1>0, <1>a, <2>1, KnownMore
  <2>3. QED
    BY <1>0, <1>a, <1>b, <2>2 DEF TruthInv, Known
<1>6. ASSUME NEW c \in Commands, Reject(c) PROVE TruthInv'
  <2>1. /\ mem'.acks = WithAck(mem.acks, c, "rejected") /\ ~IsAcked(mem.acks, c)
        /\ pc # "down" /\ pc' # "down" /\ UNCHANGED <<saved, relay, runs>>
    BY <1>0, <1>6, ResultFacts, AckSays DEF Reject, Turn, disk
  <2>2. QED
    BY <1>a, <2>1, ResultFacts
<1>7. ASSUME NEW c \in Commands, Apply(c) PROVE TruthInv'
  <2>1. /\ mem'.acks = WithAck(mem.acks, c, "applied")
        /\ pc # "down" /\ pc' # "down" /\ UNCHANGED <<saved, relay, runs>>
    BY <1>0, <1>7, ResultFacts, AckSays DEF Apply, Turn
  <2>2. QED
    BY <1>a, <2>1, ResultFacts
<1>8. ASSUME NEW c \in Commands, Attempt(c) PROVE TruthInv'
  <2> SUFFICES ASSUME Steady', ~forgot' PROVE TruthInv'
    BY DEF TruthInv
  <2> DEFINE m == Commit(c, "attempted")
  <2>1. /\ m \in Fence /\ m.acks = WithAck(mem.acks, c, "attempted")
        /\ ~IsAcked(mem.acks, c) /\ pc # "down"
    BY <1>0, <1>8, ResultFacts, CommitFacts, AckSays DEF Attempt, Turn
  <2> HIDE DEF m
  <2>2. Known(mem.acks, runs)
    BY <1>b, <2>1
  <2>3. CASE /\ persistCommandState(m)
             /\ pc' = "acting"
             /\ runs' = [runs EXCEPT ![c] = @ + 1]
    <3>1. Known(m.acks, runs')
      BY <1>0, <2>1, <2>2, <2>3, KnownRuns
    <3>2. QED
      BY <1>0, <2>1, <2>3, <3>1, TruthPersisted
  <2>4. CASE KilledWhilePersisting(m) /\ UNCHANGED runs
    <3>1. Known(m.acks, runs')
      BY <1>0, <2>1, <2>2, <2>4, KnownMore, ResultFacts
    <3>2. QED
      BY <1>0, <2>1, <2>4, <3>1, TruthKilled
  <2>5. QED
    BY <1>8, <2>3, <2>4 DEF Attempt, m
<1>9. CASE Finish
  <2>1. acting \in Commands
    BY <1>9 DEF Finish, IInv, LifeInv
  <2>2. PICK result \in {"applied", "failed"} : mem' = Ack(acting, result)
    BY <1>9 DEF Finish
  <2>3. /\ mem'.acks = WithAck(mem.acks, acting, result) /\ result \in Results
        /\ result # "rejected" /\ pc # "down" /\ pc' # "down" /\ UNCHANGED <<saved, relay, runs>>
    BY <1>0, <1>9, <2>1, <2>2, ResultFacts, AckSays DEF Finish, disk
  <2>4. QED
    BY <1>a, <2>1, <2>3
<1>10. CASE EndDrain
  <2>1. ~forgot' /\ Steady' => Known(mem.acks, runs')
    BY <1>10, <1>b DEF EndDrain
  <2> SUFFICES ASSUME Steady', ~forgot' PROVE TruthInv'
    BY DEF TruthInv
  <2>2. CASE persistCommandState(mem) /\ pc' = "idle"
    BY <1>0, <2>1, <2>2, TruthPersisted
  <2>3. CASE KilledWhilePersisting(mem)
    BY <1>0, <2>1, <2>3, TruthKilled
  <2>4. CASE pc' = "idle" /\ UNCHANGED <<mem, disk>>
    BY <1>10, <1>s, <2>4 DEF EndDrain, disk
  <2>5. QED
    BY <1>10, <2>2, <2>3, <2>4 DEF EndDrain
<1>11. CASE UNCHANGED vars
  BY <1>0, <1>11, <1>b DEF vars, TruthInv, Known, process, disk
<1>12. QED
  BY <1>1, <1>2, <1>3, <1>4, <1>5, <1>6, <1>7, <1>8, <1>9, <1>10, <1>11
  DEF Next, Step, Handle

-----------------------------------------------------------------------------
(* While nothing goes wrong, every command of a drain gets its ack.        *)

LEMMA InitRest == Init => RanInv /\ ReportInv
<1> SUFFICES ASSUME Init PROVE RanInv /\ ReportInv
  OBVIOUS
<1>1. pc = "down" /\ inbox = {} /\ mem.acks = <<>> /\ saved.acks = <<>> /\ relay = <<>>
  BY FreshSays DEF Init
<1>2. Ran(<<>>, runs)
  BY FreshSays, ResultFacts, SeqFacts DEF Ran
<1>3. QED
  BY <1>1, <1>2 DEF RanInv, ReportInv

LEMMA ReportPreserved == IInv /\ TruthInv /\ ReportInv /\ [Next]_vars => ReportInv'
<1> SUFFICES ASSUME IInv, TruthInv, ReportInv, [Next]_vars, faults' = {}, ~forgot'
             PROVE  ReportInv'
  BY DEF ReportInv
<1>0. /\ mem \in Fence /\ mem.acks \in Acks /\ todo \subseteq inbox /\ inbox \subseteq Commands
      /\ faults = {} /\ ~forgot /\ Steady /\ faults \subseteq {"crash"} /\ "crash" \notin faults
  BY FaultsStay, ForgotStays DEF IInv, TypeOK, Fence, Steady
<1>b. /\ pc = "down" => inbox = {} /\ saved = Fresh
      /\ pc # "down" => \A c \in inbox \ todo : IsAcked(mem.acks, c)
      /\ pc = "idle" => todo = {}
      /\ pc # "down" /\ (pc = "idle" \/ ~changed) => Behind(mem.acks, relay)
  BY <1>0 DEF ReportInv, TruthInv
<1>m. ASSUME NEW c \in Commands, NEW result \in Results, NEW d \in Commands
      PROVE  IsAcked(WithAck(mem.acks, c, result), d) <=> d = c \/ IsAcked(mem.acks, d)
  BY <1>0, WithAckSays
<1>1. CASE Tick
  BY <1>1, <1>b DEF Tick, ReportInv, process, disk
<1>2. CASE Start
  <2>1. /\ pc' = "idle" /\ inbox' = {} /\ todo' = {} /\ mem'.acks = <<>>
    BY <1>0, <1>2, <1>b, FreshSays DEF Start
  <2>2. QED
    BY <2>1, NothingTold DEF ReportInv
<1>3. CASE Crash
  BY <1>0, <1>3 DEF Crash
<1>4. ASSUME NEW S \in SUBSET Commands, BeginDrain(S) PROVE ReportInv'
  <2>1. /\ pc = "idle" /\ pc' = "draining" /\ inbox' \ todo' = {} /\ mem' = mem /\ relay' = relay
    BY <1>4 DEF BeginDrain, disk
  <2>2. QED
    BY <1>b, <2>1 DEF ReportInv
<1>5. ASSUME NEW c \in Commands, Skip(c) PROVE ReportInv'
  <2>1. /\ pc = "draining" /\ pc' = "draining" /\ inbox' = inbox /\ todo' = todo \ {c}
        /\ changed' = changed /\ mem' = mem /\ relay' = relay /\ IsAcked(mem.acks, c)
    BY <1>5 DEF Skip, Turn, disk
  <2>2. QED
    BY <1>b, <2>1 DEF ReportInv
<1>a. ASSUME NEW c \in Commands, NEW result \in Results, pc \in {"draining", "acting"},
             pc' = "draining", inbox' = inbox, todo' = todo \ {c}, changed' = TRUE,
             mem'.acks = WithAck(mem.acks, c, result)
      PROVE  ReportInv'
  <2>1. \A d \in inbox' \ todo' : IsAcked(mem'.acks, d)
    BY <1>0, <1>a, <1>b, <1>m
  <2>2. QED
    BY <1>a, <2>1 DEF ReportInv
<1>6. ASSUME NEW c \in Commands, Reject(c) PROVE ReportInv'
  <2>1. /\ pc = "draining" /\ pc' = "draining" /\ inbox' = inbox /\ todo' = todo \ {c}
        /\ changed' = TRUE /\ mem'.acks = WithAck(mem.acks, c, "rejected")
    BY <1>0, <1>6, ResultFacts, AckSays DEF Reject, Turn
  <2>2. QED
    BY <1>a, <2>1, ResultFacts
<1>7. ASSUME NEW c \in Commands, Apply(c) PROVE ReportInv'
  <2>1. /\ pc = "draining" /\ pc' = "draining" /\ inbox' = inbox /\ todo' = todo \ {c}
        /\ changed' = TRUE /\ mem'.acks = WithAck(mem.acks, c, "applied")
    BY <1>0, <1>7, ResultFacts, AckSays DEF Apply, Turn
  <2>2. QED
    BY <1>a, <2>1, ResultFacts
<1>8. ASSUME NEW c \in Commands, Attempt(c) PROVE ReportInv'
  <2> DEFINE m == Commit(c, "attempted")
  <2>1. m \in Fence /\ m.acks = WithAck(mem.acks, c, "attempted") /\ pc = "draining"
    BY <1>0, <1>8, ResultFacts, CommitFacts, AckSays DEF Attempt, Turn
  <2> HIDE DEF m
  <2>2. CASE persistCommandState(m) /\ pc' = "acting" /\ UNCHANGED <<inbox, todo>>
    <3>1. mem'.acks = m.acks /\ relay' = m.acks
      BY <1>0, <2>1, <2>2, PersistSays
    <3>2. \A d \in inbox' \ todo' : IsAcked(mem'.acks, d)
      BY <1>0, <1>b, <1>m, <2>1, <2>2, <3>1, ResultFacts
    <3>3. Behind(mem'.acks, relay')
      BY <3>1, NothingTold
    <3>4. QED
      BY <2>2, <3>2, <3>3 DEF ReportInv
  <2>3. ~KilledWhilePersisting(m)
    BY <1>0 DEF KilledWhilePersisting
  <2>4. QED
    BY <1>8, <2>2, <2>3 DEF Attempt, m
<1>9. CASE Finish
  <2>1. acting \in Commands
    BY <1>9 DEF Finish, IInv, LifeInv
  <2>2. PICK result \in {"applied", "failed"} : mem' = Ack(acting, result)
    BY <1>9 DEF Finish
  <2>3. /\ mem'.acks = WithAck(mem.acks, acting, result) /\ result \in Results
        /\ pc = "acting" /\ pc' = "draining" /\ inbox' = inbox /\ todo' = todo \ {acting}
        /\ changed' = TRUE
    BY <1>0, <1>9, <2>1, <2>2, ResultFacts, AckSays DEF Finish
  <2>4. QED
    BY <1>a, <2>1, <2>3
<1>10. CASE EndDrain
  <2>0. pc = "draining" /\ todo = {}
    BY <1>10 DEF EndDrain
  <2>1. CASE persistCommandState(mem) /\ pc' = "idle" /\ UNCHANGED <<inbox, todo>>
    <3>1. mem'.acks = mem.acks /\ relay' = mem.acks
      BY <1>0, <2>1, PersistSays
    <3>2. QED
      BY <1>b, <2>0, <2>1, <3>1, NothingTold DEF ReportInv
  <2>2. ~KilledWhilePersisting(mem)
    BY <1>0 DEF KilledWhilePersisting
  <2>3. CASE ~changed /\ pc' = "idle" /\ UNCHANGED <<inbox, todo, mem, disk>>
    BY <1>b, <2>0, <2>3 DEF ReportInv, disk
  <2>4. QED
    BY <1>10, <2>1, <2>2, <2>3 DEF EndDrain
<1>11. CASE UNCHANGED vars
  BY <1>11, <1>b DEF vars, ReportInv, process, disk
<1>12. QED
  BY <1>1, <1>2, <1>3, <1>4, <1>5, <1>6, <1>7, <1>8, <1>9, <1>10, <1>11
  DEF Next, Step, Handle

\* The owner is never told that an action was applied that did not run; nor, while no ack
\* was dropped for the cap and no life depends on a file an earlier one failed to write,
\* that one was rejected that did; and while nothing goes wrong, every command of a drain
\* has its ack on the relay surface when the drain ends (agent.ts 229-251, 287-331).
THEOREM TrueAcks == Spec => []AcksAreTrue
<1>1. Init => TellInv
  BY InitRest, InitTruth DEF TellInv
<1>2. IInv /\ TellInv /\ [Next]_vars => TellInv'
  BY RanPreserved, TruthPreserved, ReportPreserved DEF TellInv
<1>3. IInv /\ TellInv => AcksAreTrue
  <2> SUFFICES ASSUME IInv, TellInv PROVE AcksAreTrue
    OBVIOUS
  <2>1. \A c \in Actions : AckedAs(relay, c, "applied") => runs[c] > 0
    BY DEF TellInv, RanInv, Ran
  <2>2. Steady /\ ~forgot => \A c \in Actions : AckedAs(relay, c, "rejected") => runs[c] = 0
    BY DEF TellInv, TruthInv, DidNotRun
  <2>3. faults = {} /\ pc = "idle" /\ ~forgot => \A c \in inbox : IsAcked(relay, c)
    <3>1. inbox \subseteq Commands
      BY DEF IInv, TypeOK
    <3>2. QED
      BY <3>1 DEF TellInv, ReportInv, Behind
  <2>4. QED
    BY <2>1, <2>2, <2>3 DEF AcksAreTrue
<1>4. QED
  BY <1>1, <1>2, <1>3, Inductive, PTL DEF Spec

=============================================================================
