----------------------------- MODULE VaultOwner -----------------------------
(***************************************************************************)
(* One non-custodial vault as everyone who drives it sees it: the owner's  *)
(* terminals (apps/cli/src/services/vault.js), a script of the owner's     *)
(* over the SDK's VaultClient, and the host that trades with the delegate  *)
(* key (packages/vault/src/executor.ts, jupiter.ts, vault-client.ts).      *)
(*                                                                         *)
(* A transaction that was sent lands later, or never; whoever sent it may  *)
(* have stopped waiting by then.  The delegate's secret key exists only in *)
(* meta.json, which the terminal writes in place after the chain has the   *)
(* public key; a file that does not parse counts as none.                  *)
(***************************************************************************)
EXTENDS VaultProgram

CONSTANTS
  Terminals,
  MaxCommands   \* bound on the transactions of the owner

ASSUME OwnerSideAssumption ==
  /\ MaxCommands \in Nat
  /\ {"script", "host"} \cap Terminals = {}

VARIABLES
  onFile,    \* the delegate key in meta.json, 0 when there is no such file or it does not parse
  at,        \* where each terminal's command stands
  job,       \* what it is about, and the key that was on file when it began
  answer,    \* how its transaction ended, as far as the chain is concerned
  net,       \* the transactions sent and not yet decided
  host,      \* the agent's host: the key it was given, and where its trade stands
  made,      \* how many delegate keys were made
  commands,  \* how many transactions the owner began
  crossed,   \* history: a command began while another transaction of the owner's was undecided
  astray,    \* history: the last change of key, or of the vault's existence, was not written down
  outdated,  \* history: the configuration a terminal read has been replaced since
  retired,   \* history: the keys a rotation reported to have replaced
  torn       \* history: the last write of meta.json was cut short

terminal == <<at, job, answer, commands, crossed, outdated>>
history == <<astray, retired, torn>>
vars == <<chainVars, onFile, terminal, net, host, made, history>>

Owners == Terminals \cup {"script"}
FileCommands == {"init_vault", "set_delegate", "close_vault"}
IdleJob == [ix |-> "none", asked |-> <<>>, id |-> 0, held |-> 0]

-----------------------------------------------------------------------------
(* How the terminal writes and reads the program's bytes.                  *)

\* Mutant of CliArgs: the pause flag goes first.
CliArgsFlagFirst ==
  [init_vault |-> <<Bytes32("agentSeed"), Pubkey("delegate"), U64("maxTrade"), U64("dailyLimit")>>,
   deposit |-> <<U64("amount")>>,
   withdraw |-> <<U64("amount")>>,
   update_config |-> <<U8("paused"), U64("maxTrade"), U64("dailyLimit")>>,
   set_delegate |-> <<Pubkey("newDelegate")>>,
   set_routes |-> <<Field("length", 4), Pubkey("program")>>,
   set_rule |-> <<Pubkey("oracle"), Bytes32("feed"), U8("op"), I64("threshold"), I64("maxAge"),
                  Pubkey("inMint"), Pubkey("outMint"), U16("maxSlippageBps")>>,
   close_vault |-> <<>>]

\* The arguments of each instruction as the terminal concatenates them.
CliArgs ==
  [init_vault |-> <<Bytes32("agentSeed"), Pubkey("delegate"), U64("maxTrade"), U64("dailyLimit")>>,
   deposit |-> <<U64("amount")>>,
   withdraw |-> <<U64("amount")>>,
   update_config |-> <<U64("maxTrade"), U64("dailyLimit"), U8("paused")>>,
   set_delegate |-> <<Pubkey("newDelegate")>>,
   set_routes |-> <<Field("length", 4), Pubkey("program")>>,
   set_rule |-> <<Pubkey("oracle"), Bytes32("feed"), U8("op"), I64("threshold"), I64("maxAge"),
                  Pubkey("inMint"), Pubkey("outMint"), U16("maxSlippageBps")>>,
   close_vault |-> <<>>]

IdlArgs ==
  [init_vault |-> InitVaultIx.args, deposit |-> DepositIx.args, withdraw |-> WithdrawIx.args,
   update_config |-> UpdateConfigIx.args, set_delegate |-> SetDelegateIx.args,
   set_routes |-> SetRoutesIx.args, set_rule |-> SetRuleIx.args, close_vault |-> CloseVaultIx.args]

\* The account as the terminal reads it, field after field.
CliStruct ==
  <<Pubkey("owner"), Pubkey("delegate"), Bytes32("agentSeed"), U64("maxTrade"), U64("dailyLimit"),
    I64("dayStart"), U64("daySpent"), I64("lastTrade"), U64("epoch"), Bool("paused"), Pubkey("oracle"),
    Bytes32("ruleFeed"), U8("ruleOp"), I64("ruleThreshold"), I64("ruleMaxAge"),
    Pubkey("ruleInMint"), Pubkey("ruleOutMint"),
    Pubkey("route1"), Pubkey("route2"), Pubkey("route3"), Pubkey("route4")>>

\* fetch: the vault's state, decoded.
CliView == Alignment(CliStruct, VaultStruct)
Fetched == Decode(CliView, Contents(vault))

\* What the program makes of the arguments the terminal wrote.
ArgViews == [ix \in DOMAIN CliArgs |-> Alignment(IdlArgs[ix], CliArgs[ix])]

\* What a command asks the program for once it is ready to be sent.
Asks(ix) ==
  CASE ix = "init_vault" -> [agentSeed : {Filled}, delegate : 1..MaxKeys, maxTrade : Caps, dailyLimit : Caps]
    [] ix = "set_delegate" -> [newDelegate : 1..MaxKeys]
    [] ix \in {"deposit", "withdraw"} -> [amount : {1}]
    [] ix = "set_routes" -> [length : 0..1, program : 0..1]
    [] ix = "set_rule" ->
         [oracle : 0..1, feed : 0..1, op : 0..1, threshold : 0..1, maxAge : 0..1,
          inMint : 0..1, outMint : 0..1, maxSlippageBps : 0..1]
    [] ix = "update_config" -> [maxTrade : Caps, dailyLimit : Caps, paused : 0..1]
    [] ix = "close_vault" -> {<<>>}

Asked == [paused : 0..1] \cup (UNION {Asks(ix) : ix \in DOMAIN CliArgs})

-----------------------------------------------------------------------------
TypeOK ==
  /\ ChainTypeOK
  /\ onFile \in 0..MaxKeys
  /\ at \in [Terminals -> {"idle", "reading", "sending", "waiting", "recording"}]
  /\ job \in [Terminals -> [ix : DOMAIN CliArgs \cup {"none"}, asked : Asked, id : 0..MaxCommands, held : 0..MaxKeys]]
  /\ answer \in [Terminals -> {"none", "landed", "failed"}]
  /\ \A tx \in net : tx.from \in Owners \cup {"host"} /\ tx.signer \in 1..MaxKeys + 1
  /\ host \in [key : 0..MaxKeys, waiting : BOOLEAN]
  /\ made \in 0..MaxKeys
  /\ commands \in 0..MaxCommands
  /\ crossed \in BOOLEAN
  /\ astray \in BOOLEAN
  /\ outdated \subseteq Terminals
  /\ retired \subseteq 1..MaxKeys
  /\ torn \in BOOLEAN

Init ==
  /\ ChainInit
  /\ onFile = 0
  /\ at = [t \in Terminals |-> "idle"]
  /\ job = [t \in Terminals |-> IdleJob]
  /\ answer = [t \in Terminals |-> "none"]
  /\ net = {}
  /\ host = [key |-> 0, waiting |-> FALSE]
  /\ made = 0
  /\ commands = 0
  /\ crossed = FALSE
  /\ astray = FALSE
  /\ outdated = {}
  /\ retired = {}
  /\ torn = FALSE

Goto(t, from, to) == at[t] = from /\ at' = [at EXCEPT ![t] = to]
ChainStays == UNCHANGED chainVars

OwnerBusy == (\E t \in Terminals : at[t] # "idle") \/ (\E tx \in net : tx.from \in Owners)

-----------------------------------------------------------------------------
(* A terminal's command.                                                   *)

Begin(t, ix, asked, stage) ==
  /\ commands < MaxCommands
  /\ commands' = commands + 1
  /\ Goto(t, "idle", stage)
  /\ job' = [job EXCEPT ![t] = [ix |-> ix, asked |-> asked, id |-> commands', held |-> onFile]]
  /\ answer' = [answer EXCEPT ![t] = "none"]
  /\ crossed' = (crossed \/ OwnerBusy)
  /\ ChainStays /\ UNCHANGED <<onFile, net, host, outdated, history>>

\* create: refused when the name has a file.  A new key, kept in memory.
BeginCreate(t) ==
  /\ onFile = 0
  /\ made < MaxKeys
  /\ made' = made + 1
  /\ \E caps \in Caps :
       Begin(t, "init_vault",
             [agentSeed |-> Filled, delegate |-> made', maxTrade |-> caps, dailyLimit |-> caps], "sending")

BeginRotate(t) ==
  /\ onFile # 0
  /\ made < MaxKeys
  /\ made' = made + 1
  /\ Begin(t, "set_delegate", [newDelegate |-> made'], "sending")

\* Everything else works on the vault the file names.
BeginOther(t) ==
  /\ onFile # 0
  /\ \/ Begin(t, "deposit", [amount |-> 1], "sending")
     \/ Begin(t, "withdraw", [amount |-> 1], "sending")
     \/ \E n \in 0..1 : Begin(t, "set_routes", [length |-> n, program |-> n], "sending")
     \/ \E on, floor \in 0..1 :
          Begin(t, "set_rule",
                [oracle |-> on, feed |-> on, op |-> on, threshold |-> on, maxAge |-> on,
                 inMint |-> on, outMint |-> on, maxSlippageBps |-> floor], "sending")
     \/ \E paused \in 0..1 : Begin(t, "update_config", [paused |-> paused], "reading")
     \/ Begin(t, "close_vault", <<>>, "sending")
  /\ UNCHANGED made

\* Mutant of Preserved: the caps that were not given are not read either.
PreservedNothing == [maxTrade |-> 1, dailyLimit |-> 1]

\* The fields of the configuration the command was not told to change.
Preserved == [maxTrade |-> Fetched.maxTrade, dailyLimit |-> Fetched.dailyLimit]

\* configure reads the vault first.
ReadVault(t) ==
  /\ vault.exists
  /\ Goto(t, "reading", "sending")
  /\ job' = [job EXCEPT ![t].asked = [maxTrade |-> Preserved.maxTrade, dailyLimit |-> Preserved.dailyLimit,
                                      paused |-> @.paused]]
  /\ outdated' = outdated \ {t}
  /\ ChainStays /\ UNCHANGED <<onFile, answer, net, host, made, commands, crossed, history>>

ReadNothing(t) ==
  /\ ~vault.exists
  /\ Goto(t, "reading", "idle")
  /\ ChainStays /\ UNCHANGED <<onFile, job, answer, net, host, made, commands, crossed, outdated, history>>

Send(t) ==
  /\ Goto(t, "sending", "waiting")
  /\ net' = net \cup {[from |-> t, id |-> job[t].id, ix |-> job[t].ix, signer |-> OwnerKey,
                       arg |-> Decode(ArgViews[job[t].ix], job[t].asked)]}
  /\ ChainStays /\ UNCHANGED <<onFile, job, answer, host, made, commands, crossed, outdated, history>>

\* Mutant of Hear: the end of the transaction is taken for its success.
HearAnyEnd(t) ==
  /\ answer[t] # "none"
  /\ Goto(t, "waiting", IF job[t].ix \in FileCommands THEN "recording" ELSE "idle")
  /\ ChainStays /\ UNCHANGED <<onFile, job, answer, net, host, made, commands, crossed, outdated, history>>

\* The command hears how its transaction ended.
Hear(t) ==
  /\ answer[t] # "none"
  /\ Goto(t, "waiting", IF answer[t] = "landed" /\ job[t].ix \in FileCommands THEN "recording" ELSE "idle")
  /\ ChainStays /\ UNCHANGED <<onFile, job, answer, net, host, made, commands, crossed, outdated, history>>

\* Mutant of Record: a rotation keeps the file as it is.
RecordNothing(t) ==
  /\ Goto(t, "recording", "idle")
  /\ onFile' = CASE job[t].ix = "init_vault" -> job[t].asked.delegate
                 [] job[t].ix = "set_delegate" -> onFile
                 [] job[t].ix = "close_vault" -> 0
  /\ astray' = FALSE
  /\ torn' = FALSE
  /\ retired' = IF job[t].ix = "set_delegate" THEN retired \cup {job[t].held} ELSE retired
  /\ ChainStays /\ UNCHANGED <<job, answer, net, host, made, commands, crossed, outdated>>

\* writeMeta, or the removal of the vault's directory.
Record(t) ==
  /\ Goto(t, "recording", "idle")
  /\ onFile' = CASE job[t].ix = "init_vault" -> job[t].asked.delegate
                 [] job[t].ix = "set_delegate" -> job[t].asked.newDelegate
                 [] job[t].ix = "close_vault" -> 0
  /\ astray' = FALSE
  /\ torn' = FALSE
  /\ retired' = IF job[t].ix = "set_delegate" THEN retired \cup {job[t].held} ELSE retired
  /\ ChainStays /\ UNCHANGED <<job, answer, net, host, made, commands, crossed, outdated>>

\* The process dies, or the disk is full, when the file is already truncated.
RecordTorn(t) ==
  /\ job[t].ix \in {"init_vault", "set_delegate"}
  /\ Goto(t, "recording", "idle")
  /\ onFile' = 0
  /\ astray' = TRUE
  /\ torn' = TRUE
  /\ ChainStays /\ UNCHANGED <<job, answer, net, host, made, commands, crossed, outdated, retired>>

\* The command throws while the chain still decides, or has decided; or it dies, or the
\* write fails, before the file is touched.  Nothing of it is kept.
Abandon(t) ==
  /\ \E stage \in {"waiting", "recording"} : Goto(t, stage, "idle")
  /\ astray' = (astray \/ (job[t].ix \in FileCommands /\ answer[t] # "failed"))
  /\ ChainStays /\ UNCHANGED <<onFile, job, answer, net, host, made, commands, crossed, outdated, retired, torn>>

-----------------------------------------------------------------------------
(* The owner's script over VaultClient, whose calls anchor encodes; it     *)
(* takes the vault's seed from the file.                                   *)

ScriptSends ==
  /\ onFile # 0
  /\ commands < MaxCommands
  /\ commands' = commands + 1
  /\ crossed' = (crossed \/ OwnerBusy)
  /\ \E tx \in [ix : {"update_config"}, arg : [maxTrade : Caps, dailyLimit : Caps, paused : 0..1]]
               \cup [ix : {"wrap_sol"}, arg : [amount : {1}]]
               \cup [ix : {"unwrap_sol"}, arg : {<<>>}] :
       net' = net \cup {[from |-> "script", id |-> commands', ix |-> tx.ix, signer |-> OwnerKey, arg |-> tx.arg]}
  /\ ChainStays /\ UNCHANGED <<onFile, at, job, answer, host, made, outdated, history>>

-----------------------------------------------------------------------------
(* The agent's host.                                                       *)

\* It is started with the key on file.
HostStarts ==
  /\ onFile # 0
  /\ ~host.waiting
  /\ host' = [host EXCEPT !.key = onFile]
  /\ ChainStays /\ UNCHANGED <<onFile, terminal, net, made, history>>

\* execute: an intent becomes a quote and the quote a guarded trade.  The route source names
\* the amounts and the program; whether an oracle's attestation is among the instructions
\* depends on the agent.
Execute ==
  /\ host.key # 0 /\ ~host.waiting
  /\ \A tx \in net : tx.from # "host"
  /\ host' = [host EXCEPT !.waiting = TRUE]
  /\ \E buy, attested \in BOOLEAN, program \in 0..1, inAmount \in 1..2 :
       net' = net \cup {[from |-> "host", id |-> 0, ix |-> "trade", signer |-> host.key,
                         arg |-> [from |-> IF buy THEN "wsol" ELSE "token",
                                  to |-> IF buy THEN "token" ELSE "wsol",
                                  amountIn |-> inAmount, minOut |-> 1,
                                  swapData |-> program, attested |-> attested]]}
  /\ ChainStays /\ UNCHANGED <<onFile, terminal, made, history>>

\* It hears of its trade, or stops waiting for it.
HostGoesOn ==
  /\ host.waiting
  /\ host' = [host EXCEPT !.waiting = FALSE]
  /\ ChainStays /\ UNCHANGED <<onFile, terminal, net, made, history>>

-----------------------------------------------------------------------------
(* The chain.                                                              *)

Runs(tx) ==
  \/ tx.ix = "init_vault" /\ InitVault(tx.signer, tx.arg)
  \/ tx.ix = "deposit" /\ Deposit(tx.signer, tx.arg)
  \/ tx.ix = "withdraw" /\ Withdraw(tx.signer, tx.arg)
  \/ tx.ix = "set_delegate" /\ SetDelegate(tx.signer, tx.arg)
  \/ tx.ix = "update_config" /\ UpdateConfig(tx.signer, tx.arg)
  \/ tx.ix = "set_routes" /\ SetRoutes(tx.signer, tx.arg)
  \/ tx.ix = "set_rule" /\ SetRule(tx.signer, tx.arg)
  \/ tx.ix = "close_vault" /\ CloseVault(tx.signer)
  \/ tx.ix = "wrap_sol" /\ WrapSol(tx.signer, tx.arg)
  \/ tx.ix = "unwrap_sol" /\ UnwrapSol(tx.signer)
  \/ tx.ix = "trade" /\ Trade(tx.signer, tx.arg)

\* The sender's client is told, if it is still there.
Decided(tx, how) ==
  /\ net' = net \ {tx}
  /\ answer' = IF tx.from \in Terminals /\ job[tx.from].id = tx.id
               THEN [answer EXCEPT ![tx.from] = how] ELSE answer
  /\ UNCHANGED <<onFile, at, job, host, made, commands, crossed, history>>

Land(tx) ==
  /\ Runs(tx)
  /\ Decided(tx, "landed")
  /\ outdated' = IF tx.ix \in {"init_vault", "update_config", "close_vault"} THEN Terminals ELSE outdated

\* It expires, or the program refuses it.
Lapse(tx) ==
  /\ ChainStays
  /\ Decided(tx, "failed")
  /\ UNCHANGED outdated

-----------------------------------------------------------------------------
Next ==
  \/ \E t \in Terminals :
       \/ BeginCreate(t) \/ BeginRotate(t) \/ BeginOther(t) \/ ReadVault(t) \/ ReadNothing(t)
       \/ Send(t) \/ Hear(t) \/ Record(t) \/ RecordTorn(t) \/ Abandon(t)
  \/ ScriptSends
  \/ HostStarts \/ Execute \/ HostGoesOn
  \/ \E tx \in net : Land(tx) \/ Lapse(tx)

Spec == Init /\ [][Next]_vars

-----------------------------------------------------------------------------
(* Properties.                                                             *)

\* A transaction asks the program for what its command was told, in every argument: the bytes
\* the terminal writes by hand are the ones the program reads (vault.js 22-27, 76, 132, 163-167).
LandsAsAsked ==
  \A tx \in net : tx.from \in Terminals /\ job[tx.from].id = tx.id => tx.arg = job[tx.from].asked

\* The file holds the key the chain trusts, and names a vault that exists, whenever no command
\* is under way, no two overlapped, and the last change of key was written down: a rotation
\* that succeeds brings a file left behind back in line (vault.js 82-91, 142-143, 175-176).
KeyOnFileTrades ==
  ~crossed /\ ~astray /\ ~OwnerBusy => onFile = IF vault.exists THEN vault.delegate ELSE 0

\* Whatever command dies and whatever answer is lost, SOL in the vault can be withdrawn from
\* the terminal, unless a write of the file was cut short: the file its commands need is
\* there (vault.js 82-91, 95-99, 175-176).
FundsReachable ==
  ~crossed /\ ~torn /\ vault.exists /\ onFile = 0 => vault.sol = 0

\* A key that a rotation reported to have replaced never trades again, whatever its host still
\* has in flight ("fences out the old one", modules/agent.js 594).
RetiredKeyIsOut ==
  [][\A tx \in net \ net' : tx.ix = "trade" /\ cash' # cash => tx.signer \notin retired]_vars

\* Pausing and resuming change nothing else of the configuration, unless it was replaced
\* between the read and the write (vault.js 128-132).
PauseKeepsCaps ==
  [][\A tx \in net \ net' :
       (/\ tx.ix = "update_config"
        /\ tx.from \in Terminals \ outdated
        /\ job[tx.from].id = tx.id
        /\ vault.exists)
         => vault'.caps = vault.caps]_vars

-----------------------------------------------------------------------------
(* What the properties rest on.                                            *)

\* A command is complete when it is sent.
JobsInOrder ==
  \A t \in Terminals :
    /\ job[t].id <= commands
    /\ at[t] # "idle" => job[t].id > 0 /\ (job[t].ix = "set_delegate" => job[t].held # 0)
    /\ at[t] = "reading" => job[t].ix = "update_config" /\ job[t].asked \in [paused : 0..1]
    /\ at[t] \in {"sending", "waiting", "recording"} =>
         job[t].ix \in DOMAIN CliArgs /\ job[t].asked \in Asks(job[t].ix)
    /\ at[t] \in {"reading", "sending"} => answer[t] = "none"
    /\ at[t] = "recording" => job[t].ix \in FileCommands /\ answer[t] = "landed"

FromTerminal(tx) ==
  /\ tx.from \in Terminals
  /\ tx.id \in 1..commands
  /\ tx.signer = OwnerKey
  /\ tx.ix \in DOMAIN CliArgs /\ tx.arg \in Asks(tx.ix)
FromScript(tx) ==
  /\ tx.from = "script"
  /\ tx.signer = OwnerKey
  /\ \/ tx.ix = "update_config" /\ tx.arg \in Asks("update_config")
     \/ tx.ix = "wrap_sol" /\ tx.arg \in [amount : {1}]
     \/ tx.ix = "unwrap_sol"
FromHost(tx) ==
  /\ tx.from = "host"
  /\ tx.signer \in 1..MaxKeys
  /\ tx.ix = "trade"
  /\ tx.arg \in [from : {"wsol", "token"}, to : {"wsol", "token"}, amountIn : 1..2, minOut : {1},
                 swapData : 0..1, attested : BOOLEAN]

\* The transaction of the command a terminal last began.
IsOf(tx, t) == tx.from = t /\ tx.id = job[t].id

NetInOrder ==
  /\ \A tx \in net : FromTerminal(tx) \/ FromScript(tx) \/ FromHost(tx)
  /\ \A tx \in net, t \in Terminals :
       IsOf(tx, t) => /\ at[t] \in {"idle", "waiting"} /\ answer[t] = "none"
                      /\ tx.ix = job[t].ix /\ tx.arg = job[t].asked
  /\ \A tx, ux \in net, t \in Terminals : IsOf(tx, t) /\ IsOf(ux, t) => tx = ux

\* The key that a creation or a rotation brings.
KeyCommands == {"init_vault", "set_delegate"}
Brought(ix, arg) == IF ix = "init_vault" THEN arg.delegate ELSE arg.newDelegate
JobKey(t) == Brought(job[t].ix, job[t].asked)
TxKey(tx) == Brought(tx.ix, tx.arg)
Brings(t) == at[t] = "sending" /\ job[t].ix \in KeyCommands

\* Nothing in the vault's past or present has such a key: no file, no account, no command's
\* memory of the file, no command that succeeded.
Unused(key) ==
  /\ key \notin retired \cup {onFile}
  /\ vault.exists => key # vault.delegate
  /\ \A t \in Terminals :
       /\ key # job[t].held
       /\ at[t] # "idle" /\ answer[t] = "landed" /\ job[t].ix \in KeyCommands => key # JobKey(t)

\* A key is brought once.
KeysAreNew ==
  /\ \A t \in Terminals : Brings(t) => Unused(JobKey(t))
  /\ \A tx \in net : tx.ix \in KeyCommands => Unused(TxKey(tx))
  /\ \A t, u \in Terminals : Brings(t) /\ Brings(u) /\ JobKey(t) = JobKey(u) => t = u
  /\ \A tx, ux \in net : tx.ix \in KeyCommands /\ ux.ix \in KeyCommands /\ TxKey(tx) = TxKey(ux) => tx = ux
  /\ \A t \in Terminals, tx \in net : Brings(t) /\ tx.ix \in KeyCommands => JobKey(t) # TxKey(tx)

\* No key is known before it is made.
KeysAreMade ==
  /\ retired \subseteq 1..made /\ onFile \in 0..made
  /\ vault.exists => vault.delegate \in 1..made
  /\ \A t \in Terminals :
       /\ job[t].held \in 0..made
       /\ at[t] # "idle" /\ job[t].ix \in KeyCommands => JobKey(t) \in 1..made
  /\ \A tx \in net : tx.ix \in KeyCommands => TxKey(tx) \in 1..made

\* The chain forgot a key before anyone calls it replaced.
RetiredIsGone ==
  /\ vault.exists => vault.delegate \notin retired
  /\ \A t \in Terminals :
       (/\ at[t] # "idle" /\ answer[t] = "landed"
        /\ job[t].ix = "set_delegate" /\ vault.exists) => vault.delegate # job[t].held

\* What a terminal read stays true until the configuration is replaced.
ReadIsCurrent ==
  \A t \in Terminals \ outdated :
    (/\ job[t].ix = "update_config"
     /\ at[t] = "sending" \/ \E tx \in net : IsOf(tx, t)
     /\ vault.exists) => job[t].asked.maxTrade = vault.caps

VaultInv ==
  TypeOK /\ JobsInOrder /\ NetInOrder /\ KeysAreNew /\ KeysAreMade /\ RetiredIsGone /\ ReadIsCurrent

-----------------------------------------------------------------------------
(* And as long as the owner does one thing at a time:                      *)

Trusted == IF vault.exists THEN vault.delegate ELSE 0
Target(t) == IF job[t].ix \in KeyCommands THEN JobKey(t) ELSE 0

\* ... one command is under way, or none and what is left of one;
OneActivity ==
  /\ \A t, u \in Terminals : at[t] # "idle" /\ at[u] # "idle" => t = u
  /\ \A tx, ux \in net : tx.from \in Owners /\ ux.from \in Owners => tx = ux
  /\ \A t \in Terminals, tx \in net :
       at[t] # "idle" /\ tx.from \in Owners => IsOf(tx, t)
  /\ \A tx \in net :
       tx.from \in Terminals => IsOf(tx, tx.from) /\ (at[tx.from] = "idle" /\ tx.ix \in FileCommands => astray)

\* ... a change that landed and is not written down yet is the last word of the chain, and any
\* other time the file is, unless a change was never written down;
FileFollows ==
  /\ \A t \in Terminals :
       at[t] # "idle" /\ job[t].ix \in FileCommands /\ answer[t] = "landed" => Trusted = Target(t)
  /\ \/ astray
     \/ onFile = Trusted
     \/ \E t \in Terminals : at[t] # "idle" /\ job[t].ix \in FileCommands /\ answer[t] = "landed"

\* ... and without a file nothing but a creation is under way, which brings no funds.
NoFileNoFunds ==
  onFile = 0 =>
    /\ \A t \in Terminals : at[t] # "idle" => job[t].ix = "init_vault"
    /\ \A tx \in net : tx.from \in Owners => tx.ix = "init_vault"
    /\ vault.exists /\ ~torn => vault.sol = 0

OneAtATime == ~crossed => OneActivity /\ FileFollows /\ NoFileNoFunds
=============================================================================
