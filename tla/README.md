# A verification project for circuit-sdk

TLA+ models of the parts of circuit-sdk that move money or act on an owner's
orders, the TLC runs that check them, and TLAPS proofs about them. Paths are
relative to `src/`; `x402/` is short for `packages/x402/src/`, and so on.

## 1. The system

circuit-sdk is a TypeScript monorepo (with a Python port of the payment client and
a command line in JavaScript) for agents that pay for APIs with the CIRC token and
trade within limits an owner sets. Agents run locally or with a control plane, and may
trade from a vault account on chain whose caps the owner keeps.

| Component | State it keeps | Operations | Interacts with |
|---|---|---|---|
| x402 client (`x402/client.ts`) | `spentRaw`, `spentPayTokenRaw`; per call: the response, the quote, the signature | `request`, `fetch`, `json` | endpoint (HTTP 402), `onPay` hook, wallet |
| x402 gate (`x402/verify.ts`) | replay store (memory or a directory) | `verifyPaymentTx` | Solana RPC, the service's handler |
| pricing (`x402/quote.ts`) | cached and last known price | `circRawFromUsd`, `parse402`, `parseAcceptedTokens`, `CircPriceOracle.get` | Jupiter |
| wallet (`wallet/wallet.ts`, `executor.ts`) | keypair, RPC connections | `sendCirc`, `sendToken`, `sendSol`, `swap`, `signAndSendTransaction` | Solana RPC (failover) |
| models client (`models/models.ts`) and its flows (`apps/cli/src/modules/models.js`) | API key, in a file | `buy` (build, sign, poll), rotation of the key, chat | wallet, gateway |
| agent custody (`agent/custody.ts`) | `daySpentSol`, `lastTradeTs`, `day` | `admit`, `revert`, `run`; `SignerCustody.intent` | trade executors, off-box signer |
| agent runtime (`agent/agent.ts`) | `running`, `busy`, counters | `start`, `runTick`, `stop`, `run`, heartbeat | timer, signals, node-host |
| command inbox (`agent/agent.ts`, `commands.ts`) | replay fence, acks, configuration; three files | `drainCommands`, `onCommand`, `persistCommandState` | node-host, control plane, owner's CLI |
| attest (`attest/*.ts`) | nonce cache | `decisionGate`, `verifyEvidence`, `evaluateRule` | `SignerCustody`, the off-box signer |
| owner auth (`core/owner-auth.ts`) | nonce store | `verifyOwnerRequest` | control plane |
| vault (`vault/*.ts`, `apps/cli/src/services/vault.js`) | the delegate's key in `meta.json`; the vault is on chain | instruction builders, `execute`; create, configure, rotate, close, status | on-chain program, Jupiter |
| agent management (`apps/cli/src/services/agents.js`, `drivers/`, `agent-commands.js`) | `meta.json`, `agent.pid` | create, start, stop, destroy, signed commands | agent processes, control plane |
| inference, data, node, onchain, bundle, plugins, sdk | little or none | requests, decoders, packing | x402 client, services |
| rest of the command line (`apps/cli/src`) | none | menus, prompts, rendering | all of the above |
| Python (`circuit-py`) | token total | `request` | endpoint, wallet |

How they meet: every paid request is a call of `X402Client.request`, whose promises
interleave with those of other calls on the same client; it trusts the wallet to
transfer and hands the signature to a service, where `verifyPaymentTx` looks the
transaction up on the chain. An agent's tick first drains the owner's command file,
then runs the strategy, which trades through a custody whose policy engine is
shared by all trades in flight. The owner's terminals are processes of their own: each
reads the agent's or the vault's files, asks the control plane or the chain, and writes the
files afterwards, with nothing that keeps two of them apart.

### What is hard

* **Awaits.** JavaScript runs from one `await` to the next without interruption. What
  was checked before an `await` may not hold after it: the budget of the client, the
  replay store of the gate, the cooldown and spend of the policy engine.
* **The chain.** A transaction that was broadcast may land although the wallet threw,
  and `confirmTransaction` reports an on-chain failure in a result nobody reads.
* **Retries and timeouts.** One retry of a paid request, a timeout per attempt, up to
  four fetches on the other side, signatures lost with an exception.
* **Kills and failing writes.** The files of the agent and of the vault are rewritten in
  place; the agent and the gate's replay store swallow every write error.
* **Redelivery.** The node-host may hand over any batch of commands, again and again; a
  request to a signer or a service may arrive late, twice or damaged.
* **Answers from someone else.** A proxy may answer for a handler that still works, and
  any 2xx is taken for the answer that was awaited, whatever its body holds.
* **Attempts nobody awaits.** An RPC attempt that timed out goes on and may reach its node
  after the send has thrown; a lookup that was overtaken writes its older price last.
* **Keys between the chain and a file.** A delegate's or an API key exists in one place
  before it does in the other, and the terminal may die in between.
* **Signals.** `stop()` does not wait for a tick, and may be called again while it runs.
* **Bytes by hand.** The terminal lays out the vault's instructions and reads its account
  field by field.

What makes each modelled component correct: *client*: one permitted payment per call,
none after a refusal, budgets kept, totals that reconcile with the chain, every call
ends. *Gate*: accepts only what was paid, nothing after a mark that was written, recent payments
only, every verification ends. *Loop*: a payment buys a second service for known causes only, and
is denied for known causes only. *Custody*: daily cap, cooldown, an exact spend, no false cooldown. *Inbox*:
actions at most once and in order, acknowledged patches durable, acks true. *Wallet and
purchases*: money moves once per send, an error says whether it may have moved, a purchase
can be traced, the key on file works. *Agent processes*: one per agent, one tick at a time,
a stop that ends and is the last word, a record that knows every cloud agent. *Vault*:
instructions ask for what was meant, the key on file trades, funds stay reachable, retired
keys are out, pausing keeps the caps. *Freshness*: a nonce is spent once, a signed trade is
justified and not repeated, a price is recent and given up only in an outage.

## 2. The modules

| Module | Models | State ↔ code |
|---|---|---|
| `X402Client` | `x402/client.ts` `request`, with the wallet and chain it acts on | `pc`: the await a call stands at; `offer`: its quote; `spent`: `spentRaw`, `spentPayTokenRaw`; `sends`, `tx`, `moved`: what the wallet was asked and the chain did; `outcome`: returned or thrown |
| `PayPerCall` | the abstract promise to the wallet's owner | implemented by `X402Client` (`KeepsPromise`) |
| `PaymentGate` | `x402/verify.ts` | `used`: the replay stores; `unmarked`: acceptances whose mark was not written or was lost; `claim`, `phase`, `attempt`: arguments and progress of each `verifyPaymentTx`; `chain`, `clock`: environment |
| `X402System` | client and gate composed, with a proxy between them | client and gate variables, `price`, `reply`; `wire`: paid requests under way; `proxied`: those the proxy answered |
| `ExecutorCustody` | `agent/custody.ts` `PolicyEngine`, `ExecutorCustody.run` | `day`, `daySpent`, `lastTrade`: the engine's fields; `at`, `prev`: the admission (`prevTradeTs`); `phase`, `fate`: the awaited execution |
| `CommandInbox` | `agent/agent.ts` 183-333, 417-433, `agent/commands.ts` | `mem`: `cmdFence`, `cmdAcks`; `saved`, `savedConfig`, `relay`: what the three files load as; `todo`, `acting`: the loop; `runs`: how often `onCommand` ran |
| `RpcWallet` | `wallet/wallet.ts` sends, `withRpc`, `classifyFundsError`, `assertSafePayment` | `at`, `conn`: the await and the connection of an attempt; `reaching`: attempts still on their way in the background; `tx`, `funds`: the chain; `outcome`: the error class |
| `PaymentWallet` | the abstract wallet: a send moves money at most once and resolves only for what the chain includes | implemented by `RpcWallet` (`MovesMoneyOnce`) |
| `MoneyFlows` | `models/models.ts` `buy`, `apps/cli/src/modules/wallet.js`, `models.js`, over `RpcWallet` | `flow`: where a flow stands; `ledger`, `key`: the gateway; `blank`: purchases ended by another 2xx; `keyFile`: `models-key.json`; `rotation`: `keyFlow` |
| `AgentLifecycle` | `agent/agent.ts` 389-474: `start`, `runTick`, `stop`, `run`, heartbeat | `running`, `busy`: its flags; `ticking`: the timer; `draining`, `trading`: awaited ticks; `stops`: each call of `stop()` |
| `AgentFleet` | `services/agents.js`, `drivers/local.js`, `drivers/cloud.js`, `agent-commands.js`, over `AgentLifecycle` | `meta`, `pidFile`: the files; `at`, `saw`: each terminal's command and what it read; `cloud`, `queue`: the control plane |
| `VaultIdl` | the IDL of the vault program: arguments, signers, relations, and the account's layout, with widths | pure definitions |
| `VaultProgram` | the vault program as its typed interface states it | `vault`: the account; `cash`: its token balances |
| `VaultOwner` | `services/vault.js`, `vault/executor.ts`, `vault-client.ts`, over `VaultProgram` | `onFile`: the delegate in `meta.json`, 0 when it cannot be read; `torn`: its last write was cut short; `at`, `job`: each terminal's command and the file it read (`held`); `net`: transactions sent and undecided; `host`: the executor |
| `Clock` | `Date.now()`, shared by the next three | `clock` |
| `OwnerAuth` | `core/owner-auth.ts` | `stamp`: the signed time; `store`: `NonceStore.m`; `arrivals`: copies and answers |
| `OffBoxSigner` | `agent/custody.ts` `SignerCustody` and `attest/` `decisionGate` at the signer | `submitted`, `told`, `blank`: the strategy's side, and the answers that were not the signer's; `verdict`, `signed`, `seen`, `life`: the signer's |
| `PriceOracle` | `x402/quote.ts` `CircPriceOracle` | `cached`, `lastKnown`: its fields; `asked`, `quoted`, `given`: each `get()` |
| `MC...` | instances for TLC | |
| `..._proofs` | theorems and their proofs | |

An action is one stretch between two awaits (in `CommandInbox`, where the process can
die anywhere, one command of the loop, split at the writes to the disk). Variables called *history* are not in the
code: `interleaved` says that a second call or trade began while one was running, `after` which
verification began when which other was over, `unmarked`, `proxied`, `blank` and `torn` what
went wrong unnoticed; a property that is promised only short of that mentions them, and a run of
its own shows what happens then.

Abstractions: amounts are small integers, names are model values, a 402 body is the
pair of payments it offers, signatures are abstract and verify or not (`Authentic`).
A client without a wallet ends at the 402 (`client.ts` 182) and is not an instance.
The wallet of `X402Client` is the general one: it can throw before or after its
transaction was broadcast, and resolves after a confirmation of either kind.
The service's handler of `X402System` is the sample in `docs/x402.md` 165-175, since
the repository has no service of its own; how many workers it has and which stores they share
is a parameter. A proxy is whatever stands between it and the client: a paid request arrives
late or never, and the client may be answered before the handler is done.
An intent keeps its five fields, of which the gate compares three (`SameIntent`); a field a rule
leaves alone is `Unset`, an input that is absent reads as `Missing`.
In `MoneyFlows` the kind `token` is what the x402 client sends with `sendToken`; the other
kinds are the flows of the command line. The vault program is deployed from another
repository: `VaultProgram` is the interface this one is typed against, and its
instructions require the signers and relations the IDL lists and refuse what its errors name
of the state modelled here (paused, over the trade cap, an unlisted route, a rule not attested,
no funds, the wrong signer). The daily cap, slippage against a minimum the trade itself carries,
and the guards over foreign accounts and approvals are the program's own. A vault's
fields are compared, not their bytes: `VaultIdl` gives each field its width, and two
layouts agree where the same field starts at the same offset. A price is known by the instant
the market quoted it, a piece of evidence and a request by their nonces.
A command that is no object, or lacks an id, is not modelled; an unknown type is one of
`Types`. Durable means: the directory of `FileReplayStore`; its `add` is atomic but reports
neither that the mark was there nor, for a store in `Failing`, that it could not be written.

## 3. The runs

| Run | Instance and bounds | Shows |
|---|---|---|
| `client_calls` | 2 overlapping calls, amounts 1..3, one pinned and one strange payee, CIRC ceilings 2 per call and 3 in all, token ceilings 1 and 2 | `PaymentsWithinLimits`, `Reconciled`, `SerialBudget`, the refinement `KeepsPromise`, and `CallsEnd` |
| `client_budget_race` | 2 calls of 2 under a budget of 3 | finding: overlapping calls overspend the budget |
| `gate_workers` | 2 verifications of one signature; two workers on one file store whose writes may fail, one with memory, one with none; 2 fetches | `AcceptedIsPaid`, `MarkedIsSpent`: a written mark ends its signature; `UnstoredIsRecent`; `VerificationsEnd` |
| `gate_shared_store` | the same, no write fails | finding: two workers on one directory consume one payment |
| `system_loop` | 1 call, its paid request and the retry; 3 workers on a failing file store and a memory store, proxy, two prices, restarts, clock | `OnePaymentOneService`, `ServedIsPaid`, `DenialIsExplained` |
| `custody_trades` | 3 trades; 5 ticks, a day of 3, a cooldown of 2; sizes 0..3, per-trade limit 2, daily cap configured below it; a denied token and a kind not allowed | an exact spend within the cap, a true cooldown |
| `inbox_drains` | 2 patches, 2 actions, equal seqs, 2 keys, ack cap 2, 2 lives, expiry at tick 1; no trouble, kills, or torn writes | at most once, in order, durable, truthful acks, drains end |
| `inbox_torn_fence` | torn writes and a restart | finding: an action runs twice |
| `money_flows` | 1 flow of any of 5 kinds, 3 purses, 3 connections, 3 server-built transactions (sound, with an approval, to a stranger), 2 rotations | money moves once, plain errors mean unsent, purchases are traceable, the key on file works, flows end |
| `agent_fleet` | 2 terminals, 5 commands, 2 process ids that are recycled, 2 signals | one process, one tick, last word, record and cloud agree, increasing seqs, stops end |
| `freshness` | four scenes: 2 requests with 2 copies each, skew 2, store limit 1; 3 lookups, 6 instants; 2 attempts, 3 pieces of evidence (a page, a damaged quote, a receipt), 7 submissions and the bare one, 2 lives of the signer; a vault with 2 terminals, a script and a host, 3 owner transactions, 3 keys, balances up to 2 | nonces spent once, prices recent, null means outage; signed trades justified and told truly; arguments as meant, key on file, reachable funds, retired keys out, caps kept |
| `signer_exact_trade` | the signer's scene, 3 instants | finding: an amount and a slippage the rule never gave are signed |

The parts of `freshness` share nothing, so a behaviour is one scene and the run is the sum of
four; the others stand in their initial states.

Why the bounds are enough: two overlapping calls or terminals are the smallest race, and in the
loop so are the two paid requests of one call: two calls there meet only in the wallet and the
store, under different signatures, and are left to `client_calls`, `gate_workers` and the theorems,
which hold for any number (a run of two takes far longer). Seven submissions are the sound one and
one for each way to depart from it: a field of its own, the size, an input, no token, damaged
evidence, evidence used twice. A
budget below the sum of two quotes and above each makes the budget bite; the ack cap of 2 is
below the number of commands, so acks are dropped; a daily cap that two trades exceed and a day
of a few ticks put reversals on both sides of midnight. Three connections let an attempt time
out, a second be refused and a third succeed while the first goes on. Two process ids are one
old and one new process, and recycling gives the old id to a stranger. Three owner
transactions are a creation, a rotation and one that overlaps it. A store limit of 1 makes the
nonce store prune at the second request; a clock that runs past every window makes each
stamp expire.
`MaxClock`, `MaxTime`, `Horizon`, `MaxStarts`, `Retries`,
`MaxSignals`, `MaxCommands`, `MaxKeys`, `MaxCash`, `MaxCopies` and `MaxLives` are the only
bounds on counters. Symmetry is used for calls, trades, attempts and terminals, in runs whose
temporal properties are action properties only. Deadlock is not checked: all
these systems stop when every call, trade, flow or command of the instance has ended.

The type invariants are theorems (`AgentFleet`'s `TypeOK` documents the state and is part of no
proof, whose invariants type what they need); none is among the runs' properties.

Fairness. `X402Client!FairSpec`: the await a call stands at settles, because each HTTP
attempt carries an abort signal (`client.ts` 159-163), each RPC a per-try timeout
(`wallet.ts` 347-363), the delay is a timer, and the application's hook is assumed to settle.
`PaymentGate!FairSpec`: each fetch answers or fails. `CommandInbox!FairSpec`: the process
goes on and `onCommand` settles; nothing is assumed of the node-host or of restarts.
`MoneyFlows!FairSpec`: a flow's next step and the passing of a purchase's deadline, for the
same timeouts; nothing is assumed of the person, the chain or the gateway's crediting.
`AgentFleet!FairSpec`: the steps of `stop()` under way, so that its hooks settle; nothing is
assumed of strategies, timers, terminals or the control plane.

What is assumed of hooks and of the wallet a client is given is not enforced by the code: one that
never settles hangs the call, or every later drain.

Findings are the four runs that expect a violation; each quotes the sentence of the
repository it contradicts in `PROJECT.json`. The property beside each says how far the
promise does hold: `SerialBudget` beside the budget race, `MarkedIsSpent` beside the shared store (a
mark that was written ends its signature; the second verification began before the first was over),
`ActionsAtMostOnce` and `OncePerLife` beside the torn fence, `SignedIsJustified` beside the exact
trade (kind, token and size are the rule's).

Other sentences of the repository that the models bear on, where the code does less than they
say, and the property that says what it does:

* `x402/verify.ts` 105 (marks the signature used on success): a file store swallows every error
  of the write (67), not only a mark that is there; `MarkedIsSpent` is about marks that were written.
* `models/models.ts` 230-231 (returns the credited balance) and `models.js` 154 ("Credited"): any
  2xx that does not say pending ends the purchase so (256); `PurchaseIsTraceable` is about answers
  that name the ledger, `blank` marks the others.
* `agent/custody.ts` 35 (a signed result or a rejection): any 2xx is `ok: true` with the code
  `verified` (90, 120); `TradesOnceAsTold` says every other answer is true.
* `agent/types.ts` 36 (trading limits, enforced): trades that overlap get past both, since a reversal
  restores an older stamp over a newer trade's and takes yesterday's trade off today's spend
  (`custody.ts` 192-193); `CooldownIsTrue` and `SpendIsExact` hold for awaited trades.
* `apps/cli/docs/commands.md` 150 (withdraw always works): not after a write of `meta.json` was cut
  short (`services/vault.js` 44): the file reads as none, and `create` fails on the account that
  exists. `FundsReachable` says funds are out of reach for no other reason.
* `modules/agent.js` 552 (vault state: caps, delegate, rule, routes): `fetch` of `services/vault.js` skips
  `max_slippage_bps` (198), so the routes are decoded two bytes early. The caps come before
  it, which is what `PauseKeepsCaps` needs; `LandsAsAsked` says what is written is right.
* `docs/verified-intents.md` 111 (a rule can require `verdict`): a receipt backs the input `aiVerdict`
  only (`Backs`).
* `docs/x402.md` 97-98 (re-asking is safe): a service that verified, then failed, denies the
  retry as already used (`DenialIsExplained` names the cause); and with a proxy in between both
  may be served (`OnePaymentOneService`).
* `agent/custody.ts` 364 (the trade never landed): a confirmation that timed out throws too,
  and the trade may land; `SpendIsExact` is exact for what the engine was told.
* `agent/agent.ts` 249 (a lost ack is re-derived next drain): the next drain skips what is
  acked in memory and writes only if something changed. `AcksAreTrue` promises an ack to every
  command only while nothing goes wrong.
* `services/agent-commands.js` 33-34 (one status read, so concurrent CLIs do not collide): two that
  read the same status choose the same number; `SeqsIncrease` is for awaited commands.
* `vault/vault-client.ts` 213 calls `unwrapSol` an instruction of the owner or the delegate; in the
  IDL only the owner may run it, and `UnwrapSolIx` follows the IDL.
* `vault/executor.ts` 9-10 says the owner's `vault fund` wraps SOL; `fund` of `services/vault.js` only
  deposits it; wrapping is left to a script over `VaultClient.wrapSol` (`ScriptSends`).

## 4. The proofs

TLAPS proves, for every value of the constants within the modules' assumptions:

| Theorem | Statement |
|---|---|
| `X402Client_proofs!TypeCorrect` | `Spec => []TypeOK` |
| `X402Client_proofs!WithinLimits` | `Spec => []PaymentsWithinLimits` |
| `X402Client_proofs!WithinBudget` | `Spec => []SerialBudget` |
| `X402Client_proofs!Refinement` | `Spec => KeepsPromise` (`X402Client` implements `PayPerCall`) |
| `X402Client_proofs!AccountsAreRight` | `Spec => []Reconciled` |
| `PaymentGate_proofs!TypeCorrect` | `Spec => []TypeOK` |
| `PaymentGate_proofs!PaidFor` | `Spec => []AcceptedIsPaid` |
| `PaymentGate_proofs!MarkEndsSignature` | `Spec => []MarkedIsSpent` |
| `PaymentGate_proofs!MarksAreEarned` | `Spec => []MarksAreAcceptances` |
| `PaymentGate_proofs!RecentWithoutStore` | `Spec => UnstoredIsRecent` |
| `X402System_proofs!ClientBehaves`, `GateBehaves` | `Spec => Client!Spec`, `Spec => Gate!Spec` |
| `X402System_proofs!OneForOne` | `Spec => []OnePaymentOneService` |
| `X402System_proofs!PaidByTheCall` | `Spec => []ServedIsPaid` |
| `X402System_proofs!DeniedForAReason` | `Spec => []DenialIsExplained` |
| `X402System_proofs!ClientKeepsPromise` | `Spec => ClientSide!KeepsPromise` (the refinement, of the composed client) |
| `X402System_proofs!TypeCorrect` | `Spec => []TypeOK` |
| `CommandInbox_proofs!TypeCorrect` | `Spec => []TypeOK` |
| `CommandInbox_proofs!EachLifeRunsOnce` | `Spec => []OncePerLife` |
| `CommandInbox_proofs!AtMostOnceWhole` | `Spec => []ActionsAtMostOnce` |
| `CommandInbox_proofs!InOrder` | `Spec => ActionsInOrder` |
| `CommandInbox_proofs!Durable` | `Spec => []AppliedIsDurable` |
| `CommandInbox_proofs!TrueAcks` | `Spec => []AcksAreTrue` |
| `ExecutorCustody_proofs!TypeCorrect` | `Spec => []TypeOK` |
| `ExecutorCustody_proofs!CapKept` | `Spec => []WithinDailyCap` |
| `ExecutorCustody_proofs!SpendCounted` | `Spec => []SpendIsExact` |
| `ExecutorCustody_proofs!CooldownHeld` | `Spec => []CooldownIsTrue` |
| `MoneyFlows_proofs!TypeCorrect` | `FlowSpec => []TypeOK` |
| `MoneyFlows_proofs!WalletKeepsPromise`, `FlowsKeepPromise` | `Spec => MovesMoneyOnce`, `FlowSpec => MovesMoneyOnce` (`RpcWallet` implements `PaymentWallet`) |
| `MoneyFlows_proofs!PlainErrors`, `FlowErrors` | `Spec => []PlainErrorMeansUnsent`, the same of `FlowSpec` |
| `MoneyFlows_proofs!Traceable` | `FlowSpec => []PurchaseIsTraceable` |
| `MoneyFlows_proofs!KeyOnFile` | `FlowSpec => []KeyOnFileWorks` |
| `AgentFleet_proofs!TicksAlone` | `Spec => []OneTickAtATime` |
| `AgentFleet_proofs!OneProcess` | `Spec => []OneAgentProcess` |
| `AgentFleet_proofs!RecordKept` | `Spec => []RecordMatchesCloud` |
| `AgentFleet_proofs!LastWord` | `Spec => []StoppedIsTheLastWord` |
| `AgentFleet_proofs!Increase` | `Spec => []SeqsIncrease` |
| `Freshness_proofs!OwnerTypeCorrect` | `OwnerSpec => []OwnerTypeOK` |
| `Freshness_proofs!SpentOnce` | `OwnerSpec => []NonceIsSpentOnce` |
| `Freshness_proofs!Justified` | `SignerSpec => []SignedIsJustified` |
| `Freshness_proofs!OnceAsTold` | `SignerSpec => []TradesOnceAsTold` |
| `Freshness_proofs!OracleTypeCorrect` | `OracleSpec => []PriceTypeOK` |
| `Freshness_proofs!RecentPrices` | `OracleSpec => []PriceIsRecent` |
| `Freshness_proofs!OutageBehindNull` | `OracleSpec => NullMeansOutage` |
| `Freshness_proofs!VaultTypeCorrect` | `Spec => []TypeOK` (of `VaultOwner`) |
| `Freshness_proofs!AskedLands` | `Spec => []LandsAsAsked` |
| `Freshness_proofs!RetiredKeysAreOut` | `Spec => RetiredKeyIsOut` |
| `Freshness_proofs!CapsArePreserved` | `Spec => PauseKeepsCaps` |
| `Freshness_proofs!FileFollowsChain` | `Spec => []KeyOnFileTrades` |
| `Freshness_proofs!NoFundsStranded` | `Spec => []FundsReachable` |

*The client.* `PaymentsWithinLimits` is not inductive: that a call sends at most once needs
to know where the call stands. `StageInv` relates the stage of a call to what it
selected and sent: a permitted offer from acceptance on, no send before, exactly one
after, a transaction only after a send. For the budget, `BudgetInv` adds that
without overlap at most one call runs and that an accepted, uncounted offer still
fits. The refinement maps a call's first send to `Commit`, `Land` to `Settle`, every end
to `Close`, and the rest to stuttering; it needs `StageInv` to see that a send is the
first one and its offer permitted.

*Sums.* A total is stated without a fold, as the cardinality of a set of units: a call that counted
an offer of n puts n units of its own into the set (`Units`, `Total`), so adding a call is
adding a disjoint finite set, and the library's theorems on cardinalities replace an induction.
`AccountsInv` says of both currencies that the running total is the number of units of the calls
whose send resolved, and `UncountedIsUnheard` which calls moved money outside of it. `SpendInv` is about
the engine's day (`StandingOn`, `KeptOn`): its spend never exceeds the units of the day's trades that
execute or stand, and while trades are awaited it equals them. That needs the engine's day to be
the last on which a trade was admitted (`DayIsLast`), and the one trade that executes to be of that
day (`ExecutesToday`), or a reversal would take its size off another day's spend.
Neither needs the set of calls or of trades to be finite: that finitely many have begun is
part of the invariant.

*The gate.* `GateInv` says that what is accepted is marked unless it is among the `unmarked`, and
that a verification that came after a marked acceptance at the same store is neither under way
nor accepted: the store turned it away as it began. A worker without a store reads the block time
in the step that accepts, so the window holds of that very step.

*The loop.* The composition is proved from its parts. `ClientBehaves` and `GateBehaves` show that
a step of the system is a step of each side's own module, or leaves that side alone; so the
theorems about the client and the gate are cited of the system's instances of them
(`ClientSide`, `GateSide`) instead of being proved again. What only the two together know is `Linked`:
what became of a payment is what the chain shows (`ChainLink`), an answer is the outcome
of a verification of that call's own signature (`ReplyLink`), a call the proxy did not answer asks
again only when the first verification is over (`RetryLink`), and what a verdict said of
a transaction stays true (`VerdictLink`). Then the retry of an accepted request came after it, so the
gate's theorem about marks applies: only an unwritten or forgotten mark lets it buy again. Where
the proxy did answer, the two verifications may overlap or change places, and the same theorem
is applied the other way round.

*The inbox.* How often an action ran says nothing of where the fence stands. `LifeInv` adds
that a command above the fence in memory has not run in this life: the fence only rises
while the process runs, and it rises to a command before that command runs. `WholeInv`
adds that, while writes are whole, the fence on file covers every action that ran, because
it is written before the action; a restart that loads the file therefore cannot run it
again, and a later action has a later seq. That an applied patch is durable needs each list of acks
with a fence of its own (`DurInv`): what memory or a file acknowledges is `Backed` by the
configuration on file and is not above that fence, so the next patch to be applied, which is above it,
replaces older values only. That acks are true needs completeness beside truth (`TruthInv`): a
rejection is true because memory has an ack of every action that ran; that stays so over a restart
if the file it starts from was written, which is what `Steady` says. The attempt to prove it for
any fault but a torn write failed: a fence that could not be written at all, then a restart, has
a command rejected that ran. `AcksAreTrue` names the condition. `ReportInv` says what is
on the relay surface when a drain ends.

*The wallet.* Whether `RpcWallet` implements `PaymentWallet` turns on signatures. A send is signed
once, before its first attempt, so every attempt carries the same bytes (`OneSignature`); so
whichever attempts reach a node, the chain includes one transaction, and the promise's `moved` is a
cardinality of at most one. `Truthful` says what an outcome says of that transaction, `Fresh`
that nothing is signed before, and `Heard` that, as long as no answer was late or lost, only the
current attempt is under way and no node knows of a send that is given up: an error
without a signature then means unsent.

*Flows and keys.* `FlowInv` ties the stage of a flow to that of its send: what is done or in the
ledger is on the chain, what failed was never begun or has a plain error. `Accounted` says
that, as long as no issued key was lost or overtaken, a single answer carries the key
the gateway has, or none is under way and the file has it.

*Custody.* `CooldownIsTrue` is about pairs of trades, the engine holds one stamp. `CustodyInv`
says, for a strategy that awaits its trades, that at most one executes, that no stamp that
stands is ahead of the engine's (`StampsBehind`), and that the stamp a reversal would
restore is behind no other trade's and belongs to one (`Restorable`): so a failed trade gives
back exactly the cooldown it replaced. Its conjunct `WithinDailyCap` needs no such
condition: admission stays below the cap and a reversal only lowers the spend.

*Processes.* `LifeInv` ties the flags of a process to its awaits: a tick under way keeps
`busy` set, a stop under way has cleared `running`, so at most the tick whose commands were being
drained still begins. `FleetInv` says, as long as no command was begun during another, that
one terminal at most is not idle, and what its stage knows: the process of record is the only
live one, or there is none; the record names the cloud's agents, or the stage is one
in which the two are about to agree again. `HeartInv` adds what a heartbeat may say once a process
ended gracefully (its awaits are over, so nobody is left to write it), `SeqInv` that the
number a terminal is about to send is above every one in the queue.

*Requests.* The store is emptied of nonces by their expiry, and a copy is refused by its age. The
invariant `OwnerInv` says that the nonce of a request that passed the time check
is in the store until its window closes (`Guarded`): its entry expires at the stamp plus
`maxAgeMs`, and pruning drops only entries whose time has passed (`Kept`).

*The signer.* That a signed trade is justified needs the path of each piece of
evidence: a submission uses evidence that was made (`SubmittedIsMade`), was decided after it was
submitted, and passed the gate in the state it was decided in (`SignedIsVerified`); its
nonces are in the store of that life (`SignedIsSpent`), so no later decision of the life passes with
them. What the strategy was told is the verdict, or came with a 2xx
that was not the signer's (`ToldIsVerdict`).

*The oracle.* No price is stamped after it was quoted (`Dated`), so the age of a stamp bounds the age
of its price; and the longer memory is at most one request's timeout behind the best price
it was told (`KeptUp`), which bounds what an overtaken answer can cost.

*The vault.* `LandsAsAsked` rests on lemmas about layouts (`VaultIdl`): an offset is the number of the
bytes before a field, so fields follow each other (`OffsetStep`, `OffsetsInOrder`), and the fields two
layouts begin with are read as they were written (`PrefixAligned`, `DecodePrefix`, `DecodeOwn`).
The terminal's arguments and the program's are the same layouts; its view of the account is
the program's up to the field it skips, which the caps come before, the routes after. `VaultInv` then
follows a key through its life: a key that was made and has not landed yet is on no file, in no account
and in no command's memory, and is carried by one command or transaction (`KeysAreNew`); so the chain
never returns to a key it left, and has left a key before a rotation reports it replaced
(`RetiredIsGone`). `OneAtATime` holds while commands do not overlap: there is one activity at most, and
whatever is undecided belongs to it (`OneActivity`); a change that landed and is not written down
is what the chain has (`FileFollows`), so that recording it brings the file in line even after
an earlier change was lost; and without a file, unless a write was cut short, only a creation can be under way, which
leaves a vault empty (`NoFileNoFunds`). What a transaction does to the chain is one lemma (`Effects`).

Three of the proofs failed for a good reason first, and the models were corrected: the
refinement mapping of the wallet; the condition under which `AcksAreTrue` holds; and
the vault's rotation, which reports as replaced the key that was on file when it *began*
(`job.held`; `vault.js` reads `meta` once), not the one on file when it records, as the model had it:
with four overlapping commands that one may be live, which the three commands of the run do not reach.

Only model-checked: liveness (`CallsEnd`, `VerificationsEnd`, `DrainsEnd`, `FlowsEnd`,
`SignalledExits`), which the prover does not reach. Every invariant and action property of
the passing runs is a theorem.
Proved but not run, since the runs check a stronger or a sharper property:
`MarksAreAcceptances`, `OncePerLife`, `WithinDailyCap`, the type invariants, and the refinement
of the composed client.

## 5. Not modelled, and the plan

`PROJECT.json` lists every component and hazard. Left out for good: cryptography, packing and
byte codecs other than the vault's layout (pure, out of reach), HTTP pass-through clients
(inference, data, node, on-chain readers: one request per operation, no state), rendering,
adapters, generated code, and the Python client, a synchronous special case of what
`X402Client` checks.

Left out of modelled components: `circRawFromUsd` and `circReceived` (one expression each),
the parsing of 402 bodies (a set of challenges), the wallet's own custody executor, status,
logs and funding of agents, and what the vault program does beyond its typed interface.

Hazards no property covers, or covers in part, are on the list with the reason: a trade that
lands after its execution was reported as failed is out of the engine's sight; overlapping
trades, terminals and answers that came late do what the properties exempt. Not on it: a hook
that never settles (above), a negative amount in a 402 body, which passes every ceiling and
which the wallet then cannot encode, and the nonce store, which goes by `Date.now` even where a
caller injects a clock, as no caller in the repository does, and is empty after a restart.

Next: an abstract one-shot executor that `CommandInbox` implements, and one of a vault that is
only ever traded by the key its owner last put there.
