---------------------------- MODULE VaultProgram ----------------------------
(***************************************************************************)
(* The vault account on chain.  Its program is deployed from another       *)
(* repository; what is modelled is the interface this one is typed         *)
(* against (packages/vault/src/idl/circuit_agent_vault.ts): who may run    *)
(* each instruction, what it takes, what it changes and what it refuses.   *)
(*                                                                         *)
(* A transaction either takes full effect or none (Runs).                  *)
(***************************************************************************)
EXTENDS VaultIdl

CONSTANTS
  MaxKeys,    \* bound on the delegate keys ever made
  MaxCash     \* bound on a balance

ASSUME ChainAssumption == MaxKeys \in Nat /\ MaxCash \in Nat

VARIABLES
  vault,   \* the vault account, or NoVault
  cash     \* the balances of the vault's wSOL account and of one token account

chainVars == <<vault, cash>>

OwnerKey == MaxKeys + 1
Filled == MaxKeys + 2   \* what a field that nothing here reads holds
Caps == 1..2            \* the per-trade and the daily cap move together
NoVault == [exists |-> FALSE]

Vaults ==
  [exists : {TRUE}, delegate : 1..MaxKeys, caps : Caps, paused : 0..1,
   route : 0..1, op : 0..1, slippage : 0..1, sol : 0..MaxCash]

ChainTypeOK ==
  /\ vault \in Vaults \cup {NoVault}
  /\ cash \in [{"wsol", "token"} -> 0..MaxCash]

ChainInit ==
  /\ vault = NoVault
  /\ cash = [wsol |-> 0, token |-> 0]

\* What the account's fields hold.
Contents(v) ==
  [owner |-> OwnerKey, delegate |-> v.delegate, agentSeed |-> Filled,
   maxTrade |-> v.caps, dailyLimit |-> v.caps, dayStart |-> Filled, daySpent |-> 0, lastTrade |-> 0,
   epoch |-> Filled, paused |-> v.paused,
   oracle |-> v.op, ruleFeed |-> v.op, ruleOp |-> v.op, ruleThreshold |-> v.op, ruleMaxAge |-> v.op,
   ruleInMint |-> v.op, ruleOutMint |-> v.op, maxSlippageBps |-> v.slippage,
   route1 |-> v.route, route2 |-> 0, route3 |-> 0, route4 |-> 0, bump |-> Filled]

\* The account constraint of an instruction: the vault exists, and the signer is the account
\* the vault names where the instruction says so.
Authorised(ix, signer) ==
  /\ vault.exists
  /\ ix.related => signer = IF ix.signer = "owner" THEN OwnerKey ELSE vault.delegate

InitVault(signer, arg) ==
  /\ ~vault.exists
  /\ signer = OwnerKey
  /\ vault' = [exists |-> TRUE, delegate |-> arg.delegate, caps |-> arg.maxTrade, paused |-> 0,
               route |-> 0, op |-> 0, slippage |-> 0, sol |-> 0]
  /\ UNCHANGED cash

Deposit(signer, arg) ==
  /\ Authorised(DepositIx, signer)
  /\ vault.sol + arg.amount <= MaxCash
  /\ vault' = [vault EXCEPT !.sol = @ + arg.amount]
  /\ UNCHANGED cash

Withdraw(signer, arg) ==
  /\ Authorised(WithdrawIx, signer)
  /\ arg.amount <= vault.sol
  /\ vault' = [vault EXCEPT !.sol = @ - arg.amount]
  /\ UNCHANGED cash

SetDelegate(signer, arg) ==
  /\ Authorised(SetDelegateIx, signer)
  /\ vault' = [vault EXCEPT !.delegate = arg.newDelegate]
  /\ UNCHANGED cash

UpdateConfig(signer, arg) ==
  /\ Authorised(UpdateConfigIx, signer)
  /\ vault' = [vault EXCEPT !.caps = arg.maxTrade, !.paused = arg.paused]
  /\ UNCHANGED cash

SetRoutes(signer, arg) ==
  /\ Authorised(SetRoutesIx, signer)
  /\ vault' = [vault EXCEPT !.route = arg.length]
  /\ UNCHANGED cash

SetRule(signer, arg) ==
  /\ Authorised(SetRuleIx, signer)
  /\ vault' = [vault EXCEPT !.op = arg.op, !.slippage = arg.maxSlippageBps]
  /\ UNCHANGED cash

\* The account is gone; the token accounts its address owns are not.
CloseVault(signer) ==
  /\ Authorised(CloseVaultIx, signer)
  /\ vault' = NoVault
  /\ UNCHANGED cash

\* The actor pays.
WrapSol(signer, arg) ==
  /\ Authorised(WrapSolIx, signer)
  /\ signer \in {OwnerKey, vault.delegate}
  /\ cash.wsol + arg.amount <= MaxCash
  /\ cash' = [cash EXCEPT !.wsol = @ + arg.amount]
  /\ UNCHANGED vault

UnwrapSol(signer) ==
  /\ Authorised(UnwrapSolIx, signer)
  /\ signer = OwnerKey
  /\ vault.sol + cash.wsol <= MaxCash
  /\ vault' = [vault EXCEPT !.sol = @ + cash.wsol]
  /\ cash' = [cash EXCEPT !.wsol = 0]

\* The guarded swap: from one of the vault's token accounts to the other.  The route decides
\* what is spent and received, the program what it lets pass.
Trade(signer, arg) ==
  /\ Authorised(TradeIx, signer)
  /\ vault.paused = 0
  /\ arg.amountIn \in 1..vault.caps
  /\ arg.minOut > 0
  /\ vault.route = 0 \/ arg.swapData = vault.route
  /\ vault.op = 0 \/ arg.attested
  /\ \E spent \in 1..arg.amountIn, received \in arg.minOut..MaxCash :
       /\ spent <= cash[arg.from]
       /\ cash[arg.to] + received <= MaxCash
       /\ cash' = [cash EXCEPT ![arg.from] = @ - spent, ![arg.to] = @ + received]
  /\ UNCHANGED vault
=============================================================================
