----------------------------- MODULE MoneyFlows -----------------------------
(***************************************************************************)
(* The flows that move a person's money from the command line, over the    *)
(* wallet of RpcWallet and the models gateway: sendFlow and swapFlow       *)
(* (apps/cli/src/modules/wallet.js), buyFlow with the purchase it makes    *)
(* (modules/models.js, packages/models/src/models.ts buy), and keyFlow,    *)
(* which issues an API key and keeps it in a file.                         *)
(*                                                                         *)
(* The gateway is not in the repository: it credits a signature whose      *)
(* transaction succeeded, once, hands out a first key with the first       *)
(* credit, and each key it issues replaces the one before.  What stands    *)
(* between it and the client may answer 2xx in its place: the client takes *)
(* a body that is empty or no JSON for an answer without any field.        *)
(***************************************************************************)
EXTENDS RpcWallet

CONSTANTS
  Offered,    \* [Sends -> SUBSET Kinds]: what each flow may be about
  Rotations   \* the runs of keyFlow

\* A purchase is not a run of keyFlow.
ASSUME FlowAssumption ==
  /\ Offered \in [Sends -> SUBSET Kinds]
  /\ Sends \cap Rotations = {}

VARIABLES
  flow,      \* where each flow stands
  late,      \* the purchase's deadline has passed
  ledger,    \* gateway: the purchases it credited
  key,       \* gateway: the number of the valid key, 0 when there is none
  carries,   \* the key in an answer on its way to a flow or a rotation, 0 for none
  keyFile,   \* the key in models-key.json
  rotation,  \* where each run of keyFlow stands
  astray,    \* history: a key was lost, not saved, or issued while another was on its way
  blank      \* history: the purchases that ended on a 2xx which says nothing of the ledger

gateway == <<ledger, key, carries, keyFile, astray, blank>>
vars == <<walletVars, flow, late, rotation, gateway>>

FlowStages == {"idle", "quoting", "confirming", "building", "sending", "verifying",
               "answering", "sleeping", "done", "failed", "named", "back"}
RotationStages == {"idle", "reading", "confirming", "issuing", "answering", "done", "failed", "back"}
Over == {"done", "failed", "named", "back"}

TypeOK ==
  /\ WalletTypeOK
  /\ flow \in [Sends -> FlowStages]
  /\ late \in [Sends -> BOOLEAN]
  /\ ledger \subseteq Sends
  /\ key \in Nat
  /\ carries \in [Sends \cup Rotations -> Nat]
  /\ keyFile \in 0..key
  /\ rotation \in [Rotations -> RotationStages]
  /\ astray \in BOOLEAN
  /\ blank \subseteq Sends

Init ==
  /\ WalletInit
  /\ flow = [s \in Sends |-> "idle"]
  /\ late = [s \in Sends |-> FALSE]
  /\ ledger = {}
  /\ key = 0
  /\ carries = [x \in Sends \cup Rotations |-> 0]
  /\ keyFile = 0
  /\ rotation = [r \in Rotations |-> "idle"]
  /\ astray = FALSE
  /\ blank = {}

Goto(s, from, to) == flow[s] = from /\ flow' = [flow EXCEPT ![s] = to]
Turn(r, from, to) == rotation[r] = from /\ rotation' = [rotation EXCEPT ![r] = to]

-----------------------------------------------------------------------------
(* Asking the person.                                                      *)

\* swapFlow and buyFlow show a quote first; the swap asks for another one after
\* the confirmation, and the gateway builds the purchase at the price of its own.
Open(s, k) ==
  /\ Goto(s, "idle", IF k \in {"swap", "server"} THEN "quoting" ELSE "confirming")
  /\ kind' = [kind EXCEPT ![s] = k]
  /\ UNCHANGED <<at, conn, reaching, tx, outcome, funds, missed, late, rotation, gateway>>

QuoteShown(s) ==
  /\ Goto(s, "quoting", "confirming")
  /\ UNCHANGED <<walletVars, late, rotation, gateway>>

GoBack(s) ==
  /\ flow[s] \in {"quoting", "confirming"}
  /\ flow' = [flow EXCEPT ![s] = "back"]
  /\ UNCHANGED <<walletVars, late, rotation, gateway>>

ConfirmSend(s) ==
  /\ kind[s] # "server"
  /\ Goto(s, "confirming", "sending")
  /\ Prepare(s, kind[s])
  /\ UNCHANGED <<late, rotation, gateway>>

ConfirmBuy(s) ==
  /\ kind[s] = "server"
  /\ Goto(s, "confirming", "building")
  /\ UNCHANGED <<walletVars, late, rotation, gateway>>

BuildFails(s) ==
  /\ Goto(s, "building", "failed")
  /\ UNCHANGED <<walletVars, late, rotation, gateway>>

\* The gateway names the payee the wallet then insists on.
Built(s) ==
  /\ Goto(s, "building", "sending")
  /\ \E instructions \in ServerBuilt, payee \in Payees : Countersign(s, instructions, payee)
  /\ UNCHANGED <<late, rotation, gateway>>

-----------------------------------------------------------------------------
(* After the send.                                                         *)

\* Mutant of AfterSend: an unconfirmed payment is a failed one.
AfterSendGivingUp(s) ==
  IF outcome[s] # "resolved" THEN "failed"
  ELSE IF kind[s] = "server" THEN "verifying" ELSE "done"

\* A purchase goes on with the signature, whether the wallet returned it or its
\* error carries it; any other error is thrown on.
AfterSend(s) ==
  IF outcome[s] \notin {"resolved", "unconfirmed"} THEN "failed"
  ELSE IF kind[s] = "server" THEN "verifying" ELSE "done"

SendEnds(s) ==
  /\ at[s] = "ended"
  /\ Goto(s, "sending", AfterSend(s))
  /\ UNCHANGED <<walletVars, late, rotation, gateway>>

\* The gateway is asked, and finds the payment on the chain.
Credits(s) ==
  /\ Stood(s, {"landed"})
  /\ Goto(s, "verifying", "answering")
  /\ ledger' = ledger \cup {s}
  /\ IF key = 0 /\ s \notin ledger
     THEN key' = 1 /\ carries' = [carries EXCEPT ![s] = 1]
     ELSE UNCHANGED <<key, carries>>
  /\ UNCHANGED <<walletVars, late, rotation, keyFile, astray, blank>>

\* Mutant of Credited: the first key is shown and not saved.
CreditedShowing(s) ==
  /\ Goto(s, "answering", "done")
  /\ carries' = [carries EXCEPT ![s] = 0]
  /\ UNCHANGED <<walletVars, late, rotation, ledger, key, keyFile, astray, blank>>

\* buy() returns; buyFlow saves a first key.
Credited(s) ==
  /\ Goto(s, "answering", "done")
  /\ carries' = [carries EXCEPT ![s] = 0]
  /\ keyFile' = IF carries[s] # 0 THEN carries[s] ELSE keyFile
  /\ UNCHANGED <<walletVars, late, rotation, ledger, key, astray, blank>>

\* The purchase is credited and printed, but the file with its first key cannot be written
\* whole: the flow ends on that error.
SaveFails(s) ==
  /\ carries[s] # 0
  /\ Goto(s, "answering", "named")
  /\ carries' = [carries EXCEPT ![s] = 0]
  /\ keyFile' \in {keyFile, 0}
  /\ astray' = TRUE
  /\ UNCHANGED <<walletVars, late, rotation, ledger, key, blank>>

\* Any 2xx without "pending" ends the polling, whatever else its body says: the flow
\* reports the purchase as credited, and finds no key to save.
AnsweredBlank(s) ==
  /\ flow[s] \in {"verifying", "answering"}
  /\ flow' = [flow EXCEPT ![s] = "done"]
  /\ blank' = blank \cup {s}
  /\ astray' = (astray \/ carries[s] # 0)
  /\ carries' = [carries EXCEPT ![s] = 0]
  /\ UNCHANGED <<walletVars, late, rotation, ledger, key, keyFile>>

\* Mutant of TryAgain: the deadline is never looked at.
TryAgainAlways(s) ==
  /\ flow[s] \in {"verifying", "answering"}
  /\ flow' = [flow EXCEPT ![s] = "sleeping"]
  /\ astray' = (astray \/ carries[s] # 0)
  /\ carries' = [carries EXCEPT ![s] = 0]
  /\ UNCHANGED <<walletVars, late, rotation, ledger, key, keyFile, blank>>

\* The gateway does not see the payment yet, it fails, or its answer is lost: buy() polls on
\* until its deadline, and then throws an error that carries the signature.
TryAgain(s) ==
  /\ flow[s] \in {"verifying", "answering"}
  /\ flow' = [flow EXCEPT ![s] = IF late[s] THEN "named" ELSE "sleeping"]
  /\ astray' = (astray \/ carries[s] # 0)
  /\ carries' = [carries EXCEPT ![s] = 0]
  /\ UNCHANGED <<walletVars, late, rotation, ledger, key, keyFile, blank>>

Wake(s) ==
  /\ Goto(s, "sleeping", "verifying")
  /\ UNCHANGED <<walletVars, late, rotation, gateway>>

DeadlinePasses(s) ==
  /\ flow[s] \in {"verifying", "answering", "sleeping"}
  /\ late' = [late EXCEPT ![s] = TRUE]
  /\ UNCHANGED <<walletVars, flow, rotation, gateway>>

-----------------------------------------------------------------------------
(* keyFlow.                                                                *)

AskForKey(r) ==
  /\ Turn(r, "idle", "reading")
  /\ UNCHANGED <<walletVars, flow, late, gateway>>

\* An account that cannot be read counts as one without a key.
ReadAccount(r) ==
  /\ \/ key # 0 /\ Turn(r, "reading", "confirming")
     \/ Turn(r, "reading", "issuing")
  /\ UNCHANGED <<walletVars, flow, late, gateway>>

Answer(r) ==
  /\ Turn(r, "confirming", "issuing") \/ Turn(r, "confirming", "back")
  /\ UNCHANGED <<walletVars, flow, late, gateway>>

\* The gateway issues a key, which ends the one before.
Issue(r) ==
  /\ Turn(r, "issuing", "answering")
  /\ key' = key + 1
  /\ carries' = [carries EXCEPT ![r] = key + 1]
  /\ astray' = (astray \/ \E x \in DOMAIN carries : carries[x] # 0)
  /\ UNCHANGED <<walletVars, flow, late, ledger, keyFile, blank>>

IssueFails(r) ==
  /\ Turn(r, "issuing", "failed")
  /\ UNCHANGED <<walletVars, flow, late, gateway>>

\* The key arrives and is saved, unless --no-save was given.
KeepKey(r) ==
  /\ Turn(r, "answering", "done")
  /\ keyFile' = carries[r]
  /\ carries' = [carries EXCEPT ![r] = 0]
  /\ UNCHANGED <<walletVars, flow, late, ledger, key, astray, blank>>

\* The answer is lost, the key is not saved, or the file cannot be written whole; a 2xx
\* that names no key is saved as well, over the key on file.
LoseKey(r) ==
  /\ \/ Turn(r, "answering", "done") \/ Turn(r, "answering", "failed")
     \/ Turn(r, "issuing", "done")
  /\ carries' = [carries EXCEPT ![r] = 0]
  /\ keyFile' \in {keyFile, 0}
  /\ astray' = TRUE
  /\ UNCHANGED <<walletVars, flow, late, ledger, key, blank>>

-----------------------------------------------------------------------------
\* What a flow does when the answer it awaits arrives or its timer fires.  A person's
\* answers are no part of it.
Continue(s) ==
  \/ QuoteShown(s) \/ BuildFails(s) \/ Built(s)
  \/ Proceed(s) /\ UNCHANGED <<flow, late, rotation, gateway>>
  \/ SendEnds(s) \/ Credits(s) \/ Credited(s) \/ SaveFails(s) \/ AnsweredBlank(s)
  \/ TryAgain(s) \/ Wake(s)

Rotate(r) ==
  \/ AskForKey(r) \/ ReadAccount(r) \/ Answer(r)
  \/ Issue(r) \/ IssueFails(r) \/ KeepKey(r) \/ LoseKey(r)

Next ==
  \/ \E s \in Sends :
       \/ \E k \in Offered[s] : Open(s, k)
       \/ GoBack(s) \/ ConfirmSend(s) \/ ConfirmBuy(s)
       \/ Continue(s)
       \/ DeadlinePasses(s)
       \/ Environment(s) /\ UNCHANGED <<flow, late, rotation, gateway>>
  \/ \E r \in Rotations : Rotate(r)

FlowSpec == Init /\ [][Next]_vars

\* Requests to the gateway carry a timeout of 30 s (models.ts req), those of the wallet a per-try
\* timeout, the rest are timers.
FairSpec ==
  /\ FlowSpec
  /\ \A s \in Sends : WF_vars(Continue(s)) /\ WF_vars(DeadlinePasses(s))

-----------------------------------------------------------------------------
(* Properties.                                                             *)

\* Money that left for a purchase can be traced: a purchase reported as credited on an
\* answer that names the ledger is in the ledger and on the chain, once, and one that
\* failed without naming its signature took no money, unless an answer about the
\* broadcast was late or lost (models.ts 237-266).
PurchaseIsTraceable ==
  \A s \in Sends : kind[s] = "server" =>
    /\ flow[s] = "done" /\ s \notin blank => s \in ledger /\ Landings(s) = 1
    /\ Stood(s, {"known", "landed"}) /\ flow[s] = "failed" => missed[s]

\* When nothing is under way the key on file is the one the gateway accepts, however
\* purchases and rotations were interleaved, as long as every key that was issued
\* arrived and was kept before the next was issued, and an answer without one was
\* never kept in its place (models.js 158-162, 187-204).
KeyOnFileWorks ==
  ~astray /\ (\A x \in DOMAIN carries : carries[x] = 0) => keyFile = key

\* A confirmed flow ends: with a result, an error, or an error that names the signature.
FlowsEnd == \A s \in Sends : flow[s] \in {"building", "sending"} ~> flow[s] \in Over
=============================================================================
