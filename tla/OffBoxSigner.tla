---------------------------- MODULE OffBoxSigner ----------------------------
(* Verified intents: the agent's SignerCustody (packages/agent/custody.ts)   *)
(* asks the off-box signer to trade, with the evidence and the rule that     *)
(* justify it; the signer runs the decision gate (packages/attest) and, if   *)
(* it passes, signs and submits the intent it was sent.  An answer may be    *)
(* lost, come after the custody's timeout or be some other server's; a       *)
(* request may be decided after its sender gave up; and the signer may       *)
(* restart with an empty replay store.  What the signer does around the gate *)
(* is external, its replay store included.  The codes evidence-untrusted-key *)
(* and -notary are one here, and those of a proof that fails or is not       *)
(* checked are evidence-invalid.                                             *)
EXTENDS Clock, Sequences, FiniteSetsExt

CONSTANTS
  Pieces,           \* the pieces of evidence; a piece stands for its nonce
  Kind,             \* piece -> "signed-quote", "inference-receipt" or "zktls"
  Claim,            \* piece -> the inputs it speaks of and their values
  Authentic,        \* the pieces whose signature verifies, or whose proof does if one is asked for
  Accepted,         \* the pieces whose key, or notary, is accepted for their kind
  Rule,             \* the committed rule: [id, when, then, requires]
  Unset,            \* of a field an intent does not have
  Missing,          \* what evaluateRule makes of an input that is absent: "undefined", NaN
  Submissions,      \* bound: the verified intents an agent submits
  Bare,             \* an intent submitted without evidence
  NoSubmission,     \* of an attempt not made yet
  Attempts,         \* bound: the submissions made
  EvidenceMaxAge,   \* maxAgeMs
  Ahead,            \* bound: how far a producer's clock is ahead of the signer's
  MaxLives          \* bound: the signer's lives

ASSUME SignerAssumption ==
  /\ \A vi \in Submissions : vi.evidence \in Seq(Pieces)
  /\ Bare \notin Submissions /\ NoSubmission \notin Submissions \cup {Bare}
  /\ EvidenceMaxAge \in Nat /\ Ahead \in Nat /\ MaxLives \in Nat \ {0}

VARIABLES
  madeAt,           \* piece -> when it was signed by its producer, or NotMade
  dated,            \* piece -> the ts it carries
  seen,             \* the signer's MemoryReplayStore
  life,             \* the signer's life
  submitted,        \* attempt -> what it submitted, or Nothing yet
  verdict,          \* attempt -> the signer's decision: "none" until it is taken
  signed,           \* attempt -> when and in which life it was signed (ghost)
  told,             \* attempt -> what the strategy learned: "none" until it did; "verified"
                    \* is any ok: true
  blank             \* the attempts whose 2xx answer was not the signer's (history)

signerVars == <<madeAt, dated, seen, life, submitted, verdict, signed, told, blank>>

NotMade == -1
NotSigned == [at |-> -1, life |-> 0]

GateCodes == {"unknown-rule", "evidence-untrusted", "evidence-invalid", "evidence-stale",
              "evidence-replay", "input-mismatch", "decision-unjustified"}
Verdicts == GateCodes \cup {"verified", "refused"}

SignerTypeOK ==
  /\ madeAt \in [Pieces -> Times \cup {NotMade}]
  /\ dated \in [Pieces -> Int]
  /\ seen \subseteq Pieces /\ life \in 1..MaxLives
  /\ submitted \in [Attempts -> Submissions \cup {Bare, NoSubmission}]
  /\ verdict \in [Attempts -> Verdicts \cup {"none"}]
  /\ signed \in [Attempts -> [at : Times \cup {-1}, life : 0..MaxLives]]
  /\ told \in [Attempts -> Verdicts \cup {"none", "http", "signer-unreachable"}]
  /\ blank \subseteq Attempts

SignerInit ==
  /\ madeAt = [e \in Pieces |-> NotMade]
  /\ dated = [e \in Pieces |-> 0]
  /\ seen = {} /\ life = 1
  /\ submitted = [a \in Attempts |-> NoSubmission]
  /\ verdict = [a \in Attempts |-> "none"]
  /\ signed = [a \in Attempts |-> NotSigned]
  /\ told = [a \in Attempts |-> "none"]
  /\ blank = {}

-----------------------------------------------------------------------------
(* The gate: rule.ts, evidence.ts, gate.ts.                                *)

Compare(a, op, b) ==
  CASE op = "==" -> a = b
    [] op = "!=" -> a # b
    [] op = "<" -> a < b
    [] op = "<=" -> a <= b
    [] op = ">" -> a > b
    [] op = ">=" -> a >= b

\* cmp: an input that is absent only satisfies !=.  ALL conditions must hold.
Holds(c, inputs) ==
  IF c.input \in DOMAIN inputs THEN Compare(inputs[c.input], c.op, c.value) ELSE c.op = "!="
Fires(rule, inputs) == \A c \in rule.when : Holds(c, inputs)

\* evaluateRule of a rule that fires.  A field is the rule's literal or the input it names
\* (of the field's own type); the rule sets no other field of the intent.
FieldOf(then, literal, name, inputs) ==
  IF literal \in DOMAIN then THEN then[literal]
  ELSE IF name \notin DOMAIN then THEN Unset
  ELSE IF then[name] \in DOMAIN inputs THEN inputs[then[name]] ELSE Missing
EvaluateRule(rule, inputs) ==
  [kind |-> rule.then.kind,
   token |-> FieldOf(rule.then, "token", "tokenInput", inputs),
   size |-> FieldOf(rule.then, "size", "sizeInput", inputs),
   amount |-> Unset, slippage |-> Unset]

\* sameIntent: of the five fields three are compared (NaN is equal to nothing).
SameIntent(a, b) ==
  a.kind = b.kind /\ a.token = b.token /\ a.size = b.size /\ a.size # Missing

Justifies(rule, inputs, intent) ==
  Fires(rule, inputs) /\ SameIntent(EvaluateRule(rule, inputs), intent)

\* evidenceBacks: a receipt backs the reserved aiVerdict only.
Backs(e, input, value) ==
  /\ input \in DOMAIN Claim[e] /\ Claim[e][input] = value
  /\ Kind[e] = "inference-receipt" => input = "aiVerdict"

\* verifyEvidence, with the nonces already seen.
PieceCode(e, used) ==
  CASE e \notin Accepted -> "evidence-untrusted"
    [] e \in Accepted /\ e \notin Authentic -> "evidence-invalid"
    [] e \in Accepted \cap Authentic /\ clock - dated[e] > EvidenceMaxAge -> "evidence-stale"
    [] e \in Accepted \cap Authentic /\ clock - dated[e] <= EvidenceMaxAge ->
         IF e \in used THEN "evidence-replay" ELSE "ok"

\* The pieces are checked in order, each spending its nonce when it passes, up to the
\* first that fails.  Mutant: the replay store lives as long as one request.
Before(s, i) == {s[j] : j \in 1..(i - 1)}
CodePerRequest(s, i) == PieceCode(s[i], Before(s, i))
Code(s, i) == PieceCode(s[i], seen \cup Before(s, i))
Failing(s) == {i \in DOMAIN s : Code(s, i) # "ok"}
SpentBy(vi) ==
  LET s == vi.evidence
      Passes(i) == \A j \in Failing(s) : i < j
  IN IF vi.rule # Rule.id THEN {} ELSE {s[i] : i \in {k \in DOMAIN s : Passes(k)}}

\* decisionGate.  Mutant: the inputs are not bound to the evidence.
BoundByName(vi) ==
  \A input \in Rule.requires :
    \E i \in DOMAIN vi.evidence : input \in DOMAIN Claim[vi.evidence[i]]
Bound(vi) ==
  \A input \in Rule.requires :
    /\ input \in DOMAIN vi.inputs
    /\ \E i \in DOMAIN vi.evidence : Backs(vi.evidence[i], input, vi.inputs[input])
Gate(vi) ==
  LET s == vi.evidence IN
    IF vi.rule # Rule.id THEN "unknown-rule"
    ELSE IF Failing(s) # {} THEN Code(s, Min(Failing(s)))
    ELSE IF ~Bound(vi) THEN "input-mismatch"
    ELSE IF ~Justifies(Rule, vi.inputs, vi.intent) THEN "decision-unjustified"
    ELSE "verified"

-----------------------------------------------------------------------------
(* Steps.                                                                  *)

SignerTick == Tick /\ UNCHANGED signerVars

\* signQuote, signInferenceReceipt: a producer signs a piece once.
Produce(e) ==
  /\ madeAt[e] = NotMade
  /\ madeAt' = [madeAt EXCEPT ![e] = clock]
  /\ \E d \in 0..Ahead : dated' = [dated EXCEPT ![e] = clock + d]
  /\ UNCHANGED <<clock, seen, life, submitted, verdict, signed, told, blank>>

\* verifiedIntent and intent: the POST.  A submission already made may be made again.
Made(vi) == \A i \in DOMAIN vi.evidence : madeAt[vi.evidence[i]] # NotMade
Submit(a, vi) ==
  /\ submitted[a] = NoSubmission
  /\ vi # Bare => Made(vi)
  /\ submitted' = [submitted EXCEPT ![a] = vi]
  /\ UNCHANGED <<clock, madeAt, dated, seen, life, verdict, signed, told, blank>>

\* The signer takes up a request, whether or not its sender still waits.
Reached(a) == submitted[a] # NoSubmission /\ verdict[a] = "none"
Conclude(a, code) ==
  /\ verdict' = [verdict EXCEPT ![a] = code]
  /\ signed' = IF code = "verified" THEN [signed EXCEPT ![a] = [at |-> clock, life |-> life]]
               ELSE signed

DecideVerified(a) ==
  /\ Reached(a) /\ submitted[a] # Bare
  /\ Conclude(a, Gate(submitted[a]))
  /\ seen' = seen \cup SpentBy(submitted[a])
  /\ UNCHANGED <<clock, madeAt, dated, life, submitted, told, blank>>

\* An intent without evidence is the signer's own policy to judge (external).
DecideBare(a) ==
  /\ Reached(a) /\ submitted[a] = Bare
  /\ \E code \in {"verified", "refused"} : Conclude(a, code)
  /\ UNCHANGED <<clock, madeAt, dated, seen, life, submitted, told, blank>>

RestartSigner ==
  /\ life < MaxLives
  /\ life' = life + 1
  /\ seen' = {}
  /\ UNCHANGED <<clock, madeAt, dated, submitted, verdict, signed, told, blank>>

\* What the strategy learns: the decision; a status, or a code, some server on the way
\* answered with; nothing before the timeout; or ok, of any other 2xx -- a page, an empty
\* or cut-off body, a refusal sent with it -- whatever was or will be decided.
Asking(a) == submitted[a] # NoSubmission /\ told[a] = "none"
Learn(a, code, blanks) ==
  /\ told' = [told EXCEPT ![a] = code]
  /\ blank' = blank \cup blanks
  /\ UNCHANGED <<clock, madeAt, dated, seen, life, submitted, verdict, signed>>
HearVerdict(a) == Asking(a) /\ verdict[a] # "none" /\ Learn(a, verdict[a], {})
HearStatus(a) == Asking(a) /\ Learn(a, "http", {})
HearBlank(a) == Asking(a) /\ Learn(a, "verified", {a})
Unheard == "signer-unreachable"
HearNothing(a) == Asking(a) /\ Learn(a, Unheard, {})

SignerNext ==
  \/ SignerTick
  \/ RestartSigner
  \/ \E e \in Pieces : Produce(e)
  \/ \E a \in Attempts :
       \/ \E vi \in Submissions \cup {Bare} : Submit(a, vi)
       \/ DecideVerified(a) \/ DecideBare(a)
       \/ HearVerdict(a) \/ HearStatus(a) \/ HearBlank(a) \/ HearNothing(a)

SignerSpec == clock = 0 /\ SignerInit /\ [][SignerNext]_<<clock, signerVars>>

-----------------------------------------------------------------------------
(* Properties.                                                             *)

Signed(a) == signed[a] # NotSigned
Grounds(a, input) ==
  {e \in Pieces \cap Accepted \cap Authentic :
     /\ input \in DOMAIN submitted[a].inputs /\ Backs(e, input, submitted[a].inputs[input])
     /\ \E i \in DOMAIN submitted[a].evidence : submitted[a].evidence[i] = e
     /\ madeAt[e] # NotMade /\ signed[a].at - madeAt[e] <= EvidenceMaxAge + Ahead}

\* Whatever an agent submits, and however late it is decided, a trade signed on evidence
\* has the kind, token and size that the committed rule makes of its inputs, and trusted
\* producers vouched for every input the rule requires, all of them within the
\* evidence's age (gate.ts 35-41).  Of the amount and the slippage it says nothing.
SignedIsJustified ==
  \A a \in Attempts : Signed(a) /\ submitted[a] # Bare =>
    /\ Justifies(Rule, submitted[a].inputs, submitted[a].intent)
    /\ \A input \in Rule.requires : Grounds(a, input) # {}

\* The claim of docs/verified-intents.md 8-10 and 167: the rule produces exactly the trade
\* that is signed.  The code compares three of its fields and signs all five (rule.ts
\* 77-80, custody.ts 112).
ExactlyThatTrade ==
  \A a \in Attempts : Signed(a) /\ submitted[a] # Bare =>
    submitted[a].intent = EvaluateRule(Rule, submitted[a].inputs)

\* A verified intent that is submitted again, because its answer was lost or late, does
\* not trade a second time in one life of the signer: no piece of evidence justifies
\* two trades, in whatever order the requests are decided (custody.ts 122-124,
\* evidence.ts 118-152).
SharesEvidence(a, b) ==
  \E i \in DOMAIN submitted[a].evidence, j \in DOMAIN submitted[b].evidence :
    submitted[a].evidence[i] = submitted[b].evidence[j]
EvidenceSpentOnce ==
  \A a, b \in Attempts :
    /\ a # b /\ Signed(a) /\ Signed(b) /\ signed[a].life = signed[b].life
    /\ submitted[a] # Bare /\ submitted[b] # Bare
    => ~SharesEvidence(a, b)

\* What the strategy is told of a trade: `ok' of one that was not signed comes only from a
\* 2xx that is not the signer's, and one refused with the signer's reason never is
\* signed; a status and `signer-unreachable' leave it open (custody.ts 119-124).
AnswersAreTrue ==
  \A a \in Attempts :
    /\ told[a] = "verified" => Signed(a) \/ a \in blank
    /\ told[a] \in GateCodes \cup {"refused"} => ~Signed(a)

\* So a strategy that repeats what it has no decision on trades once on its evidence, and
\* what the signer told it stays true, whatever else answered.
TradesOnceAsTold == EvidenceSpentOnce /\ AnswersAreTrue
=============================================================================
