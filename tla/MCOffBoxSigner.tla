--------------------------- MODULE MCOffBoxSigner ---------------------------
(* The evidence and the off-box signer, for a rule like the one of           *)
(* docs/verified-intents.md.                                                 *)
EXTENDS OffBoxSigner, TLC

CONSTANTS a1, a2

AttemptSymmetry == Permutations(Attempts)

\* Another site's page with a low price, a quote of it damaged since it was signed, and an
\* AI verdict.
AllPieces == {"page", "damaged", "buy"}
KindOf ==
  [e \in AllPieces |-> CASE e = "buy" -> "inference-receipt"
                         [] e = "page" -> "zktls"
                         [] e = "damaged" -> "signed-quote"]
ClaimOf ==
  [e \in AllPieces |-> IF e = "buy" THEN [aiVerdict |-> 1]
                       ELSE [price |-> 1, mint |-> "t"]]
AuthenticPieces == AllPieces \ {"damaged"}

\* Buy 1 of the mint when its price is below 2 and the AI says so.
DipRule ==
  [id |-> "dip",
   when |-> {[input |-> "price", op |-> "<", value |-> 2],
             [input |-> "aiVerdict", op |-> "==", value |-> 1]},
   then |-> [kind |-> "buy", tokenInput |-> "mint", size |-> 1],
   requires |-> {"price", "aiVerdict"}]

Buy(token, size) ==
  [kind |-> "buy", token |-> token, size |-> size, amount |-> Unset, slippage |-> Unset]
Vi(intent, inputs, evidence) ==
  [rule |-> "dip", intent |-> intent, inputs |-> inputs, evidence |-> evidence]
Read == [price |-> 1, mint |-> "t", aiVerdict |-> 1]

\* Sound; with fields the rule does not set; with damaged evidence; of another size; with
\* another price, or no token, among its inputs; and with a page twice.
Submitted ==
  {Vi(Buy("t", 1), Read, <<"page", "buy">>),
   Vi([Buy("t", 1) EXCEPT !.amount = 9, !.slippage = 9], Read, <<"page", "buy">>),
   Vi(Buy("t", 1), Read, <<"buy", "damaged">>),
   Vi(Buy("t", 2), Read, <<"buy", "page">>),
   Vi(Buy("t", 1), [Read EXCEPT !.price = 0], <<"page", "buy">>),
   Vi(Buy(Missing, 1), [price |-> 1, aiVerdict |-> 1], <<"page", "buy">>),
   Vi(Buy("t", 1), Read, <<"page", "page", "buy">>)}
=============================================================================
