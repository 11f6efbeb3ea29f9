---------------------------- MODULE MCX402Client ----------------------------
(* Instances of X402Client for TLC, and a claim of its documentation.        *)
EXTENDS X402Client

CONSTANTS c1, c2, treasury, stranger

TwoCalls == {c1, c2}

TwoPayees == {treasury, stranger}
Pinned == {treasury}

\* Ceilings in raw units of each currency, small enough that a quote can be
\* above the per-call one, and two quotes together above the cumulative one.
Capped == [circ |-> 2, token |-> 1]
Budgeted == [circ |-> 3, token |-> 2]

\* client.ts 96: "Cumulative ceiling (raw CIRC base units) across ALL calls this
\* client makes".
BudgetAcrossAllCalls ==
  MaxTotal["circ"] # NoLimit => spent["circ"] <= MaxTotal["circ"]
=============================================================================
