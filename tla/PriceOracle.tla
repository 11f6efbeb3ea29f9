---------------------------- MODULE PriceOracle ----------------------------
(* The CIRC/USD price of @circuit-llm/x402 (quote.ts, CircPriceOracle): a    *)
(* short cache and a longer last-known-good price, both stamped with the     *)
(* moment the price was ASKED for.  get() awaits its request, so calls       *)
(* overlap and their answers arrive in any order.  A price is known here by  *)
(* the instant at which the market quoted it.                                *)
EXTENDS Clock

CONSTANTS
  Gets,             \* bound: the calls of get()
  CacheTtl,         \* cacheTtlMs
  LastKnownTtl,     \* lastKnownTtlMs
  FetchTimeout,     \* AbortSignal.timeout of the request
  NoPrice           \* null

ASSUME TtlAssumption ==
  /\ CacheTtl \in Nat /\ LastKnownTtl \in Nat /\ FetchTimeout \in Nat
  /\ CacheTtl <= LastKnownTtl
  /\ FetchTimeout < LastKnownTtl
ASSUME NoPriceAssumption == NoPrice \notin Int

VARIABLES
  cached,           \* cached and cachedAt
  lastKnown,        \* lastKnown and lastKnownAt
  asking,           \* get() -> "idle", "fetching", "done"
  asked,            \* get() -> its t
  quoted,           \* get() -> the price Jupiter answers with, once it has read it
  given,            \* get() -> what it resolved to, and when
  bestAsked         \* the latest t of the calls that obtained a price (ghost)

oracleVars == <<cached, lastKnown, asking, asked, quoted, given, bestAsked>>

Prices == Times \cup {NoPrice}
Nothing == [price |-> NoPrice, at |-> 0]

PriceTypeOK ==
  /\ cached \in [price : Prices, at : Times]
  /\ lastKnown \in [price : Prices, at : Times]
  /\ asking \in [Gets -> {"idle", "fetching", "done"}]
  /\ asked \in [Gets -> Times]
  /\ quoted \in [Gets -> Prices]
  /\ given \in [Gets -> [price : Prices, at : Times]]
  /\ bestAsked \in Prices

OracleInit ==
  /\ cached = Nothing /\ lastKnown = Nothing
  /\ asking = [g \in Gets |-> "idle"]
  /\ asked = [g \in Gets |-> 0]
  /\ quoted = [g \in Gets |-> NoPrice]
  /\ given = [g \in Gets |-> Nothing]
  /\ bestAsked = NoPrice

\* A request still runs only until its timeout: no instant passes over one.
OracleTick ==
  /\ \A g \in Gets : asking[g] = "fetching" => clock < asked[g] + FetchTimeout
  /\ Tick
  /\ UNCHANGED oracleVars

Held(p, ttl) == p.price # NoPrice /\ clock - p.at < ttl
Resolve(g, price) ==
  /\ asking' = [asking EXCEPT ![g] = "done"]
  /\ given' = [given EXCEPT ![g] = [price |-> price, at |-> clock]]

\* get() up to its first await.
GetCached(g) ==
  /\ asking[g] = "idle"
  /\ Held(cached, CacheTtl)
  /\ Resolve(g, cached.price)
  /\ asked' = [asked EXCEPT ![g] = clock]
  /\ UNCHANGED <<clock, cached, lastKnown, quoted, bestAsked>>

GetFetches(g) ==
  /\ asking[g] = "idle"
  /\ ~Held(cached, CacheTtl)
  /\ asking' = [asking EXCEPT ![g] = "fetching"]
  /\ asked' = [asked EXCEPT ![g] = clock]
  /\ UNCHANGED <<clock, cached, lastKnown, quoted, given, bestAsked>>

\* Jupiter reads its price (external).
Quote(g) ==
  /\ asking[g] = "fetching" /\ quoted[g] = NoPrice
  /\ quoted' = [quoted EXCEPT ![g] = clock]
  /\ UNCHANGED <<clock, cached, lastKnown, asking, asked, given, bestAsked>>

\* The stamp of a price is the t of the call, not the moment of the answer (which is
\* the mutant's).
StampOnArrival(g) == clock
StampOf(g) == asked[g]

\* Mutant: the longer memory keeps its first price.
RememberFirst(g) ==
  /\ cached' = [price |-> quoted[g], at |-> StampOf(g)]
  /\ lastKnown' = IF lastKnown = Nothing THEN [price |-> quoted[g], at |-> StampOf(g)]
                  ELSE lastKnown

\* A price arrives: it fills both memories, whatever they hold.
Remember(g) ==
  /\ cached' = [price |-> quoted[g], at |-> StampOf(g)]
  /\ lastKnown' = [price |-> quoted[g], at |-> StampOf(g)]
LaterOf(b, t) == IF b = NoPrice \/ b < t THEN t ELSE b
PriceArrives(g) ==
  /\ asking[g] = "fetching" /\ quoted[g] # NoPrice
  /\ Remember(g)
  /\ Resolve(g, quoted[g])
  /\ bestAsked' = LaterOf(bestAsked, asked[g])
  /\ UNCHANGED <<clock, asked, quoted>>

\* No price: the request fails or times out, the status is not ok, or the answer has
\* no usable price.  The last known one serves while it is fresh.
PriceFails(g) ==
  /\ asking[g] = "fetching"
  /\ Resolve(g, IF Held(lastKnown, LastKnownTtl) THEN lastKnown.price ELSE NoPrice)
  /\ UNCHANGED <<clock, cached, lastKnown, asked, quoted, bestAsked>>

OracleNext ==
  \/ OracleTick
  \/ \E g \in Gets : GetCached(g) \/ GetFetches(g) \/ Quote(g) \/ PriceArrives(g) \/ PriceFails(g)

OracleSpec == clock = 0 /\ OracleInit /\ [][OracleNext]_<<clock, oracleVars>>

-----------------------------------------------------------------------------
(* Properties.                                                             *)

\* A price that get() gives was the market's less than lastKnownTtlMs before, although
\* answers arrive out of order and an older one replaces a newer one (quote.ts 131-153).
PriceIsRecent ==
  \A g \in Gets : given[g].price # NoPrice => given[g].at - given[g].price < LastKnownTtl

\* get() gives null, and the built-in price is charged, only when no price was
\* obtained for nearly lastKnownTtlMs: an answer that replaces a newer one costs at
\* most the timeout of a request ("a single Jupiter hiccup never over-charges",
\* quote.ts 110-111).
NullMeansOutage ==
  [][\A g \in Gets :
       asking[g] = "fetching" /\ asking'[g] = "done" /\ given'[g].price = NoPrice =>
         bestAsked = NoPrice \/ clock - bestAsked >= LastKnownTtl - FetchTimeout]_oracleVars
=============================================================================
