------------------------------ MODULE Pricing ------------------------------
(***************************************************************************)
(* What one turn costs in thread-usage: its requests as the harness        *)
(* reports them, the price of its model, and the share of its cache writes *)
(* that a log says were kept for an hour (src/core/tokens.ts,              *)
(* src/core/pricing.ts, estimates in src/core/summary.ts).  Rates are      *)
(* units a token.  An amount in dollars is kept times the turn's cache     *)
(* writes, so that it is a whole number.                                   *)
(***************************************************************************)
EXTENDS Integers, SequencesExt

CONSTANTS
  Prices,      \* the prices a model may have
  Counts,      \* how many tokens of one kind a request may have
  MaxRequests  \* bound on the requests of the turn

PricingAssumption == MaxRequests \in Nat /\ Counts \subseteq Nat

VARIABLES
  price,       \* the model's price
  convention,  \* whether the harness counts cached tokens as input
  used,        \* the requests, as they were
  requests,    \* the requests, as the ledger keeps them
  share        \* the cache writes the log says were for an hour

pricingVars == <<price, convention, used, requests, share>>

Unknown == -1

\* a price, and at most one tier, above a prompt of so many tokens
PriceOf(input, cacheRead, cacheWrite, claude, above, tierInput) ==
  [input |-> input, cacheRead |-> cacheRead, cacheWrite |-> cacheWrite, claude |-> claude,
   above |-> above, tierInput |-> tierInput]

Requests == [input : Counts, output : Counts, cacheRead : Counts, cacheWrite : Counts]

PricingInit ==
  /\ price \in Prices /\ convention \in {"apart", "within"}
  /\ used = <<>> /\ requests = <<>> /\ share = 0

----------------------------------------------------------------------------
\* the breakdown bb passes on
Breakdown(r) ==
  LET cached == r.cacheRead + r.cacheWrite
  IN [total |-> r.input + cached + r.output, cached |-> cached, cacheWrite |-> r.cacheWrite,
      input |-> IF convention = "within" THEN r.input + cached ELSE r.input, output |-> r.output]

Abs(n) == IF n < 0 THEN -n ELSE n
\* the total decides which convention it is
IncludesCached(b) ==
  /\ b.cached > 0 /\ b.input >= b.cached
  /\ Abs(b.total - (b.input + b.output)) < Abs(b.total - (b.input + b.cached + b.output))

FromBbBreakdown(b) ==
  [input |-> IF IncludesCached(b) THEN b.input - b.cached ELSE b.input, output |-> b.output,
   cacheRead |-> IF b.cached > b.cacheWrite THEN b.cached - b.cacheWrite ELSE 0, cacheWrite |-> b.cacheWrite]

MakeRequest ==
  /\ Len(requests) < MaxRequests
  /\ \E r \in Requests :
       /\ used' = Append(used, r)
       /\ requests' = Append(requests, FromBbBreakdown(Breakdown(r)))
  /\ UNCHANGED <<price, convention, share>>

Kind(k) == FoldSeq(LAMBDA r, sum : r[k] + sum, 0, requests)

\* cacheWritesByTurn
ReadLog ==
  /\ share' \in 0..Kind("cacheWrite")
  /\ UNCHANGED <<price, convention, used, requests>>

----------------------------------------------------------------------------
\* the tier is over the base, for a request whose size is known
Prompt(r) == r.input + r.cacheRead + r.cacheWrite
Tiered(prompt) == price.above # Unknown /\ prompt > price.above
Rates(prompt) ==
  LET input == IF Tiered(prompt) THEN price.tierInput ELSE price.input
  IN [input |-> input, output |-> price.input,
      cacheRead |-> IF price.cacheRead = Unknown THEN input ELSE price.cacheRead,
      cacheWrite |-> IF price.cacheWrite = Unknown THEN input ELSE price.cacheWrite]

\* costOf, times scale, of tokens of which keep in scale are 5-minute writes
CostOf(r, prompt, keep, scale) ==
  LET rates == Rates(prompt)
  IN scale * (r.input * rates.input + r.output * rates.output + r.cacheRead * rates.cacheRead)
     + keep * r.cacheWrite * rates.cacheWrite

\* priceRequests: the hour's writes leave every request in proportion, and are
\* a line of their own
Scale == Max({1, Kind("cacheWrite")})
OneHour == Min({share, Kind("cacheWrite")})
KeepAll == Scale  \* mutant: they stay in the requests too
Keep == IF OneHour > 0 THEN Scale - OneHour ELSE Scale
HourRate(inputs, writes) == IF price.claude THEN 2 * Max(inputs) ELSE Max(writes)
HourLine ==
  IF OneHour = 0 THEN 0
  ELSE LET rates == {Rates(Prompt(requests[n])) : n \in DOMAIN requests}
       IN Scale * OneHour * HourRate({x.input : x \in rates}, {x.cacheWrite : x \in rates})
PriceRequests ==
  FoldSeq(LAMBDA r, sum : CostOf(r, Prompt(r), Keep, Scale) + sum, 0, requests) + HourLine

\* the turn as a sum of requests whose sizes are not known, at the base rates
AsOneSum ==
  LET sum == [k \in {"input", "output", "cacheRead", "cacheWrite"} |-> Kind(k)]
  IN CostOf(sum, 0, Scale - OneHour, Scale)
     + Scale * OneHour * HourRate({Rates(0).input}, {Rates(0).cacheWrite})

PricingNext == MakeRequest \/ ReadLog
PricingSpec == PricingInit /\ [][PricingNext]_pricingVars

----------------------------------------------------------------------------
\* Whichever way the harness counts cached tokens, the ledger keeps the tokens
\* there were (fromBbBreakdown).
KeepsTheTokens == requests = used

\* A turn of a model without tiers costs the same priced request by request as
\* priced as one sum: no token is charged twice or not at all, those kept for
\* an hour included (priceRequests, costOf).
SameEitherWay == price.above = Unknown => PriceRequests = AsOneSum
============================================================================
