------------------------------ MODULE SignalMath ------------------------------
(***************************************************************************)
(* The arithmetic of a paper order: models/domain.py (order book,          *)
(* probability), trading/probability.py, risk.py, signals.py, settlement.py.*)
(* Decimals are exact here: a price in hundredths of a dollar, a stake in  *)
(* cents, a quantity in ten-thousandths, everything else a fraction; only  *)
(* what the code quantizes is rounded.                                     *)
(***************************************************************************)
EXTENDS Integers, Sequences, FiniteSets, FiniteSetsExt

CONSTANTS
    MinEdge, MaxSpread,    \* --min-edge, --max-spread, in hundredths
    MaxTrade, MaxMarket,   \* max_trade_usd and max_market_usd, in cents
    Fraction               \* fractional_kelly is 1 / Fraction

ASSUME SignalLimitsAssumption ==
    /\ MinEdge \in Int /\ MaxSpread \in Int
    /\ MaxTrade \in Nat /\ MaxMarket \in Nat /\ Fraction \in Nat \ {0}

Sides == {"Yes", "No"}

\* Fractions with a positive denominator.
AtLeast(a, b) == a.num * b.den >= b.num * a.den
Zero == [num |-> 0, den |-> 1]

\* Decimal.quantize: to the nearest step, a half to the even one.
Quantize(q) ==
    LET down == q.num \div q.den
        rest == 2 * (q.num % q.den)
    IN  IF rest > q.den \/ (rest = q.den /\ down % 2 = 1) THEN down + 1 ELSE down
-----------------------------------------------------------------------------
(* OrderBook: the prices of its bids and of its asks. *)

BestBid(book) == Max(book.bids)
BestAsk(book) == Min(book.asks)
Quoted(book) == book.bids # {} /\ book.asks # {}
Spread(book) == BestAsk(book) - BestBid(book)

\* Comparator.test
Test(comparator, value, threshold) ==
    CASE comparator = "above" -> value > threshold
      [] comparator = "at_or_above" -> value >= threshold
      [] comparator = "below" -> value < threshold
      [] comparator = "at_or_below" -> value <= threshold

\* probability_yes: the share of the ensemble's members for which the answer is yes.
ProbabilityYes(values, spec) ==
    [num |-> Cardinality({i \in DOMAIN values : Test(spec.comparator, values[i], spec.threshold)}),
     den |-> Cardinality(DOMAIN values)]

\* side_probability
ProbabilityOf(side, yes) == IF side = "Yes" THEN yes ELSE [yes EXCEPT !.num = yes.den - yes.num]
-----------------------------------------------------------------------------
(* _candidate *)

\* side_probability - price, times 100
Edge(p, price) == [num |-> 100 * p.num - price * p.den, den |-> p.den]

\* expected_return_on_stake
ExpectedReturn(p, price) ==
    IF price <= 0 THEN Zero
    ELSE [num |-> 100 * p.num - price * p.den, den |-> price * p.den]

\* kelly_fraction_binary: (odds * p - (1 - p)) / odds with odds = (1 - price) / price
Kelly(p, price) ==
    LET won  == (100 - price) * p.num
        lost == price * (p.den - p.num)
    IN  IF price <= 0 \/ price >= 100 \/ won <= lost THEN Zero
        ELSE [num |-> won - lost, den |-> (100 - price) * p.den]

\* Broken variant: the limit of a market is not asked for.
StakeOneLimit(bankroll, kelly) ==
    LET raw == [num |-> bankroll * kelly.num, den |-> Fraction * kelly.den]
    IN  IF raw.num > MaxTrade * raw.den THEN MaxTrade ELSE Quantize(raw)

\* stake_for_kelly
Stake(bankroll, kelly) ==
    LET raw == [num |-> bankroll * kelly.num, den |-> Fraction * kelly.den]
        cap == Min({MaxTrade, MaxMarket})
    IN  IF raw.num > cap * raw.den THEN cap ELSE Quantize(raw)

\* The offer of one side: no offer unless the book has both sides and a spread
\* within the limit (a crossed book has a negative one), the edge is there and
\* the stake does not round to nothing.
Offers(side, book, yes, bankroll) ==
    IF ~Quoted(book) THEN {}
    ELSE LET p == ProbabilityOf(side, yes)
             price == BestAsk(book)
             stake == Stake(bankroll, Kelly(p, price))
         IN  IF Spread(book) <= MaxSpread /\ AtLeast(Edge(p, price), [num |-> MinEdge, den |-> 1])
                /\ stake > 0
             THEN {[side |-> side, price |-> price, stake |-> stake,
                    return |-> ExpectedReturn(p, price)]}
             ELSE {}

\* max by expected_return; of two equal ones the first, which is yes's.
Best(offers) ==
    CHOOSE o \in offers : \A other \in offers :
        AtLeast(o.return, other.return) /\ (AtLeast(other.return, o.return) => o.side = "Yes" \/ o = other)

\* build_signal: the one offer to take, or none.
BuildSignal(yesBook, noBook, yes, bankroll) ==
    LET offers == Offers("Yes", yesBook, yes, bankroll) \cup Offers("No", noBook, yes, bankroll)
    IN  IF offers = {} THEN {} ELSE {Best(offers)}
-----------------------------------------------------------------------------
(* The order, and what it comes to. *)

\* Broken variant: the price is taken for dollars.
QuantityDollars(stake, price) == Quantize([num |-> stake * 100, den |-> price])

\* paper_order_quantity
Quantity(stake, price) ==
    IF price <= 0 THEN 0 ELSE Quantize([num |-> stake * 10000, den |-> price])

\* paper_order_pnl, in ten-thousandths of a dollar
PaperPnl(order, winner) ==
    (IF order.side = winner THEN order.quantity ELSE 0) - 100 * order.stake
=============================================================================
