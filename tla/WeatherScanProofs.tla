-------------------------- MODULE WeatherScanProofs --------------------------
(***************************************************************************)
(* Theorems about WeatherScan and the arithmetic of SignalMath, for any    *)
(* markets, titles, books, forecasts, bankrolls and limits; the last are   *)
(* that the scan in full is a scan of PaperTrading, and what that brings.  *)
(***************************************************************************)
EXTENDS WeatherScan, SumTheorems, SequenceTheorems

-----------------------------------------------------------------------------
(* The arithmetic of an offer. *)

\* A share of the members of an ensemble.
Chance == {p \in [num : Nat, den : Nat \ {0}] : p.num <= p.den}
Book100 == [bids : SUBSET (0 .. 100), asks : SUBSET (0 .. 100)]

\* Division with rest, as \div and % have it.
LEMMA Divided ==
  ASSUME NEW n \in Nat, NEW d \in Nat \ {0}
  PROVE  /\ n \div d \in Nat /\ n % d \in 0 .. d - 1
         /\ n = d * (n \div d) + (n % d)
  OBVIOUS

\* quantize is off by at most half a step, and never passes a whole step that
\* the number does not pass.
LEMMA QuantizeNear ==
  ASSUME NEW n \in Nat, NEW d \in Nat \ {0}
  PROVE  /\ Quantize([num |-> n, den |-> d]) \in Nat
         /\ 2 * (Quantize([num |-> n, den |-> d]) * d) <= 2 * n + d
         /\ 2 * n <= 2 * (Quantize([num |-> n, den |-> d]) * d) + d
         /\ \A c \in Nat : n <= c * d => Quantize([num |-> n, den |-> d]) <= c
<1>. DEFINE down == n \div d
            rest == n % d
            q == Quantize([num |-> n, den |-> d])
<1>1. down \in Nat /\ rest \in 0 .. d - 1 /\ n = d * down + rest BY Divided
<1>2. \/ q = down + 1 /\ 2 * rest >= d
      \/ q = down /\ 2 * rest <= d
  BY <1>1 DEF Quantize
<1>. HIDE DEF down, rest, q
<1>3. (down + 1) * d = d * down + d /\ down * d = d * down BY <1>1
<1>4. q \in Nat /\ 2 * (q * d) <= 2 * n + d /\ 2 * n <= 2 * (q * d) + d
  BY <1>1, <1>2, <1>3
<1>5. ASSUME NEW c \in Nat, n <= c * d PROVE q <= c
  <2>1. CASE c < down
    <3>1. c + 1 <= down BY <1>1, <2>1
    <3>2. (c + 1) * d <= down * d BY <1>1, <3>1
    <3>3. (c + 1) * d = c * d + d OBVIOUS
    <3>. QED BY <1>1, <1>3, <1>5, <3>2, <3>3
  <2>2. CASE c = down
    <3>1. rest = 0 BY <1>1, <1>3, <1>5, <2>2
    <3>. QED BY <1>1, <1>2, <2>2, <3>1
  <2>3. CASE c > down BY <1>1, <1>2, <2>3
  <2>. QED BY <1>1, <2>1, <2>2, <2>3
<1>. QED BY <1>4, <1>5 DEF q

\* The probability of either side is one.
LEMMA ChanceOfSide ==
  ASSUME NEW yes \in Chance, NEW side
  PROVE  ProbabilityOf(side, yes) \in Chance
  BY DEF ProbabilityOf, Chance

\* Kelly's fraction is a chance too, and is zero unless the price is inside
\* the dollar and below the probability.
LEMMA KellyBounds ==
  ASSUME NEW p \in Chance, NEW price \in 0 .. 100
  PROVE  /\ Kelly(p, price) \in Chance
         /\ Kelly(p, price).num > 0 => price \in 1 .. 99
<1>. DEFINE won == (100 - price) * p.num
            lost == price * (p.den - p.num)
<1>1. p.num \in Nat /\ p.den \in Nat \ {0} /\ p.num <= p.den BY DEF Chance
<1>2. won \in Nat /\ lost \in Nat /\ won <= (100 - price) * p.den BY <1>1
<1>3. CASE price <= 0 \/ price >= 100 \/ won <= lost
  <2>1. Kelly(p, price) = Zero BY <1>3 DEF Kelly
  <2>. QED BY <2>1 DEF Zero, Chance
<1>4. CASE ~(price <= 0 \/ price >= 100 \/ won <= lost)
  <2>1. Kelly(p, price) = [num |-> won - lost, den |-> (100 - price) * p.den]
    BY <1>4 DEF Kelly
  <2>2. (100 - price) * p.den \in Nat \ {0} BY <1>1, <1>4
  <2>. HIDE DEF won, lost
  <2>3. won - lost \in Nat /\ won - lost <= (100 - price) * p.den BY <1>2, <1>4, <2>2
  <2>4. price \in 1 .. 99 BY <1>4
  <2>. QED BY <2>1, <2>2, <2>3, <2>4 DEF Chance
<1>. QED BY <1>3, <1>4

\* The stake keeps every limit although it is rounded, and is Kelly's share of
\* the bankroll to half a cent.
LEMMA StakeBounds ==
  ASSUME NEW bankroll \in Nat, NEW kelly \in Chance
  PROVE  /\ Stake(bankroll, kelly) \in Nat
         /\ Stake(bankroll, kelly) <= bankroll
         /\ Stake(bankroll, kelly) <= MaxTrade /\ Stake(bankroll, kelly) <= MaxMarket
         /\ 2 * Stake(bankroll, kelly) * Fraction * kelly.den
              <= 2 * bankroll * kelly.num + Fraction * kelly.den
         /\ kelly.num = 0 => Stake(bankroll, kelly) = 0
<1>. DEFINE n == bankroll * kelly.num
            d == Fraction * kelly.den
            cap == Min({MaxTrade, MaxMarket})
            stake == Stake(bankroll, kelly)
<1>1. /\ kelly.num \in Nat /\ kelly.den \in Nat \ {0} /\ kelly.num <= kelly.den
      /\ Fraction \in Nat \ {0} /\ MaxTrade \in Nat /\ MaxMarket \in Nat
  BY SignalLimitsAssumption DEF Chance
<1>2. n \in Nat /\ d \in Nat \ {0} BY <1>1
<1>3. n <= bankroll * d
  <2>1. kelly.num <= d
    <3>1. 1 * kelly.den <= Fraction * kelly.den BY <1>1
    <3>. QED BY <1>1, <3>1
  <2>. HIDE DEF d
  <2>. QED BY <1>1, <1>2, <2>1
<1>4. cap \in Nat /\ cap <= MaxTrade /\ cap <= MaxMarket
  <2>1. \E x \in {MaxTrade, MaxMarket} : \A y \in {MaxTrade, MaxMarket} : x <= y
    BY <1>1
  <2>. QED BY <1>1, <2>1 DEF Min
<1>5. stake = IF n > cap * d THEN cap ELSE Quantize([num |-> n, den |-> d])
  BY DEF Stake
<1>6. 2 * stake * Fraction * kelly.den = 2 * (stake * d)
      \/ stake \notin Nat
  BY <1>1
<1>7. 2 * bankroll * kelly.num + Fraction * kelly.den = 2 * n + d BY <1>1
<1>8. kelly.num = 0 => n = 0 BY <1>1
<1>. HIDE DEF n, d, cap, stake
<1>9. CASE n > cap * d
  <2>1. stake = cap BY <1>5, <1>9
  <2>2. cap <= bankroll
    <3>1. CASE cap >= bankroll + 1
      <4>1. (bankroll + 1) * d <= cap * d BY <1>2, <1>4, <3>1
      <4>2. (bankroll + 1) * d = bankroll * d + d BY <1>2
      <4>. QED BY <1>2, <1>3, <1>4, <1>9, <4>1, <4>2
    <3>. QED BY <1>4, <3>1
  <2>3. 2 * (stake * d) <= 2 * n + d BY <1>2, <1>4, <1>9, <2>1
  <2>4. n # 0 BY <1>2, <1>4, <1>9
  <2>. QED BY <1>1, <1>4, <1>6, <1>7, <1>8, <2>1, <2>2, <2>3, <2>4 DEF stake
<1>10. CASE ~(n > cap * d)
  <2>1. stake = Quantize([num |-> n, den |-> d]) BY <1>5, <1>10
  <2>2. n <= cap * d BY <1>2, <1>4, <1>10
  <2>3. stake \in Nat /\ stake <= cap /\ stake <= bankroll /\ 2 * (stake * d) <= 2 * n + d
    BY <1>2, <1>3, <1>4, <2>1, <2>2, QuantizeNear
  <2>4. n = 0 => stake = 0
    <3>1. 0 <= 0 * d BY <1>2
    <3>2. n = 0 => stake <= 0 BY <1>2, <2>1, <3>1, QuantizeNear
    <3>. QED BY <2>3, <3>2
  <2>. QED BY <1>1, <1>4, <1>6, <1>7, <1>8, <2>3, <2>4 DEF stake
<1>. QED BY <1>9, <1>10

\* A side of a book that has a price has a best one.
LEMMA BestPrice ==
  ASSUME NEW book \in Book100, Quoted(book)
  PROVE  BestAsk(book) \in 0 .. 100
<1>1. book.asks \subseteq Nat /\ book.asks # {} BY DEF Book100, Quoted
<1>2. \E x \in book.asks : \A y \in book.asks : x <= y
  <2>. DEFINE A == book.asks
  <2>0. A \subseteq Nat /\ A # {} BY <1>1
  <2>. HIDE DEF A
  <2>1. PICK x \in A : \A y \in A : ~(<<y, x>> \in OpToRel(<, Nat))
    BY Zenon, <2>0, NatLessThanWellFounded, WFMin
  <2>2. \A y \in A : ~(y < x) BY <2>0, <2>1 DEF OpToRel
  <2>3. \A y \in A : x <= y BY <2>0, <2>2
  <2>. QED BY <2>3 DEF A
<1>3. BestAsk(book) \in book.asks BY <1>2 DEF BestAsk, Min
<1>. QED BY <1>3 DEF Book100

\* What the limits and the edge make of a stake at a price.
Sound(o, yes, bankroll) ==
    LET p     == ProbabilityOf(o.side, yes)
        kelly == Kelly(p, o.price)
    IN  /\ o.side \in Sides /\ o.price \in 1 .. 99 /\ o.stake \in Nat \ {0}
        /\ o.stake <= bankroll /\ o.stake <= MaxTrade /\ o.stake <= MaxMarket
        /\ 2 * o.stake * Fraction * kelly.den
             <= 2 * bankroll * kelly.num + Fraction * kelly.den
        /\ 100 * p.num - o.price * p.den >= MinEdge * p.den

\* _candidate offers nothing else.
LEMMA OffersSound ==
  ASSUME NEW side \in Sides, NEW book \in Book100, NEW yes \in Chance, NEW bankroll \in Nat,
         NEW o \in Offers(side, book, yes, bankroll)
  PROVE  /\ Sound(o, yes, bankroll) /\ o.side = side
         /\ o.return.num \in Int /\ o.return.den \in Nat \ {0}
         /\ Offers(side, book, yes, bankroll) = {o}
<1>. DEFINE p == ProbabilityOf(side, yes)
            price == BestAsk(book)
            kelly == Kelly(p, price)
            stake == Stake(bankroll, kelly)
            offer == [side |-> side, price |-> price, stake |-> stake,
                      return |-> ExpectedReturn(p, price)]
<1>1. /\ Quoted(book) /\ Offers(side, book, yes, bankroll) = {offer} /\ o = offer
      /\ AtLeast(Edge(p, price), [num |-> MinEdge, den |-> 1]) /\ stake > 0
  BY DEF Offers
<1>2. price \in 0 .. 100 BY <1>1, BestPrice
<1>3. p \in Chance BY ChanceOfSide
<1>. HIDE DEF p, price
<1>4. kelly \in Chance /\ (kelly.num > 0 => price \in 1 .. 99) BY <1>2, <1>3, KellyBounds
<1>. HIDE DEF kelly
<1>5. /\ stake \in Nat /\ stake <= bankroll /\ stake <= MaxTrade /\ stake <= MaxMarket
      /\ 2 * stake * Fraction * kelly.den <= 2 * bankroll * kelly.num + Fraction * kelly.den
      /\ kelly.num = 0 => stake = 0
  BY <1>4, StakeBounds
<1>. HIDE DEF stake
<1>6. kelly.num \in Nat BY <1>4 DEF Chance
<1>7. price \in 1 .. 99 /\ stake \in Nat \ {0} BY <1>1, <1>4, <1>5, <1>6
<1>8. p.num \in Nat /\ p.den \in Nat \ {0} BY <1>3 DEF Chance
<1>9. 100 * p.num - price * p.den >= MinEdge * p.den
  <2>1. Edge(p, price).num * 1 >= MinEdge * Edge(p, price).den BY <1>1 DEF AtLeast
  <2>. QED BY <1>7, <1>8, <2>1, SignalLimitsAssumption DEF Edge
<1>10. /\ ExpectedReturn(p, price).num \in Int
       /\ ExpectedReturn(p, price).den \in Nat \ {0}
  BY <1>7, <1>8 DEF ExpectedReturn
<1>11. o.side = side /\ o.price = price /\ o.stake = stake
       /\ o.return = ExpectedReturn(p, price)
  BY <1>1
<1>. QED BY <1>1, <1>5, <1>7, <1>9, <1>10, <1>11 DEF Sound, p, kelly

\* build_signal takes one of the offers, whenever there is one.
LEMMA SignalSound ==
  ASSUME NEW yesBook \in Book100, NEW noBook \in Book100, NEW yes \in Chance,
         NEW bankroll \in Nat, NEW o \in BuildSignal(yesBook, noBook, yes, bankroll)
  PROVE  Sound(o, yes, bankroll)
<1>. DEFINE A == Offers("Yes", yesBook, yes, bankroll)
            B == Offers("No", noBook, yes, bankroll)
            Wins(x) == \A other \in A \cup B :
                AtLeast(x.return, other.return)
                /\ (AtLeast(other.return, x.return) => x.side = "Yes" \/ x = other)
<1>1. A \cup B # {} /\ o = Best(A \cup B) BY DEF BuildSignal
<1>2. /\ \A a \in A : /\ Sound(a, yes, bankroll) /\ a.side = "Yes" /\ A = {a}
                      /\ a.return.num \in Int /\ a.return.den \in Nat \ {0}
      /\ \A b \in B : /\ Sound(b, yes, bankroll) /\ b.side = "No" /\ B = {b}
                      /\ b.return.num \in Int /\ b.return.den \in Nat \ {0}
  BY OffersSound DEF Sides
<1>. HIDE DEF A, B
<1>3. \E x \in A \cup B : Wins(x)
  <2>1. \A x \in A \cup B : AtLeast(x.return, x.return)
    <3>. SUFFICES ASSUME NEW x \in A \cup B PROVE AtLeast(x.return, x.return) OBVIOUS
    <3>1. x.return.num \in Int /\ x.return.den \in Nat \ {0} BY <1>2
    <3>2. x.return.num * x.return.den \in Int BY <3>1
    <3>. QED BY <3>2 DEF AtLeast
  <2>2. CASE A = {}
    <3>1. PICK b \in B : TRUE BY <1>1, <2>2
    <3>. QED BY <1>2, <2>1, <2>2, <3>1
  <2>3. CASE B = {}
    <3>1. PICK a \in A : TRUE BY <1>1, <2>3
    <3>. QED BY <1>2, <2>1, <2>3, <3>1
  <2>4. CASE A # {} /\ B # {}
    <3>1. PICK a \in A, b \in B : TRUE BY <2>4
    <3>2. A \cup B = {a, b} /\ a.side = "Yes" /\ b.side = "No" BY <1>2, <3>1
    <3>3. AtLeast(a.return, b.return)
          \/ (AtLeast(b.return, a.return) /\ ~AtLeast(a.return, b.return))
      <4>1. /\ a.return.num \in Int /\ a.return.den \in Nat \ {0}
            /\ b.return.num \in Int /\ b.return.den \in Nat \ {0}
        BY <1>2, <3>1
      <4>2. /\ a.return.num * b.return.den \in Int
            /\ b.return.num * a.return.den \in Int
        BY <4>1
      <4>. QED BY <4>2 DEF AtLeast
    <3>4. CASE AtLeast(a.return, b.return) BY <2>1, <3>2, <3>4
    <3>5. CASE AtLeast(b.return, a.return) /\ ~AtLeast(a.return, b.return)
      BY <2>1, <3>2, <3>5
    <3>. QED BY <3>3, <3>4, <3>5
  <2>. QED BY <2>2, <2>3, <2>4
<1>4. Best(A \cup B) \in A \cup B BY <1>3 DEF Best
<1>. QED BY <1>1, <1>2, <1>4

\* An order of ten-thousandths gains on average, and pays if it wins: with an
\* edge of a cent at least, rounding the quantity takes less than the edge.
LEMMA QuantityGains ==
  ASSUME NEW p \in Chance, NEW price \in 1 .. 99, NEW stake \in Nat \ {0},
         100 * p.num - price * p.den >= MinEdge * p.den, MinEdge >= 1
  PROVE  /\ Quantity(stake, price) \in Nat
         /\ Quantity(stake, price) > 100 * stake
         /\ p.num * Quantity(stake, price) > 100 * stake * p.den
<1>. DEFINE q == Quantity(stake, price)
<1>1. /\ p.num \in Nat /\ p.den \in Nat \ {0} /\ p.num <= p.den /\ MinEdge \in Int
  BY SignalLimitsAssumption DEF Chance
<1>2. q \in Nat /\ 2 * (stake * 10000) <= 2 * (q * price) + price
  BY QuantizeNear DEF Quantity
<1>. HIDE DEF q
<1>3. 100 * p.num >= (price + 1) * p.den
  <2>1. MinEdge * p.den >= p.den BY <1>1
  <2>2. (price + 1) * p.den = price * p.den + p.den BY <1>1
  <2>. QED BY <1>1, <2>1, <2>2
<1>4. q > 100 * stake
  <2>. SUFFICES ASSUME q <= 100 * stake PROVE FALSE BY <1>2
  <2>1. q * price <= (100 * stake) * price BY <1>2
  <2>2. (100 * stake) * price <= (100 * stake) * 99
    <3>1. 100 * stake \in Nat OBVIOUS
    <3>. QED BY <3>1
  <2>3. q * price <= 9900 * stake BY <1>2, <2>1, <2>2
  <2>. QED BY <1>2, <2>3
<1>5. (price + 1) * q > 10000 * stake
  <2>1. (price + 1) * q = q * price + q BY <1>2
  <2>. QED BY <1>2, <1>4, <2>1
<1>6. (100 * p.num) * q >= ((price + 1) * p.den) * q BY <1>1, <1>2, <1>3
<1>7. ((price + 1) * p.den) * q = ((price + 1) * q) * p.den BY <1>1, <1>2
<1>8. ((price + 1) * q) * p.den > (10000 * stake) * p.den
  <2>1. (price + 1) * q \in Nat /\ 10000 * stake \in Nat BY <1>2
  <2>. QED BY <1>1, <1>5, <2>1
<1>9. (100 * p.num) * q > (10000 * stake) * p.den
  <2>1. /\ (100 * p.num) * q \in Nat /\ ((price + 1) * p.den) * q \in Nat
        /\ (10000 * stake) * p.den \in Nat
    BY <1>1, <1>2
  <2>. QED BY <1>6, <1>7, <1>8, <2>1
<1>10. p.num * q > 100 * stake * p.den
  <2>. DEFINE x == p.num * q
              y == stake * p.den
  <2>1. x \in Nat /\ y \in Nat /\ (100 * p.num) * q = 100 * x
        /\ (10000 * stake) * p.den = 10000 * y /\ 100 * stake * p.den = 100 * y
    BY <1>1, <1>2
  <2>. HIDE DEF x, y
  <2>2. x > 100 * y BY <1>9, <2>1
  <2>. QED BY <2>1, <2>2 DEF x, y
<1>. QED BY <1>2, <1>4, <1>10 DEF q
-----------------------------------------------------------------------------
(* The list. *)

Entry == [market : Markets, request : {"keyword", "weather-tag"}]

\* _dedupe_markets as the fold that FoldLeft is.
Keep(kept, e)     == IF \E i \in DOMAIN kept : kept[i].market = e.market
                     THEN kept ELSE Append(kept, e)
Keeps(g, es, D)   == g = [s \in D |-> IF s = {} THEN <<>>
                                      ELSE Keep(g[s \ {Max(s)}], es[Max(s)])]
Kept(es)          == CHOOSE g : Keeps(g, es, SUBSET (DOMAIN es))

LEMMA DedupeIsKept == ASSUME NEW es PROVE Dedupe(es) = Kept(es)[DOMAIN es]
  BY Zenon DEF Dedupe, FoldLeft, MapThenFoldSet, Keep, Keeps, Kept

\* A set of positions ends with its last one.
LEMMA LastPosition ==
  ASSUME NEW n \in Nat, NEW s \in SUBSET (1 .. n), s # {}
  PROVE  Max(s) \in s /\ \A y \in s : y <= Max(s)
<1>. DEFINE A == {n - x : x \in s}
<1>0. \A x \in s : x \in Nat /\ n - x \in Nat OBVIOUS
<1>1. A \subseteq Nat /\ A # {} BY <1>0
<1>2. \E a \in A : \A b \in A : a <= b
  <2>. HIDE DEF A
  <2>1. PICK a \in A : \A b \in A : ~(<<b, a>> \in OpToRel(<, Nat))
    BY Zenon, <1>1, NatLessThanWellFounded, WFMin
  <2>2. \A b \in A : ~(b < a) BY <1>1, <2>1 DEF OpToRel
  <2>. QED BY <1>1, <2>2
<1>3. PICK x \in s : \A b \in A : n - x <= b BY <1>2
<1>4. \A y \in s : x >= y
  <2>. TAKE y \in s
  <2>1. n - x <= n - y BY <1>3
  <2>. HIDE DEF A
  <2>. QED BY <1>0, <2>1
<1>5. Max(s) \in s /\ \A y \in s : Max(s) >= y BY <1>4 DEF Max
<1>. QED BY <1>0, <1>5

\* The recursion of the fold has a solution, stage by stage of cardinality.
LEMMA KeepsExists ==
  ASSUME NEW T, NEW es \in Seq(T)
  PROVE  \E g : Keeps(g, es, SUBSET (DOMAIN es))
<1>. DEFINE S == DOMAIN es
            Stage(n) == {s \in SUBSET S : Cardinality(s) <= n}
            Solves(g, n) == Keeps(g, es, Stage(n))
            bad == {n \in Nat : ~\E g : Solves(g, n)}
<1>0. S = 1 .. Len(es) /\ Len(es) \in Nat /\ IsFiniteSet(S) BY FS_Interval
<1>. HIDE DEF S
<1>1. \A s \in SUBSET S : s # {} =>
         /\ Max(s) \in s /\ s \ {Max(s)} \in SUBSET S /\ Cardinality(s) \in Nat
         /\ Cardinality(s \ {Max(s)}) = Cardinality(s) - 1
  <2>. TAKE s \in SUBSET S
  <2>. HAVE s # {}
  <2>1. Max(s) \in s BY <1>0, LastPosition
  <2>. QED BY <1>0, <2>1, Smaller
<1>2. bad = {}
  <2>. SUFFICES ASSUME bad # {} PROVE FALSE OBVIOUS
  <2>1. PICK n \in bad : \A m \in bad : ~(<<m, n>> \in OpToRel(<, Nat))
    BY Zenon, NatLessThanWellFounded, WFMin
  <2>2. n \in Nat /\ \A m \in Nat : m < n => \E g : Solves(g, m)
    BY <2>1 DEF OpToRel
  <2>3. CASE n = 0
    <3>. DEFINE g == [s \in Stage(0) |-> <<>>]
    <3>1. \A s \in Stage(0) : s = {}
      <4>. TAKE s \in Stage(0)
      <4>1. s \in SUBSET S /\ Cardinality(s) <= 0 OBVIOUS
      <4>2. IsFiniteSet(s) BY <1>0, <4>1, FS_Subset
      <4>3. Cardinality(s) = 0 BY <4>1, <4>2, FS_CardinalityType
      <4>. QED BY <4>2, <4>3, FS_EmptySet
    <3>2. Solves(g, 0) BY <3>1 DEF Keeps
    <3>. QED BY Zenon, <2>1, <2>3, <3>2
  <2>4. CASE n # 0
    <3>1. n - 1 \in Nat /\ n - 1 < n BY <2>2, <2>4
    <3>2. PICK g : Solves(g, n - 1) BY <2>2, <3>1
    <3>. DEFINE h == [s \in Stage(n) |-> IF s = {} THEN <<>>
                                         ELSE Keep(g[s \ {Max(s)}], es[Max(s)])]
    <3>3. \A s \in Stage(n) : s # {} => s \ {Max(s)} \in Stage(n - 1)
      BY <1>1, <2>2
    <3>4. \A s \in Stage(n - 1) : s \in Stage(n) /\ h[s] = g[s]
      <4>1. \A s \in SUBSET S : Cardinality(s) \in Nat
        BY <1>0, FS_Subset, FS_CardinalityType
      <4>2. \A s \in Stage(n - 1) : s \in Stage(n) BY <2>2, <4>1
      <4>3. \A s \in Stage(n - 1) :
               g[s] = IF s = {} THEN <<>> ELSE Keep(g[s \ {Max(s)}], es[Max(s)])
        BY <3>2 DEF Keeps
      <4>. QED BY <4>2, <4>3
    <3>5. \A s \in Stage(n) : s # {} => g[s \ {Max(s)}] = h[s \ {Max(s)}]
      BY <3>3, <3>4
    <3>6. Solves(h, n) BY <3>5 DEF Keeps
    <3>. QED BY Zenon, <2>1, <3>6
  <2>. QED BY <2>3, <2>4
<1>3. Cardinality(S) \in Nat BY <1>0, FS_CardinalityType
<1>4. PICK g : Solves(g, Cardinality(S)) BY <1>2, <1>3
<1>5. Stage(Cardinality(S)) = SUBSET S BY <1>0, FS_Subset
<1>. QED BY <1>4, <1>5 DEF Keeps, S

\* The positions where a market comes first.
Firsts(es, s) == {i \in s : \A k \in s : k < i => es[k].market # es[i].market}

\* A list with each market once: that of its first entry.
Deduplicated(r, es, s) ==
    /\ r \in Seq(Entry)
    /\ \A i, k \in DOMAIN r : r[i].market = r[k].market => i = k
    /\ \A i \in DOMAIN r : \E k \in Firsts(es, s) : r[i] = es[k]
    /\ \A k \in Firsts(es, s) : \E i \in DOMAIN r : r[i] = es[k]
    /\ \A k \in s : \E i \in DOMAIN r : r[i].market = es[k].market

\* The next entry is kept if its market has not come before.
LEMMA KeepOnce ==
  ASSUME NEW n \in Nat, NEW es \in [1 .. n -> Entry], NEW s \in SUBSET (1 .. n), NEW m \in s,
         \A y \in s : y <= m, NEW r, Deduplicated(r, es, s \ {m})
  PROVE  Deduplicated(Keep(r, es[m]), es, s)
<1>. DEFINE t == s \ {m}
            e == es[m]
            F == Firsts(es, t)
            G == Firsts(es, s)
<1>1. /\ e \in Entry /\ s \subseteq Nat /\ t \subseteq Nat /\ m \in Nat
      /\ \A y \in t : y < m
  OBVIOUS
<1>2. /\ r \in Seq(Entry)
      /\ \A i, k \in DOMAIN r : r[i].market = r[k].market => i = k
      /\ \A i \in DOMAIN r : \E k \in F : r[i] = es[k]
      /\ \A k \in F : \E i \in DOMAIN r : r[i] = es[k]
      /\ \A k \in t : \E i \in DOMAIN r : r[i].market = es[k].market
  BY DEF Deduplicated
<1>3. /\ F \subseteq t /\ G \subseteq s
      /\ \A i \in t : i \in G <=> i \in F
      /\ m \in G <=> \A k \in t : es[k].market # e.market
  BY <1>1 DEF Firsts
<1>4. s = t \cup {m} /\ es[m] = e OBVIOUS
<1>5. SUFFICES LET q == Keep(r, e)
               IN  /\ q \in Seq(Entry)
                   /\ \A i, k \in DOMAIN q : q[i].market = q[k].market => i = k
                   /\ \A i \in DOMAIN q : \E k \in G : q[i] = es[k]
                   /\ \A k \in G : \E i \in DOMAIN q : q[i] = es[k]
                   /\ \A k \in s : \E i \in DOMAIN q : q[i].market = es[k].market
  BY DEF Deduplicated
<1>. HIDE DEF t, e, F, G
<1>6. CASE \E i \in DOMAIN r : r[i].market = e.market
  <2>1. Keep(r, e) = r BY <1>6 DEF Keep
  <2>2. \E k \in t : es[k].market = e.market BY SMTT(30), <1>2, <1>3, <1>6
  <2>3. G = F BY <1>3, <1>4, <2>2
  <2>4. \A k \in s : \E i \in DOMAIN r : r[i].market = es[k].market BY <1>2, <1>4, <1>6
  <2>. QED BY <1>2, <2>1, <2>3, <2>4
<1>7. CASE ~\E i \in DOMAIN r : r[i].market = e.market
  <2>. DEFINE q == Append(r, e)
  <2>1. Keep(r, e) = q BY <1>7 DEF Keep
  <2>2. /\ q \in Seq(Entry) /\ DOMAIN q = DOMAIN r \cup {Len(r) + 1}
        /\ \A i \in DOMAIN r : q[i] = r[i]
        /\ q[Len(r) + 1] = e
    BY <1>1, <1>2
  <2>3. \A k \in t : es[k].market # e.market BY <1>2, <1>7
  <2>4. G = F \cup {m} BY <1>3, <1>4, <2>3
  <2>. HIDE DEF q
  <2>5. \A i, k \in DOMAIN q : q[i].market = q[k].market => i = k
    BY <1>2, <1>7, <2>2
  <2>6. ASSUME NEW i \in DOMAIN q PROVE \E k \in G : q[i] = es[k]
    <3>1. CASE i \in DOMAIN r
      <4>1. PICK k \in F : r[i] = es[k] BY <1>2, <3>1
      <4>2. k \in G /\ q[i] = es[k] BY <2>2, <2>4, <3>1, <4>1
      <4>. QED BY <4>2
    <3>2. CASE i = Len(r) + 1
      <4>1. m \in G /\ q[i] = es[m] BY <1>4, <2>2, <2>4, <3>2
      <4>. QED BY <4>1
    <3>. QED BY <2>2, <3>1, <3>2
  <2>7. \A k \in G : \E i \in DOMAIN q : q[i] = es[k]
    BY SMTT(30), <1>2, <1>4, <2>2, <2>4
  <2>8. \A k \in s : \E i \in DOMAIN q : q[i].market = es[k].market
    BY <1>2, <1>4, <2>2
  <2>. QED BY <2>1, <2>2, <2>5, <2>6, <2>7, <2>8
<1>. QED BY <1>6, <1>7

\* A deduplicated list holds the first entry of every market, and no other.
LEMMA DedupeFirsts ==
  ASSUME NEW es \in Seq(Entry)
  PROVE  Deduplicated(Dedupe(es), es, DOMAIN es)
<1>. DEFINE S == DOMAIN es
            g == Kept(es)
            bad == {s \in SUBSET S : ~Deduplicated(g[s], es, s)}
<1>0. /\ S = 1 .. Len(es) /\ Len(es) \in Nat /\ IsFiniteSet(S)
      /\ es \in [1 .. Len(es) -> Entry]
  BY FS_Interval
<1>1. Keeps(g, es, SUBSET S) BY KeepsExists DEF Kept
<1>. HIDE DEF S, g
<1>2. \A s \in SUBSET S : g[s] = IF s = {} THEN <<>> ELSE Keep(g[s \ {Max(s)}], es[Max(s)])
  BY <1>1 DEF Keeps
<1>3. bad = {}
  <2>. SUFFICES ASSUME bad # {} PROVE FALSE OBVIOUS
  <2>1. PICK s \in bad : \A t \in bad : ~(Cardinality(t) < Cardinality(s))
    BY <1>0, Least
  <2>2. s \in SUBSET S /\ s # {}
    <3>1. Deduplicated(<<>>, es, {}) BY DEF Deduplicated, Firsts
    <3>2. s \in SUBSET S /\ ~Deduplicated(g[s], es, s) OBVIOUS
    <3>3. {} \in SUBSET S => g[{}] = <<>> BY <1>2
    <3>. HIDE DEF bad
    <3>. QED BY <3>1, <3>2, <3>3
  <2>3. Max(s) \in s /\ \A y \in s : y <= Max(s) BY <1>0, <2>2, LastPosition
  <2>4. /\ Cardinality(s) \in Nat /\ s \ {Max(s)} \in SUBSET S
        /\ Cardinality(s \ {Max(s)}) = Cardinality(s) - 1
    BY <1>0, <2>2, <2>3, Smaller
  <2>5. Deduplicated(g[s \ {Max(s)}], es, s \ {Max(s)}) BY <2>1, <2>4
  <2>6. g[s] = Keep(g[s \ {Max(s)}], es[Max(s)]) BY <1>2, <2>2
  <2>. HIDE DEF bad
  <2>7. Deduplicated(g[s], es, s)
    <3>. DEFINE m == Max(s)
                r == g[s \ {m}]
    <3>1. m \in s /\ (\A y \in s : y <= m) /\ Deduplicated(r, es, s \ {m}) BY <2>3, <2>5
    <3>2. g[s] = Keep(r, es[m]) BY <2>6
    <3>. HIDE DEF m, r
    <3>3. s \in SUBSET (1 .. Len(es)) BY <1>0, <2>2
    <3>4. Deduplicated(Keep(r, es[m]), es, s) BY <1>0, <3>1, <3>3, KeepOnce
    <3>. QED BY <3>2, <3>4
  <2>. QED BY <2>7 DEF bad
<1>4. Deduplicated(g[S], es, S) BY <1>3
<1>. QED BY <1>4, DedupeIsKept DEF g, S

\* What a request lists is a sequence of markets.
LEMMA ListingType ==
  ASSUME NEW ms \in SetToAllKPermutations(Markets),
         NEW request \in {"keyword", "weather-tag"}
  PROVE  Entries(ms, request) \in Seq(Entry)
<1>1. PICK s \in SUBSET Markets : ms \in SetToSeqs(s) BY DEF SetToAllKPermutations
<1>2. IsFiniteSet(s) BY InputsAssumption, FS_Subset
<1>3. Cardinality(s) \in Nat BY <1>2, FS_CardinalityType
<1>4. ms \in [1 .. Cardinality(s) -> s] BY <1>1 DEF SetToSeqs
<1>. DEFINE es == [i \in 1 .. Cardinality(s) |-> [market |-> ms[i], request |-> request]]
<1>5. Entries(ms, request) = es BY <1>4 DEF Entries
<1>6. es \in [1 .. Cardinality(s) -> Entry] BY <1>4 DEF Entry
<1>. HIDE DEF es
<1>7. es \in Seq(Entry) BY <1>3, <1>6
<1>. QED BY <1>5, <1>7

\* What a request lists: a sequence of markets, each once.
LEMMA ListingIs ==
  ASSUME NEW ms \in SetToAllKPermutations(Markets), NEW request \in {"keyword", "weather-tag"}
  PROVE  /\ ms \in Seq(Markets) /\ DOMAIN Entries(ms, request) = DOMAIN ms
         /\ Entries(ms, request) \in Seq(Entry)
         /\ \A i \in DOMAIN ms :
               Entries(ms, request)[i] = [market |-> ms[i], request |-> request]
         /\ \A i, k \in DOMAIN ms : ms[i] = ms[k] => i = k
<1>1. PICK s \in SUBSET Markets : ms \in SetToSeqs(s) BY DEF SetToAllKPermutations
<1>2. IsFiniteSet(s) BY InputsAssumption, FS_Subset
<1>3. Cardinality(s) \in Nat BY <1>2, FS_CardinalityType
<1>4. /\ ms \in [1 .. Cardinality(s) -> s]
      /\ \A i, k \in 1 .. Cardinality(s) : i # k => ms[i] # ms[k]
  BY <1>1 DEF SetToSeqs
<1>5. ms \in Seq(Markets) BY <1>3, <1>4
<1>6. Entries(ms, request) \in Seq(Entry) BY ListingType
<1>. QED BY <1>4, <1>5, <1>6 DEF Entries

\* Entries of different markets.
Distinct(l) == \A i, k \in DOMAIN l : l[i].market = l[k].market => i = k

EntryOf(m, request) == [market |-> m, request |-> request]

\* The list of the keyword request: what it listed.
LEMMA KeywordList ==
  ASSUME NEW ms \in SetToAllKPermutations(Markets),
         NEW l, l = Dedupe(Entries(ms, "keyword"))
  PROVE  /\ l \in Seq(Entry) /\ Distinct(l)
         /\ ToSet(l) = {EntryOf(m, "keyword") : m \in ToSet(ms)}
<1>. DEFINE es == Entries(ms, "keyword")
            D == DOMAIN ms
<1>1. /\ ms \in Seq(Markets) /\ DOMAIN es = D /\ es \in Seq(Entry)
      /\ \A i \in D : es[i] = [market |-> ms[i], request |-> "keyword"]
      /\ \A i, k \in D : ms[i] = ms[k] => i = k
  BY ListingIs
<1>2. Deduplicated(l, es, DOMAIN es) BY <1>1, DedupeFirsts
<1>3. D \subseteq Nat BY <1>1
<1>. HIDE DEF es, D
<1>4. Firsts(es, D) = D
  <2>1. \A i, k \in D : k < i => es[k].market # es[i].market
    <3>. TAKE i, k \in D
    <3>. HAVE k < i
    <3>1. i # k BY <1>3
    <3>. QED BY <1>1, <3>1
  <2>. QED BY <2>1 DEF Firsts
<1>5. /\ l \in Seq(Entry) /\ Distinct(l)
      /\ \A i \in DOMAIN l : \E k \in D : l[i] = es[k]
      /\ \A k \in D : \E i \in DOMAIN l : l[i] = es[k]
  BY <1>1, <1>2, <1>4 DEF Deduplicated, Distinct
<1>6. ToSet(l) = {l[i] : i \in DOMAIN l} /\ ToSet(ms) = {ms[k] : k \in D}
  BY DEF ToSet, D
<1>7. ASSUME NEW e \in ToSet(l) PROVE e \in {EntryOf(m, "keyword") : m \in ToSet(ms)}
  <2>1. PICK i \in DOMAIN l : e = l[i] BY <1>6
  <2>2. PICK k \in D : l[i] = es[k] BY <1>5
  <2>3. ms[k] \in ToSet(ms) /\ e = EntryOf(ms[k], "keyword") BY <1>1, <1>6, <2>1, <2>2 DEF EntryOf
  <2>. QED BY <2>3
<1>8. ASSUME NEW m \in ToSet(ms) PROVE EntryOf(m, "keyword") \in ToSet(l)
  <2>1. PICK k \in D : m = ms[k] BY <1>6
  <2>2. PICK i \in DOMAIN l : l[i] = es[k] BY <1>5
  <2>3. l[i] = EntryOf(m, "keyword") BY <1>1, <2>1, <2>2 DEF EntryOf
  <2>. QED BY <1>6, <2>3
<1>. QED BY <1>5, <1>7, <1>8

\* The list after the tagged request: those it had, and the new ones.
LEMMA TaggedList ==
  ASSUME NEW ms \in SetToAllKPermutations(Markets), NEW was \in Seq(Entry), Distinct(was),
         NEW l, l = Dedupe(was \o Entries(ms, "weather-tag"))
  PROVE  /\ l \in Seq(Entry) /\ Distinct(l)
         /\ ToSet(l) = ToSet(was) \cup
              {EntryOf(m, "weather-tag") :
                 m \in {m \in ToSet(ms) : \A e \in ToSet(was) : e.market # m}}
<1>. DEFINE as == Entries(ms, "weather-tag")
            es == was \o as
            n == Len(was)
            D == DOMAIN es
            New == {m \in ToSet(ms) : \A e \in ToSet(was) : e.market # m}
<1>1. /\ ms \in Seq(Markets) /\ DOMAIN as = DOMAIN ms /\ as \in Seq(Entry)
      /\ \A i \in DOMAIN ms : as[i] = [market |-> ms[i], request |-> "weather-tag"]
      /\ \A i, k \in DOMAIN ms : ms[i] = ms[k] => i = k
  BY ListingIs
<1>n. \A i \in DOMAIN ms : as[i] = EntryOf(ms[i], "weather-tag") /\ as[i].market = ms[i]
  <2>. TAKE i \in DOMAIN ms
  <2>1. as[i] = [market |-> ms[i], request |-> "weather-tag"] BY <1>1
  <2>. HIDE DEF as
  <2>. QED BY <2>1 DEF EntryOf
<1>2. es \in Seq(Entry) BY <1>1
<1>3. Deduplicated(l, es, D) BY <1>2, DedupeFirsts
<1>4. /\ n \in Nat /\ D \subseteq Nat /\ DOMAIN was = 1 .. n
      /\ \A i \in DOMAIN was : i \in D /\ es[i] = was[i]
      /\ \A i \in DOMAIN ms : n + i \in D /\ es[n + i] = as[i] /\ i \in Nat /\ i > 0
      /\ \A k \in D : k > n => k - n \in DOMAIN ms
      /\ \A k \in D : k <= n => k \in DOMAIN was
  <2>. DEFINE N == Len(as)
  <2>1. /\ n \in Nat /\ N \in Nat /\ DOMAIN was = 1 .. n /\ DOMAIN as = 1 .. N
        /\ D = 1 .. (n + N)
        /\ \A i \in 1 .. n : es[i] = was[i]
        /\ \A i \in 1 .. N : es[n + i] = as[i]
    BY <1>1
  <2>2. DOMAIN ms = 1 .. N BY <1>1, <2>1
  <2>0. n \in Nat /\ N \in Nat /\ D = 1 .. (n + N) BY <2>1
  <2>. HIDE DEF es, D, n, as, N, New
  <2>3. D \subseteq Nat BY <2>0
  <2>6. \A i \in 1 .. n : i \in D BY <2>0
  <2>7. \A i \in 1 .. N : n + i \in D /\ i \in Nat /\ i > 0 BY <2>0
  <2>4. \A k \in D : k > n => k - n \in 1 .. N BY <2>0
  <2>5. \A k \in D : k <= n => k \in 1 .. n BY <2>0
  <2>. QED BY <2>1, <2>2, <2>3, <2>4, <2>5, <2>6, <2>7
<1>5. ToSet(was) = {was[i] : i \in DOMAIN was} /\ ToSet(ms) = {ms[i] : i \in DOMAIN ms}
      /\ ToSet(l) = {l[i] : i \in DOMAIN l}
  BY DEF ToSet
<1>. HIDE DEF as, es, n, D
<1>6. /\ l \in Seq(Entry) /\ Distinct(l)
      /\ \A i \in DOMAIN l : \E k \in Firsts(es, D) : l[i] = es[k]
      /\ \A k \in Firsts(es, D) : \E i \in DOMAIN l : l[i] = es[k]
  BY <1>3 DEF Deduplicated, Distinct
<1>7. ASSUME NEW i \in DOMAIN was PROVE i \in Firsts(es, D)
  <2>1. ASSUME NEW k \in D, k < i PROVE es[k].market # es[i].market
    <3>1. k \in Nat /\ i \in Nat /\ i <= n BY <1>4
    <3>2. k \in DOMAIN was /\ k # i BY <1>4, <2>1, <3>1
    <3>3. es[k] = was[k] /\ es[i] = was[i] BY <1>4, <3>2
    <3>. QED BY <3>2, <3>3 DEF Distinct
  <2>. QED BY <1>4, <2>1 DEF Firsts
<1>8. ASSUME NEW j \in DOMAIN ms
      PROVE  n + j \in Firsts(es, D) <=> ms[j] \in New
  <2>0. n + j \in D /\ es[n + j] = as[j] /\ j \in Nat /\ j > 0 BY <1>4
  <2>1. n + j \in D /\ es[n + j].market = ms[j] BY <1>n, <2>0
  <2>2. ASSUME n + j \in Firsts(es, D), NEW e \in ToSet(was) PROVE e.market # ms[j]
    <3>1. PICK i \in DOMAIN was : e = was[i] BY <1>5
    <3>2. i \in D /\ es[i] = e /\ i <= n BY <1>4, <3>1
    <3>4. i < n + j BY <1>4, <2>0, <3>2
    <3>3. \A k \in D : k < n + j => es[k].market # es[n + j].market BY <2>2 DEF Firsts
    <3>. QED BY <2>1, <3>2, <3>3, <3>4
  <2>3. ASSUME ms[j] \in New, NEW k \in D, k < n + j PROVE es[k].market # ms[j]
    <3>1. CASE k <= n
      <4>1. k \in DOMAIN was /\ es[k] = was[k] BY <1>4, <3>1
      <4>2. was[k] \in ToSet(was) BY <1>5, <4>1
      <4>. QED BY <2>3, <4>1, <4>2
    <3>2. CASE k > n
      <4>. DEFINE i == k - n
      <4>1. i \in DOMAIN ms BY <1>4, <3>2
      <4>2. n + i = k /\ i # j BY <1>4, <2>3, <4>1
      <4>3. es[k] = as[i] BY <1>4, <4>1, <4>2
      <4>. HIDE DEF i
      <4>5. as[i].market = ms[i] BY <1>n, <4>1
      <4>4. es[k].market = ms[i] BY <4>3, <4>5
      <4>. QED BY <1>1, <4>1, <4>2, <4>4
    <3>. QED BY <1>4, <3>1, <3>2
  <2>4. ms[j] \in ToSet(ms) BY <1>5
  <2>. QED BY <2>1, <2>2, <2>3, <2>4 DEF Firsts
<1>9. ASSUME NEW e \in ToSet(l)
      PROVE  e \in ToSet(was) \cup {EntryOf(m, "weather-tag") : m \in New}
  <2>1. PICK i \in DOMAIN l : e = l[i] BY <1>5
  <2>2. PICK k \in Firsts(es, D) : e = es[k] BY <1>6, <2>1
  <2>3. k \in D /\ k \in Nat BY <1>4, <2>2 DEF Firsts
  <2>4. CASE k <= n BY <1>4, <1>5, <2>2, <2>3, <2>4
  <2>5. CASE k > n
    <3>. DEFINE j == k - n
    <3>1. j \in DOMAIN ms BY <1>4, <2>3, <2>5
    <3>2. n + j = k BY <1>4, <2>3
    <3>3. es[k] = as[j] BY <1>4, <3>1, <3>2
    <3>. HIDE DEF j, New
    <3>4. ms[j] \in New BY <1>8, <2>2, <3>1, <3>2
    <3>5. e = EntryOf(ms[j], "weather-tag") BY <1>n, <2>2, <3>1, <3>3
    <3>. QED BY <3>4, <3>5
  <2>. QED BY <1>4, <2>3, <2>4, <2>5
<1>10. ASSUME NEW e \in ToSet(was) PROVE e \in ToSet(l)
  <2>1. PICK i \in DOMAIN was : e = was[i] BY <1>5
  <2>2. i \in Firsts(es, D) /\ es[i] = e BY <1>4, <1>7, <2>1
  <2>3. PICK k \in DOMAIN l : l[k] = es[i] BY <1>6, <2>2
  <2>. QED BY <1>5, <2>2, <2>3
<1>11. ASSUME NEW m \in New PROVE EntryOf(m, "weather-tag") \in ToSet(l)
  <2>1. PICK j \in DOMAIN ms : m = ms[j] BY <1>5
  <2>. HIDE DEF New
  <2>2. n + j \in Firsts(es, D) BY <1>8, <2>1
  <2>3. PICK i \in DOMAIN l : l[i] = es[n + j] BY <1>6, <2>2
  <2>4. es[n + j] = as[j] BY <1>4
  <2>5. l[i] = EntryOf(m, "weather-tag") BY <1>n, <2>1, <2>3, <2>4
  <2>. QED BY <1>5, <2>5
<1>. HIDE DEF New
<1>12. ToSet(l) = ToSet(was) \cup {EntryOf(m, "weather-tag") : m \in New}
  BY <1>9, <1>10, <1>11
<1>. QED BY <1>6, <1>12 DEF New
-----------------------------------------------------------------------------
(* The parser's verdict. *)

Obstacles == {"not_weather_candidate", "missing_date", "ValueError", "unsupported_weather_type",
              "missing_location", "missing_comparator", "missing_threshold"}

\* What the parser guessed of a title, and how a title that parses comes out.
\* Two of the guesses never come together: any rain needs a title about rain
\* and without a number, a guessed metric one about neither.
LEMMA ParseVerdict ==
  ASSUME NEW title
  PROVE  /\ Parse(title).reason \in Obstacles \cup {"parsed"}
         /\ Parse(title).reason = "parsed" =>
              LET notes == Parse(title).spec.notes
              IN  /\ notes \subseteq {"metric_inferred", "unknown_location", "any_rain", "unit_inferred"}
                  /\ Parse(title).spec.known <=> "unknown_location" \notin notes
                  /\ ~("any_rain" \in notes /\ "unit_inferred" \in notes)
                  /\ ~("any_rain" \in notes /\ "metric_inferred" \in notes)
         /\ Parse(title).reason = "parsed" =>
              LET metric == IF Metric(title) = "none" THEN "high_temp" ELSE Metric(title)
                  match  == Threshold(title, metric)
                  spec   == Parse(title).spec
              IN  /\ DateIn(title) # NoDate /\ spec.days = Days(DateIn(title))
                  /\ spec.metric = metric /\ spec.threshold = match.value
                  /\ match # NoMatch /\ Comparator(title) # "none" =>
                        spec.comparator = Comparator(title)
                  /\ match.unit # "none" => spec.unit = match.unit
<1>. DEFINE date     == DateIn(title)
            metric   == IF Metric(title) = "none" THEN "high_temp" ELSE Metric(title)
            placed(p) == \E i \in DOMAIN title : title[i].place = p
            anyRain  == metric = "precip_sum" /\ AsksIfAnyRain(title)
            said     == Comparator(title)
            match    == Threshold(title, metric)
            guessed  == [metric_inferred |-> Metric(title) = "none",
                         unknown_location |-> ~placed("known"),
                         any_rain |-> match = NoMatch /\ anyRain,
                         unit_inferred |-> match # NoMatch /\ match.unit = "none"]
            obstacles == <<
                <<"not_weather_candidate", ~SomeOf(title, Candidates)>>,
                <<"missing_date", date = NoDate>>,
                <<"ValueError", Raises(date)>>,
                <<"unsupported_weather_type", guessed.metric_inferred /\ SomeOf(title, Unsupported)>>,
                <<"missing_location", ~placed("known") /\ ~placed("unknown")>>,
                <<"missing_comparator", said = "none" /\ ~anyRain>>,
                <<"missing_threshold", match = NoMatch /\ ~anyRain>> >>
            met  == {i \in DOMAIN obstacles : obstacles[i][2]}
            spec == [metric |-> metric,
                     comparator |-> IF guessed.any_rain \/ said = "none" THEN "above" ELSE said,
                     threshold |-> match.value,
                     unit |-> IF match.unit # "none" THEN match.unit
                              ELSE IF metric = "precip_sum" THEN "inch" ELSE "F",
                     known |-> placed("known"), days |-> Days(date),
                     notes |-> {n \in DOMAIN guessed : guessed[n]}]
<1>1. Parse(title) = IF met # {} THEN [reason |-> obstacles[Min(met)][1], spec |-> NoSpec]
                     ELSE [reason |-> "parsed", spec |-> spec]
  BY DEF Parse
<1>2. CASE met # {}
  <2>1. DOMAIN obstacles = 1 .. 7 OBVIOUS
  <2>2. \A i \in 1 .. 7 : obstacles[i][1] \in Obstacles BY DEF Obstacles
  <2>. HIDE DEF obstacles
  <2>3. Min(met) \in 1 .. 7
    <3>. DEFINE A == met
    <3>1. A \subseteq 1 .. 7 /\ A # {} BY <1>2, <2>1
    <3>. HIDE DEF A
    <3>2. A \subseteq Nat BY <3>1
    <3>3. PICK x \in A : \A y \in A : ~(<<y, x>> \in OpToRel(<, Nat))
      BY Zenon, <3>1, <3>2, NatLessThanWellFounded, WFMin
    <3>4. \A y \in A : ~(y < x) BY <3>2, <3>3 DEF OpToRel
    <3>5. \A y \in A : x <= y BY <3>2, <3>4
    <3>6. Min(A) \in 1 .. 7 BY <3>1, <3>5 DEF Min
    <3>. QED BY <3>6 DEF A
  <2>4. Parse(title).reason \in Obstacles
    <3>. DEFINE k == Min(met)
    <3>1. Parse(title).reason = obstacles[k][1] BY <1>1, <1>2
    <3>2. k \in 1 .. 7 BY <2>3
    <3>. HIDE DEF k
    <3>. QED BY <2>2, <3>1, <3>2
  <2>. QED BY <2>4 DEF Obstacles
<1>3. CASE met = {}
  <2>1. Parse(title).reason = "parsed" /\ Parse(title).spec = spec
    <3>. HIDE DEF met, spec, obstacles
    <3>. QED BY <1>1, <1>3
  <2>2. spec.notes = {n \in DOMAIN guessed : guessed[n]} /\ (spec.known <=> placed("known"))
    OBVIOUS
  <2>3. DOMAIN guessed = {"metric_inferred", "unknown_location", "any_rain", "unit_inferred"}
    OBVIOUS
  <2>4. guessed.any_rain => metric = "precip_sum" /\ match = NoMatch
    OBVIOUS
  <2>5. guessed.metric_inferred => metric = "high_temp" OBVIOUS
  <2>6. guessed.unit_inferred => match # NoMatch OBVIOUS
  <2>7. guessed.unknown_location <=> ~placed("known") OBVIOUS
  <2>8. date # NoDate
    <3>1. 2 \in DOMAIN obstacles OBVIOUS
    <3>. HIDE DEF date, metric, placed, anyRain, said, match, guessed
    <3>2. obstacles[2][2] = (date = NoDate) OBVIOUS
    <3>. HIDE DEF obstacles
    <3>3. ~obstacles[2][2] BY <1>3, <3>1
    <3>. QED BY <3>2, <3>3
  <2>9. /\ spec.days = Days(date) /\ spec.metric = metric /\ spec.threshold = match.value
        /\ match # NoMatch /\ said # "none" => spec.comparator = said
        /\ match.unit # "none" => spec.unit = match.unit
    OBVIOUS
  <2>10. Parse(title).reason = "parsed" =>
            /\ DateIn(title) # NoDate /\ Parse(title).spec.days = Days(DateIn(title))
            /\ Parse(title).spec.metric = metric /\ Parse(title).spec.threshold = match.value
            /\ match # NoMatch /\ Comparator(title) # "none" =>
                  Parse(title).spec.comparator = Comparator(title)
            /\ match.unit # "none" => Parse(title).spec.unit = match.unit
    <3>. HIDE DEF spec, guessed, match, metric, placed
    <3>. QED BY <2>1, <2>8, <2>9
  <2>. HIDE DEF spec, guessed, placed
  <2>11. Parse(title).reason = "parsed" =>
              LET notes == Parse(title).spec.notes
              IN  /\ notes \subseteq {"metric_inferred", "unknown_location", "any_rain", "unit_inferred"}
                  /\ Parse(title).spec.known <=> "unknown_location" \notin notes
                  /\ ~("any_rain" \in notes /\ "unit_inferred" \in notes)
                  /\ ~("any_rain" \in notes /\ "metric_inferred" \in notes)
    <3>. HIDE DEF match, metric
    <3>. QED BY <2>1, <2>2, <2>3, <2>4, <2>5, <2>6, <2>7
  <2>. QED BY <2>1, <2>10, <2>11
<1>. QED BY SMTT(30), <1>2, <1>3

-----------------------------------------------------------------------------
(* Questions put the usual way. *)

\* The six words of a title, put together the way Written does it.
SixWords(a, b, c, d, e, f) == (<<a>> \o <<b>>) \o ((<<c>> \o (<<d>> \o <<e>>)) \o <<f>>)

LEMMA SixWordsAre ==
  ASSUME NEW a, NEW b, NEW c, NEW d, NEW e, NEW f, NEW t, t = SixWords(a, b, c, d, e, f)
  PROVE  /\ DOMAIN t = 1 .. 6
         /\ t[1] = a /\ t[2] = b /\ t[3] = c /\ t[4] = d /\ t[5] = e /\ t[6] = f
<1>. DEFINE S == {a, b, c, d, e, f}
     Joins(s, u, v) ==
       v \in Seq(S) /\ Len(v) = Len(s) + Len(u) /\ \A i \in 1 .. Len(s) + Len(u) :
          v[i] = IF i <= Len(s) THEN s[i] ELSE u[i - Len(s)]
     ab == <<a>> \o <<b>>
     de == <<d>> \o <<e>>
     cde == <<c>> \o de
     cdef == cde \o <<f>>
<1>1. /\ <<a>> \in Seq(S) /\ <<b>> \in Seq(S) /\ <<c>> \in Seq(S) /\ <<d>> \in Seq(S)
      /\ <<e>> \in Seq(S) /\ <<f>> \in Seq(S)
  OBVIOUS
<1>. HIDE DEF S
<1>2. \A s, u \in Seq(S) : Joins(s, u, s \o u) BY Zenon, ConcatProperties
<1>3. Joins(<<a>>, <<b>>, ab) /\ Joins(<<d>>, <<e>>, de) BY Zenon, <1>1, <1>2
<1>4. Joins(<<c>>, de, cde) BY Zenon, <1>1, <1>2, <1>3
<1>5. Joins(cde, <<f>>, cdef) BY Zenon, <1>1, <1>2, <1>4
<1>6. Joins(ab, cdef, t) BY ZenonT(60), <1>1, <1>2, <1>3, <1>5 DEF SixWords
<1>. HIDE DEF ab, de, cde, cdef
<1>7. Len(ab) = 2 /\ ab[1] = a /\ ab[2] = b BY <1>3
<1>8. Len(de) = 2 /\ de[1] = d /\ de[2] = e BY <1>3
<1>9. Len(cde) = 3 /\ cde[1] = c /\ cde[2] = d /\ cde[3] = e BY <1>4, <1>8
<1>10. Len(cdef) = 4 /\ cdef[1] = c /\ cdef[2] = d /\ cdef[3] = e /\ cdef[4] = f
  BY <1>5, <1>9
<1>. QED BY <1>6, <1>7, <1>10


\* A question put the usual way is six words: will, subject, place, then number
\* and comparator at n and c, either first, and the date.
Spoken(title, ask, n, c) ==
    /\ DOMAIN title = 1 .. 6 /\ n # c
    /\ title[1].says = {"will"} /\ title[2].says = Lexicon[ask.subject].says
    /\ title[3].says = {} /\ title[6].says = {}
    /\ title[n].says = IF ask.unit = "F" THEN {"degree sign"} ELSE {}
    /\ title[c].says = Lexicon[ask.comparator].says
    /\ title[n].numbers = ask.number /\ title[n].unit = ask.unit
    /\ title[3].place = "known" /\ title[6].date = ask.date
    /\ \A i \in 1 .. 5 : title[i].date = NoDate
    /\ \A i \in 1 .. 6 : i \notin {n, 6} => title[i].numbers = <<>>
    /\ \A i \in 1 .. 6 : i # 3 => title[i].place = "none"

LEMMA PlainTitle ==
  ASSUME NEW ask \in Ask, Plain(ask), ask.date # NoDate
  PROVE  \E n, c \in {4, 5} : Spoken(Written(ask), ask, n, c)
<1>. DEFINE will == Word({"will"})
            subject == Word(Lexicon[ask.subject].says)
            place == [Word({}) EXCEPT !.place = "known"]
            number == [Word(IF ask.unit = "F" THEN {"degree sign"} ELSE {}) EXCEPT
                         !.numbers = ask.number, !.unit = ask.unit]
            comparator == Word(Lexicon[ask.comparator].says)
            date == [Word({}) EXCEPT !.date = ask.date, !.numbers = ask.date.numbers]
            title == Written(ask)
            plain(d, e) == SixWords(will, subject, place, d, e, date)
<1>1. /\ ask.place = "known" /\ ask.number # <<>> /\ ask.order = "plain"
      /\ ask.comparator # "none" /\ ask.subject # "none"
  BY Zenon DEF Plain, Ask, Subjects
<1>2. /\ ask.comparator \in Trailing => title = plain(number, comparator)
      /\ ask.comparator \notin Trailing => title = plain(comparator, number)
  BY <1>1 DEF Written, SixWords
<1>3. /\ will.says = {"will"} /\ will.numbers = <<>> /\ will.date = NoDate /\ will.place = "none"
      /\ subject.says = Lexicon[ask.subject].says /\ subject.numbers = <<>>
      /\ subject.date = NoDate /\ subject.place = "none"
      /\ place.says = {} /\ place.numbers = <<>> /\ place.date = NoDate /\ place.place = "known"
      /\ number.says = (IF ask.unit = "F" THEN {"degree sign"} ELSE {}) /\ number.numbers = ask.number
      /\ number.unit = ask.unit /\ number.date = NoDate /\ number.place = "none"
      /\ comparator.says = Lexicon[ask.comparator].says /\ comparator.numbers = <<>>
      /\ comparator.date = NoDate /\ comparator.place = "none"
      /\ date.says = {} /\ date.date = ask.date /\ date.place = "none"
  BY DEF Word
<1>. HIDE DEF will, subject, place, number, comparator, date
<1>4. ASSUME NEW d, NEW e, title = plain(d, e)
      PROVE  /\ DOMAIN title = 1 .. 6
             /\ title[1] = will /\ title[2] = subject /\ title[3] = place
             /\ title[4] = d /\ title[5] = e /\ title[6] = date
  <2>1. title = SixWords(will, subject, place, d, e, date) BY <1>4
  <2>. HIDE DEF title
  <2>. QED BY <2>1, SixWordsAre
<1>. HIDE DEF title
<1>6. CASE ask.comparator \in Trailing
  <2>1. /\ DOMAIN title = 1 .. 6
        /\ title[1] = will /\ title[2] = subject /\ title[3] = place
        /\ title[4] = number /\ title[5] = comparator /\ title[6] = date
    BY <1>2, <1>4, <1>6
  <2>2. \A i \in 1 .. 5 : i = 1 \/ i = 2 \/ i = 3 \/ i = 4 \/ i = 5 OBVIOUS
  <2>3. \A i \in 1 .. 6 : i = 1 \/ i = 2 \/ i = 3 \/ i = 4 \/ i = 5 \/ i = 6 OBVIOUS
  <2>6. \A i \in 1 .. 5 : title[i].date = NoDate BY Zenon, <1>3, <2>1, <2>2
  <2>7. \A i \in 1 .. 6 : i \notin {4, 6} => title[i].numbers = <<>> BY Zenon, <1>3, <2>1, <2>3
  <2>8. \A i \in 1 .. 6 : i # 3 => title[i].place = "none" BY Zenon, <1>3, <2>1, <2>3
  <2>4. Spoken(title, ask, 4, 5) BY Zenon, <1>3, <2>1, <2>6, <2>7, <2>8 DEF Spoken
  <2>5. 4 \in {4, 5} /\ 5 \in {4, 5} OBVIOUS
  <2>. QED BY Zenon, <2>4, <2>5 DEF title
<1>7. CASE ask.comparator \notin Trailing
  <2>1. /\ DOMAIN title = 1 .. 6
        /\ title[1] = will /\ title[2] = subject /\ title[3] = place
        /\ title[4] = comparator /\ title[5] = number /\ title[6] = date
    BY <1>2, <1>4, <1>7
  <2>2. \A i \in 1 .. 5 : i = 1 \/ i = 2 \/ i = 3 \/ i = 4 \/ i = 5 OBVIOUS
  <2>3. \A i \in 1 .. 6 : i = 1 \/ i = 2 \/ i = 3 \/ i = 4 \/ i = 5 \/ i = 6 OBVIOUS
  <2>6. \A i \in 1 .. 5 : title[i].date = NoDate BY Zenon, <1>3, <2>1, <2>2
  <2>7. \A i \in 1 .. 6 : i \notin {5, 6} => title[i].numbers = <<>> BY Zenon, <1>3, <2>1, <2>3
  <2>8. \A i \in 1 .. 6 : i # 3 => title[i].place = "none" BY Zenon, <1>3, <2>1, <2>3
  <2>4. Spoken(title, ask, 5, 4) BY ZenonT(60), <1>3, <2>1, <2>6, <2>7, <2>8 DEF Spoken
  <2>5. 4 \in {4, 5} /\ 5 \in {4, 5} OBVIOUS
  <2>. QED BY Zenon, <2>4, <2>5 DEF title
<1>. QED BY <1>6, <1>7

\* The least element is the one that Min takes.
LEMMA MinIs ==
  ASSUME NEW A \in SUBSET Int, NEW x \in A, \A y \in A : x <= y
  PROVE  Min(A) = x
<1>1. \A z \in A : (\A y \in A : z <= y) => z = x
  <2>. SUFFICES ASSUME NEW z \in A, \A y \in A : z <= y PROVE z = x OBVIOUS
  <2>1. z <= x /\ x <= z /\ x \in Int /\ z \in Int OBVIOUS
  <2>. QED BY <2>1
<1>2. Min(A) = CHOOSE z \in A : \A y \in A : z <= y BY DEF Min
<1>. QED BY <1>1, <1>2

\* The first row with a phrase of the title decides.
LEMMA DecidesRow ==
  ASSUME NEW title, NEW table, DOMAIN table \subseteq Int, NEW i \in DOMAIN table,
         SomeOf(title, table[i].phrases),
         \A k \in DOMAIN table : k < i => ~SomeOf(title, table[k].phrases)
  PROVE  Decide(title, table) = table[i].means
<1>. DEFINE rows == {k \in DOMAIN table : SomeOf(title, table[k].phrases)}
<1>1. i \in rows /\ rows \in SUBSET Int OBVIOUS
<1>2. \A k \in rows : i <= k OBVIOUS
<1>3. Min(rows) = i
  <2>. HIDE DEF rows
  <2>. QED BY <1>1, <1>2, MinIs
<1>. QED BY <1>1, <1>3 DEF Decide

LEMMA SpokenSays ==
  ASSUME NEW title, NEW ask, NEW n \in {4, 5}, NEW c \in {4, 5}, Spoken(title, ask, n, c)
  PROVE  Says(title) = {"will"} \cup Lexicon[ask.subject].says \cup Lexicon[ask.comparator].says
                         \cup (IF ask.unit = "F" THEN {"degree sign"} ELSE {})
<1>1. DOMAIN title = 1 .. 6 BY Zenon DEF Spoken
<1>2. Says(title) = UNION {title[i].says : i \in 1 .. 6} BY <1>1 DEF Says
<1>3. \A i \in 1 .. 6 : i = 1 \/ i = 2 \/ i = 3 \/ i = n \/ i = c \/ i = 6
  <2>1. n # c BY Zenon DEF Spoken
  <2>2. (n = 4 /\ c = 5) \/ (n = 5 /\ c = 4) BY <2>1
  <2>3. \A i \in 1 .. 6 : i = 1 \/ i = 2 \/ i = 3 \/ i = 4 \/ i = 5 \/ i = 6 OBVIOUS
  <2>. QED BY <2>2, <2>3
<1>4. 1 \in 1 .. 6 /\ 2 \in 1 .. 6 /\ 3 \in 1 .. 6 /\ 6 \in 1 .. 6 /\ n \in 1 .. 6 /\ c \in 1 .. 6
  OBVIOUS
<1>5. \A i \in 1 .. 6 : title[i].says \subseteq
        {"will"} \cup Lexicon[ask.subject].says \cup Lexicon[ask.comparator].says
                         \cup (IF ask.unit = "F" THEN {"degree sign"} ELSE {})
  <2>1. /\ title[1].says = {"will"} /\ title[2].says = Lexicon[ask.subject].says
        /\ title[3].says = {} /\ title[6].says = {}
        /\ title[n].says = IF ask.unit = "F" THEN {"degree sign"} ELSE {}
        /\ title[c].says = Lexicon[ask.comparator].says
    BY Zenon DEF Spoken
  <2>. QED BY Zenon, <1>3, <2>1
<1>6. ASSUME NEW s, s \in {"will"} \cup Lexicon[ask.subject].says \cup Lexicon[ask.comparator].says
                         \cup (IF ask.unit = "F" THEN {"degree sign"} ELSE {})
      PROVE  \E i \in 1 .. 6 : s \in title[i].says
  <2>1. s \in title[1].says \/ s \in title[2].says \/ s \in title[n].says \/ s \in title[c].says
    BY ZenonT(60), <1>6 DEF Spoken
  <2>. QED BY <1>4, <2>1
<1>. QED BY Zenon, <1>2, <1>5, <1>6

\* What the words of a question put the usual way say of its subject.
LEMMA SubjectSays ==
  ASSUME NEW ask \in Ask, Plain(ask)
  PROVE  /\ ask.subject \in {"rain", "rainfall", "high temperature", "low temperature"}
         /\ ask.comparator \in Comparators
         /\ Lexicon[ask.subject].says \subseteq {"rain", "rainfall", " high ", "high temperature",
                                          " low ", "low temperature", "temperature"}
         /\ Lexicon[ask.comparator].says \subseteq {"above", "or above", "or higher", "higher", "reach",
                                          "below", "or below", "at most"}
<1>1. ask.subject \in Subjects /\ ask.comparator \in {"none"} \cup Comparators BY DEF Ask
<1>2. ask.subject \in {"rain", "rainfall", "high temperature", "low temperature"}
  BY Zenon, <1>1 DEF Plain, Lexicon, Phrase, Subjects
<1>3. ask.comparator \in Comparators BY Zenon, <1>1 DEF Plain
<1>4. Lexicon[ask.subject].says \subseteq {"rain", "rainfall", " high ", "high temperature",
                                          " low ", "low temperature", "temperature"}
  BY Zenon, <1>2 DEF Lexicon, Phrase, Subjects
<1>5. Lexicon[ask.comparator].says \subseteq {"above", "or above", "or higher", "higher", "reach",
                                          "below", "or below", "at most"}
  BY Zenon, <1>3 DEF Lexicon, Phrase, Subjects, Comparators, Trailing
<1>. QED BY Zenon, <1>2, <1>3, <1>4, <1>5

LEMMA MetricRead ==
  ASSUME NEW title, NEW ask \in Ask, Plain(ask), NEW n \in {4, 5}, NEW c \in {4, 5},
         Spoken(title, ask, n, c)
  PROVE  Metric(title) = Lexicon[ask.subject].means
<1>. DEFINE deg == IF ask.unit = "F" THEN {"degree sign"} ELSE {}
<1>1. Says(title) = {"will"} \cup Lexicon[ask.subject].says \cup Lexicon[ask.comparator].says \cup deg
  BY Zenon, SpokenSays
<1>. HIDE DEF deg
<1>2. deg \subseteq {"degree sign"} BY Zenon DEF deg
<1>3. DOMAIN MetricRows = 1 .. 3 BY DEF MetricRows
<1>4. \A i \in 1 .. 3 : i = 1 \/ i = 2 \/ i = 3 OBVIOUS
<1>5. CASE ask.subject \in {"rain", "rainfall"}
  <2>1. Lexicon[ask.subject].says = {ask.subject} /\ Lexicon[ask.subject].means = "precip_sum"
    BY Zenon, <1>5 DEF Lexicon, Phrase, Subjects
  <2>2. SomeOf(title, MetricRows[1].phrases) BY <1>1, <1>5, <2>1 DEF SomeOf, MetricRows
  <2>3. Metric(title) = MetricRows[1].means BY <1>3, <1>4, <2>2, DecidesRow DEF Metric
  <2>. QED BY <2>1, <2>3 DEF MetricRows
<1>6. CASE ask.subject = "low temperature"
  <2>1. /\ Lexicon[ask.subject].says = {" low ", "low temperature", "temperature"}
        /\ Lexicon[ask.subject].means = "low_temp"
    BY Zenon, <1>6 DEF Lexicon, Phrase, Subjects
  <2>2. SomeOf(title, MetricRows[2].phrases) BY Zenon, <1>1, <2>1 DEF SomeOf, MetricRows
  <2>3. ~SomeOf(title, MetricRows[1].phrases)
    BY Zenon, <1>1, <1>2, <2>1, SubjectSays DEF SomeOf, MetricRows
  <2>4. Metric(title) = MetricRows[2].means BY <1>3, <1>4, <2>2, <2>3, DecidesRow DEF Metric
  <2>. QED BY Zenon, <2>1, <2>4 DEF MetricRows
<1>7. CASE ask.subject = "high temperature"
  <2>1. /\ Lexicon[ask.subject].says = {" high ", "high temperature", "temperature"}
        /\ Lexicon[ask.subject].means = "high_temp"
    BY Zenon, <1>7 DEF Lexicon, Phrase, Subjects
  <2>2. SomeOf(title, MetricRows[3].phrases) BY Zenon, <1>1, <2>1 DEF SomeOf, MetricRows
  <2>3. ~SomeOf(title, MetricRows[1].phrases) /\ ~SomeOf(title, MetricRows[2].phrases)
    BY Zenon, <1>1, <1>2, <2>1, SubjectSays DEF SomeOf, MetricRows
  <2>4. Metric(title) = MetricRows[3].means BY <1>3, <1>4, <2>2, <2>3, DecidesRow DEF Metric
  <2>. QED BY Zenon, <2>1, <2>4 DEF MetricRows
<1>. QED BY Zenon, <1>5, <1>6, <1>7, SubjectSays


LEMMA ComparatorRead ==
  ASSUME NEW title, NEW ask \in Ask, Plain(ask), NEW n \in {4, 5}, NEW c \in {4, 5},
         Spoken(title, ask, n, c)
  PROVE  Comparator(title) = Lexicon[ask.comparator].means
<1>. DEFINE said == Lexicon[ask.comparator].says
            means == Lexicon[ask.comparator].means
            row(i) == ComparatorRows[i].phrases
<1>3. /\ row(1) = {"or higher", "or above", "at least", "reach", "hit", "hotter"}
      /\ row(2) = {"above", "over", "exceed", "greater than"}
      /\ row(3) = {"or lower", "or below", "at most", "no more than"}
      /\ row(4) = {"below", "under", "less than", "colder"}
      /\ ComparatorRows[1].means = "at_or_above" /\ ComparatorRows[2].means = "above"
      /\ ComparatorRows[3].means = "at_or_below" /\ ComparatorRows[4].means = "below"
  BY Zenon DEF ComparatorRows
<1>1. \A i \in 1 .. 4 : SomeOf(title, row(i)) <=> said \cap row(i) # {}
  <2>. DEFINE other == {"will", "degree sign", "rain", "rainfall", " high ", "high temperature",
                        " low ", "low temperature", "temperature"}
  <2>1. \A i \in 1 .. 4 : i = 1 \/ i = 2 \/ i = 3 \/ i = 4 OBVIOUS
  <2>. HIDE DEF row, said
  <2>2. /\ row(1) \cap other = {} /\ row(2) \cap other = {}
        /\ row(3) \cap other = {} /\ row(4) \cap other = {}
    BY Zenon, <1>3
  <2>3. Says(title) \subseteq other \cup said /\ said \subseteq Says(title)
    <3>1. Says(title) = {"will"} \cup Lexicon[ask.subject].says
              \cup Lexicon[ask.comparator].says
              \cup (IF ask.unit = "F" THEN {"degree sign"} ELSE {})
      BY ZenonT(60), SpokenSays
    <3>2. Lexicon[ask.subject].says \subseteq other BY Zenon, SubjectSays
    <3>. QED BY Zenon, <3>1, <3>2 DEF said
  <2>. HIDE DEF other
  <2>4. \A i \in 1 .. 4 : row(i) \cap other = {} BY <2>1, <2>2
  <2>. QED BY <2>3, <2>4 DEF SomeOf
<1>2. DOMAIN ComparatorRows = 1 .. 4 BY DEF ComparatorRows
<1>4. ask.comparator \in {"above", "reach", "below", "at most", "or above", "or higher", "or below"}
  BY ZenonT(60), SubjectSays DEF Comparators, Trailing
<1>5. /\ ask.comparator = "above" => said = {"above"} /\ means = "above"
      /\ ask.comparator = "reach" => said = {"reach"} /\ means = "at_or_above"
      /\ ask.comparator = "below" => said = {"below"} /\ means = "below"
      /\ ask.comparator = "at most" => said = {"at most"} /\ means = "at_or_below"
      /\ ask.comparator = "or above" => said = {"or above", "above"} /\ means = "at_or_above"
      /\ ask.comparator = "or higher" => said = {"or higher", "higher"} /\ means = "at_or_above"
      /\ ask.comparator = "or below" => said = {"or below", "below"} /\ means = "at_or_below"
  BY Zenon DEF Lexicon, Phrase, Subjects, Comparators, Trailing
<1>6. ASSUME NEW i \in 1 .. 4, said \cap row(i) # {}, ComparatorRows[i].means = means,
             \A k \in 1 .. 4 : k < i => said \cap row(k) = {}
      PROVE  Comparator(title) = means
  BY <1>1, <1>2, <1>6, DecidesRow DEF Comparator
<1>. HIDE DEF said, means, row
<1>7. \A k \in 1 .. 4 : (k < 1 => FALSE) /\ (k < 2 => k = 1) /\ (k < 3 => k = 1 \/ k = 2)
                         /\ (k < 4 => k = 1 \/ k = 2 \/ k = 3)
  OBVIOUS
<1>8. CASE ask.comparator \in {"reach", "or above", "or higher"}
  <2>1. said \cap row(1) # {} /\ ComparatorRows[1].means = means BY Zenon, <1>3, <1>5, <1>8
  <2>. QED BY <1>6, <1>7, <2>1 DEF means
<1>9. CASE ask.comparator = "above"
  <2>1. /\ said \cap row(2) # {} /\ ComparatorRows[2].means = means /\ said \cap row(1) = {}
    BY Zenon, <1>3, <1>5, <1>9
  <2>. QED BY <1>6, <1>7, <2>1 DEF means
<1>10. CASE ask.comparator \in {"at most", "or below"}
  <2>1. /\ said \cap row(3) # {} /\ ComparatorRows[3].means = means
        /\ said \cap row(1) = {} /\ said \cap row(2) = {}
    BY Zenon, <1>3, <1>5, <1>10
  <2>. QED BY <1>6, <1>7, <2>1 DEF means
<1>11. CASE ask.comparator = "below"
  <2>1. /\ said \cap row(4) # {} /\ ComparatorRows[4].means = means
        /\ said \cap row(1) = {} /\ said \cap row(2) = {} /\ said \cap row(3) = {}
    BY Zenon, <1>3, <1>5, <1>11
  <2>. QED BY <1>6, <1>7, <2>1 DEF means
<1>. QED BY Zenon, <1>4, <1>8, <1>9, <1>10, <1>11

\* The only date of the title is the one that was asked for.
LEMMA DateRead ==
  ASSUME NEW title, NEW ask, NEW n \in {4, 5}, NEW c \in {4, 5}, Spoken(title, ask, n, c),
         DateIn(title) # NoDate
  PROVE  DateIn(title) = ask.date
<1>. DEFINE dated(form) == {i \in DOMAIN title : title[i].date.form = form}
            first == IF dated("month") # {} THEN dated("month") ELSE dated("slash")
<1>1. first # {} BY DEF DateIn
<1>2. first \subseteq {6}
  <2>1. DOMAIN title = 1 .. 6 /\ \A i \in 1 .. 5 : title[i].date = NoDate BY Zenon DEF Spoken
  <2>2. \A i \in 1 .. 6 : i \in 1 .. 5 \/ i = 6 OBVIOUS
  <2>3. NoDate.form = "none" BY DEF NoDate
  <2>4. \A i \in DOMAIN title : title[i].date.form \in {"month", "slash"} => i = 6
    BY SMTT(30), <2>1, <2>2, <2>3
  <2>. QED BY <2>4
<1>3. DateIn(title) = title[Min(first)].date BY <1>1 DEF DateIn
<1>. HIDE DEF first
<1>4. Min(first) = 6
  <2>0. first = {6} BY <1>1, <1>2
  <2>1. 6 \in first /\ first \in SUBSET Int /\ \A i \in first : 6 <= i BY <2>0
  <2>. QED BY <2>1, MinIs
<1>. QED BY Zenon, <1>3, <1>4 DEF Spoken

\* The number that is asked for stands before the date's, and beside the
\* comparator: it is the first of all matches, and of those near a comparator.
LEMMA ThresholdRead ==
  ASSUME NEW title, NEW ask \in Ask, Plain(ask), NEW n \in {4, 5}, NEW c \in {4, 5},
         Spoken(title, ask, n, c), NEW metric, metric = Lexicon[ask.subject].means
  PROVE  /\ Threshold(title, metric) # NoMatch
         /\ Threshold(title, metric).value = ask.number[1]
         /\ Threshold(title, metric).unit = ask.unit
<1>. DEFINE units == IF metric = "precip_sum" THEN {"inch", "mm"} ELSE {"F", "C"}
            match(i, k) ==
              [at |-> i, nth |-> k, value |-> title[i].numbers[k],
               unit |-> IF UnitAt(title, i, k) \in units THEN UnitAt(title, i, k) ELSE "none"]
            all == UNION {{match(i, k) : k \in DOMAIN title[i].numbers} : i \in DOMAIN title}
            ms == Matches(title, metric)
            near == {m \in ms : NearComparator(title, m.at)}
            asked == match(n, 1)
<1>1. /\ DOMAIN title = 1 .. 6 /\ n # c
      /\ title[n].numbers = ask.number /\ title[n].unit = ask.unit
      /\ \A i \in 1 .. 6 : i \notin {n, 6} => title[i].numbers = <<>>
  BY Zenon DEF Spoken
<1>2. ask.unit \in units /\ ask.unit # "none" BY Zenon DEF Plain
<1>3. ask.number \in Seq(Int) /\ 1 \in DOMAIN ask.number
  <2>1. ask.number \in Seq(Int) BY DEF Ask
  <2>2. ask.number # <<>> BY Zenon DEF Plain
  <2>. QED BY <2>1, <2>2, EmptySeq
<1>4. UnitAt(title, n, 1) = ask.unit BY <1>1, <1>2 DEF UnitAt
<1>5. asked.at = n /\ asked.nth = 1 /\ asked.value = ask.number[1] /\ asked.unit = ask.unit
  BY <1>1, <1>2, <1>4
<1>6. ms = IF metric = "precip_sum" THEN {m \in all : m.unit # "none"} ELSE all
  BY DEF Matches
<1>7. asked \in ms
  <2>1. asked \in all BY <1>1, <1>3
  <2>. HIDE DEF all, asked, ms
  <2>. QED BY <1>2, <1>5, <1>6, <2>1
<1>8. ASSUME NEW m \in ms
      PROVE  m.at \in {n, 6} /\ (m.at = n => m.nth \in DOMAIN ask.number /\ m = match(n, m.nth))
  <2>1. m \in all
    <3>. HIDE DEF all, ms
    <3>. QED BY <1>6, <1>8
  <2>4. PICK i \in DOMAIN title : \E k \in DOMAIN title[i].numbers : m = match(i, k) BY <2>1
  <2>2. PICK k \in DOMAIN title[i].numbers : m = match(i, k) BY <2>4
  <2>3. m.at = i /\ m.nth = k BY <2>2
  <2>5. i \in {n, 6}
    <3>1. DOMAIN <<>> = {} OBVIOUS
    <3>2. title[i].numbers # <<>> BY <3>1
    <3>. QED BY <1>1, <3>2
  <2>. HIDE DEF match, all, ms
  <2>6. m.at = n => m.nth \in DOMAIN ask.number /\ m = match(n, m.nth) BY <1>1, <2>2, <2>3
  <2>. QED BY <2>3, <2>5, <2>6
<1>. HIDE DEF ms, all
<1>9. ASSUME NEW S \in SUBSET ms, asked \in S PROVE FirstOf(S) = asked
  <2>. DEFINE First(m) == \A q \in S : m.at < q.at \/ (m.at = q.at /\ m.nth <= q.nth)
  <2>1. First(asked)
    <3>. SUFFICES ASSUME NEW q \in S
                  PROVE  asked.at < q.at \/ (asked.at = q.at /\ asked.nth <= q.nth)
      OBVIOUS
    <3>1. q.at \in {n, 6} /\ (q.at = n => q.nth \in DOMAIN ask.number) BY <1>8
    <3>2. DOMAIN ask.number = 1 .. Len(ask.number) /\ Len(ask.number) \in Nat BY <1>3
    <3>. HIDE DEF asked
    <3>. QED BY <1>5, <3>1, <3>2
  <2>2. ASSUME NEW m \in S, First(m) PROVE m = asked
    <3>1. m.at \in {n, 6} /\ (m.at = n => m.nth \in DOMAIN ask.number /\ m = match(n, m.nth))
      BY <1>8
    <3>2. DOMAIN ask.number = 1 .. Len(ask.number) /\ Len(ask.number) \in Nat BY <1>3
    <3>3. m.at < n \/ (m.at = n /\ m.nth <= 1) BY <1>5, <1>9, <2>2
    <3>. HIDE DEF match
    <3>5. m.at = n BY <3>1, <3>3
    <3>6. m.nth \in Nat /\ m.nth >= 1 BY <3>1, <3>2, <3>5
    <3>4. m.at = n /\ m.nth = 1 BY <3>3, <3>5, <3>6
    <3>. QED BY <3>1, <3>4
  <2>3. FirstOf(S) = CHOOSE m \in S : First(m) BY DEF FirstOf
  <2>. HIDE DEF First, asked
  <2>. QED BY <1>9, <2>1, <2>2, <2>3
<1>10. near = {} \/ asked \in near
  <2>. SUFFICES ASSUME NEW m \in near PROVE NearComparator(title, n)
    BY <1>5, <1>7
  <2>1. m \in ms /\ NearComparator(title, m.at) OBVIOUS
  <2>2. CASE m.at = n BY <2>1, <2>2
  <2>3. CASE m.at = 6
    <3>. DEFINE strict == {"above", "below", "over", "under", "higher", "lower"}
    <3>1. PICK k \in 1 .. 6 : k # 6 /\ 6 <= k + Reach /\ title[k].says \cap strict # {}
      BY <1>1, <2>1, <2>3 DEF NearComparator
    <3>2. k = c
      <4>1. /\ title[1].says = {"will"} /\ title[2].says = Lexicon[ask.subject].says
            /\ title[3].says = {}
            /\ title[n].says = IF ask.unit = "F" THEN {"degree sign"} ELSE {}
        BY Zenon DEF Spoken
      <4>2. title[2].says \cap strict = {} BY Zenon, <4>1, SubjectSays
      <4>3. k \notin {1, 2, 3, n} BY Zenon, <3>1, <4>1, <4>2
      <4>4. k = 4 \/ k = 5 BY <3>1, <4>3
      <4>. QED BY <1>1, <4>3, <4>4
    <3>3. Reach >= 1 /\ Reach \in Nat BY <3>1, ReachAssumption
    <3>4. c # n /\ c <= n + Reach /\ n <= c + Reach BY <1>1, <3>3
    <3>. QED BY <1>1, <3>1, <3>2, <3>4 DEF NearComparator
  <2>. QED BY <1>8, <2>1, <2>2, <2>3
<1>11. Threshold(title, metric) = asked
  <2>1. Threshold(title, metric) =
          IF ms = {} THEN NoMatch ELSE FirstOf(IF near = {} THEN ms ELSE near)
    BY DEF Threshold, ms
  <2>2. near \in SUBSET ms /\ ms \in SUBSET ms OBVIOUS
  <2>. HIDE DEF near, asked
  <2>. QED BY <1>7, <1>9, <1>10, <2>1, <2>2
<1>. QED BY <1>5, <1>11 DEF NoMatch

\* Without a date in the question there is none in the title.
LEMMA UndatedTitle ==
  ASSUME NEW ask \in Ask, Plain(ask), ask.date = NoDate
  PROVE  DateIn(Written(ask)) = NoDate
<1>. DEFINE will == Word({"will"})
            subject == Word(Lexicon[ask.subject].says)
            place == [Word({}) EXCEPT !.place = "known"]
            number == [Word(IF ask.unit = "F" THEN {"degree sign"} ELSE {}) EXCEPT
                         !.numbers = ask.number, !.unit = ask.unit]
            comparator == Word(Lexicon[ask.comparator].says)
            words == {will, subject, place, number, comparator}
            title == Written(ask)
            plain(d, e) == (<<will>> \o <<subject>>) \o ((<<place>> \o (<<d>> \o <<e>>)) \o <<>>)
<1>1. /\ ask.place = "known" /\ ask.number # <<>> /\ ask.order = "plain"
      /\ ask.comparator # "none" /\ ask.subject # "none"
  BY Zenon DEF Plain, Ask, Subjects
<1>2. title = plain(number, comparator) \/ title = plain(comparator, number)
  BY <1>1 DEF Written
<1>3. /\ will.date = NoDate /\ subject.date = NoDate /\ place.date = NoDate
      /\ number.date = NoDate /\ comparator.date = NoDate
  <2>1. will.date = NoDate BY DEF Word
  <2>2. subject.date = NoDate BY DEF Word
  <2>3. place.date = NoDate BY DEF Word
  <2>4. number.date = NoDate BY DEF Word
  <2>5. comparator.date = NoDate BY DEF Word
  <2>. HIDE DEF will, subject, place, number, comparator
  <2>. QED BY <2>1, <2>2, <2>3, <2>4, <2>5
<1>4. /\ will \in words /\ subject \in words /\ place \in words
      /\ number \in words /\ comparator \in words
  OBVIOUS
<1>. HIDE DEF will, subject, place, number, comparator
<1>n. \A w \in words : w.date = NoDate BY <1>3
<1>. HIDE DEF words
<1>5. /\ <<will>> \in Seq(words) /\ <<subject>> \in Seq(words) /\ <<place>> \in Seq(words)
      /\ <<number>> \in Seq(words) /\ <<comparator>> \in Seq(words) /\ <<>> \in Seq(words)
  BY <1>4
<1>6. \A s, t \in Seq(words) : s \o t \in Seq(words) BY Zenon, ConcatProperties
<1>7. <<will>> \o <<subject>> \in Seq(words) BY <1>5, <1>6
<1>8. ASSUME NEW d, NEW e, <<d>> \in Seq(words), <<e>> \in Seq(words)
      PROVE  plain(d, e) \in Seq(words)
  <2>1. <<d>> \o <<e>> \in Seq(words) BY <1>6, <1>8
  <2>2. <<place>> \o (<<d>> \o <<e>>) \in Seq(words) BY <1>5, <1>6, <2>1
  <2>3. (<<place>> \o (<<d>> \o <<e>>)) \o <<>> \in Seq(words) BY <1>5, <1>6, <2>2
  <2>. QED BY <1>6, <1>7, <2>3
<1>9. title \in Seq(words)
  <2>1. plain(number, comparator) \in Seq(words) /\ plain(comparator, number) \in Seq(words)
    BY <1>5, <1>8
  <2>. HIDE DEF plain, title
  <2>. QED BY <1>2, <2>1
<1>. HIDE DEF title
<1>10. \A i \in DOMAIN title : title[i].date.form = "none" BY <1>n, <1>9 DEF NoDate
<1>. QED BY <1>10 DEF DateIn, title

\* A question put the usual way, if it is parsed, is read as it was asked:
\* whatever its number, its date, and how far the parser looks for a comparator.
LEMMA PlainRead ==
  ASSUME NEW ask \in Ask, Plain(ask), Parse(Written(ask)).reason = "parsed"
  PROVE  LET spec == Parse(Written(ask)).spec
         IN  /\ spec.metric = Lexicon[ask.subject].means
             /\ spec.comparator = Lexicon[ask.comparator].means
             /\ spec.threshold = ask.number[1] /\ spec.unit = ask.unit
             /\ spec.days = Days(ask.date)
<1>. DEFINE title == Written(ask)
            spec == Parse(title).spec
            metric == IF Metric(title) = "none" THEN "high_temp" ELSE Metric(title)
            match == Threshold(title, metric)
<1>. HIDE DEF title
<1>1. /\ DateIn(title) # NoDate /\ spec.days = Days(DateIn(title))
      /\ spec.metric = metric /\ spec.threshold = match.value
      /\ match # NoMatch /\ Comparator(title) # "none" => spec.comparator = Comparator(title)
      /\ match.unit # "none" => spec.unit = match.unit
  <2>1. Parse(title).reason = "parsed" BY DEF title
  <2>. QED BY Zenon, <2>1, ParseVerdict
<1>2. ask.date # NoDate BY <1>1, UndatedTitle DEF title
<1>3. PICK n \in {4, 5}, c \in {4, 5} : Spoken(title, ask, n, c) BY <1>2, PlainTitle DEF title
<1>4. DateIn(title) = ask.date BY <1>1, <1>3, DateRead
<1>5. Metric(title) = Lexicon[ask.subject].means BY <1>3, MetricRead
<1>6. Comparator(title) = Lexicon[ask.comparator].means BY <1>3, ComparatorRead
<1>7. metric = Lexicon[ask.subject].means BY Zenon, <1>5 DEF Plain
<1>. HIDE DEF spec, metric
<1>8. match # NoMatch /\ match.value = ask.number[1] /\ match.unit = ask.unit
  BY <1>3, <1>7, ThresholdRead
<1>9. ask.unit # "none" BY Zenon DEF Plain
<1>10. Lexicon[ask.comparator].means # "none"
  BY Zenon, SubjectSays DEF Lexicon, Phrase, Subjects, Comparators, Trailing
<1>. HIDE DEF match
<1>11. /\ spec.metric = Lexicon[ask.subject].means
       /\ spec.comparator = Lexicon[ask.comparator].means
       /\ spec.threshold = ask.number[1] /\ spec.unit = ask.unit /\ spec.days = Days(ask.date)
  BY <1>1, <1>4, <1>6, <1>7, <1>8, <1>9, <1>10
<1>. QED BY <1>11 DEF spec, title
-----------------------------------------------------------------------------
(* The confidence of a spec. *)

\* The confidence of a spec is what the guesses leave of it.
PenaltyOf(notes) == [n \in notes |-> Penalty(n)]

LEMMA ConfidenceIs == ASSUME NEW notes PROVE Confidence(notes) = 100 - Sum(PenaltyOf(notes), notes)
<1>1. MapThenSumSet(Penalty, notes) = Sum(PenaltyOf(notes), notes)
  BY Zenon DEF Sum, MapThenSumSet, MapThenFoldSet, PenaltyOf
<1>. QED BY <1>1 DEF Confidence

\* Two guesses that come together cost more than thirty hundredths.
LEMMA TwoGuesses ==
  ASSUME NEW notes \in SUBSET {"metric_inferred", "any_rain", "unit_inferred"},
         ~("any_rain" \in notes /\ "unit_inferred" \in notes),
         ~("any_rain" \in notes /\ "metric_inferred" \in notes),
         Confidence(notes) >= 70
  PROVE  Cardinality(notes) <= 1
<1>1. CASE notes = {"metric_inferred", "unit_inferred"}
  <2>. DEFINE f == PenaltyOf(notes)
  <2>1. /\ f["metric_inferred"] = 20 /\ f["unit_inferred"] = 15
    BY <1>1 DEF PenaltyOf, Penalty
  <2>2. notes = {"unit_inferred"} \cup {"metric_inferred"} BY <1>1
  <2>3. IsFiniteSet({"unit_inferred"}) BY FS_Singleton
  <2>4. Sum(f, {"unit_inferred"} \cup {"metric_inferred"})
          = Sum(f, {"unit_inferred"}) + f["metric_inferred"]
    <3>. HIDE DEF f
    <3>1. \A y \in {"unit_inferred"} \cup {"metric_inferred"} : f[y] \in Nat BY <2>1
    <3>. QED BY <2>3, <3>1, SumAdd
  <2>5. Sum(f, {"unit_inferred"}) = 15
    <3>. HIDE DEF f
    <3>1. Sum(f, {} \cup {"unit_inferred"}) = Sum(f, {}) + f["unit_inferred"]
      <4>1. \A y \in {} \cup {"unit_inferred"} : f[y] \in Nat BY <2>1
      <4>2. IsFiniteSet({}) BY FS_EmptySet
      <4>. QED BY <4>1, <4>2, SumAdd
    <3>2. {} \cup {"unit_inferred"} = {"unit_inferred"} OBVIOUS
    <3>. QED BY <2>1, <3>1, <3>2, SumEmpty
  <2>6. Confidence(notes) = 65
    <3>1. Confidence(notes) = 100 - Sum(f, notes) BY ConfidenceIs
    <3>. HIDE DEF f
    <3>. QED BY <2>1, <2>2, <2>4, <2>5, <3>1
  <2>. QED BY <2>6
<1>2. CASE notes = {} BY <1>2, FS_EmptySet
<1>3. CASE \E n : notes = {n} BY <1>3, FS_Singleton
<1>. QED BY ZenonT(60), <1>1, <1>2, <1>3
-----------------------------------------------------------------------------
(* The report. *)

Tally == [seen : Nat, parsed : Nat, forecasted : Nat, signals : Nat, orders : Nat,
          reasons : [Reasons -> Nat]]

\* The reasons of a scan that come after a title was counted as parsed.
Late == {"stale_event_date", "no_order_book", "forecast_fetch_failed", "order_book_fetch_failed"}

LEMMA ReasonsFinite == IsFiniteSet(Reasons)
<1>. DEFINE named == <<"missing_condition_id", "unknown_location", "low_confidence",
                "stale_event_date", "no_order_book", "forecast_fetch_failed",
                "order_book_fetch_failed", "no_signal", "not_weather_candidate",
                "missing_date", "unsupported_weather_type", "missing_location",
                "missing_comparator", "missing_threshold", "parsed">>
            at == [i \in 1 .. 15 |-> named[i]]
<1>1. \A i \in 1 .. 15 : at[i] \in Reasons BY DEF Reasons
<1>2. \A r \in Reasons : \E i \in 1 .. 15 : at[i] = r
  <2>1. /\ at[1] = "missing_condition_id" /\ at[2] = "unknown_location"
        /\ at[3] = "low_confidence" /\ at[4] = "stale_event_date"
        /\ at[5] = "no_order_book" /\ at[6] = "forecast_fetch_failed"
        /\ at[7] = "order_book_fetch_failed" /\ at[8] = "no_signal"
        /\ at[9] = "not_weather_candidate" /\ at[10] = "missing_date"
        /\ at[11] = "unsupported_weather_type" /\ at[12] = "missing_location"
        /\ at[13] = "missing_comparator" /\ at[14] = "missing_threshold" /\ at[15] = "parsed"
    OBVIOUS
  <2>. HIDE DEF at
  <2>. QED BY <2>1 DEF Reasons
<1>3. at \in [1 .. 15 -> Reasons] BY <1>1
<1>4. IsFiniteSet(1 .. 15)
  <2>1. \A n \in Nat : IsFiniteSet(1 .. n) BY FS_Interval
  <2>. QED BY <2>1
<1>. HIDE DEF at
<1>5. at \in Surjection(1 .. 15, Reasons) BY <1>2, <1>3 DEF Surjection
<1>. QED BY <1>4, <1>5, FS_Surjection

\* The counts of some of the reasons, and one more for one of them.
LEMMA SumBump ==
  ASSUME NEW f \in [Reasons -> Nat], NEW R \in SUBSET Reasons, NEW r \in Reasons
  PROVE  /\ Sum(f, R) \in Nat /\ \A x \in R : f[x] <= Sum(f, R)
         /\ Sum([f EXCEPT ![r] = @ + 1], R) = Sum(f, R) + (IF r \in R THEN 1 ELSE 0)
<1>. DEFINE g == [f EXCEPT ![r] = @ + 1]
<1>1. IsFiniteSet(R) BY ReasonsFinite, FS_Subset
<1>2. /\ \A x \in R : f[x] \in Nat /\ g[x] \in Nat
      /\ \A x \in R \ {r} : g[x] = f[x]
      /\ g[r] = f[r] + 1 /\ f[r] \in Nat
  OBVIOUS
<1>. HIDE DEF g
<1>3. Sum(f, R) \in Nat BY <1>1, <1>2, SumType
<1>4. \A x \in R : f[x] <= Sum(f, R)
  <2>. TAKE x \in R
  <2>1. Sum(f, R) = f[x] + Sum(f, R \ {x}) BY <1>1, <1>2, SumRemove
  <2>2. Sum(f, R \ {x}) \in Nat
    <3>1. IsFiniteSet(R \ {x}) BY <1>1, FS_Subset
    <3>2. \A y \in R \ {x} : f[y] \in Nat BY <1>2
    <3>. QED BY <3>1, <3>2, SumType
  <2>. QED BY <1>2, <2>1, <2>2
<1>5. Sum(g, R) = Sum(f, R) + (IF r \in R THEN 1 ELSE 0)
  <2>1. CASE r \in R
    <3>1. Sum(g, R) + f[r] = Sum(f, R) + g[r] BY <1>1, <1>2, <2>1, SumChange
    <3>2. Sum(g, R) \in Nat BY <1>1, <1>2, SumType
    <3>. QED BY <1>2, <1>3, <2>1, <3>1, <3>2
  <2>2. CASE r \notin R
    <3>1. \A x \in R : f[x] = g[x] BY <1>2, <2>2
    <3>2. Sum(f, R) = Sum(g, R) BY <1>1, <3>1, SumSame
    <3>. QED BY <1>3, <2>2, <3>2
  <2>. QED BY <2>1, <2>2
<1>. QED BY <1>3, <1>4, <1>5 DEF g

\* The counters of a report and what they add up to.
AllReasons(count) == Sum(count.reasons, Reasons)
LateReasons(count) == Sum(count.reasons, Late)

LEMMA TallySums ==
  ASSUME NEW count \in Tally
  PROVE  /\ AllReasons(count) \in Nat /\ LateReasons(count) \in Nat
         /\ \A r \in Reasons : count.reasons[r] \in 0 .. AllReasons(count)
<1>. DEFINE f == count.reasons
<1>1. f \in [Reasons -> Nat] /\ Late \in SUBSET Reasons
  BY DEF Tally, Late, Reasons
<1>2. "parsed" \in Reasons BY DEF Reasons
<1>3. \A r \in Reasons : f[r] \in Nat BY <1>1
<1>. HIDE DEF f
<1>4. Sum(f, Reasons) \in Nat /\ \A x \in Reasons : f[x] <= Sum(f, Reasons)
  BY <1>1, <1>2, SumBump
<1>5. Sum(f, Late) \in Nat BY <1>1, <1>2, SumBump
<1>. QED BY <1>3, <1>4, <1>5 DEF AllReasons, LateReasons, f

LEMMA BumpEffect ==
  ASSUME NEW count \in Tally, NEW r \in Reasons
  PROVE  LET b == Bump(count, r)
         IN  /\ b \in Tally /\ b.seen = count.seen /\ b.parsed = count.parsed
             /\ b.forecasted = count.forecasted /\ b.signals = count.signals
             /\ b.orders = count.orders
             /\ AllReasons(b) = AllReasons(count) + 1
             /\ LateReasons(b) = LateReasons(count) + (IF r \in Late THEN 1 ELSE 0)
             /\ \A x \in Reasons :
                  b.reasons[x] = IF x = r THEN count.reasons[x] + 1 ELSE count.reasons[x]
<1>. DEFINE b == Bump(count, r)
            f == count.reasons
<1>1. f \in [Reasons -> Nat] /\ Late \in SUBSET Reasons BY DEF Tally, Late, Reasons
<1>2. /\ b.reasons = [f EXCEPT ![r] = @ + 1]
      /\ b.seen = count.seen /\ b.parsed = count.parsed
      /\ b.forecasted = count.forecasted /\ b.signals = count.signals
      /\ b.orders = count.orders
  BY DEF Bump, Tally
<1>3. b \in Tally BY <1>1 DEF Bump, Tally
<1>4. \A x \in Reasons : b.reasons[x] = IF x = r THEN f[x] + 1 ELSE f[x]
  BY <1>1, <1>2
<1>5. /\ Sum(b.reasons, Reasons) = Sum(f, Reasons) + 1
      /\ Sum(b.reasons, Late) = Sum(f, Late) + (IF r \in Late THEN 1 ELSE 0)
  <2>. DEFINE g == [f EXCEPT ![r] = @ + 1]
  <2>1. b.reasons = g BY <1>2
  <2>. HIDE DEF b, f
  <2>2. Sum(g, Reasons) = Sum(f, Reasons) + (IF r \in Reasons THEN 1 ELSE 0)
    BY <1>1, SumBump
  <2>3. Sum(g, Late) = Sum(f, Late) + (IF r \in Late THEN 1 ELSE 0)
    BY <1>1, SumBump
  <2>. HIDE DEF g
  <2>. QED BY <2>1, <2>2, <2>3
<1>. HIDE DEF b, f
<1>. QED BY <1>2, <1>3, <1>4, <1>5 DEF b, f, AllReasons, LateReasons
-----------------------------------------------------------------------------
(* Where the command is, and its locals. *)

Before  == {"idle", "keyword", "both", "weather-tag"}
OnTitle == {"parse", "forecast", "books"}
Loop    == OnTitle \cup {"next", "order", "end"}

Local(c) ==
    /\ c = [entry |-> c.entry, ask |-> c.ask, spec |-> c.spec, tokens |-> c.tokens,
            yes |-> c.yes, signal |-> c.signal]
    /\ c.ask \in Ask /\ c.tokens \subseteq Sides /\ c.yes \in Chance

ControlInv ==
    /\ command \in [name : {"none", "scan", "audit"}, paper : BOOLEAN,
                    bankroll : Bankrolls \cup {0}]
    /\ pc \in Before \cup Loop \cup {"aborted"}
    /\ list \in Seq(Entry) /\ done \subseteq Markets
    /\ Local(cur) /\ report \in Tally
    /\ pc # "idle" => command.name # "none"
    /\ pc \in OnTitle => cur.entry \in Entry
    /\ pc \in {"forecast", "books", "order"} => command.name = "scan"

LEMMA IdleLocal == Local(Idle)
<1>1. NoAsk \in Ask
  <2>1. NoDate \in Dates BY DEF NoDate, Dates
  <2>. QED BY <2>1 DEF NoAsk, Ask, Subjects, WordOrders
<1>. QED BY <1>1 DEF Local, Idle, Chance, Zero

LEMMA ControlInit == Init => ControlInv
<1>. SUFFICES ASSUME Init PROVE ControlInv OBVIOUS
<1>1. report \in Tally BY DEF Init, Tally
<1>2. list \in Seq(Entry) BY DEF Init
<1>. QED BY <1>1, <1>2, IdleLocal DEF Init, ControlInv, NoCommand, Before, OnTitle

\* A market is left with a reason.
LEMMA SkipControl ==
  ASSUME ControlInv, NEW from \in OnTitle, NEW count \in Tally, NEW r \in Reasons,
         SkipFor(from, count, r)
  PROVE  ControlInv'
<1>1. Bump(count, r) \in Tally BY BumpEffect
<1>. QED BY <1>1, IdleLocal DEF ControlInv, SkipFor, Go, OnTitle, Loop

\* A title is left before it counts as parsed, or after.
LEMMA TitleSkips ==
  ASSUME SkipTitle, ControlInv
  PROVE  /\ command.name = "scan"
         /\ \E r \in Reasons :
              \/ r \notin Late \cup {"no_signal"} /\ SkipFor("parse", report, r)
              \/ r \in Late /\ SkipFor("parse", [report EXCEPT !.parsed = @ + 1], r)
<1>1. command.name = "scan" BY DEF SkipTitle
<1>2. CASE Attempt.reason # "parsed"
  <2>1. Attempt.reason \in Obstacles \ {"ValueError"}
    BY <1>2, ParseVerdict DEF SkipTitle, Attempt
  <2>2. SkipFor("parse", report, Attempt.reason) BY <1>2 DEF SkipTitle
  <2>. QED BY <1>1, <2>1, <2>2 DEF Obstacles, Reasons, Late
<1>3. CASE Attempt.reason = "parsed"
  <2>. DEFINE doubt == Doubt(Attempt.spec)
  <2>1. doubt \in {"unknown_location", "low_confidence", "stale_event_date", "none"}
    BY DEF Doubt
  <2>2. \/ doubt # "none" /\ SkipFor("parse", Counted(doubt), doubt)
        \/ doubt = "none" /\ SkipFor("parse", Counted(doubt), "no_order_book")
    BY <1>3 DEF SkipTitle
  <2>. HIDE DEF doubt
  <2>3. CASE doubt \in {"unknown_location", "low_confidence"}
    <3>1. Counted(doubt) = report BY <2>3 DEF Counted
    <3>. QED BY <1>1, <2>2, <2>3, <3>1 DEF Reasons, Late
  <2>4. CASE doubt \in {"stale_event_date", "none"}
    <3>1. Counted(doubt) = [report EXCEPT !.parsed = @ + 1] BY <2>4 DEF Counted
    <3>. QED BY <1>1, <2>2, <2>4, <3>1 DEF Reasons, Late
  <2>. QED BY <2>1, <2>3, <2>4
<1>. QED BY <1>2, <1>3

\* One counter more.
LEMMA TallyMore ==
  ASSUME NEW count \in Tally
  PROVE  /\ [count EXCEPT !.parsed = @ + 1] \in Tally
         /\ [count EXCEPT !.forecasted = @ + 1] \in Tally
         /\ [count EXCEPT !.signals = @ + 1] \in Tally
         /\ [count EXCEPT !.orders = @ + 1] \in Tally
  BY DEF Tally

\* The actions that leave a market with a reason, in one form.
LEMMA Skips ==
  ASSUME ControlInv, SkipTitle \/ NoForecast \/ NoBooks \/ NoSignal
  PROVE  /\ command.name = "scan"
         /\ \E from \in OnTitle, r \in Reasons, count \in Tally :
              /\ SkipFor(from, count, r)
              /\ \/ from = "parse" /\ count = report /\ r \notin Late \cup {"no_signal"}
                 \/ from = "parse" /\ count = [report EXCEPT !.parsed = @ + 1] /\ r \in Late
                 \/ from # "parse" /\ count = report /\ r \in Late
                 \/ from = "books" /\ count = Forecasted /\ r = "no_signal"
<1>1. report \in Tally BY DEF ControlInv
<1>2. [report EXCEPT !.parsed = @ + 1] \in Tally /\ Forecasted \in Tally
  BY <1>1, TallyMore DEF Forecasted
<1>3. CASE SkipTitle BY <1>1, <1>2, <1>3, TitleSkips DEF OnTitle
<1>4. CASE NoForecast
  <2>1. SkipFor("forecast", report, "forecast_fetch_failed") BY <1>4 DEF NoForecast
  <2>2. command.name = "scan" BY <2>1 DEF SkipFor, Go, ControlInv
  <2>. QED BY <1>1, <2>1, <2>2 DEF OnTitle, Late, Reasons
<1>5. CASE NoBooks
  <2>1. SkipFor("books", report, "order_book_fetch_failed") BY <1>5 DEF NoBooks
  <2>2. command.name = "scan" BY <2>1 DEF SkipFor, Go, ControlInv
  <2>. QED BY <1>1, <2>1, <2>2 DEF OnTitle, Late, Reasons
<1>6. CASE NoSignal
  <2>1. SkipFor("books", Forecasted, "no_signal") BY <1>6 DEF NoSignal
  <2>2. command.name = "scan" BY <2>1 DEF SkipFor, Go, ControlInv
  <2>. QED BY <1>2, <2>1, <2>2 DEF OnTitle, Reasons
<1>. QED BY <1>3, <1>4, <1>5, <1>6

\* The audit counts the verdict, whatever it is.
LEMMA AuditEffect ==
  ASSUME ControlInv, AuditTitle
  PROVE  \E r \in Reasons :
            /\ r # "no_signal"
            /\ report' = [Bump(report, r) EXCEPT !.parsed = IF r = "parsed" THEN @ + 1 ELSE @]
            /\ pc = "parse" /\ pc' = "next" /\ command.name = "audit" /\ report' \in Tally
<1>1. Attempt.reason \in (Obstacles \cup {"parsed"}) \ {"ValueError"}
  BY ParseVerdict DEF AuditTitle, Attempt
<1>2. Attempt.reason \in Reasons /\ Attempt.reason # "no_signal"
  BY <1>1 DEF Obstacles, Reasons
<1>. DEFINE r == Attempt.reason
            b == Bump(report, r)
<1>3. report' = [b EXCEPT !.parsed = IF r = "parsed" THEN @ + 1 ELSE @]
  BY DEF AuditTitle
<1>4. b \in Tally BY <1>2, BumpEffect DEF ControlInv
<1>5. pc = "parse" /\ pc' = "next" /\ command.name = "audit" BY DEF AuditTitle, Go
<1>6. r \in Reasons /\ r # "no_signal" BY <1>2
<1>. HIDE DEF r
<1>7. report' \in Tally
  <2>. HIDE DEF b
  <2>. QED BY <1>3, <1>4 DEF Tally
<1>. QED BY <1>3, <1>5, <1>6, <1>7

\* The markets of a request, one after the other and without those that came
\* before, are a list of entries.
LEMMA FetchControl ==
  ASSUME ControlInv, FetchKeyword \/ FetchTagged
  PROVE  /\ ControlInv' /\ report' = [report EXCEPT !.seen = Len(list')]
         /\ pc \in Before \ {"idle"} /\ pc' \in {"next", "weather-tag"}
         /\ command' = command /\ cur' = cur /\ signals' = signals /\ orders' = orders
         /\ list' \in Seq(Entry)
<1>1. \E es \in Seq(Entry) : Listed(Dedupe(es))
  <2>1. CASE FetchKeyword
    <3>1. PICK ms \in SetToAllKPermutations(Markets) : Listed(Dedupe(Entries(ms, "keyword")))
      BY <2>1 DEF FetchKeyword
    <3>. QED BY <3>1, ListingType
  <2>2. CASE FetchTagged
    <3>1. PICK ms \in SetToAllKPermutations(Markets) :
             Listed(Dedupe(list \o Entries(ms, "weather-tag")))
      BY <2>2 DEF FetchTagged
    <3>2. Entries(ms, "weather-tag") \in Seq(Entry) /\ list \in Seq(Entry)
      BY ListingType DEF ControlInv
    <3>3. list \o Entries(ms, "weather-tag") \in Seq(Entry) BY <3>2
    <3>. QED BY <3>1, <3>3
  <2>. QED BY <2>1, <2>2
<1>2. PICK es \in Seq(Entry) : Listed(Dedupe(es)) BY <1>1
<1>3. Dedupe(es) \in Seq(Entry) BY DedupeFirsts DEF Deduplicated
<1>4. /\ list' = Dedupe(es) /\ report' = [report EXCEPT !.seen = Len(Dedupe(es))]
      /\ UNCHANGED <<command, cur, done, signals, orders>>
  BY <1>2 DEF Listed
<1>5. pc \in Before \ {"idle"} /\ pc' \in {"next", "weather-tag"}
  BY DEF FetchKeyword, FetchTagged, Go, Before
<1>6. report' \in Tally
  <2>1. Len(list') \in Nat BY <1>3, <1>4
  <2>. QED BY <1>4, <2>1 DEF ControlInv, Tally
<1>7. ControlInv' BY <1>3, <1>4, <1>5, <1>6 DEF ControlInv, Before, OnTitle, Loop
<1>. QED BY <1>3, <1>4, <1>5, <1>7

\* The next market is skipped, or taken up.
LEMMA TakeUpEffect ==
  ASSUME ControlInv, TakeUp
  PROVE  /\ ControlInv' /\ pc = "next" /\ list # <<>> /\ Len(list) = Len(list') + 1
         /\ command' = command /\ signals' = signals /\ orders' = orders
         /\ \/ /\ command.name = "scan" /\ pc' = "next"
               /\ report' = Bump(report, "missing_condition_id")
            \/ pc' = "parse" /\ report' = report
<1>. DEFINE e == Head(list)
<1>1. /\ pc = "next" /\ list # <<>> /\ list \in Seq(Entry) /\ report \in Tally
      /\ Local(cur)
  BY Zenon DEF TakeUp, ControlInv
<1>2. e \in Entry /\ Tail(list) \in Seq(Entry) /\ Len(list) = Len(Tail(list)) + 1
  BY <1>1
<1>3. e.market \in Markets BY <1>2 DEF Entry
<1>4. /\ list' = Tail(list) /\ done' = done \cup {e.market}
      /\ UNCHANGED <<command, signals, orders>>
  BY Zenon DEF TakeUp
<1>5. CASE command.name = "scan" /\ e.market \notin Named
  <2>1. report' = Bump(report, "missing_condition_id") /\ pc' = pc /\ cur' = cur
    BY <1>5 DEF TakeUp
  <2>2. report' \in Tally BY <1>1, <2>1, BumpEffect DEF Reasons
  <2>. HIDE DEF e
  <2>3. ControlInv'
    BY <1>1, <1>2, <1>3, <1>4, <2>1, <2>2 DEF ControlInv, OnTitle, Loop
  <2>. QED BY <1>1, <1>2, <1>4, <1>5, <2>1, <2>3
<1>6. CASE ~(command.name = "scan" /\ e.market \notin Named)
  <2>1. PICK ask \in Asks[e.market] : cur' = [Idle EXCEPT !.entry = e, !.ask = ask]
    BY Zenon, <1>6 DEF TakeUp
  <2>2. pc' = "parse" /\ report' = report BY Zenon, <1>6 DEF TakeUp
  <2>3. ask \in Ask BY <1>3, <2>1, InputsAssumption
  <2>. HIDE DEF e
  <2>4. Local(cur') /\ cur'.entry = e
    BY <2>1, <2>3, IdleLocal DEF Local, Idle
  <2>5. ControlInv'
    <3>. HIDE DEF Local
    <3>. QED BY <1>1, <1>2, <1>3, <1>4, <2>2, <2>4 DEF ControlInv, OnTitle, Loop, Before
  <2>. QED BY <1>1, <1>2, <1>4, <2>2, <2>5
<1>. QED BY <1>5, <1>6

\* The command begins.
LEMMA StartEffect ==
  ASSUME ControlInv, StartScan \/ StartAudit
  PROVE  /\ ControlInv' /\ pc = "idle" /\ pc' \in Before \ {"idle"}
         /\ report' = report /\ list' = list /\ signals' = signals /\ orders' = orders
<1>1. pc = "idle" /\ pc' \in Before \ {"idle"}
  BY InputsAssumption DEF StartScan, StartAudit, Go, Before
<1>2. /\ command' \in [name : {"none", "scan", "audit"}, paper : BOOLEAN,
                       bankroll : Bankrolls \cup {0}]
      /\ command'.name # "none"
  <2>1. CASE StartScan
    <3>1. PICK paper \in BOOLEAN, bankroll \in Bankrolls :
            command' = [name |-> "scan", paper |-> paper, bankroll |-> bankroll]
      BY <2>1 DEF StartScan
    <3>. QED BY <3>1
  <2>2. CASE StartAudit
    <3>1. command' = [name |-> "audit", paper |-> FALSE, bankroll |-> 0]
      BY <2>2 DEF StartAudit, NoCommand
    <3>. QED BY <3>1
  <2>. QED BY <2>1, <2>2
<1>3. UNCHANGED <<list, cur, done, report, signals, orders>> BY DEF StartScan, StartAudit
<1>. QED BY <1>1, <1>2, <1>3 DEF ControlInv, Before, OnTitle, Loop

\* The forecast is asked for.
LEMMA AskEffect ==
  ASSUME ControlInv, AskForecast
  PROVE  /\ ControlInv' /\ pc = "parse" /\ pc' = "forecast" /\ command.name = "scan"
         /\ report' = [report EXCEPT !.parsed = @ + 1]
         /\ cur'.spec = Attempt.spec
<1>1. pc = "parse" /\ pc' = "forecast" /\ command.name = "scan"
  BY DEF AskForecast, Go
<1>2. PICK tokens \in {{"Yes"}, Sides} :
        cur' = [cur EXCEPT !.spec = Attempt.spec, !.tokens = tokens]
  BY DEF AskForecast
<1>3. Local(cur) BY DEF ControlInv
<1>4. Local(cur') /\ cur'.entry = cur.entry /\ cur'.spec = Attempt.spec
  BY <1>2, <1>3 DEF Local, Sides
<1>5. report' = [report EXCEPT !.parsed = @ + 1] BY DEF AskForecast, Counted
<1>6. report' \in Tally BY <1>5, TallyMore DEF ControlInv
<1>7. UNCHANGED <<command, list, done>> BY DEF AskForecast
<1>8. ControlInv'
  <2>. HIDE DEF Local
  <2>. QED BY <1>1, <1>4, <1>6, <1>7 DEF ControlInv, OnTitle, Loop, Before
<1>. QED BY <1>1, <1>4, <1>5, <1>8

\* The probability of the forecast is a share of its members.
LEMMA ForecastEffect ==
  ASSUME ControlInv, Forecast
  PROVE  ControlInv' /\ pc = "forecast" /\ pc' = "books"
<1>1. pc = "forecast" /\ pc' = "books" BY DEF Forecast, Go
<1>2. cur.entry.market \in Markets BY <1>1 DEF ControlInv, OnTitle, Entry
<1>3. PICK values \in Ensembles[cur.entry.market] :
        /\ DOMAIN Members(values) # {}
        /\ cur' = [cur EXCEPT !.ask = NoAsk, !.spec = NoSpec,
                              !.yes = ProbabilityYes(Members(values), cur.spec)]
  BY Zenon DEF Forecast
<1>4. values \in Seq({Missing} \cup Int) BY <1>2, <1>3, InputsAssumption
<1>. DEFINE ms == Members(values)
            D  == DOMAIN ms
            Y  == {i \in D : Test(cur.spec.comparator, ms[i], cur.spec.threshold)}
            yes == ProbabilityYes(ms, cur.spec)
<1>5. yes \in Chance
  <2>1. D \subseteq 1 .. Len(values) /\ Len(values) \in Nat BY <1>4 DEF Members
  <2>2. IsFiniteSet(1 .. Len(values)) BY <2>1, FS_Interval
  <2>3. yes = [num |-> Cardinality(Y), den |-> Cardinality(D)] BY DEF ProbabilityYes
  <2>4. Y \subseteq D /\ D # {} BY <1>3
  <2>. HIDE DEF D, Y, yes
  <2>5. IsFiniteSet(D) BY <2>1, <2>2, FS_Subset
  <2>6. IsFiniteSet(Y) /\ Cardinality(Y) <= Cardinality(D) BY <2>4, <2>5, FS_Subset
  <2>7. Cardinality(Y) \in Nat /\ Cardinality(D) \in Nat BY <2>5, <2>6, FS_CardinalityType
  <2>8. Cardinality(D) # 0 BY <2>4, <2>5, FS_EmptySet
  <2>. QED BY <2>3, <2>6, <2>7, <2>8 DEF Chance
<1>6. cur' = [cur EXCEPT !.ask = NoAsk, !.spec = NoSpec, !.yes = yes] BY <1>3
<1>. HIDE DEF yes
<1>7. Local(cur) BY DEF ControlInv
<1>8. Local(cur') /\ cur'.entry = cur.entry
  <2>1. NoAsk \in Ask BY IdleLocal DEF Local, Idle
  <2>. QED BY <1>5, <1>6, <1>7, <2>1 DEF Local
<1>9. UNCHANGED <<command, list, done, report>> BY DEF Forecast
<1>10. ControlInv'
  <2>. HIDE DEF Local
  <2>. QED BY <1>1, <1>8, <1>9 DEF ControlInv, OnTitle, Loop, Before
<1>. QED BY <1>1, <1>10
-----------------------------------------------------------------------------
(* The rows. *)

Stored == [market : Markets, side : Sides, yes : Chance, price : 1 .. 99, stake : Nat \ {0}]
Placed == [signal : Nat, market : Markets, side : Sides, price : 1 .. 99, stake : Nat \ {0},
           quantity : Nat]

\* A signal is sound for the bankroll of the command, and an order is one of
\* the signals: the rows are written once and the command keeps its options.
RowsInv ==
    /\ signals \in Seq(Stored) /\ orders \in Seq(Placed)
    /\ \A i \in DOMAIN signals : Sound(signals[i], signals[i].yes, command.bankroll)
    /\ \A i \in DOMAIN orders :
         LET o == orders[i]
         IN  /\ o.signal \in DOMAIN signals
             /\ o.side = signals[o.signal].side /\ o.price = signals[o.signal].price
             /\ o.stake = signals[o.signal].stake /\ o.quantity = Quantity(o.stake, o.price)
    /\ pc \in Before => signals = <<>> /\ orders = <<>>
    /\ pc = "order" => cur.signal \in DOMAIN signals

\* The row of a signal, and where the scan goes after it.
LEMMA SaveSignalEffect ==
  ASSUME ControlInv, RowsInv, SaveSignal
  PROVE  /\ ControlInv' /\ RowsInv' /\ Len(signals') = Len(signals) + 1
         /\ orders' = orders /\ command' = command /\ list' = list
         /\ pc = "books" /\ command.name = "scan"
         /\ pc' = IF command.paper THEN "order" ELSE "next"
         /\ report' = [Forecasted EXCEPT !.signals = @ + 1] /\ report' \in Tally
<1>1. /\ pc = "books" /\ pc' = IF command.paper THEN "order" ELSE "next"
      /\ cur' = IF command.paper THEN [cur EXCEPT !.yes = Zero, !.signal = Len(signals) + 1]
                ELSE Idle
      /\ report' = [Forecasted EXCEPT !.signals = @ + 1]
      /\ UNCHANGED <<command, list, done, orders>>
  BY DEF SaveSignal, StoreSignal, Go
<1>2. /\ command.name = "scan" /\ cur.entry.market \in Markets /\ cur.yes \in Chance
      /\ command.bankroll \in Nat /\ Local(cur)
  BY <1>1, InputsAssumption DEF ControlInv, OnTitle, Entry, Local
<1>0. PICK yesBook \in Book("Yes"), noBook \in Book("No") :
        \E o \in BuildSignal(yesBook, noBook, cur.yes, command.bankroll) :
          signals' = Append(signals,
              [market |-> cur.entry.market, side |-> o.side, yes |-> cur.yes,
               price |-> o.price, stake |-> o.stake])
  BY DEF SaveSignal, StoreSignal, BooksRead
<1>3. PICK o \in BuildSignal(yesBook, noBook, cur.yes, command.bankroll) :
        signals' = Append(signals, [market |-> cur.entry.market, side |-> o.side,
                                    yes |-> cur.yes, price |-> o.price, stake |-> o.stake])
  BY <1>0
<1>4. \A token : Book(token) \subseteq Book100
  <2>1. Books[cur.entry.market] \subseteq Book100 BY <1>2, InputsAssumption DEF Book100
  <2>2. NoBook \in Book100 BY DEF NoBook, Book100
  <2>. QED BY <2>1, <2>2 DEF Book
<1>5. Sound(o, cur.yes, command.bankroll) BY <1>2, <1>3, <1>4, SignalSound
<1>. DEFINE s == [market |-> cur.entry.market, side |-> o.side, yes |-> cur.yes,
                  price |-> o.price, stake |-> o.stake]
<1>6. s \in Stored /\ Sound(s, s.yes, command.bankroll)
  BY <1>2, <1>5 DEF Sound, Stored
<1>. HIDE DEF s
<1>7. signals' = Append(signals, s) BY <1>3 DEF s
<1>8. /\ signals' \in Seq(Stored) /\ Len(signals') = Len(signals) + 1
      /\ DOMAIN signals' = DOMAIN signals \cup {Len(signals) + 1}
      /\ \A i \in DOMAIN signals : signals'[i] = signals[i]
      /\ signals'[Len(signals) + 1] = s
  BY <1>6, <1>7 DEF RowsInv
<1>9. report' \in Tally /\ report \in Tally
  <2>1. Forecasted \in Tally BY TallyMore DEF Forecasted, ControlInv
  <2>. QED BY <1>1, <2>1, TallyMore DEF ControlInv
<1>10. Local(cur') /\ (command.paper => cur'.signal = Len(signals) + 1)
  <2>1. CASE command.paper
    <3>1. cur' = [cur EXCEPT !.yes = Zero, !.signal = Len(signals) + 1] BY <1>1, <2>1
    <3>2. Zero \in Chance BY DEF Zero, Chance
    <3>. QED BY <1>2, <3>1, <3>2 DEF Local
  <2>2. CASE ~command.paper BY <1>1, <2>2, IdleLocal
  <2>. QED BY <2>1, <2>2
<1>11. ControlInv'
  <2>. HIDE DEF Local
  <2>. QED BY <1>1, <1>2, <1>9, <1>10 DEF ControlInv, OnTitle, Loop, Before
<1>12. RowsInv'
  <2>1. \A i \in DOMAIN signals' : Sound(signals'[i], signals'[i].yes, command'.bankroll)
    BY <1>1, <1>6, <1>8 DEF RowsInv
  <2>2. \A i \in DOMAIN orders' :
         LET w == orders'[i]
         IN  /\ w.signal \in DOMAIN signals'
             /\ w.side = signals'[w.signal].side /\ w.price = signals'[w.signal].price
             /\ w.stake = signals'[w.signal].stake /\ w.quantity = Quantity(w.stake, w.price)
    <3>1. orders' = orders BY <1>1
    <3>. QED BY <1>8, <3>1 DEF RowsInv
  <2>3. pc' \notin Before BY <1>1 DEF Before
  <2>4. pc' = "order" => cur'.signal \in DOMAIN signals' BY <1>1, <1>8, <1>10
  <2>5. orders' \in Seq(Placed) BY <1>1 DEF RowsInv
  <2>. QED BY <1>8, <2>1, <2>2, <2>3, <2>4, <2>5 DEF RowsInv
<1>. QED BY <1>1, <1>2, <1>8, <1>9, <1>11, <1>12

\* The row of an order, from the row of its signal.
LEMMA SaveOrderEffect ==
  ASSUME ControlInv, RowsInv, SaveOrder
  PROVE  /\ ControlInv' /\ RowsInv' /\ Len(orders') = Len(orders) + 1
         /\ signals' = signals /\ command' = command /\ list' = list
         /\ pc = "order" /\ pc' = "next" /\ command.name = "scan"
         /\ report' = [report EXCEPT !.orders = @ + 1]
<1>. DEFINE s == signals[cur.signal]
            o == [signal |-> cur.signal, market |-> s.market, side |-> s.side,
                  price |-> s.price, stake |-> s.stake, quantity |-> Quantity(s.stake, s.price)]
<1>1. /\ pc = "order" /\ pc' = "next" /\ cur' = Idle
      /\ orders' = Append(orders, o)
      /\ report' = [report EXCEPT !.orders = @ + 1]
      /\ UNCHANGED <<command, list, done, signals>>
  BY DEF SaveOrder, Go
<1>2. cur.signal \in DOMAIN signals /\ signals \in Seq(Stored) /\ orders \in Seq(Placed)
  BY <1>1 DEF RowsInv
<1>3. s \in Stored /\ cur.signal \in Nat BY <1>2
<1>4. Quantity(s.stake, s.price) \in Nat
  <2>. DEFINE n == s.stake * 10000
              d == s.price
  <2>1. d \in Nat \ {0} /\ n \in Nat /\ ~(d <= 0) BY <1>3 DEF Stored
  <2>2. Quantity(s.stake, s.price) = Quantize([num |-> n, den |-> d]) BY <2>1 DEF Quantity
  <2>. HIDE DEF n, d
  <2>3. Quantize([num |-> n, den |-> d]) \in Nat BY <2>1, QuantizeNear
  <2>. QED BY <2>2, <2>3
<1>5. o \in Placed BY <1>3, <1>4 DEF Stored, Placed
<1>6. /\ o.signal = cur.signal /\ o.side = s.side /\ o.price = s.price
      /\ o.stake = s.stake /\ o.quantity = Quantity(o.stake, o.price)
  OBVIOUS
<1>7. s = signals[cur.signal] OBVIOUS
<1>. HIDE DEF o, s
<1>8. /\ orders' \in Seq(Placed) /\ Len(orders') = Len(orders) + 1
      /\ DOMAIN orders' = DOMAIN orders \cup {Len(orders) + 1}
      /\ \A i \in DOMAIN orders : orders'[i] = orders[i]
      /\ orders'[Len(orders) + 1] = o
  BY <1>1, <1>2, <1>5
<1>9. report' \in Tally BY <1>1, TallyMore DEF ControlInv
<1>10. ControlInv'
  <2>1. Local(cur') BY <1>1, IdleLocal
  <2>. HIDE DEF Local
  <2>. QED BY <1>1, <1>9, <2>1 DEF ControlInv, OnTitle, Loop, Before
<1>11. RowsInv'
  <2>1. ASSUME NEW i \in DOMAIN orders'
        PROVE  /\ orders'[i].signal \in DOMAIN signals'
               /\ orders'[i].side = signals'[orders'[i].signal].side
               /\ orders'[i].price = signals'[orders'[i].signal].price
               /\ orders'[i].stake = signals'[orders'[i].signal].stake
               /\ orders'[i].quantity = Quantity(orders'[i].stake, orders'[i].price)
    <3>1. signals' = signals BY <1>1
    <3>2. CASE i \in DOMAIN orders
      <4>1. orders'[i] = orders[i] BY <1>8, <3>2
      <4>. QED BY <3>1, <3>2, <4>1 DEF RowsInv
    <3>3. CASE i = Len(orders) + 1
      <4>1. orders'[i] = o BY <1>8, <3>3
      <4>. QED BY <1>2, <1>6, <1>7, <3>1, <4>1
    <3>. QED BY <1>8, <3>2, <3>3
  <2>2. \A i \in DOMAIN signals' : Sound(signals'[i], signals'[i].yes, command'.bankroll)
    BY <1>1 DEF RowsInv
  <2>3. pc' \notin Before /\ pc' # "order" BY <1>1 DEF Before
  <2>4. signals' \in Seq(Stored) BY <1>1, <1>2
  <2>. QED BY <1>8, <2>1, <2>2, <2>3, <2>4 DEF RowsInv
<1>12. command.name = "scan" BY <1>1 DEF ControlInv
<1>. QED BY <1>1, <1>8, <1>10, <1>11, <1>12

\* Nothing is written: the rows are as they were.
LEMMA RowsSame ==
  ASSUME RowsInv, signals' = signals, orders' = orders, command' = command,
         pc' \in Before => pc \in Before, pc' # "order"
  PROVE  RowsInv'
  BY DEF RowsInv

LEMMA RowsInit == Init => RowsInv
<1>. SUFFICES ASSUME Init PROVE RowsInv OBVIOUS
<1>1. signals = <<>> /\ orders = <<>> /\ pc = "idle" BY DEF Init
<1>. QED BY <1>1 DEF RowsInv

\* The end of the list, a date that raises, a crash.
LEMMA EndEffect ==
  ASSUME ControlInv, EndCommand \/ RaiseOnDate \/ Abort
  PROVE  /\ ControlInv' /\ pc' \in {"end", "aborted"} /\ pc # "idle"
         /\ pc' = "end" => pc = "next" /\ list = <<>>
         /\ UNCHANGED <<command, list, report, signals, orders>>
<1>1. /\ pc' \in {"end", "aborted"} /\ pc # "idle"
      /\ pc' = "end" => pc = "next" /\ list = <<>>
      /\ UNCHANGED <<command, list, done, report, signals, orders>>
      /\ cur' \in {cur, Idle}
  BY DEF EndCommand, RaiseOnDate, Abort, Go
<1>2. Local(cur') BY <1>1, IdleLocal DEF ControlInv
<1>3. ControlInv'
  <2>. HIDE DEF Local
  <2>. QED BY <1>1, <1>2 DEF ControlInv, OnTitle, Loop, Before
<1>. QED BY <1>1, <1>3

LEMMA BaseNext == ControlInv /\ RowsInv /\ [Next]_vars => ControlInv' /\ RowsInv'
<1>. SUFFICES ASSUME ControlInv, RowsInv, [Next]_vars PROVE ControlInv' /\ RowsInv' OBVIOUS
<1>1. CASE StartScan \/ StartAudit
  <2>1. /\ ControlInv' /\ pc = "idle" /\ pc' # "order" /\ signals' = signals /\ orders' = orders
    BY <1>1, StartEffect DEF Before
  <2>2. signals = <<>> /\ orders = <<>> BY <2>1 DEF RowsInv, Before
  <2>. QED BY <2>1, <2>2 DEF RowsInv
<1>2. CASE FetchKeyword \/ FetchTagged
  BY <1>2, FetchControl, RowsSame DEF Before
<1>3. CASE TakeUp
  <2>1. /\ ControlInv' /\ pc' \in {"next", "parse"} /\ command' = command
        /\ signals' = signals /\ orders' = orders
    BY <1>3, TakeUpEffect
  <2>. QED BY <2>1, RowsSame DEF Before
<1>4. CASE EndCommand \/ RaiseOnDate \/ Abort
  <2>1. /\ ControlInv' /\ pc' \in {"end", "aborted"} /\ command' = command
        /\ signals' = signals /\ orders' = orders
    BY <1>4, EndEffect
  <2>. QED BY <2>1, RowsSame DEF Before
<1>5. CASE AuditTitle
  <2>1. report' \in Tally /\ pc' = "next" /\ pc = "parse" BY <1>5, AuditEffect
  <2>2. cur' = Idle /\ UNCHANGED <<command, list, done, signals, orders>>
    BY <1>5 DEF AuditTitle
  <2>3. ControlInv' BY <2>1, <2>2, IdleLocal DEF ControlInv, OnTitle, Loop, Before
  <2>. QED BY <2>1, <2>2, <2>3, RowsSame DEF Before
<1>6. CASE SkipTitle \/ NoForecast \/ NoBooks \/ NoSignal
  <2>1. PICK from \in OnTitle, r \in Reasons, count \in Tally : SkipFor(from, count, r)
    BY <1>6, Skips
  <2>2. ControlInv' BY <2>1, SkipControl
  <2>3. pc' = "next" /\ UNCHANGED <<command, signals, orders>> BY <2>1 DEF SkipFor, Go
  <2>. QED BY <2>2, <2>3, RowsSame DEF Before
<1>7. CASE AskForecast
  <2>1. ControlInv' /\ pc' = "forecast" BY <1>7, AskEffect
  <2>2. UNCHANGED <<command, signals, orders>> BY <1>7 DEF AskForecast
  <2>. QED BY <2>1, <2>2, RowsSame DEF Before
<1>8. CASE Forecast
  <2>1. ControlInv' /\ pc' = "books" BY <1>8, ForecastEffect
  <2>2. UNCHANGED <<command, signals, orders>> BY <1>8 DEF Forecast
  <2>. QED BY <2>1, <2>2, RowsSame DEF Before
<1>9. CASE SaveSignal BY <1>9, SaveSignalEffect
<1>10. CASE SaveOrder BY <1>10, SaveOrderEffect
<1>11. CASE UNCHANGED vars
  BY <1>11 DEF vars, ControlInv, RowsInv, Local
<1>. QED BY <1>1, <1>2, <1>3, <1>4, <1>5, <1>6, <1>7, <1>8, <1>9, <1>10, <1>11 DEF Next

LEMMA BaseInvariant == Spec => [](ControlInv /\ RowsInv)
  BY ControlInit, RowsInit, BaseNext, PTL DEF Spec

\* What a signal puts at risk keeps the limits, the bankroll and Kelly's share
\* of it, for any limits, books and forecasts, although it is rounded.
THEOREM StakesLimited == Spec => []StakesWithinLimits
<1>1. RowsInv => StakesWithinLimits
  <2>. SUFFICES ASSUME RowsInv, NEW i \in DOMAIN signals
                PROVE  LET s == signals[i]
                           kelly == Kelly(ProbabilityOf(s.side, s.yes), s.price)
                       IN  /\ s.stake > 0 /\ s.stake <= command.bankroll
                           /\ s.stake <= MaxTrade /\ s.stake <= MaxMarket
                           /\ 2 * s.stake * Fraction * kelly.den
                                <= 2 * command.bankroll * kelly.num + Fraction * kelly.den
    BY DEF StakesWithinLimits
  <2>1. Sound(signals[i], signals[i].yes, command.bankroll) BY DEF RowsInv
  <2>. QED BY <2>1 DEF Sound
<1>. QED BY <1>1, BaseInvariant, PTL

\* An order pays if its side wins and gains on average on its forecast, rounded
\* as its quantity is, whenever the least edge asked for is a cent or more; the
\* default of PWMK_MIN_EDGE is eight.
THEOREM OrdersGain == ASSUME MinEdge >= 1 PROVE Spec => []OrdersExpectToGain
<1>1. RowsInv => OrdersExpectToGain
  <2>. SUFFICES ASSUME RowsInv, NEW i \in DOMAIN orders
                PROVE  LET o == orders[i]
                           p == ProbabilityOf(o.side, signals[o.signal].yes)
                       IN  /\ PaperPnl(o, o.side) > 0
                           /\ p.num * o.quantity > 100 * o.stake * p.den
                           /\ \A other \in Sides \ {o.side} : PaperPnl(o, other) = -100 * o.stake
    BY DEF OrdersExpectToGain
  <2>. DEFINE o == orders[i]
              s == signals[o.signal]
              p == ProbabilityOf(o.side, s.yes)
  <2>1. /\ o.signal \in DOMAIN signals /\ o.side = s.side /\ o.price = s.price
        /\ o.stake = s.stake /\ o.quantity = Quantity(o.stake, o.price)
        /\ signals \in Seq(Stored) /\ Sound(s, s.yes, command.bankroll)
    BY DEF RowsInv
  <2>2. s \in Stored BY <2>1
  <2>3. s.yes \in Chance BY <2>2 DEF Stored
  <2>4. p \in Chance BY <2>3, ChanceOfSide
  <2>5. /\ o.price \in 1 .. 99 /\ o.stake \in Nat \ {0}
        /\ 100 * p.num - o.price * p.den >= MinEdge * p.den
    BY <2>1 DEF Sound
  <2>. HIDE DEF o, p
  <2>6. /\ o.quantity \in Nat /\ o.quantity > 100 * o.stake
        /\ p.num * o.quantity > 100 * o.stake * p.den
    BY <2>1, <2>4, <2>5, QuantityGains
  <2>7. PaperPnl(o, o.side) = o.quantity - 100 * o.stake BY DEF PaperPnl
  <2>8. \A other \in Sides \ {o.side} : PaperPnl(o, other) = 0 - 100 * o.stake
    BY DEF PaperPnl
  <2>9. 0 - 100 * o.stake = -100 * o.stake BY <2>5
  <2>10. PaperPnl(o, o.side) > 0 BY <2>5, <2>6, <2>7
  <2>. QED BY <2>6, <2>8, <2>9, <2>10 DEF o, p
<1>. QED BY <1>1, BaseInvariant, PTL
-----------------------------------------------------------------------------
(* What the counters add up to. *)

\* Every market of the list is yet to come, at hand, or counted once: among the
\* signals or under a reason.  A title counts as parsed until its market drops
\* out late or has its forecast counted.
CountInv ==
    /\ pc \in Before =>
         /\ report.parsed = 0 /\ report.forecasted = 0 /\ report.signals = 0 /\ report.orders = 0
         /\ AllReasons(report) = 0 /\ LateReasons(report) = 0
    /\ pc \in Loop =>
         /\ report.seen = Len(list) + (IF pc \in OnTitle THEN 1 ELSE 0)
                            + report.signals + AllReasons(report)
         /\ command.name = "audit" =>
              report.signals = 0 /\ report.parsed = report.reasons["parsed"]
         /\ command.name = "scan" =>
              /\ report.forecasted = report.signals + report.reasons["no_signal"]
              /\ report.parsed = report.forecasted + LateReasons(report)
                                  + (IF pc \in {"forecast", "books"} THEN 1 ELSE 0)
              /\ report.signals = Len(signals) /\ report.orders = Len(orders)
              /\ Len(orders) = IF ~command.paper THEN 0
                               ELSE IF pc = "order" THEN Len(signals) - 1 ELSE Len(signals)
    /\ pc = "order" => command.paper
    /\ pc = "end" => list = <<>>
    /\ AllReasons(report) <= report.seen

\* The report's numbers are numbers.
Numeric ==
    /\ report.seen \in Nat /\ report.parsed \in Nat /\ report.forecasted \in Nat
    /\ report.signals \in Nat /\ report.orders \in Nat
    /\ AllReasons(report) \in Nat /\ LateReasons(report) \in Nat
    /\ report.reasons["parsed"] \in 0 .. AllReasons(report)
    /\ report.reasons["no_signal"] \in 0 .. AllReasons(report)
    /\ Len(list) \in Nat /\ Len(signals) \in Nat /\ Len(orders) \in Nat

LEMMA Numbers == ControlInv /\ RowsInv => Numeric
<1>. SUFFICES ASSUME ControlInv, RowsInv PROVE Numeric OBVIOUS
<1>1. report \in Tally /\ list \in Seq(Entry) BY DEF ControlInv
<1>2. "parsed" \in Reasons /\ "no_signal" \in Reasons BY DEF Reasons
<1>3. /\ AllReasons(report) \in Nat /\ LateReasons(report) \in Nat
      /\ \A r \in Reasons : report.reasons[r] \in 0 .. AllReasons(report)
  BY <1>1, TallySums
<1>4. signals \in Seq(Stored) /\ orders \in Seq(Placed) BY DEF RowsInv
<1>. QED BY <1>1, <1>2, <1>3, <1>4 DEF Tally, Numeric

LEMMA CountInit == Init => CountInv
<1>. SUFFICES ASSUME Init PROVE CountInv OBVIOUS
<1>. DEFINE f == report.reasons
<1>1. /\ pc = "idle" /\ f = [r \in Reasons |-> 0]
      /\ report.seen = 0 /\ report.parsed = 0 /\ report.forecasted = 0
      /\ report.signals = 0 /\ report.orders = 0
  BY DEF Init
<1>2. (\A r \in Reasons : f[r] = 0) /\ IsFiniteSet(Reasons) /\ IsFiniteSet(Late)
  BY <1>1, ReasonsFinite, FS_Subset DEF Late, Reasons
<1>3. \A r \in Late : f[r] = 0 BY <1>2 DEF Late, Reasons
<1>. HIDE DEF f
<1>4. Sum(f, Reasons) = 0 /\ Sum(f, Late) = 0 BY <1>2, <1>3, SumZero
<1>5. AllReasons(report) = 0 /\ LateReasons(report) = 0
  BY <1>4 DEF AllReasons, LateReasons, f
<1>. QED BY <1>1, <1>5 DEF CountInv, Before, Loop, OnTitle

\* A market is left: it moves from the one at hand to its reason.
LEMMA CountSkip ==
  ASSUME ControlInv, RowsInv, CountInv, SkipTitle \/ NoForecast \/ NoBooks \/ NoSignal
  PROVE  CountInv'
<1>n. Numeric BY Numbers
<1>0. command.name = "scan" BY Skips
<1>1. PICK from \in OnTitle, r \in Reasons, count \in Tally :
        /\ SkipFor(from, count, r)
        /\ \/ from = "parse" /\ count = report /\ r \notin Late \cup {"no_signal"}
           \/ from = "parse" /\ count = [report EXCEPT !.parsed = @ + 1] /\ r \in Late
           \/ from # "parse" /\ count = report /\ r \in Late
           \/ from = "books" /\ count = Forecasted /\ r = "no_signal"
  BY Skips
<1>2. /\ pc = from /\ pc' = "next" /\ report' = Bump(count, r)
      /\ UNCHANGED <<command, list, signals, orders>>
  BY <1>1 DEF SkipFor, Go
<1>3. report \in Tally BY DEF ControlInv
<1>4. /\ count.seen = report.seen /\ count.signals = report.signals
      /\ count.orders = report.orders /\ count.reasons = report.reasons
      /\ count.parsed = IF from = "parse" /\ r \in Late THEN report.parsed + 1 ELSE report.parsed
      /\ count.forecasted = IF r = "no_signal" THEN report.forecasted + 1 ELSE report.forecasted
  BY <1>1, <1>3 DEF Tally, Forecasted, Late
<1>5. "no_signal" \in Reasons BY DEF Reasons
<1>6. /\ report'.seen = count.seen /\ report'.parsed = count.parsed
      /\ report'.forecasted = count.forecasted /\ report'.signals = count.signals
      /\ report'.orders = count.orders
      /\ AllReasons(report') = AllReasons(count) + 1
      /\ LateReasons(report') = LateReasons(count) + (IF r \in Late THEN 1 ELSE 0)
      /\ report'.reasons["no_signal"] = IF r = "no_signal" THEN count.reasons["no_signal"] + 1
                                        ELSE count.reasons["no_signal"]
  BY <1>2, <1>5, BumpEffect
<1>7. AllReasons(count) = AllReasons(report) /\ LateReasons(count) = LateReasons(report)
  BY <1>4 DEF AllReasons, LateReasons
<1>8. /\ (from = "parse" /\ r \notin Late /\ r # "no_signal")
         \/ (from = "parse" /\ r \in Late /\ r # "no_signal")
         \/ (from \in {"forecast", "books"} /\ r \in Late /\ r # "no_signal")
         \/ (from = "books" /\ r \notin Late /\ r = "no_signal")
  BY <1>1 DEF Late, OnTitle
<1>9. /\ report.seen = Len(list) + 1 + report.signals + AllReasons(report)
      /\ report.forecasted = report.signals + report.reasons["no_signal"]
      /\ report.parsed = report.forecasted + LateReasons(report)
                           + (IF from \in {"forecast", "books"} THEN 1 ELSE 0)
      /\ report.signals = Len(signals) /\ report.orders = Len(orders)
      /\ Len(orders) = IF ~command.paper THEN 0 ELSE Len(signals)
  BY <1>0, <1>1, <1>2 DEF CountInv, Loop, OnTitle
<1>. DEFINE t == report'
<1>10. /\ report' = t /\ AllReasons(report)' = AllReasons(t)
       /\ LateReasons(report)' = LateReasons(t)
  BY DEF AllReasons, LateReasons
<1>11. /\ t.seen = report.seen /\ t.signals = report.signals
       /\ t.orders = report.orders
       /\ t.parsed = count.parsed /\ t.forecasted = count.forecasted
       /\ AllReasons(t) = AllReasons(report) + 1
       /\ LateReasons(t) = LateReasons(report) + (IF r \in Late THEN 1 ELSE 0)
       /\ t.reasons["no_signal"] = report.reasons["no_signal"]
                                           + (IF r = "no_signal" THEN 1 ELSE 0)
  <2>1. report.reasons["no_signal"] \in Nat BY <1>n DEF Numeric
  <2>. QED BY <1>4, <1>6, <1>7, <2>1
<1>. HIDE DEF t
<1>12. /\ t.seen = Len(list') + t.signals + AllReasons(t)
       /\ AllReasons(t) <= t.seen
  <2>1. Len(list') = Len(list) BY <1>2
  <2>2. /\ Len(list) \in Nat /\ report.signals \in Nat /\ AllReasons(report) \in Nat
    BY <1>n DEF Numeric
  <2>. QED BY SMTT(30), <1>9, <1>11, <2>1, <2>2
<1>13. /\ t.forecasted = t.signals + t.reasons["no_signal"]
       /\ t.parsed = t.forecasted + LateReasons(t)
  <2>1. /\ report.signals \in Nat /\ report.reasons["no_signal"] \in Nat
        /\ report.forecasted \in Nat /\ report.parsed \in Nat /\ LateReasons(report) \in Nat
    BY <1>n DEF Numeric
  <2>2. CASE from = "parse" /\ r \notin Late /\ r # "no_signal"
    <3>1. /\ t.parsed = report.parsed
          /\ t.forecasted = report.forecasted
          /\ LateReasons(t) = LateReasons(report)
          /\ t.reasons["no_signal"] = report.reasons["no_signal"]
          /\ t.signals = report.signals
      BY <1>4, <1>11, <2>1, <2>2
    <3>2. /\ report.parsed = report.forecasted + LateReasons(report)
          /\ report.forecasted = report.signals + report.reasons["no_signal"]
      BY <1>9, <2>1, <2>2
    <3>. QED BY <2>1, <3>1, <3>2
  <2>3. CASE from = "parse" /\ r \in Late /\ r # "no_signal"
    <3>1. /\ t.parsed = report.parsed + 1
          /\ t.forecasted = report.forecasted
          /\ LateReasons(t) = LateReasons(report) + 1
          /\ t.reasons["no_signal"] = report.reasons["no_signal"]
          /\ t.signals = report.signals
      BY <1>4, <1>11, <2>1, <2>3
    <3>2. /\ report.parsed = report.forecasted + LateReasons(report)
          /\ report.forecasted = report.signals + report.reasons["no_signal"]
      BY <1>9, <2>1, <2>3
    <3>. QED BY <2>1, <3>1, <3>2
  <2>4. CASE from \in {"forecast", "books"} /\ r \in Late /\ r # "no_signal"
    <3>1. /\ t.parsed = report.parsed
          /\ t.forecasted = report.forecasted
          /\ LateReasons(t) = LateReasons(report) + 1
          /\ t.reasons["no_signal"] = report.reasons["no_signal"]
          /\ t.signals = report.signals
      BY <1>4, <1>11, <2>1, <2>4
    <3>2. /\ report.parsed = report.forecasted + LateReasons(report) + 1
          /\ report.forecasted = report.signals + report.reasons["no_signal"]
      BY <1>9, <2>1, <2>4
    <3>. QED BY <2>1, <3>1, <3>2
  <2>5. CASE from = "books" /\ r \notin Late /\ r = "no_signal"
    <3>1. /\ t.parsed = report.parsed
          /\ t.forecasted = report.forecasted + 1
          /\ LateReasons(t) = LateReasons(report)
          /\ t.reasons["no_signal"] = report.reasons["no_signal"] + 1
          /\ t.signals = report.signals
      BY <1>4, <1>11, <2>1, <2>5
    <3>2. /\ report.parsed = report.forecasted + LateReasons(report) + 1
          /\ report.forecasted = report.signals + report.reasons["no_signal"]
      BY <1>9, <2>1, <2>5
    <3>. QED BY <2>1, <3>1, <3>2
  <2>. QED BY <1>8, <2>2, <2>3, <2>4, <2>5
<1>14. /\ t.signals = Len(signals') /\ t.orders = Len(orders')
       /\ Len(orders') = IF ~command'.paper THEN 0 ELSE Len(signals')
  BY <1>2, <1>9, <1>11
<1>15. pc' = "next" /\ command'.name = "scan" BY <1>0, <1>2
<1>16. /\ pc' \notin Before \cup OnTitle \cup {"forecast", "books"}
       /\ pc' # "order" /\ pc' # "end" /\ command'.name # "audit"
  BY <1>15 DEF Before, OnTitle
<1>17. Len(list') \in Nat /\ t.signals \in Nat /\ AllReasons(t) \in Nat
       /\ t.forecasted \in Nat /\ LateReasons(t) \in Nat
  <2>1. t \in Tally BY <1>2, BumpEffect DEF t
  <2>. QED BY <1>2, <2>1, <1>n, TallySums DEF Numeric, Tally
<1>. QED BY <1>10, <1>12, <1>13, <1>14, <1>16, <1>17 DEF CountInv

\* An audit counts a title under its verdict, and as parsed if that is it.
LEMMA CountAudit ==
  ASSUME ControlInv, RowsInv, CountInv, AuditTitle
  PROVE  CountInv'
<1>n. Numeric BY Numbers
<1>1. PICK r \in Reasons :
        /\ r # "no_signal"
        /\ report' = [Bump(report, r) EXCEPT !.parsed = IF r = "parsed" THEN @ + 1 ELSE @]
        /\ pc = "parse" /\ pc' = "next" /\ command.name = "audit" /\ report' \in Tally
  BY AuditEffect
<1>2. UNCHANGED <<command, list, signals, orders>> BY DEF AuditTitle
<1>. DEFINE b == Bump(report, r)
<1>3. "parsed" \in Reasons /\ report \in Tally BY DEF Reasons, ControlInv
<1>4. /\ b \in Tally /\ b.seen = report.seen /\ b.signals = report.signals
      /\ b.parsed = report.parsed
      /\ AllReasons(b) = AllReasons(report) + 1
      /\ b.reasons["parsed"] = IF r = "parsed" THEN report.reasons["parsed"] + 1
                               ELSE report.reasons["parsed"]
  BY <1>3, BumpEffect
<1>. HIDE DEF b
<1>5. /\ report'.seen = b.seen /\ report'.signals = b.signals /\ report'.reasons = b.reasons
      /\ report'.parsed = IF r = "parsed" THEN b.parsed + 1 ELSE b.parsed
  BY <1>1, <1>4 DEF b, Tally
<1>6. AllReasons(report)' = AllReasons(b) /\ LateReasons(report)' = LateReasons(report')
  BY <1>5 DEF AllReasons, LateReasons
<1>7. /\ report.seen = Len(list) + 1 + report.signals + AllReasons(report)
      /\ report.signals = 0 /\ report.parsed = report.reasons["parsed"]
  BY <1>1 DEF CountInv, Loop, OnTitle
<1>8. /\ report'.seen = Len(list') + report'.signals + AllReasons(b)
      /\ report'.signals = 0 /\ report'.parsed = report'.reasons["parsed"]
      /\ AllReasons(b) <= report'.seen
  BY SMTT(30), <1>2, <1>4, <1>5, <1>7, <1>n DEF Numeric
<1>. QED BY <1>1, <1>2, <1>6, <1>8 DEF CountInv, Before, Loop, OnTitle

\* The list is there, and nothing is counted yet.
LEMMA CountFetch ==
  ASSUME ControlInv, RowsInv, CountInv, FetchKeyword \/ FetchTagged
  PROVE  CountInv'
<1>n. Numeric BY Numbers
<1>1. /\ report' = [report EXCEPT !.seen = Len(list')]
      /\ pc \in Before /\ pc' \in {"next", "weather-tag"}
      /\ signals' = signals /\ orders' = orders /\ list' \in Seq(Entry)
  BY FetchControl
<1>2. report \in Tally BY DEF ControlInv
<1>. DEFINE t == report'
<1>3. /\ t.seen = Len(list') /\ t.parsed = report.parsed /\ t.forecasted = report.forecasted
      /\ t.signals = report.signals /\ t.orders = report.orders /\ t.reasons = report.reasons
  BY <1>1, <1>2 DEF Tally
<1>4. /\ report' = t /\ AllReasons(report)' = AllReasons(t)
      /\ LateReasons(report)' = LateReasons(t)
  BY DEF AllReasons, LateReasons
<1>. HIDE DEF t
<1>5. AllReasons(t) = AllReasons(report) /\ LateReasons(t) = LateReasons(report)
  BY <1>3 DEF AllReasons, LateReasons
<1>6. /\ t.parsed = 0 /\ t.forecasted = 0 /\ t.signals = 0 /\ t.orders = 0
      /\ AllReasons(t) = 0 /\ LateReasons(t) = 0
  BY <1>1, <1>3, <1>5 DEF CountInv
<1>7. t.reasons["parsed"] = 0 /\ t.reasons["no_signal"] = 0
  BY <1>3, <1>5, <1>6, <1>n DEF Numeric
<1>8. Len(signals') = 0 /\ Len(orders') = 0
  <2>1. signals' = <<>> /\ orders' = <<>> BY <1>1 DEF RowsInv
  <2>. QED BY <2>1
<1>9. /\ pc' \notin OnTitle \cup {"forecast", "books"} /\ pc' # "order" /\ pc' # "end"
  BY <1>1 DEF OnTitle
<1>10. Len(list') \in Nat BY <1>1
<1>. QED BY <1>3, <1>4, <1>6, <1>7, <1>8, <1>9, <1>10 DEF CountInv

\* A market without a conditionId is counted under that; any other is at hand.
LEMMA CountTakeUp ==
  ASSUME ControlInv, RowsInv, CountInv, TakeUp
  PROVE  CountInv'
<1>n. Numeric BY Numbers
<1>1. /\ pc = "next" /\ Len(list) = Len(list') + 1
      /\ command' = command /\ signals' = signals /\ orders' = orders
  BY TakeUpEffect
<1>0. \/ /\ command.name = "scan" /\ pc' = "next"
         /\ report' = Bump(report, "missing_condition_id")
      \/ pc' = "parse" /\ report' = report
  BY TakeUpEffect
<1>2. /\ report.seen = Len(list) + report.signals + AllReasons(report)
      /\ command.name = "audit" =>
           report.signals = 0 /\ report.parsed = report.reasons["parsed"]
      /\ command.name = "scan" =>
           /\ report.forecasted = report.signals + report.reasons["no_signal"]
           /\ report.parsed = report.forecasted + LateReasons(report)
           /\ report.signals = Len(signals) /\ report.orders = Len(orders)
           /\ Len(orders) = IF ~command.paper THEN 0 ELSE Len(signals)
      /\ AllReasons(report) <= report.seen
  BY <1>1, <1>n DEF Numeric, CountInv, Loop, OnTitle
<1>3. Len(list) \in Nat /\ Len(list') \in Nat /\ report \in Tally
  <2>1. ControlInv' BY TakeUpEffect
  <2>. QED BY <2>1, <1>n DEF Numeric, ControlInv
<1>4. CASE pc' = "parse" /\ report' = report
  <2>1. AllReasons(report)' = AllReasons(report) /\ LateReasons(report)' = LateReasons(report)
    BY <1>4 DEF AllReasons, LateReasons
  <2>2. report.seen = Len(list') + 1 + report.signals + AllReasons(report)
    BY <1>1, <1>2, <1>3, <1>n DEF Numeric
  <2>3. /\ pc' \in OnTitle /\ pc' \notin Before /\ pc' \notin {"forecast", "books", "order", "end"}
    BY <1>4 DEF OnTitle, Before
  <2>. QED BY <1>1, <1>2, <1>4, <2>1, <2>2, <2>3, <1>n DEF Numeric, CountInv
<1>5. CASE command.name = "scan" /\ pc' = "next" /\ report' = Bump(report, "missing_condition_id")
  <2>. DEFINE t == report'
  <2>1. "missing_condition_id" \in Reasons \ Late /\ "no_signal" \in Reasons
    BY DEF Reasons, Late
  <2>2. /\ t.seen = report.seen /\ t.parsed = report.parsed
        /\ t.forecasted = report.forecasted /\ t.signals = report.signals
        /\ t.orders = report.orders
        /\ AllReasons(t) = AllReasons(report) + 1 /\ LateReasons(t) = LateReasons(report)
        /\ t.reasons["no_signal"] = report.reasons["no_signal"]
    <3>1. LateReasons(report) \in Nat BY <1>n DEF Numeric
    <3>. QED BY <1>3, <1>5, <2>1, <3>1, BumpEffect
  <2>3. /\ report' = t /\ AllReasons(report)' = AllReasons(t)
        /\ LateReasons(report)' = LateReasons(t)
    BY DEF AllReasons, LateReasons
  <2>. HIDE DEF t
  <2>4. t.seen = Len(list') + t.signals + AllReasons(t) /\ AllReasons(t) <= t.seen
    <3>1. report.signals \in Nat /\ AllReasons(report) \in Nat BY <1>n DEF Numeric
    <3>2. Len(list) = Len(list') + 1 BY <1>1
    <3>3. report.seen = Len(list) + report.signals + AllReasons(report) BY <1>2
    <3>4. /\ t.seen = report.seen /\ t.signals = report.signals
          /\ AllReasons(t) = AllReasons(report) + 1
      BY <2>2
    <3>. QED BY <1>3, <3>1, <3>2, <3>3, <3>4
  <2>5. /\ pc' \notin Before \cup OnTitle \cup {"forecast", "books", "order", "end"}
        /\ command'.name = "scan" /\ command'.name # "audit"
    BY <1>1, <1>5 DEF OnTitle, Before
  <2>6. Len(list') \in Nat /\ t.signals \in Nat /\ AllReasons(t) \in Nat
        /\ t.forecasted \in Nat /\ LateReasons(t) \in Nat
    BY SMTT(30), <1>3, <2>2, <1>n DEF Numeric
  <2>. QED BY SMTT(30), <1>1, <1>2, <1>5, <2>2, <2>3, <2>4, <2>5, <2>6 DEF CountInv
<1>. QED BY <1>0, <1>4, <1>5

\* A counter that the step does not touch.
LEMMA SameReasons ==
  ASSUME report'.reasons = report.reasons
  PROVE  AllReasons(report)' = AllReasons(report) /\ LateReasons(report)' = LateReasons(report)
  BY DEF AllReasons, LateReasons

\* The forecast of a market that is at hand: the title is counted as parsed, the
\* market is still to be counted.
LEMMA CountForecast ==
  ASSUME ControlInv, RowsInv, CountInv, AskForecast \/ Forecast
  PROVE  CountInv'
<1>n. Numeric BY Numbers
<1>1. UNCHANGED <<command, list, signals, orders>> BY Zenon DEF AskForecast, Forecast
<1>2. CASE AskForecast
  <2>1. /\ pc = "parse" /\ pc' = "forecast" /\ command.name = "scan"
        /\ report' = [report EXCEPT !.parsed = @ + 1]
    BY <1>2, AskEffect
  <2>2. report \in Tally BY DEF ControlInv
  <2>3. /\ report'.seen = report.seen /\ report'.parsed = report.parsed + 1
        /\ report'.forecasted = report.forecasted /\ report'.signals = report.signals
        /\ report'.orders = report.orders /\ report'.reasons = report.reasons
    BY <2>1, <2>2 DEF Tally
  <2>4. AllReasons(report)' = AllReasons(report) /\ LateReasons(report)' = LateReasons(report)
    BY <2>3, SameReasons
  <2>. QED BY <1>1, <2>1, <2>3, <2>4, <1>n DEF Numeric, CountInv, Before, Loop, OnTitle
<1>3. CASE Forecast
  <2>1. pc = "forecast" /\ pc' = "books" BY <1>3, ForecastEffect
  <2>2. report' = report BY Zenon, <1>3 DEF Forecast
  <2>3. AllReasons(report)' = AllReasons(report) /\ LateReasons(report)' = LateReasons(report)
    BY <2>2, SameReasons
  <2>. QED BY <1>1, <2>1, <2>2, <2>3, <1>n DEF Numeric, CountInv, Before, Loop, OnTitle
<1>. QED BY <1>2, <1>3

\* The market at hand becomes a signal, and the signal an order.
LEMMA CountRows ==
  ASSUME ControlInv, RowsInv, CountInv, SaveSignal \/ SaveOrder
  PROVE  CountInv'
<1>. DEFINE t == report'
<1>n. Numeric BY Numbers
<1>1. report \in Tally BY DEF ControlInv
<1>2. CASE SaveSignal
  <2>1. /\ Len(signals') = Len(signals) + 1
        /\ orders' = orders /\ command' = command /\ list' = list
        /\ pc = "books" /\ command.name = "scan"
        /\ pc' = IF command.paper THEN "order" ELSE "next"
    BY <1>2, SaveSignalEffect
  <2>2. /\ t.seen = report.seen /\ t.parsed = report.parsed
        /\ t.forecasted = report.forecasted + 1 /\ t.signals = report.signals + 1
        /\ t.orders = report.orders /\ t.reasons = report.reasons
    <3>1. report' = [Forecasted EXCEPT !.signals = @ + 1] BY <1>2, SaveSignalEffect
    <3>. QED BY <1>1, <3>1 DEF Tally, Forecasted
  <2>3. /\ report' = t /\ AllReasons(report)' = AllReasons(report)
        /\ LateReasons(report)' = LateReasons(report)
    BY <2>2, SameReasons
  <2>. HIDE DEF t
  <2>4. /\ report.seen = Len(list) + 1 + report.signals + AllReasons(report)
        /\ report.forecasted = report.signals + report.reasons["no_signal"]
        /\ report.parsed = report.forecasted + LateReasons(report) + 1
        /\ report.signals = Len(signals) /\ report.orders = Len(orders)
        /\ Len(orders) = IF ~command.paper THEN 0 ELSE Len(signals)
    BY <2>1 DEF CountInv, Loop, OnTitle
  <2>0. /\ report.signals \in Nat /\ report.forecasted \in Nat
        /\ report.reasons["no_signal"] \in Nat
        /\ AllReasons(report) \in Nat /\ LateReasons(report) \in Nat /\ Len(list) \in Nat
    BY <1>n DEF Numeric
  <2>5. /\ t.seen = Len(list') + t.signals + AllReasons(report)
        /\ t.forecasted = t.signals + t.reasons["no_signal"]
        /\ t.parsed = t.forecasted + LateReasons(report)
        /\ AllReasons(report) <= t.seen
    <3>1. list' = list BY <2>1
    <3>2. /\ report.seen = Len(list) + 1 + report.signals + AllReasons(report)
          /\ report.forecasted = report.signals + report.reasons["no_signal"]
          /\ report.parsed = report.forecasted + LateReasons(report) + 1
      BY <2>4
    <3>3. t.seen = Len(list) + t.signals + AllReasons(report)
      <4>. DEFINE n == Len(list)
                  a == AllReasons(report)
                  sent == report.signals
      <4>1. n \in Nat /\ a \in Nat /\ sent \in Nat BY <2>0
      <4>2. t.seen = n + 1 + sent + a /\ t.signals = sent + 1 BY <2>2, <3>2
      <4>. HIDE DEF n, a, sent
      <4>3. n + 1 + sent + a = n + (sent + 1) + a BY <4>1
      <4>4. t.seen = n + t.signals + a BY <4>2, <4>3
      <4>. QED BY <4>4 DEF n, a
    <3>4. t.forecasted = t.signals + t.reasons["no_signal"] BY SMTT(30), <2>0, <2>2, <3>2
    <3>5. t.parsed = t.forecasted + LateReasons(report) BY <2>0, <2>2, <3>2
    <3>6. AllReasons(report) <= t.seen BY SMTT(30), <2>0, <2>2, <3>2
    <3>. QED BY <3>1, <3>3, <3>4, <3>5, <3>6
  <2>6. /\ t.signals = Len(signals') /\ t.orders = Len(orders')
        /\ Len(orders') = IF ~command.paper THEN 0 ELSE Len(signals') - 1
    <3>1. orders' = orders BY <2>1
    <3>. QED BY <2>1, <2>2, <2>4, <3>1, <1>n DEF Numeric
  <2>7. /\ pc' \notin Before \cup OnTitle \cup {"forecast", "books", "end"}
        /\ (pc' = "order" <=> command.paper) /\ command'.name # "audit"
        /\ command'.paper = command.paper
    BY <2>1 DEF Before, OnTitle
  <2>8. /\ Len(list') \in Nat /\ t.signals \in Nat /\ t.forecasted \in Nat
        /\ AllReasons(report) \in Nat /\ LateReasons(report) \in Nat
    <3>1. list' = list BY <2>1
    <3>. QED BY <2>0, <2>2, <3>1
  <2>. QED BY <2>3, <2>5, <2>6, <2>7, <2>8 DEF CountInv
<1>3. CASE SaveOrder
  <2>1. /\ Len(orders') = Len(orders) + 1
        /\ signals' = signals /\ command' = command /\ list' = list
        /\ pc = "order" /\ pc' = "next" /\ command.name = "scan"
    BY <1>3, SaveOrderEffect
  <2>2. /\ t.seen = report.seen /\ t.parsed = report.parsed
        /\ t.forecasted = report.forecasted /\ t.signals = report.signals
        /\ t.orders = report.orders + 1 /\ t.reasons = report.reasons
    <3>1. report' = [report EXCEPT !.orders = @ + 1] BY <1>3, SaveOrderEffect
    <3>. QED BY <1>1, <3>1 DEF Tally
  <2>3. /\ report' = t /\ AllReasons(report)' = AllReasons(report)
        /\ LateReasons(report)' = LateReasons(report)
    BY <2>2, SameReasons
  <2>. HIDE DEF t
  <2>4. /\ report.seen = Len(list) + report.signals + AllReasons(report)
        /\ report.forecasted = report.signals + report.reasons["no_signal"]
        /\ report.parsed = report.forecasted + LateReasons(report)
        /\ report.signals = Len(signals) /\ report.orders = Len(orders)
        /\ command.paper /\ Len(orders) = Len(signals) - 1
        /\ AllReasons(report) <= report.seen
    BY <2>1, <1>n DEF Numeric, CountInv, Loop, OnTitle
  <2>5. /\ t.seen = Len(list') + t.signals + AllReasons(report)
        /\ t.forecasted = t.signals + t.reasons["no_signal"]
        /\ t.parsed = t.forecasted + LateReasons(report)
        /\ AllReasons(report) <= t.seen
    BY <2>1, <2>2, <2>4
  <2>6. /\ t.signals = Len(signals') /\ t.orders = Len(orders')
        /\ Len(orders') = Len(signals') /\ command'.paper
    BY <2>1, <2>2, <2>4, <1>n DEF Numeric
  <2>7. /\ pc' \notin Before \cup OnTitle \cup {"forecast", "books", "order", "end"}
        /\ command'.name # "audit"
    BY <2>1 DEF Before, OnTitle
  <2>8. /\ Len(list') \in Nat /\ t.signals \in Nat /\ t.forecasted \in Nat
        /\ AllReasons(report) \in Nat /\ LateReasons(report) \in Nat
    BY <2>1, <2>2, <1>n DEF Numeric
  <2>. QED BY <2>3, <2>5, <2>6, <2>7, <2>8 DEF CountInv
<1>. QED BY <1>2, <1>3

LEMMA CountNext ==
  ASSUME ControlInv, RowsInv, CountInv, [Next]_vars
  PROVE  CountInv'
<1>1. CASE StartScan \/ StartAudit
  <2>1. /\ pc = "idle" /\ pc' \in Before \ {"idle"} /\ report' = report
    BY <1>1, StartEffect
  <2>2. AllReasons(report)' = AllReasons(report) /\ LateReasons(report)' = LateReasons(report)
    BY <2>1, SameReasons
  <2>. QED BY <2>1, <2>2 DEF CountInv, Before, Loop, OnTitle
<1>2. CASE EndCommand \/ RaiseOnDate \/ Abort
  <2>1. /\ pc' \in {"end", "aborted"}
        /\ pc' = "end" => pc = "next" /\ list = <<>>
        /\ UNCHANGED <<command, list, report, signals, orders>> /\ pc # "idle"
    BY <1>2, EndEffect
  <2>2. AllReasons(report)' = AllReasons(report) /\ LateReasons(report)' = LateReasons(report)
    BY <2>1, SameReasons
  <2>3. CASE pc' = "aborted"
    BY <2>1, <2>2, <2>3 DEF CountInv, Before, Loop, OnTitle
  <2>4. CASE pc' = "end"
    <3>1. pc = "next" /\ list = <<>> BY <2>1, <2>4
    <3>2. /\ pc \in Loop /\ pc' \in Loop /\ pc' \notin Before /\ pc' # "order"
          /\ pc \notin OnTitle \cup {"forecast", "books", "order"}
          /\ pc' \notin OnTitle \cup {"forecast", "books", "order"}
      BY <2>4, <3>1 DEF Before, Loop, OnTitle
    <3>. QED BY <2>1, <2>2, <3>1, <3>2 DEF CountInv
  <2>. QED BY <2>1, <2>3, <2>4
<1>3. CASE UNCHANGED vars
  <2>1. report' = report BY <1>3 DEF vars
  <2>2. AllReasons(report)' = AllReasons(report) /\ LateReasons(report)' = LateReasons(report)
    BY <2>1, SameReasons
  <2>. QED BY <1>3, <2>2 DEF vars, CountInv
<1>4. CASE FetchKeyword \/ FetchTagged BY <1>4, CountFetch
<1>5. CASE TakeUp BY <1>5, CountTakeUp
<1>6. CASE AuditTitle BY <1>6, CountAudit
<1>7. CASE SkipTitle \/ NoForecast \/ NoBooks \/ NoSignal BY <1>7, CountSkip
<1>8. CASE AskForecast \/ Forecast BY <1>8, CountForecast
<1>9. CASE SaveSignal \/ SaveOrder BY <1>9, CountRows
<1>. QED BY <1>1, <1>2, <1>3, <1>4, <1>5, <1>6, <1>7, <1>8, <1>9 DEF Next

LEMMA CountInvariant == Spec => [](ControlInv /\ RowsInv /\ CountInv)
<1>1. Init => CountInv BY CountInit
<1>2. ControlInv /\ RowsInv /\ CountInv /\ [Next]_vars => CountInv' BY CountNext
<1>. QED BY <1>1, <1>2, BaseInvariant, PTL DEF Spec

\* The report of a command that ended adds up, for any list and any number of
\* markets that drop out anywhere.
THEOREM ReportCorrect == Spec => []ReportAddsUp
<1>1. ControlInv /\ RowsInv /\ CountInv => ReportAddsUp
  <2>. SUFFICES ASSUME ControlInv, RowsInv, CountInv, pc = "end" PROVE ReportAddsUp
    BY DEF ReportAddsUp
  <2>1. Numeric BY Numbers
  <2>2. /\ \A R : Total(R) = Sum(report.reasons, R)
        /\ AllReasons(report) = Total(Reasons) /\ LateReasons(report) = Total(Late)
    BY Zenon DEF Total, Sum, AllReasons, LateReasons
  <2>3. /\ list = <<>> /\ pc \in Loop
        /\ pc \notin OnTitle \cup {"forecast", "books", "order"}
    BY DEF CountInv, Loop, OnTitle
  <2>4. /\ report.seen = report.signals + Total(Reasons)
        /\ command.name = "audit" =>
             report.signals = 0 /\ report.parsed = report.reasons["parsed"]
        /\ command.name = "scan" =>
             /\ report.forecasted = report.signals + report.reasons["no_signal"]
             /\ report.parsed = report.forecasted + Total(Late)
             /\ report.signals = Len(signals) /\ report.orders = Len(orders)
             /\ Len(orders) = IF command.paper THEN Len(signals) ELSE 0
    BY <2>1, <2>2, <2>3 DEF CountInv, Numeric
  <2>5. Total(Reasons) \in Nat /\ report.signals \in Nat BY <2>1, <2>2 DEF Numeric
  <2>. QED BY <2>4, <2>5 DEF ReportAddsUp, Late
<1>. QED BY <1>1, CountInvariant, PTL

\* The variables keep their types; no reason is counted more often than there
\* are markets in the list.
THEOREM TypeCorrect == Spec => []TypeOK
<1>1. ControlInv /\ RowsInv /\ CountInv => TypeOK
  <2>. SUFFICES ASSUME ControlInv, RowsInv, CountInv PROVE TypeOK OBVIOUS
  <2>1. /\ cur.ask \in Ask /\ cur.tokens \subseteq Sides
        /\ cur.yes.den > 0 /\ cur.yes.num \in 0 .. cur.yes.den
    BY DEF ControlInv, Local, Chance
  <2>2. \A r \in Reasons : report.reasons[r] \in 0 .. report.seen
    <3>1. report \in Tally BY DEF ControlInv
    <3>2. /\ AllReasons(report) \in Nat
          /\ \A r \in Reasons : report.reasons[r] \in 0 .. AllReasons(report)
      BY <3>1, TallySums
    <3>3. AllReasons(report) <= report.seen /\ report.seen \in Nat
      BY <3>1 DEF CountInv, Tally
    <3>. QED BY <3>2, <3>3
  <2>3. \A i \in DOMAIN signals :
           signals[i].price \in 1 .. 99 /\ signals[i].stake \in Nat /\ signals[i].side \in Sides
    <3>1. \A i \in DOMAIN signals : signals[i] \in Stored BY DEF RowsInv
    <3>. QED BY <3>1 DEF Stored
  <2>4. \A i \in DOMAIN orders :
           orders[i].signal \in DOMAIN signals /\ orders[i].quantity \in Nat
    <3>1. \A i \in DOMAIN orders : orders[i] \in Placed /\ orders[i].signal \in DOMAIN signals
      BY DEF RowsInv
    <3>. QED BY <3>1 DEF Placed
  <2>5. pc = "order" => cur.signal \in DOMAIN signals BY DEF RowsInv
  <2>6. list \in Seq([market : Markets, request : {"keyword", "weather-tag"}])
    BY DEF ControlInv, Entry
  <2>7. pc \in {"idle", "keyword", "both", "weather-tag", "next", "parse", "forecast", "books",
                "order", "end", "aborted"}
    BY DEF ControlInv, Before, Loop, OnTitle
  <2>. QED BY <2>1, <2>2, <2>3, <2>4, <2>5, <2>6, <2>7 DEF ControlInv, TypeOK
<1>. QED BY <1>1, CountInvariant, PTL
-----------------------------------------------------------------------------
(* The title a forecast is asked for. *)

\* A forecast is under way only when this step asked for it or it was before.
LEMMA OnlyAsked ==
  ASSUME ControlInv, [Next]_vars, pc' = "forecast"
  PROVE  AskForecast \/ UNCHANGED vars
<1>1. CASE StartScan \/ StartAudit BY <1>1, StartEffect DEF Before
<1>2. CASE FetchKeyword \/ FetchTagged BY <1>2, FetchControl
<1>3. CASE TakeUp BY <1>3, TakeUpEffect
<1>4. CASE EndCommand \/ RaiseOnDate \/ Abort BY <1>4, EndEffect
<1>5. CASE AuditTitle \/ SkipTitle \/ NoForecast \/ NoBooks \/ NoSignal \/ Forecast
             \/ SaveSignal \/ SaveOrder
  BY <1>5 DEF AuditTitle, SkipTitle, NoForecast, NoBooks, NoSignal, Forecast,
              SaveSignal, StoreSignal, SaveOrder, SkipFor, Go
<1>. QED BY <1>1, <1>2, <1>3, <1>4, <1>5 DEF Next

\* The minimum of confidence that --min-confidence has by default, or a higher
\* one, admits a known place and one guess, of all titles there are: not only
\* of the ones people write.
THEOREM OneGuess == ASSUME MinConfidence >= 70 PROVE Spec => []AtMostOneGuess
<1>1. ASSUME ControlInv, AtMostOneGuess, [Next]_vars PROVE AtMostOneGuess'
  <2>1. CASE AskForecast
    <3>. DEFINE spec == Attempt.spec
                notes == spec.notes
    <3>1. pc' = "forecast" /\ cur'.spec = spec BY <1>1, <2>1, AskEffect
    <3>2. Attempt.reason = "parsed" /\ Doubt(spec) = "none" BY <2>1 DEF AskForecast
    <3>3. /\ notes \subseteq {"metric_inferred", "unknown_location", "any_rain", "unit_inferred"}
          /\ spec.known <=> "unknown_location" \notin notes
          /\ ~("any_rain" \in notes /\ "unit_inferred" \in notes)
          /\ ~("any_rain" \in notes /\ "metric_inferred" \in notes)
      BY <3>2, ParseVerdict DEF Attempt
    <3>. HIDE DEF spec
    <3>4. spec.known /\ ~(Confidence(notes) < MinConfidence) BY <3>2 DEF Doubt
    <3>. HIDE DEF notes
    <3>5. notes \in SUBSET {"metric_inferred", "any_rain", "unit_inferred"}
      BY <3>3, <3>4
    <3>6. Confidence(notes) \in Int
      <4>1. IsFiniteSet({"metric_inferred", "any_rain", "unit_inferred"})
        <5>1. IsFiniteSet({"metric_inferred"}) BY FS_Singleton
        <5>2. IsFiniteSet({"metric_inferred"} \cup {"any_rain"}) BY <5>1, FS_AddElement
        <5>3. IsFiniteSet(({"metric_inferred"} \cup {"any_rain"}) \cup {"unit_inferred"})
          BY <5>2, FS_AddElement
        <5>4. ({"metric_inferred"} \cup {"any_rain"}) \cup {"unit_inferred"}
                = {"metric_inferred", "any_rain", "unit_inferred"}
          OBVIOUS
        <5>. QED BY <5>3, <5>4
      <4>2. IsFiniteSet(notes) BY <3>5, <4>1, FS_Subset
      <4>3. \A n \in notes : PenaltyOf(notes)[n] \in Nat BY <3>5 DEF PenaltyOf, Penalty
      <4>4. Sum(PenaltyOf(notes), notes) \in Nat BY <4>2, <4>3, SumType
      <4>. QED BY <4>4, ConfidenceIs
    <3>7. Confidence(notes) >= 70 BY <3>4, <3>6, InputsAssumption
    <3>8. Cardinality(notes) <= 1 BY <3>3, <3>5, <3>7, TwoGuesses
    <3>. QED BY <3>1, <3>4, <3>8 DEF AtMostOneGuess, notes
  <2>2. CASE pc' # "forecast" BY <2>2 DEF AtMostOneGuess
  <2>3. CASE UNCHANGED vars BY <1>1, <2>3 DEF vars, AtMostOneGuess
  <2>. QED BY <1>1, <2>1, <2>2, <2>3, OnlyAsked
<1>2. Init => AtMostOneGuess BY DEF Init, AtMostOneGuess
<1>. QED BY <1>1, <1>2, BaseInvariant, PTL DEF Spec

\* The spec a forecast is asked for is what the parser makes of the title at
\* hand, which the scan keeps until the forecast is there.
SpecIsRead ==
    pc = "forecast" => Attempt.reason = "parsed" /\ cur.spec = Attempt.spec

\* A question put the usual way is forecast as it was asked, for any number,
\* date and day, and however far the parser looks for a comparator: the table
\* rows overlap ("or above" holds an "above", "low temperature" a "temperature")
\* and the numbers of the date are among the matches, and neither wins.
THEOREM ReadAsAsked == Spec => []ReadsAsAsked
<1>1. Init => SpecIsRead BY DEF Init, SpecIsRead
<1>2. ASSUME ControlInv, SpecIsRead, [Next]_vars PROVE SpecIsRead'
  <2>1. CASE AskForecast
    <3>1. Attempt.reason = "parsed" /\ cur'.spec = Attempt.spec
      BY <1>2, <2>1, AskEffect DEF AskForecast
    <3>2. PICK tokens : cur' = [cur EXCEPT !.spec = Attempt.spec, !.tokens = tokens]
      BY Zenon, <2>1 DEF AskForecast
    <3>3. Local(cur) BY <1>2 DEF ControlInv
    <3>4. cur'.ask = cur.ask BY <3>2, <3>3 DEF Local
    <3>5. Attempt' = Attempt BY <3>4 DEF Attempt
    <3>. QED BY <3>1, <3>5 DEF SpecIsRead
  <2>2. CASE UNCHANGED vars BY <1>2, <2>2 DEF vars, SpecIsRead, Attempt
  <2>3. CASE pc' # "forecast" BY <2>3 DEF SpecIsRead
  <2>. QED BY <1>2, <2>1, <2>2, <2>3, OnlyAsked
<1>3. ControlInv /\ SpecIsRead => ReadsAsAsked
  <2>. SUFFICES ASSUME ControlInv, SpecIsRead, pc = "forecast", Plain(cur.ask)
                PROVE  /\ cur.spec.metric = Lexicon[cur.ask.subject].means
                       /\ cur.spec.comparator = Lexicon[cur.ask.comparator].means
                       /\ cur.spec.threshold = cur.ask.number[1] /\ cur.spec.unit = cur.ask.unit
                       /\ cur.spec.days = Days(cur.ask.date)
    BY DEF ReadsAsAsked
  <2>1. cur.ask \in Ask BY DEF ControlInv, Local
  <2>2. Parse(Written(cur.ask)).reason = "parsed" /\ cur.spec = Parse(Written(cur.ask)).spec
    BY DEF SpecIsRead, Attempt
  <2>. QED BY <2>1, <2>2, PlainRead
<1>. QED BY <1>1, <1>2, <1>3, BaseInvariant, PTL DEF Spec
-----------------------------------------------------------------------------
(* The scan as PaperTrading sees it. *)

\* Each market is listed once, taken up once and signalled once: the list holds
\* none that was taken up, and the market at hand has no signal until the scan
\* is about to place its order.
PlaceInv ==
    /\ Distinct(list) /\ Distinct(signals)
    /\ pc \in {"idle", "keyword", "both"} => list = <<>>
    /\ pc \in Before => done = {} /\ \A i \in DOMAIN list : list[i].request = "keyword"
    /\ pc \in Loop => \A i \in DOMAIN list : list[i].market \notin done
    /\ pc \in OnTitle \cup {"order"} =>
          /\ cur.entry \in Entry /\ cur.entry.market \in done
          /\ command.name = "scan" => cur.entry.market \in Named
    /\ pc \in OnTitle => \A i \in DOMAIN signals : signals[i].market # cur.entry.market
    /\ \A i \in DOMAIN signals : signals[i].market \in done \cap Named
    /\ pc # "order" => cur.signal = 0
    /\ pc = "order" => signals[cur.signal].market = cur.entry.market

\* Nothing is listed before the start.
LEMMA PlaceInit == Init => PlaceInv
  BY DEF Init, PlaceInv, Distinct, Idle, Before, Loop, OnTitle

\* The command begins.
LEMMA PlaceStart ==
  ASSUME ControlInv, RowsInv, PlaceInv, StartScan \/ StartAudit
  PROVE  PlaceInv'
<1>1. pc = "idle" /\ pc' \in Before BY StartEffect
<1>2. UNCHANGED <<list, cur, done, signals>> BY DEF StartScan, StartAudit
<1>. QED BY <1>1, <1>2 DEF PlaceInv, Distinct, Before, Loop, OnTitle

\* The list comes.
LEMMA PlaceFetch ==
  ASSUME ControlInv, RowsInv, PlaceInv, FetchKeyword \/ FetchTagged
  PROVE  PlaceInv'
<1>1. /\ pc \in Before /\ pc' \in {"next", "weather-tag"}
      /\ UNCHANGED <<command, cur, signals>>
  BY FetchControl
<1>2. done' = done /\ done = {} BY <1>1 DEF FetchKeyword, FetchTagged, Listed, PlaceInv
<1>3. cur.signal = 0 /\ Distinct(signals) /\ \A i \in DOMAIN signals : signals[i].market \in done
  BY <1>1 DEF PlaceInv, Before
<1>4. /\ Distinct(list')
      /\ pc' = "weather-tag" => \A i \in DOMAIN list' : list'[i].request = "keyword"
  <2>1. CASE FetchKeyword
    <3>1. PICK ms \in SetToAllKPermutations(Markets) : list' = Dedupe(Entries(ms, "keyword"))
      BY <2>1 DEF FetchKeyword, Listed
    <3>2. /\ Distinct(list')
          /\ ToSet(list') = {EntryOf(m, "keyword") : m \in ToSet(ms)}
      BY <3>1, KeywordList
    <3>3. \A i \in DOMAIN list' : list'[i] \in ToSet(list') BY DEF ToSet
    <3>. QED BY <3>2, <3>3 DEF EntryOf
  <2>2. CASE FetchTagged
    <3>1. PICK ms \in SetToAllKPermutations(Markets) :
            list' = Dedupe(list \o Entries(ms, "weather-tag"))
      BY <2>2 DEF FetchTagged, Listed
    <3>2. list \in Seq(Entry) /\ Distinct(list) BY DEF ControlInv, PlaceInv
    <3>3. pc' = "next" BY <2>2 DEF FetchTagged, Go
    <3>. QED BY <3>1, <3>2, <3>3, TaggedList
  <2>. QED BY <2>1, <2>2
<1>5. DOMAIN signals = {} BY <1>2, <1>3
<1>. QED BY <1>1, <1>2, <1>3, <1>4, <1>5 DEF PlaceInv, Before, Loop, OnTitle, Distinct

\* A market is taken from the list.
LEMMA PlaceTakeUp ==
  ASSUME ControlInv, RowsInv, PlaceInv, TakeUp
  PROVE  PlaceInv'
<1>. DEFINE e == Head(list)
            l == Tail(list)
<1>1. /\ pc = "next" /\ list # <<>> /\ list' = l /\ done' = done \cup {e.market}
      /\ UNCHANGED <<command, signals>>
      /\ \/ /\ command.name = "scan" /\ pc' = "next" /\ cur' = cur
         \/ /\ command.name = "scan" => e.market \in Named
            /\ pc' = "parse" /\ cur'.entry = e /\ cur'.signal = 0
  BY Zenon DEF TakeUp, Idle
<1>2. list \in Seq(Entry) BY DEF ControlInv
<1>3. /\ e \in Entry /\ l \in Seq(Entry) /\ e = list[1] /\ 1 \in DOMAIN list
      /\ \A i \in DOMAIN l : i + 1 \in DOMAIN list /\ l[i] = list[i + 1] /\ i \in Nat /\ i > 0
  BY <1>1, <1>2
<1>. HIDE DEF e, l
<1>4. Distinct(list) /\ \A i \in DOMAIN list : list[i].market \notin done
  BY <1>1 DEF PlaceInv, Loop
<1>5. Distinct(l)
  <2>. SUFFICES ASSUME NEW i \in DOMAIN l, NEW k \in DOMAIN l, l[i].market = l[k].market
                PROVE  i = k
    BY DEF Distinct
  <2>1. i + 1 = k + 1 BY <1>3, <1>4 DEF Distinct
  <2>. QED BY <1>3, <2>1
<1>6. ASSUME NEW i \in DOMAIN l PROVE l[i].market \notin done \cup {e.market}
  <2>1. i + 1 # 1 BY <1>3
  <2>2. list[i + 1].market # list[1].market BY <1>3, <1>4, <2>1 DEF Distinct
  <2>. QED BY <1>3, <1>4, <2>2
<1>7. /\ \A i \in DOMAIN signals : signals[i].market \in done \cap Named
      /\ cur.signal = 0 /\ Distinct(signals) /\ e.market \notin done
  BY <1>1, <1>3, <1>4 DEF PlaceInv
<1>. QED BY <1>1, <1>3, <1>5, <1>6, <1>7 DEF PlaceInv, Before, Loop, OnTitle

\* A market is let go of, or the command ends; nothing is written of it.
LEMMA PlaceLeave ==
  ASSUME ControlInv, RowsInv, PlaceInv, pc \in Loop \cup {"keyword", "both", "weather-tag"},
         pc' \in {"next", "end", "aborted"}, pc' = "next" => pc \in Loop,
         cur' \in {cur, Idle}, pc = "order" => cur' = Idle,
         UNCHANGED <<command, list, done, signals>>
  PROVE  PlaceInv'
<1>1. cur'.signal = 0 BY DEF PlaceInv, Idle
<1>2. pc' = "end" => pc \in Loop \/ pc \in {"keyword", "both", "weather-tag"} OBVIOUS
<1>3. pc \in {"keyword", "both", "weather-tag"} => done = {} BY DEF PlaceInv, Before
<1>4. \A i \in DOMAIN list : list[i].market \notin done BY <1>3 DEF PlaceInv
<1>. QED BY <1>1, <1>4 DEF PlaceInv, Before, Loop, OnTitle, Distinct

\* The forecast of a market at hand.
LEMMA PlaceForecast ==
  ASSUME ControlInv, RowsInv, PlaceInv, AskForecast \/ Forecast
  PROVE  /\ PlaceInv' /\ cur'.entry = cur.entry /\ cur'.signal = cur.signal
         /\ UNCHANGED <<command, list, done, signals, orders>>
<1>1. /\ pc \in {"parse", "forecast"} /\ pc' \in {"forecast", "books"}
      /\ UNCHANGED <<command, list, done, signals, orders>>
  BY Zenon DEF AskForecast, Forecast, Go
<1>2. Local(cur) BY DEF ControlInv
<1>3. cur'.entry = cur.entry /\ cur'.signal = cur.signal
  <2>1. CASE AskForecast
    <3>1. PICK tokens \in {{"Yes"}, Sides} :
             cur' = [cur EXCEPT !.spec = Attempt.spec, !.tokens = tokens]
      BY <2>1 DEF AskForecast
    <3>. QED BY <1>2, <3>1 DEF Local
  <2>2. CASE Forecast
    <3>1. PICK values \in Ensembles[cur.entry.market] :
             cur' = [cur EXCEPT !.ask = NoAsk, !.spec = NoSpec,
                                !.yes = ProbabilityYes(Members(values), cur.spec)]
      BY Zenon, <2>2 DEF Forecast
    <3>. QED BY <1>2, <3>1 DEF Local
  <2>. QED BY <2>1, <2>2
<1>4. PlaceInv' BY <1>1, <1>3 DEF PlaceInv, Before, Loop, OnTitle, Distinct
<1>. QED BY <1>1, <1>3, <1>4

\* The row of a signal is of the market at hand.
LEMMA SignalRow ==
  ASSUME ControlInv, RowsInv, SaveSignal
  PROVE  \E s \in Stored :
           /\ signals' = Append(signals, s) /\ s.market = cur.entry.market
           /\ DOMAIN signals' = DOMAIN signals \cup {Len(signals) + 1}
           /\ Len(signals) \in Nat
           /\ Len(signals) + 1 \notin DOMAIN signals
           /\ \A i \in DOMAIN signals : signals'[i] = signals[i]
           /\ signals'[Len(signals) + 1] = s
<1>1. PICK s : signals' = Append(signals, s) /\ s.market = cur.entry.market
  BY DEF SaveSignal, StoreSignal
<1>2. signals' \in Seq(Stored) BY SaveSignalEffect DEF RowsInv
<1>3. signals \in Seq(Stored) BY DEF RowsInv
<1>4. /\ DOMAIN signals' = DOMAIN signals \cup {Len(signals) + 1}
      /\ Len(signals) \in Nat /\ Len(signals) + 1 \notin DOMAIN signals
      /\ \A i \in DOMAIN signals : signals'[i] = signals[i]
      /\ signals'[Len(signals) + 1] = s
  BY <1>1, <1>3
<1>5. s \in Stored BY SMTT(30), <1>2, <1>4
<1>. QED BY <1>1, <1>4, <1>5

\* A signal is stored of a market that has none.
LEMMA PlaceSignal ==
  ASSUME ControlInv, RowsInv, PlaceInv, SaveSignal
  PROVE  PlaceInv'
<1>1. PICK s \in Stored :
           /\ signals' = Append(signals, s) /\ s.market = cur.entry.market
           /\ DOMAIN signals' = DOMAIN signals \cup {Len(signals) + 1}
           /\ Len(signals) \in Nat
           /\ Len(signals) + 1 \notin DOMAIN signals
           /\ \A i \in DOMAIN signals : signals'[i] = signals[i]
           /\ signals'[Len(signals) + 1] = s
  BY SignalRow
<1>2. /\ pc = "books" /\ command.name = "scan" /\ UNCHANGED <<command, list, done>>
      /\ \/ /\ pc' = "order" /\ cur' = [cur EXCEPT !.yes = Zero, !.signal = Len(signals) + 1]
         \/ pc' = "next" /\ cur' = Idle
  BY SaveSignalEffect DEF SaveSignal, StoreSignal, Go
<1>3. Local(cur) BY DEF ControlInv
<1>4. \/ pc' = "order" /\ cur'.entry = cur.entry /\ cur'.signal = Len(signals) + 1
      \/ pc' = "next" /\ cur'.signal = 0
  <2>1. ASSUME cur' = [cur EXCEPT !.yes = Zero, !.signal = Len(signals) + 1]
        PROVE  cur'.entry = cur.entry /\ cur'.signal = Len(signals) + 1
    BY <1>3, <2>1 DEF Local
  <2>2. Idle.signal = 0 BY DEF Idle
  <2>. QED BY <1>2, <2>1, <2>2
<1>5. /\ cur.entry \in Entry /\ cur.entry.market \in done \cap Named
      /\ \A i \in DOMAIN signals : signals[i].market # cur.entry.market
      /\ \A i \in DOMAIN signals : signals[i].market \in done \cap Named
      /\ \A i \in DOMAIN list : list[i].market \notin done
      /\ Distinct(list) /\ Distinct(signals)
  BY <1>2 DEF PlaceInv, OnTitle, Loop
<1>6. Distinct(signals') BY <1>1, <1>5 DEF Distinct
<1>7. \A i \in DOMAIN signals' : signals'[i].market \in done \cap Named BY <1>1, <1>5
<1>8. pc' = "order" => signals'[cur'.signal].market = cur'.entry.market
  BY <1>1, <1>4
<1>. HIDE DEF Distinct
<1>9. list' = list /\ done' = done /\ command' = command BY <1>2
<1>10. Distinct(list') BY <1>5, <1>9
<1>. QED BY <1>4, <1>5, <1>6, <1>7, <1>8, <1>9, <1>10 DEF PlaceInv, Before, Loop, OnTitle

\* Every step keeps the invariant.
LEMMA PlaceNext == ControlInv /\ RowsInv /\ PlaceInv /\ [Next]_vars => PlaceInv'
<1>. SUFFICES ASSUME ControlInv, RowsInv, PlaceInv, [Next]_vars PROVE PlaceInv' OBVIOUS
<1>1. CASE StartScan \/ StartAudit BY <1>1, PlaceStart
<1>2. CASE FetchKeyword \/ FetchTagged BY <1>2, PlaceFetch
<1>3. CASE TakeUp BY <1>3, PlaceTakeUp
<1>4. CASE EndCommand \/ RaiseOnDate \/ Abort
  <2>1. /\ pc \in Loop \cup {"keyword", "both", "weather-tag"} /\ pc' \in {"end", "aborted"}
        /\ cur' \in {cur, Idle} /\ (pc = "order" => cur' = Idle)
        /\ UNCHANGED <<command, list, done, signals>>
    BY <1>4 DEF EndCommand, RaiseOnDate, Abort, Go, ControlInv, Before, Loop, OnTitle
  <2>. QED BY <2>1, PlaceLeave
<1>5. CASE AuditTitle
  <2>1. /\ pc = "parse" /\ pc' = "next" /\ cur' = Idle
        /\ UNCHANGED <<command, list, done, signals>>
    BY <1>5 DEF AuditTitle, Go
  <2>. QED BY <2>1, PlaceLeave DEF Loop, OnTitle
<1>6. CASE SkipTitle \/ NoForecast \/ NoBooks \/ NoSignal
  <2>1. PICK from \in OnTitle, r \in Reasons, count \in Tally : SkipFor(from, count, r)
    BY <1>6, Skips
  <2>2. /\ pc \in OnTitle /\ pc' = "next" /\ cur' = Idle
        /\ UNCHANGED <<command, list, done, signals>>
    BY <2>1 DEF SkipFor, Go
  <2>. QED BY <2>2, PlaceLeave DEF Loop
<1>7. CASE AskForecast \/ Forecast BY <1>7, PlaceForecast
<1>8. CASE SaveSignal BY <1>8, PlaceSignal
<1>9. CASE SaveOrder
  <2>1. /\ pc = "order" /\ pc' = "next" /\ cur' = Idle
        /\ UNCHANGED <<command, list, done, signals>>
    BY <1>9 DEF SaveOrder, Go
  <2>. QED BY <2>1, PlaceLeave DEF Loop
<1>10. CASE UNCHANGED vars
  BY <1>10 DEF vars, PlaceInv, Distinct
<1>. QED BY <1>1, <1>2, <1>3, <1>4, <1>5, <1>6, <1>7, <1>8, <1>9, <1>10 DEF Next
-----------------------------------------------------------------------------
\* A scan of PaperTrading, and what it has left of some entries.
At(place, todo, market, side, signal, taken) ==
    [pc |-> place, todo |-> todo, market |-> market, side |-> side, signal |-> signal,
     done |-> taken]
Fields == {"pc", "todo", "market", "side", "signal", "done"}
Rest == At("idle", {}, NoMarket, "Yes", 0, {})
Pairs(es) == {<<e.market, e.request>> : e \in {e \in es : e.market \in Named}}

\* A scan is known by its fields.
LEMMA AtIs ==
  ASSUME NEW q, q = [f \in DOMAIN q |-> q[f]],
         DOMAIN q = Fields
  PROVE  q = At(q.pc, q.todo, q.market, q.side, q.signal, q.done)
  BY DEF At, Fields

\* What the fields are.
LEMMA AtFields ==
  ASSUME NEW p, NEW t, NEW m, NEW s, NEW n, NEW d
  PROVE  LET r == At(p, t, m, s, n, d)
         IN  /\ r.pc = p /\ r.todo = t /\ r.market = m /\ r.side = s /\ r.signal = n /\ r.done = d
             /\ DOMAIN r = Fields
  BY DEF At, Fields

\* One scan takes a step from the place it is at.
LEMMA PaperStep ==
  ASSUME NEW place, PaperScan.pc = place
  PROVE  /\ [j \in {"scan"} |-> PaperScan]["scan"] = PaperScan
         /\ Paper!ScanStep("scan", place, PaperScan')
  BY DEF Paper!ScanStep, Paper!env

\* Nothing is written.
LEMMA PaperRowsSame == UNCHANGED <<signals, orders>> => UNCHANGED Paper!db
  BY DEF Paper!db

\* A scan begins with one of the requests.
LEMMA PaperStarts ==
  ASSUME PaperScan = Rest, NEW source \in ScanSources,
         PaperScan' = At(source, {}, NoMarket, "Yes", 0, {}), UNCHANGED <<signals, orders>>
  PROVE  Paper!StartScan("scan")
<1>1. PaperScan.pc = "idle" BY DEF Rest, At
<1>2. PaperScan' = [Paper!IdleScan EXCEPT !.pc = source] BY SMTT(30) DEF Paper!IdleScan, At
<1>. QED BY <1>1, <1>2, PaperStep, PaperRowsSame DEF Paper!StartScan

\* A market is taken up: it is skipped, or a forecast is asked for.
LEMMA PaperTakes ==
  ASSUME NEW t, NEW d, NEW e \in t, PaperScan = At("next", t, NoMarket, "Yes", 0, d),
         \/ PaperScan' = At("next", t \ {e}, NoMarket, "Yes", 0, d \cup {e[1]})
         \/ PaperScan' = At("quote", t \ {e}, e[1], "Yes", 0, d \cup {e[1]}),
         UNCHANGED <<signals, orders>>
  PROVE  Paper!TakeUp("scan")
<1>. DEFINE before == [j \in {"scan"} |-> PaperScan]["scan"]
            taken == [before EXCEPT !.todo = before.todo \ {e}, !.done = before.done \cup {e[1]}]
<1>1. before = PaperScan OBVIOUS
<1>2. before.pc = "next" /\ before.todo = t /\ before.done = d BY <1>1, AtFields
<1>. HIDE DEF before
<1>3. taken = At("next", t \ {e}, NoMarket, "Yes", 0, d \cup {e[1]})
  <2>1. DOMAIN before = Fields BY <1>1, <1>2, AtFields DEF Fields
  <2>2. DOMAIN taken = DOMAIN before /\ taken = [f \in DOMAIN taken |-> taken[f]] OBVIOUS
  <2>3. /\ taken.pc = "next" /\ taken.todo = t \ {e} /\ taken.market = NoMarket
        /\ taken.side = "Yes" /\ taken.signal = 0 /\ taken.done = d \cup {e[1]}
    BY <2>1, <1>1, <1>2, AtFields DEF Fields
  <2>. HIDE DEF taken
  <2>. QED BY <2>1, <2>2, <2>3, AtIs
<1>. HIDE DEF taken
<1>. DEFINE asked == [taken EXCEPT !.market = e[1], !.pc = "quote"]
<1>4. asked = At("quote", t \ {e}, e[1], "Yes", 0, d \cup {e[1]})
  <2>1. DOMAIN taken = Fields BY <1>3, AtFields DEF Fields
  <2>2. DOMAIN asked = DOMAIN taken /\ asked = [f \in DOMAIN asked |-> asked[f]] OBVIOUS
  <2>3. /\ asked.pc = "quote" /\ asked.todo = t \ {e} /\ asked.market = e[1]
        /\ asked.side = "Yes" /\ asked.signal = 0 /\ asked.done = d \cup {e[1]}
    BY <2>1, <1>3, AtFields DEF Fields
  <2>. HIDE DEF asked
  <2>. QED BY <2>1, <2>2, <2>3, AtIs
<1>. HIDE DEF asked
<1>5. Paper!ScanStep("scan", "next", PaperScan') BY <1>1, <1>2, PaperStep
<1>6. \/ Paper!ScanStep("scan", "next", taken)
      \/ Paper!ScanStep("scan", "next", asked)
  BY <1>3, <1>4, <1>5
<1>7. e \in before.todo BY <1>2
<1>. QED BY Zenon, <1>6, <1>7, PaperRowsSame DEF Paper!TakeUp, before, taken, asked

\* A market is left without a signal.
LEMMA PaperNoSignal ==
  ASSUME NEW t, NEW d, NEW m, PaperScan = At("quote", t, m, "Yes", 0, d),
         PaperScan' = At("next", t, NoMarket, "Yes", 0, d), UNCHANGED <<signals, orders>>
  PROVE  Paper!NoSignal("scan")
<1>. DEFINE before == [j \in {"scan"} |-> PaperScan]["scan"]
<1>1. before = PaperScan OBVIOUS
<1>. HIDE DEF before
<1>. DEFINE left == [before EXCEPT !.pc = "next", !.market = NoMarket, !.side = "Yes", !.signal = 0]
<1>2. left = At("next", t, NoMarket, "Yes", 0, d)
  <2>1. DOMAIN before = Fields BY <1>1, AtFields DEF Fields
  <2>2. DOMAIN left = DOMAIN before /\ left = [f \in DOMAIN left |-> left[f]] OBVIOUS
  <2>3. /\ left.pc = "next" /\ left.todo = t /\ left.market = NoMarket
        /\ left.side = "Yes" /\ left.signal = 0 /\ left.done = d
    BY <2>1, <1>1, AtFields DEF Fields
  <2>. HIDE DEF left
  <2>. QED BY <2>1, <2>2, <2>3, AtIs
<1>. HIDE DEF left
<1>3. Paper!ScanStep("scan", "quote", PaperScan') BY AtFields, PaperStep
<1>. QED BY <1>2, <1>3, PaperRowsSame DEF Paper!NoSignal, Paper!Leave, before, left

\* The scan ends, wherever it is.
LEMMA PaperEnds ==
  ASSUME PaperScan.pc # "idle", PaperScan' = Rest, UNCHANGED <<signals, orders>>
  PROVE  Paper!EndScan("scan")
<1>1. /\ [j \in {"scan"} |-> PaperScan]["scan"] = PaperScan
      /\ Paper!ScanStep("scan", PaperScan.pc, PaperScan')
  BY PaperStep
<1>2. PaperScan' = Paper!IdleScan BY DEF Paper!IdleScan, At, Rest
<1>. QED BY <1>1, <1>2, PaperRowsSame DEF Paper!EndScan

\* PaperTrading counts as the library does.
LEMMA PaperCardinality == \A S : Paper!Cardinality(S) = Cardinality(S)
  BY DEF Paper!Cardinality, Cardinality

\* The markets of the keyword request, at most as many as its limit.
LEMMA PaperKeyword ==
  ASSUME PaperScan.pc \in {"keyword", "both"},
         NEW place, PaperScan = At(place, {}, NoMarket, "Yes", 0, {}),
         NEW ms \in SUBSET Named, Cardinality(ms) <= ScanLimit,
         PaperScan' = At(IF place = "keyword" THEN "next" ELSE "weather-tag",
                         ms \X {"keyword"}, NoMarket, "Yes", 0, {}),
         UNCHANGED <<signals, orders>>
  PROVE  Paper!FetchKeyword("scan")
<1>. DEFINE before == [j \in {"scan"} |-> PaperScan]["scan"]
            listed == [before EXCEPT !.todo = ms \X {"keyword"}]
<1>1. place \in {"keyword", "both"} /\ PaperScan.pc = place BY AtFields
<1>2. before = PaperScan OBVIOUS
<1>. HIDE DEF before
<1>3. listed = At(place, ms \X {"keyword"}, NoMarket, "Yes", 0, {})
  <2>1. DOMAIN before = Fields BY <1>2, AtFields DEF Fields
  <2>2. DOMAIN listed = DOMAIN before /\ listed = [f \in DOMAIN listed |-> listed[f]] OBVIOUS
  <2>3. /\ listed.pc = place /\ listed.todo = ms \X {"keyword"} /\ listed.market = NoMarket
        /\ listed.side = "Yes" /\ listed.signal = 0 /\ listed.done = {}
    BY <2>1, <1>2, AtFields DEF Fields
  <2>. HIDE DEF listed
  <2>. QED BY <2>1, <2>2, <2>3, AtIs
<1>. HIDE DEF listed
<1>. DEFINE next == [listed EXCEPT !.pc = "next"]
            again == [listed EXCEPT !.pc = "weather-tag"]
<1>4. next = At("next", ms \X {"keyword"}, NoMarket, "Yes", 0, {})
  <2>1. DOMAIN listed = Fields BY <1>3, AtFields DEF Fields
  <2>2. DOMAIN next = DOMAIN listed /\ next = [f \in DOMAIN next |-> next[f]] OBVIOUS
  <2>3. /\ next.pc = "next" /\ next.todo = ms \X {"keyword"} /\ next.market = NoMarket
        /\ next.side = "Yes" /\ next.signal = 0 /\ next.done = {}
    BY <2>1, <1>3, AtFields DEF Fields
  <2>. HIDE DEF next
  <2>. QED BY <2>1, <2>2, <2>3, AtIs
<1>9. again = At("weather-tag", ms \X {"keyword"}, NoMarket, "Yes", 0, {})
  <2>1. DOMAIN listed = Fields BY <1>3, AtFields DEF Fields
  <2>2. DOMAIN again = DOMAIN listed /\ again = [f \in DOMAIN again |-> again[f]] OBVIOUS
  <2>3. /\ again.pc = "weather-tag" /\ again.todo = ms \X {"keyword"} /\ again.market = NoMarket
        /\ again.side = "Yes" /\ again.signal = 0 /\ again.done = {}
    BY <2>1, <1>3, AtFields DEF Fields
  <2>. HIDE DEF again
  <2>. QED BY <2>1, <2>2, <2>3, AtIs
<1>. HIDE DEF next, again
<1>5. Paper!ScanStep("scan", place, PaperScan') BY <1>1, PaperStep
<1>6. \/ Paper!ScanStep("scan", "keyword", next)
      \/ Paper!ScanStep("scan", "both", again)
  BY <1>1, <1>4, <1>5, <1>9
<1>7. \A m \in Named : [n \in Named |-> [closed |-> FALSE, decisive |-> {}]][m].closed = FALSE
  OBVIOUS
<1>8. ms \in SUBSET Paper!Open BY <1>7 DEF Paper!Open
<1>10. \/ Paper!ScanStep("scan", "keyword",
             [[before EXCEPT !.todo = ms \X {"keyword"}] EXCEPT !.pc = "next"])
      \/ Paper!ScanStep("scan", "both",
             [[before EXCEPT !.todo = ms \X {"keyword"}] EXCEPT !.pc = "weather-tag"])
  BY <1>6 DEF listed, next, again
<1>11. \E xs \in SUBSET Paper!Open :
         /\ Paper!Cardinality(xs) <= ScanLimit
         /\ \/ Paper!ScanStep("scan", "keyword",
                   [[before EXCEPT !.todo = xs \X {"keyword"}] EXCEPT !.pc = "next"])
            \/ Paper!ScanStep("scan", "both",
                   [[before EXCEPT !.todo = xs \X {"keyword"}] EXCEPT !.pc = "weather-tag"])
  <2>. WITNESS ms \in SUBSET Paper!Open
  <2>. QED BY SMTT(30), <1>10, PaperCardinality
<1>. QED BY <1>11, PaperRowsSame, Zenon DEF Paper!FetchKeyword, before

\* The markets of the tagged request, but those the list has.
LEMMA PaperTagged ==
  ASSUME NEW t, PaperScan = At("weather-tag", t, NoMarket, "Yes", 0, {}),
         NEW ms \in SUBSET Named,
         PaperScan' = At("next", Paper!Deduped(t \cup (ms \X {"weather-tag"})),
                         NoMarket, "Yes", 0, {}),
         UNCHANGED <<signals, orders>>
  PROVE  Paper!FetchTagged("scan")
<1>. DEFINE before == [j \in {"scan"} |-> PaperScan]["scan"]
<1>1. before = PaperScan OBVIOUS
<1>2. PaperScan.pc = "weather-tag" /\ before.todo = t BY <1>1, AtFields
<1>. HIDE DEF before
<1>. DEFINE all == Paper!Deduped(before.todo \cup (ms \X {"weather-tag"}))
            listed == [before EXCEPT !.todo = all, !.pc = "next"]
<1>3. listed = At("next", Paper!Deduped(t \cup (ms \X {"weather-tag"})), NoMarket, "Yes", 0, {})
  <2>. DEFINE kept == Paper!Deduped(t \cup (ms \X {"weather-tag"}))
  <2>4. all = kept BY <1>2
  <2>. HIDE DEF all, kept
  <2>1. DOMAIN before = Fields BY <1>1, <1>2, AtFields DEF Fields
  <2>2. DOMAIN listed = DOMAIN before /\ listed = [f \in DOMAIN listed |-> listed[f]] OBVIOUS
  <2>3. /\ listed.pc = "next" /\ listed.todo = kept /\ listed.market = NoMarket
        /\ listed.side = "Yes" /\ listed.signal = 0 /\ listed.done = {}
    BY <2>1, <2>4, <1>1, <1>2, AtFields DEF Fields
  <2>. HIDE DEF listed
  <2>5. listed = At("next", kept, NoMarket, "Yes", 0, {}) BY <2>1, <2>2, <2>3, AtIs
  <2>. QED BY <2>5 DEF kept
<1>. HIDE DEF listed
<1>4. Paper!ScanStep("scan", "weather-tag", PaperScan') BY <1>2, PaperStep
<1>. QED BY ZenonT(60), <1>3, <1>4, PaperRowsSame DEF Paper!FetchTagged, before, listed

\* A request lists no more of the markets with a conditionId than its limit.
LEMMA FewListed ==
  ASSUME NEW ms \in Seq(Markets)
  PROVE  Cardinality(ToSet(ms) \cap Named) <= Len(ms)
<1>. DEFINE S == ToSet(ms) \cap Named
            f == [m \in S |-> CHOOSE i \in 1 .. Len(ms) : ms[i] = m]
<1>1. \A m \in S : f[m] \in 1 .. Len(ms) /\ ms[f[m]] = m
  <2>. TAKE m \in S
  <2>1. \E i \in 1 .. Len(ms) : ms[i] = m BY DEF ToSet
  <2>. QED BY <2>1
<1>. HIDE DEF S
<1>2. f \in [S -> 1 .. Len(ms)] BY <1>1
<1>. HIDE DEF f
<1>3. f \in Injection(S, 1 .. Len(ms)) BY <1>1, <1>2 DEF Injection, IsInjective
<1>4. /\ Len(ms) \in Nat /\ IsFiniteSet(1 .. Len(ms))
      /\ Cardinality(1 .. Len(ms)) = IF 1 > Len(ms) THEN 0 ELSE Len(ms) - 1 + 1
  <2>1. Len(ms) \in Int /\ 1 \in Int /\ Len(ms) \in Nat OBVIOUS
  <2>. QED BY <2>1, FS_Interval
<1>5. Cardinality(S) <= Cardinality(1 .. Len(ms)) BY <1>3, <1>4, FS_Injection
<1>6. Cardinality(S) <= Len(ms) BY <1>4, <1>5
<1>. QED BY <1>6 DEF S

\* There are fewer signals than markets while one of them is without.
LEMMA SignalsFew ==
  ASSUME ControlInv, RowsInv, PlaceInv, pc = "books"
  PROVE  Len(signals) < Cardinality(Named)
<1>. DEFINE m == cur.entry.market
            T == Named \ {m}
            f == [i \in 1 .. Len(signals) |-> signals[i].market]
<1>1. /\ m \in Named /\ Distinct(signals)
      /\ \A i \in DOMAIN signals : signals[i].market \in Named /\ signals[i].market # m
  BY DEF ControlInv, PlaceInv, OnTitle
<1>2. DOMAIN signals = 1 .. Len(signals) /\ Len(signals) \in Nat BY DEF RowsInv
<1>3. f \in [1 .. Len(signals) -> T] BY <1>1, <1>2
<1>4. \A i, k \in 1 .. Len(signals) : f[i] = f[k] => i = k BY <1>1, <1>2 DEF Distinct
<1>5. IsFiniteSet(Named) BY InputsAssumption, FS_Subset
<1>. HIDE DEF f, m
<1>6. IsFiniteSet(T) /\ Cardinality(T) = Cardinality(Named) - 1
  BY <1>1, <1>5, FS_RemoveElement
<1>7. Cardinality(1 .. Len(signals)) = Len(signals)
  <2>1. Len(signals) \in Int /\ 1 \in Int BY <1>2
  <2>2. Cardinality(1 .. Len(signals)) = IF 1 > Len(signals) THEN 0 ELSE Len(signals) - 1 + 1
    BY <2>1, FS_Interval
  <2>. QED BY <1>2, <2>2
<1>. HIDE DEF T
<1>8. f \in Injection(1 .. Len(signals), T) BY <1>3, <1>4 DEF Injection, IsInjective
<1>9. Cardinality(1 .. Len(signals)) <= Cardinality(T) BY <1>6, <1>8, FS_Injection
<1>10. Cardinality(Named) \in Nat BY <1>5, FS_CardinalityType
<1>. QED BY <1>2, <1>6, <1>7, <1>9, <1>10

\* The signals, as PaperTrading sees them.
SignalOf(s) == [market |-> s.market, side |-> s.side]
SignalsOf(rows) == [i \in DOMAIN rows |-> SignalOf(rows[i])]
PaperSignalRow == [market : Markets, side : Sides]

LEMMA SignalsAre ==
  ASSUME NEW rows \in Seq(Stored)
  PROVE  /\ SignalsOf(rows) \in Seq(PaperSignalRow) /\ Len(SignalsOf(rows)) = Len(rows)
         /\ \A i \in 1 .. Len(rows) : SignalsOf(rows)[i] = SignalOf(rows[i])
<1>1. DOMAIN rows = 1 .. Len(rows) /\ Len(rows) \in Nat OBVIOUS
<1>2. ASSUME NEW i \in 1 .. Len(rows)
      PROVE  SignalOf(rows[i]) \in PaperSignalRow
  <2>1. rows[i] \in Stored OBVIOUS
  <2>. QED BY <2>1 DEF Stored, PaperSignalRow, SignalOf
<1>3. SignalsOf(rows) = [i \in 1 .. Len(rows) |-> SignalOf(rows[i])]
  BY <1>1 DEF SignalsOf
<1>4. SignalsOf(rows) \in [1 .. Len(rows) -> PaperSignalRow] BY <1>2, <1>3
<1>5. SignalsOf(rows) \in Seq(PaperSignalRow) /\ Len(SignalsOf(rows)) = Len(rows)
  BY <1>1, <1>4
<1>. QED BY <1>3, <1>5

\* A row more is a row more.
LEMMA SignalAppends ==
  ASSUME NEW rows \in Seq(Stored), NEW s \in Stored
  PROVE  SignalsOf(Append(rows, s)) = Append(SignalsOf(rows), SignalOf(s))
<1>. DEFINE row == SignalOf(s)
            more == Append(rows, s)
            p == SignalsOf(rows)
            q == SignalsOf(more)
            n == Len(rows)
<1>1. /\ more \in Seq(Stored) /\ Len(more) = n + 1 /\ more[n + 1] = s /\ n \in Nat
      /\ \A i \in 1 .. n : more[i] = rows[i]
  OBVIOUS
<1>. HIDE DEF more
<1>2. /\ p \in Seq(PaperSignalRow) /\ Len(p) = n
      /\ \A i \in 1 .. n : p[i] = SignalOf(rows[i])
  BY SignalsAre
<1>3. /\ q \in Seq(PaperSignalRow) /\ Len(q) = n + 1
      /\ \A i \in 1 .. (n + 1) : q[i] = SignalOf(more[i])
  BY <1>1, SignalsAre
<1>4. row \in PaperSignalRow BY DEF Stored, PaperSignalRow, SignalOf
<1>. HIDE DEF row, p, q, n
<1>5. /\ Append(p, row) \in Seq(PaperSignalRow) /\ Len(Append(p, row)) = n + 1
      /\ Append(p, row)[n + 1] = row /\ \A i \in 1 .. n : Append(p, row)[i] = p[i]
  BY <1>2, <1>4, AppendProperties
<1>6. ASSUME NEW i \in 1 .. (n + 1) PROVE q[i] = Append(p, row)[i]
  <2>1. CASE i \in 1 .. n BY <1>1, <1>2, <1>3, <1>5, <2>1
  <2>2. CASE i = n + 1
    <3>1. q[i] = row BY <1>1, <1>3, <2>2 DEF row
    <3>. QED BY <1>5, <2>2, <3>1
  <2>3. i \in 1 .. n \/ i = n + 1 BY <1>1
  <2>. QED BY <2>1, <2>2, <2>3
<1>7. q = Append(p, row) BY <1>3, <1>5, <1>6, SeqEqual
<1>. QED BY <1>7 DEF q, p, row, more

\* The orders, as PaperTrading sees them.
OrderOf(o) ==
    [signal |-> o.signal, market |-> o.market, side |-> o.side, status |-> "open", late |-> FALSE]
OrdersOf(rows) == [i \in DOMAIN rows |-> OrderOf(rows[i])]
PaperOrderRow == [signal : Nat, market : Markets, side : Sides, status : {"open"}, late : {FALSE}]

LEMMA OrdersAre ==
  ASSUME NEW rows \in Seq(Placed)
  PROVE  /\ OrdersOf(rows) \in Seq(PaperOrderRow) /\ Len(OrdersOf(rows)) = Len(rows)
         /\ \A i \in 1 .. Len(rows) : OrdersOf(rows)[i] = OrderOf(rows[i])
<1>1. DOMAIN rows = 1 .. Len(rows) /\ Len(rows) \in Nat OBVIOUS
<1>2. ASSUME NEW i \in 1 .. Len(rows)
      PROVE  OrderOf(rows[i]) \in PaperOrderRow
  <2>1. rows[i] \in Placed OBVIOUS
  <2>. QED BY <2>1 DEF Placed, PaperOrderRow, OrderOf
<1>3. OrdersOf(rows) = [i \in 1 .. Len(rows) |-> OrderOf(rows[i])]
  BY <1>1 DEF OrdersOf
<1>4. OrdersOf(rows) \in [1 .. Len(rows) -> PaperOrderRow] BY <1>2, <1>3
<1>5. OrdersOf(rows) \in Seq(PaperOrderRow) /\ Len(OrdersOf(rows)) = Len(rows)
  BY <1>1, <1>4
<1>. QED BY <1>3, <1>5

\* The same of orders.
LEMMA OrderAppends ==
  ASSUME NEW rows \in Seq(Placed), NEW s \in Placed
  PROVE  OrdersOf(Append(rows, s)) = Append(OrdersOf(rows), OrderOf(s))
<1>. DEFINE row == OrderOf(s)
            more == Append(rows, s)
            p == OrdersOf(rows)
            q == OrdersOf(more)
            n == Len(rows)
<1>1. /\ more \in Seq(Placed) /\ Len(more) = n + 1 /\ more[n + 1] = s /\ n \in Nat
      /\ \A i \in 1 .. n : more[i] = rows[i]
  OBVIOUS
<1>. HIDE DEF more
<1>2. /\ p \in Seq(PaperOrderRow) /\ Len(p) = n
      /\ \A i \in 1 .. n : p[i] = OrderOf(rows[i])
  BY OrdersAre
<1>3. /\ q \in Seq(PaperOrderRow) /\ Len(q) = n + 1
      /\ \A i \in 1 .. (n + 1) : q[i] = OrderOf(more[i])
  BY <1>1, OrdersAre
<1>4. row \in PaperOrderRow BY DEF Placed, PaperOrderRow, OrderOf
<1>. HIDE DEF row, p, q, n
<1>5. /\ Append(p, row) \in Seq(PaperOrderRow) /\ Len(Append(p, row)) = n + 1
      /\ Append(p, row)[n + 1] = row /\ \A i \in 1 .. n : Append(p, row)[i] = p[i]
  BY <1>2, <1>4, AppendProperties
<1>6. ASSUME NEW i \in 1 .. (n + 1) PROVE q[i] = Append(p, row)[i]
  <2>1. CASE i \in 1 .. n BY <1>1, <1>2, <1>3, <1>5, <2>1
  <2>2. CASE i = n + 1
    <3>1. q[i] = row BY <1>1, <1>3, <2>2 DEF row
    <3>. QED BY <1>5, <2>2, <3>1
  <2>3. i \in 1 .. n \/ i = n + 1 BY <1>1
  <2>. QED BY <2>1, <2>2, <2>3
<1>7. q = Append(p, row) BY <1>3, <1>5, <1>6, SeqEqual
<1>. QED BY <1>7 DEF q, p, row, more

\* A signal of the market at hand is stored; the scan places an order, or not.
LEMMA PaperSaves ==
  ASSUME NEW t, NEW d, NEW m, PaperScan = At("quote", t, m, "Yes", 0, d),
         signals \in Seq(Stored), NEW s \in Stored, s.market = m,
         signals' = Append(signals, s), orders' = orders, Len(signals) < Cardinality(Named),
         \/ PaperScan' = At("order", t, m, s.side, Len(signals) + 1, d)
         \/ PaperScan' = At("next", t, NoMarket, "Yes", 0, d)
  PROVE  \E side \in Paper!Outcomes : Paper!SaveSignal("scan", side)
<1>. DEFINE before == [j \in {"scan"} |-> PaperScan]["scan"]
            side == s.side
            ps == SignalsOf(signals)
            id == Len(ps) + 1
            kept == [before EXCEPT !.pc = "order", !.side = side, !.signal = id]
            left == [before EXCEPT !.pc = "next", !.market = NoMarket, !.side = "Yes", !.signal = 0]
<1>1. before = PaperScan OBVIOUS
<1>2. side \in Paper!Outcomes BY DEF Stored, Sides, Paper!Outcomes
<1>3. Len(ps) = Len(signals) BY SignalsAre
<1>4. SignalsOf(signals') = Append(ps, [market |-> s.market, side |-> s.side])
  BY SignalAppends DEF SignalOf
<1>. HIDE DEF before, side, ps
<1>5. DOMAIN before = Fields BY <1>1, AtFields
<1>6. kept = At("order", t, m, side, Len(signals) + 1, d)
  <2>0. id = Len(signals) + 1 BY <1>3
  <2>. HIDE DEF id
  <2>2. DOMAIN kept = DOMAIN before /\ kept = [f \in DOMAIN kept |-> kept[f]] OBVIOUS
  <2>3. /\ kept.pc = "order" /\ kept.todo = t /\ kept.market = m
        /\ kept.side = side /\ kept.signal = id /\ kept.done = d
    BY <1>1, <1>5, AtFields DEF Fields
  <2>. HIDE DEF kept
  <2>. QED BY <1>5, <2>0, <2>2, <2>3, AtIs
<1>7. left = At("next", t, NoMarket, "Yes", 0, d)
  <2>2. DOMAIN left = DOMAIN before /\ left = [f \in DOMAIN left |-> left[f]] OBVIOUS
  <2>3. /\ left.pc = "next" /\ left.todo = t /\ left.market = NoMarket
        /\ left.side = "Yes" /\ left.signal = 0 /\ left.done = d
    BY <1>1, <1>5, AtFields DEF Fields
  <2>. HIDE DEF left
  <2>. QED BY <1>5, <2>2, <2>3, AtIs
<1>8. Paper!ScanStep("scan", "quote", PaperScan') /\ before.market = m
  BY <1>1, AtFields, PaperStep
<1>. HIDE DEF kept, left, id
<1>9. \/ Paper!ScanStep("scan", "quote", kept)
      \/ Paper!ScanStep("scan", "quote", left)
  BY <1>6, <1>7, <1>8 DEF side
<1>10. Len(ps) < Cardinality(Named) BY <1>3
<1>11. SignalsOf(signals') = Append(ps, [market |-> before.market, side |-> side])
  BY <1>4, <1>8 DEF side
<1>12. Paper!StoreSignal("scan", side, id)
  BY <1>9, <1>10, <1>11, Zenon
  DEF Paper!StoreSignal, Paper!Leave, SignalsOf, SignalOf, before, ps, kept, left
<1>. QED BY <1>2, <1>12 DEF Paper!SaveSignal, id, ps, SignalsOf, SignalOf

\* The order of the signal is placed.
LEMMA PaperPlaces ==
  ASSUME NEW t, NEW d, NEW m \in Named, NEW side, NEW n,
         PaperScan = At("order", t, m, side, n, d),
         PaperScan' = At("next", t, NoMarket, "Yes", 0, d),
         orders \in Seq(Placed), NEW o \in Placed,
         o.signal = n, o.market = m, o.side = side,
         signals' = signals, orders' = Append(orders, o)
  PROVE  Paper!SaveOrder("scan")
<1>. DEFINE before == [j \in {"scan"} |-> PaperScan]["scan"]
            world == [x \in Named |-> [closed |-> FALSE, decisive |-> {}]]
            left == [before EXCEPT !.pc = "next", !.market = NoMarket, !.side = "Yes", !.signal = 0]
            po == OrdersOf(orders)
<1>1. before = PaperScan /\ world[m].closed = FALSE OBVIOUS
<1>. HIDE DEF before, world, po
<1>2. /\ before.market = m /\ before.side = side /\ before.signal = n
      /\ DOMAIN before = Fields
  BY <1>1, AtFields
<1>3. left = At("next", t, NoMarket, "Yes", 0, d)
  <2>2. DOMAIN left = DOMAIN before /\ left = [f \in DOMAIN left |-> left[f]] OBVIOUS
  <2>3. /\ left.pc = "next" /\ left.todo = t /\ left.market = NoMarket
        /\ left.side = "Yes" /\ left.signal = 0 /\ left.done = d
    BY <1>1, <1>2, AtFields DEF Fields
  <2>. HIDE DEF left
  <2>. QED BY <1>2, <2>2, <2>3, AtIs
<1>. HIDE DEF left
<1>4. Paper!ScanStep("scan", "order", left)
  BY <1>1, <1>3, AtFields, PaperStep
<1>5. OrdersOf(orders') = Append(po,
        [signal |-> before.signal, market |-> before.market, side |-> before.side,
         status |-> "open", late |-> world[before.market].closed])
  <2>1. OrdersOf(orders') = Append(po,
          [signal |-> o.signal, market |-> o.market, side |-> o.side,
           status |-> "open", late |-> FALSE])
    BY OrderAppends DEF po, OrderOf
  <2>. QED BY <1>1, <1>2, <2>1
<1>. QED BY <1>4, <1>5, Zenon
         DEF Paper!SaveOrder, Paper!PlaceOrder, Paper!Leave, OrdersOf, OrderOf, before, world,
             po, left

-----------------------------------------------------------------------------
\* The scan PaperTrading sees, from the parts of this one.
PcOf(name, place) ==
    CASE name = "audit" \/ place \in {"idle", "end", "aborted"} -> "idle"
      [] name = "scan" /\ place \in {"next", "parse"} -> "next"
      [] name = "scan" /\ place \in {"forecast", "books"} -> "quote"
      [] OTHER -> place
LeftOf(place, l, c) == ToSet(l) \cup (IF place = "parse" THEN {c.entry} ELSE {})
NamedOf(es) == {e \in es : e.market \in Named}
MarketsOf(es) == {e.market : e \in NamedOf(es)}
PaperOf(name, place, l, c, taken, rows) ==
    IF PcOf(name, place) = "idle" THEN Rest
    ELSE At(PcOf(name, place), Pairs(LeftOf(place, l, c)),
            IF PcOf(name, place) \in {"quote", "order"} THEN c.entry.market ELSE NoMarket,
            IF place = "order" THEN rows[c.signal].side ELSE "Yes",
            c.signal, (taken \cap Named) \ MarketsOf(LeftOf(place, l, c)))

\* The mapping, now and after a step.
LEMMA PaperIs ==
  /\ PaperScan = PaperOf(command.name, pc, list, cur, done, signals)
  /\ PaperScan' = PaperOf(command'.name, pc', list', cur', done', signals')
<1>1. PaperPc = PcOf(command.name, pc) BY DEF PaperPc, PcOf
<1>2. PaperPc' = PcOf(command'.name, pc') BY DEF PaperPc, PcOf
<1>3. PaperScan = PaperOf(command.name, pc, list, cur, done, signals)
  BY <1>1, Zenon DEF PaperScan, PaperOf, Rest, At, Pairs, LeftOf, NamedOf, MarketsOf
<1>4. PaperScan' = PaperOf(command'.name, pc', list', cur', done', signals')
  BY <1>2, Zenon DEF PaperScan, PaperOf, Rest, At, Pairs, LeftOf, NamedOf, MarketsOf
<1>. QED BY <1>3, <1>4

\* An audit, and a command that has not begun or is over, is nothing.
LEMMA OfRest ==
  ASSUME NEW name, NEW place, NEW l, NEW c, NEW taken, NEW rows,
         name = "audit" \/ place \in {"idle", "end", "aborted"}
  PROVE  PaperOf(name, place, l, c, taken, rows) = Rest
  BY DEF PaperOf, PcOf

\* A list that holds no market that was taken up leaves those that were.
LEMMA OfTaken ==
  ASSUME NEW l, NEW taken, \A i \in DOMAIN l : l[i].market \notin taken
  PROVE  (taken \cap Named) \ MarketsOf(ToSet(l)) = taken \cap Named
  BY DEF MarketsOf, NamedOf, ToSet

\* At the head of the loop, and before it.
LEMMA OfList ==
  ASSUME NEW place \in {"keyword", "both", "weather-tag", "next"}, NEW l, NEW c, NEW taken,
         NEW rows, c.signal = 0, \A i \in DOMAIN l : l[i].market \notin taken
  PROVE  PaperOf("scan", place, l, c, taken, rows)
           = At(place, Pairs(ToSet(l)), NoMarket, "Yes", 0, taken \cap Named)
<1>1. PcOf("scan", place) = place /\ place \notin {"idle", "quote", "order", "parse"} BY DEF PcOf
<1>2. LeftOf(place, l, c) = ToSet(l) BY <1>1 DEF LeftOf
<1>. QED BY <1>1, <1>2, OfTaken DEF PaperOf

\* With a title in hand: it is as if the market were on the list.
LEMMA OfTitle ==
  ASSUME NEW l, NEW c, NEW taken, NEW rows, NEW e, c.signal = 0, c.entry = e,
         e.market \in Named, \A i \in DOMAIN l : l[i].market \notin taken
  PROVE  PaperOf("scan", "parse", l, c, taken, rows)
           = At("next", Pairs(ToSet(l) \cup {e}), NoMarket, "Yes", 0,
                (taken \cap Named) \ {e.market})
<1>1. PcOf("scan", "parse") = "next" BY DEF PcOf
<1>2. LeftOf("parse", l, c) = ToSet(l) \cup {e} BY DEF LeftOf
<1>3. MarketsOf(ToSet(l) \cup {e}) = MarketsOf(ToSet(l)) \cup {e.market}
  BY DEF MarketsOf, NamedOf
<1>4. (taken \cap Named) \ MarketsOf(ToSet(l) \cup {e})
        = (taken \cap Named) \ {e.market}
  BY <1>3, OfTaken
<1>. QED BY <1>1, <1>2, <1>4 DEF PaperOf

-----------------------------------------------------------------------------
(* Step by step. *)

\* A step that PaperTrading does not see.
LEMMA PaperStays ==
  ASSUME PaperScan' = PaperScan, UNCHANGED <<signals, orders>>
  PROVE  UNCHANGED Paper!vars
  BY DEF Paper!vars, Paper!env, Paper!db

\* An audit is nothing to PaperTrading.
LEMMA AuditStays ==
  ASSUME command.name = "audit", UNCHANGED <<command, signals, orders>>
  PROVE  UNCHANGED Paper!vars
<1>1. PaperScan = Rest /\ PaperScan' = Rest BY PaperIs, OfRest
<1>. QED BY <1>1, PaperStays

\* A scan begins; an audit is not seen.
LEMMA MapStart ==
  ASSUME ControlInv, PlaceInv, StartScan \/ StartAudit
  PROVE  Paper!StartScan("scan") \/ UNCHANGED Paper!vars
<1>1. pc = "idle" /\ UNCHANGED <<list, cur, done, signals, orders>>
  BY DEF StartScan, StartAudit, Go
<1>2. PaperScan = Rest BY <1>1, PaperIs, OfRest
<1>3. CASE StartAudit
  <2>1. command'.name = "audit" BY <1>3 DEF StartAudit, NoCommand
  <2>2. PaperScan' = Rest BY <2>1, PaperIs, OfRest
  <2>. QED BY <1>1, <1>2, <2>2, PaperStays
<1>4. CASE StartScan
  <2>1. PICK source \in ScanSources, paper \in BOOLEAN, bankroll \in Bankrolls :
           /\ pc' = source
           /\ command' = [name |-> "scan", paper |-> paper, bankroll |-> bankroll]
    BY <1>4 DEF StartScan, Go
  <2>2. command'.name = "scan" BY <2>1
  <2>3. list' = <<>> /\ done' = {} /\ cur'.signal = 0 /\ DOMAIN list' = {}
    BY <1>1 DEF PlaceInv, Before
  <2>4. source \in {"keyword", "both", "weather-tag", "next"} BY <2>1, InputsAssumption
  <2>5. PaperScan' = At(source, Pairs(ToSet(list')), NoMarket, "Yes", 0, done' \cap Named)
    BY <2>1, <2>2, <2>3, <2>4, PaperIs, OfList
  <2>6. Pairs(ToSet(list')) = {} /\ done' \cap Named = {} BY <2>3 DEF Pairs, ToSet
  <2>7. PaperScan' = At(source, {}, NoMarket, "Yes", 0, {}) BY <2>5, <2>6
  <2>. QED BY <1>1, <1>2, <2>1, <2>7, PaperStarts
<1>. QED BY <1>3, <1>4

\* The keyword request lists the markets that have a conditionId.
LEMMA MapKeyword ==
  ASSUME ControlInv, PlaceInv, PlaceInv', FetchKeyword
  PROVE  Paper!FetchKeyword("scan") \/ UNCHANGED Paper!vars
<1>1. PICK ms \in SetToAllKPermutations(Markets) :
         /\ Len(ms) <= ScanLimit
         /\ pc \in {"keyword", "both"} /\ pc' = IF pc = "keyword" THEN "next" ELSE "weather-tag"
         /\ list' = Dedupe(Entries(ms, "keyword"))
         /\ UNCHANGED <<command, cur, done, signals, orders>>
  BY DEF FetchKeyword, Listed, Go
<1>2. command.name \in {"scan", "audit"} BY <1>1 DEF ControlInv
<1>3. CASE command.name = "audit" BY <1>1, <1>3, AuditStays
<1>4. CASE command.name = "scan"
  <2>1. list = <<>> /\ done = {} /\ cur.signal = 0 /\ DOMAIN list = {}
    BY <1>1 DEF PlaceInv, Before
  <2>2. PaperScan = At(pc, Pairs(ToSet(list)), NoMarket, "Yes", 0, done \cap Named)
    BY <1>1, <1>4, <2>1, PaperIs, OfList
  <2>3. Pairs(ToSet(list)) = {} /\ done \cap Named = {} BY <2>1 DEF Pairs, ToSet
  <2>4. PaperScan = At(pc, {}, NoMarket, "Yes", 0, {}) BY <2>2, <2>3
  <2>5. pc' \in {"next", "weather-tag"} /\ command'.name = "scan" /\ cur'.signal = 0 /\ done' = {}
    BY <1>1, <1>4, <2>1
  <2>6. PaperScan' = At(pc', Pairs(ToSet(list')), NoMarket, "Yes", 0, done' \cap Named)
    BY <2>5, PaperIs, OfList
  <2>. DEFINE some == ToSet(ms) \cap Named
  <2>7. Pairs(ToSet(list')) = some \X {"keyword"}
    <3>1. ToSet(list') = {EntryOf(m, "keyword") : m \in ToSet(ms)} BY <1>1, KeywordList
    <3>2. \A m : EntryOf(m, "keyword").market = m /\ EntryOf(m, "keyword").request = "keyword"
      BY DEF EntryOf
    <3>3. ASSUME NEW p \in Pairs(ToSet(list')) PROVE p \in some \X {"keyword"}
      <4>1. PICK e \in ToSet(list') : e.market \in Named /\ p = <<e.market, e.request>>
        BY <3>3 DEF Pairs
      <4>2. PICK m \in ToSet(ms) : e = EntryOf(m, "keyword") BY <3>1, <4>1
      <4>3. p = <<m, "keyword">> /\ m \in Named BY <3>2, <4>1, <4>2
      <4>. QED BY <4>2, <4>3
    <3>4. ASSUME NEW p \in some \X {"keyword"} PROVE p \in Pairs(ToSet(list'))
      <4>1. PICK m \in some : p = <<m, "keyword">> OBVIOUS
      <4>2. EntryOf(m, "keyword") \in ToSet(list') BY <3>1, <4>1
      <4>. QED BY <3>2, <4>1, <4>2 DEF Pairs
    <3>. QED BY <3>3, <3>4
  <2>8. Cardinality(some) <= ScanLimit
    <3>1. ms \in Seq(Markets) BY ListingIs
    <3>2. Cardinality(some) <= Len(ms) BY <3>1, FewListed
    <3>3. IsFiniteSet(some)
      <4>1. IsFiniteSet(Named) BY InputsAssumption, FS_Subset
      <4>. QED BY <4>1, FS_Subset
    <3>4. Cardinality(some) \in Nat BY <3>3, FS_CardinalityType
    <3>5. Len(ms) \in Nat /\ ScanLimit \in Nat BY <3>1, InputsAssumption
    <3>. HIDE DEF some
    <3>. QED BY <1>1, <3>2, <3>4, <3>5
  <2>9. some \in SUBSET Named OBVIOUS
  <2>. HIDE DEF some
  <2>10. PaperScan' = At(IF pc = "keyword" THEN "next" ELSE "weather-tag",
                         some \X {"keyword"}, NoMarket, "Yes", 0, {})
    BY <1>1, <2>5, <2>6, <2>7
  <2>11. PaperScan.pc \in {"keyword", "both"} BY <1>1, <2>4, AtFields
  <2>12. UNCHANGED <<signals, orders>> BY <1>1
  <2>13. Paper!FetchKeyword("scan")
    BY <2>4, <2>8, <2>9, <2>10, <2>11, <2>12, PaperKeyword
  <2>. QED BY <2>13
<1>. QED BY <1>2, <1>3, <1>4

\* A market listed by both requests stays with the first.
LEMMA PairsDeduped ==
  ASSUME NEW was, NEW all, NEW ms, \A e \in was : e \in Entry /\ e.request = "keyword",
         all = was \cup {EntryOf(m, "weather-tag") :
                           m \in {m \in ms : \A e \in was : e.market # m}}
  PROVE  Pairs(all) = Paper!Deduped(Pairs(was) \cup ((ms \cap Named) \X {"weather-tag"}))
<1>. DEFINE some == ms \cap Named
            both == Pairs(was) \cup (some \X {"weather-tag"})
<1>1. \A m : /\ EntryOf(m, "weather-tag").market = m
            /\ EntryOf(m, "weather-tag").request = "weather-tag"
  BY DEF EntryOf
<1>2. ASSUME NEW p \in Pairs(was)
      PROVE  \E e \in was : e.market \in Named /\ p = <<e.market, "keyword">>
  BY <1>2 DEF Pairs
<1>3. ASSUME NEW p \in Pairs(all)
      PROVE  p \in both /\ (p[2] = "weather-tag" => <<p[1], "keyword">> \notin both)
  <2>1. PICK e \in all : e.market \in Named /\ p = <<e.market, e.request>> BY <1>3 DEF Pairs
  <2>2. CASE e \in was
    <3>1. p \in Pairs(was) BY <2>1, <2>2 DEF Pairs
    <3>2. p[2] # "weather-tag" BY <2>1, <2>2
    <3>. QED BY <3>1, <3>2
  <2>3. CASE e \notin was
    <3>1. PICK m \in ms : e = EntryOf(m, "weather-tag") /\ \A x \in was : x.market # m BY <2>1, <2>3
    <3>2. p = <<m, "weather-tag">> /\ m \in some BY <1>1, <2>1, <3>1
    <3>3. p[1] = m /\ p \in both BY <3>2
    <3>4. <<m, "keyword">> \notin Pairs(was)
      <4>. SUFFICES ASSUME <<m, "keyword">> \in Pairs(was) PROVE FALSE OBVIOUS
      <4>1. PICK x \in was : <<m, "keyword">> = <<x.market, "keyword">> BY <1>2
      <4>. QED BY <3>1, <4>1
    <3>5. <<m, "keyword">> \notin some \X {"weather-tag"} OBVIOUS
    <3>. QED BY <3>3, <3>4, <3>5
  <2>. QED BY <2>2, <2>3
<1>4. ASSUME NEW p \in both, p[2] = "weather-tag" => <<p[1], "keyword">> \notin both
      PROVE  p \in Pairs(all)
  <2>1. CASE p \in Pairs(was)
    <3>1. PICK e \in was : e.market \in Named /\ p = <<e.market, "keyword">> BY <1>2, <2>1
    <3>. QED BY <3>1 DEF Pairs
  <2>2. CASE p \in some \X {"weather-tag"}
    <3>1. PICK m \in some : p = <<m, "weather-tag">> BY <2>2
    <3>2. <<m, "keyword">> \notin Pairs(was) BY <1>4, <3>1
    <3>3. ASSUME NEW e \in was PROVE e.market # m
      <4>. SUFFICES ASSUME e.market = m PROVE FALSE OBVIOUS
      <4>1. <<e.market, e.request>> \in Pairs(was) BY <3>1 DEF Pairs
      <4>. QED BY <3>2, <4>1
    <3>4. EntryOf(m, "weather-tag") \in all BY <3>1, <3>3
    <3>. QED BY <1>1, <3>1, <3>4 DEF Pairs
  <2>. QED BY <1>4, <2>1, <2>2
<1>5. Paper!Deduped(both) = {p \in both : p[2] = "weather-tag" => <<p[1], "keyword">> \notin both}
  BY DEF Paper!Deduped
<1>. HIDE DEF both
<1>6. Pairs(all) = Paper!Deduped(both) BY <1>3, <1>4, <1>5
<1>. QED BY <1>6 DEF both

\* The tagged request adds those the list has not.
LEMMA MapTagged ==
  ASSUME ControlInv, PlaceInv, PlaceInv', FetchTagged
  PROVE  Paper!FetchTagged("scan") \/ UNCHANGED Paper!vars
<1>1. PICK ms \in SetToAllKPermutations(Markets) :
         /\ pc = "weather-tag" /\ pc' = "next"
         /\ list' = Dedupe(list \o Entries(ms, "weather-tag"))
         /\ UNCHANGED <<command, cur, done, signals, orders>>
  BY DEF FetchTagged, Listed, Go
<1>2. command.name \in {"scan", "audit"} BY <1>1 DEF ControlInv
<1>3. CASE command.name = "audit" BY <1>1, <1>3, AuditStays
<1>4. CASE command.name = "scan"
  <2>1. /\ done = {} /\ cur.signal = 0 /\ Distinct(list) /\ list \in Seq(Entry)
        /\ \A i \in DOMAIN list : list[i].request = "keyword"
    BY <1>1 DEF PlaceInv, Before, ControlInv
  <2>2. PaperScan = At("weather-tag", Pairs(ToSet(list)), NoMarket, "Yes", 0, done \cap Named)
    BY <1>1, <1>4, <2>1, PaperIs, OfList
  <2>3. PaperScan' = At("next", Pairs(ToSet(list')), NoMarket, "Yes", 0, done' \cap Named)
    <3>1. command'.name = "scan" /\ cur'.signal = 0 /\ done' = {} BY <1>1, <1>4, <2>1
    <3>. QED BY <1>1, <3>1, PaperIs, OfList
  <2>4. done \cap Named = {} /\ done' \cap Named = {} BY <1>1, <2>1
  <2>5. ToSet(list') = ToSet(list) \cup
              {EntryOf(m, "weather-tag") :
                 m \in {m \in ToSet(ms) : \A e \in ToSet(list) : e.market # m}}
    BY <1>1, <2>1, TaggedList
  <2>6. \A e \in ToSet(list) : e \in Entry /\ e.request = "keyword" BY <2>1 DEF ToSet
  <2>7. Pairs(ToSet(list'))
          = Paper!Deduped(Pairs(ToSet(list)) \cup ((ToSet(ms) \cap Named) \X {"weather-tag"}))
    <3>. DEFINE was == ToSet(list)
                all == ToSet(list')
                names == ToSet(ms)
    <3>1. /\ \A e \in was : e \in Entry /\ e.request = "keyword"
          /\ all = was \cup {EntryOf(m, "weather-tag") :
                              m \in {m \in names : \A e \in was : e.market # m}}
      BY <2>5, <2>6
    <3>. HIDE DEF was, all, names
    <3>2. Pairs(all) = Paper!Deduped(Pairs(was) \cup ((names \cap Named) \X {"weather-tag"}))
      BY ONLY <3>1, PairsDeduped
    <3>. QED BY <3>2 DEF was, all, names
  <2>8. UNCHANGED <<signals, orders>> BY <1>1
  <2>. DEFINE some == ToSet(ms) \cap Named
              t == Pairs(ToSet(list))
  <2>9. some \in SUBSET Named OBVIOUS
  <2>. HIDE DEF some, t
  <2>10. PaperScan = At("weather-tag", t, NoMarket, "Yes", 0, {}) BY <2>2, <2>4 DEF t
  <2>11. PaperScan' = At("next", Paper!Deduped(t \cup (some \X {"weather-tag"})),
                         NoMarket, "Yes", 0, {})
    BY <2>3, <2>4, <2>7 DEF t, some
  <2>12. Paper!FetchTagged("scan") BY <2>8, <2>9, <2>10, <2>11, PaperTagged
  <2>. QED BY <2>12
<1>. QED BY <1>2, <1>3, <1>4

\* Taking a market from the list: PaperTrading sees it still there.
LEMMA MapTakeUp ==
  ASSUME ControlInv, PlaceInv, PlaceInv', TakeUp
  PROVE  UNCHANGED Paper!vars
<1>. DEFINE e == Head(list)
            l == Tail(list)
<1>1. /\ pc = "next" /\ list # <<>> /\ list' = l /\ done' = done \cup {e.market}
      /\ UNCHANGED <<command, signals, orders>>
      /\ \/ /\ command.name = "scan" /\ e.market \notin Named
            /\ pc' = "next" /\ cur' = cur
         \/ /\ command.name = "scan" => e.market \in Named
            /\ pc' = "parse" /\ cur'.entry = e /\ cur'.signal = 0
  BY Zenon DEF TakeUp, Idle
<1>2. command.name \in {"scan", "audit"} BY <1>1 DEF ControlInv
<1>3. CASE command.name = "audit" BY <1>1, <1>3, AuditStays
<1>4. CASE command.name = "scan"
  <2>1. list \in Seq(Entry) BY DEF ControlInv
  <2>2. ToSet(list) = ToSet(l) \cup {e}
    <3>1. /\ \A i \in DOMAIN list : i = 1 \/ (i - 1 \in DOMAIN l /\ l[i - 1] = list[i])
          /\ \A i \in DOMAIN l : i + 1 \in DOMAIN list /\ l[i] = list[i + 1]
          /\ 1 \in DOMAIN list /\ e = list[1]
      BY <1>1, <2>1
    <3>. HIDE DEF e, l
    <3>2. \A x \in ToSet(list) : x \in ToSet(l) \cup {e} BY <3>1 DEF ToSet
    <3>3. \A x \in ToSet(l) \cup {e} : x \in ToSet(list) BY <3>1 DEF ToSet
    <3>. QED BY <3>2, <3>3
  <2>. HIDE DEF e, l
  <2>3. /\ cur.signal = 0 /\ \A i \in DOMAIN list : list[i].market \notin done
        /\ e \in ToSet(list)
    BY <1>1, <2>2 DEF PlaceInv, Loop
  <2>4. e.market \notin done
    <3>1. PICK i \in DOMAIN list : e = list[i] BY <2>3 DEF ToSet
    <3>. QED BY <2>3, <3>1
  <2>5. PaperScan = At("next", Pairs(ToSet(list)), NoMarket, "Yes", 0, done \cap Named)
    BY <1>1, <1>4, <2>3, PaperIs, OfList
  <2>6. \A i \in DOMAIN list' : list'[i].market \notin done'
    BY <1>1 DEF PlaceInv, Loop, OnTitle
  <2>7. CASE e.market \notin Named
    <3>1. cur'.signal = 0 /\ command'.name = "scan" /\ pc' = "next" BY <1>1, <1>4, <2>3, <2>7
    <3>2. PaperScan' = At("next", Pairs(ToSet(list')), NoMarket, "Yes", 0, done' \cap Named)
      BY <2>6, <3>1, PaperIs, OfList
    <3>3. Pairs(ToSet(list)) = Pairs(ToSet(l)) BY <2>2, <2>7 DEF Pairs
    <3>4. done' \cap Named = done \cap Named BY <1>1, <2>7
    <3>5. PaperScan' = PaperScan BY <1>1, <2>5, <3>2, <3>3, <3>4
    <3>. QED BY <1>1, <3>5, PaperStays
  <2>8. CASE e.market \in Named
    <3>1. /\ cur'.signal = 0 /\ command'.name = "scan" /\ pc' = "parse" /\ cur'.entry = e
      BY <1>1, <1>4, <2>8
    <3>6. PaperScan' = PaperOf("scan", "parse", list', cur', done', signals')
      BY <3>1, PaperIs
    <3>2. PaperScan' = At("next", Pairs(ToSet(list') \cup {e}), NoMarket, "Yes", 0,
                          (done' \cap Named) \ {e.market})
      BY <2>6, <2>8, <3>1, <3>6, OfTitle
    <3>3. ToSet(list') \cup {e} = ToSet(list) BY <1>1, <2>2
    <3>4. (done' \cap Named) \ {e.market} = done \cap Named BY <1>1, <2>4
    <3>5. PaperScan' = PaperScan BY <2>5, <3>2, <3>3, <3>4
    <3>. QED BY <1>1, <3>5, PaperStays
  <2>. QED BY <2>7, <2>8
<1>. QED BY <1>2, <1>3, <1>4

\* The title in hand is one of PaperTrading's list.
LEMMA TitleIs ==
  ASSUME ControlInv, PlaceInv, pc = "parse", command.name = "scan"
  PROVE  \E t : \E e \in t :
           /\ e[1] = cur.entry.market
           /\ PaperScan = At("next", t, NoMarket, "Yes", 0, (done \cap Named) \ {e[1]})
           /\ t \ {e} = Pairs(ToSet(list))
           /\ ((done \cap Named) \ {e[1]}) \cup {e[1]} = done \cap Named
<1>. DEFINE L == ToSet(list)
            m == cur.entry.market
            t == Pairs(L \cup {cur.entry})
            e == <<m, cur.entry.request>>
<1>1. /\ cur.signal = 0 /\ m \in Named /\ m \in done
      /\ \A i \in DOMAIN list : list[i].market \notin done
  BY DEF PlaceInv, OnTitle, Loop
<1>2. PaperScan = At("next", t, NoMarket, "Yes", 0, (done \cap Named) \ {m})
  BY <1>1, PaperIs, OfTitle
<1>3. \A x \in L : x.market # m BY <1>1 DEF ToSet
<1>. HIDE DEF L
<1>4. e \in t BY <1>1 DEF Pairs
<1>5. t \ {e} = Pairs(L)
  <2>1. \A p \in Pairs(L) : p \in t /\ p # e
    <3>. TAKE p \in Pairs(L)
    <3>1. PICK x \in L : x.market \in Named /\ p = <<x.market, x.request>> BY DEF Pairs
    <3>. QED BY <1>3, <3>1 DEF Pairs
  <2>2. \A p \in t : p = e \/ p \in Pairs(L)
    <3>. TAKE p \in t
    <3>1. PICK x \in L \cup {cur.entry} : x.market \in Named /\ p = <<x.market, x.request>>
      BY DEF Pairs
    <3>. QED BY <3>1 DEF Pairs
  <2>. HIDE DEF t, e
  <2>. QED BY <2>1, <2>2
<1>6. e[1] = m OBVIOUS
<1>7. ((done \cap Named) \ {m}) \cup {m} = done \cap Named BY <1>1
<1>. HIDE DEF t, e, m
<1>. QED BY <1>2, <1>4, <1>5, <1>6, <1>7 DEF L, m

\* A title that is skipped: its market was taken up, and no forecast asked for.
LEMMA MapSkipTitle ==
  ASSUME ControlInv, PlaceInv, PlaceInv', SkipTitle
  PROVE  Paper!TakeUp("scan")
<1>1. /\ pc = "parse" /\ pc' = "next" /\ cur' = Idle /\ command.name = "scan"
      /\ UNCHANGED <<command, list, done, signals, orders>>
  BY DEF SkipTitle, SkipFor, Go
<1>2. PICK t : \E e \in t :
           /\ e[1] = cur.entry.market
           /\ PaperScan = At("next", t, NoMarket, "Yes", 0, (done \cap Named) \ {e[1]})
           /\ t \ {e} = Pairs(ToSet(list))
           /\ ((done \cap Named) \ {e[1]}) \cup {e[1]} = done \cap Named
  BY <1>1, TitleIs
<1>3. PICK e \in t :
           /\ PaperScan = At("next", t, NoMarket, "Yes", 0, (done \cap Named) \ {e[1]})
           /\ t \ {e} = Pairs(ToSet(list))
           /\ ((done \cap Named) \ {e[1]}) \cup {e[1]} = done \cap Named
  BY <1>2
<1>4. \A i \in DOMAIN list' : list'[i].market \notin done'
  BY <1>1 DEF PlaceInv, Loop, OnTitle
<1>5. cur'.signal = 0 /\ command'.name = "scan" BY <1>1 DEF Idle
<1>6. PaperScan' = At("next", Pairs(ToSet(list')), NoMarket, "Yes", 0, done' \cap Named)
  BY <1>1, <1>4, <1>5, PaperIs, OfList
<1>. DEFINE d == (done \cap Named) \ {e[1]}
<1>. HIDE DEF d
<1>7. PaperScan = At("next", t, NoMarket, "Yes", 0, d) BY <1>3 DEF d
<1>8. PaperScan' = At("next", t \ {e}, NoMarket, "Yes", 0, d \cup {e[1]})
  BY <1>1, <1>3, <1>6 DEF d
<1>9. UNCHANGED <<signals, orders>> BY <1>1
<1>. QED BY <1>7, <1>8, <1>9, PaperTakes

\* A market whose forecast or books are asked for.
LEMMA QuoteIs ==
  ASSUME PlaceInv, pc \in {"forecast", "books"}, command.name = "scan"
  PROVE  PaperScan = At("quote", Pairs(ToSet(list)), cur.entry.market, "Yes", 0, done \cap Named)
<1>1. cur.signal = 0 /\ \A i \in DOMAIN list : list[i].market \notin done
  BY DEF PlaceInv, Loop, OnTitle
<1>2. PaperScan = PaperOf("scan", pc, list, cur, done, signals) BY PaperIs
<1>4. PcOf("scan", pc) = "quote" /\ pc \notin {"order", "parse"} BY DEF PcOf
<1>5. LeftOf(pc, list, cur) = ToSet(list) BY <1>4 DEF LeftOf
<1>6. (done \cap Named) \ MarketsOf(ToSet(list)) = done \cap Named BY <1>1, OfTaken
<1>. QED BY <1>1, <1>2, <1>4, <1>5, <1>6 DEF PaperOf

\* The same after a step.
LEMMA QuoteIsNext ==
  ASSUME PlaceInv', pc' \in {"forecast", "books"}, command'.name = "scan",
         NEW m, cur'.entry.market = m
  PROVE  PaperScan' = At("quote", Pairs(ToSet(list')), m, "Yes", 0, done' \cap Named)
<1>1. cur'.signal = 0 /\ \A i \in DOMAIN list' : list'[i].market \notin done'
  BY DEF PlaceInv, Loop, OnTitle
<1>2. PaperScan' = PaperOf("scan", pc', list', cur', done', signals') BY PaperIs
<1>4. PcOf("scan", pc') = "quote" /\ pc' \notin {"order", "parse"} BY DEF PcOf
<1>5. LeftOf(pc', list', cur') = ToSet(list') BY <1>4 DEF LeftOf
<1>6. (done' \cap Named) \ MarketsOf(ToSet(list')) = done' \cap Named BY <1>1, OfTaken
<1>. QED BY <1>1, <1>2, <1>4, <1>5, <1>6 DEF PaperOf

\* A title that is let go of: its market was taken up.
LEMMA MapAskForecast ==
  ASSUME ControlInv, RowsInv, PlaceInv, AskForecast
  PROVE  Paper!TakeUp("scan")
<1>1. pc = "parse" /\ pc' = "forecast" /\ command.name = "scan" BY DEF AskForecast, Go
<1>2. /\ PlaceInv' /\ cur'.entry = cur.entry /\ cur'.signal = cur.signal
      /\ UNCHANGED <<command, list, done, signals, orders>>
  BY PlaceForecast
<1>3. PICK t : \E e \in t :
           /\ e[1] = cur.entry.market
           /\ PaperScan = At("next", t, NoMarket, "Yes", 0, (done \cap Named) \ {e[1]})
           /\ t \ {e} = Pairs(ToSet(list))
           /\ ((done \cap Named) \ {e[1]}) \cup {e[1]} = done \cap Named
  BY <1>1, TitleIs
<1>4. PICK e \in t :
           /\ e[1] = cur.entry.market
           /\ PaperScan = At("next", t, NoMarket, "Yes", 0, (done \cap Named) \ {e[1]})
           /\ t \ {e} = Pairs(ToSet(list))
           /\ ((done \cap Named) \ {e[1]}) \cup {e[1]} = done \cap Named
  BY <1>3
<1>6. command'.name = "scan" /\ cur'.entry.market = e[1] BY <1>1, <1>2, <1>4
<1>7. PaperScan' = At("quote", Pairs(ToSet(list')), e[1], "Yes", 0, done' \cap Named)
  BY <1>1, <1>2, <1>6, QuoteIsNext
<1>. DEFINE d == (done \cap Named) \ {e[1]}
<1>. HIDE DEF d
<1>8. PaperScan = At("next", t, NoMarket, "Yes", 0, d) BY <1>4 DEF d
<1>9. PaperScan' = At("quote", t \ {e}, e[1], "Yes", 0, d \cup {e[1]})
  BY <1>2, <1>4, <1>7 DEF d
<1>10. UNCHANGED <<signals, orders>> BY <1>2
<1>. QED BY <1>8, <1>9, <1>10, PaperTakes

\* The head of the loop after a step.
LEMMA NextIs ==
  ASSUME PlaceInv', pc' = "next", command'.name = "scan"
  PROVE  PaperScan' = At("next", Pairs(ToSet(list')), NoMarket, "Yes", 0, done' \cap Named)
<1>1. cur'.signal = 0 /\ \A i \in DOMAIN list' : list'[i].market \notin done'
  BY DEF PlaceInv, Loop, OnTitle
<1>. QED BY <1>1, PaperIs, OfList

\* The forecast is nothing to PaperTrading.
LEMMA MapForecast ==
  ASSUME ControlInv, RowsInv, PlaceInv, Forecast
  PROVE  UNCHANGED Paper!vars
<1>1. pc = "forecast" /\ pc' = "books" BY DEF Forecast, Go
<1>2. /\ PlaceInv' /\ cur'.entry = cur.entry /\ cur'.signal = cur.signal
      /\ UNCHANGED <<command, list, done, signals, orders>>
  BY PlaceForecast
<1>3. command.name = "scan" BY <1>1 DEF ControlInv
<1>. DEFINE m == cur.entry.market
<1>4. cur'.entry.market = m /\ command'.name = "scan" BY <1>2, <1>3
<1>7. PaperScan = At("quote", Pairs(ToSet(list)), m, "Yes", 0, done \cap Named)
  BY <1>1, <1>3, QuoteIs
<1>. HIDE DEF m
<1>5. PaperScan' = At("quote", Pairs(ToSet(list')), m, "Yes", 0, done' \cap Named)
  BY <1>1, <1>2, <1>4, QuoteIsNext
<1>6. PaperScan' = PaperScan BY <1>2, <1>5, <1>7
<1>. QED BY <1>2, <1>6, PaperStays

\* A request that fails, or books without an offer.
LEMMA MapNoSignal ==
  ASSUME ControlInv, PlaceInv, PlaceInv', NoForecast \/ NoBooks \/ NoSignal
  PROVE  Paper!NoSignal("scan")
<1>1. /\ pc \in {"forecast", "books"} /\ pc' = "next"
      /\ UNCHANGED <<command, list, done, signals, orders>>
  BY DEF NoForecast, NoBooks, NoSignal, SkipFor, Go
<1>2. command.name = "scan" /\ command'.name = "scan" BY <1>1 DEF ControlInv
<1>3. PaperScan' = At("next", Pairs(ToSet(list)), NoMarket, "Yes", 0, done \cap Named)
  BY <1>1, <1>2, NextIs
<1>4. PaperScan = At("quote", Pairs(ToSet(list)), cur.entry.market, "Yes", 0, done \cap Named)
  BY <1>1, <1>2, QuoteIs
<1>5. UNCHANGED <<signals, orders>> BY <1>1
<1>. QED BY <1>3, <1>4, <1>5, PaperNoSignal

\* Between the two transactions.
LEMMA OrderIs ==
  ASSUME PlaceInv, pc = "order", command.name = "scan",
         NEW m, NEW n, NEW side, cur.entry.market = m, cur.signal = n, signals[n].side = side
  PROVE  PaperScan = At("order", Pairs(ToSet(list)), m, side, n, done \cap Named)
<1>1. \A i \in DOMAIN list : list[i].market \notin done BY DEF PlaceInv, Loop
<1>2. PaperScan = PaperOf("scan", "order", list, cur, done, signals) BY PaperIs
<1>3. PcOf("scan", "order") = "order" BY DEF PcOf
<1>4. LeftOf("order", list, cur) = ToSet(list) BY DEF LeftOf
<1>5. (done \cap Named) \ MarketsOf(ToSet(list)) = done \cap Named BY <1>1, OfTaken
<1>. QED BY <1>2, <1>3, <1>4, <1>5 DEF PaperOf

\* The same after a step.
LEMMA OrderIsNext ==
  ASSUME PlaceInv', pc' = "order", command'.name = "scan",
         NEW m, NEW n, NEW side, cur'.entry.market = m, cur'.signal = n, signals'[n].side = side
  PROVE  PaperScan' = At("order", Pairs(ToSet(list')), m, side, n, done' \cap Named)
<1>1. \A i \in DOMAIN list' : list'[i].market \notin done' BY DEF PlaceInv, Loop
<1>2. PaperScan' = PaperOf("scan", "order", list', cur', done', signals') BY PaperIs
<1>3. PcOf("scan", "order") = "order" BY DEF PcOf
<1>4. LeftOf("order", list', cur') = ToSet(list') BY DEF LeftOf
<1>5. (done' \cap Named) \ MarketsOf(ToSet(list')) = done' \cap Named BY <1>1, OfTaken
<1>. QED BY <1>2, <1>3, <1>4, <1>5 DEF PaperOf

\* The row of a signal, of one of its sides.
LEMMA MapSaveSignal ==
  ASSUME ControlInv, RowsInv, PlaceInv, PlaceInv', SaveSignal
  PROVE  \E side \in Paper!Outcomes : Paper!SaveSignal("scan", side)
<1>. DEFINE m == cur.entry.market
            n == Len(signals) + 1
            t == Pairs(ToSet(list))
            d == done \cap Named
<1>1. PICK s \in Stored :
           /\ signals' = Append(signals, s) /\ s.market = m
           /\ signals'[n] = s
  BY SignalRow
<1>2. /\ pc = "books" /\ command.name = "scan" /\ UNCHANGED <<command, list, done, orders>>
      /\ \/ /\ pc' = "order" /\ cur' = [cur EXCEPT !.yes = Zero, !.signal = n]
         \/ pc' = "next" /\ cur' = Idle
  BY SaveSignalEffect DEF SaveSignal, StoreSignal, Go
<1>3. PaperScan = At("quote", t, m, "Yes", 0, d) BY <1>2, QuoteIs
<1>4. signals \in Seq(Stored) BY DEF RowsInv
<1>5. Len(signals) < Cardinality(Named) BY <1>2, SignalsFew
<1>6. CASE pc' = "next"
  <2>1. PaperScan' = At("next", t, NoMarket, "Yes", 0, d) BY <1>2, <1>6, NextIs
  <2>2. orders' = orders BY <1>2
  <2>. HIDE DEF m, n, t, d
  <2>. QED BY <1>1, <1>3, <1>4, <1>5, <2>1, <2>2, PaperSaves
<1>7. CASE pc' = "order"
  <2>1. Local(cur) BY DEF ControlInv
  <2>2. cur' = [cur EXCEPT !.yes = Zero, !.signal = n] BY <1>2, <1>7
  <2>3. cur'.signal = n /\ cur'.entry.market = m BY <2>1, <2>2 DEF Local
  <2>4. signals'[n].side = s.side /\ command'.name = "scan" /\ list' = list /\ done' = done
    BY <1>1, <1>2
  <2>. DEFINE side == s.side
  <2>5. signals'[n].side = side BY <2>4
  <2>. HIDE DEF m, n, t, d, side
  <2>6. PaperScan' = At("order", Pairs(ToSet(list')), m, side, n, done' \cap Named)
    BY <1>7, <2>3, <2>4, <2>5, OrderIsNext
  <2>7. PaperScan' = At("order", t, m, s.side, Len(signals) + 1, d)
    BY <2>4, <2>6 DEF t, d, side, n
  <2>8. orders' = orders BY <1>2
  <2>. QED BY <1>1, <1>3, <1>4, <1>5, <2>7, <2>8, PaperSaves
<1>. QED BY <1>2, <1>6, <1>7

\* The row of an order, of a market that has not closed.
LEMMA MapSaveOrder ==
  ASSUME ControlInv, RowsInv, PlaceInv, PlaceInv', SaveOrder
  PROVE  Paper!SaveOrder("scan")
<1>. DEFINE m == cur.entry.market
            n == cur.signal
            s == signals[n]
            side == s.side
            t == Pairs(ToSet(list))
            d == done \cap Named
            o == [signal |-> n, market |-> s.market, side |-> s.side, price |-> s.price,
                  stake |-> s.stake, quantity |-> Quantity(s.stake, s.price)]
<1>1. /\ pc = "order" /\ pc' = "next" /\ orders' = Append(orders, o)
      /\ UNCHANGED <<command, list, done, signals>>
  BY DEF SaveOrder, Go
<1>2. orders \in Seq(Placed) /\ orders' \in Seq(Placed)
  <2>1. RowsInv' BY SaveOrderEffect
  <2>. QED BY <2>1 DEF RowsInv
<1>3. command.name = "scan" /\ command'.name = "scan" BY <1>1 DEF ControlInv
<1>4. n \in DOMAIN signals /\ s.market = m /\ m \in Named
  BY <1>1 DEF RowsInv, PlaceInv
<1>5. o.signal = n /\ o.market = m /\ o.side = side BY <1>4
<1>6. PaperScan' = At("next", t, NoMarket, "Yes", 0, d) BY <1>1, <1>3, NextIs
<1>. HIDE DEF o
<1>7. o \in Placed
  <2>1. Len(orders) + 1 \in DOMAIN orders' /\ orders'[Len(orders) + 1] = o
    BY <1>1, <1>2
  <2>. QED BY <1>2, <2>1
<1>8. signals[n].side = side /\ cur.entry.market = m /\ cur.signal = n OBVIOUS
<1>. HIDE DEF m, n, side, t, d
<1>9. PaperScan = At("order", t, m, side, n, d)
  BY <1>1, <1>3, <1>8, OrderIs DEF t, d
<1>10. signals' = signals BY <1>1
<1>11. /\ o.signal = n /\ o.market = m /\ o.side = side /\ orders' = Append(orders, o)
  BY <1>1, <1>5
<1>. QED BY <1>2, <1>4, <1>6, <1>7, <1>9, <1>10, <1>11, PaperPlaces

\* A scan that is under way is not idle.
LEMMA ScanIsOn ==
  ASSUME ControlInv, command.name = "scan", pc \notin {"idle", "end", "aborted"}
  PROVE  PaperScan.pc # "idle"
<1>1. PcOf("scan", pc) # "idle" BY DEF PcOf
<1>2. PaperScan = PaperOf("scan", pc, list, cur, done, signals) BY PaperIs
<1>3. PaperScan = At(PcOf("scan", pc), Pairs(LeftOf(pc, list, cur)),
            IF PcOf("scan", pc) \in {"quote", "order"} THEN cur.entry.market ELSE NoMarket,
            IF pc = "order" THEN signals[cur.signal].side ELSE "Yes",
            cur.signal, (done \cap Named) \ MarketsOf(LeftOf(pc, list, cur)))
  BY <1>1, <1>2 DEF PaperOf
<1>4. PaperScan.pc = PcOf("scan", pc) BY <1>3 DEF At
<1>. QED BY <1>1, <1>4

\* The command ends, as it should or not.
LEMMA MapEnd ==
  ASSUME ControlInv, PlaceInv, EndCommand \/ Abort \/ RaiseOnDate
  PROVE  Paper!EndScan("scan") \/ UNCHANGED Paper!vars
<1>1. /\ pc \notin {"idle", "end", "aborted"} /\ pc' \in {"end", "aborted"}
      /\ UNCHANGED <<command, list, done, signals, orders>>
  BY DEF EndCommand, Abort, RaiseOnDate, Go
<1>2. command.name \in {"scan", "audit"} BY <1>1 DEF ControlInv
<1>3. CASE command.name = "audit" BY <1>1, <1>3, AuditStays
<1>4. CASE command.name = "scan"
  <2>1. PaperScan.pc # "idle" BY <1>1, <1>4, ScanIsOn
  <2>2. PaperScan' = Rest BY <1>1, PaperIs, OfRest
  <2>. QED BY <1>1, <2>1, <2>2, PaperEnds
<1>. QED BY <1>2, <1>3, <1>4

\* Every step of the command is a step of one scan, or none.
LEMMA MapNext ==
  ASSUME ControlInv, RowsInv, PlaceInv, PlaceInv', [Next]_vars
  PROVE  [Paper!Next]_(Paper!vars)
<1>1. CASE StartScan \/ StartAudit BY <1>1, MapStart DEF Paper!Next
<1>2. CASE FetchKeyword BY <1>2, MapKeyword DEF Paper!Next
<1>3. CASE FetchTagged BY <1>3, MapTagged DEF Paper!Next
<1>4. CASE TakeUp BY <1>4, MapTakeUp
<1>5. CASE RaiseOnDate \/ EndCommand \/ Abort BY <1>5, MapEnd DEF Paper!Next
<1>6. CASE AuditTitle
  <2>1. command.name = "audit" /\ UNCHANGED <<command, signals, orders>>
    BY <1>6 DEF AuditTitle
  <2>. QED BY <2>1, AuditStays
<1>7. CASE SkipTitle BY <1>7, MapSkipTitle DEF Paper!Next
<1>8. CASE AskForecast BY <1>8, MapAskForecast DEF Paper!Next
<1>9. CASE Forecast BY <1>9, MapForecast
<1>10. CASE NoForecast \/ NoBooks \/ NoSignal BY <1>10, MapNoSignal DEF Paper!Next
<1>11. CASE SaveSignal BY <1>11, MapSaveSignal DEF Paper!Next
<1>12. CASE SaveOrder BY <1>12, MapSaveOrder DEF Paper!Next
<1>13. CASE UNCHANGED vars
  <2>1. UNCHANGED <<command, pc, list, cur, done, signals, orders>> BY <1>13 DEF vars
  <2>2. PaperScan' = PaperScan BY <2>1, PaperIs
  <2>. QED BY <2>1, <2>2, PaperStays
<1>. QED BY <1>1, <1>2, <1>3, <1>4, <1>5, <1>6, <1>7, <1>8, <1>9, <1>10, <1>11, <1>12, <1>13
         DEF Next

\* Nothing has begun.
LEMMA MapInit == Init => Paper!Init
<1>. SUFFICES ASSUME Init PROVE Paper!Init OBVIOUS
<1>1. PaperScan = Rest
  <2>1. pc = "idle" BY DEF Init
  <2>. QED BY <2>1, PaperIs, OfRest
<1>2. Rest = Paper!IdleScan BY DEF Rest, At, Paper!IdleScan
<1>3. SignalsOf(signals) = <<>> /\ OrdersOf(orders) = <<>>
  BY DEF Init, SignalsOf, OrdersOf
<1>4. [j \in {"scan"} |-> PaperScan] = [j \in {"scan"} |-> Paper!IdleScan] BY <1>1, <1>2
<1>5. [j \in {} |-> 0] = [j \in {} |-> Paper!IdleSync] OBVIOUS
<1>. HIDE DEF PaperScan
<1>. QED BY <1>3, <1>4, <1>5 DEF Paper!Init, SignalsOf, OrdersOf, SignalOf, OrderOf

\* The scan in full is a scan of PaperTrading, for any markets, titles and
\* limits: what is proved there of overlapping scans and syncs is about it.
THEOREM ScanImplementsPaper == Spec => ImplementsPaperTrading
<1>1. Init => PlaceInv BY PlaceInit
<1>2. ControlInv /\ RowsInv /\ PlaceInv /\ [Next]_vars => PlaceInv' BY PlaceNext
<1>3. ControlInv /\ RowsInv /\ PlaceInv /\ PlaceInv' /\ [Next]_vars => [Paper!Next]_(Paper!vars)
  BY MapNext
<1>4. Spec => [](ControlInv /\ RowsInv) BY BaseInvariant
<1>. QED BY <1>1, <1>2, <1>3, <1>4, MapInit, PTL DEF Spec, ImplementsPaperTrading, Paper!Spec

Promise == INSTANCE PaperTradingProofs WITH
    Scans <- {"scan"}, Syncs <- {}, Markets <- Named,
    SyncLimit <- 0, MaxSignals <- Cardinality(Named), MaxReversals <- 0, MaxFailures <- 0,
    world <- [m \in Named |-> [closed |-> FALSE, decisive |-> {}]],
    scan <- [j \in {"scan"} |-> PaperScan], sync <- [j \in {} |-> 0],
    signals <- [i \in DOMAIN signals |->
                  [market |-> signals[i].market, side |-> signals[i].side]],
    orders <- [i \in DOMAIN orders |->
                  [signal |-> orders[i].signal, market |-> orders[i].market,
                   side |-> orders[i].side, status |-> "open", late |-> FALSE]],
    settlements <- [m \in {} |-> "Yes"], decided <- {}, reversals <- 0, failures <- 0

\* What PaperTradingProofs assumes of its constants holds of the ones they have here.
LEMMA PromiseAssumptions ==
  /\ Promise!IsFiniteSet(Named) /\ NoMarket \notin Named
  /\ ScanSources \subseteq {"keyword", "both", "weather-tag"}
  /\ ScanLimit \in Nat /\ 0 \in Nat /\ Cardinality(Named) \in Nat
<1>1. IsFiniteSet(Named) BY InputsAssumption, FS_Subset
<1>2. Promise!IsFiniteSet(Named) BY <1>1 DEF IsFiniteSet, Promise!IsFiniteSet
<1>. QED BY <1>1, <1>2, InputsAssumption, FS_CardinalityType

\* PaperTradingProofs is about the steps of PaperTrading; no sync is one of them here.
LEMMA PromiseNext == [Paper!Next]_(Paper!vars) => [Promise!Next]_(Promise!vars)
<1>. USE DEF Paper!env, Promise!env, Paper!db, Promise!db
<1>1. UNCHANGED Paper!vars => UNCHANGED Promise!vars BY SMTT(30) DEF Paper!vars, Promise!vars
<1>2. ASSUME NEW m, Paper!Closes(m) \/ Paper!Decides(m) \/ Paper!Reverses(m)
      PROVE  Promise!Closes(m) \/ Promise!Decides(m) \/ Promise!Reverses(m)
  BY <1>2 DEF Paper!Closes, Paper!Decides, Paper!Reverses, Paper!Prices, Paper!Outcomes,
              Promise!Closes, Promise!Decides, Promise!Reverses, Promise!Prices,
              Promise!Outcomes
<1>. USE DEF Paper!ScanStep, Promise!ScanStep, Paper!IdleScan, Promise!IdleScan,
             Paper!Leave, Promise!Leave
<1>3. ASSUME NEW j, Paper!StartScan(j) PROVE Promise!StartScan(j)
  BY <1>3 DEF Paper!StartScan, Promise!StartScan
<1>4. ASSUME NEW j, Paper!FetchKeyword(j) PROVE Promise!FetchKeyword(j)
  BY Zenon, <1>4 DEF Paper!FetchKeyword, Promise!FetchKeyword, Paper!Open, Promise!Open,
              Paper!Cardinality, Promise!Cardinality
<1>5. ASSUME NEW j, Paper!FetchTagged(j) PROVE Promise!FetchTagged(j)
  BY Zenon, <1>5 DEF Paper!FetchTagged, Promise!FetchTagged, Paper!Deduped, Promise!Deduped
<1>6. ASSUME NEW j, Paper!TakeUp(j) PROVE Promise!TakeUp(j)
  BY Zenon, <1>6 DEF Paper!TakeUp, Promise!TakeUp
<1>7. ASSUME NEW j, Paper!NoSignal(j) PROVE Promise!NoSignal(j)
  BY <1>7 DEF Paper!NoSignal, Promise!NoSignal
<1>8. ASSUME NEW j, NEW side, Paper!SaveSignal(j, side) PROVE Promise!SaveSignal(j, side)
  BY <1>8 DEF Paper!SaveSignal, Promise!SaveSignal, Paper!StoreSignal, Promise!StoreSignal
<1>9. ASSUME NEW j, Paper!SaveOrder(j) PROVE Promise!SaveOrder(j)
  BY <1>9 DEF Paper!SaveOrder, Promise!SaveOrder, Paper!PlaceOrder, Promise!PlaceOrder
<1>10. ASSUME NEW j, Paper!EndScan(j) PROVE Promise!EndScan(j)
  BY <1>10 DEF Paper!EndScan, Promise!EndScan
<1>11. Paper!Outcomes = Promise!Outcomes BY DEF Paper!Outcomes, Promise!Outcomes
<1>12. ASSUME Paper!Next PROVE Promise!Next
  BY <1>2, <1>3, <1>4, <1>5, <1>6, <1>7, <1>8, <1>9, <1>10, <1>11, <1>12
  DEF Paper!Next, Promise!Next
<1>. QED BY <1>1, <1>12

\* What is proved of overlapping scans and syncs therefore holds of the scan in
\* full: each of its orders has a signal of its own, of the same market and side
\* (save_weather_signal and save_weather_paper_order), and none of the markets it
\* has yet to take up was taken up before (_dedupe_markets).
THEOREM ScanKeepsPromises == Spec => [](Paper!OrdersMatchSignals /\ Paper!ScanNeverRepeats)
<1>1. Promise!Spec => []Promise!OrdersMatchSignals BY PromiseAssumptions, Promise!OrdersMatch
<1>2. Promise!Spec => []Promise!ScanNeverRepeats BY PromiseAssumptions, Promise!NeverRepeats
<1>3. Paper!Init => Promise!Init
  BY DEF Paper!Init, Promise!Init, Paper!IdleScan, Promise!IdleScan, Paper!IdleSync,
         Promise!IdleSync
<1>4. Promise!OrdersMatchSignals => Paper!OrdersMatchSignals
  BY DEF Paper!OrdersMatchSignals, Promise!OrdersMatchSignals
<1>5. Promise!ScanNeverRepeats => Paper!ScanNeverRepeats
  BY DEF Paper!ScanNeverRepeats, Promise!ScanNeverRepeats
<1>. QED
  BY <1>1, <1>2, <1>3, <1>4, <1>5, PromiseNext, ScanImplementsPaper, PTL
  DEF ImplementsPaperTrading, Paper!Spec, Promise!Spec
=============================================================================
