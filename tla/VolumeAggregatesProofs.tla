------------------------ MODULE VolumeAggregatesProofs ------------------------
(***************************************************************************)
(* Theorems about VolumeAggregates for any number of markets and of        *)
(* overlapping rebuilds, any bucket sizes and windows, and any bounds.     *)
(***************************************************************************)
EXTENDS VolumeAggregates, FiniteSetTheorems, SequenceTheorems, WellFoundedInduction, SumTheorems, TLAPS

(* The arithmetic of buckets. *)

\* The bucket of an hour or a day begins at or before the time it is of, ends
\* after it, and later times are of later buckets.
LEMMA BucketBounds ==
  ASSUME NEW size \in SizeNames, NEW t \in Times
  PROVE  /\ Bucket(size, t) \in Times
         /\ Bucket(size, t) * Length[size] <= t
         /\ \A s \in Times : s <= t => Bucket(size, s) <= Bucket(size, t)
<1>. DEFINE n == Length[size]
<1>1. n \in Nat \ {0} BY SizesAssumption DEF SizeNames
<1>. HIDE DEF n
<1>2. \A s \in Nat : s \div n \in Nat /\ n * (s \div n) <= s BY <1>1
<1>3. \A s, u \in Nat : s <= u => s \div n <= u \div n BY <1>1
<1>4. \A q \in Nat : q <= n * q BY <1>1
<1>5. t \in Nat /\ t <= MaxTime /\ MaxTime \in Nat BY BoundsAssumption DEF Times
<1>6. t \div n \in Times
  <2>1. t \div n \in Nat /\ n * (t \div n) <= t BY <1>2, <1>5
  <2>2. t \div n <= n * (t \div n) BY <1>4, <2>1
  <2>3. n * (t \div n) \in Nat BY <1>1, <2>1
  <2>. QED BY <1>5, <2>1, <2>2, <2>3 DEF Times
<1>7. (t \div n) * n <= t
  <2>1. \A q \in Nat : q * n = n * q BY <1>1
  <2>. QED BY <1>2, <1>5, <2>1
<1>8. \A s \in Times : s \in Nat BY DEF Times
<1>9. \A s \in Times : s <= t => s \div n <= t \div n BY <1>3, <1>5, <1>8
<1>. QED BY <1>6, <1>7, <1>9 DEF Bucket, n

\* A bucket that begins at or after a cutoff holds no earlier row.
LEMMA BucketsAfter ==
  ASSUME NEW size \in SizeNames, NEW cutoff \in Int, NEW t \in Times,
         Bucket(size, t) * Length[size] >= cutoff
  PROVE  t >= cutoff
<1>1. Bucket(size, t) \in Nat /\ t \in Nat BY BucketBounds DEF Times
<1>2. Length[size] \in Nat BY SizesAssumption DEF SizeNames
<1>. DEFINE start == Bucket(size, t) * Length[size]
<1>3. start \in Nat /\ start <= t /\ start >= cutoff BY <1>1, <1>2, BucketBounds
<1>. HIDE DEF start
<1>. QED BY <1>1, <1>3

\* _cutoff_iso names a time that the clock has passed.
LEMMA CutoffType ==
  ASSUME TypeOK, NEW size
  PROVE  Cutoff(size) \in Cutoffs
  BY BoundsAssumption DEF Cutoff, Cutoffs, TypeOK, Times
-----------------------------------------------------------------------------
(* The rollup of a bucket. *)

\* The times of the snapshots and the ids of the trades of a bucket.
SnapTimes(key, ss) ==
    {k[2] : k \in {s \in ss : s[1] = key[2] /\ Bucket(key[1], s[2]) = key[3]}}
TradeIds(key, ts) ==
    {i \in ts : trades[i].market = key[2] /\ Bucket(key[1], trades[i].ts) = key[3]}

\* Both are finite, whatever is stored.
LEMMA RowsFinite ==
  ASSUME TypeOK, NEW key, NEW ss \in SUBSET (Markets \X Times), NEW ts \in SUBSET (DOMAIN trades)
  PROVE  /\ SnapTimes(key, ss) \subseteq Times
         /\ IsFiniteSet(SnapTimes(key, ss)) /\ Cardinality(SnapTimes(key, ss)) \in Nat
         /\ IsFiniteSet(TradeIds(key, ts)) /\ Cardinality(TradeIds(key, ts)) \in Nat
<1>1. SnapTimes(key, ss) \subseteq Times
  <2>1. \A k \in ss : k[2] \in Times OBVIOUS
  <2>. QED BY <2>1 DEF SnapTimes
<1>2. IsFiniteSet(Times) BY BoundsAssumption, FS_Interval DEF Times
<1>3. IsFiniteSet(SnapTimes(key, ss)) BY <1>1, <1>2, FS_Subset
<1>4. IsFiniteSet(DOMAIN trades)
  <2>1. DOMAIN trades = 1 .. Len(trades) /\ Len(trades) \in Nat BY DEF TypeOK
  <2>. QED BY <2>1, FS_Interval
<1>5. IsFiniteSet(TradeIds(key, ts))
  <2>1. TradeIds(key, ts) \subseteq DOMAIN trades BY DEF TradeIds
  <2>. QED BY <1>4, <2>1, FS_Subset
<1>. QED BY <1>1, <1>3, <1>5, FS_CardinalityType

\* The counts of a rollup.
LEMMA ContentsCounts ==
  ASSUME NEW key, NEW ss, NEW ts
  PROVE  /\ Contents(key, ss, ts).snapshots = Cardinality(SnapTimes(key, ss))
         /\ Contents(key, ss, ts).trades = Cardinality(TradeIds(key, ts))
  BY DEF Contents, SnapTimes, TradeIds

\* A rollup over more rows counts no less.
LEMMA CountsGrow ==
  ASSUME TypeOK, NEW key,
         NEW more \in SUBSET (Markets \X Times), NEW ss \in SUBSET more,
         NEW others \in SUBSET (DOMAIN trades), NEW ts \in SUBSET others
  PROVE  /\ Contents(key, ss, ts).snapshots <= Contents(key, more, others).snapshots
         /\ Contents(key, ss, ts).trades <= Contents(key, more, others).trades
<1>1. SnapTimes(key, ss) \subseteq SnapTimes(key, more) BY DEF SnapTimes
<1>2. TradeIds(key, ts) \subseteq TradeIds(key, others) BY DEF TradeIds
<1>3. IsFiniteSet(SnapTimes(key, more)) /\ IsFiniteSet(TradeIds(key, others)) BY RowsFinite
<1>4. Cardinality(SnapTimes(key, ss)) <= Cardinality(SnapTimes(key, more))
  BY <1>1, <1>3, FS_Subset
<1>5. Cardinality(TradeIds(key, ts)) <= Cardinality(TradeIds(key, others))
  BY <1>2, <1>3, FS_Subset
<1>. QED BY <1>4, <1>5, ContentsCounts

\* Min and Max of FiniteSetsExt name members of a set of times.
LEMMA MinMaxIn ==
  ASSUME NEW S \in SUBSET Times, S # {}
  PROVE  Min(S) \in S /\ Max(S) \in S
<1>1. S \subseteq Nat /\ MaxTime \in Nat BY BoundsAssumption DEF Times
<1>2. PICK d \in S : \A e \in S : ~(<<e, d>> \in OpToRel(<, Nat))
  BY Zenon, <1>1, NatLessThanWellFounded, WFMin
<1>3. \A e \in S : d <= e
  <2>1. \A e \in S : ~(e < d) BY <1>1, <1>2 DEF OpToRel
  <2>. QED BY <1>1, <2>1
<1>4. Min(S) \in S BY <1>3 DEF Min
<1>. DEFINE T == {MaxTime - x : x \in S}
<1>5. T \subseteq Nat /\ T # {}
  <2>1. \A x \in S : MaxTime - x \in Nat BY <1>1 DEF Times
  <2>. QED BY <2>1
<1>6. PICK f \in T : \A e \in T : ~(<<e, f>> \in OpToRel(<, Nat))
  BY Zenon, <1>5, NatLessThanWellFounded, WFMin
<1>7. \A e \in T : ~(e < f) BY <1>5, <1>6 DEF OpToRel
<1>8. PICK x \in S : f = MaxTime - x OBVIOUS
<1>9. \A y \in S : x >= y
  <2>1. TAKE y \in S
  <2>2. ~(MaxTime - y < MaxTime - x) BY <1>7, <1>8
  <2>. QED BY <1>1, <2>2
<1>10. Max(S) \in S BY <1>9 DEF Max
<1>. QED BY <1>4, <1>10

\* A rollup has its type, and one made for the key of a row counts that row.
LEMMA ContentsType ==
  ASSUME TypeOK, NEW key, NEW ss \in SUBSET (DOMAIN snaps), NEW ts \in SUBSET (DOMAIN trades)
  PROVE  Contents(key, ss, ts) \in Rollup
<1>. DEFINE times == SnapTimes(key, ss)
            value(t) == IF times = {} THEN NoValue ELSE snaps[key[2], t]
<1>1. ss \in SUBSET (Markets \X Times) BY DEF TypeOK
<1>2. times \subseteq Times BY <1>1, RowsFinite
<1>3. \A t \in times : snaps[key[2], t] \in Volumes
  <2>1. \A k \in ss : k = <<k[1], k[2]>> BY <1>1
  <2>2. \A t \in times : <<key[2], t>> \in DOMAIN snaps BY <2>1 DEF SnapTimes
  <2>. QED BY Zenon, <2>2 DEF TypeOK
<1>4. /\ value(IF times = {} THEN 0 ELSE Min(times)) \in Volumes \cup {NoValue}
      /\ value(IF times = {} THEN 0 ELSE Max(times)) \in Volumes \cup {NoValue}
  BY Zenon, <1>2, <1>3, MinMaxIn
<1>5. Cardinality(times) \in Nat /\ Cardinality(TradeIds(key, ts)) \in Nat BY <1>1, RowsFinite
<1>6. Contents(key, ss, ts) =
        [snapshots |-> Cardinality(times),
         open      |-> value(IF times = {} THEN 0 ELSE Min(times)),
         close     |-> value(IF times = {} THEN 0 ELSE Max(times)),
         trades    |-> Cardinality(TradeIds(key, ts))]
  BY DEF Contents, SnapTimes, TradeIds
<1>. HIDE DEF times, value
<1>. QED BY <1>4, <1>5, <1>6 DEF Rollup

\* A bucket without rows holds nothing.
LEMMA EmptyContents ==
  ASSUME NEW size, NEW m, NEW b, NEW ss \in SUBSET (Markets \X Times), NEW ts,
         <<size, m, b>> \notin Keys(size, ss, ts)
  PROVE  Contents(<<size, m, b>>, ss, ts) = NoRow
<1>. DEFINE key == <<size, m, b>>
<1>1. \A s \in ss : ~(s[1] = m /\ Bucket(size, s[2]) = b) BY DEF Keys
<1>2. \A i \in ts : ~(trades[i].market = m /\ Bucket(size, trades[i].ts) = b) BY DEF Keys
<1>3. key[1] = size /\ key[2] = m /\ key[3] = b OBVIOUS
<1>. HIDE DEF key
<1>4. SnapTimes(key, ss) = {} BY <1>1, <1>3 DEF SnapTimes
<1>5. TradeIds(key, ts) = {} BY <1>2, <1>3 DEF TradeIds
<1>. DEFINE times == SnapTimes(key, ss)
            value(t) == IF times = {} THEN NoValue ELSE snaps[key[2], t]
<1>6. Contents(key, ss, ts) =
        [snapshots |-> Cardinality(times),
         open      |-> value(IF times = {} THEN 0 ELSE Min(times)),
         close     |-> value(IF times = {} THEN 0 ELSE Max(times)),
         trades    |-> Cardinality(TradeIds(key, ts))]
  BY DEF Contents, SnapTimes, TradeIds
<1>7. \A t : value(t) = NoValue BY <1>4
<1>8. Cardinality(times) = 0 /\ Cardinality(TradeIds(key, ts)) = 0 BY <1>4, <1>5, FS_EmptySet
<1>. HIDE DEF times, value
<1>9. Contents(key, ss, ts) = NoRow BY <1>6, <1>7, <1>8 DEF NoRow
<1>. QED BY <1>9 DEF key

\* The keys a rebuild makes are keys of rows.
LEMMA KeysFrom ==
  ASSUME TypeOK, NEW size \in SizeNames, NEW cutoff \in Cutoffs,
         NEW ss \in SUBSET SnapsFrom(cutoff), NEW ts \in SUBSET TradesFrom(cutoff),
         NEW key \in Keys(size, ss, ts)
  PROVE  /\ key \in SizeNames \X Markets \X Times /\ key[1] = size
         /\ Deleted(size, cutoff, key)
         /\ SnapTimes(key, ss) # {} \/ TradeIds(key, ts) # {}
<1>0. ASSUME NEW t \in Times, t >= cutoff, key[1] = size, key[3] = Bucket(size, t)
      PROVE  Deleted(size, cutoff, key)
  <2>1. CASE cutoff = NoCutoff BY <1>0, <2>1 DEF Deleted
  <2>2. CASE cutoff # NoCutoff
    <3>1. cutoff \in Times BY <2>2 DEF Cutoffs
    <3>2. Bucket(size, cutoff) <= Bucket(size, t) BY <1>0, <3>1, BucketBounds DEF Times
    <3>3. Bucket(size, cutoff) \in Nat /\ Bucket(size, t) \in Nat
      BY <3>1, BucketBounds DEF Times
    <3>. QED BY <1>0, <3>2, <3>3 DEF Deleted
  <2>. QED BY <2>1, <2>2
<1>1. ASSUME NEW s \in ss, key = <<size, s[1], Bucket(size, s[2])>>
      PROVE  /\ key \in SizeNames \X Markets \X Times /\ key[1] = size
             /\ Deleted(size, cutoff, key)
             /\ SnapTimes(key, ss) # {}
  <2>1. s \in Markets \X Times /\ s[2] \in Times /\ s[2] >= cutoff BY DEF SnapsFrom, TypeOK
  <2>2. Bucket(size, s[2]) \in Times BY <2>1, BucketBounds
  <2>3. s[2] \in SnapTimes(key, ss) BY <1>1 DEF SnapTimes
  <2>4. Deleted(size, cutoff, key) BY <1>0, <1>1, <2>1
  <2>. QED BY <1>1, <2>1, <2>2, <2>3, <2>4
<1>2. ASSUME NEW i \in ts, key = <<size, trades[i].market, Bucket(size, trades[i].ts)>>
      PROVE  /\ key \in SizeNames \X Markets \X Times /\ key[1] = size
             /\ Deleted(size, cutoff, key)
             /\ TradeIds(key, ts) # {}
  <2>1. i \in DOMAIN trades BY DEF TradesFrom
  <2>2. trades[i] \in Trade BY <2>1 DEF TypeOK
  <2>3. trades[i].market \in Markets /\ trades[i].ts \in Times BY <2>2 DEF Trade
  <2>4. trades[i].ts >= cutoff BY <2>3 DEF TradesFrom, Cutoffs, NoCutoff, Times
  <2>5. Bucket(size, trades[i].ts) \in Times BY <2>3, BucketBounds
  <2>6. i \in TradeIds(key, ts) BY <1>2 DEF TradeIds
  <2>7. Deleted(size, cutoff, key) BY <1>0, <1>2, <2>3, <2>4
  <2>. QED BY <1>2, <2>3, <2>5, <2>6, <2>7
<1>. QED BY <1>1, <1>2 DEF Keys
-----------------------------------------------------------------------------
(* The invariant. *)

\* What an activation has read is still there, from its cutoff on, and is all
\* there is as long as no row came after it read.
ReadInv(me) ==
    /\ me.pc # "idle" => me.turn \in DOMAIN Sizes
    /\ me.pc \in {"trades", "write"} =>
         /\ me.snaps \subseteq SnapsFrom(me.cutoff)
         /\ ~me.missed => me.snaps = SnapsFrom(me.cutoff)
    /\ me.pc = "write" =>
         /\ me.trades \subseteq TradesFrom(me.cutoff)
         /\ ~me.missed => me.trades = TradesFrom(me.cutoff)

AllReadInv == \A r \in Refreshers : ReadInv(refresher[r])

Inv == TypeOK /\ AllReadInv /\ NeverOvercounts /\ WindowExact

\* The activation that takes its next size has read nothing.
LEMMA TurnType ==
  ASSUME TypeOK, NEW turn \in Nat
  PROVE  Turn(turn) \in Refresher /\ ReadInv(Turn(turn))
<1>2. Idle \in Refresher /\ Idle.pc = "idle" BY DEF Idle, Refresher, Cutoffs
<1>3. CASE turn \in DOMAIN Sizes
  <2>. DEFINE c == Cutoff(Sizes[turn])
              next == [Idle EXCEPT !.pc = "snapshots", !.turn = turn, !.cutoff = c]
  <2>1. c \in Cutoffs BY CutoffType
  <2>. HIDE DEF c
  <2>2. next \in Refresher /\ next.pc = "snapshots" /\ next.turn = turn
    BY <1>2, <2>1 DEF Refresher
  <2>3. Turn(turn) = next BY <1>3 DEF Turn, c
  <2>. HIDE DEF next
  <2>. QED BY <1>3, <2>2, <2>3 DEF ReadInv
<1>4. CASE turn \notin DOMAIN Sizes
  BY <1>2, <1>4 DEF Turn, ReadInv
<1>. QED BY <1>3, <1>4

\* One step of one activation: the others keep their locals.
LEMMA GotoEffect ==
  ASSUME TypeOK, AllReadInv, NEW r \in Refreshers, NEW pc, NEW next \in Refresher,
         ReadInv(next), Goto(r, pc, next)
  PROVE  /\ refresher' \in [Refreshers -> Refresher] /\ AllReadInv'
         /\ UNCHANGED <<now, snaps, trades>>
<1>1. /\ refresher' \in [Refreshers -> Refresher] /\ refresher'[r] = next
      /\ \A q \in Refreshers \ {r} : refresher'[q] = refresher[q]
      /\ UNCHANGED <<now, snaps, trades>>
  BY DEF Goto, TypeOK
<1>2. \A me : ReadInv(me)' <=> ReadInv(me)
  BY <1>1 DEF ReadInv, SnapsFrom, TradesFrom
<1>3. \A q \in Refreshers : ReadInv(refresher'[q])
  BY <1>1 DEF AllReadInv
<1>. QED BY <1>1, <1>2, <1>3 DEF AllReadInv, ReadInv, SnapsFrom, TradesFrom
-----------------------------------------------------------------------------
(* The steps. *)

\* The clock and the locals are nothing to the tables.
LEMMA TablesKept ==
  ASSUME Inv, UNCHANGED <<snaps, trades, aggs, exact>>
  PROVE  /\ DOMAIN snaps' \subseteq Markets \X Times
         /\ \A k \in DOMAIN snaps' : snaps'[k] \in Volumes
         /\ trades' \in Seq(Trade)
         /\ DOMAIN aggs' \subseteq SizeNames \X Markets \X Times
         /\ \A k \in DOMAIN aggs' : aggs'[k] \in Rollup /\ aggs'[k].snapshots + aggs'[k].trades > 0
         /\ exact' \in [SizeNames -> Cutoffs \cup {NotExact}]
         /\ NeverOvercounts' /\ WindowExact'
<1>1. \A key, ss, ts : Contents(key, ss, ts)' = Contents(key, ss, ts)
  BY DEF Contents
<1>2. \A key : Complete(key)' = Complete(key) BY <1>1 DEF Complete
<1>3. \A k, c : CutoffTrades(k, c)' = CutoffTrades(k, c) /\ Row(k)' = Row(k)
  BY DEF CutoffTrades, Row
<1>4. NeverOvercounts' BY <1>2 DEF Inv, NeverOvercounts
<1>5. WindowExact' BY <1>2, <1>3 DEF Inv, WindowExact
<1>. QED BY <1>4, <1>5 DEF Inv, TypeOK

LEMMA TickKeeps ==
  ASSUME Inv, Tick
  PROVE  Inv'
<1>1. now' \in Times BY BoundsAssumption DEF Tick, Inv, TypeOK, Times
<1>2. AllReadInv' BY DEF Tick, Inv, AllReadInv, ReadInv, SnapsFrom, TradesFrom
<1>3. UNCHANGED <<snaps, trades, aggs, exact>> /\ UNCHANGED refresher BY DEF Tick
<1>4. refresher' \in [Refreshers -> Refresher] BY <1>3 DEF Inv, TypeOK
<1>. QED BY <1>1, <1>2, <1>3, <1>4, TablesKept DEF Inv, TypeOK

\* A step of an activation that does not write.
LEMMA ReadKeeps ==
  ASSUME Inv, NEW r \in Refreshers,
         Begin(r) \/ ReadSnapshots(r) \/ ReadTrades(r) \/ Fails(r)
  PROVE  Inv'
<1>. DEFINE me == refresher[r]
<1>0. TypeOK /\ AllReadInv BY DEF Inv
<1>1. me \in Refresher /\ ReadInv(me) BY <1>0 DEF TypeOK, AllReadInv
<1>2. \E pc, next : next \in Refresher /\ ReadInv(next) /\ Goto(r, pc, next)
  <2>1. CASE Begin(r)
    <3>1. Turn(1) \in Refresher /\ ReadInv(Turn(1)) BY <1>0, TurnType
    <3>. QED BY <2>1, <3>1 DEF Begin
  <2>2. CASE ReadSnapshots(r)
    <3>. DEFINE next == [me EXCEPT !.pc = "trades", !.snaps = SnapsFrom(me.cutoff)]
    <3>1. SnapsFrom(me.cutoff) \subseteq Markets \X Times BY <1>0 DEF SnapsFrom, TypeOK
    <3>2. /\ next \in Refresher /\ next.pc = "trades" /\ next.turn = me.turn
          /\ next.snaps = SnapsFrom(me.cutoff) /\ next.cutoff = me.cutoff
      BY <1>1, <3>1 DEF Refresher
    <3>3. Goto(r, "snapshots", next) BY <2>2 DEF ReadSnapshots
    <3>4. me.pc = "snapshots" BY <3>3 DEF Goto
    <3>. HIDE DEF next
    <3>5. ReadInv(next) BY <1>1, <3>2, <3>4 DEF ReadInv
    <3>. QED BY <3>2, <3>3, <3>5
  <2>3. CASE ReadTrades(r)
    <3>. DEFINE next == [me EXCEPT !.pc = "write", !.trades = TradesFrom(me.cutoff)]
    <3>1. TradesFrom(me.cutoff) \subseteq Nat BY <1>0 DEF TradesFrom, TypeOK
    <3>2. /\ next \in Refresher /\ next.pc = "write" /\ next.turn = me.turn
          /\ next.snaps = me.snaps /\ next.cutoff = me.cutoff /\ next.missed = me.missed
          /\ next.trades = TradesFrom(me.cutoff)
      BY <1>1, <3>1 DEF Refresher
    <3>3. Goto(r, "trades", next) BY <2>3 DEF ReadTrades
    <3>4. me.pc = "trades" BY <3>3 DEF Goto
    <3>. HIDE DEF next
    <3>5. ReadInv(next) BY <1>1, <3>2, <3>4 DEF ReadInv
    <3>. QED BY <3>2, <3>3, <3>5
  <2>4. CASE Fails(r)
    <3>2. Idle \in Refresher /\ Idle.pc = "idle" BY DEF Idle, Refresher, Cutoffs
    <3>3. ReadInv(Idle) BY <3>2 DEF ReadInv
    <3>. QED BY <2>4, <3>2, <3>3 DEF Fails
  <2>. QED BY <2>1, <2>2, <2>3, <2>4
<1>3. /\ refresher' \in [Refreshers -> Refresher] /\ AllReadInv'
      /\ UNCHANGED <<now, snaps, trades>>
  BY <1>0, <1>2, GotoEffect
<1>4. UNCHANGED <<aggs, exact>> BY DEF Begin, ReadSnapshots, ReadTrades, Fails
<1>5. now' \in Times BY <1>0, <1>3 DEF TypeOK
<1>. QED BY <1>3, <1>4, <1>5, TablesKept DEF Inv, TypeOK

\* A row that is stored is read by nobody who has read already, so each of them
\* misses it; the buckets written before it count no more than before.
LEMMA RowKeeps ==
  ASSUME Inv, NEW m \in Markets, SaveSnapshot(m) \/ SaveTrade(m)
  PROVE  Inv'
<1>0. TypeOK BY DEF Inv
<1>1. /\ DOMAIN snaps \subseteq DOMAIN snaps' /\ DOMAIN snaps' \subseteq Markets \X Times
      /\ \A k \in DOMAIN snaps' : snaps'[k] \in Volumes
      /\ trades' \in Seq(Trade) /\ DOMAIN trades \subseteq DOMAIN trades'
      /\ \A i \in DOMAIN trades : trades'[i] = trades[i]
  <2>1. CASE SaveSnapshot(m)
    <3>1. PICK t \in Stamps, volume \in Volumes :
            snaps' = [k \in DOMAIN snaps \cup {<<m, t>>} |->
                        IF k = <<m, t>> THEN volume ELSE snaps[k]]
      BY <2>1 DEF SaveSnapshot
    <3>2. t \in Times BY DEF Stamps
    <3>3. /\ DOMAIN snaps' = DOMAIN snaps \cup {<<m, t>>}
          /\ \A k \in DOMAIN snaps' : snaps'[k] = IF k = <<m, t>> THEN volume ELSE snaps[k]
      BY <3>1
    <3>. QED BY <1>0, <2>1, <3>2, <3>3 DEF SaveSnapshot, TypeOK
  <2>2. CASE SaveTrade(m)
    <3>1. PICK t \in Stamps, millis \in BOOLEAN :
            trades' = Append(trades, [market |-> m, ts |-> t, millis |-> millis])
      BY <2>2 DEF SaveTrade
    <3>. DEFINE row == [market |-> m, ts |-> t, millis |-> millis]
    <3>2. row \in Trade BY DEF Stamps, Trade
    <3>3. row \in Trade /\ trades' = Append(trades, row) BY <3>1, <3>2
    <3>. HIDE DEF row
    <3>4. trades \in Seq(Trade) BY <1>0 DEF TypeOK
    <3>5. /\ trades' \in Seq(Trade) /\ DOMAIN trades \subseteq DOMAIN trades'
          /\ \A i \in DOMAIN trades : trades'[i] = trades[i]
      BY <3>3, <3>4
    <3>. QED BY <1>0, <2>2, <3>5 DEF SaveTrade, TypeOK
  <2>. QED BY <2>1, <2>2
<1>2. /\ exact' = [size \in SizeNames |-> NotExact]
      /\ refresher' = [r \in Refreshers |->
            [refresher[r] EXCEPT !.missed = refresher[r].pc \in {"trades", "write"}]]
      /\ UNCHANGED <<now, aggs>>
  BY DEF SaveSnapshot, SaveTrade, NewRow
<1>3. ASSUME NEW r \in Refreshers
      PROVE  refresher'[r] \in Refresher /\ ReadInv(refresher[r])'
  <2>. DEFINE me == refresher[r]
              missed == me.pc \in {"trades", "write"}
              next == [me EXCEPT !.missed = missed]
  <2>1. me \in Refresher /\ ReadInv(me) BY DEF Inv, TypeOK, AllReadInv
  <2>2. missed \in BOOLEAN OBVIOUS
  <2>3. refresher'[r] = next BY <1>2
  <2>. HIDE DEF missed
  <2>4. /\ next \in Refresher /\ next.pc = me.pc /\ next.turn = me.turn
        /\ next.snaps = me.snaps /\ next.trades = me.trades /\ next.cutoff = me.cutoff
        /\ next.missed = missed
    BY <2>1, <2>2 DEF Refresher
  <2>5. \A c : SnapsFrom(c) \subseteq SnapsFrom(c)' /\ TradesFrom(c) \subseteq TradesFrom(c)'
    BY <1>1 DEF SnapsFrom, TradesFrom
  <2>6. ReadInv(refresher[r])' BY <2>1, <2>3, <2>4, <2>5 DEF ReadInv, missed
  <2>. QED BY <2>3, <2>4, <2>6
<1>4. refresher' \in [Refreshers -> Refresher] BY <1>2, <1>3
<1>5. AllReadInv' BY <1>3 DEF AllReadInv
<1>6. exact' \in [SizeNames -> Cutoffs \cup {NotExact}] /\ WindowExact'
  BY <1>2 DEF WindowExact
<1>7. NeverOvercounts'
  <2>1. ASSUME NEW k \in DOMAIN aggs
        PROVE  /\ Complete(k).snapshots <= Complete(k)'.snapshots
               /\ Complete(k).trades <= Complete(k)'.trades
               /\ Complete(k)'.snapshots \in Nat /\ Complete(k)'.trades \in Nat
    <3>1. SnapTimes(k, DOMAIN snaps) \subseteq SnapTimes(k, DOMAIN snaps)'
      BY <1>1 DEF SnapTimes
    <3>2. TradeIds(k, DOMAIN trades) \subseteq TradeIds(k, DOMAIN trades)'
      BY <1>1 DEF TradeIds
    <3>3. IsFiniteSet(SnapTimes(k, DOMAIN snaps)')
      <4>1. IsFiniteSet(Times) BY BoundsAssumption, FS_Interval DEF Times
      <4>2. SnapTimes(k, DOMAIN snaps)' \subseteq Times
        <5>1. \A s \in DOMAIN snaps' : s[2] \in Times BY <1>1
        <5>. QED BY <5>1 DEF SnapTimes
      <4>. QED BY <4>1, <4>2, FS_Subset
    <3>4. IsFiniteSet(TradeIds(k, DOMAIN trades)')
      <4>1. DOMAIN trades' = 1 .. Len(trades') /\ Len(trades') \in Nat BY <1>1
      <4>2. IsFiniteSet(DOMAIN trades') BY <4>1, FS_Interval
      <4>3. TradeIds(k, DOMAIN trades)' \subseteq DOMAIN trades' BY DEF TradeIds
      <4>. QED BY <4>2, <4>3, FS_Subset
    <3>5. Cardinality(SnapTimes(k, DOMAIN snaps)) <= Cardinality(SnapTimes(k, DOMAIN snaps)')
      BY <3>1, <3>3, FS_Subset
    <3>6. Cardinality(TradeIds(k, DOMAIN trades)) <= Cardinality(TradeIds(k, DOMAIN trades)')
      BY <3>2, <3>4, FS_Subset
    <3>7. /\ Complete(k).snapshots = Cardinality(SnapTimes(k, DOMAIN snaps))
          /\ Complete(k).trades = Cardinality(TradeIds(k, DOMAIN trades))
      BY ContentsCounts DEF Complete
    <3>8. /\ Complete(k)'.snapshots = Cardinality(SnapTimes(k, DOMAIN snaps)')
          /\ Complete(k)'.trades = Cardinality(TradeIds(k, DOMAIN trades)')
      BY DEF Complete, Contents, SnapTimes, TradeIds
    <3>. QED BY <3>3, <3>4, <3>5, <3>6, <3>7, <3>8, FS_CardinalityType
  <2>2. ASSUME NEW k \in DOMAIN aggs
        PROVE  /\ aggs[k].snapshots <= Complete(k)'.snapshots
               /\ aggs[k].trades <= Complete(k)'.trades
    <3>1. aggs[k].snapshots \in Nat /\ aggs[k].trades \in Nat BY <1>0 DEF TypeOK, Rollup
    <3>2. Complete(k).snapshots \in Nat /\ Complete(k).trades \in Nat
      <4>1. DOMAIN snaps \in SUBSET DOMAIN snaps /\ DOMAIN trades \in SUBSET DOMAIN trades
        OBVIOUS
      <4>2. Complete(k) \in Rollup BY <1>0, <4>1, ContentsType DEF Complete
      <4>. QED BY <4>2 DEF Rollup
    <3>. QED BY <2>1, <3>1, <3>2 DEF Inv, NeverOvercounts
  <2>. QED BY <1>2, <2>2 DEF NeverOvercounts
<1>8. TypeOK' BY <1>0, <1>1, <1>2, <1>4, <1>6 DEF TypeOK
<1>. QED BY <1>5, <1>6, <1>7, <1>8 DEF Inv

\* A rebuild that missed no row makes the buckets that begin inside its window
\* from all their rows but the trades of the cutoff's own second.
LEMMA RebuildComplete ==
  ASSUME TypeOK, NEW size \in SizeNames, NEW cutoff \in Cutoffs,
         NEW m \in Markets, NEW b \in Times, b * Length[size] >= cutoff
  PROVE  LET k == <<size, m, b>>
         IN  /\ Deleted(size, cutoff, k)
             /\ Contents(k, SnapsFrom(cutoff), TradesFrom(cutoff))
                  = [Complete(k) EXCEPT !.trades = @ - Cardinality(CutoffTrades(k, cutoff))]
<1>. DEFINE k == <<size, m, b>>
<1>0. cutoff \in Int BY DEF Cutoffs, Times, NoCutoff
<1>1. Deleted(size, cutoff, k)
  <2>1. CASE cutoff = NoCutoff BY <2>1 DEF Deleted
  <2>2. CASE cutoff # NoCutoff
    <3>. DEFINE n == Length[size]
                c == Bucket(size, cutoff)
    <3>1. n \in Nat \ {0} BY SizesAssumption DEF SizeNames
    <3>2. cutoff \in Times BY <2>2 DEF Cutoffs
    <3>3. c \in Nat /\ c * n <= cutoff BY <3>2, BucketBounds DEF Times
    <3>4. b \in Nat /\ cutoff \in Nat BY <3>2 DEF Times
    <3>5. b * n >= cutoff OBVIOUS
    <3>. HIDE DEF n, c
    <3>6. b >= c
      <4>. SUFFICES ASSUME b + 1 <= c PROVE FALSE BY <3>3, <3>4
      <4>1. (b + 1) * n <= c * n BY <3>1, <3>3, <3>4
      <4>2. (b + 1) * n = b * n + n BY <3>1, <3>4
      <4>3. b * n \in Nat /\ c * n \in Nat BY <3>1, <3>3, <3>4
      <4>. QED BY <3>1, <3>3, <3>4, <3>5, <4>1, <4>2, <4>3
    <3>. QED BY <3>6 DEF Deleted, c
  <2>. QED BY <2>1, <2>2
<1>2. \A s \in DOMAIN snaps : Bucket(size, s[2]) = b => s \in SnapsFrom(cutoff)
  <2>1. \A s \in DOMAIN snaps : s[2] \in Times BY DEF TypeOK
  <2>. QED BY <1>0, <2>1, BucketsAfter DEF SnapsFrom
<1>3. \A i \in DOMAIN trades :
        Bucket(size, trades[i].ts) = b =>
          (i \in TradesFrom(cutoff) <=> ~(trades[i].ts = cutoff /\ trades[i].millis))
  <2>. SUFFICES ASSUME NEW i \in DOMAIN trades, Bucket(size, trades[i].ts) = b
                PROVE  i \in TradesFrom(cutoff) <=> ~(trades[i].ts = cutoff /\ trades[i].millis)
    OBVIOUS
  <2>1. trades[i].ts \in Times /\ trades[i].millis \in BOOLEAN
    <3>1. trades[i] \in Trade BY DEF TypeOK
    <3>. QED BY <3>1 DEF Trade
  <2>2. trades[i].ts >= cutoff BY <1>0, <2>1, BucketsAfter
  <2>3. trades[i].ts > cutoff \/ trades[i].ts = cutoff BY <1>0, <2>1, <2>2 DEF Times
  <2>4. trades[i].ts = cutoff => ~(trades[i].ts > cutoff) BY <1>0
  <2>. QED BY <2>3, <2>4 DEF TradesFrom
<1>4. SnapsFrom(cutoff) \subseteq DOMAIN snaps /\ TradesFrom(cutoff) \subseteq DOMAIN trades
  BY DEF SnapsFrom, TradesFrom
<1>5. k[1] = size /\ k[2] = m /\ k[3] = b OBVIOUS
<1>. HIDE DEF k
<1>6. {s \in SnapsFrom(cutoff) : s[1] = k[2] /\ Bucket(k[1], s[2]) = k[3]}
        = {s \in DOMAIN snaps : s[1] = k[2] /\ Bucket(k[1], s[2]) = k[3]}
  BY <1>2, <1>4, <1>5
<1>. DEFINE all  == TradeIds(k, DOMAIN trades)
            edge == CutoffTrades(k, cutoff)
<1>7. TradeIds(k, TradesFrom(cutoff)) = all \ edge /\ edge \subseteq all
  BY <1>3, <1>4, <1>5 DEF TradeIds, CutoffTrades
<1>8. IsFiniteSet(all) BY RowsFinite DEF TypeOK
<1>9. Cardinality(all \ edge) = Cardinality(all) - Cardinality(edge)
  <2>1. all \cap edge = edge BY <1>7
  <2>. HIDE DEF all, edge
  <2>. QED BY <1>8, <2>1, FS_Difference
<1>10. Contents(k, SnapsFrom(cutoff), TradesFrom(cutoff))
         = [Complete(k) EXCEPT !.trades = @ - Cardinality(edge)]
  <2>. DEFINE times == SnapTimes(k, DOMAIN snaps)
              value(t) == IF times = {} THEN NoValue ELSE snaps[<<k[2], t>>]
              first == value(IF times = {} THEN 0 ELSE Min(times))
              last  == value(IF times = {} THEN 0 ELSE Max(times))
              rollup(n) == [snapshots |-> Cardinality(times),
                            open |-> first, close |-> last, trades |-> n]
  <2>1. Complete(k) = rollup(Cardinality(all))
    BY Zenon DEF Complete, Contents, SnapTimes, TradeIds
  <2>2. SnapTimes(k, SnapsFrom(cutoff)) = times BY <1>6 DEF SnapTimes
  <2>3. Contents(k, SnapsFrom(cutoff), TradesFrom(cutoff))
          = rollup(Cardinality(TradeIds(k, TradesFrom(cutoff))))
    BY Zenon, <2>2 DEF Contents, SnapTimes, TradeIds
  <2>4. Contents(k, SnapsFrom(cutoff), TradesFrom(cutoff))
          = rollup(Cardinality(all) - Cardinality(edge))
    BY <1>7, <1>9, <2>3
  <2>. HIDE DEF times, value, first, last, all, edge
  <2>. QED BY <2>1, <2>4
<1>. QED BY <1>1, <1>10 DEF k

\* The transaction of a rebuild: what it keeps stays as it was, what it makes
\* counts rows of the tables, and all of them where it claims to be exact.
LEMMA WriteKeeps ==
  ASSUME Inv, NEW r \in Refreshers, Write(r)
  PROVE  Inv'
<1>. DEFINE me == refresher[r]
            size == Sizes[me.turn]
            cutoff == me.cutoff
<1>0. TypeOK /\ AllReadInv BY DEF Inv
<1>1. me \in Refresher /\ ReadInv(me) /\ me.pc = "write"
  BY <1>0 DEF TypeOK, AllReadInv, Write
<1>2. /\ me.turn \in Nat /\ me.turn \in DOMAIN Sizes /\ size \in SizeNames
      /\ cutoff \in Cutoffs
      /\ me.snaps \subseteq SnapsFrom(cutoff) /\ me.trades \subseteq TradesFrom(cutoff)
      /\ ~me.missed => me.snaps = SnapsFrom(cutoff) /\ me.trades = TradesFrom(cutoff)
  BY <1>1 DEF Refresher, ReadInv, SizeNames
<1>3. /\ aggs' = Table(me)
      /\ exact' = [exact EXCEPT ![size] = IF me.missed THEN NotExact ELSE cutoff]
      /\ Goto(r, "write", Turn(me.turn + 1))
  BY DEF Write
<1>4. /\ refresher' \in [Refreshers -> Refresher] /\ AllReadInv'
      /\ UNCHANGED <<now, snaps, trades>>
  <2>1. me.turn + 1 \in Nat BY <1>2
  <2>2. Turn(me.turn + 1) \in Refresher /\ ReadInv(Turn(me.turn + 1)) BY <1>0, <2>1, TurnType
  <2>. QED BY <1>0, <1>3, <2>2, GotoEffect
<1>5. /\ DOMAIN aggs' = Kept(me) \cup Made(me)
      /\ \A k \in Made(me) : aggs'[k] = Contents(k, me.snaps, me.trades)
      /\ \A k \in Kept(me) \ Made(me) : aggs'[k] = aggs[k]
  BY <1>3 DEF Table
<1>6. /\ me.snaps \subseteq DOMAIN snaps /\ me.trades \subseteq DOMAIN trades
      /\ DOMAIN snaps \subseteq Markets \X Times
  BY <1>0, <1>2 DEF SnapsFrom, TradesFrom, TypeOK
<1>7. ASSUME NEW k \in Made(me)
      PROVE  /\ k \in SizeNames \X Markets \X Times /\ k[1] = size
             /\ aggs'[k] \in Rollup /\ aggs'[k].snapshots + aggs'[k].trades > 0
             /\ aggs'[k].snapshots <= Complete(k).snapshots
             /\ aggs'[k].trades <= Complete(k).trades
  <2>1. k \in Keys(size, me.snaps, me.trades) BY DEF Made
  <2>2. /\ k \in SizeNames \X Markets \X Times /\ k[1] = size
        /\ SnapTimes(k, me.snaps) # {} \/ TradeIds(k, me.trades) # {}
    BY <1>0, <1>2, <2>1, KeysFrom
  <2>3. aggs'[k] = Contents(k, me.snaps, me.trades) BY <1>5
  <2>4. aggs'[k] \in Rollup BY <1>0, <1>6, <2>3, ContentsType
  <2>5. /\ aggs'[k].snapshots = Cardinality(SnapTimes(k, me.snaps))
        /\ aggs'[k].trades = Cardinality(TradeIds(k, me.trades))
    BY <2>3, ContentsCounts
  <2>6. /\ IsFiniteSet(SnapTimes(k, me.snaps)) /\ IsFiniteSet(TradeIds(k, me.trades))
        /\ Cardinality(SnapTimes(k, me.snaps)) \in Nat
        /\ Cardinality(TradeIds(k, me.trades)) \in Nat
    <3>1. me.snaps \in SUBSET (Markets \X Times) BY <1>6
    <3>. QED BY <1>0, <1>6, <3>1, RowsFinite
  <2>7. Cardinality(SnapTimes(k, me.snaps)) # 0 \/ Cardinality(TradeIds(k, me.trades)) # 0
    BY <2>2, <2>6, FS_EmptySet
  <2>8. aggs'[k].snapshots + aggs'[k].trades > 0 BY <2>5, <2>6, <2>7
  <2>9. /\ aggs'[k].snapshots <= Complete(k).snapshots
        /\ aggs'[k].trades <= Complete(k).trades
    <3>. DEFINE more == DOMAIN snaps
                others == DOMAIN trades
    <3>1. /\ more \in SUBSET (Markets \X Times) /\ me.snaps \in SUBSET more
          /\ others \in SUBSET (DOMAIN trades) /\ me.trades \in SUBSET others
      BY <1>6
    <3>. QED BY <1>0, <2>3, <3>1, CountsGrow DEF Complete
  <2>. QED BY <2>2, <2>4, <2>8, <2>9
<1>8. /\ Kept(me) \subseteq DOMAIN aggs
      /\ \A k \in Kept(me) : ~Deleted(size, cutoff, k)
      /\ \A k \in DOMAIN aggs : ~Deleted(size, cutoff, k) => k \in Kept(me)
  BY DEF Kept
<1>9. \A k : Complete(k)' = Complete(k)
  BY <1>4 DEF Complete, Contents
<1>10. NeverOvercounts'
  <2>1. ASSUME NEW k \in DOMAIN aggs'
        PROVE  /\ aggs'[k].snapshots <= Complete(k).snapshots
               /\ aggs'[k].trades <= Complete(k).trades
    <3>1. CASE k \in Made(me) BY <1>7, <3>1
    <3>2. CASE k \notin Made(me)
      BY <1>5, <1>8, <3>2 DEF Inv, NeverOvercounts
    <3>. QED BY <3>1, <3>2
  <2>. QED BY <1>9, <2>1 DEF NeverOvercounts
<1>11. ASSUME NEW s \in SizeNames, exact'[s] # NotExact, NEW m \in Markets, NEW b \in Times,
              b * Length[s] >= exact'[s]
       PROVE  LET k == <<s, m, b>>
              IN  Row(k)' = [Complete(k) EXCEPT
                               !.trades = @ - Cardinality(CutoffTrades(k, exact'[s]))]
  <2>. DEFINE k == <<s, m, b>>
              lacks(c) == [Complete(k) EXCEPT !.trades = @ - Cardinality(CutoffTrades(k, c))]
  <2>0. k[1] = s OBVIOUS
  <2>1. CASE s = size
    <3>1. exact'[s] = cutoff /\ ~me.missed BY <1>0, <1>2, <1>3, <1>11, <2>1 DEF TypeOK
    <3>2. b * Length[size] >= cutoff BY <1>11, <2>1, <3>1
    <3>3. /\ Deleted(size, cutoff, k)
          /\ Contents(k, SnapsFrom(cutoff), TradesFrom(cutoff)) = lacks(cutoff)
      BY <1>0, <1>2, <2>1, <3>2, RebuildComplete
    <3>4. /\ me.snaps = SnapsFrom(cutoff) /\ me.trades = TradesFrom(cutoff)
          /\ k \notin Kept(me)
      BY <1>2, <1>8, <3>1, <3>3
    <3>5. ASSUME k \in Made(me) PROVE Row(k)' = lacks(cutoff)
      <4>1. Row(k)' = aggs'[k] BY <1>5, <3>5 DEF Row
      <4>2. aggs'[k] = Contents(k, me.snaps, me.trades) BY <1>5, <3>5
      <4>. HIDE DEF k, lacks, me
      <4>. QED BY <3>3, <3>4, <4>1, <4>2
    <3>6. ASSUME k \notin Made(me) PROVE Row(k)' = lacks(cutoff)
      <4>1. k \notin Keys(size, me.snaps, me.trades) BY <3>6 DEF Made
      <4>2. Contents(k, me.snaps, me.trades) = NoRow
        <5>1. me.snaps \in SUBSET (Markets \X Times) BY <1>6
        <5>. QED BY <2>1, <4>1, <5>1, EmptyContents
      <4>3. Row(k)' = NoRow BY <1>5, <3>4, <3>6 DEF Row, NoRow
      <4>. HIDE DEF k, lacks, me
      <4>. QED BY <3>3, <3>4, <4>2, <4>3
    <3>7. Row(k)' = lacks(cutoff) BY <3>5, <3>6
    <3>8. Row(k)' = lacks(exact'[s])
      <4>. HIDE DEF k, lacks
      <4>. QED BY <3>1, <3>7
    <3>. QED BY <3>8
  <2>2. CASE s # size
    <3>1. exact'[s] = exact[s] BY <1>0, <1>3, <2>2 DEF TypeOK
    <3>2. k \notin Made(me) BY <1>7, <2>0, <2>2
    <3>3. ~Deleted(size, cutoff, k) BY <2>0, <2>2 DEF Deleted
    <3>4. Row(k) = lacks(exact[s]) BY <1>11, <3>1 DEF Inv, WindowExact
    <3>5. Row(k)' = Row(k)
      <4>. HIDE DEF k
      <4>. QED BY <1>5, <1>8, <3>2, <3>3 DEF Row
    <3>6. Row(k)' = lacks(exact'[s])
      <4>. HIDE DEF k, lacks
      <4>. QED BY <3>1, <3>4, <3>5
    <3>. QED BY <3>6
  <2>. QED BY <2>1, <2>2
<1>12. WindowExact'
  <2>1. \A k, c : CutoffTrades(k, c)' = CutoffTrades(k, c)
    BY <1>4 DEF CutoffTrades
  <2>. QED BY <1>9, <1>11, <2>1 DEF WindowExact
<1>13. TypeOK'
  <2>1. \A k \in DOMAIN aggs' : /\ k \in SizeNames \X Markets \X Times
                                /\ aggs'[k] \in Rollup
                                /\ aggs'[k].snapshots + aggs'[k].trades > 0
    <3>. TAKE k \in DOMAIN aggs'
    <3>1. CASE k \in Made(me) BY <1>7, <3>1
    <3>2. CASE k \notin Made(me) BY <1>0, <1>5, <1>8, <3>2 DEF TypeOK
    <3>. QED BY <3>1, <3>2
  <2>2. exact' \in [SizeNames -> Cutoffs \cup {NotExact}] BY <1>0, <1>2, <1>3 DEF TypeOK
  <2>. QED BY <1>0, <1>4, <2>1, <2>2 DEF TypeOK
<1>. QED BY <1>4, <1>10, <1>12, <1>13 DEF Inv
-----------------------------------------------------------------------------
(* The theorems. *)

LEMMA Invariant == Spec => []Inv
<1>1. Init => Inv
  <2>. SUFFICES ASSUME Init PROVE Inv OBVIOUS
  <2>1. 0 \in Times BY BoundsAssumption DEF Times
  <2>2. Idle \in Refresher /\ Idle.pc = "idle" BY DEF Idle, Refresher, Cutoffs
  <2>3. DOMAIN snaps = {} /\ DOMAIN aggs = {} /\ trades = <<>> BY DEF Init
  <2>4. trades \in Seq(Trade) BY <2>3
  <2>5. TypeOK BY <2>1, <2>2, <2>3, <2>4 DEF Init, TypeOK
  <2>6. AllReadInv BY <2>2 DEF Init, AllReadInv, ReadInv
  <2>7. NeverOvercounts BY <2>3 DEF NeverOvercounts
  <2>8. WindowExact BY DEF Init, WindowExact
  <2>. QED BY <2>5, <2>6, <2>7, <2>8 DEF Inv
<1>2. Inv /\ [Next]_vars => Inv'
  <2>1. CASE UNCHANGED vars
    <3>1. UNCHANGED <<now, refresher>> /\ UNCHANGED <<snaps, trades, aggs, exact>>
      BY <2>1 DEF vars
    <3>2. Inv => now' \in Times /\ refresher' \in [Refreshers -> Refresher] /\ AllReadInv'
      BY <3>1 DEF Inv, TypeOK, AllReadInv, ReadInv, SnapsFrom, TradesFrom
    <3>. QED BY <3>1, <3>2, TablesKept DEF Inv, TypeOK
  <2>. QED BY <2>1, TickKeeps, RowKeeps, ReadKeeps, WriteKeeps DEF Next, Runs
<1>. QED BY <1>1, <1>2, PTL DEF Spec

\* Every table and every activation of run_maintenance keeps its type, and a
\* bucket that is stored has rows.
THEOREM TypeCorrect == Spec => []TypeOK
  BY Invariant, PTL DEF Inv

\* However rebuilds overlap (refresh_volume_aggregates), no bucket counts a
\* snapshot or a trade that the tables do not have, and none twice.
THEOREM NoOvercount == Spec => []NeverOvercounts
  BY Invariant, PTL DEF Inv

\* The bucket of the cutoff is deleted whole and no row read is older than the
\* cutoff, so the INSERTs of a rebuild never meet a row its DELETE has left.
THEOREM FreeKeys == Spec => []KeysAreFree
<1>1. Inv => KeysAreFree
  <2>. SUFFICES ASSUME Inv, NEW r \in Refreshers, refresher[r].pc = "write",
                       NEW k \in Made(refresher[r])
                PROVE  k \notin Kept(refresher[r])
    BY DEF KeysAreFree
  <2>. DEFINE me == refresher[r]
              size == Sizes[me.turn]
  <2>1. TypeOK /\ me \in Refresher /\ ReadInv(me) BY DEF Inv, TypeOK, AllReadInv
  <2>2. /\ size \in SizeNames /\ me.cutoff \in Cutoffs
        /\ me.snaps \subseteq SnapsFrom(me.cutoff) /\ me.trades \subseteq TradesFrom(me.cutoff)
    BY <2>1 DEF Refresher, ReadInv, SizeNames
  <2>3. Deleted(size, me.cutoff, k) BY <2>1, <2>2, KeysFrom DEF Made
  <2>. QED BY <2>3 DEF Kept
<1>. QED BY <1>1, Invariant, PTL

\* After a rebuild that missed no row, the buckets that begin inside its window
\* are those of the complete tables; only one that begins with the cutoff lacks
\* the trades of that second, which have milliseconds where the cutoff has none.
THEOREM ExactWindow == Spec => []WindowExact
  BY Invariant, PTL DEF Inv
-----------------------------------------------------------------------------
(* The deltas of a market's buckets. *)

\* Open and close of a row are volumes of two snapshots of its bucket, whichever
\* rebuild wrote it and whatever has come since.
Spans(k) ==
    \/ aggs[k].open = NoValue /\ aggs[k].close = NoValue
    \/ \E s, t \in Times :
         /\ <<k[2], s>> \in DOMAIN snaps /\ Bucket(k[1], s) = k[3]
         /\ <<k[2], t>> \in DOMAIN snaps /\ Bucket(k[1], t) = k[3]
         /\ aggs[k].open = snaps[<<k[2], s>>] /\ aggs[k].close = snaps[<<k[2], t>>]

\* The same of every stored row.
SpanInv == \A k \in DOMAIN aggs : Spans(k)

\* A rollup over stored snapshots spans them.
LEMMA ContentsSpan ==
  ASSUME TypeOK, NEW key, NEW ss \in SUBSET (DOMAIN snaps), NEW ts
  PROVE  \/ Contents(key, ss, ts).open = NoValue /\ Contents(key, ss, ts).close = NoValue
         \/ \E s, t \in Times :
              /\ <<key[2], s>> \in DOMAIN snaps /\ Bucket(key[1], s) = key[3]
              /\ <<key[2], t>> \in DOMAIN snaps /\ Bucket(key[1], t) = key[3]
              /\ Contents(key, ss, ts).open = snaps[<<key[2], s>>]
              /\ Contents(key, ss, ts).close = snaps[<<key[2], t>>]
<1>. DEFINE times == SnapTimes(key, ss)
            value(t) == IF times = {} THEN NoValue ELSE snaps[<<key[2], t>>]
<1>1. /\ Contents(key, ss, ts).open = value(IF times = {} THEN 0 ELSE Min(times))
      /\ Contents(key, ss, ts).close = value(IF times = {} THEN 0 ELSE Max(times))
  BY Zenon DEF Contents, SnapTimes
<1>2. CASE times = {} BY <1>1, <1>2
<1>3. CASE times # {}
  <2>1. ss \in SUBSET (Markets \X Times) BY DEF TypeOK
  <2>2. times \subseteq Times BY <2>1 DEF SnapTimes
  <2>3. Min(times) \in times /\ Max(times) \in times BY <1>3, <2>2, MinMaxIn
  <2>4. \A t \in times : <<key[2], t>> \in DOMAIN snaps /\ Bucket(key[1], t) = key[3]
    <3>1. \A k \in ss : k = <<k[1], k[2]>> /\ k \in DOMAIN snaps BY <2>1
    <3>. QED BY <3>1 DEF SnapTimes
  <2>5. /\ Contents(key, ss, ts).open = snaps[<<key[2], Min(times)>>]
        /\ Contents(key, ss, ts).close = snaps[<<key[2], Max(times)>>]
    BY <1>1, <1>3
  <2>. HIDE DEF times
  <2>. QED BY <2>2, <2>3, <2>4, <2>5
<1>. QED BY <1>2, <1>3

\* Snapshots that come leave the spans.
LEMMA SpansKept ==
  ASSUME SpanInv, UNCHANGED aggs, DOMAIN snaps \subseteq DOMAIN snaps',
         \A k \in DOMAIN snaps : snaps'[k] = snaps[k]
  PROVE  SpanInv'
<1>. SUFFICES ASSUME NEW k \in DOMAIN aggs, Spans(k) PROVE Spans(k)'
  BY DEF SpanInv
<1>1. CASE aggs[k].open = NoValue /\ aggs[k].close = NoValue BY <1>1 DEF Spans
<1>2. CASE \E s, t \in Times :
             /\ <<k[2], s>> \in DOMAIN snaps /\ Bucket(k[1], s) = k[3]
             /\ <<k[2], t>> \in DOMAIN snaps /\ Bucket(k[1], t) = k[3]
             /\ aggs[k].open = snaps[<<k[2], s>>] /\ aggs[k].close = snaps[<<k[2], t>>]
  BY <1>2 DEF Spans, Bucket
<1>. QED BY <1>1, <1>2 DEF Spans

\* Every step keeps the spans: a rebuild writes rows over snapshots that are stored.
LEMMA SpanNext ==
  ASSUME TypeOK, AllReadInv, SpanInv, [Next]_vars
  PROVE  SpanInv'
<1>1. ASSUME NEW m \in Markets, SaveSnapshot(m) PROVE SpanInv'
  <2>1. PICK t \in Stamps, volume \in Volumes :
         /\ <<m, t>> \notin DOMAIN snaps
         /\ snaps' = [k \in DOMAIN snaps \cup {<<m, t>>} |->
                        IF k = <<m, t>> THEN volume ELSE snaps[k]]
    BY <1>1 DEF SaveSnapshot
  <2>2. UNCHANGED aggs BY <1>1 DEF SaveSnapshot, NewRow
  <2>. QED BY <2>1, <2>2, SpansKept
<1>2. ASSUME NEW r \in Refreshers, Write(r) PROVE SpanInv'
  <2>. DEFINE me == refresher[r]
  <2>1. /\ me.pc = "write" /\ aggs' = Table(me) /\ UNCHANGED snaps
    BY <1>2 DEF Write, Goto
  <2>2. me.snaps \in SUBSET (DOMAIN snaps)
    BY <2>1 DEF AllReadInv, ReadInv, SnapsFrom
  <2>. SUFFICES ASSUME NEW k \in DOMAIN aggs' PROVE Spans(k)' BY DEF SpanInv
  <2>. HIDE DEF me
  <2>3. k \in Kept(me) \cup Made(me)
        /\ aggs'[k] = IF k \in Made(me) THEN Contents(k, me.snaps, me.trades) ELSE aggs[k]
    BY <2>1 DEF Table
  <2>4. CASE k \in Made(me)
    <3>1. aggs'[k] = Contents(k, me.snaps, me.trades) BY <2>3, <2>4
    <3>. DEFINE c == Contents(k, me.snaps, me.trades)
    <3>2. \/ c.open = NoValue /\ c.close = NoValue
          \/ \E s, t \in Times :
               /\ <<k[2], s>> \in DOMAIN snaps /\ Bucket(k[1], s) = k[3]
               /\ <<k[2], t>> \in DOMAIN snaps /\ Bucket(k[1], t) = k[3]
               /\ c.open = snaps[<<k[2], s>>] /\ c.close = snaps[<<k[2], t>>]
      BY <2>2, ContentsSpan
    <3>3. aggs'[k] = c BY <3>1
    <3>. HIDE DEF c
    <3>. QED BY <2>1, <3>2, <3>3 DEF Spans, Bucket
  <2>5. CASE k \notin Made(me)
    <3>1. k \in DOMAIN aggs /\ aggs'[k] = aggs[k] BY <2>3, <2>5 DEF Kept
    <3>. QED BY <2>1, <3>1 DEF SpanInv, Spans, Bucket
  <2>. QED BY <2>4, <2>5
<1>3. CASE UNCHANGED <<aggs, snaps>> BY <1>3, SpansKept
<1>. QED BY Zenon, <1>1, <1>2, <1>3
       DEF Next, Tick, SaveTrade, NewRow, Runs, Begin, ReadSnapshots, ReadTrades, Goto, Fails, vars

\* The largest and the least of some times.
LEMMA MinMaxBound ==
  ASSUME NEW S \in SUBSET Times, S # {}
  PROVE  \A x \in S : Min(S) <= x /\ x <= Max(S)
<1>1. S \subseteq Nat /\ MaxTime \in Nat BY BoundsAssumption DEF Times
<1>2. PICK d \in S : \A e \in S : ~(<<e, d>> \in OpToRel(<, Nat))
  BY <1>1, NatLessThanWellFounded, WFMin
<1>3. \A e \in S : d <= e
  <2>1. \A e \in S : ~(e < d) BY <1>1, <1>2 DEF OpToRel
  <2>. QED BY <1>1, <2>1
<1>4. \A x \in S : Min(S) <= x BY <1>3 DEF Min
<1>. DEFINE T == {MaxTime - x : x \in S}
<1>5. T \subseteq Nat /\ T # {}
  <2>1. \A x \in S : MaxTime - x \in Nat BY <1>1 DEF Times
  <2>. QED BY <2>1
<1>6. PICK f \in T : \A e \in T : ~(<<e, f>> \in OpToRel(<, Nat))
  BY <1>5, NatLessThanWellFounded, WFMin
<1>7. \A e \in T : ~(e < f) BY <1>5, <1>6 DEF OpToRel
<1>8. PICK x \in S : f = MaxTime - x OBVIOUS
<1>9. \A y \in S : x >= y
  <2>1. TAKE y \in S
  <2>2. ~(MaxTime - y < MaxTime - x) BY <1>7, <1>8
  <2>. QED BY <1>1, <2>2
<1>10. \A y \in S : Max(S) >= y BY <1>9 DEF Max
<1>. QED BY <1>1, <1>4, <1>10, MinMaxIn

\* Rows of one market and size are as many as their buckets.
LEMMA BucketsFinite ==
  ASSUME NEW m, NEW size, NEW S, \A k \in S : k[3] \in 0 .. MaxTime /\ k = <<size, m, k[3]>>
  PROVE  IsFiniteSet(S)
<1>. DEFINE f == [k \in S |-> k[3]]
<1>1. IsFiniteSet(0 .. MaxTime) BY BoundsAssumption, FS_Interval
<1>2. f \in Injection(S, 0 .. MaxTime) BY DEF Injection, IsInjective
<1>. HIDE DEF f
<1>. QED BY <1>1, <1>2, FS_Injection

\* The deltas of some rows, and of all, as functions.
DeltasOf(S) == [k \in S |-> Delta(k)]

\* The sum of the deltas, as SumTheorems states sums.
LEMMA DeltaSum ==
  ASSUME NEW S
  PROVE  MapThenSumSet(Delta, S) = Sum(DeltasOf(S), S)
  BY Zenon DEF Sum, MapThenSumSet, MapThenFoldSet, DeltasOf

DeltaOf == [k \in DOMAIN aggs |-> Delta(k)]

\* Bucket by bucket: what the deltas before a bucket add up to is at most what
\* the market has traded until any snapshot that is not earlier than theirs.
LEMMA DeltasAddUp ==
  ASSUME TypeOK, SpanInv, NEW m \in Markets, NEW size \in SizeNames,
         NEW times, times = {t \in Times : <<m, t>> \in DOMAIN snaps}, times # {},
         \A s, t \in times : s <= t => snaps[<<m, s>>] <= snaps[<<m, t>>]
  PROVE  \A n \in Nat, u \in times :
           (\A t \in times : Bucket(size, t) < n => t <= u) =>
             Sum(DeltaOf, {k \in DOMAIN aggs : k[1] = size /\ k[2] = m /\ k[3] < n})
               <= snaps[<<m, u>>] - snaps[<<m, Min(times)>>]
<1>. DEFINE before(n) == {k \in DOMAIN aggs : k[1] = size /\ k[2] = m /\ k[3] < n}
            v(t) == snaps[<<m, t>>]
            low == Min(times)
            Late(n, u) == \A t \in times : Bucket(size, t) < n => t <= u
            Holds(n) == \A u \in times : Late(n, u) => Sum(DeltaOf, before(n)) <= v(u) - v(low)
            bad == {n \in Nat : ~Holds(n)}
<1>1. times \in SUBSET Times /\ Times \subseteq Nat BY BoundsAssumption DEF Times
<1>2. low \in times /\ \A t \in times : low <= t BY <1>1, MinMaxIn, MinMaxBound
<1>3. \A t \in times : v(t) \in Nat
  BY SetsAssumption DEF TypeOK
<1>4. \A s, t \in times : s <= t => v(s) <= v(t) OBVIOUS
<1>5. \A k \in DOMAIN aggs : /\ k \in SizeNames \X Markets \X Times
                             /\ DeltaOf[k] = Delta(k)
                             /\ aggs[k].open \in Nat \cup {NoValue}
                             /\ aggs[k].close \in Nat \cup {NoValue}
                             /\ DeltaOf[k] \in Nat
  <2>. SUFFICES ASSUME NEW k \in DOMAIN aggs
                PROVE  /\ k \in SizeNames \X Markets \X Times
                       /\ DeltaOf[k] = Delta(k)
                       /\ aggs[k].open \in Nat \cup {NoValue}
                       /\ aggs[k].close \in Nat \cup {NoValue}
                       /\ DeltaOf[k] \in Nat
    OBVIOUS
  <2>1. aggs[k].open \in Nat \cup {NoValue} /\ aggs[k].close \in Nat \cup {NoValue}
    BY SetsAssumption DEF TypeOK, Rollup
  <2>2. DeltaOf[k] = Delta(k) BY DEF DeltaOf
  <2>3. Delta(k) \in Nat BY <2>1 DEF Delta, NoValue
  <2>. QED BY <2>1, <2>2, <2>3 DEF TypeOK
<1>6. \A n \in Nat : IsFiniteSet(before(n)) /\ \A k \in before(n) : DeltaOf[k] \in Nat
  <2>. TAKE n \in Nat
  <2>1. \A k \in before(n) : k \in DOMAIN aggs /\ k[3] \in 0 .. MaxTime /\ k = <<size, m, k[3]>>
    BY <1>5 DEF Times
  <2>4. IsFiniteSet(before(n))
    <3>. HIDE DEF before
    <3>. QED BY <2>1, BucketsFinite
  <2>. QED BY <1>5, <2>1, <2>4
<1>7. bad = {}
  <2>. SUFFICES ASSUME bad # {} PROVE FALSE OBVIOUS
  <2>1. PICK n \in bad : \A e \in bad : ~(<<e, n>> \in OpToRel(<, Nat))
    BY Zenon, NatLessThanWellFounded, WFMin
  <2>2. n \in Nat /\ ~Holds(n) OBVIOUS
  <2>3. \A e \in Nat : e < n => Holds(e) BY <2>1, <2>2 DEF OpToRel
  <2>4. PICK u \in times : Late(n, u) /\ ~(Sum(DeltaOf, before(n)) <= v(u) - v(low))
    BY <2>2
  <2>5. v(u) \in Nat /\ v(low) \in Nat /\ v(low) <= v(u) BY <1>2, <1>3, <1>4
  <2>6. n # 0
    <3>1. before(0) = {} BY <1>5 DEF Times
    <3>2. Sum(DeltaOf, before(0)) = 0 BY <3>1, SumEmpty
    <3>. HIDE DEF before, v, low
    <3>. QED BY <2>4, <2>5, <3>2
  <2>. DEFINE p == n - 1
  <2>7. p \in Nat /\ p < n /\ n = p + 1 BY <2>2, <2>6
  <2>8. Holds(p) BY <2>3, <2>7
  <2>. HIDE DEF p
  <2>9. \A t \in times : Bucket(size, t) \in Nat BY <1>1, BucketBounds DEF Times
  <2>10. Late(p, u)
    <3>1. \A t \in times : Bucket(size, t) < p => Bucket(size, t) < n BY <2>7, <2>9
    <3>. QED BY <2>4, <3>1
  <2>. DEFINE key == <<size, m, p>>
              S == before(p)
  <2>11. Sum(DeltaOf, S) <= v(u) - v(low) BY <2>8, <2>10
  <2>12. before(n) = IF key \in DOMAIN aggs THEN S \cup {key} ELSE S
    <3>1. \A k \in DOMAIN aggs : k[1] = size /\ k[2] = m =>
             k[3] \in Nat /\ k = <<size, m, k[3]>>
      BY <1>5 DEF Times
    <3>2. \A x \in Nat : x < n <=> (x < p \/ x = p) BY <2>7
    <3>. QED BY <3>1, <3>2, <2>7
  <2>13. IsFiniteSet(S) /\ Sum(DeltaOf, S) \in Nat
    <3>1. IsFiniteSet(S) /\ \A k \in S : DeltaOf[k] \in Nat BY <1>6, <2>7
    <3>. HIDE DEF S
    <3>. QED BY <3>1, SumType
  <2>14. key \in DOMAIN aggs BY <2>4, <2>11, <2>12
  <2>15. Sum(DeltaOf, before(n)) = Sum(DeltaOf, S) + Delta(key)
    <3>1. key \notin S BY <2>7
    <3>2. \A k \in S \cup {key} : DeltaOf[k] \in Nat BY <1>5, <2>14
    <3>3. Sum(DeltaOf, S \cup {key}) = Sum(DeltaOf, S) + DeltaOf[key]
      <4>. HIDE DEF S, key
      <4>. QED BY <2>13, <3>1, <3>2, SumAdd
    <3>. QED BY <1>5, <2>12, <2>14, <3>3
  <2>16. Delta(key) \in Nat /\ aggs[key].open \in Nat \cup {NoValue}
         /\ aggs[key].close \in Nat \cup {NoValue}
    BY <1>5, <2>14
  <2>17. Delta(key) # 0
    <3>. HIDE DEF before, v, low, S, key
    <3>. QED BY <2>4, <2>5, <2>11, <2>13, <2>15, <2>16
  <2>18. aggs[key].close > aggs[key].open /\ Delta(key) = aggs[key].close - aggs[key].open
    BY <2>17 DEF Delta
  <2>19. PICK s, t \in Times :
           /\ <<key[2], s>> \in DOMAIN snaps /\ Bucket(key[1], s) = key[3]
           /\ <<key[2], t>> \in DOMAIN snaps /\ Bucket(key[1], t) = key[3]
           /\ aggs[key].open = snaps[<<key[2], s>>] /\ aggs[key].close = snaps[<<key[2], t>>]
    <3>1. Spans(key) BY <2>14 DEF SpanInv
    <3>2. ~(aggs[key].open = NoValue /\ aggs[key].close = NoValue)
      BY <2>18 DEF NoValue
    <3>. HIDE DEF key
    <3>. QED BY <3>1, <3>2 DEF Spans
  <2>20. /\ s \in times /\ t \in times /\ Bucket(size, s) = p /\ Bucket(size, t) = p
         /\ aggs[key].open = v(s) /\ aggs[key].close = v(t)
    BY <2>19
  <2>21. Late(p, s)
    <3>. SUFFICES ASSUME NEW w \in times, Bucket(size, w) < p PROVE w <= s OBVIOUS
    <3>1. w \in Nat /\ s \in Nat /\ w \in Times /\ s \in Times BY <1>1, <2>20
    <3>2. s <= w => Bucket(size, s) <= Bucket(size, w) BY <3>1, BucketBounds
    <3>3. ~(s <= w) BY <2>7, <2>9, <2>20, <3>2
    <3>. QED BY <3>1, <3>3
  <2>22. Sum(DeltaOf, S) <= v(s) - v(low) BY <2>8, <2>20, <2>21
  <2>23. v(t) <= v(u)
    <3>1. Bucket(size, t) < n BY <2>7, <2>20
    <3>2. t <= u BY <2>4, <2>20, <3>1
    <3>. QED BY <1>4, <2>20, <3>2
  <2>24. v(s) \in Nat /\ v(t) \in Nat BY <1>3, <2>20
  <2>25. Delta(key) = v(t) - v(s) BY <2>18, <2>20
  <2>26. Sum(DeltaOf, before(n)) <= v(u) - v(low)
    <3>. HIDE DEF before, v, low, S, key
    <3>. QED BY <2>5, <2>13, <2>15, <2>22, <2>23, <2>24, <2>25
  <2>. QED BY <2>4, <2>26
<1>8. \A n \in Nat : Holds(n) BY <1>7
<1>. QED BY <1>8

\* Rows over stored snapshots keep the property.
LEMMA DeltasBounded ==
  ASSUME TypeOK, SpanInv
  PROVE  DeltasWithinGrowth
<1>. SUFFICES ASSUME NEW m \in Markets, NEW size \in SizeNames,
                     NEW times, times = {t \in Times : <<m, t>> \in DOMAIN snaps},
                     NEW kept, kept = {k \in DOMAIN aggs : k[1] = size /\ k[2] = m},
                     times # {}, \A s, t \in times : s <= t => snaps[<<m, s>>] <= snaps[<<m, t>>]
              PROVE  MapThenSumSet(Delta, kept) <= snaps[<<m, Max(times)>>] - snaps[<<m, Min(times)>>]
  BY Zenon DEF DeltasWithinGrowth
<1>1. times \in SUBSET Times /\ Times \subseteq Nat BY BoundsAssumption DEF Times
<1>2. Max(times) \in times /\ \A t \in times : t <= Max(times) BY <1>1, MinMaxIn, MinMaxBound
<1>3. MaxTime + 1 \in Nat BY BoundsAssumption
<1>4. kept = {k \in DOMAIN aggs : k[1] = size /\ k[2] = m /\ k[3] < MaxTime + 1}
  <2>1. \A k \in DOMAIN aggs : k[3] \in 0 .. MaxTime BY DEF TypeOK, Times
  <2>2. \A x \in 0 .. MaxTime : x < MaxTime + 1 BY BoundsAssumption
  <2>. QED BY <2>1, <2>2
<1>5. Sum(DeltaOf, kept) <= snaps[<<m, Max(times)>>] - snaps[<<m, Min(times)>>]
  <2>1. \A n \in Nat, u \in times :
          (\A t \in times : Bucket(size, t) < n => t <= u) =>
            Sum(DeltaOf, {k \in DOMAIN aggs : k[1] = size /\ k[2] = m /\ k[3] < n})
              <= snaps[<<m, u>>] - snaps[<<m, Min(times)>>]
    BY DeltasAddUp
  <2>2. \A t \in times : Bucket(size, t) < MaxTime + 1 => t <= Max(times) BY <1>2
  <2>3. Sum(DeltaOf, {k \in DOMAIN aggs : k[1] = size /\ k[2] = m /\ k[3] < MaxTime + 1})
          <= snaps[<<m, Max(times)>>] - snaps[<<m, Min(times)>>]
    BY <1>2, <1>3, <2>1, <2>2
  <2>. QED BY <1>4, <2>3
<1>6. MapThenSumSet(Delta, kept) = Sum(DeltaOf, kept)
  <2>1. MapThenSumSet(Delta, kept) = Sum(DeltasOf(kept), kept) BY DeltaSum
  <2>2. IsFiniteSet(kept)
    <3>1. \A k \in kept : k[3] \in 0 .. MaxTime /\ k = <<size, m, k[3]>> BY DEF TypeOK, Times
    <3>. QED BY <3>1, BucketsFinite
  <2>3. \A k \in kept : DeltasOf(kept)[k] = DeltaOf[k] BY DEF DeltaOf, DeltasOf
  <2>. QED BY <2>1, <2>2, <2>3, SumSame
<1>. QED BY <1>5, <1>6

\* While a market's volume never falls, the deltas of its buckets add up to no
\* more than it has traded between its first and its last snapshot, whichever
\* rebuilds wrote them.
THEOREM DeltasBound == Spec => []DeltasWithinGrowth
<1>1. Init => SpanInv BY DEF Init, SpanInv
<1>2. Inv /\ SpanInv /\ [Next]_vars => SpanInv' BY SpanNext DEF Inv
<1>3. Inv /\ SpanInv => DeltasWithinGrowth BY DeltasBounded DEF Inv
<1>. QED BY <1>1, <1>2, <1>3, Invariant, PTL DEF Spec
-----------------------------------------------------------------------------
(* Rebuilds without a window. *)

\* A size without since_hours is rebuilt without a cutoff.
WholeInv ==
    /\ \A size \in SizeNames : Since[size] = 0 => exact[size] \in {NoCutoff, NotExact}
    /\ \A r \in Refreshers :
          refresher[r].pc # "idle" /\ Since[Sizes[refresher[r].turn]] = 0 =>
             refresher[r].cutoff = NoCutoff

\* What RollupsComplete says, of the sizes without a window.
WholeRebuildsComplete ==
    \A k \in DOMAIN aggs : Since[k[1]] = 0 /\ exact[k[1]] # NotExact => aggs[k] = Complete(k)

\* The activation that takes its next size has its cutoff.
LEMMA TurnWhole ==
  ASSUME TypeOK, NEW turn
  PROVE  Turn(turn).pc # "idle" /\ Since[Sizes[Turn(turn).turn]] = 0 => Turn(turn).cutoff = NoCutoff
<1>1. CASE turn \in DOMAIN Sizes
  <2>1. Turn(turn).turn = turn /\ Turn(turn).cutoff = Cutoff(Sizes[turn])
    BY <1>1 DEF Turn, Idle
  <2>2. Since[Sizes[turn]] = 0 => Cutoff(Sizes[turn]) = NoCutoff BY DEF Cutoff, TypeOK, Times
  <2>. QED BY <2>1, <2>2
<1>2. CASE turn \notin DOMAIN Sizes BY <1>2 DEF Turn, Idle
<1>. QED BY <1>1, <1>2

\* Every step keeps the cutoffs.
LEMMA WholeNext ==
  ASSUME TypeOK, WholeInv, [Next]_vars
  PROVE  WholeInv'
<1>1. ASSUME NEW r \in Refreshers, NEW next, UNCHANGED exact,
             refresher' = [refresher EXCEPT ![r] = next],
             next.pc # "idle" /\ Since[Sizes[next.turn]] = 0 => next.cutoff = NoCutoff
      PROVE  WholeInv'
  <2>1. \A q \in Refreshers : refresher'[q] = IF q = r THEN next ELSE refresher[q]
    BY <1>1 DEF TypeOK
  <2>. QED BY <1>1, <2>1 DEF WholeInv
<1>2. CASE UNCHANGED <<exact, refresher>> BY <1>2 DEF WholeInv
<1>3. CASE NewRow
  <2>1. \A r \in Refreshers : /\ refresher'[r].pc = refresher[r].pc
                              /\ refresher'[r].turn = refresher[r].turn
                              /\ refresher'[r].cutoff = refresher[r].cutoff
    BY <1>3 DEF NewRow, TypeOK, Refresher
  <2>2. \A size \in SizeNames : exact'[size] = NotExact BY <1>3 DEF NewRow
  <2>. QED BY <2>1, <2>2 DEF WholeInv
<1>4. ASSUME NEW r \in Refreshers, Begin(r) PROVE WholeInv'
  <2>1. UNCHANGED exact /\ refresher' = [refresher EXCEPT ![r] = Turn(1)]
    BY <1>4 DEF Begin, Goto
  <2>. QED BY <1>1, <2>1, TurnWhole
<1>5. ASSUME NEW r \in Refreshers, ReadSnapshots(r) \/ ReadTrades(r) PROVE WholeInv'
  <2>1. PICK next : /\ UNCHANGED exact /\ refresher' = [refresher EXCEPT ![r] = next]
                    /\ next.turn = refresher[r].turn /\ next.cutoff = refresher[r].cutoff
                    /\ refresher[r].pc # "idle"
    <3>1. refresher[r] \in Refresher BY DEF TypeOK
    <3>2. CASE ReadSnapshots(r)
      <4>. DEFINE next == [refresher[r] EXCEPT !.pc = "trades",
                                               !.snaps = SnapsFrom(refresher[r].cutoff)]
      <4>1. next.turn = refresher[r].turn /\ next.cutoff = refresher[r].cutoff
        BY <3>1 DEF Refresher
      <4>. QED BY <3>2, <4>1 DEF ReadSnapshots, Goto
    <3>3. CASE ReadTrades(r)
      <4>. DEFINE next == [refresher[r] EXCEPT !.pc = "write",
                                               !.trades = TradesFrom(refresher[r].cutoff)]
      <4>1. next.turn = refresher[r].turn /\ next.cutoff = refresher[r].cutoff
        BY <3>1 DEF Refresher
      <4>. QED BY <3>3, <4>1 DEF ReadTrades, Goto
    <3>. QED BY <1>5, <3>2, <3>3
  <2>2. Since[Sizes[next.turn]] = 0 => next.cutoff = NoCutoff BY <2>1 DEF WholeInv
  <2>. QED BY <1>1, <2>1, <2>2
<1>6. ASSUME NEW r \in Refreshers, Write(r) PROVE WholeInv'
  <2>. DEFINE me == refresher[r]
  <2>1. /\ me.pc = "write"
        /\ exact' = [exact EXCEPT ![Sizes[me.turn]] = IF me.missed THEN NotExact ELSE me.cutoff]
        /\ refresher' = [refresher EXCEPT ![r] = Turn(me.turn + 1)]
    BY <1>6 DEF Write, Goto
  <2>2. \A q \in Refreshers : refresher'[q] = IF q = r THEN Turn(me.turn + 1) ELSE refresher[q]
    BY <2>1 DEF TypeOK
  <2>3. Since[Sizes[me.turn]] = 0 => me.cutoff = NoCutoff BY <2>1 DEF WholeInv
  <2>4. \A size \in SizeNames :
          exact'[size] = IF size = Sizes[me.turn]
                         THEN IF me.missed THEN NotExact ELSE me.cutoff
                         ELSE exact[size]
    BY <2>1 DEF TypeOK
  <2>. HIDE DEF me
  <2>. QED BY <2>2, <2>3, <2>4, TurnWhole DEF WholeInv
<1>7. ASSUME NEW r \in Refreshers, Fails(r) PROVE WholeInv'
  <2>1. UNCHANGED exact /\ refresher' = [refresher EXCEPT ![r] = Idle]
    BY <1>7 DEF Fails, Goto
  <2>2. Idle.pc = "idle" BY DEF Idle
  <2>. QED BY <1>1, <2>1, <2>2
<1>. QED BY <1>2, <1>3, <1>4, <1>5, <1>6, <1>7
       DEF Next, Tick, SaveSnapshot, SaveTrade, Runs, vars

\* Without since_hours, the default of refresh_volume_aggregates and the way
\* test_repository.py calls it, an undisturbed rebuild leaves every bucket of its
\* size complete: only a window, as run_maintenance gives both sizes, makes the
\* incomplete buckets of aggregates_truncated.
THEOREM WholeComplete == Spec => []WholeRebuildsComplete
<1>1. Init => WholeInv BY DEF Init, WholeInv, Idle
<1>2. Inv /\ WholeInv /\ [Next]_vars => WholeInv' BY WholeNext DEF Inv
<1>3. Inv /\ WholeInv => WholeRebuildsComplete
  <2>. SUFFICES ASSUME Inv, WholeInv, NEW k \in DOMAIN aggs,
                       Since[k[1]] = 0, exact[k[1]] # NotExact
                PROVE  aggs[k] = Complete(k)
    BY DEF WholeRebuildsComplete
  <2>1. k \in SizeNames \X Markets \X Times BY DEF Inv, TypeOK
  <2>2. k[1] \in SizeNames /\ k[2] \in Markets /\ k[3] \in Times /\ k = <<k[1], k[2], k[3]>>
    BY <2>1
  <2>3. exact[k[1]] = NoCutoff BY <2>2 DEF WholeInv
  <2>4. k[3] * Length[k[1]] >= NoCutoff
    <3>1. k[3] \in Nat /\ Length[k[1]] \in Nat
      BY <2>2, SizesAssumption DEF SizeNames, Times
    <3>2. k[3] * Length[k[1]] \in Nat BY <3>1
    <3>. QED BY <3>2 DEF NoCutoff
  <2>. DEFINE edge == CutoffTrades(k, NoCutoff)
  <2>5. Row(k) = [Complete(k) EXCEPT !.trades = @ - Cardinality(edge)]
    <3>. DEFINE key == <<k[1], k[2], k[3]>>
                lacks(c) == [Complete(key) EXCEPT !.trades = @ - Cardinality(CutoffTrades(key, c))]
    <3>1. k[3] * Length[k[1]] >= exact[k[1]] BY <2>3, <2>4
    <3>2. Row(key) = lacks(exact[k[1]]) BY Zenon, <2>2, <3>1 DEF Inv, WindowExact
    <3>3. Row(key) = lacks(NoCutoff)
      <4>. HIDE DEF key, lacks
      <4>. QED BY <2>3, <3>2
    <3>. QED BY Zenon, <2>2, <3>3
  <2>6. Cardinality(edge) = 0
    <3>1. \A i \in DOMAIN trades : trades[i] \in Trade BY DEF Inv, TypeOK
    <3>2. \A i \in DOMAIN trades : trades[i].ts # NoCutoff BY <3>1 DEF Trade, Times, NoCutoff
    <3>3. edge = {} BY <3>2 DEF CutoffTrades
    <3>. QED BY <3>3, FS_EmptySet
  <2>7. Complete(k) \in Rollup BY ContentsType DEF Inv, Complete
  <2>8. Row(k) = aggs[k] BY DEF Row
  <2>. HIDE DEF edge
  <2>. QED BY <2>5, <2>6, <2>7, <2>8 DEF Rollup
<1>. QED BY <1>1, <1>2, <1>3, Invariant, PTL DEF Spec
=============================================================================
