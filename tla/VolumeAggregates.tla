-------------------------- MODULE VolumeAggregates --------------------------
(***************************************************************************)
(* The hourly and daily rollups: refresh_volume_aggregates rebuilds the    *)
(* part of market_volume_aggregates that its window reaches.               *)
(*                                                                         *)
(* A refresher is one activation of run_maintenance.  Its connection reads *)
(* the snapshots, then the trades, each SELECT on its own, and deletes and *)
(* inserts in one transaction; other processes commit in between.  Rows    *)
(* are stored by the polls and the trade stream, late ones included.       *)
(* A tick of the clock stands for a second, the unit of every time stamp   *)
(* but a trade's, which has milliseconds when the provider gave it.        *)
(***************************************************************************)
EXTENDS Integers, Sequences, FiniteSets, FiniteSetsExt

CONSTANTS
    Refreshers,   \* concurrent activations
    Markets,
    Volumes,      \* values of volume_total (a NULL one is left out)
    Sizes,        \* the bucket sizes in the order run_maintenance takes them
    Length,       \* ticks per bucket of a size
    Since,        \* since_hours of a size, in ticks; 0 stands for None
    MaxDelay,     \* how long a row takes from its time stamp to its table
    MaxTime, MaxRows, MaxTrades  \* bounds: the clock; all rows, and the trades among them

Times == 0 .. MaxTime

ASSUME SetsAssumption ==
    IsFiniteSet(Refreshers) /\ IsFiniteSet(Markets) /\ Volumes \subseteq Nat
ASSUME SizesAssumption ==
    /\ \A i, k \in DOMAIN Sizes : Sizes[i] = Sizes[k] => i = k
    /\ \A i \in DOMAIN Sizes : Length[Sizes[i]] \in Nat \ {0} /\ Since[Sizes[i]] \in Nat
ASSUME BoundsAssumption ==
    MaxDelay \in Nat /\ MaxTime \in Nat /\ MaxRows \in Nat /\ MaxTrades \in Nat

VARIABLES
    now,        \* the clock
    snaps,      \* table market_snapshots: volume_total by market and observed_at
    trades,     \* table trades, row id = position
    aggs,       \* table market_volume_aggregates, by size, market and bucket
    refresher,  \* the locals of the activations
    exact       \* history: the cutoff of a size's last rebuild, while no row has
                \* been stored since it read; NotExact otherwise

vars == <<now, snaps, trades, aggs, refresher, exact>>

SizeNames == {Sizes[i] : i \in DOMAIN Sizes}
NoCutoff  == -1   \* the cutoff None: no WHERE clause
NotExact  == -2
Cutoffs   == Times \cup {NoCutoff}
NoValue   == -1   \* NULL of volume_total_open and volume_total_close

\* trade_ts: the second, and whether milliseconds follow it, as they do unless
\* the event had no time stamp and was given observed_at.
Trade     == [market : Markets, ts : Times, millis : BOOLEAN]
Rollup    == [snapshots : Nat, open : Volumes \cup {NoValue},
              close : Volumes \cup {NoValue}, trades : Nat]
Refresher == [pc : {"idle", "snapshots", "trades", "write"},
              turn : Nat,                       \* the position in Sizes
              cutoff : Cutoffs, snaps : SUBSET (Markets \X Times), trades : SUBSET Nat,
              missed : BOOLEAN]                 \* history: a row came after it read

Idle == [pc |-> "idle", turn |-> 0, cutoff |-> NoCutoff, snaps |-> {},
         trades |-> {}, missed |-> FALSE]

Init ==
    /\ now = 0
    /\ snaps = [k \in {} |-> 0]
    /\ trades = <<>>
    /\ aggs = [k \in {} |-> 0]
    /\ refresher = [r \in Refreshers |-> Idle]
    /\ exact = [size \in SizeNames |-> NotExact]
-----------------------------------------------------------------------------
(* The clock and the rows. *)

Tick ==
    /\ now < MaxTime
    /\ now' = now + 1
    /\ UNCHANGED <<snaps, trades, aggs, refresher, exact>>

Stamps == {t \in Times : t <= now /\ now - t <= MaxDelay}
NewRow ==
    /\ Cardinality(DOMAIN snaps) + Len(trades) < MaxRows
    /\ exact' = [size \in SizeNames |-> NotExact]
    /\ refresher' = [r \in Refreshers |->
          [refresher[r] EXCEPT !.missed = refresher[r].pc \in {"trades", "write"}]]
    /\ UNCHANGED <<now, aggs>>

\* A bundle stores a snapshot of a market it has none of in that second.
SaveSnapshot(m) ==
    /\ NewRow
    /\ \E t \in Stamps, volume \in Volumes :
         /\ <<m, t>> \notin DOMAIN snaps
         /\ snaps' = [k \in DOMAIN snaps \cup {<<m, t>>} |->
                        IF k = <<m, t>> THEN volume ELSE snaps[k]]
    /\ UNCHANGED trades

SaveTrade(m) ==
    /\ NewRow /\ Len(trades) < MaxTrades
    /\ \E t \in Stamps, millis \in BOOLEAN :
         trades' = Append(trades, [market |-> m, ts |-> t, millis |-> millis])
    /\ UNCHANGED snaps
-----------------------------------------------------------------------------
(* The rebuild. *)

\* _bucket_start, as the number of the bucket.
Bucket(size, t) == t \div Length[size]

\* _cutoff_iso, in whole seconds.  Without since_hours, and as long as the window
\* reaches back to the first time of the clock, everything is rebuilt.
Cutoff(size) == IF Since[size] \in 1 .. now THEN now - Since[size] ELSE NoCutoff

\* The rollup of a bucket over the snapshots and the trades given.
Contents(key, ss, ts) ==
    LET times == {k[2] : k \in {s \in ss : s[1] = key[2] /\ Bucket(key[1], s[2]) = key[3]}}
        value(t) == IF times = {} THEN NoValue ELSE snaps[key[2], t]
    IN  [snapshots |-> Cardinality(times),
         open      |-> value(IF times = {} THEN 0 ELSE Min(times)),
         close     |-> value(IF times = {} THEN 0 ELSE Max(times)),
         trades    |-> Cardinality({i \in ts : trades[i].market = key[2]
                                              /\ Bucket(key[1], trades[i].ts) = key[3]})]

\* Broken variant: the current bucket is made in any case.
KeysAndCurrent(size, ss, ts) ==
    {<<size, s[1], Bucket(size, s[2])>> : s \in ss}
    \cup {<<size, m, Bucket(size, now)>> : m \in Markets}

Keys(size, ss, ts) ==
    {<<size, s[1], Bucket(size, s[2])>> : s \in ss}
    \cup {<<size, trades[i].market, Bucket(size, trades[i].ts)>> : i \in ts}

\* Broken variant: the snapshots of the cutoff itself are left out.
SnapsAfter(cutoff) == {k \in DOMAIN snaps : k[2] > cutoff}

\* The rows a rebuild with this cutoff selects.
SnapsFrom(cutoff) == {k \in DOMAIN snaps : k[2] >= cutoff}

\* Time stamps are compared as strings, and "12:00:00.500Z" comes before
\* "12:00:00Z": the milliseconds put a trade of the cutoff's second before it.
TradesFrom(cutoff) == {i \in DOMAIN trades :
    trades[i].ts > cutoff \/ (trades[i].ts = cutoff /\ ~trades[i].millis)}

Goto(r, pc, next) ==
    /\ refresher[r].pc = pc
    /\ refresher' = [refresher EXCEPT ![r] = next]
    /\ UNCHANGED <<now, snaps, trades>>

\* The rebuild of the size at a turn begins: the cutoff is read.
Turn(turn) ==
    IF turn \in DOMAIN Sizes
    THEN [Idle EXCEPT !.pc = "snapshots", !.turn = turn, !.cutoff = Cutoff(Sizes[turn])]
    ELSE Idle

Begin(r) ==
    /\ Goto(r, "idle", Turn(1))
    /\ UNCHANGED <<aggs, exact>>

ReadSnapshots(r) ==
    /\ Goto(r, "snapshots", [refresher[r] EXCEPT !.pc = "trades",
                                                 !.snaps = SnapsFrom(refresher[r].cutoff)])
    /\ UNCHANGED <<aggs, exact>>

ReadTrades(r) ==
    /\ Goto(r, "trades", [refresher[r] EXCEPT !.pc = "write",
                                              !.trades = TradesFrom(refresher[r].cutoff)])
    /\ UNCHANGED <<aggs, exact>>

\* Broken variant of the DELETE: the cutoff, not its bucket, is compared.
DeletedAfterCutoff(size, cutoff, key) == key[1] = size /\ key[3] * Length[size] >= cutoff

\* The rows the DELETE picks, with a cutoff and without.
Deleted(size, cutoff, key) ==
    key[1] = size /\ (cutoff # NoCutoff => key[3] >= Bucket(size, cutoff))

Kept(me) == {k \in DOMAIN aggs : ~Deleted(Sizes[me.turn], me.cutoff, k)}
Made(me) == Keys(Sizes[me.turn], me.snaps, me.trades)

\* Broken variant: the counts are added to the ones of the row, as an upsert would.
TableAdded(me) ==
    [k \in Kept(me) \cup Made(me) |->
        IF k \notin Made(me) THEN aggs[k]
        ELSE LET made == Contents(k, me.snaps, me.trades)
             IN  IF k \notin DOMAIN aggs THEN made
                 ELSE [made EXCEPT !.snapshots = @ + aggs[k].snapshots,
                                   !.trades = @ + aggs[k].trades]]

Table(me) ==
    [k \in Kept(me) \cup Made(me) |->
        IF k \in Made(me) THEN Contents(k, me.snaps, me.trades) ELSE aggs[k]]

\* DELETE and INSERT in one transaction, which a taken key would undo; then the
\* next size.
Write(r) ==
    LET me == refresher[r]
    IN  /\ me.pc = "write"
        /\ Kept(me) \cap Made(me) = {}
        /\ aggs' = Table(me)
        /\ exact' = [exact EXCEPT ![Sizes[me.turn]] = IF me.missed THEN NotExact ELSE me.cutoff]
        /\ Goto(r, "write", Turn(me.turn + 1))

\* A statement fails or the process ends; the transaction is rolled back.
Fails(r) ==
    /\ refresher[r].pc # "idle"
    /\ Goto(r, refresher[r].pc, Idle)
    /\ UNCHANGED <<aggs, exact>>
-----------------------------------------------------------------------------
Runs(r) == Begin(r) \/ ReadSnapshots(r) \/ ReadTrades(r) \/ Write(r)

Next ==
    \/ Tick
    \/ \E m \in Markets : SaveSnapshot(m) \/ SaveTrade(m)
    \/ \E r \in Refreshers : Runs(r) \/ Fails(r)

Spec == Init /\ [][Next]_vars
-----------------------------------------------------------------------------
(* Properties. *)

TypeOK ==
    /\ now \in Times
    /\ DOMAIN snaps \subseteq Markets \X Times /\ \A k \in DOMAIN snaps : snaps[k] \in Volumes
    /\ trades \in Seq(Trade)
    /\ DOMAIN aggs \subseteq SizeNames \X Markets \X Times
    /\ \A k \in DOMAIN aggs : aggs[k] \in Rollup /\ aggs[k].snapshots + aggs[k].trades > 0
    /\ refresher \in [Refreshers -> Refresher]
    /\ exact \in [SizeNames -> Cutoffs \cup {NotExact}]

\* What a bucket would hold if it were computed from every row stored.
Complete(key) == Contents(key, DOMAIN snaps, DOMAIN trades)

\* No snapshot and no trade is counted twice, however rebuilds overlap: one may
\* write what it read long ago over what another has just written.
NeverOvercounts == \A k \in DOMAIN aggs :
    aggs[k].snapshots <= Complete(k).snapshots /\ aggs[k].trades <= Complete(k).trades

\* The INSERTs of a rebuild never meet a row its DELETE has left, also when
\* another rebuild with a later or an earlier cutoff has written meanwhile.
KeysAreFree ==
    \A r \in Refreshers : refresher[r].pc = "write" => Kept(refresher[r]) \cap Made(refresher[r]) = {}

\* The row of a bucket, with nothing in it where none is stored.
NoRow  == [snapshots |-> 0, open |-> NoValue, close |-> NoValue, trades |-> 0]
Row(k) == IF k \in DOMAIN aggs THEN aggs[k] ELSE NoRow

\* The trades of a bucket that lie in the cutoff's own second, by milliseconds.
CutoffTrades(k, cutoff) == {i \in DOMAIN trades :
    /\ trades[i].market = k[2] /\ Bucket(k[1], trades[i].ts) = k[3]
    /\ trades[i].ts = cutoff /\ trades[i].millis}

\* After a rebuild that missed no row, the buckets that begin inside its window
\* are those of the complete tables, and there are no others; only one that
\* begins with the cutoff lacks the trades of that second.
WindowExact ==
    \A size \in SizeNames : exact[size] # NotExact =>
        \A m \in Markets, b \in Times :
            b * Length[size] >= exact[size] =>
                LET k == <<size, m, b>>
                IN  Row(k) = [Complete(k) EXCEPT
                                !.trades = @ - Cardinality(CutoffTrades(k, exact[size]))]

\* Broken variant: the volume before the bucket is counted.
DeltaFromZero(k) == aggs[k].close

\* volume_total_delta of a row
Delta(k) == IF aggs[k].close > aggs[k].open THEN aggs[k].close - aggs[k].open ELSE 0

\* While the snapshots of a market never fall, the deltas of its buckets add up
\* to no more than it has traded between the first and the last of them, also
\* when the buckets were written by different rebuilds.
DeltasWithinGrowth ==
    \A m \in Markets, size \in SizeNames :
        LET times == {t \in Times : <<m, t>> \in DOMAIN snaps}
            kept  == {k \in DOMAIN aggs : k[1] = size /\ k[2] = m}
        IN  times # {} /\ (\A s, t \in times : s <= t => snaps[m, s] <= snaps[m, t]) =>
                MapThenSumSet(Delta, kept) <= snaps[m, Max(times)] - snaps[m, Min(times)]

\* The rollups combine the snapshots and the trades of an hour or a day (data
\* dictionary): a bucket of an undisturbed rebuild has all of its snapshots.
RollupsComplete ==
    \A k \in DOMAIN aggs :
        exact[k[1]] # NotExact => aggs[k].snapshots = Complete(k).snapshots
=============================================================================
