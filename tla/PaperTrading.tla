---------------------------- MODULE PaperTrading ----------------------------
(***************************************************************************)
(* Weather paper trading: `pwmk weather scan` places paper orders, `pwmk   *)
(* weather sync-settlements` records how their markets ended.              *)
(*                                                                         *)
(* Every command is a process of its own over the shared database, so any  *)
(* number of scans and syncs overlap; their steps are the requests they    *)
(* await and the transactions they commit.  Tables that nothing reads back *)
(* (specs, forecasts, order books) and the market rows, which Ingestion    *)
(* models, are left out; titles, prices and stakes are WeatherScan's, the  *)
(* scan in full, which implements the scan of this module.                 *)
(***************************************************************************)
EXTENDS Naturals, Sequences, FiniteSets, FiniteSetsExt

CONSTANTS
    Scans, Syncs,  \* processes of each command that may run at a time
    Markets,       \* weather markets with a conditionId (a scan skips the others)
    NoMarket,      \* before the first
    ScanSources,   \* the values --source of scan takes
    ScanLimit,     \* --limit of scan
    SyncLimit,     \* --limit of sync-settlements
    MaxSignals,    \* bound: rows of weather_signals
    MaxReversals,  \* bound: reversals of a decisive price
    MaxFailures    \* bound: failures of a sync

ASSUME MarketsAssumption == IsFiniteSet(Markets) /\ NoMarket \notin Markets
ASSUME SourcesAssumption == ScanSources \subseteq {"keyword", "both", "weather-tag"}
ASSUME LimitsAssumption ==
    ScanLimit \in Nat /\ SyncLimit \in Nat /\ MaxSignals \in Nat
    /\ MaxReversals \in Nat /\ MaxFailures \in Nat

VARIABLES
    world,        \* the provider's markets: closed, and the outcomes priced >= 0.99
    scan, sync,   \* the locals of the processes
    signals,      \* table weather_signals, row id = position
    orders,       \* table weather_paper_orders, row id = position
    settlements,  \* table market_settlements: the winning outcome of a market
    decided,      \* history: what each closed market was ever priced to
    reversals, failures  \* counters for the bounds

env  == <<world, decided, reversals>>
db   == <<signals, orders, settlements>>
vars == <<env, scan, sync, db, failures>>

Outcomes == {"Yes", "No"}
Requests == {"keyword", "weather-tag"}

Market  == [closed : BOOLEAN, decisive : {{}} \cup {{o} : o \in Outcomes}]
Signal  == [market : Markets, side : Outcomes]
Order   == [signal : Nat, market : Markets, side : Outcomes,
            status : {"open", "settled"},
            late : BOOLEAN]   \* history: its market had closed when it was placed
Listing == [market : Markets, decisive : SUBSET Outcomes]
Entry   == Markets \X Requests
Scan    == [pc : {"idle", "keyword", "both", "weather-tag", "next", "quote", "order"},
            todo : SUBSET Entry,
            market : Markets \cup {NoMarket}, side : Outcomes, signal : Nat,
            done : SUBSET Markets]   \* history: the markets this scan has taken up
Sync    == [pc : {"idle", "recent", "fetch", "settle"},
            todo : SUBSET Markets, got : SUBSET Listing]

IdleScan == [pc |-> "idle", todo |-> {},
             market |-> NoMarket, side |-> "Yes", signal |-> 0, done |-> {}]
IdleSync == [pc |-> "idle", todo |-> {}, got |-> {}]

Init ==
    /\ world = [m \in Markets |-> [closed |-> FALSE, decisive |-> {}]]
    /\ scan = [j \in Scans |-> IdleScan]
    /\ sync = [j \in Syncs |-> IdleSync]
    /\ signals = <<>> /\ orders = <<>>
    /\ settlements = [m \in {} |-> "Yes"]
    /\ decided = {} /\ reversals = 0 /\ failures = 0
-----------------------------------------------------------------------------
(* The provider: a market closes, its prices become decisive, and while the *)
(* resolution is disputed they may turn. *)

Prices(m, decisive) ==
    /\ world' = [world EXCEPT ![m] = [closed |-> TRUE, decisive |-> decisive]]
    /\ decided' = decided \cup ({m} \X decisive)
    /\ UNCHANGED <<scan, sync, db, failures>>

Closes(m) ==
    /\ ~world[m].closed
    /\ \E won \in {{}, {"Yes"}, {"No"}} : Prices(m, won)
    /\ UNCHANGED reversals

Decides(m) ==
    /\ world[m].closed /\ world[m].decisive = {}
    /\ \E o \in Outcomes : Prices(m, {o})
    /\ UNCHANGED reversals

Reverses(m) ==
    /\ world[m].decisive # {} /\ reversals < MaxReversals
    /\ Prices(m, Outcomes \ world[m].decisive)
    /\ reversals' = reversals + 1
-----------------------------------------------------------------------------
(* weather scan *)

ScanStep(j, pc, next) ==
    /\ scan[j].pc = pc
    /\ scan' = [scan EXCEPT ![j] = next]
    /\ UNCHANGED <<env, sync, failures>>

\* --source: which of the two requests the scan makes.
StartScan(j) ==
    /\ \E source \in ScanSources :
         ScanStep(j, "idle", [IdleScan EXCEPT !.pc = source])
    /\ UNCHANGED db

Open == {m \in Markets : ~world[m].closed}

\* The first `limit` active markets, of which the keywords keep some.
FetchKeyword(j) ==
    /\ \E ms \in SUBSET Open :
         /\ Cardinality(ms) <= ScanLimit
         /\ LET listed == [scan[j] EXCEPT !.todo = ms \X {"keyword"}]
            IN  \/ ScanStep(j, "keyword", [listed EXCEPT !.pc = "next"])
                \/ ScanStep(j, "both", [listed EXCEPT !.pc = "weather-tag"])
    /\ UNCHANGED db

\* Broken variant: the two lists are concatenated as they came.
KeepAll(entries) == entries

\* _dedupe_markets: the first entry of a market stays.
Deduped(entries) ==
    {e \in entries : e[2] = "weather-tag" => <<e[1], "keyword">> \notin entries}

\* The markets of the first `limit` open events tagged weather, a second
\* request; a market of an open event may have closed.
FetchTagged(j) ==
    /\ \E ms \in SUBSET Markets :
         ScanStep(j, "weather-tag",
            [scan[j] EXCEPT !.todo = Deduped(@ \cup (ms \X {"weather-tag"})), !.pc = "next"])
    /\ UNCHANGED db

\* Back to the head of the loop.
Leave(j) == [scan[j] EXCEPT !.pc = "next", !.market = NoMarket, !.side = "Yes", !.signal = 0]

\* The loop takes up a market (the order of the list is left out) and skips it,
\* or not: title, location, confidence, event date, tokens.
TakeUp(j) ==
    /\ \E e \in scan[j].todo :
         LET taken == [scan[j] EXCEPT !.todo = @ \ {e}, !.done = @ \cup {e[1]}]
         IN  \/ ScanStep(j, "next", taken)
             \/ ScanStep(j, "next", [taken EXCEPT !.market = e[1], !.pc = "quote"])
    /\ UNCHANGED db

\* A request for the forecast or the books fails, or build_signal finds nothing.
NoSignal(j) ==
    /\ ScanStep(j, "quote", Leave(j))
    /\ UNCHANGED db

\* build_signal picks a side and save_weather_signal stores it.
StoreSignal(j, side, id) ==
    /\ Len(signals) < MaxSignals
    /\ \/ ScanStep(j, "quote", [scan[j] EXCEPT !.pc = "order", !.side = side, !.signal = id])
       \/ ScanStep(j, "quote", Leave(j))   \* --no-paper
    /\ signals' = Append(signals, [market |-> scan[j].market, side |-> side])
    /\ UNCHANGED <<orders, settlements>>

\* Broken variant: lastrowid is read before the INSERT.
SaveSignalStaleId(j, side) == StoreSignal(j, side, Len(signals))

SaveSignal(j, side) == StoreSignal(j, side, Len(signals) + 1)

PlaceOrder(j, signal) ==
    /\ ScanStep(j, "order", Leave(j))
    /\ orders' = Append(orders,
         [signal |-> signal, market |-> scan[j].market, side |-> scan[j].side,
          status |-> "open", late |-> world[scan[j].market].closed])
    /\ UNCHANGED <<signals, settlements>>

\* Broken variant: the newest signal is taken for the scan's own.
SaveOrderOfNewest(j) == PlaceOrder(j, Len(signals))

\* save_weather_signal and save_weather_paper_order are two transactions.
SaveOrder(j) == PlaceOrder(j, scan[j].signal)

\* The list is done, an error nobody handles ends the command, or it is killed.
EndScan(j) ==
    /\ scan[j].pc # "idle"
    /\ ScanStep(j, scan[j].pc, IdleScan)
    /\ UNCHANGED db
-----------------------------------------------------------------------------
(* weather sync-settlements *)

Ordered == {orders[i].market : i \in DOMAIN orders}

\* The order of created_at: a market comes at its first order.
FirstOrder(m) == Min({i \in DOMAIN orders : orders[i].market = m})

\* Broken variant: the limit is one short.
UnsettledOneLess(limit) ==
    LET waiting == Ordered \ DOMAIN settlements
    IN  {m \in waiting :
           Cardinality({n \in waiting : FirstOrder(n) < FirstOrder(m)}) < limit - 1}

\* unsettled_weather_condition_ids: ordered markets without a settlement, the
\* oldest `limit` of them.
Unsettled(limit) ==
    LET waiting == Ordered \ DOMAIN settlements
    IN  {m \in waiting :
           Cardinality({n \in waiting : FirstOrder(n) < FirstOrder(m)}) < limit}

\* What is left to do: fetch, then settle, then nothing.
Continue(todo, got) ==
    [pc |-> IF todo # {} THEN "fetch" ELSE IF got # {} THEN "settle" ELSE "idle",
     todo |-> todo, got |-> got]

SyncStep(j, pc, next) ==
    /\ sync[j].pc = pc
    /\ sync' = [sync EXCEPT ![j] = next]
    /\ UNCHANGED <<env, scan, signals>>

StartSync(j) ==
    /\ SyncStep(j, "idle", Continue(Unsettled(SyncLimit), {}))
    /\ UNCHANGED <<orders, settlements, failures>>

\* --recent-closed
StartRecent(j) ==
    /\ SyncStep(j, "idle", [IdleSync EXCEPT !.pc = "recent"])
    /\ UNCHANGED <<orders, settlements, failures>>

Closed == {m \in Markets : world[m].closed}
View(m) == [market |-> m, decisive |-> world[m].decisive]

\* fetch_closed_markets: up to `limit` closed markets, by updatedAt.
FetchRecent(j) ==
    /\ \E ms \in SUBSET Closed :
         /\ Cardinality(ms) <= SyncLimit
         /\ SyncStep(j, "recent", Continue({}, {View(m) : m \in ms}))
    /\ UNCHANGED <<orders, settlements, failures>>

\* fetch_closed_market_by_condition, one request per market; the answers are
\* kept until the last has come.
FetchClosed(j) ==
    /\ \E m \in sync[j].todo :
         SyncStep(j, "fetch", Continue(sync[j].todo \ {m},
                                       sync[j].got \cup {View(n) : n \in {m} \cap Closed}))
    /\ UNCHANGED <<orders, settlements, failures>>

\* Broken variant: a closed market without a decisive price goes to the first.
InferAnyway(view) == IF view.decisive = {"No"} THEN {"No"} ELSE {"Yes"}

\* infer_market_settlement: exactly one outcome at 0.99 or more.
Infer(view) == IF Cardinality(view.decisive) = 1 THEN view.decisive ELSE {}

\* Broken variant of the UPDATE: it settles the newest order only.
SettleNewest(m, os) ==
    [i \in DOMAIN os |->
        IF os[i].market = m /\ \A k \in DOMAIN os : os[k].market = m => k <= i
        THEN [os[i] EXCEPT !.status = "settled"] ELSE os[i]]

SettleOrders(m, os) ==
    [i \in DOMAIN os |->
        IF os[i].market = m THEN [os[i] EXCEPT !.status = "settled"] ELSE os[i]]

\* save_market_settlement: one transaction; an undecided market is skipped.
Settle(j) ==
    /\ \E view \in sync[j].got :
         /\ SyncStep(j, "settle", Continue({}, sync[j].got \ {view}))
         /\ IF Infer(view) = {} THEN UNCHANGED <<orders, settlements>>
            ELSE /\ settlements' = [m \in DOMAIN settlements \cup {view.market} |->
                       IF m = view.market THEN CHOOSE o \in Outcomes : o \in Infer(view)
                       ELSE settlements[m]]
                 /\ orders' = SettleOrders(view.market, orders)
    /\ UNCHANGED failures

\* A request or a transaction raises: the command ends with what it has saved.
RaiseSync(j) ==
    /\ sync[j].pc # "idle" /\ failures < MaxFailures
    /\ failures' = failures + 1
    /\ SyncStep(j, sync[j].pc, IdleSync)
    /\ UNCHANGED <<orders, settlements>>
-----------------------------------------------------------------------------
SyncRuns(j) == FetchRecent(j) \/ FetchClosed(j) \/ Settle(j)

Next ==
    \/ \E m \in Markets : Closes(m) \/ Decides(m) \/ Reverses(m)
    \/ \E j \in Scans :
         \/ StartScan(j) \/ FetchKeyword(j) \/ FetchTagged(j) \/ TakeUp(j) \/ NoSignal(j)
         \/ \E side \in Outcomes : SaveSignal(j, side)
         \/ SaveOrder(j) \/ EndScan(j)
    \/ \E j \in Syncs : StartSync(j) \/ StartRecent(j) \/ SyncRuns(j) \/ RaiseSync(j)

Spec == Init /\ [][Next]_vars

\* Someone runs sync-settlements again and again, --recent-closed or not; every
\* request has a timeout, and at most MaxFailures of them fail.
FairSpec == Spec /\ \A j \in Syncs : SF_vars(StartSync(j)) /\ WF_vars(SyncRuns(j))
-----------------------------------------------------------------------------
(* Properties. *)

TypeOK ==
    /\ world \in [Markets -> Market]
    /\ scan \in [Scans -> Scan] /\ sync \in [Syncs -> Sync]
    /\ signals \in Seq(Signal)
    /\ orders \in Seq(Order) /\ \A i \in DOMAIN orders : orders[i].signal \in DOMAIN signals
    /\ DOMAIN settlements \subseteq Markets
    /\ \A m \in DOMAIN settlements : settlements[m] \in Outcomes
    /\ decided \subseteq Markets \X Outcomes
    /\ reversals \in 0 .. MaxReversals /\ failures \in 0 .. MaxFailures

\* An order is scored with the probability it was placed on: its signal is of
\* its own market and side, and no two orders share one, however many scans
\* save signals between a scan's two transactions.
OrdersMatchSignals ==
    /\ \A i \in DOMAIN orders :
          LET s == signals[orders[i].signal]
          IN  s.market = orders[i].market /\ s.side = orders[i].side
    /\ \A i, k \in DOMAIN orders : orders[i].signal = orders[k].signal => i = k

\* A settlement is an outcome the provider priced decisively on the closed
\* market, never a guess on an undecided one.
SettlementsWereDecided == \A m \in DOMAIN settlements : <<m, settlements[m]>> \in decided

\* The status column: a settled order has a settlement, and an order is left
\* open on a settled market only if it was placed after the market had closed
\* (a scan that took the market up earlier, or an open event that lists it).
StatusFollowsSettlement ==
    \A i \in DOMAIN orders :
        /\ orders[i].status = "settled" => orders[i].market \in DOMAIN settlements
        /\ orders[i].status = "open" /\ orders[i].market \in DOMAIN settlements
              => orders[i].late

\* One scan takes a market up once, though two requests may list it: its
\* orders on a market stay within max_market_usd per scan.
ScanNeverRepeats == \A j \in Scans : \A e \in scan[j].todo : e[1] \notin scan[j].done

\* Settlements are fetched for the paper-traded markets once they close
\* (README, sync-settlements): a decided market with an order gets its own.
\* True when the limit covers the markets that wait.
DecidedGetsSettled ==
    \A m \in Markets :
        (m \in Ordered /\ world[m].decisive # {}) ~> m \in DOMAIN settlements
=============================================================================
