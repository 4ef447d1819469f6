------------------------- MODULE PaperTradingProofs -------------------------
(***************************************************************************)
(* Theorems about PaperTrading for any number of scans, syncs and markets, *)
(* any limits, and any number of reversals and failures.                   *)
(***************************************************************************)
EXTENDS PaperTrading, FiniteSetTheorems, SequenceTheorems, WellFoundedInduction, TLAPS

(* The inductive invariant: TypeOK with the three parts that follow. *)

\* Between its two transactions a scan holds the row of its own signal, which
\* no order has yet and no other scan holds.
ScanInv ==
    /\ \A j \in Scans : scan[j].pc \in {"quote", "order"} => scan[j].market \in Markets
    /\ \A j \in Scans : scan[j].pc = "order" =>
          /\ scan[j].signal \in DOMAIN signals
          /\ signals[scan[j].signal] = [market |-> scan[j].market, side |-> scan[j].side]
          /\ \A i \in DOMAIN orders : orders[i].signal # scan[j].signal
    /\ \A j, k \in Scans : scan[j].pc = "order" /\ scan[k].pc = "order"
                              /\ scan[j].signal = scan[k].signal => j = k

\* The list of a scan names a market once, and is complete before its first
\* market is taken up.
ListInv == \A j \in Scans :
    /\ scan[j].pc \in {"keyword", "both", "weather-tag"} => scan[j].done = {}
    /\ \A e, f \in scan[j].todo : e[1] = f[1] => e = f

\* What was ever seen of a price is in the history: a closed market stays so,
\* and an answer kept by a sync was true when it came.
Seen(m, decisive) == world[m].closed /\ \A o \in decisive : <<m, o>> \in decided

PriceInv ==
    /\ \A m \in Markets : world[m].decisive # {} => Seen(m, world[m].decisive)
    /\ \A j \in Syncs : \A v \in sync[j].got : Seen(v.market, v.decisive)
    /\ \A m \in DOMAIN settlements : world[m].closed
-----------------------------------------------------------------------------
(* Types of the locals. *)

LEMMA IdleTypes == IdleScan \in Scan /\ IdleSync \in Sync
  BY SMTT(30) DEF IdleScan, IdleSync, Scan, Sync, Outcomes

\* What a scan may become, action by action.
LEMMA ScanTypes ==
  ASSUME NEW g \in Scan
  PROVE  /\ \A pc \in {"idle", "keyword", "both", "weather-tag", "next", "quote", "order"} :
               /\ [IdleScan EXCEPT !.pc = pc] \in Scan
               /\ \A todo \in SUBSET Entry : [g EXCEPT !.todo = todo, !.pc = pc] \in Scan
         /\ [g EXCEPT !.pc = "next", !.market = NoMarket, !.side = "Yes", !.signal = 0] \in Scan
         /\ \A side \in Outcomes, id \in Nat :
               [g EXCEPT !.pc = "order", !.side = side, !.signal = id] \in Scan
         /\ \A e \in Entry :
               LET taken == [g EXCEPT !.todo = @ \ {e}, !.done = @ \cup {e[1]}]
               IN  taken \in Scan /\ [taken EXCEPT !.market = e[1], !.pc = "quote"] \in Scan
<1>1. /\ \A pc \in {"idle", "keyword", "both", "weather-tag", "next", "quote", "order"} :
               /\ [IdleScan EXCEPT !.pc = pc] \in Scan
               /\ \A todo \in SUBSET Entry : [g EXCEPT !.todo = todo, !.pc = pc] \in Scan
  BY Zenon, IdleTypes DEF Scan
<1>2. [g EXCEPT !.pc = "next", !.market = NoMarket, !.side = "Yes", !.signal = 0] \in Scan
  BY DEF Scan, Outcomes
<1>3. ASSUME NEW side \in Outcomes, NEW id \in Nat
      PROVE  [g EXCEPT !.pc = "order", !.side = side, !.signal = id] \in Scan
  BY DEF Scan
<1>4. ASSUME NEW e \in Entry
      PROVE  LET taken == [g EXCEPT !.todo = @ \ {e}, !.done = @ \cup {e[1]}]
             IN  taken \in Scan /\ [taken EXCEPT !.market = e[1], !.pc = "quote"] \in Scan
  <2>1. e[1] \in Markets BY DEF Entry
  <2>. QED BY <2>1 DEF Scan
<1>. QED BY ZenonT(60), <1>1, <1>2, <1>3, <1>4

LEMMA ContinueType ==
  ASSUME NEW todo \in SUBSET Markets, NEW got \in SUBSET Listing
  PROVE  Continue(todo, got) \in Sync /\ Continue(todo, got).got = got
  BY DEF Continue, Sync

\* One step of one scan, and of one sync: the others keep their locals.
LEMMA ScanStepEffect ==
  ASSUME TypeOK, NEW j \in Scans, NEW pc, NEW next \in Scan, ScanStep(j, pc, next)
  PROVE  /\ scan' \in [Scans -> Scan]
         /\ scan[j].pc = pc /\ scan'[j] = next
         /\ \A k \in Scans \ {j} : scan'[k] = scan[k]
         /\ UNCHANGED <<world, decided, reversals, sync, failures>>
  BY DEF TypeOK, ScanStep, env

LEMMA SyncStepEffect ==
  ASSUME TypeOK, NEW j \in Syncs, NEW pc, NEW next \in Sync, SyncStep(j, pc, next)
  PROVE  /\ sync' \in [Syncs -> Sync]
         /\ sync[j].pc = pc /\ sync'[j] = next
         /\ \A k \in Syncs \ {j} : sync'[k] = sync[k]
         /\ UNCHANGED <<world, decided, reversals, scan, signals>>
  BY DEF TypeOK, SyncStep, env
-----------------------------------------------------------------------------
(* The provider. *)

\* A price change closes its market and is entered in the history.
LEMMA PricesEffect ==
  ASSUME TypeOK, NEW m \in Markets, Closes(m) \/ Decides(m) \/ Reverses(m)
  PROVE  /\ TypeOK'
         /\ UNCHANGED <<scan, sync, signals, orders, settlements>>
         /\ decided \subseteq decided'
         /\ \A n \in Markets : world[n].closed => world'[n].closed
         /\ \A n \in Markets :
               \/ world'[n] = world[n]
               \/ world'[n].closed /\ \A o \in world'[n].decisive : <<n, o>> \in decided'
<1>1. PICK won \in {{}, {"Yes"}, {"No"}} :
         Prices(m, won) /\ reversals' \in 0 .. MaxReversals
  <2>1. CASE Closes(m) BY <2>1 DEF Closes, TypeOK
  <2>2. CASE Decides(m) BY <2>2 DEF Decides, TypeOK, Outcomes
  <2>3. CASE Reverses(m)
    <3>1. world[m].decisive \in {{"Yes"}, {"No"}}
      BY <2>3 DEF Reverses, TypeOK, Market, Outcomes
    <3>2. Outcomes \ world[m].decisive \in {{"Yes"}, {"No"}} BY <3>1 DEF Outcomes
    <3>3. reversals' \in 0 .. MaxReversals
      BY <2>3, LimitsAssumption DEF Reverses, TypeOK
    <3>. QED BY <2>3, <3>2, <3>3 DEF Reverses
  <2>. QED BY <2>1, <2>2, <2>3
<1>2. world' = [world EXCEPT ![m] = [closed |-> TRUE, decisive |-> won]]
      /\ decided' = decided \cup ({m} \X won)
      /\ UNCHANGED <<scan, sync, signals, orders, settlements, failures>>
  BY <1>1 DEF Prices, db
<1>3. [closed |-> TRUE, decisive |-> won] \in Market BY DEF Market, Outcomes
<1>4. world' \in [Markets -> Market] BY <1>2, <1>3 DEF TypeOK
<1>5. decided' \subseteq Markets \X Outcomes BY <1>2 DEF TypeOK, Outcomes
<1>6. TypeOK' BY <1>1, <1>2, <1>4, <1>5 DEF TypeOK
<1>7. /\ world'[m] = [closed |-> TRUE, decisive |-> won]
      /\ \A n \in Markets \ {m} : world'[n] = world[n]
  BY <1>2 DEF TypeOK
<1>. QED BY <1>2, <1>6, <1>7
-----------------------------------------------------------------------------
(* The scans. *)

\* A step of a scan that writes nothing, and its effect on the scan's locals.
Reads(j) ==
    StartScan(j) \/ FetchKeyword(j) \/ FetchTagged(j) \/ TakeUp(j) \/ NoSignal(j) \/ EndScan(j)

LEMMA DedupedOnce ==
  ASSUME NEW entries \in SUBSET Entry, NEW e \in Deduped(entries), NEW f \in Deduped(entries),
         e[1] = f[1]
  PROVE  e = f
<1>1. e \in entries /\ f \in entries /\ e = <<e[1], e[2]>> /\ f = <<f[1], f[2]>>
      /\ e[2] \in Requests /\ f[2] \in Requests
  BY DEF Deduped, Entry
<1>. QED BY <1>1 DEF Deduped, Requests

\* The step keeps a list without repetitions, takes up no market again, and
\* comes to no signal.
LEMMA ReadsEffect ==
  ASSUME TypeOK, ListInv, NEW j \in Scans, Reads(j)
  PROVE  /\ ScanStep(j, scan[j].pc, scan'[j]) /\ scan'[j] \in Scan /\ UNCHANGED db
         /\ scan'[j].pc # "order"
         /\ scan'[j].pc = "quote" => scan'[j].market \in Markets
         /\ scan'[j].pc \in {"keyword", "both", "weather-tag"} => scan'[j].done = {}
         /\ \A e, f \in scan'[j].todo : e[1] = f[1] => e = f
         /\ (\A e \in scan[j].todo : e[1] \notin scan[j].done)
                 => \A e \in scan'[j].todo : e[1] \notin scan'[j].done
<1>. DEFINE g == scan[j]
<1>0. g \in Scan /\ g.todo \subseteq Entry BY SMTT(30) DEF TypeOK, Scan
<1>1. UNCHANGED db
  BY Zenon DEF Reads, StartScan, FetchKeyword, FetchTagged, TakeUp, NoSignal, EndScan
<1>2. ASSUME NEW pc, NEW next \in Scan, ScanStep(j, pc, next)
      PROVE  scan'[j] = next /\ g.pc = pc /\ ScanStep(j, g.pc, scan'[j])
  BY <1>2, ScanStepEffect
<1>3. CASE StartScan(j)
  <2>1. PICK source \in ScanSources : ScanStep(j, "idle", [IdleScan EXCEPT !.pc = source])
    BY <1>3 DEF StartScan
  <2>. DEFINE next == [IdleScan EXCEPT !.pc = source]
  <2>2. source \in {"keyword", "both", "weather-tag"} BY SourcesAssumption
  <2>3. next \in Scan BY Zenon, <1>0, <2>2, ScanTypes
  <2>4. next.pc = source /\ next.todo = {} /\ next.done = {} BY DEF IdleScan
  <2>. HIDE DEF next
  <2>5. scan'[j] = next /\ ScanStep(j, g.pc, scan'[j])
    <3>. USE DEF next
    <3>. QED BY <2>1, <2>3, <1>2
  <2>. QED BY <1>1, <2>2, <2>3, <2>4, <2>5
<1>4. CASE FetchKeyword(j)
  <2>1. PICK ms \in SUBSET Open, pc \in {"keyword", "both"}, to \in {"next", "weather-tag"} :
          ScanStep(j, pc, [[g EXCEPT !.todo = ms \X {"keyword"}] EXCEPT !.pc = to])
    BY Zenon, <1>4 DEF FetchKeyword
  <2>. DEFINE todo == ms \X {"keyword"}
              next == [g EXCEPT !.todo = todo, !.pc = to]
  <2>2. todo \in SUBSET Entry /\ g.pc = pc BY <2>1 DEF Open, Entry, Requests, ScanStep
  <2>3. ScanStep(j, pc, next) BY <1>0, <2>1 DEF Scan
  <2>4. next \in Scan BY Zenon, <1>0, <2>2, ScanTypes
  <2>5. g.done = {} BY <2>1, <2>2 DEF ListInv
  <2>6. next.pc = to /\ next.todo = todo /\ next.done = {} BY <1>0, <2>5 DEF Scan
  <2>7. \A e, f \in todo : e[1] = f[1] => e = f OBVIOUS
  <2>. HIDE DEF todo, next
  <2>8. scan'[j] = next /\ ScanStep(j, g.pc, scan'[j]) BY <2>3, <2>4, <1>2
  <2>. QED BY SMTT(30), <1>1, <2>4, <2>6, <2>7, <2>8
<1>5. CASE FetchTagged(j)
  <2>1. PICK ms \in SUBSET Markets :
          ScanStep(j, "weather-tag",
            [g EXCEPT !.todo = Deduped(@ \cup (ms \X {"weather-tag"})), !.pc = "next"])
    BY Zenon, <1>5 DEF FetchTagged
  <2>. DEFINE all == g.todo \cup (ms \X {"weather-tag"})
              next == [g EXCEPT !.todo = Deduped(all), !.pc = "next"]
  <2>2. all \in SUBSET Entry /\ Deduped(all) \in SUBSET Entry
    BY <1>0 DEF Entry, Requests, Deduped
  <2>3. ScanStep(j, "weather-tag", next) /\ g.pc = "weather-tag"
    BY <1>0, <2>1 DEF Scan, ScanStep
  <2>4. next \in Scan BY Zenon, <1>0, <2>2, ScanTypes
  <2>5. g.done = {} BY <2>3 DEF ListInv
  <2>6. next.pc = "next" /\ next.todo = Deduped(all) /\ next.done = {}
    BY <1>0, <2>5 DEF Scan
  <2>7. \A e, f \in Deduped(all) : e[1] = f[1] => e = f BY <2>2, DedupedOnce
  <2>. HIDE DEF all, next
  <2>8. scan'[j] = next /\ ScanStep(j, g.pc, scan'[j]) BY <2>3, <2>4, <1>2
  <2>. QED BY <1>1, <2>4, <2>6, <2>7, <2>8
<1>6. CASE TakeUp(j)
  <2>1. PICK e \in g.todo :
          LET taken == [g EXCEPT !.todo = @ \ {e}, !.done = @ \cup {e[1]}]
          IN  \/ ScanStep(j, "next", taken)
              \/ ScanStep(j, "next", [taken EXCEPT !.market = e[1], !.pc = "quote"])
    BY Zenon, <1>6 DEF TakeUp
  <2>. DEFINE taken == [g EXCEPT !.todo = @ \ {e}, !.done = @ \cup {e[1]}]
              asked == [taken EXCEPT !.market = e[1], !.pc = "quote"]
  <2>2. e \in Entry /\ e[1] \in Markets BY <1>0 DEF Entry
  <2>3. taken \in Scan /\ asked \in Scan BY Zenon, <1>0, <2>2, ScanTypes
  <2>4. g.pc = "next" BY <2>1 DEF ScanStep
  <2>5. /\ taken.pc = "next" /\ asked.pc = "quote" /\ asked.market = e[1]
        /\ taken.todo = g.todo \ {e} /\ taken.done = g.done \cup {e[1]}
        /\ asked.todo = g.todo \ {e} /\ asked.done = g.done \cup {e[1]}
    BY <1>0, <2>4 DEF Scan
  <2>6. ScanStep(j, "next", taken) \/ ScanStep(j, "next", asked) BY <2>1
  <2>. HIDE DEF taken, asked
  <2>7. scan'[j] \in {taken, asked} /\ ScanStep(j, g.pc, scan'[j]) BY <2>3, <2>6, <1>2
  <2>8. /\ scan'[j] \in Scan /\ scan'[j].pc \in {"next", "quote"}
        /\ scan'[j].pc = "quote" => scan'[j].market \in Markets
        /\ scan'[j].todo = g.todo \ {e} /\ scan'[j].done = g.done \cup {e[1]}
    BY <2>2, <2>3, <2>5, <2>7
  <2>9. /\ \A d, f \in scan'[j].todo : d[1] = f[1] => d = f
        /\ \A f \in scan'[j].todo : f[1] # e[1]
    BY <2>8 DEF ListInv
  <2>. QED BY SMTT(30), <1>1, <2>7, <2>8, <2>9
<1>7. CASE NoSignal(j)
  <2>. DEFINE next == Leave(j)
  <2>1. next \in Scan BY Zenon, <1>0, ScanTypes DEF Leave
  <2>2. next.pc = "next" /\ next.todo = g.todo /\ next.done = g.done
    BY <1>0 DEF Leave, Scan
  <2>3. ScanStep(j, "quote", next) BY <1>7 DEF NoSignal
  <2>. HIDE DEF next
  <2>4. scan'[j] = next /\ ScanStep(j, g.pc, scan'[j]) BY <2>1, <2>3, <1>2
  <2>. QED BY <1>1, <2>1, <2>2, <2>4 DEF ListInv
<1>8. CASE EndScan(j)
  <2>1. scan'[j] = IdleScan /\ ScanStep(j, g.pc, scan'[j])
    BY <1>8, <1>2, IdleTypes DEF EndScan
  <2>2. IdleScan.pc = "idle" /\ IdleScan.todo = {} BY DEF IdleScan
  <2>. QED BY <1>1, <2>1, <2>2, IdleTypes
<1>. QED BY <1>3, <1>4, <1>5, <1>6, <1>7, <1>8 DEF Reads

\* A signal row is appended, and its id and side are the scan's.
LEMMA SaveSignalEffect ==
  ASSUME TypeOK, ScanInv, NEW j \in Scans, NEW side \in Outcomes, SaveSignal(j, side)
  PROVE  /\ ScanStep(j, "quote", scan'[j]) /\ scan'[j] \in Scan
         /\ scan[j].market \in Markets
         /\ signals' = Append(signals, [market |-> scan[j].market, side |-> side])
         /\ UNCHANGED <<orders, settlements>>
         /\ scan'[j].todo = scan[j].todo /\ scan'[j].done = scan[j].done
         /\ scan'[j].pc \in {"next", "order"}
         /\ scan'[j].pc = "order" =>
               /\ scan'[j].market = scan[j].market /\ scan'[j].side = side
               /\ scan'[j].signal = Len(signals) + 1
<1>. DEFINE g == scan[j]
            asked == [g EXCEPT !.pc = "order", !.side = side, !.signal = Len(signals) + 1]
<1>0. g \in Scan /\ Len(signals) + 1 \in Nat BY DEF TypeOK
<1>1. asked \in Scan /\ Leave(j) \in Scan BY Zenon, <1>0, ScanTypes DEF Leave
<1>2. ScanStep(j, "quote", asked) \/ ScanStep(j, "quote", Leave(j))
  BY DEF SaveSignal, StoreSignal
<1>3. /\ asked.pc = "order" /\ asked.market = g.market /\ asked.side = side
      /\ asked.signal = Len(signals) + 1 /\ Leave(j).pc = "next"
      /\ asked.todo = g.todo /\ asked.done = g.done
      /\ Leave(j).todo = g.todo /\ Leave(j).done = g.done
  BY <1>0 DEF Scan, Leave
<1>4. g.market \in Markets BY <1>2 DEF ScanStep, ScanInv
<1>. HIDE DEF asked
<1>5. scan'[j] \in {asked, Leave(j)} /\ ScanStep(j, "quote", scan'[j])
  BY <1>1, <1>2, ScanStepEffect
<1>6. signals' = Append(signals, [market |-> g.market, side |-> side])
      /\ UNCHANGED <<orders, settlements>>
  BY DEF SaveSignal, StoreSignal
<1>. QED BY <1>1, <1>3, <1>4, <1>5, <1>6

\* An order row is appended for the scan's own signal.
LEMMA SaveOrderEffect ==
  ASSUME TypeOK, ScanInv, NEW j \in Scans, SaveOrder(j)
  PROVE  /\ ScanStep(j, "order", scan'[j]) /\ scan'[j] \in Scan /\ scan'[j].pc = "next"
         /\ scan'[j].todo = scan[j].todo /\ scan'[j].done = scan[j].done
         /\ \E o \in Order :
               /\ orders' = Append(orders, o)
               /\ o.signal = scan[j].signal /\ o.market = scan[j].market
               /\ o.side = scan[j].side
               /\ o.status = "open" /\ o.late = world[scan[j].market].closed
         /\ UNCHANGED <<signals, settlements>>
<1>. DEFINE g == scan[j]
            o == [signal |-> g.signal, market |-> g.market, side |-> g.side,
                  status |-> "open", late |-> world[g.market].closed]
<1>0. g \in Scan /\ g.pc = "order" BY DEF TypeOK, SaveOrder, PlaceOrder, ScanStep
<1>1. Leave(j) \in Scan BY Zenon, <1>0, ScanTypes DEF Leave
<1>2. Leave(j).pc = "next" /\ Leave(j).todo = g.todo /\ Leave(j).done = g.done
  BY <1>0 DEF Scan, Leave
<1>3. scan'[j] = Leave(j) /\ ScanStep(j, "order", scan'[j])
  BY <1>1, ScanStepEffect DEF SaveOrder, PlaceOrder
<1>4. o \in Order
  <2>1. g.market \in Markets BY <1>0 DEF ScanInv
  <2>2. world[g.market].closed \in BOOLEAN BY <2>1 DEF TypeOK, Market
  <2>. QED BY <1>0, <2>1, <2>2 DEF Order, Scan
<1>5. orders' = Append(orders, o) /\ UNCHANGED <<signals, settlements>>
  BY DEF SaveOrder, PlaceOrder
<1>6. /\ o.signal = g.signal /\ o.market = g.market /\ o.side = g.side
      /\ o.status = "open" /\ o.late = world[g.market].closed
  OBVIOUS
<1>. HIDE DEF o
<1>. QED BY <1>1, <1>2, <1>3, <1>4, <1>5, <1>6

\* A step of a scan keeps the three parts of the invariant that it can disturb.
LEMMA ScanNext ==
  ASSUME TypeOK, ScanInv, ListInv, NEW j \in Scans,
         \/ Reads(j) \/ SaveOrder(j) \/ \E side \in Outcomes : SaveSignal(j, side)
  PROVE  TypeOK' /\ ScanInv' /\ ListInv'
<1>. DEFINE g == scan[j]  h == scan'[j]
<1>1. h \in Scan /\ ScanStep(j, g.pc, h)
  BY ReadsEffect, SaveOrderEffect, SaveSignalEffect DEF ScanStep
<1>2. /\ scan' \in [Scans -> Scan] /\ g \in Scan
      /\ \A k \in Scans \ {j} : scan'[k] = scan[k]
      /\ UNCHANGED <<world, decided, reversals, sync, failures>>
  BY <1>1, ScanStepEffect DEF TypeOK
<1>3. ListInv'
  <2>1. /\ h.pc \in {"keyword", "both", "weather-tag"} => h.done = {}
        /\ \A e, f \in h.todo : e[1] = f[1] => e = f
    BY ZenonT(60), ReadsEffect, SaveOrderEffect, SaveSignalEffect DEF ListInv
  <2>. QED BY <1>2, <2>1 DEF ListInv
<1>4. CASE Reads(j)
  <2>1. h.pc # "order" /\ (h.pc = "quote" => h.market \in Markets) /\ UNCHANGED db
    BY <1>4, ReadsEffect
  <2>2. ScanInv' BY <1>2, <2>1 DEF ScanInv, db
  <2>3. TypeOK' BY <1>2, <2>1 DEF TypeOK, db
  <2>. QED BY <1>3, <2>2, <2>3
<1>5. CASE SaveOrder(j)
  <2>1. PICK o \in Order : orders' = Append(orders, o) /\ o.signal = g.signal
    BY <1>5, SaveOrderEffect
  <2>2. /\ h.pc = "next" /\ g.pc = "order" /\ UNCHANGED <<signals, settlements>>
    BY <1>5, SaveOrderEffect DEF ScanStep
  <2>3. g.signal \in DOMAIN signals BY <2>2 DEF ScanInv
  <2>4. /\ orders' \in Seq(Order) /\ DOMAIN orders' = DOMAIN orders \cup {Len(orders) + 1}
        /\ \A i \in DOMAIN orders : orders'[i] = orders[i]
        /\ orders'[Len(orders) + 1] = o
    BY <2>1 DEF TypeOK
  <2>5. TypeOK' BY <1>2, <2>1, <2>2, <2>3, <2>4 DEF TypeOK
  <2>6. ScanInv'
    <3>1. \A k \in Scans \ {j} : scan[k].pc = "order" => scan[k].signal # g.signal
      BY <2>2 DEF ScanInv
    <3>. QED BY <1>2, <2>1, <2>2, <2>4, <3>1 DEF ScanInv
  <2>. QED BY <1>3, <2>5, <2>6
<1>6. ASSUME NEW side \in Outcomes, SaveSignal(j, side)
      PROVE  TypeOK' /\ ScanInv'
  <2>. DEFINE row == [market |-> g.market, side |-> side]  n == Len(signals) + 1
  <2>1. /\ signals' = Append(signals, row) /\ UNCHANGED <<orders, settlements>>
        /\ row \in Signal
        /\ h.pc \in {"next", "order"}
        /\ h.pc = "order" => h.market = g.market /\ h.side = side /\ h.signal = n
        /\ g.market \in Markets
    BY <1>6, SaveSignalEffect DEF Signal
  <2>2. /\ signals' \in Seq(Signal) /\ DOMAIN signals' = DOMAIN signals \cup {n}
        /\ \A i \in DOMAIN signals : signals'[i] = signals[i]
        /\ signals'[n] = row /\ n \notin DOMAIN signals
    BY <2>1 DEF TypeOK
  <2>3. TypeOK' BY <1>2, <2>1, <2>2 DEF TypeOK
  <2>4. \A i \in DOMAIN orders : orders[i].signal # n BY <2>2 DEF TypeOK
  <2>5. \A k \in Scans \ {j} : scan[k].pc = "order" => scan[k].signal # n
    BY <2>2 DEF ScanInv
  <2>6. row = [market |-> h.market, side |-> h.side] \/ h.pc # "order" BY <2>1
  <2>. HIDE DEF row, n
  <2>7. ScanInv'
    <3>1. \A k \in Scans : scan'[k].pc = "order" =>
            /\ scan'[k].signal \in DOMAIN signals'
            /\ signals'[scan'[k].signal] = [market |-> scan'[k].market, side |-> scan'[k].side]
            /\ \A i \in DOMAIN orders' : orders'[i].signal # scan'[k].signal
      <4>1. ASSUME NEW k \in Scans \ {j}, scan'[k].pc = "order"
            PROVE  /\ scan'[k].signal \in DOMAIN signals'
                   /\ signals'[scan'[k].signal]
                        = [market |-> scan'[k].market, side |-> scan'[k].side]
                   /\ \A i \in DOMAIN orders' : orders'[i].signal # scan'[k].signal
        <5>1. scan'[k] = scan[k] BY <1>2
        <5>2. /\ scan[k].signal \in DOMAIN signals
              /\ signals[scan[k].signal] = [market |-> scan[k].market, side |-> scan[k].side]
              /\ \A i \in DOMAIN orders : orders[i].signal # scan[k].signal
          BY <4>1, <5>1 DEF ScanInv
        <5>3. orders' = orders BY <2>1
        <5>4. /\ scan[k].signal \in DOMAIN signals'
              /\ signals'[scan[k].signal] = signals[scan[k].signal]
          BY <2>2, <5>2
        <5>. QED BY <5>1, <5>2, <5>3, <5>4
      <4>2. ASSUME h.pc = "order"
            PROVE  /\ h.signal = n /\ signals'[n] = [market |-> h.market, side |-> h.side]
                   /\ \A i \in DOMAIN orders' : orders'[i].signal # n
        BY <2>1, <2>2, <2>4, <2>6, <4>2
      <4>. QED BY <2>2, <4>1, <4>2
    <3>2. \A k, l \in Scans : scan'[k].pc = "order" /\ scan'[l].pc = "order"
                                /\ scan'[k].signal = scan'[l].signal => k = l
      BY <1>2, <2>1, <2>5 DEF ScanInv
    <3>3. \A k \in Scans : scan'[k].pc \in {"quote", "order"} => scan'[k].market \in Markets
      BY <1>2, <2>1 DEF ScanInv
    <3>. QED BY <3>1, <3>2, <3>3 DEF ScanInv
  <2>. QED BY <2>3, <2>7
<1>. QED BY <1>3, <1>4, <1>5, <1>6
-----------------------------------------------------------------------------
(* The syncs. *)

\* A step of a sync that saves nothing.
Asks(j) == StartSync(j) \/ StartRecent(j) \/ FetchRecent(j) \/ FetchClosed(j) \/ RaiseSync(j)

\* An answer that comes now is in the history.
LEMMA ViewSeen ==
  ASSUME TypeOK, PriceInv, NEW m \in Closed
  PROVE  View(m) \in Listing /\ Seen(View(m).market, View(m).decisive)
<1>1. m \in Markets /\ world[m].closed /\ world[m].decisive \subseteq Outcomes
  <2>1. m \in Markets /\ world[m].closed BY DEF Closed
  <2>2. world[m] \in Market BY <2>1 DEF TypeOK
  <2>3. world[m].decisive \in {{}} \cup {{o} : o \in Outcomes} BY <2>2 DEF Market
  <2>. QED BY <2>1, <2>3
<1>2. View(m) = [market |-> m, decisive |-> world[m].decisive] BY DEF View
<1>3. View(m).market = m /\ View(m).decisive = world[m].decisive /\ View(m) \in Listing
  BY <1>1, <1>2 DEF Listing
<1>4. Seen(m, world[m].decisive)
  <2>1. CASE world[m].decisive = {} BY <1>1, <2>1 DEF Seen
  <2>2. CASE world[m].decisive # {} BY <1>1, <2>2 DEF PriceInv
  <2>. QED BY <2>1, <2>2
<1>. QED BY <1>3, <1>4

\* A sync that asks writes nothing, and what it keeps was true when it came.
LEMMA AsksEffect ==
  ASSUME TypeOK, PriceInv, NEW j \in Syncs, Asks(j)
  PROVE  /\ SyncStep(j, sync[j].pc, sync'[j]) /\ sync'[j] \in Sync
         /\ \A v \in sync'[j].got : Seen(v.market, v.decisive)
         /\ UNCHANGED <<orders, settlements>> /\ failures' \in 0 .. MaxFailures
<1>. DEFINE g == sync[j]
<1>0. g \in Sync /\ g.todo \subseteq Markets /\ g.got \subseteq Listing
  BY DEF TypeOK, Sync
<1>1. UNCHANGED <<orders, settlements>> /\ failures' \in 0 .. MaxFailures
  <2>1. CASE UNCHANGED <<orders, settlements, failures>> BY <2>1 DEF TypeOK
  <2>2. CASE RaiseSync(j) BY <2>2, LimitsAssumption DEF RaiseSync, TypeOK
  <2>. QED BY <2>1, <2>2 DEF Asks, StartSync, StartRecent, FetchRecent, FetchClosed
<1>2. ASSUME NEW pc, NEW next \in Sync, SyncStep(j, pc, next)
      PROVE  sync'[j] = next /\ SyncStep(j, g.pc, sync'[j])
  BY <1>2, SyncStepEffect
<1>3. CASE StartSync(j)
  <2>1. Unsettled(SyncLimit) \subseteq Markets
    <3>1. \A i \in DOMAIN orders : orders[i] \in Order BY DEF TypeOK
    <3>2. \A i \in DOMAIN orders : orders[i].market \in Markets BY <3>1 DEF Order
    <3>. QED BY <3>2 DEF Unsettled, Ordered
  <2>2. sync'[j] = Continue(Unsettled(SyncLimit), {}) /\ SyncStep(j, g.pc, sync'[j])
    BY <1>2, <1>3, <2>1, ContinueType DEF StartSync
  <2>. QED BY <1>1, <2>1, <2>2, ContinueType
<1>4. CASE StartRecent(j)
  <2>1. [IdleSync EXCEPT !.pc = "recent"] \in Sync /\ [IdleSync EXCEPT !.pc = "recent"].got = {}
    BY DEF IdleSync, Sync
  <2>2. sync'[j] = [IdleSync EXCEPT !.pc = "recent"] /\ SyncStep(j, g.pc, sync'[j])
    BY <1>2, <1>4, <2>1 DEF StartRecent
  <2>. QED BY <1>1, <2>1, <2>2
<1>5. CASE FetchRecent(j)
  <2>1. PICK ms \in SUBSET Closed :
          SyncStep(j, "recent", Continue({}, {View(m) : m \in ms}))
    BY <1>5 DEF FetchRecent
  <2>2. \A v \in {View(m) : m \in ms} : v \in Listing /\ Seen(v.market, v.decisive)
    BY <2>1, ViewSeen
  <2>3. sync'[j] = Continue({}, {View(m) : m \in ms}) /\ SyncStep(j, g.pc, sync'[j])
    BY <1>2, <2>1, <2>2, ContinueType
  <2>. QED BY <1>1, <2>2, <2>3, ContinueType
<1>6. CASE FetchClosed(j)
  <2>1. PICK m \in g.todo :
          SyncStep(j, "fetch", Continue(g.todo \ {m},
                                        g.got \cup {View(n) : n \in {m} \cap Closed}))
    BY <1>6 DEF FetchClosed
  <2>. DEFINE got == g.got \cup {View(n) : n \in {m} \cap Closed}
  <2>2. \A v \in got : v \in Listing /\ Seen(v.market, v.decisive)
    <3>1. \A n \in {m} \cap Closed : View(n) \in Listing /\ Seen(View(n).market, View(n).decisive)
      BY ViewSeen
    <3>2. \A v \in g.got : v \in Listing /\ Seen(v.market, v.decisive)
      BY <1>0 DEF PriceInv
    <3>. QED BY <3>1, <3>2
  <2>3. g.todo \ {m} \subseteq Markets BY <1>0
  <2>. HIDE DEF got
  <2>4. sync'[j] = Continue(g.todo \ {m}, got) /\ SyncStep(j, g.pc, sync'[j])
    <3>1. SyncStep(j, "fetch", Continue(g.todo \ {m}, got)) BY <2>1 DEF got
    <3>. QED BY <1>2, <2>2, <2>3, <3>1, ContinueType
  <2>. QED BY <1>1, <2>2, <2>3, <2>4, ContinueType
<1>7. CASE RaiseSync(j)
  <2>1. sync'[j] = IdleSync /\ SyncStep(j, g.pc, sync'[j])
    BY <1>2, <1>7, IdleTypes DEF RaiseSync
  <2>. QED BY <1>1, <2>1, IdleTypes DEF IdleSync
<1>. QED BY <1>3, <1>4, <1>5, <1>6, <1>7 DEF Asks

\* The outcome of a decisive answer is the one that it was priced to.
LEMMA InferredOutcome ==
  ASSUME NEW view \in Listing, Infer(view) # {}
  PROVE  LET won == CHOOSE o \in Outcomes : o \in Infer(view)
         IN  won \in Outcomes /\ won \in view.decisive
<1>1. Infer(view) = view.decisive /\ view.decisive \subseteq Outcomes BY DEF Infer, Listing
<1>2. \E o \in Outcomes : o \in Infer(view) BY <1>1
<1>. QED BY <1>1, <1>2

\* A settlement is a decisive price seen on its closed market, and settles every
\* order of the market.
LEMMA SettleEffect ==
  ASSUME TypeOK, PriceInv, NEW j \in Syncs, Settle(j)
  PROVE  /\ SyncStep(j, sync[j].pc, sync'[j]) /\ sync'[j] \in Sync
         /\ \A v \in sync'[j].got : Seen(v.market, v.decisive)
         /\ UNCHANGED failures
         /\ \/ UNCHANGED <<orders, settlements>>
            \/ \E m \in Markets, won \in Outcomes :
                  /\ Seen(m, {won})
                  /\ settlements' = [n \in DOMAIN settlements \cup {m} |->
                                       IF n = m THEN won ELSE settlements[n]]
                  /\ orders' = SettleOrders(m, orders)
<1>. DEFINE g == sync[j]
<1>0. g \in Sync /\ g.got \subseteq Listing BY DEF TypeOK, Sync
<1>1. PICK view \in g.got :
         /\ SyncStep(j, "settle", Continue({}, g.got \ {view}))
         /\ IF Infer(view) = {} THEN UNCHANGED <<orders, settlements>>
            ELSE /\ settlements' = [m \in DOMAIN settlements \cup {view.market} |->
                       IF m = view.market THEN CHOOSE o \in Outcomes : o \in Infer(view)
                       ELSE settlements[m]]
                 /\ orders' = SettleOrders(view.market, orders)
  BY DEF Settle
<1>2. Continue({}, g.got \ {view}) \in Sync /\ Continue({}, g.got \ {view}).got = g.got \ {view}
  BY <1>0, ContinueType
<1>3. sync'[j] = Continue({}, g.got \ {view}) /\ SyncStep(j, g.pc, sync'[j])
  BY <1>1, <1>2, SyncStepEffect
<1>4. \A v \in sync'[j].got : Seen(v.market, v.decisive) BY <1>2, <1>3 DEF PriceInv
<1>5. CASE Infer(view) = {} BY <1>1, <1>2, <1>3, <1>4, <1>5 DEF Settle
<1>6. CASE Infer(view) # {}
  <2>. DEFINE won == CHOOSE o \in Outcomes : o \in Infer(view)
  <2>1. view \in Listing /\ view.market \in Markets BY <1>0 DEF Listing
  <2>2. won \in Outcomes /\ won \in view.decisive BY <1>6, <2>1, InferredOutcome
  <2>3. Seen(view.market, {won}) BY <2>2 DEF PriceInv, Seen
  <2>. HIDE DEF won
  <2>4. /\ settlements' = [m \in DOMAIN settlements \cup {view.market} |->
               IF m = view.market THEN won ELSE settlements[m]]
        /\ orders' = SettleOrders(view.market, orders)
    BY <1>1, <1>6 DEF won
  <2>. QED BY <1>2, <1>3, <1>4, <2>1, <2>2, <2>3, <2>4 DEF Settle
<1>. QED BY <1>5, <1>6

\* The UPDATE of a settlement changes the status of its market's orders.
LEMMA SettledOrders ==
  ASSUME NEW m, NEW os \in Seq(Order)
  PROVE  /\ SettleOrders(m, os) \in Seq(Order)
         /\ DOMAIN SettleOrders(m, os) = DOMAIN os
         /\ \A i \in DOMAIN os :
               LET o == SettleOrders(m, os)[i]
               IN  /\ o.signal = os[i].signal /\ o.market = os[i].market
                   /\ o.side = os[i].side /\ o.late = os[i].late
                   /\ os[i].market = m => o.status = "settled"
                   /\ os[i].market # m => o = os[i]
<1>1. \A o \in Order :
        LET s == [o EXCEPT !.status = "settled"]
        IN  /\ s \in Order /\ s.status = "settled"
            /\ s.signal = o.signal /\ s.market = o.market /\ s.side = o.side /\ s.late = o.late
  BY DEF Order
<1>2. \A i \in DOMAIN os : os[i] \in Order OBVIOUS
<1>3. DOMAIN SettleOrders(m, os) = DOMAIN os /\ DOMAIN os = 1 .. Len(os) /\ Len(os) \in Nat
  BY DEF SettleOrders
<1>4. \A i \in DOMAIN os : SettleOrders(m, os)[i] =
         IF os[i].market = m THEN [os[i] EXCEPT !.status = "settled"] ELSE os[i]
  BY DEF SettleOrders
<1>5. SettleOrders(m, os) = [i \in 1 .. Len(os) |-> SettleOrders(m, os)[i]]
  BY <1>3, <1>4 DEF SettleOrders
<1>6. ASSUME NEW i \in DOMAIN os
      PROVE  LET o == SettleOrders(m, os)[i]
             IN  /\ o \in Order
                 /\ o.signal = os[i].signal /\ o.market = os[i].market
                 /\ o.side = os[i].side /\ o.late = os[i].late
                 /\ os[i].market = m => o.status = "settled"
                 /\ os[i].market # m => o = os[i]
  <2>. DEFINE o == SettleOrders(m, os)[i]
  <2>1. os[i] \in Order BY <1>2
  <2>2. CASE os[i].market = m
    <3>1. o = [os[i] EXCEPT !.status = "settled"] BY <1>4, <2>2
    <3>. QED BY <1>1, <2>1, <2>2, <3>1
  <2>3. CASE os[i].market # m
    <3>1. o = os[i] BY <1>4, <2>3
    <3>. QED BY <2>1, <2>3, <3>1
  <2>. QED BY <2>2, <2>3
<1>. DEFINE s == SettleOrders(m, os)
<1>7. s \in Seq(Order)
  <2>1. \A i \in 1 .. Len(os) : s[i] \in Order BY <1>3, <1>6
  <2>. HIDE DEF s
  <2>2. s = [i \in 1 .. Len(os) |-> s[i]] BY <1>5 DEF s
  <2>. QED BY <1>3, <2>1, <2>2
<1>. QED BY <1>3, <1>6, <1>7

\* What a step of a sync does to the tables, whichever it is.
LEMMA SyncEffect ==
  ASSUME TypeOK, PriceInv, NEW j \in Syncs, Asks(j) \/ Settle(j)
  PROVE  /\ sync' \in [Syncs -> Sync] /\ failures' \in 0 .. MaxFailures
         /\ UNCHANGED <<world, decided, reversals, scan, signals>>
         /\ \A k \in Syncs : \A v \in sync'[k].got : Seen(v.market, v.decisive)
         /\ \/ UNCHANGED <<orders, settlements>>
            \/ \E m \in Markets, won \in Outcomes :
                  /\ Seen(m, {won})
                  /\ settlements' = [n \in DOMAIN settlements \cup {m} |->
                                       IF n = m THEN won ELSE settlements[n]]
                  /\ orders' = SettleOrders(m, orders)
<1>1. /\ SyncStep(j, sync[j].pc, sync'[j]) /\ sync'[j] \in Sync
      /\ \A v \in sync'[j].got : Seen(v.market, v.decisive)
  BY AsksEffect, SettleEffect
<1>2. failures' \in 0 .. MaxFailures
  <2>1. CASE Asks(j) BY <2>1, AsksEffect
  <2>2. CASE Settle(j) BY <2>2, SettleEffect DEF TypeOK
  <2>. QED BY <2>1, <2>2
<1>3. /\ sync' \in [Syncs -> Sync]
      /\ \A k \in Syncs \ {j} : sync'[k] = sync[k]
      /\ UNCHANGED <<world, decided, reversals, scan, signals>>
  BY <1>1, SyncStepEffect
<1>4. \A k \in Syncs : \A v \in sync'[k].got : Seen(v.market, v.decisive)
  BY <1>1, <1>3 DEF PriceInv
<1>5. CASE Asks(j) BY <1>2, <1>3, <1>4, <1>5, AsksEffect
<1>6. CASE Settle(j)
  <2>. HIDE DEF Settle
  <2>. QED BY <1>2, <1>3, <1>4, <1>6, SettleEffect
<1>. QED BY <1>5, <1>6

\* What an order keeps for good: a settlement changes its status only.
LEMMA OrdersKept ==
  ASSUME TypeOK, PriceInv, NEW j \in Syncs, Asks(j) \/ Settle(j)
  PROVE  /\ orders' \in Seq(Order) /\ DOMAIN orders' = DOMAIN orders
         /\ \A i \in DOMAIN orders :
               /\ orders'[i].signal = orders[i].signal /\ orders'[i].market = orders[i].market
               /\ orders'[i].side = orders[i].side /\ orders'[i].late = orders[i].late
<1>1. orders \in Seq(Order) BY DEF TypeOK
<1>2. orders' = orders \/ \E m \in Markets : orders' = SettleOrders(m, orders)
  BY SyncEffect
<1>3. CASE orders' = orders BY <1>1, <1>3
<1>4. ASSUME NEW m \in Markets, orders' = SettleOrders(m, orders)
      PROVE  /\ orders' \in Seq(Order) /\ DOMAIN orders' = DOMAIN orders
             /\ \A i \in DOMAIN orders :
                   /\ orders'[i].signal = orders[i].signal /\ orders'[i].market = orders[i].market
                   /\ orders'[i].side = orders[i].side /\ orders'[i].late = orders[i].late
  BY <1>1, <1>4, SettledOrders
<1>. QED BY <1>2, <1>3, <1>4

\* A step of a sync keeps the invariant.
LEMMA SyncNext ==
  ASSUME TypeOK, ScanInv, ListInv, PriceInv, NEW j \in Syncs, Asks(j) \/ Settle(j)
  PROVE  TypeOK' /\ ScanInv' /\ ListInv' /\ PriceInv'
<1>1. /\ sync' \in [Syncs -> Sync] /\ failures' \in 0 .. MaxFailures
      /\ UNCHANGED <<world, decided, reversals, scan, signals>>
      /\ \A k \in Syncs : \A v \in sync'[k].got : Seen(v.market, v.decisive)
  BY SyncEffect
<1>2. /\ orders' \in Seq(Order) /\ DOMAIN orders' = DOMAIN orders
      /\ \A i \in DOMAIN orders : orders'[i].signal = orders[i].signal
  BY OrdersKept
<1>3. /\ DOMAIN settlements' \subseteq Markets
      /\ \A m \in DOMAIN settlements' : settlements'[m] \in Outcomes /\ world[m].closed
  <2>1. CASE UNCHANGED settlements BY <2>1 DEF TypeOK, PriceInv
  <2>2. ASSUME NEW m \in Markets, NEW won \in Outcomes, Seen(m, {won}),
               settlements' = [n \in DOMAIN settlements \cup {m} |->
                                  IF n = m THEN won ELSE settlements[n]]
        PROVE  /\ DOMAIN settlements' \subseteq Markets
               /\ \A n \in DOMAIN settlements' : settlements'[n] \in Outcomes /\ world[n].closed
    BY <2>2 DEF TypeOK, PriceInv, Seen
  <2>. QED BY <2>1, <2>2, SyncEffect
<1>4. TypeOK' BY <1>1, <1>2, <1>3 DEF TypeOK
<1>5. ScanInv' BY <1>1, <1>2 DEF ScanInv
<1>6. ListInv' BY <1>1 DEF ListInv
<1>7. PriceInv'
  <2>1. \A m, decisive : Seen(m, decisive)' <=> Seen(m, decisive') BY <1>1 DEF Seen
  <2>. QED BY <1>1, <1>3 DEF PriceInv, Seen
<1>. QED BY <1>4, <1>5, <1>6, <1>7

\* A price change keeps what was seen true.
LEMMA WorldNext ==
  ASSUME TypeOK, ScanInv, ListInv, PriceInv,
         NEW m \in Markets, Closes(m) \/ Decides(m) \/ Reverses(m)
  PROVE  TypeOK' /\ ScanInv' /\ ListInv' /\ PriceInv'
<1>1. /\ TypeOK' /\ UNCHANGED <<scan, sync, signals, orders, settlements>>
      /\ decided \subseteq decided'
      /\ \A n \in Markets : world[n].closed => world'[n].closed
      /\ \A n \in Markets :
            \/ world'[n] = world[n]
            \/ world'[n].closed /\ \A o \in world'[n].decisive : <<n, o>> \in decided'
  BY PricesEffect
<1>2. ScanInv' /\ ListInv' BY <1>1 DEF ScanInv, ListInv
<1>3. \A n \in Markets : world'[n].decisive # {} =>
         world'[n].closed /\ \A o \in world'[n].decisive : <<n, o>> \in decided'
  BY <1>1 DEF PriceInv, Seen
<1>4. ASSUME NEW k \in Syncs, NEW v \in sync'[k].got
      PROVE  world'[v.market].closed /\ \A o \in v.decisive : <<v.market, o>> \in decided'
  <2>1. v \in sync[k].got BY <1>1
  <2>2. v.market \in Markets BY <2>1 DEF TypeOK, Sync, Listing
  <2>. QED BY <1>1, <2>1, <2>2 DEF PriceInv, Seen
<1>5. \A n \in DOMAIN settlements' : world'[n].closed BY <1>1 DEF PriceInv, TypeOK
<1>6. PriceInv' BY <1>3, <1>4, <1>5 DEF PriceInv, Seen
<1>. QED BY <1>1, <1>2, <1>6
-----------------------------------------------------------------------------
(* The theorems. *)

LEMMA NextCases ==
  ASSUME Next
  PROVE  \/ \E m \in Markets : Closes(m) \/ Decides(m) \/ Reverses(m)
         \/ \E j \in Scans :
              Reads(j) \/ SaveOrder(j) \/ \E side \in Outcomes : SaveSignal(j, side)
         \/ \E j \in Syncs : Asks(j) \/ Settle(j)
BY DEF Next, Reads, Asks, SyncRuns

\* The four parts are an invariant, with TypeOK among them: every process of
\* either command stays within its own program, whatever the others do.
THEOREM TypeCorrect == Spec => [](TypeOK /\ ScanInv /\ ListInv /\ PriceInv)
<1>1. Init => TypeOK /\ ScanInv /\ ListInv /\ PriceInv
  <2>1. ASSUME Init PROVE TypeOK
    <3>1. [closed |-> FALSE, decisive |-> {}] \in Market BY DEF Market
    <3>. QED BY <2>1, <3>1, IdleTypes, LimitsAssumption DEF Init, TypeOK
  <2>2. ASSUME Init PROVE ScanInv /\ ListInv /\ PriceInv
    BY <2>2 DEF Init, ScanInv, ListInv, PriceInv, IdleScan, IdleSync
  <2>. QED BY <2>1, <2>2
<1>2. TypeOK /\ ScanInv /\ ListInv /\ PriceInv /\ [Next]_vars
         => (TypeOK /\ ScanInv /\ ListInv /\ PriceInv)'
  <2>. SUFFICES ASSUME TypeOK, ScanInv, ListInv, PriceInv, [Next]_vars
                PROVE  TypeOK' /\ ScanInv' /\ ListInv' /\ PriceInv'
    OBVIOUS
  <2>1. CASE \E m \in Markets : Closes(m) \/ Decides(m) \/ Reverses(m)
    BY <2>1, WorldNext
  <2>2. ASSUME NEW j \in Scans,
               Reads(j) \/ SaveOrder(j) \/ \E side \in Outcomes : SaveSignal(j, side)
        PROVE  TypeOK' /\ ScanInv' /\ ListInv' /\ PriceInv'
    <3>1. TypeOK' /\ ScanInv' /\ ListInv' BY <2>2, ScanNext
    <3>2. UNCHANGED <<world, decided, sync, settlements>>
      BY <2>2, ReadsEffect, SaveOrderEffect, SaveSignalEffect DEF ScanStep, env, db
    <3>3. PriceInv' BY <3>2 DEF PriceInv, Seen
    <3>. QED BY <3>1, <3>3
  <2>3. CASE \E j \in Syncs : Asks(j) \/ Settle(j) BY <2>3, SyncNext
  <2>4. CASE UNCHANGED vars
    BY <2>4 DEF vars, env, db, TypeOK, ScanInv, ListInv, PriceInv, Seen
  <2>. QED BY <2>1, <2>2, <2>3, <2>4, NextCases
<1>. QED BY <1>1, <1>2, PTL DEF Spec

\* An order is scored with the probability it was placed on: its signal is of
\* its own market and side, and its alone (save_weather_signal and
\* save_weather_paper_order, two transactions of a scan).
THEOREM OrdersMatch == Spec => []OrdersMatchSignals
<1>1. Init => OrdersMatchSignals BY DEF Init, OrdersMatchSignals
<1>2. TypeOK /\ ScanInv /\ ListInv /\ PriceInv /\ OrdersMatchSignals /\ [Next]_vars
         => OrdersMatchSignals'
  <2>. SUFFICES ASSUME TypeOK, ScanInv, ListInv, PriceInv, OrdersMatchSignals, [Next]_vars
                PROVE  OrdersMatchSignals'
    OBVIOUS
  <2>1. CASE UNCHANGED <<orders, signals>> BY <2>1 DEF OrdersMatchSignals
  <2>2. ASSUME NEW j \in Scans, SaveOrder(j) PROVE OrdersMatchSignals'
    <3>1. PICK o \in Order :
             /\ orders' = Append(orders, o)
             /\ o.signal = scan[j].signal /\ o.market = scan[j].market
             /\ o.side = scan[j].side
      BY <2>2, SaveOrderEffect
    <3>2. scan[j].pc = "order" /\ UNCHANGED signals
      BY <2>2, SaveOrderEffect DEF ScanStep
    <3>3. /\ DOMAIN orders' = DOMAIN orders \cup {Len(orders) + 1}
          /\ \A i \in DOMAIN orders : orders'[i] = orders[i]
          /\ orders'[Len(orders) + 1] = o
      BY <3>1 DEF TypeOK
    <3>4. /\ signals[o.signal] = [market |-> o.market, side |-> o.side]
          /\ \A i \in DOMAIN orders : orders[i].signal # o.signal
      BY <3>1, <3>2 DEF ScanInv
    <3>. QED BY <3>2, <3>3, <3>4 DEF OrdersMatchSignals
  <2>3. ASSUME NEW j \in Scans, NEW side \in Outcomes, SaveSignal(j, side)
        PROVE  OrdersMatchSignals'
    <3>. DEFINE row == [market |-> scan[j].market, side |-> side]
    <3>1. /\ signals' = Append(signals, row) /\ UNCHANGED orders
          /\ row \in Signal
      BY <2>3, SaveSignalEffect DEF Signal
    <3>2. \A i \in DOMAIN signals : signals'[i] = signals[i] BY <3>1 DEF TypeOK
    <3>3. \A i \in DOMAIN orders : orders[i].signal \in DOMAIN signals BY DEF TypeOK
    <3>. QED BY <3>1, <3>2, <3>3 DEF OrdersMatchSignals
  <2>4. ASSUME NEW j \in Syncs, Asks(j) \/ Settle(j) PROVE OrdersMatchSignals'
    BY <2>4, OrdersKept, SyncEffect DEF OrdersMatchSignals
  <2>5. ASSUME NEW j \in Scans, Reads(j) PROVE OrdersMatchSignals'
    BY <2>1, <2>5, ReadsEffect DEF db
  <2>6. ASSUME NEW m \in Markets, Closes(m) \/ Decides(m) \/ Reverses(m)
        PROVE  OrdersMatchSignals'
    BY <2>1, <2>6, PricesEffect
  <2>7. CASE UNCHANGED vars BY <2>1, <2>7 DEF vars, db
  <2>. QED BY <2>2, <2>3, <2>4, <2>5, <2>6, <2>7, NextCases
<1>. QED BY <1>1, <1>2, TypeCorrect, PTL DEF Spec

\* A step changes the settlements only where a sync stores a price seen on the
\* closed market, with the status of its orders; a scan only adds an order.
LEMMA TablesStep ==
  ASSUME TypeOK, ScanInv, ListInv, PriceInv, [Next]_vars
  PROVE  /\ decided \subseteq decided'
         /\ \/ UNCHANGED <<orders, settlements>>
            \/ /\ UNCHANGED settlements
               /\ \E o \in Order : /\ orders' = Append(orders, o) /\ o.status = "open"
                                   /\ o.late = world[o.market].closed
            \/ \E m \in Markets, won \in Outcomes :
                  /\ Seen(m, {won})
                  /\ settlements' = [n \in DOMAIN settlements \cup {m} |->
                                       IF n = m THEN won ELSE settlements[n]]
                  /\ orders' = SettleOrders(m, orders)
<1>1. ASSUME NEW j \in Scans, SaveOrder(j)
      PROVE  /\ UNCHANGED <<decided, settlements>>
             /\ \E o \in Order : /\ orders' = Append(orders, o) /\ o.status = "open"
                                 /\ o.late = world[o.market].closed
  BY <1>1, SaveOrderEffect DEF ScanStep, env
<1>2. ASSUME NEW j \in Scans, Reads(j) \/ \E side \in Outcomes : SaveSignal(j, side)
      PROVE  UNCHANGED <<decided, orders, settlements>>
  BY <1>2, ReadsEffect, SaveSignalEffect DEF ScanStep, env, db
<1>3. ASSUME NEW m \in Markets, Closes(m) \/ Decides(m) \/ Reverses(m)
      PROVE  decided \subseteq decided' /\ UNCHANGED <<orders, settlements>>
  BY <1>3, PricesEffect
<1>4. CASE UNCHANGED vars BY <1>4 DEF vars, env, db
<1>5. ASSUME NEW j \in Syncs, Asks(j) \/ Settle(j)
      PROVE  /\ UNCHANGED decided
             /\ \/ UNCHANGED <<orders, settlements>>
                \/ \E m \in Markets, won \in Outcomes :
                      /\ Seen(m, {won})
                      /\ settlements' = [n \in DOMAIN settlements \cup {m} |->
                                           IF n = m THEN won ELSE settlements[n]]
                      /\ orders' = SettleOrders(m, orders)
  BY <1>5, SyncEffect
<1>. QED BY <1>1, <1>2, <1>3, <1>4, <1>5, NextCases

\* A settlement is an outcome the provider priced decisively on the closed
\* market (infer_market_settlement), however late the sync stores it.
THEOREM SettledWereDecided == Spec => []SettlementsWereDecided
<1>1. Init => SettlementsWereDecided BY DEF Init, SettlementsWereDecided
<1>2. TypeOK /\ ScanInv /\ ListInv /\ PriceInv /\ SettlementsWereDecided /\ [Next]_vars
         => SettlementsWereDecided'
  <2>. SUFFICES ASSUME TypeOK, ScanInv, ListInv, PriceInv, SettlementsWereDecided, [Next]_vars
                PROVE  SettlementsWereDecided'
    OBVIOUS
  <2>1. decided \subseteq decided' BY TablesStep
  <2>2. CASE UNCHANGED settlements BY <2>1, <2>2 DEF SettlementsWereDecided
  <2>3. ASSUME NEW m \in Markets, NEW won \in Outcomes, Seen(m, {won}),
               settlements' = [n \in DOMAIN settlements \cup {m} |->
                                  IF n = m THEN won ELSE settlements[n]]
        PROVE  SettlementsWereDecided'
    BY <2>1, <2>3 DEF SettlementsWereDecided, Seen
  <2>. QED BY <2>2, <2>3, TablesStep
<1>. QED BY <1>1, <1>2, TypeCorrect, PTL DEF Spec

\* The status column of weather_paper_orders follows market_settlements: a
\* settled order has a settlement, and one left open on a settled market was
\* placed after the market had closed.
THEOREM StatusFollows == Spec => []StatusFollowsSettlement
<1>1. Init => StatusFollowsSettlement BY DEF Init, StatusFollowsSettlement
<1>2. TypeOK /\ ScanInv /\ ListInv /\ PriceInv /\ StatusFollowsSettlement /\ [Next]_vars
         => StatusFollowsSettlement'
  <2>. SUFFICES ASSUME TypeOK, ScanInv, ListInv, PriceInv, StatusFollowsSettlement, [Next]_vars
                PROVE  StatusFollowsSettlement'
    OBVIOUS
  <2>1. CASE UNCHANGED <<orders, settlements>> BY <2>1 DEF StatusFollowsSettlement
  <2>2. ASSUME NEW o \in Order, orders' = Append(orders, o), o.status = "open",
               o.late = world[o.market].closed, UNCHANGED settlements
        PROVE  StatusFollowsSettlement'
    <3>1. /\ DOMAIN orders' = DOMAIN orders \cup {Len(orders) + 1}
          /\ \A i \in DOMAIN orders : orders'[i] = orders[i]
          /\ orders'[Len(orders) + 1] = o
      BY <2>2 DEF TypeOK
    <3>2. o.market \in DOMAIN settlements => o.late BY <2>2 DEF PriceInv
    <3>. QED BY <2>2, <3>1, <3>2 DEF StatusFollowsSettlement
  <2>3. ASSUME NEW m \in Markets, NEW won \in Outcomes,
               settlements' = [n \in DOMAIN settlements \cup {m} |->
                                  IF n = m THEN won ELSE settlements[n]],
               orders' = SettleOrders(m, orders)
        PROVE  StatusFollowsSettlement'
    <3>1. DOMAIN settlements' = DOMAIN settlements \cup {m} BY <2>3
    <3>2. orders \in Seq(Order) BY DEF TypeOK
    <3>3. /\ DOMAIN orders' = DOMAIN orders
          /\ \A i \in DOMAIN orders :
                /\ orders'[i].market = orders[i].market
                /\ orders[i].market = m => orders'[i].status = "settled"
                /\ orders[i].market # m => orders'[i] = orders[i]
      BY <2>3, <3>2, SettledOrders
    <3>. QED BY <3>1, <3>3 DEF StatusFollowsSettlement
  <2>. QED BY <2>1, <2>2, <2>3, TablesStep
<1>. QED BY <1>1, <1>2, TypeCorrect, PTL DEF Spec

\* One scan takes a market up once, though both requests may list it
\* (_dedupe_markets): its orders on a market stay within max_market_usd.
THEOREM NeverRepeats == Spec => []ScanNeverRepeats
<1>1. Init => ScanNeverRepeats BY DEF Init, ScanNeverRepeats, IdleScan
<1>2. TypeOK /\ ScanInv /\ ListInv /\ PriceInv /\ ScanNeverRepeats /\ [Next]_vars
         => ScanNeverRepeats'
  <2>. SUFFICES ASSUME TypeOK, ScanInv, ListInv, PriceInv, ScanNeverRepeats, [Next]_vars
                PROVE  ScanNeverRepeats'
    OBVIOUS
  <2>1. CASE UNCHANGED scan BY <2>1 DEF ScanNeverRepeats
  <2>2. ASSUME NEW j \in Scans,
               Reads(j) \/ SaveOrder(j) \/ \E side \in Outcomes : SaveSignal(j, side)
        PROVE  ScanNeverRepeats'
    <3>1. scan'[j] \in Scan /\ ScanStep(j, scan[j].pc, scan'[j])
      BY <2>2, ReadsEffect, SaveOrderEffect, SaveSignalEffect DEF ScanStep
    <3>2. \A k \in Scans \ {j} : scan'[k] = scan[k] BY <3>1, ScanStepEffect
    <3>3. \A e \in scan[j].todo : e[1] \notin scan[j].done BY DEF ScanNeverRepeats
    <3>4. \A e \in scan'[j].todo : e[1] \notin scan'[j].done
      BY <2>2, <3>3, ReadsEffect, SaveOrderEffect, SaveSignalEffect
    <3>. QED BY <3>2, <3>4 DEF ScanNeverRepeats
  <2>3. CASE \E j \in Syncs : Asks(j) \/ Settle(j) BY <2>1, <2>3, SyncEffect
  <2>4. CASE \E m \in Markets : Closes(m) \/ Decides(m) \/ Reverses(m)
    BY <2>1, <2>4, PricesEffect
  <2>5. CASE UNCHANGED vars BY <2>1, <2>5 DEF vars
  <2>. QED BY <2>2, <2>3, <2>4, <2>5, NextCases
<1>. QED BY <1>1, <1>2, TypeCorrect, PTL DEF Spec
-----------------------------------------------------------------------------
(* The markets a sync asks for. *)

Waiting == Ordered \ DOMAIN settlements

\* A sync asks for no more markets than its limit, and for every one that waits
\* when the limit covers them.
SyncTakesWaiting ==
    /\ Cardinality(Unsettled(SyncLimit)) <= SyncLimit
    /\ Cardinality(Waiting) <= SyncLimit => Unsettled(SyncLimit) = Waiting

\* The markets a sync asks for stay the ones the next asks for until one of them
\* is settled, whatever is ordered and whatever else is settled meanwhile.
OldestKeepTheirPlaces ==
    Unsettled(SyncLimit) \cap DOMAIN settlements' = {} =>
        Unsettled(SyncLimit) \subseteq Unsettled(SyncLimit)'

\* A set of positions has a first.
LEMMA FirstOf ==
  ASSUME NEW n \in Nat, NEW S \in SUBSET (1 .. n), S # {}
  PROVE  Min(S) \in S /\ \A x \in S : Min(S) <= x
<1>1. S \subseteq Nat OBVIOUS
<1>2. PICK d \in S : \A e \in S : ~(<<e, d>> \in OpToRel(<, Nat))
  BY Zenon, <1>1, NatLessThanWellFounded, WFMin
<1>3. ASSUME NEW e \in S PROVE d <= e
  <2>1. e \in Nat /\ d \in Nat BY <1>1
  <2>2. ~(<<e, d>> \in OpToRel(<, Nat)) BY Zenon, <1>2
  <2>3. ~(e < d) BY <2>1, <2>2, Zenon DEF OpToRel
  <2>. QED BY <2>1, <2>3
<1>4. \E x \in S : \A y \in S : x <= y BY <1>3
<1>. QED BY <1>4 DEF Min

\* The first order of a market that has one, of the orders stored or to be.
LEMMA FirstPosition ==
  ASSUME NEW os \in Seq(Order), NEW m, \E i \in DOMAIN os : os[i].market = m
  PROVE  LET first == Min({i \in DOMAIN os : os[i].market = m})
         IN  /\ first \in DOMAIN os /\ first \in Nat /\ os[first].market = m
             /\ \A i \in DOMAIN os : os[i].market = m => first <= i
<1>. DEFINE own == {i \in DOMAIN os : os[i].market = m}
<1>1. Len(os) \in Nat /\ DOMAIN os = 1 .. Len(os) OBVIOUS
<1>2. own \in SUBSET (1 .. Len(os)) /\ own # {} BY <1>1
<1>. HIDE DEF own
<1>3. Min(own) \in own /\ \A i \in own : Min(own) <= i BY <1>1, <1>2, FirstOf
<1>4. Min(own) \in 1 .. Len(os) BY <1>2, <1>3
<1>5. Min(own) \in Nat BY <1>1, <1>4
<1>. QED BY <1>3, <1>5 DEF own

LEMMA FirstOrderIs ==
  ASSUME TypeOK, NEW m \in Ordered
  PROVE  /\ FirstOrder(m) \in DOMAIN orders /\ FirstOrder(m) \in Nat
         /\ orders[FirstOrder(m)].market = m
         /\ \A i \in DOMAIN orders : orders[i].market = m => FirstOrder(m) <= i
<1>1. orders \in Seq(Order) /\ \E i \in DOMAIN orders : orders[i].market = m
  BY DEF TypeOK, Ordered
<1>. QED BY <1>1, FirstPosition DEF FirstOrder

\* The markets that wait, and the ones that wait before one of them.
Before(m) == {n \in Waiting : FirstOrder(n) < FirstOrder(m)}

LEMMA WaitingFinite ==
  ASSUME TypeOK
  PROVE  /\ Waiting \subseteq Markets /\ IsFiniteSet(Waiting) /\ Cardinality(Waiting) \in Nat
         /\ \A S \in SUBSET Waiting :
               IsFiniteSet(S) /\ Cardinality(S) \in Nat /\ Cardinality(S) <= Cardinality(Waiting)
<1>1. Waiting \subseteq Markets
  <2>1. \A i \in DOMAIN orders : orders[i] \in Order BY DEF TypeOK
  <2>. QED BY <2>1 DEF Waiting, Ordered, Order
<1>2. IsFiniteSet(Waiting) BY <1>1, MarketsAssumption, FS_Subset
<1>3. Cardinality(Waiting) \in Nat BY <1>2, FS_CardinalityType
<1>4. ASSUME NEW S \in SUBSET Waiting
      PROVE  IsFiniteSet(S) /\ Cardinality(S) \in Nat /\ Cardinality(S) <= Cardinality(Waiting)
  <2>1. IsFiniteSet(S) /\ Cardinality(S) <= Cardinality(Waiting) BY <1>2, FS_Subset
  <2>. QED BY <2>1, FS_CardinalityType
<1>. QED BY <1>1, <1>2, <1>3, <1>4

LEMMA UnsettledIs ==
  /\ Unsettled(SyncLimit) = {m \in Waiting : Cardinality(Before(m)) < SyncLimit}
  /\ Unsettled(SyncLimit)' = {m \in Waiting' : Cardinality(Before(m)') < SyncLimit}
BY DEF Unsettled, Waiting, Before

\* unsettled_weather_condition_ids, the LIMIT of its query: a market is left out
\* only when as many as the limit wait before it.
THEOREM LimitTaken == Spec => []SyncTakesWaiting
<1>1. ASSUME TypeOK, Cardinality(Waiting) <= SyncLimit, NEW m \in Waiting
      PROVE  Cardinality(Before(m)) < SyncLimit
  <2>1. FirstOrder(m) \in Nat BY <1>1, FirstOrderIs DEF TypeOK, Waiting
  <2>2. m \notin Before(m) BY <2>1 DEF Before
  <2>3. Before(m) \subseteq Waiting \ {m} BY <2>2 DEF Before
  <2>4. Cardinality(Waiting \ {m}) = Cardinality(Waiting) - 1
    BY <1>1, WaitingFinite, FS_RemoveElement
  <2>5. IsFiniteSet(Waiting \ {m}) BY <1>1, WaitingFinite
  <2>6. Cardinality(Before(m)) <= Cardinality(Waiting \ {m}) BY <2>3, <2>5, FS_Subset
  <2>7. Cardinality(Waiting) \in Nat /\ Cardinality(Before(m)) \in Nat
    BY <1>1, WaitingFinite DEF Before
  <2>. QED BY <1>1, <2>4, <2>6, <2>7, LimitsAssumption
<1>2. ASSUME TypeOK PROVE Cardinality(Unsettled(SyncLimit)) <= SyncLimit
  <2>. DEFINE taken == Unsettled(SyncLimit)
  <2>1. taken = {m \in Waiting : Cardinality(Before(m)) < SyncLimit} BY UnsettledIs
  <2>2. CASE taken = {} BY <2>2, FS_EmptySet, LimitsAssumption
  <2>3. CASE taken # {}
    <3>. DEFINE n == Len(orders)  S == {n + 1 - FirstOrder(m) : m \in taken}
    <3>0. \A m \in taken : FirstOrder(m) \in 1 .. n /\ n \in Nat
      BY <1>2, <2>1, FirstOrderIs DEF TypeOK, Waiting
    <3>1. n \in Nat /\ S \in SUBSET (1 .. n) /\ S # {}
      <4>1. n \in Nat BY <1>2 DEF TypeOK
      <4>. HIDE DEF taken, n
      <4>. QED BY <2>3, <3>0, <4>1
    <3>. HIDE DEF S
    <3>2. Min(S) \in S /\ \A x \in S : Min(S) <= x BY <3>1, FirstOf
    <3>3. PICK last \in taken : Min(S) = n + 1 - FirstOrder(last) BY <3>2 DEF S
    <3>4. \A m \in taken : n + 1 - FirstOrder(last) <= n + 1 - FirstOrder(m)
      BY <3>2, <3>3 DEF S
    <3>5. \A m \in taken : FirstOrder(m) <= FirstOrder(last)
      <4>. HIDE DEF taken, n
      <4>. QED BY <3>0, <3>4
    <3>6. \A m \in taken : m = last \/ FirstOrder(m) < FirstOrder(last)
      <4>1. \A m \in taken : m \in Ordered BY <2>1 DEF Waiting
      <4>2. \A m \in taken : orders[FirstOrder(m)].market = m BY <1>2, <4>1, FirstOrderIs
      <4>. HIDE DEF taken, n
      <4>. QED BY <3>0, <3>5, <4>2
    <3>7. taken \subseteq Before(last) \cup {last} BY <2>1, <3>6 DEF Before
    <3>8. IsFiniteSet(Before(last)) /\ Cardinality(Before(last)) \in Nat
      BY <1>2, WaitingFinite DEF Before
    <3>9. Cardinality(Before(last)) < SyncLimit BY <2>1
    <3>10. /\ IsFiniteSet(Before(last) \cup {last})
           /\ Cardinality(Before(last) \cup {last}) \in Nat
           /\ Cardinality(Before(last) \cup {last}) <= Cardinality(Before(last)) + 1
      <4>. DEFINE b == Before(last)
      <4>. HIDE DEF b
      <4>1. IsFiniteSet(b) /\ Cardinality(b) \in Nat BY <3>8 DEF b
      <4>2. /\ IsFiniteSet(b \cup {last})
            /\ Cardinality(b \cup {last}) =
                  IF last \in b THEN Cardinality(b) ELSE Cardinality(b) + 1
        BY <4>1, FS_AddElement
      <4>3. /\ Cardinality(b \cup {last}) \in Nat
            /\ Cardinality(b \cup {last}) <= Cardinality(b) + 1
        BY <4>1, <4>2
      <4>. QED BY <4>2, <4>3 DEF b
    <3>11. Cardinality(taken) <= Cardinality(Before(last) \cup {last}) /\ Cardinality(taken) \in Nat
      <4>. HIDE DEF taken
      <4>. QED BY <3>7, <3>10, FS_Subset, FS_CardinalityType
    <3>12. \A x, y, z \in Nat : (x < SyncLimit /\ y <= x + 1 /\ z <= y) => z <= SyncLimit
      BY LimitsAssumption
    <3>. QED BY <3>8, <3>9, <3>10, <3>11, <3>12
  <2>. QED BY <2>2, <2>3
<1>3. TypeOK => SyncTakesWaiting
  BY <1>1, <1>2, UnsettledIs DEF SyncTakesWaiting
<1>. QED BY <1>3, TypeCorrect, PTL

\* Why paper_starved has a counterexample: the oldest markets that wait hold their
\* places, so as long as they are not decided and fill the limit nobody asks for
\* the others, in no interleaving of scans and syncs.
THEOREM OldestKeep == Spec => [][OldestKeepTheirPlaces]_vars
<1>1. ASSUME TypeOK, TypeOK', ScanInv, ListInv, PriceInv, [Next]_vars,
             Unsettled(SyncLimit) \cap DOMAIN settlements' = {},
             NEW m \in Unsettled(SyncLimit)
      PROVE  m \in Unsettled(SyncLimit)'
  <2>1. /\ DOMAIN orders \subseteq DOMAIN orders'
        /\ \A i \in DOMAIN orders : orders'[i].market = orders[i].market
        /\ \A i \in DOMAIN orders' \ DOMAIN orders : \A k \in DOMAIN orders : k < i
        /\ DOMAIN settlements \subseteq DOMAIN settlements'
    <3>1. orders \in Seq(Order) BY <1>1 DEF TypeOK
    <3>2. CASE UNCHANGED <<orders, settlements>> BY <3>1, <3>2
    <3>3. ASSUME NEW o \in Order, orders' = Append(orders, o), UNCHANGED settlements
          PROVE  <2>1!1 /\ <2>1!2 /\ <2>1!3 /\ <2>1!4
      BY <3>1, <3>3
    <3>4. ASSUME NEW n \in Markets, NEW won \in Outcomes,
                 settlements' = [k \in DOMAIN settlements \cup {n} |->
                                   IF k = n THEN won ELSE settlements[k]],
                 orders' = SettleOrders(n, orders)
          PROVE  <2>1!1 /\ <2>1!2 /\ <2>1!3 /\ <2>1!4
      BY <3>1, <3>4, SettledOrders
    <3>. QED BY <1>1, <3>2, <3>3, <3>4, TablesStep
  <2>2. m \in Waiting /\ Cardinality(Before(m)) < SyncLimit BY <1>1, UnsettledIs
  <2>3. Ordered \subseteq Ordered' BY <2>1 DEF Ordered
  <2>4. m \in Waiting' BY <1>1, <2>2, <2>3 DEF Waiting
  <2>5. \A n \in Ordered : FirstOrder(n)' = FirstOrder(n)
    <3>1. TAKE n \in Ordered
    <3>2. /\ FirstOrder(n) \in DOMAIN orders /\ orders[FirstOrder(n)].market = n
          /\ \A i \in DOMAIN orders : orders[i].market = n => FirstOrder(n) <= i
      BY <1>1, FirstOrderIs
    <3>3. /\ FirstOrder(n)' \in DOMAIN orders' /\ FirstOrder(n)' \in Nat
          /\ orders'[FirstOrder(n)'].market = n
          /\ \A i \in DOMAIN orders' : orders'[i].market = n => FirstOrder(n)' <= i
      <4>1. orders' \in Seq(Order) /\ \E i \in DOMAIN orders' : orders'[i].market = n
        BY <1>1, <2>1, <3>2 DEF TypeOK
      <4>. QED BY <4>1, FirstPosition DEF FirstOrder
    <3>4. PICK a \in Nat : a = FirstOrder(n) BY <1>1, FirstOrderIs
    <3>5. PICK b \in Nat : b = FirstOrder(n)' BY <3>3
    <3>6. b <= a
      <4>1. a \in DOMAIN orders' /\ orders'[a].market = n BY <2>1, <3>2, <3>4
      <4>. QED BY <3>3, <3>5, <4>1
    <3>7. b \in DOMAIN orders
      <4>1. ASSUME b \notin DOMAIN orders PROVE a < b BY <2>1, <3>2, <3>3, <3>4, <3>5, <4>1
      <4>. QED BY <3>6, <4>1
    <3>8. a <= b
      <4>1. orders[b].market = n BY <2>1, <3>3, <3>5, <3>7
      <4>. QED BY <3>2, <3>4, <3>7, <4>1
    <3>9. a = b BY <3>6, <3>8
    <3>. QED BY <3>4, <3>5, <3>9
  <2>6. Before(m)' \subseteq Before(m)
    <3>1. SUFFICES ASSUME NEW n \in Waiting', FirstOrder(n)' < FirstOrder(m)'
                   PROVE  n \in Waiting /\ FirstOrder(n) < FirstOrder(m)
      BY DEF Before
    <3>2. n \notin DOMAIN settlements BY <2>1, <3>1 DEF Waiting
    <3>3. /\ FirstOrder(n)' \in DOMAIN orders' /\ FirstOrder(n)' \in Nat
          /\ orders'[FirstOrder(n)'].market = n
      <4>1. orders' \in Seq(Order) /\ \E i \in DOMAIN orders' : orders'[i].market = n
        BY <1>1, <3>1 DEF TypeOK, Waiting, Ordered
      <4>. QED BY <4>1, FirstPosition DEF FirstOrder
    <3>4. FirstOrder(m)' = FirstOrder(m) /\ FirstOrder(m) \in DOMAIN orders /\ FirstOrder(m) \in Nat
      BY <1>1, <2>2, <2>5, FirstOrderIs DEF Waiting
    <3>5. FirstOrder(n)' \in DOMAIN orders BY <2>1, <3>1, <3>3, <3>4
    <3>6. n \in Ordered BY <2>1, <3>3, <3>5 DEF Ordered
    <3>. QED BY <2>5, <3>1, <3>2, <3>4, <3>6 DEF Waiting
  <2>7. Cardinality(Before(m)') < SyncLimit
    <3>1. IsFiniteSet(Before(m)) /\ Cardinality(Before(m)) \in Nat
      BY <1>1, WaitingFinite DEF Before
    <3>2. Cardinality(Before(m)') <= Cardinality(Before(m)) /\ Cardinality(Before(m)') \in Nat
      BY <2>6, <3>1, FS_Subset, FS_CardinalityType
    <3>. QED BY <2>2, <3>1, <3>2, LimitsAssumption
  <2>. QED BY <2>4, <2>7, UnsettledIs
<1>2. TypeOK /\ TypeOK' /\ ScanInv /\ ListInv /\ PriceInv /\ [Next]_vars => [OldestKeepTheirPlaces]_vars
  BY <1>1 DEF OldestKeepTheirPlaces
<1>. QED BY <1>2, TypeCorrect, PTL DEF Spec
=============================================================================
