----------------------------- MODULE WeatherScan -----------------------------
(***************************************************************************)
(* `pwmk weather scan` and `pwmk weather audit-titles` (cli/main.py), one  *)
(* process from its list of markets to the report it prints: the titles    *)
(* that WeatherTitles parses, the forecast, the order books, and the       *)
(* signal and paper order whose arithmetic is SignalMath's.                *)
(*                                                                         *)
(* The scan implements a scan of PaperTrading, where any number of them    *)
(* and of settlement syncs overlap.  Rows that nothing reads back (market  *)
(* bundle, spec, forecast, books) are left out.                            *)
(***************************************************************************)
EXTENDS WeatherTitles, SignalMath

CONSTANTS
    Markets, Named,        \* the listed markets; those with a conditionId
    NoMarket,
    ScanSources,           \* the values --source takes
    ScanLimit, TagLimit,   \* bounds: markets of a request
    Asks, Ensembles, Books,\* inputs of a market: titles, member values, books
    Missing,               \* the null of a member without a value
    Bankrolls,             \* bankroll_usd, in cents
    MinConfidence          \* --min-confidence, in hundredths

ASSUME InputsAssumption ==
    /\ IsFiniteSet(Markets) /\ Named \subseteq Markets /\ NoMarket \notin Markets
    /\ ScanSources \subseteq {"keyword", "both", "weather-tag"}
    /\ ScanLimit \in Nat /\ TagLimit \in Nat /\ MinConfidence \in Nat
    /\ \A m \in Markets :
         /\ Asks[m] \subseteq Ask
         /\ Ensembles[m] \subseteq Seq({Missing} \cup Int)
         /\ Books[m] \subseteq [bids : SUBSET (0 .. 100), asks : SUBSET (0 .. 100)]
    /\ Bankrolls \subseteq Nat

VARIABLES
    command,  \* what runs, with its options; "none" before the start
    pc, list, \* where it is, and the markets it has yet to take up
    cur,      \* its locals in the loop
    done,     \* history: the markets it has taken up
    report,   \* the counters of its report
    signals,  \* table weather_signals, row id = position
    orders    \* table weather_paper_orders, row id = position

vars == <<command, pc, list, cur, done, report, signals, orders>>

Reasons == {"missing_condition_id", "unknown_location", "low_confidence", "stale_event_date",
            "no_order_book", "forecast_fetch_failed", "order_book_fetch_failed", "no_signal",
            "not_weather_candidate", "missing_date", "unsupported_weather_type",
            "missing_location", "missing_comparator", "missing_threshold", "parsed"}

NoCommand == [name |-> "none", paper |-> FALSE, bankroll |-> 0]
NoEntry == [market |-> NoMarket, request |-> "keyword"]
NoAsk == [subject |-> "election", place |-> "none", comparator |-> "none", number |-> <<>>,
          unit |-> "none", date |-> NoDate, order |-> "plain"]
Idle == [entry |-> NoEntry, ask |-> NoAsk, spec |-> NoSpec, tokens |-> {}, yes |-> Zero,
         signal |-> 0]

Init ==
    /\ command = NoCommand /\ pc = "idle" /\ list = <<>> /\ cur = Idle /\ done = {}
    /\ report = [seen |-> 0, parsed |-> 0, forecasted |-> 0, signals |-> 0, orders |-> 0,
                 reasons |-> [r \in Reasons |-> 0]]
    /\ signals = <<>> /\ orders = <<>>

\* A step from one place of the command to another.
Go(from, to) == pc = from /\ pc' = to

\* Broken variant: the first count stays.
BumpToOne(count, reason) == [count EXCEPT !.reasons[reason] = 1]

\* _bump
Bump(count, reason) == [count EXCEPT !.reasons[reason] = @ + 1]
-----------------------------------------------------------------------------
(* The list. *)

StartScan ==
    /\ \E source \in ScanSources, paper \in BOOLEAN, bankroll \in Bankrolls :
         /\ Go("idle", source)
         /\ command' = [name |-> "scan", paper |-> paper, bankroll |-> bankroll]
    /\ UNCHANGED <<list, cur, done, report, signals, orders>>

StartAudit ==
    /\ \E source \in ScanSources : Go("idle", source)
    /\ command' = [NoCommand EXCEPT !.name = "audit"]
    /\ UNCHANGED <<list, cur, done, report, signals, orders>>

Entries(ms, request) == [i \in DOMAIN ms |-> [market |-> ms[i], request |-> request]]

\* Broken variant: the two lists are concatenated as they came.
KeepAll(entries) == entries

\* _dedupe_markets: the first entry of a market stays.
Dedupe(entries) ==
    FoldLeft(LAMBDA kept, e : IF \E i \in DOMAIN kept : kept[i].market = e.market
                              THEN kept ELSE Append(kept, e),
             <<>>, entries)

Listed(entries) ==
    /\ list' = entries
    /\ report' = [report EXCEPT !.seen = Len(entries)]
    /\ UNCHANGED <<command, cur, done, signals, orders>>

\* fetch_weather_markets: the active markets whose title is a candidate.
FetchKeyword ==
    \E ms \in SetToAllKPermutations(Markets) :
        /\ Len(ms) <= ScanLimit
        /\ Go("keyword", "next") \/ Go("both", "weather-tag")
        /\ Listed(Dedupe(Entries(ms, "keyword")))

\* fetch_weather_tagged_markets: the markets of open events, whatever their titles.
FetchTagged ==
    \E ms \in SetToAllKPermutations(Markets) :
        /\ Len(ms) <= TagLimit
        /\ Go("weather-tag", "next")
        /\ Listed(Dedupe(list \o Entries(ms, "weather-tag")))

\* The loop takes up the next market, with its title.  A scan skips a market
\* without a conditionId; an audit does not look at it.
TakeUp ==
    /\ pc = "next" /\ list # <<>>
    /\ LET e == Head(list)
       IN  /\ list' = Tail(list) /\ done' = done \cup {e.market}
           /\ IF command.name = "scan" /\ e.market \notin Named
              THEN report' = Bump(report, "missing_condition_id") /\ UNCHANGED <<pc, cur>>
              ELSE /\ \E ask \in Asks[e.market] :
                        /\ e.request = "keyword" => SomeOf(Written(ask), Candidates)
                        /\ cur' = [Idle EXCEPT !.entry = e, !.ask = ask]
                   /\ pc' = "parse" /\ UNCHANGED report
    /\ UNCHANGED <<command, signals, orders>>
-----------------------------------------------------------------------------
(* One market. *)

Attempt == Parse(Written(cur.ask))

\* An impossible date ends the command with the markets that are left.
RaiseOnDate ==
    /\ Go("parse", "aborted") /\ Attempt.reason = "ValueError"
    /\ cur' = Idle
    /\ UNCHANGED <<command, list, done, report, signals, orders>>

AuditTitle ==
    /\ Go("parse", "next") /\ command.name = "audit" /\ Attempt.reason # "ValueError"
    /\ report' = [Bump(report, Attempt.reason) EXCEPT
                    !.parsed = IF Attempt.reason = "parsed" THEN @ + 1 ELSE @]
    /\ cur' = Idle
    /\ UNCHANGED <<command, list, done, signals, orders>>

\* Back to the head of the loop with a reason.
SkipFor(from, count, reason) ==
    /\ Go(from, "next")
    /\ report' = Bump(count, reason)
    /\ cur' = Idle
    /\ UNCHANGED <<command, list, done, signals, orders>>

\* Why the scan leaves a title that parses, in the order of its questions.
Doubt(spec) ==
    IF ~spec.known THEN "unknown_location"
    ELSE IF Confidence(spec.notes) < MinConfidence THEN "low_confidence"
    ELSE IF spec.days < 0 THEN "stale_event_date" ELSE "none"

\* A spec is saved, and counted as parsed, before its date is looked at.
Counted(doubt) ==
    IF doubt \in {"stale_event_date", "none"} THEN [report EXCEPT !.parsed = @ + 1] ELSE report

SkipTitle ==
    /\ command.name = "scan" /\ Attempt.reason # "ValueError"
    /\ IF Attempt.reason # "parsed" THEN SkipFor("parse", report, Attempt.reason)
       ELSE LET doubt == Doubt(Attempt.spec)
            IN  \/ doubt # "none" /\ SkipFor("parse", Counted(doubt), doubt)
                \/ doubt = "none" /\ SkipFor("parse", Counted(doubt), "no_order_book")

\* The market has a token for yes, and perhaps one for no.
AskForecast ==
    /\ command.name = "scan" /\ Attempt.reason = "parsed" /\ Doubt(Attempt.spec) = "none"
    /\ Go("parse", "forecast")
    /\ \E tokens \in {{"Yes"}, Sides} :
         cur' = [cur EXCEPT !.spec = Attempt.spec, !.tokens = tokens]
    /\ report' = Counted("none")
    /\ UNCHANGED <<command, list, done, signals, orders>>

\* extract_daily_member_values leaves out the members without a value.
Members(values) == [i \in {k \in DOMAIN values : values[k] # Missing} |-> values[i]]

\* The request fails, or no member has a value.
NoForecast == SkipFor("forecast", report, "forecast_fetch_failed")

\* fetch_forecast
Forecast ==
    /\ Go("forecast", "books")
    /\ \E values \in Ensembles[cur.entry.market] :
         /\ DOMAIN Members(values) # {}
         /\ cur' = [cur EXCEPT !.ask = NoAsk, !.spec = NoSpec,
                               !.yes = ProbabilityYes(Members(values), cur.spec)]
    /\ UNCHANGED <<command, list, done, report, signals, orders>>

\* One of the two requests fails; what the other brought is not saved.
NoBooks == SkipFor("books", report, "order_book_fetch_failed")

NoBook == [bids |-> {}, asks |-> {}]

\* The second book is not asked for when the market has no token for no.
Book(token) == IF token \in cur.tokens THEN Books[cur.entry.market] ELSE {NoBook}

BooksRead(yesBook, noBook) ==
    BuildSignal(yesBook, noBook, cur.yes, command.bankroll)

Forecasted == [report EXCEPT !.forecasted = @ + 1]

NoSignal ==
    \E yesBook \in Book("Yes"), noBook \in Book("No") :
        /\ BooksRead(yesBook, noBook) = {}
        /\ SkipFor("books", Forecasted, "no_signal")

\* build_signal finds an offer and save_weather_signal stores it.
StoreSignal(id) ==
    /\ \E yesBook \in Book("Yes"), noBook \in Book("No") :
         \E offer \in BooksRead(yesBook, noBook) :
            signals' = Append(signals,
                [market |-> cur.entry.market, side |-> offer.side, yes |-> cur.yes,
                 price |-> offer.price, stake |-> offer.stake])
    /\ report' = [Forecasted EXCEPT !.signals = @ + 1]
    /\ IF command.paper
       THEN Go("books", "order") /\ cur' = [cur EXCEPT !.yes = Zero, !.signal = id]
       ELSE Go("books", "next") /\ cur' = Idle
    /\ UNCHANGED <<command, list, done, orders>>

\* Broken variant: the id is read before the INSERT.
SaveSignalStaleId == StoreSignal(Len(signals))

SaveSignal == StoreSignal(Len(signals) + 1)

SaveOrder ==
    /\ Go("order", "next")
    /\ LET s == signals[cur.signal]
       IN  orders' = Append(orders,
             [signal |-> cur.signal, market |-> s.market, side |-> s.side, price |-> s.price,
              stake |-> s.stake, quantity |-> Quantity(s.stake, s.price)])
    /\ report' = [report EXCEPT !.orders = @ + 1]
    /\ cur' = Idle
    /\ UNCHANGED <<command, list, done, signals>>

\* The list is done and the report is printed.
EndCommand ==
    /\ Go("next", "end") /\ list = <<>>
    /\ UNCHANGED <<command, list, cur, done, report, signals, orders>>

\* The command is killed, or a request for the list or a transaction raises.
Abort ==
    /\ pc \notin {"idle", "end", "aborted"} /\ pc' = "aborted"
    /\ cur' = Idle
    /\ UNCHANGED <<command, list, done, report, signals, orders>>
-----------------------------------------------------------------------------
Next ==
    \/ StartScan \/ StartAudit \/ FetchKeyword \/ FetchTagged \/ TakeUp
    \/ RaiseOnDate \/ AuditTitle \/ SkipTitle \/ AskForecast
    \/ NoForecast \/ Forecast \/ NoBooks \/ NoSignal \/ SaveSignal \/ SaveOrder
    \/ EndCommand \/ Abort

Spec == Init /\ [][Next]_vars
-----------------------------------------------------------------------------
(* The scan of PaperTrading that this one is: it takes a market up where    *)
(* this one lets go of its title, and an audit is nothing to it.            *)

PaperPc ==
    CASE command.name = "audit" \/ pc \in {"idle", "end", "aborted"} -> "idle"
      [] command.name = "scan" /\ pc \in {"next", "parse"} -> "next"
      [] command.name = "scan" /\ pc \in {"forecast", "books"} -> "quote"
      [] OTHER -> pc

PaperScan ==
    LET left == ToSet(list) \cup (IF pc = "parse" THEN {cur.entry} ELSE {})
        todo == {e \in left : e.market \in Named}
        held == PaperPc \in {"quote", "order"}
    IN  IF PaperPc = "idle"
        THEN [pc |-> "idle", todo |-> {}, market |-> NoMarket, side |-> "Yes", signal |-> 0,
              done |-> {}]
        ELSE [pc |-> PaperPc, todo |-> {<<e.market, e.request>> : e \in todo},
              market |-> IF held THEN cur.entry.market ELSE NoMarket,
              side |-> IF pc = "order" THEN signals[cur.signal].side ELSE "Yes",
              signal |-> cur.signal,
              done |-> (done \cap Named) \ {e.market : e \in todo}]

Paper == INSTANCE PaperTrading WITH
    Scans <- {"scan"}, Syncs <- {}, Markets <- Named,
    SyncLimit <- 0, MaxSignals <- Cardinality(Named), MaxReversals <- 0, MaxFailures <- 0,
    world <- [m \in Named |-> [closed |-> FALSE, decisive |-> {}]],
    scan <- [j \in {"scan"} |-> PaperScan], sync <- [j \in {} |-> 0],
    signals <- [i \in DOMAIN signals |->
                  [market |-> signals[i].market, side |-> signals[i].side]],
    orders <- [i \in DOMAIN orders |->
                  [signal |-> orders[i].signal, market |-> orders[i].market,
                   side |-> orders[i].side, status |-> "open", late |-> FALSE]],
    settlements <- [m \in {} |-> "Yes"], decided <- {}, reversals <- 0, failures <- 0
-----------------------------------------------------------------------------
(* Properties. *)

Total(reasons) == MapThenSumSet(LAMBDA r : report.reasons[r], reasons)

TypeOK ==
    /\ command \in [name : {"none", "scan", "audit"}, paper : BOOLEAN, bankroll : Bankrolls \cup {0}]
    /\ pc \in {"idle", "keyword", "both", "weather-tag", "next", "parse", "forecast", "books",
               "order", "end", "aborted"}
    /\ list \in Seq([market : Markets, request : {"keyword", "weather-tag"}])
    /\ done \subseteq Markets
    /\ cur.ask \in Ask /\ cur.tokens \subseteq Sides
    /\ cur.yes.den > 0 /\ cur.yes.num \in 0 .. cur.yes.den
    /\ pc = "order" => cur.signal \in DOMAIN signals
    /\ \A r \in Reasons : report.reasons[r] \in 0 .. report.seen
    /\ \A i \in DOMAIN signals :
         signals[i].price \in 1 .. 99 /\ signals[i].stake \in Nat /\ signals[i].side \in Sides
    /\ \A i \in DOMAIN orders :
         orders[i].signal \in DOMAIN signals /\ orders[i].quantity \in Nat

\* The scan in full, with its parser, list, arithmetic and report, does nothing
\* the scan of PaperTrading could not do: what is checked there of overlapping
\* scans and syncs is about this one.
ImplementsPaperTrading == Paper!Spec

\* The report of a command that ended accounts for every market once: skipped
\* for one reason, at the one place it dropped out, or turned into a signal
\* that is in the table (cli/main.py, the counters of _weather_scan and
\* _weather_audit_titles).
ReportAddsUp ==
    pc = "end" =>
        /\ command.name = "audit" =>
              report.seen = Total(Reasons) /\ report.parsed = report.reasons["parsed"]
        /\ command.name = "scan" =>
              /\ report.forecasted = report.signals + report.reasons["no_signal"]
              /\ report.parsed = report.forecasted
                    + Total({"stale_event_date", "no_order_book", "forecast_fetch_failed",
                             "order_book_fetch_failed"})
              /\ report.seen = report.signals + Total(Reasons)
              /\ report.signals = Len(signals) /\ report.orders = Len(orders)
              /\ Len(orders) = IF command.paper THEN Len(signals) ELSE 0

\* What a signal puts at risk, rounded to cents as it is: never more than
\* either limit or than there is, and never more than the fraction of Kelly's
\* stake (risk.py) by more than half a cent.
StakesWithinLimits ==
    \A i \in DOMAIN signals :
        LET s == signals[i]
            kelly == Kelly(ProbabilityOf(s.side, s.yes), s.price)
        IN  /\ s.stake > 0 /\ s.stake <= command.bankroll
            /\ s.stake <= MaxTrade /\ s.stake <= MaxMarket
            /\ 2 * s.stake * Fraction * kelly.den
                 <= 2 * command.bankroll * kelly.num + Fraction * kelly.den

\* An order pays if its side wins, and on the forecast it was placed on it pays
\* on average, at the smallest stake and the largest price too, where its
\* quantity is rounded; if it loses it costs its stake and no more.
OrdersExpectToGain ==
    \A i \in DOMAIN orders :
        LET o == orders[i]
            p == ProbabilityOf(o.side, signals[o.signal].yes)
        IN  /\ PaperPnl(o, o.side) > 0
            /\ p.num * o.quantity > 100 * o.stake * p.den
            /\ \A other \in Sides \ {o.side} : PaperPnl(o, other) = -100 * o.stake

\* A title the scan asks a forecast for is one the parser knows the place of
\* and had to guess at most one thing about: the minimum of confidence admits
\* no two guesses together, whichever they are.
AtMostOneGuess ==
    pc = "forecast" => cur.spec.known /\ Cardinality(cur.spec.notes) <= 1

\* Questions put the usual way: subject, place, comparator and number, date.
Plain(ask) ==
    /\ Lexicon[ask.subject].means # "none" /\ ask.subject # "overnight low"
    /\ ask.place = "known" /\ ask.comparator # "none"
    /\ ask.number # <<>> /\ ask.order = "plain"
    /\ ask.unit \in IF Lexicon[ask.subject].means = "precip_sum" THEN {"inch", "mm"} ELSE {"F", "C"}

\* A question put the usual way is forecast as it was asked: its subject, its
\* comparator, strict or not, its number and not the date's, its unit, its day.
ReadsAsAsked ==
    pc = "forecast" /\ Plain(cur.ask) =>
        /\ cur.spec.metric = Lexicon[cur.ask.subject].means
        /\ cur.spec.comparator = Lexicon[cur.ask.comparator].means
        /\ cur.spec.threshold = cur.ask.number[1] /\ cur.spec.unit = cur.ask.unit
        /\ cur.spec.days = Days(cur.ask.date)

\* A number of the title's date is not compared with, unless it is the number
\* that was asked for too (weather_market_parser.py:267, "Prefer the number
\* nearest comparator language instead of dates").
NumberIsNotTheDate ==
    pc = "forecast" /\ cur.spec.threshold \in ToSet(cur.ask.date.numbers) =>
        cur.spec.threshold \in ToSet(cur.ask.number)
=============================================================================
