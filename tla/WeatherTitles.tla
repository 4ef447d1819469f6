---------------------------- MODULE WeatherTitles ----------------------------
(***************************************************************************)
(* parse_with_reason of parsing/weather_market_parser.py: what the parser  *)
(* makes of a market's title.                                              *)
(*                                                                         *)
(* A title is a sequence of words, and a word is what the parser's regular *)
(* expressions and substring tests find in it: the phrases it contains     *)
(* (also by accident: "overnight" contains "over"), its numbers with their *)
(* unit, a date, a place.  How characters match is left out; the order of  *)
(* the attempts, and which match wins, is the model.                       *)
(***************************************************************************)
EXTENDS Integers, Sequences, FiniteSets, SequencesExt, TLC

CONSTANT Reach   \* the 30 characters _parse_threshold looks around, in words

ASSUME ReachAssumption == Reach \in Nat

NoDate == [form |-> "none", year |-> FALSE, days |-> 0, exists |-> TRUE, leap |-> FALSE,
           numbers |-> <<>>]

\* A date as it is written: with its month's name or with slashes, with a year
\* or without; days from today in this year; does it exist this year, and is
\* it a 29th of February.
Dates == [form : {"none", "month", "slash"}, year : BOOLEAN, days : Int,
          exists : BOOLEAN, leap : BOOLEAN, numbers : Seq(Int)]

Word(says) == [says |-> says, numbers |-> <<>>, unit |-> "none",
               date |-> NoDate, place |-> "none"]

Says(title) == UNION {title[i].says : i \in DOMAIN title}
SomeOf(title, phrases) == Says(title) \cap phrases # {}

-----------------------------------------------------------------------------
(* The attempts. *)

Candidates == {"weather", "temperature", "rain", "rainfall", "precip", "precipitation",
               "snow", "degrees",
               "degree sign", "hurricane", "storm", "hottest", "coldest", "hotter", "colder",
               "arctic sea ice"}

Unsupported == {"hurricane", "storm", "sea ice", "earthquake", "volcano", "meteor",
                "disaster", "landfall"}

\* The first row of a table with a phrase that the title contains decides.
Decide(title, table) ==
    LET rows == {i \in DOMAIN table : SomeOf(title, table[i].phrases)}
    IN  IF rows = {} THEN "none" ELSE table[Min(rows)].means

MetricRows == <<
    [means |-> "precip_sum", phrases |-> {"rain", "rainfall", "precip", "precipitation"}],
    [means |-> "low_temp",   phrases |-> {" low ", "low temperature", "lowest temperature",
                                          "minimum", "min temp", "overnight low", "colder"}],
    [means |-> "high_temp",  phrases |-> {" high ", "high temperature", "highest temperature",
                                          "maximum", "max temp", "hit", "reach", "hotter",
                                          "degrees", "degree sign"}]>>

Metric(title) == Decide(title, MetricRows)

ComparatorRows == <<
    [means |-> "at_or_above", phrases |-> {"or higher", "or above", "at least", "reach", "hit",
                                           "hotter"}],
    [means |-> "above",       phrases |-> {"above", "over", "exceed", "greater than"}],
    [means |-> "at_or_below", phrases |-> {"or lower", "or below", "at most", "no more than"}],
    [means |-> "below",       phrases |-> {"below", "under", "less than", "colder"}]>>

\* Broken variant: the strict comparators are tried first.
ComparatorStrictFirst(title) == Decide(title,
    <<ComparatorRows[2], ComparatorRows[1], ComparatorRows[4], ComparatorRows[3]>>)

Comparator(title) == Decide(title, ComparatorRows)

\* will, does, do, did or is, and rain after it
AsksIfAnyRain(title) == \E i, k \in DOMAIN title :
    i <= k /\ "will" \in title[i].says /\ "rain" \in title[k].says

\* Of the first date with a month's name, else of the first with slashes: the
\* days from today.  Without a year it is this year's, or next year's when this
\* one's is more than 30 days past; date() raises when there is no such day.
DateIn(title) ==
    LET dated(form) == {i \in DOMAIN title : title[i].date.form = form}
        first == IF dated("month") # {} THEN dated("month") ELSE dated("slash")
    IN  IF first = {} THEN NoDate ELSE title[Min(first)].date

TurnsOver(d) == ~d.year /\ d.days < -30
Raises(d) == ~d.exists \/ (TurnsOver(d) /\ d.leap)
Days(d) == IF TurnsOver(d) THEN d.days + 365 ELSE d.days

\* The unit of the k-th number of a word.  "in" is short for inches: so is the
\* one of a place ("in Denver") that follows the number.
UnitAt(title, i, k) ==
    IF /\ title[i].unit = "none" /\ k = Len(title[i].numbers)
       /\ i < Len(title) /\ title[i + 1].place # "none"
    THEN "inch" ELSE title[i].unit

\* The numbers of the title, each at its word and its place in it: for rain those
\* with a unit of length, for a temperature every one; those of a date are among them.
Matches(title, metric) ==
    LET units == IF metric = "precip_sum" THEN {"inch", "mm"} ELSE {"F", "C"}
        match(i, k) ==
            [at |-> i, nth |-> k, value |-> title[i].numbers[k],
             unit |-> IF UnitAt(title, i, k) \in units THEN UnitAt(title, i, k) ELSE "none"]
        all == UNION {{match(i, k) : k \in DOMAIN title[i].numbers} : i \in DOMAIN title}
    IN  IF metric = "precip_sum" THEN {m \in all : m.unit # "none"} ELSE all

NearComparator(title, i) == \E k \in DOMAIN title :
    /\ k # i /\ k <= i + Reach /\ i <= k + Reach
    /\ title[k].says \cap {"above", "below", "over", "under", "higher", "lower"} # {}

NoMatch == [at |-> 0, nth |-> 0, value |-> 0, unit |-> "none"]

\* The match that a scan from the left meets first.
FirstOf(matches) == CHOOSE m \in matches :
    \A n \in matches : m.at < n.at \/ (m.at = n.at /\ m.nth <= n.nth)

\* The first number near a comparator, else the first number.
Threshold(title, metric) ==
    LET all  == Matches(title, metric)
        near == {m \in all : NearComparator(title, m.at)}
    IN  IF all = {} THEN NoMatch ELSE FirstOf(IF near = {} THEN all ELSE near)
-----------------------------------------------------------------------------
(* The attempt as a whole. *)

\* What the parser has to guess, and the hundredths of confidence it costs.
\* Broken variant: a guessed unit costs ten.
PenaltyMild(note) ==
    CASE note = "metric_inferred" -> 20 [] note = "unknown_location" -> 30
      [] note = "any_rain" -> 10 [] note = "unit_inferred" -> 10

Penalty(note) ==
    CASE note = "metric_inferred" -> 20 [] note = "unknown_location" -> 30
      [] note = "any_rain" -> 10 [] note = "unit_inferred" -> 15

Confidence(notes) == 100 - MapThenSumSet(Penalty, notes)

NoSpec == [metric |-> "none", comparator |-> "none", threshold |-> 0, unit |-> "none",
           known |-> FALSE, days |-> 0, notes |-> {}]

\* The obstacles in the order in which the attempt meets them.  "ValueError" is
\* no reason of the parser's: date() raises it, and nothing catches it here.
Parse(title) ==
    LET date     == DateIn(title)
        metric   == IF Metric(title) = "none" THEN "high_temp" ELSE Metric(title)
        placed(p) == \E i \in DOMAIN title : title[i].place = p
        anyRain  == metric = "precip_sum" /\ AsksIfAnyRain(title)
        said     == Comparator(title)
        match    == Threshold(title, metric)
        guessed  == [metric_inferred |-> Metric(title) = "none",
                     unknown_location |-> ~placed("known"),
                     any_rain |-> match = NoMatch /\ anyRain,
                     unit_inferred |-> match # NoMatch /\ match.unit = "none"]
        obstacles == <<
            <<"not_weather_candidate", ~SomeOf(title, Candidates)>>,
            <<"missing_date", date = NoDate>>,
            <<"ValueError", Raises(date)>>,
            <<"unsupported_weather_type", guessed.metric_inferred /\ SomeOf(title, Unsupported)>>,
            <<"missing_location", ~placed("known") /\ ~placed("unknown")>>,
            <<"missing_comparator", said = "none" /\ ~anyRain>>,
            <<"missing_threshold", match = NoMatch /\ ~anyRain>> >>
        met      == {i \in DOMAIN obstacles : obstacles[i][2]}
    IN  IF met # {} THEN [reason |-> obstacles[Min(met)][1], spec |-> NoSpec]
        ELSE [reason |-> "parsed", spec |->
            [metric |-> metric,
             comparator |-> IF guessed.any_rain \/ said = "none" THEN "above" ELSE said,
             threshold |-> match.value,
             unit |-> IF match.unit # "none" THEN match.unit
                      ELSE IF metric = "precip_sum" THEN "inch" ELSE "F",
             known |-> placed("known"), days |-> Days(date),
             notes |-> {n \in DOMAIN guessed : guessed[n]}]]
-----------------------------------------------------------------------------
(* Titles as people write them: what is asked, and the words it is asked in. *)

Phrase(says, means) == [says |-> says, means |-> means]

Subjects == {"election", "hurricane", "temperature", "rain", "rainfall",
             "high temperature", "low temperature", "overnight low"}
Trailing == {"or above", "or higher", "or below"}
Comparators == {"above", "reach", "below", "at most"} \cup Trailing

Lexicon == [phrase \in Subjects \cup Comparators |->
    CASE phrase = "election"         -> Phrase({}, "none")
      [] phrase = "hurricane"        -> Phrase({"hurricane"}, "none")
      [] phrase = "temperature"      -> Phrase({"temperature"}, "none")
      [] phrase = "rain"             -> Phrase({"rain"}, "precip_sum")
      [] phrase = "rainfall"         -> Phrase({"rainfall"}, "precip_sum")
      [] phrase = "high temperature" ->
            Phrase({" high ", "high temperature", "temperature"}, "high_temp")
      [] phrase = "low temperature"  ->
            Phrase({" low ", "low temperature", "temperature"}, "low_temp")
      [] phrase = "overnight low"    -> Phrase({" low ", "overnight low", "over"}, "low_temp")
      [] phrase = "above"            -> Phrase({"above"}, "above")
      [] phrase = "or above"         -> Phrase({"or above", "above"}, "at_or_above")
      [] phrase = "or higher"        -> Phrase({"or higher", "higher"}, "at_or_above")
      [] phrase = "reach"            -> Phrase({"reach"}, "at_or_above")
      [] phrase = "below"            -> Phrase({"below"}, "below")
      [] phrase = "or below"         -> Phrase({"or below", "below"}, "at_or_below")
      [] phrase = "at most"          -> Phrase({"at most"}, "at_or_below")]

\* The order of the words: "in Denver be above 75 on May 10", "in Denver on May
\* 10 be above 75", "be above 75 on May 10 in Denver".
WordOrders == {"plain", "date first", "place last"}

Ask == [subject : Subjects, place : {"none", "known", "unknown"},
        comparator : {"none"} \cup Comparators,
        number : Seq(Int), unit : {"none", "F", "C", "inch", "mm"},
        date : Dates, order : WordOrders]

\* Fahrenheit is written with the degree sign, Celsius without.
Written(ask) ==
    LET part(phrase) == IF phrase = "none" THEN <<>> ELSE <<Word(Lexicon[phrase].says)>>
        place  == IF ask.place = "none" THEN <<>> ELSE <<[Word({}) EXCEPT !.place = ask.place]>>
        date   == IF ask.date = NoDate THEN <<>>
                  ELSE <<[Word({}) EXCEPT !.date = ask.date, !.numbers = ask.date.numbers]>>
        number == IF ask.number = <<>> THEN <<>>
                  ELSE <<[Word(IF ask.unit = "F" THEN {"degree sign"} ELSE {}) EXCEPT
                            !.numbers = ask.number, !.unit = ask.unit]>>
        asked  == IF ask.comparator \in Trailing THEN number \o part(ask.comparator)
                  ELSE part(ask.comparator) \o number
    IN  <<Word({"will"})>> \o part(ask.subject) \o
        (CASE ask.order = "plain" -> place \o asked \o date
           [] ask.order = "date first" -> place \o date \o asked
           [] ask.order = "place last" -> asked \o date \o place)
=============================================================================
