---------------------------- MODULE MCWeatherScan ----------------------------
(* Small instances of WeatherScan for TLC. *)
EXTENDS WeatherScan

CONSTANTS m1, m2, m3

Date(form, year, days, numbers) ==
    [form |-> form, year |-> year, days |-> days, exists |-> TRUE, leap |-> FALSE,
     numbers |-> numbers]

Soon  == Date("month", FALSE, 9, <<10>>)
Slash == Date("slash", FALSE, 9, <<5, 10>>)
SoonDates == {Soon, Slash, Date("month", TRUE, 9, <<10, 2026>>)}
OtherDates == {NoDate, Date("month", FALSE, -3, <<28>>), Date("month", FALSE, -100, <<20>>),
               Date("month", TRUE, -100, <<20, 2026>>),
               [Soon EXCEPT !.exists = FALSE], [Soon EXCEPT !.days = -60, !.leap = TRUE]}

Warm == [subject |-> "high temperature", place |-> "known", comparator |-> "above",
         number |-> <<75>>, unit |-> "F", date |-> Soon, order |-> "plain"]

\* Every subject with every comparator; every place, date and order; every unit,
\* with a number and without.
AllAsks ==
    {[Warm EXCEPT !.subject = s, !.comparator = c, !.unit = u] :
        s \in Subjects, c \in {"none"} \cup Comparators, u \in {"F", "inch"}}
    \cup {[Warm EXCEPT !.place = p, !.date = d, !.order = o] :
        p \in {"none", "known", "unknown"}, d \in SoonDates \cup OtherDates, o \in WordOrders}
    \cup {[Warm EXCEPT !.subject = s, !.number = n, !.unit = u, !.order = o] :
        s \in {"temperature", "low temperature", "rain", "rainfall"}, n \in {<<>>, <<2>>},
        u \in {"none", "C", "mm"}, o \in WordOrders}

MCAsks == (m1 :> AllAsks) @@
          (m2 :> {Warm, [Warm EXCEPT !.date = NoDate]}) @@
          (m3 :> {Warm})

MCEnsembles == (m1 :> {<<>>, <<Missing>>, <<60, 75, 80, Missing>>, <<80, 80, 80, 80, 60>>}) @@
               (m2 :> {<<80, 80, 60>>}) @@ (m3 :> {})

Quotes(bids, asks) == [bids |-> bids, asks |-> asks]

\* Tight, wide, crossed, one-sided, empty, cheap and dear.
MCBooks == (m1 :> {Quotes({40}, {44}), Quotes({40}, {49}), Quotes({60}, {44, 50}),
                   Quotes({}, {20}), Quotes({20}, {}), Quotes({1}, {2}), Quotes({85}, {92}),
                   Quotes({50}, {58}), Quotes({97}, {99})}) @@
           (m2 :> {Quotes({40, 45}, {50}), Quotes({30}, {34})}) @@ (m3 :> {})
=============================================================================
