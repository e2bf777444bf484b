------------------------- MODULE MCProductionSelection -------------------------
EXTENDS ProductionSelection

Tree == [name |-> "xgboost", family |-> "tree", enabled |-> TRUE, least |-> 24,
         regressors |-> TRUE, searches |-> TRUE]
Forest == [Tree EXCEPT !.name = "lightgbm"]
Arima == [name |-> "arima", family |-> "arima", enabled |-> TRUE, least |-> 20,
          regressors |-> FALSE, searches |-> TRUE]
Tft == [name |-> "tft", family |-> "tft", enabled |-> TRUE, least |-> 60,
        regressors |-> TRUE, searches |-> FALSE]
Naive == [name |-> "seasonal_naive", family |-> "naive", enabled |-> FALSE, least |-> 2,
          regressors |-> FALSE, searches |-> FALSE]

MCRegistry == <<Arima, Tree, Forest, Tft, Naive>>

ASSUME RegistryIsTheDefault == HistoryIsJudged

\* The default fallback, one that competes, one that does not, and a name nobody knows.
Request(models, fallback) == [models |-> models, fallback |-> fallback]

MCRequests ==
  {Request({"arima", "xgboost"}, "seasonal_naive"), Request({"xgboost", "lightgbm"}, "arima"),
   Request({"tft"}, "tft"), Request({"seasonal_naive"}, "prophet")}

\* A seasonal cycle about ten.
Cycle == <<10, 12, 13, 12, 10, 8, 7, 8, 10, 12, 13, 5>>

Seasonal(length) == [i \in 1 .. length |-> Cycle[((i - 1) % 12) + 1]]
Flat(length) == [i \in 1 .. length |-> 10]

Cell(key, date, target) == [key |-> key, date |-> date, target |-> target]

\* A key's values, one every so many days.
Every(days, key, values) == [i \in DOMAIN values |-> Cell(key, days * i, values[i])]

\* Three days at the start of each month.
Daily(key, values, others) ==
  [i \in 1 .. 3 * Len(values) |->
     LET m == (i - 1) \div 3
     IN  Cell(key, 30 * m + ((i - 1) % 3), IF i % 3 = 1 THEN values[m + 1] ELSE others[m + 1])]

Blank(rows, at, field, cell) == [i \in DOMAIN rows |-> IF i \in at THEN [rows[i] EXCEPT ![field] = cell] ELSE rows[i]]

Upload(rows, dates, keyed) ==
  [readable |-> TRUE, columns |-> TRUE, dates |-> dates, keyed |-> keyed, method |-> "sum",
   horizon |-> 6, cloud |-> FALSE, stored |-> TRUE, features |-> FALSE, correlated |-> {},
   rows |-> rows]

\* Three stores: one flat, one seasonal, one too short; a date and a target nobody can
\* read, a row without a store and one that is there twice.
Stores ==
  [Upload(Every(30, 1, Flat(24)) \o Every(30, 2, Seasonal(48)) \o Every(30, 3, Flat(8))
            \o <<Cell(1, Unreadable, 4), Cell(2, 3000, Null), Cell(Null, 30, 7), Cell(2, 30, 10)>>,
          "text", TRUE)
     EXCEPT !.horizon = 12, !.cloud = TRUE, !.features = TRUE, !.correlated = {"lag"}]

Quarters == Upload(Every(90, 1, Seasonal(36)), "datetime", FALSE)

\* Trending, with one date left blank.
Years == Upload(Blank(Every(360, 1, [i \in 1 .. 25 |-> i + 2]), {25}, "date", Null), "datetime", FALSE)

\* Daily sales that add up to a yearly cycle, one row twice and one missing.
Sales ==
  [Upload(Blank(Daily(1, Seasonal(24), [m \in 1 .. 24 |-> 1]), {6}, "target", Null)
            \o <<Cell(1, 0, 10)>>, "text", FALSE)
     EXCEPT !.correlated = {"lag"}]

Monthly24 == Every(30, 1, [i \in 1 .. 24 |-> i])

MCUploads ==
  [stores |-> Stores,
   quarters |-> Quarters,
   years |-> Years,
   sales |-> Sales,
   unreadable |-> [Quarters EXCEPT !.readable = FALSE],
   renamed |-> [Quarters EXCEPT !.columns = FALSE],
   numbers |-> Upload(Monthly24, "numeric", FALSE),
   dates |-> Upload(Blank(Monthly24, {3, 9}, "date", Unreadable), "text", FALSE),
   words |-> Upload(Blank(Monthly24, {3, 9}, "target", Unreadable), "text", FALSE),
   holes |-> Upload(Blank(Monthly24, {3, 9, 15}, "target", Null), "text", FALSE),
   steady |-> Upload(Every(30, 1, Flat(24)), "text", FALSE),
   brief |-> Upload(Every(30, 1, [i \in 1 .. 11 |-> i]), "text", FALSE),
   weeks |-> Upload(Every(7, 1, [i \in 1 .. 40 |-> i]), "text", FALSE),
   level |-> Upload(Daily(1, [i \in 1 .. 14 |-> 2 * i], [i \in 1 .. 14 |-> 20 - i]), "text", FALSE),
   restated |-> Upload(Monthly24 \o <<Cell(1, 30, 9)>>, "datetime", TRUE),
   sparse |-> Upload(Blank(Every(30, 1, Seasonal(135)), {3 * i : i \in 1 .. 10}, "date", Unreadable), "text", FALSE),
   unnamed |-> Upload(Every(30, Null, Seasonal(24)), "text", TRUE),
   nobody |-> Upload(Daily(Null, Seasonal(24), Flat(24)), "text", TRUE),
   strays |-> Upload(Blank(Blank(Every(30, 1, [i \in 1 .. 40 |-> i]), {3, 9}, "target", Unreadable),
                           {20}, "date", Unreadable), "text", FALSE),
   unstored |-> [Quarters EXCEPT !.cloud = TRUE, !.stored = FALSE]]

MCChanges(s) ==
  {[i \in 1 .. s.horizon |-> 0],
   [i \in 1 .. s.horizon |-> IF i % 2 = 1 THEN 2 ELSE -1],
   [i \in 1 .. s.horizon |-> IF i = 1 THEN 5 ELSE 0]}

MCDecoded(s) ==
  {SeasonalNaive(s.values, s.horizon),
   [i \in 1 .. s.horizon |-> IF i = 2 THEN 30 ELSE 10],
   [i \in 1 .. s.horizon |-> IF i = 2 THEN NaN ELSE 10],
   [i \in 1 .. s.horizon |-> NaN],
   [i \in 1 .. s.horizon |-> 9 + (i % 2)],
   [i \in 1 .. s.horizon - 1 |-> 10]}

Measured(x, y) == [m \in Metrics |-> IF m = "mape" THEN x ELSE y]
MCFoldErrors == {Measured(1, 1), Measured(None, 2), Measured(3, 1)}

MCAgreements == {None, 60}

MCImportances ==
  {<<[feature |-> "lag", share |-> 80], [feature |-> "calendar", share |-> 20]>>,
   <<[feature |-> "lag", share |-> 0], [feature |-> "calendar", share |-> 0]>>}
================================================================================
