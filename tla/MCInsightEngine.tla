---------------------------- MODULE MCInsightEngine ----------------------------
(* InsightEngine for TLC: a clean win, a win over two rejections, a fallback. *)
EXTENDS InsightEngine

MCGroups == <<"a", "b", "c">>

MCFacts ==
  [a |-> [model |-> "arima", wmape |-> 823, fallback |-> FALSE, rejected |-> 0,
          candidates |-> 2, caveats |-> 0, others |-> {85}, told |-> {}],
   b |-> [model |-> "xgboost", wmape |-> 2600, fallback |-> FALSE, rejected |-> 2,
          candidates |-> 3, caveats |-> 1, others |-> {-250}, told |-> {31}],
   c |-> [model |-> "seasonal_naive", wmape |-> None, fallback |-> TRUE, rejected |-> 3,
          candidates |-> 3, caveats |-> 2, others |-> {}, told |-> {}]]

Says(model, figures) ==
  [model |-> model, reasons |-> 1, confidence |-> 9000, caveats |-> 0, words |-> 40,
   figures |-> figures, asides |-> {7700}]

\* Right for the first group, with a made-up figure for it -- another group's, or a
\* small one that is not whole -- and right for the second; each is wrong for the
\* other groups, and all have a made-up figure among their caveats.
MCResponses ==
  {[payload |-> Says("arima", {800, 1200}), tokens |-> 300],
   [payload |-> Says("arima", {800, 1050, 2600}), tokens |-> 300],
   [payload |-> Says("xgboost", {2600}), tokens |-> None]}

Configured(sides, budget, priced) ==
  [enabled |-> TRUE, sides |-> sides, budget |-> budget, prompts |-> TRUE, priced |-> priced]

MCConfigs ==
  {Configured({"primary"}, None, Tiers),
   Configured(Sides, 700, {"complex"}),
   Configured({"fallback"}, 400, Tiers),
   Configured({}, None, {}),
   [Configured({"primary"}, None, {}) EXCEPT !.prompts = FALSE],
   [Configured({"primary"}, 400, {}) EXCEPT !.prompts = FALSE],
   [Configured(Sides, None, {}) EXCEPT !.enabled = FALSE]}
================================================================================
