----------------------------- MODULE MCFaasSweep -----------------------------
(* Two functions, the second capped at the lower of two rates.              *)
EXTENDS FaasSweep

TwoFunctions == {1, 2}
TwoRates == {1, 2}
OneCapped == [f \in TwoFunctions |-> IF f = 1 THEN 2 ELSE 1]

\* The order of the plan, against the sort of the community modules.
ASSUME PlanIsSorted == Plan = SetToSortSeq(Configurations, Before)
=============================================================================
