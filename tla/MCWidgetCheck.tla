--------------------------- MODULE MCWidgetCheck ---------------------------
(***************************************************************************)
(* Totals of zero and of ten, where a filter and the next one differ at    *)
(* first; a defect of ten; a tolerance of half the total.                  *)
(***************************************************************************)
EXTENDS WidgetCheck

MCTotals == {0, 10}
MCDatabases == {totals \in [Filters -> MCTotals] : \A f \in Rounds : totals[f - 1] # totals[f]}
MCDefects == {0, 10}
MCTolerance == Percentage(50)
=============================================================================
