------------------------------ MODULE MCConfig ------------------------------
EXTENDS Config

\* The ADC reaches few of the clocks that can be asked for.
MCAdcClock == [t \in {8, 16} |-> t]
MCBandpasses == {<<-50, 50>>, <<3, -1>>}
Filter(l, u, r, s) == [lower_corner |-> l, upper_corner |-> u, ripple |-> r, settings |-> s]
MCTables == {<<Filter(0, 4, 0, "low"), Filter(2, 6, 1, "high")>>,
             <<Filter(0, 8, 0, "wide")>>}
OneTable == {<<Filter(0, 8, 0, "wide"), Filter(1, 3, 0, "narrow")>>}
AutoOrNone == {AUTO, 0}
AutoOnly == {AUTO}
=============================================================================
