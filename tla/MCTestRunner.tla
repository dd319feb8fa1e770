---------------------------- MODULE MCTestRunner ----------------------------
EXTENDS TestRunner

\* In link order, which is not file order; 2 is a fixture test, 3 a death test; 4 and 5 are
\* registered by hand.
MCSection == <<2, 3, 1>>
MCOne == <<1>>
MCDeathSignal == [t \in Deaths |-> 6]

\* No filter, and one that leaves out the first test, and the last if that is 4.
MCFilters == {AllTests, AllTests \ {1, 4}}
=============================================================================
