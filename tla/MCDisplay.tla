----------------------------- MODULE MCDisplay -----------------------------
EXTENDS Display

ShownOf ==
  {[status |-> "idle", camera |-> TRUE], [status |-> "printing", camera |-> FALSE],
   [status |-> "feed", camera |-> FALSE]}

\* A screen that is kept awake goes off later.
DimAtOf == [keep \in BOOLEAN |-> 1]
OffAtOf == [keep \in BOOLEAN |-> IF keep THEN 3 ELSE 2]
=============================================================================
