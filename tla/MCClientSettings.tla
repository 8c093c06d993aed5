-------------------------- MODULE MCClientSettings --------------------------
EXTENDS ClientSettings
S(r, f, a) == [rate |-> r, format |-> f, algorithm |-> a]
R(r, f, a) == [calsw |-> 0, rate |-> r, output |-> f, algorithm |-> a]
MCInitially ==
  {R(20, "motion", "six"), R(20, "full", "nine"), R(100, "motion", "nine"), R(20, "old", "nine")}
MCSubmissions ==
  {<<S(100, "motion", "nine"), S(20, "full", "nine")>>,
   <<S(20, "full", "nine"), S(100, "motion", "six")>>,
   <<S(20, "motion", "six"), S(20, "motion", "six")>>}
=============================================================================
