--------------------------- MODULE MCHybridRouting ---------------------------
EXTENDS HybridRouting

Both == {s \in SetupRecords : s.local /\ s.cloud}
LocalAlone == {s \in SetupRecords : s.local /\ ~s.cloud /\ ~s.prefers}
==============================================================================
