---------------------------- MODULE MCTelemetry ----------------------------
\* A print goes far with one source, less far with both together.
EXTENDS Telemetry

MovesOf == [m \in Modes |-> CASE m = "hybrid" -> 1 [] m = "cloud" -> 4 [] m = "local" -> 5]
=============================================================================
