---------------------------- MODULE MCTelemetry -----------------------------
\* Telemetry for TLC: the slots of each kind are interchangeable.
EXTENDS Telemetry, TLC

Symmetry == Permutations(Requests) \cup Permutations(Pollers)
              \cup Permutations(Closers)
=============================================================================
