----------------------------- MODULE MCRegistry -----------------------------
\* Registry for TLC: pointers, IDs, providers and keys are interchangeable.
EXTENDS Registry, TLC

Symmetry == Permutations(Defs) \cup Permutations(Ids)
              \cup Permutations(Providers) \cup Permutations(Keys)
=============================================================================
