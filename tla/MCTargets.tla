----------------------------- MODULE MCTargets ------------------------------
\* Targets for TLC: every identifier of up to two characters.
EXTENDS Targets

ShortIds == {<<>>} \cup {<<c>> : c \in {"a", "/"}}
              \cup {<<c, d>> : c, d \in {"a", "/"}}
=============================================================================
