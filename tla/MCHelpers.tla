----------------------------- MODULE MCHelpers ------------------------------
\* Helpers for TLC.
EXTENDS Helpers

\* Alphas a few samples can tell apart.
Quarters == <<3, 2, 1>>

\* Identifiers without slashes.
PlainIds == {<<>>, <<"a">>, <<"b">>, <<"a", "b">>}
=============================================================================
