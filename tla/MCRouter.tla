------------------------------- MODULE MCRouter -------------------------------
EXTENDS Router

CONSTANTS n1, n2, n3, a1, a2, a3

MCNodes == {n1, n2, n3}
MCArcs == {a1, a2, a3}
\* Free arcs, unit arcs and unusable ones (INT_MAX) with 8-bit ints.
MCArcCosts == {0, 1, 2^7 - 1}
=============================================================================
