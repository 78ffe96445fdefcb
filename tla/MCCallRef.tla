------------------------------ MODULE MCCallRef ------------------------------
EXTENDS CallRef

CONSTANTS k1, k2, k3, k4

\* Three slots: fewer outbound calls than references (the pass run uses
\* a 3-bit field, 7 references), so the space never runs out.
MCSlots3 == {k1, k2, k3}
\* Four slots with a 2-bit field: every reference 1..3 can be in use.
MCSlots4 == {k1, k2, k3, k4}
=============================================================================
