----------------------------- MODULE MCQ931Intf -----------------------------
EXTENDS Q931Intf

CONSTANTS intf, c1, c2, c3

\* Three outbound calls: fewer than the 7 references of a 3-bit field.
MCCalls == {c1, c2, c3}
=============================================================================
