------------------------------ MODULE MCStPort ------------------------------
EXTENDS StPort

\* G1/F0, G1, G2, G3/F3 and F7: the deactivated and active states of both
\* roles and the NT state that needs the G2 to G3 write.
MCLineStates == {0, 1, 2, 3, 7}
=============================================================================
