--------------------------- MODULE MCSuspendResume ---------------------------
EXTENDS SuspendResume

CONSTANTS ch1, ch2, ch3

MCChans == {ch1, ch2, ch3}
\* The zero-length identity and two one-byte identities.
MCIdents == {"", "a", "b"}
\* No deadline, one within the 45 s margin, one beyond it but before
\* T307, and one after T307.
MCDeadlines == {0, 30, 100, 300}
=============================================================================
