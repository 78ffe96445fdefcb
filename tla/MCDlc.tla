--------------------------------- MODULE MCDlc --------------------------------
EXTENDS Dlc

CONSTANTS intf, c1, c2, c3

MCUsers == {c1, c2, c3}
=============================================================================
