\* Three calls sharing a DLC with autorelease configured.  A freed DLC takes
\* no further steps, so the run may stop.
CONSTANTS
    intf = intf
    c1 = c1
    c2 = c2
    c3 = c3
    Owner = intf
    Users <- MCUsers
    AutoreleaseTime = 10
SPECIFICATION Spec
INVARIANT TypeOK NoAutoreleaseWhileHeld
CHECK_DEADLOCK FALSE
