\* The last reference is dropped while the autorelease timer is pending.
CONSTANTS
    intf = intf
    c1 = c1
    c2 = c2
    c3 = c3
    Owner = intf
    Users <- MCUsers
    AutoreleaseTime = 10
SPECIFICATION Spec
INVARIANT NoTimerAfterFree
CHECK_DEADLOCK FALSE
