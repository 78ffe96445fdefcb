\* Three outbound calls on a 3-bit call reference field, sharing a DLC
\* with autorelease configured.
CONSTANTS
    intf = intf
    c1 = c1
    c2 = c2
    c3 = c3
    Owner = intf
    Calls <- MCCalls
    CallRefBits = 3
    AutoreleaseTime = 10
SPECIFICATION Spec
INVARIANT TypeOK RefsUnique RefsInRange NoAutoreleaseWhileHeld
PROPERTY TakeIsFirstFree
