\* Reference allocation with fewer outbound calls than references.
CONSTANTS
    k1 = k1
    k2 = k2
    k3 = k3
    k4 = k4
    CallRefBits = 3
    Slots <- MCSlots3
SPECIFICATION Spec
INVARIANT TypeOK RefsUnique RefsInRange
PROPERTY TakeIsFirstFree
