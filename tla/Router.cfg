\* Every graph of three nodes and three arches with costs 0, 1 and
\* INT_MAX, every start and destination, and every scan order.  The
\* function returns, so the run stops.
CONSTANTS
    n1 = n1
    n2 = n2
    n3 = n3
    a1 = a1
    a2 = a2
    a3 = a3
    Nodes <- MCNodes
    Arcs <- MCArcs
    ArcCosts <- MCArcCosts
    IntWidth = 8
    None = None
SPECIFICATION Spec
INVARIANT TypeOK DoneAreShortest RouteMatchesCost
PROPERTY RouterReturns
CHECK_DEADLOCK FALSE
