SPECIFICATION SSTSpec
CONSTANTS
    k1 = k1
    k2 = k2
    h1 = h1
    h2 = h2
    h3 = h3
    h4 = h4
    h5 = h5
    t1 = t1
    t2 = t2
    t3 = t3
    Keys = {k1, k2}
    Handles = {h1, h2, h3, h4, h5}
    Clients = {t1, t2, t3}
    NoHandle = NoHandle
    Charges = {1}
    Capacity = 1
    MaxRefs = 3
SYMMETRY Symmetry
INVARIANTS
    RefCounts
    ListsAgree
    LookupExact
    UsageExact
    NoLeak
    TableUsable
    NoStaleTable
CHECK_DEADLOCK FALSE
