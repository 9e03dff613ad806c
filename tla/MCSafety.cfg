CONSTANTS
    Clients = {a, b, c}
    a = a
    b = b
    c = c
    Networks = {n1, n2}
    n1 = n1
    n2 = n2
    Calls = {c1, c2}
    c1 = c1
    c2 = c2
    Keys = {k1, k2}
    k1 = k1
    k2 = k2
    Generations = {g1, g2}
    g1 = g1
    g2 = g2
    Processes = {p1, p2}
    p1 = p1
    p2 = p2
SPECIFICATION Spec
INVARIANTS
    OneSegFollowsMain StreamFaithful NothingAfterWait LiveSound
    HlsSessionsSound HlsFilesSound DatabaseFilesSound IInv
PROPERTIES
    SleepsOnlyWhenFree MainStands AutomaticSound HlsTimersDue
CHECK_DEADLOCK FALSE
