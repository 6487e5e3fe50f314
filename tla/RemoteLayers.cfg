SPECIFICATION Spec
CONSTANTS
    s1 = s1
    s2 = s2
    c1 = c1
    Maps <- MixedMaps
    Servers = {s1, s2}
    Cookies = {c1}
    None = None
INVARIANTS
    RequestsComplete
    AskedAsConfigured
    EssentialPainted
    PaintedOrRefused
    PaintedInTurn
PROPERTY
    DrawEnds
