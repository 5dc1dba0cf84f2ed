SPECIFICATION FairSpec
CONSTANTS
    loop = loop
    p1 = p1
    k1 = k1
    k2 = k2
    ann = ann
    bob = bob
    None = None
    Loop = loop
    Pool = {p1}
    Kids = {k1, k2}
    Requests <- MCRequests
    Insistent <- MCInsistent
    Environments <- MCEnvironments
    TTL = 3
    RateLimit = 2
    Timeout = 1
INVARIANT TypeOK
PROPERTIES WithdrawnKeyStops RefreshIsSpaced HandlersAreGuarded AccessReturns
