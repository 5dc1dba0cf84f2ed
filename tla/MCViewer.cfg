SPECIFICATION FairSpec
CONSTANTS
    v1 = v1
    ann = ann
    bob = bob
    None = None
    Viewers = {v1}
    Operators = {ann, bob}
    MaxPayload = 3
    MaxBuffer = 5
    MaxDuration = 3
    ConnectTimeout = 1
    MaxToken = 4
    LeaseTime = 2
INVARIANTS TypeOK InputCameFromTheHolder LifetimeIsBounded
PROPERTY ViewersEnd
