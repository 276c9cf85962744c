\* What the documents say of tokens of a key that was rotated away.
SPECIFICATION CredSpec
CONSTANTS
    v1 = v1
    v2 = v2
    None = None
    Validation = {v1, v2}
    Validity = 100
    MinForced = 4
    TxMax = 0
    Ttl = 2
    FetchMax = 1
    Lifetime = 8
    Threshold = 7
    AskMax = 1
    MinBackoff = 1
    MaxBackoff = 2
    Leeway = 1
    MaxOutage = 1
    MinUp = 4
    MaxTime = 7
    MaxKeys = 2
SYMMETRY Symmetry
CONSTRAINT Bounded
INVARIANT OldTokensWork
