\* Two replicas, two rotation requests, one tick the request timeout.
\* Two participants, two controllers that take the meeting over from each other, and
\* registries with one slot.
SPECIFICATION PartsSpec
CONSTANTS
    a1 = a1
    a2 = a2
    r1 = r1
    r2 = r2
    None = None
    Ac = {a1, a2}
    Request = {r1, r2}
    BootPrefix = "auth-us-"
    RotatePrefix = "auth-default-"
    Validity = 4
    MinForced = 2
    MinNormal = 3
    TxMax = 1
    MaxTime = 6
    MaxKeys = 4
    p1 = p1  p2 = p2  c1 = c1  c2 = c2  m1 = m1  m2 = m2
    NoMc = NoMc
    Conn = {c1, c2}
    Participant = {p1, p2}
    PartOf <- MCPartOf
    Mc = {m1, m2}
    Attempts = 2
    MaxConnections = 1
SYMMETRY Symmetry
CONSTRAINT Bounded
INVARIANTS KeysInOrder Tracked
PROPERTIES NeverKeyless ImplementsKeyRing ConnectionsSettle
CHECK_DEADLOCK FALSE
