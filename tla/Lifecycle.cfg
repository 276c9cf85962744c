\* The order of the time limits: requests and the drain period (30 s each), the wait
\* of MC and MH (2 s), all within the grace period (35 s).  One outage, crash, failed bind
\* or signal.
\* Registration in ticks of five seconds: heartbeats every 10 s, calls of at most 10 s,
\* rows fresh for 30 s.
SPECIFICATION PartsSpec
CONSTANTS
    Drain = 2
    Request = 2
    Window = 1
    Grace = 3
    Idle = Idle
    MaxTroubles = 1
    s1 = s1
    None = None
    Server = {s1}
    Interval = 2
    RpcTimeout = 2
    Staleness = 6
    Tolerated = 1
INVARIANTS LifeCorrect KeptAlive
PROPERTIES ComesUp Recovers
