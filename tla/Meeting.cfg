\* A host and a participant it mutes over three connections: both join, one drops and
\* reconnects while its old connection is still ending, and the meeting ends.
SPECIFICATION Spec
CONSTANTS
    p1 = p1  p2 = p2  c1 = c1  c2 = c2  c3 = c3
    None = None
    Pid <- TwoPids
    Conn <- ThreeConns
    Host <- HostP1
    Muters <- OnlyP2
    Grace = 1
    Ttl = 1
CONSTRAINT EndsUnmuted
SYMMETRY ConnSymmetry
INVARIANTS CorrelationExact Supervised Counted RosterConsistent
PROPERTY HostMuteBinds
CHECK_DEADLOCK FALSE
