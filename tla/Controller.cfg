\* Two assignment calls and two clients, over two meetings; three calls to Redis at
\* once, one field of the state hash, and generations up to 3.
SPECIFICATION PartsSpec
CONSTANTS
    r1 = r1  r2 = r2  k1 = k1  k2 = k2  m1 = m1  m2 = m2
    Nil = Nil
    None = None
    MeetingId = {m1, m2}
    Rpc = {r1, r2}
    Client = {k1, k2}
    Handlers <- OneHandler
    MaxMeetings = 1
    MaxParticipants = 10
    Estimated = 10
    Attempts = 2
    c1 = c1  c2 = c2  c3 = c3  f1 = f1
    Call = {c1, c2, c3}
    Field = {f1}
    MaxGen = 3
SYMMETRY Symmetry
INVARIANTS MeetingsCounted AssignmentKept ConnectionsEnd Fenced
PROPERTY NewerWins
CHECK_DEADLOCK FALSE
