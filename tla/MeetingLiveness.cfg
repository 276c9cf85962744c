\* One participant over three connections, with fairness: it drops, panics,
\* reconnects or leaves, and the meeting may be ended or cancelled.
\* Mailboxes of one slot and three participants.
SPECIFICATION PartsSpec
CONSTANTS
    p1 = p1  c1 = c1  c2 = c2  c3 = c3
    None = None
    Pid <- OnePid
    Conn <- ThreeConns
    Host <- OnePid
    Muters <- NoOne
    Grace = 2
    Ttl = 2
    q1 = q1  q2 = q2  q3 = q3
    Peer = {q1, q2, q3}
    MeetingBuffer = 1
    ParticipantBuffer = 1
INVARIANT NothingLost
PROPERTIES NoGhosts CancelledStops StuckForever ClosedIsNoticed
CHECK_DEADLOCK FALSE
