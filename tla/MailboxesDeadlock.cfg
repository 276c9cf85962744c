\* The same instance; ADR-0001 says that there are no deadlocks.
SPECIFICATION MailSpec
CONSTANTS
    p1 = p1
    p2 = p2
    p3 = p3
    Peer = {p1, p2, p3}
    MeetingBuffer = 1
    ParticipantBuffer = 1
INVARIANT NoDeadlock
CHECK_DEADLOCK FALSE
