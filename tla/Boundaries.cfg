\* Three callers with one call each and mailboxes of one slot; two devloops with one
\* service and two writes; a branch of two edits; trees that differ in three parts from
\* the first; settings of which one is changed.  Every part may stop at its bounds.
SPECIFICATION Spec
CONSTANTS
    Resting = Resting
    MaxTroubles = 2
    MaxConnections = 1
    Callers = {1, 2, 3}
    Asked = {"GetMeeting", "JoinConnection", "RemoveMeeting", "EndMeeting", "Shutdown", "Close", "IsMeetingRegistered"}
    Room = 1
    MaxCalls = 1
    Half32 = 10000
    Half64 = 1000000
    SkewDefault = 300
    SkewMax = 600
    McSkewDefault = 5
    WaitDefault = 15
    WaitMax = 300
    Capacity = 1000
    Unset = Unset
    Off = Off
    Word = Word
    Tried <- Edited
    MaxSets = 1
    d1 = d1
    d2 = d2
    Devloops = {d1, d2}
    Services = {"ac", "mc"}
    MaxTreeEdits = 1
    MaxWrites = 2
    Foci <- ClusterFoci
    MaxRead = 6
    MaxFile = 5
    MaxName = 4
    Absent = Absent
    Repo <- GuardRepo
    Contents <- GuardContents
    Rows <- GuardRows
    Alike <- GuardAlike
    Owners <- GuardOwners
    MaxEdits = 2
    MaxCommits = 2
    Broken = Broken
    Void = Void
    Start <- CatalogStart
    Edition <- CatalogEdition
    MaxRevisions = 3
ACTION_CONSTRAINT InOrder
INVARIANTS JourneySound CallsSound SettingsSound ClusterSound GuardsSound CatalogSound
CHECK_DEADLOCK FALSE
