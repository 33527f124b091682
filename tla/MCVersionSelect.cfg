SPECIFICATION Spec
CONSTANTS
    plain = plain
    trusted = trusted
    banned = banned
    Requests <- MCRequests
    Versions <- MCVersions
    MaxCandidates = 3
INVARIANTS   SelectionIsBest
PROPERTIES KeepsPromise
CHECK_DEADLOCK FALSE
