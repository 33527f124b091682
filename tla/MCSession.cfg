SPECIFICATION Spec
CONSTANTS
    h1 = h1
    h2 = h2
    foo = foo
    Hooks = {h1, h2}
    Starts <- MCStarts
    Edits <- MCEdits
    Cuts <- MCCuts
    Releases <- MCReleases
    Responses <- MCResponses
    Versions <- MCVersions
    MaxCandidates = 2
INVARIANT FailureIsNoPermission
INVARIANT AllowedInstallsAreJudged
INVARIANT ConfigIsOfOneEdition
INVARIANT EndpointIsChecked
INVARIANT InstallsAreOnRecord
PROPERTY KeepsPromise
PROPERTY EveryHookEnds
CHECK_DEADLOCK FALSE
