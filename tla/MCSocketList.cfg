SPECIFICATION Spec
CONSTANTS
    Ecosystems = {"npm", "pypi", "go", "cargo"}
    Releases <- MCReleases
    MaxReleases = 4
    MaxCandidates = 3
    Fetchers = 2
    Artifacts <- MCArtifacts
    MaxLines = 3
    Config <- MCConfig
    Now = 1000
INVARIANTS  ListIsOrdered GapsAreFailures ListIsNoMilder
PROPERTY ListReturned
CHECK_DEADLOCK FALSE
