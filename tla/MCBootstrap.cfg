SPECIFICATION Spec
CONSTANTS
    Runs = {e1, e2, h1, h2}
    Hooks = {h1, h2}
    Installed = Installed
    None = None
INVARIANTS  OrderlyRunsAreVerified ExecutableIsVerified HookFailsForTheHost
PROPERTIES InstalledStays RunsEnd
CHECK_DEADLOCK FALSE
