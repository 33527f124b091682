SPECIFICATION Spec
CONSTANTS
    Runs = {e1, e2, h1}
    Hooks = {h1}
    Installed = Installed
    None = None
INVARIANT OnlyVerifiedRuns
CHECK_DEADLOCK FALSE
