SPECIFICATION ParseSpec
CONSTANTS
    CommandLines <- BareLines
    Looks <- LooksLike
    LooksTokens <- LooksLikeTokens
INVARIANT BareInstallsPass
CHECK_DEADLOCK FALSE
