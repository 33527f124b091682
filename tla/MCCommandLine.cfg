SPECIFICATION ParseSpec
CONSTANTS
    CommandLines <- MCLines
    Looks <- LooksLike
    LooksTokens <- LooksLikeTokens
INVARIANTS InstallsAreNoticed ForeignIsNotJudged PinnedAsAsked ArgumentsAreAccounted MentionsAreNoInstalls
CHECK_DEADLOCK FALSE
