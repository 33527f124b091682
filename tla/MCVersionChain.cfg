SPECIFICATION Chain
CONSTANTS
    SemverVersions <- MCSemverVersions
    PEP440Versions <- MCPEP440Versions
    Infinity = 10
INVARIANT OrdersLikeStandard
PROPERTY ChainIsOrdered
