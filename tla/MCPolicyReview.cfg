SPECIFICATION Spec
CONSTANTS
    plain = plain
    trusted = trusted
    banned = banned
    Names = {plain, banned}
    Sessions = {"claude", "ci"}
    Configs <- MCConfigs
    Scores <- MCScores
    Ages <- MCAges
INVARIANTS  OutageLayersAgree
PROPERTIES WorseEvidenceIsNeverMilder WaitingNeverHardens CIIsNeverMilder
