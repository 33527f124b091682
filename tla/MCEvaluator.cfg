SPECIFICATION Spec
CONSTANTS
    foo = foo
    bar = bar
    banned = banned
    trusted = trusted
    NoVersion = NoVersion
    Names = {foo, bar, banned, trusted}
    Sessions = {"claude", "ci"}
    Lines <- MCLines
    Configs <- MCConfigs
    Versions <- MCVersions
    MaxCandidates = 2
INVARIANTS   AnswerIsWorstGround InstallsOnlyAllowed RewriteIsJudged AnswersAsOne
PROPERTY Answered
CHECK_DEADLOCK FALSE
