CONSTANTS
    Lines = {t1, t2}
    Timeout = 2
    MfaTimeout = 1
    TicksPerSecond = 1
    StepSeconds = 1
    RegexRoutes <- MCNoRegexRoutes
    NoToken = NoToken
    ApiKey = ApiKey
    MaxClock = 3
    MaxSessions = 2
    MaxRestarts = 1
    MaxSkew = 1
SPECIFICATION ClientSpec
INVARIANTS
    RefusedTokenDropped
PROPERTIES
    NoNeedlessLogin
