CONSTANTS
    Lines = {l1, l2}
    Timeout = 1
    MfaTimeout = 1
    TicksPerSecond = 2
    StepSeconds = 1
    RegexRoutes <- MCRegexRoutes
    NoToken = NoToken
    ApiKey = ApiKey
    MaxClock = 5
    MaxSessions = 1
    MaxRestarts = 1
SPECIFICATION Spec
SYMMETRY LineSymmetry
INVARIANTS
    SecondFactor
    SessionBounded
