SPECIFICATION BootSpec
CONSTANTS
    None = None
    Statements <- MCStatements
    Users <- MCUsers
    MaxWait = 2
    MaxRuns = 2
INVARIANT NoTwoRunsShareASecret
CHECK_DEADLOCK FALSE
