SPECIFICATION Spec
CONSTANTS
    Config <- MCConfig
    Timed = {access, bans}
    Guards = {access}
    access = access
    bans = bans
    MaxEngines = 3
    MaxTicks = 1
INVARIANT JobsExecuted
