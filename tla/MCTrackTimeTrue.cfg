SPECIFICATION Spec
CHECK_DEADLOCK FALSE
CONSTANTS
    Offsets = 16
    Fractions = {0, 1}
    MaxTime = 3
    MaxFixes = 2
    MaxPoints = 3
    MaxConns = 2
    MaxRestarts = 1
INVARIANT TimesTrue
