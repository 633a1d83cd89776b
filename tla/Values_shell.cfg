SPECIFICATION ValueSpec
CONSTANTS
    MaxHostLength = 4
    MaxValueLength = 2
INVARIANT ShellSafe
