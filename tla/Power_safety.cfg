SPECIFICATION PowerSpec
CONSTANTS
    c1 = c1
    c2 = c2
    g1 = g1
    g2 = g2
    Commits <- MCCommits
    Generated <- MCGenerated
    Settings = {s1, s2}
    Explicit = {x1}
    None = None
    MaxFaults = 3
    MaxDeploys = 3
SYMMETRY Symmetry
INVARIANTS
    PowerIInv
    ServedPairOnDisk
PROPERTY OnlyLastUndone
