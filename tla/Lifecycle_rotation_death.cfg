SPECIFICATION LifeSpec
CONSTANTS
    c1 = c1
    c2 = c2
    g1 = g1
    g2 = g2
    s1 = s1
    Commits <- MCCommits
    Generated <- MCGenerated
    Settings = {s1}
    Explicit = {}
    None = None
    Volumes = {v1, v2}
    Foreign <- MCForeign
    MaxFaults = 2
    MaxDeploys = 2
INVARIANT SnapshotIsAccepted
