SPECIFICATION FairSpec
CONSTANTS
    c1 = c1
    c2 = c2
    g1 = g1
    g2 = g2
    Commits <- MCCommits
    Generated = {g1}
    Settings = {s1}
    Explicit = {x1}
    None = None
    MaxFaults = 2
    MaxDeploys = 2
PROPERTIES
    InterruptedIsRecovered
