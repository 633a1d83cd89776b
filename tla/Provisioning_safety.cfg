SPECIFICATION Spec
CONSTANTS
    v1 = v1
    v2 = v2
    p1 = p1
    p2 = p2
    Versions <- MCVersions
    Passwords <- MCPasswords
    Foreign = Foreign
    None = None
    MaxFaults = 3
SYMMETRY Symmetric
INVARIANTS
    NoLockout
    DeclaredSafe
    DockerBehindPolicy
    ReadyVerifies
    HostIInv
PROPERTIES
    NothingAdopted
