SPECIFICATION Spec
CONSTANTS
    Emails = {e1}
    Areas = {a1}
    Versions = {1, 2}
    Links = {l1}
    Requests = {c1, c2, c3}
    NoSlug = NoSlug
    SeatCounts = {2}
    LinkTtls = {0}
    DefaultTtl = 2
    JobTtl = 1
    AccessTtl = 2
    MaxAttempts = 2
    Lockout = 1
    Horizon = 2
    MaxFaults = 1
SYMMETRY Symmetric
CHECK_DEADLOCK FALSE
INVARIANTS
    SeatsBounded
    NoSeatWasted
    LockKeepsOut
PROPERTIES
    RetiredLinkIsClosed
