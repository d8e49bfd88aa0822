SPECIFICATION Spec
CONSTANTS
    User = {ana, luis}
    Admins = {ana}
    None = none
    Request = {r1, r2}
    MAX_RESTORE_ATTEMPTS = 2
INVARIANTS
    IInv
    ActsAsShown
PROPERTIES
    SessionEndsForAReason
    RestoreEnds
CHECK_DEADLOCK FALSE
