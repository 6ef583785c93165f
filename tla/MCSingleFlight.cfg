SPECIFICATION Spec
CONSTANTS
    c1 = c1
    c2 = c2
    c3 = c3
    c4 = c4
    k1 = k1
    k2 = k2
    NoToken = NoToken
    Keys <- MCKeys
    Calls <- MCCalls
    Connected <- MCConnected
INVARIANTS TypeOK LeaseHeld ExclusiveLease HoldersRelease
PROPERTY NeverDeletesAnother
CHECK_DEADLOCK FALSE
