SPECIFICATION FairSpec
CONSTANTS
    BANPU = BANPU
    BANPUU = BANPUU
    PTT = PTT
    refresh = refresh
    loader = loader
    reader = reader
    Rename = Rename
    NoRow = NoRow
    Untouched = Untouched
    NoCell = NoCell
    Symbols <- MCSymbols
    Keys <- MCKeys
    Seeds <- MCSeeds
    Requests <- MCRequests
    MaxRenames = 2
    Writers = {refresh, loader}
    Batches <- MCBatches
    Readers = {reader}
    Constituents = 2
INVARIANTS TypeOK UniverseListsOnce DeadTickerDropsOut NoEternalWait
PROPERTIES MovesWhole TransactionsEnd CallsAreAtomic
CHECK_DEADLOCK FALSE
