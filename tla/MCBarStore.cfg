SPECIFICATION FairSpec
CONSTANTS
    PTT = PTT
    AOT = AOT
    CPALL = CPALL
    BANPU = BANPU
    p1 = p1
    p2 = p2
    refresh = refresh
    admin = admin
    Unusable = Unusable
    Unreadable = Unreadable
    NoDir = NoDir
    Symbols = {PTT, AOT, CPALL, BANPU}
    Schedules <- MCSchedules
    LastSession = 2
    Stamps = {2, 9}
    FirstStamp = 9
    IntradayHours = {10, 14}
    Prices = {p1, p2}
    Jobs = {refresh, admin}
    Refresh = refresh
    Window <- MCWindow
    Ranges <- MCRanges
    Dir <- MCDir
    SeedTimeframes = {"1d", "1h"}
    MaxChanges = 1
    MaxEvents = 1
    MaxRuns = 2
INVARIANTS TypeOK OneBarPerSession DatedBySession BackfillAccounts
PROPERTIES SourcesApart HolesHeal
CHECK_DEADLOCK FALSE
