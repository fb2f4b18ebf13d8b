\* The limiter, the run journal, the verdict and the settings.
SPECIFICATION PartsSpec
CONSTANTS
    w1 = w1
    w2 = w2
    t1 = t1
    t2 = t2
    p1 = p1
    p2 = p2
    r1 = r1
    r2 = r2
    r3 = r3
    s1 = s1
    Remote = remote
    NoDoc = noDoc
    None = none
    Process = {p1, p2}
    Thread = {t1, t2}
    HomeOf <- TwoProcesses
    Settings <- AnySettings
    HasMutate = TRUE
    Ops = {"append", "set_data", "update"}
    Run = {r1, r2, r3}
    Signature = {s1}
    WindowDays = 1
    FindLimit = 50
    MaxCalls = 3
    MaxDay = 2
    MaxCrash = 2
    Worker = {w1, w2}
    Limits <- MCLimits
    Hour = 3
    CycleTTL = 3
    MaxLag = 1
    MaxTime = 5
    Symbol = {"ETH", "BTC", "SOL"}
    Texts <- MCTexts
    Lines <- MCLines
    Quotes <- MCQuotes
    MaxLines = 4
    Flag <- AnyFlag
    MaxSet = 7
SYMMETRY Symmetry
\* The clocks, the calls and the evidence are bounded.
CHECK_DEADLOCK FALSE
INVARIANTS
    CoreTypeOK
    CapsHold
    TableBounded
    NothingLost
    VerdictsEarned
    SettingsObeyed
PROPERTIES
    RefusalsEarned
    JournalKept
    DurabilityNeverSilent
    RecurrenceNoticed
    OtherLinesIgnored
