\* Gate, adapter, router and signer, each against everything it may be answered.
SPECIFICATION PartsSpec
CONSTANTS
    u1 = u1
    u2 = u2
    s1 = s1
    s2 = s2
    c1 = c1
    c2 = c2
    c3 = c3
    User = {u1, u2}
    Arena = arena
    Vault = vault
    NoOne = noOne
    Terms <- PaidOrFree
    Reasoning = {r1}
    NoReasoning = r0
    CommitWindow = 1
    SettleWindow = 1
    PaymentTimeout = 1
    Funding <- Purses
    Mints = {}
    OtherValues = {}
    AgentBuyers = {u1}
    MaxTask = 1
    MaxAgent = 2
    MaxSigned = 9
    MaxTime = 3
    MaxSupply = 9
    MaxRaised = 0
    MaxUint256 = 99
    Session = {s1, s2}
    TaskOf <- OneTask
    Setups <- MCSetups
    MaxWall = 2
    MaxFaults = 1
    Nothing = nothing
    Call <- MCCalls
    KindOf <- Kinds
    SenderOf <- Senders
    ProcessOf <- Processes
    CallTask <- Tasks
    Serial = TRUE
    MaxTries <- Polls
    MaxLoss = 1
    Cycle = {c1, c2, c3}
    NotifierOf <- Own
    Signals <- MCSignals
    Precedence <- Ranking
    Override <- MCOverride
    AppHandler = {"page"}
    SettingsOf <- Destinations
    MaxPerCycle = 2
    MaxPerHour = 3
    MaxIncidents = 1
    Adhoc = adhoc
    None = none
    P = 43
    B = 7
    N = 31
    G <- Generator
    Key <- Keys
    Digest <- Digests
    Sent <- Forged
\* Runs, calls, incidents and signatures end, and so do the clocks.
CHECK_DEADLOCK FALSE
INVARIANTS
    PartsTypeOK
    FailsClosed
    JournalTruthful
    SoldAsSigned
    FailureIsFree
    ReturnsAreTrue
    RecordIsTrue
    RecoveryAgrees
PROPERTY
    AllEnd
