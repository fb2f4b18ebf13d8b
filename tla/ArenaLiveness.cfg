\* Time passes and the timeouts are called.
SPECIFICATION FairSpec
CONSTANTS
    u1 = u1
    u2 = u2
    User = {u1, u2}
    Arena = arena
    Vault = vault
    NoOne = noOne
    Funding <- MCFunding
    NoReasoning = r0
    CommitWindow = 1
    SettleWindow = 1
    PaymentTimeout = 2
    MaxUint256 = 100
    Terms <- OnlyPaid
    Reasoning = {r1}
    InitialApproval = 100
    Approvals = {}
    OtherValues = {}
    OperatorSettings = {TRUE, FALSE}
    AgentBuyers = {u1}
    Requesters = {}
    MaxUint64 = 4
    MaxTask = 1
    MaxAgent = 1
    MaxSigned = 1
\* The bounds end every behaviour: all tasks over, the clock at its last instant.
CHECK_DEADLOCK FALSE
PROPERTIES
    EscrowResolves
    CreditsArePaid
