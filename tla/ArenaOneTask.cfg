\* One task to its end: zero and non-zero terms, agents that are sold, an owner of the
\* vault who changes his mind; with foreign requests, or with allowances that run out.
SPECIFICATION TaskSpec
CONSTANTS
    r2 = r2
    u1 = u1
    u2 = u2
    User = {u1, u2}
    Arena = arena
    Vault = vault
    NoOne = noOne
    Funding <- MCFunding
    NoReasoning = r0
    CommitWindow = 1
    SettleWindow = 1
    PaymentTimeout = 2
    MaxUint256 = 100
    Terms <- PaidOrFree
    Reasoning = {r1, r2}
    InitialApproval = 100
    Approvals = {}
    OtherValues = {}
    OperatorSettings = {TRUE, FALSE}
    AgentBuyers = {u1, u2}
    Requesters = {u1, u2}
    MaxUint64 = 4
    MaxTask = 1
    MaxAgent = 1
    MaxSigned = 1
\* The bounds end every behaviour: all tasks over, the clock at its last instant.
CHECK_DEADLOCK FALSE
SYMMETRY Symmetry
INVARIANTS
    TypeOK
    CollateralFollowsTask
    AttestationFollowsReveal
PROPERTIES
    SlashNeedsOpenedTruth
    CommitmentsAreFinal
    DeadlinesDecide
