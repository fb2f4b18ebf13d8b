\* One task, two agents, two signed payments: resolvers race for the claim, sign for
\* the wrong amount, and anybody may submit a signature past the arena.
SPECIFICATION Spec
CONSTANTS
    u1 = u1
    u2 = u2
    User = {u1, u2}
    Arena = arena
    Vault = vault
    NoOne = noOne
    Funding <- MCFunding
    NoReasoning = r0
    CommitWindow = 1
    SettleWindow = 1
    PaymentTimeout = 2
    MaxUint256 = 100
    Terms <- OnlyPaid
    Reasoning = {r1}
    InitialApproval = 100
    Approvals = {}
    OtherValues = {2}
    OperatorSettings = {}
    AgentBuyers = {}
    Requesters = {}
    MaxUint64 = 4
    MaxTask = 1
    MaxAgent = 2
    MaxSigned = 2
\* The bounds end every behaviour: all tasks over, the clock at its last instant.
CHECK_DEADLOCK FALSE
SYMMETRY Symmetry
INVARIANTS
    WealthFollowsOutcomes
