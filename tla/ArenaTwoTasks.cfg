\* Two tasks at once, shared agents, purses, credits and clock: and the contracts implement
\* the escrow of TaskEscrow.
SPECIFICATION Spec
CONSTANTS
    u1 = u1
    u2 = u2
    User = {u1, u2}
    Arena = arena
    Vault = vault
    NoOne = noOne
    Funding <- MCFunding
    NoReasoning = r0
    CommitWindow = 1
    SettleWindow = 1
    PaymentTimeout = 2
    MaxUint256 = 100
    Terms <- OnlyPaid
    Reasoning = {r1}
    InitialApproval = 100
    Approvals = {}
    OtherValues = {}
    OperatorSettings = {}
    AgentBuyers = {}
    Requesters = {}
    MaxUint64 = 3
    MaxTask = 2
    MaxAgent = 1
    MaxSigned = 2
\* The bounds end every behaviour: all tasks over, the clock at its last instant.
CHECK_DEADLOCK FALSE
SYMMETRY Symmetry
INVARIANTS
    EscrowBalances
    RecordFollowsOutcomes
PROPERTIES
    KeepsPromise
