\* Calls that raise half way through, collateral of the one task that pays for the other;
\* and each call of the mirror against the contracts it mirrors.
SPECIFICATION MirrorSpec
CONSTANTS
    u1 = u1
    u2 = u2
    User = {u1, u2}
    Arena = arena
    Vault = vault
    NoOne = noOne
    Terms <- MixedTerms
    Reasoning = {r1}
    NoReasoning = r0
    CommitWindow = 1
    SettleWindow = 1
    PaymentTimeout = 3
    Purse = 4
    Funding <- MCFunding
    Mints = {2}
    OtherValues = {2}
    AgentBuyers = {u1, u2}
    MaxTask = 2
    MaxAgent = 1
    MaxSigned = 2
    MaxTime = 3
    MaxSupply = 10
    MaxRaised = 2
    MaxUint256 = 100
\* The bounds end every behaviour.
CHECK_DEADLOCK FALSE
SYMMETRY Symmetry
INVARIANTS
    ArenaSolvent
PROPERTY
    MirrorsContracts
