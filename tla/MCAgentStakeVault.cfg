SPECIFICATION Spec
CONSTANTS
    resolver = resolver
    arena = arena
    Vault = vault
    NoOne = noOne
    Address = {resolver, arena, vault}
    Operator = {arena}
    AgentId = {1, 2}
    BondKey = {1, 2}
    Amount = {0, 1, 2}
    MaxUint256 = 4
    Approvals = {1, 4}
    InitialBalance <- MCInitialBalance
INVARIANTS
    TypeOK
    VaultCustody
PROPERTIES
    BondsAreFinal
