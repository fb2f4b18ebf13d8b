SPECIFICATION MCSpec
CONSTANTS
    Address = {alice, arena}
    Nonce = {n1}
    Value = {1, 2}
    Approvals = {1, 3}
    ValidityWindow = 1
    MaxUint256 = 3
    MaxTime = 2
INVARIANTS
    TypeOK
    SupplyConserved
    NoncePaidOnce
