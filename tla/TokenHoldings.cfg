CONSTANTS
    a1 = a1
    a2 = a2
    a3 = a3
    a4 = a4
    NoAddress = NoAddress
    Account = {a1, a2, a3}
    Beacon = a1
    BasisUnit = 7
    GenesisCoins <- MCCoins
    Retro <- MCRetro
    AddressOrder <- MCAddressOrder
    RingSize = 2
    Expire = 1
    WordSize = 256
    Workloads <- HoldingWorkloads
    MaxStaged = 2
SPECIFICATION Spec
INVARIANTS
    ProvenIsExecuted
PROPERTIES
    ValueConserved
    SpentForever
    SeniorityNotCreated
CHECK_DEADLOCK FALSE
