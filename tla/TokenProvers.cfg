CONSTANTS
    a1 = a1
    a2 = a2
    a3 = a3
    a4 = a4
    NoAddress = NoAddress
    Account = {a1, a2, a3, a4}
    Beacon = a1
    BasisUnit = 7
    GenesisCoins <- NoCoins
    Retro <- MCRetro
    AddressOrder <- MCAddressOrder
    RingSize = 2
    Expire = 1
    WordSize = 256
    Workloads <- ProverWorkloads
    MaxStaged = 2
SPECIFICATION Spec
INVARIANTS
    RewardBounded
    RingsSound
PROPERTIES
    WorkAdvances
    MembersStay
CHECK_DEADLOCK FALSE
