CONSTANTS
    t1 = t1  t2 = t2  t3 = t3
    a1 = a1  a2 = a2
    k1 = k1  k2 = k2
    Txs <- MCTxs
    Addresses <- MCAddresses
    Slots <- MCSlots
    Answers <- MCAnswers
    NoList = NoList
    MaxGroups = 2
    MaxSimulations <- MCMaxSimulations
SPECIFICATION Spec
INVARIANTS
    TypeOK
    CollisionFree
    FirstFit
    UnlistedStandsAlone
    BlocksWellFormed
PROPERTIES
    ImplementsGrouping
    DebounceReleased
