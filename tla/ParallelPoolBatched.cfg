CONSTANTS
    p1 = p1  p2 = p2  s1 = s1  s2 = s2  u = u  x = x
    A = A  B = B
    NoCall = NoCall
    Txs <- MCTxs
    Accounts <- MCAccounts
    From <- MCFrom
    Nonce <- MCNonce
    Price <- MCPrice
    Cost <- MCCost
    ParallelType <- MCParallelType
    Tagged <- MCTagged
    Malformed = {}
    LowGas <- MCLowGas
    PriceLimit = 1
    HeadStates <- MCHeadStates
    DefaultBatchSize = 2
    MaxBatchSize = 2
    Sizes <- MCSizes
    Adds <- MCAdds
    Submissions <- MCSubmissions
    MaxTagged <- MCMaxTagged
    MaxCopies = 1
SPECIFICATION Spec
INVARIANT BatchedIsKnown
