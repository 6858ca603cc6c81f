CONSTANTS
    x1 = x1  x2 = x2  x3 = x3  x4 = x4  r = r  n = n  g = g  v = v  w = w  y1 = y1  y2 = y2
    A = A  B = B  C = C  D = D  F = F
    Txs <- MCTxs
    Accounts <- MCAccounts
    Coinbase = F
    From <- MCFrom
    Target <- MCTarget
    Forward <- MCForward
    Creates = {n}
    Nonce <- MCNonce
    Value <- MCValue
    Fee <- MCFee
    Reverts = {r}
    LowGas = {g, y2}
    Tagged <- MCTagged
    Heads <- MCHeads
    Events <- MCEvents
    ChanSize = 2
SPECIFICATION Spec
INVARIANTS
    TypeOK
    MergeIsSequential
    SpentNonceStays
    FailedLeavesNoTrace
PROPERTY BatchEnds
