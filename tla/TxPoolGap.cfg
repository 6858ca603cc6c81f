SPECIFICATION Spec

CONSTANTS
    alice = alice
    bob = bob
    a0 = a0
    a0x = a0x
    a1 = a1
    a2 = a2
    b0 = b0
    g = g
    x1 = x1
    y1 = y1
    x2 = x2
    None = None
    c1 = c1
    s1 = s1
    Accounts = {alice, bob}
    Txs = {a0, a0x, a1, a2, b0}
    From <- MCFrom
    Nonce <- MCNonce
    Price <- MCPrice
    Cost <- MCCost
    PriceBump = 10
    AccountSlots = 1
    GlobalSlots = 2
    AccountQueue = 1
    GlobalQueue = 1
    Tips = {1, 2}
    StartTip = 1
    Blocks = {g, x1, y1, x2}
    Genesis = g
    Parent <- MCParent
    Number <- MCNumber
    Included <- MCIncluded
    StateNonce <- MCStateNonce
    Balance <- MCBalance
    MaxReorgDepth = 1
    Callers = {c1}
    Syncers = {s1}
    MaxCalls = 3
    MaxInputs = 2

INVARIANT PendingIsContiguous

CHECK_DEADLOCK FALSE
