CONSTANTS
    o1 = o1  o2 = o2  q1 = q1  agg = agg  gen = gen
    Senders = {agg, gen}
    aggregator = agg
    generator = gen
    Operators <- MCOperators
    Quorums = {q1}
    Thresholds = {50, 100, 101}
    Results = {r1, r2}
    None = None
    StakeAt <- MCStakeAt
    TASK_RESPONSE_WINDOW_BLOCK = 1
    TASK_CHALLENGE_WINDOW_BLOCK = 1
    MaxTasks = 2
    MaxBlock = 4
SPECIFICATION Spec
INVARIANTS
    TypeOK
    ResponseBacked
    RespondedInTime
PROPERTY ResponsesFinal
CHECK_DEADLOCK FALSE
