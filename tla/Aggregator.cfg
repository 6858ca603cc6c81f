CONSTANTS
    r1 = r1  r2 = r2  o1 = o1  o2 = o2  d1 = d1
    Tasks = {1, 2}
    Responses <- MCResponses
    TaskOf <- MCTaskOf
    Digest <- MCDigest
    SignerOf <- MCSignerOf
    Enough = {{o1}, {o1, o2}}
    Wide = {2}
    MAX_RETRIES = 2
SPECIFICATION Spec
INVARIANTS
    TypeOK
    SentIsKnown
    AcceptedIsAccounted
PROPERTIES
    RequestAnswered
    ShutdownEnds
CHECK_DEADLOCK FALSE
