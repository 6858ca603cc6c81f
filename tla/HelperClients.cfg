CONSTANTS
    t1 = t1  t2 = t2  a1 = a1  k1 = k1
    Txs = {t1, t2}
    Addresses = {a1}
    Slots = {k1}
    Answers <- MCAnswers
    NoList = NoList
    MaxGroups = 1
    MaxSimulations <- MCMaxSimulations
    Clients = {"othentic", "dashboard"}
    Executions = {1, 2}
    Null = Null
    NoProof = NoProof
    Fetches = {1, 2}
    Intervals = {3, 4}
    Speeds = {1000, 5000}
    DefaultSpeed = 5000
    Initial = Initial
    None = None
SPECIFICATION AllSpec
INVARIANTS
    ClientsTypeOK
    ApprovedRunsInParallel
    NothingLeftRunning
PROPERTIES
    ExecutionsEnd
