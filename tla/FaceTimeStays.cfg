CONSTANTS
    Foci = {"facetime"}
    first = first
    second = second
    third = third
    amy = amy
    bob = bob
    messages = messages
    findmy = findmy
    ours = ours
    theirs = theirs
    Askers = {first, second}
    AskLoads <- MCAskLoads
    Friends = {amy, bob}
    Refreshes = {first, second}
    Gets = {second}
    Parties <- MCParties
    Original = original
    ChanCap = 1
    MaxFix = 2
    Injected = {messages, findmy}
    FindMy = findmy
    Renewals = {first}
    MaxFailures = 2
    Launches <- MCLaunches
    Sessions = {ours, theirs}
    Answering = {theirs}
    Joins <- MCJoins
    Lookback = 2
    AdmitTimeout = 3
    PostAdmitWait = 1
    TxTimeout = 1
    Scenes <- MCScenes
    Posts = {first, second, third}
    Names = {"a", "b"}
    Deliveries <- MCDeliveries
    low = low
    high = high
    Programs = {first, second}
    Pids = {low, high}
    Strangers = {high}
    CommandLines <- MCCommandLines
SPECIFICATION MCSpec
INVARIANT HostLeaves
CHECK_DEADLOCK FALSE
