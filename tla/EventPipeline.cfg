CONSTANTS
    text = text
    group = group
    chat = chat
    all = all
    newOnly = newOnly
    Texts = {text}
    Groups = {}
    Silent = {}
    Chats = {}
    Targets = {all, newOnly}
    Filter <- MCFilter
    Lookback = 2
    SeedBack = 3
    MaxBack = 5
    Ttl = 4
    Limit = 2
    ChanCap = 6
    MaxLag = 1
    MaxOutage = 1
    MaxChanges = 1
    MaxTicks = 4
SPECIFICATION FairSpec
INVARIANTS
    InReach
    NoSwallow
PROPERTIES
    DedupWindow
    NoRepeat
    NewDelivered
CHECK_DEADLOCK FALSE
