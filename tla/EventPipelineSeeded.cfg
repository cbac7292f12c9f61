CONSTANTS
    text = text
    group = group
    chat = chat
    all = all
    newOnly = newOnly
    Texts = {}
    Groups = {group}
    Silent = {}
    Chats = {}
    Targets = {all}
    Filter <- MCFilter
    Lookback = 1
    SeedBack = 2
    MaxBack = 4
    Ttl = 3
    Limit = 2
    ChanCap = 4
    MaxLag = 0
    MaxOutage = 0
    MaxChanges = 0
    MaxTicks = 2
SPECIFICATION Spec
PROPERTIES
    OldNotReemitted
CHECK_DEADLOCK FALSE
