SPECIFICATION FairSpec
CONSTANTS
    r1 = r1
    r2 = r2
    t1 = t1
    t2 = t2
    dm = dm
    dmLegacy = dmLegacy
    group = group
    None = None
    Requests = {r1, r2}
    Loads <- MixedLoads
    TempGuids = {t1, t2}
    Guids = {dm, dmLegacy, group}
    Canon <- MCCanon
    Groups = {group}
    Window = 1
    Backdated = FALSE
    MaxRows = 2
    MaxChanges = 3
INVARIANTS
    TypeOK
    EntryHeld
    SentOnce
    ReportsNew
PROPERTIES
    RefusedRightly
    RequestsEnd
CHECK_DEADLOCK FALSE
