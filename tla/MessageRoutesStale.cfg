SPECIFICATION Spec
CONSTANTS
    r1 = r1
    r2 = r2
    t1 = t1
    t2 = t2
    dm = dm
    dmLegacy = dmLegacy
    group = group
    None = None
    Requests = {r1, r2}
    Loads <- ScriptLoads
    TempGuids = {t1, t2}
    Guids = {dm, dmLegacy, group}
    Canon <- MCCanon
    Groups = {group}
    Window = 2
    Backdated = TRUE
    MaxRows = 2
    MaxChanges = 3
INVARIANT
    ReportsNew
CHECK_DEADLOCK FALSE
