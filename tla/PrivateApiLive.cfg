CONSTANTS
    send = send
    edit = edit
    typing = typing
    key = key
    admit = admit
    messages = messages
    findmy = findmy
    facetime = facetime
    None = None
    Garbled = Garbled
    Calls = {key, send, edit}
    FireAndForget = {}
    Spawned = {}
    Apps = {messages, findmy}
    Target <- MCTarget
    SlowStart = {messages}
    Restartable = {findmy}
    NConns = 2
    SockCap = 1
SPECIFICATION FairSpec
CONSTRAINT MCCasts
INVARIANTS
    ReadyImpliesClient
PROPERTIES
    KeepsPromise
    CallsReturn
CHECK_DEADLOCK FALSE
