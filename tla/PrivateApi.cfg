CONSTANTS
    send = send
    edit = edit
    typing = typing
    key = key
    admit = admit
    messages = messages
    findmy = findmy
    facetime = facetime
    None = None
    Garbled = Garbled
    Calls = {send, edit, typing}
    FireAndForget = {typing}
    Spawned = {}
    Apps = {messages}
    Target <- MCTarget
    SlowStart = {messages}
    Restartable = {}
    NConns = 1
    SockCap = 1
SYMMETRY MCSymmetry
SPECIFICATION Spec
INVARIANTS
    TypeOK
    PermitAccounted
    NoStrandedCaller
    AtMostOnce
    AnswerIsOwn
PROPERTIES
    SettledOnce
CHECK_DEADLOCK FALSE
