CONSTANTS
    send = send
    edit = edit
    typing = typing
    key = key
    admit = admit
    messages = messages
    findmy = findmy
    facetime = facetime
    None = None
    Garbled = Garbled
    Calls = {admit, typing}
    FireAndForget = {typing}
    Spawned = {admit}
    Apps = {messages, facetime}
    Target <- MCTarget
    SlowStart = {messages}
    Restartable = {}
    NConns = 1
    SockCap = 1
SPECIFICATION HungSpec
PROPERTIES
    TimeoutHonoured
CHECK_DEADLOCK FALSE
