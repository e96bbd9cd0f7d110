SPECIFICATION FairSpec
CONSTANTS
    a = a
    b = b
    d = d
    Clients = {a, b}
    Script <- LiveScript
    Snd = Snd
    None = None
    Window = 1
    MaxFds = 2
PROPERTIES
    PlaceFreed
    ConnectionDecided
    KnownRequestAnswered
