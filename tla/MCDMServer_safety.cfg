SPECIFICATION Spec
CONSTANTS
    a = a
    b = b
    d = d
    Clients = {a, b, d}
    Script <- SafetyScript
    Snd = Snd
    None = None
    Window = 1
    MaxFds = 2
INVARIANTS
    TypeOK
    AnswersToAsker
    BufferIntact
    AnswerBeforeNotice
    OneClient
PROPERTIES
    NoticeToAskerWhileServed
