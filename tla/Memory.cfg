CONSTANTS
    api = api  cli = cli  console = console  chat = chat
    t1 = t1  t2 = t2  s1 = s1  s2 = s2
    Editors = {api, cli, console, chat}
    Indexed = {api, cli}
    Chats = {chat}
    Fragments = {t1, t2}
    MemoryBound = 3
    LengthBound = 2
    Sessions = {s1, s2}
    Facts = {f1}
    keep_count = 4
    TurnSizes = {2, 3}
    MessageBound = 8
    Bounds <- MCBounds
SPECIFICATION Spec
INVARIANTS IndexIsCurrent NothingForgotten RecallIsFaithful
SYMMETRY MCSymmetry
CHECK_DEADLOCK FALSE
