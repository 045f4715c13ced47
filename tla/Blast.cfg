SPECIFICATION Spec
CONSTANTS
    MaxConns = 2
    MaxChallenges = 2
    Window = 1
    Readers = {2}
    None = None
INVARIANT NothingLostOrRepeated
PROPERTIES
    RoundsEnd
    SendersEnd
    Delivered
