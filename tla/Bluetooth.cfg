SPECIFICATION MCBtSpec
CONSTANTS
    RingSlots = 2
    LeKeyboards = {l1, l2, l3}
    ClassicKeyboards = {c1, c2}
    Le1 = l1
    Classic1 = c1
    MaxFound = 2
    RegistrySlots = 2
INVARIANTS LinksTracked NoKeysWithoutLink ListIsLive
PROPERTIES AttemptsSettle
CHECK_DEADLOCK FALSE
