SPECIFICATION DevicesSpec
CONSTANTS
    Buffers = 3
    Words = 2
    Wraps = 2
    Lengths = {1, 4}
    MaxAsks = 3
    Clocks = {100, 150}
    Disturb = FALSE
    Levels = {1, 2}
    Modifiers = {shift}
    RingSlots = 3
INVARIANTS AnswersMatch LeaseFollowsFile LastPressSettlesCaps
PROPERTIES PlayedInOrder GoesQuiet KeyboardComesBack
CHECK_DEADLOCK FALSE
