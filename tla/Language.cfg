CONSTANTS
    Profiles <- MCProfiles
    MaxNesting = 2
    MaxCode = 40
    StackSize = 4
    ReturnStackSize = 2
    ForStackSize = 3
    MaxCallDepth = 2
SPECIFICATION Spec
INVARIANTS CompiledSound
PROPERTIES RunsAsWritten FlowKept
