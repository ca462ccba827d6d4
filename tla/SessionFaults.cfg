SPECIFICATION Spec
CONSTANTS
    w0 = w0
    w1 = w1
    w2 = w2
    WorkSeq <- MCWorkSeq
    Bounds <- TwoFaultsOneCrash
    UserFile = {f}
    Ses = ses
    Source = {e, p}
    Empty = e
    NoFile = NoFile
    Torn = Torn
    None = None
    NoName = NoName
    Nothing = Nothing
    Mode = {"sd"}
    Command = {"edit", "new", "load", "save", "resume"}
INVARIANTS CleanHasCopy
PROPERTIES Refinement UserFilesKept
