SPECIFICATION Spec
CONSTANTS
    w0 = w0
    w1 = w1
    w2 = w2
    WorkSeq <- MCWorkSeq
    Bounds <- Outsiders
    UserFile = {f}
    Ses = ses
    Source = {e, p}
    Empty = e
    NoFile = NoFile
    Torn = Torn
    None = None
    NoName = NoName
    Nothing = Nothing
    Mode = {"sd", "ram", "auto"}
    Command = {"edit", "new", "load", "save", "clean", "erase", "switch", "resume", "remount", "usb", "card"}
INVARIANTS WorkFilesKept
PROPERTIES BootKeepsTexts
