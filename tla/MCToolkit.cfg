CONSTANTS
    th1 = th1
    th2 = th2
    th3 = th3
    th4 = th4
    w1 = w1
    w2 = w2
    c1 = c1
    NoTask = NoTask
    Callers <- MCCallers
    PostSizes <- MCPostSizes
    MaxCount = 4
SPECIFICATION ToolkitSpec
INVARIANTS
    TreeCorrect
    OptionsRight
    CallsApart
    FilesKept
    BuffersRight
    DatesRight
    LoadsRight
    ReadsBack
    SocketsRight
PROPERTIES
    AbstractSpec
    ServedUnlessSelfSync
    CallsReturn
    NewerStay
CHECK_DEADLOCK FALSE
