SPECIFICATION Spec
CONSTANTS
    f1 = f1
    f2 = f2
    PipeFd = pipe
    Fds <- MCFds
    Kinds = {"read"}
    MaxAdds = 2
    MaxQueue = 1
    CloseEarly = TRUE
PROPERTY SuccessMeansDeleted
