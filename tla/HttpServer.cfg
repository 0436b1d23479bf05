SPECIFICATION Spec
CONSTANTS
    Clients = {1, 2}
    Requests = {"get", "options", "bad"}
    MaxFd = 3
    QueueMax = 2
    RecvRetry = 1
    BindRetry = 1
    PurgeRetry = 1
    Emulates = FALSE
    MaxStarts = 1
INVARIANTS ServerInv OwnDescriptors RightReply
PROPERTY ServerSettles
