SPECIFICATION Spec
CONSTANTS
    Clients = {1, 2}
    Requests = {"get", "options", "bad"}
    MaxFd = 4
    QueueMax = 2
    RecvRetry = 1
    BindRetry = 1
    PurgeRetry = 1
    Emulates = FALSE
    MaxStarts = 1
INVARIANT PurgedNotUsed
