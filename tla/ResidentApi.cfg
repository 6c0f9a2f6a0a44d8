SPECIFICATION Spec
CONSTANTS
    t1 = t1  t2 = t2  k1 = k1  k2 = k2  k3 = k3  p1 = p1
    None = None
    Threads <- MCThreads
    Existing <- MCExisting
    Connections = 2
    Requests <- MCRequests
    Topics = {"topic"}
    MaxTasks = 3
    MaxEntries = 2
    QueueSize = 2
    Watched = t1
    MaxNodes = 1
    MaxEffort = 3
CHECK_DEADLOCK FALSE
INVARIANTS OneExecutionPerKey TraceClosed ToldIsPersisted EscalationsReviewed
PROPERTIES TerminalEventsKept DeletedAsChecked EveryRunAnswered
