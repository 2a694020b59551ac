SPECIFICATION Spec
CONSTANTS
    t1 = t1
    t2 = t2
    c1 = c1
    c2 = c2
    c3 = c3
    None = None
    Threads = {t1, t2}
    Clients = {c1, c2, c3}
    SetSize = 4
    MaxFd = 5
    BufSize = 2
    Listener <- MCListener
    ListenFd <- MCListenFd
    Budget <- MCBudget
    Leavers = {c1}
INVARIANTS RegistrationIsExact RequestsAreKept
PROPERTIES DropsAreExplained RequestsAreAnswered
CHECK_DEADLOCK FALSE
