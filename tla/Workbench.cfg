CONSTANTS
    r1 = r1
    r2 = r2
    ReportRuns = {r1, r2}
    Agendas <- MCAgendas
    Stocks <- MCStocks
    Arrival <- MCArrival
    Negations = {"not"}
    MaxFaults = 1
    MaxChanges = 2
    console = console
    chat = chat
    u1 = u1
    u2 = u2
    Requests = {1, 2, 3}
    ConsoleId = console
    Opened = chat
    Fresh = {u1, u2}
    Loads <- MCLoads
    desk1 = desk1
    desk2 = desk2
    page = page
    route = route
    resumer = resumer
    terminal = terminal
    remote = remote
    a1 = a1
    a2 = a2
    Asked = {a1, a2}
    HomeOf <- MCHome
    OfSkill = {a1}
    Clerks = {desk1, desk2, page, route, resumer, terminal, remote}
    ChannelOf <- MCChannel
    Shifts <- MCShifts
    Default = "default"
    t1 = t1
    t2 = t2
    t3 = t3
    s1 = s1
    Threads = {t1, t2, t3}
    Servers = {s1}
    AskBound = 3
    ResetBound = 1
SPECIFICATION Spec
INVARIANTS ReportsTrue  DecisionOnRecord HandlesAgree
SYMMETRY MCSymmetry
CHECK_DEADLOCK FALSE
