SPECIFICATION Spec
CONSTANTS
    api = api  console = console
    a1 = a1  a2 = a2  k1 = k1
    c1 = c1  c2 = c2
    tool = tool  scan = scan
    v1 = v1  v2 = v2  f1 = f1  f2 = f2
    NoConfig = NoConfig  NoVersion = NoVersion
    Processes = {api, console}
    Threads = {a1, k1}
    process <- MCProcess
    Tools = {tool}  Versions = {v1, v2}  Configs = {f1, f2}
    Budgets <- MCBudgets
    Home = api
    Builtins = {scan}
    builtin <- MCBuiltin
    Callers = {c1, c2}
    Requests <- MCRequests
    Answers <- MCAnswers
    SHELL = {scan}
    MAX_REPEAT = 2  ATTEMPTS = 3
SYMMETRY McpSymmetry
INVARIANTS GrantIsInformed EffectsConsented ReportsWhatItDid
CHECK_DEADLOCK FALSE
