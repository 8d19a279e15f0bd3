CONSTANTS
    c1 = c1  c2 = c2  a1 = a1  a2 = a2  p1 = p1  p2 = p2  w1 = w1  w2 = w2  m1 = m1  m2 = m2
    t1 = t1  t2 = t2  s1 = s1  s2 = s2  None = None
    Askers = {c1, c2}
    Attachments = {a1, a2}
    Contents = {p1, p2}
    Workspaces = {w1, w2}
    Memes = {m1, m2}
    Questions <- MCQuestions
    MemeQuestion <- MCMemeQuestion
    Uploaded <- MCUploaded
    AnswerBound = 2
    Slots = {t1, t2}
    Sessions = {s1, s2}
    Sizes = {40, 160}
    AnswerSize = 40
    SummarySize = 60
    Recalls <- MCRecalls
    Budgets = {1000, 100}
    Window = 2
    MinNew = 3
    MinTokens = 300
    SummaryLength = 4
    MaxRounds = 1
    Starts <- MCStarts
SPECIFICATION Spec
INVARIANTS PicturesTrue 
SYMMETRY MCSymmetry
CHECK_DEADLOCK FALSE
