SPECIFICATION Spec
CHECK_DEADLOCK FALSE
CONSTANTS
    c1 = c1
    c2 = c2
    s1 = s1
    s2 = s2
    function = function
    file = file
    Calls = {c1, c2}
    Sessions = {s1, s2}
    Symbols = {function, file}
    Code = {function}
    Edges = {edge}
    None = None
    ContextSize = 2
    MaxRounds = 3
    MaxMessages = 2
    MaxSeeds = 2
    MaxAsks = 2
SYMMETRY Symmetry
INVARIANTS EvidenceBacked AlwaysAnswers ConversationKept
