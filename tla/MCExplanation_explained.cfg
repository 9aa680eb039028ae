SPECIFICATION Spec
CHECK_DEADLOCK FALSE
CONSTANTS
    c1 = c1
    c2 = c2
    Contents = {c1, c2}
    MaxPublished = 4
INVARIANT LastGraphIsExplained
PROPERTY ExplanationComes
