SPECIFICATION Spec
CONSTANTS
    None = None
    push = push
    review1 = review1
    review2 = review2
    first = first
    second = second
    Copies = {c1, c2}
    Installations = {first, second}
    Deliveries = {push, review1, review2}
    InstallationOf <- MCInstallationOf
    Pushes = {push}
    Handlers = {h1, h2}
    Requests = {q1}
    MaxStuck = 1
SYMMETRY Symmetry
CHECK_DEADLOCK FALSE
INVARIANTS JobsOfOwnInstallation AnsweredRightly TurnedAwayCanBeRedelivered
