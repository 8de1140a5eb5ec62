\* At the horizon, with no link left to be mailed, every request is refused.
CONSTANTS
    c1 = c1
    c2 = c2
    l1 = l1
    l2 = l2
    Clients = {c1, c2}
    Links = {l1, l2}
    Attempts = 2
    Window = 3
    ChallengeTTL = 2
    ExchangeTTL = 1
    TokenLife = 3
    Horizon = 6
SPECIFICATION Spec
SYMMETRY Symmetric
CHECK_DEADLOCK FALSE
INVARIANTS OneSessionPerLink LoggedOutStaysOut GuessesWithinBudget
