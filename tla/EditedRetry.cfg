SPECIFICATION Spec
CONSTANTS
    Cart = {none, a, b}
    Empty = none
    MaxKey = 1
    MaxRequest = 3
    MaxCaja = 1
INVARIANT AnswerIsOfTheCartSent
CHECK_DEADLOCK FALSE
