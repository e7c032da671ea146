SPECIFICATION Spec
CONSTANTS
    Reqs = {r1, r2}
    Waiters = {w1}
    Options = {"max_response_size"}
    Limits = {0, 1}
    Asked <- MCAsked
    InitFails = TRUE
    CreateFails = TRUE
    LateAdd = FALSE
    Bodies <- MCBodies
    Length <- MCLength
    Pages = 3
    OutOfMemory = TRUE
    None = None
INVARIANTS TypeOK RequestsKept RequestsAsMeant DetailIsOfThisRequest
PROPERTIES AllAnswered 
CHECK_DEADLOCK FALSE
