\* A client that calls itself, over two links: call ids repeat after a restart of
\* the broker, and the handler comes and goes with calls in flight.
SPECIFICATION Spec
CONSTANTS
    Caller = {a}
    Worker = {a}
    Slot = {1, 2}
    NoClient = NoClient
    Overlap = FALSE
    MaxSession = 2
    MaxToggles = 2
    MaxRestarts = 1
INVARIANTS
    AnswerIsOwn
    AnsweredOnce
    InflightNotPinned
CHECK_DEADLOCK FALSE
