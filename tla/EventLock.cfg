SPECIFICATION Spec
CONSTANTS
    Loopers = {"L"}
    Requesters = {"A"}
    Openers = {"B"}
    Handles = {h1, h2}
    Opened = {h1}
    MaxUnplugs = 1
INVARIANTS
    PipeExact
    ClosedIsNotPolled
    SleeperHasWaker
PROPERTIES
    AnswerReturns
    CloseReturns
    UnplugIsNoticed
