\* Bodies that fit, fill and exceed the buffers; a table of two routes, which a
\* restart fills.
SPECIFICATION ExchangeSpec
CONSTANTS
    Paths = {p}
    Handlers = {h1, h2}
    NoHandler = null
    Codes = {200, 401, 404}
    MAX_ROUTES = 2
    InboxMax = 2
    BodyMax = 2
    AnswerBodies = {1, 3}
    MaxCalls = 2
SYMMETRY HandlerSymmetry
INVARIANTS
    SuccessEarned
    BodyFaithful
PROPERTIES
    RoutesKept
