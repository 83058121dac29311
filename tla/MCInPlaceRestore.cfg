SPECIFICATION Spec
CONSTANTS
    Databases = {1, 2}
    SavesFail = FALSE
    MaxEvents = 2
VIEW Live
INVARIANT StatesKept
INVARIANT SwapUndisturbed
PROPERTY OutcomeTruthful
PROPERTY StreamReturns
CHECK_DEADLOCK FALSE
