SPECIFICATION Spec
CONSTANTS
    None = None
    mbr = mbr
    beta = beta
    Names <- MCNames
    ExemptNames <- MCExempt
    Specs <- MCSpecs
    Factories <- MCFactories
    Held <- MCHeld
CHECK_DEADLOCK FALSE
INVARIANTS
    NoUnscopedHandler
    ListedIsDispatched
