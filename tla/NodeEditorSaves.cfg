\* Two visits to one node, one change elsewhere, lost requests and answers.
SPECIFICATION Spec
CONSTANTS
    t0 = t0
    t1 = t1
    t2 = t2
    Texts <- MCTexts
    Start = t0
    Unset = Unset
    AbortFails = TRUE
    MaxSessions = 2
    MaxInputs = 2
    MaxForeign = 1
    MaxLosses = 1
SYMMETRY MCSymmetry
INVARIANTS Inv StatusIsTrue LeftEditsKept OfferTellsTruth
PROPERTIES NeverOverwritesUnseen
CHECK_DEADLOCK FALSE
