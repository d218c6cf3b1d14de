SPECIFICATION Spec
CONSTANTS
    Reads <- TypedReads
    Names <- ChosenNames
    MaskSize = 2
    MaxLine = 1
INVARIANTS TypeOK ModesAgree VgdHasTheMask
PROPERTIES ModeTakesItsKeys NameIsAWord
CHECK_DEADLOCK FALSE
