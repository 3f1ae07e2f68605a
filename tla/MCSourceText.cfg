CONSTANTS
    NL = "nl"
    Chars = {"nl", "a"}
    Texts <- MCTexts
SPECIFICATION Spec
INVARIANTS TypeOK IndexComplete PositionExact SearchInBounds LinePrintable
PROPERTY CallsReturn
