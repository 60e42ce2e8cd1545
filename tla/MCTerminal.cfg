\* The buffer holds a term_clear and a refresh of every cell, and no more.
SPECIFICATION Spec
CONSTANTS
    Sizes <- MCSizes
    Zero = "zero"
    Default = "default"
    Null = "null"
    Space = "space"
    Attributes = {"bold"}
    Drawings <- MCDrawings
    BUFFER_SIZE = 5
INVARIANTS
    ShowsWhatWasDrawn
    OnlyTheHandlerHurts
\* A fault ends the program.
CHECK_DEADLOCK FALSE
