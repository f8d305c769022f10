SPECIFICATION Spec
CONSTANTS
    MaxLines = 5
    StatusMaxLines = 3
    PromptMaxLines = 2
    MaxText = 6
    Widths = {1, 3}
INVARIANTS
    TextIsKept
    LinesFit
    WordsStayWhole
CHECK_DEADLOCK FALSE
