SPECIFICATION Spec
CONSTANTS
    Zsh = TRUE
    Chars <- Letter
    Utf8Chars <- Accents
    Width = 2
    PromptWidth = 1
    MaxRows = 2
    MaxTodo = 1
    TypeAhead = FALSE
INVARIANTS TypeOK VgdHasTheLine WrittenOnce PwdNeverShown
PROPERTY ImplementsLine
CHECK_DEADLOCK FALSE
