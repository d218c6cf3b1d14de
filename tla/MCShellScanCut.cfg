SPECIFICATION Spec
CONSTANTS
    Zsh = FALSE
    Chars <- Letters
    Utf8Chars <- NoAccents
    Width = 2
    PromptWidth = 1
    MaxRows = 1
    MaxTodo = 1
    TypeAhead = TRUE
INVARIANT WrittenOnce
CHECK_DEADLOCK FALSE
