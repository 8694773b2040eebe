SPECIFICATION Spec
CONSTANTS
    Chars <- MCChars
    Paths <- MCPaths
    Contents = {"old", "new"}
    Requests <- MCRequests
INVARIANTS
    AnswerWasTrue
    LinksLeadBack
    OnlyEscapesOverflow
