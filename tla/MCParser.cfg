\* Two formats of at most two values, one of them registered again.
SPECIFICATION ParserSpec
CONSTANTS
    Names = {"id", "long", "longer"}
    Truncated <- MCTruncated
    FormatStrings <- MCFormatStrings
    Lines <- MCLines
    Comment = Comment
    NewLine = NewLine
    NoPair = NoPair
    MetadataBound = 4
    UserdataBound = 1
INVARIANTS
    GettersShowLine
    FileAnswers
