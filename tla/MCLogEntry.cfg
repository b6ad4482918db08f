CONSTANTS
    MaxDepth = 6
    None = None
    Refused = Refused
    Threads = {"pool", "pump"}
    Brings <- PoolAndPump
    Logs <- AllLogs
    Words <- AllWords
    Lower <- LowerCase
    RootTrim <- LeftOut
    Names <- NamesOrder
    NoNames = {"d.d"}
    Bracketed <- WithBrackets
    Odd = {"tab", "shown"}
    Typed <- AsTyped
    Units <- TestUnits
    Index <- TestIndex
    Int64 <- TestInts
    Double <- TestDoubles
    Quoted <- TestQuoted
    Floats <- TestFloats
    Iso = {"iso"}
    Tokenized <- TestTokens
    NameOrder <- TestOrder
    Printable <- TestPrintable
    FloatTexts <- TestFloatTexts
SPECIFICATION Spec
INVARIANTS
    NodesOK
    ShownWithoutTrimmed
    DialogOK
PROPERTY FormsCanBeLeft
