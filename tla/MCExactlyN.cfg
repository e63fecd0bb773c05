SPECIFICATION Spec
CONSTANTS
    NoWord = NoWord
    NoArg = NoArg
    AmbiguousArg = AmbiguousArg
    Arg <- MCArg
    Dest <- MCDest
    Word <- MCWord
    GroupId <- MCGroupId
    TokenOf <- MCTokenOf
    Abbreviates <- MCAbbreviates
    NegativeNumber <- MCNegativeNumber
    Convertible <- MCConvertible
    NumberOf <- MCNumberOf
    ParserId <- MCParserId
    Parsers <- MCParsers
    Lines <- MCLines
    SubReturns <- MCSubReturns
INVARIANT
    ExactlyN
