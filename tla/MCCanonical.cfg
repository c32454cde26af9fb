SPECIFICATION Spec
CONSTANTS
    MAX_BYTES = 29
    MAX_INTEGER = 7
    MAX_DEPTH = 2
    NameOrder <- MCNameOrder
    Printable <- MCPrintable
    integer <- MCInteger
    literal <- MCLiteral
    alias <- MCAlias
    Value <- MCValue
    MaxPadding = 2
    MaxRewritings = 4
CHECK_DEADLOCK FALSE
INVARIANTS
    DigestStable
    WrittenReadable
