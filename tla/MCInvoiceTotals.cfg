SPECIFICATION Spec
CONSTANTS
    RawLines <- SomeLines
    MaxLines = 2
    Discounts = {None, 0, 25, 700}
    Offsets <- SomeOffsets
    Headers <- SomeHeaders
    None = None
CHECK_DEADLOCK FALSE
INVARIANTS
    TypeOK
    MappingFailsOnlyForCause
    DocumentsAskForTheCanonicalTotal
    XmlAddsUp
