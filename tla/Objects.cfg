SPECIFICATION Spec
CONSTANTS
    Names = {1, 2}
    Spellings = {0, 1}
    Hosts = {hx, hy}
    PlainName = 1
    ReferenceName = 2
    Own = Own
    Made = Made
    Raw = Raw
    None = None
    MaxTouched = 1
INVARIANTS
    TypeOK
    Apart
    IteratesSnapshot
PROPERTIES
    SpellingKept
    SettersHold
    ImplementsEager
