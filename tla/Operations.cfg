SPECIFICATION Spec
CONSTANTS
    Namespaces = {na, nb}
    Hosts = {hx, hy}
    NoName = NoName
    None = None
    Items = {i1, i2}
    Backends = {"cimxml", "wsman"}
SYMMETRY MCSymmetry
INVARIANTS
    TypeOK
    PathTellsPlace
    AsksWhereMeant
    PullFits
PROPERTIES
    ImplementsEnumeration
