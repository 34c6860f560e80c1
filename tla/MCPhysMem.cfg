SPECIFICATION Spec
CONSTANTS
    Pages = {p1, p2, p3, p4, p5}
    NoPage = NoPage
    Envs = {a, b}
    NPT = 2
    RefMod = 16
SYMMETRY PageSymmetry
INVARIANTS
    TypeOK
    RefExact
    FreeListExact
    TablesPrivate
PROPERTIES
    AddrSpacesSpec
