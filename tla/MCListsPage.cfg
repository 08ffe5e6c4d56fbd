SPECIFICATION Spec
CONSTANTS
    Conns = {c1, c2}
    MaxLists = 2
    Category = {ads}
SYMMETRY ConnSymmetry
INVARIANTS
    ListsTypeOK
    BusyExact
    DomainsReachTheirList
PROPERTY
    ListEditorRefines
