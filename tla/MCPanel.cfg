SPECIFICATION Spec
CONSTANTS
    Conns = {c1, c2}
    MaxGroups = 2
    Category = {ads}
    Names = {ana}
    MaxRanges = 1
    Filters = {none, blocked}
    NoFilter = none
    Limit = 1
    MaxLogged = 2
SYMMETRY ConnSymmetry
INVARIANTS
    PanelTypeOK
    RangeAsShown
    TablesShowConfirmed
    LogsAskWhatIsSet
PROPERTIES
    PolicyEditorRefines
