SPECIFICATION Spec
CONSTANTS
    Slots = {x, y}
    MaxTokens = 3
INVARIANTS
    SessionTypeOK
    RefreshingExact
    RefreshNeedsNewerToken
PROPERTY
    SessionEnds
