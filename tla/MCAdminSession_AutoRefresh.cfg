SPECIFICATION Spec
CONSTANTS
    Slots = {x, y}
    MaxTokens = 3
INVARIANT
    AutoRefresh
