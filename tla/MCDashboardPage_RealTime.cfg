SPECIFICATION Spec
CONSTANTS
    Conns = {c1, c2}
PROPERTY
    RealTime
