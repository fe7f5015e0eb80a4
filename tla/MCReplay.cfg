SPECIFICATION Spec
CONSTANTS
    k1 = k1  k2 = k2  k3 = k3  k4 = k4  k5 = k5
    Key <- MCKey
    NoKey = NoKey
    Cap = 3
    MaxAccepted = 8
INVARIANTS TypeOK LanesAgree
PROPERTIES CImplementsWindow RImplementsWindow
