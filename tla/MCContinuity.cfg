SPECIFICATION Spec
CONSTANTS
    k1 = k1  k2 = k2  k3 = k3  k4 = k4
    Key <- MCKey
    NoKey = NoKey
    Cap = 2
    MaxAccepted = 5
    MaxRestarts = 3
INVARIANTS OncePerWindowOverRestarts
PROPERTY BrokenIsFinal
