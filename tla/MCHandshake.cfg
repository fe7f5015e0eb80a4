CONSTANTS
    Q = 40009
    HashOf <- Polynomial
    MAX_ROLES = 8
    MAX_TOKEN = 3
    MaxDamage = 2
    Random <- MCRandom
    Roles <- MCRoles
    AllowedLists <- MCAllowedLists
    ServerRoles <- MCServerRoles
    Others <- MCOthers
    Token <- MCToken
SPECIFICATION Spec
INVARIANTS HonestRunsVerify ConfirmedAsSent AcceptedAsSent KeysAgree
CHECK_DEADLOCK FALSE
