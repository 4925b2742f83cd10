CONSTANTS
    Users = {"u1"}
    Nobody = "nobody"
    Requests = {"r1", "r2"}
    RoleNames = {"admin"}
    Scopes = {"few", "many"}
    Capacity = 1
    MaxVersion = 1
SPECIFICATION Spec
INVARIANT RevokeIsImmediate
CHECK_DEADLOCK FALSE
