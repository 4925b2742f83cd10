CONSTANTS
    Families = {f1, f2}
    Procs = {p1, p2}
    Nobody = Nobody
    MaxTokens = 3
    MaxChanges = 2
    Users = {u1, u2, u3}
    Founders = {u1, u2}
    Invites = {i1}
    Accounts = {a1, a2}
    RoleNames = {"admin"}
    Scopes = {"few", "many"}
    Capacity = 1
    MaxVersion = 1
SPECIFICATION MCSpec
INVARIANTS IInv AlwaysAnOwner InviteUsedOnce OnlyRacedFillsAreStale SearchesOneIndex
SYMMETRY Symmetry
CHECK_DEADLOCK FALSE
