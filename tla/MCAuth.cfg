SPECIFICATION Spec
CONSTANTS
    owner = owner
    phone = phone
    Devices = {owner, phone, d3}
    None = None
    Requests = {r1, r2}
    RequestIds = {i1, i2}
    Operations = {"verify", "refresh", "call", "revoke", "register"}
    Starts <- FreshOrPair
    ChallengeTTL = 1
    Advertised = 1
    MayExpire = {5}
    MaxTokens = 5
    MaxChallenges = 1
    MaxNow = 1
SYMMETRY Symmetric
CHECK_DEADLOCK FALSE
INVARIANTS RevokedIsRefused RefreshIsSingleUse
PROPERTIES IdentityIsPermanent
