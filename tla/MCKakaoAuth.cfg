SPECIFICATION Spec
CONSTANTS
    p1 = p1
    p2 = p2
    v1 = v1
    v2 = v2
    Providers = {k1, k2}
    Phones = {p1, p2}
    PhoneTokens = {v1, v2}
    PhoneOf <- TwoPhones
    Requests = {r1, r2}
    None = None
    MaxTokens = 2
    MaxAccounts = 3
SYMMETRY Symmetry
CHECK_DEADLOCK FALSE
INVARIANTS
    IdentityNamesOneAccount
    TokensSpentTogether
