SPECIFICATION LimitSpec
CONSTANTS
    Accounts = {boss, ann}
    Addresses = {home, office}
    Requests = {r1, r2}
    LoginFailures = 2
SYMMETRY Symmetry
INVARIANTS LimitTypeOK GuessesBounded
