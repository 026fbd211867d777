SPECIFICATION Spec
CONSTANTS
    Accounts = {boss, ann}
    Addresses = {home, office}
    Passwords = {old, new}
    Requests = {r1, r2, r3}
    AdminUsername = boss
    AdminPassword = old
    LoginFailures = 1
SYMMETRY Symmetry
INVARIANTS TypeOK LastAdminStays AdmittedWasRight
PROPERTIES AcknowledgedTakesEffect
CHECK_DEADLOCK FALSE
