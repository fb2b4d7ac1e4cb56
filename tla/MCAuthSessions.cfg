SPECIFICATION Spec
CONSTANTS
    Clients = {c1, c2}
    Passwords = {p1, p2}
    Tokens = {t1, t2}
    LoginLimit = 2
    None = None
    MaxVersion = 3
    MaxLost = 1
SYMMETRY Symmetric
INVARIANTS
    TypeOK
    SessionsFaithful
    GuessesBounded
PROPERTIES
    AdmitsCurrentOnly
