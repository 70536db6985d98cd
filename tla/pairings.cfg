SPECIFICATION Spec
CONSTANTS
    Users = {u1, u2, u3}
    Codes = {c1, c2}
    Validity = 1
    Accepters = {a1, a2}
    Senders = {s1}
    Nobody = Nobody
SYMMETRY NameSymmetry
INVARIANTS
    TypeOK
    CopiesTogether
    InviteUsedOnce
PROPERTIES
    ImplementsContract
