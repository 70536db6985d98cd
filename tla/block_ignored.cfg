SPECIFICATION Spec
CONSTANTS
    Users = {u1, u2}
    Codes = {c1}
    Validity = 1
    Accepters = {a1}
    Senders = {s1}
    Nobody = Nobody
PROPERTIES
    BlockDropsPages
