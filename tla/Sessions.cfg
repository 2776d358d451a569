\* One client, two connections, three requests, a cookie that may expire.
\* It stops when its requests and the clock are used up.
SPECIFICATION SessionsSpec
CONSTANTS
    alice = alice
    newcomer = newcomer
    root = root
    can = can
    None = None
    Accounts = {alice, newcomer}
    Seeded = {alice}
    Staff = {root}
    RoleOf <- MCRoleOf
    TheAdmin = root
    Products = {can}
    Requests <- MCRequests
    c1 = c1
    Clients = {c1}
    i1 = i1
    i2 = i2
    Slots = {i1, i2}
    Lifetime = 1
    MaxSecond = 3
    MaxRequests = 3
SYMMETRY MCSymmetry
CHECK_DEADLOCK FALSE
INVARIANTS
    SessionsTypeOK
    ReadYourWrites
PROPERTIES
    SessionsPersist
