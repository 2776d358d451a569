\* One client that logs in and then reads its own record.
SPECIFICATION IdentitySpec
CONSTANTS
    alice = alice
    newcomer = newcomer
    root = root
    can = can
    None = None
    Accounts = {alice, newcomer}
    Seeded = {alice}
    Staff = {root}
    RoleOf <- MCRoleOf
    TheAdmin = root
    Products = {can}
    Requests <- MCRequests
    c1 = c1
    Clients = {c1}
    Slots = {1}
    Lifetime = 2
    MaxSecond = 4
    MaxRequests = 3
INVARIANT
    OwnSecretsAreNotLeaks
