-------------------------- MODULE ClientIdentityMC --------------------------
(* One client on one connection that may log in, browse and log out.        *)
EXTENDS ClientIdentity

CONSTANTS alice, newcomer, root, can, c1

MCRoleOf == [a \in {root} |-> "admin"]

MCRequests ==
    [to : {"visit", "post", "record", "logout"}]
    \cup [to : {"login"}, uid : {alice}]
    \cup [to : {"register"}, uid : {newcomer}]

=============================================================================
