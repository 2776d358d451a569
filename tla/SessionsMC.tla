----------------------------- MODULE SessionsMC -----------------------------
(* One client with two requests in flight at a time: every request there is,*)
(* one product, a customer of the run spec and one that registers. Which of *)
(* its connections a request takes does not matter.                         *)
EXTENDS Sessions
LOCAL INSTANCE TLC

CONSTANTS alice, newcomer, root, can, c1, i1, i2

MCRoleOf == [a \in {root} |-> "admin"]

MCRequests ==
    [to : {"visit", "post", "record", "account", "console", "tool", "cart", "pay",
           "confirm", "token", "logout", "adminLogout", "mfaBegin", "mfaSkip"}]
    \cup [to : {"login"}, uid : {alice}]
    \cup [to : {"register"}, uid : {newcomer}]
    \cup [to : {"fixate"}, uid : {alice}, sid : BOOLEAN]
    \cup [to : {"signin"}, admin : {root}]
    \cup [to : {"add", "remove"}, pid : {can}]
    \cup [to : {"claim"}, n : 0..1]

MCSymmetry == Permutations(Slots)

=============================================================================
