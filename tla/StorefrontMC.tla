---------------------------- MODULE StorefrontMC ----------------------------
(* Three seeded users, the third without a wallet, one card; for every     *)
(* route the requests that can get in each other's way. User 4 is nobody   *)
(* until one registers.                                                    *)
EXTENDS Storefront, TLC

CONSTANTS t1, t2, alice, bob, card, once, ip1, ip2

MCUsers ==
    1 :> [email |-> "a@shop", role |-> "admin"]
    @@ 2 :> [email |-> "b@shop", role |-> "customer"]
    @@ 3 :> [email |-> "c@shop", role |-> "customer"]

MCWallets == 1 :> 1 @@ 2 :> 0
MCCards == card :> 2

ToAdmin == [column |-> "role", value |-> "admin"]
ToNew == [column |-> "email", value |-> "new"]

MCWork ==
    [op : {"redeem"}, code : {card}, uid : {2, 3}]
    \cup [op : {"coupon"}, code : {once}, actor : {alice, bob}]
    \cup [op : {"register"}, email : {"new"}]
    \cup [op : {"change_email"}, uid : {2}, email : {"new"}]
    \cup [op : {"refer"}, owner : {4}, actor : {bob}]
    \cup [op : {"patch"}, caller : {2}, uid : {2}, sets : {<<>>, <<ToAdmin, ToNew>>}]
    \cup [op : {"patch"}, caller : {4}, uid : {4}, sets : {<<>>, <<ToAdmin>>}]
    \cup [op : {"set_role"}, caller : {2, None}, uid : {3}, role : {"admin"}]
    \cup [op : {"set_role"}, caller : {None}, uid : {2}, role : {"admin"}]
    \cup [op : {"guess"}, actor : {alice}, ip : {ip1, ip2}]
    \cup [op : {"guess"}, actor : {bob}, ip : {ip1}]
    \cup [op : {"login"}, email : {"b@shop"}, good : {TRUE}]
    \cup [op : {"api_login"}, email : {"b@shop"}, good : {FALSE}]

MCSymmetry == Permutations(Threads)
=============================================================================
