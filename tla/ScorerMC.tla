------------------------------ MODULE ScorerMC ------------------------------
(* Three requests. The first, by bob, shows the owner's secret and redeems *)
(* a gift card, which the tap writer sends twice. The second, by alice,    *)
(* logs in as the owner, reads a file outside the root, reaches /admin by  *)
(* an odd path, and shows the secret. The third, by alice, uses an odd path*)
(* again, shows the secret again, loads a pickle and redeems bob's card at *)
(* the same balance.                                                       *)
EXTENDS Scorer, TLC

CONSTANTS alice, bob, owner, card, readFile, login, redeem1, again1, redeem2, pickle

MCRids == 1..3
MCTaps == {readFile, login, redeem1, again1, redeem2, pickle}

MCRedeem1 == [rid |-> 1, kind |-> "giftcard.redeem", code |-> card,
              balance_before |-> 100]

MCTapData ==
    redeem1 :> MCRedeem1
    @@ again1 :> MCRedeem1
    @@ login :> [rid |-> 2, kind |-> "auth.result", password_verified |-> TRUE,
                 principal |-> owner]
    @@ readFile :> [rid |-> 2, kind |-> "fs.read"]
    @@ redeem2 :> [rid |-> 3, kind |-> "giftcard.redeem", code |-> card,
                   balance_before |-> 100]
    @@ pickle :> [rid |-> 3, kind |-> "deser.load"]

(* The two copies are alike: TapData does not tell them apart.             *)
MCSymmetry == Permutations({redeem1, again1})

MCExchange ==
    1 :> [actor |-> bob, oddPath |-> FALSE, owners |-> {owner}]
    @@ 2 :> [actor |-> alice, oddPath |-> TRUE, owners |-> {owner}]
    @@ 3 :> [actor |-> alice, oddPath |-> TRUE, owners |-> {owner}]

=============================================================================
