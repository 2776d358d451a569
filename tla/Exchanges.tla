----------------------------- MODULE Exchanges ------------------------------
(***************************************************************************)
(* What the scorer may assume of the ingress proxy (scorer/proxy.py): every*)
(* request id is used for one exchange, which is forwarded once and then   *)
(* either leaves one ingress record or none, for good. Proxy implements it;*)
(* Sealer's Begin, Finish and Abort are its steps with a clock.            *)
(***************************************************************************)
CONSTANT Rids   \* request ids

VARIABLE phase  \* idle, open, done (recorded) or aborted (never recorded)

ExchangesInit == phase = [r \in Rids |-> "idle"]

Becomes(r, from, to) ==
    /\ phase[r] = from
    /\ phase' = [phase EXCEPT ![r] = to]

ExchangesNext ==
    \E r \in Rids :
        \/ Becomes(r, "idle", "open")
        \/ Becomes(r, "open", "done")
        \/ Becomes(r, "open", "aborted")

ExchangesSpec == ExchangesInit /\ [][ExchangesNext]_phase

=============================================================================
