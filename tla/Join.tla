-------------------------------- MODULE Join --------------------------------
(***************************************************************************)
(* What shared/records.py's Sealer promises to the scoring pipeline, with  *)
(* no clock, no grace period and no dictionary of bundles: evidence is     *)
(* collected per request id, an exchange the proxy observed may be         *)
(* released for scoring, a release carries everything collected so far,    *)
(* evidence that reaches a released exchange releases it again at once     *)
(* unless it is such that scoring raises, and only evidence of an exchange *)
(* nobody observed may be discarded.                                       *)
(*                                                                         *)
(* Sealer implements this specification; Scorer is built on it.            *)
(***************************************************************************)
EXTENDS Integers

CONSTANTS
    Rids,       \* request ids the proxy hands out
    Taps,       \* app-reported records
    Malformed   \* those of them that make Pipeline.score raise

VARIABLES
    observed,   \* request ids the proxy has recorded an exchange for
    evidence,   \* the tap records held for each request id
    scored,     \* request ids released to Pipeline.score at least once
    view        \* the tap records of the last release of each request id

joinVars == <<observed, evidence, scored, view>>

JoinTypeOK ==
    /\ observed \subseteq Rids
    /\ evidence \in [Rids -> SUBSET Taps]
    /\ scored \subseteq Rids
    /\ view \in [Rids -> SUBSET Taps]

JoinInit ==
    /\ observed = {}
    /\ evidence = [r \in Rids |-> {}]
    /\ scored = {}
    /\ view = [r \in Rids |-> {}]

(* Evidence that can be scored.                                            *)
Readable(E) == E \cap Malformed = {}

(* A tap record is read, and releases the exchange with it or does not. An *)
(* exchange that was scored is always released again when it can be; one   *)
(* that a release has passed over for another's malformed tap may be.      *)
Collect(r, t, again) ==
    /\ evidence' = [evidence EXCEPT ![r] = @ \cup {t}]
    /\ r \in scored /\ Readable(evidence[r] \cup {t}) => again
    /\ IF again
       THEN /\ r \in observed
            /\ Readable(evidence[r] \cup {t})
            /\ scored' = scored \cup {r}
            /\ view' = [view EXCEPT ![r] = evidence[r] \cup {t}]
       ELSE UNCHANGED <<scored, view>>
    /\ UNCHANGED observed

(* The proxy's record of exchange r is read.                               *)
Observe(r) ==
    /\ r \notin observed
    /\ observed' = observed \cup {r}
    /\ UNCHANGED <<evidence, scored, view>>

(* One pass over what is held: observed exchanges are released, unobserved *)
(* evidence is discarded.                                                  *)
Sweep(release, discard) ==
    /\ release \subseteq observed
    /\ \A r \in release : Readable(evidence[r])
    /\ discard \cap observed = {}
    /\ scored' = scored \cup release
    /\ view' = [r \in Rids |-> IF r \in release THEN evidence[r] ELSE view[r]]
    /\ evidence' = [r \in Rids |-> IF r \in discard THEN {} ELSE evidence[r]]
    /\ UNCHANGED observed

JoinNext ==
    \/ \E r \in Rids, t \in Taps, again \in BOOLEAN : Collect(r, t, again)
    \/ \E r \in Rids : Observe(r)
    \/ \E release \in SUBSET Rids, discard \in SUBSET Rids :
          Sweep(release, discard)

JoinSpec == JoinInit /\ [][JoinNext]_joinVars

=============================================================================
