--------------------------- MODULE ClientIdentity ---------------------------
(* The scorer's idea of a client (scorer/record.py Record.actor) beside the *)
(* app's sessions: the actor of a request is the tail of the session cookie *)
(* it carried, which is the tail of a signature over the session and a      *)
(* second, so a cookie stands here for its own tail. A client without a     *)
(* cookie is its address, which clients may share.                          *)
EXTENDS Sessions

VARIABLES
    principals,  \* table principals, as pairs of an actor and an account
    leaked       \* history: client and account of each leak that is credited

identityVars == <<sessionVars, principals, leaked>>

(* A password-verified login, reported with the account it proves.          *)
Proved(q) == IF q.to \in {"login", "fixate"} THEN {q.uid} ELSE {}

(* GET /api/v2/users/<uid> of the caller's own record shows its secret, a   *)
(* canary of the manifest for the accounts of the run spec.                 *)
Shown(q, s) == IF q.to = "record" THEN {s.uid} \cap Seeded ELSE {}

(* Pipeline.score of the exchange: logins first, then the leak rules.       *)
ServeAndScore(c, i) ==
    LET x == open[c][i]
    IN  /\ Serve(c, i)
        /\ principals' = principals \cup {<<x.sent, u>> : u \in Proved(x.q)}
        /\ leaked' = leaked \cup
              {<<c, u>> : u \in {v \in Shown(x.q, Read(x.sent)) :
                                    <<x.sent, v>> \notin principals'}}

IdentityInit == SessionsInit /\ principals = {} /\ leaked = {}

IdentityNext ==
    \/ \E c \in Clients, i \in Slots : ServeAndScore(c, i)
    \/ /\ \/ \E c \in Clients, i \in Slots, q \in Requests : Send(c, i, q)
          \/ \E c \in Clients, i \in Slots : Receive(c, i) \/ Lose(c, i)
          \/ Advance
       /\ UNCHANGED <<principals, leaked>>

IdentitySpec == IdentityInit /\ [][IdentityNext]_identityVars

(* ingest.py, "a login that legitimately succeeded in this very request     *)
(* must count, or the actor gets credited with leaking a secret they had    *)
(* just been granted", and record.py, "Stable CLIENT identity": what a      *)
(* client sees of the account it logged in to is not credited as a leak.    *)
OwnSecretsAreNotLeaks == leaked = {}

=============================================================================
