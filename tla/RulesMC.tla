------------------------------ MODULE RulesMC ------------------------------
(* Every rule of the table, each with the exchanges that come close to it.   *)
EXTENDS Rules, SequencesExt, TLC

CONSTANTS owner, review, comment

MCRids == {1, 2}
MCPrincipals == {owner}
MCPayloads == {review, comment}
MCClassesOf == (review :> {"plain", "dangling"}) @@ (comment :> {"mutation"})
MCMaxProbes == 1

TestsOf(f) == UNION {ToSet(clause) : clause \in ToSet(f.clauses)}
TestsOn(f, o) == {t \in TestsOf(f) : t.on = o}

KindOf(t) == IF t.kind = AnyKind THEN "planted" ELSE t.kind

Event(t, facts) ==
    [kind |-> t.kind, facts |-> facts, odd |-> {}, shape |-> "object",
     principal |-> IF "stranger" \in ToSet(t.facts) THEN owner ELSE None]
LoginEvent ==
    [kind |-> "auth.result", facts |-> {"ok", "password_verified"}, odd |-> {},
     shape |-> "object", principal |-> owner]

(* The event a tap test asks for, one short of its last fact, and one that  *)
(* has a value of the wrong type where the test inspects it.                *)
OddEvent(t, x) ==
    [Event(t, ToSet(t.facts) \ {x}) EXCEPT
        !.odd = {x}, !.principal = IF x = "stranger" THEN None ELSE @]

EventsNear(t) ==
    {Event(t, ToSet(t.facts)), Event(t, ToSet(Front(t.facts)))}
    \cup {OddEvent(t, x) : x \in ToSet(t.facts) \cap InspectedFacts}

(* A login with an odd principal, and a payload that is missing or no object*)
(* in a tap the rule tests.                                                 *)
OddLogin == [LoginEvent EXCEPT !.odd = {"stranger"}, !.principal = None]

BrokenNear(f) ==
    {OddLogin}
    \cup {[kind |-> t.kind, facts |-> {}, odd |-> {}, shape |-> shape, principal |-> None] :
             t \in TestsOn(f, "tap"), shape \in {"missing", "other"}}

(* What the proxy saw: all or all but one of the facts the rule asks for,   *)
(* with or without the canaries.                                            *)
PageWith(f, facts, canaries) ==
    [facts |-> facts, canaries |-> canaries, sent |-> {t.kind : t \in TestsOn(f, "sent")},
     shown |-> IF TestsOn(f, "stored") = {} THEN {} ELSE Payloads,
     submits |-> {}, probe |-> IF TestsOn(f, "probes") = {} THEN {} ELSE {1}]

PageFacts(f) == {t.fact : t \in TestsOn(f, "page")}
Canaries(f) == {[kind |-> KindOf(t), owner |-> owner] : t \in TestsOn(f, "leak")}

PagesNear(f) ==
    {PageWith(f, facts, canaries) :
        facts \in {PageFacts(f)} \cup {PageFacts(f) \ {x} : x \in PageFacts(f)},
        canaries \in {{}, Canaries(f)}}

(* The client's other exchange: it may submit what the first one shows, try *)
(* another ciphertext and log in.                                           *)
OtherPage(f) ==
    [facts |-> {}, canaries |-> {}, sent |-> {}, shown |-> {},
     submits |-> IF TestsOn(f, "stored") = {} THEN {} ELSE Payloads,
     probe |-> IF TestsOn(f, "probes") = {} THEN {} ELSE {2}]

Case(f, page, offer) ==
    [pages |-> (1 :> page) @@ (2 :> OtherPage(f)),
     offered |-> (1 :> offer) @@ (2 :> {LoginEvent})]

(* Every event that comes close with every page that does; and the events   *)
(* and the page the rule asks for with one event that is broken.            *)
MCCases ==
    UNION {{Case(f, page, UNION {EventsNear(t) : t \in TestsOn(f, "tap")}) :
               page \in PagesNear(f)}
           \cup {Case(f, PageWith(f, PageFacts(f), Canaries(f)),
                      {Event(t, ToSet(t.facts)) : t \in TestsOn(f, "tap")} \cup {e}) :
                    e \in BrokenNear(f)} : f \in AllRules}

=============================================================================
