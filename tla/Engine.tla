------------------------------- MODULE Engine -------------------------------
(* How the scorer judges bundles: Record's accessors, which note what they  *)
(* read (scorer/record.py), the evaluation of the rules and the evidence    *)
(* class it derives (scorer/engine.py), and Pipeline.score around them, for *)
(* one client. The rules are a parameter: module Rules has the table.       *)
(*                                                                         *)
(* A rule is a conjunction of clauses, a clause a disjunction of tests, both*)
(* judged from left to right as `and` and `or` are. A test reads what the   *)
(* proxy saw or what the app reported, as a set of named facts.             *)
(*                                                                         *)
(* records.validate does not look at a tap's payload d: its shape says      *)
(* whether it is an object, missing, or something other than an object, and *)
(* odd are the facts whose value has a type their test cannot take.         *)
EXTENDS Sequences, Naturals, FiniteSets

CONSTANTS
    RULES,       \* the rules: each an id and a sequence of clauses
    Rids,        \* the client's exchanges
    Principals,  \* owners of canaries
    None,        \* an event without a principal, a page without a ciphertext
    Payloads,    \* what clients submit for the shop to keep and show
    ClassesOf,   \* the patterns each payload matches
    AnyKind,     \* leaked(kind=None)
    MaxProbes,   \* the padding rule's 50
    Cases        \* what the proxy sees and what the app emits, by exchange

ASSUME RulesAssumption ==
    /\ \A rule \in RULES :
          /\ Len(rule.clauses) \in Nat \ {0}
          /\ DOMAIN rule.clauses = 1..Len(rule.clauses)
          /\ \A i \in DOMAIN rule.clauses :
                /\ Len(rule.clauses[i]) \in Nat \ {0}
                /\ DOMAIN rule.clauses[i] = 1..Len(rule.clauses[i])
    /\ \A f, g \in RULES : f.id = g.id => f = g

(* A payload that is no object has no facts; an odd principal names nobody. *)
ASSUME CasesAssumption ==
    /\ MaxProbes \in Nat
    /\ \A c \in Cases :
          /\ c.offered = [r \in Rids |-> c.offered[r]]
          /\ \A r \in Rids :
                /\ c.pages[r].submits \subseteq Payloads
                /\ IsFiniteSet(c.pages[r].probe)
                /\ \A e \in c.offered[r] :
                      /\ e.shape \in {"object", "missing", "other"}
                      /\ e.shape # "object" => e.facts \cup e.odd = {}
                      /\ e.principal \in Principals \cup {None}
                      /\ "stranger" \in e.odd => e.principal = None

VARIABLES
    pages,    \* what the proxy saw of each exchange
    offered,  \* taps the app has emitted and the collector has not read
    events,   \* taps in each bundle, in the order they were read
    sealed,   \* bundles that were released
    earned,   \* the client's rows of table principals
    stored,   \* table stored
    probes,   \* Pipeline.state["padding"] of the client
    rows      \* the client's rows of table solves

judged == <<earned, stored, probes, rows>>
engineVars == <<pages, offered, events, sealed, judged>>

-----------------------------------------------------------------------------
(* The tests a rule is made of.                                            *)

Page(f) == <<[on |-> "page", fact |-> f]>>
Leak(k) == <<[on |-> "leak", kind |-> k]>>
Sent(k) == <<[on |-> "sent", kind |-> k]>>
Stored(c) == <<[on |-> "stored", class |-> c]>>
Probed == <<[on |-> "probes"]>>
Headers == <<[on |-> "headers"]>>
Tap(k, facts) == <<[on |-> "tap", kind |-> k, facts |-> facts]>>

(* The fact "stranger" compares an event's principal with r.principals.     *)
Has(e, f, known) ==
    IF f = "stranger" THEN e.principal \notin known \cup {None} ELSE f \in e.facts

Matches(e, t, known) ==
    /\ e.kind = t.kind /\ e.shape = "object"
    /\ \A i \in DOMAIN t.facts : Has(e, t.facts[i], known)

(* The predicate fails on the first fact of a payload that is no object, and*)
(* on a value of the wrong type when it gets that far.                      *)
Trips(e, t, known) ==
    /\ e.kind = t.kind
    /\ \/ e.shape = "other"
       \/ \E i \in DOMAIN t.facts :
             /\ t.facts[i] \in e.odd
             /\ \A j \in 1..(i - 1) : Has(e, t.facts[j], known)

(* Record.ev makes an Event of every d of the kind before one is looked at. *)
EvRaises(E, t) == \E i \in DOMAIN E : E[i].kind = t.kind /\ E[i].shape = "missing"

(* Record.any over the events E: any() stops at the first match.            *)
AnyEventOfAll(E, t, known) ==
    /\ ~EvRaises(E, t)
    /\ \E i \in DOMAIN E : Matches(E[i], t, known)
    /\ \A i \in DOMAIN E : ~Trips(E[i], t, known)

AnyEvent(E, t, known) ==
    /\ ~EvRaises(E, t)
    /\ \E i \in DOMAIN E :
          /\ Matches(E[i], t, known)
          /\ \A j \in 1..(i - 1) : ~Trips(E[j], t, known)

AnyEventTrips(E, t, known) ==
    \/ EvRaises(E, t)
    \/ \E i \in DOMAIN E :
          /\ Trips(E[i], t, known)
          /\ \A j \in 1..(i - 1) : ~Matches(E[j], t, known)

(* Record.leaked: canaries of this kind whose owner the client has not been.*)
Leaked(p, k, known) ==
    {c \in p.canaries : c.owner \notin known /\ k \in {AnyKind, c.kind}}

(* A view v: one bundle and what the store and the rules remember.          *)
Holds(t, v) ==
    \/ t.on = "page" /\ t.fact \in v.page.facts
    \/ t.on = "leak" /\ Leaked(v.page, t.kind, v.earned) # {}
    \/ t.on = "sent" /\ t.kind \in v.page.sent
    \/ t.on = "stored" /\ \E p \in v.stored \cap v.page.shown : t.class \in ClassesOf[p]
    \/ t.on = "probes" /\ Cardinality(v.probes) > MaxProbes
    \/ t.on = "headers"
    \/ t.on = "tap" /\ AnyEvent(v.events, t, v.earned)

Raises(t, v) == t.on = "tap" /\ AnyEventTrips(v.events, t, v.earned)

-----------------------------------------------------------------------------
(* Evaluation.                                                             *)

Succeeds(clause, v) == \E j \in DOMAIN clause : Holds(clause[j], v)

(* The tests of a rule that are judged: those after a clause that failed and*)
(* those after a test that settled its clause are not.                      *)
Judged(rule, v) ==
    UNION {LET clause == rule.clauses[i]
           IN  {clause[j] : j \in {k \in DOMAIN clause :
                                     \A l \in 1..(k - 1) : ~Holds(clause[l], v)}} :
           i \in {k \in DOMAIN rule.clauses :
                     \A l \in 1..(k - 1) : Succeeds(rule.clauses[l], v)}}

(* What a test adds to Record.touched.                                     *)
Reads(t) ==
    IF t.on = "tap"
    THEN {"tap"} \cup {x \in {"ingress"} : \E i \in DOMAIN t.facts : t.facts[i] = "stranger"}
    ELSE {"ingress"}

TouchedFirst(rule, v) == Reads(rule.clauses[1][1])

Touched(rule, v) == UNION {Reads(t) : t \in Judged(rule, v)}

(* A rule that raises is skipped.                                          *)
Fires(rule, v) ==
    /\ \A i \in DOMAIN rule.clauses : Succeeds(rule.clauses[i], v)
    /\ \A t \in Judged(rule, v) : ~Raises(t, v)

Fired(v) == {rule \in RULES : Fires(rule, v)}

TRUSTED == {"ingress", "oast", "egress:network"}

EvidenceClass(touched) ==
    IF touched = {} THEN "unknown"
    ELSE IF touched \subseteq TRUSTED THEN "proxy-observed"
    ELSE "app-reported"

(* engine.evaluate: every rule starts from what was touched before them all.*)
Evaluate(v, before) ==
    {[finding |-> rule.id, class |-> EvidenceClass(Touched(rule, v) \ before)] :
        rule \in Fired(v)}

-----------------------------------------------------------------------------
(* The pipeline.                                                           *)

IsLogin(e) == e.kind = "auth.result" /\ {"ok", "password_verified"} \subseteq e.facts

(* An auth.result that Pipeline.score cannot read: its d["principal"] goes  *)
(* into a statement of the store, which takes no list and no object.        *)
Breaks(e) ==
    /\ e.kind = "auth.result"
    /\ e.shape = "object" => IsLogin(e) /\ "stranger" \in e.odd

Broken(E) == \E i \in DOMAIN E : Breaks(E[i])

(* The logins before the first event that breaks the loop.                  *)
LoginsInAny(E) ==
    {E[i].principal : i \in {j \in DOMAIN E : /\ IsLogin(E[j])
                                             /\ \A k \in 1..j : ~Breaks(E[k])}}

LoginsIn(E) == LoginsInAny(E) \ {None}

View(r, E, known, kept, seen) ==
    [page |-> pages[r], events |-> E, earned |-> known, stored |-> kept, probes |-> seen]

(* Pipeline.score: what the request submitted and the logins it proved are  *)
(* kept before the rules look; a finding that has a row gets no other. An   *)
(* exception on the way leaves what was kept by then, and no rule looks: the*)
(* ticker drops it, the handler of the connection ends with it.             *)
Score(r, E) ==
    /\ stored' = stored \cup pages[r].submits
    /\ earned' = earned \cup LoginsIn(E)
    /\ IF Broken(E)
       THEN UNCHANGED <<probes, rows>>
       ELSE /\ probes' = probes \cup pages[r].probe
            /\ LET fired == Evaluate(View(r, E, earned', stored', probes'), {})
               IN  rows' = rows \cup {[finding |-> x.finding, class |-> x.class, rid |-> r] :
                                         x \in {y \in fired :
                                            \A row \in rows : row.finding # y.finding}}

EngineInit ==
    /\ \E c \in Cases : pages = c.pages /\ offered = c.offered
    /\ events = [r \in Rids |-> <<>>]
    /\ sealed = {}
    /\ earned = {}
    /\ stored = {}
    /\ probes = {}
    /\ rows = {}

(* A bundle is sealed, and scored unless the scoring raises.                *)
Seal(r) ==
    /\ r \notin sealed
    /\ sealed' = sealed \cup {r}
    /\ Score(r, events[r])
    /\ UNCHANGED <<pages, offered, events>>

(* A tap is read; a bundle that was sealed is scored again.                 *)
Read(r, e) ==
    /\ e \in offered[r]
    /\ offered' = [offered EXCEPT ![r] = @ \ {e}]
    /\ events' = [events EXCEPT ![r] = Append(@, e)]
    /\ IF r \in sealed THEN Score(r, events'[r]) ELSE UNCHANGED judged
    /\ UNCHANGED <<pages, sealed>>

EngineNext ==
    \/ \E r \in Rids : Seal(r)
    \/ \E r \in Rids : \E e \in offered[r] : Read(r, e)

EngineSpec == EngineInit /\ [][EngineNext]_engineVars

-----------------------------------------------------------------------------
(* Properties.                                                             *)

ViewOf(r) == View(r, events[r], earned, stored, probes)
Firing(r) == IF Broken(events[r]) THEN {} ELSE Fired(ViewOf(r))

(* What can take a verdict of the rule back: a login tap that scoring cannot*)
(* read; a tap without a payload, of a kind the rule tests; and where the   *)
(* rule looks for something else next, one its predicate cannot take.       *)
Spoils(e, rule) ==
    \/ Breaks(e)
    \/ \E i \in DOMAIN rule.clauses : \E j \in DOMAIN rule.clauses[i] :
          LET t == rule.clauses[i][j]
          IN  /\ t.on = "tap" /\ t.kind = e.kind
              /\ \/ e.shape = "missing"
                 \/ /\ j # Len(rule.clauses[i])
                    /\ e.shape = "other" \/ \E k \in DOMAIN t.facts : t.facts[k] \in e.odd

Pages == {c.pages : c \in Cases}
Taps == UNION {UNION {c.offered[r] : r \in Rids} : c \in Cases}

(* Every variable has its type, every finding at most one row, and the row  *)
(* names a bundle that was released.                                        *)
EngineTypeOK ==
    /\ pages \in Pages
    /\ offered \in [Rids -> SUBSET Taps]
    /\ events \in [Rids -> Seq(Taps)]
    /\ sealed \subseteq Rids
    /\ earned \subseteq Principals
    /\ stored \subseteq Payloads
    /\ rows \subseteq [finding : {rule.id : rule \in RULES},
                 class : {"proxy-observed", "app-reported"}, rid : sealed]
    /\ \A x, y \in rows : x.finding = y.finding => x = y

(* Evidence that is well formed never takes a verdict back, and what is not *)
(* does so in three ways only: a tap that is read later and proves no login *)
(* stops a rule that fired only if it spoils it. Above all, a value of the  *)
(* wrong type cannot hide what an earlier tap has shown (engine.py:23-38 and*)
(* the any() of record.py:122).                                             *)
EvidenceOnlyAdds ==
    [][earned' = earned =>
          \A r \in Rids : \A rule \in Firing(r) \ Firing(r)' :
             /\ events'[r] # events[r]
             /\ Spoils(events'[r][Len(events'[r])], rule)]_engineVars

(* A finding recorded as proxy-observed would have been found without a     *)
(* single tap of that request (engine.py:41-48: "proxy-observed rules cannot*)
(* be faked by a fully compromised app").                                   *)
ProxyObservedNeedsNoTap ==
    [][\A row \in rows' \ rows : row.class = "proxy-observed" =>
          \E rule \in Fired(View(row.rid, <<>>, earned', stored', probes')) :
             rule.id = row.finding]_engineVars

(* The class a row was given by the first evaluation that fired is the class*)
(* any other evaluation that fires gives: a row that is never updated is    *)
(* never wrong about it (store.solve keeps the first, engine.py:41-48).     *)
ClassIsReproduced ==
    \A row \in rows : \A rule \in Firing(row.rid) : rule.id = row.finding =>
        row.class = EvidenceClass(Touched(rule, ViewOf(row.rid)))

=============================================================================
