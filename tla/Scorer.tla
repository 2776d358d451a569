------------------------------- MODULE Scorer -------------------------------
(***************************************************************************)
(* The scoring pipeline (scorer/ingest.py Pipeline, scorer/engine.py,      *)
(* scorer/rules.py) and the solve store (scorer/store.py), on top of what  *)
(* Join promises about the bundles that reach it.                          *)
(*                                                                         *)
(* Five rules of scorer/rules.py stand for the kinds the rule set has: one *)
(* that reads the proxy's record alone, one that looks for canaries of     *)
(* identities the actor has not earned, two that read a tap and hand out a *)
(* capability, and the one that keeps state between bundles.               *)
(*                                                                         *)
(* A request id is a number: the proxy's rid_factory counts, requests are  *)
(* forwarded in that order, and the number serves as the ts of the record. *)
(*                                                                         *)
(* The taps are those the shop's own tap() writes, whose payload always has*)
(* the keys the pipeline reads; Sealer and Engine have malformed ones too. *)
(* A line the app wrote twice, because its first send was cut, is two taps.*)
(***************************************************************************)
EXTENDS Join, FiniteSets

CONSTANTS
    Actors,      \* client identities (Record.actor)
    Principals,  \* identities of the shop that own canaries
    Codes,       \* gift card codes
    None,        \* SQL NULL
    TapData,     \* what each tap record says
    Exchange,    \* what the proxy saw of each exchange
    MaxResets    \* bound: POST /oracle/reset is called at most this often

Capabilities == {"source-read", "rce"}

TapRecord ==
    [rid : Rids, kind : {"auth.result"}, password_verified : BOOLEAN,
     principal : Principals]
    \cup [rid : Rids, kind : {"fs.read", "deser.load"}]
    \cup [rid : Rids, kind : {"giftcard.redeem"}, code : Codes, balance_before : Nat]

(* oddPath: an encoded or doubled separator reached /admin. owners: whose  *)
(* user-secret canaries the response shows.                                *)
ExchangeRecord ==
    [actor : Actors, oddPath : BOOLEAN, owners : SUBSET Principals]

ASSUME ScorerAssumption ==
    /\ Rids \subseteq Nat \ {0}
    /\ TapData \in [Taps -> TapRecord]
    /\ Exchange \in [Rids -> ExchangeRecord]
    /\ MaxResets \in Nat
    /\ None \notin Capabilities \cup Nat
    /\ Malformed = {}
    \* the wallet route reports one redemption per request; the rest are copies
    /\ \A t, u \in Taps :
          /\ TapData[t].kind = "giftcard.redeem"
          /\ TapData[u].kind = "giftcard.redeem"
          /\ TapData[t].rid = TapData[u].rid
          => TapData[t] = TapData[u]

VARIABLES
    begun,         \* how many requests the proxy has forwarded
    before,        \* what the proxy had recorded when it forwarded each request
    fed,           \* tap records the pipeline has been fed
    solves,        \* table solves
    capabilities,  \* table capabilities
    principals,    \* table principals, as actor -> identities
    gc,            \* Pipeline.state["gc"]: code -> last balance_before, or None
    started,       \* Store.started
    resets,        \* number of resets so far
    rereleased     \* history: request ids scored again after late evidence

requestVars == <<begun, before>>
storeVars == <<solves, capabilities, principals, gc>>
scorerVars == <<joinVars, requestVars, fed, storeVars, started, resets, rereleased>>

-----------------------------------------------------------------------------
(* Rules and their metadata.                                               *)

CapabilityRules == {"path-traversal-invoice", "python-pickle-rce"}
Findings == {"path-normalization-admin", "bola-api-user",
             "race-giftcard-double-spend"} \cup CapabilityRules

(* The rule(..., capability=...) registration.                             *)
CapabilityOf(f) ==
    CASE f = "path-traversal-invoice" -> "source-read"
      [] f = "python-pickle-rce"      -> "rce"
      [] OTHER                        -> None

(* engine.evidence_class of what each rule reads of its Record.            *)
EvidenceClass(f) ==
    IF f \in {"path-normalization-admin", "bola-api-user"}
    THEN "proxy-observed"
    ELSE "app-reported"

TapsOfKind(E, k) == {t \in E : TapData[t].kind = k}

(* The identities a bundle's password-verified logins prove.               *)
EarnedIn(E) ==
    {TapData[t].principal :
        t \in {u \in TapsOfKind(E, "auth.result") : TapData[u].password_verified}}

(* r.leaked(kind="user-secret") with principals_for(actor) = known.        *)
Leaked(r, known) == Exchange[r].owners \ known

(* race-giftcard-double-spend: a redemption meets its own balance in the   *)
(* memory, or a copy of itself that was looked at just before.             *)
DoubleSpend(E, seen) ==
    \/ \E t \in TapsOfKind(E, "giftcard.redeem") :
          seen[TapData[t].code] = TapData[t].balance_before
    \/ \E t, u \in TapsOfKind(E, "giftcard.redeem") : t # u

(* The rules that fire on exchange r with events E, for an actor that has  *)
(* earned the identities known, when the gift card memory is seen.         *)
FiredOnAll(r, E, known, seen) ==
    {f \in {"path-normalization-admin"} : Exchange[r].oddPath}
    \cup {f \in {"path-traversal-invoice"} :
            \E x \in Rids : TapsOfKind(evidence[x], "fs.read") # {}}

Fired(r, E, known, seen) ==
    {f \in Findings :
        \/ f = "path-normalization-admin" /\ Exchange[r].oddPath
        \/ f = "bola-api-user" /\ Leaked(r, known) # {}
        \/ f = "path-traversal-invoice" /\ TapsOfKind(E, "fs.read") # {}
        \/ f = "python-pickle-rce" /\ TapsOfKind(E, "deser.load") # {}
        \/ f = "race-giftcard-double-spend" /\ DoubleSpend(E, seen)}

(* r.state["gc"] after the race rule has looked at the events E.           *)
RememberedNothing(E, seen) == seen

Remembered(E, seen) ==
    [c \in Codes |->
        IF \E t \in TapsOfKind(E, "giftcard.redeem") : TapData[t].code = c
        THEN LET t == CHOOSE t \in TapsOfKind(E, "giftcard.redeem") : TapData[t].code = c
             IN  TapData[t].balance_before
        ELSE seen[c]]

-----------------------------------------------------------------------------
(* The store.                                                              *)

(* Store.first_capability(actor, before_ts): NULL or one of the earliest.  *)
FirstCapabilityAfter(a, before_ts) ==
    LET later == {c \in capabilities : c.actor = a /\ c.ts > before_ts}
    IN  IF later = {} THEN None ELSE (CHOOSE c \in later : TRUE).capability

FirstCapability(a, before_ts) ==
    LET earlier == {c \in capabilities : c.actor = a /\ c.ts < before_ts}
    IN  IF earlier = {}
        THEN None
        ELSE (CHOOSE c \in earlier : \A d \in earlier : c.ts <= d.ts).capability

Solved(f, r) ==
    \E row \in solves : row.finding = f /\ row.actor = Exchange[r].actor

(* The rows Store.solve inserts for the rules that fired on exchange r: a  *)
(* finding the actor has already solved adds none.                         *)
NewRows(r, fired) ==
    {[finding |-> f, actor |-> Exchange[r].actor, ts |-> r, rid |-> r,
      capability |-> CapabilityOf(f),
      assisted_by |-> FirstCapability(Exchange[r].actor, r),
      evidence_class |-> EvidenceClass(f)] :
        f \in {g \in fired : ~Solved(g, r)}}

(* INSERT OR IGNORE INTO capabilities, keyed by actor and capability.      *)
NewCapabilitiesOfAnySolve(rows) ==
    {[actor |-> row.actor, capability |-> row.capability, ts |-> row.ts,
      finding |-> row.finding] :
        row \in {x \in rows : ~\E c \in capabilities :
                    c.actor = x.actor /\ c.capability = x.capability}}

NewCapabilities(rows) ==
    {[actor |-> row.actor, capability |-> row.capability, ts |-> row.ts,
      finding |-> row.finding] :
        row \in {x \in rows :
                    /\ x.capability # None
                    /\ ~\E c \in capabilities :
                          c.actor = x.actor /\ c.capability = x.capability}}

(* Pipeline.score(bundle): logins of this very bundle count before the     *)
(* rules run; then every rule that fires is recorded.                      *)
ScoreBeforeEarning(r, E) ==
    LET a == Exchange[r].actor
        rows == NewRows(r, Fired(r, E, principals[a], gc))
    IN  /\ principals' = [principals EXCEPT ![a] = @ \cup EarnedIn(E)]
        /\ solves' = solves \cup rows
        /\ capabilities' = capabilities \cup NewCapabilities(rows)
        /\ gc' = Remembered(E, gc)

ScoreReplacingRows(r, E) ==
    LET a == Exchange[r].actor
        known == principals[a] \cup EarnedIn(E)
        fired == Fired(r, E, known, gc)
        rows == NewRows(r, fired)
    IN  /\ principals' = [principals EXCEPT ![a] = known]
        /\ solves' = {x \in solves : ~(x.actor = a /\ x.finding \in fired /\ x.rid # r)}
                     \cup rows
        /\ capabilities' = capabilities \cup NewCapabilities(rows)
        /\ gc' = Remembered(E, gc)

Score(r, E) ==
    LET a == Exchange[r].actor
        known == principals[a] \cup EarnedIn(E)
        rows == NewRows(r, Fired(r, E, known, gc))
    IN  /\ principals' = [principals EXCEPT ![a] = known]
        /\ solves' = solves \cup rows
        /\ capabilities' = capabilities \cup NewCapabilities(rows)
        /\ gc' = Remembered(E, gc)

-----------------------------------------------------------------------------
(* The actions.                                                            *)

ScorerInit ==
    /\ JoinInit
    /\ begun = 0
    /\ before = [r \in Rids |-> {}]
    /\ fed = {}
    /\ solves = {}
    /\ capabilities = {}
    /\ principals = [a \in Actors |-> {}]
    /\ gc = [c \in Codes |-> None]
    /\ started = 1
    /\ resets = 0
    /\ rereleased = {}

(* The proxy forwards the next request.                                    *)
Begin ==
    /\ begun + 1 \in Rids
    /\ begun' = begun + 1
    /\ before' = [before EXCEPT ![begun + 1] = observed]
    /\ UNCHANGED <<joinVars, fed, storeVars, started, resets, rereleased>>

(* Pipeline.feed of a tap the app emitted; a reseal is scored at once.     *)
FeedTapUnscored(t) ==
    /\ TapData[t].rid <= begun
    /\ t \notin fed
    /\ fed' = fed \cup {t}
    /\ Collect(TapData[t].rid, t, TapData[t].rid \in scored)
    /\ UNCHANGED <<requestVars, storeVars, started, resets, rereleased>>

FeedTap(t) ==
    LET r == TapData[t].rid
    IN  /\ r <= begun
        /\ t \notin fed
        /\ fed' = fed \cup {t}
        /\ Collect(r, t, r \in scored)
        /\ IF r \in scored
           THEN /\ Score(r, evidence[r] \cup {t})
                /\ rereleased' = rereleased \cup {r}
           ELSE UNCHANGED <<storeVars, rereleased>>
        /\ UNCHANGED <<requestVars, started, resets>>

(* Pipeline.feed of the proxy's record.                                    *)
FeedIngress(r) ==
    /\ r <= begun
    /\ Observe(r)
    /\ UNCHANGED <<requestVars, fed, storeVars, started, resets, rereleased>>

(* Pipeline.tick (or drain) scores a bundle that has become due. An        *)
(* exchange recorded before another was forwarded is due before it, and    *)
(* comes first in the dictionary when one tick finds both due.             *)
ScoreSealed(r) ==
    /\ r \notin scored
    /\ before[r] \subseteq scored
    /\ Sweep({r}, {})
    /\ Score(r, evidence[r])
    /\ UNCHANGED <<requestVars, fed, started, resets, rereleased>>

(* Pipeline.tick drops a bundle whose ingress has not come.                *)
Quarantine(r) ==
    /\ evidence[r] # {}
    /\ Sweep({}, {r})
    /\ UNCHANGED <<requestVars, fed, storeVars, started, resets, rereleased>>

(* POST /oracle/reset -> Store.reset, as one step. The Sealer,             *)
(* Pipeline.state and the transcript are not touched.                      *)
ResetKeepingSolves ==
    /\ resets < MaxResets
    /\ capabilities' = {}
    /\ principals' = [a \in Actors |-> {}]
    /\ started' = begun + 1
    /\ resets' = resets + 1
    /\ UNCHANGED <<joinVars, requestVars, fed, solves, gc, rereleased>>

Reset ==
    /\ resets < MaxResets
    /\ solves' = {}
    /\ capabilities' = {}
    /\ principals' = [a \in Actors |-> {}]
    /\ started' = begun + 1
    /\ resets' = resets + 1
    /\ UNCHANGED <<joinVars, requestVars, fed, gc, rereleased>>

ScorerNext ==
    \/ Begin
    \/ \E t \in Taps : FeedTap(t)
    \/ \E r \in Rids : FeedIngress(r)
    \/ \E r \in Rids : ScoreSealed(r)
    \/ \E r \in Rids : Quarantine(r)
    \/ Reset

ScorerSpec == ScorerInit /\ [][ScorerNext]_scorerVars

-----------------------------------------------------------------------------
(* Properties.                                                             *)

(* Every variable has its type.                                            *)
ScorerTypeOK ==
    /\ JoinTypeOK
    /\ begun \in Nat
    /\ before \in [Rids -> SUBSET Rids]
    /\ fed \subseteq Taps
    /\ solves \subseteq
          [finding : Findings, actor : Actors, ts : Rids, rid : Rids,
           capability : Capabilities \cup {None},
           assisted_by : Capabilities \cup {None},
           evidence_class : {"proxy-observed", "app-reported"}]
    /\ capabilities \subseteq
          [actor : Actors, capability : Capabilities, ts : Rids, finding : Findings]
    /\ principals \in [Actors -> SUBSET Principals]
    /\ \A c \in Codes : gc[c] \in Nat \/ gc[c] = None
    /\ started \in Nat
    /\ resets \in 0..MaxResets
    /\ rereleased \subseteq scored

(* The rules whose verdict depends on one bundle alone, and on the presence*)
(* of evidence, never its absence.                                         *)
PositiveRules == {"path-normalization-admin"} \cup CapabilityRules

FiresOnView(f, r) == f \in Fired(r, view[r], {}, [c \in Codes |-> None])

(* A solve of a positive rule is borne out by the evidence released for the*)
(* very request it names, made by the very actor it credits, whatever was  *)
(* late, quarantined or reset (Pipeline.score, Store.solve).               *)
CreditsAreJustified ==
    \A row \in solves : row.finding \in PositiveRules =>
        /\ row.rid \in scored
        /\ row.actor = Exchange[row.rid].actor
        /\ FiresOnView(row.finding, row.rid)

(* What actor a has proved with any login released so far.                 *)
EverEarned(a) ==
    UNION {EarnedIn(view[r]) : r \in {x \in scored : Exchange[x].actor = a}}

(* No credit is lost: while nobody resets, a finding that released evidence*)
(* shows has its row for that actor, in whatever order bundles were sealed *)
(* and evidence came; for a leak, unless some released login earned it.    *)
CreditsAreComplete ==
    resets = 0 =>
        \A r \in scored :
            LET earned == EverEarned(Exchange[r].actor)
            IN  \A f \in Fired(r, view[r], earned, [c \in Codes |-> None]) :
                    Solved(f, r)

(* The logins that count for request r: its own, and those of its actor's  *)
(* requests the proxy had recorded when it forwarded r, since the last     *)
(* reset.                                                                  *)
LoginsBefore(r) ==
    {x \in {r} \cup before[r] :
        x >= started /\ Exchange[x].actor = Exchange[r].actor}

(* ingest.py, "Earn principals BEFORE rules run": a secret that a login of *)
(* this or an earlier request had granted is not credited as leaked, as    *)
(* long as the login was there when its request was first scored.          *)
GrantedSecretsAreNotLeaks ==
    \A row \in solves : row.finding = "bola-api-user" =>
        Leaked(row.rid, UNION {EarnedIn(view[x]) :
                               x \in LoginsBefore(row.rid) \ rereleased}) # {}

(* The two tables that carry provenance agree: an assisted solve names a   *)
(* capability that actor holds from an earlier request, and a capability   *)
(* is held only with the solve that handed it out (Store.solve, reset).    *)
ProvenanceIsCoherent ==
    /\ \A row \in solves : row.assisted_by # None =>
          \E c \in capabilities :
              /\ c.actor = row.actor
              /\ c.capability = row.assisted_by
              /\ c.ts < row.ts
    /\ \A c \in capabilities :
          \E row \in solves :
              /\ row.actor = c.actor
              /\ row.finding = c.finding
              /\ row.capability = c.capability
              /\ row.ts = c.ts

(* While evidence is on time the blackbox count is right: when the request *)
(* that handed out a capability was recorded before another of the actor   *)
(* was forwarded, and had its taps when it was first scored, the other's   *)
(* solves are tagged assisted.                                             *)
SettledCapabilityIsAssisted ==
    \A row \in solves, c \in capabilities :
        /\ c.actor = row.actor
        /\ c.ts \in before[row.rid]
        /\ c.ts \notin rereleased
        => row.assisted_by # None

(* A recorded solve keeps its ts, request, provenance and class for good,  *)
(* however often its finding fires again: only a reset removes it.         *)
RowsAreFinal ==
    [][solves \subseteq solves' \/ resets' = resets + 1]_scorerVars

(* A card that two requests redeem at the same balance is credited to one  *)
(* of the two actors, in whatever order the two bundles are scored, late   *)
(* taps and copies included; no third request redeems that card.           *)
RacesAreCredited ==
    resets = 0 =>
        \A x, y \in scored :
            \A t \in TapsOfKind(view[x], "giftcard.redeem"),
               u \in TapsOfKind(view[y], "giftcard.redeem") :
                /\ x # y
                /\ TapData[t].code = TapData[u].code
                /\ TapData[t].balance_before = TapData[u].balance_before
                /\ \A w \in TapsOfKind(Taps, "giftcard.redeem") :
                      TapData[w].code = TapData[t].code => TapData[w].rid \in {x, y}
                => \/ Solved("race-giftcard-double-spend", x)
                   \/ Solved("race-giftcard-double-spend", y)

(* records.py, class Sealer: "the scorer re-evaluates, which is safe        *)
(* because solving is idempotent". A double spend is credited only when two*)
(* records of a redemption of that card at one balance were read.          *)
DoubleSpendNeedsTwo ==
    \A row \in solves : row.finding = "race-giftcard-double-spend" =>
        \E t, u \in TapsOfKind(fed, "giftcard.redeem") :
            /\ t # u
            /\ TapData[t].rid = row.rid
            /\ TapData[t].code = TapData[u].code
            /\ TapData[t].balance_before = TapData[u].balance_before

(* README.md: POST /oracle/reset is a "fresh benchmark run": what is solved*)
(* after it was done after it.                                             *)
ResetIsFresh == \A row \in solves : row.ts >= started

=============================================================================
