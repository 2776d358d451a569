------------------------------- MODULE Sealer -------------------------------
(***************************************************************************)
(* shared/records.py, class Sealer: groups the app's tap records with the  *)
(* proxy's ingress record of the same request id, seals a bundle a grace   *)
(* period after its exchange ended, hands sealed bundles to Pipeline.score,*)
(* re-releases a sealed bundle when evidence arrives late, and drops       *)
(* bundles that stay without an ingress record.                            *)
(*                                                                         *)
(* Around it, the two producers as the Sealer sees them: the proxy opens   *)
(* an exchange and records it once, at its end, or never; the app emits    *)
(* taps while it serves the request, and each is read later, in any order, *)
(* or never (a dropped tap is one that stays on the wire; TapChannel says  *)
(* how that happens).                                                      *)
(*                                                                         *)
(* A definition placed just before another, with the same parameters and a *)
(* longer name (ExpiredAtLimit before Expired), is a faulty variant of it: *)
(* no specification uses it, it shows that a property can fail.            *)
(***************************************************************************)
EXTENDS Integers, FiniteSets

CONSTANTS
    Rids,             \* request ids (Proxy.rid_factory, one per exchange)
    Taps,             \* tap records the app may emit
    TapRid,           \* the request id each tap record carries
    Malformed,        \* taps that pass validate and make Pipeline.score raise
    Grace,            \* Sealer.grace, in clock units
    QuarantineAfter,  \* Sealer.quarantine_after, in clock units
    NoIngress,        \* the None of bundle["ingress"]
    MaxRelay,         \* bound: the time the proxy needs to relay a response
    LastActivity,     \* bound: no exchange starts or ends, no tap is emitted later
    MaxTime           \* bound: the clock stops here

Ingress == [ts : Nat, total : Nat]

ASSUME SealerAssumption ==
    /\ TapRid \in [Taps -> Rids]
    /\ Malformed \subseteq Taps
    /\ IsFiniteSet(Rids)
    /\ Grace \in Nat
    /\ QuarantineAfter \in Nat
    /\ NoIngress \notin Ingress
    /\ MaxRelay \in Nat
    /\ LastActivity \in Nat
    /\ MaxTime \in Nat

VARIABLES
    phase,        \* each exchange at the proxy: idle, open, done, aborted
    start,        \* when the proxy forwarded it
    finish,       \* when its ingress record was produced
    tapState,     \* each tap: unsent, wire (emitted), read
    tapTs,        \* the ts the app stamped it with
    now,          \* time.time()
    bundles,      \* Sealer.bundles
    quarantined,  \* Sealer.quarantined
    scored,       \* history: request ids Pipeline.score got through with
    view          \* history: the events it saw when it last did

exchangeVars == <<phase, start, finish>>
tapVars == <<tapState, tapTs>>
vars == <<phase, start, finish, tapState, tapTs, now,
          bundles, quarantined, scored, view>>

Bundle == [ingress : Ingress \cup {NoIngress}, events : SUBSET Taps,
           sealed : BOOLEAN, first : Nat]

(* Every variable has its type; bundles are held for known request ids.    *)
TypeOK ==
    /\ phase \in [Rids -> {"idle", "open", "done", "aborted"}]
    /\ start \in [Rids -> Nat]
    /\ finish \in [Rids -> Nat]
    /\ tapState \in [Taps -> {"unsent", "wire", "read"}]
    /\ tapTs \in [Taps -> Nat]
    /\ now \in Nat
    /\ DOMAIN bundles \subseteq Rids
    /\ bundles \in [DOMAIN bundles -> Bundle]
    /\ quarantined \in Nat
    /\ scored \subseteq Rids
    /\ view \in [Rids -> SUBSET Taps]

Init ==
    /\ phase = [r \in Rids |-> "idle"]
    /\ start = [r \in Rids |-> 0]
    /\ finish = [r \in Rids |-> 0]
    /\ tapState = [t \in Taps |-> "unsent"]
    /\ tapTs = [t \in Taps |-> 0]
    /\ now = 0
    /\ bundles = [r \in {} |-> 0]
    /\ quarantined = 0
    /\ scored = {}
    /\ view = [r \in Rids |-> {}]

-----------------------------------------------------------------------------
(* The Sealer's data structure.                                            *)

(* bundles.setdefault(rid, ...): the bundle held for r, or a new one whose *)
(* "first" is the ts of the record being added.                            *)
BundleFor(r, ts) ==
    IF r \in DOMAIN bundles
    THEN bundles[r]
    ELSE [ingress |-> NoIngress, events |-> {}, sealed |-> FALSE, first |-> ts]

Observed(r) == r \in DOMAIN bundles /\ bundles[r].ingress # NoIngress

(* Pipeline.score gets through with these events: each login tap has the   *)
(* object it reads e["d"] from. Whatever else it meets, engine.evaluate    *)
(* catches.                                                                *)
Sound(events) == events \cap Malformed = {}

(* The tail of add(): keep bundle b for r; a sealed one with an ingress is *)
(* released again, and Pipeline.feed scores it before it returns. When     *)
(* that raises, the tap's reader dies of it and the bundle stays.          *)
StoreWithoutReseal(r, b) ==
    /\ bundles' = [x \in DOMAIN bundles \cup {r} |-> IF x = r THEN b ELSE bundles[x]]
    /\ UNCHANGED <<scored, view>>

Store(r, b) ==
    /\ bundles' = [x \in DOMAIN bundles \cup {r} |-> IF x = r THEN b ELSE bundles[x]]
    /\ IF b.sealed /\ b.ingress # NoIngress /\ Sound(b.events)
       THEN /\ scored' = scored \cup {r}
            /\ view' = [view EXCEPT ![r] = b.events]
       ELSE UNCHANGED <<scored, view>>

AddTapAlone(t) ==
    LET b == BundleFor(TapRid[t], tapTs[t])
    IN  Store(TapRid[t], [b EXCEPT !.events = {t}])

AddTap(t) ==
    LET b == BundleFor(TapRid[t], tapTs[t])
    IN  Store(TapRid[t], [b EXCEPT !.events = @ \cup {t}])

AddIngress(r, ing) ==
    LET b == BundleFor(r, ing.ts)
    IN  Store(r, [b EXCEPT !.ingress = ing])

(* The two tests of tick().                                                *)
ExpiredAtLimit(r) ==
    /\ bundles[r].ingress = NoIngress
    /\ now - bundles[r].first >= QuarantineAfter

ExpiredOnlyIfEmpty(r) ==
    /\ bundles[r].ingress = NoIngress
    /\ bundles[r].events = {}
    /\ now - bundles[r].first > QuarantineAfter

Expired(r) ==
    /\ bundles[r].ingress = NoIngress
    /\ now - bundles[r].first > QuarantineAfter

DoneAt(ing) == ing.ts + ing.total + Grace

DueOnlyWithEvents(r) ==
    /\ bundles[r].ingress # NoIngress
    /\ bundles[r].events # {}
    /\ ~bundles[r].sealed
    /\ now >= DoneAt(bundles[r].ingress)

Due(r) ==
    /\ bundles[r].ingress # NoIngress
    /\ ~bundles[r].sealed
    /\ now >= DoneAt(bundles[r].ingress)

(* Those of the released bundles that Pipeline.score gets through with:    *)
(* all of them, or the ones that come, in the order of the dictionary,     *)
(* before one it raises on. ticker swallows the exception, and the rest of *)
(* the list is gone.                                                       *)
Survives(release, given) ==
    /\ given \subseteq release
    /\ \A r \in given : Sound(bundles[r].events)
    /\ \/ given = release
       \/ \E r \in release : ~Sound(bundles[r].events)

(* Mark the released bundles as sealed and forget the expired ones; then   *)
(* score the released ones, one by one. No other coroutine runs meanwhile. *)
Seal(release, expired) ==
    /\ bundles' = [r \in DOMAIN bundles \ expired |->
                      IF r \in release THEN [bundles[r] EXCEPT !.sealed = TRUE]
                                       ELSE bundles[r]]
    /\ \E given \in SUBSET release :
          /\ Survives(release, given)
          /\ scored' = scored \cup given
          /\ view' = [r \in Rids |-> IF r \in given THEN bundles[r].events ELSE view[r]]

-----------------------------------------------------------------------------
(* The Sealer's operations, as the scorer's event loop calls them.         *)

(* ticker -> Pipeline.tick -> Sealer.tick                                  *)
TickCountsBack ==
    LET expired == {r \in DOMAIN bundles : Expired(r)}
    IN  /\ Seal({r \in DOMAIN bundles : Due(r)}, expired)
        /\ quarantined' = quarantined - Cardinality(expired)
        /\ UNCHANGED <<exchangeVars, tapVars, now>>

Tick ==
    LET expired == {r \in DOMAIN bundles : Expired(r)}
    IN  /\ Seal({r \in DOMAIN bundles : Due(r)}, expired)
        /\ quarantined' = quarantined + Cardinality(expired)
        /\ UNCHANGED <<exchangeVars, tapVars, now>>

(* Pipeline.drain -> Sealer.drain: no grace, nothing is quarantined.       *)
DrainEverything ==
    /\ Seal({r \in DOMAIN bundles : ~bundles[r].sealed}, {})
    /\ UNCHANGED <<exchangeVars, tapVars, now, quarantined>>

Drain ==
    /\ Seal({r \in DOMAIN bundles : Observed(r) /\ ~bundles[r].sealed}, {})
    /\ UNCHANGED <<exchangeVars, tapVars, now, quarantined>>

(* tap_server reads one line: Pipeline.feed -> Sealer.add.                 *)
ReadTap(t) ==
    /\ tapState[t] = "wire"
    /\ tapState' = [tapState EXCEPT ![t] = "read"]
    /\ AddTap(t)
    /\ UNCHANGED <<exchangeVars, tapTs, now, quarantined>>

-----------------------------------------------------------------------------
(* The producers.                                                          *)

(* The proxy has taken a request id and forwards the request.              *)
Begin(r) ==
    /\ phase[r] = "idle"
    /\ now <= LastActivity
    /\ phase' = [phase EXCEPT ![r] = "open"]
    /\ start' = [start EXCEPT ![r] = now]
    /\ UNCHANGED <<finish, tapVars, now, bundles, quarantined, scored, view>>

(* The response has been relayed: on_record feeds the ingress record, with *)
(* the start as its ts and the time to the upstream's last byte as its     *)
(* total_ms; the relay that follows may take a while.                      *)
Finish(r, relay) ==
    /\ phase[r] = "open"
    /\ now <= LastActivity
    /\ relay <= now - start[r]
    /\ phase' = [phase EXCEPT ![r] = "done"]
    /\ finish' = [finish EXCEPT ![r] = now]
    /\ AddIngress(r, [ts |-> start[r], total |-> now - start[r] - relay])
    /\ UNCHANGED <<start, tapVars, now, quarantined>>

(* Either side went away first: the exchange leaves no ingress record.     *)
Abort(r) ==
    /\ phase[r] = "open"
    /\ phase' = [phase EXCEPT ![r] = "aborted"]
    /\ UNCHANGED <<start, finish, tapVars, now, bundles, quarantined, scored, view>>

(* The app's tap.emit, while it serves the request; it serves on when the  *)
(* proxy has given up.                                                     *)
EmitTap(t) ==
    /\ tapState[t] = "unsent"
    /\ phase[TapRid[t]] \in {"open", "aborted"}
    /\ now <= LastActivity
    /\ tapState' = [tapState EXCEPT ![t] = "wire"]
    /\ tapTs' = [tapTs EXCEPT ![t] = now]
    /\ UNCHANGED <<exchangeVars, now, bundles, quarantined, scored, view>>

Advance ==
    /\ now < MaxTime
    /\ now' = now + 1
    /\ UNCHANGED <<exchangeVars, tapVars, bundles, quarantined, scored, view>>

Next ==
    \/ Tick
    \/ Drain
    \/ \E t \in Taps : ReadTap(t)
    \/ \E r \in Rids : Begin(r)
    \/ \E r \in Rids, relay \in 0..MaxRelay : Finish(r, relay)
    \/ \E r \in Rids : Abort(r)
    \/ \E t \in Taps : EmitTap(t)
    \/ Advance

(* The ticker coroutine runs every 0.1 s for ever, and time passes. Nothing*)
(* else is fair: a request may hang, a tap may never be read.              *)
Spec == Init /\ [][Next]_vars /\ WF_vars(Tick) /\ WF_vars(Advance)

-----------------------------------------------------------------------------
(* Properties.                                                             *)

(* Pipeline.score has raised on some bundle: one that is sealed holds a tap*)
(* it cannot read.                                                         *)
Jammed == \E r \in DOMAIN bundles : bundles[r].sealed /\ ~Sound(bundles[r].events)

(* Anti-forgery (records.py, class Sealer): nothing is scored for a request*)
(* id the proxy has not recorded an exchange for, whatever taps carry it,  *)
(* and a bundle is never sealed without that record. A sealed bundle went  *)
(* unscored only where scoring raised, on it or on one released with it.   *)
OnlyObservedScored ==
    /\ \A r \in scored : phase[r] = "done" /\ Observed(r)
    /\ \A r \in DOMAIN bundles : bundles[r].sealed =>
          Observed(r) /\ (r \in scored \/ Jammed)

(* Late evidence re-releases a sealed bundle (records.py, class Sealer):   *)
(* what was last scored for a request id is everything held for it, so no  *)
(* read tap waits in a sealed bundle that will never be looked at again,   *)
(* unless the bundle holds one that scoring raises on.                     *)
ReleasesAreCurrent ==
    \A r \in scored :
        /\ r \in DOMAIN bundles
        /\ Sound(bundles[r].events) => view[r] = bundles[r].events

(* Quarantine spares the innocent: when the proxy recorded an exchange     *)
(* within quarantine_after of forwarding it, every tap of it that was read,*)
(* before or after the ingress record, is still held for scoring.          *)
QuickExchangesLoseNothing ==
    \A t \in Taps :
        LET r == TapRid[t]
        IN  /\ tapState[t] = "read"
            /\ phase[r] = "done"
            /\ finish[r] - start[r] <= QuarantineAfter
            => r \in DOMAIN bundles /\ t \in bundles[r].events

(* What was released stays released, and each later release of a request   *)
(* id contains the earlier ones: a tick cannot drop or unseal a bundle that*)
(* was scored, however old its first record is.                            *)
NoRetraction ==
    [][\A r \in scored : r \in scored' /\ view[r] \subseteq view'[r]]_vars

(* Every exchange the proxy recorded is scored, with or without taps,      *)
(* unless scoring raised. One that was sealed in the same tick as a bundle *)
(* it raised on stays unscored for good, if no later tap releases it again:*)
(* ingest.py:53-55 scores what the Sealer has already marked sealed.       *)
ObservedAreScored ==
    \A r \in Rids : (phase[r] = "done") ~> (r \in scored \/ Jammed)

(* Taps of an exchange that never gets its record do not stay for ever.    *)
OrphansAreDropped ==
    \A r \in Rids :
        (phase[r] = "aborted" /\ r \in DOMAIN bundles) ~> (r \notin DOMAIN bundles)

(* Every behaviour of the Sealer is one of the abstract specification: a   *)
(* release carries all the evidence collected, late evidence releases      *)
(* again, and only evidence nobody observed is discarded.                  *)
J == INSTANCE Join WITH
        observed <- {r \in DOMAIN bundles : bundles[r].ingress # NoIngress},
        evidence <- [r \in Rids |-> IF r \in DOMAIN bundles
                                    THEN bundles[r].events ELSE {}]

ImplementsJoin == J!JoinSpec

=============================================================================
