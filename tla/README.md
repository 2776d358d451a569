# SPRKL: specifications, model checking and proofs

TLA+ models of SPRKL beside the code in `src/`: the scoring side, the channel
that feeds it, the shop's stateful routes and sessions, and how a run starts.
SPRKL is two processes. The *app* is a storefront a tester attacks; it reports
raw events ("taps") and knows nothing of scoring. The *scorer* owns an ingress
proxy in front of the app, joins the proxy's records with the taps, runs the
rules and keeps the solves.

```
tester --> Proxy (scorer) --> app (waitress threads) --> sessions in cookies
             |                  | tap.emit -> queue -> writer thread
             | on_record        v
             |            tap_server (a handler per connection)
             v                  v
           Pipeline.feed -> Sealer.add ----late---+
                              |                   v
            ticker -> Sealer.tick -----------> Pipeline.score -> rules -> Store
                                                                          ^
                                              score API threads: reset ---+

scorer main: generate -> seed file (shared volume) -> app: load, seed, serve
```

## Inventory

| Component | State | Operations | What is hard | What makes it correct |
|---|---|---|---|---|
| Sealer (`shared/records.py`) | bundles by request id, quarantine count | add, tick, drain | records in any order, evidence after the seal, a quarantine timer against slow requests, a score that raises | scored only if observed; last release is current; nothing observed in time is lost; everything observed is scored unless a score raised |
| Pipeline (`scorer/ingest.py`) | rule memory, counters | feed, tick, drain, score | scoring order is not request order; bundles are scored again | credits justified and complete; logins count before leaks |
| Engine (`engine.py`, `record.py`) | what a rule touched | evaluate, evidence_class, any, leaked | malformed events, short-circuited predicates, late taps | well-formed evidence takes no verdict back, malformed only in ways that are known; the evidence class is right and stays right |
| Rules (`scorer/rules.py`) | gift card memory, ciphertexts seen | one predicate per finding | rules with memory, tests that raise | each rule fires on all its facts and not one short |
| Store (`scorer/store.py`) | solves, capabilities, principals, visits, stored, oast | solve, earn_principal, reset, score, cheat_score | idempotence, provenance, reset from another thread | one row per finding and actor, rows final, provenance coherent |
| Proxy (`scorer/proxy.py`) | a coroutine per connection, request id counter | exchange, relay, record | clients and upstreams that go away, clients that do not read, keep-alive | one record per request id, in order on a connection |
| Tap channel (`app/tap.py`, `tap_server`) | bounded queue, socket, connections | emit, write, read line | full queue, broken sockets, half-sent lines, collector restarts | lines never merge; only a reconnect repeats or reorders; the queue survives a restart |
| Boot and seeding (`scorer/main.py`, `app/config.py`, `app/seed.py`) | run spec file, database, backends | publish, wait, seed | stale spec, restart half-way, volumes that persist | a database is of one run |
| Sessions and identity (`app/auth.py`, `util.py`, `cart.py`, `Record.actor`) | signed cookies | login, logout, MFA, carts, payment, promo numbers | the cookie is written anew with every response, answers overlap, come late or get lost, cookies expire | an answer agrees with its cookie; nothing else takes something from a session; its actor stays its own |
| Storefront (`app/tiers`, `app/api`) | SQLite tables, counters in memory | redeem, coupon, register, roles ... | threads, check then act, counters without a lock | balances, single use, unique addresses, honest reports |
| Replay (`scorer/replay.py`) | its own Sealer and Store | replay | a different sealing order | same solves from the same transcript |
| Seed generator, catalog, record constructors, backends, harness, tools | - | - | none | see "Not modelled" |

## Modules

| Module | Models | Run |
|---|---|---|
| `Join` | what the Sealer promises: evidence per request id, released when observed, released again when late, passed over if scoring it raises, discarded only if nobody observed it | as a property of `Sealer` |
| `Sealer`, `SealerMC` | `Sealer.add/tick/drain`, the ticker, the two producers, the clock | `sealer` |
| `Scorer`, `ScorerMC` | `Pipeline.feed/tick/score`, five rules, `Store.solve`, `first_capability`, `earn_principal`, `reset`; extends `Join`, so it is built on what `Sealer` is shown to implement | `scorer`, `scorer_rescore`, `scorer_reset` |
| `Engine` | `Record`'s accessors with what they touch, `engine.evaluate` and `evidence_class`, `Pipeline.score` around them; the rules are a constant | - |
| `Rules`, `RulesMC` | the table of `scorer/rules.py`, given to `Engine` | `rules` |
| `TapChannel` | `tap.emit`, `_writer`, `tap_server` | `tap_channel` |
| `Exchanges` | what the proxy promises the scorer: a request id is used once and ends once | as a property of `Proxy` |
| `Proxy`, `ProxyMC` | `Proxy._handle` and `_exchange`, the request ids | `proxy`, `proxy_unrecorded` |
| `Storefront`, `StorefrontMC` | the routes that change tables or counters, statement by statement, and restarts | `storefront` |
| `Handlers` | what each handler of the shop does with the session of its request, and what the answer shows of it | - |
| `Sessions`, `SessionsMC` | Flask's cookie sessions: read with the request unless expired, written with every answer; requests that overlap, answers that come late or get lost | `sessions` |
| `ClientIdentity`, `ClientIdentityMC` | the actor the scorer derives from the cookie, logins it earns, leaks it credits | `client_identity` |
| `Boot`, `BootMC` | publishing a run's values, waiting for them, seeding statement by statement, stops of both processes, persistent volumes | `boot_secrets` |
| `SealerProofs`, `ScorerProofs`, `EngineProofs`, `TapChannelProofs`, `ProxyProofs`, `StorefrontProofs`, `SessionProofs`, `BootProofs` | the theorems | - |

`Engine` and `Handlers` are used by the modules below them and have no run of
their own. Some operators have a variant with a longer name just before them
(`ExpiredAtLimit` before `Expired`). No specification uses these. Each is a
plausible bug, and substituting it for the operator makes a property fail
(`mutants` in `PROJECT.json`).

### How the state corresponds to the code

*Sealer.* `bundles` is `Sealer.bundles`, a function on the request ids held; the
events of a bundle are a set. `scored` and `view` are history: what
`Pipeline.score` was last given. `now` is `time.time()`, `Tick` is one call of
`Sealer.tick` with the scoring of what it returns, `Drain` one of `Sealer.drain`
(the harness calls it at any moment, replay at the end). Both mark their bundles
sealed first and score them afterwards. A score raises on a bundle with a tap in
`Malformed` (an `auth.result` whose `d` is missing or no object, which
`records.validate` lets pass): then only those that came before it are scored
(`Survives`), `ticker` swallows the exception, and the rest stay sealed and
unscored unless a later tap releases them again. `Jammed` says that this may
have happened. The producers are `Begin`/`Finish`/`Abort` (the proxy) and
`EmitTap`/`ReadTap`. A line written twice is two taps of one content. The
ingress record's `ts` is when the request was forwarded and its `total` excludes
the relay to the client, which is why a record may be fed later than `ts +
total`.

*Scorer.* A request id is its number, which is also its `ts`: one event loop
forwards requests in that order. `before[r]` is what had been recorded when `r`
was forwarded. `ScoreSealed` may take bundles in any order but one: a request
recorded before another was forwarded is due first. `Score` is all of
`Pipeline.score`: principals earned, rules run, rows and capabilities inserted,
the gift card memory updated. The rules modelled here are
`path-normalization-admin` (proxy's record alone), `bola-api-user` (canaries of
identities not earned), `path-traversal-invoice` and `python-pickle-rce` (taps
that give a capability) and `race-giftcard-double-spend` (memory between
bundles; the only rule that is here and not in `Rules`). `Scorer` takes
`Malformed` to be empty: its taps are the shop's own, and what a score that
raises costs is the matter of `Sealer` and `Engine`. A redeem tap may come
twice, when the tap writer's first send was cut and the second went through; the
two are copies, and a bundle that holds both fires the double-spend rule. The
exchanges of `ScorerMC` carry more kinds of evidence than one route reports, to
keep three requests enough; a rule looks at its own kind only. The cheat score,
visits and stored content do not influence which of these rows exist and are
left out, and so is the rest of a record.

*Engine and Rules.* A rule is a conjunction of clauses and a clause a
disjunction of tests, judged from left to right as Python's `and` and `or` are,
because what was judged decides what was touched (`Record.touched`), hence the
evidence class. A pattern that a rule searches a page or an event for is a fact,
a string named for it; `facts` are those that hold and `odd` those whose value
has the wrong type, on which an operator raises. An event's `shape` says whether
its payload `d` is an object, missing, or something else. `Record.ev` makes an
`Event` of every `d` of a kind before one is looked at, so a missing one stops
the rule wherever it comes (`EvRaises`); one that is no object raises on the
first fact (`Trips`); and `any()` stops at the first match, so a value of the
wrong type after it does no harm (`AnyEvent`). A login that `Pipeline.score`
cannot read ends the score before a rule is tried (`Breaks`, `Broken`), with
what was earned and stored by then kept. One client, whose `earned`, `stored`,
`probes` and `rows` are its part of the store and of `Pipeline.state`.

*TapChannel.* `queue` is `_Q`, `held`/`tries`/`sock` the writer's locals,
`conns` every connection with what it still holds. A line is whole, cut (only
its newline is missing, so it still parses at the end of the stream) or torn.
`Refused` is an attempt that fails at once, `TimeOut` one that fails after part
of the line. `HandlerDies` is an exception out of `readline` or `feed`; Python
3.13's streams close the connection then.

*Proxy.* `at` is the await a connection's coroutine is at. An action is the code
between two awaits. `stalled` are the connections whose client does not read
what it is sent: a drain to one of them may or may not return. `forwarded`,
`served`, `answered`, `owner` and `records` are what the upstream, the client
and the pipeline have seen.

*Storefront.* `job[t]` is the request a waitress thread serves, with the step it
is at and the value it has read (`bal`, `prior`, `uid`, `before`, a counter). A
step is one `db.query` or `db.execute`, which commits by itself, or one access
to a counter in memory; what the route does up to the next one belongs to it.
The tables are functions on their keys; a coupon redemption is a count per code
and actor. `taps` keeps what the rules judge: for each request the value it saw
and the value it reports. `accepted` is history: every request with those that
were over when it was accepted, so that two overlap when neither was over for
the other. The session a route reads is an argument of the request; the caller
of a PATCH may be a uid that has no row, as the `sub` of a JWT may. PATCH writes
the columns its body names one by one (`Sets`), of which role and email are
kept. `refused` and `passed` are history: the logins whose query met no row, or
one. `Crash` loses the threads, the counters and any taps not yet sent, and
keeps the tables.

*Sessions.* A session is the record of its keys; `After` is what the handler of
a request leaves and `AnswerTo` what its answer shows. Routes that do the same
with the session are one kind of request: `visit` is any page that neither reads
nor writes it, `post` any handler that only asks for `actor()`. `jar` is the
client's cookie, `open` its requests in flight, one for each of `Slots`, with
the cookie that was sent and the one that comes back. A cookie older than
`Lifetime` is read as no session (`Read`); the code's seven days are a second in
the run. `answered` is history: what the client was told, as far as its cookie
bears it out. An answer whose cookie replaces a newer one, or whose request had
an expired one, changes both together. `ClientIdentity` adds the scorer: a
cookie is stamped with the second it was signed in and so stands for the tail of
its own signature.

*Boot.* The values of the n-th run are the number n. `tmp`, `seedFile`, `db` and
`flag` are on volumes and survive both processes; `spec` and `backends` are the
app's memory. `Insert` is one committed statement of `seed()`. `shown` is
history: which run's values a tester was shown during which run, by an app
started with which run's spec.

## What the runs show

- `sealer`: the type invariant and `OnlyObservedScored`, `ReleasesAreCurrent`,
  `QuickExchangesLoseNothing`, `NoRetraction`; that `Sealer` implements `Join`;
  and, under fairness, `ObservedAreScored` and `OrphansAreDropped`. Two
  exchanges, one with two taps and one with a tap that makes scoring raise;
  grace, quarantine and relay of one clock unit; activity until time 2, clock
  until 4: enough for a tap before and after the seal, a tap before and after
  its quarantine, a record just within and just after the limit, and a bundle
  sealed together with one whose score raises (482,335 states). Where scoring
  raised, nothing is promised of bundles released with that one; the properties
  say so (`Jammed`, `Sound`), and that it is the only exception.
- `scorer`: credits are justified by and complete for the evidence released
  (`CreditsAreJustified`, `CreditsAreComplete`, `RacesAreCredited`), logins are
  never credited as leaks while their taps are on time
  (`GrantedSecretsAreNotLeaks`), provenance is coherent (`ProvenanceIsCoherent`)
  and, while evidence is on time, right (`SettledCapabilityIsAssisted`), and
  rows are final (`RowsAreFinal`). Three requests of two actors, six taps of
  which two are copies, one reset: a capability before and after another solve,
  a login in the request that shows the secret, a card redeemed by both actors.
  A capability whose request is *scored* after another's, though made before it,
  does not tag it; that is why `SettledCapabilityIsAssisted` asks for evidence
  that is on time.
- `rules`: every rule of the table meets the exchanges and taps that come one
  fact close to it, and taps with a value of the wrong type, without a payload
  or with one that is no object, a login that scoring cannot read among them, in
  any order, before and after sealing, beside an exchange that may log in or
  submit what the first shows (20,016 states). A later tap takes a verdict back
  only if it proves a login or spoils the rule (`EvidenceOnlyAdds`, `Spoils`):
  it is a login that scoring cannot read, or a tap without a payload of a kind
  the rule tests, or one that a test cannot take which is not the last of its
  clause. A row recorded as proxy-observed needs no tap
  (`ProxyObservedNeedsNoTap`), and the class of a row is the one any later
  evaluation gives (`ClassIsReproduced`). Two exchanges and, for the padding
  rule, a limit of one ciphertext instead of 50: the limit is only compared
  with.
- `tap_channel`: `TornLineIsLast`, `ConnectionsAreInOrder`, `AtMostTwoCopies`
  and, under fairness, `QueuedIsFed`. Four records, a queue of two, two faults:
  a fault on a retry, a restart with the queue full, two live connections.
- `proxy`: `KeepAliveIsSequential`, that `Proxy` implements `Exchanges` and,
  under fairness, `ExchangesEnd`: an exchange stays open only in a drain to a
  client that is connected and does not read, and holds up no other connection.
  Two connections, three exchanges, so one connection is used again while the
  other is in flight (60,096 states).
- `storefront`: every request conserves money (`MoneyIsConserved`) and accounts
  (`AccountsAreWhole`), what the taps say of a double spend, of a coupon's reuse
  and of roles is what happened (`DoubleSpendsAreVisible`, `ReuseIsReported`,
  `EscalationsHaveAuthors`), and a client that waits for its answers overdraws
  nothing and takes nobody's address but by a route that does not look
  (`SerialShopIsSound`, `Readdresses`). A tap reports no more consecutive
  failures than logins were refused since the last one let in
  (`ReportsNeverOvercount`, `Tally`). The exception is a login let in *while*
  another is being refused: the count the second has read is then written over
  the first's reset, and the brute-force rule's threshold may be met with fewer
  failures in a row than it asks for. `ResetsAreKept` names this overlap, and
  even then a count is at most all that were refused. Two threads, three
  requests of any kind and one restart: two overlapping requests and a third
  before, between or after them (1,852,463 states). The threads are symmetric.
- `sessions`: one client with two requests in flight, which may make every kind
  of request, take answers in any order and lose any, while its cookie may
  expire. An answer agrees with what the cookie of its request bears out
  (`ReadYourWrites`). `app/__init__.py:24` says "Sessions persist until logout";
  `SessionsPersist` says what that comes to: a client loses something from its
  session only by the request that takes it, by an answer that comes late and
  brings an older cookie back, or by a cookie that has expired. Two slots, three
  requests, a lifetime of one second on a clock of three: an answer before and
  after another's, a cookie just within its lifetime and just past it (593,426
  states). The slots are symmetric.

The workloads of `Scorer`, `Rules`, `TapChannel`, `Proxy`, `Storefront` and
`Boot` are bounded and may be used up, so the runs of these modules say
`CHECK_DEADLOCK FALSE`, and so does `sessions`, whose clock and requests are
bounded; `Sealer` never stops. Bounds are one exchange, thread or statement more
than the smallest instance in which the hazard of the module can occur.

### Where the code and its documentation disagree

Each of these runs checks one sentence of the repository and finds a
counterexample.

- `scorer_rescore` - `shared/records.py:176` holds re-evaluation safe.
  `race-giftcard-double-spend` remembers the last balance per card, so a bundle
  scored again after a late tap meets its own redemption and is credited with a
  double spend.
- `scorer_reset` - `README.md:81`. A request forwarded before a reset and scored
  after it is solved in the fresh run, whether its record was still on its way,
  as in TLC's trace, or in the Sealer: nothing compares its `ts` with `started`.
- `proxy_unrecorded` - `scorer/proxy.py:3`. The record follows the relay, so a
  client reset leaves a served exchange without one.
- `client_identity` - `scorer/record.py:139` and `scorer/ingest.py:73`. The
  actor is the tail of the session cookie, which the app signs anew with every
  response: the request after a login has another actor than the login, and a
  client that reads its own record is credited with a leak.
- `boot_secrets` - `app/config.py:3`. The app, started anew with the second
  run's spec, finds the first run's rows on the volume, seeds nothing and serves
  them. (An app that is *not* started anew goes on with the first spec; the
  property leaves that case out, as the sentence is about the spec.)

## Fairness

- `Sealer`: `WF(Tick)`, since the ticker coroutine loops for ever and catches
  what a tick raises, and `WF(Advance)`, the passage of time. Nothing is assumed
  of the proxy or the app: exchanges may hang and taps may never be read.
- `TapChannel`: weak fairness of the writer thread and of the handlers, which
  loop for ever. The collector need not come back: `QueuedIsFed` starts when it
  is up and no fault is left.
- `Proxy`: a coroutine that can go on does, and the app answers what it
  received. The second is an assumption about the app: the proxy has no timeout.
  Neither has a drain (`proxy.py:183`, `:217`), and that a client reads is
  nobody's promise. So fairness covers a drain only while its client reads or is
  gone, when it returns or raises, and `ExchangesEnd` excepts the other case.

The other specifications state no fairness and no liveness.

## What is proved

Each theorem holds for every value of the constants its module's assumptions
allow (`SealerAssumption`, `ScorerAssumption`, ...), not only for the instance
of the run. A property is rarely inductive; the strengthening is given below.

*`SealerProofs`.* `TypeCorrect`, `AntiForgery` (`OnlyObservedScored`),
`NoStaleRelease` (`ReleasesAreCurrent`), `QuarantineSparesQuick`
(`QuickExchangesLoseNothing`), `ReleasesGrow` (`NoRetraction`) and `Refinement`
(`Sealer` implements `Join`). `IInv` adds: exchanges start in the past
(`StartsInThePast`), taps are stamped and bundles begin no earlier than their
exchange (`TapsFollowStart`, `BundlesFollowStart`), a bundle has its ingress
record exactly when its exchange is done (`IngressWhenDone`), sealed bundles are
the scored ones unless a score raised, and a scored one without a malformed tap
was scored with all it holds (`SealedIsScored`) and a read tap that is not held
belongs to an exchange that took longer than the quarantine
(`LostOnlyWhenSlow`). The last needs the three about time: when `Tick` drops a
bundle, more than `QuarantineAfter` has passed since its first record, hence
since its exchange began, and the exchange is still open, so it can only finish
too late to be quick. `Refinement` maps `Tick` and `Drain` to a `Sweep`,
`ReadTap` to `Collect`, `Finish` to `Observe`, the rest to stuttering.
`SealsAreInOrder` says that an exchange recorded before another is forwarded is
scored no later than it (`SealsInOrder`), unless scoring raised. This is what
`Scorer`, whose taps make no score raise, takes for granted in the guard of
`ScoreSealed`. A record says when its exchange was forwarded and over
(`RecordsAreTimed`), so of two such exchanges the first is due whenever the
second is, and one call of `Tick` or `Drain` releases both (`Ahead`).

*`ScorerProofs`.* `ScorerIsTyped`, `CreditsHaveGrounds` (`CreditsAreJustified`),
`ProvenanceHolds` (`ProvenanceIsCoherent`), `RowsStay` (`RowsAreFinal`),
`NoCreditIsLost` (`CreditsAreComplete`), `AssistanceIsSeen`
(`SettledCapabilityIsAssisted`), `GrantsAreRespected`
(`GrantedSecretsAreNotLeaks`) and `RacesAreFound` (`RacesAreCredited`).
`ScorerInv` adds `Current`: what a bundle was last scored with is all it holds.
Then every step either scores one bundle with at least what it was scored with
before (`Releases`) or scores none, and the properties are proved for these two.
`CompleteInv` adds `Earnings`: until a reset, an actor's principals are at most
what its released logins prove, so a secret that is foreign to all of them was a
leak when its bundle was scored (`FiresKnowingLess`). `EarliestIsHeld` needs a
least element of a set of times, from well-founded induction on the naturals.

The last three of these depend on the order of the seals. `InOrder` says that
what was recorded before a request was forwarded has a lower number and is
scored before it, that a tap is held for the request it names and that a row
names a scored request of its actor. Every step then judges one bundle, for the
first time after all that was recorded before it or again after late evidence
(`Judges`), or leaves bundles and rows alone (`Spares`), or is a reset.
`GrantedSecretsAreNotLeaks` needs that every scored login of a request since the
last reset is among the actor's principals (`LoginsAreEarned`).
`RacesAreCredited` needs that a card of which a redemption was scored is
remembered with a balance that some redemption of it reports
(`CardsAreRemembered`): where there are two at one balance, the one judged last
meets it. Two theorems state properties that no run lists, and TLC agreed with
both on the instance of `scorer`. `GenuineUnlessRescored` (`RacesHaveTwo`) is
the positive side of `scorer_rescore`: a double spend credited to a request that
was *not* scored again, and whose redemption was read once (`ReadOnce`), is
between two requests that redeemed one card at one balance, because the balance
in memory is one that a scored bundle reports (`MemoryIsReported`), and that
bundle is another the first time one is judged. `OrderDoesNotMatter`
(`SolvesAreDetermined`): until a reset, who has solved a positive rule can be
read off the released evidence alone, whatever the order of seals and late taps.

*`EngineProofs`.* `EngineIsTyped`, `ProxyObservedIsTapFree`
(`ProxyObservedNeedsNoTap`) and `EvidenceNeverTakesBack` (`EvidenceOnlyAdds`),
for any table of rules, not only the one in `Rules`, and any taps, whatever
their shape and their odd values. The last goes down to the tests the rule
judged. One that held still does (`HoldsStays`): `any()` stops at the first
match, and what is read later comes behind it, unless an event of its kind has
no payload. One that did not hold has another behind it in its clause, and
raises only on an event that `Spoils` names. A bundle that scoring cannot read
fires nothing, which `Firing` says. `ClassIsReproduced` does not hold for every
table: a clause with a test of the proxy's record before one of a tap has the
class of whichever succeeds. `ClassNeverChanges` proves it where each rule fixes
its class (`ClassIsSettled`: one of its clauses begins with a test of a tap, or
none has any), and `TableClassNeverChanges` for the table of `Rules`, every rule
of which does (`TableIsSettled`), for any exchanges and taps.

*`TapChannelProofs`.* `ChannelIsTyped`, `TornLinesAreLast` (`TornLineIsLast`),
`OrderIsKept` (`ConnectionsAreInOrder`) and `NoThirdCopy` (`AtMostTwoCopies`).
`ChannelInv` adds that the queue is in order behind the record in hand
(`QueueInOrder`), that a connection's lines are in order after what it delivered
(`LinesInOrder`), that what was sent is older than what is queued and, on the
writer's own connection, than what it has in hand (`SentIsOlder`), that the
writer's socket is open (`SocketIsOpen`) and that it holds a record only with an
attempt left (`TriesAreLeft`). A retry may send a record again, but the failed
attempt has closed the connection, so the copy is on another. Hence
`AtMostTwoCopies` is a matter of connections: no three different ones carry a
record, no two the record in hand, and none the record that has not been tried
(`CopiesAreFew`).

*`ProxyProofs`.* `ProxyTypesHold`, `KeepAliveHolds` (`KeepAliveIsSequential`)
and `ProxyRefinement` (`Proxy` implements `Exchanges`), with `Placed`: an
exchange under way has an id without a record, the next request is read when the
last one has its record, and a connection's id is the last one it took.

*`StorefrontProofs`.* `StorefrontIsTyped`, `AccountsHold` (`AccountsAreWhole`),
`ReuseHolds` (`ReuseIsReported`), `EscalationsHold` (`EscalationsHaveAuthors`),
`DoubleSpendsHold` (`DoubleSpendsAreVisible`), `SerialShopHolds`
(`SerialShopIsSound`), `MoneyHolds` (`MoneyIsConserved`) and
`CountersNeverOvercount` (`ReportsNeverOvercount`). `JobsInv` relates the
requests served, accepted and reported: no two threads serve one request, and
one that is served was over for nobody (`ServedAreNotOver`), so what a step does
cannot be something an earlier request should have seen. Each route adds what a
thread holds between two statements: a registration the number of its account
(`RegistrationsHoldUsers`), a coupon a count its row is still missing from
(`CouponIsCounted`), an account update the role it has read, which the account
still has unless an author changed it or it was registered meanwhile
(`RoleIsAuthored`, `Explained`). For the cards, whoever has found a balance
found the seeded one, since the first debit takes all of it: one debit empties a
card and a second overdraws it (`CardIsSound`), and nobody who found a balance
began after a debit was over (`SpenderIsSound`). Where every request waits for
the one before, at most one is served (`OneIsServed`). `WorkAssumption` says
that requests redeem cards of the run and that a PATCH updates its caller's own
row, whoever that is.

The last two are about sums over tables, which the model takes from the
community modules (`MapThenSumSet`). Their definition is a recursion over
subsets, and a theorem about it for every summand would be induction with an
operator as a parameter. So `Sum` is stated for a function, and each fact about
it (that it is an integer, that a term can be taken out, that it changes as its
terms do, that a part without terms can be left out) is shown for the smallest
subset that could break it (`SubsetsOneByOne`, `SumIs`, `SumTake`, `SumChange`,
`SumMore`, `SumOfRest`). The cards must be finitely many for this, which
`StorefrontAssumption` says. `MoneyHolds` follows the books a step at a time
(`BooksBalance`): what the cards gave is what the wallets got and what threads
that have debited still carry, and a step changes at most one term of each. A
registration adds a wallet nobody has yet (`RegistrationsAreFresh`), so no term
is replaced. For `CountersNeverOvercount`, every login that is past its query
has its verdict, and its thread knows which (`VerdictsInv`). A failure counter
is at most the number of refused logins that are past the step that writes it
and that no login let in since has reset (`TallyNow`), and so is a value that a
thread has read and is about to write back (`ReadIsBehind`). A login that is let
in makes that set smaller, but then the counter is zero, and a thread that still
held an older value would be a refusal served together with it, in which case
the bound is all the refusals there were. What a tap may count (`TallyFor`) only
grows, since a login let in later is over for nobody yet; verdicts are not taken
back and a lost reset stays lost. A restart forgets the counters, which only
lowers them. An actor's guesses from several addresses are summed
(`SumOfShares`).

*`SessionProofs`.* `SessionsAreTyped`, `AnswersAgreeWithTheirCookies`
(`ReadYourWrites`) and `SessionsLastUntilLogout` (`SessionsPersist`), for any
clients, any number of requests in flight and any lifetime. `SessionsInv` adds
that what a client was told is true of its cookie's session (`ToldIsTrue`), and
that a request in flight carries a cookie that bears out what its client had
been told and, once served, an answer and a cookie that are what the handler
makes of what it found (`IsBorneOut`). An answer that comes late does not break
it, because the jar and what the client may claim change together; one to a
request with an expired cookie brings both back to nothing but its own effect.

*`BootProofs`.* `SeedingNeverMixesRuns`: whatever stops, wherever, and whatever
seed file is found next, the rows of a database are of one run
(`DatabaseIsOfOneRun`), if users are seeded first. It is the positive side of
`boot_secrets`: the database is never mixed, only old.

Only model-checked: liveness (`ObservedAreScored`, `OrphansAreDropped`,
`QueuedIsFed`, `ExchangesEnd`), since fairness and `ENABLED` are out of the
prover's reach here. Every invariant and action property of the runs that pass
is also a theorem.

## Not modelled

- Record constructors, validation and the blob store; the findings catalog; how
  each value of a run is drawn: computation on data, no interacting state.
- Replay: it feeds a file to the same pipeline, one record after the other, and
  drains. What it may order differently is an order `Scorer` already allows.
- The cheat score, visits and the reports of the score API: arithmetic on what
  the store holds, which nothing else depends on. One hazard there is listed and
  not covered: a bundle that is scored again has its own path among the visits
  already, so a finding it then brings meets its prerequisite
  (`scorer/ingest.py:91`).
- The hits of the OAST collector, which no rule reads, and `classify`, which
  nothing calls.
- The statements of a reset between those of a solve: two threads share one
  SQLite connection, and what may fall between what is SQLite's to say.
- The patterns the rules search for, JWT verification, payloads, headers and
  framing, rendering: data the properties do not tell apart.
- Reviews, contacts, uploads, flags, preferences and listings of the shop, each
  one statement or none; what the in-memory backends hold; the harness, tests,
  tools and packaging, which drive the system or document it.
- A customer who registers has values the run's manifest does not know;
  `ClientIdentity` treats them as such (only `Seeded` accounts have canaries).
- That PATCH writes name and address too: no route modelled here reads them.
- Sealed bundles are never freed, and neither is anything in the models.
