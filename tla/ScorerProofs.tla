---------------------------- MODULE ScorerProofs ----------------------------
(* The pipeline and its store, for any exchanges, taps, actors, identities   *)
(* and gift cards: what is credited, to whom, and with what provenance.      *)
EXTENDS Scorer, WellFoundedInduction, TLAPS

-----------------------------------------------------------------------------
(* The store's rows and columns.                                             *)
RowType ==
    [finding : Findings, actor : Actors, ts : Rids, rid : Rids,
     capability : Capabilities \cup {None},
     assisted_by : Capabilities \cup {None},
     evidence_class : {"proxy-observed", "app-reported"}]

HeldType == [actor : Actors, capability : Capabilities, ts : Rids, finding : Findings]

(* FirstCapability finds the earliest capability an actor has held.          *)
LEMMA EarliestIsHeld ==
    ASSUME capabilities \subseteq HeldType, NEW a, NEW ts
    PROVE  \/ /\ FirstCapability(a, ts) = None
              /\ \A c \in capabilities : ~(c.actor = a /\ c.ts < ts)
           \/ \E c \in capabilities :
                 c.actor = a /\ c.ts < ts /\ FirstCapability(a, ts) = c.capability
<1> DEFINE earlier == {c \in capabilities : c.actor = a /\ c.ts < ts}
           times == {c.ts : c \in earlier}
           less == OpToRel(<, Nat)
<1>1. CASE earlier = {}
  BY <1>1 DEF FirstCapability
<1>2. CASE earlier # {}
  <2>1. times # {} /\ times \subseteq Nat
    <3>1. \A c \in earlier : c.ts \in Rids
      BY DEF HeldType
    <3>2. \A c \in earlier : c.ts \in Nat
      BY <3>1, ScorerAssumption
    <3>3. times # {}
      BY <1>2
    <3>4. QED
      BY <3>2, <3>3
  <2>2. PICK n \in times : \A m \in times : <<m, n>> \notin less
    BY <2>1, NatLessThanWellFounded, WFMin
  <2>3. \A m \in times : n <= m
    <3>1. \A m \in times : m \in Nat /\ n \in Nat
      BY <2>1, <2>2
    <3> HIDE DEF times
    <3>2. \A m \in times : ~(m < n)
      BY <2>2, <3>1 DEF OpToRel
    <3>3. QED
      BY <3>1, <3>2
  <2>4. \E c \in earlier : \A d \in earlier : c.ts <= d.ts
    BY <2>2, <2>3
  <2> DEFINE first == CHOOSE c \in earlier : \A d \in earlier : c.ts <= d.ts
  <2>5. first \in earlier
    BY <2>4
  <2>6. FirstCapability(a, ts) = first.capability
    BY <1>2 DEF FirstCapability
  <2>7. QED
    BY <2>5, <2>6
<1>3. QED
  BY <1>1, <1>2

LEMMA FirstCapabilityType ==
    ASSUME capabilities \subseteq HeldType, NEW a, NEW ts
    PROVE  FirstCapability(a, ts) \in Capabilities \cup {None}
  BY EarliestIsHeld DEF HeldType

LEMMA NewRowsType ==
    ASSUME capabilities \subseteq HeldType, NEW r \in Rids, NEW fired \in SUBSET Findings
    PROVE  NewRows(r, fired) \subseteq RowType
<1> SUFFICES ASSUME NEW f \in fired
             PROVE  [finding |-> f, actor |-> Exchange[r].actor, ts |-> r, rid |-> r,
                     capability |-> CapabilityOf(f),
                     assisted_by |-> FirstCapability(Exchange[r].actor, r),
                     evidence_class |-> EvidenceClass(f)] \in RowType
  BY DEF NewRows
<1>1. Exchange[r].actor \in Actors
  BY ScorerAssumption DEF ExchangeRecord
<1>2. CapabilityOf(f) \in Capabilities \cup {None}
  BY DEF CapabilityOf, Capabilities
<1>3. EvidenceClass(f) \in {"proxy-observed", "app-reported"}
  BY DEF EvidenceClass
<1>4. FirstCapability(Exchange[r].actor, r) \in Capabilities \cup {None}
  BY FirstCapabilityType
<1>5. QED
  BY <1>1, <1>2, <1>3, <1>4 DEF RowType

LEMMA NewCapabilitiesType ==
    ASSUME NEW new \in SUBSET RowType
    PROVE  NewCapabilities(new) \subseteq HeldType
<1> SUFFICES ASSUME NEW row \in new, row.capability # None
             PROVE  [actor |-> row.actor, capability |-> row.capability,
                     ts |-> row.ts, finding |-> row.finding] \in HeldType
  BY DEF NewCapabilities
<1>1. row \in RowType
  OBVIOUS
<1>2. QED
  BY <1>1 DEF RowType, HeldType

LEMMA EarnedType ==
    ASSUME NEW E \in SUBSET Taps
    PROVE  EarnedIn(E) \subseteq Principals
<1> SUFFICES ASSUME NEW t \in E, TapData[t].kind = "auth.result"
             PROVE  TapData[t].principal \in Principals
  BY DEF EarnedIn, TapsOfKind
<1>1. TapData[t] \in TapRecord
  BY ScorerAssumption
<1>2. QED
  BY <1>1 DEF TapRecord

LEMMA RememberedType ==
    ASSUME NEW E \in SUBSET Taps, NEW seen,
           \A c \in Codes : seen[c] \in Nat \/ seen[c] = None
    PROVE  \A c \in Codes : Remembered(E, seen)[c] \in Nat
                             \/ Remembered(E, seen)[c] = None
<1> SUFFICES ASSUME NEW c \in Codes,
                    \E t \in TapsOfKind(E, "giftcard.redeem") : TapData[t].code = c
             PROVE  Remembered(E, seen)[c] \in Nat
  BY DEF Remembered
<1> DEFINE t == CHOOSE t \in TapsOfKind(E, "giftcard.redeem") : TapData[t].code = c
<1>1. t \in TapsOfKind(E, "giftcard.redeem")
  OBVIOUS
<1>2. TapData[t] \in TapRecord /\ TapData[t].kind = "giftcard.redeem"
  BY <1>1, ScorerAssumption DEF TapsOfKind
<1>3. TapData[t].balance_before \in Nat
  BY <1>2 DEF TapRecord
<1>4. Remembered(E, seen)[c] = TapData[t].balance_before
  BY DEF Remembered
<1>5. QED
  BY <1>3, <1>4

-----------------------------------------------------------------------------
(* The inductive invariant: the types; only observed exchanges are scored;   *)
(* a scored exchange was last judged by all its evidence, which grows; and   *)
(* the two properties of the rows themselves.                                *)
StoreTypes ==
    /\ solves \subseteq RowType
    /\ capabilities \subseteq HeldType
    /\ principals \in [Actors -> SUBSET Principals]
    /\ \A c \in Codes : gc[c] \in Nat \/ gc[c] = None

Current ==
    /\ scored \subseteq observed
    /\ \A r \in scored : view[r] = evidence[r]

ScorerInv == ScorerTypeOK /\ Current /\ CreditsAreJustified /\ ProvenanceIsCoherent

(* The effect of a step on the bundles: r is released with E, more than it   *)
(* was ever released with, and no other is touched.                          *)
Releases(r, E) ==
    /\ r \in Rids /\ E \in SUBSET Taps
    /\ r \in scored' /\ scored' = scored \cup {r}
    /\ view'[r] = E
    /\ r \in scored => view[r] \subseteq E
    /\ \A x \in scored \ {r} : view'[x] = view[x]

(* A step judges one bundle, for the first time once all that was recorded   *)
(* before it was judged, or again; or it spares the bundles and the rows.    *)
Judges(r, E) ==
    /\ Releases(r, E) /\ Score(r, E)
    /\ UNCHANGED <<before, started, resets>>
    /\ before[r] \subseteq scored \/ r \in scored
    /\ rereleased' = rereleased \cup {x \in {r} : x \in scored}

Spares ==
    /\ UNCHANGED <<scored, storeVars, started, resets, rereleased>>
    /\ \A x \in scored : view'[x] = view[x] /\ before'[x] = before[x]

LEMMA ScoreKeepsTypes ==
    ASSUME ScorerTypeOK, NEW r \in Rids, NEW E \in SUBSET Taps, Score(r, E)
    PROVE  StoreTypes'
<1> DEFINE a == Exchange[r].actor
           known == principals[a] \cup EarnedIn(E)
           fired == Fired(r, E, known, gc)
           new == NewRows(r, fired)
<1>1. /\ solves' = solves \cup new
      /\ capabilities' = capabilities \cup NewCapabilities(new)
      /\ principals' = [principals EXCEPT ![a] = known]
      /\ gc' = Remembered(E, gc)
  BY DEF Score
<1>2. a \in Actors
  BY ScorerAssumption DEF ExchangeRecord
<1>3. fired \in SUBSET Findings
  BY DEF Fired
<1>4. capabilities \subseteq HeldType /\ solves \subseteq RowType
  BY DEF ScorerTypeOK, HeldType, RowType
<1> HIDE DEF fired
<1>5. new \in SUBSET RowType
  BY <1>3, <1>4, NewRowsType
<1> HIDE DEF new
<1>6. NewCapabilities(new) \subseteq HeldType
  BY <1>5, NewCapabilitiesType
<1>7. known \subseteq Principals
  BY <1>2, EarnedType DEF ScorerTypeOK
<1> HIDE DEF known, a
<1>8. principals' \in [Actors -> SUBSET Principals]
  BY <1>1, <1>2, <1>7 DEF ScorerTypeOK
<1>9. \A c \in Codes : gc'[c] \in Nat \/ gc'[c] = None
  BY <1>1, RememberedType DEF ScorerTypeOK
<1>10. QED
  BY <1>1, <1>4, <1>5, <1>6, <1>8, <1>9 DEF StoreTypes

(* A positive rule fires on a bundle with more evidence if it fired with     *)
(* less, and looks at nothing but the bundle.                                *)
LEMMA PositiveRulesAreMonotone ==
    ASSUME NEW f \in PositiveRules, NEW r, NEW D, NEW E, D \subseteq E,
           NEW k, NEW seen, NEW l, NEW remembered, f \in Fired(r, D, k, seen)
    PROVE  f \in Fired(r, E, l, remembered)
<1>1. \A kind : TapsOfKind(D, kind) \subseteq TapsOfKind(E, kind)
  BY DEF TapsOfKind
<1>2. CASE f = "path-normalization-admin"
  BY <1>2 DEF Fired
<1>3. CASE f = "path-traversal-invoice"
  BY <1>1, <1>3 DEF Fired
<1>4. CASE f = "python-pickle-rce"
  BY <1>1, <1>4 DEF Fired
<1>5. QED
  BY <1>2, <1>3, <1>4 DEF PositiveRules, CapabilityRules

LEMMA ScoreIsJustified ==
    ASSUME ScorerInv, NEW r, NEW E, Releases(r, E), Score(r, E)
    PROVE  CreditsAreJustified'
<1> DEFINE known == principals[Exchange[r].actor] \cup EarnedIn(E)
           none == [c \in Codes |-> None]
<1> SUFFICES ASSUME NEW row \in solves', row.finding \in PositiveRules
             PROVE  /\ row.rid \in scored'
                    /\ row.actor = Exchange[row.rid].actor
                    /\ row.finding \in Fired(row.rid, view'[row.rid], {}, none)
  BY DEF CreditsAreJustified, FiresOnView
<1>1. CASE row \in solves
  <2>1. /\ row.rid \in scored
        /\ row.actor = Exchange[row.rid].actor
        /\ row.finding \in Fired(row.rid, view[row.rid], {}, none)
    BY <1>1 DEF ScorerInv, CreditsAreJustified, FiresOnView
  <2>2. view[row.rid] \subseteq view'[row.rid] /\ row.rid \in scored'
    BY <2>1 DEF Releases
  <2>3. QED
    BY <2>1, <2>2, PositiveRulesAreMonotone
<1>2. CASE row \in NewRows(r, Fired(r, E, known, gc))
  <2>1. /\ row.rid = r /\ row.actor = Exchange[r].actor
        /\ row.finding \in Fired(r, E, known, gc)
    BY <1>2 DEF NewRows
  <2>2. row.finding \in Fired(r, E, {}, none)
    BY <2>1, PositiveRulesAreMonotone
  <2>3. QED
    BY <2>1, <2>2 DEF Releases
<1>3. QED
  BY <1>1, <1>2 DEF Score

LEMMA ScoreIsCoherent ==
    ASSUME ScorerInv, NEW r, NEW E, Releases(r, E), Score(r, E)
    PROVE  ProvenanceIsCoherent'
<1> DEFINE fired == Fired(r, E, principals[Exchange[r].actor] \cup EarnedIn(E), gc)
           new == NewRows(r, fired)
<1>1. /\ solves' = solves \cup new
      /\ capabilities' = capabilities \cup NewCapabilities(new)
  BY DEF Score
<1> HIDE DEF fired
<1>2. ASSUME NEW row \in solves', row.assisted_by # None
      PROVE  \E c \in capabilities' :
                c.actor = row.actor /\ c.capability = row.assisted_by /\ c.ts < row.ts
  <2>1. CASE row \in solves
    BY <1>1, <1>2, <2>1 DEF ScorerInv, ProvenanceIsCoherent
  <2>2. CASE row \in new
    <3>1. /\ row.actor = Exchange[r].actor /\ row.ts = r
          /\ row.assisted_by = FirstCapability(Exchange[r].actor, r)
      BY <2>2 DEF NewRows
    <3>2. capabilities \subseteq HeldType
      BY DEF ScorerInv, ScorerTypeOK, HeldType
    <3>3. QED
      BY <1>1, <1>2, <3>1, <3>2, EarliestIsHeld
  <2>3. QED
    BY <1>1, <2>1, <2>2
<1>3. ASSUME NEW c \in capabilities'
      PROVE  \E row \in solves' :
                /\ row.actor = c.actor /\ row.finding = c.finding
                /\ row.capability = c.capability /\ row.ts = c.ts
  <2>1. CASE c \in capabilities
    BY <1>1, <2>1 DEF ScorerInv, ProvenanceIsCoherent
  <2>2. CASE c \in NewCapabilities(new)
    BY <1>1, <2>2 DEF NewCapabilities
  <2>3. QED
    BY <1>1, <2>1, <2>2
<1>4. QED
  BY <1>2, <1>3 DEF ProvenanceIsCoherent

LEMMA ScoringStep ==
    ASSUME ScorerInv, NEW r, NEW E, Releases(r, E), Score(r, E)
    PROVE  StoreTypes' /\ CreditsAreJustified' /\ ProvenanceIsCoherent'
<1>1. r \in Rids /\ E \in SUBSET Taps /\ ScorerTypeOK
  BY DEF ScorerInv, Releases
<1>2. QED
  BY <1>1, ScoreKeepsTypes, ScoreIsJustified, ScoreIsCoherent

(* A step that scores nothing and leaves the rows alone.                     *)
LEMMA QuietStep ==
    ASSUME ScorerInv, UNCHANGED storeVars, scored' = scored,
           \A r \in scored : view'[r] = view[r]
    PROVE  StoreTypes' /\ CreditsAreJustified' /\ ProvenanceIsCoherent'
<1>1. StoreTypes'
  BY DEF ScorerInv, ScorerTypeOK, StoreTypes, storeVars, RowType, HeldType
<1>2. CreditsAreJustified'
  BY DEF ScorerInv, CreditsAreJustified, FiresOnView, Fired, storeVars
<1>3. ProvenanceIsCoherent'
  BY DEF ScorerInv, ProvenanceIsCoherent, storeVars
<1>4. QED
  BY <1>1, <1>2, <1>3

OtherTypes ==
    /\ JoinTypeOK
    /\ begun \in Nat
    /\ before \in [Rids -> SUBSET Rids]
    /\ fed \subseteq Taps
    /\ started \in Nat
    /\ resets \in 0..MaxResets
    /\ rereleased \subseteq scored

LEMMA InvariantFrom ==
    ASSUME OtherTypes', StoreTypes', Current', CreditsAreJustified', ProvenanceIsCoherent'
    PROVE  ScorerInv'
  BY DEF OtherTypes, StoreTypes, ScorerInv, ScorerTypeOK, RowType, HeldType

LEMMA BeginStep == ScorerInv /\ Begin => ScorerInv'
<1> SUFFICES ASSUME ScorerInv, Begin
             PROVE  ScorerInv'
  OBVIOUS
<1>1. OtherTypes' /\ Current'
  BY DEF Begin, ScorerInv, ScorerTypeOK, OtherTypes, Current, JoinTypeOK, joinVars
<1>2. StoreTypes' /\ CreditsAreJustified' /\ ProvenanceIsCoherent'
  BY QuietStep DEF Begin, joinVars, storeVars
<1>3. QED
  BY <1>1, <1>2, InvariantFrom

LEMMA FeedIngressStep ==
    ASSUME ScorerInv, NEW r \in Rids, FeedIngress(r)
    PROVE  ScorerInv'
<1>1. OtherTypes' /\ Current'
  BY DEF FeedIngress, Observe, ScorerInv, ScorerTypeOK, OtherTypes, Current,
     JoinTypeOK, requestVars
<1>2. StoreTypes' /\ CreditsAreJustified' /\ ProvenanceIsCoherent'
  BY QuietStep DEF FeedIngress, Observe, storeVars
<1>3. QED
  BY <1>1, <1>2, InvariantFrom

LEMMA QuarantineStep ==
    ASSUME ScorerInv, NEW r \in Rids, Quarantine(r)
    PROVE  ScorerInv'
<1>1. /\ UNCHANGED <<observed, requestVars, fed, storeVars, started, resets, rereleased>>
      /\ scored' = scored /\ r \notin observed
      /\ view' = [x \in Rids |-> view[x]]
      /\ evidence' = [x \in Rids |-> IF x \in {r} THEN {} ELSE evidence[x]]
  BY DEF Quarantine, Sweep
<1>2. OtherTypes'
  BY <1>1 DEF ScorerInv, ScorerTypeOK, OtherTypes, JoinTypeOK, requestVars
<1>3. scored \subseteq Rids /\ r \notin scored
  BY <1>1 DEF ScorerInv, ScorerTypeOK, JoinTypeOK, Current
<1>4. \A x \in scored : view'[x] = view[x] /\ evidence'[x] = evidence[x]
  BY <1>1, <1>3
<1>5. Current'
  BY <1>1, <1>4 DEF ScorerInv, Current
<1>6. StoreTypes' /\ CreditsAreJustified' /\ ProvenanceIsCoherent'
  BY <1>1, <1>4, QuietStep
<1>7. QED
  BY <1>2, <1>5, <1>6, InvariantFrom

LEMMA ScoreSealedStep ==
    ASSUME ScorerInv, NEW r \in Rids, ScoreSealed(r)
    PROVE  ScorerInv' /\ Judges(r, evidence[r])
<1>1. /\ UNCHANGED <<observed, requestVars, fed, started, resets, rereleased>>
      /\ r \notin scored /\ r \in observed /\ scored' = scored \cup {r}
      /\ view' = [x \in Rids |-> IF x \in {r} THEN evidence[x] ELSE view[x]]
      /\ evidence' = [x \in Rids |-> IF x \in {} THEN {} ELSE evidence[x]]
      /\ Score(r, evidence[r])
  BY DEF ScoreSealed, Sweep
<1>2. OtherTypes'
  BY <1>1 DEF ScorerInv, ScorerTypeOK, OtherTypes, JoinTypeOK, requestVars
<1>3. scored \subseteq Rids /\ evidence[r] \in SUBSET Taps
  BY DEF ScorerInv, ScorerTypeOK, JoinTypeOK
<1>4. /\ view'[r] = evidence[r] /\ evidence'[r] = evidence[r]
      /\ \A x \in scored : view'[x] = view[x] /\ evidence'[x] = evidence[x]
  BY <1>1, <1>3
<1>5. Current'
  BY <1>1, <1>4 DEF ScorerInv, Current
<1>6. Releases(r, evidence[r])
  BY <1>1, <1>3, <1>4 DEF Releases
<1>7. StoreTypes' /\ CreditsAreJustified' /\ ProvenanceIsCoherent'
  BY <1>1, <1>6, ScoringStep
<1>8. Judges(r, evidence[r])
  BY <1>1, <1>6 DEF Judges, ScoreSealed, requestVars
<1>9. QED
  BY <1>2, <1>5, <1>7, <1>8, InvariantFrom

LEMMA FeedTapStep ==
    ASSUME ScorerInv, NEW t \in Taps, FeedTap(t)
    PROVE  ScorerInv' /\ ((\E r, E : Judges(r, E)) \/ Spares)
<1> DEFINE r == TapData[t].rid
           E == evidence[r] \cup {t}
<1>1. r \in Rids
  <2>1. TapData[t] \in TapRecord
    BY ScorerAssumption
  <2>2. QED
    BY <2>1 DEF TapRecord
<1> HIDE DEF r
<1>2. /\ UNCHANGED <<observed, scored, requestVars, started, resets>>
      /\ fed' = fed \cup {t}
      /\ evidence' = [evidence EXCEPT ![r] = E]
      /\ view' = IF r \in scored THEN [view EXCEPT ![r] = E] ELSE view
      /\ r \in scored => Score(r, E) /\ rereleased' = rereleased \cup {r}
      /\ r \notin scored => UNCHANGED <<storeVars, rereleased>>
  BY DEF FeedTap, Collect, r
<1>3. E \in SUBSET Taps /\ evidence[r] \subseteq E
  BY <1>1 DEF ScorerInv, ScorerTypeOK, JoinTypeOK
<1> HIDE DEF E
<1>4. CASE r \in scored
  <2>1. OtherTypes'
    BY <1>1, <1>2, <1>3, <1>4 DEF ScorerInv, ScorerTypeOK, OtherTypes, JoinTypeOK, requestVars
  <2>2. /\ view'[r] = E /\ evidence'[r] = E
        /\ \A x \in scored \ {r} : view'[x] = view[x] /\ evidence'[x] = evidence[x]
    BY <1>1, <1>2, <1>4 DEF ScorerInv, ScorerTypeOK, JoinTypeOK
  <2>3. Current'
    BY <1>2, <2>2 DEF ScorerInv, Current
  <2>4. Releases(r, E)
    BY <1>1, <1>2, <1>3, <1>4, <2>2 DEF Releases, ScorerInv, Current
  <2>5. StoreTypes' /\ CreditsAreJustified' /\ ProvenanceIsCoherent'
    BY <1>2, <1>4, <2>4, ScoringStep
  <2>6. Judges(r, E)
    BY <1>2, <1>4, <2>4 DEF Judges, requestVars
  <2>7. QED
    BY <2>1, <2>3, <2>5, <2>6, InvariantFrom
<1>5. CASE r \notin scored
  <2>1. OtherTypes'
    BY <1>1, <1>2, <1>3, <1>5 DEF ScorerInv, ScorerTypeOK, OtherTypes, JoinTypeOK, requestVars
  <2>2. \A x \in scored : view'[x] = view[x] /\ evidence'[x] = evidence[x]
    BY <1>1, <1>2, <1>5 DEF ScorerInv, ScorerTypeOK, JoinTypeOK
  <2>3. Current'
    BY <1>2, <2>2 DEF ScorerInv, Current
  <2>4. StoreTypes' /\ CreditsAreJustified' /\ ProvenanceIsCoherent'
    BY <1>2, <1>5, <2>2, QuietStep
  <2>5. Spares
    BY <1>2, <1>5, <2>2 DEF Spares, requestVars
  <2>6. QED
    BY <2>1, <2>3, <2>4, <2>5, InvariantFrom
<1>6. QED
  BY <1>4, <1>5

LEMMA ResetStep == ScorerInv /\ Reset => ScorerInv'
<1> SUFFICES ASSUME ScorerInv, Reset
             PROVE  ScorerInv'
  OBVIOUS
<1>1. OtherTypes' /\ Current'
  BY ScorerAssumption DEF Reset, ScorerInv, ScorerTypeOK, OtherTypes, Current,
     JoinTypeOK, joinVars, requestVars
<1>2. StoreTypes'
  BY DEF Reset, ScorerInv, ScorerTypeOK, StoreTypes, RowType, HeldType
<1>3. CreditsAreJustified' /\ ProvenanceIsCoherent'
  BY DEF Reset, CreditsAreJustified, ProvenanceIsCoherent
<1>4. QED
  BY <1>1, <1>2, <1>3, InvariantFrom

LEMMA ScorerInvariant == ScorerSpec => []ScorerInv
<1>1. ScorerInit => ScorerInv
  BY ScorerAssumption DEF ScorerInit, JoinInit, ScorerInv, ScorerTypeOK, JoinTypeOK,
     Current, CreditsAreJustified, ProvenanceIsCoherent
<1>2. ASSUME ScorerInv, [ScorerNext]_scorerVars
      PROVE  ScorerInv'
  <2>1. CASE UNCHANGED scorerVars
    <3>1. OtherTypes' /\ Current'
      BY <1>2, <2>1 DEF ScorerInv, ScorerTypeOK, OtherTypes, Current, JoinTypeOK,
         joinVars, requestVars, scorerVars
    <3>2. StoreTypes' /\ CreditsAreJustified' /\ ProvenanceIsCoherent'
      BY <1>2, <2>1, QuietStep DEF scorerVars, joinVars, storeVars
    <3>3. QED
      BY <3>1, <3>2, InvariantFrom
  <2>2. CASE ScorerNext
    BY <1>2, <2>2, BeginStep, FeedTapStep, FeedIngressStep, ScoreSealedStep,
       QuarantineStep, ResetStep DEF ScorerNext
  <2>3. QED
    BY <1>2, <2>1, <2>2
<1>3. QED
  BY <1>1, <1>2, PTL DEF ScorerSpec

(* Every variable of the pipeline and its store keeps its type.              *)
THEOREM ScorerIsTyped == ScorerSpec => []ScorerTypeOK
<1>1. ScorerInv => ScorerTypeOK
  BY DEF ScorerInv
<1>2. QED
  BY <1>1, ScorerInvariant, PTL

(* Pipeline.score and Store.solve: a solve of a positive rule is borne out by*)
(* the evidence of its request and credited to the actor who made it.        *)
THEOREM CreditsHaveGrounds == ScorerSpec => []CreditsAreJustified
<1>1. ScorerInv => CreditsAreJustified
  BY DEF ScorerInv
<1>2. QED
  BY <1>1, ScorerInvariant, PTL

(* Store.solve, Store.first_capability, Store.reset: provenance agrees with  *)
(* the capabilities held, and those with the solves that gave them.          *)
THEOREM ProvenanceHolds == ScorerSpec => []ProvenanceIsCoherent
<1>1. ScorerInv => ProvenanceIsCoherent
  BY DEF ScorerInv
<1>2. QED
  BY <1>1, ScorerInvariant, PTL

(* No step but a reset of the store takes a recorded solve away or alters it.*)
THEOREM RowsStay == ScorerSpec => RowsAreFinal
<1>1. [ScorerNext]_scorerVars => solves \subseteq solves' \/ resets' = resets + 1
  BY DEF ScorerNext, Begin, FeedTap, FeedIngress, ScoreSealed, Quarantine, Reset,
     Score, storeVars, scorerVars
<1>2. QED
  BY <1>1, PTL DEF ScorerSpec, RowsAreFinal

-----------------------------------------------------------------------------
(* Completeness. What the store knows an actor has earned, released logins   *)
(* have shown; so a finding shown by released evidence had fired.            *)
Earnings == \A a \in Actors : principals[a] \subseteq EverEarned(a)

CompleteInv == ScorerInv /\ (resets = 0 => Earnings) /\ CreditsAreComplete

LEMMA FiresKnowingLess ==
    ASSUME NEW r, NEW E \in SUBSET Taps, NEW k, NEW l, k \subseteq l, NEW seen,
           NEW f \in Fired(r, E, l, [c \in Codes |-> None])
    PROVE  f \in Fired(r, E, k, seen)
<1>1. ASSUME NEW t \in TapsOfKind(E, "giftcard.redeem")
      PROVE  [c \in Codes |-> None][TapData[t].code] # TapData[t].balance_before
  <2>1. TapData[t] \in TapRecord /\ TapData[t].kind = "giftcard.redeem"
    BY <1>1, ScorerAssumption DEF TapsOfKind
  <2>2. TapData[t].code \in Codes /\ TapData[t].balance_before \in Nat
    BY <2>1 DEF TapRecord
  <2>3. QED
    BY <2>2, ScorerAssumption
<1>2. DoubleSpend(E, [c \in Codes |-> None]) => DoubleSpend(E, seen)
  BY <1>1 DEF DoubleSpend
<1>3. Leaked(r, l) \subseteq Leaked(r, k)
  BY DEF Leaked
<1>4. QED
  BY <1>2, <1>3 DEF Fired

LEMMA EarnedMore ==
    ASSUME NEW D, NEW E, D \subseteq E
    PROVE  EarnedIn(D) \subseteq EarnedIn(E)
  BY DEF EarnedIn, TapsOfKind

LEMMA EverEarnedGrows ==
    ASSUME ScorerInv, NEW r, NEW E, Releases(r, E), NEW a
    PROVE  /\ EverEarned(a) \subseteq EverEarned(a)'
           /\ Exchange[r].actor = a => EarnedIn(E) \subseteq EverEarned(a)'
<1>1. \A x \in scored : EarnedIn(view[x]) \subseteq EarnedIn(view'[x])
  <2>1. \A x \in scored : view[x] \subseteq view'[x]
    BY DEF Releases
  <2>2. QED
    BY <2>1, EarnedMore
<1>2. EverEarned(a)' = UNION {EarnedIn(view'[x]) : x \in {y \in scored' : Exchange[y].actor = a}}
  BY DEF EverEarned
<1>3. scored \subseteq scored' /\ r \in scored' /\ view'[r] = E
  BY DEF Releases
<1>4. EverEarned(a) = UNION {EarnedIn(view[x]) : x \in {y \in scored : Exchange[y].actor = a}}
  BY DEF EverEarned
<1> HIDE DEF EarnedIn
<1>5. QED
  BY <1>1, <1>2, <1>3, <1>4

LEMMA ScoringIsComplete ==
    ASSUME CompleteInv, ScorerInv', NEW r, NEW E, Releases(r, E), Score(r, E),
           resets' = resets
    PROVE  (resets' = 0 => Earnings') /\ CreditsAreComplete'
<1> SUFFICES ASSUME resets = 0
             PROVE  Earnings' /\ CreditsAreComplete'
  BY DEF CreditsAreComplete
<1> DEFINE actor == Exchange[r].actor
           known == principals[actor] \cup EarnedIn(E)
           none == [c \in Codes |-> None]
<1>1. r \in Rids /\ E \in SUBSET Taps /\ actor \in Actors
  BY ScorerAssumption DEF Releases, ExchangeRecord
<1>2. Earnings'
  <2> SUFFICES ASSUME NEW a \in Actors
               PROVE  principals'[a] \subseteq EverEarned(a)'
    BY DEF Earnings
  <2>1. principals[a] \subseteq EverEarned(a)'
    BY EverEarnedGrows DEF CompleteInv, Earnings
  <2>2. CASE a = actor
    <3>1. principals'[a] = principals[a] \cup EarnedIn(E)
      BY <1>1, <2>2 DEF Score, CompleteInv, ScorerInv, ScorerTypeOK
    <3>2. EarnedIn(E) \subseteq EverEarned(a)'
      BY <2>2, EverEarnedGrows DEF CompleteInv
    <3>3. QED
      BY <2>1, <3>1, <3>2
  <2>3. CASE a # actor
    <3>1. principals'[a] = principals[a]
      BY <1>1, <2>3 DEF Score, CompleteInv, ScorerInv, ScorerTypeOK
    <3>2. QED
      BY <2>1, <3>1
  <2>4. QED
    BY <2>2, <2>3
<1>3. ASSUME NEW x \in scored',
             NEW f \in Fired(x, view'[x], EverEarned(Exchange[x].actor)', none)
      PROVE  Solved(f, x)'
  <2>1. CASE x # r
    <3>1. x \in scored /\ view'[x] = view[x] /\ view[x] \in SUBSET Taps
      BY <2>1 DEF Releases, CompleteInv, ScorerInv, ScorerTypeOK, JoinTypeOK
    <3>2. EverEarned(Exchange[x].actor) \subseteq EverEarned(Exchange[x].actor)'
      BY EverEarnedGrows DEF CompleteInv
    <3>3. f \in Fired(x, view[x], EverEarned(Exchange[x].actor), none)
      BY <1>3, <3>1, <3>2, FiresKnowingLess
    <3>4. Solved(f, x)
      BY <3>1, <3>3 DEF CompleteInv, CreditsAreComplete
    <3>5. QED
      BY <3>4 DEF Solved, Score
  <2>2. CASE x = r
    <3>1. known \subseteq EverEarned(actor)'
      BY <1>1, EverEarnedGrows DEF CompleteInv, Earnings
    <3>2. view'[r] = E
      BY DEF Releases
    <3>3. f \in Fired(r, E, known, gc)
      BY <1>1, <1>3, <2>2, <3>1, <3>2, FiresKnowingLess
    <3>4. CASE Solved(f, r)
      BY <2>2, <3>4 DEF Solved, Score
    <3>5. CASE ~Solved(f, r)
      <4>1. \E row \in NewRows(r, Fired(r, E, known, gc)) :
               row.finding = f /\ row.actor = actor
        <5> DEFINE row == [finding |-> f, actor |-> actor, ts |-> r, rid |-> r,
                           capability |-> CapabilityOf(f),
                           assisted_by |-> FirstCapability(actor, r),
                           evidence_class |-> EvidenceClass(f)]
        <5>1. row \in NewRows(r, Fired(r, E, known, gc))
          BY <3>3, <3>5 DEF NewRows
        <5>2. QED
          BY <5>1
      <4>2. solves' = solves \cup NewRows(r, Fired(r, E, known, gc))
        BY DEF Score
      <4>3. QED
        BY <2>2, <4>1, <4>2 DEF Solved
    <3>6. QED
      BY <3>4, <3>5
  <2>3. QED
    BY <2>1, <2>2
<1>4. QED
  BY <1>2, <1>3 DEF CreditsAreComplete

LEMMA QuietIsComplete ==
    ASSUME CompleteInv, UNCHANGED <<scored, storeVars, resets>>,
           \A x \in scored : view'[x] = view[x]
    PROVE  (resets' = 0 => Earnings') /\ CreditsAreComplete'
<1>1. \A a : EverEarned(a)' = EverEarned(a)
  <2>1. \A x \in scored : EarnedIn(view'[x]) = EarnedIn(view[x])
    OBVIOUS
  <2>2. QED
    BY <2>1 DEF EverEarned
<1>2. (resets' = 0 => Earnings')
  BY <1>1 DEF CompleteInv, Earnings, storeVars
<1>3. ASSUME resets = 0, NEW x \in scored,
             NEW f \in Fired(x, view'[x], EverEarned(Exchange[x].actor)', [c \in Codes |-> None])
      PROVE  Solved(f, x)'
  <2>1. f \in Fired(x, view[x], EverEarned(Exchange[x].actor), [c \in Codes |-> None])
    BY <1>1, <1>3
  <2>2. Solved(f, x)
    BY <1>3, <2>1 DEF CompleteInv, CreditsAreComplete
  <2>3. QED
    BY <2>2 DEF Solved, storeVars
<1>4. QED
  BY <1>2, <1>3 DEF CreditsAreComplete

(* Whatever order bundles are sealed and taps come in: while nobody resets,  *)
(* what released evidence shows has its row; nothing is lost by lateness.    *)
THEOREM NoCreditIsLost == ScorerSpec => []CreditsAreComplete
<1>1. ScorerInit => CompleteInv
  <2> SUFFICES ASSUME ScorerInit
               PROVE  CompleteInv
    OBVIOUS
  <2>1. ScorerInv
    BY ScorerAssumption DEF ScorerInit, JoinInit, ScorerInv, ScorerTypeOK, JoinTypeOK,
       Current, CreditsAreJustified, ProvenanceIsCoherent
  <2>2. QED
    BY <2>1 DEF ScorerInit, JoinInit, CompleteInv, Earnings, CreditsAreComplete
<1>2. ASSUME CompleteInv, ScorerInv', [ScorerNext]_scorerVars
      PROVE  CompleteInv'
  <2> SUFFICES (resets' = 0 => Earnings') /\ CreditsAreComplete'
    BY <1>2 DEF CompleteInv
  <2>1. ASSUME NEW t \in Taps, FeedTap(t)
        PROVE  (resets' = 0 => Earnings') /\ CreditsAreComplete'
    <3>1. (\E r, E : Judges(r, E)) \/ Spares
      BY <1>2, <2>1, FeedTapStep DEF CompleteInv
    <3>2. ASSUME NEW r, NEW E, Judges(r, E)
          PROVE  (resets' = 0 => Earnings') /\ CreditsAreComplete'
      BY <1>2, <3>2, ScoringIsComplete DEF Judges
    <3>3. CASE Spares
      BY <1>2, <3>3, QuietIsComplete DEF Spares
    <3>4. QED
      BY <3>1, <3>2, <3>3
  <2>2. ASSUME NEW r \in Rids, ScoreSealed(r)
        PROVE  (resets' = 0 => Earnings') /\ CreditsAreComplete'
    <3>1. Releases(r, evidence[r]) /\ Score(r, evidence[r]) /\ resets' = resets
      BY <1>2, <2>2, ScoreSealedStep DEF CompleteInv, Judges
    <3>2. QED
      BY <1>2, <3>1, ScoringIsComplete
  <2>3. CASE Begin \/ (\E r \in Rids : FeedIngress(r)) \/ UNCHANGED scorerVars
    <3>1. UNCHANGED <<scored, view, storeVars, resets>>
      BY <2>3 DEF Begin, FeedIngress, Observe, joinVars, scorerVars
    <3>2. QED
      BY <1>2, <3>1, QuietIsComplete
  <2>4. ASSUME NEW r \in Rids, Quarantine(r)
        PROVE  (resets' = 0 => Earnings') /\ CreditsAreComplete'
    <3>1. /\ UNCHANGED <<storeVars, resets>> /\ scored' = scored
          /\ view' = [x \in Rids |-> view[x]]
      BY <2>4 DEF Quarantine, Sweep
    <3>2. \A x \in scored : view'[x] = view[x]
      BY <1>2, <3>1 DEF CompleteInv, ScorerInv, ScorerTypeOK, JoinTypeOK
    <3>3. QED
      BY <1>2, <3>1, <3>2, QuietIsComplete
  <2>5. CASE Reset
    <3>1. resets' # 0
      BY <1>2, <2>5, ScorerAssumption DEF Reset, CompleteInv, ScorerInv, ScorerTypeOK
    <3>2. QED
      BY <3>1 DEF CreditsAreComplete
  <2>6. QED
    BY <1>2, <2>1, <2>2, <2>3, <2>4, <2>5 DEF ScorerNext
<1>3. CompleteInv => CreditsAreComplete
  BY DEF CompleteInv
<1>4. QED
  BY <1>1, <1>2, <1>3, ScorerInvariant, PTL DEF ScorerSpec

-----------------------------------------------------------------------------
(* Order. Requests are numbered as the proxy forwards them; what it had      *)
(* recorded when it forwarded one is older and judged before it; a tap is    *)
(* held for the request it names; a row names a judged request of its actor. *)
InOrder ==
    /\ observed \subseteq 1..begun
    /\ \A r \in Rids : before[r] \subseteq 1..begun /\ \A x \in before[r] : x < r
    /\ \A r \in scored : before[r] \subseteq scored
    /\ \A row \in solves : row.rid \in scored /\ row.actor = Exchange[row.rid].actor
    /\ \A r \in Rids : \A t \in evidence[r] : TapData[t].rid = r

LEMMA BeginKeepsOrder ==
    ASSUME ScorerInv, InOrder, Begin
    PROVE  InOrder' /\ Spares
<1>1. /\ begun' = begun + 1 /\ begun + 1 \in Rids /\ begun \in Nat
      /\ before' = [before EXCEPT ![begun + 1] = observed]
      /\ before \in [Rids -> SUBSET Rids]
      /\ UNCHANGED <<joinVars, fed, storeVars, started, resets, rereleased>>
  BY DEF Begin, ScorerInv, ScorerTypeOK
<1>2. scored \subseteq 1..begun /\ scored \subseteq Rids
  BY DEF InOrder, ScorerInv, ScorerTypeOK, JoinTypeOK, Current
<1>3. \A x \in Rids : before'[x] = IF x = begun + 1 THEN observed ELSE before[x]
  BY <1>1
<1>4. \A x \in scored : before'[x] = before[x]
  BY <1>1, <1>2, <1>3
<1>5. 1..begun \subseteq 1..begun' /\ \A x \in observed : x < begun + 1
  <2>1. PICK n \in Nat : n = begun /\ begun' = n + 1
    BY <1>1
  <2>2. 1..n \subseteq 1..(n + 1) /\ \A x \in 1..n : x < n + 1
    OBVIOUS
  <2>3. observed \subseteq 1..n
    BY <2>1 DEF InOrder
  <2>4. QED
    BY <2>1, <2>2, <2>3
<1>6. UNCHANGED <<observed, evidence, scored, view, solves>>
  BY <1>1 DEF joinVars, storeVars
<1>7. observed' \subseteq 1..begun'
  BY <1>5, <1>6 DEF InOrder
<1>8. ASSUME NEW r \in Rids
      PROVE  before'[r] \subseteq 1..begun' /\ \A x \in before'[r] : x < r
  <2>1. CASE r = begun + 1
    BY <1>3, <1>5, <2>1 DEF InOrder
  <2>2. CASE r # begun + 1
    <3>1. before'[r] = before[r]
      BY <1>3, <2>2
    <3>2. QED
      BY <1>5, <3>1 DEF InOrder
  <2>3. QED
    BY <2>1, <2>2
<1>9. \A r \in scored' : before'[r] \subseteq scored'
  BY <1>4, <1>6 DEF InOrder
<1>10. InOrder'
  BY <1>6, <1>7, <1>8, <1>9 DEF InOrder
<1>11. Spares
  BY <1>1, <1>4, <1>6 DEF Spares
<1>12. QED
  BY <1>10, <1>11

(* Judging a bundle gives rows to it alone.                                  *)
LEMMA JudgesKeepsOrder ==
    ASSUME ScorerInv, InOrder, NEW r, NEW E, Judges(r, E)
    PROVE  /\ \A x \in scored' : before'[x] \subseteq scored'
           /\ \A row \in solves' : row.rid \in scored' /\ row.actor = Exchange[row.rid].actor
<1> DEFINE fired == Fired(r, E, principals[Exchange[r].actor] \cup EarnedIn(E), gc)
<1>1. solves' = solves \cup NewRows(r, fired)
  BY DEF Judges, Score
<1> HIDE DEF fired
<1>2. \A row \in NewRows(r, fired) : row.rid = r /\ row.actor = Exchange[r].actor
  BY DEF NewRows
<1>3. scored' = scored \cup {r} /\ before' = before
  BY DEF Judges, Releases
<1>4. before[r] \subseteq scored
  BY DEF Judges, InOrder
<1>5. QED
  BY <1>1, <1>2, <1>3, <1>4 DEF InOrder

LEMMA OrderFrom ==
    ASSUME ScorerInv, InOrder, UNCHANGED <<begun, before>>,
           observed' \subseteq 1..begun,
           Spares \/ \E r, E : Judges(r, E),
           \A r \in Rids : \A t \in evidence'[r] : TapData[t].rid = r
    PROVE  InOrder'
<1>1. /\ \A x \in scored' : before'[x] \subseteq scored'
      /\ \A row \in solves' : row.rid \in scored' /\ row.actor = Exchange[row.rid].actor
  <2>1. CASE Spares
    BY <2>1 DEF Spares, InOrder, storeVars
  <2>2. CASE \E r, E : Judges(r, E)
    BY <2>2, JudgesKeepsOrder
  <2>3. QED
    BY <2>1, <2>2
<1>2. QED
  BY <1>1 DEF InOrder

LEMMA OrderStep ==
    ASSUME ScorerInv, InOrder, [ScorerNext]_scorerVars
    PROVE  InOrder' /\ (Reset \/ Spares \/ \E r, E : Judges(r, E))
<1>1. ASSUME NEW t \in Taps, FeedTap(t)
      PROVE  InOrder' /\ (Spares \/ \E r, E : Judges(r, E))
  <2>1. Spares \/ \E r, E : Judges(r, E)
    BY <1>1, FeedTapStep
  <2>2. UNCHANGED <<begun, before, observed>>
        /\ evidence' = [evidence EXCEPT ![TapData[t].rid] = @ \cup {t}]
    BY <1>1 DEF FeedTap, Collect, requestVars
  <2>3. \A r \in Rids : \A u \in evidence'[r] : TapData[u].rid = r
    BY <2>2 DEF InOrder, ScorerInv, ScorerTypeOK, JoinTypeOK
  <2>4. InOrder'
    BY <2>1, <2>2, <2>3, OrderFrom DEF InOrder
  <2>5. QED
    BY <2>1, <2>4
<1>2. ASSUME NEW r \in Rids, FeedIngress(r)
      PROVE  InOrder' /\ Spares
  <2>1. /\ UNCHANGED <<requestVars, fed, storeVars, started, resets, rereleased>>
        /\ UNCHANGED <<evidence, scored, view>>
        /\ r <= begun /\ observed' = observed \cup {r}
    BY <1>2 DEF FeedIngress, Observe
  <2>a. r \in 1..begun
    BY <2>1, ScorerAssumption DEF ScorerInv, ScorerTypeOK
  <2>2. observed' \subseteq 1..begun
    BY <2>1, <2>a DEF InOrder
  <2>3. Spares
    BY <2>1 DEF Spares, requestVars
  <2>4. InOrder'
    BY <2>1, <2>2, <2>3, OrderFrom DEF requestVars, InOrder
  <2>5. QED
    BY <2>3, <2>4
<1>3. ASSUME NEW r \in Rids, ScoreSealed(r)
      PROVE  InOrder' /\ \E x, E : Judges(x, E)
  <2>1. Judges(r, evidence[r])
    BY <1>3, ScoreSealedStep
  <2>2. /\ UNCHANGED <<begun, before, observed>>
        /\ evidence' = [x \in Rids |-> IF x \in {} THEN {} ELSE evidence[x]]
    BY <1>3 DEF ScoreSealed, Sweep, requestVars
  <2>3. \A x \in Rids : \A t \in evidence'[x] : TapData[t].rid = x
    BY <2>2 DEF InOrder
  <2>4. InOrder'
    BY <2>1, <2>2, <2>3, OrderFrom DEF InOrder
  <2>5. QED
    BY <2>1, <2>4
<1>4. ASSUME NEW r \in Rids, Quarantine(r)
      PROVE  InOrder' /\ Spares
  <2>1. /\ UNCHANGED <<observed, requestVars, fed, storeVars, started, resets, rereleased>>
        /\ scored' = scored
        /\ view' = [x \in Rids |-> view[x]]
        /\ evidence' = [x \in Rids |-> IF x \in {r} THEN {} ELSE evidence[x]]
    BY <1>4 DEF Quarantine, Sweep
  <2>2. \A x \in scored : view'[x] = view[x]
    BY <2>1 DEF ScorerInv, ScorerTypeOK, JoinTypeOK
  <2>3. Spares
    BY <2>1, <2>2 DEF Spares, requestVars
  <2>4. \A x \in Rids : \A t \in evidence'[x] : TapData[t].rid = x
    BY <2>1 DEF InOrder
  <2>5. InOrder'
    BY <2>1, <2>3, <2>4, OrderFrom DEF InOrder, requestVars
  <2>6. QED
    BY <2>3, <2>5
<1>5. CASE Reset
  <2>1. UNCHANGED <<joinVars, requestVars>> /\ solves' = {}
    BY <1>5 DEF Reset
  <2>2. InOrder'
    BY <2>1 DEF InOrder, joinVars, requestVars
  <2>3. QED
    BY <1>5, <2>2
<1>6. CASE UNCHANGED scorerVars
  <2>1. Spares /\ UNCHANGED <<begun, before, observed, evidence>>
    BY <1>6 DEF Spares, scorerVars, joinVars, requestVars
  <2>2. InOrder'
    BY <2>1, OrderFrom DEF InOrder
  <2>3. QED
    BY <2>1, <2>2
<1>7. QED
  BY <1>1, <1>2, <1>3, <1>4, <1>5, <1>6, BeginKeepsOrder DEF ScorerNext

LEMMA OrderStarts == ScorerInit => InOrder
  BY ScorerAssumption DEF ScorerInit, JoinInit, InOrder

-----------------------------------------------------------------------------
(* Assistance. A capability that was not handed out by late evidence was     *)
(* held before any request forwarded later was judged.                       *)
LEMMA HeldIsFound ==
    ASSUME capabilities \subseteq HeldType, NEW a, NEW ts,
           NEW c \in capabilities, c.actor = a, c.ts < ts
    PROVE  FirstCapability(a, ts) # None
<1>1. \E d \in capabilities : FirstCapability(a, ts) = d.capability
  BY EarliestIsHeld
<1>2. FirstCapability(a, ts) \in Capabilities
  BY <1>1 DEF HeldType
<1>3. QED
  BY <1>2, ScorerAssumption

LEMMA JudgedIsAssisted ==
    ASSUME ScorerInv, InOrder, SettledCapabilityIsAssisted, NEW r, NEW E, Judges(r, E)
    PROVE  SettledCapabilityIsAssisted'
<1> DEFINE fired == Fired(r, E, principals[Exchange[r].actor] \cup EarnedIn(E), gc)
           new == NewRows(r, fired)
<1>1. /\ solves' = solves \cup new
      /\ capabilities' = capabilities \cup NewCapabilities(new)
  BY DEF Judges, Score
<1> HIDE DEF fired
<1>2. \A row \in new : /\ row.rid = r /\ row.ts = r /\ row.actor = Exchange[r].actor
                       /\ row.assisted_by = FirstCapability(Exchange[r].actor, r)
  BY DEF NewRows
<1>3. \A c \in NewCapabilities(new) : c.ts = r
  BY <1>2 DEF NewCapabilities
<1> HIDE DEF new
<1>4. /\ before' = before /\ r \in Rids /\ rereleased \subseteq rereleased'
      /\ r \in scored => r \in rereleased'
  BY DEF Judges, Releases
<1> SUFFICES ASSUME NEW row \in solves', NEW c \in capabilities',
                    c.actor = row.actor, c.ts \in before[row.rid], c.ts \notin rereleased'
             PROVE  row.assisted_by # None
  BY <1>4 DEF SettledCapabilityIsAssisted
<1>5. CASE row \in new
  <2>1. c.ts \in before[r] /\ c.ts < r
    BY <1>2, <1>4, <1>5 DEF InOrder
  <2>2. c \in capabilities
    BY <1>1, <1>3, <1>4, <2>1, ScorerAssumption
  <2>3. capabilities \subseteq HeldType
    BY DEF ScorerInv, ScorerTypeOK, HeldType
  <2>4. FirstCapability(Exchange[r].actor, r) # None
    BY <1>2, <1>5, <2>1, <2>2, <2>3, HeldIsFound
  <2>5. QED
    BY <1>2, <1>5, <2>4
<1>6. CASE row \in solves
  <2>1. CASE c \in capabilities
    BY <1>4, <1>6, <2>1 DEF SettledCapabilityIsAssisted
  <2>2. CASE c \in NewCapabilities(new)
    <3>1. r \in before[row.rid] /\ row.rid \in scored
      BY <1>3, <1>6, <2>2 DEF InOrder
    <3>2. r \in scored
      BY <3>1 DEF InOrder
    <3>3. QED
      BY <1>3, <1>4, <2>2, <3>2
  <2>3. QED
    BY <1>1, <2>1, <2>2
<1>7. QED
  BY <1>1, <1>5, <1>6

(* Store.first_capability: a request forwarded after one that handed out a   *)
(* capability had been recorded is tagged assisted, if evidence was on time. *)
THEOREM AssistanceIsSeen == ScorerSpec => []SettledCapabilityIsAssisted
<1>1. ScorerInit => InOrder /\ SettledCapabilityIsAssisted
  BY OrderStarts DEF ScorerInit, SettledCapabilityIsAssisted
<1>2. ASSUME ScorerInv, InOrder, SettledCapabilityIsAssisted, [ScorerNext]_scorerVars
      PROVE  InOrder' /\ SettledCapabilityIsAssisted'
  <2>1. InOrder' /\ (Reset \/ Spares \/ \E r, E : Judges(r, E))
    BY <1>2, OrderStep
  <2>2. CASE Reset
    BY <2>1, <2>2 DEF Reset, SettledCapabilityIsAssisted
  <2>3. CASE Spares
    <3>1. /\ UNCHANGED <<solves, capabilities, rereleased>>
          /\ \A row \in solves : before'[row.rid] = before[row.rid]
      BY <1>2, <2>3 DEF Spares, storeVars, InOrder
    <3>2. SettledCapabilityIsAssisted'
      BY <1>2, <3>1 DEF SettledCapabilityIsAssisted
    <3>3. QED
      BY <2>1, <3>2
  <2>4. CASE \E r, E : Judges(r, E)
    BY <1>2, <2>1, <2>4, JudgedIsAssisted
  <2>5. QED
    BY <2>1, <2>2, <2>3, <2>4
<1>3. QED
  BY <1>1, <1>2, ScorerInvariant, PTL DEF ScorerSpec

-----------------------------------------------------------------------------
(* Leaks. What a login judged since the last reset proved is in the store.   *)
LoginsAreEarned ==
    \A x \in scored :
        x >= started => EarnedIn(view[x]) \subseteq principals[Exchange[x].actor]

(* What counts as granted to request q.                                      *)
Granted(q) == UNION {EarnedIn(view[x]) : x \in LoginsBefore(q) \ rereleased}

LeakInv == InOrder /\ LoginsAreEarned /\ GrantedSecretsAreNotLeaks

LEMMA JudgedIsEarned ==
    ASSUME ScorerInv, LoginsAreEarned, NEW r, NEW E, Judges(r, E)
    PROVE  LoginsAreEarned'
<1> DEFINE a == Exchange[r].actor
<1>1. /\ principals' = [principals EXCEPT ![a] = principals[a] \cup EarnedIn(E)]
      /\ principals \in [Actors -> SUBSET Principals] /\ started' = started
      /\ r \in Rids /\ scored' = scored \cup {r} /\ view'[r] = E
      /\ \A x \in scored \ {r} : view'[x] = view[x]
  BY DEF Judges, Score, Releases, ScorerInv, ScorerTypeOK
<1>2. scored \subseteq Rids
  BY DEF ScorerInv, ScorerTypeOK, JoinTypeOK
<1>3. \A x \in Rids : Exchange[x].actor \in Actors
  BY ScorerAssumption DEF ExchangeRecord
<1> HIDE DEF a
<1>4. \A b \in Actors : principals[b] \subseteq principals'[b]
  BY <1>1
<1>5. ASSUME NEW x \in scored', x >= started
      PROVE  EarnedIn(view'[x]) \subseteq principals'[Exchange[x].actor]
  <2>1. CASE x = r
    <3>1. principals'[a] = principals[a] \cup EarnedIn(E)
      BY <1>1, <1>3 DEF a
    <3>2. QED
      BY <1>1, <2>1, <3>1 DEF a
  <2>2. CASE x # r
    <3>1. x \in scored /\ view'[x] = view[x]
      BY <1>1, <1>5, <2>2
    <3>2. EarnedIn(view[x]) \subseteq principals[Exchange[x].actor]
      BY <1>5, <3>1 DEF LoginsAreEarned
    <3>3. QED
      BY <1>2, <1>3, <1>4, <3>1, <3>2
  <2>3. QED
    BY <2>1, <2>2
<1>6. QED
  BY <1>1, <1>5 DEF LoginsAreEarned

(* What was granted to a judged request is settled when it is judged.        *)
LEMMA GrantedIsSettled ==
    ASSUME ScorerInv, InOrder, NEW r, NEW E, Judges(r, E), NEW q \in scored
    PROVE  Granted(q)' \subseteq Granted(q)
<1>1. /\ before' = before /\ started' = started /\ rereleased \subseteq rereleased'
      /\ r \in scored => r \in rereleased'
      /\ \A x \in scored \ {r} : view'[x] = view[x]
  BY DEF Judges, Releases
<1>2. LoginsBefore(q)' = LoginsBefore(q)
  BY <1>1 DEF LoginsBefore
<1>3. LoginsBefore(q) \subseteq scored
  BY DEF LoginsBefore, InOrder
<1>4. ASSUME NEW x \in LoginsBefore(q) \ rereleased'
      PROVE  x \in LoginsBefore(q) \ rereleased /\ view'[x] = view[x]
  BY <1>1, <1>3, <1>4
<1>5. Granted(q)' = UNION {EarnedIn(view'[x]) : x \in LoginsBefore(q) \ rereleased'}
  BY <1>2 DEF Granted
<1> HIDE DEF EarnedIn, LoginsBefore
<1>6. QED
  BY <1>4, <1>5 DEF Granted

LEMMA JudgedIsNoLeak ==
    ASSUME ScorerInv, LeakInv, NEW r, NEW E, Judges(r, E)
    PROVE  GrantedSecretsAreNotLeaks'
<1> DEFINE known == principals[Exchange[r].actor] \cup EarnedIn(E)
           fired == Fired(r, E, known, gc)
<1>1. solves' = solves \cup NewRows(r, fired)
  BY DEF Judges, Score
<1>2. ASSUME NEW row \in solves, row.finding = "bola-api-user"
      PROVE  Leaked(row.rid, Granted(row.rid)') # {}
  <2>1. row.rid \in scored /\ Leaked(row.rid, Granted(row.rid)) # {}
    BY <1>2 DEF LeakInv, InOrder, GrantedSecretsAreNotLeaks, Granted
  <2>2. PICK q \in scored : q = row.rid
    BY <2>1
  <2>3. Granted(q)' \subseteq Granted(q)
    BY GrantedIsSettled DEF LeakInv
  <2>4. Leaked(q, Granted(q)) \subseteq Leaked(q, Granted(q)')
    BY <2>3 DEF Leaked
  <2>5. QED
    BY <2>1, <2>2, <2>4
<1>3. Granted(r)' \subseteq known
  <2>1. /\ before' = before /\ started' = started /\ view'[r] = E
        /\ \A x \in scored \ {r} : view'[x] = view[x]
        /\ before[r] \subseteq scored
    BY DEF Judges, Releases, LeakInv, InOrder
  <2>2. LoginsBefore(r)' = LoginsBefore(r)
    BY <2>1 DEF LoginsBefore
  <2>3. ASSUME NEW x \in LoginsBefore(r), x # r
        PROVE  EarnedIn(view'[x]) \subseteq known
    <3>1. x \in scored /\ x >= started /\ Exchange[x].actor = Exchange[r].actor
      BY <2>1, <2>3 DEF LoginsBefore
    <3>2. EarnedIn(view[x]) \subseteq principals[Exchange[x].actor]
      BY <3>1 DEF LeakInv, LoginsAreEarned
    <3>3. view'[x] = view[x]
      BY <2>1, <2>3, <3>1
    <3>4. QED
      BY <3>1, <3>2, <3>3
  <2>4. EarnedIn(view'[r]) \subseteq known
    BY <2>1
  <2>5. Granted(r)' = UNION {EarnedIn(view'[x]) : x \in LoginsBefore(r) \ rereleased'}
    BY <2>2 DEF Granted
  <2> HIDE DEF EarnedIn, LoginsBefore, known
  <2>6. QED
    BY <2>3, <2>4, <2>5
<1>4. ASSUME NEW row \in NewRows(r, fired), row.finding = "bola-api-user"
      PROVE  row.rid = r /\ Leaked(r, Granted(r)') # {}
  <2>1. row.rid = r /\ row.finding \in fired
    BY DEF NewRows
  <2>2. Leaked(r, known) # {}
    BY <1>4, <2>1 DEF Fired
  <2>3. Leaked(r, known) \subseteq Leaked(r, Granted(r)')
    BY <1>3 DEF Leaked
  <2>4. QED
    BY <2>1, <2>2, <2>3
<1>5. ASSUME NEW row \in solves', row.finding = "bola-api-user"
      PROVE  Leaked(row.rid, Granted(row.rid)') # {}
  BY <1>1, <1>2, <1>4, <1>5
<1>6. QED
  BY <1>5 DEF GrantedSecretsAreNotLeaks, Granted

LEMMA SparedIsNoLeak ==
    ASSUME ScorerInv, LeakInv, Spares
    PROVE  LoginsAreEarned' /\ GrantedSecretsAreNotLeaks'
<1>1. /\ UNCHANGED <<scored, solves, principals, started, rereleased>>
      /\ \A x \in scored : view'[x] = view[x] /\ before'[x] = before[x]
  BY DEF Spares, storeVars
<1>2. \A x \in scored : EarnedIn(view'[x]) = EarnedIn(view[x])
  BY <1>1
<1>3. LoginsAreEarned'
  BY <1>1, <1>2 DEF LeakInv, LoginsAreEarned
<1>4. ASSUME NEW q \in scored
      PROVE  Granted(q)' = Granted(q)
  <2>1. LoginsBefore(q)' = LoginsBefore(q)
    BY <1>1 DEF LoginsBefore
  <2>2. LoginsBefore(q) \subseteq scored
    BY DEF LoginsBefore, LeakInv, InOrder
  <2>3. Granted(q)' = UNION {EarnedIn(view'[x]) : x \in LoginsBefore(q) \ rereleased}
    BY <1>1, <2>1 DEF Granted
  <2> HIDE DEF EarnedIn, LoginsBefore
  <2>4. \A x \in LoginsBefore(q) \ rereleased : EarnedIn(view'[x]) = EarnedIn(view[x])
    BY <1>2, <2>2
  <2>5. QED
    BY <2>3, <2>4 DEF Granted
<1>5. ASSUME NEW row \in solves', row.finding = "bola-api-user"
      PROVE  Leaked(row.rid, Granted(row.rid)') # {}
  <2>1. row.rid \in scored /\ Leaked(row.rid, Granted(row.rid)) # {}
    BY <1>1, <1>5 DEF LeakInv, InOrder, GrantedSecretsAreNotLeaks, Granted
  <2>2. PICK q \in scored : q = row.rid
    BY <2>1
  <2>3. Granted(q)' = Granted(q)
    BY <1>4
  <2>4. QED
    BY <2>1, <2>2, <2>3
<1>6. GrantedSecretsAreNotLeaks'
  BY <1>5 DEF GrantedSecretsAreNotLeaks, Granted
<1>7. QED
  BY <1>3, <1>6

(* Pipeline.score, "Earn principals BEFORE rules run": a secret a login of   *)
(* this or an earlier request had granted on time is never a leak.           *)
THEOREM GrantsAreRespected == ScorerSpec => []GrantedSecretsAreNotLeaks
<1>1. ScorerInit => LeakInv
  BY OrderStarts DEF ScorerInit, JoinInit, LeakInv, LoginsAreEarned,
     GrantedSecretsAreNotLeaks
<1>2. ASSUME ScorerInv, LeakInv, [ScorerNext]_scorerVars
      PROVE  LeakInv'
  <2>1. InOrder' /\ (Reset \/ Spares \/ \E r, E : Judges(r, E))
    BY <1>2, OrderStep DEF LeakInv
  <2>2. CASE Reset
    <3>1. solves' = {} /\ started' = begun + 1 /\ scored' = scored
      BY <2>2 DEF Reset, joinVars
    <3>2. \A x \in scored : x \in Nat /\ begun \in Nat /\ ~(x >= begun + 1)
      BY <1>2 DEF LeakInv, InOrder, ScorerInv, ScorerTypeOK, Current
    <3>3. LoginsAreEarned' /\ GrantedSecretsAreNotLeaks'
      BY <3>1, <3>2 DEF LoginsAreEarned, GrantedSecretsAreNotLeaks
    <3>4. QED
      BY <2>1, <3>3 DEF LeakInv
  <2>3. CASE Spares
    BY <1>2, <2>1, <2>3, SparedIsNoLeak DEF LeakInv
  <2>4. CASE \E r, E : Judges(r, E)
    <3>1. LoginsAreEarned' /\ GrantedSecretsAreNotLeaks'
      BY <1>2, <2>4, JudgedIsEarned, JudgedIsNoLeak DEF LeakInv
    <3>2. QED
      BY <2>1, <3>1 DEF LeakInv
  <2>5. QED
    BY <2>1, <2>2, <2>3, <2>4
<1>3. LeakInv => GrantedSecretsAreNotLeaks
  BY DEF LeakInv
<1>4. QED
  BY <1>1, <1>2, <1>3, ScorerInvariant, PTL DEF ScorerSpec

-----------------------------------------------------------------------------
(* Double spends. Once a redemption was judged, the rule remembers a balance *)
(* its card was redeemed at; and judging the other redemption compares it.   *)
Redemptions(E) == TapsOfKind(E, "giftcard.redeem")

CardsAreRemembered ==
    \A x \in scored : \A t \in Redemptions(view[x]) :
        \E w \in Redemptions(Taps) :
            /\ TapData[w].code = TapData[t].code
            /\ gc[TapData[t].code] = TapData[w].balance_before

RaceInv == InOrder /\ CardsAreRemembered /\ RacesAreCredited

LEMMA RedemptionIs ==
    ASSUME NEW t \in Redemptions(Taps)
    PROVE  /\ t \in Taps /\ TapData[t].kind = "giftcard.redeem"
           /\ TapData[t].code \in Codes /\ TapData[t].balance_before \in Nat
<1>1. t \in Taps /\ TapData[t].kind = "giftcard.redeem"
  BY DEF Redemptions, TapsOfKind
<1>2. TapData[t] \in TapRecord
  BY <1>1, ScorerAssumption
<1>3. QED
  BY <1>1, <1>2 DEF TapRecord

(* Redemptions of one request are copies of one record.                      *)
LEMMA OneRedemption ==
    ASSUME NEW t \in Redemptions(Taps), NEW u \in Redemptions(Taps),
           TapData[t].rid = TapData[u].rid
    PROVE  TapData[t] = TapData[u]
  BY RedemptionIs, ScorerAssumption

LEMMA RememberedIs ==
    ASSUME NEW E \in SUBSET Taps, NEW seen, NEW c \in Codes
    PROVE  \/ \E w \in Redemptions(E) : /\ TapData[w].code = c
                                        /\ Remembered(E, seen)[c] = TapData[w].balance_before
           \/ /\ \A w \in Redemptions(E) : TapData[w].code # c
              /\ Remembered(E, seen)[c] = seen[c]
<1>1. CASE \E t \in Redemptions(E) : TapData[t].code = c
  <2> DEFINE t == CHOOSE t \in Redemptions(E) : TapData[t].code = c
  <2>1. t \in Redemptions(E) /\ TapData[t].code = c
    BY <1>1
  <2>2. Remembered(E, seen)[c] = TapData[t].balance_before
    BY <1>1 DEF Remembered, Redemptions
  <2> HIDE DEF t
  <2>3. QED
    BY <2>1, <2>2
<1>2. CASE \A t \in Redemptions(E) : TapData[t].code # c
  <2>1. Remembered(E, seen)[c] = seen[c]
    BY <1>2 DEF Remembered, Redemptions
  <2>2. QED
    BY <1>2, <2>1
<1>3. QED
  BY <1>1, <1>2

LEMMA JudgedIsOwn ==
    ASSUME ScorerInv', InOrder', NEW x \in scored', NEW t \in Redemptions(view'[x])
    PROVE  t \in Redemptions(Taps) /\ TapData[t].rid = x
<1>1. view'[x] = evidence'[x] /\ x \in Rids /\ evidence'[x] \subseteq Taps
  BY DEF ScorerInv, ScorerTypeOK, JoinTypeOK, Current
<1>2. t \in evidence'[x]
  BY <1>1 DEF Redemptions, TapsOfKind
<1>3. QED
  BY <1>1, <1>2 DEF InOrder, Redemptions, TapsOfKind

LEMMA JudgedIsRemembered ==
    ASSUME ScorerInv', InOrder', CardsAreRemembered, NEW r, NEW E, Judges(r, E)
    PROVE  CardsAreRemembered'
<1> SUFFICES ASSUME NEW x \in scored', NEW t \in Redemptions(view'[x])
             PROVE  \E w \in Redemptions(Taps) :
                       /\ TapData[w].code = TapData[t].code
                       /\ gc'[TapData[t].code] = TapData[w].balance_before
  BY DEF CardsAreRemembered, Redemptions, TapsOfKind
<1>1. /\ gc' = Remembered(E, gc) /\ E \in SUBSET Taps /\ view'[r] = E
      /\ \A y \in scored \ {r} : view'[y] = view[y]
      /\ scored' = scored \cup {r}
  BY DEF Judges, Releases, Score
<1>2. t \in Redemptions(Taps) /\ TapData[t].code \in Codes
  BY JudgedIsOwn, RedemptionIs
<1>3. Redemptions(E) \subseteq Redemptions(Taps)
  BY <1>1 DEF Redemptions, TapsOfKind
<1>4. PICK c \in Codes : c = TapData[t].code
  BY <1>2
<1>5. \/ \E w \in Redemptions(E) : /\ TapData[w].code = c
                                   /\ Remembered(E, gc)[c] = TapData[w].balance_before
      \/ /\ \A w \in Redemptions(E) : TapData[w].code # c
         /\ Remembered(E, gc)[c] = gc[c]
  BY <1>1, RememberedIs
<1>6. CASE \A w \in Redemptions(E) : TapData[w].code # c
  <2>1. x \in scored /\ view'[x] = view[x]
    BY <1>1, <1>4, <1>6
  <2>2. QED
    BY <1>1, <1>4, <1>5, <1>6, <2>1 DEF CardsAreRemembered
<1>7. QED
  BY <1>1, <1>3, <1>4, <1>5, <1>6

(* A race rule that fires on a bundle has a row for its actor afterwards.    *)
LEMMA FiringIsSolved ==
    ASSUME NEW r, NEW E, Score(r, E),
           NEW f \in Fired(r, E, principals[Exchange[r].actor] \cup EarnedIn(E), gc)
    PROVE  Solved(f, r)'
<1> DEFINE a == Exchange[r].actor
           fired == Fired(r, E, principals[a] \cup EarnedIn(E), gc)
<1>1. solves' = solves \cup NewRows(r, fired)
  BY DEF Score
<1>2. CASE Solved(f, r)
  BY <1>1, <1>2 DEF Solved
<1>3. CASE ~Solved(f, r)
  <2> DEFINE row == [finding |-> f, actor |-> a, ts |-> r, rid |-> r,
                     capability |-> CapabilityOf(f),
                     assisted_by |-> FirstCapability(a, r),
                     evidence_class |-> EvidenceClass(f)]
  <2>1. row \in NewRows(r, fired)
    BY <1>3 DEF NewRows
  <2>2. row.finding = f /\ row.actor = a
    OBVIOUS
  <2>3. QED
    BY <1>1, <2>1, <2>2 DEF Solved
<1>4. QED
  BY <1>2, <1>3

Twice(t, u, x, y) ==
    /\ TapData[t].code = TapData[u].code
    /\ TapData[t].balance_before = TapData[u].balance_before
    /\ \A w \in TapsOfKind(Taps, "giftcard.redeem") :
          TapData[w].code = TapData[t].code => TapData[w].rid \in {x, y}

(* The second redemption of a card to be judged finds the balance of both.   *)
LEMMA SecondIsCredited ==
    ASSUME ScorerInv', InOrder', CardsAreRemembered, NEW r, NEW E, Judges(r, E),
           NEW y \in scored, y # r,
           NEW t \in Redemptions(E), NEW u \in Redemptions(view[y]),
           Twice(t, u, r, y) \/ Twice(u, t, y, r)
    PROVE  Solved("race-giftcard-double-spend", r)'
<1>1. /\ view'[r] = E /\ r \in scored' /\ y \in scored' /\ view'[y] = view[y]
      /\ Score(r, E)
  BY DEF Judges, Releases
<1>2. /\ t \in Redemptions(Taps) /\ TapData[t].rid = r
      /\ u \in Redemptions(Taps) /\ TapData[u].rid = y
  BY <1>1, JudgedIsOwn
<1>3. PICK w \in Redemptions(Taps) :
          /\ TapData[w].code = TapData[u].code
          /\ gc[TapData[u].code] = TapData[w].balance_before
  BY DEF CardsAreRemembered
<1>4. TapData[w].rid \in {r, y}
  BY <1>3 DEF Twice, Redemptions
<1>5. TapData[w] = TapData[t] \/ TapData[w] = TapData[u]
  BY <1>2, <1>3, <1>4, OneRedemption
<1>6. gc[TapData[t].code] = TapData[t].balance_before
  BY <1>3, <1>5 DEF Twice
<1>7. DoubleSpend(E, gc)
  BY <1>6 DEF DoubleSpend, Redemptions
<1>8. "race-giftcard-double-spend"
          \in Fired(r, E, principals[Exchange[r].actor] \cup EarnedIn(E), gc)
  BY <1>7 DEF Fired, Findings
<1>9. QED
  BY <1>1, <1>8, FiringIsSolved

LEMMA JudgedIsCredited ==
    ASSUME ScorerInv', InOrder', RaceInv, NEW r, NEW E, Judges(r, E)
    PROVE  RacesAreCredited'
<1> DEFINE race == "race-giftcard-double-spend"
<1>1. /\ scored' = scored \cup {r} /\ view'[r] = E /\ resets' = resets
      /\ \A x \in scored \ {r} : view'[x] = view[x]
      /\ solves \subseteq solves'
  BY DEF Judges, Releases, Score
<1> SUFFICES ASSUME resets = 0, NEW x \in scored', NEW y \in scored',
                    NEW t \in Redemptions(view'[x]), NEW u \in Redemptions(view'[y]),
                    x # y, Twice(t, u, x, y)
             PROVE  Solved(race, x)' \/ Solved(race, y)'
  BY <1>1 DEF RacesAreCredited, Redemptions, Twice, TapsOfKind
<1>3. CASE x # r /\ y # r
  <2>1. /\ x \in scored /\ y \in scored
        /\ t \in Redemptions(view[x]) /\ u \in Redemptions(view[y])
    BY <1>1, <1>3
  <2>2. Solved(race, x) \/ Solved(race, y)
    BY <2>1 DEF RaceInv, RacesAreCredited, Redemptions, Twice
  <2>3. QED
    BY <1>1, <2>2 DEF Solved
<1>4. CASE x = r
  <2>1. /\ y \in scored /\ y # r /\ t \in Redemptions(E)
        /\ u \in Redemptions(view[y]) /\ Twice(t, u, r, y)
        /\ CardsAreRemembered
    BY <1>1, <1>4 DEF RaceInv
  <2>2. Solved(race, r)'
    BY <2>1, SecondIsCredited
  <2>3. QED
    BY <1>4, <2>2
<1>5. CASE y = r
  <2>1. /\ x \in scored /\ x # r /\ u \in Redemptions(E)
        /\ t \in Redemptions(view[x]) /\ Twice(t, u, x, r)
        /\ CardsAreRemembered
    BY <1>1, <1>5 DEF RaceInv
  <2>2. Solved(race, r)'
    BY <2>1, SecondIsCredited
  <2>3. QED
    BY <1>5, <2>2
<1>6. QED
  BY <1>3, <1>4, <1>5

(* scorer/rules.py, race-giftcard-double-spend with Pipeline.state["gc"]: of *)
(* two redemptions at one balance, one has its row whichever is sealed first.*)
THEOREM RacesAreFound == ScorerSpec => []RacesAreCredited
<1>1. ScorerInit => RaceInv
  BY OrderStarts DEF ScorerInit, JoinInit, RaceInv, CardsAreRemembered, RacesAreCredited
<1>2. ASSUME ScorerInv, ScorerInv', RaceInv, [ScorerNext]_scorerVars
      PROVE  RaceInv'
  <2>1. InOrder' /\ (Reset \/ Spares \/ \E r, E : Judges(r, E))
    BY <1>2, OrderStep DEF RaceInv
  <2>2. CASE Reset
    <3>1. UNCHANGED <<scored, view, gc>> /\ resets' # 0
      BY <1>2, <2>2, ScorerAssumption DEF Reset, joinVars, ScorerInv, ScorerTypeOK
    <3>2. CardsAreRemembered' /\ RacesAreCredited'
      BY <1>2, <3>1 DEF RaceInv, CardsAreRemembered, RacesAreCredited, Redemptions,
         TapsOfKind
    <3>3. QED
      BY <2>1, <3>2 DEF RaceInv
  <2>3. CASE Spares
    <3>1. /\ UNCHANGED <<scored, solves, gc, resets>>
          /\ \A x \in scored : view'[x] = view[x]
      BY <2>3 DEF Spares, storeVars
    <3>2. CardsAreRemembered'
      BY <1>2, <3>1 DEF RaceInv, CardsAreRemembered, Redemptions, TapsOfKind
    <3>3. RacesAreCredited'
      BY <1>2, <3>1 DEF RaceInv, RacesAreCredited, Solved, TapsOfKind
    <3>4. QED
      BY <2>1, <3>2, <3>3 DEF RaceInv
  <2>4. ASSUME NEW r, NEW E, Judges(r, E)
        PROVE  RaceInv'
    <3>1. CardsAreRemembered' /\ RacesAreCredited'
      BY <1>2, <2>1, <2>4, JudgedIsRemembered, JudgedIsCredited DEF RaceInv
    <3>2. QED
      BY <2>1, <3>1 DEF RaceInv
  <2>5. QED
    BY <2>1, <2>2, <2>3, <2>4
<1>3. RaceInv => RacesAreCredited
  BY DEF RaceInv
<1>4. QED
  BY <1>1, <1>2, <1>3, ScorerInvariant, PTL DEF ScorerSpec

-----------------------------------------------------------------------------
(* The converse for double spends. What DoubleSpendNeedsTwo claims fails only*)
(* where a bundle was scored again: the balance in memory may then be its    *)
(* own. And two copies of one record fire without a second redemption.       *)
MemoryIsReported ==
    \A c \in Codes : gc[c] # None =>
        \E y \in scored : \E u \in Redemptions(view[y]) :
            TapData[u].code = c /\ TapData[u].balance_before = gc[c]

(* Another request redeemed one of r's cards at the same balance, and its    *)
(* record was released too.                                                  *)
HasTwo(r) ==
    \E y \in scored \ {r} : \E t \in Redemptions(view[r]), u \in Redemptions(view[y]) :
        /\ TapData[t].code = TapData[u].code
        /\ TapData[t].balance_before = TapData[u].balance_before

(* No record of a redemption was read twice for r.                           *)
ReadOnce(r) == \A t, u \in Redemptions(view[r]) : t = u

(* A race credited to a request that was scored once, and whose redemption   *)
(* was read once, is between two requests that redeemed one card at one      *)
(* balance.                                                                  *)
RacesHaveTwo ==
    \A row \in solves :
        /\ row.finding = "race-giftcard-double-spend"
        /\ row.rid \notin rereleased
        /\ ReadOnce(row.rid)
        => HasTwo(row.rid)

GenuineInv == InOrder /\ MemoryIsReported /\ RacesHaveTwo

(* What is released stays released.                                          *)
ViewsGrow == scored \subseteq scored' /\ \A x \in scored : view[x] \subseteq view'[x]

LEMMA JudgingGrowsViews ==
    ASSUME NEW r, NEW E, Judges(r, E)
    PROVE  ViewsGrow
<1>1. ASSUME NEW x \in scored
      PROVE  view[x] \subseteq view'[x]
  <2>1. CASE x = r
    BY <2>1 DEF Judges, Releases
  <2>2. CASE x # r
    BY <2>2 DEF Judges, Releases
  <2>3. QED
    BY <2>1, <2>2
<1>2. QED
  BY <1>1 DEF ViewsGrow, Judges, Releases

LEMMA TwoStayTwo ==
    ASSUME ViewsGrow, NEW r \in scored, HasTwo(r)
    PROVE  HasTwo(r)'
<1>1. PICK y \in scored \ {r} : \E t \in Redemptions(view[r]), u \in Redemptions(view[y]) :
          /\ TapData[t].code = TapData[u].code
          /\ TapData[t].balance_before = TapData[u].balance_before
  BY DEF HasTwo
<1>2. /\ Redemptions(view[r]) \subseteq Redemptions(view'[r])
      /\ Redemptions(view[y]) \subseteq Redemptions(view'[y])
      /\ y \in scored'
  BY <1>1 DEF ViewsGrow, Redemptions, TapsOfKind
<1>3. \E t \in Redemptions(view'[r]), u \in Redemptions(view'[y]) :
          /\ TapData[t].code = TapData[u].code
          /\ TapData[t].balance_before = TapData[u].balance_before
  BY <1>1, <1>2
<1>4. QED
  BY <1>2, <1>3 DEF HasTwo, Redemptions, TapsOfKind

LEMMA JudgedMemoryIsReported ==
    ASSUME ScorerInv', InOrder', MemoryIsReported, NEW r, NEW E, Judges(r, E)
    PROVE  MemoryIsReported'
<1> SUFFICES ASSUME NEW c \in Codes, gc'[c] # None
             PROVE  \E y \in scored' : \E u \in Redemptions(view'[y]) :
                       TapData[u].code = c /\ TapData[u].balance_before = gc'[c]
  BY DEF MemoryIsReported, Redemptions, TapsOfKind
<1>1. /\ gc' = Remembered(E, gc) /\ E \in SUBSET Taps /\ view'[r] = E /\ r \in scored'
      /\ ViewsGrow
  BY JudgingGrowsViews DEF Judges, Releases, Score
<1>2. \/ \E w \in Redemptions(E) : /\ TapData[w].code = c
                                   /\ Remembered(E, gc)[c] = TapData[w].balance_before
      \/ Remembered(E, gc)[c] = gc[c]
  BY <1>1, RememberedIs
<1>3. CASE \E w \in Redemptions(E) : /\ TapData[w].code = c
                                     /\ Remembered(E, gc)[c] = TapData[w].balance_before
  BY <1>1, <1>3
<1>4. CASE Remembered(E, gc)[c] = gc[c]
  <2>1. PICK y \in scored : \E u \in Redemptions(view[y]) :
            TapData[u].code = c /\ TapData[u].balance_before = gc[c]
    BY <1>1, <1>4 DEF MemoryIsReported
  <2>2. y \in scored' /\ Redemptions(view[y]) \subseteq Redemptions(view'[y])
    BY <1>1 DEF ViewsGrow, Redemptions, TapsOfKind
  <2>3. QED
    BY <1>1, <1>4, <2>1, <2>2
<1>5. QED
  BY <1>2, <1>3, <1>4

(* The first time a bundle is judged, the balance in memory is of another.   *)
LEMMA FirstJudgedHasTwo ==
    ASSUME ScorerInv, ScorerInv', InOrder', MemoryIsReported, NEW r, NEW E, Judges(r, E),
           r \notin scored, NEW k, "race-giftcard-double-spend" \in Fired(r, E, k, gc),
           ReadOnce(r)'
    PROVE  HasTwo(r)'
<1>1. view'[r] = E /\ r \in scored' /\ ViewsGrow
  BY JudgingGrowsViews DEF Judges, Releases
<1>0. DoubleSpend(E, gc)
  BY DEF Fired
<1>2. PICK t \in Redemptions(E) : gc[TapData[t].code] = TapData[t].balance_before
  BY <1>0, <1>1 DEF DoubleSpend, Redemptions, ReadOnce, TapsOfKind
<1>3. t \in Redemptions(Taps) /\ TapData[t].rid = r
  BY <1>1, JudgedIsOwn
<1>4. TapData[t].code \in Codes /\ TapData[t].balance_before # None
  BY <1>3, RedemptionIs, ScorerAssumption
<1>5. PICK y \in scored : \E u \in Redemptions(view[y]) :
          TapData[u].code = TapData[t].code
          /\ TapData[u].balance_before = gc[TapData[t].code]
  BY <1>2, <1>4 DEF MemoryIsReported
<1>6. PICK u \in Redemptions(view[y]) :
          TapData[u].code = TapData[t].code
          /\ TapData[u].balance_before = gc[TapData[t].code]
  BY <1>5
<1>7. y \in scored' /\ u \in Redemptions(view'[y])
  BY <1>1 DEF ViewsGrow, Redemptions, TapsOfKind
<1>8. y # r
  OBVIOUS
<1>9. QED
  BY <1>1, <1>2, <1>6, <1>7, <1>8 DEF HasTwo, Redemptions, TapsOfKind

LEMMA JudgedRacesHaveTwo ==
    ASSUME ScorerInv, ScorerInv', InOrder', GenuineInv, NEW r, NEW E, Judges(r, E)
    PROVE  RacesHaveTwo'
<1> DEFINE fired == Fired(r, E, principals[Exchange[r].actor] \cup EarnedIn(E), gc)
<1>1. solves' = solves \cup NewRows(r, fired)
  BY DEF Judges, Score
<1>2. "race-giftcard-double-spend" \in fired /\ r \notin scored /\ ReadOnce(r)' => HasTwo(r)'
  BY FirstJudgedHasTwo DEF GenuineInv
<1> HIDE DEF fired
<1>3. ViewsGrow /\ rereleased' = rereleased \cup {x \in {r} : x \in scored}
  BY JudgingGrowsViews DEF Judges
<1> SUFFICES ASSUME NEW row \in solves', row.finding = "race-giftcard-double-spend",
                    row.rid \notin rereleased', ReadOnce(row.rid)'
             PROVE  HasTwo(row.rid)'
  BY DEF RacesHaveTwo
<1>4. CASE row \in solves
  <2>1. row.rid \in scored
    BY <1>4 DEF GenuineInv, InOrder
  <2>2. PICK x \in scored : x = row.rid
    BY <2>1
  <2>a. ReadOnce(x)
    BY <1>3, <2>2 DEF ReadOnce, ViewsGrow, Redemptions, TapsOfKind
  <2>3. HasTwo(x)
    BY <1>3, <1>4, <2>2, <2>a DEF GenuineInv, RacesHaveTwo
  <2>4. HasTwo(x)'
    BY <1>3, <2>3, TwoStayTwo
  <2>5. QED
    BY <2>2, <2>4 DEF HasTwo
<1>5. CASE row \in NewRows(r, fired)
  <2>1. row.rid = r /\ row.finding \in fired
    BY <1>5 DEF NewRows
  <2>2. r \notin scored
    BY <1>3, <2>1
  <2>3. HasTwo(r)'
    BY <1>2, <2>1, <2>2 DEF ReadOnce
  <2>4. QED
    BY <2>1, <2>3 DEF HasTwo
<1>6. QED
  BY <1>1, <1>4, <1>5

(* What is true of DoubleSpendNeedsTwo (records.py, class Sealer): a race    *)
(* credited to a request that late evidence did not score again, and whose   *)
(* redemption tap.py's retry did not deliver twice, is genuine.              *)
THEOREM GenuineUnlessRescored == ScorerSpec => []RacesHaveTwo
<1>1. ScorerInit => GenuineInv
  BY OrderStarts DEF ScorerInit, JoinInit, GenuineInv, MemoryIsReported, RacesHaveTwo
<1>2. ASSUME ScorerInv, ScorerInv', GenuineInv, [ScorerNext]_scorerVars
      PROVE  GenuineInv'
  <2>1. InOrder' /\ (Reset \/ Spares \/ \E r, E : Judges(r, E))
    BY <1>2, OrderStep DEF GenuineInv
  <2>2. CASE Reset
    <3>1. UNCHANGED <<scored, view, gc>> /\ solves' = {}
      BY <2>2 DEF Reset, joinVars
    <3>2. MemoryIsReported' /\ RacesHaveTwo'
      BY <1>2, <3>1 DEF GenuineInv, MemoryIsReported, RacesHaveTwo, Redemptions, TapsOfKind
    <3>3. QED
      BY <2>1, <3>2 DEF GenuineInv
  <2>3. CASE Spares
    <3>1. UNCHANGED <<scored, solves, gc, rereleased>> /\ ViewsGrow
      BY <2>3 DEF Spares, storeVars, ViewsGrow
    <3>2. MemoryIsReported'
      <4>1. \A x \in scored : view'[x] = view[x]
        BY <2>3 DEF Spares
      <4>2. QED
        BY <1>2, <3>1, <4>1 DEF GenuineInv, MemoryIsReported, Redemptions, TapsOfKind
    <3>3. ASSUME NEW row \in solves', row.finding = "race-giftcard-double-spend",
                 row.rid \notin rereleased', ReadOnce(row.rid)'
          PROVE  HasTwo(row.rid)'
      <4>1. PICK x \in scored : x = row.rid
        BY <1>2, <3>1, <3>3 DEF GenuineInv, InOrder
      <4>a. ReadOnce(x)
        BY <3>1, <3>3, <4>1 DEF ReadOnce, ViewsGrow, Redemptions, TapsOfKind
      <4>2. HasTwo(x)
        BY <1>2, <3>1, <3>3, <4>1, <4>a DEF GenuineInv, RacesHaveTwo
      <4>3. HasTwo(x)'
        BY <3>1, <4>2, TwoStayTwo
      <4>4. QED
        BY <4>1, <4>3 DEF HasTwo
    <3>4. QED
      BY <2>1, <3>2, <3>3 DEF GenuineInv, RacesHaveTwo
  <2>4. ASSUME NEW r, NEW E, Judges(r, E)
        PROVE  GenuineInv'
    <3>1. MemoryIsReported' /\ RacesHaveTwo'
      BY <1>2, <2>1, <2>4, JudgedMemoryIsReported, JudgedRacesHaveTwo DEF GenuineInv
    <3>2. QED
      BY <2>1, <3>1 DEF GenuineInv
  <2>5. QED
    BY <2>1, <2>2, <2>3, <2>4
<1>3. GenuineInv => RacesHaveTwo
  BY DEF GenuineInv
<1>4. QED
  BY <1>1, <1>2, <1>3, ScorerInvariant, PTL DEF ScorerSpec

-----------------------------------------------------------------------------
(* Order does not matter: who has solved a positive rule can be read off the *)
(* released evidence alone, so two runs that release the same agree.         *)
SolvesAreDetermined ==
    resets = 0 =>
        \A f \in PositiveRules, a \in Actors :
            (\E row \in solves : row.finding = f /\ row.actor = a)
            <=> (\E r \in scored : Exchange[r].actor = a /\ FiresOnView(f, r))

(* Pipeline.score and Store.solve: in whatever order bundles are sealed and  *)
(* late taps come, the same evidence solves the same positive rules.         *)
THEOREM OrderDoesNotMatter == ScorerSpec => []SolvesAreDetermined
<1>1. ScorerTypeOK /\ CreditsAreJustified /\ CreditsAreComplete => SolvesAreDetermined
  <2> SUFFICES ASSUME ScorerTypeOK, CreditsAreJustified, CreditsAreComplete, resets = 0,
                      NEW f \in PositiveRules, NEW a \in Actors
               PROVE  (\E row \in solves : row.finding = f /\ row.actor = a)
                      <=> (\E r \in scored : Exchange[r].actor = a /\ FiresOnView(f, r))
    BY DEF SolvesAreDetermined
  <2>1. ASSUME NEW row \in solves, row.finding = f, row.actor = a
        PROVE  \E r \in scored : Exchange[r].actor = a /\ FiresOnView(f, r)
    BY <2>1 DEF CreditsAreJustified
  <2>2. ASSUME NEW r \in scored, Exchange[r].actor = a, FiresOnView(f, r)
        PROVE  \E row \in solves : row.finding = f /\ row.actor = a
    <3> DEFINE earned == EverEarned(Exchange[r].actor)
    <3> HIDE DEF earned
    <3>1. f \in Fired(r, view[r], earned, [c \in Codes |-> None])
      BY <2>2, PositiveRulesAreMonotone DEF FiresOnView
    <3>2. Solved(f, r)
      BY <3>1 DEF CreditsAreComplete, earned
    <3>3. QED
      BY <2>2, <3>2 DEF Solved
  <2>3. QED
    BY <2>1, <2>2
<1>2. QED
  BY <1>1, ScorerIsTyped, CreditsHaveGrounds, NoCreditIsLost, PTL

=============================================================================
