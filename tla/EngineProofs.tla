---------------------------- MODULE EngineProofs ----------------------------
(* What the engine promises whatever the rules are: for any table whose      *)
(* clauses are sequences of tests, any exchanges and any taps, well formed or*)
(* not, in any order; and, for the evidence class, that the table of scorer/rules.py has the    *)
(* form that promise asks for.                                               *)
EXTENDS Rules, WellFoundedInduction, FiniteSetTheorems, SequenceTheorems, TLAPS

-----------------------------------------------------------------------------
(* The tests judged: a clause's after those that fail, a rule's up to the    *)
(* first clause that fails.                                                  *)
JudgedAt(rule, v, i, j) ==
    /\ i \in DOMAIN rule.clauses
    /\ j \in DOMAIN rule.clauses[i]
    /\ \A l \in 1..(i - 1) : Succeeds(rule.clauses[l], v)
    /\ \A l \in 1..(j - 1) : ~Holds(rule.clauses[i][l], v)

LEMMA JudgedIs ==
    ASSUME NEW rule, NEW v, NEW t
    PROVE  t \in Judged(rule, v) <=>
              \E i \in DOMAIN rule.clauses : \E j \in DOMAIN rule.clauses[i] :
                 JudgedAt(rule, v, i, j) /\ t = rule.clauses[i][j]
<1> DEFINE reached == {k \in DOMAIN rule.clauses :
                          \A l \in 1..(k - 1) : Succeeds(rule.clauses[l], v)}
           TestsAt(i) == {rule.clauses[i][j] : j \in {k \in DOMAIN rule.clauses[i] :
                          \A l \in 1..(k - 1) : ~Holds(rule.clauses[i][l], v)}}
<1>1. Judged(rule, v) = UNION {TestsAt(i) : i \in reached}
  BY DEF Judged
<1>2. t \in Judged(rule, v) <=> \E i \in reached : t \in TestsAt(i)
  BY <1>1
<1>3. QED
  BY <1>2 DEF JudgedAt

(* A clause is settled by its first test that holds.                         *)
LEMMA SettledBy ==
    ASSUME NEW rule \in RULES, NEW v, NEW i \in DOMAIN rule.clauses,
           \A l \in DOMAIN rule.clauses : Succeeds(rule.clauses[l], v)
    PROVE  \E j \in DOMAIN rule.clauses[i] :
              Holds(rule.clauses[i][j], v) /\ JudgedAt(rule, v, i, j)
<1> DEFINE holding == {j \in DOMAIN rule.clauses[i] : Holds(rule.clauses[i][j], v)}
           less == OpToRel(<, Nat)
<1>1. /\ DOMAIN rule.clauses = 1..Len(rule.clauses) /\ Len(rule.clauses) \in Nat
      /\ DOMAIN rule.clauses[i] = 1..Len(rule.clauses[i]) /\ Len(rule.clauses[i]) \in Nat
  BY RulesAssumption
<1>2. holding # {} /\ holding \subseteq Nat
  BY <1>1 DEF Succeeds
<1>3. PICK j \in holding : \A l \in holding : <<l, j>> \notin less
  BY <1>2, NatLessThanWellFounded, WFMin
<1>4. \A l \in holding : ~(l < j)
  BY <1>2, <1>3 DEF OpToRel
<1>5. \A l \in 1..(j - 1) : l \in DOMAIN rule.clauses[i] /\ l \notin holding
  <2>1. j \in 1..Len(rule.clauses[i])
    BY <1>1
  <2> HIDE DEF holding
  <2>2. QED
    BY <1>1, <1>4, <2>1
<1>6. \A l \in 1..(i - 1) : l \in DOMAIN rule.clauses
  BY <1>1
<1>7. QED
  BY <1>5, <1>6 DEF JudgedAt

-----------------------------------------------------------------------------
(* Rules that read no tap.                                                   *)

LEMMA TapIsTouched ==
    ASSUME NEW rule, NEW v, NEW t \in Judged(rule, v), t.on = "tap"
    PROVE  "tap" \in Touched(rule, v)
  BY DEF Touched, Reads

LEMMA FiresWithoutEvents ==
    ASSUME NEW rule \in RULES, NEW v, NEW w,
           w.page = v.page, w.earned = v.earned, w.stored = v.stored,
           w.probes = v.probes, w.events = <<>>,
           Fires(rule, v), "tap" \notin Touched(rule, v)
    PROVE  Fires(rule, w)
<1>1. ASSUME NEW i \in DOMAIN rule.clauses
      PROVE  Succeeds(rule.clauses[i], w)
  <2>1. PICK j \in DOMAIN rule.clauses[i] :
            Holds(rule.clauses[i][j], v) /\ JudgedAt(rule, v, i, j)
    BY SettledBy DEF Fires
  <2>2. rule.clauses[i][j].on # "tap"
    BY <2>1, JudgedIs, TapIsTouched
  <2>3. Holds(rule.clauses[i][j], w)
    BY <2>1, <2>2 DEF Holds
  <2>4. QED
    BY <2>3 DEF Succeeds
<1>2. ASSUME NEW t
      PROVE  ~Raises(t, w)
  BY DEF Raises, AnyEventTrips, EvRaises
<1>3. QED
  BY <1>1, <1>2 DEF Fires

LEMMA UntouchedByTaps ==
    ASSUME NEW rule \in RULES, NEW v,
           EvidenceClass(Touched(rule, v) \ {}) = "proxy-observed"
    PROVE  "tap" \notin Touched(rule, v)
<1>1. Touched(rule, v) \subseteq TRUSTED
  BY DEF EvidenceClass
<1>2. QED
  BY <1>1 DEF TRUSTED

LEMMA ScoreNeedsNoTap ==
    ASSUME NEW r \in Rids, NEW E, Score(r, E),
           NEW row \in rows' \ rows, row.class = "proxy-observed"
    PROVE  row.rid = r /\ \E rule \in Fired(View(r, <<>>, earned', stored', probes')) :
                             rule.id = row.finding
<1> DEFINE v == View(r, E, earned', stored', probes')
           w == View(r, <<>>, earned', stored', probes')
<1>1. PICK x \in Evaluate(v, {}) : row = [finding |-> x.finding, class |-> x.class, rid |-> r]
  BY DEF Score
<1>2. PICK rule \in Fired(v) :
          x = [finding |-> rule.id, class |-> EvidenceClass(Touched(rule, v) \ {})]
  BY DEF Evaluate
<1>3. row.rid = r /\ row.finding = rule.id
      /\ EvidenceClass(Touched(rule, v) \ {}) = "proxy-observed"
  BY <1>1, <1>2
<1>4. rule \in RULES /\ Fires(rule, v)
  BY DEF Fired
<1>5. /\ w.page = v.page /\ w.earned = v.earned /\ w.stored = v.stored
      /\ w.probes = v.probes /\ w.events = <<>>
  BY DEF View
<1> HIDE DEF v, w
<1>6. "tap" \notin Touched(rule, v)
  BY <1>3, <1>4, UntouchedByTaps
<1>7. Fires(rule, w)
  BY <1>4, <1>5, <1>6, FiresWithoutEvents
<1>8. QED
  BY <1>3, <1>4, <1>7 DEF Fired, w

(* engine.evidence_class: whatever the rules are, a finding recorded as      *)
(* proxy-observed would have been found without a tap of its request.        *)
THEOREM ProxyObservedIsTapFree == EngineSpec => ProxyObservedNeedsNoTap
<1> DEFINE Found(row) == \E rule \in Fired(View(row.rid, <<>>, earned', stored', probes')) :
                            rule.id = row.finding
<1>1. ASSUME [EngineNext]_engineVars, NEW row \in rows' \ rows,
             row.class = "proxy-observed"
      PROVE  Found(row)
  <2>1. CASE \E r \in Rids : Seal(r)
    BY <1>1, <2>1, ScoreNeedsNoTap DEF Seal
  <2>2. CASE \E r \in Rids : \E e \in offered[r] : Read(r, e)
    <3>1. \E r \in Rids : \E e : Read(r, e)
      BY <2>2
    <3>2. PICK r \in Rids : \E e : Read(r, e)
      BY <3>1
    <3>3. Score(r, events'[r])
      BY <1>1, <3>2 DEF Read, judged
    <3>4. QED
      BY <1>1, <3>3, ScoreNeedsNoTap
  <2>3. CASE UNCHANGED engineVars
    BY <1>1, <2>3 DEF engineVars, judged
  <2>4. QED
    BY <1>1, <2>1, <2>2, <2>3 DEF EngineNext
<1>2. [EngineNext]_engineVars =>
          \A row \in rows' \ rows : row.class = "proxy-observed" => Found(row)
  BY <1>1
<1>3. QED
  BY <1>2, PTL DEF EngineSpec, ProxyObservedNeedsNoTap

-----------------------------------------------------------------------------
(* Types. The probes are counted, so they are finitely many.                 *)
EventsOf(c) == UNION {c.offered[r] : r \in Rids}

CaseInv(c) ==
    /\ pages = c.pages
    /\ offered \in [Rids -> SUBSET EventsOf(c)]
    /\ events \in [Rids -> Seq(EventsOf(c))]

RowsInv ==
    /\ rows \subseteq [finding : {rule.id : rule \in RULES},
                 class : {"proxy-observed", "app-reported"}, rid : sealed]
    /\ \A x, y \in rows : x.finding = y.finding => x = y

EngineInv ==
    /\ \E c \in Cases : CaseInv(c)
    /\ sealed \subseteq Rids
    /\ earned \subseteq Principals
    /\ stored \subseteq Payloads
    /\ IsFiniteSet(probes)
    /\ RowsInv

LEMMA EvaluateType ==
    ASSUME NEW v, NEW x \in Evaluate(v, {})
    PROVE  \E rule \in RULES :
              /\ x = [finding |-> rule.id, class |-> EvidenceClass(Touched(rule, v) \ {})]
              /\ x.class \in {"proxy-observed", "app-reported"}
<1>1. PICK rule \in RULES :
          x = [finding |-> rule.id, class |-> EvidenceClass(Touched(rule, v) \ {})]
  BY DEF Evaluate, Fired
<1>2. 1 \in DOMAIN rule.clauses /\ 1 \in DOMAIN rule.clauses[1]
  <2>1. 1 \in DOMAIN rule.clauses
    BY RulesAssumption
  <2>2. QED
    BY <2>1, RulesAssumption
<1>3. JudgedAt(rule, v, 1, 1)
  BY <1>2 DEF JudgedAt
<1>4. rule.clauses[1][1] \in Judged(rule, v)
  BY <1>2, <1>3, JudgedIs
<1>5. Reads(rule.clauses[1][1]) # {}
  BY DEF Reads
<1>6. Touched(rule, v) # {}
  BY <1>4, <1>5 DEF Touched
<1>7. QED
  BY <1>1, <1>6 DEF EvidenceClass

LEMMA ScoreKeepsRows ==
    ASSUME EngineInv, NEW r \in sealed', sealed \subseteq sealed', NEW E, Score(r, E)
    PROVE  RowsInv'
<1> DEFINE v == View(r, E, earned', stored', probes')
           fresh == {y \in Evaluate(v, {}) : \A row \in rows : row.finding # y.finding}
           added == {[finding |-> x.finding, class |-> x.class, rid |-> r] : x \in fresh}
<1>1. rows' = rows \/ rows' = rows \cup added
  <2>1. CASE Broken(E)
    BY <2>1 DEF Score
  <2>2. CASE ~Broken(E)
    BY <2>2 DEF Score
  <2>3. QED
    BY <2>1, <2>2
<1> HIDE DEF v
<1>2. ASSUME NEW row \in added
      PROVE  /\ row \in [finding : {rule.id : rule \in RULES},
                          class : {"proxy-observed", "app-reported"}, rid : sealed']
             /\ \E rule \in RULES :
                   row = [finding |-> rule.id,
                          class |-> EvidenceClass(Touched(rule, v) \ {}), rid |-> r]
             /\ \A old \in rows : old.finding # row.finding
  BY <1>2, EvaluateType
<1>3. ASSUME NEW x \in added, NEW y \in added, x.finding = y.finding
      PROVE  x = y
  <2>1. PICK f \in RULES : x = [finding |-> f.id,
                          class |-> EvidenceClass(Touched(f, v) \ {}), rid |-> r]
    BY <1>2
  <2>2. PICK g \in RULES : y = [finding |-> g.id,
                          class |-> EvidenceClass(Touched(g, v) \ {}), rid |-> r]
    BY <1>2
  <2>3. f = g
    BY <1>3, <2>1, <2>2, RulesAssumption
  <2>4. QED
    BY <2>1, <2>2, <2>3
<1> HIDE DEF added
<1>4. rows' \subseteq [finding : {rule.id : rule \in RULES},
                 class : {"proxy-observed", "app-reported"}, rid : sealed']
  BY <1>1, <1>2 DEF EngineInv, RowsInv
<1>5. \A x, y \in rows' : x.finding = y.finding => x = y
  BY <1>1, <1>2, <1>3 DEF EngineInv, RowsInv
<1>6. QED
  BY <1>4, <1>5 DEF RowsInv

LEMMA ScoreKeepsMemory ==
    ASSUME EngineInv, NEW c \in Cases, CaseInv(c), NEW r \in Rids,
           NEW E \in Seq(EventsOf(c)), Score(r, E)
    PROVE  /\ earned' \subseteq Principals
           /\ stored' \subseteq Payloads /\ stored \subseteq stored'
           /\ IsFiniteSet(probes') /\ probes \subseteq probes'
<1>1. stored' \subseteq Payloads /\ stored \subseteq stored'
  BY CasesAssumption DEF EngineInv, CaseInv, Score
<1>2. IsFiniteSet(probes') /\ probes \subseteq probes'
  <2>1. IsFiniteSet(pages[r].probe)
    BY CasesAssumption DEF CaseInv
  <2>2. probes' = probes \/ probes' = probes \cup pages[r].probe
    BY DEF Score
  <2>3. QED
    BY <2>1, <2>2, FS_Union DEF EngineInv
<1>3. \A i \in DOMAIN E : E[i] \in EventsOf(c)
  OBVIOUS
<1>4. \A e \in EventsOf(c) : e.principal \in Principals \cup {None}
  BY CasesAssumption DEF EventsOf
<1>5. LoginsIn(E) \subseteq Principals
  BY <1>3, <1>4 DEF LoginsIn, LoginsInAny
<1>6. QED
  BY <1>1, <1>2, <1>5 DEF EngineInv, Score

LEMMA EngineInvStep == EngineInv /\ [EngineNext]_engineVars => EngineInv'
<1> SUFFICES ASSUME EngineInv, [EngineNext]_engineVars
             PROVE  EngineInv'
  OBVIOUS
<1>1. PICK c \in Cases : CaseInv(c)
  BY DEF EngineInv
<1>2. ASSUME NEW r \in Rids, Seal(r)
      PROVE  EngineInv'
  <2>1. sealed' \subseteq Rids /\ sealed \subseteq sealed' /\ r \in sealed'
        /\ Score(r, events[r]) /\ CaseInv(c)'
    BY <1>1, <1>2 DEF Seal, EngineInv, CaseInv
  <2>2. events[r] \in Seq(EventsOf(c))
    BY <1>1 DEF CaseInv
  <2>3. RowsInv'
    BY <2>1, ScoreKeepsRows
  <2>4. QED
    BY <1>1, <2>1, <2>2, <2>3, ScoreKeepsMemory DEF EngineInv
<1>3. ASSUME NEW r \in Rids, NEW e \in offered[r], Read(r, e)
      PROVE  EngineInv'
  <2>1. /\ CaseInv(c)' /\ sealed' = sealed
        /\ events'[r] \in Seq(EventsOf(c))
    <3>1. e \in EventsOf(c) /\ events[r] \in Seq(EventsOf(c))
      BY <1>1 DEF CaseInv
    <3>2. Append(events[r], e) \in Seq(EventsOf(c))
      BY <3>1
    <3>3. QED
      BY <1>1, <1>3, <3>2 DEF Read, CaseInv
  <2>2. CASE r \in sealed
    <3>1. Score(r, events'[r])
      BY <1>3, <2>2 DEF Read
    <3>2. RowsInv'
      BY <2>1, <2>2, <3>1, ScoreKeepsRows
    <3>3. QED
      BY <1>1, <2>1, <3>1, <3>2, ScoreKeepsMemory DEF EngineInv
  <2>3. CASE r \notin sealed
    BY <1>1, <1>3, <2>1, <2>3 DEF Read, judged, EngineInv, RowsInv
  <2>4. QED
    BY <2>2, <2>3
<1>4. CASE UNCHANGED engineVars
  BY <1>4 DEF engineVars, judged, EngineInv, CaseInv, RowsInv
<1>5. QED
  BY <1>2, <1>3, <1>4 DEF EngineNext

LEMMA EngineInvariant == EngineSpec => []EngineInv
<1>1. EngineInit => EngineInv
  <2> SUFFICES ASSUME EngineInit
               PROVE  EngineInv
    OBVIOUS
  <2>1. PICK c \in Cases : pages = c.pages /\ offered = c.offered
    BY DEF EngineInit
  <2>2. CaseInv(c)
    <3>1. offered \in [Rids -> SUBSET EventsOf(c)]
      <4>1. c.offered = [r \in Rids |-> c.offered[r]]
        BY CasesAssumption
      <4>2. \A r \in Rids : c.offered[r] \subseteq EventsOf(c)
        BY DEF EventsOf
      <4>3. QED
        BY <2>1, <4>1, <4>2
    <3>2. QED
      BY <2>1, <3>1 DEF EngineInit, CaseInv
  <2>3. QED
    BY <2>2, FS_EmptySet DEF EngineInit, EngineInv, RowsInv
<1>2. QED
  BY <1>1, EngineInvStep, PTL DEF EngineSpec

(* The engine's variables keep their types, a finding has one row at most,   *)
(* and the row names a bundle that was scored, whatever the rules are.       *)
THEOREM EngineIsTyped == EngineSpec => []EngineTypeOK
<1>1. EngineInv => EngineTypeOK
  <2> SUFFICES ASSUME EngineInv
               PROVE  EngineTypeOK
    OBVIOUS
  <2>1. PICK c \in Cases : CaseInv(c)
    BY DEF EngineInv
  <2>2. pages \in Pages
    BY <2>1 DEF CaseInv, Pages
  <2>3. EventsOf(c) \subseteq Taps
    BY DEF EventsOf, Taps
  <2>4. offered \in [Rids -> SUBSET Taps]
    BY <2>1, <2>3 DEF CaseInv
  <2>5. events \in [Rids -> Seq(Taps)]
    <3>1. \A r \in Rids : events[r] \in Seq(EventsOf(c)) /\ Seq(EventsOf(c)) \subseteq Seq(Taps)
      BY <2>1, <2>3 DEF CaseInv
    <3>2. QED
      BY <2>1, <3>1 DEF CaseInv
  <2>6. QED
    BY <2>2, <2>4, <2>5 DEF EngineInv, EngineTypeOK, RowsInv
<1>2. QED
  BY <1>1, EngineInvariant, PTL

-----------------------------------------------------------------------------
(* More evidence. w is v with events after v's, and with more kept.          *)
Extends(w, v) ==
    /\ w.page = v.page /\ w.earned = v.earned
    /\ v.stored \subseteq w.stored
    /\ v.probes \subseteq w.probes /\ IsFiniteSet(w.probes)
    /\ Len(v.events) \in Nat /\ DOMAIN v.events = 1..Len(v.events)
    /\ Len(w.events) \in Nat /\ DOMAIN w.events = 1..Len(w.events)
    /\ Len(v.events) <= Len(w.events)
    /\ \A i \in DOMAIN v.events : w.events[i] = v.events[i]

(* None of the events that came later spoils the rule.                       *)
Spares(w, v, rule) ==
    \A n \in DOMAIN w.events : n \notin DOMAIN v.events => ~Spoils(w.events[n], rule)

LEMMA EvRaisesNoMore ==
    ASSUME NEW rule, NEW v, NEW w, Extends(w, v), Spares(w, v, rule),
           NEW i \in DOMAIN rule.clauses, NEW j \in DOMAIN rule.clauses[i],
           rule.clauses[i][j].on = "tap", EvRaises(w.events, rule.clauses[i][j])
    PROVE  EvRaises(v.events, rule.clauses[i][j])
<1> DEFINE t == rule.clauses[i][j]
<1>1. PICK n \in DOMAIN w.events : w.events[n].kind = t.kind /\ w.events[n].shape = "missing"
  BY DEF EvRaises
<1>2. Spoils(w.events[n], rule)
  BY <1>1 DEF Spoils
<1>3. n \in DOMAIN v.events
  BY <1>2 DEF Spares
<1>4. QED
  BY <1>1, <1>3 DEF EvRaises, Extends

LEMMA HoldsStays ==
    ASSUME NEW rule, NEW v, NEW w, Extends(w, v), Spares(w, v, rule),
           NEW i \in DOMAIN rule.clauses, NEW j \in DOMAIN rule.clauses[i],
           Holds(rule.clauses[i][j], v)
    PROVE  Holds(rule.clauses[i][j], w)
<1> DEFINE t == rule.clauses[i][j]
<1>1. CASE t.on = "tap" /\ AnyEvent(v.events, t, v.earned)
  <2>1. PICK n \in DOMAIN v.events :
            /\ Matches(v.events[n], t, v.earned)
            /\ \A m \in 1..(n - 1) : ~Trips(v.events[m], t, v.earned)
    BY <1>1 DEF AnyEvent
  <2>2. n \in DOMAIN w.events /\ w.events[n] = v.events[n]
        /\ \A m \in 1..(n - 1) : w.events[m] = v.events[m]
    BY <2>1 DEF Extends
  <2>3. ~EvRaises(w.events, t)
    BY <1>1, EvRaisesNoMore DEF AnyEvent
  <2>4. AnyEvent(w.events, t, w.earned)
    BY <2>1, <2>2, <2>3 DEF AnyEvent, Extends
  <2>5. QED
    BY <1>1, <2>4 DEF Holds
<1> HIDE DEF t
<1>2. Holds(t, v)
  BY DEF t
<1>3. CASE t.on = "probes" /\ Cardinality(v.probes) > MaxProbes
  <2>1. /\ Cardinality(v.probes) <= Cardinality(w.probes)
        /\ Cardinality(v.probes) \in Nat /\ Cardinality(w.probes) \in Nat
    BY FS_Subset, FS_CardinalityType DEF Extends
  <2>2. Holds(t, w)
    BY <1>3, <2>1, CasesAssumption DEF Holds
  <2>3. QED
    BY <2>2 DEF t
<1>4. CASE t.on = "stored" /\ \E p \in v.stored \cap v.page.shown : t.class \in ClassesOf[p]
  <2>1. Holds(t, w)
    BY <1>4 DEF Holds, Extends
  <2>2. QED
    BY <2>1 DEF t
<1>5. CASE \/ t.on = "page" /\ t.fact \in v.page.facts
           \/ t.on = "leak" /\ Leaked(v.page, t.kind, v.earned) # {}
           \/ t.on = "sent" /\ t.kind \in v.page.sent
           \/ t.on = "headers"
  <2>1. Holds(t, w)
    BY <1>5 DEF Holds, Extends
  <2>2. QED
    BY <2>1 DEF t
<1>6. QED
  BY <1>1, <1>2, <1>3, <1>4, <1>5 DEF Holds

(* A later event that does not spoil the rule raises nothing that matters: it*)
(* can only trip the last test of a clause, which an earlier event settled.  *)
LEMMA RaisesNoMore ==
    ASSUME NEW rule \in RULES, NEW v, NEW w, Extends(w, v), Spares(w, v, rule),
           Fires(rule, v), NEW t \in Judged(rule, w)
    PROVE  ~Raises(t, w)
<1> SUFFICES ASSUME Raises(t, w)
             PROVE  FALSE
  OBVIOUS
<1>1. PICK i \in DOMAIN rule.clauses : \E j \in DOMAIN rule.clauses[i] :
          JudgedAt(rule, w, i, j) /\ t = rule.clauses[i][j]
  BY JudgedIs
<1>2. PICK j \in DOMAIN rule.clauses[i] : JudgedAt(rule, w, i, j) /\ t = rule.clauses[i][j]
  BY <1>1
<1>3. \A l \in 1..(j - 1) : l \in DOMAIN rule.clauses[i] /\ ~Holds(rule.clauses[i][l], v)
  <2>1. \A l \in 1..(j - 1) : l \in DOMAIN rule.clauses[i]
    BY <1>2, RulesAssumption
  <2>2. QED
    BY <1>2, <2>1, HoldsStays DEF JudgedAt
<1>4. \A l \in 1..(i - 1) : Succeeds(rule.clauses[l], v)
  BY RulesAssumption DEF Fires
<1>5. t \in Judged(rule, v)
  BY <1>2, <1>3, <1>4, JudgedIs DEF JudgedAt
<1>6. ~Raises(t, v)
  BY <1>5 DEF Fires
<1>7. t.on = "tap"
  BY DEF Raises
<1>8. ~EvRaises(w.events, t)
  BY <1>2, <1>6, <1>7, EvRaisesNoMore DEF Raises, AnyEventTrips
<1>9. PICK n \in DOMAIN w.events :
          /\ Trips(w.events[n], t, w.earned)
          /\ \A m \in 1..(n - 1) : ~Matches(w.events[m], t, w.earned)
  BY <1>8 DEF Raises, AnyEventTrips
<1>10. CASE n \in DOMAIN v.events
  <2>1. w.events[n] = v.events[n] /\ \A m \in 1..(n - 1) : w.events[m] = v.events[m]
    <3>1. \A m \in 1..(n - 1) : m \in DOMAIN v.events
      BY <1>10 DEF Extends
    <3>2. QED
      BY <1>10, <3>1 DEF Extends
  <2>2. AnyEventTrips(v.events, t, v.earned)
    BY <1>9, <1>10, <2>1 DEF AnyEventTrips, Extends
  <2>3. QED
    BY <1>6, <1>7, <2>2 DEF Raises
<1>11. CASE n \notin DOMAIN v.events
  <2>1. j = Len(rule.clauses[i])
    <3>1. ~Spoils(w.events[n], rule)
      BY <1>11 DEF Spares
    <3>2. w.events[n].kind = t.kind
          /\ (w.events[n].shape = "other" \/ \E k \in DOMAIN t.facts : t.facts[k] \in w.events[n].odd)
      BY <1>9 DEF Trips
    <3>3. QED
      BY <1>2, <1>7, <3>1, <3>2 DEF Spoils
  <2>2. Holds(t, v)
    <3>1. PICK l \in DOMAIN rule.clauses[i] : Holds(rule.clauses[i][l], v)
      BY DEF Fires, Succeeds
    <3>2. l \in 1..Len(rule.clauses[i]) /\ Len(rule.clauses[i]) \in Nat
      BY RulesAssumption
    <3>3. l = j
      BY <1>3, <2>1, <3>1, <3>2
    <3>4. QED
      BY <1>2, <3>1, <3>3
  <2>3. PICK m \in DOMAIN v.events : Matches(v.events[m], t, v.earned)
    BY <1>7, <2>2 DEF Holds, AnyEvent
  <2>4. m \in 1..(n - 1) /\ w.events[m] = v.events[m]
    BY <1>11 DEF Extends
  <2>5. QED
    BY <1>9, <2>3, <2>4 DEF Extends
<1>12. QED
  BY <1>10, <1>11

LEMMA FiresStays ==
    ASSUME NEW rule \in RULES, NEW v, NEW w, Extends(w, v), Spares(w, v, rule),
           Fires(rule, v)
    PROVE  Fires(rule, w)
<1>1. ASSUME NEW i \in DOMAIN rule.clauses
      PROVE  Succeeds(rule.clauses[i], w)
  <2>1. PICK j \in DOMAIN rule.clauses[i] : Holds(rule.clauses[i][j], v)
    BY DEF Fires, Succeeds
  <2>2. Holds(rule.clauses[i][j], w)
    BY <2>1, HoldsStays
  <2>3. QED
    BY <2>2 DEF Succeeds
<1>2. QED
  BY <1>1, RaisesNoMore DEF Fires

LEMMA ViewsExtend ==
    ASSUME EngineInv, [EngineNext]_engineVars, earned' = earned, NEW r \in Rids
    PROVE  /\ Extends(ViewOf(r)', ViewOf(r))
           /\ ViewOf(r).events = events[r] /\ ViewOf(r)'.events = events'[r]
           /\ \/ events'[r] = events[r]
              \/ \E e : events'[r] = Append(events[r], e)
           /\ Len(events[r]) \in Nat /\ DOMAIN events[r] = 1..Len(events[r])
<1>1. PICK c \in Cases : CaseInv(c)
  BY DEF EngineInv
<1>2. EngineInv'
  BY EngineInvStep
<1>4. pages' = pages
  BY DEF EngineNext, Seal, Read, engineVars
<1>5. stored \subseteq stored' /\ probes \subseteq probes' /\ IsFiniteSet(probes')
  <2>1. ASSUME NEW x \in Rids, NEW E, Score(x, E)
        PROVE  stored \subseteq stored' /\ probes \subseteq probes'
    BY <2>1 DEF Score
  <2>2. stored \subseteq stored' /\ probes \subseteq probes'
    BY <2>1 DEF EngineNext, Seal, Read, engineVars, judged
  <2>3. QED
    BY <1>2, <2>2 DEF EngineInv
<1>6. events[r] \in Seq(EventsOf(c))
  BY <1>1 DEF CaseInv
<1>7. events'[r] = events[r] \/ \E e \in EventsOf(c) : events'[r] = Append(events[r], e)
  <2>1. ASSUME NEW x \in Rids, NEW e \in offered[x], Read(x, e)
        PROVE  events'[r] = events[r] \/ events'[r] = Append(events[r], e)
    BY <1>1, <2>1 DEF Read, CaseInv
  <2>2. \A x \in Rids : offered[x] \subseteq EventsOf(c)
    BY <1>1 DEF CaseInv
  <2>3. CASE \E x \in Rids : \E e \in offered[x] : Read(x, e)
    BY <2>1, <2>2, <2>3
  <2>4. CASE events' = events
    BY <2>4
  <2>5. QED
    BY <2>3, <2>4 DEF EngineNext, Seal, engineVars
<1>8. /\ events'[r] \in Seq(EventsOf(c))
      /\ Len(events[r]) <= Len(events'[r])
      /\ \A i \in DOMAIN events[r] : events'[r][i] = events[r][i]
  <2> DEFINE old == events[r]
             new == events'[r]
  <2>1. old \in Seq(EventsOf(c))
        /\ (new = old \/ \E e \in EventsOf(c) : new = Append(old, e))
    BY <1>6, <1>7
  <2> HIDE DEF old, new
  <2>2. new \in Seq(EventsOf(c)) /\ Len(old) <= Len(new)
        /\ \A i \in DOMAIN old : new[i] = old[i]
    BY <2>1
  <2>3. QED
    BY <2>2 DEF old, new
<1> DEFINE v == ViewOf(r)
           w == View(r, events'[r], earned', stored', probes')
<1>10. /\ v.events = events[r] /\ w.events = events'[r] /\ w.page = v.page
       /\ w.earned = v.earned /\ v.stored = stored /\ w.stored = stored'
       /\ v.probes = probes /\ w.probes = probes'
  BY DEF ViewOf, View
<1>11. ViewOf(r)' = w
  BY <1>4 DEF ViewOf, View
<1>12. Len(events[r]) \in Nat /\ DOMAIN events[r] = 1..Len(events[r])
       /\ Len(events'[r]) \in Nat /\ DOMAIN events'[r] = 1..Len(events'[r])
  BY <1>6, <1>8, LenProperties
<1> HIDE DEF v, w
<1>13. Extends(w, v)
  BY <1>5, <1>8, <1>10, <1>12 DEF Extends
<1>14. Extends(ViewOf(r)', ViewOf(r))
  BY <1>11, <1>13 DEF v
<1>15. ViewOf(r).events = events[r] /\ ViewOf(r)'.events = events'[r]
  BY <1>10, <1>11 DEF v
<1>16. QED
  BY <1>7, <1>12, <1>14, <1>15

(* The last event of a bundle is the only one that is new.                   *)
LEMMA LastIsNew ==
    ASSUME NEW old, NEW e, NEW new, new = Append(old, e),
           Len(old) \in Nat, DOMAIN old = 1..Len(old)
    PROVE  /\ Len(new) = Len(old) + 1
           /\ new[Len(new)] = e
           /\ \A n \in DOMAIN new : n \in DOMAIN old \/ n = Len(new)
           /\ \A n \in DOMAIN old : new[n] = old[n]
  OBVIOUS

LEMMA OnlySpoiltRulesStop ==
    ASSUME NEW rule \in RULES, NEW v, NEW w, Extends(w, v),
           Fires(rule, v), ~Broken(v.events),
           ~Fires(rule, w) \/ Broken(w.events),
           NEW e, w.events = v.events \/ w.events = Append(v.events, e)
    PROVE  w.events # v.events /\ Spoils(w.events[Len(w.events)], rule)
<1>1. CASE w.events = v.events
  <2>1. Spares(w, v, rule)
    BY <1>1 DEF Spares
  <2>2. QED
    BY <1>1, <2>1, FiresStays
<1>2. CASE w.events = Append(v.events, e)
  <2>1. /\ w.events # v.events
        /\ \A n \in DOMAIN w.events : n \in DOMAIN v.events \/ n = Len(w.events)
        /\ \A n \in DOMAIN v.events : w.events[n] = v.events[n]
    BY <1>2, LastIsNew DEF Extends
  <2>2. SUFFICES ASSUME ~Spoils(w.events[Len(w.events)], rule)
                 PROVE  FALSE
    BY <2>1
  <2>3. Spares(w, v, rule)
    BY <2>1, <2>2 DEF Spares
  <2>4. ~Breaks(w.events[Len(w.events)])
    BY <2>2 DEF Spoils
  <2>5. ~Broken(w.events)
    BY <2>1, <2>4 DEF Broken
  <2>6. QED
    BY <2>3, <2>5, FiresStays
<1>3. QED
  BY <1>1, <1>2

(* Record.any, engine.evaluate and Pipeline.score: whatever the rules are, a *)
(* tap that is read later and proves no login takes back only the verdicts it*)
(* spoils, which no well-formed tap does.                                    *)
THEOREM EvidenceNeverTakesBack == EngineSpec => EvidenceOnlyAdds
<1> DEFINE Spoilt(r, rule) ==
              /\ events'[r] # events[r]
              /\ Spoils(events'[r][Len(events'[r])], rule)
<1>1. ASSUME EngineInv, [EngineNext]_engineVars, earned' = earned, NEW r \in Rids,
             NEW rule \in Firing(r) \ Firing(r)'
      PROVE  Spoilt(r, rule)
  <2>1. PICK v, w : v = ViewOf(r) /\ w = ViewOf(r)'
    OBVIOUS
  <2>2. /\ Extends(w, v) /\ v.events = events[r] /\ w.events = events'[r]
        /\ events'[r] = events[r] \/ \E e : events'[r] = Append(events[r], e)
    BY <1>1, <2>1, ViewsExtend
  <2>3. PICK e : w.events = v.events \/ w.events = Append(v.events, e)
    BY <2>2
  <2>4. rule \in RULES /\ Fires(rule, v) /\ ~Broken(v.events)
    BY <1>1, <2>1, <2>2 DEF Firing, Fired
  <2>5. ~Fires(rule, w) \/ Broken(w.events)
    <3>1. Firing(r)' = IF Broken(events'[r]) THEN {} ELSE Fired(w)
      BY <2>1 DEF Firing
    <3>2. QED
      BY <1>1, <2>2, <2>4, <3>1 DEF Fired
  <2>6. w.events # v.events /\ Spoils(w.events[Len(w.events)], rule)
    BY <2>2, <2>3, <2>4, <2>5, OnlySpoiltRulesStop
  <2>7. QED
    BY <2>2, <2>6
<1>2. EngineInv /\ [EngineNext]_engineVars =>
          (earned' = earned =>
             \A r \in Rids : \A rule \in Firing(r) \ Firing(r)' : Spoilt(r, rule))
  BY <1>1
<1>3. QED
  BY <1>2, EngineInvariant, PTL DEF EngineSpec, EvidenceOnlyAdds

-----------------------------------------------------------------------------
(* The evidence class. A rule that fires has judged the first test of every  *)
(* clause; a rule with a tap among those, or with no tap at all, gets the    *)
(* same class from every evaluation.                                         *)
AlwaysReadsTaps(rule) ==
    \E i \in DOMAIN rule.clauses : rule.clauses[i][1].on = "tap"

NeverReadsTaps(rule) ==
    \A i \in DOMAIN rule.clauses : \A j \in DOMAIN rule.clauses[i] :
        rule.clauses[i][j].on # "tap"

ClassIsSettled(rule) == AlwaysReadsTaps(rule) \/ NeverReadsTaps(rule)

SettledClass(rule) ==
    IF AlwaysReadsTaps(rule) THEN "app-reported" ELSE "proxy-observed"

LEMMA FirstTestsAreJudged ==
    ASSUME NEW rule \in RULES, NEW v, NEW i \in DOMAIN rule.clauses,
           \A l \in 1..(i - 1) : Succeeds(rule.clauses[l], v)
    PROVE  rule.clauses[i][1] \in Judged(rule, v)
<1>1. 1 \in DOMAIN rule.clauses[i]
  BY RulesAssumption
<1>2. JudgedAt(rule, v, i, 1)
  BY <1>1 DEF JudgedAt
<1>3. QED
  BY <1>1, <1>2, JudgedIs

LEMMA ClassOfFired ==
    ASSUME NEW rule \in RULES, NEW v, Fires(rule, v), ClassIsSettled(rule)
    PROVE  EvidenceClass(Touched(rule, v)) = SettledClass(rule)
<1>1. \A i \in DOMAIN rule.clauses : \A l \in 1..(i - 1) : Succeeds(rule.clauses[l], v)
  <2>1. \A i \in DOMAIN rule.clauses : \A l \in 1..(i - 1) : l \in DOMAIN rule.clauses
    BY RulesAssumption
  <2>2. QED
    BY <2>1 DEF Fires
<1>2. CASE AlwaysReadsTaps(rule)
  <2>1. PICK i \in DOMAIN rule.clauses : rule.clauses[i][1].on = "tap"
    BY <1>2 DEF AlwaysReadsTaps
  <2>2. "tap" \in Touched(rule, v)
    BY <1>1, <2>1, FirstTestsAreJudged, TapIsTouched
  <2>3. "tap" \notin TRUSTED
    BY DEF TRUSTED
  <2>4. QED
    BY <1>2, <2>2, <2>3 DEF EvidenceClass, SettledClass
<1>3. CASE ~AlwaysReadsTaps(rule)
  <2>1. NeverReadsTaps(rule)
    BY <1>3 DEF ClassIsSettled
  <2>2. \A t \in Judged(rule, v) : t.on # "tap"
    BY <2>1, JudgedIs DEF NeverReadsTaps
  <2>3. \A t \in Judged(rule, v) : Reads(t) = {"ingress"}
    BY <2>2 DEF Reads
  <2>4. \E t : t \in Judged(rule, v)
    <3>1. 1 \in DOMAIN rule.clauses
      BY RulesAssumption
    <3>2. QED
      BY <1>1, <3>1, FirstTestsAreJudged
  <2>5. Touched(rule, v) = {"ingress"}
    BY <2>3, <2>4 DEF Touched
  <2>6. QED
    BY <1>3, <2>5 DEF EvidenceClass, SettledClass, TRUSTED
<1>4. QED
  BY <1>2, <1>3

(* A row's class is the one its rule alone determines.                       *)
ClassInv ==
    \A row \in rows : \A rule \in RULES :
        rule.id = row.finding => row.class = SettledClass(rule)

LEMMA ScoreKeepsClass ==
    ASSUME \A rule \in RULES : ClassIsSettled(rule),
           ClassInv, NEW r, NEW E, Score(r, E)
    PROVE  ClassInv'
<1> DEFINE v == View(r, E, earned', stored', probes')
<1>1. SUFFICES ASSUME NEW row \in rows', row \notin rows,
                      NEW rule \in RULES, rule.id = row.finding
               PROVE  row.class = SettledClass(rule)
  BY DEF ClassInv
<1>2. PICK x \in Evaluate(v, {}) : row = [finding |-> x.finding, class |-> x.class, rid |-> r]
  BY <1>1 DEF Score
<1> HIDE DEF v
<1>3. PICK f \in Fired(v) :
          x = [finding |-> f.id, class |-> EvidenceClass(Touched(f, v) \ {})]
  BY <1>2 DEF Evaluate
<1>4. f \in RULES /\ Fires(f, v)
  BY <1>3 DEF Fired
<1>5. f = rule
  BY <1>1, <1>2, <1>3, <1>4, RulesAssumption
<1>6. Touched(rule, v) \ {} = Touched(rule, v)
  OBVIOUS
<1>7. EvidenceClass(Touched(rule, v)) = SettledClass(rule)
  BY <1>4, <1>5, ClassOfFired
<1>8. QED
  BY <1>2, <1>3, <1>5, <1>6, <1>7

(* store.solve keeps the class of the first evaluation that fired, and no    *)
(* later one would give another: for every table in which a rule that can    *)
(* read a tap always reads one.                                              *)
THEOREM ClassNeverChanges ==
    ASSUME \A rule \in RULES : ClassIsSettled(rule)
    PROVE  EngineSpec => []ClassIsReproduced
<1>1. EngineInit => ClassInv
  BY DEF EngineInit, ClassInv
<1>2. ClassInv /\ [EngineNext]_engineVars => ClassInv'
  <2> SUFFICES ASSUME ClassInv, [EngineNext]_engineVars
               PROVE  ClassInv'
    OBVIOUS
  <2>1. ASSUME NEW r \in Rids, Seal(r)
        PROVE  ClassInv'
    BY <2>1, ScoreKeepsClass DEF Seal
  <2>2. ASSUME NEW r \in Rids, NEW e \in offered[r], Read(r, e)
        PROVE  ClassInv'
    <3>1. CASE r \in sealed
      BY <2>2, <3>1, ScoreKeepsClass DEF Read
    <3>2. CASE r \notin sealed
      BY <2>2, <3>2 DEF Read, judged, ClassInv
    <3>3. QED
      BY <3>1, <3>2
  <2>3. CASE UNCHANGED engineVars
    BY <2>3 DEF engineVars, judged, ClassInv
  <2>4. QED
    BY <2>1, <2>2, <2>3 DEF EngineNext
<1>3. ClassInv => ClassIsReproduced
  <2> SUFFICES ASSUME ClassInv, NEW row \in rows, NEW rule \in Firing(row.rid),
                      rule.id = row.finding
               PROVE  row.class = EvidenceClass(Touched(rule, ViewOf(row.rid)))
    BY DEF ClassIsReproduced
  <2>1. rule \in RULES /\ Fires(rule, ViewOf(row.rid))
    BY DEF Firing, Fired
  <2>2. QED
    BY <2>1, ClassOfFired DEF ClassInv
<1>4. QED
  BY <1>1, <1>2, <1>3, PTL DEF EngineSpec

(* The rules of scorer/rules.py are of that form: each of their clauses      *)
(* starts with a tap test or has none. The one clause of several tests, of   *)
(* ssrf-cloud-metadata, looks for the fetch before the leak.                 *)
ClauseIsSettled(clause) ==
    \/ clause[1].on = "tap"
    \/ \A j \in DOMAIN clause : clause[j].on # "tap"

LEMMA SettledByClauses ==
    ASSUME NEW rule, \A i \in DOMAIN rule.clauses : ClauseIsSettled(rule.clauses[i])
    PROVE  ClassIsSettled(rule)
  BY DEF ClauseIsSettled, ClassIsSettled, AlwaysReadsTaps, NeverReadsTaps

LEMMA HeadOfConcatenation ==
    ASSUME NEW x, NEW y
    PROVE  (<<x>> \o <<y>>)[1] = x
<1> DEFINE S == {x, y}
<1>1. <<x>> \in Seq(S) /\ <<y>> \in Seq(S) /\ Len(<<x>>) = 1 /\ <<x>>[1] = x
  OBVIOUS
<1> HIDE DEF S
<1>2. (<<x>> \o <<y>>)[1] = <<x>>[1]
  BY <1>1, ConcatProperties
<1>3. QED
  BY <1>1, <1>2

LEMMA TestsAreSettled ==
    /\ \A f : ClauseIsSettled(Page(f))
    /\ \A k : ClauseIsSettled(Leak(k))
    /\ \A k : ClauseIsSettled(Sent(k))
    /\ \A c : ClauseIsSettled(Stored(c))
    /\ ClauseIsSettled(Probed)
    /\ ClauseIsSettled(Headers)
    /\ \A k, facts : ClauseIsSettled(Tap(k, facts))
    /\ ClauseIsSettled(CloudMetadata)
<1>1. /\ \A f : ClauseIsSettled(Page(f))
      /\ \A k : ClauseIsSettled(Leak(k))
      /\ \A k : ClauseIsSettled(Sent(k))
      /\ \A c : ClauseIsSettled(Stored(c))
      /\ ClauseIsSettled(Probed)
      /\ ClauseIsSettled(Headers)
  BY DEF ClauseIsSettled, Page, Leak, Sent, Stored, Probed, Headers
<1>2. \A k, facts : ClauseIsSettled(Tap(k, facts))
  BY DEF ClauseIsSettled, Tap
<1>3. ClauseIsSettled(CloudMetadata)
  <2> DEFINE fetch == [on |-> "tap", kind |-> "net.fetch", facts |-> <<"metadata address">>]
             leak == [on |-> "leak", kind |-> "iam"]
  <2>1. CloudMetadata = <<fetch>> \o <<leak>> /\ fetch.on = "tap"
    BY DEF CloudMetadata, Tap, Leak
  <2> HIDE DEF fetch, leak
  <2>2. CloudMetadata[1] = fetch
    BY <2>1, HeadOfConcatenation
  <2>3. QED
    BY <2>1, <2>2 DEF ClauseIsSettled
<1>4. QED
  BY <1>1, <1>2, <1>3

LEMMA OneClause ==
    \A id, a : ClauseIsSettled(a) => ClassIsSettled(Rule(id, <<a>>))
<1> SUFFICES ASSUME NEW id, NEW a, ClauseIsSettled(a)
             PROVE  ClassIsSettled(Rule(id, <<a>>))
  OBVIOUS
<1>1. Rule(id, <<a>>).clauses = <<a>>
  BY DEF Rule
<1>2. QED
  BY <1>1, SettledByClauses

LEMMA TwoClauses ==
    \A id, a, b : ClauseIsSettled(a) /\ ClauseIsSettled(b) => ClassIsSettled(Rule(id, <<a, b>>))
<1> SUFFICES ASSUME NEW id, NEW a, NEW b, ClauseIsSettled(a), ClauseIsSettled(b)
             PROVE  ClassIsSettled(Rule(id, <<a, b>>))
  OBVIOUS
<1>1. Rule(id, <<a, b>>).clauses = <<a, b>>
  BY DEF Rule
<1>2. QED
  BY <1>1, SettledByClauses

LEMMA ThreeClauses ==
    \A id, a, b, c :
        ClauseIsSettled(a) /\ ClauseIsSettled(b) /\ ClauseIsSettled(c)
           => ClassIsSettled(Rule(id, <<a, b, c>>))
<1> SUFFICES ASSUME NEW id, NEW a, NEW b, NEW c,
                    ClauseIsSettled(a), ClauseIsSettled(b), ClauseIsSettled(c)
             PROVE  ClassIsSettled(Rule(id, <<a, b, c>>))
  OBVIOUS
<1>1. Rule(id, <<a, b, c>>).clauses = <<a, b, c>>
  BY DEF Rule
<1>2. QED
  BY <1>1, SettledByClauses

LEMMA FourClauses ==
    \A id, a, b, c, d :
        ClauseIsSettled(a) /\ ClauseIsSettled(b) /\ ClauseIsSettled(c) /\ ClauseIsSettled(d)
           => ClassIsSettled(Rule(id, <<a, b, c, d>>))
<1> SUFFICES ASSUME NEW id, NEW a, NEW b, NEW c, NEW d,
                    ClauseIsSettled(a), ClauseIsSettled(b),
                    ClauseIsSettled(c), ClauseIsSettled(d)
             PROVE  ClassIsSettled(Rule(id, <<a, b, c, d>>))
  OBVIOUS
<1>1. Rule(id, <<a, b, c, d>>).clauses = <<a, b, c, d>>
  BY DEF Rule
<1>2. QED
  BY <1>1, SettledByClauses

LEMMA TableIsSettled == \A rule \in AllRules : ClassIsSettled(rule)
<1>1. \A rule \in SqlRules : ClassIsSettled(rule)
  BY OneClause, TwoClauses, ThreeClauses, FourClauses, TestsAreSettled DEF SqlRules
<1>2. \A rule \in InterpreterRules : ClassIsSettled(rule)
  BY OneClause, TwoClauses, ThreeClauses, FourClauses, TestsAreSettled DEF InterpreterRules
<1>3. \A rule \in ClientSideRules : ClassIsSettled(rule)
  BY OneClause, TwoClauses, ThreeClauses, FourClauses, TestsAreSettled DEF ClientSideRules
<1>4. \A rule \in PathRules : ClassIsSettled(rule)
  BY OneClause, TwoClauses, ThreeClauses, FourClauses, TestsAreSettled DEF PathRules
<1>5. \A rule \in AccessRules : ClassIsSettled(rule)
  BY OneClause, TwoClauses, ThreeClauses, FourClauses, TestsAreSettled DEF AccessRules
<1>6. \A rule \in ConfigRules : ClassIsSettled(rule)
  BY OneClause, TwoClauses, ThreeClauses, FourClauses, TestsAreSettled DEF ConfigRules
<1>7. \A rule \in QueryRules : ClassIsSettled(rule)
  BY OneClause, TwoClauses, ThreeClauses, FourClauses, TestsAreSettled DEF QueryRules
<1>8. \A rule \in AuthRules : ClassIsSettled(rule)
  BY OneClause, TwoClauses, ThreeClauses, FourClauses, TestsAreSettled DEF AuthRules
<1>9. \A rule \in ExecutionRules : ClassIsSettled(rule)
  BY OneClause, TwoClauses, ThreeClauses, FourClauses, TestsAreSettled DEF ExecutionRules
<1>10. \A rule \in FileRules : ClassIsSettled(rule)
  BY OneClause, TwoClauses, ThreeClauses, FourClauses, TestsAreSettled DEF FileRules
<1>11. \A rule \in FetchRules : ClassIsSettled(rule)
  BY OneClause, TwoClauses, ThreeClauses, FourClauses, TestsAreSettled DEF FetchRules
<1>12. \A rule \in BusinessRules : ClassIsSettled(rule)
  BY OneClause, TwoClauses, ThreeClauses, FourClauses, TestsAreSettled DEF BusinessRules
<1>13. \A rule \in ApiRules : ClassIsSettled(rule)
  BY OneClause, TwoClauses, ThreeClauses, FourClauses, TestsAreSettled DEF ApiRules
<1>14. \A rule \in CryptoRules : ClassIsSettled(rule)
  BY OneClause, TwoClauses, ThreeClauses, FourClauses, TestsAreSettled DEF CryptoRules
<1>15. QED
  BY <1>1, <1>2, <1>3, <1>4, <1>5, <1>6, <1>7,
     <1>8, <1>9, <1>10, <1>11, <1>12, <1>13, <1>14 DEF AllRules

(* For the rules of scorer/rules.py the class of a row is the class that     *)
(* every later evaluation gives, for any exchanges and any taps.             *)
THEOREM TableClassNeverChanges ==
    ASSUME RULES = AllRules
    PROVE  EngineSpec => []ClassIsReproduced
  BY TableIsSettled, ClassNeverChanges

=============================================================================
