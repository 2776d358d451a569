---------------------------- MODULE SealerProofs ----------------------------
(***************************************************************************)
(* Theorems about Sealer, for any set of taps, any finite set of request   *)
(* ids, any grace and any quarantine period.                               *)
(***************************************************************************)
EXTENDS Sealer, FiniteSetTheorems, TLAPS

(* An exchange has left "idle" no later than now.                          *)
StartsInThePast ==
    \A r \in Rids : phase[r] # "idle" => start[r] <= now

(* A tap belongs to an exchange that was forwarded before the tap was made.*)
TapsFollowStart ==
    \A t \in Taps : tapState[t] # "unsent" =>
        /\ phase[TapRid[t]] # "idle"
        /\ start[TapRid[t]] <= tapTs[t]

(* So is the first record of a bundle, whichever kind it was.              *)
BundlesFollowStart ==
    \A r \in DOMAIN bundles :
        /\ phase[r] # "idle"
        /\ start[r] <= bundles[r].first

(* The proxy's record is in the bundle from the moment it was made.        *)
IngressWhenDone ==
    \A r \in Rids : phase[r] = "done" <=> Observed(r)

(* Sealed, scored and up to date go together, but for what scoring raised  *)
(* on and what was released with it.                                       *)
SealedIsScored ==
    /\ \A r \in DOMAIN bundles : bundles[r].sealed =>
          Observed(r) /\ (r \in scored \/ Jammed)
    /\ \A r \in scored :
          /\ Observed(r)
          /\ bundles[r].sealed
          /\ view[r] \subseteq bundles[r].events
          /\ Sound(bundles[r].events) => view[r] = bundles[r].events

(* A read tap that is no longer held was dropped by the quarantine, so its *)
(* exchange had then been open for longer than quarantine_after.           *)
LostOnlyWhenSlow ==
    \A t \in Taps :
        LET r == TapRid[t]
        IN  tapState[t] = "read" =>
                \/ r \in DOMAIN bundles /\ t \in bundles[r].events
                \/ phase[r] = "done" /\ finish[r] - start[r] > QuarantineAfter
                \/ phase[r] # "done" /\ now - start[r] > QuarantineAfter

IInv ==
    /\ TypeOK
    /\ StartsInThePast
    /\ TapsFollowStart
    /\ BundlesFollowStart
    /\ IngressWhenDone
    /\ SealedIsScored
    /\ LostOnlyWhenSlow

-----------------------------------------------------------------------------
(* The data structure keeps its type.                                      *)

LEMMA BundleForType ==
    ASSUME TypeOK, NEW r \in Rids, NEW ts \in Nat
    PROVE  BundleFor(r, ts) \in Bundle
  BY DEF TypeOK, BundleFor, Bundle

LEMMA StoreType ==
    ASSUME TypeOK, NEW r \in Rids, NEW b \in Bundle, Store(r, b)
    PROVE  /\ DOMAIN bundles' = DOMAIN bundles \cup {r}
           /\ DOMAIN bundles' \subseteq Rids
           /\ bundles' \in [DOMAIN bundles' -> Bundle]
           /\ bundles'[r] = b
           /\ \A x \in DOMAIN bundles \ {r} : bundles'[x] = bundles[x]
           /\ scored' \subseteq Rids
           /\ view' \in [Rids -> SUBSET Taps]
  <1>1. DOMAIN bundles' = DOMAIN bundles \cup {r}
    BY DEF Store
  <1>2. b.events \in SUBSET Taps
    BY DEF Bundle
  <1>3. scored' \subseteq Rids /\ view' \in [Rids -> SUBSET Taps]
    BY <1>2 DEF Store, TypeOK
  <1>4. \A x \in DOMAIN bundles \cup {r} :
            bundles'[x] = IF x = r THEN b ELSE bundles[x]
    BY DEF Store
  <1>5. bundles' \in [DOMAIN bundles' -> Bundle]
    BY <1>1, <1>4 DEF Store, TypeOK
  <1> QED
    BY <1>1, <1>3, <1>4, <1>5 DEF TypeOK

LEMMA SealType ==
    ASSUME TypeOK, NEW release \in SUBSET DOMAIN bundles,
           NEW expired \in SUBSET DOMAIN bundles, Seal(release, expired)
    PROVE  /\ DOMAIN bundles' = DOMAIN bundles \ expired
           /\ bundles' \in [DOMAIN bundles' -> Bundle]
           /\ \A r \in DOMAIN bundles' :
                 /\ bundles'[r].ingress = bundles[r].ingress
                 /\ bundles'[r].events = bundles[r].events
                 /\ bundles'[r].first = bundles[r].first
                 /\ bundles'[r].sealed = (bundles[r].sealed \/ r \in release)
           /\ scored' \subseteq Rids
           /\ view' \in [Rids -> SUBSET Taps]
  <1>1. DOMAIN bundles' = DOMAIN bundles \ expired
    BY DEF Seal
  <1>2. \A r \in DOMAIN bundles : bundles[r] \in Bundle
    BY DEF TypeOK
  <1>3. \A r \in DOMAIN bundles :
            [bundles[r] EXCEPT !.sealed = TRUE] \in Bundle
    BY <1>2 DEF Bundle
  <1>4. \A r \in DOMAIN bundles' :
            bundles'[r] = IF r \in release
                          THEN [bundles[r] EXCEPT !.sealed = TRUE]
                          ELSE bundles[r]
    BY DEF Seal
  <1>5. bundles' \in [DOMAIN bundles' -> Bundle]
    BY <1>1, <1>2, <1>3, <1>4 DEF Seal
  <1>6. \A r \in DOMAIN bundles' :
            /\ bundles'[r].ingress = bundles[r].ingress
            /\ bundles'[r].events = bundles[r].events
            /\ bundles'[r].first = bundles[r].first
            /\ bundles'[r].sealed = (bundles[r].sealed \/ r \in release)
    <2> TAKE r \in DOMAIN bundles'
    <2>1. bundles[r] \in Bundle
      BY <1>1, <1>2
    <2>2. CASE r \in release
      BY <2>1, <2>2, <1>4 DEF Bundle
    <2>3. CASE r \notin release
      BY <2>1, <2>3, <1>4 DEF Bundle
    <2> QED
      BY <2>2, <2>3
  <1>7. PICK given \in SUBSET release :
              /\ scored' = scored \cup given
              /\ view' = [r \in Rids |-> IF r \in given THEN bundles[r].events ELSE view[r]]
    BY DEF Seal
  <1>8. scored' \subseteq Rids /\ view' \in [Rids -> SUBSET Taps]
    BY <1>2, <1>7 DEF TypeOK, Bundle
  <1> QED
    BY <1>1, <1>5, <1>6, <1>8

(* A pass over the bundles scores what it seals, or part of it when scoring*)
(* raises on one of them.                                                  *)
LEMMA SealScores ==
    ASSUME TypeOK, SealedIsScored, NEW release \in SUBSET DOMAIN bundles,
           NEW expired \in SUBSET DOMAIN bundles, Seal(release, expired),
           \A r \in release : Observed(r),
           \A r \in expired : ~Observed(r)
    PROVE  SealedIsScored'
  <1>1. /\ DOMAIN bundles' = DOMAIN bundles \ expired
        /\ \A r \in DOMAIN bundles' :
              /\ bundles'[r].ingress = bundles[r].ingress
              /\ bundles'[r].events = bundles[r].events
              /\ bundles'[r].sealed = (bundles[r].sealed \/ r \in release)
    BY SealType
  <1>2. PICK given \in SUBSET release :
              /\ Survives(release, given)
              /\ scored' = scored \cup given
              /\ view' = [r \in Rids |-> IF r \in given THEN bundles[r].events ELSE view[r]]
    BY DEF Seal
  <1>3. \A r \in DOMAIN bundles : Observed(r) =>
            r \in DOMAIN bundles' /\ Observed(r)'
    BY <1>1 DEF Observed
  <1>4. Jammed => Jammed'
    <2> SUFFICES ASSUME NEW r \in DOMAIN bundles, bundles[r].sealed, ~Sound(bundles[r].events)
                 PROVE  Jammed'
      BY DEF Jammed
    <2>1. r \in DOMAIN bundles' /\ bundles'[r].sealed /\ ~Sound(bundles'[r].events)
      BY <1>1, <1>3 DEF SealedIsScored
    <2> QED
      BY <2>1 DEF Jammed, Sound
  <1>5. given = release \/ Jammed'
    <2> SUFFICES ASSUME NEW r \in release, ~Sound(bundles[r].events)
                 PROVE  Jammed'
      BY <1>2 DEF Survives
    <2>1. r \in DOMAIN bundles' /\ bundles'[r].sealed /\ ~Sound(bundles'[r].events)
      BY <1>1, <1>3
    <2> QED
      BY <2>1 DEF Jammed, Sound
  <1>6. ASSUME NEW r \in DOMAIN bundles', bundles'[r].sealed
        PROVE  Observed(r)' /\ (r \in scored' \/ Jammed')
    <2>1. CASE r \in release
      BY <1>1, <1>2, <1>3, <1>5, <2>1
    <2>2. CASE r \notin release
      BY <1>1, <1>2, <1>3, <1>4, <1>6, <2>2 DEF SealedIsScored
    <2> QED
      BY <2>1, <2>2
  <1>7. ASSUME NEW r \in scored'
        PROVE  /\ Observed(r)'
               /\ bundles'[r].sealed
               /\ view'[r] \subseteq bundles'[r].events
               /\ Sound(bundles'[r].events) => view'[r] = bundles'[r].events
    <2>1. /\ r \in Rids /\ r \in DOMAIN bundles /\ r \in DOMAIN bundles' /\ Observed(r)'
          /\ bundles'[r].sealed
      BY <1>1, <1>2, <1>3, <1>7 DEF SealedIsScored, TypeOK, Observed
    <2>2. bundles'[r].events = bundles[r].events
      BY <1>1, <2>1
    <2>3. CASE r \in given
      BY <1>2, <2>1, <2>2, <2>3
    <2>4. CASE r \notin given
      BY <1>2, <1>7, <2>1, <2>2, <2>4 DEF SealedIsScored
    <2> QED
      BY <2>1, <2>3, <2>4
  <1> QED
    BY <1>6, <1>7 DEF SealedIsScored

-----------------------------------------------------------------------------
(* IInv holds initially, and each action of Next preserves it.             *)

LEMMA InitInv == Init => IInv
  <1> SUFFICES ASSUME Init PROVE IInv
    OBVIOUS
  <1> USE SealerAssumption
  <1>1. TypeOK
    BY DEF Init, TypeOK
  <1>2. StartsInThePast /\ TapsFollowStart /\ BundlesFollowStart
    BY DEF Init, StartsInThePast, TapsFollowStart, BundlesFollowStart
  <1>3. IngressWhenDone /\ SealedIsScored /\ LostOnlyWhenSlow
    BY DEF Init, IngressWhenDone, SealedIsScored, LostOnlyWhenSlow, Observed, Jammed
  <1> QED
    BY <1>1, <1>2, <1>3 DEF IInv

LEMMA TickInv == IInv /\ Tick => IInv'
  <1> SUFFICES ASSUME IInv, Tick PROVE IInv'
    OBVIOUS
  <1> DEFINE expired == {r \in DOMAIN bundles : Expired(r)}
             due == {r \in DOMAIN bundles : Due(r)}
  <1>1. TypeOK /\ Seal(due, expired)
    BY DEF IInv, Tick
  <1>2. /\ UNCHANGED <<exchangeVars, tapVars, now>>
        /\ quarantined' = quarantined + Cardinality(expired)
    BY DEF Tick
  <1>3. Cardinality(expired) \in Nat
    <2>1. IsFiniteSet(expired)
      BY <1>1, SealerAssumption, FS_Subset DEF TypeOK
    <2> QED
      BY <2>1, FS_CardinalityType
  <1> HIDE DEF expired, due
  <1>4. expired \in SUBSET DOMAIN bundles /\ due \in SUBSET DOMAIN bundles
    BY DEF expired, due
  <1>5. /\ DOMAIN bundles' = DOMAIN bundles \ expired
        /\ bundles' \in [DOMAIN bundles' -> Bundle]
        /\ \A r \in DOMAIN bundles' :
              /\ bundles'[r].ingress = bundles[r].ingress
              /\ bundles'[r].events = bundles[r].events
              /\ bundles'[r].first = bundles[r].first
              /\ bundles'[r].sealed = (bundles[r].sealed \/ r \in due)
        /\ scored' \subseteq Rids
        /\ view' \in [Rids -> SUBSET Taps]
    BY <1>1, <1>4, SealType
  <1>6. \A r \in expired : ~Observed(r) /\ now - bundles[r].first > QuarantineAfter
    BY DEF expired, Expired, Observed
  <1>7. \A r \in due : Observed(r)
    BY DEF due, Due, Observed
  <1>8. TypeOK'
    BY <1>1, <1>2, <1>3, <1>5 DEF TypeOK, exchangeVars, tapVars
  <1>9. (StartsInThePast /\ TapsFollowStart)'
    BY <1>2 DEF IInv, StartsInThePast, TapsFollowStart, exchangeVars, tapVars
  <1>10. BundlesFollowStart'
    BY <1>2, <1>5 DEF IInv, BundlesFollowStart, exchangeVars
  <1>11. IngressWhenDone'
    BY <1>2, <1>5, <1>6 DEF IInv, IngressWhenDone, Observed, exchangeVars
  <1>12. SealedIsScored'
    BY <1>1, <1>4, <1>6, <1>7, SealScores DEF IInv
  <1>13. LostOnlyWhenSlow'
    <2> SUFFICES ASSUME NEW t \in Taps, tapState'[t] = "read"
                 PROVE  LET r == TapRid[t]
                        IN  \/ r \in DOMAIN bundles' /\ t \in bundles'[r].events
                            \/ phase'[r] = "done" /\ finish'[r] - start'[r] > QuarantineAfter
                            \/ phase'[r] # "done" /\ now' - start'[r] > QuarantineAfter
      BY DEF LostOnlyWhenSlow
    <2> DEFINE r == TapRid[t]
    <2>1. r \in Rids
      BY SealerAssumption
    <2>2. CASE r \in expired
      <3>1. phase[r] # "done"
        BY <1>6, <2>1, <2>2 DEF IInv, IngressWhenDone
      <3>2. start[r] <= bundles[r].first /\ now - bundles[r].first > QuarantineAfter
        BY <1>4, <1>6, <2>2 DEF IInv, BundlesFollowStart
      <3>3. bundles[r] \in Bundle
        BY <1>1, <1>4, <2>2 DEF TypeOK
      <3>4. start[r] \in Nat /\ now \in Nat /\ bundles[r].first \in Nat
        BY <1>1, <2>1, <3>3 DEF TypeOK, Bundle
      <3>5. now - start[r] > QuarantineAfter
        BY <3>2, <3>4, SealerAssumption
      <3> QED
        BY <1>2, <3>1, <3>5 DEF exchangeVars
    <2>3. CASE r \notin expired
      BY <1>2, <1>5, <2>3 DEF IInv, LostOnlyWhenSlow, exchangeVars, tapVars
    <2> QED
      BY <2>2, <2>3
  <1> QED
    BY <1>8, <1>9, <1>10, <1>11, <1>12, <1>13 DEF IInv

LEMMA DrainInv == IInv /\ Drain => IInv'
  <1> SUFFICES ASSUME IInv, Drain PROVE IInv'
    OBVIOUS
  <1> DEFINE due == {r \in DOMAIN bundles : Observed(r) /\ ~bundles[r].sealed}
  <1>1. TypeOK /\ Seal(due, {})
    BY DEF IInv, Drain
  <1>2. UNCHANGED <<exchangeVars, tapVars, now, quarantined>>
    BY DEF Drain
  <1>3. \A r \in due : Observed(r)
    OBVIOUS
  <1>4. due \in SUBSET DOMAIN bundles
    OBVIOUS
  <1> HIDE DEF due
  <1>5. /\ DOMAIN bundles' = DOMAIN bundles
        /\ bundles' \in [DOMAIN bundles' -> Bundle]
        /\ \A r \in DOMAIN bundles' :
              /\ bundles'[r].ingress = bundles[r].ingress
              /\ bundles'[r].events = bundles[r].events
              /\ bundles'[r].first = bundles[r].first
              /\ bundles'[r].sealed = (bundles[r].sealed \/ r \in due)
        /\ scored' \subseteq Rids
        /\ view' \in [Rids -> SUBSET Taps]
    <2>1. {} \in SUBSET DOMAIN bundles
      OBVIOUS
    <2>2. DOMAIN bundles' = DOMAIN bundles \ {}
      BY <1>1, <1>4, <2>1, SealType
    <2>3. DOMAIN bundles' = DOMAIN bundles
      BY <2>2
    <2> QED
      BY <1>1, <1>4, <2>1, <2>3, SealType
  <1>6. TypeOK'
    BY <1>1, <1>2, <1>5 DEF TypeOK, exchangeVars, tapVars
  <1>7. (StartsInThePast /\ TapsFollowStart)'
    BY <1>2 DEF IInv, StartsInThePast, TapsFollowStart, exchangeVars, tapVars
  <1>8. BundlesFollowStart'
    BY <1>2, <1>5 DEF IInv, BundlesFollowStart, exchangeVars
  <1>9. IngressWhenDone'
    BY <1>2, <1>5 DEF IInv, IngressWhenDone, Observed, exchangeVars
  <1>10. SealedIsScored'
    <2>1. {} \in SUBSET DOMAIN bundles /\ \A r \in {} : ~Observed(r)
      OBVIOUS
    <2> QED
      BY <1>1, <1>3, <1>4, <2>1, SealScores DEF IInv
  <1>11. LostOnlyWhenSlow'
    BY <1>2, <1>5 DEF IInv, LostOnlyWhenSlow, exchangeVars, tapVars
  <1> QED
    BY <1>6, <1>7, <1>8, <1>9, <1>10, <1>11 DEF IInv

LEMMA ReadTapInv == ASSUME IInv, NEW t \in Taps, ReadTap(t) PROVE IInv'
  <1> DEFINE r == TapRid[t]
             old == BundleFor(r, tapTs[t])
             b == [old EXCEPT !.events = @ \cup {t}]
  <1>1. TypeOK /\ r \in Rids /\ tapTs[t] \in Nat
    BY SealerAssumption DEF IInv, TypeOK
  <1>2. old \in Bundle
    BY <1>1, BundleForType
  <1>3. /\ b \in Bundle
        /\ b.ingress = old.ingress
        /\ b.events = old.events \cup {t}
        /\ b.sealed = old.sealed
        /\ b.first = old.first
    BY <1>2 DEF Bundle
  <1>4. Store(r, b)
    BY DEF ReadTap, AddTap
  <1>5. /\ tapState[t] = "wire"
        /\ tapState' = [tapState EXCEPT ![t] = "read"]
        /\ UNCHANGED <<exchangeVars, tapTs, now, quarantined>>
    BY DEF ReadTap
  <1>6. /\ r \in DOMAIN bundles => old = bundles[r]
        /\ r \notin DOMAIN bundles =>
              /\ old.ingress = NoIngress
              /\ old.sealed = FALSE
              /\ old.first = tapTs[t]
    BY DEF BundleFor
  <1>7. phase[r] # "idle" /\ start[r] <= tapTs[t]
    BY <1>1, <1>5 DEF IInv, TapsFollowStart
  <1> HIDE DEF r, old, b
  <1>8. /\ DOMAIN bundles' = DOMAIN bundles \cup {r}
        /\ DOMAIN bundles' \subseteq Rids
        /\ bundles' \in [DOMAIN bundles' -> Bundle]
        /\ bundles'[r] = b
        /\ \A x \in DOMAIN bundles \ {r} : bundles'[x] = bundles[x]
        /\ scored' \subseteq Rids
        /\ view' \in [Rids -> SUBSET Taps]
    BY <1>1, <1>3, <1>4, StoreType
  <1>9. TypeOK'
    BY <1>1, <1>5, <1>8 DEF TypeOK, exchangeVars
  <1>10. StartsInThePast'
    BY <1>5 DEF IInv, StartsInThePast, exchangeVars
  <1>11. TapsFollowStart'
    BY <1>1, <1>5, <1>7 DEF IInv, TypeOK, TapsFollowStart, exchangeVars, r
  <1>12. BundlesFollowStart'
    BY <1>1, <1>3, <1>5, <1>6, <1>7, <1>8 DEF IInv, BundlesFollowStart, exchangeVars
  <1>13. \A x \in Rids : Observed(x)' <=> Observed(x)
    BY <1>3, <1>6, <1>8 DEF Observed
  <1>14. IngressWhenDone'
    BY <1>5, <1>13 DEF IInv, IngressWhenDone, exchangeVars
  <1>15. SealedIsScored'
    <2>1. b.events = bundles'[r].events /\ (r \in DOMAIN bundles =>
              bundles[r].events \subseteq b.events /\ bundles[r].sealed = b.sealed
              /\ bundles[r].ingress = b.ingress)
      BY <1>3, <1>6, <1>8
    <2>2. Jammed => Jammed'
      <3> SUFFICES ASSUME NEW x \in DOMAIN bundles, bundles[x].sealed, ~Sound(bundles[x].events)
                   PROVE  Jammed'
        BY DEF Jammed
      <3>1. x \in DOMAIN bundles' /\ bundles'[x].sealed /\ ~Sound(bundles'[x].events)
        BY <1>8, <2>1 DEF Sound
      <3> QED
        BY <3>1 DEF Jammed, Sound
    <2>3. \A x \in scored : x \in DOMAIN bundles /\ x \in Rids
      BY <1>1 DEF IInv, SealedIsScored, Observed, TypeOK
    <2>4. \A x \in scored \ {r} :
              /\ Observed(x)' /\ bundles'[x].sealed
              /\ view[x] \subseteq bundles'[x].events
              /\ Sound(bundles'[x].events) => view[x] = bundles'[x].events
      <3> TAKE x \in scored \ {r}
      <3>1. bundles'[x] = bundles[x] /\ Observed(x)'
        BY <1>8, <1>13, <2>3 DEF IInv, SealedIsScored
      <3> QED
        BY <3>1 DEF IInv, SealedIsScored
    <2>5. r \in scored => Observed(r)' /\ b.sealed /\ b.ingress # NoIngress
                          /\ view[r] \subseteq b.events
      BY <1>8, <1>13, <2>1, <2>3 DEF IInv, SealedIsScored, Observed
    <2>6. \A x \in DOMAIN bundles \ {r} : bundles'[x].sealed =>
              Observed(x)' /\ (x \in scored \/ Jammed')
      <3> TAKE x \in DOMAIN bundles \ {r}
      <3>1. bundles'[x] = bundles[x] /\ (Observed(x)' <=> Observed(x))
        BY <1>1, <1>8, <1>13 DEF TypeOK
      <3> QED
        BY <2>2, <3>1 DEF IInv, SealedIsScored
    <2>7. b.sealed => r \in DOMAIN bundles /\ b.ingress # NoIngress /\ Observed(r)'
      BY <1>3, <1>6, <1>8 DEF IInv, SealedIsScored, Observed
    <2>8. CASE b.sealed /\ b.ingress # NoIngress /\ Sound(b.events)
      <3>1. scored' = scored \cup {r} /\ view' = [view EXCEPT ![r] = b.events]
        BY <1>4, <2>8 DEF Store
      <3>2. view'[r] = b.events /\ \A x \in Rids \ {r} : view'[x] = view[x]
        BY <1>1, <3>1 DEF TypeOK
      <3>3. \A x \in DOMAIN bundles' : bundles'[x].sealed =>
                Observed(x)' /\ (x \in scored' \/ Jammed')
        BY <1>8, <2>6, <2>7, <2>8, <3>1
      <3>4. \A x \in scored' :
                /\ Observed(x)' /\ bundles'[x].sealed
                /\ view'[x] \subseteq bundles'[x].events
                /\ Sound(bundles'[x].events) => view'[x] = bundles'[x].events
        <4> TAKE x \in scored'
        <4>1. CASE x = r
          BY <1>8, <2>1, <2>7, <2>8, <3>2, <4>1
        <4>2. CASE x # r
          BY <2>3, <2>4, <3>1, <3>2, <4>2
        <4> QED
          BY <4>1, <4>2
      <3> QED
        BY <3>3, <3>4 DEF SealedIsScored
    <2>9. CASE ~(b.sealed /\ b.ingress # NoIngress /\ Sound(b.events))
      <3>1. scored' = scored /\ view' = view
        BY <1>4, <2>9 DEF Store
      <3>2. b.sealed => Jammed'
        <4> SUFFICES ASSUME b.sealed PROVE Jammed'
          OBVIOUS
        <4>1. ~Sound(bundles'[r].events) /\ bundles'[r].sealed /\ r \in DOMAIN bundles'
          BY <1>8, <2>1, <2>7, <2>9
        <4> QED
          BY <4>1 DEF Jammed, Sound
      <3>3. \A x \in DOMAIN bundles' : bundles'[x].sealed =>
                Observed(x)' /\ (x \in scored' \/ Jammed')
        BY <1>8, <2>6, <2>7, <3>1, <3>2
      <3>4. \A x \in scored' :
                /\ Observed(x)' /\ bundles'[x].sealed
                /\ view'[x] \subseteq bundles'[x].events
                /\ Sound(bundles'[x].events) => view'[x] = bundles'[x].events
        <4> TAKE x \in scored'
        <4>1. CASE x = r
          BY <1>8, <2>1, <2>5, <2>9, <3>1, <4>1
        <4>2. CASE x # r
          BY <2>4, <3>1, <4>2
        <4> QED
          BY <4>1, <4>2
      <3> QED
        BY <3>3, <3>4 DEF SealedIsScored
    <2> QED
      BY <2>8, <2>9
  <1>16. LostOnlyWhenSlow'
    <2> SUFFICES ASSUME NEW u \in Taps, tapState'[u] = "read"
                 PROVE  LET x == TapRid[u]
                        IN  \/ x \in DOMAIN bundles' /\ u \in bundles'[x].events
                            \/ phase'[x] = "done" /\ finish'[x] - start'[x] > QuarantineAfter
                            \/ phase'[x] # "done" /\ now' - start'[x] > QuarantineAfter
      BY DEF LostOnlyWhenSlow
    <2>1. CASE u = t
      BY <1>3, <1>8, <2>1 DEF r
    <2>2. CASE u # t
      <3>1. tapState[u] = "read"
        BY <1>1, <1>5, <2>2 DEF TypeOK
      <3>2. \A x \in DOMAIN bundles :
               x \in DOMAIN bundles' /\ bundles[x].events \subseteq bundles'[x].events
        BY <1>3, <1>6, <1>8
      <3> QED
        BY <1>5, <3>1, <3>2 DEF IInv, LostOnlyWhenSlow, exchangeVars
    <2> QED
      BY <2>1, <2>2
  <1> QED
    BY <1>9, <1>10, <1>11, <1>12, <1>14, <1>15, <1>16 DEF IInv

LEMMA FinishInv == ASSUME IInv, NEW r \in Rids, NEW relay \in 0..MaxRelay,
                          Finish(r, relay)
                   PROVE  IInv'
  <1> DEFINE ing == [ts |-> start[r], total |-> now - start[r] - relay]
             old == BundleFor(r, ing.ts)
             b == [old EXCEPT !.ingress = ing]
  <1>1. /\ phase[r] = "open"
        /\ relay <= now - start[r]
        /\ phase' = [phase EXCEPT ![r] = "done"]
        /\ finish' = [finish EXCEPT ![r] = now]
        /\ UNCHANGED <<start, tapVars, now, quarantined>>
    BY DEF Finish
  <1>2. TypeOK /\ start[r] \in Nat /\ now \in Nat /\ relay \in Nat
    BY SealerAssumption DEF IInv, TypeOK
  <1>3. ing \in Ingress /\ ing.ts = start[r]
    BY <1>1, <1>2 DEF Ingress
  <1>4. old \in Bundle
    BY <1>2, <1>3, BundleForType
  <1>5. ing # NoIngress
    BY <1>3, SealerAssumption
  <1>6. Store(r, b)
    BY DEF Finish, AddIngress
  <1>7. /\ r \in DOMAIN bundles => old = bundles[r]
        /\ r \notin DOMAIN bundles => old.sealed = FALSE /\ old.first = start[r]
    BY DEF BundleFor
  <1> HIDE DEF ing, old
  <1>8. /\ b \in Bundle
        /\ b.ingress = ing
        /\ b.events = old.events
        /\ b.sealed = old.sealed
        /\ b.first = old.first
    BY <1>3, <1>4 DEF Bundle
  <1> HIDE DEF b
  <1>9. /\ DOMAIN bundles' = DOMAIN bundles \cup {r}
        /\ DOMAIN bundles' \subseteq Rids
        /\ bundles' \in [DOMAIN bundles' -> Bundle]
        /\ bundles'[r] = b
        /\ \A x \in DOMAIN bundles \ {r} : bundles'[x] = bundles[x]
        /\ scored' \subseteq Rids
        /\ view' \in [Rids -> SUBSET Taps]
    BY <1>2, <1>6, <1>8, StoreType
  <1>10. ~Observed(r) /\ r \notin scored
    BY <1>1 DEF IInv, IngressWhenDone, SealedIsScored
  <1>11. ~b.sealed
    BY <1>7, <1>8, <1>10 DEF IInv, SealedIsScored
  <1>12. UNCHANGED <<scored, view>>
    BY <1>6, <1>11 DEF Store
  <1>13. TypeOK'
    BY <1>1, <1>2, <1>9 DEF TypeOK, tapVars
  <1>14. (StartsInThePast /\ TapsFollowStart)'
    BY <1>1, <1>2, SealerAssumption
    DEF IInv, TypeOK, StartsInThePast, TapsFollowStart, tapVars
  <1>15. BundlesFollowStart'
    BY <1>1, <1>2, <1>7, <1>8, <1>9 DEF IInv, TypeOK, BundlesFollowStart
  <1>16. IngressWhenDone'
    BY <1>1, <1>2, <1>5, <1>8, <1>9 DEF IInv, TypeOK, IngressWhenDone, Observed
  <1>17. SealedIsScored'
    <2>1. \A x \in scored : x # r /\ x \in DOMAIN bundles /\ bundles'[x] = bundles[x]
      BY <1>9, <1>10 DEF IInv, SealedIsScored, Observed
    <2>2. \A x \in DOMAIN bundles : bundles[x].sealed => x # r /\ bundles'[x] = bundles[x]
      BY <1>9, <1>10 DEF IInv, SealedIsScored
    <2>3. Jammed => Jammed'
      BY <1>9, <2>2 DEF Jammed, Sound
    <2>4. \A x \in scored : /\ Observed(x)' /\ bundles'[x].sealed
                            /\ view[x] \subseteq bundles'[x].events
                            /\ Sound(bundles'[x].events) => view[x] = bundles'[x].events
      BY <1>9, <2>1 DEF IInv, SealedIsScored, Observed
    <2>5. \A x \in DOMAIN bundles' : bundles'[x].sealed =>
              Observed(x)' /\ (x \in scored \/ Jammed')
      BY <1>9, <1>11, <2>2, <2>3 DEF IInv, SealedIsScored, Observed
    <2> QED
      BY <1>12, <2>4, <2>5 DEF SealedIsScored
  <1>18. LostOnlyWhenSlow'
    <2> SUFFICES ASSUME NEW t \in Taps, tapState'[t] = "read"
                 PROVE  LET x == TapRid[t]
                        IN  \/ x \in DOMAIN bundles' /\ t \in bundles'[x].events
                            \/ phase'[x] = "done" /\ finish'[x] - start'[x] > QuarantineAfter
                            \/ phase'[x] # "done" /\ now' - start'[x] > QuarantineAfter
      BY DEF LostOnlyWhenSlow
    <2> DEFINE x == TapRid[t]
    <2>1. x \in Rids /\ tapState[t] = "read"
      BY <1>1, SealerAssumption DEF tapVars
    <2>2. CASE x \in DOMAIN bundles /\ t \in bundles[x].events
      BY <1>7, <1>8, <1>9, <2>2
    <2>3. CASE phase[x] = "done" /\ finish[x] - start[x] > QuarantineAfter
      BY <1>1, <1>2, <2>1, <2>3 DEF TypeOK
    <2>4. CASE phase[x] # "done" /\ now - start[x] > QuarantineAfter
      BY <1>1, <1>2, <2>1, <2>4 DEF TypeOK
    <2> QED
      BY <2>1, <2>2, <2>3, <2>4 DEF IInv, LostOnlyWhenSlow
  <1> QED
    BY <1>13, <1>14, <1>15, <1>16, <1>17, <1>18 DEF IInv

LEMMA BeginInv == ASSUME IInv, NEW r \in Rids, Begin(r) PROVE IInv'
  <1>1. /\ phase[r] = "idle"
        /\ phase' = [phase EXCEPT ![r] = "open"]
        /\ start' = [start EXCEPT ![r] = now]
        /\ UNCHANGED <<finish, tapVars, now, bundles, quarantined, scored, view>>
    BY DEF Begin
  <1>2. TypeOK /\ now \in Nat
    BY DEF IInv, TypeOK
  <1>3. TypeOK'
    BY <1>1, <1>2 DEF TypeOK, tapVars
  <1>4. StartsInThePast'
    BY <1>1, <1>2 DEF IInv, TypeOK, StartsInThePast
  <1>5. \A t \in Taps : tapState[t] # "unsent" => TapRid[t] # r
    BY <1>1 DEF IInv, TapsFollowStart
  <1>6. TapsFollowStart'
    BY <1>1, <1>2, <1>5, SealerAssumption DEF IInv, TypeOK, TapsFollowStart, tapVars
  <1>7. BundlesFollowStart'
    BY <1>1, <1>2 DEF IInv, TypeOK, BundlesFollowStart
  <1>8. IngressWhenDone'
    BY <1>1, <1>2 DEF IInv, TypeOK, IngressWhenDone, Observed
  <1>9. SealedIsScored'
    BY <1>1 DEF IInv, SealedIsScored, Observed, Jammed
  <1>10. LostOnlyWhenSlow'
    BY <1>1, <1>2, <1>5, SealerAssumption DEF IInv, TypeOK, LostOnlyWhenSlow, tapVars
  <1> QED
    BY <1>3, <1>4, <1>6, <1>7, <1>8, <1>9, <1>10 DEF IInv

LEMMA AbortInv == ASSUME IInv, NEW r \in Rids, Abort(r) PROVE IInv'
  <1>1. /\ phase[r] = "open"
        /\ phase' = [phase EXCEPT ![r] = "aborted"]
        /\ UNCHANGED <<start, finish, tapVars, now, bundles, quarantined, scored, view>>
    BY DEF Abort
  <1>2. TypeOK
    BY DEF IInv
  <1>3. TypeOK'
    BY <1>1, <1>2 DEF TypeOK, tapVars
  <1>4. (StartsInThePast /\ TapsFollowStart /\ BundlesFollowStart)'
    BY <1>1, <1>2, SealerAssumption
    DEF IInv, TypeOK, StartsInThePast, TapsFollowStart, BundlesFollowStart, tapVars
  <1>5. (IngressWhenDone /\ SealedIsScored)'
    BY <1>1, <1>2 DEF IInv, TypeOK, IngressWhenDone, SealedIsScored, Observed, Jammed
  <1>6. LostOnlyWhenSlow'
    BY <1>1, <1>2, SealerAssumption DEF IInv, TypeOK, LostOnlyWhenSlow, tapVars
  <1> QED
    BY <1>3, <1>4, <1>5, <1>6 DEF IInv

LEMMA EmitTapInv == ASSUME IInv, NEW t \in Taps, EmitTap(t) PROVE IInv'
  <1>1. /\ tapState[t] = "unsent"
        /\ phase[TapRid[t]] \in {"open", "aborted"}
        /\ tapState' = [tapState EXCEPT ![t] = "wire"]
        /\ tapTs' = [tapTs EXCEPT ![t] = now]
        /\ UNCHANGED <<exchangeVars, now, bundles, quarantined, scored, view>>
    BY DEF EmitTap
  <1>2. TypeOK /\ now \in Nat /\ TapRid[t] \in Rids
    BY SealerAssumption DEF IInv, TypeOK
  <1>3. TypeOK'
    BY <1>1, <1>2 DEF TypeOK, exchangeVars
  <1>4. (StartsInThePast /\ BundlesFollowStart)'
    BY <1>1 DEF IInv, StartsInThePast, BundlesFollowStart, exchangeVars
  <1>5. phase[TapRid[t]] # "idle" /\ start[TapRid[t]] <= now
    BY <1>1, <1>2 DEF IInv, StartsInThePast
  <1>6. TapsFollowStart'
    BY <1>1, <1>2, <1>5 DEF IInv, TypeOK, TapsFollowStart, exchangeVars
  <1>7. (IngressWhenDone /\ SealedIsScored)'
    BY <1>1 DEF IInv, IngressWhenDone, SealedIsScored, Observed, Jammed, exchangeVars
  <1>8. LostOnlyWhenSlow'
    BY <1>1, <1>2 DEF IInv, TypeOK, LostOnlyWhenSlow, exchangeVars
  <1> QED
    BY <1>3, <1>4, <1>6, <1>7, <1>8 DEF IInv

LEMMA AdvanceInv == IInv /\ Advance => IInv'
  <1> SUFFICES ASSUME IInv, Advance PROVE IInv'
    OBVIOUS
  <1>1. /\ now' = now + 1
        /\ UNCHANGED <<exchangeVars, tapVars, bundles, quarantined, scored, view>>
    BY DEF Advance
  <1>2. TypeOK /\ now \in Nat
    BY DEF IInv, TypeOK
  <1>3. TypeOK'
    BY <1>1, <1>2 DEF TypeOK, exchangeVars, tapVars
  <1>4. (StartsInThePast /\ TapsFollowStart /\ BundlesFollowStart)'
    BY <1>1, <1>2 DEF IInv, TypeOK, StartsInThePast, TapsFollowStart,
                      BundlesFollowStart, exchangeVars, tapVars
  <1>5. (IngressWhenDone /\ SealedIsScored)'
    BY <1>1 DEF IInv, IngressWhenDone, SealedIsScored, Observed, Jammed, exchangeVars
  <1>6. LostOnlyWhenSlow'
    BY <1>1, <1>2, SealerAssumption
    DEF IInv, TypeOK, LostOnlyWhenSlow, exchangeVars, tapVars
  <1> QED
    BY <1>3, <1>4, <1>5, <1>6 DEF IInv

LEMMA NextInv == IInv /\ [Next]_vars => IInv'
  <1> SUFFICES ASSUME IInv, [Next]_vars PROVE IInv'
    OBVIOUS
  <1>1. CASE Tick
    BY <1>1, TickInv
  <1>2. CASE Drain
    BY <1>2, DrainInv
  <1>3. CASE \E t \in Taps : ReadTap(t)
    BY <1>3, ReadTapInv
  <1>4. CASE \E r \in Rids : Begin(r)
    BY <1>4, BeginInv
  <1>5. CASE \E r \in Rids, relay \in 0..MaxRelay : Finish(r, relay)
    BY <1>5, FinishInv
  <1>6. CASE \E r \in Rids : Abort(r)
    BY <1>6, AbortInv
  <1>7. CASE \E t \in Taps : EmitTap(t)
    BY <1>7, EmitTapInv
  <1>8. CASE Advance
    BY <1>8, AdvanceInv
  <1>9. CASE UNCHANGED vars
    BY <1>9 DEF vars, IInv, TypeOK, StartsInThePast, TapsFollowStart,
                BundlesFollowStart, IngressWhenDone, SealedIsScored,
                LostOnlyWhenSlow, Observed, Jammed
  <1> QED
    BY <1>1, <1>2, <1>3, <1>4, <1>5, <1>6, <1>7, <1>8, <1>9 DEF Next

LEMMA Invariance == Spec => []IInv
  <1>1. Init => IInv
    BY InitInv
  <1>2. IInv /\ [Next]_vars => IInv'
    BY NextInv
  <1> QED
    BY <1>1, <1>2, PTL DEF Spec

-----------------------------------------------------------------------------
(* The theorems.                                                           *)

(* Every variable keeps its type (class Sealer's fields and histories).    *)
THEOREM TypeCorrect == Spec => []TypeOK
  <1>1. IInv => TypeOK
    BY DEF IInv
  <1> QED
    BY <1>1, Invariance, PTL

(* Anti-forgery: whatever taps are emitted, read or withheld, only request *)
(* ids the proxy recorded an exchange for are ever scored.                 *)
THEOREM AntiForgery == Spec => []OnlyObservedScored
  <1>1. IInv => OnlyObservedScored
    BY DEF IInv, TypeOK, IngressWhenDone, SealedIsScored, OnlyObservedScored
  <1> QED
    BY <1>1, Invariance, PTL

(* The last bundle Pipeline.score saw of a request id is the one held.     *)
THEOREM NoStaleRelease == Spec => []ReleasesAreCurrent
  <1>1. IInv => ReleasesAreCurrent
    BY DEF IInv, SealedIsScored, ReleasesAreCurrent, Observed
  <1> QED
    BY <1>1, Invariance, PTL

(* The quarantine never costs an exchange of at most quarantine_after a    *)
(* tap that was read.                                                      *)
THEOREM QuarantineSparesQuick == Spec => []QuickExchangesLoseNothing
  <1>1. IInv => QuickExchangesLoseNothing
    <2> SUFFICES ASSUME IInv, NEW t \in Taps,
                        tapState[t] = "read",
                        phase[TapRid[t]] = "done",
                        finish[TapRid[t]] - start[TapRid[t]] <= QuarantineAfter
                 PROVE  TapRid[t] \in DOMAIN bundles /\ t \in bundles[TapRid[t]].events
      BY DEF QuickExchangesLoseNothing
    <2>1. /\ finish[TapRid[t]] \in Nat
          /\ start[TapRid[t]] \in Nat
          /\ QuarantineAfter \in Nat
      BY SealerAssumption DEF IInv, TypeOK
    <2> QED
      BY <2>1 DEF IInv, LostOnlyWhenSlow
  <1> QED
    BY <1>1, Invariance, PTL

LEMMA StepKeepsReleases ==
    ASSUME IInv, [Next]_vars
    PROVE  \A r \in scored : r \in scored' /\ view[r] \subseteq view'[r]
  <1> SUFFICES ASSUME NEW r \in scored
               PROVE  r \in scored' /\ view[r] \subseteq view'[r]
    OBVIOUS
  <1>1. /\ r \in Rids /\ r \in DOMAIN bundles /\ bundles[r].sealed
        /\ view[r] \subseteq bundles[r].events
    BY DEF IInv, TypeOK, SealedIsScored, Observed
  <1>2. CASE Tick
    BY <1>1, <1>2 DEF Tick, Seal
  <1>3. CASE Drain
    BY <1>1, <1>3 DEF Drain, Seal
  <1>4. CASE \E t \in Taps : ReadTap(t)
    <2> PICK t \in Taps : ReadTap(t)
      BY <1>4
    <2> DEFINE x == TapRid[t]
               old == BundleFor(x, tapTs[t])
               b == [old EXCEPT !.events = @ \cup {t}]
    <2>1. Store(x, b)
      BY DEF ReadTap, AddTap
    <2>2. x \in Rids /\ tapTs[t] \in Nat /\ TypeOK
      BY SealerAssumption DEF IInv, TypeOK
    <2>3. old \in Bundle
      BY <2>2, BundleForType
    <2>4. b.events = old.events \cup {t}
      BY <2>3 DEF Bundle
    <2>5. x = r => old = bundles[r]
      BY <1>1 DEF BundleFor
    <2> HIDE DEF x, old, b
    <2>6. scored \subseteq scored'
      BY <2>1 DEF Store
    <2>7. view' = view \/ view' = [view EXCEPT ![x] = b.events]
      BY <2>1 DEF Store
    <2> QED
      BY <1>1, <2>2, <2>4, <2>5, <2>6, <2>7 DEF TypeOK
  <1>5. CASE \E x \in Rids, relay \in 0..MaxRelay : Finish(x, relay)
    <2> PICK x \in Rids, relay \in 0..MaxRelay : Finish(x, relay)
      BY <1>5
    <2>1. phase[x] = "open"
      BY DEF Finish
    <2>2. x # r
      BY <2>1 DEF IInv, IngressWhenDone, SealedIsScored
    <2> DEFINE ing == [ts |-> start[x], total |-> now - start[x] - relay]
               b == [BundleFor(x, ing.ts) EXCEPT !.ingress = ing]
    <2>3. Store(x, b)
      BY DEF Finish, AddIngress
    <2> HIDE DEF b
    <2> QED
      BY <1>1, <2>2, <2>3 DEF Store, IInv, TypeOK
  <1>6. CASE \/ \E x \in Rids : Begin(x)
             \/ \E x \in Rids : Abort(x)
             \/ \E t \in Taps : EmitTap(t)
             \/ Advance
             \/ UNCHANGED vars
    BY <1>6 DEF Begin, Abort, EmitTap, Advance, vars
  <1> QED
    BY <1>2, <1>3, <1>4, <1>5, <1>6 DEF Next

(* Nothing scored is ever taken back, and each release of a request id     *)
(* contains the one before.                                                *)
THEOREM ReleasesGrow == Spec => NoRetraction
  <1>1. IInv /\ [Next]_vars =>
            [\A r \in scored : r \in scored' /\ view[r] \subseteq view'[r]]_vars
    BY StepKeepsReleases
  <1> QED
    BY <1>1, Invariance, PTL DEF Spec, NoRetraction

-----------------------------------------------------------------------------
(* Refinement of Join.                                                     *)

(* The refinement mapping, as the INSTANCE statement of Sealer gives it.   *)
observedBar == {r \in DOMAIN bundles : bundles[r].ingress # NoIngress}
evidenceBar == [r \in Rids |-> IF r \in DOMAIN bundles THEN bundles[r].events ELSE {}]

LEMMA InitSimulates == Init => J!JoinInit
  BY DEF Init, J!JoinInit

(* A pass of the Sealer over its bundles is one Sweep of Join.             *)
LEMMA SealIsSweep ==
    ASSUME IInv, NEW release \in SUBSET DOMAIN bundles,
           NEW expired \in SUBSET DOMAIN bundles, Seal(release, expired),
           \A r \in release : Observed(r),
           \A r \in expired : ~Observed(r)
    PROVE  \E given \in SUBSET Rids : J!Sweep(given, expired)
  <1>0. PICK given \in SUBSET release :
              /\ Survives(release, given)
              /\ scored' = scored \cup given
              /\ view' = [r \in Rids |-> IF r \in given THEN bundles[r].events ELSE view[r]]
    BY DEF Seal
  <1>1. /\ TypeOK
        /\ DOMAIN bundles' = DOMAIN bundles \ expired
        /\ \A r \in DOMAIN bundles' :
              /\ bundles'[r].ingress = bundles[r].ingress
              /\ bundles'[r].events = bundles[r].events
    BY SealType DEF IInv
  <1>2. observedBar' = observedBar
    BY <1>1 DEF observedBar, Observed
  <1>3. given \subseteq observedBar /\ expired \cap observedBar = {}
    BY <1>0 DEF observedBar, Observed
  <1>4. \A r \in given : J!Readable(evidenceBar[r])
    BY <1>0, <1>1 DEF Survives, Sound, J!Readable, evidenceBar, TypeOK
  <1>5. view' = [r \in Rids |-> IF r \in given THEN evidenceBar[r] ELSE view[r]]
    BY <1>0, <1>1 DEF evidenceBar, TypeOK
  <1>6. evidenceBar' = [r \in Rids |-> IF r \in expired THEN {} ELSE evidenceBar[r]]
    BY <1>1 DEF evidenceBar, TypeOK
  <1>7. given \in SUBSET Rids
    BY <1>0, <1>1 DEF TypeOK
  <1>8. J!Sweep(given, expired)
    BY <1>0, <1>2, <1>3, <1>4, <1>5, <1>6 DEF J!Sweep, observedBar, evidenceBar
  <1> QED
    BY <1>7, <1>8

(* Reading a tap is one Collect of Join.                                   *)
LEMMA ReadTapIsCollect ==
    ASSUME IInv, NEW t \in Taps, ReadTap(t)
    PROVE  \E again \in BOOLEAN : J!Collect(TapRid[t], t, again)
  <1> DEFINE r == TapRid[t]
             old == BundleFor(r, tapTs[t])
             b == [old EXCEPT !.events = @ \cup {t}]
  <1>1. TypeOK /\ r \in Rids /\ tapTs[t] \in Nat
    BY SealerAssumption DEF IInv, TypeOK
  <1>2. old \in Bundle
    BY <1>1, BundleForType
  <1>3. /\ b \in Bundle
        /\ b.ingress = old.ingress
        /\ b.events = old.events \cup {t}
        /\ b.sealed = old.sealed
    BY <1>2 DEF Bundle
  <1>4. Store(r, b)
    BY DEF ReadTap, AddTap
  <1>5. /\ r \in DOMAIN bundles => old = bundles[r]
        /\ r \notin DOMAIN bundles => old.ingress = NoIngress /\ old.events = {}
                                      /\ old.sealed = FALSE
    BY DEF BundleFor
  <1> HIDE DEF r, old, b
  <1>6. /\ DOMAIN bundles' = DOMAIN bundles \cup {r}
        /\ bundles'[r] = b
        /\ \A x \in DOMAIN bundles \ {r} : bundles'[x] = bundles[x]
    BY <1>1, <1>3, <1>4, StoreType
  <1>7. observedBar' = observedBar
    BY <1>3, <1>5, <1>6 DEF observedBar
  <1>8. evidenceBar' = [evidenceBar EXCEPT ![r] = @ \cup {t}]
    <2>1. evidenceBar[r] = old.events
      BY <1>1, <1>5 DEF evidenceBar
    <2>2. \A x \in Rids : evidenceBar'[x] = IF x = r THEN evidenceBar[r] \cup {t}
                                                     ELSE evidenceBar[x]
      BY <1>3, <1>6, <2>1 DEF evidenceBar
    <2> QED
      BY <2>2 DEF evidenceBar
  <1>9. evidenceBar[r] \cup {t} = b.events
    BY <1>1, <1>3, <1>5 DEF evidenceBar
  <1>10. r \in scored => b.sealed /\ b.ingress # NoIngress
    BY <1>3, <1>5 DEF IInv, SealedIsScored, Observed
  <1>11. b.ingress # NoIngress => r \in observedBar
    BY <1>3, <1>5 DEF observedBar
  <1>12. CASE b.sealed /\ b.ingress # NoIngress /\ Sound(b.events)
    <2>1. scored' = scored \cup {r} /\ view' = [view EXCEPT ![r] = evidenceBar[r] \cup {t}]
      BY <1>4, <1>9, <1>12 DEF Store
    <2>2. r \in observedBar /\ J!Readable(evidenceBar[r] \cup {t})
      BY <1>9, <1>11, <1>12 DEF Sound, J!Readable
    <2>3. J!Collect(r, t, TRUE)
      BY <1>7, <1>8, <2>1, <2>2 DEF J!Collect, observedBar, evidenceBar
    <2> QED
      BY <2>3 DEF r
  <1>13. CASE ~(b.sealed /\ b.ingress # NoIngress /\ Sound(b.events))
    <2>1. UNCHANGED <<scored, view>>
      BY <1>4, <1>13 DEF Store
    <2>2. ~(r \in scored /\ J!Readable(evidenceBar[r] \cup {t}))
      BY <1>9, <1>10, <1>13 DEF Sound, J!Readable
    <2>3. J!Collect(r, t, FALSE)
      BY <1>7, <1>8, <2>1, <2>2 DEF J!Collect, observedBar, evidenceBar
    <2> QED
      BY <2>3 DEF r
  <1> QED
    BY <1>12, <1>13

(* The arrival of the proxy's record is one Observe of Join.               *)
LEMMA FinishIsObserve ==
    ASSUME IInv, NEW r \in Rids, NEW relay \in 0..MaxRelay, Finish(r, relay)
    PROVE  J!Observe(r)
  <1> DEFINE ing == [ts |-> start[r], total |-> now - start[r] - relay]
             old == BundleFor(r, ing.ts)
             b == [old EXCEPT !.ingress = ing]
  <1>1. /\ phase[r] = "open"
        /\ relay <= now - start[r]
        /\ TypeOK /\ start[r] \in Nat /\ now \in Nat /\ relay \in Nat
    BY SealerAssumption DEF Finish, IInv, TypeOK
  <1>2. ing \in Ingress /\ ing.ts \in Nat
    BY <1>1 DEF Ingress
  <1>3. old \in Bundle
    BY <1>1, <1>2, BundleForType
  <1>4. Store(r, b)
    BY DEF Finish, AddIngress
  <1>5. /\ r \in DOMAIN bundles => old = bundles[r]
        /\ r \notin DOMAIN bundles => old.events = {} /\ old.sealed = FALSE
    BY DEF BundleFor
  <1>6. ing # NoIngress
    BY <1>2, SealerAssumption
  <1> HIDE DEF ing, old
  <1>7. b \in Bundle /\ b.ingress = ing /\ b.events = old.events /\ b.sealed = old.sealed
    BY <1>2, <1>3 DEF Bundle
  <1> HIDE DEF b
  <1>8. ~Observed(r)
    BY <1>1 DEF IInv, IngressWhenDone
  <1>9. ~b.sealed
    BY <1>5, <1>7, <1>8 DEF IInv, SealedIsScored
  <1>10. UNCHANGED <<scored, view>>
    BY <1>4, <1>9 DEF Store
  <1>11. /\ DOMAIN bundles' = DOMAIN bundles \cup {r}
         /\ bundles'[r] = b
         /\ \A x \in DOMAIN bundles \ {r} : bundles'[x] = bundles[x]
    BY <1>1, <1>4, <1>7, StoreType
  <1>12. r \notin observedBar /\ observedBar' = observedBar \cup {r}
    BY <1>6, <1>7, <1>8, <1>11 DEF observedBar, Observed
  <1>13. evidenceBar' = evidenceBar
    BY <1>5, <1>7, <1>11 DEF evidenceBar
  <1> QED
    BY <1>10, <1>12, <1>13 DEF J!Observe, observedBar, evidenceBar

LEMMA StepSimulates == IInv /\ [Next]_vars => [J!JoinNext]_(J!joinVars)
  <1> SUFFICES ASSUME IInv, [Next]_vars
               PROVE  J!JoinNext \/ UNCHANGED J!joinVars
    OBVIOUS
  <1>1. CASE Tick
    <2>1. \E release, expired \in SUBSET DOMAIN bundles :
             /\ Seal(release, expired)
             /\ \A r \in release : Observed(r)
             /\ \A r \in expired : ~Observed(r)
      <3> DEFINE gone == {r \in DOMAIN bundles : Expired(r)}
                 due == {r \in DOMAIN bundles : Due(r)}
      <3>1. Seal(due, gone)
        BY <1>1 DEF Tick
      <3>2. /\ \A r \in due : Observed(r)
            /\ \A r \in gone : ~Observed(r)
        BY DEF Due, Expired, Observed
      <3> WITNESS due \in SUBSET DOMAIN bundles, gone \in SUBSET DOMAIN bundles
      <3> QED
        BY <3>1, <3>2
    <2>2. PICK release, expired \in SUBSET DOMAIN bundles :
             /\ Seal(release, expired)
             /\ \A r \in release : Observed(r)
             /\ \A r \in expired : ~Observed(r)
      BY <2>1
    <2>3. \E given \in SUBSET Rids : J!Sweep(given, expired)
      BY <2>2, SealIsSweep
    <2>4. expired \in SUBSET Rids
      BY DEF IInv, TypeOK
    <2> QED
      BY <2>3, <2>4 DEF J!JoinNext
  <1>2. CASE Drain
    <2> DEFINE due == {r \in DOMAIN bundles : Observed(r) /\ ~bundles[r].sealed}
    <2>1. Seal(due, {})
      BY <1>2 DEF Drain
    <2>2. (\A r \in due : Observed(r)) /\ (\A r \in {} : ~Observed(r))
      OBVIOUS
    <2>3. /\ due \in SUBSET DOMAIN bundles /\ {} \in SUBSET DOMAIN bundles
          /\ due \in SUBSET Rids /\ {} \in SUBSET Rids
      BY DEF IInv, TypeOK
    <2> HIDE DEF due
    <2>4. \E given \in SUBSET Rids : J!Sweep(given, {})
      BY <2>1, <2>2, <2>3, SealIsSweep
    <2> QED
      BY <2>3, <2>4 DEF J!JoinNext
  <1>3. CASE \E t \in Taps : ReadTap(t)
    BY <1>3, ReadTapIsCollect, SealerAssumption DEF J!JoinNext
  <1>4. CASE \E r \in Rids, relay \in 0..MaxRelay : Finish(r, relay)
    BY <1>4, FinishIsObserve DEF J!JoinNext
  <1>5. CASE \/ \E r \in Rids : Begin(r)
             \/ \E r \in Rids : Abort(r)
             \/ \E t \in Taps : EmitTap(t)
             \/ Advance
             \/ UNCHANGED vars
    BY <1>5 DEF Begin, Abort, EmitTap, Advance, vars, J!joinVars
  <1> QED
    BY <1>1, <1>2, <1>3, <1>4, <1>5 DEF Next

(* The Sealer, with its clock, grace and quarantine, implements Join: a    *)
(* release carries all the evidence collected, late evidence releases      *)
(* again, and only evidence nobody observed an exchange for is discarded.  *)
THEOREM Refinement == Spec => ImplementsJoin
  <1>1. Init => J!JoinInit
    BY InitSimulates
  <1>2. IInv /\ [Next]_vars => [J!JoinNext]_(J!joinVars)
    BY StepSimulates
  <1> QED
    BY <1>1, <1>2, Invariance, PTL DEF Spec, ImplementsJoin, J!JoinSpec

-----------------------------------------------------------------------------
(* The order of the seals, which Scorer takes for granted.                   *)

(* A record says when its exchange was forwarded and when it was over for    *)
(* the upstream, which was before the record was made.                       *)
RecordsAreTimed ==
    \A r \in Rids : phase[r] = "done" =>
        /\ bundles[r].ingress.ts = start[r]
        /\ bundles[r].ingress.ts + bundles[r].ingress.total <= finish[r]
        /\ finish[r] <= now

Sealed(r) == r \in DOMAIN bundles /\ bundles[r].sealed

(* An exchange that was recorded before another is forwarded is scored no    *)
(* later than the other, unless scoring raised.                              *)
SealsInOrder(r, x) ==
    [](phase[r] = "done" /\ phase[x] = "idle" =>
          [](x \in scored => r \in scored \/ Jammed))

Ahead(r, x) ==
    /\ phase[r] = "done"
    /\ phase[x] # "idle" => finish[r] <= start[x]
    /\ Sealed(x) => Sealed(r)

(* Every step keeps a record that is there.                                  *)
LEMMA RecordsStay ==
    ASSUME IInv, [Next]_vars, NEW r \in Rids, phase[r] = "done"
    PROVE  /\ phase'[r] = "done" /\ start'[r] = start[r] /\ finish'[r] = finish[r]
           /\ r \in DOMAIN bundles' /\ bundles'[r].ingress = bundles[r].ingress
           /\ now <= now'
  <1>1. TypeOK /\ r \in DOMAIN bundles /\ bundles[r].ingress # NoIngress
        /\ bundles[r] \in Bundle /\ now \in Nat
    BY DEF IInv, IngressWhenDone, Observed, TypeOK
  <1>2. ASSUME NEW release \in SUBSET DOMAIN bundles, NEW expired \in SUBSET DOMAIN bundles,
               Seal(release, expired), r \notin expired
        PROVE  r \in DOMAIN bundles' /\ bundles'[r].ingress = bundles[r].ingress
    <2>1. /\ DOMAIN bundles' = DOMAIN bundles \ expired
          /\ \A x \in DOMAIN bundles' : bundles'[x].ingress = bundles[x].ingress
      BY <1>1, <1>2, SealType
    <2> QED
      BY <1>1, <1>2, <2>1
  <1>3. CASE Tick
    <2> DEFINE gone == {x \in DOMAIN bundles : Expired(x)}
               due == {x \in DOMAIN bundles : Due(x)}
    <2>1. Seal(due, gone) /\ UNCHANGED <<exchangeVars, now>>
      BY <1>3 DEF Tick
    <2>2. r \notin gone /\ gone \in SUBSET DOMAIN bundles /\ due \in SUBSET DOMAIN bundles
      BY <1>1 DEF Expired
    <2> HIDE DEF gone, due
    <2>3. r \in DOMAIN bundles' /\ bundles'[r].ingress = bundles[r].ingress
      BY <1>2, <2>1, <2>2
    <2> QED
      BY <1>1, <2>1, <2>3 DEF exchangeVars
  <1>4. CASE Drain
    <2> DEFINE due == {x \in DOMAIN bundles : Observed(x) /\ ~bundles[x].sealed}
    <2>1. Seal(due, {}) /\ UNCHANGED <<exchangeVars, now>>
      BY <1>4 DEF Drain
    <2>2. r \notin {} /\ {} \in SUBSET DOMAIN bundles /\ due \in SUBSET DOMAIN bundles
      OBVIOUS
    <2> HIDE DEF due
    <2>3. r \in DOMAIN bundles' /\ bundles'[r].ingress = bundles[r].ingress
      BY <1>2, <2>1, <2>2
    <2> QED
      BY <1>1, <2>1, <2>3 DEF exchangeVars
  <1>5. CASE \E t \in Taps : ReadTap(t)
    <2> PICK t \in Taps : ReadTap(t)
      BY <1>5
    <2> DEFINE old == BundleFor(TapRid[t], tapTs[t])
               b == [old EXCEPT !.events = @ \cup {t}]
    <2>1. Store(TapRid[t], b) /\ UNCHANGED <<exchangeVars, now>>
      BY DEF ReadTap, AddTap
    <2>2. TapRid[t] \in Rids /\ tapTs[t] \in Nat
      BY <1>1, SealerAssumption DEF TypeOK
    <2>3. old \in Bundle
      BY <1>1, <2>2, BundleForType
    <2>4. b \in Bundle /\ b.ingress = old.ingress
      BY <2>3 DEF Bundle
    <2>5. TapRid[t] = r => old = bundles[r]
      BY <1>1 DEF BundleFor
    <2> HIDE DEF old, b
    <2>6. /\ DOMAIN bundles' = DOMAIN bundles \cup {TapRid[t]}
          /\ bundles'[TapRid[t]] = b
          /\ \A x \in DOMAIN bundles \ {TapRid[t]} : bundles'[x] = bundles[x]
      BY <1>1, <2>1, <2>2, <2>4, StoreType
    <2>7. bundles'[r].ingress = bundles[r].ingress
      BY <1>1, <2>4, <2>5, <2>6
    <2> QED
      BY <1>1, <2>1, <2>6, <2>7 DEF exchangeVars
  <1>6. CASE \E x \in Rids, relay \in 0..MaxRelay : Finish(x, relay)
    <2> PICK x \in Rids, relay \in 0..MaxRelay : Finish(x, relay)
      BY <1>6
    <2>1. /\ phase[x] = "open" /\ UNCHANGED <<start, now>>
          /\ phase' = [phase EXCEPT ![x] = "done"]
          /\ finish' = [finish EXCEPT ![x] = now]
          /\ AddIngress(x, [ts |-> start[x], total |-> now - start[x] - relay])
      BY DEF Finish
    <2>2. x # r
      BY <2>1
    <2>3. r \in DOMAIN bundles' /\ bundles'[r] = bundles[r]
      BY <1>1, <2>1, <2>2 DEF AddIngress, Store
    <2> QED
      BY <1>1, <2>1, <2>2, <2>3 DEF TypeOK
  <1>7. CASE \E x \in Rids : Begin(x)
    BY <1>1, <1>7 DEF Begin, TypeOK
  <1>8. CASE \E x \in Rids : Abort(x)
    BY <1>1, <1>8 DEF Abort, TypeOK
  <1>9. CASE (\E t \in Taps : EmitTap(t)) \/ UNCHANGED vars
    BY <1>1, <1>9 DEF EmitTap, exchangeVars, vars
  <1>10. CASE Advance
    BY <1>1, <1>10 DEF Advance, exchangeVars
  <1> QED
    BY <1>3, <1>4, <1>5, <1>6, <1>7, <1>8, <1>9, <1>10 DEF Next

LEMMA TimedStep ==
    ASSUME IInv, IInv', RecordsAreTimed, [Next]_vars
    PROVE  RecordsAreTimed'
  <1> SUFFICES ASSUME NEW r \in Rids, phase'[r] = "done"
               PROVE  /\ bundles'[r].ingress.ts = start'[r]
                      /\ bundles'[r].ingress.ts + bundles'[r].ingress.total <= finish'[r]
                      /\ finish'[r] <= now'
    BY DEF RecordsAreTimed
  <1>1. CASE phase[r] = "done"
    <2>1. /\ start'[r] = start[r] /\ finish'[r] = finish[r]
          /\ bundles'[r].ingress = bundles[r].ingress /\ now <= now'
      BY <1>1, RecordsStay
    <2>2. finish[r] \in Nat /\ now \in Nat /\ now' \in Nat
      BY DEF IInv, TypeOK
    <2> QED
      BY <1>1, <2>1, <2>2 DEF RecordsAreTimed
  <1>2. CASE phase[r] # "done"
    <2>1. PICK relay \in 0..MaxRelay : Finish(r, relay)
      <3>1. \E x \in Rids, relay \in 0..MaxRelay : Finish(x, relay)
        BY <1>2 DEF Next, Tick, Drain, ReadTap, Begin, Abort, EmitTap, Advance, vars,
           exchangeVars, IInv, TypeOK
      <3>2. PICK x \in Rids, relay \in 0..MaxRelay : Finish(x, relay)
        BY <3>1
      <3>3. x = r
        BY <1>2, <3>2 DEF Finish, IInv, TypeOK
      <3> QED
        BY <3>2, <3>3
    <2> DEFINE ing == [ts |-> start[r], total |-> now - start[r] - relay]
               old == BundleFor(r, ing.ts)
               b == [old EXCEPT !.ingress = ing]
    <2>2. /\ UNCHANGED <<start, now>> /\ finish' = [finish EXCEPT ![r] = now]
          /\ Store(r, b) /\ relay <= now - start[r]
      BY <2>1 DEF Finish, AddIngress
    <2>3. start[r] \in Nat /\ now \in Nat /\ relay \in Nat /\ TypeOK
      BY SealerAssumption DEF IInv, TypeOK
    <2>4. ing \in Ingress /\ ing.ts \in Nat
      BY <2>2, <2>3 DEF Ingress
    <2>5. old \in Bundle
      BY <2>3, <2>4, BundleForType
    <2> HIDE DEF old
    <2>6. b.ingress = ing
      BY <2>5 DEF Bundle
    <2>7. bundles'[r] = b
      BY <2>2 DEF Store
    <2>8. ing.ts + ing.total <= now
      BY <2>2, <2>3
    <2>9. finish'[r] = now
      BY <2>2, <2>3 DEF TypeOK
    <2> QED
      BY <2>2, <2>3, <2>6, <2>7, <2>8, <2>9
  <1> QED
    BY <1>1, <1>2

LEMMA AheadStep ==
    ASSUME IInv, IInv', RecordsAreTimed, [Next]_vars, NEW r \in Rids, NEW x \in Rids,
           Ahead(r, x)
    PROVE  Ahead(r, x)'
  <1>1. phase[r] = "done" /\ phase'[r] = "done" /\ finish'[r] = finish[r]
        /\ finish[r] <= now
    BY RecordsStay DEF Ahead, RecordsAreTimed
  <1>2. phase'[x] # "idle" => finish'[r] <= start'[x]
    <2>1. CASE phase[x] = "idle" /\ phase'[x] # "idle"
      <3>1. start'[x] = now
        BY <2>1 DEF Next, Tick, Drain, ReadTap, Begin, Finish, Abort, EmitTap, Advance,
           vars, exchangeVars, IInv, TypeOK
      <3> QED
        BY <1>1, <3>1
    <2>2. CASE phase[x] # "idle"
      <3>1. start'[x] = start[x]
        BY <2>2 DEF Next, Tick, Drain, ReadTap, Begin, Finish, Abort, EmitTap, Advance,
           vars, exchangeVars, IInv, TypeOK
      <3> QED
        BY <1>1, <2>2, <3>1 DEF Ahead
    <2> QED
      BY <2>1, <2>2
  <1>3. ASSUME NEW release \in SUBSET DOMAIN bundles,
               NEW expired \in SUBSET DOMAIN bundles,
               Seal(release, expired), r \notin expired
        PROVE  /\ Sealed(r)' <=> Sealed(r) \/ r \in release
               /\ Sealed(x)' => Sealed(x) \/ x \in release
    <2>1. /\ DOMAIN bundles' = DOMAIN bundles \ expired
          /\ \A y \in DOMAIN bundles' :
                bundles'[y].sealed = (bundles[y].sealed \/ y \in release)
      BY <1>3, SealType DEF IInv
    <2> QED
      BY <1>3, <2>1 DEF Sealed
  <1>4. Sealed(x)' => Sealed(r)'
    <2>1. r \in DOMAIN bundles /\ bundles[r].ingress # NoIngress
      BY <1>1 DEF IInv, IngressWhenDone, Observed
    <2>2. CASE Tick
      <3> DEFINE gone == {y \in DOMAIN bundles : Expired(y)}
                 due == {y \in DOMAIN bundles : Due(y)}
      <3>a. /\ Sealed(r)' <=> Sealed(r) \/ r \in due
            /\ Sealed(x)' => Sealed(x) \/ x \in due
        <4>1. Seal(due, gone) /\ r \notin gone
          BY <2>1, <2>2 DEF Tick, Expired
        <4>2. due \in SUBSET DOMAIN bundles /\ gone \in SUBSET DOMAIN bundles
          OBVIOUS
        <4> HIDE DEF due, gone
        <4> QED
          BY <1>3, <4>1, <4>2
      <3> SUFFICES ASSUME x \in due PROVE Sealed(r) \/ r \in due
        BY <3>a DEF Ahead
      <3>1. Due(x) /\ x \in DOMAIN bundles
        OBVIOUS
      <3>2. /\ bundles[x] \in Bundle /\ bundles[r] \in Bundle
            /\ bundles[x].ingress # NoIngress
        BY <2>1, <3>1 DEF Due, IInv, TypeOK
      <3>3. bundles[x].ingress \in Ingress /\ bundles[r].ingress \in Ingress
        BY <2>1, <3>2 DEF Bundle
      <3>4. phase[x] = "done"
        BY <3>1, <3>2 DEF IInv, IngressWhenDone, Observed
      <3>5. /\ bundles[x].ingress.ts = start[x] /\ finish[r] <= start[x]
            /\ bundles[r].ingress.ts + bundles[r].ingress.total <= finish[r]
        BY <1>1, <3>4 DEF RecordsAreTimed, Ahead
      <3>6. now >= bundles[x].ingress.ts + bundles[x].ingress.total + Grace
        BY <3>1 DEF Due, DoneAt
      <3>7. PICK a, b, c, d, f :
                /\ a = bundles[x].ingress.ts /\ b = bundles[x].ingress.total
                /\ c = bundles[r].ingress.ts /\ d = bundles[r].ingress.total
                /\ f = finish[r]
        OBVIOUS
      <3>8. a \in Nat /\ b \in Nat /\ c \in Nat /\ d \in Nat /\ f \in Nat
            /\ now \in Nat /\ Grace \in Nat
        BY <3>3, <3>7, SealerAssumption DEF Ingress, IInv, TypeOK
      <3>9. f <= a /\ c + d <= f /\ now >= a + b + Grace
        BY <3>5, <3>6, <3>7
      <3>10. now >= c + d + Grace
        BY <3>8, <3>9
      <3>11. now >= DoneAt(bundles[r].ingress)
        BY <3>7, <3>10 DEF DoneAt
      <3>12. bundles[r].sealed \/ Due(r)
        BY <2>1, <3>11 DEF Due
      <3> QED
        BY <2>1, <3>12 DEF Sealed
    <2>3. CASE Drain
      <3> DEFINE due == {y \in DOMAIN bundles : Observed(y) /\ ~bundles[y].sealed}
      <3>1. Seal(due, {}) /\ due \in SUBSET DOMAIN bundles /\ {} \in SUBSET DOMAIN bundles
        BY <2>3 DEF Drain
      <3>2. Sealed(r) \/ r \in due
        BY <2>1 DEF Sealed, Observed
      <3> HIDE DEF due
      <3> QED
        BY <1>3, <3>1, <3>2
    <2>4. CASE \E t \in Taps : ReadTap(t)
      <3>1. PICK t \in Taps : ReadTap(t)
        BY <2>4
      <3> DEFINE y == TapRid[t]
                 old == BundleFor(y, tapTs[t])
                 b == [old EXCEPT !.events = @ \cup {t}]
      <3>2. TypeOK /\ y \in Rids /\ tapTs[t] \in Nat
        BY SealerAssumption DEF IInv, TypeOK
      <3>3. old \in Bundle
        BY <3>2, BundleForType
      <3>4. b \in Bundle /\ b.sealed = old.sealed
        BY <3>3 DEF Bundle
      <3>5. Store(y, b)
        BY <3>1 DEF ReadTap, AddTap
      <3>6. /\ y \in DOMAIN bundles => old = bundles[y]
            /\ y \notin DOMAIN bundles => ~old.sealed
        BY DEF BundleFor
      <3> HIDE DEF y, old, b
      <3>7. /\ DOMAIN bundles' = DOMAIN bundles \cup {y}
            /\ bundles'[y] = b
            /\ \A z \in DOMAIN bundles \ {y} : bundles'[z] = bundles[z]
        BY <3>2, <3>4, <3>5, StoreType
      <3>8. (Sealed(x)' => Sealed(x)) /\ (Sealed(r) => Sealed(r)')
        BY <3>4, <3>6, <3>7 DEF Sealed
      <3> QED
        BY <3>8 DEF Ahead
    <2>5. CASE \E y \in Rids, relay \in 0..MaxRelay : Finish(y, relay)
      <3>1. PICK y \in Rids, relay \in 0..MaxRelay : Finish(y, relay)
        BY <2>5
      <3> DEFINE ing == [ts |-> start[y], total |-> now - start[y] - relay]
                 old == BundleFor(y, ing.ts)
                 b == [old EXCEPT !.ingress = ing]
      <3>2. /\ phase[y] = "open" /\ TypeOK /\ start[y] \in Nat /\ now \in Nat
            /\ relay \in Nat /\ relay <= now - start[y]
        BY <3>1, SealerAssumption DEF Finish, IInv, TypeOK
      <3>3. ing \in Ingress /\ ing.ts \in Nat
        BY <3>2 DEF Ingress
      <3>4. old \in Bundle
        BY <3>2, <3>3, BundleForType
      <3>5. /\ y \in DOMAIN bundles => old = bundles[y]
            /\ y \notin DOMAIN bundles => ~old.sealed
        BY DEF BundleFor
      <3>6. Store(y, b)
        BY <3>1 DEF Finish, AddIngress
      <3> HIDE DEF ing, old
      <3>7. b \in Bundle /\ b.sealed = old.sealed
        BY <3>3, <3>4 DEF Bundle
      <3> HIDE DEF b
      <3>8. /\ DOMAIN bundles' = DOMAIN bundles \cup {y}
            /\ bundles'[y] = b
            /\ \A z \in DOMAIN bundles \ {y} : bundles'[z] = bundles[z]
        BY <3>2, <3>6, <3>7, StoreType
      <3>9. (Sealed(x)' => Sealed(x)) /\ (Sealed(r) => Sealed(r)')
        BY <3>5, <3>7, <3>8 DEF Sealed
      <3> QED
        BY <3>9 DEF Ahead
    <2>6. CASE \/ \E y \in Rids : Begin(y)
               \/ \E y \in Rids : Abort(y)
               \/ \E t \in Taps : EmitTap(t)
               \/ Advance
               \/ UNCHANGED vars
      BY <2>6 DEF Begin, Abort, EmitTap, Advance, vars, Ahead, Sealed
    <2> QED
      BY <2>2, <2>3, <2>4, <2>5, <2>6 DEF Next
  <1> QED
    BY <1>1, <1>2, <1>4 DEF Ahead

(* Sealer.tick, drain: for any grace and any relays, an exchange that was    *)
(* recorded before another was forwarded has been scored when the other is,  *)
(* however late the ticker comes, as long as no tap makes scoring raise. It  *)
(* is what Scorer's ScoreSealed assumes.                                     *)
THEOREM SealsAreInOrder ==
    ASSUME NEW r \in Rids, NEW x \in Rids
    PROVE  Spec => SealsInOrder(r, x)
  <1>1. Init => RecordsAreTimed
    BY DEF Init, RecordsAreTimed
  <1>2. IInv /\ IInv' /\ RecordsAreTimed /\ [Next]_vars => RecordsAreTimed'
    BY TimedStep
  <1>3. IInv /\ phase[r] = "done" /\ phase[x] = "idle" => Ahead(r, x)
    BY DEF IInv, SealedIsScored, IngressWhenDone, TypeOK, Ahead, Sealed
  <1>4. IInv /\ IInv' /\ RecordsAreTimed /\ [Next]_vars /\ Ahead(r, x) => Ahead(r, x)'
    BY AheadStep
  <1>5. IInv /\ Ahead(r, x) => (x \in scored => r \in scored \/ Jammed)
    BY DEF IInv, SealedIsScored, Observed, Ahead, Sealed
  <1> QED
    BY <1>1, <1>2, <1>3, <1>4, <1>5, Invariance, PTL DEF Spec, SealsInOrder
====
