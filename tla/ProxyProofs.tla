----------------------------- MODULE ProxyProofs -----------------------------
(* The proxy's connections and exchanges, for any number of either: types,   *)
(* keep-alive order, and the refinement of Exchanges.                        *)
EXTENDS Proxy, SequenceTheorems, TLAPS

(* What a connection's place says of its request id: an exchange underway    *)
(* has an id that has no record yet, the next request is read only when the  *)
(* last one has its record, and a connection's id is the last one it took.   *)
Placed ==
    /\ \A c \in Conns : Underway(c) => rid[c] # 0 /\ rid[c] \notin Recorded
    /\ \A c \in Conns : at[c] = "reading" => rid[c] = 0 \/ rid[c] \in Recorded
    /\ \A c \in Conns : rid[c] # 0 => owner[rid[c]] = c
    /\ \A r \in 1..counter : r <= rid[owner[r]]

ProxyInv == ProxyTypeOK /\ Placed /\ KeepAliveIsSequential

-----------------------------------------------------------------------------
LEMMA OwnerGrows ==
    ASSUME counter \in Nat, owner \in [1..counter -> Conns], NEW c \in Conns
    PROVE  LET longer == Append(owner, c)
           IN  /\ longer \in [1..(counter + 1) -> Conns]
               /\ longer[counter + 1] = c
               /\ \A r \in 1..counter : longer[r] = owner[r]
<1>1. owner \in Seq(Conns) /\ Len(owner) = counter
  OBVIOUS
<1> DEFINE longer == Append(owner, c)
<1>3. /\ longer \in Seq(Conns)
      /\ Len(longer) = counter + 1
      /\ longer[counter + 1] = c
      /\ \A r \in 1..counter : longer[r] = owner[r]
  BY <1>1
<1>4. longer \in [1..(counter + 1) -> Conns]
  <2> HIDE DEF longer
  <2>1. longer \in [1..Len(longer) -> Conns]
    BY <1>3, LenProperties
  <2>2. QED
    BY <1>3, <2>1
<1>5. QED
  BY <1>3, <1>4

LEMMA RecordsGrow ==
    ASSUME counter \in Nat, records \in Seq(1..counter), NEW r \in 1..counter
    PROVE  LET longer == Append(records, r)
           IN  /\ longer \in Seq(1..counter)
               /\ DOMAIN longer = 1..(Len(records) + 1)
               /\ longer[Len(records) + 1] = r
               /\ \A i \in DOMAIN records : longer[i] = records[i]
               /\ {longer[i] : i \in DOMAIN longer} = Recorded \cup {r}
<1>1. DOMAIN records = 1..Len(records)
  OBVIOUS
<1>2. QED
  BY <1>1 DEF Recorded

LEMMA InitProxyInv == ProxyInit => ProxyInv
  BY ProxyAssumption DEF ProxyInit, ProxyInv, ProxyTypeOK, Placed,
     KeepAliveIsSequential, Recorded, Underway, Busy, Rids

-----------------------------------------------------------------------------
LEMMA TypesStep == ProxyInv /\ [ProxyNext]_proxyVars => ProxyTypeOK'
<1> SUFFICES ASSUME ProxyInv, [ProxyNext]_proxyVars
             PROVE  ProxyTypeOK'
  OBVIOUS
<1> USE ProxyAssumption DEF ProxyInv, ProxyTypeOK, Placed, Underway, Busy, GoTo
<1>1. ASSUME NEW c \in Conns, NEW keepAlive \in BOOLEAN, ReadRequest(c, keepAlive)
      PROVE  ProxyTypeOK'
  <2>1. owner' \in [1..counter' -> Conns]
    BY <1>1, OwnerGrows DEF ReadRequest
  <2>2. counter' \in 0..MaxRid /\ records' \in Seq(1..counter')
    BY <1>1 DEF ReadRequest
  <2>3. QED
    BY <1>1, <2>1, <2>2 DEF ReadRequest
<1>2. ASSUME NEW c \in Conns,
             NoRequest(c) \/ Connect(c) \/ ConnectFails(c) \/ ReadResponse(c)
             \/ UpstreamFails(c) \/ RelayFails(c) \/ Refuse(c)
             \/ ClientLeaves(c) \/ ClientStops(c) \/ ClientReads(c)
      PROVE  ProxyTypeOK'
  <2>1. CASE NoRequest(c)
    BY <2>1 DEF NoRequest
  <2>2. CASE Connect(c)
    <3>1. rid[c] \in 1..counter
      BY <2>2 DEF Connect
    <3>2. forwarded' \subseteq 1..counter /\ served' \subseteq forwarded'
      BY <2>2, <3>1 DEF Connect
    <3>3. UNCHANGED <<counter, rid, keep, gone, stalled, owner, records>>
      BY <2>2 DEF Connect
    <3>4. forwarded' \subseteq 1..counter /\ answered' \subseteq 1..counter
      BY <2>2, <3>2 DEF Connect
    <3>5. at' \in [Conns -> Busy \cup {"reading", "closed"}]
      BY <2>2 DEF Connect
    <3>6. QED
      BY <3>2, <3>3, <3>4, <3>5
  <2>3. CASE ConnectFails(c)
    <3>1. rid[c] \in 1..counter
      BY <2>3 DEF ConnectFails
    <3>2. answered' \subseteq 1..counter /\ served' \subseteq forwarded'
      BY <2>3, <3>1 DEF ConnectFails
    <3>3. UNCHANGED <<counter, rid, keep, gone, stalled, owner, records>>
      BY <2>3 DEF ConnectFails
    <3>4. forwarded' \subseteq 1..counter /\ answered' \subseteq 1..counter
      BY <2>3, <3>2 DEF ConnectFails
    <3>5. at' \in [Conns -> Busy \cup {"reading", "closed"}]
      BY <2>3 DEF ConnectFails
    <3>6. QED
      BY <3>2, <3>3, <3>4, <3>5
  <2>4. CASE ReadResponse(c)
    BY <2>4 DEF ReadResponse
  <2>5. CASE UpstreamFails(c)
    BY <2>5 DEF UpstreamFails
  <2>6. CASE RelayFails(c)
    BY <2>6 DEF RelayFails
  <2>7. CASE Refuse(c)
    BY <2>7 DEF Refuse
  <2>8. CASE ClientLeaves(c) \/ ClientStops(c) \/ ClientReads(c)
    BY <2>8 DEF ClientLeaves, ClientStops, ClientReads
  <2>9. QED
    BY <1>2, <2>1, <2>2, <2>3, <2>4, <2>5, <2>6, <2>7, <2>8
<1>3. ASSUME NEW c \in Conns, Relay(c)
      PROVE  ProxyTypeOK'
  <2>1. rid[c] \in 1..counter
    BY <1>3 DEF Relay
  <2>2. records' \in Seq(1..counter')
    BY <1>3, <2>1, RecordsGrow DEF Relay
  <2>3. QED
    BY <1>3, <2>2 DEF Relay
<1>4. ASSUME NEW r \in Rids, AppServes(r)
      PROVE  ProxyTypeOK'
  BY <1>4 DEF AppServes
<1>5. CASE UNCHANGED proxyVars
  BY <1>5 DEF proxyVars
<1>6. QED
  BY <1>1, <1>2, <1>3, <1>4, <1>5 DEF ProxyNext

(* A connection that neither takes a request id nor leaves a record.         *)
LEMMA PlaceStep ==
    ASSUME ProxyInv, NEW c \in Conns, NEW place, GoTo(c, place),
           place # "reading",
           place \in Busy => Underway(c),
           UNCHANGED <<counter, rid, owner, records>>
    PROVE  Placed' /\ KeepAliveIsSequential'
  BY DEF ProxyInv, ProxyTypeOK, Placed, KeepAliveIsSequential, Underway, Busy, Recorded, GoTo

LEMMA RequestStep ==
    ASSUME ProxyInv, NEW c \in Conns, NEW keepAlive \in BOOLEAN,
           ReadRequest(c, keepAlive)
    PROVE  Placed' /\ KeepAliveIsSequential'
<1> USE ProxyAssumption DEF ProxyInv, ProxyTypeOK
<1>1. /\ counter \in Nat /\ counter' = counter + 1
      /\ rid' = [rid EXCEPT ![c] = counter + 1]
      /\ at[c] = "reading" /\ at' = [at EXCEPT ![c] = "connecting"]
      /\ records' = records
  BY DEF ReadRequest, GoTo
<1>2. /\ owner'[counter + 1] = c
      /\ \A r \in 1..counter : owner'[r] = owner[r] /\ owner[r] \in Conns
  BY <1>1, OwnerGrows DEF ReadRequest
<1>3. Recorded' = Recorded /\ Recorded \subseteq 1..counter
  BY <1>1 DEF Recorded
<1>4. Placed'
  <2>1. \A d \in Conns : Underway(d)' => rid'[d] # 0 /\ rid'[d] \notin Recorded'
    BY <1>1, <1>3 DEF Placed, Underway, Busy
  <2>2. \A d \in Conns : at'[d] = "reading" => rid'[d] = 0 \/ rid'[d] \in Recorded'
    BY <1>1, <1>3 DEF Placed
  <2>3. \A d \in Conns : rid'[d] # 0 => owner'[rid'[d]] = d
    BY <1>1, <1>2 DEF Placed
  <2>4. \A r \in 1..counter' : r <= rid'[owner'[r]]
    <3>1. ASSUME NEW r \in 1..counter
          PROVE  r <= rid'[owner'[r]]
      <4>1. owner'[r] = owner[r] /\ owner[r] \in Conns /\ r <= rid[owner[r]]
        BY <1>2 DEF Placed
      <4>2. QED
        BY <1>1, <4>1
    <3>2. QED
      BY <1>1, <1>2, <3>1
  <2>5. QED
    BY <2>1, <2>2, <2>3, <2>4 DEF Placed
<1>5. KeepAliveIsSequential'
  <2>1. ASSUME NEW r \in 1..counter', r < rid'[owner'[r]]
        PROVE  r \in Recorded'
    <3>1. r # counter + 1
      BY <1>1, <1>2, <2>1
    <3>2. r \in 1..counter /\ owner'[r] = owner[r] /\ owner[r] \in Conns
      BY <1>1, <1>2, <3>1
    <3>3. CASE owner[r] = c
      <4>1. rid[c] \in 0..counter /\ r <= rid[c]
        BY <3>2, <3>3 DEF Placed
      <4>2. CASE r = rid[c]
        BY <1>1, <1>3, <3>2, <4>2 DEF Placed
      <4>3. CASE r < rid[c]
        BY <1>3, <3>2, <3>3, <4>3 DEF KeepAliveIsSequential
      <4>4. QED
        BY <3>2, <4>1, <4>2, <4>3
    <3>4. CASE owner[r] # c
      BY <1>1, <1>3, <2>1, <3>2, <3>4 DEF KeepAliveIsSequential
    <3>5. QED
      BY <3>3, <3>4
  <2>2. \A i, j \in DOMAIN records' :
            i < j /\ owner'[records'[i]] = owner'[records'[j]]
            => records'[i] < records'[j]
    <3>1. \A i \in DOMAIN records : records[i] \in 1..counter
      OBVIOUS
    <3>2. QED
      BY <1>1, <1>2, <3>1 DEF KeepAliveIsSequential
  <2>3. QED
    BY <2>1, <2>2 DEF KeepAliveIsSequential
<1>6. QED
  BY <1>4, <1>5

LEMMA RelayStep ==
    ASSUME ProxyInv, NEW c \in Conns, Relay(c)
    PROVE  Placed' /\ KeepAliveIsSequential'
<1> USE ProxyAssumption DEF ProxyInv, ProxyTypeOK
<1> DEFINE r == rid[c]
<1>1. /\ r \in 1..counter /\ r \notin Recorded /\ counter \in Nat
      /\ owner[r] = c
      /\ UNCHANGED <<counter, rid, owner>>
      /\ at[c] = "relaying"
      /\ \E place \in {"reading", "closed"} : at' = [at EXCEPT ![c] = place]
  <2>1. UNCHANGED <<counter, rid, owner>> /\ at[c] = "relaying"
    BY DEF Relay
  <2>2. r \in 1..counter /\ r \notin Recorded /\ owner[r] = c
    BY <2>1 DEF Placed, Underway, Busy
  <2>3. \E place \in {"reading", "closed"} : at' = [at EXCEPT ![c] = place]
    <3>1. CASE keep[c]
      BY <3>1 DEF Relay, GoTo
    <3>2. CASE ~keep[c]
      BY <3>2 DEF Relay, GoTo
    <3>3. QED
      BY <3>1, <3>2
  <2>4. counter \in Nat
    OBVIOUS
  <2>5. QED
    BY <2>1, <2>2, <2>3, <2>4
<1>2. /\ DOMAIN records' = 1..(Len(records) + 1)
      /\ records'[Len(records) + 1] = r
      /\ \A i \in DOMAIN records : records'[i] = records[i]
      /\ Recorded' = Recorded \cup {r}
  <2>1. records' = Append(records, r)
    BY DEF Relay
  <2> HIDE DEF r
  <2>2. /\ DOMAIN Append(records, r) = 1..(Len(records) + 1)
        /\ Append(records, r)[Len(records) + 1] = r
        /\ \A i \in DOMAIN records : Append(records, r)[i] = records[i]
        /\ {Append(records, r)[i] : i \in DOMAIN Append(records, r)} = Recorded \cup {r}
    BY <1>1, RecordsGrow
  <2>3. Recorded' = {records'[i] : i \in DOMAIN records'}
    BY DEF Recorded
  <2>4. QED
    BY <2>1, <2>2, <2>3
<1>3. Placed'
  <2>1. \A d \in Conns : d # c /\ rid[d] # 0 => rid[d] # r
    BY <1>1 DEF Placed
  <2>2. QED
    BY <1>1, <1>2, <2>1 DEF Placed, Underway, Busy
<1>4. ASSUME NEW i \in DOMAIN records', NEW j \in DOMAIN records', i < j,
             owner'[records'[i]] = owner'[records'[j]]
      PROVE  records'[i] < records'[j]
  <2>1. i \in DOMAIN records /\ records'[i] = records[i] /\ records[i] \in 1..counter
    BY <1>2, <1>4
  <2>2. CASE j = Len(records) + 1
    <3>1. owner[records[i]] = c
      BY <1>1, <1>2, <1>4, <2>1, <2>2
    <3>2. records[i] <= r /\ records[i] # r
      BY <1>1, <2>1, <3>1 DEF Placed, Recorded
    <3>3. QED
      BY <1>1, <1>2, <2>1, <2>2, <3>2
  <2>3. CASE j \in DOMAIN records
    BY <1>1, <1>2, <1>4, <2>1, <2>3 DEF KeepAliveIsSequential
  <2>4. QED
    BY <1>2, <2>2, <2>3
<1>5. KeepAliveIsSequential'
  BY <1>1, <1>2, <1>4 DEF KeepAliveIsSequential
<1>6. QED
  BY <1>3, <1>5

LEMMA ProxyStep == ProxyInv /\ [ProxyNext]_proxyVars => ProxyInv'
<1> SUFFICES ASSUME ProxyInv, [ProxyNext]_proxyVars
             PROVE  Placed' /\ KeepAliveIsSequential'
  BY TypesStep DEF ProxyInv
<1>1. CASE \E c \in Conns, keepAlive \in BOOLEAN : ReadRequest(c, keepAlive)
  BY <1>1, RequestStep
<1>2. CASE \E c \in Conns : NoRequest(c) \/ UpstreamFails(c) \/ RelayFails(c) \/ Refuse(c)
  BY <1>2, PlaceStep DEF NoRequest, UpstreamFails, RelayFails, Refuse, Busy
<1>3. CASE \E c \in Conns : Connect(c)
  BY <1>3, PlaceStep DEF Connect, Underway, Busy
<1>4. CASE \E c \in Conns : ConnectFails(c)
  BY <1>4, PlaceStep DEF ConnectFails, Underway, Busy
<1>5. CASE \E c \in Conns : ReadResponse(c)
  BY <1>5, PlaceStep DEF ReadResponse, Underway, Busy
<1>6. CASE \E c \in Conns : Relay(c)
  BY <1>6, RelayStep
<1>7. CASE UNCHANGED <<counter, at, rid, owner, records>>
  BY <1>7 DEF ProxyInv, Placed, KeepAliveIsSequential, Underway, Recorded
<1>8. QED
  BY <1>1, <1>2, <1>3, <1>4, <1>5, <1>6, <1>7
     DEF ProxyNext, ClientLeaves, ClientStops, ClientReads, AppServes, proxyVars

LEMMA ProxyInvariant == ProxySpec => []ProxyInv
<1>1. QED
  BY InitProxyInv, ProxyStep, PTL DEF ProxySpec

-----------------------------------------------------------------------------
(* Every variable of the proxy keeps its type, whatever fails in between.    *)
THEOREM ProxyTypesHold == ProxySpec => []ProxyTypeOK
<1>1. ProxyInv => ProxyTypeOK
  BY DEF ProxyInv
<1>2. QED
  BY <1>1, ProxyInvariant, PTL

(* _handle serves a connection one exchange at a time: its requests but the  *)
(* last are recorded, in their order, for any number of connections.         *)
THEOREM KeepAliveHolds == ProxySpec => []KeepAliveIsSequential
<1>1. ProxyInv => KeepAliveIsSequential
  BY DEF ProxyInv
<1>2. QED
  BY <1>1, ProxyInvariant, PTL

-----------------------------------------------------------------------------
(* The refinement. OpenRids are the exchanges between _handle's rid_factory  *)
(* and the end of _exchange; only their own connection moves them.           *)
OpenRids == {rid[c] : c \in {d \in Conns : Underway(d)}}

PhasesAreKnown ==
    /\ Recorded \subseteq 1..counter
    /\ OpenRids \subseteq 1..counter
    /\ OpenRids \cap Recorded = {}
    /\ \A r \in Rids :
          /\ PhaseOf(r) = "idle" <=> r > counter
          /\ PhaseOf(r) = "done" <=> r \in Recorded
          /\ PhaseOf(r) = "open" <=> r \in OpenRids
          /\ PhaseOf(r) = "aborted" <=>
                 r <= counter /\ r \notin Recorded /\ r \notin OpenRids

LEMMA PhaseIs == ProxyInv => PhasesAreKnown
<1> SUFFICES ASSUME ProxyInv
             PROVE  PhasesAreKnown
  OBVIOUS
<1> USE ProxyAssumption DEF ProxyInv, ProxyTypeOK
<1>1. Recorded \subseteq 1..counter
  BY DEF Recorded
<1>2. OpenRids \subseteq 1..counter /\ OpenRids \cap Recorded = {}
  BY DEF OpenRids, Placed
<1> SUFFICES ASSUME NEW r \in Rids
             PROVE  /\ PhaseOf(r) = "idle" <=> r > counter
                    /\ PhaseOf(r) = "done" <=> r \in Recorded
                    /\ PhaseOf(r) = "open" <=> r \in OpenRids
                    /\ PhaseOf(r) = "aborted" <=>
                           r <= counter /\ r \notin Recorded /\ r \notin OpenRids
  BY <1>1, <1>2 DEF PhasesAreKnown
<1>3. r \in OpenRids <=> \E c \in Conns : rid[c] = r /\ Underway(c)
  BY DEF OpenRids
<1>4. counter \in Nat /\ r \in Nat \ {0}
  BY DEF Rids
<1>5. CASE r > counter
  BY <1>1, <1>2, <1>4, <1>5 DEF PhaseOf
<1>6. CASE r <= counter /\ r \in Recorded
  <2>1. ~(r > counter) /\ r \notin OpenRids
    BY <1>2, <1>4, <1>6
  <2>2. PhaseOf(r) = "done"
    BY <1>6, <2>1 DEF PhaseOf
  <2>3. QED
    BY <1>1, <1>2, <1>6, <2>1, <2>2
<1>7. CASE r <= counter /\ r \notin Recorded /\ r \in OpenRids
  <2>1. ~(r > counter)
    BY <1>4, <1>7
  <2>2. PhaseOf(r) = "open"
    BY <1>3, <1>7, <2>1 DEF PhaseOf
  <2>3. QED
    BY <1>1, <1>2, <1>7, <2>1, <2>2
<1>8. CASE r <= counter /\ r \notin Recorded /\ r \notin OpenRids
  <2>1. ~(r > counter)
    BY <1>4, <1>8
  <2>2. PhaseOf(r) = "aborted"
    BY <1>3, <1>8, <2>1 DEF PhaseOf
  <2>3. QED
    BY <1>1, <1>2, <1>8, <2>1, <2>2
<1>9. QED
  BY <1>1, <1>2, <1>4, <1>5, <1>6, <1>7, <1>8

LEMMA PhaseIsNext == ProxyInv' => PhasesAreKnown'
  BY PhaseIs, PTL

(* Between two reachable states, a request id whose membership does not      *)
(* change keeps its phase.                                                   *)
LEMMA PhaseStays ==
    ASSUME ProxyInv, ProxyInv', NEW r \in Rids,
           r > counter <=> r > counter',
           r \in Recorded <=> r \in Recorded',
           r \in OpenRids <=> r \in OpenRids'
    PROVE  PhaseOf(r)' = PhaseOf(r)
<1>1. /\ counter \in Nat /\ counter' \in Nat /\ r \in Nat
  BY ProxyAssumption DEF ProxyInv, ProxyTypeOK, Rids
<1>2. PhasesAreKnown /\ PhasesAreKnown'
  BY PhaseIs, PhaseIsNext
<1>3. CASE r > counter
  BY <1>1, <1>2, <1>3 DEF PhasesAreKnown
<1>4. CASE r \in Recorded
  BY <1>1, <1>2, <1>4 DEF PhasesAreKnown
<1>5. CASE r \in OpenRids
  BY <1>1, <1>2, <1>5 DEF PhasesAreKnown
<1>6. CASE r <= counter /\ r \notin Recorded /\ r \notin OpenRids
  BY <1>1, <1>2, <1>6 DEF PhasesAreKnown
<1>7. QED
  BY <1>1, <1>3, <1>4, <1>5, <1>6

phaseBar == [r \in Rids |-> PhaseOf(r)]

LEMMA OneMoves ==
    ASSUME NEW r \in Rids, NEW to,
           PhaseOf(r)' = to,
           \A x \in Rids \ {r} : PhaseOf(x)' = PhaseOf(x)
    PROVE  E!Becomes(r, PhaseOf(r), to)
<1>1. phaseBar[r] = PhaseOf(r)
  BY DEF phaseBar
<1>2. phaseBar' = [x \in Rids |-> PhaseOf(x)']
  BY DEF phaseBar, Rids
<1>3. phaseBar' = [phaseBar EXCEPT ![r] = to]
  BY <1>2 DEF phaseBar
<1>4. QED
  BY <1>1, <1>3 DEF E!Becomes, phaseBar

LEMMA NobodyMoves ==
    ASSUME \A x \in Rids : PhaseOf(x)' = PhaseOf(x)
    PROVE  UNCHANGED phaseBar
<1>1. phaseBar' = [x \in Rids |-> PhaseOf(x)']
  BY DEF phaseBar, Rids
<1>2. QED
  BY <1>1 DEF phaseBar

(* A coroutine that closes its connection ends its exchange, and no other:   *)
(* the id of an exchange underway is its owner's alone.                      *)
LEMMA CloseEnds ==
    ASSUME ProxyInv, NEW c \in Conns, NEW place, Underway(c),
           at' = [at EXCEPT ![c] = place],
           place \notin Busy,
           rid' = rid
    PROVE  OpenRids' = OpenRids \ {rid[c]}
<1>1. \A d \in Conns : Underway(d)' <=> Underway(d) /\ d # c
  BY DEF ProxyInv, ProxyTypeOK, Underway, Busy
<1>2. \A d \in Conns : Underway(d) /\ rid[d] = rid[c] => d = c
  BY DEF ProxyInv, Placed
<1>3. QED
  BY <1>1, <1>2 DEF OpenRids

LEMMA StaysOpen ==
    ASSUME ProxyInv, NEW c \in Conns, NEW place,
           at' = [at EXCEPT ![c] = place],
           Underway(c) <=> place \in Busy,
           rid' = rid
    PROVE  OpenRids' = OpenRids
<1>1. \A d \in Conns : Underway(d)' <=> Underway(d)
  BY DEF ProxyInv, ProxyTypeOK, Underway, Busy
<1>2. QED
  BY <1>1 DEF OpenRids

LEMMA RequestOpens ==
    ASSUME ProxyInv, ProxyInv', NEW c \in Conns, NEW keepAlive \in BOOLEAN,
           ReadRequest(c, keepAlive)
    PROVE  E!ExchangesNext
<1>1. /\ counter' = counter + 1 /\ counter < MaxRid /\ counter \in Nat
      /\ rid' = [rid EXCEPT ![c] = counter + 1]
      /\ at[c] = "reading" /\ at' = [at EXCEPT ![c] = "connecting"]
      /\ Recorded' = Recorded
  BY ProxyAssumption DEF ProxyInv, ProxyTypeOK, ReadRequest, GoTo, Recorded
<1>2. OpenRids' = OpenRids \cup {counter + 1}
  <2>1. \A d \in Conns : Underway(d)' <=> Underway(d) \/ d = c
    BY <1>1 DEF ProxyInv, ProxyTypeOK, Underway, Busy
  <2>2. ~Underway(c) /\ rid'[c] = counter + 1
        /\ \A d \in Conns \ {c} : rid'[d] = rid[d]
    BY <1>1 DEF ProxyInv, ProxyTypeOK, Underway, Busy
  <2>3. QED
    BY <2>1, <2>2 DEF OpenRids
<1>3. counter + 1 \in Rids
  BY <1>1, ProxyAssumption DEF Rids
<1>4. PhaseOf(counter + 1) = "idle"
  BY <1>1, <1>3, PhaseIs DEF PhasesAreKnown
<1>5. \A r \in Rids : r = counter + 1 => PhaseOf(r)' = "open"
  BY <1>2, PhaseIsNext DEF PhasesAreKnown, Rids
<1>6. \A x \in Rids \ {counter + 1} : PhaseOf(x)' = PhaseOf(x)
  <2>1. ASSUME NEW x \in Rids \ {counter + 1}
        PROVE  PhaseOf(x)' = PhaseOf(x)
    <3>1. x > counter <=> x > counter'
      BY <1>1 DEF Rids
    <3>2. QED
      BY <1>1, <1>2, <3>1, PhaseStays
  <2>2. QED
    BY <2>1
<1>7. PICK r \in Rids : r = counter + 1
  BY <1>3
<1>8. PhaseOf(r) = "idle" /\ PhaseOf(r)' = "open"
  BY <1>4, <1>5, <1>7
<1>9. E!Becomes(r, PhaseOf(r), "open")
  BY <1>6, <1>7, <1>8, OneMoves
<1>10. QED
  BY <1>8, <1>9 DEF E!ExchangesNext

(* The exchange of connection c ends, recorded or not.                       *)
LEMMA EndOf ==
    ASSUME ProxyInv, ProxyInv', NEW c \in Conns, Underway(c), counter' = counter,
           OpenRids' = OpenRids \ {rid[c]},
           Recorded' \in {Recorded, Recorded \cup {rid[c]}}
    PROVE  E!ExchangesNext
<1>1. rid[c] \in OpenRids
  BY DEF OpenRids
<1>2. PICK r \in Rids : r = rid[c]
  <2>1. rid[c] \in Rids
    BY ProxyAssumption DEF ProxyInv, ProxyTypeOK, Placed, Rids
  <2>2. QED
    BY <2>1
<1>3. PhaseOf(r) = "open"
  BY <1>1, <1>2, PhaseIs DEF PhasesAreKnown
<1>4. PhaseOf(r)' = "done" \/ PhaseOf(r)' = "aborted"
  <2>1. r <= counter /\ r \notin OpenRids'
    BY <1>2 DEF ProxyInv, ProxyTypeOK
  <2>2. CASE r \in Recorded'
    BY <2>2, PhaseIsNext DEF PhasesAreKnown
  <2>3. CASE r \notin Recorded'
    BY <2>1, <2>3, PhaseIsNext DEF PhasesAreKnown
  <2>4. QED
    BY <2>2, <2>3
<1>5. \A x \in Rids \ {r} : PhaseOf(x)' = PhaseOf(x)
  BY <1>2, PhaseStays
<1>6. CASE PhaseOf(r)' = "done"
  BY <1>3, <1>5, <1>6, OneMoves DEF E!ExchangesNext
<1>7. CASE PhaseOf(r)' = "aborted"
  BY <1>3, <1>5, <1>7, OneMoves DEF E!ExchangesNext
<1>8. QED
  BY <1>4, <1>6, <1>7

LEMMA QuietStep ==
    ASSUME ProxyInv, ProxyInv',
           UNCHANGED counter, Recorded' = Recorded, OpenRids' = OpenRids
    PROVE  UNCHANGED phaseBar
<1>1. \A x \in Rids : PhaseOf(x)' = PhaseOf(x)
  BY PhaseStays
<1>2. QED
  BY <1>1, NobodyMoves

LEMMA ProxySimulates ==
    ProxyInv /\ ProxyInv' /\ [ProxyNext]_proxyVars
        => [E!ExchangesNext]_phaseBar
<1> SUFFICES ASSUME ProxyInv, ProxyInv', [ProxyNext]_proxyVars
             PROVE  E!ExchangesNext \/ UNCHANGED phaseBar
  OBVIOUS
<1>1. ASSUME NEW c \in Conns, NEW keepAlive \in BOOLEAN, ReadRequest(c, keepAlive)
      PROVE  E!ExchangesNext
  BY <1>1, RequestOpens
<1>2. ASSUME NEW c \in Conns, Refuse(c) \/ UpstreamFails(c) \/ RelayFails(c)
      PROVE  E!ExchangesNext
  <2>1. /\ Underway(c) /\ at' = [at EXCEPT ![c] = "closed"]
        /\ UNCHANGED <<counter, rid, records>>
    BY <1>2 DEF Refuse, UpstreamFails, RelayFails, Underway, Busy, GoTo
  <2>2. OpenRids' = OpenRids \ {rid[c]}
    BY <2>1, CloseEnds DEF Busy
  <2>3. Recorded' = Recorded
    BY <2>1 DEF Recorded
  <2>4. QED
    BY <2>1, <2>2, <2>3, EndOf
<1>3. ASSUME NEW c \in Conns, Relay(c)
      PROVE  E!ExchangesNext
  <2>1. /\ Underway(c) /\ UNCHANGED <<counter, rid>>
        /\ at' = [at EXCEPT ![c] = IF keep[c] THEN "reading" ELSE "closed"]
        /\ records' = Append(records, rid[c])
    BY <1>3 DEF Relay, Underway, Busy, GoTo
  <2>2. OpenRids' = OpenRids \ {rid[c]}
    <3>1. (IF keep[c] THEN "reading" ELSE "closed")
              \notin Busy
      BY DEF Busy
    <3>2. QED
      BY <2>1, <3>1, CloseEnds
  <2>3. Recorded' = Recorded \cup {rid[c]}
    <3>1. /\ counter \in Nat /\ records \in Seq(1..counter) /\ rid[c] \in 1..counter
      BY <2>1, ProxyAssumption DEF ProxyInv, ProxyTypeOK, Placed
    <3>2. {Append(records, rid[c])[i] : i \in DOMAIN Append(records, rid[c])}
              = Recorded \cup {rid[c]}
      BY <3>1, RecordsGrow
    <3>3. QED
      BY <2>1, <3>2 DEF Recorded
  <2>4. QED
    BY <2>1, <2>2, <2>3, EndOf
<1>4. ASSUME NEW c \in Conns,
             NoRequest(c) \/ Connect(c) \/ ConnectFails(c) \/ ReadResponse(c)
      PROVE  UNCHANGED phaseBar
  <2>1. UNCHANGED <<counter, rid, records>>
    BY <1>4 DEF NoRequest, Connect, ConnectFails, ReadResponse
  <2>2. OpenRids' = OpenRids
    <3>1. CASE NoRequest(c)
      <4>1. at' = [at EXCEPT ![c] = "closed"] /\ ~Underway(c)
        BY <3>1 DEF NoRequest, GoTo, Underway, Busy
      <4>2. QED
        BY <2>1, <4>1, StaysOpen DEF Busy
    <3>2. CASE Connect(c)
      <4>1. at' = [at EXCEPT ![c] = "waiting"] /\ Underway(c)
        BY <3>2 DEF Connect, GoTo, Underway, Busy
      <4>2. QED
        BY <2>1, <4>1, StaysOpen DEF Busy
    <3>3. CASE ReadResponse(c)
      <4>1. at' = [at EXCEPT ![c] = "relaying"] /\ Underway(c)
        BY <3>3 DEF ReadResponse, GoTo, Underway, Busy
      <4>2. QED
        BY <2>1, <4>1, StaysOpen DEF Busy
    <3>4. CASE ConnectFails(c)
      <4>1. at' = [at EXCEPT ![c] = "refusing"] /\ Underway(c)
        BY <3>4 DEF ConnectFails, GoTo, Underway, Busy
      <4>2. QED
        BY <2>1, <4>1, StaysOpen DEF Busy
    <3>5. QED
      BY <1>4, <3>1, <3>2, <3>3, <3>4
  <2>3. Recorded' = Recorded
    BY <2>1 DEF Recorded
  <2>4. QED
    BY <2>1, <2>2, <2>3, QuietStep
<1>5. ASSUME UNCHANGED <<counter, at, rid, records>>
      PROVE  UNCHANGED phaseBar
  <2>1. Recorded' = Recorded /\ OpenRids' = OpenRids
    BY <1>5 DEF Recorded, OpenRids, Underway
  <2>2. QED
    BY <1>5, <2>1, QuietStep
<1>6. QED
  BY <1>1, <1>2, <1>3, <1>4, <1>5
     DEF ProxyNext, ClientLeaves, ClientStops, ClientReads, AppServes, proxyVars

(* The proxy implements what the rest of the scorer assumes of it: an id is  *)
(* used for one exchange, which ends once, recorded or not, for good.        *)
THEOREM ProxyRefinement == ProxySpec => ImplementsExchanges
<1>1. ProxyInit => E!ExchangesInit
  <2> SUFFICES ASSUME ProxyInit
               PROVE  E!ExchangesInit
    OBVIOUS
  <2>1. \A r \in Rids : PhaseOf(r) = "idle"
    <3>1. \A r \in Rids : r > counter
      BY ProxyAssumption DEF ProxyInit, Rids
    <3>2. QED
      BY <3>1, InitProxyInv, PhaseIs DEF PhasesAreKnown
  <2>2. QED
    BY <2>1 DEF E!ExchangesInit
<1>2. ProxyInv /\ ProxyInv' /\ [ProxyNext]_proxyVars => [E!ExchangesNext]_phaseBar
  BY ProxySimulates
<1>3. QED
  BY <1>1, <1>2, ProxyInvariant, PTL
     DEF ProxySpec, ImplementsExchanges, E!ExchangesSpec, phaseBar

=============================================================================
