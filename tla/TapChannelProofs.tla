-------------------------- MODULE TapChannelProofs --------------------------
(* The tap channel for any queue, any number of records and any faults: a    *)
(* torn line is the last of its connection, and each connection delivers in  *)
(* the order of the emits, each record once.                                 *)
EXTENDS TapChannel, SequenceTheorems, FiniteSetTheorems, TLAPS

-----------------------------------------------------------------------------
(* The records sent over connection c: those that wait and those fed.        *)
Waiting(c) == {conns[c].lines[i].rec : i \in DOMAIN conns[c].lines}
Arrived(c) == {fed[k].rec : k \in {j \in DOMAIN fed : fed[j].conn = c}}

(* The connections a copy of record r was sent over, and not lost with.      *)
Carriers(r) == {c \in DOMAIN conns : r \in Waiting(c) \cup Arrived(c)}

(* The queue is in order, behind the record in the writer's hand.            *)
QueueInOrder ==
    /\ held <= emitted
    /\ \A i \in DOMAIN queue : held < queue[i] /\ queue[i] <= emitted
    /\ \A i, j \in DOMAIN queue : i < j => queue[i] < queue[j]

(* A connection holds its lines in order, after what it delivered.           *)
LinesInOrder ==
    /\ \A c \in DOMAIN conns : \A i, j \in DOMAIN conns[c].lines :
          i < j => conns[c].lines[i].rec < conns[c].lines[j].rec
    /\ \A c \in DOMAIN conns : \A x \in Arrived(c), y \in Waiting(c) : x < y

(* What was sent is older than what is queued, and on the writer's own       *)
(* connection older than what it has in hand.                                *)
SentIsOlder ==
    \A c \in DOMAIN conns : \A x \in Waiting(c) \cup Arrived(c) :
        /\ x <= emitted
        /\ \A i \in DOMAIN queue : x < queue[i]
        /\ c = sock /\ held # 0 => x < held

SocketIsOpen == sock # 0 => conns[sock].open
TriesAreLeft == held # 0 => tries \in 1..Attempts

ChannelInv ==
    /\ ChannelTypeOK
    /\ QueueInOrder
    /\ LinesInOrder
    /\ SentIsOlder
    /\ SocketIsOpen
    /\ TriesAreLeft
    /\ TornLineIsLast
    /\ ConnectionsAreInOrder

(* The record in hand was not sent before its first attempt, and over one    *)
(* connection at most before its last; no record was sent over three.        *)
CopiesAreFew ==
    \A r \in Records :
        /\ r = held /\ tries = Attempts => Carriers(r) = {}
        /\ r = held => \A c, d \in Carriers(r) : c = d
        /\ \A b, c, d \in Carriers(r) : b = c \/ b = d \/ c = d

(* What a step may do to the copies under way: add none, or put the record in*)
(* hand on the connection of the attempt.                                    *)
NoNewCopies == \A r : Carriers(r)' \subseteq Carriers(r)

OneNewCopy ==
    \A r : \A c \in Carriers(r)' : c \in Carriers(r) \/ (r = held /\ c = Target)

LEMMA Numbers ==
    ASSUME ChannelTypeOK
    PROVE  /\ emitted \in Nat /\ held \in Nat
           /\ \A i \in DOMAIN queue : queue[i] \in Records
           /\ \A c \in DOMAIN conns :
                 /\ conns[c] \in Connection
                 /\ \A i \in DOMAIN conns[c].lines : conns[c].lines[i] \in Lines
                 /\ \A x \in Waiting(c) \cup Arrived(c) : x \in Records
           /\ Records \subseteq Nat \ {0}
           /\ \A k \in DOMAIN fed : fed[k].rec \in Records /\ fed[k].conn \in DOMAIN conns
<1>1. /\ emitted \in Nat /\ held \in Nat /\ Records \subseteq Nat \ {0}
  BY TapChannelAssumption DEF ChannelTypeOK, Records
<1>2. \A i \in DOMAIN queue : queue[i] \in Records
  BY DEF ChannelTypeOK
<1>3. \A k \in DOMAIN fed : fed[k].rec \in Records /\ fed[k].conn \in DOMAIN conns
  <2> DEFINE Feeds == [rec : Records, conn : DOMAIN conns]
  <2>1. fed \in Seq(Feeds)
    BY DEF ChannelTypeOK
  <2>2. \A k \in DOMAIN fed : fed[k] \in Feeds
    <3> HIDE DEF Feeds
    <3>1. QED
      BY <2>1
  <2>3. QED
    BY <2>2
<1>4. ASSUME NEW c \in DOMAIN conns
      PROVE  /\ conns[c] \in Connection
             /\ \A i \in DOMAIN conns[c].lines : conns[c].lines[i] \in Lines
             /\ \A x \in Waiting(c) \cup Arrived(c) : x \in Records
  <2>1. conns[c] \in Connection
    BY DEF ChannelTypeOK
  <2>2. conns[c].lines \in Seq(Lines)
    BY <2>1 DEF Connection
  <2>3. \A i \in DOMAIN conns[c].lines : conns[c].lines[i] \in Lines
    BY <2>2
  <2>4. \A x \in Waiting(c) \cup Arrived(c) : x \in Records
    BY <1>3, <2>3 DEF Waiting, Arrived, Lines
  <2>5. QED
    BY <2>1, <2>3, <2>4
<1>5. QED
  BY <1>1, <1>2, <1>3, <1>4

-----------------------------------------------------------------------------
(* Queue and writer.                                                         *)

LEMMA EmitStep == ChannelInv /\ Emit => ChannelInv'
<1> SUFFICES ASSUME ChannelInv, Emit
             PROVE  ChannelInv'
  OBVIOUS
<1>1. /\ emitted' = emitted + 1 /\ emitted \in Nat /\ emitted' \in Records
      /\ UNCHANGED <<held, tries, sock, conns, up, fed, faults>>
      /\ queue \in Seq(Records)
  BY TapChannelAssumption DEF Emit, ChannelInv, ChannelTypeOK, Records, writerVars
<1>2. /\ queue' \in Seq(Records) /\ Len(queue') <= QueueSize
      /\ \A i \in DOMAIN queue' : \/ i \in DOMAIN queue /\ queue'[i] = queue[i]
                                  \/ i = Len(queue) + 1 /\ queue'[i] = emitted + 1
      /\ DOMAIN queue = 1..Len(queue) /\ Len(queue) \in Nat
  <2>1. CASE Len(queue) < QueueSize
    <3>1. queue' = Append(queue, emitted + 1)
      BY <2>1 DEF Emit
    <3>2. Append(queue, emitted + 1) \in Seq(Records)
          /\ Len(Append(queue, emitted + 1)) = Len(queue) + 1
      BY <1>1
    <3>3. \A i \in 1..(Len(queue) + 1) :
              \/ i \in DOMAIN queue /\ Append(queue, emitted + 1)[i] = queue[i]
              \/ i = Len(queue) + 1 /\ Append(queue, emitted + 1)[i] = emitted + 1
      BY <1>1
    <3>4. DOMAIN Append(queue, emitted + 1) = 1..(Len(queue) + 1)
          /\ DOMAIN queue = 1..Len(queue) /\ Len(queue) \in Nat
      BY <1>1
    <3>5. QED
      BY <2>1, <3>1, <3>2, <3>3, <3>4, TapChannelAssumption
  <2>2. CASE ~(Len(queue) < QueueSize)
    <3>1. queue' = queue /\ Len(queue) <= QueueSize
      BY <2>2 DEF Emit, ChannelInv, ChannelTypeOK
    <3>2. DOMAIN queue = 1..Len(queue) /\ Len(queue) \in Nat
      BY <1>1
    <3>3. QED
      BY <1>1, <3>1, <3>2
  <2>3. QED
    BY <2>1, <2>2
<1>3. ChannelTypeOK'
  BY <1>1, <1>2, TapChannelAssumption DEF ChannelInv, ChannelTypeOK, Emit
<1>4. held \in Nat /\ \A i \in DOMAIN queue : queue[i] \in Nat
  BY Numbers DEF ChannelInv
<1>5. QueueInOrder'
  BY <1>1, <1>2, <1>4 DEF ChannelInv, QueueInOrder
<1>6. /\ LinesInOrder' /\ SocketIsOpen' /\ TriesAreLeft' /\ TornLineIsLast'
      /\ ConnectionsAreInOrder'
  BY <1>1 DEF ChannelInv, LinesInOrder, SocketIsOpen, TriesAreLeft, TornLineIsLast,
     ConnectionsAreInOrder, Waiting, Arrived, Attempts
<1>7. \A c \in DOMAIN conns : \A x \in Waiting(c) \cup Arrived(c) : x \in Nat
  BY Numbers DEF ChannelInv
<1>8. \A c : Waiting(c)' = Waiting(c) /\ Arrived(c)' = Arrived(c)
  BY <1>1 DEF Waiting, Arrived
<1>9. SentIsOlder'
  BY <1>1, <1>2, <1>4, <1>7, <1>8 DEF ChannelInv, SentIsOlder
<1>10. QED
  BY <1>3, <1>5, <1>6, <1>9 DEF ChannelInv

LEMMA TakeStep == ChannelInv /\ Take => ChannelInv'
<1> SUFFICES ASSUME ChannelInv, Take
             PROVE  ChannelInv'
  OBVIOUS
<1>1. /\ UNCHANGED <<emitted, sock, conns, up, fed, faults>>
      /\ queue \in Seq(Records) /\ queue # <<>>
      /\ held = 0 /\ held' = queue[1] /\ tries' = Attempts /\ queue' = Tail(queue)
  BY DEF Take, ChannelInv, ChannelTypeOK
<1>2. /\ queue' \in Seq(Records) /\ Len(queue') = Len(queue) - 1
      /\ Len(queue) \in Nat \ {0} /\ DOMAIN queue = 1..Len(queue)
      /\ DOMAIN queue' = 1..(Len(queue) - 1)
      /\ \A i \in DOMAIN queue' : queue'[i] = queue[i + 1]
  BY <1>1
<1>3. held' \in Records /\ \A i \in DOMAIN queue : queue[i] \in Nat
  BY <1>1, <1>2, Numbers DEF ChannelInv
<1>4. ChannelTypeOK'
  <2>1. held' \in 0..MaxTaps /\ tries' \in 0..Attempts
    BY <1>1, <1>3 DEF Records, Attempts
  <2>2. Len(queue') <= QueueSize
    BY <1>2, TapChannelAssumption DEF ChannelInv, ChannelTypeOK
  <2>3. QED
    BY <1>1, <1>2, <2>1, <2>2 DEF ChannelInv, ChannelTypeOK
<1>5. QueueInOrder'
  BY <1>1, <1>2, <1>3 DEF ChannelInv, QueueInOrder
<1>6. /\ LinesInOrder' /\ SocketIsOpen' /\ TriesAreLeft' /\ TornLineIsLast'
      /\ ConnectionsAreInOrder'
  BY <1>1 DEF ChannelInv, LinesInOrder, SocketIsOpen, TriesAreLeft, TornLineIsLast,
     ConnectionsAreInOrder, Waiting, Arrived, Attempts
<1>7. \A c : Waiting(c)' = Waiting(c) /\ Arrived(c)' = Arrived(c)
  BY <1>1 DEF Waiting, Arrived
<1>8. SentIsOlder'
  BY <1>1, <1>2, <1>7 DEF ChannelInv, SentIsOlder
<1>9. QED
  BY <1>4, <1>5, <1>6, <1>8 DEF ChannelInv

-----------------------------------------------------------------------------
(* Lines are lost with their connection, and a socket is given up: Refused,  *)
(* EndOfStream, HandlerDies and CollectorStops.                              *)
LEMMA LoseStep ==
    ASSUME ChannelInv, conns' \in Seq(Connection), Len(conns') = Len(conns),
           \A c \in DOMAIN conns :
              /\ conns'[c].lines \in {conns[c].lines, <<>>}
              /\ conns'[c].open \in {conns[c].open, FALSE},
           UNCHANGED <<emitted, queue, fed>>,
           sock' \in {sock, 0}, held' \in {held, 0}, tries' \in 0..Attempts,
           TriesAreLeft',
           sock' # 0 => conns'[sock'].open = conns[sock'].open,
           up' \in BOOLEAN, faults' \in 0..MaxFaults
    PROVE  ChannelInv' /\ NoNewCopies
<1>0. \A c \in DOMAIN conns : \/ conns'[c].lines = conns[c].lines
                              \/ DOMAIN conns'[c].lines = {}
  <2>1. \A c \in DOMAIN conns : conns'[c].lines = conns[c].lines \/ conns'[c].lines = <<>>
    OBVIOUS
  <2>2. DOMAIN <<>> = {}
    OBVIOUS
  <2>3. QED
    BY <2>1, <2>2
<1>1. /\ DOMAIN conns' = DOMAIN conns /\ DOMAIN conns = 1..Len(conns)
      /\ Len(conns) \in Nat /\ sock \in 0..Len(conns)
  BY DEF ChannelInv, ChannelTypeOK
<1>2. ChannelTypeOK'
  <2>1. held' \in 0..MaxTaps /\ sock' \in 0..Len(conns')
    BY <1>1, TapChannelAssumption DEF ChannelInv, ChannelTypeOK
  <2>2. fed' \in Seq([rec : Records, conn : DOMAIN conns'])
    BY <1>1 DEF ChannelInv, ChannelTypeOK
  <2>3. QED
    BY <2>1, <2>2 DEF ChannelInv, ChannelTypeOK
<1>3. QueueInOrder'
  BY Numbers DEF ChannelInv, QueueInOrder
<1>4. \A c \in DOMAIN conns : Waiting(c)' \subseteq Waiting(c) /\ Arrived(c)' = Arrived(c)
  <2>1. \A c \in DOMAIN conns : Waiting(c)' = Waiting(c) \/ Waiting(c)' = {}
    BY <1>0 DEF Waiting
  <2>2. QED
    BY <2>1 DEF Arrived
<1>5. LinesInOrder'
  <2>1. \A c \in DOMAIN conns' : \A i, j \in DOMAIN conns'[c].lines :
            i < j => conns'[c].lines[i].rec < conns'[c].lines[j].rec
    BY <1>0, <1>1 DEF ChannelInv, LinesInOrder
  <2>2. QED
    BY <1>1, <1>4, <2>1 DEF ChannelInv, LinesInOrder
<1>6. SentIsOlder'
  BY <1>1, <1>4 DEF ChannelInv, SentIsOlder
<1>7. SocketIsOpen'
  BY DEF ChannelInv, SocketIsOpen
<1>8. TornLineIsLast'
  <2>1. ASSUME NEW c \in DOMAIN conns, NEW i \in DOMAIN conns'[c].lines,
               conns'[c].lines[i].form # "whole"
        PROVE  i = Len(conns'[c].lines) /\ ~conns'[c].open /\ sock' # c
    <3>1. conns'[c].lines = conns[c].lines
      BY <1>0, <2>1
    <3>2. i = Len(conns[c].lines) /\ ~conns[c].open /\ sock # c
      BY <2>1, <3>1 DEF ChannelInv, TornLineIsLast
    <3>3. ~conns'[c].open
      BY <3>2
    <3>4. sock' # c
      BY <1>1, <3>2
    <3>5. QED
      BY <3>1, <3>2, <3>3, <3>4
  <2>2. QED
    BY <1>1, <2>1 DEF TornLineIsLast
<1>9. ConnectionsAreInOrder'
  BY DEF ChannelInv, ConnectionsAreInOrder
<1>10. NoNewCopies
  BY <1>1, <1>4 DEF NoNewCopies, Carriers
<1>11. QED
  BY <1>2, <1>3, <1>5, <1>6, <1>7, <1>8, <1>9, <1>10 DEF ChannelInv

LEMMA RetryGivesUp ==
    ASSUME ChannelInv, held # 0, Retry
    PROVE  sock' = 0 /\ held' \in {held, 0} /\ tries' \in 0..Attempts /\ TriesAreLeft'
<1>1. tries \in 1..2
  BY DEF ChannelInv, TriesAreLeft, Attempts
<1>2. QED
  BY <1>1 DEF Retry, TriesAreLeft, Attempts

LEMMA RefusedStep == ChannelInv /\ Refused => ChannelInv' /\ NoNewCopies
<1> SUFFICES ASSUME ChannelInv, Refused
             PROVE  ChannelInv' /\ NoNewCopies
  OBVIOUS
<1>1. sock' = 0 /\ held' \in {held, 0} /\ tries' \in 0..Attempts /\ TriesAreLeft'
  BY RetryGivesUp DEF Refused
<1>2. UNCHANGED <<emitted, queue, fed, up, faults>>
      /\ up \in BOOLEAN /\ faults \in 0..MaxFaults
      /\ conns \in Seq(Connection) /\ sock \in 0..Len(conns)
  BY DEF Refused, appVars, ChannelInv, ChannelTypeOK
<1>3. /\ conns' \in Seq(Connection) /\ Len(conns') = Len(conns)
      /\ \A c \in DOMAIN conns :
            /\ conns'[c].lines \in {conns[c].lines, <<>>}
            /\ conns'[c].open \in {conns[c].open, FALSE}
  <2>1. CASE sock = 0
    BY <1>2, <2>1 DEF Refused
  <2>2. CASE sock # 0
    <3>1. sock \in DOMAIN conns /\ conns[sock] \in Connection
      BY <1>2, <2>2
    <3>2. conns' = [conns EXCEPT ![sock] = [conns[sock] EXCEPT !.open = FALSE]]
      BY <2>2 DEF Refused
    <3>3. [conns[sock] EXCEPT !.open = FALSE] \in Connection
      BY <3>1 DEF Connection
    <3>4. QED
      BY <1>2, <3>1, <3>2, <3>3 DEF Connection
  <2>3. QED
    BY <2>1, <2>2
<1>4. QED
  BY <1>1, <1>2, <1>3, LoseStep

LEMMA EndOfStreamStep ==
    ASSUME ChannelInv, NEW c \in DOMAIN conns, EndOfStream(c) \/ HandlerDies(c)
    PROVE  ChannelInv' /\ NoNewCopies
<1>1. /\ UNCHANGED <<emitted, queue, held, tries, sock, fed, up>>
      /\ up' \in BOOLEAN /\ tries' \in 0..Attempts /\ TriesAreLeft'
      /\ conns \in Seq(Connection) /\ conns[c] \in Connection
      /\ faults' \in 0..MaxFaults
  <2>1. UNCHANGED <<emitted, queue, held, tries, sock, fed, up>>
    BY DEF EndOfStream, HandlerDies, appVars, writerVars
  <2>2. conns \in Seq(Connection) /\ conns[c] \in Connection
    BY DEF ChannelInv, ChannelTypeOK
  <2>3. faults' \in 0..MaxFaults
    BY TapChannelAssumption DEF EndOfStream, HandlerDies, ChannelInv, ChannelTypeOK
  <2>4. up' \in BOOLEAN /\ tries' \in 0..Attempts /\ TriesAreLeft'
    BY <2>1 DEF ChannelInv, ChannelTypeOK, TriesAreLeft
  <2>5. QED
    BY <2>1, <2>2, <2>3, <2>4
<1>2. PICK lines \in {conns[c].lines, <<>>} :
          conns' = [conns EXCEPT ![c] = [conns[c] EXCEPT !.served = FALSE, !.lines = lines]]
  <2>1. CASE EndOfStream(c)
    <3>1. [conns[c] EXCEPT !.served = FALSE]
              = [conns[c] EXCEPT !.served = FALSE, !.lines = conns[c].lines]
      BY <1>1 DEF Connection
    <3>2. conns' = [conns EXCEPT ![c] = [conns[c] EXCEPT !.served = FALSE]]
      BY <2>1 DEF EndOfStream
    <3>3. QED
      BY <3>1, <3>2
  <2>2. CASE HandlerDies(c)
    BY <2>2 DEF HandlerDies
  <2>3. QED
    BY <2>1, <2>2
<1>3. [conns[c] EXCEPT !.served = FALSE, !.lines = lines] \in Connection
  <2>1. conns[c].lines \in Seq(Lines) /\ <<>> \in Seq(Lines)
    BY <1>1 DEF Connection
  <2>2. lines \in Seq(Lines)
    BY <2>1
  <2>3. QED
    BY <1>1, <2>2 DEF Connection
<1>4. /\ conns' \in Seq(Connection) /\ Len(conns') = Len(conns)
      /\ \A d \in DOMAIN conns :
            /\ conns'[d].lines \in {conns[d].lines, <<>>}
            /\ conns'[d].open \in {conns[d].open, FALSE}
            /\ conns'[d].open = conns[d].open
  <2> DEFINE new == [conns[c] EXCEPT !.served = FALSE, !.lines = lines]
  <2>1. new \in Connection /\ new.lines = lines /\ new.open = conns[c].open
    BY <1>1, <1>3 DEF Connection
  <2>2. conns' = [conns EXCEPT ![c] = new]
    BY <1>2
  <2> HIDE DEF new
  <2>3. conns' \in Seq(Connection) /\ Len(conns') = Len(conns)
    BY <1>1, <2>1, <2>2
  <2>4. \A d \in DOMAIN conns : /\ conns'[d].open = conns[d].open
                               /\ conns'[d].lines = IF d = c THEN lines ELSE conns[d].lines
    BY <1>1, <2>1, <2>2
  <2>5. QED
    BY <2>3, <2>4
<1>5. sock' # 0 => conns'[sock'].open = conns[sock'].open
  <2>1. sock \in 0..Len(conns) /\ DOMAIN conns = 1..Len(conns) /\ Len(conns) \in Nat
    BY DEF ChannelInv, ChannelTypeOK
  <2>2. sock' = sock /\ (sock # 0 => sock \in DOMAIN conns)
    BY <1>1, <2>1
  <2>3. QED
    BY <1>4, <2>2
<1>6. sock' \in {sock, 0} /\ held' \in {held, 0} /\ UNCHANGED <<emitted, queue, fed>>
  BY <1>1
<1>7. QED
  BY <1>1, <1>4, <1>5, <1>6, LoseStep

LEMMA StopStep == ChannelInv /\ CollectorStops => ChannelInv' /\ NoNewCopies
<1> SUFFICES ASSUME ChannelInv, CollectorStops
             PROVE  ChannelInv' /\ NoNewCopies
  OBVIOUS
<1>1. /\ UNCHANGED <<emitted, queue, held, tries, sock, fed>>
      /\ up' \in BOOLEAN /\ faults' \in 0..MaxFaults
      /\ conns' = [c \in DOMAIN conns |->
                      [conns[c] EXCEPT !.served = FALSE, !.lines = <<>>]]
  <2>1. UNCHANGED <<emitted, queue, held, tries, sock, fed>> /\ up' = FALSE
    BY DEF CollectorStops, appVars, writerVars
  <2>2. faults' \in 0..MaxFaults
    <3>1. faults \in 0..MaxFaults
      BY DEF ChannelInv, ChannelTypeOK
    <3>2. faults' = faults + 1 /\ faults < MaxFaults
      BY DEF CollectorStops
    <3>3. QED
      BY <3>1, <3>2, TapChannelAssumption
  <2>3. conns' = [c \in DOMAIN conns |->
                     [conns[c] EXCEPT !.served = FALSE, !.lines = <<>>]]
    BY DEF CollectorStops
  <2>4. QED
    BY <2>1, <2>2, <2>3
<1>2. conns \in Seq(Connection) /\ tries' \in 0..Attempts /\ TriesAreLeft'
  BY <1>1 DEF ChannelInv, ChannelTypeOK, TriesAreLeft
<1>3. \A c \in DOMAIN conns :
          /\ [conns[c] EXCEPT !.served = FALSE, !.lines = <<>>] \in Connection
          /\ [conns[c] EXCEPT !.served = FALSE, !.lines = <<>>].lines = <<>>
          /\ [conns[c] EXCEPT !.served = FALSE, !.lines = <<>>].open = conns[c].open
  <2>1. \A c \in DOMAIN conns : conns[c] \in Connection
    BY <1>2
  <2>2. <<>> \in Seq(Lines)
    OBVIOUS
  <2>3. QED
    BY <2>1, <2>2 DEF Connection
<1>4. /\ conns' \in Seq(Connection) /\ Len(conns') = Len(conns)
      /\ DOMAIN conns = 1..Len(conns) /\ Len(conns) \in Nat
  <2>1. DOMAIN conns = 1..Len(conns) /\ Len(conns) \in Nat
    BY <1>2
  <2>2. conns' \in [1..Len(conns) -> Connection]
    BY <1>1, <1>3, <2>1
  <2>3. QED
    BY <2>1, <2>2
<1>5. \A c \in DOMAIN conns :
          /\ conns'[c].lines \in {conns[c].lines, <<>>}
          /\ conns'[c].open \in {conns[c].open, FALSE}
          /\ conns'[c].open = conns[c].open
  BY <1>1, <1>3
<1>6. sock' # 0 => conns'[sock'].open = conns[sock'].open
  <2>1. sock \in 0..Len(conns)
    BY DEF ChannelInv, ChannelTypeOK
  <2>2. sock' = sock
    BY <1>1
  <2>3. sock # 0 => sock \in DOMAIN conns
    BY <1>4, <2>1
  <2>4. QED
    BY <1>5, <2>2, <2>3
<1>7. sock' \in {sock, 0} /\ held' \in {held, 0} /\ UNCHANGED <<emitted, queue, fed>>
  BY <1>1
<1>8. QED
  BY <1>1, <1>2, <1>4, <1>5, <1>6, <1>7, LoseStep

-----------------------------------------------------------------------------
(* A line is read: it is the oldest of its connection, and newer than all    *)
(* that arrived over it.                                                     *)
LEMMA ReadStep ==
    ASSUME ChannelInv, NEW c \in DOMAIN conns, ReadLine(c)
    PROVE  ChannelInv' /\ NoNewCopies
<1> DEFINE lines == conns[c].lines
           rest == Tail(lines)
           line == Head(lines)
<1>1. /\ UNCHANGED <<emitted, queue, held, tries, sock, up, faults>>
      /\ lines # <<>>
      /\ conns' = [conns EXCEPT ![c] = [conns[c] EXCEPT !.lines = rest]]
      /\ fed' = IF line.form = "torn" THEN fed ELSE Append(fed, [rec |-> line.rec, conn |-> c])
  BY DEF ReadLine, appVars, writerVars
<1>2. /\ conns \in Seq(Connection) /\ conns[c] \in Connection /\ lines \in Seq(Lines)
      /\ DOMAIN conns = 1..Len(conns) /\ Len(conns) \in Nat
      /\ fed \in Seq([rec : Records, conn : DOMAIN conns])
  BY Numbers DEF ChannelInv, ChannelTypeOK, Connection
<1>3. /\ rest \in Seq(Lines) /\ Len(lines) \in Nat \ {0} /\ Len(rest) = Len(lines) - 1
      /\ DOMAIN lines = 1..Len(lines) /\ DOMAIN rest = 1..(Len(lines) - 1)
      /\ \A i \in DOMAIN rest : rest[i] = lines[i + 1]
      /\ line = lines[1] /\ line \in Lines
  <2> HIDE DEF lines
  <2>1. QED
    BY <1>1, <1>2
<1> HIDE DEF rest
<1>4. [conns[c] EXCEPT !.lines = rest] \in Connection
  BY <1>2, <1>3 DEF Connection
<1>5. /\ conns' \in Seq(Connection) /\ Len(conns') = Len(conns) /\ DOMAIN conns' = DOMAIN conns
      /\ conns'[c].lines = rest /\ conns'[c].open = conns[c].open
      /\ \A d \in DOMAIN conns \ {c} : conns'[d] = conns[d]
  BY <1>1, <1>2, <1>4 DEF Connection
<1> HIDE DEF line, lines
<1>6. line.rec \in Records /\ \A i \in DOMAIN lines : lines[i].rec \in Records
  <2>1. \A i \in DOMAIN lines : lines[i] \in Lines
    BY <1>2
  <2>2. QED
    BY <1>3, <2>1 DEF Lines
<1>7. fed' = fed \/ fed' = Append(fed, [rec |-> line.rec, conn |-> c])
  BY <1>1
<1>8. fed' \in Seq([rec : Records, conn : DOMAIN conns])
  <2> DEFINE Feeds == [rec : Records, conn : DOMAIN conns]
             new == [rec |-> line.rec, conn |-> c]
  <2>1. new \in Feeds /\ fed \in Seq(Feeds) /\ (fed' = fed \/ fed' = Append(fed, new))
    BY <1>2, <1>6, <1>7
  <2> HIDE DEF Feeds, new
  <2>2. fed' \in Seq(Feeds)
    BY <2>1
  <2>3. QED
    BY <2>2 DEF Feeds
<1>9. /\ DOMAIN fed \subseteq DOMAIN fed' /\ DOMAIN fed = 1..Len(fed) /\ Len(fed) \in Nat
      /\ \A k \in DOMAIN fed : fed'[k] = fed[k]
      /\ \A k \in DOMAIN fed' \ DOMAIN fed :
            k = Len(fed) + 1 /\ fed'[k] = [rec |-> line.rec, conn |-> c]
  <2> DEFINE Feeds == [rec : Records, conn : DOMAIN conns]
             new == [rec |-> line.rec, conn |-> c]
  <2>1. fed \in Seq(Feeds) /\ (fed' = fed \/ fed' = Append(fed, new)) /\ new \in Feeds
    BY <1>2, <1>6, <1>7
  <2> HIDE DEF Feeds, new
  <2>2. /\ DOMAIN fed = 1..Len(fed) /\ Len(fed) \in Nat
        /\ DOMAIN Append(fed, new) = 1..(Len(fed) + 1)
        /\ Append(fed, new)[Len(fed) + 1] = new
        /\ \A k \in DOMAIN fed : Append(fed, new)[k] = fed[k]
    BY <2>1
  <2>3. QED
    BY <2>1, <2>2 DEF new
<1>10. /\ Waiting(c)' \subseteq Waiting(c) /\ Arrived(c)' \subseteq Arrived(c) \cup {line.rec}
       /\ line.rec \in Waiting(c)
       /\ \A y \in Waiting(c)' : line.rec < y
  <2>1. Waiting(c)' = {rest[i].rec : i \in DOMAIN rest}
    BY <1>5 DEF Waiting
  <2>2. Waiting(c) = {lines[i].rec : i \in DOMAIN lines}
    BY DEF Waiting, lines
  <2>3. \A i \in DOMAIN rest : i + 1 \in DOMAIN lines /\ 1 < i + 1 /\ rest[i] = lines[i + 1]
    BY <1>3
  <2>4. \A i, j \in DOMAIN lines : i < j => lines[i].rec < lines[j].rec
    BY DEF lines, ChannelInv, LinesInOrder
  <2>5. 1 \in DOMAIN lines
    BY <1>3
  <2>6. Arrived(c)' \subseteq Arrived(c) \cup {line.rec}
    BY <1>9 DEF Arrived
  <2>7. QED
    BY <1>3, <2>1, <2>2, <2>3, <2>4, <2>5, <2>6
<1>11. \A d \in DOMAIN conns \ {c} : Waiting(d)' = Waiting(d) /\ Arrived(d)' = Arrived(d)
  <2>1. \A d \in DOMAIN conns \ {c} : Waiting(d)' = Waiting(d)
    BY <1>5 DEF Waiting
  <2>2. ASSUME NEW d \in DOMAIN conns \ {c}
        PROVE  {j \in DOMAIN fed' : fed'[j].conn = d} = {j \in DOMAIN fed : fed[j].conn = d}
    BY <1>9
  <2>3. \A d \in DOMAIN conns \ {c} : Arrived(d)' = Arrived(d)
    BY <1>9, <2>2 DEF Arrived
  <2>4. QED
    BY <2>1, <2>3
<1>12. ChannelTypeOK'
  <2>1. fed' \in Seq([rec : Records, conn : DOMAIN conns'])
    BY <1>5, <1>8
  <2>2. QED
    BY <1>1, <1>5, <2>1 DEF ChannelInv, ChannelTypeOK
<1>13. QueueInOrder' /\ TriesAreLeft'
  BY <1>1 DEF ChannelInv, QueueInOrder, TriesAreLeft
<1>14. LinesInOrder'
  <2>1. \A i, j \in DOMAIN rest : i < j => rest[i].rec < rest[j].rec
    <3>1. \A i, j \in DOMAIN lines : i < j => lines[i].rec < lines[j].rec
      BY DEF lines, ChannelInv, LinesInOrder
    <3>2. \A i \in DOMAIN rest : i \in Nat /\ i + 1 \in DOMAIN lines /\ rest[i] = lines[i + 1]
      BY <1>3
    <3>3. \A i, j \in DOMAIN rest : i < j => i + 1 < j + 1
      BY <3>2
    <3>4. QED
      BY <3>1, <3>2, <3>3
  <2>2. \A x \in Arrived(c)', y \in Waiting(c)' : x < y
    BY <1>10 DEF ChannelInv, LinesInOrder
  <2>3. QED
    BY <1>5, <1>11, <2>1, <2>2 DEF ChannelInv, LinesInOrder
<1>15. SentIsOlder'
  BY <1>1, <1>5, <1>10, <1>11 DEF ChannelInv, SentIsOlder
<1>16. SocketIsOpen' /\ TornLineIsLast'
  <2>1. SocketIsOpen'
    <3>1. sock # 0 => sock \in DOMAIN conns
      BY <1>2 DEF ChannelInv, ChannelTypeOK
    <3>2. \A d \in DOMAIN conns : conns'[d].open = conns[d].open
      BY <1>5
    <3>3. QED
      BY <1>1, <3>1, <3>2 DEF ChannelInv, SocketIsOpen
  <2>2. ASSUME NEW i \in DOMAIN rest, rest[i].form # "whole"
        PROVE  i = Len(rest) /\ ~conns[c].open /\ sock # c
    <3>1. i + 1 \in DOMAIN lines /\ lines[i + 1].form # "whole"
      BY <1>3, <2>2
    <3>2. i + 1 = Len(lines) /\ ~conns[c].open /\ sock # c
      BY <3>1 DEF lines, ChannelInv, TornLineIsLast
    <3>3. QED
      BY <1>3, <3>2
  <2>3. TornLineIsLast'
    BY <1>1, <1>5, <2>2 DEF ChannelInv, TornLineIsLast
  <2>4. QED
    BY <2>1, <2>3
<1>17. ConnectionsAreInOrder'
  <2> SUFFICES ASSUME NEW i \in DOMAIN fed', NEW j \in DOMAIN fed', i < j,
                      fed'[i].conn = fed'[j].conn
               PROVE  fed'[i].rec < fed'[j].rec
    BY DEF ConnectionsAreInOrder
  <2>1. i \in DOMAIN fed /\ fed'[i] = fed[i]
    <3>1. fed' \in Seq([rec : Records, conn : DOMAIN conns])
      BY <1>8
    <3>2. i \in Nat /\ j \in Nat
      BY <1>9
    <3>3. \A k \in DOMAIN fed' : k \in 1..(Len(fed) + 1)
      BY <1>9
    <3>4. QED
      BY <1>9, <3>3
  <2>2. CASE j \in DOMAIN fed
    BY <1>9, <2>1, <2>2 DEF ChannelInv, ConnectionsAreInOrder
  <2>3. CASE j \notin DOMAIN fed
    <3>1. fed'[j].rec = line.rec /\ fed[i].conn = c
      BY <1>9, <2>1, <2>3
    <3>2. fed[i].rec \in Arrived(c)
      BY <2>1, <3>1 DEF Arrived
    <3>3. QED
      BY <1>10, <2>1, <3>1, <3>2 DEF ChannelInv, LinesInOrder
  <2>4. QED
    BY <2>2, <2>3
<1>18. NoNewCopies
  BY <1>5, <1>10, <1>11 DEF NoNewCopies, Carriers
<1>19. QED
  BY <1>12, <1>13, <1>14, <1>15, <1>16, <1>17, <1>18 DEF ChannelInv

-----------------------------------------------------------------------------
(* A line is written, on the writer's connection or on a new one: all of it  *)
(* (Send), or some or none of it before the socket is given up (TimeOut).    *)
LEMMA WrittenIs ==
    ASSUME ChannelInv, NEW lines \in Seq(Lines)
    PROVE  /\ Written(lines) \in Seq(Connection)
           /\ DOMAIN Written(lines) = DOMAIN conns \cup {Target}
           /\ \A c \in DOMAIN conns \ {Target} : Written(lines)[c] = conns[c]
           /\ Written(lines)[Target].open
           /\ IF sock = 0
              THEN Target \notin DOMAIN conns /\ Written(lines)[Target].lines = lines
              ELSE /\ Target = sock /\ sock \in DOMAIN conns
                   /\ Written(lines)[Target].lines = conns[sock].lines \o lines
           /\ Target \in Nat \ {0}
<1>1. /\ conns \in Seq(Connection) /\ DOMAIN conns = 1..Len(conns) /\ Len(conns) \in Nat
      /\ sock \in 0..Len(conns)
  BY DEF ChannelInv, ChannelTypeOK
<1>2. CASE sock = 0
  <2> DEFINE new == [lines |-> lines, open |-> TRUE, served |-> TRUE]
  <2>1. new \in Connection /\ new.open /\ new.lines = lines
    BY DEF Connection
  <2>2. Written(lines) = Append(conns, new) /\ Target = Len(conns) + 1
    BY <1>2 DEF Written, Target
  <2> HIDE DEF new
  <2>3. /\ Append(conns, new) \in Seq(Connection)
        /\ DOMAIN Append(conns, new) = 1..(Len(conns) + 1)
        /\ Append(conns, new)[Len(conns) + 1] = new
        /\ \A c \in DOMAIN conns : Append(conns, new)[c] = conns[c]
    BY <1>1, <2>1
  <2>4. QED
    BY <1>1, <1>2, <2>1, <2>2, <2>3
<1>3. CASE sock # 0
  <2>1. sock \in DOMAIN conns /\ conns[sock] \in Connection /\ conns[sock].open
    BY <1>1, <1>3 DEF ChannelInv, SocketIsOpen
  <2> DEFINE new == [conns[sock] EXCEPT !.lines = conns[sock].lines \o lines]
  <2>2. conns[sock].lines \o lines \in Seq(Lines)
    BY <2>1 DEF Connection
  <2>3. new \in Connection /\ new.open /\ new.lines = conns[sock].lines \o lines
    BY <2>1, <2>2 DEF Connection
  <2>4. Written(lines) = [conns EXCEPT ![sock] = new] /\ Target = sock
    BY <1>3 DEF Written, Target
  <2> HIDE DEF new
  <2>5. QED
    BY <1>1, <1>3, <2>1, <2>3, <2>4
<1>4. QED
  BY <1>2, <1>3

LEMMA WriteStep ==
    ASSUME ChannelInv, held # 0, NEW n \in Nat, n = Target,
           NEW lines \in Seq(Lines), Len(lines) \in {0, 1},
           \A i \in DOMAIN lines : lines[i].rec = held,
           conns' \in Seq(Connection), DOMAIN conns' = DOMAIN Written(lines),
           \A c \in DOMAIN conns' : conns'[c].lines = Written(lines)[c].lines,
           \A c \in DOMAIN conns' \ {n} : conns'[c].open = Written(lines)[c].open,
           UNCHANGED <<emitted, queue, fed>>,
           \/ /\ sock' = n /\ held' = 0 /\ conns'[n].open
              /\ \A i \in DOMAIN lines : lines[i].form = "whole"
           \/ /\ sock' = 0 /\ held' \in {held, 0} /\ ~conns'[n].open,
           tries' \in 0..Attempts, TriesAreLeft', up' \in BOOLEAN, faults' \in 0..MaxFaults
    PROVE  ChannelInv' /\ OneNewCopy
<1> DEFINE old == IF sock = 0 THEN <<>> ELSE conns[sock].lines
           new == conns'[n].lines
<1>1. /\ DOMAIN conns' = DOMAIN conns \cup {n} /\ n \in Nat \ {0}
      /\ \A c \in DOMAIN conns \ {n} :
            conns'[c].lines = conns[c].lines /\ conns'[c].open = conns[c].open
      /\ sock = 0 => n \notin DOMAIN conns
      /\ sock # 0 => n = sock /\ sock \in DOMAIN conns
  BY WrittenIs
<1>2. new = old \o lines
  <2>1. new = Written(lines)[n].lines
    BY <1>1
  <2>2. CASE sock = 0
    <3>1. new = lines
      BY <2>1, <2>2, WrittenIs
    <3>2. QED
      BY <2>2, <3>1
  <2>3. CASE sock # 0
    BY <2>1, <2>3, WrittenIs
  <2>4. QED
    BY <2>2, <2>3
<1>3. old \in Seq(Lines) /\ (sock # 0 => conns[sock] \in Connection)
  <2>1. CASE sock = 0
    BY <2>1
  <2>2. CASE sock # 0
    <3>1. conns[sock] \in Connection
      BY <1>1, <2>2 DEF ChannelInv, ChannelTypeOK
    <3>2. QED
      BY <2>2, <3>1 DEF Connection
  <2>3. QED
    BY <2>1, <2>2
<1> HIDE DEF old, new
<1>4. /\ DOMAIN old = 1..Len(old) /\ Len(old) \in Nat /\ DOMAIN lines = 1..Len(lines)
      /\ Len(new) = Len(old) + Len(lines) /\ DOMAIN new = 1..Len(new)
      /\ \A i \in DOMAIN old : new[i] = old[i]
      /\ \A i \in DOMAIN new \ DOMAIN old : i = Len(old) + 1 /\ i = Len(new) /\ new[i] = lines[1]
                                         /\ 1 \in DOMAIN lines
  <2>1. /\ DOMAIN old = 1..Len(old) /\ Len(old) \in Nat
        /\ DOMAIN lines = 1..Len(lines) /\ Len(lines) \in {0, 1}
    BY <1>3
  <2>2. /\ Len(new) = Len(old) + Len(lines) /\ DOMAIN new = 1..Len(new)
        /\ \A i \in 1..Len(old) : new[i] = old[i]
        /\ \A i \in Len(old) + 1..Len(old) + Len(lines) : new[i] = lines[i - Len(old)]
    BY <1>2, <1>3
  <2>3. CASE Len(lines) = 0
    BY <2>1, <2>2, <2>3
  <2>4. CASE Len(lines) = 1
    <3>1. 1 \in DOMAIN lines /\ new[Len(old) + 1] = lines[1]
      BY <2>1, <2>2, <2>4
    <3>2. ASSUME NEW i \in DOMAIN new \ DOMAIN old
          PROVE  i = Len(old) + 1 /\ i = Len(new)
      BY <2>1, <2>2, <2>4, <3>2
    <3>3. QED
      BY <2>1, <2>2, <2>4, <3>1, <3>2
  <2>5. QED
    BY <2>1, <2>3, <2>4
<1>5. /\ sock = 0 => DOMAIN old = {} /\ Arrived(n) = {}
      /\ sock # 0 => old = conns[sock].lines
  <2>1. sock = 0 => DOMAIN old = {}
    BY <1>4 DEF old
  <2>2. sock = 0 => Arrived(n) = {}
    BY <1>1, Numbers DEF Arrived, ChannelInv
  <2>3. QED
    BY <2>1, <2>2 DEF old
<1>6. /\ held \in Nat \ {0} /\ held <= emitted /\ emitted \in Nat
      /\ \A i \in DOMAIN queue : held < queue[i] /\ queue[i] \in Nat
  BY Numbers DEF ChannelInv, QueueInOrder
<1>7. \A c : Arrived(c)' = Arrived(c)
  BY DEF Arrived
<1>8. \A c \in DOMAIN conns \ {n} : Waiting(c)' = Waiting(c)
  BY <1>1 DEF Waiting
<1>9. Waiting(n)' \subseteq {old[i].rec : i \in DOMAIN old} \cup {held}
  <2>1. Waiting(n)' = {new[i].rec : i \in DOMAIN new}
    BY DEF Waiting, new
  <2>2. QED
    BY <1>4, <2>1
<1>10. /\ \A i \in DOMAIN old : old[i].rec < held
       /\ \A x \in Arrived(n) : x < held
  <2>1. CASE sock = 0
    BY <1>5, <2>1
  <2>2. CASE sock # 0
    BY <1>1, <1>5, <2>2 DEF ChannelInv, SentIsOlder, Waiting
  <2>3. QED
    BY <2>1, <2>2
<1>11. ChannelTypeOK'
  <2>1. /\ conns \in Seq(Connection) /\ DOMAIN conns = 1..Len(conns) /\ Len(conns) \in Nat
        /\ fed \in Seq([rec : Records, conn : DOMAIN conns])
        /\ sock \in 0..Len(conns) /\ held \in 0..MaxTaps
    BY DEF ChannelInv, ChannelTypeOK
  <2>2. Len(conns') \in Nat /\ DOMAIN conns' = 1..Len(conns')
    BY LenProperties
  <2>3. sock' \in 0..Len(conns')
    BY <1>1, <2>2
  <2>4. fed' \in Seq([rec : Records, conn : DOMAIN conns'])
    <3> DEFINE Feeds == [rec : Records, conn : DOMAIN conns]
               Wider == [rec : Records, conn : DOMAIN conns']
    <3>1. Feeds \subseteq Wider
      BY <1>1
    <3>2. fed \in Seq(Feeds)
      BY <2>1
    <3> HIDE DEF Feeds, Wider
    <3>3. fed \in Seq(Wider)
      BY <3>1, <3>2
    <3>4. QED
      BY <3>3 DEF Wider
  <2>5. held' \in 0..MaxTaps
    BY <2>1, TapChannelAssumption
  <2>6. QED
    BY <2>3, <2>4, <2>5 DEF ChannelInv, ChannelTypeOK
<1>12. QueueInOrder'
  BY <1>6 DEF ChannelInv, QueueInOrder
<1>13. LinesInOrder'
  <2>1. ASSUME NEW i \in DOMAIN new, NEW j \in DOMAIN new, i < j
        PROVE  new[i].rec < new[j].rec
    <3>1. i \in DOMAIN old
      BY <1>4, <2>1
    <3>2. CASE j \in DOMAIN old
      <4>1. sock # 0
        BY <1>5, <3>1
      <4>2. old[i].rec < old[j].rec
        BY <1>1, <1>5, <2>1, <3>1, <3>2, <4>1 DEF ChannelInv, LinesInOrder
      <4>3. QED
        BY <1>4, <3>1, <3>2, <4>2
    <3>3. CASE j \notin DOMAIN old
      BY <1>4, <1>10, <3>1, <3>3
    <3>4. QED
      BY <3>2, <3>3
  <2>2. ASSUME NEW x \in Arrived(n), NEW y \in Waiting(n)'
        PROVE  x < y
    <3>1. CASE y = held
      BY <1>10, <3>1
    <3>2. CASE y \in {old[i].rec : i \in DOMAIN old}
      <4>1. sock # 0
        BY <1>5, <3>2
      <4>2. y \in Waiting(n) /\ n \in DOMAIN conns
        BY <1>1, <1>5, <3>2, <4>1 DEF Waiting
      <4>3. QED
        BY <4>2 DEF ChannelInv, LinesInOrder
    <3>3. QED
      BY <1>9, <3>1, <3>2
  <2>3. QED
    BY <1>1, <1>7, <1>8, <2>1, <2>2 DEF new, ChannelInv, LinesInOrder
<1>14. SentIsOlder'
  <2>1. ASSUME NEW x \in Waiting(n)' \cup Arrived(n)
        PROVE  x <= emitted /\ \A i \in DOMAIN queue : x < queue[i]
    <3>1. CASE x = held
      BY <1>6, <3>1
    <3>2. CASE x \in {old[i].rec : i \in DOMAIN old} \cup Arrived(n)
      <4>1. sock # 0
        BY <1>5, <3>2
      <4>2. x \in Waiting(n) \cup Arrived(n) /\ n \in DOMAIN conns
        BY <1>1, <1>5, <3>2, <4>1 DEF Waiting
      <4>3. QED
        BY <4>2 DEF ChannelInv, SentIsOlder
    <3>3. QED
      BY <1>9, <2>1, <3>1, <3>2
  <2>2. \A c \in DOMAIN conns' : ~(c = sock' /\ held' # 0)
    BY <1>1 DEF ChannelInv, ChannelTypeOK
  <2>3. QED
    BY <1>1, <1>7, <1>8, <2>1, <2>2 DEF ChannelInv, SentIsOlder
<1>15. SocketIsOpen'
  BY DEF SocketIsOpen
<1>16. TornLineIsLast'
  <2>1. ASSUME NEW i \in DOMAIN new, new[i].form # "whole"
        PROVE  i = Len(new) /\ ~conns'[n].open /\ sock' # n
    <3>1. i \notin DOMAIN old
      <4>1. CASE sock = 0
        BY <1>5, <4>1
      <4>2. CASE sock # 0
        BY <1>1, <1>4, <1>5, <2>1, <4>2 DEF ChannelInv, TornLineIsLast
      <4>3. QED
        BY <4>1, <4>2
    <3>2. i = Len(new) /\ lines[1].form # "whole" /\ 1 \in DOMAIN lines
      BY <1>4, <2>1, <3>1
    <3>3. sock' = 0 /\ ~conns'[n].open
      BY <3>2
    <3>4. QED
      BY <1>1, <3>2, <3>3
  <2>2. ASSUME NEW c \in DOMAIN conns \ {n}, NEW i \in DOMAIN conns'[c].lines,
               conns'[c].lines[i].form # "whole"
        PROVE  i = Len(conns'[c].lines) /\ ~conns'[c].open /\ sock' # c
    <3>1. conns'[c].lines = conns[c].lines /\ conns'[c].open = conns[c].open
      BY <1>1
    <3>2. i = Len(conns[c].lines) /\ ~conns[c].open
      BY <2>2, <3>1 DEF ChannelInv, TornLineIsLast
    <3>3. sock' # c
      BY <1>1 DEF ChannelInv, ChannelTypeOK
    <3>4. QED
      BY <3>1, <3>2, <3>3
  <2>3. QED
    BY <1>1, <2>1, <2>2 DEF new, TornLineIsLast
<1>17. ConnectionsAreInOrder'
  BY DEF ChannelInv, ConnectionsAreInOrder
<1>18. OneNewCopy
  <2>1. n \in DOMAIN conns => Waiting(n)' \subseteq Waiting(n) \cup {held}
    <3> SUFFICES ASSUME n \in DOMAIN conns
                 PROVE  Waiting(n)' \subseteq Waiting(n) \cup {held}
      OBVIOUS
    <3>1. {old[i].rec : i \in DOMAIN old} = Waiting(n)
      BY <1>1, <1>5 DEF Waiting
    <3>2. QED
      BY <1>9, <3>1
  <2>2. n \notin DOMAIN conns => Arrived(n) = {} /\ Waiting(n)' \subseteq {held}
    BY <1>1, <1>5, <1>9
  <2>3. ASSUME NEW r, NEW c \in Carriers(r)', c # n
        PROVE  c \in Carriers(r)
    BY <1>1, <1>7, <1>8, <2>3 DEF Carriers
  <2>4. ASSUME NEW r, n \in Carriers(r)', r # held
        PROVE  n \in Carriers(r)
    BY <1>1, <1>7, <2>1, <2>2, <2>4 DEF Carriers
  <2>5. ASSUME NEW r, NEW c \in Carriers(r)'
        PROVE  c \in Carriers(r) \/ (r = held /\ c = n)
    BY <2>3, <2>4
  <2>6. QED
    BY <2>5 DEF OneNewCopy
<1>19. QED
  BY <1>11, <1>12, <1>13, <1>14, <1>15, <1>16, <1>17, <1>18 DEF ChannelInv

(* What a send puts on the wire.                                             *)
LEMMA LineIs ==
    ASSUME ChannelInv, held # 0, NEW form \in Forms
    PROVE  LET lines == <<[rec |-> held, form |-> form]>>
           IN  /\ lines \in Seq(Lines) /\ Len(lines) = 1 /\ DOMAIN lines = {1}
               /\ lines[1].rec = held /\ lines[1].form = form
<1>1. held \in Records
  BY TapChannelAssumption DEF ChannelInv, ChannelTypeOK, Records
<1> DEFINE line == [rec |-> held, form |-> form]
<1>2. line \in Lines /\ line.rec = held /\ line.form = form
  BY <1>1 DEF Lines
<1> HIDE DEF line
<1>3. <<line>> \in Seq(Lines) /\ Len(<<line>>) = 1 /\ DOMAIN <<line>> = {1} /\ <<line>>[1] = line
  BY <1>2
<1>4. QED
  BY <1>2, <1>3 DEF line

LEMMA SendStep == ChannelInv /\ Send => ChannelInv' /\ OneNewCopy
<1> SUFFICES ASSUME ChannelInv, Send
             PROVE  ChannelInv' /\ OneNewCopy
  OBVIOUS
<1> DEFINE lines == <<[rec |-> held, form |-> "whole"]>>
<1>1. /\ held # 0 /\ conns' = Written(lines) /\ sock' = Target /\ held' = 0 /\ tries' = 0
      /\ UNCHANGED <<emitted, queue, fed, up, faults>>
  BY DEF Send, appVars
<1>2. /\ lines \in Seq(Lines) /\ Len(lines) = 1 /\ DOMAIN lines = {1}
      /\ lines[1].rec = held /\ lines[1].form = "whole"
  BY <1>1, LineIs DEF Forms
<1> HIDE DEF lines
<1>3. /\ conns' \in Seq(Connection) /\ conns'[Target].open
  BY <1>1, <1>2, WrittenIs
<1>4. up' \in BOOLEAN /\ faults' \in 0..MaxFaults /\ tries' \in 0..Attempts /\ TriesAreLeft'
  BY <1>1 DEF ChannelInv, ChannelTypeOK, TriesAreLeft, Attempts
<1>5. Target \in Nat
  BY DEF ChannelInv, ChannelTypeOK, Target
<1>6. PICK n \in Nat : n = Target
  BY <1>5
<1>7. QED
  BY <1>1, <1>2, <1>3, <1>4, <1>6, WriteStep

LEMMA TimeOutStep ==
    ASSUME ChannelInv, held # 0, NEW lines \in Seq(Lines), Len(lines) \in {0, 1},
           \A i \in DOMAIN lines : lines[i].rec = held, TimeOut(lines)
    PROVE  ChannelInv' /\ OneNewCopy
<1>1. sock' = 0 /\ held' \in {held, 0} /\ tries' \in 0..Attempts /\ TriesAreLeft'
  BY RetryGivesUp DEF TimeOut
<1>2. UNCHANGED <<emitted, queue, fed, up>> /\ up' \in BOOLEAN /\ faults' \in 0..MaxFaults
  BY TapChannelAssumption DEF TimeOut, appVars, ChannelInv, ChannelTypeOK
<1>3. Target \in Nat
  BY DEF ChannelInv, ChannelTypeOK, Target
<1>4. PICK n \in Nat : n = Target
  BY <1>3
<1> DEFINE sent == Written(lines)
           cut == [sent[n] EXCEPT !.open = FALSE]
<1>5. /\ sent \in Seq(Connection) /\ n \in DOMAIN sent
      /\ conns' = [sent EXCEPT ![n] = cut]
  BY <1>4, WrittenIs DEF TimeOut
<1> HIDE DEF sent
<1>6. sent[n] \in Connection /\ DOMAIN sent = 1..Len(sent) /\ Len(sent) \in Nat
  BY <1>5
<1>7. cut \in Connection /\ cut.lines = sent[n].lines /\ ~cut.open
  BY <1>6 DEF Connection
<1> HIDE DEF cut
<1>8. /\ conns' \in Seq(Connection) /\ DOMAIN conns' = DOMAIN sent /\ conns'[n] = cut
      /\ \A c \in DOMAIN sent \ {n} : conns'[c] = sent[c]
  BY <1>5, <1>6, <1>7
<1>9. /\ \A c \in DOMAIN conns' : conns'[c].lines = sent[c].lines
      /\ \A c \in DOMAIN conns' \ {n} : conns'[c].open = sent[c].open
      /\ ~conns'[n].open
  BY <1>7, <1>8
<1>10. QED
  BY <1>1, <1>2, <1>4, <1>8, <1>9, WriteStep DEF sent

LEMMA WriterStep ==
    ChannelInv /\ Writer => /\ ChannelInv'
                            /\ \/ Take
                               \/ Send /\ OneNewCopy
                               \/ Refused /\ NoNewCopies
                               \/ held # 0 /\ Retry /\ OneNewCopy
<1> SUFFICES ASSUME ChannelInv, Writer
             PROVE  /\ ChannelInv'
                    /\ \/ Take
                       \/ Send /\ OneNewCopy
                       \/ Refused /\ NoNewCopies
                       \/ held # 0 /\ Retry /\ OneNewCopy
  OBVIOUS
<1>1. CASE TimeOut(<<>>)
  <2> DEFINE lines == <<>>
  <2>1. lines \in Seq(Lines) /\ Len(lines) = 0 /\ \A i \in DOMAIN lines : lines[i].rec = held
    OBVIOUS
  <2>2. held # 0 /\ TimeOut(lines)
    BY <1>1 DEF TimeOut
  <2> HIDE DEF lines
  <2>3. ChannelInv' /\ OneNewCopy
    BY <2>1, <2>2, TimeOutStep
  <2>4. QED
    BY <2>2, <2>3 DEF TimeOut
<1>2. ASSUME NEW form \in {"cut", "torn"}, TimeOut(<<[rec |-> held, form |-> form]>>)
      PROVE  ChannelInv' /\ held # 0 /\ Retry /\ OneNewCopy
  <2> DEFINE lines == <<[rec |-> held, form |-> form]>>
  <2>1. held # 0
    BY <1>2 DEF TimeOut
  <2>2. /\ lines \in Seq(Lines) /\ Len(lines) = 1
        /\ \A i \in DOMAIN lines : lines[i].rec = held
    BY <2>1, LineIs DEF Forms
  <2>3. TimeOut(lines)
    BY <1>2
  <2> HIDE DEF lines
  <2>4. ChannelInv' /\ OneNewCopy
    BY <2>1, <2>2, <2>3, TimeOutStep
  <2>5. QED
    BY <2>3, <2>4 DEF TimeOut
<1>3. QED
  BY <1>1, <1>2, TakeStep, SendStep, RefusedStep DEF Writer

(* A step that leaves everything but up as it was.                           *)
LEMMA UpStep ==
    ASSUME ChannelInv, up' \in BOOLEAN,
           UNCHANGED <<emitted, queue, held, tries, sock, conns, fed, faults>>
    PROVE  ChannelInv'
<1>1. ChannelTypeOK' /\ QueueInOrder' /\ SocketIsOpen' /\ TriesAreLeft'
  BY DEF ChannelInv, ChannelTypeOK, QueueInOrder, SocketIsOpen, TriesAreLeft
<1>2. \A c : Waiting(c)' = Waiting(c) /\ Arrived(c)' = Arrived(c)
  BY DEF Waiting, Arrived
<1>3. LinesInOrder' /\ SentIsOlder'
  BY <1>2 DEF ChannelInv, LinesInOrder, SentIsOlder
<1>4. TornLineIsLast' /\ ConnectionsAreInOrder'
  BY DEF ChannelInv, TornLineIsLast, ConnectionsAreInOrder
<1>5. QED
  BY <1>1, <1>3, <1>4 DEF ChannelInv

LEMMA ChannelStarts == ChannelInit => ChannelInv
<1> SUFFICES ASSUME ChannelInit
             PROVE  ChannelInv
  OBVIOUS
<1>1. ChannelTypeOK
  BY TapChannelAssumption DEF ChannelInit, ChannelTypeOK, Attempts
<1>2. DOMAIN conns = {} /\ DOMAIN queue = {} /\ DOMAIN fed = {}
  BY DEF ChannelInit
<1>3. QED
  BY <1>1, <1>2 DEF ChannelInit, ChannelInv, QueueInOrder, LinesInOrder, SentIsOlder,
     SocketIsOpen, TriesAreLeft, TornLineIsLast, ConnectionsAreInOrder

LEMMA ChannelInvariant == ChannelSpec => []ChannelInv
<1>1. ASSUME ChannelInv, [ChannelNext]_channelVars
      PROVE  ChannelInv'
  <2>1. CASE Handlers
    BY <1>1, <2>1, ReadStep, EndOfStreamStep DEF Handlers
  <2>2. CASE CollectorStarts \/ UNCHANGED channelVars
    <3>1. /\ up' \in BOOLEAN
          /\ UNCHANGED <<emitted, queue, held, tries, sock, conns, fed, faults>>
      BY <1>1, <2>2 DEF CollectorStarts, channelVars, appVars, writerVars, ChannelInv,
         ChannelTypeOK
    <3>2. QED
      BY <1>1, <3>1, UpStep
  <2>3. CASE \E c \in DOMAIN conns : HandlerDies(c)
    BY <1>1, <2>3, EndOfStreamStep
  <2>4. QED
    BY <1>1, <2>1, <2>2, <2>3, EmitStep, WriterStep, StopStep DEF ChannelNext
<1>2. QED
  BY <1>1, ChannelStarts, PTL DEF ChannelSpec

-----------------------------------------------------------------------------
(* Every variable of the channel keeps its type: the queue never holds more  *)
(* than _Q.maxsize, and the writer's socket is one of the connections made.  *)
THEOREM ChannelIsTyped == ChannelSpec => []ChannelTypeOK
<1>1. ChannelInv => ChannelTypeOK
  BY DEF ChannelInv
<1>2. QED
  BY <1>1, ChannelInvariant, PTL

(* Whatever times out, stops or dies, a line that was sent in part is the    *)
(* last of its connection, so the record after it is read by itself.         *)
THEOREM TornLinesAreLast == ChannelSpec => []TornLineIsLast
<1>1. ChannelInv => TornLineIsLast
  BY DEF ChannelInv
<1>2. QED
  BY <1>1, ChannelInvariant, PTL

(* A connection delivers records in the order of their emits and each once:  *)
(* what a retry repeats or reorders arrives over another connection.         *)
THEOREM OrderIsKept == ChannelSpec => []ConnectionsAreInOrder
<1>1. ChannelInv => ConnectionsAreInOrder
  BY DEF ChannelInv
<1>2. QED
  BY <1>1, ChannelInvariant, PTL

-----------------------------------------------------------------------------
(* Copies. An attempt adds a copy of the record in hand on one connection.   *)
LEMMA NothingIsSent ==
    ASSUME UNCHANGED <<conns, fed>>
    PROVE  NoNewCopies
  BY DEF NoNewCopies, Carriers, Waiting, Arrived

LEMMA UntriedIsFew ==
    ASSUME CopiesAreFew, NoNewCopies, UNCHANGED <<held, tries>>
    PROVE  CopiesAreFew'
<1> SUFFICES ASSUME NEW r \in Records
             PROVE  /\ r = held /\ tries = Attempts => Carriers(r)' = {}
                    /\ r = held => \A c, d \in Carriers(r)' : c = d
                    /\ \A b, c, d \in Carriers(r)' : b = c \/ b = d \/ c = d
  BY DEF CopiesAreFew, Attempts, Records
<1>1. Carriers(r)' \subseteq Carriers(r)
  BY DEF NoNewCopies
<1>2. QED
  BY <1>1 DEF CopiesAreFew

LEMMA TriedIsFew ==
    ASSUME CopiesAreFew, OneNewCopy,
           held' = 0 \/ (held' = held /\ tries = Attempts /\ tries' # Attempts)
    PROVE  CopiesAreFew'
<1> SUFFICES ASSUME NEW r \in Records
             PROVE  /\ r = held' /\ tries' = Attempts => Carriers(r)' = {}
                    /\ r = held' => \A c, d \in Carriers(r)' : c = d
                    /\ \A b, c, d \in Carriers(r)' : b = c \/ b = d \/ c = d
  BY DEF CopiesAreFew, Attempts, Records
<1>1. r # 0
  BY TapChannelAssumption DEF Records
<1>2. CASE r = held
  <2>1. \A c \in Carriers(r)' : c \in Carriers(r) \/ c = Target
    BY <1>2 DEF OneNewCopy
  <2>2. \A c, d \in Carriers(r) : c = d
    BY <1>2 DEF CopiesAreFew
  <2>3. tries = Attempts => Carriers(r) = {}
    BY <1>2 DEF CopiesAreFew
  <2>4. QED
    BY <1>1, <2>1, <2>2, <2>3
<1>3. CASE r # held
  <2>1. Carriers(r)' \subseteq Carriers(r)
    BY <1>3 DEF OneNewCopy
  <2>2. r # held'
    BY <1>1, <1>3
  <2>3. QED
    BY <2>1, <2>2 DEF CopiesAreFew
<1>4. QED
  BY <1>2, <1>3

LEMMA TakenIsFew ==
    ASSUME ChannelInv, CopiesAreFew, Take
    PROVE  CopiesAreFew'
<1>1. NoNewCopies
  BY NothingIsSent DEF Take
<1>2. queue # <<>> /\ queue \in Seq(Records) /\ held' = queue[1]
  BY DEF Take, ChannelInv, ChannelTypeOK
<1>3. 1 \in DOMAIN queue /\ queue[1] \in Nat
  BY <1>2, Numbers DEF ChannelInv
<1>4. \A c \in DOMAIN conns : \A x \in Waiting(c) \cup Arrived(c) : x < queue[1]
  BY <1>3 DEF ChannelInv, SentIsOlder
<1>5. ASSUME NEW r \in Records, r = held'
      PROVE  Carriers(r)' = {}
  <2>1. \A c \in DOMAIN conns : r \notin Waiting(c) \cup Arrived(c)
    BY <1>2, <1>3, <1>4, <1>5
  <2>2. Carriers(r) = {}
    BY <2>1 DEF Carriers
  <2>3. QED
    BY <1>1, <2>2 DEF NoNewCopies
<1>6. ASSUME NEW r \in Records
      PROVE  \A b, c, d \in Carriers(r)' : b = c \/ b = d \/ c = d
  <2>1. Carriers(r)' \subseteq Carriers(r)
    BY <1>1 DEF NoNewCopies
  <2>2. QED
    BY <2>1 DEF CopiesAreFew
<1>7. QED
  BY <1>5, <1>6 DEF CopiesAreFew, Records, Attempts

LEMMA CopiesStep ==
    ASSUME ChannelInv, CopiesAreFew, [ChannelNext]_channelVars
    PROVE  CopiesAreFew'
<1>1. CASE Emit \/ CollectorStarts \/ UNCHANGED channelVars
  <2>1. UNCHANGED <<conns, fed>> /\ UNCHANGED <<held, tries>>
    BY <1>1 DEF Emit, CollectorStarts, channelVars, writerVars
  <2>2. QED
    BY <2>1, NothingIsSent, UntriedIsFew
<1>2. CASE (\E c \in DOMAIN conns : HandlerDies(c)) \/ Handlers \/ CollectorStops
  <2>1. UNCHANGED <<held, tries>>
    BY <1>2 DEF HandlerDies, Handlers, ReadLine, EndOfStream, CollectorStops, writerVars
  <2>2. NoNewCopies
    BY <1>2, ReadStep, EndOfStreamStep, StopStep DEF Handlers
  <2>3. QED
    BY <2>1, <2>2, UntriedIsFew
<1>3. CASE Writer
  <2>1. NoNewCopies => OneNewCopy
    BY DEF NoNewCopies, OneNewCopy
  <2>2. CASE Take
    BY <2>2, TakenIsFew
  <2>3. CASE Send /\ OneNewCopy
    BY <2>3, TriedIsFew DEF Send
  <2>4. CASE held # 0 /\ Retry /\ OneNewCopy
    <3>1. tries \in 1..2
      BY <2>4 DEF ChannelInv, TriesAreLeft, Attempts
    <3>2. held' = 0 \/ (held' = held /\ tries = Attempts /\ tries' # Attempts)
      BY <2>4, <3>1 DEF Retry, Attempts
    <3>3. QED
      BY <2>4, <3>2, TriedIsFew
  <2>5. CASE Refused /\ NoNewCopies
    BY <2>1, <2>4, <2>5 DEF Refused
  <2>6. QED
    BY <1>3, <2>2, <2>3, <2>4, <2>5, WriterStep
<1>4. QED
  BY <1>1, <1>2, <1>3 DEF ChannelNext

LEMMA NoThreeDiffer ==
    ASSUME NEW S, \A x, y, z \in S : x = y \/ x = z \/ y = z
    PROVE  Cardinality(S) <= 2
<1>1. CASE S = {}
  BY <1>1, FS_EmptySet
<1>2. CASE S # {}
  <2>1. PICK x \in S : TRUE
    BY <1>2
  <2>2. CASE S = {x}
    <3>1. Cardinality({x}) = 1
      BY FS_Singleton
    <3>2. QED
      BY <2>2, <3>1
  <2>3. CASE S # {x}
    <3>1. PICK y \in S : y # x
      BY <2>1, <2>3
    <3>2. S = {x} \cup {y}
      BY <2>1, <3>1
    <3>3. /\ IsFiniteSet({x}) /\ Cardinality({x}) = 1
      BY FS_Singleton
    <3>4. Cardinality({x} \cup {y}) = 2
      BY <3>1, <3>3, FS_AddElement
    <3>5. QED
      BY <3>2, <3>4
  <2>4. QED
    BY <2>2, <2>3
<1>3. QED
  BY <1>1, <1>2

(* tap._writer tries a record twice, each time it fails over another socket, *)
(* and a connection carries it once: whatever fails, two copies arrive.      *)
THEOREM NoThirdCopy == ChannelSpec => []AtMostTwoCopies
<1>1. ChannelInit => CopiesAreFew
  BY DEF ChannelInit, CopiesAreFew, Carriers
<1>2. ChannelInv /\ CopiesAreFew => AtMostTwoCopies
  <2> SUFFICES ASSUME ChannelInv, CopiesAreFew, NEW r \in Records
               PROVE  Cardinality({i \in DOMAIN fed : fed[i].rec = r}) <= 2
    BY DEF AtMostTwoCopies, Attempts
  <2> DEFINE copies == {i \in DOMAIN fed : fed[i].rec = r}
  <2>1. \A i \in copies : i \in Nat /\ fed[i].conn \in Carriers(r)
    <3>1. \A i \in copies : fed[i].conn \in DOMAIN conns /\ i \in Nat
      BY Numbers DEF ChannelInv, ChannelTypeOK
    <3>2. QED
      BY <3>1 DEF Carriers, Arrived
  <2>2. \A i, j \in copies : i < j => fed[i].conn # fed[j].conn
    <3>1. r \in Nat
      BY DEF Records
    <3>2. QED
      BY <3>1 DEF ChannelInv, ConnectionsAreInOrder
  <2>3. \A i, j \in copies : i # j => fed[i].conn # fed[j].conn
    BY <2>1, <2>2
  <2>4. \A x, y, z \in copies : x = y \/ x = z \/ y = z
    <3>1. \A b, c, d \in Carriers(r) : b = c \/ b = d \/ c = d
      BY DEF CopiesAreFew
    <3>2. QED
      BY <2>1, <2>3, <3>1
  <2> HIDE DEF copies
  <2>5. Cardinality(copies) <= 2
    BY <2>4, NoThreeDiffer
  <2>6. QED
    BY <2>5 DEF copies
<1>3. ChannelInv /\ CopiesAreFew /\ [ChannelNext]_channelVars => CopiesAreFew'
  BY CopiesStep
<1>4. QED
  BY <1>1, <1>2, <1>3, ChannelInvariant, PTL DEF ChannelSpec

=============================================================================
