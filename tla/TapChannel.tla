----------------------------- MODULE TapChannel -----------------------------
(***************************************************************************)
(* How a tap record travels from the app to the scorer: app/tap.py (emit,  *)
(* the bounded queue, the writer thread) and scorer/ingest.py tap_server.  *)
(*                                                                         *)
(* Request threads put records in a bounded queue and never wait. One      *)
(* writer thread takes them out and tries each twice on a Unix stream      *)
(* socket, opening a new connection when it has none. The collector has a  *)
(* handler per connection, which feeds a line at a time to the pipeline;   *)
(* handlers of two connections run in any order. The collector may stop    *)
(* and start, a handler may die of an exception, a send may time out with  *)
(* part of the line gone.                                                  *)
(*                                                                         *)
(* A record is the number of its emit. A definition placed just before     *)
(* another, with the same parameters and a longer name, is a faulty variant*)
(* no specification uses.                                                  *)
(***************************************************************************)
EXTENDS Integers, Sequences, FiniteSets

CONSTANTS
    QueueSize,   \* _Q.maxsize
    MaxTaps,     \* bound: records emitted
    MaxFaults    \* bound: collector stops, handler deaths, timed-out sends

ASSUME TapChannelAssumption ==
    /\ QueueSize \in Nat \ {0}
    /\ MaxTaps \in Nat
    /\ MaxFaults \in Nat

VARIABLES
    emitted,   \* number of records emitted
    queue,     \* _Q
    held,      \* the writer's rec; 0 while it waits for one
    tries,     \* attempts it has left for it
    sock,      \* the writer's connection; 0 for None
    conns,     \* every connection made
    up,        \* the collector listens
    fed,       \* history: what the pipeline was fed, over which connection
    faults

appVars == <<emitted, queue>>
writerVars == <<held, tries, sock>>
channelVars == <<emitted, queue, held, tries, sock, conns, up, fed, faults>>

Attempts == 2
Records == 1..MaxTaps

(* A line as the handler finds it: all of it; all but its newline, so that *)
(* it parses when the stream ends there; or a part that does not parse.    *)
Forms == {"whole", "cut", "torn"}
Lines == [rec : Records, form : Forms]

(* lines: sent and not read yet; open: the writer has not closed it;       *)
(* served: a handler reads it.                                             *)
Connection == [lines : Seq(Lines), open : BOOLEAN, served : BOOLEAN]

ChannelInit ==
    /\ emitted = 0
    /\ queue = <<>>
    /\ held = 0
    /\ tries = 0
    /\ sock = 0
    /\ conns = <<>>
    /\ up \in BOOLEAN
    /\ fed = <<>>
    /\ faults = 0

-----------------------------------------------------------------------------
(* The app.                                                                *)

(* tap.emit: put_nowait, and nothing else when the queue is full.          *)
EmitUnbounded ==
    /\ emitted < MaxTaps
    /\ emitted' = emitted + 1
    /\ queue' = Append(queue, emitted + 1)
    /\ UNCHANGED <<writerVars, conns, up, fed, faults>>

Emit ==
    /\ emitted < MaxTaps
    /\ emitted' = emitted + 1
    /\ queue' = IF Len(queue) < QueueSize THEN Append(queue, emitted + 1) ELSE queue
    /\ UNCHANGED <<writerVars, conns, up, fed, faults>>

(* _writer: rec = _Q.get()                                                 *)
TakeOnce ==
    /\ held = 0
    /\ queue # <<>>
    /\ held' = Head(queue)
    /\ tries' = 1
    /\ queue' = Tail(queue)
    /\ UNCHANGED <<emitted, sock, conns, up, fed, faults>>

TakeNewest ==
    /\ held = 0
    /\ queue # <<>>
    /\ held' = queue[Len(queue)]
    /\ tries' = Attempts
    /\ queue' = SubSeq(queue, 1, Len(queue) - 1)
    /\ UNCHANGED <<emitted, sock, conns, up, fed, faults>>

Take ==
    /\ held = 0
    /\ queue # <<>>
    /\ held' = Head(queue)
    /\ tries' = Attempts
    /\ queue' = Tail(queue)
    /\ UNCHANGED <<emitted, sock, conns, up, fed, faults>>

(* The connection an attempt is made on: the writer's, or the next one.    *)
Target == IF sock = 0 THEN Len(conns) + 1 ELSE sock

(* connect, when there is no socket, then as much of the line as was sent. *)
Written(lines) ==
    IF sock = 0
    THEN Append(conns, [lines |-> lines, open |-> TRUE, served |-> TRUE])
    ELSE [conns EXCEPT ![sock].lines = @ \o lines]

(* The peer is there: connect is accepted, or the socket is not broken.    *)
Reachable == IF sock = 0 THEN up ELSE conns[sock].served

(* connect and sendall succeed.                                            *)
Send ==
    /\ held # 0
    /\ Reachable
    /\ conns' = Written(<<[rec |-> held, form |-> "whole"]>>)
    /\ sock' = Target
    /\ held' = 0
    /\ tries' = 0
    /\ UNCHANGED <<appVars, up, fed, faults>>

(* An OSError: the socket is closed and forgotten; after the second one so *)
(* is the record.                                                          *)
RetryForEver ==
    /\ sock' = 0
    /\ UNCHANGED <<held, tries>>

Retry ==
    /\ sock' = 0
    /\ tries' = tries - 1
    /\ held' = IF tries = 1 THEN 0 ELSE held

(* connect is refused, or the socket is broken: nothing is sent.           *)
Refused ==
    /\ held # 0
    /\ ~Reachable
    /\ conns' = IF sock = 0 THEN conns ELSE [conns EXCEPT ![sock].open = FALSE]
    /\ Retry
    /\ UNCHANGED <<appVars, up, fed, faults>>

(* sendall times out after two seconds, having sent some of the line.      *)
TimeOutKeepingSocket(lines) ==
    /\ held # 0
    /\ Reachable
    /\ faults < MaxFaults
    /\ faults' = faults + 1
    /\ conns' = Written(lines)
    /\ sock' = Target
    /\ tries' = tries - 1
    /\ held' = IF tries = 1 THEN 0 ELSE held
    /\ UNCHANGED <<appVars, up, fed>>

TimeOut(lines) ==
    /\ held # 0
    /\ Reachable
    /\ faults < MaxFaults
    /\ faults' = faults + 1
    /\ conns' = [Written(lines) EXCEPT ![Target].open = FALSE]
    /\ Retry
    /\ UNCHANGED <<appVars, up, fed>>

-----------------------------------------------------------------------------
(* The collector.                                                          *)

(* readline, json.loads, pipeline.feed. A line without its newline is only *)
(* returned at the end of the stream; one that does not parse is skipped.  *)
ReadLine(c) ==
    LET line == Head(conns[c].lines)
    IN  /\ conns[c].served
        /\ conns[c].lines # <<>>
        /\ line.form = "whole" \/ ~conns[c].open
        /\ conns' = [conns EXCEPT ![c].lines = Tail(@)]
        /\ fed' = IF line.form = "torn"
                  THEN fed
                  ELSE Append(fed, [rec |-> line.rec, conn |-> c])
        /\ UNCHANGED <<appVars, writerVars, up, faults>>

(* readline returns b"" and the handler ends.                              *)
EndOfStream(c) ==
    /\ conns[c].served
    /\ conns[c].lines = <<>>
    /\ ~conns[c].open
    /\ conns' = [conns EXCEPT ![c].served = FALSE]
    /\ UNCHANGED <<appVars, writerVars, up, fed, faults>>

(* An exception the handler does not catch (ValueError from readline for a *)
(* line over the stream's limit, anything raised while scoring): asyncio   *)
(* closes the connection, and what it held is gone.                        *)
HandlerDies(c) ==
    /\ conns[c].served
    /\ faults < MaxFaults
    /\ faults' = faults + 1
    /\ conns' = [conns EXCEPT ![c].served = FALSE, ![c].lines = <<>>]
    /\ UNCHANGED <<appVars, writerVars, up, fed>>

CollectorStops ==
    /\ up
    /\ faults < MaxFaults
    /\ faults' = faults + 1
    /\ up' = FALSE
    /\ conns' = [c \in DOMAIN conns |->
                    [conns[c] EXCEPT !.served = FALSE, !.lines = <<>>]]
    /\ UNCHANGED <<appVars, writerVars, fed>>

(* tap_server: the stale socket file is unlinked and a new one listens.    *)
CollectorStarts ==
    /\ ~up
    /\ up' = TRUE
    /\ UNCHANGED <<appVars, writerVars, conns, fed, faults>>

Writer ==
    \/ Take
    \/ Send
    \/ Refused
    \/ TimeOut(<<>>)
    \/ \E form \in {"cut", "torn"} : TimeOut(<<[rec |-> held, form |-> form]>>)

Handlers == \E c \in DOMAIN conns : ReadLine(c) \/ EndOfStream(c)

ChannelNext ==
    \/ Emit
    \/ Writer
    \/ Handlers
    \/ \E c \in DOMAIN conns : HandlerDies(c)
    \/ CollectorStops
    \/ CollectorStarts

(* The writer thread loops for ever, and so does every handler.            *)
ChannelSpec ==
    /\ ChannelInit
    /\ [][ChannelNext]_channelVars
    /\ WF_channelVars(Writer)
    /\ WF_channelVars(Handlers)

-----------------------------------------------------------------------------
(* Properties.                                                             *)

(* Every variable has its type, and what is in hand is bounded.            *)
ChannelTypeOK ==
    /\ emitted \in 0..MaxTaps
    /\ queue \in Seq(Records)
    /\ Len(queue) <= QueueSize
    /\ held \in 0..MaxTaps
    /\ tries \in 0..Attempts
    /\ sock \in 0..Len(conns)
    /\ conns \in Seq(Connection)
    /\ up \in BOOLEAN
    /\ fed \in Seq([rec : Records, conn : DOMAIN conns])
    /\ faults \in 0..MaxFaults

(* A send that failed half-way is the last thing on its connection: the    *)
(* retry goes over another one (tap.py closes and forgets the socket), so  *)
(* a torn line never runs into the record after it.                        *)
TornLineIsLast ==
    \A c \in DOMAIN conns : \A i \in DOMAIN conns[c].lines :
        conns[c].lines[i].form # "whole" =>
            i = Len(conns[c].lines) /\ ~conns[c].open /\ sock # c

(* What arrives over one connection arrives in the order it was emitted and*)
(* once. Only a reconnect reorders records or repeats one.                 *)
ConnectionsAreInOrder ==
    \A i, j \in DOMAIN fed :
        i < j /\ fed[i].conn = fed[j].conn => fed[i].rec < fed[j].rec

(* A retry can feed a record again, when all of the line but its newline   *)
(* had gone out, but never a third time.                                   *)
AtMostTwoCopies ==
    \A r \in Records : Cardinality({i \in DOMAIN fed : fed[i].rec = r}) <= Attempts

(* The collector was down or restarted, and is back for good: a record that*)
(* still waits in the queue then is fed, though the writer's socket may be *)
(* a broken one it has yet to notice. That takes the second attempt.       *)
QueuedIsFed ==
    \A r \in Records :
        (/\ \E i \in DOMAIN queue : queue[i] = r
         /\ up
         /\ faults = MaxFaults)
        ~> (\E i \in DOMAIN fed : fed[i].rec = r)

=============================================================================
