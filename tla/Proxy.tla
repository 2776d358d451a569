------------------------------- MODULE Proxy --------------------------------
(***************************************************************************)
(* The ingress proxy (scorer/proxy.py) between the tester's connections and*)
(* the app: a coroutine per client connection serves one exchange after    *)
(* another, on a fresh upstream connection each, and feeds one ingress     *)
(* record to the pipeline when the response has been relayed. The app      *)
(* serves a forwarded request whether or not anybody still waits for it.   *)
(*                                                                         *)
(* An await is where another coroutine may run, so an action is the code   *)
(* between two of them. A definition placed just before another, with the  *)
(* same parameters and a longer name, is a faulty variant no specification *)
(* uses.                                                                   *)
(***************************************************************************)
EXTENDS Integers, Sequences, FiniteSets

CONSTANTS
    Conns,   \* client connections
    MaxRid   \* bound: exchanges begun

ASSUME ProxyAssumption == MaxRid \in Nat

VARIABLES
    counter,   \* rid_factory's counter
    at,        \* where the coroutine of each connection is
    rid,       \* the request id of its current exchange; 0 before the first
    keep,      \* not client_wants_close
    gone,      \* client connections that were reset or closed by the client
    stalled,   \* connections whose client does not read what it is sent
    forwarded, \* request ids written to an upstream connection
    served,    \* request ids the app has answered, its taps emitted
    answered,  \* history: request ids whose client was sent a response
    owner,     \* history: the connection each request id was taken by
    records    \* history: request ids in the order on_record was called

proxyVars == <<counter, at, rid, keep, gone, stalled, forwarded, served, answered, owner, records>>

Rids == 1..MaxRid

ProxyInit ==
    /\ counter = 0
    /\ at = [c \in Conns |-> "reading"]
    /\ rid = [c \in Conns |-> 0]
    /\ keep = [c \in Conns |-> TRUE]
    /\ gone = {}
    /\ stalled = {}
    /\ forwarded = {}
    /\ served = {}
    /\ answered = {}
    /\ owner = <<>>
    /\ records = <<>>

GoTo(c, place) == at' = [at EXCEPT ![c] = place]

-----------------------------------------------------------------------------
(* _handle and _exchange.                                                  *)

(* _read_head and _read_body have returned a request; it gets a rid and is *)
(* rewritten, and the upstream connection is being opened.                 *)
ReadRequestUncounted(c, keepAlive) ==
    /\ at[c] = "reading"
    /\ counter < MaxRid
    /\ rid' = [rid EXCEPT ![c] = counter + 1]
    /\ keep' = [keep EXCEPT ![c] = keepAlive]
    /\ GoTo(c, "connecting")
    /\ owner' = Append(owner, c)
    /\ UNCHANGED <<counter, gone, stalled, forwarded, served, answered, records>>

ReadRequestReusingRid(c, keepAlive) ==
    /\ at[c] = "reading"
    /\ counter < MaxRid
    /\ counter' = counter + 1
    /\ rid' = [rid EXCEPT ![c] = IF @ = 0 THEN counter + 1 ELSE @]
    /\ keep' = [keep EXCEPT ![c] = keepAlive]
    /\ GoTo(c, "connecting")
    /\ owner' = Append(owner, c)
    /\ UNCHANGED <<gone, stalled, forwarded, served, answered, records>>

ReadRequest(c, keepAlive) ==
    /\ at[c] = "reading"
    /\ counter < MaxRid
    /\ counter' = counter + 1
    /\ rid' = [rid EXCEPT ![c] = counter + 1]
    /\ keep' = [keep EXCEPT ![c] = keepAlive]
    /\ GoTo(c, "connecting")
    /\ owner' = Append(owner, c)
    /\ UNCHANGED <<gone, stalled, forwarded, served, answered, records>>

(* End of stream, a malformed or oversized request, or a reset while it is *)
(* read: the connection is closed, no rid is taken.                        *)
NoRequest(c) ==
    /\ at[c] = "reading"
    /\ GoTo(c, "closed")
    /\ UNCHANGED <<counter, rid, keep, gone, stalled, forwarded, served, answered, owner, records>>

Connect(c) ==
    /\ at[c] = "connecting"
    /\ forwarded' = forwarded \cup {rid[c]}
    /\ GoTo(c, "waiting")
    /\ UNCHANGED <<counter, rid, keep, gone, stalled, served, answered, owner, records>>

(* OSError: a 502 is written to the client, and drained.                   *)
ConnectFails(c) ==
    /\ at[c] = "connecting"
    /\ answered' = answered \cup {rid[c]}
    /\ GoTo(c, "refusing")
    /\ UNCHANGED <<counter, rid, keep, gone, stalled, forwarded, served, owner, records>>

(* The drain returns or raises: the connection is closed either way.       *)
Refuse(c) ==
    /\ at[c] = "refusing"
    /\ GoTo(c, "closed")
    /\ UNCHANGED <<counter, rid, keep, gone, stalled, forwarded, served, answered, owner, records>>

(* The whole upstream response is there; it is written to the client.      *)
ReadResponseUntilClose(c) ==
    /\ at[c] = "waiting"
    /\ rid[c] \in served
    /\ ~keep[c]
    /\ answered' = answered \cup {rid[c]}
    /\ GoTo(c, "relaying")
    /\ UNCHANGED <<counter, rid, keep, gone, stalled, forwarded, served, owner, records>>

ReadResponseForgetting(c) ==
    /\ at[c] = "waiting"
    /\ rid[c] \in served
    /\ answered' = answered \cup {rid[c]}
    /\ GoTo(c, IF keep[c] THEN "reading" ELSE "relaying")
    /\ UNCHANGED <<counter, rid, keep, gone, stalled, forwarded, served, owner, records>>

ReadResponse(c) ==
    /\ at[c] = "waiting"
    /\ rid[c] \in served
    /\ answered' = answered \cup {rid[c]}
    /\ GoTo(c, "relaying")
    /\ UNCHANGED <<counter, rid, keep, gone, stalled, forwarded, served, owner, records>>

(* The upstream went away before a complete response, or it did not parse: *)
(* the connection is closed, nothing is recorded.                          *)
UpstreamFails(c) ==
    /\ at[c] = "waiting"
    /\ GoTo(c, "closed")
    /\ UNCHANGED <<counter, rid, keep, gone, stalled, forwarded, served, answered, owner, records>>

(* cwriter.drain returns: the record is fed, and the next request is read  *)
(* unless the client asked to close. The drain of a small response returns *)
(* whether or not the client reads; that of a large one waits for it.      *)
Relay(c) ==
    /\ at[c] = "relaying"
    /\ records' = Append(records, rid[c])
    /\ GoTo(c, IF keep[c] THEN "reading" ELSE "closed")
    /\ UNCHANGED <<counter, rid, keep, gone, stalled, forwarded, served, answered, owner>>

(* cwriter.drain raises: on_record is not reached.                         *)
RelayFails(c) ==
    /\ at[c] = "relaying"
    /\ c \in gone
    /\ GoTo(c, "closed")
    /\ UNCHANGED <<counter, rid, keep, gone, stalled, forwarded, served, answered, owner, records>>

-----------------------------------------------------------------------------
(* The client and the app.                                                 *)

ClientLeaves(c) ==
    /\ at[c] # "closed"
    /\ gone' = gone \cup {c}
    /\ UNCHANGED <<counter, at, rid, keep, stalled, forwarded, served, answered, owner, records>>

(* A client that stays connected may stop reading, for a while or for good.*)
ClientStops(c) ==
    /\ at[c] # "closed"
    /\ stalled' = stalled \cup {c}
    /\ UNCHANGED <<counter, at, rid, keep, gone, forwarded, served, answered, owner, records>>

ClientReads(c) ==
    /\ c \in stalled
    /\ stalled' = stalled \ {c}
    /\ UNCHANGED <<counter, at, rid, keep, gone, forwarded, served, answered, owner, records>>

AppServes(r) ==
    /\ r \in forwarded \ served
    /\ served' = served \cup {r}
    /\ UNCHANGED <<counter, at, rid, keep, gone, stalled, forwarded, answered, owner, records>>

ProxyNext ==
    \/ \E c \in Conns, keepAlive \in BOOLEAN : ReadRequest(c, keepAlive)
    \/ \E c \in Conns : NoRequest(c)
    \/ \E c \in Conns : Connect(c)
    \/ \E c \in Conns : ConnectFails(c)
    \/ \E c \in Conns : Refuse(c)
    \/ \E c \in Conns : ReadResponse(c)
    \/ \E c \in Conns : UpstreamFails(c)
    \/ \E c \in Conns : Relay(c)
    \/ \E c \in Conns : RelayFails(c)
    \/ \E c \in Conns : ClientLeaves(c)
    \/ \E c \in Conns : ClientStops(c)
    \/ \E c \in Conns : ClientReads(c)
    \/ \E r \in Rids : AppServes(r)

(* The event loop runs a coroutine that can go on, and the app answers what*)
(* it has received. The proxy has no timeout: without that answer, or when *)
(* the client does not read, it may wait for ever. That the client reads is*)
(* nobody's promise; a drain to one that is gone raises.                   *)
Drains(c) == Relay(c) \/ Refuse(c)

GoesOn(c) ==
    \/ Connect(c) \/ ReadResponse(c) \/ RelayFails(c)
    \/ c \notin stalled \ gone /\ Drains(c)

ProxySpec ==
    /\ ProxyInit
    /\ [][ProxyNext]_proxyVars
    /\ \A c \in Conns : WF_proxyVars(GoesOn(c))
    /\ \A r \in Rids : WF_proxyVars(AppServes(r))

-----------------------------------------------------------------------------
(* Properties.                                                             *)

Recorded == {records[i] : i \in DOMAIN records}

Busy == {"connecting", "refusing", "waiting", "relaying"}

Underway(c) == at[c] \in Busy

(* Every variable has its type.                                            *)
ProxyTypeOK ==
    /\ counter \in 0..MaxRid
    /\ at \in [Conns -> Busy \cup {"reading", "closed"}]
    /\ rid \in [Conns -> 0..counter]
    /\ keep \in [Conns -> BOOLEAN]
    /\ gone \subseteq Conns /\ stalled \subseteq Conns
    /\ served \subseteq forwarded
    /\ forwarded \subseteq 1..counter
    /\ answered \subseteq 1..counter
    /\ owner \in [1..counter -> Conns]
    /\ records \in Seq(1..counter)

(* A keep-alive connection is served one exchange at a time, and only goes *)
(* on after a recorded one: of a connection's requests all but the last    *)
(* have their record, and in the order they were made. (Scorer's "before"  *)
(* builds on it: a tester's next request on the connection finds the       *)
(* earlier ones in the Sealer.)                                            *)
KeepAliveIsSequential ==
    /\ \A r \in 1..counter : r < rid[owner[r]] => r \in Recorded
    /\ \A i, j \in DOMAIN records :
          i < j /\ owner[records[i]] = owner[records[j]] => records[i] < records[j]

(* An exchange stays open only in a drain to a client that is connected and*)
(* does not read; all others end, and the coroutine reads the next request *)
(* or closes.                                                              *)
ExchangesEnd ==
    \A c \in Conns :
        Underway(c) ~> \/ ~Underway(c)
                       \/ at[c] \in {"refusing", "relaying"} /\ c \in stalled \ gone

(* Request ids are used once, and an exchange ends once: recorded or not.  *)
PhaseOf(r) ==
    CASE r > counter -> "idle"
      [] r \in Recorded -> "done"
      [] r <= counter /\ r \notin Recorded /\ \E c \in Conns : rid[c] = r /\ Underway(c)
            -> "open"
      [] OTHER -> "aborted"

E == INSTANCE Exchanges WITH phase <- [r \in Rids |-> PhaseOf(r)]

ImplementsExchanges == E!ExchangesSpec

(* proxy.py: "produces one `ingress` record per exchange". Read of those   *)
(* the app served and the tester was answered: when they are over, they    *)
(* have their record.                                                      *)
AnsweredIsRecorded ==
    \A c \in Conns :
        rid[c] \in served \cap answered /\ ~Underway(c) => rid[c] \in Recorded

=============================================================================
