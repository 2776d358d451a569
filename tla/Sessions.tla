------------------------------ MODULE Sessions ------------------------------
(* The storefront's sessions as they are: Flask reads the session from the  *)
(* cookie a request carries and, because _persist_session touches it before *)
(* every request, writes it back with every answer, whatever the client's   *)
(* cookie has become meanwhile. A cookie older than the session's lifetime  *)
(* is read as no session at all. Answers may be lost.                       *)
EXTENDS Handlers

CONSTANTS
    Clients,
    Slots,       \* connections a client may have requests on at the same time
    Lifetime,    \* permanent_session_lifetime, in seconds
    MaxSecond,   \* bound on the clock
    MaxRequests  \* bound on the requests of one client

ASSUME SessionsAssumption ==
    Lifetime \in Nat /\ MaxSecond \in Nat /\ MaxRequests \in Nat

VARIABLES
    jar,       \* the session cookie each client holds
    open,      \* each client's requests in flight
    asked,     \* how many requests each client has made
    now,       \* time.time, in the seconds the cookie's signature is stamped with
    answered   \* history: what a client has been told that its cookie bears out

sessionVars == <<jar, open, asked, now, answered>>

Cookie == [session : Session, at : Nat]
NoCookie == [session |-> NoSession, at |-> 0]

(* Facts a client has been told: the items its cart holds, the promo numbers*)
(* issued to it.                                                            *)
Told ==
    [user : BOOLEAN, staff : BOOLEAN, items : SUBSET Products, paid : BOOLEAN,
     issued : SUBSET Nat]
NothingTold ==
    [user |-> FALSE, staff |-> FALSE, items |-> {}, paid |-> FALSE, issued |-> {}]

(* A request in flight: the cookie it carries and what its client had been  *)
(* told when it was sent; once served, whether the cookie was out of date,  *)
(* the cookie that comes back and the answer.                               *)
Exchange ==
    [phase : {"sent", "served"}, q : Requests, sent : Cookie, told : Told,
     expired : BOOLEAN, back : Cookie, answer : Answer]
Idle == [phase |-> "idle"]

SessionsInit ==
    /\ jar = [c \in Clients |-> NoCookie]
    /\ open = [c \in Clients |-> [i \in Slots |-> Idle]]
    /\ asked = [c \in Clients |-> 0]
    /\ now = 1
    /\ answered = [c \in Clients |-> NothingTold]

-----------------------------------------------------------------------------
(* open_session: what the handler finds in the cookie.                      *)
Expired(cookie) == now - cookie.at > Lifetime
Read(cookie) == IF Expired(cookie) THEN NoSession ELSE cookie.session

(* save_session: an empty session deletes the cookie, which only logout     *)
(* brings about since _persist_session puts a key in; any other is signed   *)
(* again.                                                                   *)
SavedSessionRotated(q, s) ==
    IF q.to = "logout" THEN NoCookie
    ELSE [session |-> IF q.to = "login" THEN [NoSession EXCEPT !.uid = q.uid]
                                        ELSE After(q, s),
          at |-> now]

SavedSession(q, s) ==
    IF q.to = "logout" THEN NoCookie ELSE [session |-> After(q, s), at |-> now]

(* What an answer tells the client.                                         *)
Learn(t, q, answer) ==
    CASE q.to \in {"login", "register"} -> [t EXCEPT !.user = TRUE]
      [] q.to = "fixate" /\ q.sid -> [t EXCEPT !.user = TRUE]
      [] q.to = "signin" -> [t EXCEPT !.staff = TRUE]
      [] q.to = "mfaSkip" /\ answer.ok -> [t EXCEPT !.staff = TRUE]
      [] q.to = "adminLogout" -> [t EXCEPT !.staff = FALSE]
      [] q.to = "logout" -> NothingTold
      [] q.to = "add" -> [t EXCEPT !.items = @ \cup {q.pid}]
      [] q.to = "remove" -> [t EXCEPT !.items = @ \ {q.pid}]
      [] q.to = "pay" -> [t EXCEPT !.paid = TRUE]
      [] q.to = "token" -> [t EXCEPT !.issued = @ \cup {answer.n}]
      [] OTHER -> t

(* The client sends a request with the cookie it holds.                     *)
Send(c, i, q) ==
    /\ open[c][i].phase = "idle"
    /\ asked[c] < MaxRequests
    /\ asked' = [asked EXCEPT ![c] = @ + 1]
    /\ open' = [open EXCEPT ![c][i] =
          [phase |-> "sent", q |-> q, sent |-> jar[c], told |-> answered[c],
           expired |-> FALSE, back |-> NoCookie, answer |-> AnswerTo(q, NoSession)]]
    /\ UNCHANGED <<jar, now, answered>>

(* The handler runs on the session that came with the request.              *)
Serve(c, i) ==
    LET x == open[c][i]
    IN  /\ x.phase = "sent"
        /\ open' = [open EXCEPT ![c][i] =
              [x EXCEPT !.phase = "served",
                        !.expired = Expired(x.sent),
                        !.back = SavedSession(x.q, Read(x.sent)),
                        !.answer = AnswerTo(x.q, Read(x.sent))]]
        /\ UNCHANGED <<jar, asked, now, answered>>

(* What the cookie of an answer bears out: what the client knew when it sent*)
(* the request, unless the cookie it sent was out of date, and the answer.  *)
Borne(x) == Learn(IF x.expired THEN NothingTold ELSE x.told, x.q, x.answer)

(* The answer arrives: its Set-Cookie replaces the client's cookie, with    *)
(* all that another answer put there while this one was on its way.         *)
Receive(c, i) ==
    LET x == open[c][i]
    IN  /\ x.phase = "served"
        /\ jar' = [jar EXCEPT ![c] = x.back]
        /\ answered' = [answered EXCEPT ![c] = Borne(x)]
        /\ open' = [open EXCEPT ![c][i] = Idle]
        /\ UNCHANGED <<asked, now>>

(* The connection breaks before the request or the answer is through.       *)
Lose(c, i) ==
    /\ open[c][i].phase # "idle"
    /\ open' = [open EXCEPT ![c][i] = Idle]
    /\ UNCHANGED <<jar, asked, now, answered>>

Advance ==
    /\ now < MaxSecond
    /\ now' = now + 1
    /\ UNCHANGED <<jar, open, asked, answered>>

SessionsNext ==
    \/ \E c \in Clients, i \in Slots, q \in Requests : Send(c, i, q)
    \/ \E c \in Clients, i \in Slots : Serve(c, i)
    \/ \E c \in Clients, i \in Slots : Receive(c, i)
    \/ \E c \in Clients, i \in Slots : Lose(c, i)
    \/ Advance

SessionsSpec == SessionsInit /\ [][SessionsNext]_sessionVars

-----------------------------------------------------------------------------
(* Properties.                                                             *)

(* Every variable has its type.                                            *)
SessionsTypeOK ==
    /\ jar \in [Clients -> Cookie]
    /\ open \in [Clients -> [Slots -> Exchange \cup {Idle}]]
    /\ asked \in [Clients -> Nat]
    /\ now \in Nat
    /\ answered \in [Clients -> Told]

(* However a client's requests overlap, get lost or find their cookie out of*)
(* date, an answer agrees with what the cookie of its request bears out:    *)
(* after a login or a sign-in pages open until a logout, the cart has what  *)
(* was put there, a paid order is not reported as unpaid, and a promo claim *)
(* that matches was predicted, not copied from a token of the session       *)
(* (Flask's session cookie, app/cart.py, the guards of app/tiers, checkout, *)
(* promo_token and promo_claim of retail/routes.py).                        *)
ReadYourWrites ==
    \A c \in Clients, i \in Slots :
        LET x == open[c][i]
        IN  x.phase = "served" /\ ~x.expired =>
            /\ x.q.to = "account" /\ x.told.user => x.answer.ok
            /\ x.q.to \in {"console", "tool"} /\ x.told.staff => x.answer.ok
            /\ x.q.to = "cart" => \A p \in x.told.items : x.answer.cart[p] > 0
            /\ x.q.to = "confirm" /\ x.told.paid => x.answer.ok
            /\ x.q.to = "claim" /\ x.answer.ok => x.q.n \notin x.told.issued

(* Session t has kept what session s had, but for what request q takes.     *)
Keeps(s, t, q) ==
    /\ s.uid # None => t.uid # None
    /\ q.to # "adminLogout" /\ s.admin # None => t.admin # None
    /\ \A p \in Products : q # [to |-> "remove", pid |-> p] => t.cart[p] >= s.cart[p]
    /\ s.paid => t.paid
    /\ t.promo_n >= s.promo_n

(* The answer that is about to arrive comes late: another one has put a     *)
(* cookie in the jar since its request was sent.                            *)
Late(c, x) == x.sent # jar[c]

(* app/__init__.py:24, "Sessions persist until logout": a client loses a    *)
(* login, a sign-in, an item, a payment or a promo number only by the answer*)
(* to the request that takes it, by one that comes late, or by one to a     *)
(* request whose cookie was out of date.                                    *)
SessionsPersist ==
    [][\A c \in Clients :
          jar'[c] # jar[c] =>
              \E i \in Slots :
                  LET x == open[c][i]
                  IN  /\ x.phase = "served"
                      /\ \/ Keeps(jar[c].session, jar'[c].session, x.q)
                         \/ x.q.to = "logout"
                         \/ Late(c, x)
                         \/ x.expired]_sessionVars

=============================================================================
