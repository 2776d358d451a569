--------------------------- MODULE SessionProofs ---------------------------
(* Proofs about Sessions, for any number of clients and connections and any *)
(* lifetime of a cookie: its type invariant, that an answer agrees with what*)
(* the cookie of its request bears out, and that a session loses nothing but*)
(* by a request that takes it, a late answer or a cookie out of date.       *)
EXTENDS Sessions, TLAPS

USE HandlersAssumption, SessionsAssumption

Tos == {"visit", "post", "record", "account", "console", "tool", "cart", "pay",
        "confirm", "token", "logout", "adminLogout", "mfaBegin", "mfaSkip",
        "login", "register", "fixate", "signin", "add", "remove", "claim"}

(* A request and the parameters its handler reads.                         *)
LEMMA RequestFields ==
    ASSUME NEW q \in Requests
    PROVE  /\ q.to \in Tos
           /\ q.to \in {"login", "register", "fixate"} => q.uid \in Accounts
           /\ q.to = "signin" => q.admin \in Staff
           /\ q.to \in {"add", "remove"} => q.pid \in Products
           /\ q.to = "claim" => q.n \in Nat
<1>1. q \in Request
  OBVIOUS
<1>2. QED
  BY <1>1 DEF Request, Tos

LEMMA NoSessionIsSession == NoSession \in Session
BY DEF NoSession, Session

(* Every handler leaves a session.                                         *)
LEMMA HandlersKeepSessions ==
    ASSUME NEW s \in Session
    PROVE  /\ Actor(s) \in Session
           /\ \A u \in Accounts : Login(s, u) \in Session /\ Register(s, u) \in Session
           /\ \A a \in Staff : Signin(s, a) \in Session
           /\ MfaBegin(s) \in Session
           /\ MfaSkip(s) \in Session
           /\ AdminLogout(s) \in Session
           /\ \A p \in Products : Add(s, p) \in Session /\ Remove(s, p) \in Session
           /\ PromoToken(s) \in Session
<1>1. Actor(s) \in Session
  BY DEF Actor, Session
<1>2. \A u \in Accounts : Login(s, u) \in Session /\ Register(s, u) \in Session
  BY DEF Login, Register, Session
<1>3. \A a \in Staff : Signin(s, a) \in Session
  BY DEF Signin, Session
<1>4. MfaBegin(s) \in Session /\ MfaSkip(s) \in Session /\ AdminLogout(s) \in Session
  BY DEF MfaBegin, MfaSkip, AdminLogout, Session
<1>5. \A p \in Products : Add(s, p) \in Session /\ Remove(s, p) \in Session
  BY DEF Add, Remove, Session
<1>6. PromoToken(s) \in Session
  BY DEF PromoToken, Session
<1>7. QED
  BY <1>1, <1>2, <1>3, <1>4, <1>5, <1>6

LEMMA ActorHandlers ==
    ASSUME NEW s \in Session
    PROVE  /\ Pay(s) \in Session
           /\ \A u \in Accounts, b \in BOOLEAN : Fixate(s, u, b) \in Session
<1>1. Actor(s) \in Session
  BY HandlersKeepSessions
<1>2. \A u \in Accounts : [Actor(s) EXCEPT !.sid = TRUE, !.uid = u] \in Session
  BY <1>1 DEF Session
<1>3. [Actor(s) EXCEPT !.paid = TRUE] \in Session
  BY <1>1 DEF Session
<1>4. QED
  BY <1>1, <1>2, <1>3 DEF Pay, Fixate

(* The handler each request reaches.                                       *)
LEMMA Dispatch ==
    ASSUME NEW q, NEW s
    PROVE  /\ q.to = "visit" => After(q, s) = s
           /\ q.to = "post" => After(q, s) = Actor(s)
           /\ q.to = "record" => After(q, s) = Actor(s)
           /\ q.to = "account" => After(q, s) = s
           /\ q.to = "console" => After(q, s) = s
           /\ q.to = "tool" => After(q, s) = s
           /\ q.to = "cart" => After(q, s) = s
           /\ q.to = "login" => After(q, s) = Login(s, q.uid)
           /\ q.to = "register" => After(q, s) = Register(s, q.uid)
           /\ q.to = "fixate" => After(q, s) = Fixate(s, q.uid, q.sid)
           /\ q.to = "signin" => After(q, s) = Signin(s, q.admin)
           /\ q.to = "mfaBegin" => After(q, s) = MfaBegin(s)
           /\ q.to = "mfaSkip" => After(q, s) = MfaSkip(s)
           /\ q.to = "logout" => After(q, s) = NoSession
           /\ q.to = "adminLogout" => After(q, s) = AdminLogout(s)
           /\ q.to = "add" => After(q, s) = Add(s, q.pid)
           /\ q.to = "remove" => After(q, s) = Remove(s, q.pid)
           /\ q.to = "pay" => After(q, s) = Pay(s)
           /\ q.to = "confirm" => After(q, s) = Actor(s)
           /\ q.to = "token" => After(q, s) = PromoToken(s)
           /\ q.to = "claim" => After(q, s) = Actor(s)
BY Zenon DEF After, Visit, Post, ApiIdentity, AccountPage, ConsolePage, Tool,
             CartPage, Logout, Confirm, PromoClaim

(* What each request's ok stands for.                                      *)
LEMMA DispatchOk ==
    ASSUME NEW q, NEW s
    PROVE  /\ q.to = "account" => Ok(q, s) = (s.uid # None)
           /\ q.to \in {"console", "tool"} => Ok(q, s) = (s.admin # None)
           /\ q.to = "mfaSkip" => Ok(q, s) = (s.pre_mfa # None)
           /\ q.to = "confirm" => Ok(q, s) = s.paid
           /\ q.to = "claim" => Ok(q, s) = (s.promo_n = q.n)
           /\ q.to \notin {"account", "console", "tool", "mfaSkip", "confirm", "claim"}
              => Ok(q, s) = TRUE
BY Zenon DEF Ok, RequireLogin, Guard, PaidFor, Matches

LEMMA AfterIsSession ==
    ASSUME NEW q \in Requests, NEW s \in Session
    PROVE  After(q, s) \in Session
<1>1. /\ q.to \in Tos
      /\ q.to \in {"login", "register", "fixate"} => q.uid \in Accounts
      /\ q.to = "signin" => q.admin \in Staff
      /\ q.to \in {"add", "remove"} => q.pid \in Products
  BY RequestFields
<1>2. q.to = "fixate" => Fixate(s, q.uid, q.sid) \in Session
  <2>1. Actor(s) \in Session /\ (q.to = "fixate" => Fixate(s, q.uid, TRUE) \in Session)
    BY <1>1, HandlersKeepSessions, ActorHandlers
  <2>2. QED
    BY <2>1 DEF Fixate
<1>3. CASE q.to \in {"visit", "account", "console", "tool", "cart", "logout"}
  BY <1>3, NoSessionIsSession, Dispatch
<1>4. CASE q.to \in {"post", "record", "confirm", "claim", "pay"}
  BY <1>4, HandlersKeepSessions, ActorHandlers, Dispatch
<1>5. CASE q.to \in {"login", "register", "fixate", "signin"}
  BY <1>1, <1>2, <1>5, HandlersKeepSessions, Dispatch
<1>6. CASE q.to \in {"mfaBegin", "mfaSkip", "adminLogout", "add", "remove", "token"}
  BY <1>1, <1>6, HandlersKeepSessions, Dispatch
<1>7. QED
  BY <1>1, <1>3, <1>4, <1>5, <1>6 DEF Tos

LEMMA AnswerIsAnswer ==
    ASSUME NEW q \in Requests, NEW s \in Session
    PROVE  AnswerTo(q, s) \in Answer
<1>1. Ok(q, s) \in BOOLEAN
  BY DispatchOk DEF Session
<1>2. QED
  BY <1>1 DEF AnswerTo, Answer, Session

LEMMA SavedIsCookie ==
    ASSUME NEW q \in Requests, NEW s \in Session, now \in Nat
    PROVE  /\ SavedSession(q, s) \in Cookie
           /\ SavedSession(q, s).session = After(q, s)
<1>1. After(q, s) \in Session /\ NoSession \in Session
  BY AfterIsSession, NoSessionIsSession
<1>2. CASE q.to = "logout"
  BY <1>1, <1>2, Dispatch DEF SavedSession, NoCookie, Cookie
<1>3. CASE q.to # "logout"
  BY <1>1, <1>3 DEF SavedSession, Cookie
<1>4. QED
  BY <1>2, <1>3

LEMMA LearnIsTold ==
    ASSUME NEW t \in Told, NEW q \in Requests, NEW a \in Answer
    PROVE  Learn(t, q, a) \in Told
<1>1. NothingTold \in Told
  BY DEF NothingTold, Told
<1>2. /\ [t EXCEPT !.user = TRUE] \in Told
      /\ [t EXCEPT !.staff = TRUE] \in Told
      /\ [t EXCEPT !.staff = FALSE] \in Told
      /\ [t EXCEPT !.paid = TRUE] \in Told
  BY DEF Told
<1>3. \A p \in Products :
          /\ [t EXCEPT !.items = @ \cup {p}] \in Told
          /\ [t EXCEPT !.items = @ \ {p}] \in Told
  BY DEF Told
<1>4. [t EXCEPT !.issued = @ \cup {a.n}] \in Told
  BY DEF Told, Answer
<1>5. q.to \in {"add", "remove"} => q.pid \in Products
  BY RequestFields
<1>6. QED
  BY <1>1, <1>2, <1>3, <1>4, <1>5, Zenon DEF Learn

LEMMA ReadIsSession ==
    ASSUME NEW k \in Cookie, now \in Nat
    PROVE  /\ Read(k) \in Session
           /\ Expired(k) \in BOOLEAN
           /\ Read(k) = IF Expired(k) THEN NoSession ELSE k.session
BY NoSessionIsSession DEF Read, Expired, Cookie

LEMMA BorneIsTold ==
    ASSUME NEW x \in Exchange
    PROVE  Borne(x) \in Told
<1>1. NothingTold \in Told
  BY DEF NothingTold, Told
<1>2. x.told \in Told /\ x.q \in Requests /\ x.answer \in Answer
  BY DEF Exchange
<1>3. QED
  BY <1>1, <1>2, LearnIsTold DEF Borne

-----------------------------------------------------------------------------
(* The type invariant.                                                     *)

LEMMA TypeInit == SessionsInit => SessionsTypeOK
<1>1. NoCookie \in Cookie /\ NothingTold \in Told
  BY NoSessionIsSession DEF NoCookie, Cookie, NothingTold, Told
<1>2. QED
  BY <1>1 DEF SessionsInit, SessionsTypeOK

LEMMA TypeNext == SessionsTypeOK /\ [SessionsNext]_sessionVars => SessionsTypeOK'
<1> SUFFICES ASSUME SessionsTypeOK, [SessionsNext]_sessionVars
             PROVE  SessionsTypeOK'
  OBVIOUS
<1>1. ASSUME NEW c \in Clients, NEW i \in Slots, NEW q \in Requests, Send(c, i, q)
      PROVE  SessionsTypeOK'
  <2>1. NoCookie \in Cookie /\ AnswerTo(q, NoSession) \in Answer
    BY NoSessionIsSession, AnswerIsAnswer DEF NoCookie, Cookie
  <2>2. [phase |-> "sent", q |-> q, sent |-> jar[c], told |-> answered[c],
         expired |-> FALSE, back |-> NoCookie, answer |-> AnswerTo(q, NoSession)]
        \in Exchange
    BY <2>1 DEF Exchange, SessionsTypeOK
  <2>3. QED
    BY <1>1, <2>2 DEF Send, SessionsTypeOK
<1>2. ASSUME NEW c \in Clients, NEW i \in Slots, Serve(c, i)
      PROVE  SessionsTypeOK'
  <2> DEFINE x == open[c][i]
  <2>1. x \in Exchange
    BY <1>2 DEF Serve, SessionsTypeOK, Idle
  <2>2. x.q \in Requests /\ Read(x.sent) \in Session /\ Expired(x.sent) \in BOOLEAN
    BY <2>1, ReadIsSession DEF Exchange, SessionsTypeOK
  <2>3. /\ SavedSession(x.q, Read(x.sent)) \in Cookie
        /\ AnswerTo(x.q, Read(x.sent)) \in Answer
    BY <2>2, SavedIsCookie, AnswerIsAnswer DEF SessionsTypeOK
  <2>4. [x EXCEPT !.phase = "served",
                  !.expired = Expired(x.sent),
                  !.back = SavedSession(x.q, Read(x.sent)),
                  !.answer = AnswerTo(x.q, Read(x.sent))] \in Exchange
    BY <2>1, <2>2, <2>3 DEF Exchange
  <2>5. QED
    BY <1>2, <2>4 DEF Serve, SessionsTypeOK
<1>3. ASSUME NEW c \in Clients, NEW i \in Slots, Receive(c, i)
      PROVE  SessionsTypeOK'
  <2> DEFINE x == open[c][i]
  <2>1. x \in Exchange
    BY <1>3 DEF Receive, SessionsTypeOK, Idle
  <2>2. x.back \in Cookie /\ Borne(x) \in Told
    BY <2>1, BorneIsTold DEF Exchange
  <2>3. QED
    BY <1>3, <2>2 DEF Receive, SessionsTypeOK
<1>4. ASSUME NEW c \in Clients, NEW i \in Slots, Lose(c, i)
      PROVE  SessionsTypeOK'
  BY <1>4 DEF Lose, SessionsTypeOK
<1>5. CASE Advance
  BY <1>5 DEF Advance, SessionsTypeOK
<1>6. CASE UNCHANGED sessionVars
  BY <1>6 DEF sessionVars, SessionsTypeOK
<1>7. QED
  BY <1>1, <1>2, <1>3, <1>4, <1>5, <1>6 DEF SessionsNext

(* Whatever clients do at the same time, jars hold cookies, requests are    *)
(* well formed and what a client was told has its type.                     *)
THEOREM SessionsAreTyped == SessionsSpec => []SessionsTypeOK
<1>1. QED
  BY TypeInit, TypeNext, PTL DEF SessionsSpec

-----------------------------------------------------------------------------
(* What a cookie bears out.                                                *)

(* What t claims about the session is so.                                   *)
Knows(t, s) ==
    /\ t.user => s.uid # None
    /\ t.staff => s.admin # None
    /\ \A p \in t.items : s.cart[p] > 0
    /\ t.paid => s.paid
    /\ \A n \in t.issued : n < s.promo_n

ToldIsTrue == \A c \in Clients : Knows(answered[c], jar[c].session)

(* The session a handler that has run found, and what of its client's       *)
(* knowledge it bears out.                                                  *)
Found(x) == IF x.expired THEN NoSession ELSE x.sent.session
Known(x) == IF x.expired THEN NothingTold ELSE x.told

(* A request in flight carries a cookie that bears out what its client had  *)
(* been told, and its answer is what the handler makes of what it found.    *)
IsBorneOut(x) ==
    /\ x.phase # "idle" => Knows(x.told, x.sent.session)
    /\ x.phase = "served" =>
          /\ x.back.session = After(x.q, Found(x))
          /\ x.answer = AnswerTo(x.q, Found(x))

OpenIsBorneOut == \A c \in Clients, i \in Slots : IsBorneOut(open[c][i])

SessionsInv == SessionsTypeOK /\ ToldIsTrue /\ OpenIsBorneOut

LEMMA FoundIsKnown ==
    ASSUME NEW x \in Exchange, IsBorneOut(x)
    PROVE  Found(x) \in Session /\ Known(x) \in Told /\ Knows(Known(x), Found(x))
<1>1. /\ x.phase # "idle" /\ x.expired \in BOOLEAN
      /\ x.sent.session \in Session /\ x.told \in Told
  BY DEF Exchange, Cookie
<1>2. NoSession \in Session /\ NothingTold \in Told /\ Knows(NothingTold, NoSession)
  BY NoSessionIsSession DEF NothingTold, Told, Knows
<1>3. QED
  BY <1>1, <1>2 DEF Found, Known, IsBorneOut

(* A handler's answer teaches the client nothing but what the session it    *)
(* leaves bears out.                                                        *)
LEMMA LearningIsSound ==
    ASSUME NEW t \in Told, NEW q \in Requests, NEW s \in Session, Knows(t, s)
    PROVE  Knows(Learn(t, q, AnswerTo(q, s)), After(q, s))
<1>1. /\ q.to \in Tos
      /\ q.to \in {"login", "register", "fixate"} => q.uid \in Accounts
      /\ q.to = "signin" => q.admin \in Staff
      /\ q.to \in {"add", "remove"} => q.pid \in Products
  BY RequestFields
<1>2. Knows(t, Actor(s)) /\ Actor(s) \in Session
  BY HandlersKeepSessions DEF Knows, Actor, Session
<1>3. CASE q.to \in {"visit", "account", "console", "tool", "cart", "mfaBegin"}
  <2>1. After(q, s) = s \/ After(q, s) = MfaBegin(s)
    BY <1>3, Dispatch
  <2>2. Learn(t, q, AnswerTo(q, s)) = t
    BY <1>3, Zenon DEF Learn
  <2>3. QED
    BY <2>1, <2>2 DEF Knows, MfaBegin, Session
<1>4. CASE q.to \in {"post", "record", "confirm", "claim"}
  <2>1. After(q, s) = Actor(s)
    BY <1>4, Dispatch
  <2>2. Learn(t, q, AnswerTo(q, s)) = t
    BY <1>4, Zenon DEF Learn
  <2>3. QED
    BY <1>2, <2>1, <2>2
<1>5. CASE q.to \in {"login", "register"}
  <2>1. After(q, s) = [s EXCEPT !.uid = q.uid]
    BY <1>5, Dispatch DEF Login, Register
  <2>2. Learn(t, q, AnswerTo(q, s)) = [t EXCEPT !.user = TRUE]
    BY <1>5, Zenon DEF Learn
  <2>3. QED
    BY <1>1, <1>5, <2>1, <2>2 DEF Knows, Session, Told
<1>6. CASE q.to = "fixate" /\ q.sid
  <2>1. After(q, s) = [Actor(s) EXCEPT !.sid = TRUE, !.uid = q.uid]
    BY <1>6, Dispatch DEF Fixate
  <2>2. Learn(t, q, AnswerTo(q, s)) = [t EXCEPT !.user = TRUE]
    BY <1>6, Zenon DEF Learn
  <2>3. QED
    BY <1>1, <1>2, <1>6, <2>1, <2>2 DEF Knows, Session, Told
<1>7. CASE q.to = "fixate" /\ ~q.sid
  <2>1. After(q, s) = Actor(s)
    BY <1>7, Dispatch DEF Fixate
  <2>2. Learn(t, q, AnswerTo(q, s)) = t
    BY <1>7, Zenon DEF Learn
  <2>3. QED
    BY <1>2, <2>1, <2>2
<1>8. CASE q.to = "signin"
  <2>1. After(q, s) = [s EXCEPT !.admin = q.admin, !.admin_role = RoleOf[q.admin]]
    BY <1>8, Dispatch DEF Signin
  <2>2. Learn(t, q, AnswerTo(q, s)) = [t EXCEPT !.staff = TRUE]
    BY <1>8, Zenon DEF Learn
  <2>3. QED
    BY <1>1, <1>8, <2>1, <2>2 DEF Knows, Session, Told
<1>9. CASE q.to = "mfaSkip"
  <2>1. After(q, s) = MfaSkip(s)
    BY <1>9, Dispatch
  <2>2. AnswerTo(q, s).ok = (s.pre_mfa # None)
    BY <1>9, DispatchOk DEF AnswerTo
  <2>3. CASE s.pre_mfa # None
    <3>1. Learn(t, q, AnswerTo(q, s)) = [t EXCEPT !.staff = TRUE]
      BY <1>9, <2>2, <2>3, Zenon DEF Learn
    <3>2. QED
      BY <2>1, <2>3, <3>1 DEF MfaSkip, Knows, Session, Told
  <2>4. CASE s.pre_mfa = None
    <3>1. Learn(t, q, AnswerTo(q, s)) = t
      BY <1>9, <2>2, <2>4, Zenon DEF Learn
    <3>2. QED
      BY <2>1, <2>4, <3>1 DEF MfaSkip
  <2>5. QED
    BY <2>3, <2>4
<1>10. CASE q.to = "adminLogout"
  <2>1. Learn(t, q, AnswerTo(q, s)) = [t EXCEPT !.staff = FALSE]
    BY <1>10, Zenon DEF Learn
  <2>2. After(q, s) = AdminLogout(s)
    BY <1>10, Dispatch, Zenon
  <2>3. Knows([t EXCEPT !.staff = FALSE], AdminLogout(s))
    BY DEF AdminLogout, Knows, Session, Told
  <2>4. QED
    BY <2>1, <2>2, <2>3
<1>11. CASE q.to = "logout"
  <2>1. Learn(t, q, AnswerTo(q, s)) = NothingTold
    BY <1>11, Zenon DEF Learn
  <2>2. QED
    BY <1>11, <2>1, Dispatch DEF Knows, NothingTold
<1>12. CASE q.to = "add"
  <2>1. Learn(t, q, AnswerTo(q, s)) = [t EXCEPT !.items = @ \cup {q.pid}]
    BY <1>12, Zenon DEF Learn
  <2>2. After(q, s) = [s EXCEPT !.cart[q.pid] = @ + 1]
    BY <1>12, Dispatch DEF Add
  <2>3. QED
    BY <1>1, <1>12, <2>1, <2>2 DEF Knows, Session, Told
<1>13. CASE q.to = "remove"
  <2>1. Learn(t, q, AnswerTo(q, s)) = [t EXCEPT !.items = @ \ {q.pid}]
    BY <1>13, Zenon DEF Learn
  <2>2. After(q, s) = [s EXCEPT !.cart[q.pid] = 0]
    BY <1>13, Dispatch DEF Remove
  <2>3. QED
    BY <1>1, <1>13, <2>1, <2>2 DEF Knows, Session, Told
<1>14. CASE q.to = "pay"
  <2>1. Learn(t, q, AnswerTo(q, s)) = [t EXCEPT !.paid = TRUE]
    BY <1>14, Zenon DEF Learn
  <2>2. After(q, s) = [Actor(s) EXCEPT !.paid = TRUE]
    BY <1>14, Dispatch DEF Pay
  <2>3. QED
    BY <1>2, <2>1, <2>2 DEF Knows, Session, Told
<1>15. CASE q.to = "token"
  <2>1. Learn(t, q, AnswerTo(q, s)) = [t EXCEPT !.issued = @ \cup {s.promo_n}]
    BY <1>15, Zenon DEF Learn, AnswerTo
  <2>2. After(q, s) = [s EXCEPT !.promo_n = @ + 1]
    BY <1>15, Dispatch DEF PromoToken
  <2>3. QED
    BY <2>1, <2>2 DEF Knows, Session, Told
<1>16. CASE q.to = "fixate"
  BY <1>6, <1>7, <1>16, Zenon
<1>17. QED
  BY <1>1, <1>3, <1>4, <1>5, <1>8, <1>9, <1>10, <1>11, <1>12, <1>13, <1>14, <1>15,
     <1>16 DEF Tos

LEMMA InvInit == SessionsInit => SessionsInv
<1> SUFFICES ASSUME SessionsInit
             PROVE  ToldIsTrue /\ OpenIsBorneOut
  BY TypeInit DEF SessionsInv
<1>1. ToldIsTrue
  BY DEF SessionsInit, ToldIsTrue, Knows, NothingTold
<1>2. OpenIsBorneOut
  BY DEF SessionsInit, OpenIsBorneOut, IsBorneOut, Idle
<1>3. QED
  BY <1>1, <1>2

LEMMA InvNext == SessionsInv /\ [SessionsNext]_sessionVars => SessionsInv'
<1> SUFFICES ASSUME SessionsInv, [SessionsNext]_sessionVars
             PROVE  ToldIsTrue' /\ OpenIsBorneOut'
  BY TypeNext DEF SessionsInv
<1> USE DEF SessionsInv
<1>1. ASSUME NEW c \in Clients, NEW i \in Slots, NEW q \in Requests, Send(c, i, q)
      PROVE  ToldIsTrue' /\ OpenIsBorneOut'
  <2> DEFINE x == [phase |-> "sent", q |-> q, sent |-> jar[c], told |-> answered[c],
                   expired |-> FALSE, back |-> NoCookie,
                   answer |-> AnswerTo(q, NoSession)]
  <2>1. IsBorneOut(x)
    BY DEF ToldIsTrue, IsBorneOut
  <2>2. /\ open' = [open EXCEPT ![c][i] = x]
        /\ UNCHANGED <<jar, now, answered>>
    BY <1>1 DEF Send
  <2> HIDE DEF x
  <2>3. OpenIsBorneOut'
    BY <2>1, <2>2 DEF OpenIsBorneOut, SessionsTypeOK
  <2>4. QED
    BY <2>2, <2>3 DEF ToldIsTrue
<1>2. ASSUME NEW c \in Clients, NEW i \in Slots, Serve(c, i)
      PROVE  ToldIsTrue' /\ OpenIsBorneOut'
  <2> DEFINE x == open[c][i]
             served == [x EXCEPT !.phase = "served",
                                 !.expired = Expired(x.sent),
                                 !.back = SavedSession(x.q, Read(x.sent)),
                                 !.answer = AnswerTo(x.q, Read(x.sent))]
  <2>1. x \in Exchange /\ x.phase = "sent" /\ IsBorneOut(x)
    BY <1>2 DEF Serve, SessionsTypeOK, Idle, OpenIsBorneOut
  <2>2. x.q \in Requests /\ Read(x.sent) \in Session
    BY <2>1, ReadIsSession DEF Exchange, SessionsTypeOK
  <2>3. SavedSession(x.q, Read(x.sent)).session = After(x.q, Read(x.sent))
    BY <2>2, SavedIsCookie DEF SessionsTypeOK
  <2>4. /\ served.sent = x.sent
        /\ served.told = x.told
        /\ served.q = x.q
        /\ served.expired = Expired(x.sent)
        /\ served.back = SavedSession(x.q, Read(x.sent))
        /\ served.answer = AnswerTo(x.q, Read(x.sent))
    BY <2>1 DEF Exchange
  <2>5. /\ open' = [open EXCEPT ![c][i] = served]
        /\ UNCHANGED <<jar, now, answered>>
    BY <1>2 DEF Serve
  <2> HIDE DEF served
  <2>6. Found(served) = Read(x.sent)
    BY <2>1, <2>4, ReadIsSession DEF Found, Exchange, SessionsTypeOK
  <2>7. IsBorneOut(served)
    BY <2>1, <2>3, <2>4, <2>6 DEF IsBorneOut
  <2>8. OpenIsBorneOut'
    BY <2>5, <2>7 DEF OpenIsBorneOut, SessionsTypeOK
  <2>9. QED
    BY <2>5, <2>8 DEF ToldIsTrue
<1>3. ASSUME NEW c \in Clients, NEW i \in Slots, Receive(c, i)
      PROVE  ToldIsTrue' /\ OpenIsBorneOut'
  <2> DEFINE x == open[c][i]
  <2>1. x \in Exchange /\ x.phase = "served" /\ IsBorneOut(x)
    BY <1>3 DEF Receive, SessionsTypeOK, Idle, OpenIsBorneOut
  <2>2. x.q \in Requests
    BY <2>1 DEF Exchange
  <2>3. Knows(Learn(Known(x), x.q, AnswerTo(x.q, Found(x))), After(x.q, Found(x)))
    BY <2>1, <2>2, FoundIsKnown, LearningIsSound
  <2>4. Knows(Borne(x), x.back.session)
    BY <2>1, <2>3 DEF IsBorneOut, Borne, Known
  <2>5. /\ jar' = [jar EXCEPT ![c] = x.back]
        /\ answered' = [answered EXCEPT ![c] = Borne(x)]
        /\ open' = [open EXCEPT ![c][i] = Idle]
    BY <1>3 DEF Receive
  <2> HIDE DEF x
  <2>6. ToldIsTrue'
    BY <2>4, <2>5 DEF ToldIsTrue, SessionsTypeOK
  <2>7. IsBorneOut(Idle)
    BY DEF IsBorneOut, Idle
  <2>8. OpenIsBorneOut'
    BY <2>5, <2>7 DEF OpenIsBorneOut, SessionsTypeOK
  <2>9. QED
    BY <2>6, <2>8
<1>4. ASSUME NEW c \in Clients, NEW i \in Slots, Lose(c, i)
      PROVE  ToldIsTrue' /\ OpenIsBorneOut'
  <2>1. IsBorneOut(Idle)
    BY DEF IsBorneOut, Idle
  <2>2. QED
    BY <1>4, <2>1 DEF Lose, ToldIsTrue, OpenIsBorneOut, SessionsTypeOK
<1>5. CASE Advance
  BY <1>5 DEF Advance, ToldIsTrue, OpenIsBorneOut
<1>6. CASE UNCHANGED sessionVars
  BY <1>6 DEF sessionVars, ToldIsTrue, OpenIsBorneOut
<1>7. QED
  BY <1>1, <1>2, <1>3, <1>4, <1>5, <1>6 DEF SessionsNext

LEMMA ToldAnswers ==
    ASSUME NEW t \in Told, NEW q, NEW s \in Session, Knows(t, s)
    PROVE  LET a == AnswerTo(q, s)
           IN  /\ q.to = "account" /\ t.user => a.ok
               /\ q.to \in {"console", "tool"} /\ t.staff => a.ok
               /\ q.to = "cart" => \A p \in t.items : a.cart[p] > 0
               /\ q.to = "confirm" /\ t.paid => a.ok
               /\ q.to = "claim" /\ a.ok => q.n \notin t.issued
<1> DEFINE a == AnswerTo(q, s)
<1>1. a.ok = Ok(q, s) /\ a.cart = s.cart
  BY DEF AnswerTo
<1> HIDE DEF a
<1>2. q.to = "account" /\ t.user => a.ok
  BY <1>1, DispatchOk, Zenon DEF Knows
<1>3. q.to \in {"console", "tool"} /\ t.staff => a.ok
  BY <1>1, DispatchOk, Zenon DEF Knows
<1>4. q.to = "cart" => \A p \in t.items : a.cart[p] > 0
  BY <1>1 DEF Knows
<1>5. q.to = "confirm" /\ t.paid => a.ok
  BY <1>1, DispatchOk, Zenon DEF Knows
<1>6. q.to = "claim" /\ a.ok => q.n \notin t.issued
  <2>1. s.promo_n \notin t.issued
    BY DEF Knows, Session, Told
  <2>2. QED
    BY <1>1, <2>1, DispatchOk, Zenon
<1>7. QED
  BY <1>2, <1>3, <1>4, <1>5, <1>6 DEF a

(* However the requests of a client overlap, are lost, and whenever they    *)
(* reach the shop: what the cookie of a request bears out, the answer to it *)
(* agrees with, unless the cookie was out of date (the guards of app/tiers).*)
THEOREM AnswersAgreeWithTheirCookies == SessionsSpec => []ReadYourWrites
<1>1. SessionsInv => ReadYourWrites
  <2> SUFFICES ASSUME SessionsInv, NEW c \in Clients, NEW i \in Slots,
                      open[c][i].phase = "served", ~open[c][i].expired
               PROVE  LET x == open[c][i]
                      IN  /\ x.q.to = "account" /\ x.told.user => x.answer.ok
                          /\ x.q.to \in {"console", "tool"} /\ x.told.staff => x.answer.ok
                          /\ x.q.to = "cart" => \A p \in x.told.items : x.answer.cart[p] > 0
                          /\ x.q.to = "confirm" /\ x.told.paid => x.answer.ok
                          /\ x.q.to = "claim" /\ x.answer.ok => x.q.n \notin x.told.issued
    BY DEF ReadYourWrites
  <2> DEFINE x == open[c][i]
  <2>1. x \in Exchange /\ IsBorneOut(x)
    BY DEF SessionsInv, SessionsTypeOK, OpenIsBorneOut, Idle
  <2>2. /\ x.answer = AnswerTo(x.q, x.sent.session)
        /\ x.sent.session \in Session
        /\ x.told \in Told
        /\ Knows(x.told, x.sent.session)
    BY <2>1, FoundIsKnown DEF IsBorneOut, Found, Known
  <2> HIDE DEF x
  <2>3. QED
    BY <2>2, ToldAnswers DEF x
<1>2. QED
  BY InvInit, InvNext, <1>1, PTL DEF SessionsSpec

-----------------------------------------------------------------------------
(* What a session loses.                                                   *)

(* No handler but logout takes from a session what its request does not     *)
(* name.                                                                    *)
LEMMA HandlersTakeNothing ==
    ASSUME NEW q \in Requests, NEW s \in Session, q.to # "logout"
    PROVE  Keeps(s, After(q, s), q)
<1>1. /\ q.to \in Tos
      /\ q.to \in {"login", "register", "fixate"} => q.uid \in Accounts
      /\ q.to = "signin" => q.admin \in Staff
      /\ q.to \in {"add", "remove"} => q.pid \in Products
      /\ q.to = "remove" => q = [to |-> "remove", pid |-> q.pid]
  <2>1. q \in Request
    OBVIOUS
  <2>2. q.to = "remove" => q = [to |-> "remove", pid |-> q.pid]
    BY <2>1 DEF Request
  <2>3. QED
    BY <2>2, RequestFields
<1>2. Keeps(s, s, q)
  BY DEF Keeps, Session
<1>3. Actor(s) \in Session /\ Keeps(s, Actor(s), q)
  BY HandlersKeepSessions DEF Keeps, Actor, Session
<1>4. CASE q.to \in {"visit", "account", "console", "tool", "cart"}
  BY <1>2, <1>4, Dispatch
<1>5. CASE q.to \in {"post", "record", "confirm", "claim"}
  BY <1>3, <1>5, Dispatch
<1>6. CASE q.to \in {"login", "register"}
  <2>1. After(q, s) = [s EXCEPT !.uid = q.uid]
    BY <1>6, Dispatch DEF Login, Register
  <2>2. QED
    BY <1>1, <1>6, <2>1 DEF Keeps, Session
<1>7. CASE q.to = "fixate"
  <2>1. After(q, s) = Actor(s) \/ After(q, s) = [Actor(s) EXCEPT !.sid = TRUE, !.uid = q.uid]
    BY <1>7, Dispatch DEF Fixate
  <2>2. Keeps(s, [Actor(s) EXCEPT !.sid = TRUE, !.uid = q.uid], q)
    BY <1>1, <1>3, <1>7 DEF Keeps, Session
  <2>3. QED
    BY <1>3, <2>1, <2>2
<1>8. CASE q.to = "signin"
  <2>1. After(q, s) = [s EXCEPT !.admin = q.admin, !.admin_role = RoleOf[q.admin]]
    BY <1>8, Dispatch DEF Signin
  <2>2. QED
    BY <1>1, <1>8, <2>1 DEF Keeps, Session
<1>9. CASE q.to \in {"mfaBegin", "mfaSkip"}
  <2>1. After(q, s) = MfaBegin(s) \/ After(q, s) = MfaSkip(s)
    BY <1>9, Dispatch
  <2>2. Keeps(s, MfaBegin(s), q)
    BY DEF Keeps, MfaBegin, Session
  <2>3. Keeps(s, MfaSkip(s), q)
    <3>1. /\ MfaSkip(s).uid = s.uid /\ MfaSkip(s).cart = s.cart
          /\ MfaSkip(s).paid = s.paid /\ MfaSkip(s).promo_n = s.promo_n
          /\ s.admin # None => MfaSkip(s).admin # None
      BY DEF MfaSkip, Session
    <3>2. (\A p \in Products : s.cart[p] \in Nat) /\ s.promo_n \in Nat
      BY DEF Session
    <3>3. QED
      BY <3>1, <3>2 DEF Keeps
  <2>4. QED
    BY <2>1, <2>2, <2>3
<1>10. CASE q.to = "adminLogout"
  <2>1. After(q, s) = AdminLogout(s)
    BY <1>10, Dispatch, Zenon
  <2>2. /\ AdminLogout(s).uid = s.uid /\ AdminLogout(s).cart = s.cart
        /\ AdminLogout(s).paid = s.paid /\ AdminLogout(s).promo_n = s.promo_n
    BY DEF AdminLogout, Session
  <2>3. (\A p \in Products : s.cart[p] \in Nat) /\ s.promo_n \in Nat
    BY DEF Session
  <2>4. QED
    BY <1>10, <2>1, <2>2, <2>3 DEF Keeps
<1>11. CASE q.to = "add"
  <2>1. After(q, s) = [s EXCEPT !.cart[q.pid] = @ + 1]
    BY <1>11, Dispatch DEF Add
  <2>2. QED
    BY <1>1, <1>11, <2>1 DEF Keeps, Session
<1>12. CASE q.to = "remove"
  <2>1. After(q, s) = [s EXCEPT !.cart[q.pid] = 0]
    BY <1>12, Dispatch DEF Remove
  <2>2. QED
    <3>1. /\ After(q, s).uid = s.uid /\ After(q, s).admin = s.admin
          /\ After(q, s).paid = s.paid /\ After(q, s).promo_n = s.promo_n
          /\ \A p \in Products : p # q.pid => After(q, s).cart[p] = s.cart[p]
      BY <1>1, <1>12, <2>1 DEF Session
    <3>2. (\A p \in Products : s.cart[p] \in Nat) /\ s.promo_n \in Nat
      BY DEF Session
    <3>3. \A p \in Products : q # [to |-> "remove", pid |-> p] => p # q.pid
      BY <1>1, <1>12
    <3>4. QED
      BY <3>1, <3>2, <3>3 DEF Keeps
<1>13. CASE q.to = "pay"
  <2>1. After(q, s) = [Actor(s) EXCEPT !.paid = TRUE]
    BY <1>13, Dispatch DEF Pay
  <2>2. QED
    BY <1>3, <2>1 DEF Keeps, Session
<1>14. CASE q.to = "token"
  <2>1. After(q, s) = [s EXCEPT !.promo_n = @ + 1]
    BY <1>14, Dispatch DEF PromoToken
  <2>2. QED
    BY <2>1 DEF Keeps, Session
<1>15. QED
  BY <1>1, <1>4, <1>5, <1>6, <1>7, <1>8, <1>9, <1>10, <1>11, <1>12, <1>13, <1>14
     DEF Tos

(* "Sessions persist until logout" (app/__init__.py:24), for any number of  *)
(* connections: a login, a sign-in, an item, a payment or a promo number is *)
(* lost only by the request that takes it, by an answer that comes late or  *)
(* by a cookie out of date.                                                 *)
THEOREM SessionsLastUntilLogout == SessionsSpec => SessionsPersist
<1> DEFINE P == \A c \in Clients :
                   jar'[c] # jar[c] =>
                       \E i \in Slots :
                           LET x == open[c][i]
                           IN  /\ x.phase = "served"
                               /\ \/ Keeps(jar[c].session, jar'[c].session, x.q)
                                  \/ x.q.to = "logout"
                                  \/ Late(c, x)
                                  \/ x.expired
<1>1. SessionsInv /\ [SessionsNext]_sessionVars => [P]_sessionVars
  <2> SUFFICES ASSUME SessionsInv, SessionsNext, NEW c \in Clients, jar'[c] # jar[c]
               PROVE  \E i \in Slots :
                          LET x == open[c][i]
                          IN  /\ x.phase = "served"
                              /\ \/ Keeps(jar[c].session, jar'[c].session, x.q)
                                 \/ x.q.to = "logout"
                                 \/ Late(c, x)
                                 \/ x.expired
    OBVIOUS
  <2>1. PICK d \in Clients, i \in Slots : Receive(d, i)
    BY DEF SessionsNext, Send, Serve, Lose, Advance
  <2> DEFINE x == open[c][i]
  <2>2. /\ d = c
        /\ x.phase = "served"
        /\ jar'[c] = x.back
    BY <2>1 DEF Receive, SessionsInv, SessionsTypeOK
  <2>3. x \in Exchange /\ IsBorneOut(x)
    BY <2>2 DEF SessionsInv, SessionsTypeOK, OpenIsBorneOut, Idle
  <2>4. x.q \in Requests /\ jar[c].session \in Session
    BY <2>3 DEF Exchange, SessionsInv, SessionsTypeOK, Cookie
  <2>5. ASSUME x.q.to # "logout", ~Late(c, x), ~x.expired
        PROVE  Keeps(jar[c].session, jar'[c].session, x.q)
    <3>1. x.back.session = After(x.q, jar[c].session)
      BY <2>2, <2>3, <2>5 DEF IsBorneOut, Found, Late
    <3>2. QED
      BY <2>2, <2>4, <2>5, <3>1, HandlersTakeNothing
  <2>6. QED
    BY <2>2, <2>5
<1>2. QED
  BY InvInit, InvNext, <1>1, PTL DEF SessionsSpec, SessionsPersist

=============================================================================
