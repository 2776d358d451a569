------------------------------ MODULE Handlers ------------------------------
(* What the storefront's handlers do with the session of the request they   *)
(* serve (app/__init__.py, app/util.py, app/cart.py, app/auth.py and the    *)
(* routes of app/tiers), and what of it the answer shows. A session is the  *)
(* content of one signed cookie: no handler shares it with another.         *)
(*                                                                         *)
(* uname goes with uid, and _reset_token is written and never read: both    *)
(* are left out. checkout_steps is kept as whether it holds "pay". The n-th *)
(* promo number of the seeded generator is kept as n.                       *)
EXTENDS Naturals

CONSTANTS
    Accounts,  \* customers
    Seeded,    \* the customers of the run spec; the others register
    Staff,     \* accounts that may sign in to the console
    RoleOf,    \* their roles
    TheAdmin,  \* the row /admin/mfa/begin finds
    Products,
    None,      \* a key the session does not have
    Requests   \* the requests that clients make

Session ==
    [uid : Accounts \cup {None}, admin : Staff \cup {None},
     admin_role : {"admin", "buyer", None}, pre_mfa : Staff \cup {None},
     sid : BOOLEAN, cart : [Products -> Nat], paid : BOOLEAN, promo_n : Nat]

NoSession ==
    [uid |-> None, admin |-> None, admin_role |-> None, pre_mfa |-> None,
     sid |-> FALSE, cart |-> [p \in Products |-> 0], paid |-> FALSE, promo_n |-> 0]

(* The requests, named for their routes. "visit" is any page that neither   *)
(* reads nor writes the session, "post" any handler that only calls actor().*)
Request ==
    [to : {"visit", "post", "record", "account", "console", "tool", "cart", "pay",
           "confirm", "token", "logout", "adminLogout", "mfaBegin", "mfaSkip"}]
    \cup [to : {"login"}, uid : Accounts]
    \cup [to : {"register"}, uid : Accounts \ Seeded]
    \cup [to : {"fixate"}, uid : Accounts, sid : BOOLEAN]
    \cup [to : {"signin"}, admin : Staff]
    \cup [to : {"add", "remove"}, pid : Products]
    \cup [to : {"claim"}, n : Nat]

ASSUME HandlersAssumption ==
    /\ Seeded \subseteq Accounts
    /\ TheAdmin \in Staff
    /\ RoleOf \in [Staff -> {"admin", "buyer"}]
    /\ None \notin Accounts \cup Staff \cup {"admin", "buyer"}
    /\ Requests \subseteq Request

-----------------------------------------------------------------------------
(* The session after each handler.                                         *)

(* actor(): an anonymous visitor gets a sid.                                *)
Actor(s) ==
    IF s.uid = None /\ s.admin = None THEN [s EXCEPT !.sid = TRUE] ELSE s

(* api_identity(): the session's customer, else its staff, else anonymous.  *)
ApiIdentity(s) == Actor(s)

Visit(s) == s
Post(s) == Actor(s)
AccountPage(s) == s
ConsolePage(s) == s
Tool(s) == s
CartPage(s) == s

Login(s, u) == [s EXCEPT !.uid = u]
Register(s, u) == [s EXCEPT !.uid = u]

(* /retail/login-fixation logs in only a caller that supplied a sid.        *)
Fixate(s, u, supplied) ==
    IF supplied THEN [Actor(s) EXCEPT !.sid = TRUE, !.uid = u] ELSE Actor(s)

Signin(s, a) == [s EXCEPT !.admin = a, !.admin_role = RoleOf[a]]
MfaBegin(s) == [s EXCEPT !.pre_mfa = TheAdmin]
MfaSkip(s) ==
    IF s.pre_mfa # None
    THEN [s EXCEPT !.admin = s.pre_mfa, !.admin_role = "admin"]
    ELSE s

Logout(s) == NoSession

AdminLogoutOfAll(s) == NoSession
AdminLogout(s) ==
    [s EXCEPT !.admin = None, !.admin_role = None, !.pre_mfa = None]

Add(s, p) == [s EXCEPT !.cart[p] = @ + 1]
RemoveOne(s, p) == [s EXCEPT !.cart[p] = @ - 1]
Remove(s, p) == [s EXCEPT !.cart[p] = 0]

Pay(s) == [Actor(s) EXCEPT !.paid = TRUE]
Confirm(s) == Actor(s)

PromoToken(s) == [s EXCEPT !.promo_n = @ + 1]
PromoClaim(s) == Actor(s)

After(q, s) ==
    CASE q.to = "visit" -> Visit(s)
      [] q.to = "post" -> Post(s)
      [] q.to = "record" -> ApiIdentity(s)
      [] q.to = "account" -> AccountPage(s)
      [] q.to = "console" -> ConsolePage(s)
      [] q.to = "tool" -> Tool(s)
      [] q.to = "cart" -> CartPage(s)
      [] q.to = "login" -> Login(s, q.uid)
      [] q.to = "register" -> Register(s, q.uid)
      [] q.to = "fixate" -> Fixate(s, q.uid, q.sid)
      [] q.to = "signin" -> Signin(s, q.admin)
      [] q.to = "mfaBegin" -> MfaBegin(s)
      [] q.to = "mfaSkip" -> MfaSkip(s)
      [] q.to = "logout" -> Logout(s)
      [] q.to = "adminLogout" -> AdminLogout(s)
      [] q.to = "add" -> Add(s, q.pid)
      [] q.to = "remove" -> Remove(s, q.pid)
      [] q.to = "pay" -> Pay(s)
      [] q.to = "confirm" -> Confirm(s)
      [] q.to = "token" -> PromoToken(s)
      [] q.to = "claim" -> PromoClaim(s)

-----------------------------------------------------------------------------
(* The answer.                                                             *)

(* Whether the handler lets the caller through, or reports the fact it      *)
(* checks: an account page without a login and a console page or tool       *)
(* without a sign-in redirect, a confirmation reports whether it was paid,  *)
(* a claim whether it matched the number the next token will carry.         *)
RequireLogin(s) == s.uid # None
Guard(s) == s.admin # None
PaidFor(s) == s.paid
Matches(s, n) == s.promo_n = n

Ok(q, s) ==
    CASE q.to = "account" -> RequireLogin(s)
      [] q.to \in {"console", "tool"} -> Guard(s)
      [] q.to = "mfaSkip" -> s.pre_mfa # None
      [] q.to = "confirm" -> PaidFor(s)
      [] q.to = "claim" -> Matches(s, q.n)
      [] OTHER -> TRUE

Answer == [ok : BOOLEAN, cart : [Products -> Nat], n : Nat]
AnswerTo(q, s) == [ok |-> Ok(q, s), cart |-> s.cart, n |-> s.promo_n]

=============================================================================
