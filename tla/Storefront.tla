----------------------------- MODULE Storefront -----------------------------
(***************************************************************************)
(* The routes of the shop that change shared state (app/tiers/retail,      *)
(* app/api/rest), served by the threads of one waitress process            *)
(* (serve.py). An action is the code between two points where another      *)
(* thread can get in: every db.query and db.execute is a statement of its  *)
(* own that commits by itself (app/db.py), and a counter in memory is read *)
(* and written in two steps.                                               *)
(***************************************************************************)
EXTENDS Integers, Sequences, FiniteSets, FiniteSetsExt

CONSTANTS
    Threads,      \* waitress worker threads
    Work,         \* the requests clients may send
    SeedUsers,    \* uid -> [email, role], as the run spec seeds table users
    SeedWallets,  \* uid -> balance
    SeedCards,    \* gift card code -> balance
    SeedReferrers,\* owners of a referral code
    None,         \* SQL NULL; nothing read yet
    MaxRequests,  \* bound: requests accepted
    MaxCrashes    \* bound: restarts of the app container

Steps == {"start", "debit", "credit", "insert", "wallet", "referral",
          "assign", "accept", "refuse", "write", "scan", "report"}

(* Clients redeem cards of the run; PATCH updates the caller's own row. A   *)
(* caller is whatever a session or a JWT names, an account or not.         *)
ASSUME WorkAssumption ==
    /\ None \notin Nat
    /\ None \notin [work : Work, req : Nat, step : Steps, seen : Nat \cup {None}]
    /\ \A w \in Work :
          /\ w.op = "redeem" => w.code \in DOMAIN SeedCards
          /\ w.op = "patch" => w.uid = w.caller

ASSUME StorefrontAssumption ==
    /\ IsFiniteSet(Threads)
    /\ MaxRequests \in Nat
    /\ MaxCrashes \in Nat
    /\ IsFiniteSet(DOMAIN SeedUsers)
    /\ DOMAIN SeedUsers = 1..Cardinality(DOMAIN SeedUsers)
    /\ SeedUsers = [u \in DOMAIN SeedUsers |->
                      [email |-> SeedUsers[u].email, role |-> SeedUsers[u].role]]
    /\ \A u, v \in DOMAIN SeedUsers : SeedUsers[u].email = SeedUsers[v].email => u = v
    /\ DOMAIN SeedWallets \cup SeedReferrers \subseteq DOMAIN SeedUsers
    /\ IsFiniteSet(DOMAIN SeedCards)
    /\ SeedCards \in [DOMAIN SeedCards -> Nat]
    /\ SeedWallets \in [DOMAIN SeedWallets -> Nat]

VARIABLES
    users,        \* table users: uid -> [email, role]
    cards,        \* table giftcards: code -> balance
    wallet,       \* table wallet: uid -> balance
    referrals,    \* table referrals: owner's uid -> redeemed_by
    redemptions,  \* table coupon_redemptions: <<code, actor>> -> rows
    hits,         \* _rl_hits: <<actor, ip>> -> attempts
    fails,        \* _login_fail: address -> failures
    job,          \* thread -> the request it serves, or None
    accepted,     \* history: the requests accepted, by number, each with
                  \* those that were over by then
    taps,         \* history: what the routes have reported
    refused,      \* history: logins whose query met no row
    passed,       \* history: logins whose query met a row
    unmatched,    \* history: credit whose UPDATE of the wallet met no row
    crashes       \* restarts so far

tables == <<users, cards, wallet, referrals, redemptions>>
counters == <<hits, fails>>
outcomes == <<refused, passed>>
history == <<accepted, outcomes, unmatched, crashes>>
vars == <<tables, counters, job, accepted, taps, outcomes, unmatched, crashes>>

Get(f, x) == IF x \in DOMAIN f THEN f[x] ELSE 0
Put(f, x, v) == [y \in DOMAIN f \cup {x} |-> IF y = x THEN v ELSE f[y]]

At(t, op, step) == job[t] # None /\ job[t].work.op = op /\ job[t].step = step

(* Thread t goes on to another step, holding what it has read.             *)
Goto(t, step, seen) == job' = [job EXCEPT ![t].step = step, ![t].seen = seen]

Done(t) == job' = [job EXCEPT ![t] = None]

(* tap.emit for the request of thread t: the value it read before and the  *)
(* value it reads now.                                                     *)
Emit(t, seen, now) ==
    taps' = taps \cup {[req |-> job[t].req, work |-> job[t].work,
                        seen |-> seen, now |-> now]}

-----------------------------------------------------------------------------
Init ==
    /\ users = SeedUsers
    /\ cards = SeedCards
    /\ wallet = SeedWallets
    /\ referrals = [u \in SeedReferrers |-> None]
    /\ redemptions = [k \in {} |-> 0]
    /\ hits = [k \in {} |-> 0]
    /\ fails = [k \in {} |-> 0]
    /\ job = [t \in Threads |-> None]
    /\ accepted = [n \in {} |-> None]
    /\ taps = {}
    /\ refused = {}
    /\ passed = {}
    /\ unmatched = 0
    /\ crashes = 0

Over == {n \in DOMAIN accepted : \A t \in Threads : job[t] # None => job[t].req # n}

(* A thread takes the next request from waitress's queue.                  *)
Accept(t, w) ==
    LET n == Cardinality(DOMAIN accepted) + 1
    IN  /\ job[t] = None
        /\ n <= MaxRequests
        /\ accepted' = Put(accepted, n, [work |-> w, after |-> Over])
        /\ job' = [job EXCEPT ![t] =
                      [work |-> w, req |-> n, step |-> "start", seen |-> None]]
        /\ UNCHANGED <<tables, counters, taps, outcomes, unmatched, crashes>>

(* The app is killed and starts again: what was in flight is cut short and *)
(* what was in memory is gone, taps still queued among it; seed() finds    *)
(* users and leaves the tables as they are.                                *)
Crash ==
    /\ crashes < MaxCrashes
    /\ crashes' = crashes + 1
    /\ job' = [t \in Threads |-> None]
    /\ hits' = [k \in {} |-> 0]
    /\ fails' = [k \in {} |-> 0]
    /\ \E sent \in SUBSET taps : taps' = sent
    /\ UNCHANGED <<tables, accepted, outcomes, unmatched>>

-----------------------------------------------------------------------------
(* POST /retail/wallet/redeem.                                             *)

RedeemRead(t) ==
    /\ At(t, "redeem", "start")
    /\ LET bal == cards[job[t].work.code]
       IN  IF bal <= 0 THEN Done(t) ELSE Goto(t, "debit", bal)
    /\ UNCHANGED <<tables, counters, taps, history>>

RedeemDebitToZero(t) ==
    /\ At(t, "redeem", "debit")
    /\ cards' = [cards EXCEPT ![job[t].work.code] = 0]
    /\ Goto(t, "credit", job[t].seen)
    /\ UNCHANGED <<users, wallet, referrals, redemptions, counters, taps, history>>

RedeemDebit(t) ==
    /\ At(t, "redeem", "debit")
    /\ cards' = [cards EXCEPT ![job[t].work.code] = @ - job[t].seen]
    /\ Goto(t, "credit", job[t].seen)
    /\ UNCHANGED <<users, wallet, referrals, redemptions, counters, taps, history>>

RedeemCredit(t) ==
    LET u == job[t].work.uid
    IN  /\ At(t, "redeem", "credit")
        /\ IF u \in DOMAIN wallet
           THEN /\ wallet' = [wallet EXCEPT ![u] = @ + job[t].seen]
                /\ UNCHANGED unmatched
           ELSE /\ unmatched' = unmatched + job[t].seen
                /\ UNCHANGED wallet
        /\ Goto(t, "report", job[t].seen)
        /\ UNCHANGED <<users, cards, referrals, redemptions, counters, taps,
                       accepted, outcomes, crashes>>

RedeemReportAfter(t) ==
    /\ At(t, "redeem", "report")
    /\ Emit(t, cards[job[t].work.code], cards[job[t].work.code])
    /\ Done(t)
    /\ UNCHANGED <<tables, counters, history>>

RedeemReport(t) ==
    /\ At(t, "redeem", "report")
    /\ Emit(t, job[t].seen, cards[job[t].work.code])
    /\ Done(t)
    /\ UNCHANGED <<tables, counters, history>>

-----------------------------------------------------------------------------
(* POST /retail/cart/apply-coupon.                                         *)

CouponKey(t) == <<job[t].work.code, job[t].work.actor>>

CouponCountOwnToo(t) ==
    /\ At(t, "coupon", "start")
    /\ Goto(t, "insert", Get(redemptions, CouponKey(t)) + 1)
    /\ UNCHANGED <<tables, counters, taps, history>>

CouponCount(t) ==
    /\ At(t, "coupon", "start")
    /\ Goto(t, "insert", Get(redemptions, CouponKey(t)))
    /\ UNCHANGED <<tables, counters, taps, history>>

CouponInsertPrior(t) ==
    /\ At(t, "coupon", "insert")
    /\ redemptions' = Put(redemptions, CouponKey(t), job[t].seen)
    /\ Goto(t, "report", job[t].seen)
    /\ UNCHANGED <<users, cards, wallet, referrals, counters, taps, history>>

CouponInsert(t) ==
    /\ At(t, "coupon", "insert")
    /\ redemptions' = Put(redemptions, CouponKey(t), Get(redemptions, CouponKey(t)) + 1)
    /\ Goto(t, "report", job[t].seen)
    /\ UNCHANGED <<users, cards, wallet, referrals, counters, taps, history>>

CouponReport(t) ==
    /\ At(t, "coupon", "report")
    /\ Emit(t, job[t].seen, job[t].seen)
    /\ Done(t)
    /\ UNCHANGED <<tables, counters, history>>

-----------------------------------------------------------------------------
(* POST /retail/register and POST /retail/account/email.                   *)

Taken(e) == \E u \in DOMAIN users : users[u].email = e

RegisterUnchecked(t) ==
    /\ At(t, "register", "start")
    /\ Goto(t, "insert", None)
    /\ UNCHANGED <<tables, counters, taps, history>>

RegisterCheck(t) ==
    /\ At(t, "register", "start")
    /\ IF Taken(job[t].work.email) THEN Done(t) ELSE Goto(t, "insert", None)
    /\ UNCHANGED <<tables, counters, taps, history>>

(* INTEGER PRIMARY KEY: SQLite gives a new row the next number.            *)
RegisterUser(t) ==
    LET uid == Max(DOMAIN users \cup {0}) + 1
    IN  /\ At(t, "register", "insert")
        /\ users' = Put(users, uid, [email |-> job[t].work.email, role |-> "customer"])
        /\ Goto(t, "wallet", uid)
        /\ UNCHANGED <<cards, wallet, referrals, redemptions, counters, taps, history>>

RegisterWalletOnly(t) ==
    /\ At(t, "register", "wallet")
    /\ wallet' = Put(wallet, job[t].seen, 0)
    /\ Done(t)
    /\ UNCHANGED <<users, cards, referrals, redemptions, counters, taps, history>>

RegisterWallet(t) ==
    /\ At(t, "register", "wallet")
    /\ wallet' = Put(wallet, job[t].seen, 0)
    /\ Goto(t, "referral", job[t].seen)
    /\ UNCHANGED <<users, cards, referrals, redemptions, counters, taps, history>>

RegisterReferral(t) ==
    /\ At(t, "register", "referral")
    /\ referrals' = Put(referrals, job[t].seen, None)
    /\ Done(t)
    /\ UNCHANGED <<users, cards, wallet, redemptions, counters, taps, history>>

(* UPDATE users SET <column>=? WHERE id=?, which may meet no row.          *)
Written(uid, column, value) ==
    CASE uid \notin DOMAIN users -> users
      [] uid \in DOMAIN users /\ column = "email" -> [users EXCEPT ![uid].email = value]
      [] uid \in DOMAIN users /\ column # "email" -> [users EXCEPT ![uid].role = value]

ChangeEmail(t) ==
    /\ At(t, "change_email", "start")
    /\ users' = Written(job[t].work.uid, "email", job[t].work.email)
    /\ Done(t)
    /\ UNCHANGED <<cards, wallet, referrals, redemptions, counters, taps, history>>

-----------------------------------------------------------------------------
(* POST /retail/referral/redeem: the code is REF-<owner>.                  *)

ReferralRead(t) ==
    /\ At(t, "refer", "start")
    /\ IF job[t].work.owner \in DOMAIN referrals
       THEN Emit(t, None, None) /\ Goto(t, "write", None)
       ELSE Done(t) /\ UNCHANGED taps
    /\ UNCHANGED <<tables, counters, history>>

ReferralWrite(t) ==
    /\ At(t, "refer", "write")
    /\ referrals' = [referrals EXCEPT ![job[t].work.owner] = job[t].work.actor]
    /\ Done(t)
    /\ UNCHANGED <<users, cards, wallet, redemptions, counters, taps, history>>

-----------------------------------------------------------------------------
(* PATCH /api/v2/account, with the columns its body names in their order,  *)
(* and POST /api/v2/admin/users/<uid>/role. Of the columns, email and role *)
(* are kept; name and address are read by no route here.                   *)

Assigns == {"patch", "set_role"}
Sets(w) == IF w.op = "patch" THEN w.sets ELSE <<[column |-> "role", value |-> w.role]>>

db_role(uid) == IF uid \in DOMAIN users THEN users[uid].role ELSE None

(* The caller's role, and the first of the columns to write.               *)
RoleRead(t) ==
    LET w == job[t].work
    IN  /\ \E op \in Assigns : At(t, op, "start")
        /\ IF w.op = "patch" /\ w.caller = None
           THEN Done(t)
           ELSE Goto(t, "assign", [before |-> db_role(w.caller), next |-> 1])
        /\ UNCHANGED <<tables, counters, taps, history>>

RoleAssignToCaller(t) ==
    LET w == job[t].work
        k == job[t].seen.next
    IN  /\ \E op \in Assigns : At(t, op, "assign")
        /\ k \in DOMAIN Sets(w)
        /\ users' = Written(w.caller, Sets(w)[k].column, Sets(w)[k].value)
        /\ Goto(t, "assign", [before |-> job[t].seen.before, next |-> k + 1])
        /\ UNCHANGED <<cards, wallet, referrals, redemptions, counters, taps, history>>

RoleAssign(t) ==
    LET w == job[t].work
        k == job[t].seen.next
    IN  /\ \E op \in Assigns : At(t, op, "assign")
        /\ k \in DOMAIN Sets(w)
        /\ users' = Written(w.uid, Sets(w)[k].column, Sets(w)[k].value)
        /\ Goto(t, "assign", [before |-> job[t].seen.before, next |-> k + 1])
        /\ UNCHANGED <<cards, wallet, referrals, redemptions, counters, taps, history>>

AllSet(t) == job[t].seen.next \notin DOMAIN Sets(job[t].work)

PatchReport(t) ==
    /\ At(t, "patch", "assign") /\ AllSet(t)
    /\ Emit(t, job[t].seen.before, db_role(job[t].work.uid))
    /\ Done(t)
    /\ UNCHANGED <<tables, counters, history>>

SetRoleReport(t) ==
    /\ At(t, "set_role", "assign") /\ AllSet(t)
    /\ Emit(t, job[t].seen.before, job[t].work.role)
    /\ Done(t)
    /\ UNCHANGED <<tables, counters, history>>

-----------------------------------------------------------------------------
(* POST /retail/cart/guess-coupon: the attempts per session and address.   *)

HitKey(t) == <<job[t].work.actor, job[t].work.ip>>

Attempts(a) == MapThenSumSet(LAMBDA k : hits[k], {k \in DOMAIN hits : k[1] = a})

GuessRead(t) ==
    /\ At(t, "guess", "start")
    /\ Goto(t, "write", Get(hits, HitKey(t)))
    /\ UNCHANGED <<tables, counters, taps, history>>

GuessWrite(t) ==
    /\ At(t, "guess", "write")
    /\ hits' = Put(hits, HitKey(t), job[t].seen + 1)
    /\ Goto(t, "scan", None)
    /\ UNCHANGED <<tables, fails, taps, history>>

GuessScan(t) ==
    /\ At(t, "guess", "scan")
    /\ Goto(t, "report", DOMAIN hits)
    /\ UNCHANGED <<tables, counters, taps, history>>

(* A key another thread adds while this one iterates over the dictionary   *)
(* may raise RuntimeError: status 500 and no tap.                          *)
GuessReport(t) ==
    /\ At(t, "guess", "report")
    /\ \/ Emit(t, None, Attempts(job[t].work.actor))
       \/ DOMAIN hits # job[t].seen /\ UNCHANGED taps
    /\ Done(t)
    /\ UNCHANGED <<tables, counters, history>>

-----------------------------------------------------------------------------
(* POST /retail/login and /retail/api-login: the failures per address.     *)
(* good: the request carries what the query asks of the account.           *)

AtLogin(t, step) == At(t, "login", step) \/ At(t, "api_login", step)

LoginQuery(t) ==
    /\ AtLogin(t, "start")
    /\ IF job[t].work.good /\ Taken(job[t].work.email)
       THEN /\ passed' = passed \cup {job[t].req}
            /\ Goto(t, "accept", None)
            /\ UNCHANGED refused
       ELSE /\ refused' = refused \cup {job[t].req}
            /\ Goto(t, "refuse", None)
            /\ UNCHANGED passed
    /\ UNCHANGED <<tables, counters, taps, accepted, unmatched, crashes>>

LoginAcceptOnly(t) ==
    /\ AtLogin(t, "accept")
    /\ IF job[t].work.op = "login" THEN Emit(t, None, 0) ELSE UNCHANGED taps
    /\ Done(t)
    /\ UNCHANGED <<tables, counters, history>>

(* Only /retail/login reports a success.                                   *)
LoginAccept(t) ==
    /\ AtLogin(t, "accept")
    /\ fails' = Put(fails, job[t].work.email, 0)
    /\ IF job[t].work.op = "login" THEN Emit(t, None, 0) ELSE UNCHANGED taps
    /\ Done(t)
    /\ UNCHANGED <<tables, hits, history>>

LoginRefuse(t) ==
    /\ AtLogin(t, "refuse")
    /\ Goto(t, "write", Get(fails, job[t].work.email))
    /\ UNCHANGED <<tables, counters, taps, history>>

LoginCount(t) ==
    /\ AtLogin(t, "write")
    /\ fails' = Put(fails, job[t].work.email, job[t].seen + 1)
    /\ Goto(t, "report", None)
    /\ UNCHANGED <<tables, hits, taps, history>>

LoginReport(t) ==
    /\ AtLogin(t, "report")
    /\ Emit(t, None, fails[job[t].work.email])
    /\ Done(t)
    /\ UNCHANGED <<tables, counters, history>>

-----------------------------------------------------------------------------
Redeem(t) == RedeemRead(t) \/ RedeemDebit(t) \/ RedeemCredit(t) \/ RedeemReport(t)
Coupon(t) == CouponCount(t) \/ CouponInsert(t) \/ CouponReport(t)
Register(t) ==
    RegisterCheck(t) \/ RegisterUser(t) \/ RegisterWallet(t) \/ RegisterReferral(t)
Referral(t) == ReferralRead(t) \/ ReferralWrite(t)
Role(t) == RoleRead(t) \/ RoleAssign(t) \/ PatchReport(t) \/ SetRoleReport(t)
Guess(t) == GuessRead(t) \/ GuessWrite(t) \/ GuessScan(t) \/ GuessReport(t)
Login(t) ==
    LoginQuery(t) \/ LoginAccept(t) \/ LoginRefuse(t) \/ LoginCount(t) \/ LoginReport(t)

Next ==
    \/ \E t \in Threads :
          \/ \E w \in Work : Accept(t, w)
          \/ Redeem(t)
          \/ Coupon(t)
          \/ Register(t)
          \/ ChangeEmail(t)
          \/ Referral(t)
          \/ Role(t)
          \/ Guess(t)
          \/ Login(t)
    \/ Crash

Spec == Init /\ [][Next]_vars
-----------------------------------------------------------------------------
(* Properties.                                                             *)

(* The roles that request w assigns.                                       *)
RolesGiven(w) ==
    {Sets(w)[k].value : k \in {i \in DOMAIN Sets(w) : Sets(w)[i].column # "email"}}

(* The roles an account may have: seeded, given on registration, assigned. *)
Roles ==
    {"customer"} \cup {SeedUsers[u].role : u \in DOMAIN SeedUsers}
        \cup UNION {RolesGiven(w) : w \in {v \in Work : v.op \in Assigns}}

(* Every variable has its type.                                            *)
StorefrontTypeOK ==
    /\ \A u \in DOMAIN users : u \in Nat /\ users[u].role \in Roles
    /\ DOMAIN cards = DOMAIN SeedCards /\ \A c \in DOMAIN cards : cards[c] \in Int
    /\ \A u \in DOMAIN wallet : wallet[u] \in Nat
    /\ \A k \in DOMAIN redemptions : redemptions[k] \in Nat \ {0}
    /\ \A k \in DOMAIN hits : hits[k] \in Nat \ {0}
    /\ \A e \in DOMAIN fails : fails[e] \in Nat
    /\ \A t \in Threads : job[t] # None =>
          /\ job[t].step \in Steps
          /\ job[t].req \in DOMAIN accepted
          /\ job[t].work = accepted[job[t].req].work
    /\ DOMAIN accepted = 1..Cardinality(DOMAIN accepted)
    /\ \A x \in taps : x.req \in DOMAIN accepted
    /\ refused \cup passed \subseteq DOMAIN accepted
    /\ unmatched \in Nat
    /\ crashes \in 0..MaxCrashes

(* Requests m and n were being served at the same time.                    *)
Overlap(m, n) == m \notin accepted[n].after /\ n \notin accepted[m].after

CardsGave == MapThenSumSet(LAMBDA c : SeedCards[c] - cards[c], DOMAIN cards)
WalletsGot == MapThenSumSet(LAMBDA u : wallet[u] - Get(SeedWallets, u), DOMAIN wallet)
InFlight ==
    MapThenSumSet(LAMBDA t : job[t].seen, {t \in Threads : At(t, "redeem", "credit")})

(* Whatever redemptions race, what cards are debited is what wallets are   *)
(* credited, but for accounts without a wallet; a restart between the two  *)
(* statements only loses money (wallet_redeem).                            *)
MoneyIsConserved ==
    LET credited == WalletsGot + InFlight + unmatched
    IN  /\ CardsGave >= credited
        /\ crashes = 0 => CardsGave = credited

RedeemsOf(c) == {x \in taps : x.work.op = "redeem" /\ x.work.code = c}

(* What the double-spend rule looks for is a double spend and nothing else:*)
(* two redemptions report one balance of a card only if they overlapped and*)
(* the card is overdrawn, and an overdrawn card is reported so, once the   *)
(* requests are over and the app has not been killed (wallet_redeem).      *)
DoubleSpendsAreVisible ==
    \A c \in DOMAIN cards :
        /\ \A x, y \in RedeemsOf(c) : x.req # y.req /\ x.seen = y.seen =>
              cards[c] < 0 /\ Overlap(x.req, y.req)
        /\ cards[c] < 0 /\ crashes = 0 /\ (\A t \in Threads : job[t] = None) =>
              \E x, y \in RedeemsOf(c) : x.req # y.req /\ x.seen = y.seen

CouponsOf(k) ==
    {x \in taps : x.work.op = "coupon" /\ <<x.work.code, x.work.actor>> = k}

(* A redemption that started after another one by that actor had been      *)
(* reported says so, also across a restart, and none claims more earlier   *)
(* redemptions than there are (apply_coupon).                              *)
ReuseIsReported ==
    \A k \in DOMAIN redemptions : \A x \in CouponsOf(k) :
        /\ x.seen < redemptions[k]
        /\ (\E y \in CouponsOf(k) : y.req \in accepted[x.req].after) => x.seen >= 1

(* No account is left without its wallet and its referral code, unless its *)
(* registration is under way or was cut short, and neither is there without*)
(* the account (register).                                                 *)
AccountsAreWhole ==
    /\ DOMAIN wallet \cup DOMAIN referrals \subseteq DOMAIN users
    /\ \A u \in DOMAIN users \ DOMAIN SeedUsers :
          \/ u \in DOMAIN wallet \cap DOMAIN referrals
          \/ \E t \in Threads : job[t] # None /\ job[t].work.op = "register"
                                /\ job[t].seen = u
          \/ crashes > 0

Accepted(op) == {n \in DOMAIN accepted : accepted[n].work.op = op}

(* Logins for address e that were refused, and that were let in.           *)
Refused(e) == {n \in refused : accepted[n].work.email = e}
Passed(e) == {n \in passed : accepted[n].work.email = e}

(* No login for e was let in while another one was being refused, so no    *)
(* count that was read before a reset was written after it.                *)
ResetsAreKept(e) == \A s \in Passed(e), n \in Refused(e) : ~Overlap(s, n)

(* What the tap x of a login may count: the logins refused, but for those  *)
(* that were over before one that was let in and over before that of x.    *)
Tally(x) ==
    LET e == x.work.email
    IN  IF ResetsAreKept(e)
        THEN {n \in Refused(e) :
                 ~\E s \in Passed(e) : n \in accepted[s].after /\ s \in accepted[x.req].after}
        ELSE Refused(e)

(* Counters that threads update without a lock may fall behind, but report *)
(* no more guesses of an actor than there were, and no more consecutive    *)
(* failures for an address than that: a count goes back to before a login  *)
(* that succeeded only if it succeeded while another one was being refused,*)
(* and never exceeds all that were refused. Only such an overlap can take  *)
(* an address to the threshold of rules.py:372 without as many failures in *)
(* a row (guess_coupon, login, api_login_retail).                          *)
ReportsNeverOvercount ==
    /\ \A x \in {y \in taps : y.work.op = "guess"} :
          x.now <= Cardinality({n \in Accepted("guess") :
                                   accepted[n].work.actor = x.work.actor})
    /\ \A x \in {y \in taps : y.work.op \in {"login", "api_login"}} :
          x.now <= Cardinality(Tally(x))

(* A role that differs before and after an account update was assigned by  *)
(* that very request or by one that overlapped it, or the account was      *)
(* registered meanwhile (account, PATCH).                                  *)
EscalationsHaveAuthors ==
    \A x \in taps : x.work.op = "patch" /\ x.seen # x.now =>
        \/ \E n \in Accepted("patch") \cup Accepted("set_role") :
              /\ x.now \in RolesGiven(accepted[n].work)
              /\ accepted[n].work.uid = x.work.uid
              /\ n = x.req \/ Overlap(n, x.req)
        \/ /\ x.seen = None /\ x.now = "customer"
           /\ \E n \in Accepted("register") : Overlap(n, x.req)

OneAtATime == \A n \in DOMAIN accepted : accepted[n].after = 1..(n - 1)

(* Requests that write an address without a look at the others.            *)
Readdresses(w) ==
    \/ w.op = "change_email"
    \/ w.op = "patch" /\ \E k \in DOMAIN w.sets : w.sets[k].column = "email"

(* The checks of the routes suffice for a client that waits for each       *)
(* answer: no card is overdrawn and no two accounts share an address,      *)
(* unless somebody wrote theirs anew, by /account/email or by PATCH, which *)
(* check nothing (wallet_redeem, register).                                *)
SerialShopIsSound ==
    OneAtATime =>
        /\ \A c \in DOMAIN cards : cards[c] >= 0
        /\ (\A n \in DOMAIN accepted : ~Readdresses(accepted[n].work)) =>
              \A u, v \in DOMAIN users : users[u].email = users[v].email => u = v

=============================================================================
