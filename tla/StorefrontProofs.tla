-------------------------- MODULE StorefrontProofs --------------------------
(* The shop's routes for any number of threads, requests and restarts: what  *)
(* a request reports of others, what a client that waits may rely on, where  *)
(* the money goes, and how far the counters without a lock may be off.       *)
EXTENDS Storefront, FiniteSetTheorems, WellFoundedInduction, TLAPS

-----------------------------------------------------------------------------
(* The requests being served, the requests accepted and the taps agree.      *)
IsJob(j) ==
    /\ j = [work |-> j.work, req |-> j.req, step |-> j.step, seen |-> j.seen]
    /\ j.work \in Work
    /\ j.step \in Steps
    /\ j.req \in DOMAIN accepted
    /\ j.work = accepted[j.req].work

JobsAreAccepted ==
    /\ job = [t \in Threads |-> job[t]]
    /\ \A t \in Threads : job[t] # None => IsJob(job[t])
    /\ \A t, u \in Threads :
          job[t] # None /\ job[u] # None /\ job[t].req = job[u].req => t = u

AcceptedAreNumbered ==
    /\ \E n \in Nat : DOMAIN accepted = 1..n
    /\ \A n \in DOMAIN accepted :
          accepted[n].work \in Work /\ accepted[n].after \subseteq DOMAIN accepted

(* A request that is served was over for nobody.                             *)
ServedAreNotOver ==
    \A t \in Threads : job[t] # None =>
        \A n \in DOMAIN accepted : job[t].req \notin accepted[n].after

TapsAreOfAccepted ==
    \A x \in taps : x.req \in DOMAIN accepted /\ x.work = accepted[x.req].work

JobsInv ==
    JobsAreAccepted /\ AcceptedAreNumbered /\ ServedAreNotOver /\ TapsAreOfAccepted

(* What every step of a thread on its request does.                          *)
Moves(t) ==
    /\ job[t] # None
    /\ \/ \E step \in Steps : \E seen : Goto(t, step, seen)
       \/ Done(t)
    /\ \/ taps' = taps
       \/ \E seen, now : Emit(t, seen, now)
    /\ UNCHANGED <<accepted, crashes>>

LEMMA PutIs ==
    ASSUME NEW f, NEW x, NEW v
    PROVE  /\ DOMAIN Put(f, x, v) = DOMAIN f \cup {x}
           /\ Put(f, x, v)[x] = v
           /\ \A y \in DOMAIN f \ {x} : Put(f, x, v)[y] = f[y]
  BY DEF Put

LEMMA GotoIs ==
    ASSUME JobsAreAccepted, NEW t \in Threads, job[t] # None, NEW step, NEW seen,
           Goto(t, step, seen)
    PROVE  /\ job'[t] = [work |-> job[t].work, req |-> job[t].req,
                         step |-> step, seen |-> seen]
           /\ \A u \in Threads \ {t} : job'[u] = job[u]
           /\ job' = [u \in Threads |-> job'[u]]
           /\ job'[t].work = job[t].work /\ job'[t].req = job[t].req
           /\ job'[t].step = step /\ job'[t].seen = seen
<1> DEFINE j == job[t]
<1>1. j = [work |-> j.work, req |-> j.req, step |-> j.step, seen |-> j.seen]
  BY DEF JobsAreAccepted, IsJob
<1>2. job = [u \in Threads |-> job[u]]
  BY DEF JobsAreAccepted
<1>3. job' = [job EXCEPT ![t] = [[job[t] EXCEPT !.step = step] EXCEPT !.seen = seen]]
  BY <1>2 DEF Goto
<1> HIDE DEF j
<1>4. [[j EXCEPT !.step = step] EXCEPT !.seen = seen]
        = [work |-> j.work, req |-> j.req, step |-> step, seen |-> seen]
  <2> DEFINE w == j.work
             r == j.req
             s == j.step
             v == j.seen
  <2>1. j = [work |-> w, req |-> r, step |-> s, seen |-> v]
    BY <1>1
  <2> HIDE DEF w, r, s, v
  <2> DEFINE k == [j EXCEPT !.step = step]
  <2>2. k = [work |-> w, req |-> r, step |-> step, seen |-> v]
    BY <2>1, SMT
  <2> HIDE DEF k
  <2>3. [k EXCEPT !.seen = seen] = [work |-> w, req |-> r, step |-> step, seen |-> seen]
    BY <2>2, SMT
  <2>4. QED
    BY <2>3 DEF w, r, k
<1>5. QED
  BY <1>2, <1>3, <1>4 DEF j

LEMMA GotoSets ==
    ASSUME JobsAreAccepted, NEW t \in Threads, job[t] # None, NEW step, NEW seen,
           Goto(t, step, seen)
    PROVE  /\ job'[t].step = step /\ job'[t].seen = seen
           /\ job'[t].work = job[t].work /\ job'[t].req = job[t].req
<1>1. /\ job'[t] = [work |-> job[t].work, req |-> job[t].req,
                     step |-> step, seen |-> seen]
      /\ \A u \in Threads \ {t} : job'[u] = job[u]
      /\ job' = [u \in Threads |-> job'[u]]
      /\ job'[t].work = job[t].work /\ job'[t].req = job[t].req
      /\ job'[t].step = step /\ job'[t].seen = seen
  BY GotoIs
<1>2. QED
  BY <1>1

LEMMA DoneIs ==
    ASSUME JobsAreAccepted, NEW t \in Threads, Done(t)
    PROVE  /\ job'[t] = None
           /\ \A u \in Threads \ {t} : job'[u] = job[u]
           /\ job' = [u \in Threads |-> job'[u]]
  BY DEF JobsAreAccepted, Done

LEMMA MoveKeepsJobs ==
    ASSUME JobsInv, NEW t \in Threads, Moves(t)
    PROVE  /\ JobsInv'
           /\ \A u \in Threads \ {t} : job'[u] = job[u]
           /\ job'[t] # None => job'[t].work = job[t].work /\ job'[t].req = job[t].req
           /\ job[t] # None /\ IsJob(job[t])
<1>1. job[t] # None /\ IsJob(job[t]) /\ JobsAreAccepted
  BY DEF Moves, JobsInv, JobsAreAccepted
<1>2. /\ job' = [u \in Threads |-> job'[u]]
      /\ \A u \in Threads \ {t} : job'[u] = job[u]
      /\ \/ job'[t] = None
         \/ /\ job'[t] = [work |-> job'[t].work, req |-> job'[t].req,
                           step |-> job'[t].step, seen |-> job'[t].seen]
            /\ job'[t].work = job[t].work /\ job'[t].req = job[t].req
            /\ job'[t].step \in Steps
  <2>1. CASE Done(t)
    BY <1>1, <2>1, DoneIs
  <2>2. CASE \E step \in Steps : \E seen : Goto(t, step, seen)
    <3>1. PICK step, seen : step \in Steps /\ Goto(t, step, seen)
      BY <2>2
    <3>2. /\ job'[t] = [work |-> job[t].work, req |-> job[t].req,
                         step |-> step, seen |-> seen]
          /\ \A u \in Threads \ {t} : job'[u] = job[u]
          /\ job' = [u \in Threads |-> job'[u]]
          /\ job'[t].work = job[t].work /\ job'[t].req = job[t].req
          /\ job'[t].step = step /\ job'[t].seen = seen
      BY <1>1, <3>1, GotoIs
    <3>3. QED
      BY <3>1, <3>2
  <2>3. QED
    BY <2>1, <2>2 DEF Moves
<1>3. job'[t] # None => job'[t].work = job[t].work /\ job'[t].req = job[t].req
  BY <1>2
<1>4. accepted' = accepted
  BY DEF Moves
<1>5. JobsAreAccepted'
  <2>1. job'[t] # None => IsJob(job[t])'
    BY <1>1, <1>2, <1>4 DEF IsJob
  <2>2. \A u \in Threads \ {t} : job'[u] # None => IsJob(job[u])'
    BY <1>1, <1>2, <1>4 DEF IsJob, JobsAreAccepted
  <2>3. \A u, v \in Threads :
           job'[u] # None /\ job'[v] # None /\ job'[u].req = job'[v].req => u = v
    BY <1>1, <1>2, <1>3 DEF JobsAreAccepted
  <2>4. QED
    BY <1>2, <2>1, <2>2, <2>3 DEF JobsAreAccepted
<1>6. AcceptedAreNumbered' /\ ServedAreNotOver'
  BY <1>1, <1>2, <1>3, <1>4 DEF JobsInv, AcceptedAreNumbered, ServedAreNotOver
<1>7. TapsAreOfAccepted'
  BY <1>1, <1>4 DEF Moves, Emit, JobsInv, TapsAreOfAccepted, IsJob
<1>8. QED
  BY <1>1, <1>2, <1>3, <1>5, <1>6, <1>7 DEF JobsInv

LEMMA AcceptIs ==
    ASSUME JobsInv, NEW t \in Threads, NEW w \in Work, Accept(t, w)
    PROVE  \E n \in Nat \ {0} :
              /\ DOMAIN accepted = 1..(n - 1) /\ DOMAIN accepted' = 1..n
              /\ accepted'[n] = [work |-> w, after |-> Over]
              /\ \A m \in DOMAIN accepted : accepted'[m] = accepted[m]
              /\ job'[t] = [work |-> w, req |-> n, step |-> "start", seen |-> None]
              /\ \A u \in Threads \ {t} : job'[u] = job[u]
              /\ job' = [u \in Threads |-> job'[u]]
<1>1. PICK k \in Nat : DOMAIN accepted = 1..k
  BY DEF JobsInv, AcceptedAreNumbered
<1>2. Cardinality(DOMAIN accepted) = k
  BY <1>1, FS_Interval
<1> DEFINE n == k + 1
<1>3. /\ accepted' = Put(accepted, n, [work |-> w, after |-> Over])
      /\ job' = [job EXCEPT ![t] = [work |-> w, req |-> n, step |-> "start", seen |-> None]]
  BY <1>2 DEF Accept
<1>4. n \in Nat \ {0} /\ 1..n = (1..k) \cup {n} /\ n \notin 1..k /\ 1..(n - 1) = 1..k
  BY <1>1
<1>5. /\ DOMAIN accepted' = 1..n /\ accepted'[n] = [work |-> w, after |-> Over]
      /\ \A m \in DOMAIN accepted : accepted'[m] = accepted[m]
  <2> DEFINE x == [work |-> w, after |-> Over]
  <2> HIDE DEF n, x
  <2>1. accepted' = Put(accepted, n, x)
    BY <1>3 DEF x
  <2>2. DOMAIN accepted \ {n} = DOMAIN accepted
    BY <1>1, <1>4
  <2>3. /\ DOMAIN accepted' = DOMAIN accepted \cup {n}
        /\ accepted'[n] = x
        /\ \A m \in DOMAIN accepted \ {n} : accepted'[m] = accepted[m]
    BY <2>1 DEF Put
  <2>4. QED
    BY <1>1, <1>4, <2>2, <2>3 DEF x
<1>6. job = [u \in Threads |-> job[u]]
  BY DEF JobsInv, JobsAreAccepted
<1>7. QED
  BY <1>1, <1>3, <1>4, <1>5, <1>6

LEMMA AcceptKeepsJobs ==
    ASSUME JobsInv, NEW t \in Threads, NEW w \in Work, Accept(t, w)
    PROVE  JobsInv'
<1>1. PICK n \in Nat \ {0} :
         /\ DOMAIN accepted = 1..(n - 1) /\ DOMAIN accepted' = 1..n
         /\ accepted'[n] = [work |-> w, after |-> Over]
         /\ \A m \in DOMAIN accepted : accepted'[m] = accepted[m]
         /\ job'[t] = [work |-> w, req |-> n, step |-> "start", seen |-> None]
         /\ \A u \in Threads \ {t} : job'[u] = job[u]
         /\ job' = [u \in Threads |-> job'[u]]
  BY AcceptIs
<1>2. n \notin DOMAIN accepted /\ DOMAIN accepted' = DOMAIN accepted \cup {n}
  BY <1>1
<1>3. job[t] = None /\ taps' = taps
  BY DEF Accept
<1>4. Over \subseteq DOMAIN accepted
      /\ \A u \in Threads : job[u] # None => job[u].req \notin Over
  BY DEF Over
<1>5. JobsAreAccepted'
  <2>1. IsJob(job[t])'
    BY <1>1, <1>2 DEF IsJob, Steps
  <2>2. \A u \in Threads \ {t} : job'[u] # None => IsJob(job[u])'
    BY <1>1, <1>2 DEF IsJob, JobsInv, JobsAreAccepted
  <2>3. \A u \in Threads \ {t} : job'[u] # None => job'[u].req # n
    BY <1>1, <1>2 DEF IsJob, JobsInv, JobsAreAccepted
  <2>4. \A u, v \in Threads :
           job'[u] # None /\ job'[v] # None /\ job'[u].req = job'[v].req => u = v
    <3>1. job'[t].req = n
      BY <1>1
    <3>2. \A u, v \in Threads \ {t} :
           job'[u] # None /\ job'[v] # None /\ job'[u].req = job'[v].req => u = v
      BY <1>1 DEF JobsInv, JobsAreAccepted
    <3>3. QED
      BY <2>3, <3>1, <3>2
  <2>5. QED
    BY <1>1, <2>1, <2>2, <2>4 DEF JobsAreAccepted
<1>6. AcceptedAreNumbered'
  BY <1>1, <1>2, <1>4 DEF JobsInv, AcceptedAreNumbered
<1>7. ServedAreNotOver'
  <2>1. ASSUME NEW u \in Threads \ {t}, job'[u] # None, NEW m \in DOMAIN accepted'
        PROVE  job'[u].req \notin accepted'[m].after
    BY <1>1, <1>2, <1>4, <2>1 DEF JobsInv, ServedAreNotOver
  <2>2. ASSUME NEW m \in DOMAIN accepted'
        PROVE  n \notin accepted'[m].after
    BY <1>1, <1>2, <1>4 DEF JobsInv, AcceptedAreNumbered
  <2>3. job'[t].req = n
    BY <1>1
  <2>4. QED
    BY <2>1, <2>2, <2>3 DEF ServedAreNotOver
<1>8. TapsAreOfAccepted'
  BY <1>1, <1>2, <1>3 DEF JobsInv, TapsAreOfAccepted
<1>9. QED
  BY <1>5, <1>6, <1>7, <1>8 DEF JobsInv

LEMMA CrashKeepsJobs == JobsInv /\ Crash => JobsInv'
<1> SUFFICES ASSUME JobsInv, Crash
             PROVE  JobsInv'
  OBVIOUS
<1>1. /\ job' = [t \in Threads |-> None] /\ taps' \subseteq taps /\ accepted' = accepted
  BY DEF Crash
<1>2. QED
  BY <1>1 DEF JobsInv, JobsAreAccepted, AcceptedAreNumbered, ServedAreNotOver,
     TapsAreOfAccepted

Serves(t) ==
    Redeem(t) \/ Coupon(t) \/ Register(t) \/ ChangeEmail(t) \/ Referral(t) \/ Role(t)
        \/ Guess(t) \/ Login(t)

LEMMA ServesMoves ==
    ASSUME NEW t \in Threads, Serves(t)
    PROVE  Moves(t)
<1> USE DEF Moves, At, Steps, history
<1>1. CASE Redeem(t)
  BY <1>1 DEF Redeem, RedeemRead, RedeemDebit, RedeemCredit, RedeemReport
<1>2. CASE Coupon(t)
  BY <1>2 DEF Coupon, CouponCount, CouponInsert, CouponReport
<1>3. CASE Register(t)
  BY <1>3 DEF Register, RegisterCheck, RegisterUser, RegisterWallet, RegisterReferral
<1>4. CASE ChangeEmail(t)
  BY <1>4 DEF ChangeEmail
<1>5. CASE Referral(t)
  BY <1>5 DEF Referral, ReferralRead, ReferralWrite
<1>6. CASE Role(t)
  BY <1>6 DEF Role, RoleRead, RoleAssign, PatchReport, SetRoleReport
<1>7. CASE Guess(t)
  BY <1>7 DEF Guess, GuessRead, GuessWrite, GuessScan, GuessReport
<1>8. CASE Login(t)
  BY <1>8 DEF Login, LoginQuery, LoginAccept, LoginRefuse, LoginCount, LoginReport, AtLogin
<1>9. QED
  BY <1>1, <1>2, <1>3, <1>4, <1>5, <1>6, <1>7, <1>8 DEF Serves

LEMMA NextIs ==
    ASSUME [Next]_vars
    PROVE  \/ \E t \in Threads : Serves(t)
           \/ \E t \in Threads, w \in Work : Accept(t, w)
           \/ Crash
           \/ UNCHANGED vars
  BY DEF Next, Serves

(* What the other steps leave alone, but for the taps a restart may lose.    *)
LEMMA OtherSteps ==
    ASSUME JobsInv, [Next]_vars, ~\E t \in Threads : Serves(t)
    PROVE  /\ taps' \subseteq taps
           /\ UNCHANGED tables
           /\ \A n \in DOMAIN accepted :
                 n \in DOMAIN accepted' /\ accepted'[n] = accepted[n]
           /\ \A t \in Threads : \/ job'[t] = job[t]
                                 \/ job'[t] # None => job'[t].step = "start"
<1>1. CASE \E t \in Threads, w \in Work : Accept(t, w)
  <2>1. PICK t \in Threads, w \in Work : Accept(t, w)
    BY <1>1
  <2>2. PICK n \in Nat \ {0} :
           /\ DOMAIN accepted = 1..(n - 1) /\ DOMAIN accepted' = 1..n
           /\ \A m \in DOMAIN accepted : accepted'[m] = accepted[m]
           /\ job'[t] = [work |-> w, req |-> n, step |-> "start", seen |-> None]
           /\ \A u \in Threads \ {t} : job'[u] = job[u]
    BY <2>1, AcceptIs
  <2>3. taps' = taps /\ UNCHANGED tables
    BY <2>1 DEF Accept
  <2>4. QED
    BY <2>2, <2>3
<1>2. CASE Crash
  BY <1>2 DEF Crash
<1>3. CASE UNCHANGED vars
  BY <1>3 DEF vars
<1>4. QED
  BY <1>1, <1>2, <1>3, NextIs

LEMMA JobsHold == Spec => []JobsInv
<1>1. Init => JobsInv
  <2> SUFFICES ASSUME Init
               PROVE  JobsInv
    OBVIOUS
  <2>1. /\ job = [t \in Threads |-> None] /\ accepted = [n \in {} |-> None] /\ taps = {}
    BY DEF Init
  <2>2. DOMAIN accepted = 1..0 /\ 0 \in Nat
    BY <2>1
  <2>3. QED
    BY <2>1, <2>2 DEF JobsInv, JobsAreAccepted, AcceptedAreNumbered, ServedAreNotOver,
       TapsAreOfAccepted
<1>2. JobsInv /\ [Next]_vars => JobsInv'
  <2> SUFFICES ASSUME JobsInv, [Next]_vars
               PROVE  JobsInv'
    OBVIOUS
  <2>1. CASE UNCHANGED vars
    BY <2>1 DEF vars, JobsInv, JobsAreAccepted, AcceptedAreNumbered, ServedAreNotOver,
       TapsAreOfAccepted, IsJob
  <2>2. QED
    BY <2>1, NextIs, ServesMoves, MoveKeepsJobs, AcceptKeepsJobs, CrashKeepsJobs
<1>3. QED
  BY <1>1, <1>2, PTL DEF Spec

-----------------------------------------------------------------------------
(* Accounts.                                                                 *)

(* A registration holds no number before it has its row; then the number is  *)
(* a user's, and from the last step on it has a wallet.                      *)
RegistrationsHoldUsers ==
    \A t \in Threads :
        /\ At(t, "register", "start") \/ At(t, "register", "insert") => job[t].seen = None
        /\ At(t, "register", "wallet") \/ At(t, "register", "referral") =>
              job[t].seen \in DOMAIN users
        /\ At(t, "register", "referral") => job[t].seen \in DOMAIN wallet

UsersAreNumbered == \E n \in Nat : DOMAIN users = 1..n

AccountsInv ==
    UsersAreNumbered /\ RegistrationsHoldUsers /\ AccountsAreWhole /\ crashes \in Nat

LEMMA MaxOfInterval ==
    ASSUME NEW n \in Nat
    PROVE  Max((1..n) \cup {0}) = n
<1>1. n \in (1..n) \cup {0} /\ \A y \in (1..n) \cup {0} : n >= y
  OBVIOUS
<1>2. \A x \in (1..n) \cup {0} : (\A y \in (1..n) \cup {0} : x >= y) => x = n
  OBVIOUS
<1>3. QED
  BY <1>1, <1>2 DEF Max

(* A step that registers nobody and adds no row.                             *)
LEMMA OthersKeepAccounts ==
    ASSUME JobsInv, AccountsInv, NEW t \in Threads, Moves(t),
           job[t].work.op # "register",
           DOMAIN users' = DOMAIN users, DOMAIN wallet' = DOMAIN wallet,
           DOMAIN referrals' = DOMAIN referrals
    PROVE  AccountsInv'
<1>1. /\ \A u \in Threads \ {t} : job'[u] = job[u]
      /\ job'[t] # None => job'[t].work.op # "register"
      /\ crashes' = crashes /\ job[t] # None
  BY MoveKeepsJobs DEF Moves
<1>2. UsersAreNumbered'
  BY DEF AccountsInv, UsersAreNumbered
<1>3. RegistrationsHoldUsers'
  BY <1>1 DEF AccountsInv, RegistrationsHoldUsers, At
<1>4. AccountsAreWhole'
  <2>1. ASSUME NEW u \in DOMAIN users' \ DOMAIN SeedUsers, NEW s \in Threads,
               job[s] # None /\ job[s].work.op = "register" /\ job[s].seen = u
        PROVE  job'[s] # None /\ job'[s].work.op = "register" /\ job'[s].seen = u
    BY <1>1, <2>1
  <2>2. QED
    BY <1>1, <2>1 DEF AccountsInv, AccountsAreWhole
<1>5. QED
  BY <1>1, <1>2, <1>3, <1>4 DEF AccountsInv

LEMMA RegisterKeepsAccounts ==
    ASSUME JobsInv, AccountsInv, NEW t \in Threads, Register(t)
    PROVE  AccountsInv'
<1>1. Moves(t)
  BY ServesMoves DEF Serves
<1>2. /\ \A u \in Threads \ {t} : job'[u] = job[u]
      /\ job'[t] # None => job'[t].work = job[t].work /\ job'[t].req = job[t].req
      /\ job[t] # None /\ IsJob(job[t]) /\ crashes' = crashes /\ JobsAreAccepted
      /\ crashes \in Nat
      /\ job[t].req \in Nat /\ job[t].work \in Work
  BY <1>1, MoveKeepsJobs DEF Moves, JobsInv, IsJob, AcceptedAreNumbered, AccountsInv
<1>3. PICK n \in Nat : DOMAIN users = 1..n
  BY DEF AccountsInv, UsersAreNumbered
<1>4. None \notin Nat /\ \A u \in DOMAIN users : u \in Nat /\ u # None
  BY <1>3, WorkAssumption
<1>5. \A step \in Steps, s \in Nat : Goto(t, step, s) =>
         /\ job'[t] # None /\ job'[t].step = step /\ job'[t].seen = s
         /\ job'[t].work = job[t].work
  <2> SUFFICES ASSUME NEW step \in Steps, NEW s \in Nat, Goto(t, step, s)
               PROVE  /\ job'[t] # None /\ job'[t].step = step /\ job'[t].seen = s
                      /\ job'[t].work = job[t].work
    OBVIOUS
  <2>1. /\ job'[t] = [work |-> job[t].work, req |-> job[t].req, step |-> step, seen |-> s]
        /\ job'[t].step = step /\ job'[t].seen = s /\ job'[t].work = job[t].work
    BY <1>2, GotoIs
  <2>2. job'[t] \in [work : Work, req : Nat, step : Steps, seen : Nat]
    BY <1>2, <2>1
  <2>3. QED
    BY <2>1, <2>2, WorkAssumption
<1>6. CASE RegisterCheck(t)
  <2>1. /\ UNCHANGED <<users, wallet, referrals>> /\ job[t].seen = None
        /\ job[t].work.op = "register"
    BY <1>6 DEF RegisterCheck, tables, AccountsInv, RegistrationsHoldUsers, At
  <2>2. \/ job'[t] = None
        \/ job'[t].step = "insert" /\ job'[t].seen = None
    <3>1. CASE Done(t)
      BY <1>2, <3>1, DoneIs
    <3>2. CASE Goto(t, "insert", None)
      <4>1. JobsAreAccepted /\ job[t] # None
        BY <1>2
      <4>2. /\ job'[t].step = "insert" /\ job'[t].seen = None
            /\ job'[t].work = job[t].work /\ job'[t].req = job[t].req
        BY <3>2, <4>1, GotoSets
      <4>3. QED
        BY <4>2
    <3>3. QED
      BY <1>6, <3>1, <3>2 DEF RegisterCheck
  <2>3. RegistrationsHoldUsers'
    BY <1>2, <2>1, <2>2 DEF AccountsInv, RegistrationsHoldUsers, At
  <2>4. AccountsAreWhole'
    BY <1>2, <1>4, <2>1 DEF AccountsInv, AccountsAreWhole
  <2>5. QED
    BY <1>2, <2>1, <2>3, <2>4 DEF AccountsInv, UsersAreNumbered
<1>7. CASE RegisterUser(t)
  <2> DEFINE uid == n + 1
             row == [email |-> job[t].work.email, role |-> "customer"]
  <2>1. Max(DOMAIN users \cup {0}) + 1 = uid
    BY <1>3, MaxOfInterval
  <2>2. /\ users' = Put(users, uid, row) /\ Goto(t, "wallet", uid)
        /\ UNCHANGED <<wallet, referrals>> /\ job[t].seen = None
        /\ job[t].work.op = "register"
    BY <1>7, <2>1 DEF RegisterUser, AccountsInv, RegistrationsHoldUsers, At
  <2>3. /\ DOMAIN users' = 1..(n + 1) /\ DOMAIN users' = DOMAIN users \cup {uid}
        /\ uid \in Nat
    BY <1>3, <2>2 DEF Put
  <2> HIDE DEF uid
  <2>4. /\ job'[t] # None /\ job'[t].step = "wallet" /\ job'[t].seen = uid
        /\ job'[t].work = job[t].work
    BY <1>5, <2>2, <2>3 DEF Steps
  <2>5. UsersAreNumbered'
    BY <2>3 DEF UsersAreNumbered
  <2>6. RegistrationsHoldUsers'
    BY <1>2, <2>2, <2>3, <2>4 DEF AccountsInv, RegistrationsHoldUsers, At
  <2>7. AccountsAreWhole'
    <3>1. DOMAIN wallet' \cup DOMAIN referrals' \subseteq DOMAIN users'
      BY <2>2, <2>3 DEF AccountsInv, AccountsAreWhole
    <3>2. ASSUME NEW u \in DOMAIN users \ DOMAIN SeedUsers, ~(crashes > 0),
                 ~(u \in DOMAIN wallet \cap DOMAIN referrals)
          PROVE  \E s \in Threads : job'[s] # None /\ job'[s].work.op = "register"
                                     /\ job'[s].seen = u
      <4>1. PICK s \in Threads : job[s] # None /\ job[s].work.op = "register"
                                 /\ job[s].seen = u
        BY <3>2 DEF AccountsInv, AccountsAreWhole
      <4>2. s # t
        BY <1>4, <2>2, <4>1
      <4>3. QED
        BY <1>2, <4>1, <4>2
    <3>3. \E s \in Threads : job'[s] # None /\ job'[s].work.op = "register"
                              /\ job'[s].seen = uid
      BY <2>2, <2>4
    <3>4. QED
      BY <1>2, <2>2, <2>3, <3>1, <3>2, <3>3 DEF AccountsAreWhole
  <2>8. QED
    BY <1>2, <2>5, <2>6, <2>7 DEF AccountsInv
<1>8. CASE RegisterWallet(t)
  <2> DEFINE uid == job[t].seen
  <2>1. /\ wallet' = Put(wallet, uid, 0) /\ Goto(t, "referral", uid)
        /\ UNCHANGED <<users, referrals>> /\ uid \in DOMAIN users
        /\ job[t].work.op = "register"
    BY <1>8 DEF RegisterWallet, AccountsInv, RegistrationsHoldUsers, At
  <2>2. DOMAIN wallet' = DOMAIN wallet \cup {uid}
    BY <2>1 DEF Put
  <2>3. /\ job'[t] # None /\ job'[t].step = "referral" /\ job'[t].seen = uid
        /\ job'[t].work = job[t].work
    BY <1>4, <1>5, <2>1 DEF Steps
  <2>4. RegistrationsHoldUsers'
    BY <1>2, <2>1, <2>2, <2>3 DEF AccountsInv, RegistrationsHoldUsers, At
  <2>5. AccountsAreWhole'
    BY <1>2, <2>1, <2>2, <2>3 DEF AccountsInv, AccountsAreWhole
  <2>6. QED
    BY <1>2, <2>1, <2>4, <2>5 DEF AccountsInv, UsersAreNumbered
<1>9. CASE RegisterReferral(t)
  <2> DEFINE uid == job[t].seen
  <2>1. /\ referrals' = Put(referrals, uid, None) /\ Done(t)
        /\ UNCHANGED <<users, wallet>>
        /\ uid \in DOMAIN users /\ uid \in DOMAIN wallet
    BY <1>9 DEF RegisterReferral, AccountsInv, RegistrationsHoldUsers, At
  <2>2. DOMAIN referrals' = DOMAIN referrals \cup {uid}
    BY <2>1 DEF Put
  <2>3. job'[t] = None
    BY <1>2, <2>1, DoneIs
  <2>4. RegistrationsHoldUsers'
    BY <1>2, <2>1, <2>2, <2>3 DEF AccountsInv, RegistrationsHoldUsers, At
  <2>5. AccountsAreWhole'
    BY <1>2, <2>1, <2>2, <2>3 DEF AccountsInv, AccountsAreWhole
  <2>6. QED
    BY <1>2, <2>1, <2>4, <2>5 DEF AccountsInv, UsersAreNumbered
<1>10. QED
  BY <1>6, <1>7, <1>8, <1>9 DEF Register

(* An UPDATE adds no row and removes none.                                   *)
LEMMA WrittenRows ==
    ASSUME NEW a, NEW c, NEW v
    PROVE  DOMAIN Written(a, c, v) = DOMAIN users
<1>1. CASE a \notin DOMAIN users
  BY <1>1, Zenon DEF Written
<1>2. CASE a \in DOMAIN users /\ c = "email"
  <2>1. Written(a, c, v) = [users EXCEPT ![a].email = v]
    BY <1>2, Zenon DEF Written
  <2>2. QED
    BY <2>1
<1>3. CASE a \in DOMAIN users /\ c # "email"
  <2>1. Written(a, c, v) = [users EXCEPT ![a].role = v]
    BY <1>3, Zenon DEF Written
  <2>2. QED
    BY <2>1
<1>4. QED
  BY <1>1, <1>2, <1>3

LEMMA ServingKeepsAccounts ==
    ASSUME JobsInv, AccountsInv, NEW t \in Threads, Serves(t)
    PROVE  AccountsInv'
<1>1. CASE Register(t)
  BY <1>1, RegisterKeepsAccounts
<1>2. CASE ~Register(t)
  <2>1. Moves(t)
    BY ServesMoves
  <2>2. job[t].work.op # "register"
    BY <1>2 DEF Serves, At, AtLogin, Redeem, RedeemRead, RedeemDebit, RedeemCredit,
       RedeemReport, Coupon, CouponCount, CouponInsert, CouponReport, ChangeEmail, Referral,
       ReferralRead, ReferralWrite, Role, RoleRead, RoleAssign, PatchReport, SetRoleReport,
       Guess, GuessRead, GuessWrite, GuessScan, GuessReport, Login, LoginQuery, LoginAccept,
       LoginRefuse, LoginCount, LoginReport, Assigns
  <2>3. /\ DOMAIN users' = DOMAIN users /\ DOMAIN wallet' = DOMAIN wallet
        /\ DOMAIN referrals' = DOMAIN referrals
    BY <1>2, WrittenRows DEF Serves, tables, Redeem, RedeemRead, RedeemDebit, RedeemCredit,
       RedeemReport, Coupon, CouponCount, CouponInsert, CouponReport, ChangeEmail, Referral,
       ReferralRead, ReferralWrite, Role, RoleRead, RoleAssign, PatchReport, SetRoleReport,
       Guess, GuessRead, GuessWrite, GuessScan, GuessReport, Login, LoginQuery, LoginAccept,
       LoginRefuse, LoginCount, LoginReport
  <2>4. QED
    BY <2>1, <2>2, <2>3, OthersKeepAccounts
<1>3. QED
  BY <1>1, <1>2

LEMMA AccountsInvHolds == Spec => []AccountsInv
<1>1. Init => AccountsInv
  <2> SUFFICES ASSUME Init
               PROVE  AccountsInv
    OBVIOUS
  <2>1. /\ users = SeedUsers /\ wallet = SeedWallets
        /\ referrals = [u \in SeedReferrers |-> None]
        /\ \A t \in Threads : job[t] = None
    BY DEF Init
  <2>2. UsersAreNumbered
    BY <2>1, StorefrontAssumption, FS_CardinalityType DEF UsersAreNumbered
  <2>3. AccountsAreWhole
    BY <2>1, StorefrontAssumption DEF AccountsAreWhole
  <2>4. QED
    BY <2>1, <2>2, <2>3 DEF Init, AccountsInv, RegistrationsHoldUsers, At
<1>2. JobsInv /\ AccountsInv /\ [Next]_vars => AccountsInv'
  <2> SUFFICES ASSUME JobsInv, AccountsInv, [Next]_vars
               PROVE  AccountsInv'
    OBVIOUS
  <2>1. ASSUME NEW t \in Threads, NEW w \in Work, Accept(t, w)
        PROVE  AccountsInv'
    <3>1. /\ \A u \in Threads \ {t} : job'[u] = job[u]
          /\ job'[t].step = "start" /\ job'[t].seen = None /\ job[t] = None
          /\ UNCHANGED <<users, wallet, referrals, crashes>>
      BY <2>1, AcceptIs DEF Accept, tables
    <3>2. QED
      BY <3>1 DEF AccountsInv, UsersAreNumbered, RegistrationsHoldUsers, At,
         AccountsAreWhole
  <2>2. CASE Crash
    <3>1. /\ \A t \in Threads : job'[t] = None
          /\ UNCHANGED <<users, wallet, referrals>> /\ crashes' = crashes + 1
      BY <2>2 DEF Crash, tables
    <3>2. crashes' \in Nat /\ crashes' > 0
      BY <3>1 DEF AccountsInv
    <3>3. UsersAreNumbered' /\ RegistrationsHoldUsers'
      BY <3>1 DEF AccountsInv, UsersAreNumbered, RegistrationsHoldUsers, At
    <3>4. AccountsAreWhole'
      BY <3>1, <3>2 DEF AccountsInv, AccountsAreWhole
    <3>5. QED
      BY <3>2, <3>3, <3>4 DEF AccountsInv
  <2>3. CASE UNCHANGED vars
    BY <2>3 DEF vars, tables, AccountsInv, UsersAreNumbered, RegistrationsHoldUsers, At,
       AccountsAreWhole
  <2>4. QED
    BY <2>1, <2>2, <2>3, NextIs, ServingKeepsAccounts
<1>3. QED
  BY <1>1, <1>2, JobsHold, PTL DEF Spec

(* No registration leaves an account without wallet or referral code unless  *)
(* a restart cut it short, and no wallet or code is without its account, for *)
(* any interleaving of the statements of register.                           *)
THEOREM AccountsHold == Spec => []AccountsAreWhole
<1>1. AccountsInv => AccountsAreWhole
  BY DEF AccountsInv
<1>2. QED
  BY <1>1, AccountsInvHolds, PTL

-----------------------------------------------------------------------------
(* Coupons.                                                                  *)

KeyOf(w) == <<w.code, w.actor>>

(* Among the taps, a redemption like w that was over before request n began. *)
ReportedBefore(reported, requests, w, n) ==
    \E y \in reported : /\ y.work.op = "coupon" /\ KeyOf(y.work) = KeyOf(w)
                        /\ y.req \in requests[n].after

Counted(reported, requests, w, n, seen) ==
    seen \in Nat /\ (ReportedBefore(reported, requests, w, n) => seen >= 1)

RowsAreCounted == \A k \in DOMAIN redemptions : redemptions[k] \in Nat \ {0}

(* What thread t holds of a coupon: its row is still to come, or is there.   *)
CouponIsCounted(t) ==
    /\ At(t, "coupon", "insert") =>
          /\ Counted(taps, accepted, job[t].work, job[t].req, job[t].seen)
          /\ job[t].seen <= Get(redemptions, KeyOf(job[t].work))
    /\ At(t, "coupon", "report") =>
          /\ Counted(taps, accepted, job[t].work, job[t].req, job[t].seen)
          /\ KeyOf(job[t].work) \in DOMAIN redemptions
          /\ job[t].seen < redemptions[KeyOf(job[t].work)]

TapIsCounted(x) ==
    x.work.op = "coupon" =>
        /\ Counted(taps, accepted, x.work, x.req, x.seen)
        /\ KeyOf(x.work) \in DOMAIN redemptions
        /\ x.seen < redemptions[KeyOf(x.work)]

CouponsInv ==
    /\ RowsAreCounted
    /\ \A t \in Threads : CouponIsCounted(t)
    /\ \A x \in taps : TapIsCounted(x)

RowsGrow ==
    \A k \in DOMAIN redemptions :
        k \in DOMAIN redemptions' /\ redemptions[k] <= redemptions'[k]

(* What a step reports was over for nobody.                                  *)
LEMMA NothingOverIsReported ==
    ASSUME JobsInv, NEW n \in DOMAIN accepted, NEW w,
           \/ \E t \in Threads : Moves(t)
           \/ /\ taps' \subseteq taps
              /\ n \in DOMAIN accepted' /\ accepted'[n] = accepted[n],
           ReportedBefore(taps', accepted', w, n)
    PROVE  ReportedBefore(taps, accepted, w, n)
<1>1. PICK y \in taps' : /\ y.work.op = "coupon" /\ KeyOf(y.work) = KeyOf(w)
                         /\ y.req \in accepted'[n].after
  BY DEF ReportedBefore
<1>2. CASE \E t \in Threads : Moves(t)
  <2>1. PICK t \in Threads : Moves(t)
    BY <1>2
  <2>2. accepted' = accepted /\ (y \in taps \/ y.req = job[t].req)
    BY <1>1, <2>1 DEF Moves, Emit
  <2>3. job[t].req \notin accepted[n].after
    BY <2>1 DEF Moves, JobsInv, ServedAreNotOver
  <2>4. y \in taps
    BY <1>1, <2>2, <2>3
  <2>5. QED
    BY <1>1, <2>2, <2>4 DEF ReportedBefore
<1>3. QED
  BY <1>1, <1>2 DEF ReportedBefore

LEMMA MoveKeepsCoupons ==
    ASSUME JobsInv, CouponsInv, NEW t \in Threads, Moves(t),
           RowsAreCounted', RowsGrow, CouponIsCounted(t)',
           \A x \in taps' \ taps : TapIsCounted(x)'
    PROVE  CouponsInv'
<1>1. /\ \A u \in Threads \ {t} : job'[u] = job[u]
      /\ accepted' = accepted
  BY MoveKeepsJobs DEF Moves
<1>2. \A w, seen : \A n \in DOMAIN accepted :
         Counted(taps, accepted, w, n, seen) => Counted(taps', accepted', w, n, seen)
  BY NothingOverIsReported DEF Counted
<1>3. ASSUME NEW k, NEW seen \in Nat, k \in DOMAIN redemptions, seen < redemptions[k]
      PROVE  k \in DOMAIN redemptions' /\ seen < redemptions'[k]
  BY <1>3 DEF RowsGrow, CouponsInv, RowsAreCounted
<1>4. ASSUME NEW k, NEW seen \in Nat, seen <= Get(redemptions, k)
      PROVE  seen <= Get(redemptions', k)
  <2>1. CASE k \in DOMAIN redemptions
    BY <1>4, <2>1 DEF RowsGrow, CouponsInv, RowsAreCounted, Get
  <2>2. CASE k \notin DOMAIN redemptions
    <3>1. seen = 0 /\ Get(redemptions', k) \in Nat
      BY <1>4, <2>2 DEF Get, RowsAreCounted
    <3>2. QED
      BY <3>1
  <2>3. QED
    BY <2>1, <2>2
<1>5. ASSUME NEW u \in Threads \ {t}
      PROVE  CouponIsCounted(u)'
  <2>1. CouponIsCounted(u) /\ job'[u] = job[u]
    BY <1>1 DEF CouponsInv
  <2>2. job[u] # None => job[u].req \in DOMAIN accepted
    BY DEF JobsInv, JobsAreAccepted, IsJob
  <2>3. CASE At(u, "coupon", "insert")
    BY <1>2, <1>4, <2>1, <2>2, <2>3 DEF CouponIsCounted, At, Counted
  <2>4. CASE At(u, "coupon", "report")
    BY <1>2, <1>3, <2>1, <2>2, <2>4 DEF CouponIsCounted, At, Counted
  <2>5. QED
    BY <2>1, <2>3, <2>4 DEF CouponIsCounted, At
<1>6. ASSUME NEW x \in taps, x.work.op = "coupon"
      PROVE  TapIsCounted(x)'
  <2>1. TapIsCounted(x) /\ x.req \in DOMAIN accepted
    BY DEF CouponsInv, JobsInv, TapsAreOfAccepted
  <2>2. QED
    BY <1>2, <1>3, <1>6, <2>1 DEF TapIsCounted, Counted
<1>7. \A x \in taps' : TapIsCounted(x)'
  BY <1>6 DEF TapIsCounted
<1>8. QED
  BY <1>5, <1>7 DEF CouponsInv

LEMMA CouponKeepsCoupons ==
    ASSUME JobsInv, CouponsInv, NEW t \in Threads, Coupon(t)
    PROVE  CouponsInv'
<1> DEFINE w == job[t].work
           k == KeyOf(w)
           r == job[t].req
           v == job[t].seen
<1>1. Moves(t)
  BY ServesMoves DEF Serves
<1>2. /\ JobsAreAccepted /\ job[t] # None /\ IsJob(job[t]) /\ r \in DOMAIN accepted
      /\ w.op = "coupon" /\ accepted' = accepted /\ CouponKey(t) = k
      /\ RowsAreCounted /\ CouponIsCounted(t)
  BY <1>1 DEF Moves, JobsInv, JobsAreAccepted, IsJob, Coupon, CouponCount, CouponInsert,
     CouponReport, At, KeyOf, CouponKey, CouponsInv
<1>3. \A seen : Counted(taps, accepted, w, r, seen) => Counted(taps', accepted', w, r, seen)
  BY <1>1, <1>2, NothingOverIsReported DEF Counted
<1>4. CASE CouponCount(t)
  <2> PICK rows : rows = Get(redemptions, k)
    OBVIOUS
  <2>1. /\ Goto(t, "insert", rows) /\ redemptions' = redemptions /\ taps' = taps
    BY <1>2, <1>4 DEF CouponCount, tables
  <2>2. Counted(taps, accepted, w, r, rows)
    <3>1. rows \in Nat
      BY <1>2 DEF Get, RowsAreCounted
    <3>2. ASSUME ReportedBefore(taps, accepted, w, r)
          PROVE  rows >= 1
      <4>1. PICK y \in taps : y.work.op = "coupon" /\ KeyOf(y.work) = k
        BY <3>2 DEF ReportedBefore
      <4>2. k \in DOMAIN redemptions
        BY <4>1 DEF CouponsInv, TapIsCounted
      <4>3. redemptions[k] \in Nat \ {0} /\ rows = redemptions[k]
        BY <1>2, <4>2 DEF RowsAreCounted, Get
      <4>4. QED
        BY <4>3
    <3>3. QED
      BY <3>1, <3>2 DEF Counted
  <2>3. /\ job'[t].step = "insert" /\ job'[t].seen = rows
        /\ job'[t].work = w /\ job'[t].req = r
    <3>1. JobsAreAccepted /\ job[t] # None /\ Goto(t, "insert", rows)
      BY <1>2, <2>1
    <3>2. QED
      BY <3>1, GotoSets
  <2>4. Counted(taps', accepted', job'[t].work, job'[t].req, job'[t].seen)
    BY <1>3, <2>2, <2>3
  <2>5. rows \in Nat /\ rows = Get(redemptions, k)
    BY <2>2 DEF Counted
  <2>6. CouponIsCounted(t)'
    BY <2>1, <2>3, <2>4, <2>5 DEF CouponIsCounted, At
  <2>7. QED
    BY <1>1, <1>2, <2>1, <2>6, MoveKeepsCoupons DEF RowsAreCounted, RowsGrow
<1>5. CASE CouponInsert(t)
  <2> DEFINE rows == Get(redemptions, k)
  <2>1. /\ redemptions' = Put(redemptions, k, rows + 1) /\ Goto(t, "report", v)
        /\ taps' = taps
    BY <1>2, <1>5 DEF CouponInsert
  <2>2. Counted(taps, accepted, w, r, v) /\ v <= rows /\ v \in Nat
    BY <1>2, <1>5 DEF CouponInsert, CouponIsCounted, Counted
  <2>3. /\ rows \in Nat
        /\ k \in DOMAIN redemptions => rows = redemptions[k]
    BY <1>2 DEF Get, RowsAreCounted
  <2>4. /\ job'[t].step = "report" /\ job'[t].seen = v
        /\ job'[t].work = w /\ job'[t].req = r
    BY <1>2, <2>1, GotoIs
  <2> HIDE DEF rows, k
  <2>5. /\ DOMAIN redemptions' = DOMAIN redemptions \cup {k} /\ redemptions'[k] = rows + 1
        /\ \A l \in DOMAIN redemptions \ {k} : redemptions'[l] = redemptions[l]
    BY <2>1 DEF Put
  <2>6. RowsAreCounted' /\ RowsGrow
    BY <1>2, <2>3, <2>5 DEF RowsAreCounted, RowsGrow
  <2>7. Counted(taps', accepted', job'[t].work, job'[t].req, job'[t].seen)
    BY <1>3, <2>2, <2>4
  <2>8. /\ KeyOf(job'[t].work) \in DOMAIN redemptions'
        /\ job'[t].seen < redemptions'[KeyOf(job'[t].work)]
    BY <2>2, <2>3, <2>4, <2>5 DEF k
  <2>9. CouponIsCounted(t)'
    BY <2>4, <2>7, <2>8 DEF CouponIsCounted, At
  <2>10. QED
    BY <1>1, <2>1, <2>6, <2>9, MoveKeepsCoupons
<1>6. CASE CouponReport(t)
  <2> DEFINE x == [req |-> r, work |-> w, seen |-> v, now |-> v]
  <2>1. taps' = taps \cup {x} /\ Done(t) /\ redemptions' = redemptions
    BY <1>6 DEF CouponReport, Emit, tables
  <2>2. /\ Counted(taps, accepted, w, r, v) /\ k \in DOMAIN redemptions
        /\ v < redemptions[k]
    BY <1>2, <1>6 DEF CouponReport, CouponIsCounted
  <2>3. job'[t] = None
    BY <1>2, <2>1, DoneIs
  <2>4. Counted(taps', accepted', w, r, v)
    BY <1>3, <2>2
  <2>5. x.req = r /\ x.work = w /\ x.seen = v
    OBVIOUS
  <2> HIDE DEF x
  <2>6. \A z \in taps' \ taps : TapIsCounted(z)'
    BY <2>1, <2>2, <2>4, <2>5 DEF TapIsCounted
  <2>7. CouponIsCounted(t)'
    BY <2>3 DEF CouponIsCounted, At
  <2>8. QED
    BY <1>1, <1>2, <2>1, <2>6, <2>7, MoveKeepsCoupons DEF RowsAreCounted, RowsGrow
<1>7. QED
  BY <1>4, <1>5, <1>6 DEF Coupon

LEMMA ServingKeepsCoupons ==
    ASSUME JobsInv, CouponsInv, NEW t \in Threads, Serves(t)
    PROVE  CouponsInv'
<1>1. CASE Coupon(t)
  BY <1>1, CouponKeepsCoupons
<1>2. CASE ~Coupon(t)
  <2>1. Moves(t)
    BY ServesMoves
  <2>2. job[t].work.op # "coupon"
    BY <1>2 DEF Serves, At, AtLogin, Redeem, RedeemRead, RedeemDebit, RedeemCredit,
       RedeemReport, Register, RegisterCheck, RegisterUser, RegisterWallet,
       RegisterReferral, ChangeEmail, Referral, ReferralRead, ReferralWrite, Role,
       RoleRead, RoleAssign, PatchReport, SetRoleReport, Guess, GuessRead, GuessWrite,
       GuessScan, GuessReport, Login, LoginQuery, LoginAccept, LoginRefuse, LoginCount,
       LoginReport, Assigns
  <2>3. redemptions' = redemptions
    BY <1>2 DEF Serves, tables, Redeem, RedeemRead, RedeemDebit, RedeemCredit,
       RedeemReport, Register, RegisterCheck, RegisterUser, RegisterWallet,
       RegisterReferral, ChangeEmail, Referral, ReferralRead, ReferralWrite, Role,
       RoleRead, RoleAssign, PatchReport, SetRoleReport, Guess, GuessRead, GuessWrite,
       GuessScan, GuessReport, Login, LoginQuery, LoginAccept, LoginRefuse, LoginCount,
       LoginReport
  <2>4. job'[t] # None => job'[t].work = job[t].work
    BY <2>1, MoveKeepsJobs
  <2>5. CouponIsCounted(t)'
    BY <2>2, <2>4 DEF CouponIsCounted, At
  <2>6. \A x \in taps' \ taps : TapIsCounted(x)'
    BY <2>1, <2>2 DEF Moves, Emit, TapIsCounted
  <2>7. RowsAreCounted' /\ RowsGrow
    BY <2>3 DEF CouponsInv, RowsAreCounted, RowsGrow
  <2>8. QED
    BY <2>1, <2>5, <2>6, <2>7, MoveKeepsCoupons
<1>3. QED
  BY <1>1, <1>2

LEMMA CouponsInvHolds == Spec => []CouponsInv
<1>1. Init => CouponsInv
  BY DEF Init, CouponsInv, RowsAreCounted, CouponIsCounted, At
<1>2. JobsInv /\ CouponsInv /\ [Next]_vars => CouponsInv'
  <2> SUFFICES ASSUME JobsInv, CouponsInv, [Next]_vars
               PROVE  CouponsInv'
    OBVIOUS
  <2>1. ASSUME taps' \subseteq taps, redemptions' = redemptions,
               \A n \in DOMAIN accepted : n \in DOMAIN accepted' /\ accepted'[n] = accepted[n],
               \A t \in Threads : \/ job'[t] = job[t]
                                  \/ job'[t] # None => job'[t].step = "start"
        PROVE  CouponsInv'
    <3>1. \A w, seen : \A n \in DOMAIN accepted :
             Counted(taps, accepted, w, n, seen) => Counted(taps', accepted', w, n, seen)
      BY <2>1, NothingOverIsReported DEF Counted
    <3>2. ASSUME NEW t \in Threads
          PROVE  CouponIsCounted(t)'
      <4>1. CASE job'[t] = job[t]
        <5>1. job[t] # None => job[t].req \in DOMAIN accepted
          BY DEF JobsInv, JobsAreAccepted, IsJob
        <5>2. CouponIsCounted(t)
          BY DEF CouponsInv
        <5>3. QED
          BY <2>1, <3>1, <4>1, <5>1, <5>2 DEF CouponIsCounted, At
      <4>2. CASE job'[t] # None => job'[t].step = "start"
        BY <4>2 DEF CouponIsCounted, At
      <4>3. QED
        BY <2>1, <4>1, <4>2
    <3>3. ASSUME NEW x \in taps'
          PROVE  TapIsCounted(x)'
      <4>1. TapIsCounted(x) /\ x.req \in DOMAIN accepted
        BY <2>1 DEF CouponsInv, JobsInv, TapsAreOfAccepted
      <4>2. QED
        BY <2>1, <3>1, <4>1 DEF TapIsCounted
    <3>4. RowsAreCounted'
      BY <2>1 DEF CouponsInv, RowsAreCounted
    <3>5. QED
      BY <3>2, <3>3, <3>4 DEF CouponsInv
  <2>2. CASE \E t \in Threads : Serves(t)
    BY <2>2, ServingKeepsCoupons
  <2>3. CASE ~\E t \in Threads : Serves(t)
    BY <2>1, <2>3, OtherSteps DEF tables
  <2>4. QED
    BY <2>2, <2>3
<1>3. QED
  BY <1>1, <1>2, JobsHold, PTL DEF Spec

(* An actor who redeems a coupon after a redemption of theirs was reported   *)
(* is reported as reusing it, across any restarts and interleavings, and no  *)
(* report counts a row that is not there (apply_coupon).                     *)
THEOREM ReuseHolds == Spec => []ReuseIsReported
<1>1. CouponsInv => ReuseIsReported
  <2> SUFFICES ASSUME CouponsInv, NEW k \in DOMAIN redemptions, NEW x \in CouponsOf(k)
               PROVE  /\ x.seen < redemptions[k]
                      /\ (\E y \in CouponsOf(k) : y.req \in accepted[x.req].after)
                            => x.seen >= 1
    BY DEF ReuseIsReported
  <2>1. x \in taps /\ x.work.op = "coupon" /\ KeyOf(x.work) = k
    BY DEF CouponsOf, KeyOf
  <2>2. TapIsCounted(x)
    BY <2>1 DEF CouponsInv
  <2>3. (\E y \in CouponsOf(k) : y.req \in accepted[x.req].after)
           => ReportedBefore(taps, accepted, x.work, x.req)
    BY <2>1 DEF CouponsOf, ReportedBefore, KeyOf
  <2>4. QED
    BY <2>1, <2>2, <2>3 DEF TapIsCounted, Counted
<1>2. QED
  BY <1>1, CouponsInvHolds, PTL

-----------------------------------------------------------------------------
(* Roles.                                                                    *)

UserRows(f) ==
    /\ f = [u \in DOMAIN f |-> f[u]]
    /\ \A u \in DOMAIN f : f[u] = [email |-> f[u].email, role |-> f[u].role]

WithRole(f, a, r) == [f EXCEPT ![a].role = r]
WithEmail(f, a, e) == [f EXCEPT ![a].email = e]

LEMMA RoleSet ==
    ASSUME NEW f, UserRows(f), NEW a, NEW r, NEW g, g = WithRole(f, a, r)
    PROVE  /\ UserRows(g) /\ DOMAIN g = DOMAIN f
           /\ \A u \in DOMAIN f : g[u].email = f[u].email
           /\ \A u \in DOMAIN f \ {a} : g[u].role = f[u].role
           /\ a \in DOMAIN f => g[a].role = r
<1> DEFINE e == f[a].email
           q == f[a].role
           row == f[a]
           new == [row EXCEPT !.role = r]
<1>1. /\ DOMAIN g = DOMAIN f /\ g = [u \in DOMAIN g |-> g[u]]
      /\ \A u \in DOMAIN f \ {a} : g[u] = f[u]
      /\ a \in DOMAIN f => g[a] = new
  BY DEF UserRows, WithRole
<1>2. a \in DOMAIN f => row = [email |-> e, role |-> q]
  BY DEF UserRows
<1> HIDE DEF e, q, row
<1>3. a \in DOMAIN f => new = [email |-> e, role |-> r]
  BY <1>2, SMT
<1> HIDE DEF new
<1>4. ASSUME a \in DOMAIN f
      PROVE  /\ g[a] = [email |-> e, role |-> r]
             /\ g[a].email = e /\ g[a].role = r
  <2>1. g[a] = [email |-> e, role |-> r]
    BY <1>1, <1>3, <1>4, Zenon
  <2> DEFINE x == g[a]
  <2> HIDE DEF x
  <2>2. x = [email |-> e, role |-> r]
    BY <2>1 DEF x
  <2>3. x.email = e /\ x.role = r
    BY <2>2
  <2>4. QED
    BY <2>1, <2>3 DEF x
<1>5. QED
  BY <1>1, <1>4 DEF UserRows, e

LEMMA EmailSet ==
    ASSUME NEW f, UserRows(f), NEW a, NEW r, NEW g, g = WithEmail(f, a, r)
    PROVE  /\ UserRows(g) /\ DOMAIN g = DOMAIN f
           /\ \A u \in DOMAIN f : g[u].role = f[u].role
<1> DEFINE e == f[a].email
           q == f[a].role
           row == f[a]
           new == [row EXCEPT !.email = r]
<1>1. /\ DOMAIN g = DOMAIN f /\ g = [u \in DOMAIN g |-> g[u]]
      /\ \A u \in DOMAIN f \ {a} : g[u] = f[u]
      /\ a \in DOMAIN f => g[a] = new
  BY DEF UserRows, WithEmail
<1>2. a \in DOMAIN f => row = [email |-> e, role |-> q]
  BY DEF UserRows
<1> HIDE DEF e, q, row
<1>3. a \in DOMAIN f => new = [email |-> r, role |-> q]
  BY <1>2, SMT
<1> HIDE DEF new
<1>4. ASSUME a \in DOMAIN f
      PROVE  g[a] = [email |-> r, role |-> q] /\ g[a].role = q
  <2>1. g[a] = [email |-> r, role |-> q]
    BY <1>1, <1>3, <1>4, Zenon
  <2> DEFINE x == g[a]
  <2> HIDE DEF x
  <2>2. x = [email |-> r, role |-> q]
    BY <2>1 DEF x
  <2>3. x.role = q
    BY <2>2
  <2>4. QED
    BY <2>1, <2>3 DEF x
<1>5. QED
  BY <1>1, <1>4 DEF UserRows, q

UsersAreRows == UserRows(users)

(* What an UPDATE of a column leaves of the table.                           *)
Updates(a, c, v) ==
    /\ UserRows(users') /\ DOMAIN users' = DOMAIN users
    /\ c # "email" => \A u \in DOMAIN users : users'[u].email = users[u].email
    /\ \A u \in DOMAIN users :
          \/ users'[u].role = users[u].role
          \/ u = a /\ c # "email" /\ users'[u].role = v

LEMMA WrittenIs ==
    ASSUME UserRows(users), NEW a, NEW c, NEW v, users' = Written(a, c, v)
    PROVE  Updates(a, c, v)
<1> PICK f, g : f = users /\ g = users'
  OBVIOUS
<1>1. CASE a \notin DOMAIN users
  <2>1. users' = users
    BY <1>1, Zenon DEF Written
  <2>2. QED
    BY <2>1 DEF Updates
<1>2. CASE a \in DOMAIN users /\ c = "email"
  <2>1. g = WithEmail(f, a, v) /\ UserRows(f)
    BY <1>2, Zenon DEF Written, WithEmail
  <2>2. /\ UserRows(g) /\ DOMAIN g = DOMAIN f
        /\ \A u \in DOMAIN f : g[u].role = f[u].role
    BY <2>1, EmailSet
  <2>3. QED
    BY <1>2, <2>2 DEF Updates
<1>3. CASE a \in DOMAIN users /\ c # "email"
  <2>1. g = WithRole(f, a, v) /\ UserRows(f)
    BY <1>3, Zenon DEF Written, WithRole
  <2>2. /\ UserRows(g) /\ DOMAIN g = DOMAIN f
        /\ \A u \in DOMAIN f : g[u].email = f[u].email
        /\ \A u \in DOMAIN f \ {a} : g[u].role = f[u].role
        /\ a \in DOMAIN f => g[a].role = v
    BY <2>1, RoleSet
  <2>3. QED
    BY <1>3, <2>2 DEF Updates
<1>4. QED
  BY <1>1, <1>2, <1>3

(* Of the requests, one that assigns role r to user u and is n or was served *)
(* together with n.                                                          *)
Authored(requests, r, u, n) ==
    \E m \in DOMAIN requests :
        /\ requests[m].work.op \in Assigns
        /\ r \in RolesGiven(requests[m].work) /\ requests[m].work.uid = u
        /\ m = n \/ (m \notin requests[n].after /\ n \notin requests[m].after)

(* Somebody registered while n was served.                                   *)
Joined(requests, n) ==
    \E m \in DOMAIN requests :
        /\ requests[m].work.op = "register"
        /\ m \notin requests[n].after /\ n \notin requests[m].after

(* The role before and the role now, of user u, for request n: equal, or     *)
(* with an author, or that of a user who registered meanwhile.               *)
Explained(requests, before, now, u, n) ==
    \/ before = now
    \/ Authored(requests, now, u, n)
    \/ before = None /\ now = "customer" /\ Joined(requests, n)

RoleIsAuthored(t) ==
    At(t, "patch", "assign") =>
        /\ Explained(accepted, job[t].seen.before, db_role(job[t].work.uid),
                     job[t].work.uid, job[t].req)
        /\ job[t].work.uid \notin DOMAIN users => job[t].seen.before = None

TapIsAuthored(x) ==
    x.work.op = "patch" => Explained(accepted, x.seen, x.now, x.work.uid, x.req)

RolesInv ==
    /\ UsersAreRows /\ DOMAIN SeedUsers \subseteq DOMAIN users
    /\ \A t \in Threads : RoleIsAuthored(t)
    /\ \A x \in taps : TapIsAuthored(x)

(* The step of thread t sets no role but one its request assigns, or that of *)
(* a new user.                                                               *)
RolesOnlyAssigned(t) ==
    \A u :
        \/ db_role(u)' = db_role(u) /\ (u \in DOMAIN users => u \in DOMAIN users')
        \/ /\ job[t].work.op \in Assigns /\ job[t].work.uid = u
           /\ db_role(u)' \in RolesGiven(job[t].work)
           /\ u \in DOMAIN users => u \in DOMAIN users'
        \/ /\ job[t].work.op = "register"
           /\ u \notin DOMAIN users /\ db_role(u)' = "customer"

LEMMA RolesStay ==
    ASSUME NEW t, users' = users
    PROVE  RolesOnlyAssigned(t)
BY DEF RolesOnlyAssigned, db_role

LEMMA MoveKeepsRoles ==
    ASSUME JobsInv, RolesInv, NEW t \in Threads, Moves(t),
           UsersAreRows', RolesOnlyAssigned(t), RoleIsAuthored(t)',
           \A x \in taps' \ taps : TapIsAuthored(x)'
    PROVE  RolesInv'
<1>1. /\ \A u \in Threads \ {t} : job'[u] = job[u]
      /\ accepted' = accepted /\ job[t] # None /\ IsJob(job[t])
  BY MoveKeepsJobs DEF Moves
<1>2. ASSUME NEW s \in Threads \ {t}, At(s, "patch", "assign")
      PROVE  RoleIsAuthored(s)'
  <2>1. PICK u, n, v, w, now : /\ u = job[s].work.uid /\ n = job[s].req
                               /\ v = job[s].seen.before /\ w = job[t].work
                               /\ now = db_role(u)'
    OBVIOUS
  <2>2. job'[s] = job[s] /\ job[s] # None
    BY <1>1, <1>2 DEF At
  <2>3. /\ Explained(accepted, v, db_role(u), u, n)
        /\ u \notin DOMAIN users => v = None
    BY <1>2, <2>1 DEF RolesInv, RoleIsAuthored
  <2>4. /\ job[t].req \in DOMAIN accepted /\ n \in DOMAIN accepted
        /\ accepted[job[t].req].work = w
    BY <1>1, <2>1, <2>2 DEF JobsInv, JobsAreAccepted, IsJob
  <2>5. /\ job[t].req \notin accepted[n].after
        /\ n \notin accepted[job[t].req].after
    BY <1>1, <2>1, <2>2, <2>4 DEF JobsInv, ServedAreNotOver
  <2>6. /\ Explained(accepted, v, now, u, n)
        /\ u \notin DOMAIN users' => v = None
    <3>1. CASE now = db_role(u) /\ (u \in DOMAIN users => u \in DOMAIN users')
      BY <2>3, <3>1
    <3>2. CASE /\ w.op \in Assigns /\ w.uid = u /\ now \in RolesGiven(w)
               /\ u \in DOMAIN users => u \in DOMAIN users'
      <4>1. Authored(accepted, now, u, n)
        BY <2>4, <2>5, <3>2 DEF Authored
      <4>2. QED
        BY <2>3, <3>2, <4>1 DEF Explained
    <3>3. CASE w.op = "register" /\ u \notin DOMAIN users /\ now = "customer"
      <4>1. Joined(accepted, n)
        BY <2>4, <2>5, <3>3 DEF Joined
      <4>2. QED
        BY <2>3, <3>3, <4>1 DEF Explained
    <3>4. QED
      BY <2>1, <3>1, <3>2, <3>3 DEF RolesOnlyAssigned
  <2>7. QED
    BY <1>1, <2>1, <2>2, <2>6 DEF RoleIsAuthored
<1>3. ASSUME NEW s \in Threads
      PROVE  RoleIsAuthored(s)'
  BY <1>1, <1>2 DEF RoleIsAuthored, At
<1>4. \A x \in taps' : TapIsAuthored(x)'
  BY <1>1 DEF RolesInv, TapIsAuthored
<1>5. DOMAIN SeedUsers \subseteq DOMAIN users'
  BY DEF RolesInv, RolesOnlyAssigned
<1>6. QED
  BY <1>3, <1>4, <1>5 DEF RolesInv

LEMMA AssignKeepsRoles ==
    ASSUME JobsInv, RolesInv, NEW t \in Threads, RoleAssign(t)
    PROVE  /\ UsersAreRows' /\ DOMAIN users' = DOMAIN users
           /\ RolesOnlyAssigned(t) /\ RoleIsAuthored(t)'
<1> PICK w, r, k, c, v, b : /\ w = job[t].work /\ r = job[t].req /\ k = job[t].seen.next
                            /\ c = Sets(w)[k].column /\ v = Sets(w)[k].value
                            /\ b = job[t].seen.before
  OBVIOUS
<1>1. /\ \E op \in Assigns : At(t, op, "assign")
      /\ k \in DOMAIN Sets(w)
      /\ users' = Written(w.uid, c, v)
      /\ Goto(t, "assign", [before |-> b, next |-> k + 1])
      /\ accepted' = accepted
  BY DEF RoleAssign, history
<1>2. /\ UserRows(users') /\ DOMAIN users' = DOMAIN users
      /\ \A u \in DOMAIN users :
            \/ users'[u].role = users[u].role
            \/ u = w.uid /\ c # "email" /\ users'[u].role = v
  <2>1. UserRows(users) /\ users' = Written(w.uid, c, v)
    BY <1>1 DEF RolesInv, UsersAreRows
  <2>2. Updates(w.uid, c, v)
    BY <2>1, WrittenIs, Zenon
  <2>3. QED
    BY <2>2 DEF Updates
<1>3. c # "email" => v \in RolesGiven(w)
  BY <1>1 DEF RolesGiven
<1>4. w.op \in Assigns /\ job[t] # None /\ JobsAreAccepted
  BY <1>1 DEF At, JobsInv
<1>5. \A u : \/ db_role(u)' = db_role(u)
             \/ u = w.uid /\ db_role(u)' \in RolesGiven(w)
  BY <1>2, <1>3 DEF db_role
<1>6. RolesOnlyAssigned(t)
  BY <1>2, <1>4, <1>5 DEF RolesOnlyAssigned
<1>7. RoleIsAuthored(t)'
  <2>1. PICK seen : seen = [before |-> b, next |-> k + 1]
    OBVIOUS
  <2>2. /\ job'[t].seen = seen /\ job'[t].work = w /\ job'[t].req = r
    BY <1>1, <1>4, <2>1, GotoSets
  <2>3. job'[t].seen.before = b
    BY <2>1, <2>2
  <2>4. SUFFICES ASSUME w.op = "patch"
                 PROVE  /\ Explained(accepted, b, db_role(w.uid)', w.uid, r)
                        /\ w.uid \notin DOMAIN users' => b = None
    BY <1>1, <2>2, <2>3 DEF RoleIsAuthored, At
  <2>5. /\ Explained(accepted, b, db_role(w.uid), w.uid, r)
        /\ w.uid \notin DOMAIN users => b = None
    BY <1>1, <2>4 DEF RolesInv, RoleIsAuthored, At
  <2>6. r \in DOMAIN accepted /\ accepted[r].work = w
    BY <1>4 DEF JobsAreAccepted, IsJob
  <2>7. CASE db_role(w.uid)' = db_role(w.uid)
    BY <1>2, <2>5, <2>7
  <2>8. CASE db_role(w.uid)' \in RolesGiven(w)
    <3>1. Authored(accepted, db_role(w.uid)', w.uid, r)
      BY <1>4, <2>6, <2>8 DEF Authored
    <3>2. QED
      BY <1>2, <2>5, <3>1 DEF Explained
  <2>9. QED
    BY <1>5, <2>7, <2>8
<1>8. QED
  BY <1>2, <1>6, <1>7 DEF UsersAreRows

LEMMA PatchKeepsRoles ==
    ASSUME JobsInv, RolesInv, NEW t \in Threads, Role(t)
    PROVE  RolesInv'
<1> PICK w, r : w = job[t].work /\ r = job[t].req
  OBVIOUS
<1>1. Moves(t)
  BY ServesMoves DEF Serves
<1>2. /\ JobsAreAccepted /\ job[t] # None /\ accepted' = accepted
      /\ UsersAreRows /\ w \in Work
  BY <1>1 DEF Moves, JobsInv, JobsAreAccepted, IsJob, RolesInv
<1>3. CASE RoleRead(t)
  <2>1. /\ users' = users /\ taps' = taps
        /\ Done(t) \/ Goto(t, "assign", [before |-> db_role(w.caller), next |-> 1])
    BY <1>3 DEF RoleRead, tables
  <2>2. RoleIsAuthored(t)'
    <3>1. CASE Done(t)
      BY <1>2, <3>1, DoneIs DEF RoleIsAuthored, At
    <3>2. CASE Goto(t, "assign", [before |-> db_role(w.caller), next |-> 1])
      <4>1. PICK seen : seen = [before |-> db_role(w.caller), next |-> 1]
        OBVIOUS
      <4>2. job'[t].seen = seen /\ job'[t].work = w
        BY <1>2, <3>2, <4>1, GotoSets
      <4>3. job'[t].seen.before = db_role(w.caller)
        BY <4>1, <4>2
      <4>4. w.op = "patch" => w.uid = w.caller
        BY <1>2, WorkAssumption
      <4>5. w.uid \notin DOMAIN users => db_role(w.uid) = None
        BY DEF db_role
      <4>6. QED
        BY <2>1, <4>2, <4>3, <4>4, <4>5 DEF RoleIsAuthored, At, Explained, db_role
    <3>3. QED
      BY <2>1, <3>1, <3>2
  <2>3. QED
    BY <1>1, <1>2, <2>1, <2>2, RolesStay, MoveKeepsRoles DEF UsersAreRows
<1>4. CASE RoleAssign(t)
  <2>1. taps' = taps
    BY <1>4 DEF RoleAssign
  <2>2. QED
    BY <1>1, <1>4, <2>1, AssignKeepsRoles, MoveKeepsRoles
<1>5. CASE PatchReport(t) \/ SetRoleReport(t)
  <2>1. Done(t) /\ users' = users
    BY <1>5 DEF PatchReport, SetRoleReport, tables
  <2>2. job'[t] = None
    BY <1>2, <2>1, DoneIs
  <2>3. RoleIsAuthored(t)'
    BY <2>2 DEF RoleIsAuthored, At
  <2>4. \A x \in taps' \ taps : TapIsAuthored(x)'
    <3>1. CASE PatchReport(t)
      <4>1. PICK x, v, now : /\ x = [req |-> r, work |-> w, seen |-> v, now |-> now]
                             /\ v = job[t].seen.before /\ now = db_role(w.uid)
        OBVIOUS
      <4>2. taps' = taps \cup {x} /\ At(t, "patch", "assign")
        BY <3>1, <4>1 DEF PatchReport, Emit
      <4>3. Explained(accepted, v, now, w.uid, r)
        BY <4>1, <4>2 DEF RolesInv, RoleIsAuthored
      <4>4. x.req = r /\ x.work = w /\ x.seen = v /\ x.now = now
        BY <4>1
      <4>5. QED
        BY <1>2, <4>2, <4>3, <4>4 DEF TapIsAuthored
    <3>2. CASE SetRoleReport(t)
      BY <3>2 DEF SetRoleReport, Emit, At, TapIsAuthored
    <3>3. QED
      BY <1>5, <3>1, <3>2
  <2>5. QED
    BY <1>1, <1>2, <2>1, <2>3, <2>4, RolesStay, MoveKeepsRoles DEF UsersAreRows
<1>6. QED
  BY <1>3, <1>4, <1>5 DEF Role

LEMMA ServingKeepsRoles ==
    ASSUME JobsInv, AccountsInv, RolesInv, NEW t \in Threads, Serves(t)
    PROVE  RolesInv'
<1>1. CASE Role(t)
  BY <1>1, PatchKeepsRoles
<1>2. CASE ~Role(t)
  <2>1. Moves(t)
    BY ServesMoves
  <2>2. job[t].work.op # "patch"
    BY <1>2 DEF Serves, At, AtLogin, Redeem, RedeemRead, RedeemDebit, RedeemCredit,
       RedeemReport, Coupon, CouponCount, CouponInsert, CouponReport, Register,
       RegisterCheck, RegisterUser, RegisterWallet, RegisterReferral, ChangeEmail,
       Referral, ReferralRead, ReferralWrite, Guess, GuessRead, GuessWrite, GuessScan,
       GuessReport, Login, LoginQuery, LoginAccept, LoginRefuse, LoginCount, LoginReport
  <2>3. UsersAreRows' /\ RolesOnlyAssigned(t)
    <3>1. CASE users' = users
      BY <3>1, RolesStay DEF RolesInv, UsersAreRows
    <3>2. CASE ChangeEmail(t)
      <4>1. PICK a, e : users' = Written(a, "email", e)
        BY <3>2 DEF ChangeEmail
      <4>2. /\ UserRows(users') /\ DOMAIN users' = DOMAIN users
            /\ \A u \in DOMAIN users : users'[u].role = users[u].role
        BY <4>1, WrittenIs DEF RolesInv, UsersAreRows, Updates
      <4>3. \A u : db_role(u)' = db_role(u)
        BY <4>2 DEF db_role
      <4>4. QED
        BY <4>2, <4>3 DEF UsersAreRows, RolesOnlyAssigned
    <3>3. CASE RegisterUser(t)
      <4>1. PICK n \in Nat : DOMAIN users = 1..n
        BY DEF AccountsInv, UsersAreNumbered
      <4>2. Max(DOMAIN users \cup {0}) + 1 = n + 1 /\ n + 1 \notin DOMAIN users
        BY <4>1, MaxOfInterval
      <4> DEFINE row == [email |-> job[t].work.email, role |-> "customer"]
      <4>3. users' = Put(users, n + 1, row)
        BY <3>3, <4>2 DEF RegisterUser
      <4>4. row = [email |-> row.email, role |-> row.role]
        OBVIOUS
      <4> HIDE DEF row
      <4>5. /\ DOMAIN users' = DOMAIN users \cup {n + 1} /\ users'[n + 1] = row
            /\ \A u \in DOMAIN users : users'[u] = users[u]
            /\ users' = [u \in DOMAIN users' |-> users'[u]]
        BY <4>2, <4>3 DEF Put
      <4>6. UserRows(users')
        BY <4>4, <4>5 DEF UserRows, RolesInv, UsersAreRows
      <4>7. row.role = "customer" /\ job[t].work.op = "register"
        BY <3>3 DEF row, RegisterUser, At
      <4>8. \A u : \/ db_role(u)' = db_role(u) /\ (u \in DOMAIN users => u \in DOMAIN users')
                   \/ u \notin DOMAIN users /\ db_role(u)' = "customer"
        BY <4>2, <4>5, <4>7 DEF db_role
      <4>9. QED
        BY <4>6, <4>7, <4>8 DEF UsersAreRows, RolesOnlyAssigned
    <3>4. users' = users \/ ChangeEmail(t) \/ RegisterUser(t)
      BY <1>2 DEF Serves, tables, Redeem, RedeemRead, RedeemDebit, RedeemCredit,
         RedeemReport, Coupon, CouponCount, CouponInsert, CouponReport, Register,
         RegisterCheck, RegisterWallet, RegisterReferral, Referral, ReferralRead,
         ReferralWrite, Guess, GuessRead, GuessWrite, GuessScan, GuessReport, Login,
         LoginQuery, LoginAccept, LoginRefuse, LoginCount, LoginReport
    <3>5. QED
      BY <3>1, <3>2, <3>3, <3>4
  <2>4. job'[t] # None => job'[t].work = job[t].work
    BY <2>1, MoveKeepsJobs
  <2>5. RoleIsAuthored(t)'
    BY <2>2, <2>4 DEF RoleIsAuthored, At
  <2>6. \A x \in taps' \ taps : TapIsAuthored(x)'
    BY <2>1, <2>2 DEF Moves, Emit, TapIsAuthored
  <2>7. QED
    BY <2>1, <2>3, <2>5, <2>6, MoveKeepsRoles
<1>3. QED
  BY <1>1, <1>2

LEMMA RolesInvHolds == Spec => []RolesInv
<1>1. Init => RolesInv
  BY StorefrontAssumption
     DEF Init, RolesInv, UsersAreRows, UserRows, RoleIsAuthored, At
<1>2. JobsInv /\ AccountsInv /\ RolesInv /\ [Next]_vars => RolesInv'
  <2> SUFFICES ASSUME JobsInv, AccountsInv, RolesInv, [Next]_vars
               PROVE  RolesInv'
    OBVIOUS
  <2>1. ASSUME taps' \subseteq taps, users' = users,
               \A n \in DOMAIN accepted : n \in DOMAIN accepted' /\ accepted'[n] = accepted[n],
               \A t \in Threads : \/ job'[t] = job[t]
                                  \/ job'[t] # None => job'[t].step = "start"
        PROVE  RolesInv'
    <3>1. \A b, r, u : \A n \in DOMAIN accepted :
             Explained(accepted, b, r, u, n) => Explained(accepted', b, r, u, n)
      <4>1. \A r, u : \A n \in DOMAIN accepted :
               Authored(accepted, r, u, n) => Authored(accepted', r, u, n)
        BY <2>1 DEF Authored
      <4>2. \A n \in DOMAIN accepted : Joined(accepted, n) => Joined(accepted', n)
        BY <2>1 DEF Joined
      <4>3. QED
        BY <4>1, <4>2 DEF Explained
    <3>2. ASSUME NEW t \in Threads
          PROVE  RoleIsAuthored(t)'
      <4>1. CASE job'[t] = job[t]
        <5>1. job[t] # None => job[t].req \in DOMAIN accepted
          BY DEF JobsInv, JobsAreAccepted, IsJob
        <5>2. RoleIsAuthored(t)
          BY DEF RolesInv
        <5>3. QED
          BY <2>1, <3>1, <4>1, <5>1, <5>2 DEF RoleIsAuthored, At, db_role
      <4>2. CASE job'[t] # None => job'[t].step = "start"
        BY <4>2 DEF RoleIsAuthored, At
      <4>3. QED
        BY <2>1, <4>1, <4>2
    <3>3. ASSUME NEW x \in taps'
          PROVE  TapIsAuthored(x)'
      <4>1. TapIsAuthored(x) /\ x.req \in DOMAIN accepted
        BY <2>1 DEF RolesInv, JobsInv, TapsAreOfAccepted
      <4>2. QED
        BY <2>1, <3>1, <4>1 DEF TapIsAuthored
    <3>4. QED
      BY <2>1, <3>2, <3>3 DEF RolesInv, UsersAreRows
  <2>2. CASE \E t \in Threads : Serves(t)
    BY <2>2, ServingKeepsRoles
  <2>3. CASE ~\E t \in Threads : Serves(t)
    BY <2>1, <2>3, OtherSteps DEF tables
  <2>4. QED
    BY <2>2, <2>3
<1>3. QED
  BY <1>1, <1>2, JobsHold, AccountsInvHolds, PTL DEF Spec

(* A role that differs before and after an account update has an author: the *)
(* update itself or an assignment served together with it; or the account was*)
(* registered meanwhile. For any threads, requests and restarts, and whoever *)
(* the callers claim to be (account, PATCH).                                 *)
THEOREM EscalationsHold == Spec => []EscalationsHaveAuthors
<1>1. JobsInv /\ RolesInv => EscalationsHaveAuthors
  <2> SUFFICES ASSUME JobsInv, RolesInv, NEW x \in taps, x.work.op = "patch", x.seen # x.now
               PROVE  \/ \E n \in Accepted("patch") \cup Accepted("set_role") :
                            /\ x.now \in RolesGiven(accepted[n].work)
                            /\ accepted[n].work.uid = x.work.uid
                            /\ n = x.req \/ Overlap(n, x.req)
                      \/ /\ x.seen = None /\ x.now = "customer"
                         /\ \E n \in Accepted("register") : Overlap(n, x.req)
    BY DEF EscalationsHaveAuthors
  <2>1. Explained(accepted, x.seen, x.now, x.work.uid, x.req)
    BY DEF RolesInv, TapIsAuthored
  <2>2. CASE Authored(accepted, x.now, x.work.uid, x.req)
    BY <2>2 DEF Authored, Accepted, Assigns, Overlap
  <2>3. CASE x.seen = None /\ x.now = "customer" /\ Joined(accepted, x.req)
    BY <2>3 DEF Joined, Accepted, Overlap
  <2>4. QED
    BY <2>1, <2>2, <2>3 DEF Explained
<1>2. QED
  BY <1>1, JobsHold, RolesInvHolds, PTL

-----------------------------------------------------------------------------
(* Gift cards.                                                               *)

Redeems(t, c) == job[t] # None /\ job[t].work.op = "redeem" /\ job[t].work.code = c
Spending(t, c) == Redeems(t, c) /\ job[t].step \in {"debit", "credit", "report"}
Paid(t, c) == Redeems(t, c) /\ job[t].step \in {"credit", "report"}

(* The requests known to have debited card c.                                *)
Debits(c) ==
    {n \in DOMAIN accepted : \/ \E t \in Threads : Paid(t, c) /\ job[t].req = n
                             \/ \E x \in RedeemsOf(c) : x.req = n}

(* Whoever has found a balance has found the seeded one, and no request that *)
(* was over by then had debited the card.                                    *)
SpenderIsSound(t) ==
    \A c \in DOMAIN SeedCards : Spending(t, c) =>
        /\ job[t].seen = SeedCards[c] /\ SeedCards[c] > 0
        /\ \A m \in Debits(c) : m \notin accepted[job[t].req].after

RedeemIsSound(x) ==
    \A c \in DOMAIN SeedCards : x.work.op = "redeem" /\ x.work.code = c =>
        /\ x.seen = SeedCards[c] /\ SeedCards[c] > 0
        /\ \A m \in Debits(c) : m \notin accepted[x.req].after
        /\ \A t \in Threads : job[t] # None => job[t].req # x.req

(* One debit takes the balance, a second one overdraws the card.             *)
CardIsSound(c) ==
    /\ cards[c] \in Int
    /\ cards[c] = SeedCards[c] \/ cards[c] <= 0
    /\ \A m \in Debits(c) : cards[c] <= 0
    /\ \A m, n \in Debits(c) : m # n => cards[c] < 0
    /\ crashes = 0 =>
          /\ cards[c] # SeedCards[c] => \E m \in Debits(c) : TRUE
          /\ cards[c] < 0 => \E m, n \in Debits(c) : m # n

SpendsInv ==
    /\ cards = [c \in DOMAIN SeedCards |-> cards[c]]
    /\ \A c \in DOMAIN SeedCards : CardIsSound(c)
    /\ \A t \in Threads : SpenderIsSound(t)
    /\ \A x \in taps : RedeemIsSound(x)

(* A step makes a debit known, or not, of its own request only.              *)
LEMMA OwnDebits ==
    ASSUME JobsInv, NEW t \in Threads, Moves(t), NEW c
    PROVE  /\ \A n \in DOMAIN accepted \ {job[t].req} :
                 n \in Debits(c)' <=> n \in Debits(c)
           /\ job[t].req \in Debits(c)' <=>
                 Paid(t, c)' \/ \E x \in RedeemsOf(c)' : x.req = job[t].req
           /\ job[t].req \in Debits(c) <=>
                 Paid(t, c) \/ \E x \in RedeemsOf(c) : x.req = job[t].req
           /\ Debits(c) \subseteq DOMAIN accepted /\ Debits(c)' \subseteq DOMAIN accepted
<1>1. /\ \A u \in Threads \ {t} : job'[u] = job[u]
      /\ accepted' = accepted /\ job[t] # None /\ job[t].req \in DOMAIN accepted
      /\ job'[t] # None => job'[t].req = job[t].req
      /\ \A u \in Threads \ {t} : job[u] # None => job[u].req # job[t].req
  BY MoveKeepsJobs DEF Moves, IsJob, JobsInv, JobsAreAccepted
<1>2. \A x : x \in taps' => x \in taps \/ x.req = job[t].req
  BY DEF Moves, Emit
<1>3. \A x : x \in taps => x \in taps'
  BY DEF Moves, Emit
<1>4. \A u \in Threads \ {t} : Paid(u, c)' <=> Paid(u, c)
  BY <1>1 DEF Paid, Redeems
<1>5. \A n \in DOMAIN accepted \ {job[t].req} :
         (\E x \in RedeemsOf(c)' : x.req = n) <=> (\E x \in RedeemsOf(c) : x.req = n)
  BY <1>2, <1>3 DEF RedeemsOf
<1>6. ASSUME NEW n \in DOMAIN accepted \ {job[t].req}
      PROVE  n \in Debits(c)' <=> n \in Debits(c)
  <2>1. (\E u \in Threads : Paid(u, c)' /\ job'[u].req = n)
           <=> (\E u \in Threads : Paid(u, c) /\ job[u].req = n)
    BY <1>1, <1>4 DEF Paid, Redeems
  <2>2. QED
    BY <1>1, <1>5, <2>1 DEF Debits
<1>7. job[t].req \in Debits(c) <=>
         Paid(t, c) \/ \E x \in RedeemsOf(c) : x.req = job[t].req
  BY <1>1 DEF Debits, Paid, Redeems
<1>8. job[t].req \in Debits(c)' <=>
         Paid(t, c)' \/ \E x \in RedeemsOf(c)' : x.req = job[t].req
  BY <1>1 DEF Debits, Paid, Redeems
<1>9. Debits(c) \subseteq DOMAIN accepted /\ Debits(c)' \subseteq DOMAIN accepted
  BY <1>1 DEF Debits
<1>10. QED
  BY <1>6, <1>7, <1>8, <1>9

LEMMA SameDebits ==
    ASSUME JobsInv, NEW t \in Threads, Moves(t), NEW c,
           job[t].req \in Debits(c)' <=> job[t].req \in Debits(c)
    PROVE  Debits(c)' = Debits(c)
<1> PICK n, was, is : n = job[t].req /\ was = Debits(c) /\ is = Debits(c)'
  OBVIOUS
<1>1. /\ \A m \in DOMAIN accepted \ {n} : m \in is <=> m \in was
      /\ was \subseteq DOMAIN accepted /\ is \subseteq DOMAIN accepted
      /\ n \in is <=> n \in was
  BY OwnDebits
<1>2. \A m : m \in is <=> m \in was
  BY <1>1
<1>3. is = was
  BY <1>2
<1>4. QED
  BY <1>3

(* A step that debits no card.                                               *)
LEMMA MoveKeepsSpends ==
    ASSUME JobsInv, SpendsInv, NEW t \in Threads, Moves(t), cards' = cards,
           \A c \in DOMAIN SeedCards : Debits(c)' = Debits(c),
           SpenderIsSound(t)', \A x \in taps' \ taps : RedeemIsSound(x)'
    PROVE  SpendsInv'
<1>1. /\ \A u \in Threads \ {t} : job'[u] = job[u]
      /\ accepted' = accepted /\ crashes' = crashes
      /\ job'[t] # None => job[t] # None /\ job'[t].req = job[t].req
  BY MoveKeepsJobs DEF Moves
<1>2. ASSUME NEW u \in Threads \ {t}
      PROVE  SpenderIsSound(u)'
  <2>1. SpenderIsSound(u) /\ job'[u] = job[u]
    BY <1>1 DEF SpendsInv
  <2> SUFFICES ASSUME NEW c \in DOMAIN SeedCards, Spending(u, c)'
               PROVE  /\ job'[u].seen = SeedCards[c] /\ SeedCards[c] > 0
                      /\ \A m \in Debits(c)' : m \notin accepted'[job'[u].req].after
    BY DEF SpenderIsSound
  <2>2. Spending(u, c)
    BY <2>1 DEF Spending, Redeems
  <2>3. QED
    BY <1>1, <2>1, <2>2 DEF SpenderIsSound
<1>3. ASSUME NEW x \in taps
      PROVE  RedeemIsSound(x)'
  <2>1. RedeemIsSound(x)
    BY DEF SpendsInv
  <2> SUFFICES ASSUME NEW c \in DOMAIN SeedCards, x.work.op = "redeem", x.work.code = c
               PROVE  /\ x.seen = SeedCards[c] /\ SeedCards[c] > 0
                      /\ \A m \in Debits(c)' : m \notin accepted'[x.req].after
                      /\ \A u \in Threads : job'[u] # None => job'[u].req # x.req
    BY DEF RedeemIsSound
  <2>2. QED
    BY <1>1, <2>1 DEF RedeemIsSound
<1>4. \A c \in DOMAIN SeedCards : CardIsSound(c)'
  BY <1>1 DEF SpendsInv, CardIsSound
<1>5. QED
  BY <1>2, <1>3, <1>4 DEF SpendsInv

LEMMA DebitKeepsSpends ==
    ASSUME JobsInv, SpendsInv, NEW t \in Threads, RedeemDebit(t)
    PROVE  SpendsInv'
<1> PICK c, n, v : c = job[t].work.code /\ n = job[t].req /\ v = job[t].seen
  OBVIOUS
<1>1. Moves(t)
  BY ServesMoves DEF Serves, Redeem
<1>2. /\ JobsAreAccepted /\ job[t] # None /\ n \in DOMAIN accepted
      /\ c \in DOMAIN SeedCards /\ Redeems(t, c) /\ job[t].step = "debit"
  BY WorkAssumption DEF RedeemDebit, At, JobsInv, JobsAreAccepted, IsJob, Redeems
<1>3. /\ cards' = [cards EXCEPT ![c] = @ - v] /\ Goto(t, "credit", v)
      /\ taps' = taps /\ accepted' = accepted /\ crashes' = crashes
  BY DEF RedeemDebit, history
<1>4. /\ job'[t].step = "credit" /\ job'[t].seen = v
      /\ job'[t].work = job[t].work /\ job'[t].req = n
  BY <1>2, <1>3, GotoSets
<1>5. /\ \A u \in Threads \ {t} : job'[u] = job[u]
      /\ job'[t] # None
      /\ \A u \in Threads \ {t} : job[u] # None => job[u].req # n
  <2>1. \A u \in Threads \ {t} : job'[u] = job[u]
    BY <1>1, MoveKeepsJobs
  <2>2. job'[t] = [work |-> job[t].work, req |-> n, step |-> "credit", seen |-> v]
    <3>1. job' = [job EXCEPT ![t].step = "credit", ![t].seen = v]
      BY <1>3 DEF Goto
    <3>2. /\ job'[t] = [work |-> job[t].work, req |-> job[t].req,
                        step |-> "credit", seen |-> v]
          /\ \A u \in Threads \ {t} : job'[u] = job[u]
          /\ job' = [u \in Threads |-> job'[u]]
          /\ job'[t].work = job[t].work /\ job'[t].req = job[t].req
          /\ job'[t].step = "credit" /\ job'[t].seen = v
      BY <1>2, <1>3, GotoIs
    <3>3. QED
      BY <3>2
  <2>3. v = SeedCards[c] /\ SeedCards[c] \in Nat
    BY <1>2, StorefrontAssumption DEF SpendsInv, SpenderIsSound, Spending
  <2>4. n \in Nat /\ job[t].work \in Work
    BY <1>2 DEF JobsInv, AcceptedAreNumbered, JobsAreAccepted, IsJob
  <2>5. job'[t] \in [work : Work, req : Nat, step : Steps, seen : Nat]
    BY <2>2, <2>3, <2>4 DEF Steps
  <2>6. QED
    BY <1>2, <2>1, <2>5, WorkAssumption DEF JobsAreAccepted
<1>6. /\ v = SeedCards[c] /\ SeedCards[c] > 0 /\ SeedCards[c] \in Nat
      /\ \A m \in Debits(c) : m \notin accepted[n].after
  BY <1>2, StorefrontAssumption DEF SpendsInv, SpenderIsSound, Spending
<1>7. /\ n \notin Debits(c)
      /\ Debits(c)' = Debits(c) \cup {n}
      /\ \A d \in DOMAIN SeedCards \ {c} : Debits(d)' = Debits(d)
  <2>1. ~\E x \in RedeemsOf(c) : x.req = n
    BY <1>2 DEF RedeemsOf, SpendsInv, RedeemIsSound
  <2>2. ~Paid(t, c) /\ Paid(t, c)'
    BY <1>2, <1>4, <1>5 DEF Paid, Redeems
  <2>3. \A d \in DOMAIN SeedCards \ {c} : ~Paid(t, d) /\ ~Paid(t, d)'
    BY <1>2, <1>4 DEF Paid, Redeems
  <2>4. \A d : RedeemsOf(d)' = RedeemsOf(d)
    BY <1>3 DEF RedeemsOf
  <2>5. \A d : /\ \A m \in DOMAIN accepted \ {n} : m \in Debits(d)' <=> m \in Debits(d)
               /\ n \in Debits(d)' <=> Paid(t, d)' \/ \E x \in RedeemsOf(d)' : x.req = n
               /\ n \in Debits(d) <=> Paid(t, d) \/ \E x \in RedeemsOf(d) : x.req = n
               /\ Debits(d) \subseteq DOMAIN accepted /\ Debits(d)' \subseteq DOMAIN accepted
    BY <1>1, OwnDebits
  <2>6. n \notin Debits(c) /\ n \in Debits(c)'
    BY <2>1, <2>2, <2>5
  <2>7. Debits(c)' = Debits(c) \cup {n}
    BY <1>2, <2>5, <2>6
  <2>8. ASSUME NEW d \in DOMAIN SeedCards \ {c}
        PROVE  Debits(d)' = Debits(d)
    <3>1. n \in Debits(d)' <=> n \in Debits(d)
      BY <2>3, <2>4, <2>5
    <3>2. QED
      BY <1>1, <3>1, SameDebits
  <2>9. QED
    BY <2>6, <2>7, <2>8
<1>8. /\ cards' = [d \in DOMAIN SeedCards |-> cards'[d]]
      /\ cards'[c] = cards[c] - v
      /\ \A d \in DOMAIN SeedCards \ {c} : cards'[d] = cards[d]
  BY <1>2, <1>3 DEF SpendsInv
<1>9. \A m \in DOMAIN accepted : n \notin accepted[m].after
  BY <1>2 DEF JobsInv, ServedAreNotOver
<1>10. ASSUME NEW d \in DOMAIN SeedCards
       PROVE  CardIsSound(d)'
  <2>1. CardIsSound(d)
    BY DEF SpendsInv
  <2>2. CASE d # c
    BY <1>3, <1>7, <1>8, <2>1, <2>2 DEF CardIsSound
  <2>3. CASE d = c
    <3>1. /\ cards[c] \in Int /\ cards'[c] = cards[c] - SeedCards[c]
          /\ cards[c] = SeedCards[c] \/ cards[c] <= 0
          /\ \A m \in Debits(c) : cards[c] <= 0
      BY <1>6, <1>8, <2>1, <2>3 DEF CardIsSound
    <3>2. /\ cards'[c] \in Int /\ cards'[c] <= 0
          /\ (\E m \in Debits(c) : TRUE) => cards'[c] < 0
      BY <1>6, <3>1
    <3>3. \A m, k \in Debits(c)' : m # k => cards'[c] < 0
      BY <1>7, <3>2
    <3>4. ASSUME crashes = 0, cards'[c] < 0
          PROVE  \E m, k \in Debits(c)' : m # k
      <4>1. cards[c] # SeedCards[c]
        BY <1>6, <3>1, <3>4
      <4>2. PICK m \in Debits(c) : TRUE
        BY <2>1, <2>3, <3>4, <4>1 DEF CardIsSound
      <4>3. QED
        BY <1>7, <4>2
    <3>5. \E m \in Debits(c)' : TRUE
      BY <1>7
    <3>6. CardIsSound(c)'
      BY <1>3, <3>2, <3>3, <3>4, <3>5 DEF CardIsSound
    <3>7. QED
      BY <2>3, <3>6
  <2>4. QED
    BY <2>2, <2>3
<1>11. ASSUME NEW d \in DOMAIN SeedCards, NEW m \in Debits(d)',
              NEW k \in DOMAIN accepted,
              \A l \in Debits(d) : l \notin accepted[k].after
       PROVE  m \notin accepted[k].after
  BY <1>7, <1>9, <1>11
<1>12. ASSUME NEW u \in Threads
       PROVE  SpenderIsSound(u)'
  <2> SUFFICES ASSUME NEW d \in DOMAIN SeedCards, Spending(u, d)'
               PROVE  /\ job'[u].seen = SeedCards[d] /\ SeedCards[d] > 0
                      /\ \A m \in Debits(d)' : m \notin accepted'[job'[u].req].after
    BY DEF SpenderIsSound
  <2>1. SpenderIsSound(u) /\ SpenderIsSound(t)
    BY DEF SpendsInv
  <2>2. /\ job'[u].req = job[u].req /\ job'[u].seen = job[u].seen
        /\ Spending(u, d)
    BY <1>2, <1>4, <1>5 DEF Spending, Redeems
  <2>3. job[u].req \in DOMAIN accepted
    BY <2>2 DEF Spending, Redeems, JobsInv, JobsAreAccepted, IsJob
  <2>4. QED
    BY <1>3, <1>11, <2>1, <2>2, <2>3 DEF SpenderIsSound
<1>13. ASSUME NEW x \in taps'
       PROVE  RedeemIsSound(x)'
  <2>1. RedeemIsSound(x) /\ x.req \in DOMAIN accepted
    BY <1>3 DEF SpendsInv, JobsInv, TapsAreOfAccepted
  <2> SUFFICES ASSUME NEW d \in DOMAIN SeedCards, x.work.op = "redeem", x.work.code = d
               PROVE  /\ x.seen = SeedCards[d] /\ SeedCards[d] > 0
                      /\ \A m \in Debits(d)' : m \notin accepted'[x.req].after
                      /\ \A u \in Threads : job'[u] # None => job'[u].req # x.req
    BY DEF RedeemIsSound
  <2>2. /\ x.seen = SeedCards[d] /\ SeedCards[d] > 0
        /\ \A m \in Debits(d) : m \notin accepted[x.req].after
        /\ \A u \in Threads : job[u] # None => job[u].req # x.req
    BY <2>1 DEF RedeemIsSound
  <2>3. \A u \in Threads : job'[u] # None => job'[u].req # x.req
    BY <1>2, <1>4, <1>5, <2>2
  <2>4. QED
    BY <1>3, <1>11, <2>1, <2>2, <2>3
<1>14. QED
  BY <1>8, <1>10, <1>12, <1>13 DEF SpendsInv

LEMMA RedeemKeepsSpends ==
    ASSUME JobsInv, SpendsInv, NEW t \in Threads, Redeem(t)
    PROVE  SpendsInv'
<1> PICK c, n, v : c = job[t].work.code /\ n = job[t].req /\ v = job[t].seen
  OBVIOUS
<1>1. Moves(t)
  BY ServesMoves DEF Serves
<1>2. /\ JobsAreAccepted /\ job[t] # None /\ n \in DOMAIN accepted
      /\ c \in DOMAIN SeedCards /\ Redeems(t, c) /\ accepted' = accepted
      /\ SpenderIsSound(t)
  BY <1>1, WorkAssumption DEF Redeem, RedeemRead, RedeemDebit, RedeemCredit, RedeemReport,
     At, JobsInv, JobsAreAccepted, IsJob, Redeems, Moves, SpendsInv
<1>3. \A d : /\ \A m \in DOMAIN accepted \ {n} : m \in Debits(d)' <=> m \in Debits(d)
             /\ n \in Debits(d)' <=> Paid(t, d)' \/ \E x \in RedeemsOf(d)' : x.req = n
             /\ n \in Debits(d) <=> Paid(t, d) \/ \E x \in RedeemsOf(d) : x.req = n
             /\ Debits(d) \subseteq DOMAIN accepted /\ Debits(d)' \subseteq DOMAIN accepted
  BY <1>1, OwnDebits
<1>4. CASE RedeemRead(t)
  <2>1. /\ cards' = cards /\ taps' = taps /\ job[t].step = "start"
        /\ \/ Done(t)
           \/ cards[c] > 0 /\ Goto(t, "debit", cards[c])
    <3>1. CardIsSound(c)
      BY <1>2 DEF SpendsInv
    <3>2. cards[c] <= 0 \/ cards[c] > 0
      BY <3>1 DEF CardIsSound
    <3>3. QED
      BY <1>4, <3>2 DEF RedeemRead, At, tables
  <2>2. \/ job'[t] = None
        \/ /\ cards[c] > 0 /\ job'[t].step = "debit" /\ job'[t].seen = cards[c]
           /\ job'[t].work = job[t].work /\ job'[t].req = n
    <3>1. CASE Done(t)
      BY <1>2, <3>1, DoneIs
    <3>2. CASE cards[c] > 0 /\ Goto(t, "debit", cards[c])
      <4>1. /\ job'[t].step = "debit" /\ job'[t].seen = cards[c]
            /\ job'[t].work = job[t].work /\ job'[t].req = job[t].req
        BY <1>2, <3>2, GotoSets
      <4>2. QED
        BY <3>2, <4>1
    <3>3. QED
      BY <2>1, <3>1, <3>2
  <2>3. \A d : ~Paid(t, d) /\ ~Paid(t, d)' /\ RedeemsOf(d)' = RedeemsOf(d)
    BY <2>1, <2>2 DEF Paid, Redeems, RedeemsOf
  <2>4. ASSUME NEW d
        PROVE  Debits(d)' = Debits(d)
    <3>1. n \in Debits(d)' <=> n \in Debits(d)
      BY <1>3, <2>3
    <3>2. QED
      BY <1>1, <3>1, SameDebits
  <2>5. SpenderIsSound(t)'
    <3> SUFFICES ASSUME NEW d \in DOMAIN SeedCards, Spending(t, d)'
                 PROVE  /\ job'[t].seen = SeedCards[d] /\ SeedCards[d] > 0
                        /\ \A m \in Debits(d)' : m \notin accepted'[job'[t].req].after
      BY DEF SpenderIsSound
    <3>1. /\ d = c /\ cards[c] > 0 /\ job'[t].seen = cards[c]
      BY <2>2 DEF Spending, Redeems
    <3>2. CardIsSound(c)
      BY <1>2 DEF SpendsInv
    <3>3. cards[c] = SeedCards[c] /\ \A m \in Debits(c) : FALSE
      BY <3>1, <3>2 DEF CardIsSound
    <3>4. QED
      BY <2>4, <3>1, <3>3
  <2>6. QED
    BY <1>1, <2>1, <2>4, <2>5, MoveKeepsSpends
<1>5. CASE RedeemDebit(t)
  BY <1>5, DebitKeepsSpends
<1>6. CASE RedeemCredit(t)
  <2>1. /\ cards' = cards /\ taps' = taps /\ job[t].step = "credit"
        /\ Goto(t, "report", v)
    BY <1>6 DEF RedeemCredit, At
  <2>2. /\ job'[t].step = "report" /\ job'[t].seen = v
        /\ job'[t].work = job[t].work /\ job'[t].req = n
    BY <1>2, <2>1, GotoSets
  <2>3. \A d : Paid(t, d)' => Paid(t, d)
    BY <1>2, <2>1, <2>2 DEF Paid, Redeems
  <2>4. Paid(t, c) /\ \A d : Paid(t, d) => d = c
    BY <1>2, <2>1 DEF Paid, Redeems
  <2>5. job'[t] # None
    <3>1. v = SeedCards[c] /\ SeedCards[c] \in Nat
      BY <1>2, <2>1, StorefrontAssumption DEF SpenderIsSound, Spending
    <3>2. n \in Nat /\ job[t].work \in Work
      BY <1>2 DEF JobsInv, AcceptedAreNumbered, JobsAreAccepted, IsJob
    <3>3. /\ job'[t] = [work |-> job[t].work, req |-> job[t].req,
                        step |-> "report", seen |-> v]
          /\ \A u \in Threads \ {t} : job'[u] = job[u]
          /\ job' = [u \in Threads |-> job'[u]]
          /\ job'[t].work = job[t].work /\ job'[t].req = job[t].req
          /\ job'[t].step = "report" /\ job'[t].seen = v
      BY <1>2, <2>1, GotoIs
    <3>4. job'[t] \in [work : Work, req : Nat, step : Steps, seen : Nat]
      BY <3>1, <3>2, <3>3 DEF Steps
    <3>5. QED
      BY <3>4, WorkAssumption
  <2>6. Paid(t, c)'
    BY <1>2, <2>2, <2>5 DEF Paid, Redeems
  <2>7. ASSUME NEW d
        PROVE  Debits(d)' = Debits(d)
    <3>1. RedeemsOf(d)' = RedeemsOf(d)
      BY <2>1 DEF RedeemsOf
    <3>2. Paid(t, d)' <=> Paid(t, d)
      BY <2>3, <2>4, <2>6
    <3>3. n \in Debits(d)' <=> n \in Debits(d)
      BY <1>3, <3>1, <3>2
    <3>4. QED
      BY <1>1, <3>3, SameDebits
  <2>8. SpenderIsSound(t)'
    BY <1>2, <2>1, <2>2, <2>7 DEF SpenderIsSound, Spending, Redeems
  <2>9. QED
    BY <1>1, <2>1, <2>7, <2>8, MoveKeepsSpends
<1>7. CASE RedeemReport(t)
  <2> PICK x : x = [req |-> n, work |-> job[t].work, seen |-> v, now |-> cards[c]]
    OBVIOUS
  <2>1. /\ cards' = cards /\ taps' = taps \cup {x} /\ job[t].step = "report" /\ Done(t)
    BY <1>7 DEF RedeemReport, Emit, At, tables
  <2>2. x.req = n /\ x.work = job[t].work /\ x.seen = v
    OBVIOUS
  <2>3. /\ job'[t] = None /\ \A u \in Threads \ {t} : job'[u] = job[u]
    BY <1>2, <2>1, DoneIs
  <2>4. x \in RedeemsOf(c)' /\ \A d : x \in RedeemsOf(d)' => d = c
    BY <1>2, <2>1, <2>2 DEF RedeemsOf, Redeems
  <2>5. Paid(t, c) /\ \A d : ~Paid(t, d)'
    BY <1>2, <2>1, <2>3 DEF Paid, Redeems
  <2>6. ASSUME NEW d
        PROVE  Debits(d)' = Debits(d)
    <3>1. CASE d = c
      <4>1. n \in Debits(c)' /\ n \in Debits(c)
        BY <1>3, <2>2, <2>4, <2>5
      <4>2. QED
        BY <1>1, <3>1, <4>1, SameDebits
    <3>2. CASE d # c
      <4>1. RedeemsOf(d)' = RedeemsOf(d) /\ ~Paid(t, d) /\ ~Paid(t, d)'
        BY <1>2, <2>1, <2>4, <2>5, <3>2 DEF RedeemsOf, Paid, Redeems
      <4>2. n \in Debits(d)' <=> n \in Debits(d)
        BY <1>3, <4>1
      <4>3. QED
        BY <1>1, <4>2, SameDebits
    <3>3. QED
      BY <3>1, <3>2
  <2>7. SpenderIsSound(t)'
    BY <2>3 DEF SpenderIsSound, Spending, Redeems
  <2>8. RedeemIsSound(x)'
    <3>1. Spending(t, c)
      BY <1>2, <2>1 DEF Spending
    <3>2. /\ v = SeedCards[c] /\ SeedCards[c] > 0
          /\ \A m \in Debits(c) : m \notin accepted[n].after
      BY <1>2, <3>1 DEF SpenderIsSound
    <3>3. \A u \in Threads : job'[u] # None => job'[u].req # n
      BY <1>2, <2>3 DEF JobsInv, JobsAreAccepted
    <3>4. x.work.code = c
      BY <2>2
    <3>5. QED
      BY <1>2, <2>2, <2>6, <3>2, <3>3, <3>4 DEF RedeemIsSound
  <2>9. QED
    BY <1>1, <2>1, <2>6, <2>7, <2>8, MoveKeepsSpends
<1>8. QED
  BY <1>4, <1>5, <1>6, <1>7 DEF Redeem

LEMMA ServingKeepsSpends ==
    ASSUME JobsInv, SpendsInv, NEW t \in Threads, Serves(t)
    PROVE  SpendsInv'
<1>1. CASE Redeem(t)
  BY <1>1, RedeemKeepsSpends
<1>2. CASE ~Redeem(t)
  <2>1. Moves(t)
    BY ServesMoves
  <2>2. job[t].work.op # "redeem"
    BY <1>2 DEF Serves, At, AtLogin, Coupon, CouponCount, CouponInsert, CouponReport,
       Register, RegisterCheck, RegisterUser, RegisterWallet, RegisterReferral, ChangeEmail,
       Referral, ReferralRead, ReferralWrite, Role, RoleRead, RoleAssign, PatchReport,
       SetRoleReport, Assigns, Guess, GuessRead, GuessWrite, GuessScan, GuessReport, Login,
       LoginQuery, LoginAccept, LoginRefuse, LoginCount, LoginReport
  <2>3. cards' = cards
    BY <1>2 DEF Serves, tables, Coupon, CouponCount, CouponInsert, CouponReport,
       Register, RegisterCheck, RegisterUser, RegisterWallet, RegisterReferral, ChangeEmail,
       Referral, ReferralRead, ReferralWrite, Role, RoleRead, RoleAssign, PatchReport,
       SetRoleReport, Guess, GuessRead, GuessWrite, GuessScan, GuessReport, Login,
       LoginQuery, LoginAccept, LoginRefuse, LoginCount, LoginReport
  <2>4. job'[t] # None => job'[t].work = job[t].work
    BY <2>1, MoveKeepsJobs
  <2>5. \A x \in taps' \ taps : x.work.op # "redeem"
    BY <2>1, <2>2 DEF Moves, Emit
  <2>6. ASSUME NEW d
        PROVE  Debits(d)' = Debits(d)
    <3>1. ~Paid(t, d) /\ ~Paid(t, d)'
      BY <2>2, <2>4 DEF Paid, Redeems
    <3>2. RedeemsOf(d)' = RedeemsOf(d)
      BY <2>1, <2>5 DEF RedeemsOf, Moves, Emit
    <3>3. PICK n : n = job[t].req
      OBVIOUS
    <3>4. /\ \A m \in DOMAIN accepted \ {n} : m \in Debits(d)' <=> m \in Debits(d)
          /\ n \in Debits(d)' <=> Paid(t, d)' \/ \E x \in RedeemsOf(d)' : x.req = n
          /\ n \in Debits(d) <=> Paid(t, d) \/ \E x \in RedeemsOf(d) : x.req = n
          /\ Debits(d) \subseteq DOMAIN accepted /\ Debits(d)' \subseteq DOMAIN accepted
      BY <2>1, <3>3, OwnDebits
    <3>5. n \in Debits(d)' <=> n \in Debits(d)
      BY <3>1, <3>2, <3>4
    <3>6. QED
      BY <2>1, <3>3, <3>5, SameDebits
  <2>7. SpenderIsSound(t)'
    BY <2>2, <2>4 DEF SpenderIsSound, Spending, Redeems
  <2>8. \A x \in taps' \ taps : RedeemIsSound(x)'
    BY <2>5 DEF RedeemIsSound
  <2>9. QED
    BY <2>1, <2>3, <2>6, <2>7, <2>8, MoveKeepsSpends
<1>3. QED
  BY <1>1, <1>2

LEMMA SpendsInvHolds == Spec => []SpendsInv
<1>1. Init => SpendsInv
  <2> SUFFICES ASSUME Init
               PROVE  SpendsInv
    OBVIOUS
  <2>1. /\ cards = SeedCards /\ taps = {} /\ \A t \in Threads : job[t] = None
        /\ DOMAIN accepted = {}
    BY DEF Init
  <2>2. \A c \in DOMAIN SeedCards : Debits(c) = {} /\ CardIsSound(c)
    BY <2>1, StorefrontAssumption DEF Debits, CardIsSound
  <2>3. \A t \in Threads : SpenderIsSound(t)
    BY <2>1 DEF SpenderIsSound, Spending, Redeems
  <2>4. cards = [c \in DOMAIN SeedCards |-> cards[c]]
    BY <2>1, StorefrontAssumption
  <2>5. QED
    BY <2>1, <2>2, <2>3, <2>4 DEF SpendsInv
<1>2. JobsInv /\ AccountsInv /\ SpendsInv /\ [Next]_vars => SpendsInv'
  <2> SUFFICES ASSUME JobsInv, AccountsInv, SpendsInv, [Next]_vars
               PROVE  SpendsInv'
    OBVIOUS
  <2>1. CASE \E t \in Threads : Serves(t)
    BY <2>1, ServingKeepsSpends
  <2>2. CASE ~\E t \in Threads : Serves(t)
    <3>1. /\ taps' \subseteq taps /\ cards' = cards
          /\ \A n \in DOMAIN accepted : n \in DOMAIN accepted' /\ accepted'[n] = accepted[n]
          /\ \A t \in Threads : \/ job'[t] = job[t]
                                \/ job'[t] # None => job'[t].step = "start"
      BY <2>2, OtherSteps DEF tables
    <3>2. \A c : Debits(c)' \subseteq Debits(c)
      <4> SUFFICES ASSUME NEW c, NEW n \in Debits(c)'
                   PROVE  n \in Debits(c)
        OBVIOUS
      <4>1. CASE \E t \in Threads : Paid(t, c)' /\ job'[t].req = n
        <5>1. PICK t \in Threads : Paid(t, c)' /\ job'[t].req = n
          BY <4>1
        <5>2. Paid(t, c) /\ job[t].req = n
          BY <3>1, <5>1 DEF Paid, Redeems
        <5>3. n \in DOMAIN accepted
          BY <5>2 DEF Paid, Redeems, JobsInv, JobsAreAccepted, IsJob
        <5>4. QED
          BY <5>2, <5>3 DEF Debits
      <4>2. CASE \E x \in RedeemsOf(c)' : x.req = n
        BY <3>1, <4>2 DEF Debits, RedeemsOf, JobsInv, TapsAreOfAccepted
      <4>3. QED
        BY <4>1, <4>2 DEF Debits
    <3>3. crashes' # 0 \/ (crashes' = crashes /\ \A c : Debits(c)' = Debits(c))
      <4>1. CASE Crash
        <5>1. crashes' = crashes + 1 /\ crashes \in Nat
          BY <4>1 DEF Crash, AccountsInv
        <5>2. QED
          BY <5>1
      <4>2. CASE UNCHANGED vars
        BY <4>2 DEF vars, Debits, Paid, Redeems, RedeemsOf
      <4>3. CASE \E t \in Threads, w \in Work : Accept(t, w)
        <5>1. PICK t \in Threads, w \in Work : Accept(t, w)
          BY <4>3
        <5>2. /\ job[t] = None /\ taps' = taps /\ crashes' = crashes
              /\ \A u \in Threads \ {t} : job'[u] = job[u]
          BY <5>1, AcceptIs DEF Accept
        <5>3. \A c : Debits(c) \subseteq Debits(c)'
          BY <3>1, <5>2 DEF Debits, Paid, Redeems, RedeemsOf
        <5>4. ASSUME NEW c
              PROVE  Debits(c)' = Debits(c)
          <6>1. PICK was, is : was = Debits(c) /\ is = Debits(c)'
            OBVIOUS
          <6>2. was \subseteq is /\ is \subseteq was
            BY <3>2, <5>3, <6>1
          <6>3. QED
            BY <6>1, <6>2
        <5>5. QED
          BY <5>2, <5>4
      <4>4. QED
        BY <2>2, <4>1, <4>2, <4>3, NextIs
    <3>4. \A c \in DOMAIN SeedCards : CardIsSound(c)'
      BY <3>1, <3>2, <3>3 DEF SpendsInv, CardIsSound
    <3>5. ASSUME NEW t \in Threads
          PROVE  SpenderIsSound(t)'
      <4> SUFFICES ASSUME NEW c \in DOMAIN SeedCards, Spending(t, c)'
                   PROVE  /\ job'[t].seen = SeedCards[c] /\ SeedCards[c] > 0
                          /\ \A m \in Debits(c)' : m \notin accepted'[job'[t].req].after
        BY DEF SpenderIsSound
      <4>1. job'[t] = job[t] /\ Spending(t, c)
        BY <3>1 DEF Spending, Redeems
      <4>2. job[t].req \in DOMAIN accepted
        BY <4>1 DEF Spending, Redeems, JobsInv, JobsAreAccepted, IsJob
      <4>3. SpenderIsSound(t)
        BY DEF SpendsInv
      <4>4. QED
        BY <3>1, <3>2, <4>1, <4>2, <4>3 DEF SpenderIsSound
    <3>6. ASSUME NEW x \in taps'
          PROVE  RedeemIsSound(x)'
      <4>1. RedeemIsSound(x) /\ x.req \in DOMAIN accepted
        BY <3>1 DEF SpendsInv, JobsInv, TapsAreOfAccepted
      <4>2. ASSUME x.work.op = "redeem", x.work.code \in DOMAIN SeedCards
            PROVE  \A t \in Threads : job'[t] # None => job'[t].req # x.req
        <5>1. \A t \in Threads : job[t] # None => job[t].req # x.req
          BY <4>1, <4>2 DEF RedeemIsSound
        <5>2. CASE \E t \in Threads, w \in Work : Accept(t, w)
          <6>1. PICK t \in Threads, w \in Work : Accept(t, w)
            BY <5>2
          <6>2. PICK n \in Nat \ {0} :
                   /\ DOMAIN accepted = 1..(n - 1) /\ DOMAIN accepted' = 1..n
                   /\ job'[t] = [work |-> w, req |-> n, step |-> "start", seen |-> None]
                   /\ \A u \in Threads \ {t} : job'[u] = job[u]
            BY <6>1, AcceptIs
          <6>3. job'[t].req = n /\ x.req # n
            BY <4>1, <6>2
          <6>4. QED
            BY <5>1, <6>2, <6>3
        <5>3. CASE Crash
          BY <5>3 DEF Crash
        <5>4. CASE UNCHANGED vars
          BY <5>1, <5>4 DEF vars
        <5>5. QED
          BY <2>2, <5>2, <5>3, <5>4, NextIs
      <4>3. QED
        BY <3>1, <3>2, <4>1, <4>2 DEF RedeemIsSound
    <3>7. QED
      BY <3>1, <3>4, <3>5, <3>6 DEF SpendsInv
  <2>3. QED
    BY <2>1, <2>2
<1>3. QED
  BY <1>1, <1>2, JobsHold, AccountsInvHolds, PTL DEF Spec

(* Two redemptions report the balance of one card only if they were served   *)
(* together and overdrew it, and without a restart every overdrawn card is   *)
(* reported so, for any cards, threads and requests (wallet_redeem).         *)
THEOREM DoubleSpendsHold == Spec => []DoubleSpendsAreVisible
<1>1. JobsInv /\ SpendsInv => DoubleSpendsAreVisible
  <2> SUFFICES ASSUME JobsInv, SpendsInv, NEW c \in DOMAIN SeedCards
               PROVE  /\ \A x, y \in RedeemsOf(c) : x.req # y.req /\ x.seen = y.seen =>
                            cards[c] < 0 /\ Overlap(x.req, y.req)
                      /\ cards[c] < 0 /\ crashes = 0 /\ (\A t \in Threads : job[t] = None) =>
                            \E x, y \in RedeemsOf(c) : x.req # y.req /\ x.seen = y.seen
    BY DEF SpendsInv, DoubleSpendsAreVisible
  <2>1. CardIsSound(c)
    BY DEF SpendsInv
  <2>2. \A x \in RedeemsOf(c) : /\ x.req \in Debits(c) /\ x.seen = SeedCards[c]
                                /\ \A m \in Debits(c) : m \notin accepted[x.req].after
    <3> SUFFICES ASSUME NEW x \in RedeemsOf(c)
                 PROVE  /\ x.req \in Debits(c) /\ x.seen = SeedCards[c]
                        /\ \A m \in Debits(c) : m \notin accepted[x.req].after
      OBVIOUS
    <3>1. x \in taps /\ x.work.op = "redeem" /\ x.work.code = c
      BY DEF RedeemsOf
    <3>2. RedeemIsSound(x) /\ x.req \in DOMAIN accepted
      BY <3>1 DEF SpendsInv, JobsInv, TapsAreOfAccepted
    <3>3. QED
      BY <3>1, <3>2 DEF RedeemIsSound, Debits
  <2>3. ASSUME cards[c] < 0, crashes = 0, \A t \in Threads : job[t] = None
        PROVE  \E x, y \in RedeemsOf(c) : x.req # y.req /\ x.seen = y.seen
    <3>1. PICK m, n \in Debits(c) : m # n
      BY <2>1, <2>3 DEF CardIsSound
    <3>2. \A k \in Debits(c) : \E x \in RedeemsOf(c) : x.req = k
      BY <2>3 DEF Debits, Paid, Redeems
    <3>3. QED
      BY <2>2, <3>1, <3>2
  <2>4. QED
    BY <2>1, <2>2, <2>3 DEF CardIsSound, Overlap
<1>2. QED
  BY <1>1, JobsHold, SpendsInvHolds, PTL

-----------------------------------------------------------------------------
(* A client that waits for each answer.                                      *)

Balanced ==
    OneAtATime => \A c \in DOMAIN SeedCards :
        /\ cards[c] >= 0
        /\ \A t \in Threads : Redeems(t, c) /\ job[t].step = "debit" =>
              cards[c] = SeedCards[c]

Distinct(f) == \A u, v \in DOMAIN f : f[u].email = f[v].email => u = v

NobodyReaddresses == \A n \in DOMAIN accepted : ~Readdresses(accepted[n].work)

Addressed ==
    OneAtATime /\ NobodyReaddresses =>
        /\ Distinct(users)
        /\ \A t \in Threads :
              At(t, "register", "insert") =>
                  \A u \in DOMAIN users : users[u].email # job[t].work.email

SerialInv == Balanced /\ Addressed

LEMMA OneIsServed ==
    ASSUME JobsInv, OneAtATime, NEW s \in Threads, NEW t \in Threads,
           job[s] # None, job[t] # None
    PROVE  s = t
<1> SUFFICES ASSUME s # t
             PROVE  FALSE
  OBVIOUS
<1> PICK m, n : m = job[s].req /\ n = job[t].req
  OBVIOUS
<1>1. PICK k \in Nat : DOMAIN accepted = 1..k
  BY DEF JobsInv, AcceptedAreNumbered
<1>2. m \in 1..k /\ n \in 1..k /\ m # n
  BY <1>1 DEF JobsInv, JobsAreAccepted, IsJob
<1>3. m \notin accepted[n].after /\ n \notin accepted[m].after
  BY <1>1, <1>2 DEF JobsInv, ServedAreNotOver
<1>4. accepted[n].after = 1..(n - 1) /\ accepted[m].after = 1..(m - 1)
  BY <1>1, <1>2 DEF OneAtATime
<1>5. m \in 1..(n - 1) \/ n \in 1..(m - 1)
  BY <1>2
<1>6. QED
  BY <1>3, <1>4, <1>5

LEMMA ServingKeepsBalanced ==
    ASSUME JobsInv, SpendsInv, Balanced, NEW t \in Threads, Serves(t)
    PROVE  Balanced'
<1>1. /\ Moves(t) /\ accepted' = accepted /\ job[t] # None
      /\ \A u \in Threads \ {t} : job'[u] = job[u]
      /\ job'[t] # None => job'[t].work = job[t].work
  BY ServesMoves, MoveKeepsJobs DEF Moves
<1> SUFFICES ASSUME OneAtATime, NEW c \in DOMAIN SeedCards
             PROVE  /\ cards'[c] >= 0
                    /\ \A u \in Threads : Redeems(u, c)' /\ job'[u].step = "debit" =>
                          cards'[c] = SeedCards[c]
  BY <1>1 DEF Balanced, OneAtATime
<1>2. \A u \in Threads \ {t} : job'[u] = None
  BY <1>1, OneIsServed
<1>3. /\ cards[c] >= 0 /\ CardIsSound(c)
      /\ Redeems(t, c) /\ job[t].step = "debit" => cards[c] = SeedCards[c]
  BY DEF Balanced, SpendsInv
<1>4. CASE RedeemRead(t)
  <2>1. cards' = cards
    BY <1>4 DEF RedeemRead, tables
  <2>2. ASSUME Redeems(t, c)'
        PROVE  cards[c] = SeedCards[c]
    <3>1. job[t].work.code = c /\ ~Done(t)
      BY <1>1, <2>2, DoneIs DEF Redeems, JobsInv
    <3>2. ~(cards[c] <= 0)
      BY <1>4, <3>1 DEF RedeemRead
    <3>3. QED
      BY <1>3, <3>2 DEF CardIsSound
  <2>3. QED
    BY <1>2, <1>3, <2>1, <2>2 DEF Redeems
<1>5. CASE RedeemDebit(t)
  <2>1. /\ cards' = [cards EXCEPT ![job[t].work.code] = @ - job[t].seen]
        /\ Goto(t, "credit", job[t].seen) /\ Redeems(t, job[t].work.code)
        /\ job[t].step = "debit"
    BY <1>5 DEF RedeemDebit, At, Redeems
  <2>2. job'[t].step = "credit"
    BY <1>1, <2>1, GotoSets DEF JobsInv
  <2>3. cards'[c] >= 0
    <3>1. CASE job[t].work.code = c
      <4>1. cards[c] = SeedCards[c] /\ job[t].seen = SeedCards[c]
        BY <1>3, <2>1, <3>1 DEF SpendsInv, SpenderIsSound, Spending
      <4>2. cards'[c] = cards[c] - job[t].seen
        BY <2>1, <3>1 DEF SpendsInv
      <4>3. SeedCards[c] \in Nat
        BY StorefrontAssumption
      <4>4. QED
        BY <4>1, <4>2, <4>3
    <3>2. CASE job[t].work.code # c
      <4>1. cards'[c] = cards[c]
        BY <2>1, <3>2 DEF SpendsInv
      <4>2. QED
        BY <1>3, <4>1
    <3>3. QED
      BY <3>1, <3>2
  <2>4. QED
    BY <1>2, <2>2, <2>3 DEF Redeems
<1>6. CASE RedeemCredit(t) \/ RedeemReport(t)
  <2>1. /\ cards' = cards
        /\ Goto(t, "report", job[t].seen) \/ Done(t)
    BY <1>6 DEF RedeemCredit, RedeemReport, tables
  <2>2. job'[t] = None \/ job'[t].step = "report"
    <3>1. CASE Done(t)
      BY <1>1, <3>1, DoneIs DEF JobsInv
    <3>2. CASE Goto(t, "report", job[t].seen)
      BY <1>1, <3>2, GotoSets DEF JobsInv
    <3>3. QED
      BY <2>1, <3>1, <3>2
  <2>3. QED
    BY <1>2, <1>3, <2>1, <2>2 DEF Redeems
<1>7. CASE ~Redeem(t)
  <2>1. job[t].work.op # "redeem"
    BY <1>7 DEF Serves, At, AtLogin, Coupon, CouponCount, CouponInsert, CouponReport,
       Register, RegisterCheck, RegisterUser, RegisterWallet, RegisterReferral, ChangeEmail,
       Referral, ReferralRead, ReferralWrite, Role, RoleRead, RoleAssign, PatchReport,
       SetRoleReport, Assigns, Guess, GuessRead, GuessWrite, GuessScan, GuessReport, Login,
       LoginQuery, LoginAccept, LoginRefuse, LoginCount, LoginReport
  <2>2. cards' = cards
    BY <1>7 DEF Serves, tables, Coupon, CouponCount, CouponInsert, CouponReport,
       Register, RegisterCheck, RegisterUser, RegisterWallet, RegisterReferral, ChangeEmail,
       Referral, ReferralRead, ReferralWrite, Role, RoleRead, RoleAssign, PatchReport,
       SetRoleReport, Guess, GuessRead, GuessWrite, GuessScan, GuessReport, Login,
       LoginQuery, LoginAccept, LoginRefuse, LoginCount, LoginReport
  <2>3. QED
    BY <1>1, <1>2, <1>3, <2>1, <2>2 DEF Redeems
<1>8. QED
  BY <1>4, <1>5, <1>6, <1>7 DEF Redeem

LEMMA ServingKeepsAddressed ==
    ASSUME JobsInv, AccountsInv, RolesInv, Addressed, NEW t \in Threads, Serves(t)
    PROVE  Addressed'
<1>1. /\ Moves(t) /\ accepted' = accepted /\ job[t] # None
      /\ \A u \in Threads \ {t} : job'[u] = job[u]
      /\ job'[t] # None => job'[t].work = job[t].work
      /\ IsJob(job[t])
  BY ServesMoves, MoveKeepsJobs DEF Moves
<1> SUFFICES ASSUME OneAtATime, NobodyReaddresses
             PROVE  /\ Distinct(users')
                    /\ \A s \in Threads : At(s, "register", "insert")' =>
                          \A u \in DOMAIN users' : users'[u].email # job'[s].work.email
  BY <1>1 DEF Addressed, OneAtATime, NobodyReaddresses
<1>2. \A u \in Threads \ {t} : job'[u] = None
  BY <1>1, OneIsServed
<1>3. /\ Distinct(users)
      /\ At(t, "register", "insert") =>
            \A u \in DOMAIN users : users[u].email # job[t].work.email
  BY DEF Addressed
<1>4. ~Readdresses(job[t].work) /\ ~ChangeEmail(t)
  BY <1>1 DEF ChangeEmail, At, IsJob, NobodyReaddresses, Readdresses
<1>5. CASE RegisterCheck(t)
  <2>1. users' = users
    BY <1>5 DEF RegisterCheck, tables
  <2>2. ASSUME At(t, "register", "insert")'
        PROVE  \A u \in DOMAIN users : users[u].email # job'[t].work.email
    <3>1. job'[t].work = job[t].work /\ ~Done(t)
      BY <1>1, <2>2, DoneIs DEF At, JobsInv
    <3>2. ~Taken(job[t].work.email)
      BY <1>5, <3>1 DEF RegisterCheck
    <3>3. QED
      BY <3>1, <3>2 DEF Taken
  <2>3. QED
    BY <1>2, <1>3, <2>1, <2>2 DEF At
<1>6. CASE RegisterUser(t)
  <2>1. PICK n \in Nat : DOMAIN users = 1..n
    BY DEF AccountsInv, UsersAreNumbered
  <2>2. Max(DOMAIN users \cup {0}) + 1 = n + 1 /\ n + 1 \notin DOMAIN users
    BY <2>1, MaxOfInterval
  <2> DEFINE row == [email |-> job[t].work.email, role |-> "customer"]
  <2>3. /\ users' = Put(users, n + 1, row) /\ Goto(t, "wallet", n + 1)
        /\ At(t, "register", "insert")
    BY <1>6, <2>2 DEF RegisterUser
  <2>4. row.email = job[t].work.email
    OBVIOUS
  <2> HIDE DEF row
  <2>5. /\ DOMAIN users' = DOMAIN users \cup {n + 1} /\ users'[n + 1] = row
        /\ \A u \in DOMAIN users : users'[u] = users[u]
    BY <2>2, <2>3 DEF Put
  <2>6. Distinct(users')
    BY <1>3, <2>3, <2>4, <2>5 DEF Distinct
  <2>7. job'[t].step = "wallet"
    BY <1>1, <2>3, GotoSets DEF JobsInv
  <2>8. QED
    BY <1>2, <2>6, <2>7 DEF At
<1>7. CASE RoleAssign(t)
  <2> PICK w, k, c, v : /\ w = job[t].work /\ k = job[t].seen.next
                        /\ c = Sets(w)[k].column /\ v = Sets(w)[k].value
    OBVIOUS
  <2>1. /\ w.op \in Assigns /\ k \in DOMAIN Sets(w)
        /\ users' = Written(w.uid, c, v)
    BY <1>7 DEF RoleAssign, At
  <2>2. c # "email"
    <3>1. CASE w.op = "patch"
      BY <1>4, <2>1, <3>1 DEF Sets, Readdresses
    <3>2. CASE w.op = "set_role"
      <4>1. PICK row : row = [column |-> "role", value |-> w.role]
        OBVIOUS
      <4>2. Sets(w) = <<row>> /\ row.column = "role"
        BY <3>2, <4>1 DEF Sets
      <4>3. QED
        BY <2>1, <4>2
    <3>3. QED
      BY <2>1, <3>1, <3>2 DEF Assigns
  <2>3. UserRows(users) /\ users' = Written(w.uid, c, v)
    BY <2>1 DEF RolesInv, UsersAreRows
  <2>4. Updates(w.uid, c, v)
    BY <2>3, WrittenIs, Zenon
  <2>5. /\ DOMAIN users' = DOMAIN users
        /\ \A u \in DOMAIN users : users'[u].email = users[u].email
    BY <2>2, <2>4 DEF Updates
  <2>6. Distinct(users')
    BY <1>3, <2>5 DEF Distinct
  <2>7. job[t].work.op # "register"
    BY <1>7 DEF RoleAssign, At, Assigns
  <2>8. QED
    BY <1>1, <1>2, <2>6, <2>7 DEF At
<1>8. CASE ~RegisterCheck(t) /\ ~RegisterUser(t) /\ ~RoleAssign(t)
  <2>1. users' = users
    BY <1>4, <1>8 DEF Serves, tables, Redeem, RedeemRead, RedeemDebit, RedeemCredit,
       RedeemReport, Coupon, CouponCount, CouponInsert, CouponReport, Register,
       RegisterWallet, RegisterReferral, Referral, ReferralRead, ReferralWrite, Role,
       RoleRead, PatchReport, SetRoleReport, Guess, GuessRead, GuessWrite, GuessScan,
       GuessReport, Login, LoginQuery, LoginAccept, LoginRefuse, LoginCount, LoginReport
  <2>2. job[t].work.op # "register" \/ RegisterWallet(t) \/ RegisterReferral(t)
    BY <1>4, <1>8 DEF Serves, At, AtLogin, Redeem, RedeemRead, RedeemDebit, RedeemCredit,
       RedeemReport, Coupon, CouponCount, CouponInsert, CouponReport, Register,
       Referral, ReferralRead, ReferralWrite, Role, Assigns,
       RoleRead, PatchReport, SetRoleReport, Guess, GuessRead, GuessWrite, GuessScan,
       GuessReport, Login, LoginQuery, LoginAccept, LoginRefuse, LoginCount, LoginReport
  <2>3. ~At(t, "register", "insert")'
    <3>1. CASE job[t].work.op # "register"
      BY <1>1, <3>1 DEF At
    <3>2. CASE RegisterWallet(t)
      <4>1. Goto(t, "referral", job[t].seen)
        BY <3>2 DEF RegisterWallet
      <4>2. job'[t].step = "referral"
        BY <1>1, <4>1, GotoSets DEF JobsInv
      <4>3. QED
        BY <4>2 DEF At
    <3>3. CASE RegisterReferral(t)
      <4>1. job'[t] = None
        BY <1>1, <3>3, DoneIs DEF RegisterReferral, JobsInv
      <4>2. QED
        BY <4>1 DEF At
    <3>4. QED
      BY <2>2, <3>1, <3>2, <3>3
  <2>4. QED
    BY <1>2, <1>3, <2>1, <2>3 DEF At
<1>9. QED
  BY <1>5, <1>6, <1>7, <1>8

(* For a client that waits for each answer no card is overdrawn, and no two  *)
(* accounts share an address unless somebody wrote theirs anew, by           *)
(* /account/email or with an email in a PATCH, whatever cards, accounts and  *)
(* requests there are (wallet_redeem, register).                             *)
THEOREM SerialShopHolds == Spec => []SerialShopIsSound
<1>1. Init => SerialInv
  <2> SUFFICES ASSUME Init
               PROVE  SerialInv
    OBVIOUS
  <2>1. users = SeedUsers /\ cards = SeedCards /\ \A t \in Threads : job[t] = None
    BY DEF Init
  <2>2. Balanced
    BY <2>1, StorefrontAssumption DEF Balanced, Redeems
  <2>3. Addressed
    BY <2>1, StorefrontAssumption DEF Addressed, Distinct, At
  <2>4. QED
    BY <2>2, <2>3 DEF SerialInv
<1>2. JobsInv /\ AccountsInv /\ RolesInv /\ SpendsInv /\ SerialInv /\ [Next]_vars => SerialInv'
  <2> SUFFICES ASSUME JobsInv, AccountsInv, RolesInv, SpendsInv, SerialInv, [Next]_vars
               PROVE  SerialInv'
    OBVIOUS
  <2>1. CASE \E t \in Threads : Serves(t)
    BY <2>1, ServingKeepsBalanced, ServingKeepsAddressed DEF SerialInv
  <2>2. CASE ~\E t \in Threads : Serves(t)
    <3>1. /\ users' = users /\ cards' = cards
          /\ \A n \in DOMAIN accepted : n \in DOMAIN accepted' /\ accepted'[n] = accepted[n]
          /\ \A t \in Threads : \/ job'[t] = job[t]
                                \/ job'[t] # None => job'[t].step = "start"
      BY <2>2, OtherSteps DEF tables
    <3>2. /\ OneAtATime' => OneAtATime
          /\ NobodyReaddresses' => NobodyReaddresses
      BY <3>1 DEF OneAtATime, NobodyReaddresses
    <3>3. Balanced'
      BY <3>1, <3>2 DEF SerialInv, Balanced, Redeems
    <3>4. Addressed'
      BY <3>1, <3>2 DEF SerialInv, Addressed, At
    <3>5. QED
      BY <3>3, <3>4 DEF SerialInv
  <2>3. QED
    BY <2>1, <2>2
<1>3. SpendsInv /\ SerialInv => SerialShopIsSound
  BY DEF SpendsInv, SerialInv, Balanced, Addressed, Distinct, NobodyReaddresses,
     SerialShopIsSound
<1>4. QED
  BY <1>1, <1>2, <1>3, JobsHold, AccountsInvHolds, RolesInvHolds, SpendsInvHolds, PTL
     DEF Spec

-----------------------------------------------------------------------------
(* What became of a login: refused and let in are the requests whose query   *)
(* has run, and a thread knows what its own has met.                         *)

LoginOps == {"login", "api_login"}

VerdictIsOf(t) ==
    job[t] # None =>
        /\ job[t].req \in refused =>
              job[t].work.op \in LoginOps /\ job[t].step \in {"refuse", "write", "report"}
        /\ job[t].req \in passed =>
              job[t].work.op \in LoginOps /\ job[t].step = "accept"
        /\ job[t].work.op \in LoginOps /\ job[t].step \in {"refuse", "write", "report"} =>
              job[t].req \in refused
        /\ job[t].work.op \in LoginOps /\ job[t].step = "accept" =>
              job[t].req \in passed

VerdictsInv ==
    /\ refused \cup passed \subseteq DOMAIN accepted
    /\ \A t \in Threads : VerdictIsOf(t)

LEMMA NoLogin ==
    ASSUME NEW t \in Threads, Serves(t), ~Login(t)
    PROVE  job[t].work.op \notin LoginOps /\ UNCHANGED outcomes
BY DEF Serves, LoginOps, history, At, Redeem, RedeemRead, RedeemDebit, RedeemCredit,
   RedeemReport, Coupon, CouponCount, CouponInsert, CouponReport, Register,
   RegisterCheck, RegisterUser, RegisterWallet, RegisterReferral, ChangeEmail, Referral,
   ReferralRead, ReferralWrite, Role, RoleRead, RoleAssign, PatchReport, SetRoleReport,
   Assigns, Guess, GuessRead, GuessWrite, GuessScan, GuessReport

LEMMA ServingKeepsVerdicts ==
    ASSUME JobsInv, VerdictsInv, NEW t \in Threads, Serves(t)
    PROVE  VerdictsInv'
<1>1. /\ Moves(t) /\ job[t] # None /\ JobsAreAccepted /\ IsJob(job[t])
      /\ \A u \in Threads \ {t} : job'[u] = job[u]
      /\ job'[t] # None => job'[t].work = job[t].work /\ job'[t].req = job[t].req
      /\ accepted' = accepted
  BY ServesMoves, MoveKeepsJobs DEF Moves, JobsInv
<1>2. VerdictIsOf(t)
  BY DEF VerdictsInv
<1>3. ASSUME UNCHANGED outcomes, VerdictIsOf(t)'
      PROVE  VerdictsInv'
  BY <1>1, <1>3 DEF outcomes, VerdictsInv, VerdictIsOf
<1>4. CASE LoginQuery(t)
  <2>1. /\ job[t].work.op \in LoginOps
        /\ \/ /\ passed' = passed \cup {job[t].req} /\ refused' = refused
              /\ Goto(t, "accept", None)
           \/ /\ refused' = refused \cup {job[t].req} /\ passed' = passed
              /\ Goto(t, "refuse", None)
        /\ job[t].step = "start"
    BY <1>4 DEF LoginQuery, AtLogin, At, LoginOps
  <2>2. job[t].req \notin refused \cup passed
    BY <1>1, <1>2, <2>1 DEF VerdictIsOf
  <2>3. refused' \cup passed' \subseteq DOMAIN accepted'
    BY <1>1, <2>1 DEF VerdictsInv, IsJob
  <2>4. \A u \in Threads \ {t} : VerdictIsOf(u)'
    <3>1. \A u \in Threads \ {t} : job[u] # None => job[u].req # job[t].req
      BY <1>1 DEF JobsAreAccepted
    <3>2. QED
      BY <1>1, <2>1, <3>1 DEF VerdictsInv, VerdictIsOf
  <2>5. VerdictIsOf(t)'
    <3>1. CASE Goto(t, "accept", None) /\ passed' = passed \cup {job[t].req}
               /\ refused' = refused
      <4>1. job'[t].step = "accept"
        BY <1>1, <3>1, GotoSets
      <4>2. QED
        BY <1>1, <2>1, <2>2, <3>1, <4>1 DEF VerdictIsOf
    <3>2. CASE Goto(t, "refuse", None) /\ refused' = refused \cup {job[t].req}
               /\ passed' = passed
      <4>1. job'[t].step = "refuse"
        BY <1>1, <3>2, GotoSets
      <4>2. QED
        BY <1>1, <2>1, <2>2, <3>2, <4>1 DEF VerdictIsOf
    <3>3. QED
      BY <2>1, <3>1, <3>2
  <2>6. QED
    BY <2>3, <2>4, <2>5 DEF VerdictsInv
<1>5. CASE LoginRefuse(t) \/ LoginCount(t)
  <2>1. PICK v : Goto(t, "write", v) \/ Goto(t, "report", v)
    BY <1>5 DEF LoginRefuse, LoginCount
  <2>2. job'[t].step \in {"write", "report"}
    BY <1>1, <2>1, GotoSets
  <2>3. /\ job[t].work.op \in LoginOps /\ job[t].step \in {"refuse", "write", "report"}
        /\ UNCHANGED outcomes
    BY <1>5 DEF LoginRefuse, LoginCount, AtLogin, At, LoginOps, history
  <2>4. VerdictIsOf(t)'
    BY <1>1, <1>2, <2>2, <2>3 DEF VerdictIsOf, outcomes
  <2>5. QED
    BY <1>3, <2>3, <2>4
<1>6. CASE LoginAccept(t) \/ LoginReport(t)
  <2>1. Done(t) /\ UNCHANGED outcomes
    BY <1>6 DEF LoginAccept, LoginReport, history
  <2>2. VerdictIsOf(t)'
    BY <1>1, <2>1, DoneIs DEF VerdictIsOf
  <2>3. QED
    BY <1>3, <2>1, <2>2
<1>7. CASE ~Login(t)
  <2>1. job[t].work.op \notin LoginOps /\ UNCHANGED outcomes
    BY <1>7, NoLogin
  <2>2. VerdictIsOf(t)'
    BY <1>1, <1>2, <2>1 DEF VerdictIsOf, outcomes
  <2>3. QED
    BY <1>3, <2>1, <2>2
<1>8. QED
  BY <1>4, <1>5, <1>6, <1>7 DEF Login

LEMMA VerdictsInvHolds == Spec => []VerdictsInv
<1>1. Init => VerdictsInv
  BY DEF Init, VerdictsInv, VerdictIsOf
<1>2. JobsInv /\ VerdictsInv /\ [Next]_vars => VerdictsInv'
  <2> SUFFICES ASSUME JobsInv, VerdictsInv, [Next]_vars
               PROVE  VerdictsInv'
    OBVIOUS
  <2>1. CASE \E t \in Threads : Serves(t)
    BY <2>1, ServingKeepsVerdicts
  <2>2. ASSUME NEW t \in Threads, NEW w \in Work, Accept(t, w)
        PROVE  VerdictsInv'
    <3>1. PICK n \in Nat \ {0} :
             /\ DOMAIN accepted = 1..(n - 1) /\ DOMAIN accepted' = 1..n
             /\ job'[t] = [work |-> w, req |-> n, step |-> "start", seen |-> None]
             /\ \A u \in Threads \ {t} : job'[u] = job[u]
      BY <2>2, AcceptIs
    <3>2. n \notin DOMAIN accepted /\ DOMAIN accepted \subseteq DOMAIN accepted'
      BY <3>1
    <3>3. UNCHANGED outcomes
      BY <2>2 DEF Accept
    <3>4. job'[t].req = n /\ job'[t].step = "start"
      BY <3>1
    <3>5. VerdictIsOf(t)'
      BY <3>2, <3>3, <3>4 DEF VerdictIsOf, VerdictsInv, outcomes
    <3>6. QED
      BY <3>1, <3>2, <3>3, <3>5 DEF VerdictIsOf, VerdictsInv, outcomes
  <2>3. CASE Crash
    BY <2>3 DEF Crash, VerdictsInv, VerdictIsOf, outcomes
  <2>4. CASE UNCHANGED vars
    BY <2>4 DEF vars, VerdictsInv, VerdictIsOf, outcomes
  <2>5. QED
    BY <2>1, <2>2, <2>3, <2>4, NextIs
<1>3. QED
  BY <1>1, <1>2, JobsHold, PTL DEF Spec

-----------------------------------------------------------------------------
(* Types.                                                                    *)

RolesAreKnown == \A u \in DOMAIN users : users[u].role \in Roles

MoneyIsNatural == (\A u \in DOMAIN wallet : wallet[u] \in Nat) /\ unmatched \in Nat

CountersAreNatural ==
    /\ \A k \in DOMAIN hits : hits[k] \in Nat \ {0}
    /\ \A e \in DOMAIN fails : fails[e] \in Nat
    /\ \A t \in Threads :
          At(t, "guess", "write") \/ AtLogin(t, "write") => job[t].seen \in Nat

TypesInv ==
    /\ RolesAreKnown /\ MoneyIsNatural /\ CountersAreNatural
    /\ crashes \in 0..MaxCrashes

LEMMA ServingKeepsRolesKnown ==
    ASSUME JobsInv, AccountsInv, RolesInv, RolesAreKnown, NEW t \in Threads, Serves(t)
    PROVE  RolesAreKnown'
<1>1. CASE RegisterUser(t)
  <2>1. PICK n \in Nat : DOMAIN users = 1..n
    BY DEF AccountsInv, UsersAreNumbered
  <2>2. Max(DOMAIN users \cup {0}) + 1 = n + 1 /\ n + 1 \notin DOMAIN users
    BY <2>1, MaxOfInterval
  <2> DEFINE row == [email |-> job[t].work.email, role |-> "customer"]
  <2>3. users' = Put(users, n + 1, row)
    BY <1>1, <2>2 DEF RegisterUser
  <2>4. row.role \in Roles
    BY DEF Roles
  <2> HIDE DEF row
  <2>5. /\ DOMAIN users' = DOMAIN users \cup {n + 1} /\ users'[n + 1] = row
        /\ \A u \in DOMAIN users : users'[u] = users[u]
    BY <2>2, <2>3 DEF Put
  <2>6. QED
    BY <2>4, <2>5 DEF RolesAreKnown
<1>2. CASE RoleAssign(t)
  <2> PICK w, k, c, v : /\ w = job[t].work /\ k = job[t].seen.next
                        /\ c = Sets(w)[k].column /\ v = Sets(w)[k].value
    OBVIOUS
  <2>1. /\ w.op \in Assigns /\ w \in Work /\ k \in DOMAIN Sets(w)
        /\ users' = Written(w.uid, c, v)
    BY <1>2 DEF RoleAssign, At, JobsInv, JobsAreAccepted, IsJob
  <2>2. UserRows(users) /\ users' = Written(w.uid, c, v)
    BY <2>1 DEF RolesInv, UsersAreRows
  <2>3. Updates(w.uid, c, v)
    BY <2>2, WrittenIs, Zenon
  <2>4. c # "email" => v \in RolesGiven(w)
    BY <2>1 DEF RolesGiven
  <2>5. c # "email" => v \in Roles
    BY <2>1, <2>4 DEF Roles
  <2>6. QED
    BY <2>3, <2>5 DEF RolesAreKnown, Updates
<1>3. CASE ChangeEmail(t)
  <2> PICK a, e : a = job[t].work.uid /\ e = job[t].work.email
    OBVIOUS
  <2>1. UserRows(users) /\ users' = Written(a, "email", e)
    BY <1>3 DEF ChangeEmail, RolesInv, UsersAreRows
  <2>2. Updates(a, "email", e)
    BY <2>1, WrittenIs, Zenon
  <2>3. QED
    BY <2>2 DEF RolesAreKnown, Updates
<1>4. CASE users' = users
  BY <1>4 DEF RolesAreKnown
<1>5. users' = users \/ ChangeEmail(t) \/ RegisterUser(t) \/ RoleAssign(t)
  BY DEF Serves, tables, Redeem, RedeemRead, RedeemDebit, RedeemCredit,
     RedeemReport, Coupon, CouponCount, CouponInsert, CouponReport, Register,
     RegisterCheck, RegisterWallet, RegisterReferral, Referral, ReferralRead,
     ReferralWrite, Role, RoleRead, PatchReport, SetRoleReport, Guess,
     GuessRead, GuessWrite, GuessScan, GuessReport, Login, LoginQuery, LoginAccept,
     LoginRefuse, LoginCount, LoginReport
<1>6. QED
  BY <1>1, <1>2, <1>3, <1>4, <1>5

LEMMA ServingKeepsMoneyNatural ==
    ASSUME JobsInv, SpendsInv, MoneyIsNatural, NEW t \in Threads, Serves(t)
    PROVE  MoneyIsNatural'
<1>1. CASE RedeemCredit(t)
  <2> PICK c, v : c = job[t].work.code /\ v = job[t].seen
    OBVIOUS
  <2>1. c \in DOMAIN SeedCards /\ Spending(t, c)
    BY <1>1, WorkAssumption
       DEF RedeemCredit, At, JobsInv, JobsAreAccepted, IsJob, Spending, Redeems
  <2>2. v = SeedCards[c] /\ SeedCards[c] \in Nat
    BY <2>1, StorefrontAssumption DEF SpendsInv, SpenderIsSound
  <2>3. CASE job[t].work.uid \in DOMAIN wallet
    <3>1. /\ wallet' = [wallet EXCEPT ![job[t].work.uid] = @ + v]
          /\ unmatched' = unmatched
      BY <1>1, <2>3 DEF RedeemCredit
    <3>2. QED
      BY <2>2, <3>1 DEF MoneyIsNatural
  <2>4. CASE job[t].work.uid \notin DOMAIN wallet
    <3>1. wallet' = wallet /\ unmatched' = unmatched + v
      BY <1>1, <2>4 DEF RedeemCredit
    <3>2. QED
      BY <2>2, <3>1 DEF MoneyIsNatural
  <2>5. QED
    BY <2>3, <2>4
<1>2. CASE RegisterWallet(t)
  <2>1. wallet' = Put(wallet, job[t].seen, 0) /\ unmatched' = unmatched
    BY <1>2 DEF RegisterWallet, history
  <2>2. QED
    BY <2>1 DEF MoneyIsNatural, Put
<1>3. CASE ~RedeemCredit(t) /\ ~RegisterWallet(t)
  <2>1. wallet' = wallet /\ unmatched' = unmatched
    BY <1>3 DEF Serves, tables, history, Redeem, RedeemRead, RedeemDebit,
       RedeemReport, Coupon, CouponCount, CouponInsert, CouponReport, Register,
       RegisterCheck, RegisterUser, RegisterReferral, ChangeEmail, Referral, ReferralRead,
       ReferralWrite, Role, RoleRead, RoleAssign, PatchReport, SetRoleReport, Guess,
       GuessRead, GuessWrite, GuessScan, GuessReport, Login, LoginQuery, LoginAccept,
       LoginRefuse, LoginCount, LoginReport
  <2>2. QED
    BY <2>1 DEF MoneyIsNatural
<1>4. QED
  BY <1>1, <1>2, <1>3

LEMMA ServingKeepsCountersNatural ==
    ASSUME JobsInv, CountersAreNatural, NEW t \in Threads, Serves(t)
    PROVE  CountersAreNatural'
<1> DEFINE Held(u) ==
              At(u, "guess", "write") \/ AtLogin(u, "write") => job[u].seen \in Nat
<1>1. /\ Moves(t) /\ job[t] # None /\ JobsAreAccepted
      /\ \A u \in Threads \ {t} : job'[u] = job[u]
      /\ job'[t] # None => job'[t].work = job[t].work
  BY ServesMoves, MoveKeepsJobs DEF Moves, JobsInv
<1>2. ASSUME NEW u \in Threads \ {t}
      PROVE  Held(u)'
  BY <1>1 DEF CountersAreNatural, At, AtLogin
<1>3. CASE GuessRead(t)
  <2>1. PICK n : n = Get(hits, HitKey(t))
    OBVIOUS
  <2>2. n \in Nat
    BY <2>1 DEF CountersAreNatural, Get
  <2>3. /\ Goto(t, "write", n) /\ UNCHANGED <<hits, fails>>
    BY <1>3, <2>1 DEF GuessRead, counters
  <2>4. job'[t].seen = n
    BY <1>1, <2>3, GotoSets
  <2>5. Held(t)'
    BY <2>2, <2>4
  <2>6. QED
    BY <1>2, <2>3, <2>5 DEF CountersAreNatural
<1>4. CASE LoginRefuse(t)
  <2>1. PICK n : n = Get(fails, job[t].work.email)
    OBVIOUS
  <2>2. n \in Nat
    BY <2>1 DEF CountersAreNatural, Get
  <2>3. /\ Goto(t, "write", n) /\ UNCHANGED <<hits, fails>>
    BY <1>4, <2>1 DEF LoginRefuse, counters
  <2>4. job'[t].seen = n
    BY <1>1, <2>3, GotoSets
  <2>5. Held(t)'
    BY <2>2, <2>4
  <2>6. QED
    BY <1>2, <2>3, <2>5 DEF CountersAreNatural
<1>5. CASE GuessWrite(t)
  <2>1. /\ hits' = Put(hits, HitKey(t), job[t].seen + 1) /\ fails' = fails
        /\ Goto(t, "scan", None) /\ job[t].seen \in Nat
    BY <1>5 DEF GuessWrite, CountersAreNatural
  <2>2. job'[t].step = "scan"
    BY <1>1, <2>1, GotoSets
  <2>3. Held(t)'
    BY <2>2 DEF At, AtLogin
  <2>4. \A k \in DOMAIN hits' : hits'[k] \in Nat \ {0}
    BY <2>1 DEF CountersAreNatural, Put
  <2>5. QED
    BY <1>2, <2>1, <2>3, <2>4 DEF CountersAreNatural
<1>6. CASE LoginCount(t)
  <2>1. /\ fails' = Put(fails, job[t].work.email, job[t].seen + 1) /\ hits' = hits
        /\ Goto(t, "report", None) /\ job[t].seen \in Nat
    BY <1>6 DEF LoginCount, CountersAreNatural
  <2>2. job'[t].step = "report"
    BY <1>1, <2>1, GotoSets
  <2>3. Held(t)'
    BY <2>2 DEF At, AtLogin
  <2>4. \A k \in DOMAIN fails' : fails'[k] \in Nat
    BY <2>1 DEF CountersAreNatural, Put
  <2>5. QED
    BY <1>2, <2>1, <2>3, <2>4 DEF CountersAreNatural
<1>7. CASE LoginAccept(t)
  <2>1. fails' = Put(fails, job[t].work.email, 0) /\ hits' = hits /\ Done(t)
    BY <1>7 DEF LoginAccept
  <2>2. job'[t] = None
    BY <1>1, <2>1, DoneIs
  <2>3. Held(t)'
    BY <2>2 DEF At, AtLogin
  <2>4. \A k \in DOMAIN fails' : fails'[k] \in Nat
    BY <2>1 DEF CountersAreNatural, Put
  <2>5. QED
    BY <1>2, <2>1, <2>3, <2>4 DEF CountersAreNatural
<1>8. CASE LoginQuery(t) \/ LoginReport(t) \/ GuessScan(t) \/ GuessReport(t)
  <2>1. /\ UNCHANGED <<hits, fails>>
        /\ \/ Goto(t, "accept", None) \/ Goto(t, "refuse", None)
           \/ Goto(t, "report", DOMAIN hits) \/ Done(t)
    BY <1>8 DEF LoginQuery, LoginReport, GuessScan, GuessReport, counters
  <2>2. Held(t)'
    <3>1. CASE Goto(t, "accept", None)
      <4>1. job'[t].step = "accept"
        BY <1>1, <3>1, GotoSets
      <4>2. QED
        BY <4>1 DEF At, AtLogin
    <3>2. CASE Goto(t, "refuse", None)
      <4>1. job'[t].step = "refuse"
        BY <1>1, <3>2, GotoSets
      <4>2. QED
        BY <4>1 DEF At, AtLogin
    <3>3. CASE Goto(t, "report", DOMAIN hits)
      <4>1. job'[t].step = "report"
        BY <1>1, <3>3, GotoSets
      <4>2. QED
        BY <4>1 DEF At, AtLogin
    <3>4. CASE Done(t)
      BY <1>1, <3>4, DoneIs DEF At, AtLogin
    <3>5. QED
      BY <2>1, <3>1, <3>2, <3>3, <3>4
  <2>3. QED
    BY <1>2, <2>1, <2>2 DEF CountersAreNatural
<1>9. CASE ~Guess(t) /\ ~Login(t)
  <2>1. /\ job[t].work.op \notin {"guess", "login", "api_login"}
        /\ UNCHANGED <<hits, fails>>
    BY <1>9 DEF Serves, counters, At, Redeem, RedeemRead, RedeemDebit, RedeemCredit,
       RedeemReport, Coupon, CouponCount, CouponInsert, CouponReport, Register,
       RegisterCheck, RegisterUser, RegisterWallet, RegisterReferral, ChangeEmail,
       Referral, ReferralRead, ReferralWrite, Role, RoleRead, RoleAssign, PatchReport,
       SetRoleReport, Assigns
  <2>2. Held(t)'
    BY <1>1, <2>1 DEF At, AtLogin
  <2>3. QED
    BY <1>2, <2>1, <2>2 DEF CountersAreNatural
<1>10. QED
  BY <1>3, <1>4, <1>5, <1>6, <1>7, <1>8, <1>9 DEF Guess, Login

LEMMA TypesInvHolds == Spec => []TypesInv
<1>1. Init => TypesInv
  BY StorefrontAssumption DEF Init, TypesInv, RolesAreKnown, Roles, MoneyIsNatural,
     CountersAreNatural, At, AtLogin
<1>2. JobsInv /\ AccountsInv /\ RolesInv /\ SpendsInv /\ TypesInv /\ [Next]_vars => TypesInv'
  <2> SUFFICES ASSUME JobsInv, AccountsInv, RolesInv, SpendsInv, TypesInv, [Next]_vars
               PROVE  TypesInv'
    OBVIOUS
  <2>1. ASSUME NEW t \in Threads, Serves(t)
        PROVE  TypesInv'
    <3>1. crashes' = crashes
      BY <2>1, ServesMoves DEF Moves
    <3>2. RolesAreKnown' /\ MoneyIsNatural' /\ CountersAreNatural'
      BY <2>1, ServingKeepsRolesKnown, ServingKeepsMoneyNatural,
         ServingKeepsCountersNatural DEF TypesInv
    <3>3. QED
      BY <3>1, <3>2 DEF TypesInv
  <2>2. CASE ~\E t \in Threads : Serves(t)
    <3>1. /\ users' = users /\ wallet' = wallet
          /\ \A t \in Threads : \/ job'[t] = job[t]
                                \/ job'[t] # None => job'[t].step = "start"
      BY <2>2, OtherSteps DEF tables
    <3>2. /\ unmatched' = unmatched /\ crashes' \in 0..MaxCrashes
          /\ \/ UNCHANGED <<hits, fails>>
             \/ hits' = [k \in {} |-> 0] /\ fails' = [k \in {} |-> 0]
      <4>1. CASE Crash
        <5>1. /\ unmatched' = unmatched /\ crashes' = crashes + 1 /\ crashes < MaxCrashes
              /\ hits' = [k \in {} |-> 0] /\ fails' = [k \in {} |-> 0]
          BY <4>1 DEF Crash
        <5>2. crashes' \in 0..MaxCrashes
          BY <5>1, StorefrontAssumption DEF TypesInv
        <5>3. QED
          BY <5>1, <5>2
      <4>2. CASE \E t \in Threads, w \in Work : Accept(t, w)
        BY <4>2 DEF Accept, counters, TypesInv
      <4>3. CASE UNCHANGED vars
        BY <4>3 DEF vars, counters, TypesInv
      <4>4. QED
        BY <2>2, <4>1, <4>2, <4>3, NextIs
    <3>3. \A t \in Threads :
             At(t, "guess", "write")' \/ AtLogin(t, "write")' => job'[t].seen \in Nat
      BY <3>1 DEF TypesInv, CountersAreNatural, At, AtLogin
    <3>4. CountersAreNatural'
      BY <3>2, <3>3 DEF TypesInv, CountersAreNatural
    <3>5. QED
      BY <3>1, <3>2, <3>4 DEF TypesInv, RolesAreKnown, MoneyIsNatural
  <2>3. QED
    BY <2>1, <2>2
<1>3. QED
  BY <1>1, <1>2, JobsHold, AccountsInvHolds, RolesInvHolds, SpendsInvHolds, PTL DEF Spec

(* The shop's variables keep their types for any requests, threads and seeds.*)
THEOREM StorefrontIsTyped == Spec => []StorefrontTypeOK
<1>1. JobsInv /\ AccountsInv /\ CouponsInv /\ SpendsInv /\ VerdictsInv /\ TypesInv
        => StorefrontTypeOK
  <2> SUFFICES ASSUME JobsInv, AccountsInv, CouponsInv, SpendsInv, VerdictsInv, TypesInv
               PROVE  StorefrontTypeOK
    OBVIOUS
  <2>1. \A u \in DOMAIN users : u \in Nat /\ users[u].role \in Roles
    BY DEF AccountsInv, UsersAreNumbered, TypesInv, RolesAreKnown
  <2>2. DOMAIN cards = DOMAIN SeedCards /\ \A c \in DOMAIN cards : cards[c] \in Int
    BY DEF SpendsInv, CardIsSound
  <2>3. \A k \in DOMAIN redemptions : redemptions[k] \in Nat \ {0}
    BY DEF CouponsInv, RowsAreCounted
  <2>4. \A t \in Threads : job[t] # None =>
           /\ job[t].step \in Steps
           /\ job[t].req \in DOMAIN accepted
           /\ job[t].work = accepted[job[t].req].work
    BY DEF JobsInv, JobsAreAccepted, IsJob
  <2>5. DOMAIN accepted = 1..Cardinality(DOMAIN accepted)
    <3>1. PICK n \in Nat : DOMAIN accepted = 1..n
      BY DEF JobsInv, AcceptedAreNumbered
    <3>2. QED
      BY <3>1, FS_Interval
  <2>6. \A x \in taps : x.req \in DOMAIN accepted
    BY DEF JobsInv, TapsAreOfAccepted
  <2>7. QED
    BY <2>1, <2>2, <2>3, <2>4, <2>5, <2>6
       DEF StorefrontTypeOK, TypesInv, MoneyIsNatural, CountersAreNatural, VerdictsInv
<1>2. QED
  BY <1>1, JobsHold, AccountsInvHolds, CouponsInvHolds, SpendsInvHolds, VerdictsInvHolds,
     TypesInvHolds, PTL

-----------------------------------------------------------------------------
(* Sums over finite sets. A sum is its own recursive table (MapThenSumSet),  *)
(* so what holds of it is shown on a subset all of whose smaller subsets are *)
(* known, which is enough for a finite set.                                  *)

LEMMA LeastNumber ==
    ASSUME NEW N \in SUBSET Nat, N # {}
    PROVE  \E n \in N : \A m \in N : n <= m
<1> DEFINE less == OpToRel(<, Nat)
<1>1. IsWellFoundedOn(less, Nat)
  BY NatLessThanWellFounded
<1>2. \A m, n \in Nat : m < n => <<m, n>> \in less
  BY DEF OpToRel
<1> HIDE DEF less
<1>3. PICK n \in N : \A m \in N : <<m, n>> \notin less
  BY <1>1, WFMin
<1>4. \A m \in N : ~(m < n)
  BY <1>2, <1>3
<1>5. QED
  BY <1>4

(* A property of the subsets of a finite set that a set has when each of     *)
(* those with one element less has it, every subset has.                     *)
LEMMA SubsetsOneByOne ==
    ASSUME NEW S, IsFiniteSet(S), NEW Good,
           \A T \in SUBSET S : (\A x \in T : T \ {x} \in Good) => T \in Good
    PROVE  SUBSET S \subseteq Good
<1> DEFINE bad == {T \in SUBSET S : T \notin Good}
           sizes == {Cardinality(T) : T \in bad}
<1>1. \A T \in SUBSET S : IsFiniteSet(T) /\ Cardinality(T) \in Nat
  BY FS_Subset, FS_CardinalityType
<1> SUFFICES ASSUME bad # {}
             PROVE  FALSE
  OBVIOUS
<1>2. sizes # {} /\ sizes \in SUBSET Nat
  BY <1>1
<1>3. PICK n \in sizes : \A m \in sizes : n <= m
  <2> HIDE DEF sizes
  <2>1. QED
    BY <1>2, LeastNumber
<1>4. PICK T \in bad : Cardinality(T) = n
  BY <1>3
<1>5. PICK x \in T : T \ {x} \notin Good
  BY <1>4
<1>6. Cardinality(T \ {x}) = n - 1
  BY <1>1, <1>4, <1>5, FS_RemoveElement
<1>7. T \ {x} \in bad
  BY <1>5
<1>8. n - 1 \in sizes
  BY <1>6, <1>7
<1>9. n \in Nat
  BY <1>2
<1> HIDE DEF sizes
<1>10. QED
  BY <1>3, <1>8, <1>9

Any(s) == CHOOSE x \in s : TRUE

(* g is the table of the sums of f over the subsets of S.                    *)
SumsOf(f, S, g) ==
    g = [s \in SUBSET S |-> IF s = {} THEN 0 ELSE f[Any(s)] + g[s \ {Any(s)}]]

Sum(f, S) == MapThenSumSet(LAMBDA x : f[x], S)

LEMMA AnyIsIn ==
    ASSUME NEW s, s # {}
    PROVE  Any(s) \in s
  BY DEF Any

SameOn(S, f, e) == \A x \in S : f[x] = e[x]

LEMMA SumsAgree ==
    ASSUME NEW S, NEW T, NEW f, NEW e, NEW g, NEW h, NEW R, IsFiniteSet(R),
           R \subseteq S, R \subseteq T, SumsOf(f, S, g), SumsOf(e, T, h), SameOn(R, f, e)
    PROVE  g[R] = h[R]
<1> DEFINE Good == {s \in SUBSET R : g[s] = h[s]}
<1>1. ASSUME NEW s \in SUBSET R, \A x \in s : s \ {x} \in Good
      PROVE  s \in Good
  <2>1. s \in SUBSET S /\ s \in SUBSET T
    OBVIOUS
  <2>2. g[s] = IF s = {} THEN 0 ELSE f[Any(s)] + g[s \ {Any(s)}]
    BY <2>1 DEF SumsOf
  <2>3. h[s] = IF s = {} THEN 0 ELSE e[Any(s)] + h[s \ {Any(s)}]
    BY <2>1 DEF SumsOf
  <2>4. s # {} => Any(s) \in s
    BY AnyIsIn
  <2>5. QED
    BY <1>1, <2>2, <2>3, <2>4 DEF SameOn
<1> HIDE DEF Good
<1>2. SUBSET R \subseteq Good
  BY <1>1, SubsetsOneByOne
<1>3. R \in Good
  BY <1>2
<1>4. QED
  BY <1>3 DEF Good

(* The table exists, as tables for the smaller subsets do.                   *)
UpTo(S, n) == {s \in SUBSET S : Cardinality(s) <= n}

SumsUpTo(f, S, n, g) ==
    g = [s \in UpTo(S, n) |-> IF s = {} THEN 0 ELSE f[Any(s)] + g[s \ {Any(s)}]]

LEMMA OneLess ==
    ASSUME NEW S, IsFiniteSet(S), NEW n \in Nat, NEW s \in UpTo(S, n), s # {}
    PROVE  n # 0 /\ s \ {Any(s)} \in UpTo(S, n - 1)
<1>1. Any(s) \in s /\ IsFiniteSet(s)
  BY AnyIsIn, FS_Subset DEF UpTo
<1>2. Cardinality(s \ {Any(s)}) = Cardinality(s) - 1 /\ Cardinality(s) \in Nat
  BY <1>1, FS_RemoveElement, FS_CardinalityType
<1>3. Cardinality(s \ {Any(s)}) \in Nat
  BY <1>1, FS_Subset, FS_CardinalityType
<1>4. QED
  BY <1>2, <1>3 DEF UpTo

LEMMA NextTable ==
    ASSUME NEW S, IsFiniteSet(S), NEW f, NEW n \in Nat, n # 0,
           NEW g, SumsUpTo(f, S, n - 1, g)
    PROVE  \E h : SumsUpTo(f, S, n, h)
<1> DEFINE h == [s \in UpTo(S, n) |-> IF s = {} THEN 0 ELSE f[Any(s)] + g[s \ {Any(s)}]]
<1>1. ASSUME NEW s \in UpTo(S, n - 1)
      PROVE  h[s] = g[s]
  <2>1. s \in UpTo(S, n)
    BY FS_Subset, FS_CardinalityType DEF UpTo
  <2>2. QED
    BY <2>1 DEF SumsUpTo
<1>2. ASSUME NEW s \in UpTo(S, n), s # {}
      PROVE  h[s \ {Any(s)}] = g[s \ {Any(s)}]
  BY <1>1, <1>2, OneLess
<1>3. h = [s \in UpTo(S, n) |-> IF s = {} THEN 0 ELSE f[Any(s)] + h[s \ {Any(s)}]]
  BY <1>2
<1>4. QED
  BY <1>3 DEF SumsUpTo

LEMMA TableExists ==
    ASSUME NEW S, IsFiniteSet(S), NEW f
    PROVE  \E g : SumsOf(f, S, g)
<1> DEFINE without == {n \in Nat : ~\E g : SumsUpTo(f, S, n, g)}
<1>1. 0 \notin without
  <2> DEFINE g == [s \in UpTo(S, 0) |-> 0]
  <2>1. \A s \in UpTo(S, 0) : s = {}
    BY OneLess
  <2>2. g = [s \in UpTo(S, 0) |-> IF s = {} THEN 0 ELSE f[Any(s)] + g[s \ {Any(s)}]]
    BY <2>1
  <2>3. QED
    BY <2>2 DEF SumsUpTo
<1>2. without = {}
  <2> SUFFICES ASSUME without # {}
               PROVE  FALSE
    OBVIOUS
  <2>1. PICK n \in without : \A m \in without : n <= m
    <3>1. without \in SUBSET Nat
      OBVIOUS
    <3> HIDE DEF without
    <3>2. QED
      BY <3>1, LeastNumber
  <2>2. n \in Nat /\ n # 0
    BY <1>1
  <2>3. n - 1 \notin without
    <3> HIDE DEF without
    <3>1. QED
      BY <2>1, <2>2
  <2>4. PICK g : SumsUpTo(f, S, n - 1, g)
    BY <2>2, <2>3
  <2>5. \E h : SumsUpTo(f, S, n, h)
    BY <2>2, <2>4, NextTable
  <2>6. QED
    BY <2>5
<1>3. Cardinality(S) \in Nat
  BY FS_CardinalityType
<1>4. PICK g : SumsUpTo(f, S, Cardinality(S), g)
  BY <1>2, <1>3
<1>5. UpTo(S, Cardinality(S)) = SUBSET S
  BY FS_Subset DEF UpTo
<1>6. QED
  BY <1>4, <1>5 DEF SumsOf, SumsUpTo

LEMMA SumIs ==
    ASSUME NEW S, IsFiniteSet(S), NEW f, NEW g, SumsOf(f, S, g)
    PROVE  Sum(f, S) = g[S]
<1>1. \A h : SumsOf(f, S, h) => h[S] = g[S]
  <2>1. SameOn(S, f, f)
    BY DEF SameOn
  <2>2. QED
    BY <2>1, SumsAgree
<1>2. QED
  BY <1>1 DEF Sum, MapThenSumSet, MapThenFoldSet, SumsOf, Any

LEMMA SumSame ==
    ASSUME NEW S, IsFiniteSet(S), NEW f, NEW e, SameOn(S, f, e)
    PROVE  Sum(f, S) = Sum(e, S)
<1>1. PICK g : SumsOf(f, S, g)
  BY TableExists
<1>2. PICK h : SumsOf(e, S, h)
  BY TableExists
<1>3. g[S] = h[S]
  <2>1. S \subseteq S
    OBVIOUS
  <2>2. QED
    BY <1>1, <1>2, <2>1, SumsAgree
<1>4. Sum(f, S) = g[S] /\ Sum(e, S) = h[S]
  BY <1>1, <1>2, SumIs
<1>5. QED
  BY <1>3, <1>4

LEMMA SumOfNone ==
    ASSUME NEW f
    PROVE  Sum(f, {}) = 0
<1>1. IsFiniteSet({})
  BY FS_EmptySet
<1>2. PICK g : SumsOf(f, {}, g)
  BY <1>1, TableExists
<1>3. Sum(f, {}) = g[{}]
  BY <1>1, <1>2, SumIs
<1>4. QED
  BY <1>2, <1>3 DEF SumsOf

LEMMA SumOfAny ==
    ASSUME NEW S, IsFiniteSet(S), S # {}, NEW f
    PROVE  Sum(f, S) = f[Any(S)] + Sum(f, S \ {Any(S)})
<1>1. PICK g : SumsOf(f, S, g)
  BY TableExists
<1>2. PICK T : T = S \ {Any(S)}
  OBVIOUS
<1>3. IsFiniteSet(T) /\ T \subseteq S
  BY <1>2, FS_Subset
<1>4. PICK h : SumsOf(f, T, h)
  BY <1>3, TableExists
<1>5. g[T] = h[T]
  <2>1. T \subseteq T /\ SameOn(T, f, f)
    BY DEF SameOn
  <2>2. QED
    BY <1>1, <1>3, <1>4, <2>1, SumsAgree
<1>6. Sum(f, S) = g[S] /\ Sum(f, T) = h[T]
  BY <1>1, <1>3, <1>4, SumIs
<1>7. g[S] = f[Any(S)] + g[T]
  BY <1>1, <1>2 DEF SumsOf
<1>8. QED
  BY <1>2, <1>5, <1>6, <1>7

LEMMA SumIsInt ==
    ASSUME NEW S, IsFiniteSet(S), NEW f, \A x \in S : f[x] \in Int
    PROVE  Sum(f, S) \in Int
<1> DEFINE Good == {T \in SUBSET S : Sum(f, T) \in Int}
<1>1. ASSUME NEW T \in SUBSET S, \A x \in T : T \ {x} \in Good
      PROVE  T \in Good
  <2>1. CASE T = {}
    BY <2>1, SumOfNone
  <2>2. CASE T # {}
    <3>1. Any(T) \in T /\ IsFiniteSet(T)
      BY <2>2, AnyIsIn, FS_Subset
    <3>2. Sum(f, T) = f[Any(T)] + Sum(f, T \ {Any(T)})
      BY <2>2, <3>1, SumOfAny
    <3>3. QED
      BY <1>1, <3>1, <3>2
  <2>3. QED
    BY <2>1, <2>2
<1> HIDE DEF Good
<1>2. S \in Good
  BY <1>1, SubsetsOneByOne
<1>3. QED
  BY <1>2 DEF Good

LEMMA SumIsNat ==
    ASSUME NEW S, IsFiniteSet(S), NEW f, \A x \in S : f[x] \in Nat
    PROVE  Sum(f, S) \in Nat
<1> DEFINE Good == {T \in SUBSET S : Sum(f, T) \in Nat}
<1>1. ASSUME NEW T \in SUBSET S, \A x \in T : T \ {x} \in Good
      PROVE  T \in Good
  <2>1. CASE T = {}
    BY <2>1, SumOfNone
  <2>2. CASE T # {}
    <3>1. Any(T) \in T /\ IsFiniteSet(T)
      BY <2>2, AnyIsIn, FS_Subset
    <3>2. Sum(f, T) = f[Any(T)] + Sum(f, T \ {Any(T)})
      BY <2>2, <3>1, SumOfAny
    <3>3. QED
      BY <1>1, <3>1, <3>2
  <2>3. QED
    BY <2>1, <2>2
<1> HIDE DEF Good
<1>2. S \in Good
  BY <1>1, SubsetsOneByOne
<1>3. QED
  BY <1>2 DEF Good

(* Any element may be taken out first.                                       *)
LEMMA SumTake ==
    ASSUME NEW S, IsFiniteSet(S), NEW f, \A x \in S : f[x] \in Int, NEW y \in S
    PROVE  Sum(f, S) = f[y] + Sum(f, S \ {y})
<1> DEFINE Good == {T \in SUBSET S : \A z \in T : Sum(f, T) = f[z] + Sum(f, T \ {z})}
<1>1. ASSUME NEW T \in SUBSET S, \A x \in T : T \ {x} \in Good
      PROVE  T \in Good
  <2> SUFFICES ASSUME NEW z \in T
               PROVE  Sum(f, T) = f[z] + Sum(f, T \ {z})
    OBVIOUS
  <2>1. PICK x : x = Any(T)
    OBVIOUS
  <2>2. x \in T /\ IsFiniteSet(T)
    BY <2>1, AnyIsIn, FS_Subset
  <2>3. Sum(f, T) = f[x] + Sum(f, T \ {x})
    BY <2>1, <2>2, SumOfAny
  <2>4. CASE x = z
    BY <2>3, <2>4
  <2>5. CASE x # z
    <3>1. Sum(f, T \ {x}) = f[z] + Sum(f, (T \ {x}) \ {z})
      BY <1>1, <2>2, <2>5
    <3>2. Sum(f, T \ {z}) = f[x] + Sum(f, (T \ {z}) \ {x})
      BY <1>1, <2>2, <2>5
    <3>3. PICK R : R = (T \ {x}) \ {z} /\ R = (T \ {z}) \ {x}
      OBVIOUS
    <3>4. IsFiniteSet(R) /\ R \subseteq S
      BY <3>3, FS_Subset
    <3>5. Sum(f, R) \in Int /\ f[x] \in Int /\ f[z] \in Int
      BY <2>2, <3>4, SumIsInt
    <3>6. PICK a, b, c : a = f[x] /\ b = f[z] /\ c = Sum(f, R)
      OBVIOUS
    <3>7. Sum(f, T \ {x}) = b + c /\ Sum(f, T \ {z}) = a + c
      BY <3>1, <3>2, <3>3, <3>6
    <3>8. a + (b + c) = b + (a + c)
      BY <3>5, <3>6
    <3>9. QED
      BY <2>3, <3>6, <3>7, <3>8
  <2>6. QED
    BY <2>4, <2>5
<1> HIDE DEF Good
<1>2. S \in Good
  BY <1>1, SubsetsOneByOne
<1>3. QED
  BY <1>2 DEF Good

IntsOn(S, f) == \A x \in S : f[x] \in Int

(* One summand changes.                                                      *)
LEMMA SumChange ==
    ASSUME NEW S, IsFiniteSet(S), NEW f, NEW e, IntsOn(S, f), IntsOn(S, e),
           NEW y \in S, SameOn(S \ {y}, f, e)
    PROVE  /\ Sum(e, S) = Sum(f, S) + (e[y] - f[y])
           /\ Sum(f, S) \in Int
<1>1. Sum(f, S) = f[y] + Sum(f, S \ {y})
  BY SumTake DEF IntsOn
<1>2. Sum(e, S) = e[y] + Sum(e, S \ {y})
  BY SumTake DEF IntsOn
<1>3. PICK T : T = S \ {y}
  OBVIOUS
<1>4. IsFiniteSet(T) /\ \A x \in T : f[x] \in Int
  BY <1>3, FS_Subset DEF IntsOn
<1>5. Sum(f, T) = Sum(e, T)
  BY <1>3, <1>4, SumSame
<1>6. Sum(f, T) \in Int
  BY <1>4, SumIsInt
<1>7. PICK c : c = Sum(f, T)
  OBVIOUS
<1>8. Sum(f, S) = f[y] + c /\ Sum(e, S) = e[y] + c /\ c \in Int
      /\ f[y] \in Int /\ e[y] \in Int
  BY <1>1, <1>2, <1>3, <1>5, <1>6, <1>7 DEF IntsOn
<1>9. QED
  BY <1>8

(* A summand is added.                                                       *)
LEMMA SumMore ==
    ASSUME NEW S, IsFiniteSet(S), NEW y, y \notin S, NEW f, NEW e,
           IntsOn(S \cup {y}, e), SameOn(S, f, e)
    PROVE  Sum(e, S \cup {y}) = e[y] + Sum(f, S)
<1>1. PICK T : T = S \cup {y}
  OBVIOUS
<1>2. IsFiniteSet(T) /\ y \in T /\ T \ {y} = S
  BY <1>1, FS_AddElement
<1>3. Sum(e, T) = e[y] + Sum(e, T \ {y})
  BY <1>1, <1>2, SumTake DEF IntsOn
<1>4. Sum(f, S) = Sum(e, S)
  BY SumSame
<1>5. QED
  BY <1>1, <1>2, <1>3, <1>4

(* What is zero does not count.                                              *)
LEMMA SumOfRest ==
    ASSUME NEW S, IsFiniteSet(S), NEW R, R \subseteq S, NEW f, IntsOn(S, f),
           \A x \in S \ R : f[x] = 0
    PROVE  Sum(f, S) = Sum(f, R)
<1> DEFINE Good == {T \in SUBSET S : Sum(f, T) = Sum(f, T \cap R)}
<1>1. ASSUME NEW T \in SUBSET S, \A x \in T : T \ {x} \in Good
      PROVE  T \in Good
  <2>1. CASE T \subseteq R
    <3>1. T \cap R = T
      BY <2>1
    <3>2. QED
      BY <3>1
  <2>2. CASE ~(T \subseteq R)
    <3>1. PICK x \in T : x \notin R
      BY <2>2
    <3>2. IsFiniteSet(T) /\ \A y \in T : f[y] \in Int
      BY FS_Subset DEF IntsOn
    <3>3. Sum(f, T) = f[x] + Sum(f, T \ {x})
      BY <3>2, SumTake
    <3>4. PICK U : U = T \ {x}
      OBVIOUS
    <3>5. IsFiniteSet(U) /\ \A y \in U : f[y] \in Int
      BY <3>2, <3>4, FS_Subset
    <3>6. Sum(f, U) \in Int
      BY <3>5, SumIsInt
    <3>7. Sum(f, U) = Sum(f, U \cap R)
      BY <1>1, <3>4
    <3>8. U \cap R = T \cap R
      BY <3>1, <3>4
    <3>9. f[x] = 0
      BY <3>1
    <3>10. Sum(f, T) = 0 + Sum(f, U) /\ Sum(f, U) = Sum(f, T \cap R)
      BY <3>3, <3>4, <3>7, <3>8, <3>9
    <3>11. Sum(f, T) = Sum(f, T \cap R)
      BY <3>6, <3>10
    <3>12. QED
      BY <3>11
  <2>3. QED
    BY <2>1, <2>2
<1> HIDE DEF Good
<1>2. S \in Good
  BY <1>1, SubsetsOneByOne
<1>3. S \cap R = R
  OBVIOUS
<1>4. QED
  BY <1>2, <1>3 DEF Good

-----------------------------------------------------------------------------
(* Money.                                                                    *)

(* A registration that is about to give a wallet gives a first one, to an    *)
(* account of its own.                                                       *)
RegistrationsAreFresh ==
    /\ \A t \in Threads : At(t, "register", "wallet") =>
          job[t].seen \notin DOMAIN wallet \cup DOMAIN SeedUsers
    /\ \A t, u \in Threads :
          At(t, "register", "wallet") /\ At(u, "register", "wallet")
             /\ job[t].seen = job[u].seen => t = u

LEMMA ServingKeepsFresh ==
    ASSUME JobsInv, AccountsInv, RolesInv, RegistrationsAreFresh,
           NEW t \in Threads, Serves(t)
    PROVE  RegistrationsAreFresh'
<1>1. /\ \A u \in Threads \ {t} : job'[u] = job[u]
      /\ job[t] # None /\ JobsAreAccepted
      /\ job'[t] # None => job'[t].work = job[t].work
  BY ServesMoves, MoveKeepsJobs DEF Moves, JobsInv
<1>2. ASSUME DOMAIN wallet' \subseteq DOMAIN wallet, ~At(t, "register", "wallet")'
      PROVE  RegistrationsAreFresh'
  <2>1. \A u \in Threads : At(u, "register", "wallet")' =>
           At(u, "register", "wallet") /\ job'[u] = job[u]
    BY <1>1, <1>2 DEF At
  <2>2. QED
    BY <1>2, <2>1 DEF RegistrationsAreFresh
<1>3. CASE RegisterUser(t)
  <2>1. PICK n \in Nat : DOMAIN users = 1..n
    BY DEF AccountsInv, UsersAreNumbered
  <2>2. Max(DOMAIN users \cup {0}) + 1 = n + 1 /\ n + 1 \notin DOMAIN users
    BY <2>1, MaxOfInterval
  <2>3. Goto(t, "wallet", n + 1) /\ wallet' = wallet
    BY <1>3, <2>2 DEF RegisterUser
  <2>4. job'[t].seen = n + 1
    BY <1>1, <2>3, GotoSets
  <2>5. DOMAIN wallet \cup DOMAIN SeedUsers \subseteq DOMAIN users
    BY DEF AccountsInv, AccountsAreWhole, RolesInv, UsersAreRows
  <2>6. \A u \in Threads \ {t} : At(u, "register", "wallet")' =>
           At(u, "register", "wallet") /\ job'[u].seen = job[u].seen
             /\ job[u].seen \in DOMAIN users
    BY <1>1 DEF At, AccountsInv, RegistrationsHoldUsers
  <2>7. QED
    BY <2>2, <2>3, <2>4, <2>5, <2>6 DEF RegistrationsAreFresh
<1>4. CASE RegisterWallet(t)
  <2>1. /\ At(t, "register", "wallet") /\ Goto(t, "referral", job[t].seen)
        /\ wallet' = Put(wallet, job[t].seen, 0)
    BY <1>4 DEF RegisterWallet
  <2>2. job'[t].step = "referral"
    BY <1>1, <2>1, GotoSets
  <2>3. DOMAIN wallet' = DOMAIN wallet \cup {job[t].seen}
    BY <2>1 DEF Put
  <2>4. ~At(t, "register", "wallet")'
    BY <2>2 DEF At
  <2>5. \A u \in Threads : At(u, "register", "wallet")' =>
           At(u, "register", "wallet") /\ job'[u] = job[u] /\ u # t
    BY <1>1, <2>4 DEF At
  <2>6. QED
    BY <2>1, <2>3, <2>5 DEF RegistrationsAreFresh
<1>5. CASE Register(t) /\ ~RegisterUser(t) /\ ~RegisterWallet(t)
  <2>1. /\ wallet' = wallet
        /\ Goto(t, "insert", None) \/ Done(t)
    BY <1>5 DEF Register, RegisterCheck, RegisterReferral, tables
  <2>2. job'[t] # None => job'[t].step = "insert"
    BY <1>1, <2>1, GotoSets, DoneIs
  <2>3. QED
    BY <1>2, <2>1, <2>2 DEF At
<1>6. CASE ~Register(t)
  <2>1. /\ job[t].work.op # "register"
        /\ DOMAIN wallet' = DOMAIN wallet
    BY <1>6 DEF Serves, tables, At, AtLogin, Redeem, RedeemRead, RedeemDebit, RedeemCredit,
       RedeemReport, Coupon, CouponCount, CouponInsert, CouponReport, ChangeEmail,
       Referral, ReferralRead, ReferralWrite, Role, RoleRead, RoleAssign, PatchReport,
       SetRoleReport, Assigns, Guess, GuessRead, GuessWrite, GuessScan, GuessReport, Login,
       LoginQuery, LoginAccept, LoginRefuse, LoginCount, LoginReport
  <2>2. ~At(t, "register", "wallet")'
    BY <1>1, <2>1 DEF At
  <2>3. QED
    BY <1>2, <2>1, <2>2
<1>7. QED
  BY <1>3, <1>4, <1>5, <1>6

(* The books: what each card gave, what each wallet got, what each thread    *)
(* has taken from a card and not yet given to a wallet.                      *)
Gave == [c \in DOMAIN SeedCards |-> SeedCards[c] - cards[c]]
Got == [u \in DOMAIN wallet |-> wallet[u] - Get(SeedWallets, u)]
Carried == [t \in Threads |-> IF At(t, "redeem", "credit") THEN job[t].seen ELSE 0]

BooksBalance ==
    LET credited == Sum(Got, DOMAIN wallet) + Sum(Carried, Threads) + unmatched
    IN  /\ Sum(Gave, DOMAIN SeedCards) >= credited
        /\ crashes = 0 => Sum(Gave, DOMAIN SeedCards) = credited

MoneyInv == RegistrationsAreFresh /\ BooksBalance

BooksAreInts ==
    /\ IsFiniteSet(DOMAIN SeedCards) /\ IntsOn(DOMAIN SeedCards, Gave)
    /\ IsFiniteSet(DOMAIN wallet) /\ IntsOn(DOMAIN wallet, Got)
    /\ \A u \in DOMAIN wallet : wallet[u] \in Int
    /\ IsFiniteSet(Threads) /\ IntsOn(Threads, Carried)
    /\ \A t \in Threads : Carried[t] \in Nat
    /\ unmatched \in Int

LEMMA BooksHaveTypes ==
    JobsInv /\ AccountsInv /\ SpendsInv /\ TypesInv => BooksAreInts
<1> SUFFICES ASSUME JobsInv, AccountsInv, SpendsInv, TypesInv
             PROVE  BooksAreInts
  OBVIOUS
<1>1. IntsOn(DOMAIN SeedCards, Gave)
  BY StorefrontAssumption DEF IntsOn, Gave, SpendsInv, CardIsSound
<1>2. IsFiniteSet(DOMAIN wallet)
  <2>1. PICK n \in Nat : DOMAIN users = 1..n
    BY DEF AccountsInv, UsersAreNumbered
  <2>2. IsFiniteSet(DOMAIN users)
    BY <2>1, FS_Interval
  <2>3. QED
    BY <2>2, FS_Subset DEF AccountsInv, AccountsAreWhole
<1>3. IntsOn(DOMAIN wallet, Got)
  <2>1. \A u \in DOMAIN wallet : wallet[u] \in Nat /\ Get(SeedWallets, u) \in Nat
    BY StorefrontAssumption DEF TypesInv, MoneyIsNatural, Get
  <2>2. QED
    BY <2>1 DEF IntsOn, Got
<1>4. ASSUME NEW t \in Threads
      PROVE  Carried[t] \in Nat
  <2>1. CASE At(t, "redeem", "credit")
    <3>1. PICK c : c = job[t].work.code
      OBVIOUS
    <3>2. c \in DOMAIN SeedCards /\ Spending(t, c)
      BY <2>1, <3>1, WorkAssumption DEF At, JobsInv, JobsAreAccepted, IsJob, Spending, Redeems
    <3>3. job[t].seen = SeedCards[c] /\ SeedCards[c] \in Nat
      BY <3>2, StorefrontAssumption DEF SpendsInv, SpenderIsSound
    <3>4. QED
      BY <2>1, <3>3 DEF Carried
  <2>2. QED
    BY <2>1 DEF Carried
<1>5. IntsOn(Threads, Carried)
  BY <1>4 DEF IntsOn
<1>6. QED
  BY <1>1, <1>2, <1>3, <1>4, <1>5, StorefrontAssumption
     DEF BooksAreInts, TypesInv, MoneyIsNatural

(* A step that touches no card, no wallet and nothing carried.               *)
LEMMA OthersKeepBooks ==
    ASSUME BooksBalance, UNCHANGED <<cards, wallet, unmatched, crashes>>,
           \A t \in Threads : At(t, "redeem", "credit")' <=> At(t, "redeem", "credit"),
           \A t \in Threads : At(t, "redeem", "credit") => job'[t].seen = job[t].seen
    PROVE  BooksBalance'
<1>1. Gave' = Gave /\ Got' = Got
  BY DEF Gave, Got
<1>2. Carried' = Carried
  BY DEF Carried
<1>3. DOMAIN wallet' = DOMAIN wallet
  OBVIOUS
<1>4. QED
  BY <1>1, <1>2, <1>3 DEF BooksBalance

LEMMA GoesOn ==
    ASSUME JobsInv, NEW t \in Threads, job[t] # None, NEW step \in Steps, NEW seen \in Nat,
           Goto(t, step, seen)
    PROVE  /\ job'[t] # None /\ job'[t].step = step /\ job'[t].seen = seen
           /\ job'[t].work = job[t].work
           /\ \A u \in Threads \ {t} : job'[u] = job[u]
<1>1. JobsAreAccepted /\ job[t].work \in Work /\ job[t].req \in Nat
  BY DEF JobsInv, JobsAreAccepted, IsJob, AcceptedAreNumbered
<1>2. /\ job'[t] = [work |-> job[t].work, req |-> job[t].req,
                     step |-> step, seen |-> seen]
      /\ \A u \in Threads \ {t} : job'[u] = job[u]
      /\ job' = [u \in Threads |-> job'[u]]
      /\ job'[t].work = job[t].work /\ job'[t].req = job[t].req
      /\ job'[t].step = step /\ job'[t].seen = seen
  BY <1>1, GotoIs
<1>3. job'[t] \in [work : Work, req : Nat, step : Steps, seen : Nat]
  BY <1>1, <1>2
<1>4. job'[t] # None
  BY <1>3, WorkAssumption
<1>5. QED
  BY <1>2, <1>4

(* One book entry and another change by the same amount.                     *)
LEMMA DebitKeepsBooks ==
    ASSUME JobsInv, SpendsInv, BooksBalance, BooksAreInts, BooksAreInts',
           NEW t \in Threads, RedeemDebit(t)
    PROVE  BooksBalance'
<1> PICK c, v : c = job[t].work.code /\ v = job[t].seen
  OBVIOUS
<1>1. /\ JobsAreAccepted /\ job[t] # None /\ At(t, "redeem", "debit")
      /\ cards' = [cards EXCEPT ![c] = @ - v] /\ Goto(t, "credit", v)
      /\ UNCHANGED <<wallet, unmatched, crashes>>
  BY DEF RedeemDebit, At, history, JobsInv
<1>2. c \in DOMAIN SeedCards /\ Spending(t, c)
  BY <1>1, WorkAssumption DEF At, JobsInv, JobsAreAccepted, IsJob, Spending, Redeems
<1>3. v = SeedCards[c] /\ v \in Nat
  BY <1>2, StorefrontAssumption DEF SpendsInv, SpenderIsSound
<1>4. /\ job'[t] # None /\ job'[t].step = "credit" /\ job'[t].seen = v
      /\ job'[t].work = job[t].work
      /\ \A u \in Threads \ {t} : job'[u] = job[u]
  <2>1. "credit" \in Steps
    BY DEF Steps
  <2>2. QED
    BY <1>1, <1>3, <2>1, GoesOn
<1>5. \A d \in DOMAIN SeedCards : cards'[d] = IF d = c THEN cards[d] - v ELSE cards[d]
  BY <1>1 DEF SpendsInv
<1> PICK f, e, h, k : f = Gave /\ e = Gave' /\ h = Carried /\ k = Carried'
  OBVIOUS
<1>6. \A d \in DOMAIN SeedCards :
         f[d] = SeedCards[d] - cards[d] /\ e[d] = SeedCards[d] - cards'[d]
  BY DEF Gave
<1>7. SameOn(DOMAIN SeedCards \ {c}, f, e) /\ e[c] - f[c] = v
  <2>1. cards[c] \in Int /\ SeedCards[c] \in Int
    BY <1>2, <1>3 DEF SpendsInv, CardIsSound
  <2>2. SameOn(DOMAIN SeedCards \ {c}, f, e)
    BY <1>5, <1>6 DEF SameOn
  <2>3. PICK a, b : a = SeedCards[c] /\ b = cards[c]
    OBVIOUS
  <2>4. f[c] = a - b /\ e[c] = a - (b - v)
    BY <1>2, <1>5, <1>6, <2>3
  <2>5. e[c] - f[c] = v
    BY <1>3, <2>1, <2>3, <2>4
  <2>6. QED
    BY <2>2, <2>5
<1>8. h[t] = 0 /\ k[t] = v /\ SameOn(Threads \ {t}, h, k)
  <2>1. At(t, "redeem", "credit")' /\ ~At(t, "redeem", "credit")
    BY <1>1, <1>4 DEF At
  <2>2. \A u \in Threads \ {t} : Carried'[u] = Carried[u]
    BY <1>4 DEF Carried, At
  <2>3. Carried[t] = 0 /\ Carried'[t] = v
    BY <1>4, <2>1 DEF Carried
  <2>4. QED
    BY <2>2, <2>3 DEF SameOn
<1> PICK D : D = DOMAIN SeedCards
  OBVIOUS
<1>9. /\ IsFiniteSet(D) /\ IntsOn(D, f) /\ IntsOn(D, e) /\ c \in D /\ SameOn(D \ {c}, f, e)
      /\ IsFiniteSet(Threads) /\ IntsOn(Threads, h) /\ IntsOn(Threads, k)
  BY <1>2, <1>7 DEF BooksAreInts
<1>10. Sum(e, D) = Sum(f, D) + (e[c] - f[c]) /\ Sum(f, D) \in Int
  BY <1>9, SumChange
<1>11. Sum(k, Threads) = Sum(h, Threads) + (k[t] - h[t]) /\ Sum(h, Threads) \in Int
  BY <1>8, <1>9, SumChange
<1>12. Got' = Got /\ DOMAIN wallet' = DOMAIN wallet
  BY <1>1 DEF Got
<1>13. Sum(Got, DOMAIN wallet) \in Int /\ unmatched \in Int
  BY SumIsInt DEF BooksAreInts, IntsOn
<1>14. Sum(e, D) = Sum(f, D) + v /\ Sum(k, Threads) = Sum(h, Threads) + v
  BY <1>3, <1>7, <1>8, <1>10, <1>11
<1>15. QED
  BY <1>1, <1>3, <1>10, <1>11, <1>12, <1>13, <1>14 DEF BooksBalance

LEMMA CreditKeepsBooks ==
    ASSUME JobsInv, SpendsInv, BooksBalance, BooksAreInts, BooksAreInts',
           NEW t \in Threads, RedeemCredit(t)
    PROVE  BooksBalance'
<1> PICK c, v, w : c = job[t].work.code /\ v = job[t].seen /\ w = job[t].work.uid
  OBVIOUS
<1>1. /\ JobsAreAccepted /\ job[t] # None /\ At(t, "redeem", "credit")
      /\ Goto(t, "report", v) /\ UNCHANGED <<cards, crashes>>
      /\ \/ /\ w \in DOMAIN wallet
            /\ wallet' = [wallet EXCEPT ![w] = @ + v] /\ unmatched' = unmatched
         \/ wallet' = wallet /\ unmatched' = unmatched + v
  BY DEF RedeemCredit, At, JobsInv
<1>2. c \in DOMAIN SeedCards /\ Spending(t, c)
  BY <1>1, WorkAssumption DEF At, JobsInv, JobsAreAccepted, IsJob, Spending, Redeems
<1>3. v = SeedCards[c] /\ v \in Nat
  BY <1>2, StorefrontAssumption DEF SpendsInv, SpenderIsSound
<1>4. /\ job'[t] # None /\ job'[t].step = "report"
      /\ \A u \in Threads \ {t} : job'[u] = job[u]
  <2>1. "report" \in Steps
    BY DEF Steps
  <2>2. QED
    BY <1>1, <1>3, <2>1, GoesOn
<1> PICK h, k : h = Carried /\ k = Carried'
  OBVIOUS
<1>5. h[t] = v /\ k[t] = 0 /\ SameOn(Threads \ {t}, h, k)
  <2>1. ~At(t, "redeem", "credit")'
    BY <1>4 DEF At
  <2>2. \A u \in Threads \ {t} : Carried'[u] = Carried[u]
    BY <1>4 DEF Carried, At
  <2>3. Carried[t] = v /\ Carried'[t] = 0
    BY <1>1, <2>1 DEF Carried
  <2>4. QED
    BY <2>2, <2>3 DEF SameOn
<1>6. /\ IsFiniteSet(Threads) /\ IntsOn(Threads, h) /\ IntsOn(Threads, k)
  BY DEF BooksAreInts
<1>7. Sum(k, Threads) = Sum(h, Threads) + (k[t] - h[t]) /\ Sum(h, Threads) \in Int
  BY <1>5, <1>6, SumChange
<1>8. Gave' = Gave
  BY <1>1 DEF Gave
<1>9. Sum(Gave, DOMAIN SeedCards) \in Int /\ Sum(Got, DOMAIN wallet) \in Int
      /\ unmatched \in Int
  BY SumIsInt DEF BooksAreInts, IntsOn
<1>10. CASE w \in DOMAIN wallet /\ wallet' = [wallet EXCEPT ![w] = @ + v]
            /\ unmatched' = unmatched
  <2> PICK f, e, W : f = Got /\ e = Got' /\ W = DOMAIN wallet
    OBVIOUS
  <2>1. DOMAIN wallet' = W /\ \A u \in W \ {w} : wallet'[u] = wallet[u]
    BY <1>10
  <2>2. wallet'[w] = wallet[w] + v
    BY <1>10
  <2>3. \A u \in W : /\ f[u] = wallet[u] - Get(SeedWallets, u)
                     /\ e[u] = wallet'[u] - Get(SeedWallets, u)
    BY <2>1 DEF Got
  <2>4. SameOn(W \ {w}, f, e)
    BY <2>1, <2>3 DEF SameOn
  <2>5. IsFiniteSet(W) /\ IntsOn(W, f) /\ IntsOn(W, e) /\ w \in W
    BY <1>10, <2>1 DEF BooksAreInts
  <2>6. Sum(e, W) = Sum(f, W) + (e[w] - f[w]) /\ Sum(f, W) \in Int
    BY <2>4, <2>5, SumChange
  <2>7. e[w] = f[w] + v /\ f[w] \in Int
    <3>1. PICK a, b : a = wallet[w] /\ b = Get(SeedWallets, w)
      OBVIOUS
    <3>2. f[w] = a - b /\ e[w] = (a + v) - b
      BY <2>2, <2>3, <2>5, <3>1
    <3>3. a \in Int /\ b \in Int
      BY <1>10, <3>1, StorefrontAssumption DEF BooksAreInts, Get
    <3>4. QED
      BY <1>3, <3>2, <3>3
  <2>8. Sum(e, W) = Sum(f, W) + v /\ Sum(k, Threads) = Sum(h, Threads) - v
    BY <1>3, <1>5, <1>7, <2>6, <2>7
  <2>9. QED
    BY <1>1, <1>3, <1>7, <1>8, <1>9, <1>10, <2>1, <2>6, <2>8 DEF BooksBalance
<1>11. CASE wallet' = wallet /\ unmatched' = unmatched + v
  <2>1. Got' = Got /\ DOMAIN wallet' = DOMAIN wallet
    BY <1>11 DEF Got
  <2>2. Sum(k, Threads) = Sum(h, Threads) - v
    BY <1>3, <1>5, <1>7
  <2>3. QED
    BY <1>1, <1>3, <1>7, <1>8, <1>9, <1>11, <2>1, <2>2 DEF BooksBalance
<1>12. QED
  BY <1>1, <1>10, <1>11

(* A first wallet, without money.                                            *)
LEMMA WalletKeepsBooks ==
    ASSUME JobsInv, RegistrationsAreFresh, BooksBalance, BooksAreInts, BooksAreInts',
           NEW t \in Threads, RegisterWallet(t)
    PROVE  BooksBalance'
<1> PICK u, f, e, W : u = job[t].seen /\ f = Got /\ e = Got' /\ W = DOMAIN wallet
  OBVIOUS
<1>1. /\ At(t, "register", "wallet") /\ wallet' = Put(wallet, u, 0)
      /\ Goto(t, "referral", u) /\ UNCHANGED <<cards, unmatched, crashes>>
  BY DEF RegisterWallet, history
<1>2. u \notin W /\ u \notin DOMAIN SeedWallets
  BY <1>1, StorefrontAssumption DEF RegistrationsAreFresh
<1>3. /\ DOMAIN wallet' = W \cup {u} /\ wallet'[u] = 0
      /\ \A x \in W : wallet'[x] = wallet[x]
  BY <1>1, <1>2 DEF Put
<1>4. /\ \A x \in W : f[x] = wallet[x] - Get(SeedWallets, x)
      /\ \A x \in W \cup {u} : e[x] = wallet'[x] - Get(SeedWallets, x)
  BY <1>3 DEF Got
<1>5. SameOn(W, f, e) /\ e[u] = 0
  BY <1>2, <1>3, <1>4 DEF SameOn, Get
<1>6. IsFiniteSet(W) /\ IntsOn(W \cup {u}, e)
  BY <1>3 DEF BooksAreInts
<1>7. Sum(e, W \cup {u}) = e[u] + Sum(f, W)
  BY <1>2, <1>5, <1>6, SumMore
<1>8. Sum(f, W) \in Int
  BY SumIsInt DEF BooksAreInts, IntsOn
<1>9. Sum(e, W \cup {u}) = Sum(f, W)
  BY <1>5, <1>7, <1>8
<1>10. Gave' = Gave
  BY <1>1 DEF Gave
<1>11. Carried' = Carried
  <2>1. /\ \A x \in Threads \ {t} : job'[x] = job[x]
        /\ job'[t].work = job[t].work /\ job[t].work.op = "register"
    <3>1. JobsAreAccepted /\ job[t] # None /\ job[t].work.op = "register"
      BY <1>1 DEF JobsInv, At
    <3>2. /\ job'[t].step = "referral" /\ job'[t].seen = u
          /\ job'[t].work = job[t].work /\ job'[t].req = job[t].req
      BY <1>1, <3>1, GotoSets
    <3>3. Moves(t)
      BY ServesMoves DEF Serves, Register
    <3>4. QED
      BY <3>1, <3>2, <3>3, MoveKeepsJobs
  <2>2. \A x \in Threads : Carried'[x] = Carried[x]
    BY <2>1 DEF Carried, At
  <2>3. QED
    BY <2>2 DEF Carried
<1>12. QED
  BY <1>1, <1>3, <1>9, <1>10, <1>11 DEF BooksBalance

LEMMA ServingKeepsBooks ==
    ASSUME JobsInv, AccountsInv, SpendsInv, MoneyInv, BooksAreInts, BooksAreInts',
           NEW t \in Threads, Serves(t)
    PROVE  BooksBalance'
<1>1. CASE RedeemDebit(t)
  BY <1>1, DebitKeepsBooks DEF MoneyInv
<1>2. CASE RedeemCredit(t)
  BY <1>2, CreditKeepsBooks DEF MoneyInv
<1>3. CASE RegisterWallet(t)
  BY <1>3, WalletKeepsBooks DEF MoneyInv
<1>4. CASE ~RedeemDebit(t) /\ ~RedeemCredit(t) /\ ~RegisterWallet(t)
  <2>1. /\ Moves(t) /\ job[t] # None /\ JobsAreAccepted
        /\ \A u \in Threads \ {t} : job'[u] = job[u]
        /\ job'[t] # None => job'[t].work = job[t].work
    BY ServesMoves, MoveKeepsJobs DEF Moves, JobsInv
  <2>2. UNCHANGED <<cards, wallet, unmatched, crashes>>
    BY <1>4 DEF Serves, tables, history, Redeem, RedeemRead, RedeemReport,
       Coupon, CouponCount, CouponInsert, CouponReport, Register,
       RegisterCheck, RegisterUser, RegisterReferral, ChangeEmail, Referral, ReferralRead,
       ReferralWrite, Role, RoleRead, RoleAssign, PatchReport, SetRoleReport, Guess,
       GuessRead, GuessWrite, GuessScan, GuessReport, Login, LoginQuery, LoginAccept,
       LoginRefuse, LoginCount, LoginReport
  <2>3. ~At(t, "redeem", "credit") /\ ~At(t, "redeem", "credit")'
    <3>1. CASE RedeemRead(t)
      <4>1. At(t, "redeem", "start")
            /\ (Done(t) \/ Goto(t, "debit", cards[job[t].work.code]))
        BY <3>1 DEF RedeemRead
      <4>2. job'[t] # None => job'[t].step = "debit"
        BY <2>1, <4>1, GotoSets, DoneIs
      <4>3. QED
        BY <4>1, <4>2 DEF At
    <3>2. CASE RedeemReport(t)
      <4>1. At(t, "redeem", "report") /\ Done(t)
        BY <3>2 DEF RedeemReport
      <4>2. QED
        BY <2>1, <4>1, DoneIs DEF At
    <3>3. CASE ~Redeem(t)
      <4>1. job[t].work.op # "redeem"
        BY <3>3 DEF Serves, At, AtLogin, Coupon, CouponCount, CouponInsert, CouponReport,
           Register, RegisterCheck, RegisterUser, RegisterWallet, RegisterReferral,
           ChangeEmail, Referral, ReferralRead, ReferralWrite, Role, RoleRead, RoleAssign,
           PatchReport, SetRoleReport, Assigns, Guess, GuessRead, GuessWrite, GuessScan,
           GuessReport, Login, LoginQuery, LoginAccept, LoginRefuse, LoginCount, LoginReport
      <4>2. QED
        BY <2>1, <4>1 DEF At
    <3>4. QED
      BY <1>4, <3>1, <3>2, <3>3 DEF Redeem
  <2>4. \A u \in Threads : At(u, "redeem", "credit")' <=> At(u, "redeem", "credit")
    BY <2>1, <2>3 DEF At
  <2>5. \A u \in Threads : At(u, "redeem", "credit") => job'[u].seen = job[u].seen
    BY <2>1, <2>3
  <2>6. QED
    BY <2>2, <2>4, <2>5, OthersKeepBooks DEF MoneyInv
<1>5. QED
  BY <1>1, <1>2, <1>3, <1>4

(* A restart loses what was carried.                                         *)
LEMMA CrashKeepsBooks ==
    ASSUME BooksBalance, BooksAreInts, BooksAreInts', crashes \in Nat, Crash
    PROVE  BooksBalance'
<1>1. /\ UNCHANGED <<cards, wallet, unmatched>> /\ crashes' = crashes + 1
      /\ job' = [t \in Threads |-> None]
  BY DEF Crash, tables
<1>2. Gave' = Gave /\ Got' = Got /\ DOMAIN wallet' = DOMAIN wallet
  BY <1>1 DEF Gave, Got
<1> PICK h, k : h = Carried /\ k = Carried'
  OBVIOUS
<1>3. \A t \in Threads : k[t] = 0
  BY <1>1 DEF Carried, At
<1>4. Sum(k, Threads) = 0
  <2>1. /\ IsFiniteSet(Threads) /\ IntsOn(Threads, k)
        /\ {} \subseteq Threads /\ \A t \in Threads \ {} : k[t] = 0
    BY <1>3 DEF BooksAreInts
  <2>2. Sum(k, Threads) = Sum(k, {})
    BY <2>1, SumOfRest
  <2>3. QED
    BY <2>2, SumOfNone
<1>5. Sum(h, Threads) \in Nat
  <2>1. IsFiniteSet(Threads) /\ \A t \in Threads : h[t] \in Nat
    BY DEF BooksAreInts
  <2>2. QED
    BY <2>1, SumIsNat
<1>6. Sum(Gave, DOMAIN SeedCards) \in Int /\ Sum(Got, DOMAIN wallet) \in Int
      /\ unmatched \in Int
  BY SumIsInt DEF BooksAreInts, IntsOn
<1>7. QED
  BY <1>1, <1>2, <1>4, <1>5, <1>6 DEF BooksBalance

LEMMA MoneyInvHolds == Spec => []MoneyInv
<1>1. Init => MoneyInv
  <2> SUFFICES ASSUME Init
               PROVE  MoneyInv
    OBVIOUS
  <2>1. /\ cards = SeedCards /\ wallet = SeedWallets /\ unmatched = 0
        /\ \A t \in Threads : job[t] = None
    BY DEF Init
  <2>2. RegistrationsAreFresh
    BY <2>1 DEF RegistrationsAreFresh, At
  <2>3. \A c \in DOMAIN SeedCards : Gave[c] = 0
    BY <2>1, StorefrontAssumption DEF Gave
  <2>4. \A u \in DOMAIN wallet : Got[u] = 0
    BY <2>1, StorefrontAssumption DEF Got, Get
  <2>5. \A t \in Threads : Carried[t] = 0
    BY <2>1 DEF Carried, At
  <2>6. IsFiniteSet(DOMAIN wallet)
    BY <2>1, StorefrontAssumption, FS_Subset
  <2>7. ASSUME NEW S, IsFiniteSet(S), NEW f, \A x \in S : f[x] = 0
        PROVE  Sum(f, S) = 0
    <3>1. IntsOn(S, f) /\ {} \subseteq S /\ \A x \in S \ {} : f[x] = 0
      BY <2>7 DEF IntsOn
    <3>2. Sum(f, S) = Sum(f, {})
      BY <2>7, <3>1, SumOfRest
    <3>3. QED
      BY <3>2, SumOfNone
  <2>8. /\ Sum(Gave, DOMAIN SeedCards) = 0 /\ Sum(Got, DOMAIN wallet) = 0
        /\ Sum(Carried, Threads) = 0
    BY <2>3, <2>4, <2>5, <2>6, <2>7, StorefrontAssumption
  <2>9. QED
    BY <2>1, <2>2, <2>8 DEF MoneyInv, BooksBalance
<1>2. JobsInv /\ AccountsInv /\ SpendsInv /\ TypesInv => BooksAreInts
  BY BooksHaveTypes
<1>3. JobsInv /\ AccountsInv /\ RolesInv /\ SpendsInv /\ BooksAreInts /\ BooksAreInts'
         /\ MoneyInv /\ [Next]_vars => MoneyInv'
  <2> SUFFICES ASSUME JobsInv, AccountsInv, RolesInv, SpendsInv, BooksAreInts,
                      BooksAreInts', MoneyInv, [Next]_vars
               PROVE  MoneyInv'
    OBVIOUS
  <2>1. ASSUME NEW t \in Threads, Serves(t)
        PROVE  MoneyInv'
    <3>1. RegistrationsAreFresh'
      BY <2>1, ServingKeepsFresh DEF MoneyInv
    <3>2. BooksBalance'
      BY <2>1, ServingKeepsBooks
    <3>3. QED
      BY <3>1, <3>2 DEF MoneyInv
  <2>2. CASE ~\E t \in Threads : Serves(t)
    <3>1. /\ UNCHANGED tables
          /\ \A t \in Threads : \/ job'[t] = job[t]
                                \/ job'[t] # None => job'[t].step = "start"
      BY <2>2, OtherSteps
    <3>2. RegistrationsAreFresh'
      BY <3>1 DEF MoneyInv, RegistrationsAreFresh, At, tables
    <3>3. CASE Crash
      BY <3>2, <3>3, CrashKeepsBooks DEF MoneyInv, AccountsInv
    <3>4. CASE \E t \in Threads, w \in Work : Accept(t, w)
      <4>1. PICK t \in Threads, w \in Work : Accept(t, w)
        BY <3>4
      <4>2. UNCHANGED <<cards, wallet, unmatched, crashes>>
        BY <4>1 DEF Accept, tables
      <4>3. job[t] = None
        BY <4>1 DEF Accept
      <4>4. PICK n \in Nat \ {0} :
               /\ DOMAIN accepted = 1..(n - 1) /\ DOMAIN accepted' = 1..n
               /\ \A m \in DOMAIN accepted : accepted'[m] = accepted[m]
               /\ job'[t] = [work |-> w, req |-> n, step |-> "start", seen |-> None]
               /\ \A u \in Threads \ {t} : job'[u] = job[u]
        BY <4>1, AcceptIs
      <4>5. \A u \in Threads : /\ At(u, "redeem", "credit")' <=> At(u, "redeem", "credit")
                               /\ At(u, "redeem", "credit") => job'[u].seen = job[u].seen
        BY <4>3, <4>4 DEF At
      <4>6. BooksBalance'
        BY <4>2, <4>5, OthersKeepBooks DEF MoneyInv
      <4>7. QED
        BY <3>2, <4>6 DEF MoneyInv
    <3>5. CASE UNCHANGED vars
      <4>1. BooksBalance'
        BY <3>5, OthersKeepBooks DEF vars, tables, MoneyInv, At
      <4>2. QED
        BY <3>2, <4>1 DEF MoneyInv
    <3>6. QED
      BY <2>2, <3>3, <3>4, <3>5, NextIs
  <2>3. QED
    BY <2>1, <2>2
<1>4. QED
  BY <1>1, <1>2, <1>3, JobsHold, AccountsInvHolds, RolesInvHolds, SpendsInvHolds,
     TypesInvHolds, PTL DEF Spec

(* The sums of the property are those of the books.                          *)
LEMMA CardsGaveIs ==
    ASSUME BooksAreInts, DOMAIN cards = DOMAIN SeedCards
    PROVE  CardsGave = Sum(Gave, DOMAIN SeedCards)
<1> DEFINE S == DOMAIN cards
           Sums(h) == h = [s \in SUBSET S |->
              IF s = {} THEN 0
              ELSE (SeedCards[Any(s)] - cards[Any(s)]) + h[s \ {Any(s)}]]
<1>1. ASSUME NEW h
      PROVE  Sums(h) <=> SumsOf(Gave, S, h)
  <2>1. \A s \in SUBSET S : s # {} => Gave[Any(s)] = SeedCards[Any(s)] - cards[Any(s)]
    BY AnyIsIn DEF Gave
  <2>2. [s \in SUBSET S |-> IF s = {} THEN 0 ELSE Gave[Any(s)] + h[s \ {Any(s)}]]
        = [s \in SUBSET S |->
              IF s = {} THEN 0
              ELSE (SeedCards[Any(s)] - cards[Any(s)]) + h[s \ {Any(s)}]]
    BY <2>1
  <2>3. QED
    BY <2>2 DEF SumsOf
<1>2. PICK g : SumsOf(Gave, S, g)
  BY TableExists DEF BooksAreInts
<1>3. Sum(Gave, S) = g[S]
  BY <1>2, SumIs DEF BooksAreInts
<1>4. \A h : Sums(h) => h[S] = g[S]
  <2>1. IsFiniteSet(S)
    BY DEF BooksAreInts
  <2> HIDE DEF S, Sums
  <2>2. QED
    BY <1>1, <1>3, <2>1, SumIs
<1>5. \E h : Sums(h)
  BY <1>1, <1>2
<1>6. CardsGave = g[S]
  BY <1>4, <1>5, Zenon DEF CardsGave, MapThenSumSet, MapThenFoldSet, Any
<1>7. QED
  BY <1>3, <1>6

LEMMA WalletsGotIs ==
    ASSUME BooksAreInts
    PROVE  WalletsGot = Sum(Got, DOMAIN wallet)
<1> DEFINE S == DOMAIN wallet
           Sums(h) == h = [s \in SUBSET S |->
              IF s = {} THEN 0
              ELSE (wallet[Any(s)] - Get(SeedWallets, Any(s))) + h[s \ {Any(s)}]]
<1>1. ASSUME NEW h
      PROVE  Sums(h) <=> SumsOf(Got, S, h)
  <2>1. \A s \in SUBSET S : s # {} => Got[Any(s)] = wallet[Any(s)] - Get(SeedWallets, Any(s))
    BY AnyIsIn DEF Got
  <2>2. [s \in SUBSET S |-> IF s = {} THEN 0 ELSE Got[Any(s)] + h[s \ {Any(s)}]]
        = [s \in SUBSET S |->
              IF s = {} THEN 0
              ELSE (wallet[Any(s)] - Get(SeedWallets, Any(s))) + h[s \ {Any(s)}]]
    BY <2>1
  <2>3. QED
    BY <2>2 DEF SumsOf
<1>2. PICK g : SumsOf(Got, S, g)
  BY TableExists DEF BooksAreInts
<1>3. Sum(Got, S) = g[S]
  BY <1>2, SumIs DEF BooksAreInts
<1>4. \A h : Sums(h) => h[S] = g[S]
  <2>1. IsFiniteSet(S)
    BY DEF BooksAreInts
  <2> HIDE DEF S, Sums
  <2>2. QED
    BY <1>1, <1>3, <2>1, SumIs
<1>5. \E h : Sums(h)
  BY <1>1, <1>2
<1>6. WalletsGot = g[S]
  BY <1>4, <1>5, Zenon DEF WalletsGot, MapThenSumSet, MapThenFoldSet, Any
<1>7. QED
  BY <1>3, <1>6

LEMMA InFlightIs ==
    ASSUME BooksAreInts
    PROVE  InFlight = Sum(Carried, Threads)
<1> DEFINE S == {t \in Threads : At(t, "redeem", "credit")}
           Sums(h) == h = [s \in SUBSET S |->
              IF s = {} THEN 0 ELSE job[Any(s)].seen + h[s \ {Any(s)}]]
<1>1. ASSUME NEW h
      PROVE  Sums(h) <=> SumsOf(Carried, S, h)
  <2>1. \A s \in SUBSET S : s # {} => Carried[Any(s)] = job[Any(s)].seen
    BY AnyIsIn DEF Carried
  <2>2. [s \in SUBSET S |-> IF s = {} THEN 0 ELSE Carried[Any(s)] + h[s \ {Any(s)}]]
        = [s \in SUBSET S |->
              IF s = {} THEN 0 ELSE job[Any(s)].seen + h[s \ {Any(s)}]]
    BY <2>1
  <2>3. QED
    BY <2>2 DEF SumsOf
<1>2. IsFiniteSet(S) /\ S \subseteq Threads
  BY FS_Subset DEF BooksAreInts
<1>3. PICK g : SumsOf(Carried, S, g)
  BY <1>2, TableExists
<1>4. Sum(Carried, S) = g[S]
  BY <1>2, <1>3, SumIs
<1>5. \A h : Sums(h) => h[S] = g[S]
  BY <1>1, <1>2, <1>4, SumIs
<1>6. \E h : Sums(h)
  BY <1>1, <1>3
<1>7. InFlight = g[S]
  BY <1>5, <1>6, Zenon DEF InFlight, MapThenSumSet, MapThenFoldSet, Any
<1>8. Sum(Carried, Threads) = Sum(Carried, S)
  <2>1. \A t \in Threads \ S : Carried[t] = 0
    BY DEF Carried
  <2> HIDE DEF S
  <2>2. QED
    BY <1>2, <2>1, SumOfRest DEF BooksAreInts
<1>9. QED
  BY <1>4, <1>7, <1>8

(* wallet_redeem: for any cards, threads and requests, whatever redemptions  *)
(* race, what the cards are debited is what the wallets are credited, and a  *)
(* restart can only lose money, never make any.                              *)
THEOREM MoneyHolds == Spec => []MoneyIsConserved
<1>1. SpendsInv /\ MoneyInv /\ BooksAreInts => MoneyIsConserved
  <2> SUFFICES ASSUME SpendsInv, MoneyInv, BooksAreInts
               PROVE  MoneyIsConserved
    OBVIOUS
  <2>1. DOMAIN cards = DOMAIN SeedCards
    BY DEF SpendsInv
  <2>2. /\ CardsGave = Sum(Gave, DOMAIN SeedCards)
        /\ WalletsGot = Sum(Got, DOMAIN wallet)
        /\ InFlight = Sum(Carried, Threads)
    BY <2>1, CardsGaveIs, WalletsGotIs, InFlightIs
  <2>3. QED
    BY <2>2 DEF MoneyInv, BooksBalance, MoneyIsConserved
<1>2. QED
  BY <1>1, BooksHaveTypes, JobsHold, AccountsInvHolds, SpendsInvHolds, TypesInvHolds,
     MoneyInvHolds, PTL

(* If each key's share is at most the number of elements that have that key, *)
(* the sum is at most the number of elements that have one of the keys.      *)
LEMMA SumOfShares ==
    ASSUME NEW W, IsFiniteSet(W), NEW w, NEW K, IsFiniteSet(K), NEW f,
           \A k \in K : f[k] \in Nat /\ f[k] <= Cardinality({n \in W : w[n] = k})
    PROVE  Sum(f, K) <= Cardinality({n \in W : w[n] \in K})
<1> DEFINE Having(T) == {n \in W : w[n] \in T}
           Good == {T \in SUBSET K : Sum(f, T) <= Cardinality(Having(T))}
<1>0. \A k \in K : f[k] \in Int
  <2> SUFFICES ASSUME NEW k \in K PROVE f[k] \in Int
    OBVIOUS
  <2>1. f[k] \in Nat
    BY Zenon
  <2>2. QED
    BY <2>1
<1>1. ASSUME NEW T \in SUBSET K, \A x \in T : T \ {x} \in Good
      PROVE  T \in Good
  <2>1. CASE T = {}
    <3>1. Sum(f, T) = 0
      BY <2>1, SumOfNone
    <3>2. Having(T) = {}
      BY <2>1
    <3>3. Cardinality(Having(T)) = 0
      BY <3>2, FS_EmptySet
    <3>4. QED
      BY <3>1, <3>3
  <2>2. CASE T # {}
    <3>1. PICK x : x \in T
      BY <2>2
    <3>2. PICK U : U = T \ {x}
      OBVIOUS
    <3>3. IsFiniteSet(T) /\ IsFiniteSet(U) /\ U \subseteq K /\ T \subseteq K
      BY <3>2, FS_Subset
    <3>4. Sum(f, T) = f[x] + Sum(f, U)
      <4>1. \A y \in T : f[y] \in Int
        BY <1>0, <3>3, Zenon
      <4>2. Sum(f, T) = f[x] + Sum(f, T \ {x})
        BY <3>1, <3>3, <4>1, SumTake
      <4>3. QED
        BY <3>2, <4>2
    <3>5. Sum(f, U) <= Cardinality(Having(U)) /\ Sum(f, U) \in Nat
      <4>1. U \in Good
        BY <1>1, <3>1, <3>2
      <4>2. Sum(f, U) \in Nat
        BY <3>3, SumIsNat
      <4>3. QED
        BY <4>1, <4>2
    <3>6. f[x] \in Nat /\ f[x] <= Cardinality({n \in W : w[n] = x})
      BY <3>1, <3>3
    <3>7. PICK A, B : A = {n \in W : w[n] = x} /\ B = Having(U)
      OBVIOUS
    <3>8. Having(T) = A \cup B /\ A \cap B = {}
      BY <3>1, <3>2, <3>7
    <3>9. IsFiniteSet(A) /\ IsFiniteSet(B)
      BY <3>7, FS_Subset
    <3>10. /\ Cardinality(A \cup B) = Cardinality(A) + Cardinality(B) - Cardinality(A \cap B)
           /\ Cardinality(A) \in Nat /\ Cardinality(B) \in Nat /\ Cardinality({}) = 0
      BY <3>9, FS_Union, FS_CardinalityType, FS_EmptySet
    <3>11. Cardinality(Having(T)) = Cardinality(A) + Cardinality(B)
      <4>1. PICK H : H = Having(T)
        OBVIOUS
      <4>2. H = A \cup B
        BY <3>8, <4>1
      <4>3. Cardinality(A \cap B) = 0
        BY <3>8, <3>10
      <4>4. Cardinality(H) = Cardinality(A) + Cardinality(B)
        BY <3>10, <4>2, <4>3
      <4>5. QED
        BY <4>1, <4>4
    <3>12. PICK a, b, c, d : /\ a = f[x] /\ b = Sum(f, U)
                             /\ c = Cardinality(A) /\ d = Cardinality(B)
      OBVIOUS
    <3>13. a <= c /\ b <= d /\ a \in Nat /\ b \in Nat /\ c \in Nat /\ d \in Nat
      BY <3>5, <3>6, <3>7, <3>10, <3>12
    <3>14. a + b <= c + d
      BY <3>13
    <3>15. Sum(f, T) <= Cardinality(Having(T))
      BY <3>4, <3>11, <3>12, <3>14
    <3>16. QED
      BY <3>15
  <2>3. QED
    BY <2>1, <2>2
<1> HIDE DEF Good
<1>2. K \in Good
  BY <1>1, SubsetsOneByOne
<1>3. QED
  BY <1>2 DEF Good

-----------------------------------------------------------------------------
(* Counters that are not locked.                                             *)

(* The requests of R that are past the step that counts them.                *)
Uncounted == {"start", "accept", "refuse", "write"}
Pending(n) == \E t \in Threads : job[t] # None /\ job[t].req = n /\ job[t].step \in Uncounted
CountedOf(R) == {n \in R : ~Pending(n)}

Guesses == Accepted("guess")
GuessesAt(k) ==
    {n \in Guesses : <<accepted[n].work.actor, accepted[n].work.ip>> = k}

(* The refused logins for e that may still count: while resets are kept,     *)
(* those that no login let in since has reset. Then those that a tap of      *)
(* request r may count.                                                      *)
TallyNow(e) ==
    IF ResetsAreKept(e)
    THEN {n \in Refused(e) : ~\E s \in Passed(e) : s \in Over /\ n \in accepted[s].after}
    ELSE Refused(e)

TallyFor(e, r) ==
    IF ResetsAreKept(e)
    THEN {n \in Refused(e) :
             ~\E s \in Passed(e) : n \in accepted[s].after /\ s \in accepted[r].after}
    ELSE Refused(e)

GuessesCounted(k) == CountedOf(GuessesAt(k))
LoginsCounted(e) == CountedOf(TallyNow(e))

(* A counter, and a value of it that a thread has read and is about to write,*)
(* is at most the number of requests that count and have been counted.       *)
ReadIsBehind(t) ==
    /\ \A k : At(t, "guess", "write") /\ HitKey(t) = k =>
             job[t].seen <= Cardinality(GuessesCounted(k))
    /\ \A e : AtLogin(t, "write") /\ job[t].work.email = e =>
             job[t].seen <= Cardinality(LoginsCounted(e))
    /\ AtLogin(t, "report") => job[t].work.email \in DOMAIN fails

CountersAreBehind ==
    /\ IsFiniteSet(DOMAIN hits)
    /\ \A k \in DOMAIN hits : hits[k] <= Cardinality(GuessesCounted(k))
    /\ \A e \in DOMAIN fails : fails[e] <= Cardinality(LoginsCounted(e))
    /\ \A t \in Threads : ReadIsBehind(t)

(* What has been reported is at most what has been accepted.                 *)
GuessesBy(a) == {n \in Guesses : accepted[n].work.actor = a}
TapIsBehind(x) ==
    /\ x.work.op = "guess" =>
          x.now \in Nat /\ x.now <= Cardinality(GuessesBy(x.work.actor))
    /\ x.work.op \in {"login", "api_login"} =>
          x.now \in Nat /\ x.now <= Cardinality(TallyFor(x.work.email, x.req))
TapsAreBehind == \A x \in taps : TapIsBehind(x)

(* A step that is past the count leads to one that is.                       *)
LEMMA CountingIsOver ==
    ASSUME NEW t \in Threads, Serves(t)
    PROVE  \/ job[t].step \in Uncounted
           \/ Done(t)
           \/ \E step \in Steps \ Uncounted : \E seen : Goto(t, step, seen)
<1> USE DEF At, Steps, Uncounted
<1>1. CASE Redeem(t)
  BY <1>1 DEF Redeem, RedeemRead, RedeemDebit, RedeemCredit, RedeemReport
<1>2. CASE Coupon(t)
  BY <1>2 DEF Coupon, CouponCount, CouponInsert, CouponReport
<1>3. CASE Register(t)
  BY <1>3 DEF Register, RegisterCheck, RegisterUser, RegisterWallet, RegisterReferral
<1>4. CASE ChangeEmail(t)
  BY <1>4 DEF ChangeEmail
<1>5. CASE Referral(t)
  BY <1>5 DEF Referral, ReferralRead, ReferralWrite
<1>6. CASE Role(t)
  BY <1>6 DEF Role, RoleRead, RoleAssign, PatchReport, SetRoleReport
<1>7. CASE Guess(t)
  BY <1>7 DEF Guess, GuessRead, GuessWrite, GuessScan, GuessReport
<1>8. CASE Login(t)
  BY <1>8 DEF Login, LoginQuery, LoginAccept, LoginRefuse, LoginCount, LoginReport, AtLogin
<1>9. QED
  BY <1>1, <1>2, <1>3, <1>4, <1>5, <1>6, <1>7, <1>8 DEF Serves

(* No step makes a counted request uncounted.                                *)
LEMMA CountedStay ==
    ASSUME JobsInv, [Next]_vars, NEW n \in DOMAIN accepted, ~Pending(n)
    PROVE  ~Pending(n)'
<1>1. ASSUME NEW t \in Threads, Serves(t)
      PROVE  ~Pending(n)'
  <2>1. /\ Moves(t) /\ job[t] # None /\ JobsAreAccepted
        /\ \A u \in Threads \ {t} : job'[u] = job[u]
        /\ job'[t] # None => job'[t].req = job[t].req
    BY <1>1, ServesMoves, MoveKeepsJobs DEF Moves, JobsInv
  <2>2. job'[t] # None /\ job'[t].step \in Uncounted => job[t].step \in Uncounted
    <3>1. CASE Done(t)
      BY <2>1, <3>1, DoneIs
    <3>2. CASE \E step \in Steps \ Uncounted : \E seen : Goto(t, step, seen)
      <4>1. PICK step, seen : step \in Steps \ Uncounted /\ Goto(t, step, seen)
        BY <3>2
      <4>2. job'[t].step = step
        BY <2>1, <4>1, GotoSets
      <4>3. QED
        BY <4>1, <4>2
    <3>3. QED
      BY <1>1, <3>1, <3>2, CountingIsOver
  <2>3. QED
    BY <2>1, <2>2 DEF Pending
<1>2. CASE ~\E t \in Threads : Serves(t)
  <2>1. ASSUME NEW t \in Threads, NEW w \in Work, Accept(t, w)
        PROVE  ~Pending(n)'
    <3>1. PICK m \in Nat \ {0} :
              /\ DOMAIN accepted = 1..(m - 1) /\ DOMAIN accepted' = 1..m
              /\ accepted'[m] = [work |-> w, after |-> Over]
              /\ \A x \in DOMAIN accepted : accepted'[x] = accepted[x]
              /\ job'[t] = [work |-> w, req |-> m, step |-> "start", seen |-> None]
              /\ \A u \in Threads \ {t} : job'[u] = job[u]
              /\ job' = [u \in Threads |-> job'[u]]
      BY <2>1, AcceptIs
    <3>2. job'[t].req = m /\ m # n
      BY <3>1
    <3>3. QED
      BY <3>1, <3>2 DEF Pending
  <2>2. CASE Crash
    BY <2>2 DEF Crash, Pending
  <2>3. CASE UNCHANGED vars
    BY <2>3 DEF vars, Pending
  <2>4. QED
    BY <1>2, <2>1, <2>2, <2>3, NextIs
<1>3. QED
  BY <1>1, <1>2

(* The requests accepted are finitely many, and keep what they ask for.      *)
LEMMA AcceptedGrow ==
    ASSUME JobsInv, [Next]_vars
    PROVE  /\ IsFiniteSet(DOMAIN accepted) /\ IsFiniteSet(DOMAIN accepted')
           /\ DOMAIN accepted \subseteq DOMAIN accepted'
           /\ \A n \in DOMAIN accepted : accepted'[n] = accepted[n]
<1>1. DOMAIN accepted \subseteq DOMAIN accepted'
      /\ \A n \in DOMAIN accepted : accepted'[n] = accepted[n]
  <2>1. CASE \E t \in Threads : Serves(t)
    BY <2>1, ServesMoves DEF Moves
  <2>2. CASE ~\E t \in Threads : Serves(t)
    BY <2>2, OtherSteps
  <2>3. QED
    BY <2>1, <2>2
<1>2. JobsInv'
  <2>1. CASE \E t \in Threads : Serves(t)
    BY <2>1, ServesMoves, MoveKeepsJobs
  <2>2. CASE UNCHANGED vars
    BY <2>2 DEF vars, JobsInv, JobsAreAccepted, AcceptedAreNumbered, ServedAreNotOver,
       TapsAreOfAccepted, IsJob
  <2>3. QED
    BY <2>1, <2>2, NextIs, AcceptKeepsJobs, CrashKeepsJobs
<1>3. IsFiniteSet(DOMAIN accepted)
  <2>1. PICK n \in Nat : DOMAIN accepted = 1..n
    BY DEF JobsInv, AcceptedAreNumbered
  <2>2. QED
    BY <2>1, FS_Interval
<1>4. IsFiniteSet(DOMAIN accepted')
  <2>1. PICK n \in Nat : DOMAIN accepted' = 1..n
    BY <1>2 DEF JobsInv, AcceptedAreNumbered
  <2>2. QED
    BY <2>1, FS_Interval
<1>5. QED
  BY <1>1, <1>3, <1>4

LEMMA CountsGrow ==
    ASSUME JobsInv, [Next]_vars, NEW k
    PROVE  /\ GuessesCounted(k) \subseteq GuessesCounted(k)'
           /\ Cardinality(GuessesCounted(k)) <= Cardinality(GuessesCounted(k)')
           /\ Cardinality(GuessesCounted(k)) \in Nat
           /\ Cardinality(GuessesCounted(k)') \in Nat
           /\ IsFiniteSet(GuessesCounted(k)')
<1>1. /\ IsFiniteSet(DOMAIN accepted) /\ IsFiniteSet(DOMAIN accepted')
      /\ DOMAIN accepted \subseteq DOMAIN accepted'
      /\ \A n \in DOMAIN accepted : accepted'[n] = accepted[n]
      /\ \A n \in DOMAIN accepted : ~Pending(n) => ~Pending(n)'
  BY AcceptedGrow, CountedStay
<1> PICK A, B : A = GuessesCounted(k) /\ B = GuessesCounted(k)'
  OBVIOUS
<1>2. A \subseteq B
  BY <1>1 DEF GuessesCounted, GuessesAt, Guesses, Accepted, CountedOf
<1>3. B \subseteq DOMAIN accepted'
  BY DEF GuessesCounted, GuessesAt, Guesses, Accepted, CountedOf
<1>4. IsFiniteSet(B)
  BY <1>1, <1>3, FS_Subset
<1>5. /\ Cardinality(A) <= Cardinality(B)
      /\ Cardinality(A) \in Nat /\ Cardinality(B) \in Nat
  BY <1>2, <1>4, FS_Subset, FS_CardinalityType
<1>6. QED
  BY <1>2, <1>4, <1>5

(* Verdicts are never taken back, and a login that is let in anew is being   *)
(* served, before the step and after it.                                     *)
LEMMA VerdictsGrow ==
    ASSUME JobsInv, VerdictsInv, [Next]_vars
    PROVE  /\ refused \subseteq refused' /\ passed \subseteq passed'
           /\ \A n \in passed' \ passed :
                 /\ n \notin Over'
                 /\ \A m \in DOMAIN accepted : n \notin accepted[m].after
<1>1. CASE \E t \in Threads : LoginQuery(t)
  <2>1. PICK t \in Threads : LoginQuery(t)
    BY <1>1
  <2>2. /\ passed' \subseteq passed \cup {job[t].req}
        /\ refused \subseteq refused' /\ passed \subseteq passed'
        /\ Goto(t, "accept", None) \/ Goto(t, "refuse", None)
        /\ job[t] # None
    BY <2>1 DEF LoginQuery, AtLogin, At
  <2>3. JobsAreAccepted
    BY DEF JobsInv
  <2>4. job'[t].req = job[t].req /\ job'[t].step \in {"accept", "refuse"}
    BY <2>2, <2>3, GotoSets
  <2>5. job'[t] # None
    <3>1. PICK step \in Steps : Goto(t, step, None)
      BY <2>2 DEF Steps
    <3>2. job'[t] = [work |-> job[t].work, req |-> job[t].req,
                     step |-> step, seen |-> None]
      BY <2>2, <2>3, <3>1, GotoIs
    <3>3. job[t].work \in Work /\ job[t].req \in Nat
      BY <2>2 DEF JobsInv, JobsAreAccepted, IsJob, AcceptedAreNumbered
    <3>4. job'[t] \in [work : Work, req : Nat, step : Steps, seen : Nat \cup {None}]
      BY <3>1, <3>2, <3>3
    <3>5. QED
      BY <3>4, WorkAssumption
  <2>6. job[t].req \notin Over'
    BY <2>4, <2>5 DEF Over
  <2>7. \A m \in DOMAIN accepted : job[t].req \notin accepted[m].after
    BY <2>2 DEF JobsInv, ServedAreNotOver
  <2>8. QED
    BY <2>2, <2>6, <2>7
<1>2. CASE ~\E t \in Threads : LoginQuery(t)
  <2>1. UNCHANGED outcomes
    <3>1. CASE \E t \in Threads : Serves(t)
      <4>1. PICK t \in Threads : Serves(t)
        BY <3>1
      <4>2. CASE ~Login(t)
        BY <4>1, <4>2, NoLogin
      <4>3. CASE Login(t)
        BY <1>2, <4>3 DEF Login, LoginAccept, LoginRefuse, LoginCount, LoginReport, history
      <4>4. QED
        BY <4>2, <4>3
    <3>2. CASE ~\E t \in Threads : Serves(t)
      BY <3>2, NextIs DEF Accept, Crash, vars
    <3>3. QED
      BY <3>1, <3>2
  <2>2. QED
    BY <2>1 DEF outcomes
<1>3. QED
  BY <1>1, <1>2

LEMMA OneMore ==
    ASSUME NEW A, NEW B, A \subseteq B, IsFiniteSet(B), NEW n \in B, n \notin A
    PROVE  Cardinality(A) + 1 <= Cardinality(B)
<1>1. IsFiniteSet(A) /\ IsFiniteSet(A \cup {n}) /\ A \cup {n} \subseteq B
  BY FS_Subset
<1>2. Cardinality(A \cup {n}) = Cardinality(A) + 1
  BY <1>1, FS_AddElement
<1>3. Cardinality(A \cup {n}) <= Cardinality(B)
  BY <1>1, FS_Subset
<1>4. QED
  BY <1>2, <1>3

(* Resets once lost stay lost.                                               *)
LEMMA ResetsStayLost ==
    ASSUME JobsInv, VerdictsInv, [Next]_vars, NEW e
    PROVE  /\ Refused(e) \subseteq Refused(e)' /\ Passed(e) \subseteq Passed(e)'
           /\ ResetsAreKept(e)' => ResetsAreKept(e)
<1>1. /\ DOMAIN accepted \subseteq DOMAIN accepted'
      /\ \A n \in DOMAIN accepted : accepted'[n] = accepted[n]
      /\ refused \subseteq refused' /\ passed \subseteq passed'
      /\ refused \cup passed \subseteq DOMAIN accepted
  BY AcceptedGrow, VerdictsGrow DEF VerdictsInv
<1>2. Refused(e) \subseteq Refused(e)' /\ Passed(e) \subseteq Passed(e)'
  BY <1>1 DEF Refused, Passed
<1>3. Refused(e) \cup Passed(e) \subseteq DOMAIN accepted
  BY <1>1 DEF Refused, Passed
<1>4. QED
  BY <1>1, <1>2, <1>3 DEF ResetsAreKept, Overlap

(* What a tap may count only grows: a login that is let in later is over for *)
(* nobody yet.                                                               *)
LEMMA TallyGrows ==
    ASSUME JobsInv, VerdictsInv, [Next]_vars, NEW e, NEW r \in DOMAIN accepted
    PROVE  TallyFor(e, r) \subseteq TallyFor(e, r)'
<1>1. /\ \A n \in DOMAIN accepted : accepted'[n] = accepted[n]
      /\ refused \cup passed \subseteq DOMAIN accepted
      /\ \A s \in passed' \ passed : s \notin accepted[r].after
  BY AcceptedGrow, VerdictsGrow DEF VerdictsInv
<1>2. /\ Refused(e) \subseteq Refused(e)' /\ Passed(e) \subseteq Passed(e)'
      /\ ResetsAreKept(e)' => ResetsAreKept(e)
  BY ResetsStayLost
<1>3. CASE ~ResetsAreKept(e)'
  BY <1>2, <1>3 DEF TallyFor
<1>4. CASE ResetsAreKept(e)'
  <2>1. ASSUME NEW n \in Refused(e), NEW s \in Passed(e)',
               n \in accepted'[s].after, s \in accepted'[r].after
        PROVE  s \in Passed(e) /\ n \in accepted[s].after /\ s \in accepted[r].after
    BY <1>1, <2>1 DEF Passed
  <2>2. QED
    BY <1>2, <1>4, <2>1 DEF TallyFor
<1>5. QED
  BY <1>3, <1>4

(* And so does what a counter may count, but for a login that is let in and  *)
(* resets it, and for a restart.                                             *)
Clears(t, e) == LoginAccept(t) /\ job[t].work.email = e /\ ResetsAreKept(e)

LEMMA CountableGrow ==
    ASSUME JobsInv, VerdictsInv, [Next]_vars, NEW e,
           \/ \E t \in Threads : Serves(t) /\ ~Clears(t, e)
           \/ \E t \in Threads, w \in Work : Accept(t, w)
           \/ UNCHANGED vars
    PROVE  LoginsCounted(e) \subseteq LoginsCounted(e)'
<1>1. /\ \A n \in DOMAIN accepted : accepted'[n] = accepted[n]
      /\ \A n \in DOMAIN accepted : ~Pending(n) => ~Pending(n)'
      /\ refused \cup passed \subseteq DOMAIN accepted
      /\ \A s \in passed' \ passed : s \notin Over'
  BY AcceptedGrow, CountedStay, VerdictsGrow DEF VerdictsInv
<1>2. /\ Refused(e) \subseteq Refused(e)' /\ Passed(e) \subseteq Passed(e)'
      /\ ResetsAreKept(e)' => ResetsAreKept(e)
  BY ResetsStayLost
<1>3. ASSUME NEW s \in Passed(e), ResetsAreKept(e), s \in Over'
      PROVE  s \in Over
  <2>1. s \in passed /\ s \in DOMAIN accepted /\ accepted[s].work.email = e
    BY <1>1 DEF Passed
  <2>2. SUFFICES ASSUME NEW t \in Threads, job[t] # None, job[t].req = s
                 PROVE  FALSE
    BY <2>1 DEF Over
  <2>3. /\ job[t].work.op \in LoginOps /\ job[t].step = "accept"
        /\ job[t].work.email = e
    BY <2>1, <2>2 DEF VerdictsInv, VerdictIsOf, JobsInv, JobsAreAccepted, IsJob
  <2>4. job'[t] # job[t]
    BY <1>3, <2>2 DEF Over
  <2>5. CASE \E u \in Threads : Serves(u) /\ ~Clears(u, e)
    <3>1. PICK u \in Threads : Serves(u) /\ ~Clears(u, e)
      BY <2>5
    <3>2. u = t
      BY <2>4, <3>1, ServesMoves, MoveKeepsJobs
    <3>3. Login(t)
      BY <2>3, <3>1, <3>2, NoLogin
    <3>4. LoginAccept(t)
      BY <2>3, <3>3 DEF Login, LoginQuery, LoginRefuse, LoginCount, LoginReport, AtLogin, At
    <3>5. QED
      BY <1>3, <2>3, <3>1, <3>2, <3>4 DEF Clears
  <2>6. CASE \E u \in Threads, w \in Work : Accept(u, w)
    <3>1. PICK u \in Threads, w \in Work : Accept(u, w)
      BY <2>6
    <3>2. job[u] = None /\ \A v \in Threads \ {u} : job'[v] = job[v]
      <4>1. job[u] = None
        BY <3>1 DEF Accept
      <4>2. \A v \in Threads \ {u} : job'[v] = job[v]
        BY <3>1, AcceptIs
      <4>3. QED
        BY <4>1, <4>2
    <3>3. QED
      BY <2>2, <2>4, <3>2
  <2>7. CASE UNCHANGED vars
    BY <2>4, <2>7 DEF vars
  <2>8. QED
    BY <2>5, <2>6, <2>7
<1>4. TallyNow(e) \subseteq TallyNow(e)'
  <2>1. CASE ~ResetsAreKept(e)'
    BY <1>2, <2>1 DEF TallyNow
  <2>2. CASE ResetsAreKept(e)'
    <3>1. ASSUME NEW n \in Refused(e), NEW s \in Passed(e)',
                 s \in Over', n \in accepted'[s].after
          PROVE  s \in Passed(e) /\ s \in Over /\ n \in accepted[s].after
      <4>1. s \in passed /\ accepted'[s] = accepted[s]
        BY <1>1, <3>1 DEF Passed
      <4>2. s \in Passed(e)
        BY <4>1 DEF Passed
      <4>3. QED
        BY <1>2, <1>3, <2>2, <3>1, <4>1, <4>2
    <3>2. QED
      BY <1>2, <2>2, <3>1 DEF TallyNow
  <2>3. QED
    BY <2>1, <2>2
<1>5. TallyNow(e) \subseteq DOMAIN accepted
  BY <1>1 DEF TallyNow, Refused
<1>6. QED
  BY <1>1, <1>4, <1>5 DEF LoginsCounted, CountedOf

LEMMA LoginsAreFinite ==
    ASSUME JobsInv, VerdictsInv, VerdictsInv', [Next]_vars, NEW e
    PROVE  /\ Cardinality(LoginsCounted(e)) \in Nat
           /\ Cardinality(LoginsCounted(e)') \in Nat
           /\ IsFiniteSet(LoginsCounted(e)')
           /\ LoginsCounted(e) \subseteq LoginsCounted(e)' =>
                 Cardinality(LoginsCounted(e)) <= Cardinality(LoginsCounted(e)')
<1>1. /\ IsFiniteSet(DOMAIN accepted) /\ IsFiniteSet(DOMAIN accepted')
      /\ refused \subseteq DOMAIN accepted /\ refused' \subseteq DOMAIN accepted'
  BY AcceptedGrow DEF VerdictsInv
<1> PICK A, B : A = LoginsCounted(e) /\ B = LoginsCounted(e)'
  OBVIOUS
<1>2. A \subseteq refused /\ B \subseteq refused'
  BY DEF LoginsCounted, CountedOf, TallyNow, Refused
<1>3. IsFiniteSet(A) /\ IsFiniteSet(B)
  BY <1>1, <1>2, FS_Subset
<1>4. A \subseteq B => Cardinality(A) <= Cardinality(B)
  BY <1>3, FS_Subset
<1>5. QED
  BY <1>3, <1>4, FS_CardinalityType

(* The request that a thread counts is one more.                             *)
LEMMA CountingGuess ==
    ASSUME JobsInv, [Next]_vars, NEW t \in Threads, Serves(t),
           job[t].step \in Uncounted, job'[t] # None => job'[t].step \notin Uncounted,
           NEW k, job[t].req \in GuessesAt(k)
    PROVE  Cardinality(GuessesCounted(k)) + 1 <= Cardinality(GuessesCounted(k)')
<1> PICK n : n = job[t].req
  OBVIOUS
<1>1. /\ Moves(t) /\ job[t] # None /\ JobsAreAccepted
      /\ \A u \in Threads \ {t} : job'[u] = job[u]
      /\ accepted' = accepted
  BY ServesMoves, MoveKeepsJobs DEF Moves, JobsInv
<1>2. Pending(n) /\ ~Pending(n)'
  BY <1>1 DEF Pending, JobsAreAccepted
<1>3. n \in GuessesCounted(k)' /\ n \notin GuessesCounted(k)
  BY <1>1, <1>2 DEF GuessesCounted, CountedOf, GuessesAt, Guesses, Accepted
<1>4. IsFiniteSet(GuessesCounted(k)') /\ GuessesCounted(k) \subseteq GuessesCounted(k)'
  BY CountsGrow
<1>5. QED
  BY <1>3, <1>4, OneMore

LEMMA CountingLogin ==
    ASSUME JobsInv, VerdictsInv, VerdictsInv', [Next]_vars, NEW t \in Threads,
           LoginCount(t), NEW e, job[t].work.email = e
    PROVE  Cardinality(LoginsCounted(e)) + 1 <= Cardinality(LoginsCounted(e)')
<1> PICK n : n = job[t].req
  OBVIOUS
<1>1. Serves(t) /\ ~LoginAccept(t)
  BY DEF Serves, Login, LoginCount, LoginAccept, AtLogin, At
<1>2. /\ Moves(t) /\ job[t] # None /\ JobsAreAccepted /\ IsJob(job[t])
      /\ \A u \in Threads \ {t} : job'[u] = job[u]
      /\ accepted' = accepted /\ refused' = refused /\ passed' = passed
  BY <1>1, ServesMoves, MoveKeepsJobs DEF Moves, JobsInv, LoginCount, history, outcomes
<1>3. job'[t].step = "report" /\ job[t].step = "write" /\ job[t].work.op \in LoginOps
  <2>1. Goto(t, "report", None) /\ AtLogin(t, "write")
    BY DEF LoginCount
  <2>2. QED
    BY <1>2, <2>1, GotoSets DEF AtLogin, At, LoginOps
<1>4. Pending(n) /\ ~Pending(n)'
  BY <1>2, <1>3 DEF Pending, JobsAreAccepted, Uncounted
<1>5. n \in Refused(e)'
  BY <1>2, <1>3 DEF VerdictsInv, VerdictIsOf, Refused, IsJob
<1>6. \A s \in Passed(e)' : n \notin accepted'[s].after
  BY <1>2 DEF Passed, VerdictsInv, JobsInv, ServedAreNotOver
<1>7. n \in LoginsCounted(e)' /\ n \notin LoginsCounted(e)
  BY <1>4, <1>5, <1>6 DEF LoginsCounted, CountedOf, TallyNow
<1>8. IsFiniteSet(LoginsCounted(e)') /\ LoginsCounted(e) \subseteq LoginsCounted(e)'
  BY <1>1, LoginsAreFinite, CountableGrow DEF Clears
<1>9. QED
  BY <1>7, <1>8, OneMore

(* Where the counters have not changed, or only by the request at hand.      *)
LEMMA ServingKeepsBehind ==
    ASSUME JobsInv, VerdictsInv, VerdictsInv', CountersAreNatural, CountersAreNatural',
           CountersAreBehind, [Next]_vars, NEW t \in Threads, Serves(t), ~LoginAccept(t)
    PROVE  CountersAreBehind'
<1>1. /\ Moves(t) /\ job[t] # None /\ JobsAreAccepted /\ IsJob(job[t])
      /\ \A u \in Threads \ {t} : job'[u] = job[u]
      /\ job'[t] # None => job'[t].work = job[t].work
  BY ServesMoves, MoveKeepsJobs DEF Moves, JobsInv
<1>2. /\ \A k : /\ Cardinality(GuessesCounted(k)) <= Cardinality(GuessesCounted(k)')
                /\ Cardinality(GuessesCounted(k)) \in Nat
                /\ Cardinality(GuessesCounted(k)') \in Nat
      /\ \A e : /\ Cardinality(LoginsCounted(e)) <= Cardinality(LoginsCounted(e)')
                /\ Cardinality(LoginsCounted(e)) \in Nat
                /\ Cardinality(LoginsCounted(e)') \in Nat
  BY CountsGrow, CountableGrow, LoginsAreFinite DEF Clears
<1>3. ASSUME NEW u \in Threads \ {t}, DOMAIN fails \subseteq DOMAIN fails'
      PROVE  ReadIsBehind(u)'
  <2>1. job'[u] = job[u] /\ ReadIsBehind(u)
    BY <1>1 DEF CountersAreBehind
  <2>2. At(u, "guess", "write") \/ AtLogin(u, "write") => job[u].seen \in Nat
    BY DEF CountersAreNatural
  <2>3. ASSUME NEW k, At(u, "guess", "write")', HitKey(u)' = k
        PROVE  job'[u].seen <= Cardinality(GuessesCounted(k)')
    <3>1. At(u, "guess", "write") /\ HitKey(u) = k
      BY <2>1, <2>3 DEF At, HitKey
    <3>2. job[u].seen <= Cardinality(GuessesCounted(k)) /\ job[u].seen \in Nat
      BY <2>1, <2>2, <3>1 DEF ReadIsBehind
    <3>3. QED
      BY <1>2, <2>1, <3>2
  <2>4. ASSUME NEW e, AtLogin(u, "write")', job'[u].work.email = e
        PROVE  job'[u].seen <= Cardinality(LoginsCounted(e)')
    <3>1. AtLogin(u, "write") /\ job[u].work.email = e
      BY <2>1, <2>4 DEF At, AtLogin
    <3>2. job[u].seen <= Cardinality(LoginsCounted(e)) /\ job[u].seen \in Nat
      BY <2>1, <2>2, <3>1 DEF ReadIsBehind
    <3>3. QED
      BY <1>2, <2>1, <3>2
  <2>5. AtLogin(u, "report")' => job'[u].work.email \in DOMAIN fails'
    BY <1>3, <2>1 DEF ReadIsBehind, At, AtLogin
  <2>6. QED
    BY <2>3, <2>4, <2>5 DEF ReadIsBehind
<1>4. ASSUME hits' = hits
      PROVE  IsFiniteSet(DOMAIN hits')
             /\ \A k \in DOMAIN hits' : hits'[k] <= Cardinality(GuessesCounted(k)')
  <2>1. ASSUME NEW k \in DOMAIN hits
        PROVE  hits[k] <= Cardinality(GuessesCounted(k)')
    <3>1. hits[k] \in Nat /\ hits[k] <= Cardinality(GuessesCounted(k))
      BY DEF CountersAreNatural, CountersAreBehind
    <3>2. QED
      BY <1>2, <3>1
  <2>2. QED
    BY <1>4, <2>1 DEF CountersAreBehind
<1>5. ASSUME NEW e \in DOMAIN fails
      PROVE  fails[e] <= Cardinality(LoginsCounted(e)')
  <2>1. fails[e] \in Nat /\ fails[e] <= Cardinality(LoginsCounted(e))
    BY DEF CountersAreNatural, CountersAreBehind
  <2>2. QED
    BY <1>2, <2>1
<1>6. CASE GuessRead(t)
  <2> PICK k, n : k = HitKey(t) /\ n = Get(hits, k)
    OBVIOUS
  <2>1. At(t, "guess", "start") /\ Goto(t, "write", n) /\ UNCHANGED <<hits, fails>>
    BY <1>6 DEF GuessRead, counters
  <2>2. job'[t].seen = n /\ job'[t].work = job[t].work
    BY <1>1, <2>1, GotoSets
  <2>3. n \in Nat /\ n <= Cardinality(GuessesCounted(k))
    BY <1>2 DEF Get, CountersAreBehind, CountersAreNatural
  <2>4. n <= Cardinality(GuessesCounted(k)')
    BY <1>2, <2>3
  <2>5. HitKey(t)' = k /\ ~AtLogin(t, "write")' /\ ~AtLogin(t, "report")'
    BY <2>1, <2>2 DEF HitKey, At, AtLogin
  <2>6. ReadIsBehind(t)'
    BY <2>2, <2>4, <2>5 DEF ReadIsBehind
  <2>7. QED
    BY <1>3, <1>4, <1>5, <2>1, <2>6 DEF CountersAreBehind
<1>7. CASE LoginRefuse(t)
  <2> PICK e, n : e = job[t].work.email /\ n = Get(fails, e)
    OBVIOUS
  <2>1. AtLogin(t, "refuse") /\ Goto(t, "write", n) /\ UNCHANGED <<hits, fails>>
    BY <1>7 DEF LoginRefuse, counters
  <2>2. job'[t].seen = n /\ job'[t].work = job[t].work /\ job'[t].step = "write"
    BY <1>1, <2>1, GotoSets
  <2>3. n \in Nat /\ n <= Cardinality(LoginsCounted(e))
    BY <1>2 DEF Get, CountersAreBehind, CountersAreNatural
  <2>4. n <= Cardinality(LoginsCounted(e)')
    BY <1>2, <2>3
  <2>5. ~At(t, "guess", "write")' /\ ~AtLogin(t, "report")'
    BY <2>1, <2>2 DEF At, AtLogin
  <2>6. ReadIsBehind(t)'
    BY <2>2, <2>4, <2>5 DEF ReadIsBehind
  <2>7. QED
    BY <1>3, <1>4, <1>5, <2>1, <2>6 DEF CountersAreBehind
<1>8. CASE GuessWrite(t)
  <2> PICK k, n : k = HitKey(t) /\ n = job[t].seen
    OBVIOUS
  <2>1. /\ At(t, "guess", "write") /\ Goto(t, "scan", None)
        /\ hits' = Put(hits, k, n + 1) /\ fails' = fails
    BY <1>8 DEF GuessWrite
  <2>2. job'[t].step = "scan"
    BY <1>1, <2>1, GotoSets
  <2>3. ReadIsBehind(t)'
    <3>1. ~At(t, "guess", "write")' /\ ~AtLogin(t, "write")' /\ ~AtLogin(t, "report")'
      BY <2>2 DEF At, AtLogin
    <3>2. QED
      BY <3>1 DEF ReadIsBehind
  <2>4. n \in Nat /\ n <= Cardinality(GuessesCounted(k))
    BY <2>1 DEF CountersAreBehind, ReadIsBehind, CountersAreNatural
  <2>5. Cardinality(GuessesCounted(k)) + 1 <= Cardinality(GuessesCounted(k)')
    <3>1. job[t].req \in GuessesAt(k)
      BY <1>1, <2>1 DEF At, IsJob, GuessesAt, Guesses, Accepted, HitKey
    <3>2. job[t].step \in Uncounted /\ job'[t].step \notin Uncounted
      BY <2>1, <2>2 DEF At, Uncounted
    <3>3. QED
      BY <3>1, <3>2, CountingGuess
  <2>6. n + 1 <= Cardinality(GuessesCounted(k)')
    BY <1>2, <2>4, <2>5
  <2>7. /\ DOMAIN hits' = DOMAIN hits \cup {k} /\ hits'[k] = n + 1
        /\ \A x \in DOMAIN hits \ {k} : hits'[x] = hits[x]
    <3>1. PICK m : m = n + 1
      OBVIOUS
    <3>2. hits' = Put(hits, k, m)
      BY <2>1, <3>1
    <3>3. QED
      BY <3>1, <3>2 DEF Put
  <2>8. ASSUME NEW x \in DOMAIN hits \ {k}
        PROVE  hits'[x] <= Cardinality(GuessesCounted(x)')
    <3>1. hits[x] \in Nat /\ hits[x] <= Cardinality(GuessesCounted(x))
      BY DEF CountersAreNatural, CountersAreBehind
    <3>2. QED
      BY <1>2, <2>7, <3>1
  <2>9. IsFiniteSet(DOMAIN hits')
    BY <2>7, FS_AddElement DEF CountersAreBehind
  <2>10. \A x \in DOMAIN hits' : hits'[x] <= Cardinality(GuessesCounted(x)')
    BY <2>6, <2>7, <2>8
  <2>11. QED
    BY <1>3, <1>5, <2>1, <2>3, <2>9, <2>10 DEF CountersAreBehind
<1>9. CASE LoginCount(t)
  <2> PICK e, n : e = job[t].work.email /\ n = job[t].seen
    OBVIOUS
  <2>1. /\ AtLogin(t, "write") /\ Goto(t, "report", None)
        /\ fails' = Put(fails, e, n + 1) /\ hits' = hits
    BY <1>9 DEF LoginCount
  <2>2. job'[t].step = "report" /\ job'[t].work = job[t].work
    BY <1>1, <2>1, GotoSets
  <2>3. n \in Nat /\ n <= Cardinality(LoginsCounted(e))
    BY <2>1 DEF CountersAreBehind, ReadIsBehind, CountersAreNatural
  <2>4. Cardinality(LoginsCounted(e)) + 1 <= Cardinality(LoginsCounted(e)')
    BY <1>9, CountingLogin
  <2>5. n + 1 <= Cardinality(LoginsCounted(e)')
    BY <1>2, <2>3, <2>4
  <2>6. /\ DOMAIN fails' = DOMAIN fails \cup {e} /\ fails'[e] = n + 1
        /\ \A x \in DOMAIN fails \ {e} : fails'[x] = fails[x]
    <3>1. PICK m : m = n + 1
      OBVIOUS
    <3>2. fails' = Put(fails, e, m)
      BY <2>1, <3>1
    <3>3. QED
      BY <3>1, <3>2 DEF Put
  <2>7. ReadIsBehind(t)'
    <3>1. ~At(t, "guess", "write")' /\ ~AtLogin(t, "write")'
      BY <2>2 DEF At, AtLogin
    <3>2. job'[t].work.email \in DOMAIN fails'
      BY <2>2, <2>6
    <3>3. QED
      BY <3>1, <3>2 DEF ReadIsBehind
  <2>8. \A x \in DOMAIN fails' : fails'[x] <= Cardinality(LoginsCounted(x)')
    BY <1>5, <2>5, <2>6
  <2>9. QED
    BY <1>3, <1>4, <2>1, <2>6, <2>7, <2>8 DEF CountersAreBehind
<1>10. CASE LoginQuery(t) \/ LoginReport(t) \/ GuessScan(t) \/ GuessReport(t)
  <2>1. /\ UNCHANGED <<hits, fails>>
        /\ \/ Goto(t, "accept", None) \/ Goto(t, "refuse", None)
           \/ At(t, "guess", "scan") /\ Goto(t, "report", DOMAIN hits)
           \/ Done(t)
    BY <1>10 DEF LoginQuery, LoginReport, GuessScan, GuessReport, counters
  <2>2. ~At(t, "guess", "write")' /\ ~AtLogin(t, "write")' /\ ~AtLogin(t, "report")'
    <3>1. CASE Goto(t, "accept", None)
      <4>1. job'[t].step = "accept"
        BY <1>1, <3>1, GotoSets
      <4>2. QED
        BY <4>1 DEF At, AtLogin
    <3>2. CASE Goto(t, "refuse", None)
      <4>1. job'[t].step = "refuse"
        BY <1>1, <3>2, GotoSets
      <4>2. QED
        BY <4>1 DEF At, AtLogin
    <3>3. CASE At(t, "guess", "scan") /\ Goto(t, "report", DOMAIN hits)
      <4>1. job'[t].step = "report" /\ job'[t].work = job[t].work
        BY <1>1, <3>3, GotoSets
      <4>2. QED
        BY <3>3, <4>1 DEF At, AtLogin
    <3>4. CASE Done(t)
      BY <1>1, <3>4, DoneIs DEF At, AtLogin
    <3>5. QED
      BY <2>1, <3>1, <3>2, <3>3, <3>4
  <2>3. ReadIsBehind(t)'
    BY <2>2 DEF ReadIsBehind
  <2>4. QED
    BY <1>3, <1>4, <1>5, <2>1, <2>3 DEF CountersAreBehind
<1>11. CASE ~Guess(t) /\ ~Login(t)
  <2>1. /\ job[t].work.op \notin {"guess", "login", "api_login"}
        /\ UNCHANGED <<hits, fails>>
    BY <1>11 DEF Serves, counters, At, Redeem, RedeemRead, RedeemDebit, RedeemCredit,
       RedeemReport, Coupon, CouponCount, CouponInsert, CouponReport, Register,
       RegisterCheck, RegisterUser, RegisterWallet, RegisterReferral, ChangeEmail,
       Referral, ReferralRead, ReferralWrite, Role, RoleRead, RoleAssign, PatchReport,
       SetRoleReport, Assigns
  <2>2. ReadIsBehind(t)'
    BY <1>1, <2>1 DEF ReadIsBehind, At, AtLogin
  <2>3. QED
    BY <1>3, <1>4, <1>5, <2>1, <2>2 DEF CountersAreBehind
<1>12. QED
  BY <1>6, <1>7, <1>8, <1>9, <1>10, <1>10, <1>11 DEF Guess, Login

(* A login that is let in resets the counter. Nobody is about to write back  *)
(* what it read before: that would be a refused login served together with   *)
(* this one, and then what a counter may count is all that were refused.     *)
LEMMA AcceptingKeepsBehind ==
    ASSUME JobsInv, VerdictsInv, VerdictsInv', CountersAreNatural, CountersAreBehind,
           [Next]_vars, NEW t \in Threads, LoginAccept(t)
    PROVE  CountersAreBehind'
<1> PICK e, r : e = job[t].work.email /\ r = job[t].req
  OBVIOUS
<1>1. Serves(t)
  BY DEF Serves, Login
<1>2. /\ Moves(t) /\ job[t] # None /\ JobsAreAccepted /\ IsJob(job[t])
      /\ \A u \in Threads \ {t} : job'[u] = job[u]
      /\ accepted' = accepted
  BY <1>1, ServesMoves, MoveKeepsJobs DEF Moves, JobsInv
<1>3. fails' = Put(fails, e, 0) /\ hits' = hits /\ Done(t)
  BY DEF LoginAccept
<1>4. job'[t] = None
  BY <1>2, <1>3, DoneIs
<1>5. /\ DOMAIN fails' = DOMAIN fails \cup {e} /\ fails'[e] = 0
      /\ \A x \in DOMAIN fails \ {e} : fails'[x] = fails[x]
  BY <1>3 DEF Put
<1>6. \A k : /\ Cardinality(GuessesCounted(k)) <= Cardinality(GuessesCounted(k)')
             /\ Cardinality(GuessesCounted(k)) \in Nat
             /\ Cardinality(GuessesCounted(k)') \in Nat
  BY CountsGrow
<1>7. \A x : Cardinality(LoginsCounted(x)) \in Nat /\ Cardinality(LoginsCounted(x)') \in Nat
  BY LoginsAreFinite
<1>8. \A x : x # e \/ ~ResetsAreKept(e) =>
               Cardinality(LoginsCounted(x)) <= Cardinality(LoginsCounted(x)')
  BY <1>1, CountableGrow, LoginsAreFinite DEF Clears
<1>9. ASSUME NEW u \in Threads \ {t}
      PROVE  ReadIsBehind(u)'
  <2>1. job'[u] = job[u] /\ ReadIsBehind(u)
    BY <1>2 DEF CountersAreBehind
  <2>2. At(u, "guess", "write") \/ AtLogin(u, "write") => job[u].seen \in Nat
    BY DEF CountersAreNatural
  <2>3. ASSUME NEW k, At(u, "guess", "write")', HitKey(u)' = k
        PROVE  job'[u].seen <= Cardinality(GuessesCounted(k)')
    <3>1. At(u, "guess", "write") /\ HitKey(u) = k
      BY <2>1, <2>3 DEF At, HitKey
    <3>2. job[u].seen <= Cardinality(GuessesCounted(k)) /\ job[u].seen \in Nat
      BY <2>1, <2>2, <3>1 DEF ReadIsBehind
    <3>3. QED
      BY <1>6, <2>1, <3>2
  <2>4. ASSUME NEW x, AtLogin(u, "write")', job'[u].work.email = x
        PROVE  job'[u].seen <= Cardinality(LoginsCounted(x)')
    <3>1. AtLogin(u, "write") /\ job[u].work.email = x
      BY <2>1, <2>4 DEF At, AtLogin
    <3>2. job[u].seen <= Cardinality(LoginsCounted(x)) /\ job[u].seen \in Nat
      BY <2>1, <2>2, <3>1 DEF ReadIsBehind
    <3>3. x # e \/ ~ResetsAreKept(e)
      <4>1. SUFFICES ASSUME x = e
                     PROVE  ~ResetsAreKept(e)
        OBVIOUS
      <4>2. PICK n : n = job[u].req
        OBVIOUS
      <4>3. job[u] # None /\ IsJob(job[u]) /\ job[u].work.op \in LoginOps
            /\ job[u].step = "write"
        BY <1>2, <3>1 DEF AtLogin, At, JobsAreAccepted, LoginOps
      <4>4. n \in refused /\ accepted[n].work.email = e /\ n \in DOMAIN accepted
        BY <3>1, <4>1, <4>2, <4>3 DEF VerdictsInv, VerdictIsOf, IsJob
      <4>5. r \in passed /\ accepted[r].work.email = e /\ r \in DOMAIN accepted
        BY <1>2 DEF VerdictsInv, VerdictIsOf, IsJob, LoginAccept, AtLogin, At, LoginOps
      <4>6. r \notin accepted[n].after /\ n \notin accepted[r].after
        BY <1>2, <4>2, <4>3, <4>4, <4>5 DEF JobsInv, ServedAreNotOver
      <4>7. QED
        BY <4>4, <4>5, <4>6 DEF ResetsAreKept, Overlap, Refused, Passed
    <3>4. QED
      BY <1>7, <1>8, <2>1, <3>2, <3>3
  <2>5. AtLogin(u, "report")' => job'[u].work.email \in DOMAIN fails'
    BY <1>5, <2>1 DEF ReadIsBehind, At, AtLogin
  <2>6. QED
    BY <2>3, <2>4, <2>5 DEF ReadIsBehind
<1>10. ReadIsBehind(t)'
  BY <1>4 DEF ReadIsBehind, At, AtLogin
<1>11. ASSUME NEW k \in DOMAIN hits
       PROVE  hits[k] <= Cardinality(GuessesCounted(k)')
  <2>1. hits[k] \in Nat /\ hits[k] <= Cardinality(GuessesCounted(k))
    BY DEF CountersAreNatural, CountersAreBehind
  <2>2. QED
    BY <1>6, <2>1
<1>12. ASSUME NEW x \in DOMAIN fails \ {e}
       PROVE  fails[x] <= Cardinality(LoginsCounted(x)')
  <2>1. fails[x] \in Nat /\ fails[x] <= Cardinality(LoginsCounted(x))
    BY DEF CountersAreNatural, CountersAreBehind
  <2>2. QED
    BY <1>7, <1>8, <2>1
<1>13. \A x \in DOMAIN fails' : fails'[x] <= Cardinality(LoginsCounted(x)')
  <2>1. 0 <= Cardinality(LoginsCounted(e)')
    BY <1>7
  <2>2. QED
    BY <1>5, <1>12, <2>1
<1>14. QED
  BY <1>3, <1>9, <1>10, <1>11, <1>13 DEF CountersAreBehind

(* Nothing that was accepted is forgotten.                                   *)
LEMMA RequestsGrow ==
    ASSUME JobsInv, VerdictsInv, VerdictsInv', [Next]_vars
    PROVE  /\ \A a : /\ Cardinality(GuessesBy(a)) <= Cardinality(GuessesBy(a)')
                     /\ Cardinality(GuessesBy(a)) \in Nat
                     /\ Cardinality(GuessesBy(a)') \in Nat
           /\ \A e : \A r \in DOMAIN accepted :
                 /\ Cardinality(TallyFor(e, r)) <= Cardinality(TallyFor(e, r)')
                 /\ Cardinality(TallyFor(e, r)) \in Nat
                 /\ Cardinality(TallyFor(e, r)') \in Nat
<1>1. /\ IsFiniteSet(DOMAIN accepted) /\ IsFiniteSet(DOMAIN accepted')
      /\ DOMAIN accepted \subseteq DOMAIN accepted'
      /\ \A n \in DOMAIN accepted : accepted'[n] = accepted[n]
  BY AcceptedGrow
<1>2. ASSUME NEW A, NEW B, A \subseteq B, B \subseteq DOMAIN accepted'
      PROVE  /\ Cardinality(A) <= Cardinality(B)
             /\ Cardinality(A) \in Nat /\ Cardinality(B) \in Nat
  BY <1>1, <1>2, FS_Subset, FS_CardinalityType
<1>3. \A a : GuessesBy(a) \subseteq GuessesBy(a)' /\ GuessesBy(a)' \subseteq DOMAIN accepted'
  BY <1>1 DEF GuessesBy, Guesses, Accepted
<1>4. \A e : \A r \in DOMAIN accepted :
         TallyFor(e, r) \subseteq TallyFor(e, r)' /\ TallyFor(e, r)' \subseteq DOMAIN accepted'
  BY TallyGrows DEF TallyFor, Refused, VerdictsInv
<1>5. QED
  BY <1>2, <1>3, <1>4

(* What guess_coupon adds up is at most the guesses of the actor.            *)
LEMMA AttemptsAreBehind ==
    ASSUME JobsInv, CountersAreNatural, CountersAreBehind, NEW a
    PROVE  Attempts(a) \in Nat /\ Attempts(a) <= Cardinality(GuessesBy(a))
<1> DEFINE K == {k \in DOMAIN hits : k[1] = a}
           w == [n \in Guesses |-> <<accepted[n].work.actor, accepted[n].work.ip>>]
<1>1. Attempts(a) = Sum(hits, K)
  BY DEF Attempts, Sum
<1>2. IsFiniteSet(DOMAIN accepted) /\ IsFiniteSet(Guesses)
  <2>1. PICK n \in Nat : DOMAIN accepted = 1..n
    BY DEF JobsInv, AcceptedAreNumbered
  <2>2. IsFiniteSet(DOMAIN accepted)
    BY <2>1, FS_Interval
  <2>3. QED
    BY <2>2, FS_Subset DEF Guesses, Accepted
<1>3. IsFiniteSet(K)
  BY FS_Subset DEF CountersAreBehind
<1>4. ASSUME NEW k \in K
      PROVE  hits[k] \in Nat /\ hits[k] <= Cardinality({n \in Guesses : w[n] = k})
  <2>1. hits[k] \in Nat /\ hits[k] <= Cardinality(GuessesCounted(k))
    BY DEF CountersAreNatural, CountersAreBehind
  <2>2. PICK A, B : A = GuessesCounted(k) /\ B = {n \in Guesses : w[n] = k}
    OBVIOUS
  <2>3. A \subseteq B
    BY <2>2 DEF GuessesCounted, CountedOf, GuessesAt
  <2>4. IsFiniteSet(B)
    BY <1>2, <2>2, FS_Subset
  <2>5. /\ Cardinality(A) <= Cardinality(B)
        /\ Cardinality(A) \in Nat /\ Cardinality(B) \in Nat
    BY <2>3, <2>4, FS_Subset, FS_CardinalityType
  <2>6. QED
    BY <2>1, <2>2, <2>5
<1>5. Sum(hits, K) <= Cardinality({n \in Guesses : w[n] \in K})
  <2> HIDE DEF K, w
  <2>1. QED
    BY <1>2, <1>3, <1>4, SumOfShares
<1>6. Sum(hits, K) \in Nat
  <2> HIDE DEF K, w
  <2>1. \A k \in K : hits[k] \in Nat
    BY <1>4
  <2>2. QED
    BY <1>3, <2>1, SumIsNat
<1>7. PICK A, B : A = {n \in Guesses : w[n] \in K} /\ B = GuessesBy(a)
  OBVIOUS
<1>8. A \subseteq B
  BY <1>7 DEF GuessesBy
<1>9. IsFiniteSet(B)
  BY <1>2, <1>7, FS_Subset DEF GuessesBy
<1>10. /\ Cardinality(A) <= Cardinality(B)
       /\ Cardinality(A) \in Nat /\ Cardinality(B) \in Nat
  BY <1>8, <1>9, FS_Subset, FS_CardinalityType
<1>11. PICK s : s = Sum(hits, K)
  OBVIOUS
<1>12. s \in Nat /\ s <= Cardinality(A)
  BY <1>5, <1>6, <1>7, <1>11
<1>13. s <= Cardinality(B)
  BY <1>10, <1>12
<1>14. QED
  BY <1>1, <1>7, <1>11, <1>12, <1>13

LEMMA ServingKeepsTapsBehind ==
    ASSUME JobsInv, VerdictsInv, VerdictsInv', CountersAreNatural, CountersAreBehind,
           TapsAreBehind, [Next]_vars, NEW t \in Threads, Serves(t)
    PROVE  TapsAreBehind'
<1> DEFINE w == job[t].work
           r == job[t].req
<1>1. /\ Moves(t) /\ job[t] # None /\ IsJob(job[t])
      /\ UNCHANGED accepted
  BY ServesMoves, MoveKeepsJobs DEF Moves
<1>2. /\ \A a : GuessesBy(a)' = GuessesBy(a)
      /\ \A e : \A n \in DOMAIN accepted :
            /\ Cardinality(TallyFor(e, n)) <= Cardinality(TallyFor(e, n)')
            /\ Cardinality(TallyFor(e, n)) \in Nat
            /\ Cardinality(TallyFor(e, n)') \in Nat
      /\ r \in DOMAIN accepted
  BY <1>1, RequestsGrow DEF GuessesBy, Guesses, Accepted, IsJob
<1>3. \A x \in taps : TapIsBehind(x)'
  <2>1. ASSUME NEW x \in taps
        PROVE  TapIsBehind(x)'
    <3>1. TapIsBehind(x) /\ x.req \in DOMAIN accepted
      BY DEF TapsAreBehind, JobsInv, TapsAreOfAccepted
    <3>2. ASSUME x.work.op \in {"login", "api_login"}
          PROVE  x.now \in Nat /\ x.now <= Cardinality(TallyFor(x.work.email, x.req)')
      <4>1. x.now \in Nat /\ x.now <= Cardinality(TallyFor(x.work.email, x.req))
        BY <3>1, <3>2 DEF TapIsBehind
      <4>2. QED
        BY <1>2, <3>1, <4>1
    <3>3. QED
      BY <1>2, <3>1, <3>2 DEF TapIsBehind
  <2>2. QED
    BY <2>1
<1>4. ASSUME NEW seen, NEW now, Emit(t, seen, now),
             w.op = "guess" => now \in Nat /\ now <= Cardinality(GuessesBy(w.actor)),
             w.op \in {"login", "api_login"} =>
                 now \in Nat /\ now <= Cardinality(TallyFor(w.email, r))
      PROVE  TapsAreBehind'
  <2>1. PICK x : x = [req |-> r, work |-> w, seen |-> seen, now |-> now]
    OBVIOUS
  <2>2. taps' = taps \cup {x} /\ x.work = w /\ x.now = now /\ x.req = r
    BY <1>4, <2>1 DEF Emit
  <2>3. ASSUME x.work.op \in {"login", "api_login"}
        PROVE  x.now \in Nat /\ x.now <= Cardinality(TallyFor(x.work.email, x.req)')
    <3>1. x.now \in Nat /\ x.now <= Cardinality(TallyFor(x.work.email, x.req))
      BY <1>4, <2>2, <2>3
    <3>2. QED
      BY <1>2, <2>2, <3>1
  <2>4. TapIsBehind(x)'
    BY <1>2, <1>4, <2>2, <2>3 DEF TapIsBehind
  <2>5. QED
    BY <1>3, <2>2, <2>4 DEF TapsAreBehind
<1>5. CASE taps' = taps
  BY <1>3, <1>5 DEF TapsAreBehind
<1>6. CASE GuessReport(t)
  <2>1. /\ w.op = "guess"
        /\ Emit(t, None, Attempts(w.actor)) \/ taps' = taps
    BY <1>6 DEF GuessReport, At
  <2>2. Attempts(w.actor) \in Nat /\ Attempts(w.actor) <= Cardinality(GuessesBy(w.actor))
    BY AttemptsAreBehind
  <2>3. QED
    BY <1>4, <1>5, <2>1, <2>2
<1>7. CASE LoginReport(t)
  <2>1. /\ w.op \in {"login", "api_login"} /\ Emit(t, None, fails[w.email])
        /\ w.email \in DOMAIN fails
    BY <1>7 DEF LoginReport, AtLogin, At, CountersAreBehind, ReadIsBehind
  <2>2. fails[w.email] \in Nat /\ fails[w.email] <= Cardinality(LoginsCounted(w.email))
    BY <2>1 DEF CountersAreNatural, CountersAreBehind
  <2>3. /\ Cardinality(LoginsCounted(w.email)) <= Cardinality(TallyFor(w.email, r))
        /\ Cardinality(LoginsCounted(w.email)) \in Nat
        /\ Cardinality(TallyFor(w.email, r)) \in Nat
    <3>1. PICK A, B : A = LoginsCounted(w.email) /\ B = TallyFor(w.email, r)
      OBVIOUS
    <3>2. accepted[r].after \subseteq Over
      BY <1>2 DEF JobsInv, AcceptedAreNumbered, ServedAreNotOver, Over
    <3>3. A \subseteq B
      BY <3>1, <3>2 DEF LoginsCounted, CountedOf, TallyNow, TallyFor
    <3>4. IsFiniteSet(DOMAIN accepted) /\ B \subseteq DOMAIN accepted
      BY <3>1, AcceptedGrow DEF TallyFor, Refused, VerdictsInv
    <3>5. /\ Cardinality(A) <= Cardinality(B)
          /\ Cardinality(A) \in Nat /\ Cardinality(B) \in Nat
      BY <3>3, <3>4, FS_Subset, FS_CardinalityType
    <3>6. QED
      BY <3>1, <3>5
  <2>4. fails[w.email] <= Cardinality(TallyFor(w.email, r))
    BY <2>2, <2>3
  <2>5. QED
    BY <1>4, <2>1, <2>2, <2>4
<1>8. CASE LoginAccept(t)
  <2>1. /\ w.op \in {"login", "api_login"}
        /\ Emit(t, None, 0) \/ taps' = taps
    BY <1>8 DEF LoginAccept, AtLogin, At
  <2>2. 0 <= Cardinality(TallyFor(w.email, r))
    BY <1>2
  <2>3. QED
    BY <1>4, <1>5, <2>1, <2>2
<1>9. CASE ~Guess(t) /\ ~Login(t)
  <2>1. w.op \notin {"guess", "login", "api_login"}
    BY <1>9 DEF Serves, At, Redeem, RedeemRead, RedeemDebit, RedeemCredit,
       RedeemReport, Coupon, CouponCount, CouponInsert, CouponReport, Register,
       RegisterCheck, RegisterUser, RegisterWallet, RegisterReferral, ChangeEmail,
       Referral, ReferralRead, ReferralWrite, Role, RoleRead, RoleAssign, PatchReport,
       SetRoleReport, Assigns
  <2>2. QED
    BY <1>1, <1>4, <1>5, <2>1 DEF Moves
<1>10. QED
  BY <1>5, <1>6, <1>7, <1>8, <1>9 DEF Guess, GuessRead, GuessWrite, GuessScan, Login,
     LoginQuery, LoginRefuse, LoginCount

(* A new request counts for nothing yet, and a restart forgets the counters. *)
LEMMA OthersKeepBehind ==
    ASSUME JobsInv, VerdictsInv, VerdictsInv', CountersAreNatural, CountersAreBehind,
           TapsAreBehind, [Next]_vars,
           ~\E t \in Threads : Serves(t)
    PROVE  CountersAreBehind' /\ TapsAreBehind'
<1>1. /\ taps' \subseteq taps
      /\ \A t \in Threads : \/ job'[t] = job[t]
                            \/ job'[t] # None => job'[t].step = "start"
  BY OtherSteps
<1>2. ASSUME ~Crash
      PROVE  /\ \A k : /\ Cardinality(GuessesCounted(k)) <= Cardinality(GuessesCounted(k)')
                       /\ Cardinality(GuessesCounted(k)) \in Nat
                       /\ Cardinality(GuessesCounted(k)') \in Nat
             /\ \A e : /\ Cardinality(LoginsCounted(e)) <= Cardinality(LoginsCounted(e)')
                       /\ Cardinality(LoginsCounted(e)) \in Nat
                       /\ Cardinality(LoginsCounted(e)') \in Nat
  BY <1>2, NextIs, CountsGrow, CountableGrow, LoginsAreFinite
<1>3. TapsAreBehind'
  <2>1. ASSUME NEW x \in taps
        PROVE  TapIsBehind(x)'
    <3>1. TapIsBehind(x) /\ x.req \in DOMAIN accepted
      BY DEF TapsAreBehind, JobsInv, TapsAreOfAccepted
    <3>2. ASSUME x.work.op = "guess"
          PROVE  x.now \in Nat /\ x.now <= Cardinality(GuessesBy(x.work.actor)')
      <4>1. x.now \in Nat /\ x.now <= Cardinality(GuessesBy(x.work.actor))
        BY <3>1, <3>2 DEF TapIsBehind
      <4>2. QED
        BY <4>1, RequestsGrow
    <3>3. ASSUME x.work.op \in {"login", "api_login"}
          PROVE  x.now \in Nat /\ x.now <= Cardinality(TallyFor(x.work.email, x.req)')
      <4>1. x.now \in Nat /\ x.now <= Cardinality(TallyFor(x.work.email, x.req))
        BY <3>1, <3>3 DEF TapIsBehind
      <4>2. QED
        BY <3>1, <4>1, RequestsGrow
    <3>4. QED
      BY <3>2, <3>3 DEF TapIsBehind
  <2>2. QED
    BY <1>1, <2>1 DEF TapsAreBehind
<1>4. CASE Crash
  <2>1. /\ job' = [t \in Threads |-> None] /\ DOMAIN hits' = {} /\ DOMAIN fails' = {}
    BY <1>4 DEF Crash
  <2>2. \A t \in Threads : ReadIsBehind(t)'
    BY <2>1 DEF ReadIsBehind, At, AtLogin
  <2>3. CountersAreBehind'
    BY <2>1, <2>2, FS_EmptySet DEF CountersAreBehind
  <2>4. QED
    BY <1>3, <2>3
<1>5. CASE ~Crash
  <2>1. UNCHANGED <<hits, fails>>
    BY <1>5, NextIs DEF Accept, counters, vars
  <2>2. ASSUME NEW k \in DOMAIN hits
        PROVE  hits[k] <= Cardinality(GuessesCounted(k)')
    <3>1. hits[k] \in Nat /\ hits[k] <= Cardinality(GuessesCounted(k))
      BY DEF CountersAreNatural, CountersAreBehind
    <3>2. QED
      BY <1>2, <1>5, <3>1
  <2>3. ASSUME NEW e \in DOMAIN fails
        PROVE  fails[e] <= Cardinality(LoginsCounted(e)')
    <3>1. fails[e] \in Nat /\ fails[e] <= Cardinality(LoginsCounted(e))
      BY DEF CountersAreNatural, CountersAreBehind
    <3>2. QED
      BY <1>2, <1>5, <3>1
  <2>4. ASSUME NEW u \in Threads
        PROVE  ReadIsBehind(u)'
    <3>1. CASE job'[u] # None => job'[u].step = "start"
      BY <3>1 DEF ReadIsBehind, At, AtLogin
    <3>2. CASE job'[u] = job[u]
      <4>1. ReadIsBehind(u)
        BY DEF CountersAreBehind
      <4>2. At(u, "guess", "write") \/ AtLogin(u, "write") => job[u].seen \in Nat
        BY DEF CountersAreNatural
      <4>3. ASSUME NEW k, At(u, "guess", "write")', HitKey(u)' = k
            PROVE  job'[u].seen <= Cardinality(GuessesCounted(k)')
        <5>1. At(u, "guess", "write") /\ HitKey(u) = k
          BY <3>2, <4>3 DEF At, HitKey
        <5>2. job[u].seen <= Cardinality(GuessesCounted(k)) /\ job[u].seen \in Nat
          BY <4>1, <4>2, <5>1 DEF ReadIsBehind
        <5>3. QED
          BY <1>2, <1>5, <3>2, <5>2
      <4>4. ASSUME NEW e, AtLogin(u, "write")', job'[u].work.email = e
            PROVE  job'[u].seen <= Cardinality(LoginsCounted(e)')
        <5>1. AtLogin(u, "write") /\ job[u].work.email = e
          BY <3>2, <4>4 DEF At, AtLogin
        <5>2. job[u].seen <= Cardinality(LoginsCounted(e)) /\ job[u].seen \in Nat
          BY <4>1, <4>2, <5>1 DEF ReadIsBehind
        <5>3. QED
          BY <1>2, <1>5, <3>2, <5>2
      <4>5. AtLogin(u, "report")' => job'[u].work.email \in DOMAIN fails'
        BY <2>1, <3>2, <4>1 DEF ReadIsBehind, At, AtLogin
      <4>6. QED
        BY <4>3, <4>4, <4>5 DEF ReadIsBehind
    <3>3. QED
      BY <1>1, <3>1, <3>2
  <2>5. CountersAreBehind'
    BY <2>1, <2>2, <2>3, <2>4 DEF CountersAreBehind
  <2>6. QED
    BY <1>3, <2>5
<1>6. QED
  BY <1>4, <1>5

CountsInv == CountersAreBehind /\ TapsAreBehind

LEMMA CountsInvHolds == Spec => []CountsInv
<1>1. Init => CountsInv
  BY FS_EmptySet DEF Init, CountsInv, CountersAreBehind, TapsAreBehind, ReadIsBehind, At,
     AtLogin
<1>2. JobsInv /\ VerdictsInv /\ VerdictsInv' /\ TypesInv /\ TypesInv' /\ CountsInv
        /\ [Next]_vars => CountsInv'
  <2> SUFFICES ASSUME JobsInv, VerdictsInv, VerdictsInv', TypesInv, TypesInv', CountsInv,
                      [Next]_vars
               PROVE  CountsInv'
    OBVIOUS
  <2>1. CASE \E t \in Threads : Serves(t)
    BY <2>1, ServingKeepsBehind, AcceptingKeepsBehind, ServingKeepsTapsBehind
       DEF CountsInv, TypesInv
  <2>2. CASE ~\E t \in Threads : Serves(t)
    BY <2>2, OthersKeepBehind DEF CountsInv, TypesInv
  <2>3. QED
    BY <2>1, <2>2
<1>3. QED
  BY <1>1, <1>2, JobsHold, VerdictsInvHolds, TypesInvHolds, PTL DEF Spec

(* guess_coupon, login, api_login_retail: whatever requests race on counters *)
(* that nothing locks, and whatever a restart forgets, no tap reports more   *)
(* guesses than there were, nor more failures than logins refused since the  *)
(* last one let in; only where a login was let in while another one was being*)
(* refused may the count go back to before it, and then no further than to   *)
(* all that were refused.                                                    *)
THEOREM CountersNeverOvercount == Spec => []ReportsNeverOvercount
<1>1. CountsInv => ReportsNeverOvercount
  BY DEF CountsInv, TapsAreBehind, TapIsBehind, GuessesBy, Guesses, TallyFor, Tally,
     ReportsNeverOvercount
<1>2. QED
  BY <1>1, CountsInvHolds, PTL

=============================================================================
