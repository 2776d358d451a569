------------------------------ MODULE BootProofs ------------------------------
(* No start of the app adds to what another run's start has seeded.           *)
EXTENDS Boot, TLAPS

(* The users come first in seed().                                           *)
UsersFirst == Statements[1] \in Users

HasUsers == \E row \in db : row.of \in Users

(* A database that has anything has a user, so that counting users tells it from*)
(* an empty one; while seed() runs all rows are of the spec it seeds.             *)
SeedingInv ==
    /\ next \in Nat /\ next > 0
    /\ db # {} => HasUsers
    /\ app = "seeding" =>
          /\ \A row \in db : row.run = spec
          /\ next > 1 => HasUsers
    /\ DatabaseIsOfOneRun

(* The rows of the database are of one run (app/seed.py:21-22), wherever the *)
(* app or the scorer was stopped and whatever seed file it then found, for   *)
(* any list of statements that starts with a user.                           *)
THEOREM SeedingNeverMixesRuns ==
    ASSUME UsersFirst
    PROVE  BootSpec => []DatabaseIsOfOneRun
<1>1. BootInit => SeedingInv
  BY DEF BootInit, SeedingInv, DatabaseIsOfOneRun
<1>2. SeedingInv /\ [BootNext]_bootVars => SeedingInv'
  <2> SUFFICES ASSUME SeedingInv, [BootNext]_bootVars
               PROVE  SeedingInv'
    OBVIOUS
  <2> USE DEF SeedingInv, HasUsers, DatabaseIsOfOneRun
  <2>1. CASE \/ Generate \/ WriteTmp \/ Publish \/ OpenRun \/ ScorerStops \/ Show
             \/ UNCHANGED bootVars
    BY <2>1 DEF Generate, WriteTmp, Publish, OpenRun, ScorerStops, Show, bootVars,
       appVars
  <2>2. CASE StartApp \/ LoadSpec \/ WaitForSpec \/ GiveUp
    BY <2>2 DEF StartApp, LoadSpec, WaitForSpec, GiveUp
  <2>3. CASE CountUsers
    BY <2>3 DEF CountUsers
  <2>4. CASE Insert
    <3> DEFINE row == [of |-> Statements[next], run |-> spec]
    <3>1. /\ db' = db \cup {row} /\ row.run = spec /\ row.of = Statements[next]
          /\ next' = next + 1 /\ spec' = spec /\ app = "seeding"
      BY <2>4 DEF Insert
    <3>2. HasUsers'
      <4>1. CASE next = 1
        BY <3>1, <4>1 DEF UsersFirst
      <4>2. CASE next > 1
        BY <3>1, <4>2
      <4>3. QED
        BY <4>1, <4>2
    <3>3. \A x \in db' : x.run = spec
      BY <3>1
    <3>4. QED
      BY <3>1, <3>2, <3>3
  <2>5. CASE WriteFlag \/ FillBackends \/ AppStops
    BY <2>5 DEF WriteFlag, FillBackends, AppStops
  <2>6. CASE RemoveVolumes
    BY <2>6 DEF RemoveVolumes
  <2>7. QED
    BY <2>1, <2>2, <2>3, <2>4, <2>5, <2>6 DEF BootNext
<1>3. SeedingInv => DatabaseIsOfOneRun
  BY DEF SeedingInv
<1>4. QED
  BY <1>1, <1>2, <1>3, PTL DEF BootSpec

=============================================================================
