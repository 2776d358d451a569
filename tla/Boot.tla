-------------------------------- MODULE Boot --------------------------------
(* How a run starts: the scorer draws the run's values and publishes them   *)
(* (scorer/main.py amain, scorer/seedgen.py), the app waits for them, reads *)
(* them (app/config.py) and seeds its database (app/seed.py). The seed file,*)
(* the database and flag.txt are on volumes that outlive the processes; the *)
(* NoSQL, LDAP and object stores are in the app's memory. The values of the *)
(* n-th run are kept as n.                                                  *)
EXTENDS Naturals, Sequences

CONSTANTS
    Statements,  \* the rows seed() inserts, in order
    Users,       \* those of table users
    None,        \* no file, no value
    MaxWait,     \* turns the app waits for the seed file: 30 s in 0.25 s steps
    MaxRuns      \* bound on the runs generated

VARIABLES
    runs,      \* how many runs were generated so far
    scorer,    \* where amain is
    run,       \* the values amain holds
    tmp,       \* SEED_FILE.tmp
    seedFile,  \* SEED_FILE
    app,       \* where the app's start is
    waited,    \* turns _load_spec has waited
    spec,      \* config.SPEC
    next,      \* the statement seed() is at
    db,        \* the seeded rows, each with the run it is from
    flag,      \* flag.txt
    backends,  \* what nosql, ldap and objstore hold
    shown      \* history: values shown to a tester, in which run, with which
               \* run's spec the app was started

scorerVars == <<runs, scorer, run, tmp, seedFile>>
appVars == <<app, waited, spec, next, db, flag, backends>>
bootVars == <<scorerVars, appVars, shown>>

BootInit ==
    /\ runs = 0
    /\ scorer = "down" /\ run = None /\ tmp = None /\ seedFile = None
    /\ app = "down" /\ waited = 0 /\ spec = None /\ next = 1
    /\ db = {} /\ flag = None /\ backends = None
    /\ shown = {}

-----------------------------------------------------------------------------
(* The scorer.                                                             *)

(* seedgen.generate; the values it draws are taken to be of no other run,   *)
(* though its token prefix has only two random bytes.                       *)
Generate ==
    /\ scorer = "down"
    /\ runs < MaxRuns
    /\ runs' = runs + 1
    /\ run' = runs'
    /\ scorer' = "generated"
    /\ UNCHANGED <<tmp, seedFile, appVars, shown>>

WriteTmp ==
    /\ scorer = "generated"
    /\ tmp' = run
    /\ scorer' = "written"
    /\ UNCHANGED <<runs, run, seedFile, appVars, shown>>

(* os.replace: readers see the old file or the new one.                    *)
Publish ==
    /\ scorer = "written"
    /\ seedFile' = tmp
    /\ tmp' = None
    /\ scorer' = "published"
    /\ UNCHANGED <<runs, run, appVars, shown>>

(* A run directory, store and manifest of their own, then the servers.      *)
OpenRun ==
    /\ scorer = "published"
    /\ scorer' = "serving"
    /\ UNCHANGED <<runs, run, tmp, seedFile, appVars, shown>>

ScorerStops ==
    /\ scorer # "down"
    /\ scorer' = "down"
    /\ run' = None
    /\ UNCHANGED <<runs, tmp, seedFile, appVars, shown>>

-----------------------------------------------------------------------------
(* The app.                                                                *)

StartApp ==
    /\ app = "down"
    /\ app' = "waiting"
    /\ waited' = 0
    /\ UNCHANGED <<scorerVars, spec, next, db, flag, backends, shown>>

(* _load_spec reads whatever run's file is there, waits, or gives up.       *)
LoadSpec ==
    /\ app = "waiting"
    /\ waited < MaxWait
    /\ seedFile # None
    /\ spec' = seedFile
    /\ app' = "loaded"
    /\ UNCHANGED <<scorerVars, waited, next, db, flag, backends, shown>>

WaitForSpec ==
    /\ app = "waiting"
    /\ waited < MaxWait
    /\ seedFile = None
    /\ waited' = waited + 1
    /\ UNCHANGED <<scorerVars, app, spec, next, db, flag, backends, shown>>

GiveUp ==
    /\ app = "waiting"
    /\ waited = MaxWait
    /\ app' = "down"
    /\ UNCHANGED <<scorerVars, waited, spec, next, db, flag, backends, shown>>

(* seed() seeds a database without users, and nothing otherwise: not the    *)
(* backends in memory either.                                               *)
CountUsers ==
    /\ app = "loaded"
    /\ next' = 1
    /\ app' = IF \E row \in db : row.of \in Users THEN "serving" ELSE "seeding"
    /\ UNCHANGED <<scorerVars, waited, spec, db, flag, backends, shown>>

(* Each INSERT commits by itself.                                          *)
Insert ==
    /\ app = "seeding"
    /\ next \in DOMAIN Statements
    /\ db' = db \cup {[of |-> Statements[next], run |-> spec]}
    /\ next' = next + 1
    /\ UNCHANGED <<scorerVars, app, waited, spec, flag, backends, shown>>

WriteFlag ==
    /\ app = "seeding"
    /\ next \notin DOMAIN Statements
    /\ flag' = spec
    /\ app' = "flagged"
    /\ UNCHANGED <<scorerVars, waited, spec, next, db, backends, shown>>

FillBackends ==
    /\ app = "flagged"
    /\ backends' = spec
    /\ app' = "serving"
    /\ UNCHANGED <<scorerVars, waited, spec, next, db, flag, shown>>

AppStops ==
    /\ app # "down"
    /\ app' = "down"
    /\ spec' = None
    /\ backends' = None
    /\ UNCHANGED <<scorerVars, waited, next, db, flag, shown>>

-----------------------------------------------------------------------------
(* The tester, through the scorer's proxy, is shown any value the app has:  *)
(* rows, the file, the backends, config's own.                              *)
Held == {row.run : row \in db} \cup ({flag, backends, spec} \ {None})

Show ==
    /\ scorer = "serving"
    /\ app = "serving"
    /\ \E v \in Held : shown' = shown \cup {[of |-> v, in |-> run, spec |-> spec]}
    /\ UNCHANGED <<scorerVars, appVars>>

(* The operator removes the volumes between runs.                          *)
RemoveVolumes ==
    /\ scorer = "down" /\ app = "down"
    /\ tmp' = None /\ seedFile' = None
    /\ db' = {} /\ flag' = None
    /\ UNCHANGED <<runs, scorer, run, app, waited, spec, next, backends, shown>>

BootNext ==
    \/ Generate \/ WriteTmp \/ Publish \/ OpenRun \/ ScorerStops
    \/ StartApp \/ LoadSpec \/ WaitForSpec \/ GiveUp \/ CountUsers
    \/ Insert \/ WriteFlag \/ FillBackends \/ AppStops
    \/ Show \/ RemoveVolumes

BootSpec == BootInit /\ [][BootNext]_bootVars

-----------------------------------------------------------------------------
(* Properties.                                                             *)

(* No value drawn for one run is shown to a tester in another, as long as   *)
(* the app was started with the spec of the run it serves (config.py:3-4,   *)
(* "supplied per run by the scorer through the seed spec, so no two runs    *)
(* share a secret").                                                        *)
NoTwoRunsShareASecret ==
    \A x, y \in {z \in shown : z.spec = z.in} : x.of = y.of => x.in = y.in

(* The rows of the database are of one run, whatever stops between two of   *)
(* its statements: seed() never adds to what another start has begun        *)
(* (app/seed.py:21-22).                                                     *)
DatabaseIsOfOneRun == \A x, y \in db : x.run = y.run

=============================================================================
