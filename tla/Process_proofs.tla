--------------------------- MODULE Process_proofs ---------------------------
(***************************************************************************)
(* Proofs about Process, for any number of requests, connections and       *)
(* migrations and however often the process is killed, stopped, restarted  *)
(* and cut off from what it needs.                                         *)
(***************************************************************************)
EXTENDS Process, TLAPS

-----------------------------------------------------------------------------
(* The inductive invariant. *)

AllAnswered == \A q \in Request : req[q] = "none"

\* Migrate never believes a migration applied that is not, though an orphan of
\* an earlier process may apply one behind its back.
MigratingInv ==
    /\ pc = "migrate" => ver <= applied /\ tx \in {0, ver + 1}
    /\ pc # "migrate" => tx = 0

\* What each stage of run may take for granted.
StageInv ==
    /\ pc \in {"tokens", "discover", "listen", "serving", "draining"} => applied = Migrations
    /\ pc \notin {"down", "config"} => conf # "invalid"
    /\ pc \in {"discover", "listen", "serving", "draining"} => conf # "weak"
    /\ hung => pc \in Startup

\* Requests are in flight only while the process serves, drains, or closes
\* because shutdownTimeout was over.
RequestsInv ==
    /\ pc \in Startup \cup {"down", "listen"} => AllAnswered
    /\ pc = "closing" /\ ~err => AllAnswered

IInv ==
    /\ TypeOK
    /\ MigratingInv
    /\ StageInv
    /\ RequestsInv
    /\ OrderlyExit

-----------------------------------------------------------------------------
(* The ends of a process. *)

\* Any end is fine that cuts no transaction, or is not the process's own doing,
\* and that is clean only if there was nothing to cut.
LEMMA EndsStep ==
    ASSUME IInv, NEW how \in {"ok", "failed", "killed", "unhealthy"}, Ends(how),
           fails' \in 0..(Retries - 1), stopped' \in BOOLEAN,
           kills' \in 0..MaxKills, troubles' \in 0..MaxTroubles,
           Holding # {} => how \in {"killed", "unhealthy"},
           how = "ok" => AllAnswered
    PROVE  IInv'
  <1>1. TypeOK /\ req \in [Request -> RequestState] /\ orphan \in 0..Migrations
        /\ tx \in 0..Migrations
    BY DEF IInv, TypeOK
  <1>2. lost' \subseteq RequestState
    BY <1>1 DEF Ends
  <1>3. orphan' \in 0..Migrations /\ tx' \in 0..Migrations
    BY <1>1, ProcessAssumption DEF Ends
  <1>4. req' \in [Request -> RequestState] /\ left' \in [Request -> 0..Statements]
    BY ProcessAssumption DEF Ends, RequestState
  <1>5. TypeOK'
    BY <1>1, <1>2, <1>3, <1>4 DEF TypeOK, Ends, Pc
  <1>6. MigratingInv' /\ StageInv'
    BY DEF MigratingInv, StageInv, Ends
  <1>7. RequestsInv'
    BY DEF RequestsInv, AllAnswered, Ends
  <1>8. OrderlyExit'
    <2>1. lost' \cap {"tx", "query", "stalled"} # {} => Holding # {}
      BY DEF Ends, Holding
    <2>2. AllAnswered => lost' = {}
      BY DEF Ends, AllAnswered
    <2>3. exit' = how
      BY DEF Ends
    <2> QED
      BY <2>1, <2>2, <2>3 DEF OrderlyExit
  <1> QED
    BY <1>5, <1>6, <1>7, <1>8 DEF IInv

\* Nothing is in flight when the start-up fails.
LEMMA FailStep ==
    ASSUME IInv, pc \in Startup, Fail
    PROVE  IInv'
  <1>1. Holding = {}
    BY DEF IInv, RequestsInv, AllAnswered, Holding
  <1>2. /\ Ends("failed")
        /\ fails' \in 0..(Retries - 1) /\ stopped' \in BOOLEAN
        /\ kills' \in 0..MaxKills /\ troubles' \in 0..MaxTroubles
    BY DEF IInv, TypeOK, Fail, bounds
  <1> QED
    BY <1>1, <1>2, EndsStep

-----------------------------------------------------------------------------
(* Start-up. *)

\* A step of run that goes on to the next stage: requests and the outcome of
\* the last process are not its business.
LEMMA StageStep ==
    ASSUME IInv, Elsewhere, exit' = exit, orphan' = orphan,
           pc \in Startup \cup {"listen"}, pc' \in Pc,
           ver' \in 0..Migrations, tx' \in 0..Migrations, applied' \in 0..Migrations,
           hung' \in BOOLEAN, err' \in BOOLEAN,
           MigratingInv', StageInv'
    PROVE  IInv'
  <1>1. TypeOK'
    BY DEF IInv, TypeOK, Elsewhere, requests, bounds
  <1>2. AllAnswered'
    BY DEF IInv, RequestsInv, AllAnswered, Elsewhere, requests
  <1>3. OrderlyExit'
    BY DEF IInv, OrderlyExit, Elsewhere
  <1> QED
    BY <1>1, <1>2, <1>3 DEF IInv, RequestsInv

\* Each stage hands on what the next one takes for granted.
LEMMA StartupStepInv ==
    ASSUME IInv, StartupStep
    PROVE  IInv'
  <1>0. /\ Migrations \in Nat /\ ver \in 0..Migrations /\ tx \in 0..Migrations
        /\ applied \in 0..Migrations /\ hung \in BOOLEAN /\ err \in BOOLEAN
        /\ conf \in Conf /\ MigratingInv /\ StageInv
    BY ProcessAssumption DEF IInv, TypeOK
  <1>1. CASE Start
    <2>1. TypeOK'
      BY <1>1, ProcessAssumption 
      DEF Start, IInv, TypeOK, Pc, Startup, database, requests, bounds
    <2>2. MigratingInv' /\ StageInv'
      BY <1>0, <1>1 DEF Start, MigratingInv, StageInv, Startup
    <2>3. RequestsInv' /\ OrderlyExit'
      BY <1>1 
      DEF Start, IInv, RequestsInv, AllAnswered, OrderlyExit, Startup, requests
    <2> QED
      BY <2>1, <2>2, <2>3 DEF IInv
  <1>2. CASE LoadConfig
    <2>1. CASE Fail
      BY <1>2, <2>1, FailStep DEF LoadConfig, Startup
    <2>2. CASE conf # "invalid" /\ Proceed("pool") /\ Elsewhere /\ UNCHANGED database
      <3>1. MigratingInv' /\ StageInv'
        BY <1>0, <1>2, <2>2
        DEF LoadConfig, Proceed, Elsewhere, database, MigratingInv, StageInv, Startup
      <3> QED
        BY <1>0, <1>2, <2>2, <3>1, StageStep
        DEF LoadConfig, Proceed, database, Startup, Pc
    <2> QED
      BY <1>2, <2>1, <2>2 DEF LoadConfig
  <1>3. CASE NewPool
    <2>1. MigratingInv' /\ StageInv'
      BY <1>0, <1>3 DEF NewPool, Elsewhere, database, MigratingInv, StageInv, Startup
    <2> QED
      BY <1>0, <1>3, <2>1, StageStep DEF NewPool, database, Startup, Pc
  <1>4. CASE MigrateApply
    <2>1. CASE Fail
      BY <1>4, <2>1, FailStep DEF MigrateApply, Startup
    <2>2. CASE tx' = ver + 1 /\ UNCHANGED <<pc, ver, hung, exit, err, database>> /\ Elsewhere
      <3>1. MigratingInv' /\ StageInv'
        BY <1>0, <1>4, <2>2
        DEF MigrateApply, Elsewhere, database, MigratingInv, StageInv, Startup
      <3>2. tx' \in 0..Migrations
        BY <1>0, <1>4, <2>2 DEF MigrateApply
      <3> QED
        BY <1>0, <1>4, <2>2, <3>1, <3>2, StageStep
        DEF MigrateApply, database, Startup, Pc
    <2> QED
      BY <1>4, <2>1, <2>2 DEF MigrateApply
  <1>5. CASE MigrateCommit
    <2>1. applied' \in 0..Migrations /\ ver' <= applied' /\ ver' \in 0..Migrations
      BY <1>0, <1>5 DEF MigrateCommit
    <2>2. MigratingInv' /\ StageInv'
      BY <1>0, <1>5, <2>1 DEF MigrateCommit, Elsewhere, MigratingInv, StageInv, Startup
    <2> QED
      BY <1>0, <1>5, <2>1, <2>2, StageStep DEF MigrateCommit, Startup, Pc
  <1>6. CASE MigrateDone
    <2>1. applied = Migrations
      BY <1>0, <1>6 DEF MigrateDone, MigratingInv
    <2>2. MigratingInv' /\ StageInv'
      BY <1>0, <1>6, <2>1
      DEF MigrateDone, Proceed, Elsewhere, database, MigratingInv, StageInv, Startup
    <2> QED
      BY <1>0, <1>6, <2>2, StageStep DEF MigrateDone, Proceed, database, Startup, Pc
  <1>7. CASE NewTokenIssuer
    <2>1. CASE Fail
      BY <1>7, <2>1, FailStep DEF NewTokenIssuer, Startup
    <2>2. CASE conf # "weak" /\ Proceed("discover") /\ Elsewhere /\ UNCHANGED database
      <3>1. MigratingInv' /\ StageInv'
        BY <1>0, <1>7, <2>2
        DEF NewTokenIssuer, Proceed, Elsewhere, database, MigratingInv, StageInv, Startup
      <3> QED
        BY <1>0, <1>7, <2>2, <3>1, StageStep
        DEF NewTokenIssuer, Proceed, database, Startup, Pc
    <2> QED
      BY <1>7, <2>1, <2>2 DEF NewTokenIssuer
  <1>8. CASE NewExchanger
    <2>1. MigratingInv' /\ StageInv'
      BY <1>0, <1>8
      DEF NewExchanger, Proceed, Elsewhere, database, MigratingInv, StageInv, Startup
    <2> QED
      BY <1>0, <1>8, <2>1, StageStep DEF NewExchanger, Proceed, database, Startup, Pc
  <1>9. CASE ListenAndServe
    <2>1. MigratingInv' /\ StageInv'
      BY <1>0, <1>9
      DEF ListenAndServe, Proceed, Elsewhere, database, MigratingInv, StageInv, Startup
    <2>2. pc' \in {"serving", "closing"} /\ err' \in BOOLEAN
      BY <1>0, <1>9 DEF ListenAndServe, Proceed
    <2> QED
      BY <1>0, <1>9, <2>1, <2>2, StageStep
      DEF ListenAndServe, Proceed, database, Startup, Pc
  <1> QED
    BY <1>1, <1>2, <1>3, <1>4, <1>5, <1>6, <1>7, <1>8, <1>9 DEF StartupStep

\* A call that fails, hangs or is given up.
LEMMA TroubledStartup ==
    ASSUME IInv, StartupFails \/ Hang \/ StartupTimeout
    PROVE  IInv'
  <1>0. /\ ver \in 0..Migrations /\ tx \in 0..Migrations /\ applied \in 0..Migrations
        /\ err \in BOOLEAN /\ pc \in Pc /\ MigratingInv /\ StageInv
    BY DEF IInv, TypeOK
  <1>1. Unreachable => pc \in Startup
    BY DEF Unreachable, Startup
  <1>2. CASE StartupFails
    BY <1>1, <1>2, FailStep DEF StartupFails
  <1>3. CASE Hang
    <2>1. MigratingInv' /\ StageInv'
      BY <1>0, <1>1, <1>3 DEF Hang, Elsewhere, database, MigratingInv, StageInv
    <2> QED
      BY <1>0, <1>1, <1>3, <2>1, StageStep DEF Hang, database
  <1>4. CASE StartupTimeout
    <2>1. pc \in Startup
      BY <1>0, <1>4 DEF StartupTimeout, StageInv, Startup
    <2> QED
      BY <1>4, <2>1, FailStep DEF StartupTimeout
  <1> QED
    BY <1>2, <1>3, <1>4

-----------------------------------------------------------------------------
(* Serving, shutting down, and what comes from outside. *)

\* A step after which main and the migrations are where they were, but for the
\* way into the shutdown.
LEMMA ShutdownStep ==
    ASSUME IInv, UNCHANGED <<conf, ver, tx, applied, orphan, hung, exit, lost, req, left>>,
           pc \in {"listen", "serving", "draining"}, pc' \in {"draining", "closing"},
           err' \in BOOLEAN, pc' = "closing" /\ ~err' => AllAnswered,
           out' \subseteq {"db", "idp", "port"}, fails' \in 0..(Retries - 1),
           stopped' \in BOOLEAN, kills' \in 0..MaxKills, troubles' \in 0..MaxTroubles
    PROVE  IInv'
  <1>1. TypeOK'
    BY DEF IInv, TypeOK, Pc
  <1>2. MigratingInv' /\ StageInv'
    BY DEF IInv, MigratingInv, StageInv, Startup
  <1>3. RequestsInv'
    BY DEF RequestsInv, AllAnswered, Startup
  <1>4. OrderlyExit'
    BY DEF IInv, OrderlyExit
  <1> QED
    BY <1>1, <1>2, <1>3, <1>4 DEF IInv

\* A step that changes nothing the invariant speaks of, or lets a migration in.
LEMMA OutsideStep ==
    ASSUME IInv, UNCHANGED <<conf, pc, ver, tx, hung, err, exit, lost, req, left>>,
           applied' \in applied..Migrations, orphan' \in 0..Migrations,
           out' \subseteq {"db", "idp", "port"}, fails' \in 0..(Retries - 1),
           stopped' \in BOOLEAN, kills' \in 0..MaxKills, troubles' \in 0..MaxTroubles
    PROVE  IInv'
  <1>0. Migrations \in Nat /\ ver \in 0..Migrations /\ applied \in 0..Migrations
    BY ProcessAssumption DEF IInv, TypeOK
  <1>1. TypeOK'
    BY <1>0 DEF IInv, TypeOK
  <1>2. MigratingInv' /\ StageInv'
    BY <1>0 DEF IInv, MigratingInv, StageInv
  <1>3. RequestsInv' /\ OrderlyExit'
    BY DEF IInv, RequestsInv, AllAnswered, OrderlyExit
  <1> QED
    BY <1>1, <1>2, <1>3 DEF IInv

\* Shutdown, pool.Close and the signals.
LEMMA EndingStep ==
    ASSUME IInv, Shutdown \/ Signal \/ Kill
    PROVE  IInv'
  <1>0. /\ TypeOK /\ err \in BOOLEAN /\ stopped \in BOOLEAN /\ fails \in 0..(Retries - 1)
        /\ kills \in 0..MaxKills /\ troubles \in 0..MaxTroubles /\ MaxKills \in Nat
        /\ out \subseteq {"db", "idp", "port"}
    BY ProcessAssumption DEF IInv, TypeOK
  <1>1. CASE ShutdownDone
    BY <1>0, <1>1, ShutdownStep
    DEF ShutdownDone, Proceed, Elsewhere, database, requests, bounds, AllAnswered
  <1>2. CASE ShutdownTimeout
    BY <1>0, <1>2, ShutdownStep DEF ShutdownTimeout, Elsewhere, database, requests, bounds
  <1>3. CASE PoolClosed
    <2>1. Holding = {} /\ pc = "closing" /\ UNCHANGED <<fails, stopped, kills, troubles>>
      BY <1>3 DEF PoolClosed, bounds
    <2>2. CASE err
      <3>1. Ends("failed")
        BY <1>3, <2>2 DEF PoolClosed
      <3> QED
        BY <1>0, <2>1, <3>1, EndsStep
    <2>3. CASE ~err
      <3>1. Ends("ok") /\ AllAnswered
        BY <1>3, <2>1, <2>3 DEF PoolClosed, IInv, RequestsInv
      <3> QED
        BY <1>0, <2>1, <3>1, EndsStep
    <2> QED
      BY <2>2, <2>3
  <1>4. CASE Signal
    <2>1. kills' \in 0..MaxKills /\ stopped' = TRUE
      BY <1>0, <1>4 DEF Signal
    <2>2. CASE Ends("killed") /\ UNCHANGED <<fails, troubles>>
      BY <1>0, <2>1, <2>2, EndsStep
    <2>3. CASE /\ pc \in {"listen", "serving", "draining"} /\ Proceed("draining")
               /\ UNCHANGED <<conf, out, requests, fails, troubles, lost, database>>
      BY <1>0, <2>1, <2>3, ShutdownStep DEF Proceed, database, requests
    <2> QED
      BY <1>4, <2>2, <2>3 DEF Signal
  <1>5. CASE Kill
    <2>1. kills' \in 0..MaxKills
      BY <1>0, <1>5 DEF Kill
    <2> QED
      BY <1>0, <1>5, <2>1, EndsStep DEF Kill
  <1> QED
    BY <1>1, <1>2, <1>3, <1>4, <1>5 DEF Shutdown

\* The operator, the health check, the database and the surroundings.
LEMMA SurroundingStep ==
    ASSUME IInv,
           \/ OperatorStart \/ Probe \/ OrphanEnds
           \/ \E x \in {"db", "idp", "port"} : Outage(x) \/ Recover(x)
    PROVE  IInv'
  <1>0. /\ TypeOK /\ stopped \in BOOLEAN /\ fails \in 0..(Retries - 1) /\ Retries \in Nat \ {0}
        /\ kills \in 0..MaxKills /\ troubles \in 0..MaxTroubles
        /\ MaxKills \in Nat /\ MaxTroubles \in Nat /\ Migrations \in Nat
        /\ out \subseteq {"db", "idp", "port"}
        /\ applied \in 0..Migrations /\ orphan \in 0..Migrations
    BY ProcessAssumption DEF IInv, TypeOK
  <1>1. applied \in applied..Migrations
    BY <1>0
  <1>2. CASE OperatorStart
    BY <1>0, <1>1, <1>2, OutsideStep DEF OperatorStart, database, requests, bounds
  <1>3. CASE Probe
    <2>1. CASE /\ fails' = 0
               /\ UNCHANGED <<conf, out, pc, ver, tx, hung, err, exit, database, requests,
                              stopped, bounds, lost>>
      BY <1>0, <1>1, <2>1, OutsideStep DEF database, requests, bounds
    <2>2. CASE /\ fails + 1 < Retries /\ fails' = fails + 1
               /\ UNCHANGED <<conf, out, pc, ver, tx, hung, err, exit, database, requests,
                              stopped, bounds, lost>>
      BY <1>0, <1>1, <2>2, OutsideStep DEF database, requests, bounds
    <2>3. CASE /\ kills < MaxKills /\ kills' = kills + 1
               /\ Ends("unhealthy") /\ UNCHANGED <<fails, stopped, troubles>>
      BY <1>0, <2>3, EndsStep
    <2> QED
      BY <1>3, <2>1, <2>2, <2>3 DEF Probe
  <1>4. CASE OrphanEnds
    <2>1. applied' \in applied..Migrations /\ orphan' \in 0..Migrations
      BY <1>0, <1>4 DEF OrphanEnds
    <2> QED
      BY <1>0, <1>4, <2>1, OutsideStep DEF OrphanEnds, requests, bounds
  <1>5. ASSUME NEW x \in {"db", "idp", "port"}, Outage(x)
        PROVE  IInv'
    <2>1. out' \subseteq {"db", "idp", "port"} /\ troubles' \in 0..MaxTroubles
      BY <1>0, <1>5 DEF Outage
    <2> QED
      BY <1>0, <1>1, <1>5, <2>1, OutsideStep DEF Outage, database, requests
  <1>6. ASSUME NEW x \in {"db", "idp", "port"}, Recover(x)
        PROVE  IInv'
    BY <1>0, <1>1, <1>6, OutsideStep DEF Recover, database, requests, bounds
  <1> QED
    BY <1>2, <1>3, <1>4, <1>5, <1>6

\* A request moves only while there are requests; a new one comes only while
\* the process serves.
LEMMA MovesStep ==
    ASSUME IInv, NEW q \in Request, NEW from, NEW to \in RequestState,
           NEW n \in 0..Statements, Moves(q, from, to, n),
           "none" \in from => pc = "serving"
    PROVE  IInv'
  <1>1. /\ req \in [Request -> RequestState] /\ req' = [req EXCEPT ![q] = to]
        /\ left \in [Request -> 0..Statements] /\ left' = [left EXCEPT ![q] = n]
    BY DEF IInv, TypeOK, Moves
  <1>2. TypeOK'
    BY <1>1 DEF IInv, TypeOK, Moves, database, bounds
  <1>3. MigratingInv' /\ StageInv'
    BY DEF IInv, MigratingInv, StageInv, Moves, database
  <1>4. RequestsInv'
    <2>1. AllAnswered => pc = "serving"
      BY DEF Moves, AllAnswered
    <2> QED
      BY <2>1 DEF IInv, RequestsInv, Moves, Startup
  <1>5. OrderlyExit'
    BY DEF IInv, OrderlyExit, Moves
  <1> QED
    BY <1>2, <1>3, <1>4, <1>5 DEF IInv

\* Requests.
LEMMA RequestStep ==
    ASSUME IInv, NEW q \in Request,
           Arrive(q) \/ ExchangeEnds(q) \/ Acquire(q) \/ Handler(q) \/ Stall(q)
             \/ ClientGone(q)
    PROVE  IInv'
  <1> USE DEF RequestState
  <1>0. /\ 0 \in 0..Statements /\ Statements \in 0..Statements
        /\ left[q] \in 0..Statements /\ (left[q] > 0 => left[q] - 1 \in 0..Statements)
    BY ProcessAssumption DEF IInv, TypeOK
  <1>1. CASE Arrive(q)
    BY <1>0, <1>1, MovesStep DEF Arrive
  <1>2. CASE ExchangeEnds(q)
    <2>1. PICK to \in {"wait", "write"} : Moves(q, {"exchange"}, to, 0)
      BY <1>2 DEF ExchangeEnds
    <2>2. to \in RequestState /\ "none" \notin {"exchange"}
      OBVIOUS
    <2> QED
      BY <1>0, <2>1, <2>2, MovesStep
  <1>3. CASE Acquire(q)
    BY <1>0, <1>3, MovesStep DEF Acquire
  <1>4. CASE Handler(q)
    BY <1>0, <1>4, MovesStep DEF Handler, AcquireFails, Release, Answer
  <1>5. CASE Stall(q)
    BY <1>0, <1>5, MovesStep DEF Stall
  <1>6. CASE ClientGone(q)
    BY <1>0, <1>6, MovesStep DEF ClientGone
  <1> QED
    BY <1>1, <1>2, <1>3, <1>4, <1>5, <1>6

-----------------------------------------------------------------------------
(* The invariant, and what follows from it. *)

\* A container that has not been started, over a database at any version.
LEMMA InvInit == Init => IInv
  <1> SUFFICES ASSUME Init
               PROVE  IInv
    OBVIOUS
  <1>1. TypeOK
    <2>1. 0 \in 0..Migrations /\ 0 \in 0..(Retries - 1) /\ 0 \in 0..MaxKills
          /\ 0 \in 0..MaxTroubles /\ 0 \in 0..Statements
      BY ProcessAssumption
    <2>2. /\ req \in [Request -> RequestState] /\ left \in [Request -> 0..Statements]
          /\ pc \in Pc
      BY <2>1 DEF Init, RequestState, Pc
    <2> QED
      BY <2>1, <2>2 DEF Init, TypeOK
  <1>2. MigratingInv /\ StageInv
    BY DEF Init, MigratingInv, StageInv
  <1>3. RequestsInv /\ OrderlyExit
    BY DEF Init, RequestsInv, AllAnswered, OrderlyExit
  <1> QED
    BY <1>1, <1>2, <1>3 DEF IInv

\* Every step of main, of a request or of the surroundings preserves it.
LEMMA InvStep == IInv /\ [Next]_vars => IInv'
  <1> SUFFICES ASSUME IInv, [Next]_vars
               PROVE  IInv'
    OBVIOUS
  <1>1. CASE UNCHANGED vars
    BY <1>1 DEF vars, IInv, TypeOK, MigratingInv, StageInv, RequestsInv, AllAnswered,
                OrderlyExit
  <1> QED
    BY <1>1, StartupStepInv, TroubledStartup, EndingStep, SurroundingStep, RequestStep
    DEF Next

\* Every reachable state of the process, its requests and its database satisfies
\* the invariant, through any sequence of kills, restarts and outages.
THEOREM Invariance == Spec => []IInv
  <1> QED
    BY InvInit, InvStep, PTL DEF Spec

\* The state of the process, its requests and its database keeps its type.
THEOREM TypeCorrect == Spec => []TypeOK
  <1>1. IInv => TypeOK
    BY DEF IInv
  <1> QED
    BY <1>1, Invariance, PTL

\* The process listens and serves only on a schema that is fully migrated and
\* with a configuration it accepts.
THEOREM ServingMeansReady == Spec => []ServesOnlyReady
  <1>1. IInv => ServesOnlyReady
    BY DEF IInv, TypeOK, Conf, StageInv, ServesOnlyReady
  <1> QED
    BY <1>1, Invariance, PTL

\* A process that ends by itself cuts no transaction, and if it reports a clean
\* shutdown it cut nobody.
THEOREM ExitIsOrderly == Spec => []OrderlyExit
  <1>1. IInv => OrderlyExit
    BY DEF IInv
  <1> QED
    BY <1>1, Invariance, PTL
=============================================================================
