------------------------------- MODULE Process -------------------------------
(***************************************************************************)
(* The life of the server process: main and run of cmd/api/main.go, NewPool *)
(* and Migrate of internal/store, the probe of cmd/api/healthcheck.go, and *)
(* the requests in flight, which share the connection pool.  The container *)
(* runtime restarts the process whenever it ends and nobody stopped it     *)
(* (restart: unless-stopped in infra/docker-compose.yml).                  *)
(*                                                                         *)
(* A request is seen only through what it holds: it may be at the provider *)
(* (Exchange), wait for a connection, have one for its transaction or first *)
(* statement, wait for and have one again for each statement that follows  *)
(* outside a transaction, and write its answer.                            *)
(***************************************************************************)
EXTENDS Naturals, FiniteSets

CONSTANTS
    Request,
    PoolSize,       \* connections of the pool
    Migrations,     \* number of embedded migrations
    Repeatable,     \* those that succeed where they were applied before (IF NOT EXISTS)
    Statements,     \* at most so many statements of a request follow its first connection
    Stalling,       \* BOOLEAN: a request's statement may get no answer at all
    Retries,        \* failed probes in a row that make a container unhealthy
    MaxKills,       \* bound: how often the process is killed or stopped
    MaxTroubles     \* bound: outages

ASSUME ProcessAssumption ==
    /\ PoolSize \in Nat \ {0} /\ Migrations \in Nat
    /\ Repeatable \subseteq 1..Migrations
    /\ Statements \in Nat /\ Stalling \in BOOLEAN
    /\ Retries \in Nat \ {0} /\ MaxKills \in Nat /\ MaxTroubles \in Nat

VARIABLES
    conf,       \* the environment the process reads
    out,        \* what cannot be reached at the moment
    pc,         \* where main and run are
    ver,        \* the version Migrate has read and advanced
    tx,         \* the migration in its open transaction, 0 if none
    hung,       \* a start-up call gets no answer
    err,        \* run will return an error
    exit,       \* how the process last ended
    applied,    \* the schema version: migrations committed
    orphan,     \* the open migration of a process that is gone, 0 if none
    req,        \* the requests in flight
    left,       \* how many statements may follow for each of them
    fails,      \* failed probes in a row
    stopped,    \* somebody stopped the container
    kills, troubles,
    lost        \* history: what the requests cut by the last exit were at

vars == <<conf, out, pc, ver, tx, hung, err, exit, applied, orphan, req, left,
          fails, stopped, kills, troubles, lost>>
database == <<applied, orphan>>
requests == <<req, left>>
bounds == <<kills, troubles>>

-----------------------------------------------------------------------------
Conf == {"invalid",     \* a variable is missing, or half of a provider is set
         "weak",        \* AUTH_SIGNING_KEY is shorter than minSigningKeyBytes
         "none",        \* no provider: sign-in is unavailable
         "full"}

Startup == {"config", "pool", "migrate", "tokens", "discover"}
Pc == Startup \cup {"down", "listen", "serving", "draining", "closing"}

RequestState == {"none", "exchange", "wait", "tx", "wait2", "query", "stalled", "write"}

\* Mutant of Holding: the transaction is rolled back after the diagnosis.
HoldingToTheEnd == {q \in Request : req[q] \in {"tx", "wait2", "query", "stalled"}}

\* Requests that have a connection: one for a transaction or a first statement,
\* given back before the statements that follow ask for another, one by one.
Holding == {q \in Request : req[q] \in {"tx", "query", "stalled"}}

TypeOK ==
    /\ conf \in Conf
    /\ out \subseteq {"db", "idp", "port"}
    /\ pc \in Pc
    /\ ver \in 0..Migrations /\ tx \in 0..Migrations
    /\ applied \in 0..Migrations /\ orphan \in 0..Migrations
    /\ hung \in BOOLEAN /\ err \in BOOLEAN /\ stopped \in BOOLEAN
    /\ exit \in {"none", "ok", "failed", "killed", "unhealthy"}
    /\ req \in [Request -> RequestState] /\ left \in [Request -> 0..Statements]
    /\ fails \in 0..(Retries - 1)
    /\ kills \in 0..MaxKills /\ troubles \in 0..MaxTroubles
    /\ lost \subseteq RequestState

Init ==
    /\ conf \in Conf
    /\ out = {} /\ troubles = 0 /\ kills = 0
    /\ pc = "down" /\ exit = "none" /\ stopped = FALSE
    /\ ver = 0 /\ tx = 0 /\ hung = FALSE /\ err = FALSE
    /\ applied \in 0..Migrations /\ orphan = 0
    /\ req = [q \in Request |-> "none"] /\ left = [q \in Request |-> 0]
    /\ fails = 0 /\ lost = {}

-----------------------------------------------------------------------------
(* Ends of the process. *)

\* Whatever is in flight is cut; a migration's transaction is left to the
\* database.
Ends(how) ==
    /\ pc' = "down" /\ exit' = how
    /\ lost' = {req[q] : q \in Request} \ {"none"}
    /\ req' = [q \in Request |-> "none"] /\ left' = [q \in Request |-> 0]
    /\ orphan' = IF tx # 0 THEN tx ELSE orphan
    /\ tx' = 0 /\ hung' = FALSE /\ err' = FALSE
    /\ UNCHANGED <<conf, out, ver, applied>>

\* An error before the listener opens: os.Exit(1).
Fail == Ends("failed") /\ UNCHANGED <<fails, stopped, bounds>>

-----------------------------------------------------------------------------
(* main and run, up to the listener. *)

Proceed(next) == pc' = next /\ UNCHANGED <<ver, tx, hung, exit, err>>

Elsewhere == UNCHANGED <<conf, out, requests, fails, stopped, bounds, lost>>

\* The container is started or restarted.
Start ==
    /\ pc = "down" /\ ~stopped
    /\ pc' = "config" /\ exit' = "none" /\ fails' = 0 /\ lost' = {}
    /\ UNCHANGED <<conf, out, ver, tx, hung, err, database, requests, stopped,
                   bounds>>

LoadConfig ==
    /\ pc = "config"
    /\ \/ conf = "invalid" /\ Fail
       \/ conf # "invalid" /\ Proceed("pool") /\ Elsewhere /\ UNCHANGED database

\* Mutant of NewPool: the service comes up first and migrates later.
NewPoolOnly ==
    /\ pc = "pool" /\ "db" \notin out /\ ~hung
    /\ Proceed("tokens")
    /\ Elsewhere /\ UNCHANGED database

\* NewPool and its Ping; Migrate then reads which migrations are pending.
NewPool ==
    /\ pc = "pool" /\ "db" \notin out /\ ~hung
    /\ pc' = "migrate" /\ ver' = applied
    /\ UNCHANGED <<tx, hung, exit, err, database>> /\ Elsewhere

\* Mutant of MigrateApply: the loop runs past the last migration.
MigrateApplyPastEnd ==
    /\ pc = "migrate" /\ "db" \notin out /\ ~hung
    /\ tx = 0 /\ orphan = 0
    /\ tx' = ver + 1
    /\ UNCHANGED <<pc, ver, hung, exit, err, database>> /\ Elsewhere

\* A pending migration's statements, in a transaction of its own.  They wait
\* for the locks of a transaction that a dead process left open, and fail if
\* it turns out to have created the same tables.
MigrateApply ==
    /\ pc = "migrate" /\ "db" \notin out /\ ~hung
    /\ tx = 0 /\ ver < Migrations /\ orphan = 0
    /\ \/ /\ applied > ver /\ (ver + 1) \notin Repeatable
          /\ Fail
       \/ /\ applied <= ver \/ (ver + 1) \in Repeatable
          /\ tx' = ver + 1
          /\ UNCHANGED <<pc, ver, hung, exit, err, database>> /\ Elsewhere

\* Migration and version row are committed together.
MigrateCommit ==
    /\ pc = "migrate" /\ "db" \notin out /\ ~hung
    /\ tx # 0
    /\ applied' = IF tx > applied THEN tx ELSE applied
    /\ ver' = tx /\ tx' = 0
    /\ UNCHANGED <<pc, hung, exit, err, orphan>> /\ Elsewhere

MigrateDone ==
    /\ pc = "migrate" /\ tx = 0 /\ ver = Migrations
    /\ Proceed("tokens")
    /\ Elsewhere /\ UNCHANGED database

NewTokenIssuer ==
    /\ pc = "tokens"
    /\ \/ conf = "weak" /\ Fail
       \/ conf # "weak" /\ Proceed("discover") /\ Elsewhere /\ UNCHANGED database

\* NewExchanger: discovery, unless no provider is configured.
NewExchanger ==
    /\ pc = "discover" /\ ~hung
    /\ conf = "none" \/ "idp" \notin out
    /\ Proceed("listen")
    /\ Elsewhere /\ UNCHANGED database

\* What the start-up's next call needs, and cannot reach.
Unreachable ==
    \/ pc \in {"pool", "migrate"} /\ "db" \in out
    \/ pc = "discover" /\ conf # "none" /\ "idp" \in out

StartupFails == Unreachable /\ ~hung /\ Fail

\* A call that gets no answer, not even when the outage is over.
Hang ==
    /\ Unreachable /\ ~hung
    /\ hung' = TRUE
    /\ UNCHANGED <<pc, ver, tx, exit, err, database>> /\ Elsewhere

\* Mutant of StartupTimeout: start-up runs on context.Background().
StartupTimeoutNever == FALSE /\ UNCHANGED vars

\* startupTimeout bounds a hung call, and the wait for an orphan's locks.
StartupTimeout ==
    /\ hung \/ (pc = "migrate" /\ orphan # 0)
    /\ Fail

-----------------------------------------------------------------------------
(* Serving and shutting down. *)

ListenAndServe ==
    /\ pc = "listen"
    /\ \/ "port" \notin out /\ Proceed("serving")
       \/ "port" \in out /\ pc' = "closing" /\ err' = TRUE /\ UNCHANGED <<ver, tx, hung, exit>>
    /\ Elsewhere /\ UNCHANGED database

\* Mutant of ShutdownDone: the server is closed, and nobody is waited for.
ShutdownDoneAtOnce ==
    /\ pc = "draining"
    /\ Proceed("closing")
    /\ Elsewhere /\ UNCHANGED database

\* srv.Shutdown returns when the last request is answered.
ShutdownDone ==
    /\ pc = "draining"
    /\ \A q \in Request : req[q] = "none"
    /\ Proceed("closing")
    /\ Elsewhere /\ UNCHANGED database

\* Mutant of ShutdownTimeout: Shutdown gets a context without a deadline.
ShutdownTimeoutNever == FALSE /\ UNCHANGED vars

\* ... or when shutdownTimeout is over, with requests still running.
ShutdownTimeout ==
    /\ pc = "draining"
    /\ \E q \in Request : req[q] # "none"
    /\ pc' = "closing" /\ err' = TRUE
    /\ UNCHANGED <<ver, tx, hung, exit, database>> /\ Elsewhere

\* Mutant of PoolClosed: main exits without running the deferred calls.
PoolClosedAtOnce ==
    /\ pc = "closing"
    /\ Ends(IF err THEN "failed" ELSE "ok") /\ UNCHANGED <<fails, stopped, bounds>>

\* The deferred pool.Close waits until every connection is given back.
PoolClosed ==
    /\ pc = "closing"
    /\ Holding = {}
    /\ Ends(IF err THEN "failed" ELSE "ok") /\ UNCHANGED <<fails, stopped, bounds>>

\* SIGTERM or SIGINT.  Before NotifyContext, and after the deferred stop(), it
\* ends the process at once; during the shutdown it is swallowed.
Signal ==
    /\ kills < MaxKills /\ pc # "down"
    /\ kills' = kills + 1 /\ stopped' = TRUE
    /\ \/ /\ pc \in Startup \cup {"closing"}
          /\ Ends("killed") /\ UNCHANGED <<fails, troubles>>
       \/ /\ pc \in {"listen", "serving", "draining"}
          /\ Proceed("draining")
          /\ UNCHANGED <<conf, out, requests, fails, troubles, lost, database>>

\* SIGKILL, a crash, the power.
Kill ==
    /\ kills < MaxKills /\ pc # "down"
    /\ kills' = kills + 1
    /\ Ends("killed") /\ UNCHANGED <<fails, stopped, troubles>>

OperatorStart ==
    /\ stopped /\ pc = "down"
    /\ stopped' = FALSE
    /\ UNCHANGED <<conf, out, pc, ver, tx, hung, err, exit, database, requests, fails,
                   bounds, lost>>

\* GetHealth answers whenever the process listens.
GetHealth == pc = "serving"

\* runHealthcheck.  A runtime that restarts unhealthy containers (compose only
\* marks them) does so at the last of Retries failures.
Probe ==
    /\ pc # "down"
    /\ \/ /\ GetHealth
          /\ fails' = 0
          /\ UNCHANGED <<conf, out, pc, ver, tx, hung, err, exit, database, requests,
                         stopped, bounds, lost>>
       \/ /\ ~GetHealth /\ fails + 1 < Retries
          /\ fails' = fails + 1
          /\ UNCHANGED <<conf, out, pc, ver, tx, hung, err, exit, database, requests,
                         stopped, bounds, lost>>
       \/ /\ ~GetHealth /\ fails + 1 = Retries /\ kills < MaxKills
          /\ kills' = kills + 1
          /\ Ends("unhealthy") /\ UNCHANGED <<fails, stopped, troubles>>

-----------------------------------------------------------------------------
(* Requests. *)

\* A request goes on, with at most n statements to come.
Moves(q, from, to, n) ==
    /\ req[q] \in from
    /\ req' = [req EXCEPT ![q] = to] /\ left' = [left EXCEPT ![q] = n]
    /\ UNCHANGED <<conf, out, pc, ver, tx, hung, err, exit, database, fails, stopped,
                   bounds, lost>>

\* A sign-in asks the provider first, the other requests the database.
Arrive(q) == pc = "serving" /\ \E to \in {"exchange", "wait"} : Moves(q, {"none"}, to, 0)

\* Exchange has no timeout of its own: the answer may never come.
ExchangeEnds(q) == \E to \in {"wait", "write"} : Moves(q, {"exchange"}, to, 0)

\* The pool hands out a connection, to those who wait in turn.
Acquire(q) ==
    /\ pc \in {"serving", "draining"}
    /\ Cardinality(Holding) < PoolSize
    /\ \/ Moves(q, {"wait"}, "tx", Statements)
       \/ Moves(q, {"wait2"}, "query", left[q])

\* No connection: the pool is closed, or cannot reach the database.
AcquireFails(q) ==
    /\ pc = "closing" \/ "db" \in out
    /\ Moves(q, {"wait", "wait2"}, "write", 0)

\* The transaction is committed or rolled back, or the statement done, and the
\* connection returned.  The next statement, if there is one, asks for another:
\* the three of diagnoseFailedConsume after a rotation that consumed nothing, the
\* two of RevokeByToken and that of Issue after Provision, ByID after Rotate.
Release(q) ==
    \/ left[q] > 0 /\ Moves(q, {"tx", "query"}, "wait2", left[q] - 1)
    \/ Moves(q, {"tx", "query"}, "write", 0)

\* A statement that gets no answer, not even when the outage is over: nothing in
\* the handlers bounds it.
Stall(q) == Stalling /\ "db" \in out /\ Moves(q, {"tx", "query"}, "stalled", 0)

Answer(q) == Moves(q, {"write"}, "none", 0)

\* The client hangs up: the request's context ends whatever it waits for, and a
\* connection goes back to the pool.
ClientGone(q) ==
    Moves(q, {"exchange", "wait", "tx", "wait2", "query", "stalled"}, "none", 0)

-----------------------------------------------------------------------------
(* The surroundings. *)

\* PostgreSQL finishes or rolls back the transaction of a client that is gone.
OrphanEnds ==
    /\ orphan # 0
    /\ orphan' = 0
    /\ applied' \in {applied, IF orphan > applied THEN orphan ELSE applied}
    /\ UNCHANGED <<conf, out, pc, ver, tx, hung, err, exit, requests, fails, stopped,
                   bounds, lost>>

Outage(x) ==
    /\ troubles < MaxTroubles
    /\ troubles' = troubles + 1 /\ out' = out \cup {x}
    /\ UNCHANGED <<conf, pc, ver, tx, hung, err, exit, database, requests, fails,
                   stopped, kills, lost>>

Recover(x) ==
    /\ x \in out
    /\ out' = out \ {x}
    /\ UNCHANGED <<conf, pc, ver, tx, hung, err, exit, database, requests, fails,
                   stopped, bounds, lost>>

StartupStep ==
    \/ Start \/ LoadConfig \/ NewPool \/ MigrateApply \/ MigrateCommit \/ MigrateDone
    \/ NewTokenIssuer \/ NewExchanger \/ ListenAndServe

Shutdown == ShutdownDone \/ ShutdownTimeout \/ PoolClosed

Handler(q) == AcquireFails(q) \/ Release(q) \/ Answer(q)

Next ==
    \/ StartupStep \/ StartupFails \/ Hang \/ StartupTimeout
    \/ Shutdown
    \/ Signal \/ Kill \/ OperatorStart \/ Probe
    \/ OrphanEnds
    \/ \E x \in {"db", "idp", "port"} : Outage(x) \/ Recover(x)
    \/ \E q \in Request : Arrive(q) \/ ExchangeEnds(q) \/ Acquire(q) \/ Handler(q)
                            \/ Stall(q) \/ ClientGone(q)

Spec == Init /\ [][Next]_vars

\* The process runs, its timers fire, the database answers statements (but for
\* those that Stall) and ends orphaned transactions, the pool serves in turn,
\* outages end.  Nothing is assumed of the provider's answer to Exchange.
Fairness ==
    /\ WF_vars(StartupStep) /\ WF_vars(StartupTimeout) /\ WF_vars(Shutdown)
    /\ WF_vars(OrphanEnds)
    /\ \A x \in {"db", "idp", "port"} : WF_vars(Recover(x))
    /\ \A q \in Request : WF_vars(Handler(q)) /\ SF_vars(Acquire(q))

FairSpec == Spec /\ Fairness

-----------------------------------------------------------------------------
(* Correctness. *)

\* "The process never serves traffic against a schema it has not migrated"
\* (run), however often it was killed in the middle of a migration before, and
\* never with a configuration it should have refused.
ServesOnlyReady ==
    pc \in {"listen", "serving", "draining"} =>
       applied = Migrations /\ conf \in {"none", "full"}

\* A process that ends by itself cuts nobody in the middle of a transaction,
\* also when requests outlast shutdownTimeout; and if it reports a clean
\* shutdown it has answered everybody.
OrderlyExit ==
    /\ lost \cap {"tx", "query", "stalled"} # {} => exit \in {"killed", "unhealthy"}
    /\ exit = "ok" => lost = {}

Stalled == \E q \in Request : req[q] = "stalled"

\* A shutdown ends, also when a sign-in waits for a provider that never answers.
\* Only a statement without an answer keeps it: the deferred pool.Close waits.
ShutdownEndsUnlessStalled == pc \in {"draining", "closing"} ~> pc = "down" \/ Stalled

\* A process that is configured and not stopped comes to serve, again and again,
\* through outages, hung calls, kills and migrations cut in half.
KeepsTrying == []<>(pc = "serving" \/ stopped \/ conf \in {"invalid", "weak"})

\* At the limit of the pool requests take turns: none waits for a connection
\* while it holds one, so whoever waits is served, unless a statement stalls.
PoolServesAll ==
    \A q \in Request :
       req[q] \notin {"none", "exchange"} ~> req[q] \in {"none", "exchange"} \/ Stalled
=============================================================================
