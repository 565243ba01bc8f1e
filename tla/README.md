# Einkaufsliste: a verification project

TLA+ models of the shopping list's sign-in and session code and of the process
that serves it, the TLC runs that check them on small instances, and TLAPS proofs,
for instances of any size, of every safety property the passing runs check. At this commit
sessions *are* the program: lists, items and sync are packages with nothing but a
comment in them.

## The system

| Part | State it keeps | Operations | Talks to |
| --- | --- | --- | --- |
| Sessions, `internal/auth/sessions.go` | table `refresh_tokens` | Issue, Rotate, RevokeByToken, RevokeFamily, RevokeAllForUser | PostgreSQL, one transaction or several statements per operation |
| Accounts, `internal/auth/accounts.go` | tables `users`, `identities` | Provision, ByID | PostgreSQL, one transaction per Provision |
| Exchange and verification, `exchange.go`, `verifier.go` | provider configuration | Exchange, Verify | the OIDC provider |
| Access tokens, `tokens.go` | signing key | NewAccessToken, ParseAccessToken, NewRefreshToken | nothing |
| Handlers, `transport/http/auth.go`, `me.go`, `cookies.go` | none; the cookie is the browser's | AuthCallback, AuthRefresh, AuthLogout, GetMe | all of the above |
| Browser session, `web/src/auth/session.ts` | access token, refresh in flight, pending login | refresh, restore, apiFetch, beginSignIn, completeSignIn, signOut | handlers; the other tabs through cookie and Web Lock |
| App, `web/src/App.tsx` | what the page shows | load, sign in, sign out, try again | browser session |
| Wiring, `cmd/api/main.go`, `healthcheck.go` | the process | start-up, shutdown, health probe | everything |
| Store, `internal/store` | connection pool, schema version | NewPool, Migrate | PostgreSQL |
| Provider: `oidctest/issuer.go` in the tests | table of codes | IssueCode, token endpoint | browser and Exchange |

A sign-in goes browser, provider, `AuthCallback`, `Exchange`, `Provision`,
`RevokeByToken` of a cookie still there, `Issue`. A page load goes `restore`,
`refresh`, `AuthRefresh`, `Rotate`, then `GetMe`. The refresh token travels in
a cookie all tabs share; every refresh replaces it.

### What is hard here

* Requests with one token race in the database. Under READ COMMITTED an
  UPDATE chooses rows in an old snapshot, waits, and re-checks only the row
  itself; the sub-select over the family is not evaluated again.
* `diagnoseFailedConsume` decides in three statements with three snapshots,
  and tells an honest race from a replay by comparing timestamps.
* First sign-ins race to create, or to link to, one account.
* Tabs share a cookie, answers arrive in any order, and each answer may set or
  clear the cookie. The Web Lock covers refreshes, not sign-in and sign-out.
* Calls time out, or pages are reloaded, while the server goes on working.
* A sign-in leaves the page and comes back to it, possibly into another tab, a
  copy of the tab, or a page of the history; two attempts of one tab overlap.
* The process is killed in the middle of a migration, starts against a database
  that does not answer, is at the limit of its connection pool, or is told to stop
  while requests run.

`PROJECT.json` lists each of these at its line under `hazards`, with the
properties aimed at it.

### What makes each part correct

* Sessions: a token is exchanged once; a family is a line; a replay kills the
  family and an honest race does not; a dead family stays dead.
* Accounts: identities share an account exactly by the linking rules of
  spec 9; nothing is merged, moved or left half done.
* Browser: one honest browser never trips reuse detection; no answer takes the
  cookie of a live session away, and a tab that was refused twice is right, but for
  a session whose sign-in overtook a call of another tab; a sign-out holds; no tab
  waits for ever.
* Sign-in flow: an account is entered only by the attempt that its owner
  authorised at the provider; a code is good once; who comes straight back is
  recognised.
* Process: no request before the schema is migrated; it comes back after every
  failure; a shutdown cuts no transaction; unless a statement gets no answer at all,
  a shutdown ends and whoever waits for a connection gets one.

## Modules

| Module | Models | Instance |
| --- | --- | --- |
| `RefreshTokens` | `sessions.go` over `refresh_tokens.sql` | `MCRefreshTokens` |
| `Accounts` | `accounts.go` over `accounts.sql` and the unique indexes | `MCAccounts` |
| `Browser` | `session.ts`, `App.tsx` and the handlers of `auth.go`, over sessions seen from outside | `MCBrowser` |
| `SignIn` | `beginSignIn` and `completeSignIn` of `session.ts`, the effect of `App.tsx`, `AuthCallback`, `exchange.go`, `verifier.go`, the provider | `MCSignIn` |
| `Process` | `main.go`, `healthcheck.go`, `store.go`, `migrate.go`, `health.go`, requests at the pool | itself |
| `SessionFamilies` | what sessions promise; implemented by `RefreshTokens` and by the server in `Browser` | through `INSTANCE` |
| `M_proofs` for `RefreshTokens`, `Accounts`, `Browser`, `SignIn`, `Process` | theorems about M | TLAPS |
| `RefreshTokensFamilies_proofs`, `BrowserFamilies_proofs` | that these two implement `SessionFamilies` | TLAPS |

Names of definitions follow the code. A definition called `XSomething` whose
comment begins "Mutant of X" is a deliberately broken X: with it the named
property fails, which shows that the property depends on that code.

### RefreshTokens

`rows` is the table; a slot of `Hash` with `issued = 0` is not there, and 0 is
also SQL's NULL. `req` holds, for each request, the statement that comes next
(`pc`) and the local variables of the Go function: the token presented, the
`now()` of its transaction, the successor's hash and expiry, what the
diagnosis has read, the rows an UPDATE has chosen.

One action is one statement, or half of one where it waits:

* `RotateBegin` is `pool.Begin`. `ConsumeSnapshot` and `ConsumeApply` are
  the two halves of `ConsumeRefreshToken`: the choice in the snapshot, and the
  second look at the row once its lock is free. `Mint` and `Commit` follow. The
  row lock (`Locked`) is held from `ConsumeApply` to the end.
* `DiagnoseUnspent`, `DiagnoseSpent`, `CheckBenign` and the revocation are
  `diagnoseFailedConsume`, outside any transaction.
* `RevokeSnapshot` and `RevokeApply` are the halves of both revoking UPDATEs:
  rows that were committed after the snapshot escape. A real UPDATE locks its
  rows one by one; here it gets them together, when all are free, and holds none
  while it waits. So the model has no circle of two revocations that take the same
  rows in opposite order; PostgreSQL ends such a deadlock by failing one of the two,
  which is `StepFails`, and `EveryRequestAnswered` says nothing about it.
* `StepFails` lets any statement fail or the context be cancelled. `Commit`,
  `Issue` and `RevokeApply` may succeed and still be reported as an error.

Writes of an open transaction are invisible to others, so they appear in
`rows` at `Commit`; before, they are only the lock.

Time is a number. `now()` is fixed when a transaction begins. Committing an
INSERT moves the clock: a token can be presented only after it was committed
and sent, which takes longer than a microsecond, the resolution of
`timestamptz`. Without this, two rotations in a row could carry one timestamp
and the comparison `issued_at >= used_at` would not tell parent from child. The
clock never goes back, and the program's clock, which gives `expires_at`,
agrees with the database's.

`gen` (how many rotations lie behind a token) and `late` (tokens committed into
a family that was already revoked) are history: no guard reads them.

### Accounts

`tx` holds the transactions; `wrote` is what a transaction has written and not
committed. The partial unique index `users_email_verified_key` and the key
`(provider, subject)` make a colliding INSERT wait (`EmailPending`,
`KeyPending`) and then fail if the other side committed; an UPDATE of the same
profile row waits (`ProfilePending`). `claim` is history: what the provider
asserted when an identity was first seen. Display name and avatar are one
value, `Profile`; an email is equal up to case (citext). Nothing in the code sets
`deleted_at`, so the conditions on it always hold.

### Browser

`fam` is the server's sessions from outside: the generation of a family's last
token, whether the rotation that made it is within the grace window, whether
the family is revoked. That this abstraction of `RefreshTokens` is right is what
the theorems `RotationNeverForks` and `BenignRaceIsHonest` say, and that both models
are servers of one kind the two theorems `Refinement`. `jar` is the
shared cookie, `call` the call each tab has outstanding, `tab` what it shows and
where it is. A call takes the cookie when it is sent, is handled in one step
(`Handle`), and its `Set-Cookie` reaches the jar when its answer arrives. A call
given up on may still be handled (`ghosts`, `HandleGhost`).

Three constants say what is assumed of the surroundings. `Locks`: the browser has
`navigator.locks`. `Lossy`: calls can be lost or outlast the timeout. `Faulty`:
the server's database can fail. When `Lossy` is false, no call lasts longer than
the grace window (`GraceEnds`). Token expiry (60 days) is left out.

A reload in the middle of a refresh (`Reload`) drops the answer and the lock; like
`Unreachable` it is part of the lossy surroundings. `ended` (signed out of, or
replaced) and `lost` (an answer to a refresh of it was lost) are history.

So are the variables behind the question whether a session is over. `stored` has the
families whose cookie was in the jar, `overtaken` those whose sign-in was answered
while a call of another tab was under way. `tab.held` has the families that were
stored and alive when the tab last sent a refresh, `tab.refused` what was held when
the refresh that ended in "signed out" was sent. With these, `RefusedMeansOver` is the
comment of `session.ts:195` about the browser's sessions, whichever cookie the call
carried. It is false, for one reason (`browser_overtaken`): a refusal clears the jar,
not the cookie it refused. `OverUnlessOvertaken` and `KeptUnlessOvertaken` say that there is
no other reason, unless the database fails (`browser_faulty`).

### SessionFamilies

The abstract specification. Of a family it knows the unspent and the spent tokens,
whether it is revoked, and whether it was extended after that; a step lets every
family stay, begin, be extended at its end, be revoked, or be extended once more
by an exchange that was under way when it was revoked. Families are independent,
so `Next` is a conjunction over them: one sign-in ends a family and begins
another.

`RefreshTokens` implements it with its table as the witness (a family's rows with
and without `used_at`; revoked if one row is), `Browser` with its generations.
Both refinements are the property `ImplementsFamilies`, checked and proved. They tie
the two models together: `Browser` treats a server of many statements as one step per call, and
this says that both are servers of the same kind. In `Browser` nothing straggles:
a call is handled in one step, and a straggler is a token nobody ever exchanges
(`RevocationIsFinal`).

### SignIn

An *attempt* is one call of `newPendingLogin`; it stands for its state, nonce and
verifier together. `store` is each tab's sessionStorage, `tab` the page, the URL's
`state` and `code`, and the attempts whose digest `beginSignIn` still awaits.
`posts` are the calls of `AuthCallback`: sent, redeemed at the provider, then
verified. The provider is `oidctest/issuer.go`: a code belongs to an attempt and
to a person and is given up at the first try to redeem it. Its answer may also be
wrong (`Tokens`): the token of another sign-in, one without a subject, one go-oidc
rejects.

The user's detours are bounded by `MaxDetours`: loading the callback page again
while its call runs, stepping through the history, copying a tab with its
sessionStorage, opening the address of one tab in another. A second click before
the page is gone, before or after `location.assign` was called, is not a detour and
needs no bound but the number of attempts.

`StrictMode` says whether React runs the effect twice: the first run takes the
pending login and posts, the second finds none and decides what is shown.
`held`, `strayed`, `grant` and `sessions` are history, except that `grant` is what
the provider remembers of a code.

### Process

`pc` is where `main` and `run` are. `applied` is the schema version in the database,
`ver` what `Migrate` has read, `tx` its open transaction, and `orphan` one that a
dead process left behind: PostgreSQL may commit or roll it back later, while the
next process waits for its locks or finds its tables. `Repeatable` are migrations
written with IF NOT EXISTS. A request is only where it stands with respect to the
provider and the pool: `wait` and `tx` for its transaction or first statement, `wait2`
and `query` for each statement that follows outside a transaction, `write`. `left`
counts how many may follow, at most `Statements`: three after a rotation that consumed
nothing (`diagnoseFailedConsume`) and after Provision (two of `RevokeByToken`, then
`Issue`), one after a rotation that succeeded (`ByID`). Each gives its connection back
before the next asks for one. With `Stalling` a statement sent to a database that
cannot be reached may get no answer for good (`Stall`); only the client's going away
ends it.
`Signal` ends the process at once before `NotifyContext` and after the deferred
`stop()`; during the shutdown it is swallowed. `Probe` is a runtime that restarts
unhealthy containers; Compose itself only marks them.

## Runs

| Run | Bounds | Shows |
| --- | --- | --- |
| `refresh_tokens` | 4 hashes, 1 family, 2 requests, grace 3, TTL 2, clock 4 | `ExactlyOneSuccessor`, the revocation properties, `TimestampsStick`, the timestamp tests behind the benign race; `RefreshTokens` implements `SessionFamilies` |
| `refresh_tokens_live` | 2 hashes, 2 requests, no symmetry | every request is answered |
| `accounts` | 2 providers, 1 subject, an ordinary and a relay address, 2 profiles, 3 users, 2 requests | linking rules, atomicity, ownership |
| `accounts_live` | 2 providers that vouch for one address, 1 user, 2 profiles, 2 requests | every Provision is answered |
| `browser` | 3 tabs, 3 families, 3 page loads; locks, reliable | honest tabs stay signed in; refusals are true and sessions kept unless a sign-in overtook a call; sign-out holds; the server implements `SessionFamilies` |
| `browser_live` | 2 tabs, 1 family, 2 page loads; locks, lossy, faulty | every refresh settles; reuse detection fires only after a lost answer (`ReuseNeedsLoss`) |
| `browser_no_locks` | 2 tabs, 1 family, 3 loads; no locks, reliable | **violated**: the grace window alone does not protect honest tabs |
| `browser_overtaken` | 2 tabs, 2 families, 2 loads; locks, reliable | **violated**: a late refusal clears the cookie of a session begun meanwhile |
| `browser_faulty` | 2 tabs, 1 family, 3 loads; locks, faulty | **violated**: a database error looks like the end of the session |
| `sign_in` | 2 tabs, 2 attempts, 2 codes, 2 persons, 2 detours | state, verifier and nonce keep attempts apart; a code makes one session; the straight path is recognised |
| `sign_in_strict` | the same, StrictMode, no detours | **violated**: in a development build every sign-in is said to have started elsewhere |
| `process` | 2 requests of up to 4 statements, stalling, pool of 1, 2 migrations (the first repeatable), 2 retries, 2 kills, 2 outages | serves only a migrated schema, orderly exits, start-up keeps trying; unless a statement stalls a shutdown ends and the pool serves all |

Why the bounds are enough to be interesting: four hashes give a
family in which a straggler, the parent that was revoked too late to stop it,
and a token the straggler might wrongly be exchanged for all have room: a
rotation commits into a revoked family only with the token after the one that
escaped the revocation. Grace 3 with clock 4 and TTL 2 puts spent tokens inside the
window and at its end, with a live and with an expired successor and with a chain that
has moved on. Two requests are enough for
every pair of statements to race. Families do not share rows, so one is enough
for RefreshTokens. Three users leave room for one
account and two more being created, which two keys cannot exceed. For
`accounts_live` the two providers must meet in one account, so that one sign-in can
hold the identity it linked while it waits for the profile row the other holds; all
identities share one address there and one user is enough. Three tabs let
one overtake another twice while a third signs out. Two attempts and two codes are
what it takes to mix two sign-ins up, and with two detours a tab can be copied and
its copy reloaded, or its address pasted and its history used. Two requests and one
connection are the pool at its limit; two migrations and two kills put a kill into
the first and into the second, and into the start after it; three statements after the
first connection are the most a handler makes. Sign-out, sign-in and a refresh under
way need two tabs and two families. For the safety properties
the bounds are not the last word: the proofs are for any number of requests, tabs,
families, attempts, connections, migrations and kills, and those about kept sessions and
sign-out also cover tabs without locks on a network that loses answers. For liveness the
bounds are the last word.

`CHECK_DEADLOCK FALSE` in the Browser runs: when the page loads and the spare
families of the bound are used up, the tabs rest. So do the tabs of the SignIn runs
without further attempts and codes.

### The disagreements

* `browser_no_locks`: `session.ts:226` relies on the grace window where there
  are no Web Locks. A call with token 1 that is handled after the other tab
  rotated 1 to 2 and 2 to 3, within the window, is judged a replay.
* `browser_overtaken`: the same comment, on a working server. A refresh of the old
  session is under way while another tab signs out and in again. Its refusal arrives
  after the new session's cookie, and `auth.go:125` clears whatever cookie is there;
  the retry has none, the tab says signed out, and the new session, alive for 60 days,
  is lost to the browser. `auth.go:110` avoids exactly this for a lost race.
* `browser_faulty`: `session.ts:195` takes a second 401 for the end of the
  session. `auth.go:125` sends 401 and clears the cookie for any failure of
  `Rotate`, so the retry has no cookie and is refused as well.
* `sign_in_strict`: `session.ts:101` says that the sign-in did not start in this
  tab. In a development build it did: `main.tsx:13` makes React run App's effect
  twice, the second run finds the pending login taken, and its message stays while
  the first run's call signs the browser in unseen. In production the message is
  wrong only after a detour (a reload during the exchange, an older provider page in
  the history, two clicks whose digests finish in the other order);
  `StraightPathIsKnown` is the part that holds.

Four statements in comments were found not to hold, without a run of their own:
`main.go:29` (`shutdownTimeout` bounds how long requests get to finish: it bounds
`Shutdown`, but the deferred `pool.Close` of `main.go:173` then waits for the connections
of the same requests, and no statement has a timeout; `ShutdownEndsUnlessStalled` names
this exception, and without it the run `process` has a counterexample),
`sessions.go:84` (a spent token always revokes its family; a benign race does not),
`accounts.go:39` (an unknown identity is a new *provider*; it may be another subject
of one the account has, and is linked as well), and `pkce.ts:14` (64 characters;
there are 66, so the first 58 come up four times in 256 and the last eight three
times).

### Fairness

* `RefreshTokens` and `Accounts`: a statement that need not wait is executed
  (weak fairness); a statement that waits for a row or an index entry gets it
  if it is free again and again (strong fairness), because PostgreSQL queues
  lock waiters. Nothing is assumed of new requests or of time.
* `Browser`: a free Web Lock goes to whoever waits, in order (strong fairness on
  `AcquireLock`); the two timers, retry and timeout, fire (weak fairness). Nothing
  is assumed of the network or of the server: that a refresh settles rests on
  the timeout alone.

* `Process`: the process makes its next step, its two deadlines fire, a handler that
  has what it needs goes on (a statement is answered unless it `Stall`s, which the
  properties name), PostgreSQL ends orphaned transactions and outages end
  (weak fairness); the pool serves in turn, as pgxpool's queue does (strong fairness
  on `Acquire`). Nothing is assumed of the provider's answer to `Exchange`, of
  signals or of probes. Kills and outages are bounded in number; `KeepsTrying` is
  about what comes after each of them.
* `SignIn` has no fairness: whether somebody comes back from the provider is up to
  them.

## Proofs

The theorems hold for every value of the constants that satisfies the named
assumption of the module, all of them modest: `NoneAssumption` (the null is no
identifier) and `TimeAssumption` (times are naturals) of `RefreshTokens`;
`AccountsAssumption` (relay addresses are addresses, the null is none of the values);
`BrowserAssumption`, `SignInAssumption` (the null, Boolean switches, a natural bound);
`ProcessAssumption` (at least one connection and one try, natural bounds). Where a
theorem needs more, the table says so, and it stands in the theorem as an ASSUME; each
is a condition under which the corresponding run is made. No set is assumed finite.

| Theorem | Property | Under |
| --- | --- | --- |
| **RefreshTokens_proofs** | | |
| `TypeCorrect` | `TypeOK` | |
| `RotationNeverForks` | `ExactlyOneSuccessor` | |
| `TimestampsOrderFamilies` | `DescendedByTimestamp` | |
| `BenignRaceIsHonest` | `BenignOnlyForTipsParent` | |
| `RevocationIsFinal` | `RevokedFamilyStaysDead` | |
| `ReuseIsPunished` | `ReusedMeansRevoked` | |
| `HistoryIsKept` | `TimestampsStick` | |
| **RefreshTokensFamilies_proofs** | | |
| `Refinement` | `ImplementsFamilies` | |
| **Accounts_proofs** | | |
| `TypeCorrect` | `TypeOK` | |
| `OneAccount` | `OneVerifiedAccountPerEmail` | |
| `LinkingRules` | `LinkedIffVerifiedEmail` | |
| `NoOrphan` | `NoOrphanAccount` | |
| `OwnerSignedIn` | `SignedInAsOwner` | |
| `NothingEverMoves` | `NothingMoves` | |
| **Browser_proofs** | | |
| `TypeCorrect` | `TypeOK` | |
| `OnlyLossLooksLikeReuse` | `ReuseNeedsLoss` | `Locks` |
| `HonestTabs` | `HonestTabsStaySignedIn` | `Locks`, not `Lossy` |
| `SessionsAreKept` | `KeptUnlessOvertaken` | not `Faulty` |
| `RefusalIsFinal` | `OverUnlessOvertaken` | `Locks`, not `Lossy`, not `Faulty` |
| `SignOutIsFinal` | `SignOutHolds` | not `Faulty` |
| **BrowserFamilies_proofs** | | |
| `Refinement` | `ImplementsFamilies` | |
| **SignIn_proofs** | | |
| `TypeCorrect` | `TypeOK` | |
| `AttemptAuthorised` | `IssuedForItsAttempt` | |
| `CodesMeetAttempts` | `CodeMeetsItsAttempt` | |
| `CodesAreSingleUse` | `OneSessionPerCode` | |
| `StraightPath` | `StraightPathIsKnown` | not `StrictMode` |
| **Process_proofs** | | |
| `TypeCorrect` | `TypeOK` | |
| `ServingMeansReady` | `ServesOnlyReady` | |
| `ExitIsOrderly` | `OrderlyExit` | |

Each `M_proofs` has in addition a theorem `Invariance`, `Spec => []IInv`, from which
the others follow. That the conditions in the last column are needed is what the runs
`browser_no_locks`, `browser_faulty` and `sign_in_strict` show; `browser_overtaken`
shows the same of the exception in the two properties about kept sessions.

### The inductive invariants

**RefreshTokens.** None of the properties is inductive. `IInv` adds: what is issued
lies in the past; a spent token has a successor issued at the instant it was spent;
the lifetimes `[issued, used)` of two tokens of a family do not overlap, and their
order is that of the generations; a straggler is unspent and its family revoked; and,
for each request at each statement, what it knows (no rotation past its snapshot has
a straggler in hand). The last part carries the
argument about locks: from `ConsumeApply` to `Commit` a rotation's token is
unspent and no other request is in that section with the same token, and the
rotation's `now` is not before the token's issue. So `Commit` extends a line
at its end and nowhere else.

The proof follows the actions. Steps that leave the table alone are handled
together (`QuietStep`: only the request that moved has something to show); the
three writing actions have a lemma each (`IssueStep`, `CommitStep`,
`RevokeStep`). `LineLemma` then orders a family by its lifetimes, from which
the first three properties follow; `BenignLemma` translates the SQL of
`IsBenignRefreshRace` into generations.

*Refinement.* `Issue` maps to a beginning, `Commit` to an extension or, in a revoked
family, to the one straggler, `RevokeApply` to the revocation of one family or
several, and every other statement to a stutter. `IInv` speaks of pairs of tokens,
which an empty or wholly spent family satisfies as well, so `LineHasEnd` (a family with
rows has an unspent one) is added and shown invariant. A commit into a revoked family
is the only straggler: an earlier one would be unspent, so it would be the token that
is being exchanged, and no rotation gets that far with a straggler.

**Accounts.** The properties speak of committed rows, the danger is in transactions
that looked before somebody else committed. `TransactionInv` says what each may still
rely on: one that created a user has an unused id and, if its address is verified, no
committed account with it (`Created`); one that added an identity has a key nobody
committed (`Added`); one past its lookups is in its own account, joins the verified one
of its address, or is where its identity is (`Settled`). `Apart` says that no two open
transactions hold one entry of a unique index, which is what the waiting INSERTs
guarantee. `ClaimsMatch` relates the tables to what providers asserted: without it
"linked exactly by the rules" does not survive a commit. `CommitStep` is where they
meet: what one transaction commits must take nothing away from the others.

**Browser.** `IInv` is in three layers, each under its condition. `Core` holds always:
every token in the browser is one the server has issued (`TokensKnown`), a call fits the
tab that waits for it (`CallInv`), the session of a sign-in's answer is known to nobody
else until it arrives (`Apart`), and what was signed out of is dead unless the database
failed. `LockInv` is what the Web Lock buys: one tab refreshes at a time, and the token in
the jar is the last of its family unless the answer that replaces it is under way, the
family is dead, or an answer was lost. Sign-in and sign-out take no lock; what makes them
harmless to it is that the cookie of every answer under way, whenever it reaches the
jar, is the last token of its family in the same sense. `KeptInv` follows the
cookie instead of the refresh and needs neither lock nor network, only a database that
works: a live family that was stored without overtaking anybody is the one in the jar,
every call under way carries its token, and no answer under way has a cookie that is
not of that family, or clears the jar (`Beholden`). A refusal that clears the jar is a
call with a token whose family is over. `RefusedInv` follows the refusal through retry and
pause with what was held, and needs all three conditions.

The proof separates server from tabs. `FamilyEffect` says, once per handler, what a call
can do to a family; five shapes (a tab moves, sends, hears, gives up; the server handles)
cover the actions of a tab and have one lemma each.

*Refinement.* A family's tokens are its generations, so all that is needed is that a
handled call does nothing but what `FamilyEffect` says, that a family that has not begun
is not revoked, and that a rotation is of the last token.

**SignIn.** `UrlInv` and `PostInv`: a code in a URL, and in a call, was given out for the
state next to it, through the history, copied tabs and pasted addresses. `RedeemedInv`:
a call that has redeemed a code is the only one, the code is closed and there is no session
of it yet; and a token that go-oidc accepts was somebody's grant, though perhaps not this
one, which is why the nonce is compared. `StraightInv`, for a tab that did not stray:
from the click to `completeSignIn` the pending login in the storage is the one in the URL.

**Process.** `MigratingInv`: the version `Migrate` has read is never ahead of the database,
though an orphaned transaction may commit behind its back, and a transaction is open only
while migrating. `StageInv`: each stage of `run` has what the stages before it checked.
`RequestsInv`: there are requests only while the process serves, drains or closes because
`shutdownTimeout` was over.

### Checked by TLC only

Liveness rests on fairness, which is out of the prover's reach: `EveryRequestAnswered`,
`EveryProvisionAnswered`, `EveryRefreshSettles`, `ShutdownEndsUnlessStalled`, `KeepsTrying`,
`PoolServesAll`. The violated properties of the four runs above are false and have
counterexamples instead.

## Not modelled

* A clock that is set back, or a program whose clock differs from the
  database's (`expires_at` is computed in Go and compared in SQL).
* Deleted users: the columns and conditions exist, no code sets them.
* Lists, items, sync: empty at this commit.
* Routing, the shape of problem documents, generated code, rendering, set-up
  scripts, test databases: no state of their own, or I/O only.
* Access tokens: signing and parsing are stateless library calls, and the only
  request that carries one at this commit is `/me`, right after a refresh.
* Times in `Process` and `SignIn`: deadlines may fire whenever they could; that the
  health check's patience (about a minute) is shorter than `startupTimeout` is noted
  as a hazard and not checked.
* Signature checks and hashing: library calls; a hash stands for its token.

## Plan

Done: sessions, accounts, tabs and handlers, the sign-in flow, the process, the
abstract specification of sessions with its two refinements; proofs of all safety
properties, action properties and refinements that the runs check. What is left:

1. `SessionFamilies`: prove of the abstract specification what both implementations
   then inherit: a family has one unspent end until it is revoked, a revoked one stays
   so, at most one token straggles, and no spent token is unspent again.
2. The safety facts behind the liveness properties, such as that whoever holds the Web
   Lock, a row lock or a connection waits for nobody who waits for it.
