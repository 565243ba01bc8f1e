------------------------------ MODULE Browser ------------------------------
(***************************************************************************)
(* The tabs of one browser and the handlers they talk to: refresh, restore, *)
(* completeSignIn and signOut of web/src/auth/session.ts, their use in      *)
(* web/src/App.tsx, and AuthRefresh, AuthCallback and AuthLogout of         *)
(* internal/transport/http/auth.go.  All tabs share one cookie jar.         *)
(*                                                                         *)
(* A call is sent with the cookie of that moment, handled by the server in *)
(* one step, and answered later; what its Set-Cookie does to the jar is    *)
(* done when the answer arrives, in whatever order answers arrive.         *)
(*                                                                         *)
(* The server's sessions are those of RefreshTokens seen from outside: a   *)
(* token is <<family, generation>>, the last generation is the unspent     *)
(* one, and a spent token is a benign race exactly if it is the parent of  *)
(* the last one and was spent within the grace window (the theorems        *)
(* RotationNeverForks and BenignRaceIsHonest).  Expiry is left out.        *)
(***************************************************************************)
EXTENDS Naturals, FiniteSets

CONSTANTS
    Tab,
    Family,
    MaxLoads,   \* bound: page loads, over all tabs
    Locks,      \* whether navigator.locks exists
    Lossy,      \* whether calls can be lost, or last longer than they may
    Faulty,     \* whether the server's database can fail
    None

ASSUME BrowserAssumption ==
    /\ None \notin Family /\ None \notin Family \X Nat
    /\ Locks \in BOOLEAN /\ Lossy \in BOOLEAN /\ Faulty \in BOOLEAN
    /\ MaxLoads \in Nat

VARIABLES
    fam,        \* the server's families
    jar,        \* the refresh cookie, None if there is none
    tab,        \* what each tab shows and does
    call,       \* the call each tab has outstanding
    ghosts,     \* calls given up on that the server may yet handle, <<kind, cookie>>
    loads,      \* page loads so far
    ended,      \* history: families a sign-out or a new sign-in ended
    lost,       \* history: families of which an answer to a refresh was lost
    stored,     \* history: families whose cookie has been in the jar
    overtaken   \* history: those that were stored while other calls were under way

vars == <<fam, jar, tab, call, ghosts, loads, ended, lost, stored, overtaken>>

History == <<stored, overtaken>>

-----------------------------------------------------------------------------
(* Sessions, from outside. *)

FamilyState == [tip : Nat, fresh : BOOLEAN, dead : BOOLEAN]
NoFamily == [tip |-> 0, fresh |-> FALSE, dead |-> FALSE]

Token == Family \X (Nat \ {0})

FamilyOf(tok) == IF tok = None THEN {} ELSE {tok[1]}

Live(f) == fam[f].tip # 0 /\ ~fam[f].dead

\* Mutant of Spare: the family of an ended session is used again.
SpareOrDead == {f \in Family : fam[f].tip = 0 \/ fam[f].dead}

Spare == {f \in Family : fam[f].tip = 0}

Killed(f) == [fam EXCEPT ![f].dead = TRUE]

-----------------------------------------------------------------------------
(* Tabs and their calls. *)

\* "queued" waits for the Web Lock; "first", "pause" and "second" hold it.
Refreshing == {"first", "pause", "second"}
Pc == {"rest", "queued", "me", "signin", "signout"} \cup Refreshing

TabState ==
    [ui      : {"loading", "signed-in", "signed-out", "offline"},
     pc      : Pc,
     access  : BOOLEAN,                 \* accessToken is set
     again   : BOOLEAN,                 \* this refresh was asked for by apiFetch
     held    : SUBSET Family,           \* history: the sessions alive when the refresh was sent
     refused : SUBSET Family]           \* history: those given up as over

Kind == {"refresh", "signin", "signout"}

\* An answer's effect on the jar: {} leaves it, {None} clears it, {t} stores t.
CallState ==
    [stage  : {"none", "sent", "answered"},
     kind   : Kind \cup {"none"},
     tok    : Token \cup {None},
     status : {"none", "ok", "refused", "failed"},     \* 2xx, 401, 5xx
     cookie : SUBSET (Token \cup {None})]              \* at most one

NoCall == [stage |-> "none", kind |-> "none", tok |-> None, status |-> "none",
           cookie |-> {}]

Sent(kind) == [NoCall EXCEPT !.stage = "sent", !.kind = kind, !.tok = jar]

Outstanding(kind) == {t \in Tab : call[t].kind = kind}

\* Mutant of Applied: the cookie that is set does not replace the one there
\* is (its attributes differ).
AppliedBeside(cookie) ==
    IF cookie = {None} THEN None
    ELSE IF cookie # {} /\ jar = None THEN CHOOSE t \in cookie : TRUE
    ELSE jar

\* Mutant of Applied: a cleared cookie stays, with an empty value.
AppliedEmpty(cookie) ==
    IF cookie = {} THEN jar
    ELSE IF cookie = {None} THEN << >> ELSE CHOOSE t \in cookie : TRUE

\* The jar after an answer: setRefreshCookie and clearRefreshCookie.
Applied(cookie) == IF cookie = {} THEN jar ELSE CHOOSE t \in cookie : TRUE

TypeOK ==
    /\ fam \in [Family -> FamilyState]
    /\ jar \in Token \cup {None}
    /\ tab \in [Tab -> TabState]
    /\ call \in [Tab -> CallState]
    /\ ghosts \subseteq Kind \X (Token \cup {None})
    /\ loads \in Nat
    /\ ended \subseteq Family
    /\ lost \subseteq Family
    /\ stored \subseteq Family
    /\ overtaken \subseteq Family

\* No session yet, or one of an earlier sign-in.
Init ==
    /\ \/ /\ fam = [f \in Family |-> NoFamily]
          /\ jar = None
       \/ \E f \in Family :
             /\ fam = [[g \in Family |-> NoFamily] EXCEPT ![f].tip = 1]
             /\ jar = <<f, 1>>
    /\ stored = FamilyOf(jar)
    /\ tab = [t \in Tab |-> [ui |-> "loading", pc |-> "rest", access |-> FALSE,
                             again |-> FALSE, held |-> {}, refused |-> {}]]
    /\ call = [t \in Tab |-> NoCall]
    /\ ghosts = {}
    /\ loads = 0
    /\ ended = {}
    /\ lost = {} /\ overtaken = {}

-----------------------------------------------------------------------------
(* The server. *)

Outcome(families, status, cookie, ends) ==
    [fam |-> families, status |-> status, cookie |-> cookie, ends |-> ends]

\* AuthRefresh: what becomes of the families, and the answer.  Any error but a
\* benign race clears the cookie, that of a failing database too; a session
\* whose user cannot be loaded is a 500 that carries the new cookie.
RefreshOutcomes(tok) ==
    IF tok = None THEN {Outcome(fam, "refused", {}, {})}
    ELSE LET f == tok[1]
             n == tok[2]
             next == <<f, n + 1>>
             rotated == [fam EXCEPT ![f].tip = n + 1, ![f].fresh = TRUE]
             spent == n < fam[f].tip
             benign == n + 1 = fam[f].tip /\ fam[f].fresh /\ Live(f)
         IN  UNION {
               IF ~spent /\ Live(f)
                 THEN {Outcome(rotated, "ok", {next}, {})} \cup
                      IF Faulty THEN {Outcome(rotated, "failed", {next}, {}),
                                      Outcome(rotated, "refused", {None}, {})}
                                ELSE {}
                 ELSE {},
               IF benign THEN {Outcome(fam, "refused", {}, {})} ELSE {},
               IF spent /\ ~benign
                 THEN {Outcome(Killed(f), "refused", {None}, {})} ELSE {},
               IF Faulty \/ (~spent /\ ~Live(f))
                 THEN {Outcome(fam, "refused", {None}, {})} ELSE {}}

\* RevokeByToken of the cookie a call presented.
Revoked(tok) == IF tok = None THEN fam ELSE Killed(tok[1])

\* Mutant of CallbackOutcomes: the family of the old cookie is left alone.
CallbackOutcomesBeside(tok) ==
    {Outcome([fam EXCEPT ![f].tip = 1], "ok", {<<f, 1>>}, {}) : f \in Spare}

\* AuthCallback: the exchange, the account, the old cookie's family, the new
\* session, in this order, and no step is undone when a later one fails.
CallbackOutcomes(tok) ==
    LET Issued(f) == [Revoked(tok) EXCEPT ![f].tip = 1]
        ends == FamilyOf(tok)
    IN  {Outcome(Issued(f), "ok", {<<f, 1>>}, ends) : f \in Spare} \cup
        {Outcome(fam, "refused", {}, {})} \cup
        IF Faulty
          THEN {Outcome(fam, "failed", {}, {}),
                Outcome(Revoked(tok), "failed", {}, ends)} \cup
               {Outcome(Issued(f), "failed", {}, ends) : f \in Spare}
          ELSE {}

\* Mutant of LogoutOutcomes: only the cookie is cleared.
LogoutOutcomesCookieOnly(tok) == {Outcome(fam, "ok", {None}, FamilyOf(tok))}

\* AuthLogout: the cookie is cleared whether or not the family could be revoked.
LogoutOutcomes(tok) ==
    {Outcome(Revoked(tok), "ok", {None}, FamilyOf(tok))} \cup
    IF Faulty THEN {Outcome(fam, "ok", {None}, FamilyOf(tok))} ELSE {}

Outcomes(kind, tok) ==
    CASE kind = "refresh" -> RefreshOutcomes(tok)
      [] kind = "signin"  -> CallbackOutcomes(tok)
      [] kind = "signout" -> LogoutOutcomes(tok)

Handle(t) ==
    /\ call[t].stage = "sent"
    /\ \E o \in Outcomes(call[t].kind, call[t].tok) :
          /\ fam' = o.fam
          /\ ended' = ended \cup o.ends
          /\ call' = [call EXCEPT ![t].stage = "answered", ![t].status = o.status,
                                  ![t].cookie = o.cookie]
    /\ UNCHANGED <<jar, tab, ghosts, loads, lost, History>>

\* A call whose tab gave up on it is handled all the same; nobody hears of it.
HandleGhost ==
    \E g \in ghosts :
       /\ \E o \in Outcomes(g[1], g[2]) : fam' = o.fam /\ ended' = ended \cup o.ends
       /\ ghosts' = ghosts \ {g}
       /\ UNCHANGED <<jar, tab, call, loads, lost, History>>

\* ReuseGrace passes.  Unless calls may last for ever, none spans it: a call
\* with the spent token has been handled, and the new one's cookie stored.
GraceEnds(f) ==
    /\ fam[f].fresh
    /\ Lossy \/ \A t \in Tab :
          /\ ~(call[t].stage = "sent" /\ call[t].tok = <<f, fam[f].tip - 1>>)
          /\ <<f, fam[f].tip>> \notin call[t].cookie
    /\ fam' = [fam EXCEPT ![f].fresh = FALSE]
    /\ UNCHANGED <<jar, tab, call, ghosts, loads, ended, lost, History>>

-----------------------------------------------------------------------------
(* refresh and postRefresh. *)

LoadingTab == [ui |-> "loading", pc |-> "queued", access |-> FALSE,
               again |-> FALSE, held |-> {}, refused |-> {}]

\* The page is loaded: the module's variables are fresh and App starts restore.
Load(t) ==
    /\ tab[t].pc = "rest" /\ loads < MaxLoads
    /\ loads' = loads + 1
    /\ tab' = [tab EXCEPT ![t] = LoadingTab]
    /\ UNCHANGED <<fam, jar, call, ghosts, ended, lost, History>>

\* The sessions this browser holds: it was given their cookie, and they live.
Held == {f \in stored : Live(f)}

\* Mutant of AcquireLock: nobody takes turns.
AcquireLockFreely(t) ==
    /\ tab[t].pc = "queued"
    /\ tab' = [tab EXCEPT ![t].pc = "first",
                          ![t].held = Held]
    /\ call' = [call EXCEPT ![t] = Sent("refresh")]
    /\ UNCHANGED <<fam, jar, ghosts, loads, ended, lost, History>>

\* locks.request, and the first call of postRefresh.
AcquireLock(t) ==
    /\ tab[t].pc = "queued"
    /\ Locks => \A u \in Tab : tab[u].pc \notin Refreshing
    /\ tab' = [tab EXCEPT ![t].pc = "first",
                          ![t].held = Held]
    /\ call' = [call EXCEPT ![t] = Sent("refresh")]
    /\ UNCHANGED <<fam, jar, ghosts, loads, ended, lost, History>>

\* RACE_RETRY_DELAY_MS after a 401.
Retry(t) ==
    /\ tab[t].pc = "pause"
    /\ tab' = [tab EXCEPT ![t].pc = "second", ![t].held = Held]
    /\ call' = [call EXCEPT ![t] = Sent("refresh")]
    /\ UNCHANGED <<fam, jar, ghosts, loads, ended, lost, History>>

\* The answer: the browser applies Set-Cookie, postRefresh looks at the status.
\* A body that does not arrive is an error App rethrows, showing "loading".
RefreshAnswered(t) ==
    LET c == call[t]
    IN  /\ c.stage = "answered" /\ c.kind = "refresh"
        /\ jar' = Applied(c.cookie)
        /\ call' = [call EXCEPT ![t] = NoCall]
        /\ \/ /\ c.status = "refused" /\ tab[t].pc = "first"
              /\ tab' = [tab EXCEPT ![t].pc = "pause", ![t].held = {}]
           \/ /\ c.status # "ok" /\ ~(c.status = "refused" /\ tab[t].pc = "first")
              /\ tab' = [tab EXCEPT ![t].pc = "rest", ![t].ui = "signed-out",
                                    ![t].access = FALSE, ![t].again = FALSE,
                                    ![t].held = {}, ![t].refused = tab[t].held]
           \/ /\ c.status = "ok"
              /\ tab' = [tab EXCEPT ![t].pc = "me", ![t].access = TRUE, ![t].held = {}]
           \/ /\ c.status = "ok" /\ Lossy
              /\ tab' = [tab EXCEPT ![t].pc = "rest", ![t].again = FALSE, ![t].held = {}]
        /\ UNCHANGED <<fam, ghosts, loads, ended, lost, History>>

\* A call is given up on.  If the server has not handled it, it may still do so.
GiveUp(t) ==
    /\ call' = [call EXCEPT ![t] = NoCall]
    /\ \/ UNCHANGED ghosts
       \/ /\ call[t].stage = "sent"
          /\ ghosts' = ghosts \cup {<<call[t].kind, call[t].tok>>}
    /\ lost' = IF call[t].kind = "refresh" THEN lost \cup FamilyOf(call[t].tok) ELSE lost

\* Mutant of Unreachable: a refresh is not given up.
UnreachableNever(t) == FALSE /\ UNCHANGED vars

\* A refresh that never arrived, or was aborted after REFRESH_TIMEOUT_MS
\* (RefreshUnreachableError): nothing of its answer reaches the jar, but the
\* server may still come to handle it.
Unreachable(t) ==
    /\ Lossy
    /\ tab[t].pc \in {"first", "second"} /\ call[t].stage # "none"
    /\ tab' = [tab EXCEPT ![t].pc = "rest", ![t].ui = "offline", ![t].again = FALSE,
                          ![t].held = {}]
    /\ GiveUp(t)
    /\ UNCHANGED <<fam, jar, loads, ended, History>>

\* The page is loaded again in the middle of a refresh, which releases the lock:
\* the browser drops the answer, with the cookie in it.
Reload(t) ==
    /\ Lossy
    /\ tab[t].pc \in Refreshing /\ loads < MaxLoads
    /\ loads' = loads + 1
    /\ tab' = [tab EXCEPT ![t] = LoadingTab]
    /\ GiveUp(t)
    /\ UNCHANGED <<fam, jar, ended, History>>

\* GetMe, with an access token that was issued a moment ago: 401 is also the
\* answer when the user cannot be read.
GetMe == IF Faulty THEN {"ok", "refused"} ELSE {"ok"}

\* loadMe: apiFetch of /me, which refreshes once more after a 401.  A fetch that
\* rejects is rethrown by App, which goes on showing "loading".
LoadMe(t) ==
    /\ tab[t].pc = "me"
    /\ \/ /\ "ok" \in GetMe
          /\ tab' = [tab EXCEPT ![t].pc = "rest", ![t].ui = "signed-in",
                                ![t].again = FALSE]
       \/ /\ "refused" \in GetMe /\ ~tab[t].again
          /\ tab' = [tab EXCEPT ![t].pc = "queued", ![t].again = TRUE]
       \/ /\ "refused" \in GetMe /\ tab[t].again
          /\ tab' = [tab EXCEPT ![t].pc = "rest", ![t].ui = "signed-out",
                                ![t].again = FALSE]
       \/ /\ Lossy
          /\ tab' = [tab EXCEPT ![t].pc = "rest", ![t].again = FALSE]
    /\ UNCHANGED <<fam, jar, call, ghosts, loads, ended, lost, History>>

-----------------------------------------------------------------------------
(* Signing in and out: neither takes the lock. *)

\* Back from the provider, completeSignIn posts the code.
SignIn(t) ==
    /\ tab[t].pc = "rest" /\ tab[t].ui = "signed-out"
    /\ Cardinality(Outstanding("signin")) < Cardinality(Spare)
    /\ tab' = [tab EXCEPT ![t].pc = "signin", ![t].ui = "loading", ![t].refused = {}]
    /\ call' = [call EXCEPT ![t] = Sent("signin")]
    /\ UNCHANGED <<fam, jar, ghosts, loads, ended, lost, History>>

\* A refusal, and a body that does not arrive, is reported as signed out.
SignInAnswered(t) ==
    LET c == call[t]
        new == UNION {FamilyOf(x) : x \in c.cookie}
    IN  /\ c.stage = "answered" /\ c.kind = "signin"
        /\ jar' = Applied(c.cookie)
        /\ call' = [call EXCEPT ![t] = NoCall]
        /\ \/ /\ c.status = "ok"
              /\ tab' = [tab EXCEPT ![t].pc = "rest", ![t].ui = "signed-in",
                                    ![t].access = TRUE]
           \/ /\ c.status # "ok" \/ Lossy
              /\ tab' = [tab EXCEPT ![t].pc = "rest", ![t].ui = "signed-out"]
        /\ stored' = stored \cup new
        /\ overtaken' = IF \A u \in Tab \ {t} : call[u].stage = "none"
                          THEN overtaken ELSE overtaken \cup new
        /\ UNCHANGED <<fam, ghosts, loads, ended, lost>>

SignOut(t) ==
    /\ tab[t].pc = "rest" /\ tab[t].ui = "signed-in"
    /\ tab' = [tab EXCEPT ![t].pc = "signout", ![t].access = FALSE]
    /\ call' = [call EXCEPT ![t] = Sent("signout")]
    /\ UNCHANGED <<fam, jar, ghosts, loads, ended, lost, History>>

SignOutAnswered(t) ==
    /\ call[t].stage = "answered" /\ call[t].kind = "signout"
    /\ jar' = Applied(call[t].cookie)
    /\ call' = [call EXCEPT ![t] = NoCall]
    /\ tab' = [tab EXCEPT ![t].pc = "rest", ![t].ui = "signed-out"]
    /\ UNCHANGED <<fam, ghosts, loads, ended, lost, History>>

\* The fetch of a sign-in or a sign-out rejects.  App reports the one and
\* leaves the page as it is after the other.
CallLost(t) ==
    /\ Lossy
    /\ tab[t].pc \in {"signin", "signout"}
    /\ tab' = [tab EXCEPT ![t].pc = "rest",
                          ![t].ui = IF tab[t].pc = "signin" THEN "signed-out" ELSE @]
    /\ GiveUp(t)
    /\ UNCHANGED <<fam, jar, loads, ended, History>>

-----------------------------------------------------------------------------
Answer(t) == RefreshAnswered(t) \/ SignInAnswered(t) \/ SignOutAnswered(t)

Next ==
    \/ HandleGhost
    \/ \E f \in Family : GraceEnds(f)
    \/ \E t \in Tab :
          \/ Load(t)
          \/ Reload(t)
          \/ AcquireLock(t)
          \/ Retry(t)
          \/ LoadMe(t)
          \/ SignIn(t)
          \/ SignOut(t)
          \/ Handle(t)
          \/ Answer(t)
          \/ Unreachable(t)
          \/ CallLost(t)

Spec == Init /\ [][Next]_vars

\* A tab's timers fire and a free lock is granted, to whoever waits in turn.
\* Nothing is assumed of the network: that a refresh ends is the timeout's doing.
Fairness ==
    \A t \in Tab : /\ SF_vars(AcquireLock(t))
                   /\ WF_vars(Retry(t))
                   /\ WF_vars(Unreachable(t))

FairSpec == Spec /\ Fairness

-----------------------------------------------------------------------------
(* Correctness. *)

\* Reuse detection never fires for the tabs of one honest browser: a family is
\* revoked only because somebody signed out or signed in anew (spec 9.2,
\* "Concurrent refreshes from tabs sharing a cookie").
HonestTabsStaySignedIn == \A f \in Family : fam[f].dead => f \in ended

\* With a network that loses answers, pages that are reloaded and a database that
\* fails, reuse detection still needs a lost answer to fire at an honest browser:
\* it is never a failure of the server, or the order of calls, that ends a session.
ReuseNeedsLoss == \A f \in Family : fam[f].dead => f \in ended \cup lost

\* "One retry, never more: a second 401 means the session really is over": no
\* session the browser held when a tab asked the last time is alive when the
\* server has refused it.
RefusedMeansOver == \A t \in Tab : \A f \in tab[t].refused : ~Live(f)

\* What is true of it: a refusal after the retry is wrong only about a session
\* whose sign-in ended while a call of another tab was under way.
OverUnlessOvertaken ==
    \A t \in Tab : \A f \in tab[t].refused \ overtaken : ~Live(f)

\* A session whose cookie the browser was given stays in its jar for as long as
\* it lives, and the sign-in that replaces it ends it: with the same exception,
\* no answer, in whatever order answers come, takes the cookie away, whether
\* tabs take turns or race ("clearing it here would sign out the winner").
KeptUnlessOvertaken == \A f \in stored \ overtaken : Live(f) => f \in FamilyOf(jar)

\* Signing out holds, also against a refresh of another tab that was under way
\* and stores its cookie afterwards: no family that was signed out of, or
\* replaced by a new sign-in, comes back to life in the jar.
SignOutHolds == jar # None /\ jar[1] \in ended => ~Live(jar[1])

\* A refresh settles whatever the network does: the tab that holds the lock
\* cannot stall itself or the tabs that wait for it.
EveryRefreshSettles ==
    \A t \in Tab : tab[t].pc \in {"queued"} \cup Refreshing
                     ~> tab[t].pc \notin {"queued"} \cup Refreshing

\* The server's sessions, in the terms of SessionFamilies.
Families == INSTANCE SessionFamilies WITH
    unspent   <- [f \in Family |-> IF fam[f].tip = 0 THEN {} ELSE {<<f, fam[f].tip>>}],
    spent     <- [f \in Family |-> {<<f, n>> : n \in 1..(fam[f].tip - 1)}],
    dead      <- [f \in Family |-> fam[f].dead],
    straggled <- [f \in Family |-> FALSE]

\* The handlers keep the promise of SessionFamilies, the specification that
\* RefreshTokens implements: whatever the tabs call, AuthCallback, AuthRefresh
\* and AuthLogout begin, extend and end families and never revive one.
ImplementsFamilies == Families!Spec
=============================================================================
