------------------------------- MODULE SignIn -------------------------------
(***************************************************************************)
(* Signing in: beginSignIn and completeSignIn of web/src/auth/session.ts   *)
(* with the pending login of pkce.ts, the effect of App.tsx that runs when *)
(* the provider sends the browser back, AuthCallback, Exchange and Verify  *)
(* on the server, and the provider.                                        *)
(*                                                                         *)
(* An attempt is one call of newPendingLogin: it stands for its state, its *)
(* nonce and its verifier, which are drawn together and are never equal to *)
(* another attempt's.  A pending login lives in the sessionStorage of one  *)
(* tab, which survives navigation and is copied when a tab is duplicated.  *)
(*                                                                         *)
(* The provider is modelled as oidctest/issuer.go does: it keeps a table   *)
(* of codes, each bound to the token it stands for and to a challenge, and *)
(* gives a code up at the first attempt to redeem it.                      *)
(***************************************************************************)
EXTENDS Naturals, FiniteSets

CONSTANTS
    Tab, Attempt, Code,
    Person,         \* accounts at the provider
    None,
    StrictMode,     \* whether effects run twice, as React does in development
    MaxDetours      \* bound: reloads, steps through the history, copies of tabs

ASSUME SignInAssumption ==
    /\ None \notin Attempt \cup Code \cup Person
    /\ StrictMode \in BOOLEAN
    /\ MaxDetours \in Nat

VARIABLES
    tab,        \* the tabs
    store,      \* sessionStorage of each tab: its pending login
    grant,      \* history: what each code was given out for
    open,       \* the codes that the provider would still redeem
    posts,      \* calls of AuthCallback under way
    sessions,   \* history: the sessions issued, and for which call
    detours,
    held,       \* history: the attempts whose pending login a tab had
    strayed     \* history: tabs where the user left the straight path

vars == <<tab, store, grant, open, posts, sessions, detours, held, strayed>>

-----------------------------------------------------------------------------
\* Where a tab is.  state and code are those of the URL it shows; leaving are
\* the attempts for which beginSignIn still computes a challenge; been are the
\* provider's pages in its history.
TabState ==
    [page    : {"closed", "app", "away", "provider", "callback"},
     shows   : {"loading", "signed-out", "refused", "elsewhere", "failed", "signed-in"},
     state   : Attempt \cup {None},
     code    : Code \cup {None},
     leaving : SUBSET Attempt,
     been    : SUBSET Attempt,
     user    : Person \cup {None}]

ClosedTab == [page |-> "closed", shows |-> "loading", state |-> None, code |-> None,
              leaving |-> {}, been |-> {}, user |-> None]

\* The app at "/", where restore found no session.
HomeTab == [ClosedTab EXCEPT !.page = "app", !.shows = "signed-out"]

NoGrant == [attempt |-> None, person |-> None]

\* An ID token: whether signature, issuer, audience and expiry are in order,
\* and the claims that matter here.
IdToken == [genuine : BOOLEAN, nonce : Attempt \cup {None}, subject : Person \cup {None}]
NoToken == [genuine |-> FALSE, nonce |-> None, subject |-> None]

\* awaited says whether the page that sent it is still there.
Post == [from : Tab, awaited : BOOLEAN, code : Code, pending : Attempt,
         stage : {"sent", "redeemed", "ok", "refused"},
         token : IdToken, person : Person \cup {None}]

Awaited(t) == {p \in posts : p.from = t /\ p.awaited}
Used == UNION {tab[t].leaving \cup tab[t].been \cup held[t] : t \in Tab}
Unissued == {c \in Code : grant[c] = NoGrant}

TypeOK ==
    /\ tab \in [Tab -> TabState]
    /\ store \in [Tab -> Attempt \cup {None}]
    /\ grant \in [Code -> [attempt : Attempt \cup {None}, person : Person \cup {None}]]
    /\ open \subseteq Code
    /\ posts \subseteq Post
    /\ sessions \subseteq [from : Tab, code : Code, pending : Attempt, person : Person]
    /\ detours \in 0..MaxDetours
    /\ held \in [Tab -> SUBSET Attempt]
    /\ strayed \subseteq Tab

Init ==
    /\ \E t \in Tab : tab = [[u \in Tab |-> ClosedTab] EXCEPT ![t] = HomeTab]
    /\ store = [t \in Tab |-> None]
    /\ grant = [c \in Code |-> NoGrant]
    /\ open = {} /\ posts = {} /\ sessions = {}
    /\ detours = 0
    /\ held = [t \in Tab |-> {}]
    /\ strayed = {}

Server == <<grant, open, posts, sessions>>

-----------------------------------------------------------------------------
(* The browser leaves for the provider. *)

\* Mutant of Stored: localStorage, which all tabs share.
StoredForAll(t, a) == [u \in Tab |-> a]

\* sessionStorage.setItem and removeItem.
Stored(t, a) == [store EXCEPT ![t] = a]

\* beginSignIn up to its await.  A second click, while the first still computes
\* its challenge or the browser has yet to leave, replaces the pending login.
\* Without a client id or a digest it ends here, with the pending login stored.
BeginSignIn(t) ==
    /\ tab[t].page \in {"app", "away"} /\ tab[t].shows \notin {"loading", "signed-in"}
    /\ \E a \in Attempt \ Used, fails \in BOOLEAN :
          /\ store' = Stored(t, a)
          /\ tab' = [tab EXCEPT ![t].leaving = IF fails THEN @ ELSE @ \cup {a}]
          /\ held' = [held EXCEPT ![t] = @ \cup {a}]
          /\ strayed' = IF tab[t].leaving # {} \/ tab[t].page = "away"
                          THEN strayed \cup {t} ELSE strayed
    /\ UNCHANGED <<Server, detours>>

\* The challenge is there, and location.assign called.  Challenges are computed
\* in parallel; until the page is gone a later call overrides an earlier one.
Assign(t) ==
    /\ tab[t].page \in {"app", "away"}
    /\ \E a \in tab[t].leaving :
          tab' = [tab EXCEPT ![t].page = "away", ![t].state = a, ![t].leaving = @ \ {a}]
    /\ UNCHANGED <<store, Server, detours, held, strayed>>

Depart(t) ==
    /\ tab[t].page = "away"
    /\ tab' = [tab EXCEPT ![t] = [ClosedTab EXCEPT !.page = "provider",
                                                   !.state = tab[t].state,
                                                   !.been = tab[t].been \cup {tab[t].state}]]
    /\ UNCHANGED <<store, Server, detours, held, strayed>>

-----------------------------------------------------------------------------
(* The provider, external; as in IssueCode and handleToken. *)

Return(t, c) ==
    tab' = [tab EXCEPT ![t] = [ClosedTab EXCEPT !.page = "callback", !.state = tab[t].state,
                                                !.code = c, !.been = tab[t].been]]

\* Somebody chooses an account: a code, bound to the attempt's nonce and
\* challenge, travels back in the URL together with its state.
IssueCode(t, p) ==
    /\ tab[t].page = "provider"
    /\ \E c \in Unissued :
          /\ grant' = [grant EXCEPT ![c] = [attempt |-> tab[t].state, person |-> p]]
          /\ open' = open \cup {c}
          /\ Return(t, c)
    /\ UNCHANGED <<store, posts, sessions, detours, held, strayed>>

Decline(t) ==
    /\ tab[t].page = "provider"
    /\ Return(t, None)
    /\ UNCHANGED <<store, Server, detours, held, strayed>>

-----------------------------------------------------------------------------
(* completeSignIn, in the effect of App. *)

Settled(t, what) == [HomeTab EXCEPT !.shows = what, !.been = tab[t].been]

\* Mutant of Meets: the state is not compared.
MeetsAny(t) == store[t] # None

\* code and state belong to the pending login taken out of the storage.
Meets(t) == store[t] # None /\ tab[t].state = store[t]

\* The page is loaded with the provider's answer in its URL.  An error leaves
\* the pending login where it is; everything else takes it.  An effect that
\* StrictMode runs a second time finds it gone, and has the last word.
CompleteSignIn(t) ==
    /\ tab[t].page = "callback" /\ Awaited(t) = {}
    /\ UNCHANGED <<grant, open, sessions, detours, held, strayed>>
    /\ \/ /\ tab[t].code = None
          /\ tab' = [tab EXCEPT ![t] = Settled(t, "refused")]
          /\ UNCHANGED <<store, posts>>
       \/ /\ tab[t].code # None
          /\ store' = Stored(t, None)
          /\ IF Meets(t)
               THEN /\ posts' = posts \cup
                                  {[from |-> t, awaited |-> ~StrictMode, code |-> tab[t].code,
                                    pending |-> store[t], stage |-> "sent",
                                    token |-> NoToken, person |-> None]}
                    /\ tab' = IF StrictMode
                                THEN [tab EXCEPT ![t] = [Settled(t, "elsewhere") EXCEPT
                                                           !.state = tab[t].state]]
                                ELSE tab
               ELSE /\ tab' = [tab EXCEPT ![t] = [Settled(t, "elsewhere") EXCEPT
                                                    !.state = tab[t].state]]
                    /\ UNCHANGED posts

\* The answer, and the URL is cleaned.  Also the fetch that rejects.
Answered(t) ==
    \E p \in Awaited(t) :
       /\ \/ /\ p.stage = "ok"
             /\ tab' = [tab EXCEPT ![t] = [Settled(t, "signed-in") EXCEPT !.user = p.person]]
             /\ posts' = posts \ {p}
          \/ /\ p.stage = "refused"
             /\ tab' = [tab EXCEPT ![t] = Settled(t, "failed")]
             /\ posts' = posts \ {p}
          \/ /\ tab' = [tab EXCEPT ![t] = Settled(t, "failed")]
             /\ posts' = (posts \ {p}) \cup {[p EXCEPT !.awaited = FALSE]}
       /\ UNCHANGED <<store, grant, open, sessions, detours, held, strayed>>

-----------------------------------------------------------------------------
(* The server. *)

\* Mutant of Redeemed: codes are good until they expire.
RedeemedAlways(c) == open

\* A code is given up whether or not the verifier fits.
Redeemed(c) == open \ {c}

Step(p, q) == posts' = (posts \ {p}) \cup {q}

\* What the token endpoint may put into its answer: the token of the code, or,
\* when the provider errs, one of another sign-in, one without a subject or
\* one that go-oidc does not accept.
Tokens(c) ==
    LET TokenOf(g) == [genuine |-> TRUE, nonce |-> grant[g].attempt, subject |-> grant[g].person]
    IN  {TokenOf(g) : g \in Code \ Unissued} \cup
        {[TokenOf(c) EXCEPT !.subject = None], [TokenOf(c) EXCEPT !.genuine = FALSE]}

\* AuthCallback up to the token endpoint.  Refused are an unknown code, a wrong
\* verifier, an answer without an id_token, and a provider that is not configured.
Exchange ==
    \E p \in posts :
       /\ p.stage = "sent"
       /\ \/ /\ p.code \in open /\ grant[p.code].attempt = p.pending
             /\ \E token \in Tokens(p.code) :
                   Step(p, [p EXCEPT !.stage = "redeemed", !.token = token])
             /\ open' = Redeemed(p.code)
          \/ /\ ~(p.code \in open /\ grant[p.code].attempt = p.pending)
             /\ Step(p, [p EXCEPT !.stage = "refused"])
             /\ open' = Redeemed(p.code)
          \/ /\ Step(p, [p EXCEPT !.stage = "refused"])
             /\ open' \in {open, open \ {p.code}}
       /\ UNCHANGED <<tab, store, grant, sessions, detours, held, strayed>>

\* Mutant of Verified: a token without a subject is accepted.
VerifiedWithoutSubject(token, nonce) == token.genuine /\ token.nonce = nonce

\* Mutant of Verified: the nonce is not compared.
VerifiedWithoutNonce(token, nonce) == token.genuine /\ token.subject # None

\* Verify: the nonce is that of the pending login which the client posted.
Verified(token, nonce) == token.genuine /\ token.nonce = nonce /\ token.subject # None

\* The rest of AuthCallback: Verify, then Provision and Issue, which may fail.
Verify ==
    \E p \in posts :
       /\ p.stage = "redeemed"
       /\ \/ /\ Verified(p.token, p.pending)
             /\ sessions' = sessions \cup {[from |-> p.from, code |-> p.code, pending |-> p.pending,
                                            person |-> p.token.subject]}
             /\ Step(p, [p EXCEPT !.stage = "ok", !.person = p.token.subject])
          \/ /\ Step(p, [p EXCEPT !.stage = "refused"])
             /\ UNCHANGED sessions
       /\ UNCHANGED <<tab, store, grant, open, detours, held, strayed>>

-----------------------------------------------------------------------------
(* Detours of the user. *)

Detour == detours < MaxDetours /\ detours' = detours + 1

\* posts of a page that is gone are handled all the same.
Abandoned(t) == {IF p \in Awaited(t) THEN [p EXCEPT !.awaited = FALSE] ELSE p : p \in posts}

\* The provider's answer is loaded again while the code is being exchanged.
Reload(t) ==
    /\ Detour
    /\ Awaited(t) # {}
    /\ posts' = Abandoned(t)
    /\ strayed' = strayed \cup {t}
    /\ UNCHANGED <<tab, store, grant, open, sessions, held>>

\* Back to the app, or through the history to a provider's page seen before.
Browse(t) ==
    /\ Detour
    /\ tab[t].page \in {"app", "provider"} /\ tab[t].been # {}
    /\ \/ tab' = [tab EXCEPT ![t] = [HomeTab EXCEPT !.been = tab[t].been]]
       \/ \E a \in tab[t].been :
             tab' = [tab EXCEPT ![t] = [ClosedTab EXCEPT !.page = "provider", !.state = a,
                                                         !.been = tab[t].been]]
    /\ strayed' = strayed \cup {t}
    /\ UNCHANGED <<store, Server, held>>

OpenTab(t) ==
    /\ tab[t].page = "closed"
    /\ tab' = [tab EXCEPT ![t] = HomeTab]
    /\ UNCHANGED <<store, Server, detours, held, strayed>>

\* The address of a tab that is back from the provider, opened in another one.
Paste(t, u) ==
    /\ Detour
    /\ tab[t].page \in {"app", "provider"} /\ tab[u].page = "callback"
    /\ tab' = [tab EXCEPT ![t] = [tab[u] EXCEPT !.been = tab[t].been]]
    /\ strayed' = strayed \cup {t}
    /\ UNCHANGED <<store, Server, held>>

\* A copy of a tab gets a copy of its sessionStorage.
Duplicate(t, u) ==
    /\ Detour
    /\ tab[t].page \in {"provider", "callback"} /\ tab[u].page = "closed"
    /\ tab' = [tab EXCEPT ![u] = tab[t]]
    /\ store' = [store EXCEPT ![u] = store[t]]
    /\ held' = [held EXCEPT ![u] = held[t]]
    /\ strayed' = strayed \cup {u}
    /\ UNCHANGED Server

Next ==
    \/ Exchange
    \/ Verify
    \/ \E t \in Tab :
          \/ OpenTab(t)
          \/ BeginSignIn(t)
          \/ Assign(t)
          \/ Depart(t)
          \/ \E p \in Person : IssueCode(t, p)
          \/ Decline(t)
          \/ CompleteSignIn(t)
          \/ Answered(t)
          \/ Reload(t)
          \/ Browse(t)
          \/ \E u \in Tab : Duplicate(t, u) \/ Paste(t, u)

Spec == Init /\ [][Next]_vars

-----------------------------------------------------------------------------
(* Correctness. *)

\* A session belongs to a person who authorised the very attempt it was issued
\* for (state, PKCE and nonce together), whatever other attempts, tabs and
\* answers of the provider are about.
IssuedForItsAttempt ==
    \A s \in sessions :
       \E c \in Code : grant[c] = [attempt |-> s.pending, person |-> s.person]

\* A code is sent only together with the verifier and the nonce of its own
\* attempt, so that an answer met by the wrong tab is not used up.
CodeMeetsItsAttempt == \A p \in posts : grant[p.code].attempt = p.pending

\* "Exactly as a real provider treats it": a code is good for one session, even if
\* it is posted from two copies of a tab.
OneSessionPerCode == \A r, s \in sessions : r.code = s.code => r = s

\* "This sign-in did not start in this tab" is never the answer to somebody who
\* clicked once and came straight back, whatever other tabs do meanwhile.
StraightPathIsKnown ==
    \A t \in Tab : tab[t].shows = "elsewhere" => t \in strayed

\* The message itself: it is shown for attempts of other tabs only.
ElsewhereIsElsewhere ==
    \A t \in Tab : tab[t].shows = "elsewhere" => tab[t].state \notin held[t]
=============================================================================
