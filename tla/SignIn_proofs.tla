---------------------------- MODULE SignIn_proofs ----------------------------
(***************************************************************************)
(* Proofs about SignIn, for every set of tabs, attempts, codes and people  *)
(* and any number of detours.                                              *)
(***************************************************************************)
EXTENDS SignIn, TLAPS

-----------------------------------------------------------------------------
(* The inductive invariant. *)

\* A tab leaves with the state of an attempt, and a code in a URL was given out
\* for the attempt whose state stands next to it.
UrlInv(t) ==
    /\ tab[t].page = "away" => tab[t].state # None
    /\ tab[t].code # None =>
          /\ tab[t].page = "callback"
          /\ tab[t].code \notin Unissued
          /\ grant[tab[t].code].attempt = tab[t].state

\* ... and so was the code of a call, with the pending login that is sent along.
PostInv(p) == p.code \notin Unissued /\ grant[p.code].attempt = p.pending

\* The claims of a token that go-oidc accepts were somebody's grant.
TokenGranted(token) ==
    token.genuine =>
       \E g \in Code \ Unissued : /\ token.nonce = grant[g].attempt
                                  /\ token.subject \in {grant[g].person, None}

\* The call that has redeemed a code is the only one: no other can, and there
\* is no session yet.
RedeemedInv(p) ==
    p.stage = "redeemed" =>
       /\ p.code \notin open
       /\ \A s \in sessions : s.code # p.code
       /\ \A q \in posts : q.stage = "redeemed" /\ q.code = p.code => q = p
       /\ TokenGranted(p.token)

\* The code of a session is used up.
SessionInv(s) == s.code \notin Unissued \cup open

ServerInv ==
    /\ \A p \in posts : PostInv(p) /\ RedeemedInv(p)
    /\ \A s \in sessions : SessionInv(s)
    /\ IssuedForItsAttempt
    /\ OneSessionPerCode

\* A tab whose user clicked once and came straight back has the pending login
\* that belongs to what its URL says, until completeSignIn has taken it.
StraightInv(t) ==
    t \notin strayed =>
       /\ tab[t].page \notin {"app", "closed"} => tab[t].leaving = {}
       /\ tab[t].page = "app" => tab[t].leaving \subseteq {store[t]}
       /\ tab[t].page = "closed" => tab[t].leaving = {}
       /\ tab[t].page \in {"away", "provider"} \/ (tab[t].page = "callback" /\ Awaited(t) = {}) =>
             store[t] # None /\ tab[t].state = store[t]
       /\ tab[t].shows # "elsewhere"

IInv ==
    /\ TypeOK
    /\ \A t \in Tab : UrlInv(t)
    /\ ServerInv
    /\ ~StrictMode => \A t \in Tab : StraightInv(t)

-----------------------------------------------------------------------------
(* Type correctness. *)

\* The records that tabs are set to.
LEMMA TabTypes ==
    ASSUME TypeOK, NEW t \in Tab
    PROVE  /\ ClosedTab \in TabState /\ HomeTab \in TabState
           /\ \A what \in {"refused", "elsewhere", "failed", "signed-in"} :
                 Settled(t, what) \in TabState
           /\ \A page \in {"provider", "callback"}, a \in Attempt \cup {None},
                 c \in Code \cup {None}, b \in SUBSET Attempt :
                 [ClosedTab EXCEPT !.page = page, !.state = a, !.code = c, !.been = b]
                    \in TabState
  <1>1. tab[t].been \in SUBSET Attempt
    BY DEF TypeOK, TabState
  <1>2. ClosedTab \in TabState /\ HomeTab \in TabState
    BY DEF ClosedTab, HomeTab, TabState
  <1>3. \A what \in {"refused", "elsewhere", "failed", "signed-in"} :
           Settled(t, what) \in TabState
    BY <1>1 DEF ClosedTab, HomeTab, Settled, TabState
  <1>4. \A page \in {"provider", "callback"}, a \in Attempt \cup {None},
           c \in Code \cup {None}, b \in SUBSET Attempt :
           [ClosedTab EXCEPT !.page = page, !.state = a, !.code = c, !.been = b] \in TabState
    BY DEF ClosedTab, TabState
  <1> QED
    BY <1>2, <1>3, <1>4

\* One step of a tab on its own, without the server.
LEMMA TabType ==
    ASSUME TypeOK, NEW t \in Tab, UrlInv(t),
           \/ OpenTab(t) \/ BeginSignIn(t) \/ Assign(t) \/ Depart(t) \/ Decline(t)
           \/ \E p \in Person : IssueCode(t, p)
    PROVE  TypeOK'
  <1> USE DEF TypeOK
  <1>0. /\ tab[t] \in TabState /\ tab[t].state \in Attempt \cup {None}
        /\ tab[t].been \in SUBSET Attempt
    BY DEF TabState
  <1>1. CASE OpenTab(t)
    BY <1>1, TabTypes DEF OpenTab, Server
  <1>2. CASE BeginSignIn(t)
    <2>1. PICK a \in Attempt \ Used, fails \in BOOLEAN :
             /\ store' = Stored(t, a)
             /\ tab' = [tab EXCEPT ![t].leaving = IF fails THEN @ ELSE @ \cup {a}]
             /\ held' = [held EXCEPT ![t] = @ \cup {a}]
             /\ strayed' = IF tab[t].leaving # {} \/ tab[t].page = "away"
                             THEN strayed \cup {t} ELSE strayed
      BY <1>2 DEF BeginSignIn
    <2>2. tab' \in [Tab -> TabState]
      <3> DEFINE l == IF fails THEN tab[t].leaving ELSE tab[t].leaving \cup {a}
      <3>1. l \in SUBSET Attempt
        BY <1>0 DEF TabState
      <3>2. tab' = [tab EXCEPT ![t] = [tab[t] EXCEPT !.leaving = l]]
        BY <2>1
      <3> HIDE DEF l
      <3>3. [tab[t] EXCEPT !.leaving = l] \in TabState
        BY <1>0, <3>1 DEF TabState
      <3> QED
        BY <3>2, <3>3
    <2>3. store' \in [Tab -> Attempt \cup {None}] /\ held' \in [Tab -> SUBSET Attempt]
      BY <2>1 DEF Stored
    <2>4. strayed' \subseteq Tab
      BY <2>1
    <2> QED
      BY <1>2, <2>2, <2>3, <2>4 DEF BeginSignIn, Server
  <1>3. CASE Assign(t)
    <2>1. PICK a \in tab[t].leaving :
             tab' = [tab EXCEPT ![t] = [tab[t] EXCEPT !.page = "away", !.state = a,
                                                      !.leaving = tab[t].leaving \ {a}]]
      BY <1>3 DEF Assign
    <2>2. [tab[t] EXCEPT !.page = "away", !.state = a, !.leaving = tab[t].leaving \ {a}]
             \in TabState
      BY <1>0 DEF TabState
    <2> QED
      BY <1>3, <2>1, <2>2 DEF Assign, Server
  <1>4. CASE Depart(t)
    <2> DEFINE x == [ClosedTab EXCEPT !.page = "provider", !.state = tab[t].state,
                                      !.been = tab[t].been \cup {tab[t].state}]
    <2>1. x \in TabState
      BY <1>0, <1>4 DEF ClosedTab, TabState, Depart, UrlInv
    <2> QED
      BY <1>4, <2>1 DEF Depart, Server
  <1>5. CASE Decline(t)
    BY <1>0, <1>5, TabTypes DEF Decline, Return, Server
  <1>6. ASSUME NEW p \in Person, IssueCode(t, p)
        PROVE  TypeOK'
    <2>1. PICK c \in Unissued :
             /\ grant' = [grant EXCEPT ![c] = [attempt |-> tab[t].state, person |-> p]]
             /\ open' = open \cup {c}
             /\ Return(t, c)
      BY <1>6 DEF IssueCode
    <2>2. c \in Code
      BY DEF Unissued
    <2>3. tab' \in [Tab -> TabState]
      BY <1>0, <2>1, <2>2, TabTypes DEF Return
    <2>4. grant' \in [Code -> [attempt : Attempt \cup {None}, person : Person \cup {None}]]
      BY <1>0, <2>1, <2>2
    <2> QED
      BY <1>6, <2>1, <2>2, <2>3, <2>4 DEF IssueCode
  <1> QED
    BY <1>1, <1>2, <1>3, <1>4, <1>5, <1>6

\* completeSignIn and its answer.
LEMMA CallbackType ==
    ASSUME TypeOK, NEW t \in Tab, CompleteSignIn(t) \/ Answered(t)
    PROVE  TypeOK'
  <1> USE DEF TypeOK
  <1>0. /\ tab[t] \in TabState /\ tab[t].state \in Attempt \cup {None}
        /\ tab[t].code \in Code \cup {None}
    BY DEF TabState
  <1>1. CASE CompleteSignIn(t)
    <2> DEFINE x == [Settled(t, "elsewhere") EXCEPT !.state = tab[t].state]
               p == [from |-> t, awaited |-> ~StrictMode, code |-> tab[t].code,
                     pending |-> store[t], stage |-> "sent",
                     token |-> NoToken, person |-> None]
    <2>1. x \in TabState
      <3>1. Settled(t, "elsewhere") \in TabState
        BY TabTypes
      <3> QED
        BY <1>0, <3>1 DEF TabState
    <2>2. CASE tab[t].code = None
      BY <1>1, <2>2, TabTypes DEF CompleteSignIn
    <2>3. CASE tab[t].code # None /\ Meets(t)
      <3>1. NoToken \in IdToken
        BY DEF NoToken, IdToken
      <3>2. store[t] \in Attempt /\ tab[t].code \in Code
        BY <1>0, <2>3 DEF Meets
      <3>3. p \in Post
        BY <3>1, <3>2, SignInAssumption DEF Post
      <3>4. /\ store' = Stored(t, None) /\ posts' = posts \cup {p}
            /\ tab' = IF StrictMode THEN [tab EXCEPT ![t] = x] ELSE tab
            /\ UNCHANGED <<grant, open, sessions, detours, held, strayed>>
        BY <1>1, <2>3 DEF CompleteSignIn
      <3> HIDE DEF x, p
      <3> QED
        BY <2>1, <3>3, <3>4 DEF Stored
    <2>4. CASE tab[t].code # None /\ ~Meets(t)
      <3>1. /\ store' = Stored(t, None) /\ tab' = [tab EXCEPT ![t] = x]
            /\ UNCHANGED <<grant, open, sessions, posts, detours, held, strayed>>
        BY <1>1, <2>4 DEF CompleteSignIn
      <3> HIDE DEF x
      <3> QED
        BY <2>1, <3>1 DEF Stored
    <2> QED
      BY <2>2, <2>3, <2>4
  <1>2. CASE Answered(t)
    <2>1. PICK p \in Awaited(t) :
             \/ /\ tab' = [tab EXCEPT ![t] = [Settled(t, "signed-in") EXCEPT !.user = p.person]]
                /\ posts' = posts \ {p}
             \/ /\ tab' = [tab EXCEPT ![t] = Settled(t, "failed")]
                /\ posts' = posts \ {p}
             \/ /\ tab' = [tab EXCEPT ![t] = Settled(t, "failed")]
                /\ posts' = (posts \ {p}) \cup {[p EXCEPT !.awaited = FALSE]}
      BY <1>2 DEF Answered
    <2>2. p \in Post /\ [p EXCEPT !.awaited = FALSE] \in Post
      BY DEF Awaited, Post
    <2>3. Settled(t, "failed") \in TabState /\ Settled(t, "signed-in") \in TabState
      BY TabTypes
    <2>4. [Settled(t, "signed-in") EXCEPT !.user = p.person] \in TabState
      BY <2>2, <2>3 DEF Post, TabState
    <2>5. tab' \in [Tab -> TabState] /\ posts' \subseteq Post
      BY <2>1, <2>2, <2>3, <2>4
    <2> QED
      BY <1>2, <2>5 DEF Answered
  <1> QED
    BY <1>1, <1>2

\* Detours.
LEMMA DetourType ==
    ASSUME TypeOK, NEW t \in Tab,
           Reload(t) \/ Browse(t) \/ \E u \in Tab : Duplicate(t, u) \/ Paste(t, u)
    PROVE  TypeOK'
  <1> USE DEF TypeOK
  <1>0. tab[t] \in TabState /\ tab[t].been \in SUBSET Attempt
    BY DEF TabState
  <1>1. Detour => detours' \in 0..MaxDetours
    BY SignInAssumption DEF Detour
  <1>2. CASE Reload(t)
    <2>1. Abandoned(t) \subseteq Post
      <3>1. \A p \in posts : p \in Post /\ [p EXCEPT !.awaited = FALSE] \in Post
        BY DEF Post
      <3> QED
        BY <3>1 DEF Abandoned
    <2> QED
      BY <1>1, <1>2, <2>1 DEF Reload
  <1>3. CASE Browse(t)
    <2>1. [HomeTab EXCEPT !.been = tab[t].been] \in TabState
      BY <1>0 DEF HomeTab, ClosedTab, TabState
    <2>2. \A a \in tab[t].been :
             [ClosedTab EXCEPT !.page = "provider", !.state = a, !.been = tab[t].been]
                \in TabState
      BY <1>0 DEF ClosedTab, TabState
    <2>3. tab' \in [Tab -> TabState]
      BY <1>3, <2>1, <2>2 DEF Browse
    <2> QED
      BY <1>1, <1>3, <2>3 DEF Browse, Server
  <1>4. ASSUME NEW u \in Tab, Duplicate(t, u)
        PROVE  TypeOK'
    BY <1>1, <1>4 DEF Duplicate, Server
  <1>5. ASSUME NEW u \in Tab, Paste(t, u)
        PROVE  TypeOK'
    <2>1. [tab[u] EXCEPT !.been = tab[t].been] \in TabState
      BY <1>0 DEF TabState
    <2> QED
      BY <1>1, <1>5, <2>1 DEF Paste, Server
  <1> QED
    BY <1>2, <1>3, <1>4, <1>5

\* What the token endpoint answers is a token.
LEMMA TokensType ==
    ASSUME TypeOK, NEW c \in Code
    PROVE  Tokens(c) \subseteq IdToken
  <1>1. \A g \in Code : grant[g].attempt \in Attempt \cup {None}
                        /\ grant[g].person \in Person \cup {None}
    BY DEF TypeOK
  <1>2. \A g \in Code : [genuine |-> TRUE, nonce |-> grant[g].attempt,
                         subject |-> grant[g].person] \in IdToken
    BY <1>1 DEF IdToken
  <1>3. \A k \in IdToken : [k EXCEPT !.subject = None] \in IdToken
                           /\ [k EXCEPT !.genuine = FALSE] \in IdToken
    BY DEF IdToken
  <1> QED
    BY <1>2, <1>3 DEF Tokens

\* The server's steps.
LEMMA ServerType ==
    ASSUME TypeOK, Exchange \/ Verify
    PROVE  TypeOK'
  <1> USE DEF TypeOK
  <1>1. CASE Exchange
    <2>1. PICK p \in posts :
             \/ /\ \E token \in Tokens(p.code) :
                      Step(p, [p EXCEPT !.stage = "redeemed", !.token = token])
                /\ open' \subseteq open
             \/ Step(p, [p EXCEPT !.stage = "refused"]) /\ open' \subseteq open
      BY <1>1 DEF Exchange, Redeemed
    <2>2. p \in Post /\ p.code \in Code
      BY DEF Post
    <2>3. \A token \in Tokens(p.code) :
             [p EXCEPT !.stage = "redeemed", !.token = token] \in Post
      BY <2>2, TokensType DEF Post
    <2>4. [p EXCEPT !.stage = "refused"] \in Post
      BY <2>2 DEF Post
    <2>5. posts' \subseteq Post
      BY <2>1, <2>3, <2>4 DEF Step
    <2> QED
      BY <1>1, <2>1, <2>5 DEF Exchange
  <1>2. CASE Verify
    <2>1. PICK p \in posts :
             \/ /\ Verified(p.token, p.pending)
                /\ sessions' = sessions \cup
                      {[from |-> p.from, code |-> p.code, pending |-> p.pending,
                        person |-> p.token.subject]}
                /\ Step(p, [p EXCEPT !.stage = "ok", !.person = p.token.subject])
             \/ /\ Step(p, [p EXCEPT !.stage = "refused"])
                /\ UNCHANGED sessions
      BY <1>2 DEF Verify
    <2>2. p \in Post /\ p.token \in IdToken /\ p.token.subject \in Person \cup {None}
      BY DEF Post, IdToken
    <2>3. CASE UNCHANGED sessions /\ Step(p, [p EXCEPT !.stage = "refused"])
      <3>1. [p EXCEPT !.stage = "refused"] \in Post
        BY <2>2 DEF Post
      <3> QED
        BY <1>2, <2>3, <3>1 DEF Verify, Step
    <2>4. CASE /\ Verified(p.token, p.pending)
               /\ sessions' = sessions \cup
                     {[from |-> p.from, code |-> p.code, pending |-> p.pending,
                       person |-> p.token.subject]}
               /\ Step(p, [p EXCEPT !.stage = "ok", !.person = p.token.subject])
      <3>1. p.token.subject \in Person
        BY <2>2, <2>4 DEF Verified
      <3>2. [p EXCEPT !.stage = "ok", !.person = p.token.subject] \in Post
        BY <2>2 DEF Post
      <3>3. [from |-> p.from, code |-> p.code, pending |-> p.pending,
             person |-> p.token.subject] \in
               [from : Tab, code : Code, pending : Attempt, person : Person]
        BY <2>2, <3>1 DEF Post
      <3> QED
        BY <1>2, <2>4, <3>2, <3>3 DEF Verify, Step
    <2> QED
      BY <2>1, <2>3, <2>4
  <1> QED
    BY <1>1, <1>2

\* TypeOK is preserved, given what a tab that leaves knows.
LEMMA TypeStep ==
    ASSUME TypeOK, \A t \in Tab : UrlInv(t), [Next]_vars
    PROVE  TypeOK'
  <1>1. CASE UNCHANGED vars
    BY <1>1 DEF vars, TypeOK
  <1> QED
    BY <1>1, ServerType, TabType, CallbackType, DetourType DEF Next

-----------------------------------------------------------------------------
(* What the URLs say. *)

\* A tab with the URL of some tab before, or without a code, is in order.
LEMMA UrlKept ==
    ASSUME \A u \in Tab : UrlInv(u), grant' = grant, NEW t \in Tab,
           tab'[t].page = "away" => tab'[t].state # None,
           \/ tab'[t].code = None
           \/ \E u \in Tab : /\ tab'[t].page = tab[u].page
                             /\ tab'[t].code = tab[u].code
                             /\ tab'[t].state = tab[u].state
    PROVE  UrlInv(t)'
  <1>1. Unissued' = Unissued
    BY DEF Unissued
  <1> QED
    BY <1>1 DEF UrlInv

\* Every step keeps the URLs in order.
LEMMA UrlStep ==
    ASSUME TypeOK, \A t \in Tab : UrlInv(t), [Next]_vars
    PROVE  \A t \in Tab : UrlInv(t)'
  <1> DEFINE Plain(x) == x.page # "away" /\ x.code = None
  <1>0. tab \in [Tab -> TabState]
    BY DEF TypeOK
  <1>1. ASSUME grant' = grant, NEW t \in Tab, NEW x, tab' = [tab EXCEPT ![t] = x],
               \/ Plain(x)
               \/ x.page # "away" /\ \E u \in Tab : /\ x.page = tab[u].page
                                                    /\ x.code = tab[u].code
                                                    /\ x.state = tab[u].state
               \/ x.state # None /\ x.code = None
        PROVE  \A s \in Tab : UrlInv(s)'
    <2> SUFFICES ASSUME NEW s \in Tab
                 PROVE  UrlInv(s)'
      OBVIOUS
    <2>1. CASE s = t
      <3>1. tab'[s] = x
        BY <1>0, <1>1, <2>1
      <3> QED
        BY <1>1, <3>1, UrlKept
    <2>2. CASE s # t
      <3>1. tab'[s] = tab[s]
        BY <1>0, <1>1, <2>2
      <3>2. tab[s].page = "away" => tab[s].state # None
        BY DEF UrlInv
      <3> QED
        BY <1>1, <3>1, <3>2, UrlKept
    <2> QED
      BY <2>1, <2>2
  <1>2. ASSUME grant' = grant, tab' = tab
        PROVE  \A s \in Tab : UrlInv(s)'
    <2>1. Unissued' = Unissued
      BY <1>2 DEF Unissued
    <2> QED
      BY <1>2, <2>1 DEF UrlInv
  <1>3. ASSUME NEW t \in Tab, OpenTab(t)
        PROVE  \A s \in Tab : UrlInv(s)'
    <2>1. Plain(HomeTab)
      BY DEF HomeTab, ClosedTab
    <2> QED
      BY <1>1, <1>3, <2>1 DEF OpenTab, Server
  <1>4. ASSUME NEW t \in Tab, BeginSignIn(t)
        PROVE  \A s \in Tab : UrlInv(s)'
    <2>1. PICK l : tab' = [tab EXCEPT ![t] = [tab[t] EXCEPT !.leaving = l]]
      BY <1>4 DEF BeginSignIn
    <2> DEFINE x == [tab[t] EXCEPT !.leaving = l]
    <2>2. x.page # "callback" /\ x.page = tab[t].page /\ x.code = tab[t].code
          /\ x.state = tab[t].state
      BY <1>0, <1>4 DEF BeginSignIn, TabState
    <2>3. grant' = grant
      BY <1>4 DEF BeginSignIn, Server
    <2>4. x.page = "away" => x.state # None /\ x.code = None
      BY <2>2 DEF UrlInv
    <2> HIDE DEF x
    <2>5. tab' = [tab EXCEPT ![t] = x]
      BY <2>1 DEF x
    <2>6. CASE x.page = "away"
      BY <1>1, <2>3, <2>4, <2>5, <2>6
    <2>7. CASE x.page # "away"
      BY <1>1, <2>2, <2>3, <2>5, <2>7
    <2> QED
      BY <2>6, <2>7
  <1>5. ASSUME NEW t \in Tab, Assign(t)
        PROVE  \A s \in Tab : UrlInv(s)'
    <2>1. PICK a \in tab[t].leaving :
             tab' = [tab EXCEPT ![t] = [tab[t] EXCEPT !.page = "away", !.state = a,
                                                      !.leaving = tab[t].leaving \ {a}]]
      BY <1>5 DEF Assign
    <2> DEFINE x == [tab[t] EXCEPT !.page = "away", !.state = a,
                                   !.leaving = tab[t].leaving \ {a}]
    <2>2. a # None
      BY <1>0, SignInAssumption DEF TabState
    <2>3. tab[t].code = None
      BY <1>5 DEF Assign, UrlInv
    <2>4. x.state = a /\ x.code = None
      BY <1>0, <2>3 DEF TabState
    <2>5. grant' = grant
      BY <1>5 DEF Assign, Server
    <2> HIDE DEF x
    <2>6. tab' = [tab EXCEPT ![t] = x]
      BY <2>1 DEF x
    <2> QED
      BY <1>1, <2>2, <2>4, <2>5, <2>6
  <1>6. ASSUME NEW t \in Tab, Depart(t) \/ Decline(t)
        PROVE  \A s \in Tab : UrlInv(s)'
    <2>1. \A a, b : Plain([ClosedTab EXCEPT !.page = "provider", !.state = a, !.been = b])
      BY DEF ClosedTab
    <2>2. \A a, b : Plain([ClosedTab EXCEPT !.page = "callback", !.state = a,
                                            !.code = None, !.been = b])
      BY DEF ClosedTab
    <2> HIDE DEF Plain
    <2> QED
      BY <1>1, <1>6, <2>1, <2>2 DEF Depart, Decline, Return, Server
  <1>7. ASSUME NEW t \in Tab, NEW p \in Person, IssueCode(t, p)
        PROVE  \A s \in Tab : UrlInv(s)'
    <2>1. PICK c \in Unissued :
             /\ grant' = [grant EXCEPT ![c] = [attempt |-> tab[t].state, person |-> p]]
             /\ Return(t, c)
      BY <1>7 DEF IssueCode
    <2>2. c \in Code /\ grant \in [Code -> [attempt : Attempt \cup {None},
                                            person : Person \cup {None}]]
      BY DEF Unissued, TypeOK
    <2>3. grant'[c].attempt = tab[t].state /\ grant'[c].person = p
      BY <2>1, <2>2
    <2>4. c \notin Unissued' /\ \A d \in Code \ Unissued :
                                   d \notin Unissued' /\ grant'[d] = grant[d]
      BY <2>1, <2>2, <2>3, SignInAssumption DEF Unissued, NoGrant
    <2> SUFFICES ASSUME NEW s \in Tab
                 PROVE  UrlInv(s)'
      OBVIOUS
    <2>5. CASE s = t
      <3> DEFINE x == [ClosedTab EXCEPT !.page = "callback", !.state = tab[t].state,
                                        !.code = c, !.been = tab[t].been]
      <3>1. x.page = "callback" /\ x.code = c /\ x.state = tab[t].state
        BY DEF ClosedTab
      <3>2. tab'[s] = x
        BY <1>0, <2>1, <2>5 DEF Return
      <3> HIDE DEF x
      <3> QED
        BY <2>3, <2>4, <3>1, <3>2 DEF UrlInv
    <2>6. CASE s # t
      <3>1. tab'[s] = tab[s] /\ tab[s].code \in Code \cup {None}
        BY <1>0, <2>1, <2>6 DEF Return, TabState
      <3> QED
        BY <2>4, <3>1 DEF UrlInv
    <2> QED
      BY <2>5, <2>6
  <1>8. ASSUME NEW t \in Tab, CompleteSignIn(t)
        PROVE  \A s \in Tab : UrlInv(s)'
    <2>1. /\ Plain(Settled(t, "refused"))
          /\ Plain([Settled(t, "elsewhere") EXCEPT !.state = tab[t].state])
      BY DEF Settled, HomeTab, ClosedTab
    <2>2. grant' = grant
      BY <1>8 DEF CompleteSignIn
    <2> HIDE DEF Plain
    <2>3. \/ tab' = tab
          \/ tab' = [tab EXCEPT ![t] = Settled(t, "refused")]
          \/ tab' = [tab EXCEPT ![t] = [Settled(t, "elsewhere") EXCEPT !.state = tab[t].state]]
      BY <1>8 DEF CompleteSignIn
    <2> QED
      BY <1>1, <1>2, <2>1, <2>2, <2>3
  <1>9. ASSUME NEW t \in Tab, Answered(t)
        PROVE  \A s \in Tab : UrlInv(s)'
    <2>1. /\ Plain(Settled(t, "failed"))
          /\ \A v : Plain([Settled(t, "signed-in") EXCEPT !.user = v])
      BY DEF Settled, HomeTab, ClosedTab
    <2>2. grant' = grant
      BY <1>9 DEF Answered
    <2> HIDE DEF Plain
    <2>3. \/ tab' = [tab EXCEPT ![t] = Settled(t, "failed")]
          \/ \E v : tab' = [tab EXCEPT ![t] = [Settled(t, "signed-in") EXCEPT !.user = v]]
      BY <1>9 DEF Answered
    <2> QED
      BY <1>1, <2>1, <2>2, <2>3
  <1>10. ASSUME NEW t \in Tab, Browse(t)
         PROVE  \A s \in Tab : UrlInv(s)'
    <2>1. /\ Plain([HomeTab EXCEPT !.been = tab[t].been])
          /\ \A a : Plain([ClosedTab EXCEPT !.page = "provider", !.state = a,
                                            !.been = tab[t].been])
      BY DEF HomeTab, ClosedTab
    <2> HIDE DEF Plain
    <2> QED
      BY <1>1, <1>10, <2>1 DEF Browse, Server
  <1>11. ASSUME NEW t \in Tab, NEW u \in Tab, Duplicate(t, u)
         PROVE  \A s \in Tab : UrlInv(s)'
    BY <1>1, <1>11 DEF Duplicate, Server
  <1>12. ASSUME NEW t \in Tab, NEW u \in Tab, Paste(t, u)
         PROVE  \A s \in Tab : UrlInv(s)'
    <2> DEFINE x == [tab[u] EXCEPT !.been = tab[t].been]
    <2>1. /\ x.page = "callback" /\ x.page = tab[u].page /\ x.code = tab[u].code
          /\ x.state = tab[u].state
      BY <1>0, <1>12 DEF Paste, TabState
    <2>2. tab' = [tab EXCEPT ![t] = x] /\ grant' = grant
      BY <1>12 DEF Paste, Server
    <2> HIDE DEF x
    <2> QED
      BY <1>1, <2>1, <2>2
  <1>13. CASE Exchange \/ Verify \/ (\E t \in Tab : Reload(t)) \/ UNCHANGED vars
    BY <1>2, <1>13 DEF Exchange, Verify, Reload, vars
  <1> HIDE DEF Plain
  <1> QED
    BY <1>3, <1>4, <1>5, <1>6, <1>7, <1>8, <1>9, <1>10, <1>11, <1>12, <1>13 DEF Next

-----------------------------------------------------------------------------
(* Codes, calls and sessions. *)

\* Calls may go, or lose the page that awaits them, and codes may be used up.
LEMMA ServerKept ==
    ASSUME ServerInv, UNCHANGED <<grant, sessions>>, open' \subseteq open,
           \A q \in posts' : \E p \in posts :
              /\ q.code = p.code /\ q.pending = p.pending /\ q.token = p.token
              /\ q.stage = "redeemed" => p.stage = "redeemed",
           \A p, q \in posts' : /\ p.stage = "redeemed" /\ q.stage = "redeemed"
                                /\ p.code = q.code
                                => p = q
    PROVE  ServerInv'
  <1>1. Unissued' = Unissued
    BY DEF Unissued
  <1>2. ASSUME NEW q \in posts'
        PROVE  PostInv(q)' /\ RedeemedInv(q)'
    <2>1. PICK p \in posts :
             /\ q.code = p.code /\ q.pending = p.pending /\ q.token = p.token
             /\ q.stage = "redeemed" => p.stage = "redeemed"
      BY <1>2
    <2>2. PostInv(p) /\ RedeemedInv(p)
      BY DEF ServerInv
    <2>3. PostInv(q)'
      BY <1>1, <2>1, <2>2 DEF PostInv
    <2>4. RedeemedInv(q)'
      BY <1>1, <2>1, <2>2 DEF RedeemedInv, TokenGranted
    <2> QED
      BY <2>3, <2>4
  <1>3. \A s \in sessions' : SessionInv(s)'
    BY <1>1 DEF ServerInv, SessionInv
  <1>4. IssuedForItsAttempt' /\ OneSessionPerCode'
    BY DEF ServerInv, IssuedForItsAttempt, OneSessionPerCode
  <1> QED
    BY <1>2, <1>3, <1>4 DEF ServerInv

\* A code is drawn that no call and no session knows of.
LEMMA ServerIssueCode ==
    ASSUME TypeOK, ServerInv, NEW t \in Tab, NEW p \in Person, IssueCode(t, p)
    PROVE  ServerInv'
  <1>1. PICK c \in Unissued :
           /\ grant' = [grant EXCEPT ![c] = [attempt |-> tab[t].state, person |-> p]]
           /\ open' = open \cup {c}
    BY DEF IssueCode
  <1>2. /\ posts' = posts /\ sessions' = sessions /\ c \in Code
        /\ grant \in [Code -> [attempt : Attempt \cup {None}, person : Person \cup {None}]]
    BY DEF Unissued, TypeOK, IssueCode
  <1>3. \A d \in Code \ {c} : grant'[d] = grant[d]
    BY <1>1, <1>2
  <1>4. Unissued' \subseteq Unissued /\ \A d \in Code \ Unissued : grant'[d] = grant[d]
    <2>1. grant'[c].person = p
      BY <1>1, <1>2
    <2>2. c \notin Unissued'
      BY <2>1, SignInAssumption DEF Unissued, NoGrant
    <2> QED
      BY <1>1, <1>3, <2>2 DEF Unissued
  <1>5. ASSUME NEW q \in posts
        PROVE  PostInv(q)' /\ RedeemedInv(q)'
    <2>1. PostInv(q) /\ RedeemedInv(q) /\ q.code \in Code
      BY DEF ServerInv, TypeOK, Post
    <2>2. q.code \notin Unissued /\ grant'[q.code] = grant[q.code]
      BY <1>4, <2>1 DEF PostInv
    <2>3. TokenGranted(q.token) => TokenGranted(q.token)'
      BY <1>4 DEF TokenGranted
    <2> QED
      BY <1>1, <1>2, <1>4, <2>1, <2>2, <2>3 DEF PostInv, RedeemedInv
  <1>6. ASSUME NEW s \in sessions
        PROVE  SessionInv(s)'
    <2>1. SessionInv(s)
      BY DEF ServerInv
    <2> QED
      BY <1>1, <1>4, <2>1 DEF SessionInv
  <1>7. IssuedForItsAttempt'
    <2> SUFFICES ASSUME NEW s \in sessions
                 PROVE  \E d \in Code : grant'[d] = [attempt |-> s.pending, person |-> s.person]
      BY <1>2 DEF IssuedForItsAttempt
    <2>1. PICK d \in Code : grant[d] = [attempt |-> s.pending, person |-> s.person]
      BY DEF ServerInv, IssuedForItsAttempt
    <2>2. s.person # None
      BY SignInAssumption DEF TypeOK
    <2>3. d \notin Unissued
      BY <2>1, <2>2 DEF Unissued, NoGrant
    <2> QED
      BY <1>4, <2>1, <2>3
  <1> QED
    BY <1>2, <1>5, <1>6, <1>7 DEF ServerInv, OneSessionPerCode

\* completeSignIn posts a code with the pending login it was given out for.
LEMMA ServerComplete ==
    ASSUME TypeOK, ServerInv, NEW t \in Tab, UrlInv(t), CompleteSignIn(t)
    PROVE  ServerInv'
  <1>1. UNCHANGED <<grant, open, sessions>>
    BY DEF CompleteSignIn
  <1>2. CASE posts' = posts
    BY <1>1, <1>2, ServerKept DEF ServerInv, RedeemedInv
  <1>3. CASE posts' # posts
    <2>0. PICK p : p = [from |-> t, awaited |-> ~StrictMode, code |-> tab[t].code,
                        pending |-> store[t], stage |-> "sent",
                        token |-> NoToken, person |-> None]
      OBVIOUS
    <2>1. posts' = posts \cup {p} /\ Meets(t) /\ tab[t].code # None
      BY <1>3, <2>0 DEF CompleteSignIn
    <2>2. p.stage = "sent" /\ p.code = tab[t].code /\ p.pending = store[t]
      BY <2>0
    <2>3. Unissued' = Unissued
      BY <1>1 DEF Unissued
    <2>4. PostInv(p)' /\ RedeemedInv(p)'
      BY <1>1, <2>1, <2>2, <2>3 DEF UrlInv, PostInv, RedeemedInv, Meets
    <2>5. ASSUME NEW q \in posts
          PROVE  PostInv(q)' /\ RedeemedInv(q)'
      <3>1. PostInv(q) /\ RedeemedInv(q)
        BY DEF ServerInv
      <3> QED
        BY <1>1, <2>1, <2>2, <2>3, <3>1 DEF PostInv, RedeemedInv, TokenGranted
    <2>6. \A s \in sessions' : SessionInv(s)'
      BY <1>1, <2>3 DEF ServerInv, SessionInv
    <2>7. IssuedForItsAttempt' /\ OneSessionPerCode'
      BY <1>1 DEF ServerInv, IssuedForItsAttempt, OneSessionPerCode
    <2> QED
      BY <2>1, <2>4, <2>5, <2>6, <2>7 DEF ServerInv
  <1> QED
    BY <1>2, <1>3

\* The page no longer awaits an answer.
LEMMA ServerAbandon ==
    ASSUME TypeOK, ServerInv, NEW t \in Tab, Answered(t) \/ Reload(t)
    PROVE  ServerInv'
  <1>1. UNCHANGED <<grant, open, sessions>>
    BY DEF Answered, Reload
  <1>2. ASSUME NEW p \in posts
        PROVE  /\ [p EXCEPT !.awaited = FALSE].code = p.code
               /\ [p EXCEPT !.awaited = FALSE].pending = p.pending
               /\ [p EXCEPT !.awaited = FALSE].token = p.token
               /\ [p EXCEPT !.awaited = FALSE].stage = p.stage
    BY DEF TypeOK, Post
  <1>3. \A p, q \in posts : p.stage = "redeemed" /\ q.stage = "redeemed" /\ p.code = q.code
                            => p = q
    BY DEF ServerInv, RedeemedInv
  <1>4. CASE Answered(t)
    <2>1. PICK p \in posts :
             posts' \in {posts \ {p}, (posts \ {p}) \cup {[p EXCEPT !.awaited = FALSE]}}
      BY <1>4 DEF Answered, Awaited
    <2> DEFINE q == [p EXCEPT !.awaited = FALSE]
    <2>2. q.code = p.code /\ q.pending = p.pending /\ q.token = p.token /\ q.stage = p.stage
      BY <1>2
    <2> HIDE DEF q
    <2>3. posts' = posts \ {p} \/ posts' = (posts \ {p}) \cup {q}
      BY <2>1 DEF q
    <2>4. \A r \in posts' : \E s \in posts :
             /\ r.code = s.code /\ r.pending = s.pending /\ r.token = s.token
             /\ r.stage = "redeemed" => s.stage = "redeemed"
      BY <2>2, <2>3
    <2>5. \A r, s \in posts' : /\ r.stage = "redeemed" /\ s.stage = "redeemed"
                               /\ r.code = s.code
                               => r = s
      BY <1>3, <2>2, <2>3
    <2> QED
      BY <1>1, <2>4, <2>5, ServerKept
  <1>5. CASE Reload(t)
    <2> DEFINE f(p) == IF p \in Awaited(t) THEN [p EXCEPT !.awaited = FALSE] ELSE p
    <2>1. \A p \in posts : /\ f(p).code = p.code /\ f(p).pending = p.pending
                           /\ f(p).token = p.token /\ f(p).stage = p.stage
      BY <1>2
    <2>2. posts' = {f(p) : p \in posts}
      BY <1>5 DEF Reload, Abandoned
    <2> HIDE DEF f
    <2>3. \A q \in posts' : \E p \in posts : q = f(p)
      BY <2>2
    <2>4. \A r \in posts' : \E s \in posts :
             /\ r.code = s.code /\ r.pending = s.pending /\ r.token = s.token
             /\ r.stage = "redeemed" => s.stage = "redeemed"
      BY <2>1, <2>3
    <2>5. \A r, s \in posts' : /\ r.stage = "redeemed" /\ s.stage = "redeemed"
                               /\ r.code = s.code
                               => r = s
      BY <1>3, <2>1, <2>3
    <2> QED
      BY <1>1, <2>4, <2>5, ServerKept
  <1> QED
    BY <1>4, <1>5

\* The token endpoint: whoever redeems a code finds it open and closes it.
LEMMA ServerExchange ==
    ASSUME TypeOK, ServerInv, Exchange
    PROVE  ServerInv'
  <1>1. PICK p \in posts :
           /\ p.stage = "sent"
           /\ \/ /\ p.code \in open
                 /\ \E token \in Tokens(p.code) :
                       Step(p, [p EXCEPT !.stage = "redeemed", !.token = token])
                 /\ open' = open \ {p.code}
              \/ /\ Step(p, [p EXCEPT !.stage = "refused"])
                 /\ open' \subseteq open
    BY DEF Exchange, Redeemed
  <1>2. UNCHANGED <<grant, sessions>>
    BY DEF Exchange
  <1>3. Unissued' = Unissued
    BY <1>2 DEF Unissued
  <1>4. p \in Post /\ p.code \in Code /\ PostInv(p)
    BY DEF TypeOK, Post, ServerInv
  <1>5. \A q, r \in posts : q.stage = "redeemed" /\ r.stage = "redeemed" /\ q.code = r.code
                            => q = r
    BY DEF ServerInv, RedeemedInv
  <1>6. CASE Step(p, [p EXCEPT !.stage = "refused"]) /\ open' \subseteq open
    <2>1. PICK q : q = [p EXCEPT !.stage = "refused"]
      OBVIOUS
    <2>2. /\ q.code = p.code /\ q.pending = p.pending /\ q.token = p.token
          /\ q.stage = "refused"
      BY <1>4, <2>1 DEF Post
    <2>3. posts' = (posts \ {p}) \cup {q}
      BY <1>6, <2>1 DEF Step
    <2>4. \A r \in posts' : \E s \in posts :
             /\ r.code = s.code /\ r.pending = s.pending /\ r.token = s.token
             /\ r.stage = "redeemed" => s.stage = "redeemed"
      BY <2>2, <2>3
    <2>5. \A r, s \in posts' : /\ r.stage = "redeemed" /\ s.stage = "redeemed"
                               /\ r.code = s.code
                               => r = s
      BY <1>5, <2>2, <2>3
    <2> QED
      BY <1>2, <1>6, <2>4, <2>5, ServerKept
  <1>7. ASSUME p.code \in open, open' = open \ {p.code}, NEW token \in Tokens(p.code),
               Step(p, [p EXCEPT !.stage = "redeemed", !.token = token])
        PROVE  ServerInv'
    <2>1. PICK q : q = [p EXCEPT !.stage = "redeemed", !.token = token]
      OBVIOUS
    <2>2. /\ q.code = p.code /\ q.pending = p.pending /\ q.token = token
          /\ q.stage = "redeemed"
      BY <1>4, <2>1 DEF Post
    <2>3. posts' = (posts \ {p}) \cup {q}
      BY <1>7, <2>1 DEF Step
    <2>4. TokenGranted(token)
      <3>1. p.code \in Code \ Unissued
        BY <1>4 DEF PostInv
      <3> DEFINE TokenOf(g) == [genuine |-> TRUE, nonce |-> grant[g].attempt,
                                subject |-> grant[g].person]
      <3>2. CASE \E g \in Code \ Unissued : token = TokenOf(g)
        BY <3>2 DEF TokenGranted
      <3>3. CASE token = [TokenOf(p.code) EXCEPT !.subject = None]
        <4>1. token.nonce = grant[p.code].attempt /\ token.subject = None
          BY <3>3
        <4> QED
          BY <3>1, <4>1 DEF TokenGranted
      <3>4. CASE token = [TokenOf(p.code) EXCEPT !.genuine = FALSE]
        BY <3>4 DEF TokenGranted
      <3> QED
        BY <3>2, <3>3, <3>4 DEF Tokens
    <2>5. \A s \in posts : s.stage = "redeemed" => s.code # q.code
      BY <1>7, <2>2 DEF ServerInv, RedeemedInv
    <2>6. \A s \in sessions : s.code # q.code
      BY <1>7, <2>2 DEF ServerInv, SessionInv
    <2>7. PostInv(q)' /\ RedeemedInv(q)'
      BY <1>2, <1>3, <1>4, <1>7, <2>2, <2>3, <2>4, <2>5, <2>6
      DEF PostInv, RedeemedInv, TokenGranted
    <2>8. ASSUME NEW s \in posts \ {p}
          PROVE  PostInv(s)' /\ RedeemedInv(s)'
      <3>1. PostInv(s) /\ RedeemedInv(s)
        BY DEF ServerInv
      <3> QED
        BY <1>2, <1>3, <1>7, <2>2, <2>3, <2>5, <3>1 DEF PostInv, RedeemedInv, TokenGranted
    <2>9. \A s \in sessions' : SessionInv(s)'
      BY <1>2, <1>3, <1>7 DEF ServerInv, SessionInv
    <2>10. IssuedForItsAttempt' /\ OneSessionPerCode'
      BY <1>2 DEF ServerInv, IssuedForItsAttempt, OneSessionPerCode
    <2> QED
      BY <2>3, <2>7, <2>8, <2>9, <2>10 DEF ServerInv
  <1> QED
    BY <1>1, <1>6, <1>7

\* Verify: the nonce ties the token's subject to the attempt, and the code to
\* one session.
LEMMA ServerVerify ==
    ASSUME TypeOK, ServerInv, Verify
    PROVE  ServerInv'
  <1>1. PICK p \in posts :
           /\ p.stage = "redeemed"
           /\ \/ /\ Verified(p.token, p.pending)
                 /\ sessions' = sessions \cup
                       {[from |-> p.from, code |-> p.code, pending |-> p.pending,
                         person |-> p.token.subject]}
                 /\ Step(p, [p EXCEPT !.stage = "ok", !.person = p.token.subject])
              \/ /\ Step(p, [p EXCEPT !.stage = "refused"])
                 /\ UNCHANGED sessions
    BY DEF Verify
  <1>2. UNCHANGED <<grant, open>>
    BY DEF Verify
  <1>3. Unissued' = Unissued
    BY <1>2 DEF Unissued
  <1>4. p \in Post /\ p.code \in Code /\ PostInv(p) /\ RedeemedInv(p)
    BY DEF TypeOK, Post, ServerInv
  <1>5. \A q, r \in posts : q.stage = "redeemed" /\ r.stage = "redeemed" /\ q.code = r.code
                            => q = r
    BY DEF ServerInv, RedeemedInv
  <1>6. CASE Step(p, [p EXCEPT !.stage = "refused"]) /\ UNCHANGED sessions
    <2>1. PICK q : q = [p EXCEPT !.stage = "refused"]
      OBVIOUS
    <2>2. /\ q.code = p.code /\ q.pending = p.pending /\ q.token = p.token
          /\ q.stage = "refused"
      BY <1>4, <2>1 DEF Post
    <2>3. posts' = (posts \ {p}) \cup {q}
      BY <1>6, <2>1 DEF Step
    <2>4. \A r \in posts' : \E s \in posts :
             /\ r.code = s.code /\ r.pending = s.pending /\ r.token = s.token
             /\ r.stage = "redeemed" => s.stage = "redeemed"
      BY <2>2, <2>3
    <2>5. \A r, s \in posts' : /\ r.stage = "redeemed" /\ s.stage = "redeemed"
                               /\ r.code = s.code
                               => r = s
      BY <1>5, <2>2, <2>3
    <2> QED
      BY <1>2, <1>6, <2>4, <2>5, ServerKept
  <1>7. CASE /\ Verified(p.token, p.pending)
             /\ sessions' = sessions \cup
                   {[from |-> p.from, code |-> p.code, pending |-> p.pending,
                     person |-> p.token.subject]}
             /\ Step(p, [p EXCEPT !.stage = "ok", !.person = p.token.subject])
    <2>1. PICK q : q = [p EXCEPT !.stage = "ok", !.person = p.token.subject]
      OBVIOUS
    <2>2. PICK n : n = [from |-> p.from, code |-> p.code, pending |-> p.pending,
                        person |-> p.token.subject]
      OBVIOUS
    <2>3. /\ q.code = p.code /\ q.pending = p.pending /\ q.stage = "ok"
          /\ n.code = p.code /\ n.pending = p.pending /\ n.person = p.token.subject
      BY <1>4, <2>1, <2>2 DEF Post
    <2>4. posts' = (posts \ {p}) \cup {q} /\ sessions' = sessions \cup {n}
      BY <1>7, <2>1, <2>2 DEF Step
    <2>5. \A s \in sessions : s.code # n.code
      BY <1>1, <1>4, <2>3 DEF RedeemedInv
    <2>6. PostInv(q)' /\ RedeemedInv(q)'
      BY <1>2, <1>3, <1>4, <2>3 DEF PostInv, RedeemedInv
    <2>7. ASSUME NEW s \in posts \ {p}
          PROVE  PostInv(s)' /\ RedeemedInv(s)'
      <3>1. PostInv(s) /\ RedeemedInv(s)
        BY DEF ServerInv
      <3>2. s.stage = "redeemed" => s.code # n.code
        BY <1>1, <1>5, <2>3
      <3> QED
        BY <1>2, <1>3, <2>3, <2>4, <3>1, <3>2 DEF PostInv, RedeemedInv, TokenGranted
    <2>8. \A s \in sessions' : SessionInv(s)'
      BY <1>1, <1>2, <1>3, <1>4, <2>3, <2>4
      DEF ServerInv, SessionInv, PostInv, RedeemedInv
    <2>9. \E g \in Code : grant[g] = [attempt |-> n.pending, person |-> n.person]
      <3>1. PICK g \in Code \ Unissued : /\ p.token.nonce = grant[g].attempt
                                         /\ p.token.subject \in {grant[g].person, None}
        BY <1>1, <1>4, <1>7 DEF RedeemedInv, TokenGranted, Verified
      <3>2. grant[g].attempt = n.pending /\ grant[g].person = n.person
        BY <1>7, <2>3, <3>1 DEF Verified
      <3>3. grant[g] \in [attempt : Attempt \cup {None}, person : Person \cup {None}]
        BY DEF TypeOK
      <3>4. grant[g] = [attempt |-> grant[g].attempt, person |-> grant[g].person]
        BY <3>3
      <3> QED
        BY <3>2, <3>4
    <2>10. IssuedForItsAttempt'
      BY <1>2, <2>4, <2>9 DEF ServerInv, IssuedForItsAttempt
    <2>11. OneSessionPerCode'
      BY <2>4, <2>5 DEF ServerInv, OneSessionPerCode
    <2> QED
      BY <2>4, <2>6, <2>7, <2>8, <2>10, <2>11 DEF ServerInv
  <1> QED
    BY <1>1, <1>6, <1>7

\* Every step keeps what is said of codes, calls and sessions.
LEMMA ServerStep ==
    ASSUME TypeOK, \A t \in Tab : UrlInv(t), ServerInv, [Next]_vars
    PROVE  ServerInv'
  <1>1. ASSUME UNCHANGED Server
        PROVE  ServerInv'
    BY <1>1, ServerKept DEF Server, ServerInv, RedeemedInv
  <1>2. ASSUME NEW t \in Tab,
               \/ OpenTab(t) \/ BeginSignIn(t) \/ Assign(t) \/ Depart(t) \/ Decline(t)
               \/ Browse(t) \/ \E u \in Tab : Duplicate(t, u) \/ Paste(t, u)
        PROVE  UNCHANGED Server
    BY <1>2 DEF OpenTab, BeginSignIn, Assign, Depart, Decline, Browse, Duplicate, Paste
  <1>3. UNCHANGED vars => UNCHANGED Server
    BY DEF vars, Server
  <1> QED
    BY <1>1, <1>2, <1>3, ServerIssueCode, ServerComplete, ServerAbandon, ServerExchange,
       ServerVerify DEF Next

-----------------------------------------------------------------------------
(* The straight path, in production builds. *)

\* Nothing changes for a tab that another tab's step leaves alone.
LEMMA StraightKept ==
    ASSUME NEW s \in Tab, StraightInv(s), tab'[s] = tab[s], store'[s] = store[s],
           strayed \subseteq strayed', Awaited(s)' = {} => Awaited(s) = {}
    PROVE  StraightInv(s)'
  BY DEF StraightInv

\* The calls a page awaits are its own affair.
LEMMA AwaitedKept ==
    ASSUME TypeOK, NEW s \in Tab,
           \/ UNCHANGED posts
           \/ Exchange \/ Verify
           \/ \E t \in Tab : CompleteSignIn(t)
           \/ \E t \in Tab \ {s} : Answered(t) \/ Reload(t)
    PROVE  Awaited(s)' = {} => Awaited(s) = {}
  <1> SUFFICES ASSUME NEW p \in Awaited(s)
               PROVE  Awaited(s)' # {}
    OBVIOUS
  <1>0. p \in posts /\ p \in Post /\ p.from = s /\ p.awaited = TRUE
    BY DEF Awaited, TypeOK, Post
  <1>1. CASE UNCHANGED posts
    BY <1>0, <1>1 DEF Awaited
  <1>2. ASSUME NEW r \in posts, NEW q, Step(r, q), q.from = r.from, q.awaited = r.awaited
        PROVE  Awaited(s)' # {}
    <2>1. p \in posts' \/ (q \in posts' /\ q.from = s /\ q.awaited = TRUE)
      BY <1>0, <1>2 DEF Step
    <2> QED
      BY <1>0, <2>1 DEF Awaited
  <1>3. CASE Exchange \/ Verify
    <2>1. PICK r \in posts :
             \/ \E token : Step(r, [r EXCEPT !.stage = "redeemed", !.token = token])
             \/ Step(r, [r EXCEPT !.stage = "refused"])
             \/ \E v : Step(r, [r EXCEPT !.stage = "ok", !.person = v])
      BY <1>3 DEF Exchange, Verify
    <2>2. r \in Post
      BY DEF TypeOK
    <2>3. /\ \A token : LET q == [r EXCEPT !.stage = "redeemed", !.token = token]
                        IN  q.from = r.from /\ q.awaited = r.awaited
          /\ LET q == [r EXCEPT !.stage = "refused"]
             IN  q.from = r.from /\ q.awaited = r.awaited
          /\ \A v : LET q == [r EXCEPT !.stage = "ok", !.person = v]
                    IN  q.from = r.from /\ q.awaited = r.awaited
      BY <2>2 DEF Post
    <2> QED
      BY <1>2, <2>1, <2>3
  <1>4. ASSUME NEW t \in Tab, CompleteSignIn(t)
        PROVE  Awaited(s)' # {}
    <2>1. posts \subseteq posts'
      BY <1>4 DEF CompleteSignIn
    <2> QED
      BY <1>0, <2>1 DEF Awaited
  <1>5. ASSUME NEW t \in Tab \ {s}, Answered(t)
        PROVE  Awaited(s)' # {}
    <2>1. PICK r \in Awaited(t) : posts \ {r} \subseteq posts'
      BY <1>5 DEF Answered
    <2>2. p # r
      BY <1>0, <1>5 DEF Awaited
    <2> QED
      BY <1>0, <2>1, <2>2 DEF Awaited
  <1>6. ASSUME NEW t \in Tab \ {s}, Reload(t)
        PROVE  Awaited(s)' # {}
    <2>1. p \notin Awaited(t)
      BY <1>0, <1>6 DEF Awaited
    <2>2. p \in posts'
      BY <1>0, <1>6, <2>1 DEF Reload, Abandoned
    <2> QED
      BY <1>0, <2>2 DEF Awaited
  <1> QED
    BY <1>1, <1>3, <1>4, <1>5, <1>6

\* A tab that is strayed after the step needs nothing.
LEMMA StrayedIsFree ==
    ASSUME NEW t \in Tab, t \in strayed'
    PROVE  StraightInv(t)'
  BY DEF StraightInv

\* Steps of a tab keep it on the straight path, or stray.
LEMMA StraightTab ==
    ASSUME TypeOK, ~StrictMode, NEW t \in Tab, StraightInv(t),
           \/ OpenTab(t) \/ BeginSignIn(t) \/ Assign(t) \/ Depart(t) \/ Decline(t)
           \/ \E p \in Person : IssueCode(t, p)
           \/ CompleteSignIn(t) \/ Answered(t)
    PROVE  StraightInv(t)'
  <1>0. tab \in [Tab -> TabState] /\ store \in [Tab -> Attempt \cup {None}]
    BY DEF TypeOK
  <1> SUFFICES ASSUME t \notin strayed'
               PROVE  StraightInv(t)'
    BY StrayedIsFree
  <1>1. strayed \subseteq strayed' /\ t \notin strayed
    BY DEF OpenTab, BeginSignIn, Assign, Depart, Decline, IssueCode, CompleteSignIn, Answered
  <1>2. ASSUME NEW x, tab' = [tab EXCEPT ![t] = x], x.page = "app", x.leaving = {},
               x.shows # "elsewhere"
        PROVE  StraightInv(t)'
    <2>1. tab'[t] = x
      BY <1>0, <1>2
    <2> QED
      BY <1>2, <2>1 DEF StraightInv
  <1>3. ASSUME NEW x, tab' = [tab EXCEPT ![t] = x], store'[t] = store[t],
               x.page \in {"away", "provider", "callback"}, x.leaving = {},
               x.shows # "elsewhere", x.state = store[t], store[t] # None
        PROVE  StraightInv(t)'
    <2>1. tab'[t] = x
      BY <1>0, <1>3
    <2> QED
      BY <1>3, <2>1 DEF StraightInv
  <1>4. CASE OpenTab(t)
    <2>1. HomeTab.page = "app" /\ HomeTab.leaving = {} /\ HomeTab.shows = "signed-out"
      BY DEF HomeTab, ClosedTab
    <2> QED
      BY <1>2, <1>4, <2>1 DEF OpenTab
  <1>5. CASE BeginSignIn(t)
    <2>1. PICK a \in Attempt, fails \in BOOLEAN :
             /\ store' = Stored(t, a)
             /\ tab' = [tab EXCEPT ![t].leaving = IF fails THEN @ ELSE @ \cup {a}]
             /\ strayed' = IF tab[t].leaving # {} \/ tab[t].page = "away"
                             THEN strayed \cup {t} ELSE strayed
      BY <1>5 DEF BeginSignIn
    <2>2. tab[t].leaving = {} /\ tab[t].page = "app"
      BY <1>5, <2>1 DEF BeginSignIn
    <2>3. PICK l : l = (IF fails THEN {} ELSE {a})
      OBVIOUS
    <2>4. tab'[t] = [tab[t] EXCEPT !.leaving = l]
      BY <1>0, <2>1, <2>2, <2>3
    <2>5. /\ tab'[t].page = "app" /\ tab'[t].leaving = l
          /\ tab'[t].shows = tab[t].shows
      BY <1>0, <2>2, <2>4 DEF TabState
    <2>6. store'[t] = a
      BY <1>0, <2>1 DEF Stored
    <2> QED
      BY <1>1, <2>3, <2>5, <2>6 DEF StraightInv
  <1>6. CASE Assign(t)
    <2>1. PICK a \in tab[t].leaving :
             tab' = [tab EXCEPT ![t] = [tab[t] EXCEPT !.page = "away", !.state = a,
                                                      !.leaving = tab[t].leaving \ {a}]]
      BY <1>6 DEF Assign
    <2>2. tab[t].leaving = {store[t]} /\ a = store[t] /\ a # None
      <3>1. tab[t].page = "app"
        BY <1>1, <1>6, <2>1 DEF StraightInv, Assign
      <3>2. a \in Attempt
        BY <1>0 DEF TabState
      <3> QED
        BY <1>1, <2>1, <3>1, <3>2, SignInAssumption DEF StraightInv
    <2>3. PICK x : x = [tab[t] EXCEPT !.page = "away", !.state = a,
                                      !.leaving = tab[t].leaving \ {a}]
      OBVIOUS
    <2>4. /\ x.page = "away" /\ x.state = a /\ x.leaving = {} /\ x.shows = tab[t].shows
      BY <1>0, <2>2, <2>3 DEF TabState
    <2>5. tab[t].shows # "elsewhere"
      BY <1>1 DEF StraightInv
    <2> QED
      BY <1>3, <1>6, <2>1, <2>2, <2>3, <2>4, <2>5 DEF Assign
  <1>7. CASE Depart(t)
    <2>1. store[t] # None /\ tab[t].state = store[t]
      BY <1>1, <1>7 DEF StraightInv, Depart
    <2>2. PICK x : x = [ClosedTab EXCEPT !.page = "provider", !.state = tab[t].state,
                                         !.been = tab[t].been \cup {tab[t].state}]
      OBVIOUS
    <2>3. /\ x.page = "provider" /\ x.state = tab[t].state /\ x.leaving = {}
          /\ x.shows = "loading"
      BY <2>2 DEF ClosedTab
    <2> QED
      BY <1>3, <1>7, <2>1, <2>2, <2>3 DEF Depart
  <1>8. CASE Decline(t) \/ \E p \in Person : IssueCode(t, p)
    <2>1. store[t] # None /\ tab[t].state = store[t]
      BY <1>1, <1>8 DEF StraightInv, Decline, IssueCode
    <2>2. PICK c : Return(t, c) /\ UNCHANGED store
      BY <1>8 DEF Decline, IssueCode
    <2>3. PICK x : x = [ClosedTab EXCEPT !.page = "callback", !.state = tab[t].state,
                                         !.code = c, !.been = tab[t].been]
      OBVIOUS
    <2>4. /\ x.page = "callback" /\ x.state = tab[t].state /\ x.leaving = {}
          /\ x.shows = "loading"
      BY <2>3 DEF ClosedTab
    <2> QED
      BY <1>3, <2>1, <2>2, <2>3, <2>4 DEF Return
  <1>9. CASE CompleteSignIn(t)
    <2>1. Meets(t)
      BY <1>1, <1>9 DEF StraightInv, CompleteSignIn, Meets
    <2>2. CASE tab[t].code = None
      <3>1. PICK x : x = Settled(t, "refused")
        OBVIOUS
      <3>2. x.page = "app" /\ x.leaving = {} /\ x.shows = "refused"
        BY <3>1 DEF Settled, HomeTab, ClosedTab
      <3> QED
        BY <1>2, <1>9, <2>2, <3>1, <3>2 DEF CompleteSignIn
    <2>3. CASE tab[t].code # None
      <3>1. PICK p : p = [from |-> t, awaited |-> ~StrictMode, code |-> tab[t].code,
                          pending |-> store[t], stage |-> "sent",
                          token |-> NoToken, person |-> None]
        OBVIOUS
      <3>2. p.from = t /\ p.awaited
        BY <3>1
      <3>3. p \in posts' /\ tab' = tab
        BY <1>9, <2>1, <2>3, <3>1 DEF CompleteSignIn
      <3>4. Awaited(t)' # {}
        BY <3>2, <3>3 DEF Awaited
      <3> QED
        BY <1>1, <1>9, <3>3, <3>4 DEF StraightInv, CompleteSignIn
    <2> QED
      BY <2>2, <2>3
  <1>10. CASE Answered(t)
    <2>1. PICK x : /\ tab' = [tab EXCEPT ![t] = x]
                   /\ \/ x = Settled(t, "failed")
                      \/ \E v : x = [Settled(t, "signed-in") EXCEPT !.user = v]
      BY <1>10 DEF Answered
    <2>2. x.page = "app" /\ x.leaving = {} /\ x.shows # "elsewhere"
      BY <2>1 DEF Settled, HomeTab, ClosedTab
    <2> QED
      BY <1>2, <2>1, <2>2
  <1> QED
    BY <1>4, <1>5, <1>6, <1>7, <1>8, <1>9, <1>10

\* Every step keeps all tabs on the straight path, or they stray.
LEMMA StraightStep ==
    ASSUME TypeOK, ~StrictMode, \A t \in Tab : StraightInv(t), [Next]_vars
    PROVE  \A t \in Tab : StraightInv(t)'
  <1>0. tab \in [Tab -> TabState] /\ store \in [Tab -> Attempt \cup {None}]
    BY DEF TypeOK
  <1> SUFFICES ASSUME NEW s \in Tab
               PROVE  StraightInv(s)'
    OBVIOUS
  <1>1. CASE Exchange \/ Verify
    BY <1>1, AwaitedKept, StraightKept DEF Exchange, Verify
  <1>2. ASSUME NEW t \in Tab,
               \/ OpenTab(t) \/ BeginSignIn(t) \/ Assign(t) \/ Depart(t) \/ Decline(t)
               \/ \E p \in Person : IssueCode(t, p)
               \/ CompleteSignIn(t) \/ Answered(t)
        PROVE  StraightInv(s)'
    <2>1. CASE s = t
      BY <1>2, <2>1, StraightTab
    <2>2. CASE s # t
      <3>1. tab'[s] = tab[s]
        BY <1>0, <1>2, <2>2
        DEF OpenTab, BeginSignIn, Assign, Depart, Decline, IssueCode, Return, CompleteSignIn,
            Answered
      <3>2. store'[s] = store[s]
        BY <1>0, <1>2, <2>2
        DEF OpenTab, BeginSignIn, Assign, Depart, Decline, IssueCode, CompleteSignIn, Answered,
            Stored
      <3>3. strayed \subseteq strayed'
        BY <1>2
        DEF OpenTab, BeginSignIn, Assign, Depart, Decline, IssueCode, CompleteSignIn, Answered
      <3>4. UNCHANGED posts \/ CompleteSignIn(t) \/ Answered(t)
        BY <1>2 DEF OpenTab, BeginSignIn, Assign, Depart, Decline, IssueCode, Server
      <3>5. Awaited(s)' = {} => Awaited(s) = {}
        BY <2>2, <3>4, AwaitedKept
      <3> QED
        BY <3>1, <3>2, <3>3, <3>5, StraightKept
    <2> QED
      BY <2>1, <2>2
  <1>3. ASSUME NEW t \in Tab, Reload(t)
        PROVE  StraightInv(s)'
    <2>1. CASE s = t
      BY <1>3, <2>1, StrayedIsFree DEF Reload
    <2>2. CASE s # t
      BY <1>3, <2>2, AwaitedKept, StraightKept DEF Reload
    <2> QED
      BY <2>1, <2>2
  <1>4. ASSUME NEW t \in Tab, Browse(t) \/ \E u \in Tab : Paste(t, u)
        PROVE  StraightInv(s)'
    <2>1. CASE s = t
      BY <1>4, <2>1, StrayedIsFree DEF Browse, Paste
    <2>2. CASE s # t
      <3>1. tab'[s] = tab[s] /\ UNCHANGED <<store, posts>> /\ strayed \subseteq strayed'
        BY <1>0, <1>4, <2>2 DEF Browse, Paste, Server
      <3> QED
        BY <3>1, AwaitedKept, StraightKept
    <2> QED
      BY <2>1, <2>2
  <1>5. ASSUME NEW t \in Tab, NEW u \in Tab, Duplicate(t, u)
        PROVE  StraightInv(s)'
    <2>1. CASE s = u
      BY <1>5, <2>1, StrayedIsFree DEF Duplicate
    <2>2. CASE s # u
      <3>1. tab'[s] = tab[s] /\ store'[s] = store[s] /\ UNCHANGED posts
            /\ strayed \subseteq strayed'
        BY <1>0, <1>5, <2>2 DEF Duplicate, Server
      <3> QED
        BY <3>1, AwaitedKept, StraightKept
    <2> QED
      BY <2>1, <2>2
  <1>6. CASE UNCHANGED vars
    BY <1>6, AwaitedKept, StraightKept DEF vars
  <1> QED
    BY <1>1, <1>2, <1>3, <1>4, <1>5, <1>6 DEF Next

-----------------------------------------------------------------------------
(* The invariant, and what follows from it. *)

\* One tab that shows the app, nothing stored and nothing issued.
LEMMA InvInit == Init => IInv
  <1> SUFFICES ASSUME Init
               PROVE  IInv
    OBVIOUS
  <1>1. PICK t \in Tab : tab = [[u \in Tab |-> ClosedTab] EXCEPT ![t] = HomeTab]
    BY DEF Init
  <1>2. ClosedTab \in TabState /\ HomeTab \in TabState
    BY DEF ClosedTab, HomeTab, TabState
  <1>3. TypeOK
    BY <1>1, <1>2, SignInAssumption DEF Init, TypeOK, NoGrant
  <1>4. /\ ClosedTab.page = "closed" /\ HomeTab.page = "app"
        /\ ClosedTab.code = None /\ HomeTab.code = None
        /\ ClosedTab.leaving = {} /\ HomeTab.leaving = {}
        /\ ClosedTab.shows = "loading" /\ HomeTab.shows = "signed-out"
    BY DEF ClosedTab, HomeTab
  <1>5. \A u \in Tab : tab[u] \in {ClosedTab, HomeTab}
    BY <1>1
  <1>6. \A u \in Tab : UrlInv(u)
    BY <1>4, <1>5 DEF UrlInv
  <1>7. \A u \in Tab : StraightInv(u)
    BY <1>4, <1>5 DEF StraightInv
  <1>8. ServerInv
    BY DEF Init, ServerInv, IssuedForItsAttempt, OneSessionPerCode
  <1> QED
    BY <1>3, <1>6, <1>7, <1>8 DEF IInv

\* Every reachable state of the tabs, the provider and the server satisfies the
\* invariant, whatever detours the user takes.
THEOREM Invariance == Spec => []IInv
  <1>1. IInv /\ [Next]_vars => IInv'
    BY TypeStep, UrlStep, ServerStep, StraightStep DEF IInv
  <1> QED
    BY <1>1, InvInit, PTL DEF Spec

\* Tabs, grants, calls and sessions keep their types.
THEOREM TypeCorrect == Spec => []TypeOK
  <1>1. IInv => TypeOK
    BY DEF IInv
  <1> QED
    BY <1>1, Invariance, PTL

\* Every session belongs to a person who authorised the attempt it was issued
\* for, whichever token the provider answered with.
THEOREM AttemptAuthorised == Spec => []IssuedForItsAttempt
  <1>1. IInv => IssuedForItsAttempt
    BY DEF IInv, ServerInv
  <1> QED
    BY <1>1, Invariance, PTL

\* completeSignIn posts a code only with the pending login it was given out for.
THEOREM CodesMeetAttempts == Spec => []CodeMeetsItsAttempt
  <1>1. IInv => CodeMeetsItsAttempt
    BY DEF IInv, ServerInv, PostInv, CodeMeetsItsAttempt
  <1> QED
    BY <1>1, Invariance, PTL

\* A code is good for one session, from however many tabs it is posted.
THEOREM CodesAreSingleUse == Spec => []OneSessionPerCode
  <1>1. IInv => OneSessionPerCode
    BY DEF IInv, ServerInv
  <1> QED
    BY <1>1, Invariance, PTL

\* Where effects run once, somebody who clicked once and came straight back is
\* never told that the sign-in started in another tab.
THEOREM StraightPath ==
    ASSUME ~StrictMode
    PROVE  Spec => []StraightPathIsKnown
  <1>1. IInv => StraightPathIsKnown
    BY DEF IInv, StraightInv, StraightPathIsKnown
  <1> QED
    BY <1>1, Invariance, PTL
=============================================================================
