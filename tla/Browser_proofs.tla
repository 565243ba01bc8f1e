--------------------------- MODULE Browser_proofs ---------------------------
(***************************************************************************)
(* Proofs about Browser, for any number of tabs, families and page loads.  *)
(* Nothing here bounds how many calls are lost, delayed or handled late:   *)
(* each theorem names the conditions, of Locks, Lossy and Faulty, that it   *)
(* needs.                                                                  *)
(***************************************************************************)
EXTENDS Browser, TLAPS

-----------------------------------------------------------------------------
(* The inductive invariant. *)

\* A family that has not begun is not revoked.
NotBegunNotDead == \A f \in Family : fam[f].tip = 0 => ~fam[f].dead

\* Whatever token the browser holds, the server has issued.
Known(x) == x # None => x[2] <= fam[x[1]].tip

TokensKnown ==
    /\ Known(jar)
    /\ \A t \in Tab : /\ Known(call[t].tok)
                      /\ \A x \in call[t].cookie : Known(x)
    /\ \A g \in ghosts : Known(g[2])

\* A call and the tab that waits for it.
CallInv(t) ==
    /\ call[t].stage = "none" <=> call[t].kind = "none"
    /\ call[t].stage # "answered" => call[t].cookie = {} /\ call[t].status = "none"
    /\ call[t].stage = "answered" => call[t].status # "none"
    /\ \A x, y \in call[t].cookie : x = y
    /\ call[t].kind = "refresh" <=> tab[t].pc \in {"first", "second"}
    /\ call[t].kind = "signout" => call[t].cookie \subseteq {None}

\* The session that a sign-in was answered with is known to nobody else.
Apart(t) ==
    call[t].kind = "signin" =>
       \A x \in call[t].cookie \ {None} :
          /\ x[1] \notin FamilyOf(jar)
          /\ \A u \in Tab \ {t} :
                /\ x[1] \notin FamilyOf(call[u].tok)
                /\ \A y \in call[u].cookie : x[1] \notin FamilyOf(y)

\* The browser was given no cookie of a family that has not begun.
StoredBegun == \A f \in stored : fam[f].tip # 0

\* Without losses, nothing was lost.
Lossless == ~Lossy => ghosts = {} /\ lost = {}

\* Without a failing database, what was signed out of is revoked.
EndedAreDead == ~Faulty => \A f \in ended : fam[f].dead

\* The lock is exclusive.
OneRefreshes ==
    \A t, u \in Tab : tab[t].pc \in Refreshing /\ tab[u].pc \in Refreshing => t = u

\* A token of a live family of which no answer was lost is the last one.
Current(x) ==
    x # None /\ ~fam[x[1]].dead /\ x[1] \notin lost => x[2] = fam[x[1]].tip

\* An answer that replaces the token in the jar is on its way.
Replaced == \E t \in Tab : /\ call[t].kind = "refresh" /\ call[t].cookie # {}
                           /\ FamilyOf(call[t].tok) = FamilyOf(jar)

\* What the lock is for: whoever refreshes sends the last token.
LockInv ==
    /\ OneRefreshes
    /\ Current(jar) \/ Replaced
    /\ \A t \in Tab : call[t].kind = "refresh" /\ call[t].stage = "sent" => Current(call[t].tok)
    /\ \A t \in Tab : \A x \in call[t].cookie : Current(x)
    /\ \A g \in ghosts : g[1] = "refresh" => FamilyOf(g[2]) \subseteq lost
    /\ ReuseNeedsLoss

\* The jar and every call that is under way are of this family alone.
Beholden(f) ==
    /\ FamilyOf(jar) = {f}
    /\ \A t \in Tab : call[t].stage # "none" =>
          /\ FamilyOf(call[t].tok) = {f}
          /\ \A x \in call[t].cookie : FamilyOf(x) = {f}

\* Why a session is kept: nothing under way could take its cookie away.
KeptInv == \A f \in stored \ overtaken : ~fam[f].dead => Beholden(f)

\* Without losses and failures, a refusal of the last token is final, and the
\* family of that token is the one the browser holds.
RefusedInv(t) ==
    /\ call[t].kind = "refresh" => call[t].status # "failed"
    /\ call[t].kind = "refresh" /\ call[t].status = "refused" =>
          \A f \in FamilyOf(call[t].tok) : fam[f].dead
    /\ tab[t].pc \in {"first", "second"} =>
          \A f \in tab[t].held \ overtaken : fam[f].dead \/ f \in FamilyOf(call[t].tok)
    /\ \A f \in tab[t].refused \ overtaken : fam[f].dead

\* What holds whatever may fail.
Core ==
    /\ NotBegunNotDead
    /\ TokensKnown
    /\ \A t \in Tab : CallInv(t)
    /\ \A t \in Tab : Apart(t)
    /\ StoredBegun
    /\ Lossless
    /\ EndedAreDead

IInv ==
    /\ TypeOK
    /\ Core
    /\ Locks => LockInv
    /\ ~Faulty => KeptInv
    /\ Locks /\ ~Lossy /\ ~Faulty => \A t \in Tab : RefusedInv(t)

-----------------------------------------------------------------------------
(* The server. *)

\* What handling a call can do to a family: nothing that shows, begin it,
\* extend it or revoke it, and each only for a reason.
FamilyEffect(f, kind, tok, o) ==
    /\ fam[f].dead => o.fam[f].dead
    /\ \/ o.fam[f].tip = fam[f].tip
       \/ /\ kind = "signin"
          /\ fam[f].tip = 0 /\ o.fam[f].tip = 1 /\ ~o.fam[f].dead
       \/ /\ kind = "refresh" /\ o.cookie # {}
          /\ tok # None /\ tok[1] = f /\ tok[2] = fam[f].tip
          /\ o.fam[f].tip = fam[f].tip + 1 /\ ~o.fam[f].dead
    /\ o.fam[f].dead /\ ~fam[f].dead =>
          /\ tok # None /\ tok[1] = f
          /\ f \in o.ends \/ (kind = "refresh" /\ tok[2] < fam[f].tip)

\* The whole of it, for a token the server has issued.
Effect(kind, tok, o) ==
    /\ o.fam \in [Family -> FamilyState]
    /\ o.status \in {"ok", "refused", "failed"}
    /\ o.cookie \subseteq Token \cup {None}
    /\ \A x, y \in o.cookie : x = y
    /\ o.ends \subseteq FamilyOf(tok)
    /\ \A f \in Family : FamilyEffect(f, kind, tok, o)
    /\ ~Faulty => \A f \in o.ends : o.fam[f].dead
    /\ \A x \in o.cookie \ {None} :
          \/ /\ kind = "refresh" /\ tok # None
             /\ x[1] = tok[1] /\ x[2] = o.fam[x[1]].tip
          \/ /\ kind = "signin"
             /\ fam[x[1]].tip = 0 /\ x[2] = 1 /\ o.fam[x[1]].tip = 1
    /\ ~Faulty /\ tok # None /\ (None \in o.cookie \/ (kind = "signin" /\ o.cookie # {})) =>
          o.fam[tok[1]].dead
    /\ kind = "refresh" /\ ~Faulty =>
          /\ o.status # "failed"
          /\ o.status = "refused" /\ tok # None /\ tok[2] = fam[tok[1]].tip =>
                o.fam[tok[1]].dead

\* Revoking the family of a token, or none.
LEMMA RevokedFacts ==
    ASSUME TypeOK, NEW tok \in Token \cup {None}
    PROVE  /\ Revoked(tok) \in [Family -> FamilyState]
           /\ \A f \in Family : /\ Revoked(tok)[f].tip = fam[f].tip
                                /\ fam[f].dead => Revoked(tok)[f].dead
                                /\ f \in FamilyOf(tok) => Revoked(tok)[f].dead
                                /\ f \notin FamilyOf(tok) => Revoked(tok)[f] = fam[f]
           /\ FamilyOf(tok) \subseteq Family
  <1>1. fam \in [Family -> FamilyState]
    BY DEF TypeOK
  <1>2. CASE tok = None
    BY <1>1, <1>2 DEF Revoked, FamilyOf
  <1>3. CASE tok # None
    <2>1. tok \in Token /\ tok[1] \in Family
      BY <1>3 DEF Token
    <2>2. /\ Revoked(tok) = [fam EXCEPT ![tok[1]] = [fam[tok[1]] EXCEPT !.dead = TRUE]]
          /\ FamilyOf(tok) = {tok[1]}
      BY <1>3 DEF Revoked, Killed, FamilyOf
    <2>3. fam[tok[1]] \in FamilyState
      BY <1>1, <2>1
    <2>4. /\ [fam[tok[1]] EXCEPT !.dead = TRUE] \in FamilyState
          /\ [fam[tok[1]] EXCEPT !.dead = TRUE].tip = fam[tok[1]].tip
          /\ [fam[tok[1]] EXCEPT !.dead = TRUE].dead = TRUE
      BY <2>3 DEF FamilyState
    <2>5. Revoked(tok) \in [Family -> FamilyState]
      BY <1>1, <2>1, <2>2, <2>4
    <2>6. Revoked(tok)[tok[1]] = [fam[tok[1]] EXCEPT !.dead = TRUE]
      BY <1>1, <2>1, <2>2
    <2>7. \A f \in Family \ {tok[1]} : Revoked(tok)[f] = fam[f]
      BY <1>1, <2>1, <2>2
    <2> QED
      BY <2>1, <2>2, <2>4, <2>5, <2>6, <2>7
  <1> QED
    BY <1>2, <1>3

\* AuthLogout.
LEMMA LogoutEffect ==
    ASSUME TypeOK, NEW tok \in Token \cup {None}, NEW o \in LogoutOutcomes(tok)
    PROVE  Effect("signout", tok, o)
  <1>1. fam \in [Family -> FamilyState]
    BY DEF TypeOK
  <1>2. CASE o = Outcome(Revoked(tok), "ok", {None}, FamilyOf(tok))
    <2>1. o.fam = Revoked(tok) /\ o.status = "ok" /\ o.cookie = {None} /\ o.ends = FamilyOf(tok)
      BY <1>2 DEF Outcome
    <2>2. \A f \in Family : FamilyEffect(f, "signout", tok, o)
      BY <2>1, RevokedFacts DEF FamilyEffect, FamilyOf
    <2>3. tok # None => o.fam[tok[1]].dead
      BY <2>1, RevokedFacts DEF FamilyOf
    <2> QED
      BY <2>1, <2>2, <2>3, RevokedFacts DEF Effect
  <1>3. CASE Faulty /\ o = Outcome(fam, "ok", {None}, FamilyOf(tok))
    <2>1. o.fam = fam /\ o.status = "ok" /\ o.cookie = {None} /\ o.ends = FamilyOf(tok)
      BY <1>3 DEF Outcome
    <2>2. \A f \in Family : FamilyEffect(f, "signout", tok, o)
      BY <2>1 DEF FamilyEffect
    <2> QED
      BY <1>1, <1>3, <2>1, <2>2 DEF Effect
  <1> QED
    BY <1>2, <1>3 DEF LogoutOutcomes

\* AuthCallback.
LEMMA CallbackEffect ==
    ASSUME TypeOK, NotBegunNotDead, NEW tok \in Token \cup {None}, Known(tok),
           NEW o \in CallbackOutcomes(tok)
    PROVE  Effect("signin", tok, o)
  <1>1. fam \in [Family -> FamilyState]
    BY DEF TypeOK
  <1>2. ASSUME NEW g \in Spare, NEW cookie \in {{}, {<<g, 1>>}}, NEW status \in {"ok", "failed"},
               o = Outcome([Revoked(tok) EXCEPT ![g].tip = 1], status, cookie, FamilyOf(tok))
        PROVE  Effect("signin", tok, o)
    <2>1. /\ o.fam = [Revoked(tok) EXCEPT ![g] = [Revoked(tok)[g] EXCEPT !.tip = 1]]
          /\ o.status = status /\ o.cookie = cookie /\ o.ends = FamilyOf(tok)
      BY <1>2 DEF Outcome
    <2>2. g \in Family /\ fam[g].tip = 0 /\ ~fam[g].dead
      BY DEF Spare, NotBegunNotDead
    <2>3. g \notin FamilyOf(tok)
      BY <1>1, <2>2 DEF Known, FamilyOf, Token, FamilyState
    <2>4. Revoked(tok)[g] = fam[g] /\ fam[g] \in FamilyState
      BY <1>1, <2>2, <2>3, RevokedFacts
    <2>5. /\ o.fam[g] = [fam[g] EXCEPT !.tip = 1]
          /\ \A f \in Family \ {g} : o.fam[f] = Revoked(tok)[f]
          /\ DOMAIN o.fam = Family
      BY <2>1, <2>2, <2>4, RevokedFacts
    <2>6. o.fam[g] \in FamilyState /\ o.fam[g].tip = 1 /\ o.fam[g].dead = fam[g].dead
      BY <2>4, <2>5 DEF FamilyState
    <2>7. o.fam \in [Family -> FamilyState]
      BY <2>1, <2>2, <2>5, <2>6, RevokedFacts
    <2>8. ASSUME NEW f \in Family
          PROVE  FamilyEffect(f, "signin", tok, o)
      <3>1. CASE f = g
        BY <2>2, <2>6, <3>1 DEF FamilyEffect
      <3>2. CASE f # g
        BY <2>1, <2>5, <3>2, RevokedFacts DEF FamilyEffect, FamilyOf
      <3> QED
        BY <3>1, <3>2
    <2>9. \A f \in o.ends : o.fam[f].dead
      BY <2>1, <2>3, <2>5, RevokedFacts
    <2>10. \A x \in o.cookie : x[1] = g /\ x[2] = 1 /\ x \in Token
      BY <2>1, <2>2 DEF Token
    <2>11. \A x, y \in o.cookie : x = y
      BY <2>1
    <2>12. tok # None => o.fam[tok[1]].dead
      BY <2>1, <2>9 DEF FamilyOf
    <2> QED
      BY <2>1, <2>2, <2>6, <2>7, <2>8, <2>9, <2>10, <2>11, <2>12 DEF Effect
  <1>3. ASSUME NEW status \in {"refused", "failed"}, o = Outcome(fam, status, {}, {})
        PROVE  Effect("signin", tok, o)
    <2>1. o.fam = fam /\ o.status = status /\ o.cookie = {} /\ o.ends = {}
      BY <1>3 DEF Outcome
    <2>2. \A f \in Family : FamilyEffect(f, "signin", tok, o)
      BY <2>1 DEF FamilyEffect
    <2> QED
      BY <1>1, <2>1, <2>2 DEF Effect
  <1>4. CASE o = Outcome(Revoked(tok), "failed", {}, FamilyOf(tok))
    <2>1. o.fam = Revoked(tok) /\ o.status = "failed" /\ o.cookie = {} /\ o.ends = FamilyOf(tok)
      BY <1>4 DEF Outcome
    <2>2. \A f \in Family : FamilyEffect(f, "signin", tok, o)
      BY <2>1, RevokedFacts DEF FamilyEffect, FamilyOf
    <2> QED
      BY <2>1, <2>2, RevokedFacts DEF Effect
  <1>5. \/ \E g \in Spare :
              \/ o = Outcome([Revoked(tok) EXCEPT ![g].tip = 1], "ok", {<<g, 1>>}, FamilyOf(tok))
              \/ o = Outcome([Revoked(tok) EXCEPT ![g].tip = 1], "failed", {}, FamilyOf(tok))
        \/ o = Outcome(fam, "refused", {}, {})
        \/ o = Outcome(fam, "failed", {}, {})
        \/ o = Outcome(Revoked(tok), "failed", {}, FamilyOf(tok))
    BY DEF CallbackOutcomes
  <1> QED
    BY <1>2, <1>3, <1>4, <1>5

\* AuthRefresh.
LEMMA RefreshEffect ==
    ASSUME TypeOK, NotBegunNotDead, NEW tok \in Token \cup {None}, Known(tok),
           NEW o \in RefreshOutcomes(tok)
    PROVE  Effect("refresh", tok, o)
  <1>1. fam \in [Family -> FamilyState]
    BY DEF TypeOK
  <1>2. ASSUME NEW cookie \in {{}, {None}}, o = Outcome(fam, "refused", cookie, {}),
               \/ Faulty \/ tok = None \/ fam[tok[1]].dead
               \/ tok[2] # fam[tok[1]].tip /\ cookie = {}
        PROVE  Effect("refresh", tok, o)
    <2>1. o.fam = fam /\ o.status = "refused" /\ o.cookie = cookie /\ o.ends = {}
      BY <1>2 DEF Outcome
    <2>2. \A f \in Family : FamilyEffect(f, "refresh", tok, o)
      BY <2>1 DEF FamilyEffect
    <2> QED
      BY <1>1, <1>2, <2>1, <2>2 DEF Effect
  <1>3. CASE tok = None
    <2>1. o = Outcome(fam, "refused", {}, {})
      BY <1>3 DEF RefreshOutcomes
    <2> QED
      BY <1>2, <1>3, <2>1
  <1>4. CASE tok # None
    <2>1. PICK f, n : f = tok[1] /\ n = tok[2]
      OBVIOUS
    <2>2. f \in Family /\ n \in Nat \ {0} /\ n <= fam[f].tip
      BY <1>4, <2>1 DEF Token, Known
    <2>3. /\ fam[f] \in FamilyState /\ fam[f].tip \in Nat /\ fam[f].dead \in BOOLEAN
          /\ fam[f].tip # 0
      BY <1>1, <2>2 DEF FamilyState
    <2>4. CASE /\ ~(n < fam[f].tip) /\ Live(f)
               /\ \/ o = Outcome([fam EXCEPT ![f].tip = n + 1, ![f].fresh = TRUE], "ok", {<<f, n + 1>>}, {})
                  \/ /\ Faulty
                     /\ o = Outcome([fam EXCEPT ![f].tip = n + 1, ![f].fresh = TRUE], "failed", {<<f, n + 1>>}, {})
                  \/ /\ Faulty
                     /\ o = Outcome([fam EXCEPT ![f].tip = n + 1, ![f].fresh = TRUE], "refused", {None}, {})
      <3>1. n = fam[f].tip /\ ~fam[f].dead
        BY <2>2, <2>3, <2>4 DEF Live
      <3>2. /\ o.fam = [fam EXCEPT ![f].tip = n + 1, ![f].fresh = TRUE]
            /\ o.cookie \in {{<<f, n + 1>>}, {None}} /\ o.ends = {}
            /\ o.status \in {"ok", "failed", "refused"}
            /\ ~Faulty => o.status = "ok"
        BY <2>4 DEF Outcome
      <3>3. /\ o.fam[f] = [fam[f] EXCEPT !.tip = n + 1, !.fresh = TRUE]
            /\ \A g \in Family \ {f} : o.fam[g] = fam[g]
        BY <1>1, <2>2, <3>2
      <3>4. /\ o.fam[f] \in FamilyState
            /\ o.fam[f].tip = n + 1 /\ o.fam[f].dead = fam[f].dead
        <4>1. PICK m : m = [fam[f] EXCEPT !.tip = n + 1]
          OBVIOUS
        <4>2. m \in FamilyState /\ m.tip = n + 1 /\ m.dead = fam[f].dead
          BY <2>2, <2>3, <4>1 DEF FamilyState
        <4>3. o.fam[f] = [m EXCEPT !.fresh = TRUE]
          BY <3>3, <4>1
        <4> QED
          BY <4>2, <4>3 DEF FamilyState
      <3>5. o.fam \in [Family -> FamilyState]
        BY <1>1, <2>2, <3>2, <3>3, <3>4
      <3>6. ASSUME NEW g \in Family
            PROVE  FamilyEffect(g, "refresh", tok, o)
        <4>1. CASE g = f
          <5>1. o.cookie # {}
            BY <3>2
          <5> QED
            BY <1>4, <2>1, <3>1, <3>4, <4>1, <5>1 DEF FamilyEffect
        <4>2. CASE g # f
          BY <3>3, <4>2 DEF FamilyEffect
        <4> QED
          BY <4>1, <4>2
      <3>7. \A x \in o.cookie \ {None} : x[1] = f /\ x[2] = n + 1 /\ x \in Token
        BY <2>2, <3>2 DEF Token
      <3>8. \A x, y \in o.cookie : x = y
        BY <3>2
      <3>9. ~Faulty => None \notin o.cookie
        <4>1. ~Faulty => o.cookie = {<<f, n + 1>>}
          BY <2>4 DEF Outcome
        <4>2. <<f, n + 1>> # None
          BY <2>2, BrowserAssumption
        <4> QED
          BY <4>1, <4>2
      <3> QED
        BY <1>4, <2>1, <3>2, <3>4, <3>5, <3>6, <3>7, <3>8, <3>9 DEF Effect
    <2>5. CASE n < fam[f].tip /\ o = Outcome(Killed(f), "refused", {None}, {})
      <3>1. o.fam = Revoked(tok) /\ o.status = "refused" /\ o.cookie = {None} /\ o.ends = {}
        BY <1>4, <2>1, <2>5 DEF Outcome, Revoked
      <3>2. \A g \in Family : FamilyEffect(g, "refresh", tok, o)
        BY <1>4, <2>1, <2>5, <3>1, RevokedFacts DEF FamilyEffect, FamilyOf
      <3>3. o.fam[tok[1]].dead
        BY <1>4, <2>1, <2>2, <3>1, RevokedFacts DEF FamilyOf
      <3> QED
        BY <3>1, <3>2, <3>3, RevokedFacts DEF Effect
    <2>6. CASE n + 1 = fam[f].tip /\ o = Outcome(fam, "refused", {}, {})
      BY <1>2, <2>1, <2>2, <2>3, <2>6
    <2>7. CASE /\ Faulty \/ (~(n < fam[f].tip) /\ ~Live(f))
               /\ o = Outcome(fam, "refused", {None}, {})
      BY <1>2, <2>1, <2>3, <2>7 DEF Live
    <2> QED
      BY <1>4, <2>1, <2>4, <2>5, <2>6, <2>7 DEF RefreshOutcomes
  <1> QED
    BY <1>3, <1>4

\* Any handler.
LEMMA OutcomeEffect ==
    ASSUME TypeOK, NotBegunNotDead, NEW kind \in Kind, NEW tok \in Token \cup {None},
           Known(tok), NEW o \in Outcomes(kind, tok)
    PROVE  Effect(kind, tok, o)
  <1>1. CASE kind = "refresh"
    BY <1>1, RefreshEffect DEF Outcomes
  <1>2. CASE kind = "signin"
    BY <1>2, CallbackEffect DEF Outcomes
  <1>3. CASE kind = "signout"
    BY <1>3, LogoutEffect DEF Outcomes
  <1> QED
    BY <1>1, <1>2, <1>3 DEF Kind

-----------------------------------------------------------------------------
(* What the actions do to calls and tabs, field by field. *)

\* A step of tab t leaves the other tabs and their calls alone.
Others(t) == \A u \in Tab \ {t} : call'[u] = call[u] /\ tab'[u] = tab[u]

\* The tab goes on without a call: Load, LoadMe.
Moves(t) ==
    /\ Others(t) /\ call' = call
    /\ tab[t].pc \notin Refreshing /\ tab'[t].pc \notin Refreshing
    /\ tab'[t].refused \in {tab[t].refused, {}}
    /\ UNCHANGED <<fam, jar, ghosts, ended, lost, History>>

\* The tab makes a call: AcquireLock, Retry, SignIn, SignOut.
Sends(t, kind) ==
    /\ Others(t)
    /\ call'[t].stage = "sent" /\ call'[t].kind = kind /\ call'[t].tok = jar
    /\ call'[t].status = "none" /\ call'[t].cookie = {}
    /\ tab'[t].refused \in {tab[t].refused, {}}
    /\ kind = "refresh" => tab'[t].held = Held
    /\ \/ /\ kind = "refresh" /\ tab[t].pc = "queued" /\ tab'[t].pc = "first"
          /\ Locks => \A u \in Tab : tab[u].pc \notin Refreshing
       \/ /\ kind = "refresh" /\ tab[t].pc = "pause" /\ tab'[t].pc = "second"
       \/ /\ kind # "refresh" /\ tab[t].pc = "rest" /\ tab'[t].pc \in {"signin", "signout"}
    /\ UNCHANGED <<fam, jar, ghosts, ended, lost, History>>

\* The server handles the tab's call.
Handles(t, o) ==
    /\ \A u \in Tab \ {t} : call'[u] = call[u]
    /\ call[t].stage = "sent" /\ call[t].kind \in Kind
    /\ call'[t].stage = "answered" /\ call'[t].kind = call[t].kind
    /\ call'[t].tok = call[t].tok
    /\ call'[t].status = o.status /\ call'[t].cookie = o.cookie
    /\ fam' = o.fam /\ ended' = ended \cup o.ends
    /\ UNCHANGED <<jar, tab, ghosts, lost, History>>

\* The call is over for the tab.
Drops(t) ==
    /\ Others(t)
    /\ call'[t].stage = "none" /\ call'[t].kind = "none" /\ call'[t].tok = None
    /\ call'[t].status = "none" /\ call'[t].cookie = {}

\* What the browser is given with it.
Learns(t) ==
    /\ stored \subseteq stored' /\ overtaken \subseteq overtaken'
    /\ \A f \in stored' \ stored :
          /\ \E x \in call[t].cookie : f \in FamilyOf(x)
          /\ f \in overtaken' \/ \A u \in Tab \ {t} : call[u].stage = "none"

\* The answer arrives: RefreshAnswered, SignInAnswered, SignOutAnswered.
Hears(t) ==
    /\ Drops(t) /\ Learns(t) /\ call[t].stage = "answered"
    /\ call[t].cookie = {} => jar' = jar
    /\ call[t].cookie # {} => jar' \in call[t].cookie
    /\ \/ /\ call[t].kind = "refresh" /\ call[t].status = "refused"
          /\ tab[t].pc = "first" /\ tab'[t].pc = "pause"
          /\ tab'[t].refused = tab[t].refused
       \/ /\ call[t].kind = "refresh" /\ tab'[t].pc = "rest"
          /\ call[t].status # "ok" /\ ~(call[t].status = "refused" /\ tab[t].pc = "first")
          /\ tab'[t].refused = tab[t].held
       \/ /\ tab'[t].pc \in {"me", "rest"} /\ tab'[t].refused = tab[t].refused
    /\ UNCHANGED <<fam, ghosts, ended, lost>>

\* The call is given up: Unreachable, Reload, CallLost.
Abandons(t) ==
    /\ Drops(t) /\ Lossy
    /\ tab'[t].pc \in {"rest", "queued"}
    /\ \/ ghosts' = ghosts
       \/ /\ call[t].stage = "sent"
          /\ ghosts' = ghosts \cup {<<call[t].kind, call[t].tok>>}
    /\ lost' = IF call[t].kind = "refresh" THEN lost \cup FamilyOf(call[t].tok) ELSE lost
    /\ UNCHANGED <<fam, jar, ended, History>>

\* Sending a call.
LEMMA SendFacts ==
    ASSUME TypeOK, NEW t \in Tab, NEW kind \in Kind, call' = [call EXCEPT ![t] = Sent(kind)]
    PROVE  /\ call' \in [Tab -> CallState]
           /\ \A u \in Tab \ {t} : call'[u] = call[u]
           /\ call'[t].stage = "sent" /\ call'[t].kind = kind /\ call'[t].tok = jar
           /\ call'[t].status = "none" /\ call'[t].cookie = {}
  <1>1. call \in [Tab -> CallState] /\ jar \in Token \cup {None}
    BY DEF TypeOK
  <1>2. /\ Sent(kind).stage = "sent" /\ Sent(kind).kind = kind /\ Sent(kind).tok = jar
        /\ Sent(kind).status = "none" /\ Sent(kind).cookie = {}
    BY DEF Sent, NoCall
  <1>3. Sent(kind) \in CallState
    BY <1>1 DEF Sent, NoCall, CallState
  <1>4. /\ call' \in [Tab -> CallState] /\ call'[t] = Sent(kind)
        /\ \A u \in Tab \ {t} : call'[u] = call[u]
    BY <1>1, <1>3
  <1> QED
    BY <1>2, <1>4

\* Forgetting a call.
LEMMA DropFacts ==
    ASSUME TypeOK, NEW t \in Tab, call' = [call EXCEPT ![t] = NoCall]
    PROVE  /\ call' \in [Tab -> CallState]
           /\ \A u \in Tab \ {t} : call'[u] = call[u]
           /\ call'[t].stage = "none" /\ call'[t].kind = "none" /\ call'[t].tok = None
           /\ call'[t].status = "none" /\ call'[t].cookie = {}
  <1>1. call \in [Tab -> CallState]
    BY DEF TypeOK
  <1>2. NoCall \in CallState
    BY DEF CallState, NoCall
  <1> QED
    BY <1>1, <1>2 DEF NoCall

\* Load and LoadMe.
LEMMA MoveShape ==
    ASSUME TypeOK, NEW t \in Tab, Load(t) \/ LoadMe(t)
    PROVE  Moves(t) /\ TypeOK'
  <1>1. tab \in [Tab -> TabState] /\ tab[t] \in TabState /\ loads \in Nat
    BY DEF TypeOK
  <1>2. CASE Load(t)
    <2>1. LoadingTab \in TabState /\ LoadingTab.pc = "queued" /\ LoadingTab.refused = {}
      BY DEF LoadingTab, TabState, Pc
    <2>2. tab' = [tab EXCEPT ![t] = LoadingTab] /\ tab[t].pc = "rest" /\ loads' = loads + 1
      BY <1>2 DEF Load
    <2>3. tab' \in [Tab -> TabState] /\ tab'[t] = LoadingTab /\ \A u \in Tab \ {t} : tab'[u] = tab[u]
      BY <1>1, <2>1, <2>2
    <2>4. UNCHANGED <<fam, jar, call, ghosts, ended, lost, History>>
      BY <1>2 DEF Load
    <2> QED
      BY <1>1, <2>1, <2>2, <2>3, <2>4 DEF Moves, Others, TypeOK, Refreshing, History
  <1>3. CASE LoadMe(t)
    <2>1. tab[t].pc = "me" /\ UNCHANGED <<fam, jar, call, ghosts, loads, ended, lost, History>>
      BY <1>3 DEF LoadMe
    <2>2. PICK r : /\ tab' = [tab EXCEPT ![t] = r] /\ r \in TabState
                   /\ r.pc \in {"rest", "queued"} /\ r.refused = tab[t].refused
      <3>1. CASE tab' = [tab EXCEPT ![t].pc = "rest", ![t].ui = "signed-in", ![t].again = FALSE]
        <4>1. PICK r : r = [tab[t] EXCEPT !.pc = "rest", !.ui = "signed-in", !.again = FALSE]
          OBVIOUS
        <4>2. tab' = [tab EXCEPT ![t] = r]
          BY <1>1, <3>1, <4>1
        <4>3. r \in TabState /\ r.pc = "rest" /\ r.refused = tab[t].refused
          BY <1>1, <4>1 DEF TabState, Pc
        <4> QED
          BY <4>2, <4>3
      <3>2. CASE tab' = [tab EXCEPT ![t].pc = "queued", ![t].again = TRUE]
        <4>1. PICK r : r = [tab[t] EXCEPT !.pc = "queued", !.again = TRUE]
          OBVIOUS
        <4>2. tab' = [tab EXCEPT ![t] = r]
          BY <1>1, <3>2, <4>1
        <4>3. r \in TabState /\ r.pc = "queued" /\ r.refused = tab[t].refused
          BY <1>1, <4>1 DEF TabState, Pc
        <4> QED
          BY <4>2, <4>3
      <3>3. CASE tab' = [tab EXCEPT ![t].pc = "rest", ![t].ui = "signed-out", ![t].again = FALSE]
        <4>1. PICK r : r = [tab[t] EXCEPT !.pc = "rest", !.ui = "signed-out", !.again = FALSE]
          OBVIOUS
        <4>2. tab' = [tab EXCEPT ![t] = r]
          BY <1>1, <3>3, <4>1
        <4>3. r \in TabState /\ r.pc = "rest" /\ r.refused = tab[t].refused
          BY <1>1, <4>1 DEF TabState, Pc
        <4> QED
          BY <4>2, <4>3
      <3>4. CASE tab' = [tab EXCEPT ![t].pc = "rest", ![t].again = FALSE]
        <4>1. PICK r : r = [tab[t] EXCEPT !.pc = "rest", !.again = FALSE]
          OBVIOUS
        <4>2. tab' = [tab EXCEPT ![t] = r]
          BY <1>1, <3>4, <4>1
        <4>3. r \in TabState /\ r.pc = "rest" /\ r.refused = tab[t].refused
          BY <1>1, <4>1 DEF TabState, Pc
        <4> QED
          BY <4>2, <4>3
      <3> QED
        BY <1>3, <3>1, <3>2, <3>3, <3>4 DEF LoadMe
    <2>3. tab' \in [Tab -> TabState] /\ tab'[t] = r /\ \A u \in Tab \ {t} : tab'[u] = tab[u]
      BY <1>1, <2>2
    <2> QED
      BY <2>1, <2>2, <2>3 DEF Moves, Others, TypeOK, Refreshing, History
  <1> QED
    BY <1>2, <1>3

\* Replacing the record of one tab.
LEMMA TabFacts ==
    ASSUME TypeOK, NEW t \in Tab, NEW r \in TabState, tab' = [tab EXCEPT ![t] = r]
    PROVE  /\ tab' \in [Tab -> TabState] /\ tab'[t] = r
           /\ \A u \in Tab \ {t} : tab'[u] = tab[u]
  BY DEF TypeOK

\* AcquireLock, Retry, SignIn and SignOut.
LEMMA SendShape ==
    ASSUME TypeOK, NEW t \in Tab,
           AcquireLock(t) \/ Retry(t) \/ SignIn(t) \/ SignOut(t)
    PROVE  (\E kind \in Kind : Sends(t, kind)) /\ TypeOK'
  <1>1. /\ tab \in [Tab -> TabState] /\ tab[t] \in TabState
        /\ Held \subseteq Family
    BY DEF TypeOK, Held
  <1>2. UNCHANGED <<fam, jar, ghosts, loads, ended, lost, History>>
    BY DEF AcquireLock, Retry, SignIn, SignOut
  <1>3. /\ {"refresh", "signin", "signout"} = Kind
        /\ \A kind \in Kind : call' = [call EXCEPT ![t] = Sent(kind)] =>
              /\ call' \in [Tab -> CallState]
              /\ \A u \in Tab \ {t} : call'[u] = call[u]
              /\ call'[t].stage = "sent" /\ call'[t].kind = kind /\ call'[t].tok = jar
              /\ call'[t].status = "none" /\ call'[t].cookie = {}
    BY SendFacts DEF Kind
  <1>4. CASE AcquireLock(t)
    <2>1. PICK r : r = [tab[t] EXCEPT !.pc = "first", !.held = Held]
      OBVIOUS
    <2>2. /\ r \in TabState /\ r.pc = "first" /\ r.held = Held
          /\ r.refused = tab[t].refused
      BY <1>1, <2>1 DEF TabState, Pc, Refreshing
    <2>3. tab' = [tab EXCEPT ![t] = r]
      BY <1>1, <1>4, <2>1 DEF AcquireLock
    <2>4. /\ tab[t].pc = "queued" /\ (Locks => \A u \in Tab : tab[u].pc \notin Refreshing)
          /\ call' = [call EXCEPT ![t] = Sent("refresh")]
      BY <1>4 DEF AcquireLock
    <2>5. /\ tab' \in [Tab -> TabState] /\ tab'[t] = r
          /\ \A u \in Tab \ {t} : tab'[u] = tab[u]
      BY <2>2, <2>3, TabFacts
    <2>6. Sends(t, "refresh")
      BY <1>2, <1>3, <2>2, <2>4, <2>5 DEF Sends, Others
    <2> QED
      BY <1>2, <1>3, <2>4, <2>5, <2>6 DEF TypeOK, History
  <1>5. CASE Retry(t)
    <2>1. PICK r : r = [tab[t] EXCEPT !.pc = "second", !.held = Held]
      OBVIOUS
    <2>2. /\ r \in TabState /\ r.pc = "second" /\ r.held = Held
          /\ r.refused = tab[t].refused
      BY <1>1, <2>1 DEF TabState, Pc, Refreshing
    <2>3. /\ tab' = [tab EXCEPT ![t] = r] /\ tab[t].pc = "pause"
          /\ call' = [call EXCEPT ![t] = Sent("refresh")]
      BY <1>1, <1>5, <2>1 DEF Retry
    <2>4. /\ tab' \in [Tab -> TabState] /\ tab'[t] = r
          /\ \A u \in Tab \ {t} : tab'[u] = tab[u]
      BY <2>2, <2>3, TabFacts
    <2>5. Sends(t, "refresh")
      BY <1>2, <1>3, <2>2, <2>3, <2>4 DEF Sends, Others
    <2> QED
      BY <1>2, <1>3, <2>3, <2>4, <2>5 DEF TypeOK, History
  <1>6. CASE SignIn(t)
    <2>1. PICK r : r = [tab[t] EXCEPT !.pc = "signin", !.ui = "loading", !.refused = {}]
      OBVIOUS
    <2>2. r \in TabState /\ r.pc = "signin" /\ r.refused = {}
      BY <1>1, <2>1 DEF TabState, Pc
    <2>3. /\ tab' = [tab EXCEPT ![t] = r] /\ tab[t].pc = "rest"
          /\ call' = [call EXCEPT ![t] = Sent("signin")]
      BY <1>1, <1>6, <2>1 DEF SignIn
    <2>4. /\ tab' \in [Tab -> TabState] /\ tab'[t] = r
          /\ \A u \in Tab \ {t} : tab'[u] = tab[u]
      BY <2>2, <2>3, TabFacts
    <2>5. Sends(t, "signin")
      BY <1>2, <1>3, <2>2, <2>3, <2>4 DEF Sends, Others
    <2> QED
      BY <1>2, <1>3, <2>3, <2>4, <2>5 DEF TypeOK, History
  <1>7. CASE SignOut(t)
    <2>1. PICK r : r = [tab[t] EXCEPT !.pc = "signout", !.access = FALSE]
      OBVIOUS
    <2>2. r \in TabState /\ r.pc = "signout" /\ r.refused = tab[t].refused
      BY <1>1, <2>1 DEF TabState, Pc
    <2>3. /\ tab' = [tab EXCEPT ![t] = r] /\ tab[t].pc = "rest"
          /\ call' = [call EXCEPT ![t] = Sent("signout")]
      BY <1>1, <1>7, <2>1 DEF SignOut
    <2>4. /\ tab' \in [Tab -> TabState] /\ tab'[t] = r
          /\ \A u \in Tab \ {t} : tab'[u] = tab[u]
      BY <2>2, <2>3, TabFacts
    <2>5. Sends(t, "signout")
      BY <1>2, <1>3, <2>2, <2>3, <2>4 DEF Sends, Others
    <2> QED
      BY <1>2, <1>3, <2>3, <2>4, <2>5 DEF TypeOK, History
  <1> QED
    BY <1>4, <1>5, <1>6, <1>7

\* Handle.
LEMMA HandleShape ==
    ASSUME TypeOK, NotBegunNotDead, TokensKnown, NEW t \in Tab, CallInv(t), Handle(t)
    PROVE  TypeOK' /\ \E o : Effect(call[t].kind, call[t].tok, o) /\ Handles(t, o)
  <1>1. /\ call \in [Tab -> CallState] /\ call[t] \in CallState
        /\ call[t].stage = "sent"
    BY DEF TypeOK, Handle
  <1>2. call[t].kind \in Kind /\ call[t].tok \in Token \cup {None} /\ Known(call[t].tok)
    BY <1>1 DEF CallInv, CallState, TokensKnown
  <1>3. PICK o \in Outcomes(call[t].kind, call[t].tok) :
           /\ fam' = o.fam
           /\ ended' = ended \cup o.ends
           /\ call' = [call EXCEPT ![t].stage = "answered", ![t].status = o.status,
                                   ![t].cookie = o.cookie]
    BY DEF Handle
  <1>4. Effect(call[t].kind, call[t].tok, o)
    BY <1>2, OutcomeEffect
  <1>5. UNCHANGED <<jar, tab, ghosts, loads, lost, History>>
    BY DEF Handle
  <1>6. PICK c : c = [call[t] EXCEPT !.stage = "answered", !.status = o.status, !.cookie = o.cookie]
    OBVIOUS
  <1>7. /\ o.status \in {"ok", "refused", "failed"} /\ o.cookie \subseteq Token \cup {None}
        /\ o.fam \in [Family -> FamilyState] /\ o.ends \subseteq Family
    BY <1>2, <1>4, RevokedFacts DEF Effect
  <1>8. /\ c \in CallState /\ c.stage = "answered" /\ c.kind = call[t].kind
        /\ c.tok = call[t].tok /\ c.status = o.status /\ c.cookie = o.cookie
    BY <1>1, <1>6, <1>7 DEF CallState
  <1>9. call' = [call EXCEPT ![t] = c]
    BY <1>1, <1>3, <1>6
  <1>10. /\ call' \in [Tab -> CallState] /\ call'[t] = c
         /\ \A u \in Tab \ {t} : call'[u] = call[u]
    BY <1>1, <1>8, <1>9
  <1>11. TypeOK'
    BY <1>3, <1>5, <1>7, <1>10 DEF TypeOK, History
  <1>12. Handles(t, o)
    BY <1>1, <1>2, <1>3, <1>5, <1>8, <1>10 DEF Handles
  <1> QED
    BY <1>4, <1>11, <1>12

\* RefreshAnswered, SignInAnswered and SignOutAnswered.
LEMMA HearShape ==
    ASSUME TypeOK, NEW t \in Tab, Answer(t)
    PROVE  Hears(t) /\ TypeOK'
  <1>1. /\ tab \in [Tab -> TabState] /\ tab[t] \in TabState
        /\ call[t].cookie \subseteq Token \cup {None} /\ jar \in Token \cup {None}
    BY DEF TypeOK, CallState
  <1>2. /\ UNCHANGED <<fam, ghosts, loads, ended, lost>> /\ call[t].stage = "answered"
        /\ jar' = Applied(call[t].cookie) /\ call' = [call EXCEPT ![t] = NoCall]
    BY DEF Answer, RefreshAnswered, SignInAnswered, SignOutAnswered
  <1>3. /\ jar' \in Token \cup {None}
        /\ call[t].cookie = {} => jar' = jar
        /\ call[t].cookie # {} => jar' \in call[t].cookie
    BY <1>1, <1>2 DEF Applied
  <1>4. /\ call' \in [Tab -> CallState]
        /\ \A u \in Tab \ {t} : call'[u] = call[u]
        /\ call'[t].stage = "none" /\ call'[t].kind = "none" /\ call'[t].tok = None
        /\ call'[t].status = "none" /\ call'[t].cookie = {}
    BY <1>2, DropFacts
  <1>5. CASE RefreshAnswered(t)
    <2>1. call[t].kind = "refresh" /\ UNCHANGED History
      BY <1>5 DEF RefreshAnswered
    <2>learns. Learns(t) /\ stored' \subseteq Family /\ overtaken' \subseteq Family
      BY <2>1 DEF Learns, History, TypeOK
    <2>2. CASE /\ call[t].status = "refused" /\ tab[t].pc = "first"
               /\ tab' = [tab EXCEPT ![t].pc = "pause", ![t].held = {}]
      <3>1. PICK r : r = [tab[t] EXCEPT !.pc = "pause", !.held = {}]
        OBVIOUS
      <3>2. /\ r \in TabState /\ r.pc = "pause"
            /\ r.refused = tab[t].refused
        BY <1>1, <3>1 DEF TabState, Pc, Refreshing
      <3>3. tab' = [tab EXCEPT ![t] = r]
        BY <1>1, <2>2, <3>1
      <3>4. /\ tab' \in [Tab -> TabState] /\ tab'[t] = r
            /\ \A u \in Tab \ {t} : tab'[u] = tab[u]
        BY <3>2, <3>3, TabFacts
      <3>5. Hears(t)
        BY <1>2, <1>3, <1>4, <2>1, <2>2, <3>2, <2>learns, <3>4 DEF Hears, Drops, Others
      <3> QED
        BY <1>2, <1>3, <1>4, <2>learns, <3>4, <3>5 DEF TypeOK
    <2>3. CASE /\ call[t].status # "ok" /\ ~(call[t].status = "refused" /\ tab[t].pc = "first")
               /\ tab' = [tab EXCEPT ![t].pc = "rest", ![t].ui = "signed-out",
                                     ![t].access = FALSE, ![t].again = FALSE,
                                     ![t].held = {}, ![t].refused = tab[t].held]
      <3>1. PICK r : r = [tab[t] EXCEPT !.pc = "rest", !.ui = "signed-out", !.access = FALSE,
                              !.again = FALSE, !.held = {}, !.refused = tab[t].held]
        OBVIOUS
      <3>2. /\ r \in TabState /\ r.pc = "rest"
            /\ r.refused = tab[t].held
        BY <1>1, <3>1 DEF TabState, Pc, Refreshing
      <3>3. tab' = [tab EXCEPT ![t] = r]
        BY <1>1, <2>3, <3>1
      <3>4. /\ tab' \in [Tab -> TabState] /\ tab'[t] = r
            /\ \A u \in Tab \ {t} : tab'[u] = tab[u]
        BY <3>2, <3>3, TabFacts
      <3>5. Hears(t)
        BY <1>2, <1>3, <1>4, <2>1, <2>3, <3>2, <2>learns, <3>4 DEF Hears, Drops, Others
      <3> QED
        BY <1>2, <1>3, <1>4, <2>learns, <3>4, <3>5 DEF TypeOK
    <2>4. CASE tab' = [tab EXCEPT ![t].pc = "me", ![t].access = TRUE, ![t].held = {}]
      <3>1. PICK r : r = [tab[t] EXCEPT !.pc = "me", !.access = TRUE, !.held = {}]
        OBVIOUS
      <3>2. /\ r \in TabState /\ r.pc = "me"
            /\ r.refused = tab[t].refused
        BY <1>1, <3>1 DEF TabState, Pc, Refreshing
      <3>3. tab' = [tab EXCEPT ![t] = r]
        BY <1>1, <2>4, <3>1
      <3>4. /\ tab' \in [Tab -> TabState] /\ tab'[t] = r
            /\ \A u \in Tab \ {t} : tab'[u] = tab[u]
        BY <3>2, <3>3, TabFacts
      <3>5. Hears(t)
        BY <1>2, <1>3, <1>4, <2>1, <2>4, <3>2, <2>learns, <3>4 DEF Hears, Drops, Others
      <3> QED
        BY <1>2, <1>3, <1>4, <2>learns, <3>4, <3>5 DEF TypeOK
    <2>5. CASE tab' = [tab EXCEPT ![t].pc = "rest", ![t].again = FALSE, ![t].held = {}]
      <3>1. PICK r : r = [tab[t] EXCEPT !.pc = "rest", !.again = FALSE, !.held = {}]
        OBVIOUS
      <3>2. /\ r \in TabState /\ r.pc = "rest"
            /\ r.refused = tab[t].refused
        BY <1>1, <3>1 DEF TabState, Pc, Refreshing
      <3>3. tab' = [tab EXCEPT ![t] = r]
        BY <1>1, <2>5, <3>1
      <3>4. /\ tab' \in [Tab -> TabState] /\ tab'[t] = r
            /\ \A u \in Tab \ {t} : tab'[u] = tab[u]
        BY <3>2, <3>3, TabFacts
      <3>5. Hears(t)
        BY <1>2, <1>3, <1>4, <2>1, <2>5, <3>2, <2>learns, <3>4 DEF Hears, Drops, Others
      <3> QED
        BY <1>2, <1>3, <1>4, <2>learns, <3>4, <3>5 DEF TypeOK
    <2> QED
      BY <1>5, <2>2, <2>3, <2>4, <2>5 DEF RefreshAnswered
  <1>6. CASE SignInAnswered(t)
    <2>1. call[t].kind = "signin"
      BY <1>6 DEF SignInAnswered
    <2>learns. Learns(t) /\ stored' \subseteq Family /\ overtaken' \subseteq Family
      <3>1. PICK new : new = UNION {FamilyOf(x) : x \in call[t].cookie}
        OBVIOUS
      <3>2. /\ stored' = stored \cup new
            /\ overtaken' = IF \A u \in Tab \ {t} : call[u].stage = "none"
                              THEN overtaken ELSE overtaken \cup new
        BY <1>6, <3>1 DEF SignInAnswered
      <3>3. new \subseteq Family
        BY <1>1, <3>1, RevokedFacts
      <3>4. \A f \in new : \E x \in call[t].cookie : f \in FamilyOf(x)
        BY <3>1
      <3>5. Learns(t)
        BY <3>2, <3>4 DEF Learns
      <3> QED
        BY <3>2, <3>3, <3>5 DEF TypeOK
    <2>2. CASE tab' = [tab EXCEPT ![t].pc = "rest", ![t].ui = "signed-in", ![t].access = TRUE]
      <3>1. PICK r : r = [tab[t] EXCEPT !.pc = "rest", !.ui = "signed-in", !.access = TRUE]
        OBVIOUS
      <3>2. /\ r \in TabState /\ r.pc = "rest"
            /\ r.refused = tab[t].refused
        BY <1>1, <3>1 DEF TabState, Pc, Refreshing
      <3>3. tab' = [tab EXCEPT ![t] = r]
        BY <1>1, <2>2, <3>1
      <3>4. /\ tab' \in [Tab -> TabState] /\ tab'[t] = r
            /\ \A u \in Tab \ {t} : tab'[u] = tab[u]
        BY <3>2, <3>3, TabFacts
      <3>5. Hears(t)
        BY <1>2, <1>3, <1>4, <2>1, <2>2, <3>2, <2>learns, <3>4 DEF Hears, Drops, Others
      <3> QED
        BY <1>2, <1>3, <1>4, <2>learns, <3>4, <3>5 DEF TypeOK
    <2>3. CASE tab' = [tab EXCEPT ![t].pc = "rest", ![t].ui = "signed-out"]
      <3>1. PICK r : r = [tab[t] EXCEPT !.pc = "rest", !.ui = "signed-out"]
        OBVIOUS
      <3>2. /\ r \in TabState /\ r.pc = "rest"
            /\ r.refused = tab[t].refused
        BY <1>1, <3>1 DEF TabState, Pc, Refreshing
      <3>3. tab' = [tab EXCEPT ![t] = r]
        BY <1>1, <2>3, <3>1
      <3>4. /\ tab' \in [Tab -> TabState] /\ tab'[t] = r
            /\ \A u \in Tab \ {t} : tab'[u] = tab[u]
        BY <3>2, <3>3, TabFacts
      <3>5. Hears(t)
        BY <1>2, <1>3, <1>4, <2>1, <2>3, <3>2, <2>learns, <3>4 DEF Hears, Drops, Others
      <3> QED
        BY <1>2, <1>3, <1>4, <2>learns, <3>4, <3>5 DEF TypeOK
    <2> QED
      BY <1>6, <2>2, <2>3 DEF SignInAnswered
  <1>7. CASE SignOutAnswered(t)
    <2>1. call[t].kind = "signout" /\ UNCHANGED History
      BY <1>7 DEF SignOutAnswered
    <2>learns. Learns(t) /\ stored' \subseteq Family /\ overtaken' \subseteq Family
      BY <2>1 DEF Learns, History, TypeOK
    <2>2. CASE tab' = [tab EXCEPT ![t].pc = "rest", ![t].ui = "signed-out"]
      <3>1. PICK r : r = [tab[t] EXCEPT !.pc = "rest", !.ui = "signed-out"]
        OBVIOUS
      <3>2. /\ r \in TabState /\ r.pc = "rest"
            /\ r.refused = tab[t].refused
        BY <1>1, <3>1 DEF TabState, Pc, Refreshing
      <3>3. tab' = [tab EXCEPT ![t] = r]
        BY <1>1, <2>2, <3>1
      <3>4. /\ tab' \in [Tab -> TabState] /\ tab'[t] = r
            /\ \A u \in Tab \ {t} : tab'[u] = tab[u]
        BY <3>2, <3>3, TabFacts
      <3>5. Hears(t)
        BY <1>2, <1>3, <1>4, <2>1, <2>2, <3>2, <2>learns, <3>4 DEF Hears, Drops, Others
      <3> QED
        BY <1>2, <1>3, <1>4, <2>learns, <3>4, <3>5 DEF TypeOK
    <2> QED
      BY <1>7, <2>2 DEF SignOutAnswered
  <1> QED
    BY <1>5, <1>6, <1>7 DEF Answer

\* Unreachable, Reload and CallLost.
LEMMA AbandonShape ==
    ASSUME TypeOK, NEW t \in Tab, CallInv(t), Unreachable(t) \/ Reload(t) \/ CallLost(t)
    PROVE  Abandons(t) /\ TypeOK'
  <1>1. /\ tab \in [Tab -> TabState] /\ tab[t] \in TabState
        /\ call[t].tok \in Token \cup {None} /\ call[t].kind \in Kind \cup {"none"}
        /\ loads \in Nat
    BY DEF TypeOK, CallState
  <1>2. UNCHANGED <<fam, jar, ended, History>> /\ GiveUp(t) /\ Lossy /\ loads' \in {loads, loads + 1}
    BY DEF Unreachable, Reload, CallLost
  <1>3. /\ call' \in [Tab -> CallState]
        /\ \A u \in Tab \ {t} : call'[u] = call[u]
        /\ call'[t].stage = "none" /\ call'[t].kind = "none" /\ call'[t].tok = None
        /\ call'[t].status = "none" /\ call'[t].cookie = {}
    BY <1>2, DropFacts DEF GiveUp
  <1>4. /\ \/ ghosts' = ghosts
           \/ /\ call[t].stage = "sent"
              /\ ghosts' = ghosts \cup {<<call[t].kind, call[t].tok>>}
        /\ lost' = IF call[t].kind = "refresh" THEN lost \cup FamilyOf(call[t].tok) ELSE lost
    BY <1>2 DEF GiveUp
  <1>5. ghosts' \subseteq Kind \X (Token \cup {None})
    <2>1. call[t].stage = "sent" => call[t].kind \in Kind
      BY <1>1 DEF CallInv
    <2> QED
      BY <1>1, <1>4, <2>1 DEF TypeOK
  <1>6. lost' \subseteq Family
    BY <1>1, <1>4, RevokedFacts DEF TypeOK
  <1>7. PICK r \in TabState : tab' = [tab EXCEPT ![t] = r] /\ r.pc \in {"rest", "queued"}
    <2>1. CASE Unreachable(t)
      <3>1. PICK r : r = [tab[t] EXCEPT !.pc = "rest", !.ui = "offline", !.again = FALSE,
                              !.held = {}]
        OBVIOUS
      <3>2. r \in TabState /\ r.pc = "rest"
        BY <1>1, <3>1 DEF TabState, Pc
      <3>3. tab' = [tab EXCEPT ![t] = r]
        BY <1>1, <2>1, <3>1 DEF Unreachable
      <3> QED
        BY <3>2, <3>3
    <2>2. CASE Reload(t)
      <3>1. LoadingTab \in TabState /\ LoadingTab.pc = "queued"
        BY DEF LoadingTab, TabState, Pc
      <3>2. tab' = [tab EXCEPT ![t] = LoadingTab]
        BY <2>2 DEF Reload
      <3> QED
        BY <3>1, <3>2
    <2>3. CASE CallLost(t)
      <3>1. PICK ui : ui = IF tab[t].pc = "signin" THEN "signed-out" ELSE tab[t].ui
        OBVIOUS
      <3>2. PICK r : r = [tab[t] EXCEPT !.pc = "rest", !.ui = ui]
        OBVIOUS
      <3>3. ui \in {"loading", "signed-in", "signed-out", "offline"}
        BY <1>1, <3>1 DEF TabState
      <3>4. r \in TabState /\ r.pc = "rest"
        BY <1>1, <3>2, <3>3 DEF TabState, Pc
      <3>5. tab' = [tab EXCEPT ![t] = r]
        BY <1>1, <2>3, <3>1, <3>2 DEF CallLost
      <3> QED
        BY <3>4, <3>5
    <2> QED
      BY <2>1, <2>2, <2>3
  <1>8. /\ tab' \in [Tab -> TabState] /\ tab'[t] = r
        /\ \A u \in Tab \ {t} : tab'[u] = tab[u]
    BY <1>7, TabFacts
  <1>9. Abandons(t)
    BY <1>2, <1>3, <1>4, <1>7, <1>8 DEF Abandons, Drops, Others
  <1> QED
    BY <1>1, <1>2, <1>3, <1>5, <1>6, <1>8, <1>9 DEF TypeOK, History

-----------------------------------------------------------------------------
(* What holds whatever may fail. *)

\* The types of what a call and a tab hold, in the form the proofs use.
LEMMA Typed ==
    ASSUME TypeOK
    PROVE  /\ jar \in Token \cup {None} /\ fam \in [Family -> FamilyState]
           /\ \A f \in Family : fam[f].tip \in Nat /\ fam[f].dead \in BOOLEAN
           /\ \A t \in Tab : /\ call[t].tok \in Token \cup {None}
                             /\ call[t].cookie \subseteq Token \cup {None}
           /\ \A x \in Token : x[1] \in Family /\ x[2] \in Nat \ {0}
  <1>1. \A f \in Family : fam[f] \in FamilyState
    BY DEF TypeOK
  <1>2. \A f \in Family : fam[f].tip \in Nat /\ fam[f].dead \in BOOLEAN
    BY <1>1 DEF FamilyState
  <1>3. \A t \in Tab : call[t] \in CallState
    BY DEF TypeOK
  <1>4. \A t \in Tab : call[t].tok \in Token \cup {None} /\ call[t].cookie \subseteq Token \cup {None}
    BY <1>3 DEF CallState
  <1> QED
    BY <1>2, <1>4 DEF TypeOK, Token

\* Handling a call takes nothing back.
LEMMA Onward ==
    ASSUME TypeOK, TypeOK', NotBegunNotDead, NEW kind \in Kind, NEW tok \in Token \cup {None},
           Known(tok), NEW o, Effect(kind, tok, o), fam' = o.fam
    PROVE  /\ NotBegunNotDead'
           /\ \A f \in Family : fam[f].tip <= fam'[f].tip /\ (fam[f].dead => fam'[f].dead)
           /\ \A x \in Token \cup {None} : Known(x) => Known(x)'
  <1>1. \A f \in Family : fam[f].tip \in Nat /\ fam'[f].tip \in Nat
    <2>1. \A f \in Family : fam[f] \in FamilyState /\ fam'[f] \in FamilyState
      BY DEF TypeOK
    <2> QED
      BY <2>1 DEF FamilyState
  <1>2. \A f \in Family : FamilyEffect(f, kind, tok, o)
    BY DEF Effect
  <1>3. \A f \in Family : fam[f].tip <= fam'[f].tip /\ (fam[f].dead => fam'[f].dead)
    BY <1>1, <1>2 DEF FamilyEffect
  <1>4. ASSUME NEW f \in Family, fam'[f].tip = 0, fam'[f].dead
        PROVE  FALSE
    <2>1. fam[f].tip = 0
      BY <1>1, <1>3, <1>4
    <2>2. ~fam[f].dead
      BY <2>1 DEF NotBegunNotDead
    <2>3. tok # None /\ tok[1] = f
      BY <1>2, <1>4, <2>2 DEF FamilyEffect
    <2> QED
      BY <2>1, <2>3 DEF Known, Token
  <1>5. ASSUME NEW x \in Token \cup {None}, Known(x)
        PROVE  Known(x)'
    <2>1. x # None => x[1] \in Family /\ x[2] \in Nat
      BY DEF Token
    <2> QED
      BY <1>1, <1>3, <1>5, <2>1 DEF Known
  <1> QED
    BY <1>3, <1>4, <1>5 DEF NotBegunNotDead

\* A call is handled.
LEMMA HandleCore ==
    ASSUME TypeOK, TypeOK', Core, NEW t \in Tab, NEW o,
           Effect(call[t].kind, call[t].tok, o), Handles(t, o)
    PROVE  Core'
  <1>1. /\ \A x \in Token : x[1] \in Family /\ x[2] \in Nat \ {0}
        /\ jar \in Token \cup {None}
        /\ \A u \in Tab : call[u].tok \in Token \cup {None} /\ call[u].cookie \subseteq Token \cup {None}
    BY Typed
  <1>2. /\ NotBegunNotDead'
        /\ \A f \in Family : fam[f].tip <= fam'[f].tip /\ (fam[f].dead => fam'[f].dead)
        /\ \A x \in Token \cup {None} : Known(x) => Known(x)'
    <2>1. Known(call[t].tok) /\ call[t].kind \in Kind /\ fam' = o.fam
      BY DEF Core, TokensKnown, Handles
    <2> QED
      BY <1>1, <2>1, Onward DEF Core
  <1>3. TokensKnown'
    <2>1. ASSUME NEW x \in o.cookie
          PROVE  Known(x)'
      <3>1. CASE x = None
        BY <3>1 DEF Known
      <3>2. CASE x # None
        <4>1. x \in Token /\ x[2] = fam'[x[1]].tip
          BY <3>2 DEF Effect, Handles
        <4> QED
          BY <1>1, <4>1 DEF Known
      <3> QED
        BY <3>1, <3>2
    <2>2. ASSUME NEW u \in Tab
          PROVE  Known(call[u].tok)' /\ \A x \in call'[u].cookie : Known(x)'
      <3>1. Known(call[u].tok) /\ \A x \in call[u].cookie : Known(x)
        BY DEF Core, TokensKnown
      <3>2. call'[u].tok = call[u].tok /\ call'[u].cookie \in {call[u].cookie, o.cookie}
        BY DEF Handles
      <3>3. PICK y : y = call[u].tok
        OBVIOUS
      <3>4. Known(y)' /\ \A x \in call[u].cookie : Known(x)'
        BY <1>1, <1>2, <3>1, <3>3
      <3>5. Known(call[u].tok)'
        BY <3>2, <3>3, <3>4 DEF Known
      <3> QED
        BY <2>1, <3>2, <3>4, <3>5
    <2>3. Known(jar)'
      BY <1>1, <1>2 DEF Core, TokensKnown, Handles, Known
    <2>4. \A g \in ghosts' : Known(g[2])'
      <3>1. \A g \in ghosts : g[2] \in Token \cup {None} /\ Known(g[2])
        BY DEF TypeOK, Core, TokensKnown
      <3> QED
        BY <1>2, <3>1 DEF Handles
    <2> QED
      BY <2>2, <2>3, <2>4 DEF TokensKnown
  <1>4. ASSUME NEW u \in Tab
        PROVE  CallInv(u)'
    <2>1. CallInv(u)
      BY DEF Core
    <2>2. CASE u # t
      BY <2>1, <2>2 DEF CallInv, Handles, FamilyOf
    <2>3. CASE u = t
      BY <2>1, <2>3 DEF CallInv, Handles, Effect, FamilyOf, Kind
    <2> QED
      BY <2>2, <2>3
  <1>5. ASSUME NEW u \in Tab, call'[u].kind = "signin", NEW x \in call'[u].cookie \ {None}
        PROVE  /\ x[1] \notin FamilyOf(jar)'
               /\ \A v \in Tab \ {u} : /\ x[1] \notin FamilyOf(call[v].tok)'
                                       /\ \A y \in call'[v].cookie : x[1] \notin FamilyOf(y)
    <2>1. CASE u = t
      <3>1. fam[x[1]].tip = 0 /\ x \in Token /\ x[1] \in Family
        BY <1>1, <1>5, <2>1 DEF Handles, Effect
      <3>2. \A y \in Token \cup {None} : Known(y) => x[1] \notin FamilyOf(y)
        BY <1>1, <3>1 DEF Known, FamilyOf
      <3>3. x[1] \notin FamilyOf(jar)
        BY <1>1, <3>2 DEF Core, TokensKnown
      <3>4. \A v \in Tab \ {u} : /\ x[1] \notin FamilyOf(call[v].tok)
                                 /\ \A y \in call[v].cookie : x[1] \notin FamilyOf(y)
        BY <1>1, <3>2 DEF Core, TokensKnown
      <3> QED
        BY <2>1, <3>3, <3>4 DEF Handles, FamilyOf
    <2>2. CASE u # t
      <3>1. call'[u] = call[u] /\ x \in call[u].cookie \ {None}
        BY <1>5, <2>2 DEF Handles
      <3>2. /\ x[1] \notin FamilyOf(jar)
            /\ \A v \in Tab \ {u} : /\ x[1] \notin FamilyOf(call[v].tok)
                                    /\ \A y \in call[v].cookie : x[1] \notin FamilyOf(y)
        BY <1>5, <3>1 DEF Core, Apart
      <3>3. ASSUME NEW y \in o.cookie
            PROVE  x[1] \notin FamilyOf(y)
        <4>1. CASE y = None
          BY <4>1 DEF FamilyOf
        <4>2. CASE y # None /\ call[t].tok # None /\ y[1] = call[t].tok[1]
          BY <2>2, <3>2, <4>2 DEF FamilyOf
        <4>3. CASE y # None /\ fam[y[1]].tip = 0
          <5>1. x \in Token /\ Known(x)
            BY <1>1, <3>1 DEF Core, TokensKnown
          <5> QED
            BY <1>1, <3>1, <4>3, <5>1 DEF Known, FamilyOf
        <4> QED
          BY <4>1, <4>2, <4>3 DEF Effect
      <3>4. \A v \in Tab : call'[v].tok = call[v].tok /\ call'[v].cookie \in {call[v].cookie, o.cookie}
        BY DEF Handles
      <3> QED
        BY <3>2, <3>3, <3>4 DEF Handles, FamilyOf
    <2> QED
      BY <2>1, <2>2
  <1>6. \A u \in Tab : Apart(u)'
    BY <1>5 DEF Apart, FamilyOf
  <1>7. Lossless' /\ EndedAreDead' /\ StoredBegun'
    <2>1. \A f \in ended' : f \in ended \/ f \in o.ends
      BY DEF Handles
    <2>2. ~Faulty => \A f \in ended' : fam'[f].dead
      BY <1>2, <2>1 DEF Core, EndedAreDead, Effect, Handles, TypeOK
    <2>3. ASSUME NEW f \in stored
          PROVE  fam'[f].tip # 0
      <3>1. f \in Family /\ fam[f].tip # 0
        BY DEF TypeOK, Core, StoredBegun
      <3>2. fam[f].tip \in Nat /\ fam'[f].tip \in Nat
        <4>1. fam[f] \in FamilyState /\ fam'[f] \in FamilyState
          BY <3>1 DEF TypeOK
        <4> QED
          BY <4>1 DEF FamilyState
      <3> QED
        BY <1>2, <3>1, <3>2
    <2> QED
      BY <2>2, <2>3 DEF Core, Lossless, EndedAreDead, StoredBegun, Handles, History
  <1> QED
    BY <1>2, <1>3, <1>4, <1>6, <1>7 DEF Core

\* ... and a session that is kept stays in the jar, or is revoked.
LEMMA HandleKept ==
    ASSUME TypeOK, Core, KeptInv, ~Faulty, NEW t \in Tab, NEW o,
           Effect(call[t].kind, call[t].tok, o), Handles(t, o)
    PROVE  KeptInv'
  <1>1. UNCHANGED <<jar, stored, overtaken>> /\ fam' = o.fam
    BY DEF Handles, History
  <1> SUFFICES ASSUME NEW f \in stored \ overtaken, ~fam'[f].dead
               PROVE  Beholden(f)'
    BY <1>1 DEF KeptInv
  <1>2. f \in Family
    BY DEF TypeOK
  <1>3. ~fam[f].dead
    BY <1>1, <1>2 DEF Effect, FamilyEffect
  <1>4. Beholden(f)
    BY <1>3 DEF KeptInv
  <1>5. FamilyOf(call[t].tok) = {f}
    BY <1>4 DEF Beholden, Handles
  <1>6. call[t].tok # None /\ call[t].tok[1] = f
    BY <1>5 DEF FamilyOf
  <1>7. None \notin o.cookie /\ (call[t].kind = "signin" => o.cookie = {})
    BY <1>1, <1>6 DEF Effect
  <1>8. \A x \in o.cookie : FamilyOf(x) = {f}
    BY <1>6, <1>7 DEF Effect, FamilyOf
  <1>9. ASSUME NEW u \in Tab, call'[u].stage # "none"
        PROVE  /\ FamilyOf(call[u].tok)' = {f}
               /\ \A x \in call'[u].cookie : FamilyOf(x)' = {f}
    <2>1. CASE u = t
      BY <1>5, <1>8, <2>1 DEF Handles, FamilyOf
    <2>2. CASE u # t
      BY <1>4, <1>9, <2>2 DEF Beholden, Handles, FamilyOf
    <2> QED
      BY <2>1, <2>2
  <1>10. FamilyOf(jar)' = {f}
    BY <1>1, <1>4 DEF Beholden, FamilyOf
  <1> QED
    BY <1>9, <1>10 DEF Beholden, FamilyOf

-----------------------------------------------------------------------------
(* What the server does, under the lock. *)

\* A token stays the last of its family unless that very family is extended.
LEMMA CurrentStays ==
    ASSUME TypeOK, NEW kind, NEW tok, NEW o, Effect(kind, tok, o),
           fam' = o.fam, lost' = lost,
           NEW x \in Token \cup {None}, Known(x), Current(x),
           kind = "refresh" /\ o.cookie # {} /\ tok # None /\ x # None /\ x[1] = tok[1]
              => x[1] \in lost
    PROVE  Current(x)'
  <1> SUFFICES ASSUME x # None, ~fam'[x[1]].dead, x[1] \notin lost
               PROVE  x[2] = fam'[x[1]].tip
    BY DEF Current
  <1>1. x[1] \in Family /\ x[2] \in Nat \ {0} /\ fam[x[1]].tip \in Nat
    BY Typed
  <1>2. FamilyEffect(x[1], kind, tok, o)
    BY <1>1 DEF Effect
  <1>3. ~fam[x[1]].dead
    BY <1>2 DEF FamilyEffect
  <1>4. x[2] = fam[x[1]].tip
    BY <1>3 DEF Current
  <1>5. fam[x[1]].tip # 0
    BY <1>1, <1>4
  <1> QED
    BY <1>2, <1>4, <1>5 DEF FamilyEffect

\* A family revoked by the handling of a last token was signed out of.
LEMMA ReuseStays ==
    ASSUME ReuseNeedsLoss, NEW kind, NEW tok, NEW o, Effect(kind, tok, o), TypeOK,
           tok \in Token \cup {None},
           fam' = o.fam, ended' = ended \cup o.ends, lost' = lost,
           kind = "refresh" => Current(tok)
    PROVE  ReuseNeedsLoss'
  <1> SUFFICES ASSUME NEW f \in Family, fam'[f].dead, ~fam[f].dead
               PROVE  f \in ended' \cup lost'
    BY DEF ReuseNeedsLoss
  <1>1. FamilyEffect(f, kind, tok, o)
    BY DEF Effect
  <1>2. CASE f \in o.ends
    BY <1>2
  <1>3. CASE kind = "refresh" /\ tok # None /\ tok[1] = f /\ tok[2] < fam[f].tip
    <2>1. fam[f].tip \in Nat /\ tok[2] \in Nat
      BY <1>3, Typed
    <2> QED
      BY <1>3, <2>1 DEF Current
  <1> QED
    BY <1>1, <1>2, <1>3 DEF FamilyEffect

\* A call is handled.
LEMMA HandleLock ==
    ASSUME TypeOK, Core, LockInv, NEW t \in Tab, NEW o,
           Effect(call[t].kind, call[t].tok, o), Handles(t, o)
    PROVE  LockInv'
  <1>1. /\ jar \in Token \cup {None}
        /\ \A u \in Tab : call[u].tok \in Token \cup {None} /\ call[u].cookie \subseteq Token \cup {None}
    BY Typed
  <1>2. /\ Known(jar)
        /\ \A u \in Tab : /\ Known(call[u].tok) /\ \A x \in call[u].cookie : Known(x)
                          /\ CallInv(u) /\ Apart(u)
    BY DEF Core, TokensKnown
  <1>3. fam' = o.fam /\ lost' = lost /\ ended' = ended \cup o.ends
    BY DEF Handles
  <1>4. ASSUME NEW u \in Tab \ {t}
        PROVE  ~(call[t].kind = "refresh" /\ call[u].kind = "refresh")
    BY <1>2 DEF CallInv, LockInv, OneRefreshes, Refreshing
  <1>5. ASSUME NEW x \in Token \cup {None}, Known(x), Current(x),
               call[t].kind = "refresh" /\ o.cookie # {} => x = None \/ x[1] \notin FamilyOf(call[t].tok)
        PROVE  Current(x)'
    BY <1>3, <1>5, CurrentStays DEF FamilyOf
  <1>6. OneRefreshes'
    BY DEF LockInv, OneRefreshes, Handles
  <1>7. (Current(jar) \/ Replaced)'
    <2>1. CASE o.cookie # {} /\ call[t].kind = "refresh" /\ FamilyOf(call[t].tok) = FamilyOf(jar)
      BY <2>1 DEF Replaced, Handles, FamilyOf
    <2>2. CASE Replaced
      <3>1. PICK u \in Tab : /\ call[u].kind = "refresh" /\ call[u].cookie # {}
                             /\ FamilyOf(call[u].tok) = FamilyOf(jar)
        BY <2>2 DEF Replaced
      <3>2. u # t
        BY <1>2, <3>1 DEF CallInv, Handles
      <3> QED
        BY <3>1, <3>2 DEF Replaced, Handles, FamilyOf
    <2>3. CASE /\ Current(jar)
               /\ ~(o.cookie # {} /\ call[t].kind = "refresh" /\ FamilyOf(call[t].tok) = FamilyOf(jar))
      <3>1. PICK x : x = jar
        OBVIOUS
      <3>2. /\ x \in Token \cup {None} /\ Known(x) /\ Current(x)
            /\ call[t].kind = "refresh" /\ o.cookie # {} => x = None \/ x[1] \notin FamilyOf(call[t].tok)
        BY <1>1, <1>2, <2>3, <3>1 DEF FamilyOf
      <3>3. Current(x)'
        BY <1>5, <3>2
      <3> QED
        BY <3>1, <3>3 DEF Current, Handles
    <2> QED
      BY <2>1, <2>2, <2>3 DEF LockInv
  <1>8. ASSUME NEW u \in Tab, call'[u].kind = "refresh", call'[u].stage = "sent"
        PROVE  Current(call[u].tok)'
    <2>1. u # t /\ call'[u] = call[u]
      BY <1>8 DEF Handles
    <2>2. PICK x : x = call[u].tok
      OBVIOUS
    <2>3. call[t].kind # "refresh"
      BY <1>4, <1>8, <2>1
    <2>4. Current(x)'
      BY <1>1, <1>2, <1>5, <1>8, <2>1, <2>2, <2>3 DEF LockInv
    <2> QED
      BY <2>1, <2>2, <2>4 DEF Current
  <1>9. ASSUME NEW u \in Tab, NEW x \in call'[u].cookie
        PROVE  Current(x)'
    <2>1. CASE u = t
      <3>1. x \in o.cookie
        BY <1>9, <2>1 DEF Handles
      <3>2. x # None => x[2] = fam'[x[1]].tip
        BY <1>3, <3>1 DEF Effect
      <3> QED
        BY <3>2 DEF Current
    <2>2. CASE u # t
      <3>1. x \in call[u].cookie
        BY <1>9, <2>2 DEF Handles
      <3>2. call[t].kind = "refresh" => x = None \/ x[1] \notin FamilyOf(call[t].tok)
        <4>1. call[u].kind \in {"refresh", "signin", "signout"}
          BY <1>2, <3>1 DEF CallInv, TypeOK, CallState, Kind
        <4>2. CASE call[u].kind = "refresh"
          BY <1>4, <2>2, <4>2
        <4>3. CASE call[u].kind = "signin"
          BY <1>2, <2>2, <3>1, <4>3 DEF Apart
        <4>4. CASE call[u].kind = "signout"
          BY <1>2, <3>1, <4>4 DEF CallInv
        <4> QED
          BY <4>1, <4>2, <4>3, <4>4
      <3> QED
        BY <1>1, <1>2, <1>5, <3>1, <3>2 DEF LockInv
    <2> QED
      BY <2>1, <2>2
  <1>10. \A g \in ghosts' : g[1] = "refresh" => FamilyOf(g[2]) \subseteq lost'
    BY <1>3 DEF LockInv, Handles
  <1>11. ReuseNeedsLoss'
    <2>1. call[t].kind = "refresh" => Current(call[t].tok)
      BY DEF LockInv, Handles
    <2>2. PICK kind, tok : kind = call[t].kind /\ tok = call[t].tok
      OBVIOUS
    <2> QED
      BY <1>1, <1>3, <2>1, <2>2, ReuseStays DEF LockInv
  <1> QED
    BY <1>6, <1>7, <1>8, <1>9, <1>10, <1>11 DEF LockInv, FamilyOf

\* A call is handled by a server that does not fail, for a browser that lost
\* nothing: the last token of a live family is not refused.
LEMMA HandleRefused ==
    ASSUME TypeOK, TypeOK', Core, LockInv, \A u \in Tab : RefusedInv(u), ~Lossy, ~Faulty,
           NEW t \in Tab, NEW o, Effect(call[t].kind, call[t].tok, o), Handles(t, o),
           NEW u \in Tab
    PROVE  RefusedInv(u)'
  <1>1. /\ tab[u].held \subseteq Family /\ tab[u].refused \subseteq Family
        /\ \A v \in Tab : FamilyOf(call[v].tok) \subseteq Family
        /\ UNCHANGED <<tab, stored, overtaken>>
    <2>1. \A v \in Tab : call[v].tok \in Token \cup {None}
      BY Typed
    <2> QED
      BY <2>1, RevokedFacts DEF TypeOK, TabState, Handles, History
  <1>2. \A f \in Family : fam[f].dead => fam'[f].dead
    BY DEF Effect, FamilyEffect, Handles
  <1>3. RefusedInv(u) /\ CallInv(u)
    BY DEF Core
  <1>4. FamilyOf(call[u].tok)' = FamilyOf(call[u].tok)
    BY DEF Handles, FamilyOf
  <1>5. CASE u # t
    BY <1>1, <1>2, <1>3, <1>4, <1>5 DEF RefusedInv, Handles
  <1>6. CASE u = t
    <2>1. call'[u].kind = "refresh" => call'[u].status # "failed"
      BY <1>6 DEF Effect, Handles
    <2>2. ASSUME call'[u].kind = "refresh", call'[u].status = "refused",
                 NEW f \in FamilyOf(call[t].tok)
          PROVE  fam'[f].dead
      <3>1. call[t].kind = "refresh" /\ call[t].stage = "sent" /\ o.status = "refused"
        BY <1>6, <2>2 DEF Handles
      <3>2. call[t].tok # None /\ call[t].tok[1] = f
        BY DEF FamilyOf
      <3>3. lost = {} /\ Current(call[t].tok)
        BY <3>1 DEF Core, Lossless, LockInv
      <3>4. CASE fam[f].dead
        BY <1>1, <1>2, <3>4
      <3>5. CASE ~fam[f].dead
        <4>1. call[t].tok[2] = fam[call[t].tok[1]].tip
          BY <3>2, <3>3, <3>5 DEF Current
        <4> QED
          BY <3>1, <3>2, <4>1 DEF Effect, Handles
      <3> QED
        BY <3>4, <3>5
    <2> QED
      BY <1>1, <1>2, <1>3, <1>4, <1>6, <2>1, <2>2 DEF RefusedInv
  <1> QED
    BY <1>5, <1>6

\* A call that was given up on is handled, and nobody hears of it.
LEMMA GhostShape ==
    ASSUME TypeOK, Core, HandleGhost
    PROVE  /\ TypeOK'
           /\ \E g, o : /\ g \in ghosts /\ g[1] \in Kind /\ g[2] \in Token \cup {None}
                        /\ Known(g[2]) /\ Effect(g[1], g[2], o)
                        /\ fam' = o.fam /\ ended' = ended \cup o.ends
                        /\ ghosts' = ghosts \ {g}
           /\ UNCHANGED <<jar, tab, call, lost, History>>
  <1>1. PICK g \in ghosts :
           /\ \E o \in Outcomes(g[1], g[2]) : fam' = o.fam /\ ended' = ended \cup o.ends
           /\ ghosts' = ghosts \ {g}
           /\ UNCHANGED <<jar, tab, call, loads, lost, History>>
    BY DEF HandleGhost
  <1>2. PICK o \in Outcomes(g[1], g[2]) : fam' = o.fam /\ ended' = ended \cup o.ends
    BY <1>1
  <1>3. g[1] \in Kind /\ g[2] \in Token \cup {None} /\ Known(g[2])
    BY DEF TypeOK, Core, TokensKnown
  <1>4. Effect(g[1], g[2], o)
    BY <1>3, OutcomeEffect DEF Core
  <1>5. o.fam \in [Family -> FamilyState] /\ o.ends \subseteq Family
    BY <1>3, <1>4, RevokedFacts DEF Effect
  <1>6. TypeOK'
    BY <1>1, <1>2, <1>5 DEF TypeOK, History
  <1> QED
    BY <1>1, <1>2, <1>3, <1>4, <1>6

\* ... which keeps the invariant: a ghost's family counts as lost.
LEMMA GhostStep ==
    ASSUME TypeOK, Core, HandleGhost
    PROVE  /\ TypeOK' /\ Core'
           /\ LockInv => LockInv'
           /\ KeptInv => KeptInv'
           /\ (\A u \in Tab : RefusedInv(u)) => \A u \in Tab : RefusedInv(u)'
  <1>1. TypeOK' /\ UNCHANGED <<jar, tab, call, lost, History>>
    BY GhostShape
  <1>2. PICK g, o : /\ g \in ghosts /\ g[1] \in Kind /\ g[2] \in Token \cup {None}
                    /\ Known(g[2]) /\ Effect(g[1], g[2], o)
                    /\ fam' = o.fam /\ ended' = ended \cup o.ends
                    /\ ghosts' = ghosts \ {g}
    BY GhostShape
  <1>3. /\ NotBegunNotDead'
        /\ \A f \in Family : fam[f].tip <= fam'[f].tip /\ (fam[f].dead => fam'[f].dead)
        /\ \A x \in Token \cup {None} : Known(x) => Known(x)'
    BY <1>1, <1>2, Onward DEF Core
  <1>4. /\ jar \in Token \cup {None}
        /\ \A u \in Tab : call[u].tok \in Token \cup {None} /\ call[u].cookie \subseteq Token \cup {None}
        /\ \A h \in ghosts : h[2] \in Token \cup {None}
    BY Typed DEF TypeOK
  <1>5. Core'
    <2>1. TokensKnown'
      <3>1. Known(jar)'
        BY <1>1, <1>3, <1>4 DEF Core, TokensKnown, Known
      <3>2. ASSUME NEW u \in Tab
            PROVE  Known(call[u].tok)' /\ \A x \in call'[u].cookie : Known(x)'
        BY <1>1, <1>3, <1>4 DEF Core, TokensKnown, Known
      <3>3. \A h \in ghosts' : Known(h[2])'
        BY <1>2, <1>3, <1>4 DEF Core, TokensKnown
      <3> QED
        BY <3>1, <3>2, <3>3 DEF TokensKnown
    <2>2. ASSUME NEW u \in Tab
          PROVE  CallInv(u)' /\ Apart(u)'
      <3>1. CallInv(u) /\ Apart(u)
        BY DEF Core
      <3>2. CallInv(u)'
        BY <1>1, <3>1 DEF CallInv, FamilyOf
      <3>3. Apart(u)'
        BY <1>1, <3>1 DEF Apart, FamilyOf
      <3> QED
        BY <3>2, <3>3
    <2>3. Lossless'
      BY <1>1, <1>2 DEF Core, Lossless
    <2>4. EndedAreDead'
      BY <1>2, <1>3 DEF Core, EndedAreDead, Effect, TypeOK
    <2>5. ASSUME NEW f \in stored
          PROVE  fam'[f].tip # 0
      <3>1. f \in Family /\ fam[f].tip # 0
        BY DEF TypeOK, Core, StoredBegun
      <3>2. fam[f].tip \in Nat /\ fam'[f].tip \in Nat
        <4>1. fam[f] \in FamilyState /\ fam'[f] \in FamilyState
          BY <1>1, <3>1 DEF TypeOK
        <4> QED
          BY <4>1 DEF FamilyState
      <3> QED
        BY <1>3, <3>1, <3>2
    <2>6. StoredBegun'
      BY <1>1, <2>5 DEF StoredBegun, History
    <2> QED
      BY <1>3, <2>1, <2>2, <2>3, <2>4, <2>6 DEF Core
  <1>6. ASSUME LockInv
        PROVE  LockInv'
    <2>1. g[1] = "refresh" => FamilyOf(g[2]) \subseteq lost
      BY <1>2, <1>6 DEF LockInv
    <2>2. ASSUME NEW x \in Token \cup {None}, Known(x), Current(x)
          PROVE  Current(x)'
      BY <1>1, <1>2, <2>1, <2>2, CurrentStays DEF FamilyOf
    <2>3. /\ Known(jar)
          /\ \A u \in Tab : Known(call[u].tok) /\ \A x \in call[u].cookie : Known(x)
      BY DEF Core, TokensKnown
    <2>4. (Current(jar) \/ Replaced)'
      <3>1. CASE Current(jar)
        BY <1>1, <1>4, <2>2, <2>3, <3>1 DEF Current
      <3>2. CASE Replaced
        BY <1>1, <3>2 DEF Replaced, FamilyOf
      <3> QED
        BY <1>6, <3>1, <3>2 DEF LockInv
    <2>5. ASSUME NEW u \in Tab, call'[u].kind = "refresh", call'[u].stage = "sent"
          PROVE  Current(call[u].tok)'
      <3>1. Current(call[u].tok)
        BY <1>1, <1>6, <2>5 DEF LockInv
      <3> QED
        BY <1>1, <1>4, <2>2, <2>3, <3>1 DEF Current
    <2>6. \A u \in Tab : \A x \in call'[u].cookie : Current(x)'
      BY <1>1, <1>4, <1>6, <2>2, <2>3 DEF LockInv
    <2>7. ReuseNeedsLoss'
      <3>1. g[1] = "refresh" => Current(g[2])
        BY <2>1 DEF Current, FamilyOf
      <3> QED
        BY <1>1, <1>2, <1>6, <3>1, ReuseStays DEF LockInv
    <2>8. OneRefreshes' /\ \A h \in ghosts' : h[1] = "refresh" => FamilyOf(h[2]) \subseteq lost'
      BY <1>1, <1>2, <1>6 DEF LockInv, OneRefreshes
    <2> QED
      BY <2>4, <2>5, <2>6, <2>7, <2>8 DEF LockInv, FamilyOf
  <1>7. ASSUME NEW u \in Tab, RefusedInv(u)
        PROVE  RefusedInv(u)'
    <2>1. /\ tab[u].held \subseteq Family /\ tab[u].refused \subseteq Family
          /\ FamilyOf(call[u].tok) \subseteq Family
      BY <1>4, RevokedFacts DEF TypeOK, TabState
    <2> QED
      BY <1>1, <1>3, <1>7, <2>1 DEF RefusedInv, FamilyOf, History
  <1>8. ASSUME KeptInv
        PROVE  KeptInv'
    <2>1. ASSUME NEW f \in stored \ overtaken, ~fam'[f].dead
          PROVE  Beholden(f)'
      <3>1. Beholden(f)
        BY <1>3, <1>8, <2>1 DEF KeptInv, TypeOK
      <3> QED
        BY <1>1, <3>1 DEF Beholden, FamilyOf
    <2> QED
      BY <1>1, <2>1 DEF KeptInv, History
  <1> QED
    BY <1>1, <1>5, <1>6, <1>7, <1>8

\* The grace window of a family ends: nothing is decided by it here.
LEMMA GraceStep ==
    ASSUME TypeOK, Core, NEW f \in Family, GraceEnds(f)
    PROVE  /\ TypeOK' /\ Core'
           /\ LockInv => LockInv'
           /\ KeptInv => KeptInv'
           /\ (\A u \in Tab : RefusedInv(u)) => \A u \in Tab : RefusedInv(u)'
  <1>1. /\ fam \in [Family -> FamilyState] /\ fam[f] \in FamilyState
        /\ fam' = [fam EXCEPT ![f] = [fam[f] EXCEPT !.fresh = FALSE]]
        /\ UNCHANGED <<jar, tab, call, ghosts, loads, ended, lost, History>>
    BY DEF TypeOK, GraceEnds
  <1>2. PICK r : r = [fam[f] EXCEPT !.fresh = FALSE]
    OBVIOUS
  <1>3. r \in FamilyState /\ r.tip = fam[f].tip /\ r.dead = fam[f].dead
    BY <1>1, <1>2 DEF FamilyState
  <1>4. fam' \in [Family -> FamilyState] /\ fam'[f] = r /\ \A g \in Family \ {f} : fam'[g] = fam[g]
    BY <1>1, <1>2, <1>3
  <1>5. \A g \in Family : fam'[g].tip = fam[g].tip /\ fam'[g].dead = fam[g].dead
    BY <1>3, <1>4
  <1>6. TypeOK'
    BY <1>1, <1>4 DEF TypeOK, History
  <1>7. /\ jar \in Token \cup {None}
        /\ \A x \in Token : x[1] \in Family
        /\ \A u \in Tab : call[u].tok \in Token \cup {None} /\ call[u].cookie \subseteq Token \cup {None}
        /\ \A h \in ghosts : h[2] \in Token \cup {None}
    BY Typed DEF TypeOK
  <1>8. \A x \in Token \cup {None} : (Known(x) => Known(x)') /\ (Current(x) => Current(x)')
    BY <1>1, <1>5, <1>7 DEF Known, Current
  <1>9. Core'
    <2>1. TokensKnown'
      <3>1. Known(jar)'
        BY <1>1, <1>7, <1>8 DEF Core, TokensKnown, Known
      <3>2. ASSUME NEW u \in Tab
            PROVE  Known(call[u].tok)' /\ \A x \in call'[u].cookie : Known(x)'
        BY <1>1, <1>7, <1>8 DEF Core, TokensKnown, Known
      <3>3. \A h \in ghosts' : Known(h[2])'
        BY <1>1, <1>7, <1>8 DEF Core, TokensKnown
      <3> QED
        BY <3>1, <3>2, <3>3 DEF TokensKnown
    <2>2. ASSUME NEW u \in Tab
          PROVE  CallInv(u)' /\ Apart(u)'
      <3>1. CallInv(u) /\ Apart(u)
        BY DEF Core
      <3>2. CallInv(u)'
        BY <1>1, <3>1 DEF CallInv, FamilyOf
      <3>3. Apart(u)'
        BY <1>1, <3>1 DEF Apart, FamilyOf
      <3> QED
        BY <3>2, <3>3
    <2>3. Lossless' /\ EndedAreDead' /\ NotBegunNotDead' /\ StoredBegun'
      BY <1>1, <1>5 DEF Core, Lossless, EndedAreDead, NotBegunNotDead, StoredBegun, History, TypeOK
    <2> QED
      BY <2>1, <2>2, <2>3 DEF Core
  <1>10. ASSUME LockInv
         PROVE  LockInv'
    <2>1. (Current(jar) \/ Replaced)'
      <3>1. CASE Current(jar)
        BY <1>1, <1>7, <1>8, <3>1 DEF Current
      <3>2. CASE Replaced
        BY <1>1, <3>2 DEF Replaced, FamilyOf
      <3> QED
        BY <1>10, <3>1, <3>2 DEF LockInv
    <2>2. ASSUME NEW u \in Tab, call'[u].kind = "refresh", call'[u].stage = "sent"
          PROVE  Current(call[u].tok)'
      <3>1. Current(call[u].tok)
        BY <1>1, <1>10, <2>2 DEF LockInv
      <3> QED
        BY <1>1, <1>7, <1>8, <3>1 DEF Current
    <2>3. \A u \in Tab : \A x \in call'[u].cookie : Current(x)'
      BY <1>1, <1>7, <1>8, <1>10 DEF LockInv
    <2>4. ReuseNeedsLoss'
      BY <1>1, <1>5, <1>10 DEF LockInv, ReuseNeedsLoss
    <2>5. OneRefreshes' /\ \A h \in ghosts' : h[1] = "refresh" => FamilyOf(h[2]) \subseteq lost'
      BY <1>1, <1>10 DEF LockInv, OneRefreshes
    <2> QED
      BY <2>1, <2>2, <2>3, <2>4, <2>5 DEF LockInv, FamilyOf
  <1>11. ASSUME NEW u \in Tab, RefusedInv(u)
         PROVE  RefusedInv(u)'
    <2>1. /\ tab[u].held \subseteq Family /\ tab[u].refused \subseteq Family
          /\ FamilyOf(call[u].tok) \subseteq Family
      BY <1>7, RevokedFacts DEF TypeOK, TabState
    <2> QED
      BY <1>1, <1>5, <1>11, <2>1 DEF RefusedInv, FamilyOf, History
  <1>12. ASSUME KeptInv
         PROVE  KeptInv'
    <2>1. ASSUME NEW g \in stored \ overtaken, ~fam'[g].dead
          PROVE  Beholden(g)'
      <3>1. Beholden(g)
        BY <1>5, <1>12, <2>1 DEF KeptInv, TypeOK
      <3> QED
        BY <1>1, <3>1 DEF Beholden, FamilyOf
    <2> QED
      BY <1>1, <2>1 DEF KeptInv, History
  <1> QED
    BY <1>6, <1>9, <1>10, <1>11, <1>12

-----------------------------------------------------------------------------
(* What the tabs do. *)

\* A tab goes on without a call.
LEMMA MoveStep ==
    ASSUME Core, NEW t \in Tab, Moves(t)
    PROVE  /\ Core'
           /\ LockInv => LockInv'
           /\ KeptInv => KeptInv'
           /\ (\A u \in Tab : RefusedInv(u)) => \A u \in Tab : RefusedInv(u)'
  <1>1. /\ UNCHANGED <<fam, jar, call, ghosts, ended, lost, stored, overtaken>>
        /\ \A u \in Tab \ {t} : tab'[u] = tab[u]
        /\ tab[t].pc \notin Refreshing /\ tab'[t].pc \notin Refreshing
        /\ tab'[t].refused \in {tab[t].refused, {}}
    BY DEF Moves, Others, History
  <1>2. NotBegunNotDead' /\ Lossless' /\ EndedAreDead' /\ StoredBegun'
    BY <1>1 DEF Core, NotBegunNotDead, Lossless, EndedAreDead, StoredBegun
  <1>3. TokensKnown'
    BY <1>1 DEF Core, TokensKnown, Known
  <1>4. ASSUME NEW u \in Tab
        PROVE  CallInv(u)' /\ Apart(u)'
    <2>1. CallInv(u) /\ Apart(u)
      BY DEF Core
    <2>2. CallInv(u)'
      BY <1>1, <2>1 DEF CallInv, FamilyOf, Refreshing
    <2>3. Apart(u)'
      BY <1>1, <2>1 DEF Apart, FamilyOf
    <2> QED
      BY <2>2, <2>3
  <1>5. ASSUME LockInv
        PROVE  LockInv'
    <2>1. OneRefreshes'
      BY <1>1, <1>5 DEF LockInv, OneRefreshes
    <2>2. ReuseNeedsLoss' /\ (Current(jar) \/ Replaced)'
      BY <1>1, <1>5 DEF LockInv, ReuseNeedsLoss, Current, Replaced, FamilyOf
    <2> QED
      BY <1>1, <1>5, <2>1, <2>2 DEF LockInv, Current, FamilyOf
  <1>6. ASSUME NEW u \in Tab, RefusedInv(u)
        PROVE  RefusedInv(u)'
    BY <1>1, <1>6 DEF RefusedInv, Refreshing, FamilyOf
  <1>7. KeptInv => KeptInv'
    BY <1>1 DEF KeptInv, Beholden, FamilyOf
  <1> QED
    BY <1>2, <1>3, <1>4, <1>5, <1>6, <1>7 DEF Core

\* A tab sends a call with what is in the jar.
LEMMA SendStep ==
    ASSUME TypeOK, Core, NEW t \in Tab, NEW kind \in Kind, Sends(t, kind)
    PROVE  /\ Core'
           /\ Locks /\ LockInv => LockInv'
           /\ KeptInv => KeptInv'
           /\ KeptInv /\ (\A u \in Tab : RefusedInv(u)) => \A u \in Tab : RefusedInv(u)'
  <1>1. /\ UNCHANGED <<fam, jar, ghosts, ended, lost, stored, overtaken>>
        /\ \A u \in Tab \ {t} : tab'[u] = tab[u] /\ call'[u] = call[u]
        /\ call'[t].stage = "sent" /\ call'[t].kind = kind /\ call'[t].tok = jar
        /\ call'[t].status = "none" /\ call'[t].cookie = {}
        /\ tab'[t].refused \in {tab[t].refused, {}}
    BY DEF Sends, Others, History
  <1>2. NotBegunNotDead' /\ Lossless' /\ EndedAreDead' /\ StoredBegun'
    BY <1>1 DEF Core, NotBegunNotDead, Lossless, EndedAreDead, StoredBegun
  <1>3. TokensKnown'
    BY <1>1 DEF Core, TokensKnown, Known
  <1>4. ASSUME NEW u \in Tab
        PROVE  CallInv(u)'
    <2>1. CallInv(u)
      BY DEF Core
    <2>2. CASE u # t
      BY <1>1, <2>1, <2>2 DEF CallInv, FamilyOf
    <2>3. CASE u = t
      BY <1>1, <2>3 DEF CallInv, Sends, Kind
    <2> QED
      BY <2>2, <2>3
  <1>5. ASSUME NEW u \in Tab
        PROVE  Apart(u)'
    <2>1. CASE u = t
      BY <1>1, <2>1 DEF Apart
    <2>2. CASE u # t
      <3>1. Apart(u)
        BY DEF Core
      <3> QED
        BY <1>1, <2>2, <3>1 DEF Apart, FamilyOf
    <2> QED
      BY <2>1, <2>2
  <1>6. ASSUME Locks, LockInv
        PROVE  LockInv'
    <2>1. \A u \in Tab : call[u].kind = "refresh" <=> tab[u].pc \in {"first", "second"}
      BY DEF Core, CallInv
    <2>2. kind = "refresh" => \A u \in Tab \ {t} : tab[u].pc \notin Refreshing
      BY <1>6 DEF Sends, LockInv, OneRefreshes, Refreshing
    <2>3. OneRefreshes'
      BY <1>1, <1>6, <2>2 DEF Sends, LockInv, OneRefreshes, Refreshing
    <2>4. call[t].kind # "refresh"
      BY <2>1 DEF Sends
    <2>5. (Current(jar) \/ Replaced)'
      <3>1. CASE Current(jar)
        BY <1>1, <3>1 DEF Current
      <3>2. CASE Replaced
        BY <1>1, <2>4, <3>2 DEF Replaced, FamilyOf
      <3> QED
        BY <1>6, <3>1, <3>2 DEF LockInv
    <2>6. kind = "refresh" => Current(jar)
      <3>1. kind = "refresh" => ~Replaced
        BY <2>1, <2>2, <2>4 DEF Replaced, Refreshing
      <3> QED
        BY <1>6, <3>1 DEF LockInv
    <2>7. ASSUME NEW u \in Tab, call'[u].kind = "refresh", call'[u].stage = "sent"
          PROVE  Current(call[u].tok)'
      <3>1. CASE u = t
        BY <1>1, <2>6, <2>7, <3>1 DEF Current
      <3>2. CASE u # t
        BY <1>1, <1>6, <2>7, <3>2 DEF LockInv, Current
      <3> QED
        BY <3>1, <3>2
    <2>8. \A u \in Tab : \A x \in call'[u].cookie : Current(x)'
      BY <1>1, <1>6 DEF LockInv, Current
    <2>9. ReuseNeedsLoss' /\ \A h \in ghosts' : h[1] = "refresh" => FamilyOf(h[2]) \subseteq lost'
      BY <1>1, <1>6 DEF LockInv, ReuseNeedsLoss
    <2> QED
      BY <2>3, <2>5, <2>7, <2>8, <2>9 DEF LockInv, FamilyOf
  <1>7. ASSUME KeptInv
        PROVE  KeptInv'
    <2>1. ASSUME NEW f \in stored \ overtaken, ~fam[f].dead
          PROVE  Beholden(f)'
      <3>1. Beholden(f)
        BY <1>7, <2>1 DEF KeptInv
      <3>2. ASSUME NEW u \in Tab, call'[u].stage # "none"
            PROVE  /\ FamilyOf(call[u].tok)' = {f}
                   /\ \A x \in call'[u].cookie : FamilyOf(x)' = {f}
        <4>1. CASE u = t
          BY <1>1, <3>1, <4>1 DEF Beholden, FamilyOf
        <4>2. CASE u # t
          BY <1>1, <3>1, <3>2, <4>2 DEF Beholden, FamilyOf
        <4> QED
          BY <4>1, <4>2
      <3> QED
        BY <1>1, <3>1, <3>2 DEF Beholden, FamilyOf
    <2> QED
      BY <1>1, <2>1 DEF KeptInv
  <1>8. ASSUME KeptInv, NEW u \in Tab, RefusedInv(u)
        PROVE  RefusedInv(u)'
    <2>1. CASE u # t
      BY <1>1, <1>8, <2>1 DEF RefusedInv, FamilyOf
    <2>2. CASE u = t
      <3>1. tab'[t].pc \in {"first", "second"} => tab'[t].held = Held
        BY DEF Sends
      <3>2. ASSUME NEW f \in Held \ overtaken
            PROVE  f \in FamilyOf(jar)
        BY <1>8 DEF Held, Live, KeptInv, Beholden
      <3>3. FamilyOf(call[t].tok)' = FamilyOf(jar)
        BY <1>1 DEF FamilyOf
      <3> QED
        BY <1>1, <1>8, <2>2, <3>1, <3>2, <3>3 DEF RefusedInv
    <2> QED
      BY <2>1, <2>2
  <1> QED
    BY <1>2, <1>3, <1>4, <1>5, <1>6, <1>7, <1>8 DEF Core

\* A tab hears of its call, and the jar of the answer's cookie.
LEMMA HearStep ==
    ASSUME TypeOK, Core, NEW t \in Tab, Hears(t)
    PROVE  /\ Core'
           /\ LockInv => LockInv'
           /\ KeptInv => KeptInv'
           /\ (\A u \in Tab : RefusedInv(u)) => \A u \in Tab : RefusedInv(u)'
  <1>1. /\ UNCHANGED <<fam, ghosts, ended, lost>>
        /\ \A u \in Tab \ {t} : tab'[u] = tab[u] /\ call'[u] = call[u]
        /\ call'[t].stage = "none" /\ call'[t].kind = "none" /\ call'[t].tok = None
        /\ call'[t].status = "none" /\ call'[t].cookie = {}
        /\ call[t].stage = "answered"
        /\ call[t].cookie = {} => jar' = jar
        /\ call[t].cookie # {} => jar' \in call[t].cookie
    BY DEF Hears, Drops, Others
  <1>2. NotBegunNotDead' /\ Lossless' /\ EndedAreDead'
    BY <1>1 DEF Core, NotBegunNotDead, Lossless, EndedAreDead
  <1>3. TokensKnown'
    <2>1. Known(jar)'
      BY <1>1 DEF Core, TokensKnown, Known
    <2>2. ASSUME NEW u \in Tab
          PROVE  Known(call[u].tok)' /\ \A x \in call'[u].cookie : Known(x)'
      BY <1>1 DEF Core, TokensKnown, Known
    <2>3. \A g \in ghosts' : Known(g[2])'
      BY <1>1 DEF Core, TokensKnown, Known
    <2> QED
      BY <2>1, <2>2, <2>3 DEF TokensKnown
  <1>4. tab'[t].pc \in {"pause", "rest", "me"}
    BY DEF Hears
  <1>5. ASSUME NEW u \in Tab
        PROVE  CallInv(u)'
    <2>1. CallInv(u)
      BY DEF Core
    <2>2. CASE u # t
      BY <1>1, <2>1, <2>2 DEF CallInv, FamilyOf
    <2>3. CASE u = t
      BY <1>1, <1>4, <2>3 DEF CallInv
    <2> QED
      BY <2>2, <2>3
  <1>6. ASSUME NEW u \in Tab
        PROVE  Apart(u)'
    <2>1. CASE u = t
      BY <1>1, <2>1 DEF Apart
    <2>2. CASE u # t
      <3>1. Apart(u)
        BY DEF Core
      <3> SUFFICES ASSUME call[u].kind = "signin", NEW x \in call[u].cookie \ {None}
                   PROVE  /\ x[1] \notin FamilyOf(jar)'
                          /\ \A v \in Tab \ {u} : /\ x[1] \notin FamilyOf(call[v].tok)'
                                                  /\ \A y \in call'[v].cookie : x[1] \notin FamilyOf(y)
        BY <1>1, <2>2 DEF Apart, FamilyOf
      <3>2. /\ x[1] \notin FamilyOf(jar)
            /\ \A v \in Tab \ {u} : /\ x[1] \notin FamilyOf(call[v].tok)
                                    /\ \A y \in call[v].cookie : x[1] \notin FamilyOf(y)
        BY <3>1 DEF Apart
      <3>3. x[1] \notin FamilyOf(jar)'
        BY <1>1, <2>2, <3>2 DEF FamilyOf
      <3>4. ASSUME NEW v \in Tab \ {u}
            PROVE  /\ x[1] \notin FamilyOf(call[v].tok)'
                   /\ \A y \in call'[v].cookie : x[1] \notin FamilyOf(y)
        BY <1>1, <3>2 DEF FamilyOf
      <3> QED
        BY <3>3, <3>4
    <2> QED
      BY <2>1, <2>2
  <1>7. ASSUME LockInv
        PROVE  LockInv'
    <2>1. OneRefreshes'
      <3>1. tab'[t].pc \in Refreshing => tab[t].pc \in Refreshing
        BY DEF Hears, Refreshing
      <3> QED
        BY <1>1, <1>7, <3>1 DEF LockInv, OneRefreshes
    <2>2. (Current(jar) \/ Replaced)'
      <3>1. CASE call[t].cookie # {}
        BY <1>1, <1>7, <3>1 DEF LockInv, Current
      <3>2. CASE call[t].cookie = {} /\ Current(jar)
        BY <1>1, <3>2 DEF Current
      <3>3. CASE call[t].cookie = {} /\ Replaced
        <4>1. PICK u \in Tab : /\ call[u].kind = "refresh" /\ call[u].cookie # {}
                               /\ FamilyOf(call[u].tok) = FamilyOf(jar)
          BY <3>3 DEF Replaced
        <4>2. u # t
          BY <3>3, <4>1
        <4> QED
          BY <1>1, <3>3, <4>1, <4>2 DEF Replaced, FamilyOf
      <3> QED
        BY <1>7, <3>1, <3>2, <3>3 DEF LockInv
    <2>3. ASSUME NEW u \in Tab, call'[u].kind = "refresh", call'[u].stage = "sent"
          PROVE  Current(call[u].tok)'
      BY <1>1, <1>7, <2>3 DEF LockInv, Current
    <2>4. \A u \in Tab : \A x \in call'[u].cookie : Current(x)'
      BY <1>1, <1>7 DEF LockInv, Current
    <2>5. ReuseNeedsLoss' /\ \A h \in ghosts' : h[1] = "refresh" => FamilyOf(h[2]) \subseteq lost'
      BY <1>1, <1>7 DEF LockInv, ReuseNeedsLoss
    <2> QED
      BY <2>1, <2>2, <2>3, <2>4, <2>5 DEF LockInv, FamilyOf
  <1>8. ASSUME NEW u \in Tab, RefusedInv(u)
        PROVE  RefusedInv(u)'
    <2>1. overtaken \subseteq overtaken'
      BY DEF Hears, Learns
    <2>2. CASE u # t
      BY <1>1, <1>8, <2>1, <2>2 DEF RefusedInv, FamilyOf
    <2>3. CASE u = t
      <3>1. CallInv(t) /\ call[t].status \in {"none", "ok", "refused", "failed"}
        BY DEF Core, TypeOK, CallState
      <3>2. CASE tab'[t].refused = tab[t].refused
        BY <1>1, <1>4, <1>8, <2>1, <2>3, <3>2 DEF RefusedInv
      <3>3. CASE tab'[t].refused # tab[t].refused
        <4>1. /\ call[t].kind = "refresh" /\ tab'[t].refused = tab[t].held
              /\ call[t].status # "ok"
          BY <3>3 DEF Hears
        <4>2. call[t].status = "refused" /\ tab[t].pc \in {"first", "second"}
          BY <1>1, <1>8, <2>3, <3>1, <4>1 DEF CallInv, RefusedInv
        <4>3. \A f \in tab[t].held \ overtaken : fam[f].dead
          BY <1>8, <2>3, <4>1, <4>2 DEF RefusedInv
        <4> QED
          BY <1>1, <1>4, <2>1, <2>3, <4>1, <4>3 DEF RefusedInv
      <3> QED
        BY <3>2, <3>3
    <2> QED
      BY <2>2, <2>3
  <1>9. \A f \in stored' \ stored : \E x \in call[t].cookie : FamilyOf(x) = {f} /\ x # None
    BY DEF Hears, Learns, FamilyOf
  <1>10. StoredBegun'
    <2>1. ASSUME NEW f \in stored' \ stored
          PROVE  fam[f].tip # 0
      <3>1. PICK x \in call[t].cookie : FamilyOf(x) = {f} /\ x # None
        BY <1>9
      <3>2. x \in Token /\ x[1] = f /\ Known(x)
        BY <3>1, Typed DEF Core, TokensKnown, FamilyOf
      <3> QED
        BY <3>1, <3>2, Typed DEF Known
    <2> QED
      BY <1>1, <2>1 DEF Core, StoredBegun
  <1>11. ASSUME KeptInv
         PROVE  KeptInv'
    <2>1. ASSUME NEW f \in stored' \ overtaken', ~fam[f].dead
          PROVE  Beholden(f)'
      <3>1. overtaken \subseteq overtaken'
        BY DEF Hears, Learns
      <3>2. CASE f \in stored
        <4>1. Beholden(f)
          BY <1>11, <2>1, <3>1, <3>2 DEF KeptInv
        <4>2. FamilyOf(jar)' = {f}
          BY <1>1, <4>1 DEF Beholden, FamilyOf
        <4>3. ASSUME NEW u \in Tab, call'[u].stage # "none"
              PROVE  /\ FamilyOf(call[u].tok)' = {f}
                     /\ \A x \in call'[u].cookie : FamilyOf(x)' = {f}
          BY <1>1, <4>1, <4>3 DEF Beholden, FamilyOf
        <4> QED
          BY <4>2, <4>3 DEF Beholden, FamilyOf
      <3>3. CASE f \notin stored
        <4>1. PICK x \in call[t].cookie : FamilyOf(x) = {f} /\ x # None
          BY <1>9, <2>1, <3>3
        <4>2. jar' = x
          BY <1>1, <4>1 DEF Core, CallInv
        <4>3. \A u \in Tab : call'[u].stage = "none"
          BY <1>1, <2>1, <3>3 DEF Hears, Learns
        <4> QED
          BY <4>1, <4>2, <4>3 DEF Beholden, FamilyOf
      <3> QED
        BY <3>2, <3>3
    <2> QED
      BY <1>1, <2>1 DEF KeptInv
  <1> QED
    BY <1>2, <1>3, <1>5, <1>6, <1>7, <1>8, <1>10, <1>11 DEF Core

\* A tab gives up on its call, which may yet be handled.
LEMMA AbandonStep ==
    ASSUME TypeOK, Core, NEW t \in Tab, Abandons(t)
    PROVE  Core' /\ (LockInv => LockInv') /\ (KeptInv => KeptInv')
  <1>1. /\ UNCHANGED <<fam, jar, ended, stored, overtaken>> /\ Lossy
        /\ \A u \in Tab \ {t} : tab'[u] = tab[u] /\ call'[u] = call[u]
        /\ call'[t].stage = "none" /\ call'[t].kind = "none" /\ call'[t].tok = None
        /\ call'[t].status = "none" /\ call'[t].cookie = {}
        /\ tab'[t].pc \in {"rest", "queued"}
        /\ lost \subseteq lost'
        /\ call[t].kind = "refresh" => FamilyOf(call[t].tok) \subseteq lost'
        /\ \A g \in ghosts' : g \in ghosts \/ (g[1] = call[t].kind /\ g[2] = call[t].tok)
    BY DEF Abandons, Drops, Others, History
  <1>2. NotBegunNotDead' /\ Lossless' /\ EndedAreDead' /\ StoredBegun'
    BY <1>1 DEF Core, NotBegunNotDead, Lossless, EndedAreDead, StoredBegun
  <1>3. TokensKnown'
    <2>1. Known(jar)'
      BY <1>1 DEF Core, TokensKnown, Known
    <2>2. ASSUME NEW u \in Tab
          PROVE  Known(call[u].tok)' /\ \A x \in call'[u].cookie : Known(x)'
      BY <1>1 DEF Core, TokensKnown, Known
    <2>3. \A g \in ghosts' : Known(g[2])'
      BY <1>1 DEF Core, TokensKnown, Known
    <2> QED
      BY <2>1, <2>2, <2>3 DEF TokensKnown
  <1>4. ASSUME NEW u \in Tab
        PROVE  CallInv(u)'
    <2>1. CallInv(u)
      BY DEF Core
    <2>2. CASE u # t
      BY <1>1, <2>1, <2>2 DEF CallInv, FamilyOf
    <2>3. CASE u = t
      BY <1>1, <2>3 DEF CallInv
    <2> QED
      BY <2>2, <2>3
  <1>5. ASSUME NEW u \in Tab
        PROVE  Apart(u)'
    <2>1. CASE u = t
      BY <1>1, <2>1 DEF Apart
    <2>2. CASE u # t
      <3>1. Apart(u)
        BY DEF Core
      <3> QED
        BY <1>1, <2>2, <3>1 DEF Apart, FamilyOf
    <2> QED
      BY <2>1, <2>2
  <1>6. ASSUME LockInv
        PROVE  LockInv'
    <2>1. OneRefreshes'
      BY <1>1, <1>6 DEF LockInv, OneRefreshes, Refreshing
    <2>2. (Current(jar) \/ Replaced)'
      <3>1. CASE Current(jar)
        BY <1>1, <3>1 DEF Current
      <3>2. CASE Replaced
        <4>1. PICK u \in Tab : /\ call[u].kind = "refresh" /\ call[u].cookie # {}
                               /\ FamilyOf(call[u].tok) = FamilyOf(jar)
          BY <3>2 DEF Replaced
        <4>2. CASE u = t
          BY <1>1, <4>1, <4>2 DEF Current, FamilyOf
        <4>3. CASE u # t
          BY <1>1, <4>1, <4>3 DEF Replaced, FamilyOf
        <4> QED
          BY <4>2, <4>3
      <3> QED
        BY <1>6, <3>1, <3>2 DEF LockInv
    <2>3. ASSUME NEW u \in Tab, call'[u].kind = "refresh", call'[u].stage = "sent"
          PROVE  Current(call[u].tok)'
      BY <1>1, <1>6, <2>3 DEF LockInv, Current
    <2>4. \A u \in Tab : \A x \in call'[u].cookie : Current(x)'
      BY <1>1, <1>6 DEF LockInv, Current
    <2>5. ReuseNeedsLoss'
      BY <1>1, <1>6 DEF LockInv, ReuseNeedsLoss
    <2>6. \A g \in ghosts' : g[1] = "refresh" => FamilyOf(g[2]) \subseteq lost'
      BY <1>1, <1>6 DEF LockInv
    <2> QED
      BY <2>1, <2>2, <2>3, <2>4, <2>5, <2>6 DEF LockInv, FamilyOf
  <1>7. ASSUME KeptInv
        PROVE  KeptInv'
    <2>1. ASSUME NEW f \in stored \ overtaken, ~fam[f].dead
          PROVE  Beholden(f)'
      <3>1. Beholden(f)
        BY <1>7, <2>1 DEF KeptInv
      <3> QED
        BY <1>1, <3>1 DEF Beholden, FamilyOf
    <2> QED
      BY <1>1, <2>1 DEF KeptInv
  <1> QED
    BY <1>2, <1>3, <1>4, <1>5, <1>6, <1>7 DEF Core

-----------------------------------------------------------------------------
(* The invariant. *)

\* A browser without a cookie and a server without sessions.
LEMMA InitInv ==
    ASSUME Init
    PROVE  IInv
  <1>1. /\ \A t \in Tab : tab[t] = [ui |-> "loading", pc |-> "rest", access |-> FALSE,
                                    again |-> FALSE, held |-> {}, refused |-> {}]
        /\ \A t \in Tab : call[t] = NoCall
        /\ ghosts = {} /\ loads = 0 /\ ended = {} /\ lost = {}
        /\ stored = FamilyOf(jar) /\ overtaken = {}
    BY DEF Init
  <1>2. \A t \in Tab : /\ call[t].stage = "none" /\ call[t].kind = "none" /\ call[t].tok = None
                       /\ call[t].status = "none" /\ call[t].cookie = {}
                       /\ tab[t].pc = "rest" /\ tab[t].refused = {}
    BY <1>1 DEF NoCall
  <1>3. /\ fam \in [Family -> FamilyState] /\ jar \in Token \cup {None}
        /\ \A f \in Family : ~fam[f].dead
        /\ jar # None => jar[2] = 1 /\ fam[jar[1]].tip = 1
    <2>1. NoFamily \in FamilyState /\ ~NoFamily.dead
      BY DEF NoFamily, FamilyState
    <2>2. CASE fam = [f \in Family |-> NoFamily] /\ jar = None
      BY <2>1, <2>2
    <2>3. CASE \E f \in Family : /\ fam = [[g \in Family |-> NoFamily] EXCEPT ![f].tip = 1]
                                 /\ jar = <<f, 1>>
      <3>1. PICK f \in Family : /\ fam = [[g \in Family |-> NoFamily] EXCEPT ![f].tip = 1]
                                /\ jar = <<f, 1>>
        BY <2>3
      <3>2. PICK r : r = [NoFamily EXCEPT !.tip = 1]
        OBVIOUS
      <3>3. r \in FamilyState /\ r.tip = 1 /\ ~r.dead
        BY <3>2 DEF NoFamily, FamilyState
      <3>4. fam = [g \in Family |-> IF g = f THEN r ELSE NoFamily]
        BY <3>1, <3>2
      <3> QED
        BY <2>1, <3>1, <3>3, <3>4 DEF Token
    <2> QED
      BY <2>2, <2>3 DEF Init
  <1>4. TypeOK
    <2>1. NoCall \in CallState
      BY DEF NoCall, CallState
    <2>2. [ui |-> "loading", pc |-> "rest", access |-> FALSE,
           again |-> FALSE, held |-> {}, refused |-> {}] \in TabState
      BY DEF TabState, Pc
    <2>3. tab \in [Tab -> TabState] /\ call \in [Tab -> CallState]
      BY <2>1, <2>2 DEF Init
    <2>4. stored \subseteq Family
      BY <1>1, <1>3 DEF FamilyOf, Token
    <2> QED
      BY <1>1, <1>3, <2>3, <2>4 DEF TypeOK
  <1>5. Core
    <2>1. NotBegunNotDead /\ Lossless /\ EndedAreDead
      BY <1>1, <1>3 DEF NotBegunNotDead, Lossless, EndedAreDead
    <2>2. TokensKnown
      BY <1>1, <1>2, <1>3 DEF TokensKnown, Known
    <2>3. \A t \in Tab : CallInv(t) /\ Apart(t)
      BY <1>2 DEF CallInv, Apart
    <2>4. StoredBegun
      BY <1>1, <1>3 DEF StoredBegun, FamilyOf
    <2> QED
      BY <2>1, <2>2, <2>3, <2>4 DEF Core
  <1>6. LockInv
    <2>1. Current(jar)
      BY <1>3 DEF Current
    <2> QED
      BY <1>1, <1>2, <1>3, <2>1 DEF LockInv, OneRefreshes, Refreshing, ReuseNeedsLoss
  <1>7. \A t \in Tab : RefusedInv(t)
    BY <1>2 DEF RefusedInv
  <1>8. KeptInv
    BY <1>1, <1>2 DEF KeptInv, Beholden, FamilyOf
  <1> QED
    BY <1>4, <1>5, <1>6, <1>7, <1>8 DEF IInv

\* IInv speaks of nothing but the variables.
LEMMA StutterInv ==
    ASSUME IInv, UNCHANGED vars
    PROVE  IInv'
  <1>1. UNCHANGED <<fam, jar, tab, call, ghosts, loads, ended, lost, stored, overtaken>>
    BY DEF vars
  <1>2. TypeOK'
    BY <1>1 DEF IInv, TypeOK
  <1>3. Core'
    <2>1. (NotBegunNotDead /\ StoredBegun /\ Lossless /\ EndedAreDead)'
      BY <1>1 DEF IInv, Core, NotBegunNotDead, StoredBegun, Lossless, EndedAreDead
    <2>2. TokensKnown'
      BY <1>1 DEF IInv, Core, TokensKnown, Known
    <2>3. ASSUME NEW t \in Tab
          PROVE  CallInv(t)' /\ Apart(t)'
      <3>1. CallInv(t) /\ Apart(t)
        BY DEF IInv, Core
      <3>2. CallInv(t)'
        BY <1>1, <3>1 DEF CallInv, FamilyOf
      <3>3. Apart(t)'
        BY <1>1, <3>1 DEF Apart, FamilyOf
      <3> QED
        BY <3>2, <3>3
    <2> QED
      BY <2>1, <2>2, <2>3 DEF Core
  <1>4. LockInv => LockInv'
    BY <1>1 DEF LockInv, OneRefreshes, Current, Replaced, FamilyOf, ReuseNeedsLoss
  <1>5. \A t \in Tab : RefusedInv(t) => RefusedInv(t)'
    BY <1>1 DEF RefusedInv, FamilyOf
  <1>6. KeptInv => KeptInv'
    BY <1>1 DEF KeptInv, Beholden, FamilyOf
  <1> QED
    BY <1>2, <1>3, <1>4, <1>5, <1>6 DEF IInv

\* One case per action, each by its shape.
LEMMA StepInv ==
    ASSUME IInv, Next
    PROVE  IInv'
  <1>1. /\ TypeOK /\ Core /\ NotBegunNotDead /\ TokensKnown /\ \A t \in Tab : CallInv(t)
        /\ Locks => LockInv
        /\ ~Faulty => KeptInv
        /\ Locks /\ ~Lossy /\ ~Faulty => \A t \in Tab : RefusedInv(t)
    BY DEF IInv, Core
  <1>2. CASE HandleGhost
    BY <1>1, <1>2, GhostStep DEF IInv
  <1>3. ASSUME NEW f \in Family, GraceEnds(f)
        PROVE  IInv'
    BY <1>1, <1>3, GraceStep DEF IInv
  <1>4. ASSUME NEW t \in Tab, Load(t) \/ LoadMe(t)
        PROVE  IInv'
    <2>1. Moves(t) /\ TypeOK'
      BY <1>1, <1>4, MoveShape
    <2> QED
      BY <1>1, <2>1, MoveStep DEF IInv
  <1>5. ASSUME NEW t \in Tab, AcquireLock(t) \/ Retry(t) \/ SignIn(t) \/ SignOut(t)
        PROVE  IInv'
    <2>1. TypeOK' /\ \E kind \in Kind : Sends(t, kind)
      BY <1>1, <1>5, SendShape
    <2> QED
      BY <1>1, <2>1, SendStep DEF IInv
  <1>6. ASSUME NEW t \in Tab, Handle(t)
        PROVE  IInv'
    <2>1. TypeOK' /\ \E o : Effect(call[t].kind, call[t].tok, o) /\ Handles(t, o)
      BY <1>1, <1>6, HandleShape
    <2>2. PICK o : Effect(call[t].kind, call[t].tok, o) /\ Handles(t, o)
      BY <2>1
    <2>3. Core'
      BY <1>1, <2>1, <2>2, HandleCore
    <2>4. LockInv => LockInv'
      BY <1>1, <2>2, HandleLock
    <2>5. Locks /\ ~Lossy /\ ~Faulty => \A u \in Tab : RefusedInv(u)'
      BY <1>1, <2>1, <2>2, HandleRefused
    <2>6. ~Faulty => KeptInv'
      BY <1>1, <2>2, HandleKept
    <2> QED
      BY <1>1, <2>1, <2>3, <2>4, <2>5, <2>6 DEF IInv
  <1>7. ASSUME NEW t \in Tab, Answer(t)
        PROVE  IInv'
    <2>1. Hears(t) /\ TypeOK'
      BY <1>1, <1>7, HearShape
    <2> QED
      BY <1>1, <2>1, HearStep DEF IInv
  <1>8. ASSUME NEW t \in Tab, Unreachable(t) \/ Reload(t) \/ CallLost(t)
        PROVE  IInv'
    <2>1. Abandons(t) /\ TypeOK' /\ Lossy
      BY <1>1, <1>8, AbandonShape DEF Abandons
    <2> QED
      BY <1>1, <2>1, AbandonStep DEF IInv
  <1> QED
    BY <1>2, <1>3, <1>4, <1>5, <1>6, <1>7, <1>8 DEF Next

\* The inductive invariant, on which the other theorems rest: whoever holds the
\* lock of refresh sends the last token of its family, the answer to a sign-in
\* is known to nobody else, and what a lost answer can spoil is named.
THEOREM Invariance == Spec => []IInv
  <1>1. Init => IInv
    BY InitInv
  <1>2. IInv /\ [Next]_vars => IInv'
    BY StepInv, StutterInv
  <1> QED
    BY <1>1, <1>2, PTL DEF Spec

-----------------------------------------------------------------------------
(* The theorems. *)

\* The jar, the tabs, their calls and the server's families keep their types,
\* whatever is lost, delayed, reloaded or fails.
THEOREM TypeCorrect == Spec => []TypeOK
  <1>1. IInv => TypeOK
    BY DEF IInv
  <1> QED
    BY <1>1, Invariance, PTL

\* With Web Locks, and however calls are lost, pages reloaded and the database
\* fails, AuthRefresh takes no honest token for a replay unless the answer to
\* an earlier refresh of that family was lost.
THEOREM OnlyLossLooksLikeReuse ==
    ASSUME Locks
    PROVE  Spec => []ReuseNeedsLoss
  <1>1. IInv => ReuseNeedsLoss
    BY DEF IInv, LockInv
  <1> QED
    BY <1>1, Invariance, PTL

\* With Web Locks and calls that arrive, any number of tabs refreshing, signing
\* in and signing out never trip reuse detection, also over a failing database.
THEOREM HonestTabs ==
    ASSUME Locks, ~Lossy
    PROVE  Spec => []HonestTabsStaySignedIn
  <1>1. IInv => HonestTabsStaySignedIn
    BY DEF IInv, LockInv, Core, Lossless, ReuseNeedsLoss, HonestTabsStaySignedIn
  <1> QED
    BY <1>1, Invariance, PTL

\* Unless the database fails, a session whose cookie the browser was given is
\* kept in the jar until it ends, whether or not tabs take turns and whatever
\* the network loses, if no call of another tab was under way when it arrived.
THEOREM SessionsAreKept ==
    ASSUME ~Faulty
    PROVE  Spec => []KeptUnlessOvertaken
  <1>1. IInv => KeptUnlessOvertaken
    BY DEF IInv, KeptInv, Beholden, KeptUnlessOvertaken, Live
  <1> QED
    BY <1>1, Invariance, PTL

\* If neither the network nor the database fails, what postRefresh takes from
\* its second 401 is true of every session the browser holds, but for those.
THEOREM RefusalIsFinal ==
    ASSUME Locks, ~Lossy, ~Faulty
    PROVE  Spec => []OverUnlessOvertaken
  <1>1. IInv => OverUnlessOvertaken
    BY DEF IInv, RefusedInv, OverUnlessOvertaken, Live
  <1> QED
    BY <1>1, Invariance, PTL

\* Unless RevokeByToken fails, a family that a sign-out or a new sign-in ended
\* is dead, whichever cookie a late answer leaves in the jar, with or without
\* Web Locks and on any network.
THEOREM SignOutIsFinal ==
    ASSUME ~Faulty
    PROVE  Spec => []SignOutHolds
  <1>1. IInv => SignOutHolds
    <2> SUFFICES ASSUME IInv, jar # None, jar[1] \in ended
                 PROVE  ~Live(jar[1])
      BY DEF SignOutHolds
    <2>1. fam[jar[1]].dead
      BY DEF IInv, Core, EndedAreDead
    <2> QED
      BY <2>1 DEF Live
  <1> QED
    BY <1>1, Invariance, PTL
=============================================================================
