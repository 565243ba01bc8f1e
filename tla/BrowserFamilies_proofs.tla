----------------------- MODULE BrowserFamilies_proofs -----------------------
(***************************************************************************)
(* The proof that the server Browser talks to implements SessionFamilies,  *)
(* for every value of the constants.  RefreshTokens implements the same    *)
(* specification statement by statement: what Browser assumes of sessions  *)
(* is what sessions.go promises.                                           *)
(***************************************************************************)
EXTENDS Browser_proofs

-----------------------------------------------------------------------------
(* A family as SessionFamilies sees it. *)

UnspentOf(f) == IF fam[f].tip = 0 THEN {} ELSE {<<f, fam[f].tip>>}
SpentOf(f) == {<<f, n>> : n \in 1..(fam[f].tip - 1)}

\* The values of the refinement mapping at f, before and after a step.
LEMMA Views ==
    ASSUME NEW f \in Family
    PROVE  /\ [g \in Family |-> IF fam[g].tip = 0 THEN {} ELSE {<<g, fam[g].tip>>}][f] = UnspentOf(f)
           /\ [g \in Family |-> IF fam[g].tip = 0 THEN {} ELSE {<<g, fam[g].tip>>}]'[f] = UnspentOf(f)'
           /\ [g \in Family |-> {<<g, n>> : n \in 1..(fam[g].tip - 1)}][f] = SpentOf(f)
           /\ [g \in Family |-> {<<g, n>> : n \in 1..(fam[g].tip - 1)}]'[f] = SpentOf(f)'
           /\ [g \in Family |-> fam[g].dead][f] = fam[f].dead
           /\ [g \in Family |-> fam[g].dead]'[f] = fam'[f].dead
           /\ [g \in Family |-> FALSE][f] = FALSE
           /\ [g \in Family |-> FALSE]'[f] = FALSE
  <1>1. /\ [g \in Family |-> IF fam[g].tip = 0 THEN {} ELSE {<<g, fam[g].tip>>}][f] = UnspentOf(f)
        /\ [g \in Family |-> IF fam[g].tip = 0 THEN {} ELSE {<<g, fam[g].tip>>}]'[f] = UnspentOf(f)'
    BY Zenon DEF UnspentOf
  <1>2. /\ [g \in Family |-> {<<g, n>> : n \in 1..(fam[g].tip - 1)}][f] = SpentOf(f)
        /\ [g \in Family |-> {<<g, n>> : n \in 1..(fam[g].tip - 1)}]'[f] = SpentOf(f)'
    BY Zenon DEF SpentOf
  <1>3. /\ [g \in Family |-> fam[g].dead][f] = fam[f].dead
        /\ [g \in Family |-> fam[g].dead]'[f] = fam'[f].dead
        /\ [g \in Family |-> FALSE][f] = FALSE
        /\ [g \in Family |-> FALSE]'[f] = FALSE
    BY Zenon
  <1> QED
    BY <1>1, <1>2, <1>3, Zenon

\* A generation that has not been reached is fresh.
LEMMA FreshMaps ==
    ASSUME TypeOK, NEW f \in Family, NEW m \in Nat, fam[f].tip < m
    PROVE  Families!Fresh(<<f, m>>)
  <1>1. ASSUME NEW g \in Family
        PROVE  <<f, m>> \notin UnspentOf(g) \cup SpentOf(g)
    <2>1. fam[g].tip \in Nat /\ fam[f].tip \in Nat
      BY Typed
    <2> QED
      BY <2>1 DEF UnspentOf, SpentOf
  <1> QED
    BY <1>1, Views, Zenon DEF Families!Fresh

\* A family of which neither the last generation nor the end changes stays.
LEMMA StayMaps ==
    ASSUME NEW f \in Family, fam'[f].tip = fam[f].tip, fam'[f].dead = fam[f].dead
    PROVE  Families!Stay(f)
  <1>1. UnspentOf(f)' = UnspentOf(f) /\ SpentOf(f)' = SpentOf(f)
    BY DEF UnspentOf, SpentOf
  <1> QED
    BY <1>1, Views, Zenon DEF Families!Stay

\* A family begins.
LEMMA IssueMaps ==
    ASSUME TypeOK, NEW f \in Family, fam[f].tip = 0, fam'[f].tip = 1,
           ~fam[f].dead, fam'[f].dead = fam[f].dead
    PROVE  Families!Issue(f)
  <1>1. UnspentOf(f) = {} /\ SpentOf(f) = {}
    BY DEF UnspentOf, SpentOf
  <1>2. UnspentOf(f)' = {<<f, 1>>} /\ SpentOf(f)' = {}
    BY DEF UnspentOf, SpentOf
  <1>3. Families!Fresh(<<f, 1>>) /\ <<f, 1>> \in {<<f, 1>>}
    BY FreshMaps
  <1> QED
    BY <1>1, <1>2, <1>3, Views, Zenon DEF Families!Issue

\* A family is extended.
LEMMA RotateMaps ==
    ASSUME TypeOK, NEW f \in Family, fam[f].tip # 0, fam'[f].tip = fam[f].tip + 1,
           ~fam[f].dead, fam'[f].dead = fam[f].dead
    PROVE  Families!Rotate(f)
  <1>1. fam[f].tip \in Nat \ {0}
    BY Typed
  <1>2. PICK t, n : t = <<f, fam[f].tip>> /\ n = <<f, fam[f].tip + 1>>
    OBVIOUS
  <1>3. UnspentOf(f) = {t} /\ UnspentOf(f)' = {n}
    BY <1>1, <1>2 DEF UnspentOf
  <1>4. SpentOf(f)' = SpentOf(f) \cup {t}
    <2>1. 1..(fam'[f].tip - 1) = 1..(fam[f].tip - 1) \cup {fam[f].tip}
      BY <1>1
    <2> QED
      BY <1>2, <2>1 DEF SpentOf
  <1>5. Families!Fresh(n) /\ t \in {t} /\ n \in {n}
    BY <1>1, <1>2, FreshMaps
  <1>6. Families!Extend(f)
    BY <1>3, <1>4, <1>5, Views, Zenon DEF Families!Extend
  <1> QED
    BY <1>6, Views, Zenon DEF Families!Rotate

\* A family that has begun is revoked.
LEMMA RevokeMaps ==
    ASSUME NEW f \in Family, fam[f].tip # 0, fam'[f].tip = fam[f].tip,
           ~fam[f].dead, fam'[f].dead
    PROVE  Families!Revoke(f)
  <1>1. UnspentOf(f) # {} /\ UnspentOf(f)' = UnspentOf(f) /\ SpentOf(f)' = SpentOf(f)
    BY DEF UnspentOf, SpentOf
  <1> QED
    BY <1>1, Views, Zenon DEF Families!Revoke

-----------------------------------------------------------------------------
(* The refinement. *)

\* Handling a call is a step of every family.
LEMMA EffectRefines ==
    ASSUME TypeOK, TypeOK', NotBegunNotDead, NEW kind \in Kind, NEW tok \in Token \cup {None},
           Known(tok), NEW o, Effect(kind, tok, o), fam' = o.fam
    PROVE  Families!Next
  <1> SUFFICES ASSUME NEW f \in Family
               PROVE  \/ Families!Stay(f) \/ Families!Issue(f) \/ Families!Rotate(f)
                      \/ Families!Revoke(f)
    BY DEF Families!Next
  <1>1. FamilyEffect(f, kind, tok, o)
    BY DEF Effect
  <1>2. /\ fam[f].tip \in Nat /\ fam[f].dead \in BOOLEAN /\ fam'[f].dead \in BOOLEAN
        /\ fam[f].dead => fam'[f].dead
        /\ fam[f].tip = 0 => ~fam[f].dead
        /\ fam'[f].tip = 0 => ~fam'[f].dead
    <2>1. fam[f] \in FamilyState /\ fam'[f] \in FamilyState
      BY DEF TypeOK
    <2>2. NotBegunNotDead'
      BY Onward
    <2> QED
      BY <1>1, <2>1, <2>2 DEF FamilyState, FamilyEffect, NotBegunNotDead
  <1>3. CASE fam'[f].tip = fam[f].tip /\ fam'[f].dead = fam[f].dead
    BY <1>3, StayMaps
  <1>4. CASE fam'[f].tip = fam[f].tip /\ fam'[f].dead # fam[f].dead
    <2>1. ~fam[f].dead /\ fam'[f].dead /\ fam[f].tip # 0
      BY <1>2, <1>4
    <2> QED
      BY <1>4, <2>1, RevokeMaps
  <1>5. CASE fam[f].tip = 0 /\ fam'[f].tip = 1 /\ ~fam'[f].dead
    <2>1. ~fam[f].dead /\ fam'[f].dead = fam[f].dead
      BY <1>2, <1>5
    <2> QED
      BY <1>5, <2>1, IssueMaps
  <1>6. CASE /\ tok # None /\ tok[1] = f /\ tok[2] = fam[f].tip
             /\ fam'[f].tip = fam[f].tip + 1 /\ ~fam'[f].dead
    <2>1. ~fam[f].dead /\ fam'[f].dead = fam[f].dead
      BY <1>2, <1>6
    <2>2. fam[f].tip # 0
      BY <1>6 DEF Token
    <2> QED
      BY <1>6, <2>1, <2>2, RotateMaps
  <1> QED
    BY <1>1, <1>3, <1>4, <1>5, <1>6 DEF FamilyEffect

\* The families are as they were, but for a grace window that ended.
LEMMA SameRefines ==
    ASSUME \A f \in Family : fam'[f].tip = fam[f].tip /\ fam'[f].dead = fam[f].dead
    PROVE  Families!Next
  BY StayMaps DEF Families!Next

\* A browser starts without a session, or with the first token of one.
LEMMA InitRefines ==
    ASSUME Init
    PROVE  Families!Init
  <1>1. TypeOK /\ \A f \in Family : ~fam[f].dead /\ fam[f].tip \in {0, 1}
    <2>1. IInv
      BY InitInv
    <2>2. CASE fam = [f \in Family |-> NoFamily]
      BY <2>1, <2>2 DEF IInv, NoFamily
    <2>3. CASE \E f \in Family : fam = [[g \in Family |-> NoFamily] EXCEPT ![f].tip = 1]
      <3>1. PICK f \in Family : fam = [[g \in Family |-> NoFamily] EXCEPT ![f].tip = 1]
        BY <2>3
      <3>2. PICK r : r = [NoFamily EXCEPT !.tip = 1]
        OBVIOUS
      <3>3. r.tip = 1 /\ ~r.dead
        BY <3>2 DEF NoFamily
      <3>4. fam = [g \in Family |-> IF g = f THEN r ELSE NoFamily]
        BY <3>1, <3>2
      <3> QED
        BY <2>1, <3>3, <3>4 DEF IInv, NoFamily
    <2> QED
      BY <2>2, <2>3 DEF Init
  <1>2. ASSUME NEW f \in Family
        PROVE  (\A s, t \in UnspentOf(f) : s = t) /\ SpentOf(f) = {}
    BY <1>1 DEF UnspentOf, SpentOf
  <1> QED
    BY <1>1, <1>2, Views, Zenon DEF Families!Init

\* Every step of the browser and its server is a step of the families.
LEMMA StepRefines ==
    ASSUME IInv, [Next]_vars
    PROVE  Families!Next
  <1>1. /\ TypeOK /\ Core /\ NotBegunNotDead /\ TokensKnown /\ \A t \in Tab : CallInv(t)
    BY DEF IInv, Core
  <1>2. CASE UNCHANGED fam
    BY <1>2, SameRefines
  <1>3. CASE HandleGhost
    <2>1. TypeOK' /\ \E g, o : /\ g \in ghosts /\ g[1] \in Kind /\ g[2] \in Token \cup {None}
                               /\ Known(g[2]) /\ Effect(g[1], g[2], o) /\ fam' = o.fam
      BY <1>1, <1>3, GhostShape
    <2> QED
      BY <1>1, <2>1, EffectRefines
  <1>4. ASSUME NEW f \in Family, GraceEnds(f)
        PROVE  Families!Next
    <2>1. /\ fam \in [Family -> FamilyState] /\ fam[f] \in FamilyState
          /\ fam' = [fam EXCEPT ![f] = [fam[f] EXCEPT !.fresh = FALSE]]
      BY <1>1, <1>4 DEF TypeOK, GraceEnds
    <2>2. PICK r : r = [fam[f] EXCEPT !.fresh = FALSE]
      OBVIOUS
    <2>3. r.tip = fam[f].tip /\ r.dead = fam[f].dead
      BY <2>1, <2>2 DEF FamilyState
    <2>4. \A g \in Family : fam'[g].tip = fam[g].tip /\ fam'[g].dead = fam[g].dead
      BY <2>1, <2>2, <2>3
    <2> QED
      BY <2>4, SameRefines
  <1>5. ASSUME NEW t \in Tab, Handle(t)
        PROVE  Families!Next
    <2>1. TypeOK' /\ \E o : Effect(call[t].kind, call[t].tok, o) /\ Handles(t, o)
      BY <1>1, <1>5, HandleShape
    <2>2. PICK o : Effect(call[t].kind, call[t].tok, o) /\ Handles(t, o)
      BY <2>1
    <2>3. /\ call[t].kind \in Kind /\ call[t].tok \in Token \cup {None}
          /\ Known(call[t].tok) /\ fam' = o.fam
      BY <1>1, <2>2, Typed DEF Handles, TokensKnown
    <2> QED
      BY <1>1, <2>1, <2>2, <2>3, EffectRefines
  <1>6. ASSUME NEW t \in Tab,
               \/ Load(t) \/ Reload(t) \/ AcquireLock(t) \/ Retry(t) \/ LoadMe(t)
               \/ SignIn(t) \/ SignOut(t) \/ Answer(t) \/ Unreachable(t) \/ CallLost(t)
        PROVE  UNCHANGED fam
    BY <1>6 DEF Load, Reload, AcquireLock, Retry, LoadMe, SignIn, SignOut, Answer,
                RefreshAnswered, SignInAnswered, SignOutAnswered, Unreachable, CallLost
  <1> QED
    BY <1>2, <1>3, <1>4, <1>5, <1>6 DEF Next, vars

\* Whatever the tabs call, and whether or not the answers arrive, AuthCallback,
\* AuthRefresh and AuthLogout begin, extend and end families as SessionFamilies
\* says, and never revive one.
THEOREM Refinement == Spec => ImplementsFamilies
  <1>1. Init => Families!Init
    BY InitRefines
  <1>2. IInv /\ [Next]_vars => [Families!Next]_(Families!vars)
    BY StepRefines
  <1> QED
    BY <1>1, <1>2, Invariance, PTL DEF Spec, ImplementsFamilies, Families!Spec
=============================================================================
