-------------------- MODULE RefreshTokensFamilies_proofs --------------------
(***************************************************************************)
(* The proof that RefreshTokens implements SessionFamilies, for every      *)
(* value of the constants: a sign-in begins a line, the commit of a        *)
(* rotation extends one, or straggles, a revocation ends one or several,   *)
(* and every other statement changes nothing that a token's holder sees.   *)
(***************************************************************************)
EXTENDS RefreshTokens_proofs

-----------------------------------------------------------------------------
(* A family as SessionFamilies sees it. *)

UnspentOf(f) == {h \in FamilyRows(f) : rows[h].used = 0}
SpentOf(f) == {h \in FamilyRows(f) : rows[h].used # 0}
Straggled(f) == \E h \in late : rows[h].family = f

\* IInv speaks of pairs of tokens, and does not say that a line has an end.
LineHasEnd == \A f \in Family : FamilyRows(f) # {} => UnspentOf(f) # {}

\* The values of the refinement mapping at f, before and after a step.
LEMMA Views ==
    ASSUME NEW f \in Family
    PROVE  /\ [g \in Family |-> {h \in FamilyRows(g) : rows[h].used = 0}][f] = UnspentOf(f)
           /\ [g \in Family |-> {h \in FamilyRows(g) : rows[h].used = 0}]'[f] = UnspentOf(f)'
           /\ [g \in Family |-> {h \in FamilyRows(g) : rows[h].used # 0}][f] = SpentOf(f)
           /\ [g \in Family |-> {h \in FamilyRows(g) : rows[h].used # 0}]'[f] = SpentOf(f)'
           /\ [g \in Family |-> Dead(g)][f] = Dead(f)
           /\ [g \in Family |-> Dead(g)]'[f] = Dead(f)'
           /\ [g \in Family |-> \E h \in late : rows[h].family = g][f] = Straggled(f)
           /\ [g \in Family |-> \E h \in late : rows[h].family = g]'[f] = Straggled(f)'
  <1>1. /\ [g \in Family |-> {h \in FamilyRows(g) : rows[h].used = 0}][f] = UnspentOf(f)
        /\ [g \in Family |-> {h \in FamilyRows(g) : rows[h].used = 0}]'[f] = UnspentOf(f)'
    BY DEF UnspentOf
  <1>2. /\ [g \in Family |-> {h \in FamilyRows(g) : rows[h].used # 0}][f] = SpentOf(f)
        /\ [g \in Family |-> {h \in FamilyRows(g) : rows[h].used # 0}]'[f] = SpentOf(f)'
    BY DEF SpentOf
  <1>3. /\ [g \in Family |-> Dead(g)][f] = Dead(f)
        /\ [g \in Family |-> Dead(g)]'[f] = Dead(f)'
    BY Zenon DEF Dead
  <1>4. /\ [g \in Family |-> \E h \in late : rows[h].family = g][f] = Straggled(f)
        /\ [g \in Family |-> \E h \in late : rows[h].family = g]'[f] = Straggled(f)'
    BY Zenon DEF Straggled
  <1> QED
    BY <1>1, <1>2, <1>3, <1>4, Zenon

\* A family none of whose rows changes visibly stays as it is.
LEMMA StayMaps ==
    ASSUME NEW f \in Family, UnspentOf(f)' = UnspentOf(f), SpentOf(f)' = SpentOf(f),
           Dead(f)' = Dead(f), Straggled(f)' = Straggled(f)
    PROVE  Families!Stay(f)
  <1>1. [g \in Family |-> {h \in FamilyRows(g) : rows[h].used = 0}]'[f] =
           [g \in Family |-> {h \in FamilyRows(g) : rows[h].used = 0}][f]
    BY DEF UnspentOf
  <1>2. [g \in Family |-> {h \in FamilyRows(g) : rows[h].used # 0}]'[f] =
           [g \in Family |-> {h \in FamilyRows(g) : rows[h].used # 0}][f]
    BY DEF SpentOf
  <1>3. [g \in Family |-> \E h \in late : rows[h].family = g]'[f] =
           [g \in Family |-> \E h \in late : rows[h].family = g][f]
    BY Views, Zenon
  <1>4. [g \in Family |-> Dead(g)]'[f] = [g \in Family |-> Dead(g)][f]
    BY Views, Zenon
  <1> QED
    BY <1>1, <1>2, <1>3, <1>4, Zenon DEF Families!Stay

\* A hash that is not stored is fresh.
LEMMA FreshMaps ==
    ASSUME NEW h, h \notin Stored
    PROVE  Families!Fresh(h)
  BY DEF Families!Fresh, FamilyRows

\* A family without rows gets its first.
LEMMA IssueMaps ==
    ASSUME NEW f \in Family, NEW h, h \notin Stored,
           UnspentOf(f) = {}, SpentOf(f) = {}, ~Dead(f),
           UnspentOf(f)' = {h}, SpentOf(f)' = {},
           Dead(f)' = Dead(f), Straggled(f)' = Straggled(f)
    PROVE  Families!Issue(f)
  <1>1. Families!Fresh(h) /\ h \in {h}
    BY FreshMaps
  <1> QED
    BY <1>1, Views, Zenon DEF Families!Issue

\* The end of a line is spent, and a row that was not stored follows it.
LEMMA ExtendMaps ==
    ASSUME NEW f \in Family, NEW t, NEW n, n \notin Stored,
           UnspentOf(f) = {t}, UnspentOf(f)' = {n}, SpentOf(f)' = SpentOf(f) \cup {t},
           Dead(f)' = Dead(f),
           \/ ~Dead(f) /\ Straggled(f)' = Straggled(f)
           \/ Dead(f) /\ ~Straggled(f) /\ Straggled(f)'
    PROVE  Families!Rotate(f) \/ Families!Straggle(f)
  <1>1. Families!Fresh(n) /\ t \in {t} /\ n \in {n}
    BY FreshMaps
  <1>2. Families!Extend(f)
    BY <1>1, Views, Zenon DEF Families!Extend
  <1> QED
    BY <1>2, Views, Zenon DEF Families!Rotate, Families!Straggle

\* A line with an end is revoked.
LEMMA RevokeMaps ==
    ASSUME NEW f \in Family, UnspentOf(f) # {}, ~Dead(f), Dead(f)',
           UnspentOf(f)' = UnspentOf(f), SpentOf(f)' = SpentOf(f),
           Straggled(f)' = Straggled(f)
    PROVE  Families!Revoke(f)
  <1>1. [g \in Family |-> {h \in FamilyRows(g) : rows[h].used = 0}]'[f] =
           [g \in Family |-> {h \in FamilyRows(g) : rows[h].used = 0}][f]
    BY DEF UnspentOf
  <1>2. [g \in Family |-> {h \in FamilyRows(g) : rows[h].used # 0}]'[f] =
           [g \in Family |-> {h \in FamilyRows(g) : rows[h].used # 0}][f]
    BY DEF SpentOf
  <1>3. [g \in Family |-> \E h \in late : rows[h].family = g]'[f] =
           [g \in Family |-> \E h \in late : rows[h].family = g][f]
    BY Views, Zenon
  <1>4. /\ [g \in Family |-> {h \in FamilyRows(g) : rows[h].used = 0}][f] # {}
        /\ ~[g \in Family |-> Dead(g)][f] /\ [g \in Family |-> Dead(g)]'[f]
    BY Views, Zenon
  <1> QED
    BY <1>1, <1>2, <1>3, <1>4, Zenon DEF Families!Revoke

\* The table is as it was: a stutter.
LEMMA StutterMaps ==
    ASSUME UNCHANGED <<rows, late>>
    PROVE  UNCHANGED Families!vars
  <1>1. Stored' = Stored
    BY DEF Stored
  <1>2. \A f : FamilyRows(f)' = FamilyRows(f)
    BY <1>1 DEF FamilyRows
  <1>3. \A f : Dead(f)' <=> Dead(f)
    BY <1>2 DEF Dead
  <1>4. /\ [f \in Family |-> {h \in FamilyRows(f) : rows[h].used = 0}]' =
              [f \in Family |-> {h \in FamilyRows(f) : rows[h].used = 0}]
        /\ [f \in Family |-> {h \in FamilyRows(f) : rows[h].used # 0}]' =
              [f \in Family |-> {h \in FamilyRows(f) : rows[h].used # 0}]
    BY <1>2
  <1>5. [f \in Family |-> Dead(f)]' = [f \in Family |-> Dead(f)]
    BY <1>3
  <1>6. [f \in Family |-> \E h \in late : rows[h].family = f]' =
           [f \in Family |-> \E h \in late : rows[h].family = f]
    OBVIOUS
  <1> QED
    BY <1>4, <1>5, <1>6 DEF Families!vars

-----------------------------------------------------------------------------
(* The steps that change the table. *)

\* A family whose rows are the same as before, and have lost or gained no
\* straggler, stays.
LEMMA SameRowsStay ==
    ASSUME NEW f \in Family, FamilyRows(f)' = FamilyRows(f),
           \A h \in FamilyRows(f) : /\ rows'[h].used = rows[h].used
                                    /\ rows'[h].revoked = rows[h].revoked,
           Straggled(f)' = Straggled(f)
    PROVE  Families!Stay(f)
  <1>1. UnspentOf(f)' = UnspentOf(f)
    BY DEF UnspentOf
  <1>2. SpentOf(f)' = SpentOf(f)
    BY DEF SpentOf
  <1>3. Dead(f)' = Dead(f)
    BY DEF Dead
  <1> QED
    BY <1>1, <1>2, <1>3, StayMaps

\* Issue begins one line.
LEMMA IssueRefines ==
    ASSUME IInv, LineHasEnd, NEW r \in Request, NEW u \in User, Issue(r, u)
    PROVE  Families!Next /\ LineHasEnd'
  <1>1. PICK h \in Unused, f \in Family :
           /\ FamilyRows(f) = {}
           /\ rows' = [rows EXCEPT ![h] =
                         [EmptyRow EXCEPT !.family = f, !.user = u,
                                          !.issued = clock,
                                          !.expires = clock + TTL]]
    BY DEF Issue
  <1>2. /\ rows \in [Hash -> Row] /\ clock \in Nat \ {0} /\ late \subseteq Stored
        /\ late' = late /\ h \in Hash /\ h \notin Stored
    BY DEF IInv, TypeOK, Stragglers, Issue, Unused
  <1>3. /\ rows'[h].family = f /\ rows'[h].issued = clock
        /\ rows'[h].used = 0 /\ rows'[h].revoked = 0
    BY <1>1, <1>2 DEF EmptyRow
  <1>4. \A x \in Hash \ {h} : rows'[x] = rows[x]
    BY <1>1, <1>2
  <1>5. Stored' = Stored \cup {h}
    BY <1>2, <1>3, <1>4 DEF Stored
  <1>6. FamilyRows(f)' = {h} /\ \A g \in Family \ {f} : FamilyRows(g)' = FamilyRows(g)
    BY <1>1, <1>2, <1>3, <1>4, <1>5 DEF FamilyRows, Stored
  <1>7. \A g \in Family : Straggled(g)' = Straggled(g)
    BY <1>2, <1>4 DEF Straggled, Stored
  <1>8. Families!Issue(f)
    <2>1. UnspentOf(f) = {} /\ SpentOf(f) = {} /\ ~Dead(f)
      BY <1>1 DEF UnspentOf, SpentOf, Dead
    <2>2. UnspentOf(f)' = {h} /\ SpentOf(f)' = {}
      BY <1>3, <1>6 DEF UnspentOf, SpentOf
    <2>3. ~Dead(f)'
      BY <1>3, <1>6 DEF Dead
    <2>4. Dead(f)' = Dead(f)
      BY <2>1, <2>3, Zenon DEF Dead
    <2> QED
      BY <1>2, <1>7, <2>1, <2>2, <2>4, IssueMaps
  <1>9. ASSUME NEW g \in Family \ {f}
        PROVE  Families!Stay(g) /\ (FamilyRows(g)' # {} => UnspentOf(g)' # {})
    <2>1. \A x \in FamilyRows(g) : rows'[x] = rows[x]
      BY <1>2, <1>4 DEF FamilyRows, Stored
    <2>2. Families!Stay(g)
      BY <1>6, <1>7, <2>1, SameRowsStay
    <2>3. UnspentOf(g)' = UnspentOf(g)
      BY <1>6, <2>1 DEF UnspentOf
    <2> QED
      BY <1>6, <2>2, <2>3 DEF LineHasEnd
  <1>10. Families!Next
    BY <1>8, <1>9 DEF Families!Next
  <1>11. UnspentOf(f)' # {}
    BY <1>3, <1>6 DEF UnspentOf
  <1> QED
    BY <1>9, <1>10, <1>11 DEF LineHasEnd

\* The commit of a rotation extends the line of the token it spends, also if
\* the family was revoked after the token was checked.
LEMMA CommitRefines ==
    ASSUME IInv, LineHasEnd, NEW r \in Request, Commit(r)
    PROVE  Families!Next /\ LineHasEnd'
  <1> DEFINE t == req[r].tok
             n == req[r].new
             now == req[r].now
             f == rows[t].family
  <1>1. /\ rows' = CommitRows(t, n, now, req[r].expires)
        /\ late' = IF Dead(f) THEN late \cup {n} ELSE late
        /\ req[r].pc = "commit"
    BY DEF Commit
  <1>2. /\ rows \in [Hash -> Row] /\ gen \in [Hash -> Nat] /\ RequestInv(r)
        /\ now \in Nat
    BY DEF IInv, TypeOK, RequestState
  <1>3. /\ t \in Stored /\ t \notin late /\ t \in Hash /\ rows[t].used = 0
        /\ n \in Hash /\ n \notin Stored /\ n # t
        /\ rows[t].issued \in Nat /\ rows[t].issued < now
    BY <1>1, <1>2 DEF RequestInv, InTransaction, Holding, Stored, Row
  <1>4. now # 0
    BY <1>2, <1>3
  <1>5. /\ rows'[n].family = f /\ rows'[n].issued = now
        /\ rows'[n].used = 0 /\ rows'[n].revoked = 0
    BY <1>1, <1>2, <1>3 DEF CommitRows, EmptyRow
  <1>6. /\ rows'[t].family = f /\ rows'[t].issued = rows[t].issued
        /\ rows'[t].used = now /\ rows'[t].revoked = rows[t].revoked
    <2>1. rows'[t] = [rows[t] EXCEPT !.used = now]
      BY <1>1, <1>2, <1>3 DEF CommitRows
    <2>2. rows[t] \in Row
      BY <1>2, <1>3
    <2> QED
      BY <2>1, <2>2 DEF Row
  <1>7. \A x \in Hash \ {t, n} : rows'[x] = rows[x]
    BY <1>1, <1>2, <1>3 DEF CommitRows
  <1>8. Stored' = Stored \cup {n}
    BY <1>3, <1>4, <1>5, <1>6, <1>7 DEF Stored
  <1>9. late \subseteq Stored /\ \A h \in late : rows[h].used = 0
    BY DEF IInv, Stragglers
  <1>10. PICK fam : fam = f
    OBVIOUS
  <1>11. /\ FamilyRows(fam)' = FamilyRows(fam) \cup {n}
         /\ \A g \in Family \ {fam} : FamilyRows(g)' = FamilyRows(g)
    BY <1>3, <1>5, <1>6, <1>7, <1>8, <1>10 DEF FamilyRows, Stored
  <1>12. ASSUME NEW g \in Family \ {fam}
         PROVE  Families!Stay(g) /\ (FamilyRows(g)' # {} => UnspentOf(g)' # {})
    <2>1. \A x \in FamilyRows(g) : rows'[x] = rows[x]
      BY <1>3, <1>7, <1>10 DEF FamilyRows, Stored
    <2>2. Straggled(g)' = Straggled(g)
      <3>1. \A h \in late' : h = n \/ h \in late
        BY <1>1
      <3>2. \A h \in late : h \in late' /\ rows'[h].family = rows[h].family
        BY <1>1, <1>3, <1>7, <1>9 DEF Stored
      <3> QED
        BY <1>5, <1>10, <3>1, <3>2 DEF Straggled
    <2>3. Families!Stay(g)
      BY <1>11, <2>1, <2>2, SameRowsStay
    <2>4. UnspentOf(g)' = UnspentOf(g)
      BY <1>11, <2>1 DEF UnspentOf
    <2> QED
      BY <1>11, <2>3, <2>4 DEF LineHasEnd
  <1>13. CASE fam \notin Family
    <2>1. \A g \in Family : g \in Family \ {fam}
      BY <1>13
    <2>2. Families!Next
      BY <1>12, <2>1 DEF Families!Next
    <2> QED
      BY <1>12, <2>1, <2>2 DEF LineHasEnd
  <1>14. CASE fam \in Family
    <2>1. t \in FamilyRows(fam)
      BY <1>3, <1>10 DEF FamilyRows
    <2>2. \A h \in FamilyRows(fam) : h # t => rows[h].used # 0
      <3> SUFFICES ASSUME NEW h \in FamilyRows(fam), h # t
                   PROVE  rows[h].used # 0
        OBVIOUS
      <3>1. h \in Stored /\ rows[h].family = rows[t].family /\ gen[h] \in Nat /\ gen[t] \in Nat
        BY <1>2, <1>3, <1>10 DEF FamilyRows, Stored
      <3>2. /\ gen[h] = gen[t] => h = t
            /\ gen[h] < gen[t] => rows[h].used # 0
            /\ gen[t] < gen[h] => rows[t].used # 0
        BY <1>3, <3>1 DEF IInv, Lifetimes
      <3> QED
        BY <1>3, <3>1, <3>2
    <2>3. PICK tt, nn : tt = t /\ nn = n
      OBVIOUS
    <2>4. UnspentOf(fam) = {tt}
      BY <1>3, <2>1, <2>2, <2>3 DEF UnspentOf
    <2>5. \A h \in FamilyRows(fam) : h # t => rows'[h] = rows[h]
      BY <1>3, <1>7 DEF FamilyRows, Stored
    <2>6. UnspentOf(fam)' = {nn}
      BY <1>4, <1>5, <1>6, <1>11, <2>1, <2>2, <2>3, <2>5 DEF UnspentOf
    <2>7. SpentOf(fam)' = SpentOf(fam) \cup {tt}
      BY <1>3, <1>4, <1>5, <1>6, <1>11, <2>1, <2>2, <2>3, <2>5 DEF SpentOf
    <2>8. Dead(fam)' = Dead(fam)
      BY <1>5, <1>6, <1>11, <2>1, <2>5 DEF Dead
    <2>9. \A h \in late : rows'[h].family = rows[h].family
      BY <1>3, <1>7, <1>9 DEF Stored
    <2>10. \/ ~Dead(fam) /\ Straggled(fam)' = Straggled(fam)
           \/ Dead(fam) /\ ~Straggled(fam) /\ Straggled(fam)'
      <3>1. CASE Dead(fam)
        <4>1. n \in late'
          BY <1>1, <1>10, <3>1
        <4>2. Straggled(fam)'
          BY <1>5, <1>10, <4>1 DEF Straggled
        <4>3. ~Straggled(fam)
          <5> SUFFICES ASSUME NEW h \in late, rows[h].family = fam
                       PROVE  FALSE
            BY DEF Straggled
          <5>1. h \in FamilyRows(fam) /\ rows[h].used = 0
            BY <1>9 DEF FamilyRows
          <5> QED
            BY <1>3, <2>2, <5>1
        <4> QED
          BY <3>1, <4>2, <4>3
      <3>2. CASE ~Dead(fam)
        <4>1. late' = late
          BY <1>1, <1>10, <3>2
        <4> QED
          BY <2>9, <3>2, <4>1 DEF Straggled
      <3> QED
        BY <3>1, <3>2
    <2>11. nn \notin Stored
      BY <1>3, <2>3
    <2>12. Families!Rotate(fam) \/ Families!Straggle(fam)
      BY <1>14, <2>4, <2>6, <2>7, <2>8, <2>10, <2>11, ExtendMaps
    <2>13. Families!Next
      BY <1>12, <2>12 DEF Families!Next
    <2> QED
      BY <1>12, <2>6, <2>13 DEF LineHasEnd
  <1> QED
    BY <1>13, <1>14

\* A revocation ends the families whose rows it reaches first, and changes
\* nothing in the others.
LEMMA RevokeRefines ==
    ASSUME IInv, LineHasEnd, NEW r \in Request, RevokeApply(r)
    PROVE  Families!Next /\ LineHasEnd'
  <1>1. /\ rows \in [Hash -> Row] /\ late \subseteq Stored
        /\ rows' = RevokedRows(req[r].targets, req[r].now) /\ late' = late
    BY DEF IInv, TypeOK, Stragglers, RevokeApply
  <1>2. \A h \in Hash : /\ rows'[h].family = rows[h].family
                        /\ rows'[h].issued = rows[h].issued
                        /\ rows'[h].used = rows[h].used
                        /\ rows[h].revoked # 0 => rows'[h].revoked = rows[h].revoked
    <2> SUFFICES ASSUME NEW h \in Hash
                 PROVE  /\ rows'[h].family = rows[h].family
                        /\ rows'[h].issued = rows[h].issued
                        /\ rows'[h].used = rows[h].used
                        /\ rows[h].revoked # 0 => rows'[h].revoked = rows[h].revoked
      OBVIOUS
    <2>1. rows[h] \in Row
      BY <1>1
    <2>2. rows'[h] = IF h \in req[r].targets /\ rows[h].revoked = 0
                       THEN [rows[h] EXCEPT !.revoked = req[r].now]
                       ELSE rows[h]
      BY <1>1 DEF RevokedRows
    <2> QED
      BY <2>1, <2>2 DEF Row
  <1>3. Stored' = Stored
    BY <1>2 DEF Stored
  <1>4. ASSUME NEW f \in Family
        PROVE  /\ Families!Stay(f) \/ Families!Revoke(f)
               /\ FamilyRows(f)' # {} => UnspentOf(f)' # {}
    <2>1. FamilyRows(f)' = FamilyRows(f) /\ FamilyRows(f) \subseteq Hash
      BY <1>2, <1>3 DEF FamilyRows, Stored
    <2>2. UnspentOf(f)' = UnspentOf(f)
      BY <1>2, <2>1 DEF UnspentOf
    <2>3. SpentOf(f)' = SpentOf(f)
      BY <1>2, <2>1 DEF SpentOf
    <2>4. Straggled(f)' = Straggled(f)
      BY <1>1, <1>2 DEF Straggled, Stored
    <2>5. Dead(f) => Dead(f)'
      BY <1>2, <2>1 DEF Dead
    <2>6. CASE Dead(f) \/ ~Dead(f)'
      <3>1. Dead(f)' = Dead(f)
        BY <2>5, <2>6, Zenon DEF Dead
      <3> QED
        BY <2>1, <2>2, <2>3, <2>4, <3>1, StayMaps DEF LineHasEnd
    <2>7. CASE ~Dead(f) /\ Dead(f)'
      <3>1. FamilyRows(f) # {}
        BY <2>1, <2>7 DEF Dead
      <3>2. UnspentOf(f) # {}
        BY <3>1 DEF LineHasEnd
      <3> QED
        BY <2>2, <2>3, <2>4, <2>7, <3>2, RevokeMaps
    <2> QED
      BY <2>6, <2>7
  <1> QED
    BY <1>4 DEF Families!Next, LineHasEnd

-----------------------------------------------------------------------------
(* The refinement. *)

\* An empty table is one in which no line has begun.
LEMMA InitRefines ==
    ASSUME Init
    PROVE  Families!Init /\ LineHasEnd
  <1>1. \A f : FamilyRows(f) = {}
    BY DEF Init, FamilyRows, Stored, EmptyRow
  <1>2. late = {}
    BY DEF Init
  <1>3. ASSUME NEW f \in Family
        PROVE  UnspentOf(f) = {} /\ SpentOf(f) = {} /\ ~Dead(f) /\ ~Straggled(f)
    BY <1>1, <1>2 DEF UnspentOf, SpentOf, Dead, Straggled
  <1>4. Families!Init
    BY <1>3, Views, Zenon DEF Families!Init
  <1> QED
    BY <1>1, <1>4 DEF LineHasEnd

\* Every step of the program is a step of the families or a stutter.
LEMMA StepRefines ==
    ASSUME IInv, LineHasEnd, [Next]_vars
    PROVE  [Families!Next]_(Families!vars) /\ LineHasEnd'
  <1>1. ASSUME UNCHANGED <<rows, late>>
        PROVE  [Families!Next]_(Families!vars) /\ LineHasEnd'
    <2>1. UNCHANGED Families!vars
      BY <1>1, StutterMaps
    <2>2. LineHasEnd'
      BY <1>1 DEF LineHasEnd, UnspentOf, FamilyRows, Stored
    <2> QED
      BY <2>1, <2>2
  <1>2. CASE Tick \/ UNCHANGED vars
    BY <1>1, <1>2 DEF Tick, vars
  <1>3. ASSUME NEW r \in Request, Start(r)
        PROVE  [Families!Next]_(Families!vars) /\ LineHasEnd'
    <2>1. CASE \E u \in User : Issue(r, u)
      BY <2>1, IssueRefines
    <2>2. CASE ~ \E u \in User : Issue(r, u)
      BY <1>1, <1>3, <2>2
         DEF Start, RotateBegin, RevokeByTokenStart, RevokeFamilyStart,
             RevokeAllForUserStart
    <2> QED
      BY <2>1, <2>2
  <1>4. ASSUME NEW r \in Request, Statement(r)
        PROVE  [Families!Next]_(Families!vars) /\ LineHasEnd'
    <2>1. CASE Commit(r)
      BY <2>1, CommitRefines
    <2>2. CASE ~Commit(r)
      BY <1>1, <1>4, <2>2
         DEF Statement, ConsumeSnapshot, Mint, MintFails, DiagnoseUnspent,
             DiagnoseSpent, CheckBenign, RevokeByTokenLookup, RevokeSnapshot,
             Return
    <2> QED
      BY <2>1, <2>2
  <1>5. ASSUME NEW r \in Request, RevokeApply(r)
        PROVE  [Families!Next]_(Families!vars) /\ LineHasEnd'
    BY <1>5, RevokeRefines
  <1>6. ASSUME NEW r \in Request, ConsumeApply(r) \/ StepFails(r)
        PROVE  [Families!Next]_(Families!vars) /\ LineHasEnd'
    BY <1>1, <1>6 DEF ConsumeApply, StepFails
  <1> QED
    BY <1>2, <1>3, <1>4, <1>5, <1>6 DEF Next

\* Statement by statement, sessions.go begins, extends and ends lines of tokens
\* as SessionFamilies says, for any number of requests, tokens and families.
THEOREM Refinement == Spec => ImplementsFamilies
  <1>1. Init => Families!Init /\ LineHasEnd
    BY InitRefines
  <1>2. IInv /\ LineHasEnd /\ [Next]_vars => [Families!Next]_(Families!vars) /\ LineHasEnd'
    BY StepRefines
  <1>3. Spec => []IInv
    BY Invariance
  <1> QED
    BY <1>1, <1>2, <1>3, PTL DEF Spec, ImplementsFamilies, Families!Spec
=============================================================================
