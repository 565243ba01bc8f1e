------------------------ MODULE RefreshTokens_proofs ------------------------
(***************************************************************************)
(* Proofs about RefreshTokens, for every set of hashes, families, users    *)
(* and requests, every grace period and every lifetime.                    *)
(***************************************************************************)
EXTENDS RefreshTokens, TLAPS

-----------------------------------------------------------------------------
(* The inductive invariant. *)

Holding == {"mint", "commit"}
InTransaction == {"consume", "update"} \cup Holding
Diagnosed == {"benign", "revoke", "revoking"}

\* Every stored token was issued before now.
IssuedInThePast == \A h \in Stored : rows[h].issued < clock

\* A spent token was spent after it was issued, and by the rotation that
\* issued the next token of its family.
SpentBySuccessor ==
    \A h \in Stored : rows[h].used # 0 =>
       /\ rows[h].issued < rows[h].used
       /\ \E g \in FamilyRows(rows[h].family) :
             gen[g] = gen[h] + 1 /\ rows[g].issued = rows[h].used

\* The lifetimes of a family's tokens are disjoint, in the order of their
\* generations.
Lifetimes ==
    \A g, h \in Stored : rows[g].family = rows[h].family =>
       /\ gen[g] = gen[h] => g = h
       /\ gen[g] < gen[h] => rows[g].used # 0 /\ rows[g].used <= rows[h].issued

\* A straggler is unspent and its family is revoked.
Stragglers ==
    \A h \in late : h \in Stored /\ rows[h].used = 0 /\ Dead(rows[h].family)

\* What a request knows of the table stays true while it waits.
RequestInv(r) ==
    /\ req[r].tok \in Stored \cup {None}
    /\ req[r].pc \in InTransaction =>
          req[r].now <= clock /\ (req[r].tok \in Stored => rows[req[r].tok].issued < req[r].now)
    /\ req[r].pc \in {"update"} \cup Holding => req[r].tok \in Stored \ late
    /\ req[r].pc \in Holding => rows[req[r].tok].used = 0
    /\ req[r].pc = "commit" => req[r].new \in Hash \ Stored
    /\ req[r].op = "rotate" /\ req[r].pc \in Diagnosed =>
          req[r].tok \in Stored /\ req[r].fam = rows[req[r].tok].family
    /\ req[r].op = "rotate" /\ req[r].pc = "revoking" =>
          req[r].now # 0 /\ (req[r].tok \in req[r].targets \/ rows[req[r].tok].revoked # 0)
    /\ req[r].res = "reused" =>
          req[r].tok \in Stored /\ Dead(rows[req[r].tok].family)

\* Row locks are exclusive, and no two requests draw the same hash.
Exclusive ==
    \A r, s \in Request : r # s =>
       /\ req[r].pc \in Holding /\ req[s].pc \in Holding => req[r].tok # req[s].tok
       /\ req[r].pc = "commit" /\ req[s].pc = "commit" => req[r].new # req[s].new

IInv ==
    /\ TypeOK
    /\ IssuedInThePast
    /\ SpentBySuccessor
    /\ Lifetimes
    /\ Stragglers
    /\ \A r \in Request : RequestInv(r)
    /\ Exclusive

-----------------------------------------------------------------------------
(* Type correctness. *)

(* Answering a request and resetting one keep its type. *)
LEMMA FinishType ==
    ASSUME TypeOK, NEW r \in Request, NEW result \in Result, Finish(r, result)
    PROVE  req' \in [Request -> RequestState]
  <1>1. /\ req[r].op \in {"none", "issue", "rotate", "revoke"}
        /\ req[r].tok \in Hash \cup {None}
        /\ result \in Result \cup {"none"}
    BY DEF TypeOK, RequestState
  <1>2. [IdleRequest EXCEPT !.pc = "done", !.op = req[r].op,
                            !.tok = req[r].tok, !.res = result] \in RequestState
    BY <1>1 DEF IdleRequest, RequestState, Pc
  <1> QED
    BY <1>2 DEF TypeOK, Finish

\* What an idle request may start keeps the types.
LEMMA StartType ==
    ASSUME TypeOK, NEW r \in Request, Start(r)
    PROVE  TypeOK'
  <1>1. CASE \E u \in User : Issue(r, u)
    <2>1. PICK u \in User : Issue(r, u)
      BY <1>1
    <2>2. PICK h \in Unused, f \in Family, result \in {"session", "error"} :
             /\ rows' = [rows EXCEPT ![h] =
                           [EmptyRow EXCEPT !.family = f, !.user = u,
                                            !.issued = clock,
                                            !.expires = clock + TTL]]
             /\ gen' = [gen EXCEPT ![h] = 1]
             /\ req' = [req EXCEPT ![r] =
                          [IdleRequest EXCEPT !.pc = "done", !.op = "issue",
                                              !.tok = h, !.res = result]]
      BY <2>1 DEF Issue
    <2>3. [EmptyRow EXCEPT !.family = f, !.user = u, !.issued = clock,
                           !.expires = clock + TTL] \in Row
      <3>1. clock \in Nat /\ clock + TTL \in Nat
        BY TimeAssumption DEF TypeOK
      <3>2. f \in Family \cup {None} /\ u \in User \cup {None}
        BY <2>2
      <3> QED
        BY <3>1, <3>2 DEF EmptyRow, Row
    <2>4. h \in Hash
      BY <2>2 DEF Unused
    <2>5. [IdleRequest EXCEPT !.pc = "done", !.op = "issue", !.tok = h,
                              !.res = result] \in RequestState
      BY <2>2, <2>4 DEF IdleRequest, RequestState, Pc, Result
    <2>6. clock' = clock + 1 /\ late' = late
      BY <2>1 DEF Issue
    <2> QED
      BY <2>2, <2>3, <2>4, <2>5, <2>6 DEF TypeOK
  <1>2. CASE \E h \in Hash \cup {None} : RotateBegin(r, h)
    <2>1. PICK h \in Hash \cup {None} : RotateBegin(r, h)
      BY <1>2
    <2>2. [IdleRequest EXCEPT !.pc = "consume", !.op = "rotate", !.tok = h,
                              !.now = clock] \in RequestState
      BY DEF TypeOK, IdleRequest, RequestState, Pc
    <2> QED
      BY <2>1, <2>2 DEF RotateBegin, TypeOK
  <1>3. CASE \E h \in Hash \cup {None} : RevokeByTokenStart(r, h)
    <2>1. PICK h \in Hash \cup {None} : RevokeByTokenStart(r, h)
      BY <1>3
    <2>2. [IdleRequest EXCEPT !.pc = "lookup", !.op = "revoke", !.tok = h]
             \in RequestState
      BY DEF TypeOK, IdleRequest, RequestState, Pc
    <2> QED
      BY <2>1, <2>2 DEF RevokeByTokenStart, TypeOK
  <1>4. CASE \E f \in Family : RevokeFamilyStart(r, f)
    <2>1. PICK f \in Family : RevokeFamilyStart(r, f)
      BY <1>4
    <2>2. [IdleRequest EXCEPT !.pc = "revoke", !.op = "revoke", !.fam = f]
             \in RequestState
      BY DEF TypeOK, IdleRequest, RequestState, Pc
    <2> QED
      BY <2>1, <2>2 DEF RevokeFamilyStart, TypeOK
  <1>5. CASE \E u \in User : RevokeAllForUserStart(r, u)
    <2>1. PICK u \in User : RevokeAllForUserStart(r, u)
      BY <1>5
    <2>2. [IdleRequest EXCEPT !.pc = "revoke", !.op = "revoke", !.user = u]
             \in RequestState
      BY DEF TypeOK, IdleRequest, RequestState, Pc
    <2> QED
      BY <2>1, <2>2 DEF RevokeAllForUserStart, TypeOK
  <1> QED
    BY <1>1, <1>2, <1>3, <1>4, <1>5 DEF Start

\* Each statement of a request keeps the types.
LEMMA StatementType ==
    ASSUME TypeOK, NEW r \in Request, RequestInv(r), Statement(r)
    PROVE  TypeOK'
  <1> USE DEF TypeOK
  <1>0. req[r] \in RequestState
    OBVIOUS
  <1>1. CASE ConsumeSnapshot(r)
    BY <1>0, <1>1 DEF ConsumeSnapshot, RequestState, Pc
  <1>2. CASE Mint(r)
    <2>1. PICK h \in Unused :
             req' = [req EXCEPT ![r].pc = "commit", ![r].new = h,
                                ![r].expires = clock + TTL]
      BY <1>2 DEF Mint
    <2>2. h \in Hash /\ clock + TTL \in Nat
      BY TimeAssumption DEF Unused
    <2> QED
      BY <1>0, <1>2, <2>1, <2>2 DEF Mint, RequestState, Pc
  <1>3. CASE MintFails(r)
    BY <1>3, FinishType DEF MintFails, Result
  <1>4. CASE Commit(r)
    <2>1. req' \in [Request -> RequestState]
      BY <1>4, FinishType DEF Commit, Result
    <2> DEFINE t == req[r].tok
               n == req[r].new
    <2>2. rows' = CommitRows(t, n, req[r].now, req[r].expires)
      BY <1>4 DEF Commit
    <2>3. rows' \in [Hash -> Row]
      <3>1. /\ req[r].now \in Nat
            /\ req[r].expires \in Nat
        BY <1>0 DEF RequestState
      <3>2. t \in Hash
        BY <1>4 DEF RequestInv, Holding, Commit, Stored
      <3>3. rows[t] \in Row
        BY <3>2
      <3>4. [EmptyRow EXCEPT !.family = rows[t].family, !.user = rows[t].user,
                             !.issued = req[r].now,
                             !.expires = req[r].expires] \in Row
        BY <3>1, <3>3 DEF EmptyRow, Row
      <3>5. [rows[t] EXCEPT !.used = req[r].now] \in Row
        BY <3>1, <3>3 DEF Row
      <3> QED
        BY <2>2, <3>4, <3>5 DEF CommitRows
    <2>4. t \in Hash /\ n \in Hash
      BY <1>4 DEF RequestInv, Holding, Commit, Stored
    <2>5. gen' = [gen EXCEPT ![n] = gen[t] + 1]
      BY <1>4 DEF Commit
    <2>6. clock' \in Nat \ {0} /\ late' \subseteq Hash
      BY <1>4, <2>4 DEF Commit
    <2> QED
      BY <2>1, <2>3, <2>4, <2>5, <2>6
  <1>5. CASE DiagnoseUnspent(r)
    BY <1>5, FinishType DEF DiagnoseUnspent, Result
  <1>6. CASE DiagnoseSpent(r)
    <2>1. /\ rows[req[r].tok].family \in Family \cup {None}
          /\ rows[req[r].tok].used \in Nat
      BY <1>6 DEF DiagnoseSpent, Stored, Row
    <2> QED
      BY <1>0, <1>6, <2>1 DEF DiagnoseSpent, RequestState, Pc
  <1>7. CASE CheckBenign(r)
    <2>1. CASE IsBenign(req[r].fam, req[r].used, clock)
      BY <1>7, <2>1, FinishType DEF CheckBenign, Result
    <2>2. CASE ~IsBenign(req[r].fam, req[r].used, clock)
      BY <1>0, <1>7, <2>2 DEF CheckBenign, RequestState, Pc
    <2> QED
      BY <2>1, <2>2
  <1>8. CASE RevokeByTokenLookup(r)
    <2>1. CASE req[r].tok \in Stored
      <3>1. rows[req[r].tok].family \in Family \cup {None}
        BY <2>1 DEF Stored, Row
      <3> QED
        BY <1>0, <1>8, <2>1, <3>1 DEF RevokeByTokenLookup, RequestState, Pc
    <2>2. CASE req[r].tok \notin Stored
      BY <1>8, <2>2, FinishType DEF RevokeByTokenLookup, Result
    <2> QED
      BY <2>1, <2>2
  <1>9. CASE RevokeSnapshot(r)
    <2>1. Revocable(r) \in SUBSET Hash /\ clock \in Nat
      BY DEF Revocable, Stored
    <2> QED
      BY <1>0, <1>9, <2>1 DEF RevokeSnapshot, RequestState, Pc
  <1>10. CASE Return(r)
    <2>1. IdleRequest \in RequestState
      BY DEF IdleRequest, RequestState, Pc
    <2> QED
      BY <1>10, <2>1 DEF Return
  <1> QED
    BY <1>1, <1>2, <1>3, <1>4, <1>5, <1>6, <1>7, <1>8, <1>9, <1>10
    DEF Statement

\* TypeOK is inductive on its own.
LEMMA TypeStep ==
    ASSUME TypeOK, \A r \in Request : RequestInv(r), [Next]_vars
    PROVE  TypeOK'
  <1>1. CASE Tick
    BY <1>1 DEF Tick, TypeOK
  <1>2. ASSUME NEW r \in Request, Start(r)
        PROVE  TypeOK'
    BY <1>2, StartType
  <1>3. ASSUME NEW r \in Request, Statement(r)
        PROVE  TypeOK'
    BY <1>3, StatementType
  <1>4. ASSUME NEW r \in Request, ConsumeApply(r)
        PROVE  TypeOK'
    BY <1>4 DEF ConsumeApply, TypeOK, RequestState, Pc
  <1>5. ASSUME NEW r \in Request, RevokeApply(r)
        PROVE  TypeOK'
    <2>1. req' \in [Request -> RequestState]
      BY <1>5, FinishType DEF RevokeApply, Result
    <2>2. rows' \in [Hash -> Row]
      <3>1. req[r].now \in Nat
        BY DEF TypeOK, RequestState
      <3>2. \A h \in Hash : [rows[h] EXCEPT !.revoked = req[r].now] \in Row
        BY <3>1 DEF TypeOK, Row
      <3> QED
        BY <1>5, <3>2 DEF RevokeApply, RevokedRows, TypeOK
    <2> QED
      BY <1>5, <2>1, <2>2 DEF RevokeApply, TypeOK
  <1>6. ASSUME NEW r \in Request, StepFails(r)
        PROVE  TypeOK'
    BY <1>6, FinishType DEF StepFails, TypeOK, Result
  <1>7. CASE UNCHANGED vars
    BY <1>7 DEF vars, TypeOK
  <1> QED
    BY <1>1, <1>2, <1>3, <1>4, <1>5, <1>6, <1>7 DEF Next

-----------------------------------------------------------------------------
(* Steps that do not touch the table. *)

\* Only request r moves; time may.
Quiet(r) ==
    /\ UNCHANGED <<rows, gen, late>>
    /\ clock' >= clock
    /\ \A s \in Request \ {r} : req'[s] = req[s]

\* A step that leaves the table alone keeps what is said of the table.
LEMMA QuietTable ==
    ASSUME IInv, TypeOK', UNCHANGED <<rows, gen, late>>, clock' >= clock
    PROVE  /\ IssuedInThePast' /\ SpentBySuccessor' /\ Lifetimes' /\ Stragglers'
           /\ \A s \in Request : req'[s] = req[s] => RequestInv(s)'
  <1>1. Stored' = Stored /\ \A f : FamilyRows(f)' = FamilyRows(f)
    BY DEF Stored, FamilyRows
  <1>2. \A f : Dead(f)' <=> Dead(f)
    BY <1>1 DEF Dead
  <1>3. IssuedInThePast'
    <2> SUFFICES ASSUME NEW h \in Stored
                 PROVE  rows[h].issued < clock'
      BY <1>1 DEF IssuedInThePast
    <2>1. rows[h].issued \in Nat /\ clock \in Nat /\ clock' \in Nat
      BY DEF IInv, TypeOK, Row, Stored
    <2> QED
      BY <2>1 DEF IInv, IssuedInThePast
  <1>4. SpentBySuccessor' /\ Lifetimes' /\ Stragglers'
    BY <1>1, <1>2 DEF IInv, SpentBySuccessor, Lifetimes, Stragglers
  <1>5. ASSUME NEW s \in Request, req'[s] = req[s]
        PROVE  RequestInv(s)'
    <2>1. RequestInv(s) /\ req[s].now \in Nat /\ clock \in Nat /\ clock' \in Nat
      BY DEF IInv, TypeOK, RequestState
    <2> QED
      BY <1>1, <1>2, <1>5, <2>1 DEF RequestInv
  <1> QED
    BY <1>3, <1>4, <1>5

\* ... and keeps IInv, if the request that moved knows what it needs.
LEMMA QuietStep ==
    ASSUME IInv, TypeOK', NEW r \in Request, Quiet(r), RequestInv(r)',
           req'[r].pc \in Holding /\ req[r].pc \notin Holding => ~Locked(req'[r].tok),
           req[r].pc \in Holding /\ req'[r].pc \in Holding => req'[r].tok = req[r].tok,
           req'[r].pc = "commit" => req'[r].new \in Unused
    PROVE  IInv'
  <1>1. /\ IssuedInThePast' /\ SpentBySuccessor' /\ Lifetimes' /\ Stragglers'
        /\ \A s \in Request : req'[s] = req[s] => RequestInv(s)'
    BY QuietTable DEF Quiet
  <1>2. \A s \in Request : RequestInv(s)'
    BY <1>1 DEF Quiet
  <1>3. ASSUME NEW s \in Request, s # r
        PROVE  /\ req'[r].pc \in Holding /\ req'[s].pc \in Holding => req'[r].tok # req'[s].tok
               /\ req'[r].pc = "commit" /\ req'[s].pc = "commit" => req'[r].new # req'[s].new
    BY <1>3 DEF IInv, Exclusive, Quiet, Locked, Unused, Holding
  <1>4. Exclusive'
    BY <1>3 DEF IInv, Exclusive, Quiet
  <1> QED
    BY <1>1, <1>2, <1>4 DEF IInv

\* The answer "reused" comes only from RevokeApply; every other answer needs
\* nothing but a token that is stored.
LEMMA FinishQuiet ==
    ASSUME IInv, TypeOK', NEW r \in Request, NEW result \in Result \ {"reused"},
           Finish(r, result), UNCHANGED <<rows, clock, gen, late>>
    PROVE  IInv'
  <1>1. /\ req'[r].pc = "done" /\ req'[r].tok = req[r].tok
        /\ req'[r].res # "reused"
    BY DEF Finish, IInv, TypeOK, IdleRequest, Result
  <1>2. RequestInv(r)
    BY DEF IInv
  <1>3. Stored' = Stored
    BY DEF Stored
  <1>4. RequestInv(r)'
    BY <1>1, <1>2, <1>3 DEF RequestInv, InTransaction, Holding, Diagnosed
  <1>5. Quiet(r)
    BY DEF Quiet, Finish, IInv, TypeOK
  <1> QED
    BY <1>1, <1>4, <1>5, QuietStep DEF Holding

\* Starting any request but Issue is a quiet step.
LEMMA QuietStart ==
    ASSUME IInv, TypeOK', NEW r \in Request, Start(r),
           ~ \E u \in User : Issue(r, u)
    PROVE  IInv'
  <1>1. Quiet(r) /\ UNCHANGED <<rows, clock, gen, late>>
    <2>0. req \in [Request -> RequestState] /\ clock \in Nat
      BY DEF IInv, TypeOK
    <2>1. ASSUME NEW h \in Hash \cup {None}, RotateBegin(r, h)
          PROVE  Quiet(r) /\ UNCHANGED <<rows, clock, gen, late>>
      BY <2>0, <2>1 DEF RotateBegin, Quiet, IdleRequest
    <2>2. ASSUME NEW h \in Hash \cup {None}, RevokeByTokenStart(r, h)
          PROVE  Quiet(r) /\ UNCHANGED <<rows, clock, gen, late>>
      BY <2>0, <2>2 DEF RevokeByTokenStart, Quiet, IdleRequest
    <2>3. ASSUME NEW f \in Family, RevokeFamilyStart(r, f)
          PROVE  Quiet(r) /\ UNCHANGED <<rows, clock, gen, late>>
      BY <2>0, <2>3 DEF RevokeFamilyStart, Quiet, IdleRequest
    <2>4. ASSUME NEW u \in User, RevokeAllForUserStart(r, u)
          PROVE  Quiet(r) /\ UNCHANGED <<rows, clock, gen, late>>
      BY <2>0, <2>4 DEF RevokeAllForUserStart, Quiet, IdleRequest
    <2> QED
      BY <2>1, <2>2, <2>3, <2>4 DEF Start
  <1>2. Stored' = Stored
    BY <1>1 DEF Stored
  <1>3. RequestInv(r)' /\ req'[r].pc \notin Holding
    <2>1. CASE \E h \in Hash \cup {None} : RotateBegin(r, h)
      <3>1. PICK h \in Hash \cup {None} : RotateBegin(r, h)
        BY <2>1
      <3>2. /\ req'[r].pc = "consume" /\ req'[r].tok = h /\ req'[r].now = clock
            /\ req'[r].res = "none"
        BY <3>1 DEF RotateBegin, IdleRequest, IInv, TypeOK
      <3>3. h \in Stored \cup {None}
        BY <3>1 DEF RotateBegin
      <3>4. h \in Stored => rows[h].issued < clock
        BY DEF IInv, IssuedInThePast
      <3>5. clock \in Nat
        BY DEF IInv, TypeOK
      <3> QED
        BY <1>1, <1>2, <3>2, <3>3, <3>4, <3>5
        DEF RequestInv, InTransaction, Holding, Diagnosed
    <2>2. CASE \E h \in Hash \cup {None} : RevokeByTokenStart(r, h)
      <3>1. PICK h \in Hash \cup {None} : RevokeByTokenStart(r, h)
        BY <2>2
      <3>2. /\ req'[r].pc = "lookup" /\ req'[r].tok = h /\ req'[r].res = "none"
        BY <3>1 DEF RevokeByTokenStart, IdleRequest, IInv, TypeOK
      <3> QED
        BY <1>2, <3>1, <3>2
        DEF RevokeByTokenStart, RequestInv, InTransaction, Holding, Diagnosed
    <2>3. ASSUME req'[r].pc = "revoke", req'[r].op = "revoke",
                 req'[r].tok = None, req'[r].res = "none"
          PROVE  RequestInv(r)' /\ req'[r].pc \notin Holding
      BY <2>3 DEF RequestInv, InTransaction, Holding, Diagnosed
    <2>4. ASSUME NEW f \in Family, RevokeFamilyStart(r, f)
          PROVE  RequestInv(r)' /\ req'[r].pc \notin Holding
      BY <2>3, <2>4 DEF RevokeFamilyStart, IdleRequest, IInv, TypeOK
    <2>5. ASSUME NEW u \in User, RevokeAllForUserStart(r, u)
          PROVE  RequestInv(r)' /\ req'[r].pc \notin Holding
      BY <2>3, <2>5 DEF RevokeAllForUserStart, IdleRequest, IInv, TypeOK
    <2> QED
      BY <2>1, <2>2, <2>4, <2>5 DEF Start
  <1> QED
    BY <1>1, <1>3, QuietStep DEF Holding

\* So is every statement but the writing ones, Commit and RevokeApply.
LEMMA QuietStatement ==
    ASSUME IInv, TypeOK', NEW r \in Request, Statement(r) \/ ConsumeApply(r),
           ~Commit(r)
    PROVE  IInv'
  <1>0. RequestInv(r) /\ TypeOK /\ req \in [Request -> RequestState]
    BY DEF IInv, TypeOK
  <1>1. CASE \/ MintFails(r) \/ DiagnoseUnspent(r)
             \/ CheckBenign(r) /\ Finish(r, "raced")
             \/ RevokeByTokenLookup(r) /\ Finish(r, "revoked")
    BY <1>1, FinishQuiet
    DEF MintFails, DiagnoseUnspent, CheckBenign, RevokeByTokenLookup, Result
  <1>2. ASSUME UNCHANGED <<rows, clock, gen, late>>, RequestInv(r)', Quiet(r),
               req'[r].pc \notin Holding
        PROVE  IInv'
    BY <1>2, QuietStep DEF Holding
  <1>3. CASE ConsumeSnapshot(r)
    <2>1. Quiet(r) /\ Stored' = Stored
      BY <1>0, <1>3 DEF ConsumeSnapshot, Quiet, Stored, TypeOK
    <2>2. /\ req'[r].tok = req[r].tok /\ req'[r].now = req[r].now
          /\ req'[r].res = req[r].res
          /\ req'[r].pc \in {"update", "diagnose"}
          /\ req'[r].pc = "update" => Consumable(req[r].tok, req[r].now)
      BY <1>0, <1>3 DEF ConsumeSnapshot, RequestState
    <2>3. Consumable(req[r].tok, req[r].now) => req[r].tok \in Stored \ late
      BY DEF Consumable, IInv, Stragglers
    <2>4. req[r].res = "reused" =>
             req[r].tok \in Stored' /\ Dead(rows[req[r].tok].family)'
      BY <1>0, <1>3, <2>1 DEF RequestInv, Dead, FamilyRows, ConsumeSnapshot
    <2>5. RequestInv(r)'
      BY <1>0, <1>3, <2>1, <2>2, <2>3, <2>4
      DEF ConsumeSnapshot, RequestInv, InTransaction, Holding, Diagnosed
    <2> QED
      BY <1>2, <1>3, <2>1, <2>2, <2>5 DEF ConsumeSnapshot, Holding
  <1>4. CASE ConsumeApply(r)
    <2>1. Quiet(r) /\ Stored' = Stored
      BY <1>0, <1>4 DEF ConsumeApply, Quiet, Stored, TypeOK
    <2>2. /\ req'[r].tok = req[r].tok /\ req'[r].now = req[r].now
          /\ req'[r].res = req[r].res
          /\ req'[r].pc \in {"mint", "diagnose"}
          /\ req'[r].pc = "mint" => RowConsumable(req[r].tok, req[r].now)
      BY <1>0, <1>4 DEF ConsumeApply, RequestState
    <2>3. req[r].res = "reused" =>
             req[r].tok \in Stored' /\ Dead(rows[req[r].tok].family)'
      BY <1>0, <1>4, <2>1 DEF RequestInv, Dead, FamilyRows, ConsumeApply
    <2>4. RequestInv(r)'
      BY <1>0, <1>4, <2>1, <2>2, <2>3
      DEF ConsumeApply, RequestInv, RowConsumable, InTransaction, Holding, Diagnosed
    <2>5. ~Locked(req'[r].tok) /\ req[r].pc \notin Holding
      BY <1>4, <2>2 DEF ConsumeApply, Holding
    <2> QED
      BY <2>1, <2>2, <2>4, <2>5, QuietStep
  <1>5. CASE Mint(r)
    <2>1. PICK h \in Unused :
             req' = [req EXCEPT ![r].pc = "commit", ![r].new = h,
                                ![r].expires = clock + TTL]
      BY <1>5 DEF Mint
    <2>2. Quiet(r) /\ Stored' = Stored
      BY <1>0, <1>5, <2>1 DEF Mint, Quiet, Stored, TypeOK
    <2>3. /\ req'[r].tok = req[r].tok /\ req'[r].now = req[r].now
          /\ req'[r].res = req[r].res /\ req'[r].pc = "commit" /\ req'[r].new = h
      BY <1>0, <2>1 DEF RequestState
    <2>4. req[r].res = "reused" =>
             req[r].tok \in Stored' /\ Dead(rows[req[r].tok].family)'
      BY <1>0, <1>5, <2>2 DEF RequestInv, Dead, FamilyRows, Mint
    <2>5. h \in Hash \ Stored
      BY DEF Unused
    <2>6. RequestInv(r)'
      BY <1>0, <1>5, <2>2, <2>3, <2>4, <2>5
      DEF Mint, RequestInv, InTransaction, Holding, Diagnosed
    <2> QED
      BY <1>5, <2>1, <2>2, <2>3, <2>6, QuietStep DEF Mint, Holding
  <1>6. CASE DiagnoseSpent(r)
    <2>1. Quiet(r) /\ Stored' = Stored
      BY <1>0, <1>6 DEF DiagnoseSpent, Quiet, Stored, TypeOK
    <2>2. /\ req'[r].tok = req[r].tok /\ req'[r].res = req[r].res
          /\ req'[r].pc = "benign" /\ req'[r].fam = rows[req[r].tok].family
      BY <1>0, <1>6 DEF DiagnoseSpent, RequestState
    <2>3. req[r].res = "reused" =>
             req[r].tok \in Stored' /\ Dead(rows[req[r].tok].family)'
      BY <1>0, <1>6, <2>1 DEF RequestInv, Dead, FamilyRows, DiagnoseSpent
    <2>4. RequestInv(r)'
      BY <1>0, <1>6, <2>1, <2>2, <2>3
      DEF DiagnoseSpent, RequestInv, InTransaction, Holding, Diagnosed
    <2> QED
      BY <1>2, <1>6, <2>1, <2>2, <2>4 DEF DiagnoseSpent, Holding
  <1>7. CASE CheckBenign(r) /\ req' = [req EXCEPT ![r].pc = "revoke"]
    <2>1. Quiet(r) /\ Stored' = Stored
      BY <1>0, <1>7 DEF CheckBenign, Quiet, Stored, TypeOK
    <2>2. /\ req'[r].tok = req[r].tok /\ req'[r].res = req[r].res
          /\ req'[r].pc = "revoke" /\ req'[r].fam = req[r].fam
          /\ req'[r].op = req[r].op
      BY <1>0, <1>7 DEF RequestState
    <2>3. req[r].res = "reused" =>
             req[r].tok \in Stored' /\ Dead(rows[req[r].tok].family)'
      BY <1>0, <1>7, <2>1 DEF RequestInv, Dead, FamilyRows, CheckBenign
    <2>4. RequestInv(r)'
      BY <1>0, <1>7, <2>1, <2>2, <2>3
      DEF CheckBenign, RequestInv, InTransaction, Holding, Diagnosed
    <2> QED
      BY <1>2, <1>7, <2>1, <2>2, <2>4 DEF CheckBenign, Holding
  <1>8. CASE /\ RevokeByTokenLookup(r)
             /\ req[r].tok \in Stored
             /\ req' = [req EXCEPT ![r].pc = "revoke",
                                   ![r].fam = rows[req[r].tok].family]
    <2>1. Quiet(r) /\ Stored' = Stored
      BY <1>0, <1>8 DEF RevokeByTokenLookup, Quiet, Stored, TypeOK
    <2>2. /\ req'[r].tok = req[r].tok /\ req'[r].res = req[r].res
          /\ req'[r].pc = "revoke" /\ req'[r].fam = rows[req[r].tok].family
      BY <1>0, <1>8 DEF RequestState
    <2>3. req[r].res = "reused" =>
             req[r].tok \in Stored' /\ Dead(rows[req[r].tok].family)'
      BY <1>0, <1>8, <2>1 DEF RequestInv, Dead, FamilyRows, RevokeByTokenLookup
    <2>4. RequestInv(r)'
      BY <1>0, <1>8, <2>1, <2>2, <2>3
      DEF RevokeByTokenLookup, RequestInv, InTransaction, Holding, Diagnosed
    <2> QED
      BY <1>2, <1>8, <2>1, <2>2, <2>4 DEF RevokeByTokenLookup, Holding
  <1>9. CASE RevokeSnapshot(r)
    <2>1. Quiet(r) /\ Stored' = Stored
      BY <1>0, <1>9 DEF RevokeSnapshot, Quiet, Stored, TypeOK
    <2>2. /\ req'[r].tok = req[r].tok /\ req'[r].res = req[r].res
          /\ req'[r].op = req[r].op /\ req'[r].fam = req[r].fam
          /\ req'[r].pc = "revoking" /\ req'[r].now = clock
          /\ req'[r].targets = Revocable(r)
      BY <1>0, <1>9 DEF RevokeSnapshot, RequestState
    <2>3. req[r].res = "reused" =>
             req[r].tok \in Stored' /\ Dead(rows[req[r].tok].family)'
      BY <1>0, <1>9, <2>1 DEF RequestInv, Dead, FamilyRows, RevokeSnapshot
    <2>4. clock # 0
      BY <1>0 DEF TypeOK
    <2>5. req[r].op = "rotate" =>
             /\ req[r].tok \in Stored /\ req[r].fam = rows[req[r].tok].family
             /\ req[r].tok \in Revocable(r) \/ rows[req[r].tok].revoked # 0
      BY <1>0, <1>9 DEF RevokeSnapshot, RequestInv, Diagnosed, Revocable
    <2>6. RequestInv(r)'
      BY <1>0, <1>9, <2>1, <2>2, <2>3, <2>4, <2>5
      DEF RevokeSnapshot, RequestInv, InTransaction, Holding, Diagnosed
    <2> QED
      BY <1>2, <1>9, <2>1, <2>2, <2>6 DEF RevokeSnapshot, Holding
  <1>10. CASE Return(r)
    <2>1. Quiet(r) /\ Stored' = Stored
      BY <1>0, <1>10 DEF Return, Quiet, Stored, TypeOK
    <2>2. req'[r].tok = None /\ req'[r].res = "none" /\ req'[r].pc = "idle"
      BY <1>0, <1>10 DEF Return, IdleRequest
    <2>3. RequestInv(r)'
      BY <2>2 DEF RequestInv, InTransaction, Holding, Diagnosed
    <2> QED
      BY <1>2, <1>10, <2>1, <2>2, <2>3 DEF Return, Holding
  <1> QED
    BY <1>1, <1>3, <1>4, <1>5, <1>6, <1>7, <1>8, <1>9, <1>10
    DEF Statement, CheckBenign, RevokeByTokenLookup

-----------------------------------------------------------------------------
(* Steps that change the table. *)

\* What every step keeps of the rows there are.
Grows ==
    /\ Stored \subseteq Stored'
    /\ \A h \in Stored :
          /\ rows'[h].family = rows[h].family
          /\ rows'[h].issued = rows[h].issued
          /\ rows[h].revoked # 0 => rows'[h].revoked # 0

\* When rows only grow, a revoked family stays revoked.
LEMMA DeadForGood ==
    ASSUME Grows, NEW f, Dead(f)
    PROVE  Dead(f)'
  <1>1. PICK h \in FamilyRows(f) : rows[h].revoked # 0
    BY DEF Dead
  <1>2. h \in FamilyRows(f)' /\ rows'[h].revoked # 0
    BY <1>1 DEF Grows, FamilyRows
  <1> QED
    BY <1>2 DEF Dead

\* A request that did not move keeps what it knows when rows only grow and
\* nobody else touches the row it has locked.
LEMMA RequestStays ==
    ASSUME IInv, TypeOK', Grows, NEW s \in Request, req'[s] = req[s],
           clock' >= clock,
           req[s].tok \in Stored' => req[s].tok \in Stored,
           req[s].tok \in late' => req[s].tok \in late,
           req[s].pc \in Holding => rows'[req[s].tok].used = rows[req[s].tok].used,
           req[s].pc = "commit" => req[s].new \notin Stored'
    PROVE  RequestInv(s)'
  <1>1. RequestInv(s) /\ req[s].now \in Nat /\ clock \in Nat /\ clock' \in Nat
    BY DEF IInv, TypeOK, RequestState
  <1>2. req[s].tok \in Stored' <=> req[s].tok \in Stored
    BY DEF Grows
  <1>3. req[s].tok \in Stored =>
           /\ rows'[req[s].tok].family = rows[req[s].tok].family
           /\ rows'[req[s].tok].issued = rows[req[s].tok].issued
           /\ rows[req[s].tok].revoked # 0 => rows'[req[s].tok].revoked # 0
    BY DEF Grows
  <1>4. /\ req[s].tok \in Stored
        /\ Dead(rows[req[s].tok].family)
        => Dead(rows[req[s].tok].family)'
    <2> SUFFICES ASSUME req[s].tok \in Stored, Dead(rows[req[s].tok].family)
                 PROVE  Dead(rows[req[s].tok].family)'
      OBVIOUS
    <2>1. PICK h \in FamilyRows(rows[req[s].tok].family) : rows[h].revoked # 0
      BY DEF Dead
    <2>2. h \in FamilyRows(rows[req[s].tok].family)' /\ rows'[h].revoked # 0
      BY <1>3, <2>1 DEF Grows, FamilyRows
    <2> QED
      BY <2>2 DEF Dead
  <1> QED
    BY <1>1, <1>2, <1>3, <1>4 DEF RequestInv, InTransaction, Holding, Diagnosed

\* Issue keeps IInv: the new family shares nothing with the others.
LEMMA IssueStep ==
    ASSUME IInv, TypeOK', NEW r \in Request, NEW u \in User, Issue(r, u)
    PROVE  IInv'
  <1>1. PICK h \in Unused, f \in Family, result \in {"session", "error"} :
           /\ FamilyRows(f) = {}
           /\ rows' = [rows EXCEPT ![h] =
                         [EmptyRow EXCEPT !.family = f, !.user = u,
                                          !.issued = clock,
                                          !.expires = clock + TTL]]
           /\ gen' = [gen EXCEPT ![h] = 1]
           /\ req' = [req EXCEPT ![r] =
                        [IdleRequest EXCEPT !.pc = "done", !.op = "issue",
                                            !.tok = h, !.res = result]]
    BY DEF Issue
  <1>2. clock' = clock + 1 /\ late' = late /\ clock \in Nat \ {0}
    BY DEF Issue, IInv, TypeOK
  <1>3. h \in Hash /\ h \notin Stored /\ h # None
    BY NoneAssumption DEF Unused
  <1>4. /\ rows'[h].family = f /\ rows'[h].issued = clock
        /\ rows'[h].used = 0 /\ rows'[h].revoked = 0
        /\ \A x \in Hash \ {h} : rows'[x] = rows[x] /\ gen'[x] = gen[x]
    BY <1>1, <1>3 DEF IInv, TypeOK, EmptyRow
  <1>5. Stored' = Stored \cup {h}
    BY <1>2, <1>3, <1>4 DEF Stored
  <1>6. \A x \in Stored : x \in Hash /\ x # h
    BY <1>3 DEF Stored
  <1>7. Grows
    BY <1>4, <1>5, <1>6 DEF Grows
  <1>8. IssuedInThePast'
    <2> SUFFICES ASSUME NEW x \in Stored'
                 PROVE  rows'[x].issued < clock'
      BY DEF IssuedInThePast
    <2>1. CASE x = h
      BY <1>2, <1>4, <2>1
    <2>2. CASE x \in Stored
      <3>1. rows[x].issued \in Nat /\ rows[x].issued < clock
        BY <1>6, <2>2 DEF IInv, TypeOK, Row, IssuedInThePast
      <3> QED
        BY <1>2, <1>4, <1>6, <2>2, <3>1
    <2> QED
      BY <1>5, <2>1, <2>2
  <1>9. SpentBySuccessor'
    <2> SUFFICES ASSUME NEW x \in Stored', rows'[x].used # 0
                 PROVE  /\ rows'[x].issued < rows'[x].used
                        /\ \E g \in FamilyRows(rows[x].family)' :
                              gen'[g] = gen'[x] + 1 /\ rows'[g].issued = rows'[x].used
      BY DEF SpentBySuccessor
    <2>1. x \in Stored
      BY <1>4, <1>5
    <2>2. /\ rows[x].issued < rows[x].used
          /\ \E g \in FamilyRows(rows[x].family) :
                gen[g] = gen[x] + 1 /\ rows[g].issued = rows[x].used
      BY <1>4, <1>6, <2>1 DEF IInv, SpentBySuccessor
    <2>3. PICK g \in FamilyRows(rows[x].family) :
             gen[g] = gen[x] + 1 /\ rows[g].issued = rows[x].used
      BY <2>2
    <2>4. g \in FamilyRows(rows[x].family)'
      BY <1>4, <1>5, <1>6, <2>1, <2>3 DEF FamilyRows
    <2> QED
      BY <1>4, <1>6, <2>1, <2>2, <2>3, <2>4 DEF FamilyRows
  <1>10. Lifetimes'
    <2>1. \A x \in Stored : rows[x].family # f
      BY <1>1 DEF FamilyRows
    <2> SUFFICES ASSUME NEW x \in Stored', NEW y \in Stored',
                        rows'[x].family = rows'[y].family
                 PROVE  /\ gen'[x] = gen'[y] => x = y
                        /\ gen'[x] < gen'[y] =>
                              rows'[x].used # 0 /\ rows'[x].used <= rows'[y].issued
      BY DEF Lifetimes
    <2>2. CASE x \in Stored /\ y \in Stored
      <3>1. /\ rows'[x] = rows[x] /\ rows'[y] = rows[y]
            /\ gen'[x] = gen[x] /\ gen'[y] = gen[y]
        BY <1>4, <1>6, <2>2
      <3> QED
        BY <2>2, <3>1 DEF IInv, Lifetimes
    <2>3. CASE x = h /\ y = h
      <3>1. gen'[h] \in Nat
        BY <1>3 DEF TypeOK
      <3> QED
        BY <2>3, <3>1
    <2> QED
      BY <1>4, <1>5, <1>6, <2>1, <2>2, <2>3
  <1>11. Stragglers'
    <2> SUFFICES ASSUME NEW x \in late
                 PROVE  x \in Stored' /\ rows'[x].used = 0 /\ Dead(rows[x].family)'
      BY <1>2 DEF Stragglers
    <2>1. x \in Stored /\ rows[x].used = 0 /\ Dead(rows[x].family)
      BY DEF IInv, Stragglers
    <2>2. rows'[x] = rows[x]
      BY <1>4, <1>6, <2>1
    <2> QED
      BY <1>5, <1>7, <2>1, <2>2, DeadForGood
  <1>12. ASSUME NEW s \in Request
         PROVE  RequestInv(s)'
    <2>1. CASE s = r
      <3>1. req'[r].pc = "done" /\ req'[r].tok = h /\ req'[r].res # "reused"
        BY <1>1 DEF IInv, TypeOK, IdleRequest
      <3> QED
        BY <1>5, <2>1, <3>1 DEF RequestInv, InTransaction, Holding, Diagnosed
    <2>2. CASE s # r
      <3>1. req'[s] = req[s] /\ req[s].new # h
        BY <1>1, <2>2 DEF IInv, TypeOK, Unused
      <3>2. RequestInv(s)
        BY DEF IInv
      <3>3. req[s].tok # h
        BY <1>3, <3>2 DEF RequestInv
      <3>4. req[s].pc \in Holding => rows'[req[s].tok] = rows[req[s].tok]
        BY <1>4, <1>6, <3>2 DEF RequestInv
      <3>5. req[s].pc = "commit" => req[s].new \notin Stored'
        BY <1>5, <3>1, <3>2 DEF RequestInv
      <3>6. clock' >= clock
        BY <1>2
      <3> QED
        BY <1>2, <1>5, <1>7, <3>1, <3>3, <3>4, <3>5, <3>6, RequestStays
    <2> QED
      BY <2>1, <2>2
  <1>13. Exclusive'
    <2>1. req'[r].pc \notin Holding /\ \A s \in Request \ {r} : req'[s] = req[s]
      BY <1>1 DEF IInv, TypeOK, IdleRequest, Holding
    <2> QED
      BY <2>1 DEF IInv, Exclusive, Holding
  <1> QED
    BY <1>8, <1>9, <1>10, <1>11, <1>12, <1>13 DEF IInv

\* Commit keeps IInv: the token it spends was the last one of its family,
\* because the row lock was held since the row was checked.
LEMMA CommitStep ==
    ASSUME IInv, TypeOK', NEW r \in Request, Commit(r)
    PROVE  IInv'
  <1> DEFINE t == req[r].tok
             n == req[r].new
             now == req[r].now
  <1>1. PICK result \in {"session", "error"} : Finish(r, result)
    BY DEF Commit
  <1>2. /\ rows' = CommitRows(t, n, now, req[r].expires)
        /\ gen' = [gen EXCEPT ![n] = gen[t] + 1]
        /\ late' = IF Dead(rows[t].family) THEN late \cup {n} ELSE late
        /\ clock' = clock + 1
    BY DEF Commit
  <1>3. /\ t \in Stored /\ t \notin late /\ rows[t].used = 0
        /\ rows[t].issued < now /\ now <= clock
        /\ n \in Hash /\ n \notin Stored
    BY DEF IInv, RequestInv, Commit, Holding, InTransaction
  <1>4. t \in Hash /\ t # n /\ n # None
    BY <1>3, NoneAssumption DEF Stored
  <1>5. now \in Nat /\ clock \in Nat /\ rows[t].issued \in Nat /\ now # 0
    <2>1. now \in Nat /\ clock \in Nat /\ rows[t].issued \in Nat
      BY <1>4 DEF IInv, TypeOK, RequestState, Row
    <2> QED
      BY <1>3, <2>1
  <1>6. /\ rows'[t] = [rows[t] EXCEPT !.used = now]
        /\ rows'[n] = [EmptyRow EXCEPT !.family = rows[t].family,
                                       !.user = rows[t].user, !.issued = now,
                                       !.expires = req[r].expires]
        /\ \A x \in Hash \ {t, n} : rows'[x] = rows[x]
    BY <1>2, <1>3, <1>4 DEF CommitRows, IInv, TypeOK
  <1>7. /\ rows'[t].family = rows[t].family /\ rows'[t].issued = rows[t].issued
        /\ rows'[t].used = now /\ rows'[t].revoked = rows[t].revoked
        /\ rows'[n].family = rows[t].family /\ rows'[n].issued = now
        /\ rows'[n].used = 0
    <2>1. rows[t] \in Row
      BY <1>4 DEF IInv, TypeOK
    <2> QED
      BY <1>6, <2>1 DEF Row, EmptyRow
  <1>8. /\ gen'[n] = gen[t] + 1
        /\ \A x \in Hash \ {n} : gen'[x] = gen[x]
    BY <1>2, <1>3 DEF IInv, TypeOK
  <1>9. Stored' = Stored \cup {n}
    BY <1>3, <1>4, <1>5, <1>6, <1>7 DEF Stored
  <1>10. \A x \in Stored : x \in Hash /\ x # n
    BY <1>3 DEF Stored
  <1>11. \A x \in Stored :
           /\ rows'[x].family = rows[x].family
           /\ rows'[x].issued = rows[x].issued
           /\ rows'[x].revoked = rows[x].revoked
           /\ x # t => rows'[x].used = rows[x].used
           /\ gen'[x] = gen[x]
    BY <1>6, <1>7, <1>8, <1>10
  <1>12. Grows
    BY <1>9, <1>11 DEF Grows
  <1>13. \A x \in Hash : gen[x] \in Nat /\ rows[x].issued \in Nat /\ rows[x].used \in Nat
    BY DEF IInv, TypeOK, Row
  <1>14. IssuedInThePast'
    <2> SUFFICES ASSUME NEW x \in Stored'
                 PROVE  rows'[x].issued < clock'
      BY DEF IssuedInThePast
    <2>1. CASE x = n
      BY <1>2, <1>3, <1>5, <1>7, <2>1
    <2>2. CASE x \in Stored
      <3>1. rows[x].issued < clock
        BY <2>2 DEF IInv, IssuedInThePast
      <3> QED
        BY <1>2, <1>5, <1>10, <1>11, <1>13, <2>2, <3>1
    <2> QED
      BY <1>9, <2>1, <2>2
  <1>15. SpentBySuccessor'
    <2> SUFFICES ASSUME NEW x \in Stored', rows'[x].used # 0
                 PROVE  /\ rows'[x].issued < rows'[x].used
                        /\ \E g \in FamilyRows(rows[x].family)' :
                              gen'[g] = gen'[x] + 1 /\ rows'[g].issued = rows'[x].used
      BY DEF SpentBySuccessor
    <2>1. CASE x = t
      <3>1. PICK m : m = n
        OBVIOUS
      <3>2. m \in FamilyRows(rows[x].family)'
        BY <1>7, <1>9, <2>1, <3>1 DEF FamilyRows
      <3>3. gen'[m] = gen'[x] + 1 /\ rows'[m].issued = rows'[x].used
        BY <1>4, <1>7, <1>8, <2>1, <3>1
      <3> QED
        BY <1>3, <1>7, <2>1, <3>2, <3>3
    <2>2. CASE x # t
      <3>1. x \in Stored
        BY <1>7, <1>9
      <3>2. /\ rows[x].issued < rows[x].used
            /\ \E g \in FamilyRows(rows[x].family) :
                  gen[g] = gen[x] + 1 /\ rows[g].issued = rows[x].used
        BY <1>11, <2>2, <3>1 DEF IInv, SpentBySuccessor
      <3>3. PICK g \in FamilyRows(rows[x].family) :
               gen[g] = gen[x] + 1 /\ rows[g].issued = rows[x].used
        BY <3>2
      <3>4. g \in FamilyRows(rows[x].family)' /\ g \in Stored
        BY <1>9, <1>11, <3>1, <3>3 DEF FamilyRows
      <3> QED
        BY <1>11, <2>2, <3>1, <3>2, <3>3, <3>4
    <2> QED
      BY <2>1, <2>2
  <1>16. Lifetimes'
    <2> SUFFICES ASSUME NEW x \in Stored', NEW y \in Stored',
                        rows'[x].family = rows'[y].family
                 PROVE  /\ gen'[x] = gen'[y] => x = y
                        /\ gen'[x] < gen'[y] =>
                              rows'[x].used # 0 /\ rows'[x].used <= rows'[y].issued
      BY DEF Lifetimes
    <2>1. ASSUME NEW z \in Stored, rows[z].family = rows[t].family
          PROVE  /\ gen[z] = gen[t] => z = t
                 /\ gen[z] < gen[t] => rows[z].used # 0 /\ rows[z].used <= rows[t].issued
                 /\ ~(gen[t] < gen[z])
      BY <1>3, <2>1 DEF IInv, Lifetimes
    <2>2. CASE x \in Stored /\ y \in Stored
      <3>1. /\ gen[x] = gen[y] => x = y
            /\ gen[x] < gen[y] => rows[x].used # 0 /\ rows[x].used <= rows[y].issued
        BY <1>11, <2>2 DEF IInv, Lifetimes
      <3>2. CASE x = t
        BY <1>3, <1>11, <2>2, <3>1, <3>2
      <3>3. CASE x # t
        BY <1>11, <2>2, <3>1, <3>3
      <3> QED
        BY <3>2, <3>3
    <2>3. CASE x = n /\ y = n
      BY <1>8, <1>4, <1>13, <2>3
    <2>4. CASE x \in Stored /\ y = n
      <3>1. rows[x].family = rows[t].family /\ x \in Hash /\ gen'[x] = gen[x]
        BY <1>7, <1>10, <1>11, <2>4
      <3>2. gen[x] \in Nat /\ gen[t] \in Nat /\ rows[x].used \in Nat
        BY <1>4, <1>13, <3>1
      <3>3. gen[x] < gen[t] \/ gen[x] = gen[t]
        BY <2>1, <2>4, <3>1, <3>2
      <3>4. CASE x = t
        BY <1>5, <1>7, <1>8, <2>4, <3>1, <3>2, <3>4
      <3>5. CASE x # t
        <4>1. gen[x] < gen[t] /\ rows[x].used # 0 /\ rows[x].used <= rows[t].issued
          BY <2>1, <2>4, <3>1, <3>3, <3>5
        <4>2. rows'[x].used = rows[x].used
          BY <1>11, <2>4, <3>5
        <4> QED
          BY <1>3, <1>5, <1>7, <1>8, <2>4, <3>1, <3>2, <4>1, <4>2
      <3> QED
        BY <3>4, <3>5
    <2>5. CASE x = n /\ y \in Stored
      <3>1. rows[y].family = rows[t].family /\ y \in Hash /\ gen'[y] = gen[y]
        BY <1>7, <1>10, <1>11, <2>5
      <3>2. gen[y] \in Nat /\ gen[t] \in Nat
        BY <1>4, <1>13, <3>1
      <3> QED
        BY <1>8, <2>1, <2>5, <3>1, <3>2
    <2> QED
      BY <1>9, <2>2, <2>3, <2>4, <2>5
  <1>17. Stragglers'
    <2>1. ASSUME NEW f, Dead(f)
          PROVE  Dead(f)'
      BY <1>12, <2>1, DeadForGood
    <2>2. ASSUME NEW x \in late
          PROVE  x \in Stored' /\ rows'[x].used = 0 /\ Dead(rows[x].family)'
      <3>1. x \in Stored /\ x # t /\ rows[x].used = 0 /\ Dead(rows[x].family)
        BY <1>3 DEF IInv, Stragglers
      <3>2. rows'[x].family = rows[x].family
        BY <1>11, <3>1
      <3> QED
        BY <1>9, <1>11, <2>1, <3>1, <3>2
    <2>3. ASSUME NEW m, m = n, Dead(rows[t].family)
          PROVE  m \in Stored' /\ rows'[m].used = 0 /\ Dead(rows[m].family)'
      <3>1. rows'[m].family = rows[t].family
        BY <1>7, <2>3
      <3> QED
        BY <1>7, <1>9, <2>1, <2>3, <3>1
    <2>4. ASSUME NEW m \in late'
          PROVE  m \in late \/ (m = n /\ Dead(rows[t].family))
      BY <1>2
    <2> QED
      BY <2>2, <2>3, <2>4 DEF Stragglers
  <1>18. ASSUME NEW s \in Request
         PROVE  RequestInv(s)'
    <2>1. CASE s = r
      <3>1. req'[r].pc = "done" /\ req'[r].tok = t /\ req'[r].res # "reused"
        BY <1>1 DEF Finish, IInv, TypeOK, IdleRequest
      <3> QED
        BY <1>3, <1>9, <2>1, <3>1 DEF RequestInv, InTransaction, Holding, Diagnosed
    <2>2. CASE s # r
      <3>1. req'[s] = req[s]
        BY <1>1, <2>2 DEF Finish, IInv, TypeOK
      <3>2. RequestInv(s)
        BY DEF IInv
      <3>3. req[s].tok # n
        BY <1>3, <1>4, <3>2 DEF RequestInv
      <3>4. req[s].pc \in Holding => req[s].tok \in Stored /\ req[s].tok # t
        BY <2>2, <3>2 DEF RequestInv, IInv, Exclusive, Holding, Commit
      <3>5. req[s].pc \in Holding => rows'[req[s].tok].used = rows[req[s].tok].used
        BY <1>11, <3>4
      <3>6. req[s].pc = "commit" => req[s].new \notin Stored'
        BY <1>9, <2>2, <3>2 DEF RequestInv, IInv, Exclusive, Commit
      <3>7. clock' >= clock
        BY <1>2, <1>5
      <3>8. req[s].tok \in late' => req[s].tok \in late
        BY <1>2, <3>3
      <3> QED
        BY <1>9, <1>12, <3>1, <3>3, <3>5, <3>6, <3>7, <3>8, RequestStays
    <2> QED
      BY <2>1, <2>2
  <1>19. Exclusive'
    <2>1. req'[r].pc \notin Holding /\ \A s \in Request \ {r} : req'[s] = req[s]
      BY <1>1 DEF Finish, IInv, TypeOK, IdleRequest, Holding
    <2> QED
      BY <2>1 DEF IInv, Exclusive, Holding
  <1> QED
    BY <1>14, <1>15, <1>16, <1>17, <1>18, <1>19 DEF IInv

\* RevokeApply keeps IInv: it stamps rows and ends no lifetime.
LEMMA RevokeStep ==
    ASSUME IInv, TypeOK', NEW r \in Request, RevokeApply(r)
    PROVE  IInv'
  <1>0. PICK result \in {IF req[r].op = "rotate" THEN "reused" ELSE "revoked", "error"} :
           Finish(r, result)
    BY DEF RevokeApply
  <1>1. /\ rows' = RevokedRows(req[r].targets, req[r].now)
        /\ clock' = clock /\ gen' = gen /\ late' = late
        /\ Finish(r, result)
    BY <1>0 DEF RevokeApply
  <1>2. \A x \in Hash :
           rows'[x] = IF x \in req[r].targets /\ rows[x].revoked = 0
                        THEN [rows[x] EXCEPT !.revoked = req[r].now]
                        ELSE rows[x]
    BY <1>1 DEF RevokedRows
  <1>3. \A x \in Hash :
           /\ rows'[x].family = rows[x].family
           /\ rows'[x].issued = rows[x].issued
           /\ rows'[x].used = rows[x].used
           /\ rows[x].revoked # 0 => rows'[x].revoked # 0
           /\ x \in req[r].targets /\ rows[x].revoked = 0 => rows'[x].revoked = req[r].now
    <2>1. \A x \in Hash : rows[x] \in Row
      BY DEF IInv, TypeOK
    <2> QED
      BY <1>2, <2>1 DEF Row
  <1>4. Stored' = Stored /\ Stored \subseteq Hash
    BY <1>3 DEF Stored
  <1>5. Grows
    BY <1>3, <1>4 DEF Grows
  <1>6. \A f : FamilyRows(f)' = FamilyRows(f)
    BY <1>3, <1>4 DEF FamilyRows
  <1>7. IssuedInThePast'
    BY <1>1, <1>3, <1>4 DEF IInv, IssuedInThePast
  <1>8. SpentBySuccessor'
    <2> SUFFICES ASSUME NEW x \in Stored, rows[x].used # 0
                 PROVE  /\ rows'[x].issued < rows'[x].used
                        /\ \E g \in FamilyRows(rows[x].family)' :
                              gen'[g] = gen'[x] + 1 /\ rows'[g].issued = rows'[x].used
      BY <1>3, <1>4 DEF SpentBySuccessor
    <2>1. /\ rows[x].issued < rows[x].used
          /\ \E g \in FamilyRows(rows[x].family) :
                gen[g] = gen[x] + 1 /\ rows[g].issued = rows[x].used
      BY DEF IInv, SpentBySuccessor
    <2>2. PICK g \in FamilyRows(rows[x].family) :
             gen[g] = gen[x] + 1 /\ rows[g].issued = rows[x].used
      BY <2>1
    <2>3. g \in FamilyRows(rows[x].family)' /\ g \in Hash
      BY <1>3, <1>4, <2>2 DEF FamilyRows
    <2> QED
      BY <1>1, <1>3, <1>4, <2>1, <2>2, <2>3
  <1>9. Lifetimes'
    BY <1>1, <1>3, <1>4 DEF IInv, Lifetimes
  <1>10. Stragglers'
    <2> SUFFICES ASSUME NEW x \in late
                 PROVE  x \in Stored' /\ rows'[x].used = 0 /\ Dead(rows[x].family)'
      BY <1>1 DEF Stragglers
    <2>1. x \in Stored /\ rows[x].used = 0 /\ Dead(rows[x].family)
      BY DEF IInv, Stragglers
    <2>2. rows'[x].family = rows[x].family
      BY <1>3, <1>4, <2>1
    <2>3. ASSUME NEW f, Dead(f)
          PROVE  Dead(f)'
      BY <1>5, <2>3, DeadForGood
    <2> QED
      BY <1>3, <1>4, <2>1, <2>2, <2>3
  <1>11. ASSUME NEW s \in Request
         PROVE  RequestInv(s)'
    <2>1. CASE s = r
      <3>1. /\ req'[r].pc = "done" /\ req'[r].tok = req[r].tok
            /\ req'[r].res = "reused" => req[r].op = "rotate"
        BY <1>0, <1>1 DEF Finish, IInv, TypeOK, IdleRequest
      <3>2. RequestInv(r) /\ req[r].pc = "revoking"
        BY DEF IInv, RevokeApply
      <3>3. req[r].op = "rotate" => req[r].tok \in Stored /\ rows'[req[r].tok].revoked # 0
        BY <1>3, <1>4, <3>2 DEF RequestInv, Diagnosed
      <3>4. req[r].op = "rotate" => Dead(rows[req[r].tok].family)'
        BY <1>4, <3>1, <3>3 DEF Dead, FamilyRows
      <3>5. req'[r].tok \in Stored' \cup {None}
        BY <1>4, <3>1, <3>2 DEF RequestInv
      <3> QED
        BY <1>4, <2>1, <3>1, <3>3, <3>4, <3>5
        DEF RequestInv, InTransaction, Holding, Diagnosed
    <2>2. CASE s # r
      <3>1. req'[s] = req[s]
        BY <1>1, <2>2 DEF Finish, IInv, TypeOK
      <3>2. RequestInv(s)
        BY DEF IInv
      <3>3. req[s].pc \in Holding => rows'[req[s].tok].used = rows[req[s].tok].used
        BY <1>3, <1>4, <3>2 DEF RequestInv
      <3>4. req[s].pc = "commit" => req[s].new \notin Stored'
        BY <1>4, <3>2 DEF RequestInv
      <3>5. clock' >= clock
        BY <1>1 DEF IInv, TypeOK
      <3> QED
        BY <1>1, <1>4, <1>5, <3>1, <3>3, <3>4, <3>5, RequestStays
    <2> QED
      BY <2>1, <2>2
  <1>12. Exclusive'
    <2>1. req'[r].pc \notin Holding /\ \A s \in Request \ {r} : req'[s] = req[s]
      BY <1>1 DEF Finish, IInv, TypeOK, IdleRequest, Holding
    <2> QED
      BY <2>1 DEF IInv, Exclusive, Holding
  <1> QED
    BY <1>7, <1>8, <1>9, <1>10, <1>11, <1>12 DEF IInv

-----------------------------------------------------------------------------
(* The theorems. *)

\* IInv holds of the empty table.
LEMMA InvInit == Init => IInv
  <1> SUFFICES ASSUME Init
               PROVE  IInv
    OBVIOUS
  <1>1. TypeOK
    BY DEF Init, TypeOK, EmptyRow, Row, IdleRequest, RequestState, Pc
  <1>2. Stored = {} /\ late = {}
    BY DEF Init, Stored, EmptyRow
  <1>3. \A r \in Request : req[r] = IdleRequest
    BY DEF Init
  <1>4. \A r \in Request : RequestInv(r)
    BY <1>3 DEF RequestInv, IdleRequest, InTransaction, Holding, Diagnosed
  <1>5. Exclusive
    BY <1>3 DEF Exclusive, IdleRequest, Holding
  <1> QED
    BY <1>1, <1>2, <1>4, <1>5
    DEF IInv, IssuedInThePast, SpentBySuccessor, Lifetimes, Stragglers

\* Every step keeps IInv.
LEMMA InvStep == IInv /\ [Next]_vars => IInv'
  <1> SUFFICES ASSUME IInv, [Next]_vars
               PROVE  IInv'
    OBVIOUS
  <1>0. TypeOK'
    BY TypeStep DEF IInv
  <1>1. ASSUME UNCHANGED <<rows, req, gen, late>>, clock' >= clock
        PROVE  IInv'
    <2>1. /\ IssuedInThePast' /\ SpentBySuccessor' /\ Lifetimes' /\ Stragglers'
          /\ \A s \in Request : RequestInv(s)'
      BY <1>0, <1>1, QuietTable
    <2> QED
      BY <1>0, <1>1, <2>1 DEF IInv, Exclusive
  <1>2. CASE Tick
    <2>1. clock' >= clock
      BY <1>2 DEF Tick, IInv, TypeOK
    <2> QED
      BY <1>1, <1>2, <2>1 DEF Tick
  <1>3. CASE UNCHANGED vars
    <2>1. clock' >= clock
      BY <1>3 DEF vars, IInv, TypeOK
    <2> QED
      BY <1>1, <1>3, <2>1 DEF vars
  <1>4. ASSUME NEW r \in Request, Start(r)
        PROVE  IInv'
    BY <1>0, <1>4, IssueStep, QuietStart
  <1>5. ASSUME NEW r \in Request, Statement(r)
        PROVE  IInv'
    BY <1>0, <1>5, CommitStep, QuietStatement
  <1>6. ASSUME NEW r \in Request, ConsumeApply(r)
        PROVE  IInv'
    BY <1>0, <1>6, CommitStep, QuietStatement
  <1>7. ASSUME NEW r \in Request, RevokeApply(r)
        PROVE  IInv'
    BY <1>0, <1>7, RevokeStep
  <1>8. ASSUME NEW r \in Request, StepFails(r)
        PROVE  IInv'
    BY <1>0, <1>8, FinishQuiet DEF StepFails, Result
  <1> QED
    BY <1>2, <1>3, <1>4, <1>5, <1>6, <1>7, <1>8 DEF Next

\* IInv is an invariant, for every set of hashes, families, users and requests.
THEOREM Invariance == Spec => []IInv
  BY InvInit, InvStep, PTL DEF Spec

(* Every reachable state is well typed, whatever the constants. *)
THEOREM TypeCorrect == Spec => []TypeOK
  <1>1. IInv => TypeOK
    BY DEF IInv
  <1> QED
    BY <1>1, Invariance, PTL

(* The order of generations and the order of timestamps agree. *)
LEMMA LineLemma ==
    ASSUME IInv
    PROVE  ExactlyOneSuccessor /\ DescendedByTimestamp
  <1>0. \A h \in Stored : /\ h \in Hash /\ gen[h] \in Nat
                          /\ rows[h].issued \in Nat /\ rows[h].used \in Nat
    BY DEF IInv, TypeOK, Row, Stored
  <1>1. ExactlyOneSuccessor
    <2> SUFFICES ASSUME NEW h \in Stored
                 PROVE  /\ \A g \in FamilyRows(rows[h].family) :
                              /\ gen[g] = gen[h] => g = h
                              /\ gen[g] > gen[h] => rows[h].used # 0
                        /\ rows[h].used # 0 =>
                              \E g \in FamilyRows(rows[h].family) :
                                 gen[g] = gen[h] + 1 /\ rows[g].issued = rows[h].used
      BY DEF ExactlyOneSuccessor
    <2>1. ASSUME NEW g \in FamilyRows(rows[h].family)
          PROVE  /\ gen[g] = gen[h] => g = h
                 /\ gen[g] > gen[h] => rows[h].used # 0
      <3>1. g \in Stored /\ rows[g].family = rows[h].family
        BY DEF FamilyRows
      <3>2. gen[h] < gen[g] => rows[h].used # 0
        BY <3>1 DEF IInv, Lifetimes
      <3>3. gen[g] = gen[h] => g = h
        BY <3>1 DEF IInv, Lifetimes
      <3> QED
        BY <1>0, <3>1, <3>2, <3>3
    <2> QED
      BY <2>1 DEF IInv, SpentBySuccessor
  <1>2. DescendedByTimestamp
    <2> SUFFICES ASSUME NEW h \in Stored, rows[h].used # 0,
                        NEW g \in FamilyRows(rows[h].family)
                 PROVE  rows[g].issued >= rows[h].used <=> gen[g] > gen[h]
      BY DEF DescendedByTimestamp
    <2>1. g \in Stored /\ rows[g].family = rows[h].family
      BY DEF FamilyRows
    <2>2. /\ gen[g] = gen[h] => g = h
          /\ gen[h] < gen[g] => rows[h].used <= rows[g].issued
          /\ gen[g] < gen[h] => rows[g].used # 0 /\ rows[g].used <= rows[h].issued
      BY <2>1 DEF IInv, Lifetimes
    <2>3. /\ rows[h].issued < rows[h].used
          /\ rows[g].used # 0 => rows[g].issued < rows[g].used
      BY <2>1 DEF IInv, SpentBySuccessor
    <2> QED
      BY <1>0, <2>1, <2>2, <2>3
  <1> QED
    BY <1>1, <1>2

(* Exactly one of the rotations that present a token wins: families never    *)
(* branch, whatever requests race.                                           *)
THEOREM RotationNeverForks == Spec => []ExactlyOneSuccessor
  BY LineLemma, Invariance, PTL

(* The timestamp comparison of IsBenignRefreshRace recognises exactly the    *)
(* descendants of a rotation.                                                *)
THEOREM TimestampsOrderFamilies == Spec => []DescendedByTimestamp
  BY LineLemma, Invariance, PTL

\* What IsBenignRefreshRace computes, in terms of generations.
LEMMA BenignLemma ==
    ASSUME IInv
    PROVE  BenignOnlyForTipsParent
  <1> SUFFICES ASSUME NEW h \in Stored, rows[h].used # 0
               PROVE  IsBenign(rows[h].family, rows[h].used, clock) <=>
                        /\ clock - rows[h].used < Grace
                        /\ ~Dead(rows[h].family)
                        /\ \E g \in FamilyRows(rows[h].family) :
                              gen[g] = gen[h] + 1 /\ RowConsumable(g, clock)
    BY DEF BenignOnlyForTipsParent
  <1> DEFINE F == FamilyRows(rows[h].family)
  <1>0. /\ clock \in Nat /\ Grace \in Nat /\ rows[h].used \in Nat /\ gen[h] \in Nat
        /\ \A g \in F : g \in Stored /\ rows[g].family = rows[h].family /\ gen[g] \in Nat
    BY TimeAssumption DEF IInv, TypeOK, Row, Stored, FamilyRows
  <1>1. rows[h].used > clock - Grace <=> clock - rows[h].used < Grace
    BY <1>0
  <1>2. \A g \in F : rows[g].issued >= rows[h].used <=> gen[g] > gen[h]
    BY LineLemma DEF DescendedByTimestamp
  <1>3. PICK n \in F : gen[n] = gen[h] + 1
    BY LineLemma DEF ExactlyOneSuccessor
  <1>4. rows[n].issued >= rows[h].used
    BY <1>0, <1>2, <1>3
  <1>5. ASSUME NEW g \in F, gen[g] > gen[h], rows[n].used = 0
        PROVE  g = n
    <2>1. rows[n].family = rows[h].family /\ n \in Stored /\ g \in F
      BY <1>0
    <2>2. ~(gen[g] > gen[n]) /\ (gen[g] = gen[n] => g = n)
      BY <1>5, <2>1, LineLemma DEF ExactlyOneSuccessor
    <2> QED
      BY <1>0, <1>3, <1>5, <2>2
  <1>6. ASSUME NEW g \in F, gen[g] = gen[h] + 1
        PROVE  g = n
    BY <1>0, <1>3, <1>6, LineLemma DEF ExactlyOneSuccessor
  <1>7. ASSUME IsBenign(rows[h].family, rows[h].used, clock)
        PROVE  RowConsumable(n, clock)
    <2>1. rows[n].used = 0
      BY <1>4, <1>7 DEF IsBenign
    <2>2. PICK g \in F : rows[g].issued >= rows[h].used /\ RowConsumable(g, clock)
      BY <1>7 DEF IsBenign
    <2> QED
      BY <1>2, <1>5, <2>1, <2>2
  <1>8. ASSUME RowConsumable(n, clock), NEW g \in F, rows[g].issued >= rows[h].used
        PROVE  rows[g].used = 0
    BY <1>2, <1>5, <1>8 DEF RowConsumable
  <1> QED
    BY <1>1, <1>3, <1>4, <1>6, <1>7, <1>8 DEF IsBenign

(* Only the token whose replacement is still the live end of the family is   *)
(* ever taken for an honest race.                                            *)
THEOREM BenignRaceIsHonest == Spec => []BenignOnlyForTipsParent
  BY BenignLemma, Invariance, PTL

(* A revoked family gains at most one more token, and never a session from   *)
(* it: the NOT EXISTS of ConsumeRefreshToken is enough, although it is        *)
(* evaluated in a snapshot that may be stale when the row is written.         *)
THEOREM RevocationIsFinal == Spec => []RevokedFamilyStaysDead
  <1>1. IInv => RevokedFamilyStaysDead
    <2> SUFFICES ASSUME IInv
                 PROVE  RevokedFamilyStaysDead
      OBVIOUS
    <2>1. \A h \in late : h \in Stored /\ rows[h].used = 0 /\ gen[h] \in Nat
      BY DEF IInv, Stragglers, TypeOK, Stored
    <2>2. ASSUME NEW g \in late, NEW h \in late, rows[g].family = rows[h].family
          PROVE  g = h
      <3>1. /\ gen[g] = gen[h] => g = h
            /\ ~(gen[g] < gen[h]) /\ ~(gen[h] < gen[g])
        BY <2>1, <2>2 DEF IInv, Lifetimes
      <3> QED
        BY <2>1, <3>1
    <2> QED
      BY <2>1, <2>2 DEF RevokedFamilyStaysDead
  <1> QED
    BY <1>1, Invariance, PTL

(* ErrRefreshTokenReused is returned only once the family is revoked.        *)
THEOREM ReuseIsPunished == Spec => []ReusedMeansRevoked
  <1>1. IInv => ReusedMeansRevoked
    BY DEF IInv, RequestInv, ReusedMeansRevoked
  <1> QED
    BY <1>1, Invariance, PTL

(* The first use and the first revocation of a token are never overwritten.  *)
THEOREM HistoryIsKept == Spec => TimestampsStick
  <1> DEFINE Kept == \A h \in Stored :
                        /\ rows'[h].family = rows[h].family
                        /\ rows'[h].issued = rows[h].issued
                        /\ rows[h].used # 0 => rows'[h].used = rows[h].used
                        /\ rows[h].revoked # 0 => rows'[h].revoked = rows[h].revoked
  <1>1. ASSUME IInv, [Next]_vars
        PROVE  [Kept]_vars
    <2>1. CASE UNCHANGED vars
      BY <2>1
    <2>2. ASSUME UNCHANGED rows
          PROVE  Kept
      BY <2>2
    <2>3. ASSUME NEW r \in Request, NEW u \in User, Issue(r, u)
          PROVE  Kept
      <3>1. PICK h \in Unused : \A x \in Hash \ {h} : rows'[x] = rows[x]
        BY <1>1, <2>3 DEF Issue, IInv, TypeOK
      <3> QED
        BY <3>1 DEF Unused, Stored
    <2>4. ASSUME NEW r \in Request, Commit(r)
          PROVE  Kept
      <3>1. /\ req[r].tok \in Stored /\ rows[req[r].tok].used = 0
            /\ req[r].new \notin Stored
        BY <1>1, <2>4 DEF Commit, IInv, RequestInv, Holding
      <3>2. /\ \A x \in Hash \ {req[r].tok, req[r].new} : rows'[x] = rows[x]
            /\ rows'[req[r].tok] = [rows[req[r].tok] EXCEPT !.used = req[r].now]
        BY <1>1, <2>4, <3>1 DEF Commit, CommitRows, IInv, TypeOK, Stored
      <3>3. rows[req[r].tok] \in Row
        BY <1>1, <3>1 DEF IInv, TypeOK, Stored
      <3> QED
        BY <3>1, <3>2, <3>3 DEF Stored, Row
    <2>5. ASSUME NEW r \in Request, RevokeApply(r)
          PROVE  Kept
      <3>1. \A x \in Hash :
               rows'[x] = IF x \in req[r].targets /\ rows[x].revoked = 0
                            THEN [rows[x] EXCEPT !.revoked = req[r].now]
                            ELSE rows[x]
        BY <2>5 DEF RevokeApply, RevokedRows
      <3>2. \A x \in Stored : x \in Hash /\ rows[x] \in Row
        BY <1>1 DEF IInv, TypeOK, Stored
      <3> QED
        BY <3>1, <3>2 DEF Row
    <2>6. ASSUME NEW r \in Request, Start(r), ~ \E u \in User : Issue(r, u)
          PROVE  UNCHANGED rows
      BY <2>6 DEF Start, RotateBegin, RevokeByTokenStart, RevokeFamilyStart,
                  RevokeAllForUserStart
    <2>7. ASSUME NEW r \in Request, Statement(r), ~Commit(r)
          PROVE  UNCHANGED rows
      BY <2>7 DEF Statement, ConsumeSnapshot, Mint, MintFails, DiagnoseUnspent,
                  DiagnoseSpent, CheckBenign, RevokeByTokenLookup,
                  RevokeSnapshot, Return
    <2>8. ASSUME NEW r \in Request, ConsumeApply(r) \/ StepFails(r)
          PROVE  UNCHANGED rows
      BY <2>8 DEF ConsumeApply, StepFails
    <2>9. Tick => UNCHANGED rows
      BY DEF Tick
    <2> QED
      BY <1>1, <2>1, <2>2, <2>3, <2>4, <2>5, <2>6, <2>7, <2>8, <2>9 DEF Next
  <1> QED
    BY <1>1, Invariance, PTL DEF Spec, TimestampsStick

=============================================================================
