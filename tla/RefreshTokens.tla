---------------------------- MODULE RefreshTokens ----------------------------
(***************************************************************************)
(* Refresh-token sessions: internal/auth/sessions.go over the table        *)
(* refresh_tokens, whose statements are in                                 *)
(* internal/store/queries/refresh_tokens.sql.                              *)
(*                                                                         *)
(* Each request runs Issue, Rotate, RevokeByToken, RevokeFamily or         *)
(* RevokeAllForUser.  One action is one SQL statement, or the half of one  *)
(* on either side of a wait for a row lock: under READ COMMITTED an UPDATE *)
(* chooses its rows in the snapshot of its start, waits for their locks,   *)
(* and then re-checks only the row's own columns.  A sub-select (the NOT   *)
(* EXISTS of ConsumeRefreshToken) keeps the answer of the old snapshot.    *)
(*                                                                         *)
(* Time is a logical clock.  now() is fixed when a transaction begins.     *)
(* Committing an INSERT moves the clock by one: a token can be presented   *)
(* only after the transaction that stored it committed, which takes longer *)
(* than the microsecond resolution of timestamptz.  0 is SQL's NULL.       *)
(***************************************************************************)
EXTENDS Integers, FiniteSets

CONSTANTS
    Hash,       \* token hashes, stored or still to be drawn
    Family,     \* family ids
    User,       \* user ids
    Request,    \* requests that can be in flight together
    None,       \* the null of every identifier type; presented, an unknown token
    Grace,      \* ReuseGrace
    TTL,        \* RefreshTokenTTL
    MaxClock    \* bound: how far time passes by itself

ASSUME NoneAssumption == None \notin Hash \cup Family \cup User
ASSUME TimeAssumption == Grace \in Nat /\ TTL \in Nat /\ MaxClock \in Nat

VARIABLES
    rows,       \* the table refresh_tokens; an empty slot has issued = 0
    req,        \* the requests in flight
    clock,      \* now() of a transaction that begins in this state
    gen,        \* history: how many rotations lie behind a token
    late        \* history: tokens committed into an already revoked family

vars == <<rows, req, clock, gen, late>>

-----------------------------------------------------------------------------
(* The table, its locks and the conditions of its statements. *)

Row == [family  : Family \cup {None}, user : User \cup {None},
        issued  : Nat, expires : Nat, used : Nat, revoked : Nat]

EmptyRow == [family |-> None, user |-> None,
             issued |-> 0, expires |-> 0, used |-> 0, revoked |-> 0]

Stored == {h \in Hash : rows[h].issued # 0}

FamilyRows(f) == {h \in Stored : rows[h].family = f}

Dead(f) == \E h \in FamilyRows(f) : rows[h].revoked # 0

\* The WHERE clause of ConsumeRefreshToken that is about the row itself, and
\* is evaluated again on the version another transaction left behind.
RowConsumable(h, now) ==
    /\ rows[h].used = 0
    /\ rows[h].revoked = 0
    /\ rows[h].expires > now

\* Mutant of Consumable: without the NOT EXISTS over the family.
ConsumableInDeadFamily(h, now) ==
    /\ h \in Stored
    /\ RowConsumable(h, now)

\* The whole WHERE clause, as the statement's snapshot sees it.
Consumable(h, now) ==
    /\ h \in Stored
    /\ RowConsumable(h, now)
    /\ ~Dead(rows[h].family)

\* Mutant of IsBenign: it does not ask whether the chain has moved on.
IsBenignForAncestors(f, used, now) ==
    /\ used > now - Grace
    /\ \E h \in FamilyRows(f) :
          /\ rows[h].issued >= used
          /\ RowConsumable(h, now)
    /\ ~Dead(f)

\* IsBenignRefreshRace for a token of family f spent at time used.
IsBenign(f, used, now) ==
    /\ used > now - Grace
    /\ \E h \in FamilyRows(f) :
          /\ rows[h].issued >= used
          /\ RowConsumable(h, now)
    /\ ~ \E h \in FamilyRows(f) : rows[h].issued >= used /\ rows[h].used # 0
    /\ ~Dead(f)

-----------------------------------------------------------------------------
(* Requests. *)

\* Where a request is; the label names the statement that comes next.
Pc == {"idle", "consume", "update", "mint", "commit", "diagnose", "benign",
       "lookup", "revoke", "revoking", "done"}

\* What the caller gets: a Session, ErrInvalidRefreshToken,
\* ErrRefreshTokenReused, ErrRefreshTokenRaced, nil from a revocation, or
\* any other error.
Result == {"session", "invalid", "reused", "raced", "revoked", "error"}

RequestState ==
    [pc      : Pc,
     op      : {"none", "issue", "rotate", "revoke"},
     tok     : Hash \cup {None},       \* the token presented
     now     : Nat,                    \* now() of the open transaction
     new     : Hash \cup {None},       \* the successor being inserted
     expires : Nat,                    \* and its expires_at
     fam     : Family \cup {None},     \* what a revocation is about to kill:
     user    : User \cup {None},       \*   a family or all of a user's tokens
     used    : Nat,                    \* existing.UsedAt, as it was read
     targets : SUBSET Hash,            \* the rows an UPDATE chose
     res     : Result \cup {"none"}]

IdleRequest ==
    [pc |-> "idle", op |-> "none", tok |-> None, now |-> 0, new |-> None,
     expires |-> 0, fam |-> None, user |-> None, used |-> 0, targets |-> {},
     res |-> "none"]

\* A rotation holds the lock of the row it updated until it commits or
\* rolls back.
Locked(h) == \E r \in Request : req[r].tok = h /\ req[r].pc \in {"mint", "commit"}

\* Hashes nobody has drawn yet.  Running out of them is a bound of the model.
Unused == {h \in Hash : h \notin Stored /\ \A r \in Request : req[r].new # h}

Finish(r, result) ==
    req' = [req EXCEPT ![r] =
              [IdleRequest EXCEPT !.pc = "done", !.op = req[r].op,
                                  !.tok = req[r].tok, !.res = result]]

TypeOK ==
    /\ rows \in [Hash -> Row]
    /\ req \in [Request -> RequestState]
    /\ clock \in Nat \ {0}
    /\ gen \in [Hash -> Nat]
    /\ late \subseteq Hash

Init ==
    /\ rows = [h \in Hash |-> EmptyRow]
    /\ req = [r \in Request |-> IdleRequest]
    /\ clock = 1
    /\ gen = [h \in Hash |-> 0]
    /\ late = {}

-----------------------------------------------------------------------------
(* Issue: a new family, and its first token, in one statement of its own. *)

\* The row is stored even when the caller sees an error: the answer was lost,
\* or signing the access token failed after the insert.
Issue(r, u) ==
    /\ req[r].pc = "idle"
    /\ \E h \in Unused, f \in Family, result \in {"session", "error"} :
          /\ FamilyRows(f) = {}
          /\ rows' = [rows EXCEPT ![h] =
                        [EmptyRow EXCEPT !.family = f, !.user = u,
                                         !.issued = clock,
                                         !.expires = clock + TTL]]
          /\ gen' = [gen EXCEPT ![h] = 1]
          /\ req' = [req EXCEPT ![r] =
                       [IdleRequest EXCEPT !.pc = "done", !.op = "issue",
                                           !.tok = h, !.res = result]]
    /\ clock' = clock + 1
    /\ UNCHANGED late

-----------------------------------------------------------------------------
(* Rotate. *)

\* pool.Begin: now() is fixed here for every statement of the transaction.
RotateBegin(r, h) ==
    /\ req[r].pc = "idle"
    /\ h \in Stored \cup {None}
    /\ req' = [req EXCEPT ![r] =
                 [IdleRequest EXCEPT !.pc = "consume", !.op = "rotate",
                                     !.tok = h, !.now = clock]]
    /\ UNCHANGED <<rows, clock, gen, late>>

\* ConsumeRefreshToken begins: without a row in its snapshot the UPDATE
\* returns at once and the transaction is rolled back.
ConsumeSnapshot(r) ==
    /\ req[r].pc = "consume"
    /\ req' = [req EXCEPT ![r].pc =
                 IF Consumable(req[r].tok, req[r].now) THEN "update"
                                                       ELSE "diagnose"]
    /\ UNCHANGED <<rows, clock, gen, late>>

\* Mutant of ConsumeApply: the row is not looked at again after the wait.
ConsumeApplyUnchecked(r) ==
    /\ req[r].pc = "update"
    /\ ~Locked(req[r].tok)
    /\ req' = [req EXCEPT ![r].pc = "mint"]
    /\ UNCHANGED <<rows, clock, gen, late>>

\* ... and ends, once it has the lock of the row: the row's own conditions
\* are evaluated again, the sub-select is not.
ConsumeApply(r) ==
    /\ req[r].pc = "update"
    /\ ~Locked(req[r].tok)
    /\ req' = [req EXCEPT ![r].pc =
                 IF RowConsumable(req[r].tok, req[r].now) THEN "mint"
                                                          ELSE "diagnose"]
    /\ UNCHANGED <<rows, clock, gen, late>>

\* Mutant of Mint: the expiry is never set (the zero time.Time, long before the
\* times of the model).
MintWithoutExpiry(r) ==
    /\ req[r].pc = "mint"
    /\ \E h \in Unused :
          req' = [req EXCEPT ![r].pc = "commit", ![r].new = h,
                             ![r].expires = -1]
    /\ UNCHANGED <<rows, clock, gen, late>>

\* mint: the successor's hash is drawn, and its expiry taken from the clock
\* of the program.
Mint(r) ==
    /\ req[r].pc = "mint"
    /\ \E h \in Unused :
          req' = [req EXCEPT ![r].pc = "commit", ![r].new = h,
                             ![r].expires = clock + TTL]
    /\ UNCHANGED <<rows, clock, gen, late>>

\* mint without a hash left to draw (a bound): NewRefreshToken fails and the
\* transaction is rolled back.
MintFails(r) ==
    /\ req[r].pc = "mint"
    /\ Unused = {}
    /\ Finish(r, "error")
    /\ UNCHANGED <<rows, clock, gen, late>>

\* Mutant of CommitRows: used_at is the time of the statement, not of the
\* transaction.
CommitRowsOwnTime(t, n, now, expires) ==
    [rows EXCEPT ![t].used = expires - TTL,
                 ![n] = [EmptyRow EXCEPT !.family = rows[t].family,
                                         !.user = rows[t].user,
                                         !.issued = now,
                                         !.expires = expires]]

\* Mutant of CommitRows: the spent token is stamped as revoked too.
CommitRowsRevoking(t, n, now, expires) ==
    [rows EXCEPT ![t].used = now, ![t].revoked = now,
                 ![n] = [EmptyRow EXCEPT !.family = rows[t].family,
                                         !.user = rows[t].user,
                                         !.issued = now,
                                         !.expires = expires]]

\* The spent token and its successor appear together, both stamped with the
\* now() of the transaction.
CommitRows(t, n, now, expires) ==
    [rows EXCEPT ![t].used = now,
                 ![n] = [EmptyRow EXCEPT !.family = rows[t].family,
                                         !.user = rows[t].user,
                                         !.issued = now,
                                         !.expires = expires]]

\* The commit may be lost on its way back: stored, but the caller is told of
\* an error.
Commit(r) ==
    LET t == req[r].tok
        n == req[r].new
    IN  /\ req[r].pc = "commit"
        /\ rows' = CommitRows(t, n, req[r].now, req[r].expires)
        /\ gen' = [gen EXCEPT ![n] = gen[t] + 1]
        /\ late' = IF Dead(rows[t].family) THEN late \cup {n} ELSE late
        /\ clock' = clock + 1
        /\ \E result \in {"session", "error"} : Finish(r, result)

-----------------------------------------------------------------------------
(* diagnoseFailedConsume: statements of their own, after the rollback. *)

DiagnoseUnspent(r) ==
    /\ req[r].pc = "diagnose"
    /\ req[r].tok \in Stored => rows[req[r].tok].used = 0
    /\ Finish(r, "invalid")
    /\ UNCHANGED <<rows, clock, gen, late>>

DiagnoseSpent(r) ==
    LET t == req[r].tok
    IN  /\ req[r].pc = "diagnose"
        /\ t \in Stored
        /\ rows[t].used # 0
        /\ req' = [req EXCEPT ![r].pc = "benign", ![r].fam = rows[t].family,
                              ![r].used = rows[t].used]
        /\ UNCHANGED <<rows, clock, gen, late>>

\* Mutant of CheckBenign: reuse is reported and the family left alone.
CheckBenignOnly(r) ==
    /\ req[r].pc = "benign"
    /\ Finish(r, IF IsBenign(req[r].fam, req[r].used, clock) THEN "raced" ELSE "reused")
    /\ UNCHANGED <<rows, clock, gen, late>>

CheckBenign(r) ==
    /\ req[r].pc = "benign"
    /\ IF IsBenign(req[r].fam, req[r].used, clock)
         THEN Finish(r, "raced")
         ELSE req' = [req EXCEPT ![r].pc = "revoke"]
    /\ UNCHANGED <<rows, clock, gen, late>>

-----------------------------------------------------------------------------
(* Revocation. *)

RevokeByTokenStart(r, h) ==
    /\ req[r].pc = "idle"
    /\ h \in Stored \cup {None}
    /\ req' = [req EXCEPT ![r] =
                 [IdleRequest EXCEPT !.pc = "lookup", !.op = "revoke", !.tok = h]]
    /\ UNCHANGED <<rows, clock, gen, late>>

\* GetRefreshTokenByHash in RevokeByToken: an unknown token is not an error.
RevokeByTokenLookup(r) ==
    /\ req[r].pc = "lookup"
    /\ IF req[r].tok \in Stored
         THEN req' = [req EXCEPT ![r].pc = "revoke",
                                 ![r].fam = rows[req[r].tok].family]
         ELSE Finish(r, "revoked")
    /\ UNCHANGED <<rows, clock, gen, late>>

RevokeFamilyStart(r, f) ==
    /\ req[r].pc = "idle"
    /\ FamilyRows(f) # {}
    /\ req' = [req EXCEPT ![r] =
                 [IdleRequest EXCEPT !.pc = "revoke", !.op = "revoke", !.fam = f]]
    /\ UNCHANGED <<rows, clock, gen, late>>

RevokeAllForUserStart(r, u) ==
    /\ req[r].pc = "idle"
    /\ req' = [req EXCEPT ![r] =
                 [IdleRequest EXCEPT !.pc = "revoke", !.op = "revoke", !.user = u]]
    /\ UNCHANGED <<rows, clock, gen, late>>

\* The rows RevokeRefreshTokenFamily or RevokeRefreshTokensForUser chooses:
\* a row committed after this snapshot escapes it.
Revocable(r) ==
    {h \in Stored : /\ rows[h].revoked = 0
                    /\ rows[h].family = req[r].fam \/ rows[h].user = req[r].user}

RevokeSnapshot(r) ==
    /\ req[r].pc = "revoke"
    /\ req' = [req EXCEPT ![r].pc = "revoking", ![r].now = clock,
                          ![r].targets = Revocable(r)]
    /\ UNCHANGED <<rows, clock, gen, late>>

\* Mutant of RevokedRows: every chosen row is stamped again.
RevokedRowsAgain(targets, now) ==
    [h \in Hash |-> IF h \in targets THEN [rows[h] EXCEPT !.revoked = now]
                                    ELSE rows[h]]

\* The UPDATE waits for rotations that hold one of its rows, and leaves alone
\* what another revocation has reached in the meantime.
RevokedRows(targets, now) ==
    [h \in Hash |-> IF h \in targets /\ rows[h].revoked = 0
                      THEN [rows[h] EXCEPT !.revoked = now]
                      ELSE rows[h]]

\* Mutant of RevokeApply: a revocation waits for every rotation of its rows
\* that has begun, and not only for those that hold a lock.
RevokeApplyAfterAll(r) ==
    /\ req[r].pc = "revoking"
    /\ \A h \in req[r].targets, s \in Request : req[s].tok = h => s = r
    /\ rows' = RevokedRows(req[r].targets, req[r].now)
    /\ Finish(r, IF req[r].op = "rotate" THEN "reused" ELSE "revoked")
    /\ UNCHANGED <<clock, gen, late>>

\* The rows are taken together, when all of them are free.  The answer may be
\* lost after the statement was committed.
RevokeApply(r) ==
    /\ req[r].pc = "revoking"
    /\ \A h \in req[r].targets : ~Locked(h)
    /\ rows' = RevokedRows(req[r].targets, req[r].now)
    /\ \E result \in {IF req[r].op = "rotate" THEN "reused" ELSE "revoked", "error"} :
          Finish(r, result)
    /\ UNCHANGED <<clock, gen, late>>

-----------------------------------------------------------------------------
(* What happens to any request, and to time. *)

\* A statement fails, or the request's context is cancelled: nothing was
\* committed and the caller gets an error.
StepFails(r) ==
    /\ req[r].pc \notin {"idle", "done"}
    /\ Finish(r, "error")
    /\ UNCHANGED <<rows, clock, gen, late>>

Return(r) ==
    /\ req[r].pc = "done"
    /\ req' = [req EXCEPT ![r] = IdleRequest]
    /\ UNCHANGED <<rows, clock, gen, late>>

Tick ==
    /\ clock < MaxClock
    /\ clock' = clock + 1
    /\ UNCHANGED <<rows, req, gen, late>>

Start(r) ==
    \/ \E u \in User : Issue(r, u)
    \/ \E h \in Hash \cup {None} : RotateBegin(r, h)
    \/ \E h \in Hash \cup {None} : RevokeByTokenStart(r, h)
    \/ \E f \in Family : RevokeFamilyStart(r, f)
    \/ \E u \in User : RevokeAllForUserStart(r, u)

\* What a request does next when nothing fails and it need not wait.
Statement(r) ==
    \/ ConsumeSnapshot(r)
    \/ Mint(r)
    \/ MintFails(r)
    \/ Commit(r)
    \/ DiagnoseUnspent(r)
    \/ DiagnoseSpent(r)
    \/ CheckBenign(r)
    \/ RevokeByTokenLookup(r)
    \/ RevokeSnapshot(r)
    \/ Return(r)

Next ==
    \/ Tick
    \/ \E r \in Request :
          \/ Start(r)
          \/ Statement(r)
          \/ ConsumeApply(r)
          \/ RevokeApply(r)
          \/ StepFails(r)

Spec == Init /\ [][Next]_vars

\* The database answers every statement, and row locks are queued: whoever
\* waits for one that is released again and again gets it.
Fairness ==
    \A r \in Request : /\ WF_vars(Statement(r))
                       /\ SF_vars(ConsumeApply(r))
                       /\ SF_vars(RevokeApply(r))

FairSpec == Spec /\ Fairness

-----------------------------------------------------------------------------
(* Correctness. *)

\* Two requests with one token cannot both win (sessions.go, Rotate): the
\* tokens of a family form one line, only its last token is unspent, and every
\* spent token has one successor, issued at the instant it was spent
\* (refresh_tokens.sql: "the successor's issued_at equals the spent token's
\* used_at exactly").
ExactlyOneSuccessor ==
    \A h \in Stored :
       /\ \A g \in FamilyRows(rows[h].family) :
             /\ gen[g] = gen[h] => g = h
             /\ gen[g] > gen[h] => rows[h].used # 0
       /\ rows[h].used # 0 =>
             \E g \in FamilyRows(rows[h].family) :
                gen[g] = gen[h] + 1 /\ rows[g].issued = rows[h].used

\* The timestamp test of IsBenignRefreshRace is what its comment claims: in
\* the family of a spent token, issued_at >= used_at holds of exactly the
\* tokens descended from that rotation.
DescendedByTimestamp ==
    \A h \in Stored : rows[h].used # 0 =>
       \A g \in FamilyRows(rows[h].family) :
          rows[g].issued >= rows[h].used <=> gen[g] > gen[h]

\* A spent token counts as an honest race only while the token that replaced
\* it is the live end of its family: once the chain has moved on, or the
\* family is revoked, presenting it again is a replay.
BenignOnlyForTipsParent ==
    \A h \in Stored : rows[h].used # 0 =>
       LET f == rows[h].family
       IN  IsBenign(f, rows[h].used, clock) <=>
             /\ clock - rows[h].used < Grace
             /\ ~Dead(f)
             /\ \E g \in FamilyRows(f) :
                   gen[g] = gen[h] + 1 /\ RowConsumable(g, clock)

\* A revoked family stays dead (spec 9.2).  Of the rotations that race with a
\* revocation at most one still commits a token into the family, and that
\* straggler is never exchanged for another.
RevokedFamilyStaysDead ==
    /\ \A h \in late : rows[h].used = 0
    /\ \A g, h \in late : rows[g].family = rows[h].family => g = h

\* "The family is revoked by the time this is returned" (ErrRefreshTokenReused),
\* whatever else touched the family while the answer was being worked out.
ReusedMeansRevoked ==
    \A r \in Request :
       req[r].res = "reused" => Dead(rows[req[r].tok].family)

\* No step takes a token's history back: a row stays in its family, and
\* used_at and revoked_at keep the time of the first use and of the first
\* revocation, however many statements waited for the row.
TimestampsStick ==
    [][\A h \in Stored :
          /\ rows'[h].family = rows[h].family
          /\ rows'[h].issued = rows[h].issued
          /\ rows[h].used # 0 => rows'[h].used = rows[h].used
          /\ rows[h].revoked # 0 => rows'[h].revoked = rows[h].revoked]_vars

\* Every request is answered: no set of rotations and revocations waits for
\* one another's row locks for ever.
EveryRequestAnswered ==
    \A r \in Request : req[r].pc # "idle" ~> req[r].pc = "idle"

\* What the table shows of the families, in the terms of SessionFamilies.
Families == INSTANCE SessionFamilies WITH
    unspent   <- [f \in Family |-> {h \in FamilyRows(f) : rows[h].used = 0}],
    spent     <- [f \in Family |-> {h \in FamilyRows(f) : rows[h].used # 0}],
    dead      <- [f \in Family |-> Dead(f)],
    straggled <- [f \in Family |-> \E h \in late : rows[h].family = f]

\* Statement by statement, sessions.go does what SessionFamilies promises: every
\* interleaving of the statements of Issue, Rotate, their diagnosis and the
\* revocations begins, extends or ends lines of tokens, and does nothing else.
ImplementsFamilies == Families!Spec
=============================================================================
