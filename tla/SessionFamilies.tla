--------------------------- MODULE SessionFamilies ---------------------------
(***************************************************************************)
(* What sessions promise to whoever holds a refresh token, without saying  *)
(* how: no rows, statements, locks, timestamps or calls.                   *)
(*                                                                         *)
(* A family is a line of tokens with one unspent token at its end.  It     *)
(* grows by exchanging that token for a new one, it can be revoked once,   *)
(* and a revoked family is at rest, but for one exchange that was already  *)
(* under way.  RefreshTokens implements this statement by statement, and   *)
(* the server that Browser talks to implements it call by call.            *)
(*                                                                         *)
(* Families do not depend on each other, so a step says what each of them  *)
(* may do: a sign-in ends one and begins another, and revoking a user's    *)
(* tokens ends several.                                                    *)
(***************************************************************************)

CONSTANT Family

VARIABLES
    unspent,    \* the tokens of a family that can still be exchanged
    spent,      \* and those that have been
    dead,       \* whether the family is revoked
    straggled   \* whether it has been extended since

vars == <<unspent, spent, dead, straggled>>

-----------------------------------------------------------------------------
\* A token that belongs to no family yet.
Fresh(t) == \A f \in Family : t \notin unspent[f] \cup spent[f]

\* The program starts over a table in which nothing, or a first token, is stored.
Init ==
    \A f \in Family :
       /\ \A s, t \in unspent[f] : s = t
       /\ spent[f] = {}
       /\ ~dead[f]
       /\ ~straggled[f]

Stay(f) ==
    /\ unspent'[f] = unspent[f]
    /\ spent'[f] = spent[f]
    /\ dead'[f] = dead[f]
    /\ straggled'[f] = straggled[f]

\* A sign-in: the family begins with one token.
Issue(f) ==
    /\ unspent[f] = {} /\ spent[f] = {} /\ ~dead[f]
    /\ \E t \in unspent'[f] : Fresh(t) /\ unspent'[f] = {t}
    /\ spent'[f] = {}
    /\ dead'[f] = dead[f]
    /\ straggled'[f] = straggled[f]

\* The end of the line is exchanged for a new one.
Extend(f) ==
    /\ \E t \in unspent[f], n \in unspent'[f] :
          /\ unspent[f] = {t} /\ unspent'[f] = {n}
          /\ Fresh(n)
          /\ spent'[f] = spent[f] \cup {t}
    /\ dead'[f] = dead[f]

Rotate(f) == ~dead[f] /\ Extend(f) /\ straggled'[f] = straggled[f]

\* An exchange that was under way when the family was revoked.  Its token is
\* the last: nothing follows it.
Straggle(f) == dead[f] /\ ~straggled[f] /\ Extend(f) /\ straggled'[f]

Revoke(f) ==
    /\ unspent[f] # {}
    /\ ~dead[f] /\ dead'[f]
    /\ unspent'[f] = unspent[f]
    /\ spent'[f] = spent[f]
    /\ straggled'[f] = straggled[f]

Next ==
    \A f \in Family :
       Stay(f) \/ Issue(f) \/ Rotate(f) \/ Straggle(f) \/ Revoke(f)

Spec == Init /\ [][Next]_vars
=============================================================================
