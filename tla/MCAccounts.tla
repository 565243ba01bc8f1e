----------------------------- MODULE MCAccounts -----------------------------
(* Accounts on small sets.  An email is an ordinary address or a relay one. *)
EXTENDS Accounts, TLC

Symmetry == Permutations(User) \cup Permutations(Request) \cup
            Permutations(Provider) \cup Permutations(Profile)

\* Providers that vouch for every address: all identities meet in one account,
\* so that few user ids leave room for many identities.
Vouched == \A r \in Request : tx'[r].id # None => tx'[r].id.verified

VouchedSpec == Init /\ [][Next /\ Vouched]_vars /\ Fairness
=============================================================================
