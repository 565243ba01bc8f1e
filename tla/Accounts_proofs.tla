--------------------------- MODULE Accounts_proofs ---------------------------
(***************************************************************************)
(* Proofs about Accounts, for every set of providers, subjects, addresses, *)
(* profiles, users and concurrent sign-ins.                                *)
(***************************************************************************)
EXTENDS Accounts, TLAPS

-----------------------------------------------------------------------------
(* The inductive invariant. *)

\* Every identity belongs to an account that was created or joined with what
\* the provider claimed: a vouched-for address is the verified address of the
\* account, and an identity without one has an unverified account to itself.
ClaimsMatch ==
    \A k \in Known :
       LET u == identities[k]
       IN  /\ claim[k] \in Identity
           /\ u \in Accounts
           /\ users[u].verified <=> verified(claim[k])
           /\ verified(claim[k]) => users[u].email = claim[k].email
           /\ ~verified(claim[k]) => \A j \in Known : identities[j] = u => j = k

\* What a transaction may rely on when it commits, though every statement of
\* another may have been committed since it looked.
JoinsVerified(t) == verified(t.id) /\ t.user \in Candidates(t.id.email)

Created(t) ==
    "user" \in t.wrote =>
       /\ t.user \in User \ Accounts
       /\ verified(t.id) => Candidates(t.id.email) = {}

Added(t) == "identity" \in t.wrote => identities[t.id.key] = None

\* The account of a transaction that is past its lookups: its own, one it
\* joins, or the one its identity has.
Settled(t) ==
    \/ t.wrote \cap {"user", "identity"} = {"user", "identity"} /\ t.pc = "commit"
    \/ t.wrote \cap {"user", "identity"} = {"identity"} /\ JoinsVerified(t)
    \/ /\ t.wrote \cap {"user", "identity"} = {}
       /\ t.user \in User /\ identities[t.id.key] = t.user

TransactionInv(t) ==
    /\ t.pc # "idle" => t.id \in Identity
    /\ t.pc \in {"idle", "lookup", "target", "createUser", "linkIdentity", "done"} =>
          t.wrote = {}
    /\ t.pc # "done" => t.res = None
    /\ t.pc = "createIdentity" => t.wrote = {"user"}
    /\ t.pc = "linkIdentity" => JoinsVerified(t)
    /\ t.pc \in {"profile", "commit"} => Settled(t)
    /\ t.res # None => identities[t.id.key] = t.res
    /\ Created(t)
    /\ Added(t)

\* Two open transactions never hold the same entry of a unique index.
Apart(t, s) ==
    /\ "user" \in t.wrote /\ "user" \in s.wrote =>
          /\ t.user # s.user
          /\ verified(t.id) /\ verified(s.id) => t.id.email # s.id.email
    /\ "identity" \in t.wrote /\ "identity" \in s.wrote => t.id.key # s.id.key

Tables == ClaimsMatch /\ OneVerifiedAccountPerEmail /\ NoOrphanAccount

IInv ==
    /\ TypeOK
    /\ Tables
    /\ \A r \in Request : TransactionInv(tx[r])
    /\ \A r, s \in Request : r # s => Apart(tx[r], tx[s])

-----------------------------------------------------------------------------
(* Steps that leave the tables alone. *)

\* Only transaction r moves, to t.
Quiet(r, t) ==
    /\ UNCHANGED <<users, identities, claim>>
    /\ tx' = [tx EXCEPT ![r] = t]

\* Such a step keeps IInv if t knows what it needs and collides with nobody.
LEMMA QuietStep ==
    ASSUME IInv, NEW r \in Request, NEW t \in Transaction, Quiet(r, t),
           TransactionInv(t), \A s \in Request \ {r} : Apart(t, tx[s])
    PROVE  IInv'
  <1>1. /\ Accounts' = Accounts /\ Known' = Known
        /\ \A e : Candidates(e)' = Candidates(e)
    BY DEF Quiet, Accounts, Known, Candidates
  <1>2. tx'[r] = t /\ \A s \in Request \ {r} : tx'[s] = tx[s]
    BY DEF IInv, TypeOK, Quiet
  <1>3. TypeOK'
    BY DEF IInv, TypeOK, Quiet
  <1>4. Tables'
    <2>1. ClaimsMatch'
      BY <1>1 DEF IInv, Tables, ClaimsMatch, Quiet
    <2>2. OneVerifiedAccountPerEmail' /\ NoOrphanAccount'
      BY <1>1 DEF IInv, Tables, OneVerifiedAccountPerEmail, NoOrphanAccount, Quiet
    <2> QED
      BY <2>1, <2>2 DEF Tables
  <1>5. ASSUME NEW s \in Request
        PROVE  TransactionInv(tx[s])'
    <2>1. TransactionInv(tx'[s])
      BY <1>2 DEF IInv
    <2> QED
      BY <1>1, <2>1 DEF TransactionInv, JoinsVerified, Created, Added, Settled, Quiet
  <1>6. ASSUME NEW q \in Request, NEW s \in Request, q # s
        PROVE  Apart(tx[q], tx[s])'
    <2>1. Apart(tx'[q], tx'[s])
      <3>1. CASE q = r
        BY <1>2, <1>6, <3>1
      <3>2. CASE s = r
        <4>1. Apart(t, tx[q])
          BY <1>6, <3>2
        <4> QED
          BY <1>2, <1>6, <3>2, <4>1 DEF Apart
      <3>3. CASE q # r /\ s # r
        BY <1>2, <1>6, <3>3 DEF IInv
      <3> QED
        BY <3>1, <3>2, <3>3
    <2> QED
      BY <2>1 DEF Apart
  <1> QED
    BY <1>3, <1>4, <1>5, <1>6 DEF IInv

\* A transaction that has written nothing collides with nobody.
LEMMA NothingWritten ==
    ASSUME NEW t, t.wrote = {}
    PROVE  \A s : Apart(t, s)
  BY DEF Apart

\* A transaction that ends without a result leaves nothing behind.
LEMMA RollbackStep ==
    ASSUME IInv, NEW r \in Request, tx[r].pc # "idle", Finish(r, None),
           UNCHANGED <<users, identities, claim>>
    PROVE  IInv'
  <1> DEFINE t == [IdleTransaction EXCEPT !.pc = "done", !.id = tx[r].id, !.res = None]
  <1>1. tx[r].id \in Identity
    BY DEF IInv, TransactionInv
  <1>2. t \in Transaction
    BY <1>1 DEF IdleTransaction, Transaction, Pc
  <1>3. TransactionInv(t)
    BY <1>1 DEF TransactionInv, Created, Added, IdleTransaction
  <1>4. Quiet(r, t)
    BY DEF Quiet, Finish
  <1>5. t.wrote = {}
    BY DEF IdleTransaction
  <1> HIDE DEF t
  <1> QED
    BY <1>2, <1>3, <1>4, <1>5, NothingWritten, QuietStep

\* Begin, Lookup, LinkTarget and Return: nothing has been written.
LEMMA ReadingStep ==
    ASSUME IInv, NEW r \in Request,
           \/ \E id \in Identity : Begin(r, id)
           \/ Lookup(r) \/ LinkTarget(r) \/ Return(r)
    PROVE  IInv'
  <1>0. /\ tx[r] \in Transaction /\ TransactionInv(tx[r])
        /\ users \in [User -> UserRow] /\ identities \in [Key -> User \cup {None}]
    BY DEF IInv, TypeOK
  <1>1. ASSUME NEW id \in Identity, Begin(r, id)
        PROVE  IInv'
    <2> DEFINE t == [IdleTransaction EXCEPT !.pc = "lookup", !.id = id]
    <2>1. t \in Transaction /\ t.wrote = {} /\ Quiet(r, t)
      BY <1>1 DEF IdleTransaction, Transaction, Pc, Quiet, Begin
    <2>2. TransactionInv(t)
      BY DEF TransactionInv, Created, Added, IdleTransaction
    <2> HIDE DEF t
    <2> QED
      BY <2>1, <2>2, NothingWritten, QuietStep
  <1>2. CASE Lookup(r)
    <2> DEFINE u == identities[tx[r].id.key]
    <2>1. tx[r].pc = "lookup" /\ tx[r].wrote = {} /\ tx[r].id \in Identity /\ tx[r].res = None
      BY <1>0, <1>2 DEF Lookup, TransactionInv
    <2>2. tx[r].id.key \in Key
      BY <2>1 DEF Identity
    <2>3. CASE u # None
      <3> DEFINE t == [tx[r] EXCEPT !.pc = "profile", !.user = u, !.seen = users[u].profile]
      <3>1. u \in User
        BY <1>0, <2>2, <2>3
      <3>2. users[u].profile \in Profile \cup {None}
        BY <1>0, <3>1 DEF UserRow
      <3>3. t \in Transaction
        BY <1>0, <3>1, <3>2 DEF Transaction, Pc
      <3>4. /\ t.pc = "profile" /\ t.wrote = {} /\ t.id = tx[r].id /\ t.user = u
            /\ t.res = None
        BY <1>0, <2>1 DEF Transaction
      <3>5. Quiet(r, t)
        BY <1>2, <2>3 DEF Lookup, Quiet, IInv, TypeOK
      <3>6. TransactionInv(t)
        BY <2>1, <3>1, <3>4 DEF TransactionInv, Created, Added, Settled
      <3> HIDE DEF t
      <3> QED
        BY <3>3, <3>4, <3>5, <3>6, NothingWritten, QuietStep
    <2>4. CASE u = None
      <3> DEFINE t == [tx[r] EXCEPT !.pc = "target"]
      <3>1. t \in Transaction
        BY <1>0 DEF Transaction, Pc
      <3>2. t.pc = "target" /\ t.wrote = {} /\ t.id = tx[r].id /\ t.res = None
        BY <1>0, <2>1 DEF Transaction
      <3>3. Quiet(r, t)
        BY <1>2, <2>4 DEF Lookup, Quiet, IInv, TypeOK
      <3>4. TransactionInv(t)
        BY <2>1, <3>2 DEF TransactionInv, Created, Added
      <3> HIDE DEF t
      <3> QED
        BY <3>1, <3>2, <3>3, <3>4, NothingWritten, QuietStep
    <2> QED
      BY <2>3, <2>4
  <1>3. CASE LinkTarget(r)
    <2>1. tx[r].pc = "target" /\ tx[r].wrote = {} /\ tx[r].id \in Identity /\ tx[r].res = None
      BY <1>0, <1>3 DEF LinkTarget, TransactionInv
    <2>2. ASSUME verified(tx[r].id), NEW u \in Candidates(tx[r].id.email),
                 tx' = [tx EXCEPT ![r].pc = "linkIdentity", ![r].user = u,
                                  ![r].seen = users[u].profile]
          PROVE  IInv'
      <3> DEFINE t == [tx[r] EXCEPT !.pc = "linkIdentity", !.user = u,
                                    !.seen = users[u].profile]
      <3>1. u \in User
        BY DEF Candidates, Accounts
      <3>2. users[u].profile \in Profile \cup {None}
        BY <1>0, <3>1 DEF UserRow
      <3>3. t \in Transaction
        BY <1>0, <3>1, <3>2 DEF Transaction, Pc
      <3>4. /\ t.pc = "linkIdentity" /\ t.wrote = {} /\ t.id = tx[r].id /\ t.user = u
            /\ t.res = None
        BY <1>0, <2>1 DEF Transaction
      <3>5. Quiet(r, t)
        BY <1>3, <2>2 DEF LinkTarget, Quiet, IInv, TypeOK
      <3>6. TransactionInv(t)
        BY <2>1, <2>2, <3>4 DEF TransactionInv, Created, Added, JoinsVerified
      <3> HIDE DEF t
      <3> QED
        BY <3>3, <3>4, <3>5, <3>6, NothingWritten, QuietStep
    <2>3. ASSUME tx' = [tx EXCEPT ![r].pc = "createUser"]
          PROVE  IInv'
      <3> DEFINE t == [tx[r] EXCEPT !.pc = "createUser"]
      <3>1. t \in Transaction
        BY <1>0 DEF Transaction, Pc
      <3>2. t.pc = "createUser" /\ t.wrote = {} /\ t.id = tx[r].id /\ t.res = None
        BY <1>0, <2>1 DEF Transaction
      <3>3. Quiet(r, t)
        BY <1>3, <2>3 DEF LinkTarget, Quiet, IInv, TypeOK
      <3>4. TransactionInv(t)
        BY <2>1, <3>2 DEF TransactionInv, Created, Added
      <3> HIDE DEF t
      <3> QED
        BY <3>1, <3>2, <3>3, <3>4, NothingWritten, QuietStep
    <2> QED
      BY <1>3, <2>2, <2>3 DEF LinkTarget, verified
  <1>4. CASE Return(r)
    <2>1. IdleTransaction \in Transaction /\ IdleTransaction.wrote = {}
      BY DEF IdleTransaction, Transaction, Pc
    <2>2. TransactionInv(IdleTransaction)
      BY DEF TransactionInv, Created, Added, IdleTransaction
    <2>3. Quiet(r, IdleTransaction)
      BY <1>4 DEF Return, Quiet
    <2> QED
      BY <2>1, <2>2, <2>3, NothingWritten, QuietStep
  <1> QED
    BY <1>1, <1>2, <1>3, <1>4

-----------------------------------------------------------------------------
(* Writes that are not committed yet. *)

\* The INSERT into users: the new row is nobody else's, and its address is
\* neither stored nor about to be.
LEMMA CreateUserStep ==
    ASSUME IInv, NEW r \in Request, CreateUser(r)
    PROVE  IInv'
  <1> DEFINE id == tx[r].id
  <1>0. /\ tx[r] \in Transaction /\ TransactionInv(tx[r])
        /\ tx[r].pc = "createUser" /\ id \in Identity /\ tx[r].res = None
    BY DEF IInv, TypeOK, CreateUser, TransactionInv
  <1>1. CASE Finish(r, None)
    BY <1>0, <1>1, RollbackStep DEF CreateUser
  <1>2. ASSUME ~(verified(id) /\ Candidates(id.email) # {}),
               NEW u \in User \ Accounts,
               \A s \in Request : tx[s].user # u,
               tx' = [tx EXCEPT ![r].pc = "createIdentity", ![r].user = u,
                                ![r].wrote = {"user"}]
        PROVE  IInv'
    <2> DEFINE t == [tx[r] EXCEPT !.pc = "createIdentity", !.user = u, !.wrote = {"user"}]
    <2>1. t \in Transaction
      BY <1>0 DEF Transaction, Pc, Write
    <2>2. /\ t.pc = "createIdentity" /\ t.wrote = {"user"} /\ t.id = id /\ t.user = u
          /\ t.res = None
      BY <1>0 DEF Transaction
    <2>3. Quiet(r, t)
      BY <1>2 DEF CreateUser, Quiet, IInv, TypeOK
    <2>4. TransactionInv(t)
      BY <1>0, <1>2, <2>2 DEF TransactionInv, Created, Added
    <2>5. ASSUME NEW s \in Request \ {r}
          PROVE  Apart(t, tx[s])
      <3>1. "user" \in tx[s].wrote => t.user # tx[s].user
        BY <1>2, <2>2
      <3>2. "user" \in tx[s].wrote /\ verified(t.id) /\ verified(tx[s].id) =>
               t.id.email # tx[s].id.email
        BY <2>2 DEF CreateUser, EmailPending, verified
      <3>3. "identity" \notin t.wrote
        BY <2>2
      <3> QED
        BY <3>1, <3>2, <3>3 DEF Apart
    <2> HIDE DEF t
    <2> QED
      BY <2>1, <2>3, <2>4, <2>5, QuietStep
  <1> QED
    BY <1>1, <1>2 DEF CreateUser

\* The INSERT into identities: the key is neither stored nor about to be.
LEMMA CreateIdentityStep ==
    ASSUME IInv, NEW r \in Request, CreateIdentity(r)
    PROVE  IInv'
  <1>0. /\ tx[r] \in Transaction /\ TransactionInv(tx[r])
        /\ tx[r].pc \in {"createIdentity", "linkIdentity"}
        /\ tx[r].id \in Identity /\ tx[r].res = None
    BY DEF IInv, TypeOK, CreateIdentity, TransactionInv
  <1>1. CASE identities[tx[r].id.key] # None
    BY <1>0, <1>1, RollbackStep DEF CreateIdentity
  <1>2. CASE identities[tx[r].id.key] = None
    <2> DEFINE next == IF tx[r].pc = "linkIdentity" THEN "profile" ELSE "commit"
               t == [tx[r] EXCEPT !.pc = next, !.wrote = tx[r].wrote \cup {"identity"}]
    <2>1. t \in Transaction
      <3>1. next \in Pc /\ tx[r].wrote \cup {"identity"} \in SUBSET Write
        BY <1>0 DEF Transaction, Pc, Write
      <3> HIDE DEF next
      <3> QED
        BY <1>0, <3>1 DEF Transaction
    <2>2. /\ t.pc = next /\ t.wrote = tx[r].wrote \cup {"identity"} /\ t.id = tx[r].id
          /\ t.user = tx[r].user /\ t.res = None
      BY <1>0 DEF Transaction
    <2>3. Quiet(r, t)
      BY <1>0, <1>2 DEF CreateIdentity, Quiet, IInv, TypeOK, Transaction
    <2>4. TransactionInv(t)
      <3>1. Created(t) /\ Added(t)
        BY <1>0, <1>2, <2>2 DEF TransactionInv, Created, Added
      <3>2. Settled(t)
        <4>1. CASE tx[r].pc = "linkIdentity"
          BY <1>0, <2>2, <4>1 DEF TransactionInv, Settled, JoinsVerified
        <4>2. CASE tx[r].pc = "createIdentity"
          BY <1>0, <2>2, <4>2 DEF TransactionInv, Settled
        <4> QED
          BY <1>0, <4>1, <4>2
      <3>3. t.pc \in {"profile", "commit"}
        BY <2>2
      <3> HIDE DEF t
      <3> QED
        BY <1>0, <2>2, <3>1, <3>2, <3>3 DEF TransactionInv
    <2>5. ASSUME NEW s \in Request \ {r}
          PROVE  Apart(t, tx[s])
      <3>1. Apart(tx[r], tx[s])
        BY DEF IInv
      <3>2. "identity" \in tx[s].wrote => tx[s].id.key # tx[r].id.key
        BY DEF CreateIdentity, KeyPending
      <3> HIDE DEF t
      <3> QED
        BY <2>2, <3>1, <3>2 DEF Apart
    <2> HIDE DEF t
    <2> QED
      BY <2>1, <2>3, <2>4, <2>5, QuietStep
  <1> QED
    BY <1>1, <1>2

\* refreshProfile: neither index is touched.
LEMMA RefreshProfileStep ==
    ASSUME IInv, NEW r \in Request, RefreshProfile(r)
    PROVE  IInv'
  <1>0. /\ tx[r] \in Transaction /\ TransactionInv(tx[r])
        /\ tx[r].pc = "profile" /\ tx[r].id \in Identity /\ tx[r].res = None
    BY DEF IInv, TypeOK, RefreshProfile, TransactionInv
  <1>1. PICK w \in {{}, {"profile"}} :
           tx' = [tx EXCEPT ![r] = [tx[r] EXCEPT !.pc = "commit",
                                                 !.wrote = tx[r].wrote \cup w]]
    <2>1. CASE tx[r].seen = tx[r].id.profile
      <3>1. tx' = [tx EXCEPT ![r] = [tx[r] EXCEPT !.pc = "commit"]]
        BY <2>1 DEF RefreshProfile, IInv, TypeOK
      <3>2. [tx[r] EXCEPT !.pc = "commit"] =
               [tx[r] EXCEPT !.pc = "commit", !.wrote = tx[r].wrote \cup {}]
        BY <1>0 DEF Transaction
      <3> QED
        BY <3>1, <3>2
    <2>2. CASE tx[r].seen # tx[r].id.profile
      <3>1. tx' = [tx EXCEPT ![r] = [tx[r] EXCEPT !.pc = "commit",
                                        !.wrote = tx[r].wrote \cup {"profile"}]]
        BY <1>0, <2>2 DEF RefreshProfile, IInv, TypeOK, Transaction
      <3> QED
        BY <3>1
    <2> QED
      BY <2>1, <2>2
  <1> DEFINE t == [tx[r] EXCEPT !.pc = "commit", !.wrote = tx[r].wrote \cup w]
  <1>2. t \in Transaction
    BY <1>0 DEF Transaction, Pc, Write
  <1>3. /\ t.pc = "commit" /\ t.wrote = tx[r].wrote \cup w /\ t.id = tx[r].id
        /\ t.user = tx[r].user /\ t.res = None
    BY <1>0 DEF Transaction
  <1>4. Quiet(r, t)
    BY <1>1 DEF RefreshProfile, Quiet
  <1>5. /\ "user" \in t.wrote <=> "user" \in tx[r].wrote
        /\ "identity" \in t.wrote <=> "identity" \in tx[r].wrote
        /\ t.wrote \cap {"user", "identity"} = tx[r].wrote \cap {"user", "identity"}
    BY <1>3
  <1> HIDE DEF t
  <1>6. TransactionInv(t)
    <2>1. Created(t) /\ Added(t)
      BY <1>0, <1>3, <1>5 DEF TransactionInv, Created, Added
    <2>2. Settled(t)
      BY <1>0, <1>3, <1>5 DEF TransactionInv, Settled, JoinsVerified
    <2> QED
      BY <1>0, <1>3, <2>1, <2>2 DEF TransactionInv
  <1>7. ASSUME NEW s \in Request \ {r}
        PROVE  Apart(t, tx[s])
    <2>1. Apart(tx[r], tx[s])
      BY DEF IInv
    <2> QED
      BY <1>3, <1>5, <2>1 DEF Apart
  <1> QED
    BY <1>2, <1>4, <1>6, <1>7, QuietStep

-----------------------------------------------------------------------------
(* Commit. *)

\* What a commit makes of the rows of users: a new row where there was none,
\* with what the provider said, or an account's new profile.
LEMMA CommittedRows ==
    ASSUME IInv, NEW r \in Request, tx[r].pc = "commit", users' = CommittedUsers(r)
    PROVE  /\ users' \in [User -> UserRow]
           /\ tx[r].user \in User
           /\ \A u \in Accounts : /\ users'[u].email = users[u].email
                                  /\ users'[u].verified = users[u].verified
           /\ "user" \notin tx[r].wrote => Accounts' = Accounts
           /\ "user" \in tx[r].wrote =>
                 /\ Accounts' = Accounts \cup {tx[r].user}
                 /\ tx[r].user \notin Accounts
                 /\ users'[tx[r].user].email = tx[r].id.email
                 /\ users'[tx[r].user].verified = verified(tx[r].id)
  <1> DEFINE id == tx[r].id
             u == tx[r].user
  <1>1. /\ tx[r] \in Transaction /\ TransactionInv(tx[r])
        /\ users \in [User -> UserRow]
    BY DEF IInv, TypeOK
  <1>2. /\ id \in Identity /\ id.email \in Email /\ id.profile \in Profile
        /\ id.email # None /\ verified(id) \in BOOLEAN
    BY <1>1, AccountsAssumption DEF TransactionInv, Identity, verified
  <1>3. u \in User
    BY <1>1 DEF TransactionInv, Settled, Created, JoinsVerified, Candidates, Accounts
  <1>4. CASE "user" \in tx[r].wrote
    <2> DEFINE row == [email |-> id.email, verified |-> verified(id), profile |-> id.profile]
    <2>1. users' = [users EXCEPT ![u] = row]
      BY <1>4 DEF CommittedUsers
    <2>2. row \in UserRow /\ row.email = id.email /\ row.verified = verified(id)
      BY <1>2 DEF UserRow
    <2>3. u \notin Accounts
      BY <1>1, <1>4 DEF TransactionInv, Created
    <2> HIDE DEF row
    <2>4. users' \in [User -> UserRow] /\ users'[u] = row
          /\ \A v \in User \ {u} : users'[v] = users[v]
      BY <1>1, <1>3, <2>1, <2>2
    <2>5. Accounts' = Accounts \cup {u}
      BY <1>2, <1>3, <2>2, <2>4 DEF Accounts
    <2> QED
      BY <1>3, <1>4, <2>2, <2>3, <2>4, <2>5 DEF Accounts
  <1>5. CASE "user" \notin tx[r].wrote
    <2>1. /\ users' \in [User -> UserRow]
          /\ \A v \in User : /\ users'[v].email = users[v].email
                             /\ users'[v].verified = users[v].verified
      <3>1. CASE "profile" \in tx[r].wrote
        <4> DEFINE row == [users[u] EXCEPT !.profile = id.profile]
        <4>1. users' = [users EXCEPT ![u] = row]
          BY <1>1, <1>5, <3>1 DEF CommittedUsers
        <4>2. row \in UserRow /\ row.email = users[u].email /\ row.verified = users[u].verified
          BY <1>1, <1>2, <1>3 DEF UserRow
        <4> HIDE DEF row
        <4> QED
          BY <1>1, <1>3, <4>1, <4>2
      <3>2. CASE "profile" \notin tx[r].wrote
        BY <1>1, <1>5, <3>2 DEF CommittedUsers
      <3> QED
        BY <3>1, <3>2
    <2>2. Accounts' = Accounts
      BY <2>1 DEF Accounts
    <2> QED
      BY <1>3, <1>5, <2>1, <2>2 DEF Accounts
  <1> QED
    BY <1>4, <1>5

\* What a commit makes of identities: a key that was free gets the account.
LEMMA CommittedIdentities ==
    ASSUME IInv, NEW r \in Request, Commit(r)
    PROVE  /\ identities' \in [Key -> User \cup {None}]
           /\ claim' \in [Key -> Identity \cup {None}]
           /\ identities'[tx[r].id.key] = tx[r].user
           /\ tx[r].id.key \in Key
           /\ "identity" \notin tx[r].wrote =>
                 identities' = identities /\ claim' = claim
           /\ "identity" \in tx[r].wrote =>
                 /\ tx[r].id.key \notin Known
                 /\ claim'[tx[r].id.key] = tx[r].id
           /\ \A k \in Known : identities'[k] = identities[k] /\ claim'[k] = claim[k]
           /\ \A k \in Key \ {tx[r].id.key} : identities'[k] = identities[k]
           /\ Known' = Known \cup {tx[r].id.key}
  <1> DEFINE id == tx[r].id
             u == tx[r].user
  <1>1. /\ TransactionInv(tx[r]) /\ tx[r].pc = "commit"
        /\ identities \in [Key -> User \cup {None}]
        /\ claim \in [Key -> Identity \cup {None}]
    BY DEF IInv, TypeOK, Commit
  <1>2. u \in User /\ u # None
    BY AccountsAssumption, CommittedRows DEF Commit
  <1>3. id \in Identity /\ id.key \in Key
    BY <1>1 DEF TransactionInv, Identity
  <1>4. CASE "identity" \in tx[r].wrote
    <2>1. /\ identities' = [identities EXCEPT ![id.key] = u]
          /\ claim' = [claim EXCEPT ![id.key] = id]
          /\ identities[id.key] = None
      BY <1>1, <1>4 DEF Commit, TransactionInv, Added
    <2> QED
      BY <1>1, <1>2, <1>3, <1>4, <2>1 DEF Known
  <1>5. CASE "identity" \notin tx[r].wrote
    <2>1. identities' = identities /\ claim' = claim
      BY <1>5 DEF Commit
    <2>2. identities[id.key] = u
      BY <1>1, <1>5 DEF TransactionInv, Settled
    <2> QED
      BY <1>1, <1>2, <1>3, <1>5, <2>1, <2>2 DEF Known
  <1> QED
    BY <1>4, <1>5

\* A commit never takes anything away: accounts keep address and verification,
\* identities and claims stay.
Grows ==
    /\ Accounts \subseteq Accounts'
    /\ \A u \in Accounts : /\ users'[u].email = users[u].email
                           /\ users'[u].verified = users[u].verified
    /\ Known \subseteq Known'
    /\ \A k \in Known : identities'[k] = identities[k] /\ claim'[k] = claim[k]

\* Every commit is such a step.
LEMMA CommitGrows ==
    ASSUME IInv, NEW r \in Request, Commit(r)
    PROVE  Grows
  <1>1. users' = CommittedUsers(r) /\ tx[r].pc = "commit"
    BY DEF Commit
  <1>2. Accounts \subseteq Accounts'
    BY <1>1, CommittedRows
  <1>3. \A u \in Accounts : /\ users'[u].email = users[u].email
                            /\ users'[u].verified = users[u].verified
    BY <1>1, CommittedRows
  <1> QED
    BY <1>2, <1>3, CommittedIdentities DEF Grows

\* The tables stay consistent when r commits a new account, or a link.
LEMMA CommitTables ==
    ASSUME IInv, NEW r \in Request, Commit(r)
    PROVE  Tables'
  <1> DEFINE id == tx[r].id
             u == tx[r].user
  <1>1. /\ TransactionInv(tx[r]) /\ id \in Identity /\ tx[r].pc = "commit"
        /\ users' = CommittedUsers(r)
    BY DEF IInv, Commit, TransactionInv
  <1>2. Settled(tx[r]) /\ Created(tx[r])
    BY <1>1 DEF TransactionInv
  <1>3. Grows /\ Known' = Known \cup {id.key} /\ identities'[id.key] = u
    BY CommitGrows, CommittedIdentities
  <1>4. \A k \in Known : identities[k] \in Accounts
    BY DEF IInv, Tables, ClaimsMatch
  <1>5. CASE "identity" \notin tx[r].wrote
    <2>1. /\ identities' = identities /\ claim' = claim /\ Known' = Known
          /\ "user" \notin tx[r].wrote
      BY <1>2, <1>5, CommittedIdentities DEF Settled, Known
    <2>2. Accounts' = Accounts
      BY <1>1, <2>1, CommittedRows
    <2>3. ClaimsMatch'
      BY <1>3, <2>1, <2>2 DEF IInv, Tables, ClaimsMatch, Grows
    <2>4. OneVerifiedAccountPerEmail' /\ NoOrphanAccount'
      BY <1>3, <2>1, <2>2
      DEF IInv, Tables, OneVerifiedAccountPerEmail, NoOrphanAccount, Grows
    <2> QED
      BY <2>3, <2>4 DEF Tables
  <1>6. CASE "identity" \in tx[r].wrote
    <2>1. id.key \notin Known /\ claim'[id.key] = id
      BY <1>6, CommittedIdentities
    <2>2. /\ u \in Accounts'
          /\ users'[u].verified <=> verified(id)
          /\ verified(id) => users'[u].email = id.email
          /\ \/ u \notin Accounts
             \/ u \in Accounts /\ verified(id) /\ Accounts' = Accounts
      <3>1. CASE "user" \in tx[r].wrote
        BY <1>1, <3>1, CommittedRows
      <3>2. CASE "user" \notin tx[r].wrote
        <4>1. verified(id) /\ u \in Candidates(id.email)
          BY <1>2, <1>6, <3>2 DEF Settled, JoinsVerified
        <4>2. u \in Accounts /\ users[u].verified /\ users[u].email = id.email
          BY <4>1 DEF Candidates
        <4>3. Accounts' = Accounts
          BY <1>1, <3>2, CommittedRows
        <4> QED
          BY <1>3, <4>1, <4>2, <4>3 DEF Grows
      <3> QED
        BY <3>1, <3>2
    <2>3. ASSUME NEW k \in Known, identities[k] = u
          PROVE  verified(claim[k]) /\ verified(id)
      <3>1. u \in Accounts /\ verified(id)
        BY <1>4, <2>2, <2>3
      <3>2. users[u].verified <=> verified(claim[k])
        BY <2>3 DEF IInv, Tables, ClaimsMatch
      <3> QED
        BY <1>3, <2>2, <3>1, <3>2 DEF Grows
    <2>4. ClaimsMatch'
      <3> SUFFICES ASSUME NEW k \in Known'
                   PROVE  /\ claim'[k] \in Identity
                          /\ identities'[k] \in Accounts'
                          /\ users'[identities'[k]].verified <=> verified(claim'[k])
                          /\ verified(claim'[k]) =>
                                users'[identities'[k]].email = claim'[k].email
                          /\ ~verified(claim'[k]) =>
                                \A j \in Known' : identities'[j] = identities'[k] => j = k
        BY DEF ClaimsMatch, verified
      <3>1. CASE k = id.key
        BY <1>1, <1>3, <2>1, <2>2, <2>3, <3>1 DEF Grows
      <3>2. CASE k # id.key
        <4>1. k \in Known /\ identities'[k] = identities[k] /\ claim'[k] = claim[k]
          BY <1>3, <3>2 DEF Grows
        <4>2. /\ claim[k] \in Identity
              /\ identities[k] \in Accounts
              /\ users[identities[k]].verified <=> verified(claim[k])
              /\ verified(claim[k]) => users[identities[k]].email = claim[k].email
              /\ ~verified(claim[k]) =>
                    \A j \in Known : identities[j] = identities[k] => j = k
          BY <4>1 DEF IInv, Tables, ClaimsMatch
        <4>3. ASSUME ~verified(claim[k]), NEW j \in Known', identities'[j] = identities[k]
              PROVE  j = k
          BY <1>3, <2>3, <4>1, <4>2, <4>3 DEF Grows
        <4> QED
          BY <1>3, <4>1, <4>2, <4>3 DEF Grows
      <3> QED
        BY <3>1, <3>2
    <2>5. OneVerifiedAccountPerEmail'
      <3>1. CASE Accounts' = Accounts
        BY <1>3, <3>1 DEF IInv, Tables, OneVerifiedAccountPerEmail, Grows
      <3>2. CASE Accounts' # Accounts
        <4>1. /\ "user" \in tx[r].wrote /\ Accounts' = Accounts \cup {u}
              /\ users'[u].email = id.email
          BY <1>1, <3>2, CommittedRows
        <4>2. verified(id) => Candidates(id.email) = {}
          BY <1>2, <4>1 DEF Created
        <4>3. ASSUME NEW v \in Accounts, users'[u].verified, users'[v].verified
              PROVE  users'[v].email # id.email
          BY <1>3, <2>2, <4>2, <4>3 DEF Candidates, Grows
        <4>4. ASSUME NEW v \in Accounts, NEW w \in Accounts,
                     users'[v].email = users'[w].email, users'[v].verified, users'[w].verified
              PROVE  v = w
          BY <1>3, <4>4 DEF IInv, Tables, OneVerifiedAccountPerEmail, Grows
        <4> QED
          BY <4>1, <4>3, <4>4 DEF OneVerifiedAccountPerEmail
      <3> QED
        BY <3>1, <3>2
    <2>6. NoOrphanAccount'
      <3>1. Accounts' \subseteq Accounts \cup {u}
        BY <1>1, CommittedRows
      <3> QED
        BY <1>3, <3>1 DEF IInv, Tables, NoOrphanAccount, Grows
    <2> QED
      BY <2>4, <2>5, <2>6 DEF Tables
  <1> QED
    BY <1>5, <1>6

\* What another transaction relies on survives the commit of r.
LEMMA CommitOthers ==
    ASSUME IInv, NEW r \in Request, Commit(r), NEW s \in Request \ {r}
    PROVE  TransactionInv(tx[s])'
  <1> DEFINE t == tx[s]
             u == tx[r].user
  <1>1. /\ TransactionInv(t) /\ Apart(tx[r], t) /\ t \in Transaction
        /\ tx[r].pc = "commit" /\ users' = CommittedUsers(r)
        /\ identities \in [Key -> User \cup {None}]
    BY DEF IInv, TypeOK, Commit
  <1>2. tx'[s] = t
    BY DEF IInv, TypeOK, Commit, Finish
  <1>3. Grows
    BY CommitGrows
  <1>4. JoinsVerified(t) => verified(t.id) /\ t.user \in Candidates(t.id.email)'
    BY <1>2, <1>3 DEF JoinsVerified, Candidates, Grows
  <1>5. t.id \in Identity /\ identities[t.id.key] # None =>
           identities'[t.id.key] = identities[t.id.key]
    BY <1>3 DEF Grows, Known, Identity
  <1>6. "user" \in t.wrote =>
           /\ t.user \in User \ Accounts'
           /\ verified(t.id) => Candidates(t.id.email)' = {}
    <2> SUFFICES ASSUME "user" \in t.wrote
                 PROVE  /\ t.user \in User \ Accounts'
                        /\ verified(t.id) => Candidates(t.id.email)' = {}
      OBVIOUS
    <2>1. t.user \in User \ Accounts /\ (verified(t.id) => Candidates(t.id.email) = {})
      BY <1>1 DEF TransactionInv, Created
    <2>2. CASE "user" \in tx[r].wrote
      <3>1. /\ Accounts' = Accounts \cup {u}
            /\ users'[u].email = tx[r].id.email
            /\ users'[u].verified = verified(tx[r].id)
        BY <1>1, <2>2, CommittedRows
      <3>2. u # t.user /\ (verified(tx[r].id) /\ verified(t.id) => tx[r].id.email # t.id.email)
        BY <1>1, <2>2 DEF Apart
      <3> QED
        BY <1>2, <1>3, <2>1, <3>1, <3>2 DEF Candidates, Grows
    <2>3. CASE "user" \notin tx[r].wrote
      <3>1. Accounts' = Accounts
        BY <1>1, <2>3, CommittedRows
      <3> QED
        BY <1>2, <1>3, <2>1, <3>1 DEF Candidates, Grows
    <2> QED
      BY <2>2, <2>3
  <1>7. "identity" \in t.wrote => identities'[t.id.key] = None
    <2> SUFFICES ASSUME "identity" \in t.wrote
                 PROVE  identities'[t.id.key] = None
      OBVIOUS
    <2>1. t.id \in Identity /\ identities[t.id.key] = None
      BY <1>1 DEF TransactionInv, Added
    <2>2. CASE "identity" \in tx[r].wrote
      <3>1. t.id.key \in Key /\ t.id.key # tx[r].id.key
        BY <1>1, <2>1, <2>2 DEF Apart, Identity
      <3> QED
        BY <2>1, <3>1, CommittedIdentities
    <2>3. CASE "identity" \notin tx[r].wrote
      BY <2>1, <2>3, CommittedIdentities
    <2> QED
      BY <2>2, <2>3
  <1>8. t.res # None => identities'[t.id.key] = t.res
    BY <1>1, <1>5 DEF TransactionInv
  <1>9. t.pc # "idle" /\ Settled(t) => Settled(t)'
    <2> SUFFICES ASSUME t.pc # "idle", Settled(t), t.user \in User => t.user # None
                 PROVE  Settled(t)'
      BY AccountsAssumption
    <2>1. t.id \in Identity
      BY <1>1 DEF TransactionInv
    <2> QED
      BY <1>2, <1>4, <1>5, <2>1 DEF Settled, JoinsVerified, verified
  <1> QED
    BY <1>1, <1>2, <1>4, <1>6, <1>7, <1>8, <1>9
    DEF TransactionInv, JoinsVerified, Created, Added, verified

\* A commit keeps the invariant: of the tables, of its own transaction, which is
\* over, and of the others.
LEMMA CommitStep ==
    ASSUME IInv, NEW r \in Request, Commit(r)
    PROVE  IInv'
  <1> DEFINE id == tx[r].id
             u == tx[r].user
  <1>1. PICK result \in {u, None} : Finish(r, result)
    BY DEF Commit
  <1> DEFINE t == [IdleTransaction EXCEPT !.pc = "done", !.id = id, !.res = result]
  <1>2. id \in Identity /\ u \in User
    BY CommittedRows DEF IInv, Commit, TransactionInv
  <1>3. t \in Transaction
    <2>1. result \in User \cup {None}
      BY <1>1, <1>2
    <2> QED
      BY <1>2, <2>1 DEF IdleTransaction, Transaction, Pc
  <1>4. t.wrote = {} /\ t.pc = "done" /\ t.id = id /\ t.res = result
    BY DEF IdleTransaction
  <1>5. tx' = [tx EXCEPT ![r] = t]
    BY <1>1 DEF Finish
  <1> HIDE DEF t
  <1>6. tx' \in [Request -> Transaction] /\ tx'[r] = t
        /\ \A s \in Request \ {r} : tx'[s] = tx[s]
    BY <1>3, <1>5 DEF IInv, TypeOK
  <1>7. TypeOK'
    BY <1>6, CommittedRows, CommittedIdentities DEF TypeOK, Commit
  <1>8. TransactionInv(tx[r])'
    <2>1. identities'[id.key] = u
      BY CommittedIdentities
    <2> QED
      BY <1>1, <1>2, <1>4, <1>6, <2>1 DEF TransactionInv, Created, Added
  <1>9. ASSUME NEW q \in Request, NEW s \in Request, q # s
        PROVE  Apart(tx[q], tx[s])'
    <2>1. Apart(tx'[q], tx'[s])
      <3>1. CASE q = r \/ s = r
        BY <1>4, <1>6, <3>1 DEF Apart
      <3>2. CASE q # r /\ s # r
        BY <1>6, <1>9, <3>2 DEF IInv
      <3> QED
        BY <3>1, <3>2
    <2> QED
      BY <2>1 DEF Apart, verified
  <1> QED
    BY <1>7, <1>8, <1>9, CommitTables, CommitOthers DEF IInv

-----------------------------------------------------------------------------
(* The invariant, and what follows from it. *)

\* Empty tables and no sign-in in flight satisfy the invariant.
LEMMA InvInit == Init => IInv
  <1> SUFFICES ASSUME Init
               PROVE  IInv
    OBVIOUS
  <1>1. IdleTransaction \in Transaction /\ NoUser \in UserRow
    BY DEF IdleTransaction, Transaction, Pc, NoUser, UserRow
  <1>2. TypeOK
    BY <1>1 DEF Init, TypeOK
  <1>3. Accounts = {} /\ Known = {}
    BY DEF Init, Accounts, Known, NoUser
  <1>4. Tables
    BY <1>3 DEF Tables, ClaimsMatch, OneVerifiedAccountPerEmail, NoOrphanAccount
  <1>5. TransactionInv(IdleTransaction)
    BY DEF TransactionInv, Created, Added, IdleTransaction
  <1>6. Apart(IdleTransaction, IdleTransaction)
    BY DEF Apart, IdleTransaction
  <1> QED
    BY <1>2, <1>4, <1>5, <1>6 DEF IInv, Init

\* Every statement, commit, failure and return preserves it.
LEMMA InvStep == IInv /\ [Next]_vars => IInv'
  <1> SUFFICES ASSUME IInv, [Next]_vars
               PROVE  IInv'
    OBVIOUS
  <1>1. ASSUME NEW r \in Request, \E id \in Identity : Begin(r, id)
        PROVE  IInv'
    BY <1>1, ReadingStep
  <1>2. ASSUME NEW r \in Request, Statement(r)
        PROVE  IInv'
    BY <1>2, ReadingStep, CommitStep DEF Statement
  <1>3. ASSUME NEW r \in Request, CreateUser(r) \/ CreateIdentity(r) \/ RefreshProfile(r)
        PROVE  IInv'
    BY <1>3, CreateUserStep, CreateIdentityStep, RefreshProfileStep
  <1>4. ASSUME NEW r \in Request, StepFails(r)
        PROVE  IInv'
    BY <1>4, RollbackStep DEF StepFails
  <1>5. CASE UNCHANGED vars
    <2>1. /\ users' = users /\ identities' = identities /\ tx' = tx /\ claim' = claim
      BY <1>5 DEF vars
    <2>2. Accounts' = Accounts /\ Known' = Known /\ \A e : Candidates(e)' = Candidates(e)
      BY <2>1 DEF Accounts, Known, Candidates
    <2>3. TypeOK' /\ Tables'
      BY <2>1, <2>2
      DEF IInv, TypeOK, Tables, ClaimsMatch, OneVerifiedAccountPerEmail, NoOrphanAccount
    <2>4. \A r \in Request : TransactionInv(tx[r])'
      BY <2>1, <2>2 DEF IInv, TransactionInv, JoinsVerified, Created, Added, Settled
    <2>5. \A r, s \in Request : r # s => Apart(tx[r], tx[s])'
      BY <2>1 DEF IInv, Apart
    <2> QED
      BY <2>3, <2>4, <2>5 DEF IInv
  <1> QED
    BY <1>1, <1>2, <1>3, <1>4, <1>5 DEF Next

\* Every reachable state of the tables and of the sign-ins in flight satisfies
\* the invariant, however the statements of the transactions interleave.
THEOREM Invariance == Spec => []IInv
  <1> QED
    BY InvInit, InvStep, PTL DEF Spec

\* The tables and the transactions in flight keep their types.
THEOREM TypeCorrect == Spec => []TypeOK
  <1>1. IInv => TypeOK
    BY DEF IInv
  <1> QED
    BY <1>1, Invariance, PTL

\* Two first sign-ins with one vouched-for address never both create an account.
THEOREM OneAccount == Spec => []OneVerifiedAccountPerEmail
  <1>1. IInv => OneVerifiedAccountPerEmail
    BY DEF IInv, Tables
  <1> QED
    BY <1>1, Invariance, PTL

\* Two identities share an account exactly when both providers vouched for the
\* same ordinary address.
THEOREM LinkingRules == Spec => []LinkedIffVerifiedEmail
  <1>1. ASSUME IInv
        PROVE  LinkedIffVerifiedEmail
    <2> SUFFICES ASSUME NEW j \in Known, NEW k \in Known, j # k
                 PROVE  identities[j] = identities[k] <=>
                           /\ verified(claim[j]) /\ verified(claim[k])
                           /\ claim[j].email = claim[k].email
      BY DEF LinkedIffVerifiedEmail
    <2>1. ClaimsMatch /\ OneVerifiedAccountPerEmail
      BY <1>1 DEF IInv, Tables
    <2>2. CASE identities[j] = identities[k]
      BY <2>1, <2>2 DEF ClaimsMatch
    <2>3. CASE /\ verified(claim[j]) /\ verified(claim[k])
               /\ claim[j].email = claim[k].email
      <3>1. /\ identities[j] \in Accounts /\ users[identities[j]].verified
            /\ users[identities[j]].email = claim[j].email
        BY <2>1, <2>3 DEF ClaimsMatch
      <3>2. /\ identities[k] \in Accounts /\ users[identities[k]].verified
            /\ users[identities[k]].email = claim[k].email
        BY <2>1, <2>3 DEF ClaimsMatch
      <3> QED
        BY <2>1, <2>3, <3>1, <3>2 DEF OneVerifiedAccountPerEmail
    <2> QED
      BY <2>2, <2>3
  <1> QED
    BY <1>1, Invariance, PTL

\* Wherever a sign-in fails, no account is left without an identity.
THEOREM NoOrphan == Spec => []NoOrphanAccount
  <1>1. IInv => NoOrphanAccount
    BY DEF IInv, Tables
  <1> QED
    BY <1>1, Invariance, PTL

\* A sign-in that succeeds is a sign-in to the account its identity belongs to.
THEOREM OwnerSignedIn == Spec => []SignedInAsOwner
  <1>1. IInv => SignedInAsOwner
    BY DEF IInv, TransactionInv, SignedInAsOwner
  <1> QED
    BY <1>1, Invariance, PTL

\* No step moves an identity to another account, or changes the address of an
\* account or whether it was verified.
THEOREM NothingEverMoves == Spec => NothingMoves
  <1>1. ASSUME IInv, [Next]_vars
        PROVE  [/\ \A k \in Known : identities'[k] = identities[k]
                /\ \A u \in Accounts : /\ users'[u].email = users[u].email
                                       /\ users'[u].verified = users[u].verified]_vars
    <2>1. CASE \E r \in Request : Commit(r)
      BY <1>1, <2>1, CommitGrows DEF Grows
    <2>2. CASE UNCHANGED <<users, identities, claim>>
      BY <2>2
    <2>3. CASE UNCHANGED vars
      BY <2>3 DEF vars
    <2> QED
      BY <1>1, <2>1, <2>2, <2>3
      DEF Next, Begin, Statement, Lookup, LinkTarget, Return, CreateUser, CreateIdentity,
          RefreshProfile, StepFails
  <1> QED
    BY <1>1, Invariance, PTL DEF Spec, NothingMoves
=============================================================================
