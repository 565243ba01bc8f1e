------------------------------ MODULE Accounts ------------------------------
(***************************************************************************)
(* Turning a verified identity into a user: Provision in                   *)
(* internal/auth/accounts.go, over the tables users and identities         *)
(* (internal/store/queries/accounts.sql and the migrations' unique         *)
(* indexes).                                                               *)
(*                                                                         *)
(* A provisioning is one READ COMMITTED transaction: every action is one   *)
(* statement, sees what others have committed by then, and keeps its own   *)
(* writes to itself until Commit.  A write that collides with another      *)
(* transaction's uncommitted write on a unique index, or on the same row,  *)
(* waits for that transaction; a collision with a committed row of a       *)
(* unique index is an error, which rolls the whole transaction back.       *)
(*                                                                         *)
(* Nothing sets users.deleted_at yet, so every user is undeleted.          *)
(***************************************************************************)
EXTENDS Naturals, FiniteSets

CONSTANTS
    Provider, Subject,      \* (provider, subject) is the identity key
    Email,                  \* addresses, up to case: the column is citext
    Relay,                  \* the private-relay addresses among them
    Profile,                \* display name and avatar, as one value
    User,                   \* user ids
    Request,                \* sign-ins that can be in flight together
    None

ASSUME AccountsAssumption ==
    /\ Relay \subseteq Email
    /\ None \notin User \cup Email \cup Profile

VARIABLES
    users,          \* the table users; a row with email None is not there
    identities,     \* the table identities: key -> user, None if not there
    tx,             \* the transactions in flight
    claim           \* history: what a key's provider claimed when it was added

vars == <<users, identities, tx, claim>>

-----------------------------------------------------------------------------
Key == Provider \X Subject

\* What Exchange hands over: auth.Identity.
Identity == [key : Key, email : Email, verified : BOOLEAN, profile : Profile]

UserRow == [email : Email \cup {None}, verified : BOOLEAN, profile : Profile \cup {None}]
NoUser == [email |-> None, verified |-> FALSE, profile |-> None]

Accounts == {u \in User : users[u].email # None}

isPrivateRelay(email) == email \in Relay

Pc == {"idle", "lookup", "target", "createUser", "createIdentity",
       "linkIdentity", "profile", "commit", "done"}

\* What a transaction has written and not committed.
Write == {"user", "identity", "profile"}

Transaction ==
    [pc    : Pc,
     id    : Identity \cup {None},
     user  : User \cup {None},          \* the account found, or being created
     seen  : Profile \cup {None},       \* its profile when it was read
     wrote : SUBSET Write,
     res   : User \cup {None}]          \* what Provision returned; None: an error

IdleTransaction == [pc |-> "idle", id |-> None, user |-> None, seen |-> None,
                    wrote |-> {}, res |-> None]

TypeOK ==
    /\ users \in [User -> UserRow]
    /\ identities \in [Key -> User \cup {None}]
    /\ tx \in [Request -> Transaction]
    /\ claim \in [Key -> Identity \cup {None}]

Init ==
    /\ users = [u \in User |-> NoUser]
    /\ identities = [k \in Key |-> None]
    /\ tx = [r \in Request |-> IdleTransaction]
    /\ claim = [k \in Key |-> None]

\* Another transaction has written and not committed what this one is about
\* to write: an entry of a unique index, or a row.
EmailPending(r) ==
    \E s \in Request \ {r} : /\ "user" \in tx[s].wrote
                             /\ tx[s].id.verified
                             /\ ~isPrivateRelay(tx[s].id.email)
                             /\ tx[s].id.email = tx[r].id.email
KeyPending(r) ==
    \E s \in Request \ {r} : /\ "identity" \in tx[s].wrote
                             /\ tx[s].id.key = tx[r].id.key
ProfilePending(r) ==
    \E s \in Request \ {r} : "profile" \in tx[s].wrote /\ tx[s].user = tx[r].user

\* Rolled back or committed: nothing of the transaction is left.
Finish(r, u) ==
    tx' = [tx EXCEPT ![r] = [IdleTransaction EXCEPT !.pc = "done", !.id = tx[r].id,
                                                    !.res = u]]

-----------------------------------------------------------------------------
(* Provision. *)

Begin(r, id) ==
    /\ tx[r].pc = "idle"
    /\ tx' = [tx EXCEPT ![r] = [IdleTransaction EXCEPT !.pc = "lookup", !.id = id]]
    /\ UNCHANGED <<users, identities, claim>>

\* Mutant of Lookup: the address stands for the person.
LookupByEmail(r) ==
    /\ tx[r].pc = "lookup"
    /\ \/ \E u \in Accounts :
             /\ users[u].email = tx[r].id.email
             /\ tx' = [tx EXCEPT ![r].pc = "profile", ![r].user = u,
                                 ![r].seen = users[u].profile]
       \/ tx' = [tx EXCEPT ![r].pc = "target"]
    /\ UNCHANGED <<users, identities, claim>>

\* GetUserByIdentity: a known key is that user, and the email is not consulted.
Lookup(r) ==
    LET u == identities[tx[r].id.key]
    IN  /\ tx[r].pc = "lookup"
        /\ tx' = IF u # None
                   THEN [tx EXCEPT ![r].pc = "profile", ![r].user = u,
                                   ![r].seen = users[u].profile]
                   ELSE [tx EXCEPT ![r].pc = "target"]
        /\ UNCHANGED <<users, identities, claim>>

\* GetVerifiedUserByEmail.
Candidates(email) == {u \in Accounts : users[u].email = email /\ users[u].verified}

\* Mutant of LinkTarget: any address the provider names is good enough.
LinkTargetUnverified(r) ==
    LET id == tx[r].id
    IN  /\ tx[r].pc = "target"
        /\ \/ /\ ~isPrivateRelay(id.email)
              /\ \E u \in Candidates(id.email) :
                    tx' = [tx EXCEPT ![r].pc = "linkIdentity", ![r].user = u,
                                     ![r].seen = users[u].profile]
           \/ /\ isPrivateRelay(id.email) \/ Candidates(id.email) = {}
              /\ tx' = [tx EXCEPT ![r].pc = "createUser"]
        /\ UNCHANGED <<users, identities, claim>>

\* linkTarget: the account this identity may join.
LinkTarget(r) ==
    LET id == tx[r].id
        linkable == id.verified /\ ~isPrivateRelay(id.email)
    IN  /\ tx[r].pc = "target"
        /\ \/ /\ linkable
              /\ \E u \in Candidates(id.email) :
                    tx' = [tx EXCEPT ![r].pc = "linkIdentity", ![r].user = u,
                                     ![r].seen = users[u].profile]
           \/ /\ ~linkable \/ Candidates(id.email) = {}
              /\ tx' = [tx EXCEPT ![r].pc = "createUser"]
        /\ UNCHANGED <<users, identities, claim>>

\* A relay address is recorded as unverified.
verified(id) == id.verified /\ ~isPrivateRelay(id.email)

\* Mutant of CreateUser: users_email_verified_key does not exist.
CreateUserNoIndex(r) ==
    /\ tx[r].pc = "createUser"
    /\ \E u \in User \ Accounts :
          /\ \A s \in Request : tx[s].user # u
          /\ tx' = [tx EXCEPT ![r].pc = "createIdentity", ![r].user = u,
                              ![r].wrote = {"user"}]
    /\ UNCHANGED <<users, identities, claim>>

\* create, its first INSERT: users_email_verified_key admits one verified
\* account per address.
CreateUser(r) ==
    LET id == tx[r].id
    IN  /\ tx[r].pc = "createUser"
        /\ verified(id) => ~EmailPending(r)
        /\ \/ /\ verified(id) /\ Candidates(id.email) # {}
              /\ Finish(r, None)
           \/ /\ ~(verified(id) /\ Candidates(id.email) # {})
              /\ \E u \in User \ Accounts :
                    /\ \A s \in Request : tx[s].user # u
                    /\ tx' = [tx EXCEPT ![r].pc = "createIdentity", ![r].user = u,
                                        ![r].wrote = {"user"}]
        /\ UNCHANGED <<users, identities, claim>>

\* Mutant of CreateIdentity: an identity that exists is overwritten (ON
\* CONFLICT DO UPDATE).
CreateIdentityUpsert(r) ==
    /\ tx[r].pc \in {"createIdentity", "linkIdentity"}
    /\ ~KeyPending(r)
    /\ tx' = [tx EXCEPT ![r].pc = IF @ = "linkIdentity" THEN "profile" ELSE "commit",
                        ![r].wrote = @ \cup {"identity"}]
    /\ UNCHANGED <<users, identities, claim>>

\* Mutant of CreateIdentity: the account was committed before its identity.
CreateIdentityLast(r) ==
    /\ tx[r].pc \in {"createIdentity", "linkIdentity"}
    /\ ~KeyPending(r)
    /\ IF identities[tx[r].id.key] # None
         THEN /\ Finish(r, None)
              /\ users' = IF tx[r].pc = "createIdentity"
                            THEN [users EXCEPT ![tx[r].user].email = tx[r].id.email]
                            ELSE users
         ELSE /\ tx' = [tx EXCEPT ![r].pc = IF @ = "linkIdentity" THEN "profile"
                                                                  ELSE "commit",
                                  ![r].wrote = @ \cup {"identity"}]
              /\ UNCHANGED users
    /\ UNCHANGED <<identities, claim>>

\* CreateIdentity, in create and in link: (provider, subject) is unique.
CreateIdentity(r) ==
    /\ tx[r].pc \in {"createIdentity", "linkIdentity"}
    /\ ~KeyPending(r)
    /\ IF identities[tx[r].id.key] # None
         THEN Finish(r, None)
         ELSE tx' = [tx EXCEPT ![r].pc = IF @ = "linkIdentity" THEN "profile"
                                                               ELSE "commit",
                               ![r].wrote = @ \cup {"identity"}]
    /\ UNCHANGED <<users, identities, claim>>

\* Mutant of RefreshProfile: a sign-in that has another's row to wait for
\* also waits for that sign-in's identity.
RefreshProfileLocking(r) ==
    /\ tx[r].pc = "profile"
    /\ \A s \in Request \ {r} : tx[s].user = tx[r].user => tx[s].pc = "done"
    /\ tx' = [tx EXCEPT ![r].pc = "commit", ![r].wrote = @ \cup {"profile"}]
    /\ UNCHANGED <<users, identities, claim>>

\* refreshProfile: the row is written only if it differs from what was read.
RefreshProfile(r) ==
    /\ tx[r].pc = "profile"
    /\ IF tx[r].seen = tx[r].id.profile
         THEN tx' = [tx EXCEPT ![r].pc = "commit"]
         ELSE /\ ~ProfilePending(r)
              /\ tx' = [tx EXCEPT ![r].pc = "commit", ![r].wrote = @ \cup {"profile"}]
    /\ UNCHANGED <<users, identities, claim>>

\* Mutant of CommittedUsers: two columns are swapped.
CommittedUsersSwapped(r) ==
    LET id == tx[r].id
    IN  IF "user" \in tx[r].wrote
          THEN [users EXCEPT ![tx[r].user] =
                  [email |-> id.profile, verified |-> verified(id),
                   profile |-> id.email]]
          ELSE users

\* The rows of users once the transaction is committed: a new account, a new
\* profile, or nothing new.
CommittedUsers(r) ==
    LET id == tx[r].id
    IN  IF "user" \in tx[r].wrote
          THEN [users EXCEPT ![tx[r].user] =
                  [email |-> id.email, verified |-> verified(id),
                   profile |-> id.profile]]
        ELSE IF "profile" \in tx[r].wrote
          THEN [users EXCEPT ![tx[r].user].profile = id.profile]
        ELSE users

\* The answer to the commit may be lost, which the caller sees as an error.
Commit(r) ==
    LET id == tx[r].id
    IN  /\ tx[r].pc = "commit"
        /\ users' = CommittedUsers(r)
        /\ IF "identity" \in tx[r].wrote
             THEN /\ identities' = [identities EXCEPT ![id.key] = tx[r].user]
                  /\ claim' = [claim EXCEPT ![id.key] = id]
             ELSE UNCHANGED <<identities, claim>>
        /\ \E u \in {tx[r].user, None} : Finish(r, u)

\* A statement fails or the context is cancelled: the deferred rollback runs.
StepFails(r) ==
    /\ tx[r].pc \notin {"idle", "done"}
    /\ Finish(r, None)
    /\ UNCHANGED <<users, identities, claim>>

Return(r) ==
    /\ tx[r].pc = "done"
    /\ tx' = [tx EXCEPT ![r] = IdleTransaction]
    /\ UNCHANGED <<users, identities, claim>>

Statement(r) == Lookup(r) \/ LinkTarget(r) \/ Commit(r) \/ Return(r)

Next ==
    \E r \in Request :
       \/ \E id \in Identity : Begin(r, id)
       \/ Statement(r)
       \/ CreateUser(r)
       \/ CreateIdentity(r)
       \/ RefreshProfile(r)
       \/ StepFails(r)

Spec == Init /\ [][Next]_vars

\* Statements are answered, and whoever waits for another transaction's end
\* is served in turn.
Fairness ==
    \A r \in Request : /\ WF_vars(Statement(r))
                       /\ SF_vars(CreateUser(r))
                       /\ SF_vars(CreateIdentity(r))
                       /\ SF_vars(RefreshProfile(r))

FairSpec == Spec /\ Fairness

-----------------------------------------------------------------------------
(* Correctness. *)

Known == {k \in Key : identities[k] # None}

\* "Two verified accounts on one address" are impossible (migration 00004),
\* whichever sign-ins race to create them.
OneVerifiedAccountPerEmail ==
    \A u, v \in Accounts :
       users[u].email = users[v].email /\ users[u].verified /\ users[v].verified
       => u = v

\* The linking rules of spec 9 as one statement about the tables: two
\* identities share an account exactly when each provider, at that identity's
\* first sign-in, vouched for one and the same address that is not a relay.
\* Read from left to right nobody takes an account over with an address they
\* merely claim; from right to left nobody ends up with two accounts because
\* two first sign-ins overlapped.
LinkedIffVerifiedEmail ==
    \A j, k \in Known : j # k =>
       (identities[j] = identities[k] <=>
          /\ verified(claim[j]) /\ verified(claim[k])
          /\ claim[j].email = claim[k].email)

\* A sign-in that fails half way leaves no account behind that nobody can
\* sign in to: every account has an identity (Provision's transaction).
NoOrphanAccount == \A u \in Accounts : \E k \in Known : identities[k] = u

\* Provision returns the user this identity belongs to, also when others
\* sign in, link and create at the same time.
SignedInAsOwner ==
    \A r \in Request :
       tx[r].res # None => identities[tx[r].id.key] = tx[r].res

\* Accounts are never merged and identities never move; the address of an
\* account and whether it was verified are those of its creation ("the email
\* is deliberately not touched here", accounts.sql).
NothingMoves ==
    [][/\ \A k \in Known : identities'[k] = identities[k]
       /\ \A u \in Accounts : /\ users'[u].email = users[u].email
                              /\ users'[u].verified = users[u].verified]_vars

\* Every sign-in is answered: waiting for unique indexes and for the profile
\* row never closes a circle.
EveryProvisionAnswered ==
    \A r \in Request : tx[r].pc # "idle" ~> tx[r].pc = "idle"
=============================================================================
