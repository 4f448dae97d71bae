-------------------------------- MODULE Roles --------------------------------
(***************************************************************************)
(* Who may change whose role.  CredentialsUpdateRole reads the target and  *)
(* then the actor with two statements, compares their ranks and updates    *)
(* the target with a third, none of them in a transaction; the route in    *)
(* front of it looks at the role in the caller's access token.  The init   *)
(* job makes the account with SUPER_ADMIN_EMAIL a super-admin in one       *)
(* transaction, whose UPDATE holds the account's row until it commits.     *)
(*                                                                         *)
(* Stored roles are those of the configuration: the column has a CHECK     *)
(* constraint that lists them, so ErrUnknownRole cannot come from a row.   *)
(***************************************************************************)
EXTENDS Integers, FiniteSets

CONSTANTS Users,       \* the identities accounts can have
          Roots,       \* those whose email SUPER_ADMIN_EMAIL is, or once was
          Sessions,    \* requests and init jobs that can be in flight together
          RoleNames,   \* the roles the permission configuration defines
          Priority,    \* their ranks
          Patchers,    \* the roles that resolve to credentials:role:patch
          RoleUser, RoleSuperAdmin,
          NoRole,      \* of a user without an account
          NoSession

ASSUME RolesAssumption ==
  /\ Users # {} /\ Roots \subseteq Users
  /\ Priority \in [RoleNames -> Nat]
  /\ Patchers \subseteq RoleNames /\ RoleUser \notin Patchers
  /\ RoleUser \in RoleNames /\ RoleSuperAdmin \in RoleNames
  /\ RoleUser # RoleSuperAdmin
  /\ \A r \in RoleNames : Priority[r] <= Priority[RoleSuperAdmin]
  /\ NoRole \notin RoleNames
  /\ NoSession \notin Sessions

VARIABLES role,      \* role[u]: the committed role of u's account
          holders,   \* who has an unexpired access token that passes the route
          lock,      \* lock[u]: the session whose transaction wrote u's row
          pc,        \* the statement each session is at
          job,       \* its inputs, and the roles it read
          booted     \* history: an init job has committed

vars == <<role, holders, lock, pc, job, booted>>

Steps == {"idle", "target", "actor", "update", "insert", "password", "role"}

\* An init job has the configured account as its target, and no use for the rest.
Job == [actor : Users, target : Users, new : RoleNames,
        read : RoleNames \union {NoRole},   \* the role of the target, when it was read
        own : RoleNames \union {NoRole}]    \* that of the actor

Idle == [actor |-> CHOOSE u \in Users : TRUE, target |-> CHOOSE u \in Users : TRUE,
         new |-> RoleUser, read |-> NoRole, own |-> NoRole]

Goto(s, step) == pc' = [pc EXCEPT ![s] = step]
Return(s) == Goto(s, "idle") /\ job' = [job EXCEPT ![s] = Idle]

HasAccount(u) == role[u] # NoRole
IsFree(u) == lock[u] = NoSession
IsSuperAdmin(u) == role[u] = RoleSuperAdmin

-----------------------------------------------------------------------------
(* Accounts and tokens.                                                     *)
\* CredentialsCreate: every registration gets RoleUser.  The unique email waits for an
\* init job that is inserting the same account.
Register(u) == /\ ~HasAccount(u) /\ IsFree(u)
               /\ role' = [role EXCEPT ![u] = RoleUser]
               /\ UNCHANGED <<holders, lock, pc, job, booted>>

\* Mutant: the middleware admits every role it knows.
SignIn_AnyRole(u) == /\ HasAccount(u)
                     /\ holders' = holders \union {u}
                     /\ UNCHANGED <<role, lock, pc, job, booted>>

\* TokenCreate and TokenRefresh: the access token carries the role of the moment.
SignIn(u) == /\ role[u] \in Patchers
             /\ holders' = holders \union {u}
             /\ UNCHANGED <<role, lock, pc, job, booted>>

\* Tokens signed in the same instant expire in the same instant.
Expire(gone) == /\ gone # {} /\ gone \subseteq holders
                /\ holders' = holders \ gone
                /\ UNCHANGED <<role, lock, pc, job, booted>>

-----------------------------------------------------------------------------
(* CredentialsUpdateRole.                                                   *)
\* Mutant: the route lets any caller through.
UpdateRole_AnyCaller(s, a, t, r) ==
  /\ pc[s] = "idle"
  /\ HasAccount(a)
  /\ a # t
  /\ job' = [job EXCEPT ![s] = [actor |-> a, target |-> t, new |-> r, read |-> NoRole, own |-> NoRole]]
  /\ Goto(s, "target")
  /\ UNCHANGED <<role, holders, lock, booted>>

\* The middleware: an unexpired token, of a role with the permission.
Admitted(a) == a \in holders

\* The route wants a token whose role grants the permission; the service refuses an
\* actor that is its own target.
UpdateRole(s, a, t, r) ==
  /\ pc[s] = "idle"
  /\ Admitted(a)
  /\ a # t
  /\ job' = [job EXCEPT ![s] = [actor |-> a, target |-> t, new |-> r, read |-> NoRole, own |-> NoRole]]
  /\ Goto(s, "target")
  /\ UNCHANGED <<role, holders, lock, booted>>

SelectTarget(s) ==
  /\ pc[s] = "target"
  /\ IF HasAccount(job[s].target)
     THEN /\ job' = [job EXCEPT ![s].read = role[job[s].target]]
          /\ Goto(s, "actor")
     ELSE Return(s)
  /\ UNCHANGED <<role, holders, lock, booted>>

\* ErrCredentialsUpdateRoleToHigher
ToHigher(new, target, actor) == new >= target /\ new > actor

\* Mutant: a peer can be demoted.
DowngradesSuperior_NotPeers(new, target, actor) == new <= target /\ target > actor

\* ErrCredentialsUpdateRoleDowngradeSuperior
DowngradesSuperior(new, target, actor) == new <= target /\ target >= actor

\* The actor's row is the last thing read; the refusals, the no-op and the decision
\* to update follow from it at once.
SelectActor(s) ==
  LET new == Priority[job[s].new]
      target == Priority[job[s].read]
      actor == Priority[role[job[s].actor]]
  IN /\ pc[s] = "actor"
     /\ IF \/ ~HasAccount(job[s].actor)
           \/ ToHigher(new, target, actor) \/ DowngradesSuperior(new, target, actor)
           \/ new = target
        THEN Return(s)
        ELSE /\ job' = [job EXCEPT ![s].own = role[job[s].actor]]
             /\ Goto(s, "update")
     /\ UNCHANGED <<role, holders, lock, booted>>

\* The UPDATE is its own transaction; it waits for a row an init job holds.
Update(s) ==
  /\ pc[s] = "update" /\ IsFree(job[s].target)
  /\ role' = [role EXCEPT ![job[s].target] = job[s].new]
  /\ Return(s)
  /\ UNCHANGED <<holders, lock, booted>>

-----------------------------------------------------------------------------
(* CredentialsCreateSuperAdmin, in one transaction.                         *)
\* SELECT by email.
Bootstrap(s, u) ==
  /\ pc[s] = "idle"
  /\ job' = [job EXCEPT ![s] = [actor |-> u, target |-> u, new |-> RoleUser,
                                  read |-> role[u], own |-> NoRole]]
  /\ Goto(s, IF HasAccount(u) THEN "password" ELSE "insert")
  /\ UNCHANGED <<role, holders, lock, booted>>

\* INSERT: the unique email waits for another insert of it, and refuses this one once
\* the account is there.
BootInsert(s) ==
  /\ pc[s] = "insert" /\ IsFree(job[s].target)
  /\ IF HasAccount(job[s].target)
     THEN Return(s) /\ UNCHANGED lock
     ELSE /\ lock' = [lock EXCEPT ![job[s].target] = s]
          /\ Goto(s, "role")
          /\ UNCHANGED job
  /\ UNCHANGED <<role, holders, booted>>

\* Mutant: the role of the first SELECT decides, not that of the row updated.
BootPassword_FirstRead(s) ==
  /\ pc[s] = "password" /\ IsFree(job[s].target)
  /\ lock' = [lock EXCEPT ![job[s].target] = s]
  /\ Goto(s, "role")
  /\ UNCHANGED <<role, holders, job, booted>>

\* UPDATE password RETURNING *: takes the row, and reads the role it has by then.
BootPassword(s) ==
  /\ pc[s] = "password" /\ IsFree(job[s].target)
  /\ lock' = [lock EXCEPT ![job[s].target] = s]
  /\ job' = [job EXCEPT ![s].read = role[job[s].target]]
  /\ Goto(s, "role")
  /\ UNCHANGED <<role, holders, booted>>

\* The role is written unless the one read is RoleSuperAdmin already; then COMMIT.
BootRole(s) ==
  /\ pc[s] = "role"
  /\ role' = IF job[s].read = RoleSuperAdmin THEN role
             ELSE [role EXCEPT ![job[s].target] = RoleSuperAdmin]
  /\ lock' = [lock EXCEPT ![job[s].target] = NoSession]
  /\ booted' = TRUE
  /\ Return(s)
  /\ UNCHANGED holders

-----------------------------------------------------------------------------
\* A statement fails, the client goes away or the process dies.
Abort(s) == /\ pc[s] # "idle"
            /\ lock' = [u \in Users |-> IF lock[u] = s THEN NoSession ELSE lock[u]]
            /\ Return(s)
            /\ UNCHANGED <<role, holders, booted>>

Init == /\ role = [u \in Users |-> NoRole]
        /\ holders = {}
        /\ lock = [u \in Users |-> NoSession]
        /\ pc = [s \in Sessions |-> "idle"]
        /\ job = [s \in Sessions |-> Idle]
        /\ booted = FALSE

Next == \/ \E u \in Users : Register(u) \/ SignIn(u)
        \/ \E gone \in SUBSET Users : Expire(gone)
        \/ \E s \in Sessions :
             \/ \E a, t \in Users, r \in RoleNames : UpdateRole(s, a, t, r)
             \/ SelectTarget(s) \/ SelectActor(s) \/ Update(s)
             \/ \E u \in Roots : Bootstrap(s, u)
             \/ BootInsert(s) \/ BootPassword(s) \/ BootRole(s)
             \/ Abort(s)

Spec == Init /\ [][Next]_vars

-----------------------------------------------------------------------------
(* Properties.                                                              *)
\* Every variable has its type, and a row is locked only by an init job that is about
\* to commit on it.
TypeOK ==
  /\ role \in [Users -> RoleNames \union {NoRole}]
  /\ holders \subseteq Users
  /\ lock \in [Users -> Sessions \union {NoSession}]
  /\ pc \in [Sessions -> Steps]
  /\ job \in [Sessions -> Job]
  /\ booted \in BOOLEAN
  /\ \A u \in Users, s \in Sessions : lock[u] = s <=> (pc[s] = "role" /\ job[s].target = u)

\* Ranks come from the configuration alone: until an init job has committed, no sequence
\* of requests gives any account another role than RoleUser, or any caller a token that
\* passes the role route (CredentialsCreate, CredentialsUpdateRole and the middleware).
OnlyBootstrapElevates ==
  ~booted => /\ \A u \in Users : role[u] \in {NoRole, RoleUser}
             /\ holders = {}

\* Once an init job has committed there is a super-admin, whatever updates of roles race
\* each other: the deployment cannot demote its way out of having one, because nobody
\* can be demoted by a peer (CredentialsUpdateRole).
SuperAdminRemains == booted => \E u \in Users : IsSuperAdmin(u)

\* The commit of an init job leaves the configured account a super-admin, whatever role
\* updates land between its statements (CredentialsCreateSuperAdmin).
BootstrapTakes ==
  [][\A s \in Sessions : BootRole(s) => role'[job[s].target] = RoleSuperAdmin]_vars

Rank(u) == Priority[role[u]]
Obeys(a, t) == /\ Priority[role'[t]] <= Rank(a) \/ Priority[role'[t]] < Rank(t)
               /\ Priority[role'[t]] < Rank(t) => Rank(t) < Rank(a)

\* A role update whose reads still hold when it writes respects the hierarchy: it gives
\* nobody a rank above the actor's, and demotes only those below the actor
\* (CredentialsUpdateRole).
HierarchyUnlessRaced ==
  [][\A s \in Sessions :
       Update(s) /\ role[job[s].target] = job[s].read /\ role[job[s].actor] = job[s].own
         => Obeys(job[s].actor, job[s].target)]_vars

\* "An actor cannot ... promote anyone above its own rank, or demote a user whose rank is
\* at or above its own", at the moment the role changes (CredentialsUpdateRole).
HierarchyHolds == [][\A s \in Sessions : Update(s) => Obeys(job[s].actor, job[s].target)]_vars

\* The inductive strengthening: before the first init job commits no role update is in
\* flight; after it, some super-admin is out of reach of every update in flight; an update
\* in flight passed its checks.
Reached(s, u) == job[s].target = u /\ \/ pc[s] = "update"
                                      \/ pc[s] = "actor" /\ job[s].read # RoleSuperAdmin
Decided(s) == LET new == Priority[job[s].new]
                  target == Priority[job[s].read]
                  actor == Priority[job[s].own]
              IN /\ job[s].read \in RoleNames /\ job[s].own \in RoleNames
                 /\ ~ToHigher(new, target, actor) /\ ~DowngradesSuperior(new, target, actor)
RolesInv ==
  /\ TypeOK
  /\ OnlyBootstrapElevates
  /\ ~booted => \A s \in Sessions : pc[s] \notin {"target", "actor", "update"}
  /\ booted => \E u \in Users : IsSuperAdmin(u) /\ \A s \in Sessions : ~Reached(s, u)
  /\ \A s \in Sessions :
       /\ pc[s] = "actor" => job[s].read \in RoleNames
       /\ pc[s] = "update" => Decided(s)
       /\ pc[s] = "insert" => job[s].read = NoRole
       /\ pc[s] = "role" => job[s].read = role[job[s].target]
=============================================================================
