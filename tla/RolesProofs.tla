----------------------------- MODULE RolesProofs -----------------------------
(* Proofs about Roles, for any hierarchy of roles, users and sessions.      *)
EXTENDS Roles, TLAPS

USE DEF HasAccount, IsFree, IsSuperAdmin, Goto, Return, Reached, Decided

\* Idle is a job.
LEMMA IdleJob == Idle \in Job
  BY RolesAssumption DEF Idle, Job

\* What the last read of a role update decides.
LEMMA ActorRead ==
  ASSUME TypeOK, NEW s \in Sessions, SelectActor(s), job[s].read \in RoleNames \union {NoRole}
  PROVE  /\ pc[s] = "actor" /\ UNCHANGED <<role, holders, lock, booted>>
         /\ \/ Return(s)
            \/ /\ Goto(s, "update")
               /\ job' \in [Sessions -> Job]
               /\ \A x \in Sessions \ {s} : job'[x] = job[x]
               /\ job'[s].target = job[s].target /\ job'[s].new = job[s].new
               /\ job'[s].read = job[s].read /\ job'[s].own = role[job[s].actor]
               /\ job'[s].own \in RoleNames
               /\ ~ToHigher(Priority[job'[s].new], Priority[job'[s].read], Priority[job'[s].own])
               /\ ~DowngradesSuperior(Priority[job'[s].new], Priority[job'[s].read],
                                      Priority[job'[s].own])
<1> DEFINE own == role[job[s].actor]
           next == [job[s] EXCEPT !.own = own]
<1>1. pc[s] = "actor" /\ UNCHANGED <<role, holders, lock, booted>>
  BY DEF SelectActor
<1>2. job[s] \in Job /\ own \in RoleNames \union {NoRole}
  BY DEF TypeOK, Job
<1>3. /\ next \in Job /\ next.target = job[s].target /\ next.new = job[s].new
      /\ next.read = job[s].read /\ next.own = own
  BY <1>2 DEF Job
<1>4. CASE \/ ~HasAccount(job[s].actor)
           \/ ToHigher(Priority[job[s].new], Priority[job[s].read], Priority[own])
           \/ DowngradesSuperior(Priority[job[s].new], Priority[job[s].read], Priority[own])
           \/ Priority[job[s].new] = Priority[job[s].read]
  BY <1>1, <1>4 DEF SelectActor
<1>5. CASE ~(\/ ~HasAccount(job[s].actor)
             \/ ToHigher(Priority[job[s].new], Priority[job[s].read], Priority[own])
             \/ DowngradesSuperior(Priority[job[s].new], Priority[job[s].read], Priority[own])
             \/ Priority[job[s].new] = Priority[job[s].read])
  <2>1. job' = [job EXCEPT ![s] = next] /\ Goto(s, "update")
    BY <1>5 DEF SelectActor
  <2>2. /\ job' \in [Sessions -> Job] /\ job'[s] = next
        /\ \A x \in Sessions \ {s} : job'[x] = job[x]
    BY <1>3, <2>1 DEF TypeOK
  <2> QED BY <1>1, <1>2, <1>3, <1>5, <2>1, <2>2
<1> QED BY <1>4, <1>5

\* Every action takes a typed state to a typed state.
LEMMA TypeInductive == TypeOK /\ [Next]_vars => TypeOK'
<1> SUFFICES ASSUME TypeOK, [Next]_vars PROVE TypeOK'
  OBVIOUS
<1>0. Idle \in Job
  BY IdleJob
<1>1. ASSUME \/ \E u \in Users : Register(u) \/ SignIn(u)
             \/ \E gone \in SUBSET Users : Expire(gone)
      PROVE TypeOK'
  BY <1>1, RolesAssumption DEF TypeOK, Register, SignIn, Expire
<1>2. ASSUME NEW s \in Sessions, NEW a \in Users, NEW t \in Users, NEW r \in RoleNames,
             UpdateRole(s, a, t, r)
      PROVE TypeOK'
  BY <1>2, RolesAssumption DEF TypeOK, UpdateRole, Job, Steps
<1>3. ASSUME NEW s \in Sessions, SelectTarget(s) PROVE TypeOK'
  <2>1. CASE HasAccount(job[s].target)
    <3>1. job[s] \in Job /\ job[s].target \in Users /\ role[job[s].target] \in RoleNames
      BY <1>3, <2>1 DEF TypeOK, Job
    <3>2. [job[s] EXCEPT !.read = role[job[s].target]] \in Job
      BY <3>1 DEF Job
    <3>3. job' = [job EXCEPT ![s] = [job[s] EXCEPT !.read = role[job[s].target]]]
      BY <1>3, <2>1, <3>1 DEF SelectTarget, TypeOK
    <3>4. job' \in [Sessions -> Job] /\ \A x \in Sessions : job'[x].target = job[x].target
      BY <1>3, <3>1, <3>2, <3>3 DEF TypeOK, Job
    <3>5. /\ pc' = [pc EXCEPT ![s] = "actor"] /\ pc[s] = "target"
          /\ UNCHANGED <<role, holders, lock, booted>>
      BY <1>3, <2>1 DEF SelectTarget
    <3> QED BY <3>4, <3>5 DEF TypeOK, Steps
  <2>2. CASE ~HasAccount(job[s].target)
    <3>1. /\ Return(s) /\ pc[s] = "target"
          /\ UNCHANGED <<role, holders, lock, booted>>
      BY <1>3, <2>2 DEF SelectTarget
    <3> QED BY <1>0, <3>1 DEF TypeOK, Steps
  <2> QED BY <2>1, <2>2
<1>4. ASSUME NEW s \in Sessions, SelectActor(s) PROVE TypeOK'
  <2>1. /\ pc[s] = "actor" /\ UNCHANGED <<role, holders, lock, booted>>
        /\ \/ Return(s)
           \/ /\ Goto(s, "update") /\ job' \in [Sessions -> Job]
              /\ \A x \in Sessions : job'[x].target = job[x].target
    BY <1>4, ActorRead DEF TypeOK, Job
  <2>2. CASE Return(s)
    BY <1>0, <2>1, <2>2 DEF TypeOK, Steps
  <2>3. CASE /\ Goto(s, "update") /\ job' \in [Sessions -> Job]
             /\ \A x \in Sessions : job'[x].target = job[x].target
    BY <2>1, <2>3 DEF TypeOK, Steps
  <2> QED BY <2>1, <2>2, <2>3
<1>5. ASSUME NEW s \in Sessions, Update(s) PROVE TypeOK'
  BY <1>0, <1>5, RolesAssumption DEF TypeOK, Update, Job, Steps
<1>6. ASSUME NEW s \in Sessions, NEW u \in Roots, Bootstrap(s, u) PROVE TypeOK'
  BY <1>0, <1>6, RolesAssumption DEF TypeOK, Bootstrap, Job, Steps
<1>7. ASSUME NEW s \in Sessions, BootInsert(s) PROVE TypeOK'
  <2>1. CASE HasAccount(job[s].target)
    <3>1. /\ pc[s] = "insert" /\ Return(s) /\ UNCHANGED <<role, holders, lock, booted>>
      BY <1>7, <2>1 DEF BootInsert
    <3> QED BY <1>0, <3>1 DEF TypeOK, Steps
  <2>2. CASE ~HasAccount(job[s].target)
    <3>1. /\ pc[s] = "insert" /\ pc' = [pc EXCEPT ![s] = "role"]
          /\ lock[job[s].target] = NoSession /\ job[s].target \in Users
          /\ lock' = [lock EXCEPT ![job[s].target] = s]
          /\ UNCHANGED <<role, holders, job, booted>>
      BY <1>7, <2>2 DEF BootInsert, TypeOK, Job
    <3> QED BY <3>1, RolesAssumption DEF TypeOK, Steps
  <2> QED BY <2>1, <2>2
<1>8. ASSUME NEW s \in Sessions, BootPassword(s) PROVE TypeOK'
  <2>1. job[s] \in Job /\ job[s].target \in Users /\ role[job[s].target] \in RoleNames \union {NoRole}
    BY <1>8 DEF TypeOK, Job
  <2>2. [job[s] EXCEPT !.read = role[job[s].target]] \in Job
    BY <2>1 DEF Job
  <2>3. job' = [job EXCEPT ![s] = [job[s] EXCEPT !.read = role[job[s].target]]]
    BY <1>8, <2>1 DEF BootPassword, TypeOK
  <2>4. job' \in [Sessions -> Job] /\ \A x \in Sessions : job'[x].target = job[x].target
    BY <1>8, <2>1, <2>2, <2>3 DEF TypeOK, Job
  <2> QED BY <1>8, <2>1, <2>4, RolesAssumption DEF TypeOK, BootPassword, Steps
<1>9. ASSUME NEW s \in Sessions, BootRole(s) PROVE TypeOK'
  BY <1>0, <1>9, RolesAssumption DEF TypeOK, BootRole, Job, Steps
<1>10. ASSUME NEW s \in Sessions, Abort(s) PROVE TypeOK'
  BY <1>0, <1>10, RolesAssumption DEF TypeOK, Abort, Job, Steps
<1>11. CASE UNCHANGED vars
  BY <1>11 DEF TypeOK, vars
<1> QED BY <1>1, <1>2, <1>3, <1>4, <1>5, <1>6, <1>7, <1>8, <1>9, <1>10, <1>11 DEF Next

\* The initial state is typed.
LEMMA TypeInit == Init => TypeOK
  BY IdleJob, RolesAssumption DEF Init, TypeOK, Steps

\* Every variable always has its type, and rows are locked by committing init jobs only.
THEOREM TypeCorrect == Spec => []TypeOK
<1>1. TypeOK /\ [Next]_vars => TypeOK'
  BY TypeInductive
<1> QED BY <1>1, TypeInit, PTL DEF Spec

-----------------------------------------------------------------------------
(* Elevation.                                                               *)
\* A request that gets past its checks on a target that is not a super-admin asks for a
\* role no higher than the actor's; one whose target is a super-admin never does.
LEMMA NoUpdateOfSuperAdmin ==
  ASSUME RolesInv, NEW s \in Sessions, SelectActor(s), job[s].read = RoleSuperAdmin
  PROVE  Return(s)
<1>1. /\ job[s] \in Job /\ job[s].actor \in Users /\ role \in [Users -> RoleNames \union {NoRole}]
  BY DEF RolesInv, TypeOK, Job
<1>2. CASE ~HasAccount(job[s].actor)
  BY <1>2 DEF SelectActor
<1>3. CASE HasAccount(job[s].actor)
  <2>1. role[job[s].actor] \in RoleNames /\ job[s].new \in RoleNames
    BY <1>1, <1>3 DEF Job
  <2>2. DowngradesSuperior(Priority[job[s].new], Priority[job[s].read],
                           Priority[role[job[s].actor]])
    BY <2>1, RolesAssumption DEF DowngradesSuperior
  <2> QED BY <2>2 DEF SelectActor
<1> QED BY <1>2, <1>3

\* The strengthening holds initially.
LEMMA RolesInvInit == Init => RolesInv
  BY TypeInit DEF Init, RolesInv, OnlyBootstrapElevates

\* Every step preserves the strengthening.
LEMMA RolesInvInductive == RolesInv /\ [Next]_vars => RolesInv'
<1> SUFFICES ASSUME RolesInv, [Next]_vars PROVE RolesInv'
  OBVIOUS
<1>0. TypeOK /\ TypeOK'
  BY TypeInductive DEF RolesInv
<1>1. ASSUME NEW u \in Users, Register(u) PROVE RolesInv'
  BY <1>0, <1>1, RolesAssumption DEF RolesInv, TypeOK, OnlyBootstrapElevates, Register
<1>2. ASSUME (\E u \in Users : SignIn(u)) \/ (\E gone \in SUBSET Users : Expire(gone))
      PROVE RolesInv'
  BY <1>0, <1>2, RolesAssumption DEF RolesInv, TypeOK, OnlyBootstrapElevates, SignIn, Expire
<1>3. ASSUME NEW s \in Sessions, NEW a \in Users, NEW t \in Users, NEW r \in RoleNames,
             UpdateRole(s, a, t, r)
      PROVE RolesInv'
  BY <1>0, <1>3 DEF RolesInv, TypeOK, OnlyBootstrapElevates, UpdateRole, Admitted, Job
<1>4. ASSUME NEW s \in Sessions, SelectTarget(s) PROVE RolesInv'
  <2>1. /\ pc[s] = "target" /\ booted /\ UNCHANGED <<role, holders, lock, booted>>
        /\ job[s].target \in Users
    BY <1>0, <1>4 DEF RolesInv, SelectTarget, TypeOK, Job
  <2>2. /\ \A x \in Sessions \ {s} : job'[x] = job[x] /\ pc'[x] = pc[x]
        /\ \/ pc'[s] = "idle"
           \/ pc'[s] = "actor" /\ job'[s].read = role[job[s].target]
                              /\ job'[s].target = job[s].target
                              /\ HasAccount(job[s].target)
    <3>1. CASE HasAccount(job[s].target)
      <4>1. job'[s] = [job[s] EXCEPT !.read = role[job[s].target]] /\ pc'[s] = "actor"
        BY <1>0, <1>4, <3>1 DEF SelectTarget, TypeOK
      <4>2. job[s] \in Job
        BY <1>0 DEF TypeOK
      <4>3. job'[s].read = role[job[s].target] /\ job'[s].target = job[s].target
        BY <4>1, <4>2 DEF Job
      <4> QED BY <1>0, <1>4, <3>1, <4>1, <4>3 DEF SelectTarget, TypeOK
    <3>2. CASE ~HasAccount(job[s].target)
      BY <1>0, <1>4, <3>2 DEF SelectTarget, TypeOK
    <3> QED BY <3>1, <3>2
  <2>3. role[job[s].target] \in RoleNames \union {NoRole}
    BY <1>0, <2>1 DEF TypeOK
  <2>4. PICK u \in Users : IsSuperAdmin(u) /\ \A x \in Sessions : ~Reached(x, u)
    BY <2>1 DEF RolesInv
  <2>5. IsSuperAdmin(u)' /\ \A x \in Sessions : ~Reached(x, u)'
    BY <2>1, <2>2, <2>4
  <2>6. \A x \in Sessions : /\ pc'[x] = "actor" => job'[x].read \in RoleNames
                            /\ pc'[x] = "update" => Decided(x)'
                            /\ pc'[x] = "insert" => job'[x].read = NoRole
                            /\ pc'[x] = "role" => job'[x].read = role'[job'[x].target]
    BY <2>1, <2>2, <2>3 DEF RolesInv
  <2> QED BY <1>0, <2>1, <2>5, <2>6 DEF RolesInv, OnlyBootstrapElevates
<1>5. ASSUME NEW s \in Sessions, SelectActor(s) PROVE RolesInv'
  <2>1. /\ pc[s] = "actor" /\ booted /\ UNCHANGED <<role, holders, lock, booted>>
        /\ \A x \in Sessions \ {s} : job'[x] = job[x] /\ pc'[x] = pc[x]
        /\ \/ pc'[s] = "idle"
           \/ pc'[s] = "update" /\ job'[s].target = job[s].target /\ Decided(s)'
    <3>1. job[s].read \in RoleNames \union {NoRole} /\ booted /\ pc[s] = "actor"
      BY <1>0, <1>5 DEF RolesInv, SelectActor, TypeOK, Job
    <3>2. job[s].read \in RoleNames
      BY <3>1 DEF RolesInv
    <3>3. UNCHANGED <<role, holders, lock, booted>>
      BY <1>5 DEF SelectActor
    <3>4. CASE Return(s)
      BY <1>0, <3>1, <3>3, <3>4 DEF TypeOK
    <3>5. CASE ~Return(s)
      <4>1. /\ Goto(s, "update")
            /\ \A x \in Sessions \ {s} : job'[x] = job[x]
            /\ job'[s].target = job[s].target /\ job'[s].read = job[s].read
            /\ job'[s].own \in RoleNames
            /\ ~ToHigher(Priority[job'[s].new], Priority[job'[s].read], Priority[job'[s].own])
            /\ ~DowngradesSuperior(Priority[job'[s].new], Priority[job'[s].read],
                                   Priority[job'[s].own])
        BY <1>0, <1>5, <3>1, <3>5, ActorRead
      <4> QED BY <1>0, <3>1, <3>2, <3>3, <4>1 DEF TypeOK
    <3> QED BY <3>4, <3>5
  <2>2. job[s].read = RoleSuperAdmin => pc'[s] = "idle"
    BY <1>0, <1>5, NoUpdateOfSuperAdmin DEF TypeOK
  <2>3. PICK u \in Users : IsSuperAdmin(u) /\ \A x \in Sessions : ~Reached(x, u)
    BY <2>1 DEF RolesInv
  <2>4. IsSuperAdmin(u)' /\ \A x \in Sessions : ~Reached(x, u)'
    BY <2>1, <2>2, <2>3
  <2> QED BY <1>0, <2>1, <2>4 DEF RolesInv, OnlyBootstrapElevates
<1>6. ASSUME NEW s \in Sessions, Update(s) PROVE RolesInv'
  <2>1. /\ pc[s] = "update" /\ booted /\ UNCHANGED <<holders, lock, booted>>
        /\ job[s].target \in Users /\ IsFree(job[s].target)
    BY <1>0, <1>6 DEF RolesInv, Update, TypeOK, Job
  <2>2. /\ \A x \in Sessions \ {s} : job'[x] = job[x] /\ pc'[x] = pc[x]
        /\ pc'[s] = "idle"
        /\ \A u \in Users \ {job[s].target} : role'[u] = role[u]
    BY <1>0, <1>6 DEF Update, TypeOK
  <2>3. PICK u \in Users : IsSuperAdmin(u) /\ \A x \in Sessions : ~Reached(x, u)
    BY <2>1 DEF RolesInv
  <2>4. role'[u] = RoleSuperAdmin /\ \A x \in Sessions : ~Reached(x, u)'
    BY <2>1, <2>2, <2>3
  <2>5. \A x \in Sessions : pc'[x] = "role" => job'[x].read = role'[job'[x].target]
    <3> SUFFICES ASSUME NEW x \in Sessions, pc'[x] = "role"
                 PROVE  job'[x].read = role'[job'[x].target]
      OBVIOUS
    <3>1. x # s /\ pc[x] = "role" /\ job'[x] = job[x]
      BY <2>2
    <3>2. job[x].target \in Users /\ lock[job[x].target] = x
      BY <1>0, <3>1 DEF TypeOK, Job
    <3>3. job[x].target # job[s].target
      BY <2>1, <3>2, RolesAssumption
    <3> QED BY <2>2, <3>1, <3>2, <3>3 DEF RolesInv
  <2> QED BY <1>0, <2>1, <2>2, <2>4, <2>5 DEF RolesInv, OnlyBootstrapElevates
<1>7. ASSUME NEW s \in Sessions, NEW u \in Roots, Bootstrap(s, u) PROVE RolesInv'
  BY <1>0, <1>7 DEF RolesInv, TypeOK, OnlyBootstrapElevates, Bootstrap, Job
<1>8. ASSUME NEW s \in Sessions, BootInsert(s) \/ BootPassword(s) PROVE RolesInv'
  <2>1. /\ pc[s] \in {"insert", "password"} /\ UNCHANGED <<role, holders, booted>>
        /\ \A x \in Sessions \ {s} : job'[x] = job[x] /\ pc'[x] = pc[x]
        /\ pc'[s] \in {"idle", "role"}
    BY <1>0, <1>8 DEF BootInsert, BootPassword, TypeOK
  <2>2. pc'[s] = "role" => job'[s].read = role[job'[s].target]
    <3>1. CASE BootInsert(s)
      BY <1>0, <3>1 DEF BootInsert, TypeOK, RolesInv
    <3>2. CASE BootPassword(s)
      <4>1. job[s] \in Job /\ job'[s] = [job[s] EXCEPT !.read = role[job[s].target]]
        BY <1>0, <3>2 DEF BootPassword, TypeOK
      <4> QED BY <4>1 DEF Job
    <3> QED BY <1>8, <3>1, <3>2
  <2> QED BY <1>0, <2>1, <2>2 DEF RolesInv, OnlyBootstrapElevates
<1>9. ASSUME NEW s \in Sessions, BootRole(s) PROVE RolesInv'
  BY <1>0, <1>9, SMTT(20) DEF RolesInv, TypeOK, OnlyBootstrapElevates, BootRole, Job
<1>10. ASSUME NEW s \in Sessions, Abort(s) PROVE RolesInv'
  BY <1>0, <1>10 DEF RolesInv, TypeOK, OnlyBootstrapElevates, Abort, Job
<1>11. CASE UNCHANGED vars
  BY <1>11 DEF RolesInv, TypeOK, OnlyBootstrapElevates, vars
<1> QED BY <1>1, <1>2, <1>3, <1>4, <1>5, <1>6, <1>7, <1>8, <1>9, <1>10, <1>11 DEF Next

\* RolesInv is an invariant.
THEOREM RolesInvariant == Spec => []RolesInv
<1>1. RolesInv /\ [Next]_vars => RolesInv'
  BY RolesInvInductive
<1> QED BY <1>1, RolesInvInit, PTL DEF Spec

\* Before the first init job commits nobody is more than a user, for any configuration
\* in which users may not change roles.
THEOREM Elevation == Spec => []OnlyBootstrapElevates
<1>1. RolesInv => OnlyBootstrapElevates
  BY DEF RolesInv
<1> QED BY <1>1, RolesInvariant, PTL

\* After it there is a super-admin for ever, for any number of racing requests.
THEOREM SuperAdmins == Spec => []SuperAdminRemains
<1>1. RolesInv => SuperAdminRemains
  BY DEF RolesInv, SuperAdminRemains
<1> QED BY <1>1, RolesInvariant, PTL

\* An init job that commits leaves its account a super-admin.
THEOREM Bootstraps == Spec => BootstrapTakes
<1>1. ASSUME RolesInv, NEW s \in Sessions, BootRole(s)
      PROVE  role'[job[s].target] = RoleSuperAdmin
  <2>1. /\ job[s].read = role[job[s].target] /\ job[s].target \in Users
        /\ role \in [Users -> RoleNames \union {NoRole}]
    BY <1>1 DEF RolesInv, TypeOK, Job, BootRole
  <2> QED BY <1>1, <2>1 DEF BootRole
<1>2. RolesInv => [\A s \in Sessions : BootRole(s) => role'[job[s].target] = RoleSuperAdmin]_vars
  BY <1>1
<1> QED BY <1>2, RolesInvariant, PTL DEF BootstrapTakes

\* Whatever the configured ranks, an update breaks the hierarchy only if a role it was
\* decided on changed before it wrote.
THEOREM Hierarchy == Spec => HierarchyUnlessRaced
<1>1. ASSUME RolesInv, NEW s \in Sessions, Update(s),
             role[job[s].target] = job[s].read, role[job[s].actor] = job[s].own
      PROVE  Obeys(job[s].actor, job[s].target)
  <2>1. /\ job[s] \in Job /\ job[s].target \in Users /\ job[s].new \in RoleNames
        /\ role \in [Users -> RoleNames \union {NoRole}] /\ Decided(s)
    BY <1>1 DEF RolesInv, TypeOK, Job, Update
  <2>2. role'[job[s].target] = job[s].new
    BY <1>1, <2>1 DEF Update
  <2>3. /\ Priority[job[s].new] \in Nat /\ Priority[job[s].read] \in Nat
        /\ Priority[job[s].own] \in Nat
    BY <2>1, RolesAssumption
  <2> QED BY <1>1, <2>1, <2>2, <2>3 DEF Obeys, Rank, ToHigher, DowngradesSuperior
<1>2. RolesInv => [\A s \in Sessions :
                     Update(s) /\ role[job[s].target] = job[s].read
                               /\ role[job[s].actor] = job[s].own
                       => Obeys(job[s].actor, job[s].target)]_vars
  BY <1>1
<1> QED BY <1>2, RolesInvariant, PTL DEF HierarchyUnlessRaced
=============================================================================
