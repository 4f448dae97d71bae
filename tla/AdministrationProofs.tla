------------------------- MODULE AdministrationProofs -------------------------
(***************************************************************************)
(* Proofs about Administration: for any tokens, roles and requests, what   *)
(* is proved of Tokens and of Roles holds of the two together.             *)
(***************************************************************************)
EXTENDS Administration, TLAPS

-----------------------------------------------------------------------------
(* The composition implements Tokens.                                       *)
\* Statements of role updates and init jobs are steps at which a role changes, or none.
LEMMA StepOfTokens == [Next]_vars => [T!Next]_(T!vars)
<1> SUFFICES ASSUME [Next]_vars
             PROVE  T!Next \/ UNCHANGED T!vars
  OBVIOUS
<1> USE DEF T!vars, T!account, T!signed, T!Next
<1>1. CASE UNCHANGED vars
  BY <1>1 DEF vars, signedIn
<1>2. CASE T!Tick \/ T!SignAnon
  BY <1>2
<1>3. ASSUME NEW s \in Sessions, TokenStep(s) PROVE T!Next
  BY <1>3 DEF TokenStep
<1>4. ASSUME NEW s \in Sessions, NEW a \in accesses, T!Admit(s, a) PROVE T!Next
  BY <1>4
<1>5. CASE RoleStep
  BY <1>5 DEF RoleStep, signedIn
<1> QED
  BY <1>1, <1>2, <1>3, <1>4, <1>5 DEF Next, UpdateRole

\* What Tokens allows of roles includes what Roles does to them.
THEOREM TokensImplemented == Spec => ImplementsTokens
<1>1. Init => T!Init
  BY DEF Init
<1> QED
  BY <1>1, StepOfTokens, PTL DEF Spec, ImplementsTokens, T!Spec

-----------------------------------------------------------------------------
(* The composition implements Roles.                                        *)
\* Whether somebody holds a token that passes the route depends on Tokens alone.
LEMMA HoldersKept ==
  ASSUME UNCHANGED signedIn
  PROVE  T!Holders' = T!Holders
  BY DEF signedIn, T!Holders, T!Signing

\* Admitting a request signs nothing: the holders are the same after it, and its caller
\* is one of them.
LEMMA AdmittedHolds ==
  ASSUME T!TokensInv, NEW s \in Sessions, NEW a \in accesses, T!Admit(s, a),
         a.role \in Patchers, a.user \in Users
  PROVE  a.user \in T!Holders /\ T!Holders' = T!Holders
<1>1. request[s] = "idle" /\ now < a.expires /\ UNCHANGED <<role, lastHeld, refreshes, accesses, now>>
  BY DEF T!Admit, T!Start, T!account, T!signed
<1>2. request \in [Sessions -> T!Steps] /\ claims \in [Sessions -> T!Job]
  BY DEF T!TokensInv, T!TypeOK
<1>3. /\ request'[s] = "acting"
      /\ \A x \in Sessions \ {s} : request'[x] = request[x] /\ claims'[x] = claims[x]
  BY <1>2 DEF T!Admit, T!Start
<1>4. \A x \in Sessions : T!Signing(x)' <=> T!Signing(x)
  BY <1>1, <1>3 DEF T!Signing
<1>5. \A x \in Sessions : T!Signing(x) => claims'[x] = claims[x]
  BY <1>1, <1>3 DEF T!Signing
<1> QED
  BY <1>1, <1>4, <1>5 DEF T!Holders

\* With the holders left to the tokens, the statements are those of Roles.
LEMMA StatementOfRoles == ASSUME Statement, T!Holders' = T!Holders
                          PROVE  R!Next
<1> USE DEF Rows!HasAccount, R!HasAccount, Rows!IsFree, R!IsFree, Rows!Goto, R!Goto,
            Rows!Return, R!Return, Rows!Idle, R!Idle
<1>1. ASSUME NEW u \in Users, Rows!Register(u) PROVE R!Register(u)
  BY <1>1 DEF Rows!Register, R!Register
<1>2. ASSUME NEW s \in Sessions, Rows!SelectTarget(s) PROVE R!SelectTarget(s)
  BY <1>2 DEF Rows!SelectTarget, R!SelectTarget
<1>3. ASSUME NEW s \in Sessions, Rows!SelectActor(s) PROVE R!SelectActor(s)
  BY <1>3 DEF Rows!SelectActor, R!SelectActor, Rows!ToHigher, R!ToHigher,
              Rows!DowngradesSuperior, R!DowngradesSuperior
<1>4. ASSUME NEW s \in Sessions, Rows!Update(s) PROVE R!Update(s)
  BY <1>4 DEF Rows!Update, R!Update
<1>5. ASSUME NEW s \in Sessions, NEW u \in Roots, Rows!Bootstrap(s, u) PROVE R!Bootstrap(s, u)
  BY <1>5 DEF Rows!Bootstrap, R!Bootstrap
<1>6. ASSUME NEW s \in Sessions, Rows!BootInsert(s) PROVE R!BootInsert(s)
  BY <1>6 DEF Rows!BootInsert, R!BootInsert
<1>7. ASSUME NEW s \in Sessions, Rows!BootPassword(s) PROVE R!BootPassword(s)
  BY <1>7 DEF Rows!BootPassword, R!BootPassword
<1>8. ASSUME NEW s \in Sessions, Rows!BootRole(s) PROVE R!BootRole(s)
  BY <1>8 DEF Rows!BootRole, R!BootRole
<1>9. ASSUME NEW s \in Sessions, Rows!Abort(s) PROVE R!Abort(s)
  BY <1>9 DEF Rows!Abort, R!Abort
<1> QED
  BY <1>1, <1>2, <1>3, <1>4, <1>5, <1>6, <1>7, <1>8, <1>9 DEF Statement, R!Next

\* A request that the middleware admits is one that Roles lets through.
LEMMA UpdateOfRoles ==
  ASSUME T!TokensInv, NEW s \in Sessions, NEW a \in accesses, NEW t \in Users,
         NEW r \in RoleNames, UpdateRole(s, a, t, r)
  PROVE  R!Next
<1>1. a.user \in Users /\ T!Admit(s, a) /\ a.role \in Patchers
  BY DEF UpdateRole, Rows!UpdateRole, Rows!Admitted
<1>2. a.user \in T!Holders /\ T!Holders' = T!Holders
  BY <1>1, AdmittedHolds
<1>3. R!UpdateRole(s, a.user, t, r)
  BY <1>2 DEF UpdateRole, Rows!UpdateRole, R!UpdateRole, R!Admitted, Rows!Goto, R!Goto
<1> QED
  BY <1>1, <1>3 DEF R!Next

\* The holders come and go as Roles says: by a sign-in of somebody whose role passes the
\* route, or by expiry.
LEMMA HoldersOfRoles ==
  ASSUME T!Holders' \subseteq T!Holders \/ \E u \in Users : T!Gains(u),
         UNCHANGED <<role, administered>>
  PROVE  R!Next \/ UNCHANGED R!vars
<1>1. T!Holders \subseteq Users
  BY DEF T!Holders
<1>2. ASSUME NEW u \in Users, T!Gains(u) PROVE R!SignIn(u)
  BY <1>2 DEF T!Gains, R!SignIn, administered
<1>3. ASSUME T!Holders' \subseteq T!Holders, T!Holders' # T!Holders
      PROVE  R!Expire(T!Holders \ T!Holders')
  BY <1>3 DEF R!Expire, administered
<1>4. CASE T!Holders' = T!Holders
  BY <1>4 DEF R!vars, administered
<1> QED
  BY <1>1, <1>2, <1>3, <1>4 DEF R!Next

LEMMA StepOfRoles ==
  ASSUME T!TokensInv, [Next]_vars,
         [T!Holders' \subseteq T!Holders \/ \E u \in Users : T!Gains(u)]_(T!vars)
  PROVE  R!Next \/ UNCHANGED R!vars
<1> USE DEF vars, T!vars, T!account, T!signed, signedIn
<1>1. CASE UNCHANGED vars
  BY <1>1, HoldersKept DEF R!vars, administered
<1>2. CASE UNCHANGED T!vars /\ UNCHANGED <<role, administered>>
  BY <1>2, HoldersKept DEF R!vars, administered
<1>3. CASE (T!Tick \/ T!SignAnon) /\ UNCHANGED administered
  <2>1. UNCHANGED role
    BY <1>3 DEF T!Tick, T!SignAnon
  <2> QED
    BY <1>2, <1>3, <2>1, HoldersOfRoles
<1>4. ASSUME NEW s \in Sessions, TokenStep(s) PROVE R!Next \/ UNCHANGED R!vars
  <2>1. UNCHANGED <<role, administered>>
    BY <1>4 DEF TokenStep, T!SignIn, T!SignRefreshToken, T!SignAccessToken, T!Reload, T!End,
                T!Admit, T!Refresh
  <2> QED
    BY <1>2, <2>1, HoldersOfRoles
<1>5. CASE RoleStep
  <2>1. UNCHANGED signedIn
    BY <1>5 DEF RoleStep, T!SetRole
  <2> QED
    BY <1>5, <2>1, HoldersKept, StatementOfRoles DEF RoleStep
<1> QED
  BY <1>1, <1>3, <1>4, <1>5, UpdateOfRoles DEF Next

\* Nothing is lost by looking at roles and tokens apart: with the tokens as they are signed,
\* refreshed and expire, and roles as requests and init jobs change them, the service
\* behaves as Roles says.
THEOREM RolesImplemented == ASSUME Assumption PROVE Spec => ImplementsRoles
<1>1. Init => R!Init
  BY DEF Init, T!Init, R!Init, T!Holders, T!Signing, Rows!Idle, R!Idle
<1>2. T!Spec => []T!TokensInv
  BY T!Invariant DEF Assumption
<1>3. T!Spec => T!HoldersHaveRole
  BY T!HoldersEarned DEF Assumption
<1>4. T!TokensInv /\ [Next]_vars
        /\ [T!Holders' \subseteq T!Holders \/ \E u \in Users : T!Gains(u)]_(T!vars)
      => [R!Next]_(R!vars)
  BY StepOfRoles
<1> QED
  BY <1>1, <1>2, <1>3, <1>4, TokensImplemented, PTL
  DEF Spec, ImplementsTokens, ImplementsRoles, R!Spec, T!HoldersHaveRole

\* The safety of Roles, for the service with its tokens: before an init job nobody is
\* more than a user or passes the route, and after one there is always a super-admin.
THEOREM Administrators ==
  ASSUME Assumption
  PROVE  Spec => [](R!OnlyBootstrapElevates /\ R!SuperAdminRemains)
<1>1. R!Spec => []R!OnlyBootstrapElevates
  BY R!Elevation DEF Assumption
<1>2. R!Spec => []R!SuperAdminRemains
  BY R!SuperAdmins DEF Assumption
<1> QED
  BY <1>1, <1>2, RolesImplemented, PTL DEF ImplementsRoles

-----------------------------------------------------------------------------
(* Whom a role update acts for.                                             *)
\* A step of tokens touches one session.
LEMMA OneSession ==
  ASSUME T!TokensInv, NEW s \in Sessions, TokenStep(s), NEW x \in Sessions, x # s
  PROVE  request'[x] = request[x] /\ claims'[x] = claims[x]
<1>1. request \in [Sessions -> T!Steps] /\ claims \in [Sessions -> T!Job]
  BY DEF T!TokensInv, T!TypeOK
<1>2. ASSUME NEW u \in Users, T!SignIn(s, u)
      PROVE  request'[x] = request[x] /\ claims'[x] = claims[x]
  BY <1>1, <1>2 DEF T!SignIn, T!Start
<1>3. ASSUME NEW j \in Jtis, T!SignRefreshToken(s, j)
      PROVE  request'[x] = request[x] /\ claims'[x] = claims[x]
  BY <1>1, <1>3 DEF T!SignRefreshToken, T!Goto
<1>4. CASE T!SignAccessToken(s) \/ T!End(s)
  BY <1>1, <1>4 DEF T!SignAccessToken, T!End, T!Return, T!Goto
<1>5. CASE T!Reload(s)
  BY <1>1, <1>5 DEF T!Reload, T!Goto
<1>6. ASSUME NEW a \in accesses, T!Admit(s, a)
      PROVE  request'[x] = request[x] /\ claims'[x] = claims[x]
  BY <1>1, <1>6 DEF T!Admit, T!Start
<1>7. ASSUME NEW a \in accesses, NEW t \in refreshes, T!Refresh(s, a, t)
      PROVE  request'[x] = request[x] /\ claims'[x] = claims[x]
  BY <1>1, <1>7 DEF T!Refresh, T!Start
<1> QED
  BY <1>2, <1>3, <1>4, <1>5, <1>6, <1>7 DEF TokenStep

\* Between its admission and its end a role update keeps its actor, and no other statement
\* starts one.
LEMMA ActorKept ==
  ASSUME R!TypeOK, Statement, NEW x \in Sessions, Updating(x)'
  PROVE  Updating(x) /\ update'[x].actor = update[x].actor
<1> USE DEF Updating, Rows!HasAccount, Rows!IsFree, Rows!Goto, Rows!Return
<1>1. at \in [Sessions -> R!Steps] /\ update \in [Sessions -> R!Job]
  BY DEF R!TypeOK
<1>2. ASSUME NEW u \in Users, Rows!Register(u) PROVE UNCHANGED <<at, update>>
  BY <1>2 DEF Rows!Register
<1>3. ASSUME NEW s \in Sessions, Rows!SelectTarget(s)
      PROVE  Updating(x) /\ update'[x].actor = update[x].actor
  BY <1>1, <1>3 DEF Rows!SelectTarget, R!Job
<1>4. ASSUME NEW s \in Sessions, Rows!SelectActor(s)
      PROVE  Updating(x) /\ update'[x].actor = update[x].actor
  <2>1. at[s] = "actor"
    BY <1>4 DEF Rows!SelectActor
  <2>2. CASE Rows!Return(s)
    BY <1>1, <2>2
  <2>3. CASE /\ update' = [update EXCEPT ![s].own = role[update[s].actor]]
             /\ Rows!Goto(s, "update")
    BY <1>1, <2>1, <2>3 DEF R!Job
  <2> QED
    BY <1>4, <2>2, <2>3 DEF Rows!SelectActor
<1>5. ASSUME NEW s \in Sessions, Rows!Update(s) \/ Rows!BootRole(s) \/ Rows!Abort(s)
      PROVE  Updating(x) /\ update'[x].actor = update[x].actor
  BY <1>1, <1>5 DEF Rows!Update, Rows!BootRole, Rows!Abort
<1>6. ASSUME NEW s \in Sessions, NEW u \in Roots, Rows!Bootstrap(s, u)
      PROVE  Updating(x) /\ update'[x].actor = update[x].actor
  BY <1>1, <1>6 DEF Rows!Bootstrap
<1>7. ASSUME NEW s \in Sessions, Rows!BootInsert(s)
      PROVE  Updating(x) /\ update'[x].actor = update[x].actor
  BY <1>1, <1>7 DEF Rows!BootInsert
<1>8. ASSUME NEW s \in Sessions, Rows!BootPassword(s)
      PROVE  Updating(x) /\ update'[x].actor = update[x].actor
  BY <1>1, <1>8 DEF Rows!BootPassword
<1> QED
  BY <1>2, <1>3, <1>4, <1>5, <1>6, <1>7, <1>8 DEF Statement

LEMMA StepAuthorised ==
  ASSUME T!TokensInv, R!TypeOK, [Next]_vars, \A s \in Sessions : Authorised(s),
         NEW x \in Sessions
  PROVE  Authorised(x)'
<1> USE DEF Authorised, Updating, signedIn, administered
<1>1. CASE UNCHANGED vars
  BY <1>1 DEF vars
<1>2. CASE (T!Tick \/ T!SignAnon) /\ UNCHANGED administered
  BY <1>2 DEF T!Tick, T!SignAnon
<1>3. ASSUME NEW s \in Sessions, TokenStep(s) PROVE Authorised(x)'
  <2>1. CASE x = s
    BY <1>3, <2>1 DEF TokenStep
  <2>2. CASE x # s
    BY <1>3, <2>2, OneSession DEF TokenStep
  <2> QED
    BY <2>1, <2>2
<1>4. ASSUME NEW s \in Sessions, NEW a \in accesses, NEW t \in Users, NEW r \in RoleNames,
             UpdateRole(s, a, t, r)
      PROVE  Authorised(x)'
  <2>1. /\ request \in [Sessions -> T!Steps] /\ claims \in [Sessions -> T!Job]
        /\ at \in [Sessions -> R!Steps] /\ update \in [Sessions -> R!Job]
    BY DEF T!TokensInv, T!TypeOK, R!TypeOK
  <2>2. /\ T!Admit(s, a) /\ Rows!UpdateRole(s, a.user, t, r)
        /\ a.role \in Patchers /\ a.user \in Users
    BY <1>4 DEF UpdateRole, Rows!UpdateRole, Rows!Admitted
  <2>3. CASE x = s
    <3>1. request'[s] = "acting" /\ claims'[s].user = a.user /\ claims'[s].role = a.role
      BY <2>1, <2>2 DEF T!Admit, T!Start
    <3>2. update'[s].actor = a.user
      BY <2>1, <2>2 DEF Rows!UpdateRole
    <3> QED
      BY <2>2, <2>3, <3>1, <3>2
  <2>4. CASE x # s
    <3>1. request'[x] = request[x] /\ claims'[x] = claims[x]
      BY <2>1, <2>2, <2>4 DEF T!Admit, T!Start
    <3>2. at'[x] = at[x] /\ update'[x] = update[x]
      BY <2>1, <2>2, <2>4 DEF Rows!UpdateRole, Rows!Goto
    <3> QED
      BY <3>1, <3>2
  <2> QED
    BY <2>3, <2>4
<1>5. CASE RoleStep
  <2>1. UNCHANGED <<request, claims>>
    BY <1>5 DEF RoleStep, T!SetRole
  <2> QED
    BY <1>5, <2>1, ActorKept DEF RoleStep
<1> QED
  BY <1>1, <1>2, <1>3, <1>4, <1>5 DEF Next

\* Whoever has a role update in flight shows a token for it.
LEMMA UpdatesAuthorised == ASSUME Assumption
                           PROVE  Spec => [](\A s \in Sessions : Authorised(s))
<1>1. Init => \A s \in Sessions : Authorised(s)
  BY DEF Init, Authorised, Updating
<1>2. T!Spec => []T!TokensInv
  BY T!Invariant DEF Assumption
<1>3. R!Spec => []R!TypeOK
  BY R!TypeCorrect DEF Assumption
<1>4. T!TokensInv /\ R!TypeOK /\ (\A s \in Sessions : Authorised(s)) /\ [Next]_vars
        => (\A s \in Sessions : Authorised(s))'
  BY StepAuthorised
<1> QED
  BY <1>1, <1>2, <1>3, <1>4, TokensImplemented, RolesImplemented, PTL
  DEF Spec, ImplementsTokens, ImplementsRoles

\* A demoted administrator cannot change roles for longer than an access token lives, the
\* time its signing took and that of the request.
THEOREM DemotedLosePower == ASSUME Assumption PROVE Spec => []PowerFades
<1>1. T!Spec => []T!RoleChangesLand
  BY T!Demotions DEF Assumption
<1>2. ASSUME \A s \in Sessions : Authorised(s), T!RoleChangesLand
      PROVE  PowerFades
  <2> SUFFICES ASSUME NEW s \in Sessions, Updating(s)
               PROVE  \E r \in Patchers :
                        LET held == lastHeld[update[s].actor][r]
                        IN held >= 0 /\ now <= held + AccessTTL + 2 * RequestTimeout
    BY DEF PowerFades
  <2>1. /\ request[s] = "acting" /\ update[s].actor = claims[s].user
        /\ claims[s].role \in Patchers /\ claims[s].user \in Users
    BY <1>2 DEF Authorised
  <2>2. T!Named(claims[s])
    BY <2>1 DEF T!Named, Assumption, T!TokensAssumption
  <2> QED
    BY <1>2, <2>1, <2>2 DEF T!RoleChangesLand
<1> QED
  BY <1>1, <1>2, UpdatesAuthorised, TokensImplemented, PTL DEF ImplementsTokens
=============================================================================
